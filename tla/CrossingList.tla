---------------------------- MODULE CrossingList ----------------------------
(* The crossings the phone shows: the ones that came as pushes             *)
(* (AlertIntake), merged with the ones a thread reads back from the server *)
(* (CrossingsRefresher) whenever the app is opened.  Saving the server     *)
(* settings clears both, under a read that may still be under way, and     *)
(* they die with the process: nothing of the list is kept on disk.         *)
EXTENDS ViewerSettings

CONSTANTS
    Crossings,    \* [server, place, at]: a crossing of a family, its Place and its instant
    Limit,        \* DEFAULT_LIMIT: how many crossings are asked for
    MaxReads      \* bound on reads waiting for the thread

ASSUME ListAssumption ==
    /\ Limit \in Nat \ {0}
    /\ \A c \in Crossings : c.server \in Servers /\ c.at \in Nat \ {0}

VARIABLES
    recorded,         \* the crossings the servers have recorded
    removed,          \* the Places that are no more
    pushed, lastRead, discardedPushes,   \* AlertSurface
    readTasks, reading

surfaceVars == <<pushed, lastRead, discardedPushes>>
threadVars  == <<readTasks, reading>>
listVars    == <<settingsVars, recorded, removed, surfaceVars, threadVars>>

ListInit ==
    /\ SettingsInit /\ recorded = {} /\ removed = {}
    /\ pushed = {} /\ lastRead = None /\ discardedPushes = 0
    /\ readTasks = 0 /\ reading = None

-----------------------------------------------------------------------------
(* What is shown.                                                          *)

\* CrossingMerge.merge: each crossing once, by its identity.
Rows == pushed \cup (IF lastRead.is = "ok" THEN lastRead.rows ELSE {})

\* CrossingListView.of.
listState ==
    CASE lastRead.is = "none" -> IF Rows = {} THEN "checking" ELSE "showing"
      [] lastRead.is = "ok"   -> IF Rows = {} THEN "empty" ELSE "showing"
      [] OTHER                -> lastRead.is

-----------------------------------------------------------------------------
(* The screen.                                                             *)

refreshInBackground == readTasks < MaxReads /\ readTasks' = readTasks + 1

\* The app is opened, or Refresh is pressed.
Refresh ==
    /\ refreshInBackground
    /\ UNCHANGED <<settingsVars, recorded, removed, surfaceVars, reading>>

WriteSettings == (SaveUrl \/ SaveViewerToken) /\ UNCHANGED <<recorded, removed, surfaceVars, threadVars>>

Cleared == pushed' = {} /\ lastRead' = None /\ discardedPushes' = 0

\* Mutant: Save clears the list and leaves the next read to the next opening.
resetListOnly ==
    /\ Saved /\ Cleared
    /\ UNCHANGED <<recorded, removed, threadVars>>

\* The end of a press of Save: AlertSurface.reset, and a read with the new settings.
resetList ==
    /\ Saved /\ Cleared
    /\ refreshInBackground
    /\ UNCHANGED <<recorded, removed, reading>>

\* The process dies, and with it AlertSurface, the thread and its tasks.
ListProcessDies ==
    /\ Died /\ Cleared
    /\ readTasks' = 0 /\ reading' = None
    /\ UNCHANGED <<recorded, removed>>

-----------------------------------------------------------------------------
(* Crossings and pushes.                                                   *)

\* The server records a crossing.
AppendGeofenceEvent ==
    /\ \E c \in Crossings \ recorded : c.place \notin removed /\ recorded' = recorded \cup {c}
    /\ UNCHANGED <<settingsVars, removed, surfaceVars, threadVars>>

\* remove-place: the Place's crossings go with it.  Of a Place without any nothing
\* is seen here.
RemovePlace ==
    /\ \E c \in recorded : c.place \notin removed /\ removed' = removed \cup {c.place}
    /\ UNCHANGED <<settingsVars, recorded, surfaceVars, threadVars>>

\* A push comes late, twice, out of order or never.  The notification it
\* posts is the platform's to keep.
onMessageReceived ==
    /\ \E c \in recorded : pushed' = pushed \cup {c}
    /\ UNCHANGED <<settingsVars, recorded, removed, lastRead, discardedPushes, threadVars>>

\* A push that is not a complete crossing.
recordDiscardedPush ==
    /\ Troubled /\ discardedPushes' = discardedPushes + 1
    /\ UNCHANGED <<recorded, removed, pushed, lastRead, threadVars>>

-----------------------------------------------------------------------------
(* CrossingsRefresher's thread.                                            *)

\* A server's log: what it has recorded at the Places there are.
LogOf(s) == {c \in recorded : c.server = s /\ c.place \notin removed}

\* ListGeofenceEvents: the newest `Limit` crossings of the family.
Newest(S) == {c \in S : Cardinality({d \in S : d.at > c.at}) < Limit}

\* CrossingsRefresher.refreshBlocking reads the settings, and returns when they are not usable.
ReadBack ==
    /\ readTasks > 0 /\ reading = None
    /\ readTasks' = readTasks - 1
    /\ reading' = IF readViewerConfig
                  THEN [is |-> "asking", url |-> url, token |-> token]
                  ELSE None
    /\ UNCHANGED <<settingsVars, recorded, removed, surfaceVars>>

\* `none` is a history field: whether the family has no crossing at that moment.
Listed(found) ==
    [is |-> "ok", rows |-> found, url |-> reading.url, token |-> reading.token,
     none |-> LogOf(reading.url) = {}]
Failed(kind) == [is |-> kind, url |-> reading.url, token |-> reading.token]

\* Mutant: a body that could not be read is an empty list.
crossingsLenient ==
    /\ reading.is = "asking"
    /\ \/ /\ Untroubled
          /\ reading' = IF reading.token = reading.url THEN Listed(Newest(LogOf(reading.url)))
                        ELSE Failed("credentialRejected")
       \/ /\ Troubled
          /\ reading' \in {Failed("serverUnreachable"), Listed({})}
    /\ UNCHANGED <<recorded, removed, surfaceVars, readTasks>>

\* AlertClient.crossings.  A token is refused by every server but its own; a
\* body that breaks off or does not parse is a server error.
crossings ==
    /\ reading.is = "asking"
    /\ \/ /\ Untroubled
          /\ reading' = IF reading.token = reading.url THEN Listed(Newest(LogOf(reading.url)))
                        ELSE Failed("credentialRejected")
       \/ /\ Troubled
          /\ reading' \in {Failed("serverUnreachable"), Failed("serverError")}
    /\ UNCHANGED <<recorded, removed, surfaceVars, readTasks>>

\* Mutant: a list that was read with the same settings is kept.
recordReadOnce ==
    /\ reading.is \notin {"none", "asking"}
    /\ lastRead' = IF /\ lastRead.is = "ok"
                      /\ lastRead.url = reading.url /\ lastRead.token = reading.token
                   THEN lastRead ELSE reading
    /\ reading' = None
    /\ UNCHANGED <<settingsVars, recorded, removed, pushed, discardedPushes, readTasks>>

recordRead ==
    /\ reading.is \notin {"none", "asking"}
    /\ lastRead' = reading /\ reading' = None
    /\ UNCHANGED <<settingsVars, recorded, removed, pushed, discardedPushes, readTasks>>

-----------------------------------------------------------------------------

Reader == ReadBack \/ crossings \/ recordRead

ListNext ==
    \/ Refresh \/ WriteSettings \/ resetList \/ ListProcessDies
    \/ AppendGeofenceEvent \/ RemovePlace \/ onMessageReceived \/ recordDiscardedPush
    \/ Reader

(* Fairness: the thread gets on with its task, every call it makes having  *)
(* a timeout, and a press of Save runs to its end.  Strong fairness where  *)
(* the bound on waiting tasks, which the executor has not, would hold Save *)
(* up.                                                                     *)
ListFairness ==
    /\ WF_listVars(SaveViewerToken /\ WriteSettings)
    /\ SF_listVars(resetList)
    /\ WF_listVars(Reader)

ListSpec == ListInit /\ [][ListNext]_listVars /\ ListFairness

-----------------------------------------------------------------------------

\* "No crossings" is said only of a family that had none when it was asked:
\* never for a refused, failed or unread answer
\* (alert/CrossingListView.kt:17-19).
EmptyIsTheLog == listState = "empty" => lastRead.none /\ lastRead.token = lastRead.url

\* Another family's list is on the screen of a configured phone only while a read
\* with the present settings is on its way: a read that was under way when Save was
\* pressed may be recorded after the list was cleared, and may have been made with
\* the new URL and the old token, but the one Save has asked for comes behind it
\* (ui/MainActivity.kt:800-809, alert/CrossingsRefresher.kt:22-42).
StaleListIsReplaced ==
    readViewerConfig /\ lastRead.is # "none" /\ (lastRead.url # url \/ lastRead.token # token)
        => saving.is # "none" \/ readTasks > 0 \/ reading.is # "none"

\* The app is opened again and again, and in the end lives long enough to read.
ListIsUsed == []<><<Refresh>>_listVars /\ <>[][~SaveUrl /\ ~ListProcessDies]_listVars

\* The crossings whose pushes were lost, on the way or with the process that had
\* received them, are found in the end: the list of a phone that is opened again and
\* again holds the newest crossings of its own family, although a read made with
\* other settings was answered after the list was cleared and Places were removed
\* (alert/CrossingsRefresher.kt:8-19, alert/AlertSurface.kt:19-22).
LostPushIsFound == ListIsUsed => <>[](token = url => Newest(LogOf(url)) \subseteq Rows)

\* A list that was read with other settings is not shown for ever
\* (alert/AlertSurface.kt:91: "Clears this run's alert state.").
OldReadsAreGone ==
    ListIsUsed => <>[](lastRead.is = "ok" => lastRead.url = url /\ lastRead.token = token)
=============================================================================
