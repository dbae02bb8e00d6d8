------------------------------ MODULE VulnGate ------------------------------
(* The vulnerability gate of `make check` (internal/vulngate): validate    *)
(* the recorded suppressions, build and run the pinned govulncheck, read   *)
(* its whole JSON stream message by message, and decide.  The tool may     *)
(* fail to build, be killed in the middle of its stream or end with any    *)
(* status, and it reports one advisory several times, in any order.        *)
EXTENDS Integers, Sequences

CONSTANTS
    Advisories,   \* OSV ids
    Levels,       \* module 0, package 1, symbol 2
    MaxMessages,  \* bound on the messages of a stream
    MaxEntries    \* bound on the records of the suppression file

ASSUME VulnAssumption == Levels \subseteq Nat /\ MaxMessages \in Nat /\ MaxEntries \in Nat

NoFix == "none"
Fixes == {NoFix, "fixed"}

\* The messages of the stream: the config, of the deepest scan or not; a
\* finding; one that is unreadable, has an odd id or an empty trace; and the
\* descriptions of advisories (osv), which report nothing.
Finding == [kind : {"finding"}, id : Advisories, level : Levels, fixed : Fixes]
Plain(k) == [kind |-> k, id |-> "none", level |-> 0, fixed |-> NoFix]
Noise    == {Plain("config"), Plain("shallow"), Plain("unreadable"), Plain("osv")}

\* A record of the file: its id, and whether it has exactly the required keys,
\* none blank, a proper id and a date.
Entry == [id : Advisories, wellFormed : BOOLEAN]

VARIABLES
    gate,      \* "records", "install", "scan", "exited", "decode", "evaluate", "green", "red"
    entries,   \* the suppression file; <<>> if it is absent or empty
    stdout,    \* what the tool has written
    status,    \* how the tool ended: with status 0, with "other" or "none" at all
    next,      \* the message decoded next
    configured,\* the config object seen last
    deepest    \* per advisory: the merged finding, level -1 if none

vulnVars == <<gate, entries, stdout, status, next, configured, deepest>>

Unseen == [level |-> -1, fixed |-> NoFix]

VulnInit ==
    /\ gate = "records"
    /\ entries \in UNION {[1 .. n -> Entry] : n \in 0 .. MaxEntries}
    /\ stdout = <<>> /\ status = "running" /\ next = 1 /\ configured = "none"
    /\ deepest = [a \in Advisories |-> Unseen]

-----------------------------------------------------------------------------

Recorded == {entries[i].id : i \in DOMAIN entries}

\* ParseSuppressions: every entry is well formed and one advisory has one entry.
ParseSuppressions ==
    /\ \A i \in DOMAIN entries : entries[i].wellFormed
    /\ \A i, j \in DOMAIN entries : entries[i].id = entries[j].id => i = j

\* The records are looked at first, before the tool is built.
LoadSuppressions ==
    /\ gate = "records"
    /\ gate' = IF ParseSuppressions THEN "install" ELSE "red"
    /\ UNCHANGED <<entries, stdout, status, next, configured, deepest>>

\* go install of the pinned version: an inexact pin or a failing build is red.
Install ==
    /\ gate = "install"
    /\ gate' \in {"scan", "red"}
    /\ UNCHANGED <<entries, stdout, status, next, configured, deepest>>

\* The tool writes its stream ...
Emit ==
    /\ gate = "scan" /\ Len(stdout) < MaxMessages
    /\ \E m \in Finding \cup Noise : stdout' = Append(stdout, m)
    /\ UNCHANGED <<gate, entries, status, next, configured, deepest>>

\* ... and ends, whatever it has written by then: with status 0 if it has said all
\* there is to say, otherwise with another status, or killed and with none.
Exit ==
    /\ gate = "scan" /\ gate' = "exited"
    /\ status' \in {"zero", "other", "none"}
    /\ UNCHANGED <<entries, stdout, next, configured, deepest>>

\* Mutant: any status will do, as long as the tool could be run.
AnyStatus ==
    /\ gate = "exited"
    /\ gate' = IF status # "none" THEN "decode" ELSE "red"
    /\ UNCHANGED <<entries, stdout, status, next, configured, deepest>>

\* Run's error and the exit status are looked at before the stream is.
CheckStatus ==
    /\ gate = "exited"
    /\ gate' = IF status = "zero" THEN "decode" ELSE "red"
    /\ UNCHANGED <<entries, stdout, status, next, configured, deepest>>

\* Mutant: the deeper finding replaces the earlier one, its fix included.
MergeForgetsFix(d, m) ==
    IF m.level > d.level THEN [level |-> m.level, fixed |-> m.fixed] ELSE d

\* Keep the deepest level, and a fixed version wherever it appeared.
Merge(d, m) ==
    IF m.level > d.level
    THEN [level |-> m.level, fixed |-> IF m.fixed = NoFix THEN d.fixed ELSE m.fixed]
    ELSE [level |-> d.level, fixed |-> IF d.fixed = NoFix THEN m.fixed ELSE d.fixed]

\* ParseReport, one message at a time.
Decode ==
    /\ gate = "decode" /\ next <= Len(stdout)
    /\ LET m == stdout[next] IN
        \/ /\ m.kind = "unreadable" /\ gate' = "red"
           /\ UNCHANGED <<next, configured, deepest>>
        \/ /\ m.kind # "unreadable" /\ next' = next + 1
           /\ configured' = IF m.kind \in {"config", "shallow"} THEN m.kind ELSE configured
           /\ deepest' = IF m.kind = "finding" THEN [deepest EXCEPT ![m.id] = Merge(@, m)] ELSE deepest
           /\ UNCHANGED gate
    /\ UNCHANGED <<entries, stdout, status>>

\* Its end: a config of the pinned scanner and of the deepest scan.
Decoded ==
    /\ gate = "decode" /\ next > Len(stdout)
    /\ gate' = IF configured = "config" THEN "evaluate" ELSE "red"
    /\ UNCHANGED <<entries, stdout, status, next, configured, deepest>>

Reported == {a \in Advisories : deepest[a].level >= 0}
HasFix(a) == deepest[a].fixed # NoFix

Evaluate ==
    /\ gate = "evaluate"
    /\ LET unrecorded == Reported \ Recorded
           fixable    == {a \in Reported \cap Recorded : HasFix(a)}
           stale      == Recorded \ Reported IN
       gate' = IF unrecorded \cup fixable \cup stale = {} THEN "green" ELSE "red"
    /\ UNCHANGED <<entries, stdout, status, next, configured, deepest>>

VulnNext == LoadSuppressions \/ Install \/ Emit \/ Exit \/ CheckStatus \/ Decode \/ Decoded \/ Evaluate

VulnSpec == VulnInit /\ [][VulnNext]_vulnVars

-----------------------------------------------------------------------------
(* Properties.                                                             *)

Said(a) == {i \in DOMAIN stdout : stdout[i].kind = "finding" /\ stdout[i].id = a}

\* Green says what it claims, and of a whole report: each advisory reported at
\* any level is recorded, once, each record is of a reported one, and no finding
\* of a recorded one names a fix, in whichever order and how many times it was
\* reported; the tool had not broken off, every message could be read, and the last
\* config was of the deepest scan (internal/vulngate/gate.go:48-81, runner.go:96-121,
\* report.go:143-225, suppressions.go:130-160).
GreenMeansCovered ==
    gate = "green" =>
        /\ status = "zero"
        /\ \A a \in Advisories :
            /\ (Said(a) # {}) <=> (a \in Recorded)
            /\ \A i \in Said(a) : stdout[i].fixed = NoFix
        /\ \A i \in DOMAIN stdout : stdout[i].kind # "unreadable"
        /\ \E i \in DOMAIN stdout : /\ stdout[i].kind = "config"
                                    /\ \A j \in i + 1 .. Len(stdout) : stdout[j].kind # "shallow"
        /\ \A i, j \in DOMAIN entries : entries[i].id = entries[j].id => i = j

=============================================================================
