-------------------------- MODULE PushRegistration --------------------------
(* A phone keeps its push address registered: PushRegistrar on the phone,  *)
(* one task at a time on its own thread, and POST /v1/push-subscriptions   *)
(* on the server (internal/server/push.go, internal/store/push.go), which  *)
(* stores the new address and then removes the one it replaces.  The       *)
(* address rotates, another viewer's token is entered, requests and        *)
(* answers are lost, and a request the phone has given up on may still be  *)
(* carried out later, next to newer ones.                                  *)
EXTENDS Integers, Sequences, FiniteSets

CONSTANTS
    Accounts,     \* viewers whose token is entered on the phone
    MaxAddress,   \* bound: addresses 1 .. MaxAddress, one after the other
    MaxLost,      \* bound on refusals, lost requests and lost answers
    MaxDeaths,    \* bound on deaths of the app's process
    MaxTasks      \* bound on tasks waiting for the registrar's thread

ASSUME RegistrationAssumption ==
    /\ MaxAddress \in Nat \ {0} /\ MaxLost \in Nat /\ MaxDeaths \in Nat /\ MaxTasks \in Nat
    /\ 0 \notin Accounts     \* None is nobody

Addresses == 1 .. MaxAddress
None      == 0

VARIABLES
    current,     \* the address FCM gives this phone now
    account,     \* the viewer whose token is stored on the phone
    remembered,  \* registeredRoutingAddress
    tasks,       \* waiting tasks: an address from onNewToken, or None for "ask"
    posting,     \* whether the thread waits for an answer, and to which message
    net,         \* messages under way or being handled: [id, account, address, replaces, stage]
    subscriptions, \* push_subscriptions: the viewer of each address, or None
    overlap,     \* history: whether two registrations were ever under way at once
    lost, deaths

registrationVars == <<current, account, remembered, tasks, posting, net, subscriptions, overlap, lost, deaths>>

RegistrationInit ==
    /\ current = 1 /\ account \in Accounts /\ remembered = None
    /\ tasks = <<>> /\ posting = None /\ net = {}
    /\ subscriptions = [a \in Addresses |-> None]
    /\ overlap = FALSE /\ lost = 0 /\ deaths = 0

PhoneUnchanged == UNCHANGED <<current, account, remembered, tasks, posting, overlap, deaths>>

-----------------------------------------------------------------------------
(* The phone.                                                              *)

registerInBackground(a) == Len(tasks) < MaxTasks /\ tasks' = Append(tasks, a)

\* MainActivity opens.
OpenActivity ==
    /\ registerInBackground(None)
    /\ UNCHANGED <<current, account, remembered, posting, net, subscriptions, overlap, lost, deaths>>

onNewToken ==
    /\ current < MaxAddress
    /\ current' = current + 1
    /\ registerInBackground(current + 1)
    /\ UNCHANGED <<account, remembered, posting, net, subscriptions, overlap, lost, deaths>>

\* Another viewer's token is saved.
SaveAccount ==
    /\ \E v \in Accounts \ {account} : account' = v
    /\ registerInBackground(None)
    /\ UNCHANGED <<current, remembered, posting, net, subscriptions, overlap, lost, deaths>>

\* A message that is not answered costs a loss or a death, so this tells the
\* messages under way apart.
NextId == lost + deaths + 1

\* Mutant: an address already remembered is not sent again.
refreshBlockingOnce ==
    /\ posting = None /\ tasks # <<>>
    /\ LET a == IF Head(tasks) = None THEN current ELSE Head(tasks) IN
        /\ net' = IF remembered = a THEN net
                  ELSE net \cup {[id |-> NextId, account |-> account, address |-> a, stage |-> "request",
                                  replaces |-> remembered]}
        /\ posting' = IF remembered = a THEN None ELSE NextId
    /\ tasks' = Tail(tasks)
    /\ overlap' = (overlap \/ net # {})
    /\ UNCHANGED <<current, account, remembered, subscriptions, lost, deaths>>

\* refreshBlocking: the address of the task, or the current one, replacing the
\* last address the server is known to have taken.
refreshBlocking ==
    /\ posting = None /\ tasks # <<>>
    /\ LET a == IF Head(tasks) = None THEN current ELSE Head(tasks) IN
       net' = net \cup {[id |-> NextId, account |-> account, address |-> a, stage |-> "request",
                         replaces |-> IF remembered = a THEN None ELSE remembered]}
    /\ posting' = NextId
    /\ tasks' = Tail(tasks)
    /\ overlap' = (overlap \/ net # {})
    /\ UNCHANGED <<current, account, remembered, subscriptions, lost, deaths>>

\* Only an accepted address is remembered.
Accepted(m) ==
    /\ m.stage = "answer" /\ posting = m.id
    /\ remembered' = m.address
    /\ posting' = None /\ net' = net \ {m}
    /\ UNCHANGED <<current, account, tasks, subscriptions, overlap, lost, deaths>>

\* Unreachable: the phone gives up; the message may still be carried out.
GiveUp ==
    /\ posting # None /\ lost < MaxLost
    /\ posting' = None /\ lost' = lost + 1
    /\ net' = {m \in net : ~(m.id = posting /\ m.stage = "answer")}
    /\ UNCHANGED <<current, account, remembered, tasks, subscriptions, overlap, deaths>>

\* The process dies with its tasks; what a remembered address was written with
\* apply() and not yet flushed is a death before Accepted.
Die ==
    /\ deaths < MaxDeaths /\ deaths' = deaths + 1
    /\ tasks' = <<>> /\ posting' = None
    /\ net' = {m \in net : m.stage # "answer"}
    /\ UNCHANGED <<current, account, remembered, subscriptions, overlap, lost>>

-----------------------------------------------------------------------------
(* The server.  An answer nobody waits for is dropped.                     *)

Advance(m, stage) ==
    net' = (net \ {m}) \cup (IF stage = "answer" /\ posting # m.id THEN {} ELSE {[m EXCEPT !.stage = stage]})

\* Mutant: the old address is removed first.
RegisterRemovesFirst(m) ==
    /\ m.stage = "request"
    /\ subscriptions' = IF m.replaces # None /\ subscriptions[m.replaces] = m.account
               THEN [subscriptions EXCEPT ![m.replaces] = None] ELSE [subscriptions EXCEPT ![m.address] = m.account]
    /\ IF m.replaces # None /\ subscriptions[m.replaces] = m.account
       THEN UNCHANGED net ELSE Advance(m, "answer")
    /\ UNCHANGED lost /\ PhoneUnchanged

\* The upsert keyed by address: the row moves to the presenting viewer.
RegisterPushSubscription(m) ==
    /\ m.stage = "request"
    /\ subscriptions' = [subscriptions EXCEPT ![m.address] = m.account]
    /\ Advance(m, IF m.replaces \in {None, m.address} THEN "answer" ELSE "supersede")
    /\ UNCHANGED lost /\ PhoneUnchanged

\* The supersede, of a row of the same viewer only.
RemovePushSubscriptionForViewer(m) ==
    /\ m.stage = "supersede"
    /\ subscriptions' = [subscriptions EXCEPT ![m.replaces] = IF @ = m.account THEN None ELSE @]
    /\ Advance(m, "answer")
    /\ UNCHANGED lost /\ PhoneUnchanged

\* A supersede that fails is logged, and the answer is the same.
SupersedeFailed(m) ==
    /\ m.stage = "supersede" /\ lost < MaxLost
    /\ lost' = lost + 1
    /\ Advance(m, "answer")
    /\ UNCHANGED subscriptions /\ PhoneUnchanged

\* The request is lost or refused before the upsert.
RegisterFailed(m) ==
    /\ m.stage = "request" /\ lost < MaxLost
    /\ lost' = lost + 1
    /\ net' = net \ {m}
    /\ posting' = IF posting = m.id THEN None ELSE posting
    /\ UNCHANGED <<current, account, remembered, tasks, subscriptions, overlap, deaths>>

-----------------------------------------------------------------------------

Handle(m) ==
    \/ RegisterPushSubscription(m) \/ RemovePushSubscriptionForViewer(m)
    \/ SupersedeFailed(m) \/ RegisterFailed(m)

RegistrationNext ==
    \/ OpenActivity \/ onNewToken \/ SaveAccount \/ refreshBlocking \/ GiveUp \/ Die
    \/ \E m \in net : Accepted(m) \/ Handle(m)

RegistrationSpec == RegistrationInit /\ [][RegistrationNext]_registrationVars

(* Fairness: the registrar's thread and the server's handlers make         *)
(* progress, and an answer that arrives is read.                           *)
RegistrationFairness ==
    /\ WF_registrationVars(refreshBlocking)
    /\ WF_registrationVars(\E m \in net : Accepted(m) \/ Handle(m))

-----------------------------------------------------------------------------

Known == {a \in Addresses : subscriptions[a] # None}

\* Registering never leaves the phone without a row it had: whatever is lost,
\* refused or fails on the way and wherever the process dies, a crossing comes
\* twice rather than not at all.  It takes two registrations under way at once
\* (one the phone gave up on, still being carried out) to undo each other
\* (internal/server/push.go:95-119).
NeverNone == [][Known # {} /\ ~overlap => Known' # {}]_registrationVars

\* A phone whose app is opened again and again is reachable in the end: once
\* its address and its account stay what they are, the current address is
\* registered to the account for good, although an answer was lost, the
\* process died before it remembered the address, or an overtaken task
\* superseded the current address by an older one
\* (alert/PushRegistrar.kt:88-104, internal/server/push.go:77-119).
EventuallyReachable ==
    (/\ []<><<OpenActivity>>_registrationVars
     /\ <>[][~onNewToken /\ ~SaveAccount]_registrationVars)
        => <>[](subscriptions[current] = account)

=============================================================================
