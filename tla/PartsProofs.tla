----------------------------- MODULE PartsProofs -----------------------------
(* Proofs about the parts that stand alone: BootRestart, for any number of     *)
(* reboots; TokenSource, for any number of senders, any lifetimes and any      *)
(* allowance that exceeds the two timeouts together; Startup, for every        *)
(* environment, every width of the machine's integers and every number of      *)
(* migrations; HistoryPaging, for every trail and page size; VulnGate, for     *)
(* every stream of messages and every suppression file; CivilDays, for every   *)
(* year.                                                                       *)
EXTENDS BootRestart, TokenSource, Startup, HistoryPaging, VulnGate, CivilDays,
        FiniteSetTheorems, NaturalsInduction, WellFoundedInduction, TLAPS

-----------------------------------------------------------------------------
(* BootRestart.                                                            *)

Package == [stopped : BOOLEAN, receiver : BOOLEAN]
Prefs   == [asked : BOOLEAN, configured : BOOLEAN, reason : Reasons]

BootTypeOK ==
  /\ hand \in {"person", "route"}
  /\ package \in Package /\ onDisk \in Package
  /\ prefs \in Prefs
  /\ capability \in Capabilities
  /\ service \in {"off", "killed", "starting", "foreground"}
  /\ broadcast \in BOOLEAN /\ will \in BOOLEAN
  /\ run \in 1 .. 4
  /\ step \in {"grant", "store", "launch", "prepare", "settle", "survived", "assert", "finish", "done"}
  /\ delivered \subseteq 1 .. 4 /\ misread \subseteq 1 .. 4
  /\ verdict \in {"open", "green", "red", "refused"}

\* In a person's hands: the persisted ask is what the person wants, and no
\* start is under way that nobody wanted.
AskedIsWilled == hand = "person" => prefs.asked = will /\ (service # "off" => will)

\* What the runs before run k have left: of the first a broadcast or a problem, of
\* the second a broadcast or a dump that failed, of the third no broadcast.
Past(k) ==
  /\ \A r \in delivered : r <= k
  /\ k > 1 => 1 \in delivered \/ <<1, "restart">> \in problems
  /\ k > 2 => 2 \in delivered \/ 2 \in misread
  /\ k > 3 => 3 \notin delivered

BeforeBoot == {"grant", "store", "launch", "prepare", "settle"}
Prepared   == {"launch", "prepare", "settle", "survived", "assert"}
AfterBoot  == {"survived", "assert"}

\* Only the fourth run's preparation disables the receiver.
ReceiverEnabled ==
  verdict = "open" /\ (run < 4 \/ step \in {"store", "launch", "prepare"})
    => package.receiver /\ onDisk.receiver

\* The route holds the conditions of the run it is in.
Conditions ==
  /\ step # "done" /\ (step = "grant" => run = 1)
  /\ step # "grant" => capability = "CONTINUOUS"
  /\ step \in Prepared => prefs.asked = (run # 2) /\ prefs.configured
  /\ step \in BeforeBoot => ~broadcast /\ Past(run) /\ run \notin delivered
  /\ step \in {"launch", "prepare", "settle"} => service = "off"

\* After the boot: the broadcast is on its way or has arrived exactly if the
\* boot found the app reachable, and the app has made of it what it should.
Booted ==
  /\ step \in AfterBoot =>
       /\ Past(run)
       /\ (broadcast \/ run \in delivered) <=> (~package.stopped /\ package.receiver)
       /\ ~(broadcast /\ run \in delivered)
       /\ IF run \in delivered /\ run # 2 THEN service \in {"starting", "foreground"} ELSE service = "off"
  /\ step = "assert" =>
       /\ run = 3 => package.stopped
       /\ run \notin misread => package.stopped = (run = 3)
  /\ step = "finish" =>
       /\ ~broadcast /\ Past(run + 1) /\ (run + 1) \notin delivered
       /\ 4 \in delivered => 4 \in misread \/ <<4, "restart">> \in problems

\* What a green verdict says of the runs.
Earned ==
  /\ 1 \in delivered /\ 3 \notin delivered
  /\ \A r \in {2, 4} \ misread : r \in delivered <=> r = 2

\* Of the first three runs only the first can be found wanting, after a failed dump.
Rightly == \A r \in 1 .. 3 : <<r, "restart">> \in problems => r = 1 /\ r \in misread

\* What is known of the route's progress and of its verdict.
Evidence ==
  /\ service # "killed"
  /\ ReceiverEnabled
  /\ verdict = "open" => Conditions /\ Booted
  /\ verdict = "green" => Earned /\ ~broadcast

\* The inductive invariant.
BootIInv ==
  /\ BootTypeOK /\ AskedIsWilled
  /\ hand = "route" => Evidence
  /\ hand = "person" => verdict = "open"
  /\ Rightly

\* A phone out of its box, in either's hands.
LEMMA BootInitIInv == BootInit => BootIInv
<1> SUFFICES ASSUME BootInit PROVE BootIInv
  OBVIOUS
<1>1. BootTypeOK
  <2>1. package \in Package /\ onDisk \in Package
    BY DEF BootInit, Package
  <2>2. prefs \in Prefs
    BY DEF BootInit, Prefs, Reasons, NoReason
  <2>3. /\ hand \in {"person", "route"} /\ capability \in Capabilities
        /\ service = "off" /\ run = 1 /\ step = "grant" /\ delivered = {} /\ misread = {} /\ verdict = "open"
    BY DEF BootInit, Capabilities
  <2>4. broadcast \in BOOLEAN /\ will \in BOOLEAN
    BY DEF BootInit
  <2> QED
    BY <2>1, <2>2, <2>3, <2>4 DEF BootTypeOK
<1>2. Rightly /\ Past(1)
  BY DEF BootInit, Rightly, Past
<1>3. Evidence
  BY <1>2 DEF BootInit, Evidence, ReceiverEnabled, Conditions, Booted, BeforeBoot, Prepared, AfterBoot
<1>4. AskedIsWilled
  BY DEF BootInit, AskedIsWilled
<1> QED
  BY <1>1, <1>2, <1>3, <1>4 DEF BootInit, BootIInv

\* Android's delayed write and the service's restart.
LEMMA AndroidKeeps == BootIInv /\ AndroidStep => BootIInv'
<1> SUFFICES ASSUME BootIInv, AndroidStep PROVE BootIInv'
  OBVIOUS
<1> USE DEF BootIInv, BootTypeOK, Package, Prefs, AskedIsWilled, Evidence, ReceiverEnabled, Conditions, Booted, Past, Earned, Rightly, routeVars
<1>1. CASE WriteSettings
  BY <1>1 DEF WriteSettings
<1>2. CASE KillProcess
  BY <1>2 DEF KillProcess
<1>3. CASE StickyRestart
  BY <1>3 DEF StickyRestart
<1> QED
  BY <1>1, <1>2, <1>3 DEF AndroidStep

\* The boot receiver and the service.
LEMMA AppKeeps == BootIInv /\ AppStep => BootIInv'
<1> SUFFICES ASSUME BootIInv, AppStep PROVE BootIInv'
  OBVIOUS
<1> USE DEF BootIInv, BootTypeOK, Package, Prefs, AskedIsWilled, Evidence, ReceiverEnabled, Conditions, Booted, Past, Earned, Rightly, routeVars,
            NoReason, Reasons, BeforeBoot, Prepared, AfterBoot
<1>1. CASE onReceive
  <2>1. /\ decide \in Reasons \cup {"start"}
        /\ decide = "start" <=> prefs.asked /\ capability = "CONTINUOUS" /\ prefs.configured
    BY DEF decide
  <2>2. /\ broadcast /\ ~broadcast'
        /\ \/ decide = "start" /\ service' = "starting" /\ prefs' = prefs
           \/ decide # "start" /\ prefs' = [prefs EXCEPT !.reason = decide] /\ service' = service
        /\ delivered' = IF hand = "route" THEN delivered \cup {run} ELSE delivered
        /\ UNCHANGED <<hand, package, onDisk, capability, will, run, step, misread, problems, verdict>>
    BY <1>1 DEF onReceive
  <2>3. /\ prefs' \in Prefs /\ prefs'.asked = prefs.asked /\ prefs'.configured = prefs.configured
    BY <2>1, <2>2
  <2>4. BootTypeOK' /\ AskedIsWilled'
    <3>1. broadcast' \in BOOLEAN
      BY <1>1 DEF onReceive
    <3>2. delivered' \subseteq 1 .. 4
      BY <2>2
    <3> QED
      BY <2>1, <2>2, <2>3, <3>1, <3>2
  <2>5. ASSUME hand = "route" PROVE Evidence'
    <3>1. verdict = "open" => step \in AfterBoot \cup {"done"}
      BY <2>2, <2>5
    <3>2. service' # "killed" /\ ReceiverEnabled' /\ verdict' # "green"
      BY <2>2, <2>5
    <3>3. verdict' = "open" => Conditions'
      BY <2>2, <2>3, <2>5, <3>1
    <3>4. verdict' = "open" => Booted'
      BY <2>1, <2>2, <2>5, <3>1
    <3> QED
      BY <3>2, <3>3, <3>4
  <2> QED
    BY <2>2, <2>4, <2>5
<1>2. CASE onReceiveRefused
  BY <1>2 DEF onReceiveRefused, decide
<1>3. CASE onStartCommand
  BY <1>3 DEF onStartCommand
<1> QED
  BY <1>1, <1>2, <1>3 DEF AppStep

\* A person's doings.
LEMMA PersonKeeps == BootIInv /\ PersonStep => BootIInv'
<1> SUFFICES ASSUME BootIInv, PersonStep PROVE BootIInv'
  OBVIOUS
<1> USE DEF BootIInv, BootTypeOK, Package, Prefs, AskedIsWilled, Rightly, ByHand, routeVars
<1>1. CASE OpenApp
  BY <1>1 DEF OpenApp
<1>2. CASE PressStart
  BY <1>2 DEF PressStart, NoReason, Reasons
<1>3. CASE PressStop
  BY <1>3 DEF PressStop
<1>4. CASE ChangeGrants
  BY <1>4 DEF ChangeGrants
<1>5. CASE SaveConfig
  BY <1>5 DEF SaveConfig
<1>6. CASE ForceStop
  BY <1>6 DEF ForceStop
<1>7. CASE Reboot
  BY <1>7 DEF Reboot, Boots
<1> QED
  BY <1>1, <1>2, <1>3, <1>4, <1>5, <1>6, <1>7 DEF PersonStep

\* The route's steps.
LEMMA RouteKeeps == BootIInv /\ RouteStep => BootIInv'
<1> SUFFICES ASSUME BootIInv, RouteStep PROVE BootIInv'
  OBVIOUS
<1> USE DEF BootIInv, AtStep, Refuse, To, RouteOnly, BeforeTheBoot, Dumped
<1>1. CASE grantLocation
  <2>1. hand = "route" /\ hand' = hand /\ Evidence /\ verdict = "open" /\ Conditions /\ Booted
    BY <1>1 DEF grantLocation, Evidence
  <2> USE DEF grantLocation, Capabilities
  <2>2. BootTypeOK'
    BY <1>1, <2>1 DEF BootTypeOK, Package, Prefs
  <2>3. service' # "killed" /\ ReceiverEnabled'
    BY <1>1, <2>1 DEF Evidence, ReceiverEnabled, Conditions, BootTypeOK, Package, Prefs
  <2>4. verdict' = "open" => Conditions'
    BY <1>1, <2>1 DEF Conditions, Booted, Evidence, Past, BeforeBoot, Prepared, AfterBoot, BootTypeOK, Package, Prefs
  <2>5. verdict' = "open" => Booted'
    BY <1>1, <2>1 DEF Conditions, Booted, Evidence, ReceiverEnabled, Past, BeforeBoot, Prepared, AfterBoot, BootTypeOK, Package, Prefs
  <2>6. verdict' = "green" => Earned' /\ ~broadcast'
    BY <1>1, <2>1 DEF Booted, Past, Earned, BootTypeOK, Package, Prefs
  <2>7. Rightly'
    BY <1>1, <2>1 DEF Rightly, Conditions, Booted, BeforeBoot, Prepared, AfterBoot, ReceiverEnabled, Evidence, BootTypeOK, Package, Prefs
  <2> QED
    BY <2>1, <2>2, <2>3, <2>4, <2>5, <2>6, <2>7 DEF AskedIsWilled, Evidence
<1>2. CASE writeStoredState
  <2>1. hand = "route" /\ hand' = hand /\ Evidence /\ verdict = "open" /\ Conditions /\ Booted
    BY <1>2 DEF writeStoredState, Evidence
  <2> USE DEF writeStoredState, NoReason, Reasons
  <2>2. BootTypeOK'
    <3>1. package' \in Package
      BY <1>2 DEF BootTypeOK, Package
    <3>2. prefs' \in Prefs
      <4>1. (run # 2) \in BOOLEAN
        OBVIOUS
      <4>2. [asked |-> run # 2, configured |-> TRUE, reason |-> NoReason] \in Prefs
        BY <4>1 DEF Prefs
      <4> QED
        BY <1>2, <4>2 DEF BootTypeOK
    <3> QED
      BY <1>2, <2>1, <3>1, <3>2 DEF BootTypeOK
  <2>3. service' # "killed" /\ ReceiverEnabled'
    BY <1>2, <2>1 DEF Evidence, ReceiverEnabled, Conditions, BootTypeOK, Package, Prefs
  <2>4. verdict' = "open" => Conditions'
    BY <1>2, <2>1 DEF Conditions, Booted, Evidence, Past, BeforeBoot, Prepared, AfterBoot, BootTypeOK, Package, Prefs
  <2>5. verdict' = "open" => Booted'
    BY <1>2, <2>1 DEF Conditions, Booted, Evidence, ReceiverEnabled, Past, BeforeBoot, Prepared, AfterBoot, BootTypeOK, Package, Prefs
  <2>6. verdict' = "green" => Earned' /\ ~broadcast'
    BY <1>2, <2>1 DEF Booted, Past, Earned, BootTypeOK, Package, Prefs
  <2>7. Rightly'
    BY <1>2, <2>1 DEF Rightly, Conditions, Booted, BeforeBoot, Prepared, AfterBoot, ReceiverEnabled, Evidence, BootTypeOK, Package, Prefs
  <2> QED
    BY <2>1, <2>2, <2>3, <2>4, <2>5, <2>6, <2>7 DEF AskedIsWilled, Evidence
<1>3. CASE leaveTheStoppedState
  <2>1. hand = "route" /\ hand' = hand /\ Evidence /\ verdict = "open" /\ Conditions /\ Booted
    BY <1>3 DEF leaveTheStoppedState, Evidence
  <2> USE DEF leaveTheStoppedState
  <2>2. BootTypeOK'
    BY <1>3, <2>1 DEF BootTypeOK, Package, Prefs
  <2>3. service' # "killed" /\ ReceiverEnabled'
    BY <1>3, <2>1 DEF Evidence, ReceiverEnabled, Conditions, BootTypeOK, Package, Prefs
  <2>4. verdict' = "open" => Conditions'
    BY <1>3, <2>1 DEF Conditions, Booted, Evidence, Past, BeforeBoot, Prepared, AfterBoot, BootTypeOK, Package, Prefs
  <2>5. verdict' = "open" => Booted'
    BY <1>3, <2>1 DEF Conditions, Booted, Evidence, ReceiverEnabled, Past, BeforeBoot, Prepared, AfterBoot, BootTypeOK, Package, Prefs
  <2>6. verdict' = "green" => Earned' /\ ~broadcast'
    BY <1>3, <2>1 DEF Booted, Past, Earned, BootTypeOK, Package, Prefs
  <2>7. Rightly'
    BY <1>3, <2>1 DEF Rightly, Conditions, Booted, BeforeBoot, Prepared, AfterBoot, ReceiverEnabled, Evidence, BootTypeOK, Package, Prefs
  <2> QED
    BY <2>1, <2>2, <2>3, <2>4, <2>5, <2>6, <2>7 DEF AskedIsWilled, Evidence
<1>4. CASE PrepareRun
  <2>1. hand = "route" /\ hand' = hand /\ Evidence /\ verdict = "open" /\ Conditions /\ Booted
    BY <1>4 DEF PrepareRun, Evidence
  <2> USE DEF PrepareRun
  <2>2. BootTypeOK'
    <3>1. package' \in Package
      <4>1. [stopped |-> package.stopped \/ run = 3, receiver |-> package.receiver /\ run # 4] \in Package
        BY DEF BootTypeOK, Package
      <4> QED
        BY <1>4, <4>1 DEF BootTypeOK
    <3>2. prefs' \in Prefs
      BY <1>4 DEF BootTypeOK
    <3> QED
      BY <1>4, <2>1, <3>1, <3>2 DEF BootTypeOK
  <2>3. service' # "killed" /\ ReceiverEnabled'
    <3>1. SUFFICES ASSUME verdict' = "open", run < 4 PROVE package'.receiver
      BY <1>4, <2>1 DEF Evidence, ReceiverEnabled, BootTypeOK
    <3>2. package' = [stopped |-> package.stopped \/ run = 3, receiver |-> package.receiver /\ run # 4]
      BY <1>4, <3>1
    <3>3. package.receiver /\ run # 4
      BY <2>1, <3>1 DEF Evidence, ReceiverEnabled, BootTypeOK
    <3> QED
      BY <3>2, <3>3
  <2>4. verdict' = "open" => Conditions'
    BY <1>4, <2>1 DEF Conditions, Booted, Evidence, Past, BeforeBoot, Prepared, AfterBoot, BootTypeOK, Package, Prefs
  <2>5. verdict' = "open" => Booted'
    BY <1>4, <2>1 DEF Conditions, Booted, Evidence, ReceiverEnabled, Past, BeforeBoot, Prepared, AfterBoot, BootTypeOK, Package, Prefs
  <2>6. verdict' = "green" => Earned' /\ ~broadcast'
    BY <1>4, <2>1 DEF Booted, Past, Earned, BootTypeOK, Package, Prefs
  <2>7. Rightly'
    BY <1>4, <2>1 DEF Rightly, Conditions, Booted, BeforeBoot, Prepared, AfterBoot, ReceiverEnabled, Evidence, BootTypeOK, Package, Prefs
  <2> QED
    BY <2>1, <2>2, <2>3, <2>4, <2>5, <2>6, <2>7 DEF AskedIsWilled, Evidence
<1>5. CASE rebootAndWait
  <2>1. hand = "route" /\ hand' = hand /\ Evidence /\ verdict = "open" /\ Conditions /\ Booted
    BY <1>5 DEF rebootAndWait, Evidence
  <2> USE DEF rebootAndWait, Boots
  <2>2. BootTypeOK'
    BY <1>5, <2>1 DEF BootTypeOK, Package, Prefs
  <2>3. service' # "killed" /\ ReceiverEnabled'
    BY <1>5, <2>1 DEF Evidence, ReceiverEnabled, Conditions, BootTypeOK, Package, Prefs
  <2>4. verdict' = "open" => Conditions'
    BY <1>5, <2>1 DEF Conditions, Booted, Evidence, Past, BeforeBoot, Prepared, AfterBoot, BootTypeOK, Package, Prefs
  <2>5. verdict' = "open" => Booted'
    BY <1>5, <2>1 DEF Conditions, Booted, Evidence, ReceiverEnabled, Past, BeforeBoot, Prepared, AfterBoot, BootTypeOK, Package, Prefs
  <2>6. verdict' = "green" => Earned' /\ ~broadcast'
    BY <1>5, <2>1 DEF Booted, Past, Earned, BootTypeOK, Package, Prefs
  <2>7. Rightly'
    BY <1>5, <2>1 DEF Rightly, Conditions, Booted, BeforeBoot, Prepared, AfterBoot, ReceiverEnabled, Evidence, BootTypeOK, Package, Prefs
  <2> QED
    BY <2>1, <2>2, <2>3, <2>4, <2>5, <2>6, <2>7 DEF AskedIsWilled, Evidence
<1>6. CASE CheckSurvived
  <2>1. hand = "route" /\ hand' = hand /\ Evidence /\ verdict = "open" /\ Conditions /\ Booted
    BY <1>6 DEF CheckSurvived, Evidence
  <2> USE DEF CheckSurvived, Survived
  <2>2. BootTypeOK'
    BY <1>6, <2>1 DEF BootTypeOK, Package, Prefs
  <2>3. service' # "killed" /\ ReceiverEnabled'
    BY <1>6, <2>1 DEF Evidence, ReceiverEnabled, Conditions, BootTypeOK, Package, Prefs
  <2>4. verdict' = "open" => Conditions'
    BY <1>6, <2>1 DEF Conditions, Booted, Evidence, Past, BeforeBoot, Prepared, AfterBoot, BootTypeOK, Package, Prefs
  <2>5. verdict' = "open" => Booted'
    BY <1>6, <2>1 DEF Conditions, Booted, Evidence, ReceiverEnabled, Past, BeforeBoot, Prepared, AfterBoot, BootTypeOK, Package, Prefs
  <2>6. verdict' = "green" => Earned' /\ ~broadcast'
    BY <1>6, <2>1 DEF Booted, Past, Earned, BootTypeOK, Package, Prefs
  <2>7. Rightly'
    BY <1>6, <2>1 DEF Rightly, Conditions, Booted, BeforeBoot, Prepared, AfterBoot, ReceiverEnabled, Evidence, BootTypeOK, Package, Prefs
  <2> QED
    BY <2>1, <2>2, <2>3, <2>4, <2>5, <2>6, <2>7 DEF AskedIsWilled, Evidence
<1>7. CASE AssertRun
  <2>1. hand = "route" /\ hand' = hand /\ Evidence /\ verdict = "open" /\ Conditions /\ Booted
    BY <1>7 DEF AssertRun, Evidence
  <2> USE DEF AssertRun, locationServiceIsRunning
  <2>2. BootTypeOK'
    BY <1>7, <2>1 DEF BootTypeOK, Package, Prefs
  <2>3. service' # "killed" /\ ReceiverEnabled'
    BY <1>7, <2>1 DEF Evidence, ReceiverEnabled, Conditions, BootTypeOK, Package, Prefs
  <2>4. verdict' = "open" => Conditions'
    BY <1>7, <2>1 DEF Conditions, Booted, Evidence, Past, BeforeBoot, Prepared, AfterBoot, BootTypeOK, Package, Prefs
  <2>5. verdict' = "open" => Booted'
    BY <1>7, <2>1 DEF Conditions, Booted, Evidence, ReceiverEnabled, Past, BeforeBoot, Prepared, AfterBoot, BootTypeOK, Package, Prefs
  <2>6. verdict' = "green" => Earned' /\ ~broadcast'
    BY <1>7, <2>1 DEF Booted, Past, Earned, BootTypeOK, Package, Prefs
  <2>7. Rightly'
    BY <1>7, <2>1 DEF Rightly, Conditions, Booted, BeforeBoot, Prepared, AfterBoot, ReceiverEnabled, Evidence, BootTypeOK, Package, Prefs
  <2> QED
    BY <2>1, <2>2, <2>3, <2>4, <2>5, <2>6, <2>7 DEF AskedIsWilled, Evidence
<1>8. CASE FinishRun
  <2>1. hand = "route" /\ hand' = hand /\ Evidence /\ verdict = "open" /\ Conditions /\ Booted
    BY <1>8 DEF FinishRun, Evidence
  <2> USE DEF FinishRun
  <2>2. BootTypeOK'
    <3>1. package' \in Package
      BY <1>8 DEF BootTypeOK, Package
    <3>2. prefs' \in Prefs
      BY <1>8 DEF BootTypeOK
    <3> QED
      BY <1>8, <2>1, <3>1, <3>2 DEF BootTypeOK
  <2>3. service' # "killed" /\ ReceiverEnabled'
    BY <1>8, <2>1 DEF Evidence, ReceiverEnabled, Conditions, BootTypeOK, Package, Prefs
  <2>4. verdict' = "open" => Conditions'
    BY <1>8, <2>1 DEF Conditions, Booted, Evidence, Past, BeforeBoot, Prepared, AfterBoot, BootTypeOK, Package, Prefs
  <2>5. verdict' = "open" => Booted'
    BY <1>8, <2>1 DEF Conditions, Booted, Evidence, ReceiverEnabled, Past, BeforeBoot, Prepared, AfterBoot, BootTypeOK, Package, Prefs
  <2>6. verdict' = "green" => Earned' /\ ~broadcast'
    BY <1>8, <2>1 DEF Booted, Past, Earned, BootTypeOK, Package, Prefs
  <2>7. Rightly'
    BY <1>8, <2>1 DEF Rightly, Conditions, Booted, BeforeBoot, Prepared, AfterBoot, ReceiverEnabled, Evidence, BootTypeOK, Package, Prefs
  <2> QED
    BY <2>1, <2>2, <2>3, <2>4, <2>5, <2>6, <2>7 DEF AskedIsWilled, Evidence
<1> QED
  BY <1>1, <1>2, <1>3, <1>4, <1>5, <1>6, <1>7, <1>8 DEF RouteStep
-----------------------------------------------------------------------------
(* The results.                                                            *)

\* Every step preserves the inductive invariant.
LEMMA BootNextIInv == BootIInv /\ [BootNext]_bootVars => BootIInv'
<1>1. BootIInv /\ UNCHANGED bootVars => BootIInv'
  BY DEF BootIInv, BootTypeOK, Package, Prefs, AskedIsWilled, Evidence, ReceiverEnabled, Conditions, Booted, Past, Earned, Rightly,
         bootVars, phoneVars, routeVars
<1> QED
  BY <1>1, AndroidKeeps, AppKeeps, PersonKeeps, RouteKeeps DEF BootNext

\* The inductive invariant holds throughout.
LEMMA BootInvariant == BootSpec => []BootIInv
BY BootInitIInv, BootNextIInv, PTL DEF BootSpec

\* Through any number of reboots, kills, sticky restarts and changes of the
\* grants, collection runs only while the person who has the phone wants it
\* (collect/BootRestartDecision.kt, collect/LocationCollectionService.kt).
THEOREM NobodyIsTrackedUnasked == BootSpec => []NeverUnasked
<1>1. BootIInv => NeverUnasked
  BY DEF BootIInv, AskedIsWilled, NeverUnasked
<1> QED
  BY BootInvariant, <1>1, PTL

\* Whichever of Android's delayed writes a reboot forestalls and whichever dumps
\* fail, the route's green says what it can of the four runs and its red is not said
\* wrongly of the second and the third (internal/uiverify/bootrestart.go,
\* RunBootRestart).
THEOREM TheVerdictIsEvidence == BootSpec => []VerdictIsEvidence
<1>1. BootIInv => VerdictIsEvidence
  BY DEF BootIInv, BootTypeOK, Evidence, Earned, Rightly, VerdictIsEvidence
<1> QED
  BY BootInvariant, <1>1, PTL

-----------------------------------------------------------------------------
(* TokenSource.                                                            *)

TokenTypeOK ==
  /\ clock \in Nat
  /\ cache \in [real : Int, expiry : Int]
  /\ lock \in Senders \cup {"free"}
  /\ sender \in [Senders -> [pc : {"idle", "token", "exchange", "minted", "send", "accepted", "expired"},
                             real : Int, ttl : Nat, since : Nat]]

\* The mutex: its holder is the one sender inside an exchange.
Exclusive ==
  \A s \in Senders : sender[s].pc \in {"exchange", "minted"} <=> lock = s

\* The cache believes a token to live at most one exchange longer than it does.
Believed == cache.real # NoToken => cache.expiry <= cache.real + MaxExchange

\* A token that was minted, and whose answer is under way.
Minted ==
  \A s \in Senders :
    /\ sender[s].pc \in {"exchange", "minted"} =>
          clock - sender[s].since <= MaxExchange /\ sender[s].since <= clock
    /\ sender[s].pc = "minted" =>
          sender[s].ttl \in Lifetimes /\ sender[s].real >= sender[s].since + sender[s].ttl

\* A sender's token outlasts the call it is used for.
Outlasts ==
  \A s \in Senders : sender[s].pc = "send" =>
    clock - sender[s].since <= MaxSend /\ sender[s].real > sender[s].since + MaxSend

\* The inductive invariant.
TokenIInv ==
  /\ TokenTypeOK /\ Exclusive /\ Believed /\ Minted /\ Outlasts
  /\ NeverExpiresMidFlight /\ NoNeedlessExchange

\* The empty cache satisfies the inductive invariant.
LEMMA TokenInitIInv == TokenInit => TokenIInv
BY TokenAssumption
DEF TokenInit, AtRest, NoToken, Fresh, TokenIInv, TokenTypeOK, Exclusive, Believed, Minted, Outlasts,
    NeverExpiresMidFlight, NoNeedlessExchange

\* Every step of a sender, of the endpoint and of the clock preserves it.
LEMMA TokenNextIInv == TokenIInv /\ [TokenNext]_tokenVars => TokenIInv'
<1> SUFFICES ASSUME TokenIInv, [TokenNext]_tokenVars PROVE TokenIInv'
  OBVIOUS
<1> USE TokenAssumption
    DEF TokenIInv, TokenTypeOK, Exclusive, Believed, Minted, Outlasts,
        NeverExpiresMidFlight, NoNeedlessExchange, NoToken
<1>1. ASSUME ClockTick PROVE TokenIInv'
  BY <1>1 DEF ClockTick, Fresh
<1>2. ASSUME NEW s \in Senders, Send(s) PROVE TokenIInv'
  BY <1>2 DEF Send, Become, Fresh
<1>3. ASSUME NEW s \in Senders, Token(s) PROVE TokenIInv'
  BY <1>3 DEF Token, Become, Fresh
<1>4. ASSUME NEW s \in Senders, MintToken(s) PROVE TokenIInv'
  BY <1>4 DEF MintToken, Fresh
<1>5. ASSUME NEW s \in Senders, Cache(s) PROVE TokenIInv'
  BY <1>5 DEF Cache, Become, Fresh
<1>6. ASSUME NEW s \in Senders, ExchangeFailed(s) PROVE TokenIInv'
  BY <1>6 DEF ExchangeFailed, AtRest, Fresh
<1>7. ASSUME NEW s \in Senders, Deliver(s) PROVE TokenIInv'
  <2>1. clock < sender[s].real
    BY <1>7 DEF Deliver
  <2>2. sender' = [sender EXCEPT ![s] = [pc |-> "accepted", real |-> NoToken, ttl |-> sender[s].ttl, since |-> clock]]
    BY <1>7, <2>1 DEF Deliver, Become
  <2>3. UNCHANGED <<clock, cache, lock>>
    BY <1>7 DEF Deliver
  <2> QED
    BY <1>7, <2>2, <2>3 DEF Deliver, Fresh
<1>8. ASSUME NEW s \in Senders, SendFailed(s) PROVE TokenIInv'
  BY <1>8 DEF SendFailed, AtRest, Fresh
<1>9. ASSUME UNCHANGED tokenVars PROVE TokenIInv'
  BY <1>9 DEF tokenVars, Fresh
<1> QED
  BY <1>1, <1>2, <1>3, <1>4, <1>5, <1>6, <1>7, <1>8, <1>9 DEF TokenNext

\* For every instance, no access token expires between the cache's check and
\* the FCM call that carries it (internal/push/serviceaccount.go, Token).
THEOREM TokensOutlastTheirUse == TokenSpec => []NeverExpiresMidFlight
<1>1. TokenIInv => NeverExpiresMidFlight
  BY DEF TokenIInv
<1> QED
  BY TokenInitIInv, TokenNextIInv, <1>1, PTL DEF TokenSpec

\* For every instance, a sender exchanges only under the mutex and only when
\* no fresh token is cached (internal/push/serviceaccount.go, Token).
THEOREM ExchangesAreShared == TokenSpec => []NoNeedlessExchange
<1>1. TokenIInv => NoNeedlessExchange
  BY DEF TokenIInv
<1> QED
  BY TokenInitIInv, TokenNextIInv, <1>1, PTL DEF TokenSpec

-----------------------------------------------------------------------------
(* Startup.                                                                *)

Processes == {"server", "command"}

\* Where a server is that has passed Load, and one that has passed Up.
Loaded  == {"up", "apply", "version", "open", "partitions", "notifier", "retention", "listen", "tls", "plaintext"}
Through == Loaded \ {"up", "apply"}

StartupTypeOK ==
  /\ schema \in 0 .. Latest
  /\ read \in [Processes -> 0 .. Latest]
  /\ server \in Loaded \cup {"load", "exit"}
  /\ command \in {"load", "up", "apply", "open", "ran", "exit"}
  /\ lint \in {"unasked", "ok", "problem"}

\* Who is about to apply a migration has read a version that is not the last.
ReadsBehind == \A p \in Processes : At(p, "apply") => read[p] < Latest

\* Nobody gets past Up before the schema is complete.
PastUp ==
  /\ server \in Through => schema = Latest
  /\ command \in {"open", "ran"} => schema = Latest

\* What was checked of the environment is still true of it.
Checked ==
  /\ server \in Loaded => Load /\ RequireServable
  /\ server = "plaintext" => ~ServesTLS
  /\ lint = "ok" => LintTLS

\* The server's configuration is what Load read: two windows in order.
Configured ==
  /\ server \in Loaded =>
       /\ config.live \in Int /\ config.stale \in Int
       /\ 1 <= config.live /\ config.live < config.stale

\* The inductive invariant.
StartupIInv == StartupTypeOK /\ ReadsBehind /\ PastUp /\ Checked /\ Configured

\* A window Load lets through is a positive integer.
LEMMA WindowsAreSound ==
  ASSUME env \in Env, Load
  PROVE  /\ EffectiveLive.n \in Int /\ EffectiveStale.n \in Int
         /\ 1 <= EffectiveLive.n /\ EffectiveLive.n < EffectiveStale.n
<1>1. env.live \in Raw /\ env.stale \in Raw
  BY DEF Env
<1>2. \A raw \in Raw, def \in Int : envInt(raw, def).n \in Int
  BY StartupAssumption DEF Raw, envInt
<1>3. \A raw \in Raw, def \in Int :
        /\ envWindowSeconds(raw, def).n = envInt(raw, def).n
        /\ envWindowSeconds(raw, def).ok => envInt(raw, def).n >= 1
  BY DEF envWindowSeconds, envInt
<1>4. DefaultLive \in Int /\ DefaultStale \in Int
  BY StartupAssumption
<1> QED
  BY <1>1, <1>2, <1>3, <1>4 DEF Load, validate, EffectiveLive, EffectiveStale

\* A process that has not loaded anything satisfies the inductive invariant.
LEMMA StartupInitIInv == StartupInit => StartupIInv
BY StartupAssumption
DEF StartupInit, StartupIInv, StartupTypeOK, ReadsBehind, PastUp, Checked, Configured, Loaded, Through,
    Processes, At

\* The environment is one of those there are.
Environment == env \in Env

\* It belongs to the processes from their start to their end.
LEMMA EnvironmentStays == StartupSpec => []Environment
<1>1. StartupInit => Environment
  BY EnvAssumption DEF StartupInit, Environment
<1>2. Environment /\ [StartupNext]_startupVars => Environment'
  <2>1. (LoadServer \/ Version \/ Open \/ Provision \/ buildPushNotifier \/ StartRetention \/ Listen) => env' = env
    BY DEF LoadServer, Version, Open, Provision, buildPushNotifier, StartRetention, Listen, ServerOnly
  <2>2. LoadCommand \/ OpenCommand \/ runConfigLint => env' = env
    BY DEF LoadCommand, OpenCommand, runConfigLint
  <2>3. \A p : ReadVersion(p) \/ ApplyMigration(p) \/ DatabaseFails(p) => env' = env
    BY DEF ReadVersion, ApplyMigration, DatabaseFails
  <2> QED
    BY <2>1, <2>2, <2>3 DEF StartupNext, startupVars, Environment
<1> QED
  BY <1>1, <1>2, PTL DEF StartupSpec

\* Every step of the server, of the command and of the lint preserves it.
LEMMA StartupNextIInv == Environment /\ StartupIInv /\ [StartupNext]_startupVars => StartupIInv'
<1> SUFFICES ASSUME Environment, StartupIInv, [StartupNext]_startupVars PROVE StartupIInv'
  OBVIOUS
<1> USE DEF StartupIInv, Environment
<1>1. env' = env => /\ Load' = Load /\ RequireServable' = RequireServable
                    /\ ServesTLS' = ServesTLS /\ LintTLS' = LintTLS
  BY DEF Load, RequireServable, ServesTLS, LintTLS, validate, validPush, EffectiveDays, EffectiveLive,
         EffectiveStale
<1>2. ASSUME LoadServer PROVE StartupIInv'
  BY <1>1, <1>2, WindowsAreSound
  DEF LoadServer, ServerOnly, StartupTypeOK, ReadsBehind, PastUp, Checked, Configured, Loaded, Through,
      Processes, At
<1>3. ASSUME Version \/ Open \/ Provision \/ buildPushNotifier \/ StartRetention \/ Listen PROVE StartupIInv'
  BY <1>1, <1>3
  DEF Version, Open, Provision, buildPushNotifier, StartRetention, Listen, ServerOnly,
      StartupTypeOK, ReadsBehind, PastUp, Checked, Configured, Loaded, Through, Processes, At
<1>4. ASSUME LoadCommand \/ OpenCommand \/ runConfigLint PROVE StartupIInv'
  BY <1>1, <1>4
  DEF LoadCommand, OpenCommand, runConfigLint,
      StartupTypeOK, ReadsBehind, PastUp, Checked, Configured, Loaded, Through, Processes, At
<1>5. ASSUME NEW p \in Processes, ReadVersion(p) PROVE StartupIInv'
  BY <1>1, <1>5, StartupAssumption
  DEF ReadVersion, Go, Others, At,
      StartupTypeOK, ReadsBehind, PastUp, Checked, Configured, Loaded, Through, Processes
<1>6. ASSUME NEW p \in Processes, ApplyMigration(p) PROVE StartupIInv'
  BY <1>1, <1>6, StartupAssumption
  DEF ApplyMigration, Go, Others, At,
      StartupTypeOK, ReadsBehind, PastUp, Checked, Configured, Loaded, Through, Processes
<1>7. ASSUME NEW p \in Processes, DatabaseFails(p) PROVE StartupIInv'
  BY <1>1, <1>7
  DEF DatabaseFails, Go, Others, At,
      StartupTypeOK, ReadsBehind, PastUp, Checked, Configured, Loaded, Through, Processes
<1>8. ASSUME UNCHANGED startupVars PROVE StartupIInv'
  BY <1>1, <1>8
  DEF startupVars, StartupTypeOK, ReadsBehind, PastUp, Checked, Configured, Loaded, Through, Processes, At
<1> QED
  BY <1>2, <1>3, <1>4, <1>5, <1>6, <1>7, <1>8 DEF StartupNext, Processes

\* The inductive invariant holds throughout.
LEMMA StartupInvariant == StartupSpec => []StartupIInv
BY StartupInitIInv, StartupNextIInv, EnvironmentStays, PTL DEF StartupSpec

\* Whatever migrates the database at the same time, no server listens and no
\* command runs on a schema that is not complete (internal/db/db.go, Up).
THEOREM NothingRunsHalfMigrated == StartupSpec => []RunsMigrated
<1>1. StartupIInv => RunsMigrated
  BY DEF StartupIInv, PastUp, RunsMigrated, Listening, Through, Loaded
<1> QED
  BY StartupInvariant, <1>1, PTL

\* In every environment, a server listens without TLS only if it was told to
\* (internal/config/config.go, validateTLSPair and RequireServable).
THEOREM PlaintextIsChosen == StartupSpec => []NoAccidentalPlaintext
<1>1. StartupIInv => NoAccidentalPlaintext
  BY DEF StartupIInv, Checked, Loaded, NoAccidentalPlaintext, Load, validate, validateTLSPair,
         RequireServable, envBool, ServesTLS, LintTLS
<1> QED
  BY StartupInvariant, <1>1, PTL

\* The tick against the sweep bound, for any two windows in order: a bound of
\* one second does not wrap around, and from two seconds on even the whole
\* interval is short enough.
LEMMA TickWithinBand ==
  ASSUME NEW c, c.live \in Int, c.stale \in Int, 1 <= c.live, c.live < c.stale
  PROVE  /\ streamPollTick(c) > 0
         /\ 2 * streamPollTick(c) <= c.live * Second
         /\ 2 * streamPollTick(c) <= (c.stale - c.live) * Second
<1> DEFINE band  == c.stale - c.live
           least == IF band < c.live THEN band ELSE c.live
           half  == Halve(Wrap(SweepBoundOf(c) * Second))
<1>1. /\ least \in Int /\ 1 <= least
      /\ least <= c.live /\ least <= band
  OBVIOUS
<1>2. \A a, b \in Int : a <= b => a * Second <= b * Second
  BY StartupAssumption
<1>3. SweepBoundOf(c) \in Int
  BY <1>1 DEF SweepBoundOf
<1>4. \A n \in Int : Wrap(n) \in Int
  BY StartupAssumption DEF Wrap
<1>5. \A n \in Int : Halve(n) \in Int
  BY DEF Halve
<1>6. SweepBoundOf(c) * Second \in Int
  BY <1>3, StartupAssumption
<1>7. half \in Int
  BY <1>4, <1>5, <1>6
<1>8. streamPollTick(c) = IF half > 0 /\ half < Interval THEN half ELSE Interval
  BY DEF streamPollTick
<1>9. streamPollTick(c) \in Int /\ 0 < streamPollTick(c) /\ streamPollTick(c) <= Second
  BY <1>7, <1>8, StartupAssumption
<1>10. 2 * streamPollTick(c) <= least * Second
  <2>1. CASE least = 1
    <3>1. SweepBoundOf(c) = 1
      BY <2>1 DEF SweepBoundOf
    <3>2. Wrap(Second) = Second
      BY StartupAssumption DEF Wrap
    <3>3. half = Second \div 2
      BY <3>1, <3>2, StartupAssumption DEF Halve
    <3>4. 2 * (Second \div 2) = Second /\ 0 < Second \div 2 /\ Second \div 2 < Second
      BY StartupAssumption
    <3> QED
      BY <1>8, <2>1, <3>3, <3>4, StartupAssumption
  <2>2. CASE 2 <= least
    <3>1. 2 * Second <= least * Second
      BY <1>1, <1>2, <2>2
    <3> QED
      BY <1>1, <1>9, <3>1, StartupAssumption
  <2> QED
    BY <1>1, <2>1, <2>2
<1>11. least * Second <= c.live * Second /\ least * Second <= band * Second
  BY <1>1, <1>2
<1>12. least * Second \in Int /\ c.live * Second \in Int /\ band * Second \in Int
  BY <1>1, StartupAssumption
<1> QED
  BY <1>9, <1>10, <1>11, <1>12

\* For every pair of windows a server is started with, and every width of
\* time.Duration, the stream polls twice within each band
\* (internal/server/stream.go, streamPollTick).
THEOREM PollsWithinTheBound == StartupSpec => []PollMeetsTheBound
<1>1. StartupIInv => PollMeetsTheBound
  BY TickWithinBand DEF StartupIInv, Configured, Loaded, PollMeetsTheBound, Listening
<1> QED
  BY StartupInvariant, <1>1, PTL

-----------------------------------------------------------------------------
(* HistoryPaging.                                                          *)

\* A set of naturals that is not empty has a least element.
LEMMA LeastNatural ==
  ASSUME NEW s \in SUBSET Nat, s # {}
  PROVE  \E x \in s : \A y \in s : x <= y
<1> DEFINE less == {p \in Nat \X Nat : p[1] < p[2]}
<1>1. IsWellFoundedOn(less, Nat)
  <2>1. OpToRel(<, Nat) = less
    BY DEF OpToRel
  <2>2. QED
    BY <2>1, NatLessThanWellFounded
<1>2. PICK x \in s : \A y \in s : ~ (<<y, x>> \in less)
  <2> HIDE DEF less
  <2> QED BY <1>1, WFMin
<1>3. \A y \in s : x <= y
  <2> TAKE y \in s
  <2>1. y < x => <<y, x>> \in less
    OBVIOUS
  <2> QED
    BY <1>2, <2>1
<1> QED
  BY <1>3

\* The rows that come before t in a page.
Above(t, rows) == {u \in rows : u > t}

\* A rank is a number, and it grows down the page.
LEMMA RankType ==
  ASSUME NEW rows \in SUBSET Nat, IsFiniteSet(rows), NEW t \in Nat
  PROVE  Rank(t, rows) = Cardinality(Above(t, rows)) /\ Rank(t, rows) \in Nat
         /\ IsFiniteSet(Above(t, rows))
<1>1. Above(t, rows) \in SUBSET rows
  BY DEF Above
<1> QED
  BY <1>1, FS_Subset, FS_CardinalityType DEF Rank, Above

\* Rows that are only added to give nobody a smaller rank.
LEMMA RankGrows ==
  ASSUME NEW rows \in SUBSET Nat, NEW more \in SUBSET Nat, IsFiniteSet(more),
         rows \subseteq more, NEW t \in Nat
  PROVE  Rank(t, rows) <= Rank(t, more)
<1>1. IsFiniteSet(rows)
  BY FS_Subset
<1>2. Above(t, rows) \in SUBSET Above(t, more) /\ IsFiniteSet(Above(t, more))
  BY RankType DEF Above
<1>3. Cardinality(Above(t, rows)) <= Cardinality(Above(t, more))
  BY <1>2, FS_Subset
<1> QED
  BY <1>1, <1>3, RankType

\* Two rows have two ranks.
LEMMA RankInjective ==
  ASSUME NEW rows \in SUBSET Nat, IsFiniteSet(rows), NEW t \in rows, NEW u \in rows, t < u
  PROVE  Rank(u, rows) < Rank(t, rows)
<1>1. t \in Nat /\ u \in Nat
  OBVIOUS
<1>2. Above(u, rows) \in SUBSET Above(t, rows) /\ u \in Above(t, rows) /\ u \notin Above(u, rows)
  <2>1. \A v \in rows : v \in Nat
    OBVIOUS
  <2>2. \A v \in rows : v > u => v > t
    BY <1>1, <2>1
  <2>3. u > t /\ ~(u > u)
    BY <1>1
  <2>4. Above(u, rows) \subseteq Above(t, rows)
    BY <2>2 DEF Above
  <2>5. u \in Above(t, rows) /\ u \notin Above(u, rows)
    BY <2>3 DEF Above
  <2> QED
    BY <2>4, <2>5
<1>3. /\ Cardinality(Above(u, rows)) <= Cardinality(Above(t, rows))
      /\ Cardinality(Above(u, rows)) # Cardinality(Above(t, rows))
  BY <1>1, <1>2, RankType, FS_Subset
<1>4. /\ Rank(u, rows) = Cardinality(Above(u, rows)) /\ Rank(u, rows) \in Nat
      /\ Rank(t, rows) = Cardinality(Above(t, rows)) /\ Rank(t, rows) \in Nat
  BY <1>1, RankType
<1> QED
  BY <1>3, <1>4

\* The ranks leave out no number: whatever is beyond an offset, something is at it.
LEMMA RankAtOffset ==
  ASSUME NEW rows \in SUBSET Nat, IsFiniteSet(rows), NEW offset \in Nat,
         NEW t \in rows, Rank(t, rows) >= offset
  PROVE  \E m \in rows : Rank(m, rows) = offset
<1> DEFINE ranks == {Rank(u, rows) : u \in {v \in rows : Rank(v, rows) >= offset}}
<1>1. \A u \in rows : Rank(u, rows) \in Nat
  BY RankType
<1>2. ranks \in SUBSET Nat /\ ranks # {}
  BY <1>1
<1>3. PICK least \in ranks : \A y \in ranks : least <= y
  <2> HIDE DEF ranks
  <2> QED BY <1>2, LeastNatural
<1>4. PICK m \in rows : Rank(m, rows) = least /\ least >= offset /\ least \in Nat
  BY <1>1
<1>5. CASE least = offset
  BY <1>4, <1>5
<1>6. CASE least > offset
  <2>1. m \in Nat /\ Above(m, rows) \in SUBSET Nat
    BY DEF Above
  <2>2. Above(m, rows) # {}
    <3>1. Cardinality(Above(m, rows)) > 0
      BY <1>4, <1>6, <2>1, RankType
    <3> QED
      BY <3>1, FS_EmptySet
  <2>3. PICK v \in Above(m, rows) : \A w \in Above(m, rows) : v <= w
    BY <2>1, <2>2, LeastNatural
  <2>4. v \in rows /\ v \in Nat /\ v > m
    BY <2>1, <2>3 DEF Above
  <2>5. Above(v, rows) = Above(m, rows) \ {v}
    <3>1. \A w \in rows : w \in Nat
      OBVIOUS
    <3>2. \A w \in rows : w > v <=> w > m /\ w # v
      BY <2>1, <2>3, <2>4, <3>1 DEF Above
    <3> QED
      BY <3>2 DEF Above
  <2>6. Cardinality(Above(v, rows)) = Cardinality(Above(m, rows)) - 1
    BY <2>1, <2>3, <2>5, RankType, FS_RemoveElement
  <2>7. Rank(v, rows) = least - 1
    BY <1>4, <2>1, <2>4, <2>6, RankType
  <2>8. Rank(v, rows) \in ranks
    BY <1>4, <1>6, <2>4, <2>7
  <2>9. least <= Rank(v, rows)
    BY <1>3, <2>8
  <2> QED
    BY <1>4, <2>7, <2>9
<1> QED
  BY <1>4, <1>5, <1>6

\* No page is longer than its limit.
LEMMA PageFits ==
  ASSUME NEW rows \in SUBSET Nat, IsFiniteSet(rows), NEW offset \in Nat, NEW limit \in Nat,
         NEW pg, pg = {t \in rows : Rank(t, rows) >= offset /\ Rank(t, rows) < offset + limit}
  PROVE  Cardinality(pg) \in Nat /\ Cardinality(pg) <= limit
<1> DEFINE places == offset .. offset + limit - 1
           f == [t \in pg |-> Rank(t, rows)]
<1>1. \A t \in rows : Rank(t, rows) \in Nat /\ t \in Nat
  BY RankType
<1>2. f \in [pg -> places]
  <2>1. \A t \in pg : Rank(t, rows) \in Nat /\ Rank(t, rows) >= offset
                     /\ Rank(t, rows) < offset + limit
    BY <1>1
  <2>2. \A t \in pg : Rank(t, rows) \in places
    BY <2>1
  <2> HIDE DEF places
  <2> QED
    BY <2>2
<1>3. ASSUME NEW t \in pg, NEW u \in pg, f[t] = f[u] PROVE t = u
  <2>1. t \in rows /\ u \in rows /\ Rank(t, rows) = Rank(u, rows)
    BY <1>3
  <2>2. ~(t < u) /\ ~(u < t)
    BY <1>1, <2>1, RankInjective
  <2> QED
    BY <1>1, <2>1, <2>2
<1>4. f \in Injection(pg, places)
  BY <1>2, <1>3 DEF Injection, IsInjective
<1>5. IsFiniteSet(places) /\ Cardinality(places) = limit
  <2>1. offset \in Int /\ offset + limit - 1 \in Int
    OBVIOUS
  <2>2. IsFiniteSet(places) /\
        Cardinality(places) = IF offset > offset + limit - 1 THEN 0 ELSE offset + limit - 1 - offset + 1
    BY <2>1, FS_Interval
  <2> HIDE DEF places
  <2> QED
    BY <2>2
<1> HIDE DEF f, places
<1>6. IsFiniteSet(pg) /\ Cardinality(pg) <= Cardinality(places)
  BY <1>4, <1>5, FS_Injection
<1> QED
  BY <1>5, <1>6, FS_CardinalityType

\* The rows a page is cut from.
Rows == {t \in trail : Between(t, walk.from, walk.to)}

PagingTypeOK ==
  /\ trail \subseteq TrailStamps
  /\ walk \in [pc : {"idle", "walking", "done"}, from : TrailStamps \cup {Unbounded},
               to : TrailStamps \cup {Unbounded}, limit : Int, offset : Int]

\* While the caller walks, what is owed is in the window, and what is owed and lies
\* before the offset has been sent.
PagingIInv ==
  /\ PagingTypeOK
  /\ walk.pc = "idle" => owed = {}
  /\ walk.pc = "walking" =>
       \A t \in owed : t \in Rows /\ (Rank(t, Rows) < clampOffset(walk.offset) => t \in seen)
  /\ WalkHasNoGaps

\* What the window holds is finite.
LEMMA RowsFinite ==
  ASSUME PagingTypeOK
  PROVE  Rows \in SUBSET Nat /\ IsFiniteSet(Rows)
<1>1. Rows \in SUBSET TrailStamps
  BY DEF PagingTypeOK, Rows
<1> QED
  BY <1>1, FS_Subset, PagingAssumption

\* The clamps give a natural offset and a limit of at least one.
LEMMA Clamps ==
  ASSUME NEW n \in Int
  PROVE  /\ clampOffset(n) \in Nat
         /\ clampLimit(n) \in Nat /\ clampLimit(n) >= 1
         /\ n \in Nat => clampOffset(n) = n
BY PagingAssumption DEF clampOffset, clampLimit

\* The initial states.
LEMMA PagingInitIInv == PagingInit => PagingIInv
BY DEF PagingInit, PagingIInv, PagingTypeOK, WalkHasNoGaps, Unbounded

\* Every step.
LEMMA PagingNextIInv == PagingIInv /\ [PagingNext]_pagingVars => PagingIInv'
<1> SUFFICES ASSUME PagingIInv, [PagingNext]_pagingVars PROVE PagingIInv'
  OBVIOUS
<1>0. PagingTypeOK /\ Rows \in SUBSET Nat /\ IsFiniteSet(Rows)
  BY RowsFinite DEF PagingIInv
<1>1. CASE StartWalk
  <2>1. PICK from \in TrailStamps \cup {Unbounded}, to \in TrailStamps \cup {Unbounded},
             limit \in AskedLimits, first \in {-1, 0} :
          /\ walk' = [pc |-> "walking", from |-> from, to |-> to, limit |-> limit, offset |-> first]
          /\ owed' = {t \in trail : Between(t, from, to)}
    BY <1>1 DEF StartWalk
  <2>2. trail' = trail /\ owed' = Rows'
    BY <1>1, <2>1 DEF StartWalk, Rows
  <2>3. PagingTypeOK'
    BY <1>0, <2>1, <2>2, PagingAssumption DEF PagingTypeOK
  <2>4. clampOffset(walk'.offset) = 0
    BY <2>1 DEF clampOffset
  <2>5. \A t \in Rows' : Rank(t, Rows') \in Nat
    <3>1. Rows' \in SUBSET TrailStamps
      BY <2>3 DEF PagingTypeOK, Rows
    <3>2. Rows' \in SUBSET Nat /\ IsFiniteSet(Rows')
      BY <3>1, FS_Subset, PagingAssumption
    <3> QED
      BY <3>2, RankType
  <2>6. \A t \in Rows' : ~(Rank(t, Rows') < clampOffset(walk'.offset))
    BY <2>4, <2>5
  <2>7. walk'.pc = "walking"
    BY <2>1
  <2> QED
    BY <2>2, <2>3, <2>6, <2>7 DEF PagingIInv, WalkHasNoGaps, Rank
<1>2. CASE GetPage
  <2> DEFINE offset == clampOffset(walk.offset)
             limit == clampLimit(walk.limit)
             pg == {t \in Rows : Rank(t, Rows) >= offset /\ Rank(t, Rows) < offset + limit}
  <2>1. pg = DeviceHistory(walk.from, walk.to, walk.limit, walk.offset)
    BY DEF DeviceHistory, Rows
  <2>2. /\ walk.pc = "walking" /\ seen' = seen \cup pg /\ trail' = trail /\ owed' = owed
        /\ walk' = [walk EXCEPT !.pc = IF pg = {} THEN "done" ELSE "walking",
                                !.offset = offset + Cardinality(pg)]
    BY <1>2, <2>1 DEF GetPage
  <2>3. offset \in Nat /\ limit \in Nat /\ limit >= 1
    BY <1>0, Clamps DEF PagingTypeOK
  <2>4. \A t \in Rows : Rank(t, Rows) \in Nat
    BY <1>0, RankType
  <2>5. pg = {t \in Rows : Rank(t, Rows) >= offset /\ Rank(t, Rows) < offset + limit}
    OBVIOUS
  <2> HIDE DEF offset, limit, pg
  <2>6. Cardinality(pg) \in Nat /\ Cardinality(pg) <= limit
    BY <1>0, <2>3, <2>5, PageFits
  <2>7. /\ walk'.from = walk.from /\ walk'.to = walk.to /\ walk'.limit = walk.limit
        /\ walk'.pc = (IF pg = {} THEN "done" ELSE "walking")
        /\ walk'.offset = offset + Cardinality(pg)
    BY <1>0, <2>2 DEF PagingTypeOK
  <2>8. Rows' = Rows
    BY <2>2, <2>7 DEF Rows
  <2>9. PagingTypeOK'
    <3> DEFINE w == [walk EXCEPT !.pc = IF pg = {} THEN "done" ELSE "walking"]
    <3>1. w \in [pc : {"idle", "walking", "done"}, from : TrailStamps \cup {Unbounded},
                 to : TrailStamps \cup {Unbounded}, limit : Int, offset : Int]
      BY <1>0 DEF PagingTypeOK
    <3>2. walk' = [w EXCEPT !.offset = offset + Cardinality(pg)]
      BY <2>2
    <3>3. offset + Cardinality(pg) \in Int
      BY <2>3, <2>6
    <3> HIDE DEF w
    <3>4. walk' \in [pc : {"idle", "walking", "done"}, from : TrailStamps \cup {Unbounded},
                     to : TrailStamps \cup {Unbounded}, limit : Int, offset : Int]
      BY <3>1, <3>2, <3>3
    <3> QED
      BY <1>0, <2>2, <3>4 DEF PagingTypeOK
  <2>10. \A t \in owed : t \in Rows /\ (Rank(t, Rows) < offset => t \in seen)
    BY <2>2 DEF PagingIInv, offset
  <2>11. CASE pg = {}
    <3>1. \A t \in Rows : Rank(t, Rows) < offset
      <4> SUFFICES ASSUME NEW t \in Rows, ~(Rank(t, Rows) < offset) PROVE FALSE
        OBVIOUS
      <4>1. PICK m \in Rows : Rank(m, Rows) = offset
        <5>1. Rank(t, Rows) >= offset
          BY <2>3, <2>4
        <5> QED
          BY <1>0, <2>3, <5>1, RankAtOffset
      <4>2. m \in pg
        BY <2>3, <2>5, <4>1
      <4> QED
        BY <2>11, <4>2
    <3>2. owed' \subseteq seen'
      BY <2>2, <2>10, <3>1
    <3>3. walk'.pc = "done"
      BY <2>7, <2>11
    <3> QED
      BY <2>9, <3>2, <3>3 DEF PagingIInv, WalkHasNoGaps
  <2>12. CASE pg # {}
    <3>1. walk'.pc = "walking" /\ clampOffset(walk'.offset) = offset + Cardinality(pg)
      BY <2>3, <2>6, <2>7, <2>12, Clamps
    <3>2. ASSUME NEW t \in owed, Rank(t, Rows) < offset + Cardinality(pg) PROVE t \in seen'
      <4>1. CASE Rank(t, Rows) < offset
        BY <2>2, <2>10, <4>1
      <4>2. CASE ~(Rank(t, Rows) < offset)
        <5>1. t \in Rows /\ Rank(t, Rows) \in Nat
          BY <2>4, <2>10
        <5>2. Rank(t, Rows) >= offset /\ Rank(t, Rows) < offset + limit
          BY <2>3, <2>6, <3>2, <4>2, <5>1
        <5> QED
          BY <2>2, <2>5, <5>1, <5>2
      <4> QED
        BY <4>1, <4>2
    <3> QED
      BY <2>2, <2>8, <2>9, <2>10, <3>1, <3>2 DEF PagingIInv, WalkHasNoGaps
  <2> QED
    BY <2>11, <2>12
<1>3. CASE FixArrives
  <2>1. trail \subseteq trail' /\ trail' \subseteq TrailStamps /\ UNCHANGED <<walk, seen, owed>>
    BY <1>0, <1>3 DEF FixArrives, PagingTypeOK
  <2>2. PagingTypeOK'
    BY <1>0, <2>1 DEF PagingTypeOK
  <2>3. Rows \subseteq Rows' /\ Rows' \in SUBSET TrailStamps
    BY <2>1 DEF Rows
  <2>4. Rows' \in SUBSET Nat /\ IsFiniteSet(Rows')
    BY <2>3, FS_Subset, PagingAssumption
  <2>5. \A t \in Rows : Rank(t, Rows) <= Rank(t, Rows') /\ Rank(t, Rows) \in Nat
                        /\ Rank(t, Rows') \in Nat
    BY <1>0, <2>3, <2>4, RankGrows, RankType
  <2>6. clampOffset(walk.offset) \in Nat
    BY <1>0, Clamps DEF PagingTypeOK
  <2>7. ASSUME walk.pc = "walking", NEW t \in owed
        PROVE  t \in Rows' /\ (Rank(t, Rows') < clampOffset(walk.offset) => t \in seen)
    <3>1. t \in Rows /\ (Rank(t, Rows) < clampOffset(walk.offset) => t \in seen)
      BY <2>7 DEF PagingIInv
    <3> QED
      BY <2>3, <2>5, <2>6, <3>1
  <2> QED
    BY <2>1, <2>2, <2>7 DEF PagingIInv, WalkHasNoGaps
<1>4. CASE DropOldest
  <2>1. PICK cutoff \in TrailStamps :
          trail' = {t \in trail : t >= cutoff} /\ owed' = {t \in owed : t >= cutoff}
    BY <1>4 DEF DropOldest
  <2>2. UNCHANGED <<walk, seen>>
    BY <1>4 DEF DropOldest
  <2>3. PagingTypeOK'
    BY <1>0, <2>1, <2>2 DEF PagingTypeOK
  <2>4. Rows' = {t \in Rows : t >= cutoff}
    BY <2>1, <2>2 DEF Rows
  <2>5. cutoff \in Nat
    BY PagingAssumption
  <2>6. ASSUME NEW t \in Rows, t >= cutoff PROVE Rank(t, Rows') = Rank(t, Rows)
    <3>1. \A u \in Rows : u \in Nat
      BY <1>0
    <3>2. {u \in Rows' : u > t} = {u \in Rows : u > t}
      BY <2>4, <2>5, <2>6, <3>1
    <3> QED
      BY <3>2 DEF Rank
  <2>7. ASSUME walk.pc = "walking", NEW t \in owed'
        PROVE  t \in Rows' /\ (Rank(t, Rows') < clampOffset(walk.offset) => t \in seen)
    <3>1. t \in owed /\ t >= cutoff
      BY <2>1
    <3>2. t \in Rows /\ (Rank(t, Rows) < clampOffset(walk.offset) => t \in seen)
      BY <2>7, <3>1 DEF PagingIInv
    <3> QED
      BY <2>4, <2>6, <3>1, <3>2
  <2> QED
    BY <2>1, <2>2, <2>3, <2>7 DEF PagingIInv, WalkHasNoGaps
<1>5. CASE UNCHANGED pagingVars
  BY <1>5 DEF pagingVars, PagingIInv, PagingTypeOK, WalkHasNoGaps, Rows
<1> QED
  BY <1>1, <1>2, <1>3, <1>4, <1>5 DEF PagingNext

\* A walk through a device's history has no gaps, for every trail, window and page
\* size, whatever arrives and whatever is dropped between two pages.
THEOREM NoFixIsSkipped == PagingSpec => []WalkHasNoGaps
<1>1. PagingIInv => WalkHasNoGaps
  BY DEF PagingIInv
<1> QED
  BY <1>1, PagingInitIInv, PagingNextIInv, PTL DEF PagingSpec

-----------------------------------------------------------------------------
(* VulnGate.                                                               *)

Message == Finding \cup Noise

VulnTypeOK ==
  /\ gate \in {"records", "install", "scan", "exited", "decode", "evaluate", "green", "red"}
  /\ stdout \in Seq(Message) /\ next \in Nat \ {0} /\ next <= Len(stdout) + 1
  /\ deepest \in [Advisories -> [level : Int, fixed : Fixes]]

\* The i-th message is a finding of a.
IsOf(i, a) == stdout[i].kind = "finding" /\ stdout[i].id = a

\* What has been merged is what has been read.
MergedIsRead ==
  \A a \in Advisories :
    /\ deepest[a].level >= 0 <=> \E i \in 1 .. next - 1 : IsOf(i, a)
    /\ deepest[a].fixed = NoFix <=> \A i \in 1 .. next - 1 : IsOf(i, a) => stdout[i].fixed = NoFix

ReadableSoFar == \A i \in 1 .. next - 1 : stdout[i].kind # "unreadable"

ConfiguredSoFar ==
  configured = "config" =>
    \E i \in 1 .. next - 1 : /\ stdout[i].kind = "config"
                             /\ \A j \in i + 1 .. next - 1 : stdout[j].kind # "shallow"

Covered == Reported = Recorded /\ \A a \in Reported : ~HasFix(a)

VulnIInv ==
  /\ VulnTypeOK /\ MergedIsRead /\ ReadableSoFar /\ ConfiguredSoFar
  /\ gate \in {"records", "install", "scan", "exited"} => next = 1
  /\ gate \in {"decode", "evaluate", "green"} => status = "zero"
  /\ gate \in {"install", "scan", "exited", "decode", "evaluate", "green"} => ParseSuppressions
  /\ gate \in {"evaluate", "green"} => next = Len(stdout) + 1 /\ configured = "config"
  /\ gate = "green" => Covered

\* The initial states.
LEMMA VulnInitIInv == VulnInit => VulnIInv
<1> SUFFICES ASSUME VulnInit PROVE VulnIInv
  OBVIOUS
<1>1. /\ gate = "records" /\ stdout = <<>> /\ next = 1 /\ configured = "none"
      /\ deepest = [a \in Advisories |-> Unseen]
  BY DEF VulnInit
<1>2. Unseen \in [level : Int, fixed : Fixes] /\ ~(Unseen.level >= 0) /\ Unseen.fixed = NoFix
  BY DEF Unseen, Fixes
<1>3. VulnTypeOK
  BY <1>1, <1>2 DEF VulnTypeOK
<1>4. \A i \in 1 .. next - 1 : FALSE
  BY <1>1
<1>5. MergedIsRead /\ ReadableSoFar /\ ConfiguredSoFar
  BY <1>1, <1>2, <1>4 DEF MergedIsRead, ReadableSoFar, ConfiguredSoFar
<1> QED
  BY <1>1, <1>3, <1>5 DEF VulnIInv

\* A finding is merged: its advisory is reported from then on, and it has a fix if
\* any of its findings has named one.
LEMMA MergeIsDeepest ==
  ASSUME NEW d \in [level : Int, fixed : Fixes], NEW m \in Finding
  PROVE  /\ Merge(d, m) \in [level : Int, fixed : Fixes]
         /\ Merge(d, m).level >= 0
         /\ Merge(d, m).fixed = NoFix <=> d.fixed = NoFix /\ m.fixed = NoFix
<1>1. m.level \in Nat /\ m.fixed \in Fixes /\ d.level \in Int /\ d.fixed \in Fixes
  BY VulnAssumption DEF Finding
<1> QED
  BY <1>1 DEF Merge

\* Steps that read nothing keep what the messages read have established.
LEMMA NothingRead ==
  ASSUME VulnIInv, UNCHANGED <<stdout, next, configured, deepest>>
  PROVE  MergedIsRead' /\ ReadableSoFar' /\ ConfiguredSoFar'
BY DEF VulnIInv, MergedIsRead, ReadableSoFar, ConfiguredSoFar, IsOf

\* A message is decoded.
LEMMA DecodeIInv ==
  ASSUME VulnIInv, Decode
  PROVE  VulnIInv'
<1> DEFINE m == stdout[next]
<1>0. /\ gate = "decode" /\ next <= Len(stdout) /\ UNCHANGED <<entries, stdout, status>> /\ VulnTypeOK
  BY DEF Decode, VulnIInv
<1>1. ParseSuppressions'
  BY <1>0 DEF VulnIInv, ParseSuppressions
<1>2. next \in 1 .. Len(stdout) /\ m \in Message
  BY <1>0 DEF VulnTypeOK
<1>3. CASE m.kind = "unreadable"
  <2>1. gate' = "red" /\ UNCHANGED <<next, configured, deepest>>
    BY <1>3 DEF Decode
  <2> QED
    BY <1>0, <2>1, NothingRead DEF VulnIInv, VulnTypeOK
<1>4. CASE m.kind # "unreadable"
  <2>1. /\ next' = next + 1 /\ gate' = gate
        /\ configured' = IF m.kind \in {"config", "shallow"} THEN m.kind ELSE configured
        /\ deepest' = IF m.kind = "finding" THEN [deepest EXCEPT ![m.id] = Merge(@, m)] ELSE deepest
    BY <1>4 DEF Decode
  <2>2. next \in Nat /\ 1 .. next' - 1 = (1 .. next - 1) \cup {next} /\ next \notin 1 .. next - 1
    BY <1>0, <1>2, <2>1 DEF VulnTypeOK
  <2>3. m.kind = "finding" => m \in Finding /\ m.id \in Advisories
    BY <1>2 DEF Message, Noise, Plain, Finding
  <2>4. VulnTypeOK'
    <3>1. deepest' \in [Advisories -> [level : Int, fixed : Fixes]]
      BY <1>0, <2>1, <2>3, MergeIsDeepest DEF VulnTypeOK
    <3> QED
      BY <1>0, <2>1, <2>2, <3>1 DEF VulnTypeOK
  <2>5. ReadableSoFar'
    BY <1>0, <1>4, <2>2 DEF VulnIInv, ReadableSoFar
  <2>6. MergedIsRead'
    <3> SUFFICES ASSUME NEW a \in Advisories
                 PROVE  /\ deepest'[a].level >= 0 <=> \E i \in 1 .. next' - 1 : IsOf(i, a)
                        /\ deepest'[a].fixed = NoFix <=>
                             \A i \in 1 .. next' - 1 : IsOf(i, a) => stdout[i].fixed = NoFix
      BY <1>0 DEF MergedIsRead, IsOf
    <3>1. /\ deepest[a].level >= 0 <=> \E i \in 1 .. next - 1 : IsOf(i, a)
          /\ deepest[a].fixed = NoFix <=>
               \A i \in 1 .. next - 1 : IsOf(i, a) => stdout[i].fixed = NoFix
      BY DEF VulnIInv, MergedIsRead
    <3>2. deepest[a] \in [level : Int, fixed : Fixes]
      BY <1>0 DEF VulnTypeOK
    <3>3. CASE IsOf(next, a)
      <4>1. deepest'[a] = Merge(deepest[a], m) /\ m \in Finding
        BY <1>0, <2>1, <2>3, <3>3 DEF IsOf, VulnTypeOK
      <4>2. /\ deepest'[a].level >= 0
            /\ deepest'[a].fixed = NoFix <=> deepest[a].fixed = NoFix /\ m.fixed = NoFix
        BY <3>2, <4>1, MergeIsDeepest
      <4> QED
        BY <2>2, <3>1, <3>3, <4>2
    <3>4. CASE ~IsOf(next, a)
      <4>1. deepest'[a] = deepest[a]
        BY <1>0, <2>1, <2>3, <3>4 DEF IsOf, VulnTypeOK
      <4> QED
        BY <2>2, <3>1, <3>4, <4>1
    <3> QED
      BY <3>3, <3>4
  <2>7. ConfiguredSoFar'
    <3> SUFFICES ASSUME configured' = "config"
                 PROVE  \E i \in 1 .. next' - 1 :
                          /\ stdout[i].kind = "config"
                          /\ \A j \in i + 1 .. next' - 1 : stdout[j].kind # "shallow"
      BY <1>0 DEF ConfiguredSoFar
    <3>1. CASE m.kind = "config"
      <4>1. next \in 1 .. next' - 1 /\ \A j \in next + 1 .. next' - 1 : FALSE
        BY <2>1, <2>2
      <4> QED
        BY <3>1, <4>1
    <3>2. CASE m.kind # "config"
      <4>1. configured = "config" /\ m.kind # "shallow"
        BY <2>1, <3>2
      <4>2. PICK i \in 1 .. next - 1 : /\ stdout[i].kind = "config"
                                       /\ \A j \in i + 1 .. next - 1 : stdout[j].kind # "shallow"
        BY <4>1 DEF VulnIInv, ConfiguredSoFar
      <4>3. \A j \in i + 1 .. next' - 1 : j \in i + 1 .. next - 1 \/ j = next
        BY <2>1, <2>2, <4>2
      <4> QED
        BY <2>2, <4>1, <4>2, <4>3
    <3> QED
      BY <3>1, <3>2
  <2> QED
    BY <1>0, <1>1, <2>1, <2>4, <2>5, <2>6, <2>7 DEF VulnIInv
<1> QED
  BY <1>3, <1>4

\* Every step.
LEMMA VulnNextIInv == VulnIInv /\ [VulnNext]_vulnVars => VulnIInv'
<1> SUFFICES ASSUME VulnIInv, [VulnNext]_vulnVars PROVE VulnIInv'
  OBVIOUS
<1>1. CASE LoadSuppressions
  BY <1>1, NothingRead DEF LoadSuppressions, VulnIInv, VulnTypeOK, ParseSuppressions
<1>2. CASE Install
  BY <1>2, NothingRead DEF Install, VulnIInv, VulnTypeOK, ParseSuppressions
<1>3. CASE Emit
  <2>1. PICK m \in Message : stdout' = Append(stdout, m)
    BY <1>3 DEF Emit, Message
  <2>2. gate = "scan" /\ next = 1 /\ UNCHANGED <<gate, entries, status, next, configured, deepest>>
    BY <1>3 DEF Emit, VulnIInv
  <2>3. stdout' \in Seq(Message) /\ Len(stdout') = Len(stdout) + 1 /\ Len(stdout) \in Nat
    BY <2>1 DEF VulnIInv, VulnTypeOK
  <2>4. VulnTypeOK'
    BY <2>2, <2>3 DEF VulnIInv, VulnTypeOK
  <2>5. \A i \in 1 .. next - 1 : FALSE
    BY <2>2
  <2>6. MergedIsRead' /\ ReadableSoFar' /\ ConfiguredSoFar'
    BY <2>2, <2>5 DEF VulnIInv, MergedIsRead, ReadableSoFar, ConfiguredSoFar
  <2> QED
    BY <2>2, <2>4, <2>6 DEF VulnIInv, ParseSuppressions
<1>4. CASE Exit \/ CheckStatus
  BY <1>4, NothingRead DEF Exit, CheckStatus, VulnIInv, VulnTypeOK, ParseSuppressions
<1>5. CASE Decode
  BY <1>5, DecodeIInv
<1>6. CASE Decoded
  BY <1>6, NothingRead DEF Decoded, VulnIInv, VulnTypeOK, ParseSuppressions
<1>7. CASE Evaluate
  <2>1. UNCHANGED <<entries, stdout, status, next, configured, deepest>> /\ gate = "evaluate"
    BY <1>7 DEF Evaluate
  <2>2. gate' \in {"green", "red"}
    BY <1>7 DEF Evaluate
  <2>3. gate' = "green" => Covered
    BY <1>7 DEF Evaluate, Covered
  <2>4. Covered => Covered'
    BY <2>1 DEF Covered, Reported, Recorded, HasFix
  <2> QED
    BY <2>1, <2>2, <2>3, <2>4, NothingRead DEF VulnIInv, VulnTypeOK, ParseSuppressions
<1>8. CASE UNCHANGED vulnVars
  BY <1>8, NothingRead
  DEF vulnVars, VulnIInv, VulnTypeOK, ParseSuppressions, Covered, Reported, Recorded, HasFix
<1> QED
  BY <1>1, <1>2, <1>3, <1>4, <1>5, <1>6, <1>7, <1>8 DEF VulnNext

\* Green says what it claims, for every stream and every suppression file.
THEOREM GreenIsCovered == VulnSpec => []GreenMeansCovered
<1>1. ASSUME VulnIInv PROVE GreenMeansCovered
  <2> SUFFICES ASSUME gate = "green"
               PROVE  /\ status = "zero"
                      /\ \A a \in Advisories :
                           /\ (Said(a) # {}) <=> (a \in Recorded)
                           /\ \A i \in Said(a) : stdout[i].fixed = NoFix
                      /\ \A i \in DOMAIN stdout : stdout[i].kind # "unreadable"
                      /\ \E i \in DOMAIN stdout :
                           /\ stdout[i].kind = "config"
                           /\ \A j \in i + 1 .. Len(stdout) : stdout[j].kind # "shallow"
                      /\ \A i, j \in DOMAIN entries : entries[i].id = entries[j].id => i = j
    BY DEF GreenMeansCovered
  <2>1. next = Len(stdout) + 1 /\ configured = "config" /\ Covered /\ ParseSuppressions
        /\ stdout \in Seq(Message) /\ status = "zero"
    BY <1>1 DEF VulnIInv, VulnTypeOK
  <2>2. DOMAIN stdout = 1 .. next - 1 /\ next - 1 = Len(stdout)
    BY <2>1
  <2>3. ASSUME NEW a \in Advisories
        PROVE  ((Said(a) # {}) <=> (a \in Recorded)) /\ \A i \in Said(a) : stdout[i].fixed = NoFix
    <3>1. \A i \in DOMAIN stdout : i \in Said(a) <=> IsOf(i, a)
      BY DEF Said, IsOf
    <3>2. Said(a) # {} <=> a \in Reported
      BY <1>1, <2>2, <3>1 DEF VulnIInv, MergedIsRead, Reported, Said
    <3>3. a \in Reported => deepest[a].fixed = NoFix
      BY <2>1 DEF Covered, HasFix
    <3>4. a \in Reported => \A i \in Said(a) : stdout[i].fixed = NoFix
      BY <1>1, <2>2, <3>1, <3>3 DEF VulnIInv, MergedIsRead, Said
    <3> QED
      BY <2>1, <3>2, <3>4 DEF Covered
  <2>4. \A i \in DOMAIN stdout : stdout[i].kind # "unreadable"
    BY <1>1, <2>2 DEF VulnIInv, ReadableSoFar
  <2>5. \E i \in DOMAIN stdout : /\ stdout[i].kind = "config"
                                 /\ \A j \in i + 1 .. Len(stdout) : stdout[j].kind # "shallow"
    BY <1>1, <2>1, <2>2 DEF VulnIInv, ConfiguredSoFar
  <2> QED
    BY <2>1, <2>3, <2>4, <2>5 DEF ParseSuppressions
<1> QED
  BY <1>1, VulnInitIInv, VulnNextIInv, PTL DEF VulnSpec
-----------------------------------------------------------------------------
(* CivilDays.                                                              *)

\* The days of the years before a year that begins in March.
YearDays(y) ==
  LET era == y \div 400
      yoe == y - era * 400
  IN  era * 146097 + yoe * 365 + yoe \div 4 - yoe \div 100

\* The days of a year before a month, March being the first.
MonthDays(m) == (153 * ((m + 9) % 12) + 2) \div 5

\* The year a month belongs to when March is the first.
MarchYear(y, m) == IF m <= 2 THEN y - 1 ELSE y

\* A year that begins in March ends with the leap day of the next, over the end
\* of an era too.
LEMMA YearAdds ==
  ASSUME NEW y \in Nat
  PROVE  /\ YearDays(y) \in Int
         /\ YearDays(y + 1) = YearDays(y) + (IF isLeap(y + 1) THEN 366 ELSE 365)
<1> DEFINE era == y \div 400
           yoe == y - era * 400
<1>1. era \in Nat /\ yoe \in 0 .. 399 /\ y = era * 400 + yoe
  OBVIOUS
<1>2. /\ (y + 1) % 4 = (yoe + 1) % 4 /\ (y + 1) % 100 = (yoe + 1) % 100
      /\ (y + 1) % 400 = (yoe + 1) % 400
  BY <1>1
<1>3. CASE yoe < 399
  <2>1. (y + 1) \div 400 = era /\ (y + 1) - era * 400 = yoe + 1
    BY <1>1, <1>3
  <2>2. /\ (yoe + 1) \div 4 = yoe \div 4 + (IF (yoe + 1) % 4 = 0 THEN 1 ELSE 0)
        /\ (yoe + 1) \div 100 = yoe \div 100 + (IF (yoe + 1) % 100 = 0 THEN 1 ELSE 0)
    BY <1>1
  <2>3. (yoe + 1) % 400 # 0 /\ ((yoe + 1) % 100 = 0 => (yoe + 1) % 4 = 0)
    BY <1>1, <1>3
  <2>4. isLeap(y + 1) <=> (yoe + 1) % 4 = 0 /\ (yoe + 1) % 100 # 0
    BY <1>2, <2>3 DEF isLeap
  <2>5. YearDays(y) = era * 146097 + yoe * 365 + yoe \div 4 - yoe \div 100
    BY DEF YearDays
  <2>6. YearDays(y + 1) = era * 146097 + (yoe + 1) * 365 + (yoe + 1) \div 4 - (yoe + 1) \div 100
    BY <2>1 DEF YearDays
  <2>7. /\ yoe \div 4 \in Int /\ yoe \div 100 \in Int /\ (yoe + 1) % 4 \in Int
        /\ (yoe + 1) % 100 \in Int
    BY <1>1
  <2> HIDE DEF era, yoe
  <2> QED
    BY <1>1, <2>2, <2>3, <2>4, <2>5, <2>6, <2>7
<1>4. CASE yoe = 399
  <2>1. (y + 1) \div 400 = era + 1 /\ (y + 1) - (era + 1) * 400 = 0
    BY <1>1, <1>4
  <2>2. isLeap(y + 1)
    BY <1>2, <1>4 DEF isLeap
  <2>3. YearDays(y) = era * 146097 + 399 * 365 + 99 - 3
    BY <1>4 DEF YearDays
  <2>4. YearDays(y + 1) = (era + 1) * 146097
    BY <2>1, <1>1 DEF YearDays
  <2> HIDE DEF era, yoe
  <2> QED
    BY <1>1, <2>2, <2>3, <2>4
<1> QED
  BY <1>1, <1>3, <1>4

\* The parts of the day count.
LEMMA DaysAre ==
  ASSUME NEW y, NEW m, NEW d
  PROVE  daysFromCivil(y, m, d) = YearDays(MarchYear(y, m)) + (MonthDays(m) + d - 1) - 719468
BY DEF daysFromCivil, YearDays, MonthDays, MarchYear

\* The days before a month, month by month.
LEMMA MonthsAre ==
  /\ MonthDays(3) = 0 /\ MonthDays(4) = 31 /\ MonthDays(5) = 61 /\ MonthDays(6) = 92
  /\ MonthDays(7) = 122 /\ MonthDays(8) = 153 /\ MonthDays(9) = 184 /\ MonthDays(10) = 214
  /\ MonthDays(11) = 245 /\ MonthDays(12) = 275 /\ MonthDays(1) = 306 /\ MonthDays(2) = 337
BY DEF MonthDays

\* The calendar of the server and the months of the phone have the same length.
LEMMA LengthsAre ==
  ASSUME year \in Nat, month \in 1 .. 12
  PROVE  /\ MonthLength = daysInMonth(year, month) /\ MonthLength \in 28 .. 31
         /\ month \in {1, 3, 5, 7, 8, 10, 12} => MonthLength = 31
         /\ month \in {4, 6, 9, 11} => MonthLength = 30
         /\ month = 2 => MonthLength = IF isLeap(year) THEN 29 ELSE 28
<1>1. isLeap(year) <=> year % 4 = 0 /\ (year % 100 = 0 => year % 400 = 0)
  <2>1. year % 400 = 0 => year % 4 = 0
    OBVIOUS
  <2> QED
    BY <2>1 DEF isLeap
<1>2. CASE month \in {1, 3, 5, 7, 8, 10, 12}
  <2>1. MonthLength = 31
    BY <1>2 DEF MonthLength
  <2> QED
    BY <1>2, <2>1 DEF daysInMonth
<1>3. CASE month \in {4, 6, 9, 11}
  <2>1. MonthLength = 30
    BY <1>3 DEF MonthLength
  <2> QED
    BY <1>3, <2>1 DEF daysInMonth
<1>4. CASE month = 2
  <2>1. MonthLength = IF isLeap(year) THEN 29 ELSE 28
    BY <1>1, <1>4 DEF MonthLength
  <2>2. daysInMonth(year, month) = IF isLeap(year) THEN 29 ELSE 28
    BY <1>4 DEF daysInMonth
  <2> QED
    BY <1>4, <2>1, <2>2
<1> QED
  BY <1>2, <1>3, <1>4

\* The inductive invariant: the calendar shows a date, and the count of its month's
\* first day is what has elapsed up to it.
CivilIInv ==
  /\ year \in Nat \ {0} /\ month \in 1 .. 12 /\ dayOfMonth \in 1 .. MonthLength /\ elapsed \in Int
  /\ elapsed = YearDays(MarchYear(year, month)) + (MonthDays(month) + dayOfMonth - 1) - 719468

\* The days before a month, and before the next one.
LEMMA MonthAdds ==
  ASSUME year \in Nat \ {0}, month \in 1 .. 12,
         NEW y, y = IF month = 12 THEN year + 1 ELSE year, NEW m, m = (month % 12) + 1
  PROVE  YearDays(MarchYear(y, m)) + MonthDays(m)
           = YearDays(MarchYear(year, month)) + MonthDays(month) + MonthLength
<1>1. year - 1 \in Nat /\ year \in Nat /\ YearDays(year) \in Int /\ YearDays(year - 1) \in Int
  BY YearAdds
<1>2. CASE month = 2
  <2>1. m = 3 /\ y = year /\ MarchYear(y, m) = year /\ MarchYear(year, month) = year - 1
    BY <1>2 DEF MarchYear
  <2>2. YearDays(year) = YearDays(year - 1) + (IF isLeap(year) THEN 366 ELSE 365)
    <3>1. (year - 1) + 1 = year
      BY <1>1
    <3> QED
      BY <1>1, <3>1, YearAdds
  <2>3. MonthLength = IF isLeap(year) THEN 29 ELSE 28
    BY <1>2, LengthsAre
  <2> QED
    BY <1>1, <1>2, <2>1, <2>2, <2>3, MonthsAre
<1>3. CASE month # 2
  <2>1. MarchYear(y, m) = MarchYear(year, month) /\ MarchYear(y, m) \in {year, year - 1}
    BY <1>3 DEF MarchYear
  <2>2. MonthDays(m) = MonthDays(month) + MonthLength /\ MonthDays(month) \in Int /\ MonthLength \in Int
    <3>1. CASE month \in {1, 3, 5, 7, 8, 10, 12}
      BY <3>1, MonthsAre, LengthsAre
    <3>2. CASE month \in {4, 6, 9, 11}
      BY <3>2, MonthsAre, LengthsAre
    <3> QED
      BY <1>3, <3>1, <3>2
  <2> QED
    BY <1>1, <2>1, <2>2
<1> QED
  BY <1>2, <1>3

\* The first of January 1970 is day 0.
LEMMA CivilInitIInv == CivilInit => CivilIInv
<1> SUFFICES ASSUME CivilInit PROVE CivilIInv
  OBVIOUS
<1>1. year = 1970 /\ month = 1 /\ dayOfMonth = 1 /\ elapsed = 0
  BY DEF CivilInit
<1>2. MonthLength = 31
  BY <1>1, LengthsAre
<1>3. MarchYear(1970, 1) = 1969 /\ MonthDays(1) = 306
  BY MonthsAre DEF MarchYear
<1>4. 1969 \div 400 = 4 /\ 369 \div 4 = 92 /\ 369 \div 100 = 3
  OBVIOUS
<1>5. YearDays(1969) = 719162
  BY <1>4 DEF YearDays
<1> QED
  BY <1>1, <1>2, <1>3, <1>5 DEF CivilIInv

\* A day on, within a month or into the next.
LEMMA CivilStep == CivilIInv /\ [CivilNext]_civilVars => CivilIInv'
<1> SUFFICES ASSUME CivilIInv, [CivilNext]_civilVars PROVE CivilIInv'
  OBVIOUS
<1>1. /\ year \in Nat \ {0} /\ month \in 1 .. 12 /\ dayOfMonth \in 1 .. MonthLength
      /\ elapsed = YearDays(MarchYear(year, month)) + (MonthDays(month) + dayOfMonth - 1) - 719468
      /\ MonthLength \in 28 .. 31
  BY LengthsAre DEF CivilIInv
<1>2. MarchYear(year, month) \in Nat
  BY <1>1 DEF MarchYear
<1>3. YearDays(MarchYear(year, month)) \in Int /\ MonthDays(month) \in Int
  <2>1. YearDays(MarchYear(year, month)) \in Int
    BY <1>2, YearAdds
  <2> QED
    BY <1>1, <2>1 DEF MonthDays
<1>4. CASE UNCHANGED civilVars
  BY <1>1, <1>4 DEF civilVars, CivilIInv, MonthLength
<1>5. CASE NextDay
  <2>1. year' = year /\ month' = month /\ dayOfMonth' = dayOfMonth + 1 /\ elapsed' = elapsed + 1
        /\ dayOfMonth < MonthLength
    BY <1>5 DEF NextDay
  <2>2. MonthLength' = MonthLength
    BY <2>1 DEF MonthLength
  <2>3. dayOfMonth' \in 1 .. MonthLength'
    BY <1>1, <2>1, <2>2
  <2>4. elapsed' \in Int
        /\ elapsed' = YearDays(MarchYear(year, month)) + (MonthDays(month) + dayOfMonth' - 1) - 719468
    BY <1>1, <1>3, <2>1
  <2> QED
    BY <1>1, <2>1, <2>3, <2>4 DEF CivilIInv
<1>6. CASE NextMonth
  <2>1. /\ dayOfMonth = MonthLength /\ dayOfMonth' = 1 /\ elapsed' = elapsed + 1
        /\ month' = (month % 12) + 1 /\ year' = IF month = 12 THEN year + 1 ELSE year
    BY <1>6 DEF NextMonth
  <2>2. YearDays(MarchYear(year', month')) + MonthDays(month')
          = YearDays(MarchYear(year, month)) + MonthDays(month) + MonthLength
    BY <1>1, <2>1, MonthAdds
  <2>3. year' \in Nat \ {0} /\ month' \in 1 .. 12
    BY <1>1, <2>1
  <2>4. MonthDays(month') \in Int /\ MarchYear(year', month') \in Nat
    <3>1. \A m \in 1 .. 12 : MonthDays(m) \in Int
      BY DEF MonthDays
    <3>2. \A y \in Nat \ {0} : \A m \in 1 .. 12 : MarchYear(y, m) \in Nat
      BY DEF MarchYear
    <3> QED
      BY <2>3, <3>1, <3>2
  <2>5. YearDays(MarchYear(year', month')) \in Int
    BY <2>4, YearAdds
  <2>6. MonthLength' \in 28 .. 31
    <3> DEFINE length(y, m) ==
          <<31, IF y % 4 = 0 /\ (y % 100 = 0 => y % 400 = 0) THEN 29 ELSE 28,
            31, 30, 31, 30, 31, 31, 30, 31, 30, 31>>[m]
    <3>1. \A y \in Nat : \A m \in 1 .. 12 : length(y, m) \in 28 .. 31
      OBVIOUS
    <3>2. MonthLength' = length(year', month')
      BY DEF MonthLength
    <3> HIDE DEF length
    <3> QED
      BY <2>3, <3>1, <3>2
  <2>7. dayOfMonth' \in 1 .. MonthLength'
    BY <2>1, <2>6
  <2>8. elapsed' \in Int
        /\ elapsed' = YearDays(MarchYear(year', month')) + (MonthDays(month') + dayOfMonth' - 1) - 719468
    BY <1>1, <1>3, <2>1, <2>2, <2>4, <2>5
  <2> QED
    BY <2>3, <2>7, <2>8 DEF CivilIInv
<1> QED
  BY <1>4, <1>5, <1>6 DEF CivilNext

\* "One crossing is one row": for every year the calendar reaches, the days that
\* PushPayload counts for a date are the days the route counts, and exactly the
\* dates that exist are taken.
THEOREM TheDatesAgree == CivilSpec => []PushAndRouteAgree
<1>1. CivilIInv => PushAndRouteAgree
  <2> SUFFICES ASSUME CivilIInv, NEW d \in 0 .. 32
               PROVE  parseUtcCalendar(year, month, d) =
                        IF d \in 1 .. MonthLength THEN elapsed + d - dayOfMonth ELSE Refused
    BY DEF PushAndRouteAgree
  <2>1. /\ month \in 1 .. 12 /\ MonthLength = daysInMonth(year, month) /\ MonthLength \in 28 .. 31
    BY LengthsAre DEF CivilIInv
  <2>2. YearDays(MarchYear(year, month)) \in Int /\ MonthDays(month) \in Int
    <3>1. MarchYear(year, month) \in Nat
      BY DEF CivilIInv, MarchYear
    <3>2. YearDays(MarchYear(year, month)) \in Int
      BY <3>1, YearAdds
    <3> QED
      BY <2>1, <3>2 DEF MonthDays
  <2>3. daysFromCivil(year, month, d) = elapsed + d - dayOfMonth
    BY <2>1, <2>2, DaysAre DEF CivilIInv
  <2>4. d \in 1 .. 31 /\ d <= daysInMonth(year, month) <=> d \in 1 .. MonthLength
    BY <2>1
  <2> QED
    BY <2>1, <2>3, <2>4 DEF parseUtcCalendar
<1> QED
  BY <1>1, CivilInitIInv, CivilStep, PTL DEF CivilSpec

=============================================================================
