---------------------------- MODULE BootRestart ----------------------------
(* Collection after a reboot.  The phone: the persisted ask, the boot      *)
(* receiver and its decision (collect/BootCompletedReceiver.kt,            *)
(* BootRestartDecision.kt), the service's own start and stop               *)
(* (LocationCollectionService.kt) and the screen's control                 *)
(* (ui/MainActivity.kt).  Around it Android, external: it delivers no boot *)
(* broadcast to a stopped app or a disabled receiver, and it writes what   *)
(* it knows of a package to disk with a delay, which a reboot may forestall. *)
(*                                                                         *)
(* The phone is in the hands of a person, or of the route that verifies    *)
(* all this on a device (internal/uiverify/bootrestart.go): four runs,     *)
(* each across a reboot, and one verdict.                                  *)
EXTENDS Integers, FiniteSets

CONSTANT MaxReboots   \* bound on the reboots of a person

Capabilities == {"NONE", "FOREGROUND_ONLY", "CONTINUOUS"}
NoReason     == "none"
Reasons      == {NoReason, "BACKGROUND_LOCATION_NOT_GRANTED", "SERVER_CONFIG_UNUSABLE"}

VARIABLES
    hand,       \* who has the phone: "person" or "route"
    package,    \* [stopped, receiver]: what PackageManager knows of the app ...
    onDisk,     \* ... and what of it a reboot will find
    prefs,      \* [asked, configured, reason]: ClientPreferences
    capability, \* LocationPermissionFlow.capability of what is granted
    service,    \* "off", "killed" (to be restarted, START_STICKY), "starting" or "foreground"
    broadcast,  \* whether a BOOT_COMPLETED is to be delivered
    will,       \* history: whether the last thing a person did was to start collection
    reboots,
    run,        \* the route: which of the four runs
    step,       \* and where in it
    delivered,  \* history: the runs in which the boot broadcast reached the app
    misread,    \* history: the runs in which a dump taken after the boot failed
    problems,   \* <<run, what>>: what the route has to complain about
    verdict     \* "open", "green", "red", or "refused"

phoneVars == <<package, onDisk, prefs, capability, service, broadcast, will>>
routeVars == <<run, step, delivered, misread, problems, verdict>>
bootVars  == <<hand, reboots, phoneVars, routeVars>>

BootInit ==
    /\ hand \in {"person", "route"}
    /\ package = [stopped |-> TRUE, receiver |-> TRUE] /\ onDisk = package
    /\ prefs = [asked |-> FALSE, configured |-> FALSE, reason |-> NoReason]
    /\ capability = "NONE"
    /\ service = "off" /\ broadcast = FALSE /\ will = FALSE /\ reboots = 0
    /\ run = 1 /\ step = "grant" /\ delivered = {} /\ misread = {} /\ problems = {} /\ verdict = "open"

-----------------------------------------------------------------------------
(* Android.                                                                *)

\* The delayed write of the package's state.
WriteSettings ==
    /\ onDisk # package /\ onDisk' = package
    /\ UNCHANGED <<hand, reboots, package, prefs, capability, service, broadcast, will, routeVars>>

\* What a boot finds, whether or not the delayed write came in time.
Boots ==
    /\ package' = onDisk /\ onDisk' = onDisk
    /\ service' = "off"
    /\ broadcast' = (~onDisk.stopped /\ onDisk.receiver)

KillProcess ==
    /\ hand = "person" /\ service = "foreground"
    /\ service' = "killed"
    /\ UNCHANGED <<hand, reboots, package, onDisk, prefs, capability, broadcast, will, routeVars>>

StickyRestart ==
    /\ service = "killed" /\ service' = "starting"
    /\ UNCHANGED <<hand, reboots, package, onDisk, prefs, capability, broadcast, will, routeVars>>

-----------------------------------------------------------------------------
(* The app.                                                                *)

\* BootRestartDecision.decide: a reason, or NoReason, or "start".
decide ==
    IF ~prefs.asked THEN NoReason
    ELSE IF capability # "CONTINUOUS" THEN "BACKGROUND_LOCATION_NOT_GRANTED"
    ELSE IF ~prefs.configured THEN "SERVER_CONFIG_UNUSABLE" ELSE "start"

\* BootCompletedReceiver.onReceive.
onReceive ==
    /\ broadcast /\ broadcast' = FALSE
    /\ \/ decide = "start" /\ service' = "starting" /\ UNCHANGED prefs
       \/ decide # "start" /\ prefs' = [prefs EXCEPT !.reason = decide] /\ UNCHANGED service
    /\ delivered' = IF hand = "route" THEN delivered \cup {run} ELSE delivered
    /\ UNCHANGED <<hand, reboots, package, onDisk, capability, will, run, step, misread, problems, verdict>>

\* The platform refuses the start although the grant is there.
onReceiveRefused ==
    /\ hand = "person" /\ broadcast /\ broadcast' = FALSE /\ decide = "start"
    /\ prefs' = [prefs EXCEPT !.reason = "BACKGROUND_LOCATION_NOT_GRANTED"]
    /\ UNCHANGED <<hand, reboots, package, onDisk, capability, service, will, routeVars>>

\* LocationCollectionService.onStartCommand: startForeground, which the platform
\* may refuse, then the configuration.
onStartCommand ==
    /\ service = "starting"
    /\ \/ /\ capability # "NONE" /\ prefs.configured
          /\ service' = "foreground" /\ prefs' = [prefs EXCEPT !.reason = NoReason]
       \/ /\ hand = "person" \/ capability = "NONE" \/ ~prefs.configured
          /\ service' = "off" /\ UNCHANGED prefs
    /\ UNCHANGED <<hand, reboots, package, onDisk, capability, broadcast, will, routeVars>>

-----------------------------------------------------------------------------
(* A person.                                                               *)

ByHand == hand = "person" /\ UNCHANGED <<hand, routeVars>>

OpenApp ==
    /\ package.stopped /\ package' = [package EXCEPT !.stopped = FALSE]
    /\ ByHand /\ UNCHANGED <<reboots, onDisk, prefs, capability, service, broadcast, will>>

\* The screen's control, which reads as Start while the service is not running.
PressStart ==
    /\ ~package.stopped /\ service # "foreground" /\ capability # "NONE"
    /\ prefs' = [prefs EXCEPT !.asked = TRUE, !.reason = NoReason]
    /\ service' = "starting" /\ will' = TRUE
    /\ ByHand /\ UNCHANGED <<reboots, package, onDisk, capability, broadcast>>

\* Mutant: the stop does not take the ask back.
PressStopKeepsAsk ==
    /\ service = "foreground"
    /\ service' = "off" /\ will' = FALSE
    /\ ByHand /\ UNCHANGED <<reboots, package, onDisk, prefs, capability, broadcast>>

\* The same control as Stop, and the notification's Stop action.
PressStop ==
    /\ service = "foreground"
    /\ prefs' = [prefs EXCEPT !.asked = FALSE]
    /\ service' = "off" /\ will' = FALSE
    /\ ByHand /\ UNCHANGED <<reboots, package, onDisk, capability, broadcast>>

\* Grants are given, and taken, which ends the process.
ChangeGrants ==
    /\ \E c \in Capabilities \ {capability} :
        /\ capability' = c
        /\ service' \in IF (c = "NONE" \/ capability = "CONTINUOUS") /\ service # "off"
                       THEN {"killed", "off"} ELSE {service}
    /\ ByHand /\ UNCHANGED <<reboots, package, onDisk, prefs, broadcast, will>>

SaveConfig ==
    /\ ~package.stopped
    /\ prefs' = [prefs EXCEPT !.configured = ~@]
    /\ ByHand /\ UNCHANGED <<reboots, package, onDisk, capability, service, broadcast, will>>

ForceStop ==
    /\ ~package.stopped
    /\ package' = [package EXCEPT !.stopped = TRUE] /\ service' = "off" /\ broadcast' = FALSE
    /\ ByHand /\ UNCHANGED <<reboots, onDisk, prefs, capability, will>>

Reboot ==
    /\ reboots < MaxReboots /\ reboots' = reboots + 1
    /\ Boots
    /\ ByHand /\ UNCHANGED <<prefs, capability, will>>

-----------------------------------------------------------------------------
(* RunBootRestart.  The four runs: collection was enabled; it was stopped  *)
(* by a person; the app was force-stopped; the boot path is disabled,      *)
(* where the assertion of the first must fail.  What the device is in, the *)
(* route reads off a dump, and it drops the error of the adb command that  *)
(* takes it: a dump that failed is empty, and an empty dump says that the  *)
(* app is not stopped, its receiver not disabled and its service not       *)
(* running.  Below, `ok` says whether the dump succeeded.                  *)

AtStep(s) == hand = "route" /\ verdict = "open" /\ step = s
Refuse    == verdict' = "refused" /\ UNCHANGED <<run, step, problems>>
To(s)     == step' = s /\ UNCHANGED <<run, problems, verdict>>
RouteOnly == UNCHANGED <<hand, reboots, delivered, will>>
BeforeTheBoot == RouteOnly /\ UNCHANGED misread

\* A dump is taken after the boot.
Dumped(ok) == misread' = IF ok THEN misread ELSE misread \cup {run}

\* A device, the debug build, the app's words; then grantLocation, read back: an
\* empty dump shows no grant.
grantLocation ==
    /\ AtStep("grant")
    /\ \/ capability' = "CONTINUOUS" /\ To("store")
       \/ Refuse /\ capability' \in {capability, "CONTINUOUS"}
    /\ BeforeTheBoot /\ UNCHANGED <<package, onDisk, prefs, service, broadcast>>

\* writeStoredState: force-stop, write the file, read it back.
writeStoredState ==
    /\ AtStep("store")
    /\ package' = [package EXCEPT !.stopped = TRUE] /\ service' = "off" /\ broadcast' = FALSE
    /\ \/ prefs' = [asked |-> run # 2, configured |-> TRUE, reason |-> NoReason] /\ To("launch")
       \/ Refuse /\ UNCHANGED prefs
    /\ BeforeTheBoot /\ UNCHANGED <<onDisk, capability>>

\* leaveTheStoppedState: launch, which need not have the effect it should, and
\* ask the platform whether the app is still stopped.
leaveTheStoppedState ==
    /\ AtStep("launch")
    /\ \E launched \in BOOLEAN : package' = [package EXCEPT !.stopped = @ /\ ~launched]
    /\ \/ \E ok \in BOOLEAN : ~(ok /\ package'.stopped) /\ To("prepare")
       \/ Refuse
    /\ BeforeTheBoot /\ UNCHANGED <<onDisk, prefs, capability, service, broadcast>>

\* What the third and the fourth run do on top, force-stop and
\* setBootReceiverEnabled(false); the dump has to show it.
PrepareRun ==
    /\ AtStep("prepare")
    /\ LET prepared == [stopped |-> package.stopped \/ run = 3, receiver |-> package.receiver /\ run # 4] IN
       \/ package' = prepared /\ To("settle")
       \/ run \in {3, 4} /\ package' \in {package, prepared} /\ Refuse
    /\ BeforeTheBoot /\ UNCHANGED <<onDisk, prefs, capability, service, broadcast>>

\* settleBeforeReboot and rebootAndWait: the wait is a guess at the platform's
\* delay, so the write may still be outstanding; the boot may not end in time.
rebootAndWait ==
    /\ AtStep("settle")
    /\ Boots
    /\ To("survived") \/ Refuse
    /\ BeforeTheBoot /\ UNCHANGED <<prefs, capability>>

\* Mutant: what prepare reached is taken to be what the boot found.
SurvivedAssumed(ok) == TRUE

\* theAppIsStillReachable, and theAppIsStillStopped for the third run.
Survived(ok) == (ok /\ package.stopped) = (run = 3)

CheckSurvived ==
    /\ AtStep("survived")
    /\ \E ok \in BOOLEAN :
        /\ Dumped(ok)
        /\ \/ Survived(ok) /\ To("assert")
           \/ ~Survived(ok) /\ Refuse
    /\ RouteOnly /\ UNCHANGED <<package, onDisk, prefs, capability, service, broadcast>>

\* The service list is polled for a time that covers the broadcast and the
\* service's start; not `ok` is every poll of that time failing.
locationServiceIsRunning(ok) == ok /\ service = "foreground"

\* collectionIsRunningAfterTheBoot and its opposite.
AssertRun ==
    /\ AtStep("assert") /\ ~broadcast /\ service # "starting"
    /\ \E ok \in BOOLEAN :
        /\ Dumped(ok)
        /\ LET passed == locationServiceIsRunning(ok) = (run \in {1, 4}) IN
           problems' = IF passed = (run # 4) THEN problems ELSE problems \cup {<<run, "restart">>}
    /\ step' = "finish" /\ UNCHANGED <<run, verdict>>
    /\ RouteOnly /\ UNCHANGED <<package, onDisk, prefs, capability, service, broadcast>>

\* The third run opens the app, reads its screen and photographs it; the fourth
\* enables the receiver again, and an empty dump shows it enabled.
FinishRun ==
    /\ AtStep("finish")
    /\ \/ /\ \E restored \in {TRUE, run # 4} :
                package' = [package EXCEPT !.receiver = @ \/ restored, !.stopped = @ /\ run # 3]
          /\ \E missing \in SUBSET ({3} \cap {run}) :
                problems' = problems \cup {<<r, "evidence">> : r \in missing}
          /\ run' = IF run < 4 THEN run + 1 ELSE run
          /\ step' = IF run < 4 THEN "store" ELSE "done"
          /\ verdict' = IF run < 4 THEN "open" ELSE IF problems' = {} THEN "green" ELSE "red"
       \/ run = 4 /\ Refuse /\ UNCHANGED package
    /\ RouteOnly /\ UNCHANGED <<misread, onDisk, prefs, capability, service, broadcast>>

-----------------------------------------------------------------------------

AndroidStep == WriteSettings \/ KillProcess \/ StickyRestart
AppStep     == onReceive \/ onReceiveRefused \/ onStartCommand
PersonStep  == OpenApp \/ PressStart \/ PressStop \/ ChangeGrants \/ SaveConfig \/ ForceStop \/ Reboot
RouteStep   == grantLocation \/ writeStoredState \/ leaveTheStoppedState \/ PrepareRun \/ rebootAndWait
               \/ CheckSurvived \/ AssertRun \/ FinishRun

BootNext == AndroidStep \/ AppStep \/ PersonStep \/ RouteStep

BootSpec == BootInit /\ [][BootNext]_bootVars

-----------------------------------------------------------------------------

\* Nobody is tracked against their will: collection runs only if the last thing
\* a person did was to start it, across reboots, kills, sticky restarts and
\* whatever the boot receiver finds (collect/BootRestartDecision.kt:113-126,
\* collect/LocationCollectionService.kt:97-106).
NeverUnasked == hand = "person" /\ service = "foreground" => will

\* What a verdict of the route is evidence of, whichever of the platform's delayed
\* writes a reboot lost and whichever dumps failed.  When it is green the first run's
\* broadcast reached the app, which did restart, and the third's did not; in the
\* second and the fourth run a green says as much only if no dump failed after the
\* boot, for an empty dump passes both the precondition and the assertion.  Red is
\* said of the app wrongly only in the first run, if the service list could not be
\* read, and of the fourth, for nothing looks whether the receiver is still disabled
\* after the boot (internal/uiverify/bootrestart.go:465, 510, 885-911, 1003-1005).
VerdictIsEvidence ==
    /\ verdict = "green" =>
         /\ 1 \in delivered /\ 3 \notin delivered
         /\ \A r \in {2, 4} \ misread : r \in delivered <=> r = 2
    /\ \A r \in 1 .. 3 : <<r, "restart">> \in problems => r = 1 /\ r \in misread

\* What settleBeforeReboot says of the check after the boot: "a platform that
\* changes the delay refuses rather than quietly grading a fresh install".  So a
\* green verdict comes of two first runs whose launch survived the reboot, which is
\* what lets the broadcast reach the app (internal/uiverify/bootrestart.go:398-400).
GreenIsEvidence == verdict = "green" => {1, 2} \subseteq delivered

=============================================================================
