---------------------------- MODULE AlertStatus ----------------------------
(* What the phone says about whether alerts work: PushRegistrar's thread   *)
(* gathers the settings, the notification permission and this phone's      *)
(* address, registers it with the server, and records the status that      *)
(* AlertStatusPolicy decides.  What the registration does on the server is *)
(* PushRegistration; here a task is what it makes the phone say.           *)
EXTENDS ViewerSettings

CONSTANTS
    ProviderOf,   \* configured_provider of a server: "fcm", another name, "" or "absent"
    MaxWaiting,  \* bound on tasks waiting for the thread
    MaxToggles    \* bound on changes of the notification permission

VARIABLES
    permitted,    \* POST_NOTIFICATIONS
    status,       \* AlertSurface.status; "checking" while it is null
    attempts,     \* waiting tasks
    registering,  \* the registration the thread is waiting for, or None
    toggles

statusVars == <<settingsVars, permitted, status, attempts, registering, toggles>>

StatusInit ==
    /\ SettingsInit /\ permitted \in BOOLEAN
    /\ status = "checking" /\ attempts = 0 /\ registering = None /\ toggles = 0

-----------------------------------------------------------------------------
(* The screen.                                                             *)

attemptInBackground == attempts < MaxWaiting /\ attempts' = attempts + 1

\* The app is opened, or FCM gives the phone another address.
Attempt ==
    /\ attemptInBackground
    /\ UNCHANGED <<settingsVars, permitted, status, registering, toggles>>

WriteStatusSettings ==
    (SaveUrl \/ SaveViewerToken) /\ UNCHANGED <<permitted, status, attempts, registering, toggles>>

resetStatus ==
    /\ Saved
    /\ status' = "checking" /\ attemptInBackground
    /\ UNCHANGED <<permitted, registering, toggles>>

\* The process dies, and with it the status, the thread and its tasks.
StatusProcessDies ==
    /\ Died
    /\ status' = "checking" /\ attempts' = 0 /\ registering' = None
    /\ UNCHANGED <<permitted, toggles>>

\* The person grants or withdraws the permission on a system page.
TogglePermission ==
    /\ toggles < MaxToggles /\ toggles' = toggles + 1
    /\ permitted' = ~permitted
    /\ UNCHANGED <<settingsVars, status, attempts, registering>>

-----------------------------------------------------------------------------
(* PushRegistrar's thread.                                                 *)

\* AlertStatusPolicy.evaluate, with a credential; `outcome` is what the
\* registration found out.
evaluate(mayPost, address, usable, outcome) ==
    CASE ~mayPost            -> "cannotShow"
      [] mayPost /\ ~address -> "noRoutingAddress"
      [] mayPost /\ address /\ ~usable -> "unreachable"
      [] OTHER               -> outcome

\* What an accepted registration says of the deployment.
Deployment(s) ==
    CASE ProviderOf[s] = "absent" -> "serverDoesNotReport"
      [] ProviderOf[s] = ""       -> "noConfiguredProvider"
      [] ProviderOf[s] = "fcm"    -> "armed"
      [] OTHER                    -> "providerNotReceivable"

\* Mutant: without a credential the thread returns and records nothing.
StartAttemptSilent ==
    /\ attempts > 0 /\ registering = None
    /\ attempts' = attempts - 1
    /\ \E address \in BOOLEAN :
        /\ IF address THEN Untroubled ELSE Troubled
        /\ IF readViewerConfig /\ permitted /\ address
           THEN registering' = [is |-> "asking", url |-> url, token |-> token] /\ UNCHANGED status
           ELSE /\ status' = IF hasViewerCredential
                             THEN evaluate(permitted, address, readViewerConfig, "checking") ELSE status
                /\ UNCHANGED registering
    /\ UNCHANGED <<permitted, toggles>>

\* PushRegistrar.refreshBlocking up to the request.  Without an address, or one that comes
\* in time, there is nothing to register.
StartAttempt ==
    /\ attempts > 0 /\ registering = None
    /\ attempts' = attempts - 1
    /\ \E address \in BOOLEAN :
        /\ IF address THEN Untroubled ELSE Troubled
        /\ IF readViewerConfig /\ permitted /\ address
           THEN registering' = [is |-> "asking", url |-> url, token |-> token] /\ UNCHANGED status
           ELSE /\ status' = IF hasViewerCredential
                             THEN evaluate(permitted, address, readViewerConfig, "checking")
                             ELSE "notConfigured"
                /\ UNCHANGED registering
    /\ UNCHANGED <<permitted, toggles>>

\* AlertClient.register: the answer.  An accepted one whose body cannot be read says
\* nothing of the deployment.
register ==
    /\ registering.is = "asking"
    /\ \/ /\ Untroubled
          /\ registering' = [is |-> IF registering.token = registering.url
                                    THEN Deployment(registering.url) ELSE "refused"]
       \/ /\ Troubled
          /\ \/ registering' \in {[is |-> "unreachable"], [is |-> "refused"]}
             \/ registering.token = registering.url /\ registering' = [is |-> "serverDoesNotReport"]
    /\ UNCHANGED <<permitted, status, attempts, toggles>>

\* The permission, the address and the URL were there when it was asked.
recordStatus ==
    /\ registering.is \notin {"none", "asking"}
    /\ status' = evaluate(TRUE, TRUE, TRUE, registering.is)
    /\ registering' = None
    /\ UNCHANGED <<settingsVars, permitted, attempts, toggles>>

-----------------------------------------------------------------------------

RegistrarThread == StartAttempt \/ register \/ recordStatus

StatusNext ==
    \/ Attempt \/ WriteStatusSettings \/ resetStatus \/ StatusProcessDies \/ TogglePermission
    \/ RegistrarThread

(* Fairness: as in CrossingList.                                           *)
StatusFairness ==
    /\ WF_statusVars(SaveViewerToken /\ WriteStatusSettings)
    /\ SF_statusVars(resetStatus)
    /\ WF_statusVars(RegistrarThread)

StatusSpec == StatusInit /\ [][StatusNext]_statusVars /\ StatusFairness

-----------------------------------------------------------------------------

\* A phone that is opened again and again says in the end that alerts are
\* armed exactly when they are, and that no credential is stored exactly when
\* none is, although a registration made with other settings or another
\* permission is answered after the surface was cleared, or the process died
\* (alert/PushRegistrar.kt:64-119, alert/AlertDeliveryStatus.kt:137-196).
StatusSettles ==
    (/\ []<><<Attempt>>_statusVars
     /\ <>[][~SaveUrl /\ ~StatusProcessDies /\ ~TogglePermission]_statusVars)
        => <>[](/\ (status = "armed") = (permitted /\ token = url /\ ProviderOf[url] = "fcm")
                /\ (status = "notConfigured") = (token = "unset"))
=============================================================================
