------------------------------ MODULE MCAlerts ------------------------------
(* An alert's way that has to end well, for TLC: the server's delivery     *)
(* queue (PushDelivery) and the two halves of the phone's alert surface    *)
(* (CrossingList and AlertStatus).  `half` says which of them a behaviour  *)
(* is about; the others rest, and enable nothing that their fairness would *)
(* ask for.                                                                *)
(*                                                                         *)
(* Of the servers, "a" pushes over FCM and has two crossings at two Places *)
(* to record; "b" has a backend the client has no receive path for, and    *)
(* records nothing.                                                        *)
EXTENDS PushDelivery, CrossingList, AlertStatus

CONSTANT Halves

VARIABLE half

listOnlyVars   == <<recorded, removed, surfaceVars, threadVars>>
statusOnlyVars == <<permitted, status, attempts, registering, toggles>>
alertsVars     == <<vars, listVars, statusOnlyVars, half>>

MCCrossings  == {[server |-> "a", place |-> k, at |-> k] : k \in {1, 2}}
MCProviderOf == [s \in Servers |-> IF s = "a" THEN "fcm" ELSE "unifiedpush"]

AlertsInit ==
    /\ half \in Halves
    /\ Init /\ ListInit /\ StatusInit
    /\ half = "queue" => url = "unusable" /\ token = "unset"
    /\ half # "queue" => subs = {}
    /\ half # "status" => permitted

Queue  == half = "queue" /\ Next /\ UNCHANGED <<listVars, statusOnlyVars, half>>
List   == half = "list" /\ ListNext /\ UNCHANGED <<vars, statusOnlyVars, half>>
Status == half = "status" /\ StatusNext /\ UNCHANGED <<vars, listOnlyVars, half>>

AlertsSpec ==
    /\ AlertsInit /\ [][Queue \/ List \/ Status]_alertsVars
    /\ Fairness /\ ListFairness /\ StatusFairness
=============================================================================
