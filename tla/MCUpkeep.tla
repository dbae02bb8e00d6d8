------------------------------ MODULE MCUpkeep ------------------------------
(* The upkeep that has to get there in the end, for TLC: the retention job *)
(* (Retention) and the registration of a phone's push address              *)
(* (PushRegistration).  `upkeep` says which of them a behaviour is about;  *)
(* the other rests, and enables nothing that its fairness would ask for.   *)
(*                                                                         *)
(* The children of `fixes` that somebody else made are a DEFAULT           *)
(* partition, one that has the name of month 1 and covers month 0, and one *)
(* the other way round.                                                    *)
EXTENDS Retention, PushRegistration

VARIABLE upkeep

upkeepVars == <<vars, registrationVars, upkeep>>

MCStrangers == {<<Default, 0>>, <<1, 0>>, <<0, 1>>}

UpkeepInit ==
    /\ upkeep \in {"retention", "registration"}
    /\ Init /\ (upkeep # "retention" => exists = {})
    /\ RegistrationInit /\ (upkeep # "registration" => account = CHOOSE a \in Accounts : TRUE)

Retain   == upkeep = "retention" /\ Next /\ UNCHANGED <<registrationVars, upkeep>>
Register == upkeep = "registration" /\ RegistrationNext /\ UNCHANGED <<vars, upkeep>>

UpkeepSpec ==
    UpkeepInit /\ [][Retain \/ Register]_upkeepVars /\ Fairness /\ RegistrationFairness
=============================================================================
