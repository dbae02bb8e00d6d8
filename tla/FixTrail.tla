------------------------------ MODULE FixTrail ------------------------------
(***************************************************************************)
(* What the phone and the server together promise about one device's       *)
(* trail: a fix the phone has taken charge of is owed to the server until  *)
(* the server has it or the phone says that it gave it up, and what the    *)
(* server has it keeps.                                                    *)
(***************************************************************************)
CONSTANT Fix

VARIABLE trail   \* trail[f]: where fix f stands

State == {"none", "held", "stored", "lost"}

TrailTypeOK == trail \in [Fix -> State]

TrailInit == trail = [f \in Fix |-> "none"]

\* The phone commits a measured fix to disk.
Hold(f) ==
  /\ trail[f] \in {"none", "lost"}
  /\ trail' = [trail EXCEPT ![f] = "held"]

\* The server commits a fix it was once sent.
Store(f) ==
  /\ trail[f] \in {"held", "lost"}
  /\ trail' = [trail EXCEPT ![f] = "stored"]

\* The phone gives fixes up, and counts them.
GiveUp(s) ==
  /\ \A f \in s : trail[f] \in {"none", "held"}
  /\ trail' = [f \in Fix |-> IF f \in s THEN "lost" ELSE trail[f]]

TrailNext ==
  \/ \E f \in Fix : Hold(f) \/ Store(f)
  \/ \E s \in SUBSET Fix : GiveUp(s)

TrailSpec == TrailInit /\ [][TrailNext]_trail
=============================================================================
