---------------------------- MODULE Presentation ----------------------------
(***************************************************************************)
(* The presentation value of a device: a pure function of the evaluation   *)
(* instant, the device's last contact and the two windows (package         *)
(* presentation).  An instant is a record of Unix seconds and nanoseconds. *)
(***************************************************************************)
EXTENDS Integers

CONSTANTS
  LiveSeconds, StaleSeconds,   \* the operator's windows
  Second                       \* sub-units in a second (10^9 nanoseconds)

\* What config.Load insists on.
ASSUME WindowsAssumption ==
  /\ LiveSeconds \in Nat \ {0} /\ StaleSeconds \in Nat
  /\ LiveSeconds < StaleSeconds
  /\ Second \in Nat \ {0}

Instant == [unix : Int, nano : 0 .. Second - 1]

Values == {"no-position", "live", "recent", "stale"}

\* The age in whole seconds, with the borrow, and never negative.
AgeSeconds(at, contact) ==
  LET secs == at.unix - contact.unix
      whole == IF at.nano - contact.nano < 0 THEN secs - 1 ELSE secs
  IN IF whole < 0 THEN 0 ELSE whole

OfAge(age) ==
  IF age <= LiveSeconds THEN "live" ELSE IF age <= StaleSeconds THEN "recent" ELSE "stale"

\* Evaluate with a last contact; without one the value is "no-position".
Evaluate(at, contact) == OfAge(AgeSeconds(at, contact))

\* B, in seconds.
SweepBound ==
  LET band == StaleSeconds - LiveSeconds
      smaller == IF band < LiveSeconds THEN band ELSE LiveSeconds
      b == smaller \div 2
  IN IF b > 1 THEN b ELSE 1
=============================================================================
