--------------------------- MODULE CircuitBreaker ---------------------------
(***************************************************************************)
(* safety/routing/breaker.py: a breaker is a record, and each method an    *)
(* operator from the breaker before to the breaker after.  Its lock makes  *)
(* every method one step.                                                  *)
(***************************************************************************)
EXTENDS Integers

CONSTANTS Threshold, Cooldown, Never

ASSUME BreakerAssumption ==
  Threshold \in Nat \ {0} /\ Cooldown \in Nat \ {0} /\ Never \notin Int

BreakerType == [failures : Nat, openedAt : Int \cup {Never}, trialOut : BOOLEAN]

Closed == [failures |-> 0, openedAt |-> Never, trialOut |-> FALSE]

Cooling(b, now) == b.openedAt # Never /\ now - b.openedAt < Cooldown

\* available: does not claim the half-open trial.
Available(b, now) == ~Cooling(b, now)

\* Bug: allow forgets that the trial is already out.
AllowsAgain(b, now) == ~Cooling(b, now)

\* allow: whether a call may go out, and the claim it makes.
Allows(b, now) == b.openedAt = Never \/ (~Cooling(b, now) /\ ~b.trialOut)
Claimed(b)     == [b EXCEPT !.trialOut = b.openedAt # Never]

Released(b)     == [b EXCEPT !.trialOut = FALSE]
AfterSuccess(b) == Closed

\* Bug: a failed trial does not start another cooldown.
FailedOnce(b, now) ==
  [failures |-> b.failures + 1,
   openedAt |-> IF b.openedAt = Never /\ b.failures + 1 >= Threshold THEN now ELSE b.openedAt,
   trialOut |-> FALSE]

AfterFailure(b, now) ==
  [failures |-> b.failures + 1,
   openedAt |-> IF b.openedAt # Never \/ b.failures + 1 >= Threshold THEN now ELSE Never,
   trialOut |-> FALSE]
=============================================================================
