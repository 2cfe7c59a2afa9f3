---------------------------- MODULE ReadThrough ----------------------------
(***************************************************************************)
(* What the API's response cache promises (safety/api/main.py), with the   *)
(* cache, the flights, the threads and the connections left out: a reader  *)
(* is answered with generations of the city's data that were served at     *)
(* some moment between its asking and its answer, or told to come back.    *)
(***************************************************************************)
EXTENDS Integers

CONSTANT Readers

VARIABLES
  served,    \* the generation of the data the database serves
  since,     \* reader -> what was served when it asked
  reply      \* reader -> the generations its answer was built from

throughVars == <<served, since, reply>>

NotAsked == -1
Waiting  == [low |-> -1, high |-> -1]
Away     == {[low |-> -2, high |-> -2], [low |-> -3, high |-> -3]}   \* busy, refused

Between(low, high) == {[low |-> a, high |-> b] : a \in low..high, b \in low..high}

ThroughInit == /\ served \in Nat
               /\ since = [r \in Readers |-> NotAsked]
               /\ reply = [r \in Readers |-> Waiting]

Serve == served' = served + 1 /\ UNCHANGED <<since, reply>>

Ask(r) == /\ since[r] = NotAsked
          /\ since' = [since EXCEPT ![r] = served]
          /\ UNCHANGED <<served, reply>>

\* One read may answer everyone who waits for it; an answer is final.
Answer == /\ \A r \in Readers :
               \/ reply'[r] = reply[r]
               \/ /\ since[r] # NotAsked /\ reply[r] = Waiting
                  /\ reply'[r] \in Away \cup Between(since[r], served)
          /\ UNCHANGED <<served, since>>

ThroughNext == Serve \/ Answer \/ \E r \in Readers : Ask(r)

ThroughSpec == ThroughInit /\ [][ThroughNext]_throughVars
=============================================================================
