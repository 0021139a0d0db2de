------------------------------ MODULE SlotPool ------------------------------
(* What the prep cap promises, said abstractly: a pool with Max slots.  An *)
(* item takes a free slot or gives its own back, one item at a time, and   *)
(* nothing is said of who takes it, why, or when.                          *)
EXTENDS Naturals, FiniteSets

CONSTANTS Items, Max
VARIABLE held

Init == held = {}

Acquire(x) ==
  /\ x \notin held
  /\ Cardinality(held) < Max
  /\ held' = held \cup {x}

Release(x) ==
  /\ x \in held
  /\ held' = held \ {x}

Next == \E x \in Items : Acquire(x) \/ Release(x)

Spec == Init /\ [][Next]_held

\* The pool never hands out more slots than it has (MAX_CONCURRENT_PREPS).
Bounded == held \subseteq Items /\ Cardinality(held) <= Max
=============================================================================
