---------------------------- MODULE NameRegister ----------------------------
(***************************************************************************)
(* What the global index promises its writers (src/worker.rs,              *)
(* update_global_index): a register of names to which every writer applies *)
(* its own delta atomically.  A writer asserts names to add and to remove, *)
(* and names it believes dead, each of which it may drop or spare; a write *)
(* applies one writer's delta to the names that stand at that moment.  A   *)
(* register that was never written may be founded on any names.            *)
(***************************************************************************)
EXTENDS Naturals

CONSTANTS Members, Writers, None

VARIABLES
    listed,   \* the names that stand, or None before the first write
    delta     \* per writer, what it asserts now

registerVars == <<listed, delta>>

Deltas == [adds : SUBSET Members, removes : SUBSET Members, dead : SUBSET Members]
NoDelta == [adds |-> {}, removes |-> {}, dead |-> {}]

Init ==
    /\ listed = None
    /\ delta = [w \in Writers |-> NoDelta]

\* Writers form and give up their assertions as they please.
Assert ==
    /\ delta' \in [Writers -> Deltas]
    /\ UNCHANGED listed

\* A write takes effect on what stands; other writers' deltas are unaffected.
\* The writer itself may fail after its write, which ends its assertion.
Merge(w) ==
    /\ \E base \in IF listed = None THEN SUBSET Members ELSE {listed} :
       \E dropped \in SUBSET delta[w].dead :
          listed' = (base \cup delta[w].adds) \ (delta[w].removes \cup dropped)
    /\ \A v \in Writers \ {w} : delta'[v] \in {delta[v], NoDelta}
    /\ delta'[w] \in {delta[w], NoDelta}

Next == Assert \/ \E w \in Writers : Merge(w)

Spec == Init /\ [][Next]_registerVars
=============================================================================
