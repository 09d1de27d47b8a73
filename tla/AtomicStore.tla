---------------------------- MODULE AtomicStore ----------------------------
(***************************************************************************)
(* What the dapp's store promises its users: key shares, message proofs    *)
(* and transaction receipts are kept, and an update adds or removes one of *)
(* them and leaves all the others alone.                                   *)
(*                                                                         *)
(* The arrays of AppState (snap/dapp/src/types.ts) hold entries whose      *)
(* order means nothing, and may hold an entry twice: contents counts them. *)
(***************************************************************************)
EXTENDS Integers

CONSTANT Item       \* key shares, proofs and receipts, by what identifies them

VARIABLE contents   \* [Item -> how many entries there are]

Default == [x \in Item |-> 0]

Init == contents = Default

\* A save adds an entry
Put(x) == contents' = [contents EXCEPT ![x] = @ + 1]

\* A delete removes all the entries of an item
Remove(x) == contents' = [contents EXCEPT ![x] = 0]

Clear == contents' = Default

Next == \/ \E x \in Item : Put(x) \/ Remove(x)
        \/ Clear

Spec == Init /\ [][Next]_contents

=============================================================================
