---------------------------- MODULE MCSnapStore ----------------------------
(* Instances of SnapStore for TLC. *)
EXTENDS SnapStore, TLC

CONSTANTS t1, t2, p1, p2, k1, k2, m1, r1

\* Two thunks of one page
OnePage == t1 :> p1 @@ t2 :> p1

\* One thunk of each of two pages
TwoPages == t1 :> p1 @@ t2 :> p2

\* An item of each slice
EachSlice == k1 :> "keys" @@ m1 :> "proofs" @@ r1 :> "receipts"

\* The key share may be stored twice
TwiceOne == k1 :> 2 @@ m1 :> 1 @@ r1 :> 1

\* The shares of two parties
TwoKeys == k1 :> "keys" @@ k2 :> "keys"

\* Each is saved once
OnceEach == k1 :> 1 @@ k2 :> 1

=============================================================================
