----------------------------- MODULE MCDappFlow ------------------------------
(* Instances of DappFlow for TLC.                                          *)
EXTENDS DappFlow, TLC

CONSTANTS c1, c2, c3

\* A key of three parties, two of which sign
TwoOfThree == [parties |-> 3, threshold |-> 1]

\* The second client also holds a copy of the first one's share.
Copies == c1 :> {1} @@ c2 :> {1, 2} @@ c3 :> {3}
HeldShares == [c \in Client |-> Copies[c]]

\* A new key takes two clients: the first one makes two of them in turn, and the
\* other ones follow a link each.  The first two sign two messages, and send a
\* transaction.
Opens == "keygen" :> (c1 :> 2 @@ c2 :> 1 @@ c3 :> 1)
         @@ "message" :> (c1 :> 2 @@ c2 :> 2 @@ c3 :> 0)
         @@ "transaction" :> (c1 :> 1 @@ c2 :> 1 @@ c3 :> 0)
WizardsOpened == [k \in Kinds |-> [c \in Client |-> Opens[k][c]]]
FirstCreates == [c \in Client |-> IF c = c1 THEN {2} ELSE {}]

=============================================================================
