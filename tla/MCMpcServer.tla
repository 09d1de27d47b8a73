----------------------------- MODULE MCMpcServer -----------------------------
(* Instances of MpcServer for TLC. *)
EXTENDS MpcServer, TLC

Symmetry == Permutations(Conn)

\* Two parties that must both sign
TwoOfTwo == [parties |-> 2, threshold |-> 1]

\* Parameters Group.create refuses, at each of its three bounds
Refused == {[parties |-> 1, threshold |-> 1], [parties |-> 2, threshold |-> 0],
            [parties |-> 2, threshold |-> 2]}

Pair == {TwoOfTwo}
PairOrRefused == Pair \cup Refused

\* The clients of the repository sign up for key generation and load for signing
DappMethods == {<<"keygen", "signup">>, <<"sign", "load">>}

\* Loads among the signups, and what is relayed to whom
RelayMethods ==
  DappMethods \cup
  {<<"keygen", "load">>, <<"keygen", "message">>, <<"sign", "participant">>, <<"sign", "message">>}

\* Signups among the loads, and the end of a session
FinishMethods == DappMethods \cup {<<"keygen", "finish">>, <<"sign", "signup">>}
=============================================================================
