---------------------------- MODULE RoundBarrier ----------------------------
(***************************************************************************)
(* What the round-based computations of packages/client promise, without   *)
(* messages: every party goes through rounds 1..Rounds, and leaves a round *)
(* only when every party has entered it.  The cryptographic state machines *)
(* (KeyGenerator, Signer) are written against this promise: proceed() is   *)
(* called with the inputs of one round, from all the parties.              *)
(***************************************************************************)
EXTENDS Integers

CONSTANTS Party,    \* the parties of one session
          Rounds    \* how many rounds the computation has

VARIABLE at         \* [Party -> the round a party is in: 0 before it starts,
                    \*  Rounds + 1 when it is through]

Init == at = [p \in Party |-> 0]

\* A party enters its next round, or is through after the last
Advance(p) == /\ at[p] <= Rounds
              /\ \A q \in Party : at[q] >= at[p]
              /\ at' = [at EXCEPT ![p] = @ + 1]

Next == \E p \in Party : Advance(p)

Spec == Init /\ [][Next]_at

-----------------------------------------------------------------------------

TypeOK == at \in [Party -> 0 .. Rounds + 1]

\* No party is more than one round ahead of another: so the messages a
\* party holds for the future are those of one round (the sink's map,
\* transports/websocket.ts:43, never has more than two entries).
Lockstep == \A p, q \in Party : at[p] <= at[q] + 1

=============================================================================
