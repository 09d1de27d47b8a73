---------------------------- MODULE SignSession -----------------------------
(***************************************************************************)
(* One signing session (packages/client/src/sign.ts): the rounds of        *)
(* RoundSession, in which                                                  *)
(*   - round 1 is getParticipants: the parties tell each other the index   *)
(*     of their key share;                                                 *)
(*   - the next ones are the offline stage.  The state machine addresses a *)
(*     peer by its position in the list of participants, and the server    *)
(*     resolves a position to a party number and that to a connection, if  *)
(*     the receiver has registered it with Session.participant;            *)
(*   - the last is partialSignature, after which the party takes its       *)
(*     listeners off the socket.                                           *)
(* Each of the three has a RoundBased of its own, over one sink.           *)
(***************************************************************************)
EXTENDS RoundSession

CONSTANTS Numbers,       \* the party numbers of the key
          ClosingRounds  \* bound: the rounds in which a connection closes

ASSUME NumbersAssumption == Numbers \subseteq Nat \ {0}

\* Peers are addressed by position only after getParticipants, and the first
\* round of the offline stage is a broadcast
ASSUME PeersLate == PeerRounds \subseteq 3 .. Rounds

VARIABLES number,        \* [Party -> the party number of its key share]
          participants,  \* the server's map of positions to party numbers;
                         \*  0 is a position nobody registered
          registered,    \* parties that have the answer of Session.participant
          failed,        \* parties whose peer message the server refused
          ended          \* parties that took their listeners off

signVars == <<number, participants, registered, failed, ended>>

Position == 1 .. Cardinality(Party)

\* Faulty variant: the list stays in the order of arrival
PositionArrived(p, q) ==
    IF q = p THEN Cardinality(Party) ELSE CHOOSE i \in DOMAIN taken[p][1] : taken[p][1][i] = q

\* The position of q in p's list: the senders of round 1 and p itself, sorted
\* by party number
PositionOf(p, q) ==
    Cardinality({x \in Range(taken[p][1]) \cup {p} : number[x] <= number[q]})

\* Session::resolve: nobody, or the party that signed up with the number
Resolve(i) == {q \in Party : number[q] = participants[i]}

-----------------------------------------------------------------------------

SignInit == /\ Init
            /\ number \in {f \in [Party -> Numbers] : IsInjective(f)}
            /\ participants = [i \in Position |-> 0]
            /\ registered = {} /\ failed = {} /\ ended = {}

\* Faulty variant: the index of the next party
RegistrationNext(p) == [participants EXCEPT ![PositionOf(p, p)] = number[p] + 1]

\* What the server makes of p's Session.participant
Registration(p) == [participants EXCEPT ![PositionOf(p, p)] = number[p]]

\* Session.participant: asked for once the indices of all are there, handled
\* when the connection task is free, and awaited
Register(p) ==
    /\ p \notin gone \cup registered
    /\ ~blocked /\ at[p] = 2 /\ relay[p] = {}
    /\ participants' = Registration(p)
    /\ registered' = registered \cup {p}
    /\ UNCHANGED <<vars, number, failed, ended>>

\* Faulty variant: the offline stage does not wait for the registration
SignSendAtOnce(p) == Send(p) /\ UNCHANGED signVars

\* The stages after getParticipants wait for the registration
SignSend(p) ==
    /\ at[p] > 1 => p \in registered
    /\ Send(p)
    /\ UNCHANGED signVars

\* Session.message: a peer message goes where its position resolves to; an
\* unknown position is an error, which ends sign().
SignRespond(p) ==
    /\ ~blocked
    /\ request[p] # {} /\ relay[p] = {}
    /\ LET d == CHOOSE x \in request[p] : TRUE
           to == Resolve(PositionOf(p, d.receiver))
           peer == d.round \in PeerRounds
       IN /\ relay' = [relay EXCEPT ![p] =
                          IF peer THEN {[d EXCEPT !.receiver = q] : q \in to} ELSE request[p]]
          /\ failed' = IF peer /\ to = {} THEN failed \cup {p} ELSE failed
    /\ request' = [request EXCEPT ![p] = {}]
    /\ UNCHANGED <<at, gone, outgoing, wire, sink, taken, refused, blocked,
                   number, participants, registered, ended>>

SignTake(p) == p \notin failed /\ Take(p)

\* Faulty variant: the listeners go before the partial signatures
SignedEarly(p) ==
    /\ p \notin gone \cup ended \cup failed
    /\ at[p] = Rounds
    /\ ended' = ended \cup {p}
    /\ UNCHANGED <<vars, number, participants, registered, failed>>

\* signer.create has the signature: removeAllListeners("sessionMessage")
Signed(p) ==
    /\ p \notin gone \cup ended
    /\ at[p] = Rounds + 1
    /\ ended' = ended \cup {p}
    /\ UNCHANGED <<vars, number, participants, registered, failed>>

\* RoundSession's Block is left out: no fairness is assumed here, so a server
\* that takes no step any more is among the behaviours without it.
SignNext ==
    \/ \E p \in Party : Register(p) \/ SignSend(p) \/ SignRespond(p) \/ Signed(p)
    \/ /\ \/ \E p \in Party : Start(p) \/ SignTake(p) \/ Push(p)
          \/ \E p \in Party : at[p] \in ClosingRounds /\ Disconnect(p)
          \/ \E d \in Delivery : Receive(d)
       /\ UNCHANGED signVars

SignSpec == SignInit /\ [][SignNext]_<<vars, signVars>>

-----------------------------------------------------------------------------

SignTypeOK ==
    /\ TypeOK
    /\ number \in [Party -> Numbers]
    /\ participants \in [Position -> Numbers \cup {0}]
    /\ registered \subseteq Party /\ failed \subseteq Party /\ ended \subseteq Party

\* Every position a party could address now resolves to the peer it means:
\* the parties have the same list, and whoever sent a message of the offline
\* stage has registered before.  So BadPeerReceiver never ends sign().
PeersResolve ==
    /\ failed = {}
    /\ \A p, q \in Party :
          at[p] >= 3 => Resolve(PositionOf(p, q)) = {q}

\* A party takes its listeners off when nothing is under way to it any more:
\* not on the wire, at the server, or with a peer that is still sending.
EndQuiet ==
    \A p \in ended : \A q \in Party :
        \A d \in wire \cup relay[q] \cup request[q] \cup UNION outgoing[q] :
            d.receiver # p

\* What the parties exchange is one computation of RoundSession: the detour
\* over positions and party numbers changes no receiver.
RoundsSpec == Spec

=============================================================================
