---------------------------- MODULE RoundSession ----------------------------
(***************************************************************************)
(* One session's round-based computation: the RoundBased driver of every   *)
(* party (packages/client/src/round-based.ts), its WebSocketStream and     *)
(* WebSocketSink (transports/websocket.ts), the rounds generateKeyShare    *)
(* and offlineStage give it (keygen.ts, sign.ts), and the server's relay   *)
(* of Session.message (library services.rs, server.rs).                    *)
(*                                                                         *)
(* The parties have signed up and their sinks are listening: that is       *)
(* prepareTransport in the dapp's group-session.ts.  A message is the set  *)
(* of its deliveries: one for a peer message, one per other party for a    *)
(* broadcast (receiver null).  Its body is left out.                       *)
(***************************************************************************)
EXTENDS Integers, FiniteSets, Sequences, Functions

CONSTANTS Party,       \* the parties of the session
          Rounds,      \* the length of RoundBased.rounds
          PeerRounds   \* the rounds whose messages go to one peer each

ASSUME PartyAssumption == IsFiniteSet(Party) /\ Cardinality(Party) >= 2
ASSUME RoundsAssumption == Rounds \in Nat \ {0}
ASSUME PeerAssumption == PeerRounds \subseteq 1 .. Rounds

VARIABLES at,         \* [Party -> currentRound + 1; 0 before start()]
          gone,       \* parties whose connection closed
          outgoing,   \* [Party -> messages of its round still to be sent]
          request,    \* [Party -> deliveries of the Session.message call it
                      \*  awaits the response of]
          relay,      \* [Party -> deliveries rpc_notify has still to push for
                      \*  this party's connection task]
          wire,       \* deliveries pushed to their receiver's connection
          sink,       \* [Party -> [round -> senders, in the order of arrival]]
          taken,      \* [Party -> [round -> senders given to the state machine]]
          refused,    \* deliveries a sink threw "too many messages" on
          blocked     \* TRUE once a notification waits for ever for the lock

vars == <<at, gone, outgoing, request, relay, wire, sink, taken, refused, blocked>>

-----------------------------------------------------------------------------

Delivery == {d \in [round : 1 .. Rounds, sender : Party, receiver : Party] :
               d.sender # d.receiver}

Others(p) == Party \ {p}

\* Faulty variant: the messages of one party are not waited for
ExpectedFewer == Cardinality(Party) - 2

\* Faulty variant: the party's own message is waited for
ExpectedSelf == Cardinality(Party)

\* What prepareTransport tells the sink to expect in every round
Expected == Cardinality(Party) - 1

To(p, r, Q) == {[round |-> r, sender |-> p, receiver |-> q] : q \in Q}

\* Faulty variant: rpc_notify does not filter the sender out
MessagesToAll(p, r) == {To(p, r, Party)}

\* The set of messages proceed() returns for round r
Messages(p, r) == IF r \in PeerRounds
                  THEN {To(p, r, {q}) : q \in Others(p)}
                  ELSE {To(p, r, Others(p))}

\* Faulty variant: a round is ready once it has an entry in the map
IsReadySome(p, r) == sink[p][r] # <<>>

\* WebSocketSink.isReady
IsReady(p, r) == Len(sink[p][r]) = Expected

-----------------------------------------------------------------------------

Init == /\ at = [p \in Party |-> 0]
        /\ gone = {}
        /\ outgoing = [p \in Party |-> {}]
        /\ request = [p \in Party |-> {}]
        /\ relay = [p \in Party |-> {}]
        /\ wire = {}
        /\ sink = [p \in Party |-> [r \in 1 .. Rounds |-> <<>>]]
        /\ taken = [p \in Party |-> [r \in 1 .. Rounds |-> <<>>]]
        /\ refused = {}
        /\ blocked = FALSE

\* Faulty variant: the computation is started again in its first round
StartAgain(p) ==
    /\ p \notin gone
    /\ at[p] <= 1
    /\ at' = [at EXCEPT ![p] = 1]
    /\ outgoing' = [outgoing EXCEPT ![p] = Messages(p, 1)]
    /\ UNCHANGED <<gone, request, relay, wire, sink, taken, refused, blocked>>

\* RoundBased.start and the first transition, which has no inputs
Start(p) ==
    /\ p \notin gone
    /\ at[p] = 0
    /\ at' = [at EXCEPT ![p] = 1]
    /\ outgoing' = [outgoing EXCEPT ![p] = Messages(p, 1)]
    /\ UNCHANGED <<gone, request, relay, wire, sink, taken, refused, blocked>>

\* The next turn of "for (const message of messages) await sendMessage":
\* the previous call has its response.
Send(p) ==
    /\ p \notin gone
    /\ request[p] = {}
    /\ \E m \in outgoing[p] :
          /\ outgoing' = [outgoing EXCEPT ![p] = @ \ {m}]
          /\ request' = [request EXCEPT ![p] = m]
    /\ UNCHANGED <<at, gone, relay, wire, sink, taken, refused, blocked>>

\* The connection task handles Session.message and pushes the response; it
\* reads no further request before it has notified for the previous one.
Respond(p) ==
    /\ ~blocked
    /\ request[p] # {}
    /\ relay[p] = {}
    /\ relay' = [relay EXCEPT ![p] = request[p]]
    /\ request' = [request EXCEPT ![p] = {}]
    /\ UNCHANGED <<at, gone, outgoing, wire, sink, taken, refused, blocked>>

\* One turn of rpc_notify's loop: the response goes to one receiver, or to
\* nobody when its connection is closed (its signup is still there).
Push(p) ==
    /\ ~blocked
    /\ \E d \in relay[p] :
          /\ relay' = [relay EXCEPT ![p] = @ \ {d}]
          /\ wire' = IF d.receiver \in gone THEN wire ELSE wire \cup {d}
    /\ UNCHANGED <<at, gone, outgoing, request, sink, taken, refused, blocked>>

\* rpc_notify holds the lock and asks for it again in every turn.  When the task
\* of any connection asked to write in between (a party that is through closes
\* its connection, another group makes a request), both wait for ever, and every
\* task that asks later with them (StateLock).
Block ==
    /\ ~blocked
    /\ \E p \in Party : relay[p] # {}
    /\ blocked' = TRUE
    /\ UNCHANGED <<at, gone, outgoing, request, relay, wire, sink, taken, refused>>

\* The sink's listener: receiveMessage.  The order of arrival is free.
Receive(d) ==
    /\ d \in wire
    /\ wire' = wire \ {d}
    /\ IF IsReady(d.receiver, d.round)
       THEN /\ refused' = refused \cup {d}
            /\ UNCHANGED sink
       ELSE /\ sink' = [sink EXCEPT ![d.receiver][d.round] =
                            Append(@, d.sender)]
            /\ UNCHANGED refused
    /\ UNCHANGED <<at, gone, outgoing, request, relay, taken, blocked>>

\* Faulty variant: take returns the messages and keeps them
TakeKeeps(p) ==
    /\ p \notin gone
    /\ at[p] \in 1 .. Rounds
    /\ outgoing[p] = {} /\ request[p] = {}
    /\ IsReady(p, at[p])
    /\ taken' = [taken EXCEPT ![p][at[p]] = sink[p][at[p]]]
    /\ at' = [at EXCEPT ![p] = @ + 1]
    /\ outgoing' = [outgoing EXCEPT ![p] =
                        IF at[p] < Rounds THEN Messages(p, at[p] + 1) ELSE {}]
    /\ UNCHANGED <<gone, request, relay, wire, sink, refused, blocked>>

\* waitForRound's interval finds the round ready: take, and the next
\* transition (or the finalizer, which sends nothing).
Take(p) ==
    /\ p \notin gone
    /\ at[p] \in 1 .. Rounds
    /\ outgoing[p] = {} /\ request[p] = {}
    /\ IsReady(p, at[p])
    /\ taken' = [taken EXCEPT ![p][at[p]] = sink[p][at[p]]]
    /\ sink' = [sink EXCEPT ![p][at[p]] = <<>>]
    /\ at' = [at EXCEPT ![p] = @ + 1]
    /\ outgoing' = [outgoing EXCEPT ![p] =
                        IF at[p] < Rounds THEN Messages(p, at[p] + 1) ELSE {}]
    /\ UNCHANGED <<gone, request, relay, wire, refused, blocked>>

\* A party's connection closes.  The server may or may not have read the
\* request it was sending; what was pushed to it is dropped.
Disconnect(p) ==
    /\ p \notin gone
    /\ gone' = gone \cup {p}
    /\ outgoing' = [outgoing EXCEPT ![p] = {}]
    /\ \E left \in {request[p], {}} : request' = [request EXCEPT ![p] = left]
    /\ wire' = {d \in wire : d.receiver # p}
    /\ UNCHANGED <<at, relay, sink, taken, refused, blocked>>

Next == \/ \E p \in Party : \/ Start(p)
                            \/ Send(p)
                            \/ Respond(p)
                            \/ Push(p)
                            \/ Take(p)
                            \/ Disconnect(p)
        \/ \E d \in Delivery : Receive(d)
        \/ Block

Spec == Init /\ [][Next]_vars

\* Nobody is obliged to disconnect or to ask for the lock.  Everything else is a
\* ready promise, a timer, a frame of an open socket, or a task of the server,
\* which goes on while the lock is not blocked.
Fairness == /\ \A p \in Party : /\ WF_vars(Start(p))
                                /\ WF_vars(Send(p))
                                /\ WF_vars(Respond(p))
                                /\ WF_vars(Push(p))
                                /\ WF_vars(Take(p))
            /\ \A d \in Delivery : WF_vars(Receive(d))

FairSpec == Spec /\ Fairness

-----------------------------------------------------------------------------

TypeOK ==
    /\ at \in [Party -> 0 .. Rounds + 1]
    /\ gone \subseteq Party
    /\ outgoing \in [Party -> SUBSET SUBSET Delivery]
    /\ request \in [Party -> SUBSET Delivery]
    /\ relay \in [Party -> SUBSET Delivery]
    /\ wire \subseteq Delivery
    /\ sink \in [Party -> [1 .. Rounds -> Seq(Party)]]
    /\ taken \in [Party -> [1 .. Rounds -> Seq(Party)]]
    /\ refused \subseteq Delivery
    /\ blocked \in BOOLEAN

\* The state machine gets, for every round that is over, one message of
\* every other party.  The code only counts them (isReady compares a
\* length), and messages of two rounds are on the way at once.
RoundInputs ==
    \A p \in Party, r \in 1 .. Rounds :
        r < at[p] => /\ Len(taken[p][r]) = Expected
                     /\ Range(taken[p][r]) = Others(p)

\* receiveMessage never throws "Received too many messages for round", an
\* exception in an event callback that nobody catches.
NothingRefused == refused = {}

\* A sink holds messages of its party's round and the next only: take()
\* deletes a round for good, no late message brings it back, and no peer
\* is two rounds ahead.
SinkAhead ==
    \A p \in Party, r \in 1 .. Rounds :
        sink[p][r] # <<>> => r \in {at[p], at[p] + 1}

\* The computation is a barrier: no party leaves a round before all the
\* others entered it, even though parties only look at their own sink.
Barrier == INSTANCE RoundBarrier

BarrierSpec == Barrier!Spec

\* No party is more than one round ahead of another, which is why a sink's
\* map has two entries at most.
Lockstep == Barrier!Lockstep

\* Unless a party disconnects before it is through, or a task asks to write
\* while the server notifies, every party gets through all the rounds: no cycle
\* of waiting among the parties, no message lost.
Completes ==
    \A p \in Party :
        <>(\/ at[p] = Rounds + 1
           \/ \E q \in gone : at[q] <= Rounds
           \/ blocked)

=============================================================================
