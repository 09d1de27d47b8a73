------------------------- MODULE RoundSessionProofs -------------------------
(***************************************************************************)
(* Theorems about RoundSession, for every finite set of parties, every     *)
(* number of rounds and every choice of the peer rounds.                   *)
(***************************************************************************)
EXTENDS RoundSession, FiniteSetTheorems, SequenceTheorems, TLAPS

-----------------------------------------------------------------------------
\* Messages and sinks

\* What a party sends for round r: deliveries of that round, by that party, and
\* no delivery is in two messages.
LEMMA MessagesProperties ==
  ASSUME NEW p \in Party, NEW r \in 1 .. Rounds
  PROVE  /\ Messages(p, r) \in SUBSET SUBSET Delivery
         /\ \A m \in Messages(p, r) : \A d \in m : d.sender = p /\ d.round = r
         /\ \A m, n \in Messages(p, r) : \A d \in m : d \in n => m = n
<1>1. ASSUME NEW Q \in SUBSET Others(p), NEW d \in To(p, r, Q)
      PROVE  d \in Delivery /\ d.sender = p /\ d.round = r /\ d.receiver \in Q
  BY DEF To, Delivery, Others
<1>2. CASE r \in PeerRounds
  <2>1. Messages(p, r) = {To(p, r, {q}) : q \in Others(p)}
    BY <1>2 DEF Messages
  <2>2. \A m \in Messages(p, r) : \E q \in Others(p) : m = To(p, r, {q})
    BY <2>1
  <2>3. ASSUME NEW m \in Messages(p, r), NEW d \in m
        PROVE  /\ d \in Delivery /\ d.sender = p /\ d.round = r
               /\ m = To(p, r, {d.receiver})
    <3>1. PICK q \in Others(p) : m = To(p, r, {q})
      BY <2>2
    <3>2. {q} \in SUBSET Others(p)
      OBVIOUS
    <3>3. d.receiver \in {q}
      BY <1>1, <3>1, <3>2
    <3>4. QED
      BY <1>1, <3>1, <3>2, <3>3
  <2>4. QED
    BY <2>3
<1>3. CASE r \notin PeerRounds
  <2>1. Messages(p, r) = {To(p, r, Others(p))}
    BY <1>3 DEF Messages
  <2>2. QED
    BY <1>1, <2>1
<1>4. QED
  BY <1>2, <1>3

\* A sink that holds each sender once and as many as it expects holds them all:
\* counting is enough.
LEMMA FullSink ==
  ASSUME NEW p \in Party, NEW s \in Seq(Others(p)), IsInjective(s),
         Len(s) = Expected
  PROVE  Range(s) = Others(p)
<1>1. IsFiniteSet(Others(p)) /\ Cardinality(Others(p)) = Expected
  BY PartyAssumption, FS_RemoveElement DEF Others, Expected
<1>2. Expected \in Nat
  BY <1>1, FS_CardinalityType
<1>3. s \in Injection(1 .. Len(s), Others(p))
  BY DEF Injection
<1>4. Cardinality(1 .. Len(s)) = Cardinality(Others(p))
  BY <1>1, <1>2, FS_Interval
<1>5. s \in Surjection(1 .. Len(s), Others(p))
  BY <1>1, <1>3, <1>4, FS_Injection
<1>6. QED
  BY <1>5 DEF Surjection, Range

\* What the arrival of a delivery does to the sinks
LEMMA ReceiveSink ==
  ASSUME sink \in [Party -> [1 .. Rounds -> Seq(Party)]],
         NEW d \in Delivery, Receive(d)
  PROVE  /\ sink' \in [Party -> [1 .. Rounds -> Seq(Party)]]
         /\ \A q \in Party, k \in 1 .. Rounds :
              sink'[q][k] =
                IF q = d.receiver /\ k = d.round /\ ~ IsReady(q, k)
                THEN Append(sink[q][k], d.sender) ELSE sink[q][k]
<1> DEFINE s == Append(sink[d.receiver][d.round], d.sender)
<1>1. d.sender \in Party /\ d.receiver \in Party /\ d.round \in 1 .. Rounds
  BY DEF Delivery
<1>2. CASE IsReady(d.receiver, d.round)
  <2>1. sink' = sink
    BY <1>2 DEF Receive
  <2>2. QED
    BY <1>2, <2>1
<1>3. CASE ~ IsReady(d.receiver, d.round)
  <2>1. sink' = [sink EXCEPT ![d.receiver][d.round] = s]
    BY <1>3 DEF Receive
  <2>2. s \in Seq(Party)
    <3>1. sink[d.receiver][d.round] \in Seq(Party)
      BY <1>1
    <3>2. QED
      BY <1>1, <3>1, AppendProperties
  <2> HIDE DEF s
  <2>3. /\ sink' \in [Party -> [1 .. Rounds -> Seq(Party)]]
        /\ \A q \in Party, k \in 1 .. Rounds :
             sink'[q][k] = IF q = d.receiver /\ k = d.round THEN s ELSE sink[q][k]
    BY <1>1, <2>1, <2>2
  <2>4. QED
    BY <1>3, <2>3 DEF s
<1>4. QED
  BY <1>2, <1>3

-----------------------------------------------------------------------------
\* Type correctness

LEMMA InitTypeOK == Init => TypeOK
<1> SUFFICES ASSUME Init
             PROVE  TypeOK
  OBVIOUS
<1>1. /\ at \in [Party -> 0 .. Rounds + 1]
      /\ gone \subseteq Party
      /\ outgoing \in [Party -> SUBSET SUBSET Delivery]
      /\ request \in [Party -> SUBSET Delivery]
      /\ relay \in [Party -> SUBSET Delivery]
      /\ wire \subseteq Delivery
  BY RoundsAssumption DEF Init
<1>2. /\ sink \in [Party -> [1 .. Rounds -> Seq(Party)]]
      /\ taken \in [Party -> [1 .. Rounds -> Seq(Party)]]
  BY DEF Init
<1>3. refused \subseteq Delivery /\ blocked \in BOOLEAN
  BY DEF Init
<1>4. QED
  BY <1>1, <1>2, <1>3 DEF TypeOK

LEMMA TypeStep == TypeOK /\ [Next]_vars => TypeOK'
<1> SUFFICES ASSUME TypeOK, [Next]_vars
             PROVE  TypeOK'
  OBVIOUS
<1> USE RoundsAssumption
<1>1. ASSUME NEW p \in Party, Start(p)
      PROVE  TypeOK'
  BY <1>1, MessagesProperties DEF Start, TypeOK
<1>2. ASSUME NEW p \in Party, Send(p)
      PROVE  TypeOK'
  BY <1>2 DEF Send, TypeOK
<1>3. ASSUME NEW p \in Party, Respond(p)
      PROVE  TypeOK'
  BY <1>3 DEF Respond, TypeOK
<1>4. ASSUME NEW p \in Party, Push(p)
      PROVE  TypeOK'
  <2>1. (outgoing \in [Party -> SUBSET SUBSET Delivery])' /\ (wire \in SUBSET Delivery)'
    BY <1>4 DEF Push, TypeOK
  <2>2. QED
    BY <1>4, <2>1 DEF Push, TypeOK
<1>5. ASSUME NEW p \in Party, Take(p)
      PROVE  TypeOK'
  <2>1. at[p] < Rounds => Messages(p, at[p] + 1) \in SUBSET SUBSET Delivery
    BY <1>5, MessagesProperties DEF Take, TypeOK
  <2>2. (outgoing \in [Party -> SUBSET SUBSET Delivery])'
    BY <1>5, <2>1 DEF Take, TypeOK
  <2>3. at' \in [Party -> 0 .. Rounds + 1]
    BY <1>5 DEF Take, TypeOK
  <2>4. sink' \in [Party -> [1 .. Rounds -> Seq(Party)]]
    BY <1>5 DEF Take, TypeOK
  <2>5. taken' \in [Party -> [1 .. Rounds -> Seq(Party)]]
    BY <1>5 DEF Take, TypeOK
  <2>6. QED
    BY <1>5, <2>2, <2>3, <2>4, <2>5 DEF Take, TypeOK
<1>6. ASSUME NEW p \in Party, Disconnect(p)
      PROVE  TypeOK'
  <2>1. (gone \subseteq Party)' /\ (wire \subseteq Delivery)'
    BY <1>6 DEF Disconnect, TypeOK
  <2>2. (outgoing \in [Party -> SUBSET SUBSET Delivery])'
    BY <1>6 DEF Disconnect, TypeOK
  <2>3. PICK left \in {request[p], {}} : request' = [request EXCEPT ![p] = left]
    BY <1>6 DEF Disconnect
  <2>4. left \in SUBSET Delivery
    BY <2>3 DEF TypeOK
  <2>5. (request \in [Party -> SUBSET Delivery])'
    BY <2>3, <2>4 DEF TypeOK
  <2>6. UNCHANGED <<at, relay, sink, taken, refused, blocked>>
    BY <1>6 DEF Disconnect
  <2>7. QED
    BY <2>1, <2>2, <2>5, <2>6 DEF TypeOK
<1>7. ASSUME NEW d \in Delivery, Receive(d)
      PROVE  TypeOK'
  <2>1. sink' \in [Party -> [1 .. Rounds -> Seq(Party)]]
    BY <1>7, ReceiveSink DEF TypeOK
  <2>2. QED
    BY <1>7, <2>1 DEF Receive, TypeOK
<1>8. CASE Block
  BY <1>8 DEF Block, TypeOK
<1>9. CASE UNCHANGED vars
  BY <1>9 DEF vars, TypeOK
<1>10. QED
  BY <1>1, <1>2, <1>3, <1>4, <1>5, <1>6, <1>7, <1>8, <1>9 DEF Next

\* Every reachable state is well typed: what is on its way is addressed to
\* another party, in particular.
THEOREM TypeCorrect == Spec => []TypeOK
<1>1. QED
  BY InitTypeOK, TypeStep, PTL DEF Spec

-----------------------------------------------------------------------------
\* The inductive invariant: where a delivery can be

\* Part of a message its sender has still to send
Waiting(d) == \E m \in outgoing[d.sender] : d \in m

\* In the sink of its receiver
Arrived(d) == d.sender \in Range(sink[d.receiver][d.round])

\* What a party sends and the server relays for it is its own, and what is not
\* relayed yet is of the party's round.
Origin ==
  \A p \in Party :
    /\ \A m \in outgoing[p] : \A d \in m : d.sender = p /\ d.round = at[p]
    /\ \A d \in request[p] : d.sender = p /\ d.round = at[p]
    /\ \A d \in relay[p] : d.sender = p

\* No delivery is in two messages.
Apart ==
  \A p \in Party : \A m, n \in outgoing[p] : \A d \in m : d \in n => m = n

\* A delivery is in one place: with its sender, in the request, with the server,
\* on the wire or in the sink.
OnePlace ==
  \A d \in Delivery :
    /\ d \in request[d.sender] => ~ Waiting(d)
    /\ d \in relay[d.sender] => ~ Waiting(d) /\ d \notin request[d.sender]
    /\ d \in wire => /\ ~ Waiting(d) /\ d \notin request[d.sender]
                     /\ d \notin relay[d.sender]
    /\ Arrived(d) => /\ ~ Waiting(d) /\ d \notin request[d.sender]
                     /\ d \notin relay[d.sender] /\ d \notin wire

\* What has left its sender is of a round the sender has begun.
Begun ==
  \A d \in Delivery :
    d \in relay[d.sender] \/ d \in wire \/ Arrived(d) => d.round <= at[d.sender]

\* Nothing is left anywhere of a round its receiver has finished.
Over ==
  \A d \in Delivery :
    d.round < at[d.receiver] =>
      /\ ~ Waiting(d) /\ d \notin request[d.sender] /\ d \notin relay[d.sender]
      /\ d \notin wire /\ ~ Arrived(d)

\* A sink holds other parties, each once.
SinkOnce ==
  \A p \in Party, r \in 1 .. Rounds :
    sink[p][r] \in Seq(Others(p)) /\ IsInjective(sink[p][r])

IInv ==
  /\ TypeOK
  /\ Origin
  /\ Apart
  /\ OnePlace
  /\ Begun
  /\ Over
  /\ SinkOnce
  /\ Barrier!Lockstep
  /\ RoundInputs
  /\ NothingRefused

LEMMA InitIInv == Init => IInv
<1> SUFFICES ASSUME Init
             PROVE  IInv
  OBVIOUS
<1>1. TypeOK
  BY InitTypeOK
<1>2. Origin /\ Apart
  BY DEF Init, Origin, Apart
<1>3. ASSUME NEW d \in Delivery
      PROVE  /\ d.sender \in Party /\ d.receiver \in Party /\ d.round \in 1 .. Rounds
             /\ ~ Waiting(d) /\ d \notin request[d.sender]
             /\ d \notin relay[d.sender] /\ d \notin wire /\ ~ Arrived(d)
  <2>1. d.sender \in Party /\ d.receiver \in Party /\ d.round \in 1 .. Rounds
    BY DEF Delivery
  <2>2. sink[d.receiver][d.round] = <<>>
    BY <2>1 DEF Init
  <2>3. ~ Arrived(d)
    BY <2>2 DEF Arrived, Range
  <2>4. QED
    BY <2>1, <2>3 DEF Init, Waiting
<1>4. OnePlace /\ Begun /\ Over
  BY <1>3 DEF OnePlace, Begun, Over
<1>5. SinkOnce
  BY DEF Init, SinkOnce, IsInjective
<1>6. Barrier!Lockstep /\ RoundInputs /\ NothingRefused
  BY DEF Init, Barrier!Lockstep, RoundInputs, NothingRefused
<1>7. QED
  BY <1>1, <1>2, <1>4, <1>5, <1>6 DEF IInv

LEMMA DeliveryType ==
  ASSUME NEW d \in Delivery
  PROVE  /\ d.sender \in Party /\ d.receiver \in Party /\ d.round \in 1 .. Rounds
         /\ d.sender \in Others(d.receiver)
BY DEF Delivery, Others

-----------------------------------------------------------------------------
\* Every step keeps the invariant

LEMMA StartIInv ==
  ASSUME IInv, NEW p \in Party, Start(p), TypeOK'
  PROVE  IInv'
<1> USE RoundsAssumption
<1>1. /\ at[p] = 0 /\ \A q \in Party : at[q] \in Int /\ at'[q] = IF q = p THEN 1 ELSE at[q]
      /\ \A q \in Party : outgoing'[q] = IF q = p THEN Messages(p, 1) ELSE outgoing[q]
      /\ UNCHANGED <<gone, request, relay, wire, sink, taken, refused>>
  BY DEF Start, IInv, TypeOK
<1>2. \A q \in Party : at[q] <= 1
  BY <1>1 DEF IInv, Barrier!Lockstep
<1>3. \A d \in Delivery :
         /\ d \in request[p] => d.round = 0
         /\ Waiting(d)' => IF d.sender = p THEN d.round = 1 ELSE Waiting(d)
         /\ Arrived(d)' <=> Arrived(d)
  <2>1. \A d \in Delivery : Arrived(d)' <=> Arrived(d)
    BY <1>1 DEF Arrived
  <2>2. \A d \in Delivery : d \in request[p] => d.round = 0
    BY <1>1 DEF IInv, Origin
  <2>3. ASSUME NEW d \in Delivery, Waiting(d)'
        PROVE  IF d.sender = p THEN d.round = 1 ELSE Waiting(d)
    <3>1. d.sender \in Party /\ \E m \in outgoing'[d.sender] : d \in m
      BY <2>3, DeliveryType DEF Waiting
    <3>2. QED
      BY <1>1, <3>1, MessagesProperties DEF Waiting
  <2>4. QED
    BY <2>1, <2>2, <2>3
<1>4. \A d \in Delivery : d.round \in Int /\ d.round >= 1 /\ d.sender \in Party /\ d.receiver \in Party
  BY DeliveryType
<1>5. \A d \in Delivery :
         d.sender = p => d \notin request[p] /\ d \notin relay[p] /\ d \notin wire /\ ~ Arrived(d)
  BY <1>1, <1>3, <1>4 DEF IInv, Begun
<1>6. Origin'
  <2>1. ASSUME NEW q \in Party, q # p
        PROVE  /\ \A m \in outgoing'[q] : \A d \in m : d.sender = q /\ d.round = at'[q]
               /\ \A d \in request'[q] : d.sender = q /\ d.round = at'[q]
    BY <1>1, <2>1 DEF IInv, Origin
  <2>2. \A m \in outgoing'[p] : \A d \in m : d.sender = p /\ d.round = at'[p]
    BY <1>1, MessagesProperties
  <2>3. request'[p] = {}
    <3>1. request[p] \subseteq Delivery
      BY DEF IInv, TypeOK
    <3>2. \A d \in request[p] : FALSE
      BY <1>3, <1>4, <3>1
    <3>3. QED
      BY <1>1, <3>2
  <2>4. QED
    BY <1>1, <2>1, <2>2, <2>3 DEF IInv, Origin
<1>7. Apart'
  BY <1>1, MessagesProperties DEF IInv, Apart
<1>8. OnePlace'
  BY <1>1, <1>3, <1>4, <1>5 DEF IInv, OnePlace
<1>9. Begun'
  BY <1>1, <1>3, <1>4 DEF IInv, Begun
<1>10. Over'
  BY <1>1, <1>2, <1>3, <1>4 DEF IInv, Over
<1>11. SinkOnce' /\ RoundInputs' /\ NothingRefused'
  BY <1>1 DEF IInv, SinkOnce, RoundInputs, NothingRefused
<1>12. Barrier!Lockstep'
  <2>1. \A q \in Party : at'[q] \in {0, 1}
    BY <1>1, <1>2 DEF IInv, TypeOK
  <2>2. QED
    BY <2>1 DEF Barrier!Lockstep
<1>13. QED
  BY <1>6, <1>7, <1>8, <1>9, <1>10, <1>11, <1>12 DEF IInv

LEMMA SendIInv ==
  ASSUME IInv, NEW p \in Party, Send(p), TypeOK'
  PROVE  IInv'
<1>1. PICK m \in outgoing[p] :
        /\ request[p] = {}
        /\ \A q \in Party : outgoing'[q] = IF q = p THEN outgoing[p] \ {m} ELSE outgoing[q]
        /\ \A q \in Party : request'[q] = IF q = p THEN m ELSE request[q]
        /\ UNCHANGED <<at, gone, relay, wire, sink, taken, refused>>
  BY DEF Send, IInv, TypeOK
<1>2. \A d \in m : d.sender = p /\ d.round = at[p]
  BY DEF IInv, Origin
<1>3. \A d \in Delivery :
         /\ Waiting(d)' => Waiting(d)
         /\ Waiting(d)' /\ d.sender = p => d \notin m
         /\ d \in request'[d.sender] =>
              \/ d.sender = p /\ d \in m /\ Waiting(d)
              \/ d.sender # p /\ d \in request[d.sender]
         /\ Arrived(d)' <=> Arrived(d)
  <2>1. ASSUME NEW d \in Delivery
        PROVE  /\ Waiting(d)' => Waiting(d)
               /\ Waiting(d)' /\ d.sender = p => d \notin m
               /\ d \in request'[d.sender] =>
                    \/ d.sender = p /\ d \in m /\ Waiting(d)
                    \/ d.sender # p /\ d \in request[d.sender]
    <3>1. d.sender \in Party
      BY DeliveryType
    <3>2. QED
      BY <1>1, <3>1 DEF IInv, Apart, Waiting
  <2>2. \A d \in Delivery : Arrived(d)' <=> Arrived(d)
    BY <1>1 DEF Arrived
  <2>3. QED
    BY <2>1, <2>2
<1>4. Origin'
  BY <1>1, <1>2 DEF IInv, Origin
<1>5. Apart'
  BY <1>1 DEF IInv, Apart
<1>6. OnePlace'
  BY <1>1, <1>3 DEF IInv, OnePlace
<1>7. Begun'
  BY <1>1, <1>3 DEF IInv, Begun
<1>8. Over'
  BY <1>1, <1>3 DEF IInv, Over
<1>9. SinkOnce' /\ RoundInputs' /\ NothingRefused' /\ Barrier!Lockstep'
  BY <1>1 DEF IInv, SinkOnce, RoundInputs, NothingRefused, Barrier!Lockstep
<1>10. QED
  BY <1>4, <1>5, <1>6, <1>7, <1>8, <1>9 DEF IInv

LEMMA RespondIInv ==
  ASSUME IInv, NEW p \in Party, Respond(p), TypeOK'
  PROVE  IInv'
<1>1. /\ relay[p] = {}
      /\ \A q \in Party : relay'[q] = IF q = p THEN request[p] ELSE relay[q]
      /\ \A q \in Party : request'[q] = IF q = p THEN {} ELSE request[q]
      /\ UNCHANGED <<at, gone, outgoing, wire, sink, taken, refused>>
  BY DEF Respond, IInv, TypeOK
<1>2. \A d \in Delivery :
         /\ Waiting(d)' <=> Waiting(d)
         /\ Arrived(d)' <=> Arrived(d)
         /\ d \in request'[d.sender] => d \in request[d.sender] /\ d.sender # p
         /\ d \in relay'[d.sender] =>
              \/ d.sender = p /\ d \in request[d.sender]
              \/ d.sender # p /\ d \in relay[d.sender]
  <2>1. \A d \in Delivery : (Waiting(d)' <=> Waiting(d)) /\ (Arrived(d)' <=> Arrived(d))
    BY <1>1 DEF Waiting, Arrived
  <2>2. QED
    BY <1>1, <2>1, DeliveryType
<1>3. \A d \in Delivery : d \in request[d.sender] => d.round <= at[d.sender]
  BY DeliveryType DEF IInv, Origin, TypeOK
<1>4. Origin'
  BY <1>1 DEF IInv, Origin
<1>5. Apart'
  BY <1>1 DEF IInv, Apart
<1>6. OnePlace'
  BY <1>1, <1>2 DEF IInv, OnePlace
<1>7. Begun'
  BY <1>1, <1>2, <1>3 DEF IInv, Begun
<1>8. Over'
  BY <1>1, <1>2 DEF IInv, Over
<1>9. SinkOnce' /\ RoundInputs' /\ NothingRefused' /\ Barrier!Lockstep'
  BY <1>1 DEF IInv, SinkOnce, RoundInputs, NothingRefused, Barrier!Lockstep
<1>10. QED
  BY <1>4, <1>5, <1>6, <1>7, <1>8, <1>9 DEF IInv

LEMMA PushIInv ==
  ASSUME IInv, NEW p \in Party, Push(p), TypeOK'
  PROVE  IInv'
<1>1. PICK x \in relay[p] :
        /\ \A q \in Party : relay'[q] = IF q = p THEN relay[p] \ {x} ELSE relay[q]
        /\ wire' \subseteq wire \cup {x}
        /\ UNCHANGED <<at, gone, outgoing, request, sink, taken, refused>>
  BY DEF Push, IInv, TypeOK
<1>2. x \in Delivery /\ x.sender = p
  BY DEF IInv, TypeOK, Origin
<1>3. \A d \in Delivery :
         /\ Waiting(d)' <=> Waiting(d)
         /\ Arrived(d)' <=> Arrived(d)
         /\ d \in relay'[d.sender] => d \in relay[d.sender] /\ d # x
         /\ d \in wire' => d \in wire \/ (d = x /\ d \in relay[d.sender])
  <2>1. \A d \in Delivery : (Waiting(d)' <=> Waiting(d)) /\ (Arrived(d)' <=> Arrived(d))
    BY <1>1 DEF Waiting, Arrived
  <2>2. QED
    BY <1>1, <1>2, <2>1, DeliveryType
<1>4. Origin'
  BY <1>1 DEF IInv, Origin
<1>5. Apart'
  BY <1>1 DEF IInv, Apart
<1>6. OnePlace'
  BY <1>1, <1>3 DEF IInv, OnePlace
<1>7. Begun'
  BY <1>1, <1>3 DEF IInv, Begun
<1>8. Over'
  BY <1>1, <1>3 DEF IInv, Over
<1>9. SinkOnce' /\ RoundInputs' /\ NothingRefused' /\ Barrier!Lockstep'
  BY <1>1 DEF IInv, SinkOnce, RoundInputs, NothingRefused, Barrier!Lockstep
<1>10. QED
  BY <1>4, <1>5, <1>6, <1>7, <1>8, <1>9 DEF IInv

LEMMA DisconnectIInv ==
  ASSUME IInv, NEW p \in Party, Disconnect(p), TypeOK'
  PROVE  IInv'
<1>1. /\ \A q \in Party : outgoing'[q] = IF q = p THEN {} ELSE outgoing[q]
      /\ \A q \in Party : request'[q] \in {request[q], {}}
      /\ wire' \subseteq wire
      /\ UNCHANGED <<at, relay, sink, taken, refused>>
  BY DEF Disconnect, IInv, TypeOK
<1>2. \A d \in Delivery :
         /\ Waiting(d)' => Waiting(d)
         /\ d \in request'[d.sender] => d \in request[d.sender]
         /\ Arrived(d)' <=> Arrived(d)
  <2>1. \A d \in Delivery : Arrived(d)' <=> Arrived(d)
    BY <1>1 DEF Arrived
  <2>2. QED
    BY <1>1, <2>1, DeliveryType DEF Waiting
<1>3. Origin' /\ Apart'
  BY <1>1 DEF IInv, Origin, Apart
<1>4. OnePlace'
  BY <1>1, <1>2 DEF IInv, OnePlace
<1>5. Begun'
  BY <1>1, <1>2 DEF IInv, Begun
<1>6. Over'
  BY <1>1, <1>2 DEF IInv, Over
<1>7. SinkOnce' /\ RoundInputs' /\ NothingRefused' /\ Barrier!Lockstep'
  BY <1>1 DEF IInv, SinkOnce, RoundInputs, NothingRefused, Barrier!Lockstep
<1>8. QED
  BY <1>3, <1>4, <1>5, <1>6, <1>7 DEF IInv

\* Only the delivery that is received arrives.
LEMMA ReceiveArrives ==
  ASSUME TypeOK, SinkOnce, NEW x \in Delivery, Receive(x),
         NEW d \in Delivery, Arrived(d)', ~ Arrived(d)
  PROVE  d = x
<1>1. /\ d.sender \in Party /\ d.receiver \in Party /\ d.round \in 1 .. Rounds
      /\ x.sender \in Party /\ x.receiver \in Party /\ x.round \in 1 .. Rounds
  BY DeliveryType
<1>2. \A q \in Party, k \in 1 .. Rounds :
        sink'[q][k] = IF q = x.receiver /\ k = x.round /\ ~ IsReady(q, k)
                      THEN Append(sink[q][k], x.sender) ELSE sink[q][k]
  BY ReceiveSink DEF TypeOK
<1>3. d.receiver = x.receiver /\ d.round = x.round
  BY <1>1, <1>2 DEF Arrived
<1>4. d.sender \in Range(Append(sink[d.receiver][d.round], x.sender))
  BY <1>1, <1>2 DEF Arrived
<1>5. sink[d.receiver][d.round] \in Seq(Party)
  BY <1>1 DEF TypeOK
<1>6. d.sender = x.sender
  BY <1>1, <1>4, <1>5 DEF Arrived, Range
<1>7. QED
  BY <1>3, <1>6 DEF Delivery

LEMMA ReceiveIInv ==
  ASSUME IInv, NEW x \in Delivery, Receive(x), TypeOK'
  PROVE  IInv'
<1>1. /\ x.sender \in Party /\ x.receiver \in Party /\ x.round \in 1 .. Rounds
      /\ x.sender \in Others(x.receiver)
  BY DeliveryType
<1>2. x \in wire /\ ~ Arrived(x) /\ x.round >= at[x.receiver] /\ x.round <= at[x.sender]
  <2>1. x \in wire
    BY DEF Receive
  <2>2. at[x.receiver] \in Int
    BY <1>1 DEF IInv, TypeOK
  <2>3. QED
    BY <1>1, <2>1, <2>2 DEF IInv, OnePlace, Over, Begun
<1>3. ~ IsReady(x.receiver, x.round)
  <2>1. sink[x.receiver][x.round] \in Seq(Others(x.receiver)) /\ IsInjective(sink[x.receiver][x.round])
    BY <1>1 DEF IInv, SinkOnce
  <2>2. x.sender \notin Range(sink[x.receiver][x.round])
    BY <1>2 DEF Arrived
  <2>3. QED
    BY <1>1, <2>1, <2>2, FullSink DEF IsReady
<1>4. /\ wire' = wire \ {x}
      /\ \A q \in Party, k \in 1 .. Rounds :
           sink'[q][k] = IF q = x.receiver /\ k = x.round
                         THEN Append(sink[q][k], x.sender) ELSE sink[q][k]
      /\ UNCHANGED <<at, gone, outgoing, request, relay, taken, refused>>
  <2>1. \A q \in Party, k \in 1 .. Rounds :
          sink'[q][k] = IF q = x.receiver /\ k = x.round /\ ~ IsReady(q, k)
                        THEN Append(sink[q][k], x.sender) ELSE sink[q][k]
    BY ReceiveSink DEF IInv, TypeOK
  <2>2. refused' = refused
    BY <1>3 DEF Receive
  <2>3. QED
    BY <1>3, <2>1, <2>2 DEF Receive
<1>5. \A q \in Party, k \in 1 .. Rounds : sink[q][k] \in Seq(Others(q)) /\ IsInjective(sink[q][k])
  BY DEF IInv, SinkOnce
<1>6. \A d \in Delivery : Arrived(d)' => Arrived(d) \/ d = x
  BY ReceiveArrives DEF IInv
<1>7. \A d \in Delivery : Waiting(d)' <=> Waiting(d)
  BY <1>4 DEF Waiting
<1>8. Origin' /\ Apart'
  BY <1>4 DEF IInv, Origin, Apart
<1>9. OnePlace'
  BY <1>2, <1>4, <1>6, <1>7 DEF IInv, OnePlace
<1>10. Begun'
  BY <1>2, <1>4, <1>6 DEF IInv, Begun
<1>11. Over'
  <2>1. at[x.receiver] \in Int /\ x.round \in Int
    BY <1>1 DEF IInv, TypeOK
  <2>2. QED
    BY <1>2, <1>4, <1>6, <1>7, <2>1 DEF IInv, Over
<1>12. SinkOnce'
  <2>1. ASSUME NEW q \in Party, NEW k \in 1 .. Rounds
        PROVE  sink'[q][k] \in Seq(Others(q)) /\ IsInjective(sink'[q][k])
    <3>1. CASE q = x.receiver /\ k = x.round
      <4>1. x.sender \in Others(q) /\ x.sender \notin Range(sink[q][k])
        BY <1>1, <1>2, <3>1 DEF Arrived
      <4>2. sink'[q][k] = Append(sink[q][k], x.sender)
        BY <1>4, <3>1
      <4> DEFINE s == sink[q][k]
      <4>3. s \in Seq(Others(q)) /\ IsInjective(s)
        BY <1>5
      <4> HIDE DEF s
      <4>4. Append(s, x.sender) \in Seq(Others(q))
        BY <4>1, <4>3, AppendProperties
      <4>5. IsInjective(Append(s, x.sender))
        BY <4>1, <4>3 DEF s, IsInjective, Range
      <4>6. QED
        BY <4>2, <4>4, <4>5 DEF s
    <3>2. CASE ~ (q = x.receiver /\ k = x.round)
      BY <1>4, <1>5, <3>2
    <3>3. QED
      BY <3>1, <3>2
  <2>2. QED
    BY <2>1 DEF SinkOnce
<1>13. RoundInputs' /\ NothingRefused' /\ Barrier!Lockstep'
  BY <1>4 DEF IInv, RoundInputs, NothingRefused, Barrier!Lockstep
<1>14. QED
  BY <1>8, <1>9, <1>10, <1>11, <1>12, <1>13 DEF IInv

\* What a party knows when it leaves round r: every other party has sent it its
\* message of that round, so none of them is behind and none of those messages
\* is left anywhere.
LEMMA TakeKnows ==
  ASSUME IInv, NEW p \in Party, Take(p)
  PROVE  /\ at[p] \in 1 .. Rounds
         /\ Len(sink[p][at[p]]) = Expected
         /\ Range(sink[p][at[p]]) = Others(p)
         /\ \A d \in Delivery : d.receiver = p /\ d.round = at[p] => Arrived(d)
         /\ \A q \in Party : at[q] >= at[p]
<1>1. at[p] \in 1 .. Rounds /\ Len(sink[p][at[p]]) = Expected
  BY DEF Take, IsReady
<1>2. Range(sink[p][at[p]]) = Others(p)
  BY <1>1, FullSink DEF IInv, SinkOnce
<1>3. \A d \in Delivery : d.receiver = p /\ d.round = at[p] => Arrived(d)
  BY <1>2, DeliveryType DEF Arrived
<1>4. ASSUME NEW q \in Party
      PROVE  at[q] >= at[p]
  <2>1. CASE q = p
    BY <1>1, <2>1
  <2>2. CASE q # p
    <3> DEFINE d == [round |-> at[p], sender |-> q, receiver |-> p]
    <3>1. d \in Delivery /\ d.receiver = p /\ d.round = at[p] /\ d.sender = q
      BY <1>1, <2>2 DEF Delivery
    <3> HIDE DEF d
    <3>2. Arrived(d)
      BY <1>3, <3>1
    <3>3. at[p] <= at[q]
      BY <3>1, <3>2 DEF IInv, Begun
    <3>4. at[q] \in Int
      BY DEF IInv, TypeOK
    <3>5. QED
      BY <1>1, <3>3, <3>4
  <2>3. QED
    BY <2>1, <2>2
<1>5. QED
  BY <1>1, <1>2, <1>3, <1>4

LEMMA TakeIInv ==
  ASSUME IInv, NEW p \in Party, Take(p), TypeOK'
  PROVE  IInv'
<1> USE RoundsAssumption
<1>1. /\ outgoing[p] = {} /\ request[p] = {}
      /\ \A q \in Party : at[q] \in Int /\ at'[q] = IF q = p THEN at[p] + 1 ELSE at[q]
      /\ \A q \in Party : q # p => outgoing'[q] = outgoing[q]
      /\ outgoing'[p] = IF at[p] < Rounds THEN Messages(p, at[p] + 1) ELSE {}
      /\ UNCHANGED <<gone, request, relay, wire, refused>>
  BY DEF Take, IInv, TypeOK
<1>2. \A q \in Party, k \in 1 .. Rounds :
         /\ sink'[q][k] = IF q = p /\ k = at[p] THEN <<>> ELSE sink[q][k]
         /\ taken'[q][k] = IF q = p /\ k = at[p] THEN sink[p][k] ELSE taken[q][k]
  <2>1. sink' = [sink EXCEPT ![p][at[p]] = <<>>]
        /\ taken' = [taken EXCEPT ![p][at[p]] = sink[p][at[p]]]
        /\ sink \in [Party -> [1 .. Rounds -> Seq(Party)]]
        /\ taken \in [Party -> [1 .. Rounds -> Seq(Party)]]
    BY DEF Take, IInv, TypeOK
  <2>2. QED
    BY <2>1
<1>3. /\ at[p] \in 1 .. Rounds /\ Len(sink[p][at[p]]) = Expected
      /\ Range(sink[p][at[p]]) = Others(p)
      /\ \A d \in Delivery : d.receiver = p /\ d.round = at[p] => Arrived(d)
      /\ \A q \in Party : at[q] >= at[p]
  BY TakeKnows
<1>4. \A m \in outgoing'[p] : \A d \in m : d.sender = p /\ d.round = at[p] + 1
  BY <1>1, <1>3, MessagesProperties
<1>5. \A d \in Delivery :
         /\ d.sender \in Party /\ d.receiver \in Party /\ d.round \in 1 .. Rounds
         /\ Waiting(d)' => IF d.sender = p THEN d.round = at[p] + 1 ELSE Waiting(d)
         /\ Arrived(d)' => Arrived(d) /\ ~ (d.receiver = p /\ d.round = at[p])
  <2>1. ASSUME NEW d \in Delivery
        PROVE  d.sender \in Party /\ d.receiver \in Party /\ d.round \in 1 .. Rounds
    BY DeliveryType
  <2>2. ASSUME NEW d \in Delivery, Waiting(d)'
        PROVE  IF d.sender = p THEN d.round = at[p] + 1 ELSE Waiting(d)
    BY <1>1, <1>4, <2>1, <2>2 DEF Waiting
  <2>3. ASSUME NEW d \in Delivery, Arrived(d)'
        PROVE  Arrived(d) /\ ~ (d.receiver = p /\ d.round = at[p])
    <3>1. d.receiver = p /\ d.round = at[p] => sink'[d.receiver][d.round] = <<>>
      BY <1>2, <2>1
    <3>2. Range(<<>>) = {}
      BY DEF Range
    <3>3. ~ (d.receiver = p /\ d.round = at[p])
      BY <2>3, <3>1, <3>2 DEF Arrived
    <3>4. QED
      BY <1>2, <2>1, <2>3, <3>3 DEF Arrived
  <2>4. QED
    BY <2>1, <2>2, <2>3
<1>6. \A d \in Delivery :
         d.sender = p => /\ d \notin request[p]
                         /\ d \in relay[p] \/ d \in wire \/ Arrived(d) => d.round <= at[p]
  BY <1>1 DEF IInv, Begun
<1>7. Origin'
  <2>1. ASSUME NEW q \in Party, q # p
        PROVE  /\ \A m \in outgoing'[q] : \A d \in m : d.sender = q /\ d.round = at'[q]
               /\ \A d \in request'[q] : d.sender = q /\ d.round = at'[q]
    BY <1>1, <2>1 DEF IInv, Origin
  <2>2. QED
    BY <1>1, <1>4, <2>1 DEF IInv, Origin
<1>8. Apart'
  <2>1. \A m, n \in outgoing'[p] : \A d \in m : d \in n => m = n
    BY <1>1, <1>3, MessagesProperties
  <2>2. QED
    BY <1>1, <2>1 DEF IInv, Apart
<1>9. OnePlace'
  BY <1>1, <1>3, <1>5, <1>6 DEF IInv, OnePlace
<1>10. Begun'
  BY <1>1, <1>5 DEF IInv, Begun
<1>11. Barrier!Lockstep'
  BY <1>1, <1>3 DEF IInv, Barrier!Lockstep
<1>12. Over'
  <2>1. ASSUME NEW d \in Delivery, d.round < at'[d.receiver]
        PROVE  /\ ~ Waiting(d)' /\ d \notin request'[d.sender] /\ d \notin relay'[d.sender]
               /\ d \notin wire' /\ ~ Arrived(d)'
    <3>1. ~ (d.sender = p /\ d.round = at[p] + 1)
      <4>1. at[d.receiver] <= at[p] + 1
        BY <1>5 DEF IInv, Barrier!Lockstep
      <4>2. QED
        BY <1>1, <1>3, <1>5, <2>1, <4>1
    <3>2. CASE d.receiver = p /\ d.round = at[p]
      BY <1>1, <1>3, <1>5, <3>1, <3>2 DEF IInv, OnePlace
    <3>3. CASE ~ (d.receiver = p /\ d.round = at[p])
      <4>1. d.round < at[d.receiver]
        BY <1>1, <1>5, <2>1, <3>3
      <4>2. QED
        BY <1>1, <1>5, <3>1, <4>1 DEF IInv, Over
    <3>4. QED
      BY <3>2, <3>3
  <2>2. QED
    BY <2>1 DEF Over
<1>13. SinkOnce'
  <2>1. \A q \in Party : <<>> \in Seq(Others(q))
    OBVIOUS
  <2>2. IsInjective(<<>>)
    BY DEF IsInjective
  <2>3. QED
    <3>1. \A q \in Party, k \in 1 .. Rounds :
             sink[q][k] \in Seq(Others(q)) /\ IsInjective(sink[q][k])
      BY DEF IInv, SinkOnce
    <3>2. \A q \in Party, k \in 1 .. Rounds :
             sink'[q][k] \in Seq(Others(q)) /\ IsInjective(sink'[q][k])
      <4>1. ASSUME NEW q \in Party, NEW k \in 1 .. Rounds
            PROVE  sink'[q][k] \in {sink[q][k], <<>>}
        BY <1>2
      <4>2. QED BY <2>1, <2>2, <3>1, <4>1
    <3>3. QED
      BY <3>2 DEF SinkOnce
<1>14. RoundInputs'
  BY <1>1, <1>2, <1>3 DEF IInv, RoundInputs
<1>15. NothingRefused'
  BY <1>1 DEF IInv, NothingRefused
<1>16. QED
  BY <1>7, <1>8, <1>9, <1>10, <1>11, <1>12, <1>13, <1>14, <1>15 DEF IInv

\* A lock that is blocked, or a step that changes nothing, moves no delivery.
LEMMA StutterIInv ==
  ASSUME IInv, UNCHANGED <<at, gone, outgoing, request, relay, wire, sink, taken, refused>>,
         TypeOK'
  PROVE  IInv'
BY DEF IInv, TypeOK, Origin, Apart, OnePlace, Begun, Over, SinkOnce, RoundInputs,
       NothingRefused, Barrier!Lockstep, Waiting, Arrived

LEMMA NextIInv == IInv /\ [Next]_vars => IInv'
<1> SUFFICES ASSUME IInv, [Next]_vars
             PROVE  IInv'
  OBVIOUS
<1>1. TypeOK'
  BY TypeStep DEF IInv
<1>2. CASE Block \/ UNCHANGED vars
  BY <1>1, <1>2, StutterIInv DEF Block, vars
<1>3. QED
  BY <1>1, <1>2, StartIInv, SendIInv, RespondIInv, PushIInv, TakeIInv, DisconnectIInv,
     ReceiveIInv DEF Next

\* The inductive invariant: wherever the parties are, a delivery is in one place
\* at most, never ahead of its sender and gone once its receiver is past it.
THEOREM IInvHolds == Spec => []IInv
BY InitIInv, NextIInv, PTL DEF Spec

-----------------------------------------------------------------------------
\* What follows

\* The state machine of a party gets one message of every other party for every
\* round that is over, although WebSocketSink only counts them.
THEOREM InputsHold == Spec => []RoundInputs
<1>1. IInv => RoundInputs
  BY DEF IInv
<1>2. QED
  BY <1>1, IInvHolds, PTL

\* receiveMessage never gets a message too many.
THEOREM NothingRefusedHolds == Spec => []NothingRefused
<1>1. IInv => NothingRefused
  BY DEF IInv
<1>2. QED
  BY <1>1, IInvHolds, PTL

\* A sink holds messages of its party's round and the next only.
THEOREM SinkAheadHolds == Spec => []SinkAhead
<1>1. ASSUME IInv, NEW p \in Party, NEW r \in 1 .. Rounds, sink[p][r] # <<>>
      PROVE  r \in {at[p], at[p] + 1}
  <2>1. sink[p][r] \in Seq(Others(p))
    BY <1>1 DEF IInv, SinkOnce
  <2>2. PICK q \in Others(p) : q \in Range(sink[p][r])
    BY <1>1, <2>1 DEF Range
  <2> DEFINE d == [round |-> r, sender |-> q, receiver |-> p]
  <2>3. d \in Delivery /\ d.receiver = p /\ d.round = r /\ d.sender = q
    BY DEF Delivery, Others
  <2>4. Arrived(d)
    BY <2>2, <2>3 DEF Arrived
  <2> HIDE DEF d
  <2>5. at[p] \in Int /\ at[q] \in Int /\ q \in Party
    BY <1>1 DEF IInv, TypeOK, Others
  <2>6. ~ (r < at[p])
    BY <1>1, <2>3, <2>4 DEF IInv, Over
  <2>7. r <= at[q]
    BY <1>1, <2>3, <2>4 DEF IInv, Begun
  <2>8. at[q] <= at[p] + 1
    BY <1>1, <2>5 DEF IInv, Barrier!Lockstep
  <2>9. QED
    BY <2>5, <2>6, <2>7, <2>8
<1>2. IInv => SinkAhead
  BY <1>1 DEF SinkAhead
<1>3. QED
  BY <1>2, IInvHolds, PTL

\* No party of a session is more than one round ahead of another, although none
\* looks at another's round.
THEOREM LockstepHolds == Spec => []Lockstep
<1>1. IInv => Lockstep
  BY DEF IInv, Lockstep
<1>2. QED
  BY <1>1, IInvHolds, PTL

\* The drivers, their sinks and the server's relay implement the barrier: a
\* party leaves a round only when all the others have entered it.
THEOREM BarrierImplemented == Spec => BarrierSpec
<1>1. Init => Barrier!Init
  BY DEF Init, Barrier!Init
<1>2. IInv /\ [Next]_vars => [Barrier!Next]_at
  <2> SUFFICES ASSUME IInv, [Next]_vars, at' # at
               PROVE  Barrier!Next
    OBVIOUS
  <2>1. at \in [Party -> 0 .. Rounds + 1]
    BY DEF IInv, TypeOK
  <2>2. PICK p \in Party : Start(p) \/ Take(p)
    BY DEF Next, vars, Send, Respond, Push, Disconnect, Receive, Block
  <2>3. CASE Start(p)
    <3>1. /\ at[p] = 0 /\ at' = [at EXCEPT ![p] = 1]
      BY <2>3 DEF Start
    <3>2. Barrier!Advance(p)
      BY RoundsAssumption, <2>1, <3>1 DEF Barrier!Advance
    <3>3. QED
      BY <3>2 DEF Barrier!Next
  <2>4. CASE Take(p)
    <3>1. at[p] \in 1 .. Rounds /\ \A q \in Party : at[q] >= at[p]
      BY <2>4, TakeKnows
    <3>2. at' = [at EXCEPT ![p] = @ + 1]
      BY <2>4 DEF Take
    <3>3. Barrier!Advance(p)
      BY RoundsAssumption, <2>1, <3>1, <3>2 DEF Barrier!Advance
    <3>4. QED
      BY <3>3 DEF Barrier!Next
  <2>5. QED
    BY <2>2, <2>3, <2>4
<1>3. QED
  BY <1>1, <1>2, IInvHolds, PTL DEF Spec, BarrierSpec, Barrier!Spec

\* The promise itself: no party of the abstract barrier is more than one round
\* ahead of another.
THEOREM BarrierLockstep == Barrier!Spec => []Barrier!Lockstep
<1> USE RoundsAssumption
<1>1. Barrier!Init => Barrier!TypeOK /\ Barrier!Lockstep
  BY DEF Barrier!Init, Barrier!TypeOK, Barrier!Lockstep
<1>2. Barrier!TypeOK /\ Barrier!Lockstep /\ [Barrier!Next]_at => Barrier!TypeOK' /\ Barrier!Lockstep'
  <2> SUFFICES ASSUME Barrier!TypeOK, Barrier!Lockstep, [Barrier!Next]_at
               PROVE  Barrier!TypeOK' /\ Barrier!Lockstep'
    OBVIOUS
  <2>1. ASSUME NEW p \in Party, Barrier!Advance(p)
        PROVE  Barrier!TypeOK' /\ Barrier!Lockstep'
    <3>1. \A q \in Party : at[q] \in Int /\ at'[q] = IF q = p THEN at[q] + 1 ELSE at[q]
      BY <2>1 DEF Barrier!Advance, Barrier!TypeOK
    <3>2. Barrier!TypeOK'
      BY <2>1 DEF Barrier!Advance, Barrier!TypeOK
    <3>3. Barrier!Lockstep'
      BY <2>1, <3>1 DEF Barrier!Advance, Barrier!Lockstep
    <3>4. QED BY <3>2, <3>3
  <2>2. CASE UNCHANGED at
    BY <2>2 DEF Barrier!TypeOK, Barrier!Lockstep
  <2>3. QED BY <2>1, <2>2 DEF Barrier!Next
<1>3. QED BY <1>1, <1>2, PTL DEF Barrier!Spec

=============================================================================
