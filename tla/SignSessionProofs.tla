------------------------- MODULE SignSessionProofs --------------------------
(***************************************************************************)
(* Theorems about SignSession, for every finite set of parties, every set  *)
(* of party numbers and every number of rounds.                            *)
(*                                                                         *)
(* The argument: who has taken round 1 knows the numbers of all, so all of *)
(* them mean the same list by a position.  Nobody sends a message of a     *)
(* later round before it is registered, so who has taken round 2 knows     *)
(* that everybody is; and only then is a position used.  Every step is     *)
(* therefore a step of RoundSession, whose invariant carries over.         *)
(***************************************************************************)
EXTENDS SignSession, RoundSessionProofs

-----------------------------------------------------------------------------
\* The inductive invariant: what a position stands for

\* The position of q in the list of somebody who knows the numbers of all
Rank(q) == Cardinality({x \in Party : number[x] <= number[q]})

\* Out of its sender's hands
Sent(d) == \/ d \in request[d.sender] \/ d \in relay[d.sender]
           \/ d \in wire \/ Arrived(d)

\* Who has registered did so under the position all the others use for it.
Placed ==
  \A p \in registered : at[p] >= 2 /\ participants[Rank(p)] = number[p]

\* A party that still has to register has the message of round 2 to send.
Withheld ==
  \A p \in Party \ (gone \cup registered) :
    at[p] = 2 /\ at[p] <= Rounds => outgoing[p] # {}

\* What was sent of the rounds after getParticipants is of a registered party.
SentRegistered == \A d \in Delivery : d.round >= 2 /\ Sent(d) => d.sender \in registered

\* Who has taken round 2 may rely on the registration of all.
AllRegistered == \A p \in Party : at[p] >= 3 => registered = Party

\* A message of a peer round is one delivery.
SinglePeer ==
  \A p \in Party :
    at[p] \in PeerRounds => /\ \A m \in outgoing[p] : \E d \in Delivery : m = {d}
                            /\ request[p] # {} => \E d \in Delivery : request[p] = {d}

Finished == \A p \in ended : at[p] = Rounds + 1

SignIInv ==
  /\ IInv
  /\ SignTypeOK
  /\ IsInjective(number)
  /\ Placed
  /\ Withheld
  /\ SentRegistered
  /\ AllRegistered
  /\ SinglePeer
  /\ Finished
  /\ failed = {}

-----------------------------------------------------------------------------
\* Positions

\* Parties with different numbers have different positions, in the range of the
\* server's map.
LEMMA RankProperties ==
  ASSUME number \in [Party -> Numbers], IsInjective(number),
         NEW q \in Party
  PROVE  /\ Rank(q) \in Position
         /\ \A r \in Party : Rank(r) = Rank(q) => r = q
<1> DEFINE Below(x) == {y \in Party : number[y] <= number[x]}
<1>1. IsFiniteSet(Party) /\ \A x \in Party : number[x] \in Int
  <2>1. IsFiniteSet(Party)
    BY PartyAssumption
  <2>2. \A x \in Numbers : x \in Nat \ {0}
    BY NumbersAssumption
  <2>3. QED
    BY <2>1, <2>2
<1>2. ASSUME NEW x \in Party
      PROVE  /\ IsFiniteSet(Below(x)) /\ x \in Below(x)
             /\ Cardinality(Below(x)) \in Nat
             /\ Cardinality(Below(x)) <= Cardinality(Party)
  <2>1. Below(x) \in SUBSET Party /\ x \in Below(x)
    BY <1>1
  <2> HIDE DEF Below
  <2>2. QED
    BY <1>1, <2>1, FS_Subset, FS_CardinalityType
<1>3. Cardinality(Below(q)) \in Position
  <2>1. Cardinality(Below(q)) # 0
    BY <1>2, FS_EmptySet
  <2>2. Cardinality(Party) \in Nat
    BY <1>1, FS_CardinalityType
  <2> HIDE DEF Below
  <2>3. QED
    BY <1>2, <2>1, <2>2 DEF Position
<1>4. ASSUME NEW x \in Party, NEW y \in Party, number[x] < number[y]
      PROVE  Cardinality(Below(x)) # Cardinality(Below(y))
  <2>1. Below(x) \in SUBSET Below(y)
    BY <1>1, <1>4
  <2>2. y \in Below(y) /\ y \notin Below(x)
    BY <1>1, <1>4
  <2> HIDE DEF Below
  <2>3. QED
    BY <1>2, <2>1, <2>2, FS_Subset
<1>5. ASSUME NEW r \in Party, Cardinality(Below(r)) = Cardinality(Below(q))
      PROVE  r = q
  <2>1. ~ (number[r] < number[q]) /\ ~ (number[q] < number[r])
    BY <1>4, <1>5
  <2>2. number[r] = number[q]
    BY <1>1, <2>1
  <2>3. QED
    BY <2>2 DEF IsInjective
<1>6. QED
  BY <1>3, <1>5 DEF Rank

\* Whoever has taken round 1 has the position of everybody right.
LEMMA PositionIsRank ==
  ASSUME IInv, NEW p \in Party, at[p] >= 2, NEW q \in Party
  PROVE  PositionOf(p, q) = Rank(q)
<1>1. 1 \in 1 .. Rounds /\ 1 < at[p]
  BY RoundsAssumption DEF IInv, TypeOK
<1>2. Range(taken[p][1]) = Others(p)
  BY <1>1 DEF IInv, RoundInputs
<1>3. Range(taken[p][1]) \cup {p} = Party
  BY <1>2 DEF Others
<1>4. QED
  BY <1>3 DEF PositionOf, Rank

\* After round 2 a position resolves to the party it is meant for.
LEMMA PeerResolves ==
  ASSUME SignIInv, NEW p \in Party, at[p] >= 3, NEW q \in Party
  PROVE  Resolve(PositionOf(p, q)) = {q}
<1>1. at[p] \in Int /\ number \in [Party -> Numbers] /\ IsInjective(number)
  BY DEF SignIInv, SignTypeOK, TypeOK
<1>2. PositionOf(p, q) = Rank(q)
  BY <1>1, PositionIsRank DEF SignIInv
<1>3. q \in registered
  BY DEF SignIInv, AllRegistered
<1>4. participants[Rank(q)] = number[q]
  BY <1>3 DEF SignIInv, Placed
<1>5. \A r \in Party : number[r] = number[q] => r = q
  BY <1>1 DEF IsInjective
<1>6. QED
  BY <1>2, <1>4, <1>5 DEF Resolve

-----------------------------------------------------------------------------
\* Every step is a step of RoundSession

\* Session.message sends a peer message to the receiver it was meant for.
LEMMA RespondDirect ==
  ASSUME SignIInv, NEW p \in Party, SignRespond(p)
  PROVE  Respond(p) /\ failed' = failed
<1> DEFINE d == CHOOSE x \in request[p] : TRUE
           to == Resolve(PositionOf(p, d.receiver))
<1>1. request[p] # {} /\ d \in request[p]
  BY DEF SignRespond
<1>2. d \in Delivery /\ d.round = at[p] /\ d.receiver \in Party
  BY <1>1, DeliveryType DEF SignIInv, IInv, TypeOK, Origin
<1>3. /\ relay' = [relay EXCEPT ![p] =
             IF d.round \in PeerRounds THEN {[d EXCEPT !.receiver = q] : q \in to} ELSE request[p]]
      /\ failed' = IF d.round \in PeerRounds /\ to = {} THEN failed \cup {p} ELSE failed
  BY DEF SignRespond
<1>4. CASE d.round \notin PeerRounds
  BY <1>3, <1>4 DEF SignRespond, Respond
<1>5. CASE d.round \in PeerRounds
  <2>1. at[p] \in PeerRounds /\ at[p] >= 3
    <3>1. at[p] \in PeerRounds
      BY <1>2, <1>5
    <3>2. at[p] \in 3 .. Rounds
      BY <3>1, PeersLate
    <3>3. QED
      BY <3>1, <3>2
  <2>2. to = {d.receiver}
    BY <1>2, <2>1, PeerResolves
  <2>3. request[p] = {d}
    BY <1>1, <2>1 DEF SignIInv, SinglePeer
  <2> HIDE DEF d, to
  <2>4. [d EXCEPT !.receiver = d.receiver] = d
    BY <1>2 DEF Delivery
  <2>5. {[d EXCEPT !.receiver = q] : q \in to} = request[p]
    BY <2>2, <2>3, <2>4
  <2>6. relay' = [relay EXCEPT ![p] = request[p]] /\ failed' = failed
    BY <1>3, <1>5, <2>2, <2>5
  <2>7. QED
    BY <2>6 DEF SignRespond, Respond
<1>6. QED
  BY <1>4, <1>5

LEMMA StepIsRound ==
  ASSUME SignIInv, [SignNext]_<<vars, signVars>>
  PROVE  [Next]_vars
<1>1. ASSUME NEW p \in Party, Register(p) \/ Signed(p)
      PROVE  UNCHANGED vars
  BY <1>1 DEF Register, Signed
<1>2. ASSUME NEW p \in Party, SignSend(p)
      PROVE  Next
  BY <1>2 DEF SignSend, Next
<1>3. ASSUME NEW p \in Party, SignRespond(p)
      PROVE  Next
  BY <1>3, RespondDirect DEF Next
<1>4. ASSUME NEW p \in Party, SignTake(p)
      PROVE  Next
  BY <1>4 DEF SignTake, Next
<1>5. QED
  BY <1>1, <1>2, <1>3, <1>4 DEF SignNext, Next

-----------------------------------------------------------------------------
\* Every step keeps the invariant

\* A registration is kept at its position, whichever others there are.
LEMMA PlacedStays ==
  ASSUME Placed, UNCHANGED <<number, participants, registered>>,
         \A p \in registered : at[p] >= 2 => at'[p] >= 2
  PROVE  Placed'
<1>1. \A p : Rank(p)' = Rank(p)
  BY DEF Rank
<1>2. QED
  BY <1>1 DEF Placed

\* Only a call of Session.message sends something.
LEMMA SentStays ==
  ASSUME IInv, NEW p \in Party, NEW x \in Delivery,
         Start(p) \/ Respond(p) \/ Push(p) \/ Take(p) \/ Disconnect(p) \/ Receive(x),
         NEW d \in Delivery, Sent(d)'
  PROVE  Sent(d)
<1>1. /\ d.sender \in Party /\ d.receiver \in Party /\ d.round \in 1 .. Rounds
      /\ request \in [Party -> SUBSET Delivery] /\ relay \in [Party -> SUBSET Delivery]
  BY DeliveryType DEF IInv, TypeOK
<1>2. CASE Start(p)
  BY <1>2 DEF Start, Sent, Arrived
<1>3. CASE Respond(p)
  BY <1>1, <1>3 DEF Respond, Sent, Arrived
<1>4. CASE Push(p)
  <2>1. PICK y \in relay[p] : /\ relay' = [relay EXCEPT ![p] = @ \ {y}]
                              /\ wire' \subseteq wire \cup {y}
                              /\ UNCHANGED <<request, sink>>
    BY <1>4 DEF Push
  <2>2. y.sender = p
    BY DEF IInv, Origin
  <2>3. QED
    BY <1>1, <2>1, <2>2 DEF Sent, Arrived
<1>5. CASE Take(p)
  <2>1. sink' = [sink EXCEPT ![p][at[p]] = <<>>] /\ UNCHANGED <<request, relay, wire>>
    BY <1>5 DEF Take
  <2>2. sink \in [Party -> [1 .. Rounds -> Seq(Party)]]
    BY DEF IInv, TypeOK
  <2>3. sink'[d.receiver][d.round] \in {sink[d.receiver][d.round], <<>>}
    BY <1>1, <2>1, <2>2
  <2>4. Range(<<>>) = {}
    BY DEF Range
  <2>5. Arrived(d)' => Arrived(d)
    BY <2>3, <2>4 DEF Arrived
  <2>6. QED
    BY <2>1, <2>5 DEF Sent
<1>6. CASE Disconnect(p)
  BY <1>1, <1>6 DEF Disconnect, Sent, Arrived
<1>7. CASE Receive(x)
  <2>1. Arrived(d)' => Arrived(d) \/ d = x
    BY <1>7, ReceiveArrives DEF IInv
  <2>2. QED
    BY <1>7, <2>1 DEF Receive, Sent
<1>8. QED
  BY <1>2, <1>3, <1>4, <1>5, <1>6, <1>7

\* The steps that start nothing: deliveries move on, or are dropped
LEMMA MoveSign ==
  ASSUME SignIInv, IInv', UNCHANGED <<at, signVars>>,
         \A d \in Delivery : Sent(d)' => Sent(d),
         gone \subseteq gone',
         \A q \in Party : \/ outgoing'[q] = outgoing[q]
                          \/ q \in gone' /\ outgoing'[q] = {},
         \A q \in Party : request'[q] \in {request[q], {}}
  PROVE  SignIInv'
<1> USE DEF SignIInv, signVars
<1>1. SignTypeOK' /\ IsInjective(number)' /\ (failed = {})'
  BY DEF IInv, SignTypeOK, IsInjective
<1>2. Placed'
  BY PlacedStays
<1>3. Withheld'
  BY DEF Withheld
<1>4. SentRegistered'
  BY DEF SentRegistered
<1>5. AllRegistered' /\ Finished'
  BY DEF AllRegistered, Finished
<1>6. SinglePeer'
  BY DEF SinglePeer
<1>7. QED
  BY <1>1, <1>2, <1>3, <1>4, <1>5, <1>6

LEMMA RespondSign ==
  ASSUME SignIInv, IInv', NEW p \in Party, SignRespond(p)
  PROVE  SignIInv'
<1>1. Respond(p) /\ failed' = failed
  BY RespondDirect
<1>2. UNCHANGED <<at, gone, outgoing, signVars>>
  BY <1>1 DEF SignRespond, signVars
<1>3. \A d \in Delivery : Sent(d)' => Sent(d)
  BY <1>1, SentStays DEF SignIInv
<1>4. \A q \in Party : request'[q] \in {request[q], {}}
  BY <1>1 DEF Respond, SignIInv, IInv, TypeOK
<1>5. QED
  BY <1>2, <1>3, <1>4, MoveSign

LEMMA PushSign ==
  ASSUME SignIInv, IInv', NEW p \in Party, Push(p), UNCHANGED signVars
  PROVE  SignIInv'
<1>1. UNCHANGED <<at, gone, outgoing, request>>
  BY DEF Push
<1>2. \A d \in Delivery : Sent(d)' => Sent(d)
  BY SentStays DEF SignIInv
<1>3. QED
  BY <1>1, <1>2, MoveSign

LEMMA ReceiveSign ==
  ASSUME SignIInv, IInv', NEW x \in Delivery, Receive(x), UNCHANGED signVars
  PROVE  SignIInv'
<1>1. UNCHANGED <<at, gone, outgoing, request>>
  BY DEF Receive
<1>2. x.sender \in Party
  BY DeliveryType
<1>3. \A d \in Delivery : Sent(d)' => Sent(d)
  BY <1>2, SentStays DEF SignIInv
<1>4. QED
  BY <1>1, <1>3, MoveSign

LEMMA DisconnectSign ==
  ASSUME SignIInv, IInv', NEW p \in Party, Disconnect(p), UNCHANGED signVars
  PROVE  SignIInv'
<1>1. /\ gone' = gone \cup {p}
      /\ \A q \in Party : outgoing'[q] = IF q = p THEN {} ELSE outgoing[q]
      /\ \A q \in Party : request'[q] \in {request[q], {}}
      /\ UNCHANGED at
  BY DEF Disconnect, SignIInv, IInv, TypeOK
<1>2. \A d \in Delivery : Sent(d)' => Sent(d)
  BY SentStays DEF SignIInv
<1>3. QED
  BY <1>1, <1>2, MoveSign

LEMMA StartSign ==
  ASSUME SignIInv, IInv', NEW p \in Party, Start(p), UNCHANGED signVars
  PROVE  SignIInv'
<1> USE DEF SignIInv, signVars
<1>1. /\ at[p] = 0 /\ \A q \in Party : at'[q] = IF q = p THEN 1 ELSE at[q]
      /\ \A q \in Party \ {p} : outgoing'[q] = outgoing[q]
      /\ UNCHANGED <<gone, request>>
  BY DEF Start, IInv, TypeOK
<1>2. \A d \in Delivery : Sent(d)' => Sent(d)
  BY SentStays
<1>3. SignTypeOK' /\ IsInjective(number)' /\ (failed = {})'
  BY DEF IInv, SignTypeOK, IsInjective
<1>4. Placed'
  <2>1. registered \subseteq Party
    BY DEF SignTypeOK
  <2>2. QED
    BY <1>1, <2>1, PlacedStays
<1>5. Withheld'
  BY <1>1 DEF Withheld
<1>6. SentRegistered'
  BY <1>2 DEF SentRegistered
<1>7. AllRegistered'
  BY <1>1 DEF AllRegistered
<1>8. Finished'
  BY <1>1, RoundsAssumption DEF Finished, SignTypeOK
<1>9. SinglePeer'
  <2>1. 1 \notin PeerRounds
    BY PeersLate
  <2>2. QED
    BY <1>1, <2>1 DEF SinglePeer
<1>10. QED
  BY <1>3, <1>4, <1>5, <1>6, <1>7, <1>8, <1>9

LEMMA SendSign ==
  ASSUME SignIInv, IInv', NEW p \in Party, SignSend(p)
  PROVE  SignIInv'
<1> USE DEF SignIInv, signVars
<1>1. PICK m \in outgoing[p] :
        /\ request[p] = {} /\ (at[p] > 1 => p \in registered)
        /\ \A q \in Party : outgoing'[q] = IF q = p THEN outgoing[p] \ {m} ELSE outgoing[q]
        /\ \A q \in Party : request'[q] = IF q = p THEN m ELSE request[q]
        /\ UNCHANGED <<at, gone, relay, wire, sink, taken, refused, signVars>>
  BY DEF SignSend, Send, IInv, TypeOK
<1>2. \A d \in m : d.sender = p /\ d.round = at[p]
  BY DEF IInv, Origin
<1>3. at[p] \in Int
  BY DEF IInv, TypeOK
<1>4. SignTypeOK' /\ IsInjective(number)' /\ (failed = {})'
  BY <1>1 DEF IInv, SignTypeOK, IsInjective
<1>5. Placed'
  BY <1>1, PlacedStays
<1>6. Withheld'
  BY <1>1 DEF Withheld
<1>7. SentRegistered'
  <2>1. ASSUME NEW d \in Delivery, d.round >= 2, Sent(d)'
        PROVE  d.sender \in registered
    <3>1. d.sender \in Party
      BY DeliveryType
    <3>2. Sent(d) \/ (d.sender = p /\ d \in m)
      BY <1>1, <2>1, <3>1 DEF Sent, Arrived
    <3>3. QED
      BY <1>1, <1>2, <1>3, <2>1, <3>2 DEF SentRegistered
  <2>2. QED
    BY <1>1, <2>1 DEF SentRegistered
<1>8. AllRegistered' /\ Finished'
  BY <1>1 DEF AllRegistered, Finished
<1>9. SinglePeer'
  BY <1>1 DEF SinglePeer
<1>10. QED
  BY <1>4, <1>5, <1>6, <1>7, <1>8, <1>9

\* Who leaves round 2 got a message of it from everybody else, and has sent its
\* own: all are registered.
LEMMA TakeFindsRegistered ==
  ASSUME SignIInv, NEW p \in Party, SignTake(p), at[p] >= 2
  PROVE  registered = Party
<1>1. Take(p)
  BY DEF SignTake
<1>2. /\ p \notin gone /\ at[p] \in 1 .. Rounds /\ outgoing[p] = {}
      /\ \A d \in Delivery : d.receiver = p /\ d.round = at[p] => Arrived(d)
  BY <1>1, TakeKnows DEF Take, SignIInv
<1>3. registered \subseteq Party
  BY DEF SignIInv, SignTypeOK
<1>4. ASSUME NEW q \in Party
      PROVE  q \in registered
  <2>1. CASE q # p
    <3> DEFINE d == [round |-> at[p], sender |-> q, receiver |-> p]
    <3>1. d \in Delivery /\ d.receiver = p /\ d.round = at[p] /\ d.sender = q
      BY <1>2, <2>1 DEF Delivery
    <3> HIDE DEF d
    <3>2. Sent(d)
      BY <1>2, <3>1 DEF Sent
    <3>3. QED
      BY <3>1, <3>2 DEF SignIInv, SentRegistered
  <2>2. CASE q = p
    <3>1. CASE at[p] = 2
      BY <1>2, <2>2, <3>1, RoundsAssumption DEF SignIInv, Withheld
    <3>2. CASE at[p] # 2
      <4>1. at[p] >= 3
        BY <1>2, <3>2
      <4>2. QED
        BY <4>1 DEF SignIInv, AllRegistered
    <3>3. QED
      BY <3>1, <3>2
  <2>3. QED
    BY <2>1, <2>2
<1>5. QED
  BY <1>3, <1>4

LEMMA TakeSign ==
  ASSUME SignIInv, IInv', NEW p \in Party, SignTake(p), UNCHANGED signVars
  PROVE  SignIInv'
<1> USE DEF SignIInv, signVars
<1>1. Take(p)
  BY DEF SignTake
<1>2. /\ p \notin gone /\ at[p] \in 1 .. Rounds /\ request[p] = {}
      /\ \A q \in Party : at'[q] = IF q = p THEN at[p] + 1 ELSE at[q]
      /\ \A q \in Party : outgoing'[q] =
           IF q # p THEN outgoing[q] ELSE IF at[p] < Rounds THEN Messages(p, at[p] + 1) ELSE {}
      /\ UNCHANGED <<gone, request>>
  BY <1>1 DEF Take, IInv, TypeOK
<1>3. \A q \in Party : at[q] \in Int
  BY DEF IInv, TypeOK
<1>4. \A d \in Delivery : Sent(d)' => Sent(d)
  BY <1>1, SentStays
<1>5. SignTypeOK' /\ IsInjective(number)' /\ (failed = {})'
  BY DEF IInv, SignTypeOK, IsInjective
<1>6. Placed'
  <2>1. registered \subseteq Party
    BY DEF SignTypeOK
  <2>2. QED
    BY <1>2, <2>1, PlacedStays
<1>7. Withheld'
  <2>1. ASSUME at[p] + 1 = 2, at[p] + 1 <= Rounds
        PROVE  Messages(p, at[p] + 1) # {}
    <3>1. 2 \notin PeerRounds
      BY PeersLate
    <3>2. QED
      BY <2>1, <3>1 DEF Messages
  <2>2. at[p] + 1 <= Rounds => at[p] < Rounds
    BY <1>2, RoundsAssumption
  <2>3. QED
    BY <1>2, <2>1, <2>2 DEF Withheld
<1>8. SentRegistered'
  BY <1>4 DEF SentRegistered
<1>9. AllRegistered'
  <2>1. at[p] + 1 >= 3 => registered = Party
    BY <1>2, TakeFindsRegistered
  <2>2. QED
    BY <1>2, <2>1 DEF AllRegistered
<1>10. Finished'
  <2>1. p \notin ended /\ ended \subseteq Party
    BY <1>2, RoundsAssumption DEF Finished, SignTypeOK
  <2>2. QED
    BY <1>2, <2>1 DEF Finished
<1>11. SinglePeer'
  <2>1. ASSUME at[p] + 1 \in PeerRounds, at[p] < Rounds, NEW m \in Messages(p, at[p] + 1)
        PROVE  \E d \in Delivery : m = {d}
    <3>1. PICK q \in Others(p) : m = To(p, at[p] + 1, {q})
      BY <2>1 DEF Messages
    <3> DEFINE d == [round |-> at[p] + 1, sender |-> p, receiver |-> q]
    <3>2. m = {d}
      BY <3>1 DEF To
    <3>3. d \in Delivery
      BY <1>2, <2>1, RoundsAssumption DEF Delivery, Others
    <3>4. QED
      BY <3>2, <3>3
  <2>2. QED
    BY <1>2, <2>1 DEF SinglePeer
<1>12. QED
  BY <1>5, <1>6, <1>7, <1>8, <1>9, <1>10, <1>11

\* A registration takes a position nobody else has.
LEMMA RegisterSign ==
  ASSUME SignIInv, IInv', NEW p \in Party, Register(p)
  PROVE  SignIInv'
<1> USE DEF SignIInv, signVars
<1>1. /\ at[p] = 2 /\ registered' = registered \cup {p}
      /\ participants' = [participants EXCEPT ![PositionOf(p, p)] = number[p]]
      /\ UNCHANGED <<at, gone, outgoing, request, relay, wire, sink, taken, refused,
                     number, failed, ended>>
  BY DEF Register, Registration, vars
<1>2. /\ number \in [Party -> Numbers] /\ IsInjective(number)
      /\ participants \in [Position -> Numbers \cup {0}]
      /\ registered \subseteq Party
  BY DEF SignTypeOK
<1>3. PositionOf(p, p) = Rank(p) /\ Rank(p) \in Position
  BY <1>1, <1>2, PositionIsRank, RankProperties
<1>4. SignTypeOK'
  BY <1>1, <1>2, <1>3 DEF SignTypeOK, IInv
<1>5. IsInjective(number)' /\ (failed = {})'
  BY <1>1 DEF IsInjective
<1>6. Placed'
  <2>1. \A q : Rank(q)' = Rank(q)
    BY <1>1 DEF Rank
  <2>2. \A q \in registered : q # p => Rank(q) # Rank(p)
    BY <1>2, RankProperties
  <2>3. \A i \in Position : participants'[i] = IF i = Rank(p) THEN number[p] ELSE participants[i]
    BY <1>1, <1>2, <1>3
  <2>4. \A q \in registered : Rank(q) \in Position
    BY <1>2, RankProperties
  <2>5. \A q \in registered \cup {p} : participants'[Rank(q)] = number[q] /\ at[q] >= 2
    BY <1>1, <1>3, <2>2, <2>3, <2>4 DEF Placed
  <2>6. QED
    BY <1>1, <2>1, <2>5 DEF Placed
<1>7. Withheld'
  BY <1>1 DEF Withheld
<1>8. SentRegistered'
  <2>1. \A d \in Delivery : Sent(d)' <=> Sent(d)
    BY <1>1 DEF Sent, Arrived
  <2>2. QED
    BY <1>1, <2>1 DEF SentRegistered
<1>9. AllRegistered' /\ Finished' /\ SinglePeer'
  BY <1>1, <1>2 DEF AllRegistered, Finished, SinglePeer
<1>10. QED
  BY <1>4, <1>5, <1>6, <1>7, <1>8, <1>9

LEMMA SignedSign ==
  ASSUME SignIInv, IInv', NEW p \in Party, Signed(p)
  PROVE  SignIInv'
<1> USE DEF SignIInv, signVars
<1>1. /\ at[p] = Rounds + 1 /\ ended' = ended \cup {p}
      /\ UNCHANGED <<at, gone, outgoing, request, relay, wire, sink, taken, refused,
                     number, participants, registered, failed>>
  BY DEF Signed, vars
<1>2. SignTypeOK' /\ IsInjective(number)' /\ (failed = {})'
  BY <1>1 DEF SignTypeOK, IInv, IsInjective
<1>3. Placed'
  BY <1>1, PlacedStays
<1>4. SentRegistered'
  BY <1>1 DEF SentRegistered, Sent, Arrived
<1>5. Withheld' /\ AllRegistered' /\ SinglePeer'
  BY <1>1 DEF Withheld, AllRegistered, SinglePeer
<1>6. Finished'
  BY <1>1 DEF Finished
<1>7. QED
  BY <1>2, <1>3, <1>4, <1>5, <1>6

LEMMA SignStutter ==
  ASSUME SignIInv, IInv', UNCHANGED <<vars, signVars>>
  PROVE  SignIInv'
<1>1. UNCHANGED <<at, gone, outgoing, request, relay, wire, sink>>
  BY DEF vars
<1>2. \A d \in Delivery : Sent(d)' => Sent(d)
  BY <1>1 DEF Sent, Arrived
<1>3. QED
  BY <1>1, <1>2, MoveSign

LEMMA SignInitIInv == SignInit => SignIInv
<1> SUFFICES ASSUME SignInit
             PROVE  SignIInv
  OBVIOUS
<1>1. IInv
  BY InitIInv DEF SignInit
<1>2. SignTypeOK /\ IsInjective(number) /\ failed = {}
  BY <1>1 DEF SignInit, SignTypeOK, IInv
<1>3. Placed /\ Finished
  BY DEF SignInit, Placed, Finished
<1>4. \A p \in Party : at[p] = 0 /\ request[p] = {} /\ outgoing[p] = {}
  BY DEF SignInit, Init
<1>5. Withheld /\ AllRegistered /\ SinglePeer
  BY <1>4 DEF Withheld, AllRegistered, SinglePeer
<1>6. SentRegistered
  <2>1. ASSUME NEW d \in Delivery
        PROVE  ~ Sent(d)
    <3>1. d.sender \in Party /\ d.receiver \in Party /\ d.round \in 1 .. Rounds
      BY DeliveryType
    <3>2. sink[d.receiver][d.round] = <<>>
      BY <3>1 DEF SignInit, Init
    <3>3. ~ Arrived(d)
      BY <3>2 DEF Arrived, Range
    <3>4. QED
      BY <3>1, <3>3 DEF SignInit, Init, Sent
  <2>2. QED
    BY <2>1 DEF SentRegistered
<1>7. QED
  BY <1>1, <1>2, <1>3, <1>5, <1>6 DEF SignIInv

LEMMA SignNextIInv == SignIInv /\ [SignNext]_<<vars, signVars>> => SignIInv'
<1> SUFFICES ASSUME SignIInv, [SignNext]_<<vars, signVars>>
             PROVE  SignIInv'
  OBVIOUS
<1>1. IInv'
  BY StepIsRound, NextIInv DEF SignIInv
<1>2. QED
  BY <1>1, RegisterSign, SendSign, RespondSign, SignedSign, StartSign, TakeSign,
     PushSign, DisconnectSign, ReceiveSign, SignStutter DEF SignNext

\* The inductive invariant: a party is registered under the position all others
\* use for it before anything of it that comes after getParticipants is sent.
THEOREM SignIInvHolds == SignSpec => []SignIInv
BY SignInitIInv, SignNextIInv, PTL DEF SignSpec

-----------------------------------------------------------------------------
\* What follows

\* The server's map holds party numbers of the session, whoever has registered.
THEOREM SignTypeCorrect == SignSpec => []SignTypeOK
<1>1. SignIInv => SignTypeOK
  BY DEF SignIInv
<1>2. QED
  BY <1>1, SignIInvHolds, PTL

\* No message of the offline stage is refused or goes to another party: the
\* position it is addressed to resolves to the peer the sender means.
THEOREM PeersResolveHolds == SignSpec => []PeersResolve
<1>1. SignIInv => PeersResolve
  BY PeerResolves DEF SignIInv, PeersResolve
<1>2. QED
  BY <1>1, SignIInvHolds, PTL

\* When signer.create takes the listeners off the socket, nothing is under way
\* to the party, and no peer has anything left to send to it.
THEOREM EndQuietHolds == SignSpec => []EndQuiet
<1>1. ASSUME SignIInv, NEW p \in ended, NEW q \in Party,
             NEW d \in wire \cup relay[q] \cup request[q] \cup UNION outgoing[q],
             d.receiver = p
      PROVE  FALSE
  <2>1. at[p] = Rounds + 1
    BY <1>1 DEF SignIInv, Finished
  <2>2. d \in Delivery
    BY <1>1 DEF SignIInv, IInv, TypeOK
  <2>3. d.round < at[d.receiver]
    BY <1>1, <2>1, <2>2, RoundsAssumption, DeliveryType
  <2>4. d \in wire \/ (d.sender = q /\ (d \in relay[q] \/ d \in request[q] \/ Waiting(d)))
    BY <1>1 DEF SignIInv, IInv, Origin, Waiting
  <2>5. QED
    BY <1>1, <2>2, <2>3, <2>4 DEF SignIInv, IInv, Over
<1>2. SignIInv => EndQuiet
  BY <1>1 DEF EndQuiet
<1>3. QED
  BY <1>2, SignIInvHolds, PTL

\* What the parties of a signing session exchange is one computation of
\* RoundSession, although the server resolves positions in between.
THEOREM RoundsImplemented == SignSpec => RoundsSpec
<1>1. SignInit => Init
  BY DEF SignInit
<1>2. SignIInv /\ [SignNext]_<<vars, signVars>> => [Next]_vars
  BY StepIsRound
<1>3. QED
  BY <1>1, <1>2, SignIInvHolds, PTL DEF SignSpec, RoundsSpec, Spec

\* So what is proved of RoundSession holds of signing: in particular, the state
\* machines of getParticipants, the offline stage and the partial signature get
\* one message of every other party in each round.
THEOREM SignInputsHold == SignSpec => []RoundInputs
<1>1. SignSpec => Spec
  BY RoundsImplemented DEF RoundsSpec
<1>2. QED
  BY <1>1, InputsHold, PTL

=============================================================================
