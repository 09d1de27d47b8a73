--------------------------- MODULE MpcServerProofs ---------------------------
(***************************************************************************)
(* Theorems about MpcServer, for every set of connections and identifiers, *)
(* every set of parameters and every bound.                                *)
(***************************************************************************)
EXTENDS MpcServer, SequenceTheorems, WellFoundedInduction, TLAPS

-----------------------------------------------------------------------------
\* Sequences

\* A nonempty set of naturals has a least element, and Min picks it.
LEMMA MinIsLeast ==
  ASSUME NEW S \in SUBSET Nat, S # {}
  PROVE  Min(S) \in S /\ \A x \in S : Min(S) <= x
<1> DEFINE R == {p \in Nat \X Nat : p[1] < p[2]}
<1>1. PICK m \in S : \A x \in S : ~ (<<x, m>> \in R)
  <2>1. IsWellFoundedOn(R, Nat)
    BY NatLessThanWellFounded DEF OpToRel
  <2>2. QED
    BY <2>1, WFMin
<1>2. ASSUME NEW x \in S
      PROVE  m <= x
  <2>1. <<x, m>> \in Nat \X Nat /\ ~ (<<x, m>> \in R)
    BY <1>1
  <2>2. ~ (<<x, m>>[1] < <<x, m>>[2])
    BY <2>1
  <2>3. QED
    BY <2>2
<1>3. QED
  BY <1>1, <1>2 DEF Min

\* Looking for a value that occurs finds a position of it.
LEMMA SelectInSeqFinds ==
  ASSUME NEW T, NEW seq \in Seq(T), NEW v, NEW k \in 1 .. Len(seq), seq[k] = v
  PROVE  /\ SelectInSeq(seq, LAMBDA x : x = v) \in 1 .. Len(seq)
         /\ seq[SelectInSeq(seq, LAMBDA x : x = v)] = v
<1> DEFINE I == {i \in 1 .. Len(seq) : seq[i] = v}
<1>1. I \in SUBSET Nat /\ I # {}
  OBVIOUS
<1>2. Min(I) \in I
  BY <1>1, MinIsLeast
<1>3. SelectInSeq(seq, LAMBDA x : x = v) = Min(I)
  BY <1>1 DEF SelectInSeq
<1>4. QED
  BY <1>2, <1>3

\* What is left of a client list: no longer than before, nothing new in it,
\* and in a list without repetition the connection is gone.
LEMMA LeaveProperties ==
  ASSUME NEW T, NEW seq \in Seq(T), NEW c
  PROVE  /\ Leave(seq, c) \in Seq(T)
         /\ Len(Leave(seq, c)) <= Len(seq)
         /\ ToSet(Leave(seq, c)) \subseteq ToSet(seq)
         /\ IsInjective(seq) => IsInjective(Leave(seq, c)) /\ c \notin ToSet(Leave(seq, c))
<1>1. CASE ~ \E i \in 1 .. Len(seq) : seq[i] = c
  <2>1. Leave(seq, c) = seq
    BY <1>1 DEF Leave, RemoveFirst
  <2>2. QED
    BY <1>1, <2>1 DEF ToSet
<1>2. CASE \E i \in 1 .. Len(seq) : seq[i] = c
  <2> DEFINE k == SelectInSeq(seq, LAMBDA v : v = c)
             rest == RemoveAt(seq, k)
             at(i) == IF i < k THEN i ELSE i + 1
  <2>1. k \in 1 .. Len(seq) /\ seq[k] = c
    BY <1>2, SelectInSeqFinds
  <2>2. Leave(seq, c) = rest
    BY <1>2 DEF Leave, RemoveFirst
  <2> HIDE DEF k
  <2>3. /\ rest \in Seq(T)
        /\ Len(rest) = Len(seq) - 1
        /\ \A i \in 1 .. Len(rest) : rest[i] = seq[at(i)]
    <3> DEFINE front == SubSeq(seq, 1, k - 1)
               back == SubSeq(seq, k + 1, Len(seq))
    <3>1. /\ front \in Seq(T)
          /\ Len(front) = k - 1
          /\ \A i \in 1 .. k - 1 : front[i] = seq[i]
      BY <2>1
    <3>2. /\ back \in Seq(T)
          /\ Len(back) = Len(seq) - k
          /\ \A i \in 1 .. Len(seq) - k : back[i] = seq[k + i]
      BY <2>1
    <3>3. rest = front \o back
      BY DEF RemoveAt
    <3> HIDE DEF front, back, rest
    <3>4. rest \in Seq(T) /\ Len(rest) = Len(seq) - 1
      BY <2>1, <3>1, <3>2, <3>3
    <3>5. ASSUME NEW i \in 1 .. Len(rest)
          PROVE  rest[i] = seq[at(i)]
      <4>1. rest[i] = IF i <= Len(front) THEN front[i] ELSE back[i - Len(front)]
        <5>1. \A k1 \in 1 .. Len(front) + Len(back) :
                (front \o back)[k1] = IF k1 <= Len(front) THEN front[k1] ELSE back[k1 - Len(front)]
          BY <3>1, <3>2, ConcatProperties
        <5>2. i \in 1 .. Len(front) + Len(back)
          BY <2>1, <3>1, <3>2, <3>4
        <5>3. QED
          BY <3>3, <5>1, <5>2
      <4>2. CASE i < k
        BY <2>1, <3>1, <4>1, <4>2
      <4>3. CASE ~(i < k)
        <5>1. /\ i - (k - 1) \in 1 .. Len(seq) - k
              /\ k + (i - (k - 1)) = i + 1
              /\ ~(i <= Len(front))
          BY <2>1, <3>1, <3>4, <4>3
        <5>2. rest[i] = back[i - (k - 1)]
          BY <3>1, <4>1, <5>1
        <5>3. back[i - (k - 1)] = seq[i + 1]
          BY <3>2, <5>1
        <5>4. QED
          BY <4>3, <5>2, <5>3
      <4>4. QED
        BY <4>2, <4>3
    <3>6. QED
      BY <3>4, <3>5
  <2> HIDE DEF rest
  <2>4. \A i \in 1 .. Len(rest) : at(i) \in 1 .. Len(seq) /\ at(i) # k
    BY <2>1, <2>3
  <2>5. ToSet(rest) \subseteq ToSet(seq)
    BY <2>3, <2>4 DEF ToSet
  <2>6. ASSUME IsInjective(seq)
        PROVE  IsInjective(rest) /\ c \notin ToSet(rest)
    <3>1. ASSUME NEW i \in 1 .. Len(rest), NEW j \in 1 .. Len(rest), rest[i] = rest[j]
          PROVE  at(i) = at(j)
      <4>1. seq[at(i)] = seq[at(j)]
        BY <2>3, <3>1
      <4>2. at(i) \in DOMAIN seq /\ at(j) \in DOMAIN seq
        BY <2>4
      <4> HIDE DEF at
      <4>3. QED
        BY <2>6, <4>1, <4>2 DEF IsInjective
    <3>2. \A i, j \in 1 .. Len(rest) : at(i) = at(j) => i = j
      BY <2>1, <2>3
    <3>3. \A i \in 1 .. Len(rest) : rest[i] # c
      BY <2>1, <2>3, <2>4, <2>6 DEF IsInjective
    <3>4. QED
      BY <2>3, <3>1, <3>2, <3>3 DEF IsInjective, ToSet
  <2>7. QED
    BY <2>2, <2>3, <2>5, <2>6
<1>3. QED
  BY <1>1, <1>2

\* Appending to a list adds one element at the end.
LEMMA AppendedSet ==
  ASSUME NEW T, NEW seq \in Seq(T), NEW e
  PROVE  ToSet(Append(seq, e)) = ToSet(seq) \cup {e}
<1>1. Len(Append(seq, e)) = Len(seq) + 1
  OBVIOUS
<1>2. \A i \in 1 .. Len(seq) : Append(seq, e)[i] = seq[i]
  OBVIOUS
<1>3. Append(seq, e)[Len(seq) + 1] = e
  OBVIOUS
<1>4. QED
  BY <1>1, <1>2, <1>3 DEF ToSet

\* A connection that is not in a list can be appended without repeating one.
LEMMA AppendInjectiveList ==
  ASSUME NEW T, NEW seq \in Seq(T), NEW e, e \notin ToSet(seq), IsInjective(seq)
  PROVE  IsInjective(Append(seq, e))
BY DEF IsInjective, ToSet

-----------------------------------------------------------------------------
\* The steps of the server

\* A task sends what it has to notify, to all entries of the list or to the ones
\* before the place where it waits for the lock.
Sends(c) ==
  /\ phase[c] = "notify"
  /\ \E after \in {"idle", "blocked"} : phase' = [phase EXCEPT ![c] = after]
  /\ notification' = [notification EXCEPT ![c] = {}]
  /\ \E n \in notification[c] : \E E \in SUBSET Entries(n) : Push(n, E)
  /\ UNCHANGED <<clients, groups, sessions, issued, empty_groups>>

LEMMA SendSteps == ASSUME NEW c \in Conn, Notify(c) \/ NotifyBlocked(c) PROVE Sends(c)
<1>1. CASE Notify(c)
  <2>1. PICK n \in notification[c] : Push(n, Entries(n))
    BY <1>1 DEF Notify
  <2>2. Entries(n) \in SUBSET Entries(n)
    OBVIOUS
  <2>3. \E E \in SUBSET Entries(n) : Push(n, E)
    BY <2>1, <2>2
  <2>4. QED
    BY <1>1, <2>3 DEF Notify, Sends
<1>2. CASE NotifyBlocked(c)
  <2>1. PICK n \in notification[c] : \E e \in Entries(n) :
               Push(n, {f \in Entries(n) : f[1] < e[1]})
    BY <1>2 DEF NotifyBlocked
  <2>2. \A e : {f \in Entries(n) : f[1] < e[1]} \in SUBSET Entries(n)
    OBVIOUS
  <2>3. \E E \in SUBSET Entries(n) : Push(n, E)
    BY <2>1, <2>2
  <2>4. QED
    BY <1>2, <2>3 DEF NotifyBlocked, Sends
<1>3. QED
  BY <1>1, <1>2

\* Every step is one of these: the checks that refuse a request all come down
\* to Refuse, and a Session.join is a request that changes nothing.
Steps(c) ==
  \/ ClientConnected(c)
  \/ ClientDisconnected(c)
  \/ PruneGroups(c)
  \/ Respond(c)
  \/ Sends(c)
  \/ Refuse(c)
  \/ \E g \in GroupId, p \in Params : GroupCreate(c, g, p)
  \/ \E g \in GroupId : GroupJoin(c, g)
  \/ \E g \in GroupId, s \in SessionId, k \in SessionKind : SessionCreate(c, g, s, k)
  \/ \E s \in DOMAIN sessions :
       \/ SessionSignup(c, s, sessions[s].kind)
       \/ \E n \in 0 .. MaxParties : SessionLoad(c, s, n, sessions[s].kind)
       \/ \E i, n \in PartyIndex : SessionParticipant(c, s, i, n)
       \/ \E n \in PartyIndex : SessionFinish(c, s, n)
       \/ SessionBroadcast(c, s)
       \/ \E r \in PartyIndex : SessionPeerMessage(c, s, r)

LEMMA NextSteps == Next => \E c \in Conn : Steps(c)
<1> SUFFICES ASSUME NEW c \in Conn, ConnStep(c)
             PROVE  Steps(c)
  BY SendSteps DEF Next, Steps
<1>1. CASE GroupRequest(c)
  BY <1>1 DEF GroupRequest, Steps, GroupCreateRefused, GroupJoinRefused, SessionCreateRefused
<1>2. CASE SessionRequest(c)
  <2>1. CASE \E s \in SessionId : SessionRefused(c, s)
    BY <2>1 DEF SessionRefused, Steps
  <2>2. CASE \E s \in DOMAIN sessions : SessionJoin(c, s)
    BY <2>2 DEF SessionJoin, Refuse, Steps
  <2>3. CASE \E s \in DOMAIN sessions : Claim(c, s)
    BY <2>3 DEF Claim, SessionLoadRefused, Steps
  <2>4. CASE \E s \in DOMAIN sessions : Participate(c, s)
    BY <2>4 DEF Participate, Steps
  <2>5. CASE \E s \in DOMAIN sessions : Finish(c, s)
    BY <2>5 DEF Finish, SessionFinishRefused, Steps
  <2>6. CASE \E s \in DOMAIN sessions : Message(c, s)
    BY <2>6 DEF Message, SessionPeerMessageRefused, Steps
  <2>7. QED
    BY <1>2, <2>1, <2>2, <2>3, <2>4, <2>5, <2>6 DEF SessionRequest
<1>3. QED
  BY <1>1, <1>2, SendSteps DEF ConnStep, TaskStep, Steps

-----------------------------------------------------------------------------
\* Types

\* The number after the last one in a list of signups.
LEMMA NextNumberTyped ==
  ASSUME NEW seq \in Seq(Signup)
  PROVE  NextNumber(seq) \in Nat
<1>1. CASE seq = <<>>
  BY <1>1 DEF NextNumber
<1>2. CASE seq # <<>>
  <2>1. seq[Len(seq)] \in Signup
    BY <1>2
  <2>2. seq[Len(seq)].num \in Nat
    BY <2>1 DEF Signup
  <2>3. QED
    BY <1>2, <2>2 DEF NextNumber, Last
<1>3. QED
  BY <1>1, <1>2

\* The holder of a number is a connection that signed up to the session.
LEMMA SignupTyped ==
  ASSUME TypeOK, NEW s \in DOMAIN sessions, NEW n \in Numbers(s)
  PROVE  Holder(s, n) \in SignedUp(s) /\ Holder(s, n) \in Conn
<1> DEFINE seq == sessions[s].party_signups
           k == SelectInSeq(seq, LAMBDA x : x.num = n)
           I == {i \in 1 .. Len(seq) : seq[i].num = n}
<1>1. seq \in Seq(Signup)
  BY DEF TypeOK, Session
<1>2. I \in SUBSET Nat /\ I # {}
  BY <1>1 DEF Numbers, ToSet
<1>3. k = Min(I)
  BY <1>2 DEF SelectInSeq
<1>4. k \in 1 .. Len(seq)
  BY <1>2, <1>3, MinIsLeast
<1>5. Holder(s, n) = seq[k].conn
  BY DEF Holder
<1> HIDE DEF k
<1>6. seq[k] \in ToSet(seq) /\ seq[k] \in Signup
  BY <1>1, <1>4 DEF ToSet
<1>7. QED
  BY <1>5, <1>6 DEF SignedUp, Signup

\* Whom the entries of a list name: the clients of the group, the parties of
\* the session, or the addressee.
LEMMA EntriesNamed ==
  ASSUME TypeOK, NEW n \in Notification, NEW e \in Entries(n)
  PROVE  /\ e[2] \in Conn
         /\ n.to = "session" =>
              /\ n.session \in DOMAIN sessions
              /\ e[1] \in DOMAIN sessions[n.session].party_signups
              /\ e = <<e[1], sessions[n.session].party_signups[e[1]].conn>>
              /\ e[2] \in SignedUp(n.session)
         /\ n.to = "relay" => e[2] \in n.conns
<1>0. n.conns \subseteq Conn /\ n.to \in {"group", "session", "relay"}
  BY DEF Notification
<1>1. CASE n.to = "relay"
  BY <1>0, <1>1 DEF Entries
<1>2. CASE n.to = "group"
  <2>1. /\ n.group \in DOMAIN groups
        /\ \E i \in DOMAIN groups[n.group].clients : e = <<i, groups[n.group].clients[i]>>
    BY <1>2 DEF Entries
  <2>2. groups[n.group].clients \in Seq(Conn)
    BY <2>1 DEF TypeOK, Group
  <2>3. e[2] \in Conn
    BY <2>1, <2>2
  <2>4. QED
    BY <1>2, <2>3
<1>3. CASE n.to = "session"
  <2> DEFINE signups == sessions[n.session].party_signups
  <2>0. CASE n.session \notin DOMAIN sessions
    <3>1. Entries(n) = {}
      BY <1>3, <2>0 DEF Entries
    <3>2. QED
      BY <3>1
  <2>1. CASE n.session \in DOMAIN sessions
    <3> DEFINE list == [i \in DOMAIN signups |-> signups[i].conn]
    <3>1. Entries(n) = {<<i, list[i]>> : i \in {k \in DOMAIN list : list[k] \notin n.conns}}
      BY <1>3, <2>1 DEF Entries
    <3>2. PICK i \in DOMAIN list : e = <<i, list[i]>>
      BY <3>1
    <3>3. i \in DOMAIN signups /\ e = <<i, signups[i].conn>>
      BY <3>2
    <3> HIDE DEF list
    <3>4. signups \in Seq(Signup)
      BY <2>1 DEF TypeOK, Session
    <3>5. signups[i] \in Signup /\ signups[i] \in ToSet(signups)
      BY <3>3, <3>4 DEF ToSet
    <3>6. e[1] = i /\ e[2] = signups[i].conn
      BY <3>3
    <3>7. e[2] \in Conn /\ e[2] \in SignedUp(n.session)
      BY <3>5, <3>6 DEF Signup, SignedUp
    <3>8. QED
      BY <1>3, <2>1, <3>3, <3>6, <3>7
  <2>2. QED
    BY <2>0, <2>1
<1>4. QED
  BY <1>0, <1>1, <1>2, <1>3

\* What a task sends: an event of its notification, to an entry of the list; and
\* again only what was sent already or has two entries.
LEMMA SendsEffect ==
  ASSUME TypeOK, NEW c \in Conn, Sends(c)
  PROVE  \E n \in notification[c] :
           /\ n \in Notification
           /\ sent \subseteq sent' /\ again \subseteq again'
           /\ \A x \in sent' \ sent : \E e \in Entries(n) : x = Pushed(n, e[2])
           /\ \A x \in again' \ again :
                /\ n.event \in ReadyEvent
                /\ x \in sent'
                /\ \E d \in Entries(n) :
                     /\ x = Pushed(n, d[2])
                     /\ x \in sent \/ \E f \in Entries(n) : f # d /\ f[2] = d[2]
<1>1. PICK n \in notification[c] : \E E \in SUBSET Entries(n) : Push(n, E)
  BY DEF Sends
<1>2. PICK E \in SUBSET Entries(n) : Push(n, E)
  BY <1>1
<1>3. n \in Notification
  BY DEF TypeOK
<1> DEFINE reached == {e \in E : e[2] \in clients}
<1>4. sent' = sent \cup {Pushed(n, e[2]) : e \in reached}
  BY <1>2 DEF Push
<1>5. again' = again \cup
          {Pushed(n, e[2]) : e \in {d \in reached :
             /\ n.event \in ReadyEvent
             /\ \/ Pushed(n, d[2]) \in sent
                \/ \E f \in reached : f # d /\ f[2] = d[2]}}
  BY <1>2 DEF Push
<1>6. reached \subseteq Entries(n)
  BY <1>2
<1> HIDE DEF reached
<1>7. \A x \in sent' \ sent : \E e \in Entries(n) : x = Pushed(n, e[2])
  BY <1>4, <1>6
<1>8. ASSUME NEW x \in again' \ again
      PROVE  /\ n.event \in ReadyEvent
             /\ x \in sent'
             /\ \E d \in Entries(n) :
                  /\ x = Pushed(n, d[2])
                  /\ x \in sent \/ \E f \in Entries(n) : f # d /\ f[2] = d[2]
  <2>1. PICK d \in reached :
          /\ x = Pushed(n, d[2])
          /\ n.event \in ReadyEvent
          /\ \/ Pushed(n, d[2]) \in sent
             \/ \E f \in reached : f # d /\ f[2] = d[2]
    BY <1>5, <1>8
  <2>2. x \in sent'
    BY <1>4, <2>1
  <2>3. d \in Entries(n)
    BY <1>6, <2>1
  <2>4. x \in sent \/ \E f \in Entries(n) : f # d /\ f[2] = d[2]
    BY <1>6, <2>1
  <2>5. QED
    BY <2>1, <2>2, <2>3, <2>4
<1>9. sent \subseteq sent' /\ again \subseteq again'
  BY <1>4, <1>5
<1>10. QED
  BY <1>3, <1>7, <1>8, <1>9

LEMMA InitTypeOK == Init => TypeOK
BY DEF Init, TypeOK, Phase

\* Serving a request disturbs none of the types when what it sends is typed.
LEMMA ServeTypes ==
  ASSUME TypeOK, NEW c \in Conn, NEW notes \in SUBSET Notification, Serve(c, notes)
  PROVE  /\ phase' \in [Conn -> Phase]
         /\ notification' \in [Conn -> SUBSET Notification]
         /\ UNCHANGED <<clients, empty_groups, sent, again>>
BY DEF TypeOK, Serve, Phase

\* The notifications the handlers make.
LEMMA NotesTyped ==
  ASSUME TypeOK
  PROVE  /\ \A g \in GroupId, s \in SessionId, c \in Conn :
              ToGroup(g, s, "sessionCreate", {c}) \in Notification
         /\ \A s \in DOMAIN sessions, e \in Event, f \in SUBSET Conn :
              ToSession(s, e, f) \in Notification
         /\ \A s \in DOMAIN sessions, c \in Conn : Relay(s, c) \in Notification
         /\ \A s \in DOMAIN sessions, e \in Event : \A k, seq :
              Announce(s, k, e, seq) \in SUBSET Notification
<1>1. \A s \in DOMAIN sessions : s \in SessionId /\ sessions[s].group \in GroupId
  BY DEF TypeOK, Session
<1>2. \A g \in GroupId, s \in SessionId, c \in Conn :
        ToGroup(g, s, "sessionCreate", {c}) \in Notification
  BY DEF ToGroup, Notification, Event, ReadyEvent
<1>3. \A s \in DOMAIN sessions, e \in Event, f \in SUBSET Conn :
        ToSession(s, e, f) \in Notification
  BY <1>1 DEF ToSession, Notification
<1>4. \A s \in DOMAIN sessions, c \in Conn : Relay(s, c) \in Notification
  BY <1>1 DEF Relay, Notification, Event, ReadyEvent
<1>5. QED
  BY <1>2, <1>3, <1>4 DEF Announce

LEMMA NextTypeOK ==
  ASSUME TypeOK, NEW c \in Conn, Steps(c)
  PROVE  TypeOK'
<1>1. CASE ClientConnected(c)
  BY <1>1 DEF ClientConnected, TypeOK, Phase
<1>2. CASE ClientDisconnected(c)
  <2>1. \A g \in DOMAIN groups : groups'[g] \in Group
    BY <1>2, LeaveProperties DEF ClientDisconnected, TypeOK, Group
  <2>2. Emptied(c) \in SUBSET GroupId
    BY DEF Emptied, TypeOK
  <2>3. QED
    BY <1>2, <2>1, <2>2 DEF ClientDisconnected, TypeOK, Phase
<1>3. CASE PruneGroups(c)
  BY <1>3 DEF PruneGroups, TypeOK, Phase
<1>4. CASE Respond(c)
  BY <1>4 DEF Respond, TypeOK, Phase
<1>5. CASE Sends(c)
  <2>1. PICK n \in notification[c] :
           /\ n \in Notification
           /\ sent \subseteq sent' /\ again \subseteq again'
           /\ \A x \in sent' \ sent : \E e \in Entries(n) : x = Pushed(n, e[2])
           /\ \A x \in again' \ again : x \in sent'
    BY <1>5, SendsEffect
  <2>2. sent' \subseteq Delivery
    <3>1. \A e \in Entries(n) : Pushed(n, e[2]) \in Delivery
      BY <2>1, EntriesNamed DEF Pushed, Delivery, Notification
    <3>2. sent \subseteq Delivery
      BY DEF TypeOK
    <3>3. QED
      BY <2>1, <3>1, <3>2
  <2>3. again' \subseteq sent'
    BY <2>1 DEF TypeOK
  <2>4. phase' \in [Conn -> Phase] /\ notification' \in [Conn -> SUBSET Notification]
    BY <1>5 DEF Sends, TypeOK, Phase
  <2>5. QED
    BY <1>5, <2>2, <2>3, <2>4 DEF Sends, TypeOK
<1>6. CASE Refuse(c)
  BY <1>6, ServeTypes DEF Refuse, TypeOK
<1>7. ASSUME NEW g \in GroupId, NEW p \in Params, GroupCreate(c, g, p)
      PROVE  TypeOK'
  <2>1. NewGroup(c, p) \in Group
    BY <1>7 DEF NewGroup, Group, GroupCreate
  <2>2. QED
    BY <1>7, <2>1, ServeTypes DEF GroupCreate, Insert, TypeOK
<1>8. ASSUME NEW g \in GroupId, GroupJoin(c, g)
      PROVE  TypeOK'
  <2>1. groups[g] \in Group
    BY <1>8 DEF GroupJoin, TypeOK
  <2>2. Append(groups[g].clients, c) \in Seq(Conn)
    BY <2>1 DEF Group
  <2>3. [groups[g] EXCEPT !.clients = Append(@, c)] \in Group
    BY <2>1, <2>2 DEF Group
  <2>4. /\ DOMAIN groups' = DOMAIN groups
        /\ \A h \in DOMAIN groups : groups'[h] \in Group
    BY <1>8, <2>3 DEF GroupJoin, TypeOK
  <2>5. QED
    BY <1>8, <2>4, ServeTypes DEF GroupJoin, TypeOK
<1>9. ASSUME NEW g \in GroupId, NEW s \in SessionId, NEW k \in SessionKind,
             SessionCreate(c, g, s, k)
      PROVE  TypeOK'
  <2>1. NewSession(g, k) \in Session
    BY ParamsAssumption DEF NewSession, Session, PartyIndex
  <2>2. notification' \in [Conn -> SUBSET Notification] /\ phase' \in [Conn -> Phase]
    BY <1>9, NotesTyped, ServeTypes DEF SessionCreate
  <2>3. QED
    BY <1>9, <2>1, <2>2 DEF SessionCreate, Serve, Insert, TypeOK
<1>10. ASSUME NEW s \in DOMAIN sessions, SessionSignup(c, s, sessions[s].kind)
       PROVE  TypeOK'
  <2> DEFINE signups == Append(sessions[s].party_signups,
                               [num |-> NextNumber(sessions[s].party_signups), conn |-> c,
                                by |-> "signup"])
  <2>1. sessions[s] \in Session
    BY DEF TypeOK
  <2>2. NextNumber(sessions[s].party_signups) \in Nat
    <3>1. sessions[s].party_signups \in Seq(Signup)
      BY <2>1 DEF Session
    <3>2. QED
      BY <3>1, NextNumberTyped
  <2>3. signups \in Seq(Signup)
    BY <2>1, <2>2 DEF Session, Signup, ClaimMethod
  <2>4. Announce(s, sessions[s].kind, "sessionSignup", signups) \in SUBSET Notification
    BY NotesTyped DEF Event, ReadyEvent
  <2> HIDE DEF signups
  <2>5. [sessions[s] EXCEPT !.party_signups = signups] \in Session
    BY <2>1, <2>3 DEF Session
  <2>6. QED
    BY <1>10, <2>4, <2>5, ServeTypes DEF SessionSignup, TypeOK, signups
<1>11. ASSUME NEW s \in DOMAIN sessions, NEW n \in 0 .. MaxParties,
              SessionLoad(c, s, n, sessions[s].kind)
       PROVE  TypeOK'
  <2> DEFINE signups == Append(sessions[s].party_signups,
                               [num |-> n, conn |-> c, by |-> "load"])
  <2>1. sessions[s] \in Session
    BY DEF TypeOK
  <2>2. n \in Nat
    BY ParamsAssumption
  <2>3. signups \in Seq(Signup)
    BY <2>1, <2>2 DEF Session, Signup, ClaimMethod
  <2>4. Announce(s, sessions[s].kind, "sessionLoad", signups) \in SUBSET Notification
    BY NotesTyped DEF Event, ReadyEvent
  <2> HIDE DEF signups
  <2>5. [sessions[s] EXCEPT !.party_signups = signups] \in Session
    BY <2>1, <2>3 DEF Session
  <2>6. QED
    BY <1>11, <2>4, <2>5, ServeTypes DEF SessionLoad, TypeOK, signups
<1>12. ASSUME NEW s \in DOMAIN sessions, NEW i \in PartyIndex, NEW n \in PartyIndex,
              SessionParticipant(c, s, i, n)
       PROVE  TypeOK'
  <2>1. sessions[s] \in Session /\ n \in 0 .. MaxParties
    BY ParamsAssumption DEF TypeOK, PartyIndex
  <2>2. [sessions[s] EXCEPT !.participants[i] = n] \in Session
    BY <2>1 DEF Session
  <2>3. QED
    BY <1>12, <2>2, ServeTypes DEF SessionParticipant, TypeOK
<1>13. ASSUME NEW s \in DOMAIN sessions, NEW n \in PartyIndex, SessionFinish(c, s, n)
       PROVE  TypeOK'
  <2>1. sessions[s] \in Session /\ n \in Nat
    BY ParamsAssumption DEF TypeOK, PartyIndex
  <2>2. [sessions[s] EXCEPT !.finished = sessions[s].finished \cup {n}] \in Session
    BY <2>1 DEF Session
  <2>3. ToSession(s, "sessionClosed", {}) \in Notification
    BY NotesTyped DEF Event, ReadyEvent
  <2>4. /\ phase' \in [Conn -> Phase]
        /\ notification' \in [Conn -> SUBSET Notification]
        /\ UNCHANGED <<clients, empty_groups, sent, again>>
    BY <1>13, <2>3, ServeTypes DEF SessionFinish
  <2>5. QED
    BY <1>13, <2>2, <2>4 DEF SessionFinish, TypeOK
<1>14. ASSUME NEW s \in DOMAIN sessions, SessionBroadcast(c, s)
       PROVE  TypeOK'
  <2>1. ToSession(s, "sessionMessage", {c}) \in Notification
    BY NotesTyped DEF Event, ReadyEvent
  <2>2. QED
    BY <1>14, <2>1, ServeTypes DEF SessionBroadcast, TypeOK
<1>15. ASSUME NEW s \in DOMAIN sessions, NEW r \in PartyIndex, SessionPeerMessage(c, s, r)
       PROVE  TypeOK'
  <2>1. Relay(s, Holder(s, ReceiverNumber(s, r))) \in Notification
    BY <1>15, SignupTyped, NotesTyped DEF SessionPeerMessage
  <2>2. QED
    BY <1>15, <2>1, ServeTypes DEF SessionPeerMessage, TypeOK
<1>16. QED
  BY <1>1, <1>2, <1>3, <1>4, <1>5, <1>6, <1>7, <1>8, <1>9, <1>10, <1>11, <1>12, <1>13,
     <1>14, <1>15 DEF Steps

\* The state is well typed: clients, groups and sessions hold what the structs
\* of server.rs hold, for every number of connections, groups and parties.
THEOREM TypeCorrect == Spec => []TypeOK
<1>1. TypeOK /\ [Next]_vars => TypeOK'
  <2>1. CASE Next
    BY <2>1, NextSteps, NextTypeOK
  <2>2. CASE UNCHANGED vars
    BY <2>2 DEF vars, TypeOK
  <2>3. QED
    BY <2>1, <2>2
<1>2. QED
  BY <1>1, InitTypeOK, PTL DEF Spec

-----------------------------------------------------------------------------
\* Groups: capacity and membership

\* The steps of the handlers that do not touch the groups.
HandlesSession(c) ==
  \/ Refuse(c)
  \/ \E g \in GroupId, s \in SessionId, k \in SessionKind : SessionCreate(c, g, s, k)
  \/ \E s \in DOMAIN sessions :
       \/ SessionSignup(c, s, sessions[s].kind)
       \/ \E n \in 0 .. MaxParties : SessionLoad(c, s, n, sessions[s].kind)
       \/ \E i, n \in PartyIndex : SessionParticipant(c, s, i, n)
       \/ \E n \in PartyIndex : SessionFinish(c, s, n)
       \/ SessionBroadcast(c, s)
       \/ \E r \in PartyIndex : SessionPeerMessage(c, s, r)

\* A request about a session leaves the clients and the groups alone and its
\* task between two requests.
LEMMA HandlersKeepGroups ==
  ASSUME TypeOK, NEW c \in Conn, HandlesSession(c)
  PROVE  /\ groups' = groups /\ clients' = clients
         /\ phase[c] = "idle" /\ phase' = [phase EXCEPT ![c] = "respond"]
BY DEF HandlesSession, Refuse, SessionCreate, SessionSignup, SessionLoad, SessionParticipant,
       SessionFinish, SessionBroadcast, SessionPeerMessage, Serve

\* What one step of connection c does to the groups.
LEMMA GroupSteps ==
  ASSUME NEW c \in Conn, Steps(c)
  PROVE  \/ ClientConnected(c) \/ ClientDisconnected(c) \/ PruneGroups(c)
         \/ Respond(c) \/ Sends(c) \/ HandlesSession(c)
         \/ \E g \in GroupId, p \in Params : GroupCreate(c, g, p)
         \/ \E g \in GroupId : GroupJoin(c, g)
BY DEF Steps, HandlesSession

LEMMA NextGroupCapacity ==
  ASSUME TypeOK, GroupCapacity, NEW c \in Conn, Steps(c)
  PROVE  GroupCapacity'
<1> DEFINE Fits(group) == /\ Len(group.clients) <= group.params.parties
                          /\ IsInjective(group.clients)
<1>0. GroupCapacity => \A g \in DOMAIN groups : Fits(groups[g])
  BY DEF GroupCapacity
<1>1. SUFFICES \A g \in DOMAIN groups' : Fits(groups'[g])
  BY DEF GroupCapacity
<1>2. \A g \in DOMAIN groups :
        /\ groups[g] \in Group
        /\ groups[g].clients \in Seq(Conn)
        /\ groups[g].params.parties \in Nat
  BY ParamsAssumption DEF TypeOK, Group
<1>3. CASE groups' = groups
  BY <1>0, <1>3
<1>4. CASE ClientDisconnected(c)
  <2>1. ASSUME NEW g \in DOMAIN groups
        PROVE  Fits(groups'[g])
    <3>1. groups'[g] = [groups[g] EXCEPT !.clients = Leave(groups[g].clients, c)]
      BY <1>4 DEF ClientDisconnected
    <3>2. /\ groups'[g].clients = Leave(groups[g].clients, c)
          /\ groups'[g].params = groups[g].params
      BY <1>2, <3>1 DEF Group
    <3>3. /\ Leave(groups[g].clients, c) \in Seq(Conn)
          /\ Len(Leave(groups[g].clients, c)) <= Len(groups[g].clients)
          /\ IsInjective(Leave(groups[g].clients, c))
      BY <1>0, <1>2, LeaveProperties
    <3>4. QED
      BY <1>0, <1>2, <3>2, <3>3
  <2>2. QED
    BY <1>4, <2>1 DEF ClientDisconnected
<1>5. CASE PruneGroups(c)
  BY <1>0, <1>5 DEF PruneGroups
<1>6. ASSUME NEW g \in GroupId, NEW p \in Params, GroupCreate(c, g, p)
      PROVE  \A h \in DOMAIN groups' : Fits(groups'[h])
  <2>1. p.parties \in Nat /\ p.parties > 1
    BY <1>6, ParamsAssumption DEF GroupCreate, ValidParameters
  <2>2. Fits(NewGroup(c, p))
    BY <2>1 DEF NewGroup, IsInjective
  <2>3. QED
    BY <1>0, <1>6, <2>2 DEF GroupCreate, Insert
<1>7. ASSUME NEW g \in GroupId, GroupJoin(c, g)
      PROVE  \A h \in DOMAIN groups' : Fits(groups'[h])
  <2>1. CASE Contains(groups[g].clients, c)
    BY <1>0, <1>7, <2>1 DEF GroupJoin
  <2>2. CASE ~ Contains(groups[g].clients, c)
    <3>1. g \in DOMAIN groups /\ Len(groups[g].clients) # groups[g].params.parties
      BY <1>7 DEF GroupJoin, Full
    <3>2. c \notin ToSet(groups[g].clients)
      BY <1>2, <2>2, <3>1 DEF Contains, ToSet
    <3>3. IsInjective(Append(groups[g].clients, c))
      BY <1>0, <1>2, <3>1, <3>2, AppendInjectiveList
    <3>4. Len(Append(groups[g].clients, c)) <= groups[g].params.parties
      BY <1>0, <1>2, <3>1
    <3>5. groups' = [groups EXCEPT ![g] = [groups[g] EXCEPT !.clients = Append(groups[g].clients, c)]]
      BY <1>7, <2>2 DEF GroupJoin
    <3>6. /\ groups'[g].clients = Append(groups[g].clients, c)
          /\ groups'[g].params = groups[g].params
      BY <1>2, <3>1, <3>5 DEF Group
    <3>7. QED
      BY <1>0, <3>3, <3>4, <3>5, <3>6
  <2>3. QED
    BY <2>1, <2>2
<1>8. QED
  BY <1>3, <1>4, <1>5, <1>6, <1>7, GroupSteps, HandlersKeepGroups
     DEF ClientConnected, Respond, Sends

\* A group never has more clients than parties, nor one client twice: the test
\* for exactly `parties` clients in GROUP_JOIN is enough, for any group size.
THEOREM CapacityHolds == Spec => []GroupCapacity
<1>1. Init => GroupCapacity
  BY DEF Init, GroupCapacity
<1>2. TypeOK /\ GroupCapacity /\ [Next]_vars => GroupCapacity'
  <2>1. CASE Next
    BY <2>1, NextSteps, NextGroupCapacity
  <2>2. CASE UNCHANGED vars
    BY <2>2 DEF vars, GroupCapacity
  <2>3. QED
    BY <2>1, <2>2
<1>3. QED
  BY <1>1, <1>2, TypeCorrect, PTL DEF Spec

LEMMA NextMembersConnected ==
  ASSUME TypeOK, GroupCapacity, MembersConnected, NEW c \in Conn, Steps(c)
  PROVE  MembersConnected'
<1>1. \A g \in DOMAIN groups :
        groups[g] \in Group /\ groups[g].clients \in Seq(Conn) /\ IsInjective(groups[g].clients)
  BY DEF TypeOK, Group, GroupCapacity
<1>2. CASE ClientConnected(c)
  BY <1>2 DEF ClientConnected, MembersConnected, TypeOK
<1>3. CASE ClientDisconnected(c)
  <2>1. ASSUME NEW g \in DOMAIN groups
        PROVE  ToSet(groups'[g].clients) \subseteq clients'
    <3>1. groups'[g].clients = Leave(groups[g].clients, c)
      BY <1>1, <1>3 DEF ClientDisconnected, Group
    <3>2. /\ ToSet(groups'[g].clients) \subseteq ToSet(groups[g].clients)
          /\ c \notin ToSet(groups'[g].clients)
      BY <1>1, <3>1, LeaveProperties
    <3>3. QED
      BY <1>3, <3>2 DEF ClientDisconnected, MembersConnected
  <2>2. \A d \in Conn : d \in clients' <=> phase'[d] \in {"idle", "respond", "notify", "blocked"}
    BY <1>3 DEF ClientDisconnected, MembersConnected, TypeOK
  <2>3. QED
    BY <1>3, <2>1, <2>2 DEF ClientDisconnected, MembersConnected
<1>4. CASE PruneGroups(c)
  BY <1>4 DEF PruneGroups, MembersConnected, TypeOK
<1>5. CASE Respond(c)
  BY <1>5 DEF Respond, MembersConnected, TypeOK
<1>6. CASE Sends(c)
  BY <1>6 DEF Sends, MembersConnected, TypeOK
<1>7. CASE HandlesSession(c)
  BY <1>7, HandlersKeepGroups DEF MembersConnected, TypeOK
<1>8. ASSUME NEW g \in GroupId, NEW p \in Params, GroupCreate(c, g, p)
      PROVE  MembersConnected'
  <2>1. c \in clients /\ clients' = clients
    BY <1>8 DEF GroupCreate, Serve, MembersConnected
  <2>2. ToSet(NewGroup(c, p).clients) = {c}
    BY DEF NewGroup, ToSet
  <2>3. \A h \in DOMAIN groups' : ToSet(groups'[h].clients) \subseteq clients'
    BY <1>8, <2>1, <2>2 DEF GroupCreate, Insert, MembersConnected
  <2>4. QED
    BY <1>8, <2>1, <2>3 DEF GroupCreate, Serve, MembersConnected, TypeOK
<1>9. ASSUME NEW g \in GroupId, GroupJoin(c, g)
      PROVE  MembersConnected'
  <2>1. c \in clients /\ clients' = clients /\ g \in DOMAIN groups
    BY <1>9 DEF GroupJoin, Serve, MembersConnected
  <2>2. ToSet(Append(groups[g].clients, c)) = ToSet(groups[g].clients) \cup {c}
    BY <1>1, <2>1, AppendedSet
  <2>3. ToSet(groups'[g].clients) \subseteq clients
    <3>1. CASE Contains(groups[g].clients, c)
      BY <1>9, <2>1, <3>1 DEF GroupJoin, MembersConnected
    <3>2. CASE ~ Contains(groups[g].clients, c)
      <4>1. groups' = [groups EXCEPT ![g] =
                         [groups[g] EXCEPT !.clients = Append(groups[g].clients, c)]]
        BY <1>9, <3>2 DEF GroupJoin
      <4>2. groups'[g].clients = Append(groups[g].clients, c)
        BY <1>1, <2>1, <4>1 DEF Group
      <4>3. QED
        BY <2>1, <2>2, <4>2 DEF MembersConnected
    <3>3. QED
      BY <3>1, <3>2
  <2>4. /\ DOMAIN groups' = DOMAIN groups
        /\ \A h \in DOMAIN groups : h # g => groups'[h] = groups[h]
    BY <1>9 DEF GroupJoin
  <2>5. \A h \in DOMAIN groups' : ToSet(groups'[h].clients) \subseteq clients'
    BY <2>1, <2>3, <2>4 DEF MembersConnected
  <2>6. QED
    BY <1>9, <2>1, <2>5 DEF GroupJoin, Serve, MembersConnected, TypeOK
<1>10. QED
  BY <1>2, <1>3, <1>4, <1>5, <1>6, <1>7, <1>8, <1>9, GroupSteps

\* Every client of a group can be sent to, and a connection is in the state
\* exactly while its task takes requests.
THEOREM MembersHold == Spec => []MembersConnected
<1>1. Init => MembersConnected
  BY DEF Init, MembersConnected
<1>2. TypeOK /\ GroupCapacity /\ MembersConnected /\ [Next]_vars => MembersConnected'
  <2>1. CASE Next
    BY <2>1, NextSteps, NextMembersConnected
  <2>2. CASE UNCHANGED vars
    BY <2>2 DEF vars, MembersConnected
  <2>3. QED
    BY <2>1, <2>2
<1>3. QED
  BY <1>1, <1>2, TypeCorrect, CapacityHolds, PTL DEF Spec

-----------------------------------------------------------------------------
\* Sessions: the ready event

\* Identifiers in use were issued, so a new one has no notification and no
\* event; and a session is in a group that exists.
SessionInv ==
  /\ DOMAIN groups \cup DOMAIN sessions \subseteq issued
  /\ \A s \in DOMAIN sessions : sessions[s].group \in DOMAIN groups
  /\ \A c \in Conn : \A n \in notification[c] : n.session \in issued
  /\ \A x \in sent : x.session \in issued

\* A ready event still to be sent is for the parties of a session that has
\* enough of them: what makes ReadyWhenTold and AnnouncedOnce inductive.
PendingReady ==
  \A c \in Conn : \A n \in notification[c] :
    n.event \in ReadyEvent /\ n.session \in DOMAIN sessions =>
      /\ n.to = "session"
      /\ Len(sessions[n.session].party_signups) >= RequiredFor(n.session)

ReadyInv == SessionInv /\ PendingReady /\ ReadyWhenTold /\ AnnouncedOnce

\* A step after which every session is new or as before, with no new ready
\* event pending and none sent.
NothingAnnounced ==
  /\ \A s \in DOMAIN sessions' : s \in issued =>
       /\ s \in DOMAIN sessions
       /\ sessions'[s].party_signups = sessions[s].party_signups
       /\ RequiredFor(s)' = RequiredFor(s)
  /\ \A c \in Conn : \A n \in notification'[c] : n.event \in ReadyEvent => n \in notification[c]
  /\ sent' = sent /\ again' = again

LEMMA NothingAnnouncedKeeps ==
  ASSUME TypeOK, ReadyInv, NothingAnnounced
  PROVE  PendingReady' /\ ReadyWhenTold' /\ AnnouncedOnce'
<1>1. PendingReady'
  <2> SUFFICES ASSUME NEW c \in Conn, NEW n \in notification'[c], n.event \in ReadyEvent,
                      n.session \in DOMAIN sessions'
               PROVE  /\ n.to = "session"
                      /\ Len(sessions'[n.session].party_signups) >= RequiredFor(n.session)'
    BY DEF PendingReady
  <2>1. n \in notification[c] /\ n.session \in issued
    BY DEF NothingAnnounced, ReadyInv, SessionInv
  <2>2. n.session \in DOMAIN sessions
    BY <2>1 DEF NothingAnnounced
  <2>3. n.to = "session" /\ Len(sessions[n.session].party_signups) >= RequiredFor(n.session)
    BY <2>1, <2>2 DEF ReadyInv, PendingReady
  <2>4. QED
    BY <2>1, <2>3 DEF NothingAnnounced
<1>2. ReadyWhenTold'
  <2> SUFFICES ASSUME NEW x \in sent', x.event \in ReadyEvent, x.session \in DOMAIN sessions'
               PROVE  /\ x.conn \in SignedUp(x.session)'
                      /\ Len(sessions'[x.session].party_signups) >= RequiredFor(x.session)'
    BY DEF ReadyWhenTold
  <2>1. x \in sent /\ x.session \in issued
    BY DEF NothingAnnounced, ReadyInv, SessionInv
  <2>2. x.session \in DOMAIN sessions
    BY <2>1 DEF NothingAnnounced
  <2>3. /\ x.conn \in SignedUp(x.session)
        /\ Len(sessions[x.session].party_signups) >= RequiredFor(x.session)
    BY <2>1, <2>2 DEF ReadyInv, ReadyWhenTold
  <2>4. sessions'[x.session].party_signups = sessions[x.session].party_signups
    BY <2>1 DEF NothingAnnounced
  <2>5. QED
    BY <2>1, <2>3, <2>4 DEF NothingAnnounced, SignedUp
<1>3. AnnouncedOnce'
  <2> SUFFICES ASSUME NEW s \in DOMAIN sessions'
               PROVE  /\ \A c, d \in Announcing(s)' : c = d
                      /\ Announced(s)' => Announcing(s)' = {}
                      /\ \A x \in again' : x.session = s => SignedUpTwice(x.conn, s)'
    BY DEF AnnouncedOnce
  <2>1. Announcing(s)' \subseteq Announcing(s) /\ again' = again
    BY DEF Announcing, NothingAnnounced
  <2>2. Announced(s)' = Announced(s)
    BY DEF Announced, NothingAnnounced
  <2>3. CASE s \in issued
    <3>1. s \in DOMAIN sessions /\ sessions'[s].party_signups = sessions[s].party_signups
      BY <2>3 DEF NothingAnnounced
    <3>2. /\ \A c, d \in Announcing(s) : c = d
          /\ Announced(s) => Announcing(s) = {}
          /\ \A x \in again : x.session = s => SignedUpTwice(x.conn, s)
      BY <3>1 DEF ReadyInv, AnnouncedOnce
    <3>3. ASSUME NEW x \in again', x.session = s
          PROVE  SignedUpTwice(x.conn, s)'
      <4>1. SignedUpTwice(x.conn, s)
        BY <2>1, <3>2, <3>3
      <4>2. QED
        BY <2>1, <3>1, <4>1 DEF SignedUpTwice
    <3>4. QED
      BY <2>1, <2>2, <3>2, <3>3
  <2>4. CASE s \notin issued
    <3>1. Announcing(s)' = {}
      BY <2>1, <2>4 DEF Announcing, ReadyInv, SessionInv
    <3>2. \A x \in again' : x.session # s
      BY <2>1, <2>4 DEF TypeOK, ReadyInv, SessionInv
    <3>3. QED
      BY <3>1, <3>2
  <2>5. QED
    BY <2>3, <2>4
<1>4. QED
  BY <1>1, <1>2, <1>3

\* Groups keep their parameters as long as they exist.
LEMMA ParametersStay ==
  ASSUME TypeOK, SessionInv, NEW c \in Conn, Steps(c)
  PROVE  \A g \in DOMAIN groups \cap DOMAIN groups' : groups'[g].params = groups[g].params
<1>1. \A g \in DOMAIN groups : groups[g] \in Group
  BY DEF TypeOK
<1>2. CASE groups' = groups
  BY <1>2
<1>3. CASE ClientDisconnected(c)
  BY <1>1, <1>3 DEF ClientDisconnected, Group
<1>4. CASE PruneGroups(c)
  BY <1>4 DEF PruneGroups
<1>5. ASSUME NEW g \in GroupId, NEW p \in Params, GroupCreate(c, g, p)
      PROVE  \A h \in DOMAIN groups : groups'[h] = groups[h]
  BY <1>5 DEF GroupCreate, Insert, SessionInv
<1>6. ASSUME NEW g \in GroupId, GroupJoin(c, g)
      PROVE  \A h \in DOMAIN groups : groups'[h].params = groups[h].params
  BY <1>1, <1>6 DEF GroupJoin, Group
<1>7. QED
  BY <1>2, <1>3, <1>4, <1>5, <1>6, GroupSteps, HandlersKeepGroups
     DEF ClientConnected, Respond, Sends

\* Every request but a claim of a number, and every step of a task but the
\* notification, announces nothing.
Quiet(c) ==
  \/ ClientConnected(c) \/ ClientDisconnected(c) \/ PruneGroups(c) \/ Respond(c) \/ Refuse(c)
  \/ \E g \in GroupId, p \in Params : GroupCreate(c, g, p)
  \/ \E g \in GroupId : GroupJoin(c, g)
  \/ \E g \in GroupId, s \in SessionId, k \in SessionKind : SessionCreate(c, g, s, k)
  \/ \E s \in DOMAIN sessions :
       \/ \E i, n \in PartyIndex : SessionParticipant(c, s, i, n)
       \/ \E n \in PartyIndex : SessionFinish(c, s, n)
       \/ SessionBroadcast(c, s)
       \/ \E r \in PartyIndex : SessionPeerMessage(c, s, r)

\* The part of a session a quiet step never changes.
SameSession(s) ==
  /\ s \in DOMAIN sessions
  /\ sessions'[s].party_signups = sessions[s].party_signups
  /\ sessions'[s].group = sessions[s].group
  /\ sessions'[s].kind = sessions[s].kind

LEMMA QuietSessions ==
  ASSUME TypeOK, SessionInv, NEW c \in Conn, Quiet(c)
  PROVE  /\ \A s \in DOMAIN sessions' : s \in issued => SameSession(s)
         /\ \A d \in Conn : \A n \in notification'[d] :
              n.event \in ReadyEvent => n \in notification[d]
         /\ sent' = sent /\ again' = again
<1>1. \A s \in DOMAIN sessions : sessions[s] \in Session
  BY DEF TypeOK
<1>2. CASE ClientConnected(c) \/ ClientDisconnected(c) \/ PruneGroups(c) \/ Respond(c)
  BY <1>2 DEF ClientConnected, ClientDisconnected, PruneGroups, Respond, SameSession
<1>3. ASSUME NEW notes \in SUBSET [to : {"group", "session", "relay"}, event : Event,
                                   group : GroupId, session : SessionId, conns : SUBSET Conn],
             Serve(c, notes), \A n \in notes : n.event \notin ReadyEvent
      PROVE  /\ \A d \in Conn : \A n \in notification'[d] :
                  n.event \in ReadyEvent => n \in notification[d]
             /\ sent' = sent /\ again' = again
  BY <1>3 DEF Serve, TypeOK
<1>4. CASE Refuse(c)
  BY <1>3, <1>4 DEF Refuse, SameSession
<1>5. CASE \E g \in GroupId, p \in Params : GroupCreate(c, g, p)
  BY <1>3, <1>5 DEF GroupCreate, SameSession
<1>6. CASE \E g \in GroupId : GroupJoin(c, g)
  BY <1>3, <1>6 DEF GroupJoin, SameSession
<1>7. ASSUME NEW g \in GroupId, NEW s \in SessionId, NEW k \in SessionKind,
             SessionCreate(c, g, s, k)
      PROVE  /\ \A x \in DOMAIN sessions' : x \in issued => SameSession(x)
             /\ \A d \in Conn : \A n \in notification'[d] :
                  n.event \in ReadyEvent => n \in notification[d]
             /\ sent' = sent /\ again' = again
  <2> DEFINE notes == IF k = "keygen" THEN {ToGroup(g, s, "sessionCreate", {c})} ELSE {}
  <2>1. notes \in SUBSET Notification
    BY NotesTyped
  <2>2. \A n \in notes : n.event \notin ReadyEvent
    BY DEF ToGroup, ReadyEvent
  <2>3. Serve(c, notes)
    BY <1>7 DEF SessionCreate
  <2> HIDE DEF notes
  <2>4. \A x \in DOMAIN sessions' : x \in issued => SameSession(x)
    BY <1>7 DEF SessionCreate, Insert, SameSession
  <2>5. QED
    BY <1>3, <2>1, <2>2, <2>3, <2>4 DEF Notification
<1>8. ASSUME NEW s \in DOMAIN sessions, NEW i \in PartyIndex, NEW n \in PartyIndex,
             SessionParticipant(c, s, i, n)
      PROVE  /\ \A x \in DOMAIN sessions' : SameSession(x)
             /\ Serve(c, {})
  BY <1>1, <1>8 DEF SessionParticipant, SameSession, Session
<1>9. ASSUME NEW s \in DOMAIN sessions, NEW n \in PartyIndex, SessionFinish(c, s, n)
      PROVE  /\ \A x \in DOMAIN sessions' : SameSession(x)
             /\ Serve(c, {}) \/ Serve(c, {ToSession(s, "sessionClosed", {})})
  BY <1>1, <1>9 DEF SessionFinish, SameSession, Session
<1>10. ASSUME NEW s \in DOMAIN sessions
       PROVE  \A d \in Conn :
                /\ \A e \in {"sessionClosed", "sessionMessage"}, f \in SUBSET Conn :
                     ToSession(s, e, f) \in Notification /\ ToSession(s, e, f).event = e
                /\ Relay(s, d) \in Notification /\ Relay(s, d).event = "sessionMessage"
  <2>1. {"sessionClosed", "sessionMessage"} \subseteq Event
    BY DEF Event
  <2>2. QED
    BY <2>1, NotesTyped DEF ToSession, Relay
<1>11. {"sessionClosed", "sessionMessage"} \cap ReadyEvent = {}
  BY DEF ReadyEvent
<1>12. ASSUME NEW s \in DOMAIN sessions, SessionBroadcast(c, s)
       PROVE  /\ \A x \in DOMAIN sessions' : SameSession(x)
              /\ Serve(c, {ToSession(s, "sessionMessage", {c})})
  BY <1>12 DEF SessionBroadcast, SameSession
<1>13. ASSUME NEW s \in DOMAIN sessions, NEW r \in PartyIndex, SessionPeerMessage(c, s, r)
       PROVE  /\ \A x \in DOMAIN sessions' : SameSession(x)
              /\ \E d \in Conn : Serve(c, {Relay(s, d)})
  BY <1>13, SignupTyped DEF SessionPeerMessage, SameSession
<1>14. ASSUME NEW s \in DOMAIN sessions,
              \/ \E i, n \in PartyIndex : SessionParticipant(c, s, i, n)
              \/ \E n \in PartyIndex : SessionFinish(c, s, n)
              \/ SessionBroadcast(c, s)
              \/ \E r \in PartyIndex : SessionPeerMessage(c, s, r)
       PROVE  /\ \A x \in DOMAIN sessions' : SameSession(x)
              /\ \A d \in Conn : \A n \in notification'[d] :
                   n.event \in ReadyEvent => n \in notification[d]
              /\ sent' = sent /\ again' = again
  <2>1. \A x \in DOMAIN sessions' : SameSession(x)
    BY <1>8, <1>9, <1>12, <1>13, <1>14
  <2>2. PICK notes : /\ Serve(c, notes)
                     /\ \/ notes = {}
                        \/ notes = {ToSession(s, "sessionClosed", {})}
                        \/ notes = {ToSession(s, "sessionMessage", {c})}
                        \/ \E d \in Conn : notes = {Relay(s, d)}
    BY <1>8, <1>9, <1>12, <1>13, <1>14
  <2>3. notes \in SUBSET Notification /\ \A n \in notes : n.event \notin ReadyEvent
    BY <1>10, <1>11, <2>2
  <2>4. QED
    BY <1>3, <2>1, <2>2, <2>3 DEF Notification
<1>15. QED
  BY <1>2, <1>4, <1>5, <1>6, <1>7, <1>14 DEF Quiet

\* Claiming a number: one signup more, and the ready event when it is the last.
Claimed(c, s, num, event, by) ==
  LET signups == Append(sessions[s].party_signups, [num |-> num, conn |-> c, by |-> by])
  IN /\ sessions' = [sessions EXCEPT ![s].party_signups = signups]
     /\ Serve(c, Announce(s, sessions[s].kind, event, signups))
     /\ UNCHANGED <<groups, issued>>

LEMMA ClaimSteps ==
  ASSUME TypeOK, NEW c \in Conn, NEW s \in DOMAIN sessions,
         \/ SessionSignup(c, s, sessions[s].kind)
         \/ \E n \in 0 .. MaxParties : SessionLoad(c, s, n, sessions[s].kind)
  PROVE  \E num \in Nat, event \in ReadyEvent, by \in ClaimMethod :
           Claimed(c, s, num, event, by)
<1>1. sessions[s].party_signups \in Seq(Signup)
  BY DEF TypeOK, Session
<1>2. CASE SessionSignup(c, s, sessions[s].kind)
  <2>1. NextNumber(sessions[s].party_signups) \in Nat
    BY <1>1, NextNumberTyped
  <2>2. Claimed(c, s, NextNumber(sessions[s].party_signups), "sessionSignup", "signup")
    BY <1>2 DEF SessionSignup, Claimed
  <2>3. "sessionSignup" \in ReadyEvent /\ "signup" \in ClaimMethod
    BY DEF ReadyEvent, ClaimMethod
  <2>4. QED
    BY <2>1, <2>2, <2>3
<1>3. ASSUME NEW n \in 0 .. MaxParties, SessionLoad(c, s, n, sessions[s].kind)
      PROVE  \E num \in Nat, event \in ReadyEvent, by \in ClaimMethod :
               Claimed(c, s, num, event, by)
  <2>1. n \in Nat
    BY ParamsAssumption
  <2>2. Claimed(c, s, n, "sessionLoad", "load")
    BY <1>3 DEF SessionLoad, Claimed
  <2>3. "sessionLoad" \in ReadyEvent /\ "load" \in ClaimMethod
    BY DEF ReadyEvent, ClaimMethod
  <2>4. QED
    BY <2>1, <2>2, <2>3
<1>4. QED
  BY <1>2, <1>3

\* The steps again, told apart by what they announce.
LEMMA ReadySteps ==
  ASSUME TypeOK, NEW c \in Conn, Steps(c)
  PROVE  \/ Quiet(c)
         \/ Sends(c)
         \/ \E s \in DOMAIN sessions, num \in Nat, event \in ReadyEvent, by \in ClaimMethod :
              Claimed(c, s, num, event, by)
BY ClaimSteps DEF Steps, Quiet

LEMMA ClaimEffect ==
  ASSUME TypeOK, NEW c \in Conn, NEW s \in DOMAIN sessions, NEW num \in Nat,
         NEW event \in ReadyEvent, NEW by \in ClaimMethod, Claimed(c, s, num, event, by)
  PROVE  LET old == sessions[s].party_signups
             new == Append(old, [num |-> num, conn |-> c, by |-> by])
         IN /\ sessions[s] \in Session
            /\ Len(new) = Len(old) + 1
            /\ ToSet(old) \subseteq ToSet(new)
            /\ \A i \in DOMAIN old : i \in DOMAIN new /\ new[i] = old[i]
            /\ DOMAIN sessions' = DOMAIN sessions
            /\ sessions'[s].party_signups = new
            /\ \A x \in DOMAIN sessions : x # s => sessions'[x] = sessions[x]
            /\ \A x \in DOMAIN sessions :
                 /\ sessions'[x].group = sessions[x].group
                 /\ sessions'[x].kind = sessions[x].kind
                 /\ RequiredFor(x)' = RequiredFor(x)
            /\ sent' = sent /\ again' = again
            /\ groups' = groups
            /\ issued' = issued
<1> DEFINE old == sessions[s].party_signups
           new == Append(old, [num |-> num, conn |-> c, by |-> by])
<1>1. sessions[s] \in Session
  BY DEF TypeOK
<1>2. old \in Seq(Signup) /\ [num |-> num, conn |-> c, by |-> by] \in Signup
  BY <1>1 DEF Session, Signup
<1>3. Len(new) = Len(old) + 1 /\ ToSet(old) \subseteq ToSet(new)
  BY <1>2, AppendedSet
<1>3a. \A i \in DOMAIN old : i \in DOMAIN new /\ new[i] = old[i]
  BY <1>2
<1> HIDE DEF new
<1>4. /\ sessions' = [sessions EXCEPT ![s] = [sessions[s] EXCEPT !.party_signups = new]]
      /\ groups' = groups /\ issued' = issued
  BY DEF Claimed, new
<1>5. sessions'[s].party_signups = new
  BY <1>1, <1>4 DEF Session
<1>6. \A x \in DOMAIN sessions : /\ sessions'[x].group = sessions[x].group
                                 /\ sessions'[x].kind = sessions[x].kind
  BY <1>1, <1>4 DEF Session
<1>7. \A x \in DOMAIN sessions : RequiredFor(x)' = RequiredFor(x)
  BY <1>4, <1>6 DEF RequiredFor, Required, ParamsOf
<1>8. sent' = sent /\ again' = again
  BY DEF Claimed, Serve
<1>9. QED
  BY <1>1, <1>3, <1>3a, <1>4, <1>5, <1>6, <1>7, <1>8 DEF new

\* What a claim leaves to notify: the session is ready when the signups are as
\* many as it requires.
LEMMA ClaimNotes ==
  ASSUME NEW c \in Conn, NEW s \in DOMAIN sessions, NEW num \in Nat,
         NEW event \in ReadyEvent, NEW by \in ClaimMethod, Claimed(c, s, num, event, by)
  PROVE  LET new == Append(sessions[s].party_signups, [num |-> num, conn |-> c, by |-> by])
         IN notification' = [notification EXCEPT ![c] =
              IF Len(new) = RequiredFor(s) THEN {ToSession(s, event, {})} ELSE {}]
BY DEF Claimed, Serve, Announce, Threshold, RequiredFor

LEMMA NextSessionInv ==
  ASSUME TypeOK, SessionInv, NEW c \in Conn, Steps(c)
  PROVE  SessionInv'
<1>1. /\ DOMAIN groups \subseteq issued /\ DOMAIN sessions \subseteq issued
      /\ \A s \in DOMAIN sessions : sessions[s].group \in DOMAIN groups
      /\ \A d \in Conn : \A n \in notification[d] : n.session \in issued
      /\ \A x \in sent : x.session \in issued
      /\ notification \in [Conn -> SUBSET Notification]
  BY DEF SessionInv, TypeOK
<1>2. CASE ClientConnected(c) \/ ClientDisconnected(c) \/ Respond(c)
  BY <1>1, <1>2 DEF ClientConnected, ClientDisconnected, Respond, SessionInv
<1>3. CASE PruneGroups(c)
  BY <1>1, <1>3 DEF PruneGroups, SessionInv
<1>4. CASE Sends(c)
  <2>1. PICK n \in notification[c] :
          \A x \in sent' \ sent : \E e \in Entries(n) : x = Pushed(n, e[2])
    BY <1>4, SendsEffect
  <2>2. \A x \in sent' : x.session \in issued
    BY <1>1, <2>1 DEF Pushed
  <2>3. \A d \in Conn : notification'[d] \subseteq notification[d]
    BY <1>1, <1>4 DEF Sends
  <2>4. /\ groups' = groups /\ sessions' = sessions /\ issued' = issued
    BY <1>4 DEF Sends
  <2>5. QED
    BY <1>1, <2>2, <2>3, <2>4 DEF SessionInv
<1>5. CASE Refuse(c)
  BY <1>1, <1>5 DEF Refuse, Serve, SessionInv
<1>6. CASE \E g \in GroupId, p \in Params : GroupCreate(c, g, p)
  BY <1>1, <1>6 DEF GroupCreate, Serve, Insert, SessionInv
<1>7. CASE \E g \in GroupId : GroupJoin(c, g)
  BY <1>1, <1>7 DEF GroupJoin, Serve, SessionInv
<1>8. ASSUME NEW g \in GroupId, NEW s \in SessionId, NEW k \in SessionKind,
             SessionCreate(c, g, s, k)
      PROVE  SessionInv'
  <2>1. \A d \in Conn : \A n \in notification'[d] : n.session \in issued'
    BY <1>1, <1>8 DEF SessionCreate, Serve, ToGroup
  <2>2. NewSession(g, k).group = g
    BY DEF NewSession
  <2>3. g \in DOMAIN groups
    BY <1>8 DEF SessionCreate, Member
  <2>4. QED
    BY <1>1, <1>8, <2>1, <2>2, <2>3 DEF SessionCreate, Serve, Insert, SessionInv
<1>9. ASSUME NEW s \in DOMAIN sessions, NEW num \in Nat, NEW event \in ReadyEvent,
             NEW by \in ClaimMethod, Claimed(c, s, num, event, by)
      PROVE  SessionInv'
  <2> DEFINE new == Append(sessions[s].party_signups, [num |-> num, conn |-> c, by |-> by])
             notes == IF Len(new) = RequiredFor(s)
                      THEN {ToSession(s, event, {})} ELSE {}
  <2>1. notification' = [notification EXCEPT ![c] = notes]
    BY <1>9, ClaimNotes
  <2>1a. /\ issued' = issued /\ groups' = groups /\ sent' = sent
         /\ DOMAIN sessions' = DOMAIN sessions
         /\ \A x \in DOMAIN sessions : sessions'[x].group = sessions[x].group
    BY <1>9, ClaimEffect
  <2>2. \A n \in notes : n.session = s
    BY DEF ToSession
  <2> HIDE DEF new, notes
  <2>3. \A d \in Conn : \A n \in notification'[d] : n.session \in issued
    BY <1>1, <2>1, <2>2
  <2>4. QED
    BY <1>1, <2>1a, <2>3 DEF SessionInv
<1>10. ASSUME NEW s \in DOMAIN sessions,
              \/ \E i, n \in PartyIndex : SessionParticipant(c, s, i, n)
              \/ \E n \in PartyIndex : SessionFinish(c, s, n)
              \/ SessionBroadcast(c, s)
              \/ \E r \in PartyIndex : SessionPeerMessage(c, s, r)
       PROVE  SessionInv'
  <2>1. Quiet(c)
    BY <1>10 DEF Quiet
  <2>2. /\ DOMAIN sessions' = DOMAIN sessions /\ groups' = groups /\ issued' = issued
        /\ \E notes : Serve(c, notes) /\ \A n \in notes : n.session = s
    <3>1. ASSUME NEW i \in PartyIndex, NEW n \in PartyIndex, SessionParticipant(c, s, i, n)
          PROVE  /\ DOMAIN sessions' = DOMAIN sessions /\ groups' = groups /\ issued' = issued
                 /\ Serve(c, {})
      BY <3>1 DEF SessionParticipant
    <3>2. ASSUME NEW n \in PartyIndex, SessionFinish(c, s, n)
          PROVE  /\ DOMAIN sessions' = DOMAIN sessions /\ groups' = groups /\ issued' = issued
                 /\ Serve(c, {}) \/ Serve(c, {ToSession(s, "sessionClosed", {})})
      BY <3>2 DEF SessionFinish
    <3>3. ASSUME SessionBroadcast(c, s)
          PROVE  /\ sessions' = sessions /\ groups' = groups /\ issued' = issued
                 /\ Serve(c, {ToSession(s, "sessionMessage", {c})})
      BY <3>3 DEF SessionBroadcast
    <3>4. ASSUME NEW r \in PartyIndex, SessionPeerMessage(c, s, r)
          PROVE  /\ sessions' = sessions /\ groups' = groups /\ issued' = issued
                 /\ \E d : Serve(c, {Relay(s, d)})
      BY <3>4 DEF SessionPeerMessage
    <3>5. /\ \A e, f : ToSession(s, e, f).session = s
          /\ \A d : Relay(s, d).session = s
      BY DEF ToSession, Relay
    <3>6. CASE \E i, n \in PartyIndex : SessionParticipant(c, s, i, n)
      BY <3>1, <3>6
    <3>7. CASE \E n \in PartyIndex : SessionFinish(c, s, n)
      BY <3>2, <3>5, <3>7
    <3>8. CASE SessionBroadcast(c, s)
      BY <3>3, <3>5, <3>8
    <3>9. CASE \E r \in PartyIndex : SessionPeerMessage(c, s, r)
      <4>1. PICK d : Serve(c, {Relay(s, d)})
        BY <3>4, <3>9
      <4>2. \A n \in {Relay(s, d)} : n.session = s
        BY <3>5
      <4>3. QED
        BY <3>4, <3>9, <4>1, <4>2
    <3>10. QED
      BY <1>10, <3>6, <3>7, <3>8, <3>9
  <2>3. /\ sent' = sent
        /\ \A d \in Conn : d # c => notification'[d] = notification[d]
        /\ \A n \in notification'[c] : n.session = s
    BY <1>1, <2>2 DEF Serve
  <2>4. \A x \in DOMAIN sessions : sessions'[x].group = sessions[x].group
    BY <1>1, <2>1, <2>2, QuietSessions DEF SameSession
  <2>5. \A d \in Conn : \A n \in notification'[d] : n.session \in issued
    BY <1>1, <2>3
  <2>6. QED
    BY <1>1, <2>2, <2>3, <2>4, <2>5 DEF SessionInv
<1>11. QED
  BY <1>2, <1>3, <1>4, <1>5, <1>6, <1>7, <1>8, <1>9, <1>10, ClaimSteps DEF Steps

LEMMA QuietReady ==
  ASSUME TypeOK, ReadyInv, SessionInv', NEW c \in Conn, Steps(c), Quiet(c)
  PROVE  PendingReady' /\ ReadyWhenTold' /\ AnnouncedOnce'
<1>1. SessionInv
  BY DEF ReadyInv
<1>2. /\ \A s \in DOMAIN sessions' : s \in issued => SameSession(s)
      /\ \A d \in Conn : \A n \in notification'[d] :
           n.event \in ReadyEvent => n \in notification[d]
      /\ sent' = sent /\ again' = again
  BY <1>1, QuietSessions
<1>3. ASSUME NEW s \in DOMAIN sessions', s \in issued
      PROVE  RequiredFor(s)' = RequiredFor(s)
  <2>1. SameSession(s)
    BY <1>2, <1>3
  <2>2. sessions[s].group \in DOMAIN groups \cap DOMAIN groups'
    BY <1>1, <2>1 DEF SessionInv, SameSession
  <2>3. groups'[sessions[s].group].params = groups[sessions[s].group].params
    BY <1>1, <2>2, ParametersStay
  <2>4. QED
    BY <2>1, <2>3 DEF RequiredFor, ParamsOf, SameSession
<1>4. NothingAnnounced
  BY <1>2, <1>3 DEF NothingAnnounced, SameSession
<1>5. QED
  BY <1>4, NothingAnnouncedKeeps

\* The announcement is sent: its recipients are the signups found now, of
\* which there are at least as many as when it was made.
LEMMA NotifyReady ==
  ASSUME TypeOK, ReadyInv, NEW c \in Conn, Sends(c)
  PROVE  PendingReady' /\ ReadyWhenTold' /\ AnnouncedOnce'
<1>1. /\ groups' = groups /\ sessions' = sessions
      /\ notification' = [notification EXCEPT ![c] = {}]
      /\ notification \in [Conn -> SUBSET Notification]
  BY DEF Sends, TypeOK
<1>2. PICK n \in notification[c] :
        /\ n \in Notification
        /\ \A x \in sent' \ sent : \E e \in Entries(n) : x = Pushed(n, e[2])
        /\ \A x \in again' \ again :
             /\ n.event \in ReadyEvent
             /\ \E d \in Entries(n) :
                  /\ x = Pushed(n, d[2])
                  /\ x \in sent \/ \E f \in Entries(n) : f # d /\ f[2] = d[2]
  BY SendsEffect
<1>3. \A d \in Conn : notification'[d] \subseteq notification[d]
  BY <1>1
<1>4. \A s \in DOMAIN sessions : /\ RequiredFor(s)' = RequiredFor(s)
                                 /\ SignedUp(s)' = SignedUp(s)
  BY <1>1 DEF RequiredFor, ParamsOf, SignedUp
<1>5. PendingReady'
  <2> SUFFICES ASSUME NEW d \in Conn, NEW m \in notification'[d], m.event \in ReadyEvent,
                      m.session \in DOMAIN sessions'
               PROVE  /\ m.to = "session"
                      /\ Len(sessions'[m.session].party_signups) >= RequiredFor(m.session)'
    BY DEF PendingReady
  <2>1. m \in notification[d] /\ m.session \in DOMAIN sessions
    BY <1>1, <1>3
  <2>2. m.to = "session" /\ Len(sessions[m.session].party_signups) >= RequiredFor(m.session)
    BY <2>1 DEF ReadyInv, PendingReady
  <2>3. QED
    BY <1>1, <1>4, <2>1, <2>2
<1>6. ReadyWhenTold'
  <2> SUFFICES ASSUME NEW x \in sent', x.event \in ReadyEvent, x.session \in DOMAIN sessions
               PROVE  /\ x.conn \in SignedUp(x.session)
                      /\ Len(sessions[x.session].party_signups) >= RequiredFor(x.session)
    BY <1>1, <1>4 DEF ReadyWhenTold
  <2>1. CASE x \in sent
    BY <2>1 DEF ReadyInv, ReadyWhenTold
  <2>2. CASE x \notin sent
    <3>1. PICK e \in Entries(n) : x = Pushed(n, e[2])
      BY <1>2, <2>2
    <3>2. x.session = n.session /\ x.event = n.event /\ x.conn = e[2]
      BY <3>1 DEF Pushed
    <3>3. n.to = "session" /\ Len(sessions[n.session].party_signups) >= RequiredFor(n.session)
      BY <3>2 DEF ReadyInv, PendingReady
    <3>4. e[2] \in SignedUp(n.session)
      BY <1>2, <3>3, EntriesNamed
    <3>5. QED
      BY <3>2, <3>3, <3>4
  <2>3. QED
    BY <2>1, <2>2
<1>7. AnnouncedOnce'
  <2> SUFFICES ASSUME NEW s \in DOMAIN sessions
               PROVE  /\ \A d, e \in Announcing(s)' : d = e
                      /\ Announced(s)' => Announcing(s)' = {}
                      /\ \A x \in again' : x.session = s => SignedUpTwice(x.conn, s)'
    BY <1>1 DEF AnnouncedOnce
  <2>1. Announcing(s)' \subseteq Announcing(s) \ {c}
    BY <1>1, <1>3 DEF Announcing
  <2>2. /\ \A d, e \in Announcing(s) : d = e
        /\ Announced(s) => Announcing(s) = {}
        /\ \A x \in again : x.session = s => SignedUpTwice(x.conn, s)
    BY DEF ReadyInv, AnnouncedOnce
  <2>3. ASSUME Announced(s)', ~Announced(s)
        PROVE  c \in Announcing(s)
    <3>1. PICK x \in sent' : x.session = s /\ x.event \in ReadyEvent
      BY <2>3 DEF Announced
    <3>2. x \notin sent
      BY <2>3, <3>1 DEF Announced
    <3>3. n.session = s /\ n.event \in ReadyEvent
      BY <1>2, <3>1, <3>2 DEF Pushed
    <3>4. QED
      BY <3>3 DEF Announcing
  <2>4. ASSUME NEW x \in again' \ again, x.session = s
        PROVE  SignedUpTwice(x.conn, s)
    <3>1. n.event \in ReadyEvent
      BY <1>2, <2>4
    <3>2. PICK d \in Entries(n) :
            /\ x = Pushed(n, d[2])
            /\ x \in sent \/ \E f \in Entries(n) : f # d /\ f[2] = d[2]
      BY <1>2, <2>4
    <3>3. x.session = n.session /\ x.event = n.event /\ x.conn = d[2]
      BY <3>2 DEF Pushed
    <3>4. c \in Announcing(s)
      BY <2>4, <3>1, <3>3 DEF Announcing
    <3>5. x \notin sent
      BY <2>2, <2>4, <3>1, <3>3, <3>4 DEF Announced
    <3>6. PICK f \in Entries(n) : f # d /\ f[2] = d[2]
      BY <3>2, <3>5
    <3>7. n.to = "session"
      BY <2>4, <3>1, <3>3 DEF ReadyInv, PendingReady
    <3>8. /\ d[1] \in DOMAIN sessions[s].party_signups
          /\ d = <<d[1], sessions[s].party_signups[d[1]].conn>>
          /\ d[2] = sessions[s].party_signups[d[1]].conn
      <4>1. /\ d[1] \in DOMAIN sessions[s].party_signups
            /\ d = <<d[1], sessions[s].party_signups[d[1]].conn>>
        BY <1>2, <2>4, <3>3, <3>7, EntriesNamed
      <4>2. QED
        BY <4>1
    <3>9. /\ f[1] \in DOMAIN sessions[s].party_signups
          /\ f = <<f[1], sessions[s].party_signups[f[1]].conn>>
          /\ f[2] = sessions[s].party_signups[f[1]].conn
      <4>1. /\ f[1] \in DOMAIN sessions[s].party_signups
            /\ f = <<f[1], sessions[s].party_signups[f[1]].conn>>
        BY <1>2, <2>4, <3>3, <3>7, EntriesNamed
      <4>2. QED
        BY <4>1
    <3>10. f[1] # d[1]
      BY <3>6, <3>8, <3>9
    <3>11. QED
      BY <3>3, <3>6, <3>8, <3>9, <3>10 DEF SignedUpTwice
  <2>5. ASSUME NEW x \in again', x.session = s
        PROVE  SignedUpTwice(x.conn, s)'
    <3>1. SignedUpTwice(x.conn, s)
      BY <2>2, <2>4, <2>5
    <3>2. QED
      BY <1>1, <3>1 DEF SignedUpTwice
  <2>6. QED
    BY <2>1, <2>2, <2>3, <2>5
<1>8. QED
  BY <1>5, <1>6, <1>7

\* A claim that reaches the number asked for is the first to do so: there were
\* fewer signups before it, so nothing was pending and nothing had been sent.
LEMMA ClaimReady ==
  ASSUME TypeOK, ReadyInv, NEW c \in Conn, NEW s \in DOMAIN sessions, NEW num \in Nat,
         NEW event \in ReadyEvent, NEW by \in ClaimMethod, Claimed(c, s, num, event, by)
  PROVE  PendingReady' /\ ReadyWhenTold' /\ AnnouncedOnce'
<1> DEFINE old == sessions[s].party_signups
           new == Append(old, [num |-> num, conn |-> c, by |-> by])
           notes == IF Len(new) = RequiredFor(s) THEN {ToSession(s, event, {})} ELSE {}
<1>0. old \in Seq(Signup)
  BY DEF TypeOK, Session
<1>1. /\ Len(old) \in Nat
      /\ Len(new) = Len(old) + 1
      /\ ToSet(old) \subseteq ToSet(new)
      /\ DOMAIN sessions' = DOMAIN sessions
      /\ sessions'[s].party_signups = new
      /\ \A x \in DOMAIN sessions : x # s => sessions'[x] = sessions[x]
      /\ \A x \in DOMAIN sessions : RequiredFor(x)' = RequiredFor(x)
      /\ notification' = [notification EXCEPT ![c] = notes]
      /\ sent' = sent /\ again' = again
      /\ \A i \in DOMAIN old : i \in DOMAIN new /\ new[i] = old[i]
  <2>1. Len(old) \in Nat
    BY <1>0
  <2>2. /\ Len(new) = Len(old) + 1
        /\ ToSet(old) \subseteq ToSet(new)
        /\ \A i \in DOMAIN old : i \in DOMAIN new /\ new[i] = old[i]
    <3> DEFINE x == [num |-> num, conn |-> c, by |-> by]
    <3>1. x \in Signup
      BY DEF Signup
    <3> HIDE DEF old, x
    <3>2. /\ Len(Append(old, x)) = Len(old) + 1
          /\ ToSet(old) \subseteq ToSet(Append(old, x))
      BY <1>0, <3>1, AppendedSet
    <3>3. \A i \in DOMAIN old : i \in DOMAIN Append(old, x) /\ Append(old, x)[i] = old[i]
      BY <1>0, <3>1
    <3>4. QED
      BY <3>2, <3>3 DEF x
  <2>3. /\ DOMAIN sessions' = DOMAIN sessions
        /\ sessions'[s].party_signups = new
        /\ \A x \in DOMAIN sessions : x # s => sessions'[x] = sessions[x]
    BY ClaimEffect
  <2>4. \A x \in DOMAIN sessions : RequiredFor(x)' = RequiredFor(x)
    BY ClaimEffect
  <2>5. sent' = sent /\ again' = again
    BY ClaimEffect
  <2>6. notification' = [notification EXCEPT ![c] = notes]
    BY ClaimNotes
  <2>7. QED
    BY <2>1, <2>2, <2>3, <2>4, <2>5, <2>6
<1>2. \A x \in DOMAIN sessions : RequiredFor(x) \in Nat
  <2>1. \A x \in DOMAIN sessions : groups[sessions[x].group] \in Group
    BY DEF TypeOK, ReadyInv, SessionInv
  <2>2. \A p \in Params : p.parties \in Nat /\ p.threshold + 1 \in Nat
    BY ParamsAssumption
  <2>3. QED
    BY <2>1, <2>2 DEF RequiredFor, Required, ParamsOf, Group
<1>3. \A x \in DOMAIN sessions :
        /\ Len(sessions[x].party_signups) \in Nat
        /\ Len(sessions'[x].party_signups) \in Nat
        /\ Len(sessions'[x].party_signups) >= Len(sessions[x].party_signups)
        /\ SignedUp(x) \subseteq SignedUp(x)'
  <2>1. \A x \in DOMAIN sessions : sessions[x].party_signups \in Seq(Signup)
    BY DEF TypeOK, Session
  <2>2. SignedUp(s) \subseteq SignedUp(s)'
    BY <1>1 DEF SignedUp
  <2>3. \A x \in DOMAIN sessions : x # s => SignedUp(x)' = SignedUp(x)
    BY <1>1 DEF SignedUp
  <2> HIDE DEF new, old
  <2>4. Len(sessions'[s].party_signups) = Len(sessions[s].party_signups) + 1
    BY <1>1 DEF old
  <2>5. \A x \in DOMAIN sessions : Len(sessions[x].party_signups) \in Nat
    BY <2>1
  <2>6. QED
    BY <1>1, <2>2, <2>3, <2>4, <2>5
<1>4. \A n \in notes : /\ n.session = s /\ n.to = "session"
                       /\ Len(new) = RequiredFor(s)
  BY DEF ToSession
<1> HIDE DEF old, new, notes
<1>5. \A d \in Conn : \A n \in notification'[d] : n \in notification[d] \/ (d = c /\ n \in notes)
  BY <1>1 DEF TypeOK
<1>6. PendingReady'
  <2> SUFFICES ASSUME NEW d \in Conn, NEW n \in notification'[d], n.event \in ReadyEvent,
                      n.session \in DOMAIN sessions'
               PROVE  /\ n.to = "session"
                      /\ Len(sessions'[n.session].party_signups) >= RequiredFor(n.session)'
    BY DEF PendingReady
  <2>1. CASE n \in notification[d]
    <3>1. n.to = "session" /\ Len(sessions[n.session].party_signups) >= RequiredFor(n.session)
      BY <1>1, <2>1 DEF ReadyInv, PendingReady
    <3>2. QED
      BY <1>1, <1>2, <1>3, <3>1
  <2>2. CASE n \in notes
    BY <1>1, <1>2, <1>4, <2>2
  <2>3. QED
    BY <1>5, <2>1, <2>2
<1>7. ReadyWhenTold'
  <2> SUFFICES ASSUME NEW x \in sent, x.event \in ReadyEvent, x.session \in DOMAIN sessions
               PROVE  /\ x.conn \in SignedUp(x.session)'
                      /\ Len(sessions'[x.session].party_signups) >= RequiredFor(x.session)'
    BY <1>1 DEF ReadyWhenTold
  <2>1. /\ x.conn \in SignedUp(x.session)
        /\ Len(sessions[x.session].party_signups) >= RequiredFor(x.session)
    BY DEF ReadyInv, ReadyWhenTold
  <2>2. QED
    BY <1>1, <1>2, <1>3, <2>1
<1>8. AnnouncedOnce'
  <2> SUFFICES ASSUME NEW x \in DOMAIN sessions
               PROVE  /\ \A d, e \in Announcing(x)' : d = e
                      /\ Announced(x)' => Announcing(x)' = {}
                      /\ \A y \in again' : y.session = x => SignedUpTwice(y.conn, x)'
    BY <1>1 DEF AnnouncedOnce
  <2>1. /\ \A d, e \in Announcing(x) : d = e
        /\ Announced(x) => Announcing(x) = {}
        /\ \A y \in again : y.session = x => SignedUpTwice(y.conn, x)
    BY DEF ReadyInv, AnnouncedOnce
  <2>2. Announced(x)' = Announced(x)
    BY <1>1 DEF Announced
  <2>3. ASSUME x = s, Len(new) = RequiredFor(s)
        PROVE  /\ \A d, e \in Announcing(x)' : d = e
               /\ Announced(x)' => Announcing(x)' = {}
    <3>1. ~(Len(old) >= RequiredFor(s))
      BY <1>1, <2>3
    <3>2. Announcing(s) = {}
      BY <3>1 DEF Announcing, ReadyInv, PendingReady, old
    <3>3. ~Announced(s)
      BY <3>1 DEF Announced, ReadyInv, ReadyWhenTold, old
    <3>4. Announcing(s)' \subseteq {c}
      BY <1>5, <3>2 DEF Announcing
    <3>5. QED
      BY <2>2, <2>3, <3>3, <3>4
  <2>4. ASSUME ~(x = s /\ Len(new) = RequiredFor(s))
        PROVE  /\ \A d, e \in Announcing(x)' : d = e
               /\ Announced(x)' => Announcing(x)' = {}
    <3>1. Announcing(x)' \subseteq Announcing(x)
      BY <1>4, <1>5, <2>4 DEF Announcing
    <3>2. QED
      BY <2>1, <2>2, <3>1
  <2>5. ASSUME NEW y \in again', y.session = x
        PROVE  SignedUpTwice(y.conn, x)'
    <3>1. SignedUpTwice(y.conn, x)
      BY <1>1, <2>1, <2>5
    <3>2. CASE x = s
      <4>1. PICK i \in DOMAIN old, j \in DOMAIN old :
               i # j /\ old[i].conn = y.conn /\ old[j].conn = y.conn
        BY <3>1, <3>2 DEF SignedUpTwice, old
      <4>2. /\ i \in DOMAIN new /\ new[i].conn = y.conn
            /\ j \in DOMAIN new /\ new[j].conn = y.conn
        BY <1>1, <4>1
      <4>3. QED
        BY <1>1, <3>2, <4>1, <4>2 DEF SignedUpTwice
    <3>3. CASE x # s
      BY <1>1, <3>1, <3>3 DEF SignedUpTwice
    <3>4. QED
      BY <3>2, <3>3
  <2>6. QED
    BY <2>3, <2>4, <2>5
<1>9. QED
  BY <1>6, <1>7, <1>8

\* The inductive invariant behind both properties of the ready event.
THEOREM ReadyInvHolds == Spec => []ReadyInv
<1>1. Init => ReadyInv
  BY DEF Init, ReadyInv, SessionInv, PendingReady, ReadyWhenTold, AnnouncedOnce, Announcing,
         Announced
<1>2. TypeOK /\ ReadyInv /\ [Next]_vars => ReadyInv'
  <2>1. ASSUME TypeOK, ReadyInv, NEW c \in Conn, Steps(c)
        PROVE  ReadyInv'
    <3>1. SessionInv'
      BY <2>1, NextSessionInv DEF ReadyInv
    <3>2. PendingReady' /\ ReadyWhenTold' /\ AnnouncedOnce'
      BY <2>1, <3>1, ReadySteps, QuietReady, NotifyReady, ClaimReady
    <3>3. QED
      BY <3>1, <3>2 DEF ReadyInv
  <2>2. CASE Next
    BY <2>1, <2>2, NextSteps
  <2>3. CASE UNCHANGED vars
    BY <2>3 DEF vars, ReadyInv, SessionInv, PendingReady, ReadyWhenTold, AnnouncedOnce,
                Announcing, Announced, SignedUp, SignedUpTwice, RequiredFor, ParamsOf
  <2>4. QED
    BY <2>2, <2>3
<1>3. QED
  BY <1>1, <1>2, TypeCorrect, PTL DEF Spec

\* Whoever is told that a session is ready is one of its parties, and the
\* session has the signups its kind asks for.
THEOREM ReadyHolds == Spec => []ReadyWhenTold
<1>1. ReadyInv => ReadyWhenTold
  BY DEF ReadyInv
<1>2. QED
  BY <1>1, ReadyInvHolds, PTL

\* A session is announced ready at most once.
THEOREM OnceHolds == Spec => []AnnouncedOnce
<1>1. ReadyInv => AnnouncedOnce
  BY DEF ReadyInv
<1>2. QED
  BY <1>1, ReadyInvHolds, PTL

-----------------------------------------------------------------------------
\* Party numbers

\* The signups up to the first load are numbered by their places, and every
\* load adds a number in range that was not there.
Numbered(signups, parties) ==
  \A j \in DOMAIN signups :
    \/ /\ signups[j].by = "signup"
       /\ signups[j].num = j
       /\ \A i \in 1 .. j - 1 : signups[i].num = i
    \/ /\ signups[j].by = "signup"
       /\ \E k \in 1 .. j - 1 : signups[k].by = "load"
    \/ /\ signups[j].by = "load"
       /\ signups[j].num \in 1 .. parties
       /\ \A i \in 1 .. j - 1 : signups[i].num # signups[j].num

NumberInv ==
  \A s \in DOMAIN sessions : Numbered(sessions[s].party_signups, ParamsOf(s).parties)

LEMMA NumberInvUnique == ASSUME TypeOK, NumberInv PROVE PartyNumbersUnique
<1> SUFFICES ASSUME NEW s \in DOMAIN sessions, NEW j \in DOMAIN sessions[s].party_signups
             PROVE  LET signups == sessions[s].party_signups
                    IN /\ signups[j].by = "load" => signups[j].num \in 1 .. ParamsOf(s).parties
                       /\ \A i \in 1 .. j - 1 :
                            signups[i].num = signups[j].num =>
                              /\ signups[j].by = "signup"
                              /\ \E k \in 1 .. j - 1 : signups[k].by = "load"
  BY DEF PartyNumbersUnique
<1>1. j \in Nat
  <2>1. sessions[s].party_signups \in Seq(Signup)
    BY DEF TypeOK, Session
  <2>2. QED
    BY <2>1
<1>2. QED
  BY <1>1 DEF NumberInv, Numbered

\* A session that was not there before has no signups.
LEMMA QuietNew ==
  ASSUME NEW c \in Conn, Quiet(c), NEW s \in DOMAIN sessions', s \notin DOMAIN sessions
  PROVE  sessions'[s].party_signups = <<>>
<1>1. CASE \E g \in GroupId, x \in SessionId, k \in SessionKind : SessionCreate(c, g, x, k)
  BY <1>1 DEF SessionCreate, Insert, NewSession
<1>2. CASE \/ ClientConnected(c) \/ ClientDisconnected(c) \/ Respond(c)
           \/ Refuse(c) \/ PruneGroups(c)
  BY <1>2 DEF ClientConnected, ClientDisconnected, PruneGroups, Respond, Refuse
<1>3. CASE \/ \E g \in GroupId, p \in Params : GroupCreate(c, g, p)
           \/ \E g \in GroupId : GroupJoin(c, g)
  BY <1>3 DEF GroupCreate, GroupJoin
<1>4. ASSUME NEW x \in DOMAIN sessions,
             \/ \E i, n \in PartyIndex : SessionParticipant(c, x, i, n)
             \/ \E n \in PartyIndex : SessionFinish(c, x, n)
             \/ SessionBroadcast(c, x)
             \/ \E r \in PartyIndex : SessionPeerMessage(c, x, r)
      PROVE  DOMAIN sessions' = DOMAIN sessions
  BY <1>4 DEF SessionParticipant, SessionFinish, SessionBroadcast, SessionPeerMessage
<1>5. QED
  BY <1>1, <1>2, <1>3, <1>4 DEF Quiet

\* One signup more keeps a list numbered when the new one is.
LEMMA NumberedAppend ==
  ASSUME NEW old \in Seq(Signup), NEW x \in Signup, NEW parties, Numbered(old, parties),
         \/ x.by = "signup" /\ x.num = Len(old) + 1 /\ \A i \in 1 .. Len(old) : old[i].num = i
         \/ x.by = "signup" /\ \E k \in 1 .. Len(old) : old[k].by = "load"
         \/ /\ x.by = "load" /\ x.num \in 1 .. parties
            /\ \A i \in 1 .. Len(old) : old[i].num # x.num
  PROVE  Numbered(Append(old, x), parties)
<1> DEFINE new == Append(old, x)
<1>1. /\ DOMAIN new = 1 .. Len(old) + 1
      /\ \A i \in 1 .. Len(old) : new[i] = old[i]
      /\ new[Len(old) + 1] = x
      /\ Len(old) \in Nat
      /\ DOMAIN old = 1 .. Len(old)
  OBVIOUS
<1> HIDE DEF new
<1> DEFINE Fine(list, j) ==
             \/ /\ list[j].by = "signup"
                /\ list[j].num = j
                /\ \A i \in 1 .. j - 1 : list[i].num = i
             \/ /\ list[j].by = "signup"
                /\ \E k \in 1 .. j - 1 : list[k].by = "load"
             \/ /\ list[j].by = "load"
                /\ list[j].num \in 1 .. parties
                /\ \A i \in 1 .. j - 1 : list[i].num # list[j].num
<1>2. ASSUME NEW j \in 1 .. Len(old)
      PROVE  Fine(new, j)
  <2>1. Fine(old, j)
    BY <1>1 DEF Numbered
  <2>2. new[j] = old[j] /\ \A i \in 1 .. j - 1 : new[i] = old[i]
    BY <1>1
  <2>3. QED
    BY <2>1, <2>2
<1>3. Fine(new, Len(old) + 1)
  <2>1. \A i \in 1 .. (Len(old) + 1) - 1 : i \in 1 .. Len(old) /\ new[i] = old[i]
    BY <1>1
  <2>2. \A i \in 1 .. Len(old) : i \in 1 .. (Len(old) + 1) - 1
    BY <1>1
  <2>3. QED
    BY <1>1, <2>1, <2>2
<1>4. \A j \in DOMAIN new : Fine(new, j)
  BY <1>1, <1>2, <1>3
<1>5. QED
  BY <1>4 DEF Numbered, new

\* Without a load in it, a list is numbered by its places.
LEMMA NumberedByPlace ==
  ASSUME NEW list \in Seq(Signup), NEW parties, Numbered(list, parties),
         \A k \in DOMAIN list : list[k].by # "load"
  PROVE  \A i \in DOMAIN list : list[i].num = i
<1>1. ASSUME NEW i \in DOMAIN list
      PROVE  list[i].num = i
  <2>1. i \in 1 .. Len(list) /\ Len(list) \in Nat
    OBVIOUS
  <2>2. \A k \in 1 .. i - 1 : k \in DOMAIN list
    BY <2>1
  <2>3. QED
    BY <2>2 DEF Numbered
<1>2. QED
  BY <1>1

\* The number a new signup gets follows the last one.
LEMMA SignupNumber ==
  ASSUME TypeOK, NumberInv, NEW c \in Conn, NEW s \in DOMAIN sessions, NEW k,
         SessionSignup(c, s, k)
  PROVE  Numbered(sessions'[s].party_signups, ParamsOf(s).parties)
<1> DEFINE old == sessions[s].party_signups
           num == NextNumber(old)
           x == [num |-> num, conn |-> c, by |-> "signup"]
           parties == ParamsOf(s).parties
<1>1. sessions[s] \in Session /\ old \in Seq(Signup)
  BY DEF TypeOK, Session
<1>2. sessions'[s].party_signups = Append(old, x)
  BY <1>1 DEF SessionSignup, Session
<1>3. Numbered(old, parties)
  BY DEF NumberInv
<1> HIDE DEF old, parties
<1>4. num \in Nat
  BY <1>1, NextNumberTyped
<1>5. ASSUME \A i \in 1 .. Len(old) : old[i].num = i
      PROVE  num = Len(old) + 1
  <2>1. CASE old = <<>>
    BY <2>1 DEF NextNumber
  <2>2. CASE old # <<>>
    <3>1. Len(old) \in 1 .. Len(old)
      BY <1>1, <2>2
    <3>2. Last(old).num = Len(old)
      BY <1>5, <3>1 DEF Last
    <3>3. QED
      BY <2>2, <3>2 DEF NextNumber
  <2>3. QED
    BY <2>1, <2>2
<1> HIDE DEF num
<1>6. x \in Signup /\ x.by = "signup" /\ x.num = num
  BY <1>4 DEF Signup, ClaimMethod
<1> HIDE DEF x
<1>7. CASE \E j \in 1 .. Len(old) : old[j].by = "load"
  <2>1. Numbered(Append(old, x), parties)
    BY <1>1, <1>3, <1>6, <1>7, NumberedAppend
  <2>2. QED
    BY <1>2, <2>1 DEF parties
<1>8. CASE ~ \E j \in 1 .. Len(old) : old[j].by = "load"
  <2>1. \A i \in 1 .. Len(old) : old[i].num = i
    BY <1>1, <1>3, <1>8, NumberedByPlace
  <2>2. num = Len(old) + 1
    BY <1>5, <2>1
  <2>3. Numbered(Append(old, x), parties)
    BY <1>1, <1>3, <1>6, <2>1, <2>2, NumberedAppend
  <2>4. QED
    BY <1>2, <2>3 DEF parties
<1>9. QED
  BY <1>7, <1>8

\* A number that is loaded is free and in range.
LEMMA LoadNumber ==
  ASSUME TypeOK, NumberInv, NEW c \in Conn, NEW s \in DOMAIN sessions, NEW k,
         NEW n \in 0 .. MaxParties, SessionLoad(c, s, n, k)
  PROVE  Numbered(sessions'[s].party_signups, ParamsOf(s).parties)
<1> DEFINE old == sessions[s].party_signups
           x == [num |-> n, conn |-> c, by |-> "load"]
           parties == ParamsOf(s).parties
<1>1. sessions[s] \in Session /\ old \in Seq(Signup)
  BY DEF TypeOK, Session
<1>2. sessions'[s].party_signups = Append(old, x)
  BY <1>1 DEF SessionLoad, Session
<1>3. Numbered(old, parties)
  BY DEF NumberInv
<1>4. n \in 1 .. parties
  <2>1. /\ n # 0 /\ n <= parties
        /\ sessions[s].group \in DOMAIN groups
    BY DEF SessionLoad, Loadable, InSession, Member
  <2>2. groups[sessions[s].group].params \in Params
    BY <2>1 DEF TypeOK, Group
  <2>3. parties \in Nat /\ n \in Nat
    BY <2>2, ParamsAssumption DEF ParamsOf
  <2> HIDE DEF parties
  <2>4. QED
    BY <2>1, <2>3
<1>5. \A i \in 1 .. Len(old) : old[i].num # n
  <2>1. n \notin Numbers(s)
    BY DEF SessionLoad, Loadable
  <2>2. \A i \in 1 .. Len(old) : old[i] \in ToSet(old)
    BY <1>1 DEF ToSet
  <2>3. QED
    BY <2>1, <2>2 DEF Numbers
<1>6. x \in Signup /\ x.by = "load" /\ x.num = n
  BY ParamsAssumption DEF Signup, ClaimMethod
<1> HIDE DEF old, parties, x
<1>7. Numbered(Append(old, x), parties)
  BY <1>1, <1>3, <1>4, <1>5, <1>6, NumberedAppend
<1>8. QED
  BY <1>2, <1>7 DEF parties

LEMMA NextNumberInv ==
  ASSUME TypeOK, SessionInv, SessionInv', NumberInv, NEW c \in Conn, Steps(c)
  PROVE  NumberInv'
<1>1. CASE Quiet(c)
  <2> SUFFICES ASSUME NEW s \in DOMAIN sessions'
               PROVE  Numbered(sessions'[s].party_signups, ParamsOf(s)'.parties)
    BY DEF NumberInv
  <2>1. CASE s \notin DOMAIN sessions
    <3>1. sessions'[s].party_signups = <<>>
      BY <1>1, <2>1, QuietNew
    <3>2. QED
      BY <3>1 DEF Numbered
  <2>2. CASE s \in DOMAIN sessions
    <3>1. SameSession(s)
      BY <1>1, <2>2, QuietSessions DEF SessionInv
    <3>2. sessions[s].group \in DOMAIN groups \cap DOMAIN groups'
      BY <2>2, <3>1 DEF SessionInv, SameSession
    <3>3. ParamsOf(s)' = ParamsOf(s)
      BY <3>1, <3>2, ParametersStay DEF ParamsOf, SameSession
    <3>4. QED
      BY <2>2, <3>1, <3>3 DEF NumberInv, SameSession
  <2>3. QED
    BY <2>1, <2>2
<1>2. CASE Sends(c)
  BY <1>2 DEF Sends, NumberInv, ParamsOf
<1>3. ASSUME NEW s \in DOMAIN sessions,
             \/ SessionSignup(c, s, sessions[s].kind)
             \/ \E n \in 0 .. MaxParties : SessionLoad(c, s, n, sessions[s].kind)
      PROVE  NumberInv'
  <2>1. PICK num \in Nat, event \in ReadyEvent, by \in ClaimMethod :
               Claimed(c, s, num, event, by)
    BY <1>3, ClaimSteps
  <2>2. /\ DOMAIN sessions' = DOMAIN sessions
        /\ \A x \in DOMAIN sessions : x # s => sessions'[x] = sessions[x]
        /\ \A x \in DOMAIN sessions : sessions'[x].group = sessions[x].group
        /\ groups' = groups
    BY <2>1, ClaimEffect
  <2>3. \A x \in DOMAIN sessions : ParamsOf(x)' = ParamsOf(x)
    BY <2>2 DEF ParamsOf
  <2>4. Numbered(sessions'[s].party_signups, ParamsOf(s).parties)
    BY <1>3, SignupNumber, LoadNumber
  <2>5. QED
    BY <2>2, <2>3, <2>4 DEF NumberInv
<1>4. QED
  BY <1>1, <1>2, <1>3 DEF Steps, Quiet

\* A party number is issued again only by a signup that follows a load, and a
\* loaded number is in range, for every client and every order of the claims.
THEOREM NumbersHold == Spec => []PartyNumbersUnique
<1>1. Init => NumberInv
  BY DEF Init, NumberInv
<1>2. TypeOK /\ ReadyInv /\ ReadyInv' /\ NumberInv /\ [Next]_vars => NumberInv'
  <2>1. ASSUME TypeOK, ReadyInv, ReadyInv', NumberInv, NEW c \in Conn, Steps(c)
        PROVE  NumberInv'
    BY <2>1, NextNumberInv DEF ReadyInv
  <2>2. ASSUME UNCHANGED vars, NumberInv
        PROVE  NumberInv'
    BY <2>2 DEF vars, NumberInv, ParamsOf
  <2>3. QED
    BY <2>1, <2>2, NextSteps
<1>3. TypeOK /\ NumberInv => PartyNumbersUnique
  BY NumberInvUnique
<1>4. QED
  BY <1>1, <1>2, <1>3, TypeCorrect, ReadyInvHolds, PTL DEF Spec

-----------------------------------------------------------------------------
\* Routing

\* Where a notification goes when it is sent: to nobody but parties of its session.
Routed(n) ==
  n.event # "sessionCreate" /\ n.session \in DOMAIN sessions =>
    \/ n.to = "session"
    \/ n.to = "relay" /\ n.conns \subseteq SignedUp(n.session)

RouteInv == (\A c \in Conn : \A n \in notification[c] : Routed(n)) /\ SessionIsolation

\* Sessions that stay keep their signups.
SignupsStay ==
  \A s \in DOMAIN sessions' : s \in issued =>
    s \in DOMAIN sessions /\ SignedUp(s) \subseteq SignedUp(s)'

LEMMA QuietRoutes ==
  ASSUME TypeOK, NEW c \in Conn, Quiet(c), NEW d \in Conn, NEW n \in notification'[d],
         n \notin notification[d]
  PROVE  n.event = "sessionCreate" \/ (n.session \in DOMAIN sessions /\ Routed(n))
<1>1. notification \in [Conn -> SUBSET Notification]
  BY DEF TypeOK
<1>2. ASSUME NEW notes, Serve(c, notes)
      PROVE  n \in notes
  BY <1>1, <1>2 DEF Serve
<1>3. CASE \/ ClientConnected(c) \/ ClientDisconnected(c) \/ PruneGroups(c) \/ Respond(c)
           \/ Refuse(c)
           \/ \E g \in GroupId, p \in Params : GroupCreate(c, g, p)
           \/ \E g \in GroupId : GroupJoin(c, g)
           \/ \E s \in DOMAIN sessions, i, m \in PartyIndex : SessionParticipant(c, s, i, m)
  BY <1>2, <1>3 DEF ClientConnected, ClientDisconnected, PruneGroups, Respond, Refuse,
                    GroupCreate, GroupJoin, SessionParticipant
<1>4. CASE \E g \in GroupId, s \in SessionId, k \in SessionKind : SessionCreate(c, g, s, k)
  <2>1. PICK g \in GroupId, s \in SessionId, k \in SessionKind : SessionCreate(c, g, s, k)
    BY <1>4
  <2>2. n.event = "sessionCreate"
    BY <1>2, <2>1 DEF SessionCreate, ToGroup
  <2>3. QED
    BY <2>2
<1>5. ASSUME NEW s \in DOMAIN sessions, NEW m \in PartyIndex, SessionFinish(c, s, m)
      PROVE  n.session \in DOMAIN sessions /\ Routed(n)
  <2>1. n.to = "session" /\ n.session = s
    BY <1>2, <1>5 DEF SessionFinish, ToSession
  <2>2. QED
    BY <2>1 DEF Routed
<1>6. ASSUME NEW s \in DOMAIN sessions, SessionBroadcast(c, s)
      PROVE  n.session \in DOMAIN sessions /\ Routed(n)
  <2>1. n.to = "session" /\ n.session = s
    BY <1>2, <1>6 DEF SessionBroadcast, ToSession
  <2>2. QED
    BY <2>1 DEF Routed
<1>7. ASSUME NEW s \in DOMAIN sessions, NEW r \in PartyIndex, SessionPeerMessage(c, s, r)
      PROVE  n.session \in DOMAIN sessions /\ Routed(n)
  <2>1. Holder(s, ReceiverNumber(s, r)) \in SignedUp(s)
    BY <1>7, SignupTyped DEF SessionPeerMessage
  <2>2. n = Relay(s, Holder(s, ReceiverNumber(s, r)))
    BY <1>2, <1>7 DEF SessionPeerMessage
  <2>3. n.to = "relay" /\ n.session = s /\ n.conns \subseteq SignedUp(s)
    BY <2>1, <2>2 DEF Relay
  <2>4. QED
    BY <2>3 DEF Routed
<1>8. QED
  BY <1>3, <1>4, <1>5, <1>6, <1>7 DEF Quiet

\* What was routed stays routed, and what was sent was sent to parties.
LEMMA RoutesStay ==
  ASSUME SessionInv, RouteInv, SignupsStay, sent' = sent,
         \A d \in Conn : \A n \in notification'[d] :
           \/ n \in notification[d]
           \/ n.event = "sessionCreate"
           \/ n.session \in DOMAIN sessions /\ Routed(n)
  PROVE  RouteInv'
<1>1. ASSUME NEW d \in Conn, NEW n \in notification'[d]
      PROVE  Routed(n)'
  <2>1. CASE n.event = "sessionCreate"
    BY <2>1 DEF Routed
  <2>2. CASE n \in notification[d] \/ (n.session \in DOMAIN sessions /\ Routed(n))
    <3>1. Routed(n) /\ n.session \in issued
      BY <2>2 DEF RouteInv, SessionInv
    <3>2. QED
      BY <3>1 DEF Routed, SignupsStay
  <2>3. QED
    BY <2>1, <2>2
<1>2. SessionIsolation'
  <2> SUFFICES ASSUME NEW x \in sent, x.event # "sessionCreate", x.session \in DOMAIN sessions'
               PROVE  x.conn \in SignedUp(x.session)'
    BY DEF SessionIsolation
  <2>1. x.session \in DOMAIN sessions /\ SignedUp(x.session) \subseteq SignedUp(x.session)'
    BY DEF SessionInv, SignupsStay
  <2>2. QED
    BY <2>1 DEF RouteInv, SessionIsolation
<1>3. QED
  BY <1>1, <1>2 DEF RouteInv

LEMMA NextRouteInv ==
  ASSUME TypeOK, SessionInv, RouteInv, NEW c \in Conn, Steps(c)
  PROVE  RouteInv'
<1>1. CASE Quiet(c)
  <2>1. \A s \in DOMAIN sessions' : s \in issued => SameSession(s)
    BY <1>1, QuietSessions
  <2>2. SignupsStay
    BY <2>1 DEF SignupsStay, SameSession, SignedUp
  <2>3. sent' = sent
    BY <1>1, QuietSessions
  <2>4. \A d \in Conn : \A n \in notification'[d] :
          \/ n \in notification[d]
          \/ n.event = "sessionCreate"
          \/ n.session \in DOMAIN sessions /\ Routed(n)
    BY <1>1, QuietRoutes
  <2>5. QED
    BY <2>2, <2>3, <2>4, RoutesStay
<1>2. CASE Sends(c)
  <2>1. /\ sessions' = sessions
        /\ notification' = [notification EXCEPT ![c] = {}]
    BY <1>2 DEF Sends
  <2>2. \A d \in Conn : notification'[d] \subseteq notification[d]
    BY <2>1 DEF TypeOK
  <2>3. ASSUME NEW x \in sent', x.event # "sessionCreate", x.session \in DOMAIN sessions
        PROVE  x.conn \in SignedUp(x.session)
    <3>1. CASE x \in sent
      BY <2>3, <3>1 DEF RouteInv, SessionIsolation
    <3>2. CASE x \notin sent
      <4>1. PICK n \in notification[c] :
              /\ n \in Notification
              /\ \A y \in sent' \ sent : \E e \in Entries(n) : y = Pushed(n, e[2])
        BY <1>2, SendsEffect
      <4>2. PICK e \in Entries(n) : x = Pushed(n, e[2])
        BY <3>2, <4>1
      <4>3. x.session = n.session /\ x.event = n.event /\ x.conn = e[2]
        BY <4>2 DEF Pushed
      <4>4. \/ n.to = "session"
            \/ n.to = "relay" /\ n.conns \subseteq SignedUp(n.session)
        BY <2>3, <4>3 DEF RouteInv, Routed
      <4>5. e[2] \in SignedUp(n.session)
        BY <4>1, <4>4, EntriesNamed
      <4>6. QED
        BY <4>3, <4>5
    <3>3. QED
      BY <3>1, <3>2
  <2>4. SessionIsolation'
    BY <2>1, <2>3 DEF SessionIsolation, SignedUp
  <2>5. \A d \in Conn : \A n \in notification'[d] : Routed(n)'
    BY <2>1, <2>2 DEF RouteInv, Routed, SignedUp
  <2>6. QED
    BY <2>4, <2>5 DEF RouteInv
<1>3. ASSUME NEW s \in DOMAIN sessions, NEW num \in Nat, NEW event \in ReadyEvent,
             NEW by \in ClaimMethod, Claimed(c, s, num, event, by)
      PROVE  RouteInv'
  <2> DEFINE new == Append(sessions[s].party_signups, [num |-> num, conn |-> c, by |-> by])
             notes == IF Len(new) = RequiredFor(s) THEN {ToSession(s, event, {})} ELSE {}
  <2>1. /\ DOMAIN sessions' = DOMAIN sessions
        /\ \A x \in DOMAIN sessions : x # s => sessions'[x] = sessions[x]
        /\ sent' = sent
    BY <1>3, ClaimEffect
  <2>2. /\ sessions'[s].party_signups = new
        /\ ToSet(sessions[s].party_signups) \subseteq ToSet(new)
    <3>1. sessions'[s].party_signups = new
      BY <1>3, ClaimEffect
    <3>2. ToSet(sessions[s].party_signups) \subseteq ToSet(sessions'[s].party_signups)
      BY <1>3, ClaimEffect
    <3>3. QED
      BY <3>1, <3>2
  <2>3. notification' = [notification EXCEPT ![c] = notes]
    BY <1>3, ClaimNotes
  <2>4. \A n \in notes : n.session = s /\ n.to = "session"
    BY DEF ToSession
  <2> HIDE DEF new, notes
  <2>5. SignupsStay
    BY <2>1, <2>2 DEF SignupsStay, SignedUp
  <2>6. \A d \in Conn : \A n \in notification'[d] :
          \/ n \in notification[d]
          \/ n.session \in DOMAIN sessions /\ Routed(n)
    BY <2>3, <2>4 DEF Routed, TypeOK
  <2>7. QED
    BY <2>1, <2>5, <2>6, RoutesStay
<1>4. QED
  BY <1>1, <1>2, <1>3, ReadySteps

\* The events of a session other than its creation reach its parties only.
THEOREM IsolationHolds == Spec => []SessionIsolation
<1>1. Init => RouteInv
  BY DEF Init, RouteInv, SessionIsolation
<1>2. TypeOK /\ ReadyInv /\ RouteInv /\ [Next]_vars => RouteInv'
  <2>1. ASSUME TypeOK, ReadyInv, RouteInv, NEW c \in Conn, Steps(c)
        PROVE  RouteInv'
    BY <2>1, NextRouteInv DEF ReadyInv
  <2>2. ASSUME UNCHANGED vars, RouteInv
        PROVE  RouteInv'
    BY <2>2 DEF vars, RouteInv, Routed, SessionIsolation, SignedUp
  <2>3. QED
    BY <2>1, <2>2, NextSteps
<1>3. RouteInv => SessionIsolation
  BY DEF RouteInv
<1>4. QED
  BY <1>1, <1>2, <1>3, TypeCorrect, ReadyInvHolds, PTL DEF Spec
=============================================================================
