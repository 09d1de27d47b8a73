---------------------------- MODULE DappGroupProofs ---------------------------
(***************************************************************************)
(* Theorems about DappFlow that relate the dapps of different people: what *)
(* they know of a group, of its session, and of each other.                *)
(***************************************************************************)
EXTENDS DappFlowProofs

-----------------------------------------------------------------------------
\* Who may ask what of a group: its creator alone until it copies a link

Used(s) == server[s].members # {}

\* Nobody but c knows of the group.
Private(c, s) == server[s].members = {c} /\ s \notin invited

CreateMethods == {"Group.create", "Session.create", "Session.signup", "Session.load"}
JoinMethods == {"Group.join", "Session.join", "Session.signup"}

\* The creator's calls: the number is the share's, and 0 for a new key.
OfCreator(q) ==
  /\ q.method \in CreateMethods
  /\ q.method \in {"Group.create", "Session.create"} => (q.number = 0 <=> kind = "keygen")
  /\ q.method = "Session.signup" => kind = "keygen"
  /\ q.method = "Session.load" => kind # "keygen"

\* The calls of one that follows a link
OfGuest(q) ==
  /\ q.sid \in invited
  /\ \/ q.fn = "join" /\ q.method \in JoinMethods /\ (q.method = "Session.signup" => kind = "keygen")
     \/ q.fn = "load" /\ q.method = "Session.load" /\ kind # "keygen"

\* A request that is on its way to the server
RequestFact(c, q) ==
  \/ q.fn = "message" /\ q.method = "Session.message"
  \/ /\ q.fn = "create" /\ OfCreator(q) /\ server[q.sid].signups = <<>>
     /\ IF q.method = "Group.create" THEN ~Used(q.sid) /\ q.sid <= Sessions ELSE Private(c, q.sid)
  \/ OfGuest(q) /\ (q.fn = "load" => <<c, q.sid>> \in approved)

\* A frame that is on its way to c
FrameFact(c, f) ==
  CASE f.type = "ready" -> f.sid \in invited
    [] f.type = "answer" ->
         \/ f.call.fn = "message" /\ f.call.method = "Session.message"
         \/ /\ f.call.fn = "create" /\ f.ok /\ OfCreator(f.call) /\ Private(c, f.call.sid)
            /\ server[f.call.sid].signups =
                 IF f.call.method \in {"Group.create", "Session.create"} THEN <<>>
                 ELSE <<[number |-> f.call.number, client |-> c]>>
         \/ OfGuest(f.call)
    [] OTHER -> TRUE

\* What the app of c knows of its session
AppFact(c, a) ==
  /\ a.wizard = "join" => a.target \in invited
  /\ a.wizard = "create" /\ a.step >= 1 =>
       server[a.session].signups # <<>> /\ server[a.session].signups[1].client = c
  /\ a.wizard = "create" /\ a.step = 1 /\ a.ready /\ kind # "keygen" => <<c, a.session>> \in approved
  /\ \A h \in a.once : h.sid = a.session
  /\ \A j \in a.jobs : j.sid \in invited

GroupFact(s) ==
  /\ ValidParameters(server[s].params)
  /\ s \in invited => server[s].signups # <<>>
  /\ s \notin invited => Len(server[s].signups) <= 1
  /\ server[s].signups # <<>> => Used(s)
  /\ Used(s) => s <= Sessions
  /\ s \in invited /\ kind # "keygen" => \A p \in Parties(s) : <<p, s>> \in approved

\* Somebody is about to create the group.
Proposes(cs, s) == \E i \in 1 .. Len(cs) : cs[i].method = "Group.create" /\ cs[i].sid = s

OwnerInv ==
  /\ \A s \in Sid : GroupFact(s)
  /\ \A c \in Client :
       /\ AppFact(c, app[c])
       /\ \A i \in 1 .. Len(calls[c]) : RequestFact(c, calls[c][i])
       /\ \A i \in 1 .. Len(frames[c]) : FrameFact(c, frames[c][i])
       /\ task[c].frame.type = "ready" => task[c].frame.sid \in invited
  /\ \A c, d \in Client, s \in Sid : Proposes(calls[c], s) /\ Proposes(calls[d], s) => c = d

-----------------------------------------------------------------------------
\* What other people do does not change what is known.

\* A request of a client.
LEMMA RequestKept ==
  ASSUME NEW c \in Client, NEW q \in CallRecord, RequestFact(c, q),
         UNCHANGED kind, invited \subseteq invited', approved \subseteq approved',
         Sessions <= Sessions', Sessions \in Nat, Sessions' \in Nat,
         q.fn = "create" => /\ server'[q.sid].members = server[q.sid].members
                            /\ server'[q.sid].signups = server[q.sid].signups
                            /\ q.sid \notin invited => q.sid \notin invited'
  PROVE  RequestFact(c, q)'
<1>1. q.sid \in Nat
  BY DEF CallRecord, Sid
<1>2. q.fn = "message" \/ q.fn = "create" \/ OfGuest(q)
  BY DEF RequestFact
<1>3. OfGuest(q) => OfGuest(q)'
  BY DEF OfGuest
<1>4. OfCreator(q) => OfCreator(q)'
  BY DEF OfCreator
<1>5. CASE q.fn = "message"
  BY <1>5 DEF RequestFact, OfGuest
<1>6. CASE q.fn = "create"
  BY <1>1, <1>4, <1>6 DEF RequestFact, OfGuest, Private, Used
<1>7. CASE OfGuest(q) /\ q.fn # "create" /\ q.fn # "message"
  BY <1>3, <1>7 DEF RequestFact
<1>8. QED BY <1>2, <1>5, <1>6, <1>7

\* A frame on its way to a client.
LEMMA FrameKept ==
  ASSUME NEW c \in Client, NEW f \in Frame, FrameFact(c, f),
         UNCHANGED kind, invited \subseteq invited',
         f.type = "answer" /\ f.call.fn = "create" =>
            /\ server'[f.call.sid].members = server[f.call.sid].members
            /\ server'[f.call.sid].signups = server[f.call.sid].signups
            /\ f.call.sid \notin invited => f.call.sid \notin invited'
  PROVE  FrameFact(c, f)'
<1>1. CASE f.type = "ready"
  BY <1>1 DEF FrameFact
<1>2. CASE f.type = "answer"
  <2>1. OfGuest(f.call) => OfGuest(f.call)'
    BY DEF OfGuest
  <2>2. OfCreator(f.call) => OfCreator(f.call)'
    BY DEF OfCreator
  <2>3. CASE f.call.fn = "create"
    BY <1>2, <2>2, <2>3 DEF FrameFact, OfGuest, Private
  <2>4. CASE f.call.fn # "create"
    BY <1>2, <2>1, <2>4 DEF FrameFact
  <2>5. QED BY <2>3, <2>4
<1>3. CASE f.type \notin {"ready", "answer"}
  BY <1>3 DEF FrameFact
<1>4. QED BY <1>1, <1>2, <1>3

\* What an app knows of its session.
LEMMA AppKept ==
  ASSUME NEW c \in Client, NEW a \in AppRecord, AppFact(c, a), Page(kind, a),
         UNCHANGED kind, invited \subseteq invited', approved \subseteq approved',
         \A s \in Sid : server[s].signups # <<>> =>
            server'[s].signups # <<>> /\ server'[s].signups[1] = server[s].signups[1]
  PROVE  AppFact(c, a)'
BY DEF AppFact, Page

\* There are finitely many sessions.
LEMMA FiniteSessions == IsFiniteSet(Sid)
<1>1. 1 \in Int /\ MaxSessions \in Int
  BY BoundsAssumption
<1>2. QED BY <1>1, FS_Interval DEF Sid

\* The sessions are not fewer when every group is still there, and every one
\* that is proposed.
LEMMA SessionsGrow ==
  ASSUME \A s \in Sid : Used(s) => Used(s)',
         \A c \in Client, s \in Sid : Proposes(calls[c], s) => Proposes(calls'[c], s),
         \A c \in Client : \A i \in 1 .. Len(calls[c]) : calls[c][i].sid \in Sid
  PROVE  Sessions <= Sessions' /\ Sessions \in Nat /\ Sessions' \in Nat
<1> DEFINE U == {s \in Sid : server[s].members # {}}
           V == {s \in Sid : server'[s].members # {}}
           C == {c \in Client : \E i \in 1 .. Len(calls[c]) : calls[c][i].method = "Group.create"}
           D == {c \in Client : \E i \in 1 .. Len(calls'[c]) : calls'[c][i].method = "Group.create"}
<1>1. IsFiniteSet(Sid)
  BY FiniteSessions
<1>2. IsFiniteSet(U) /\ IsFiniteSet(V) /\ IsFiniteSet(C) /\ IsFiniteSet(D)
  <2>1. U \subseteq Sid /\ V \subseteq Sid /\ C \subseteq Client /\ D \subseteq Client
    OBVIOUS
  <2> HIDE DEF U, V, C, D
  <2>2. QED BY <1>1, <2>1, ClientAssumption, FS_Subset
<1>3. U \subseteq V /\ C \subseteq D
  BY DEF Used, Proposes
<1>4. Sessions = Cardinality(U) + Cardinality(C) /\ Sessions' = Cardinality(V) + Cardinality(D)
  BY DEF Sessions
<1> HIDE DEF U, V, C, D
<1>5. Cardinality(U) <= Cardinality(V) /\ Cardinality(C) <= Cardinality(D)
  BY <1>2, <1>3, FS_Subset
<1>6. Cardinality(U) \in Nat /\ Cardinality(V) \in Nat /\ Cardinality(C) \in Nat /\ Cardinality(D) \in Nat
  BY <1>2, FS_CardinalityType
<1>7. QED BY <1>4, <1>5, <1>6

\* A request names a session.
LEMMA CallsTyped ==
  ASSUME NEW cs \in Seq(CallRecord)
  PROVE  \A i \in 1 .. Len(cs) : cs[i] \in CallRecord /\ cs[i].sid \in Sid
<1>1. \A i \in 1 .. Len(cs) : cs[i] \in CallRecord
  OBVIOUS
<1>2. QED BY <1>1 DEF CallRecord

\* What is appended is there, and what was there before.
LEMMA ProposesAppend ==
  ASSUME NEW cs \in Seq(CallRecord), NEW q \in CallRecord
  PROVE  /\ \A s : Proposes(cs, s) => Proposes(Append(cs, q), s)
         /\ \A s : Proposes(Append(cs, q), s) =>
              Proposes(cs, s) \/ (q.method = "Group.create" /\ q.sid = s)
         /\ cs # <<>> => \A s : Proposes(Tail(cs), s) => Proposes(cs, s)
         /\ cs # <<>> /\ Head(cs).method # "Group.create" =>
              \A s : Proposes(cs, s) => Proposes(Tail(cs), s)
<1>1. Append(cs, q) \in Seq(CallRecord) /\ Len(Append(cs, q)) = Len(cs) + 1 /\ Len(cs) \in Nat
      /\ \A i \in 1 .. Len(Append(cs, q)) : Append(cs, q)[i] = IF i <= Len(cs) THEN cs[i] ELSE q
  OBVIOUS
<1>2. ASSUME NEW s, Proposes(cs, s) PROVE Proposes(Append(cs, q), s)
  <2>1. PICK i \in 1 .. Len(cs) : cs[i].method = "Group.create" /\ cs[i].sid = s
    BY <1>2 DEF Proposes
  <2>2. i \in 1 .. Len(Append(cs, q)) /\ Append(cs, q)[i] = cs[i]
    BY <1>1
  <2>3. QED BY <2>1, <2>2 DEF Proposes
<1>3. ASSUME NEW s, Proposes(Append(cs, q), s)
      PROVE  Proposes(cs, s) \/ (q.method = "Group.create" /\ q.sid = s)
  BY <1>1, <1>3 DEF Proposes
<1>4. ASSUME cs # <<>>, NEW s, Proposes(Tail(cs), s) PROVE Proposes(cs, s)
  BY <1>4, TailElements DEF Proposes
<1>5. ASSUME cs # <<>>, Head(cs).method # "Group.create", NEW s, Proposes(cs, s)
      PROVE  Proposes(Tail(cs), s)
  <2>1. PICK i \in 1 .. Len(cs) : cs[i].method = "Group.create" /\ cs[i].sid = s
    BY <1>5 DEF Proposes
  <2>2. i # 1
    BY <1>5, <2>1, TailElements
  <2>3. i - 1 \in 1 .. Len(Tail(cs)) /\ Tail(cs)[i - 1] = cs[i]
    BY <1>5, <2>2, TailElements
  <2>4. QED BY <2>1, <2>3 DEF Proposes
<1>6. QED BY <1>2, <1>3, <1>4, <1>5

\* What is known of a group stays true when nobody signs up and no link of it
\* is copied.
LEMMA GroupKept ==
  ASSUME TypeOK, NEW s \in Sid, GroupFact(s), UNCHANGED kind, server'[s] = server[s],
         s \in invited' <=> s \in invited, approved \subseteq approved',
         Sessions <= Sessions', Sessions \in Nat, Sessions' \in Nat
  PROVE  GroupFact(s)'
<1>1. s \in Nat
  BY DEF Sid
<1>2. QED BY <1>1 DEF GroupFact, Used, Parties, ValidParameters

\* A client takes a step that proposes no group, and knows what it should
\* know afterwards.
LEMMA OwnerOwnStep ==
  ASSUME FlowInv, OwnerInv, NEW c \in Client, NEW a \in AppRecord, Become(c, a), AppFact(c, a)',
         UNCHANGED <<kind, server, task, invited>>, approved \subseteq approved',
         \/ UNCHANGED calls
         \/ \E q \in CallRecord : Ask(c, q) /\ q.method # "Group.create" /\ RequestFact(c, q)',
         \/ UNCHANGED frames
         \/ frames[c] # <<>> /\ frames' = [frames EXCEPT ![c] = Tail(frames[c])]
  PROVE  OwnerInv'
<1> USE DEF FlowInv
<1>0. ASSUME NEW d \in Client
      PROVE  /\ app[d] \in AppRecord /\ calls[d] \in Seq(CallRecord) /\ frames[d] \in Seq(Frame)
             /\ Page(kind, app[d])
             /\ AppFact(d, app[d])
             /\ \A i \in 1 .. Len(calls[d]) : RequestFact(d, calls[d][i])
             /\ \A i \in 1 .. Len(frames[d]) : FrameFact(d, frames[d][i])
  BY OwnState DEF Local, OwnerInv
<1>1. app'[c] = a /\ \A d \in Client \ {c} : app'[d] = app[d]
  BY DEF Become, TypeOK
<1>2. \A d \in Client \ {c} : calls'[d] = calls[d] /\ frames'[d] = frames[d]
  BY DEF TypeOK, Ask
<1>3. \/ calls'[c] = calls[c]
      \/ \E q \in CallRecord : /\ calls'[c] = Append(calls[c], q)
                               /\ q.method # "Group.create" /\ RequestFact(c, q)'
  BY DEF TypeOK, Ask
<1>4. frames'[c] = frames[c] \/ (frames[c] # <<>> /\ frames'[c] = Tail(frames[c]))
  BY DEF TypeOK
<1>5. \A d \in Client, s \in Sid : Proposes(calls[d], s) <=> Proposes(calls'[d], s)
  <2>1. CASE calls'[c] = calls[c]
    BY <1>2, <2>1
  <2>2. ASSUME NEW q \in CallRecord, calls'[c] = Append(calls[c], q), q.method # "Group.create",
               NEW s \in Sid
        PROVE  Proposes(calls[c], s) <=> Proposes(Append(calls[c], q), s)
    <3>1. calls[c] \in Seq(CallRecord)
      BY <1>0
    <3>2. QED BY <2>2, <3>1, ProposesAppend
  <2>3. QED BY <1>2, <1>3, <2>1, <2>2
<1>6. Sessions <= Sessions' /\ Sessions \in Nat /\ Sessions' \in Nat
  <2>1. \A d \in Client : \A i \in 1 .. Len(calls[d]) : calls[d][i].sid \in Sid
    BY <1>0, CallsTyped
  <2>2. \A s \in Sid : Used(s) => Used(s)'
    BY DEF Used
  <2>3. QED BY <1>5, <2>1, <2>2, SessionsGrow
<1>7. ASSUME NEW d \in Client, NEW q \in CallRecord, RequestFact(d, q)
      PROVE  RequestFact(d, q)'
  BY <1>6, <1>7, RequestKept
<1>8. ASSUME NEW d \in Client, NEW f \in Frame, FrameFact(d, f)
      PROVE  FrameFact(d, f)'
  BY <1>8, FrameKept
<1>9. ASSUME NEW d \in Client
      PROVE  AppFact(d, app[d])'
  <2>1. CASE d = c
    BY <1>1, <2>1
  <2>2. CASE d # c
    BY <1>0, <1>1, <2>2, AppKept
  <2>3. QED BY <2>1, <2>2
<1>10. ASSUME NEW d \in Client, NEW i \in 1 .. Len(calls'[d])
       PROVE  RequestFact(d, calls[d][i])'
  <2>1. CASE calls'[d] = calls[d]
    <3>1. PICK q \in CallRecord : q = calls[d][i] /\ RequestFact(d, q)
      BY <1>0, <2>1
    <3>2. RequestFact(d, q)'
      BY <1>7, <3>1
    <3>3. QED BY <2>1, <3>1, <3>2
  <2>2. CASE d = c /\ \E q \in CallRecord : calls'[c] = Append(calls[c], q) /\ RequestFact(c, q)'
    <3>1. PICK q \in CallRecord : calls'[c] = Append(calls[c], q) /\ RequestFact(c, q)'
      BY <2>2
    <3>2. calls'[c][i] = q \/ (i \in 1 .. Len(calls[c]) /\ calls'[c][i] = calls[c][i])
      BY <1>0, <2>2, <3>1
    <3>3. ASSUME i \in 1 .. Len(calls[c])
          PROVE  RequestFact(c, calls[c][i])'
      <4>1. calls[c][i] \in CallRecord /\ RequestFact(c, calls[c][i])
        BY <1>0, <3>3
      <4>2. QED BY <1>7, <4>1, <3>2, <2>2
    <3>4. QED BY <1>0, <2>2, <3>1, <3>2, <3>3
  <2>3. QED BY <1>2, <1>3, <2>1, <2>2
<1>11. ASSUME NEW d \in Client, NEW i \in 1 .. Len(frames'[d])
       PROVE  FrameFact(d, frames[d][i])'
  <2>1. CASE frames'[d] = frames[d]
    BY <1>0, <1>8, <2>1
  <2>2. CASE d = c /\ frames[c] # <<>> /\ frames'[c] = Tail(frames[c])
    <3>1. i + 1 \in 1 .. Len(frames[c]) /\ frames'[c][i] = frames[c][i + 1]
      BY <1>0, <2>2, TailElements
    <3>2. QED BY <1>0, <1>8, <2>2, <3>1
  <2>3. QED BY <1>2, <1>4, <2>1, <2>2
<1>12. ASSUME NEW s \in Sid PROVE GroupFact(s)'
  BY <1>6, GroupKept DEF OwnerInv
<1>13. QED BY <1>5, <1>9, <1>10, <1>11, <1>12 DEF OwnerInv

-----------------------------------------------------------------------------
\* The app of a client goes on.

\* On a new page nothing is approved or fetched yet.
LEMMA NotReady ==
  ASSUME NEW a \in AppRecord
  PROVE  ~HandleNext(a).ready /\ ~Unmount(a).ready
<1>1. [a EXCEPT !.step = a.step + 1, !.ready = FALSE].ready = FALSE
  BY DEF AppRecord
<1>2. HandleNext(a).ready = [a EXCEPT !.step = a.step + 1, !.ready = FALSE].ready
  BY DEF HandleNext, Render, AppRecord
<1>3. Unmount(a).ready = FALSE
  BY DEF Unmount, ListenerCleanup, AppRecord
<1>4. QED BY <1>1, <1>2, <1>3

\* The same wizard, and computations of sessions that people were invited to:
\* what was known of the session is enough.
Goes(a, b) ==
  /\ b.wizard = a.wizard /\ b.target = a.target /\ b.session = a.session
  /\ a.wizard = "create" /\ b.step >= 1 => a.step >= 1
  /\ a.wizard = "create" /\ b.step = 1 /\ b.ready => a.step = 1 /\ a.ready
  /\ b.once \subseteq a.once
  /\ \A j \in b.jobs : j.sid \in invited \/ \E i \in a.jobs : i.sid = j.sid

\* It stays known.
LEMMA AppGoes ==
  ASSUME FlowInv, OwnerInv, NEW c \in Client, NEW b \in AppRecord, Goes(app[c], b),
         UNCHANGED <<kind, server, invited>>, approved \subseteq approved'
  PROVE  AppFact(c, b)'
<1>1. AppFact(c, app[c]) /\ app[c] \in AppRecord /\ Page(kind, app[c])
  BY OwnState DEF FlowInv, OwnerInv, Local
<1>2. AppFact(c, b)
  BY <1>1 DEF AppFact, Goes
<1>3. QED BY <1>2 DEF AppFact

\* A step of a client whose app goes on.
LEMMA GoesStep ==
  ASSUME FlowInv, FlowInv', OwnerInv, NEW c \in Client, NEW a, Become(c, a), Goes(app[c], a),
         UNCHANGED <<kind, server, task, invited>>, approved \subseteq approved',
         \/ UNCHANGED calls
         \/ \E q \in CallRecord : Ask(c, q) /\ q.method # "Group.create" /\ RequestFact(c, q)',
         \/ UNCHANGED frames
         \/ frames[c] # <<>> /\ frames' = [frames EXCEPT ![c] = Tail(frames[c])]
  PROVE  OwnerInv'
<1>1. app'[c] = a /\ app'[c] \in AppRecord
  BY DEF FlowInv, TypeOK, Become
<1>2. QED BY <1>1, AppGoes, OwnerOwnStep

\* Changes of an app with which it goes on.
LEMMA GoesSame ==
  ASSUME NEW a \in AppRecord
  PROVE  /\ Goes(a, a)
         /\ \A x : /\ Goes(a, [a EXCEPT !.form = x]) /\ Goes(a, [a EXCEPT !.timers = x])
                   /\ Goes(a, [a EXCEPT !.inbox = x])
                   /\ Goes(a, [a EXCEPT !.signer = x])
         /\ \A x : a.wizard # "create" \/ a.step # 1 => Goes(a, [a EXCEPT !.ready = x])
BY DEF Goes, AppRecord

\* Computations of the same sessions.
LEMMA GoesJobs ==
  ASSUME NEW a \in AppRecord, NEW J, \A j \in J : \E i \in a.jobs : i.sid = j.sid
  PROVE  Goes(a, [a EXCEPT !.jobs = J])
BY DEF Goes, AppRecord

\* What the answer to a page's call tells.
LEMMA AnswerKnown ==
  ASSUME FlowInv, OwnerInv, NEW c \in Client, NEW fn \in {"create", "join", "load"},
         NEW methods, NEW ok, Answered(c, fn, methods, ok)
  PROVE  /\ Answer(c) \in CallRecord /\ Answer(c).fn = fn /\ Answer(c).method \in methods
         /\ TalkOnPage(kind, app[c], Answer(c))
         /\ frames[c] # <<>> /\ frames' = [frames EXCEPT ![c] = Tail(frames[c])]
         /\ fn # "create" => OfGuest(Answer(c))
         /\ fn = "create" =>
              /\ OfCreator(Answer(c)) /\ Private(c, Answer(c).sid)
              /\ server[Answer(c).sid].signups =
                   IF Answer(c).method \in {"Group.create", "Session.create"} THEN <<>>
                   ELSE <<[number |-> Answer(c).number, client |-> c]>>
<1>1. /\ Answer(c) \in CallRecord /\ Answer(c).fn = fn /\ Answer(c).method \in methods
      /\ TalkOnPage(kind, app[c], Answer(c))
      /\ frames[c] # <<>> /\ frames' = [frames EXCEPT ![c] = Tail(frames[c])]
  BY AnswerFacts DEF FlowInv, Answered
<1>2. Head(frames[c]).type = "answer" /\ Head(frames[c]).call = Answer(c)
  BY DEF Answered, Answer
<1>3. FrameFact(c, Head(frames[c]))
  <2>1. frames[c] \in Seq(Frame) /\ \A i \in 1 .. Len(frames[c]) : FrameFact(c, frames[c][i])
    BY OwnState DEF FlowInv, OwnerInv
  <2>2. Head(frames[c]) = frames[c][1] /\ 1 \in 1 .. Len(frames[c])
    BY <1>1, <2>1, TailElements
  <2>3. QED BY <2>1, <2>2
<1> DEFINE q == Answer(c)
<1>4. \/ q.fn = "message"
      \/ /\ q.fn = "create" /\ OfCreator(q) /\ Private(c, q.sid)
         /\ server[q.sid].signups =
              IF q.method \in {"Group.create", "Session.create"} THEN <<>>
              ELSE <<[number |-> q.number, client |-> c]>>
      \/ OfGuest(q)
  BY <1>2, <1>3 DEF FrameFact
<1>5. OfGuest(q) => q.fn \in {"join", "load"}
  BY DEF OfGuest
<1> HIDE DEF q
<1>6. QED BY <1>1, <1>4, <1>5 DEF q

\* A frame is dropped, or only an inbox, a form or a listener changes.
LEMMA OwnerQuietSteps ==
  ASSUME FlowInv, FlowInv', OwnerInv, NEW c \in Client,
         \/ CallFailed(c) \/ ReceiveMessage(c) \/ SetParameters(c) \/ BlockInfo(c)
         \/ SendTransaction(c)
  PROVE  OwnerInv'
<1> DEFINE a == app[c]
<1>0. a \in AppRecord /\ (UNCHANGED app => Become(c, a))
  BY OwnState DEF FlowInv, Become
<1>1. Goes(a, a) /\ \A x : Goes(a, [a EXCEPT !.form = x]) /\ Goes(a, [a EXCEPT !.inbox = x])
      /\ (a.step # 1 => Goes(a, [a EXCEPT !.ready = TRUE]))
  BY <1>0, GoesSame
<1>2. UNCHANGED <<kind, server, task, invited, approved, calls>>
  BY DEF CallFailed, ReceiveMessage, SetParameters, BlockInfo, SendTransaction, history
<1>3. \/ UNCHANGED frames
      \/ frames[c] # <<>> /\ frames' = [frames EXCEPT ![c] = Tail(frames[c])]
  BY DEF CallFailed, ReceiveMessage, SetParameters, BlockInfo, SendTransaction, Answered, history
<1>4. PICK b : Become(c, b) /\ Goes(a, b)
  <2>1. CASE CallFailed(c)
    BY <1>0, <1>1, <2>1 DEF CallFailed
  <2>2. CASE ReceiveMessage(c)
    <3>1. PICK x : Become(c, a) \/ Become(c, [a EXCEPT !.inbox = x])
      BY <2>2 DEF ReceiveMessage, Become
    <3>2. QED BY <1>1, <3>1
  <2>3. CASE SetParameters(c)
    BY <1>1, <2>3 DEF SetParameters
  <2>4. CASE BlockInfo(c) \/ SendTransaction(c)
    <3>1. a.step # 1 /\ Become(c, [a EXCEPT !.ready = TRUE])
      BY <2>4 DEF BlockInfo, SendTransaction, At
    <3>2. QED BY <1>1, <3>1
  <2>5. QED BY <2>1, <2>2, <2>3, <2>4
<1> HIDE DEF a
<1>5. QED BY <1>2, <1>3, <1>4, GoesStep DEF a

\* A request of a client is known to be one of its kind when the groups and
\* the approvals are what they were.
LEMMA RequestStays ==
  ASSUME FlowInv, OwnerInv, NEW c \in Client, NEW q \in CallRecord,
         \/ q.fn = "message" /\ q.method = "Session.message"
         \/ q.fn = "create" /\ q.method # "Group.create" /\ OfCreator(q) /\ Private(c, q.sid)
            /\ server[q.sid].signups = <<>>
         \/ OfGuest(q) /\ (q.fn = "load" => <<c, q.sid>> \in approved'),
         UNCHANGED <<kind, server, invited>>
  PROVE  RequestFact(c, q)' /\ q.method # "Group.create"
<1>1. CASE q.fn = "message" /\ q.method = "Session.message"
  BY <1>1 DEF RequestFact
<1>2. CASE q.fn = "create" /\ q.method # "Group.create" /\ OfCreator(q) /\ Private(c, q.sid)
           /\ server[q.sid].signups = <<>>
  <2>1. OfCreator(q)' /\ Private(c, q.sid)'
    BY <1>2 DEF OfCreator, Private
  <2>2. QED BY <1>2, <2>1 DEF RequestFact
<1>3. CASE OfGuest(q) /\ (q.fn = "load" => <<c, q.sid>> \in approved')
  <2>1. OfGuest(q)' /\ q.method # "Group.create"
    BY <1>3 DEF OfGuest, JoinMethods
  <2>2. QED BY <1>3, <2>1 DEF RequestFact
<1>4. QED BY <1>1, <1>2, <1>3

\* The delay of the joining page is over.
LEMMA OwnerTimeoutStep ==
  ASSUME FlowInv, FlowInv', OwnerInv, NEW c \in Client, Timeout(c)
  PROVE  OwnerInv'
<1> DEFINE a == app[c]
           n(s) == Call("join", "Group.join", a, s)
<1>0. PICK t \in a.timers :
        /\ Become(c, [a EXCEPT !.timers = @ \ {t}])
        /\ Ask(c, [n(t.sid) EXCEPT !.visit = t.visit])
        /\ UNCHANGED <<kind, server, task, frames, invited, approved>>
  BY DEF Timeout, history
<1>1. a \in AppRecord /\ Awaited(kind, a, calls[c], frames[c])
  BY OwnState DEF FlowInv, Local
<1>2. t \in Visit /\ TimerOnPage(a, t)
  BY <1>1 DEF Awaited, AppRecord
<1>3. n(t.sid) \in CallRecord /\ n(t.sid).fn = "join" /\ n(t.sid).method = "Group.join"
      /\ n(t.sid).sid = t.sid
  BY <1>1, <1>2, CallType DEF Method, Visit
<1> HIDE DEF n
<1>4. PICK q \in CallRecord : q.fn = "join" /\ q.method = "Group.join" /\ q.sid = t.sid /\ Ask(c, q)
  BY <1>0, <1>2, <1>3 DEF CallRecord, Visit
<1>5. Goes(a, [a EXCEPT !.timers = a.timers \ {t}])
  BY <1>1, GoesSame
<1>7. OfGuest(q)
  <2>1. t.sid = a.target /\ a.wizard = "join"
    BY <1>2 DEF TimerOnPage
  <2>2. t.sid \in invited
    BY <2>1 DEF OwnerInv, AppFact
  <2>3. QED BY <1>4, <2>2 DEF OfGuest, JoinMethods
<1>8. RequestFact(c, q)' /\ q.method # "Group.create"
  BY <1>0, <1>4, <1>7, RequestStays
<1>9. QED BY <1>0, <1>4, <1>5, <1>8, GoesStep

\* The message of a round is sent.
LEMMA OwnerSendStep ==
  ASSUME FlowInv, FlowInv', OwnerInv, NEW c \in Client, SendMessage(c)
  PROVE  OwnerInv'
<1> DEFINE a == app[c]
           n(s) == Call("message", "Session.message", a, s)
<1>0. PICK j \in a.jobs :
        /\ Become(c, [a EXCEPT !.jobs = (a.jobs \ {j}) \cup {[j EXCEPT !.at = "sent"]}])
        /\ Ask(c, [n(j.via) EXCEPT !.visit = j.visit])
        /\ UNCHANGED <<kind, server, task, frames, invited, approved>>
  BY DEF SendMessage, history
<1> DEFINE b == [a EXCEPT !.jobs = (a.jobs \ {j}) \cup {[j EXCEPT !.at = "sent"]}]
<1>1. a \in AppRecord /\ a.jobs \in SUBSET Job /\ j \in Job
  BY OwnState DEF FlowInv, AppRecord
<1>2. n(j.via) \in CallRecord /\ n(j.via).fn = "message" /\ n(j.via).method = "Session.message"
  BY <1>1, CallType DEF Method, Job
<1> HIDE DEF n
<1>3. PICK q \in CallRecord : q.fn = "message" /\ q.method = "Session.message" /\ Ask(c, q)
  BY <1>0, <1>1, <1>2 DEF CallRecord, Job
<1>4. Goes(a, b)
  <2> DEFINE J == (a.jobs \ {j}) \cup {[j EXCEPT !.at = "sent"]}
  <2>1. [j EXCEPT !.at = "sent"].sid = j.sid
    BY <1>1 DEF Job
  <2>2. \A k \in J : \E i \in a.jobs : i.sid = k.sid
    BY <2>1
  <2> HIDE DEF J
  <2>3. Goes(a, [a EXCEPT !.jobs = J])
    BY <1>1, <2>2, GoesJobs
  <2>4. QED BY <2>3 DEF J
<1>6. RequestFact(c, q)' /\ q.method # "Group.create"
  BY <1>0, <1>3, RequestStays
<1>7. QED BY <1>0, <1>3, <1>4, <1>6, GoesStep

\* It is sent.
LEMMA OwnerSentStep ==
  ASSUME FlowInv, FlowInv', OwnerInv, NEW c \in Client, MessageSent(c)
  PROVE  OwnerInv'
<1> DEFINE a == app[c]
           q == Answer(c)
           f(j) == IF j.via = q.sid /\ j.visit = q.visit THEN [j EXCEPT !.at = "wait"] ELSE j
           b == [a EXCEPT !.jobs = {f(j) : j \in a.jobs}]
<1>0. Become(c, b) /\ UNCHANGED <<kind, server, calls, task, invited, approved>>
      /\ frames[c] # <<>> /\ frames' = [frames EXCEPT ![c] = Tail(frames[c])]
  BY DEF MessageSent, Answered, history
<1>1. a \in AppRecord /\ a.jobs \in SUBSET Job
  BY OwnState DEF FlowInv, AppRecord
<1>2. Goes(a, b)
  <2> DEFINE J == {f(j) : j \in a.jobs}
  <2>1. \A j \in a.jobs : f(j).sid = j.sid
    BY <1>1 DEF Job
  <2>2. \A k \in J : \E i \in a.jobs : i.sid = k.sid
    BY <2>1
  <2> HIDE DEF J
  <2>3. Goes(a, [a EXCEPT !.jobs = J])
    BY <1>1, <2>2, GoesJobs
  <2>4. QED BY <2>3 DEF J
<1> HIDE DEF b
<1>3. QED BY <1>0, <1>2, GoesStep

\* A page asks for the next thing with the answer to the last one.
LEMMA NextRequest ==
  ASSUME NEW p \in CallRecord, NEW m \in Method
  PROVE  \E q \in CallRecord :
            /\ q = [p EXCEPT !.method = m] /\ q.method = m
            /\ q.fn = p.fn /\ q.sid = p.sid /\ q.number = p.number
<1> DEFINE r == [p EXCEPT !.method = m]
<1>1. r \in CallRecord /\ r.method = m /\ r.fn = p.fn /\ r.sid = p.sid /\ r.number = p.number
  BY DEF CallRecord
<1> HIDE DEF r
<1>2. \E q \in CallRecord : q = r /\ q.method = m /\ q.fn = p.fn /\ q.sid = p.sid /\ q.number = p.number
  BY <1>1
<1>3. QED BY <1>2 DEF r

\* The creator's next request.
LEMMA OwnerCreateGroupStep ==
  ASSUME FlowInv, FlowInv', OwnerInv, NEW c \in Client, CreateGroupSession(c)
  PROVE  OwnerInv'
<1> DEFINE p == Answer(c)
           m == IF p.method = "Group.create" THEN "Session.create"
                ELSE IF p.number = 0 THEN "Session.signup" ELSE "Session.load"
           b == IF p.method = "Group.create" THEN SetGroup(app[c], p.sid) ELSE app[c]
<1>0. Answered(c, "create", {"Group.create", "Session.create"}, TRUE)
      /\ UNCHANGED <<kind, server, task, invited, approved>>
  BY DEF CreateGroupSession, history
<1>1. /\ p \in CallRecord /\ p.method \in {"Group.create", "Session.create"}
      /\ OfCreator(p) /\ Private(c, p.sid) /\ server[p.sid].signups = <<>>
      /\ frames[c] # <<>> /\ frames' = [frames EXCEPT ![c] = Tail(frames[c])]
  <2>1. p.method \in {"Group.create", "Session.create"}
    BY <1>0, AnswerKnown
  <2>2. server[p.sid].signups = IF p.method \in {"Group.create", "Session.create"} THEN <<>>
                                ELSE <<[number |-> p.number, client |-> c]>>
    BY <1>0, AnswerKnown
  <2>3. QED BY <1>0, <2>1, <2>2, AnswerKnown
<1>2. Become(c, b) /\ Ask(c, [Answer(c) EXCEPT !.method = m])
  BY OwnState DEF CreateGroupSession, Become, FlowInv
<1>3. m \in Method \ {"Group.create"}
  BY DEF Method
<1>4. PICK q \in CallRecord : /\ Ask(c, q) /\ q.method = m /\ q.fn = "create"
                              /\ q.sid = p.sid /\ q.number = p.number
  <2>1. p.fn = "create"
    BY <1>0, AnswerKnown
  <2> HIDE DEF m, p
  <2>2. m \in Method
    BY <1>3
  <2>3. PICK q \in CallRecord : q = [p EXCEPT !.method = m] /\ q.method = m
                                /\ q.fn = p.fn /\ q.sid = p.sid /\ q.number = p.number
    BY <1>1, <2>2, NextRequest
  <2>4. Ask(c, q)
    BY <1>2, <2>3 DEF p
  <2>5. QED BY <2>1, <2>3, <2>4
<1>5. OfCreator(q)
  <2>1. p.number = 0 <=> kind = "keygen"
    BY <1>1 DEF OfCreator
  <2>2. m \in {"Session.create", "Session.signup", "Session.load"}
        /\ (m = "Session.signup" => p.number = 0) /\ (m = "Session.load" => p.number # 0)
    OBVIOUS
  <2> HIDE DEF m
  <2>3. QED BY <1>4, <2>1, <2>2 DEF OfCreator, CreateMethods
<1>6. Private(c, q.sid) /\ server[q.sid].signups = <<>> /\ q.method # "Group.create"
  BY <1>1, <1>3, <1>4
<1>7. RequestFact(c, q)'
  BY <1>0, <1>4, <1>5, <1>6, RequestStays
<1>8. Goes(app[c], b)
  <2>1. app[c] \in AppRecord
    BY OwnState DEF FlowInv
  <2>2. Goes(app[c], SetGroup(app[c], p.sid))
    BY <2>1 DEF Goes, SetGroup, Render, AppRecord
  <2>3. QED BY <2>1, <2>2, GoesSame
<1> HIDE DEF b, m
<1>9. QED BY <1>0, <1>1, <1>2, <1>4, <1>6, <1>7, <1>8, GoesStep

\* A guest's next request: it joins the session, and signs up for a new key.
LEMMA OwnerJoinSteps ==
  ASSUME FlowInv, FlowInv', OwnerInv, NEW c \in Client, JoinGroupSession(c) \/ SessionJoined(c)
  PROVE  OwnerInv'
<1>1. app[c] \in AppRecord
  BY OwnState DEF FlowInv
<1>2. Goes(app[c], SetGroup(app[c], Answer(c).sid)) /\ Goes(app[c], app[c])
  BY <1>1, GoesSame DEF Goes, SetGroup, Render, AppRecord
<1>3. PICK b : Become(c, b) /\ Goes(app[c], b)
  <2>1. CASE JoinGroupSession(c)
    BY <1>2, <2>1, OwnState DEF JoinGroupSession, Become, FlowInv
  <2>2. CASE SessionJoined(c)
    BY <1>2, <2>2 DEF SessionJoined
  <2>3. QED BY <2>1, <2>2
<1>4. PICK m \in Method, methods \in SUBSET Method :
        /\ Answered(c, "join", methods, TRUE) /\ Ask(c, [Answer(c) EXCEPT !.method = m])
        /\ m = "Session.join" \/ (m = "Session.signup" /\ kind = "keygen")
        /\ UNCHANGED <<kind, server, task, invited, approved>>
  BY DEF JoinGroupSession, SessionJoined, Method, history
<1>5. OfGuest(Answer(c)) /\ Answer(c) \in CallRecord /\ Answer(c).fn = "join"
      /\ frames[c] # <<>> /\ frames' = [frames EXCEPT ![c] = Tail(frames[c])]
  BY <1>4, AnswerKnown
<1>q. PICK q \in CallRecord : q = [Answer(c) EXCEPT !.method = m] /\ q.method = m
                              /\ q.fn = Answer(c).fn /\ q.sid = Answer(c).sid
  BY <1>4, <1>5, NextRequest
<1>6. q.method = m /\ q.fn = "join" /\ q.sid = Answer(c).sid /\ Ask(c, q)
  BY <1>4, <1>5, <1>q
<1>7. OfGuest(q)
  BY <1>4, <1>5, <1>6 DEF OfGuest, JoinMethods
<1>8. RequestFact(c, q)' /\ q.method # "Group.create"
  BY <1>4, <1>6, <1>7, RequestStays
<1>9. QED BY <1>3, <1>4, <1>5, <1>6, <1>8, GoesStep

\* A guest approves the value, and loads its number.
LEMMA OwnerApproveStep ==
  ASSUME FlowInv, FlowInv', OwnerInv, NEW c \in Client, Approve(c)
  PROVE  OwnerInv'
<1> DEFINE a == app[c]
           n == Call("load", "Session.load", a, a.target)
<1>0. PICK share \in Shares[c] : Ask(c, [n EXCEPT !.number = share])
  BY DEF Approve
<1>1. /\ kind # "keygen" /\ a.wizard = "join" /\ <<c, a.target>> \in approved'
      /\ approved \subseteq approved' /\ UNCHANGED <<kind, server, task, frames, app, invited>>
  BY DEF Approve, At
<1>2. a \in AppRecord /\ a.target \in Sid /\ share \in Nat /\ a.target \in invited
  BY <1>1, OwnState, SharesAssumption DEF FlowInv, Local, Page, OwnerInv, AppFact
<1>3. n \in CallRecord /\ n.fn = "load" /\ n.method = "Session.load" /\ n.sid = a.target
  BY <1>2, CallType DEF Method
<1> HIDE DEF n
<1>4. PICK q \in CallRecord : Ask(c, q) /\ q.fn = "load" /\ q.method = "Session.load" /\ q.sid = a.target
  BY <1>0, <1>2, <1>3 DEF CallRecord
<1>5. OfGuest(q)
  BY <1>1, <1>2, <1>4 DEF OfGuest
<1>6. RequestFact(c, q)' /\ q.method # "Group.create"
  BY <1>1, <1>4, <1>5, RequestStays
<1>7. Become(c, a) /\ Goes(a, a)
  BY <1>1, <1>2, OwnState, GoesSame DEF Become, FlowInv
<1> HIDE DEF a
<1>8. QED BY <1>1, <1>4, <1>6, <1>7, GoesStep DEF a

\* The creator's and the guests' "next" buttons.
LEMMA OwnerNextSteps ==
  ASSUME FlowInv, FlowInv', OwnerInv, NEW c \in Client, Connected(c) \/ InviteNext(c)
  PROVE  OwnerInv'
<1> DEFINE a == app[c]
           h == HandleNext(a)
<1>0. a \in AppRecord /\ UNCHANGED <<kind, server, task, invited, approved, calls, frames>>
  BY OwnState DEF Connected, InviteNext, history, FlowInv
<1>1. CASE Connected(c)
  <2>1. a.wizard = "join" /\ a.step = 0
    BY <1>1 DEF Connected, At
  <2>2. h \in AppRecord /\ h.wizard = a.wizard /\ h.target = a.target /\ h.session = a.session
        /\ h.once = a.once /\ h.jobs = a.jobs
    BY <1>0, <2>1, HandleNextType
  <2>3. PICK t : Become(c, [h EXCEPT !.timers = t])
    BY <1>1 DEF Connected
  <2> HIDE DEF h
  <2>4. Goes(a, [h EXCEPT !.timers = t])
    BY <2>1, <2>2 DEF Goes, AppRecord
  <2>5. QED BY <1>0, <2>3, <2>4, GoesStep
<1>2. CASE InviteNext(c)
  <2> DEFINE b == ShowCompute(a)
  <2>1. a.wizard = "create" /\ a.step = 1 /\ Become(c, b)
    BY <1>2 DEF InviteNext, At
  <2>2. b \in AppRecord /\ b.step \in {2, 3} /\ b.wizard = a.wizard /\ b.target = a.target
        /\ b.session = a.session /\ b.once = a.once /\ b.jobs = a.jobs
    BY <1>0, <2>1, ShowComputeType
  <2> HIDE DEF b
  <2>3. Goes(a, b)
    BY <2>1, <2>2 DEF Goes
  <2>4. QED BY <1>0, <2>1, <2>3, GoesStep
<1>3. QED BY <1>1, <1>2

\* The creator has signed up: first of all.
LEMMA OwnerInviteSteps ==
  ASSUME FlowInv, FlowInv', OwnerInv, NEW c \in Client,
         KeyInvite(c) \/ OnMessage(c) \/ OnTransaction(c)
  PROVE  OwnerInv'
<1> DEFINE q == Answer(c)
           d == Created(app[c], q)
<1>0. PICK methods :
        /\ Answered(c, "create", methods, TRUE) /\ methods \in {{"Session.signup"}, {"Session.load"}}
        /\ UNCHANGED <<kind, server, calls, task, invited, approved>>
  BY DEF KeyInvite, OnMessage, OnTransaction, SignInvite, history
<1>1. /\ q \in CallRecord /\ TalkOnPage(kind, app[c], q) /\ q.fn = "create" /\ Private(c, q.sid)
      /\ server[q.sid].signups = <<[number |-> q.number, client |-> c]>>
      /\ frames[c] # <<>> /\ frames' = [frames EXCEPT ![c] = Tail(frames[c])]
  <2>1. q.method \in methods /\ q.method \notin {"Group.create", "Session.create"}
    BY <1>0, AnswerKnown
  <2>2. server[q.sid].signups = IF q.method \in {"Group.create", "Session.create"} THEN <<>>
                                ELSE <<[number |-> q.number, client |-> c]>>
    BY <1>0, AnswerKnown
  <2>3. QED BY <1>0, <2>1, <2>2, AnswerKnown
<1>2. app[c] \in AppRecord /\ app[c].wizard = "create" /\ app[c].step = 0
  BY <1>1, OwnState DEF TalkOnPage, FlowInv
<1>3. /\ d \in AppRecord /\ d.session = q.sid /\ d.once = {}
      /\ d.wizard = "create" /\ d.step = 0 /\ d.jobs = app[c].jobs /\ Mounted(d, q)
      /\ q.sid \in Sid
  BY <1>1, <1>2, CreatedPage
<1>4. PICK b : /\ Become(c, b) /\ b.session = q.sid /\ b.wizard = "create" /\ b.step = 1 /\ ~b.ready
               /\ \A v \in b.once : v.sid = q.sid
               /\ b.jobs = app[c].jobs
  <2>1. CASE KeyInvite(c)
    <3> DEFINE h == HandleNext(d)
               v == [sid |-> q.sid, visit |-> q.visit]
               b == [h EXCEPT !.once = h.once \cup {v}]
    <3>1. Become(c, b)
      BY <1>3, <2>1 DEF KeyInvite
    <3> HIDE DEF d
    <3>2. h \in AppRecord /\ h.session = q.sid /\ h.once = {} /\ h.wizard = "create" /\ h.step = 1
          /\ h.jobs = app[c].jobs /\ ~h.ready
      BY <1>3, HandleNextType, NotReady
    <3> HIDE DEF h
    <3>3. b.session = q.sid /\ b.once = {v} /\ b.wizard = "create" /\ b.step = 1
          /\ b.jobs = app[c].jobs /\ ~b.ready
      BY <3>2 DEF AppRecord
    <3> HIDE DEF b
    <3>4. QED BY <3>1, <3>3
  <2>2. CASE OnMessage(c) \/ OnTransaction(c)
    <3> DEFINE a == Render([d EXCEPT !.candidate = q.sid])
               h == HandleNext(a)
    <3>1. Become(c, IF Mounted(a, q) THEN h ELSE a)
      BY <2>2 DEF OnMessage, OnTransaction, SignInvite
    <3> HIDE DEF d
    <3>2. a \in AppRecord /\ a.session = q.sid /\ a.once = {} /\ a.wizard = "create" /\ a.step = 0
          /\ a.jobs = app[c].jobs /\ a.visit = d.visit
      BY <1>3, CandidateType
    <3>3. Mounted(a, q)
      BY <1>3, <3>2 DEF Mounted
    <3> HIDE DEF a
    <3>4. h \in AppRecord /\ h.session = q.sid /\ h.once = {} /\ h.wizard = "create" /\ h.step = 1
          /\ h.jobs = app[c].jobs /\ ~h.ready
      BY <3>2, HandleNextType, NotReady
    <3> HIDE DEF h
    <3>5. QED BY <3>1, <3>3, <3>4
  <2>3. QED BY <2>1, <2>2
<1>5. b \in AppRecord
  BY <1>4 DEF FlowInv, TypeOK, Become
<1>6. AppFact(c, b)'
  <2>1. \A j \in app[c].jobs : j.sid \in invited
    BY DEF OwnerInv, AppFact
  <2>2. server'[b.session].signups # <<>> /\ server'[b.session].signups[1].client = c
    <3> DEFINE r == [number |-> q.number, client |-> c]
    <3>1. server'[b.session].signups = <<r>> /\ r.client = c
      BY <1>0, <1>1, <1>4
    <3> HIDE DEF r
    <3>2. <<r>> # <<>> /\ <<r>>[1] = r
      OBVIOUS
    <3>3. QED BY <3>1, <3>2
  <2>3. QED BY <1>0, <1>4, <2>1, <2>2 DEF AppFact
<1>7. QED BY <1>0, <1>1, <1>4, <1>5, <1>6, OwnerOwnStep

\* A guest has fetched the value, signed up or loaded its number.
LEMMA OwnerGuestSteps ==
  ASSUME FlowInv, FlowInv', OwnerInv, NEW c \in Client,
         SignedUp(c) \/ SessionFetched(c) \/ Loaded(c)
  PROVE  OwnerInv'
<1> DEFINE q == Answer(c)
           o == app[c]
           d == Created(o, q)
<1>0. PICK fn \in {"create", "join", "load"}, methods \in SUBSET Method :
        /\ Answered(c, fn, methods, TRUE) /\ fn # "create"
        /\ UNCHANGED <<kind, server, calls, task, invited, approved>>
  <2>1. UNCHANGED <<kind, server, calls, task, invited, approved>>
    BY DEF SignedUp, SessionFetched, Loaded, history
  <2>2. \/ Answered(c, "join", {"Session.signup"}, TRUE)
        \/ Answered(c, "join", {"Session.join"}, TRUE)
        \/ Answered(c, "load", {"Session.load"}, TRUE)
    BY DEF SignedUp, SessionFetched, Loaded
  <2>3. {"Session.signup"} \in SUBSET Method /\ {"Session.join"} \in SUBSET Method
        /\ {"Session.load"} \in SUBSET Method
    BY DEF Method
  <2>4. QED BY <2>1, <2>2, <2>3
<1>1. /\ q \in CallRecord /\ TalkOnPage(kind, o, q) /\ q.fn \in {"join", "load"}
      /\ frames[c] # <<>> /\ frames' = [frames EXCEPT ![c] = Tail(frames[c])]
  BY <1>0, AnswerKnown
<1>2. o \in AppRecord /\ o.wizard = "join" /\ o.step = 1 /\ o.once = {} /\ q.sid \in Sid
  BY <1>1, OwnState DEF TalkOnPage, FlowInv, CallRecord
<1>3. /\ d \in AppRecord /\ d.session = q.sid /\ d.once = {} /\ d.wizard = "join" /\ d.step = 1
      /\ d.target = o.target /\ d.jobs = o.jobs
  BY <1>1, <1>2, CreatedPage
<1> HIDE DEF o
<1>4. PICK b : /\ Become(c, b) /\ b.session = q.sid /\ b.wizard = "join" /\ b.target = o.target
               /\ \A v \in b.once : v.sid = q.sid
               /\ b.jobs = o.jobs
  <2>1. CASE SignedUp(c)
    <3> DEFINE v == [sid |-> q.sid, visit |-> q.visit]
               b == [d EXCEPT !.once = d.once \cup {v}]
    <3>1. Become(c, b)
      BY <2>1 DEF SignedUp, o
    <3> HIDE DEF d
    <3>2. b.session = q.sid /\ b.once = {v} /\ b.wizard = "join" /\ b.target = o.target
          /\ b.jobs = o.jobs
      BY <1>3 DEF AppRecord
    <3> HIDE DEF b
    <3>3. QED BY <3>1, <3>2
  <2>2. CASE Loaded(c)
    <3> DEFINE a == Render([d EXCEPT !.candidate = q.sid])
               h == ShowCompute(a)
    <3>1. Become(c, IF Mounted(a, q) THEN h ELSE a)
      BY <2>2 DEF Loaded, o
    <3> HIDE DEF d
    <3>2. a \in AppRecord /\ a.session = q.sid /\ a.once = {} /\ a.wizard = "join" /\ a.step = 1
          /\ a.jobs = o.jobs /\ a.target = o.target
      BY <1>2, <1>3, CandidateType
    <3> HIDE DEF a
    <3>3. h.session = q.sid /\ h.once = {} /\ h.wizard = "join"
          /\ h.jobs = o.jobs /\ h.target = o.target
      BY <3>2, ShowComputeType
    <3> HIDE DEF h
    <3>4. QED BY <3>1, <3>2, <3>3
  <2>3. CASE SessionFetched(c)
    <3> DEFINE g == SetGroup(o, q.sid)
               a == SetSession(g, q.sid, 0)
               b == [a EXCEPT !.ready = TRUE]
    <3>1. Become(c, IF Mounted(a, q) THEN b ELSE a)
      BY <2>3 DEF SessionFetched, o
    <3>2. g \in AppRecord /\ Same(o, g)
      BY <1>1, <1>2, SetGroupType
    <3> HIDE DEF g
    <3>3. a \in AppRecord /\ a.session = q.sid /\ a.once = {} /\ a.wizard = "join"
          /\ a.jobs = o.jobs /\ a.target = o.target
      BY <1>2, <3>2, SetSessionType DEF Same
    <3> HIDE DEF a
    <3>4. b.session = q.sid /\ b.once = {} /\ b.wizard = "join"
          /\ b.jobs = o.jobs /\ b.target = o.target
      BY <3>3 DEF AppRecord
    <3> HIDE DEF b
    <3>5. QED BY <3>1, <3>3, <3>4
  <2>4. QED BY <2>1, <2>2, <2>3
<1>5. b \in AppRecord
  BY <1>4 DEF FlowInv, TypeOK, Become
<1>6. AppFact(c, b)'
  <2>1. (\A j \in o.jobs : j.sid \in invited) /\ o.target \in invited
    BY <1>2 DEF OwnerInv, AppFact, o
  <2>2. QED BY <1>0, <1>4, <2>1 DEF AppFact
<1>7. QED BY <1>0, <1>1, <1>4, <1>5, <1>6, OwnerOwnStep

\* Everybody is told of a complete session, which others were invited to.
LEMMA ReadyKnown ==
  ASSUME FlowInv, OwnerInv, NEW c \in Client, frames[c] # <<>>, Head(frames[c]).type = "ready"
  PROVE  Head(frames[c]).sid \in invited
<1>1. frames[c] \in Seq(Frame) /\ \A i \in 1 .. Len(frames[c]) : FrameFact(c, frames[c][i])
  BY OwnState DEF FlowInv, OwnerInv
<1>2. Head(frames[c]) = frames[c][1] /\ 1 \in 1 .. Len(frames[c])
  BY <1>1, TailElements
<1>3. QED BY <1>1, <1>2 DEF FrameFact

\* A computation starts.
LEMMA OwnerReadySteps ==
  ASSUME FlowInv, FlowInv', OwnerInv, NEW c \in Client, SessionSignup(c) \/ SessionLoad(c)
  PROVE  OwnerInv'
<1> DEFINE o == app[c]
           s == Head(frames[c]).sid
<1>0. /\ frames[c] # <<>> /\ frames' = [frames EXCEPT ![c] = Tail(frames[c])]
      /\ UNCHANGED <<kind, server, calls, task, invited, approved>> /\ s \in invited
      /\ o \in AppRecord /\ Page(kind, o) /\ \A v \in o.once : v.sid = o.session
  BY ReadyKnown, OwnState DEF SessionSignup, SessionLoad, history, FlowInv, Local, OwnerInv, AppFact
<1>1. CASE SessionSignup(c)
  <2> DEFINE a == [o EXCEPT !.once = {}]
             heard == \E v \in o.once : v.sid = s /\ Mounted(a, v)
             h == HandleNext(a)
             j == [sid |-> a.session, via |-> a.transport, number |-> a.number, visit |-> a.visit,
                   at |-> "send"]
             b == [h EXCEPT !.jobs = h.jobs \cup {j}]
  <2>1. Become(c, IF heard THEN b ELSE a)
    BY <1>1 DEF SessionSignup, Compute
  <2>2. a \in AppRecord /\ Goes(o, a) /\ a.wizard = o.wizard /\ a.session = o.session
        /\ a.target = o.target /\ a.step = o.step /\ a.once = {} /\ a.jobs = o.jobs
    <3>1. a \in AppRecord
      BY <1>0, FieldTypes
    <3>2. QED BY <1>0, <3>1 DEF Goes, AppRecord
  <2> HIDE DEF a, o
  <2>3. CASE heard
    <3>1. o.step = 1 /\ o.session = s
      BY <1>0, <2>3 DEF Page
    <3>2. h \in AppRecord /\ h.step = 2 /\ h.wizard = o.wizard /\ h.session = o.session
          /\ h.target = o.target /\ h.once = {} /\ h.jobs = o.jobs
      BY <2>2, <3>1, HandleNextType
    <3>3. j.sid = s
      BY <2>2, <3>1
    <3> HIDE DEF h, j
    <3>4. b.step = 2 /\ b.wizard = o.wizard /\ b.session = o.session
          /\ b.target = o.target /\ b.once = {} /\ b.jobs = o.jobs \cup {j}
      BY <3>2 DEF AppRecord
    <3> HIDE DEF b
    <3>5. Goes(o, b)
      BY <1>0, <3>1, <3>3, <3>4 DEF Goes
    <3>6. QED BY <1>0, <2>1, <2>3, <3>5, GoesStep DEF o
  <2>4. CASE ~heard
    BY <1>0, <2>1, <2>2, <2>4, GoesStep DEF o
  <2>5. QED BY <2>3, <2>4
<1>2. CASE SessionLoad(c)
  <2> DEFINE a == [o EXCEPT !.signer = FALSE]
             heard == o.signer /\ a.session = s /\ a.candidate # 0
             j == [sid |-> s, via |-> a.transport, number |-> a.number, visit |-> a.visit,
                   at |-> "send"]
             b == [a EXCEPT !.jobs = a.jobs \cup {j}]
  <2>1. Become(c, IF heard THEN b ELSE a)
    BY <1>2 DEF SessionLoad
  <2>2. Goes(o, a) /\ a \in AppRecord /\ a.jobs = o.jobs
    <3>1. a \in AppRecord
      BY <1>0, FieldTypes
    <3>2. QED BY <1>0, <3>1, GoesSame DEF AppRecord
  <2>3. j.sid = s
    OBVIOUS
  <2> HIDE DEF a, j, o
  <2>4. Goes(o, b)
    BY <1>0, <2>2, <2>3 DEF Goes, AppRecord
  <2> HIDE DEF b
  <2>5. QED BY <1>0, <2>1, <2>2, <2>4, GoesStep DEF o
<1>3. QED BY <1>1, <1>2

\* A computation ends.
LEMMA OwnerEndSteps ==
  ASSUME FlowInv, FlowInv', OwnerInv, NEW c \in Client, KeyComputed(c) \/ SignDone(c)
  PROVE  OwnerInv'
<1> DEFINE o == app[c]
<1>0. /\ o \in AppRecord /\ o.jobs \in SUBSET Job /\ Page(kind, o) /\ Computing(kind, o)
      /\ UNCHANGED <<kind, server, calls, task, frames, invited, approved>>
  BY OwnState DEF KeyComputed, SignDone, FlowInv, Local, AppRecord
<1>1. CASE KeyComputed(c)
  <2> DEFINE a(j) == [o EXCEPT !.jobs = o.jobs \ {j}, !.inbox[j.via] = {}]
  <2>1. PICK j \in o.jobs : Become(c, IF Mounted(a(j), j) THEN HandleNext(a(j)) ELSE a(j)) /\ kind = "keygen"
    BY <1>1 DEF KeyComputed
  <2> DEFINE b == a(j)
             h == HandleNext(b)
  <2>2. [o.inbox EXCEPT ![j.via] = {}] \in [Sid -> SUBSET Client] /\ o.jobs \ {j} \in SUBSET Job
    BY <1>0 DEF AppRecord, Job
  <2>3. b \in AppRecord /\ b.jobs = o.jobs \ {j} /\ Goes(o, b)
        /\ \A x \in {"wizard", "step", "visit", "target", "session", "once"} : b[x] = o[x]
    BY <1>0, <2>2 DEF AppRecord, Goes
  <2> HIDE DEF a, o
  <2>4. CASE Mounted(b, j)
    <3>1. o.step = 2
      BY <1>0, <2>1, <2>3, <2>4 DEF Computing, Mounted
    <3>2. /\ h.step = 3 /\ h.jobs = o.jobs \ {j}
          /\ \A x \in {"wizard", "target", "session", "once"} : h[x] = o[x]
      BY <2>3, <3>1, HandleNextType
    <3>3. Become(c, h)
      BY <2>1, <2>4
    <3> HIDE DEF h
    <3>4. Goes(o, h)
      BY <3>1, <3>2 DEF Goes
    <3>5. QED BY <1>0, <3>3, <3>4, GoesStep DEF o
  <2>5. CASE ~Mounted(b, j)
    BY <1>0, <2>1, <2>3, <2>5, GoesStep DEF o
  <2>6. QED BY <2>4, <2>5
<1>2. CASE SignDone(c)
  <2> DEFINE r(j) == [o EXCEPT !.jobs = o.jobs \ {j}, !.inbox[j.via] = {}, !.sinks = <<>>, !.proof = j.sid]
             a(j) == Render(r(j))
  <2>1. PICK j \in o.jobs : Become(c, IF a(j).wizard # "none" /\ a(j).step = 2 THEN HandleNext(a(j)) ELSE a(j))
    BY <1>2 DEF SignDone
  <2> DEFINE d == r(j)
             b == Render(d)
             h == HandleNext(b)
  <2>2. [o.inbox EXCEPT ![j.via] = {}] \in [Sid -> SUBSET Client] /\ o.jobs \ {j} \in SUBSET Job
        /\ j.sid \in 0 .. MaxSessions /\ <<>> \in Seq(Sid)
    <3>1. j \in Job /\ o.jobs \ {j} \in SUBSET Job /\ <<>> \in Seq(Sid)
      BY <1>0
    <3>2. j.sid \in 0 .. MaxSessions /\ j.via \in Sid
      BY <3>1, BoundsAssumption DEF Job, Sid
    <3>3. [o.inbox EXCEPT ![j.via] = {}] \in [Sid -> SUBSET Client]
      BY <1>0, <3>2 DEF AppRecord
    <3>4. QED BY <3>1, <3>2, <3>3
  <2>3. d \in AppRecord /\ d.jobs = o.jobs \ {j} /\ d.ready = o.ready
        /\ \A x \in {"wizard", "step", "target", "session", "once"} : d[x] = o[x]
    BY <1>0, <2>2 DEF AppRecord
  <2>4. a(j) = b
    OBVIOUS
  <2> HIDE DEF r, a, o
  <2>5. b \in AppRecord /\ b.jobs = o.jobs \ {j} /\ b.ready = o.ready
        /\ \A x \in {"wizard", "step", "target", "session", "once"} : b[x] = o[x]
    <3>1. b \in AppRecord
      BY <2>3, RenderType
    <3>2. b.jobs = d.jobs /\ b.ready = d.ready
          /\ \A x \in {"wizard", "step", "target", "session", "once"} : b[x] = d[x]
      BY <2>3 DEF Render, AppRecord
    <3>3. QED BY <2>3, <3>1, <3>2
  <2> HIDE DEF d
  <2>6. CASE b.wizard # "none" /\ b.step = 2
    <3>1. /\ h.step = 3 /\ h.jobs = o.jobs \ {j}
          /\ \A x \in {"wizard", "target", "session", "once"} : h[x] = o[x]
      BY <2>5, <2>6, HandleNextType
    <3>2. Become(c, h)
      BY <2>1, <2>4, <2>6
    <3> HIDE DEF h
    <3>3. o.step = 2
      BY <2>5, <2>6
    <3>4. Goes(o, h)
      BY <3>1, <3>3 DEF Goes
    <3>5. QED BY <1>0, <3>2, <3>4, GoesStep DEF o
  <2>7. CASE ~(b.wizard # "none" /\ b.step = 2)
    <3>1. Goes(o, b)
      BY <2>5 DEF Goes
    <3>2. QED BY <1>0, <2>1, <2>4, <2>7, <3>1, GoesStep DEF o
  <2>8. QED BY <2>6, <2>7
<1>3. QED BY <1>1, <1>2

\* Wizards are opened.
LEMMA OwnerOpenSteps ==
  ASSUME FlowInv, FlowInv', OwnerInv, NEW c \in Client, OpenCreate(c) \/ OpenSign(c) \/ FollowLink(c)
  PROVE  OwnerInv'
<1> DEFINE o == app[c]
<1>0. /\ UNCHANGED <<kind, server, calls, task, frames, invited, approved>> /\ CanOpen(c)
  BY DEF OpenCreate, OpenSign, FollowLink, OpenJoin, OpenSignJoin, history
<1>1. o \in AppRecord /\ o.wizard = "none" /\ o.step = 0 /\ o.once = {}
  BY <1>0, OwnState DEF CanOpen, FlowInv, Local, Page
<1>2. PICK w \in {"create", "join"}, s \in 0 .. MaxSessions :
        /\ w = "join" => s \in invited
        /\ \/ Become(c, Opened(o, w, s))
           \/ Become(c, [Opened(o, w, s) EXCEPT !.form = DefaultForm])
           \/ Become(c, ClearSign(Opened(o, w, s)))
  <2>1. CASE OpenCreate(c) \/ OpenSign(c)
    BY <2>1, BoundsAssumption DEF OpenCreate, OpenSign
  <2>2. CASE FollowLink(c)
    <3>1. PICK s \in invited : OpenJoin(c, s) \/ OpenSignJoin(c, s)
      BY <2>2 DEF FollowLink
    <3>2. s \in 0 .. MaxSessions
      BY BoundsAssumption DEF FlowInv, TypeOK, Sid
    <3>3. Become(c, Opened(o, "join", s)) \/ Become(c, ClearSign(Opened(o, "join", s)))
      BY <3>1 DEF OpenJoin, OpenSignJoin
    <3>4. QED BY <3>2, <3>3
  <2>3. QED BY <2>1, <2>2
<1> DEFINE a == Opened(o, w, s)
<1>3. a \in AppRecord /\ a.wizard = w /\ a.target = s /\ a.step = 0 /\ a.once = {} /\ a.jobs = o.jobs
  BY <1>1, OpenedType
<1> HIDE DEF o, a
<1>4. PICK b : /\ Become(c, b) /\ b.wizard = w /\ b.target = s /\ b.step = 0 /\ b.once = {}
               /\ b.jobs = o.jobs
  <2>1. CASE Become(c, a)
    BY <1>3, <2>1
  <2>2. CASE Become(c, [a EXCEPT !.form = DefaultForm])
    <3> DEFINE b == [a EXCEPT !.form = DefaultForm]
    <3>1. b.wizard = w /\ b.target = s /\ b.step = 0 /\ b.once = {} /\ b.jobs = o.jobs
      BY <1>3 DEF AppRecord
    <3> HIDE DEF b
    <3>2. QED BY <2>2, <3>1 DEF b
  <2>3. CASE Become(c, ClearSign(a))
    <3> DEFINE b == ClearSign(a)
    <3>1. b.wizard = w /\ b.target = s /\ b.step = 0 /\ b.once = {} /\ b.jobs = o.jobs
      BY <1>3, ClearSignType
    <3> HIDE DEF b
    <3>2. QED BY <2>3, <3>1 DEF b
  <2>4. QED BY <1>2, <2>1, <2>2, <2>3 DEF a
<1>5. b \in AppRecord
  BY <1>4 DEF FlowInv, TypeOK, Become
<1>6. AppFact(c, b)'
  <2>1. \A j \in o.jobs : j.sid \in invited
    BY DEF OwnerInv, AppFact, o
  <2>2. QED BY <1>0, <1>2, <1>4, <2>1 DEF AppFact
<1>7. QED BY <1>0, <1>4, <1>5, <1>6, OwnerOwnStep

\* Wizards are left.
LEMMA OwnerLeaveSteps ==
  ASSUME FlowInv, FlowInv', OwnerInv, NEW c \in Client,
         Save(c) \/ SaveProof(c) \/ FinishTransaction(c) \/ Finish(c) \/ Leave(c)
  PROVE  OwnerInv'
<1> DEFINE b == Unmount(app[c])
<1>1. /\ Become(c, b) /\ UNCHANGED <<kind, server, calls, task, frames, invited, approved>>
  BY DEF Save, SaveProof, FinishTransaction, Finish, Leave, history
<1>2. b \in AppRecord /\ b.wizard = "none" /\ b.once = {} /\ b.jobs = app[c].jobs
  BY OwnState, UnmountType DEF FlowInv
<1>3. \A j \in app[c].jobs : j.sid \in invited
  BY DEF OwnerInv, AppFact
<1>4. PICK d \in AppRecord : Become(c, d) /\ d.wizard = "none" /\ d.once = {} /\ d.jobs = app[c].jobs
  BY <1>1, <1>2
<1> HIDE DEF b
<1>5. AppFact(c, d)'
  BY <1>1, <1>3, <1>4 DEF AppFact
<1>6. QED BY <1>1, <1>4, <1>5, OwnerOwnStep

\* The creator approves the value.
LEMMA OwnerApproveOwnStep ==
  ASSUME FlowInv, FlowInv', OwnerInv, NEW c \in Client, ApproveOwn(c)
  PROVE  OwnerInv'
<1> DEFINE o == app[c]
<1>1. /\ o.wizard = "create" /\ o.step = 1 /\ <<c, o.session>> \in approved' /\ approved \subseteq approved'
      /\ UNCHANGED <<kind, server, calls, task, frames, invited>>
  BY DEF ApproveOwn, At
<1>2. PICK b : Become(c, b) /\ b = [o EXCEPT !.ready = TRUE]
  BY DEF ApproveOwn
<1>3. b \in AppRecord
  BY <1>2 DEF FlowInv, TypeOK, Become
<1>4. o \in AppRecord /\ AppFact(c, o) /\ Page(kind, o)
  BY OwnState DEF FlowInv, OwnerInv, Local
<1> HIDE DEF o
<1>5. \A x \in {"wizard", "target", "session", "step", "once", "jobs"} : b[x] = o[x]
  BY <1>2, <1>4 DEF AppRecord
<1>6. AppFact(c, b)'
  BY <1>1, <1>4, <1>5 DEF AppFact
<1>7. QED BY <1>1, <1>2, <1>3, <1>6, OwnerOwnStep

\* A request that proposes a group is its creator's, and the group is one of
\* the sessions.
LEMMA ProposalKnown ==
  ASSUME FlowInv, OwnerInv, NEW c \in Client, NEW s \in Sid, Proposes(calls[c], s)
  PROVE  s <= Sessions /\ ~Used(s) /\ s \notin invited
<1>1. PICK i \in 1 .. Len(calls[c]) : calls[c][i].method = "Group.create" /\ calls[c][i].sid = s
  BY DEF Proposes
<1>2. RequestFact(c, calls[c][i])
  BY DEF OwnerInv
<1>3. s <= Sessions /\ ~Used(s)
  BY <1>1, <1>2 DEF RequestFact, OfGuest, JoinMethods
<1>4. GroupFact(s)
  BY DEF OwnerInv
<1>5. QED BY <1>3, <1>4 DEF GroupFact

\* A proposal is one session more.
LEMMA SessionsMore ==
  ASSUME NEW c \in Client, UNCHANGED server, NEW q, q.method = "Group.create",
         \A d \in Client \ {c} : calls'[d] = calls[d], calls[c] = <<>>, calls'[c] = <<q>>
  PROVE  Sessions' = Sessions + 1
<1> DEFINE U == {s \in Sid : server[s].members # {}}
           C == {d \in Client : \E i \in 1 .. Len(calls[d]) : calls[d][i].method = "Group.create"}
           D == {d \in Client : \E i \in 1 .. Len(calls'[d]) : calls'[d][i].method = "Group.create"}
<1>1. IsFiniteSet(Sid)
  BY FiniteSessions
<1>2. IsFiniteSet(U) /\ IsFiniteSet(C)
  <2>1. U \subseteq Sid /\ C \subseteq Client
    OBVIOUS
  <2> HIDE DEF U, C
  <2>2. QED BY <1>1, <2>1, ClientAssumption, FS_Subset
<1>3. c \notin C
  <2>1. 1 .. Len(calls[c]) = {}
    OBVIOUS
  <2>2. QED BY <2>1
<1>4. c \in D
  <2>1. 1 \in 1 .. Len(calls'[c]) /\ calls'[c][1] = q
    OBVIOUS
  <2>2. QED BY <2>1
<1>5. D = C \cup {c}
  <2>1. \A d \in Client \ {c} : d \in D <=> d \in C
    OBVIOUS
  <2>2. D \subseteq Client /\ C \subseteq Client
    OBVIOUS
  <2> HIDE DEF C, D
  <2>3. QED BY <1>4, <2>1, <2>2
<1>6. Sessions = Cardinality(U) + Cardinality(C) /\ Sessions' = Cardinality(U) + Cardinality(D)
  BY DEF Sessions
<1> HIDE DEF U, C, D
<1>7. Cardinality(D) = Cardinality(C) + 1
  <2>1. Cardinality(C \cup {c}) = Cardinality(C) + 1
    BY <1>2, <1>3, FS_AddElement
  <2>2. QED BY <1>5, <2>1
<1>8. Cardinality(U) \in Nat /\ Cardinality(C) \in Nat
  BY <1>2, FS_CardinalityType
<1>9. QED BY <1>6, <1>7, <1>8

\* A group is proposed.
LEMMA OwnerProposeStep ==
  ASSUME FlowInv, FlowInv', OwnerInv, NEW c \in Client, NEW q \in CallRecord, Ask(c, q),
         calls[c] = <<>>, q.method = "Group.create", q.fn = "create", q.sid = Sessions + 1,
         q.number = 0 <=> kind = "keygen",
         UNCHANGED <<kind, server, task, frames, app, invited, approved>>
  PROVE  OwnerInv'
<1> USE DEF FlowInv
<1>0. ASSUME NEW d \in Client
      PROVE  /\ app[d] \in AppRecord /\ calls[d] \in Seq(CallRecord) /\ frames[d] \in Seq(Frame)
             /\ Page(kind, app[d])
             /\ AppFact(d, app[d])
             /\ \A i \in 1 .. Len(calls[d]) : RequestFact(d, calls[d][i])
             /\ \A i \in 1 .. Len(frames[d]) : FrameFact(d, frames[d][i])
  BY OwnState DEF Local, OwnerInv
<1>1. calls'[c] = <<q>> /\ \A d \in Client \ {c} : calls'[d] = calls[d]
  BY DEF TypeOK, Ask
<1>2. Sessions' = Sessions + 1 /\ Sessions \in Nat /\ q.sid \in Sid
  BY <1>1, SessionsMore, SessionsCount DEF CallRecord
<1>3. GroupFact(q.sid) /\ ~Used(q.sid) /\ server[q.sid].signups = <<>>
  <2>1. GroupFact(q.sid)
    BY <1>2 DEF OwnerInv
  <2>2. QED BY <1>2, <2>1 DEF GroupFact
<1>4. RequestFact(c, q)'
  <2>1. OfCreator(q)' /\ ~Used(q.sid)' /\ server'[q.sid].signups = <<>> /\ q.sid <= Sessions'
    BY <1>2, <1>3 DEF OfCreator, CreateMethods, Used
  <2>2. QED BY <2>1 DEF RequestFact
<1>5. ASSUME NEW d \in Client, NEW i \in 1 .. Len(calls'[d])
      PROVE  RequestFact(d, calls[d][i])'
  <2>1. CASE d = c
    BY <1>1, <1>4, <2>1
  <2>2. CASE d # c
    <3>1. calls'[d][i] = calls[d][i] /\ calls[d][i] \in CallRecord /\ RequestFact(d, calls[d][i])
      BY <1>0, <1>1, <2>2
    <3>2. QED BY <1>2, <3>1, RequestKept
  <2>3. QED BY <2>1, <2>2
<1>6. ASSUME NEW d \in Client, NEW i \in 1 .. Len(frames'[d])
      PROVE  FrameFact(d, frames[d][i])'
  BY <1>0, FrameKept
<1>7. ASSUME NEW d \in Client PROVE AppFact(d, app[d])'
  BY <1>0, AppKept
<1>8. ASSUME NEW s \in Sid PROVE GroupFact(s)'
  BY <1>2, GroupKept DEF OwnerInv
<1>9. ASSUME NEW d \in Client, NEW e \in Client, NEW s \in Sid,
             Proposes(calls'[d], s), Proposes(calls'[e], s)
      PROVE  d = e
  <2>1. s = q.sid => d = c /\ e = c
    <3>1. \A x \in Client \ {c} : ~Proposes(calls[x], q.sid)
      BY <1>2, ProposalKnown
    <3>2. QED BY <1>1, <1>9, <3>1
  <2>2. s # q.sid => d # c /\ e # c
    BY <1>1, <1>9 DEF Proposes
  <2>3. CASE s # q.sid
    BY <1>1, <1>9, <2>2, <2>3 DEF OwnerInv
  <2>4. QED BY <2>1, <2>3
<1>10. QED BY <1>5, <1>6, <1>7, <1>8, <1>9 DEF OwnerInv

\* A form is submitted.
LEMMA OwnerSubmitSteps ==
  ASSUME FlowInv, FlowInv', OwnerInv, NEW c \in Client,
         SubmitParameters(c) \/ SubmitMessage(c) \/ SubmitTransaction(c)
  PROVE  OwnerInv'
<1> DEFINE a == app[c]
           n == Call("create", "Group.create", a, Sessions + 1)
<1>1. /\ ~Pending(c) /\ Sessions < MaxSessions
      /\ UNCHANGED <<kind, server, task, frames, app, invited, approved>>
  BY DEF SubmitParameters, SubmitMessage, SubmitTransaction, CreateFor, history
<1>2. a \in AppRecord /\ Sessions + 1 \in Sid /\ calls[c] = <<>>
  BY <1>1, OwnState, SessionsCount, BoundsAssumption DEF Sid, FlowInv, Pending
<1>3. n \in CallRecord /\ n.fn = "create" /\ n.method = "Group.create" /\ n.sid = Sessions + 1
      /\ n.number = 0
  BY <1>2, CallType DEF Method
<1>4. PICK q \in CallRecord : /\ Ask(c, q) /\ q.method = "Group.create" /\ q.fn = "create"
                              /\ q.sid = Sessions + 1 /\ (q.number = 0 <=> kind = "keygen")
  <2>1. CASE SubmitParameters(c)
    <3> DEFINE f == a.form
               p == [f EXCEPT !.threshold = f.threshold - 1]
               q == [n EXCEPT !.params = p]
    <3>1. Ask(c, q) /\ kind = "keygen" /\ a.wizard = "create"
      BY <2>1 DEF SubmitParameters, At
    <3>2. p \in Form
      <4>1. f \in Form /\ ValidForm(f)
        BY <3>1, OwnState DEF FlowInv, Local, Page, AppRecord
      <4>2. QED BY <4>1 DEF Form, ValidForm
    <3> HIDE DEF n, p
    <3>3. q \in CallRecord /\ q.method = "Group.create" /\ q.fn = "create" /\ q.sid = Sessions + 1
          /\ q.number = 0
      BY <1>3, <3>2 DEF CallRecord
    <3> HIDE DEF q
    <3>4. QED BY <3>1, <3>3
  <2>2. CASE SubmitMessage(c) \/ SubmitTransaction(c)
    <3>1. PICK share \in Shares[c] : Ask(c, [n EXCEPT !.params = Key, !.number = share])
      BY <2>2 DEF SubmitMessage, SubmitTransaction, CreateFor
    <3> DEFINE q == [n EXCEPT !.params = Key, !.number = share]
    <3>2. kind # "keygen" /\ share \in Nat \ {0} /\ Key \in Form
      BY <2>2, SharesAssumption, KeyAssumption DEF SubmitMessage, SubmitTransaction, Form
    <3> HIDE DEF n
    <3>3. q \in CallRecord /\ q.method = "Group.create" /\ q.fn = "create" /\ q.sid = Sessions + 1
          /\ q.number = share
      BY <1>3, <3>2 DEF CallRecord
    <3>4. Ask(c, q)
      BY <3>1
    <3> HIDE DEF q
    <3>5. QED BY <3>2, <3>3, <3>4
  <2>3. QED BY <2>1, <2>2
<1>5. QED BY <1>1, <1>2, <1>4, OwnerProposeStep

\* A link of the group is copied: its creator, who signed up first and, to
\* sign, has approved the value, is the only party of it.
LEMMA OwnerCopyLinkStep ==
  ASSUME FlowInv, FlowInv', OwnerInv, NEW c \in Client, CopyLink(c)
  PROVE  OwnerInv'
<1> USE DEF FlowInv
<1>s. PICK s : s = app[c].session
  OBVIOUS
<1>0. ASSUME NEW d \in Client
      PROVE  /\ app[d] \in AppRecord /\ calls[d] \in Seq(CallRecord) /\ frames[d] \in Seq(Frame)
             /\ Page(kind, app[d]) /\ Awaited(kind, app[d], calls[d], frames[d])
             /\ AppFact(d, app[d])
             /\ \A i \in 1 .. Len(calls[d]) : RequestFact(d, calls[d][i])
             /\ \A i \in 1 .. Len(frames[d]) : FrameFact(d, frames[d][i])
  BY OwnState DEF Local, OwnerInv
<1>1. /\ app[c].wizard = "create" /\ app[c].step = 1 /\ (kind # "keygen" => app[c].ready)
      /\ invited' = invited \cup {s}
      /\ UNCHANGED <<kind, server, task, calls, frames, app, approved>>
  BY <1>s DEF CopyLink, At
<1>2. s \in Sid /\ GroupFact(s)
  BY <1>0, <1>1, <1>s DEF Page, OwnerInv
<1>3. server[s].signups # <<>> /\ server[s].signups[1].client = c
      /\ (kind # "keygen" => <<c, s>> \in approved)
  BY <1>0, <1>1, <1>s DEF AppFact
<1>4. Sessions' = Sessions /\ Sessions \in Nat
  BY <1>1, SessionsCount DEF Sessions
<1>5. ASSUME NEW d \in Client, NEW q \in CallRecord, RequestFact(d, q) PROVE RequestFact(d, q)'
  <2>1. q.fn = "create" => q.sid # s
    BY <1>3, <1>5 DEF RequestFact, OfGuest
  <2>2. QED BY <1>1, <1>4, <1>5, <2>1, RequestKept
<1>6. ASSUME NEW d \in Client, NEW i \in 1 .. Len(frames[d])
      PROVE  FrameFact(d, frames[d][i])'
  <2> DEFINE f == frames[d][i]
  <2>1. f \in Frame /\ FrameFact(d, f)
    BY <1>0
  <2>2. ASSUME f.type = "answer", f.call.fn = "create" PROVE f.call.sid # s
    <3>1. f \in PageAnswer
      BY <2>1, <2>2 DEF PageAnswer
    <3>2. TalkOnPage(kind, app[d], f.call)
      BY <1>0, <3>1 DEF Awaited
    <3>3. d # c
      BY <1>1, <2>2, <3>2 DEF TalkOnPage
    <3>4. server[f.call.sid].signups \in {<<>>, <<[number |-> f.call.number, client |-> d]>>}
      BY <2>1, <2>2 DEF FrameFact, OfGuest
    <3>5. \A x : <<[number |-> x, client |-> d]>>[1].client = d
      OBVIOUS
    <3>6. QED BY <1>3, <3>3, <3>4, <3>5
  <2>3. \A x \in Frame : FrameFact(d, x) /\ (x.type = "answer" /\ x.call.fn = "create" => x.call.sid # s)
                         => FrameFact(d, x)'
    BY <1>1, FrameKept
  <2>4. \E x \in Frame : x = f /\ FrameFact(d, x) /\ (x.type = "answer" /\ x.call.fn = "create" => x.call.sid # s)
    BY <2>1, <2>2
  <2>5. QED BY <1>1, <2>3, <2>4
<1>7. ASSUME NEW d \in Client PROVE AppFact(d, app[d])'
  BY <1>0, <1>1, AppKept
<1>8. ASSUME NEW t \in Sid PROVE GroupFact(t)'
  <2>1. CASE t # s
    BY <1>1, <1>4, <2>1, GroupKept DEF OwnerInv
  <2>2. CASE t = s
    <3>1. kind # "keygen" => \A p \in Parties(s) : <<p, s>> \in approved
      <4>1. CASE s \in invited
        BY <1>2, <4>1 DEF GroupFact
      <4>2. CASE s \notin invited
        <5>1. Len(server[s].signups) <= 1 /\ server[s].signups \in Seq([number : Nat, client : Client])
          BY <1>2, <4>2 DEF GroupFact, TypeOK, Group
        <5>2. \A e \in ToSet(server[s].signups) : e = server[s].signups[1]
          BY <5>1 DEF ToSet
        <5>3. Parties(s) \subseteq {c}
          BY <1>3, <5>2 DEF Parties
        <5>4. QED BY <1>3, <5>3
      <4>3. QED BY <4>1, <4>2
    <3>2. GroupFact(s)'
      BY <1>1, <1>2, <1>3, <1>4, <3>1 DEF GroupFact, Used, Parties, ValidParameters
    <3>3. QED BY <2>2, <3>2
  <2>3. QED BY <2>1, <2>2
<1>9. QED BY <1>0, <1>1, <1>5, <1>6, <1>7, <1>8 DEF OwnerInv

-----------------------------------------------------------------------------
\* The server handles a request.

\* What it makes of the group.
LEMMA HandledFacts ==
  ASSUME TypeOK, NEW c \in Client, NEW q \in CallRecord
  PROVE  /\ q.method = "Group.create" =>
              /\ Handled(c, q).members = {c} /\ Handled(c, q).params = q.params
              /\ Handled(c, q).signups = server[q.sid].signups
         /\ q.method # "Group.create" => Handled(c, q).params = server[q.sid].params
         /\ q.method = "Group.join" => Handled(c, q).members = server[q.sid].members \cup {c}
         /\ q.method \notin {"Group.create", "Group.join"} =>
              Handled(c, q).members = server[q.sid].members
         /\ q.method \in {"Session.signup", "Session.load"} =>
              Handled(c, q).signups = Append(server[q.sid].signups,
                [number |-> IF q.method = "Session.signup" THEN NextNumber(q.sid) ELSE q.number,
                 client |-> c])
         /\ q.method \notin {"Session.signup", "Session.load"} =>
              Handled(c, q).signups = server[q.sid].signups
<1> DEFINE g == server[q.sid]
<1>1. g \in Group
  BY DEF TypeOK, CallRecord
<1>2. CASE q.method = "Group.create"
  BY <1>1, <1>2 DEF Handled, Group
<1>3. CASE q.method = "Group.join"
  BY <1>1, <1>3 DEF Handled, Group
<1>4. CASE q.method = "Session.signup"
  BY <1>1, <1>4 DEF Handled, Group
<1>5. CASE q.method = "Session.load"
  BY <1>1, <1>5 DEF Handled, Group
<1>6. CASE q.method \notin {"Group.create", "Group.join", "Session.signup", "Session.load"}
  BY <1>1, <1>6 DEF Handled, Group
<1>7. QED BY <1>2, <1>3, <1>4, <1>5, <1>6

\* A creator's request is never refused.
LEMMA CreatorAccepted ==
  ASSUME FlowInv, OwnerInv, NEW c \in Client, calls[c] # <<>>, Head(calls[c]).fn = "create"
  PROVE  Accepts(c, Head(calls[c]))
<1> DEFINE q == Head(calls[c])
<1>1. calls[c] \in Seq(CallRecord) /\ Proposed(calls[c])
  BY OwnState DEF FlowInv, Local
<1>2. q = calls[c][1] /\ 1 \in 1 .. Len(calls[c])
  BY <1>1, TailElements
<1>3. RequestFact(c, q) /\ (q.method = "Group.create" => ValidParameters(q.params))
  BY <1>1, <1>2 DEF OwnerInv, Proposed
<1> HIDE DEF q
<1>4. OfCreator(q) /\ server[q.sid].signups = <<>>
      /\ (q.method # "Group.create" => Private(c, q.sid))
  BY <1>3 DEF RequestFact, OfGuest, q
<1>5. CASE q.method = "Group.create"
  BY <1>3, <1>5 DEF Accepts, q
<1>6. CASE q.method # "Group.create"
  <2>1. q.method \in {"Session.create", "Session.signup", "Session.load"}
    BY <1>4, <1>6 DEF OfCreator, CreateMethods
  <2>2. c \in server[q.sid].members
    BY <1>4, <1>6 DEF Private
  <2>3. \A e \in ToSet(server[q.sid].signups) : e.number # q.number
    BY <1>4 DEF ToSet
  <2>4. Accepts(c, q)
    BY <2>1, <2>2, <2>3 DEF Accepts
  <2>5. QED BY <2>4 DEF q
<1>7. QED BY <1>5, <1>6

\* Of a group that is changed, no other creator's request or answer is on its
\* way.
LEMMA Sole ==
  ASSUME FlowInv, OwnerInv, NEW c \in Client, calls[c] # <<>>,
         Head(calls[c]).method \in {"Group.create", "Group.join", "Session.signup", "Session.load"}
  PROVE  /\ \A d \in Client : \A i \in 1 .. Len(calls[d]) :
              calls[d][i].fn = "create" /\ calls[d][i].sid = Head(calls[c]).sid => d = c /\ i = 1
         /\ \A d \in Client : \A i \in 1 .. Len(frames[d]) :
              frames[d][i].type = "answer" /\ frames[d][i].call.fn = "create"
                => frames[d][i].call.sid # Head(calls[c]).sid
<1> USE DEF FlowInv
<1>0. ASSUME NEW d \in Client
      PROVE  /\ calls[d] \in Seq(CallRecord) /\ frames[d] \in Seq(Frame)
             /\ Awaited(kind, app[d], calls[d], frames[d])
             /\ \A i \in 1 .. Len(calls[d]) : RequestFact(d, calls[d][i])
             /\ \A i \in 1 .. Len(frames[d]) : FrameFact(d, frames[d][i])
  BY OwnState DEF Local, OwnerInv
<1>1. PICK q \in CallRecord : q = Head(calls[c]) /\ q = calls[c][1]
  BY <1>0, TailElements
<1>2. 1 \in 1 .. Len(calls[c]) /\ RequestFact(c, q) /\ q.sid \in Sid /\ GroupFact(q.sid)
  BY <1>0, <1>1, TailElements DEF CallRecord, OwnerInv
<1>3. q.method \in {"Group.create", "Group.join", "Session.signup", "Session.load"}
  BY <1>1
<1>4. \/ q.sid \in invited
      \/ q.fn = "create" /\ q.method = "Group.create" /\ ~Used(q.sid)
      \/ q.fn = "create" /\ Private(c, q.sid)
  BY <1>2, <1>3 DEF RequestFact, OfGuest
<1>5. q.sid \in invited => server[q.sid].signups # <<>> /\ Used(q.sid)
  BY <1>2 DEF GroupFact
<1>6. ASSUME NEW d \in Client, NEW i \in 1 .. Len(calls[d]),
             calls[d][i].fn = "create", calls[d][i].sid = q.sid
      PROVE  d = c /\ i = 1
  <2>1. PICK r \in CallRecord : r = calls[d][i] /\ r.fn = "create" /\ r.sid = q.sid
    BY <1>0, <1>6
  <2>2. RequestFact(d, r)
    BY <1>0, <2>1
  <2>3. /\ server[q.sid].signups = <<>>
        /\ \/ r.method = "Group.create" /\ ~Used(q.sid)
           \/ Private(d, q.sid)
    BY <2>1, <2>2 DEF RequestFact, OfGuest
  <2>4. q.sid \notin invited /\ q.fn = "create"
    BY <1>4, <1>5, <2>3
  <2>5. d = c
    <3>1. CASE r.method = "Group.create" /\ ~Used(q.sid)
      <4>1. q.method = "Group.create"
        BY <1>4, <2>4, <3>1 DEF Private, Used
      <4>2. Proposes(calls[d], q.sid) /\ Proposes(calls[c], q.sid)
        BY <1>1, <1>2, <2>1, <3>1, <4>1 DEF Proposes
      <4>3. QED BY <1>2, <4>2 DEF OwnerInv
    <3>2. CASE Private(d, q.sid)
      <4>1. server[q.sid].members = {d} /\ server[q.sid].members = {c}
        BY <1>4, <2>4, <3>2 DEF Private, Used
      <4>2. QED BY <4>1
    <3>3. QED BY <2>3, <3>1, <3>2
  <2>6. calls[c][1] \in PageCall /\ calls[c][i] \in PageCall
    BY <1>1, <2>1, <2>4, <2>5 DEF PageCall
  <2>7. QED BY <1>0, <1>2, <2>5, <2>6 DEF Awaited, Alone, AtMostOne
<1>7. ASSUME NEW d \in Client, NEW i \in 1 .. Len(frames[d]),
             frames[d][i].type = "answer", frames[d][i].call.fn = "create"
      PROVE  frames[d][i].call.sid # q.sid
  <2> SUFFICES ASSUME frames[d][i].call.sid = q.sid PROVE FALSE
    OBVIOUS
  <2>1. FrameFact(d, frames[d][i]) /\ frames[d][i] \in Frame
    BY <1>0
  <2>2. Private(d, q.sid)
    BY <1>7, <2>1 DEF FrameFact, OfGuest
  <2>3. q.sid \notin invited /\ Used(q.sid)
    BY <2>2 DEF Private, Used
  <2>4. q.fn = "create" /\ d = c
    BY <1>4, <2>2, <2>3 DEF Private
  <2>5. calls[c][1] \in PageCall /\ frames[c][i] \in PageAnswer
    BY <1>1, <1>7, <2>1, <2>4 DEF PageCall, PageAnswer
  <2>6. QED BY <1>0, <1>2, <2>4, <2>5 DEF Awaited, Alone, None
<1>8. QED BY <1>1, <1>6, <1>7

\* An event reaches a socket: the ready event of a group people were invited
\* to.
LEMMA OwnerNotifyStep ==
  ASSUME FlowInv, FlowInv', OwnerInv, NEW c \in Client, Notify(c)
  PROVE  OwnerInv'
<1> USE DEF FlowInv
<1>0. ASSUME NEW d \in Client
      PROVE  /\ app[d] \in AppRecord /\ calls[d] \in Seq(CallRecord) /\ frames[d] \in Seq(Frame)
             /\ Page(kind, app[d])
             /\ AppFact(d, app[d])
             /\ \A i \in 1 .. Len(calls[d]) : RequestFact(d, calls[d][i])
             /\ \A i \in 1 .. Len(frames[d]) : FrameFact(d, frames[d][i])
             /\ task[d].frame.type = "ready" => task[d].frame.sid \in invited
  BY OwnState DEF Local, OwnerInv
<1> DEFINE t == task[c]
<1>1. UNCHANGED <<kind, server, calls, app, invited, approved>>
  BY DEF Notify, history
<1>2. t \in [frame : Event, sid : Sid, to : SUBSET Client, fresh : BOOLEAN]
  BY DEF Notify, TypeOK, Task
<1>3. PICK r : /\ frames' = IF Cut(r) THEN frames
                            ELSE [frames EXCEPT ![r] = Append(frames[r], t.frame)]
               /\ \E to : task' = [task EXCEPT ![c] = to] /\ (to = Idle \/ to.frame = t.frame)
  <2> DEFINE to == IF t.fresh THEN Receivers(c, t) ELSE t.to
  <2>1. PICK r \in to :
          /\ frames' = IF Cut(r) THEN frames
                       ELSE [frames EXCEPT ![r] = Append(frames[r], t.frame)]
          /\ task' = [task EXCEPT ![c] =
                IF to = {r} THEN Idle ELSE [t EXCEPT !.to = to \ {r}, !.fresh = FALSE]]
    BY DEF Notify, Sent
  <2>2. [t EXCEPT !.to = to \ {r}, !.fresh = FALSE].frame = t.frame
    BY <1>2
  <2> HIDE DEF to, t
  <2>3. QED BY <2>1, <2>2
<1>4. PICK f \in Frame : f = t.frame /\ f.type # "answer" /\ FrameFact(c, f) /\ \A d : FrameFact(d, f)
  <2>1. t.frame \in Frame /\ t.frame.type \in {"ready", "message"}
    BY <1>2 DEF Frame, Event
  <2>2. t.frame.type = "ready" => t.frame.sid \in invited
    BY <1>0
  <2>3. \A d : FrameFact(d, t.frame)
    BY <2>1, <2>2 DEF FrameFact
  <2> HIDE DEF t
  <2>4. QED BY <2>1, <2>3
<1>5. Sessions' = Sessions /\ Sessions \in Nat
  BY <1>1, SessionsCount DEF Sessions
<1>6. ASSUME NEW d \in Client, NEW i \in 1 .. Len(frames'[d])
      PROVE  FrameFact(d, frames[d][i])'
  <2>1. frames'[d][i] \in Frame /\ FrameFact(d, frames'[d][i])
    <3>1. CASE frames'[d] = frames[d]
      BY <1>0, <3>1
    <3>2. CASE frames'[d] = Append(frames[d], f)
      <4>1. frames'[d][i] = f \/ (i \in 1 .. Len(frames[d]) /\ frames'[d][i] = frames[d][i])
        BY <1>0, <3>2
      <4>2. QED BY <1>0, <1>4, <4>1
    <3>3. QED BY <1>3, <1>4, <3>1, <3>2 DEF TypeOK
  <2>2. PICK x \in Frame : x = frames'[d][i] /\ FrameFact(d, x)
    BY <2>1
  <2>3. FrameFact(d, x)'
    BY <1>1, <2>2, FrameKept
  <2>4. QED BY <2>2, <2>3
<1>7. ASSUME NEW d \in Client, NEW i \in 1 .. Len(calls'[d])
      PROVE  RequestFact(d, calls[d][i])'
  <2>1. calls[d][i] \in CallRecord /\ RequestFact(d, calls[d][i])
    BY <1>0, <1>1
  <2>2. RequestFact(d, calls[d][i])'
    BY <1>1, <1>5, <2>1, RequestKept
  <2>3. QED BY <2>2
<1>8. ASSUME NEW d \in Client
      PROVE  AppFact(d, app[d])' /\ (task'[d].frame.type = "ready" => task'[d].frame.sid \in invited')
  <2>1. AppFact(d, app[d])'
    BY <1>0, <1>1, AppKept
  <2>2. task'[d] = task[d] \/ task'[d] = Idle \/ (d = c /\ task'[d].frame = t.frame)
    BY <1>3 DEF TypeOK
  <2>3. Idle.frame.type # "ready"
    BY DEF Idle
  <2>4. QED BY <1>0, <1>1, <2>1, <2>2, <2>3
<1>9. ASSUME NEW s \in Sid PROVE GroupFact(s)'
  BY <1>1, <1>5, GroupKept DEF OwnerInv
<1>10. QED BY <1>1, <1>6, <1>7, <1>8, <1>9 DEF OwnerInv

\* The answer to the request q.
Reply(q, n, ok) == [type |-> "answer", ok |-> ok, call |-> [q EXCEPT !.number = n]]

\* c's first request q is answered, ok says how, and n is its party number.
Served(c, q, n, ok) ==
  /\ calls[c] # <<>> /\ q = Head(calls[c]) /\ q = calls[c][1] /\ RequestFact(c, q)
  /\ ok = Accepts(c, q)
  /\ n = IF q.method = "Session.signup" THEN NextNumber(q.sid) ELSE q.number
  /\ calls'[c] = Tail(calls[c]) /\ \A d \in Client \ {c} : calls'[d] = calls[d]
  /\ frames'[c] = IF Cut(c) THEN frames[c] ELSE Append(frames[c], Reply(q, n, ok))
  /\ \A d \in Client \ {c} : frames'[d] = frames[d]
  /\ OnlyFlags(conn, conn')
  /\ task'[c] = IF ok THEN Notification(c, q) ELSE Idle
  /\ \A d \in Client \ {c} : task'[d] = task[d]
  /\ \A s \in Sid : s # q.sid \/ ~ok => server'[s] = server[s]
  /\ ok => server'[q.sid] = Handled(c, q)
  /\ UNCHANGED <<kind, app, invited, approved>>

\* What a step of the server is.
LEMMA ServeServed ==
  ASSUME FlowInv, OwnerInv, NEW c \in Client, Serve(c)
  PROVE  \E q \in CallRecord, n \in Nat, ok \in BOOLEAN : Served(c, q, n, ok)
<1> USE DEF FlowInv
<1> DEFINE p == Head(calls[c])
<1>1. calls[c] \in Seq(CallRecord) /\ calls[c] # <<>>
      /\ \A i \in 1 .. Len(calls[c]) : RequestFact(c, calls[c][i])
  BY OwnState DEF OwnerInv, Serve
<1>2. PICK q \in CallRecord : q = p /\ q = calls[c][1] /\ RequestFact(c, q)
  BY <1>1, TailElements
<1>3. q.sid \in Sid /\ q.number \in Nat
  BY DEF CallRecord
<1>4. PICK ok \in BOOLEAN : ok = Accepts(c, q)
  BY AcceptsBoolean
<1>5. PICK n \in Nat : n = IF q.method = "Session.signup" THEN NextNumber(q.sid) ELSE q.number
  BY <1>3, SignupTypes
<1>6. /\ server' = IF ok THEN [server EXCEPT ![q.sid] = Handled(c, q)] ELSE server
      /\ task' = [task EXCEPT ![c] = IF ok THEN Notification(c, q) ELSE Idle]
      /\ frames' = IF Cut(c) THEN frames
                   ELSE [frames EXCEPT ![c] = Append(frames[c], Reply(q, n, ok))]
      /\ calls' = [calls EXCEPT ![c] = Tail(@)]
      /\ UNCHANGED <<kind, app, invited, approved>>
  BY <1>2, <1>4, <1>5 DEF Serve, Sent, history, Reply
<1>7. /\ calls'[c] = Tail(calls[c]) /\ \A d \in Client \ {c} : calls'[d] = calls[d]
      /\ frames'[c] = IF Cut(c) THEN frames[c] ELSE Append(frames[c], Reply(q, n, ok))
      /\ \A d \in Client \ {c} : frames'[d] = frames[d]
  BY <1>6 DEF TypeOK
<1>8. /\ task'[c] = IF ok THEN Notification(c, q) ELSE Idle
      /\ \A d \in Client \ {c} : task'[d] = task[d]
  BY <1>6 DEF TypeOK
<1>9. /\ \A s \in Sid : s # q.sid \/ ~ok => server'[s] = server[s]
      /\ ok => server'[q.sid] = Handled(c, q)
  BY <1>3, <1>6 DEF TypeOK
<1>10. OnlyFlags(conn, conn')
  BY ServeFlags
<1>11. Served(c, q, n, ok)
  BY <1>1, <1>2, <1>4, <1>5, <1>6, <1>7, <1>8, <1>9, <1>10 DEF Served
<1>12. QED BY <1>11

\* An accepted request.
LEMMA ServedHandled ==
  ASSUME FlowInv, NEW c \in Client, NEW q \in CallRecord, NEW n \in Nat, NEW ok \in BOOLEAN,
         Served(c, q, n, ok), ok
  PROVE  /\ q.method = "Group.create" =>
              /\ server'[q.sid].members = {c} /\ server'[q.sid].params = q.params
              /\ server'[q.sid].signups = server[q.sid].signups
         /\ q.method = "Group.join" =>
              /\ server'[q.sid].members = server[q.sid].members \cup {c}
              /\ server'[q.sid].params = server[q.sid].params
              /\ server'[q.sid].signups = server[q.sid].signups
         /\ q.method \in {"Session.signup", "Session.load"} =>
              /\ server'[q.sid].members = server[q.sid].members
              /\ server'[q.sid].params = server[q.sid].params
              /\ server'[q.sid].signups = Append(server[q.sid].signups, [number |-> n, client |-> c])
         /\ q.method \notin {"Group.create", "Group.join", "Session.signup", "Session.load"} =>
              /\ server'[q.sid].members = server[q.sid].members
              /\ server'[q.sid].params = server[q.sid].params
              /\ server'[q.sid].signups = server[q.sid].signups
<1>1. PICK g : g = server[q.sid] /\ server'[q.sid] = Handled(c, q)
  BY DEF Served
<1>2. n = IF q.method = "Session.signup" THEN NextNumber(q.sid) ELSE q.number
  BY DEF Served
<1>3. PICK h : h = Handled(c, q)
  OBVIOUS
<1>4. /\ q.method = "Group.create" => h.members = {c} /\ h.params = q.params /\ h.signups = g.signups
      /\ q.method # "Group.create" => h.params = g.params
      /\ q.method = "Group.join" => h.members = g.members \cup {c}
      /\ q.method \notin {"Group.create", "Group.join"} => h.members = g.members
      /\ q.method \in {"Session.signup", "Session.load"} =>
           h.signups = Append(g.signups, [number |-> n, client |-> c])
      /\ q.method \notin {"Session.signup", "Session.load"} => h.signups = g.signups
  <2>1. TypeOK
    BY DEF FlowInv
  <2>2. QED BY <1>1, <1>2, <1>3, <2>1, HandledFacts
<1>5. server'[q.sid] = h /\ server[q.sid] = g
  BY <1>1, <1>3
<1>6. QED BY <1>4, <1>5

\* What it leaves alone: a group that a request changes no member nor signup
\* of, and the first signup of every group.
LEMMA ServedServer ==
  ASSUME FlowInv, OwnerInv, NEW c \in Client, NEW q \in CallRecord, NEW n \in Nat, NEW ok \in BOOLEAN,
         Served(c, q, n, ok)
  PROVE  /\ \A s \in Sid : server[s].signups # <<>> =>
              server'[s].signups # <<>> /\ server'[s].signups[1] = server[s].signups[1]
         /\ \A s \in Sid : s # q.sid \/ q.method \notin {"Group.create", "Group.join", "Session.signup", "Session.load"}
              => server'[s].members = server[s].members /\ server'[s].signups = server[s].signups
         /\ \A s \in Sid : Used(s) => Used(s)'
<1> USE DEF FlowInv
<1>1. q.sid \in Sid /\ server[q.sid] \in Group
  BY DEF CallRecord, TypeOK
<1>2. \A x : server[q.sid].signups # <<>> =>
         Append(server[q.sid].signups, x) # <<>> /\ Append(server[q.sid].signups, x)[1] = server[q.sid].signups[1]
  <2>1. server[q.sid].signups \in Seq([number : Nat, client : Client])
    BY <1>1 DEF Group
  <2>2. QED BY <2>1
<1>3. /\ \A s \in Sid : s # q.sid \/ ~ok => server'[s] = server[s]
      /\ ok => server'[q.sid] = Handled(c, q)
  BY DEF Served
<1>4. CASE ~ok
  BY <1>3, <1>4 DEF Used
<1>5. CASE ok
  <2>2. /\ Handled(c, q).signups = server[q.sid].signups
           \/ \E x : Handled(c, q).signups = Append(server[q.sid].signups, x)
        /\ \/ Handled(c, q).members = {c}
           \/ Handled(c, q).members = server[q.sid].members \cup {c}
           \/ Handled(c, q).members = server[q.sid].members
    <3>1. q.method = "Group.create" \/ q.method = "Group.join" \/ q.method \notin {"Group.create", "Group.join"}
      OBVIOUS
    <3>2. q.method \in {"Session.signup", "Session.load"} \/ q.method \notin {"Session.signup", "Session.load"}
      OBVIOUS
    <3>3. QED BY <3>1, <3>2, HandledFacts
  <2>4. q.method \notin {"Group.create", "Group.join", "Session.signup", "Session.load"} =>
             Handled(c, q).members = server[q.sid].members /\ Handled(c, q).signups = server[q.sid].signups
    BY HandledFacts
  <2>5. server[q.sid].signups # <<>> =>
             Handled(c, q).signups # <<>> /\ Handled(c, q).signups[1] = server[q.sid].signups[1]
    BY <1>2, <2>2
  <2>6. QED BY <1>1, <1>3, <1>5, <2>2, <2>4, <2>5 DEF Used
<1>6. QED BY <1>4, <1>5

\* A proposed group is a session before and after it is created.
LEMMA ServedSessions ==
  ASSUME FlowInv, OwnerInv, NEW c \in Client, NEW q \in CallRecord, NEW n \in Nat, NEW ok \in BOOLEAN,
         Served(c, q, n, ok)
  PROVE  Sessions <= Sessions' /\ Sessions \in Nat /\ Sessions' \in Nat
<1> USE DEF FlowInv
<1>1. /\ \A d \in Client \ {c} : calls'[d] = calls[d]
      /\ calls'[c] = Tail(calls[c]) /\ calls[c] # <<>> /\ q = Head(calls[c]) /\ q = calls[c][1]
      /\ calls[c] \in Seq(CallRecord) /\ q.sid \in Sid
  BY OwnState DEF Served, CallRecord
<1>2. \A s \in Sid : Used(s) => Used(s)'
  BY ServedServer
<1>3. CASE q.method # "Group.create"
  <2>1. \A d \in Client, s \in Sid : Proposes(calls[d], s) => Proposes(calls'[d], s)
    BY <1>1, <1>3, ProposesAppend
  <2>2. \A d \in Client : \A i \in 1 .. Len(calls[d]) : calls[d][i].sid \in Sid
    BY OwnState, CallsTyped
  <2>3. QED BY <1>2, <2>1, <2>2, SessionsGrow
<1>4. CASE q.method = "Group.create"
  <2> DEFINE U == {s \in Sid : server[s].members # {}}
             V == {s \in Sid : server'[s].members # {}}
             C == {d \in Client : \E i \in 1 .. Len(calls[d]) : calls[d][i].method = "Group.create"}
             D == {d \in Client : \E i \in 1 .. Len(calls'[d]) : calls'[d][i].method = "Group.create"}
  <2>1. IsFiniteSet(U) /\ IsFiniteSet(V) /\ IsFiniteSet(C) /\ IsFiniteSet(D)
    <3>1. U \subseteq Sid /\ V \subseteq Sid /\ C \subseteq Client /\ D \subseteq Client
      OBVIOUS
    <3> HIDE DEF U, V, C, D
    <3>2. QED BY <3>1, FiniteSessions, ClientAssumption, FS_Subset
  <2>2. RequestFact(c, q) /\ q.fn = "create" /\ ~Used(q.sid)
    BY <1>4 DEF Served, RequestFact, OfGuest, JoinMethods
  <2>3. ok
    BY <1>1, <2>2, CreatorAccepted DEF Served
  <2>4. server'[q.sid].members = {c}
    BY <1>4, <2>3, ServedHandled
  <2>5. U \cup {q.sid} \subseteq V /\ q.sid \notin U
    BY <1>1, <1>2, <2>2, <2>4 DEF Used
  <2>6. C \ {c} \subseteq D
    BY <1>1
  <2>7. Sessions = Cardinality(U) + Cardinality(C) /\ Sessions' = Cardinality(V) + Cardinality(D)
    BY DEF Sessions
  <2>8. c \in C
    <3>1. 1 \in 1 .. Len(calls[c])
      BY <1>1
    <3>2. QED BY <1>1, <1>4, <3>1
  <2> HIDE DEF U, V, C, D
  <2>9. Cardinality(U \cup {q.sid}) = Cardinality(U) + 1 /\ IsFiniteSet(U \cup {q.sid})
    BY <2>1, <2>5, FS_AddElement
  <2>10. Cardinality(C \ {c}) = Cardinality(C) - 1 /\ IsFiniteSet(C \ {c})
    BY <2>1, <2>8, FS_RemoveElement
  <2>11. Cardinality(U \cup {q.sid}) <= Cardinality(V) /\ Cardinality(C \ {c}) <= Cardinality(D)
    BY <2>1, <2>5, <2>6, FS_Subset
  <2>12. Cardinality(U) \in Nat /\ Cardinality(V) \in Nat /\ Cardinality(C) \in Nat /\ Cardinality(D) \in Nat
    BY <2>1, FS_CardinalityType
  <2>13. QED BY <2>7, <2>9, <2>10, <2>11, <2>12
<1>5. QED BY <1>3, <1>4

\* The other requests on their way.
LEMMA ServedRequests ==
  ASSUME FlowInv, OwnerInv, NEW c \in Client, NEW q \in CallRecord, NEW n \in Nat, NEW ok \in BOOLEAN,
         Served(c, q, n, ok), NEW d \in Client, NEW i \in 1 .. Len(calls'[d])
  PROVE  RequestFact(d, calls[d][i])'
<1> USE DEF FlowInv
<1>1. /\ calls[c] # <<>> /\ q = Head(calls[c]) /\ calls'[c] = Tail(calls[c])
      /\ d # c => calls'[d] = calls[d]
      /\ UNCHANGED <<kind, invited, approved>>
      /\ calls[c] \in Seq(CallRecord) /\ calls[d] \in Seq(CallRecord)
  BY OwnState DEF Served
<1>2. PICK j \in 1 .. Len(calls[d]) : calls'[d][i] = calls[d][j] /\ (d = c => j # 1)
  <2>1. CASE d = c
    <3>0. calls'[d] = Tail(calls[c])
      BY <1>1, <2>1
    <3>1. i \in 1 .. Len(Tail(calls[c])) /\ i + 1 # 1
      BY <3>0
    <3>2. i + 1 \in 1 .. Len(calls[c]) /\ Tail(calls[c])[i] = calls[c][i + 1]
      BY <1>1, <3>1, TailElements
    <3>3. QED BY <1>1, <2>1, <3>1, <3>2
  <2>2. CASE d # c
    <3>1. i \in 1 .. Len(calls[d]) /\ calls'[d][i] = calls[d][i]
      BY <1>1, <2>2
    <3>2. QED BY <2>2, <3>1
  <2>3. QED BY <2>1, <2>2
<1>3. PICK r \in CallRecord : r = calls[d][j]
  BY <1>1
<1>4. RequestFact(d, r) /\ r.sid \in Sid
  BY <1>3 DEF OwnerInv, CallRecord
<1>5. r.fn = "create" => server'[r.sid].members = server[r.sid].members
                         /\ server'[r.sid].signups = server[r.sid].signups
  <2>1. q.method \in {"Group.create", "Group.join", "Session.signup", "Session.load"} =>
          ~(r.fn = "create" /\ r.sid = q.sid)
    BY <1>1, <1>2, <1>3, Sole
  <2>2. QED BY <1>4, <2>1, ServedServer
<1>6. RequestFact(d, r)'
  BY <1>1, <1>4, <1>5, ServedSessions, RequestKept
<1>7. QED BY <1>2, <1>3, <1>6

\* The answer.
LEMMA ServedAnswer ==
  ASSUME FlowInv, OwnerInv, NEW c \in Client, NEW q \in CallRecord, NEW n \in Nat, NEW ok \in BOOLEAN,
         Served(c, q, n, ok),
         NEW f \in Frame, f = Reply(q, n, ok)
  PROVE  FrameFact(c, f)'
<1> USE DEF FlowInv
<1>1. /\ calls[c] # <<>> /\ q = Head(calls[c]) /\ RequestFact(c, q)
      /\ n = IF q.method = "Session.signup" THEN NextNumber(q.sid) ELSE q.number
      /\ ok => server'[q.sid] = Handled(c, q)
      /\ UNCHANGED <<kind, invited, approved>>
  BY DEF Served
<1>2. /\ f.type = "answer" /\ f.ok = ok /\ f.call.fn = q.fn /\ f.call.method = q.method
      /\ f.call.sid = q.sid /\ f.call.number = n
  BY DEF CallRecord, Reply
<1>3. CASE q.fn = "message" /\ q.method = "Session.message"
  BY <1>2, <1>3 DEF FrameFact
<1>4. CASE OfGuest(q)
  <2>1. OfGuest(f.call)'
    BY <1>1, <1>2, <1>4 DEF OfGuest
  <2>2. QED BY <1>2, <2>1 DEF FrameFact
<1>5. CASE q.fn = "create"
  <2>1. /\ OfCreator(q) /\ server[q.sid].signups = <<>>
        /\ IF q.method = "Group.create" THEN ~Used(q.sid) ELSE Private(c, q.sid)
    BY <1>1, <1>5 DEF RequestFact, OfGuest
  <2>2. ok
    BY <1>1, <1>5, CreatorAccepted DEF Served
  <2>3. OfCreator(f.call)'
    BY <1>1, <1>2, <2>1 DEF OfCreator
  <2>4. q.sid \notin invited
    <3>1. q.sid \in Sid
      BY DEF CallRecord
    <3>2. QED BY <2>1, <3>1 DEF OwnerInv, GroupFact
  <2>5. q.method \in {"Group.create", "Session.create", "Session.signup", "Session.load"}
    BY <2>1 DEF OfCreator, CreateMethods
  <2>6. server'[q.sid].members = {c}
    <3>1. CASE q.method = "Group.create"
      BY <2>2, <3>1, ServedHandled
    <3>2. CASE q.method # "Group.create"
      <4>1. server'[q.sid].members = server[q.sid].members
        <5>1. CASE q.method \in {"Session.signup", "Session.load"}
          BY <2>2, <5>1, ServedHandled
        <5>2. CASE q.method = "Session.create"
          BY <2>2, <5>2, ServedHandled
        <5>3. QED BY <2>5, <3>2, <5>1, <5>2
      <4>2. QED BY <2>1, <3>2, <4>1 DEF Private
    <3>3. QED BY <3>1, <3>2
  <2>7. q.method \in {"Group.create", "Session.create"} => server'[q.sid].signups = <<>>
    BY <2>1, <2>2, ServedHandled
  <2>8. q.method \in {"Session.signup", "Session.load"} =>
          server'[q.sid].signups = <<[number |-> n, client |-> c]>>
    <3>1. \A x : Append(<<>>, x) = <<x>>
      OBVIOUS
    <3>2. ASSUME q.method \in {"Session.signup", "Session.load"}
          PROVE  server'[q.sid].signups = Append(server[q.sid].signups, [number |-> n, client |-> c])
      BY <2>2, <3>2, ServedHandled
    <3>3. QED BY <2>1, <3>1, <3>2
  <2>9. Private(c, f.call.sid)'
    BY <1>1, <1>2, <2>4, <2>6 DEF Private
  <2>10. server'[f.call.sid].signups =
           IF f.call.method \in {"Group.create", "Session.create"} THEN <<>>
           ELSE <<[number |-> f.call.number, client |-> c]>>
    BY <1>2, <2>5, <2>7, <2>8
  <2>11. QED BY <1>2, <1>5, <2>2, <2>3, <2>9, <2>10 DEF FrameFact
<1>6. QED BY <1>1, <1>3, <1>4, <1>5 DEF RequestFact

\* It, and the other frames on their way.
LEMMA ServedFrames ==
  ASSUME FlowInv, FlowInv', OwnerInv, NEW c \in Client, NEW q \in CallRecord, NEW n \in Nat,
         NEW ok \in BOOLEAN, Served(c, q, n, ok), NEW d \in Client, NEW i \in 1 .. Len(frames'[d])
  PROVE  FrameFact(d, frames[d][i])'
<1> USE DEF FlowInv
<1>1. /\ calls[c] # <<>> /\ q = Head(calls[c])
      /\ d # c => frames'[d] = frames[d]
      /\ frames'[c] = frames[c] \/ frames'[c] = Append(frames[c], Reply(q, n, ok))
      /\ UNCHANGED <<kind, invited, approved>>
      /\ frames[c] \in Seq(Frame) /\ frames[d] \in Seq(Frame) /\ frames'[d] \in Seq(Frame)
  BY OwnState DEF Served, TypeOK
<1>2. PICK f \in Frame : f = frames'[d][i]
  BY <1>1
<1>3. CASE i \in 1 .. Len(frames[d]) /\ f = frames[d][i]
  <2>1. FrameFact(d, f)
    BY <1>3 DEF OwnerInv
  <2>2. f.type = "answer" => f.call.sid \in Sid
    BY DEF Frame, Event, CallRecord
  <2>3. f.type = "answer" /\ f.call.fn = "create" =>
          /\ server'[f.call.sid].members = server[f.call.sid].members
          /\ server'[f.call.sid].signups = server[f.call.sid].signups
    <3>1. ASSUME q.method \in {"Group.create", "Group.join", "Session.signup", "Session.load"}
          PROVE  ~(f.type = "answer" /\ f.call.fn = "create" /\ f.call.sid = q.sid)
      <4>1. Head(calls[c]).method \in {"Group.create", "Group.join", "Session.signup", "Session.load"}
        BY <1>1, <3>1
      <4>2. \A k \in 1 .. Len(frames[d]) :
              frames[d][k].type = "answer" /\ frames[d][k].call.fn = "create"
                => frames[d][k].call.sid # Head(calls[c]).sid
        BY <1>1, <4>1, Sole
      <4>3. QED BY <1>1, <1>3, <4>2
    <3>2. QED BY <2>2, <3>1, ServedServer
  <2>4. FrameFact(d, f)'
    BY <1>1, <2>1, <2>3, FrameKept
  <2>5. QED BY <1>2, <2>4
<1>4. CASE d = c /\ f = Reply(q, n, ok)
  <2>1. FrameFact(c, f)'
    BY <1>4, ServedAnswer
  <2>2. QED BY <1>2, <1>4, <2>1
<1>5. QED BY <1>1, <1>2, <1>3, <1>4

\* What is known of the groups.
LEMMA ServedGroup ==
  ASSUME FlowInv, FlowInv', OwnerInv, NEW c \in Client, NEW q \in CallRecord, NEW n \in Nat,
         NEW ok \in BOOLEAN, Served(c, q, n, ok), NEW s \in Sid
  PROVE  GroupFact(s)'
<1> USE DEF FlowInv
<1>1. /\ RequestFact(c, q) /\ ok = Accepts(c, q)
      /\ s # q.sid \/ ~ok => server'[s] = server[s]
      /\ ok => server'[q.sid] = Handled(c, q)
      /\ UNCHANGED <<kind, invited, approved>>
      /\ GroupFact(s)
  BY DEF Served, OwnerInv
<1>2. Sessions <= Sessions' /\ Sessions \in Nat /\ Sessions' \in Nat /\ s \in Nat
  BY ServedSessions DEF Sid
<1>3. CASE s # q.sid \/ ~ok
  BY <1>1, <1>2, <1>3, GroupKept
<1>4. CASE s = q.sid /\ ok
  <2>1. server[s].signups \in Seq([number : Nat, client : Client]) /\ server'[s].signups \in Seq([number : Nat, client : Client])
    BY <1>1, <1>4 DEF TypeOK, Group
  <2>2. /\ q.method \in {"Session.signup", "Session.load"} => c \in server[s].members
        /\ q.method = "Group.create" => ValidParameters(q.params)
    BY <1>1, <1>4 DEF Accepts
  <2>3. ValidParameters(server'[s].params)
    BY <1>1, <1>4, <2>2, ServedHandled DEF GroupFact
  <2>4. \/ server'[s].signups = server[s].signups
        \/ /\ q.method \in {"Session.signup", "Session.load"}
           /\ server'[s].members = server[s].members
           /\ server'[s].signups = Append(server[s].signups, [number |-> n, client |-> c])
    BY <1>4, ServedHandled
  <2>5. s \in invited => server'[s].signups # <<>>
    BY <1>1, <2>1, <2>4 DEF GroupFact
  <2>6. s \notin invited => Len(server'[s].signups) <= 1
    <3>1. s \notin invited /\ q.method \in {"Session.signup", "Session.load"} => server[s].signups = <<>>
      BY <1>1, <1>4 DEF RequestFact, OfGuest
    <3>2. QED BY <1>1, <2>1, <2>4, <3>1 DEF GroupFact
  <2>7. /\ server[s].members \subseteq server'[s].members \/ server'[s].members = {c}
        /\ server'[s].members # {} => Used(s) \/ q.method = "Group.create" \/ q.method = "Group.join"
    <3>1. CASE q.method \in {"Group.create", "Group.join"}
      BY <1>4, <3>1, ServedHandled, ZenonT(30)
    <3>2. CASE q.method \notin {"Group.create", "Group.join"}
      <4>1. server'[s].members = server[s].members
        BY <1>4, <3>2, ServedHandled
      <4>2. QED BY <4>1 DEF Used
    <3>3. QED BY <3>1, <3>2
  <2>8. server'[s].signups # <<>> => Used(s)'
    BY <1>1, <2>2, <2>4, <2>7 DEF GroupFact, Used
  <2>9. Used(s)' => s <= Sessions'
    <3>1. CASE q.method = "Group.create"
      BY <1>1, <1>2, <1>4, <3>1 DEF RequestFact, OfGuest, JoinMethods
    <3>2. CASE q.method = "Group.join"
      <4>1. s \in invited
        BY <1>1, <1>4, <3>2 DEF RequestFact, OfGuest, OfCreator, CreateMethods
      <4>2. QED BY <1>1, <1>2, <4>1 DEF GroupFact
    <3>3. CASE Used(s)
      BY <1>1, <1>2, <3>3 DEF GroupFact
    <3>4. QED BY <2>7, <3>1, <3>2, <3>3 DEF Used
  <2>10. s \in invited /\ kind # "keygen" => \A p \in Parties(s)' : <<p, s>> \in approved
    <3> SUFFICES ASSUME s \in invited, kind # "keygen", NEW p \in Parties(s)'
                 PROVE  <<p, s>> \in approved
      OBVIOUS
    <3>1. \A r \in Parties(s) : <<r, s>> \in approved
      BY <1>1 DEF GroupFact
    <3>2. CASE server'[s].signups = server[s].signups
      BY <3>1, <3>2 DEF Parties
    <3>3. CASE q.method \in {"Session.signup", "Session.load"}
               /\ server'[s].signups = Append(server[s].signups, [number |-> n, client |-> c])
      <4>1. <<c, s>> \in approved
        <5>1. server[s].signups # <<>>
          BY <1>1 DEF GroupFact
        <5>2. QED BY <1>1, <1>4, <3>3, <5>1 DEF RequestFact, OfGuest, JoinMethods
      <4>2. p \in Parties(s) \/ p = c
        <5>1. PICK k \in 1 .. Len(server'[s].signups) : p = server'[s].signups[k].client
          BY <2>1 DEF Parties, ToSet
        <5>2. CASE k \in 1 .. Len(server[s].signups)
          <6>1. server'[s].signups[k] = server[s].signups[k] /\ server[s].signups[k] \in ToSet(server[s].signups)
            BY <2>1, <3>3, <5>2 DEF ToSet
          <6>2. QED BY <5>1, <6>1 DEF Parties
        <5>3. CASE k = Len(server[s].signups) + 1
          BY <2>1, <3>3, <5>1, <5>3
        <5>4. QED BY <2>1, <3>3, <5>1, <5>2, <5>3
      <4>3. QED BY <3>1, <4>1, <4>2
    <3>4. QED BY <2>4, <3>2, <3>3
  <2>11. QED BY <1>1, <2>3, <2>5, <2>6, <2>8, <2>9, <2>10 DEF GroupFact, ValidParameters
<1>5. QED BY <1>3, <1>4

\* A ready event is owed when two parties or more have signed up, so that one
\* of them followed a link.
LEMMA ServedTask ==
  ASSUME FlowInv, OwnerInv, NEW c \in Client, NEW q \in CallRecord, NEW n \in Nat, NEW ok \in BOOLEAN,
         Served(c, q, n, ok), NEW d \in Client, task'[d].frame.type = "ready"
  PROVE  task'[d].frame.sid \in invited'
<1> USE DEF FlowInv
<1>1. /\ task'[c] = Notification(c, q) \/ task'[c] = Idle
      /\ d # c => task'[d] = task[d]
      /\ RequestFact(c, q) /\ invited' = invited /\ q.sid \in Sid
  BY DEF Served, CallRecord
<1>2. CASE d # c
  BY <1>1, <1>2 DEF OwnerInv
<1>3. CASE d = c
  <2>1. task'[c] = Notification(c, q)
    BY <1>1, <1>3 DEF Idle
  <2>2. /\ Notification(c, q).frame.sid = q.sid
        /\ q.method \in {"Session.signup", "Session.load"}
        /\ Len(server[q.sid].signups) + 1 = Needed(q.sid)
    BY <1>3, <2>1 DEF Notification, Idle
  <2>3. server[q.sid].params \in Form /\ ValidParameters(server[q.sid].params)
        /\ server[q.sid].signups \in Seq([number : Nat, client : Client])
    BY <1>1 DEF TypeOK, Group, OwnerInv, GroupFact
  <2>4. server[q.sid].signups # <<>>
    <3>1. Needed(q.sid) \in Nat /\ Needed(q.sid) >= 2
      BY <2>3, SMTT(30) DEF Needed, ValidParameters, Form
    <3>2. Len(server[q.sid].signups) # 0
      BY <2>2, <3>1
    <3>3. QED BY <3>2
  <2>5. q.sid \in invited
    BY <1>1, <2>2, <2>4 DEF RequestFact, OfGuest
  <2>6. QED BY <1>1, <1>3, <2>1, <2>2, <2>5
<1>4. QED BY <1>2, <1>3

\* The server takes a step.
LEMMA OwnerServeStep ==
  ASSUME FlowInv, FlowInv', OwnerInv, NEW c \in Client, Serve(c)
  PROVE  OwnerInv'
<1>1. PICK q \in CallRecord, n \in Nat, ok \in BOOLEAN : Served(c, q, n, ok)
  BY ServeServed
<1>2. UNCHANGED <<kind, app, invited, approved>>
  BY <1>1 DEF Served
<1>3. ASSUME NEW d \in Client PROVE AppFact(d, app[d])'
  <2>1. app[d] \in AppRecord /\ Page(kind, app[d]) /\ AppFact(d, app[d])
    BY OwnState DEF FlowInv, OwnerInv, Local
  <2>2. \A s \in Sid : server[s].signups # <<>> =>
           server'[s].signups # <<>> /\ server'[s].signups[1] = server[s].signups[1]
    BY <1>1, ServedServer
  <2>3. QED BY <1>2, <2>1, <2>2, AppKept
<1>4. ASSUME NEW d \in Client, NEW s \in Sid, Proposes(calls'[d], s)
      PROVE  Proposes(calls[d], s)
  <2>1. calls[c] # <<>> /\ calls'[c] = Tail(calls[c])
    BY <1>1 DEF Served
  <2>2. d # c => calls'[d] = calls[d]
    BY <1>1 DEF Served
  <2>3. calls[c] \in Seq(CallRecord)
    BY OwnState DEF FlowInv
  <2>4. QED BY <1>4, <2>1, <2>2, <2>3, ProposesAppend
<1>5. \A d, e \in Client, s \in Sid : Proposes(calls'[d], s) /\ Proposes(calls'[e], s) => d = e
  BY <1>4 DEF OwnerInv
<1>6. ASSUME NEW d \in Client, NEW i \in 1 .. Len(calls'[d])
      PROVE  RequestFact(d, calls[d][i])'
  BY <1>1, ServedRequests
<1>7. ASSUME NEW d \in Client, NEW i \in 1 .. Len(frames'[d])
      PROVE  FrameFact(d, frames[d][i])'
  BY <1>1, ServedFrames
<1>8. ASSUME NEW d \in Client, task'[d].frame.type = "ready"
      PROVE  task'[d].frame.sid \in invited'
  BY <1>1, <1>8, ServedTask
<1>9. ASSUME NEW s \in Sid PROVE GroupFact(s)'
  BY <1>1, ServedGroup
<1>10. QED BY <1>3, <1>5, <1>6, <1>7, <1>8, <1>9 DEF OwnerInv

-----------------------------------------------------------------------------
\* The invariant of the groups

\* Before anybody opens a wizard there is no group.
LEMMA InitOwner == Init => OwnerInv
<1> SUFFICES ASSUME Init PROVE OwnerInv
  OBVIOUS
<1>1. \A s \in Sid : server[s] = NoSession
  BY DEF Init
<1>2. NoSession.params = Key /\ NoSession.members = {} /\ NoSession.signups = <<>>
  BY DEF NoSession
<1>3. invited = {} /\ Len(<<>>) = 0
  BY DEF Init
<1>4. ASSUME NEW s \in Sid PROVE GroupFact(s)
  BY <1>1, <1>2, <1>3, KeyAssumption DEF GroupFact, Used
<1>5. ASSUME NEW c \in Client
      PROVE  /\ app[c] = NewApp /\ calls[c] = <<>> /\ frames[c] = <<>>
             /\ task[c].frame.type # "ready"
  BY DEF Init, Idle
<1>6. \A c \in Client : AppFact(c, NewApp)
  BY DEF AppFact, NewApp
<1>7. \A s : ~Proposes(<<>>, s)
  BY DEF Proposes
<1>8. QED BY <1>4, <1>5, <1>6, <1>7 DEF OwnerInv

\* It does not look at the connections.
LEMMA OwnerUnchanged ==
  ASSUME OwnerInv, UNCHANGED <<kind, server, calls, task, frames, app, invited, approved>>
  PROVE  OwnerInv'
<1>1. Sessions' = Sessions
  BY DEF Sessions
<1>2. \A s \in Sid : GroupFact(s)'
  BY <1>1 DEF OwnerInv, GroupFact, Used, Parties, ValidParameters
<1>3. \A c \in Client : \A q : RequestFact(c, q) => RequestFact(c, q)'
  BY <1>1 DEF RequestFact, OfCreator, OfGuest, Private, Used
<1>4. \A c \in Client : \A f : FrameFact(c, f) => FrameFact(c, f)'
  BY DEF FrameFact, OfCreator, OfGuest, Private
<1>5. \A c \in Client : AppFact(c, app[c])'
  BY DEF OwnerInv, AppFact
<1>6. QED BY <1>2, <1>3, <1>4, <1>5 DEF OwnerInv

\* A client is gone: its place in a group is free, and what it knew stays.
LEMMA OwnerDisconnectedStep ==
  ASSUME OwnerInv, NEW c \in Client, ClientDisconnected(c)
  PROVE  OwnerInv'
BY OwnerUnchanged DEF ClientDisconnected, history

\* Every step keeps it.
LEMMA NextOwner ==
  ASSUME FlowInv, FlowInv', OwnerInv, [Next]_vars
  PROVE  OwnerInv'
<1>1. CASE UNCHANGED vars
  BY <1>1, OwnerUnchanged DEF vars
<1>2. ASSUME NEW c \in Client, System(c)
      PROVE  OwnerInv'
  BY <1>2, OwnerServeStep, OwnerNotifyStep, OwnerDisconnectedStep, OwnerTimeoutStep, OwnerSendStep, OwnerSentStep,
     OwnerQuietSteps, OwnerCreateGroupStep, OwnerJoinSteps, OwnerInviteSteps, OwnerGuestSteps,
     OwnerReadySteps, OwnerEndSteps
     DEF System, KeygenStep, SignStep
<1>3. ASSUME NEW c \in Client, User(c)
      PROVE  OwnerInv'
  BY <1>3, OwnerOpenSteps, OwnerNextSteps, OwnerCopyLinkStep, OwnerLeaveSteps, OwnerQuietSteps,
     OwnerSubmitSteps, OwnerApproveStep, OwnerApproveOwnStep
     DEF User, KeygenUser, SignUser
<1>4. QED BY <1>1, <1>2, <1>3 DEF Next

\* While users are patient: a group is its creator's alone until the link is
\* copied, the creator is its first party, and who signs later has approved.
THEOREM OwnerInvHolds ==
  ASSUME Patient
  PROVE  Spec => [](FlowInv /\ OwnerInv)
<1>1. Init => FlowInv /\ OwnerInv
  BY InitFlow, InitOwner
<1>2. FlowInv /\ OwnerInv /\ [Next]_vars => FlowInv' /\ OwnerInv'
  BY NextFlow, NextOwner
<1>3. QED BY <1>1, <1>2, PTL DEF Spec

\* Nobody's share signs before every party of the session approved the value:
\* the creator approves before the link is shown, the others before they load.
THEOREM OnlyApprovedHolds ==
  ASSUME Patient
  PROVE  Spec => []OnlyApproved
<1>1. ASSUME FlowInv, OwnerInv PROVE OnlyApproved
  <2>1. SUFFICES ASSUME kind # "keygen", NEW c \in Client, NEW j \in app[c].jobs,
                        NEW p \in Parties(j.sid)
                 PROVE  <<p, j.sid>> \in approved
    BY DEF OnlyApproved
  <2>2. j.sid \in invited /\ j.sid \in Sid
    BY <1>1 DEF OwnerInv, AppFact, FlowInv, TypeOK
  <2>3. QED BY <1>1, <2>1, <2>2 DEF OwnerInv, GroupFact
<1>2. QED BY <1>1, OwnerInvHolds, PTL

=============================================================================
