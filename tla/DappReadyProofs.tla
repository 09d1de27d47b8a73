---------------------------- MODULE DappReadyProofs ---------------------------
(***************************************************************************)
(* Theorems about DappFlow: the ready event of a session comes once, what  *)
(* each dapp and the server know of a session when it computes, and where  *)
(* the round messages of a session are.                                    *)
(***************************************************************************)
EXTENDS DappGroupProofs

-----------------------------------------------------------------------------
\* A session is complete once, and each of its parties is told once

ReadyFrame(f, s) == f.type = "ready" /\ f.sid = s

\* d's connection task has the ready event of s to send.
ReadyTask(d, s) == ReadyFrame(task[d].frame, s)

\* c may still be sent it,
Owed(c, s) == \E d \in Client : ReadyTask(d, s) /\ (task[d].fresh \/ c \in task[d].to)

\* has not read it yet,
Waits(c, s) == \E i \in 1 .. Len(frames[c]) : ReadyFrame(frames[c][i], s)

\* or has begun to compute.
Started(c, s) == <<c, s>> \in done \/ \E j \in app[c].jobs : j.sid = s

Complete(s) == Len(server[s].signups) >= Needed(s)

\* Each of these comes once, in this order.
OnceInv ==
  /\ \A c \in Client, s \in Sid :
       /\ ReadyTask(c, s) \/ Waits(c, s) \/ Started(c, s) => Complete(s)
       /\ Owed(c, s) => ~Waits(c, s) /\ ~Started(c, s)
       /\ Waits(c, s) => ~Started(c, s)
       /\ \A i, j \in 1 .. Len(frames[c]) :
            ReadyFrame(frames[c][i], s) /\ ReadyFrame(frames[c][j], s) => i = j
  /\ \A c, d \in Client, s \in Sid : ReadyTask(c, s) /\ ReadyTask(d, s) => c = d

-----------------------------------------------------------------------------
\* What a dapp knows of its session

\* c is a party of s, with the number n.
Has(c, s, n) == [number |-> n, client |-> c] \in ToSet(server[s].signups)

KnowsKey(c, a) ==
  /\ a.once # {} => a.transport = a.session /\ Has(c, a.session, a.number)
  /\ \A j \in a.jobs : Mounted(a, j) => j.sid = a.session
  /\ a.step = 3 => <<c, a.session>> \in done

KnowsValue(c, a) ==
  /\ a.signer => a.wizard # "none"
  /\ a.wizard # "none" /\ a.candidate # 0 =>
       /\ a.candidate = a.session /\ a.transport = a.session
       /\ Has(c, a.session, a.number)
       /\ a.step >= 1 /\ (a.wizard = "join" => a.step >= 2)
  /\ a.wizard # "none" /\ a.proof # 0 =>
       a.proof = a.session /\ a.candidate = a.session /\ <<c, a.session>> \in done
  /\ a.step = 3 => a.proof # 0
  /\ \A j \in a.jobs : /\ a.wizard # "none" /\ a.step \in {1, 2} /\ a.proof = 0
                       /\ j.sid = a.session /\ a.candidate = a.session

Knows(c, a) ==
  /\ a.sinks \in {<<>>, <<a.session>>}
  /\ \A j \in a.jobs : j.via = j.sid /\ Has(c, j.sid, j.number)
  /\ \A i, j \in a.jobs : i.sid = j.sid => i = j
  /\ IF kind = "keygen" THEN KnowsKey(c, a) ELSE KnowsValue(c, a)

\* The answer to a signup
SignedUpFrame(f, s) ==
  /\ f.type = "answer" /\ f.ok
  /\ f.call.method \in {"Session.signup", "Session.load"} /\ f.call.sid = s

\* It, or the sink that was made when it was read, hears the others.
Hears(p, s) ==
  \/ p \in left \/ <<p, s>> \in done
  \/ app[p].sinks = <<s>>
  \/ \E i \in 1 .. Len(frames[p]) : SignedUpFrame(frames[p][i], s)

\* c has a round message of s to read.
Brought(c, s) ==
  \E i \in 1 .. Len(frames[c]) : frames[c][i].type = "message" /\ frames[c][i].sid = s

\* d's connection task notifies parties of its session.
Addressed(d) ==
  task[d] # Idle =>
    task[d].frame.sid = task[d].sid /\ task[d].to \subseteq Parties(task[d].sid)

\* Who was sent a message, or can be sent one, hears it.
Due(p, s) == Brought(p, s) \/ (p \in Parties(s) /\ ~Cut(p))

ReadyInv ==
  /\ OnceInv
  /\ \A c \in Client : Knows(c, app[c])
  /\ \A c \in Client : \A i \in 1 .. Len(frames[c]) : \A s \in Sid :
       SignedUpFrame(frames[c][i], s) => Has(c, s, frames[c][i].call.number)
  /\ \A d \in Client : Addressed(d)
  /\ \A p \in Client, s \in Sid : Due(p, s) => Hears(p, s)

-----------------------------------------------------------------------------
\* What other people do does not change what is known.

\* What a dapp knows stays true.
LEMMA KnowsKept ==
  ASSUME NEW c, NEW a, Knows(c, a), UNCHANGED kind, done \subseteq done',
         \A s, n : Has(c, s, n) => Has(c, s, n)'
  PROVE  Knows(c, a)'
<1>1. KnowsKey(c, a) => KnowsKey(c, a)'
  BY DEF KnowsKey
<1>2. KnowsValue(c, a) => KnowsValue(c, a)'
  BY DEF KnowsValue
<1>3. QED BY <1>1, <1>2 DEF Knows

\* Who hears a session still does when its dapp has the same sinks, and no
\* answer to a signup is read.
LEMMA HearsKept ==
  ASSUME FlowInv, FlowInv', NEW p \in Client, NEW s \in Sid, Hears(p, s),
         left \subseteq left', done \subseteq done', app'[p].sinks = app[p].sinks,
         \/ frames'[p] = frames[p]
         \/ \E f \in Frame : frames'[p] = Append(frames[p], f)
         \/ frames[p] # <<>> /\ frames'[p] = Tail(frames[p]) /\ ~SignedUpFrame(Head(frames[p]), s)
  PROVE  Hears(p, s)'
<1>1. frames[p] \in Seq(Frame)
  BY DEF FlowInv, TypeOK
<1>2. CASE p \in left \/ <<p, s>> \in done \/ app[p].sinks = <<s>>
  BY <1>2 DEF Hears
<1>3. ASSUME NEW i \in 1 .. Len(frames[p]), SignedUpFrame(frames[p][i], s)
      PROVE  \E j \in 1 .. Len(frames'[p]) : SignedUpFrame(frames'[p][j], s)
  <2>1. CASE frames'[p] = frames[p]
    BY <1>3, <2>1
  <2>2. ASSUME NEW f \in Frame, frames'[p] = Append(frames[p], f)
        PROVE  \E j \in 1 .. Len(frames'[p]) : SignedUpFrame(frames'[p][j], s)
    <3>1. i \in 1 .. Len(frames'[p]) /\ frames'[p][i] = frames[p][i]
      BY <1>1, <2>2
    <3>2. QED BY <1>3, <3>1
  <2>3. CASE frames[p] # <<>> /\ frames'[p] = Tail(frames[p]) /\ ~SignedUpFrame(Head(frames[p]), s)
    <3>1. i # 1
      BY <1>1, <1>3, <2>3, TailElements
    <3>2. i - 1 \in 1 .. Len(Tail(frames[p])) /\ Tail(frames[p])[i - 1] = frames[p][i]
      BY <1>1, <2>3, <3>1, TailElements
    <3>3. QED BY <1>3, <2>3, <3>2
  <2>4. QED BY <2>1, <2>2, <2>3
<1>4. CASE \E i \in 1 .. Len(frames[p]) : SignedUpFrame(frames[p][i], s)
  BY <1>3, <1>4 DEF Hears, SignedUpFrame
<1>5. QED BY <1>2, <1>4 DEF Hears

\* A step of a client, which starts to compute on a ready event only.
LEMMA OnceOwnStep ==
  ASSUME FlowInv, OnceInv, NEW c \in Client, UNCHANGED <<kind, server, task>>,
         \A d \in Client \ {c} : app'[d] = app[d] /\ frames'[d] = frames[d],
         \A d \in Client \ {c}, s \in Sid : <<d, s>> \in done' => <<d, s>> \in done,
         frames'[c] = frames[c] \/ (frames[c] # <<>> /\ frames'[c] = Tail(frames[c])),
         \A s \in Sid : Started(c, s)' =>
            Started(c, s) \/ ( /\ frames[c] # <<>> /\ frames'[c] = Tail(frames[c])
                               /\ ReadyFrame(Head(frames[c]), s))
  PROVE  OnceInv'
<1>1. frames[c] \in Seq(Frame)
  BY DEF FlowInv, TypeOK
<1>2. \A s \in Sid : Complete(s)' <=> Complete(s)
  BY DEF Complete, Needed
<1>3. \A d \in Client, s \in Sid : ReadyTask(d, s)' <=> ReadyTask(d, s)
  BY DEF ReadyTask, ReadyFrame
<1>4. \A d \in Client, s \in Sid : Owed(d, s)' <=> Owed(d, s)
  BY DEF Owed, ReadyTask, ReadyFrame
<1>6. ASSUME NEW s \in Sid
      PROVE  /\ Waits(c, s)' => Waits(c, s)
             /\ Waits(c, s)' => frames'[c] = frames[c] \/ ~ReadyFrame(Head(frames[c]), s)
             /\ Started(c, s)' => Started(c, s) \/ Waits(c, s)
             /\ Started(c, s)' /\ Waits(c, s)' => Started(c, s)
             /\ \A i, j \in 1 .. Len(frames'[c]) :
                  ReadyFrame(frames'[c][i], s) /\ ReadyFrame(frames'[c][j], s) => i = j
  <2>0. \A i, j \in 1 .. Len(frames[c]) :
          ReadyFrame(frames[c][i], s) /\ ReadyFrame(frames[c][j], s) => i = j
    BY DEF OnceInv
  <2>1. CASE frames'[c] = frames[c] /\ (Started(c, s)' => Started(c, s))
    BY <2>0, <2>1 DEF Waits, ReadyFrame
  <2>2. CASE frames[c] # <<>> /\ frames'[c] = Tail(frames[c])
    <3>1. /\ 1 \in 1 .. Len(frames[c]) /\ Head(frames[c]) = frames[c][1]
          /\ \A i \in 1 .. Len(Tail(frames[c])) :
               i + 1 \in 1 .. Len(frames[c]) /\ Tail(frames[c])[i] = frames[c][i + 1] /\ i + 1 # 1
      BY <1>1, <2>2, TailElements
    <3>2. ASSUME NEW i \in 1 .. Len(Tail(frames[c])), ReadyFrame(Tail(frames[c])[i], s)
          PROVE  Waits(c, s) /\ ~ReadyFrame(Head(frames[c]), s)
      BY <2>0, <3>1, <3>2 DEF Waits
    <3>3. Waits(c, s)' => Waits(c, s) /\ ~ReadyFrame(Head(frames[c]), s)
      BY <2>2, <3>2 DEF Waits, ReadyFrame
    <3>4. ReadyFrame(Head(frames[c]), s) => Waits(c, s)
      BY <3>1 DEF Waits
    <3>5. \A i, j \in 1 .. Len(frames'[c]) :
            ReadyFrame(frames'[c][i], s) /\ ReadyFrame(frames'[c][j], s) => i = j
      BY <2>0, <2>2, <3>1
    <3>6. QED BY <2>2, <3>3, <3>4, <3>5
  <2>3. QED BY <2>1, <2>2
<1>7. ASSUME NEW d \in Client, NEW s \in Sid
      PROVE  /\ Waits(d, s)' => Waits(d, s)
             /\ Started(d, s)' => Started(d, s) \/ Waits(d, s)
             /\ Started(d, s)' /\ Waits(d, s)' => Started(d, s)
             /\ \A i, j \in 1 .. Len(frames'[d]) :
                  ReadyFrame(frames'[d][i], s) /\ ReadyFrame(frames'[d][j], s) => i = j
  <2>1. CASE d = c
    BY <1>6, <2>1
  <2>2. CASE d # c
    <3>1. \A i, j \in 1 .. Len(frames[d]) :
            ReadyFrame(frames[d][i], s) /\ ReadyFrame(frames[d][j], s) => i = j
      BY DEF OnceInv
    <3>2. frames'[d] = frames[d] /\ app'[d] = app[d] /\ (<<d, s>> \in done' => <<d, s>> \in done)
      BY <2>2
    <3>3. (Waits(d, s)' <=> Waits(d, s)) /\ (Started(d, s)' => Started(d, s))
      BY <3>2 DEF Waits, ReadyFrame, Started
    <3>4. QED BY <3>1, <3>2, <3>3
  <2>3. QED BY <2>1, <2>2
<1>8. ASSUME NEW d \in Client, NEW s \in Sid
      PROVE  /\ ReadyTask(d, s)' \/ Waits(d, s)' \/ Started(d, s)' => Complete(s)'
             /\ Owed(d, s)' => ~Waits(d, s)' /\ ~Started(d, s)'
             /\ Waits(d, s)' => ~Started(d, s)'
  <2>1. /\ ReadyTask(d, s) \/ Waits(d, s) \/ Started(d, s) => Complete(s)
        /\ Owed(d, s) => ~Waits(d, s) /\ ~Started(d, s)
        /\ Waits(d, s) => ~Started(d, s)
    BY DEF OnceInv
  <2>2. QED BY <1>2, <1>3, <1>4, <1>7, <2>1
<1>9. \A d, e \in Client, s \in Sid : ReadyTask(d, s)' /\ ReadyTask(e, s)' => d = e
  BY <1>3 DEF OnceInv
<1>10. QED BY <1>7, <1>8, <1>9 DEF OnceInv, ReadyFrame

\* No message comes by reading a frame.
LEMMA BroughtLess ==
  ASSUME FlowInv, NEW p \in Client, NEW s \in Sid,
         frames'[p] = frames[p] \/ (frames[p] # <<>> /\ frames'[p] = Tail(frames[p]))
  PROVE  Brought(p, s)' => Brought(p, s)
<1>1. CASE frames'[p] = frames[p]
  BY <1>1 DEF Brought
<1>2. CASE frames[p] # <<>> /\ frames'[p] = Tail(frames[p])
  <2>1. frames[p] \in Seq(Frame)
    BY DEF FlowInv, TypeOK
  <2>2. \A i \in 1 .. Len(Tail(frames[p])) :
          i + 1 \in 1 .. Len(frames[p]) /\ Tail(frames[p])[i] = frames[p][i + 1]
    BY <1>2, <2>1, TailElements
  <2>3. QED BY <1>2, <2>2 DEF Brought
<1>3. QED BY <1>1, <1>2

\* A client that did not ask for anything new still hears its sessions.
HearsOn(c) == \A s \in Sid : Hears(c, s) => Hears(c, s)'

\* It starts to compute on a ready event only.
StartsReady(c) ==
  \A s \in Sid : Started(c, s)' =>
     Started(c, s) \/ ( /\ frames[c] # <<>> /\ frames'[c] = Tail(frames[c])
                        /\ ReadyFrame(Head(frames[c]), s))

\* A step of a client, with what its dapp must know afterwards.
LEMMA ReadyOwnStep ==
  ASSUME FlowInv, FlowInv', ReadyInv, NEW c \in Client, NEW b, Become(c, b), Knows(c, b)',
         UNCHANGED <<kind, server, task, conn>>,
         \/ UNCHANGED frames
         \/ frames[c] # <<>> /\ frames' = [frames EXCEPT ![c] = Tail(frames[c])],
         left \subseteq left', done \subseteq done',
         \A d \in Client \ {c}, s \in Sid : <<d, s>> \in done' => <<d, s>> \in done,
         StartsReady(c), HearsOn(c)
  PROVE  ReadyInv'
<1>1. \A d \in Client \ {c} : app'[d] = app[d] /\ frames'[d] = frames[d]
  BY DEF Become, FlowInv, TypeOK
<1>2. app'[c] = b
  BY DEF Become, FlowInv, TypeOK
<1>3. frames'[c] = frames[c] \/ (frames[c] # <<>> /\ frames'[c] = Tail(frames[c]))
  BY DEF FlowInv, TypeOK
<1>4. OnceInv'
  BY <1>1, <1>3, OnceOwnStep DEF ReadyInv, StartsReady
<1>5. ASSUME NEW d, NEW s, NEW n PROVE Has(d, s, n)' <=> Has(d, s, n)
  BY DEF Has
<1>6. ASSUME NEW d \in Client PROVE Knows(d, app[d])'
  <2>1. CASE d = c
    <3>1. Knows(c, app[c])'
      BY <1>2
    <3>2. QED BY <2>1, <3>1
  <2>2. CASE d # c
    <3>1. PICK a : a = app[d] /\ app'[d] = a
      BY <1>1, <2>2
    <3>2. Knows(d, a)
      BY <3>1 DEF ReadyInv
    <3>3. Knows(d, a)'
      BY <1>5, <3>2, KnowsKept
    <3>4. QED BY <3>1, <3>3
  <2>3. QED BY <2>1, <2>2
<1>7. ASSUME NEW d \in Client, NEW i \in 1 .. Len(frames'[d]), NEW s \in Sid,
             SignedUpFrame(frames'[d][i], s)
      PROVE  Has(d, s, frames'[d][i].call.number)
  <2>1. CASE frames'[d] = frames[d]
    BY <1>7, <2>1 DEF ReadyInv
  <2>2. CASE frames[d] # <<>> /\ frames'[d] = Tail(frames[d])
    <3>1. frames[d] \in Seq(Frame)
      BY DEF FlowInv, TypeOK
    <3>2. i + 1 \in 1 .. Len(frames[d]) /\ frames'[d][i] = frames[d][i + 1]
      BY <2>2, <3>1, TailElements
    <3>3. QED BY <1>7, <3>2 DEF ReadyInv
  <2>3. QED BY <1>1, <1>3, <2>1, <2>2
<1>8. ASSUME NEW p \in Client, NEW s \in Sid, Due(p, s)' PROVE Hears(p, s)'
  <2>1. Due(p, s)
    <3>1. Brought(p, s)' => Brought(p, s)
      BY <1>1, <1>3, BroughtLess
    <3>2. QED BY <1>8, <3>1 DEF Due, Parties, Cut
  <2>2. Hears(p, s)
    BY <2>1 DEF ReadyInv
  <2>3. CASE p = c
    <3>1. Hears(c, s)'
      BY <2>1, <2>2, <2>3 DEF HearsOn
    <3>2. QED BY <2>3, <3>1
  <2>4. CASE p # c
    BY <1>1, <2>1, <2>2, <2>4, HearsKept
  <2>5. QED BY <2>3, <2>4
<1>9. \A d \in Client : Addressed(d)'
  BY DEF ReadyInv, Addressed, Parties
<1>10. QED BY <1>4, <1>5, <1>6, <1>7, <1>8, <1>9 DEF ReadyInv, SignedUpFrame

-----------------------------------------------------------------------------
\* Steps of a dapp

\* Two states of a dapp that differ in what ReadyInv does not look at.
Alike(a, b) ==
  /\ b.signer => a.signer \/ b.wizard # "none"
  /\ \A x \in {"wizard", "step", "visit", "session", "number", "transport", "candidate", "proof",
               "once", "sinks", "jobs"} : b[x] = a[x]

\* Such a dapp knows what it knew.
LEMMA AlikeKnows ==
  ASSUME NEW c, NEW a, NEW b, Alike(a, b), Knows(c, a)
  PROVE  Knows(c, b)
<1>1. /\ b.signer => a.signer \/ b.wizard # "none"
      /\ b.wizard = a.wizard /\ b.step = a.step /\ b.visit = a.visit /\ b.session = a.session
      /\ b.number = a.number /\ b.transport = a.transport /\ b.candidate = a.candidate
      /\ b.proof = a.proof /\ b.once = a.once /\ b.sinks = a.sinks /\ b.jobs = a.jobs
  BY DEF Alike
<1>2. KnowsKey(c, a) => KnowsKey(c, b)
  BY <1>1 DEF KnowsKey, Mounted
<1>3. KnowsValue(c, a) => KnowsValue(c, b)
  BY <1>1 DEF KnowsValue
<1>4. QED BY <1>1, <1>2, <1>3 DEF Knows

\* The fields it does not look at.
LEMMA AlikeFields ==
  ASSUME NEW a \in AppRecord, NEW x
  PROVE  /\ Alike(a, a) /\ Alike(a, [a EXCEPT !.ready = x]) /\ Alike(a, [a EXCEPT !.inbox = x])
         /\ Alike(a, [a EXCEPT !.form = x]) /\ Alike(a, [a EXCEPT !.timers = x])
BY DEF Alike, AppRecord

\* No answer to a signup is read, and no listener changes.
LEMMA HearsSame ==
  ASSUME FlowInv, FlowInv', NEW c \in Client, left \subseteq left', done \subseteq done',
         app'[c].sinks = app[c].sinks, 
         \/ UNCHANGED frames
         \/ /\ frames[c] # <<>> /\ frames' = [frames EXCEPT ![c] = Tail(frames[c])]
            /\ \A s \in Sid : ~SignedUpFrame(Head(frames[c]), s)
  PROVE  HearsOn(c)
<1> SUFFICES ASSUME NEW s \in Sid, Hears(c, s) PROVE Hears(c, s)'
  BY DEF HearsOn
<1>1. \/ frames'[c] = frames[c]
      \/ frames[c] # <<>> /\ frames'[c] = Tail(frames[c]) /\ ~SignedUpFrame(Head(frames[c]), s)
  BY DEF FlowInv, TypeOK
<1>2. QED BY <1>1, HearsKept

\* A step that changes such fields, and reads no answer to a signup.
LEMMA ReadySameStep ==
  ASSUME FlowInv, FlowInv', ReadyInv, NEW c \in Client, NEW b, Become(c, b), Alike(app[c], b),
         UNCHANGED <<kind, server, task, conn, left, done>>,
         \/ UNCHANGED frames
         \/ /\ frames[c] # <<>> /\ frames' = [frames EXCEPT ![c] = Tail(frames[c])]
            /\ \A s \in Sid : ~SignedUpFrame(Head(frames[c]), s)
  PROVE  ReadyInv'
<1>1. app'[c] = b
  BY DEF Become, FlowInv, TypeOK
<1>2. PICK a : a = app[c] /\ Alike(a, b) /\ Knows(c, a)
  BY DEF ReadyInv
<1>3. Knows(c, b)'
  <2>1. Knows(c, b)
    BY <1>2, AlikeKnows
  <2>2. ASSUME NEW s, NEW n PROVE Has(c, s, n)' <=> Has(c, s, n)
    BY DEF Has
  <2>3. QED BY <2>1, <2>2, KnowsKept
<1>4. b.sinks = app[c].sinks /\ b.jobs = app[c].jobs
  BY <1>2 DEF Alike
<1>5. HearsOn(c)
  BY <1>1, <1>4, HearsSame
<1>6. StartsReady(c)
  BY <1>1, <1>4 DEF StartsReady, Started
<1>7. QED BY <1>3, <1>5, <1>6, ReadyOwnStep

\* Signer listens beside a wizard only.
LEMMA RenderSigner ==
  ASSUME NEW a \in AppRecord
  PROVE  Render(a).signer => Render(a).wizard # "none"
BY DEF Render, AppRecord

\* A group is stored.
LEMMA SetGroupAlike ==
  ASSUME NEW a \in AppRecord, NEW q \in CallRecord
  PROVE  Alike(a, SetGroup(a, q.sid))
<1> DEFINE b == SetGroup(a, q.sid)
<1>1. b \in AppRecord /\ Same(a, b) /\ b.number = a.number /\ b.proof = a.proof
  BY SetGroupType
<1>2. b.signer => b.wizard # "none"
  <2>0. q.sid \in 0 .. MaxSessions
    BY BoundsAssumption DEF CallRecord, Sid
  <2>1. [a EXCEPT !.group = q.sid] \in AppRecord
    BY <2>0, FieldTypes
  <2>2. QED BY <2>1, RenderSigner DEF SetGroup
<1> HIDE DEF b
<1>3. \A x \in {"wizard", "step", "visit", "session", "number", "transport", "candidate", "proof",
               "once", "sinks", "jobs"} : b[x] = a[x]
  BY <1>1 DEF Same
<1>4. QED BY <1>2, <1>3 DEF Alike, b

\* The answer that is read is not one to a signup.
LEMMA NotSignedUp ==
  ASSUME NEW c \in Client,
         \/ frames[c] # <<>> /\ Head(frames[c]).type # "answer"
         \/ \E fn : \E m \in Method \ {"Session.signup", "Session.load"} : Answered(c, fn, {m}, TRUE)
         \/ Answered(c, "create", {"Group.create", "Session.create"}, TRUE)
         \/ \E fn, methods : Answered(c, fn, methods, FALSE)
  PROVE  \A s \in Sid : ~SignedUpFrame(Head(frames[c]), s)
BY DEF SignedUpFrame, Answered

\* The page's state changes, or the user asks for something.
LEMMA ReadyUserSteps ==
  ASSUME FlowInv, FlowInv', ReadyInv, NEW c \in Client,
         \/ BlockInfo(c) \/ ApproveOwn(c) \/ SendTransaction(c) \/ SetParameters(c)
         \/ SubmitParameters(c) \/ SubmitMessage(c) \/ SubmitTransaction(c) \/ Approve(c)
         \/ CopyLink(c) \/ Timeout(c)
  PROVE  ReadyInv'
<1> DEFINE a == app[c]
<1>1. a \in AppRecord /\ (UNCHANGED app => Become(c, a))
  BY OwnState DEF FlowInv, Become
<1>2. Alike(a, a) /\ \A x : Alike(a, [a EXCEPT !.form = x]) /\ Alike(a, [a EXCEPT !.ready = x])
                            /\ Alike(a, [a EXCEPT !.timers = x])
  BY <1>1, AlikeFields
<1>3. UNCHANGED <<kind, server, task, conn, frames, left, done>>
  BY DEF BlockInfo, ApproveOwn, SendTransaction, SetParameters, SubmitParameters, SubmitMessage,
         SubmitTransaction, CreateFor, Approve, CopyLink, Timeout, history
<1>4. PICK b : Become(c, b) /\ Alike(a, b)
  <2>1. CASE BlockInfo(c) \/ ApproveOwn(c) \/ SendTransaction(c)
    BY <1>2, <2>1 DEF BlockInfo, ApproveOwn, SendTransaction
  <2>2. CASE SetParameters(c)
    BY <1>2, <2>2 DEF SetParameters
  <2>3. CASE Timeout(c)
    BY <1>2, <2>3 DEF Timeout
  <2>4. CASE \/ SubmitParameters(c) \/ SubmitMessage(c) \/ SubmitTransaction(c) \/ Approve(c)
             \/ CopyLink(c)
    BY <1>1, <1>2, <2>4 DEF SubmitParameters, SubmitMessage, SubmitTransaction, CreateFor, Approve, CopyLink
  <2>5. QED BY <2>1, <2>2, <2>3, <2>4
<1> HIDE DEF a
<1>5. QED BY <1>3, <1>4, ReadySameStep DEF a

\* A frame is read that is not the answer to a signup.
LEMMA ReadyFrameSteps ==
  ASSUME FlowInv, FlowInv', OwnerInv, ReadyInv, NEW c \in Client,
         \/ CallFailed(c) \/ ReceiveMessage(c) \/ CreateGroupSession(c) \/ JoinGroupSession(c)
         \/ SessionJoined(c)
  PROVE  ReadyInv'
<1> DEFINE a == app[c]
<1>1. a \in AppRecord /\ (UNCHANGED app => Become(c, a))
  BY OwnState DEF FlowInv, Become
<1>2. UNCHANGED <<kind, server, task, conn, left, done>>
  BY DEF CallFailed, ReceiveMessage, CreateGroupSession, JoinGroupSession, SessionJoined, history
<1>3. \A s \in Sid : ~SignedUpFrame(Head(frames[c]), s)
  <2>1. \/ frames[c] # <<>> /\ Head(frames[c]).type # "answer"
        \/ \E fn : \E m \in Method \ {"Session.signup", "Session.load"} : Answered(c, fn, {m}, TRUE)
        \/ Answered(c, "create", {"Group.create", "Session.create"}, TRUE)
        \/ \E fn, methods : Answered(c, fn, methods, FALSE)
    <3>1. "Group.join" \in Method \ {"Session.signup", "Session.load"}
          /\ "Session.join" \in Method \ {"Session.signup", "Session.load"}
      BY DEF Method
    <3>2. CallFailed(c) => \E fn, methods : Answered(c, fn, methods, FALSE)
      BY DEF CallFailed
    <3>3. JoinGroupSession(c) \/ SessionJoined(c) =>
            \E fn : \E m \in Method \ {"Session.signup", "Session.load"} : Answered(c, fn, {m}, TRUE)
      BY <3>1 DEF JoinGroupSession, SessionJoined
    <3>4. CreateGroupSession(c) => Answered(c, "create", {"Group.create", "Session.create"}, TRUE)
      BY DEF CreateGroupSession
    <3>5. ReceiveMessage(c) => frames[c] # <<>> /\ Head(frames[c]).type # "answer"
      BY DEF ReceiveMessage
    <3>6. QED BY <3>2, <3>3, <3>4, <3>5
  <2>2. QED BY <2>1, NotSignedUp
<1>4. frames[c] # <<>> /\ frames' = [frames EXCEPT ![c] = Tail(frames[c])]
  BY DEF CallFailed, ReceiveMessage, CreateGroupSession, JoinGroupSession, SessionJoined, Answered
<1>5. PICK b : Become(c, b) /\ Alike(a, b)
  <2>1. CASE CallFailed(c) \/ JoinGroupSession(c)
    BY <1>1, <2>1, AlikeFields DEF CallFailed, JoinGroupSession
  <2>2. CASE ReceiveMessage(c)
    <3>1. PICK x : Become(c, a) \/ Become(c, [a EXCEPT !.inbox = x])
      BY <2>2 DEF ReceiveMessage, Become
    <3>2. QED BY <1>1, <3>1, AlikeFields
  <2>3. CASE CreateGroupSession(c)
    <3>1. Answered(c, "create", {"Group.create", "Session.create"}, TRUE)
      BY <2>3 DEF CreateGroupSession
    <3>2. Answer(c) \in CallRecord
      BY <3>1, AnswerKnown
    <3>3. Become(c, SetGroup(a, Answer(c).sid)) \/ UNCHANGED app
      BY <2>3 DEF CreateGroupSession
    <3> HIDE DEF a
    <3>4. QED BY <1>1, <3>2, <3>3, AlikeFields, SetGroupAlike
  <2>4. CASE SessionJoined(c)
    <3>1. Answered(c, "join", {"Session.join"}, TRUE) /\ Become(c, SetGroup(a, Answer(c).sid))
      BY <2>4 DEF SessionJoined
    <3>2. Answer(c) \in CallRecord
      BY <3>1, AnswerKnown
    <3> HIDE DEF a
    <3>3. QED BY <1>1, <3>1, <3>2, SetGroupAlike
  <2>5. QED BY <2>1, <2>2, <2>3, <2>4
<1> HIDE DEF a
<1>6. QED BY <1>2, <1>3, <1>4, <1>5, ReadySameStep DEF a

\* Nothing starts to compute.
LEMMA StartsNothing ==
  ASSUME NEW c, done' = done, \A i \in app'[c].jobs : \E j \in app[c].jobs : j.sid = i.sid
  PROVE  StartsReady(c)
<1> SUFFICES ASSUME NEW s \in Sid, Started(c, s)' PROVE Started(c, s)
  BY DEF StartsReady
<1>1. <<c, s>> \in done \/ \E i \in app'[c].jobs : i.sid = s
  BY DEF Started
<1>2. QED BY <1>1 DEF Started

\* The server has what it had.
LEMMA KnowsServer ==
  ASSUME NEW c, NEW b, Knows(c, b), UNCHANGED <<kind, server>>, done \subseteq done'
  PROVE  Knows(c, b)'
<1>1. ASSUME NEW s, NEW n PROVE Has(c, s, n)' <=> Has(c, s, n)
  BY DEF Has
<1>2. QED BY <1>1, KnowsKept

\* Before a page that has no sink nothing is signed.
LEMMA FreshPage ==
  ASSUME NEW c, NEW a \in AppRecord, Page(kind, a), Computing(kind, a), Knows(c, a),
         \/ a.wizard = "none" \/ a.step = 0
         \/ a.wizard = "join" /\ a.step = 1
  PROVE  IF kind = "keygen"
         THEN (a.once # {} => a.step = 1) /\ \A j \in a.jobs : ~Mounted(a, j)
         ELSE a.jobs = {} /\ (a.wizard # "none" => a.candidate = 0 /\ a.proof = 0) 
<1>1. CASE kind = "keygen"
  <2>1. a.wizard = "none" \/ a.step # 2
    OBVIOUS
  <2>2. \A j \in a.jobs : ~Mounted(a, j)
    BY <1>1, <2>1 DEF Computing, Mounted
  <2>3. QED BY <1>1, <2>2 DEF Page
<1>2. CASE kind # "keygen"
  <2>1. KnowsValue(c, a) /\ a.jobs \subseteq Job /\ a.session \in 0 .. MaxSessions
    BY <1>2 DEF Knows, AppRecord
  <2>2. a.wizard # "none" => a.candidate = 0
    BY <2>1 DEF KnowsValue
  <2>3. a.wizard # "none" => a.proof = 0
    BY <2>1, <2>2 DEF KnowsValue
  <2>4. a.jobs = {}
    <3>1. SUFFICES ASSUME NEW j \in a.jobs PROVE FALSE
      OBVIOUS
    <3>2. j.sid \in Sid /\ j.sid = a.candidate /\ a.wizard # "none"
      BY <2>1 DEF KnowsValue, Job
    <3>3. QED BY <2>2, <3>2 DEF Sid
  <2>5. QED BY <1>2, <2>2, <2>3, <2>4
<1>3. QED BY <1>1, <1>2

\* The first page of a joining wizard is passed.
LEMMA ReadyConnectedStep ==
  ASSUME FlowInv, FlowInv', ReadyInv, NEW c \in Client, Connected(c)
  PROVE  ReadyInv'
<1>1. PICK o \in AppRecord :
        /\ o = app[c] /\ Page(kind, o) /\ Computing(kind, o) /\ o.wizard = "join" /\ o.step = 0
        /\ Knows(c, o)
  BY OwnState DEF FlowInv, Local, Connected, At, ReadyInv
<1>2. PICK b : /\ Become(c, b) /\ b.step = 1
               /\ \A x \in {"wizard", "visit", "session", "number", "transport", "candidate", "proof",
                            "once", "sinks", "jobs"} : b[x] = o[x]
  <2> DEFINE h == HandleNext(o)
             t == [sid |-> h.target, visit |-> h.visit]
             b == [h EXCEPT !.timers = h.timers \cup {t}]
  <2>1. Become(c, b)
    BY <1>1 DEF Connected
  <2>2. /\ h \in AppRecord /\ h.step = 1
        /\ \A x \in {"wizard", "visit", "session", "number", "transport", "candidate", "proof",
                     "once", "sinks", "jobs"} : h[x] = o[x]
    BY <1>1, HandleNextType
  <2> HIDE DEF h, t
  <2>3. /\ b.step = 1
        /\ \A x \in {"wizard", "visit", "session", "number", "transport", "candidate", "proof",
                     "once", "sinks", "jobs"} : b[x] = o[x]
    BY <2>2 DEF AppRecord
  <2> HIDE DEF b
  <2>4. QED BY <2>1, <2>3
<1>3. app'[c] = b /\ UNCHANGED <<kind, server, task, conn, frames, left, done>>
  BY <1>2 DEF Become, FlowInv, TypeOK, Connected, history
<1>4. Knows(c, b)
  <2>1. IF kind = "keygen"
        THEN (o.once # {} => o.step = 1) /\ \A j \in o.jobs : ~Mounted(o, j)
        ELSE o.jobs = {} /\ o.candidate = 0 /\ o.proof = 0
    BY <1>1, FreshPage
  <2>2. kind = "keygen" => KnowsKey(c, b)
    BY <1>1, <1>2, <2>1 DEF KnowsKey, Mounted
  <2>3. kind # "keygen" => KnowsValue(c, b)
    BY <1>1, <1>2, <2>1 DEF KnowsValue
  <2>4. QED BY <1>1, <1>2, <2>2, <2>3 DEF Knows
<1>5. Knows(c, b)'
  BY <1>3, <1>4, KnowsServer
<1>6. HearsOn(c)
  BY <1>1, <1>2, <1>3, HearsSame
<1>7. StartsReady(c)
  BY <1>1, <1>2, <1>3, StartsNothing
<1>8. QED BY <1>2, <1>3, <1>5, <1>6, <1>7, ReadyOwnStep

\* Wizards are opened.
LEMMA ReadyOpenSteps ==
  ASSUME FlowInv, FlowInv', ReadyInv, NEW c \in Client, OpenCreate(c) \/ OpenSign(c) \/ FollowLink(c)
  PROVE  ReadyInv'
<1>1. PICK o \in AppRecord :
        /\ o = app[c] /\ Page(kind, o) /\ Computing(kind, o) /\ o.wizard = "none" /\ o.step = 0
        /\ o.visit \in Nat /\ Knows(c, o)
  <2>1. CanOpen(c)
    BY DEF OpenCreate, OpenSign, FollowLink, OpenJoin, OpenSignJoin
  <2>2. QED BY <2>1, OwnState DEF FlowInv, Local, CanOpen, ReadyInv, Page, AppRecord
<1>2. PICK w \in {"create", "join"}, s \in 0 .. MaxSessions :
        IF kind = "keygen"
        THEN Become(c, Opened(o, w, s)) \/ Become(c, [Opened(o, w, s) EXCEPT !.form = DefaultForm])
        ELSE Become(c, ClearSign(Opened(o, w, s)))
  <2>1. CASE OpenCreate(c) \/ OpenSign(c)
    <3>1. 0 \in 0 .. MaxSessions
      BY BoundsAssumption
    <3>2. IF kind = "keygen" THEN Become(c, [Opened(o, "create", 0) EXCEPT !.form = DefaultForm])
                             ELSE Become(c, ClearSign(Opened(o, "create", 0)))
      BY <1>1, <2>1 DEF OpenCreate, OpenSign
    <3>3. QED BY <3>1, <3>2
  <2>2. CASE FollowLink(c)
    <3>1. PICK s \in invited : OpenJoin(c, s) \/ OpenSignJoin(c, s)
      BY <2>2 DEF FollowLink
    <3>2. s \in 0 .. MaxSessions
      BY BoundsAssumption DEF FlowInv, TypeOK, Sid
    <3>3. IF kind = "keygen" THEN Become(c, Opened(o, "join", s))
                             ELSE Become(c, ClearSign(Opened(o, "join", s)))
      BY <1>1, <3>1 DEF OpenJoin, OpenSignJoin
    <3>4. QED BY <3>2, <3>3
  <2>3. QED BY <2>1, <2>2
<1> DEFINE Opens(b) ==
             /\ b.wizard = w /\ b.step = 0 /\ b.visit = o.visit + 1
             /\ \A x \in {"session", "number", "transport", "once", "sinks", "jobs"} : b[x] = o[x]
<1>3. PICK b : Become(c, b) /\ Opens(b) /\ (kind # "keygen" => b.candidate = 0 /\ b.proof = 0)
  <2> DEFINE a == Opened(o, w, s)
             d == [a EXCEPT !.form = DefaultForm]
             e == ClearSign(a)
  <2>1. a \in AppRecord /\ Opens(a)
    BY <1>1, OpenedType
  <2> HIDE DEF a
  <2>2. Opens(d)
    BY <2>1 DEF AppRecord
  <2>3. Opens(e) /\ e.candidate = 0 /\ e.proof = 0
    BY <2>1, ClearSignType
  <2> HIDE DEF d, e, Opens
  <2>4. QED BY <1>2, <2>1, <2>2, <2>3 DEF a, d, e
<1>4. app'[c] = b /\ UNCHANGED <<kind, server, task, conn, frames, left, done>>
  BY <1>3 DEF Become, FlowInv, TypeOK, OpenCreate, OpenSign, FollowLink, OpenJoin, OpenSignJoin, history
<1>5. Knows(c, b)
  <2>1. IF kind = "keygen" THEN o.once = {} ELSE o.jobs = {}
    BY <1>1, FreshPage
  <2>2. kind = "keygen" => KnowsKey(c, b)
    <3>1. \A j \in o.jobs : j.visit \in Nat /\ j.visit <= o.visit /\ o.visit \in Nat
      BY <1>1 DEF Computing, AppRecord, Job
    <3>2. \A j \in o.jobs : j.visit # o.visit + 1
      BY <3>1
    <3>3. QED BY <1>3, <2>1, <3>2 DEF KnowsKey, Mounted
  <2>3. kind # "keygen" => KnowsValue(c, b)
    BY <1>3, <2>1 DEF KnowsValue
  <2>4. QED BY <1>1, <1>3, <2>2, <2>3 DEF Knows
<1>6. Knows(c, b)'
  BY <1>4, <1>5, KnowsServer
<1>7. HearsOn(c)
  BY <1>1, <1>3, <1>4, HearsSame
<1>8. StartsReady(c)
  BY <1>1, <1>3, <1>4, StartsNothing
<1>9. QED BY <1>3, <1>4, <1>6, <1>7, <1>8, ReadyOwnStep

\* A sink is made when the answer to a signup is read.
LEMMA HearsAnswer ==
  ASSUME FlowInv, FlowInv', NEW c \in Client, left \subseteq left', done \subseteq done',
         frames[c] # <<>>, frames' = [frames EXCEPT ![c] = Tail(frames[c])],
         app[c].sinks = <<>>, NEW x \in Sid, app'[c].sinks = <<x>>,
         \A s \in Sid : SignedUpFrame(Head(frames[c]), s) => s = x
  PROVE  HearsOn(c)
<1> SUFFICES ASSUME NEW s \in Sid, Hears(c, s) PROVE Hears(c, s)'
  BY DEF HearsOn
<1>1. frames[c] \in Seq(Frame) /\ frames'[c] = Tail(frames[c])
  BY DEF FlowInv, TypeOK
<1>2. CASE c \in left \/ <<c, s>> \in done \/ s = x
  BY <1>2 DEF Hears
<1>3. CASE s # x /\ ~(c \in left \/ <<c, s>> \in done)
  <2>1. PICK i \in 1 .. Len(frames[c]) : SignedUpFrame(frames[c][i], s)
    BY <1>3 DEF Hears
  <2>2. i # 1
    BY <1>1, <1>3, <2>1, TailElements
  <2>3. i - 1 \in 1 .. Len(Tail(frames[c])) /\ Tail(frames[c])[i - 1] = frames[c][i]
    BY <1>1, <2>2, TailElements
  <2>4. \E k \in 1 .. Len(frames'[c]) : SignedUpFrame(frames'[c][k], s)
    BY <1>1, <2>1, <2>3
  <2>5. QED BY <2>4 DEF Hears, SignedUpFrame
<1>4. QED BY <1>2, <1>3

\* The answer to a signup names the number the client has.
LEMMA SignupRead ==
  ASSUME FlowInv, OwnerInv, ReadyInv, NEW c \in Client, NEW fn \in {"create", "join", "load"},
         NEW m \in {"Session.signup", "Session.load"}, Answered(c, fn, {m}, TRUE)
  PROVE  /\ Answer(c) \in CallRecord /\ Answer(c).fn = fn /\ Answer(c).sid \in Sid
         /\ TalkOnPage(kind, app[c], Answer(c))
         /\ Has(c, Answer(c).sid, Answer(c).number)
         /\ \A s \in Sid : SignedUpFrame(Head(frames[c]), s) => s = Answer(c).sid
         /\ frames[c] # <<>> /\ frames' = [frames EXCEPT ![c] = Tail(frames[c])]
<1>1. /\ Answer(c) \in CallRecord /\ Answer(c).fn = fn /\ TalkOnPage(kind, app[c], Answer(c))
      /\ frames[c] # <<>> /\ frames' = [frames EXCEPT ![c] = Tail(frames[c])]
  BY AnswerKnown
<1>2. Answer(c).sid \in Sid
  BY <1>1 DEF CallRecord
<1>3. PICK f : f = Head(frames[c]) /\ f.type = "answer" /\ f.ok = TRUE /\ f.call = Answer(c) /\ f.call.method = m
  BY DEF Answered, Answer
<1>4. SignedUpFrame(f, f.call.sid) /\ \A s : SignedUpFrame(f, s) => s = f.call.sid
  BY <1>3 DEF SignedUpFrame
<1>5. f = frames[c][1] /\ 1 \in 1 .. Len(frames[c])
  <2>1. frames[c] \in Seq(Frame)
    BY DEF FlowInv, TypeOK
  <2>2. QED BY <1>1, <1>3, <2>1, TailElements
<1>6. Has(c, f.call.sid, f.call.number)
  BY <1>2, <1>3, <1>4, <1>5 DEF ReadyInv
<1>7. QED BY <1>1, <1>2, <1>3, <1>4, <1>6

\* What the page is when its group session is there.
LEMMA CreatedFields ==
  ASSUME NEW o \in AppRecord, NEW q \in CallRecord, o.sinks = <<>>
  PROVE  /\ Created(o, q) \in AppRecord
         /\ Created(o, q).session = q.sid /\ Created(o, q).number = q.number
         /\ Created(o, q).transport = q.sid /\ Created(o, q).sinks = <<q.sid>>
         /\ \A x \in {"wizard", "step", "visit", "candidate", "proof", "once", "jobs"} : Created(o, q)[x] = o[x]
<1> DEFINE d == Created(o, q)
<1>1. /\ d \in AppRecord /\ d.session = q.sid /\ d.number = q.number
      /\ d.transport = q.sid /\ d.sinks = Append(o.sinks, q.sid)
  BY CreatedType
<1>2. \A x \in {"wizard", "step", "visit", "target", "form", "ready", "group", "candidate",
                 "proof", "once", "timers", "jobs"} : d[x] = o[x]
  BY CreatedType
<1> HIDE DEF d
<1>3. Append(o.sinks, q.sid) = <<q.sid>>
  OBVIOUS
<1>4. QED BY <1>1, <1>2, <1>3 DEF d

\* One who signed up for a new key listens for the others.
LEMMA ReadySignupSteps ==
  ASSUME FlowInv, FlowInv', OwnerInv, ReadyInv, NEW c \in Client, KeyInvite(c) \/ SignedUp(c)
  PROVE  ReadyInv'
<1>1. PICK q \in CallRecord :
        /\ q = Answer(c) /\ q.sid \in Sid
        /\ TalkOnPage(kind, app[c], q) /\ q.fn = (IF KeyInvite(c) THEN "create" ELSE "join")
        /\ Has(c, q.sid, q.number)
        /\ \A s \in Sid : SignedUpFrame(Head(frames[c]), s) => s = q.sid
        /\ frames[c] # <<>> /\ frames' = [frames EXCEPT ![c] = Tail(frames[c])]
  BY SignupRead DEF KeyInvite, SignedUp
<1>2. PICK o \in AppRecord :
        /\ o = app[c] /\ Page(kind, o) /\ Computing(kind, o) /\ Knows(c, o) /\ kind = "keygen"
        /\ o.sinks = <<>> /\ o.once = {} /\ q.visit = o.visit /\ o.wizard # "none"
        /\ (o.wizard = "create" /\ o.step = 0 /\ KeyInvite(c)) \/ (o.wizard = "join" /\ o.step = 1 /\ SignedUp(c))
  BY <1>1, OwnState DEF FlowInv, Local, ReadyInv, KeyInvite, SignedUp, TalkOnPage
<1>3. PICK b : /\ Become(c, b) /\ b.session = q.sid /\ b.number = q.number /\ b.transport = q.sid
               /\ b.sinks = <<q.sid>> /\ b.step = 1
               /\ \A x \in {"wizard", "visit", "jobs"} : b[x] = o[x]
  <2> DEFINE d == Created(o, q)
             h == HandleNext(d)
             v == [sid |-> q.sid, visit |-> q.visit]
             e == [h EXCEPT !.once = h.once \cup {v}]
             f == [d EXCEPT !.once = d.once \cup {v}]
  <2>1. KeyInvite(c) => Become(c, IF Mounted(d, q) THEN e ELSE d)
    BY <1>1, <1>2 DEF KeyInvite
  <2>2. SignedUp(c) => Become(c, f)
    BY <1>1, <1>2 DEF SignedUp
  <2>3. /\ d \in AppRecord /\ d.session = q.sid /\ d.number = q.number /\ d.transport = q.sid
        /\ d.sinks = <<q.sid>> /\ d.step = o.step
        /\ \A x \in {"wizard", "visit", "jobs"} : d[x] = o[x]
    BY <1>2, CreatedFields
  <2>4. Mounted(d, q)
    BY <1>2, <2>3 DEF Mounted
  <2> HIDE DEF d, v
  <2>5. CASE KeyInvite(c) /\ o.step = 0
    <3>1. /\ h \in AppRecord /\ h.step = 1
          /\ \A x \in {"wizard", "visit", "session", "number", "transport", "sinks", "jobs"} : h[x] = d[x]
      BY <2>3, <2>5, HandleNextType
    <3> HIDE DEF h
    <3>2. /\ e.step = 1
          /\ \A x \in {"wizard", "visit", "session", "number", "transport", "sinks", "jobs"} : e[x] = d[x]
      BY <3>1 DEF AppRecord
    <3> HIDE DEF e
    <3>3. QED BY <2>1, <2>3, <2>4, <2>5, <3>2
  <2>6. CASE SignedUp(c) /\ o.step = 1
    <3>1. /\ f.step = 1
          /\ \A x \in {"wizard", "visit", "session", "number", "transport", "sinks", "jobs"} : f[x] = d[x]
      BY <2>3, <2>6 DEF AppRecord
    <3> HIDE DEF f
    <3>2. QED BY <2>2, <2>3, <2>6, <3>1
  <2>7. QED BY <1>2, <2>5, <2>6
<1>4. app'[c] = b /\ UNCHANGED <<kind, server, task, conn, left, done>>
  BY <1>3 DEF Become, FlowInv, TypeOK, KeyInvite, SignedUp, history
<1>5. Knows(c, b)
  <2>1. \A j \in o.jobs : ~Mounted(o, j)
    BY <1>2, FreshPage
  <2>2. KnowsKey(c, b)
    BY <1>1, <1>3, <2>1 DEF KnowsKey, Mounted
  <2>3. QED BY <1>2, <1>3, <2>2 DEF Knows
<1>6. Knows(c, b)'
  BY <1>4, <1>5, KnowsServer
<1>7. HearsOn(c)
  BY <1>1, <1>2, <1>3, <1>4, HearsAnswer
<1>8. StartsReady(c)
  BY <1>2, <1>3, <1>4, StartsNothing
<1>9. QED BY <1>1, <1>3, <1>4, <1>6, <1>7, <1>8, ReadyOwnStep

\* The page the compute page goes on from.
LEMMA ShowComputeSteps ==
  ASSUME NEW a \in AppRecord, a.step = 1
  PROVE  ShowCompute(a).step = IF a.proof # 0 THEN 3 ELSE 2
<1> DEFINE h == HandleNext(a)
           i == HandleNext(h)
<1>1. h \in AppRecord /\ h.step = 2
  BY HandleNextType
<1>2. i.step = 3
  BY <1>1, HandleNextType
<1>3. ShowCompute(a) = IF a.proof # 0 THEN i ELSE h
  BY DEF ShowCompute
<1> HIDE DEF h, i
<1>4. QED BY <1>1, <1>2, <1>3

\* A session for a value is there, with the own number loaded: the page has a
\* sign candidate, and its signer listens.
LEMMA ReadyLoadSteps ==
  ASSUME FlowInv, FlowInv', OwnerInv, ReadyInv, NEW c \in Client,
         OnMessage(c) \/ OnTransaction(c) \/ Loaded(c)
  PROVE  ReadyInv'
<1>1. PICK q \in CallRecord :
        /\ q = Answer(c) /\ q.sid \in Sid
        /\ TalkOnPage(kind, app[c], q)
        /\ \/ q.fn = "create" /\ (OnMessage(c) \/ OnTransaction(c))
           \/ q.fn = "load" /\ Loaded(c)
        /\ Has(c, q.sid, q.number)
        /\ \A s \in Sid : SignedUpFrame(Head(frames[c]), s) => s = q.sid
        /\ frames[c] # <<>> /\ frames' = [frames EXCEPT ![c] = Tail(frames[c])]
  BY SignupRead DEF OnMessage, OnTransaction, SignInvite, Loaded
<1>2. PICK o \in AppRecord :
        /\ o = app[c] /\ Page(kind, o) /\ Computing(kind, o) /\ Knows(c, o) /\ kind # "keygen"
        /\ o.sinks = <<>> /\ o.once = {} /\ q.visit = o.visit /\ o.wizard # "none"
        /\ \/ o.wizard = "create" /\ o.step = 0 /\ (OnMessage(c) \/ OnTransaction(c))
           \/ o.wizard = "join" /\ o.step = 1 /\ Loaded(c)
  BY <1>1, OwnState DEF FlowInv, Local, ReadyInv, OnMessage, OnTransaction, Loaded, TalkOnPage
<1>3. o.jobs = {} /\ o.candidate = 0 /\ o.proof = 0
  BY <1>2, FreshPage
<1>4. PICK b : /\ Become(c, b) /\ b.session = q.sid /\ b.number = q.number /\ b.transport = q.sid
               /\ b.sinks = <<q.sid>> /\ b.candidate = q.sid /\ b.proof = 0
               /\ b.step = (IF o.wizard = "create" THEN 1 ELSE 2)
               /\ \A x \in {"wizard", "jobs"} : b[x] = o[x]
  <2> DEFINE d == Created(o, q)
             a == Render([d EXCEPT !.candidate = q.sid])
  <2>1. /\ OnMessage(c) \/ OnTransaction(c) => Become(c, IF Mounted(a, q) THEN HandleNext(a) ELSE a)
        /\ Loaded(c) => Become(c, IF Mounted(a, q) THEN ShowCompute(a) ELSE a)
    BY <1>1, <1>2 DEF OnMessage, OnTransaction, SignInvite, Loaded
  <2>2. /\ d \in AppRecord /\ d.session = q.sid /\ d.number = q.number /\ d.transport = q.sid
        /\ d.sinks = <<q.sid>>
        /\ \A x \in {"wizard", "step", "visit", "proof", "jobs"} : d[x] = o[x]
    BY <1>2, CreatedFields
  <2> HIDE DEF d
  <2>3. /\ a \in AppRecord /\ a.candidate = q.sid
        /\ \A x \in {"wizard", "step", "visit", "session", "number", "transport", "proof", "sinks", "jobs"} :
             a[x] = d[x]
    BY <1>1, <2>2, CandidateType
  <2> HIDE DEF a
  <2>4. Mounted(a, q) /\ a.proof = 0
    BY <1>2, <1>3, <2>2, <2>3 DEF Mounted
  <2>5. PICK e : /\ Become(c, e) /\ e.step = (IF o.wizard = "create" THEN 1 ELSE 2)
                 /\ \A x \in {"wizard", "session", "number", "transport", "candidate", "proof", "sinks", "jobs"} :
                      e[x] = a[x]
    <3>1. CASE o.wizard = "create"
      <4>1. /\ HandleNext(a).step = 1
            /\ \A x \in {"wizard", "session", "number", "transport", "candidate", "proof", "sinks", "jobs"} :
                 HandleNext(a)[x] = a[x]
        BY <1>2, <2>2, <2>3, <3>1, HandleNextType
      <4>2. QED BY <1>2, <2>1, <2>4, <3>1, <4>1
    <3>2. CASE o.wizard = "join"
      <4>1. a.step = 1
        BY <1>2, <2>2, <2>3, <3>2
      <4>2. /\ ShowCompute(a).step = 2
            /\ \A x \in {"wizard", "session", "number", "transport", "candidate", "proof", "sinks", "jobs"} :
                 ShowCompute(a)[x] = a[x]
        BY <2>3, <2>4, <4>1, ShowComputeType, ShowComputeSteps
      <4>3. QED BY <1>2, <2>1, <2>4, <3>2, <4>2
    <3>3. QED BY <1>2, <3>1, <3>2
  <2>6. QED BY <1>3, <2>2, <2>3, <2>5
<1>5. app'[c] = b /\ UNCHANGED <<kind, server, task, conn, left, done>>
  BY <1>4 DEF Become, FlowInv, TypeOK, OnMessage, OnTransaction, SignInvite, Loaded, history
<1>6. Knows(c, b)
  <2>1. KnowsValue(c, b)
    BY <1>1, <1>2, <1>3, <1>4 DEF KnowsValue
  <2>2. QED BY <1>2, <1>3, <1>4, <2>1 DEF Knows
<1>7. Knows(c, b)'
  BY <1>5, <1>6, KnowsServer
<1>8. HearsOn(c)
  BY <1>1, <1>2, <1>4, <1>5, HearsAnswer
<1>9. StartsReady(c)
  BY <1>2, <1>4, <1>5, StartsNothing
<1>10. QED BY <1>1, <1>4, <1>5, <1>7, <1>8, <1>9, ReadyOwnStep

\* The value is shown to a guest, or the creator's compute page opens.
LEMMA ReadyShowSteps ==
  ASSUME FlowInv, FlowInv', OwnerInv, ReadyInv, NEW c \in Client, SessionFetched(c) \/ InviteNext(c)
  PROVE  ReadyInv'
<1>1. PICK o \in AppRecord :
        /\ o = app[c] /\ Page(kind, o) /\ Computing(kind, o) /\ Knows(c, o) /\ kind # "keygen"
  BY OwnState DEF FlowInv, Local, ReadyInv, SessionFetched, InviteNext
<1>2. UNCHANGED <<kind, server, task, conn, left, done>>
  BY DEF SessionFetched, InviteNext, history
<1>3. CASE SessionFetched(c)
  <2>1. PICK q \in CallRecord :
          /\ q = Answer(c) /\ q.sid \in Sid /\ TalkOnPage(kind, o, q) /\ q.fn = "join"
          /\ frames[c] # <<>> /\ frames' = [frames EXCEPT ![c] = Tail(frames[c])]
    <3>1. Answered(c, "join", {"Session.join"}, TRUE)
      BY <1>3 DEF SessionFetched
    <3>2. Answer(c) \in CallRecord
      BY <3>1, AnswerKnown
    <3>3. Answer(c).sid \in Sid
      BY <3>2 DEF CallRecord
    <3>4. QED BY <1>1, <3>1, <3>2, <3>3, AnswerKnown
  <2>2. \A s \in Sid : ~SignedUpFrame(Head(frames[c]), s)
    <3>1. Answered(c, "join", {"Session.join"}, TRUE)
      BY <1>3 DEF SessionFetched
    <3>2. QED BY <3>1 DEF SignedUpFrame, Answered
  <2>3. o.wizard = "join" /\ o.step = 1 /\ o.sinks = <<>> /\ o.once = {}
    BY <2>1 DEF TalkOnPage
  <2>4. PICK b : /\ Become(c, b) /\ b.session = q.sid
                 /\ \A x \in {"wizard", "step", "candidate", "proof", "sinks", "jobs"} : b[x] = o[x]
    <3> DEFINE g == SetGroup(o, q.sid)
               a == SetSession(g, q.sid, 0)
               b == [a EXCEPT !.ready = TRUE]
    <3>1. Become(c, IF Mounted(a, q) THEN b ELSE a)
      BY <1>1, <1>3, <2>1 DEF SessionFetched
    <3>2. g \in AppRecord /\ Same(o, g) /\ g.proof = o.proof
      BY <1>1, SetGroupType
    <3> HIDE DEF g
    <3>3. /\ a \in AppRecord /\ a.session = q.sid
          /\ \A x \in {"wizard", "step", "candidate", "proof", "sinks", "jobs"} : a[x] = g[x]
      BY <2>1, <3>2, SetSessionType
    <3> HIDE DEF a
    <3>4. /\ b.session = q.sid
          /\ \A x \in {"wizard", "step", "candidate", "proof", "sinks", "jobs"} : b[x] = a[x]
      BY <3>3 DEF AppRecord
    <3> HIDE DEF b
    <3>5. \A x \in {"wizard", "step", "candidate", "proof", "sinks", "jobs"} : g[x] = o[x]
      BY <3>2 DEF Same
    <3>6. QED BY <3>1, <3>3, <3>4, <3>5
  <2>5. app'[c] = b
    BY <2>4 DEF Become, FlowInv, TypeOK
  <2>6. Knows(c, b)
    <3>1. o.jobs = {} /\ o.candidate = 0 /\ o.proof = 0
      BY <1>1, <2>3, FreshPage
    <3>2. KnowsValue(c, b)
      BY <2>3, <2>4, <3>1 DEF KnowsValue
    <3>3. QED BY <1>1, <2>3, <2>4, <3>1, <3>2 DEF Knows
  <2>7. Knows(c, b)'
    BY <1>2, <2>6, KnowsServer
  <2>8. HearsOn(c)
    BY <1>1, <1>2, <2>1, <2>2, <2>4, <2>5, HearsSame
  <2>9. StartsReady(c)
    BY <1>1, <1>2, <2>4, <2>5, StartsNothing
  <2>10. QED BY <1>2, <2>1, <2>4, <2>7, <2>8, <2>9, ReadyOwnStep
<1>4. CASE InviteNext(c)
  <2>1. o.wizard = "create" /\ o.step = 1 /\ Become(c, ShowCompute(o)) /\ UNCHANGED frames
    BY <1>1, <1>4 DEF InviteNext, At
  <2>2. PICK b : /\ Become(c, b) /\ b.step = (IF o.proof # 0 THEN 3 ELSE 2)
                 /\ \A x \in {"wizard", "session", "number", "transport", "candidate", "proof", "sinks", "jobs"} :
                      b[x] = o[x]
    BY <2>1, ShowComputeType, ShowComputeSteps
  <2>3. app'[c] = b
    BY <2>2 DEF Become, FlowInv, TypeOK
  <2>4. Knows(c, b)
    <3>1. KnowsValue(c, o)
      BY <1>1 DEF Knows
    <3>2. KnowsValue(c, b)
      BY <2>1, <2>2, <3>1 DEF KnowsValue
    <3>3. QED BY <1>1, <2>2, <3>2 DEF Knows
  <2>5. Knows(c, b)'
    BY <1>2, <2>4, KnowsServer
  <2>6. HearsOn(c)
    BY <1>1, <1>2, <2>1, <2>2, <2>3, HearsSame
  <2>7. StartsReady(c)
    BY <1>1, <1>2, <2>2, <2>3, StartsNothing
  <2>8. QED BY <1>2, <2>1, <2>2, <2>5, <2>6, <2>7, ReadyOwnStep
<1>5. QED BY <1>3, <1>4

\* A ready event is the first frame: nothing of its session was started here.
LEMMA ReadyRead ==
  ASSUME FlowInv, ReadyInv, NEW c \in Client, frames[c] # <<>>, Head(frames[c]).type = "ready"
  PROVE  /\ Head(frames[c]).sid \in Sid /\ ReadyFrame(Head(frames[c]), Head(frames[c]).sid)
         /\ ~Started(c, Head(frames[c]).sid)
         /\ \A s \in Sid : ~SignedUpFrame(Head(frames[c]), s)
<1>1. frames[c] \in Seq(Frame)
  BY DEF FlowInv, TypeOK
<1>2. PICK f \in Frame : f = Head(frames[c]) /\ f = frames[c][1] /\ 1 \in 1 .. Len(frames[c])
  BY <1>1, TailElements
<1>3. f.sid \in Sid /\ f.type = "ready"
  BY <1>2 DEF Frame, Event
<1>4. ReadyFrame(f, f.sid) /\ \A s \in Sid : ~SignedUpFrame(f, s)
  BY <1>3 DEF ReadyFrame, SignedUpFrame
<1>5. PICK s \in Sid : s = f.sid
  BY <1>3
<1>6. Waits(c, s)
  BY <1>2, <1>4, <1>5 DEF Waits
<1>7. ~Started(c, s)
  BY <1>6 DEF ReadyInv, OnceInv
<1>8. QED BY <1>2, <1>3, <1>4, <1>5, <1>7

\* The event starts to compute a key.
LEMMA ReadySignupStep ==
  ASSUME FlowInv, FlowInv', OwnerInv, ReadyInv, NEW c \in Client, SessionSignup(c)
  PROVE  ReadyInv'
<1>1. PICK o \in AppRecord :
        /\ o = app[c] /\ Page(kind, o) /\ Computing(kind, o) /\ Knows(c, o) /\ kind = "keygen"
        /\ \A h \in o.once : h.sid = o.session
  BY OwnState DEF FlowInv, Local, ReadyInv, SessionSignup, OwnerInv, AppFact
<1>2. PICK s \in Sid :
        /\ s = Head(frames[c]).sid /\ ReadyFrame(Head(frames[c]), s) /\ ~Started(c, s)
        /\ \A t \in Sid : ~SignedUpFrame(Head(frames[c]), t)
        /\ frames[c] # <<>> /\ frames' = [frames EXCEPT ![c] = Tail(frames[c])]
  BY ReadyRead DEF SessionSignup
<1>3. frames'[c] = Tail(frames[c])
  BY <1>2 DEF FlowInv, TypeOK
<1>4. UNCHANGED <<kind, server, task, conn, left, done>>
  BY DEF SessionSignup, history
<1> DEFINE j == [sid |-> o.session, via |-> o.transport, number |-> o.number, visit |-> o.visit,
                 at |-> "send"]
<1>5. PICK b : /\ Become(c, b) /\ b.once = {}
               /\ \A x \in {"wizard", "visit", "session", "number", "transport", "sinks"} : b[x] = o[x]
               /\ \/ b.step = o.step /\ b.jobs = o.jobs
                  \/ b.step = 2 /\ b.jobs = o.jobs \cup {j} /\ o.once # {} /\ o.session = s
  <2> DEFINE a == [o EXCEPT !.once = {}]
             h == HandleNext(a)
             i == [sid |-> a.session, via |-> a.transport, number |-> a.number, visit |-> a.visit,
                   at |-> "send"]
             e == [h EXCEPT !.jobs = h.jobs \cup {i}]
  <2>1. /\ Become(c, e) \/ Become(c, a)
        /\ Become(c, a) \/ \E v \in o.once : v.sid = s
    BY <1>1, <1>2 DEF SessionSignup, Compute
  <2>2. /\ a \in AppRecord /\ a.once = {}
        /\ \A x \in {"wizard", "step", "visit", "session", "number", "transport", "sinks", "jobs"} : a[x] = o[x]
    <3>1. a \in AppRecord
      BY FieldTypes
    <3>2. QED BY <3>1 DEF AppRecord
  <2>3. i = j
    BY <2>2
  <2> HIDE DEF a, i, j
  <2>4. ASSUME NEW v \in o.once, v.sid = s
        PROVE  /\ e.once = {} /\ e.step = 2 /\ e.jobs = o.jobs \cup {j} /\ o.session = s
               /\ \A x \in {"wizard", "visit", "session", "number", "transport", "sinks"} : e[x] = o[x]
    <3>1. o.step = 1 /\ o.session = s
      BY <1>1, <2>4 DEF Page
    <3>2. /\ h \in AppRecord /\ h.step = 2
          /\ \A x \in {"wizard", "visit", "session", "number", "transport", "sinks", "jobs", "once"} : h[x] = a[x]
      BY <2>2, <3>1, HandleNextType
    <3> HIDE DEF h
    <3>3. /\ e.step = 2 /\ e.jobs = h.jobs \cup {i}
          /\ \A x \in {"wizard", "visit", "session", "number", "transport", "sinks", "once"} : e[x] = h[x]
      BY <3>2 DEF AppRecord
    <3> HIDE DEF e
    <3>4. QED BY <2>2, <2>3, <3>1, <3>2, <3>3
  <2> HIDE DEF e
  <2>5. QED BY <2>1, <2>2, <2>4
<1>6. app'[c] = b
  BY <1>5 DEF Become, FlowInv, TypeOK
<1>7. Knows(c, b) /\ (\A i \in b.jobs : i.sid = s \/ \E k \in o.jobs : k.sid = i.sid)
  <2>1. KnowsKey(c, o)
    BY <1>1 DEF Knows
  <2>2. CASE b.step = o.step /\ b.jobs = o.jobs
    <3>1. KnowsKey(c, b)
      BY <1>5, <2>1, <2>2 DEF KnowsKey, Mounted
    <3>2. QED BY <1>1, <1>5, <2>2, <3>1 DEF Knows
  <2>3. CASE b.step = 2 /\ b.jobs = o.jobs \cup {j} /\ o.once # {} /\ o.session = s
    <3>1. \A i \in o.jobs : i.sid # s
      BY <1>1, <1>2 DEF Started
    <3>2. j.sid = s /\ j.via = s /\ Has(c, s, j.number) /\ o.transport = o.session
      BY <2>1, <2>3 DEF KnowsKey
    <3> HIDE DEF j
    <3>3. KnowsKey(c, b)
      BY <1>5, <2>1, <2>3, <3>2 DEF KnowsKey, Mounted
    <3>4. \A i \in b.jobs : i.via = i.sid /\ Has(c, i.sid, i.number)
      BY <1>1, <2>3, <3>2 DEF Knows
    <3>5. \A i, k \in b.jobs : i.sid = k.sid => i = k
      BY <1>1, <2>3, <3>1, <3>2 DEF Knows
    <3>6. b.sinks \in {<<>>, <<b.session>>}
      BY <1>1, <1>5 DEF Knows
    <3>7. QED BY <1>1, <2>3, <3>2, <3>3, <3>4, <3>5, <3>6 DEF Knows
  <2>4. QED BY <1>5, <2>2, <2>3
<1>8. Knows(c, b)'
  BY <1>4, <1>7, KnowsServer
<1>9. HearsOn(c)
  BY <1>1, <1>2, <1>4, <1>5, <1>6, HearsSame
<1>10. StartsReady(c)
  <2>1. ASSUME NEW t \in Sid, Started(c, t)' PROVE Started(c, t) \/ t = s
    BY <1>1, <1>4, <1>6, <1>7, <2>1 DEF Started
  <2>2. QED BY <1>2, <1>3, <2>1 DEF StartsReady
<1>11. QED BY <1>2, <1>4, <1>5, <1>8, <1>9, <1>10, ReadyOwnStep

\* The event starts to sign.
LEMMA ReadyLoadStep ==
  ASSUME FlowInv, FlowInv', OwnerInv, ReadyInv, NEW c \in Client, SessionLoad(c)
  PROVE  ReadyInv'
<1>1. PICK o \in AppRecord : o = app[c] /\ Knows(c, o) /\ kind # "keygen"
  BY OwnState DEF FlowInv, ReadyInv, SessionLoad
<1>2. PICK s \in Sid :
        /\ s = Head(frames[c]).sid /\ ReadyFrame(Head(frames[c]), s) /\ ~Started(c, s)
        /\ \A t \in Sid : ~SignedUpFrame(Head(frames[c]), t)
        /\ frames[c] # <<>> /\ frames' = [frames EXCEPT ![c] = Tail(frames[c])]
  BY ReadyRead DEF SessionLoad
<1>3. frames'[c] = Tail(frames[c])
  BY <1>2 DEF FlowInv, TypeOK
<1>4. UNCHANGED <<kind, server, task, conn, left, done>>
  BY DEF SessionLoad, history
<1> DEFINE j == [sid |-> s, via |-> o.transport, number |-> o.number, visit |-> o.visit, at |-> "send"]
<1>5. PICK b : /\ Become(c, b) /\ b.signer = FALSE
               /\ \A x \in {"wizard", "step", "session", "number", "transport", "candidate", "proof", "sinks"} :
                    b[x] = o[x]
               /\ \/ b.jobs = o.jobs
                  \/ b.jobs = o.jobs \cup {j} /\ o.signer /\ o.session = s /\ o.candidate # 0
  <2> DEFINE a == [o EXCEPT !.signer = FALSE]
             i == [sid |-> s, via |-> a.transport, number |-> a.number, visit |-> a.visit, at |-> "send"]
             e == [a EXCEPT !.jobs = a.jobs \cup {i}]
  <2>1. Become(c, IF o.signer /\ a.session = s /\ a.candidate # 0 THEN e ELSE a)
    BY <1>1, <1>2 DEF SessionLoad
  <2>2. /\ a \in AppRecord /\ a.signer = FALSE
        /\ \A x \in {"wizard", "step", "visit", "session", "number", "transport", "candidate", "proof", "sinks", "jobs"} :
             a[x] = o[x]
    <3>1. a \in AppRecord
      BY FieldTypes
    <3>2. QED BY <3>1 DEF AppRecord
  <2>3. i = j
    BY <2>2
  <2> HIDE DEF a, i, j
  <2>4. /\ e.signer = FALSE /\ e.jobs = o.jobs \cup {j}
        /\ \A x \in {"wizard", "step", "session", "number", "transport", "candidate", "proof", "sinks"} : e[x] = o[x]
    BY <2>2, <2>3 DEF AppRecord
  <2> HIDE DEF e
  <2>5. QED BY <2>1, <2>2, <2>4
<1>6. app'[c] = b
  BY <1>5 DEF Become, FlowInv, TypeOK
<1>7. Knows(c, b) /\ (\A i \in b.jobs : i.sid = s \/ \E k \in o.jobs : k.sid = i.sid)
  <2>1. KnowsValue(c, o)
    BY <1>1 DEF Knows
  <2>2. CASE b.jobs = o.jobs
    <3>1. KnowsValue(c, b)
      BY <1>5, <2>1, <2>2 DEF KnowsValue
    <3>2. QED BY <1>1, <1>5, <2>2, <3>1 DEF Knows
  <2>3. CASE b.jobs = o.jobs \cup {j} /\ o.signer /\ o.session = s /\ o.candidate # 0
    <3>1. (\A i \in o.jobs : i.sid # s) /\ <<c, s>> \notin done
      BY <1>1, <1>2 DEF Started
    <3>2. o.wizard # "none" /\ o.candidate = o.session /\ o.transport = o.session
          /\ Has(c, o.session, o.number) /\ o.step >= 1
      BY <2>1, <2>3 DEF KnowsValue
    <3>3. o.proof = 0 /\ o.step \in {1, 2}
      BY <2>1, <2>3, <3>1, <3>2 DEF KnowsValue, AppRecord
    <3>4. j.sid = s /\ j.via = s /\ Has(c, s, j.number)
      BY <2>3, <3>2
    <3> HIDE DEF j
    <3>5. KnowsValue(c, b)
      BY <1>5, <2>1, <2>3, <3>2, <3>3, <3>4 DEF KnowsValue
    <3>6. \A i \in b.jobs : i.via = i.sid /\ Has(c, i.sid, i.number)
      BY <1>1, <2>3, <3>4 DEF Knows
    <3>7. \A i, k \in b.jobs : i.sid = k.sid => i = k
      BY <1>1, <2>3, <3>1, <3>4 DEF Knows
    <3>8. b.sinks \in {<<>>, <<b.session>>}
      BY <1>1, <1>5 DEF Knows
    <3>9. QED BY <1>1, <2>3, <3>4, <3>5, <3>6, <3>7, <3>8 DEF Knows
  <2>4. QED BY <1>5, <2>2, <2>3
<1>8. Knows(c, b)'
  BY <1>4, <1>7, KnowsServer
<1>9. HearsOn(c)
  BY <1>1, <1>2, <1>4, <1>5, <1>6, HearsSame
<1>10. StartsReady(c)
  <2>1. ASSUME NEW t \in Sid, Started(c, t)' PROVE Started(c, t) \/ t = s
    BY <1>1, <1>4, <1>6, <1>7, <2>1 DEF Started
  <2>2. QED BY <1>2, <1>3, <2>1 DEF StartsReady
<1>11. QED BY <1>2, <1>4, <1>5, <1>8, <1>9, <1>10, ReadyOwnStep

\* Computations that go on.
LEMMA ReadyMovedStep ==
  ASSUME FlowInv, FlowInv', ReadyInv, NEW c \in Client, NEW J,
         Become(c, [app[c] EXCEPT !.jobs = J]),
         \A j \in J : \E i \in app[c].jobs :
            i.sid = j.sid /\ i.via = j.via /\ i.number = j.number /\ i.visit = j.visit,
         \A i, j \in J : i.sid = j.sid => i = j,
         UNCHANGED <<kind, server, task, conn, left, done>>,
         \/ UNCHANGED frames
         \/ /\ frames[c] # <<>> /\ frames' = [frames EXCEPT ![c] = Tail(frames[c])]
            /\ \A s \in Sid : ~SignedUpFrame(Head(frames[c]), s)
  PROVE  ReadyInv'
<1>1. PICK o \in AppRecord : o = app[c] /\ Knows(c, o)
  BY OwnState DEF FlowInv, ReadyInv
<1>2. PICK b : /\ Become(c, b) /\ b.jobs = J
               /\ b.signer => o.signer
               /\ \A x \in {"wizard", "step", "visit", "session", "number", "transport", "candidate", "proof",
                            "once", "sinks"} : b[x] = o[x]
  <2> DEFINE e == [o EXCEPT !.jobs = J]
  <2>1. /\ e.jobs = J /\ (e.signer => o.signer)
        /\ \A x \in {"wizard", "step", "visit", "session", "number", "transport", "candidate", "proof",
                     "once", "sinks"} : e[x] = o[x]
    BY DEF AppRecord
  <2> HIDE DEF e
  <2>2. QED BY <1>1, <2>1 DEF e
<1>3. app'[c] = b
  BY <1>2 DEF Become, FlowInv, TypeOK
<1>4. \A j \in J : \E i \in o.jobs : i.sid = j.sid /\ i.via = j.via /\ i.number = j.number /\ i.visit = j.visit
  BY <1>1
<1>5. Knows(c, b)
  <2>1. KnowsKey(c, o) => KnowsKey(c, b)
    BY <1>2, <1>4 DEF KnowsKey, Mounted
  <2>2. KnowsValue(c, o) => KnowsValue(c, b)
    BY <1>2, <1>4 DEF KnowsValue
  <2>3. \A j \in J : j.via = j.sid /\ Has(c, j.sid, j.number)
    BY <1>1, <1>4 DEF Knows
  <2>4. QED BY <1>1, <1>2, <2>1, <2>2, <2>3 DEF Knows
<1>6. Knows(c, b)'
  BY <1>5, KnowsServer
<1>7. HearsOn(c)
  BY <1>1, <1>2, <1>3, HearsSame
<1>8. StartsReady(c)
  BY <1>1, <1>2, <1>3, <1>4, StartsNothing
<1>9. QED BY <1>2, <1>6, <1>7, <1>8, ReadyOwnStep

\* A computation sends its message, or has sent it.
LEMMA ReadyMessageSteps ==
  ASSUME FlowInv, FlowInv', ReadyInv, NEW c \in Client, SendMessage(c) \/ MessageSent(c)
  PROVE  ReadyInv'
<1>0. UNCHANGED <<kind, server, task, conn, left, done>>
  BY DEF SendMessage, MessageSent, history
<1>1. PICK o \in AppRecord : o = app[c] /\ o.jobs \subseteq Job /\ \A i, j \in o.jobs : i.sid = j.sid => i = j
  BY OwnState DEF FlowInv, ReadyInv, AppRecord, Knows
<1> DEFINE Like(i, j) == i.sid = j.sid /\ i.via = j.via /\ i.number = j.number /\ i.visit = j.visit
<1>2. ASSUME NEW j \in Job, NEW x PROVE Like(j, [j EXCEPT !.at = x])
  BY DEF Job
<1>3. CASE SendMessage(c)
  <2>1. PICK j \in o.jobs : Become(c, [o EXCEPT !.jobs = (o.jobs \ {j}) \cup {[j EXCEPT !.at = "sent"]}])
                            /\ UNCHANGED frames
    BY <1>1, <1>3 DEF SendMessage
  <2>2. PICK k : k = [j EXCEPT !.at = "sent"] /\ Like(j, k)
    <3>1. j \in Job
      BY <1>1
    <3>2. Like(j, [j EXCEPT !.at = "sent"])
      BY <3>1, <1>2
    <3> HIDE DEF Like
    <3>3. QED BY <3>2
  <2> DEFINE J == (o.jobs \ {j}) \cup {k}
  <2>3. \A i \in J : \E l \in o.jobs : Like(l, i)
    <3>1. ASSUME NEW i \in J PROVE \E l \in o.jobs : Like(l, i)
      <4>1. CASE i = k
        BY <2>2, <4>1
      <4>2. CASE i \in o.jobs
        BY <4>2
      <4>3. QED BY <4>1, <4>2
    <3>2. QED BY <3>1
  <2>4. \A i, l \in J : i.sid = l.sid => i = l
    <3>1. k.sid = j.sid
      BY <2>2
    <3>2. QED BY <1>1, <3>1
  <2>5. Become(c, [app[c] EXCEPT !.jobs = J]) /\ UNCHANGED frames
    BY <1>1, <2>1, <2>2
  <2> HIDE DEF J
  <2>6. QED BY <1>0, <1>1, <2>3, <2>4, <2>5, ReadyMovedStep
<1>4. CASE MessageSent(c)
  <2>1. /\ frames[c] # <<>> /\ frames' = [frames EXCEPT ![c] = Tail(frames[c])]
        /\ \A s \in Sid : ~SignedUpFrame(Head(frames[c]), s)
    BY <1>4 DEF MessageSent, Answered, SignedUpFrame
  <2> DEFINE q == Answer(c)
             Then(j) == IF j.via = q.sid /\ j.visit = q.visit THEN [j EXCEPT !.at = "wait"] ELSE j
             J == {Then(j) : j \in o.jobs}
  <2>2. Become(c, [app[c] EXCEPT !.jobs = J])
    BY <1>1, <1>4 DEF MessageSent
  <2>3. \A j \in o.jobs : Like(j, Then(j))
    <3>1. ASSUME NEW j \in Job PROVE Like(j, [j EXCEPT !.at = "wait"]) /\ Like(j, j)
      BY <1>2
    <3> HIDE DEF Like
    <3>2. QED BY <1>1, <3>1
  <2> HIDE DEF Then
  <2>4. \A i \in J : \E l \in o.jobs : Like(l, i)
    BY <2>3
  <2>5. \A i, l \in J : i.sid = l.sid => i = l
    <3>1. \A i, l \in o.jobs : Then(i).sid = Then(l).sid => i = l
      BY <1>1, <2>3
    <3>2. QED BY <3>1
  <2> HIDE DEF J
  <2>6. QED BY <1>0, <1>1, <2>1, <2>2, <2>4, <2>5, ReadyMovedStep, ZenonT(30)
<1>5. QED BY <1>3, <1>4

\* Who is done, or leaves, need not hear any more.
LEMMA HearsEnd ==
  ASSUME FlowInv, NEW c \in Client, NEW x, app[c].sinks \in {<<>>, <<x>>}, UNCHANGED frames,
         left \subseteq left', done \subseteq done', c \in left' \/ <<c, x>> \in done'
  PROVE  HearsOn(c)
<1> SUFFICES ASSUME NEW s \in Sid, Hears(c, s) PROVE Hears(c, s)'
  BY DEF HearsOn
<1>1. CASE app[c].sinks = <<s>>
  <2>1. s = x
    BY <1>1
  <2>2. QED BY <2>1 DEF Hears
<1>2. CASE app[c].sinks # <<s>>
  <2>1. \/ c \in left \/ <<c, s>> \in done
        \/ \E i \in 1 .. Len(frames[c]) : SignedUpFrame(frames[c][i], s)
    BY <1>2 DEF Hears
  <2>2. QED BY <2>1 DEF Hears, SignedUpFrame
<1>3. QED BY <1>1, <1>2

\* A computation ends, and nothing starts.
LEMMA StartsEnd ==
  ASSUME NEW c, NEW j \in app[c].jobs, done' = done \cup {<<c, j.sid>>}, app'[c].jobs \subseteq app[c].jobs
  PROVE  StartsReady(c)
<1> SUFFICES ASSUME NEW s \in Sid, Started(c, s)' PROVE Started(c, s)
  BY DEF StartsReady
<1>1. <<c, s>> \in done' \/ \E i \in app'[c].jobs : i.sid = s
  BY DEF Started
<1>2. <<c, s>> \in done' => <<c, s>> \in done \/ s = j.sid
  OBVIOUS
<1>3. QED BY <1>1, <1>2 DEF Started

\* A key is computed: the page that shows it is the one of its session.
LEMMA ReadyKeyStep ==
  ASSUME FlowInv, FlowInv', ReadyInv, NEW c \in Client, KeyComputed(c)
  PROVE  ReadyInv'
<1>1. PICK o \in AppRecord :
        /\ o = app[c] /\ Page(kind, o) /\ Computing(kind, o) /\ Knows(c, o) /\ kind = "keygen"
        /\ o.jobs \subseteq Job
  BY OwnState DEF FlowInv, Local, ReadyInv, KeyComputed, AppRecord
<1> DEFINE a(j) == [o EXCEPT !.jobs = o.jobs \ {j}, !.inbox[j.via] = {}]
<1>2. PICK j \in o.jobs :
        /\ Become(c, IF Mounted(a(j), j) THEN HandleNext(a(j)) ELSE a(j))
        /\ done' = done \cup {<<c, j.sid>>}
  BY <1>1 DEF KeyComputed
<1>3. UNCHANGED <<kind, server, task, conn, frames, left>>
  BY DEF KeyComputed
<1>4. PICK b : /\ Become(c, b) /\ b.jobs = o.jobs \ {j}
               /\ \A x \in {"wizard", "visit", "session", "number", "transport", "once", "sinks"} : b[x] = o[x]
               /\ b.step = o.step \/ Mounted(o, j)
  <2> DEFINE e == a(j)
  <2>1. /\ e \in AppRecord /\ e.jobs = o.jobs \ {j}
        /\ \A x \in {"wizard", "step", "visit", "session", "number", "transport", "once", "sinks"} : e[x] = o[x]
    <3>1. [o.inbox EXCEPT ![j.via] = {}] \in [Sid -> SUBSET Client] /\ o.jobs \ {j} \in SUBSET Job
      BY <1>1 DEF AppRecord
    <3>2. QED BY <3>1 DEF AppRecord
  <2>2. Become(c, IF Mounted(e, j) THEN HandleNext(e) ELSE e)
    BY <1>2
  <2> HIDE DEF a
  <2>3. CASE Mounted(e, j)
    <3>1. Mounted(o, j) /\ o.step = 2
      BY <1>1, <2>1, <2>3 DEF Mounted, Computing
    <3>2. \A x \in {"wizard", "visit", "session", "number", "transport", "once", "sinks", "jobs"} : HandleNext(e)[x] = e[x]
      BY <2>1, <3>1, HandleNextType
    <3>3. QED BY <2>1, <2>2, <2>3, <3>1, <3>2
  <2>4. CASE ~Mounted(e, j)
    BY <2>1, <2>2, <2>4
  <2>5. QED BY <2>3, <2>4
<1>5. app'[c] = b
  BY <1>4 DEF Become, FlowInv, TypeOK
<1>6. Knows(c, b)'
  <2>1. KnowsKey(c, o)
    BY <1>1 DEF Knows
  <2>2. Mounted(o, j) => j.sid = o.session
    BY <2>1 DEF KnowsKey
  <2>3. ASSUME NEW s, NEW n PROVE Has(c, s, n)' <=> Has(c, s, n)
    BY <1>3 DEF Has
  <2>4. KnowsKey(c, b)'
    <3>1. b.once # {} => b.transport = b.session /\ Has(c, b.session, b.number)
      BY <1>4, <2>1 DEF KnowsKey
    <3>2. \A i \in b.jobs : Mounted(b, i) => i.sid = b.session
      BY <1>4, <2>1 DEF KnowsKey, Mounted
    <3>3. b.step = 3 => <<c, b.session>> \in done'
      BY <1>2, <1>4, <2>1, <2>2 DEF KnowsKey
    <3>4. QED BY <2>3, <3>1, <3>2, <3>3 DEF KnowsKey, Mounted
  <2>5. /\ b.sinks \in {<<>>, <<b.session>>}
        /\ \A i \in b.jobs : i.via = i.sid /\ Has(c, i.sid, i.number)
        /\ \A i, k \in b.jobs : i.sid = k.sid => i = k
    BY <1>1, <1>4 DEF Knows
  <2>6. QED BY <1>1, <1>3, <2>3, <2>4, <2>5 DEF Knows
<1>7. HearsOn(c)
  BY <1>1, <1>2, <1>3, <1>4, <1>5, HearsSame
<1>8. StartsReady(c)
  BY <1>1, <1>2, <1>4, <1>5, StartsEnd
<1>9. QED BY <1>2, <1>3, <1>4, <1>6, <1>7, <1>8, ReadyOwnStep

\* A value is signed: the proof is of the session of the page.
LEMMA ReadySignedStep ==
  ASSUME FlowInv, FlowInv', ReadyInv, NEW c \in Client, SignDone(c)
  PROVE  ReadyInv'
<1>1. PICK o \in AppRecord :
        /\ o = app[c] /\ Knows(c, o) /\ kind # "keygen" /\ o.jobs \subseteq Job
  BY OwnState DEF FlowInv, Local, ReadyInv, SignDone, AppRecord
<1> DEFINE r(j) == [o EXCEPT !.jobs = o.jobs \ {j}, !.inbox[j.via] = {}, !.sinks = <<>>, !.proof = j.sid]
           a(j) == Render(r(j))
<1>2. PICK j \in o.jobs :
        /\ Become(c, IF a(j).wizard # "none" /\ a(j).step = 2 THEN HandleNext(a(j)) ELSE a(j))
        /\ done' = done \cup {<<c, j.sid>>}
  BY <1>1 DEF SignDone
<1>3. UNCHANGED <<kind, server, task, conn, frames, left>>
  BY DEF SignDone
<1>4. PICK b : /\ Become(c, b) /\ b.jobs = o.jobs \ {j} /\ b.sinks = <<>> /\ b.proof = j.sid
               /\ \A x \in {"wizard", "visit", "session", "number", "transport", "candidate"} : b[x] = o[x]
               /\ \/ b.step = o.step /\ ~(o.wizard # "none" /\ o.step = 2)
                  \/ b.step = 3 /\ o.wizard # "none" /\ o.step = 2
  <2> DEFINE d == r(j)
             e == Render(d)
  <2>1. /\ d \in AppRecord /\ d.jobs = o.jobs \ {j} /\ d.sinks = <<>> /\ d.proof = j.sid
        /\ \A x \in {"wizard", "step", "visit", "session", "number", "transport", "candidate"} : d[x] = o[x]
    <3>1. j \in Job /\ o.jobs \ {j} \in SUBSET Job /\ <<>> \in Seq(Sid)
      BY <1>1
    <3>2. j.sid \in 0 .. MaxSessions /\ j.via \in Sid
      BY <3>1, BoundsAssumption DEF Job, Sid
    <3>3. [o.inbox EXCEPT ![j.via] = {}] \in [Sid -> SUBSET Client]
      BY <1>1, <3>2 DEF AppRecord
    <3>4. QED BY <1>1, <3>1, <3>2, <3>3 DEF AppRecord
  <2>2. Become(c, IF e.wizard # "none" /\ e.step = 2 THEN HandleNext(e) ELSE e)
    BY <1>2
  <2> HIDE DEF r, a, d
  <2>3. /\ e \in AppRecord
        /\ \A x \in {"wizard", "step", "visit", "session", "number", "transport", "candidate", "proof", "sinks", "jobs"} :
             e[x] = d[x]
    <3>1. e \in AppRecord
      BY <2>1, RenderType
    <3>2. \A x \in {"wizard", "step", "visit", "session", "number", "transport", "candidate", "proof", "sinks", "jobs"} :
            e[x] = d[x]
      BY <2>1 DEF Render, AppRecord
    <3>3. QED BY <3>1, <3>2
  <2> HIDE DEF e
  <2>4. CASE e.wizard # "none" /\ e.step = 2
    <3>1. /\ HandleNext(e).step = 3
          /\ \A x \in {"wizard", "visit", "session", "number", "transport", "candidate", "proof", "sinks", "jobs"} :
               HandleNext(e)[x] = e[x]
      BY <2>3, <2>4, HandleNextType
    <3>2. QED BY <2>1, <2>2, <2>3, <2>4, <3>1
  <2>5. CASE ~(e.wizard # "none" /\ e.step = 2)
    BY <2>1, <2>2, <2>3, <2>5
  <2>6. QED BY <2>4, <2>5
<1>5. app'[c] = b
  BY <1>4 DEF Become, FlowInv, TypeOK
<1>6. KnowsValue(c, o) /\ (\A i, k \in o.jobs : i.sid = k.sid => i = k) /\ o.sinks \in {<<>>, <<o.session>>}
  BY <1>1 DEF Knows
<1>7. /\ o.wizard # "none" /\ o.step \in {1, 2} /\ o.proof = 0 /\ j.sid = o.session
      /\ o.candidate = o.session /\ j.sid # 0
  BY <1>1, <1>6 DEF KnowsValue, Job, Sid
<1>8. b.jobs = {}
  BY <1>4, <1>6, <1>7 DEF KnowsValue
<1>9. Knows(c, b)'
  <2>1. ASSUME NEW s, NEW n PROVE Has(c, s, n)' <=> Has(c, s, n)
    BY <1>3 DEF Has
  <2>2. /\ b.wizard # "none" /\ b.candidate = b.session /\ b.transport = b.session /\ b.proof = b.session
        /\ Has(c, b.session, b.number) /\ b.step >= 1 /\ (b.wizard = "join" => b.step >= 2)
        /\ <<c, b.session>> \in done' /\ b.proof # 0
    BY <1>2, <1>4, <1>6, <1>7 DEF KnowsValue
  <2>3. KnowsValue(c, b)'
    BY <1>8, <2>1, <2>2 DEF KnowsValue
  <2>4. QED BY <1>1, <1>3, <1>4, <1>8, <2>3 DEF Knows
<1>10. HearsOn(c)
  <2>1. app[c].sinks \in {<<>>, <<j.sid>>}
    BY <1>1, <1>6, <1>7
  <2>2. <<c, j.sid>> \in done' /\ done \subseteq done'
    BY <1>2
  <2>3. left \subseteq left' /\ UNCHANGED frames
    BY <1>3
  <2>4. QED BY <2>1, <2>2, <2>3, HearsEnd
<1>11. StartsReady(c)
  BY <1>1, <1>2, <1>4, <1>5, StartsEnd
<1>12. QED BY <1>2, <1>3, <1>4, <1>9, <1>10, <1>11, ReadyOwnStep

\* Wizards are left: at their end, or before by one that waits for nothing.
LEMMA ReadyLeaveSteps ==
  ASSUME Patient, FlowInv, FlowInv', ReadyInv, NEW c \in Client,
         Save(c) \/ SaveProof(c) \/ FinishTransaction(c) \/ Finish(c) \/ Leave(c)
  PROVE  ReadyInv'
<1>1. PICK o \in AppRecord : o = app[c] /\ Knows(c, o) /\ Page(kind, o)
  BY OwnState DEF FlowInv, ReadyInv, Local
<1>2. /\ Become(c, Unmount(o)) /\ UNCHANGED <<kind, server, task, conn, frames, done>>
      /\ (o.step = 3 /\ left' = left) \/ (left' = left \cup {c} /\ o.jobs = {})
  BY <1>1 DEF Save, SaveProof, FinishTransaction, Finish, Leave, At, history
<1>3. PICK b : /\ Become(c, b) /\ b.wizard = "none" /\ b.step = 0 /\ b.once = {} /\ b.sinks = <<>>
               /\ b.signer = FALSE
               /\ \A x \in {"visit", "session", "number", "transport", "jobs"} : b[x] = o[x]
  <2>1. Unmount(o).signer = FALSE
    BY DEF Unmount, ListenerCleanup, AppRecord
  <2>2. QED BY <1>2, <2>1, UnmountType
<1>4. app'[c] = b
  BY <1>3 DEF Become, FlowInv, TypeOK
<1>5. o.step = 3 => <<c, o.session>> \in done
  BY <1>1 DEF Knows, KnowsKey, KnowsValue, Page
<1>6. Knows(c, b)
  <2>1. kind = "keygen" => KnowsKey(c, b)
    BY <1>3 DEF KnowsKey, Mounted
  <2>2. kind # "keygen" => b.jobs = {}
    BY <1>1, <1>2, <1>3 DEF Knows, KnowsValue
  <2>3. kind # "keygen" => KnowsValue(c, b)
    BY <1>3, <2>2 DEF KnowsValue
  <2>4. QED BY <1>1, <1>3, <2>1, <2>3 DEF Knows
<1>7. Knows(c, b)'
  BY <1>2, <1>6, KnowsServer
<1>8. HearsOn(c)
  <2>1. o.sinks \in {<<>>, <<o.session>>}
    BY <1>1 DEF Knows
  <2>2. QED BY <1>1, <1>2, <1>5, <2>1, HearsEnd
<1>9. StartsReady(c)
  BY <1>1, <1>2, <1>3, <1>4, StartsNothing
<1>10. QED BY <1>2, <1>3, <1>7, <1>8, <1>9, ReadyOwnStep

-----------------------------------------------------------------------------
\* Steps of the server

\* What notifying r is.
Notified(c, r, t, to) ==
  /\ t = task[c] /\ t # Idle /\ r \in to /\ to = IF t.fresh THEN Receivers(c, t) ELSE t.to
  /\ \A d \in Client \ {r} : frames'[d] = frames[d]
  /\ frames'[r] = IF Cut(r) THEN frames[r] ELSE Append(frames[r], t.frame)
  /\ OnlyFlags(conn, conn')
  /\ \A d \in Client \ {c} : task'[d] = task[d]
  /\ \/ task'[c] = Idle
     \/ /\ task'[c].frame = t.frame /\ task'[c].sid = t.sid
        /\ task'[c].to = to \ {r} /\ task'[c].fresh = FALSE
  /\ UNCHANGED <<kind, server, app, done, left>>

\* A step of a connection task notifies somebody.
LEMMA NotifyNotified ==
  ASSUME FlowInv, NEW c \in Client, Notify(c)
  PROVE  \E r \in Client, t \in Task, to \in SUBSET Client :
           /\ Notified(c, r, t, to) /\ t.frame \in Frame /\ t.frame.type # "answer"
<1>1. PICK t \in Task : t = task[c] /\ t # Idle
  BY DEF Notify, FlowInv, TypeOK
<1>2. t \in [frame : Event, sid : Sid, to : SUBSET Client, fresh : BOOLEAN]
  BY <1>1 DEF Task
<1>3. PICK to \in SUBSET Client : to = IF t.fresh THEN Receivers(c, t) ELSE t.to
  <2>1. t.sid \in Sid /\ t.to \in SUBSET Client
    BY <1>2
  <2>2. Receivers(c, t) \in SUBSET Client
    BY <2>1, SignupTypes DEF Receivers, FlowInv
  <2>3. QED BY <2>1, <2>2
<1>4. PICK r \in to :
        /\ frames' = IF Cut(r) THEN frames
                     ELSE [frames EXCEPT ![r] = Append(frames[r], t.frame)]
        /\ task' = [task EXCEPT ![c] =
              IF to = {r} THEN Idle ELSE [t EXCEPT !.to = to \ {r}, !.fresh = FALSE]]
  BY <1>1, <1>3 DEF Notify, Sent
<1>5. PICK u : u = [t EXCEPT !.to = to \ {r}, !.fresh = FALSE]
               /\ u.frame = t.frame /\ u.to = to \ {r} /\ u.fresh = FALSE /\ u.sid = t.sid
  <2> DEFINE v == [t EXCEPT !.to = to \ {r}, !.fresh = FALSE]
  <2>1. v.frame = t.frame /\ v.to = to \ {r}
    BY <1>2
  <2>2. v.fresh = FALSE /\ v.sid = t.sid
    BY <1>2
  <2> HIDE DEF v
  <2>3. QED BY <2>1, <2>2 DEF v
<1>6. r \in Client /\ t.frame \in Frame /\ t.frame.type # "answer" /\ OnlyFlags(conn, conn')
  BY <1>2, <1>3, NotifyFlags DEF Frame, Event, FlowInv
<1>7. /\ \A d \in Client \ {r} : frames'[d] = frames[d]
      /\ frames'[r] = IF Cut(r) THEN frames[r] ELSE Append(frames[r], t.frame)
  BY <1>4, <1>6 DEF FlowInv, TypeOK
<1>8. /\ \A d \in Client \ {c} : task'[d] = task[d]
      /\ task'[c] = Idle \/ task'[c] = u
  BY <1>4, <1>5 DEF FlowInv, TypeOK
<1>9. UNCHANGED <<kind, server, app, done, left>>
  BY DEF Notify, history
<1>10. Notified(c, r, t, to)
  BY <1>1, <1>3, <1>4, <1>5, <1>6, <1>7, <1>8, <1>9 DEF Notified
<1>11. QED BY <1>6, <1>10

\* One to whom a ready event was owed waits for it now, and nobody else does.
LEMMA OnceNotifyStep ==
  ASSUME FlowInv, OnceInv, NEW c \in Client, NEW r \in Client, NEW t \in Task, NEW to \in SUBSET Client,
         Notified(c, r, t, to)
  PROVE  OnceInv'
<1>1. /\ t = task[c] /\ r \in to /\ (t.fresh \/ to = t.to)
      /\ \A d \in Client \ {r} : frames'[d] = frames[d]
      /\ frames'[r] = frames[r] \/ frames'[r] = Append(frames[r], t.frame)
      /\ \A d \in Client \ {c} : task'[d] = task[d]
      /\ \/ task'[c] = Idle
         \/ task'[c].frame = t.frame /\ task'[c].to = to \ {r} /\ task'[c].fresh = FALSE
      /\ UNCHANGED <<kind, server, app, done, left>>
  BY DEF Notified
<1>2. \A d \in Client : frames[d] \in Seq(Frame)
  BY DEF FlowInv, TypeOK
<1>3. ASSUME NEW d \in Client, NEW s \in Sid, ReadyTask(d, s)'
      PROVE  ReadyTask(d, s) /\ (d = c => task'[c] # Idle)
  <2>1. ReadyFrame(task'[d].frame, s)
    BY <1>3 DEF ReadyTask, ReadyFrame
  <2>2. ~ReadyFrame(Idle.frame, s)
    BY DEF ReadyFrame, Idle
  <2>3. QED BY <1>1, <2>1, <2>2 DEF ReadyTask
<1>4. ASSUME NEW d \in Client, NEW s \in Sid, Owed(d, s)'
      PROVE  Owed(d, s) /\ (d = r => ~ReadyTask(c, s))
  <2>1. PICK e \in Client : ReadyTask(e, s)' /\ (task'[e].fresh \/ d \in task'[e].to)
    BY <1>4 DEF Owed, ReadyTask, ReadyFrame
  <2>2. ReadyTask(e, s)
    BY <1>3, <2>1
  <2>3. CASE e = c
    <3>1. ReadyTask(c, s)'
      BY <2>1, <2>3
    <3>2. task'[c].to = to \ {r} /\ task'[c].fresh = FALSE
      BY <1>1, <1>3, <3>1
    <3>3. d \in to \ {r}
      BY <2>1, <2>3, <3>2
    <3>4. QED BY <1>1, <2>2, <2>3, <3>3 DEF Owed
  <2>4. CASE e # c
    <3>1. ~ReadyTask(c, s)
      BY <2>2, <2>4 DEF OnceInv
    <3>2. QED BY <1>1, <2>1, <2>2, <2>4, <3>1 DEF Owed
  <2>5. QED BY <2>3, <2>4
<1>5. ASSUME NEW s \in Sid, ReadyTask(c, s)
      PROVE  Owed(r, s) /\ ~Waits(r, s) /\ ~Started(r, s) /\ Complete(s)
  <2>1. Owed(r, s)
    BY <1>1, <1>5 DEF Owed
  <2>2. QED BY <1>5, <2>1 DEF OnceInv
<1>6. ASSUME NEW d \in Client, NEW s \in Sid
      PROVE  /\ Waits(d, s)' => Waits(d, s) \/ (d = r /\ ReadyTask(c, s))
             /\ \A i, j \in 1 .. Len(frames'[d]) :
                  ReadyFrame(frames'[d][i], s) /\ ReadyFrame(frames'[d][j], s) => i = j
  <2>1. \A i, j \in 1 .. Len(frames[d]) : ReadyFrame(frames[d][i], s) /\ ReadyFrame(frames[d][j], s) => i = j
    BY DEF OnceInv
  <2>2. CASE frames'[d] = frames[d]
    BY <2>1, <2>2 DEF Waits, ReadyFrame
  <2>3. CASE d = r /\ frames'[r] = Append(frames[r], t.frame)
    <3>1. ASSUME NEW i \in 1 .. Len(frames'[r])
          PROVE  \/ i \in 1 .. Len(frames[r]) /\ frames'[r][i] = frames[r][i]
                 \/ i = Len(frames[r]) + 1 /\ frames'[r][i] = t.frame
      BY <1>2, <2>3
    <3>2. ReadyFrame(t.frame, s) => ReadyTask(c, s)
      BY <1>1 DEF ReadyTask
    <3>3. Waits(d, s)' => Waits(d, s) \/ ReadyTask(c, s)
      <4>1. ASSUME NEW i \in 1 .. Len(frames'[r]), ReadyFrame(frames'[r][i], s)
            PROVE  Waits(r, s) \/ ReadyTask(c, s)
        BY <3>1, <3>2, <4>1 DEF Waits
      <4>2. QED BY <2>3, <4>1 DEF Waits, ReadyFrame
    <3>4. ASSUME NEW i \in 1 .. Len(frames'[r]), NEW j \in 1 .. Len(frames'[r]),
                 ReadyFrame(frames'[r][i], s), ReadyFrame(frames'[r][j], s)
          PROVE  i = j
      <4>1. CASE ReadyTask(c, s)
        <5>1. \A k \in 1 .. Len(frames[r]) : ~ReadyFrame(frames[r][k], s)
          BY <1>5, <4>1 DEF Waits
        <5>2. QED BY <3>1, <3>4, <5>1
      <4>2. CASE ~ReadyTask(c, s)
        BY <2>1, <2>3, <3>1, <3>2, <3>4, <4>2
      <4>3. QED BY <4>1, <4>2
    <3>5. QED BY <2>3, <3>3, <3>4
  <2>4. QED BY <1>1, <2>2, <2>3
<1>7. ASSUME NEW d \in Client, NEW s \in Sid
      PROVE  /\ ReadyTask(d, s)' \/ Waits(d, s)' \/ Started(d, s)' => Complete(s)'
             /\ Owed(d, s)' => ~Waits(d, s)' /\ ~Started(d, s)'
             /\ Waits(d, s)' => ~Started(d, s)'
  <2>1. /\ ReadyTask(d, s) \/ Waits(d, s) \/ Started(d, s) => Complete(s)
        /\ Owed(d, s) => ~Waits(d, s) /\ ~Started(d, s)
        /\ Waits(d, s) => ~Started(d, s)
    BY DEF OnceInv
  <2>2. (Started(d, s)' <=> Started(d, s)) /\ (Complete(s)' <=> Complete(s))
    BY <1>1 DEF Started, Complete, Needed
  <2>3. ReadyTask(d, s)' => ReadyTask(d, s)
    BY <1>3
  <2>4. Owed(d, s)' => Owed(d, s) /\ (d = r => ~ReadyTask(c, s))
    BY <1>4
  <2>5. Waits(d, s)' => Waits(d, s) \/ (d = r /\ ReadyTask(c, s))
    BY <1>6
  <2>6. d = r /\ ReadyTask(c, s) => ~Started(d, s) /\ Complete(s)
    BY <1>5
  <2>7. QED BY <2>1, <2>2, <2>3, <2>4, <2>5, <2>6
<1>8. ASSUME NEW d \in Client, NEW e \in Client, NEW s \in Sid, ReadyTask(d, s)', ReadyTask(e, s)'
      PROVE  d = e
  BY <1>3, <1>8 DEF OnceInv
<1>9. QED BY <1>6, <1>7, <1>8 DEF OnceInv, ReadyFrame

\* An event reaches a socket.
LEMMA ReadyNotifyStep ==
  ASSUME FlowInv, FlowInv', ReadyInv, NEW c \in Client, Notify(c)
  PROVE  ReadyInv'
<1>1. PICK r \in Client, t \in Task, to \in SUBSET Client :
        Notified(c, r, t, to) /\ t.frame \in Frame /\ t.frame.type # "answer"
  BY NotifyNotified
<1>2. PICK f \in Frame :
        /\ f.type # "answer"
        /\ \A d \in Client : frames'[d] = frames[d] \/ frames'[d] = Append(frames[d], f)
  <2>1. \A d \in Client \ {r} : frames'[d] = frames[d]
    BY <1>1 DEF Notified
  <2>2. frames'[r] = frames[r] \/ frames'[r] = Append(frames[r], t.frame)
    BY <1>1 DEF Notified
  <2>3. PICK f : f = t.frame
    OBVIOUS
  <2>4. \A d \in Client : frames'[d] = frames[d] \/ frames'[d] = Append(frames[d], f)
    BY <2>1, <2>2, <2>3
  <2>5. QED BY <1>1, <2>3, <2>4
<1>3. UNCHANGED <<kind, server, app, done, left>>
  BY <1>1 DEF Notified
<1>4. OnceInv'
  BY <1>1, OnceNotifyStep DEF ReadyInv
<1>5. ASSUME NEW d \in Client PROVE Knows(d, app[d])'
  <2>1. PICK a : a = app[d] /\ app'[d] = a /\ Knows(d, a)
    BY <1>3 DEF ReadyInv
  <2>2. Knows(d, a)'
    BY <1>3, <2>1, KnowsServer
  <2>3. QED BY <2>1, <2>2
<1>6. ASSUME NEW d \in Client, NEW i \in 1 .. Len(frames'[d]), NEW s \in Sid,
             SignedUpFrame(frames'[d][i], s)
      PROVE  Has(d, s, frames'[d][i].call.number)
  <2>1. CASE frames'[d] = frames[d]
    BY <1>6, <2>1 DEF ReadyInv
  <2>2. CASE frames'[d] = Append(frames[d], f)
    <3>1. frames[d] \in Seq(Frame)
      BY DEF FlowInv, TypeOK
    <3>2. \/ i \in 1 .. Len(frames[d]) /\ frames'[d][i] = frames[d][i]
          \/ frames'[d][i] = f
      BY <2>2, <3>1
    <3>3. ~SignedUpFrame(f, s)
      BY <1>2 DEF SignedUpFrame
    <3>4. QED BY <1>6, <3>2, <3>3 DEF ReadyInv
  <2>3. QED BY <1>2, <2>1, <2>2
<1>a. /\ t = task[c] /\ t # Idle /\ r \in to
      /\ to = IF t.fresh THEN Receivers(c, t) ELSE t.to
      /\ \A d \in Client \ {r} : frames'[d] = frames[d]
      /\ frames'[r] = IF Cut(r) THEN frames[r] ELSE Append(frames[r], t.frame)
      /\ OnlyFlags(conn, conn')
      /\ \A d \in Client \ {c} : task'[d] = task[d]
      /\ \/ task'[c] = Idle
         \/ task'[c].frame = t.frame /\ task'[c].sid = t.sid /\ task'[c].to = to \ {r}
  BY <1>1 DEF Notified
<1>b. t.frame.sid = t.sid /\ to \subseteq Parties(t.sid)
  <2>1. t.frame.sid = t.sid /\ t.to \subseteq Parties(t.sid)
    BY <1>a DEF ReadyInv, Addressed
  <2>2. QED BY <1>a, <2>1 DEF Receivers
<1>7. ASSUME NEW p \in Client, NEW s \in Sid, Due(p, s)' PROVE Hears(p, s)'
  <2>1. Due(p, s)
    <3>1. p \in Parties(s)' /\ ~Cut(p)' => p \in Parties(s) /\ ~Cut(p)
      BY <1>3, <1>a, CutStays DEF Parties
    <3>2. CASE frames'[p] = frames[p]
      BY <1>7, <3>1, <3>2 DEF Due, Brought
    <3>3. CASE p = r /\ ~Cut(r) /\ frames'[r] = Append(frames[r], t.frame)
      <4>1. frames[r] \in Seq(Frame)
        BY DEF FlowInv, TypeOK
      <4>2. \A i \in 1 .. Len(frames'[r]) :
              \/ i \in 1 .. Len(frames[r]) /\ frames'[r][i] = frames[r][i]
              \/ frames'[r][i] = t.frame
        BY <1>1, <3>3, <4>1
      <4>3. Brought(r, s)' => Brought(r, s) \/ t.frame.sid = s
        BY <4>2 DEF Brought
      <4>4. r \in Parties(t.frame.sid)
        BY <1>a, <1>b
      <4>5. QED BY <1>7, <3>1, <3>3, <4>3, <4>4 DEF Due
    <3>4. QED BY <1>a, <3>2, <3>3
  <2>2. Hears(p, s)
    BY <2>1 DEF ReadyInv
  <2>3. QED BY <1>2, <1>3, <2>1, <2>2, HearsKept
<1>c. ASSUME NEW d \in Client PROVE Addressed(d)'
  <2>1. CASE d # c
    BY <1>3, <1>a, <2>1 DEF ReadyInv, Addressed, Parties
  <2>2. CASE d = c
    BY <1>3, <1>a, <1>b, <2>2 DEF Addressed, Parties
  <2>3. QED BY <2>1, <2>2
<1>8. ASSUME NEW d, NEW s, NEW n PROVE Has(d, s, n)' <=> Has(d, s, n)
  BY <1>3 DEF Has
<1>9. QED BY <1>4, <1>5, <1>6, <1>7, <1>8, <1>c DEF ReadyInv, SignedUpFrame

\* A request that is handled completes no session twice.
LEMMA ServedComplete ==
  ASSUME FlowInv, FlowInv', OwnerInv, NEW c \in Client, NEW q \in CallRecord, NEW n \in Nat, NEW ok \in BOOLEAN,
         Served(c, q, n, ok), NEW s \in Sid
  PROVE  /\ Complete(s) => Complete(s)'
         /\ ReadyTask(c, s)' =>
              /\ ~Complete(s) /\ Complete(s)' /\ task'[c].fresh = TRUE
<1> USE DEF FlowInv
<1>1. /\ RequestFact(c, q) /\ ok = Accepts(c, q)
      /\ s # q.sid \/ ~ok => server'[s] = server[s]
      /\ task'[c] = IF ok THEN Notification(c, q) ELSE Idle
      /\ kind' = kind /\ GroupFact(s)
  BY DEF Served, OwnerInv
<1>2. /\ server[s].signups \in Seq([number : Nat, client : Client])
      /\ server'[s].signups \in Seq([number : Nat, client : Client])
      /\ server[s].params \in Form
  BY DEF TypeOK, Group
<1>3. Needed(s) \in Nat /\ Needed(s) >= 2
  <2>1. ValidParameters(server[s].params)
    BY <1>1 DEF GroupFact
  <2>2. server[s].params.threshold \in 1 .. server[s].params.parties - 1
    BY <2>1 DEF ValidParameters
  <2>3. server[s].params.parties \in Nat /\ server[s].params.threshold \in Nat
    BY <1>2 DEF Form
  <2>4. QED BY <2>2, <2>3 DEF Needed
<1>4. CASE s # q.sid \/ ~ok
  <2>1. Complete(s)' <=> Complete(s)
    BY <1>1, <1>4 DEF Complete, Needed
  <2>2. ~ReadyFrame(task'[c].frame, s)
    BY <1>1, <1>4 DEF ReadyFrame, Idle, Notification
  <2>3. QED BY <2>1, <2>2 DEF ReadyTask, ReadyFrame
<1>5. CASE s = q.sid /\ ok
  <2>1. CASE q.method = "Group.create"
    <3>1. server[s].signups = <<>>
      BY <1>1, <1>5, <2>1 DEF RequestFact, OfGuest, JoinMethods
    <3>2. ~Complete(s)
      BY <1>3, <3>1 DEF Complete
    <3>3. ~ReadyFrame(task'[c].frame, s)
      BY <1>1, <1>5, <2>1 DEF ReadyFrame, Idle, Notification
    <3>4. QED BY <3>2, <3>3 DEF ReadyTask, ReadyFrame
  <2>2. CASE q.method \in {"Session.signup", "Session.load"}
    <3>1. PICK e \in [number : Nat, client : Client] :
            server'[s].signups = Append(server[s].signups, e) /\ server'[s].params = server[s].params
      <4>1. server'[s].signups = Append(server[s].signups, [number |-> n, client |-> c])
            /\ server'[s].params = server[s].params
        BY <1>5, <2>2, ServedHandled
      <4>2. [number |-> n, client |-> c] \in [number : Nat, client : Client]
        OBVIOUS
      <4>3. QED BY <4>1, <4>2
    <3>2. Needed(s)' = Needed(s) /\ Len(server'[s].signups) = Len(server[s].signups) + 1
      BY <1>1, <1>2, <3>1 DEF Needed
    <3>3. Complete(s) => Complete(s)'
      BY <1>2, <1>3, <3>2 DEF Complete
    <3>4. ReadyFrame(task'[c].frame, s) =>
            Len(server[s].signups) + 1 = Needed(s) /\ task'[c].fresh = TRUE
      BY <1>1, <1>5, <2>2 DEF ReadyFrame, Idle, Notification
    <3>5. Len(server[s].signups) + 1 = Needed(s) => ~Complete(s) /\ Complete(s)'
      BY <1>2, <1>3, <3>2 DEF Complete
    <3>6. QED BY <3>3, <3>4, <3>5 DEF ReadyTask, ReadyFrame
  <2>3. CASE q.method \notin {"Group.create", "Session.signup", "Session.load"}
    <3>1. server'[s].signups = server[s].signups /\ server'[s].params = server[s].params
      BY <1>5, <2>3, ServedHandled
    <3>2. Complete(s)' <=> Complete(s)
      BY <1>1, <3>1 DEF Complete, Needed
    <3>3. ~ReadyFrame(task'[c].frame, s)
      BY <1>1, <1>5, <2>3 DEF ReadyFrame, Idle, Notification
    <3>4. QED BY <3>2, <3>3 DEF ReadyTask, ReadyFrame
  <2>4. QED BY <2>1, <2>2, <2>3
<1>6. QED BY <1>4, <1>5

\* One more element.
LEMMA ToSetAppend ==
  ASSUME NEW S, NEW z \in Seq(S), NEW e \in S
  PROVE  ToSet(Append(z, e)) = ToSet(z) \cup {e}
<1> DEFINE y == Append(z, e)
<1>1. /\ Len(z) \in Nat /\ Len(y) = Len(z) + 1 /\ y[Len(z) + 1] = e
      /\ \A i \in 1 .. Len(z) : y[i] = z[i]
      /\ DOMAIN y = 1 .. Len(z) + 1 /\ DOMAIN z = 1 .. Len(z)
  OBVIOUS
<1> HIDE DEF y
<1>2. ToSet(y) \subseteq ToSet(z) \cup {e}
  BY <1>1 DEF ToSet
<1>3. ToSet(z) \cup {e} \subseteq ToSet(y)
  BY <1>1 DEF ToSet
<1>4. QED BY <1>2, <1>3 DEF y

\* A signup is one more party of its session, and every party is kept.
LEMMA ServedHas ==
  ASSUME FlowInv, FlowInv', OwnerInv, NEW c \in Client, NEW q \in CallRecord, NEW n \in Nat, NEW ok \in BOOLEAN,
         Served(c, q, n, ok), NEW s \in Sid
  PROVE  LET signs == s = q.sid /\ ok /\ q.method \in {"Session.signup", "Session.load"}
         IN  ToSet(server'[s].signups) =
               ToSet(server[s].signups) \cup IF signs THEN {[number |-> n, client |-> c]} ELSE {}
<1>1. s # q.sid \/ ~ok => server'[s] = server[s]
  BY DEF Served
<1>2. server[s].signups \in Seq([number : Nat, client : Client])
  BY DEF FlowInv, TypeOK, Group
<1>3. CASE s = q.sid /\ ok /\ q.method \in {"Session.signup", "Session.load"}
  <2>1. ok
    BY <1>3
  <2>2. q.method \in {"Session.signup", "Session.load"}
    BY <1>3
  <2>3. server'[s].signups = Append(server[s].signups, [number |-> n, client |-> c])
        /\ server'[s].params = server[s].params
    BY <1>3, <2>1, <2>2, ServedHandled
  <2>4. PICK S : S = [number : Nat, client : Client]
    OBVIOUS
  <2>5. PICK z \in Seq(S), e \in S : z = server[s].signups /\ e = [number |-> n, client |-> c]
    BY <1>2, <2>4
  <2>6. ToSet(Append(z, e)) = ToSet(z) \cup {e}
    BY ToSetAppend
  <2>7. QED BY <1>3, <2>3, <2>5, <2>6
<1>4. CASE ~(s = q.sid /\ ok /\ q.method \in {"Session.signup", "Session.load"})
  <2>1. CASE s = q.sid /\ ok
    <3>1. CASE q.method = "Group.create"
      BY <1>4, <2>1, <3>1, ServedHandled
    <3>2. CASE q.method # "Group.create"
      <4>1. q.method \notin {"Session.signup", "Session.load"}
        BY <1>4, <2>1
      <4>2. CASE q.method = "Group.join"
        BY <1>4, <2>1, <4>2, ServedHandled
      <4>3. CASE q.method # "Group.join"
        BY <1>4, <2>1, <3>2, <4>1, <4>3, ServedHandled
      <4>4. QED BY <4>2, <4>3
    <3>3. QED BY <3>1, <3>2
  <2>2. QED BY <1>1, <1>4, <2>1
<1>5. QED BY <1>3, <1>4

\* The ready event is owed when the session becomes complete.
LEMMA OnceServeStep ==
  ASSUME FlowInv, FlowInv', OwnerInv, OnceInv, NEW c \in Client, NEW q \in CallRecord, NEW n \in Nat,
         NEW ok \in BOOLEAN, Served(c, q, n, ok), task[c] = Idle, done' = done
  PROVE  OnceInv'
<1>1. /\ frames'[c] = IF Cut(c) THEN frames[c] ELSE Append(frames[c], Reply(q, n, ok))
      /\ \A d \in Client \ {c} : frames'[d] = frames[d] /\ task'[d] = task[d]
      /\ app' = app
  BY DEF Served
<1>2. \A d \in Client : frames[d] \in Seq(Frame) /\ frames'[d] \in Seq(Frame)
  BY DEF FlowInv, TypeOK
<1>3. \A s \in Sid : ~ReadyFrame(Reply(q, n, ok), s) /\ ~ReadyTask(c, s)
  BY DEF ReadyFrame, Reply, ReadyTask, Idle
<1>4. ASSUME NEW s \in Sid
      PROVE  /\ Complete(s) => Complete(s)'
             /\ ReadyTask(c, s)' => ~Complete(s) /\ Complete(s)' /\ task'[c].fresh = TRUE
  BY ServedComplete
<1>5. ASSUME NEW d \in Client, NEW s \in Sid
      PROVE  /\ Started(d, s)' <=> Started(d, s)
             /\ ReadyTask(d, s)' => (d # c /\ ReadyTask(d, s)) \/ (d = c /\ ~Complete(s) /\ Complete(s)')
             /\ Owed(d, s)' => Owed(d, s) \/ ~Complete(s)
  <2>1. Started(d, s)' <=> Started(d, s)
    BY <1>1 DEF Started
  <2>2. d # c => (ReadyTask(d, s)' <=> ReadyTask(d, s))
    BY <1>1 DEF ReadyTask, ReadyFrame
  <2>3. ReadyTask(c, s)' => ~Complete(s) /\ Complete(s)'
    BY <1>4
  <2>4. ASSUME Owed(d, s)' PROVE Owed(d, s) \/ ~Complete(s)
    <3>1. PICK e \in Client : ReadyTask(e, s)' /\ (task'[e].fresh \/ d \in task'[e].to)
      BY <2>4 DEF Owed, ReadyTask, ReadyFrame
    <3>2. CASE e = c
      BY <2>3, <3>1, <3>2
    <3>3. CASE e # c
      <4>1. ReadyTask(e, s) /\ task'[e] = task[e]
        BY <1>1, <3>1, <3>3 DEF ReadyTask, ReadyFrame
      <4>2. QED BY <3>1, <4>1 DEF Owed
    <3>4. QED BY <3>2, <3>3
  <2>5. QED BY <2>1, <2>2, <2>3, <2>4
<1>6. ASSUME NEW d \in Client, NEW s \in Sid
      PROVE  /\ Waits(d, s)' => Waits(d, s)
             /\ \A i, j \in 1 .. Len(frames'[d]) :
                  ReadyFrame(frames'[d][i], s) /\ ReadyFrame(frames'[d][j], s) => i = j
  <2>1. ASSUME NEW i \in 1 .. Len(frames'[d]), ReadyFrame(frames'[d][i], s)
        PROVE  i \in 1 .. Len(frames[d]) /\ frames'[d][i] = frames[d][i]
    <3>1. CASE d # c \/ Cut(c)
      BY <1>1, <2>1, <3>1
    <3>2. CASE d = c /\ ~Cut(c)
      <4>1. PICK f : f = Reply(q, n, ok)
        OBVIOUS
      <4>2. frames'[c] = Append(frames[c], f) /\ frames[c] \in Seq(Frame) /\ frames'[c] \in Seq(Frame)
        BY <1>1, <1>2, <3>2, <4>1
      <4>3. (i \in 1 .. Len(frames[c]) /\ frames'[c][i] = frames[c][i]) \/ frames'[c][i] = f
        BY <2>1, <3>2, <4>2
      <4>4. ~ReadyFrame(f, s)
        BY <1>3, <4>1
      <4>5. QED BY <2>1, <3>2, <4>3, <4>4
    <3>3. QED BY <3>1, <3>2
  <2>2. \A i, j \in 1 .. Len(frames[d]) : ReadyFrame(frames[d][i], s) /\ ReadyFrame(frames[d][j], s) => i = j
    BY DEF OnceInv
  <2>3. Waits(d, s)' => Waits(d, s)
    BY <2>1 DEF Waits, ReadyFrame
  <2>4. QED BY <2>1, <2>2, <2>3
<1>7. ASSUME NEW d \in Client, NEW s \in Sid
      PROVE  /\ ReadyTask(d, s)' \/ Waits(d, s)' \/ Started(d, s)' => Complete(s)'
             /\ Owed(d, s)' => ~Waits(d, s)' /\ ~Started(d, s)'
             /\ Waits(d, s)' => ~Started(d, s)'
  <2>1. /\ ReadyTask(d, s) \/ Waits(d, s) \/ Started(d, s) => Complete(s)
        /\ Owed(d, s) => ~Waits(d, s) /\ ~Started(d, s)
        /\ Waits(d, s) => ~Started(d, s)
    BY DEF OnceInv
  <2>2. QED BY <1>4, <1>5, <1>6, <2>1
<1>8. ASSUME NEW d \in Client, NEW e \in Client, NEW s \in Sid, ReadyTask(d, s)', ReadyTask(e, s)'
      PROVE  d = e
  <2>1. \A x \in Client : ReadyTask(x, s) => Complete(s)
    BY DEF OnceInv
  <2>2. \A x, y \in Client : ReadyTask(x, s) /\ ReadyTask(y, s) => x = y
    BY DEF OnceInv
  <2>3. QED BY <1>5, <1>8, <2>1, <2>2
<1>9. QED BY <1>6, <1>7, <1>8 DEF OnceInv, ReadyFrame

\* What a dapp knows stays true when its session has more signups.
LEMMA KnowsMore ==
  ASSUME NEW c, NEW a \in AppRecord, Page(kind, a), Knows(c, a), UNCHANGED <<kind, done>>,
         \A s \in Sid : \A n : Has(c, s, n) => Has(c, s, n)'
  PROVE  Knows(c, a)'
<1>1. \A j \in a.jobs : j.sid \in Sid
  BY DEF AppRecord, Job
<1>2. KnowsKey(c, a) => KnowsKey(c, a)'
  BY DEF KnowsKey, Page
<1>3. KnowsValue(c, a) => KnowsValue(c, a)'
  BY DEF KnowsValue, Page
<1>4. QED BY <1>1, <1>2, <1>3 DEF Knows

\* The server takes a step.
LEMMA ReadyServeStep ==
  ASSUME FlowInv, FlowInv', OwnerInv, ReadyInv, NEW c \in Client, Serve(c)
  PROVE  ReadyInv'
<1>1. PICK q \in CallRecord, n \in Nat, ok \in BOOLEAN : Served(c, q, n, ok)
  BY ServeServed
<1>2. task[c] = Idle /\ UNCHANGED <<done, left>>
  BY DEF Serve, history
<1>3. PICK f \in Frame : /\ f = Reply(q, n, ok)
                         /\ frames'[c] = IF Cut(c) THEN frames[c] ELSE Append(frames[c], f)
  <2>1. frames'[c] = IF Cut(c) THEN frames[c] ELSE Append(frames[c], Reply(q, n, ok))
    BY <1>1 DEF Served
  <2>2. Reply(q, n, ok) \in Frame
    <3>1. [q EXCEPT !.number = n] \in CallRecord
      BY DEF CallRecord
    <3>2. QED BY <3>1 DEF Reply, Frame
  <2>3. QED BY <2>1, <2>2
<1>4. /\ f.type = "answer" /\ f.ok = ok /\ f.call.method = q.method
      /\ f.call.sid = q.sid /\ f.call.number = n
  BY <1>3 DEF CallRecord, Reply
<1>5. /\ UNCHANGED <<kind, app>>
      /\ \A d \in Client \ {c} : frames'[d] = frames[d]
  BY <1>1 DEF Served
<1>6. OnceInv'
  BY <1>1, <1>2, OnceServeStep DEF ReadyInv
<1>7. ASSUME NEW s \in Sid
      PROVE  ToSet(server'[s].signups) = ToSet(server[s].signups) \cup
               IF s = q.sid /\ ok /\ q.method \in {"Session.signup", "Session.load"}
               THEN {[number |-> n, client |-> c]} ELSE {}
  BY <1>1, ServedHas
<1>8. ASSUME NEW d \in Client, NEW s \in Sid, NEW k, Has(d, s, k)
      PROVE  Has(d, s, k)'
  BY <1>7, <1>8 DEF Has
<1>9. ASSUME NEW d \in Client PROVE Knows(d, app[d])'
  <2>1. PICK a \in AppRecord : a = app[d] /\ app'[d] = a /\ Page(kind, a) /\ Knows(d, a)
    BY <1>5, OwnState DEF FlowInv, ReadyInv, Local
  <2>2. \A s \in Sid : \A k : Has(d, s, k) => Has(d, s, k)'
    BY <1>8
  <2>3. Knows(d, a)'
    BY <1>2, <1>5, <2>1, <2>2, KnowsMore
  <2>4. QED BY <2>1, <2>3
<1>10. ASSUME NEW d \in Client, NEW i \in 1 .. Len(frames'[d]), NEW s \in Sid,
              SignedUpFrame(frames'[d][i], s)
       PROVE  [number |-> frames'[d][i].call.number, client |-> d] \in ToSet(server'[s].signups)
  <2>1. /\ frames[c] \in Seq(Frame)
        /\ \/ frames'[d] = frames[d]
           \/ d = c /\ frames'[c] = Append(frames[c], f)
    BY <1>3, <1>5 DEF FlowInv, TypeOK
  <2>2. CASE i \in 1 .. Len(frames[d]) /\ frames'[d][i] = frames[d][i]
    <3>1. PICK k : k = frames[d][i].call.number
      OBVIOUS
    <3>2. Has(d, s, k)
      BY <1>10, <2>2, <3>1 DEF ReadyInv
    <3>3. Has(d, s, k)'
      BY <1>8, <3>2
    <3>4. QED BY <2>2, <3>1, <3>3 DEF Has
  <2>3. CASE d = c /\ frames'[d][i] = f
    <3>1. s = q.sid /\ ok /\ q.method \in {"Session.signup", "Session.load"}
      BY <1>4, <1>10, <2>3 DEF SignedUpFrame
    <3>2. [number |-> n, client |-> c] \in ToSet(server'[s].signups)
      BY <1>7, <3>1
    <3>3. frames'[d][i].call.number = n
      BY <1>4, <2>3
    <3>4. QED BY <2>3, <3>2, <3>3
  <2>4. QED BY <2>1, <2>2, <2>3, SMTT(30)
<1>a. OnlyFlags(conn, conn')
  BY <1>1 DEF Served
<1>11. ASSUME NEW p \in Client, NEW s \in Sid, Due(p, s)' PROVE Hears(p, s)'
  <2>1. Brought(p, s)' => Brought(p, s)
    <3>1. CASE frames'[p] = frames[p]
      BY <3>1 DEF Brought
    <3>2. CASE p = c /\ frames'[c] = Append(frames[c], f)
      <4>1. frames[c] \in Seq(Frame)
        BY DEF FlowInv, TypeOK
      <4>2. \A i \in 1 .. Len(frames'[c]) :
              \/ i \in 1 .. Len(frames[c]) /\ frames'[c][i] = frames[c][i]
              \/ frames'[c][i] = f
        BY <3>2, <4>1
      <4>3. QED BY <1>4, <3>2, <4>2 DEF Brought
    <3>3. QED BY <1>3, <1>5, <3>1, <3>2
  <2>2. ~Cut(p)' => ~Cut(p)
    BY <1>a, CutStays
  <2>3. CASE Due(p, s)
    <3>1. Hears(p, s)
      BY <2>3 DEF ReadyInv
    <3>2. app'[p].sinks = app[p].sinks /\ left' = left /\ done' = done
      BY <1>2, <1>5
    <3>3. frames'[p] = frames[p] \/ frames'[p] = Append(frames[p], f)
      BY <1>3, <1>5
    <3>4. QED BY <3>1, <3>2, <3>3, HearsKept
  <2>4. CASE ~Due(p, s)
    <3>0. p \in Parties(s)' /\ p \notin Parties(s) /\ ~Cut(p)
      BY <1>11, <2>1, <2>2, <2>4 DEF Due
    <3>1. PICK e \in ToSet(server'[s].signups) : e.client = p
      BY <3>0 DEF Parties
    <3>2. e \notin ToSet(server[s].signups)
      BY <3>0, <3>1 DEF Parties
    <3>3. /\ s = q.sid /\ ok /\ q.method \in {"Session.signup", "Session.load"}
          /\ e = [number |-> n, client |-> c]
      BY <1>7, <3>1, <3>2
    <3>4. p = c /\ SignedUpFrame(f, s)
      BY <1>4, <3>1, <3>3 DEF SignedUpFrame
    <3>5. Len(frames[c]) + 1 \in 1 .. Len(frames'[c]) /\ frames'[c][Len(frames[c]) + 1] = f
      <4>1. frames[c] \in Seq(Frame) /\ frames'[c] = Append(frames[c], f)
        BY <1>3, <3>0, <3>4 DEF FlowInv, TypeOK
      <4>2. QED BY <4>1
    <3>6. QED BY <3>4, <3>5 DEF Hears, SignedUpFrame
  <2>5. QED BY <2>3, <2>4
<1>b. \A s \in Sid : Parties(s) \subseteq Parties(s)'
  BY <1>7 DEF Parties
<1>c. ASSUME NEW d \in Client PROVE Addressed(d)'
  <2>1. CASE d # c
    <3>1. task'[d] = task[d] /\ Addressed(d)
      BY <1>1, <2>1 DEF Served, ReadyInv
    <3>2. task[d] # Idle => task[d].sid \in Sid
      BY DEF FlowInv, TypeOK, Task
    <3>3. QED BY <1>b, <3>1, <3>2 DEF Addressed
  <2>2. CASE d = c
    <3>1. task'[c] = Notification(c, q) \/ task'[c] = Idle
      BY <1>1 DEF Served
    <3>2. Notification(c, q) = Idle \/ (/\ Notification(c, q).frame.sid = Notification(c, q).sid
                                        /\ Notification(c, q).to = {})
      BY DEF Notification
    <3>3. QED BY <2>2, <3>1, <3>2 DEF Addressed
  <2>3. QED BY <2>1, <2>2
<1>12. QED BY <1>6, <1>9, <1>10, <1>11, <1>c DEF ReadyInv, SignedUpFrame, Has

-----------------------------------------------------------------------------
\* The invariant of the ready event

\* Before anybody opens a wizard nobody has signed up.
LEMMA InitReady == Init => ReadyInv
<1> SUFFICES ASSUME Init PROVE ReadyInv
  OBVIOUS
<1>1. \A s \in Sid : server[s] = NoSession
  BY DEF Init
<1>2. NoSession.signups = <<>>
  BY DEF NoSession
<1>3. ASSUME NEW c \in Client
      PROVE  /\ app[c] = NewApp /\ frames[c] = <<>> /\ task[c] = Idle /\ done = {}
             /\ Len(frames[c]) = 0
  BY DEF Init
<1>4. /\ NewApp.sinks = <<>> /\ NewApp.jobs = {} /\ NewApp.once = {} /\ NewApp.step = 0
      /\ NewApp.wizard = "none" /\ NewApp.signer = FALSE
  BY DEF NewApp
<1>5. \A c \in Client, s \in Sid : ~ReadyTask(c, s) /\ ~Waits(c, s) /\ ~Started(c, s)
  BY <1>3, <1>4 DEF ReadyTask, ReadyFrame, Idle, Waits, Started
<1>6. OnceInv
  <2>1. \A c, s : ~Owed(c, s) \/ \E d \in Client : ReadyTask(d, s)
    BY DEF Owed
  <2>2. QED BY <1>3, <1>5, <2>1 DEF OnceInv
<1>7. \A c \in Client : Knows(c, app[c])
  BY <1>3, <1>4 DEF Knows, KnowsKey, KnowsValue
<1>8. ASSUME NEW s \in Sid PROVE Parties(s) = {}
  BY <1>1, <1>2 DEF Parties, ToSet
<1>9. ASSUME NEW c \in Client, NEW s \in Sid PROVE ~Due(c, s)
  BY <1>3, <1>8 DEF Due, Brought
<1>10. \A c \in Client : Addressed(c)
  BY <1>3 DEF Addressed
<1>11. QED BY <1>3, <1>6, <1>7, <1>9, <1>10 DEF ReadyInv

\* A connection is lost, or nothing happens.
LEMMA ReadyUnchanged ==
  ASSUME FlowInv, ReadyInv, UNCHANGED <<kind, server, task, frames, app, left, done>>,
         \A d \in Client : Cut(d) => Cut(d)'
  PROVE  ReadyInv'
<1>1. \A c \in Client : \A s \in Sid :
         /\ ReadyTask(c, s)' <=> ReadyTask(c, s)
         /\ Owed(c, s)' <=> Owed(c, s)
         /\ Waits(c, s)' <=> Waits(c, s)
         /\ Started(c, s)' <=> Started(c, s)
         /\ Complete(s)' <=> Complete(s)
  BY DEF ReadyTask, ReadyFrame, Owed, Waits, Started, Complete, Needed
<1>2. OnceInv'
  BY <1>1 DEF ReadyInv, OnceInv, ReadyFrame
<1>3. ASSUME NEW c \in Client PROVE Knows(c, app[c])'
  <2>1. PICK a : a = app[c] /\ app'[c] = a /\ Knows(c, a)
    BY DEF ReadyInv
  <2>2. Knows(c, a)'
    BY <2>1, KnowsServer
  <2>3. QED BY <2>1, <2>2
<1>4. \A s \in Sid : Parties(s)' = Parties(s)
  BY DEF Parties
<1>5. \A s \in Sid, p \in Client : Hears(p, s)' <=> Hears(p, s)
  BY DEF Hears, SignedUpFrame
<1>6. \A s \in Sid, p \in Client : Due(p, s)' => Due(p, s)
  BY <1>4 DEF Due, Brought
<1>7. \A p \in Client, s \in Sid : Due(p, s)' => Hears(p, s)'
  BY <1>5, <1>6 DEF ReadyInv
<1>8. \A d \in Client : Addressed(d)'
  BY DEF ReadyInv, Addressed, Parties
<1>9. QED BY <1>2, <1>3, <1>7, <1>8 DEF ReadyInv, SignedUpFrame, Has

\* The client of a connection is gone.
LEMMA ReadyDisconnectedStep ==
  ASSUME FlowInv, ReadyInv, NEW c \in Client, ClientDisconnected(c)
  PROVE  ReadyInv'
<1>1. UNCHANGED <<kind, server, task, frames, app, left, done>>
  BY DEF ClientDisconnected, history
<1>2. \A d \in Client : Cut(d) => Cut(d)'
  BY DEF ClientDisconnected, Cut, FlowInv, TypeOK
<1>3. QED BY <1>1, <1>2, ReadyUnchanged

\* Every step keeps it.
LEMMA NextReady ==
  ASSUME Patient, FlowInv, FlowInv', OwnerInv, ReadyInv, [Next]_vars
  PROVE  ReadyInv'
<1>1. CASE UNCHANGED vars
  <2>1. UNCHANGED <<kind, server, task, frames, conn, app, left, done>>
    BY <1>1 DEF vars
  <2>2. \A d \in Client : Cut(d) => Cut(d)'
    BY <2>1 DEF Cut
  <2>3. QED BY <2>1, <2>2, ReadyUnchanged
<1>2. ASSUME NEW c \in Client, System(c)
      PROVE  ReadyInv'
  BY <1>2, ReadyServeStep, ReadyNotifyStep, ReadyDisconnectedStep, ReadyUserSteps, ReadyMessageSteps, ReadyFrameSteps,
     ReadySignupSteps, ReadySignupStep, ReadyKeyStep, ReadyLoadSteps, ReadyShowSteps,
     ReadyLoadStep, ReadySignedStep
     DEF System, KeygenStep, SignStep
<1>3. ASSUME NEW c \in Client, User(c)
      PROVE  ReadyInv'
  BY <1>3, ReadyOpenSteps, ReadyConnectedStep, ReadyUserSteps, ReadyShowSteps, ReadyLeaveSteps
     DEF User, KeygenUser, SignUser
<1>4. QED BY <1>1, <1>2, <1>3 DEF Next

\* While users are patient: the ready event of a session is sent once, when it
\* is complete, and reaches each of its parties at most once; a party that
\* signed up hears the others, or will when it reads the answer to its signup.
THEOREM ReadyInvHolds ==
  ASSUME Patient
  PROVE  Spec => [](FlowInv /\ OwnerInv /\ ReadyInv)
<1>1. Init => FlowInv /\ OwnerInv /\ ReadyInv
  BY InitFlow, InitOwner, InitReady
<1>2. FlowInv /\ OwnerInv /\ ReadyInv /\ [Next]_vars => FlowInv' /\ OwnerInv' /\ ReadyInv'
  BY NextFlow, NextOwner, NextReady
<1>3. QED BY <1>1, <1>2, PTL DEF Spec

-----------------------------------------------------------------------------
\* The session of a new key has no party too many

\* d is on its way to sign up for s: it is about to ask for something, has
\* asked, or was answered, but not with a number.
JoinCall(s) == {q \in CallRecord : q.fn # "message" /\ q.sid = s}
JoinAnswer(s) ==
  {f \in Frame : /\ f.type = "answer" /\ f.call.fn # "message" /\ f.call.sid = s
                 /\ f.call.method \notin {"Session.signup", "Session.load"}}

Heads(a, s) ==
  \/ \E t \in a.timers : t.sid = s
  \/ a.wizard = "join" /\ a.step = 0 /\ a.target = s

Joins(d, s) ==
  \/ Heads(app[d], s)
  \/ ~None(calls[d], JoinCall(s))
  \/ ~None(frames[d], JoinAnswer(s))

\* Everybody signs up once, and is a member of the group, which is never more
\* than full while the server has removed nobody from it.
FitsGroup(s) ==
  /\ \A d \in Client : Joins(d, s) => d \notin Parties(s)
  /\ \A i, j \in 1 .. Len(server[s].signups) :
        server[s].signups[i].client = server[s].signups[j].client => i = j
  /\ Parties(s) \subseteq server[s].members
  /\ Clients(s) = server[s].members => Cardinality(server[s].members) <= server[s].params.parties

FitInv == kind = "keygen" => \A s \in Sid : FitsGroup(s)

\* A group has the same clients when its members are the same, and nobody is
\* removed.
LEMMA ClientsSame ==
  ASSUME FlowInv, NEW s \in Sid, server'[s].members = server[s].members,
         \A d \in Client : conn'[d] = "closed" <=> conn[d] = "closed"
  PROVE  Clients(s)' = Clients(s)
<1>1. server[s].members \subseteq Client
  BY DEF FlowInv, TypeOK, Group
<1>2. QED BY <1>1 DEF Clients

\* Then there are no more signups than the key has parties.
LEMMA FitsNotOverfull ==
  ASSUME FlowInv, FitInv, kind = "keygen", NEW s \in Sid, Clients(s) = server[s].members
  PROVE  ~Overfull(s)
<1>1. PICK z \in Seq([number : Nat, client : Client]) : z = server[s].signups
  BY DEF FlowInv, TypeOK, Group
<1>2. server[s].members \subseteq Client /\ server[s].params.parties \in Nat
  BY DEF FlowInv, TypeOK, Group, Form
<1>3. IsFiniteSet(server[s].members)
  BY <1>2, ClientAssumption, FS_Subset
<1>4. FitsGroup(s)
  BY DEF FitInv
<1>5. \A i \in 1 .. Len(z) : z[i].client \in server[s].members
  BY <1>1, <1>4 DEF FitsGroup, Parties, ToSet
<1>6. [i \in 1 .. Len(z) |-> z[i].client] \in Injection(1 .. Len(z), server[s].members)
  <2>1. \A i, j \in 1 .. Len(z) : z[i].client = z[j].client => i = j
    BY <1>1, <1>4 DEF FitsGroup
  <2>2. QED BY <1>5, <2>1 DEF Injection, IsInjective
<1>7. Len(z) \in Nat
  BY <1>1
<1>8. Cardinality(1 .. Len(z)) = Len(z) /\ IsFiniteSet(1 .. Len(z))
  BY <1>7, FS_Interval, SMTT(30)
<1>9. Len(z) <= Cardinality(server[s].members)
  BY <1>3, <1>6, <1>8, FS_Injection
<1>10. Cardinality(server[s].members) \in Nat
  BY <1>3, FS_CardinalityType
<1>11. QED BY <1>1, <1>2, <1>4, <1>7, <1>9, <1>10 DEF FitsGroup, Overfull, Needed

\* A client on its way to sign up goes on, or stops.
LEMMA FitOwnStep ==
  ASSUME FlowInv, FlowInv', FitInv, NEW c \in Client,
         NEW b, Become(c, b) \/ (UNCHANGED app /\ b = app[c]),
         UNCHANGED <<kind, server, conn>>,
         \/ UNCHANGED calls
         \/ \E q : Ask(c, q) /\ (q.fn = "message" \/ Joins(c, q.sid) \/ c \notin Parties(q.sid)),
         \/ UNCHANGED frames
         \/ frames[c] # <<>> /\ frames' = [frames EXCEPT ![c] = Tail(frames[c])],
         \A s \in Sid : Heads(b, s) => Joins(c, s) \/ c \notin Parties(s)
  PROVE  FitInv'
<1>1. /\ \A d \in Client \ {c} : app'[d] = app[d] /\ calls'[d] = calls[d] /\ frames'[d] = frames[d]
      /\ app'[c] = b
      /\ frames'[c] = frames[c] \/ (frames[c] # <<>> /\ frames'[c] = Tail(frames[c]))
  BY DEF Become, Ask, FlowInv, TypeOK
<1>2. ASSUME NEW q, Ask(c, q) PROVE q \in CallRecord /\ calls'[c] = Append(calls[c], q)
  <2>1. calls'[c] = Append(calls[c], q) /\ calls[c] \in Seq(CallRecord) /\ calls'[c] \in Seq(CallRecord)
    BY <1>2 DEF Ask, FlowInv, TypeOK
  <2>2. Len(calls[c]) + 1 \in 1 .. Len(calls'[c]) /\ calls'[c][Len(calls[c]) + 1] = q
    BY <2>1
  <2>3. calls'[c][Len(calls[c]) + 1] \in CallRecord
    BY <2>1, <2>2
  <2>4. QED BY <2>1, <2>2, <2>3
<1>3. calls[c] \in Seq(CallRecord) /\ frames[c] \in Seq(Frame)
  BY DEF FlowInv, TypeOK
<1>4. ASSUME NEW s \in Sid, ~None(calls'[c], JoinCall(s))
      PROVE  Joins(c, s) \/ c \notin Parties(s)
  <2>1. CASE UNCHANGED calls
    BY <1>4, <2>1 DEF Joins
  <2>2. ASSUME NEW q, Ask(c, q), q.fn = "message" \/ Joins(c, q.sid) \/ c \notin Parties(q.sid)
        PROVE  Joins(c, s) \/ c \notin Parties(s)
    <3>1. q \in CallRecord /\ calls'[c] = Append(calls[c], q)
      BY <1>2, <2>2
    <3>2. q \notin JoinCall(s) => ~None(calls[c], JoinCall(s))
      BY <1>3, <1>4, <3>1, NoneAppend
    <3>3. q \in JoinCall(s) => q.fn # "message" /\ q.sid = s
      BY DEF JoinCall
    <3>4. QED BY <2>2, <3>2, <3>3 DEF Joins
  <2>3. QED BY <2>1, <2>2
<1>5. ASSUME NEW s \in Sid, ~None(frames'[c], JoinAnswer(s))
      PROVE  Joins(c, s)
  BY <1>1, <1>3, <1>5, NoneTail DEF Joins
<1>6. ASSUME NEW d \in Client, NEW s \in Sid
      PROVE  Joins(d, s)' => Joins(d, s) \/ d \notin Parties(s)
  <2>1. CASE d = c
    BY <1>1, <1>4, <1>5, <2>1 DEF Joins
  <2>2. CASE d # c
    BY <1>1, <2>2 DEF Joins
  <2>3. QED BY <2>1, <2>2
<1>7. \A s \in Sid : Parties(s)' = Parties(s)
  BY DEF Parties
<1>8. \A s \in Sid : Clients(s)' = Clients(s)
  BY ClientsSame
<1>9. QED BY <1>6, <1>7, <1>8 DEF FitInv, FitsGroup

\* b is on its way to no session that a is not on its way to.
Aside(a, b) == \A s : Heads(b, s) => Heads(a, s)

\* A state of an app with no more timers, on the same page or a later one.
LEMMA AsideFields ==
  ASSUME NEW a \in AppRecord, NEW b \in AppRecord, b.timers \subseteq a.timers,
         \/ b.wizard # "join" \/ b.step # 0
         \/ b.wizard = a.wizard /\ b.step = a.step /\ b.target = a.target
  PROVE  Aside(a, b)
BY DEF Aside, Heads

\* The page changes, a message is asked for, or a frame is read, and the client
\* is not on its way to another session.
LEMMA FitQuietStep ==
  ASSUME FlowInv, FlowInv', FitInv, NEW c \in Client,
         NEW b, Become(c, b) \/ (UNCHANGED app /\ b = app[c]), Aside(app[c], b),
         UNCHANGED <<kind, server, conn>>,
         UNCHANGED calls \/ \E q : Ask(c, q) /\ q.fn = "message",
         \/ UNCHANGED frames
         \/ frames[c] # <<>> /\ frames' = [frames EXCEPT ![c] = Tail(frames[c])]
  PROVE  FitInv'
<1>1. \A s \in Sid : Heads(b, s) => Joins(c, s) \/ c \notin Parties(s)
  BY DEF Aside, Joins
<1>2. UNCHANGED calls \/ \E q : Ask(c, q) /\ (q.fn = "message" \/ Joins(c, q.sid) \/ c \notin Parties(q.sid))
  OBVIOUS
<1>3. QED BY <1>1, <1>2, FitOwnStep

\* The answer to a call that is not the signup.
LEMMA JoinRead ==
  ASSUME FlowInv, OwnerInv, NEW c \in Client, NEW fn \in {"create", "join"},
         NEW methods, NEW ok, Answered(c, fn, methods, ok),
         "Session.signup" \notin methods, "Session.load" \notin methods
  PROVE  Answer(c) \in CallRecord /\ Joins(c, Answer(c).sid)
<1>1. /\ Answer(c) \in CallRecord /\ Answer(c).fn = fn /\ Answer(c).method \in methods
      /\ frames[c] # <<>>
  <2>1. fn \in {"create", "join", "load"}
    OBVIOUS
  <2>2. QED BY <2>1, AnswerKnown
<1>2. frames[c] \in Seq(Frame)
  BY DEF FlowInv, TypeOK
<1>3. Head(frames[c]) \in Frame /\ Head(frames[c]).type = "answer" /\ Head(frames[c]).call = Answer(c)
  BY <1>1, <1>2, TailElements DEF Answered, Answer
<1>4. Head(frames[c]) \in JoinAnswer(Answer(c).sid)
  BY <1>1, <1>3 DEF JoinAnswer
<1>5. ~None(frames[c], JoinAnswer(Answer(c).sid))
  BY <1>1, <1>2, <1>4, NoneTail
<1>6. QED BY <1>1, <1>5 DEF Joins

\* A call follows an answer.
LEMMA FitCallSteps ==
  ASSUME FlowInv, FlowInv', OwnerInv, FitInv, NEW c \in Client,
         CreateGroupSession(c) \/ JoinGroupSession(c) \/ SessionJoined(c)
  PROVE  FitInv'
<1>1. UNCHANGED <<kind, server, conn>>
  BY DEF CreateGroupSession, JoinGroupSession, SessionJoined, history
<1>2. PICK a \in AppRecord : a = app[c]
  BY OwnState DEF FlowInv
<1>3. PICK fn \in {"create", "join"}, m \in {"Group.create", "Session.create", "Group.join", "Session.join"} :
        Answered(c, fn, {"Group.create", "Session.create"}, TRUE) \/ Answered(c, fn, {m}, TRUE)
  BY DEF CreateGroupSession, JoinGroupSession, SessionJoined
<1>4. PICK p \in CallRecord : p = Answer(c) /\ Joins(c, p.sid)
  BY <1>3, JoinRead
<1>5. frames[c] # <<>> /\ frames' = [frames EXCEPT ![c] = Tail(frames[c])]
  BY <1>3 DEF Answered
<1>6. PICK m1 : Ask(c, [p EXCEPT !.method = m1])
  BY <1>4 DEF CreateGroupSession, JoinGroupSession, SessionJoined
<1>7. [p EXCEPT !.method = m1].sid = p.sid
  BY DEF CallRecord
<1>8. PICK q : q = [p EXCEPT !.method = m1] /\ Ask(c, q) /\ Joins(c, q.sid)
  BY <1>4, <1>6, <1>7
<1>9. PICK b \in AppRecord : b = SetGroup(a, p.sid) /\ Same(a, b)
  BY SetGroupType
<1>10. Aside(a, b) /\ Aside(a, a)
  BY <1>9 DEF Same, Aside, Heads
<1>11. PICK o : (Become(c, o) \/ (UNCHANGED app /\ o = app[c])) /\ Aside(a, o)
  <2>1. Become(c, b) \/ UNCHANGED app
    BY <1>2, <1>4, <1>9 DEF CreateGroupSession, JoinGroupSession, SessionJoined
  <2>2. QED BY <1>2, <1>10, <2>1
<1>12. \A s \in Sid : Heads(o, s) => Joins(c, s) \/ c \notin Parties(s)
  BY <1>2, <1>11 DEF Aside, Joins
<1>13. QED BY <1>1, <1>5, <1>8, <1>11, <1>12, FitOwnStep

\* The user asks for a new group, or the delay of a joining page is over.
LEMMA FitAskSteps ==
  ASSUME FlowInv, FlowInv', OwnerInv, FitInv, NEW c \in Client,
         SubmitParameters(c) \/ Timeout(c)
  PROVE  FitInv'
<1>1. UNCHANGED <<kind, server, conn, frames>>
  BY DEF SubmitParameters, Timeout, history
<1>2. PICK a \in AppRecord : a = app[c]
  BY OwnState DEF FlowInv
<1>3. CASE SubmitParameters(c)
  <2>1. PICK s \in Sid : s = Sessions + 1
    BY <1>3, SessionsCount, BoundsAssumption DEF SubmitParameters, Sid
  <2>2. c \notin Parties(s)
    <3>1. GroupFact(s) /\ ~(s <= Sessions)
      BY <2>1, SessionsCount DEF OwnerInv
    <3>2. server[s].signups = <<>>
      BY <3>1 DEF GroupFact
    <3>3. QED BY <3>2 DEF Parties, ToSet
  <2>3. PICK n \in CallRecord : n = Call("create", "Group.create", a, s) /\ n.sid = s
    BY CallType DEF Method
  <2>4. PICK x : Ask(c, [n EXCEPT !.params = x])
    BY <1>2, <1>3, <2>1, <2>3 DEF SubmitParameters
  <2>5. [n EXCEPT !.params = x].sid = s
    BY <2>3 DEF CallRecord
  <2>6. UNCHANGED app
    BY <1>3 DEF SubmitParameters
  <2>7. \A r \in Sid : Heads(a, r) => Joins(c, r)
    BY <1>2 DEF Joins
  <2>8. \E q : Ask(c, q) /\ (q.fn = "message" \/ Joins(c, q.sid) \/ c \notin Parties(q.sid))
    BY <2>2, <2>4, <2>5
  <2>9. QED BY <1>1, <1>2, <2>6, <2>7, <2>8, FitOwnStep
<1>4. CASE Timeout(c)
  <2>1. PICK t \in a.timers : /\ Become(c, [a EXCEPT !.timers = a.timers \ {t}])
                              /\ Ask(c, [Call("join", "Group.join", a, t.sid) EXCEPT !.visit = t.visit])
    BY <1>2, <1>4 DEF Timeout
  <2>2. t.sid \in Sid /\ Joins(c, t.sid)
    BY <1>2 DEF AppRecord, Visit, Joins, Heads
  <2>3. PICK n \in CallRecord : n = Call("join", "Group.join", a, t.sid) /\ n.sid = t.sid
    BY <2>2, CallType DEF Method
  <2>4. [n EXCEPT !.visit = t.visit].sid = t.sid
    BY <2>3 DEF CallRecord
  <2>5. \E q : Ask(c, q) /\ (q.fn = "message" \/ Joins(c, q.sid) \/ c \notin Parties(q.sid))
    BY <2>1, <2>2, <2>3, <2>4
  <2>6. PICK b \in AppRecord : b = [a EXCEPT !.timers = a.timers \ {t}]
    <3>1. a.timers \ {t} \in SUBSET Visit
      BY DEF AppRecord
    <3>2. QED BY <3>1, FieldTypes
  <2>7. Aside(a, b)
    BY <2>6 DEF Aside, Heads, AppRecord
  <2>8. \A r \in Sid : Heads(b, r) => Joins(c, r)
    BY <1>2, <2>7 DEF Aside, Joins
  <2>9. QED BY <1>1, <2>1, <2>5, <2>6, <2>8, FitOwnStep
<1>5. QED BY <1>3, <1>4


\* Wizards are opened, their pages passed, and left; users who are patient
\* follow the link of no group they are in.
LEMMA FitPageSteps ==
  ASSUME FlowInv, FlowInv', FitInv, Patient, kind = "keygen", NEW c \in Client,
         OpenCreate(c) \/ SetParameters(c) \/ Save(c) \/ Leave(c) \/ Connected(c) \/ FollowLink(c)
  PROVE  FitInv'
<1>1. PICK a \in AppRecord : a = app[c]
  BY OwnState DEF FlowInv
<1>2. UNCHANGED <<kind, server, conn, calls, frames>>
  BY DEF OpenCreate, SetParameters, Save, Leave, Connected, FollowLink, OpenJoin, OpenSignJoin, history
<1>3. PICK b : Become(c, b) /\ \A s \in Sid : Heads(b, s) => Joins(c, s) \/ c \notin Parties(s)
  <2>1. ASSUME NEW b, Become(c, b), Aside(a, b)
        PROVE  \E e : Become(c, e) /\ \A s \in Sid : Heads(e, s) => Joins(c, s) \/ c \notin Parties(s)
    BY <1>1, <2>1 DEF Aside, Joins
  <2>2. CASE OpenCreate(c)
    <3>1. 0 \in 0 .. MaxSessions
      BY BoundsAssumption
    <3>2. PICK o \in AppRecord : o = Opened(a, "create", 0) /\ o.wizard = "create" /\ o.timers = a.timers
      BY <3>1, OpenedType
    <3>3. Become(c, [o EXCEPT !.form = DefaultForm])
      BY <1>1, <2>2, <3>2 DEF OpenCreate
    <3>4. [o EXCEPT !.form = DefaultForm].wizard = "create" /\ [o EXCEPT !.form = DefaultForm].timers = a.timers
      BY <3>2 DEF AppRecord
    <3>5. Aside(a, [o EXCEPT !.form = DefaultForm])
      BY <3>4 DEF Aside, Heads
    <3>6. QED BY <2>1, <3>3, <3>5
  <2>3. CASE SetParameters(c)
    <3>1. PICK x : Become(c, [a EXCEPT !.form = x])
      BY <1>1, <2>3 DEF SetParameters
    <3>2. Aside(a, [a EXCEPT !.form = x])
      BY DEF Aside, Heads, AppRecord
    <3>3. QED BY <2>1, <3>1, <3>2
  <2>4. CASE Save(c) \/ Leave(c)
    <3>1. PICK o \in AppRecord : o = Unmount(a) /\ o.wizard = "none" /\ o.timers = a.timers
      BY UnmountType
    <3>2. Become(c, o)
      BY <1>1, <2>4, <3>1 DEF Save, Leave
    <3>3. QED BY <2>1, <3>1, <3>2, AsideFields
  <2>5. CASE Connected(c)
    <3>1. a.wizard = "join" /\ a.step = 0
      BY <1>1, <2>5 DEF Connected, At
    <3>2. PICK h \in AppRecord : /\ h = HandleNext(a) /\ h.step = 1 /\ h.target = a.target
                                 /\ h.timers = a.timers
      BY <3>1, HandleNextType
    <3>3. PICK t \in Visit : t = [sid |-> h.target, visit |-> h.visit] /\ t.sid = a.target
      <4>1. a.target \in Sid
        BY <3>1, <1>1, OwnState DEF FlowInv, Local, Page
      <4>2. h.visit \in Nat
        BY <3>2 DEF AppRecord
      <4>3. [sid |-> a.target, visit |-> h.visit] \in Visit
        BY <4>1, <4>2 DEF Visit
      <4>4. QED BY <3>2, <4>3
    <3>4. Become(c, [h EXCEPT !.timers = h.timers \cup {t}])
      BY <1>1, <2>5, <3>2, <3>3 DEF Connected, AppRecord
    <3>5. PICK b \in AppRecord : /\ b = [h EXCEPT !.timers = h.timers \cup {t}]
                                 /\ b.step = 1 /\ b.timers = a.timers \cup {t}
      <4>1. h.timers \cup {t} \in SUBSET Visit
        BY <3>2 DEF AppRecord
      <4>2. [h EXCEPT !.timers = h.timers \cup {t}] \in AppRecord
        BY <4>1, FieldTypes
      <4>3. QED BY <3>2, <4>2 DEF AppRecord
    <3>6. Aside(a, b)
      BY <3>1, <3>3, <3>5 DEF Aside, Heads
    <3>7. QED BY <2>1, <3>4, <3>5, <3>6
  <2>6. CASE FollowLink(c)
    <3>1. PICK s \in Sid : c \notin server[s].members /\ OpenJoin(c, s)
      BY <2>6 DEF FollowLink, OpenSignJoin, FlowInv, TypeOK
    <3>2. s \in 0 .. MaxSessions
      BY <3>1, BoundsAssumption DEF Sid
    <3>3. PICK o \in AppRecord : o = Opened(a, "join", s) /\ o.target = s /\ o.timers = a.timers
      BY <3>2, OpenedType
    <3>4. c \notin Parties(s)
      BY <3>1 DEF FitInv, FitsGroup
    <3>5. \A r \in Sid : Heads(o, r) => Joins(c, r) \/ c \notin Parties(r)
      BY <1>1, <3>3, <3>4 DEF Heads, Joins
    <3>6. Become(c, o)
      BY <1>1, <3>1, <3>3 DEF OpenJoin
    <3>7. QED BY <3>5, <3>6
  <2>7. QED BY <2>2, <2>3, <2>4, <2>5, <2>6
<1>4. QED BY <1>2, <1>3, FitOwnStep

\* A sink is made, a computation starts, and it ends.
LEMMA FitComputeSteps ==
  ASSUME FlowInv, FlowInv', OwnerInv, FitInv, kind = "keygen", NEW c \in Client,
         KeyInvite(c) \/ SignedUp(c) \/ SessionSignup(c) \/ KeyComputed(c)
  PROVE  FitInv'
<1>1. PICK a \in AppRecord : a = app[c] /\ Page(kind, a) /\ Computing(kind, a)
  BY OwnState DEF FlowInv, Local
<1>2. UNCHANGED <<kind, server, conn, calls>>
  BY DEF KeyInvite, SignedUp, SessionSignup, KeyComputed, history
<1>3. UNCHANGED frames \/ (frames[c] # <<>> /\ frames' = [frames EXCEPT ![c] = Tail(frames[c])])
  BY DEF KeyInvite, SignedUp, SessionSignup, KeyComputed, Answered
<1>4. ASSUME NEW b \in AppRecord, b.timers = a.timers, b.wizard = a.wizard, b.step = a.step,
             b.target = a.target
      PROVE  /\ Aside(a, b) /\ \A x : Aside(a, [b EXCEPT !.once = x])
             /\ b.step < 3 => /\ Aside(a, HandleNext(b))
                              /\ \A x : /\ Aside(a, [HandleNext(b) EXCEPT !.once = x])
                                        /\ Aside(a, [HandleNext(b) EXCEPT !.jobs = x])
  <2>1. Aside(a, b)
    BY <1>4 DEF Aside, Heads
  <2>2. \A x : Aside(a, [b EXCEPT !.once = x])
    BY <1>4 DEF Aside, Heads, AppRecord
  <2>3. ASSUME b.step < 3
        PROVE  /\ Aside(a, HandleNext(b))
               /\ \A x : /\ Aside(a, [HandleNext(b) EXCEPT !.once = x])
                         /\ Aside(a, [HandleNext(b) EXCEPT !.jobs = x])
    <3>1. PICK h \in AppRecord : h = HandleNext(b) /\ h.step = b.step + 1 /\ h.timers = a.timers
      BY <1>4, <2>3, HandleNextType
    <3>2. h.step # 0
      <4>1. b.step \in 0 .. 3
        BY DEF AppRecord
      <4>2. QED BY <3>1, <4>1
    <3>3. Aside(a, h)
      BY <3>1, <3>2 DEF Aside, Heads
    <3>4. \A x : Aside(a, [h EXCEPT !.once = x]) /\ Aside(a, [h EXCEPT !.jobs = x])
      BY <3>1, <3>2 DEF Aside, Heads, AppRecord
    <3>5. QED BY <3>1, <3>3, <3>4
  <2>4. QED BY <2>1, <2>2, <2>3
<1>5. \E b : Become(c, b) /\ Aside(a, b)
  <2>1. CASE KeyInvite(c) \/ SignedUp(c)
    <3>1. PICK fn \in {"create", "join", "load"}, m \in Method : Answered(c, fn, {m}, TRUE)
      BY <2>1 DEF KeyInvite, SignedUp, Method
    <3>2. PICK q \in CallRecord : q = Answer(c) /\ TalkOnPage(kind, a, q)
      BY <1>1, <3>1, AnswerKnown
    <3>3. PICK b \in AppRecord : b = Created(a, q) /\ b.timers = a.timers /\ b.wizard = a.wizard
                                 /\ b.step = a.step /\ b.target = a.target
      BY CreatedType
    <3>4. b.step < 3
      BY <3>2, <3>3 DEF TalkOnPage
    <3>5. PICK x : \/ Become(c, b) \/ Become(c, [b EXCEPT !.once = x])
                   \/ Become(c, [HandleNext(b) EXCEPT !.once = x])
      BY <1>1, <2>1, <3>2, <3>3 DEF KeyInvite, SignedUp
    <3>6. QED BY <1>4, <3>3, <3>4, <3>5
  <2>2. CASE SessionSignup(c)
    <3>1. PICK b \in AppRecord : b = [a EXCEPT !.once = {}]
      BY FieldTypes
    <3>2. b.timers = a.timers /\ b.wizard = a.wizard /\ b.step = a.step /\ b.target = a.target
      BY <3>1 DEF AppRecord
    <3>3. Become(c, b) \/ (Become(c, Compute(b)) /\ a.once # {})
      BY <1>1, <2>2, <3>1 DEF SessionSignup
    <3>4. Become(c, b) \/ (b.step < 3 /\ \E x : Become(c, [HandleNext(b) EXCEPT !.jobs = x]))
      <4>1. a.once # {} => b.step < 3
        BY <1>1, <3>2 DEF Page
      <4>2. \E x : Compute(b) = [HandleNext(b) EXCEPT !.jobs = x]
        BY DEF Compute
      <4>3. QED BY <3>3, <4>1, <4>2
    <3>5. QED BY <1>4, <3>2, <3>4
  <2>3. CASE KeyComputed(c)
    <3> DEFINE e(j) == [a EXCEPT !.jobs = a.jobs \ {j}, !.inbox[j.via] = {}]
    <3>1. PICK j \in a.jobs : Become(c, IF Mounted(e(j), j) THEN HandleNext(e(j)) ELSE e(j))
      BY <1>1, <2>3 DEF KeyComputed
    <3>2. PICK b \in AppRecord :
            /\ b = e(j) /\ b.timers = a.timers /\ b.wizard = a.wizard /\ b.step = a.step
            /\ b.target = a.target /\ b.visit = a.visit
      <4>1. [a.inbox EXCEPT ![j.via] = {}] \in [Sid -> SUBSET Client] /\ a.jobs \ {j} \in SUBSET Job
        BY DEF AppRecord
      <4>2. PICK x \in [Sid -> SUBSET Client], y \in SUBSET Job :
              x = [a.inbox EXCEPT ![j.via] = {}] /\ y = a.jobs \ {j}
        BY <4>1
      <4>3. PICK b \in AppRecord : b = [a EXCEPT !.jobs = y, !.inbox = x]
        BY DEF AppRecord
      <4>4. b = e(j)
        BY <4>2, <4>3
      <4>5. /\ b.timers = a.timers /\ b.wizard = a.wizard /\ b.step = a.step
            /\ b.target = a.target /\ b.visit = a.visit
        BY <4>3 DEF AppRecord
      <4>6. QED BY <4>4, <4>5
    <3>3. Mounted(b, j) => b.step < 3
      BY <1>1, <3>2 DEF Mounted, Computing
    <3> HIDE DEF e
    <3>4. QED BY <1>4, <3>1, <3>2, <3>3
  <2>4. QED BY <2>1, <2>2, <2>3
<1>6. QED BY <1>1, <1>2, <1>3, <1>5, FitQuietStep


\* Messages are sent and heard, a call fails, a link is copied.
LEMMA FitMessageSteps ==
  ASSUME FlowInv, FlowInv', FitInv, NEW c \in Client,
         SendMessage(c) \/ MessageSent(c) \/ ReceiveMessage(c) \/ CallFailed(c) \/ CopyLink(c)
  PROVE  FitInv'
<1>1. PICK a \in AppRecord : a = app[c]
  BY OwnState DEF FlowInv
<1>2. UNCHANGED <<kind, server, conn>>
  BY DEF SendMessage, MessageSent, ReceiveMessage, CallFailed, CopyLink, history
<1>3. UNCHANGED frames \/ (frames[c] # <<>> /\ frames' = [frames EXCEPT ![c] = Tail(frames[c])])
  BY DEF SendMessage, MessageSent, ReceiveMessage, CallFailed, CopyLink, Answered
<1>4. UNCHANGED calls \/ \E q : Ask(c, q) /\ q.fn = "message"
  <2>1. CASE SendMessage(c)
    <3>1. PICK j \in a.jobs :
            Ask(c, [Call("message", "Session.message", a, j.via) EXCEPT !.visit = j.visit])
      BY <1>1, <2>1 DEF SendMessage
    <3>2. [Call("message", "Session.message", a, j.via) EXCEPT !.visit = j.visit].fn = "message"
      BY DEF Call
    <3>3. QED BY <3>1, <3>2
  <2>2. CASE ~SendMessage(c)
    BY <2>2 DEF MessageSent, ReceiveMessage, CallFailed, CopyLink
  <2>3. QED BY <2>1, <2>2
<1>5. Aside(a, a) /\ \A x : Aside(a, [a EXCEPT !.jobs = x]) /\ Aside(a, [a EXCEPT !.inbox = x])
  BY DEF Aside, Heads, AppRecord
<1>6. PICK b : (Become(c, b) \/ (UNCHANGED app /\ b = app[c])) /\ Aside(a, b)
  <2>1. CASE SendMessage(c)
    <3>1. PICK j \in a.jobs : Become(c, [a EXCEPT !.jobs = (a.jobs \ {j}) \cup {[j EXCEPT !.at = "sent"]}])
      BY <1>1, <2>1 DEF SendMessage
    <3>2. QED BY <1>5, <3>1
  <2>2. CASE MessageSent(c)
    <3>1. PICK x : Become(c, [a EXCEPT !.jobs = x])
      BY <1>1, <2>2 DEF MessageSent
    <3>2. QED BY <1>5, <3>1
  <2>3. CASE ReceiveMessage(c)
    <3>1. PICK x : Become(c, a) \/ Become(c, [a EXCEPT !.inbox = x])
      BY <1>1, <2>3 DEF ReceiveMessage
    <3>2. QED BY <1>5, <3>1
  <2>4. CASE CallFailed(c) \/ CopyLink(c)
    BY <1>1, <1>5, <2>4 DEF CallFailed, CopyLink
  <2>5. QED BY <2>1, <2>2, <2>3, <2>4
<1>7. QED BY <1>1, <1>2, <1>3, <1>4, <1>6, FitQuietStep

\* An event reaches a client.
LEMMA FitNotifyStep ==
  ASSUME FlowInv, FlowInv', FitInv, NEW c \in Client, Notify(c)
  PROVE  FitInv'
<1>1. UNCHANGED <<kind, server, calls, app>>
  BY DEF Notify, history
<1>2. PICK r \in Client, t \in Task, to \in SUBSET Client :
        Notified(c, r, t, to) /\ t.frame \in Frame /\ t.frame.type # "answer"
  BY NotifyNotified
<1>3. ASSUME NEW d \in Client, NEW s \in Sid
      PROVE  Joins(d, s)' => Joins(d, s)
  <2>1. frames'[d] = frames[d] \/ frames'[d] = Append(frames[d], t.frame)
    <3>1. CASE d = r
      BY <1>2, <3>1 DEF Notified
    <3>2. CASE d # r
      BY <1>2, <3>2 DEF Notified
    <3>3. QED BY <3>1, <3>2
  <2>2. frames[d] \in Seq(Frame) /\ t.frame \notin JoinAnswer(s)
    BY <1>2 DEF FlowInv, TypeOK, JoinAnswer
  <2>3. None(frames[d], JoinAnswer(s)) => None(frames'[d], JoinAnswer(s))
    BY <1>2, <2>1, <2>2, NoneAppend
  <2>4. QED BY <1>1, <2>3 DEF Joins
<1>4. \A s \in Sid : Parties(s)' = Parties(s)
  BY <1>1 DEF Parties
<1>5. \A d \in Client : conn'[d] = "closed" <=> conn[d] = "closed"
  BY <1>2 DEF Notified, OnlyFlags
<1>6. \A s \in Sid : Clients(s)' = Clients(s)
  BY <1>1, <1>5, ClientsSame
<1>7. QED BY <1>1, <1>3, <1>4, <1>6 DEF FitInv, FitsGroup

\* The server handles a request of c: nobody is on its way to another session,
\* and c is not on its way any more if it signed up.
LEMMA ServedJoins ==
  ASSUME FlowInv, FlowInv', NEW c \in Client, NEW q \in CallRecord, NEW n \in Nat,
         NEW ok \in BOOLEAN, Served(c, q, n, ok), NEW s \in Sid
  PROVE  LET signs == s = q.sid /\ ok /\ q.method \in {"Session.signup", "Session.load"}
         IN  /\ \A d \in Client : Joins(d, s)' => Joins(d, s)
             /\ signs => Joins(c, s) /\ ~Joins(c, s)'
<1>1. /\ calls[c] # <<>> /\ q = Head(calls[c]) /\ RequestFact(c, q)
      /\ calls'[c] = Tail(calls[c]) /\ \A d \in Client \ {c} : calls'[d] = calls[d]
      /\ frames'[c] = frames[c] \/ frames'[c] = Append(frames[c], Reply(q, n, ok))
      /\ \A d \in Client \ {c} : frames'[d] = frames[d]
      /\ UNCHANGED app
  BY DEF Served
<1>2. calls[c] \in Seq(CallRecord) /\ frames[c] \in Seq(Frame) /\ calls'[c] \in Seq(CallRecord)
      /\ frames'[c] \in Seq(Frame)
  BY DEF FlowInv, TypeOK
<1>3. PICK f : f = Reply(q, n, ok)
  OBVIOUS
<1>4. f \in Frame /\ f.type = "answer" /\ f.call.fn = q.fn /\ f.call.sid = q.sid /\ f.call.method = q.method
  BY <1>3 DEF Reply, Frame, CallRecord
<1>5. ASSUME NEW d \in Client PROVE Joins(d, s)' => Joins(d, s)
  <2>1. CASE d = c
    <3>1. None(calls[c], JoinCall(s)) => None(calls'[c], JoinCall(s))
      BY <1>1, <1>2, NoneTail
    <3>2. q \in JoinCall(s) => ~None(calls[c], JoinCall(s))
      BY <1>1, <1>2, NoneTail
    <3>3. f \in JoinAnswer(s) => q \in JoinCall(s)
      BY <1>4 DEF JoinAnswer, JoinCall
    <3>4. f \notin JoinAnswer(s) => (None(frames[c], JoinAnswer(s)) => None(frames'[c], JoinAnswer(s)))
      BY <1>1, <1>2, <1>3, <1>4, NoneAppend
    <3>5. QED BY <1>1, <2>1, <3>1, <3>2, <3>3, <3>4 DEF Joins
  <2>2. CASE d # c
    BY <1>1, <2>2 DEF Joins
  <2>3. QED BY <2>1, <2>2
<1>6. ASSUME s = q.sid, q.method \in {"Session.signup", "Session.load"}
      PROVE  Joins(c, s) /\ ~Joins(c, s)'
  <2>1. q.fn # "message"
    BY <1>1, <1>6 DEF RequestFact, OfGuest
  <2>2. q \in PageCall /\ q \in JoinCall(s) /\ f \in PageAnswer /\ f \notin JoinAnswer(s)
    BY <1>4, <1>6, <2>1 DEF PageCall, JoinCall, PageAnswer, JoinAnswer
  <2>3. ~None(calls[c], JoinCall(s)) /\ ~None(calls[c], PageCall)
    BY <1>1, <1>2, <2>2, NoneTail
  <2>4. Awaited(kind, app[c], calls[c], frames[c])
    BY OwnState DEF FlowInv, Local
  <2>5. /\ None(frames[c], PageAnswer) /\ app[c].timers = {}
        /\ None(calls'[c], PageCall) /\ TalkOnPage(kind, app[c], q)
    <3>1. AtMostOne(calls[c], PageCall)
      BY <2>4 DEF Awaited, Alone
    <3>2. None(calls'[c], PageCall)
      BY <1>1, <1>2, <2>2, <3>1, NoneTail
    <3>3. q = calls[c][1] /\ 1 \in 1 .. Len(calls[c])
      BY <1>1, <1>2, TailElements
    <3>4. TalkOnPage(kind, app[c], q)
      BY <2>2, <2>4, <3>3 DEF Awaited
    <3>5. QED BY <2>3, <2>4, <3>2, <3>4 DEF Awaited, Alone
  <2>6. ~Heads(app[c], s)
    BY <2>5 DEF TalkOnPage, Heads
  <2>7. None(calls'[c], JoinCall(s))
    BY <2>5 DEF None, JoinCall, PageCall
  <2>8. None(frames'[c], JoinAnswer(s))
    <3>1. None(frames[c], JoinAnswer(s))
      BY <2>5 DEF None, JoinAnswer, PageAnswer
    <3>2. QED BY <1>1, <1>2, <1>3, <1>4, <2>2, <3>1, NoneAppend
  <2>9. QED BY <1>1, <2>3, <2>6, <2>7, <2>8 DEF Joins
<1>7. QED BY <1>5, <1>6

\* The server handles a request.
LEMMA FitServeStep ==
  ASSUME FlowInv, FlowInv', OwnerInv, FitInv, NEW c \in Client, Serve(c)
  PROVE  FitInv'
<1>1. PICK q \in CallRecord, n \in Nat, ok \in BOOLEAN : Served(c, q, n, ok)
  BY ServeServed
<1>2. /\ RequestFact(c, q) /\ ok = Accepts(c, q) /\ q.sid \in Sid /\ UNCHANGED kind
      /\ \A s \in Sid : s # q.sid \/ ~ok => server'[s] = server[s]
  BY <1>1 DEF Served, CallRecord
<1>h. ASSUME ok
      PROVE
        /\ q.method = "Group.create" =>
              /\ server'[q.sid].members = {c} /\ server'[q.sid].params = q.params
              /\ server'[q.sid].signups = server[q.sid].signups
        /\ q.method = "Group.join" =>
              /\ server'[q.sid].members = server[q.sid].members \cup {c}
              /\ server'[q.sid].params = server[q.sid].params
              /\ server'[q.sid].signups = server[q.sid].signups
        /\ q.method \in {"Session.signup", "Session.load"} =>
              /\ server'[q.sid].members = server[q.sid].members
              /\ server'[q.sid].params = server[q.sid].params
              /\ server'[q.sid].signups = Append(server[q.sid].signups, [number |-> n, client |-> c])
        /\ q.method \notin {"Group.create", "Group.join", "Session.signup", "Session.load"} =>
              /\ server'[q.sid].members = server[q.sid].members
              /\ server'[q.sid].params = server[q.sid].params
              /\ server'[q.sid].signups = server[q.sid].signups
  BY <1>1, <1>h, ServedHandled
<1>3. ASSUME NEW s \in Sid, FitsGroup(s) PROVE FitsGroup(s)'
  <2> DEFINE signs == s = q.sid /\ ok /\ q.method \in {"Session.signup", "Session.load"}
  <2>1. \A d \in Client : Joins(d, s)' => Joins(d, s)
    BY <1>1, ServedJoins
  <2>2. /\ \A d \in Client : Joins(d, s) => d \notin Parties(s)
        /\ \A i, j \in 1 .. Len(server[s].signups) :
              server[s].signups[i].client = server[s].signups[j].client => i = j
        /\ Parties(s) \subseteq server[s].members
        /\ Clients(s) = server[s].members
              => Cardinality(server[s].members) <= server[s].params.parties
    BY <1>3 DEF FitsGroup
  <2>3. /\ server[s].signups \in Seq([number : Nat, client : Client])
        /\ server[s].params \in Form /\ server[s].members \in SUBSET Client
    BY DEF FlowInv, TypeOK, Group
  <2>c. \A d \in Client : conn'[d] = "closed" <=> conn[d] = "closed"
    BY <1>1 DEF Served, OnlyFlags
  <2>4. CASE server'[s].signups = server[s].signups
    <3>1. Parties(s)' = Parties(s)
      BY <2>4 DEF Parties
    <3>2. /\ Parties(s) \subseteq server'[s].members
          /\ Clients(s)' = server'[s].members
                => Cardinality(server'[s].members) <= server'[s].params.parties
      <4>1. CASE server'[s].members = server[s].members /\ server'[s].params = server[s].params
        <5>1. Clients(s)' = Clients(s)
          BY <2>c, <4>1, ClientsSame
        <5>2. QED BY <2>2, <4>1, <5>1
      <4>2. CASE s = q.sid /\ ok /\ q.method = "Group.create"
        <5>1. server'[s].members = {c} /\ server'[s].params = q.params
          BY <1>h, <4>2
        <5>2. server[s].signups = <<>>
          BY <1>2, <4>2 DEF RequestFact, OfGuest, JoinMethods
        <5>3. Parties(s) = {}
          BY <5>2 DEF Parties, ToSet
        <5>4. ValidParameters(q.params)
          BY <1>2, <4>2 DEF Accepts
        <5>5. q.params.parties \in Nat /\ q.params.threshold \in 1 .. q.params.parties - 1
          BY <5>4 DEF ValidParameters, CallRecord, Form
        <5>6. Cardinality({c}) = 1
          BY FS_Singleton
        <5>7. QED BY <5>1, <5>3, <5>5, <5>6
      <4>3. CASE s = q.sid /\ ok /\ q.method = "Group.join"
        <5>1. server'[s].members = server[s].members \cup {c} /\ server'[s].params = server[s].params
          BY <1>h, <4>3
        <5>m. SUFFICES ASSUME Clients(s)' = server'[s].members
                       PROVE  /\ Parties(s) \subseteq server'[s].members
                              /\ Cardinality(server'[s].members) <= server'[s].params.parties
          BY <2>2, <5>1
        <5>c. Clients(s) = server[s].members
          <6>1. \A d \in server[s].members : d \in Client /\ conn'[d] # "closed"
            BY <2>3, <5>1, <5>m DEF Clients
          <6>2. QED BY <2>c, <6>1 DEF Clients
        <5>2. Cardinality(server[s].members) # server[s].params.parties
          BY <1>2, <4>3, <5>c DEF Accepts, Full
        <5>3. IsFiniteSet(server[s].members)
          BY <2>3, ClientAssumption, FS_Subset
        <5>4. Cardinality(server[s].members) \in Nat
              /\ Cardinality(server[s].members \cup {c}) <= Cardinality(server[s].members) + 1
          <6>1. Cardinality(server[s].members) \in Nat
            BY <5>3, FS_CardinalityType
          <6>2. CASE c \in server[s].members
            <7>1. server[s].members \cup {c} = server[s].members
              BY <6>2
            <7>2. PICK m \in Nat : m = Cardinality(server[s].members)
              BY <6>1
            <7>3. Cardinality(server[s].members \cup {c}) = m
              BY <7>1, <7>2, Zenon
            <7>4. m <= m + 1
              OBVIOUS
            <7>5. QED BY <6>1, <7>2, <7>3, <7>4
          <6>3. CASE c \notin server[s].members
            <7>1. PICK S : S = server[s].members
              OBVIOUS
            <7>2. IsFiniteSet(S) /\ c \notin S
              BY <5>3, <6>3, <7>1
            <7>3. Cardinality(S \cup {c}) = Cardinality(S) + 1
              BY <7>2, FS_AddElement
            <7>4. QED BY <6>1, <7>1, <7>3
          <6>4. QED BY <6>1, <6>2, <6>3
        <5>5. IsFiniteSet(server[s].members \cup {c})
          BY <5>3, FS_AddElement
        <5>6. Cardinality(server[s].members \cup {c}) \in Nat
          BY <5>5, FS_CardinalityType
        <5>7. server[s].params.parties \in Nat
          BY <2>3 DEF Form
        <5>8. Cardinality(server[s].members) <= server[s].params.parties
          BY <2>2, <5>c
        <5>9. QED BY <2>2, <5>1, <5>2, <5>4, <5>6, <5>7, <5>8
      <4>4. \/ server'[s].members = server[s].members /\ server'[s].params = server[s].params
            \/ s = q.sid /\ ok /\ q.method \in {"Group.create", "Group.join"}
        BY <1>2, <1>h
      <4>5. QED BY <4>1, <4>2, <4>3, <4>4
    <3>3. QED BY <2>1, <2>2, <2>4, <3>1, <3>2 DEF FitsGroup
  <2>5. CASE signs
    <3>1. Joins(c, s) /\ ~Joins(c, s)'
      BY <1>1, <2>5, ServedJoins
    <3>2. PICK z \in Seq([number : Nat, client : Client]) : z = server[s].signups
      BY <2>3
    <3>3. PICK e \in [number : Nat, client : Client] : e = [number |-> n, client |-> c] /\ e.client = c
      <4>1. [number |-> n, client |-> c] \in [number : Nat, client : Client]
        OBVIOUS
      <4>2. QED BY <4>1
    <3>4. /\ server'[s].signups = Append(z, e) /\ server'[s].members = server[s].members
          /\ server'[s].params = server[s].params
      BY <1>h, <2>5, <3>2, <3>3
    <3>5. c \in server[s].members
      BY <1>2, <2>5 DEF Accepts
    <3>6. c \notin Parties(s) /\ \A i \in 1 .. Len(z) : z[i].client \in Parties(s)
      BY <2>2, <3>1, <3>2 DEF Parties, ToSet
    <3>7. \A i \in 1 .. Len(z) : z[i].client # c
      BY <3>6
    <3>8. \A i, j \in 1 .. Len(Append(z, e)) : Append(z, e)[i].client = Append(z, e)[j].client => i = j
      <4>1. \A i, j \in 1 .. Len(z) : z[i].client = z[j].client => i = j
        BY <2>2, <3>2
      <4>2. /\ Len(z) \in Nat /\ Len(Append(z, e)) = Len(z) + 1 /\ Append(z, e)[Len(z) + 1] = e
            /\ \A i \in 1 .. Len(z) : Append(z, e)[i] = z[i]
        OBVIOUS
      <4>3. \A i \in 1 .. Len(Append(z, e)) : i \in 1 .. Len(z) \/ i = Len(z) + 1
        BY <4>2
      <4>4. QED BY <3>3, <3>7, <4>1, <4>2, <4>3
    <3>9. Parties(s)' = Parties(s) \cup {c}
      <4>1. PICK S : S = [number : Nat, client : Client]
        OBVIOUS
      <4>2. z \in Seq(S) /\ e \in S
        BY <4>1
      <4>3. ToSet(Append(z, e)) = ToSet(z) \cup {e}
        BY <4>2, ToSetAppend
      <4>4. QED BY <3>2, <3>3, <3>4, <4>3 DEF Parties
    <3>10. \A d \in Client : Joins(d, s)' => d \notin Parties(s)'
      BY <2>1, <2>2, <3>1, <3>9
    <3>11. Clients(s)' = Clients(s)
      BY <2>c, <3>4, ClientsSame
    <3>12. QED BY <2>2, <3>4, <3>5, <3>8, <3>9, <3>10, <3>11 DEF FitsGroup
  <2>6. server'[s].signups = server[s].signups \/ signs
    BY <1>2, <1>h
  <2>7. QED BY <2>4, <2>5, <2>6
<1>4. QED BY <1>2, <1>3 DEF FitInv


\* Nobody is on its way to a session before there is one.
LEMMA InitFit == Init => FitInv
<1> SUFFICES ASSUME Init, NEW s \in Sid PROVE FitsGroup(s)
  BY DEF FitInv
<1>1. \A c \in Client : /\ app[c] = NewApp /\ frames[c] = <<>> /\ calls[c] = <<>>
                        /\ Len(frames[c]) = 0 /\ Len(calls[c]) = 0
  BY DEF Init
<1>2. \A c \in Client : ~Joins(c, s)
  BY <1>1 DEF Joins, Heads, None, NewApp
<1>3. server[s] = NoSession
  BY DEF Init
<1>4. server[s].signups = <<>> /\ server[s].members = {} /\ server[s].params.parties \in Nat
  BY <1>3, KeyAssumption DEF NoSession
<1>5. Parties(s) = {}
  BY <1>4 DEF Parties, ToSet
<1>6. Cardinality(server[s].members) <= server[s].params.parties
  BY <1>4, FS_EmptySet
<1>7. \A i, j \in 1 .. Len(server[s].signups) :
        server[s].signups[i].client = server[s].signups[j].client => i = j
  BY <1>4
<1>8. QED BY <1>2, <1>5, <1>6, <1>7 DEF FitsGroup

\* The client of a connection is gone, and leaves its group.
LEMMA FitDisconnectedStep ==
  ASSUME FlowInv, FitInv, NEW c \in Client, ClientDisconnected(c)
  PROVE  FitInv'
<1>1. UNCHANGED <<kind, server, calls, frames, app>>
  BY DEF ClientDisconnected
<1>2. \A d \in Client : conn'[d] # "closed" => conn[d] # "closed"
  BY DEF ClientDisconnected, FlowInv, TypeOK
<1>3. \A d \in Client, s \in Sid : Joins(d, s)' <=> Joins(d, s)
  BY <1>1 DEF Joins
<1>4. \A s \in Sid : Parties(s)' = Parties(s)
  BY <1>1 DEF Parties
<1>5. ASSUME NEW s \in Sid, Clients(s)' = server'[s].members
      PROVE  Clients(s) = server[s].members
  <2>1. \A d \in server[s].members : d \in Client /\ conn'[d] # "closed"
    BY <1>1, <1>5 DEF Clients, FlowInv, TypeOK, Group
  <2>2. QED BY <1>2, <2>1 DEF Clients
<1>6. QED BY <1>1, <1>3, <1>4, <1>5 DEF FitInv, FitsGroup

\* Every step keeps it.
LEMMA NextFit ==
  ASSUME Patient, FlowInv, FlowInv', OwnerInv, FitInv, [Next]_vars
  PROVE  FitInv'
<1>1. kind' = kind
  <2>1. CASE UNCHANGED vars
    BY <2>1 DEF vars
  <2>2. ASSUME NEW c \in Client, System(c) PROVE kind' = kind
    BY <2>2 DEF System, Serve, Notify, ClientDisconnected, Timeout, SendMessage, MessageSent, ReceiveMessage,
       CreateGroupSession, JoinGroupSession, CallFailed, KeygenStep, KeyInvite, SessionJoined,
       SignedUp, SessionSignup, KeyComputed, SignStep, OnMessage, OnTransaction, SignInvite,
       SessionFetched, Loaded, SessionLoad, SignDone
  <2>3. ASSUME NEW c \in Client, User(c) PROVE kind' = kind
    BY <2>3 DEF User, FollowLink, OpenJoin, OpenSignJoin, Connected, CopyLink, Leave, KeygenUser,
       OpenCreate, SetParameters, SubmitParameters, Save, SignUser, OpenSign, BlockInfo,
       SubmitMessage, SubmitTransaction, CreateFor, ApproveOwn, InviteNext, Approve, SaveProof,
       SendTransaction, FinishTransaction, Finish
  <2>4. QED BY <2>1, <2>2, <2>3 DEF Next
<1>2. CASE kind # "keygen"
  BY <1>1, <1>2 DEF FitInv
<1>3. CASE kind = "keygen" /\ UNCHANGED vars
  <2>1. UNCHANGED <<kind, server, calls, frames, app, conn>>
    BY <1>3 DEF vars
  <2>2. \A d \in Client, s \in Sid : Joins(d, s)' <=> Joins(d, s)
    BY <2>1 DEF Joins
  <2>3. \A s \in Sid : Parties(s)' = Parties(s) /\ Clients(s)' = Clients(s)
    BY <2>1 DEF Parties, Clients
  <2>4. QED BY <2>1, <2>2, <2>3 DEF FitInv, FitsGroup
<1>4. ASSUME NEW c \in Client, System(c), kind = "keygen"
      PROVE  FitInv'
  <2>1. ~SignStep(c)
    BY <1>4 DEF SignStep, OnMessage, OnTransaction, SessionFetched, Loaded, SessionLoad, SignDone
  <2>2. QED
    BY <1>4, <2>1, FitServeStep, FitNotifyStep, FitDisconnectedStep, FitAskSteps, FitMessageSteps, FitCallSteps,
       FitComputeSteps DEF System, KeygenStep
<1>5. ASSUME NEW c \in Client, User(c), kind = "keygen"
      PROVE  FitInv'
  <2>1. ~SignUser(c)
    BY <1>5 DEF SignUser, OpenSign, BlockInfo, SubmitMessage, SubmitTransaction, ApproveOwn,
       InviteNext, Approve, SaveProof, SendTransaction, FinishTransaction, Finish
  <2>2. QED BY <1>5, <2>1, FitPageSteps, FitMessageSteps, FitAskSteps DEF User, KeygenUser
<1>6. QED BY <1>2, <1>3, <1>4, <1>5 DEF Next

\* While users are patient, and follow no link of a group they are in: the
\* session of a new key has never more signups than the key has parties, as
\* long as no member's connection is gone.  Everybody signs up once, and the
\* group is never more than full.  When client_disconnected has removed a
\* member, its place is free and its signup stays: the session can be overfull.
THEOREM KeyFits ==
  ASSUME Patient
  PROVE  Spec => [](kind = "keygen" =>
                      \A s \in Sid : Clients(s) = server[s].members => ~Overfull(s))
<1>1. Init => FlowInv /\ OwnerInv /\ FitInv
  BY InitFlow, InitOwner, InitFit
<1>2. FlowInv /\ OwnerInv /\ FitInv /\ [Next]_vars => FlowInv' /\ OwnerInv' /\ FitInv'
  BY NextFlow, NextOwner, NextFit
<1>3. FlowInv /\ FitInv => (kind = "keygen" =>
                              \A s \in Sid : Clients(s) = server[s].members => ~Overfull(s))
  BY FitsNotOverfull
<1>4. QED BY <1>1, <1>2, <1>3, PTL DEF Spec

-----------------------------------------------------------------------------
\* What a computation and the last page can rely on

\* A computation starts in a complete session, with its own number there, and
\* every other party that is still at it hears it or will.
THEOREM ComputeReadyHolds ==
  ASSUME Patient
  PROVE  Spec => []ComputeReady
<1>1. ASSUME FlowInv, ReadyInv,
             kind = "keygen" => \A s \in Sid : Clients(s) = server[s].members => ~Overfull(s)
      PROVE  ComputeReady
  <2>1. SUFFICES ASSUME NEW c \in Client, NEW j \in app[c].jobs
                 PROVE  /\ j.via = j.sid
                        /\ Ready(j.sid) \/ TooMany(j.sid)
                        /\ [number |-> j.number, client |-> c] \in ToSet(server[j.sid].signups)
                        /\ \A p \in Parties(j.sid) :
                              \/ Cut(p) \/ p \in left \/ <<p, j.sid>> \in done
                              \/ app[p].sinks # <<>> /\ Head(app[p].sinks) = j.sid
                              \/ \E i \in 1 .. Len(frames[p]) :
                                    frames[p][i].type = "answer" /\ frames[p][i].call.sid = j.sid
    BY DEF ComputeReady
  <2>2. PICK s \in Sid : s = j.sid
    BY <1>1 DEF FlowInv, TypeOK, AppRecord, Job
  <2>3. j.via = s /\ Has(c, s, j.number)
    BY <1>1, <2>2 DEF ReadyInv, Knows
  <2>4. Complete(s)
    BY <1>1, <2>2 DEF ReadyInv, OnceInv, Started
  <2>5. Ready(s) \/ TooMany(s)
    <3>1. server[s].signups \in Seq([number : Nat, client : Client])
          /\ server[s].params \in Form /\ kind \in Kinds
      BY <1>1 DEF FlowInv, TypeOK, Group
    <3>2. Len(server[s].signups) \in Nat /\ Needed(s) \in Nat
      <4>1. server[s].params.parties \in Nat /\ server[s].params.threshold \in Nat
        BY <3>1 DEF Form
      <4>2. QED BY <3>1, <4>1 DEF Needed
    <3>3. Ready(s) \/ Overfull(s)
      BY <2>4, <3>2 DEF Complete, Ready, Overfull
    <3>4. QED BY <1>1, <3>3 DEF TooMany
  <2>6. ASSUME NEW p \in Parties(s)
        PROVE  \/ Cut(p) \/ p \in left \/ <<p, s>> \in done
               \/ app[p].sinks # <<>> /\ Head(app[p].sinks) = s
               \/ \E i \in 1 .. Len(frames[p]) :
                     frames[p][i].type = "answer" /\ frames[p][i].call.sid = s
    <3>1. Cut(p) \/ Hears(p, s)
      <4>1. p \in Client
        BY <1>1, SignupTypes DEF FlowInv
      <4>2. QED BY <1>1, <4>1 DEF ReadyInv, Due
    <3>2. <<s>> # <<>> /\ Head(<<s>>) = s
      OBVIOUS
    <3>3. QED BY <3>1, <3>2 DEF Hears, SignedUpFrame
  <2>7. QED BY <2>2, <2>3, <2>5, <2>6 DEF Has
<1>2. QED BY <1>1, ReadyInvHolds, KeyFits, PTL

\* The proof that the last page shows is of the value and the session of this
\* wizard.
THEOREM ProofOfSessionHolds ==
  ASSUME Patient
  PROVE  Spec => []ProofOfSession
<1>1. ASSUME FlowInv, ReadyInv PROVE ProofOfSession
  <2>1. SUFFICES ASSUME kind # "keygen", NEW c \in Client, app[c].step = 3
                 PROVE  app[c].proof = app[c].session /\ app[c].candidate = app[c].session
    BY DEF ProofOfSession
  <2>2. PICK a \in AppRecord : a = app[c] /\ Page(kind, a) /\ KnowsValue(c, a)
    BY <1>1, <2>1, OwnState DEF FlowInv, Local, ReadyInv, Knows
  <2>3. a.wizard # "none" /\ a.step = 3
    BY <2>1, <2>2 DEF Page
  <2>4. a.proof = a.session /\ a.candidate = a.session
    BY <2>2, <2>3 DEF KnowsValue
  <2>5. QED BY <2>2, <2>4
<1>2. QED BY <1>1, ReadyInvHolds, PTL

-----------------------------------------------------------------------------
\* Where the round message of a party is

\* d has not sent its message of s yet.
Sends(d, s) == \E j \in app[d].jobs : j.sid = s /\ j.at = "send"
Unsent(d, s) == Sends(d, s) \/ ~Started(d, s)

\* d's request to send it
MessageCall(s) == {q \in CallRecord : q.method = "Session.message" /\ q.sid = s}
Asked(d, s) == ~None(calls[d], MessageCall(s))

\* d's connection task has it,
Carries(d, s) == task[d].frame.type = "message" /\ task[d].frame.sid = s

\* and has still to send it to c.
Told(d, c, s) == Carries(d, s) /\ (task[d].fresh \/ c \in task[d].to)

\* It is on its way to c,
MessageFrame(d, s) == {f \in Frame : f.type = "message" /\ f.sid = s /\ f.from = d}
Coming(d, c, s) == ~None(frames[c], MessageFrame(d, s))

\* or c's sink has taken it.
Taken(d, c, s) == d \in app[c].inbox[s]

\* c gets it no more.
Gone(d, c, s) == ~Unsent(d, s) /\ ~Asked(d, s) /\ ~Told(d, c, s) /\ ~Coming(d, c, s)

\* A party's message is sent once,
SentOnce(d, s) ==
  /\ Unsent(d, s) => ~Asked(d, s)
  /\ Unsent(d, s) \/ Asked(d, s) => ~Carries(d, s)
  /\ AtMostOne(calls[d], MessageCall(s))

\* and is in one place.
OnePlace(d, c, s) ==
  /\ Unsent(d, s) \/ Asked(d, s) \/ Told(d, c, s) => ~Coming(d, c, s)
  /\ Taken(d, c, s) => Gone(d, c, s)
  /\ AtMostOne(frames[c], MessageFrame(d, s))

\* It goes from one party to the other ones.
FromParty(d, s) ==
  /\ <<d, s>> \in done => d \in Parties(s)
  /\ Carries(d, s) => /\ task[d].frame.from = d /\ task[d].sid = s
                      /\ task[d].to \subseteq Parties(s) \ {d}
ToParty(d, c, s) == Coming(d, c, s) \/ Taken(d, c, s) => c \in Parties(s) /\ c # d

\* A computation ends when c has taken all of them.
AllTaken(d, c, s) ==
  <<c, s>> \in done /\ d \in Parties(s) /\ d # c => Overfull(s) \/ Gone(d, c, s)

\* The answer to a signup comes before the messages of the others.
Ordered(c, s) ==
  \A i, k \in 1 .. Len(frames[c]) :
    frames[c][i].type = "message" /\ frames[c][i].sid = s /\ SignedUpFrame(frames[c][k], s)
      => k < i \/ Overfull(s)

NothingLost == \A m \in deaf \cup surplus : m[2] \in Sid /\ Overfull(m[2])

MessageInv ==
  /\ \A d \in Client, s \in Sid : SentOnce(d, s) /\ FromParty(d, s) /\ Ordered(d, s)
  /\ \A c, d \in Client, s \in Sid : OnePlace(d, c, s) /\ ToParty(d, c, s) /\ AllTaken(d, c, s)
  /\ NothingLost

-----------------------------------------------------------------------------
\* A step that sends no message and takes none

\* What one client does by itself, with its computations and inboxes as they
\* were, or a new computation, or an inbox emptied
Quiet(c) ==
  /\ UNCHANGED <<kind, server, task, done, deaf, surplus>>
  /\ \A d \in Client \ {c} : app'[d] = app[d] /\ calls'[d] = calls[d] /\ frames'[d] = frames[d]
  /\ \/ calls'[c] = calls[c]
     \/ \E q \in CallRecord : q.method # "Session.message" /\ calls'[c] = Append(calls[c], q)
  /\ frames'[c] = frames[c] \/ (frames[c] # <<>> /\ frames'[c] = Tail(frames[c]))
  /\ \A j \in app[c].jobs : \E i \in app'[c].jobs : i.sid = j.sid
  /\ \A j \in app'[c].jobs :
        \/ \E i \in app[c].jobs : i.sid = j.sid /\ (j.at = "send" => i.at = "send")
        \/ ~Started(c, j.sid)
  /\ \A s \in Sid : app'[c].inbox[s] \subseteq app[c].inbox[s]

\* No message is anywhere it was not before.
LEMMA QuietPlaces ==
  ASSUME FlowInv, NEW c \in Client, Quiet(c), NEW d \in Client, NEW s \in Sid
  PROVE  /\ Unsent(d, s)' => Unsent(d, s)
         /\ Asked(d, s)' => Asked(d, s)
         /\ AtMostOne(calls[d], MessageCall(s)) => AtMostOne(calls'[d], MessageCall(s))
         /\ Taken(d, c, s)' => Taken(d, c, s)
<1>1. CASE d # c
  BY <1>1 DEF Quiet, Unsent, Sends, Started, Asked, Taken
<1>2. CASE d = c
  <2>1. Sends(c, s)' => Unsent(c, s)
    BY DEF Quiet, Sends, Unsent
  <2>2. Started(c, s) => Started(c, s)'
    BY DEF Quiet, Started
  <2>3. calls[c] \in Seq(CallRecord)
    BY DEF FlowInv, TypeOK
  <2>4. ASSUME NEW q \in CallRecord, q.method # "Session.message", calls'[c] = Append(calls[c], q)
        PROVE  /\ None(calls[c], MessageCall(s)) => None(calls'[c], MessageCall(s))
               /\ AtMostOne(calls[c], MessageCall(s)) => AtMostOne(calls'[c], MessageCall(s))
    <3>1. q \notin MessageCall(s)
      BY <2>4 DEF MessageCall
    <3>2. QED BY <2>3, <2>4, <3>1, NoneAppend
  <2>5. /\ Asked(c, s)' => Asked(c, s)
        /\ AtMostOne(calls[c], MessageCall(s)) => AtMostOne(calls'[c], MessageCall(s))
    BY <2>4 DEF Quiet, Asked
  <2>6. Taken(c, c, s)' => Taken(c, c, s)
    BY DEF Quiet, Taken
  <2>7. QED BY <1>2, <2>1, <2>2, <2>5, <2>6 DEF Unsent
<1>3. QED BY <1>1, <1>2

\* What is known of the messages stays known.
LEMMA MessageQuietStep ==
  ASSUME FlowInv, FlowInv', MessageInv, NEW c \in Client, Quiet(c)
  PROVE  MessageInv'
<1>1. /\ UNCHANGED <<kind, server, task, done, deaf, surplus>>
      /\ \A d \in Client \ {c} : app'[d] = app[d] /\ calls'[d] = calls[d] /\ frames'[d] = frames[d]
      /\ frames'[c] = frames[c] \/ (frames[c] # <<>> /\ frames'[c] = Tail(frames[c]))
  BY DEF Quiet
<1>2. ASSUME NEW d \in Client, NEW s \in Sid
      PROVE  /\ Unsent(d, s)' => Unsent(d, s)
             /\ Asked(d, s)' => Asked(d, s)
             /\ AtMostOne(calls[d], MessageCall(s)) => AtMostOne(calls'[d], MessageCall(s))
  BY QuietPlaces
<1>3. ASSUME NEW d \in Client, NEW s \in Sid
      PROVE  /\ Carries(d, s)' <=> Carries(d, s)
             /\ \A e \in Client : Told(d, e, s)' <=> Told(d, e, s)
             /\ Parties(s)' = Parties(s)
             /\ Overfull(s)' <=> Overfull(s)
  BY <1>1 DEF Carries, Told, Parties, Overfull, Needed
<1>4. \A e \in Client : frames[e] \in Seq(Frame)
  BY DEF FlowInv, TypeOK
<1>5. ASSUME NEW d \in Client, NEW e \in Client, NEW s \in Sid
      PROVE  /\ Coming(d, e, s)' => Coming(d, e, s)
             /\ AtMostOne(frames[e], MessageFrame(d, s)) => AtMostOne(frames'[e], MessageFrame(d, s))
             /\ Taken(d, e, s)' => Taken(d, e, s)
  <2>1. CASE e = c
    <3>1. Taken(d, c, s)' => Taken(d, c, s)
      BY QuietPlaces
    <3>2. frames[c] \in Seq(Frame)
      BY <1>4
    <3>3. frames[c] # <<>> =>
            /\ None(frames[c], MessageFrame(d, s)) => None(Tail(frames[c]), MessageFrame(d, s))
            /\ AtMostOne(frames[c], MessageFrame(d, s)) => AtMostOne(Tail(frames[c]), MessageFrame(d, s))
      BY <3>2, NoneTail
    <3>4. QED BY <1>1, <2>1, <3>1, <3>3 DEF Coming
  <2>2. CASE e # c
    BY <1>1, <2>2 DEF Coming, Taken
  <2>3. QED BY <2>1, <2>2
<1>6. ASSUME NEW d \in Client, NEW s \in Sid
      PROVE  SentOnce(d, s)' /\ FromParty(d, s)' /\ Ordered(d, s)'
  <2>1. SentOnce(d, s)
    BY DEF MessageInv
  <2>2. SentOnce(d, s)'
    BY <1>2, <1>3, <2>1 DEF SentOnce
  <2>3. FromParty(d, s)
    BY DEF MessageInv
  <2>4. FromParty(d, s)'
    BY <1>1, <1>3, <2>3 DEF FromParty
  <2>5. Ordered(d, s)
    BY DEF MessageInv
  <2>6. ASSUME frames'[d] = frames[d] PROVE Ordered(d, s)'
    <3>1. Overfull(s)' <=> Overfull(s)
      BY <1>3
    <3>2. QED BY <2>5, <2>6, <3>1 DEF Ordered, SignedUpFrame
  <2>7. ASSUME frames[d] # <<>>, frames'[d] = Tail(frames[d]) PROVE Ordered(d, s)'
    <3>1. \A i \in 1 .. Len(frames'[d]) : i + 1 \in 1 .. Len(frames[d]) /\ frames'[d][i] = frames[d][i + 1]
      BY <1>4, <2>7, TailElements
    <3>2. ASSUME NEW i \in 1 .. Len(frames'[d]), NEW k \in 1 .. Len(frames'[d]),
                 frames'[d][i].type = "message", frames'[d][i].sid = s, SignedUpFrame(frames'[d][k], s)
          PROVE  k < i \/ Overfull(s)'
      <4>1. k + 1 < i + 1 \/ Overfull(s)
        BY <2>5, <3>1, <3>2 DEF Ordered
      <4>2. QED BY <1>3, <4>1
    <3>3. QED BY <3>2 DEF Ordered, SignedUpFrame
  <2>8. frames'[d] = frames[d] \/ (frames[d] # <<>> /\ frames'[d] = Tail(frames[d]))
    BY <1>1
  <2>9. QED BY <2>2, <2>4, <2>6, <2>7, <2>8
<1>7. ASSUME NEW e \in Client, NEW d \in Client, NEW s \in Sid
      PROVE  OnePlace(d, e, s)' /\ ToParty(d, e, s)' /\ AllTaken(d, e, s)'
  <2>1. OnePlace(d, e, s) /\ ToParty(d, e, s) /\ AllTaken(d, e, s)
    BY DEF MessageInv
  <2>2. Gone(d, e, s) => Gone(d, e, s)'
    BY <1>2, <1>3, <1>5 DEF Gone
  <2>3. OnePlace(d, e, s)'
    BY <1>2, <1>3, <1>5, <2>1, <2>2 DEF OnePlace
  <2>4. ToParty(d, e, s)'
    BY <1>3, <1>5, <2>1 DEF ToParty
  <2>5. AllTaken(d, e, s)'
    BY <1>1, <1>3, <2>1, <2>2 DEF AllTaken
  <2>6. QED BY <2>3, <2>4, <2>5
<1>8. NothingLost'
  <2>1. \A s \in Sid : Overfull(s)' <=> Overfull(s)
    BY <1>3
  <2>2. QED BY <1>1, <2>1 DEF MessageInv, NothingLost
<1>9. QED BY <1>6, <1>7, <1>8 DEF MessageInv

\* The computations are as they were, and so are the inboxes but those emptied.
Still(a, b) == b.jobs = a.jobs /\ \A s \in Sid : b.inbox[s] \subseteq a.inbox[s]

\* A client goes on with its computations as they were.
LEMMA StillQuiet ==
  ASSUME FlowInv, FlowInv', NEW c \in Client, NEW b, Become(c, b) \/ (UNCHANGED app /\ b = app[c]),
         Still(app[c], b),
         UNCHANGED <<kind, server, task, done, deaf, surplus>>,
         UNCHANGED calls \/ \E q : Ask(c, q) /\ q.method # "Session.message",
         \/ UNCHANGED frames
         \/ frames[c] # <<>> /\ frames' = [frames EXCEPT ![c] = Tail(frames[c])]
  PROVE  Quiet(c)
<1>1. /\ \A d \in Client \ {c} : app'[d] = app[d] /\ calls'[d] = calls[d] /\ frames'[d] = frames[d]
      /\ app'[c] = b
      /\ frames'[c] = frames[c] \/ (frames[c] # <<>> /\ frames'[c] = Tail(frames[c]))
  BY DEF Become, Ask, FlowInv, TypeOK
<1>2. ASSUME NEW q, Ask(c, q) PROVE q \in CallRecord /\ calls'[c] = Append(calls[c], q)
  <2>1. calls'[c] = Append(calls[c], q) /\ calls[c] \in Seq(CallRecord) /\ calls'[c] \in Seq(CallRecord)
    BY <1>2 DEF Ask, FlowInv, TypeOK
  <2>2. Len(calls[c]) + 1 \in 1 .. Len(calls'[c]) /\ calls'[c][Len(calls[c]) + 1] = q
    BY <2>1
  <2>3. calls'[c][Len(calls[c]) + 1] \in CallRecord
    BY <2>1, <2>2
  <2>4. QED BY <2>1, <2>2, <2>3
<1>3. calls'[c] = calls[c] \/ \E q \in CallRecord : q.method # "Session.message" /\ calls'[c] = Append(calls[c], q)
  BY <1>2
<1>4. b.jobs = app[c].jobs /\ \A s \in Sid : b.inbox[s] \subseteq app[c].inbox[s]
  BY DEF Still
<1>5. QED BY <1>1, <1>3, <1>4 DEF Quiet

\* What the pages do to the state of a dapp.
LEMMA StillSame ==
  ASSUME NEW a \in AppRecord
  PROVE  /\ Still(a, a) /\ Still(a, Render(a)) /\ Still(a, HandleNext(a)) /\ Still(a, Unmount(a))
         /\ Still(a, ShowCompute(a))
         /\ \A x : /\ Still(a, [a EXCEPT !.form = x]) /\ Still(a, [a EXCEPT !.timers = x])
                   /\ Still(a, [a EXCEPT !.ready = x]) /\ Still(a, SetGroup(a, x))
         /\ \A x, y : Still(a, SetSession(a, x, y)) /\ Still(a, Opened(a, x, y))
<1>1. Still(a, Render(a)) /\ Still(a, HandleNext(a))
  BY DEF Still, HandleNext, Render, AppRecord
<1>2. Still(a, Unmount(a))
  BY DEF Still, Unmount, ListenerCleanup, AppRecord
<1>3. Still(a, HandleNext(HandleNext(a)))
  BY DEF Still, HandleNext, Render, AppRecord
<1>4. \A x : Still(a, [a EXCEPT !.form = x]) /\ Still(a, [a EXCEPT !.timers = x]) /\ Still(a, [a EXCEPT !.ready = x])
  BY DEF Still, AppRecord
<1>5. \A x : Still(a, SetGroup(a, x))
  BY DEF Still, SetGroup, Render, AppRecord
<1>6. \A x, y : Still(a, SetSession(a, x, y)) /\ Still(a, Opened(a, x, y))
  BY DEF Still, SetSession, Opened, Render, AppRecord
<1>7. QED BY <1>1, <1>2, <1>3, <1>4, <1>5, <1>6 DEF ShowCompute, Still

\* A step that changes no inbox follows another one.
LEMMA StillMore ==
  ASSUME NEW a, NEW b, Still(a, b), NEW d, Still(b, d)
  PROVE  Still(a, d)
BY DEF Still

\* A transport takes its sink's inbox anew.
LEMMA StillCreated ==
  ASSUME NEW a \in AppRecord, NEW q \in CallRecord
  PROVE  /\ Still(a, Created(a, q)) /\ Still(a, Render([Created(a, q) EXCEPT !.candidate = q.sid]))
         /\ \A x : Still(a, [Created(a, q) EXCEPT !.once = x])
<1> DEFINE d == Created(a, q)
<1>1. d \in AppRecord /\ d.inbox = [a.inbox EXCEPT ![q.sid] = {}] /\ d.jobs = a.jobs
  BY CreatedType
<1> HIDE DEF d
<1>2. a.inbox \in [Sid -> SUBSET Client]
  BY DEF AppRecord
<1>3. Still(a, d)
  BY <1>1, <1>2 DEF Still
<1>4. \A x : Still(d, [d EXCEPT !.once = x])
  BY <1>1 DEF Still, AppRecord
<1>5. Still(d, Render([d EXCEPT !.candidate = q.sid]))
  BY <1>1 DEF Still, Render, AppRecord
<1>6. QED BY <1>3, <1>4, <1>5, StillMore DEF d

\* What a page reads in a frame, if it is the answer to its call, is no request
\* of a computation.
LEMMA MessageUserSteps ==
  ASSUME FlowInv, FlowInv', MessageInv, NEW c \in Client,
         \/ BlockInfo(c) \/ ApproveOwn(c) \/ SendTransaction(c) \/ SetParameters(c)
         \/ SubmitParameters(c) \/ SubmitMessage(c) \/ SubmitTransaction(c) \/ Approve(c)
         \/ CopyLink(c) \/ Timeout(c)
  PROVE  MessageInv'
<1>1. PICK a \in AppRecord : a = app[c]
  BY OwnState DEF FlowInv
<1>2. UNCHANGED <<kind, server, task, frames, done, deaf, surplus>>
  BY DEF BlockInfo, ApproveOwn, SendTransaction, SetParameters, SubmitParameters, SubmitMessage,
         SubmitTransaction, CreateFor, Approve, CopyLink, Timeout, history
<1>3. PICK b : (Become(c, b) \/ (UNCHANGED app /\ b = a)) /\ Still(a, b)
  <2>1. CASE BlockInfo(c) \/ ApproveOwn(c) \/ SendTransaction(c)
    BY <1>1, <2>1, StillSame DEF BlockInfo, ApproveOwn, SendTransaction
  <2>2. CASE SetParameters(c)
    BY <1>1, <2>2, StillSame DEF SetParameters
  <2>3. CASE Timeout(c)
    BY <1>1, <2>3, StillSame DEF Timeout
  <2>4. CASE \/ SubmitParameters(c) \/ SubmitMessage(c) \/ SubmitTransaction(c) \/ Approve(c)
             \/ CopyLink(c)
    BY <1>1, <2>4, StillSame DEF SubmitParameters, SubmitMessage, SubmitTransaction, CreateFor, Approve, CopyLink
  <2>5. QED BY <2>1, <2>2, <2>3, <2>4
<1>4. UNCHANGED calls \/ \E q : Ask(c, q) /\ q.method # "Session.message"
  <2>1. CASE BlockInfo(c) \/ ApproveOwn(c) \/ SendTransaction(c) \/ SetParameters(c) \/ CopyLink(c)
    BY <2>1 DEF BlockInfo, ApproveOwn, SendTransaction, SetParameters, CopyLink
  <2>3. CASE SubmitParameters(c)
    <3>1. PICK x : Ask(c, [Call("create", "Group.create", a, Sessions + 1) EXCEPT !.params = x])
      BY <1>1, <2>3 DEF SubmitParameters
    <3>2. [Call("create", "Group.create", a, Sessions + 1) EXCEPT !.params = x].method = "Group.create"
      BY DEF Call
    <3>3. QED BY <3>1, <3>2
  <2>4. CASE SubmitMessage(c) \/ SubmitTransaction(c)
    <3>1. PICK n : Ask(c, [Call("create", "Group.create", a, Sessions + 1)
                             EXCEPT !.params = Key, !.number = n])
      BY <1>1, <2>4 DEF SubmitMessage, SubmitTransaction, CreateFor
    <3>2. [Call("create", "Group.create", a, Sessions + 1)
             EXCEPT !.params = Key, !.number = n].method = "Group.create"
      BY DEF Call
    <3>3. QED BY <3>1, <3>2
  <2>5. CASE Approve(c)
    <3>1. PICK n : Ask(c, [Call("load", "Session.load", a, a.target) EXCEPT !.number = n])
      BY <1>1, <2>5 DEF Approve
    <3>2. [Call("load", "Session.load", a, a.target) EXCEPT !.number = n].method = "Session.load"
      BY DEF Call
    <3>3. QED BY <3>1, <3>2
  <2>6. CASE Timeout(c)
    <3>1. PICK t : Ask(c, [Call("join", "Group.join", a, t.sid) EXCEPT !.visit = t.visit])
      BY <1>1, <2>6 DEF Timeout
    <3>2. [Call("join", "Group.join", a, t.sid) EXCEPT !.visit = t.visit].method = "Group.join"
      BY DEF Call
    <3>3. QED BY <3>1, <3>2
  <2>7. QED BY <2>1, <2>3, <2>4, <2>5, <2>6
<1>5. Quiet(c)
  BY <1>1, <1>2, <1>3, <1>4, StillQuiet
<1>6. QED BY <1>5, MessageQuietStep

\* An answer is read by its page.
LEMMA MessageAnswerStep ==
  ASSUME FlowInv, FlowInv', OwnerInv, MessageInv, NEW c \in Client,
         NEW fn \in {"create", "join", "load"}, NEW methods, NEW ok, Answered(c, fn, methods, ok),
         NEW b, Become(c, b) \/ (UNCHANGED app /\ b = app[c]), Still(app[c], b),
         UNCHANGED <<kind, server, task, done, deaf, surplus>>,
         \/ UNCHANGED calls
         \/ \E m \in Method \ {"Session.message"} : Ask(c, [Answer(c) EXCEPT !.method = m])
  PROVE  MessageInv'
<1>1. Answer(c) \in CallRecord /\ frames[c] # <<>> /\ frames' = [frames EXCEPT ![c] = Tail(frames[c])]
  BY AnswerKnown
<1>2. ASSUME NEW m \in Method \ {"Session.message"}, Ask(c, [Answer(c) EXCEPT !.method = m])
      PROVE  \E q : Ask(c, q) /\ q.method # "Session.message"
  <2>1. [Answer(c) EXCEPT !.method = m].method = m
    BY <1>1 DEF CallRecord
  <2>2. QED BY <1>2, <2>1
<1>3. Quiet(c)
  BY <1>1, <1>2, StillQuiet
<1>4. QED BY <1>3, MessageQuietStep

\* createGroupSession and joinGroupSession go on, or end in the catch.
LEMMA MessageCallSteps ==
  ASSUME FlowInv, FlowInv', OwnerInv, MessageInv, NEW c \in Client,
         \/ CallFailed(c) \/ CreateGroupSession(c) \/ JoinGroupSession(c) \/ SessionJoined(c)
         \/ SessionFetched(c)
  PROVE  MessageInv'
<1>1. PICK a \in AppRecord : a = app[c]
  BY OwnState DEF FlowInv
<1>2. UNCHANGED <<kind, server, task, done, deaf, surplus>>
  BY DEF CallFailed, CreateGroupSession, JoinGroupSession, SessionJoined, SessionFetched, history
<1>3. Still(a, a)
  BY StillSame
<1>4. CASE CallFailed(c)
  BY <1>1, <1>2, <1>3, <1>4, MessageAnswerStep DEF CallFailed
<1>5. CASE JoinGroupSession(c)
  <2>1. Answered(c, "join", {"Group.join"}, TRUE) /\ UNCHANGED app
        /\ Ask(c, [Answer(c) EXCEPT !.method = "Session.join"])
    BY <1>5 DEF JoinGroupSession
  <2>2. "Session.join" \in Method \ {"Session.message"}
    BY DEF Method
  <2>3. QED BY <1>1, <1>2, <1>3, <2>1, <2>2, MessageAnswerStep
<1>6. CASE CreateGroupSession(c)
  <2>1. Answered(c, "create", {"Group.create", "Session.create"}, TRUE)
    BY <1>6 DEF CreateGroupSession
  <2>2. Still(a, SetGroup(a, Answer(c).sid))
    BY StillSame
  <2>3. {"Session.create", "Session.signup", "Session.load"} \subseteq Method \ {"Session.message"}
    BY DEF Method
  <2>4. \E m \in Method \ {"Session.message"} : Ask(c, [Answer(c) EXCEPT !.method = m])
    BY <1>6, <2>3 DEF CreateGroupSession
  <2>5. Become(c, SetGroup(a, Answer(c).sid)) \/ UNCHANGED app
    BY <1>1, <1>6 DEF CreateGroupSession
  <2>6. QED BY <1>1, <1>2, <1>3, <2>1, <2>2, <2>4, <2>5, MessageAnswerStep
<1>7. CASE SessionJoined(c)
  <2>1. Answered(c, "join", {"Session.join"}, TRUE) /\ Become(c, SetGroup(a, Answer(c).sid))
        /\ Ask(c, [Answer(c) EXCEPT !.method = "Session.signup"])
    BY <1>1, <1>7 DEF SessionJoined
  <2>2. "Session.signup" \in Method \ {"Session.message"}
    BY DEF Method
  <2>3. Still(a, SetGroup(a, Answer(c).sid))
    BY StillSame
  <2>4. QED BY <1>1, <1>2, <2>1, <2>2, <2>3, MessageAnswerStep
<1>8. CASE SessionFetched(c)
  <2>1. Answered(c, "join", {"Session.join"}, TRUE)
    BY <1>8 DEF SessionFetched
  <2>2. Answer(c) \in CallRecord
    BY <2>1, AnswerKnown
  <2>3. SetGroup(a, Answer(c).sid) \in AppRecord /\ Still(a, SetGroup(a, Answer(c).sid))
    BY <2>2, SetGroupType, StillSame
  <2>4. PICK b \in AppRecord : b = SetSession(SetGroup(a, Answer(c).sid), Answer(c).sid, 0)
    BY <2>2, <2>3, SetSessionType DEF CallRecord
  <2>5. Still(a, b)
    BY <2>3, <2>4, StillSame, StillMore
  <2>6. Still(a, [b EXCEPT !.ready = TRUE])
    BY <2>5, StillSame, StillMore
  <2>7. UNCHANGED calls /\ (Become(c, [b EXCEPT !.ready = TRUE]) \/ Become(c, b))
    BY <1>1, <1>8, <2>4 DEF SessionFetched
  <2>8. QED BY <1>1, <1>2, <2>1, <2>5, <2>6, <2>7, MessageAnswerStep
<1>9. QED BY <1>4, <1>5, <1>6, <1>7, <1>8

\* A sink is made when the answer to a signup is read.
LEMMA MessageSignupSteps ==
  ASSUME FlowInv, FlowInv', OwnerInv, MessageInv, NEW c \in Client,
         KeyInvite(c) \/ SignedUp(c) \/ OnMessage(c) \/ OnTransaction(c) \/ Loaded(c)
  PROVE  MessageInv'
<1>1. PICK a \in AppRecord : a = app[c]
  BY OwnState DEF FlowInv
<1>2. UNCHANGED <<kind, server, task, calls, done, deaf, surplus>>
  BY DEF KeyInvite, SignedUp, OnMessage, OnTransaction, SignInvite, Loaded, history
<1>3. PICK fn \in {"create", "join", "load"}, m \in Method : Answered(c, fn, {m}, TRUE)
  BY DEF KeyInvite, SignedUp, OnMessage, OnTransaction, SignInvite, Loaded, Method
<1>4. PICK q \in CallRecord : q = Answer(c) /\ TalkOnPage(kind, a, q)
  BY <1>1, <1>3, AnswerKnown
<1>5. PICK b \in AppRecord : b = Created(a, q) /\ Still(a, b) /\ b.step = a.step
  BY CreatedType, StillCreated
<1>6. b.step < 3
  BY <1>4, <1>5 DEF TalkOnPage
<1>7. PICK d \in AppRecord : d = HandleNext(b) /\ Still(a, d)
  BY <1>5, <1>6, HandleNextType, StillSame, StillMore
<1>8. PICK e \in AppRecord : e = Render([b EXCEPT !.candidate = q.sid]) /\ Still(a, e)
  BY <1>4, <1>5, CandidateType, StillCreated DEF CallRecord
<1>9. Still(a, HandleNext(e)) /\ Still(a, ShowCompute(e))
  BY <1>8, StillSame, StillMore
<1>10. \A x : Still(a, [b EXCEPT !.once = x]) /\ Still(a, [d EXCEPT !.once = x])
  BY <1>5, <1>7 DEF Still, AppRecord
<1>11. \E o : Become(c, o) /\ Still(a, o)
  <2>1. CASE KeyInvite(c)
    BY <1>1, <1>4, <1>5, <1>7, <1>10, <2>1 DEF KeyInvite
  <2>2. CASE SignedUp(c)
    BY <1>1, <1>4, <1>5, <1>10, <2>2 DEF SignedUp
  <2>3. CASE OnMessage(c) \/ OnTransaction(c)
    BY <1>1, <1>4, <1>5, <1>8, <1>9, <2>3 DEF OnMessage, OnTransaction, SignInvite
  <2>4. CASE Loaded(c)
    BY <1>1, <1>4, <1>5, <1>8, <1>9, <2>4 DEF Loaded
  <2>5. QED BY <2>1, <2>2, <2>3, <2>4
<1>12. QED BY <1>1, <1>2, <1>3, <1>11, MessageAnswerStep


\* Wizards are opened, their pages passed, and left.
LEMMA MessagePageSteps ==
  ASSUME FlowInv, FlowInv', MessageInv, NEW c \in Client,
         \/ Connected(c) \/ InviteNext(c) \/ OpenCreate(c) \/ OpenSign(c) \/ FollowLink(c)
         \/ Save(c) \/ SaveProof(c) \/ FinishTransaction(c) \/ Finish(c) \/ Leave(c)
  PROVE  MessageInv'
<1>1. PICK a \in AppRecord : a = app[c] /\ Page(kind, a)
  BY OwnState DEF FlowInv, Local
<1>2. UNCHANGED <<kind, server, task, calls, frames, done, deaf, surplus>>
  BY DEF Connected, InviteNext, OpenCreate, OpenSign, FollowLink, OpenJoin, OpenSignJoin, Save,
         SaveProof, FinishTransaction, Finish, Leave, history
<1>3. \E o : Become(c, o) /\ Still(a, o)
  <2>1. CASE Connected(c)
    <3>1. a.step = 0
      BY <1>1, <2>1 DEF Connected, At
    <3>2. PICK b \in AppRecord : b = HandleNext(a) /\ Still(a, b)
      BY <3>1, HandleNextType, StillSame
    <3>3. \A x : Still(a, [b EXCEPT !.timers = x])
      BY <3>2, StillSame, StillMore
    <3>4. QED BY <1>1, <2>1, <3>2, <3>3 DEF Connected
  <2>2. CASE InviteNext(c)
    BY <1>1, <2>2, StillSame DEF InviteNext
  <2>3. CASE OpenCreate(c) \/ OpenSign(c) \/ FollowLink(c)
    <3>2. ASSUME NEW w \in {"create", "join"}, NEW s \in 0 .. MaxSessions
          PROVE  /\ Still(a, Opened(a, w, s)) /\ Still(a, ClearSign(Opened(a, w, s)))
                 /\ Still(a, [Opened(a, w, s) EXCEPT !.form = DefaultForm])
      <4>1. PICK b \in AppRecord : b = Opened(a, w, s) /\ Still(a, b)
        BY OpenedType, StillSame
      <4>2. ClearSign(b).jobs = b.jobs /\ ClearSign(b).inbox = b.inbox
        BY ClearSignType
      <4>3. Still(b, ClearSign(b))
        BY <4>2 DEF Still
      <4>4. Still(b, [b EXCEPT !.form = DefaultForm])
        BY StillSame
      <4>5. QED BY <4>1, <4>3, <4>4, StillMore
    <3>3. 0 \in 0 .. MaxSessions /\ \A s \in Sid : s \in 0 .. MaxSessions
      BY BoundsAssumption DEF Sid
    <3>4. CASE OpenCreate(c)
      BY <1>1, <3>2, <3>3, <3>4 DEF OpenCreate
    <3>5. CASE OpenSign(c)
      BY <1>1, <3>2, <3>3, <3>5 DEF OpenSign
    <3>6. CASE FollowLink(c)
      <4>1. PICK s \in Sid : OpenJoin(c, s) \/ OpenSignJoin(c, s)
        BY <3>6 DEF FollowLink, FlowInv, TypeOK
      <4>2. QED BY <1>1, <3>2, <3>3, <4>1 DEF OpenJoin, OpenSignJoin
    <3>7. QED BY <2>3, <3>4, <3>5, <3>6
  <2>4. CASE Save(c) \/ SaveProof(c) \/ FinishTransaction(c) \/ Finish(c) \/ Leave(c)
    BY <1>1, <2>4, StillSame DEF Save, SaveProof, FinishTransaction, Finish, Leave
  <2>5. QED BY <2>1, <2>2, <2>3, <2>4
<1>4. Quiet(c)
  BY <1>1, <1>2, <1>3, StillQuiet
<1>5. QED BY <1>4, MessageQuietStep

\* The ready event starts a computation of its session, or nothing.
LEMMA MessageReadySteps ==
  ASSUME FlowInv, FlowInv', OwnerInv, ReadyInv, MessageInv, NEW c \in Client,
         SessionSignup(c) \/ SessionLoad(c)
  PROVE  MessageInv'
<1>1. PICK a \in AppRecord : a = app[c] /\ Page(kind, a) /\ Knows(c, a) /\ AppFact(c, a)
  BY OwnState DEF FlowInv, Local, ReadyInv, OwnerInv
<1>2. PICK s \in Sid : s = Head(frames[c]).sid /\ ~Started(c, s)
  BY ReadyRead DEF SessionSignup, SessionLoad
<1>3. /\ UNCHANGED <<kind, server, task, calls, done, deaf, surplus>>
      /\ frames[c] # <<>> /\ frames' = [frames EXCEPT ![c] = Tail(frames[c])]
  BY DEF SessionSignup, SessionLoad, history
<1>4. PICK o : /\ Become(c, o) /\ o.inbox = a.inbox /\ a.jobs \subseteq o.jobs
               /\ \A j \in o.jobs : j \in a.jobs \/ j.sid = s
  <2>1. CASE SessionSignup(c)
    <3>1. PICK b \in AppRecord : b = [a EXCEPT !.once = {}]
      BY FieldTypes
    <3>2. /\ b.inbox = a.inbox /\ b.jobs = a.jobs /\ b.session = a.session /\ b.step = a.step
          /\ b.wizard = a.wizard /\ b.visit = a.visit
      BY <3>1 DEF AppRecord
    <3>3. Become(c, b) \/ (Become(c, Compute(b)) /\ \E h \in a.once : h.sid = s)
      BY <1>1, <1>2, <2>1, <3>1 DEF SessionSignup
    <3>4. CASE Become(c, b)
      BY <3>2, <3>4
    <3>5. CASE Become(c, Compute(b)) /\ \E h \in a.once : h.sid = s
      <4>1. a.step = 1
        BY <1>1, <3>5 DEF Page
      <4>2. a.session = s
        BY <1>1, <3>5 DEF AppFact
      <4>3. PICK d \in AppRecord : d = HandleNext(b) /\ d.inbox = b.inbox /\ d.jobs = b.jobs
        BY <3>2, <4>1, HandleNextType
      <4>4. PICK j : /\ Compute(b) = [d EXCEPT !.jobs = d.jobs \cup {j}]
                     /\ j = [sid |-> b.session, via |-> b.transport, number |-> b.number,
                             visit |-> b.visit, at |-> "send"]
        BY <4>3 DEF Compute, AppRecord
      <4>5. j.sid = s
        BY <3>2, <4>2, <4>4
      <4>6. Compute(b).inbox = d.inbox /\ Compute(b).jobs = d.jobs \cup {j}
        BY <4>3, <4>4 DEF AppRecord
      <4>7. QED BY <3>2, <3>5, <4>3, <4>5, <4>6
    <3>6. QED BY <3>3, <3>4, <3>5
  <2>2. CASE SessionLoad(c)
    <3>1. PICK b \in AppRecord : b = [a EXCEPT !.signer = FALSE]
      BY FieldTypes
    <3>2. b.inbox = a.inbox /\ b.jobs = a.jobs
      BY <3>1 DEF AppRecord
    <3>3. Become(c, b) \/ \E j : j.sid = s /\ Become(c, [b EXCEPT !.jobs = b.jobs \cup {j}])
      BY <1>1, <1>2, <2>2, <3>1, <3>2 DEF SessionLoad
    <3>4. CASE Become(c, b)
      BY <3>2, <3>4
    <3>5. ASSUME NEW j, j.sid = s, Become(c, [b EXCEPT !.jobs = b.jobs \cup {j}])
          PROVE  \E o : /\ Become(c, o) /\ o.inbox = a.inbox /\ a.jobs \subseteq o.jobs
                        /\ \A i \in o.jobs : i \in a.jobs \/ i.sid = s
      <4>1. /\ [b EXCEPT !.jobs = b.jobs \cup {j}].inbox = b.inbox
            /\ [b EXCEPT !.jobs = b.jobs \cup {j}].jobs = b.jobs \cup {j}
        BY <3>1 DEF AppRecord
      <4>2. QED BY <3>2, <3>5, <4>1
    <3>6. QED BY <3>3, <3>4, <3>5
  <2>3. QED BY <2>1, <2>2
<1>5. app'[c] = o /\ \A d \in Client \ {c} : app'[d] = app[d]
  BY <1>4 DEF Become, FlowInv, TypeOK
<1>6. \A d \in Client \ {c} : frames'[d] = frames[d] /\ calls'[d] = calls[d]
  BY <1>3 DEF FlowInv, TypeOK
<1>7. frames'[c] = Tail(frames[c])
  BY <1>3 DEF FlowInv, TypeOK
<1>8. Quiet(c)
  BY <1>1, <1>2, <1>3, <1>4, <1>5, <1>6, <1>7 DEF Quiet
<1>9. QED BY <1>8, MessageQuietStep

\* A computation's message was relayed.
LEMMA MessageSentQuiet ==
  ASSUME FlowInv, FlowInv', MessageInv, NEW c \in Client, MessageSent(c)
  PROVE  MessageInv'
<1>1. PICK a \in AppRecord : a = app[c]
  BY OwnState DEF FlowInv
<1>2. /\ UNCHANGED <<kind, server, task, calls, done, deaf, surplus>>
      /\ frames[c] # <<>> /\ frames' = [frames EXCEPT ![c] = Tail(frames[c])]
  BY DEF MessageSent, Answered, history
<1>3. PICK q : Become(c, [a EXCEPT !.jobs =
           {IF j.via = q.sid /\ j.visit = q.visit THEN [j EXCEPT !.at = "wait"] ELSE j : j \in a.jobs}])
  BY <1>1 DEF MessageSent
<1>4. app'[c].inbox = a.inbox /\ \A d \in Client \ {c} : app'[d] = app[d]
  BY <1>3 DEF Become, AppRecord, FlowInv, TypeOK
<1>5. app'[c].jobs = {IF j.via = q.sid /\ j.visit = q.visit THEN [j EXCEPT !.at = "wait"] ELSE j : j \in a.jobs}
  BY <1>3 DEF Become, AppRecord, FlowInv, TypeOK
<1>6. ASSUME NEW j \in a.jobs
      PROVE  [j EXCEPT !.at = "wait"].sid = j.sid /\ [j EXCEPT !.at = "wait"].at # "send"
  BY DEF AppRecord, Job
<1>7. \A j \in a.jobs : \E i \in app'[c].jobs : i.sid = j.sid
  BY <1>5, <1>6
<1>8. \A j \in app'[c].jobs : \E i \in a.jobs : i.sid = j.sid /\ (j.at = "send" => i.at = "send")
  BY <1>5, <1>6
<1>9. \A d \in Client \ {c} : frames'[d] = frames[d] /\ calls'[d] = calls[d]
  BY <1>2 DEF FlowInv, TypeOK
<1>10. frames'[c] = Tail(frames[c])
  BY <1>2 DEF FlowInv, TypeOK
<1>11. Quiet(c)
  BY <1>1, <1>2, <1>4, <1>7, <1>8, <1>9, <1>10 DEF Quiet
<1>12. QED BY <1>11, MessageQuietStep


\* There are no more parties than signups.
LEMMA PartiesCount ==
  ASSUME FlowInv, NEW s \in Sid
  PROVE  /\ IsFiniteSet(Parties(s)) /\ Cardinality(Parties(s)) <= Len(server[s].signups)
         /\ Parties(s) \subseteq Client
<1>1. PICK z \in Seq([number : Nat, client : Client]) : z = server[s].signups
  BY DEF FlowInv, TypeOK, Group
<1>2. Parties(s) = {z[i].client : i \in 1 .. Len(z)}
  BY <1>1 DEF Parties, ToSet
<1>3. [i \in 1 .. Len(z) |-> z[i].client] \in Surjection(1 .. Len(z), Parties(s))
  BY <1>2 DEF Surjection
<1>4. Len(z) \in Nat
  BY <1>1
<1>5. IsFiniteSet(1 .. Len(z)) /\ Cardinality(1 .. Len(z)) = Len(z)
  <2>1. PICK n \in Nat : n = Len(z)
    BY <1>4
  <2>2. IsFiniteSet(1 .. n)
    BY FS_Interval
  <2>3. Cardinality(1 .. n) = IF 1 > n THEN 0 ELSE n - 1 + 1
    BY FS_Interval
  <2>4. Cardinality(1 .. n) = n
    BY <2>3
  <2>5. QED BY <2>1, <2>2, <2>4, Zenon
<1>6. IsFiniteSet(Parties(s)) /\ Cardinality(Parties(s)) <= Len(z)
  BY <1>3, <1>5, FS_Surjection, SMTT(30)
<1>7. QED BY <1>1, <1>6, SignupTypes DEF FlowInv

\* Who has as many messages as it expects has those of all the others.
LEMMA RoundFull ==
  ASSUME FlowInv, NEW s \in Sid, ~Overfull(s), NEW c \in Parties(s),
         NEW X \in SUBSET (Parties(s) \ {c}), Cardinality(X) = Expected(s)
  PROVE  X = Parties(s) \ {c}
<1>1. server[s].params \in Form /\ Len(server[s].signups) \in Nat
  BY DEF FlowInv, TypeOK, Group
<1>2. Needed(s) \in Nat /\ Expected(s) = Needed(s) - 1
  BY <1>1 DEF Needed, Expected, Form
<1>3. IsFiniteSet(Parties(s)) /\ Cardinality(Parties(s)) \in Nat
  BY PartiesCount, FS_CardinalityType
<1>4. IsFiniteSet(Parties(s) \ {c}) /\ Cardinality(Parties(s) \ {c}) = Cardinality(Parties(s)) - 1
  BY <1>3, FS_RemoveElement
<1>5. Cardinality(Parties(s)) <= Needed(s)
  BY <1>1, <1>2, <1>3, PartiesCount DEF Overfull
<1>6. Cardinality(X) <= Cardinality(Parties(s) \ {c})
  BY <1>4, FS_Subset
<1>7. Cardinality(X) = Cardinality(Parties(s) \ {c})
  BY <1>2, <1>3, <1>4, <1>5, <1>6
<1>8. QED BY <1>4, <1>7, FS_Subset

\* Who began to compute is a party of a complete session.
LEMMA StartedParty ==
  ASSUME FlowInv, ReadyInv, MessageInv, NEW d \in Client, NEW s \in Sid, Started(d, s)
  PROVE  d \in Parties(s) /\ Complete(s)
<1>1. Complete(s)
  BY DEF ReadyInv, OnceInv
<1>2. CASE <<d, s>> \in done
  BY <1>1, <1>2 DEF MessageInv, FromParty
<1>3. ASSUME NEW j \in app[d].jobs, j.sid = s PROVE d \in Parties(s)
  <2>1. Has(d, s, j.number)
    BY <1>3 DEF ReadyInv, Knows
  <2>2. [number |-> j.number, client |-> d].client = d
    OBVIOUS
  <2>3. QED BY <2>1, <2>2 DEF Has, Parties
<1>4. QED BY <1>1, <1>2, <1>3 DEF Started

\* Nobody has the message of one that is not there.
LEMMA TakenOthers ==
  ASSUME FlowInv, ReadyInv, MessageInv, NEW c \in Client, NEW s \in Sid
  PROVE  app[c].inbox[s] \in SUBSET (Parties(s) \ {c})
<1>1. app[c].inbox[s] \subseteq Client
  BY DEF FlowInv, TypeOK, AppRecord
<1>2. ASSUME NEW d \in app[c].inbox[s]
      PROVE  d \in Parties(s) \ {c}
  <2>1. d \in Client /\ Taken(d, c, s)
    BY <1>1 DEF Taken
  <2>2. Gone(d, c, s) /\ d # c
    BY <2>1 DEF MessageInv, OnePlace, ToParty
  <2>3. Started(d, s)
    BY <2>2 DEF Gone, Unsent
  <2>4. QED BY <2>1, <2>2, <2>3, StartedParty
<1>3. QED BY <1>2


\* The computation of c sends its message.
LEMMA MessageSendStep ==
  ASSUME FlowInv, FlowInv', ReadyInv, MessageInv, NEW c \in Client, SendMessage(c)
  PROVE  MessageInv'
<1>1. PICK a \in AppRecord : a = app[c] /\ Knows(c, a)
  BY OwnState DEF FlowInv, ReadyInv
<1>2. PICK j \in a.jobs :
        /\ j.at = "send"
        /\ Become(c, [a EXCEPT !.jobs = (a.jobs \ {j}) \cup {[j EXCEPT !.at = "sent"]}])
        /\ Ask(c, [Call("message", "Session.message", a, j.via) EXCEPT !.visit = j.visit])
        /\ UNCHANGED <<kind, server, task, frames, conn, history>>
  BY <1>1 DEF SendMessage
<1>3. PICK x \in Sid : x = j.sid /\ j.via = x
  BY <1>1, <1>2 DEF Knows, AppRecord, Job
<1>4. PICK i : i = [j EXCEPT !.at = "sent"] /\ i.sid = x /\ i.at = "sent"
  <2>1. [j EXCEPT !.at = "sent"].sid = x
    BY <1>1, <1>3 DEF AppRecord, Job
  <2>2. [j EXCEPT !.at = "sent"].at = "sent"
    BY <1>1 DEF AppRecord, Job
  <2>3. QED BY <2>1, <2>2
<1>5. PICK q : /\ Ask(c, q) /\ q \in CallRecord /\ q.method = "Session.message" /\ q.sid = x
  <2>1. Call("message", "Session.message", a, x) \in CallRecord
    BY <1>1, CallType DEF Method
  <2>2. j.visit \in Nat
    BY <1>1 DEF AppRecord, Job
  <2>3. PICK p \in CallRecord : p = Call("message", "Session.message", a, x)
                                /\ p.method = "Session.message" /\ p.sid = x
    BY <2>1 DEF Call
  <2>4. [p EXCEPT !.visit = j.visit] \in CallRecord
    BY <2>2 DEF CallRecord
  <2>5. [p EXCEPT !.visit = j.visit].method = p.method /\ [p EXCEPT !.visit = j.visit].sid = p.sid
    BY DEF CallRecord
  <2>6. QED BY <1>2, <1>3, <2>3, <2>4, <2>5
<1>6. /\ \A d \in Client \ {c} : app'[d] = app[d] /\ calls'[d] = calls[d]
      /\ calls'[c] = Append(calls[c], q)
  BY <1>2, <1>5 DEF Become, Ask, FlowInv, TypeOK
<1>7. app'[c].jobs = (a.jobs \ {j}) \cup {i}
  BY <1>1, <1>2, <1>4 DEF Become, AppRecord, FlowInv, TypeOK
<1>8. app'[c].inbox = a.inbox
  BY <1>1, <1>2 DEF Become, AppRecord, FlowInv, TypeOK
<1>9. UNCHANGED <<kind, server, task, frames, done, deaf, surplus>>
  BY <1>2 DEF history
<1>10. ASSUME NEW d \in Client, NEW s \in Sid
       PROVE  /\ Carries(d, s)' <=> Carries(d, s)
              /\ \A e \in Client : /\ Told(d, e, s)' <=> Told(d, e, s)
                                   /\ Coming(d, e, s)' <=> Coming(d, e, s)
              /\ Parties(s)' = Parties(s)
              /\ Overfull(s)' <=> Overfull(s)
  BY <1>9 DEF Carries, Told, Coming, Parties, Overfull, Needed
<1>11. ASSUME NEW d \in Client, NEW e \in Client, NEW s \in Sid
       PROVE  Taken(d, e, s)' <=> Taken(d, e, s)
  BY <1>1, <1>6, <1>8 DEF Taken
<1>12. Unsent(c, x) /\ ~Unsent(c, x)'
  <2>1. Sends(c, x) /\ Started(c, x)'
    BY <1>1, <1>2, <1>3, <1>4, <1>7 DEF Sends, Started
  <2>2. ~Sends(c, x)'
    BY <1>1, <1>2, <1>3, <1>4, <1>7 DEF Sends, Knows
  <2>3. QED BY <2>1, <2>2 DEF Unsent
<1>13. ASSUME NEW d \in Client, NEW s \in Sid, d # c \/ s # x
       PROVE  Unsent(d, s)' <=> Unsent(d, s)
  <2>1. CASE d # c
    BY <1>6, <1>9, <2>1 DEF Unsent, Sends, Started
  <2>2. CASE d = c /\ s # x
    BY <1>1, <1>2, <1>3, <1>4, <1>7, <1>9, <2>2 DEF Unsent, Sends, Started
  <2>3. QED BY <1>13, <2>1, <2>2
<1>14. calls[c] \in Seq(CallRecord)
  BY DEF FlowInv, TypeOK
<1>15. ASSUME NEW d \in Client, NEW s \in Sid, d # c \/ s # x
       PROVE  /\ Asked(d, s)' => Asked(d, s)
              /\ AtMostOne(calls[d], MessageCall(s)) => AtMostOne(calls'[d], MessageCall(s))
  <2>1. CASE d # c
    BY <1>6, <2>1 DEF Asked
  <2>2. CASE d = c /\ s # x
    <3>1. q \notin MessageCall(s)
      BY <1>5, <2>2 DEF MessageCall
    <3>2. calls'[c] = calls[c] \/ calls'[c] = Append(calls[c], q)
      BY <1>5, <1>6
    <3>3. CASE calls'[c] = Append(calls[c], q)
      BY <1>5, <1>14, <2>2, <3>1, <3>3, NoneAppend DEF Asked
    <3>4. QED BY <2>2, <3>2, <3>3 DEF Asked
  <2>3. QED BY <1>15, <2>1, <2>2
<1>16. ASSUME NEW d \in Client, NEW s \in Sid
       PROVE  SentOnce(d, s)' /\ FromParty(d, s)' /\ Ordered(d, s)'
  <2>1. SentOnce(d, s) /\ FromParty(d, s) /\ Ordered(d, s)
    BY DEF MessageInv
  <2>2. FromParty(d, s)' /\ Ordered(d, s)'
    BY <1>9, <1>10, <2>1 DEF FromParty, Ordered, SignedUpFrame
  <2>3. CASE d = c /\ s = x
    <3>1. None(calls[c], MessageCall(x)) /\ ~Carries(c, x)
      BY <1>12, <2>1, <2>3 DEF SentOnce, Asked
    <3>2. AtMostOne(calls'[c], MessageCall(x))
      BY <1>5, <1>6, <1>14, <3>1, FirstAppend
    <3>3. ~Carries(c, x)'
      BY <1>10, <3>1
    <3>4. QED BY <1>12, <2>2, <2>3, <3>2, <3>3 DEF SentOnce
  <2>4. CASE d # c \/ s # x
    <3>1. SentOnce(d, s)'
      BY <1>10, <1>13, <1>15, <2>1, <2>4 DEF SentOnce
    <3>2. QED BY <2>2, <3>1
  <2>5. QED BY <2>3, <2>4
<1>17. ASSUME NEW d \in Client, NEW e \in Client, NEW s \in Sid
       PROVE  OnePlace(d, e, s)' /\ ToParty(d, e, s)' /\ AllTaken(d, e, s)'
  <2>1. OnePlace(d, e, s) /\ ToParty(d, e, s) /\ AllTaken(d, e, s)
    BY DEF MessageInv
  <2>2. Unsent(d, s)' \/ Asked(d, s)' => Unsent(d, s) \/ Asked(d, s)
    BY <1>12, <1>13, <1>15
  <2>3. Gone(d, e, s) => Gone(d, e, s)'
    BY <1>10, <2>2 DEF Gone
  <2>4. AtMostOne(frames'[e], MessageFrame(d, s))
    BY <1>9, <2>1 DEF OnePlace
  <2>5. OnePlace(d, e, s)'
    BY <1>10, <1>11, <2>1, <2>2, <2>3, <2>4 DEF OnePlace
  <2>6. ToParty(d, e, s)'
    BY <1>10, <1>11, <2>1 DEF ToParty
  <2>7. AllTaken(d, e, s)'
    BY <1>9, <1>10, <2>1, <2>3 DEF AllTaken
  <2>8. QED BY <2>5, <2>6, <2>7
<1>18. NothingLost'
  <2>1. \A s \in Sid : Overfull(s)' <=> Overfull(s)
    BY <1>10
  <2>2. QED BY <1>9, <2>1 DEF MessageInv, NothingLost
<1>19. QED BY <1>16, <1>17, <1>18 DEF MessageInv


\* The message of d that c reads first: c has a sink for it, or there is a
\* party too many.
LEMMA MessageHeard ==
  ASSUME FlowInv, ReadyInv, MessageInv, NEW c \in Client, NEW d \in Client, NEW s \in Sid,
         frames[c] # <<>>, Head(frames[c]) \in MessageFrame(d, s), ~Overfull(s)
  PROVE  /\ c \in left \/ app[c].sinks = <<s>>
         /\ Cardinality(app[c].inbox[s]) # Expected(s)
<1>1. frames[c] \in Seq(Frame)
  BY DEF FlowInv, TypeOK
<1>2. Coming(d, c, s)
  BY <1>1, NoneTail DEF Coming
<1>3. c \in Parties(s) /\ c # d /\ ~Taken(d, c, s) /\ ~Unsent(d, s)
  BY <1>2 DEF MessageInv, ToParty, OnePlace, Gone
<1>4. d \in Parties(s)
  BY <1>3, StartedParty DEF Unsent
<1>5. <<c, s>> \notin done
  BY <1>2, <1>3, <1>4 DEF MessageInv, AllTaken, Gone
<1>6. ASSUME NEW k \in 1 .. Len(frames[c]) PROVE ~SignedUpFrame(frames[c][k], s)
  <2>1. 1 \in 1 .. Len(frames[c]) /\ frames[c][1].type = "message" /\ frames[c][1].sid = s
    BY <1>1, TailElements DEF MessageFrame
  <2>2. ~(k < 1)
    BY <1>1
  <2>3. Ordered(c, s)
    BY DEF MessageInv
  <2>4. QED BY <2>1, <2>2, <2>3 DEF Ordered
<1>7. Hears(c, s)
  <2>1. 1 \in 1 .. Len(frames[c]) /\ frames[c][1].type = "message" /\ frames[c][1].sid = s
    BY <1>1, TailElements DEF MessageFrame
  <2>2. Due(c, s)
    BY <2>1 DEF Due, Brought
  <2>3. QED BY <2>2 DEF ReadyInv
<1>8. c \in left \/ app[c].sinks = <<s>>
  BY <1>5, <1>6, <1>7 DEF Hears
<1>9. Cardinality(app[c].inbox[s]) # Expected(s)
  BY <1>3, <1>4, TakenOthers, RoundFull DEF Taken
<1>10. QED BY <1>8, <1>9

\* A sink takes a message.
LEMMA MessageReceiveStep ==
  ASSUME FlowInv, FlowInv', ReadyInv, MessageInv, NEW c \in Client, ReceiveMessage(c)
  PROVE  MessageInv'
<1>1. PICK a \in AppRecord : a = app[c]
  BY OwnState DEF FlowInv
<1>2. frames[c] \in Seq(Frame) /\ frames[c] # <<>> /\ Head(frames[c]) \in Frame
      /\ Head(frames[c]).type = "message" /\ frames' = [frames EXCEPT ![c] = Tail(frames[c])]
  BY TailElements DEF ReceiveMessage, FlowInv, TypeOK
<1>3. PICK p \in Client, x \in Sid :
        /\ Head(frames[c]) \in MessageFrame(p, x)
        /\ x = Head(frames[c]).sid /\ p = Head(frames[c]).from
  BY <1>2 DEF MessageFrame, Frame, Event
<1>4. UNCHANGED <<kind, server, calls, task, done, left>>
  BY DEF ReceiveMessage
<1>5. /\ \A e \in Client \ {c} : frames'[e] = frames[e] /\ app'[e] = app[e]
      /\ frames'[c] = Tail(frames[c])
  BY <1>2 DEF ReceiveMessage, Become, FlowInv, TypeOK
<1>6. Become(c, a) \/ Become(c, [a EXCEPT !.inbox[x] = @ \cup {p}])
  BY <1>1, <1>3 DEF ReceiveMessage
<1>7. \E o : /\ Become(c, o) /\ o.jobs = a.jobs
            /\ \A s \in Sid : o.inbox[s] \subseteq a.inbox[s] \cup (IF s = x THEN {p} ELSE {})
  <2> DEFINE b == [a EXCEPT !.inbox[x] = @ \cup {p}]
  <2>1. a.inbox \in [Sid -> SUBSET Client]
    BY DEF AppRecord
  <2>2. b.jobs = a.jobs
    BY DEF AppRecord
  <2>3. b.inbox = [a.inbox EXCEPT ![x] = a.inbox[x] \cup {p}]
    BY DEF AppRecord
  <2>4. \A s \in Sid : b.inbox[s] \subseteq a.inbox[s] \cup (IF s = x THEN {p} ELSE {})
    BY <2>1, <2>3
  <2> HIDE DEF b
  <2>5. Become(c, a) \/ Become(c, b)
    BY <1>6 DEF b
  <2>6. QED BY <2>2, <2>4, <2>5
<1>8. /\ app'[c].jobs = a.jobs
      /\ \A s \in Sid : app'[c].inbox[s] \subseteq a.inbox[s] \cup (IF s = x THEN {p} ELSE {})
  BY <1>7 DEF Become, FlowInv, TypeOK
<1>9. ASSUME NEW d \in Client, NEW s \in Sid
      PROVE  /\ Unsent(d, s)' <=> Unsent(d, s)
             /\ Asked(d, s)' <=> Asked(d, s)
             /\ Carries(d, s)' <=> Carries(d, s)
             /\ \A e \in Client : Told(d, e, s)' <=> Told(d, e, s)
             /\ Parties(s)' = Parties(s)
             /\ Overfull(s)' <=> Overfull(s)
  BY <1>1, <1>4, <1>5, <1>8 DEF Unsent, Sends, Started, Asked, Carries, Told, Parties, Overfull, Needed
<1>10. ASSUME NEW d \in Client, NEW e \in Client, NEW s \in Sid
       PROVE  /\ Coming(d, e, s)' => Coming(d, e, s)
              /\ AtMostOne(frames[e], MessageFrame(d, s)) => AtMostOne(frames'[e], MessageFrame(d, s))
  <2>1. CASE e = c
    <3>1. /\ None(frames[c], MessageFrame(d, s)) => None(Tail(frames[c]), MessageFrame(d, s))
          /\ AtMostOne(frames[c], MessageFrame(d, s)) => AtMostOne(Tail(frames[c]), MessageFrame(d, s))
      BY <1>2, NoneTail
    <3>2. QED BY <1>5, <2>1, <3>1 DEF Coming
  <2>2. CASE e # c
    BY <1>5, <2>2 DEF Coming
  <2>3. QED BY <2>1, <2>2
<1>11. ASSUME NEW d \in Client, NEW e \in Client, NEW s \in Sid
       PROVE  Taken(d, e, s)' => Taken(d, e, s) \/ (d = p /\ e = c /\ s = x)
  BY <1>1, <1>5, <1>8 DEF Taken
<1>12. Coming(p, c, x) /\ ~Coming(p, c, x)'
  <2>1. ~None(frames[c], MessageFrame(p, x))
    BY <1>2, <1>3, NoneTail
  <2>2. AtMostOne(frames[c], MessageFrame(p, x))
    BY DEF MessageInv, OnePlace
  <2>3. None(Tail(frames[c]), MessageFrame(p, x))
    BY <1>2, <1>3, <2>2, NoneTail
  <2>4. QED BY <1>5, <2>1, <2>3 DEF Coming
<1>13. ASSUME NEW d \in Client, NEW s \in Sid
       PROVE  SentOnce(d, s)' /\ FromParty(d, s)' /\ Ordered(d, s)'
  <2>1. SentOnce(d, s) /\ FromParty(d, s) /\ Ordered(d, s)
    BY DEF MessageInv
  <2>2. SentOnce(d, s)' /\ FromParty(d, s)'
    BY <1>4, <1>9, <2>1 DEF SentOnce, FromParty
  <2>3. CASE d # c
    <3>1. Ordered(d, s)'
      BY <1>5, <1>9, <2>1, <2>3 DEF Ordered, SignedUpFrame
    <3>2. QED BY <2>2, <3>1
  <2>4. CASE d = c
    <3>0. \A i \in 1 .. Len(Tail(frames[c])) :
            i + 1 \in 1 .. Len(frames[c]) /\ Tail(frames[c])[i] = frames[c][i + 1]
      BY <1>2, TailElements
    <3>1. \A i \in 1 .. Len(frames'[c]) : i + 1 \in 1 .. Len(frames[c]) /\ frames'[c][i] = frames[c][i + 1]
      BY <1>5, <3>0
    <3>2. ASSUME NEW i \in 1 .. Len(frames'[c]), NEW k \in 1 .. Len(frames'[c]),
                 frames'[c][i].type = "message", frames'[c][i].sid = s, SignedUpFrame(frames'[c][k], s)
          PROVE  k < i \/ Overfull(s)'
      <4>1. k + 1 < i + 1 \/ Overfull(s)
        BY <2>1, <2>4, <3>1, <3>2 DEF Ordered
      <4>2. QED BY <1>9, <4>1
    <3>3. Ordered(c, s)'
      BY <3>2 DEF Ordered, SignedUpFrame
    <3>4. QED BY <2>2, <2>4, <3>3
  <2>5. QED BY <2>3, <2>4
<1>14. ASSUME NEW d \in Client, NEW e \in Client, NEW s \in Sid
       PROVE  OnePlace(d, e, s)' /\ ToParty(d, e, s)' /\ AllTaken(d, e, s)'
  <2>1. OnePlace(d, e, s) /\ ToParty(d, e, s) /\ AllTaken(d, e, s)
    BY DEF MessageInv
  <2>2. Gone(d, e, s) => Gone(d, e, s)'
    BY <1>9, <1>10 DEF Gone
  <2>3. d = p /\ e = c /\ s = x => Gone(d, e, s)' /\ Coming(d, e, s)
    BY <1>9, <1>12, <2>1 DEF Gone, OnePlace
  <2>4. OnePlace(d, e, s)'
    BY <1>9, <1>10, <1>11, <2>1, <2>2, <2>3 DEF OnePlace
  <2>5. ToParty(d, e, s)'
    BY <1>9, <1>10, <1>11, <2>1, <2>3 DEF ToParty
  <2>6. AllTaken(d, e, s)'
    BY <1>4, <1>9, <2>1, <2>2 DEF AllTaken
  <2>7. QED BY <2>4, <2>5, <2>6
<1>15. NothingLost'
  <2>1. \A s \in Sid : Overfull(s)' <=> Overfull(s)
    BY <1>9
  <2>2. NothingLost
    BY DEF MessageInv
  <2>3. \/ deaf' \cup surplus' \subseteq deaf \cup surplus
        \/ deaf' \cup surplus' \subseteq deaf \cup surplus \cup {<<c, x, p>>} /\ Overfull(x)
    <3>1. CASE Overfull(x)
      BY <1>3, <3>1 DEF ReceiveMessage
    <3>2. CASE ~Overfull(x)
      <4>1. c \in left \/ a.sinks = <<x>>
        BY <1>1, <1>2, <1>3, <3>2, MessageHeard
      <4>2. Cardinality(a.inbox[x]) # Expected(x)
        BY <1>1, <1>2, <1>3, <3>2, MessageHeard
      <4>3. surplus' = surplus
        BY <1>1, <1>3, <4>2 DEF ReceiveMessage
      <4>4. a.sinks = <<x>> => a.sinks # <<>> /\ Head(a.sinks) = x
        OBVIOUS
      <4>5. deaf' = deaf
        BY <1>1, <1>3, <4>1, <4>4 DEF ReceiveMessage
      <4>6. QED BY <4>3, <4>5
    <3>3. QED BY <3>1, <3>2
  <2>4. QED BY <2>1, <2>2, <2>3 DEF NothingLost
<1>16. QED BY <1>13, <1>14, <1>15 DEF MessageInv


\* A computation ends: its party had the message of every other one.
LEMMA MessageEndSteps ==
  ASSUME FlowInv, FlowInv', ReadyInv, MessageInv, NEW c \in Client, KeyComputed(c) \/ SignDone(c)
  PROVE  MessageInv'
<1>1. PICK a \in AppRecord : a = app[c] /\ Page(kind, a) /\ Computing(kind, a) /\ Knows(c, a)
  BY OwnState DEF FlowInv, Local, ReadyInv
<1>2. UNCHANGED <<kind, server, calls, task, frames, deaf, surplus>>
  BY DEF KeyComputed, SignDone
<1>3. PICK j \in a.jobs : RoundDone(c, j) /\ done' = done \cup {<<c, j.sid>>}
        /\ \E o : /\ Become(c, o) /\ o.jobs = a.jobs \ {j}
                  /\ \A s \in Sid : o.inbox[s] \subseteq a.inbox[s]
  <2>1. CASE KeyComputed(c)
    <3>1. PICK j \in a.jobs : /\ RoundDone(c, j) /\ done' = done \cup {<<c, j.sid>>}
                /\ LET b == [a EXCEPT !.jobs = @ \ {j}, !.inbox[j.via] = {}]
                   IN Become(c, IF Mounted(b, j) THEN HandleNext(b) ELSE b)
      BY <1>1, <2>1 DEF KeyComputed
    <3>2. PICK b : b = [a EXCEPT !.jobs = @ \ {j}, !.inbox[j.via] = {}]
      OBVIOUS
    <3>3. b.jobs = a.jobs \ {j} /\ b.inbox = [a.inbox EXCEPT ![j.via] = {}]
      BY <3>2 DEF AppRecord
    <3>4. HandleNext(b).jobs = b.jobs /\ HandleNext(b).inbox = b.inbox
      BY <3>2 DEF HandleNext, Render, AppRecord
    <3>5. \A s \in Sid : b.inbox[s] \subseteq a.inbox[s]
      BY <3>3 DEF AppRecord
    <3>6. Become(c, b) \/ Become(c, HandleNext(b))
      BY <3>1, <3>2
    <3>7. RoundDone(c, j) /\ done' = done \cup {<<c, j.sid>>}
      BY <3>1
    <3>8. CASE Become(c, b)
      BY <3>3, <3>5, <3>7, <3>8
    <3>9. CASE Become(c, HandleNext(b))
      <4>1. HandleNext(b).jobs = a.jobs \ {j} /\ \A s \in Sid : HandleNext(b).inbox[s] \subseteq a.inbox[s]
        BY <3>3, <3>4, <3>5
      <4>2. QED BY <3>7, <3>9, <4>1
    <3>10. QED BY <3>6, <3>8, <3>9
  <2>2. CASE SignDone(c)
    <3>1. PICK j \in a.jobs : /\ RoundDone(c, j) /\ done' = done \cup {<<c, j.sid>>}
                /\ LET b == Render([a EXCEPT !.jobs = @ \ {j}, !.inbox[j.via] = {},
                                             !.sinks = <<>>, !.proof = j.sid])
                   IN Become(c, IF b.wizard # "none" /\ b.step = 2 THEN HandleNext(b) ELSE b)
      BY <1>1, <2>2 DEF SignDone
    <3>2. PICK b : b = Render([a EXCEPT !.jobs = @ \ {j}, !.inbox[j.via] = {},
                                        !.sinks = <<>>, !.proof = j.sid])
      OBVIOUS
    <3>3. b.jobs = a.jobs \ {j} /\ b.inbox = [a.inbox EXCEPT ![j.via] = {}]
      BY <3>2 DEF Render, AppRecord
    <3>4. HandleNext(b).jobs = b.jobs /\ HandleNext(b).inbox = b.inbox
      BY <3>2 DEF HandleNext, Render, AppRecord
    <3>5. \A s \in Sid : b.inbox[s] \subseteq a.inbox[s]
      BY <3>3 DEF AppRecord
    <3>6. Become(c, b) \/ Become(c, HandleNext(b))
      BY <3>1, <3>2
    <3>7. RoundDone(c, j) /\ done' = done \cup {<<c, j.sid>>}
      BY <3>1
    <3>8. CASE Become(c, b)
      BY <3>3, <3>5, <3>7, <3>8
    <3>9. CASE Become(c, HandleNext(b))
      <4>1. HandleNext(b).jobs = a.jobs \ {j} /\ \A s \in Sid : HandleNext(b).inbox[s] \subseteq a.inbox[s]
        BY <3>3, <3>4, <3>5
      <4>2. QED BY <3>7, <3>9, <4>1
    <3>10. QED BY <3>6, <3>8, <3>9
  <2>3. QED BY <2>1, <2>2
<1>4. PICK x \in Sid : x = j.sid /\ j.via = x
  BY <1>1, <1>3 DEF Knows, AppRecord, Job
<1>5. /\ \A d \in Client \ {c} : app'[d] = app[d]
      /\ app'[c].jobs = a.jobs \ {j}
      /\ \A s \in Sid : app'[c].inbox[s] \subseteq a.inbox[s]
  BY <1>3 DEF Become, FlowInv, TypeOK
<1>6. ASSUME NEW d \in Client, NEW s \in Sid
      PROVE  /\ Unsent(d, s)' => Unsent(d, s)
             /\ Asked(d, s)' <=> Asked(d, s)
             /\ Carries(d, s)' <=> Carries(d, s)
             /\ Parties(s)' = Parties(s)
             /\ Overfull(s)' <=> Overfull(s)
  <2>1. Started(d, s) => Started(d, s)'
    BY <1>1, <1>3, <1>4, <1>5 DEF Started
  <2>2. Sends(d, s)' => Sends(d, s)
    BY <1>1, <1>5 DEF Sends
  <2>3. Unsent(d, s)' => Unsent(d, s)
    BY <2>1, <2>2 DEF Unsent
  <2>4. QED BY <1>2, <2>3 DEF Asked, Carries, Parties, Overfull, Needed
<1>7. ASSUME NEW d \in Client, NEW e \in Client, NEW s \in Sid
      PROVE  /\ Told(d, e, s)' <=> Told(d, e, s)
             /\ Coming(d, e, s)' <=> Coming(d, e, s)
             /\ Taken(d, e, s)' => Taken(d, e, s)
  BY <1>1, <1>2, <1>5 DEF Told, Carries, Coming, Taken
<1>8. c \in Parties(x)
  <2>1. Started(c, x)
    BY <1>1, <1>3, <1>4 DEF Started
  <2>2. QED BY <2>1, StartedParty
<1>9. ~Overfull(x) => a.inbox[x] = Parties(x) \ {c}
  <2>1. Cardinality(a.inbox[x]) = Expected(x)
    BY <1>1, <1>3, <1>4 DEF RoundDone
  <2>2. a.inbox[x] \in SUBSET (Parties(x) \ {c})
    BY <1>1, TakenOthers
  <2>3. QED BY <1>8, <2>1, <2>2, RoundFull
<1>10. ASSUME NEW d \in Client, NEW s \in Sid
       PROVE  SentOnce(d, s)' /\ FromParty(d, s)' /\ Ordered(d, s)'
  <2>1. SentOnce(d, s) /\ FromParty(d, s) /\ Ordered(d, s)
    BY DEF MessageInv
  <2>2. SentOnce(d, s)'
    BY <1>2, <1>6, <2>1 DEF SentOnce
  <2>3. FromParty(d, s)'
    BY <1>2, <1>3, <1>4, <1>6, <1>8, <2>1 DEF FromParty
  <2>4. Ordered(d, s)'
    BY <1>2, <1>6, <2>1 DEF Ordered, SignedUpFrame
  <2>5. QED BY <2>2, <2>3, <2>4
<1>11. ASSUME NEW d \in Client, NEW e \in Client, NEW s \in Sid
       PROVE  OnePlace(d, e, s)' /\ ToParty(d, e, s)' /\ AllTaken(d, e, s)'
  <2>1. OnePlace(d, e, s) /\ ToParty(d, e, s) /\ AllTaken(d, e, s)
    BY DEF MessageInv
  <2>2. Gone(d, e, s) => Gone(d, e, s)'
    BY <1>6, <1>7 DEF Gone
  <2>3. AtMostOne(frames'[e], MessageFrame(d, s))
    BY <1>2, <2>1 DEF OnePlace
  <2>4. OnePlace(d, e, s)'
    BY <1>6, <1>7, <2>1, <2>2, <2>3 DEF OnePlace
  <2>5. ToParty(d, e, s)'
    BY <1>6, <1>7, <2>1 DEF ToParty
  <2>6. CASE e = c /\ s = x
    <3>1. d \in Parties(x) /\ d # c => Overfull(x) \/ Taken(d, c, x)
      BY <1>1, <1>9 DEF Taken
    <3>2. d \in Parties(x) /\ d # c => Overfull(x) \/ Gone(d, c, x)
      BY <2>1, <2>6, <3>1 DEF OnePlace
    <3>3. AllTaken(d, e, s)'
      BY <1>6, <2>2, <2>6, <3>2 DEF AllTaken
    <3>4. QED BY <2>4, <2>5, <3>3
  <2>7. CASE ~(e = c /\ s = x)
    <3>1. <<e, s>> \in done' => <<e, s>> \in done
      BY <1>3, <1>4, <2>7
    <3>2. AllTaken(d, e, s)'
      BY <1>6, <2>1, <2>2, <3>1 DEF AllTaken
    <3>3. QED BY <2>4, <2>5, <3>2
  <2>8. QED BY <2>6, <2>7
<1>12. NothingLost'
  <2>1. \A s \in Sid : Overfull(s)' <=> Overfull(s)
    BY <1>6
  <2>2. QED BY <1>2, <2>1 DEF MessageInv, NothingLost
<1>13. QED BY <1>10, <1>11, <1>12 DEF MessageInv


\* Notifying r of a round message is for one of the other parties.
LEMMA NotifyMessage ==
  ASSUME FlowInv, MessageInv, NEW c \in Client, Notify(c)
  PROVE  \E r \in Client, t \in Task, to \in SUBSET Client :
           /\ Notified(c, r, t, to) /\ t.frame \in Frame /\ t.frame.type # "answer"
           /\ task'[c] = Idle \/ task'[c].sid = t.sid
           /\ t.frame.type = "message" => to \subseteq Parties(t.frame.sid) \ {c} /\ t.frame.from = c
           /\ UNCHANGED <<calls, deaf, surplus>>
<1>1. PICK t \in Task : t = task[c] /\ t # Idle
  BY DEF Notify, FlowInv, TypeOK
<1>2. t \in [frame : Event, sid : Sid, to : SUBSET Client, fresh : BOOLEAN]
  BY <1>1 DEF Task
<1>3. PICK to \in SUBSET Client : to = IF t.fresh THEN Receivers(c, t) ELSE t.to
  <2>1. t.sid \in Sid /\ t.to \in SUBSET Client
    BY <1>2
  <2>2. Receivers(c, t) \in SUBSET Client
    BY <2>1, SignupTypes DEF Receivers, FlowInv
  <2>3. QED BY <2>1, <2>2
<1>4. PICK r \in to :
        /\ frames' = IF Cut(r) THEN frames
                     ELSE [frames EXCEPT ![r] = Append(frames[r], t.frame)]
        /\ task' = [task EXCEPT ![c] =
              IF to = {r} THEN Idle ELSE [t EXCEPT !.to = to \ {r}, !.fresh = FALSE]]
  BY <1>1, <1>3 DEF Notify, Sent
<1>5. PICK u : u = [t EXCEPT !.to = to \ {r}, !.fresh = FALSE]
               /\ u.frame = t.frame /\ u.to = to \ {r} /\ u.fresh = FALSE /\ u.sid = t.sid
  <2> DEFINE v == [t EXCEPT !.to = to \ {r}, !.fresh = FALSE]
  <2>1. v.frame = t.frame /\ v.to = to \ {r}
    BY <1>2
  <2>2. v.fresh = FALSE /\ v.sid = t.sid
    BY <1>2
  <2> HIDE DEF v
  <2>3. QED BY <2>1, <2>2 DEF v
<1>6. r \in Client /\ t.frame \in Frame /\ t.frame.type # "answer" /\ OnlyFlags(conn, conn')
  BY <1>2, <1>3, NotifyFlags DEF Frame, Event, FlowInv
<1>7. /\ \A d \in Client \ {r} : frames'[d] = frames[d]
      /\ frames'[r] = IF Cut(r) THEN frames[r] ELSE Append(frames[r], t.frame)
  BY <1>4, <1>6 DEF FlowInv, TypeOK
<1>8. /\ \A d \in Client \ {c} : task'[d] = task[d]
      /\ task'[c] = Idle \/ task'[c] = u
  BY <1>4, <1>5 DEF FlowInv, TypeOK
<1>9. UNCHANGED <<kind, server, app, done, left, calls, deaf, surplus>>
  BY DEF Notify, history
<1>10. Notified(c, r, t, to)
  BY <1>1, <1>3, <1>4, <1>5, <1>6, <1>7, <1>8, <1>9 DEF Notified
<1>11. ASSUME t.frame.type = "message"
       PROVE  to \subseteq Parties(t.frame.sid) \ {c} /\ t.frame.from = c
  <2>1. PICK s \in Sid : s = t.frame.sid
    BY <1>2 DEF Event
  <2>2. Carries(c, s)
    BY <1>1, <1>11, <2>1 DEF Carries
  <2>3. FromParty(c, s)
    BY <2>1 DEF MessageInv
  <2>4. t.frame.from = c /\ t.sid = s /\ t.to \subseteq Parties(s) \ {c}
    BY <1>1, <2>2, <2>3 DEF FromParty
  <2>5. Receivers(c, t) = Parties(s) \ {c}
    BY <1>11, <2>4 DEF Receivers
  <2>6. QED BY <1>3, <2>1, <2>4, <2>5
<1>12. task'[c] = Idle \/ task'[c].sid = t.sid
  BY <1>5, <1>8
<1>13. QED BY <1>6, <1>9, <1>10, <1>11, <1>12

\* A connection task notifies somebody.
LEMMA MessageNotifyStep ==
  ASSUME FlowInv, FlowInv', ReadyInv, MessageInv, NEW c \in Client, Notify(c)
  PROVE  MessageInv'
<1>1. PICK r \in Client, t \in Task, to \in SUBSET Client :
        /\ Notified(c, r, t, to) /\ t.frame \in Frame /\ t.frame.type # "answer"
        /\ task'[c] = Idle \/ task'[c].sid = t.sid
        /\ t.frame.type = "message" => to \subseteq Parties(t.frame.sid) \ {c} /\ t.frame.from = c
        /\ UNCHANGED <<calls, deaf, surplus>>
  BY NotifyMessage
<1>2. /\ t = task[c] /\ r \in to /\ (t.fresh \/ to = t.to)
      /\ \A e \in Client \ {r} : frames'[e] = frames[e]
      /\ frames'[r] = frames[r] \/ frames'[r] = Append(frames[r], t.frame)
      /\ \A d \in Client \ {c} : task'[d] = task[d]
      /\ \/ task'[c] = Idle
         \/ task'[c].frame = t.frame /\ task'[c].to = to \ {r} /\ task'[c].fresh = FALSE
      /\ UNCHANGED <<kind, server, app, done, left>>
  BY <1>1 DEF Notified
<1>3. \A e \in Client : frames[e] \in Seq(Frame)
  BY DEF FlowInv, TypeOK
<1>4. ASSUME NEW d \in Client, NEW s \in Sid
      PROVE  /\ Unsent(d, s)' <=> Unsent(d, s)
             /\ Asked(d, s)' <=> Asked(d, s)
             /\ AtMostOne(calls'[d], MessageCall(s)) <=> AtMostOne(calls[d], MessageCall(s))
             /\ Parties(s)' = Parties(s)
             /\ Overfull(s)' <=> Overfull(s)
             /\ \A e \in Client : Taken(d, e, s)' <=> Taken(d, e, s)
  BY <1>1, <1>2 DEF Unsent, Sends, Started, Asked, Parties, Overfull, Needed, Taken
<1>5. ASSUME NEW d \in Client, NEW s \in Sid
      PROVE  Carries(d, s)' => Carries(d, s)
  BY <1>2 DEF Carries, Idle
<1>6. ASSUME NEW d \in Client, NEW e \in Client, NEW s \in Sid
      PROVE  Told(d, e, s)' => Told(d, e, s) /\ ~(d = c /\ e = r)
  BY <1>2 DEF Told, Carries, Idle
<1>7. ASSUME NEW d \in Client, NEW e \in Client, NEW s \in Sid
      PROVE  \/ /\ Coming(d, e, s)' => Coming(d, e, s)
                /\ AtMostOne(frames[e], MessageFrame(d, s)) => AtMostOne(frames'[e], MessageFrame(d, s))
             \/ /\ d = c /\ e = r /\ Told(c, r, s) /\ r \in Parties(s) \ {c}
                /\ ~Coming(c, r, s) => AtMostOne(frames'[r], MessageFrame(c, s))
  <2>1. CASE e # r \/ frames'[r] = frames[r]
    BY <1>2, <2>1 DEF Coming
  <2>2. CASE e = r /\ frames'[r] = Append(frames[r], t.frame) /\ t.frame \notin MessageFrame(d, s)
    <3>1. /\ None(frames[r], MessageFrame(d, s)) => None(frames'[r], MessageFrame(d, s))
          /\ AtMostOne(frames[r], MessageFrame(d, s)) => AtMostOne(frames'[r], MessageFrame(d, s))
      BY <1>1, <1>3, <2>2, NoneAppend
    <3>2. QED BY <2>2, <3>1 DEF Coming
  <2>3. CASE e = r /\ frames'[r] = Append(frames[r], t.frame) /\ t.frame \in MessageFrame(d, s)
    <3>1. t.frame.type = "message" /\ t.frame.sid = s /\ t.frame.from = d
      BY <2>3 DEF MessageFrame
    <3>2. d = c /\ r \in Parties(s) \ {c}
      BY <1>1, <1>2, <3>1
    <3>3. Told(c, r, s)
      BY <1>2, <3>1 DEF Told, Carries
    <3>4. None(frames[r], MessageFrame(c, s)) => AtMostOne(frames'[r], MessageFrame(c, s))
      BY <1>1, <1>3, <2>3, FirstAppend
    <3>5. QED BY <2>3, <3>2, <3>3, <3>4 DEF Coming
  <2>4. QED BY <1>2, <2>1, <2>2, <2>3
<1>8. ASSUME NEW d \in Client, NEW s \in Sid
      PROVE  SentOnce(d, s)' /\ FromParty(d, s)' /\ Ordered(d, s)'
  <2>1. SentOnce(d, s) /\ FromParty(d, s) /\ Ordered(d, s)
    BY DEF MessageInv
  <2>2. SentOnce(d, s)'
    BY <1>4, <1>5, <2>1 DEF SentOnce
  <2>3. ASSUME d # c PROVE FromParty(d, s)'
    BY <1>2, <1>4, <1>5, <2>1, <2>3 DEF FromParty
  <2>4. ASSUME d = c, Carries(c, s)'
        PROVE  task'[c].frame.from = c /\ task'[c].sid = s /\ task'[c].to \subseteq Parties(s)' \ {c}
    <3>1. task'[c] # Idle
      BY <2>4 DEF Carries, Idle
    <3>2. Carries(c, s)
      BY <1>5, <2>4
    <3>3. task[c].frame.from = c /\ task[c].sid = s /\ t.frame.type = "message" /\ t.frame.sid = s
      BY <1>2, <2>1, <2>4, <3>2 DEF FromParty, Carries
    <3>4. to \subseteq Parties(s) \ {c}
      BY <1>1, <3>3
    <3>5. QED BY <1>1, <1>2, <1>4, <3>1, <3>3, <3>4
  <2>5. FromParty(d, s)'
    BY <1>2, <1>4, <2>1, <2>3, <2>4 DEF FromParty
  <2>6. CASE frames'[d] = frames[d]
    <3>1. Ordered(d, s)'
      BY <1>4, <2>1, <2>6 DEF Ordered, SignedUpFrame
    <3>2. QED BY <2>2, <2>5, <3>1
  <2>7. CASE d = r /\ frames'[r] = Append(frames[r], t.frame)
    <3>1. frames[r] \in Seq(Frame) /\ ~SignedUpFrame(t.frame, s)
      BY <1>1, <1>3 DEF SignedUpFrame
    <3>2. /\ Len(frames'[r]) = Len(frames[r]) + 1 /\ Len(frames[r]) \in Nat
          /\ \A i \in 1 .. Len(frames[r]) : frames'[r][i] = frames[r][i]
          /\ frames'[r][Len(frames[r]) + 1] = t.frame
      BY <1>1, <2>7, <3>1
    <3>3. ASSUME NEW i \in 1 .. Len(frames'[r]), NEW k \in 1 .. Len(frames'[r]),
                 frames'[r][i].type = "message", frames'[r][i].sid = s, SignedUpFrame(frames'[r][k], s)
          PROVE  k < i \/ Overfull(s)
      <4>1. k \in 1 .. Len(frames[r])
        BY <3>1, <3>2, <3>3
      <4>2. CASE i \in 1 .. Len(frames[r])
        <5>1. frames[r][i] = frames'[r][i] /\ frames[r][k] = frames'[r][k]
          BY <3>2, <4>1, <4>2
        <5>2. QED BY <2>1, <2>7, <3>3, <4>1, <4>2, <5>1 DEF Ordered
      <4>3. CASE i = Len(frames[r]) + 1
        BY <3>2, <4>1, <4>3
      <4>4. QED BY <3>2, <4>2, <4>3
    <3>4. Ordered(d, s)'
      BY <1>4, <2>7, <3>3 DEF Ordered, SignedUpFrame
    <3>5. QED BY <2>2, <2>5, <3>4
  <2>8. QED BY <1>2, <2>6, <2>7
<1>9. ASSUME NEW d \in Client, NEW e \in Client, NEW s \in Sid
      PROVE  OnePlace(d, e, s)' /\ ToParty(d, e, s)' /\ AllTaken(d, e, s)'
  <2>1. OnePlace(d, e, s) /\ ToParty(d, e, s) /\ AllTaken(d, e, s) /\ SentOnce(d, s)
    BY DEF MessageInv
  <2>2. CASE /\ Coming(d, e, s)' => Coming(d, e, s)
             /\ AtMostOne(frames[e], MessageFrame(d, s)) => AtMostOne(frames'[e], MessageFrame(d, s))
    <3>1. Gone(d, e, s) => Gone(d, e, s)'
      BY <1>4, <1>6, <2>2 DEF Gone
    <3>2. OnePlace(d, e, s)'
      BY <1>4, <1>6, <2>1, <2>2, <3>1 DEF OnePlace
    <3>3. ToParty(d, e, s)'
      BY <1>4, <2>1, <2>2 DEF ToParty
    <3>4. AllTaken(d, e, s)'
      BY <1>2, <1>4, <2>1, <3>1 DEF AllTaken
    <3>5. QED BY <3>2, <3>3, <3>4
  <2>3. CASE /\ d = c /\ e = r /\ Told(c, r, s) /\ r \in Parties(s) \ {c}
             /\ ~Coming(c, r, s) => AtMostOne(frames'[r], MessageFrame(c, s))
    <3>1. ~Coming(c, r, s) /\ ~Taken(c, r, s) /\ ~Gone(c, r, s) /\ ~Unsent(c, s) /\ ~Asked(c, s)
      BY <2>1, <2>3 DEF OnePlace, Gone, SentOnce, Told
    <3>2. ~Told(c, r, s)' /\ ~Taken(c, r, s)' /\ ~Unsent(c, s)' /\ ~Asked(c, s)'
      BY <1>4, <1>6, <3>1
    <3>3. OnePlace(c, r, s)'
      BY <2>3, <3>1, <3>2 DEF OnePlace
    <3>4. ToParty(c, r, s)'
      BY <1>4, <2>3 DEF ToParty
    <3>5. AllTaken(c, r, s)'
      BY <1>2, <1>4, <2>1, <2>3, <3>1 DEF AllTaken
    <3>6. QED BY <2>3, <3>3, <3>4, <3>5
  <2>4. QED BY <1>7, <2>2, <2>3
<1>10. NothingLost'
  <2>1. \A s \in Sid : Overfull(s)' <=> Overfull(s)
    BY <1>4
  <2>2. QED BY <1>1, <2>1 DEF MessageInv, NothingLost
<1>11. QED BY <1>8, <1>9, <1>10 DEF MessageInv


\* The parties of a session are not fewer, and one more in a complete session
\* is one too many.
LEMMA ServedParties ==
  ASSUME FlowInv, FlowInv', OwnerInv, NEW c \in Client, NEW q \in CallRecord, NEW n \in Nat,
         NEW ok \in BOOLEAN, Served(c, q, n, ok), NEW s \in Sid
  PROVE  LET signs == s = q.sid /\ ok /\ q.method \in {"Session.signup", "Session.load"}
         IN  /\ Overfull(s) => Overfull(s)'
             /\ Parties(s) \subseteq Parties(s)'
             /\ ~signs => Parties(s)' = Parties(s)
             /\ signs /\ Complete(s) => Overfull(s)'
<1> DEFINE signs == s = q.sid /\ ok /\ q.method \in {"Session.signup", "Session.load"}
<1>1. /\ RequestFact(c, q) /\ ok = Accepts(c, q)
      /\ s # q.sid \/ ~ok => server'[s] = server[s]
      /\ kind' = kind /\ GroupFact(s)
  BY DEF Served, OwnerInv
<1>2. /\ server[s].signups \in Seq([number : Nat, client : Client])
      /\ server'[s].signups \in Seq([number : Nat, client : Client])
      /\ server[s].params \in Form
  BY DEF FlowInv, TypeOK, Group
<1>3. Needed(s) \in Nat
  BY <1>1, <1>2 DEF Needed, Form
<1>4. ToSet(server'[s].signups) = ToSet(server[s].signups) \cup IF signs THEN {[number |-> n, client |-> c]} ELSE {}
  BY ServedHas
<1>5. Parties(s) \subseteq Parties(s)' /\ (~signs => Parties(s)' = Parties(s))
  BY <1>4 DEF Parties
<1>6. CASE s # q.sid \/ ~ok
  <2>1. Overfull(s)' <=> Overfull(s)
    BY <1>1, <1>6 DEF Overfull, Needed
  <2>2. QED BY <1>5, <1>6, <2>1
<1>7. CASE s = q.sid /\ ok
  <2>1. CASE q.method = "Group.create"
    <3>1. server[s].signups = <<>>
      BY <1>1, <1>7, <2>1 DEF RequestFact, OfGuest, JoinMethods
    <3>2. ~Overfull(s)
      BY <1>3, <3>1 DEF Overfull
    <3>3. QED BY <1>5, <2>1, <3>2
  <2>2. CASE q.method \in {"Session.signup", "Session.load"}
    <3>1. server'[s].signups = Append(server[s].signups, [number |-> n, client |-> c])
          /\ server'[s].params = server[s].params
      BY <1>7, <2>2, ServedHandled
    <3>2. [number |-> n, client |-> c] \in [number : Nat, client : Client]
      OBVIOUS
    <3>3. Needed(s)' = Needed(s) /\ Len(server'[s].signups) = Len(server[s].signups) + 1
      BY <1>1, <1>2, <3>1, <3>2 DEF Needed
    <3>4. Len(server[s].signups) \in Nat
      BY <1>2
    <3>5. (Overfull(s) => Overfull(s)') /\ (Complete(s) => Overfull(s)')
      BY <1>3, <3>3, <3>4 DEF Overfull, Complete
    <3>6. QED BY <1>5, <3>5
  <2>3. CASE q.method \notin {"Group.create", "Session.signup", "Session.load"}
    <3>1. server'[s].signups = server[s].signups /\ server'[s].params = server[s].params
      BY <1>7, <2>3, ServedHandled DEF CallRecord, Method
    <3>2. Overfull(s)' <=> Overfull(s)
      BY <1>1, <3>1 DEF Overfull, Needed
    <3>3. QED BY <1>5, <2>3, <3>2
  <2>4. QED BY <2>1, <2>2, <2>3
<1>8. QED BY <1>6, <1>7

\* The server handles a request: it takes a message to notify of.
LEMMA MessageServeStep ==
  ASSUME FlowInv, FlowInv', OwnerInv, ReadyInv, MessageInv, NEW c \in Client, Serve(c)
  PROVE  MessageInv'
<1>1. PICK q \in CallRecord, n \in Nat, ok \in BOOLEAN : Served(c, q, n, ok)
  BY ServeServed
<1>2. UNCHANGED <<kind, app, left, done, deaf, surplus>> /\ task[c] = Idle
  BY DEF Serve, history
<1>3. /\ calls[c] # <<>> /\ q = Head(calls[c])
      /\ calls'[c] = Tail(calls[c]) /\ \A d \in Client \ {c} : calls'[d] = calls[d]
      /\ frames'[c] = frames[c] \/ frames'[c] = Append(frames[c], Reply(q, n, ok))
      /\ \A d \in Client \ {c} : frames'[d] = frames[d]
      /\ task'[c] = IF ok THEN Notification(c, q) ELSE Idle
      /\ \A d \in Client \ {c} : task'[d] = task[d]
  BY <1>1 DEF Served
<1>4. calls[c] \in Seq(CallRecord) /\ \A e \in Client : frames[e] \in Seq(Frame)
  BY DEF FlowInv, TypeOK
<1>5. ASSUME NEW s \in Sid
      PROVE  /\ Overfull(s) => Overfull(s)'
             /\ Parties(s) \subseteq Parties(s)'
             /\ Complete(s) => Parties(s)' = Parties(s) \/ Overfull(s)'
             /\ ok /\ q.method \in {"Session.signup", "Session.load"} /\ s = q.sid /\ Complete(s) => Overfull(s)'
  BY <1>1, ServedParties
<1>6. ASSUME NEW d \in Client, NEW s \in Sid
      PROVE  /\ Unsent(d, s)' <=> Unsent(d, s)
             /\ \A e \in Client : Taken(d, e, s)' <=> Taken(d, e, s)
  BY <1>2 DEF Unsent, Sends, Started, Taken
<1>7. ASSUME NEW d \in Client, NEW s \in Sid
      PROVE  /\ Asked(d, s)' => Asked(d, s)
             /\ AtMostOne(calls[d], MessageCall(s)) => AtMostOne(calls'[d], MessageCall(s))
             /\ d = c /\ q \in MessageCall(s) /\ AtMostOne(calls[d], MessageCall(s)) => Asked(d, s) /\ ~Asked(d, s)'
  <2>1. CASE d = c
    <3>1. /\ None(calls[c], MessageCall(s)) => None(Tail(calls[c]), MessageCall(s))
          /\ AtMostOne(calls[c], MessageCall(s)) => AtMostOne(Tail(calls[c]), MessageCall(s))
          /\ AtMostOne(calls[c], MessageCall(s)) /\ q \in MessageCall(s) => None(Tail(calls[c]), MessageCall(s))
          /\ q \in MessageCall(s) => ~None(calls[c], MessageCall(s))
      BY <1>3, <1>4, NoneTail
    <3>2. QED BY <1>3, <2>1, <3>1 DEF Asked
  <2>2. CASE d # c
    BY <1>3, <2>2 DEF Asked
  <2>3. QED BY <2>1, <2>2
<1>8. ASSUME NEW d \in Client, NEW s \in Sid
      PROVE  Carries(d, s)' =>
               \/ d # c /\ Carries(d, s)
               \/ /\ d = c /\ q \in MessageCall(s)
                  /\ task'[c].frame.from = c /\ task'[c].sid = s /\ task'[c].to = {}
  <2>1. CASE d # c
    BY <1>3, <2>1 DEF Carries
  <2>2. CASE d = c
    BY <1>3, <2>2 DEF Carries, Notification, Idle, MessageCall
  <2>3. QED BY <2>1, <2>2
<1>9. ASSUME NEW d \in Client, NEW e \in Client, NEW s \in Sid
      PROVE  Told(d, e, s)' => Told(d, e, s) \/ (d = c /\ q \in MessageCall(s))
  BY <1>3, <1>8 DEF Told, Carries
<1>10. Reply(q, n, ok) \in Frame
  <2>1. [q EXCEPT !.number = n] \in CallRecord
    BY DEF CallRecord
  <2>2. QED BY <2>1 DEF Reply, Frame
<1>11. ASSUME NEW d \in Client, NEW e \in Client, NEW s \in Sid
       PROVE  /\ Coming(d, e, s)' => Coming(d, e, s)
              /\ AtMostOne(frames[e], MessageFrame(d, s)) => AtMostOne(frames'[e], MessageFrame(d, s))
  <2>1. CASE e = c
    <3>1. Reply(q, n, ok) \notin MessageFrame(d, s)
      BY DEF Reply, MessageFrame
    <3>2. QED BY <1>3, <1>4, <1>10, <2>1, <3>1, NoneAppend DEF Coming
  <2>2. CASE e # c
    BY <1>3, <2>2 DEF Coming
  <2>3. QED BY <2>1, <2>2
<1>12. ASSUME NEW d \in Client, NEW s \in Sid
       PROVE  SentOnce(d, s)' /\ FromParty(d, s)' /\ Ordered(d, s)'
  <2>1. SentOnce(d, s) /\ FromParty(d, s) /\ Ordered(d, s)
    BY DEF MessageInv
  <2>2. SentOnce(d, s)'
    <3>1. d = c /\ q \in MessageCall(s) => ~Unsent(d, s)' /\ ~Asked(d, s)'
      BY <1>6, <1>7, <2>1 DEF SentOnce
    <3>2. QED BY <1>6, <1>7, <1>8, <2>1, <3>1 DEF SentOnce
  <2>3. FromParty(d, s)'
    BY <1>2, <1>3, <1>5, <1>8, <2>1 DEF FromParty
  <2>4. CASE frames'[d] = frames[d]
    <3>1. Ordered(d, s)'
      BY <1>5, <2>1, <2>4 DEF Ordered, SignedUpFrame
    <3>2. QED BY <2>2, <2>3, <3>1
  <2>5. CASE d = c /\ frames'[c] = Append(frames[c], Reply(q, n, ok))
    <3>1. /\ Len(frames'[c]) = Len(frames[c]) + 1 /\ Len(frames[c]) \in Nat
          /\ \A i \in 1 .. Len(frames[c]) : frames'[c][i] = frames[c][i]
          /\ frames'[c][Len(frames[c]) + 1] = Reply(q, n, ok)
      BY <1>4, <1>10, <2>5
    <3>2. ASSUME NEW i \in 1 .. Len(frames'[c]), NEW k \in 1 .. Len(frames'[c]),
                 frames'[c][i].type = "message", frames'[c][i].sid = s, SignedUpFrame(frames'[c][k], s)
          PROVE  k < i \/ Overfull(s)'
      <4>1. Reply(q, n, ok).type = "answer"
        BY DEF Reply
      <4>2. i \in 1 .. Len(frames[c])
        BY <3>1, <3>2, <4>1
      <4>3. frames[c][i].type = "message" /\ frames[c][i].sid = s
        BY <3>1, <3>2, <4>2
      <4>4. CASE k \in 1 .. Len(frames[c])
        <5>1. frames'[c][k] = frames[c][k]
          BY <3>1, <4>4
        <5>2. k < i \/ Overfull(s)
          BY <2>1, <2>5, <3>2, <4>2, <4>3, <4>4, <5>1 DEF Ordered
        <5>3. QED BY <1>5, <5>2
      <4>5. CASE k = Len(frames[c]) + 1
        <5>1. ok /\ q.method \in {"Session.signup", "Session.load"} /\ s = q.sid
          <6>1. SignedUpFrame(Reply(q, n, ok), s)
            BY <3>1, <3>2, <4>5
          <6>2. /\ [q EXCEPT !.number = n].method = q.method
                /\ [q EXCEPT !.number = n].sid = q.sid
            BY DEF CallRecord
          <6>3. QED BY <6>1, <6>2 DEF SignedUpFrame, Reply
        <5>2. frames[c][i] \in Frame
          BY <1>4, <4>2
        <5>3. PICK e \in Client : frames[c][i] \in MessageFrame(e, s)
          BY <4>3, <5>2 DEF MessageFrame, Frame, Event
        <5>4. Coming(e, c, s)
          BY <4>2, <5>3 DEF Coming, None
        <5>5. ~Unsent(e, s)
          BY <5>4 DEF MessageInv, OnePlace
        <5>6. Complete(s)
          BY <5>5, StartedParty DEF Unsent
        <5>7. QED BY <1>5, <5>1, <5>6
      <4>6. QED BY <3>1, <4>4, <4>5
    <3>3. Ordered(d, s)'
      BY <2>5, <3>2 DEF Ordered, SignedUpFrame
    <3>4. QED BY <2>2, <2>3, <3>3
  <2>6. QED BY <1>3, <2>4, <2>5
<1>13. ASSUME NEW d \in Client, NEW e \in Client, NEW s \in Sid
       PROVE  OnePlace(d, e, s)' /\ ToParty(d, e, s)' /\ AllTaken(d, e, s)'
  <2>1. OnePlace(d, e, s) /\ ToParty(d, e, s) /\ AllTaken(d, e, s) /\ SentOnce(d, s)
    BY DEF MessageInv
  <2>2. d = c /\ q \in MessageCall(s) => Asked(d, s)
    BY <1>7, <2>1 DEF SentOnce
  <2>3. Gone(d, e, s) => Gone(d, e, s)'
    BY <1>6, <1>7, <1>9, <1>11, <2>2 DEF Gone
  <2>4. OnePlace(d, e, s)'
    BY <1>6, <1>7, <1>9, <1>11, <2>1, <2>2, <2>3 DEF OnePlace
  <2>5. ToParty(d, e, s)'
    BY <1>5, <1>6, <1>11, <2>1 DEF ToParty
  <2>6. AllTaken(d, e, s)'
    <3>1. <<e, s>> \in done => Complete(s)
      BY StartedParty DEF Started
    <3>2. QED BY <1>2, <1>5, <2>1, <2>3, <3>1 DEF AllTaken
  <2>7. QED BY <2>4, <2>5, <2>6
<1>14. NothingLost'
  <2>1. \A s \in Sid : Overfull(s) => Overfull(s)'
    BY <1>5
  <2>2. QED BY <1>2, <2>1 DEF MessageInv, NothingLost
<1>15. QED BY <1>12, <1>13, <1>14 DEF MessageInv


-----------------------------------------------------------------------------
\* The invariant of the round messages

\* Before anybody opens a wizard there is no message.
LEMMA InitMessage == Init => MessageInv
<1> SUFFICES ASSUME Init PROVE MessageInv
  OBVIOUS
<1>1. \A c \in Client : /\ app[c] = NewApp /\ frames[c] = <<>> /\ calls[c] = <<>> /\ task[c] = Idle
                        /\ Len(frames[c]) = 0 /\ Len(calls[c]) = 0
  BY DEF Init
<1>2. done = {} /\ deaf = {} /\ surplus = {}
  BY DEF Init
<1>3. ASSUME NEW c \in Client, NEW d \in Client, NEW s \in Sid
      PROVE  ~Asked(d, s) /\ ~Carries(d, s) /\ ~Coming(d, c, s) /\ ~Taken(d, c, s)
  BY <1>1 DEF Asked, Carries, Idle, Coming, None, Taken, NewApp
<1>4. ASSUME NEW c \in Client, NEW d \in Client, NEW s \in Sid
      PROVE  /\ SentOnce(d, s) /\ FromParty(d, s) /\ Ordered(d, s)
             /\ OnePlace(d, c, s) /\ ToParty(d, c, s) /\ AllTaken(d, c, s)
  BY <1>1, <1>2, <1>3 DEF SentOnce, FromParty, Ordered, OnePlace, ToParty, AllTaken, AtMostOne
<1>5. QED BY <1>2, <1>4 DEF MessageInv, NothingLost

\* Every step keeps it.
LEMMA NextMessage ==
  ASSUME Patient, FlowInv, FlowInv', OwnerInv, ReadyInv, MessageInv, [Next]_vars
  PROVE  MessageInv'
<1>1. CASE UNCHANGED vars \/ \E c \in Client : ClientDisconnected(c)
  <2>1. UNCHANGED <<kind, server, calls, task, frames, app, done, deaf, surplus>>
    BY <1>1 DEF vars, ClientDisconnected, history
  <2>2. ASSUME NEW c \in Client PROVE MessageInv'
    <3>1. Still(app[c], app[c])
      BY DEF Still
    <3>2. Quiet(c)
      BY <2>1, <3>1, StillQuiet
    <3>3. QED BY <3>2, MessageQuietStep
  <2>3. ASSUME Client = {} PROVE MessageInv'
    <3>1. \A s \in Sid : Overfull(s)' <=> Overfull(s)
      BY <2>1 DEF Overfull, Needed
    <3>2. NothingLost'
      BY <2>1, <3>1 DEF MessageInv, NothingLost
    <3>3. QED BY <2>3, <3>2 DEF MessageInv
  <2>4. QED BY <2>2, <2>3
<1>2. ASSUME NEW c \in Client, System(c)
      PROVE  MessageInv'
  BY <1>1, <1>2, MessageServeStep, MessageNotifyStep, MessageUserSteps, MessageSendStep,
     MessageSentQuiet, MessageReceiveStep, MessageCallSteps, MessageSignupSteps,
     MessageReadySteps, MessageEndSteps
     DEF System, KeygenStep, SignStep
<1>3. ASSUME NEW c \in Client, User(c)
      PROVE  MessageInv'
  BY <1>3, MessagePageSteps, MessageUserSteps DEF User, KeygenUser, SignUser
<1>4. QED BY <1>1, <1>2, <1>3 DEF Next

\* While users are patient: the round message of a party is in one place from
\* the computation that sends it to the sink that takes it, and a computation
\* ends when it has that of every other party, or there is one too many.
THEOREM MessageInvHolds ==
  ASSUME Patient
  PROVE  Spec => [](FlowInv /\ OwnerInv /\ ReadyInv /\ MessageInv)
<1>1. Init => FlowInv /\ OwnerInv /\ ReadyInv /\ MessageInv
  BY InitFlow, InitOwner, InitReady, InitMessage
<1>2. FlowInv /\ OwnerInv /\ ReadyInv /\ MessageInv /\ [Next]_vars
        => FlowInv' /\ OwnerInv' /\ ReadyInv' /\ MessageInv'
  BY NextFlow, NextOwner, NextReady, NextMessage
<1>3. QED BY <1>1, <1>2, PTL DEF Spec

\* No round message reaches a client that has no sink for it, except of a
\* session that signs and has a party too many: the client is done only when it
\* has them all.
THEOREM MessagesHeardHolds ==
  ASSUME Patient
  PROVE  Spec => []MessagesHeard
<1>1. ASSUME MessageInv,
             kind = "keygen" => \A s \in Sid : Clients(s) = server[s].members => ~Overfull(s)
      PROVE  MessagesHeard
  BY <1>1 DEF MessageInv, NothingLost, MessagesHeard, TooMany
<1>2. QED BY <1>1, MessageInvHolds, KeyFits, PTL

\* No sink gets more messages than it expects, with the same exception: they
\* are those of the other parties, each of which comes once.
THEOREM NoSurplusHolds ==
  ASSUME Patient
  PROVE  Spec => []NoSurplus
<1>1. ASSUME MessageInv,
             kind = "keygen" => \A s \in Sid : Clients(s) = server[s].members => ~Overfull(s)
      PROVE  NoSurplus
  BY <1>1 DEF MessageInv, NothingLost, NoSurplus, TooMany
<1>2. QED BY <1>1, MessageInvHolds, KeyFits, PTL

=============================================================================
