--------------------------- MODULE DappFlowProofs ----------------------------
(***************************************************************************)
(* Theorems about DappFlow, for every finite set of clients, every key     *)
(* with valid parameters, and every bound, with users that leave no page   *)
(* while a call or a computation of it is under way (Patient).             *)
(***************************************************************************)
EXTENDS DappFlow, FiniteSetTheorems, SequenceTheorems, TLAPS

-----------------------------------------------------------------------------
\* One client: what its page awaits

\* The calls of a page, which are all but those of a computation, and the
\* answers to them
PageCall == {q \in CallRecord : q.fn # "message"}
PageAnswer == {f \in Frame : f.type = "answer" /\ f.call.fn # "message"}

None(s, X) == \A i \in 1 .. Len(s) : s[i] \notin X
AtMostOne(s, X) == \A i, j \in 1 .. Len(s) : s[i] \in X /\ s[j] \in X => i = j

\* Nothing is awaited
Silent(a, cs, fs) == None(cs, PageCall) /\ None(fs, PageAnswer) /\ a.timers = {}

\* A page awaits one thing at a time: a timer or a call
Alone(a, cs, fs) ==
  /\ AtMostOne(cs, PageCall) /\ AtMostOne(fs, PageAnswer)
  /\ None(cs, PageCall) \/ None(fs, PageAnswer)
  /\ (None(cs, PageCall) /\ None(fs, PageAnswer)) \/ a.timers = {}
  /\ \A t, u \in a.timers : t = u

\* The page that is still on the screen started it, before it made a sink or a
\* listener
TalkOnPage(k, a, q) ==
  /\ q.visit = a.visit /\ a.sinks = <<>> /\ a.once = {}
  /\ \/ q.fn = "create" /\ a.wizard = "create" /\ a.step = 0
     \/ q.fn = "join" /\ a.wizard = "join" /\ a.step = 1
     \/ q.fn = "load" /\ a.wizard = "join" /\ a.step = 1 /\ k # "keygen"

TimerOnPage(a, t) ==
  /\ t.visit = a.visit /\ t.sid = a.target /\ a.sinks = <<>> /\ a.once = {}
  /\ a.wizard = "join" /\ a.step = 1

ValidForm(f) == f.threshold \in 2 .. f.parties

\* What a page can have in its state
Page(k, a) ==
  /\ a.wizard = "none" => a.step = 0
  /\ a.wizard = "join" => a.target \in Sid
  /\ a.step = 0 => a.sinks = <<>>
  /\ a.wizard = "join" /\ a.step = 1 /\ k # "keygen" => a.sinks = <<>>
  /\ a.wizard = "create" /\ a.step >= 1 => a.session \in Sid
  /\ a.once # {} => k = "keygen" /\ a.step = 1 /\ a.session \in Sid /\ a.transport \in Sid
  /\ a.candidate # 0 => k # "keygen" /\ a.session \in Sid /\ a.transport \in Sid
  /\ Len(a.sinks) <= 1
  /\ a.wizard = "create" /\ k = "keygen" => ValidForm(a.form)

\* A page that computes a key has one computation
Computing(k, a) ==
  /\ \A j \in a.jobs : j.visit <= a.visit
  /\ k = "keygen" => \A i, j \in a.jobs : Mounted(a, i) /\ Mounted(a, j) => i = j /\ a.step = 2

Awaited(k, a, cs, fs) ==
  /\ Alone(a, cs, fs)
  /\ \A i \in 1 .. Len(cs) : cs[i] \in PageCall => TalkOnPage(k, a, cs[i])
  /\ \A i \in 1 .. Len(fs) : fs[i] \in PageAnswer => TalkOnPage(k, a, fs[i].call)
  /\ \A t \in a.timers : TimerOnPage(a, t)

Proposed(cs) == \A i \in 1 .. Len(cs) : cs[i].method = "Group.create" => ValidParameters(cs[i].params)

Local(k, a, cs, fs) ==
  /\ Page(k, a)
  /\ Computing(k, a)
  /\ Awaited(k, a, cs, fs)
  /\ Proposed(cs)

LocalInv == \A c \in Client : Local(kind, app[c], calls[c], frames[c])

-----------------------------------------------------------------------------
\* Sequences

\* An element outside a set is appended to a sequence.
LEMMA NoneAppend ==
  ASSUME NEW S, NEW s \in Seq(S), NEW x \in S, NEW X, x \notin X
  PROVE  /\ None(s, X) => None(Append(s, x), X)
         /\ AtMostOne(s, X) => AtMostOne(Append(s, x), X)
BY DEF None, AtMostOne

\* The first element of a set is appended.
LEMMA FirstAppend ==
  ASSUME NEW S, NEW s \in Seq(S), NEW x \in S, NEW X, None(s, X)
  PROVE  AtMostOne(Append(s, x), X)
BY DEF None, AtMostOne

\* The tail of a sequence.
LEMMA TailElements ==
  ASSUME NEW S, NEW s \in Seq(S), s # <<>>
  PROVE  /\ Tail(s) \in Seq(S) /\ Head(s) \in S /\ Head(s) = s[1]
         /\ Len(s) \in Nat \ {0} /\ Len(Tail(s)) = Len(s) - 1
         /\ \A i \in 1 .. Len(Tail(s)) : i + 1 \in 1 .. Len(s) /\ Tail(s)[i] = s[i + 1]
OBVIOUS

\* The tail has no more elements of a set.
LEMMA NoneTail ==
  ASSUME NEW S, NEW s \in Seq(S), s # <<>>, NEW X
  PROVE  /\ None(s, X) => None(Tail(s), X)
         /\ AtMostOne(s, X) => AtMostOne(Tail(s), X)
         /\ AtMostOne(s, X) /\ Head(s) \in X => None(Tail(s), X)
         /\ Head(s) \in X => ~None(s, X)
<1> USE TailElements
<1>1. None(s, X) => None(Tail(s), X)
  BY DEF None
<1>2. ASSUME AtMostOne(s, X), NEW i \in 1 .. Len(Tail(s)), NEW j \in 1 .. Len(Tail(s)),
             Tail(s)[i] \in X, Tail(s)[j] \in X
      PROVE  i = j
  BY <1>2 DEF AtMostOne
<1>3. ASSUME AtMostOne(s, X), Head(s) \in X, NEW i \in 1 .. Len(Tail(s)), Tail(s)[i] \in X
      PROVE  FALSE
  <2>1. 1 \in 1 .. Len(s) /\ i + 1 \in 1 .. Len(s) /\ i + 1 # 1
    OBVIOUS
  <2>2. QED BY <1>3, <2>1 DEF AtMostOne
<1>4. Head(s) \in X => ~None(s, X)
  BY DEF None
<1>5. QED BY <1>1, <1>2, <1>3, <1>4 DEF AtMostOne, None

-----------------------------------------------------------------------------
\* What a page awaits, step by step

\* A page that awaits nothing.
LEMMA SilentAwaits ==
  ASSUME NEW k, NEW a, NEW cs, NEW fs, Silent(a, cs, fs)
  PROVE  Awaited(k, a, cs, fs)
BY DEF Silent, Awaited, Alone, None, AtMostOne

\* It asks for something.
LEMMA SilentAsks ==
  ASSUME NEW k, NEW a, NEW cs \in Seq(CallRecord), NEW fs, Silent(a, cs, fs),
         NEW q \in CallRecord, TalkOnPage(k, a, q)
  PROVE  Awaited(k, a, Append(cs, q), fs)
<1>1. AtMostOne(Append(cs, q), PageCall)
  BY FirstAppend DEF Silent
<1>2. \A i \in 1 .. Len(Append(cs, q)) : Append(cs, q)[i] \in PageCall => Append(cs, q)[i] = q
  BY DEF Silent, None
<1>3. QED BY <1>1, <1>2 DEF Silent, Awaited, Alone, None, AtMostOne

\* A computation asks for something.
LEMMA MessageAsked ==
  ASSUME NEW k, NEW a, NEW cs \in Seq(CallRecord), NEW fs, Awaited(k, a, cs, fs),
         NEW q \in CallRecord, q.fn = "message"
  PROVE  Awaited(k, a, Append(cs, q), fs)
<1>0. q \notin PageCall
  BY DEF PageCall
<1>1. /\ None(cs, PageCall) => None(Append(cs, q), PageCall)
      /\ AtMostOne(cs, PageCall) => AtMostOne(Append(cs, q), PageCall)
  BY <1>0, NoneAppend
<1>2. ASSUME NEW i \in 1 .. Len(Append(cs, q)), Append(cs, q)[i] \in PageCall
      PROVE  TalkOnPage(k, a, Append(cs, q)[i])
  BY <1>0, <1>2 DEF Awaited
<1>3. QED BY <1>1, <1>2 DEF Awaited, Alone

\* An event reaches the socket.
LEMMA EventArrives ==
  ASSUME NEW k, NEW a, NEW cs, NEW fs \in Seq(Frame), Awaited(k, a, cs, fs),
         NEW f \in Event
  PROVE  Awaited(k, a, cs, Append(fs, f))
<1>0. f \in Frame /\ f \notin PageAnswer
  BY DEF Frame, Event, PageAnswer
<1>1. /\ None(fs, PageAnswer) => None(Append(fs, f), PageAnswer)
      /\ AtMostOne(fs, PageAnswer) => AtMostOne(Append(fs, f), PageAnswer)
  BY <1>0, NoneAppend
<1>2. ASSUME NEW i \in 1 .. Len(Append(fs, f)), Append(fs, f)[i] \in PageAnswer
      PROVE  TalkOnPage(k, a, Append(fs, f)[i].call)
  BY <1>0, <1>2 DEF Awaited
<1>3. QED BY <1>1, <1>2 DEF Awaited, Alone

\* The page's answer is delivered: now it awaits nothing.
LEMMA AnswerHeard ==
  ASSUME NEW k, NEW a, NEW cs, NEW fs \in Seq(Frame), Awaited(k, a, cs, fs),
         fs # <<>>, Head(fs) \in PageAnswer
  PROVE  Silent(a, cs, Tail(fs)) /\ TalkOnPage(k, a, Head(fs).call)
<1>1. None(Tail(fs), PageAnswer) /\ ~None(fs, PageAnswer)
  BY NoneTail DEF Awaited, Alone
<1>2. Head(fs) = fs[1] /\ 1 \in 1 .. Len(fs)
  BY TailElements
<1>3. QED BY <1>1, <1>2 DEF Silent, Awaited, Alone

\* Another frame is delivered.
LEMMA OtherHeard ==
  ASSUME NEW k, NEW a, NEW cs, NEW fs \in Seq(Frame), Awaited(k, a, cs, fs), fs # <<>>
  PROVE  Awaited(k, a, cs, Tail(fs))
<1>1. /\ None(fs, PageAnswer) => None(Tail(fs), PageAnswer)
      /\ AtMostOne(fs, PageAnswer) => AtMostOne(Tail(fs), PageAnswer)
  BY NoneTail
<1>2. ASSUME NEW i \in 1 .. Len(Tail(fs)), Tail(fs)[i] \in PageAnswer
      PROVE  TalkOnPage(k, a, Tail(fs)[i].call)
  BY <1>2, TailElements DEF Awaited
<1>3. QED BY <1>1, <1>2 DEF Awaited, Alone

\* The server answers the first request.
LEMMA RequestServed ==
  ASSUME NEW k, NEW a, NEW cs \in Seq(CallRecord), NEW fs \in Seq(Frame),
         Awaited(k, a, cs, fs), cs # <<>>, NEW n \in Nat, NEW ok \in BOOLEAN,
         NEW f, f = [type |-> "answer", ok |-> ok, call |-> [Head(cs) EXCEPT !.number = n]]
  PROVE  f \in Frame /\ Awaited(k, a, Tail(cs), Append(fs, f))
<1>0. Head(cs) \in CallRecord /\ Head(cs) = cs[1] /\ 1 \in 1 .. Len(cs)
  BY TailElements
<1>f. /\ f \in Frame
      /\ f \in PageAnswer <=> Head(cs) \in PageCall
      /\ f.call.fn = Head(cs).fn /\ f.call.visit = Head(cs).visit
  BY <1>0 DEF Frame, CallRecord, PageAnswer, PageCall
<1>1. /\ None(cs, PageCall) => None(Tail(cs), PageCall)
      /\ AtMostOne(Tail(cs), PageCall)
      /\ Head(cs) \in PageCall => ~None(cs, PageCall) /\ None(Tail(cs), PageCall)
  BY NoneTail DEF Awaited, Alone
<1>2. ASSUME NEW i \in 1 .. Len(Tail(cs)), Tail(cs)[i] \in PageCall
      PROVE  TalkOnPage(k, a, Tail(cs)[i])
  BY <1>2, TailElements DEF Awaited
<1>3. CASE Head(cs) \in PageCall
  <2>1. None(fs, PageAnswer) /\ a.timers = {} /\ TalkOnPage(k, a, Head(cs))
    BY <1>0, <1>1, <1>3 DEF Awaited, Alone
  <2>2. TalkOnPage(k, a, f.call)
    BY <2>1, <1>f DEF TalkOnPage
  <2>3. AtMostOne(Append(fs, f), PageAnswer)
    BY <2>1, <1>f, FirstAppend
  <2>4. \A i \in 1 .. Len(Append(fs, f)) : Append(fs, f)[i] \in PageAnswer => Append(fs, f)[i] = f
    BY <2>1, <1>f DEF None
  <2>5. QED BY <1>1, <1>2, <1>3, <1>f, <2>1, <2>2, <2>3, <2>4 DEF Awaited, Alone, None
<1>4. CASE Head(cs) \notin PageCall
  <2>1. /\ None(fs, PageAnswer) => None(Append(fs, f), PageAnswer)
        /\ AtMostOne(fs, PageAnswer) => AtMostOne(Append(fs, f), PageAnswer)
    BY <1>4, <1>f, NoneAppend
  <2>2. ASSUME NEW i \in 1 .. Len(Append(fs, f)), Append(fs, f)[i] \in PageAnswer
        PROVE  TalkOnPage(k, a, Append(fs, f)[i].call)
    BY <1>4, <1>f, <2>2 DEF Awaited
  <2>3. QED BY <1>1, <1>2, <1>f, <2>1, <2>2 DEF Awaited, Alone
<1>5. QED BY <1>3, <1>4, <1>f

\* The answer reaches nobody.
LEMMA RequestDropped ==
  ASSUME NEW k, NEW a, NEW cs \in Seq(CallRecord), NEW fs,
         Awaited(k, a, cs, fs), cs # <<>>
  PROVE  Awaited(k, a, Tail(cs), fs)
<1>1. /\ None(cs, PageCall) => None(Tail(cs), PageCall)
      /\ AtMostOne(cs, PageCall) => AtMostOne(Tail(cs), PageCall)
  BY NoneTail
<1>2. ASSUME NEW i \in 1 .. Len(Tail(cs)), Tail(cs)[i] \in PageCall
      PROVE  TalkOnPage(k, a, Tail(cs)[i])
  BY <1>2, TailElements DEF Awaited
<1>3. QED BY <1>1, <1>2 DEF Awaited, Alone

\* The form of a request is kept by the ones beside it.
LEMMA ProposedKept ==
  ASSUME NEW cs \in Seq(CallRecord), Proposed(cs)
  PROVE  /\ cs # <<>> => Proposed(Tail(cs))
         /\ \A q \in CallRecord :
               (q.method = "Group.create" => ValidParameters(q.params)) => Proposed(Append(cs, q))
<1>1. ASSUME cs # <<>> PROVE Proposed(Tail(cs))
  BY <1>1, TailElements DEF Proposed
<1>2. ASSUME NEW q \in CallRecord, q.method = "Group.create" => ValidParameters(q.params)
      PROVE  Proposed(Append(cs, q))
  BY <1>2 DEF Proposed
<1>3. QED BY <1>1, <1>2

-----------------------------------------------------------------------------
\* The parts that actions on an app are made of

USE DEF NewApp

\* A render changes the listener of Signer only.
LEMMA RenderType ==
  ASSUME NEW a \in AppRecord
  PROVE  Render(a) \in AppRecord
BY DEF Render, AppRecord

\* The next page.
LEMMA HandleNextType ==
  ASSUME NEW a \in AppRecord, a.step < 3
  PROVE  /\ HandleNext(a) \in AppRecord
         /\ HandleNext(a).step = a.step + 1
         /\ \A x \in {"wizard", "visit", "target", "form", "group", "session", "number",
                      "transport", "candidate", "proof", "once", "sinks", "inbox", "timers", "jobs"} :
               HandleNext(a)[x] = a[x]
<1>1. a.step \in 0 .. 3 /\ a.step + 1 \in 0 .. 3
  BY DEF AppRecord
<1>2. [a EXCEPT !.step = a.step + 1, !.ready = FALSE] \in AppRecord
  BY <1>1 DEF AppRecord
<1>3. HandleNext(a) \in AppRecord
  BY <1>2, RenderType DEF HandleNext
<1>4. QED
  BY <1>3 DEF HandleNext, Render, AppRecord

\* A page is left.
LEMMA UnmountType ==
  ASSUME NEW a \in AppRecord
  PROVE  /\ Unmount(a) \in AppRecord
         /\ Unmount(a).wizard = "none" /\ Unmount(a).step = 0 /\ Unmount(a).target = 0
         /\ Unmount(a).form = NoForm /\ Unmount(a).once = {} /\ Unmount(a).sinks = <<>>
         /\ \A x \in {"visit", "group", "session", "number", "transport", "candidate", "proof",
                      "inbox", "timers", "jobs"} : Unmount(a)[x] = a[x]
<1>1. 0 \in 0 .. 3 /\ 0 \in 0 .. MaxSessions /\ NoForm \in Form /\ <<>> \in Seq(Sid)
  BY BoundsAssumption DEF NoForm, Form
<1>2. [a EXCEPT !.wizard = "none", !.step = 0, !.target = 0, !.form = NoForm, !.ready = FALSE]
        \in AppRecord
  BY <1>1 DEF AppRecord
<1>3. QED
  BY <1>1, <1>2 DEF Unmount, ListenerCleanup, AppRecord

\* The session is stored.
LEMMA SetSessionType ==
  ASSUME NEW a \in AppRecord, NEW s \in Sid, NEW n \in Nat
  PROVE  /\ SetSession(a, s, n) \in AppRecord
         /\ SetSession(a, s, n).session = s /\ SetSession(a, s, n).number = n
         /\ \A x \in {"wizard", "step", "visit", "target", "form", "ready", "group", "candidate",
                      "transport", "proof", "once", "timers", "jobs", "sinks", "inbox"} :
              SetSession(a, s, n)[x] = a[x]
<1>1. s \in 0 .. MaxSessions
  BY BoundsAssumption DEF Sid
<1> DEFINE b == [a EXCEPT !.session = s, !.number = n]
<1>2. b \in AppRecord
  BY <1>1 DEF AppRecord
<1>3. b.session = s /\ b.number = n
      /\ \A x \in {"wizard", "step", "visit", "target", "form", "ready", "group", "candidate",
                   "transport", "proof", "once", "timers", "jobs", "sinks", "inbox"} : b[x] = a[x]
  BY DEF AppRecord
<1>4. SetSession(a, s, n) = Render(b)
  BY DEF SetSession
<1> HIDE DEF b
<1>5. Render(b) \in AppRecord
  BY <1>2, RenderType
<1>6. Render(b).session = b.session /\ Render(b).number = b.number
      /\ \A x \in {"wizard", "step", "visit", "target", "form", "ready", "group", "candidate",
                   "transport", "proof", "once", "timers", "jobs", "sinks", "inbox"} : Render(b)[x] = b[x]
  BY <1>2 DEF Render, AppRecord
<1>7. QED BY <1>3, <1>4, <1>5, <1>6

\* A session is stored, and its sink is made.
LEMMA CreatedType ==
  ASSUME NEW a \in AppRecord, NEW q \in CallRecord
  PROVE  /\ Created(a, q) \in AppRecord
         /\ Created(a, q).session = q.sid /\ Created(a, q).number = q.number
         /\ Created(a, q).transport = q.sid /\ Created(a, q).sinks = Append(a.sinks, q.sid)
         /\ Created(a, q).inbox = [a.inbox EXCEPT ![q.sid] = {}]
         /\ \A x \in {"wizard", "step", "visit", "target", "form", "ready", "group", "candidate",
                      "proof", "once", "timers", "jobs"} : Created(a, q)[x] = a[x]
<1>1. q.sid \in Sid /\ q.sid \in 0 .. MaxSessions /\ q.number \in Nat
  BY BoundsAssumption DEF CallRecord, Sid
<1>2. [a EXCEPT !.session = q.sid, !.number = q.number] \in AppRecord
  BY <1>1 DEF AppRecord
<1> DEFINE b == SetSession(a, q.sid, q.number)
<1>3. b \in AppRecord /\ b.session = q.sid /\ b.number = q.number
      /\ \A x \in {"wizard", "step", "visit", "target", "form", "ready", "group", "candidate",
                   "proof", "once", "timers", "jobs", "sinks", "inbox"} : b[x] = a[x]
  BY <1>1, SetSessionType
<1>4. Created(a, q) = PrepareTransport(b, q.sid)
  BY DEF Created
<1> HIDE DEF b
<1>5. Append(b.sinks, q.sid) \in Seq(Sid) /\ [b.inbox EXCEPT ![q.sid] = {}] \in [Sid -> SUBSET Client]
  BY <1>1, <1>3 DEF AppRecord
<1> DEFINE d == [b EXCEPT !.transport = q.sid, !.sinks = Append(b.sinks, q.sid),
                         !.inbox = [b.inbox EXCEPT ![q.sid] = {}]]
<1>6. d \in AppRecord /\ d.session = q.sid /\ d.number = q.number
      /\ d.transport = q.sid /\ d.sinks = Append(a.sinks, q.sid)
      /\ d.inbox = [a.inbox EXCEPT ![q.sid] = {}]
      /\ \A x \in {"wizard", "step", "visit", "target", "form", "ready", "group", "candidate",
                   "proof", "once", "timers", "jobs"} : d[x] = a[x]
  BY <1>1, <1>3, <1>5 DEF AppRecord
<1>7. PrepareTransport(b, q.sid) = Render(d)
  BY DEF PrepareTransport
<1> HIDE DEF d
<1>8. Created(a, q) = Render(d) /\ Render(d) \in AppRecord
  BY <1>4, <1>6, <1>7, RenderType
<1>9. /\ Render(d).session = d.session /\ Render(d).number = d.number
      /\ Render(d).transport = d.transport /\ Render(d).sinks = d.sinks /\ Render(d).inbox = d.inbox
      /\ \A x \in {"wizard", "step", "visit", "target", "form", "ready", "group", "candidate",
                   "proof", "once", "timers", "jobs"} : Render(d)[x] = d[x]
  BY <1>6 DEF Render, AppRecord
<1>10. QED BY <1>6, <1>8, <1>9

\* One field of an app is set.
LEMMA FieldTypes ==
  ASSUME NEW a \in AppRecord
  PROVE  /\ \A x \in SUBSET Visit : /\ [a EXCEPT !.timers = x] \in AppRecord
                                   /\ [a EXCEPT !.once = x] \in AppRecord
         /\ \A x \in SUBSET Job : [a EXCEPT !.jobs = x] \in AppRecord
         /\ \A x \in BOOLEAN : /\ [a EXCEPT !.ready = x] \in AppRecord
                              /\ [a EXCEPT !.signer = x] \in AppRecord
         /\ \A x \in 0 .. MaxSessions : /\ [a EXCEPT !.group = x] \in AppRecord
                                       /\ [a EXCEPT !.candidate = x] \in AppRecord
         /\ \A x \in Form : [a EXCEPT !.form = x] \in AppRecord
         /\ \A x \in [Sid -> SUBSET Client] : [a EXCEPT !.inbox = x] \in AppRecord
BY DEF AppRecord

-----------------------------------------------------------------------------
\* What is known of the client that takes a step.
LEMMA OwnState ==
  ASSUME TypeOK, LocalInv, NEW c \in Client
  PROVE  /\ app[c] \in AppRecord /\ calls[c] \in Seq(CallRecord) /\ frames[c] \in Seq(Frame)
         /\ Local(kind, app[c], calls[c], frames[c])
         /\ app = [app EXCEPT ![c] = app[c]]
         /\ calls = [calls EXCEPT ![c] = calls[c]]
         /\ frames = [frames EXCEPT ![c] = frames[c]]
BY DEF TypeOK, LocalInv

\* A step of one client leaves the others alone.
LEMMA OwnStep ==
  ASSUME TypeOK, LocalInv, NEW c \in Client, NEW a \in AppRecord,
         NEW cs \in Seq(CallRecord), NEW fs \in Seq(Frame),
         Become(c, a), calls' = [calls EXCEPT ![c] = cs], frames' = [frames EXCEPT ![c] = fs],
         UNCHANGED <<kind, server, task, conn>>, left' \subseteq Client, invited' \subseteq Sid,
         Local(kind, a, cs, fs)
  PROVE  TypeOK' /\ LocalInv'
<1>1. TypeOK'
  BY DEF TypeOK, Become
<1>2. ASSUME NEW d \in Client
      PROVE  Local(kind, app'[d], calls'[d], frames'[d])
  BY <1>2 DEF TypeOK, Become, LocalInv
<1>3. QED BY <1>1, <1>2 DEF LocalInv

\* A step that leaves the kinds of history alone that are typed.
LEMMA HistoryTypes ==
  ASSUME TypeOK, UNCHANGED <<left, invited>>
  PROVE  left' \subseteq Client /\ invited' \subseteq Sid
BY DEF TypeOK

\* Two states of an app that differ in what LocalInv does not look at.
Same(a, b) ==
  /\ b.wizard = a.wizard /\ b.step = a.step /\ b.visit = a.visit /\ b.target = a.target
  /\ b.form = a.form /\ b.session = a.session /\ b.transport = a.transport
  /\ b.candidate = a.candidate /\ b.sinks = a.sinks /\ b.once = a.once
  /\ b.timers = a.timers /\ b.jobs = a.jobs

\* The fields it does not look at.
LEMMA SameFields ==
  ASSUME NEW a \in AppRecord, NEW x
  PROVE  /\ Same(a, a) /\ Same(a, [a EXCEPT !.ready = x]) /\ Same(a, [a EXCEPT !.inbox = x])
         /\ Same(a, [a EXCEPT !.group = x]) /\ Same(a, [a EXCEPT !.signer = x])
BY DEF Same, AppRecord

\* A group is stored.
LEMMA SetGroupType ==
  ASSUME NEW a \in AppRecord, NEW q \in CallRecord
  PROVE  /\ SetGroup(a, q.sid) \in AppRecord /\ Same(a, SetGroup(a, q.sid))
         /\ SetGroup(a, q.sid).group = q.sid
         /\ \A x \in {"ready", "number", "proof", "inbox"} : SetGroup(a, q.sid)[x] = a[x]
<1>1. q.sid \in 0 .. MaxSessions
  BY BoundsAssumption DEF CallRecord, Sid
<1>2. [a EXCEPT !.group = q.sid] \in AppRecord
  BY <1>1, FieldTypes
<1>3. SetGroup(a, q.sid) \in AppRecord
  BY <1>2, RenderType DEF SetGroup
<1>4. Same(a, SetGroup(a, q.sid))
  BY <1>1 DEF Same, SetGroup, Render, AppRecord
<1>5. SetGroup(a, q.sid).group = q.sid
      /\ \A x \in {"ready", "number", "proof", "inbox"} : SetGroup(a, q.sid)[x] = a[x]
  BY <1>1 DEF SetGroup, Render, AppRecord
<1>6. QED BY <1>3, <1>4, <1>5

\* Such states of an app are the same page to it.
LEMMA SamePage ==
  ASSUME NEW k, NEW a, NEW b, Same(a, b)
  PROVE  /\ Page(k, a) => Page(k, b)
         /\ Computing(k, a) => Computing(k, b)
         /\ \A q : TalkOnPage(k, a, q) => TalkOnPage(k, b, q)
         /\ \A cs, fs : Awaited(k, a, cs, fs) => Awaited(k, b, cs, fs)
         /\ \A cs, fs : Silent(a, cs, fs) => Silent(b, cs, fs)
<1>1. Page(k, a) => Page(k, b)
  BY DEF Same, Page
<1>2. Computing(k, a) => Computing(k, b)
  BY DEF Same, Computing, Mounted
<1>3. \A q : TalkOnPage(k, a, q) => TalkOnPage(k, b, q)
  BY DEF Same, TalkOnPage
<1>4. \A t : TimerOnPage(a, t) => TimerOnPage(b, t)
  BY DEF Same, TimerOnPage
<1>5. b.timers = a.timers
  BY DEF Same
<1>6. \A cs, fs : Awaited(k, a, cs, fs) => Awaited(k, b, cs, fs)
  BY <1>3, <1>4, <1>5 DEF Awaited, Alone
<1>7. QED BY <1>1, <1>2, <1>3, <1>5, <1>6 DEF Silent

\* The first page of a joining wizard is passed.
LEMMA ConnectedStep ==
  ASSUME TypeOK, LocalInv, NEW c \in Client, Connected(c)
  PROVE  TypeOK' /\ LocalInv'
<1> DEFINE a == app[c]
           h == HandleNext(a)
           t == [sid |-> h.target, visit |-> h.visit]
           b == [h EXCEPT !.timers = h.timers \cup {t}]
<1>1. a \in AppRecord /\ Local(kind, a, calls[c], frames[c])
  BY OwnState
<1>2. a.wizard = "join" /\ a.step = 0 /\ a.target \in Sid /\ a.visit \in Nat
  BY <1>1, BoundsAssumption DEF Connected, At, Local, Page, AppRecord
<1>3. Silent(a, calls[c], frames[c])
  BY <1>1, <1>2 DEF Local, Awaited, Silent, None, TalkOnPage, TimerOnPage
<1>4. /\ h \in AppRecord /\ h.step = 1 /\ h.wizard = "join" /\ h.target = a.target
      /\ h.visit = a.visit /\ h.sinks = a.sinks /\ h.once = a.once /\ h.candidate = a.candidate
      /\ h.session = a.session /\ h.transport = a.transport /\ h.jobs = a.jobs /\ h.timers = {}
  BY <1>1, <1>2, <1>3, HandleNextType DEF Silent
<1>5. Become(c, b) /\ UNCHANGED <<kind, server, calls, task, frames, conn, left, invited>>
  BY DEF Connected, Become, history
<1> HIDE DEF h
<1>6. b \in AppRecord
  <2>1. t \in Visit /\ h.timers \in SUBSET Visit
    BY <1>2, <1>4 DEF Visit
  <2>2. QED BY <1>4, <2>1, FieldTypes
<1>7. /\ b.step = 1 /\ b.wizard = "join" /\ b.target = a.target /\ b.visit = a.visit
      /\ b.sinks = <<>> /\ b.once = {} /\ b.candidate = a.candidate /\ b.session = a.session
      /\ b.transport = a.transport /\ b.jobs = a.jobs /\ b.timers = {t}
  BY <1>1, <1>2, <1>4 DEF Local, Page, AppRecord
<1> HIDE DEF b
<1>8. Page(kind, b) /\ Computing(kind, b)
  BY <1>1, <1>2, <1>7 DEF Local, Page, Computing, Mounted
<1>9. Awaited(kind, b, calls[c], frames[c])
  BY <1>2, <1>3, <1>4, <1>7 DEF Silent, Awaited, Alone, None, AtMostOne, TimerOnPage
<1>10. Local(kind, b, calls[c], frames[c])
  BY <1>1, <1>8, <1>9 DEF Local
<1>11. QED
  BY <1>5, <1>6, <1>10, OwnState, OwnStep, HistoryTypes

\* The answer to a page's call is delivered.
LEMMA AnswerFacts ==
  ASSUME TypeOK, LocalInv, NEW c \in Client, NEW fn \in {"create", "join", "load"},
         NEW methods, NEW ok, Answered(c, fn, methods, ok)
  PROVE  /\ Answer(c) \in CallRecord /\ Answer(c).fn = fn /\ Answer(c).method \in methods
         /\ TalkOnPage(kind, app[c], Answer(c))
         /\ Silent(app[c], calls[c], Tail(frames[c]))
         /\ Tail(frames[c]) \in Seq(Frame)
         /\ frames' = [frames EXCEPT ![c] = Tail(frames[c])]
<1>1. frames[c] # <<>> /\ frames[c] \in Seq(Frame) /\ Awaited(kind, app[c], calls[c], frames[c])
  BY OwnState DEF Answered, Local
<1>2. Head(frames[c]) \in Frame /\ Tail(frames[c]) \in Seq(Frame)
  BY <1>1
<1>3. Head(frames[c]).type = "answer" /\ Head(frames[c]).call.fn = fn
      /\ Head(frames[c]).call.method \in methods /\ frames' = [frames EXCEPT ![c] = Tail(frames[c])]
  BY DEF Answered
<1>4. Head(frames[c]) \in PageAnswer /\ Head(frames[c]).call \in CallRecord
  BY <1>2, <1>3 DEF PageAnswer, Frame, Event
<1>5. QED BY <1>1, <1>2, <1>3, <1>4, AnswerHeard DEF Answer

-----------------------------------------------------------------------------
\* Actions that change little of the app

\* The page's state, an approval, an inbox, a frame that is dropped.
LEMMA SameStep ==
  ASSUME TypeOK, LocalInv, NEW c \in Client, NEW a \in AppRecord, Same(app[c], a), Become(c, a),
         \/ UNCHANGED frames
         \/ frames[c] # <<>> /\ frames' = [frames EXCEPT ![c] = Tail(frames[c])],
         UNCHANGED <<kind, server, calls, task, conn>>, left' \subseteq Client, invited' \subseteq Sid
  PROVE  TypeOK' /\ LocalInv'
<1>1. \A fs : Local(kind, app[c], calls[c], fs) => Local(kind, a, calls[c], fs)
  BY SamePage DEF Local
<1>2. CASE UNCHANGED frames
  BY <1>1, <1>2, OwnState, OwnStep
<1>3. CASE frames[c] # <<>> /\ frames' = [frames EXCEPT ![c] = Tail(frames[c])]
  <2>1. Tail(frames[c]) \in Seq(Frame) /\ Local(kind, app[c], calls[c], Tail(frames[c]))
    BY <1>3, OwnState, OtherHeard, TailElements DEF Local
  <2>2. QED BY <1>1, <1>3, <2>1, OwnState, OwnStep
<1>4. QED BY <1>2, <1>3

\* A page is told that it may go on.
LEMMA ReadySteps ==
  ASSUME TypeOK, LocalInv, NEW c \in Client,
         BlockInfo(c) \/ ApproveOwn(c) \/ SendTransaction(c)
  PROVE  TypeOK' /\ LocalInv'
<1> DEFINE b == [app[c] EXCEPT !.ready = TRUE]
<1>1. b \in AppRecord /\ Same(app[c], b)
  BY OwnState, FieldTypes, SameFields
<1>2. Become(c, b) /\ UNCHANGED <<kind, server, calls, task, frames, conn, left, invited>>
  BY DEF BlockInfo, ApproveOwn, SendTransaction, Become, history
<1> HIDE DEF b
<1>3. QED BY <1>1, <1>2, SameStep, HistoryTypes

\* The link of a group is copied.
LEMMA CopyLinkStep ==
  ASSUME TypeOK, LocalInv, NEW c \in Client, CopyLink(c)
  PROVE  TypeOK' /\ LocalInv'
<1>1. app[c].session \in Sid
  BY OwnState DEF CopyLink, At, Local, Page
<1>2. Become(c, app[c]) /\ Same(app[c], app[c]) /\ UNCHANGED <<kind, server, calls, task, frames, conn, left>>
      /\ invited' = invited \cup {app[c].session}
  BY OwnState DEF CopyLink, Become, Same
<1>3. left' \subseteq Client /\ invited' \subseteq Sid
  BY <1>1, <1>2 DEF TypeOK
<1>4. QED BY <1>2, <1>3, OwnState, SameStep

\* A refused call ends.
LEMMA CallFailedStep ==
  ASSUME TypeOK, LocalInv, NEW c \in Client, CallFailed(c)
  PROVE  TypeOK' /\ LocalInv'
<1>1. Become(c, app[c]) /\ Same(app[c], app[c])
      /\ UNCHANGED <<kind, server, calls, task, conn, left, invited>>
  BY OwnState DEF CallFailed, Become, Same, history
<1>2. frames[c] # <<>> /\ frames' = [frames EXCEPT ![c] = Tail(frames[c])]
  BY DEF CallFailed, Answered
<1>3. QED BY <1>1, <1>2, OwnState, SameStep, HistoryTypes

\* A round message reaches the sinks.
LEMMA ReceiveMessageStep ==
  ASSUME TypeOK, LocalInv, NEW c \in Client, ReceiveMessage(c)
  PROVE  TypeOK' /\ LocalInv'
<1> DEFINE m == Head(frames[c])
           a == app[c]
           box == [a.inbox EXCEPT ![m.sid] = a.inbox[m.sid] \cup {m.from}]
           b == [a EXCEPT !.inbox = box]
<1>1. frames[c] # <<>> /\ m.type = "message" /\ m \in Frame /\ a \in AppRecord
  BY OwnState, TailElements DEF ReceiveMessage
<1>2. m.sid \in Sid /\ m.from \in Client
  BY <1>1 DEF Frame, Event
<1>3. box \in [Sid -> SUBSET Client]
  BY <1>1, <1>2 DEF AppRecord
<1>5. Become(c, b) \/ Become(c, a)
  BY DEF ReceiveMessage, Become
<1> HIDE DEF a, box
<1>4. b \in AppRecord /\ Same(a, b) /\ Same(a, a)
  BY <1>1, <1>3, FieldTypes, SameFields
<1> USE DEF a
<1>6. frames' = [frames EXCEPT ![c] = Tail(frames[c])]
      /\ UNCHANGED <<kind, server, calls, task, conn, left, invited>>
  BY DEF ReceiveMessage
<1> HIDE DEF b
<1>7. QED BY <1>1, <1>4, <1>5, <1>6, SameStep, HistoryTypes

-----------------------------------------------------------------------------
\* Actions that ask the server for something

\* A page that awaits nothing asks.
LEMMA AskStep ==
  ASSUME TypeOK, LocalInv, NEW c \in Client, NEW a \in AppRecord, Become(c, a),
         Page(kind, a), Computing(kind, a),
         NEW fs \in Seq(Frame), frames' = [frames EXCEPT ![c] = fs], Silent(a, calls[c], fs),
         NEW q \in CallRecord, Ask(c, q), TalkOnPage(kind, a, q),
         q.method = "Group.create" => ValidParameters(q.params),
         UNCHANGED <<kind, server, task, conn, left, invited>>
  PROVE  TypeOK' /\ LocalInv'
<1>1. calls[c] \in Seq(CallRecord) /\ Proposed(calls[c])
  BY OwnState DEF Local
<1>2. Awaited(kind, a, Append(calls[c], q), fs) /\ Append(calls[c], q) \in Seq(CallRecord)
  BY <1>1, SilentAsks
<1>3. Proposed(Append(calls[c], q))
  BY <1>1, ProposedKept
<1>4. calls' = [calls EXCEPT ![c] = Append(calls[c], q)]
  BY DEF Ask
<1>5. QED BY <1>2, <1>3, <1>4, OwnStep, HistoryTypes DEF Local

\* A page that is not different to LocalInv asks after an answer.
LEMMA AskAfterAnswer ==
  ASSUME TypeOK, LocalInv, NEW c \in Client, NEW a \in AppRecord, Same(app[c], a), Become(c, a),
         NEW fn \in {"create", "join", "load"}, NEW methods, NEW ok, Answered(c, fn, methods, ok),
         NEW m \in Method \ {"Group.create"}, Ask(c, [Answer(c) EXCEPT !.method = m]),
         UNCHANGED <<kind, server, task, conn, left, invited>>
  PROVE  TypeOK' /\ LocalInv'
<1> DEFINE q == [Answer(c) EXCEPT !.method = m]
<1>1. /\ Answer(c) \in CallRecord /\ TalkOnPage(kind, app[c], Answer(c))
      /\ Silent(app[c], calls[c], Tail(frames[c])) /\ Tail(frames[c]) \in Seq(Frame)
      /\ frames' = [frames EXCEPT ![c] = Tail(frames[c])]
  BY AnswerFacts
<1>2. q \in CallRecord /\ q.fn = Answer(c).fn /\ q.visit = Answer(c).visit /\ q.method = m
  BY <1>1 DEF CallRecord
<1>3. TalkOnPage(kind, app[c], q)
  BY <1>1, <1>2 DEF TalkOnPage
<1> HIDE DEF q
<1>4. /\ Page(kind, a) /\ Computing(kind, a) /\ TalkOnPage(kind, a, q)
      /\ Silent(a, calls[c], Tail(frames[c]))
  BY <1>1, <1>3, OwnState, SamePage DEF Local
<1>5. Ask(c, q) /\ q.method # "Group.create"
  BY <1>2 DEF q
<1>6. QED BY <1>1, <1>2, <1>4, <1>5, AskStep

\* createGroupSession goes on after its first two calls.
LEMMA CreateGroupSessionStep ==
  ASSUME TypeOK, LocalInv, NEW c \in Client, CreateGroupSession(c)
  PROVE  TypeOK' /\ LocalInv'
<1> DEFINE q == Answer(c)
           m == IF q.method = "Group.create" THEN "Session.create"
                ELSE IF q.number = 0 THEN "Session.signup" ELSE "Session.load"
           b == IF q.method = "Group.create" THEN SetGroup(app[c], q.sid) ELSE app[c]
<1>0. Answered(c, "create", {"Group.create", "Session.create"}, TRUE)
      /\ UNCHANGED <<kind, server, task, conn, left, invited>>
  BY DEF CreateGroupSession, history
<1>1. q \in CallRecord /\ app[c] \in AppRecord
  BY <1>0, AnswerFacts, OwnState
<1>2. SetGroup(app[c], q.sid) \in AppRecord /\ Same(app[c], SetGroup(app[c], q.sid))
  BY <1>1, SetGroupType
<1>3. b \in AppRecord /\ Same(app[c], b)
  BY <1>1, <1>2, SameFields
<1>4. m \in Method \ {"Group.create"}
  BY DEF Method
<1>5. Become(c, b) /\ Ask(c, [Answer(c) EXCEPT !.method = m])
  BY OwnState DEF CreateGroupSession, Become
<1> HIDE DEF m, b
<1>6. QED BY <1>0, <1>3, <1>4, <1>5, AskAfterAnswer

\* The group is joined, the session is asked for.
LEMMA JoinGroupSessionStep ==
  ASSUME TypeOK, LocalInv, NEW c \in Client, JoinGroupSession(c)
  PROVE  TypeOK' /\ LocalInv'
<1>1. Become(c, app[c]) /\ Same(app[c], app[c])
      /\ UNCHANGED <<kind, server, task, conn, left, invited>>
  BY OwnState DEF JoinGroupSession, Become, Same, history
<1>2. /\ Answered(c, "join", {"Group.join"}, TRUE)
      /\ Ask(c, [Answer(c) EXCEPT !.method = "Session.join"])
      /\ "Session.join" \in Method \ {"Group.create"}
  BY DEF JoinGroupSession, Method
<1>3. QED BY <1>1, <1>2, OwnState, AskAfterAnswer

\* The session is joined, a party number is asked for.
LEMMA SessionJoinedStep ==
  ASSUME TypeOK, LocalInv, NEW c \in Client, SessionJoined(c)
  PROVE  TypeOK' /\ LocalInv'
<1> DEFINE q == Answer(c)
           b == SetGroup(app[c], q.sid)
<1>0. /\ Answered(c, "join", {"Session.join"}, TRUE)
      /\ Become(c, b) /\ Ask(c, [Answer(c) EXCEPT !.method = "Session.signup"])
      /\ "Session.signup" \in Method \ {"Group.create"}
      /\ UNCHANGED <<kind, server, task, conn, left, invited>>
  BY DEF SessionJoined, history, Method
<1>1. q \in CallRecord /\ app[c] \in AppRecord
  BY <1>0, AnswerFacts, OwnState
<1>2. b \in AppRecord /\ Same(app[c], b)
  BY <1>1, SetGroupType
<1> HIDE DEF b
<1>3. QED BY <1>0, <1>2, AskAfterAnswer

\* A page on which nothing is pending awaits nothing.
LEMMA NothingPending ==
  ASSUME TypeOK, LocalInv, NEW c \in Client, ~Pending(c)
  PROVE  Silent(app[c], calls[c], frames[c])
BY OwnState DEF Pending, Silent, None, PageAnswer

\* The new call of a page.
LEMMA CallType ==
  ASSUME NEW a \in AppRecord, NEW fn \in {"create", "join", "load", "message"},
         NEW m \in Method, NEW s \in Sid
  PROVE  /\ Call(fn, m, a, s) \in CallRecord
         /\ Call(fn, m, a, s) = [fn |-> fn, method |-> m, sid |-> s, visit |-> a.visit,
                                 number |-> 0, params |-> NoForm]
<1>1. NoForm \in Form
  BY DEF NoForm, Form
<1>2. a.visit \in Nat
  BY BoundsAssumption DEF AppRecord
<1>3. QED BY <1>1, <1>2 DEF Call, CallRecord

\* The sessions there are can be counted.
LEMMA SessionsCount == Sessions \in Nat
<1>1. IsFiniteSet(Sid)
  BY BoundsAssumption, FS_Interval DEF Sid
<1>2. Cardinality({s \in Sid : server[s].members # {}}) \in Nat
  BY <1>1, FS_Subset, FS_CardinalityType
<1>3. Cardinality({c \in Client : \E i \in 1 .. Len(calls[c]) :
                      calls[c][i].method = "Group.create"}) \in Nat
  BY ClientAssumption, FS_Subset, FS_CardinalityType
<1>4. QED BY <1>2, <1>3 DEF Sessions

\* The form of a new key is submitted.
LEMMA SubmitParametersStep ==
  ASSUME TypeOK, LocalInv, NEW c \in Client, SubmitParameters(c)
  PROVE  TypeOK' /\ LocalInv'
<1> DEFINE a == app[c]
           f == a.form
           p == [f EXCEPT !.threshold = f.threshold - 1]
           n == Call("create", "Group.create", a, Sessions + 1)
           q == [n EXCEPT !.params = p]
<1>1. a \in AppRecord /\ frames[c] \in Seq(Frame) /\ Page(kind, a) /\ Computing(kind, a)
      /\ frames = [frames EXCEPT ![c] = frames[c]]
  BY OwnState DEF Local
<1>2. Sessions + 1 \in Sid
  BY SessionsCount, BoundsAssumption DEF SubmitParameters, Sid
<1>3. Silent(a, calls[c], frames[c]) /\ kind = "keygen" /\ a.wizard = "create" /\ a.step = 0
  BY NothingPending DEF SubmitParameters, At
<1>4. f \in Form /\ ValidForm(f)
  BY <1>1, <1>3 DEF Page, AppRecord
<1>5. p \in Form /\ ValidParameters(p)
  BY <1>4 DEF Form, ValidForm, ValidParameters
<1>6. n \in CallRecord /\ n.fn = "create" /\ n.visit = a.visit /\ n.method = "Group.create"
  BY <1>1, <1>2, CallType DEF Method
<1>7. Become(c, a) /\ Ask(c, q) /\ UNCHANGED <<kind, server, task, frames, conn, left, invited>>
  BY OwnState DEF SubmitParameters, Become, history
<1> HIDE DEF n, p
<1>8. q \in CallRecord /\ q.fn = "create" /\ q.visit = a.visit /\ q.params = p
  BY <1>5, <1>6 DEF CallRecord
<1>9. TalkOnPage(kind, a, q)
  BY <1>1, <1>3, <1>8 DEF TalkOnPage, Page
<1> HIDE DEF a, q
<1>10. QED BY <1>1, <1>3, <1>5, <1>7, <1>8, <1>9, AskStep

\* The form of a message or transaction is submitted.
LEMMA CreateForStep ==
  ASSUME TypeOK, LocalInv, NEW c \in Client, kind # "keygen", CreateFor(c)
  PROVE  TypeOK' /\ LocalInv'
<1> DEFINE a == app[c]
           n == Call("create", "Group.create", a, Sessions + 1)
<1>0. PICK share \in Shares[c] : Ask(c, [n EXCEPT !.params = Key, !.number = share])
  BY DEF CreateFor
<1> DEFINE q == [n EXCEPT !.params = Key, !.number = share]
<1>1. a \in AppRecord /\ frames[c] \in Seq(Frame) /\ Page(kind, a) /\ Computing(kind, a)
      /\ frames = [frames EXCEPT ![c] = frames[c]]
  BY OwnState DEF Local
<1>2. Sessions + 1 \in Sid
  BY SessionsCount, BoundsAssumption DEF CreateFor, Sid
<1>3. Silent(a, calls[c], frames[c]) /\ a.wizard = "create" /\ a.step = 0
  BY NothingPending DEF CreateFor, At
<1>4. share \in Nat
  BY SharesAssumption
<1>5. Key \in Form /\ ValidParameters(Key)
  BY KeyAssumption DEF Form
<1>6. n \in CallRecord /\ n.fn = "create" /\ n.visit = a.visit /\ n.method = "Group.create"
  BY <1>1, <1>2, CallType DEF Method
<1>7. Become(c, a) /\ Ask(c, q) /\ UNCHANGED <<kind, server, task, frames, conn, left, invited>>
  BY <1>0, OwnState DEF CreateFor, Become, history
<1> HIDE DEF n
<1>8. q \in CallRecord /\ q.fn = "create" /\ q.visit = a.visit /\ q.params = Key
  BY <1>4, <1>5, <1>6 DEF CallRecord
<1>9. TalkOnPage(kind, a, q)
  BY <1>1, <1>3, <1>8 DEF TalkOnPage, Page
<1> HIDE DEF a, q
<1>10. QED BY <1>1, <1>3, <1>5, <1>7, <1>8, <1>9, AskStep

\* A value is approved, and the share asked for.
LEMMA ApproveStep ==
  ASSUME TypeOK, LocalInv, NEW c \in Client, Approve(c)
  PROVE  TypeOK' /\ LocalInv'
<1> DEFINE a == app[c]
           n == Call("load", "Session.load", a, a.target)
<1>0. PICK share \in Shares[c] : Ask(c, [n EXCEPT !.number = share])
  BY DEF Approve
<1> DEFINE q == [n EXCEPT !.number = share]
<1>1. a \in AppRecord /\ frames[c] \in Seq(Frame) /\ Page(kind, a) /\ Computing(kind, a)
      /\ frames = [frames EXCEPT ![c] = frames[c]]
  BY OwnState DEF Local
<1>3. Silent(a, calls[c], frames[c]) /\ a.wizard = "join" /\ a.step = 1 /\ kind # "keygen"
  BY NothingPending DEF Approve, At
<1>4. share \in Nat
  BY SharesAssumption
<1>6. n \in CallRecord /\ n.fn = "load" /\ n.visit = a.visit /\ n.method = "Session.load"
  BY <1>1, <1>3, CallType DEF Method, Page
<1>7. Become(c, a) /\ Ask(c, q) /\ UNCHANGED <<kind, server, task, frames, conn, left, invited>>
  BY <1>0, OwnState DEF Approve, Become
<1> HIDE DEF n
<1>8. q \in CallRecord /\ q.fn = "load" /\ q.visit = a.visit /\ q.method = "Session.load"
  BY <1>4, <1>6 DEF CallRecord
<1>9. TalkOnPage(kind, a, q)
  BY <1>1, <1>3, <1>8 DEF TalkOnPage, Page
<1> HIDE DEF a, q
<1>10. QED BY <1>1, <1>3, <1>7, <1>8, <1>9, AskStep

\* The delay of a joining page is over.
LEMMA TimeoutStep ==
  ASSUME TypeOK, LocalInv, NEW c \in Client, Timeout(c)
  PROVE  TypeOK' /\ LocalInv'
<1> DEFINE a == app[c]
           n(s) == Call("join", "Group.join", a, s)
<1>0. PICK t \in a.timers :
        /\ Become(c, [a EXCEPT !.timers = @ \ {t}])
        /\ Ask(c, [n(t.sid) EXCEPT !.visit = t.visit])
        /\ UNCHANGED <<kind, server, task, frames, conn, left, invited>>
  BY DEF Timeout, history
<1> DEFINE b == [a EXCEPT !.timers = a.timers \ {t}]
           q == [n(t.sid) EXCEPT !.visit = t.visit]
<1>1. a \in AppRecord /\ frames[c] \in Seq(Frame) /\ Page(kind, a) /\ Computing(kind, a)
      /\ frames = [frames EXCEPT ![c] = frames[c]] /\ Awaited(kind, a, calls[c], frames[c])
  BY OwnState DEF Local
<1>2. t \in Visit /\ a.timers = {t} /\ None(calls[c], PageCall) /\ None(frames[c], PageAnswer)
  BY <1>1 DEF Awaited, Alone, AppRecord
<1>3. TimerOnPage(a, t)
  BY <1>1 DEF Awaited
<1>4. n(t.sid) \in CallRecord /\ n(t.sid).fn = "join" /\ n(t.sid).method = "Group.join"
  BY <1>1, <1>2, CallType DEF Method, Visit
<1>5. b \in AppRecord /\ b.timers = {}
  <2>1. a.timers \ {t} = {}
    BY <1>2
  <2>2. [a EXCEPT !.timers = {}] \in AppRecord
    BY <1>1, FieldTypes
  <2>3. [a EXCEPT !.timers = {}].timers = {}
    BY <1>1 DEF AppRecord
  <2>4. QED BY <2>1, <2>2, <2>3
<1>6. /\ b.wizard = a.wizard /\ b.step = a.step /\ b.visit = a.visit /\ b.target = a.target
      /\ b.form = a.form /\ b.session = a.session /\ b.transport = a.transport
      /\ b.candidate = a.candidate /\ b.sinks = a.sinks /\ b.once = a.once /\ b.jobs = a.jobs
  BY <1>1 DEF AppRecord
<1> HIDE DEF n
<1>7. q \in CallRecord /\ q.fn = "join" /\ q.visit = t.visit /\ q.method = "Group.join"
  BY <1>2, <1>4 DEF CallRecord, Visit
<1>8. Become(c, b) /\ Ask(c, q)
  BY <1>0
<1> HIDE DEF b, q
<1>9. Page(kind, b) /\ Computing(kind, b)
  BY <1>1, <1>6 DEF Page, Computing, Mounted
<1>10. TalkOnPage(kind, b, q)
  BY <1>3, <1>6, <1>7 DEF TalkOnPage, TimerOnPage
<1>11. Silent(b, calls[c], frames[c])
  BY <1>2, <1>5 DEF Silent
<1> HIDE DEF a
<1>12. QED BY <1>0, <1>1, <1>5, <1>7, <1>8, <1>9, <1>10, <1>11, AskStep

-----------------------------------------------------------------------------
\* Wizards are opened and left.

\* A wizard is opened: nothing of an earlier one is awaited, and no
\* computation of an earlier one has this visit.
LEMMA OpenStep ==
  ASSUME TypeOK, LocalInv, NEW c \in Client, NEW a \in AppRecord, Become(c, a), CanOpen(c),
         a.visit = app[c].visit + 1, a.step = app[c].step, a.sinks = app[c].sinks,
         a.once = app[c].once, a.timers = app[c].timers, a.jobs = app[c].jobs,
         a.session = app[c].session, a.transport = app[c].transport,
         a.candidate \in {0, app[c].candidate},
         \/ a.wizard = "create" /\ (kind = "keygen" => ValidForm(a.form))
         \/ a.wizard = "join" /\ a.target \in Sid,
         UNCHANGED <<kind, server, calls, task, frames, conn, left, invited>>
  PROVE  TypeOK' /\ LocalInv'
<1>1. /\ app[c] \in AppRecord /\ app[c].wizard = "none" /\ app[c].visit \in Nat
      /\ Page(kind, app[c]) /\ Computing(kind, app[c]) /\ Awaited(kind, app[c], calls[c], frames[c])
  <2>1. app[c].visit \in Nat
    BY OwnState DEF AppRecord
  <2>2. QED BY <2>1, OwnState DEF CanOpen, Local
<1>2. Silent(a, calls[c], frames[c])
  BY <1>1 DEF Awaited, Silent, None, TalkOnPage, TimerOnPage
<1>3. Page(kind, a)
  BY <1>1 DEF Page
<1>4. \A j \in a.jobs : j.visit \in Nat /\ j.visit < a.visit
  <2>1. app[c].jobs \in SUBSET Job
    BY <1>1 DEF AppRecord
  <2>2. \A j \in a.jobs : j.visit \in Nat
    BY <2>1 DEF Job
  <2>3. QED BY <1>1, <2>2 DEF Computing
<1>5. Computing(kind, a)
  BY <1>1, <1>4 DEF Computing, Mounted
<1>6. Awaited(kind, a, calls[c], frames[c])
  BY <1>2, SilentAwaits
<1>7. Local(kind, a, calls[c], frames[c])
  BY <1>3, <1>5, <1>6, OwnState DEF Local
<1>8. QED BY <1>7, OwnState, OwnStep, HistoryTypes

\* The record of a wizard that is opened.
LEMMA OpenedType ==
  ASSUME NEW a \in AppRecord, NEW w \in {"create", "join"},
         NEW s \in 0 .. MaxSessions
  PROVE  /\ Opened(a, w, s) \in AppRecord
         /\ Opened(a, w, s).wizard = w /\ Opened(a, w, s).visit = a.visit + 1
         /\ Opened(a, w, s).target = s
         /\ \A x \in {"step", "form", "ready", "group", "session", "number", "transport", "candidate",
                      "proof", "once", "signer", "sinks", "inbox", "timers", "jobs"} :
              Opened(a, w, s)[x] = a[x]
<1>1. a.visit + 1 \in Nat
  BY DEF AppRecord
<1>2. QED BY <1>1 DEF Opened, AppRecord

\* The signature of an earlier session is cleared.
LEMMA ClearSignType ==
  ASSUME NEW a \in AppRecord
  PROVE  /\ ClearSign(a) \in AppRecord /\ ClearSign(a).candidate = 0 /\ ClearSign(a).proof = 0
         /\ \A x \in {"wizard", "visit", "target", "step", "form", "ready", "group", "session",
                      "number", "transport", "once", "sinks", "inbox", "timers", "jobs"} : ClearSign(a)[x] = a[x]
<1>1. 0 \in 0 .. MaxSessions
  BY BoundsAssumption
<1> DEFINE b == [a EXCEPT !.candidate = 0, !.proof = 0]
<1>2. b \in AppRecord
  BY <1>1 DEF AppRecord
<1>3. b.candidate = 0 /\ b.proof = 0 
      /\ \A x \in {"wizard", "visit", "target", "step", "form", "ready", "group", "session",
                      "number", "transport", "once", "sinks", "inbox", "timers", "jobs"} : b[x] = a[x]
  BY DEF AppRecord
<1>4. ClearSign(a) = Render(b)
  BY DEF ClearSign
<1> HIDE DEF b
<1>5. Render(b) \in AppRecord /\ Render(b).candidate = b.candidate /\ Render(b).proof = b.proof
      /\ \A x \in {"wizard", "visit", "target", "step", "form", "ready", "group", "session",
                      "number", "transport", "once", "sinks", "inbox", "timers", "jobs"} : Render(b)[x] = b[x]
  <2>1. Render(b) \in AppRecord
    BY <1>2, RenderType
  <2>2. Render(b).candidate = b.candidate /\ Render(b).proof = b.proof
        /\ \A x \in {"wizard", "visit", "target", "step", "form", "ready", "group", "session",
                      "number", "transport", "once", "sinks", "inbox", "timers", "jobs"} : Render(b)[x] = b[x]
    BY <1>2 DEF Render, AppRecord
  <2>3. QED BY <2>1, <2>2
<1>6. QED BY <1>3, <1>4, <1>5

\* The wizard that creates a key is opened.
LEMMA OpenCreateStep ==
  ASSUME TypeOK, LocalInv, NEW c \in Client, OpenCreate(c)
  PROVE  TypeOK' /\ LocalInv'
<1> DEFINE o == Opened(app[c], "create", 0)
           b == [o EXCEPT !.form = DefaultForm]
<1>1. /\ Become(c, b) /\ CanOpen(c)
      /\ UNCHANGED <<kind, server, calls, task, frames, conn, left, invited>>
  BY DEF OpenCreate, history
<1>2. o \in AppRecord /\ o.wizard = "create" /\ o.visit = app[c].visit + 1
      /\ \A x \in {"step", "session", "transport", "candidate", "once", "sinks",
                   "timers", "jobs"} : o[x] = app[c][x]
  <2>1. 0 \in 0 .. MaxSessions
    BY BoundsAssumption
  <2>2. QED BY <2>1, OwnState, OpenedType
<1>3. DefaultForm \in Form /\ ValidForm(DefaultForm)
  BY DEF DefaultForm, Form, ValidForm
<1> HIDE DEF o
<1>4. b \in AppRecord
  BY <1>2, <1>3, FieldTypes
<1>5. b.wizard = "create" /\ b.visit = app[c].visit + 1 /\ b.form = DefaultForm
      /\ \A x \in {"step", "session", "transport", "candidate", "once", "sinks",
                   "timers", "jobs"} : b[x] = app[c][x]
  BY <1>2 DEF AppRecord
<1> HIDE DEF b
<1>6. QED BY <1>1, <1>3, <1>4, <1>5, OpenStep

\* A wizard that signs is opened.
LEMMA OpenSignStep ==
  ASSUME TypeOK, LocalInv, NEW c \in Client, OpenSign(c)
  PROVE  TypeOK' /\ LocalInv'
<1> DEFINE o == Opened(app[c], "create", 0)
           b == ClearSign(o)
<1>1. /\ Become(c, b) /\ CanOpen(c) /\ kind # "keygen"
      /\ UNCHANGED <<kind, server, calls, task, frames, conn, left, invited>>
  BY DEF OpenSign, history
<1>2. o \in AppRecord /\ o.wizard = "create" /\ o.visit = app[c].visit + 1
      /\ \A x \in {"step", "session", "transport", "candidate", "once", "sinks",
                   "timers", "jobs"} : o[x] = app[c][x]
  <2>1. 0 \in 0 .. MaxSessions
    BY BoundsAssumption
  <2>2. QED BY <2>1, OwnState, OpenedType
<1> HIDE DEF o
<1>3. b \in AppRecord /\ b.wizard = "create" /\ b.visit = app[c].visit + 1 /\ b.candidate = 0
      /\ \A x \in {"step", "session", "transport", "once", "sinks", "timers", "jobs"} :
           b[x] = app[c][x]
  BY <1>2, ClearSignType
<1> HIDE DEF b
<1>4. QED BY <1>1, <1>3, OpenStep

\* An invite link is followed.
LEMMA FollowLinkStep ==
  ASSUME TypeOK, LocalInv, NEW c \in Client, FollowLink(c)
  PROVE  TypeOK' /\ LocalInv'
<1>1. PICK s \in invited : OpenJoin(c, s) \/ OpenSignJoin(c, s)
  BY DEF FollowLink
<1> DEFINE o == Opened(app[c], "join", s)
<1>2. s \in Sid /\ s \in 0 .. MaxSessions
  BY BoundsAssumption DEF TypeOK, Sid
<1>3. /\ Become(c, o) \/ Become(c, ClearSign(o))
      /\ CanOpen(c) /\ UNCHANGED <<kind, server, calls, task, frames, conn, left, invited>>
  BY <1>1 DEF OpenJoin, OpenSignJoin, history
<1>4. o \in AppRecord /\ o.wizard = "join" /\ o.visit = app[c].visit + 1 /\ o.target = s
      /\ \A x \in {"step", "session", "transport", "candidate", "once", "sinks",
                   "timers", "jobs"} : o[x] = app[c][x]
  BY <1>2, <1>3, OwnState, OpenedType DEF CanOpen
<1> HIDE DEF o
<1>5. ClearSign(o) \in AppRecord /\ ClearSign(o).wizard = "join" /\ ClearSign(o).candidate = 0
      /\ ClearSign(o).visit = app[c].visit + 1 /\ ClearSign(o).target = s
      /\ \A x \in {"step", "session", "transport", "once", "sinks", "timers", "jobs"} :
           ClearSign(o)[x] = app[c][x]
  BY <1>4, ClearSignType
<1>6. CASE Become(c, o)
  BY <1>2, <1>3, <1>4, <1>6, OpenStep
<1>7. CASE Become(c, ClearSign(o))
  BY <1>2, <1>3, <1>5, <1>7, OpenStep
<1>8. QED BY <1>3, <1>6, <1>7

\* A wizard is left when nothing is awaited.
LEMMA UnmountStep ==
  ASSUME TypeOK, LocalInv, NEW c \in Client, Become(c, Unmount(app[c])),
         Silent(app[c], calls[c], frames[c]),
         UNCHANGED <<kind, server, calls, task, frames, conn, invited>>, left' \subseteq Client
  PROVE  TypeOK' /\ LocalInv'
<1> DEFINE b == Unmount(app[c])
<1>1. /\ b \in AppRecord /\ b.wizard = "none" /\ b.step = 0 /\ b.once = {} /\ b.sinks = <<>>
      /\ \A x \in {"visit", "session", "transport", "candidate", "timers", "jobs"} :
           b[x] = app[c][x]
  BY OwnState, UnmountType
<1> HIDE DEF b
<1>2. Page(kind, b) /\ Computing(kind, b)
  BY <1>1, OwnState DEF Local, Page, Computing, Mounted
<1>3. Awaited(kind, b, calls[c], frames[c])
  BY <1>1, SilentAwaits DEF Silent
<1>4. Local(kind, b, calls[c], frames[c])
  BY <1>2, <1>3, OwnState DEF Local
<1>5. Become(c, b) /\ invited' \subseteq Sid
  BY DEF b, TypeOK
<1>6. QED BY <1>1, <1>4, <1>5, OwnState, OwnStep

\* The last page of a wizard, or one without a call, is left.
LEMMA LeaveSteps ==
  ASSUME TypeOK, LocalInv, NEW c \in Client, Patient,
         Save(c) \/ SaveProof(c) \/ FinishTransaction(c) \/ Finish(c) \/ Leave(c)
  PROVE  TypeOK' /\ LocalInv'
<1>1. /\ Become(c, Unmount(app[c])) /\ left' \subseteq Client
      /\ UNCHANGED <<kind, server, calls, task, frames, conn, invited>>
  BY DEF Save, SaveProof, FinishTransaction, Finish, Leave, history, TypeOK
<1>2. app[c].step = 3 \/ ~Pending(c)
  BY DEF Save, SaveProof, FinishTransaction, Finish, Leave, At
<1>3. Silent(app[c], calls[c], frames[c])
  <2>1. CASE app[c].step = 3
    BY <2>1, OwnState DEF Local, Awaited, Silent, None, TalkOnPage, TimerOnPage
  <2>2. QED BY <1>2, <2>1, NothingPending
<1>4. QED BY <1>1, <1>3, UnmountStep

\* The sliders.
LEMMA SetParametersStep ==
  ASSUME TypeOK, LocalInv, NEW c \in Client, SetParameters(c)
  PROVE  TypeOK' /\ LocalInv'
<1> DEFINE a == app[c]
           f == a.form
<1>1. a \in AppRecord /\ f \in Form /\ ValidForm(f) /\ Local(kind, a, calls[c], frames[c])
  BY OwnState DEF SetParameters, At, Local, Page, AppRecord
<1>2. \A n \in 2 .. MaxParties : OnPartiesChange(f, n) \in Form /\ ValidForm(OnPartiesChange(f, n))
  BY <1>1, MaxPartiesAssumption DEF OnPartiesChange, Form, ValidForm
<1>3. \A n \in 2 .. f.parties : OnThresholdChange(f, n) \in Form /\ ValidForm(OnThresholdChange(f, n))
  BY <1>1 DEF OnThresholdChange, Form, ValidForm
<1>4. PICK g : g \in Form /\ ValidForm(g) /\ Become(c, [a EXCEPT !.form = g])
  BY <1>2, <1>3 DEF SetParameters
<1> DEFINE b == [a EXCEPT !.form = g]
<1>5. b \in AppRecord
  BY <1>1, <1>4, FieldTypes
<1>6. /\ b.wizard = a.wizard /\ b.step = a.step /\ b.visit = a.visit /\ b.target = a.target
      /\ b.form = g /\ b.session = a.session /\ b.transport = a.transport
      /\ b.candidate = a.candidate /\ b.sinks = a.sinks /\ b.once = a.once
      /\ b.timers = a.timers /\ b.jobs = a.jobs
  BY <1>1 DEF AppRecord
<1>7. UNCHANGED <<kind, server, calls, task, frames, conn, left, invited>> /\ Become(c, b)
  BY <1>4 DEF SetParameters, history
<1> HIDE DEF b
<1>8. Page(kind, b) /\ Computing(kind, b)
  BY <1>1, <1>4, <1>6 DEF Local, Page, Computing, Mounted
<1>9. Awaited(kind, b, calls[c], frames[c])
  BY <1>1, <1>6 DEF Local, Awaited, Alone, TalkOnPage, TimerOnPage
<1>10. Local(kind, b, calls[c], frames[c])
  BY <1>1, <1>8, <1>9 DEF Local
<1> HIDE DEF a
<1>11. QED BY <1>5, <1>7, <1>10, OwnState, OwnStep, HistoryTypes

-----------------------------------------------------------------------------
\* Answers after which a page goes on

\* The answer is the last thing the page awaited.
LEMMA HeardStep ==
  ASSUME TypeOK, LocalInv, NEW c \in Client, NEW a \in AppRecord, Become(c, a),
         NEW fn \in {"create", "join", "load"}, NEW methods, NEW ok, Answered(c, fn, methods, ok),
         a.timers = app[c].timers, Page(kind, a), Computing(kind, a),
         UNCHANGED <<kind, server, calls, task, conn, left, invited>>
  PROVE  TypeOK' /\ LocalInv'
<1>1. /\ Silent(app[c], calls[c], Tail(frames[c])) /\ Tail(frames[c]) \in Seq(Frame)
      /\ frames' = [frames EXCEPT ![c] = Tail(frames[c])]
  BY AnswerFacts
<1>2. Awaited(kind, a, calls[c], Tail(frames[c]))
  BY <1>1, SilentAwaits DEF Silent
<1>3. Local(kind, a, calls[c], Tail(frames[c]))
  BY <1>2, OwnState DEF Local
<1>4. QED BY <1>1, <1>3, OwnState, OwnStep, HistoryTypes

\* The sign candidate is stored.
LEMMA CandidateType ==
  ASSUME NEW a \in AppRecord, NEW s \in Sid
  PROVE  /\ Render([a EXCEPT !.candidate = s]) \in AppRecord
         /\ Render([a EXCEPT !.candidate = s]).candidate = s
         /\ \A x \in {"wizard", "step", "visit", "target", "form", "ready", "group", "session", "number",
                      "transport", "proof", "once", "sinks", "inbox", "timers", "jobs"} :
              Render([a EXCEPT !.candidate = s])[x] = a[x]
<1> DEFINE b == [a EXCEPT !.candidate = s]
<1>1. s \in 0 .. MaxSessions
  BY BoundsAssumption DEF Sid
<1>2. b \in AppRecord
  BY <1>1, FieldTypes
<1>3. b.candidate = s
      /\ \A x \in {"wizard", "step", "visit", "target", "form", "ready", "group", "session", "number",
                   "transport", "proof", "once", "sinks", "inbox", "timers", "jobs"} : b[x] = a[x]
  BY DEF AppRecord
<1> HIDE DEF b
<1>4. Render(b) \in AppRecord /\ Render(b).candidate = b.candidate
      /\ \A x \in {"wizard", "step", "visit", "target", "form", "ready", "group", "session", "number",
                   "transport", "proof", "once", "sinks", "inbox", "timers", "jobs"} : Render(b)[x] = b[x]
  <2>1. Render(b) \in AppRecord
    BY <1>2, RenderType
  <2>2. Render(b).candidate = b.candidate
      /\ \A x \in {"wizard", "step", "visit", "target", "form", "ready", "group", "session", "number",
                   "transport", "proof", "once", "sinks", "inbox", "timers", "jobs"} : Render(b)[x] = b[x]
    BY <1>2 DEF Render, AppRecord
  <2>3. QED BY <2>1, <2>2
<1>5. QED BY <1>3, <1>4 DEF b

\* A page that made its sink, on its first or second step.
LEMMA CreatedPage ==
  ASSUME NEW a \in AppRecord, NEW q \in CallRecord, TalkOnPage(kind, a, q)
  PROVE  /\ Created(a, q) \in AppRecord
         /\ Created(a, q).session = q.sid /\ Created(a, q).transport = q.sid
         /\ Len(Created(a, q).sinks) = 1 /\ Created(a, q).once = {}
         /\ \A x \in {"wizard", "step", "visit", "target", "form", "candidate", "timers", "jobs"} :
              Created(a, q)[x] = a[x]
         /\ q.sid \in Sid /\ q.visit \in Nat /\ Mounted(Created(a, q), q)
<1>1. a.sinks = <<>> /\ a.once = {} /\ a.wizard # "none" /\ q.visit = a.visit
  BY DEF TalkOnPage
<1>2. Len(Append(<<>>, q.sid)) = 1 /\ q.sid \in Sid /\ q.visit \in Nat
  BY DEF CallRecord
<1> DEFINE b == Created(a, q)
<1>3. /\ b \in AppRecord /\ b.session = q.sid /\ b.transport = q.sid
      /\ b.sinks = Append(a.sinks, q.sid)
      /\ \A x \in {"wizard", "step", "visit", "target", "form", "once", "candidate", "timers", "jobs"} :
           b[x] = a[x]
  <2>1. /\ b \in AppRecord /\ b.session = q.sid /\ b.transport = q.sid
        /\ b.sinks = Append(a.sinks, q.sid)
    BY CreatedType
  <2>2. \A x \in {"wizard", "step", "visit", "target", "form", "once", "candidate", "timers", "jobs"} :
           b[x] = a[x]
    <3>1. /\ b.wizard = a.wizard /\ b.step = a.step /\ b.visit = a.visit /\ b.target = a.target
          /\ b.form = a.form /\ b.once = a.once /\ b.candidate = a.candidate
          /\ b.timers = a.timers /\ b.jobs = a.jobs
      BY CreatedType
    <3>2. QED BY <3>1
  <2>3. QED BY <2>1, <2>2
<1> HIDE DEF b
<1>4. Mounted(b, q) /\ Len(b.sinks) = 1 /\ b.once = {}
  BY <1>1, <1>2, <1>3 DEF Mounted
<1>5. QED BY <1>1, <1>2, <1>3, <1>4 DEF b

\* createGroupSession ends, for a key.
LEMMA KeyInviteStep ==
  ASSUME TypeOK, LocalInv, NEW c \in Client, KeyInvite(c)
  PROVE  TypeOK' /\ LocalInv'
<1> DEFINE q == Answer(c)
           v == [sid |-> q.sid, visit |-> q.visit]
           a == Created(app[c], q)
           h == HandleNext(a)
           b == [h EXCEPT !.once = h.once \cup {v}]
<1>0. /\ Answered(c, "create", {"Session.signup"}, TRUE) /\ kind = "keygen"
      /\ Become(c, IF Mounted(a, q) THEN b ELSE a)
      /\ UNCHANGED <<kind, server, calls, task, conn, left, invited>>
  BY DEF KeyInvite, history
<1>1. q \in CallRecord /\ q.fn = "create" /\ TalkOnPage(kind, app[c], q)
  BY <1>0, AnswerFacts
<1>2. app[c].wizard = "create" /\ app[c].step = 0
  BY <1>1 DEF TalkOnPage
<1>3. /\ a \in AppRecord /\ a.session = q.sid /\ a.transport = q.sid
      /\ Len(a.sinks) = 1 /\ a.once = {}
      /\ \A x \in {"wizard", "step", "visit", "target", "form", "candidate", "timers", "jobs"} :
           a[x] = app[c][x]
      /\ q.sid \in Sid /\ q.visit \in Nat /\ Mounted(a, q)
  BY <1>1, OwnState, CreatedPage
<1> HIDE DEF a, q
<1>4. /\ h \in AppRecord /\ h.step = 1 /\ h.session = q.sid /\ h.transport = q.sid
      /\ Len(h.sinks) = 1 /\ h.once = {} /\ h.wizard = "create"
      /\ \A x \in {"visit", "target", "form", "candidate", "timers", "jobs"} : h[x] = app[c][x]
  BY <1>2, <1>3, HandleNextType
<1> HIDE DEF h
<1>5. b \in AppRecord /\ b.step = 1 /\ b.session = q.sid /\ b.transport = q.sid
      /\ Len(b.sinks) = 1 /\ b.wizard = "create"
      /\ \A x \in {"visit", "target", "form", "candidate", "timers", "jobs"} : b[x] = app[c][x]
  <2>1. v \in Visit /\ h.once \cup {v} \in SUBSET Visit
    BY <1>3, <1>4 DEF Visit
  <2>2. b \in AppRecord
    BY <1>4, <2>1, FieldTypes
  <2>3. QED BY <1>4, <2>2 DEF AppRecord
<1> HIDE DEF b
<1>6. Page(kind, b) /\ Computing(kind, b)
  BY <1>0, <1>2, <1>3, <1>5, OwnState DEF Local, Page, Computing, Mounted
<1>7. QED BY <1>0, <1>3, <1>5, <1>6, HeardStep DEF q

\* The party number of one who joins a key.
LEMMA SignedUpStep ==
  ASSUME TypeOK, LocalInv, NEW c \in Client, SignedUp(c)
  PROVE  TypeOK' /\ LocalInv'
<1> DEFINE q == Answer(c)
           v == [sid |-> q.sid, visit |-> q.visit]
           a == Created(app[c], q)
           b == [a EXCEPT !.once = a.once \cup {v}]
<1>0. /\ Answered(c, "join", {"Session.signup"}, TRUE) /\ kind = "keygen" /\ Become(c, b)
      /\ UNCHANGED <<kind, server, calls, task, conn, left, invited>>
  BY DEF SignedUp, history
<1>1. q \in CallRecord /\ q.fn = "join" /\ TalkOnPage(kind, app[c], q)
  BY <1>0, AnswerFacts
<1>2. app[c].wizard = "join" /\ app[c].step = 1
  BY <1>1 DEF TalkOnPage
<1>3. /\ a \in AppRecord /\ a.session = q.sid /\ a.transport = q.sid
      /\ Len(a.sinks) = 1 /\ a.once = {}
      /\ \A x \in {"wizard", "step", "visit", "target", "form", "candidate", "timers", "jobs"} :
           a[x] = app[c][x]
      /\ q.sid \in Sid /\ q.visit \in Nat
  BY <1>1, OwnState, CreatedPage
<1> HIDE DEF a, q
<1>5. b \in AppRecord /\ b.session = q.sid /\ b.transport = q.sid
      /\ Len(b.sinks) = 1
      /\ \A x \in {"wizard", "step", "visit", "target", "form", "candidate", "timers", "jobs"} :
           b[x] = app[c][x]
  <2>1. v \in Visit /\ a.once \cup {v} \in SUBSET Visit
    BY <1>3 DEF Visit
  <2>2. b \in AppRecord
    BY <1>3, <2>1, FieldTypes
  <2>3. QED BY <1>3, <2>2 DEF AppRecord
<1> HIDE DEF b
<1>6. Page(kind, b) /\ Computing(kind, b)
  BY <1>0, <1>2, <1>3, <1>5, OwnState DEF Local, Page, Computing, Mounted
<1>7. QED BY <1>0, <1>3, <1>5, <1>6, HeardStep DEF q

\* createGroupSession ends, to sign.
LEMMA SignInviteStep ==
  ASSUME TypeOK, LocalInv, NEW c \in Client, OnMessage(c) \/ OnTransaction(c)
  PROVE  TypeOK' /\ LocalInv'
<1> DEFINE q == Answer(c)
           d == Created(app[c], q)
           a == Render([d EXCEPT !.candidate = q.sid])
           b == HandleNext(a)
<1>0. /\ Answered(c, "create", {"Session.load"}, TRUE) /\ kind # "keygen"
      /\ Become(c, IF Mounted(a, q) THEN b ELSE a)
      /\ UNCHANGED <<kind, server, calls, task, conn, left, invited>>
  BY DEF OnMessage, OnTransaction, SignInvite, history
<1>1. q \in CallRecord /\ q.fn = "create" /\ TalkOnPage(kind, app[c], q)
  BY <1>0, AnswerFacts
<1>2. app[c].wizard = "create" /\ app[c].step = 0
  BY <1>1 DEF TalkOnPage
<1>3. /\ d \in AppRecord /\ d.session = q.sid /\ d.transport = q.sid
      /\ Len(d.sinks) = 1 /\ d.once = {}
      /\ \A x \in {"wizard", "step", "visit", "target", "form", "timers", "jobs"} :
           d[x] = app[c][x]
      /\ q.sid \in Sid /\ q.visit \in Nat /\ Mounted(d, q)
  BY <1>1, OwnState, CreatedPage
<1> HIDE DEF d, q
<1>4. /\ a \in AppRecord /\ a.session = q.sid /\ a.transport = q.sid /\ a.candidate = q.sid
      /\ Len(a.sinks) = 1 /\ a.once = {} /\ Mounted(a, q)
      /\ \A x \in {"wizard", "step", "visit", "target", "form", "timers", "jobs"} :
           a[x] = app[c][x]
  BY <1>3, CandidateType DEF Mounted
<1> HIDE DEF a
<1>5. b \in AppRecord /\ b.step = 1 /\ b.session = q.sid /\ b.transport = q.sid /\ b.once = {}
      /\ Len(b.sinks) = 1 /\ b.wizard = "create"
      /\ \A x \in {"visit", "target", "form", "timers", "jobs"} : b[x] = app[c][x]
  BY <1>2, <1>4, HandleNextType
<1> HIDE DEF b
<1>6. Page(kind, b) /\ Computing(kind, b)
  BY <1>0, <1>2, <1>3, <1>5, OwnState DEF Local, Page, Computing, Mounted
<1>7. QED BY <1>0, <1>4, <1>5, <1>6, HeardStep DEF q

\* "Next" under the links, or after the signature: one page on, or two
LEMMA ShowComputeType ==
  ASSUME NEW a \in AppRecord, a.step = 1
  PROVE  /\ ShowCompute(a) \in AppRecord /\ ShowCompute(a).step \in {2, 3}
         /\ \A x \in {"wizard", "visit", "target", "form", "group", "session", "number",
                      "transport", "candidate", "proof", "once", "sinks", "inbox", "timers", "jobs"} :
               ShowCompute(a)[x] = a[x]
<1> DEFINE h == HandleNext(a)
           i == HandleNext(h)
<1>1. h \in AppRecord /\ h.step = 2
      /\ \A x \in {"wizard", "visit", "target", "form", "group", "session", "number",
                   "transport", "candidate", "proof", "once", "sinks", "inbox", "timers", "jobs"} :
           h[x] = a[x]
  BY HandleNextType
<1>2. ShowCompute(a) = IF a.proof # 0 THEN i ELSE h
  BY DEF ShowCompute
<1> HIDE DEF h
<1>3. i \in AppRecord /\ i.step = 3
      /\ \A x \in {"wizard", "visit", "target", "form", "group", "session", "number",
                   "transport", "candidate", "proof", "once", "sinks", "inbox", "timers", "jobs"} :
           i[x] = h[x]
  BY <1>1, HandleNextType
<1> HIDE DEF i
<1>4. QED BY <1>1, <1>2, <1>3

\* The party number of one who joins to sign is loaded.
LEMMA LoadedStep ==
  ASSUME TypeOK, LocalInv, NEW c \in Client, Loaded(c)
  PROVE  TypeOK' /\ LocalInv'
<1> DEFINE q == Answer(c)
           d == Created(app[c], q)
           a == Render([d EXCEPT !.candidate = q.sid])
           b == ShowCompute(a)
<1>0. /\ Answered(c, "load", {"Session.load"}, TRUE) /\ kind # "keygen"
      /\ Become(c, IF Mounted(a, q) THEN b ELSE a)
      /\ UNCHANGED <<kind, server, calls, task, conn, left, invited>>
  BY DEF Loaded, history
<1>1. q \in CallRecord /\ q.fn = "load" /\ TalkOnPage(kind, app[c], q)
  BY <1>0, AnswerFacts
<1>2. app[c].wizard = "join" /\ app[c].step = 1
  BY <1>1 DEF TalkOnPage
<1>3. /\ d \in AppRecord /\ d.session = q.sid /\ d.transport = q.sid
      /\ Len(d.sinks) = 1 /\ d.once = {}
      /\ \A x \in {"wizard", "step", "visit", "target", "form", "timers", "jobs"} :
           d[x] = app[c][x]
      /\ q.sid \in Sid /\ q.visit \in Nat /\ Mounted(d, q)
  BY <1>1, OwnState, CreatedPage
<1> HIDE DEF d, q
<1>4. /\ a \in AppRecord /\ a.session = q.sid /\ a.transport = q.sid /\ a.candidate = q.sid
      /\ Len(a.sinks) = 1 /\ a.once = {} /\ Mounted(a, q)
      /\ \A x \in {"wizard", "step", "visit", "target", "form", "timers", "jobs"} :
           a[x] = app[c][x]
  BY <1>3, CandidateType DEF Mounted
<1> HIDE DEF a
<1>5. b \in AppRecord /\ b.step \in {2, 3} /\ b.session = q.sid /\ b.transport = q.sid /\ b.once = {}
      /\ Len(b.sinks) = 1 /\ b.wizard = "join"
      /\ \A x \in {"visit", "target", "form", "timers", "jobs"} : b[x] = app[c][x]
  BY <1>2, <1>4, ShowComputeType
<1> HIDE DEF b
<1>6. Page(kind, b) /\ Computing(kind, b)
  BY <1>0, <1>2, <1>3, <1>5, OwnState DEF Local, Page, Computing, Mounted
<1>7. QED BY <1>0, <1>4, <1>5, <1>6, HeardStep DEF q

\* The page with the invite link is passed.
LEMMA InviteNextStep ==
  ASSUME TypeOK, LocalInv, NEW c \in Client, InviteNext(c)
  PROVE  TypeOK' /\ LocalInv'
<1> DEFINE a == app[c]
           b == ShowCompute(a)
<1>1. /\ kind # "keygen" /\ a.wizard = "create" /\ a.step = 1 /\ Become(c, b)
      /\ UNCHANGED <<kind, server, calls, task, frames, conn, left, invited>>
  BY DEF InviteNext, At, history
<1>2. a \in AppRecord /\ Local(kind, a, calls[c], frames[c])
  BY OwnState
<1>3. /\ b \in AppRecord /\ b.step \in {2, 3}
      /\ \A x \in {"wizard", "visit", "target", "form", "session",
                   "transport", "candidate", "once", "sinks", "timers", "jobs"} : b[x] = a[x]
  BY <1>1, <1>2, ShowComputeType
<1> HIDE DEF a, b
<1>4. Page(kind, b) /\ Computing(kind, b)
  BY <1>1, <1>2, <1>3 DEF Local, Page, Computing, Mounted
<1>5. Silent(b, calls[c], frames[c])
  BY <1>1, <1>2, <1>3 DEF Local, Awaited, Silent, None, TalkOnPage, TimerOnPage
<1>6. Local(kind, b, calls[c], frames[c])
  BY <1>2, <1>4, <1>5, SilentAwaits DEF Local
<1>7. QED BY <1>1, <1>3, <1>6, OwnState, OwnStep, HistoryTypes

\* The session of one who joins to sign is fetched.
LEMMA SessionFetchedStep ==
  ASSUME TypeOK, LocalInv, NEW c \in Client, SessionFetched(c)
  PROVE  TypeOK' /\ LocalInv'
<1> DEFINE q == Answer(c)
           g == SetGroup(app[c], q.sid)
           a == SetSession(g, q.sid, 0)
           b == [a EXCEPT !.ready = TRUE]
<1>0. /\ Answered(c, "join", {"Session.join"}, TRUE) /\ kind # "keygen"
      /\ Become(c, IF Mounted(a, q) THEN b ELSE a)
      /\ UNCHANGED <<kind, server, calls, task, conn, left, invited>>
  BY DEF SessionFetched, history
<1>1. q \in CallRecord /\ q.fn = "join" /\ TalkOnPage(kind, app[c], q) /\ q.sid \in Sid
  BY <1>0, AnswerFacts DEF CallRecord
<1>2. app[c].wizard = "join" /\ app[c].step = 1
  BY <1>1 DEF TalkOnPage
<1>3. g \in AppRecord /\ Same(app[c], g)
  BY <1>1, OwnState, SetGroupType
<1> HIDE DEF g
<1>4. /\ a \in AppRecord /\ a.session = q.sid
      /\ \A x \in {"wizard", "step", "visit", "target", "form", "candidate", "transport", "once",
                   "timers", "jobs", "sinks"} : a[x] = app[c][x]
  BY <1>1, <1>3, SetSessionType DEF Same
<1> HIDE DEF a
<1>5. /\ b \in AppRecord /\ b.session = q.sid
      /\ \A x \in {"wizard", "step", "visit", "target", "form", "candidate", "transport", "once",
                   "timers", "jobs", "sinks"} : b[x] = app[c][x]
  <2>1. b \in AppRecord
    BY <1>4, FieldTypes
  <2>2. QED BY <1>4, <2>1 DEF AppRecord
<1> HIDE DEF b, q
<1>6. \A e \in {a, b} : Page(kind, e) /\ Computing(kind, e)
  BY <1>0, <1>1, <1>2, <1>4, <1>5, OwnState DEF Local, Page, Computing, Mounted
<1>7. CASE Become(c, a)
  BY <1>0, <1>4, <1>6, <1>7, HeardStep
<1>8. CASE Become(c, b)
  BY <1>0, <1>5, <1>6, <1>8, HeardStep
<1>9. QED BY <1>0, <1>7, <1>8

-----------------------------------------------------------------------------
\* Computations

\* A computation's message is sent, or its response is there: the computations
\* are those that were there, at another point.
LEMMA JobsMoved ==
  ASSUME NEW k, NEW a \in AppRecord, Page(k, a), Computing(k, a), NEW J \in SUBSET Job,
         \A j \in J : \E i \in a.jobs : j.visit = i.visit,
         NEW b, b = [a EXCEPT !.jobs = J],
         \A i, j \in J : i.visit = j.visit /\ i.visit = a.visit /\ k = "keygen" /\ a.wizard # "none" => i = j
  PROVE  /\ b \in AppRecord /\ Page(k, b) /\ Computing(k, b)
         /\ \A cs, fs : Awaited(k, a, cs, fs) => Awaited(k, b, cs, fs)
<1>1. b \in AppRecord
  BY FieldTypes
<1>2. b.jobs = J /\ \A x \in {"wizard", "step", "visit", "target", "form", "session", "transport", "candidate",
                    "sinks", "once", "timers"} : b[x] = a[x]
  BY DEF AppRecord
<1>3. Page(k, b)
  BY <1>2 DEF Page
<1>4. Computing(k, b)
  BY <1>2 DEF Computing, Mounted
<1>5. \A cs, fs : Awaited(k, a, cs, fs) => Awaited(k, b, cs, fs)
  BY <1>2 DEF Awaited, Alone, TalkOnPage, TimerOnPage
<1>6. QED BY <1>1, <1>3, <1>4, <1>5

\* Of a page's own computations there is one.
LEMMA OneJob ==
  ASSUME NEW k, NEW a \in AppRecord, Computing(k, a), k = "keygen", a.wizard # "none",
         NEW i \in a.jobs, NEW j \in a.jobs, i.visit = a.visit, j.visit = a.visit
  PROVE  i = j
BY DEF Computing, Mounted

\* A computation sends its message.
LEMMA SendMessageStep ==
  ASSUME TypeOK, LocalInv, NEW c \in Client, SendMessage(c)
  PROVE  TypeOK' /\ LocalInv'
<1> DEFINE a == app[c]
           n(s) == Call("message", "Session.message", a, s)
<1>0. PICK j \in a.jobs :
        /\ Become(c, [a EXCEPT !.jobs = (a.jobs \ {j}) \cup {[j EXCEPT !.at = "sent"]}])
        /\ Ask(c, [n(j.via) EXCEPT !.visit = j.visit])
        /\ UNCHANGED <<kind, server, task, frames, conn, left, invited>>
  BY DEF SendMessage, history
<1> DEFINE i == [j EXCEPT !.at = "sent"]
           J == (a.jobs \ {j}) \cup {i}
           b == [a EXCEPT !.jobs = J]
           q == [n(j.via) EXCEPT !.visit = j.visit]
<1>1. a \in AppRecord /\ Local(kind, a, calls[c], frames[c]) /\ calls[c] \in Seq(CallRecord)
  BY OwnState
<1>2. a.jobs \in SUBSET Job /\ j \in Job
  BY <1>1 DEF AppRecord
<1>3. i \in Job /\ i.visit = j.visit /\ J \in SUBSET Job
  BY <1>2 DEF Job
<1>4. \A x, y \in J : x.visit = y.visit /\ x.visit = a.visit /\ kind = "keygen" /\ a.wizard # "none" => x = y
  <2>1. ASSUME NEW x \in J, NEW y \in J, x.visit = y.visit, x.visit = a.visit, kind = "keygen",
               a.wizard # "none"
        PROVE  x = y
    <3>1. CASE x \in a.jobs \ {j} /\ y \in a.jobs \ {j}
      BY <2>1, <3>1, <1>1, OneJob DEF Local
    <3>2. CASE x = i /\ y \in a.jobs \ {j}
      BY <2>1, <3>2, <1>1, <1>3, OneJob DEF Local
    <3>3. CASE y = i /\ x \in a.jobs \ {j}
      BY <2>1, <3>3, <1>1, <1>3, OneJob DEF Local
    <3>4. CASE x = i /\ y = i
      BY <3>4
    <3>5. QED BY <3>1, <3>2, <3>3, <3>4
  <2>2. QED BY <2>1
<1>5. \A x \in J : \E y \in a.jobs : x.visit = y.visit
  BY <1>3
<1>7. n(j.via) \in CallRecord /\ n(j.via).fn = "message" /\ n(j.via).method = "Session.message"
  BY <1>1, <1>2, CallType DEF Method, Job
<1> HIDE DEF n, J, a
<1>6. /\ b \in AppRecord /\ Page(kind, b) /\ Computing(kind, b)
      /\ Awaited(kind, b, calls[c], frames[c])
  <2>1. Page(kind, a) /\ Computing(kind, a) /\ Awaited(kind, a, calls[c], frames[c])
    BY <1>1 DEF Local
  <2>2. J \in SUBSET Job
    BY <1>3
  <2>3. /\ b \in AppRecord /\ Page(kind, b) /\ Computing(kind, b)
        /\ \A cs, fs : Awaited(kind, a, cs, fs) => Awaited(kind, b, cs, fs)
    BY <1>1, <1>4, <1>5, <2>1, <2>2, JobsMoved
  <2>4. QED BY <2>1, <2>3
<1> HIDE DEF b
<1>8. q \in CallRecord /\ q.fn = "message" /\ q.method # "Group.create"
  BY <1>2, <1>7 DEF CallRecord, Job
<1>9. Ask(c, q) /\ Become(c, b)
  BY <1>0 DEF b, J, a
<1> HIDE DEF q
<1>10. Local(kind, b, Append(calls[c], q), frames[c]) /\ Append(calls[c], q) \in Seq(CallRecord)
  BY <1>1, <1>6, <1>8, MessageAsked, ProposedKept, OwnState DEF Local
<1>11. calls' = [calls EXCEPT ![c] = Append(calls[c], q)]
  BY <1>9 DEF Ask
<1>12. QED BY <1>0, <1>6, <1>9, <1>10, <1>11, OwnState, OwnStep, HistoryTypes

\* Its message was relayed.
LEMMA MessageSentStep ==
  ASSUME TypeOK, LocalInv, NEW c \in Client, MessageSent(c)
  PROVE  TypeOK' /\ LocalInv'
<1> DEFINE a == app[c]
           q == Answer(c)
           f(j) == IF j.via = q.sid /\ j.visit = q.visit THEN [j EXCEPT !.at = "wait"] ELSE j
           J == {f(j) : j \in a.jobs}
           b == [a EXCEPT !.jobs = J]
<1>0. Become(c, b) /\ UNCHANGED <<kind, server, calls, task, conn, left, invited>>
      /\ frames[c] # <<>> /\ frames' = [frames EXCEPT ![c] = Tail(frames[c])]
  BY DEF MessageSent, Answered, history
<1>1. a \in AppRecord /\ Local(kind, a, calls[c], frames[c]) /\ frames[c] \in Seq(Frame)
  BY OwnState
<1>2. a.jobs \in SUBSET Job
  BY <1>1 DEF AppRecord
<1>3. \A j \in a.jobs : f(j) \in Job /\ f(j).visit = j.visit
  BY <1>2 DEF Job
<1>4. \A x, y \in J : x.visit = y.visit /\ x.visit = a.visit /\ kind = "keygen" /\ a.wizard # "none" => x = y
  <2>1. ASSUME NEW x \in J, NEW y \in J, x.visit = y.visit, x.visit = a.visit, kind = "keygen",
               a.wizard # "none"
        PROVE  x = y
    <3>1. PICK i \in a.jobs : x = f(i)
      OBVIOUS
    <3>2. PICK j \in a.jobs : y = f(j)
      OBVIOUS
    <3>3. i.visit = a.visit /\ j.visit = a.visit
      BY <1>3, <2>1, <3>1, <3>2
    <3>4. i = j
      BY <1>1, <2>1, <3>3, OneJob DEF Local
    <3>5. QED BY <3>1, <3>2, <3>4
  <2>2. QED BY <2>1
<1>5. \A x \in J : \E y \in a.jobs : x.visit = y.visit
  BY <1>3
<1>6. J \in SUBSET Job
  BY <1>3
<1> HIDE DEF f, J, a
<1>7. /\ b \in AppRecord /\ Page(kind, b) /\ Computing(kind, b)
      /\ Awaited(kind, b, calls[c], frames[c])
  <2>1. Page(kind, a) /\ Computing(kind, a) /\ Awaited(kind, a, calls[c], frames[c])
    BY <1>1 DEF Local
  <2>2. /\ b \in AppRecord /\ Page(kind, b) /\ Computing(kind, b)
        /\ \A cs, fs : Awaited(kind, a, cs, fs) => Awaited(kind, b, cs, fs)
    BY <1>1, <1>4, <1>5, <1>6, <2>1, JobsMoved
  <2>3. QED BY <2>1, <2>2
<1> HIDE DEF b
<1>8. Local(kind, b, calls[c], Tail(frames[c])) /\ Tail(frames[c]) \in Seq(Frame)
  BY <1>0, <1>1, <1>7, OtherHeard, TailElements DEF Local
<1>9. QED BY <1>0, <1>7, <1>8, OwnState, OwnStep, HistoryTypes

\* An event is handled.
LEMMA EventStep ==
  ASSUME TypeOK, LocalInv, NEW c \in Client, NEW a \in AppRecord, Become(c, a),
         frames[c] # <<>>, frames' = [frames EXCEPT ![c] = Tail(frames[c])],
         Page(kind, a), Computing(kind, a),
         \A fs : Awaited(kind, app[c], calls[c], fs) => Awaited(kind, a, calls[c], fs),
         UNCHANGED <<kind, server, calls, task, conn, left, invited>>
  PROVE  TypeOK' /\ LocalInv'
<1>1. Awaited(kind, app[c], calls[c], Tail(frames[c])) /\ Tail(frames[c]) \in Seq(Frame)
  BY OwnState, OtherHeard, TailElements DEF Local
<1>2. Local(kind, a, calls[c], Tail(frames[c]))
  BY <1>1, OwnState DEF Local
<1>3. QED BY <1>1, <1>2, OwnState, OwnStep, HistoryTypes

\* The ready event of a new key.
LEMMA SessionSignupStep ==
  ASSUME TypeOK, LocalInv, NEW c \in Client, SessionSignup(c)
  PROVE  TypeOK' /\ LocalInv'
<1> DEFINE o == app[c]
           a == [o EXCEPT !.once = {}]
           h == HandleNext(a)
           j == [sid |-> a.session, via |-> a.transport, number |-> a.number, visit |-> a.visit,
                 at |-> "send"]
           b == [h EXCEPT !.jobs = h.jobs \cup {j}]
           heard == \E v \in o.once : v.sid = Head(frames[c]).sid /\ Mounted(a, v)
<1>0. /\ kind = "keygen" /\ Become(c, IF heard THEN Compute(a) ELSE a)
      /\ frames[c] # <<>> /\ frames' = [frames EXCEPT ![c] = Tail(frames[c])]
      /\ UNCHANGED <<kind, server, calls, task, conn, left, invited>>
  BY DEF SessionSignup, history
<1>1. o \in AppRecord /\ Local(kind, o, calls[c], frames[c])
  BY OwnState
<1>2. /\ a \in AppRecord /\ a.once = {}
      /\ \A x \in {"wizard", "step", "visit", "target", "form", "session", "number", "transport", "candidate",
                   "sinks", "timers", "jobs"} : a[x] = o[x]
  <2>1. a \in AppRecord
    BY <1>1, FieldTypes
  <2>2. QED BY <1>1, <2>1 DEF AppRecord
<1> HIDE DEF o, a
<1>3. CASE heard
  <2>1. o.step = 1 /\ o.session \in Sid /\ o.transport \in Sid /\ o.wizard # "none" /\ o.once # {}
    BY <1>1, <1>2, <1>3 DEF Local, Page, Mounted
  <2>2. /\ h \in AppRecord /\ h.step = 2 /\ h.once = {}
        /\ \A x \in {"wizard", "visit", "target", "form", "session", "number", "transport", "candidate",
                     "sinks", "timers", "jobs"} : h[x] = o[x]
    BY <1>2, <2>1, HandleNextType
  <2>3. Compute(a) = b
    BY DEF Compute
  <2> HIDE DEF h
  <2>4. o.jobs \in SUBSET Job /\ o.visit \in Nat /\ o.number \in Nat
    BY <1>1, BoundsAssumption DEF AppRecord
  <2>5. j \in Job
    BY <1>2, <2>1, <2>4 DEF Job
  <2>6. j.visit = o.visit
    BY <1>2
  <2> HIDE DEF j
  <2>7. /\ b \in AppRecord /\ b.step = 2 /\ b.once = {} /\ b.jobs = o.jobs \cup {j}
        /\ \A x \in {"wizard", "visit", "target", "form", "session", "number", "transport", "candidate",
                     "sinks", "timers"} : b[x] = o[x]
    <3>1. h.jobs \cup {j} \in SUBSET Job
      BY <2>2, <2>4, <2>5
    <3>2. b \in AppRecord
      BY <2>2, <3>1, FieldTypes
    <3>3. QED BY <2>2, <3>2 DEF AppRecord
  <2> HIDE DEF b
  <2>8. Page(kind, b)
    BY <1>0, <1>1, <2>1, <2>7 DEF Local, Page
  <2>9. \A i \in o.jobs : ~Mounted(o, i) /\ i.visit <= o.visit
    BY <1>0, <1>1, <2>1 DEF Local, Computing
  <2>10. Computing(kind, b)
    BY <2>4, <2>6, <2>7, <2>9 DEF Computing, Mounted
  <2>11. \A fs : Awaited(kind, o, calls[c], fs) => Silent(b, calls[c], fs)
    BY <2>1, <2>7 DEF Awaited, Silent, None, TalkOnPage, TimerOnPage
  <2>12. Become(c, b)
    BY <1>0, <1>3, <2>3
  <2>13. QED BY <1>0, <2>7, <2>8, <2>10, <2>11, <2>12, SilentAwaits, EventStep DEF o
<1>4. CASE ~heard
  <2>1. Page(kind, a) /\ Computing(kind, a)
    BY <1>0, <1>1, <1>2 DEF Local, Page, Computing, Mounted
  <2>2. \A fs : Awaited(kind, o, calls[c], fs) => Awaited(kind, a, calls[c], fs)
    BY <1>2 DEF Awaited, Alone, TalkOnPage, TimerOnPage
  <2>3. QED BY <1>0, <1>2, <1>4, <2>1, <2>2, EventStep DEF o
<1>5. QED BY <1>3, <1>4

\* The ready event of a session that signs.
LEMMA SessionLoadStep ==
  ASSUME TypeOK, LocalInv, NEW c \in Client, SessionLoad(c)
  PROVE  TypeOK' /\ LocalInv'
<1> DEFINE o == app[c]
           s == Head(frames[c]).sid
           a == [o EXCEPT !.signer = FALSE]
           j == [sid |-> s, via |-> a.transport, number |-> a.number, visit |-> a.visit,
                 at |-> "send"]
           b == [a EXCEPT !.jobs = a.jobs \cup {j}]
           heard == o.signer /\ a.session = s /\ a.candidate # 0
<1>0. /\ kind # "keygen" /\ Become(c, IF heard THEN b ELSE a)
      /\ frames[c] # <<>> /\ frames' = [frames EXCEPT ![c] = Tail(frames[c])]
      /\ UNCHANGED <<kind, server, calls, task, conn, left, invited>>
  BY DEF SessionLoad, history
<1>1. o \in AppRecord /\ Local(kind, o, calls[c], frames[c])
  BY OwnState
<1>2. a \in AppRecord /\ Same(o, a) /\ a.number = o.number
  <2>1. a \in AppRecord /\ Same(o, a)
    BY <1>1, FieldTypes, SameFields
  <2>2. QED BY <1>1, <2>1 DEF AppRecord
<1>3. /\ Page(kind, a) /\ Computing(kind, a)
      /\ \A fs : Awaited(kind, o, calls[c], fs) => Awaited(kind, a, calls[c], fs)
  BY <1>1, <1>2, SamePage DEF Local
<1> HIDE DEF o, a
<1>4. CASE heard
  <2>1. a.session \in Sid /\ a.transport \in Sid
    BY <1>3, <1>4 DEF Page
  <2>2. a.jobs \in SUBSET Job /\ a.visit \in Nat /\ a.number \in Nat
    BY <1>2, BoundsAssumption DEF AppRecord
  <2>3. j \in Job /\ j.visit = a.visit
    BY <1>4, <2>1, <2>2 DEF Job
  <2> HIDE DEF j
  <2>4. /\ b \in AppRecord /\ b.jobs = a.jobs \cup {j}
        /\ \A x \in {"wizard", "step", "visit", "target", "form", "session", "transport", "candidate",
                     "sinks", "once", "timers"} : b[x] = a[x]
    <3>1. a.jobs \cup {j} \in SUBSET Job
      BY <2>2, <2>3
    <3>2. b \in AppRecord
      BY <1>2, <3>1, FieldTypes
    <3>3. QED BY <1>2, <3>2 DEF AppRecord
  <2> HIDE DEF b
  <2>5. Page(kind, b)
    BY <1>3, <2>4 DEF Page
  <2>6. Computing(kind, b)
    BY <1>0, <1>3, <2>2, <2>3, <2>4 DEF Computing
  <2>7. \A fs : Awaited(kind, a, calls[c], fs) => Awaited(kind, b, calls[c], fs)
    BY <2>4 DEF Awaited, Alone, TalkOnPage, TimerOnPage
  <2>8. QED BY <1>0, <1>3, <1>4, <2>4, <2>5, <2>6, <2>7, EventStep DEF o
<1>5. CASE ~heard
  BY <1>0, <1>2, <1>3, <1>5, EventStep DEF o
<1>6. QED BY <1>4, <1>5

\* A computation ends, and its page may go on.
LEMMA EndStep ==
  ASSUME TypeOK, LocalInv, NEW c \in Client, NEW a \in AppRecord, Become(c, a),
         Page(kind, a), Computing(kind, a), Awaited(kind, a, calls[c], frames[c]),
         UNCHANGED <<kind, server, calls, task, frames, conn, left, invited>>
  PROVE  TypeOK' /\ LocalInv'
<1>1. Local(kind, a, calls[c], frames[c])
  BY OwnState DEF Local
<1>2. QED BY <1>1, OwnState, OwnStep, HistoryTypes

\* The key share is computed.
LEMMA KeyComputedStep ==
  ASSUME TypeOK, LocalInv, NEW c \in Client, KeyComputed(c)
  PROVE  TypeOK' /\ LocalInv'
<1> DEFINE o == app[c]
           a(j) == [o EXCEPT !.jobs = o.jobs \ {j}, !.inbox[j.via] = {}]
<1>0. PICK j \in o.jobs :
        /\ Become(c, IF Mounted(a(j), j) THEN HandleNext(a(j)) ELSE a(j)) /\ kind = "keygen"
        /\ UNCHANGED <<kind, server, calls, task, frames, conn, left, invited>>
  BY DEF KeyComputed
<1> DEFINE b == a(j)
           h == HandleNext(b)
<1>1. /\ o \in AppRecord /\ Page(kind, o) /\ Computing(kind, o)
      /\ Awaited(kind, o, calls[c], frames[c])
  BY OwnState DEF Local
<1>2. o.jobs \in SUBSET Job /\ j \in Job /\ o.jobs \ {j} \in SUBSET Job
  BY <1>1 DEF AppRecord
<1>3. [o.inbox EXCEPT ![j.via] = {}] \in [Sid -> SUBSET Client]
  BY <1>1, <1>2 DEF AppRecord, Job
<1>4. /\ b \in AppRecord /\ b.jobs = o.jobs \ {j}
      /\ \A x \in {"wizard", "step", "visit", "target", "form", "session", "transport", "candidate",
                   "sinks", "once", "timers"} : b[x] = o[x]
  BY <1>1, <1>2, <1>3 DEF AppRecord
<1> HIDE DEF a, o
<1>5. Page(kind, b) /\ Computing(kind, b) /\ Awaited(kind, b, calls[c], frames[c])
  <2>1. Page(kind, b)
    BY <1>1, <1>4 DEF Page
  <2>2. Computing(kind, b)
    BY <1>1, <1>4 DEF Computing, Mounted
  <2>3. Awaited(kind, b, calls[c], frames[c])
    BY <1>1, <1>4 DEF Awaited, Alone, TalkOnPage, TimerOnPage
  <2>4. QED BY <2>1, <2>2, <2>3
<1>6. CASE Mounted(b, j)
  <2>1. o.step = 2 /\ o.wizard # "none" /\ j.visit = o.visit
    BY <1>0, <1>1, <1>4, <1>6 DEF Computing, Mounted
  <2>2. /\ h \in AppRecord /\ h.step = 3 /\ h.jobs = o.jobs \ {j}
        /\ \A x \in {"wizard", "visit", "target", "form", "session", "transport", "candidate",
                     "sinks", "once", "timers"} : h[x] = o[x]
    BY <1>4, <2>1, HandleNextType
  <2>3. Become(c, h)
    BY <1>0, <1>6
  <2> HIDE DEF h
  <2>4. Page(kind, h)
    BY <1>0, <1>1, <2>1, <2>2 DEF Page
  <2>5. \A i \in h.jobs : ~Mounted(h, i) /\ i.visit <= h.visit
    BY <1>0, <1>1, <2>1, <2>2 DEF Computing, Mounted
  <2>6. Computing(kind, h)
    BY <2>5 DEF Computing
  <2>7. Silent(h, calls[c], frames[c])
    BY <1>1, <2>1, <2>2 DEF Awaited, Silent, None, TalkOnPage, TimerOnPage
  <2>8. QED BY <1>0, <2>2, <2>3, <2>4, <2>6, <2>7, SilentAwaits, EndStep
<1>7. CASE ~Mounted(b, j)
  BY <1>0, <1>4, <1>5, <1>7, EndStep
<1>8. QED BY <1>6, <1>7

\* The value is signed.
LEMMA SignDoneStep ==
  ASSUME TypeOK, LocalInv, NEW c \in Client, SignDone(c)
  PROVE  TypeOK' /\ LocalInv'
<1> DEFINE o == app[c]
           r(j) == [o EXCEPT !.jobs = o.jobs \ {j}, !.inbox[j.via] = {}, !.sinks = <<>>, !.proof = j.sid]
           a(j) == Render(r(j))
<1>0. PICK j \in o.jobs :
        /\ Become(c, IF a(j).wizard # "none" /\ a(j).step = 2 THEN HandleNext(a(j)) ELSE a(j))
        /\ kind # "keygen"
        /\ UNCHANGED <<kind, server, calls, task, frames, conn, left, invited>>
  BY DEF SignDone
<1> DEFINE d == r(j)
           b == a(j)
           h == HandleNext(b)
<1>1. /\ o \in AppRecord /\ Page(kind, o) /\ Computing(kind, o)
      /\ Awaited(kind, o, calls[c], frames[c])
  BY OwnState DEF Local
<1>2. o.jobs \in SUBSET Job /\ j \in Job /\ o.jobs \ {j} \in SUBSET Job
  BY <1>1 DEF AppRecord
<1>3. [o.inbox EXCEPT ![j.via] = {}] \in [Sid -> SUBSET Client] /\ j.sid \in 0 .. MaxSessions
      /\ <<>> \in Seq(Sid)
  <2>1. j.via \in Sid /\ j.sid \in Sid /\ o.inbox \in [Sid -> SUBSET Client]
    BY <1>1, <1>2 DEF AppRecord, Job
  <2>2. j.sid \in 0 .. MaxSessions
    BY <2>1, BoundsAssumption DEF Sid
  <2>3. [o.inbox EXCEPT ![j.via] = {}] \in [Sid -> SUBSET Client]
    BY <2>1
  <2>4. QED BY <2>2, <2>3
<1>4. /\ d \in AppRecord /\ d.jobs = o.jobs \ {j} /\ d.sinks = <<>>
      /\ \A x \in {"wizard", "step", "visit", "target", "form", "session", "transport", "candidate",
                   "once", "timers"} : d[x] = o[x]
  BY <1>1, <1>2, <1>3 DEF AppRecord
<1>5. b = Render(d)
  OBVIOUS
<1> HIDE DEF r, a, o
<1>6. /\ b \in AppRecord /\ b.jobs = o.jobs \ {j} /\ b.sinks = <<>>
      /\ \A x \in {"wizard", "step", "visit", "target", "form", "session", "transport", "candidate",
                   "once", "timers"} : b[x] = o[x]
  <2>1. Render(d) \in AppRecord
    BY <1>4, RenderType
  <2>2. Render(d).jobs = d.jobs /\ Render(d).sinks = d.sinks
        /\ \A x \in {"wizard", "step", "visit", "target", "form", "session", "transport", "candidate",
                     "once", "timers"} : Render(d)[x] = d[x]
    BY <1>4 DEF Render, AppRecord
  <2>3. QED BY <1>4, <1>5, <2>1, <2>2
<1>7. Page(kind, b) /\ Computing(kind, b) /\ Awaited(kind, b, calls[c], frames[c])
  <2>1. Page(kind, b)
    BY <1>1, <1>6 DEF Page
  <2>2. Computing(kind, b)
    BY <1>0, <1>1, <1>6 DEF Computing
  <2>3. Awaited(kind, b, calls[c], frames[c])
    BY <1>1, <1>6 DEF Awaited, Alone, TalkOnPage, TimerOnPage
  <2>4. QED BY <2>1, <2>2, <2>3
<1>8. CASE b.wizard # "none" /\ b.step = 2
  <2>1. /\ h \in AppRecord /\ h.step = 3 /\ h.jobs = o.jobs \ {j} /\ h.sinks = <<>>
        /\ \A x \in {"wizard", "visit", "target", "form", "session", "transport", "candidate",
                     "once", "timers"} : h[x] = o[x]
    BY <1>6, <1>8, HandleNextType
  <2>2. Become(c, h)
    BY <1>0, <1>8
  <2> HIDE DEF h
  <2>3. Page(kind, h)
    BY <1>0, <1>1, <1>6, <1>8, <2>1 DEF Page
  <2>4. Computing(kind, h)
    BY <1>0, <1>1, <2>1 DEF Computing
  <2>5. Silent(h, calls[c], frames[c])
    BY <1>1, <1>6, <1>8, <2>1 DEF Awaited, Silent, None, TalkOnPage, TimerOnPage
  <2>6. QED BY <1>0, <2>1, <2>2, <2>3, <2>4, <2>5, SilentAwaits, EndStep
<1>9. CASE ~(b.wizard # "none" /\ b.step = 2)
  BY <1>0, <1>6, <1>7, <1>9, EndStep
<1>10. QED BY <1>8, <1>9

-----------------------------------------------------------------------------
\* The server

\* The elements of a sequence.
LEMMA SequenceElements ==
  ASSUME NEW S, NEW s \in Seq(S)
  PROVE  ToSet(s) \subseteq S /\ (s # <<>> => Last(s) \in S)
<1>1. \A i \in 1 .. Len(s) : s[i] \in S
  OBVIOUS
<1>2. DOMAIN s = 1 .. Len(s) /\ (s # <<>> => Len(s) \in 1 .. Len(s))
  OBVIOUS
<1>3. QED BY <1>1, <1>2 DEF ToSet, Last

\* The last number of a session, and its parties.
LEMMA SignupTypes ==
  ASSUME TypeOK, NEW s \in Sid
  PROVE  NextNumber(s) \in Nat /\ Parties(s) \subseteq Client
<1> DEFINE S == [number : Nat, client : Client]
           e == server[s].signups
<1>1. e \in Seq(S)
  BY DEF TypeOK, Group
<1> HIDE DEF S, e
<1>2. ToSet(e) \subseteq S /\ (e # <<>> => Last(e) \in S)
  BY <1>1, SequenceElements
<1>3. QED BY <1>2 DEF NextNumber, Parties, S, e

\* What an accepted request leads to.
LEMMA HandledTypes ==
  ASSUME TypeOK, NEW c \in Client, NEW q \in CallRecord
  PROVE  Handled(c, q) \in Group /\ Notification(c, q) \in Task
<1>1. q.sid \in Sid /\ q.number \in Nat /\ q.params \in Form /\ server[q.sid] \in Group
  BY DEF CallRecord, TypeOK
<1>2. NextNumber(q.sid) \in Nat
  BY <1>1, SignupTypes
<1>3. \A n \in Nat : Append(server[q.sid].signups, [number |-> n, client |-> c])
                       \in Seq([number : Nat, client : Client])
  BY <1>1 DEF Group
<1>4. Handled(c, q) \in Group
  BY <1>1, <1>2, <1>3 DEF Handled, Group
<1>5. [type |-> "ready", sid |-> q.sid] \in Event
      /\ [type |-> "message", sid |-> q.sid, from |-> c] \in Event
  BY <1>1 DEF Event
<1>6. Notification(c, q) \in Task
  BY <1>1, <1>5 DEF Notification, Task
<1>7. QED BY <1>4, <1>6

\* A request is accepted or not.
LEMMA AcceptsBoolean ==
  ASSUME NEW c, NEW q
  PROVE  Accepts(c, q) \in BOOLEAN
<1>1. CASE q.method = "Group.create"
  <2>1. Accepts(c, q) = ValidParameters(q.params)
    BY <1>1 DEF Accepts
  <2>2. ValidParameters(q.params) \in BOOLEAN
    BY DEF ValidParameters
  <2>3. QED BY <2>1, <2>2
<1>2. CASE q.method = "Group.join"
  <2> DEFINE some == Clients(q.sid) # {}
             room == ~Full(q.sid)
  <2>1. Accepts(c, q) = (some /\ room)
    BY <1>2 DEF Accepts
  <2>2. QED BY <2>1
<1>3. CASE q.method = "Session.load"
  <2> DEFINE here == c \in server[q.sid].members
             free == \A e \in ToSet(server[q.sid].signups) : e.number # q.number
  <2>1. Accepts(c, q) = (here /\ free)
    BY <1>3 DEF Accepts
  <2>2. QED BY <2>1
<1>4. CASE q.method \notin {"Group.create", "Group.join", "Session.load"}
  <2>1. Accepts(c, q) = (c \in server[q.sid].members)
    BY <1>4 DEF Accepts
  <2>2. QED BY <2>1
<1>5. QED BY <1>1, <1>2, <1>3, <1>4

\* A connection that is closing stays so, and what is closed or not.
OnlyFlags(old, new) ==
  /\ new \in [Client -> Connection]
  /\ \A d \in Client : /\ old[d] = "closed" <=> new[d] = "closed"
                       /\ old[d] = "closing" => new[d] = "closing"

\* The sender task looks at the flag.
LEMMA FlagReadTypes ==
  ASSUME TypeOK, NEW c \in Client
  PROVE  OnlyFlags(conn, FlagRead(c))
<1>1. conn \in [Client -> Connection]
  BY DEF TypeOK
<1>2. (IF conn[c] = "flagged" THEN "closing" ELSE conn[c]) \in Connection
  BY <1>1 DEF Connection
<1>3. FlagRead(c) \in [Client -> Connection]
  BY <1>1, <1>2 DEF FlagRead
<1>4. \A d \in Client : FlagRead(c)[d] = IF d = c /\ conn[d] = "flagged" THEN "closing" ELSE conn[d]
  BY <1>1 DEF FlagRead
<1>5. QED BY <1>3, <1>4 DEF OnlyFlags

\* What handling a request does to the connections.
LEMMA ServeFlags ==
  ASSUME TypeOK, NEW c \in Client, Serve(c)
  PROVE  OnlyFlags(conn, conn')
<1>1. conn \in [Client -> Connection]
  BY DEF TypeOK
<1>2. CASE conn' = FlagRead(c)
  BY <1>2, FlagReadTypes
<1>3. ASSUME conn[c] = "open", NEW x \in {"flagged", "closing"}, conn' = [conn EXCEPT ![c] = x]
      PROVE  OnlyFlags(conn, conn')
  <2>1. conn' \in [Client -> Connection]
    BY <1>1, <1>3 DEF Connection
  <2>2. \A d \in Client : conn'[d] = IF d = c THEN x ELSE conn[d]
    BY <1>1, <1>3
  <2>3. QED BY <1>3, <2>1, <2>2 DEF OnlyFlags
<1>4. QED BY <1>2, <1>3 DEF Serve

\* And sending an event.
LEMMA NotifyFlags ==
  ASSUME TypeOK, NEW c \in Client, Notify(c)
  PROVE  OnlyFlags(conn, conn')
<1> DEFINE t == task[c]
           to == IF t.fresh THEN Receivers(c, t) ELSE t.to
<1>1. t # Idle /\ t \in [frame : Event, sid : Sid, to : SUBSET Client, fresh : BOOLEAN]
  BY DEF Notify, TypeOK, Task
<1>2. to \subseteq Client
  BY <1>1, SignupTypes DEF Receivers
<1>3. PICK r \in to : conn' = FlagRead(r)
  BY DEF Notify
<1>4. QED BY <1>2, <1>3, FlagReadTypes

\* What is closing or closed stays cut off.
LEMMA CutStays ==
  ASSUME NEW d \in Client, OnlyFlags(conn, conn'), Cut(d)
  PROVE  Cut(d)'
BY DEF OnlyFlags, Cut

\* The server answers a request.
LEMMA ServeStep ==
  ASSUME TypeOK, LocalInv, NEW c \in Client, Serve(c)
  PROVE  TypeOK' /\ LocalInv'
<1> DEFINE q == Head(calls[c])
           ok == Accepts(c, q)
           number == IF q.method = "Session.signup" THEN NextNumber(q.sid) ELSE q.number
           f == [type |-> "answer", ok |-> ok, call |-> [q EXCEPT !.number = number]]
<1>1. /\ calls[c] # <<>>
      /\ server' = IF ok THEN [server EXCEPT ![q.sid] = Handled(c, q)] ELSE server
      /\ task' = [task EXCEPT ![c] = IF ok THEN Notification(c, q) ELSE Idle]
      /\ frames' = IF Cut(c) THEN frames ELSE [frames EXCEPT ![c] = Append(frames[c], f)]
      /\ calls' = [calls EXCEPT ![c] = Tail(calls[c])]
      /\ UNCHANGED <<kind, app, left, invited>>
  BY DEF Serve, Sent, history
<1>2. conn' \in [Client -> Connection]
  BY ServeFlags DEF OnlyFlags
<1>3. /\ calls[c] \in Seq(CallRecord) /\ frames[c] \in Seq(Frame) /\ q \in CallRecord
      /\ Local(kind, app[c], calls[c], frames[c])
  BY <1>1, OwnState, TailElements
<1>4. number \in Nat /\ q.sid \in Sid /\ ok \in BOOLEAN
  <2>1. number \in Nat /\ q.sid \in Sid
    BY <1>3, SignupTypes DEF CallRecord
  <2>2. ok \in BOOLEAN
    BY AcceptsBoolean
  <2>3. QED BY <2>1, <2>2
<1> HIDE DEF number, ok
<1>5. f \in Frame /\ Awaited(kind, app[c], Tail(calls[c]), Append(frames[c], f))
  BY <1>1, <1>3, <1>4, RequestServed DEF Local
<1> HIDE DEF f
<1>6. Tail(calls[c]) \in Seq(CallRecord) /\ Append(frames[c], f) \in Seq(Frame)
  BY <1>1, <1>3, <1>5
<1>7. /\ Local(kind, app[c], Tail(calls[c]), Append(frames[c], f))
      /\ Local(kind, app[c], Tail(calls[c]), frames[c])
  <2>1. Awaited(kind, app[c], Tail(calls[c]), frames[c])
    BY <1>1, <1>3, RequestDropped DEF Local
  <2>2. QED BY <1>1, <1>3, <1>5, <2>1, ProposedKept DEF Local
<1>8. TypeOK'
  <2>1. Handled(c, q) \in Group /\ Notification(c, q) \in Task /\ Idle \in Task
    BY <1>3, HandledTypes DEF Task
  <2>2. server' \in [Sid -> Group]
    BY <1>1, <1>4, <2>1 DEF TypeOK
  <2>3. task' \in [Client -> Task]
    BY <1>1, <2>1 DEF TypeOK
  <2>4. frames' \in [Client -> Seq(Frame)] /\ calls' \in [Client -> Seq(CallRecord)]
    BY <1>1, <1>6 DEF TypeOK
  <2>5. QED BY <1>1, <1>2, <2>2, <2>3, <2>4 DEF TypeOK
<1>9. ASSUME NEW d \in Client
      PROVE  Local(kind, app[d], calls'[d], frames'[d])
  <2>1. CASE d = c
    <3>1. calls'[d] = Tail(calls[c]) /\ frames'[d] \in {frames[c], Append(frames[c], f)}
      BY <1>1, <2>1 DEF TypeOK
    <3>2. QED BY <1>7, <2>1, <3>1
  <2>2. CASE d # c
    BY <1>1, <2>2 DEF TypeOK, LocalInv
  <2>3. QED BY <2>1, <2>2
<1>10. QED BY <1>1, <1>8, <1>9 DEF LocalInv

\* It sends an event to one receiver.
LEMMA NotifyStep ==
  ASSUME TypeOK, LocalInv, NEW c \in Client, Notify(c)
  PROVE  TypeOK' /\ LocalInv'
<1> DEFINE t == task[c]
           to == IF t.fresh THEN Receivers(c, t) ELSE t.to
<1>0. /\ t # Idle /\ t \in [frame : Event, sid : Sid, to : SUBSET Client, fresh : BOOLEAN]
  BY DEF Notify, TypeOK, Task
<1>1. to \subseteq Client
  BY <1>0, SignupTypes DEF Receivers
<1>2. PICK r \in to :
        /\ frames' = IF Cut(r) THEN frames
                     ELSE [frames EXCEPT ![r] = Append(frames[r], t.frame)]
        /\ task' = [task EXCEPT ![c] =
              IF to = {r} THEN Idle ELSE [t EXCEPT !.to = to \ {r}, !.fresh = FALSE]]
  BY DEF Notify, Sent
<1>3. UNCHANGED <<kind, server, calls, app, left, invited>> /\ conn' \in [Client -> Connection]
  BY NotifyFlags DEF Notify, history, OnlyFlags
<1> HIDE DEF to
<1>4. r \in Client /\ frames[r] \in Seq(Frame) /\ Local(kind, app[r], calls[r], frames[r])
  BY <1>1, OwnState
<1>5. t.frame \in Event /\ t.frame \in Frame
  BY <1>0 DEF Frame
<1>6. Append(frames[r], t.frame) \in Seq(Frame)
      /\ Local(kind, app[r], calls[r], Append(frames[r], t.frame))
  BY <1>4, <1>5, EventArrives DEF Local
<1>7. [t EXCEPT !.to = to \ {r}, !.fresh = FALSE] \in Task
  BY <1>0, <1>1 DEF Task
<1> HIDE DEF t
<1>8. TypeOK'
  <2>1. task' \in [Client -> Task]
    BY <1>2, <1>7 DEF TypeOK, Task
  <2>2. frames' \in [Client -> Seq(Frame)]
    BY <1>2, <1>4, <1>6 DEF TypeOK
  <2>3. QED BY <1>3, <2>1, <2>2 DEF TypeOK
<1>9. ASSUME NEW d \in Client
      PROVE  Local(kind, app[d], calls[d], frames'[d])
  <2>1. CASE d = r
    BY <1>2, <1>4, <1>6, <2>1 DEF TypeOK
  <2>2. CASE d # r
    BY <1>2, <2>2 DEF TypeOK, LocalInv
  <2>3. QED BY <2>1, <2>2
<1>10. QED BY <1>3, <1>8, <1>9 DEF LocalInv

\* A client is gone.
LEMMA DisconnectedStep ==
  ASSUME TypeOK, LocalInv, NEW c \in Client, ClientDisconnected(c)
  PROVE  TypeOK' /\ LocalInv'
<1>1. UNCHANGED <<kind, server, calls, task, frames, app, left, invited>>
      /\ conn' = [conn EXCEPT ![c] = "closed"]
  BY DEF ClientDisconnected, history
<1>2. "closed" \in Connection
  BY DEF Connection
<1>3. TypeOK'
  BY <1>1, <1>2 DEF TypeOK
<1>4. QED BY <1>1, <1>3 DEF LocalInv

-----------------------------------------------------------------------------
\* The invariant of each client by itself

FlowInv == TypeOK /\ LocalInv

\* A dapp that was just started awaits nothing.
LEMMA InitFlow == Init => FlowInv
<1> SUFFICES ASSUME Init PROVE FlowInv
  OBVIOUS
<1>1. NewApp \in AppRecord
  <2>1. 0 \in 0 .. 3 /\ 0 \in 0 .. MaxSessions /\ NoForm \in Form
        /\ <<>> \in Seq(Sid) /\ [s \in Sid |-> {}] \in [Sid -> SUBSET Client]
    BY BoundsAssumption DEF NoForm, Form
  <2>2. QED BY <2>1 DEF AppRecord
<1>2. NoSession \in Group
  BY KeyAssumption DEF NoSession, Group, Form
<1>3. TypeOK
  BY <1>1, <1>2 DEF Init, TypeOK, Task, Connection
<1>4. Page(kind, NewApp) /\ Computing(kind, NewApp) /\ Silent(NewApp, <<>>, <<>>)
      /\ Proposed(<<>>)
  BY DEF Page, Computing, Silent, None, Proposed
<1>5. ASSUME NEW c \in Client
      PROVE  Local(kind, app[c], calls[c], frames[c])
  BY <1>4, SilentAwaits DEF Init, Local
<1>6. QED BY <1>3, <1>5 DEF FlowInv, LocalInv

\* Every step keeps it.
LEMMA NextFlow ==
  ASSUME Patient, FlowInv, [Next]_vars
  PROVE  FlowInv'
<1> USE DEF FlowInv
<1>1. CASE UNCHANGED vars
  BY <1>1 DEF vars, history, TypeOK, LocalInv
<1>2. ASSUME NEW c \in Client, System(c)
      PROVE  FlowInv'
  BY <1>2, ServeStep, NotifyStep, DisconnectedStep, TimeoutStep, SendMessageStep, MessageSentStep,
     ReceiveMessageStep, CreateGroupSessionStep, JoinGroupSessionStep, CallFailedStep,
     KeyInviteStep, SessionJoinedStep, SignedUpStep, SessionSignupStep, KeyComputedStep,
     SignInviteStep, SessionFetchedStep, LoadedStep, SessionLoadStep, SignDoneStep
     DEF System, KeygenStep, SignStep
<1>3. ASSUME NEW c \in Client, User(c)
      PROVE  FlowInv'
  BY <1>3, FollowLinkStep, ConnectedStep, CopyLinkStep, LeaveSteps, OpenCreateStep,
     SetParametersStep, SubmitParametersStep, OpenSignStep, ReadySteps, CreateForStep,
     InviteNextStep, ApproveStep
     DEF User, KeygenUser, SignUser, SubmitMessage, SubmitTransaction
<1>4. QED BY <1>1, <1>2, <1>3 DEF Next

\* While users are patient, a page awaits one thing at a time, which it asked
\* for itself, before it made a sink or a listener.
THEOREM FlowInvHolds ==
  ASSUME Patient
  PROVE  Spec => []FlowInv
<1>1. Init => FlowInv
  BY InitFlow
<1>2. FlowInv /\ [Next]_vars => FlowInv'
  BY NextFlow
<1>3. QED BY <1>1, <1>2, PTL DEF Spec

\* What the server, the sockets and the dapps hold is well typed, and every
\* call, task, frame, timer and computation under way between them: an answer
\* comes back with the session and the number the page goes on with, and a
\* wizard's step is never past its last.
THEOREM TypeCorrect ==
  ASSUME Patient
  PROVE  Spec => []TypeOK
<1>1. FlowInv => TypeOK
  BY DEF FlowInv
<1>2. QED BY <1>1, FlowInvHolds, PTL

\* A socket has one sink at a time: a page makes its sink while it has none.
THEOREM OneSinkHolds ==
  ASSUME Patient
  PROVE  Spec => []OneSink
<1>1. FlowInv => OneSink
  BY DEF FlowInv, LocalInv, Local, Page, OneSink
<1>2. QED BY <1>1, FlowInvHolds, PTL

\* The form of the create page asks for parameters the server accepts.
THEOREM ParametersAcceptedHolds ==
  ASSUME Patient
  PROVE  Spec => []ParametersAccepted
<1>1. ASSUME FlowInv PROVE ParametersAccepted
  <2>1. ASSUME NEW c \in Client PROVE DOMAIN calls[c] = 1 .. Len(calls[c])
    BY <1>1 DEF FlowInv, TypeOK
  <2>2. QED BY <1>1, <2>1 DEF FlowInv, LocalInv, Local, Proposed, ParametersAccepted
<1>2. QED BY <1>1, FlowInvHolds, PTL

=============================================================================
