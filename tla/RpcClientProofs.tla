-------------------------- MODULE RpcClientProofs ---------------------------
(***************************************************************************)
(* Theorems about RpcClient, for every number of calls and of sockets.     *)
(*                                                                         *)
(* The argument: only the client's own socket carries anything, and what   *)
(* its responses, its requests and the queue hold is one sequence of calls *)
(* in the order they were made.  So a response finds the request it        *)
(* belongs to at the head, and its id, the number of the call, is in no    *)
(* other place.                                                            *)
(***************************************************************************)
EXTENDS RpcClient, SequenceTheorems, TLAPS

-----------------------------------------------------------------------------
\* The inductive invariant

Ascending(s) == \A i, j \in DOMAIN s : i < j => s[i].call < s[j].call

Before(s, t) == \A i \in DOMAIN s, j \in DOMAIN t : s[i].call < t[j].call

\* Requests that wait for their response: each has the id of its call, which is
\* one of the first n, and a promise among those in C.
Pending(s, n, C) ==
  \A i \in DOMAIN s : s[i].call = s[i].id /\ s[i].call <= n /\ s[i] \in C

\* A socket that is not connected carries nothing.
Quiet ==
  \A k \in Socket :
    readyState[k] \notin {"open", "closing"} => sent[k] = <<>> /\ replies[k] = <<>>

\* Responses, requests and queue are in the order of the calls.
InOrder ==
  /\ Ascending(queue) /\ Pending(queue, made, cache)
  /\ \A k \in Socket :
       /\ Ascending(sent[k]) /\ Pending(sent[k], made, cache)
       /\ Ascending(replies[k]) /\ Pending(replies[k], made, cache)
       /\ Before(replies[k], sent[k])
       /\ Before(replies[k], queue) /\ Before(sent[k], queue)

\* What was given to a socket was given in order, before what waits.
GivenInOrder ==
  /\ CallOrder
  /\ \A i \in DOMAIN given : given[i] <= made
  /\ \A i \in DOMAIN given, j \in DOMAIN queue : given[i] < queue[j].call

OwnIds == messageId = made /\ \A x \in cache : x.call = x.id

\* The client forgets no call: one that is neither settled nor lost with its
\* connection is in the queue or on the client's socket.
NoneForgotten ==
  \A n \in 1 .. made :
    \/ n \in lost \cup {x.call : x \in settled}
    \/ n \in Calls(queue) \cup Calls(sent[current]) \cup Calls(replies[current])

IInv ==
  /\ TypeOK
  /\ OneConnection
  /\ Quiet
  /\ InOrder
  /\ GivenInOrder
  /\ OwnIds
  /\ OwnAnswer
  /\ NoneForgotten

-----------------------------------------------------------------------------
\* Sequences of requests

LEMMA EmptyOrder ==
  /\ Ascending(<<>>) /\ Calls(<<>>) = {}
  /\ \A t : Before(<<>>, t) /\ Before(t, <<>>)
  /\ \A n, C : Pending(<<>>, n, C)
BY DEF Ascending, Before, Pending, Calls, ToSet

LEMMA CallsType ==
  ASSUME NEW s \in Seq(Request)
  PROVE  Calls(s) \subseteq CallNo
<1>1. \A i \in DOMAIN s : s[i] \in Request
  OBVIOUS
<1>2. \A r \in Request : r.call \in CallNo
  BY DEF Request
<1>3. QED
  BY <1>1, <1>2 DEF Calls, ToSet

\* A request whose call is later than those of s goes to the end of s.
LEMMA AppendOrder ==
  ASSUME NEW s \in Seq(Request), NEW r \in Request
  PROVE  /\ Append(s, r) \in Seq(Request)
         /\ Calls(Append(s, r)) = Calls(s) \cup {r.call}
         /\ Ascending(s) /\ (\A i \in DOMAIN s : s[i].call < r.call) => Ascending(Append(s, r))
         /\ \A t \in Seq(Request) :
              /\ Before(t, s) /\ (\A i \in DOMAIN t : t[i].call < r.call) => Before(t, Append(s, r))
              /\ Before(s, t) /\ (\A i \in DOMAIN t : r.call < t[i].call) => Before(Append(s, r), t)
         /\ \A n, C : Pending(s, n, C) /\ r.call = r.id /\ r.call <= n /\ r \in C
                        => Pending(Append(s, r), n, C)
<1> DEFINE a == Append(s, r)
<1>1. /\ a \in Seq(Request) /\ DOMAIN s = 1 .. Len(s) /\ DOMAIN a = 1 .. Len(s) + 1
      /\ Len(s) \in Nat /\ a[Len(s) + 1] = r /\ \A i \in 1 .. Len(s) : a[i] = s[i]
  BY AppendProperties
<1> HIDE DEF a
<1>2. Calls(a) = Calls(s) \cup {r.call}
  BY <1>1 DEF Calls, ToSet
<1>3. ASSUME Ascending(s), \A i \in DOMAIN s : s[i].call < r.call
      PROVE  Ascending(a)
  BY <1>1, <1>3 DEF Ascending
<1>4. ASSUME NEW t \in Seq(Request)
      PROVE  /\ Before(t, s) /\ (\A i \in DOMAIN t : t[i].call < r.call) => Before(t, a)
             /\ Before(s, t) /\ (\A i \in DOMAIN t : r.call < t[i].call) => Before(a, t)
  <2>1. ASSUME Before(t, s), \A i \in DOMAIN t : t[i].call < r.call
        PROVE  Before(t, a)
    BY <1>1, <2>1 DEF Before
  <2>2. ASSUME Before(s, t), \A i \in DOMAIN t : r.call < t[i].call
        PROVE  Before(a, t)
    BY <1>1, <2>2 DEF Before
  <2>3. QED
    BY <2>1, <2>2
<1>5. ASSUME NEW n, NEW C, Pending(s, n, C), r.call = r.id, r.call <= n, r \in C
      PROVE  Pending(a, n, C)
  BY <1>1, <1>5 DEF Pending
<1>6. QED
  BY <1>1, <1>2, <1>3, <1>4, <1>5 DEF a

\* The head of s goes; what is left is later.
LEMMA TailOrder ==
  ASSUME NEW s \in Seq(Request), s # <<>>
  PROVE  /\ Head(s) \in Request /\ Tail(s) \in Seq(Request)
         /\ Calls(s) = {Head(s).call} \cup Calls(Tail(s))
         /\ Ascending(s) => /\ Ascending(Tail(s))
                            /\ \A i \in DOMAIN Tail(s) : Head(s).call < Tail(s)[i].call
         /\ \A t \in Seq(Request) :
              /\ Before(t, s) => /\ Before(t, Tail(s))
                                 /\ \A i \in DOMAIN t : t[i].call < Head(s).call
              /\ Before(s, t) => /\ Before(Tail(s), t)
                                 /\ \A i \in DOMAIN t : Head(s).call < t[i].call
         /\ \A n, C : Pending(s, n, C) =>
              /\ Pending(Tail(s), n, C)
              /\ Head(s).call = Head(s).id /\ Head(s).call <= n /\ Head(s) \in C
<1> DEFINE h == Head(s)
           t == Tail(s)
<1>1. /\ h \in Request /\ t \in Seq(Request) /\ Len(s) \in Nat /\ Len(s) >= 1
      /\ DOMAIN s = 1 .. Len(s) /\ DOMAIN t = 1 .. Len(s) - 1
      /\ h = s[1] /\ \A i \in 1 .. Len(s) - 1 : t[i] = s[i + 1]
  BY HeadTailProperties
<1> HIDE DEF h, t
<1>2. /\ 1 \in DOMAIN s
      /\ \A i \in DOMAIN t : i + 1 \in DOMAIN s /\ i \in Int /\ 1 < i + 1 /\ t[i] = s[i + 1]
      /\ \A i \in DOMAIN s : i = 1 \/ (i - 1 \in DOMAIN t /\ t[i - 1] = s[i])
  BY <1>1
<1>3. Calls(s) = {h.call} \cup Calls(t)
  BY <1>1, <1>2 DEF Calls, ToSet
<1>4. ASSUME Ascending(s)
      PROVE  Ascending(t) /\ \A i \in DOMAIN t : h.call < t[i].call
  <2>1. \A i, j \in DOMAIN t : i < j => i + 1 < j + 1
    BY <1>1
  <2>2. QED
    BY <1>1, <1>2, <1>4, <2>1 DEF Ascending
<1>5. ASSUME NEW u \in Seq(Request)
      PROVE  /\ Before(u, s) => Before(u, t) /\ \A i \in DOMAIN u : u[i].call < h.call
             /\ Before(s, u) => Before(t, u) /\ \A i \in DOMAIN u : h.call < u[i].call
  BY <1>1, <1>2 DEF Before
<1>6. ASSUME NEW n, NEW C, Pending(s, n, C)
      PROVE  Pending(t, n, C) /\ h.call = h.id /\ h.call <= n /\ h \in C
  BY <1>1, <1>2, <1>6 DEF Pending
<1>7. QED
  BY <1>1, <1>3, <1>4, <1>5, <1>6 DEF h, t

-----------------------------------------------------------------------------
\* Every step keeps the invariant

LEMMA InitIInv == Init => IInv
<1> SUFFICES ASSUME Init
             PROVE  IInv
  OBVIOUS
<1>1. /\ queue = <<>> /\ given = <<>> /\ made = 0 /\ cache = {} /\ settled = {}
      /\ \A k \in Socket : sent[k] = <<>> /\ replies[k] = <<>>
  BY DEF Init
<1>2. 1 \in Socket /\ \A k \in Socket : readyState[k] = IF k = 1 THEN "connecting" ELSE "none"
  BY BoundsAssumption DEF Socket, Init
<1>3. TypeOK
  <2>1. readyState \in [Socket -> {"none", "connecting", "open", "closing", "closed"}]
    BY DEF Init
  <2>2. current \in Socket /\ connected \in BOOLEAN /\ cache \subseteq Request
    BY <1>2 DEF Init
  <2>3. 0 \in 0 .. MaxCalls
    BY BoundsAssumption
  <2>4. sent \in [Socket -> Seq(Request)] /\ replies \in [Socket -> Seq(Request)]
    BY DEF Init
  <2>5. QED
    BY <1>1, <2>1, <2>2, <2>3, <2>4 DEF Init, TypeOK
<1>4. OneConnection
  BY <1>2 DEF Init, OneConnection
<1>5. Quiet /\ OwnIds /\ OwnAnswer /\ NoneForgotten
  BY <1>1 DEF Init, Quiet, OwnIds, OwnAnswer, NoneForgotten
<1>6. InOrder
  BY <1>1, EmptyOrder DEF InOrder
<1>7. GivenInOrder
  BY <1>1 DEF GivenInOrder, CallOrder
<1>8. QED
  BY <1>3, <1>4, <1>5, <1>6, <1>7 DEF IInv

LEMMA ClosingIInv ==
  ASSUME IInv, NEW k \in Socket, Closing(k)
  PROVE  IInv'
<1> USE DEF IInv
<1>1. /\ readyState[k] = "open"
      /\ \A j \in Socket : readyState'[j] = IF j = k THEN "closing" ELSE readyState[j]
      /\ UNCHANGED <<current, connected, queue, messageId, cache, sent, replies,
                     made, given, settled, lost>>
  BY DEF Closing, TypeOK
<1>2. k = current
  BY <1>1 DEF OneConnection
<1>3. TypeOK'
  BY DEF Closing, TypeOK
<1>4. OneConnection'
  BY <1>1, <1>2 DEF OneConnection, TypeOK
<1>5. Quiet'
  BY <1>1 DEF Quiet
<1>6. InOrder' /\ OwnIds' /\ OwnAnswer' /\ NoneForgotten'
  BY <1>1 DEF InOrder, OwnIds, OwnAnswer, NoneForgotten
<1>7. GivenInOrder'
  BY <1>1 DEF GivenInOrder, CallOrder
<1>8. QED
  BY <1>3, <1>4, <1>5, <1>6, <1>7

LEMMA ClosedIInv ==
  ASSUME IInv, NEW k \in Socket, Closed(k)
  PROVE  IInv'
<1> USE DEF IInv
<1>1. /\ readyState[k] \in {"connecting", "open", "closing"}
      /\ \A j \in Socket : /\ readyState'[j] = IF j = k THEN "closed" ELSE readyState[j]
                           /\ sent'[j] = IF j = k THEN <<>> ELSE sent[j]
                           /\ replies'[j] = IF j = k THEN <<>> ELSE replies[j]
      /\ connected' = FALSE /\ lost' = lost \cup Calls(sent[k]) \cup Calls(replies[k])
      /\ UNCHANGED <<current, queue, messageId, cache, made, given, settled>>
  BY DEF Closed, TypeOK
<1>2. k = current
  BY <1>1 DEF OneConnection
<1>3. TypeOK'
  <2>1. Calls(sent[k]) \subseteq CallNo /\ Calls(replies[k]) \subseteq CallNo
    BY CallsType DEF TypeOK
  <2>2. <<>> \in Seq(Request)
    OBVIOUS
  <2>3. QED
    BY <2>1, <2>2 DEF Closed, TypeOK
<1>4. OneConnection'
  BY <1>1, <1>2 DEF OneConnection, TypeOK
<1>5. Quiet'
  BY <1>1 DEF Quiet
<1>6. InOrder'
  BY <1>1, EmptyOrder DEF InOrder
<1>7. GivenInOrder'
  BY <1>1 DEF GivenInOrder, CallOrder
<1>8. NoneForgotten'
  BY <1>1, <1>2 DEF NoneForgotten
<1>9. OwnIds' /\ OwnAnswer'
  BY <1>1 DEF OwnIds, OwnAnswer
<1>10. QED
  BY <1>3, <1>4, <1>5, <1>6, <1>7, <1>8, <1>9

LEMMA HandleIInv ==
  ASSUME IInv, NEW k \in Socket, Handle(k)
  PROVE  IInv'
<1> USE DEF IInv
<1> DEFINE r == Head(sent[k])
           s == Tail(sent[k])
           a == Append(replies[k], r)
<1>1. /\ sent[k] \in Seq(Request) /\ sent[k] # <<>> /\ replies[k] \in Seq(Request)
      /\ sent' = [sent EXCEPT ![k] = s] /\ replies' = [replies EXCEPT ![k] = a]
      /\ UNCHANGED <<readyState, current, connected, queue, messageId, cache,
                     made, given, settled, lost>>
  BY DEF Handle, TypeOK
<1>2. r \in Request /\ s \in Seq(Request) /\ a \in Seq(Request)
  BY <1>1, TailOrder, AppendOrder
<1>3. /\ Ascending(s) /\ Pending(s, made, cache) /\ Ascending(a) /\ Pending(a, made, cache)
      /\ Before(a, s) /\ Before(a, queue) /\ Before(s, queue)
  <2>1. /\ Ascending(sent[k]) /\ Pending(sent[k], made, cache)
        /\ Ascending(replies[k]) /\ Pending(replies[k], made, cache)
        /\ Before(replies[k], sent[k]) /\ Before(replies[k], queue) /\ Before(sent[k], queue)
        /\ queue \in Seq(Request)
    BY DEF InOrder, TypeOK
  <2>2. /\ Ascending(s) /\ \A i \in DOMAIN s : r.call < s[i].call
        /\ Before(replies[k], s) /\ \A i \in DOMAIN replies[k] : replies[k][i].call < r.call
        /\ Before(s, queue) /\ \A i \in DOMAIN queue : r.call < queue[i].call
        /\ Pending(s, made, cache) /\ r.call = r.id /\ r.call <= made /\ r \in cache
    BY <1>1, <2>1, TailOrder
  <2> HIDE DEF r, s, a
  <2>3. /\ Ascending(Append(replies[k], r)) /\ Pending(Append(replies[k], r), made, cache)
        /\ Before(Append(replies[k], r), s) /\ Before(Append(replies[k], r), queue)
    BY <1>1, <1>2, <2>1, <2>2, AppendOrder
  <2>4. QED
    BY <2>2, <2>3 DEF a
<1>4. Calls(sent[k]) \cup Calls(replies[k]) = Calls(s) \cup Calls(a)
  <2>1. Calls(sent[k]) = {r.call} \cup Calls(s)
    BY <1>1, TailOrder
  <2>2. Calls(a) = Calls(replies[k]) \cup {r.call}
    BY <1>1, <1>2, AppendOrder
  <2>3. QED
    BY <2>1, <2>2
<1> HIDE DEF r, s, a
<1>5. TypeOK'
  BY <1>1, <1>2 DEF TypeOK
<1>6. \A j \in Socket : /\ sent'[j] = IF j = k THEN s ELSE sent[j]
                        /\ replies'[j] = IF j = k THEN a ELSE replies[j]
  BY <1>1 DEF TypeOK
<1>7. OneConnection'
  BY <1>1 DEF OneConnection
<1>8. Quiet'
  BY <1>1, <1>6 DEF Quiet
<1>9. InOrder'
  BY <1>1, <1>3, <1>6 DEF InOrder
<1>10. GivenInOrder'
  BY <1>1 DEF GivenInOrder, CallOrder
<1>11. NoneForgotten'
  BY <1>1, <1>4, <1>6 DEF NoneForgotten, TypeOK
<1>12. OwnIds' /\ OwnAnswer'
  BY <1>1 DEF OwnIds, OwnAnswer
<1>13. QED
  BY <1>5, <1>7, <1>8, <1>9, <1>10, <1>11, <1>12

\* The promise a response finds is its own request's, and nothing else that is
\* under way has the id.
LEMMA SettleIInv ==
  ASSUME IInv, NEW k \in Socket, Settle(k)
  PROVE  IInv'
<1> USE DEF IInv
<1> DEFINE r == Head(replies[k])
           s == Tail(replies[k])
           hit == {x \in cache : x.id = r.id}
           left == cache \ hit
<1>1. /\ readyState[k] = "open" /\ replies[k] \in Seq(Request) /\ replies[k] # <<>>
      /\ settled' = settled \cup {[call |-> x.call, by |-> r.call] : x \in hit}
      /\ cache' = left
      /\ replies' = [replies EXCEPT ![k] = s]
      /\ UNCHANGED <<readyState, current, connected, queue, messageId, sent,
                     made, given, lost>>
  BY DEF Settle, TypeOK
<1>2. /\ r \in Request /\ s \in Seq(Request) /\ Calls(replies[k]) = {r.call} \cup Calls(s)
      /\ sent[k] \in Seq(Request) /\ queue \in Seq(Request)
  BY <1>1, TailOrder DEF TypeOK
<1>3. /\ Ascending(s) /\ \A i \in DOMAIN s : r.call < s[i].call
      /\ Pending(s, made, cache) /\ r.call = r.id /\ r \in cache
      /\ Before(s, sent[k]) /\ \A i \in DOMAIN sent[k] : r.call < sent[k][i].call
      /\ Before(s, queue) /\ \A i \in DOMAIN queue : r.call < queue[i].call
  <2>1. /\ Ascending(replies[k]) /\ Pending(replies[k], made, cache)
        /\ Before(replies[k], sent[k]) /\ Before(replies[k], queue)
    BY DEF InOrder
  <2>2. QED
    BY <1>1, <1>2, <2>1, TailOrder
<1>4. ASSUME NEW t \in Seq(Request), Pending(t, made, cache),
             \A i \in DOMAIN t : r.call < t[i].call
      PROVE  Pending(t, made, left)
  <2>1. ASSUME NEW i \in DOMAIN t
        PROVE  t[i] \in left
    <3>1. t[i].call = t[i].id /\ t[i] \in cache /\ t[i] \in Request /\ r.call < t[i].call
      BY <1>4 DEF Pending
    <3>2. t[i].id # r.id
      BY <1>2, <1>3, <3>1 DEF Request, CallNo
    <3>3. QED
      BY <3>1, <3>2
  <2>2. QED
    BY <1>4, <2>1 DEF Pending
<1>5. /\ Pending(s, made, left) /\ Pending(sent[k], made, left)
      /\ Pending(queue, made, left)
  <2>1. Pending(sent[k], made, cache) /\ Pending(queue, made, cache)
    BY DEF InOrder
  <2> HIDE DEF r, s, left
  <2>2. QED
    BY <1>2, <1>3, <1>4, <2>1
<1>6. \A x \in hit : x.call = r.call
  BY <1>3 DEF OwnIds
<1>7. r \in hit
  BY <1>3
<1>8. hit \subseteq Request
  BY DEF TypeOK
<1>9. /\ \A y \in settled' : y \in settled \/ (y.call = r.call /\ y.by = r.call)
      /\ settled \subseteq settled'
      /\ [call |-> r.call, by |-> r.call] \in settled'
  BY <1>1, <1>6, <1>7
<1>10. settled' \subseteq [call : CallNo, by : CallNo]
  BY <1>1, <1>2, <1>8 DEF TypeOK, Request
<1>11. left \subseteq cache
  OBVIOUS
<1> HIDE DEF r, s, hit, left
<1>12. TypeOK'
  BY <1>1, <1>2, <1>10, <1>11 DEF TypeOK
<1>13. \A j \in Socket : replies'[j] = IF j = k THEN s ELSE replies[j]
  BY <1>1 DEF TypeOK
<1>14. k = current /\ \A j \in Socket : j # k => sent[j] = <<>> /\ replies[j] = <<>>
  <2>1. k = current /\ \A j \in Socket : j # k => readyState[j] \in {"none", "closed"}
    BY <1>1 DEF OneConnection
  <2>2. QED
    BY <2>1 DEF Quiet
<1>15. OneConnection' /\ OwnIds' /\ OwnAnswer'
  BY <1>1, <1>9, <1>11 DEF OneConnection, OwnIds, OwnAnswer
<1>16. Quiet'
  BY <1>1, <1>13 DEF Quiet
<1>17. InOrder'
  BY <1>1, <1>3, <1>5, <1>13, <1>14, EmptyOrder DEF InOrder
<1>18. GivenInOrder'
  BY <1>1 DEF GivenInOrder, CallOrder
<1>19. NoneForgotten'
  <2>1. \A n : n \in {x.call : x \in settled} \/ n = r.call => n \in {x.call : x \in settled'}
    BY <1>9
  <2>2. QED
    BY <1>1, <1>2, <1>13, <1>14, <2>1 DEF NoneForgotten
<1>20. QED
  BY <1>12, <1>15, <1>16, <1>17, <1>18, <1>19

LEMMA OpenedIInv ==
  ASSUME IInv, NEW k \in Socket, Opened(k)
  PROVE  IInv'
<1> USE DEF IInv
<1> DEFINE calls == [i \in DOMAIN queue |-> queue[i].call]
<1>1. /\ readyState[k] = "connecting"
      /\ readyState' = [readyState EXCEPT ![k] = "open"] /\ connected' = TRUE
      /\ sent' = [sent EXCEPT ![current] = @ \o queue]
      /\ given' = given \o calls /\ queue' = <<>>
      /\ UNCHANGED <<current, messageId, cache, replies, made, settled, lost>>
  BY DEF Opened, Shifted
<1>2. k = current
  BY <1>1 DEF OneConnection
<1>3. sent[k] = <<>> /\ replies[k] = <<>>
  BY <1>1 DEF Quiet
<1>4. sent[k] \o queue = queue
  BY <1>3, ConcatEmptySeq DEF TypeOK
<1>5. \A j \in Socket : sent'[j] = IF j = k THEN queue ELSE sent[j]
  BY <1>1, <1>2, <1>4 DEF TypeOK
<1>6. calls \in Seq(CallNo) /\ Len(calls) = Len(queue) /\ DOMAIN calls = DOMAIN queue
      /\ \A i \in DOMAIN queue : calls[i] = queue[i].call
  <2>1. \A i \in DOMAIN queue : queue[i].call \in CallNo
    <3>1. \A i \in DOMAIN queue : queue[i] \in Request
      BY DEF TypeOK
    <3>2. QED
      BY <3>1 DEF Request
  <2>2. DOMAIN queue = 1 .. Len(queue) /\ Len(queue) \in Nat
    BY DEF TypeOK
  <2>3. QED
    BY <2>1, <2>2
<1> HIDE DEF calls
<1>7. TypeOK'
  <2>1. sent' \in [Socket -> Seq(Request)]
    BY <1>1, <1>2, <1>4 DEF TypeOK
  <2>2. given' \in Seq(CallNo)
    BY <1>1, <1>6, ConcatProperties DEF TypeOK
  <2>3. <<>> \in Seq(Request)
    OBVIOUS
  <2>4. QED
    BY <1>1, <2>1, <2>2, <2>3 DEF TypeOK
<1>8. OneConnection'
  BY <1>1, <1>2 DEF OneConnection, TypeOK
<1>9. Quiet'
  BY <1>1, <1>2, <1>5 DEF Quiet, TypeOK
<1>10. InOrder'
  BY <1>1, <1>3, <1>5, EmptyOrder DEF InOrder
<1>11. GivenInOrder'
  <2>1. /\ given \in Seq(CallNo) /\ Len(given) \in Nat /\ DOMAIN given = 1 .. Len(given)
        /\ Len(queue) \in Nat /\ DOMAIN queue = 1 .. Len(queue)
    BY DEF TypeOK
  <2>2. /\ DOMAIN given' = 1 .. Len(given) + Len(queue)
        /\ \A i \in 1 .. Len(given) + Len(queue) :
             given'[i] = IF i <= Len(given) THEN given[i] ELSE calls[i - Len(given)]
    <3> DEFINE c == given \o calls
    <3>1. /\ c \in Seq(CallNo) /\ Len(c) = Len(given) + Len(calls)
          /\ \A i \in 1 .. Len(given) + Len(calls) :
               c[i] = IF i <= Len(given) THEN given[i] ELSE calls[i - Len(given)]
      <4>1. calls \in Seq(CallNo)
        BY <1>6
      <4>2. QED
        BY <2>1, <4>1, ConcatProperties
    <3> HIDE DEF c
    <3>2. DOMAIN c = 1 .. Len(c)
      BY <3>1
    <3>3. QED
      BY <1>1, <1>6, <3>1, <3>2 DEF c
  <2>3. \A i \in 1 .. Len(given) + Len(queue) :
          IF i <= Len(given) THEN i \in DOMAIN given ELSE i - Len(given) \in DOMAIN queue
    BY <2>1
  <2>4. /\ \A i, j \in DOMAIN given : i < j => given[i] < given[j]
        /\ \A i, j \in DOMAIN queue : i < j => calls[i] < calls[j]
        /\ \A i \in DOMAIN given, j \in DOMAIN queue : given[i] < calls[j]
        /\ \A i \in DOMAIN given : given[i] <= made
        /\ \A i \in DOMAIN queue : calls[i] <= made
    BY <1>6 DEF GivenInOrder, CallOrder, InOrder, Ascending, Pending
  <2>5. ASSUME NEW i \in DOMAIN given', NEW j \in DOMAIN given', i < j
        PROVE  given'[i] < given'[j]
    <3> DEFINE n == Len(given)
    <3>1. i \in 1 .. n + Len(queue) /\ j \in 1 .. n + Len(queue) /\ n \in Nat
      BY <2>1, <2>2
    <3>2. CASE j <= n
      <4>1. i <= n
        BY <2>5, <3>1, <3>2
      <4>2. QED
        BY <2>2, <2>3, <2>4, <2>5, <3>1, <3>2, <4>1
    <3>3. CASE i <= n /\ ~ (j <= n)
      BY <2>2, <2>3, <2>4, <3>1, <3>3
    <3>4. CASE ~ (i <= n)
      <4>1. ~ (j <= n) /\ i - n < j - n
        BY <2>1, <2>5, <3>1, <3>4
      <4>2. QED
        BY <2>2, <2>3, <2>4, <3>1, <3>4, <4>1
    <3>5. QED
      BY <3>2, <3>3, <3>4
  <2>6. \A i \in DOMAIN given' : given'[i] <= made'
    BY <1>1, <2>2, <2>3, <2>4
  <2>7. QED
    BY <1>1, <2>5, <2>6 DEF GivenInOrder, CallOrder
<1>12. NoneForgotten'
  BY <1>1, <1>2, <1>3, <1>5, EmptyOrder DEF NoneForgotten
<1>13. OwnIds' /\ OwnAnswer'
  BY <1>1 DEF OwnIds, OwnAnswer
<1>14. QED
  BY <1>7, <1>8, <1>9, <1>10, <1>11, <1>12, <1>13

\* A call gets a number and an id later than all the others, and changes nothing
\* about those that wait.
LEMMA RpcNewRequest ==
  ASSUME IInv, Rpc
  PROVE  LET r == [call |-> made + 1, id |-> made + 1]
         IN  /\ made' = made + 1 /\ messageId' = made + 1 /\ made \in Nat /\ made < MaxCalls
             /\ r \in Request /\ r \in cache'
             /\ cache' \subseteq Request /\ \A x \in cache' : x.call = x.id
             /\ \A t \in Seq(Request) : Pending(t, made, cache) =>
                  Pending(t, made + 1, cache') /\ \A i \in DOMAIN t : t[i].call < r.call
             /\ \/ /\ connected /\ Transmit(r) /\ UNCHANGED <<queue, current, readyState>>
                \/ /\ ~ connected /\ queue' = Append(queue, r) /\ Connect
                   /\ UNCHANGED <<sent, given, lost>>
<1> USE DEF IInv
<1> DEFINE r == [call |-> made + 1, id |-> made + 1]
<1>1. made \in Nat /\ made < MaxCalls /\ messageId = made /\ MaxCalls \in Nat
  BY BoundsAssumption DEF Rpc, TypeOK, OwnIds
<1>2. made' = made + 1 /\ messageId' = made + 1
  BY <1>1 DEF Rpc, NextId
<1>3. r = [call |-> made', id |-> messageId']
  BY <1>2
<1>4. cache' = {x \in cache : x.id # made + 1} \cup {r}
  BY <1>2 DEF Rpc
<1>5. \/ /\ connected /\ Transmit(r) /\ UNCHANGED <<queue, current, readyState>>
      \/ /\ ~ connected /\ queue' = Append(queue, r) /\ Connect
         /\ UNCHANGED <<sent, given, lost>>
  BY <1>3 DEF Rpc
<1>6. r \in Request /\ r.call = made + 1 /\ r.id = made + 1
  BY <1>1 DEF Request, CallNo
<1> HIDE DEF r
<1>7. cache' \subseteq Request /\ \A x \in cache' : x.call = x.id
  BY <1>4, <1>6 DEF TypeOK, OwnIds
<1>8. ASSUME NEW t \in Seq(Request), Pending(t, made, cache)
      PROVE  Pending(t, made + 1, cache') /\ \A i \in DOMAIN t : t[i].call < r.call
  <2>1. ASSUME NEW i \in DOMAIN t
        PROVE  /\ t[i].call = t[i].id /\ t[i].call <= made + 1 /\ t[i].call < r.call
               /\ t[i] \in cache'
    <3>1. t[i].call = t[i].id /\ t[i].call <= made /\ t[i] \in cache /\ t[i] \in Request
      BY <1>8 DEF Pending
    <3>2. t[i].call \in Nat
      BY <3>1 DEF Request, CallNo
    <3>3. QED
      BY <1>1, <1>4, <1>6, <3>1, <3>2
  <2>2. QED
    BY <2>1 DEF Pending
<1>9. QED
  BY <1>1, <1>2, <1>4, <1>5, <1>6, <1>7, <1>8 DEF r

LEMMA RpcConnectedIInv ==
  ASSUME IInv, Rpc, connected
  PROVE  IInv'
<1> USE DEF IInv
<1> DEFINE r == [call |-> made + 1, id |-> made + 1]
           k == current
           open == readyState[k] = "open"
           a == Append(sent[k], r)
<1>1. /\ made' = made + 1 /\ messageId' = made + 1 /\ made \in Nat /\ made < MaxCalls
      /\ r \in Request /\ r \in cache' /\ r.call = made + 1 /\ r.id = made + 1
      /\ cache' \subseteq Request /\ \A x \in cache' : x.call = x.id
      /\ \A t \in Seq(Request) : Pending(t, made, cache) =>
           Pending(t, made + 1, cache') /\ \A i \in DOMAIN t : t[i].call < r.call
      /\ Transmit(r) /\ UNCHANGED <<queue, current, readyState>>
  BY RpcNewRequest
<1>2. UNCHANGED <<connected, replies, settled>>
  BY DEF Rpc
<1>3. k \in Socket /\ sent[k] \in Seq(Request) /\ queue = <<>>
  BY DEF TypeOK, OneConnection
<1>4. /\ given' = Append(given, r.call)
      /\ sent' = IF open THEN [sent EXCEPT ![k] = a] ELSE sent
      /\ lost' = IF open THEN lost ELSE lost \cup {r.call}
  BY <1>1 DEF Transmit
<1>5. /\ Pending(sent[k], made, cache) /\ Ascending(sent[k])
      /\ replies[k] \in Seq(Request) /\ Pending(replies[k], made, cache)
      /\ Before(replies[k], sent[k])
  BY <1>3 DEF InOrder, TypeOK
<1> HIDE DEF r
<1>6. /\ a \in Seq(Request) /\ Calls(a) = Calls(sent[k]) \cup {r.call}
      /\ Ascending(a) /\ Pending(a, made + 1, cache') /\ Before(replies[k], a)
  <2>1. /\ \A i \in DOMAIN sent[k] : sent[k][i].call < r.call
        /\ \A i \in DOMAIN replies[k] : replies[k][i].call < r.call
        /\ Pending(sent[k], made + 1, cache')
    BY <1>1, <1>3, <1>5
  <2>2. r.call <= made + 1
    BY <1>1
  <2>3. QED
    BY <1>1, <1>3, <1>5, <2>1, <2>2, AppendOrder
<1> HIDE DEF a
<1>7. made + 1 \in CallNo
  BY <1>1, BoundsAssumption DEF CallNo
<1>8. TypeOK'
  <2>1. sent' \in [Socket -> Seq(Request)]
    BY <1>3, <1>4, <1>6 DEF TypeOK
  <2>2. given' \in Seq(CallNo)
    BY <1>1, <1>4, <1>7, AppendProperties DEF TypeOK
  <2>3. made' \in 0 .. MaxCalls /\ messageId' \in 0 .. MaxCalls
    BY <1>1, BoundsAssumption
  <2>4. lost' \subseteq CallNo
    BY <1>1, <1>4, <1>7 DEF TypeOK
  <2>5. QED
    BY <1>1, <1>2, <2>1, <2>2, <2>3, <2>4 DEF TypeOK
<1>9. \A j \in Socket : sent'[j] = IF open /\ j = k THEN a ELSE sent[j]
  BY <1>4 DEF TypeOK
<1>10. OneConnection' /\ OwnIds' /\ OwnAnswer'
  BY <1>1, <1>2 DEF OneConnection, OwnIds, OwnAnswer
<1>11. Quiet'
  BY <1>1, <1>2, <1>9 DEF Quiet
<1>12. InOrder'
  <2>1. \A j \in Socket : /\ sent[j] \in Seq(Request) /\ replies[j] \in Seq(Request)
                          /\ Pending(sent[j], made, cache) /\ Pending(replies[j], made, cache)
    BY DEF TypeOK, InOrder
  <2>2. \A j \in Socket : /\ Pending(sent[j], made + 1, cache')
                          /\ Pending(replies[j], made + 1, cache')
    BY <1>1, <2>1
  <2>3. \A j \in Socket : /\ Pending(sent'[j], made', cache')
                          /\ Pending(replies'[j], made', cache')
                          /\ Ascending(sent'[j]) /\ Ascending(replies'[j])
                          /\ Before(replies'[j], sent'[j])
    BY <1>1, <1>2, <1>6, <1>9, <2>2 DEF InOrder
  <2>4. QED
    BY <1>1, <1>3, <2>3, EmptyOrder DEF InOrder
<1>13. GivenInOrder'
  <2>1. /\ given \in Seq(CallNo) /\ Len(given) \in Nat /\ DOMAIN given = 1 .. Len(given)
    BY DEF TypeOK
  <2>2. \A i \in 1 .. Len(given) : given[i] \in Nat /\ given[i] < made + 1
    <3>1. \A i \in 1 .. Len(given) : given[i] \in CallNo /\ given[i] <= made
      BY <2>1 DEF GivenInOrder
    <3>2. \A n \in CallNo : n \in Nat /\ (n <= made => n < made + 1)
      BY <1>1 DEF CallNo
    <3>3. QED
      BY <3>1, <3>2
  <2>3. /\ DOMAIN given' = 1 .. Len(given) + 1
        /\ given'[Len(given) + 1] = made + 1
        /\ \A i \in 1 .. Len(given) : given'[i] = given[i]
    BY <1>1, <1>4, <1>7, <2>1, AppendProperties
  <2>4. CallOrder'
    BY <2>1, <2>2, <2>3 DEF CallOrder, GivenInOrder
  <2>5. \A i \in DOMAIN given' : given'[i] <= made'
    BY <1>1, <2>1, <2>2, <2>3
  <2>6. QED
    BY <1>1, <1>3, <2>4, <2>5 DEF GivenInOrder
<1>14. NoneForgotten'
  <2>1. \A n \in 1 .. made' : n \in 1 .. made \/ n = r.call
    BY <1>1
  <2>2. Calls(sent'[k]) = IF open THEN Calls(sent[k]) \cup {r.call} ELSE Calls(sent[k])
    BY <1>3, <1>6, <1>9
  <2>3. QED
    BY <1>1, <1>2, <1>4, <2>1, <2>2 DEF NoneForgotten
<1>15. QED
  BY <1>8, <1>10, <1>11, <1>12, <1>13, <1>14

LEMMA RpcWaitsIInv ==
  ASSUME IInv, Rpc, ~ connected
  PROVE  IInv'
<1> USE DEF IInv
<1> DEFINE r == [call |-> made + 1, id |-> made + 1]
           a == Append(queue, r)
<1>1. /\ made' = made + 1 /\ messageId' = made + 1 /\ made \in Nat /\ made < MaxCalls
      /\ r \in Request /\ r \in cache' /\ r.call = made + 1 /\ r.id = made + 1
      /\ cache' \subseteq Request /\ \A x \in cache' : x.call = x.id
      /\ \A t \in Seq(Request) : Pending(t, made, cache) =>
           Pending(t, made + 1, cache') /\ \A i \in DOMAIN t : t[i].call < r.call
      /\ queue' = a /\ Connect /\ UNCHANGED <<sent, given, lost>>
  BY RpcNewRequest
<1>2. UNCHANGED <<connected, replies, settled>>
  BY DEF Rpc
<1>3. /\ readyState[current] \in {"none", "connecting", "closed"}
      /\ \A j \in Socket \ {current} : readyState[j] \in {"none", "closed"}
      /\ current \in Socket /\ readyState \in [Socket -> {"none", "connecting", "open", "closing", "closed"}]
  BY DEF OneConnection, TypeOK
<1>4. \A j \in Socket : sent[j] = <<>> /\ replies[j] = <<>>
  BY <1>3 DEF Quiet
<1>5. /\ current' \in Socket
      /\ readyState' \in [Socket -> {"none", "connecting", "open", "closing", "closed"}]
      /\ readyState'[current'] \in {"none", "connecting", "closed"}
      /\ \A j \in Socket \ {current'} : readyState'[j] \in {"none", "closed"}
  <2>1. CASE readyState[current] = "connecting"
    BY <1>1, <1>3, <2>1 DEF Connect
  <2>2. CASE readyState[current] # "connecting"
    <3>1. /\ current < MaxSockets /\ current' = current + 1
          /\ readyState' = [readyState EXCEPT ![current'] = "connecting",
                                ![current] = IF @ = "open" THEN "closing" ELSE @]
      BY <1>1, <2>2 DEF Connect
    <3>2. current' \in Socket /\ current' # current
      BY <1>3, <3>1, BoundsAssumption DEF Socket
    <3>3. \A j \in Socket : readyState'[j] = IF j = current' THEN "connecting" ELSE readyState[j]
      BY <1>3, <3>1, <3>2
    <3>4. readyState' \in [Socket -> {"none", "connecting", "open", "closing", "closed"}]
      BY <1>3, <3>1
    <3>5. QED
      BY <1>3, <2>2, <3>2, <3>3, <3>4
  <2>3. QED
    BY <2>1, <2>2
<1>6. queue \in Seq(Request) /\ Ascending(queue) /\ Pending(queue, made, cache)
  BY DEF TypeOK, InOrder
<1> HIDE DEF r
<1>7. /\ a \in Seq(Request) /\ Calls(a) = Calls(queue) \cup {r.call}
      /\ Ascending(a) /\ Pending(a, made + 1, cache')
  <2>1. Pending(queue, made + 1, cache') /\ \A i \in DOMAIN queue : queue[i].call < r.call
    BY <1>1, <1>6
  <2>2. r.call <= made + 1
    BY <1>1
  <2>3. QED
    BY <1>1, <1>6, <2>1, <2>2, AppendOrder
<1>8. TypeOK'
  <2>1. made' \in 0 .. MaxCalls /\ messageId' \in 0 .. MaxCalls
    BY <1>1, BoundsAssumption
  <2>2. QED
    BY <1>1, <1>2, <1>5, <1>7, <2>1 DEF TypeOK
<1>9. OneConnection' /\ OwnIds' /\ OwnAnswer'
  BY <1>1, <1>2, <1>5 DEF OneConnection, OwnIds, OwnAnswer
<1>10. Quiet' /\ InOrder'
  BY <1>1, <1>2, <1>4, <1>7, EmptyOrder DEF Quiet, InOrder
<1>11. GivenInOrder'
  <2>1. /\ given \in Seq(CallNo) /\ Len(queue) \in Nat /\ DOMAIN queue = 1 .. Len(queue)
        /\ \A i \in DOMAIN given : given[i] \in CallNo /\ given[i] <= made
    BY DEF TypeOK, GivenInOrder
  <2>2. \A n \in CallNo : n <= made => n < made + 1 /\ n <= made + 1
    BY <1>1 DEF CallNo
  <2>3. /\ DOMAIN a = 1 .. Len(queue) + 1 /\ a[Len(queue) + 1] = r
        /\ \A i \in 1 .. Len(queue) : a[i] = queue[i]
    BY <1>1, <1>6, <2>1, AppendProperties
  <2>4. \A i \in 1 .. Len(queue) + 1 : i \in 1 .. Len(queue) \/ i = Len(queue) + 1
    BY <2>1
  <2> HIDE DEF a
  <2>5. \A i \in DOMAIN given, j \in DOMAIN a : given[i] < a[j].call
    BY <1>1, <2>1, <2>2, <2>3, <2>4 DEF GivenInOrder
  <2>6. QED
    BY <1>1, <2>1, <2>2, <2>5 DEF GivenInOrder, CallOrder
<1>12. NoneForgotten'
  <2>1. \A n \in 1 .. made' : n \in 1 .. made \/ n = r.call
    BY <1>1
  <2>2. \A n \in 1 .. made : n \in lost \cup {x.call : x \in settled} \cup Calls(queue)
    BY <1>3, <1>4, EmptyOrder DEF NoneForgotten
  <2>3. QED
    BY <1>1, <1>2, <1>7, <2>1, <2>2 DEF NoneForgotten
<1>13. QED
  BY <1>8, <1>9, <1>10, <1>11, <1>12

LEMMA NextIInv == IInv /\ [Next]_vars => IInv'
<1> SUFFICES ASSUME IInv, [Next]_vars
             PROVE  IInv'
  OBVIOUS
<1>1. CASE Rpc
  BY <1>1, RpcConnectedIInv, RpcWaitsIInv
<1>2. CASE UNCHANGED vars
  BY <1>2 DEF vars, IInv, TypeOK, OneConnection, Quiet, InOrder, GivenInOrder, CallOrder,
              OwnIds, OwnAnswer, NoneForgotten
<1>3. QED
  BY <1>1, <1>2, OpenedIInv, ClosingIInv, ClosedIInv, HandleIInv, SettleIInv DEF Next

\* The inductive invariant: the calls that wait are one sequence in the order
\* they were made, each under its own id and with its promise in the cache.
THEOREM IInvHolds == Spec => []IInv
BY InitIInv, NextIInv, PTL DEF Spec

-----------------------------------------------------------------------------
\* What follows

\* Every reachable state is well typed; the message id stays within the calls.
THEOREM TypeCorrect == Spec => []TypeOK
<1>1. IInv => TypeOK
  BY DEF IInv
<1>2. QED
  BY <1>1, IInvHolds, PTL

\* The client is on one socket, knows whether it is open, and leaves nothing in
\* the queue while it is.
THEOREM OneConnectionHolds == Spec => []OneConnection
<1>1. IInv => OneConnection
  BY DEF IInv
<1>2. QED
  BY <1>1, IInvHolds, PTL

\* No call overtakes another on the way to the socket, over any number of
\* connections, and none is given to a socket twice.
THEOREM CallOrderHolds == Spec => []CallOrder
<1>1. IInv => CallOrder
  BY DEF IInv, GivenInOrder
<1>2. QED
  BY <1>1, IInvHolds, PTL

\* onmessage settles a promise with the response to its own request only.
THEOREM OwnAnswerHolds == Spec => []OwnAnswer
<1>1. IInv => OwnAnswer
  BY DEF IInv
<1>2. QED
  BY <1>1, IInvHolds, PTL

\* A call that was made is settled, lost with its connection, queued, or on its
\* way on the client's socket: none disappears between two connections.
THEOREM NoneForgottenHolds == Spec => []NoneForgotten
<1>1. IInv => NoneForgotten
  BY DEF IInv
<1>2. QED
  BY <1>1, IInvHolds, PTL

-----------------------------------------------------------------------------
\* A promise is settled once

\* What is settled is of a call made, and its promise is out of the cache: no
\* response, on whichever socket, finds it again.
SettledOnce ==
  /\ \A y \in cache : y.call <= made
  /\ \A x \in settled : x.call <= made /\ \A y \in cache : y.call # x.call

LEMMA SettledOnceStep ==
  ASSUME IInv, SettledOnce, [Next]_vars
  PROVE  SettledOnce'
<1>1. CASE Rpc
  <2> DEFINE r == [call |-> made + 1, id |-> made + 1]
  <2>1. /\ made' = made + 1 /\ made \in Nat
        /\ cache' = {x \in cache : x.id # r.id} \cup {r} /\ UNCHANGED settled
    <3>1. messageId = made /\ made \in Nat
      BY DEF IInv, TypeOK, OwnIds
    <3>2. QED
      BY <1>1, <3>1 DEF Rpc, NextId
  <2>2. \A y \in cache \cup settled : y.call \in Nat
    BY DEF IInv, TypeOK, Request, CallNo
  <2>3. r.call = made + 1
    OBVIOUS
  <2> HIDE DEF r
  <2>4. QED
    BY <2>1, <2>2, <2>3 DEF SettledOnce
<1>2. ASSUME NEW k \in Socket, Settle(k)
      PROVE  SettledOnce'
  <2> DEFINE r == Head(replies[k])
             hit == {x \in cache : x.id = r.id}
  <2>1. /\ settled' = settled \cup {[call |-> x.call, by |-> r.call] : x \in hit}
        /\ cache' = cache \ hit /\ UNCHANGED made
    BY <1>2 DEF Settle
  <2>2. \A y \in cache : y.call = y.id
    BY DEF IInv, OwnIds
  <2>3. \A x \in hit, y \in cache' : x.call # y.call
    BY <2>1, <2>2
  <2>4. \A z \in settled' : z \in settled \/ \E x \in hit : z.call = x.call
    BY <2>1
  <2>5. hit \subseteq cache
    OBVIOUS
  <2> HIDE DEF r, hit
  <2>6. QED
    BY <2>1, <2>3, <2>4, <2>5 DEF SettledOnce
<1>3. ASSUME NEW k \in Socket, Opened(k) \/ Closing(k) \/ Closed(k) \/ Handle(k)
      PROVE  SettledOnce'
  BY <1>3 DEF Opened, Closing, Closed, Handle, SettledOnce
<1>4. CASE UNCHANGED vars
  BY <1>4 DEF vars, SettledOnce
<1>5. QED
  BY <1>1, <1>2, <1>3, <1>4 DEF Next

\* The response to a call finds its promise in the cache once; after that no
\* promise of the call is left to be settled again.
THEOREM SettledOnceHolds == Spec => []SettledOnce
<1>1. Init => SettledOnce
  BY DEF Init, SettledOnce
<1>2. QED
  BY <1>1, SettledOnceStep, IInvHolds, PTL DEF Spec

=============================================================================
