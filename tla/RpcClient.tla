------------------------------ MODULE RpcClient ------------------------------
(***************************************************************************)
(* WebSocketClient of packages/client (clients/websocket.ts): JSON-RPC     *)
(* calls over a socket that is opened again, by the next call, when it was *)
(* lost.  The dapp makes one client and connects it once when it is loaded *)
(* (websocket-provider.tsx).                                               *)
(*                                                                         *)
(* A call is its number; a request is a call with the id it got.  The      *)
(* server answers the requests of a socket in their order.                 *)
(***************************************************************************)
EXTENDS Naturals, FiniteSets, Sequences, SequencesExt

CONSTANTS MaxCalls,   \* bound: calls made
          MaxSockets  \* bound: sockets opened

ASSUME BoundsAssumption == MaxCalls \in Nat /\ MaxSockets \in Nat \ {0}

VARIABLES readyState,  \* [socket -> its readyState; "none" before it exists]
          current,     \* the socket the client holds
          connected, queue, messageId,
          cache,       \* messageRequests: [call, id] of the calls that wait
          sent,        \* [socket -> requests on their way to the server]
          replies,     \* [socket -> requests whose response is on its way]
          made,        \* calls made so far
          given,       \* the calls given to a socket, in this order
          settled,     \* [call, by]: the call got the response to "by"
          lost         \* calls that were sent on a socket that is gone

vars == <<readyState, current, connected, queue, messageId, cache,
          sent, replies, made, given, settled, lost>>

Socket == 1 .. MaxSockets
CallNo == 1 .. MaxCalls
Request == [call : CallNo, id : CallNo]

Calls(requests) == {r.call : r \in ToSet(requests)}

-----------------------------------------------------------------------------

\* The client right after connect() of websocket-provider.tsx
Init == /\ readyState = [k \in Socket |-> IF k = 1 THEN "connecting" ELSE "none"]
        /\ current = 1
        /\ connected = FALSE /\ queue = <<>> /\ messageId = 0 /\ cache = {}
        /\ sent = [k \in Socket |-> <<>>] /\ replies = [k \in Socket |-> <<>>]
        /\ made = 0 /\ given = <<>> /\ settled = {} /\ lost = {}

\* Faulty variant: a socket that is being opened is not waited for
ConnectAnyway ==
    /\ current < MaxSockets
    /\ current' = current + 1
    /\ readyState' = [readyState EXCEPT ![current'] = "connecting"]

\* connect() by notify, which has no connection: unless the socket is still
\* being opened, a new one takes its place; an open one would be closed first.
Connect ==
    IF readyState[current] = "connecting"
    THEN UNCHANGED <<current, readyState>>
    ELSE /\ current < MaxSockets
         /\ current' = current + 1
         /\ readyState' = [readyState EXCEPT ![current'] = "connecting",
                               ![current] = IF @ = "open" THEN "closing" ELSE @]

\* send() of a socket that is closing drops the data, without an error.
Transmit(r) ==
    /\ given' = Append(given, r.call)
    /\ IF readyState[current] = "open"
       THEN sent' = [sent EXCEPT ![current] = Append(@, r)] /\ UNCHANGED lost
       ELSE lost' = lost \cup {r.call} /\ UNCHANGED sent

\* Faulty variant: the ids are those of one connection
NextIdOfSocket == Len(sent[current]) + Len(replies[current]) + Len(queue) + 1

\* Faulty variant: counted by rpc() and by notify()
NextIdTwice == messageId + 2

NextId == messageId + 1

\* rpc() and notify()
Rpc ==
    /\ made < MaxCalls
    /\ made' = made + 1
    /\ messageId' = NextId
    /\ LET r == [call |-> made', id |-> messageId'] IN
       /\ cache' = {x \in cache : x.id # r.id} \cup {r}
       /\ IF connected
          THEN Transmit(r) /\ UNCHANGED <<queue, current, readyState>>
          ELSE queue' = Append(queue, r) /\ Connect /\ UNCHANGED <<sent, given, lost>>
    /\ UNCHANGED <<connected, replies, settled>>

\* Faulty variant: pop() for shift()
Popped == Reverse(queue)

\* Faulty variant: if for while
ShiftedOnce == SubSeq(queue, 1, IF queue = <<>> THEN 0 ELSE 1)

\* The requests that onopen takes from the queue
Shifted == queue

\* onopen: the requests that waited are sent, by the client's socket
Opened(k) ==
    /\ readyState[k] = "connecting"
    /\ readyState' = [readyState EXCEPT ![k] = "open"]
    /\ connected' = TRUE
    /\ sent' = [sent EXCEPT ![current] = @ \o Shifted]
    /\ given' = given \o [i \in DOMAIN Shifted |-> Shifted[i].call]
    /\ queue' = <<>>
    /\ UNCHANGED <<current, messageId, cache, replies, made, settled, lost>>

\* The other end begins to close the connection: no message event follows.
Closing(k) ==
    /\ readyState[k] = "open"
    /\ readyState' = [readyState EXCEPT ![k] = "closing"]
    /\ UNCHANGED <<current, connected, queue, messageId, cache, sent, replies,
                   made, given, settled, lost>>

\* onclose, of a socket that was closing, was cut off, or was never opened:
\* it tells the client, whichever socket it is now.
Closed(k) ==
    /\ readyState[k] \in {"connecting", "open", "closing"}
    /\ readyState' = [readyState EXCEPT ![k] = "closed"]
    /\ connected' = FALSE
    /\ lost' = lost \cup Calls(sent[k]) \cup Calls(replies[k])
    /\ sent' = [sent EXCEPT ![k] = <<>>]
    /\ replies' = [replies EXCEPT ![k] = <<>>]
    /\ UNCHANGED <<current, queue, messageId, cache, made, given, settled>>

\* The server handles the next request and answers it
Handle(k) ==
    /\ sent[k] # <<>>
    /\ replies' = [replies EXCEPT ![k] = Append(@, Head(sent[k]))]
    /\ sent' = [sent EXCEPT ![k] = Tail(@)]
    /\ UNCHANGED <<readyState, current, connected, queue, messageId, cache,
                   made, given, settled, lost>>

\* onmessage with a response: the promise cached for its id is resolved, or
\* rejected, and forgotten.
Settle(k) ==
    /\ readyState[k] = "open" /\ replies[k] # <<>>
    /\ LET r == Head(replies[k])
           hit == {x \in cache : x.id = r.id}
       IN /\ settled' = settled \cup {[call |-> x.call, by |-> r.call] : x \in hit}
          /\ cache' = cache \ hit
    /\ replies' = [replies EXCEPT ![k] = Tail(@)]
    /\ UNCHANGED <<readyState, current, connected, queue, messageId, sent,
                   made, given, lost>>

Next == \/ Rpc
        \/ \E k \in Socket : Opened(k) \/ Closing(k) \/ Closed(k) \/ Handle(k) \/ Settle(k)

Spec == Init /\ [][Next]_vars

\* A socket that connects or closes comes to an end of it; the server handles
\* what it gets, and an open socket delivers.
Fairness ==
    \A k \in Socket : /\ WF_vars(Opened(k) \/ (readyState[k] # "open" /\ Closed(k)))
                      /\ WF_vars(Handle(k))
                      /\ WF_vars(Settle(k))

FairSpec == Spec /\ Fairness

-----------------------------------------------------------------------------

TypeOK ==
    /\ readyState \in [Socket -> {"none", "connecting", "open", "closing", "closed"}]
    /\ current \in Socket /\ connected \in BOOLEAN
    /\ queue \in Seq(Request) /\ cache \subseteq Request
    /\ messageId \in 0 .. MaxCalls /\ made \in 0 .. MaxCalls
    /\ sent \in [Socket -> Seq(Request)] /\ replies \in [Socket -> Seq(Request)]
    /\ given \in Seq(CallNo)
    /\ settled \subseteq [call : CallNo, by : CallNo] /\ lost \subseteq CallNo

\* The client is on one socket: none but its current one is alive, and what it
\* believes of the connection is true of that one; nothing waits in the queue
\* while it is open.  (A socket that is closing still counts as connected.)
OneConnection ==
    /\ \A k \in Socket \ {current} : readyState[k] \in {"none", "closed"}
    /\ connected <=> readyState[current] \in {"open", "closing"}
    /\ connected => queue = <<>>

\* Calls go to a socket in the order they were made, over all the connections
\* and once: none overtakes one that waits for the socket.
CallOrder == \A i, j \in DOMAIN given : i < j => given[i] < given[j]

\* A promise is settled once, by the response to its own request, though the
\* ids are matched without regard to the socket.
OwnAnswer == \A x \in settled : x.call = x.by

\* Every call is settled, unless its connection was lost or, when it waits for
\* one, the socket could not be opened: then it waits for the next call.
Settles ==
    \A n \in CallNo :
        (made >= n) ~> \/ n \in {x.call : x \in settled} \cup lost
                       \/ n \in Calls(queue) /\ readyState[current] = "closed"

=============================================================================
