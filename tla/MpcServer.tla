------------------------------ MODULE MpcServer ------------------------------
(***************************************************************************)
(* The relay server of library/src/server.rs and library/src/services.rs:  *)
(* connections, groups, sessions, the JSON-RPC handlers over them and the  *)
(* notifications that follow a response.                                   *)
(*                                                                         *)
(* Every connection has one task, which reads its socket and serves one    *)
(* request at a time (client_connected, rpc_request):                      *)
(*                                                                         *)
(*   idle -> respond -> [notify] -> idle          one request              *)
(*   idle -> prune -> gone                        the socket has closed    *)
(*   notify -> blocked                            the lock is stuck        *)
(*                                                                         *)
(* A handler runs inside one critical section of the state lock, so it is  *)
(* one action; the lock is released before the response is pushed, and     *)
(* taken again for the notification, so those are actions of their own     *)
(* and other connections' steps fall in between.  A notification asks for  *)
(* the lock again while it holds it, and if another task asked to write in *)
(* between, both wait for ever, and so does every task that asks later     *)
(* (StateLock has the lock itself).                                        *)
(***************************************************************************)
EXTENDS Naturals, FiniteSets, Sequences, SequencesExt

CONSTANTS
  Conn,         \* connection identifiers; one is never used twice
  GroupId,      \* identifiers a group can be given, each used once
  SessionId,    \* identifiers a session can be given, each used once
  Params,       \* the parameters clients ask for in Group.create
  MaxParties,   \* bound on party numbers and party indices
  MaxSignups,   \* bound on the signups of a session
  Methods       \* the methods the clients call in each kind of session

SessionKind == {"keygen", "sign"}

ASSUME ConnAssumption == IsFiniteSet(Conn)
ASSUME ParamsAssumption ==
  /\ MaxParties \in Nat
  /\ Params \subseteq [parties : 0 .. MaxParties, threshold : 0 .. MaxParties]
ASSUME BoundAssumption == MaxSignups \in Nat
ASSUME MethodsAssumption ==
  Methods \subseteq SessionKind \X {"signup", "load", "participant", "finish", "message"}

VARIABLES
  clients,       \* State.clients: the connections that can be sent to
  groups,        \* State.groups: a map from identifier to group
  sessions,      \* Group.sessions of all groups: identifier to session
  issued,        \* the identifiers handed out so far (Uuid::new_v4)
  phase,         \* what the task of a connection does next
  notification,  \* the notification a task still has to send, if any
  empty_groups,  \* groups a closing task found empty and will remove
  sent,          \* events pushed to the connections' channels so far (history)
  again          \* those that say a session is ready and were pushed again (history)

vars ==
  <<clients, groups, sessions, issued, phase, notification, empty_groups, sent, again>>

-----------------------------------------------------------------------------
\* Types

PartyIndex == 1 .. MaxParties

Phase == {"new", "idle", "respond", "notify", "blocked", "prune", "gone"}

\* The events that say a session has the parties it needs
ReadyEvent == {"sessionSignup", "sessionLoad"}

Event == ReadyEvent \cup {"sessionCreate", "sessionMessage", "sessionClosed"}

\* What Group.create accepts: more than one party, and 0 < t < n
ValidParameters(p) ==
  /\ p.parties > 1
  /\ p.threshold > 0
  /\ p.threshold < p.parties

Group == [params : {p \in Params : ValidParameters(p)}, clients : Seq(Conn)]

ClaimMethod == {"signup", "load"}

\* by is history: the method that claimed the number
Signup == [num : Nat, conn : Conn, by : ClaimMethod]

\* participants maps an index to a party number, 0 where the map has no entry
\* (no signup has number 0, so both resolve to nobody)
Session ==
  [group : GroupId, kind : SessionKind, party_signups : Seq(Signup),
   finished : SUBSET Nat, participants : [PartyIndex -> 0 .. MaxParties]]

\* conns is the filter of a notification to a group or to a session, and the
\* addressee of a relayed one
Notification ==
  [to : {"group", "session", "relay"}, event : Event, group : GroupId,
   session : SessionId, conns : SUBSET Conn]

Delivery == [conn : Conn, event : Event, session : SessionId]

TypeOK ==
  /\ clients \subseteq Conn
  /\ DOMAIN groups \subseteq GroupId
  /\ \A g \in DOMAIN groups : groups[g] \in Group
  /\ DOMAIN sessions \subseteq SessionId
  /\ \A s \in DOMAIN sessions : sessions[s] \in Session
  /\ issued \subseteq GroupId \cup SessionId
  /\ phase \in [Conn -> Phase]
  /\ notification \in [Conn -> SUBSET Notification]
  /\ empty_groups \in [Conn -> SUBSET GroupId]
  /\ sent \subseteq Delivery
  /\ again \subseteq sent

-----------------------------------------------------------------------------
\* Operators over the state

Insert(map, key, value) ==
  [k \in DOMAIN map \cup {key} |-> IF k = key THEN value ELSE map[k]]

NewGroup(c, p) == [params |-> p, clients |-> <<c>>]

NewSession(g, k) ==
  [group |-> g, kind |-> k, party_signups |-> <<>>, finished |-> {},
   participants |-> [i \in PartyIndex |-> 0]]

\* get_group, get_group_mut: the group exists and the caller is one of its clients
Member(c, g) == g \in DOMAIN groups /\ Contains(groups[g].clients, c)

\* The session exists in a group the caller is a client of
InSession(c, s) == s \in DOMAIN sessions /\ Member(c, sessions[s].group)

\* Faulty variant: the client that joined last leaves
LeaveLast(list, c) == IF Contains(list, c) THEN Front(list) ELSE list

\* A client list without connection c
Leave(list, c) == RemoveFirst(list, c)

\* Faulty variant: the test for emptiness comes before the removal
EmptiedBefore(c) == {g \in DOMAIN groups : groups[g].clients = <<>>}

\* The groups without clients once c has left, those that were empty before included
Emptied(c) == {g \in DOMAIN groups : Leave(groups[g].clients, c) = <<>>}

\* Faulty variant: off by one at capacity
FullPast(g) == Len(groups[g].clients) > groups[g].params.parties

Full(g) == Len(groups[g].clients) = groups[g].params.parties

\* The parameters of the group a session belongs to
ParamsOf(s) == groups[sessions[s].group].params

Numbers(s) == {x.num : x \in ToSet(sessions[s].party_signups)}

SignedUp(s) == {x.conn : x \in ToSet(sessions[s].party_signups)}

NextNumber(signups) == IF signups = <<>> THEN 1 ELSE Last(signups).num + 1

\* Faulty variant: a number is accepted whoever holds it already
LoadableTwice(s, n) == n # 0 /\ n <= ParamsOf(s).parties

\* Session::load accepts a number in range that no signup of the session has
Loadable(s, n) ==
  /\ n # 0
  /\ n <= ParamsOf(s).parties
  /\ n \notin Numbers(s)

Required(kind, p) == IF kind = "keygen" THEN p.parties ELSE p.threshold + 1

RequiredFor(s) == Required(sessions[s].kind, ParamsOf(s))

\* Faulty variants: one signup early, and again for every later signup
ThresholdEarly(kind, p, n) == n + 1 = Required(kind, p)
ThresholdReached(kind, p, n) == n >= Required(kind, p)

Threshold(kind, p, n) == n = Required(kind, p)

\* The connection of the first signup with number n, as Vec::iter().find returns it
Holder(s, n) ==
  sessions[s].party_signups[SelectInSeq(sessions[s].party_signups, LAMBDA x : x.num = n)].conn

\* The party number a receiver stands for: registered in a signing session,
\* the receiver itself in key generation
ReceiverNumber(s, r) ==
  IF sessions[s].kind = "sign" THEN sessions[s].participants[r] ELSE r

ToGroup(g, s, event, filter) ==
  [to |-> "group", event |-> event, group |-> g, session |-> s, conns |-> filter]

ToSession(s, event, filter) ==
  [to |-> "session", event |-> event, group |-> sessions[s].group, session |-> s,
   conns |-> filter]

Relay(s, conn) ==
  [to |-> "relay", event |-> "sessionMessage", group |-> sessions[s].group,
   session |-> s, conns |-> {conn}]

\* Faulty variant: a session notification goes to the whole group
EntriesInGroup(n) ==
  IF n.to = "relay" THEN {<<1, r>> : r \in n.conns}
  ELSE IF n.group \in DOMAIN groups
       THEN {<<i, groups[n.group].clients[i]>> : i \in DOMAIN groups[n.group].clients}
       ELSE {}

\* The list a notification goes through, looked up when it is sent: the places
\* and the connections, one entry for every client or every signup, the
\* filtered ones left out
Entries(n) ==
  LET list == CASE n.to = "group" /\ n.group \in DOMAIN groups -> groups[n.group].clients
                [] n.to = "session" /\ n.session \in DOMAIN sessions ->
                     [i \in DOMAIN sessions[n.session].party_signups |->
                        sessions[n.session].party_signups[i].conn]
                [] OTHER -> <<>>
  IN IF n.to = "relay"
     THEN {<<1, r>> : r \in n.conns}
     ELSE {<<i, list[i]>> : i \in {k \in DOMAIN list : list[k] \notin n.conns}}

\* The event as it reaches the channel of connection r
Pushed(n, r) == [conn |-> r, event |-> n.event, session |-> n.session]

\* rpc_response for entries E of n; who is no longer connected has no channel
Push(n, E) ==
  LET reached == {e \in E : e[2] \in clients}
  IN /\ sent' = sent \cup {Pushed(n, e[2]) : e \in reached}
     /\ again' = again \cup
          {Pushed(n, e[2]) : e \in {d \in reached :
             /\ n.event \in ReadyEvent
             /\ \/ Pushed(n, d[2]) \in sent
                \/ \E f \in reached : f # d /\ f[2] = d[2]}}

-----------------------------------------------------------------------------
\* The life of a connection

Init ==
  /\ clients = {}
  /\ groups = [g \in {} |-> {}]
  /\ sessions = [s \in {} |-> {}]
  /\ issued = {}
  /\ phase = [c \in Conn |-> "new"]
  /\ notification = [c \in Conn |-> {}]
  /\ empty_groups = [c \in Conn |-> {}]
  /\ sent = {}
  /\ again = {}

\* client_connected saves the sender before it reads the first request
ClientConnected(c) ==
  /\ phase[c] = "new"
  /\ phase' = [phase EXCEPT ![c] = "idle"]
  /\ clients' = clients \cup {c}
  /\ UNCHANGED <<groups, sessions, issued, notification, empty_groups, sent, again>>

\* First write section of client_disconnected: the connection leaves the state
\* and every group, and the groups without clients are flagged for removal
ClientDisconnected(c) ==
  /\ phase[c] = "idle"
  /\ phase' = [phase EXCEPT ![c] = "prune"]
  /\ clients' = clients \ {c}
  /\ groups' = [g \in DOMAIN groups |-> [groups[g] EXCEPT !.clients = Leave(@, c)]]
  /\ empty_groups' = [empty_groups EXCEPT ![c] = Emptied(c)]
  /\ UNCHANGED <<sessions, issued, notification, sent, again>>

\* Second write section: the flagged groups go, and their sessions with them
PruneGroups(c) ==
  /\ phase[c] = "prune"
  /\ phase' = [phase EXCEPT ![c] = "gone"]
  /\ groups' = [g \in DOMAIN groups \ empty_groups[c] |-> groups[g]]
  /\ sessions' = [s \in {x \in DOMAIN sessions : sessions[x].group \notin empty_groups[c]} |->
                    sessions[s]]
  /\ empty_groups' = [empty_groups EXCEPT ![c] = {}]
  /\ UNCHANGED <<clients, issued, notification, sent, again>>

\* Faulty variant: the request ends with its response
RespondOnly(c) ==
  /\ phase[c] = "respond"
  /\ phase' = [phase EXCEPT ![c] = "idle"]
  /\ UNCHANGED <<clients, groups, sessions, issued, notification, empty_groups, sent, again>>

\* rpc_request pushes the response to the caller's own channel
Respond(c) ==
  /\ phase[c] = "respond"
  /\ phase' = [phase EXCEPT ![c] = IF notification[c] = {} THEN "idle" ELSE "notify"]
  /\ UNCHANGED <<clients, groups, sessions, issued, notification, empty_groups, sent, again>>

\* rpc_notify holds the state lock while it pushes to every entry of its list
Notify(c) ==
  /\ phase[c] = "notify"
  /\ phase' = [phase EXCEPT ![c] = "idle"]
  /\ notification' = [notification EXCEPT ![c] = {}]
  /\ \E n \in notification[c] : Push(n, Entries(n))
  /\ UNCHANGED <<clients, groups, sessions, issued, empty_groups>>

\* The phases in which a task may ask for the lock to write: on connection, for
\* a request, and twice when the connection closes
Writing == {"new", "idle", "prune"}

\* rpc_notify has pushed to the entries before place i, and asks for the lock
\* again behind another task that asked to write: it waits for ever
NotifyBlocked(c) ==
  /\ phase[c] = "notify"
  /\ \E d \in Conn : phase[d] \in Writing
  /\ phase' = [phase EXCEPT ![c] = "blocked"]
  /\ notification' = [notification EXCEPT ![c] = {}]
  /\ \E n \in notification[c] : \E e \in Entries(n) :
       Push(n, {f \in Entries(n) : f[1] < e[1]})
  /\ UNCHANGED <<clients, groups, sessions, issued, empty_groups>>

\* No task waits for ever with the lock in its hands
LockFree == \A c \in Conn : phase[c] # "blocked"

-----------------------------------------------------------------------------
\* The request handlers

\* The handler is done: its task goes on to respond and then to notify
Serve(c, notes) ==
  /\ phase[c] = "idle"
  /\ phase' = [phase EXCEPT ![c] = "respond"]
  /\ notification' = [notification EXCEPT ![c] = notes]
  /\ UNCHANGED <<clients, empty_groups, sent, again>>

\* A request that fails a check: an error response and nothing else
Refuse(c) == Serve(c, {}) /\ UNCHANGED <<groups, sessions, issued>>

\* Faulty variant: the parameters are taken as they come
GroupCreateUnchecked(c, g, p) ==
  /\ g \notin issued
  /\ Serve(c, {})
  /\ groups' = Insert(groups, g, NewGroup(c, p))
  /\ issued' = issued \cup {g}
  /\ UNCHANGED sessions

GroupCreate(c, g, p) ==
  /\ g \notin issued
  /\ ValidParameters(p)
  /\ Serve(c, {})
  /\ groups' = Insert(groups, g, NewGroup(c, p))
  /\ issued' = issued \cup {g}
  /\ UNCHANGED sessions

\* The parameters are checked first
GroupCreateRefused(c, p) == ~ValidParameters(p) /\ Refuse(c)

GroupJoin(c, g) ==
  /\ g \in DOMAIN groups
  /\ ~Full(g)
  /\ Serve(c, {})
  /\ groups' = IF Contains(groups[g].clients, c)
               THEN groups
               ELSE [groups EXCEPT ![g].clients = Append(@, c)]
  /\ UNCHANGED <<sessions, issued>>

\* GroupDoesNotExist, or GroupFull, whoever asks
GroupJoinRefused(c, g) ==
  /\ g \in issued
  /\ g \in DOMAIN groups => Full(g)
  /\ Refuse(c)

SessionCreate(c, g, s, k) ==
  /\ s \notin issued
  /\ Member(c, g)
  /\ Serve(c, IF k = "keygen" THEN {ToGroup(g, s, "sessionCreate", {c})} ELSE {})
  /\ sessions' = Insert(sessions, s, NewSession(g, k))
  /\ issued' = issued \cup {s}
  /\ UNCHANGED groups

SessionCreateRefused(c, g) == g \in issued /\ ~Member(c, g) /\ Refuse(c)

\* Session.join returns the session and changes nothing
SessionJoin(c, s) ==
  /\ InSession(c, s)
  /\ Serve(c, {})
  /\ UNCHANGED <<groups, sessions, issued>>

\* GroupDoesNotExist, BadConnection or SessionDoesNotExist, in every handler
\* that names a session
SessionRefused(c, s) == s \in issued /\ ~InSession(c, s) /\ Refuse(c)

\* The kind is the one the caller passes with the request
Announce(s, k, event, signups) ==
  IF Threshold(k, ParamsOf(s), Len(signups))
  THEN {ToSession(s, event, {})}
  ELSE {}

SessionSignup(c, s, k) ==
  LET signups == Append(sessions[s].party_signups,
                        [num |-> NextNumber(sessions[s].party_signups), conn |-> c,
                         by |-> "signup"])
  IN /\ InSession(c, s)
     /\ Len(sessions[s].party_signups) < MaxSignups
     /\ Serve(c, Announce(s, k, "sessionSignup", signups))
     /\ sessions' = [sessions EXCEPT ![s].party_signups = signups]
     /\ UNCHANGED <<groups, issued>>

SessionLoad(c, s, n, k) ==
  LET signups == Append(sessions[s].party_signups, [num |-> n, conn |-> c, by |-> "load"])
  IN /\ InSession(c, s)
     /\ Loadable(s, n)
     /\ Len(sessions[s].party_signups) < MaxSignups
     /\ Serve(c, Announce(s, k, "sessionLoad", signups))
     /\ sessions' = [sessions EXCEPT ![s].party_signups = signups]
     /\ UNCHANGED <<groups, issued>>

\* ZeroPartyNumber, PartyNumberOutOfRange, PartyNumberAlreadyExists
SessionLoadRefused(c, s, n) == InSession(c, s) /\ ~Loadable(s, n) /\ Refuse(c)

SessionParticipant(c, s, i, n) ==
  /\ InSession(c, s)
  /\ Serve(c, {})
  /\ sessions' = [sessions EXCEPT ![s].participants[i] = n]
  /\ UNCHANGED <<groups, issued>>

SessionFinish(c, s, n) ==
  LET finished == sessions[s].finished \cup {n}
      everyone == /\ finished = Numbers(s)
                  /\ Len(sessions[s].party_signups) = Cardinality(finished)
  IN /\ InSession(c, s)
     /\ n \in Numbers(s)
     /\ Holder(s, n) = c
     /\ Serve(c, IF everyone THEN {ToSession(s, "sessionClosed", {})} ELSE {})
     /\ sessions' = [sessions EXCEPT ![s].finished = finished]
     /\ UNCHANGED <<groups, issued>>

\* PartyDoesNotExist, or BadParty for somebody else's number
SessionFinishRefused(c, s, n) ==
  /\ InSession(c, s)
  /\ n \in Numbers(s) => Holder(s, n) # c
  /\ Refuse(c)

SessionBroadcast(c, s) ==
  /\ InSession(c, s)
  /\ Serve(c, {ToSession(s, "sessionMessage", {c})})
  /\ UNCHANGED <<groups, sessions, issued>>

SessionPeerMessage(c, s, r) ==
  /\ InSession(c, s)
  /\ ReceiverNumber(s, r) \in Numbers(s)
  /\ Serve(c, {Relay(s, Holder(s, ReceiverNumber(s, r)))})
  /\ UNCHANGED <<groups, sessions, issued>>

\* BadPeerReceiver
SessionPeerMessageRefused(c, s, r) ==
  /\ InSession(c, s)
  /\ ReceiverNumber(s, r) \notin Numbers(s)
  /\ Refuse(c)

-----------------------------------------------------------------------------
\* The specification

\* A request of c that only some clients make; every client passes the kind the
\* session was created with.
Calls(s, method) == <<sessions[s].kind, method>> \in Methods

Claim(c, s) ==
  LET kind == sessions[s].kind
  IN \/ Calls(s, "signup") /\ SessionSignup(c, s, kind)
     \/ /\ Calls(s, "load")
        /\ \E n \in 0 .. MaxParties : SessionLoad(c, s, n, kind) \/ SessionLoadRefused(c, s, n)

Participate(c, s) ==
  /\ Calls(s, "participant")
  /\ \E i, n \in PartyIndex : SessionParticipant(c, s, i, n)

Finish(c, s) ==
  /\ Calls(s, "finish")
  /\ \E n \in PartyIndex : SessionFinish(c, s, n) \/ SessionFinishRefused(c, s, n)

Message(c, s) ==
  /\ Calls(s, "message")
  /\ \/ SessionBroadcast(c, s)
     \/ \E r \in PartyIndex : SessionPeerMessage(c, s, r) \/ SessionPeerMessageRefused(c, s, r)

GroupRequest(c) ==
  \/ \E g \in GroupId, p \in Params : GroupCreate(c, g, p)
  \/ \E p \in Params : GroupCreateRefused(c, p)
  \/ \E g \in GroupId :
       \/ GroupJoin(c, g)
       \/ GroupJoinRefused(c, g)
       \/ SessionCreateRefused(c, g)
       \/ \E s \in SessionId, k \in SessionKind : SessionCreate(c, g, s, k)

SessionRequest(c) ==
  \/ \E s \in SessionId : SessionRefused(c, s)
  \/ \E s \in DOMAIN sessions :
       SessionJoin(c, s) \/ Claim(c, s) \/ Participate(c, s) \/ Finish(c, s) \/ Message(c, s)

\* The steps a task takes by itself, once it has a request or a closed socket
TaskStep(c) == Respond(c) \/ Notify(c) \/ PruneGroups(c)

ConnStep(c) ==
  \/ ClientConnected(c)
  \/ ClientDisconnected(c)
  \/ GroupRequest(c)
  \/ SessionRequest(c)
  \/ TaskStep(c)

Next == \E c \in Conn : (LockFree /\ ConnStep(c)) \/ NotifyBlocked(c)

Spec == Init /\ [][Next]_vars

\* The runtime keeps polling a task that can go on, and the lock is given in
\* the order it was asked for: while no task keeps it for ever, every task gets
\* it. Nobody has to send a request, to connect or to disconnect.
Fairness == \A c \in Conn : WF_vars(LockFree /\ TaskStep(c))

FairSpec == Spec /\ Fairness

-----------------------------------------------------------------------------
\* Safety

\* A group never has more clients than parties and never holds a client twice,
\* although GROUP_JOIN tests for exactly `parties` clients (services.rs:283) and
\* connections join, leave and join again in any order.
GroupCapacity ==
  \A g \in DOMAIN groups :
    /\ Len(groups[g].clients) <= groups[g].params.parties
    /\ IsInjective(groups[g].clients)

\* A closing connection leaves every group in the step that removes its sender
\* (server.rs:616-633), so nothing is ever addressed to a group client that
\* cannot be sent to, and only a connection that can send requests is a client.
MembersConnected ==
  /\ \A g \in DOMAIN groups : ToSet(groups[g].clients) \subseteq clients
  /\ \A c \in Conn : c \in clients <=> phase[c] \in {"idle", "respond", "notify", "blocked"}

\* Party numbers identify the parties of a session (server.rs:206), whichever
\* connections claim them in whatever order, and by either method: a loaded one
\* is in range for the group, and a number is issued again only by a signup that
\* follows a load.  That much the code does not keep: after load 2 and load 1
\* the next signup gets 2, because Session::signup looks at the last entry only.
PartyNumbersUnique ==
  \A s \in DOMAIN sessions :
    LET signups == sessions[s].party_signups
    IN \A j \in DOMAIN signups :
         /\ signups[j].by = "load" => signups[j].num \in 1 .. ParamsOf(s).parties
         /\ \A i \in 1 .. j - 1 :
              signups[i].num = signups[j].num =>
                /\ signups[j].by = "signup"
                /\ \E k \in 1 .. j - 1 : signups[k].by = "load"

\* Whoever is told that a session is ready has signed up to it, and the number
\* of signups the kind of session asks for is there (services.rs:57): the
\* recipients are looked up a lock release after the count was taken.
ReadyWhenTold ==
  \A x \in sent :
    x.event \in ReadyEvent /\ x.session \in DOMAIN sessions =>
      /\ x.conn \in SignedUp(x.session)
      /\ Len(sessions[x.session].party_signups) >= RequiredFor(x.session)

\* The tasks that hold a ready event of session s they have not sent yet
Announcing(s) ==
  {c \in Conn : \E n \in notification[c] :
     n.session = s /\ n.event \in ReadyEvent}

Announced(s) ==
  \E x \in sent : x.session = s /\ x.event \in ReadyEvent

\* Connection c has two entries in the signups of session s
SignedUpTwice(c, s) ==
  \E i, j \in DOMAIN sessions[s].party_signups :
    /\ i # j
    /\ sessions[s].party_signups[i].conn = c
    /\ sessions[s].party_signups[j].conn = c

\* A session is announced ready at most once, by one task, although signups go
\* on being accepted past the threshold (services.rs:657-669).  rpc_notify
\* pushes once per entry of the list, so a party that starts the computation on
\* the event sees it again only if it signed up to the session twice.
AnnouncedOnce ==
  \A s \in DOMAIN sessions :
    /\ \A c, d \in Announcing(s) : c = d
    /\ Announced(s) => Announcing(s) = {}
    /\ \A x \in again : x.session = s => SignedUpTwice(x.conn, s)

\* Events of a session other than its creation reach only connections that
\* signed up to that session, however late the notification is sent.
SessionIsolation ==
  \A x \in sent :
    x.event # "sessionCreate" /\ x.session \in DOMAIN sessions =>
      x.conn \in SignedUp(x.session)

-----------------------------------------------------------------------------
\* Liveness

Told(s) ==
  \A c \in SignedUp(s) \cap clients :
    \E x \in sent : x.conn = c /\ x.session = s /\ x.event \in ReadyEvent

\* When the last required party has signed up, every party that is still
\* connected is told (services.rs:57), unless the group is removed first or a
\* notification waits for ever for the lock it holds (server.rs:539,597).
ReadyIsTold ==
  \A s \in SessionId :
    (s \in DOMAIN sessions /\ Len(sessions[s].party_signups) = RequiredFor(s))
      ~> ((s \in DOMAIN sessions => Told(s)) \/ ~LockFree)

\* A group left by its last client does not stay behind: it is removed, or
\* somebody joins it (server.rs:628-640), unless the write that removes it waits
\* behind a notification that waits for ever (server.rs:539,597).
EmptyGroupsGo ==
  \A g \in GroupId :
    (g \in DOMAIN groups /\ groups[g].clients = <<>>)
      ~> ((g \in DOMAIN groups => groups[g].clients # <<>>) \/ ~LockFree)

-----------------------------------------------------------------------------
\* What the comments of the source say and the steps do not keep

\* "Prune empty groups" (server.rs:635): a group that is removed has no clients.
OnlyEmptyGroupsPruned ==
  [][\A g \in DOMAIN groups \ DOMAIN groups' : groups[g].clients = <<>>]_vars

\* "For key generation there must be `parties` clients in the session and for
\* signing there must be `threshold + 1` clients" (services.rs:57): when the
\* ready event is issued and no connection signed up twice, that many connected
\* clients are signed up. A signup outlives its connection (FIXME, server.rs:613).
AnnouncedToEnough ==
  [][\A s \in DOMAIN sessions :
       /\ Announcing(s) = {}
       /\ Announcing(s)' # {}
       /\ Cardinality(SignedUp(s)') = Len(sessions'[s].party_signups)
       => Cardinality(SignedUp(s)' \cap clients) >= RequiredFor(s)]_vars
=============================================================================
