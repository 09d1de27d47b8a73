----------------------------- MODULE DappSession -----------------------------
(***************************************************************************)
(* What every page of the dapp works with: group-session.ts, the redux     *)
(* slice store/session.ts, the listeners on the one WebSocketClient of an  *)
(* app, and the relay server as its clients see it (MpcServer has it in    *)
(* full).  KeygenPages and SignPages add the pages, DappFlow puts them     *)
(* together.                                                               *)
(*                                                                         *)
(* An async function lives in the call it awaits: the record of a call     *)
(* travels to the server and back, and the answer says where to go on.     *)
(* The code between two awaits of the network is one step, because promise *)
(* continuations run before the socket's next message event.               *)
(*                                                                         *)
(* A group and its only session have one id.  The rounds of a computation  *)
(* (RoundSession, SignSession) are one exchange of broadcasts here.        *)
(***************************************************************************)
EXTENDS Naturals, FiniteSets, Sequences, SequencesExt

CONSTANTS Client,       \* the dapps, one connection each
          Kinds,        \* the kinds of session considered
          MaxSessions,  \* bound: groups created
          Visits,       \* bound: [Kinds -> [Client -> wizards it opens]]
          Key,          \* [parties, threshold] of the key to sign with
          Shares        \* [Client -> party numbers of the shares it holds]

ASSUME ClientAssumption == IsFiniteSet(Client)
ASSUME BoundsAssumption == MaxSessions \in Nat /\ Visits \in [Kinds -> [Client -> Nat]]
ASSUME SharesAssumption == Shares \in [Client -> SUBSET (Nat \ {0})]

VARIABLES kind,     \* "keygen", "message" or "transaction"
          server,   \* [Sid -> the group and its session]
          calls,    \* [Client -> requests the server has not handled]
          task,     \* [Client -> notification its connection task owes]
          frames,   \* [Client -> what its socket has still to deliver]
          conn,     \* [Client -> "open"; "flagged", to be closed after the next
                    \*  frame; "closing", nothing is sent any more; "closed"]
          app,      \* [Client -> the state of its dapp]
          invited,  \* sessions whose invite link was copied
          approved, \* <<client, session>>: the user agreed to sign the value
          left,     \* clients that left a wizard before its end
          done,     \* <<client, session>>: the computation ended
          deaf,     \* round messages no sink of one that stayed heard
          surplus   \* round messages a sink threw "too many" on

vars == <<kind, server, calls, task, frames, conn, app, invited, approved,
          left, done, deaf, surplus>>
history == <<invited, approved, left, done, deaf, surplus>>

Sid == 1 .. MaxSessions
Idle == [frame |-> [type |-> "none"], sid |-> 0, to |-> {}, fresh |-> FALSE]

-----------------------------------------------------------------------------
\* The server

NoSession == [params |-> Key, members |-> {}, open |-> FALSE, signups |-> <<>>]

\* The clients of a group: those that joined it, until client_disconnected
\* removes them.  A group without any is gone.
Clients(s) == {c \in server[s].members : conn[c] # "closed"}

Full(s) == Cardinality(Clients(s)) = server[s].params.parties

Parties(s) == {e.client : e \in ToSet(server[s].signups)}

\* threshold(): how many signups make a session ready
Needed(s) == IF kind = "keygen" THEN server[s].params.parties
                                ELSE server[s].params.threshold + 1

Ready(s) == Len(server[s].signups) = Needed(s)

\* Session.signup, the number after the last one
NextNumber(s) == IF server[s].signups = <<>> THEN 1
                                             ELSE Last(server[s].signups).number + 1

\* Two parties or more, of whom more than one must agree, and not more than all
ValidParameters(p) == p.threshold \in 1 .. p.parties - 1

\* The key comes from a session that was created
ASSUME KeyAssumption == Key \in [parties : Nat, threshold : Nat] /\ ValidParameters(Key)

\* The requests that are refused: of parameters no key can have, of a group
\* that is full or gone, of one the client is not in, of a number that is taken
Accepts(c, q) ==
    CASE q.method = "Group.create" -> ValidParameters(q.params)
      [] q.method = "Group.join" -> Clients(q.sid) # {} /\ ~Full(q.sid)
      [] q.method = "Session.load" ->
            /\ c \in server[q.sid].members
            /\ \A e \in ToSet(server[q.sid].signups) : e.number # q.number
      [] OTHER -> c \in server[q.sid].members

\* What an accepted request makes of its group
Handled(c, q) ==
    LET g == server[q.sid] IN
    CASE q.method = "Group.create" -> [g EXCEPT !.params = q.params, !.members = {c}]
      [] q.method = "Group.join" -> [g EXCEPT !.members = @ \cup {c}]
      [] q.method = "Session.create" -> [g EXCEPT !.open = TRUE]
      [] q.method = "Session.signup" ->
            [g EXCEPT !.signups = Append(@, [number |-> NextNumber(q.sid), client |-> c])]
      [] q.method = "Session.load" ->
            [g EXCEPT !.signups = Append(@, [number |-> q.number, client |-> c])]
      [] OTHER -> g

\* Faulty variant: one party too early
NotificationEarly(c, q) ==
    LET event(f) == [frame |-> f, sid |-> q.sid, to |-> {}, fresh |-> TRUE] IN
    CASE q.method \in {"Session.signup", "Session.load"}
         /\ Len(server[q.sid].signups) + 2 = Needed(q.sid) ->
            event([type |-> "ready", sid |-> q.sid])
      [] q.method = "Session.message" ->
            event([type |-> "message", sid |-> q.sid, from |-> c])
      [] OTHER -> Idle

\* The notification that follows: the ready event to all the parties, or a
\* round message to the other ones
Notification(c, q) ==
    LET event(f) == [frame |-> f, sid |-> q.sid, to |-> {}, fresh |-> TRUE] IN
    CASE q.method \in {"Session.signup", "Session.load"}
         /\ Len(server[q.sid].signups) + 1 = Needed(q.sid) ->
            event([type |-> "ready", sid |-> q.sid])
      [] q.method = "Session.message" ->
            event([type |-> "message", sid |-> q.sid, from |-> c])
      [] OTHER -> Idle

\* Nothing reaches the client any more
Cut(c) == conn[c] \in {"closing", "closed"}

\* A frame is put in the channel of a client's sender task, which sends it and
\* then looks at the flag; what comes after that is dropped.
Sent(c, f) == frames' = IF Cut(c) THEN frames ELSE [frames EXCEPT ![c] = Append(@, f)]

FlagRead(c) == [conn EXCEPT ![c] = IF @ = "flagged" THEN "closing" ELSE @]

\* One request of c is handled and answered.  The refusal of a full group also
\* sets the flag, before the sender task looks at it or after.
Serve(c) ==
    /\ calls[c] # <<>> /\ task[c] = Idle /\ conn[c] # "closed"
    /\ LET q == Head(calls[c])
           ok == Accepts(c, q)
           number == IF q.method = "Session.signup" THEN NextNumber(q.sid) ELSE q.number
       IN /\ server' = IF ok THEN [server EXCEPT ![q.sid] = Handled(c, q)] ELSE server
          /\ task' = [task EXCEPT ![c] = IF ok THEN Notification(c, q) ELSE Idle]
          /\ Sent(c, [type |-> "answer", ok |-> ok, call |-> [q EXCEPT !.number = number]])
          /\ IF q.method = "Group.join" /\ Full(q.sid) /\ conn[c] = "open"
             THEN \E x \in {"flagged", "closing"} : conn' = [conn EXCEPT ![c] = x]
             ELSE conn' = FlagRead(c)
    /\ calls' = [calls EXCEPT ![c] = Tail(@)]
    /\ UNCHANGED <<kind, app, history>>

\* client_disconnected, when the client has answered the closing of its socket:
\* it leaves its groups, and its signups stay.
ClientDisconnected(c) ==
    /\ conn[c] = "closing" /\ task[c] = Idle
    /\ conn' = [conn EXCEPT ![c] = "closed"]
    /\ UNCHANGED <<kind, server, calls, task, frames, app, history>>

\* Faulty variant: the sender gets its own message
ReceiversAndSender(c, t) == Parties(t.sid)

\* The clients that are notified
Receivers(c, t) == Parties(t.sid) \ IF t.frame.type = "message" THEN {c} ELSE {}

\* rpc_notify: the receivers are looked up when the response is out, and
\* get the event one after the other.
Notify(c) ==
    /\ task[c] # Idle
    /\ LET t == task[c]
           to == IF t.fresh THEN Receivers(c, t) ELSE t.to
       IN \E r \in to :
             /\ Sent(r, t.frame) /\ conn' = FlagRead(r)
             /\ task' = [task EXCEPT ![c] =
                   IF to = {r} THEN Idle ELSE [t EXCEPT !.to = to \ {r}, !.fresh = FALSE]]
    /\ UNCHANGED <<kind, server, calls, app, history>>

-----------------------------------------------------------------------------
\* A dapp: its wizard and the state of the wizard's page, the session slice,
\* the listeners on the socket, and the timers and computations under way

NoForm == [parties |-> 0, threshold |-> 0]

NewApp == [wizard |-> "none", step |-> 0, visit |-> 0, target |-> 0,
           form |-> NoForm, ready |-> FALSE,
           group |-> 0, session |-> 0, number |-> 0, transport |-> 0,
           candidate |-> 0, proof |-> 0,
           once |-> {}, signer |-> FALSE, sinks |-> <<>>,
           inbox |-> [s \in Sid |-> {}],
           timers |-> {}, jobs |-> {}]

\* The component that started the call is still on the screen
Mounted(a, q) == a.wizard # "none" /\ a.visit = q.visit

\* Signer's render: removes the listeners for sessionLoad and adds one, with
\* the session, transport and sign candidate of this render
Render(a) == [a EXCEPT !.signer = kind # "keygen" /\ a.wizard # "none"]

\* handleNext of the four steppers: the next page, with fresh local state
HandleNext(a) == Render([a EXCEPT !.step = @ + 1, !.ready = FALSE])

\* A wizard is opened from a page without one
CanOpen(c) == /\ app[c].wizard = "none" /\ conn[c] # "closed"
              /\ app[c].visit < Visits[kind][c]

Opened(a, wizard, s) == [a EXCEPT !.wizard = wizard, !.visit = @ + 1, !.target = s]

\* Faulty variant: the sinks' listeners stay
ListenerCleanupButSinks(a) == [a EXCEPT !.once = {}, !.signer = FALSE]

\* componentWillUnmount of ListenerCleanup
ListenerCleanup(a) == [a EXCEPT !.once = {}, !.signer = FALSE, !.sinks = <<>>]

\* navigate(): the wizard goes, and what it listened to
Unmount(a) == ListenerCleanup([a EXCEPT !.wizard = "none", !.step = 0, !.target = 0,
                                        !.form = NoForm, !.ready = FALSE])

SetGroup(a, s) == Render([a EXCEPT !.group = s])
SetSession(a, s, n) == Render([a EXCEPT !.session = s, !.number = n])

\* Faulty variant: the signature stays
ClearSignCandidate(a) == Render([a EXCEPT !.candidate = 0])

ClearSign(a) == Render([a EXCEPT !.candidate = 0, !.proof = 0])

\* prepareTransport: a new sink that listens on the socket
PrepareTransport(a, s) ==
    Render([a EXCEPT !.transport = s, !.sinks = Append(@, s), !.inbox[s] = {}])

\* How many messages prepareTransport tells the sink to expect in a round
Expected(s) == IF kind = "keygen" THEN server[s].params.parties - 1
                                  ELSE server[s].params.threshold

-----------------------------------------------------------------------------
\* Calls

Call(fn, method, a, s) ==
    [fn |-> fn, method |-> method, sid |-> s, visit |-> a.visit, number |-> 0,
     params |-> NoForm]

\* WebSocketClient.rpc
Ask(c, q) == calls' = [calls EXCEPT ![c] = Append(@, q)]

\* onmessage resolves the promise of the first frame's call
Answered(c, fn, methods, ok) ==
    /\ frames[c] # <<>>
    /\ LET f == Head(frames[c])
       IN f.type = "answer" /\ f.call.fn = fn /\ f.call.method \in methods /\ f.ok = ok
    /\ frames' = [frames EXCEPT ![c] = Tail(@)]

Answer(c) == Head(frames[c]).call

Pending(c) ==
    \/ calls[c] # <<>> \/ app[c].timers # {}
    \/ \E i \in 1 .. Len(frames[c]) : frames[c][i].type = "answer"

Become(c, a) == app' = [app EXCEPT ![c] = a]

\* createGroupSession: the group exists, its session and the own signup are
\* asked for in turn
CreateGroupSession(c) ==
    /\ Answered(c, "create", {"Group.create", "Session.create"}, TRUE)
    /\ LET q == Answer(c) IN
       IF q.method = "Group.create"
       THEN /\ Become(c, SetGroup(app[c], q.sid))
            /\ Ask(c, [q EXCEPT !.method = "Session.create"])
       ELSE /\ UNCHANGED app
            /\ Ask(c, [q EXCEPT !.method = IF q.number = 0 THEN "Session.signup"
                                                           ELSE "Session.load"])
    /\ UNCHANGED <<kind, server, task, conn, history>>

\* The end of createGroupSession
Created(a, q) == PrepareTransport(SetSession(a, q.sid, q.number), q.sid)

\* joinGroupSession: the session is joined after the group
JoinGroupSession(c) ==
    /\ Answered(c, "join", {"Group.join"}, TRUE)
    /\ Ask(c, [Answer(c) EXCEPT !.method = "Session.join"])
    /\ UNCHANGED <<kind, server, task, conn, app, history>>

\* A refused call ends in the catch of its page: a snackbar, and the page
\* stays as it is.
CallFailed(c) ==
    /\ \E fn \in {"create", "join", "load"}, m \in {"Group.create", "Group.join", "Session.load"} :
          Answered(c, fn, {m}, FALSE)
    /\ UNCHANGED <<kind, server, calls, task, conn, app, history>>

\* The delay of a joining page is over: joinGroupSession
Timeout(c) ==
    \E t \in app[c].timers :
        /\ Become(c, [app[c] EXCEPT !.timers = @ \ {t}])
        /\ Ask(c, [Call("join", "Group.join", app[c], t.sid) EXCEPT !.visit = t.visit])
        /\ UNCHANGED <<kind, server, task, frames, conn, history>>

-----------------------------------------------------------------------------
\* Rounds

\* The stream sends the round's message and awaits the response.
SendMessage(c) ==
    \E j \in app[c].jobs :
        /\ j.at = "send"
        /\ Become(c, [app[c] EXCEPT !.jobs = (@ \ {j}) \cup {[j EXCEPT !.at = "sent"]}])
        /\ Ask(c, [Call("message", "Session.message", app[c], j.via) EXCEPT !.visit = j.visit])
        /\ UNCHANGED <<kind, server, task, frames, conn, history>>

MessageSent(c) ==
    /\ Answered(c, "message", {"Session.message"}, TRUE)
    /\ LET q == Answer(c) IN
       Become(c, [app[c] EXCEPT !.jobs =
           {IF j.via = q.sid /\ j.visit = q.visit THEN [j EXCEPT !.at = "wait"] ELSE j : j \in @}])
    /\ UNCHANGED <<kind, server, calls, task, conn, history>>

\* A sessionMessage event: the sinks get it in the order they were made, and
\* one for another session throws, so that the later ones do not.
ReceiveMessage(c) ==
    /\ frames[c] # <<>> /\ Head(frames[c]).type = "message"
    /\ LET m == Head(frames[c])
           a == app[c]
           heard == a.sinks # <<>> /\ Head(a.sinks) = m.sid
           full == Cardinality(a.inbox[m.sid]) = Expected(m.sid)
       IN /\ Become(c, IF heard /\ ~full THEN [a EXCEPT !.inbox[m.sid] = @ \cup {m.from}]
                                         ELSE a)
          /\ surplus' = IF heard /\ full THEN surplus \cup {<<c, m.sid, m.from>>} ELSE surplus
          /\ deaf' = IF ~heard /\ c \notin left
                     THEN deaf \cup {<<c, m.sid, m.from>>} ELSE deaf
    /\ frames' = [frames EXCEPT ![c] = Tail(@)]
    /\ UNCHANGED <<kind, server, calls, task, conn, invited, approved, left, done>>

\* waitForRound finds the round ready: the last transition and the finalizer
RoundDone(c, j) ==
    /\ j \in app[c].jobs /\ j.at = "wait"
    /\ Cardinality(app[c].inbox[j.via]) = Expected(j.via)

=============================================================================
