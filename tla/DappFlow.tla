------------------------------ MODULE DappFlow -------------------------------
(***************************************************************************)
(* The dapps of several people against one server: they open the wizards,  *)
(* follow invite links, and may leave before the end.                      *)
(***************************************************************************)
EXTENDS SignPages

CONSTANT Patient  \* users leave no page while a call or a computation of it
                  \* is under way, and follow no link of a group they are in

Init == /\ kind \in Kinds
        /\ server = [s \in Sid |-> NoSession]
        /\ calls = [c \in Client |-> <<>>]
        /\ task = [c \in Client |-> Idle]
        /\ frames = [c \in Client |-> <<>>]
        /\ conn = [c \in Client |-> "open"]
        /\ app = [c \in Client |-> NewApp]
        /\ invited = {} /\ approved = {} /\ left = {} /\ done = {}
        /\ deaf = {} /\ surplus = {}

\* The app's routes: an invite link opens the joining wizard of its kind.
FollowLink(c) ==
    \E s \in invited :
        /\ Patient => c \notin server[s].members
        /\ OpenJoin(c, s) \/ OpenSignJoin(c, s)

\* The user goes to another page of the app
Leave(c) ==
    /\ app[c].wizard # "none" /\ app[c].step < 3
    /\ Patient => ~Pending(c) /\ app[c].jobs = {}
    /\ Become(c, Unmount(app[c]))
    /\ left' = left \cup {c}
    /\ UNCHANGED <<kind, server, calls, task, frames, conn, invited, approved, done, deaf, surplus>>

\* What happens by itself: promises, timers, frames, the server's tasks
System(c) ==
    \/ Serve(c) \/ Notify(c) \/ ClientDisconnected(c) \/ Timeout(c)
    \/ SendMessage(c) \/ MessageSent(c) \/ ReceiveMessage(c)
    \/ CreateGroupSession(c) \/ JoinGroupSession(c) \/ CallFailed(c)
    \/ KeygenStep(c) \/ SignStep(c)

User(c) ==
    \/ FollowLink(c) \/ Connected(c) \/ CopyLink(c) \/ Leave(c)
    \/ KeygenUser(c) \/ SignUser(c)

Next == \E c \in Client : System(c) \/ User(c)

Spec == Init /\ [][Next]_vars

\* Nobody is obliged to do anything on a page.  The server's tasks go on while
\* its lock is not stuck, which Contended below is about.
FairSpec == Spec /\ \A c \in Client : WF_vars(System(c))

-----------------------------------------------------------------------------

\* Types

Form == [parties : Nat, threshold : Nat]

Method == {"Group.create", "Group.join", "Session.create", "Session.join",
           "Session.signup", "Session.load", "Session.message"}

CallRecord == [fn : {"create", "join", "load", "message"}, method : Method, sid : Sid,
               visit : Nat, number : Nat, params : Form]

Event == [type : {"ready"}, sid : Sid] \cup [type : {"message"}, sid : Sid, from : Client]

Frame == [type : {"answer"}, ok : BOOLEAN, call : CallRecord] \cup Event

Task == {Idle} \cup [frame : Event, sid : Sid, to : SUBSET Client, fresh : BOOLEAN]

Group == [params : Form, members : SUBSET Client, open : BOOLEAN,
          signups : Seq([number : Nat, client : Client])]

Connection == {"open", "flagged", "closing", "closed"}

Visit == [sid : Sid, visit : Nat]

Job == [sid : Sid, via : Sid, number : Nat, visit : Nat, at : {"send", "sent", "wait"}]

AppRecord ==
  [wizard : {"none", "create", "join"}, step : 0 .. 3, visit : Nat,
   target : 0 .. MaxSessions, form : Form, ready : BOOLEAN,
   group : 0 .. MaxSessions, session : 0 .. MaxSessions, number : Nat,
   transport : 0 .. MaxSessions, candidate : 0 .. MaxSessions, proof : 0 .. MaxSessions,
   once : SUBSET Visit, signer : BOOLEAN, sinks : Seq(Sid),
   inbox : [Sid -> SUBSET Client], timers : SUBSET Visit, jobs : SUBSET Job]

\* What the server, the sockets and the dapps hold is well typed, and what is
\* under way between them; a step is never past the last page.
TypeOK ==
    /\ kind \in Kinds
    /\ server \in [Sid -> Group]
    /\ calls \in [Client -> Seq(CallRecord)]
    /\ task \in [Client -> Task]
    /\ frames \in [Client -> Seq(Frame)]
    /\ conn \in [Client -> Connection]
    /\ app \in [Client -> AppRecord]
    /\ left \subseteq Client /\ invited \subseteq Sid

\* A party too many: with a key that fewer sign with than hold shares, nothing
\* keeps another one from loading its number into a session that is complete.
Overfull(s) == Len(server[s].signups) > Needed(s)

\* With a new key there is none: a group is never more than full, and nobody
\* follows a link of a group it is in; unless a client of the group lost its
\* connection, which leaves its place to another one and its signup in the
\* session.
TooMany(s) == Overfull(s) /\ (kind # "keygen" \/ Clients(s) # server[s].members)

\* A computation runs with the group, session, transport and party number of
\* one session, which is complete, and every other party of it that has
\* neither finished nor left nor lost its connection has a sink that hears it,
\* or will make one when it reads the answer it was sent before.
ComputeReady ==
    \A c \in Client : \A j \in app[c].jobs :
        /\ j.via = j.sid
        /\ Ready(j.sid) \/ TooMany(j.sid)
        /\ [number |-> j.number, client |-> c] \in ToSet(server[j.sid].signups)
        /\ \A p \in Parties(j.sid) :
              \/ p \in left \/ Cut(p) \/ <<p, j.sid>> \in done
              \/ app[p].sinks # <<>> /\ Head(app[p].sinks) = j.sid
              \/ \E i \in 1 .. Len(frames[p]) :
                    frames[p][i].type = "answer" /\ frames[p][i].call.sid = j.sid

\* No round message reaches a client that never left a page without a sink
\* there to take it: the sinks are made before the event, with the answer, and
\* go when the last message is there.
MessagesHeard == \A m \in deaf : TooMany(m[2])

\* receiveMessage throws "Received too many messages for round" only if there
\* is a party too many.
NoSurplus == \A m \in surplus : TooMany(m[2])

\* A socket has one sink at a time: a second one would get nothing but what
\* the first one throws on.
OneSink == \A c \in Client : Len(app[c].sinks) <= 1

\* Nobody's share signs before every party of the session approved the value,
\* the creator too, who loads the share before being asked.
OnlyApproved ==
    kind # "keygen" =>
        \A c \in Client : \A j \in app[c].jobs : \A p \in Parties(j.sid) :
            <<p, j.sid>> \in approved

\* A page that says the value was signed has the proof of its own session.
ProofOfSession ==
    kind # "keygen" =>
        \A c \in Client : app[c].step = 3 =>
            app[c].proof = app[c].session /\ app[c].candidate = app[c].session

\* Whatever the two sliders went through, the form asks for parameters that
\* the server accepts: its threshold follows the parties down.
ParametersAccepted ==
    \A c \in Client : \A i \in DOMAIN calls[c] :
        calls[c][i].method = "Group.create" => ValidParameters(calls[c][i].params)

\* A connection task is about to ask for the state lock as a writer: for any
\* request but a round message, or to remove the connection.
Writing(c) ==
    /\ task[c] = Idle
    /\ \/ conn[c] = "closing"
       \/ /\ conn[c] # "closed" /\ calls[c] # <<>>
          /\ Head(calls[c]).method # "Session.message"

\* Another task sends a notification meanwhile, which asks for the lock again
\* for each receiver: behind the writer it waits for ever (StateLock).
Contended == \E c, d \in Client : task[c] # Idle /\ Writing(d)

\* A session whose parties are all there ends at each of them, unless one of
\* them left its page or lost its connection, there is a party too many, or
\* somebody, a party that is through or another client, asks to write during a
\* notification.
Completes ==
    \A s \in Sid :
        (server[s].open /\ Ready(s)) ~>
            \/ \E p \in Parties(s) : p \in left \/ Cut(p)
            \/ TooMany(s) \/ Contended
            \/ \A p \in Parties(s) : <<p, s>> \in done

=============================================================================
