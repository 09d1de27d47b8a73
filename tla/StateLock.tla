------------------------------ MODULE StateLock ------------------------------
(***************************************************************************)
(* The lock around the relay server's State (library server.rs) and the    *)
(* connection tasks that take it.  MpcServer has what they do with the     *)
(* state; here is only when they hold the lock.                            *)
(*                                                                         *)
(* tokio's RwLock grants in the order of the requests: a reader waits for  *)
(* the writer that asked before it, even if only readers hold the lock.    *)
(***************************************************************************)
EXTENDS Naturals, Sequences, FiniteSets, SequencesExt

CONSTANTS Conn,         \* the connections, one task each
          MaxReceivers  \* bound: clients one notification is sent to

VARIABLES pc,       \* [Conn -> where its task is]
          waiting,  \* requests for the lock: [conn, mode], in their order
          readers,  \* [Conn -> read guards its task holds]
          writer,   \* the tasks that hold the write guard: one at most
          left      \* [Conn -> clients its notification has still to go to]

vars == <<pc, waiting, readers, writer, left>>

Init == /\ pc = [c \in Conn |-> "new"]
        /\ waiting = <<>> /\ writer = {}
        /\ readers = [c \in Conn |-> 0]
        /\ left = [c \in Conn |-> 0]

-----------------------------------------------------------------------------
\* The lock

Ask(c, mode) == waiting' = Append(waiting, [conn |-> c, mode |-> mode])

Asks(c) == \E i \in DOMAIN waiting : waiting[i].conn = c

\* The first request in the line is granted as soon as the guards allow it.
Grant ==
    /\ waiting # <<>> /\ writer = {}
    /\ LET q == Head(waiting) IN
       \/ /\ q.mode = "read"
          /\ readers' = [readers EXCEPT ![q.conn] = @ + 1]
          /\ UNCHANGED writer
       \/ /\ q.mode = "write" /\ \A c \in Conn : readers[c] = 0
          /\ writer' = {q.conn}
          /\ UNCHANGED readers
    /\ waiting' = Tail(waiting)
    /\ UNCHANGED <<pc, left>>

-----------------------------------------------------------------------------
\* The task of a connection.  At a place it asked for a guard, and goes on
\* when it has it.

Has(c, place) == pc[c] = place /\ ~Asks(c)

Goto(c, place) == pc' = [pc EXCEPT ![c] = place]

\* Drop(c, n): n read guards and the write guard of c go out of scope.
Drop(c, n) == /\ readers' = [readers EXCEPT ![c] = @ - n]
              /\ writer' = writer \ {c}

\* client_connected: the connection's sender is put into the clients.
Connect(c) ==
    /\ pc[c] = "new"
    /\ Ask(c, "write") /\ Goto(c, "connect")
    /\ UNCHANGED <<readers, writer, left>>

Connected(c) ==
    /\ Has(c, "connect")
    /\ Drop(c, 0) /\ Goto(c, "ready")
    /\ UNCHANGED <<waiting, left>>

\* A request: every handler but that of Session.message writes.
Request(c) ==
    /\ pc[c] = "ready"
    /\ \E mode \in {"read", "write"} : Ask(c, mode)
    /\ Goto(c, "service")
    /\ UNCHANGED <<readers, writer, left>>

\* The handler is done and may leave a notification; rpc_response reads.
Serve(c) ==
    /\ Has(c, "service")
    /\ Drop(c, readers[c]) /\ Ask(c, "read") /\ Goto(c, "answer")
    /\ \E n \in 0 .. MaxReceivers : left' = [left EXCEPT ![c] = n]

\* The answer is out; rpc_notify reads, if there is something to notify.
Answer(c) ==
    /\ Has(c, "answer")
    /\ Drop(c, 1)
    /\ IF left[c] = 0 THEN Goto(c, "ready") /\ UNCHANGED waiting
                      ELSE Goto(c, "notify") /\ Ask(c, "read")
    /\ UNCHANGED left

\* rpc_notify has its receivers: rpc_response reads for the first one, while
\* rpc_notify still holds its guard.
Notify(c) ==
    /\ Has(c, "notify")
    /\ Ask(c, "read") /\ Goto(c, "send")
    /\ UNCHANGED <<readers, writer, left>>

\* rpc_response for one receiver is over; rpc_notify's guard goes at the end.
Send(c) ==
    /\ Has(c, "send")
    /\ left' = [left EXCEPT ![c] = @ - 1]
    /\ IF left[c] = 1 THEN Drop(c, 2) /\ Goto(c, "ready") /\ UNCHANGED waiting
                      ELSE Drop(c, 1) /\ Ask(c, "read") /\ UNCHANGED pc

\* client_disconnected: two writes
Disconnect(c) ==
    /\ pc[c] = "ready"
    /\ Ask(c, "write") /\ Goto(c, "leave")
    /\ UNCHANGED <<readers, writer, left>>

Leave(c) ==
    /\ Has(c, "leave")
    /\ Drop(c, 0) /\ Ask(c, "write") /\ Goto(c, "prune")
    /\ UNCHANGED left

Prune(c) ==
    /\ Has(c, "prune")
    /\ Drop(c, 0) /\ Goto(c, "gone")
    /\ UNCHANGED <<waiting, left>>

Task(c) == \/ Connected(c) \/ Serve(c) \/ Answer(c) \/ Notify(c) \/ Send(c)
           \/ Leave(c) \/ Prune(c)

Next == Grant \/ \E c \in Conn : Task(c) \/ Connect(c) \/ Request(c) \/ Disconnect(c)

\* The runtime polls every task that can go on; clients need not come or ask.
FairSpec == /\ Init /\ [][Next]_vars
            /\ WF_vars(Grant)
            /\ \A c \in Conn : WF_vars(Task(c))

-----------------------------------------------------------------------------

\* A notification reaches all its receivers ("Sends the response to all
\* clients in the session.").
NotificationSent == \A c \in Conn : pc[c] = "notify" ~> pc[c] = "ready"

=============================================================================
