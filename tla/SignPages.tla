------------------------------ MODULE SignPages ------------------------------
(***************************************************************************)
(* The pages that sign: keys/sign/message and keys/sign/transaction        *)
(* (Create, Invite people, Compute, Save proof or Send transaction) and    *)
(* keys/sign/join (Connect, Approve, Compute, Finish), with the Signer     *)
(* component beside them.                                                  *)
(***************************************************************************)
EXTENDS KeygenPages

-----------------------------------------------------------------------------
\* message/index.tsx, transaction/index.tsx

\* The effect of the first render clears what was signed before.
OpenSign(c) ==
    /\ kind # "keygen" /\ CanOpen(c) /\ Sessions < MaxSessions
    /\ Become(c, ClearSign(Opened(app[c], "create", 0)))
    /\ UNCHANGED <<kind, server, calls, task, frames, conn, history>>

\* TransactionForm's getBlockInfo: the form is shown when it has its answers
BlockInfo(c) ==
    /\ kind = "transaction" /\ At(c, "create", 0) /\ ~app[c].ready
    /\ Become(c, [app[c] EXCEPT !.ready = TRUE])
    /\ UNCHANGED <<kind, server, calls, task, frames, conn, history>>

\* A group and session for the value, with the party number of the chosen share
CreateFor(c) ==
    /\ At(c, "create", 0) /\ ~Pending(c) /\ Sessions < MaxSessions
    /\ \E n \in Shares[c] :
          Ask(c, [Call("create", "Group.create", app[c], Sessions + 1)
                     EXCEPT !.params = Key, !.number = n])
    /\ UNCHANGED <<kind, server, task, frames, conn, app, history>>

\* MessageForm's onSubmit and TransactionForm's
SubmitMessage(c) == kind = "message" /\ CreateFor(c)
SubmitTransaction(c) == kind = "transaction" /\ app[c].ready /\ CreateFor(c)

\* createGroupSession is over: the sign candidate, and the next page
SignInvite(c) ==
    /\ Answered(c, "create", {"Session.load"}, TRUE)
    /\ LET q == Answer(c)
           a == Render([Created(app[c], q) EXCEPT !.candidate = q.sid])
       IN Become(c, IF Mounted(a, q) THEN HandleNext(a) ELSE a)
    /\ UNCHANGED <<kind, server, calls, task, conn, history>>

\* The ends of onMessage and onTransaction
OnMessage(c) == kind = "message" /\ SignInvite(c)
OnTransaction(c) == kind = "transaction" /\ SignInvite(c)

-----------------------------------------------------------------------------
\* sign/invite-people.tsx, approval.tsx and invite-card.tsx

\* The creator approves the value on the page that will show the links
ApproveOwn(c) ==
    /\ kind # "keygen" /\ At(c, "create", 1) /\ ~app[c].ready
    /\ Become(c, [app[c] EXCEPT !.ready = TRUE])
    /\ approved' = approved \cup {<<c, app[c].session>>}
    /\ UNCHANGED <<kind, server, calls, task, frames, conn, invited, left, done, deaf, surplus>>

\* Faulty variant: the links are there before the approval
CopyLinkAtOnce(c) ==
    /\ At(c, "create", 1) /\ app[c].group = app[c].session
    /\ invited' = invited \cup {app[c].session}
    /\ UNCHANGED <<kind, server, calls, task, frames, conn, app, approved, left, done, deaf, surplus>>

\* An invite link is copied and sent; it names the group and the session of
\* the store.
CopyLink(c) ==
    /\ At(c, "create", 1) /\ app[c].group = app[c].session
    /\ kind = "keygen" \/ app[c].ready
    /\ invited' = invited \cup {app[c].session}
    /\ UNCHANGED <<kind, server, calls, task, frames, conn, app, approved, left, done, deaf, surplus>>

\* Faulty variant: the page's effect runs with every render
ShowComputeTwice(a) == IF a.proof # 0 THEN HandleNext(HandleNext(HandleNext(a))) ELSE HandleNext(a)

\* The compute page goes on at once if the signature is already there
ShowCompute(a) == IF a.proof # 0 THEN HandleNext(HandleNext(a)) ELSE HandleNext(a)

\* "Next" under the links
InviteNext(c) ==
    /\ kind # "keygen" /\ At(c, "create", 1) /\ app[c].ready
    /\ Become(c, ShowCompute(app[c]))
    /\ UNCHANGED <<kind, server, calls, task, frames, conn, history>>

-----------------------------------------------------------------------------
\* join/index.tsx and join/approve.tsx

\* The route of an invite link; it clears what was signed before, too.
OpenSignJoin(c, s) ==
    /\ kind # "keygen" /\ CanOpen(c)
    /\ Become(c, ClearSign(Opened(app[c], "join", s)))
    /\ UNCHANGED <<kind, server, calls, task, frames, conn, history>>

\* SessionConnect has the group and the session, and shows the value
SessionFetched(c) ==
    /\ kind # "keygen"
    /\ Answered(c, "join", {"Session.join"}, TRUE)
    /\ LET q == Answer(c)
           a == SetSession(SetGroup(app[c], q.sid), q.sid, 0)
       IN Become(c, IF Mounted(a, q) THEN [a EXCEPT !.ready = TRUE] ELSE a)
    /\ UNCHANGED <<kind, server, calls, task, conn, history>>

\* doApprove: the chosen share's number is loaded into the session
Approve(c) ==
    /\ kind # "keygen" /\ At(c, "join", 1) /\ app[c].ready /\ ~Pending(c)
    /\ \E n \in Shares[c] :
          Ask(c, [Call("load", "Session.load", app[c], app[c].target) EXCEPT !.number = n])
    /\ approved' = approved \cup {<<c, app[c].target>>}
    /\ UNCHANGED <<kind, server, task, frames, conn, app, invited, left, done, deaf, surplus>>

\* loadPartyNumber is over: the sign candidate, and the compute page
Loaded(c) ==
    /\ kind # "keygen"
    /\ Answered(c, "load", {"Session.load"}, TRUE)
    /\ LET q == Answer(c)
           a == Render([Created(app[c], q) EXCEPT !.candidate = q.sid])
       IN Become(c, IF Mounted(a, q) THEN ShowCompute(a) ELSE a)
    /\ UNCHANGED <<kind, server, calls, task, conn, history>>

-----------------------------------------------------------------------------
\* signer.tsx and compute.tsx

\* Faulty variant: the listener is not renewed by a render, and so knows no
\* session of this wizard
SessionLoadStale(c) ==
    /\ kind # "keygen" /\ frames[c] # <<>> /\ Head(frames[c]).type = "ready"
    /\ Become(c, [app[c] EXCEPT !.signer = FALSE])
    /\ frames' = [frames EXCEPT ![c] = Tail(@)]
    /\ UNCHANGED <<kind, server, calls, task, conn, history>>

\* The handler of the last render starts sign(), once, if the event is for
\* its session and there is a candidate; otherwise it throws.
SessionLoad(c) ==
    /\ kind # "keygen" /\ frames[c] # <<>> /\ Head(frames[c]).type = "ready"
    /\ LET s == Head(frames[c]).sid
           a == [app[c] EXCEPT !.signer = FALSE]
       IN Become(c, IF app[c].signer /\ a.session = s /\ a.candidate # 0
                    THEN [a EXCEPT !.jobs = @ \cup {[sid |-> s, via |-> a.transport,
                                number |-> a.number, visit |-> a.visit, at |-> "send"]}]
                    ELSE a)
    /\ frames' = [frames EXCEPT ![c] = Tail(@)]
    /\ UNCHANGED <<kind, server, calls, task, conn, history>>

\* sign() returns: it took all the sinks off the socket.  The signature is
\* stored, and a compute page that is shown goes on.
SignDone(c) ==
    /\ kind # "keygen"
    /\ \E j \in app[c].jobs :
          /\ RoundDone(c, j)
          /\ LET a == Render([app[c] EXCEPT !.jobs = @ \ {j}, !.inbox[j.via] = {},
                                            !.sinks = <<>>, !.proof = j.sid])
             IN Become(c, IF a.wizard # "none" /\ a.step = 2 THEN HandleNext(a) ELSE a)
          /\ done' = done \cup {<<c, j.sid>>}
    /\ UNCHANGED <<kind, server, calls, task, frames, conn, invited, approved, left, deaf, surplus>>

-----------------------------------------------------------------------------
\* save-proof.tsx, send-transaction.tsx, finish.tsx

\* saveProof does not wait for the store
SaveProof(c) ==
    /\ kind = "message" /\ app[c].step = 3
    /\ Become(c, Unmount(app[c]))
    /\ UNCHANGED <<kind, server, calls, task, frames, conn, history>>

\* sendTransaction, up to the transaction's hash; if it is rejected the page
\* stays as it is.
SendTransaction(c) ==
    /\ kind = "transaction" /\ At(c, "create", 3) /\ ~app[c].ready
    /\ Become(c, [app[c] EXCEPT !.ready = TRUE])
    /\ UNCHANGED <<kind, server, calls, task, frames, conn, history>>

\* The transaction is settled and its receipt saved
FinishTransaction(c) ==
    /\ kind = "transaction" /\ At(c, "create", 3) /\ app[c].ready
    /\ Become(c, Unmount(app[c]))
    /\ UNCHANGED <<kind, server, calls, task, frames, conn, history>>

\* The page of an invited party, which has no transaction to send
Finish(c) ==
    /\ kind = "transaction" /\ At(c, "join", 3)
    /\ Become(c, Unmount(app[c]))
    /\ UNCHANGED <<kind, server, calls, task, frames, conn, history>>

SignStep(c) ==
    \/ OnMessage(c) \/ OnTransaction(c) \/ SessionFetched(c) \/ Loaded(c)
    \/ SessionLoad(c) \/ SignDone(c)

SignUser(c) ==
    \/ OpenSign(c) \/ BlockInfo(c) \/ SubmitMessage(c) \/ SubmitTransaction(c)
    \/ ApproveOwn(c) \/ InviteNext(c) \/ Approve(c)
    \/ SaveProof(c) \/ SendTransaction(c) \/ FinishTransaction(c) \/ Finish(c)

=============================================================================
