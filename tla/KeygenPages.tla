----------------------------- MODULE KeygenPages -----------------------------
(***************************************************************************)
(* The pages that create a key: keys/create (Set parameters, Invite        *)
(* people, Compute, Save) and keys/join (Connect, Join session, Compute,   *)
(* Save).                                                                  *)
(***************************************************************************)
EXTENDS DappSession

CONSTANTS MaxParties,  \* the right end of the slider
          Sizes        \* bound: [Client -> the parties of the keys it creates]

ASSUME MaxPartiesAssumption == MaxParties \in Nat /\ MaxParties >= 3

\* What the create page's fields hold at first
DefaultForm == [parties |-> 3, threshold |-> 2]

Sessions == Cardinality({s \in Sid : server[s].members # {}})
            + Cardinality({c \in Client : \E i \in 1 .. Len(calls[c]) :
                              calls[c][i].method = "Group.create"})

At(c, wizard, step) == app[c].wizard = wizard /\ app[c].step = step

-----------------------------------------------------------------------------
\* create/index.tsx and join/index.tsx

OpenCreate(c) ==
    /\ kind = "keygen" /\ CanOpen(c) /\ Sessions < MaxSessions /\ Sizes[c] # {}
    /\ Become(c, [Opened(app[c], "create", 0) EXCEPT !.form = DefaultForm])
    /\ UNCHANGED <<kind, server, calls, task, frames, conn, history>>

\* The route of an invite link
OpenJoin(c, s) ==
    /\ kind = "keygen" /\ CanOpen(c)
    /\ Become(c, Opened(app[c], "join", s))
    /\ UNCHANGED <<kind, server, calls, task, frames, conn, history>>

-----------------------------------------------------------------------------
\* create/set-parameters.tsx

\* Faulty variant: the threshold stays where it was
OnPartiesChangeOnly(f, n) == [f EXCEPT !.parties = n]

OnPartiesChange(f, n) ==
    [parties |-> n, threshold |-> IF f.threshold > n THEN n ELSE f.threshold]

OnThresholdChange(f, n) == [f EXCEPT !.threshold = n]

\* The two sliders
SetParameters(c) ==
    /\ kind = "keygen" /\ At(c, "create", 0)
    /\ LET f == app[c].form IN
       \/ \E n \in 2 .. MaxParties :
             n # f.parties /\ Become(c, [app[c] EXCEPT !.form = OnPartiesChange(f, n)])
       \/ \E n \in 2 .. f.parties :
             n # f.threshold /\ Become(c, [app[c] EXCEPT !.form = OnThresholdChange(f, n)])
    /\ UNCHANGED <<kind, server, calls, task, frames, conn, history>>

\* onSubmit: the people's threshold becomes the protocol's, which is one less
SubmitParameters(c) ==
    /\ kind = "keygen" /\ At(c, "create", 0) /\ ~Pending(c)
    /\ Sessions < MaxSessions
    /\ app[c].form.parties \in Sizes[c]
    /\ LET f == app[c].form
           params == [f EXCEPT !.threshold = @ - 1]
       IN Ask(c, [Call("create", "Group.create", app[c], Sessions + 1) EXCEPT !.params = params])
    /\ UNCHANGED <<kind, server, task, frames, conn, app, history>>

\* createGroupSession is over, and the wizard shows InvitePeople, which
\* listens for the event of its session
KeyInvite(c) ==
    /\ kind = "keygen"
    /\ Answered(c, "create", {"Session.signup"}, TRUE)
    /\ LET q == Answer(c)
           a == Created(app[c], q)
       IN Become(c, IF Mounted(a, q)
                    THEN [HandleNext(a) EXCEPT !.once = @ \cup {[sid |-> q.sid, visit |-> q.visit]}]
                    ELSE a)
    /\ UNCHANGED <<kind, server, calls, task, conn, history>>

-----------------------------------------------------------------------------
\* join/session.tsx

\* The snap is connected: the next page starts its timer
Connected(c) ==
    /\ At(c, "join", 0)
    /\ LET a == HandleNext(app[c])
       IN Become(c, [a EXCEPT !.timers = @ \cup {[sid |-> a.target, visit |-> a.visit]}])
    /\ UNCHANGED <<kind, server, calls, task, frames, conn, history>>

\* joinGroupSessionWithSignup: the group is stored and a signup asked for
SessionJoined(c) ==
    /\ kind = "keygen"
    /\ Answered(c, "join", {"Session.join"}, TRUE)
    /\ Become(c, SetGroup(app[c], Answer(c).sid))
    /\ Ask(c, [Answer(c) EXCEPT !.method = "Session.signup"])
    /\ UNCHANGED <<kind, server, task, conn, history>>

\* Faulty variant: the sink is left to the compute page
SignedUpNoTransport(c) ==
    /\ kind = "keygen"
    /\ Answered(c, "join", {"Session.signup"}, TRUE)
    /\ LET q == Answer(c)
           a == SetSession(app[c], q.sid, q.number)
       IN Become(c, [a EXCEPT !.transport = q.sid,
                              !.once = @ \cup {[sid |-> q.sid, visit |-> q.visit]}])
    /\ UNCHANGED <<kind, server, calls, task, conn, history>>

\* The end of joinGroupSessionWithSignup; the page then listens, whether it
\* is still shown or not
SignedUp(c) ==
    /\ kind = "keygen"
    /\ Answered(c, "join", {"Session.signup"}, TRUE)
    /\ LET q == Answer(c)
       IN Become(c, [Created(app[c], q) EXCEPT !.once = @ \cup {[sid |-> q.sid, visit |-> q.visit]}])
    /\ UNCHANGED <<kind, server, calls, task, conn, history>>

-----------------------------------------------------------------------------
\* sessionSignup, compute.tsx and save.tsx

\* The compute page starts generateKeyShare with what the store holds now
Compute(a) ==
    [HandleNext(a) EXCEPT !.jobs = @ \cup {[sid |-> a.session, via |-> a.transport,
                                            number |-> a.number, visit |-> a.visit,
                                            at |-> "send"]}]

\* Every handler runs once, whatever the session of the event; one for
\* another session throws.
SessionSignup(c) ==
    /\ kind = "keygen" /\ frames[c] # <<>> /\ Head(frames[c]).type = "ready"
    /\ LET s == Head(frames[c]).sid
           a == [app[c] EXCEPT !.once = {}]
       IN Become(c, IF \E h \in app[c].once : h.sid = s /\ Mounted(a, h)
                    THEN Compute(a) ELSE a)
    /\ frames' = [frames EXCEPT ![c] = Tail(@)]
    /\ UNCHANGED <<kind, server, calls, task, conn, history>>

\* generateKeyShare returns: the share is kept for the save page
KeyComputed(c) ==
    /\ kind = "keygen"
    /\ \E j \in app[c].jobs :
          /\ RoundDone(c, j)
          /\ LET a == [app[c] EXCEPT !.jobs = @ \ {j}, !.inbox[j.via] = {}]
             IN Become(c, IF Mounted(a, j) THEN HandleNext(a) ELSE a)
          /\ done' = done \cup {<<c, j.sid>>}
    /\ UNCHANGED <<kind, server, calls, task, frames, conn, invited, approved, left, deaf, surplus>>

\* saveKeyShare, and back to the list of keys
Save(c) ==
    /\ kind = "keygen" /\ app[c].step = 3
    /\ Become(c, Unmount(app[c]))
    /\ UNCHANGED <<kind, server, calls, task, frames, conn, history>>

KeygenStep(c) ==
    \/ KeyInvite(c) \/ SessionJoined(c) \/ SignedUp(c)
    \/ SessionSignup(c) \/ KeyComputed(c)

KeygenUser(c) == OpenCreate(c) \/ SetParameters(c) \/ SubmitParameters(c) \/ Save(c)

=============================================================================
