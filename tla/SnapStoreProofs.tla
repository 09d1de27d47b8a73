-------------------------- MODULE SnapStoreProofs --------------------------
(***************************************************************************)
(* Theorems about SnapStore.  The types are right whatever users do; the   *)
(* rest holds when updates do not overlap: the copy an update is about to  *)
(* save is the stored state with its change, because nobody else saved     *)
(* since it was loaded.                                                    *)
(***************************************************************************)
EXTENDS SnapStore, TLAPS

-----------------------------------------------------------------------------

\* A call that is no load names an item and says what to do with it
LEMMA CallParts ==
  ASSUME NEW c \in Updates \union Loads, c.kind # "load"
  PROVE  c.item \in Item /\ c.kind \in {"save", "delete", "import"}
BY DEF Updates, Loads

\* The kinds of call are distinct sets
LEMMA NewCalls ==
  /\ NoCall \in Updates \union Loads
  /\ \A slice \in Slice : [kind |-> "load", slice |-> slice] \in Updates \union Loads
  /\ \A kind \in {"save", "delete", "import"}, x \in Item :
       [kind |-> kind, item |-> x] \in Updates \union Loads
BY DEF Updates, Loads, NoCall, Slice

LEMMA DefaultType == Default \in [Item -> Nat]
BY DEF Default

\* loadStateData gives a state, also when there is none
LEMMA StoredType == ASSUME TypeOK PROVE Stored \in [Item -> Nat]
BY DefaultType DEF TypeOK, Stored

LEMMA ChangedType ==
  ASSUME NEW c \in Updates \union Loads, c.kind # "load",
         NEW state \in [Item -> Nat]
  PROVE  Changed(c, state) \in [Item -> Nat]
BY CallParts DEF Changed

-----------------------------------------------------------------------------

\* Which step of a thunk belongs to which kind of call
StepOfCall == \A t \in Task :
                /\ step[t] = "find" => call[t].kind = "import"
                /\ step[t] \in {"load", "save"} => call[t].kind # "load"

\* The types, with what a step says of the call, inductive without assumptions
TypeInv == TypeOK /\ StepOfCall

LEMMA TypeInit == Init => TypeInv
BY NewCalls, DefaultType DEF Init, TypeInv, TypeOK, StepOfCall, Steps

LEMMA BeginType ==
  ASSUME TypeInv, NEW t \in Task, Begin(t)
  PROVE  TypeInv'
<1> USE NewCalls DEF TypeInv, TypeOK, StepOfCall, Steps
<1>1. ASSUME NEW slice \in Slice, DispatchLoad(t, slice)
      PROVE  TypeInv'
  <2> DEFINE c == [kind |-> "load", slice |-> slice]
  <2>1. c \in Updates \union Loads
    OBVIOUS
  <2> HIDE DEF c
  <2>2. step' = [step EXCEPT ![t] = "reload"] /\ call' = [call EXCEPT ![t] = c]
        /\ UNCHANGED <<snap, copy, shown, saved>>
    BY <1>1 DEF DispatchLoad, Dispatch, c
  <2> QED  BY <2>1, <2>2
<1>2. ASSUME NEW kind \in {"save", "delete"}, NEW slice \in Slice, NEW x \in Item,
             DispatchUpdate(t, kind, slice, x)
      PROVE  TypeInv'
  <2> DEFINE c == [kind |-> kind, item |-> x]
  <2>1. c \in Updates \union Loads /\ c.kind # "load"
    OBVIOUS
  <2> HIDE DEF c
  <2>2. step' = [step EXCEPT ![t] = "load"] /\ call' = [call EXCEPT ![t] = c]
        /\ UNCHANGED <<snap, copy, shown>> /\ saved' = saved \ {x}
    BY <1>2 DEF DispatchUpdate, Dispatch, c
  <2> QED  BY <2>1, <2>2
<1>3. ASSUME NEW x \in Item, ImportKeyStore(t, x)
      PROVE  TypeInv'
  <2> DEFINE c == [kind |-> "import", item |-> x]
  <2>1. c \in Updates \union Loads /\ c.kind = "import"
    OBVIOUS
  <2> HIDE DEF c
  <2>2. step' = [step EXCEPT ![t] = "find"] /\ call' = [call EXCEPT ![t] = c]
        /\ UNCHANGED <<snap, copy, shown, saved>>
    BY <1>3 DEF ImportKeyStore, Dispatch, c
  <2> QED  BY <2>1, <2>2
<1> QED
  BY <1>1, <1>2, <1>3
  DEF Begin, LoadKeys, LoadMessageProofs, LoadTransactionReceipts, SaveKey,
      DeleteKey, SaveMessageProof, DeleteMessageProof, SaveTransactionReceipt,
      DeleteTransactionReceipt, Slice

LEMMA ProceedType ==
  ASSUME TypeInv, NEW t \in Task, Proceed(t)
  PROVE  TypeInv'
<1> USE NewCalls, DefaultType, StoredType DEF TypeInv, TypeOK, StepOfCall, Steps
<1>1. CASE KeyShareExists(t)
  BY <1>1 DEF KeyShareExists, Settle
<1>2. CASE KeyShareMissing(t)
  <2>1. call[t].kind # "load" /\ call[t].item \in Item
    BY <1>2, CallParts DEF KeyShareMissing
  <2> QED  BY <1>2, <2>1 DEF KeyShareMissing
<1>3. CASE LoadStateData(t)
  <2>1. Changed(call[t], Stored) \in [Item -> Nat]
    BY <1>3, ChangedType DEF LoadStateData
  <2> QED  BY <1>3, <2>1 DEF LoadStateData
<1>4. CASE SaveStateData(t)
  BY <1>4 DEF SaveStateData
<1>5. CASE Reload(t)
  BY <1>5 DEF Reload
<1>6. CASE Fulfilled(t)
  <2>1. shown' \in [Page -> [Item -> Nat]]
    BY <1>6, PageAssumption DEF Fulfilled
  <2>2. saved' \subseteq Item
    BY <1>6, CallParts DEF Fulfilled
  <2> QED  BY <1>6, <2>1, <2>2 DEF Fulfilled, Settle
<1>7. CASE Rejected(t)
  BY <1>7 DEF Rejected, Settle
<1> QED  BY <1>1, <1>2, <1>3, <1>4, <1>5, <1>6, <1>7 DEF Proceed

LEMMA TypeNext == TypeInv /\ [Next]_vars => TypeInv'
<1> SUFFICES ASSUME TypeInv, [Next]_vars PROVE TypeInv'
  OBVIOUS
<1>1. CASE \E t \in Task : Begin(t) \/ Proceed(t)
  BY <1>1, BeginType, ProceedType
<1>2. CASE ClearState
  BY <1>2, DefaultType DEF ClearState, TypeInv, TypeOK, StepOfCall
<1>3. CASE UNCHANGED vars
  BY <1>3 DEF vars, TypeInv, TypeOK, StepOfCall
<1> QED  BY <1>1, <1>2, <1>3 DEF Next

LEMMA TypeInvHolds == Spec => []TypeInv
BY TypeInit, TypeNext, PTL DEF Spec

\* The variables of the store have their types, whatever updates overlap.
THEOREM TypeCorrect == Spec => []TypeOK
<1>1. TypeInv => TypeOK
  BY DEF TypeInv
<1> QED  BY <1>1, TypeInvHolds, PTL

-----------------------------------------------------------------------------

\* No two updates are under way
OneUpdate == \A t, u \in Task : Updating(t) /\ Updating(u) => t = u

\* An update about to save has the stored state with its change
CopyCurrent == \A t \in Task : step[t] = "save" => copy[t] = Changed(call[t], Stored)

\* What an update that has saved made of its item
Outcome(t) == IF call[t].kind = "delete" THEN Stored[call[t].item] = 0
                                         ELSE Stored[call[t].item] > 0

\* It lasts until the update is settled, and is what its payload says
OutcomeStays == \A t \in Task : Updating(t) =>
                  /\ step[t] \in {"reload", "settle"} => Outcome(t)
                  /\ step[t] = "settle" => copy[t] = Stored

\* An item that an update is about to change does not count as saved
SavedRight == /\ SavedStay
              /\ \A t \in Task : step[t] \in {"load", "save"} => call[t].item \notin saved

IInv == TypeInv /\ OneUpdate /\ CopyCurrent /\ OutcomeStays /\ SavedRight

LEMMA InvInit == Init => IInv
BY TypeInit
DEF Init, IInv, OneUpdate, CopyCurrent, OutcomeStays, SavedRight, Updating,
    SavedStay

\* A load begins: no update is concerned
LEMMA LoadInv ==
  ASSUME IInv, NEW t \in Task, NEW slice \in Slice, DispatchLoad(t, slice), TypeInv'
  PROVE  IInv'
<1> DEFINE c == [kind |-> "load", slice |-> slice]
<1>1. c.kind = "load"
  OBVIOUS
<1> HIDE DEF c
<1>2. /\ step[t] = "idle" /\ step' = [step EXCEPT ![t] = "reload"]
      /\ call' = [call EXCEPT ![t] = c]
      /\ UNCHANGED <<snap, copy, shown, saved>>
  BY DEF DispatchLoad, Dispatch, c
<1>3. Stored' = Stored
  BY <1>2 DEF Stored
<1>4. \A u \in Task : u # t => step'[u] = step[u] /\ call'[u] = call[u]
  BY <1>2 DEF IInv, TypeInv, TypeOK
<1>5. step'[t] = "reload" /\ call'[t] = c
  BY <1>2 DEF IInv, TypeInv, TypeOK
<1> QED
  BY <1>1, <1>2, <1>3, <1>4, <1>5
  DEF IInv, OneUpdate, CopyCurrent, OutcomeStays, Outcome, SavedRight, Updating,
      SavedStay

\* An update begins when none is under way
LEMMA UpdateInv ==
  ASSUME IInv, NEW t \in Task, NEW kind \in {"save", "delete"}, NEW slice \in Slice,
         NEW x \in Item, DispatchUpdate(t, kind, slice, x), ~ Overlap, TypeInv'
  PROVE  IInv'
<1> DEFINE c == [kind |-> kind, item |-> x]
<1>1. c.kind \notin {"load", "import"} /\ c.item = x
  OBVIOUS
<1> HIDE DEF c
<1>2. /\ step[t] = "idle" /\ step' = [step EXCEPT ![t] = "load"]
      /\ call' = [call EXCEPT ![t] = c]
      /\ UNCHANGED <<snap, copy, shown>> /\ saved' = saved \ {x}
      /\ \A u \in Task : ~ Updating(u)
  BY DEF DispatchUpdate, Dispatch, MayUpdate, c
<1>3. Stored' = Stored
  BY <1>2 DEF Stored
<1>4. \A u \in Task : u # t => step'[u] = step[u] /\ call'[u] = call[u]
  BY <1>2 DEF IInv, TypeInv, TypeOK
<1>5. step'[t] = "load" /\ call'[t] = c
  BY <1>2 DEF IInv, TypeInv, TypeOK
<1>6. x \notin saved' /\ saved' \subseteq saved /\ saved \subseteq Item
  BY <1>2 DEF IInv, TypeInv, TypeOK
<1>7. \A u \in Task : u # t => ~ Updating(u)'
  BY <1>2, <1>4 DEF Updating
<1>8. OneUpdate' /\ OutcomeStays'
  BY <1>5, <1>7 DEF OneUpdate, OutcomeStays
<1>9. CopyCurrent'
  BY <1>1, <1>2, <1>3, <1>4, <1>5 DEF IInv, CopyCurrent
<1>10. SavedStay'
  BY <1>3, <1>6 DEF IInv, SavedRight, SavedStay
<1>11. \A u \in Task : u # t => step[u] \notin {"load", "save"}
  BY <1>2 DEF IInv, TypeInv, StepOfCall, Updating
<1>12. SavedRight'
  BY <1>1, <1>4, <1>5, <1>6, <1>10, <1>11 DEF SavedRight
<1> QED  BY <1>8, <1>9, <1>12 DEF IInv

\* An import begins by looking
LEMMA ImportInv ==
  ASSUME IInv, NEW t \in Task, NEW x \in Item, ImportKeyStore(t, x), ~ Overlap, TypeInv'
  PROVE  IInv'
<1> DEFINE c == [kind |-> "import", item |-> x]
<1>1. c.kind = "import"
  OBVIOUS
<1> HIDE DEF c
<1>2. /\ step[t] = "idle" /\ step' = [step EXCEPT ![t] = "find"]
      /\ call' = [call EXCEPT ![t] = c]
      /\ UNCHANGED <<snap, copy, shown, saved>>
      /\ \A u \in Task : ~ Updating(u)
  BY DEF ImportKeyStore, Dispatch, MayUpdate, c
<1>3. Stored' = Stored
  BY <1>2 DEF Stored
<1>4. \A u \in Task : u # t => step'[u] = step[u] /\ call'[u] = call[u]
  BY <1>2 DEF IInv, TypeInv, TypeOK
<1>5. step'[t] = "find" /\ call'[t] = c
  BY <1>2 DEF IInv, TypeInv, TypeOK
<1> QED
  BY <1>1, <1>2, <1>3, <1>4, <1>5
  DEF IInv, OneUpdate, CopyCurrent, OutcomeStays, Outcome, SavedRight, Updating,
      SavedStay

\* The steps of a thunk under way: an update that
\* is under way stays the only one, and stays right
LEMMA ProceedInv ==
  ASSUME IInv, NEW t \in Task, Proceed(t), TypeInv'
  PROVE  IInv'
<1> USE DEF IInv, TypeInv, TypeOK, StepOfCall
<1>1. /\ \A u \in Task : u # t => /\ step'[u] = step[u]
                                 /\ call'[u] = call[u]
                                 /\ copy'[u] = copy[u]
      /\ step'[t] # "idle" => call'[t] = call[t]
      /\ step[t] # "idle"
  BY DEF Proceed, KeyShareExists, KeyShareMissing, LoadStateData, SaveStateData,
         Reload, Fulfilled, Rejected, Settle
<1>2. \A u \in Task : Updating(u)' => Updating(u)
  BY <1>1 DEF Updating
<1>3. OneUpdate'
  BY <1>2 DEF OneUpdate
<1>4. \A u \in Task : step[u] \in {"load", "save"} => Updating(u)
  BY DEF Updating
<1>5. CASE UNCHANGED <<snap, saved>> /\ step'[t] = "idle"
  <2>1. Stored' = Stored
    BY <1>5 DEF Stored
  <2>2. CopyCurrent'
    <3> USE DEF CopyCurrent
    <3> TAKE u \in Task
    <3>1. CASE u = t
      BY <1>5, <3>1
    <3>2. CASE u # t
      BY <1>1, <2>1, <3>2 DEF CopyCurrent, Changed
    <3> QED  BY <3>1, <3>2
  <2>3. OutcomeStays'
    BY <1>1, <1>5, <2>1 DEF OutcomeStays, Outcome, Updating
  <2>4. SavedRight'
    <3>1. SavedStay'
      BY <1>5, <2>1 DEF SavedRight, SavedStay
    <3> QED  BY <1>1, <1>5, <3>1 DEF SavedRight
  <2> QED  BY <1>3, <2>2, <2>3, <2>4
<1>6. CASE KeyShareMissing(t)
  <2>1. Stored' = Stored
    BY <1>6 DEF KeyShareMissing, Stored
  <2>2. /\ call[t].kind = "import" /\ call[t].item \in Item /\ Stored[call[t].item] = 0
        /\ step'[t] = "load" /\ saved' = saved \ {call[t].item}
        /\ UNCHANGED <<call, copy>> /\ Updating(t)
    BY <1>6, CallParts DEF KeyShareMissing, Updating
  <2>3. CopyCurrent' /\ OutcomeStays'
    BY <1>1, <2>1, <2>2 DEF CopyCurrent, OutcomeStays, Outcome, Updating
  <2>4. SavedStay'
    BY <2>1, <2>2 DEF SavedRight, SavedStay
  <2>5. \A u \in Task : u # t => step[u] \notin {"load", "save"}
    BY <1>4, <2>2 DEF OneUpdate
  <2>6. SavedRight'
    BY <1>1, <2>2, <2>4, <2>5 DEF SavedRight
  <2> QED  BY <1>3, <2>3, <2>6
<1>7. CASE LoadStateData(t)
  <2>1. Stored' = Stored
    BY <1>7 DEF LoadStateData, Stored
  <2>2. /\ step[t] = "load" /\ step'[t] = "save" /\ UNCHANGED <<call, saved>>
        /\ copy'[t] = Changed(call[t], Stored)
    BY <1>7 DEF LoadStateData
  <2>3. Changed(call[t], Stored)' = Changed(call[t], Stored)
    BY <2>1, <2>2 DEF Changed
  <2>4. \A u \in Task : Changed(call[u], Stored)' = Changed(call[u], Stored)
    BY <2>1, <2>2 DEF Changed
  <2>5. CopyCurrent' /\ OutcomeStays'
    <3>1. CopyCurrent'
      BY <1>1, <2>1, <2>2, <2>4 DEF CopyCurrent
    <3>2. OutcomeStays'
      BY <1>1, <2>1, <2>2, <2>4 DEF OutcomeStays, Outcome, Updating
    <3> QED  BY <3>1, <3>2
  <2>6. SavedStay'
    BY <2>1, <2>2 DEF SavedRight, SavedStay
  <2>7. SavedRight'
    BY <1>1, <2>2, <2>6 DEF SavedRight
  <2> QED  BY <1>3, <2>5, <2>7
<1>8. CASE SaveStateData(t)
  <2> DEFINE x == call[t].item
  <2>1. /\ step[t] = "save" /\ step'[t] = "reload" /\ UNCHANGED <<call, saved>>
        /\ snap' = Changed(call[t], Stored)
    BY <1>8 DEF SaveStateData, CopyCurrent
  <2>2. call[t].kind # "load" /\ x \in Item /\ Stored \in [Item -> Nat]
    BY <2>1, CallParts, StoredType
  <2>3. Stored' = Changed(call[t], Stored)
    <3>1. Changed(call[t], Stored) \in [Item -> Nat]
      BY <2>2, ChangedType
    <3> QED  BY <2>1, <3>1, NullAssumption DEF Stored
  <2>4. /\ \A y \in Item \ {x} : Stored'[y] = Stored[y]
        /\ IF call[t].kind = "delete" THEN Stored'[x] = 0 ELSE Stored'[x] > 0
    BY <2>2, <2>3 DEF Changed
  <2>5. \A u \in Task : u # t => ~ Updating(u)
    BY <1>4, <2>1 DEF OneUpdate
  <2>6. CopyCurrent'
    BY <1>1, <1>4, <2>1, <2>5 DEF CopyCurrent
  <2>7. Outcome(t)'
    BY <2>1, <2>4 DEF Outcome
  <2>8. OutcomeStays'
    BY <1>2, <2>1, <2>5, <2>7 DEF OutcomeStays
  <2>9. x \notin saved
    BY <2>1 DEF SavedRight
  <2>10. SavedStay'
    BY <2>1, <2>4, <2>9 DEF SavedRight, SavedStay
  <2> QED  BY <1>1, <1>3, <2>1, <2>6, <2>8, <2>10 DEF SavedRight
<1>9. CASE Reload(t)
  <2>1. Stored' = Stored
    BY <1>9 DEF Reload, Stored
  <2> QED
    BY <1>1, <1>3, <1>9, <2>1
    DEF Reload, CopyCurrent, Changed, OutcomeStays, Outcome, SavedRight, Updating,
        SavedStay
<1>10. CASE Fulfilled(t) /\ call[t].kind # "load"
  <2>1. Stored' = Stored
    BY <1>10 DEF Fulfilled, Settle, Stored
  <2>2. /\ step[t] = "settle" /\ step'[t] = "idle" /\ call[t].item \in Item
        /\ saved' = IF call[t].kind = "delete" THEN saved \ {call[t].item}
                                               ELSE saved \union {call[t].item}
    BY <1>10, CallParts DEF Fulfilled, Settle
  <2>3. Outcome(t) /\ Updating(t)
    BY <1>10, <2>2 DEF OutcomeStays, Updating
  <2>4. \A u \in Task : u # t => ~ Updating(u)
    BY <2>3 DEF OneUpdate
  <2>5. CopyCurrent' /\ OutcomeStays'
    BY <1>1, <1>2, <1>4, <2>2, <2>4 DEF CopyCurrent, OutcomeStays, Updating
  <2>6. SavedStay'
    BY <1>10, <2>1, <2>2, <2>3 DEF Outcome, SavedRight, SavedStay
  <2> QED  BY <1>1, <1>3, <1>4, <2>2, <2>4, <2>5, <2>6 DEF SavedRight
<1> QED
  BY <1>5, <1>6, <1>7, <1>8, <1>9, <1>10
  DEF Proceed, KeyShareExists, Fulfilled, Rejected, Settle

LEMMA ClearInv ==
  ASSUME IInv, ClearState, ~ Overlap, TypeInv'
  PROVE  IInv'
<1>1. /\ snap' = Default /\ saved' = {}
      /\ UNCHANGED <<step, call, copy, shown>>
      /\ \A u \in Task : ~ Updating(u)
  BY DEF ClearState, MayUpdate
<1>2. \A x \in Item : Stored'[x] = 0
  BY <1>1 DEF Stored, Default
<1>3. \A u \in Task : step[u] \notin {"load", "save"}
  BY <1>1 DEF IInv, TypeInv, StepOfCall, Updating
<1>4. OneUpdate' /\ OutcomeStays' /\ CopyCurrent'
  BY <1>1, <1>3 DEF OneUpdate, OutcomeStays, CopyCurrent, Updating
<1> QED
  BY <1>1, <1>2, <1>3, <1>4 DEF IInv, SavedRight, SavedStay

LEMMA InvNext == ASSUME ~ Overlap PROVE IInv /\ [Next]_vars => IInv'
<1> SUFFICES ASSUME IInv, [Next]_vars PROVE IInv'
  OBVIOUS
<1>1. TypeInv'
  BY TypeNext DEF IInv
<1>2. ASSUME NEW t \in Task, Begin(t) PROVE IInv'
  BY <1>1, <1>2, LoadInv, UpdateInv, ImportInv
  DEF Begin, LoadKeys, LoadMessageProofs, LoadTransactionReceipts, SaveKey,
      DeleteKey, SaveMessageProof, DeleteMessageProof, SaveTransactionReceipt,
      DeleteTransactionReceipt, Slice
<1>3. ASSUME NEW t \in Task, Proceed(t) PROVE IInv'
  BY <1>1, <1>3, ProceedInv
<1>4. CASE ClearState
  BY <1>1, <1>4, ClearInv
<1>5. CASE UNCHANGED vars
  BY <1>5
  DEF vars, IInv, TypeInv, TypeOK, StepOfCall, OneUpdate, CopyCurrent, OutcomeStays,
      Outcome, Changed, SavedRight, Updating, SavedStay, Stored
<1> QED  BY <1>2, <1>3, <1>4, <1>5 DEF Next

LEMMA IInvHolds == ASSUME ~ Overlap PROVE Spec => []IInv
BY InvInit, InvNext, PTL DEF Spec

\* One update at a time: what was fulfilled as saved stays stored.
THEOREM SavedStayHolds == ASSUME ~ Overlap PROVE Spec => []SavedStay
<1>1. IInv => SavedStay
  BY DEF IInv, SavedRight
<1> QED  BY <1>1, IInvHolds, PTL

\* One update at a time: a fulfilled update is shown with its outcome.
THEOREM ReadYourWritesHolds == ASSUME ~ Overlap PROVE Spec => ReadYourWrites
<1>1. ASSUME IInv, NEW t \in Task, Fulfilled(t), call[t].kind # "load"
      PROVE  IF call[t].kind = "delete"
             THEN shown'[PageOf[t]][call[t].item] = 0
             ELSE shown'[PageOf[t]][call[t].item] > 0
  <2>1. call[t].item \in Item /\ PageOf[t] \in Page /\ shown \in [Page -> [Item -> Nat]]
    BY <1>1, CallParts, PageAssumption DEF IInv, TypeInv, TypeOK
  <2>2. shown'[PageOf[t]][call[t].item] = copy[t][call[t].item]
    BY <1>1, <2>1 DEF Fulfilled, Target
  <2>3. Outcome(t) /\ copy[t] = Stored
    BY <1>1 DEF Fulfilled, IInv, OutcomeStays, Updating
  <2> QED  BY <2>2, <2>3 DEF Outcome
<1>2. IInv /\ [Next]_vars =>
        [\A t \in Task :
           (Fulfilled(t) /\ call[t].kind # "load")
             => LET entries == shown'[PageOf[t]][call[t].item] IN
                IF call[t].kind = "delete" THEN entries = 0 ELSE entries > 0]_vars
  BY <1>1
<1> QED  BY <1>2, IInvHolds, PTL DEF Spec, ReadYourWrites

-----------------------------------------------------------------------------

\* A save of the whole state is an update of one item
LEMMA SaveIsAtomic ==
  ASSUME IInv, NEW t \in Task, SaveStateData(t)
  PROVE  Atomic!Next
<1> DEFINE x == call[t].item
<1>1. /\ snap' = Changed(call[t], Stored)
      /\ call[t].kind # "load" /\ x \in Item
      /\ Changed(call[t], Stored) \in [Item -> Nat]
  BY CallParts, StoredType, ChangedType
  DEF SaveStateData, IInv, TypeInv, TypeOK, StepOfCall, CopyCurrent
<1>2. Stored' = Changed(call[t], Stored)
  BY <1>1, NullAssumption DEF Stored
<1>3. Atomic!Put(x) \/ Atomic!Remove(x)
  BY <1>2 DEF Changed, Atomic!Put, Atomic!Remove
<1> QED  BY <1>1, <1>3 DEF Atomic!Next

\* One update at a time: loading everything and saving everything implements
\* the store whose updates are atomic.
THEOREM AtomicImplemented == ASSUME ~ Overlap PROVE Spec => AtomicSpec
<1>1. Init => Atomic!Init
  BY DEF Init, Atomic!Init, Atomic!Default, Stored, Default
<1>2. ASSUME IInv, [Next]_vars PROVE [Atomic!Next]_Stored
  <2>1. CASE UNCHANGED snap
    BY <2>1 DEF Stored
  <2>2. ASSUME NEW t \in Task, SaveStateData(t) PROVE Atomic!Next
    BY <1>2, <2>2, SaveIsAtomic
  <2>3. CASE ClearState
    <3>1. Stored' = Default
      BY <2>3, NullAssumption, DefaultType DEF ClearState, Stored
    <3> QED  BY <3>1 DEF Atomic!Next, Atomic!Clear, Atomic!Default, Default
  <2>4. ASSUME NEW t \in Task, Begin(t) PROVE UNCHANGED snap
    BY <2>4
    DEF Begin, LoadKeys, LoadMessageProofs, LoadTransactionReceipts, SaveKey, DeleteKey,
        ImportKeyStore, SaveMessageProof, DeleteMessageProof, SaveTransactionReceipt,
        DeleteTransactionReceipt, DispatchLoad, DispatchUpdate, Dispatch
  <2>5. ASSUME NEW t \in Task, Proceed(t) PROVE UNCHANGED snap \/ Atomic!Next
    BY <2>2, <2>5
    DEF Proceed, KeyShareExists, KeyShareMissing, LoadStateData, Reload, Fulfilled,
        Rejected, Settle
  <2> QED
    BY <1>2, <2>1, <2>3, <2>4, <2>5 DEF Next, vars
<1> QED  BY <1>1, <1>2, IInvHolds, PTL DEF Spec, AtomicSpec, Atomic!Spec

=============================================================================
