----------------------------- MODULE SnapStore -----------------------------
(***************************************************************************)
(* The persisted state of the dapp: the snap that holds it (snap/dapp/     *)
(* snap.js), and the thunks that update it by loading all of it, changing  *)
(* their copy and saving all of it (snap/dapp/src/store).                  *)
(*                                                                         *)
(* The snap is asked twice or more in one thunk, and answers one request   *)
(* at a time: a request is a step here, taken when the snap answers it,    *)
(* with what the thunk does with the answer before its next request.       *)
(* Requests of thunks of the same page or of several pages interleave; no  *)
(* code prevents it.  Overlap says whether users make that happen.         *)
(*                                                                         *)
(* A page that is closed with a request under way counts as rejected when  *)
(* the request gets no answer; a request the snap still answers is a step  *)
(* as before.  The thunk saveState, which overwrites everything with what  *)
(* its caller passes, has no caller.                                       *)
(***************************************************************************)
EXTENDS Integers

CONSTANTS Task,         \* the thunks that can be under way at a time
          Page,         \* the pages (tabs) with the dapp
          PageOf,       \* [Task -> the page that dispatched it]
          Item,         \* key shares by address and number, message proofs by
                        \*  address and digest, receipts by address and hash
          SliceOf,      \* [Item -> the slice it belongs to]
          Kinds,        \* the kinds of update users make
          Overlap,      \* whether they start one while another is under way
          MaxEntries,   \* bound: [Item -> no save of one stored this many times]
          Null          \* the state of a snap that never had one

Slice == {"keys", "proofs", "receipts"}

ASSUME PageAssumption == PageOf \in [Task -> Page]
ASSUME SliceAssumption == SliceOf \in [Item -> Slice]
ASSUME OverlapAssumption == Overlap \in BOOLEAN
ASSUME BoundAssumption == MaxEntries \in [Item -> Nat]
ASSUME NullAssumption == Null \notin [Item -> Nat]

VARIABLES snap,    \* what snap_manageState holds
          step,    \* [Task -> the request a thunk awaits the answer of]
          call,    \* [Task -> what the thunk was dispatched with]
          copy,    \* [Task -> the appState in its hands]
          shown,   \* [Page -> the entries its redux slices hold]
          saved    \* history: items whose save was fulfilled, and no later
                   \*  update of them was begun

vars == <<snap, step, call, copy, shown, saved>>

-----------------------------------------------------------------------------

Updates == [kind : {"save", "delete", "import"}, item : Item]
Loads == [kind : {"load"}, slice : Slice]

Steps == {"idle", "find", "load", "save", "reload", "settle"}

\* getDefaultAppState
Default == [x \in Item |-> 0]

\* loadStateData
Stored == IF snap = Null THEN Default ELSE snap

\* Faulty variant: a delete takes one entry out of the array
ChangedByOne(c, state) == IF c.kind = "delete"
                          THEN [state EXCEPT ![c.item] = @ - 1]
                          ELSE [state EXCEPT ![c.item] = @ + 1]

\* Faulty variant: the new state is built from defaults, not from the loaded one
ChangedAlone(c, state) == IF c.kind = "delete"
                          THEN [state EXCEPT ![c.item] = 0]
                          ELSE [Default EXCEPT ![c.item] = state[c.item] + 1]

\* The appState an update saves, made of the one it loaded: push or filter
Changed(c, state) == IF c.kind = "delete"
                     THEN [state EXCEPT ![c.item] = 0]
                     ELSE [state EXCEPT ![c.item] = @ + 1]

\* The slice a thunk's reducer assigns
Target(c) == IF c.kind = "load" THEN c.slice ELSE SliceOf[c.item]

\* In place of the call of a thunk that is not under way
NoCall == [kind |-> "load", slice |-> "keys"]

Updating(t) == step[t] # "idle" /\ call[t].kind # "load"

\* The users' part: one update at a time, unless they overlap
MayUpdate(kind) == /\ kind \in Kinds
                   /\ Overlap \/ \A t \in Task : ~ Updating(t)

-----------------------------------------------------------------------------

Init == /\ snap = Null
        /\ step = [t \in Task |-> "idle"]
        /\ call = [t \in Task |-> NoCall]
        /\ copy = [t \in Task |-> Default]
        /\ shown = [p \in Page |-> Default]
        /\ saved = {}

\* A thunk is dispatched and sends its first request
Dispatch(t, c, first) == /\ step[t] = "idle"
                         /\ step' = [step EXCEPT ![t] = first]
                         /\ call' = [call EXCEPT ![t] = c]
                         /\ UNCHANGED <<snap, copy, shown>>

\* A thunk is settled: its promise, its copy and its arguments are dropped
Settle(t) == /\ step' = [step EXCEPT ![t] = "idle"]
             /\ call' = [call EXCEPT ![t] = NoCall]
             /\ copy' = [copy EXCEPT ![t] = Default]
             /\ UNCHANGED snap

\* A thunk that saves or deletes an item
DispatchUpdate(t, kind, slice, x) ==
  /\ MayUpdate(kind)
  /\ SliceOf[x] = slice
  /\ Dispatch(t, [kind |-> kind, item |-> x], "load")
  /\ saved' = saved \ {x}

DispatchLoad(t, slice) == /\ Dispatch(t, [kind |-> "load", slice |-> slice], "reload")
                          /\ UNCHANGED saved

SaveKey(t, x) == Stored[x] < MaxEntries[x] /\ DispatchUpdate(t, "save", "keys", x)
DeleteKey(t, x) == DispatchUpdate(t, "delete", "keys", x)
LoadKeys(t) == DispatchLoad(t, "keys")

SaveMessageProof(t, x) == Stored[x] < MaxEntries[x] /\ DispatchUpdate(t, "save", "proofs", x)
DeleteMessageProof(t, x) == DispatchUpdate(t, "delete", "proofs", x)
LoadMessageProofs(t) == DispatchLoad(t, "proofs")

SaveTransactionReceipt(t, x) ==
  Stored[x] < MaxEntries[x] /\ DispatchUpdate(t, "save", "receipts", x)
DeleteTransactionReceipt(t, x) == DispatchUpdate(t, "delete", "receipts", x)
LoadTransactionReceipts(t) == DispatchLoad(t, "receipts")

\* doImportKeyStore looks for the key share before it dispatches saveKey
ImportKeyStore(t, x) == /\ MayUpdate("import")
                        /\ SliceOf[x] = "keys"
                        /\ Dispatch(t, [kind |-> "import", item |-> x], "find")
                        /\ UNCHANGED saved

\* clearState has one request and a reducer for none of its outcomes
ClearState == /\ MayUpdate("clear")
              /\ snap' = Default
              /\ saved' = {}
              /\ UNCHANGED <<step, call, copy, shown>>

\* findKeyShare found it: "Key share already exists"
KeyShareExists(t) == /\ step[t] = "find"
                     /\ Stored[call[t].item] > 0
                     /\ Settle(t)
                     /\ UNCHANGED <<shown, saved>>

\* It did not: saveKey is dispatched
KeyShareMissing(t) == /\ step[t] = "find"
                      /\ Stored[call[t].item] = 0
                      /\ step' = [step EXCEPT ![t] = "load"]
                      /\ saved' = saved \ {call[t].item}
                      /\ UNCHANGED <<snap, call, copy, shown>>

\* const appState = await loadStateData(), and the change
LoadStateData(t) == /\ step[t] = "load"
                    /\ step' = [step EXCEPT ![t] = "save"]
                    /\ copy' = [copy EXCEPT ![t] = Changed(call[t], Stored)]
                    /\ UNCHANGED <<snap, call, shown, saved>>

\* await saveStateData(appState)
SaveStateData(t) == /\ step[t] = "save"
                    /\ snap' = copy[t]
                    /\ step' = [step EXCEPT ![t] = "reload"]
                    /\ copy' = [copy EXCEPT ![t] = Default]
                    /\ UNCHANGED <<call, shown, saved>>

\* Faulty variant: the thunk returns nothing it loaded
NotReloaded(t) == /\ step[t] = "reload"
                  /\ step' = [step EXCEPT ![t] = "settle"]
                  /\ UNCHANGED <<snap, call, copy, shown, saved>>

\* loadKeyData, loadProofsData, loadReceiptsData: the payload
Reload(t) == /\ step[t] = "reload"
             /\ step' = [step EXCEPT ![t] = "settle"]
             /\ copy' = [copy EXCEPT ![t] = Stored]
             /\ UNCHANGED <<snap, call, shown, saved>>

\* The reducer of the fulfilled action
Fulfilled(t) ==
  /\ step[t] = "settle"
  /\ Settle(t)
  /\ shown' = [shown EXCEPT ![PageOf[t]] =
                 [x \in Item |-> IF SliceOf[x] = Target(call[t])
                                 THEN copy[t][x] ELSE @[x]]]
  /\ saved' = CASE call[t].kind = "load" -> saved
                [] call[t].kind = "delete" -> saved \ {call[t].item}
                [] OTHER -> saved \union {call[t].item}

\* A request fails: the thunk is rejected, and no reducer handles that
Rejected(t) == /\ step[t] \in {"find", "load", "save", "reload"}
               /\ Settle(t)
               /\ UNCHANGED <<shown, saved>>

Begin(t) == \/ LoadKeys(t) \/ LoadMessageProofs(t) \/ LoadTransactionReceipts(t)
            \/ \E x \in Item : \/ SaveKey(t, x)
                               \/ DeleteKey(t, x)
                               \/ ImportKeyStore(t, x)
                               \/ SaveMessageProof(t, x)
                               \/ DeleteMessageProof(t, x)
                               \/ SaveTransactionReceipt(t, x)
                               \/ DeleteTransactionReceipt(t, x)

Proceed(t) == \/ KeyShareExists(t) \/ KeyShareMissing(t)
              \/ LoadStateData(t) \/ SaveStateData(t) \/ Reload(t)
              \/ Fulfilled(t) \/ Rejected(t)

Next == \/ \E t \in Task : Begin(t) \/ Proceed(t)
        \/ ClearState

Spec == Init /\ [][Next]_vars

-----------------------------------------------------------------------------

\* Every variable has its type; an update under way names an item, and only a
\* key share is imported.
TypeOK == /\ snap \in [Item -> Nat] \union {Null}
          /\ step \in [Task -> Steps]
          /\ call \in [Task -> Updates \union Loads]
          /\ copy \in [Task -> [Item -> Nat]]
          /\ shown \in [Page -> [Item -> Nat]]
          /\ saved \subseteq Item

\* An item whose save was fulfilled is stored until somebody asks for its
\* removal (the race that store/keys.ts describes at KeyState.keyShare).
SavedStay == \A x \in saved : Stored[x] > 0

\* A page whose update is fulfilled shows the outcome of it, although the list
\* it shows was loaded in another request than the one that saved.
ReadYourWrites == [][\A t \in Task :
                       (Fulfilled(t) /\ call[t].kind # "load")
                         => LET entries == shown'[PageOf[t]][call[t].item] IN
                            IF call[t].kind = "delete" THEN entries = 0
                                                       ELSE entries > 0]_vars

Atomic == INSTANCE AtomicStore WITH contents <- Stored

\* Loading and saving all of the state is as good as updating it in one step,
\* with loads alongside and rejections on the way.
AtomicSpec == Atomic!Spec

=============================================================================
