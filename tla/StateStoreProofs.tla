-------------------------- MODULE StateStoreProofs --------------------------
(***************************************************************************)
(* Proofs about StateStore for every set of clients, keys and bounds.      *)
(***************************************************************************)
EXTENDS StateStore, TLAPS

\* What a call in progress may be at each step of the methods.
CallsWellFormed ==
  \A c \in Clients :
    /\ pc[c] \in {"locked", "decide"} =>
         /\ call[c].key \in ValidKeys
         /\ call[c].op \in Abstract!WriteOps
    /\ pc[c] = "decide" => call[c].op \in {"put", "cas"}

\* While a CompareAndSwap is in progress its base is the version its caller was
\* last told: only the caller's own calls change that.
BaseIsTold ==
  \A c \in Clients :
    pc[c] \in {"enter", "locked", "decide"} /\ call[c].op = "cas" =>
      call[c].base = view[c][call[c].key].version

\* No client was told of a Delete that has not happened.
EpochsBounded == \A c \in Clients, k \in Keys : viewEpoch[c][k] <= erasures[k]

IInv ==
  /\ TypeOK
  /\ CallsWellFormed
  /\ BaseIsTold
  /\ ReadStillCurrent
  /\ EpochsBounded
  /\ VersionsIdentifyWrites

-----------------------------------------------------------------------------
\* The absent entry is an entry.
LEMMA EntryFacts ==
  /\ NoEntry \in Entry
  /\ Abstract!NoCall \in Abstract!Call
  /\ \A e \in Entry : e.version \in Nat
BY KeysAssumption
DEF Entry, NoEntry, Abstract!Entry, Abstract!NoEntry, Abstract!NoCall,
    Abstract!Call, Abstract!ReadOps, Abstract!WriteOps

\* What a successful call leaves under its key, by operation.
LEMMA AfterFacts ==
  ASSUME NEW cl \in Abstract!Call, NEW e \in Entry
  PROVE  /\ Abstract!After(cl, e) \in Entry
         /\ cl.op \in {"put", "cas"} =>
              /\ Abstract!After(cl, e).version = e.version + 1
         /\ cl.op = "delete" => Abstract!After(cl, e) = NoEntry
         /\ cl.op \in Abstract!ReadOps => Abstract!After(cl, e) = e
BY EntryFacts
DEF Abstract!After, Abstract!Call, Entry, NoEntry, Abstract!Entry,
    Abstract!ReadOps, Abstract!WriteOps

\* What telling a client refreshes.
LEMMA RefreshFacts ==
  ASSUME NEW S, NEW known \in [Keys -> S], NEW es \in [Keys -> S],
         NEW cl \in Abstract!Call
  PROVE  /\ Abstract!Refresh(known, cl, es) \in [Keys -> S]
         /\ \A k \in Keys : Abstract!Refresh(known, cl, es)[k] \in {known[k], es[k]}
         /\ \A k \in Abstract!Told(cl) \cap Keys :
              Abstract!Refresh(known, cl, es)[k] = es[k]
         /\ \A k \in Keys \ Abstract!Told(cl) :
              Abstract!Refresh(known, cl, es)[k] = known[k]
BY DEF Abstract!Refresh

\* A store that was just opened satisfies the inductive invariant.
LEMMA InitIInv == Init => IInv
<1> SUFFICES ASSUME Init PROVE IInv
  OBVIOUS
<1> USE EntryFacts DEF Init
<1>1. TypeOK
  BY DEF TypeOK, Steps, Abstract!Status
<1>2. CallsWellFormed /\ BaseIsTold /\ ReadStillCurrent /\ EpochsBounded
  BY DEF CallsWellFormed, BaseIsTold, ReadStillCurrent, EpochsBounded
<1>3. VersionsIdentifyWrites
  BY DEF VersionsIdentifyWrites
<1> QED
  BY <1>1, <1>2, <1>3 DEF IInv

-----------------------------------------------------------------------------
(***************************************************************************)
(* The step of each action.  Most leave the store and what clients know    *)
(* alone; StoreQuiet collects what that preserves.                         *)
(***************************************************************************)
StoreQuiet == UNCHANGED <<disk, view, erasures, viewEpoch>>

\* A step that leaves the bucket and the answers alone keeps what clients know true.
LEMMA QuietKeepsKnowledge ==
  ASSUME IInv, StoreQuiet
  PROVE  EpochsBounded' /\ VersionsIdentifyWrites'
BY DEF IInv, StoreQuiet, EpochsBounded, VersionsIdentifyWrites

\* Calling the store touches neither the bucket nor the mutex.
LEMMA InvokeIInv ==
  ASSUME IInv, NEW c \in Clients, NEW k \in Keys,
         NEW op \in Abstract!ReadOps \cup Abstract!WriteOps, Invoke(c, op, k)
  PROVE  IInv'
<1> USE DEF IInv
<1>1. TypeOK'
  BY EntryFacts DEF TypeOK, Invoke, Steps, Abstract!Call
<1>2. CallsWellFormed' /\ ReadStillCurrent'
  BY DEF TypeOK, Invoke, CallsWellFormed, ReadStillCurrent
<1>3. BaseIsTold'
  BY DEF TypeOK, Invoke, BaseIsTold
<1>4. EpochsBounded' /\ VersionsIdentifyWrites'
  BY QuietKeepsKnowledge DEF Invoke, StoreQuiet
<1> QED
  BY <1>1, <1>2, <1>3, <1>4

\* An error return touches neither the bucket nor the mutex.
LEMMA FailIInv ==
  ASSUME IInv, NEW c \in Clients, NEW why \in Abstract!Failures, FailWith(c, why)
  PROVE  IInv'
<1> USE DEF IInv
<1>1. TypeOK'
  BY DEF TypeOK, FailWith, Steps, Abstract!Status, history
<1>2. CallsWellFormed' /\ ReadStillCurrent' /\ BaseIsTold'
  BY DEF TypeOK, FailWith, CallsWellFormed, ReadStillCurrent, BaseIsTold, history
<1>3. EpochsBounded' /\ VersionsIdentifyWrites'
  BY QuietKeepsKnowledge DEF FailWith, StoreQuiet, history
<1> QED
  BY <1>1, <1>2, <1>3

\* The mutex is taken by one client at a time.
LEMMA AcquireIInv ==
  ASSUME IInv, NEW c \in Clients, Acquire(c)
  PROVE  IInv'
<1> USE DEF IInv
<1>1. TypeOK'
  BY DEF TypeOK, Acquire, Steps, history
<1>2. CallsWellFormed' /\ BaseIsTold'
  BY DEF TypeOK, Acquire, CallsWellFormed, BaseIsTold, history
<1>3. ReadStillCurrent'
  BY NoClientIsNotAClient DEF TypeOK, Acquire, ReadStillCurrent, history
<1>4. EpochsBounded' /\ VersionsIdentifyWrites'
  BY QuietKeepsKnowledge DEF Acquire, StoreQuiet, history
<1> QED
  BY <1>1, <1>2, <1>3, <1>4

\* The locked read makes the entry read the stored one.
LEMMA ReadExistingIInv ==
  ASSUME IInv, NEW c \in Clients, ReadExisting(c)
  PROVE  IInv'
<1> USE DEF IInv
<1>1. TypeOK'
  BY DEF TypeOK, ReadExisting, Steps, history, Abstract!Call
<1>2. CallsWellFormed' /\ BaseIsTold'
  BY DEF TypeOK, ReadExisting, CallsWellFormed, BaseIsTold, history
<1>3. ReadStillCurrent'
  BY DEF TypeOK, ReadExisting, ReadStillCurrent, history
<1>4. EpochsBounded' /\ VersionsIdentifyWrites'
  BY QuietKeepsKnowledge DEF ReadExisting, StoreQuiet, history
<1> QED
  BY <1>1, <1>2, <1>3, <1>4

\* The deferred Unlock frees only the mutex of the client that returns.
LEMMA ReturnIInv ==
  ASSUME IInv, NEW c \in Clients, Return(c)
  PROVE  IInv'
<1> USE DEF IInv
<1>1. TypeOK'
  BY EntryFacts DEF TypeOK, Return, Steps, history, Abstract!Status
<1>2. CallsWellFormed' /\ BaseIsTold' /\ ReadStillCurrent'
  BY DEF TypeOK, Return, CallsWellFormed, BaseIsTold, ReadStillCurrent, history
<1>3. EpochsBounded' /\ VersionsIdentifyWrites'
  BY QuietKeepsKnowledge DEF Return, StoreQuiet, history
<1> QED
  BY <1>1, <1>2, <1>3

\* A crash frees the mutex and leaves nobody between a read and a write.
LEMMA CrashIInv ==
  ASSUME IInv, Crash
  PROVE  IInv'
<1> USE DEF IInv
<1>1. TypeOK'
  BY EntryFacts DEF TypeOK, Crash, Steps, Abstract!Status
<1>2. CallsWellFormed' /\ BaseIsTold' /\ ReadStillCurrent'
  BY DEF TypeOK, Crash, CallsWellFormed, BaseIsTold, ReadStillCurrent
<1>3. EpochsBounded' /\ VersionsIdentifyWrites'
  BY QuietKeepsKnowledge DEF Crash, StoreQuiet
<1> QED
  BY <1>1, <1>2, <1>3

\* The three steps that answer a client: what it knows afterwards is what the
\* store then holds, under the key its call is about.
LEMMA TellKeepsTypes ==
  ASSUME TypeOK, NEW c \in Clients, Tell(c),
         disk' \in [Keys -> Entry], erasures' \in [Keys -> Nat],
         UNCHANGED <<mu, call, existing, issued, crashes>>
  PROVE  TypeOK'
<1>1. view' \in [Clients -> [Keys -> Entry]]
  BY RefreshFacts DEF TypeOK, Tell
<1>2. viewEpoch' \in [Clients -> [Keys -> Nat]]
  BY RefreshFacts DEF TypeOK, Tell
<1> QED
  BY <1>1, <1>2 DEF TypeOK, Tell, Steps, Abstract!Status

\* Get and List tell a client what is stored and change nothing else.
LEMMA ReadUnlockedIInv ==
  ASSUME IInv, NEW c \in Clients, ReadUnlocked(c)
  PROVE  IInv'
<1> USE DEF IInv
<1>1. TypeOK'
  BY TellKeepsTypes DEF TypeOK, ReadUnlocked
<1>2. CallsWellFormed' /\ ReadStillCurrent'
  BY DEF TypeOK, ReadUnlocked, Tell, CallsWellFormed, ReadStillCurrent
<1>3. BaseIsTold'
  BY DEF TypeOK, ReadUnlocked, Tell, BaseIsTold
<1>4. ASSUME NEW d \in Clients, NEW k \in Keys
      PROVE  \/ view'[d][k] = view[d][k] /\ viewEpoch'[d][k] = viewEpoch[d][k]
             \/ view'[d][k] = disk[k] /\ viewEpoch'[d][k] = erasures[k]
  BY <1>4, RefreshFacts DEF TypeOK, ReadUnlocked, Tell, Abstract!Refresh
<1>5. EpochsBounded'
  <2> SUFFICES ASSUME NEW d \in Clients, NEW k \in Keys
               PROVE  viewEpoch'[d][k] <= erasures[k]
    BY DEF EpochsBounded, ReadUnlocked
  <2>1. viewEpoch[d][k] <= erasures[k] /\ erasures[k] \in Nat
    BY DEF EpochsBounded, TypeOK
  <2> QED
    BY <1>4, <2>1
<1>6. VersionsIdentifyWrites'
  BY <1>4, EntryFacts DEF TypeOK, VersionsIdentifyWrites, ReadUnlocked
<1> QED
  BY <1>1, <1>2, <1>3, <1>5, <1>6

\* A write of the mutex holder gives a fresh version to its key.
LEMMA CommitIInv ==
  ASSUME IInv, NEW c \in Clients, Commit(c)
  PROVE  IInv'
<1> DEFINE key == call[c].key
           new == Abstract!After(call[c], disk[key])
<1> USE DEF IInv
<1>1. /\ key \in Keys
      /\ existing[c] = disk[key] /\ disk[key] \in Entry
      /\ call[c].op \in {"put", "cas"} /\ call[c] \in Abstract!Call
      /\ mu = c
  BY KeysAssumption
  DEF Commit, TypeOK, CallsWellFormed, ReadStillCurrent, Abstract!Call
<1>2. disk' = [disk EXCEPT ![key] = new] /\ UNCHANGED erasures
  BY <1>1 DEF Commit
<1>3. new \in Entry /\ new.version = disk[key].version + 1
  BY <1>1, AfterFacts
<1>4. disk' \in [Keys -> Entry]
  BY <1>1, <1>2, <1>3 DEF TypeOK
<1>5. TypeOK'
  BY <1>4, <1>2, TellKeepsTypes DEF TypeOK, Commit
<1>6. CallsWellFormed' /\ BaseIsTold'
  BY DEF TypeOK, Commit, Tell, CallsWellFormed, BaseIsTold
<1>7. ReadStillCurrent'
  <2>1. \A d \in Clients \ {c} : pc'[d] = pc[d] /\ pc[d] \notin {"locked", "decide"}
    BY <1>1 DEF Commit, Tell, TypeOK, ReadStillCurrent
  <2>2. pc'[c] = "return"
    BY DEF Commit, Tell, TypeOK
  <2> QED
    BY <2>1, <2>2 DEF ReadStillCurrent
<1>8. ASSUME NEW d \in Clients, NEW k \in Keys
      PROVE  \/ view'[d][k] = view[d][k] /\ viewEpoch'[d][k] = viewEpoch[d][k]
             \/ view'[d][k] = disk'[k] /\ viewEpoch'[d][k] = erasures'[k]
  BY <1>8, <1>4, RefreshFacts DEF TypeOK, Commit, Tell, Abstract!Refresh
<1>9. EpochsBounded'
  <2> SUFFICES ASSUME NEW d \in Clients, NEW k \in Keys
               PROVE  viewEpoch'[d][k] <= erasures[k]
    BY <1>2 DEF EpochsBounded
  <2>1. viewEpoch[d][k] <= erasures[k] /\ erasures[k] \in Nat
    BY DEF EpochsBounded, TypeOK
  <2> QED
    BY <1>8, <1>2, <2>1
<1>10. VersionsIdentifyWrites'
  <2> SUFFICES ASSUME NEW d \in Clients, NEW k \in Keys,
                      viewEpoch'[d][k] = erasures'[k]
               PROVE  /\ view'[d][k].version <= disk'[k].version
                      /\ view'[d][k].version = disk'[k].version => view'[d][k] = disk'[k]
    BY DEF VersionsIdentifyWrites
  <2>1. disk'[k] \in Entry /\ disk'[k].version \in Nat
    BY <1>4, EntryFacts
  <2>2. CASE view'[d][k] = disk'[k]
    BY <2>1, <2>2
  <2>3. CASE view'[d][k] = view[d][k] /\ viewEpoch'[d][k] = viewEpoch[d][k]
    <3>1. /\ view[d][k].version <= disk[k].version
          /\ view[d][k].version = disk[k].version => view[d][k] = disk[k]
      BY <2>3, <1>2 DEF VersionsIdentifyWrites
    <3>2. view[d][k].version \in Nat /\ disk[k].version \in Nat
      BY EntryFacts DEF TypeOK
    <3>3. CASE k = key
      <4>1. disk'[k].version = disk[k].version + 1
        BY <1>1, <1>2, <1>3, <3>3 DEF TypeOK
      <4> QED
        BY <4>1, <3>1, <3>2, <2>3
    <3>4. CASE k # key
      <4>1. disk'[k] = disk[k]
        BY <1>1, <1>2, <3>4 DEF TypeOK
      <4> QED
        BY <4>1, <3>1, <2>3
    <3> QED
      BY <3>3, <3>4
  <2> QED
    BY <1>8, <2>2, <2>3
<1> QED
  BY <1>5, <1>6, <1>7, <1>9, <1>10

\* A Delete starts a new life of the key, which no earlier answer is about.
LEMMA CommitDeleteIInv ==
  ASSUME IInv, NEW c \in Clients, CommitDelete(c)
  PROVE  IInv'
<1> DEFINE key == call[c].key
<1> USE DEF IInv
<1>1. key \in Keys /\ mu = c
  BY KeysAssumption DEF CommitDelete, TypeOK, CallsWellFormed, ReadStillCurrent
<1>2. /\ disk' = [disk EXCEPT ![key] = NoEntry]
      /\ erasures' = [erasures EXCEPT ![key] = @ + 1]
  BY DEF CommitDelete
<1>3. disk' \in [Keys -> Entry] /\ erasures' \in [Keys -> Nat]
  BY <1>1, <1>2, EntryFacts DEF TypeOK
<1>4. TypeOK'
  BY <1>3, TellKeepsTypes DEF CommitDelete
<1>5. CallsWellFormed' /\ BaseIsTold'
  BY DEF TypeOK, CommitDelete, Tell, CallsWellFormed, BaseIsTold
<1>6. ReadStillCurrent'
  <2>1. \A d \in Clients \ {c} : pc'[d] = pc[d] /\ pc[d] \notin {"locked", "decide"}
    BY <1>1 DEF CommitDelete, Tell, TypeOK, ReadStillCurrent
  <2>2. pc'[c] = "return"
    BY DEF CommitDelete, Tell, TypeOK
  <2> QED
    BY <2>1, <2>2 DEF ReadStillCurrent
<1>7. ASSUME NEW d \in Clients, NEW k \in Keys
      PROVE  \/ view'[d][k] = view[d][k] /\ viewEpoch'[d][k] = viewEpoch[d][k]
             \/ view'[d][k] = disk'[k] /\ viewEpoch'[d][k] = erasures'[k]
  BY <1>7, <1>3, RefreshFacts DEF TypeOK, CommitDelete, Tell, Abstract!Refresh
<1>8. ASSUME NEW k \in Keys
      PROVE  /\ erasures[k] \in Nat
             /\ IF k = key THEN erasures'[k] = erasures[k] + 1
                ELSE erasures'[k] = erasures[k] /\ disk'[k] = disk[k]
  BY <1>1, <1>2, <1>8 DEF TypeOK
<1>9. EpochsBounded'
  <2> SUFFICES ASSUME NEW d \in Clients, NEW k \in Keys
               PROVE  viewEpoch'[d][k] <= erasures'[k]
    BY DEF EpochsBounded
  <2>1. viewEpoch[d][k] <= erasures[k] /\ viewEpoch[d][k] \in Nat
    BY DEF EpochsBounded, TypeOK
  <2> QED
    BY <1>7, <1>8, <2>1
<1>10. VersionsIdentifyWrites'
  <2> SUFFICES ASSUME NEW d \in Clients, NEW k \in Keys,
                      viewEpoch'[d][k] = erasures'[k]
               PROVE  /\ view'[d][k].version <= disk'[k].version
                      /\ view'[d][k].version = disk'[k].version => view'[d][k] = disk'[k]
    BY DEF VersionsIdentifyWrites
  <2>1. disk'[k].version \in Nat
    BY <1>3, EntryFacts
  <2>2. CASE view'[d][k] = disk'[k]
    BY <2>1, <2>2
  <2>3. CASE view'[d][k] = view[d][k] /\ viewEpoch'[d][k] = viewEpoch[d][k]
    <3>1. viewEpoch[d][k] <= erasures[k] /\ viewEpoch[d][k] \in Nat
      BY DEF EpochsBounded, TypeOK
    <3>2. erasures'[k] # erasures[k] + 1
      <4> SUFFICES ASSUME erasures'[k] = erasures[k] + 1 PROVE FALSE
        OBVIOUS
      <4>1. erasures[k] \in Nat /\ viewEpoch[d][k] = erasures[k] + 1
        BY <1>8, <2>3
      <4> QED
        BY <4>1, <3>1
    <3>3. erasures'[k] = erasures[k] /\ disk'[k] = disk[k]
      BY <1>8, <3>2
    <3> QED
      BY <2>3, <3>3 DEF VersionsIdentifyWrites
  <2> QED
    BY <1>7, <2>2, <2>3
<1> QED
  BY <1>4, <1>5, <1>6, <1>9, <1>10

\* A stuttering step keeps the inductive invariant.
LEMMA StutterIInv ==
  ASSUME IInv, UNCHANGED vars
  PROVE  IInv'
BY DEF IInv, vars, TypeOK, CallsWellFormed, BaseIsTold, ReadStillCurrent,
       EpochsBounded, VersionsIdentifyWrites

\* Every step keeps the inductive invariant: one case per action.
LEMMA NextIInv == IInv /\ [Next]_vars => IInv'
<1> SUFFICES ASSUME IInv, [Next]_vars PROVE IInv'
  OBVIOUS
<1>1. ASSUME NEW c \in Clients, NEW k \in Keys,
             NEW op \in Abstract!ReadOps \cup Abstract!WriteOps, Invoke(c, op, k)
      PROVE  IInv'
  BY <1>1, InvokeIInv
<1>2. ASSUME NEW c \in Clients, Proceed(c)
      PROVE  IInv'
  <2>1. CASE RejectScope(c)
    BY <2>1, FailIInv DEF RejectScope, Abstract!Failures
  <2>2. CASE ReadUnlocked(c)
    BY <2>2, ReadUnlockedIInv
  <2>3. CASE Acquire(c)
    BY <2>3, AcquireIInv
  <2>4. CASE ReadExisting(c)
    BY <2>4, ReadExistingIInv
  <2>5. CASE Conflict(c)
    BY <2>5, FailIInv DEF Conflict, Abstract!Failures
  <2>6. CASE Commit(c)
    BY <2>6, CommitIInv
  <2>7. CASE CommitDelete(c)
    BY <2>7, CommitDeleteIInv
  <2>8. CASE TransactionFails(c)
    BY <2>8, FailIInv DEF TransactionFails, Abstract!Failures
  <2>9. CASE Return(c)
    BY <2>9, ReturnIInv
  <2> QED
    BY <1>2, <2>1, <2>2, <2>3, <2>4, <2>5, <2>6, <2>7, <2>8, <2>9 DEF Proceed
<1>3. CASE Crash
  BY <1>3, CrashIInv
<1>4. CASE UNCHANGED vars
  BY <1>4, StutterIInv
<1> QED
  BY <1>1, <1>2, <1>3, <1>4 DEF Next, Quiescent

\* The inductive invariant holds in every reachable state.
THEOREM Invariance == Spec => []IInv
BY InitIInv, NextIInv, PTL DEF Spec

\* Every variable keeps its type, for any clients, keys and bounds.
THEOREM TypeCorrect == Spec => []TypeOK
BY Invariance, PTL DEF IInv

\* A version a client knows names one write, for as long as the key is not
\* deleted.
THEOREM VersionsIdentify == Spec => []VersionsIdentifyWrites
BY Invariance, PTL DEF IInv

\* The entry read under the mutex is the one the write replaces.
THEOREM ReadsStayCurrent == Spec => []ReadStillCurrent
BY Invariance, PTL DEF IInv

-----------------------------------------------------------------------------
\* Whoever holds the mutex is inside Put, CompareAndSwap or Delete.
HolderIsInside == \A c \in Clients : mu = c => pc[c] \in {"locked", "decide", "return"}

\* The mutex is taken on entry and released on return, on every path.
LEMMA HolderIsInsideAlways == Spec => []HolderIsInside
<1>1. Init => HolderIsInside
  BY NoClientIsNotAClient DEF Init, HolderIsInside
<1>2. IInv /\ HolderIsInside /\ [Next]_vars => HolderIsInside'
  <2> SUFFICES ASSUME IInv, HolderIsInside, [Next]_vars PROVE HolderIsInside'
    OBVIOUS
  <2>0. pc \in [Clients -> Steps]
    BY DEF IInv, TypeOK
  <2>1. ASSUME NEW c \in Clients, NEW k \in Keys,
               NEW op \in Abstract!ReadOps \cup Abstract!WriteOps, Invoke(c, op, k)
        PROVE  HolderIsInside'
    BY <2>0, <2>1 DEF HolderIsInside, Invoke
  <2>2. ASSUME NEW c \in Clients,
               \/ RejectScope(c) \/ ReadUnlocked(c) \/ Conflict(c) \/ Commit(c)
               \/ CommitDelete(c) \/ TransactionFails(c)
        PROVE  HolderIsInside'
    <3>1. pc' = [pc EXCEPT ![c] = "return"] /\ mu' = mu
      BY <2>2 DEF RejectScope, ReadUnlocked, Conflict, Commit, CommitDelete, TransactionFails,
         FailWith, Tell
    <3> QED
      BY <2>0, <3>1 DEF HolderIsInside
  <2>3. ASSUME NEW c \in Clients, Acquire(c) \/ ReadExisting(c) \/ Return(c) PROVE HolderIsInside'
    BY <2>0, <2>3, NoClientIsNotAClient DEF HolderIsInside, Acquire, ReadExisting, Return
  <2>4. CASE Crash
    BY <2>4, NoClientIsNotAClient DEF HolderIsInside, Crash
  <2>5. CASE UNCHANGED vars
    BY <2>5 DEF HolderIsInside, vars
  <2> QED
    BY <2>1, <2>2, <2>3, <2>4, <2>5 DEF Next, Proceed, Quiescent
<1> QED
  BY <1>1, <1>2, Invariance, PTL DEF Spec

\* While a call is in progress some call has a step to take, with any number of
\* goroutines: no path through the methods leaves the mutex locked.
THEOREM CallsNeverHang == Spec => []CallsMove
<1>1. IInv /\ HolderIsInside => CallsMove
  <2> SUFFICES ASSUME IInv, HolderIsInside, NEW c \in Clients, pc[c] # "idle" PROVE CallsMove
    BY DEF CallsMove
  <2>1. /\ \A d \in Clients : pc[d] \in Steps
        /\ mu \in Clients \cup {NoClient}
        /\ \A d \in Clients : pc[d] = "locked" => call[d].op \in {"put", "cas", "delete"}
    BY DEF IInv, TypeOK, CallsWellFormed, Abstract!WriteOps
  <2>2. CASE mu = NoClient
    BY <2>1, <2>2 DEF CallsMove, Steps
  <2>3. CASE mu # NoClient
    BY <2>1, <2>3 DEF HolderIsInside, CallsMove
  <2> QED
    BY <2>2, <2>3
<1> QED
  BY <1>1, Invariance, HolderIsInsideAlways, PTL

-----------------------------------------------------------------------------
\* A CompareAndSwap overwrites exactly what its caller read, unless the key was
\* deleted since.
LEMMA SwapStep ==
  ASSUME IInv, [Next]_vars, NEW c \in Clients, Swaps(c),
         viewEpoch[c][call[c].key] = erasures[call[c].key]
  PROVE  disk[call[c].key] = view[c][call[c].key]
<1>1. Commit(c)
  <2>1. ASSUME NEW d \in Clients, NEW k \in Keys, NEW op, Invoke(d, op, k)
        PROVE  FALSE
    BY <2>1 DEF Invoke, Swaps
  <2>2. ~ UNCHANGED vars /\ ~ Crash
    BY DEF vars, Crash, Swaps
  <2>3. PICK d \in Clients : Proceed(d)
    BY <2>1, <2>2 DEF Next, Quiescent
  <2>4. d = c /\ status'[c] = "ok"
    BY <2>3
    DEF Proceed, Swaps, RejectScope, ReadUnlocked, Acquire, ReadExisting, Conflict,
        Commit, CommitDelete, TransactionFails, Return, FailWith, Tell, IInv, TypeOK
  <2>5. ~ (RejectScope(c) \/ Acquire(c) \/ ReadExisting(c) \/ Conflict(c)
             \/ TransactionFails(c) \/ Return(c))
    BY <2>4
    DEF RejectScope, Acquire, ReadExisting, Conflict, TransactionFails, Return,
        FailWith, IInv, TypeOK, Swaps
  <2>6. ~ ReadUnlocked(c) /\ ~ CommitDelete(c)
    BY DEF Swaps, ReadUnlocked, CommitDelete, Abstract!ReadOps
  <2> QED
    BY <2>3, <2>4, <2>5, <2>6 DEF Proceed
<1> DEFINE k == call[c].key
<1>2. /\ k \in Keys /\ existing[c] = disk[k]
      /\ call[c].base = existing[c].version /\ call[c].base = view[c][k].version
  BY <1>1, KeysAssumption
  DEF Commit, Swaps, Abstract!Refused, IInv, CallsWellFormed, ReadStillCurrent, BaseIsTold
<1> QED
  BY <1>2 DEF IInv, VersionsIdentifyWrites

\* A CompareAndSwap that succeeds overwrites exactly the write its caller had
\* read, unless the key was deleted in between.
THEOREM NoUpdateIsLost == Spec => NoLostUpdate
<1>1. IInv /\ [Next]_vars =>
        [\A c \in Clients :
           LET k == call[c].key IN
           Swaps(c) /\ viewEpoch[c][k] = erasures[k] => disk[k] = view[c][k]]_vars
  BY SwapStep
<1> QED
  BY <1>1, Invariance, PTL DEF Spec, NoLostUpdate

\* Versions grow one at a time, and only a Delete starts them again.
LEMMA AdvanceStep ==
  ASSUME IInv, [Next]_vars, NEW k \in Keys
  PROVE  \/ disk'[k] = disk[k]
         \/ disk'[k].version = disk[k].version + 1
         \/ disk'[k] = NoEntry /\ erasures'[k] = erasures[k] + 1
<1>1. CASE UNCHANGED disk
  BY <1>1
<1>2. ASSUME NEW c \in Clients, Commit(c)
      PROVE  disk'[k] = disk[k] \/ disk'[k].version = disk[k].version + 1
  <2>1. /\ call[c].key \in Keys /\ existing[c] = disk[call[c].key]
        /\ disk[call[c].key] \in Entry
        /\ call[c].op \in {"put", "cas"} /\ call[c] \in Abstract!Call
    BY <1>2, KeysAssumption
    DEF Commit, IInv, TypeOK, CallsWellFormed, ReadStillCurrent
  <2> QED
    BY <1>2, <2>1, AfterFacts DEF Commit, IInv, TypeOK
<1>3. ASSUME NEW c \in Clients, CommitDelete(c)
      PROVE  \/ disk'[k] = disk[k]
             \/ disk'[k] = NoEntry /\ erasures'[k] = erasures[k] + 1
  BY <1>3 DEF CommitDelete, IInv, TypeOK
<1> QED
  BY <1>1, <1>2, <1>3
  DEF Next, Quiescent, Invoke, Crash, vars, history, Proceed, RejectScope, ReadUnlocked,
      Acquire, ReadExisting, Conflict, TransactionFails, Return, FailWith

\* No two writes of a key commit the same version, and only Delete erases one.
THEOREM VersionsAdvance == Spec => VersionsAdvanceByOne
<1>1. IInv /\ [Next]_vars =>
        [\A k \in Keys :
           \/ disk'[k] = disk[k]
           \/ disk'[k].version = disk[k].version + 1
           \/ disk'[k] = NoEntry /\ erasures'[k] = erasures[k] + 1]_vars
  BY AdvanceStep
<1> QED
  BY <1>1, Invariance, PTL DEF Spec, VersionsAdvanceByOne

-----------------------------------------------------------------------------
(***************************************************************************)
(* Refinement.  The transaction that answers a call is the instant at which *)
(* the call takes effect; every other step is invisible or maps to the     *)
(* invocation, the failure or the return of the same call.                 *)
(***************************************************************************)
phaseBar == [c \in Clients |-> PhaseOf[pc[c]]]

\* A step that moves only c's program counter moves only c's phase.
LEMMA PhaseStep ==
  ASSUME TypeOK, NEW c \in Clients, NEW s \in Steps, pc' = [pc EXCEPT ![c] = s]
  PROVE  phaseBar' = [phaseBar EXCEPT ![c] = PhaseOf[s]]
BY DEF TypeOK, phaseBar

\* Every program counter stands for a phase of the abstract call.
LEMMA Phases ==
  /\ PhaseOf["idle"] = "idle" /\ PhaseOf["return"] = "done"
  /\ \A s \in {"enter", "locked", "decide"} : PhaseOf[s] = "called"
BY DEF PhaseOf, Steps

\* The initial states map to initial states of VersionedStore.
LEMMA InitRefines == Init => Abstract!Init
BY Phases DEF Init, Abstract!Init, NoEntry

\* A step inside a call that changes no phase is invisible.
LEMMA InvisibleStep ==
  ASSUME IInv, NEW c \in Clients,
         \/ Acquire(c)
         \/ ReadExisting(c)
  PROVE  UNCHANGED Abstract!vars
<1>1. /\ PhaseOf[pc[c]] = "called"
      /\ \E s \in {"locked", "decide"} : pc' = [pc EXCEPT ![c] = s]
  BY Phases DEF Acquire, ReadExisting
<1>2. phaseBar' = phaseBar
  BY <1>1, Phases DEF IInv, TypeOK, phaseBar
<1> QED
  BY <1>2 DEF Acquire, ReadExisting, Abstract!vars, phaseBar

\* A call of BoltStore is a call of the abstract store.
LEMMA InvokeRefines ==
  ASSUME IInv, NEW c \in Clients, NEW k \in Keys,
         NEW op \in Abstract!ReadOps \cup Abstract!WriteOps, Invoke(c, op, k)
  PROVE  Abstract!Invoke(c)
<1>1. phaseBar' = [phaseBar EXCEPT ![c] = "called"]
  BY PhaseStep, Phases DEF Invoke, IInv, Steps
<1>2. phaseBar[c] = "idle"
  BY Phases DEF phaseBar, Invoke
<1>3. TypeOK'
  BY InvokeIInv DEF IInv
<1>4. call'[c] \in Abstract!Call /\ call' = [call EXCEPT ![c] = call'[c]]
  BY <1>3 DEF IInv, TypeOK, Invoke
<1> QED
  BY <1>1, <1>2, <1>4 DEF Invoke, Abstract!Invoke, phaseBar

\* An error return of BoltStore is a failure the abstract store allows.
LEMMA FailRefines ==
  ASSUME IInv, NEW c \in Clients, NEW why \in Abstract!Failures, FailWith(c, why),
         pc[c] \in {"enter", "locked", "decide"},
         why = "conflict" => /\ call[c].key \in ValidKeys
                             /\ Abstract!Refused(call[c], disk[call[c].key]),
         why = "invalid_scope" => call[c].key \notin ValidKeys
  PROVE  Abstract!Fail(c)
<1>1. phaseBar' = [phaseBar EXCEPT ![c] = "done"]
  BY PhaseStep, Phases DEF FailWith, IInv, Steps
<1>2. phaseBar[c] = "called"
  BY Phases DEF phaseBar
<1> QED
  BY <1>1, <1>2 DEF FailWith, Abstract!Fail, phaseBar

\* The transaction that answers a client is the instant its call takes effect.
LEMMA SucceedRefines ==
  ASSUME IInv, NEW c \in Clients, Tell(c), pc[c] \in {"enter", "locked", "decide"},
         call[c].key \in ValidKeys,
         ~ Abstract!Refused(call[c], disk[call[c].key]),
         disk' = [disk EXCEPT ![call[c].key] = Abstract!After(call[c], @)],
         UNCHANGED call
  PROVE  Abstract!Succeed(c)
<1>1. phaseBar' = [phaseBar EXCEPT ![c] = "done"]
  BY PhaseStep, Phases DEF Tell, IInv, Steps
<1>2. phaseBar[c] = "called"
  BY Phases DEF phaseBar
<1> QED
  BY <1>1, <1>2 DEF Tell, Abstract!Succeed, phaseBar

\* Every step inside a call is an abstract step or invisible.
LEMMA ProceedRefines ==
  ASSUME IInv, NEW c \in Clients, Proceed(c)
  PROVE  Abstract!Next \/ UNCHANGED Abstract!vars
<1> USE DEF IInv
<1> DEFINE k == call[c].key
<1>0. call[c] \in Abstract!Call /\ (k \in ValidKeys => k \in Keys /\ disk[k] \in Entry)
  BY KeysAssumption DEF TypeOK
<1>1. CASE RejectScope(c)
  BY <1>1, FailRefines DEF RejectScope, Abstract!Failures, Abstract!Next
<1>2. CASE ReadUnlocked(c)
  <2>1. ~ Abstract!Refused(call[c], disk[k]) /\ Abstract!After(call[c], disk[k]) = disk[k]
    BY <1>0, <1>2, AfterFacts DEF ReadUnlocked, Abstract!Refused, Abstract!ReadOps
  <2>2. disk' = [disk EXCEPT ![k] = Abstract!After(call[c], @)]
    BY <1>0, <1>2, <2>1 DEF ReadUnlocked, TypeOK
  <2> QED
    BY <1>2, <2>1, <2>2, SucceedRefines DEF ReadUnlocked, Abstract!Next
<1>3. CASE Acquire(c) \/ ReadExisting(c)
  BY <1>3, InvisibleStep
<1>4. CASE Conflict(c)
  BY <1>4, FailRefines
  DEF Conflict, Abstract!Failures, Abstract!Next, CallsWellFormed, ReadStillCurrent
<1>5. CASE Commit(c)
  <2>1. existing[c] = disk[k] /\ k \in ValidKeys
    BY <1>5 DEF Commit, ReadStillCurrent, CallsWellFormed
  <2>2. ~ Abstract!Refused(call[c], disk[k]) /\ disk' = [disk EXCEPT ![k] = Abstract!After(call[c], @)]
    BY <1>0, <1>5, <2>1 DEF Commit, TypeOK
  <2> QED
    BY <1>5, <2>1, <2>2, SucceedRefines DEF Commit, Abstract!Next
<1>6. CASE CommitDelete(c)
  <2>1. k \in ValidKeys /\ ~ Abstract!Refused(call[c], disk[k])
    BY <1>6 DEF CommitDelete, CallsWellFormed, Abstract!Refused
  <2>2. Abstract!After(call[c], disk[k]) = NoEntry
    BY <1>0, <1>6, <2>1, AfterFacts DEF CommitDelete
  <2>3. disk' = [disk EXCEPT ![k] = Abstract!After(call[c], @)]
    BY <1>0, <1>6, <2>1, <2>2 DEF CommitDelete, TypeOK
  <2> QED
    BY <1>6, <2>1, <2>3, SucceedRefines DEF CommitDelete, Abstract!Next
<1>7. CASE TransactionFails(c)
  BY <1>7, FailRefines DEF TransactionFails, Abstract!Failures, Abstract!Next
<1>8. CASE Return(c)
  <2>1. phaseBar' = [phaseBar EXCEPT ![c] = "idle"] /\ phaseBar[c] = "done"
    BY <1>8, PhaseStep, Phases DEF Return, Steps, phaseBar
  <2>2. Abstract!Return(c)
    BY <1>8, <2>1 DEF Return, Abstract!Return, phaseBar
  <2> QED
    BY <2>2 DEF Abstract!Next
<1> QED
  BY <1>1, <1>2, <1>3, <1>4, <1>5, <1>6, <1>7, <1>8 DEF Proceed

\* Every step of BoltStore maps to a step of VersionedStore or to a stutter.
LEMMA NextRefines == IInv /\ [Next]_vars => [Abstract!Next]_Abstract!vars
<1> SUFFICES ASSUME IInv, [Next]_vars
             PROVE  Abstract!Next \/ UNCHANGED Abstract!vars
  OBVIOUS
<1>1. ASSUME NEW c \in Clients, NEW k \in Keys,
             NEW op \in Abstract!ReadOps \cup Abstract!WriteOps, Invoke(c, op, k)
      PROVE  Abstract!Next
  BY <1>1, InvokeRefines DEF Abstract!Next
<1>2. ASSUME NEW c \in Clients, Proceed(c)
      PROVE  Abstract!Next \/ UNCHANGED Abstract!vars
  BY <1>2, ProceedRefines
<1>3. CASE Crash
  <2>1. phaseBar' = [c \in Clients |-> "idle"]
    BY <1>3, Phases DEF Crash, phaseBar
  <2>2. Abstract!Crash
    BY <1>3, <2>1 DEF Crash, Abstract!Crash, phaseBar
  <2> QED
    BY <2>2 DEF Abstract!Next
<1>4. CASE UNCHANGED vars
  BY <1>4 DEF vars, Abstract!vars
<1> QED
  BY <1>1, <1>2, <1>3, <1>4 DEF Next, Quiescent

\* BoltStore implements VersionedStore.
THEOREM Refinement == Spec => Linearizable
BY InitRefines, NextRefines, Invariance, PTL DEF Spec, Linearizable, Abstract!Spec

=============================================================================
