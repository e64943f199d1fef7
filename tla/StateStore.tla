----------------------------- MODULE StateStore -----------------------------
(***************************************************************************)
(* pkg/state.BoltStore: versioned entries kept in one bbolt bucket.  Each  *)
(* bbolt transaction is one step; a write is a read transaction followed   *)
(* by a write transaction, and only the mutex mu keeps the two together.   *)
(* Get and List take no lock.  A crash releases the mutex and drops every  *)
(* call in progress; committed transactions survive it.                    *)
(***************************************************************************)
EXTENDS Naturals

CONSTANTS
  Clients,      \* goroutines that call the store
  Keys,         \* the (scope, owner, key) tuples callers name
  ValidKeys,    \* those with a recognised scope
  NoClient,     \* the holder of a free mutex
  MaxCalls,     \* bound: calls made in a behaviour
  MaxCrashes    \* bound: crashes in a behaviour

ASSUME KeysAssumption       == Keys # {} /\ ValidKeys \subseteq Keys
ASSUME NoClientIsNotAClient == NoClient \notin Clients

VARIABLES
  disk,         \* [Keys -> Entry], the bucket state.entries
  mu,           \* the client that holds BoltStore.mu, or NoClient
  pc,           \* [Clients -> step of the call in progress]
  call,         \* [Clients -> Call]
  existing,     \* [Clients -> Entry], what the locked read found
  status,       \* [Clients -> Status], how the call ended
  view,         \* [Clients -> [Keys -> Entry]], what the client was last told
  issued,       \* history: calls made so far; the value the next call writes
  crashes,      \* history: crashes so far
  erasures,     \* history: [Keys -> Nat], committed Deletes of each key
  viewEpoch     \* history: [Clients -> [Keys -> Nat]], erasures when told

vars == <<disk, mu, pc, call, existing, status, view,
          issued, crashes, erasures, viewEpoch>>
history == <<issued, crashes, erasures, viewEpoch>>

Steps   == {"idle", "enter", "locked", "decide", "return"}
PhaseOf == [s \in Steps |-> IF s = "idle" THEN "idle"
                              ELSE IF s = "return" THEN "done" ELSE "called"]

Abstract == INSTANCE VersionedStore
              WITH entries <- disk, phase <- [c \in Clients |-> PhaseOf[pc[c]]]

Entry   == Abstract!Entry
NoEntry == Abstract!NoEntry

-----------------------------------------------------------------------------
Init ==
  /\ disk      = [k \in Keys |-> NoEntry]
  /\ mu        = NoClient
  /\ pc        = [c \in Clients |-> "idle"]
  /\ call      = [c \in Clients |-> Abstract!NoCall]
  /\ existing  = [c \in Clients |-> NoEntry]
  /\ status    = [c \in Clients |-> "none"]
  /\ view      = [c \in Clients |-> [k \in Keys |-> NoEntry]]
  /\ issued    = 0
  /\ crashes   = 0
  /\ erasures  = [k \in Keys |-> 0]
  /\ viewEpoch = [c \in Clients |-> [k \in Keys |-> 0]]

\* The call ends with an error and touches nothing.
FailWith(c, why) ==
  /\ status' = [status EXCEPT ![c] = why]
  /\ pc'     = [pc EXCEPT ![c] = "return"]
  /\ UNCHANGED <<disk, mu, call, existing, view, history>>

\* The call ends well: the caller is told what the store then holds.
Tell(c) ==
  /\ status'    = [status EXCEPT ![c] = "ok"]
  /\ pc'        = [pc EXCEPT ![c] = "return"]
  /\ view'      = [view EXCEPT ![c] = Abstract!Refresh(@, call[c], disk')]
  /\ viewEpoch' = [viewEpoch EXCEPT ![c] = Abstract!Refresh(@, call[c], erasures')]

-----------------------------------------------------------------------------
(***************************************************************************)
(* Mutated forms: what an action would be after a plausible slip in the    *)
(* code.  No specification uses them; each shows that a property can fail. *)
(***************************************************************************)

\* The caller does not wait for the mutex.
Acquire_Unlocked(c) ==
  /\ pc[c] = "enter"
  /\ call[c].key \in ValidKeys
  /\ call[c].op \in Abstract!WriteOps
  /\ mu' = c
  /\ pc' = [pc EXCEPT ![c] = "locked"]
  /\ UNCHANGED <<disk, call, existing, status, view, history>>

\* The locked read keeps the version and drops the rest of the entry.
ReadExisting_VersionOnly(c) ==
  /\ pc[c] = "locked"
  /\ call[c].op \in {"put", "cas"}
  /\ existing' = [existing EXCEPT ![c] = [version |-> disk[call[c].key].version]]
  /\ pc'       = [pc EXCEPT ![c] = "decide"]
  /\ UNCHANGED <<disk, mu, call, status, view, history>>

\* CompareAndSwap forgets to compare.
Commit_NoCompare(c) ==
  /\ pc[c] = "decide"
  /\ disk' = [disk EXCEPT ![call[c].key] = Abstract!After(call[c], existing[c])]
  /\ UNCHANGED erasures
  /\ Tell(c)
  /\ UNCHANGED <<mu, call, existing, issued, crashes>>

\* An overwrite keeps the version it found.
Commit_SameVersion(c) ==
  /\ pc[c] = "decide"
  /\ ~Abstract!Refused(call[c], existing[c])
  /\ disk' = [disk EXCEPT ![call[c].key] =
                [value |-> call[c].value,
                 version |-> IF existing[c] = NoEntry THEN 1 ELSE existing[c].version]]
  /\ UNCHANGED erasures
  /\ Tell(c)
  /\ UNCHANGED <<mu, call, existing, issued, crashes>>

\* The early returns do not release the mutex.
Return_KeepsLockOnError(c) ==
  /\ pc[c] = "return"
  /\ mu'       = IF mu = c /\ status[c] = "ok" THEN NoClient ELSE mu
  /\ pc'       = [pc EXCEPT ![c] = "idle"]
  /\ call'     = [call EXCEPT ![c] = Abstract!NoCall]
  /\ existing' = [existing EXCEPT ![c] = NoEntry]
  /\ status'   = [status EXCEPT ![c] = "none"]
  /\ UNCHANGED <<disk, view, history>>

-----------------------------------------------------------------------------
\* A caller invokes an operation.  CompareAndSwap is given the version the
\* caller was last told, as the package comment asks ("callers retry by
\* re-reading").
Invoke(c, op, k) ==
  /\ pc[c] = "idle"
  /\ issued < MaxCalls
  /\ issued' = issued + 1
  /\ call'   = [call EXCEPT ![c] = [op |-> op, key |-> k, value |-> issued + 1,
                                    base |-> IF op = "cas" THEN view[c][k].version ELSE 0]]
  /\ pc'     = [pc EXCEPT ![c] = "enter"]
  /\ UNCHANGED <<disk, mu, existing, status, view, crashes, erasures, viewEpoch>>

RejectScope(c) ==
  /\ pc[c] = "enter"
  /\ call[c].key \notin ValidKeys
  /\ FailWith(c, "invalid_scope")

\* Get and List: one read transaction, no lock.
ReadUnlocked(c) ==
  /\ pc[c] = "enter"
  /\ call[c].key \in ValidKeys
  /\ call[c].op \in Abstract!ReadOps
  /\ UNCHANGED <<disk, erasures>>
  /\ Tell(c)
  /\ UNCHANGED <<mu, call, existing, issued, crashes>>

Acquire(c) ==
  /\ pc[c] = "enter"
  /\ call[c].key \in ValidKeys
  /\ call[c].op \in Abstract!WriteOps
  /\ mu  = NoClient
  /\ mu' = c
  /\ pc' = [pc EXCEPT ![c] = "locked"]
  /\ UNCHANGED <<disk, call, existing, status, view, history>>

ReadExisting(c) ==
  /\ pc[c] = "locked"
  /\ call[c].op \in {"put", "cas"}
  /\ existing' = [existing EXCEPT ![c] = disk[call[c].key]]
  /\ pc'       = [pc EXCEPT ![c] = "decide"]
  /\ UNCHANGED <<disk, mu, call, status, view, history>>

Conflict(c) ==
  /\ pc[c] = "decide"
  /\ Abstract!Refused(call[c], existing[c])
  /\ FailWith(c, "conflict")

\* The write transaction of Put and CompareAndSwap: the next version comes
\* from the entry read earlier, not from the one it overwrites.
Commit(c) ==
  /\ pc[c] = "decide"
  /\ ~Abstract!Refused(call[c], existing[c])
  /\ disk' = [disk EXCEPT ![call[c].key] = Abstract!After(call[c], existing[c])]
  /\ UNCHANGED erasures
  /\ Tell(c)
  /\ UNCHANGED <<mu, call, existing, issued, crashes>>

CommitDelete(c) ==
  /\ pc[c] = "locked"
  /\ call[c].op = "delete"
  /\ disk'     = [disk EXCEPT ![call[c].key] = NoEntry]
  /\ erasures' = [erasures EXCEPT ![call[c].key] = @ + 1]
  /\ Tell(c)
  /\ UNCHANGED <<mu, call, existing, issued, crashes>>

\* A bbolt transaction fails, or a stored entry does not decode.
TransactionFails(c) ==
  /\ \/ pc[c] = "enter" /\ call[c].key \in ValidKeys /\ call[c].op \in Abstract!ReadOps
     \/ pc[c] = "locked"
     \/ pc[c] = "decide" /\ ~Abstract!Refused(call[c], existing[c])
  /\ FailWith(c, "error")

\* The method returns, its deferred Unlock first; its locals are gone.
Return(c) ==
  /\ pc[c] = "return"
  /\ mu'       = IF mu = c THEN NoClient ELSE mu
  /\ pc'       = [pc EXCEPT ![c] = "idle"]
  /\ call'     = [call EXCEPT ![c] = Abstract!NoCall]
  /\ existing' = [existing EXCEPT ![c] = NoEntry]
  /\ status'   = [status EXCEPT ![c] = "none"]
  /\ UNCHANGED <<disk, view, history>>

Crash ==
  /\ crashes < MaxCrashes
  /\ crashes' = crashes + 1
  /\ mu'       = NoClient
  /\ pc'       = [c \in Clients |-> "idle"]
  /\ call'     = [c \in Clients |-> Abstract!NoCall]
  /\ existing' = [c \in Clients |-> NoEntry]
  /\ status'   = [c \in Clients |-> "none"]
  /\ UNCHANGED <<disk, view, issued, erasures, viewEpoch>>

\* Every call was made and answered; not a step of the code.
Quiescent ==
  /\ issued = MaxCalls
  /\ \A c \in Clients : pc[c] = "idle"
  /\ UNCHANGED vars

Proceed(c) ==
  \/ RejectScope(c) \/ ReadUnlocked(c) \/ Acquire(c)
  \/ ReadExisting(c) \/ Conflict(c) \/ Commit(c) \/ CommitDelete(c)
  \/ TransactionFails(c) \/ Return(c)

Next ==
  \/ \E c \in Clients, k \in Keys, op \in Abstract!ReadOps \cup Abstract!WriteOps :
       Invoke(c, op, k)
  \/ \E c \in Clients : Proceed(c)
  \/ Crash
  \/ Quiescent

Spec == Init /\ [][Next]_vars

\* A goroutine inside a call keeps running, and sync.Mutex hands the lock to
\* a waiter that keeps losing the race for it (starvation mode).
FairSpec ==
  /\ Spec
  /\ \A c \in Clients : WF_vars(Proceed(c)) /\ SF_vars(Acquire(c))

-----------------------------------------------------------------------------
TypeOK ==
  /\ disk      \in [Keys -> Entry]
  /\ mu        \in Clients \cup {NoClient}
  /\ pc        \in [Clients -> Steps]
  /\ call      \in [Clients -> Abstract!Call]
  /\ existing  \in [Clients -> Entry]
  /\ status    \in [Clients -> Abstract!Status]
  /\ view      \in [Clients -> [Keys -> Entry]]
  /\ issued    \in Nat
  /\ crashes   \in Nat
  /\ erasures  \in [Keys -> Nat]
  /\ viewEpoch \in [Clients -> [Keys -> Nat]]

\* A client that is between its locked read and its write holds the mutex, and
\* the entry it read is still the stored one: no write of another client, and
\* no Delete, slips between the two (the comment on BoltStore.mu).
ReadStillCurrent ==
  \A c \in Clients :
    /\ pc[c] \in {"locked", "decide"} => mu = c
    /\ pc[c] = "decide" => existing[c] = disk[call[c].key]

\* What a client was told is never ahead of the store: unless the key was
\* deleted since, the stored version is at least the one the client knows, and
\* the same version means the very same write.  This is what makes a version a
\* usable witness for CompareAndSwap.
VersionsIdentifyWrites ==
  \A c \in Clients, k \in Keys :
    viewEpoch[c][k] = erasures[k] =>
      /\ view[c][k].version <= disk[k].version
      /\ view[c][k].version = disk[k].version => view[c][k] = disk[k]

\* The successful step of a CompareAndSwap by c.
Swaps(c) == call[c].op = "cas" /\ status[c] # "ok" /\ status'[c] = "ok"

\* No lost update: a CompareAndSwap that succeeds overwrites exactly the write
\* its caller had read, unless the key was deleted in between.
NoLostUpdate ==
  [][\A c \in Clients :
       LET k == call[c].key IN
       Swaps(c) /\ viewEpoch[c][k] = erasures[k] => disk[k] = view[c][k]]_vars

\* A stored entry only moves to the next version or disappears, and nothing but
\* a Delete makes it disappear: parallel Puts and CompareAndSwaps never commit
\* the same version twice.
VersionsAdvanceByOne ==
  [][\A k \in Keys :
       \/ disk'[k] = disk[k]
       \/ disk'[k].version = disk[k].version + 1
       \/ disk'[k] = NoEntry /\ erasures'[k] = erasures[k] + 1]_vars

\* Each call takes effect at one instant between invocation and return.
Linearizable == Abstract!Spec

\* Every call comes back: no path through the methods keeps the mutex.
CallsReturn == \A c \in Clients : (pc[c] # "idle") ~> (pc[c] = "idle")

\* Nobody waits for nobody: while a call is in progress, one of them has a step to
\* take that is not a failure.  A caller waits for the mutex only of a caller inside
\* a method, and never for one that has returned.
CallsMove ==
  (\E c \in Clients : pc[c] # "idle") =>
    \E c \in Clients :
      \/ pc[c] = "enter" /\ (\/ call[c].key \notin ValidKeys
                             \/ call[c].op \in Abstract!ReadOps
                             \/ mu = NoClient)
      \/ pc[c] = "locked" /\ call[c].op \in {"put", "cas", "delete"}
      \/ pc[c] \in {"decide", "return"}

=============================================================================
