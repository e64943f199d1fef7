--------------------------- MODULE VersionedStore ---------------------------
(***************************************************************************)
(* What pkg/state promises its callers: a call takes effect at one instant *)
(* between its invocation and its return, on entries whose version grows   *)
(* by one with every successful write.  StateStore shows that BoltStore,   *)
(* with its mutex and its separate reads and writes, keeps this promise.   *)
(*                                                                         *)
(* A value is identified by the call that wrote it, so two writes are      *)
(* never confused.  An absent key is the entry of version 0, which is how  *)
(* CompareAndSwap's baseVersion = 0 addresses it.                          *)
(***************************************************************************)
EXTENDS Naturals

CONSTANTS
  Clients,    \* goroutines that call the store
  Keys,       \* the keys callers name: (scope, owner, key) tuples
  ValidKeys   \* those whose scope is one of agent, user, row (a subset of Keys)

VARIABLES
  entries,    \* [Keys -> Entry], the stored state
  phase,      \* [Clients -> "idle" | "called" | "done"]
  call,       \* [Clients -> Call], the call in progress
  status,     \* [Clients -> Status], how it ended, until it returns
  view        \* [Clients -> [Keys -> Entry]], what each client was last told

vars == <<entries, phase, call, status, view>>

-----------------------------------------------------------------------------
Entry   == [value : Nat, version : Nat]
NoEntry == [value |-> 0, version |-> 0]

ReadOps  == {"get", "list"}
WriteOps == {"put", "cas", "delete"}
Call     == [op : ReadOps \cup WriteOps, key : Keys, base : Nat, value : Nat]
NoCall   == [op |-> "get", key |-> CHOOSE k \in Keys : TRUE, base |-> 0, value |-> 0]

Failures == {"conflict", "invalid_scope", "error"}
Status   == {"none", "ok"} \cup Failures

\* The entry a successful call leaves under its key when it found e there.
After(cl, e) ==
  IF cl.op \in {"put", "cas"}
  THEN [value |-> cl.value, version |-> e.version + 1]
  ELSE IF cl.op = "delete" THEN NoEntry ELSE e

\* A CompareAndSwap is refused when its base is not the stored version; on an
\* absent key that is every base but 0.
Refused(cl, e) == cl.op = "cas" /\ cl.base # e.version

\* The keys a call's answer tells its caller about.
Told(cl) == IF cl.op = "list" THEN ValidKeys ELSE {cl.key}

Refresh(known, cl, es) == [k \in Keys |-> IF k \in Told(cl) THEN es[k] ELSE known[k]]

-----------------------------------------------------------------------------
Init ==
  /\ entries = [k \in Keys |-> NoEntry]
  /\ phase   = [c \in Clients |-> "idle"]
  /\ call    = [c \in Clients |-> NoCall]
  /\ status  = [c \in Clients |-> "none"]
  /\ view    = [c \in Clients |-> [k \in Keys |-> NoEntry]]

Invoke(c) ==
  /\ phase[c] = "idle"
  /\ call'[c] \in Call
  /\ call'   = [call EXCEPT ![c] = call'[c]]
  /\ phase'  = [phase EXCEPT ![c] = "called"]
  /\ UNCHANGED <<entries, status, view>>

\* The call succeeds: the entry under its key changes and the caller learns
\* what the store then holds, in one step.
Succeed(c) ==
  LET cl == call[c] IN
  /\ phase[c] = "called"
  /\ cl.key \in ValidKeys
  /\ ~Refused(cl, entries[cl.key])
  /\ entries' = [entries EXCEPT ![cl.key] = After(cl, @)]
  /\ view'    = [view EXCEPT ![c] = Refresh(@, cl, entries')]
  /\ status'  = [status EXCEPT ![c] = "ok"]
  /\ phase'   = [phase EXCEPT ![c] = "done"]
  /\ UNCHANGED call

\* The call fails and leaves no trace.
Fail(c) ==
  LET cl == call[c] IN
  /\ phase[c] = "called"
  /\ \E why \in Failures :
       /\ why = "conflict"      => cl.key \in ValidKeys /\ Refused(cl, entries[cl.key])
       /\ why = "invalid_scope" => cl.key \notin ValidKeys
       /\ status' = [status EXCEPT ![c] = why]
  /\ phase' = [phase EXCEPT ![c] = "done"]
  /\ UNCHANGED <<entries, call, view>>

Return(c) ==
  /\ phase[c] = "done"
  /\ phase'  = [phase EXCEPT ![c] = "idle"]
  /\ call'   = [call EXCEPT ![c] = NoCall]
  /\ status' = [status EXCEPT ![c] = "none"]
  /\ UNCHANGED <<entries, view>>

\* The process dies: calls in progress never answer, what they wrote stays.
Crash ==
  /\ phase'  = [c \in Clients |-> "idle"]
  /\ call'   = [c \in Clients |-> NoCall]
  /\ status' = [c \in Clients |-> "none"]
  /\ UNCHANGED <<entries, view>>

Next ==
  \/ \E c \in Clients : Invoke(c) \/ Succeed(c) \/ Fail(c) \/ Return(c)
  \/ Crash

Spec == Init /\ [][Next]_vars

=============================================================================
