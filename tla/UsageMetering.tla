----------------------------- MODULE UsageMetering -----------------------------
(***************************************************************************)
(* What a sandbox consumed and what is billed for it: process.Provider     *)
(* (Provision, LabelHandle, Execute, Terminate, the ticker goroutine of    *)
(* each Execute) and scope.UsageAggregator (Tick, Flush).                  *)
(*                                                                         *)
(* Consumption is wall-clock time, in instants; a billing minute lasts     *)
(* Minute of them.  A ticker takes a sample under the provider's mutex and *)
(* hands it to the aggregator afterwards, so a sample may reach its bucket *)
(* late.  A flush reads the clock, takes the closed buckets out of memory  *)
(* and writes them one by one.  Query and Cost change nothing and are left  *)
(* out.                                                                    *)
(* A crash loses sandboxes, tickers and the buckets in memory.             *)
(***************************************************************************)
EXTENDS Integers, FiniteSets, Functions

CONSTANTS
  Sandboxes,    \* handles; Provision never issues one twice
  Calls,        \* concurrent Execute calls
  Tenants,      \* (api key prefix, agent slug) labels
  Unlabelled,   \* the label of a sandbox LabelHandle was not called on
  Flushers,     \* concurrent Flush calls
  Minute,       \* length of a billing minute
  MaxTime,      \* bound: the last instant
  MaxExecutes,  \* bound: Execute calls in a behaviour
  MaxFlushes,   \* bound: Flush calls in a behaviour
  MaxCrashes    \* bound: crashes in a behaviour

ASSUME MeteringAssumption ==
  /\ Unlabelled \notin Tenants /\ Sandboxes # {}
  /\ IsFiniteSet(Sandboxes) /\ IsFiniteSet(Calls) /\ IsFiniteSet(Tenants) /\ IsFiniteSet(Flushers)
  /\ Minute \in Nat \ {0} /\ MaxTime \in Nat
  /\ MaxExecutes \in Nat /\ MaxFlushes \in Nat /\ MaxCrashes \in Nat

VARIABLES
  now,        \* the wall clock
  sandbox,    \* [Sandboxes -> [state, tenant, started, metered]]
  call,       \* [Calls -> [stage, box]], the Execute in progress
  ticker,     \* [Calls -> its ticker goroutine]
  live,       \* [Buckets -> amount or NoRow], the buckets in memory
  stored,     \* [Buckets -> amount or NoRow], the rows of scope.usage.v0
  flush,      \* [Flushers -> [stage, minute, closed]]
  executes, flushes, crashes,   \* history: for the bounds
  endedAt,    \* history: [Calls -> when it returned, while its ticker runs on]
  ticked,     \* history: [Buckets -> sum of the samples added]
  dropped,    \* history: buckets that lost samples to a failed flush or a crash
  belated     \* history: buckets that got a sample after their minute

providerVars   == <<sandbox, call, ticker>>
aggregatorVars == <<live, stored, flush>>
bounds         == <<executes, flushes, crashes>>
sums           == <<ticked, dropped, belated>>
vars == <<now, providerVars, aggregatorVars, bounds, endedAt, sums>>

-----------------------------------------------------------------------------
NoRow    == -1
MinuteOf(t) == t \div Minute
Labels   == Tenants \cup {Unlabelled}
Buckets  == Labels \X (0..MinuteOf(MaxTime))
Rows     == [Buckets -> Nat \cup {NoRow}]
Empty    == [b \in Buckets |-> NoRow]
Zero     == [b \in Buckets |-> 0]
RowsOf(rows) == {b \in Buckets : rows[b] # NoRow}
Amount(r) == IF r = NoRow THEN 0 ELSE r

Sample   == [tenant : Labels, at : 0..MaxTime, amount : Nat]
NoSample == [tenant |-> Unlabelled, at |-> 0, amount |-> 0]
Bucket(s) == <<s.tenant, MinuteOf(s.at)>>

NoBox   == CHOOSE x \in Sandboxes : TRUE
NoCall  == [stage |-> "idle", box |-> NoBox]
Off     == [stage |-> "off", box |-> NoBox, done |-> FALSE, last |-> FALSE, sample |-> NoSample]
NoFlush == [stage |-> "idle", minute |-> 0, closed |-> Empty]

\* Whether the sample a ticker takes now is its last.  With done closed and a
\* tick pending, select takes either branch; only the one of done ends the loop.
\* A tick within an instant already metered would add nothing.
LastSample(c) ==
  {last \in BOOLEAN : IF last THEN ticker[c].done ELSE sandbox[ticker[c].box].metered < now}

Init ==
  /\ now = 0
  /\ sandbox = [x \in Sandboxes |-> [state |-> "unborn", tenant |-> Unlabelled,
                                     started |-> 0, metered |-> 0]]
  /\ call    = [c \in Calls |-> NoCall]
  /\ ticker  = [c \in Calls |-> Off]
  /\ live = Empty /\ stored = Empty
  /\ flush = [f \in Flushers |-> NoFlush]
  /\ executes = 0 /\ flushes = 0 /\ crashes = 0
  /\ endedAt = [c \in Calls |-> 0]
  /\ ticked = Zero /\ dropped = {} /\ belated = {}

-----------------------------------------------------------------------------
(***************************************************************************)
(* Mutated forms: what a definition would be after a plausible slip in the *)
(* code.  No specification uses them; each shows that a property can fail. *)
(***************************************************************************)

\* lastMetered is left at the zero time, which is before every instant.
Provision_NoStart(x) ==
  /\ sandbox[x].state = "unborn"
  /\ sandbox' = [sandbox EXCEPT ![x] = [state |-> "known", tenant |-> Unlabelled,
                                        started |-> now, metered |-> -1]]
  /\ UNCHANGED <<now, call, ticker, aggregatorVars, bounds, endedAt, sums>>

\* The sample is the time since Provision, as Cost reports it.
TakeSample_SinceStart(c) ==
  LET x == ticker[c].box IN
  /\ ticker[c].stage = "armed"
  /\ \E last \in LastSample(c) :
       ticker' = [ticker EXCEPT ![c].stage = "holding", ![c].last = last,
                    ![c].sample = [tenant |-> sandbox[x].tenant, at |-> now,
                                   amount |-> now - sandbox[x].started]]
  /\ sandbox' = [sandbox EXCEPT ![x].metered = now]
  /\ UNCHANGED <<now, call, aggregatorVars, bounds, endedAt, sums>>

\* The ticker stops without a last sample when the command has ended.
ExecuteEnds_NoLastSample(c) ==
  /\ call[c].stage = "running"
  /\ call'    = [call EXCEPT ![c] = NoCall]
  /\ ticker'  = [ticker EXCEPT ![c].done = TRUE,
                   ![c].stage = IF @ = "armed" THEN "off" ELSE @, ![c].last = TRUE]
  /\ endedAt' = [endedAt EXCEPT ![c] = now]
  /\ UNCHANGED <<now, sandbox, aggregatorVars, bounds, sums>>

\* The current minute counts as closed.
ClosedAt_Inclusive(m) == {b \in RowsOf(live) : b[2] <= m}

\* The buckets with a window before the current minute.
ClosedAt(m) == {b \in RowsOf(live) : b[2] < m}

-----------------------------------------------------------------------------
(***************************************************************************)
(* The clock and the provider.                                             *)
(***************************************************************************)
Advance ==
  /\ now < MaxTime
  /\ now' = now + 1
  /\ UNCHANGED <<providerVars, aggregatorVars, bounds, endedAt, sums>>

Provision(x) ==
  /\ sandbox[x].state = "unborn"
  /\ sandbox' = [sandbox EXCEPT ![x] = [state |-> "known", tenant |-> Unlabelled,
                                        started |-> now, metered |-> now]]
  /\ UNCHANGED <<now, call, ticker, aggregatorVars, bounds, endedAt, sums>>

LabelHandle(x, t) ==
  /\ sandbox[x].state = "known"
  /\ sandbox' = [sandbox EXCEPT ![x].tenant = t]
  /\ UNCHANGED <<now, call, ticker, aggregatorVars, bounds, endedAt, sums>>

Terminate(x) ==
  /\ sandbox[x].state = "known"
  /\ sandbox' = [sandbox EXCEPT ![x].state = "gone"]
  /\ UNCHANGED <<now, call, ticker, aggregatorVars, bounds, endedAt, sums>>

\* Execute, first part: the descriptor is looked up and the lock is left.
Execute(c, x) ==
  /\ call[c].stage = "idle" /\ ticker[c].stage = "off"
  /\ executes < MaxExecutes
  /\ executes' = executes + 1
  /\ sandbox[x].state = "known"
  /\ call' = [call EXCEPT ![c] = [stage |-> "found", box |-> x]]
  /\ UNCHANGED <<now, sandbox, ticker, aggregatorVars, flushes, crashes, endedAt, sums>>

\* No command, no access declaration, or the gate denies it.
Refuse(c) ==
  /\ call[c].stage = "found"
  /\ call' = [call EXCEPT ![c] = NoCall]
  /\ UNCHANGED <<now, sandbox, ticker, aggregatorVars, bounds, endedAt, sums>>

\* Execute, second part: the ticker goroutine starts and the command runs.
Run(c) ==
  /\ call[c].stage = "found"
  /\ call'   = [call EXCEPT ![c].stage = "running"]
  /\ ticker' = [ticker EXCEPT ![c] = [Off EXCEPT !.stage = "armed", !.box = call[c].box]]
  /\ UNCHANGED <<now, sandbox, aggregatorVars, bounds, endedAt, sums>>

\* The command ends, well or not, and done is closed.
ExecuteEnds(c) ==
  /\ call[c].stage = "running"
  /\ call'    = [call EXCEPT ![c] = NoCall]
  /\ ticker'  = [ticker EXCEPT ![c].done = TRUE]
  /\ endedAt' = [endedAt EXCEPT ![c] = now]
  /\ UNCHANGED <<now, sandbox, aggregatorVars, bounds, sums>>

\* emitTick under the provider's mutex.
TakeSample(c) ==
  LET x == ticker[c].box IN
  /\ ticker[c].stage = "armed"
  /\ \E last \in LastSample(c) :
       ticker' = [ticker EXCEPT ![c].stage = "holding", ![c].last = last,
                    ![c].sample = [tenant |-> sandbox[x].tenant, at |-> now,
                                   amount |-> now - sandbox[x].metered]]
  /\ sandbox' = [sandbox EXCEPT ![x].metered = now]
  /\ UNCHANGED <<now, call, aggregatorVars, bounds, endedAt, sums>>

-----------------------------------------------------------------------------
(***************************************************************************)
(* The aggregator.                                                         *)
(***************************************************************************)

\* UsageAggregator.Tick, called by the ticker goroutine.
Tick(c) ==
  LET s == ticker[c].sample
      b == Bucket(s)
  IN
  /\ ticker[c].stage = "holding"
  /\ live'    = [live EXCEPT ![b] = Amount(@) + s.amount]
  /\ ticked'  = [ticked EXCEPT ![b] = @ + s.amount]
  /\ belated' = IF MinuteOf(now) > b[2] THEN belated \cup {b} ELSE belated
  /\ ticker'  = [ticker EXCEPT ![c] = IF @.last THEN Off
                                      ELSE [@ EXCEPT !.stage = "armed", !.sample = NoSample]]
  /\ endedAt' = IF ticker[c].last THEN [endedAt EXCEPT ![c] = 0] ELSE endedAt
  /\ UNCHANGED <<now, sandbox, call, stored, flush, bounds, dropped>>

\* Flush reads the clock before it takes the lock.
Flush(f) ==
  /\ flush[f].stage = "idle"
  /\ flushes < MaxFlushes
  /\ flushes' = flushes + 1
  /\ flush' = [flush EXCEPT ![f] = [NoFlush EXCEPT !.stage = "collect", !.minute = MinuteOf(now)]]
  /\ UNCHANGED <<now, providerVars, live, stored, executes, crashes, endedAt, sums>>

Collect(f) ==
  LET closed == ClosedAt(flush[f].minute) IN
  /\ flush[f].stage = "collect"
  /\ flush' = [flush EXCEPT ![f].stage = "put", ![f].closed =
                 [b \in Buckets |-> IF b \in closed THEN live[b] ELSE NoRow]]
  /\ live'  = [b \in Buckets |-> IF b \in closed THEN NoRow ELSE live[b]]
  /\ UNCHANGED <<now, providerVars, stored, bounds, endedAt, sums>>

\* The row of a closed bucket replaces what the store has under its key.
PutRow(f, b) ==
  /\ flush[f].stage = "put" /\ flush[f].closed[b] # NoRow
  /\ stored' = [stored EXCEPT ![b] = flush[f].closed[b]]
  /\ flush'  = [flush EXCEPT ![f].closed[b] = NoRow]
  /\ UNCHANGED <<now, providerVars, live, bounds, endedAt, sums>>

\* Flush returns: all rows are written, or a Put failed and the rest is dropped.
FlushReturns(f) ==
  /\ flush[f].stage = "put"
  /\ dropped' = dropped \cup RowsOf(flush[f].closed)
  /\ flush' = [flush EXCEPT ![f] = NoFlush]
  /\ UNCHANGED <<now, providerVars, live, stored, bounds, endedAt, ticked, belated>>

-----------------------------------------------------------------------------
\* The process dies and a new one starts; its handles are new ones.
Crash ==
  /\ crashes < MaxCrashes
  /\ crashes' = crashes + 1
  /\ sandbox' = [x \in Sandboxes |-> [sandbox[x] EXCEPT !.state =
                                        IF @ = "known" THEN "gone" ELSE @]]
  /\ call'    = [c \in Calls |-> NoCall]
  /\ ticker'  = [c \in Calls |-> Off]
  /\ live'    = Empty
  /\ flush'   = [f \in Flushers |-> NoFlush]
  /\ endedAt' = [c \in Calls |-> 0]
  /\ dropped' = dropped \cup RowsOf(live) \cup UNION {RowsOf(flush[f].closed) : f \in Flushers}
  /\ UNCHANGED <<now, stored, executes, flushes, ticked, belated>>

\* Nothing is in progress; not a step of the code.
Quiescent ==
  /\ \A c \in Calls : call[c].stage = "idle" /\ ticker[c].stage = "off"
  /\ \A f \in Flushers : flush[f].stage = "idle"
  /\ UNCHANGED vars

Next ==
  \/ Advance
  \/ \E x \in Sandboxes : Provision(x) \/ Terminate(x)
                          \/ \E t \in Tenants : LabelHandle(x, t)
  \/ \E c \in Calls : \/ \E x \in Sandboxes : Execute(c, x)
                      \/ Refuse(c) \/ Run(c) \/ ExecuteEnds(c) \/ TakeSample(c) \/ Tick(c)
  \/ \E f \in Flushers : \/ Flush(f) \/ Collect(f) \/ FlushReturns(f)
                         \/ \E b \in Buckets : PutRow(f, b)
  \/ Crash \/ Quiescent

Spec == Init /\ [][Next]_vars

-----------------------------------------------------------------------------
TypeOK ==
  /\ now \in 0..MaxTime
  /\ sandbox \in [Sandboxes -> [state : {"unborn", "known", "gone"}, tenant : Labels,
                                started : 0..MaxTime, metered : 0..MaxTime]]
  /\ call \in [Calls -> [stage : {"idle", "found", "running"}, box : Sandboxes]]
  /\ ticker \in [Calls -> [stage : {"off", "armed", "holding"}, box : Sandboxes, done : BOOLEAN,
                           last : BOOLEAN, sample : Sample]]
  /\ live \in Rows /\ stored \in Rows
  /\ flush \in [Flushers -> [stage : {"idle", "collect", "put"},
                             minute : 0..MinuteOf(MaxTime), closed : Rows]]
  /\ executes \in 0..MaxExecutes /\ flushes \in 0..MaxFlushes /\ crashes \in 0..MaxCrashes
  /\ ticked \in [Buckets -> Nat] /\ dropped \subseteq Buckets /\ belated \subseteq Buckets

\* What the aggregator holds of bucket b, in memory, on its way and on disk.
Held(b) == Amount(live[b]) + Amount(stored[b])
             + SumFunction([f \in Flushers |-> Amount(flush[f].closed[b])])

\* Nobody is billed twice: all rows together, with the samples still on their
\* way, never exceed the time the sandboxes existed up to their last sample,
\* however many Executes share a sandbox and however they overlap.
NeverOverbilled ==
  SumFunction([b \in Buckets |-> Held(b)])
    + SumFunction([c \in Calls |-> ticker[c].sample.amount])
  <= SumFunction([x \in Sandboxes |-> sandbox[x].metered - sandbox[x].started])

\* Every sample of a bucket whose samples all came within its minute is held
\* somewhere, unless a failed flush or a crash dropped its row: a flush overtakes no
\* sample that was on time.
TimelySamplesAddUp ==
  \A b \in Buckets \ (belated \cup dropped) : Held(b) = ticked[b]

\* When a ticker stops, every instant of its Execute is metered.
LastSampleCoversExecute ==
  \A c \in Calls :
    ticker[c].stage # "off" /\ ticker'[c].stage = "off" /\ crashes' = crashes =>
      \A t \in {endedAt[c], endedAt'[c]} : t <= sandbox'[ticker[c].box].metered

\* Both: no time of an Execute goes unbilled, neither because it was not sampled
\* nor because its sample was lost on the way.
NothingGoesUnbilled == [][TimelySamplesAddUp' /\ LastSampleCoversExecute]_vars

-----------------------------------------------------------------------------
\* What the source says and the code does not do: "Samples whose At lands in the
\* same (key, agent, image, minute) bucket accumulate; values are added"
\* (usage_aggregator.go:73).
SamplesAccumulate == \A b \in Buckets \ dropped : Held(b) = ticked[b]

=============================================================================
