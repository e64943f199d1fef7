----------------------------- MODULE IndexedTable -----------------------------
(***************************************************************************)
(* buildIndexedTableHandler: the three-stage chain that builds a table.    *)
(* The first stage collects a topic map, the second expands it in batches  *)
(* with a pool of workers (expandIndexedBatches), and is repeated to       *)
(* replace what was rejected, the third selects rows by index.  Nothing is *)
(* emitted before the whole table is valid.                                *)
(*                                                                         *)
(* Every upstream call goes through streamCollect, which tries again after *)
(* a connection torn down in mid-stream.  The context may end at any time: *)
(* by the deadline or because the caller left.  What an upstream answers   *)
(* is a choice: rows, indices, or a failure.  The jobs channel has no      *)
(* buffer, so an index is handed from the dispatcher to a worker in one    *)
(* step.                                                                   *)
(***************************************************************************)
EXTENDS Integers, Sequences, FiniteSets, Functions, Enumerations

CONSTANTS
  Rows,            \* the rows an upstream can answer with, all cells non-empty
  Title,           \* [Rows -> title, case and spaces normalised]
  Partition,       \* [Rows -> value of the batch column]
  Obeying,         \* the rows that meet every column rule
  Replies,         \* sequences of rows an expansion may be answered with
  Selections,      \* sequences of indices a selection may be answered with
  TargetRows, CandidateRows, BatchSize, MaxConcurrency,
  BatchValues,     \* a partition for each batch, or <<>>
  MinPerPartition, MaxRepairs,
  MaxRetries       \* streamCollectMaxRetries; 3 in the code

\* IndexedTable.Validate.
Validated ==
  /\ TargetRows \in 1..CandidateRows
  /\ \/ BatchSize = 0 /\ MaxConcurrency = 0
     \/ BatchSize \in 1..CandidateRows /\ MaxConcurrency \in 1..8
  /\ MaxRepairs \in 0..3
  /\ BatchValues # <<>> =>
       /\ BatchSize # 0 /\ IsInjective(BatchValues)
       /\ Len(BatchValues) = (CandidateRows + BatchSize - 1) \div BatchSize
  /\ MinPerPartition \in Nat
  /\ MinPerPartition > 0 => BatchValues # <<>> /\ MinPerPartition <= TargetRows \div Len(BatchValues)

ASSUME TableAssumption ==
  /\ Validated /\ CandidateRows \in Nat /\ MaxRetries \in Nat \ {0}
  /\ Obeying \subseteq Rows /\ Replies \subseteq Seq(Rows) /\ Selections \subseteq Seq(Int)
  /\ BatchValues \in Seq(Range(BatchValues))

VARIABLES
  stage,       \* where the handler's goroutine is
  repair,      \* attempt of the expansion or the selection
  tries,       \* torn-down streams of the call in progress of that goroutine
  expired,     \* the handler's context is done
  rows,        \* the unique candidate rows
  selected,    \* the rows of the last valid selection
  emitted,     \* chunks put in the out channel
  reason,      \* why the handler failed
  dispatched,  \* indices handed to workers
  closed,      \* the jobs channel is closed
  worker,      \* [Workers -> [at, index, tries]]
  results,     \* the slot of each batch; a slot nobody wrote is empty
  cancelled,   \* the pool's context was cancelled by a worker
  poolError,   \* firstErr
  answered     \* history: the batches whose rows were validated

pool == <<dispatched, closed, worker, results, cancelled, poolError, answered>>
vars == <<stage, repair, tries, expired, rows, selected, emitted, reason, pool>>

-----------------------------------------------------------------------------
Stages  == {"collect", "expand", "select", "delta", "done", "ended", "failed"}
Reasons == {"none", "upstream", "content", "context"}
Workers == 1..(IF BatchSize = 0 THEN 1 ELSE MaxConcurrency)
Off     == [at |-> "off", index |-> 0, tries |-> 0]
Waiting == [at |-> "waiting", index |-> 0, tries |-> 0]

\* How many rows the expansion asks for, in batches of what size.
Count   == IF repair = 0 THEN CandidateRows ELSE TargetRows - Len(rows)
SizeOf(count)    == IF BatchSize = 0 THEN count ELSE BatchSize
BatchesOf(count) == (count + SizeOf(count) - 1) \div SizeOf(count)
Batches == BatchesOf(Count)
TargetOf(index) == IF Count - (index - 1) * SizeOf(Count) < SizeOf(Count)
                   THEN Count - (index - 1) * SizeOf(Count) ELSE SizeOf(Count)

PoolDone == expired \/ cancelled
Over     == stage \in {"ended", "failed"}

\* The rows of a reply that batch index keeps.
InPartition(r, index) ==
  BatchValues # <<>> /\ repair = 0 => Partition[r] = BatchValues[index]
Kept(reply, index) ==
  Picked(reply, {i \in DOMAIN reply :
    i <= TargetOf(index) /\ reply[i] \in Obeying /\ InPartition(reply[i], index)})

-----------------------------------------------------------------------------
(***************************************************************************)
(* Mutated forms: what a definition would be after a plausible slip in the *)
(* code.  No specification uses them; each shows that a property can fail. *)
(***************************************************************************)

\* The loop of tries goes one too far.
MayRetry_OneMore(used, done) == ~done /\ used < MaxRetries

\* The stream is torn down and there is a try left.
MayRetry(used, done) == ~done /\ used + 1 < MaxRetries

\* Rows are compared as a whole.
Merge_WholeRow(known, found) ==
  LET all == known \o found
  IN Picked(all, {i \in DOMAIN all : i > Len(known) => \A j \in 1..i - 1 : all[j] # all[i]})

\* Candidates with a new title are appended, in order.
Merge(known, found) ==
  LET all == known \o found
  IN Picked(all, {i \in DOMAIN all :
                    i > Len(known) => \A j \in 1..i - 1 : Title[all[j]] # Title[all[i]]})

\* The context is not looked at after the workers have left.
PoolSucceeded_IgnoresContext == poolError = "none"

\* firstErr is nil and the context still open.
PoolSucceeded == poolError = "none" /\ ~expired

\* fail without the sync.Once.
FirstError_LastWins(why) == why

\* sync.Once keeps the first error.
FirstError(why) == IF poolError = "none" THEN why ELSE poolError

\* The dispatcher only stops at the end of the batches.
DispatcherStops_AtTheEnd == dispatched = Batches

\* The dispatcher has handed out everything, or sees that the pool is done.
DispatcherStops == dispatched = Batches \/ PoolDone

-----------------------------------------------------------------------------
\* Nobody works in the pool.
NoPool == /\ dispatched = 0 /\ closed = FALSE /\ cancelled = FALSE /\ poolError = "none"
          /\ worker = [w \in Workers |-> Off] /\ results = <<>> /\ answered = {}
PoolLeft == /\ dispatched' = 0 /\ closed' = FALSE /\ cancelled' = FALSE /\ poolError' = "none"
            /\ worker' = [w \in Workers |-> Off] /\ results' = <<>> /\ answered' = {}

Init ==
  /\ stage = "collect" /\ repair = 0 /\ tries = 0 /\ expired = FALSE
  /\ rows = <<>> /\ selected = <<>> /\ emitted = 0 /\ reason = "none"
  /\ NoPool

\* The deadline of the handler passes, or its caller cancels.
Expire ==
  /\ ~expired /\ ~Over
  /\ expired' = TRUE
  /\ UNCHANGED <<stage, repair, tries, rows, selected, emitted, reason, pool>>

Fail(why) ==
  /\ stage' = "failed" /\ reason' = why
  /\ UNCHANGED <<repair, tries, expired, rows, selected, emitted>>

-----------------------------------------------------------------------------
(***************************************************************************)
(* Upstream calls: streamCollect.                                          *)
(***************************************************************************)

\* The call ends with an error: the upstream's, the one of the last try, or the
\* context's.
CallFails(why, done) == why \in {"upstream"} \cup (IF done THEN {"context"} ELSE {})

Retry ==
  /\ stage \in {"collect", "select"} /\ MayRetry(tries, expired)
  /\ tries' = tries + 1
  /\ UNCHANGED <<stage, repair, expired, rows, selected, emitted, reason, pool>>

StageFails ==
  /\ stage \in {"collect", "select"}
  /\ \E why \in Reasons : CallFails(why, expired) /\ Fail(why)
  /\ UNCHANGED pool

\* expandIndexedBatches begins: its workers wait for an index.
OpenPool(count) ==
  /\ dispatched' = 0 /\ closed' = FALSE /\ cancelled' = FALSE /\ poolError' = "none"
  /\ worker' = [w \in Workers |-> IF w <= BatchesOf(count) THEN Waiting ELSE Off]
  /\ results' = [b \in 1..BatchesOf(count) |-> <<>>] /\ answered' = {}

Collected ==
  /\ stage = "collect" /\ ~expired
  /\ stage' = "expand" /\ tries' = 0
  /\ OpenPool(CandidateRows)
  /\ UNCHANGED <<repair, expired, rows, selected, emitted, reason>>

-----------------------------------------------------------------------------
(***************************************************************************)
(* expandIndexedBatches.                                                   *)
(***************************************************************************)
outside == <<stage, repair, tries, expired, rows, selected, emitted, reason>>

\* jobs <- index
Hand(w) ==
  /\ stage = "expand" /\ ~closed /\ dispatched < Batches /\ worker[w].at = "waiting"
  /\ dispatched' = dispatched + 1
  /\ worker' = [worker EXCEPT ![w] = [at |-> "handed", index |-> dispatched + 1, tries |-> 0]]
  /\ UNCHANGED <<outside, closed, results, cancelled, poolError, answered>>

CloseJobs ==
  /\ stage = "expand" /\ ~closed /\ DispatcherStops
  /\ closed' = TRUE
  /\ UNCHANGED <<outside, dispatched, worker, results, cancelled, poolError, answered>>

\* A worker finds the pool done and leaves its index undone, or calls upstream.
Begin(w) ==
  /\ worker[w].at = "handed"
  /\ worker' = [worker EXCEPT ![w] = IF PoolDone THEN Off ELSE [@ EXCEPT !.at = "calling"]]
  /\ UNCHANGED <<outside, dispatched, closed, results, cancelled, poolError, answered>>

WorkerRetries(w) ==
  /\ worker[w].at = "calling" /\ MayRetry(worker[w].tries, PoolDone)
  /\ worker' = [worker EXCEPT ![w].tries = @ + 1]
  /\ UNCHANGED <<outside, dispatched, closed, results, cancelled, poolError, answered>>

\* The call fails, or its answer has not the shape of a table: cancel the peers.
WorkerFails(w) ==
  /\ worker[w].at = "calling"
  /\ \E why \in Reasons :
       /\ CallFails(why, PoolDone) \/ why = "content"
       /\ poolError' = FirstError(why)
  /\ cancelled' = TRUE
  /\ worker' = [worker EXCEPT ![w] = Off]
  /\ UNCHANGED <<outside, dispatched, closed, results, answered>>

\* The rows of a batch are validated and put in its slot.
WorkerKeeps(w, reply) ==
  LET index == worker[w].index IN
  /\ worker[w].at = "calling" /\ ~PoolDone
  /\ results'  = [results EXCEPT ![index] = Kept(reply, index)]
  /\ answered' = answered \cup {index}
  /\ worker'   = [worker EXCEPT ![w] = Waiting]
  /\ UNCHANGED <<outside, dispatched, closed, cancelled, poolError>>

\* The jobs channel is closed.
WorkerLeaves(w) ==
  /\ worker[w].at = "waiting" /\ closed
  /\ worker' = [worker EXCEPT ![w] = Off]
  /\ UNCHANGED <<outside, dispatched, closed, results, cancelled, poolError, answered>>

\* wg.Wait() has returned.
Joined == stage = "expand" /\ closed /\ \A w \in Workers : worker[w].at = "off"

PoolFails ==
  /\ Joined /\ ~PoolSucceeded
  /\ Fail(IF poolError # "none" THEN poolError ELSE "context")
  /\ PoolLeft

\* The places of the rows of a partition.
Bucket(rs, value) == {p \in DOMAIN rs : Partition[rs[p]] = value}

\* The round in which the row at p is taken, its turn in that round, and p: the
\* first row of each partition, the second of each, and so on; the rows of no
\* declared partition come after all of these, as they are.
Seat(rs, p) ==
  LET own == {i \in DOMAIN BatchValues : BatchValues[i] = Partition[rs[p]]}
  IN IF own = {} THEN <<Len(rs) + p, 0, p>>
     ELSE <<Cardinality(Bucket(rs, Partition[rs[p]]) \cap 1..p), CHOOSE i \in own : TRUE, p>>

\* interleaveIndexedPartitions.
InterleavePartitions(rs) ==
  LET seats == {Seat(rs, p) : p \in DOMAIN rs}
      order == Enumeration(seats, Lexicographic(seats))
  IN IF BatchValues = <<>> THEN rs ELSE [k \in 1..Cardinality(seats) |-> rs[order[k][3]]]

\* There are rows enough, another expansion is asked for what is missing, or
\* the repairs are used up.
Continue(unique) ==
  \/ /\ Len(unique) >= TargetRows
     /\ stage' = "select" /\ repair' = 0 /\ rows' = InterleavePartitions(unique)
     /\ UNCHANGED reason
     /\ PoolLeft
  \/ /\ Len(unique) < TargetRows /\ repair < MaxRepairs
     /\ repair' = repair + 1 /\ rows' = unique
     /\ UNCHANGED <<stage, reason>>
     /\ OpenPool(TargetRows - Len(unique))
  \/ /\ Len(unique) < TargetRows /\ repair >= MaxRepairs
     /\ stage' = "failed" /\ reason' = "content" /\ rows' = unique
     /\ UNCHANGED repair
     /\ PoolLeft

\* The batches are put together in their order (bound, so that TLC evaluates
\* each of the two sequences once).
PoolSucceeds ==
  /\ Joined /\ PoolSucceeded
  /\ \E found \in {Flattened(results)} : \E unique \in {Merge(rows, found)} : Continue(unique)
  /\ UNCHANGED <<tries, expired, selected, emitted>>

-----------------------------------------------------------------------------
\* selectIndexedRows, and the share of every partition.
Enough(rs) == \A i \in DOMAIN BatchValues : Cardinality(Bucket(rs, BatchValues[i])) >= MinPerPartition
Selects(indices) ==
  /\ Len(indices) = TargetRows /\ IsInjective(indices)
  /\ \A i \in DOMAIN indices : indices[i] \in DOMAIN rows
  /\ MinPerPartition > 0 => Enough([i \in DOMAIN indices |-> rows[indices[i]]])

SelectionValid(indices) ==
  /\ stage = "select" /\ ~expired /\ Selects(indices)
  /\ selected' = [i \in DOMAIN indices |-> rows[indices[i]]]
  /\ stage' = "delta" /\ tries' = 0
  /\ UNCHANGED <<repair, expired, rows, emitted, reason, pool>>

\* Invalid indices, or an answer that is no list of indices.
SelectionInvalid ==
  /\ stage = "select" /\ ~expired
  /\ tries' = 0
  /\ IF repair < MaxRepairs THEN repair' = repair + 1 /\ UNCHANGED <<stage, reason>>
     ELSE stage' = "failed" /\ reason' = "content" /\ UNCHANGED repair
  /\ UNCHANGED <<expired, rows, selected, emitted, pool>>

\* out <- the snapshot, then out <- Done; the channel has room for both.
Emit ==
  /\ stage \in {"delta", "done"}
  /\ emitted' = emitted + 1
  /\ stage'   = IF stage = "delta" THEN "done" ELSE "ended"
  /\ UNCHANGED <<repair, tries, expired, rows, selected, reason, pool>>

EmitAborts ==
  /\ stage \in {"delta", "done"} /\ expired
  /\ Fail("context")
  /\ UNCHANGED pool

-----------------------------------------------------------------------------
WorkerStep(w) ==
  \/ Hand(w) \/ Begin(w) \/ WorkerRetries(w) \/ WorkerFails(w) \/ WorkerLeaves(w)
  \/ \E reply \in Replies : WorkerKeeps(w, reply)

HandlerStep ==
  \/ Retry \/ StageFails \/ Collected
  \/ CloseJobs \/ PoolFails \/ PoolSucceeds
  \/ (\E indices \in Selections : SelectionValid(indices)) \/ SelectionInvalid
  \/ Emit \/ EmitAborts

Next ==
  \/ Expire \/ HandlerStep
  \/ \E w \in Workers : WorkerStep(w)

Spec == Init /\ [][Next]_vars

\* Goroutines run and upstream calls end: with an answer, an error, or because
\* their context is done.
FairSpec == Spec /\ WF_vars(HandlerStep) /\ \A w \in Workers : WF_vars(WorkerStep(w))

-----------------------------------------------------------------------------
TypeOK ==
  /\ stage \in Stages /\ repair \in 0..MaxRepairs /\ tries \in 0..MaxRetries - 1
  /\ expired \in BOOLEAN /\ closed \in BOOLEAN /\ cancelled \in BOOLEAN
  /\ rows \in Seq(Rows) /\ selected \in Seq(Rows) /\ emitted \in 0..2
  /\ reason \in Reasons /\ poolError \in Reasons
  /\ worker \in [Workers -> [at : {"off", "waiting", "handed", "calling"}, index : Nat,
                             tries : 0..MaxRetries - 1]]
  /\ stage = "expand" =>
       /\ dispatched \in 0..Batches /\ DOMAIN results = 1..Batches
       /\ \A w \in Workers : worker[w].at \in {"handed", "calling"} => worker[w].index \in 1..dispatched

\* "The handler publishes no chunks until every row and index is validated": what
\* is emitted is a table of exactly the target's rows, with no title twice, each
\* row within the rules and every partition with its share.
EmittedTableIsValid ==
  emitted > 0 =>
    /\ Len(selected) = TargetRows
    /\ \A i, j \in DOMAIN selected : Title[selected[i]] = Title[selected[j]] => i = j
    /\ \A i \in DOMAIN selected : selected[i] \in Obeying
    /\ Enough(selected)

\* The rows of an expansion are used only if every one of its batches was
\* answered and validated: a worker that left its index undone, because the
\* context ended, never makes a shorter table.
EveryBatchValidated ==
  Joined /\ (stage' = "select" \/ repair' # repair) => answered = 1..Batches

\* Both, all or nothing: no step emits a table but a valid one, none goes on to
\* the selection without every batch.
AllOrNothing == [][EmittedTableIsValid' /\ EveryBatchValidated]_vars

\* The error of a failed expansion is what went wrong first, not the
\* cancellation of the peers it caused.
ErrorIsTheCause == reason = "context" => expired

\* Nobody waits for nobody: while the handler is in an expansion it has been
\* joined, or the dispatcher may close the channel, or a worker has something to
\* do or is handed something.
PoolMoves ==
  stage = "expand" =>
    \/ Joined
    \/ ~closed /\ DispatcherStops
    \/ \E w \in Workers : worker[w].at \in {"handed", "calling"}
    \/ \E w \in Workers : worker[w].at = "waiting" /\ (closed \/ dispatched < Batches)

\* "All workers exit before return", and the handler does return: no dispatcher
\* waits for workers that have left, no worker for a dispatcher.
HandlerReturns == <>[](Over /\ \A w \in Workers : worker[w].at = "off")

=============================================================================
