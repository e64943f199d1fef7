------------------------------ MODULE Scheduler ------------------------------
(***************************************************************************)
(* pkg/scheduler: the time wheel, the persisted job specs, the idempotency *)
(* fingerprints and LoadFromStore, which replays what was missed while the *)
(* process was down.                                                       *)
(*                                                                         *)
(* Time is counted in half minutes: an even instant is second zero of a    *)
(* minute, the only second at which a cron expression matches; an odd one  *)
(* is the rest of that minute.  A cron expression is the set of minutes it *)
(* matches.  The wheel may tick several times in an instant or miss it: a  *)
(* 1 Hz ticker is not aligned with second zero.  Each fire runs in its own *)
(* goroutine: a thread that checks the fingerprint, runs the callback and  *)
(* records the fingerprint, in three steps other threads interleave with.  *)
(* A crash drops the wheel, the threads and the loader; the store stays.   *)
(***************************************************************************)
EXTENDS Integers, FiniteSets

CONSTANTS
  Jobs,        \* job ids
  OneShots,    \* the jobs with a RunAt instead of a cron expression
  Matches,     \* [Jobs -> set of minutes], the cron expression of the others
  RunAt,       \* [Jobs -> minute], meaningful for OneShots
  Key,         \* [Jobs -> Keys \cup {NoKey}], the IdempotencyKey
  Policy,      \* [Jobs -> {"skip", "once", "backfill"}], the MissedFirePolicy
  Keys, NoKey,
  NoJob,
  Handled,     \* jobs whose Fire callback LoadFromStore's resolver finds
  Window,      \* DedupWindow, in half minutes
  MaxMatches,  \* the most matches one replay takes up, a week of minutes in the code
  MaxTime,     \* bound: the last instant
  MaxCalls,    \* bound: calls of Add, Cancel, SavePersistent, DeletePersistent
  MaxCrashes   \* bound: crashes

ASSUME JobsAssumption ==
  /\ NoJob \notin Jobs /\ NoKey \notin Keys
  /\ OneShots \subseteq Jobs /\ Handled \subseteq Jobs
  /\ Matches \in [Jobs -> SUBSET Nat]
  /\ RunAt   \in [Jobs -> Nat]
  /\ Key     \in [Jobs -> Keys \cup {NoKey}]
  /\ Policy  \in [Jobs -> {"skip", "once", "backfill"}]
ASSUME TimeAssumption == Window \in Nat \ {0} /\ MaxMatches \in Nat \ {0} /\ MaxTime \in Nat

VARIABLES
  now,          \* the wall clock
  wheel,        \* the jobs in TimeWheel.jobs
  guarded,      \* those of them whose Fire is wrapped by wrapFireWithDedup
  spent,        \* the one-shots of the wheel whose fired flag is set
  threads,      \* running fires: [job, keyed, stage, at]
  saved,        \* the jobs with a spec in scheduler.jobs
  lastFired,    \* [Jobs -> time], PersistedJob.LastFiredAt
  fingerprint,  \* [Keys -> time], scheduler.dedup
  loader,       \* LoadFromStore in progress
  fresh,        \* nothing was added to this process's wheel yet
  calls, crashes,   \* history: for the bounds
  delivered,    \* history: [Jobs -> set of times], completed fires
  completed,    \* history: [Keys -> set of times], completed fires of each key
  recorded,     \* history: [Keys -> set of times], fires that were recorded
  overlapped,   \* history: keys that had two fires in flight at once
  credit,       \* history: [OneShots -> Int], Adds less live fires
  horizon       \* history: [Jobs -> time], where the replay of a backfill job began

wheelVars   == <<wheel, guarded, spent>>
storeVars   == <<saved, lastFired, fingerprint>>
historyVars == <<delivered, completed, recorded, overlapped, credit, horizon>>
vars == <<now, wheelVars, threads, storeVars, loader, fresh, calls, crashes, historyVars>>

-----------------------------------------------------------------------------
Never == -1           \* the zero time.Time
Time  == Nat

LoaderStages == {"off", "next", "catchup", "fire", "record", "persist"}
Idle == [stage |-> "off", todo |-> {}, job |-> NoJob, times |-> {}, at |-> 0,
         from |-> 0, asOf |-> 0]

Thread == [job : Jobs, keyed : BOOLEAN,
           stage : {"check", "fire", "record"}, at : Time]

Keyed(j)    == Key[j] # NoKey
Cron(j)     == j \notin OneShots
Backfill(j) == Cron(j) /\ Policy[j] = "backfill"

\* cronSpec.matches: the expression matches this minute and the second is zero.
MatchesAt(j, t) == t % 2 = 0 /\ t \div 2 \in Matches[j]

\* The matches in (from, to].
AllBetween(j, from, to) == {t \in 0..to : from < t /\ MatchesAt(j, t)}

\* cronMatchesBetween: the oldest MaxMatches of them.
MatchesBetween(j, from, to) ==
  {t \in AllBetween(j, from, to) :
     Cardinality({u \in AllBetween(j, from, to) : u < t}) < MaxMatches}

\* The matches in (from, to] that cronMatchesBetween leaves out.
LeftOut(j, from, to) == AllBetween(j, from, to) \ MatchesBetween(j, from, to)

\* The start of the missed window: LastFiredAt, or one DedupWindow back.
MissedFrom(j, asOf) == IF lastFired[j] = Never THEN asOf - Window ELSE lastFired[j]

\* dedupSeen: a fingerprint less than one window older than t.
Seen(k, t) == fingerprint[k] # Never /\ t - fingerprint[k] < Window

\* Fires of key k that passed the check and have not been recorded.
InFlight(k) == {th \in threads : th.keyed /\ Key[th.job] = k /\ th.stage # "check"}
LoaderInFlight(k) == /\ loader.stage \in {"fire", "record"}
                     /\ Keyed(loader.job) /\ Key[loader.job] = k

Init ==
  /\ now = 0
  /\ wheel = {} /\ guarded = {} /\ spent = {} /\ threads = {}
  /\ saved = Jobs
  /\ lastFired = [j \in Jobs |-> Never]
  /\ fingerprint = [k \in Keys |-> Never]
  /\ loader = Idle /\ fresh = TRUE
  /\ calls = 0 /\ crashes = 0
  /\ delivered = [j \in Jobs |-> {}]
  /\ completed = [k \in Keys |-> {}] /\ recorded = [k \in Keys |-> {}]
  /\ overlapped = {}
  /\ credit = [j \in OneShots |-> 0]
  /\ horizon = [j \in Jobs |-> 0]

\* The callback of job j, for the fire whose nominal time is t, has run.
Delivered(j, t) ==
  /\ delivered' = [delivered EXCEPT ![j] = IF Backfill(j) THEN @ \cup {t} ELSE @]
  /\ completed' = IF Keyed(j) THEN [completed EXCEPT ![Key[j]] = @ \cup {t}] ELSE completed

\* dedupRecord: the fingerprint of key k becomes t.
Fingerprint(k, t) ==
  /\ fingerprint' = [fingerprint EXCEPT ![k] = t]
  /\ recorded'    = [recorded EXCEPT ![k] = @ \cup {t}]

\* A fire of key k passes the check while another is in flight.
NoteOverlap(k) ==
  overlapped' = IF InFlight(k) # {} \/ LoaderInFlight(k)
                THEN overlapped \cup {k} ELSE overlapped

\* A thread goes on in another stage, or ends.
MoveThread(th, others) == threads' = (threads \ {th}) \cup others

-----------------------------------------------------------------------------
(***************************************************************************)
(* Mutated forms: what a definition would be after a plausible slip in the *)
(* code.  No specification uses them; each shows that a property can fail. *)
(***************************************************************************)

\* tick compares the instants for equality.
Due_OnTheInstant == {j \in wheel : IF Cron(j) THEN MatchesAt(j, now)
                                   ELSE j \notin spent /\ 2 * RunAt[j] = now}

\* The jobs a tick at this instant finds due.
Due == {j \in wheel : IF Cron(j) THEN MatchesAt(j, now)
                      ELSE j \notin spent /\ 2 * RunAt[j] <= now}

\* tick leaves it to the goroutine to set the fired flag.
Tick_KeepsFlag ==
  /\ threads' = threads \cup
       {[job |-> j, keyed |-> j \in guarded,
         stage |-> IF j \in guarded THEN "check" ELSE "fire", at |-> now] : j \in Due}
  /\ credit'  = [j \in OneShots |-> IF j \in Due THEN credit[j] - 1 ELSE credit[j]]
  /\ UNCHANGED <<now, wheelVars, storeVars, loader, fresh, calls, crashes,
                 delivered, completed, recorded, overlapped, horizon>>

\* The fingerprint is written before the callback runs.
ThreadCheck_RecordsFirst(th) ==
  /\ th \in threads /\ th.stage = "check"
  /\ \/ MoveThread(th, {}) /\ UNCHANGED <<overlapped, fingerprint, recorded>>
     \/ /\ ~Seen(Key[th.job], now)
        /\ MoveThread(th, {[th EXCEPT !.stage = "fire", !.at = now]})
        /\ NoteOverlap(Key[th.job])
        /\ Fingerprint(Key[th.job], now)
  /\ UNCHANGED <<now, wheelVars, saved, lastFired, loader, fresh, calls, crashes,
                 delivered, completed, credit, horizon>>

\* LoadFromStore clears every fingerprint instead of the old ones.
LoadStart_PrunesAll ==
  /\ loader.stage = "off" /\ fresh
  /\ fresh' = FALSE
  /\ fingerprint' = [k \in Keys |-> Never]
  /\ loader' = [Idle EXCEPT !.stage = "next", !.asOf = now, !.todo = saved \cap Handled]
  /\ UNCHANGED <<now, wheelVars, threads, saved, lastFired, calls, crashes, historyVars>>

\* A zero now is not replaced by the current time.
LoadStart_ZeroNow ==
  /\ loader.stage = "off" /\ fresh
  /\ fresh' = FALSE
  /\ loader' = [Idle EXCEPT !.stage = "next", !.asOf = Never, !.todo = saved \cap Handled]
  /\ UNCHANGED <<now, wheelVars, threads, storeVars, calls, crashes, historyVars>>

\* A replayed fire is stamped with the time of the replay.
CatchUpPersist_StampsNow ==
  /\ loader.stage = "persist"
  /\ loader'    = [loader EXCEPT !.stage = "catchup", !.times = @ \ {loader.at}, !.at = 0]
  /\ saved'     = saved \cup {loader.job}
  /\ lastFired' = [lastFired EXCEPT ![loader.job] = loader.asOf]
  /\ UNCHANGED <<now, wheelVars, threads, fingerprint, fresh, calls, crashes, historyVars>>

-----------------------------------------------------------------------------
(***************************************************************************)
(* The clock and the wheel.                                                *)
(***************************************************************************)
Advance ==
  /\ now < MaxTime
  /\ now' = now + 1
  /\ UNCHANGED <<wheelVars, threads, storeVars, loader, fresh, calls, crashes,
                 historyVars>>

\* TimeWheel.tick: the due jobs are collected under the lock, and every one of
\* them gets a goroutine.
Tick ==
  /\ spent'   = spent \cup (Due \cap OneShots)
  /\ threads' = threads \cup
       {[job |-> j, keyed |-> j \in guarded,
         stage |-> IF j \in guarded THEN "check" ELSE "fire", at |-> now] : j \in Due}
  /\ credit'  = [j \in OneShots |-> IF j \in Due THEN credit[j] - 1 ELSE credit[j]]
  /\ UNCHANGED <<now, wheel, guarded, storeVars, loader, fresh, calls, crashes,
                 delivered, completed, recorded, overlapped, horizon>>

\* wrapFireWithDedup, first part: the fire stops when the key was seen in the
\* window before now, or when the store does not answer.
ThreadCheck(th) ==
  /\ th \in threads /\ th.stage = "check"
  /\ \/ MoveThread(th, {}) /\ UNCHANGED overlapped
     \/ /\ ~Seen(Key[th.job], now)
        /\ MoveThread(th, {[th EXCEPT !.stage = "fire", !.at = now]})
        /\ NoteOverlap(Key[th.job])
  /\ UNCHANGED <<now, wheelVars, storeVars, loader, fresh, calls, crashes,
                 delivered, completed, recorded, credit, horizon>>

ThreadFire(th) ==
  /\ th \in threads /\ th.stage = "fire"
  /\ MoveThread(th, IF th.keyed THEN {[th EXCEPT !.stage = "record"]} ELSE {})
  /\ Delivered(th.job, th.at)
  /\ UNCHANGED <<now, wheelVars, storeVars, loader, fresh, calls, crashes,
                 recorded, overlapped, credit, horizon>>

\* wrapFireWithDedup, last part: an error of the store is dropped.
ThreadRecord(th) ==
  /\ th \in threads /\ th.stage = "record"
  /\ MoveThread(th, {})
  /\ \/ Fingerprint(Key[th.job], th.at)
     \/ UNCHANGED <<fingerprint, recorded>>
  /\ UNCHANGED <<now, wheelVars, saved, lastFired, loader, fresh, calls, crashes,
                 delivered, completed, overlapped, credit, horizon>>

-----------------------------------------------------------------------------
(***************************************************************************)
(* Calls of the host.  LoadFromStore runs before the host serves requests, *)
(* so none of these happens while it is in progress.                       *)
(***************************************************************************)
Called == /\ loader.stage = "off"
          /\ calls < MaxCalls
          /\ calls' = calls + 1

PutInWheel(j, wrapped) ==
  /\ wheel'   = wheel \cup {j}
  /\ guarded' = IF wrapped THEN guarded \cup {j} ELSE guarded \ {j}
  /\ spent'   = spent \ {j}
  /\ credit'  = IF j \in OneShots THEN [credit EXCEPT ![j] = @ + 1] ELSE credit

\* TimeWheel.Add with the callback as the caller gave it.
Add(j) ==
  /\ Called
  /\ PutInWheel(j, FALSE)
  /\ fresh'    = FALSE
  /\ UNCHANGED <<now, threads, storeVars, loader, crashes,
                 delivered, completed, recorded, overlapped, horizon>>

Cancel(j) ==
  /\ Called
  /\ wheel' = wheel \ {j} /\ guarded' = guarded \ {j} /\ spent' = spent \ {j}
  /\ UNCHANGED <<now, threads, storeVars, loader, fresh, crashes, historyVars>>

\* SavePersistent of a spec whose LastFiredAt is zero, as the host's schedule
\* hook writes it on every registration.
Save(j) ==
  /\ Called
  /\ saved'     = saved \cup {j}
  /\ lastFired' = [lastFired EXCEPT ![j] = Never]
  /\ UNCHANGED <<now, wheelVars, threads, fingerprint, loader, fresh, crashes, historyVars>>

Forget(j) ==
  /\ Called
  /\ saved' = saved \ {j}
  /\ UNCHANGED <<now, wheelVars, threads, lastFired, fingerprint, loader, fresh, crashes,
                 historyVars>>

-----------------------------------------------------------------------------
(***************************************************************************)
(* LoadFromStore, on the fresh wheel of a process that just started.       *)
(***************************************************************************)

\* Prune the fingerprints older than the window, then list the specs.
LoadStart ==
  /\ loader.stage = "off" /\ fresh
  /\ fresh' = FALSE
  /\ fingerprint' = [k \in Keys |-> IF fingerprint[k] < now - Window THEN Never
                                    ELSE fingerprint[k]]
  /\ loader' = [Idle EXCEPT !.stage = "next", !.asOf = now, !.todo = saved \cap Handled]
  /\ UNCHANGED <<now, wheelVars, threads, saved, lastFired, calls, crashes, historyVars>>

\* The fires applyMissedFire owes job j.
Missed(j, asOf) ==
  LET between == MatchesBetween(j, MissedFrom(j, asOf), asOf) IN
  IF Policy[j] = "skip" THEN {}
  ELSE IF j \in OneShots
       THEN IF 2 * RunAt[j] < asOf /\ lastFired[j] = Never THEN {asOf} ELSE {}
       ELSE IF Policy[j] = "backfill" THEN between
            ELSE IF between # {} THEN {asOf} ELSE {}

LoadNext(j) ==
  /\ loader.stage = "next" /\ j \in loader.todo
  /\ loader'  = [loader EXCEPT !.stage = "catchup", !.todo = @ \ {j}, !.job = j,
                               !.times = Missed(j, loader.asOf),
                               !.from = MissedFrom(j, loader.asOf)]
  /\ horizon' = [horizon EXCEPT ![j] = IF Backfill(j) /\ lastFired[j] = Never
                                       THEN loader.asOf - Window ELSE @]
  /\ UNCHANGED <<now, wheelVars, threads, storeVars, fresh, calls, crashes,
                 delivered, completed, recorded, overlapped, credit>>

\* tryFire, first part, for the earliest time left: nothing if the key was seen.
CatchUpCheck(t) ==
  /\ loader.stage = "catchup"
  /\ t \in loader.times /\ \A u \in loader.times : t <= u
  /\ IF Keyed(loader.job) /\ Seen(Key[loader.job], t)
     THEN loader' = [loader EXCEPT !.times = @ \ {t}] /\ UNCHANGED overlapped
     ELSE /\ loader' = [loader EXCEPT !.stage = "fire", !.at = t]
          /\ IF Keyed(loader.job) THEN NoteOverlap(Key[loader.job]) ELSE UNCHANGED overlapped
  /\ UNCHANGED <<now, wheelVars, threads, storeVars, fresh, calls, crashes,
                 delivered, completed, recorded, credit, horizon>>

CatchUpFire ==
  /\ loader.stage = "fire"
  /\ loader'   = [loader EXCEPT !.stage = "record"]
  /\ Delivered(loader.job, loader.at)
  /\ UNCHANGED <<now, wheelVars, threads, storeVars, fresh, calls, crashes,
                 recorded, overlapped, credit, horizon>>

CatchUpRecord ==
  /\ loader.stage = "record"
  /\ loader' = [loader EXCEPT !.stage = "persist"]
  /\ IF Keyed(loader.job) THEN Fingerprint(Key[loader.job], loader.at)
     ELSE UNCHANGED <<fingerprint, recorded>>
  /\ UNCHANGED <<now, wheelVars, threads, saved, lastFired, fresh, calls, crashes,
                 delivered, completed, overlapped, credit, horizon>>

\* tryFire, last part: the spec is written back with the new LastFiredAt.
CatchUpPersist ==
  /\ loader.stage = "persist"
  /\ loader'    = [loader EXCEPT !.stage = "catchup", !.times = @ \ {loader.at}, !.at = 0]
  /\ saved'     = saved \cup {loader.job}
  /\ lastFired' = [lastFired EXCEPT ![loader.job] = loader.at]
  /\ UNCHANGED <<now, wheelVars, threads, fingerprint, fresh, calls, crashes, historyVars>>

\* The job is caught up: attach its live handler.
LoadAdd ==
  /\ loader.stage = "catchup" /\ loader.times = {}
  /\ PutInWheel(loader.job, Keyed(loader.job))
  /\ loader' = [loader EXCEPT !.stage = "next", !.job = NoJob, !.from = 0]
  /\ UNCHANGED <<now, threads, storeVars, fresh, calls, crashes,
                 delivered, completed, recorded, overlapped, horizon>>

LoadDone ==
  /\ loader.stage = "next" /\ loader.todo = {}
  /\ loader' = Idle
  /\ UNCHANGED <<now, wheelVars, threads, storeVars, fresh, calls, crashes, historyVars>>

\* The store fails or the context ends: LoadFromStore returns the error and
\* leaves the jobs it has not reached out of the wheel.
LoadAborts ==
  /\ loader.stage # "off"
  /\ loader' = Idle
  /\ UNCHANGED <<now, wheelVars, threads, storeVars, fresh, calls, crashes, historyVars>>

LoadStep == \/ \E j \in Jobs : LoadNext(j)
            \/ \E t \in 0..MaxTime : CatchUpCheck(t)
            \/ CatchUpFire \/ CatchUpRecord \/ CatchUpPersist \/ LoadAdd \/ LoadDone

-----------------------------------------------------------------------------
\* The process dies, or exits through Stop, and a new one starts.
Crash ==
  /\ crashes < MaxCrashes
  /\ crashes' = crashes + 1
  /\ wheel' = {} /\ guarded' = {} /\ spent' = {} /\ threads' = {}
  /\ loader' = Idle /\ fresh' = TRUE
  /\ credit' = [j \in OneShots |-> 0]
  /\ UNCHANGED <<now, storeVars, calls, delivered, completed, recorded, overlapped,
                 horizon>>

ThreadStep(th) == ThreadCheck(th) \/ ThreadFire(th) \/ ThreadRecord(th)

Next ==
  \/ Advance \/ Tick
  \/ \E th \in threads : ThreadStep(th)
  \/ \E j \in Jobs : Add(j) \/ Cancel(j) \/ Save(j) \/ Forget(j)
  \/ LoadStart \/ LoadStep \/ LoadAborts
  \/ Crash

Spec == Init /\ [][Next]_vars

\* The clock moves, the wheel's goroutine keeps ticking, a hydration that has
\* begun keeps going (its callbacks return).  Nothing is assumed of the threads:
\* a live callback runs on a background context and may hang.
FairSpec == Spec /\ WF_vars(Advance) /\ WF_vars(Tick) /\ WF_vars(LoadStep)

-----------------------------------------------------------------------------
TypeOK ==
  /\ now \in 0..MaxTime
  /\ wheel \subseteq Jobs /\ guarded \subseteq wheel /\ spent \subseteq wheel
  /\ threads \subseteq Thread
  /\ saved \subseteq Jobs
  /\ lastFired \in [Jobs -> Time \cup {Never}]
  /\ fingerprint \in [Keys -> Time \cup {Never}]
  /\ loader \in [stage : LoaderStages, todo : SUBSET Jobs, job : Jobs \cup {NoJob},
                 times : SUBSET Time, at : Time, from : Int, asOf : Time]
  /\ (loader.stage \in {"catchup", "fire", "record", "persist"}) => loader.job \in Jobs
  /\ fresh \in BOOLEAN
  /\ credit \in [OneShots -> Int]
  /\ horizon \in [Jobs -> Int]

\* A fingerprint on disk stands for a callback that ran to its end: it is
\* written after the fire, so a crash in between loses the fingerprint, never
\* the delivery.  This is the at-least-once promise of a keyed job: a fire is
\* only ever suppressed because of one that happened.
FingerprintsAreDeliveries ==
  \A k \in Keys : fingerprint[k] # Never => fingerprint[k] \in completed[k]

\* LastFiredAt is a low-water mark of a backfill job: every match between the
\* start of its first replay and LastFiredAt was delivered, whatever crashes cut
\* the replays short.  A job enters the wheel with no match missed but those
\* that lie behind the oldest MaxMatches of this start's window; being younger
\* than LastFiredAt, they are what the next start replays.
ReplayLeavesNoGap ==
  \A j \in Jobs :
    Backfill(j) /\ ~Keyed(j) =>
      /\ lastFired[j] # Never =>
           AllBetween(j, horizon[j], lastFired[j]) \subseteq delivered[j]
      /\ loader.stage = "catchup" /\ loader.job = j /\ loader.times = {} =>
           AllBetween(j, horizon[j], loader.asOf) \ delivered[j]
             \subseteq LeftOut(j, loader.from, loader.asOf)

\* A key of skip and once jobs is recorded at times at least one window apart,
\* over any number of processes, unless two of its fires were once in flight
\* together: overlap is the only way past the idempotency window.
RecordedFiresSpaced ==
  \A k \in Keys \ overlapped :
    (\A j \in Jobs : Key[j] = k => ~Backfill(j)) =>
      \A s, t \in recorded[k] : s < t => t - s >= Window

\* An entry of the wheel fires a one-shot once: a replaced, cancelled or spent
\* entry leaves nothing behind that fires it again.
OneShotFiresOncePerAdd ==
  \A j \in OneShots : credit[j] >= IF j \in wheel \ spent THEN 1 ELSE 0

\* A one-shot in the wheel fires once its time has come, unless it is cancelled
\* or the process dies.
OneShotsFire == \A j \in OneShots :
  (j \in wheel \ spent /\ 2 * RunAt[j] <= MaxTime) ~> (j \notin wheel \ spent)
=============================================================================
