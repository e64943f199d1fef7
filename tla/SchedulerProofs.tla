---------------------------- MODULE SchedulerProofs ----------------------------
(***************************************************************************)
(* Proofs about Scheduler, for any jobs, keys, cron expressions, policies, *)
(* windows and bounds.  The invariant has five parts that are proved one   *)
(* after another, each from the types and from itself: the types, what a   *)
(* fingerprint stands for, what the wheel owes a one-shot, how far a       *)
(* replay has come, and how far apart the fires of a key are.              *)
(***************************************************************************)
EXTENDS Scheduler, FiniteSetTheorems, TLAPS

LoaderType ==
  [stage : LoaderStages, todo : SUBSET Jobs, job : Jobs \cup {NoJob},
   times : SUBSET Time, at : Time, from : Int, asOf : Time]

Loading == {"catchup", "fire", "record", "persist"}

\* A set of threads is well formed.
ThreadsOK(S) == /\ S \subseteq Thread
                /\ \A th \in S : /\ th.keyed => Keyed(th.job)
                                 /\ th.stage \in {"check", "record"} => th.keyed

Types ==
  /\ now \in Nat /\ now <= MaxTime
  /\ wheel \subseteq Jobs /\ guarded \subseteq wheel /\ spent \subseteq wheel
  /\ ThreadsOK(threads)
  /\ saved \subseteq Jobs
  /\ lastFired \in [Jobs -> Time \cup {Never}]
  /\ fingerprint \in [Keys -> Time \cup {Never}]
  /\ loader \in LoaderType
  /\ loader.stage \in Loading => loader.job \in Jobs
  /\ fresh \in BOOLEAN
  /\ credit \in [OneShots -> Int]
  /\ horizon \in [Jobs -> Int]
  /\ delivered \in [Jobs -> SUBSET Time]
  /\ completed \in [Keys -> SUBSET Time]
  /\ recorded \in [Keys -> SUBSET Time]
  /\ \A j \in guarded : Keyed(j)

-----------------------------------------------------------------------------
(***************************************************************************)
(* Types.                                                                  *)
(***************************************************************************)
LEMMA KeyType == ASSUME NEW j \in Jobs, Keyed(j) PROVE Key[j] \in Keys
BY JobsAssumption DEF Keyed

LEMMA IdleType == Idle \in LoaderType /\ Idle.stage = "off" /\ Idle.times = {}
BY DEF Idle, LoaderType, LoaderStages, Time

LEMMA InitTypes == Init => Types
<1> SUFFICES ASSUME Init PROVE Types
  OBVIOUS
<1>1. fresh \in BOOLEAN
  BY DEF Init
<1>2. now \in Nat /\ now <= MaxTime
  BY TimeAssumption DEF Init
<1>3. credit \in [OneShots -> Int] /\ horizon \in [Jobs -> Int]
  BY DEF Init
<1>4. ThreadsOK(threads)
  BY DEF Init, ThreadsOK
<1> QED BY <1>1, <1>2, <1>3, <1>4, IdleType DEF Init, Types, Loading

LEMMA DeliveredTypes ==
  ASSUME Types, NEW j \in Jobs, NEW t \in Time, Delivered(j, t)
  PROVE  /\ delivered' \in [Jobs -> SUBSET Time]
         /\ completed' \in [Keys -> SUBSET Time]
BY KeyType DEF Types, Delivered

LEMMA FingerprintTypes ==
  ASSUME Types, NEW k \in Keys, NEW t \in Time, Fingerprint(k, t)
  PROVE  /\ fingerprint' \in [Keys -> Time \cup {Never}]
         /\ recorded' \in [Keys -> SUBSET Time]
BY DEF Types, Fingerprint

LEMMA PutTypes ==
  ASSUME Types, NEW j \in Jobs, NEW wrapped, wrapped => Keyed(j), PutInWheel(j, wrapped)
  PROVE  /\ wheel' \subseteq Jobs /\ guarded' \subseteq wheel' /\ spent' \subseteq wheel'
         /\ \A i \in guarded' : Keyed(i)
         /\ credit' \in [OneShots -> Int]
<1>1. wheel' \subseteq Jobs /\ spent' \subseteq wheel'
  BY DEF Types, PutInWheel
<1>2. guarded' \subseteq wheel' /\ \A i \in guarded' : Keyed(i)
  BY DEF Types, PutInWheel
<1>3. credit' \in [OneShots -> Int]
  BY DEF Types, PutInWheel
<1> QED BY <1>1, <1>2, <1>3

\* The goroutines a tick starts.
Started == {[job |-> j, keyed |-> j \in guarded,
             stage |-> IF j \in guarded THEN "check" ELSE "fire", at |-> now] : j \in Due}

LEMMA StartedTypes == ASSUME Types PROVE ThreadsOK(Started)
<1>1. ASSUME NEW th \in Started
      PROVE  /\ th \in Thread /\ (th.keyed => Keyed(th.job))
             /\ th.stage \in {"check", "record"} => th.keyed
  <2>1. PICK j \in Due : th = [job |-> j, keyed |-> j \in guarded,
              stage |-> IF j \in guarded THEN "check" ELSE "fire", at |-> now]
    BY DEF Started
  <2>2. j \in Jobs /\ now \in Time
    BY DEF Types, Due, Time
  <2>3. CASE j \in guarded
    <3>1. th = [job |-> j, keyed |-> TRUE, stage |-> "check", at |-> now]
      BY <2>1, <2>3
    <3> QED BY <2>2, <2>3, <3>1 DEF Types, Thread
  <2>4. CASE j \notin guarded
    <3>1. th = [job |-> j, keyed |-> FALSE, stage |-> "fire", at |-> now]
      <4>1. (j \in guarded) = FALSE /\ (IF j \in guarded THEN "check" ELSE "fire") = "fire"
        BY <2>4
      <4> QED BY <2>1, <4>1, Zenon
    <3>2. th.keyed = FALSE /\ th.stage = "fire"
      BY <3>1
    <3>3. FALSE \in BOOLEAN
      OBVIOUS
    <3>4. th \in Thread
      BY <2>2, <3>1, <3>3 DEF Thread
    <3> QED BY <3>2, <3>4
  <2> QED BY <2>3, <2>4
<1> QED BY <1>1 DEF ThreadsOK

LEMMA WheelTypes ==
  ASSUME Types, Advance \/ Tick
  PROVE  Types'
<1>1. CASE Advance
  <2>1. now' \in Nat /\ now' <= MaxTime
    BY <1>1, TimeAssumption DEF Types, Advance
  <2> QED BY <1>1, <2>1 DEF Types, Advance, wheelVars, storeVars, historyVars, Keyed, ThreadsOK
<1>2. CASE Tick
  <2>1. ThreadsOK(threads')
    BY <1>2, StartedTypes DEF Tick, Types, ThreadsOK, Started
  <2>2. credit' \in [OneShots -> Int]
    BY <1>2 DEF Types, Tick
  <2>3. spent' \subseteq wheel
    BY <1>2 DEF Types, Tick, Due
  <2> QED BY <1>2, <2>1, <2>2, <2>3 DEF Types, Tick, ThreadsOK, storeVars, Keyed
<1> QED BY <1>1, <1>2

LEMMA ThreadTypes ==
  ASSUME Types, NEW th \in threads, ThreadStep(th)
  PROVE  Types'
<1>1. th \in Thread /\ (th.keyed => Keyed(th.job)) /\ ThreadsOK(threads)
  BY DEF Types, ThreadsOK
<1>2. ThreadsOK(threads \ {th})
  BY <1>1 DEF ThreadsOK
<1>3. ASSUME NEW stage \in {"fire", "record"}, NEW at \in Time, th.keyed
      PROVE  /\ ThreadsOK((threads \ {th}) \cup {[th EXCEPT !.stage = stage]})
             /\ ThreadsOK((threads \ {th}) \cup {[th EXCEPT !.stage = stage, !.at = at]})
  BY <1>1, <1>2, <1>3 DEF ThreadsOK, Thread
<1>4. CASE ThreadCheck(th)
  <2>1. th.keyed /\ now \in Time
    BY <1>1, <1>4 DEF ThreadsOK, ThreadCheck, Types, Time
  <2>2. ThreadsOK(threads')
    BY <1>2, <1>3, <1>4, <2>1 DEF ThreadCheck, MoveThread
  <2> QED BY <1>4, <2>2 DEF ThreadCheck, Types, ThreadsOK, wheelVars, storeVars, Keyed
<1>5. CASE ThreadFire(th)
  <2>1. ThreadsOK(threads')
    BY <1>1, <1>2, <1>3, <1>5 DEF ThreadFire, MoveThread, Thread
  <2>2. /\ delivered' \in [Jobs -> SUBSET Time]
        /\ completed' \in [Keys -> SUBSET Time]
    BY <1>1, <1>5, DeliveredTypes DEF ThreadFire, Thread
  <2> QED BY <1>5, <2>1, <2>2 DEF ThreadFire, Types, ThreadsOK, wheelVars, storeVars, Keyed
<1>6. CASE ThreadRecord(th)
  <2>1. ThreadsOK(threads')
    BY <1>2, <1>6 DEF ThreadRecord, MoveThread
  <2>2. Key[th.job] \in Keys /\ th.at \in Time
    BY <1>1, <1>6, KeyType DEF ThreadRecord, ThreadsOK, Thread
  <2>3. /\ fingerprint' \in [Keys -> Time \cup {Never}]
        /\ recorded' \in [Keys -> SUBSET Time]
    BY <1>6, <2>2, FingerprintTypes DEF ThreadRecord, Types
  <2> QED BY <1>6, <2>1, <2>3 DEF ThreadRecord, Types, ThreadsOK, wheelVars, storeVars, Keyed
<1> QED BY <1>4, <1>5, <1>6 DEF ThreadStep

LEMMA CallTypes ==
  ASSUME Types, NEW j \in Jobs, Add(j) \/ Cancel(j) \/ Save(j) \/ Forget(j)
  PROVE  Types'
<1>1. CASE Add(j)
  <2>1. PutInWheel(j, FALSE)
    BY <1>1 DEF Add
  <2>2. /\ wheel' \subseteq Jobs /\ guarded' \subseteq wheel' /\ spent' \subseteq wheel'
        /\ \A i \in guarded' : Keyed(i)
        /\ credit' \in [OneShots -> Int]
    BY <2>1, PutTypes
  <2>3. fresh' \in BOOLEAN
    BY <1>1 DEF Add
  <2> QED BY <1>1, <2>2, <2>3 DEF Add, Types, storeVars, Keyed, ThreadsOK
<1>2. CASE Cancel(j)
  BY <1>2 DEF Cancel, Types, storeVars, historyVars, Keyed, ThreadsOK
<1>3. CASE Save(j)
  BY <1>3 DEF Save, Types, wheelVars, historyVars, Keyed, ThreadsOK
<1>4. CASE Forget(j)
  BY <1>4 DEF Forget, Types, wheelVars, historyVars, Keyed, ThreadsOK
<1> QED BY <1>1, <1>2, <1>3, <1>4

\* What the steps of the loader before its fires owe to the types.
LEMMA LoaderMoves ==
  ASSUME Types
  PROVE  /\ [Idle EXCEPT !.stage = "next", !.asOf = now, !.todo = saved \cap Handled] \in LoaderType
         /\ \A stage \in LoaderStages, T \in SUBSET Time, t \in Time :
              /\ [loader EXCEPT !.stage = stage] \in LoaderType
              /\ [loader EXCEPT !.times = T] \in LoaderType
              /\ [loader EXCEPT !.stage = stage, !.at = t] \in LoaderType
              /\ [loader EXCEPT !.stage = stage, !.times = T, !.at = t] \in LoaderType
<1>1. now \in Time /\ saved \cap Handled \in SUBSET Jobs /\ loader \in LoaderType
  BY DEF Types, Time
<1>2. [Idle EXCEPT !.stage = "next", !.asOf = now, !.todo = saved \cap Handled] \in LoaderType
  <2>1. /\ "next" \in LoaderStages /\ NoJob \in Jobs \cup {NoJob} /\ {} \in SUBSET Time
        /\ 0 \in Time /\ 0 \in Int
    BY DEF LoaderStages, Time
  <2> HIDE DEF Time
  <2> QED BY <1>1, <2>1 DEF LoaderType, Idle
<1>3. ASSUME NEW stage \in LoaderStages, NEW T \in SUBSET Time, NEW t \in Time
      PROVE  /\ [loader EXCEPT !.stage = stage] \in LoaderType
             /\ [loader EXCEPT !.times = T] \in LoaderType
             /\ [loader EXCEPT !.stage = stage, !.at = t] \in LoaderType
             /\ [loader EXCEPT !.stage = stage, !.times = T, !.at = t] \in LoaderType
  BY <1>1 DEF LoaderType
<1> QED BY <1>2, <1>3

\* The same of the steps by which the loader takes a job up and leaves it.
LEMMA LoaderTurns ==
  ASSUME Types, NEW stage \in LoaderStages, NEW S \in SUBSET Jobs, NEW j \in Jobs \cup {NoJob},
         NEW T \in SUBSET Time, NEW f \in Int
  PROVE  /\ [loader EXCEPT !.stage = stage, !.job = j, !.from = f] \in LoaderType
         /\ [loader EXCEPT !.stage = stage, !.todo = S, !.job = j, !.times = T, !.from = f]
              \in LoaderType
<1>1. loader \in LoaderType
  BY DEF Types
<1> QED BY <1>1 DEF LoaderType

\* What LoadFromStore owes a job are instants.
LEMMA MissedTypes ==
  ASSUME Types, NEW j \in Jobs
  PROVE  Missed(j, loader.asOf) \in SUBSET Time
BY DEF Types, LoaderType, Missed, MatchesBetween, AllBetween, Time

LEMMA LoadStartTypes == ASSUME Types, LoadStart PROVE Types'
<1>1. fingerprint' \in [Keys -> Time \cup {Never}]
  BY DEF LoadStart, Types
<1>2. loader' \in LoaderType /\ loader'.stage = "next"
  BY LoaderMoves DEF LoadStart, Idle
<1>3. fresh' \in BOOLEAN
  BY DEF LoadStart
<1> QED BY <1>1, <1>2, <1>3 DEF LoadStart, Types, ThreadsOK, wheelVars, historyVars, Keyed, Loading

LEMMA LoadStepTypes == ASSUME Types, LoadStep \/ LoadAborts PROVE Types'
<1>1. ASSUME NEW j \in Jobs, LoadNext(j) PROVE Types'
  <2>1. loader.todo \ {j} \in SUBSET Jobs /\ Missed(j, loader.asOf) \in SUBSET Time
    BY MissedTypes DEF Types, LoaderType
  <2>5. loader.asOf - Window \in Int
    BY TimeAssumption DEF Types, LoaderType, Time
  <2>6. MissedFrom(j, loader.asOf) \in Int
    BY <2>5 DEF Types, MissedFrom, Time
  <2>2. loader' \in LoaderType
    <3>1. loader' = [loader EXCEPT !.stage = "catchup", !.todo = loader.todo \ {j}, !.job = j,
                                   !.times = Missed(j, loader.asOf),
                                   !.from = MissedFrom(j, loader.asOf)]
      BY <1>1 DEF LoadNext
    <3>2. "catchup" \in LoaderStages /\ 0 \in Time
      BY DEF LoaderStages, Time
    <3> QED BY <2>1, <2>6, <3>1, <3>2, LoaderTurns
  <2>3. loader'.job = j
    BY <1>1 DEF LoadNext, Types, LoaderType
  <2>4. horizon' \in [Jobs -> Int]
    BY <1>1, <2>5 DEF LoadNext, Types
  <2> QED BY <1>1, <2>2, <2>3, <2>4 DEF LoadNext, Types, ThreadsOK, wheelVars, storeVars, Keyed
<1>2. ASSUME NEW t \in 0..MaxTime, CatchUpCheck(t) PROVE Types'
  <2>1. loader.times \ {t} \in SUBSET Time /\ t \in Time
    BY TimeAssumption DEF Types, LoaderType, Time
  <2>2. loader' \in LoaderType
    BY <1>2, <2>1, LoaderMoves, ZenonT(30) DEF CatchUpCheck, LoaderStages
  <2>3. loader'.job = loader.job /\ loader.job \in Jobs
    BY <1>2 DEF CatchUpCheck, Types, LoaderType, Loading
  <2> QED BY <1>2, <2>2, <2>3 DEF CatchUpCheck, Types, ThreadsOK, wheelVars, storeVars, Keyed
<1>3. CASE CatchUpFire
  <2>1. loader' \in LoaderType
    BY <1>3, LoaderMoves DEF CatchUpFire, LoaderStages, Time
  <2>2. loader'.job = loader.job /\ loader.job \in Jobs /\ loader.at \in Time
    BY <1>3 DEF CatchUpFire, Types, LoaderType, Loading
  <2>3. /\ delivered' \in [Jobs -> SUBSET Time]
        /\ completed' \in [Keys -> SUBSET Time]
    BY <1>3, <2>2, DeliveredTypes DEF CatchUpFire
  <2> QED BY <1>3, <2>1, <2>2, <2>3 DEF CatchUpFire, Types, ThreadsOK, wheelVars, storeVars, Keyed
<1>4. CASE CatchUpRecord
  <2>1. loader' \in LoaderType
    BY <1>4, LoaderMoves DEF CatchUpRecord, LoaderStages, Time
  <2>2. loader'.job = loader.job /\ loader.job \in Jobs /\ loader.at \in Time
    BY <1>4 DEF CatchUpRecord, Types, LoaderType, Loading
  <2>3. /\ fingerprint' \in [Keys -> Time \cup {Never}]
        /\ recorded' \in [Keys -> SUBSET Time]
    <3>1. CASE Keyed(loader.job)
      BY <1>4, <2>2, <3>1, KeyType, FingerprintTypes DEF CatchUpRecord
    <3>2. CASE ~Keyed(loader.job)
      BY <1>4, <3>2 DEF CatchUpRecord, Types
    <3> QED BY <3>1, <3>2
  <2> QED BY <1>4, <2>1, <2>2, <2>3 DEF CatchUpRecord, Types, ThreadsOK, wheelVars, Keyed
<1>5. CASE CatchUpPersist
  <2>1. loader.times \ {loader.at} \in SUBSET Time /\ 0 \in Time /\ loader.at \in Time
    BY DEF Types, LoaderType, Time
  <2>2. loader' \in LoaderType
    BY <1>5, <2>1, LoaderMoves DEF CatchUpPersist, LoaderStages
  <2>3. loader'.job = loader.job /\ loader.job \in Jobs
    BY <1>5 DEF CatchUpPersist, Types, LoaderType, Loading
  <2>4. lastFired' \in [Jobs -> Time \cup {Never}] /\ saved' \subseteq Jobs
    BY <1>5, <2>1, <2>3 DEF CatchUpPersist, Types
  <2> QED BY <1>5, <2>2, <2>3, <2>4
          DEF CatchUpPersist, Types, ThreadsOK, wheelVars, historyVars, Keyed
<1>6. CASE LoadAdd
  <2>1. loader.job \in Jobs /\ PutInWheel(loader.job, Keyed(loader.job))
    BY <1>6 DEF LoadAdd, Types, Loading
  <2>2. /\ wheel' \subseteq Jobs /\ guarded' \subseteq wheel' /\ spent' \subseteq wheel'
        /\ \A i \in guarded' : Keyed(i)
        /\ credit' \in [OneShots -> Int]
    BY <2>1, PutTypes
  <2>3. loader' \in LoaderType /\ loader'.stage = "next"
    <3>1. loader' \in LoaderType
      <4>1. "next" \in LoaderStages /\ 0 \in Int /\ {} \in SUBSET Jobs /\ {} \in SUBSET Time
        BY DEF LoaderStages
      <4>2. loader' = [loader EXCEPT !.stage = "next", !.job = NoJob, !.from = 0]
        BY <1>6 DEF LoadAdd
      <4> QED BY <4>1, <4>2, LoaderTurns
    <3> QED BY <1>6, <3>1 DEF LoadAdd, Types, LoaderType
  <2> QED BY <1>6, <2>2, <2>3 DEF LoadAdd, Types, ThreadsOK, storeVars, Keyed, Loading
<1>7. CASE LoadDone \/ LoadAborts
  BY <1>7, IdleType DEF LoadDone, LoadAborts, Types, ThreadsOK, wheelVars, storeVars, historyVars,
                        Keyed, Loading
<1> QED BY <1>1, <1>2, <1>3, <1>4, <1>5, <1>6, <1>7 DEF LoadStep

LEMMA CrashTypes == ASSUME Types, Crash PROVE Types'
<1>1. credit' \in [OneShots -> Int] /\ fresh' \in BOOLEAN /\ ThreadsOK(threads')
  BY DEF Crash, ThreadsOK
<1> QED BY <1>1, IdleType DEF Crash, Types, storeVars, Keyed, Loading, ThreadsOK

LEMMA NextTypes == ASSUME Types, [Next]_vars PROVE Types'
<1>1. CASE UNCHANGED vars
  BY <1>1 DEF Types, ThreadsOK, Keyed, vars, wheelVars, storeVars, historyVars
<1> QED BY <1>1, WheelTypes, ThreadTypes, CallTypes, LoadStartTypes, LoadStepTypes, CrashTypes DEF Next

-----------------------------------------------------------------------------
(***************************************************************************)
(* What a fingerprint stands for.                                          *)
(***************************************************************************)
Deliveries ==
  /\ FingerprintsAreDeliveries
  /\ \A th \in threads : th.stage = "record" => th.at \in completed[Key[th.job]]
  /\ loader.stage = "record" /\ Keyed(loader.job) => loader.at \in completed[Key[loader.job]]

LEMMA InitDeliveries == Init => Deliveries
BY IdleType DEF Init, Deliveries, FingerprintsAreDeliveries

\* Completed fires are never forgotten.
LEMMA CompletedGrows ==
  ASSUME Types, NEW j \in Jobs, NEW t, Delivered(j, t)
  PROVE  /\ \A k \in Keys : completed[k] \subseteq completed'[k]
         /\ Keyed(j) => t \in completed'[Key[j]]
BY KeyType DEF Types, Delivered

LEMMA NextDeliveries == ASSUME Types, Deliveries, [Next]_vars PROVE Deliveries'
<1>1. ASSUME UNCHANGED <<threads, loader, completed, fingerprint>> PROVE Deliveries'
  BY <1>1 DEF Deliveries, FingerprintsAreDeliveries, Keyed
<1>2. CASE Tick
  <2>1. ASSUME NEW th \in threads', th.stage = "record" PROVE th \in threads
    BY <1>2, <2>1 DEF Tick
  <2> QED BY <1>2, <2>1 DEF Tick, Deliveries, FingerprintsAreDeliveries, storeVars, Keyed
<1>3. ASSUME NEW th \in threads, ThreadCheck(th) PROVE Deliveries'
  <2>1. ASSUME NEW o \in threads', o.stage = "record" PROVE o \in threads
    <3>1. th \in Thread
      BY DEF Types, ThreadsOK
    <3> QED BY <1>3, <2>1, <3>1 DEF ThreadCheck, MoveThread, Thread
  <2> QED BY <1>3, <2>1 DEF ThreadCheck, Deliveries, FingerprintsAreDeliveries, storeVars, Keyed
<1>4. ASSUME NEW th \in threads, ThreadFire(th) PROVE Deliveries'
  <2>1. th \in Thread /\ (th.keyed => Keyed(th.job))
    BY DEF Types, ThreadsOK
  <2>2. /\ \A k \in Keys : completed[k] \subseteq completed'[k]
        /\ Keyed(th.job) => th.at \in completed'[Key[th.job]]
    BY <1>4, <2>1, CompletedGrows DEF ThreadFire, Thread
  <2>3. ASSUME NEW o \in threads', o.stage = "record" PROVE o.at \in completed'[Key[o.job]]
    <3>1. CASE o \in threads
      <4>1. Key[o.job] \in Keys
        BY <2>3, <3>1, KeyType DEF Types, ThreadsOK, Thread
      <4> QED BY <2>2, <2>3, <3>1, <4>1 DEF Deliveries
    <3>2. CASE o \notin threads
      <4>1. o = [th EXCEPT !.stage = "record"] /\ th.keyed
        BY <1>4, <3>2 DEF ThreadFire, MoveThread
      <4> QED BY <2>1, <2>2, <4>1 DEF Thread
    <3> QED BY <3>1, <3>2
  <2>4. ASSUME loader.stage = "record", Keyed(loader.job)
        PROVE  loader.at \in completed'[Key[loader.job]]
    BY <2>2, <2>4, KeyType DEF Deliveries, Types, Loading
  <2> QED BY <1>4, <2>2, <2>3, <2>4
          DEF ThreadFire, Deliveries, FingerprintsAreDeliveries, storeVars, Keyed
<1>5. ASSUME NEW th \in threads, ThreadRecord(th) PROVE Deliveries'
  <2>1. th.at \in completed[Key[th.job]] /\ Key[th.job] \in Keys
    BY <1>5, KeyType DEF ThreadRecord, Deliveries, Types, ThreadsOK, Thread
  <2>2. ASSUME NEW k \in Keys, fingerprint'[k] # Never PROVE fingerprint'[k] \in completed[k]
    BY <1>5, <2>1, <2>2 DEF ThreadRecord, Fingerprint, Deliveries, FingerprintsAreDeliveries, Types
  <2> QED BY <1>5, <2>2 DEF ThreadRecord, MoveThread, Deliveries, FingerprintsAreDeliveries, Keyed
<1>6. CASE LoadStart
  BY <1>6 DEF LoadStart, Idle, Deliveries, FingerprintsAreDeliveries, historyVars, Types
<1>7. ASSUME NEW j \in Jobs, LoadNext(j) PROVE Deliveries'
  <2>1. loader'.stage = "catchup"
    BY <1>7 DEF LoadNext, Types, LoaderType
  <2> QED BY <1>7, <2>1 DEF LoadNext, Deliveries, FingerprintsAreDeliveries, storeVars
<1>8. ASSUME NEW t \in 0..MaxTime, CatchUpCheck(t) PROVE Deliveries'
  <2>1. loader'.stage # "record"
    BY <1>8 DEF CatchUpCheck, Types, LoaderType
  <2> QED BY <1>8, <2>1 DEF CatchUpCheck, Deliveries, FingerprintsAreDeliveries, storeVars
<1>9. CASE CatchUpFire
  <2>1. /\ \A k \in Keys : completed[k] \subseteq completed'[k]
        /\ Keyed(loader.job) => loader.at \in completed'[Key[loader.job]]
    BY <1>9, CompletedGrows DEF CatchUpFire, Types, Loading
  <2>2. loader'.job = loader.job /\ loader'.at = loader.at
    BY <1>9 DEF CatchUpFire, Types, LoaderType
  <2>3. ASSUME NEW o \in threads, o.stage = "record" PROVE o.at \in completed'[Key[o.job]]
    <3>1. Key[o.job] \in Keys
      BY <2>3, KeyType DEF Types, ThreadsOK, Thread
    <3> QED BY <2>1, <2>3, <3>1 DEF Deliveries
  <2> QED BY <1>9, <2>1, <2>2, <2>3
          DEF CatchUpFire, Deliveries, FingerprintsAreDeliveries, storeVars, Keyed
<1>10. CASE CatchUpRecord
  <2>1. loader'.stage = "persist"
    BY <1>10 DEF CatchUpRecord, Types, LoaderType
  <2>2. ASSUME NEW k \in Keys, fingerprint'[k] # Never PROVE fingerprint'[k] \in completed[k]
    <3>1. Keyed(loader.job) => Key[loader.job] \in Keys /\ loader.at \in completed[Key[loader.job]]
      BY <1>10, KeyType DEF CatchUpRecord, Deliveries, Types, Loading
    <3> QED BY <1>10, <2>2, <3>1
            DEF CatchUpRecord, Fingerprint, Deliveries, FingerprintsAreDeliveries, Types
  <2> QED BY <1>10, <2>1, <2>2 DEF CatchUpRecord, Deliveries, FingerprintsAreDeliveries
<1>11. CASE CatchUpPersist
  <2>1. loader'.stage = "catchup"
    BY <1>11 DEF CatchUpPersist, Types, LoaderType
  <2> QED BY <1>11, <2>1 DEF CatchUpPersist, Deliveries, FingerprintsAreDeliveries, historyVars
<1>12. CASE LoadAdd
  <2>1. loader'.stage = "next"
    BY <1>12 DEF LoadAdd, Types, LoaderType
  <2> QED BY <1>12, <2>1 DEF LoadAdd, Deliveries, FingerprintsAreDeliveries, storeVars
<1>13. CASE LoadDone \/ LoadAborts
  BY <1>13, IdleType DEF LoadDone, LoadAborts, Deliveries, FingerprintsAreDeliveries, storeVars,
                         historyVars
<1>14. CASE Crash
  BY <1>14, IdleType DEF Crash, Deliveries, FingerprintsAreDeliveries, storeVars
<1>15. CASE Advance \/ UNCHANGED vars \/ \E j \in Jobs : Add(j) \/ Cancel(j) \/ Save(j) \/ Forget(j)
  BY <1>1, <1>15 DEF Advance, Add, Cancel, Save, Forget, vars, storeVars, historyVars
<1> QED BY <1>2, <1>3, <1>4, <1>5, <1>6, <1>7, <1>8, <1>9, <1>10, <1>11, <1>12, <1>13, <1>14, <1>15
        DEF Next, ThreadStep, LoadStep

-----------------------------------------------------------------------------
(***************************************************************************)
(* What the wheel owes a one-shot.                                         *)
(***************************************************************************)
LEMMA InitCredit == Init => OneShotFiresOncePerAdd
<1> SUFFICES ASSUME Init, NEW j \in OneShots
             PROVE  credit[j] >= IF j \in wheel \ spent THEN 1 ELSE 0
  BY DEF OneShotFiresOncePerAdd
<1>1. credit[j] = 0 /\ j \notin wheel \ spent
  BY DEF Init
<1> QED BY <1>1

LEMMA PutCredit ==
  ASSUME Types, OneShotFiresOncePerAdd, NEW j \in Jobs, NEW wrapped, PutInWheel(j, wrapped)
  PROVE  OneShotFiresOncePerAdd'
<1> SUFFICES ASSUME NEW i \in OneShots
             PROVE  credit'[i] >= IF i \in wheel' \ spent' THEN 1 ELSE 0
  BY DEF OneShotFiresOncePerAdd
<1>1. credit[i] \in Int /\ credit[i] >= IF i \in wheel \ spent THEN 1 ELSE 0
  BY DEF OneShotFiresOncePerAdd, Types
<1>2. credit' = (IF j \in OneShots THEN [credit EXCEPT ![j] = credit[j] + 1] ELSE credit)
      /\ wheel' = wheel \cup {j} /\ spent' = spent \ {j}
  BY DEF PutInWheel
<1>3. CASE i = j
  BY <1>1, <1>2, <1>3 DEF Types
<1>4. CASE i # j
  BY <1>1, <1>2, <1>4 DEF Types
<1> QED BY <1>3, <1>4

LEMMA NextCredit ==
  ASSUME Types, OneShotFiresOncePerAdd, [Next]_vars
  PROVE  OneShotFiresOncePerAdd'
<1>1. ASSUME UNCHANGED <<wheel, spent, credit>> PROVE OneShotFiresOncePerAdd'
  BY <1>1 DEF OneShotFiresOncePerAdd
<1>2. CASE Tick
  <2> SUFFICES ASSUME NEW i \in OneShots
               PROVE  credit'[i] >= IF i \in wheel' \ spent' THEN 1 ELSE 0
    BY DEF OneShotFiresOncePerAdd
  <2>1. credit[i] \in Int /\ credit[i] >= IF i \in wheel \ spent THEN 1 ELSE 0
    BY DEF OneShotFiresOncePerAdd, Types
  <2>2. /\ credit'[i] = IF i \in Due THEN credit[i] - 1 ELSE credit[i]
        /\ wheel' = wheel /\ spent' = spent \cup (Due \cap OneShots)
    BY <1>2 DEF Tick
  <2>3. i \in Due => i \in wheel \ spent
    BY DEF Due, Cron
  <2> QED BY <2>1, <2>2, <2>3
<1>3. ASSUME NEW j \in Jobs, Add(j) PROVE OneShotFiresOncePerAdd'
  BY <1>3, PutCredit DEF Add
<1>4. ASSUME NEW j \in Jobs, Cancel(j) PROVE OneShotFiresOncePerAdd'
  <2>1. credit' = credit /\ wheel' = wheel \ {j} /\ spent' = spent \ {j}
    BY <1>4 DEF Cancel, historyVars
  <2>2. ASSUME NEW i \in OneShots PROVE credit'[i] >= IF i \in wheel' \ spent' THEN 1 ELSE 0
    <3>1. credit[i] \in Int /\ credit[i] >= IF i \in wheel \ spent THEN 1 ELSE 0
      BY DEF OneShotFiresOncePerAdd, Types
    <3> QED BY <2>1, <3>1
  <2> QED BY <2>2 DEF OneShotFiresOncePerAdd
<1>5. CASE LoadAdd
  BY <1>5, PutCredit DEF LoadAdd, Types, Loading
<1>6. CASE Crash
  BY <1>6 DEF Crash, OneShotFiresOncePerAdd
<1>7. ASSUME NEW th \in threads, ThreadStep(th) PROVE OneShotFiresOncePerAdd'
  BY <1>1, <1>7 DEF ThreadStep, ThreadCheck, ThreadFire, ThreadRecord, wheelVars
<1>8. CASE Advance \/ UNCHANGED vars \/ LoadStart \/ LoadAborts
           \/ \E j \in Jobs : Save(j) \/ Forget(j)
  BY <1>1, <1>8 DEF Advance, LoadStart, LoadAborts, Save, Forget, vars, wheelVars, historyVars
<1>9. CASE LoadStep /\ ~LoadAdd
  BY <1>1, <1>9 DEF LoadStep, LoadNext, CatchUpCheck, CatchUpFire, CatchUpRecord, CatchUpPersist,
                    LoadDone, wheelVars, historyVars
<1> QED BY <1>2, <1>3, <1>4, <1>5, <1>6, <1>7, <1>8, <1>9 DEF Next, LoadStep

-----------------------------------------------------------------------------
(***************************************************************************)
(* How far a replay has come.  Of the matches between the start of the     *)
(* first replay and the instant this one brings the job up to, each has    *)
(* been delivered, is still among the times to fire, or is behind the      *)
(* oldest MaxMatches of the window; and they are fired in their order.     *)
(***************************************************************************)
Within(j, t, from, to) == MatchesAt(j, t) /\ from < t /\ t <= to

\* What the replay takes up is older than what it leaves out.
LEMMA OldestFirst ==
  ASSUME NEW j, NEW from \in Int, NEW to \in Nat,
         NEW t \in MatchesBetween(j, from, to), NEW u \in LeftOut(j, from, to)
  PROVE  t < u
<1> DEFINE All       == AllBetween(j, from, to)
           Older(x)  == {v \in All : v < x}
<1>1. All \subseteq 0..to /\ t \in All /\ u \in All /\ t \in Int /\ u \in Int
  BY DEF AllBetween, MatchesBetween, LeftOut
<1>2. IsFiniteSet(0..to)
  BY FS_Interval
<1>3. ASSUME NEW x PROVE IsFiniteSet(Older(x))
  <2>1. Older(x) \subseteq 0..to
    BY <1>1
  <2> HIDE DEF Older
  <2> QED BY <1>2, <2>1, FS_Subset
<1>4. Cardinality(Older(t)) \in Nat /\ Cardinality(Older(u)) \in Nat
  <2> HIDE DEF Older
  <2> QED BY <1>3, FS_CardinalityType
<1>5. Cardinality(Older(t)) < MaxMatches /\ ~(Cardinality(Older(u)) < MaxMatches)
  BY DEF MatchesBetween, LeftOut
<1>6. ASSUME ~(t < u) PROVE FALSE
  <2>1. Older(u) \subseteq Older(t)
    BY <1>1, <1>6
  <2>2. Cardinality(Older(u)) <= Cardinality(Older(t))
    <3> HIDE DEF Older
    <3> QED BY <1>3, <2>1, FS_Subset
  <2> HIDE DEF Older
  <2> QED BY <1>4, <1>5, <2>2, TimeAssumption
<1> QED BY <1>6

ReplayOf(j) ==
  /\ lastFired[j] # Never =>
       \A t \in Time : Within(j, t, horizon[j], lastFired[j]) => t \in delivered[j]
  /\ loader.stage \in Loading /\ loader.job = j =>
       /\ \A t \in Time : Within(j, t, horizon[j], loader.asOf) =>
            t \in delivered[j] \cup loader.times \cup LeftOut(j, loader.from, loader.asOf)
       /\ \A t \in loader.times : /\ t <= loader.asOf
                                  /\ \A u \in LeftOut(j, loader.from, loader.asOf) : t < u
       /\ loader.stage # "catchup" =>
            loader.at \in loader.times /\ \A t \in loader.times : loader.at <= t
       /\ loader.stage \in {"record", "persist"} => loader.at \in delivered[j]

Replay == \A j \in Jobs : Backfill(j) /\ ~Keyed(j) => ReplayOf(j)

LEMMA InitReplay == Init => Replay
BY IdleType DEF Init, Replay, ReplayOf, Loading

\* Delivered fires are never forgotten.
LEMMA DeliveredGrows ==
  ASSUME Types, NEW j \in Jobs, NEW t, Delivered(j, t)
  PROVE  /\ \A i \in Jobs : delivered[i] \subseteq delivered'[i]
         /\ Backfill(j) => t \in delivered'[j]
BY DEF Types, Delivered

\* A step that moves neither the loader nor a mark keeps the invariant,
\* and so does one that takes the loader out of its job.
LEMMA ReplayKept ==
  ASSUME NEW j \in Jobs, ReplayOf(j),
         horizon'[j] = horizon[j], lastFired'[j] = lastFired[j] \/ lastFired'[j] = Never,
         delivered[j] \subseteq delivered'[j],
         loader' = loader \/ loader'.stage \notin Loading \/ loader'.job # j
  PROVE  ReplayOf(j)'
BY DEF ReplayOf, Within, MatchesAt, LeftOut, MatchesBetween, AllBetween

LEMMA NextReplay == ASSUME Types, Replay, [Next]_vars PROVE Replay'
<1> SUFFICES ASSUME NEW j \in Jobs, Cron(j), Policy[j] = "backfill", ~Keyed(j), ReplayOf(j)
             PROVE  ReplayOf(j)'
  BY DEF Replay, Backfill, Cron, Keyed
<1>1. /\ loader \in LoaderType /\ horizon[j] \in Int
      /\ lastFired[j] \in Time \cup {Never} /\ delivered[j] \in SUBSET Time
  BY DEF Types
<1>2. ASSUME UNCHANGED <<loader, lastFired, horizon, delivered>> PROVE ReplayOf(j)'
  BY <1>2, ReplayKept
<1>3. ASSUME NEW th \in threads, ThreadStep(th) PROVE ReplayOf(j)'
  <2>1. CASE ThreadFire(th)
    <3>1. delivered[j] \subseteq delivered'[j]
      BY <2>1, DeliveredGrows DEF ThreadFire, Types, ThreadsOK, Thread
    <3> QED BY <2>1, <3>1, ReplayKept DEF ThreadFire, storeVars
  <2> QED BY <1>2, <1>3, <2>1 DEF ThreadStep, ThreadCheck, ThreadRecord, storeVars
<1>4. ASSUME NEW i \in Jobs, Add(i) \/ Cancel(i) \/ Save(i) \/ Forget(i) PROVE ReplayOf(j)'
  <2>1. CASE Save(i)
    <3>1. lastFired'[j] = lastFired[j] \/ lastFired'[j] = Never
      BY <2>1 DEF Save, Types
    <3> QED BY <2>1, <3>1, ReplayKept DEF Save, historyVars
  <2> QED BY <1>2, <1>4, <2>1 DEF Add, Cancel, Forget, storeVars, historyVars
<1>5. CASE LoadStart \/ LoadDone \/ LoadAborts \/ Crash \/ LoadAdd
  <2>1. loader'.stage \notin Loading
    BY <1>1, <1>5, IdleType
       DEF LoadStart, LoadDone, LoadAborts, Crash, LoadAdd, Loading, Idle, LoaderType
  <2>2. UNCHANGED <<lastFired, horizon, delivered>>
    BY <1>5 DEF LoadStart, LoadDone, LoadAborts, Crash, LoadAdd, storeVars, historyVars
  <2> QED BY <2>1, <2>2, ReplayKept
<1>6. ASSUME NEW i \in Jobs, LoadNext(i) PROVE ReplayOf(j)'
  <2>1. /\ loader'.stage = "catchup" /\ loader'.job = i /\ loader'.asOf = loader.asOf
        /\ loader'.times = Missed(i, loader.asOf)
        /\ loader'.from = MissedFrom(i, loader.asOf)
        /\ UNCHANGED <<lastFired, delivered>>
    BY <1>1, <1>6 DEF LoadNext, LoaderType, storeVars
  <2>2. CASE i # j
    <3>1. horizon'[j] = horizon[j]
      BY <1>6, <2>2 DEF LoadNext, Types
    <3> QED BY <2>1, <2>2, <3>1, ReplayKept
  <2>3. CASE i = j
    <3> DEFINE from == MissedFrom(j, loader.asOf)
    <3>1. loader'.times = MatchesBetween(j, from, loader.asOf)
      BY <2>1, <2>3 DEF Missed, Cron
    <3>2. horizon'[j] = IF lastFired[j] = Never THEN loader.asOf - Window ELSE horizon[j]
      BY <1>6, <2>3 DEF LoadNext, Types, Backfill, Cron
    <3>3. /\ from = IF lastFired[j] = Never THEN loader.asOf - Window ELSE lastFired[j]
          /\ from \in Int /\ loader.asOf \in Nat
      BY <1>1, TimeAssumption DEF MissedFrom, LoaderType, Time
    <3>4. loader'.from = from
      BY <2>1, <2>3
    <3> HIDE DEF from
    <3>5. ASSUME NEW t \in Time, Within(j, t, from, loader.asOf)
          PROVE  t \in loader'.times \cup LeftOut(j, from, loader.asOf)
      <4>1. t \in AllBetween(j, from, loader.asOf)
        BY <3>3, <3>5 DEF AllBetween, Within, Time
      <4> QED BY <3>1, <4>1 DEF LeftOut
    <3>6. ASSUME NEW t \in Time, Within(j, t, horizon'[j], loader.asOf)
          PROVE  t \in delivered[j] \cup loader'.times \cup LeftOut(j, from, loader.asOf)
      <4>1. CASE lastFired[j] = Never
        BY <3>2, <3>3, <3>5, <3>6, <4>1
      <4>2. CASE lastFired[j] # Never /\ t <= lastFired[j]
        BY <3>2, <3>6, <4>2 DEF ReplayOf, Within
      <4>3. CASE lastFired[j] # Never /\ ~(t <= lastFired[j])
        BY <1>1, <3>3, <3>5, <3>6, <4>3 DEF Within, Time
      <4> QED BY <4>1, <4>2, <4>3
    <3>7. \A t \in loader'.times : t <= loader.asOf
      BY <1>1, <3>1 DEF MatchesBetween, AllBetween, LoaderType, Time
    <3>8. \A t \in loader'.times : \A u \in LeftOut(j, from, loader.asOf) : t < u
      BY <3>1, <3>3, OldestFirst
    <3>9. lastFired[j] # Never => horizon'[j] = horizon[j]
      BY <3>2
    <3>10. LeftOut(j, loader.from, loader.asOf)' = LeftOut(j, from, loader.asOf)
      BY <2>1, <3>4 DEF LeftOut, MatchesBetween, AllBetween, MatchesAt
    <3> QED BY <2>1, <2>3, <3>6, <3>7, <3>8, <3>9, <3>10 DEF ReplayOf, Within, MatchesAt
  <2> QED BY <2>2, <2>3
<1>7. ASSUME NEW t \in 0..MaxTime, CatchUpCheck(t) PROVE ReplayOf(j)'
  <2>1. UNCHANGED <<lastFired, horizon, delivered>> /\ loader'.job = loader.job
    BY <1>1, <1>7 DEF CatchUpCheck, LoaderType, storeVars
  <2>2. CASE loader.job = j
    <3>1. /\ loader.stage = "catchup" /\ t \in loader.times
          /\ \A u \in loader.times : t <= u
          /\ loader' = [loader EXCEPT !.stage = "fire", !.at = t]
      BY <1>7, <2>2 DEF CatchUpCheck, Keyed
    <3>2. /\ loader'.stage = "fire" /\ loader'.at = t /\ loader'.times = loader.times
          /\ loader'.asOf = loader.asOf /\ loader'.from = loader.from
      BY <1>1, <3>1 DEF LoaderType
    <3> QED BY <2>1, <2>2, <3>1, <3>2 DEF ReplayOf, Within, MatchesAt, Loading, LeftOut, MatchesBetween, AllBetween
  <2>3. CASE loader.job # j
    BY <2>1, <2>3, ReplayKept
  <2> QED BY <2>2, <2>3
<1>8. CASE CatchUpFire
  <2>1. /\ loader.job \in Jobs /\ loader.stage = "fire"
        /\ loader'.stage = "record" /\ loader'.at = loader.at /\ loader'.times = loader.times
        /\ loader'.asOf = loader.asOf /\ loader'.from = loader.from
        /\ loader'.job = loader.job
        /\ UNCHANGED <<lastFired, horizon>>
    BY <1>1, <1>8 DEF CatchUpFire, LoaderType, Types, Loading, storeVars
  <2>2. delivered[j] \subseteq delivered'[j] /\ (loader.job = j => loader.at \in delivered'[j])
    BY <1>8, <2>1, DeliveredGrows DEF CatchUpFire, Backfill
  <2>3. CASE loader.job = j
    BY <2>1, <2>2, <2>3 DEF ReplayOf, Within, MatchesAt, Loading, LeftOut, MatchesBetween, AllBetween
  <2>4. CASE loader.job # j
    BY <2>1, <2>2, <2>4, ReplayKept
  <2> QED BY <2>3, <2>4
<1>9. CASE CatchUpRecord
  <2>1. /\ loader.stage = "record"
        /\ loader'.stage = "persist" /\ loader'.at = loader.at /\ loader'.times = loader.times
        /\ loader'.asOf = loader.asOf /\ loader'.from = loader.from
        /\ loader'.job = loader.job
        /\ UNCHANGED <<lastFired, horizon, delivered>>
    BY <1>1, <1>9 DEF CatchUpRecord, LoaderType
  <2>2. CASE loader.job = j
    BY <2>1, <2>2 DEF ReplayOf, Within, MatchesAt, Loading, LeftOut, MatchesBetween, AllBetween
  <2>3. CASE loader.job # j
    BY <2>1, <2>3, ReplayKept
  <2> QED BY <2>2, <2>3
<1>10. CASE CatchUpPersist
  <2>1. /\ loader.stage = "persist"
        /\ loader'.stage = "catchup" /\ loader'.times = loader.times \ {loader.at}
        /\ loader'.asOf = loader.asOf /\ loader'.from = loader.from
        /\ loader'.job = loader.job
        /\ UNCHANGED <<horizon, delivered>>
        /\ lastFired' = [lastFired EXCEPT ![loader.job] = loader.at]
    BY <1>1, <1>10 DEF CatchUpPersist, LoaderType, historyVars
  <2>2. CASE loader.job = j
    <3>1. /\ loader.at \in loader.times /\ loader.at \in delivered[j]
          /\ \A t \in loader.times :
               /\ loader.at <= t /\ t <= loader.asOf
               /\ \A u \in LeftOut(j, loader.from, loader.asOf) : t < u
          /\ \A t \in Time : Within(j, t, horizon[j], loader.asOf) =>
               t \in delivered[j] \cup loader.times \cup LeftOut(j, loader.from, loader.asOf)
      BY <2>1, <2>2 DEF ReplayOf, Loading
    <3>2. lastFired'[j] = loader.at /\ loader.at \in Nat /\ loader.asOf \in Nat
          /\ loader.times \subseteq Nat
      BY <1>1, <2>1, <2>2 DEF Types, LoaderType, Time
    <3>3. ASSUME NEW t \in Time, Within(j, t, horizon[j], loader.at) PROVE t \in delivered[j]
      <4>1. Within(j, t, horizon[j], loader.asOf) /\ t <= loader.at
        BY <3>1, <3>2, <3>3 DEF Within, Time
      <4>2. t \in loader.times => t = loader.at
        BY <3>1, <3>2, <4>1 DEF Time
      <4>3. t \notin LeftOut(j, loader.from, loader.asOf)
        BY <3>1, <3>2, <4>1 DEF Time
      <4> QED BY <3>1, <4>1, <4>2, <4>3
    <3>4. ASSUME NEW t \in Time, Within(j, t, horizon[j], loader.asOf)
          PROVE  t \in delivered[j] \cup loader'.times \cup LeftOut(j, loader.from, loader.asOf)
      BY <2>1, <3>1, <3>4
    <3>5. \A t \in loader'.times :
            t <= loader.asOf /\ \A u \in LeftOut(j, loader.from, loader.asOf) : t < u
      BY <2>1, <3>1
    <3>6. LeftOut(j, loader.from, loader.asOf)' = LeftOut(j, loader.from, loader.asOf)
      BY <2>1 DEF LeftOut, MatchesBetween, AllBetween, MatchesAt
    <3> QED BY <2>1, <2>2, <3>2, <3>3, <3>4, <3>5, <3>6 DEF ReplayOf, Within, MatchesAt
  <2>3. CASE loader.job # j
    <3>1. lastFired'[j] = lastFired[j]
      BY <2>1, <2>3 DEF Types
    <3> QED BY <2>1, <2>3, <3>1, ReplayKept
  <2> QED BY <2>2, <2>3
<1>11. CASE Advance \/ Tick \/ UNCHANGED vars
  BY <1>2, <1>11 DEF Advance, Tick, vars, storeVars, historyVars
<1> QED BY <1>3, <1>4, <1>5, <1>6, <1>7, <1>8, <1>9, <1>10, <1>11 DEF Next, LoadStep

-----------------------------------------------------------------------------
(***************************************************************************)
(* How far apart the fires of a key are.  While a key is not overlapped at *)
(* most one of its fires is in flight, and that fire lies a window after   *)
(* everything recorded: its check saw the latest fingerprint, or found it  *)
(* pruned, which means that all of them are a window old.                  *)
(***************************************************************************)
Flies(th, k) == th.keyed /\ Key[th.job] = k /\ th.stage # "check"
LoadsFor(k)  == Keyed(loader.job) /\ Key[loader.job] = k

SpacingOf(k) ==
  /\ \A s, t \in recorded[k] : s < t => t - s >= Window
  /\ fingerprint[k] # Never => \A s \in recorded[k] : s <= fingerprint[k]
  /\ fingerprint[k] = Never => \A s \in recorded[k] :
       s + Window <= now /\ (loader.stage # "off" => s + Window <= loader.asOf)
  /\ \A th \in threads : Flies(th, k) =>
       /\ \A s \in recorded[k] : s + Window <= th.at
       /\ \A u \in threads : Flies(u, k) => u = th
  /\ loader.stage \in {"fire", "record"} /\ LoadsFor(k) =>
       /\ \A s \in recorded[k] : s + Window <= loader.at
       /\ \A th \in threads : ~Flies(th, k)
  /\ loader.stage \in Loading /\ LoadsFor(k) => loader.times \subseteq {loader.asOf}

Plain(k) == \A j \in Jobs : Key[j] = k => ~Backfill(j)

Spacing == \A k \in Keys \ overlapped : Plain(k) => SpacingOf(k)

LEMMA InitSpacing == Init => Spacing
BY IdleType DEF Init, Spacing, SpacingOf, Loading

\* Steps that bring no fire of key k into flight and record none.
LEMMA SpacingKept ==
  ASSUME Types, Types', NEW k \in Keys, SpacingOf(k), now <= now',
         fingerprint'[k] = fingerprint[k], recorded'[k] = recorded[k],
         \A th \in threads' : Flies(th, k) => th \in threads,
         \/ loader' = loader
         \/ loader'.stage = "off"
         \/ /\ loader.stage # "off" /\ loader'.asOf = loader.asOf
            /\ loader'.stage \in {"next", "catchup", "persist"}
            /\ loader'.stage # "next" /\ LoadsFor(k)' => loader'.times \subseteq {loader.asOf}
  PROVE  SpacingOf(k)'
<1>1. now \in Nat /\ now' \in Nat /\ Window \in Nat /\ recorded[k] \subseteq Nat
  BY TimeAssumption DEF Types, Time
<1>2. (\A s, t \in recorded[k] : s < t => t - s >= Window)'
  BY DEF SpacingOf
<1>3. (fingerprint[k] # Never => \A s \in recorded[k] : s <= fingerprint[k])'
  BY DEF SpacingOf
<1>4. (fingerprint[k] = Never => \A s \in recorded[k] :
        s + Window <= now /\ (loader.stage # "off" => s + Window <= loader.asOf))'
  BY <1>1 DEF SpacingOf
<1>5. (\A th \in threads : Flies(th, k) =>
        /\ \A s \in recorded[k] : s + Window <= th.at
        /\ \A u \in threads : Flies(u, k) => u = th)'
  BY DEF SpacingOf, Flies
<1>6. (loader.stage \in {"fire", "record"} /\ LoadsFor(k) =>
        /\ \A s \in recorded[k] : s + Window <= loader.at
        /\ \A th \in threads : ~Flies(th, k))'
  BY DEF SpacingOf, Flies, LoadsFor, Keyed
<1>7. (loader.stage \in Loading /\ LoadsFor(k) => loader.times \subseteq {loader.asOf})'
  BY DEF SpacingOf, LoadsFor, Keyed, Loading
<1> QED BY <1>2, <1>3, <1>4, <1>5, <1>6, <1>7 DEF SpacingOf

\* A fire that passes the check at instant t lies a window after what is recorded.
LEMMA CheckedIsLate ==
  ASSUME Types, NEW k \in Keys, SpacingOf(k), NEW t \in Time, ~Seen(k, t),
         t = now \/ (loader.stage # "off" /\ t = loader.asOf)
  PROVE  \A s \in recorded[k] : s + Window <= t
<1>1. Window \in Nat /\ recorded[k] \subseteq Nat /\ fingerprint[k] \in Nat \cup {Never} /\ t \in Nat
  BY TimeAssumption DEF Types, Time
<1>2. CASE fingerprint[k] = Never
  BY <1>2 DEF SpacingOf
<1>3. CASE fingerprint[k] # Never
  <2>1. t - fingerprint[k] >= Window /\ \A s \in recorded[k] : s <= fingerprint[k]
    BY <1>1, <1>3 DEF Seen, SpacingOf
  <2> QED BY <1>1, <1>3, <2>1
<1> QED BY <1>2, <1>3

\* The fire in flight is recorded.
LEMMA RecordedIsLate ==
  ASSUME Types, NEW k \in Keys, SpacingOf(k), NEW a \in Time,
         \A s \in recorded[k] : s + Window <= a, Fingerprint(k, a),
         \A th \in threads' : ~Flies(th, k),
         ~(loader'.stage \in {"fire", "record"} /\ LoadsFor(k)'),
         loader'.asOf = loader.asOf, loader'.times = loader.times, loader'.job = loader.job,
         loader'.stage = loader.stage \/ loader.stage \in Loading
  PROVE  SpacingOf(k)'
<1>1. /\ Window \in Nat \ {0} /\ recorded[k] \subseteq Nat /\ a \in Nat /\ a # Never
      /\ recorded'[k] = recorded[k] \cup {a} /\ fingerprint'[k] = a
  BY TimeAssumption DEF Types, Time, Fingerprint, Never
<1>2. (\A s, t \in recorded[k] : s < t => t - s >= Window)'
  BY <1>1 DEF SpacingOf
<1>3. (fingerprint[k] # Never => \A s \in recorded[k] : s <= fingerprint[k])'
  BY <1>1
<1>4. fingerprint'[k] # Never
  BY <1>1
<1>5. (loader.stage \in Loading /\ LoadsFor(k) => loader.times \subseteq {loader.asOf})'
  BY DEF SpacingOf, LoadsFor, Keyed, Loading
<1>6. (\A th \in threads : Flies(th, k) =>
        /\ \A s \in recorded[k] : s + Window <= th.at
        /\ \A u \in threads : Flies(u, k) => u = th)'
  BY DEF Flies
<1> QED BY <1>2, <1>3, <1>4, <1>5, <1>6 DEF SpacingOf

\* Another key's fingerprint is no business of this key.
LEMMA OtherFingerprint ==
  ASSUME Types, NEW k \in Keys, NEW i \in Keys, i # k, NEW t, Fingerprint(i, t)
  PROVE  fingerprint'[k] = fingerprint[k] /\ recorded'[k] = recorded[k]
BY DEF Types, Fingerprint

LEMMA ThreadSpacing ==
  ASSUME Types, Types', NEW k \in Keys, SpacingOf(k), k \notin overlapped',
         NEW th \in threads, ThreadStep(th)
  PROVE  SpacingOf(k)'
<1>1. /\ th \in Thread /\ (th.keyed => Keyed(th.job))
      /\ th.stage \in {"check", "record"} => th.keyed
      /\ now \in Nat
  BY DEF Types, ThreadsOK
<1>2. CASE ThreadCheck(th)
  <2>1. UNCHANGED <<now, loader, fingerprint, recorded>> /\ th.stage = "check"
    BY <1>2 DEF ThreadCheck, storeVars
  <2>2. CASE threads' = threads \ {th}
    <3>1. \A u \in threads' : Flies(u, k) => u \in threads
      BY <2>2
    <3> QED BY <1>1, <2>1, <3>1, SpacingKept
  <2>3. CASE /\ ~Seen(Key[th.job], now) /\ NoteOverlap(Key[th.job])
             /\ threads' = (threads \ {th}) \cup {[th EXCEPT !.stage = "fire", !.at = now]}
    <3> DEFINE new == [th EXCEPT !.stage = "fire", !.at = now]
    <3>1. /\ new.keyed = th.keyed /\ new.job = th.job /\ new.stage = "fire" /\ new.at = now
          /\ th.keyed
      BY <1>1, <2>1 DEF Thread
    <3>2. CASE Key[th.job] = k
      <4>1. (\A u \in threads : ~Flies(u, k)) /\ ~LoaderInFlight(k)
        BY <2>3, <3>2 DEF NoteOverlap, InFlight, Flies
      <4>2. \A s \in recorded[k] : s + Window <= now
        BY <1>1, <2>3, <3>2, CheckedIsLate DEF Time
      <4>3. \A u \in threads' : Flies(u, k) => u = new
        BY <2>3, <4>1
      <4>4. ~(loader.stage \in {"fire", "record"} /\ LoadsFor(k))
        BY <4>1 DEF LoaderInFlight, LoadsFor
      <4>5. (\A u \in threads : Flies(u, k) =>
              /\ \A s \in recorded[k] : s + Window <= u.at
              /\ \A v \in threads : Flies(v, k) => v = u)'
        BY <2>1, <3>1, <4>2, <4>3 DEF Flies
      <4> QED BY <2>1, <4>4, <4>5 DEF SpacingOf, LoadsFor, Keyed
    <3>3. CASE Key[th.job] # k
      <4>1. \A u \in threads' : Flies(u, k) => u \in threads
        BY <2>3, <3>1, <3>3 DEF Flies
      <4> QED BY <1>1, <2>1, <4>1, SpacingKept
    <3> QED BY <3>2, <3>3
  <2> QED BY <1>2, <2>2, <2>3 DEF ThreadCheck, MoveThread
<1>3. CASE ThreadFire(th)
  <2>1. UNCHANGED <<now, loader, fingerprint, recorded>> /\ th.stage = "fire"
    BY <1>3 DEF ThreadFire, storeVars
  <2>2. CASE th.keyed /\ Key[th.job] = k
    <3> DEFINE new == [th EXCEPT !.stage = "record"]
    <3>1. /\ new.keyed = th.keyed /\ new.job = th.job /\ new.stage = "record" /\ new.at = th.at
          /\ threads' = (threads \ {th}) \cup {new}
      BY <1>1, <1>3, <2>2 DEF ThreadFire, MoveThread, Thread
    <3>2. Flies(th, k)
      BY <2>1, <2>2 DEF Flies
    <3>3. \A u \in threads' : Flies(u, k) => u = new
      BY <3>1, <3>2 DEF SpacingOf
    <3>4. \A s \in recorded[k] : s + Window <= new.at
      BY <3>1, <3>2 DEF SpacingOf
    <3>5. (\A u \in threads : Flies(u, k) =>
            /\ \A s \in recorded[k] : s + Window <= u.at
            /\ \A v \in threads : Flies(v, k) => v = u)'
      BY <2>1, <3>3, <3>4 DEF Flies
    <3>6. ~(loader.stage \in {"fire", "record"} /\ LoadsFor(k))
      BY <3>2 DEF SpacingOf
    <3> QED BY <2>1, <3>5, <3>6 DEF SpacingOf, LoadsFor, Keyed
  <2>3. CASE ~(th.keyed /\ Key[th.job] = k)
    <3>1. \A u \in threads' : Flies(u, k) => u \in threads
      BY <1>1, <1>3, <2>3 DEF ThreadFire, MoveThread, Flies, Thread
    <3> QED BY <1>1, <2>1, <3>1, SpacingKept
  <2> QED BY <2>2, <2>3
<1>4. CASE ThreadRecord(th)
  <2>1. /\ UNCHANGED <<now, loader>> /\ th.stage = "record" /\ threads' = threads \ {th}
        /\ \/ Fingerprint(Key[th.job], th.at)
           \/ UNCHANGED <<fingerprint, recorded>>
    BY <1>4 DEF ThreadRecord, MoveThread
  <2>2. \A u \in threads' : Flies(u, k) => u \in threads
    BY <2>1
  <2>3. CASE UNCHANGED <<fingerprint, recorded>>
    BY <1>1, <2>1, <2>2, <2>3, SpacingKept
  <2>4. CASE Fingerprint(Key[th.job], th.at) /\ Key[th.job] # k
    <3>1. Key[th.job] \in Keys
      BY <1>1, <2>1, KeyType DEF Thread
    <3>2. fingerprint'[k] = fingerprint[k] /\ recorded'[k] = recorded[k]
      BY <2>4, <3>1, OtherFingerprint
    <3> QED BY <1>1, <2>1, <2>2, <3>2, SpacingKept
  <2>5. CASE Fingerprint(Key[th.job], th.at) /\ Key[th.job] = k
    <3>1. Flies(th, k)
      BY <1>1, <2>1, <2>5 DEF Flies
    <3>2. /\ \A s \in recorded[k] : s + Window <= th.at
          /\ \A u \in threads' : ~Flies(u, k)
          /\ ~(loader.stage \in {"fire", "record"} /\ LoadsFor(k))
      BY <2>1, <3>1 DEF SpacingOf
    <3>3. ~(loader'.stage \in {"fire", "record"} /\ LoadsFor(k)')
      BY <2>1, <3>2 DEF LoadsFor, Keyed
    <3>4. th.at \in Time
      BY <1>1 DEF Thread
    <3> HIDE DEF SpacingOf
    <3> QED BY <2>1, <2>5, <3>2, <3>3, <3>4, RecordedIsLate
  <2> QED BY <2>1, <2>3, <2>4, <2>5
<1> QED BY <1>2, <1>3, <1>4 DEF ThreadStep

LEMMA LoadStartSpacing ==
  ASSUME Types, Types', NEW k \in Keys, SpacingOf(k), LoadStart
  PROVE  SpacingOf(k)'
<1>1. /\ loader'.stage = "next" /\ loader'.asOf = now
      /\ UNCHANGED <<now, threads, recorded>>
      /\ fingerprint'[k] = IF fingerprint[k] < now - Window THEN Never ELSE fingerprint[k]
  BY DEF LoadStart, Idle, historyVars
<1>2. /\ Window \in Nat /\ now \in Nat /\ recorded[k] \subseteq Nat
      /\ fingerprint[k] \in Nat \cup {Never}
  BY TimeAssumption DEF Types, Time
<1>3. fingerprint'[k] = Never => \A s \in recorded[k] : s + Window <= now
  <2>1. CASE fingerprint[k] = Never
    BY <2>1 DEF SpacingOf
  <2>2. CASE fingerprint[k] # Never
    <3>1. \A s \in recorded[k] : s <= fingerprint[k]
      BY <2>2 DEF SpacingOf
    <3> QED BY <1>1, <1>2, <2>2, <3>1
  <2> QED BY <2>1, <2>2
<1>4. fingerprint'[k] # Never => fingerprint'[k] = fingerprint[k]
  BY <1>1
<1> QED BY <1>1, <1>3, <1>4 DEF SpacingOf, Flies, Loading

LEMMA LoadStepSpacing ==
  ASSUME Types, Types', NEW k \in Keys, Plain(k), SpacingOf(k), k \notin overlapped', LoadStep
  PROVE  SpacingOf(k)'
<1>1. loader \in LoaderType /\ now \in Nat
  BY DEF Types
<1>2. ASSUME UNCHANGED <<now, threads, fingerprint, recorded>>,
             \/ loader'.stage = "off"
             \/ /\ loader.stage # "off" /\ loader'.asOf = loader.asOf
                /\ loader'.stage \in {"next", "catchup", "persist"}
                /\ loader'.stage # "next" /\ LoadsFor(k)' => loader'.times \subseteq {loader.asOf}
      PROVE  SpacingOf(k)'
  BY <1>1, <1>2, SpacingKept
<1>3. ASSUME NEW j \in Jobs, LoadNext(j) PROVE SpacingOf(k)'
  <2>1. /\ loader.stage = "next" /\ loader'.stage = "catchup" /\ loader'.asOf = loader.asOf
        /\ loader'.job = j /\ loader'.times = Missed(j, loader.asOf)
        /\ UNCHANGED <<now, threads, fingerprint, recorded>>
    BY <1>1, <1>3 DEF LoadNext, LoaderType, storeVars
  <2>2. ~Backfill(j) => Missed(j, loader.asOf) \subseteq {loader.asOf}
    BY DEF Missed, Backfill, Cron
  <2>3. LoadsFor(k)' => loader'.times \subseteq {loader.asOf}
    BY <2>1, <2>2 DEF LoadsFor, Plain
  <2> QED BY <1>2, <2>1, <2>3
<1>4. ASSUME NEW t \in 0..MaxTime, CatchUpCheck(t) PROVE SpacingOf(k)'
  <2>1. /\ loader.stage = "catchup" /\ t \in loader.times /\ loader.job \in Jobs
        /\ UNCHANGED <<now, threads, fingerprint, recorded>>
    BY <1>4 DEF CatchUpCheck, storeVars, Types, Loading
  <2>2. LoadsFor(k) => loader.times \subseteq {loader.asOf}
    BY <2>1 DEF SpacingOf, Loading
  <2>3. CASE loader' = [loader EXCEPT !.times = @ \ {t}]
    <3>1. /\ loader'.stage = "catchup" /\ loader'.asOf = loader.asOf /\ loader'.job = loader.job
          /\ loader'.times \subseteq loader.times
      BY <1>1, <2>1, <2>3 DEF LoaderType
    <3>2. LoadsFor(k)' => loader'.times \subseteq {loader.asOf}
      BY <2>2, <3>1 DEF LoadsFor, Keyed
    <3> QED BY <1>2, <2>1, <3>1, <3>2
  <2>4. CASE /\ ~(Keyed(loader.job) /\ Seen(Key[loader.job], t))
             /\ loader' = [loader EXCEPT !.stage = "fire", !.at = t]
             /\ Keyed(loader.job) => NoteOverlap(Key[loader.job])
    <3>1. /\ loader'.stage = "fire" /\ loader'.at = t /\ loader'.asOf = loader.asOf
          /\ loader'.job = loader.job /\ loader'.times = loader.times
      BY <1>1, <2>4 DEF LoaderType
    <3>2. ASSUME LoadsFor(k)
          PROVE  /\ \A s \in recorded[k] : s + Window <= t
                 /\ \A th \in threads : ~Flies(th, k)
      <4>1. t = loader.asOf /\ t \in Time
        BY <1>1, <2>1, <2>2, <3>2 DEF LoaderType
      <4>2. ~Seen(k, t) /\ NoteOverlap(k)
        BY <2>4, <3>2 DEF LoadsFor
      <4>3. \A s \in recorded[k] : s + Window <= t
        BY <2>1, <4>1, <4>2, CheckedIsLate
      <4>4. \A th \in threads : ~Flies(th, k)
        BY <4>2 DEF NoteOverlap, InFlight, Flies
      <4> QED BY <4>3, <4>4
    <3>3. LoadsFor(k)' <=> LoadsFor(k)
      BY <3>1 DEF LoadsFor, Keyed
    <3> QED BY <2>1, <2>2, <3>1, <3>2, <3>3 DEF SpacingOf, Flies
  <2> QED BY <1>4, <2>3, <2>4 DEF CatchUpCheck
<1>5. CASE CatchUpFire
  <2>1. /\ loader.stage = "fire" /\ loader'.stage = "record" /\ loader'.at = loader.at
        /\ loader'.asOf = loader.asOf /\ loader'.job = loader.job /\ loader'.times = loader.times
        /\ UNCHANGED <<now, threads, fingerprint, recorded>>
    BY <1>1, <1>5 DEF CatchUpFire, LoaderType, storeVars
  <2>2. LoadsFor(k)' <=> LoadsFor(k)
    BY <2>1 DEF LoadsFor, Keyed
  <2> QED BY <2>1, <2>2 DEF SpacingOf, Flies, Loading
<1>6. CASE CatchUpRecord
  <2>1. /\ loader.stage = "record" /\ loader'.stage = "persist" /\ loader'.at = loader.at
        /\ loader'.asOf = loader.asOf /\ loader'.job = loader.job /\ loader'.times = loader.times
        /\ loader.job \in Jobs /\ loader.at \in Time
        /\ UNCHANGED <<now, threads>>
    BY <1>1, <1>6 DEF CatchUpRecord, LoaderType, Types, Loading
  <2>2. CASE LoadsFor(k)
    <3>1. Fingerprint(k, loader.at)
      BY <1>6, <2>2 DEF CatchUpRecord, LoadsFor
    <3>2. /\ \A s \in recorded[k] : s + Window <= loader.at
          /\ \A th \in threads : ~Flies(th, k)
      BY <2>1, <2>2 DEF SpacingOf
    <3> QED BY <2>1, <3>1, <3>2, RecordedIsLate DEF Loading
  <2>3. CASE ~LoadsFor(k)
    <3>1. fingerprint'[k] = fingerprint[k] /\ recorded'[k] = recorded[k]
      <4>1. CASE Keyed(loader.job)
        BY <1>6, <2>1, <2>3, <4>1, KeyType, OtherFingerprint DEF CatchUpRecord, LoadsFor
      <4>2. CASE ~Keyed(loader.job)
        BY <1>6, <4>2 DEF CatchUpRecord
      <4> QED BY <4>1, <4>2
    <3>2. ~LoadsFor(k)'
      BY <2>1, <2>3 DEF LoadsFor, Keyed
    <3> QED BY <1>1, <2>1, <3>1, <3>2, SpacingKept
  <2> QED BY <2>2, <2>3
<1>7. CASE CatchUpPersist
  <2>1. /\ loader.stage = "persist" /\ loader'.stage = "catchup" /\ loader'.asOf = loader.asOf
        /\ loader'.job = loader.job /\ loader'.times \subseteq loader.times
        /\ UNCHANGED <<now, threads, fingerprint, recorded>>
    BY <1>1, <1>7 DEF CatchUpPersist, LoaderType, historyVars
  <2>2. LoadsFor(k)' => loader'.times \subseteq {loader.asOf}
    BY <2>1 DEF SpacingOf, LoadsFor, Keyed, Loading
  <2> QED BY <1>2, <2>1, <2>2
<1>8. CASE LoadAdd
  <2>1. /\ loader.stage = "catchup" /\ loader'.stage = "next" /\ loader'.asOf = loader.asOf
        /\ UNCHANGED <<now, threads, fingerprint, recorded>>
    BY <1>1, <1>8 DEF LoadAdd, LoaderType, storeVars
  <2> QED BY <1>2, <2>1
<1>9. CASE LoadDone
  BY <1>2, <1>9, IdleType DEF LoadDone, storeVars, historyVars
<1> QED BY <1>3, <1>4, <1>5, <1>6, <1>7, <1>8, <1>9 DEF LoadStep

LEMMA NextSpacing == ASSUME Types, Types', Spacing, [Next]_vars PROVE Spacing'
<1> SUFFICES ASSUME NEW k \in Keys, k \notin overlapped', Plain(k) PROVE SpacingOf(k)'
  BY DEF Spacing, Plain, Backfill, Cron
<1>1. overlapped \subseteq overlapped'
  <2>1. ASSUME NEW th \in threads, ThreadStep(th) PROVE overlapped \subseteq overlapped'
    BY <2>1 DEF ThreadStep, ThreadCheck, ThreadFire, ThreadRecord, NoteOverlap
  <2>2. CASE LoadStep
    BY <2>2 DEF LoadStep, LoadNext, CatchUpCheck, CatchUpFire, CatchUpRecord, CatchUpPersist, LoadAdd,
                LoadDone, NoteOverlap, historyVars
  <2>3. CASE ~LoadStep /\ ~(\E th \in threads : ThreadStep(th))
    BY <2>3 DEF Next, Advance, Tick, Add, Cancel, Save, Forget, LoadStart, LoadAborts, Crash, vars,
                historyVars
  <2> QED BY <2>1, <2>2, <2>3
<1>2. SpacingOf(k) /\ now \in Nat
  BY <1>1 DEF Spacing, Types
<1>3. ASSUME UNCHANGED <<now, threads, fingerprint, recorded>>, loader' = loader \/ loader'.stage = "off"
      PROVE  SpacingOf(k)'
  BY <1>2, <1>3, SpacingKept
<1>4. ASSUME NEW th \in threads, ThreadStep(th) PROVE SpacingOf(k)'
  BY <1>2, <1>4, ThreadSpacing
<1>5. CASE LoadStart
  BY <1>2, <1>5, LoadStartSpacing
<1>6. CASE LoadStep
  BY <1>2, <1>6, LoadStepSpacing
<1>7. CASE Advance
  BY <1>2, <1>7, SpacingKept DEF Advance, storeVars, historyVars
<1>8. CASE Tick
  <2>1. \A th \in threads' : Flies(th, k) => th \in threads
    <3>1. ASSUME NEW th \in Started PROVE ~Flies(th, k)
      <4>1. PICK j \in Due : th = [job |-> j, keyed |-> j \in guarded,
                  stage |-> IF j \in guarded THEN "check" ELSE "fire", at |-> now]
        BY DEF Started
      <4>2. CASE j \in guarded
        BY <4>1, <4>2 DEF Flies
      <4>3. CASE j \notin guarded
        <5>1. (j \in guarded) = FALSE
          BY <4>3
        <5>2. th.keyed = FALSE
          BY <4>1, <5>1
        <5> QED BY <5>2 DEF Flies
      <4> QED BY <4>2, <4>3
    <3>2. threads' = threads \cup Started
      BY <1>8 DEF Tick, Started
    <3> QED BY <3>1, <3>2
  <2> QED BY <1>2, <1>8, <2>1, SpacingKept DEF Tick, storeVars
<1>9. CASE Crash
  <2>1. threads' = {} /\ loader'.stage = "off" /\ UNCHANGED <<now, fingerprint, recorded>>
    BY <1>9, IdleType DEF Crash, storeVars
  <2> QED BY <1>2, <2>1, SpacingKept
<1>10. CASE \/ LoadAborts \/ UNCHANGED vars
            \/ \E j \in Jobs : Add(j) \/ Cancel(j) \/ Save(j) \/ Forget(j)
  BY <1>3, <1>10, IdleType DEF LoadAborts, Add, Cancel, Save, Forget, vars, storeVars, historyVars
<1> QED BY <1>4, <1>5, <1>6, <1>7, <1>8, <1>9, <1>10 DEF Next

-----------------------------------------------------------------------------
IInv == Types /\ Deliveries /\ OneShotFiresOncePerAdd /\ Replay /\ Spacing

\* The inductive invariant of the wheel, the store and LoadFromStore.
THEOREM Invariance == Spec => []IInv
<1>1. Init => IInv
  BY InitTypes, InitDeliveries, InitCredit, InitReplay, InitSpacing DEF IInv
<1>2. IInv /\ [Next]_vars => IInv'
  BY NextTypes, NextDeliveries, NextCredit, NextReplay, NextSpacing DEF IInv
<1> QED BY <1>1, <1>2, PTL DEF Spec

\* The wheel, the threads, the store and the loader keep their types: what is
\* guarded or spent is in the wheel, and a loader at work has a job
\* (scheduler.go: TimeWheel, persist.go: LoadFromStore).
THEOREM TypeCorrect == Spec => []TypeOK
<1>1. IInv => TypeOK
  BY DEF IInv, Types, ThreadsOK, LoaderType, Loading, TypeOK
<1> QED BY <1>1, Invariance, PTL

\* A fingerprint on disk stands for a callback that ran to its end, whatever
\* crashes (persist.go: wrapFireWithDedup and tryFire).
THEOREM FingerprintsStandForDeliveries == Spec => []FingerprintsAreDeliveries
<1>1. IInv => FingerprintsAreDeliveries
  BY DEF IInv, Deliveries
<1> QED BY <1>1, Invariance, PTL

\* An Add of a one-shot is worth one fire (scheduler.go: tick, Add and Cancel).
THEOREM OneShotsFireOnce == Spec => []OneShotFiresOncePerAdd
<1>1. IInv => OneShotFiresOncePerAdd
  BY DEF IInv
<1> QED BY <1>1, Invariance, PTL

\* A replay that crashes cut short leaves no gap below LastFiredAt, and one that
\* ends leaves out only what lies behind the oldest MaxMatches of its window
\* (persist.go: applyMissedFire, tryFire and cronMatchesBetween).
THEOREM ReplaysLeaveNoGap == Spec => []ReplayLeavesNoGap
<1>1. IInv => ReplayLeavesNoGap
  <2> SUFFICES ASSUME IInv, NEW j \in Jobs, Backfill(j), ~Keyed(j)
               PROVE  /\ lastFired[j] # Never =>
                           AllBetween(j, horizon[j], lastFired[j]) \subseteq delivered[j]
                      /\ loader.stage = "catchup" /\ loader.job = j /\ loader.times = {} =>
                           AllBetween(j, horizon[j], loader.asOf) \ delivered[j]
                             \subseteq LeftOut(j, loader.from, loader.asOf)
    BY DEF ReplayLeavesNoGap
  <2>1. ReplayOf(j)
    BY DEF IInv, Replay
  <2>2. ASSUME NEW from \in Int, NEW to \in Nat, NEW t \in AllBetween(j, from, to)
        PROVE  t \in Time /\ Within(j, t, from, to)
    BY DEF AllBetween, Within, Time
  <2>3. horizon[j] \in Int /\ lastFired[j] \in Nat \cup {Never} /\ loader.asOf \in Nat
    BY DEF IInv, Types, LoaderType, Time
  <2>4. ASSUME lastFired[j] # Never, NEW t \in AllBetween(j, horizon[j], lastFired[j])
        PROVE  t \in delivered[j]
    BY <2>1, <2>2, <2>3, <2>4 DEF ReplayOf
  <2>5. ASSUME loader.stage = "catchup", loader.job = j, loader.times = {},
               NEW t \in AllBetween(j, horizon[j], loader.asOf), t \notin delivered[j]
        PROVE  t \in LeftOut(j, loader.from, loader.asOf)
    BY <2>1, <2>2, <2>3, <2>5 DEF ReplayOf, Loading
  <2> QED BY <2>4, <2>5
<1> QED BY <1>1, Invariance, PTL

\* Recorded fires of a key are a window apart over any number of processes,
\* unless two were in flight together (persist.go: dedupSeen and dedupRecord).
THEOREM RecordedFiresStaySpaced == Spec => []RecordedFiresSpaced
<1>1. IInv => RecordedFiresSpaced
  BY DEF IInv, Spacing, SpacingOf, Plain, RecordedFiresSpaced
<1> QED BY <1>1, Invariance, PTL
=============================================================================
