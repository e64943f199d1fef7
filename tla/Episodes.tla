------------------------------- MODULE Episodes -------------------------------
(***************************************************************************)
(* pkg/memory.BoltEpisodic: the event log of an agent.  An event is stored *)
(* under its time in nanoseconds, so two events of one time would be one   *)
(* entry; a mutex around a counter in memory makes the times of a process  *)
(* differ and grow.  The clock is read before the mutex is taken and the   *)
(* event is put after it is released.  A process that starts knows nothing *)
(* of the times used before it.                                            *)
(*                                                                         *)
(* One owner: the counter is shared by all, the log is not.  A caller's own *)
(* timestamp is like a clock that may show anything.                       *)
(***************************************************************************)
EXTENDS Integers, Sequences, Enumerations

CONSTANTS
  Appenders,               \* goroutines
  MaxNano, MaxEvents, MaxStarts   \* bounds

ASSUME EpisodesAssumption == MaxNano \in Nat /\ MaxEvents \in Nat /\ MaxStarts \in Nat

VARIABLES
  lastNano,     \* the time given out last, in memory
  log,          \* set of [nano, event, start]
  appending,    \* [Appenders -> [at, event, nano]]
  returned,     \* history: events whose Append returned nil
  before,       \* history: [events -> the events that had returned when it was called]
  starts,       \* history: starts of the process so far; an entry's start is its writer's
  behind        \* history: a process was given a time not after one of an earlier process

episodesVars == <<lastNano, log, appending, returned, before, starts, behind>>

Events == 1..MaxEvents
Done   == [at |-> "idle", event |-> 0, nano |-> 0]

EpisodesInit ==
  /\ lastNano = 0 /\ log = {}
  /\ appending = [a \in Appenders |-> Done]
  /\ returned = {} /\ before = <<>>
  /\ starts = 0 /\ behind = FALSE

\* The time of the clock is good enough.
Later_AsRead(nano) == nano

\* A time not after the last one is moved behind it.
Later(nano) == IF nano <= lastNano THEN lastNano + 1 ELSE nano

-----------------------------------------------------------------------------
\* Append reads the clock, or takes the caller's timestamp.
Append1(a, nano) ==
  /\ appending[a].at = "idle" /\ Len(before) < MaxEvents
  /\ before' = Append(before, returned)
  /\ appending' = [appending EXCEPT ![a] = [at |-> "time", event |-> Len(before'), nano |-> nano]]
  /\ UNCHANGED <<lastNano, log, returned, starts, behind>>

\* Under the mutex it gets a time of its own.
TakeTime(a) ==
  LET nano == Later(appending[a].nano) IN
  /\ appending[a].at = "time"
  /\ lastNano' = nano
  /\ appending' = [appending EXCEPT ![a].at = "put", ![a].nano = nano]
  /\ behind' = (behind \/ \E r \in log : r.start < starts /\ nano <= r.nano)
  /\ UNCHANGED <<log, returned, before, starts>>

\* The Put replaces an entry of the same time.
PutEvent(a) ==
  LET k == appending[a] IN
  /\ k.at = "put"
  /\ log' = {r \in log : r.nano # k.nano} \cup {[nano |-> k.nano, event |-> k.event, start |-> starts]}
  /\ returned' = returned \cup {k.event}
  /\ appending' = [appending EXCEPT ![a] = Done]
  /\ UNCHANGED <<lastNano, before, starts, behind>>

AppendFails(a) ==
  /\ appending[a].at = "put"
  /\ appending' = [appending EXCEPT ![a] = Done]
  /\ UNCHANGED <<lastNano, log, returned, before, starts, behind>>

\* The process ends and another starts.
NewProcess ==
  /\ starts < MaxStarts
  /\ starts' = starts + 1 /\ lastNano' = 0
  /\ appending' = [a \in Appenders |-> Done]
  /\ UNCHANGED <<log, returned, before, behind>>

EpisodesNext ==
  \/ \E a \in Appenders : \/ \E nano \in 1..MaxNano : Append1(a, nano)
                          \/ TakeTime(a) \/ PutEvent(a) \/ AppendFails(a)
  \/ NewProcess

EpisodesSpec == EpisodesInit /\ [][EpisodesNext]_episodesVars

-----------------------------------------------------------------------------
\* Recent: the newest n entries, the newest first.
Recent(n) ==
  LET newest == Enumeration(log, {p \in log \X log : p[1].nano > p[2].nano})
  IN SubSeq(newest, 1, IF n < Len(newest) THEN n ELSE Len(newest))

\* The counter, the log and the calls in progress have their types.
EpisodesTypeOK ==
  /\ lastNano \in Nat /\ starts \in 0..MaxStarts /\ behind \in BOOLEAN
  /\ log \subseteq [nano : Nat, event : Events, start : 0..starts]
  /\ appending \in [Appenders -> [at : {"idle", "time", "put"}, event : Events \cup {0}, nano : Nat]]
  /\ returned \subseteq Events /\ before \in Seq(SUBSET Events)

\* No event that was accepted is lost, and of two events of which one was
\* accepted before the other was offered Recent gives the later one first,
\* whatever the clock shows and however appends overlap; unless a process is
\* given times that lie before those of an earlier process.
HistoryInOrder ==
  LET all      == Recent(Cardinality(log))
      place(e) == CHOOSE i \in DOMAIN all : all[i].event = e
  IN ~behind =>
       \A e \in returned :
         /\ \E i \in DOMAIN all : all[i].event = e
         /\ \A f \in before[e] : place(e) < place(f)
=============================================================================
