# SoyaOS in TLA+

TLA+ models of the stateful and concurrent parts of SoyaOS (`src/`, Go), their
TLC runs, and proofs checked by TLAPS. The models are translated from the code;
paths below are relative to `src/`. `PROJECT.json` maps every definition to the
lines it stands for and lists the runs, the hazards, the mutants and the
theorems.

    tlc -workers 2 -config MCStateStore.cfg MCStateStore     # one run
    tlapm StateStoreProofs.tla                               # one proof module

## 1. The system

SoyaOS is one Go process (`cmd/soyaos`): an OpenAI-compatible HTTP gateway, a
kernel that runs agents, a control API that installs agents from SoyaPacks, a
scheduler, sandboxes with usage metering, and a bbolt database under all of them.
Beside it there are a relay server for a mesh of devices, and a command line that
runs an agent once and delivers its artifact.

| Component | State it keeps | Operations | Hard behaviour | What makes it correct |
|---|---|---|---|---|
| **state store** `pkg/state` on `pkg/store` | a bbolt bucket of versioned entries, one mutex | Put, CompareAndSwap, Delete, Get, List | a write is a read transaction and a write transaction; reads take no lock; failures and crashes in between | linearizable; no lost update; a version names one write; the mutex is always released |
| **scheduler** `pkg/scheduler` | the wheel (memory), persisted specs with LastFiredAt, fingerprints (store) | Add, Cancel, tick, SavePersistent, DeletePersistent, LoadFromStore | each fire is a goroutine; check, fire and record are separate; replays cut short by crashes; a ticker that misses seconds | at-least-once backfill with no gap but its cap's; a one-shot fires once per Add and does fire; a fingerprint stands for a delivery; fires of a key are a window apart |
| **Pack registry** `pkg/control`, `kernel/pack_agent.go`, `cmd/soyaos/main.go` | Pack directories, the agent map, the action handlers, the jobs in the wheel | deploy, register, reload at start | a directory is replaced file by file; prompts are read back from disk; requests interleave; crashes | a deploy that answered 200 undisturbed is on disk whole and is what its slug serves, also after restarts |
| **Pack host** `pkg/soyapack`, the hooks of `cmd/soyaos/main.go` | NAS targets, publishers, jobs, secrets from the environment | Validate, registerFromPack, the schedule, NAS and channel hooks, a fire | checks made twice that may disagree; hooks that fail one by one; a redeploy under a fire | what Validate accepts the kernel registers; a fire posts once to every channel that works |
| **usage metering** `runtime/providers/process`, `pkg/scope` | sandboxes, ticker goroutines, buckets in memory, usage rows | Provision, LabelHandle, Execute, Terminate, Tick, Flush | tickers share a sandbox; samples are taken under one lock and added under another; flush and tick race | nobody billed twice; timely samples survive a flush; the end of an Execute is metered |
| **kernel turns** `kernel/kernel.go`, `kernel/state.go`, `openaicompat/server.go` | completion, artifact and row entries of each owner | ChatCompletion, ChatCompletionStream, persistAgentCompletion, streamChat | four goroutines and two bounded channels per turn; clients leave; Puts fail one by one; two turns of one owner | "stop" only after everything is persisted; nothing lost between upstream and client; failed generations persist nothing; rows match their workbook |
| **indexed tables** `kernel/indexed_table.go`, `streamCollect` | none beyond the request | collect, expand in batches, repair, select, emit | worker pool, cancellation, retries, deadline | all or nothing: only a valid table is emitted, no batch skipped in silence, every goroutine joined |
| **row actions** `kernel/actions.go`, `action_*.go`, `openaicompat/actions.go`, `auth/rowtoken.go` | action handlers, stored rows | handleAgentAction, authorizeAction, InvokeAction, loadRowPayload, plan, draft, review, repair | two-lock lookup racing a redeploy; rows rewritten meanwhile; silent models | only an approved text is handed out; declaration, prompts and row belong together; a deadline answers |
| **mesh** `pkg/mesh`, `relay`, `quic` | relay sessions and token buckets; connections and their closers | Register, forward, sweep; Dial, Listen, Accept, Close | lost and duplicated datagrams, rebinding clients, sweeps; Close during a handshake; fallback | quotas hold over any span; a session is one pair of one token; no connection or listener outlives Close; the cheapest route that works |
| **artifact delivery** `pkg/artifact`, `cmd/soyaos/agent_invoke.go`, `connectors/nas` | temporary, output and remote files | render, stream, copy, validate, publish, export, upload; HTTP ranges | a renderer goroutine over a bounded channel; failing disks and peers; timeouts; kills | what a command leaves behind is whole or not there; no handler leaves its renderer running |
| **short links, memory** `pkg/shortlink`, `pkg/memory` | key-value entries | Shorten, Resolve; Append, Recent | check-then-put; keys made from the clock | a link leads to its URL for good; no event overwritten, in order |
| **auth** `pkg/auth` | API keys (memory and store) | SeedDevKey, Mint, Verify, Revoke | a start-up seeds the development key again | row tokens are modelled with the row actions; the key set is not |
| runtime gate, LLM client, factory, tools, stubs, commands | little or none | comparison, parsing, rendering, I/O | | not modelled, see section 7 |

How they meet: the gateway calls the kernel, which runs a handler (an upstream
model, an indexed table or a row action) and writes through the state store; the
control API and the start-up both register Packs with the kernel and, through a
hook, their schedules with the wheel; a runtime provider reports samples to the
aggregator, which writes rows to the same database. The links the models use: a
Put is one step in `AgentTurns` because `StateStore` implements the atomic
`VersionedStore`; the handler of `AgentTurns` is what `IndexedTable` describes in
detail for table agents (one delta, then Done, or an error and no chunk);
`PackRegistry` has deployments overlap and the process restart, `PackHost` and
`RowActions` take one deployment at a time and look at what it makes and at who
uses it meanwhile.

Facts about the wiring that matter when reading the models:

- Only tests call `LoadFromStore` and `wrapFireWithDedup`; the host hands the raw
  `Fire` of a schedule to `TimeWheel.Add`, so keyed schedules are not deduplicated
  in the shipped process (main.go:889) and nothing is hydrated at start, against
  the comment at main.go:871-873. Live fires never write LastFiredAt
  (persist.go:308), so the missed window of a job begins at its save.
- No code outside the tests provisions a sandbox or wires the process provider's
  usage hook, looks up a NAS target, or uses `BoltEpisodic`, `shortlink` or
  `ServeStreamingArtifact`. The models are of these packages as they are written.
- The state store never looks at its context, so a cancelled request still
  finishes the Put it has begun.

## 2. The modules

| Module | Models | State ↔ code | Actions ↔ code |
|---|---|---|---|
| `VersionedStore` | what `state.Store` promises: an atomic versioned map | `entries`, a call in progress per client | Invoke, Succeed or Fail at one instant, Return, Crash |
| `StateStore` | `state.BoltStore` | `disk` = bucket `state.entries`, `mu` = the mutex, `pc`/`existing` = the local state of each method | one action per lock, transaction and return; Get and List without the lock |
| `Scheduler` | `scheduler.go`, `persist.go` | `wheel`/`spent` = TimeWheel.jobs and `fired`, `threads` = goroutines of fires, `saved`/`lastFired`/`fingerprint` = the two buckets, `loader` = LoadFromStore in progress | Tick, ThreadCheck/Fire/Record, Add, Cancel, Save, Forget, the stages of LoadFromStore, Crash |
| `PackRegistry` | handleDeployPack, registerFromPack, reloadDeployedPacks | `disk` = Pack directories as file → whose bytes, `agents`, `handlers`, `jobs`, `proc` = registrations in progress | one action per RemoveAll entry, Rename, file copy, prompt read, registration and hook call; DeployFails, Crash |
| `PackHost` | soyapack.Validate, registerFromPack's own checks, the hooks of `soyaos start`, runs of a schedule | `agent`, `targets` (nasTargets), `wheel`, `persisted`, `host` = the deployment under way, `fires` | one action per check or hook entry, per run and per Send |
| `UsageMetering` | process.Provider and UsageAggregator | `sandbox`, `call`, `ticker`, `live` (buckets in memory), `stored` (rows), `flush` | Provision, LabelHandle, Execute…ExecuteEnds, TakeSample then Tick, Flush in its three steps, Terminate, Crash |
| `AgentTurns` | one turn from upstream to client and store | counters of the two channels, `kernel` = place of its goroutine, `client` = what streamChat has told, `completion`/`artifact`/`rows` = the store | handler, kernel and gateway steps, one per channel operation or Put; Disconnect, PutFails, Crash |
| `IndexedTable` | buildIndexedTableHandler, expandIndexedBatches, streamCollect, IndexedTable.Validate | `stage`/`repair`/`rows`, the pool: `dispatched`, `closed`, `worker`, `results`, `cancelled`, `poolError` | dispatcher, worker and handler steps, retries, Expire |
| `RowActions` | a button from handleAgentAction to the answer | `call` = the request's local state, `agent`, `handlers` (packActions), `rows` = stored row payloads, `lapsed` = expired tokens | one action per check, lock, load and model call; Deploy and RegisterAction, WriteRow, Lapse, Expire |
| `Relay` | relay.Server and the clients' PacketConn | `sessions` = the routing table with its buckets, `active` = the gauge, `nextCleanup`, `opened` | one action per kind of datagram: dropped, registered, forwarded, over quota; each with its sweep; Restart |
| `MeshTransport` | quic.Transport, PathStrategy, FallbackDialer | `closed`, `registered` = closeFunc, `pc`/`route`/`raw` of each call | the stages of Dial, Listen and Accept around the mutex, NextRoute, Close in its steps |
| `ArtifactDelivery` | MP4Renderer.RenderStream, agent invoke, the HTTP handler, NAS upload | `sent`/`got` = the channel, `tmp`, `out`, `nas`, `evidence`, `body` | child, renderer, copier, checker, publisher and uploader steps; Timeout, Kill |
| `ShortLinks` | shortlink.Store | `links`, `shortening` | the look, the Put, failures |
| `Episodes` | memory.BoltEpisodic | `lastNano`, `log`, `appending` | clock, mutex, Put; a new process |
| `Enumerations` | operators: a finite set as a sequence in a given order, elements of a sequence picked by their places, sequences one after the other | | |
| `Services` | the six modules before it side by side, one of them at work | theirs, and `focus` | theirs |
| `*Proofs` | theorems and proofs about the module they are named after | | |
| `MC*` | values of the constants for TLC | | |

`Services` puts `Relay`, `MeshTransport`, `ArtifactDelivery`, `ShortLinks`,
`Episodes` and `PackHost` side by side: the initial state chooses by `focus` the
one whose steps are taken. They share no state, so interleaving them would add
states and no behaviour. `EachRuns` proves that what it does is, for each of the
six, a behaviour of its own specification.

A definition that a proof is about uses no recursive operator: candidates are
kept, merged, flattened and interleaved in `IndexedTable` by the places of the rows
they pick (`Enumerations`), which says of each row why it is there.

Abstractions used throughout: names, prompts, payloads and rows are model values
("whose bytes" is all that is kept of a file; a file of `ArtifactDelivery` is the
number of chunks it holds); a bbolt transaction is one step; a crash loses memory
and keeps committed transactions; logging and JSON layout are left out.
`Scheduler` counts time in half minutes so that second zero, the only one a cron
expression matches, differs from the rest of its minute; a cron expression is the
set of minutes it matches. `UsageMetering` counts time in instants, `Minute` of
them to a billing minute; `Relay` in ticks, `Rate` of bytes to a tick. In
`IndexedTable` titles are compared through `Title`, which stands for the
normalised first cell, and the column rules are the set of rows that obey them.
In `RowActions` a text is lines of words, what the contract of a text can tell
apart. Datagrams may be lost, repeated and reordered: the relay may take any
datagram of an opened client at any time. Variables under "history" in a module
never influence a step: they record what a property speaks of.

Names like `Commit_NoCompare` are mutated forms: the definition after a
plausible slip. No specification uses them. For every property there is one, and
the property fails when it replaces the definition (`PROJECT.json`, "mutants");
where a property has two halves a second form breaks the other half.

## 3. The runs

| Run | Asks | Instance and why it is enough |
|---|---|---|
| `StateStore`<br>233,152 states | TypeOK, VersionsIdentifyWrites, NoLostUpdate, Linearizable, CallsReturn | 2 clients, a valid and an invalid key, 4 calls, 1 crash. Keys do not interact beyond the mutex, and two clients with two calls each cover read–write–delete–swap orders; section 5 lifts all but CallsReturn to any size |
| `Scheduler`<br>607,977 states | TypeOK, ReplayLeavesNoGap, OneShotFiresOncePerAdd, OneShotsFire | a backfill job with three matches and a one-shot, 7 half minutes, `MaxMatches` 2, 2 calls, 1 crash: a replay can be cut between its two fires and resumed, and a window of three missed matches exceeds the cap |
| `SchedulerKeys`<br>922,480 states | FingerprintsAreDeliveries, RecordedFiresSpaced | a cron job and a one-shot that share a key, 2 crashes, so that a fingerprint written by one process is read by two later ones |
| `PackRegistry`<br>1,970,313 states | TypeOK, SettledPackIsOnDisk, SettledPackIsServed | two builds of one version with different files and a broken Pack of another slug, 2 concurrent requests, 3 deploys, 1 crash: overlap, overwrite and restart all happen |
| `UsageMetering`<br>1,578,722 states | TypeOK, NeverOverbilled, NothingGoesUnbilled | one sandbox, 2 overlapping Executes, 2 flushes, 2 minutes of 2 instants, 1 crash; the two calls are symmetric (no liveness is checked) |
| `AgentTurns`<br>81,032 states | TypeOK, StopMeansPersisted, StopCarriesEverything, FailedGenerationKeepsLast, SettledRowsMatchArtifact, ClientsAreTold | a streamed and a collected turn of one owner, channels of capacity 1 so that they fill up, workbooks with a repeated row id, 1 failing Put, 1 crash |
| `IndexedTable`<br>6,589 states | TypeOK, ErrorIsTheCause, AllOrNothing, HandlerReturns | 5 candidates in 3 batches over 2 workers (the last batch shorter), three partitions, a repeated title in another partition, a row against the rules, surplus rows, 1 repair, 2 tries per call |
| `RowActions`<br>157,562 states | TypeOK, ApprovedTextOnly, CallsAreConsistent, DeadlinesAnswer | one call with either of two keys or a row token, 2 versions of the Pack of which one reviews and one keeps rows per user, 2 deployments, 1 row write, 1 failure, 2 tries: the redeployment falls between any two steps of the call. Calls share nothing but what the environment changes, so one stands for all |
| `Services`<br>651,914 states | TypeOK, WithinQuota, RelaySessionsSound, NothingLeaks, CheapestRouteWins, InvocationsEndWell, SmallStoresSound, AcceptedPacksRegister, FiresReachEveryPublisher | relay: two sides of a token, a second comet with the same token, a client with a forged token, tokens that expire at 4 of 5 ticks, idle time 2, a rate of 1 against a burst of 4, so that a new session's burst is more than an idle time earns, 1 restart; transport: a dial with every kind of route and one with none, a listener with one accept, 2 peers; delivery: 3 chunks over a channel of 1, four protocols, MP4, workbook and HTTP; links: 3 URLs of which two share a code, 2 goroutines; episodes: 2 appenders, 3 events, 1 restart; host: 28 manifests, most with one fault, 2 variables, 2 deployments, 1 run |
| `PackRestart` ✗ | RestartServesWhatWasDeployed | two versions whose directories sort the other way round |
| `UsageLate` ✗ | SamplesAccumulate | as UsageMetering |
| `AgentLeft` ✗ | OutIsClosed | one streamed turn whose client leaves |

✗ marks runs that refute what the source says; see section 6. Every other run
passes, with deadlock checked except in `IndexedTable`, `RowActions` and
`Services`, where the work ends and nothing is left to do: there a stuck pool or
call is what `HandlerReturns` and `DeadlinesAnswer` exclude. The other modules have
a `Quiescent` step or never run out of steps.

Every bound is a constant that begins with `Max` or is named "bound" at its
declaration, except `MaxRepairs`, `MaxRetries`, `MaxConcurrency` and `MaxMatches`, which are
the code's own limits, and it appears in guards only. `Capacity` is 8 in the code and 1
in the run, `Cap` 8 for the command and 4 for the HTTP handler in the code and 1 in
the run: a smaller channel only makes the full and the empty case
more frequent. `MaxRetries` is 3 in the code and 2 in the runs,
`MaxMatches` 10,080 in the code and 2 in the runs.

## 4. Fairness

Safety needs none. What each liveness property assumes, and why:

- `StateStore!CallsReturn`: a goroutine inside a method keeps running (WF of
  `Proceed`), and a client that waits for the mutex gets it if it is free again
  and again (SF of `Acquire`): `sync.Mutex` enters starvation mode and hands the
  lock over after a millisecond. Callers need not call.
- `Scheduler!OneShotsFire`: the clock moves, the wheel's goroutine ticks,
  LoadFromStore keeps going. Nothing is assumed of the goroutines of live fires:
  their callbacks get a background context and may hang.
- `AgentTurns!ClientsAreTold`, `OutIsClosed`: an upstream that has not gone
  silent sends on, ends or fails; the kernel's and the gateway's goroutines run.
  Nothing keeps an upstream from going silent for good (`GoesSilent`): the HTTP
  client has no timeout on the body and the chat handlers set no deadline. A silent
  one ends, with an error, only once its request's context is done, that is once
  its client has left. What is claimed of a client that stays with it is that it
  was given all that came (`Stalled`). The client need not leave, and Puts need
  not succeed.
- `IndexedTable!HandlerReturns`: the handler's goroutine runs and each worker
  runs; an upstream call ends, at the latest by the handler's deadline
  (`TimeoutSeconds`). Expire itself is not fair.
- `RowActions!DeadlinesAnswer`: the call's own steps run; the timer of a deadline
  fires if there is one; an upstream call fails once its context is over, because
  its HTTP request carries it. A model may be silent for ever, and a call without
  a timeout may then wait for ever: nothing is claimed of it.

`PackRegistry`, `UsageMetering` and `Services` are checked for safety and action
properties only.

## 5. What is proved

Eight modules hold proofs, each for every value of the constants that satisfies
the named assumptions of its module. Each has an inductive invariant `IInv` (one
for each model in `ServicesProofs`), one lemma per action or group of actions,
`Invariance == Spec => []IInv`, and the theorems that follow. Why the properties of the runs are not inductive, and what
`IInv` adds:

**StateStoreProofs.** `IInv` adds that a client between its locked read and its
write works on a valid key with a write operation (`CallsWellFormed`), that the
base of a CompareAndSwap in progress is the version its caller was last told
(`BaseIsTold`: only the caller's own calls change that), and that nobody was told
of a Delete that has not happened (`EpochsBounded`). With `ReadStillCurrent` (the
holder of the mutex has read what is still stored) every commit moves a version by
exactly one, and so a version the caller was told names one write unless a Delete
came between. From it: `TypeCorrect`, `VersionsIdentify`, `NoUpdateIsLost`, and,
stated for the proof only, `ReadsStayCurrent` and `VersionsAdvance`. `CallsNeverHang`
adds that whoever holds the mutex is inside a method. `Refinement`
proves that `StateStore` implements `VersionedStore`: a call's phase is a function
of its `pc`, the transaction that commits (or the unlocked read) is the instant of
its effect, every other step stutters.

**SchedulerProofs.** Five parts, each with a lemma that every step keeps it.
`Deliveries`: a fire that is about to be recorded was completed. The credit of a
one-shot: what the wheel and the goroutines owe it never exceeds its Adds.
`Replay`: of the matches between the horizon and the time the replay took as now,
each is delivered, or still among the times it will fire, or left out by the cap.
The times are fired in order, and what is left out is later than all of them
(`OldestFirst`, from the cardinalities of the matches before each), so what lies
below LastFiredAt is delivered wherever a crash cuts. `Spacing`: of a
key whose fires were never overlapped at most one fire is in flight, and it is a
window after everything recorded.

**PackRegistryProofs.** `Work` says what a registration has done so far: which
files are written, which prompts, actions and schedules wired. `Apart`: a deploy
that is not marked as overlapped, and a settled Pack, share neither directory nor
slug with any other deploy in progress; `StepOf` says that a step touches only its
own, so `Work` is kept by everybody else (`StepKeepsIInv`). The start-up works
alone (`Places`); over a whole archive it does the same work, so `Settled` can say
that a settled Pack is on disk and, if its slug has one directory, is still to be
loaded, being loaded, or served. From it: `TypeCorrect`, `SettledPacksStayOnDisk`,
`SettledPacksAreServed`.

**AgentTurnsProofs.** `Progress` ties the kernel's place to the handler: whatever
is persisted comes after the handler has ended well and its channel is drained.
`Written` says which keys have been put at each place, which makes the answer of a
turn, and so whether it is a workbook, stable once anything is put. `Streaming`
counts the out channel. `Alone` says that a turn nobody overlapped has its
completion, artifact and rows so far to itself while it persists. `Settled` says
the same of the turn that was last to persist undisturbed. From it: `TypeCorrect`
(with both channels within capacity), `StopsArePersisted`,
`StopsCarryEverything`, `FailedGenerationsKeepLast`, `SettledRowsMatch` and
`TurnsNeverHang`, which has to say of a silent upstream that both channels behind it
drain to the client.

**IndexedTableProofs.** Of the pool (`PoolIInv`): an index handed out is answered,
held by a worker, or was left undone by one that saw the pool done; a pool that is
done stays so and never succeeds. Of the rows (`Whole`): every candidate obeys the
rules and has a title of its own; an expansion has a slot for each batch, a repair
still has a row to ask for; what is about to be emitted is a `Table`. The lemmas
about `Kept`, `Flattened`, `Merge`, `InterleavePartitions` and `Selects` rest on one
fact: an enumeration of a set has elements of the set and none twice, so no row is
made up and no place used twice. From it: `TypeCorrect`, `ErrorsNameTheCause`,
`ExpansionsAreWhole` (the second half of `AllOrNothing`) and `TablesAreWhole`
(`AllOrNothing`). For `PoolNeverHangs`, `Manned` says that workers leave only a pool
that is done, or a channel that is closed.

**RowActionsProofs.** Of each call: past its credential it is its subject's
(`Known`); its result is open while its handler works (`Open`); a "done" text is
valid and passed (`Approved`); its payload is its owner's (`Grounded`); its prompt
is that of its declaration if no deployment came between (`Matched`), for which
`Ready` says that an undisturbed call will find that handler. Of the rest: what a
deployment has registered so far (`Deployed`), and that a stored row is its
owner's (`Stored`). From it: `TypeCorrect`, `TextsAreApproved`,
`CallsStayConsistent`.

**UsageMeteringProofs.** The bill compares three sums over functions: the rows in
memory, with the flushes and on disk, the samples on their way, the time each
sandbox has lived. They are not inductive alone: `Metered` and `Ticking` say that a
sample is the time since the one before it and who holds it, `Flushing` and
`TimelyOnce` that a bucket whose samples came in time and were not dropped is in one
place. The lemmas about sums (take a point away, change one, a part is at most the
whole) are inductions by the smallest finite set that would refute them: strict
inclusion of finite sets is well-founded, and `WFMin` takes a set, not an operator.
From it: `TypeCorrect`, `NobodyIsBilledTwice`, `AllIsBilled`.

**ServicesProofs** has a section for each of six models, each with an inductive
invariant of its own, and carries the results over to `Services` (`EachRuns`,
`TypeCorrect`, `StoresSound`).

- *Relay* (`RelayIInv`). `QuotaKept`: what the watched token has carried, with what
  its bucket holds, is at most a burst and the token's pace since (`WithinAt`); the
  pace is what an idle time earns or one burst, whichever is more, per idle time.
  It survives a sweep because a session is swept only after an idle time of
  silence, in which the pace has paid for the burst of the session after it. Nothing
  is assumed of rate, burst and idle time but that the code accepts them.
  `BucketsHold`, `SweepsHold`, `PairsHold` and `GaugeCounts` say the rest.
  Theorems: `RelayTypeCorrect`, `QuotaHolds`, `SessionsSound`.
- *Transport* (`TransportIInv`). A handle is open only while a call holds it or it
  was returned (`HandlesAreHeld`, `ReturnedAreKnown`); once the flag is set no closer
  is added (`ClosedStayClosed`), and the Close that set it runs all there are
  (`CloseProgress`). A dial under way is on one of its routes (`RoutesAreTaken`), which
  is the one PathStrategy would choose without those it has tried
  (`TakenIsCheapest`), and what it opens a stream on is the peer it asked for
  (`PeersAreIdentified`). Theorems: `TransportTypeCorrect`, `NothingEscapesClose`,
  `CheapestRoute`.
- *Delivery* (`DeliveryIInv`). `PipeFacts` says what the renderer has sent at each of its
  stages; `BeforeRename` and `AfterRename` what is on disk on either side of the one
  step that publishes; `Serving` that the HTTP body has no more than was received.
  Theorem: `InvocationsDeliver`.
- *Links* (`LinksIInv`). What a call has found free is still free for it, or
  contested (`FreeOrContested`): two calls that are about to put different URLs under
  one code contest it (`RivalsContest`). Theorem: `LinksLead`.
- *Episodes* (`EpisodesIInv`). Each time of a process is given to one event
  (`TimesDiffer`), and lies after the entries of earlier processes and of Appends that
  had returned, unless the clock is `behind` (`TimesFollow`); so no entry replaces one
  (`LogKeeps`). Recent is an enumeration by time, about which `EnumerationFacts`
  says that it has every entry once, in order. Theorem: `LogInOrder`.
- *Host* (`HostIInv`). What a deployment has passed (`DeploymentAdvances`), that a
  job has the publishers of its deployment (`JobsPublish`), and how far a fire is and
  what it has posted, in the order of its publishers (`FiresAdvance`); apart from the
  state, that whatever Validate accepts and the kernel refuses has an excuse
  (`RefusalIsExcused`). Theorems: `RefusalsAreExcused`, `FiresReach`.

So every safety and action property of the passing runs is a theorem. Only
model-checked: liveness (`CallsReturn`, `OneShotsFire`, `ClientsAreTold`,
`HandlerReturns`, `DeadlinesAnswer`: temporal reasoning with ENABLED is out of the
prover's reach). Of three of them the half that is a safety property is proved:
`CallsMove`, `TurnMoves` and `PoolMoves` say that as long as a call, a client or an
expansion waits, somebody has a step to take that is not a failure, so that what is
left to fairness is only that it is taken. No run checks these three; they are
stated for the proofs `CallsNeverHang`, `TurnsNeverHang` and `PoolNeverHangs`. The
runs that refute the source need no proof.

## 6. Where the source and the code differ

Shown by a run:

- **A restart may serve an older version** (`PackRestart`, main.go:841).
  Directories are registered in name order and the last of a slug wins: 1.9.0
  after 1.10.0.
- **Late samples overwrite billed rows** (`UsageLate`, usage_aggregator.go:124).
  A sample that reaches its bucket after the minute was flushed opens the bucket
  anew; the next flush's row replaces the first.
- **A kernel goroutine leaks when a client leaves** (`AgentLeft`,
  kernel.go:385). streamChat returns after a failed write and reads no more;
  the kernel's send does not watch the context and waits for ever.

Facts of the models that no run singles out, or that lie just outside them:

- A missed one-shot fires twice: the catch-up fires it "exactly once", then Add
  puts it in the wheel with a clear `fired` flag and a RunAt in the past
  (persist.go:193); only an idempotency key hides it. LoadFromStore stops at an
  error in mid-hydration (persist.go:187).
- persist.go:138 promises to "replay every missed cron match"; cronMatchesBetween stops at
  10,080 matches (persist.go:368-371), so a minutely job more than a week behind
  has the rest of its window left out. It enters the wheel all the same, and the
  matches left out are replayed by the next start, if there is one.
- Two fires of one key that are in flight at once both pass the idempotency window
  (persist.go:303), against persist.go:294-296; `RecordedFiresSpaced` excepts keys
  to which that happened (`overlapped`).
- A failed deploy leaves an agent with stub actions: it is registered before its
  action prompts are read (pack_agent.go:142). A redeploy with fewer actions or
  schedules leaves the old handlers and jobs (pack_agent.go:183), and one that
  replaces a NAS target never closes the old one (kernel.go:262), though
  nas/kernel_hook.go:76-78 says the kernel closes them on shutdown: nothing does.
- Deploys of one slug or directory that overlap leave any mixture of the two
  (control/server.go:420); the `Settled...` properties speak of the others.
- An upstream that goes silent after its header leaves a client that stays waiting
  for ever: openai_compat.go:30-36 leaves the deadline to the caller, and the chat
  handlers set none (`Stalled`).
- state.go:161-163 says that CompareAndSwap returns ErrNotFound when the key never
  existed; it returns ErrConflict, in the code as in the model.
- Two overlapping turns of an owner may leave the rows of one under the artifact of
  the other (kernel/state.go:124); `SettledRowsMatchArtifact` speaks of turns nobody
  overlapped.
- A workbook with fewer rows leaves the higher rows of the one before
  (kernel/state.go:97). A row token's caller is the subject "row-token:…" and
  never finds a row that is scoped to a user. A call that a redeployment overtakes
  runs the new version's prompts under the old declaration: `CallsAreConsistent`
  speaks of the others. Validate accepts two actions of one id.
- Query reads live buckets and stored rows in two steps (usage_aggregator.go:147);
  a flush that fails after the first Put loses the remaining buckets' rows (110).
- An upstream that closes cleanly before `[DONE]` looks complete
  (openai_compat.go:199).
- Relay: a session swept and begun anew has a full burst. With `--rate-mbps 1
  --burst-mib 1024`, which NewServer and the command accept, a token that is
  silent for ten minutes at a time therefore carries far more than its rate, up to
  a burst per idle time: `WithinQuota` states the bound that holds (`Pace`), and the
  run's instance has such a burst. A datagram from a wrong address
  refreshes `lastSeen` before it is dropped.
- Mesh: Select may choose an empty first hint or LAN address, where the fallback's
  candidatePaths skips it. A second concurrent Close returns before the first is
  done. A Dial that Close overtakes may return a closed connection and no error.
  On a relay route the UDP socket is given to a quic-go Transport, which does not
  close a socket it did not make; neither does anything else (quic.go:93-103,
  159-170), so the socket of a relay dial or listen stays open once
  it has registered with the relay. The handle of
  the model is the QUIC connection or listener, and `NothingLeaks` says nothing of
  that socket.
- Delivery: SMB and NFS uploads write in place, so a failed one leaves a part; an
  upload has what the render left of the timeout; copyPortable leaves a part that
  the next run refuses as already there; after a failed copy the renderer stays
  blocked until the render timeout. http_streaming.go:27-29 says that a renderer's
  error closes the connection; line 59 discards it and the response ends cleanly.
- Host: a schedule with only `once` passes Validate and is always refused by
  TimeWheel.Add. When SavePersistent fails the job stays in the wheel though it is
  reported skipped. An empty access_token_ref resolves to nothing and every Send
  fails; a missing secret is silently ignored. Validate does not look at `expose`
  for Skills, while the kernel registers any kind.
- SeedDevKey puts a revoked development key back at every start. An event log
  whose process starts with its clock behind the one before may order or overwrite
  events wrongly (`behind` marks that, and `HistoryInOrder` excepts it); two URLs
  of one code that are shortened at once leave one link to the other's URL
  (`contested`, likewise).

## 7. Not modelled

- Runtime gate and lifecycle: a comparison and a constant table, which keep no
  state and have no caller outside the tests. Container and microvm providers:
  stubs. Factory: writes to a directory nobody else reads. Tools, dispatcher,
  orbit, sdk, studio, the other commands: pure functions, I/O or constants.
- Decoding of YAML, what the renderers lay out, the NAS and chat protocols, the
  JSON of the gateway's other routes: formatting and I/O. The renderers other than
  MP4 and XLSX, the degradation tracker and the inbound webhook are not modelled.
- The SSE reader of `llmcall` is the environment of `AgentTurns`, `IndexedTable`
  and `RowActions`: it may send, end early, fail, be torn down or go silent.
- The key set of `pkg/auth` (Mint, Revoke) and the semantic and working tiers of
  memory are one map each. The control API's read-only and key handlers are calls
  of these.
- quic-go and UDP sockets are external: a handshake ends with an authenticated
  peer or an error.

What would add most next: the key set with SeedDevKey over restarts; a turn and
the button pressed after its "stop" in one model (`AgentTurns` with `RowActions`).
