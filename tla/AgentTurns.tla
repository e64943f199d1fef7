------------------------------ MODULE AgentTurns ------------------------------
(***************************************************************************)
(* A turn of a stateful agent, from the gateway to the store: the agent's  *)
(* handler, Kernel.ChatCompletion and ChatCompletionStream,                *)
(* persistAgentCompletion with persistWorkbookRows, and streamChat, which  *)
(* hands the chunks to the HTTP client.                                    *)
(*                                                                         *)
(* A turn is four goroutines and two bounded channels.  A channel delivers *)
(* in order, so it is a pair of counters: what went in and what came out.  *)
(* The handler is the stream of an upstream model: it sends text, ends     *)
(* with Done (the upstream may close the connection early, which ends the  *)
(* stream the same way), fails, or goes silent: nothing bounds the wait    *)
(* for the next line of a body but the context of the request. A Put of    *)
(* the state store is one step, which is what the module StateStore shows  *)
(* it to be; it ignores the context. A crash ends the turns and keeps the  *)
(* store.                                                                  *)
(***************************************************************************)
EXTENDS Integers, Sequences

CONSTANTS
  Turns,       \* requests
  Streamed,    \* those with "stream": true; the others are collected
  Owners,      \* state owners: an agent, or an agent and its user
  Owner,       \* [Turns -> Owners]
  Deltas,      \* [Turns -> number of text chunks of the whole answer]
  Workbooks,   \* the turns whose whole answer is a workbook snapshot
  RowPuts,     \* [Turns -> Seq(row ids)], the rows of its sheets, in order; the
               \* ids start over at each sheet
  NoTurn,
  Capacity,    \* of either channel; 8 in the code
  MaxFailures, \* bound: Puts that fail
  MaxCrashes   \* bound: crashes

ASSUME TurnsAssumption ==
  /\ Streamed \subseteq Turns /\ NoTurn \notin Turns
  /\ Owner  \in [Turns -> Owners]
  /\ Deltas \in [Turns -> Nat]
  /\ Workbooks \subseteq Turns /\ RowPuts \in [Turns -> Seq(Nat)]
  /\ Capacity \in Nat \ {0}
  /\ MaxFailures \in Nat /\ MaxCrashes \in Nat

VARIABLES
  handler,    \* [Turns -> state of the handler goroutine]
  cancelled,  \* turns whose request context is done
  sent,       \* [Turns -> chunks the handler put in the inner channel]
  taken,      \* [Turns -> chunks the kernel took out of it]
  kernel,     \* [Turns -> where the kernel's goroutine is]
  nextRow,    \* [Turns -> position in RowPuts]
  passed,     \* [Turns -> chunks the kernel put in the out channel]
  read,       \* [Turns -> chunks the gateway took out of it]
  client,     \* [Turns -> what the gateway has told the client]
  completion, \* [Owners -> turn], the value of completion/latest
  artifact,   \* [Owners -> turn], the value of artifact/<schema>/latest
  rows,       \* [Owners -> [row id -> turn]], the row payloads
  failures, crashes,  \* history: for the bounds
  puts,       \* history: [Turns -> the keys it has put]
  disturbed,  \* history: turns that persisted while another of their owner did
  settled     \* history: [Owners -> the turn whose persistence, undisturbed,
              \*           was the last to begin], or NoTurn

channels == <<sent, taken, passed, read>>
store    == <<completion, artifact, rows>>
history  == <<puts, disturbed, settled>>
bounds   == <<failures, crashes>>
vars == <<handler, cancelled, channels, kernel, nextRow, client, store, bounds, history>>

-----------------------------------------------------------------------------
HandlerStates == {"idle", "running", "silent", "closing", "ended", "failed"}
KernelStages  == {"idle", "recv", "send", "wait", "completion", "artifact", "rows",
                  "final", "ok", "error"}
ClientStates  == {"idle", "reading", "tail", "stop", "error", "gone"}

\* The row ids persistWorkbookRows puts for the answer of t.
RowsOf(t)  == {RowPuts[t][i] : i \in 1..Len(RowPuts[t])}
RowIds     == UNION {RowsOf(t) : t \in Turns}
Row(r)     == <<"row", r>>
Latest     == <<"completion", 0>>
Snapshot   == <<"artifact", 0>>
Keys       == {Latest, Snapshot} \cup {Row(r) : r \in RowIds}

\* Done is the last chunk a handler sends.
DoneSent(t) == handler[t] \in {"closing", "ended"}
DoneTaken(t) == DoneSent(t) /\ taken[t] = sent[t]
\* The text chunks the kernel has collected, and whether they parse as a workbook.
Collected(t) == IF DoneTaken(t) THEN taken[t] - 1 ELSE taken[t]
Workbook(t)  == t \in Workbooks /\ Collected(t) = Deltas[t]

\* The keys a persistence of t that runs to its end has put.
KeysOf(t) == {Latest} \cup
             IF Workbook(t) THEN {Snapshot} \cup {Row(r) : r \in RowsOf(t)} ELSE {}

Returned(t) == kernel[t] \in {"ok", "error"}
Persisting(t) == kernel[t] \in {"artifact", "rows"}

\* The client has been given all that came from an upstream that has gone silent.
Stalled(t) == /\ handler[t] = "silent" /\ t \notin cancelled
              /\ kernel[t] = "recv" /\ taken[t] = sent[t] /\ read[t] = passed[t]

\* The kernel waits for room in the channel of a client that has left.
Abandoned(t) == /\ kernel[t] \in {"send", "final"} /\ client[t] = "gone"
                /\ passed[t] - read[t] = Capacity

Init ==
  /\ handler = [t \in Turns |-> "idle"] /\ cancelled = {}
  /\ sent = [t \in Turns |-> 0]   /\ taken = [t \in Turns |-> 0]
  /\ passed = [t \in Turns |-> 0] /\ read = [t \in Turns |-> 0]
  /\ kernel = [t \in Turns |-> "idle"] /\ nextRow = [t \in Turns |-> 1]
  /\ client = [t \in Turns |-> "idle"]
  /\ completion = [o \in Owners |-> NoTurn] /\ artifact = [o \in Owners |-> NoTurn]
  /\ rows = [o \in Owners |-> [r \in RowIds |-> NoTurn]]
  /\ failures = 0 /\ crashes = 0
  /\ puts = [t \in Turns |-> {}] /\ disturbed = {}
  /\ settled = [o \in Owners |-> NoTurn]

Move(t, stage) == kernel' = [kernel EXCEPT ![t] = stage]

\* A key of t is written; the last of its writes settles the owner.
Wrote(t, key, last) ==
  /\ puts' = [puts EXCEPT ![t] = @ \cup {key}]
  /\ settled' = IF last /\ t \notin disturbed
                THEN [settled EXCEPT ![Owner[t]] = t] ELSE settled

-----------------------------------------------------------------------------
(***************************************************************************)
(* Mutated forms: what a definition would be after a plausible slip in the *)
(* code.  No specification uses them; each shows that a property can fail. *)
(***************************************************************************)

\* ChatCompletion ends as ChatCompletionStream does.
AfterPersisting_Streams(t) == "final"

\* Persistence is over: a stream goes on with Done, a collected turn returns.
AfterPersisting(t) == IF t \in Streamed THEN "final" ELSE "ok"

\* The inner channel is closed only when the handler succeeds.
InnerClosed_OnSuccess(t) == handler[t] = "ended"

\* The handler has returned, its error is in errCh and the inner channel closed.
InnerClosed(t) == handler[t] \in {"ended", "failed"}

\* The kernel drops a chunk the client is too slow for.
Forward_DropsWhenFull(t) ==
  /\ kernel[t] = "send"
  /\ passed' = [passed EXCEPT ![t] = IF @ - read[t] < Capacity THEN @ + 1 ELSE @]
  /\ Move(t, "recv")
  /\ UNCHANGED <<handler, cancelled, sent, taken, read, nextRow, client, store, bounds, history>>

\* Whatever was collected is persisted, the handler's error or not.
HandlerReturned_Unchecked(t) ==
  /\ kernel[t] = "wait" /\ InnerClosed(t)
  /\ Move(t, "completion")
  /\ UNCHANGED <<handler, cancelled, channels, nextRow, client, store, bounds, history>>

\* An error of the store is logged and the turn goes on.
PutFails_Logged(t) ==
  /\ kernel[t] \in {"completion", "artifact", "rows"} /\ failures < MaxFailures
  /\ failures' = failures + 1
  /\ Move(t, AfterPersisting(t))
  /\ UNCHANGED <<handler, cancelled, channels, nextRow, client, store, crashes, history>>

\* The loop over the rows ends one row early.
LastRow_Early(t) == nextRow[t] + 1 >= Len(RowPuts[t])

\* The row at hand is the last one.
LastRow(t) == nextRow[t] = Len(RowPuts[t])

-----------------------------------------------------------------------------
(***************************************************************************)
(* The handler and its upstream.                                           *)
(***************************************************************************)
Start(t) ==
  /\ client[t] = "idle"
  /\ client'  = [client EXCEPT ![t] = "reading"]
  /\ handler' = [handler EXCEPT ![t] = "running"]
  /\ Move(t, "recv")
  /\ UNCHANGED <<cancelled, channels, nextRow, store, bounds, history>>

\* A chunk of text goes into the inner channel.
SendDelta(t) ==
  /\ handler[t] = "running" /\ sent[t] < Deltas[t] /\ sent[t] - taken[t] < Capacity
  /\ sent' = [sent EXCEPT ![t] = @ + 1]
  /\ UNCHANGED <<handler, cancelled, taken, passed, read, kernel, nextRow, client, store,
                 bounds, history>>

\* The upstream has sent [DONE], or closed the connection before it came.
SendDone(t) ==
  /\ handler[t] = "running" /\ sent[t] - taken[t] < Capacity
  /\ sent'    = [sent EXCEPT ![t] = @ + 1]
  /\ handler' = [handler EXCEPT ![t] = "closing"]
  /\ UNCHANGED <<cancelled, taken, passed, read, kernel, nextRow, client, store, bounds, history>>

HandlerEnds(t) ==
  /\ handler[t] = "closing"
  /\ handler' = [handler EXCEPT ![t] = "ended"]
  /\ UNCHANGED <<cancelled, channels, kernel, nextRow, client, store, bounds, history>>

\* The upstream keeps the connection open and sends no more: the HTTP client has
\* no Timeout, and the one on the header is past.
GoesSilent(t) ==
  /\ handler[t] = "running"
  /\ handler' = [handler EXCEPT ![t] = "silent"]
  /\ UNCHANGED <<cancelled, channels, kernel, nextRow, client, store, bounds, history>>

\* The upstream fails, or the context is done, which alone ends a silent one.
HandlerFails(t) ==
  /\ \/ handler[t] = "running"
     \/ handler[t] = "silent" /\ t \in cancelled
  /\ handler' = [handler EXCEPT ![t] = "failed"]
  /\ UNCHANGED <<cancelled, channels, kernel, nextRow, client, store, bounds, history>>

-----------------------------------------------------------------------------
(***************************************************************************)
(* ChatCompletion and ChatCompletionStream.                                *)
(***************************************************************************)

\* A chunk comes out of the inner channel.  A stream forwards text and keeps
\* Done back; ChatCompletion collects text and leaves the loop at Done.
Take(t) ==
  /\ kernel[t] = "recv" /\ taken[t] < sent[t]
  /\ taken' = [taken EXCEPT ![t] = @ + 1]
  /\ LET done == DoneSent(t) /\ taken[t] + 1 = sent[t] IN
       Move(t, IF t \in Streamed THEN IF done THEN "recv" ELSE "send"
               ELSE IF done THEN "wait" ELSE "recv")
  /\ UNCHANGED <<handler, cancelled, sent, passed, read, nextRow, client, store, bounds, history>>

\* out <- chunk, which waits for room whatever becomes of the client.
Forward(t) ==
  /\ kernel[t] = "send" /\ passed[t] - read[t] < Capacity
  /\ passed' = [passed EXCEPT ![t] = @ + 1]
  /\ Move(t, "recv")
  /\ UNCHANGED <<handler, cancelled, sent, taken, read, nextRow, client, store, bounds, history>>

Drained(t) ==
  /\ kernel[t] = "recv" /\ taken[t] = sent[t] /\ InnerClosed(t)
  /\ Move(t, "wait")
  /\ UNCHANGED <<handler, cancelled, channels, nextRow, client, store, bounds, history>>

\* <-errCh
HandlerReturned(t) ==
  /\ kernel[t] = "wait" /\ InnerClosed(t)
  /\ Move(t, IF handler[t] = "failed" THEN "error" ELSE "completion")
  /\ UNCHANGED <<handler, cancelled, channels, nextRow, client, store, bounds, history>>

\* persistAgentCompletion: the answer, whatever it looks like.
PutCompletion(t) ==
  LET o == Owner[t]
      others == {u \in Turns \ {t} : Owner[u] = o /\ Persisting(u)}
  IN
  /\ kernel[t] = "completion"
  /\ completion' = [completion EXCEPT ![o] = t]
  /\ Move(t, IF Workbook(t) THEN "artifact" ELSE AfterPersisting(t))
  /\ puts'      = [puts EXCEPT ![t] = {Latest}]
  /\ disturbed' = IF others = {} THEN disturbed ELSE disturbed \cup others \cup {t}
  /\ settled'   = [settled EXCEPT ![o] = IF others = {} /\ ~Workbook(t) THEN t ELSE NoTurn]
  /\ UNCHANGED <<handler, cancelled, channels, nextRow, client, artifact, rows, bounds>>

\* The answer parses as an object and the agent declares a workbook.
PutArtifact(t) ==
  LET last == RowPuts[t] = <<>> IN
  /\ kernel[t] = "artifact"
  /\ artifact' = [artifact EXCEPT ![Owner[t]] = t]
  /\ Move(t, IF last THEN AfterPersisting(t) ELSE "rows")
  /\ Wrote(t, Snapshot, last)
  /\ UNCHANGED <<handler, cancelled, channels, nextRow, client, completion, rows, bounds, disturbed>>

\* persistWorkbookRows, one row; a row of an earlier answer with more rows stays.
PutRow(t) ==
  LET r == RowPuts[t][nextRow[t]] IN
  /\ kernel[t] = "rows"
  /\ rows'    = [rows EXCEPT ![Owner[t]][r] = t]
  /\ nextRow' = [nextRow EXCEPT ![t] = @ + 1]
  /\ Move(t, IF LastRow(t) THEN AfterPersisting(t) ELSE "rows")
  /\ Wrote(t, Row(r), LastRow(t))
  /\ UNCHANGED <<handler, cancelled, channels, client, completion, artifact, bounds, disturbed>>

\* The first Put that fails, or a snapshot without the shape of a workbook, ends
\* the persistence and the turn.
PutFails(t) ==
  /\ kernel[t] \in {"completion", "artifact", "rows"} /\ failures < MaxFailures
  /\ failures' = failures + 1
  /\ Move(t, "error")
  /\ UNCHANGED <<handler, cancelled, channels, nextRow, client, store, crashes, history>>

\* out <- *done
ForwardDone(t) ==
  /\ kernel[t] = "final" /\ passed[t] - read[t] < Capacity
  /\ passed' = [passed EXCEPT ![t] = @ + 1]
  /\ Move(t, "ok")
  /\ UNCHANGED <<handler, cancelled, sent, taken, read, nextRow, client, store, bounds, history>>

-----------------------------------------------------------------------------
(***************************************************************************)
(* The gateway and its client.                                             *)
(***************************************************************************)

\* The client hangs up; the gateway may go on writing for a while.
Disconnect(t) ==
  /\ client[t] \in {"reading", "tail"} /\ t \notin cancelled
  /\ cancelled' = cancelled \cup {t}
  /\ UNCHANGED <<handler, channels, kernel, nextRow, client, store, bounds, history>>

\* streamChat writes a chunk of text to the client, or finds Done.
ReadChunk(t) ==
  /\ client[t] = "reading" /\ read[t] < passed[t]
  /\ read'   = [read EXCEPT ![t] = @ + 1]
  /\ client' = [client EXCEPT ![t] =
                  IF kernel[t] = "ok" /\ read[t] + 1 = passed[t] THEN "tail" ELSE "reading"]
  /\ UNCHANGED <<handler, cancelled, sent, taken, passed, kernel, nextRow, store, bounds, history>>

\* The write fails: streamChat returns and reads no more, which ends the request.
WriteFails(t) ==
  /\ client[t] = "reading" /\ read[t] < passed[t]
  /\ ~(kernel[t] = "ok" /\ read[t] + 1 = passed[t])
  /\ read'      = [read EXCEPT ![t] = @ + 1]
  /\ client'    = [client EXCEPT ![t] = "gone"]
  /\ cancelled' = cancelled \cup {t}
  /\ UNCHANGED <<handler, sent, taken, passed, kernel, nextRow, store, bounds, history>>

\* The out channel is closed and empty.
StreamClosed(t) ==
  /\ t \in Streamed /\ client[t] = "reading" /\ Returned(t) /\ read[t] = passed[t]
  /\ client' = [client EXCEPT ![t] = "tail"]
  /\ UNCHANGED <<handler, cancelled, channels, kernel, nextRow, store, bounds, history>>

\* The finish frame of a stream, or the whole response.  "stop" stands for every
\* finish reason the upstream may give; "error" is the gateway's own.
Answer(t) ==
  /\ client[t] = (IF t \in Streamed THEN "tail" ELSE "reading")
  /\ Returned(t)
  /\ client' = [client EXCEPT ![t] = IF t \in cancelled THEN "gone"
                                     ELSE IF kernel[t] = "ok" THEN "stop" ELSE "error"]
  /\ cancelled' = cancelled \cup {t}
  /\ UNCHANGED <<handler, channels, kernel, nextRow, store, bounds, history>>

-----------------------------------------------------------------------------
\* The process dies: every turn under way is gone.
Crash ==
  /\ crashes < MaxCrashes
  /\ crashes' = crashes + 1
  /\ client'  = [t \in Turns |-> IF client[t] \in {"reading", "tail"} THEN "gone" ELSE client[t]]
  /\ handler' = [t \in Turns |-> IF handler[t] \in {"running", "silent", "closing"} THEN "failed"
                                 ELSE handler[t]]
  /\ kernel'  = [t \in Turns |-> IF kernel[t] = "idle" \/ Returned(t) THEN kernel[t] ELSE "error"]
  /\ UNCHANGED <<cancelled, channels, nextRow, store, failures, history>>

HandlerStep(t) == SendDelta(t) \/ SendDone(t) \/ HandlerEnds(t) \/ HandlerFails(t)

KernelStep(t) ==
  \/ Take(t) \/ Forward(t) \/ Drained(t) \/ HandlerReturned(t)
  \/ PutCompletion(t) \/ PutArtifact(t) \/ PutRow(t) \/ PutFails(t) \/ ForwardDone(t)

GatewayStep(t) == ReadChunk(t) \/ WriteFails(t) \/ StreamClosed(t) \/ Answer(t)

\* Every turn is over, but for kernels that wait for a client that has left.
Quiescent ==
  /\ \A t \in Turns : /\ client[t] \in {"stop", "error", "gone"}
                      /\ Returned(t) \/ Abandoned(t)
                      /\ handler[t] \in {"ended", "failed"}
  /\ UNCHANGED vars

Next ==
  \/ \E t \in Turns : \/ Start(t) \/ Disconnect(t) \/ GoesSilent(t)
                      \/ HandlerStep(t) \/ KernelStep(t) \/ GatewayStep(t)
  \/ Crash \/ Quiescent

Spec == Init /\ [][Next]_vars

\* An upstream that has not gone silent sends on, ends or fails, and the server's
\* goroutines run.  Nothing makes a client leave, or a silent upstream speak.
Fairness == \A t \in Turns : /\ WF_vars(HandlerStep(t)) /\ WF_vars(KernelStep(t))
                             /\ WF_vars(GatewayStep(t))
FairSpec == Spec /\ Fairness

-----------------------------------------------------------------------------
\* No channel holds more than its capacity, and only a stream has the outer one.
ChannelsBounded(t) ==
  /\ sent[t] <= Deltas[t] + 1
  /\ taken[t] <= sent[t] /\ sent[t] - taken[t] <= Capacity
  /\ passed[t] <= taken[t]
  /\ read[t] <= passed[t] /\ passed[t] - read[t] <= Capacity
  /\ t \notin Streamed => passed[t] = 0

TypeOK ==
  /\ handler \in [Turns -> HandlerStates] /\ cancelled \subseteq Turns
  /\ kernel \in [Turns -> KernelStages] /\ client \in [Turns -> ClientStates]
  /\ sent \in [Turns -> Nat] /\ taken \in [Turns -> Nat]
  /\ passed \in [Turns -> Nat] /\ read \in [Turns -> Nat] /\ nextRow \in [Turns -> Nat]
  /\ \A t \in Turns : ChannelsBounded(t) /\ nextRow[t] \in 1..Len(RowPuts[t]) + 1
  /\ completion \in [Owners -> Turns \cup {NoTurn}]
  /\ artifact \in [Owners -> Turns \cup {NoTurn}]
  /\ rows \in [Owners -> [RowIds -> Turns \cup {NoTurn}]]
  /\ puts \in [Turns -> SUBSET Keys] /\ disturbed \subseteq Turns
  /\ settled \in [Owners -> Turns \cup {NoTurn}]

\* A client that was told the turn is complete can rely on the store: the
\* completion and, for a workbook, the artifact and every row had been put
\* before the finish frame or the response left.
StopMeansPersisted == \A t \in Turns : client[t] = "stop" => puts[t] = KeysOf(t)

\* The text a client saw end with "stop" is the text that was persisted: no
\* chunk is lost between the handler, the two channels and the gateway.
StopCarriesEverything ==
  \A t \in Streamed : client[t] = "stop" => read[t] = Collected(t) + 1

\* "A failed generation cannot replace the kernel's last completion": what the
\* store holds comes from handlers that succeeded.
FailedGenerationKeepsLast ==
  \A t \in Turns : handler[t] = "failed" => puts[t] = {}

\* The rows a button of the latest workbook asks for are the rows of that
\* workbook, unless its persistence overlapped, failed or was cut short.
SettledRowsMatchArtifact ==
  \A o \in Owners : settled[o] # NoTurn =>
    LET t == settled[o] IN
    /\ completion[o] = t
    /\ Workbook(t) => /\ artifact[o] = t
                      /\ \A r \in RowsOf(t) : rows[o][r] = t

\* A client that stays is told how its turn ended: no channel, error or failed
\* Put leaves the gateway waiting.  Only a silent upstream does, and its client
\* was given everything that came; one that leaves such a turn ends it.
ClientsAreTold == \A t \in Turns :
  (client[t] = "reading") ~> (client[t] \in {"stop", "error", "gone"} \/ Stalled(t))

\* Nobody waits for nobody: while a client waits, the handler ends or has room to
\* send, or the kernel has a chunk, an end or a Put before it, or room for what it
\* passes on, or the gateway has a chunk to read or an end to report; or else all
\* of them wait for a silent upstream and the client has what came of it.
TurnMoves ==
  \A t \in Turns : client[t] \in {"reading", "tail"} =>
    \/ Stalled(t) \/ handler[t] = "closing"
    \/ handler[t] = "silent" /\ t \in cancelled
    \/ handler[t] = "running" /\ sent[t] - taken[t] < Capacity
    \/ kernel[t] = "recv" /\ (taken[t] < sent[t] \/ InnerClosed(t))
    \/ kernel[t] = "wait" /\ InnerClosed(t)
    \/ kernel[t] \in {"completion", "artifact", "rows"}
    \/ kernel[t] \in {"send", "final"} /\ passed[t] - read[t] < Capacity
    \/ client[t] = "reading" /\ read[t] < passed[t]
    \/ Returned(t) /\ client[t] = (IF t \in Streamed THEN "tail" ELSE "reading")
    \/ Returned(t) /\ t \in Streamed /\ client[t] = "reading" /\ read[t] = passed[t]

-----------------------------------------------------------------------------
\* What the source says and the code does not do: "The channel is closed by the
\* kernel once the Agent signals Done (or an error occurs)" (kernel.go:361).  The
\* channel is closed when ChatCompletionStream has returned.
OutIsClosed == \A t \in Turns :
  (handler[t] \in {"ended", "failed"}) ~> (kernel[t] \in {"ok", "error"})

=============================================================================
