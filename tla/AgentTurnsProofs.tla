-------------------------- MODULE AgentTurnsProofs --------------------------
(***************************************************************************)
(* Proofs about AgentTurns for every set of turns and owners, any lengths  *)
(* of answers, any capacity of the channels and any bounds.                *)
(***************************************************************************)
EXTENDS AgentTurns, TLAPS

\* What the kernel's place in a turn says of the handler, the inner channel and
\* the keys put so far.
Progress(t) ==
  /\ kernel[t] = "idle" <=> handler[t] = "idle"
  /\ kernel[t] = "idle" <=> client[t] = "idle"
  /\ kernel[t] = "wait" => taken[t] = sent[t] /\ handler[t] \in {"closing", "ended", "failed"}
  /\ kernel[t] \in {"completion", "artifact", "rows", "final", "ok"} =>
       taken[t] = sent[t] /\ handler[t] = "ended"
  /\ client[t] = "stop" => kernel[t] = "ok"
  /\ handler[t] \in {"idle", "running", "silent"} => sent[t] <= Deltas[t]
  /\ kernel[t] \in {"send", "final"} => t \in Streamed

\* The keys put so far.
Written(t) ==
  /\ puts[t] # {} => taken[t] = sent[t] /\ handler[t] = "ended"
  /\ kernel[t] \in {"idle", "recv", "send", "wait", "completion"} => puts[t] = {}
  /\ kernel[t] \in {"idle", "recv", "send", "wait", "completion", "artifact"} => nextRow[t] = 1
  /\ kernel[t] = "artifact" => Workbook(t) /\ puts[t] = {Latest}
  /\ kernel[t] = "rows" =>
       /\ Workbook(t) /\ nextRow[t] \in 1..Len(RowPuts[t])
       /\ puts[t] = {Latest, Snapshot} \cup {Row(RowPuts[t][i]) : i \in 1..nextRow[t] - 1}
  /\ kernel[t] \in {"final", "ok"} => puts[t] = KeysOf(t)

\* A stream: what went into the out channel, and what its reader knows.
Streaming(t) ==
  /\ kernel[t] \notin {"send", "ok", "error"} => passed[t] = Collected(t)
  /\ kernel[t] = "send" => passed[t] = taken[t] - 1 /\ ~DoneTaken(t)
  /\ kernel[t] = "ok" => passed[t] = Collected(t) + 1
  /\ client[t] \in {"tail", "stop", "error"} => Returned(t) /\ read[t] = passed[t]

\* An undisturbed turn that persists is alone with its owner.
Alone(t) ==
  Persisting(t) /\ t \notin disturbed =>
    /\ completion[Owner[t]] = t
    /\ \A u \in Turns \ {t} : Owner[u] = Owner[t] => ~Persisting(u)
    /\ kernel[t] = "rows" =>
         /\ artifact[Owner[t]] = t
         /\ \A i \in 1..nextRow[t] - 1 : rows[Owner[t]][RowPuts[t][i]] = t

\* Nobody persists for a settled owner, and its turn has the store to itself.
Settled(o) ==
  settled[o] # NoTurn =>
    /\ Owner[settled[o]] = o /\ puts[settled[o]] # {}
    /\ \A u \in Turns : Owner[u] = o => ~Persisting(u)
    /\ completion[o] = settled[o]
    /\ Workbook(settled[o]) => /\ artifact[o] = settled[o]
                               /\ \A r \in RowsOf(settled[o]) : rows[o][r] = settled[o]

IInv ==
  /\ TypeOK
  /\ \A t \in Turns : Progress(t)
  /\ \A t \in Turns : Written(t)
  /\ \A t \in Streamed : Streaming(t)
  /\ \A t \in Turns : Alone(t)
  /\ \A o \in Owners : Settled(o)

-----------------------------------------------------------------------------
\* A step that leaves the store, the history and what has been persisted alone,
\* and starts nobody's persistence, keeps what is known of owners.
LEMMA QuietStore ==
  ASSUME IInv,
         UNCHANGED <<store, history, nextRow>>,
         \A u \in Turns : kernel'[u] \in {"artifact", "rows"} => kernel'[u] = kernel[u],
         \A u \in Turns : puts[u] # {} =>
           sent'[u] = sent[u] /\ taken'[u] = taken[u] /\ handler'[u] = handler[u]
  PROVE  (\A t \in Turns : Alone(t))' /\ (\A o \in Owners : Settled(o))'
<1>1. \A t \in Turns : Alone(t)'
  BY TurnsAssumption, ZenonT(30) DEF IInv, Alone, Persisting, store, history
<1>2. ASSUME NEW o \in Owners, settled[o] # NoTurn
      PROVE  Settled(o)'
  <2>1. settled[o] \in Turns
    BY <1>2 DEF IInv, TypeOK
  <2>2. puts[settled[o]] # {} /\ Settled(o)
    BY <1>2 DEF IInv, Settled
  <2>3. Workbook(settled[o])' <=> Workbook(settled[o])
    BY <2>1, <2>2 DEF Workbook, Collected, DoneTaken, DoneSent, history
  <2>. QED
    BY <1>2, <2>1, <2>2, <2>3 DEF Settled, Persisting, store, history, RowsOf
<1>. QED
  BY <1>1, <1>2 DEF Settled, history

\* A list of row ids has a length.
LEMMA RowPutsFacts ==
  ASSUME NEW t \in Turns
  PROVE  Len(RowPuts[t]) \in Nat /\ DOMAIN RowPuts[t] = 1..Len(RowPuts[t])
<1>1. RowPuts[t] \in Seq(Nat)
  BY TurnsAssumption
<1>. QED
  BY <1>1

\* The inductive invariant holds at the start.
LEMMA InitIInv == Init => IInv
<1>. SUFFICES ASSUME Init PROVE IInv
  OBVIOUS
<1>1. TypeOK
  BY TurnsAssumption, RowPutsFacts
  DEF Init, TypeOK, ChannelsBounded, HandlerStates, KernelStages, ClientStates
<1>2. ASSUME NEW t \in Turns PROVE Progress(t)
  <2>1. /\ handler[t] = "idle" /\ kernel[t] = "idle" /\ client[t] = "idle"
        /\ sent[t] = 0 /\ Deltas[t] \in Nat
    BY TurnsAssumption DEF Init
  <2>. QED
    BY <2>1 DEF Progress
<1>a. \A t \in Turns : Written(t)
  BY DEF Init, Written
<1>b. \A t \in Turns : Alone(t)
  BY DEF Init, Alone, Persisting
<1>3. \A t \in Streamed : Streaming(t)
  BY TurnsAssumption DEF Init, Streaming, Collected, DoneTaken, DoneSent, Returned
<1>4. \A o \in Owners : Settled(o)
  BY DEF Init, Settled
<1>. QED
  BY <1>1, <1>2, <1>a, <1>b, <1>3, <1>4 DEF IInv

\* A turn starts.
LEMMA StartIInv ==
  ASSUME NEW t \in Turns, IInv, Start(t)
  PROVE  IInv'
<1>. USE TurnsAssumption DEF IInv, Start, Move, InnerClosed, Returned, channels, bounds, store, history
<1>1. ASSUME NEW u \in Turns
      PROVE  ChannelsBounded(u)'
  BY DEF TypeOK, ChannelsBounded
<1>2. TypeOK'
  BY <1>1 DEF TypeOK, HandlerStates, KernelStages, ClientStates, AfterPersisting
<1>3. ASSUME NEW u \in Turns
      PROVE  Progress(u)'
  BY DEF TypeOK, ChannelsBounded, Progress, DoneSent
<1>4. ASSUME NEW u \in Turns
      PROVE  Written(u)'
  BY DEF TypeOK, Progress, Written, Workbook, KeysOf, Collected, DoneTaken, DoneSent
<1>5. ASSUME NEW u \in Streamed
      PROVE  Streaming(u)'
  BY DEF TypeOK, ChannelsBounded, Progress, Streaming, DoneTaken, DoneSent, Collected
<1>6. (\A u \in Turns : Alone(u))' /\ (\A o \in Owners : Settled(o))'
  BY QuietStore DEF TypeOK, Progress, Written
<1>. QED
  BY <1>2, <1>3, <1>4, <1>5, <1>6

\* Text goes into the inner channel.
LEMMA SendDeltaIInv ==
  ASSUME NEW t \in Turns, IInv, SendDelta(t)
  PROVE  IInv'
<1>. USE TurnsAssumption DEF IInv, SendDelta, Move, InnerClosed, Returned, channels, bounds, store, history
<1>1. ASSUME NEW u \in Turns
      PROVE  ChannelsBounded(u)'
  <2>1. CASE u = t
    <3>1. /\ sent[t] \in Nat /\ taken[t] \in Nat /\ passed[t] \in Nat /\ read[t] \in Nat
          /\ Deltas[t] \in Nat /\ Capacity \in Nat /\ ChannelsBounded(t)
      BY DEF TypeOK
    <3>2. /\ sent'[t] = sent[t] + 1
          /\ taken' = taken
          /\ passed' = passed
          /\ read' = read
          /\ sent[t] < Deltas[t]
          /\ sent[t] - taken[t] < Capacity
      BY DEF TypeOK, Progress
    <3>. QED
      BY ONLY <2>1, <3>1, <3>2 DEF ChannelsBounded
  <2>2. CASE u # t
    BY <2>2 DEF TypeOK, ChannelsBounded
  <2>. QED
    BY <2>1, <2>2
<1>2. TypeOK'
  BY <1>1, SMTT(30) DEF TypeOK, HandlerStates, KernelStages, ClientStates, AfterPersisting
<1>3. ASSUME NEW u \in Turns
      PROVE  Progress(u)'
  <2>1. sent'[t] <= Deltas[t]
    <3>1. sent'[t] = sent[t] + 1 /\ sent[t] \in Nat /\ Deltas[t] \in Nat /\ sent[t] < Deltas[t]
      BY DEF TypeOK
    <3>. QED
      BY ONLY <3>1
  <2>2. taken[t] # sent[t] \/ handler[t] = "running"
    OBVIOUS
  <2>. QED
    BY <2>1, <2>2 DEF TypeOK, Progress, DoneSent
<1>4. ASSUME NEW u \in Turns
      PROVE  Written(u)'
  BY DEF TypeOK, Progress, Written, Workbook, KeysOf, Collected, DoneTaken, DoneSent
<1>5. ASSUME NEW u \in Streamed
      PROVE  Streaming(u)'
  BY DEF TypeOK, ChannelsBounded, Progress, Streaming, DoneTaken, DoneSent, Collected
<1>6. (\A u \in Turns : Alone(u))' /\ (\A o \in Owners : Settled(o))'
  BY QuietStore DEF TypeOK, Progress, Written
<1>. QED
  BY <1>2, <1>3, <1>4, <1>5, <1>6

\* Done goes into the inner channel.
LEMMA SendDoneIInv ==
  ASSUME NEW t \in Turns, IInv, SendDone(t)
  PROVE  IInv'
<1>. USE TurnsAssumption DEF IInv, SendDone, Move, InnerClosed, Returned, channels, bounds, store, history
<1>1. ASSUME NEW u \in Turns
      PROVE  ChannelsBounded(u)'
  <2>1. CASE u = t
    <3>1. /\ sent[t] \in Nat /\ taken[t] \in Nat /\ passed[t] \in Nat /\ read[t] \in Nat
          /\ Deltas[t] \in Nat /\ Capacity \in Nat /\ ChannelsBounded(t)
      BY DEF TypeOK
    <3>2. /\ sent'[t] = sent[t] + 1
          /\ taken' = taken
          /\ passed' = passed
          /\ read' = read
          /\ sent[t] <= Deltas[t]
          /\ sent[t] - taken[t] < Capacity
      BY DEF TypeOK, Progress
    <3>. QED
      BY ONLY <2>1, <3>1, <3>2 DEF ChannelsBounded
  <2>2. CASE u # t
    BY <2>2 DEF TypeOK, ChannelsBounded
  <2>. QED
    BY <2>1, <2>2
<1>2. TypeOK'
  BY <1>1, SMTT(30) DEF TypeOK, HandlerStates, KernelStages, ClientStates, AfterPersisting
<1>3. ASSUME NEW u \in Turns
      PROVE  Progress(u)'
  BY DEF TypeOK, ChannelsBounded, Progress, DoneSent
<1>4. ASSUME NEW u \in Turns
      PROVE  Written(u)'
  BY DEF TypeOK, Progress, Written, Workbook, KeysOf, Collected, DoneTaken, DoneSent
<1>5. ASSUME NEW u \in Streamed
      PROVE  Streaming(u)'
  <2>1. CASE u = t
    BY <2>1 DEF TypeOK, ChannelsBounded, Progress, Streaming, DoneTaken, DoneSent, Collected
  <2>2. CASE u # t
    BY <2>2 DEF TypeOK, ChannelsBounded, Progress, Streaming, DoneTaken, DoneSent, Collected
  <2>. QED
    BY <2>1, <2>2
<1>6. (\A u \in Turns : Alone(u))' /\ (\A o \in Owners : Settled(o))'
  BY QuietStore DEF TypeOK, Progress, Written
<1>. QED
  BY <1>2, <1>3, <1>4, <1>5, <1>6

\* The handler returns.
LEMMA HandlerEndsIInv ==
  ASSUME NEW t \in Turns, IInv, HandlerEnds(t)
  PROVE  IInv'
<1>. USE TurnsAssumption DEF IInv, HandlerEnds, Move, InnerClosed, Returned, channels, bounds, store, history
<1>1. ASSUME NEW u \in Turns
      PROVE  ChannelsBounded(u)'
  BY DEF TypeOK, ChannelsBounded
<1>2. TypeOK'
  BY <1>1 DEF TypeOK, HandlerStates, KernelStages, ClientStates, AfterPersisting
<1>3. ASSUME NEW u \in Turns
      PROVE  Progress(u)'
  BY DEF TypeOK, ChannelsBounded, Progress, DoneSent
<1>4. ASSUME NEW u \in Turns
      PROVE  Written(u)'
  BY DEF TypeOK, Progress, Written, Workbook, KeysOf, Collected, DoneTaken, DoneSent
<1>5. ASSUME NEW u \in Streamed
      PROVE  Streaming(u)'
  BY DEF TypeOK, ChannelsBounded, Progress, Streaming, DoneTaken, DoneSent, Collected
<1>6. (\A u \in Turns : Alone(u))' /\ (\A o \in Owners : Settled(o))'
  BY QuietStore DEF TypeOK, Progress, Written
<1>. QED
  BY <1>2, <1>3, <1>4, <1>5, <1>6

\* The upstream goes silent.
LEMMA GoesSilentIInv ==
  ASSUME NEW t \in Turns, IInv, GoesSilent(t)
  PROVE  IInv'
<1>. USE TurnsAssumption DEF IInv, GoesSilent, Move, InnerClosed, Returned, channels, bounds, store, history
<1>1. ASSUME NEW u \in Turns
      PROVE  ChannelsBounded(u)'
  BY DEF TypeOK, ChannelsBounded
<1>2. TypeOK'
  BY <1>1 DEF TypeOK, HandlerStates, KernelStages, ClientStates, AfterPersisting
<1>3. ASSUME NEW u \in Turns
      PROVE  Progress(u)'
  BY DEF TypeOK, ChannelsBounded, Progress, DoneSent
<1>4. ASSUME NEW u \in Turns
      PROVE  Written(u)'
  BY DEF TypeOK, Progress, Written, Workbook, KeysOf, Collected, DoneTaken, DoneSent
<1>5. ASSUME NEW u \in Streamed
      PROVE  Streaming(u)'
  BY DEF TypeOK, ChannelsBounded, Progress, Streaming, DoneTaken, DoneSent, Collected
<1>6. (\A u \in Turns : Alone(u))' /\ (\A o \in Owners : Settled(o))'
  BY QuietStore DEF TypeOK, Progress, Written
<1>. QED
  BY <1>2, <1>3, <1>4, <1>5, <1>6

\* The handler fails.
LEMMA HandlerFailsIInv ==
  ASSUME NEW t \in Turns, IInv, HandlerFails(t)
  PROVE  IInv'
<1>. USE TurnsAssumption DEF IInv, HandlerFails, Move, InnerClosed, Returned, channels, bounds, store, history
<1>1. ASSUME NEW u \in Turns
      PROVE  ChannelsBounded(u)'
  BY DEF TypeOK, ChannelsBounded
<1>2. TypeOK'
  BY <1>1 DEF TypeOK, HandlerStates, KernelStages, ClientStates, AfterPersisting
<1>3. ASSUME NEW u \in Turns
      PROVE  Progress(u)'
  BY DEF TypeOK, ChannelsBounded, Progress, DoneSent
<1>4. ASSUME NEW u \in Turns
      PROVE  Written(u)'
  BY DEF TypeOK, Progress, Written, Workbook, KeysOf, Collected, DoneTaken, DoneSent
<1>5. ASSUME NEW u \in Streamed
      PROVE  Streaming(u)'
  BY DEF TypeOK, ChannelsBounded, Progress, Streaming, DoneTaken, DoneSent, Collected
<1>6. (\A u \in Turns : Alone(u))' /\ (\A o \in Owners : Settled(o))'
  BY QuietStore DEF TypeOK, Progress, Written
<1>. QED
  BY <1>2, <1>3, <1>4, <1>5, <1>6

\* The kernel takes a chunk.
LEMMA TakeIInv ==
  ASSUME NEW t \in Turns, IInv, Take(t)
  PROVE  IInv'
<1>. USE TurnsAssumption DEF IInv, Take, Move, InnerClosed, Returned, channels, bounds, store, history
<1>1. ASSUME NEW u \in Turns
      PROVE  ChannelsBounded(u)'
  <2>1. CASE u = t
    <3>1. /\ sent[t] \in Nat /\ taken[t] \in Nat /\ passed[t] \in Nat /\ read[t] \in Nat
          /\ Deltas[t] \in Nat /\ Capacity \in Nat /\ ChannelsBounded(t)
      BY DEF TypeOK
    <3>2. /\ taken'[t] = taken[t] + 1
          /\ sent' = sent
          /\ passed' = passed
          /\ read' = read
          /\ taken[t] < sent[t]
      BY DEF TypeOK, Progress
    <3>. QED
      BY ONLY <2>1, <3>1, <3>2 DEF ChannelsBounded
  <2>2. CASE u # t
    BY <2>2 DEF TypeOK, ChannelsBounded
  <2>. QED
    BY <2>1, <2>2
<1>2. TypeOK'
  BY <1>1 DEF TypeOK, HandlerStates, KernelStages, ClientStates, AfterPersisting
<1>3. ASSUME NEW u \in Turns
      PROVE  Progress(u)'
  BY DEF TypeOK, ChannelsBounded, Progress, DoneSent
<1>4. ASSUME NEW u \in Turns
      PROVE  Written(u)'
  BY SMTT(30) DEF TypeOK, Progress, Written, Workbook, KeysOf, Collected, DoneTaken, DoneSent
<1>5. ASSUME NEW u \in Streamed
      PROVE  Streaming(u)'
  <2>1. CASE u = t
    <3>0. kernel[t] = "recv" /\ Streaming(t)
      BY <2>1
    <3>a. ~DoneTaken(t)
      <4>1. taken[t] \in Nat /\ sent[t] \in Nat /\ taken[t] < sent[t]
        BY DEF TypeOK
      <4>. QED
        BY ONLY <4>1 DEF DoneTaken
    <3>1. passed[t] = taken[t] /\ client[t] \notin {"tail", "stop", "error"}
      BY ONLY <3>0, <3>a DEF Streaming, Collected, Returned
    <3>2. taken'[t] = taken[t] + 1 /\ taken[t] \in Nat /\ passed' = passed /\ client' = client
      BY DEF TypeOK
    <3>3. Collected(t)' = IF DoneTaken(t)' THEN taken'[t] - 1 ELSE taken'[t]
      BY DEF Collected
    <3>4. kernel'[t] = IF DoneTaken(t)' THEN "recv" ELSE "send"
      BY <2>1, <3>2 DEF TypeOK, DoneTaken, DoneSent
    <3>. QED
      BY ONLY <2>1, <3>1, <3>2, <3>3, <3>4 DEF Streaming
  <2>2. CASE u # t
    BY <2>2 DEF TypeOK, ChannelsBounded, Progress, Streaming, DoneTaken, DoneSent, Collected
  <2>. QED
    BY <2>1, <2>2
<1>6. (\A u \in Turns : Alone(u))' /\ (\A o \in Owners : Settled(o))'
  BY QuietStore DEF TypeOK, Progress, Written
<1>. QED
  BY <1>2, <1>3, <1>4, <1>5, <1>6

\* The kernel forwards a chunk.
LEMMA ForwardIInv ==
  ASSUME NEW t \in Turns, IInv, Forward(t)
  PROVE  IInv'
<1>. USE TurnsAssumption DEF IInv, Forward, Move, InnerClosed, Returned, channels, bounds, store, history
<1>1. ASSUME NEW u \in Turns
      PROVE  ChannelsBounded(u)'
  <2>1. CASE u = t
    BY <2>1 DEF TypeOK, ChannelsBounded, Progress, Streaming, DoneTaken, DoneSent, Collected
  <2>2. CASE u # t
    BY <2>2 DEF TypeOK, ChannelsBounded, Progress, Streaming, DoneTaken, DoneSent, Collected
  <2>. QED
    BY <2>1, <2>2
<1>2. TypeOK'
  BY <1>1, SMTT(30) DEF TypeOK, HandlerStates, KernelStages, ClientStates, AfterPersisting
<1>3. ASSUME NEW u \in Turns
      PROVE  Progress(u)'
  BY DEF TypeOK, ChannelsBounded, Progress, DoneSent
<1>4. ASSUME NEW u \in Turns
      PROVE  Written(u)'
  BY DEF TypeOK, Progress, Written, Workbook, KeysOf, Collected, DoneTaken, DoneSent
<1>5. ASSUME NEW u \in Streamed
      PROVE  Streaming(u)'
  <2>1. CASE u = t
    BY <2>1 DEF TypeOK, ChannelsBounded, Progress, Streaming, DoneTaken, DoneSent, Collected
  <2>2. CASE u # t
    BY <2>2 DEF TypeOK, ChannelsBounded, Progress, Streaming, DoneTaken, DoneSent, Collected
  <2>. QED
    BY <2>1, <2>2
<1>6. (\A u \in Turns : Alone(u))' /\ (\A o \in Owners : Settled(o))'
  BY QuietStore DEF TypeOK, Progress, Written
<1>. QED
  BY <1>2, <1>3, <1>4, <1>5, <1>6

\* The inner channel is closed and empty.
LEMMA DrainedIInv ==
  ASSUME NEW t \in Turns, IInv, Drained(t)
  PROVE  IInv'
<1>. USE TurnsAssumption DEF IInv, Drained, Move, InnerClosed, Returned, channels, bounds, store, history
<1>1. ASSUME NEW u \in Turns
      PROVE  ChannelsBounded(u)'
  BY DEF TypeOK, ChannelsBounded
<1>2. TypeOK'
  BY <1>1 DEF TypeOK, HandlerStates, KernelStages, ClientStates, AfterPersisting
<1>3. ASSUME NEW u \in Turns
      PROVE  Progress(u)'
  BY DEF TypeOK, ChannelsBounded, Progress, DoneSent
<1>4. ASSUME NEW u \in Turns
      PROVE  Written(u)'
  BY DEF TypeOK, Progress, Written, Workbook, KeysOf, Collected, DoneTaken, DoneSent
<1>5. ASSUME NEW u \in Streamed
      PROVE  Streaming(u)'
  <2>1. CASE u = t
    BY <2>1 DEF TypeOK, ChannelsBounded, Progress, Streaming, DoneTaken, DoneSent, Collected
  <2>2. CASE u # t
    BY <2>2 DEF TypeOK, ChannelsBounded, Progress, Streaming, DoneTaken, DoneSent, Collected
  <2>. QED
    BY <2>1, <2>2
<1>6. (\A u \in Turns : Alone(u))' /\ (\A o \in Owners : Settled(o))'
  BY QuietStore DEF TypeOK, Progress, Written
<1>. QED
  BY <1>2, <1>3, <1>4, <1>5, <1>6

\* The kernel reads the handler's error.
LEMMA HandlerReturnedIInv ==
  ASSUME NEW t \in Turns, IInv, HandlerReturned(t)
  PROVE  IInv'
<1>. USE TurnsAssumption DEF IInv, HandlerReturned, Move, InnerClosed, Returned, channels, bounds, store, history
<1>1. ASSUME NEW u \in Turns
      PROVE  ChannelsBounded(u)'
  BY DEF TypeOK, ChannelsBounded
<1>2. TypeOK'
  BY <1>1 DEF TypeOK, HandlerStates, KernelStages, ClientStates, AfterPersisting
<1>3. ASSUME NEW u \in Turns
      PROVE  Progress(u)'
  BY DEF TypeOK, ChannelsBounded, Progress, DoneSent
<1>4. ASSUME NEW u \in Turns
      PROVE  Written(u)'
  BY DEF TypeOK, Progress, Written, Workbook, KeysOf, Collected, DoneTaken, DoneSent
<1>5. ASSUME NEW u \in Streamed
      PROVE  Streaming(u)'
  <2>1. CASE u = t
    BY <2>1 DEF TypeOK, ChannelsBounded, Progress, Streaming, DoneTaken, DoneSent, Collected
  <2>2. CASE u # t
    BY <2>2 DEF TypeOK, ChannelsBounded, Progress, Streaming, DoneTaken, DoneSent, Collected
  <2>. QED
    BY <2>1, <2>2
<1>6. (\A u \in Turns : Alone(u))' /\ (\A o \in Owners : Settled(o))'
  BY QuietStore DEF TypeOK, Progress, Written
<1>. QED
  BY <1>2, <1>3, <1>4, <1>5, <1>6

\* A Put fails.
LEMMA PutFailsIInv ==
  ASSUME NEW t \in Turns, IInv, PutFails(t)
  PROVE  IInv'
<1>. USE TurnsAssumption DEF IInv, PutFails, Move, InnerClosed, Returned, channels, bounds, store, history
<1>1. ASSUME NEW u \in Turns
      PROVE  ChannelsBounded(u)'
  BY DEF TypeOK, ChannelsBounded
<1>2. TypeOK'
  BY <1>1 DEF TypeOK, HandlerStates, KernelStages, ClientStates, AfterPersisting
<1>3. ASSUME NEW u \in Turns
      PROVE  Progress(u)'
  BY DEF TypeOK, ChannelsBounded, Progress, DoneSent
<1>4. ASSUME NEW u \in Turns
      PROVE  Written(u)'
  BY DEF TypeOK, Progress, Written, Workbook, KeysOf, Collected, DoneTaken, DoneSent
<1>5. ASSUME NEW u \in Streamed
      PROVE  Streaming(u)'
  BY DEF TypeOK, ChannelsBounded, Progress, Streaming, DoneTaken, DoneSent, Collected
<1>6. (\A u \in Turns : Alone(u))' /\ (\A o \in Owners : Settled(o))'
  BY QuietStore DEF TypeOK, Progress, Written
<1>. QED
  BY <1>2, <1>3, <1>4, <1>5, <1>6

\* The kernel forwards Done.
LEMMA ForwardDoneIInv ==
  ASSUME NEW t \in Turns, IInv, ForwardDone(t)
  PROVE  IInv'
<1>. USE TurnsAssumption DEF IInv, ForwardDone, Move, InnerClosed, Returned, channels, bounds, store, history
<1>1. ASSUME NEW u \in Turns
      PROVE  ChannelsBounded(u)'
  <2>1. CASE u = t
    <3>0. passed[t] = Collected(t) /\ DoneTaken(t) /\ taken[t] \in Nat
      BY DEF TypeOK, Progress, Streaming, DoneTaken, DoneSent
    <3>1. /\ sent[t] \in Nat /\ taken[t] \in Nat /\ passed[t] \in Nat /\ read[t] \in Nat
          /\ Deltas[t] \in Nat /\ Capacity \in Nat /\ ChannelsBounded(t)
      BY DEF TypeOK
    <3>2. /\ passed'[t] = passed[t] + 1
          /\ taken' = taken
          /\ sent' = sent
          /\ read' = read
          /\ t \in Streamed
          /\ passed[t] < taken[t]
          /\ passed[t] - read[t] < Capacity
      BY <3>0 DEF TypeOK, Progress, Collected
    <3>. QED
      BY ONLY <2>1, <3>1, <3>2 DEF ChannelsBounded
  <2>2. CASE u # t
    BY <2>2 DEF TypeOK, ChannelsBounded
  <2>. QED
    BY <2>1, <2>2
<1>2. TypeOK'
  BY <1>1, SMTT(30) DEF TypeOK, HandlerStates, KernelStages, ClientStates, AfterPersisting
<1>3. ASSUME NEW u \in Turns
      PROVE  Progress(u)'
  BY DEF TypeOK, ChannelsBounded, Progress, DoneSent
<1>4. ASSUME NEW u \in Turns
      PROVE  Written(u)'
  BY DEF TypeOK, Progress, Written, Workbook, KeysOf, Collected, DoneTaken, DoneSent
<1>5. ASSUME NEW u \in Streamed
      PROVE  Streaming(u)'
  BY DEF TypeOK, ChannelsBounded, Progress, Streaming, DoneTaken, DoneSent, Collected
<1>6. (\A u \in Turns : Alone(u))' /\ (\A o \in Owners : Settled(o))'
  BY QuietStore DEF TypeOK, Progress, Written
<1>. QED
  BY <1>2, <1>3, <1>4, <1>5, <1>6

\* The client hangs up.
LEMMA DisconnectIInv ==
  ASSUME NEW t \in Turns, IInv, Disconnect(t)
  PROVE  IInv'
<1>. USE TurnsAssumption DEF IInv, Disconnect, Move, InnerClosed, Returned, channels, bounds, store, history
<1>1. ASSUME NEW u \in Turns
      PROVE  ChannelsBounded(u)'
  BY DEF TypeOK, ChannelsBounded
<1>2. TypeOK'
  BY <1>1 DEF TypeOK, HandlerStates, KernelStages, ClientStates, AfterPersisting
<1>3. ASSUME NEW u \in Turns
      PROVE  Progress(u)'
  BY DEF TypeOK, ChannelsBounded, Progress, DoneSent
<1>4. ASSUME NEW u \in Turns
      PROVE  Written(u)'
  BY DEF TypeOK, Progress, Written, Workbook, KeysOf, Collected, DoneTaken, DoneSent
<1>5. ASSUME NEW u \in Streamed
      PROVE  Streaming(u)'
  BY DEF TypeOK, ChannelsBounded, Progress, Streaming, DoneTaken, DoneSent, Collected
<1>6. (\A u \in Turns : Alone(u))' /\ (\A o \in Owners : Settled(o))'
  BY QuietStore DEF TypeOK, Progress, Written
<1>. QED
  BY <1>2, <1>3, <1>4, <1>5, <1>6

\* The gateway takes a chunk.
LEMMA ReadChunkIInv ==
  ASSUME NEW t \in Turns, IInv, ReadChunk(t)
  PROVE  IInv'
<1>. USE TurnsAssumption DEF IInv, ReadChunk, Move, InnerClosed, Returned, channels, bounds, store, history
<1>1. ASSUME NEW u \in Turns
      PROVE  ChannelsBounded(u)'
  <2>1. CASE u = t
    BY <2>1 DEF TypeOK, ChannelsBounded, Progress, Streaming, DoneTaken, DoneSent, Collected
  <2>2. CASE u # t
    BY <2>2 DEF TypeOK, ChannelsBounded, Progress, Streaming, DoneTaken, DoneSent, Collected
  <2>. QED
    BY <2>1, <2>2
<1>2. TypeOK'
  BY <1>1 DEF TypeOK, HandlerStates, KernelStages, ClientStates, AfterPersisting
<1>3. ASSUME NEW u \in Turns
      PROVE  Progress(u)'
  BY DEF TypeOK, ChannelsBounded, Progress, DoneSent
<1>4. ASSUME NEW u \in Turns
      PROVE  Written(u)'
  BY DEF TypeOK, Progress, Written, Workbook, KeysOf, Collected, DoneTaken, DoneSent
<1>5. ASSUME NEW u \in Streamed
      PROVE  Streaming(u)'
  BY DEF TypeOK, ChannelsBounded, Progress, Streaming, DoneTaken, DoneSent, Collected
<1>6. (\A u \in Turns : Alone(u))' /\ (\A o \in Owners : Settled(o))'
  BY QuietStore DEF TypeOK, Progress, Written
<1>. QED
  BY <1>2, <1>3, <1>4, <1>5, <1>6

\* A write to the client fails.
LEMMA WriteFailsIInv ==
  ASSUME NEW t \in Turns, IInv, WriteFails(t)
  PROVE  IInv'
<1>. USE TurnsAssumption DEF IInv, WriteFails, Move, InnerClosed, Returned, channels, bounds, store, history
<1>1. ASSUME NEW u \in Turns
      PROVE  ChannelsBounded(u)'
  <2>1. CASE u = t
    BY <2>1 DEF TypeOK, ChannelsBounded, Progress, Streaming, DoneTaken, DoneSent, Collected
  <2>2. CASE u # t
    BY <2>2 DEF TypeOK, ChannelsBounded, Progress, Streaming, DoneTaken, DoneSent, Collected
  <2>. QED
    BY <2>1, <2>2
<1>2. TypeOK'
  BY <1>1 DEF TypeOK, HandlerStates, KernelStages, ClientStates, AfterPersisting
<1>3. ASSUME NEW u \in Turns
      PROVE  Progress(u)'
  BY DEF TypeOK, ChannelsBounded, Progress, DoneSent
<1>4. ASSUME NEW u \in Turns
      PROVE  Written(u)'
  BY DEF TypeOK, Progress, Written, Workbook, KeysOf, Collected, DoneTaken, DoneSent
<1>5. ASSUME NEW u \in Streamed
      PROVE  Streaming(u)'
  BY DEF TypeOK, ChannelsBounded, Progress, Streaming, DoneTaken, DoneSent, Collected
<1>6. (\A u \in Turns : Alone(u))' /\ (\A o \in Owners : Settled(o))'
  BY QuietStore DEF TypeOK, Progress, Written
<1>. QED
  BY <1>2, <1>3, <1>4, <1>5, <1>6

\* The out channel is closed and empty.
LEMMA StreamClosedIInv ==
  ASSUME NEW t \in Turns, IInv, StreamClosed(t)
  PROVE  IInv'
<1>. USE TurnsAssumption DEF IInv, StreamClosed, Move, InnerClosed, Returned, channels, bounds, store, history
<1>1. ASSUME NEW u \in Turns
      PROVE  ChannelsBounded(u)'
  BY DEF TypeOK, ChannelsBounded
<1>2. TypeOK'
  BY <1>1 DEF TypeOK, HandlerStates, KernelStages, ClientStates, AfterPersisting
<1>3. ASSUME NEW u \in Turns
      PROVE  Progress(u)'
  BY DEF TypeOK, ChannelsBounded, Progress, DoneSent
<1>4. ASSUME NEW u \in Turns
      PROVE  Written(u)'
  BY DEF TypeOK, Progress, Written, Workbook, KeysOf, Collected, DoneTaken, DoneSent
<1>5. ASSUME NEW u \in Streamed
      PROVE  Streaming(u)'
  BY DEF TypeOK, ChannelsBounded, Progress, Streaming, DoneTaken, DoneSent, Collected
<1>6. (\A u \in Turns : Alone(u))' /\ (\A o \in Owners : Settled(o))'
  BY QuietStore DEF TypeOK, Progress, Written
<1>. QED
  BY <1>2, <1>3, <1>4, <1>5, <1>6

\* The client is told.
LEMMA AnswerIInv ==
  ASSUME NEW t \in Turns, IInv, Answer(t)
  PROVE  IInv'
<1>. USE TurnsAssumption DEF IInv, Answer, Move, InnerClosed, Returned, channels, bounds, store, history
<1>1. ASSUME NEW u \in Turns
      PROVE  ChannelsBounded(u)'
  BY DEF TypeOK, ChannelsBounded
<1>2. TypeOK'
  BY <1>1 DEF TypeOK, HandlerStates, KernelStages, ClientStates, AfterPersisting
<1>3. ASSUME NEW u \in Turns
      PROVE  Progress(u)'
  BY DEF TypeOK, ChannelsBounded, Progress, DoneSent
<1>4. ASSUME NEW u \in Turns
      PROVE  Written(u)'
  BY DEF TypeOK, Progress, Written, Workbook, KeysOf, Collected, DoneTaken, DoneSent
<1>5. ASSUME NEW u \in Streamed
      PROVE  Streaming(u)'
  BY DEF TypeOK, ChannelsBounded, Progress, Streaming, DoneTaken, DoneSent, Collected
<1>6. (\A u \in Turns : Alone(u))' /\ (\A o \in Owners : Settled(o))'
  BY QuietStore DEF TypeOK, Progress, Written
<1>. QED
  BY <1>2, <1>3, <1>4, <1>5, <1>6

\* The completion is put: the persistence of t begins.
LEMMA PutCompletionIInv ==
  ASSUME NEW t \in Turns, IInv, PutCompletion(t)
  PROVE  IInv'
<1>. DEFINE o == Owner[t]
            others == {u \in Turns \ {t} : Owner[u] = o /\ Persisting(u)}
<1>1. /\ TypeOK /\ o \in Owners
      /\ Progress(t) /\ Written(t) /\ kernel[t] = "completion"
      /\ handler[t] = "ended" /\ taken[t] = sent[t] /\ puts[t] = {} /\ nextRow[t] = 1
  BY TurnsAssumption DEF IInv, PutCompletion, Progress, Written
<1>2. UNCHANGED <<handler, cancelled, sent, taken, passed, read, nextRow, client, artifact, rows>>
  BY DEF PutCompletion, channels
<1>3. \A u \in Turns : Workbook(u)' <=> Workbook(u)
  BY <1>2 DEF Workbook, Collected, DoneTaken, DoneSent
<1>4. /\ kernel'[t] = IF Workbook(t) THEN "artifact" ELSE AfterPersisting(t)
      /\ \A u \in Turns \ {t} : kernel'[u] = kernel[u]
      /\ kernel' \in [Turns -> KernelStages]
  BY <1>1 DEF PutCompletion, Move, TypeOK, KernelStages, AfterPersisting
<1>5. /\ puts'[t] = {Latest} /\ puts' \in [Turns -> SUBSET Keys]
      /\ \A u \in Turns \ {t} : puts'[u] = puts[u]
  BY <1>1 DEF PutCompletion, TypeOK, Keys
<1>6. /\ completion'[o] = t /\ completion' \in [Owners -> Turns \cup {NoTurn}]
      /\ \A p \in Owners \ {o} : completion'[p] = completion[p]
  BY <1>1 DEF PutCompletion, TypeOK
<1>7. /\ disturbed' \subseteq Turns /\ disturbed \subseteq disturbed'
      /\ others # {} => t \in disturbed' /\ others \subseteq disturbed'
  BY <1>1 DEF PutCompletion, TypeOK
<1>8. /\ settled'[o] = IF others = {} /\ ~Workbook(t) THEN t ELSE NoTurn
      /\ settled' \in [Owners -> Turns \cup {NoTurn}]
      /\ \A p \in Owners \ {o} : settled'[p] = settled[p]
  BY <1>1 DEF PutCompletion, TypeOK
<1>9. AfterPersisting(t) = IF t \in Streamed THEN "final" ELSE "ok"
  BY DEF AfterPersisting
<1>10. \A u \in Turns : Persisting(u)' => Persisting(u) \/ (u = t /\ Workbook(t))
  BY <1>4, <1>9 DEF Persisting
<1>11. TypeOK'
  BY <1>1, <1>2, <1>4, <1>5, <1>6, <1>7, <1>8 DEF TypeOK, ChannelsBounded
<1>12. ASSUME NEW u \in Turns
       PROVE  Progress(u)' /\ Written(u)'
  <2>1. CASE u = t
    <3>1. client[t] # "stop" /\ client[t] # "idle"
      BY <1>1 DEF Progress
    <3>2. Progress(t)'
      BY <1>1, <1>2, <1>4, <1>9, <3>1 DEF Progress
    <3>3. Written(t)'
      BY <1>1, <1>2, <1>3, <1>4, <1>5, <1>9 DEF Written, KeysOf
    <3>. QED
      BY <2>1, <3>2, <3>3
  <2>2. CASE u # t
    <3>1. KeysOf(u)' = KeysOf(u)
      BY <1>3 DEF KeysOf, RowsOf
    <3>. QED
      BY <1>2, <1>3, <1>4, <1>5, <2>2, <3>1 DEF IInv, Progress, Written
  <2>. QED
    BY <2>1, <2>2
<1>13. ASSUME NEW u \in Streamed
       PROVE  Streaming(u)'
  BY <1>1, <1>2, <1>4, <1>9, TurnsAssumption
  DEF IInv, Streaming, Collected, DoneTaken, DoneSent, Returned
<1>14. ASSUME NEW u \in Turns, Persisting(u)', u \notin disturbed'
       PROVE  Alone(u)'
  <2>1. CASE u = t
    <3>1. others = {} /\ kernel'[t] = "artifact"
      BY <1>4, <1>7, <1>9, <1>14, <2>1 DEF Persisting
    <3>2. \A v \in Turns \ {t} : Owner[v] = o => ~Persisting(v)'
      BY <1>10, <3>1
    <3>. QED
      BY <1>6, <2>1, <3>1, <3>2 DEF Alone
  <2>2. CASE u # t
    <3>1. Persisting(u) /\ u \notin disturbed
      BY <1>7, <1>10, <1>14, <2>2
    <3>2. Owner[u] # o
      BY <1>7, <1>14, <2>2, <3>1
    <3>3. Alone(u) /\ Owner[u] \in Owners
      BY TurnsAssumption DEF IInv
    <3>4. \A v \in Turns \ {u} : Owner[v] = Owner[u] => ~Persisting(v)'
      BY <1>10, <3>1, <3>2, <3>3 DEF Alone
    <3>. QED
      BY <1>2, <1>4, <1>6, <2>2, <3>1, <3>2, <3>3, <3>4 DEF Alone
  <2>. QED
    BY <2>1, <2>2
<1>15. ASSUME NEW p \in Owners, settled'[p] # NoTurn
       PROVE  Settled(p)'
  <2>1. CASE p = o
    <3>1. others = {} /\ ~Workbook(t) /\ settled'[o] = t
      BY <1>8, <1>15, <2>1
    <3>2. \A v \in Turns : Owner[v] = o => ~Persisting(v)'
      BY <1>4, <1>9, <1>10, <3>1 DEF Persisting
    <3>. QED
      BY <1>3, <1>5, <1>6, <2>1, <3>1, <3>2 DEF Settled
  <2>2. CASE p # o
    <3>1. settled'[p] = settled[p] /\ settled[p] \in Turns /\ settled[p] # t /\ Settled(p)
      BY <1>1, <1>8, <1>15, <2>2 DEF IInv, Settled, TypeOK
    <3>2. \A v \in Turns : Owner[v] = p => ~Persisting(v)'
      BY <1>10, <1>15, <2>2, <3>1 DEF Settled
    <3>. QED
      BY <1>2, <1>3, <1>5, <1>6, <1>15, <2>2, <3>1, <3>2 DEF Settled, RowsOf
  <2>. QED
    BY <2>1, <2>2
<1>16. (\A u \in Turns : Alone(u))' /\ (\A p \in Owners : Settled(p))'
  BY <1>14, <1>15 DEF Alone, Settled
<1>. QED
  BY <1>11, <1>12, <1>13, <1>16 DEF IInv

\* The snapshot is put.
LEMMA PutArtifactIInv ==
  ASSUME NEW t \in Turns, IInv, PutArtifact(t)
  PROVE  IInv'
<1>. DEFINE o == Owner[t]
            last == RowPuts[t] = <<>>
<1>1. /\ TypeOK /\ o \in Owners
      /\ Progress(t) /\ Written(t) /\ kernel[t] = "artifact" /\ Persisting(t) /\ Workbook(t)
      /\ handler[t] = "ended" /\ taken[t] = sent[t] /\ puts[t] = {Latest} /\ nextRow[t] = 1
  BY TurnsAssumption DEF IInv, PutArtifact, Progress, Written, Persisting
<1>2. UNCHANGED <<handler, cancelled, sent, taken, passed, read, nextRow, client, completion,
                  rows, disturbed>>
  BY DEF PutArtifact, channels
<1>3. \A u \in Turns : Workbook(u)' <=> Workbook(u)
  BY <1>2 DEF Workbook, Collected, DoneTaken, DoneSent
<1>4. /\ kernel'[t] = IF last THEN AfterPersisting(t) ELSE "rows"
      /\ \A u \in Turns \ {t} : kernel'[u] = kernel[u]
      /\ kernel' \in [Turns -> KernelStages]
  BY <1>1 DEF PutArtifact, Move, TypeOK, KernelStages, AfterPersisting
<1>5. /\ puts'[t] = {Latest, Snapshot} /\ puts' \in [Turns -> SUBSET Keys]
      /\ \A u \in Turns \ {t} : puts'[u] = puts[u]
  BY <1>1 DEF PutArtifact, Wrote, TypeOK, Keys
<1>6. /\ artifact'[o] = t /\ artifact' \in [Owners -> Turns \cup {NoTurn}]
      /\ \A p \in Owners \ {o} : artifact'[p] = artifact[p]
  BY <1>1 DEF PutArtifact, TypeOK
<1>7. /\ settled'[o] = IF last /\ t \notin disturbed THEN t ELSE settled[o]
      /\ settled' \in [Owners -> Turns \cup {NoTurn}]
      /\ \A p \in Owners \ {o} : settled'[p] = settled[p]
  BY <1>1 DEF PutArtifact, Wrote, TypeOK
<1>8. AfterPersisting(t) = IF t \in Streamed THEN "final" ELSE "ok"
  BY DEF AfterPersisting
<1>9. \A u \in Turns : Persisting(u)' => Persisting(u) /\ ~(u = t /\ last)
  BY <1>1, <1>4, <1>8 DEF Persisting
<1>10. /\ last => RowsOf(t) = {}
       /\ ~last => Len(RowPuts[t]) \in Nat \ {0}
  <2>1. RowPuts[t] \in Seq(Nat)
    BY TurnsAssumption
  <2>. QED
    BY <2>1 DEF RowsOf
<1>11. TypeOK'
  BY <1>1, <1>2, <1>4, <1>5, <1>6, <1>7 DEF TypeOK, ChannelsBounded
<1>12. ASSUME NEW u \in Turns
       PROVE  Progress(u)' /\ Written(u)'
  <2>1. CASE u = t
    <3>1. client[t] # "stop" /\ client[t] # "idle"
      BY <1>1 DEF Progress
    <3>2. Progress(t)'
      BY <1>1, <1>2, <1>4, <1>8, <3>1 DEF Progress
    <3>3. CASE last
      <4>1. KeysOf(t)' = {Latest, Snapshot}
        BY <1>1, <1>3, <1>10, <3>3 DEF KeysOf, RowsOf
      <4>. QED
        BY <1>1, <1>2, <1>4, <1>5, <1>8, <2>1, <3>2, <3>3, <4>1 DEF Written
    <3>4. CASE ~last
      <4>1. nextRow'[t] = 1 /\ 1 \in 1..Len(RowPuts[t]) /\ 1..1 - 1 = {}
        BY <1>1, <1>2, <1>10, <3>4
      <4>2. puts'[t] = {Latest, Snapshot} \cup {Row(RowPuts[t][i]) : i \in 1..nextRow'[t] - 1}
        BY <1>5, <4>1
      <4>. QED
        BY <1>1, <1>2, <1>3, <1>4, <2>1, <3>2, <3>4, <4>1, <4>2 DEF Written
    <3>. QED
      BY <3>3, <3>4
  <2>2. CASE u # t
    <3>1. KeysOf(u)' = KeysOf(u)
      BY <1>3 DEF KeysOf, RowsOf
    <3>. QED
      BY <1>2, <1>3, <1>4, <1>5, <2>2, <3>1 DEF IInv, Progress, Written
  <2>. QED
    BY <2>1, <2>2
<1>13. ASSUME NEW u \in Streamed
       PROVE  Streaming(u)'
  BY <1>1, <1>2, <1>4, <1>8, TurnsAssumption
  DEF IInv, Streaming, Collected, DoneTaken, DoneSent, Returned
<1>14. ASSUME NEW u \in Turns, Persisting(u)', u \notin disturbed'
       PROVE  Alone(u)'
  <2>1. Persisting(u) /\ u \notin disturbed /\ Alone(u) /\ Owner[u] \in Owners
    BY <1>2, <1>9, <1>14, TurnsAssumption DEF IInv
  <2>2. \A v \in Turns \ {u} : Owner[v] = Owner[u] => ~Persisting(v)'
    BY <1>9, <2>1 DEF Alone
  <2>3. completion'[Owner[u]] = u
    BY <1>2, <2>1 DEF Alone
  <2>4. CASE u = t
    <3>1. 1..nextRow'[t] - 1 = {}
      BY <1>1, <1>2
    <3>. QED
      BY <1>6, <2>2, <2>3, <2>4, <3>1 DEF Alone
  <2>5. CASE u # t
    <3>1. Owner[u] # o
      BY <1>1, <2>1, <2>5 DEF Alone
    <3>. QED
      BY <1>2, <1>4, <1>6, <2>1, <2>2, <2>3, <2>5, <3>1 DEF Alone
  <2>. QED
    BY <2>4, <2>5
<1>15. ASSUME NEW p \in Owners, settled'[p] # NoTurn
       PROVE  Settled(p)'
  <2>1. CASE p = o
    <3>1. settled[o] = NoTurn
      BY <1>1 DEF IInv, Settled
    <3>2. last /\ t \notin disturbed /\ settled'[o] = t
      BY <1>7, <1>15, <2>1, <3>1
    <3>3. Alone(t)
      BY DEF IInv
    <3>4. \A v \in Turns : Owner[v] = o => ~Persisting(v)'
      BY <1>1, <1>9, <3>2, <3>3 DEF Alone
    <3>5. completion'[o] = t /\ RowsOf(t) = {}
      BY <1>1, <1>2, <1>10, <3>2, <3>3 DEF Alone
    <3>. QED
      BY <1>5, <1>6, <2>1, <3>2, <3>4, <3>5 DEF Settled, RowsOf
  <2>2. CASE p # o
    <3>1. settled'[p] = settled[p] /\ settled[p] \in Turns /\ settled[p] # t /\ Settled(p)
      BY <1>1, <1>7, <1>15, <2>2 DEF IInv, Settled, TypeOK
    <3>2. \A v \in Turns : Owner[v] = p => ~Persisting(v)'
      BY <1>9, <1>15, <2>2, <3>1 DEF Settled
    <3>. QED
      BY <1>2, <1>3, <1>5, <1>6, <1>15, <2>2, <3>1, <3>2 DEF Settled, RowsOf
  <2>. QED
    BY <2>1, <2>2
<1>16. (\A u \in Turns : Alone(u))' /\ (\A p \in Owners : Settled(p))'
  BY <1>14, <1>15 DEF Alone, Settled
<1>. QED
  BY <1>11, <1>12, <1>13, <1>16 DEF IInv

\* A row is put.
LEMMA PutRowIInv ==
  ASSUME NEW t \in Turns, IInv, PutRow(t)
  PROVE  IInv'
<1>. DEFINE o == Owner[t]
            n == nextRow[t]
            r == RowPuts[t][n]
<1>1. /\ TypeOK /\ o \in Owners
      /\ Progress(t) /\ Written(t) /\ kernel[t] = "rows" /\ Persisting(t) /\ Workbook(t)
      /\ handler[t] = "ended" /\ taken[t] = sent[t]
      /\ puts[t] = {Latest, Snapshot} \cup {Row(RowPuts[t][i]) : i \in 1..n - 1}
      /\ Len(RowPuts[t]) \in Nat /\ n \in 1..Len(RowPuts[t])
  BY TurnsAssumption, RowPutsFacts DEF IInv, PutRow, Progress, Written, Persisting
<1>2. UNCHANGED <<handler, cancelled, sent, taken, passed, read, client, completion, artifact,
                  disturbed>>
  BY DEF PutRow, channels
<1>3. \A u \in Turns : Workbook(u)' <=> Workbook(u)
  BY <1>2 DEF Workbook, Collected, DoneTaken, DoneSent
<1>4. /\ kernel'[t] = IF n = Len(RowPuts[t]) THEN AfterPersisting(t) ELSE "rows"
      /\ \A u \in Turns \ {t} : kernel'[u] = kernel[u]
      /\ kernel' \in [Turns -> KernelStages]
  BY <1>1 DEF PutRow, LastRow, Move, TypeOK, KernelStages, AfterPersisting
<1>5. r \in RowsOf(t) /\ RowsOf(t) \subseteq RowIds
  BY <1>1 DEF RowsOf, RowIds
<1>6. /\ puts'[t] = puts[t] \cup {Row(r)} /\ puts' \in [Turns -> SUBSET Keys]
      /\ \A u \in Turns \ {t} : puts'[u] = puts[u]
  <2>1. puts' = [puts EXCEPT ![t] = @ \cup {Row(r)}]
    BY DEF PutRow, Wrote
  <2>2. Row(r) \in Keys /\ puts \in [Turns -> SUBSET Keys]
    BY <1>1, <1>5 DEF Keys, TypeOK
  <2>. QED
    BY <2>1, <2>2
<1>7. /\ nextRow'[t] = n + 1 /\ nextRow' \in [Turns -> Nat]
      /\ \A u \in Turns \ {t} : nextRow'[u] = nextRow[u]
  BY <1>1 DEF PutRow, TypeOK
<1>8. /\ rows'[o] = [rows[o] EXCEPT ![r] = t]
      /\ rows' \in [Owners -> [RowIds -> Turns \cup {NoTurn}]]
      /\ rows[o] \in [RowIds -> Turns \cup {NoTurn}]
      /\ \A p \in Owners \ {o} : rows'[p] = rows[p]
  BY <1>1, <1>5 DEF PutRow, TypeOK
<1>9. /\ settled'[o] = IF n = Len(RowPuts[t]) /\ t \notin disturbed THEN t ELSE settled[o]
      /\ settled' \in [Owners -> Turns \cup {NoTurn}]
      /\ \A p \in Owners \ {o} : settled'[p] = settled[p]
  BY <1>1 DEF PutRow, LastRow, Wrote, TypeOK
<1>10. AfterPersisting(t) = IF t \in Streamed THEN "final" ELSE "ok"
  BY DEF AfterPersisting
<1>11. \A u \in Turns : Persisting(u)' => Persisting(u) /\ ~(u = t /\ n = Len(RowPuts[t]))
  BY <1>1, <1>4, <1>10 DEF Persisting
<1>12. \A i \in 1..n : i = n \/ i \in 1..n - 1
  BY <1>1
<1>13. puts'[t] = {Latest, Snapshot} \cup {Row(RowPuts[t][i]) : i \in 1..n}
  <2>1. 1..n = (1..n - 1) \cup {n}
    BY <1>1
  <2>. QED
    BY <1>1, <1>6, <2>1
<1>14. nextRow'[t] - 1 = n
  BY <1>1, <1>7
<1>15. TypeOK'
  <2>1. \A u \in Turns : ChannelsBounded(u)'
    BY <1>1, <1>2 DEF TypeOK, ChannelsBounded
  <2>2. nextRow'[t] \in 1..Len(RowPuts[t]) + 1
    BY ONLY <1>1, <1>7
  <2>3. \A u \in Turns \ {t} : nextRow'[u] \in 1..Len(RowPuts[u]) + 1
    BY <1>1, <1>7 DEF TypeOK
  <2>. QED
    BY <1>1, <1>2, <1>4, <1>6, <1>7, <1>8, <1>9, <2>1, <2>2, <2>3 DEF TypeOK
<1>16. ASSUME NEW u \in Turns
       PROVE  Progress(u)' /\ Written(u)'
  <2>1. CASE u = t
    <3>1. client[t] # "stop" /\ client[t] # "idle"
      BY <1>1 DEF Progress
    <3>2. Progress(t)'
      BY <1>1, <1>2, <1>4, <1>10, <3>1 DEF Progress
    <3>3. CASE n = Len(RowPuts[t])
      <4>1. {Row(RowPuts[t][i]) : i \in 1..n} = {Row(q) : q \in RowsOf(t)}
        BY <3>3 DEF RowsOf
      <4>2. KeysOf(t)' = {Latest} \cup ({Snapshot} \cup {Row(q) : q \in RowsOf(t)})
        BY <1>1, <1>3 DEF KeysOf, RowsOf
      <4>3. puts'[t] = KeysOf(t)'
        BY <1>13, <4>1, <4>2
      <4>. QED
        BY <1>1, <1>2, <1>4, <1>10, <2>1, <3>2, <3>3, <4>3 DEF Written
    <3>4. CASE n # Len(RowPuts[t])
      <4>1. nextRow'[t] \in 1..Len(RowPuts[t])
        BY <1>1, <1>7, <3>4
      <4>2. puts'[t] = {Latest, Snapshot} \cup {Row(RowPuts[t][i]) : i \in 1..nextRow'[t] - 1}
        BY <1>13, <1>14
      <4>. QED
        BY <1>1, <1>2, <1>3, <1>4, <2>1, <3>2, <3>4, <4>1, <4>2 DEF Written
    <3>. QED
      BY <3>3, <3>4
  <2>2. CASE u # t
    <3>1. KeysOf(u)' = KeysOf(u)
      BY <1>3 DEF KeysOf, RowsOf
    <3>2. Progress(u) /\ Written(u) /\ kernel'[u] = kernel[u] /\ puts'[u] = puts[u] /\ nextRow'[u] = nextRow[u]
      BY <1>4, <1>6, <1>7, <2>2 DEF IInv
    <3>. QED
      BY <1>2, <1>3, <3>1, <3>2 DEF Progress, Written
  <2>. QED
    BY <2>1, <2>2
<1>17. ASSUME NEW u \in Streamed
       PROVE  Streaming(u)'
  BY <1>1, <1>2, <1>4, <1>10, TurnsAssumption
  DEF IInv, Streaming, Collected, DoneTaken, DoneSent, Returned
\* The rows put so far are t's.
<1>18. t \notin disturbed =>
         /\ \A i \in 1..n : rows'[o][RowPuts[t][i]] = t
         /\ completion'[o] = t /\ artifact'[o] = t
         /\ \A v \in Turns \ {t} : Owner[v] = o => ~Persisting(v)'
  <2>. SUFFICES ASSUME t \notin disturbed
                PROVE  /\ \A i \in 1..n : rows'[o][RowPuts[t][i]] = t
                       /\ completion'[o] = t /\ artifact'[o] = t
                       /\ \A v \in Turns \ {t} : Owner[v] = o => ~Persisting(v)'
    OBVIOUS
  <2>1. Alone(t)
    BY DEF IInv
  <2>2. \A i \in 1..n - 1 : rows[o][RowPuts[t][i]] = t
    BY <1>1, <2>1 DEF Alone
  <2>3. ASSUME NEW i \in 1..n
        PROVE  rows'[o][RowPuts[t][i]] = t
    <3>1. RowPuts[t][i] \in RowIds
      BY <1>1, <1>5 DEF RowsOf
    <3>. QED
      BY <1>8, <1>12, <2>2, <3>1
  <2>. QED
    BY <1>1, <1>2, <1>11, <2>1, <2>3 DEF Alone
<1>19. ASSUME NEW u \in Turns, Persisting(u)', u \notin disturbed'
       PROVE  Alone(u)'
  <2>1. CASE u = t
    BY <1>2, <1>14, <1>18, <1>19, <2>1 DEF Alone
  <2>2. CASE u # t
    <3>1. Persisting(u) /\ u \notin disturbed /\ Alone(u) /\ Owner[u] \in Owners
      BY <1>2, <1>11, <1>19, TurnsAssumption DEF IInv
    <3>2. Owner[u] # o
      BY <1>1, <2>2, <3>1 DEF Alone
    <3>3. \A v \in Turns \ {u} : Owner[v] = Owner[u] => ~Persisting(v)'
      BY <1>11, <3>1 DEF Alone
    <3>. QED
      BY <1>2, <1>4, <1>7, <1>8, <2>2, <3>1, <3>2, <3>3 DEF Alone
  <2>. QED
    BY <2>1, <2>2
<1>20. ASSUME NEW p \in Owners, settled'[p] # NoTurn
       PROVE  Settled(p)'
  <2>1. CASE p = o
    <3>1. settled[o] = NoTurn
      BY <1>1 DEF IInv, Settled
    <3>2. n = Len(RowPuts[t]) /\ t \notin disturbed /\ settled'[o] = t
      BY <1>9, <1>20, <2>1, <3>1
    <3>3. \A v \in Turns : Owner[v] = o => ~Persisting(v)'
      BY <1>11, <1>18, <3>2
    <3>4. \A q \in RowsOf(t) : rows'[o][q] = t
      BY <1>18, <3>2 DEF RowsOf
    <3>. QED
      BY <1>6, <1>18, <2>1, <3>2, <3>3, <3>4, SMTT(30) DEF Settled, RowsOf
  <2>2. CASE p # o
    <3>1. settled'[p] = settled[p] /\ settled[p] \in Turns /\ settled[p] # t /\ Settled(p)
      BY <1>1, <1>9, <1>20, <2>2 DEF IInv, Settled, TypeOK
    <3>2. \A v \in Turns : Owner[v] = p => ~Persisting(v)'
      BY <1>11, <1>20, <2>2, <3>1 DEF Settled
    <3>. QED
      BY <1>2, <1>3, <1>6, <1>8, <1>20, <2>2, <3>1, <3>2 DEF Settled, RowsOf
  <2>. QED
    BY <2>1, <2>2
<1>21. (\A u \in Turns : Alone(u))' /\ (\A p \in Owners : Settled(p))'
  BY <1>19, <1>20 DEF Alone, Settled
<1>. QED
  BY <1>15, <1>16, <1>17, <1>21 DEF IInv

\* The process dies.
LEMMA CrashIInv ==
  ASSUME IInv, Crash
  PROVE  IInv'
<1>1. UNCHANGED <<cancelled, sent, taken, passed, read, nextRow, completion, artifact, rows,
                  puts, disturbed, settled>>
  BY DEF Crash, channels, store, history
<1>2. ASSUME NEW t \in Turns
      PROVE  /\ client'[t] = IF client[t] \in {"reading", "tail"} THEN "gone" ELSE client[t]
             /\ handler'[t] = IF handler[t] \in {"running", "silent", "closing"} THEN "failed"
                              ELSE handler[t]
             /\ kernel'[t] = IF kernel[t] = "idle" \/ Returned(t) THEN kernel[t] ELSE "error"
  BY DEF Crash
<1>3. TypeOK'
  <2>1. /\ client' \in [Turns -> ClientStates] /\ handler' \in [Turns -> HandlerStates]
        /\ kernel' \in [Turns -> KernelStages]
    BY DEF Crash, IInv, TypeOK, ClientStates, HandlerStates, KernelStages
  <2>. QED
    BY <1>1, <2>1 DEF IInv, TypeOK, ChannelsBounded
<1>4. ASSUME NEW t \in Turns
      PROVE  Progress(t)' /\ Written(t)'
  <2>1. Progress(t) /\ Written(t)
    BY DEF IInv
  <2>2. Progress(t)'
    BY <1>1, <1>2, <2>1 DEF Progress, Returned
  <2>3. kernel[t] \in {"final", "ok"} => (KeysOf(t)' = KeysOf(t))
    BY <1>1, <1>2, <2>1 DEF Progress, KeysOf, RowsOf, Workbook, Collected, DoneTaken, DoneSent
  <2>. QED
    BY <1>1, <1>2, <2>1, <2>2, <2>3 DEF Progress, Written, Returned
<1>5. ASSUME NEW t \in Streamed
      PROVE  Streaming(t)'
  <2>1. t \in Turns /\ Streaming(t) /\ Progress(t)
    BY TurnsAssumption DEF IInv
  <2>. QED
    BY <1>1, <1>2, <2>1
    DEF Progress, Streaming, Collected, DoneTaken, DoneSent, Returned
<1>6. (\A t \in Turns : Alone(t))' /\ (\A o \in Owners : Settled(o))'
  <2>1. ASSUME NEW u \in Turns, puts[u] # {}
        PROVE  handler'[u] = handler[u]
    BY <1>2, <2>1 DEF IInv, Written
  <2>. QED
    BY <1>1, <1>2, <2>1, QuietStore DEF store, history, Returned
<1>. QED
  BY <1>3, <1>4, <1>5, <1>6 DEF IInv

\* Every step preserves the inductive invariant.
LEMMA NextIInv == IInv /\ [Next]_vars => IInv'
<1>. SUFFICES ASSUME IInv, [Next]_vars PROVE IInv'
  OBVIOUS
<1>1. ASSUME NEW t \in Turns, Start(t) \/ Disconnect(t) \/ GoesSilent(t)
      PROVE  IInv'
  BY <1>1, StartIInv, DisconnectIInv, GoesSilentIInv
<1>2. ASSUME NEW t \in Turns, HandlerStep(t)
      PROVE  IInv'
  BY <1>2, SendDeltaIInv, SendDoneIInv, HandlerEndsIInv, HandlerFailsIInv DEF HandlerStep
<1>3. ASSUME NEW t \in Turns, KernelStep(t)
      PROVE  IInv'
  BY <1>3, TakeIInv, ForwardIInv, DrainedIInv, HandlerReturnedIInv, PutCompletionIInv,
     PutArtifactIInv, PutRowIInv, PutFailsIInv, ForwardDoneIInv DEF KernelStep
<1>4. ASSUME NEW t \in Turns, GatewayStep(t)
      PROVE  IInv'
  BY <1>4, ReadChunkIInv, WriteFailsIInv, StreamClosedIInv, AnswerIInv DEF GatewayStep
<1>5. CASE UNCHANGED vars
  <2>. USE <1>5 DEF vars, channels, store, bounds, history
  <2>1. TypeOK' /\ (\A t \in Turns : Progress(t))'
    BY DEF IInv, TypeOK, ChannelsBounded, Progress
  <2>2. (\A t \in Turns : Written(t))'
    BY DEF IInv, Written, KeysOf, RowsOf, Workbook, Collected, DoneTaken, DoneSent
  <2>3. (\A t \in Streamed : Streaming(t))'
    BY DEF IInv, Streaming, Collected, DoneTaken, DoneSent, Returned
  <2>4. (\A t \in Turns : Alone(t))' /\ (\A o \in Owners : Settled(o))'
    BY QuietStore
  <2>. QED
    BY <2>1, <2>2, <2>3, <2>4 DEF IInv
<1>. QED
  BY <1>1, <1>2, <1>3, <1>4, <1>5, CrashIInv DEF Next, Quiescent

-----------------------------------------------------------------------------
\* Every reachable state satisfies the inductive invariant.
THEOREM Invariance == Spec => []IInv
<1>. QED
  BY InitIInv, NextIInv, PTL DEF Spec

\* The variables keep their types, and neither channel ever holds more than its
\* capacity or delivers what was not sent (make(chan api.Chunk, 8)).
THEOREM TypeCorrect == Spec => []TypeOK
<1>1. IInv => TypeOK
  BY DEF IInv
<1>. QED
  BY <1>1, Invariance, PTL

\* A client that was told "stop" can rely on the store: persistAgentCompletion
\* had put every key of the turn before Done was forwarded or ChatCompletion
\* returned.
THEOREM StopsArePersisted == Spec => []StopMeansPersisted
<1>1. IInv => StopMeansPersisted
  BY DEF IInv, Progress, Written, StopMeansPersisted
<1>. QED
  BY <1>1, Invariance, PTL

\* The text a client saw end with "stop" is the text that was persisted: nothing
\* is lost between the handler, the two channels and streamChat.
THEOREM StopsCarryEverything == Spec => []StopCarriesEverything
<1>1. IInv => StopCarriesEverything
  BY TurnsAssumption DEF IInv, Progress, Streaming, StopCarriesEverything
<1>. QED
  BY <1>1, Invariance, PTL

\* A turn whose handler failed has put nothing: a failed generation leaves the
\* last completion alone.
THEOREM FailedGenerationsKeepLast == Spec => []FailedGenerationKeepsLast
<1>1. IInv => FailedGenerationKeepsLast
  BY DEF IInv, Written, FailedGenerationKeepsLast
<1>. QED
  BY <1>1, Invariance, PTL

\* When the last persistence of an owner ran undisturbed to its end, the
\* completion, the artifact and the rows of the owner are of the same turn.
THEOREM SettledRowsMatch == Spec => []SettledRowsMatchArtifact
<1>1. IInv => SettledRowsMatchArtifact
  BY DEF IInv, Settled, SettledRowsMatchArtifact
<1>. QED
  BY <1>1, Invariance, PTL

\* Only the client of a stream has a tail to wait for.
TailsStream == \A t \in Turns : client[t] = "tail" => t \in Streamed

\* The out channel of a turn that is collected stays empty, so its client leaves
\* "reading" only for an answer.
LEMMA TailsStreamAlways == Spec => []TailsStream
<1>1. Init => TailsStream
  BY DEF Init, TailsStream
<1>2. IInv /\ TailsStream /\ [Next]_vars => TailsStream'
  <2>. SUFFICES ASSUME IInv, TailsStream, [Next]_vars PROVE TailsStream'
    OBVIOUS
  <2>1. ASSUME NEW t \in Turns, ReadChunk(t) \/ StreamClosed(t) PROVE TailsStream'
    <3>1. read[t] \in Nat /\ passed[t] \in Nat /\ ChannelsBounded(t) /\ client \in [Turns -> ClientStates]
      BY DEF IInv, TypeOK
    <3>2. t \in Streamed
      <4>1. CASE ReadChunk(t)
        BY <3>1, <4>1 DEF ReadChunk, ChannelsBounded
      <4>2. CASE StreamClosed(t)
        BY <4>2 DEF StreamClosed
      <4>. QED
        BY <2>1, <4>1, <4>2
    <3>3. \A u \in Turns \ {t} : client'[u] = client[u]
      BY <2>1, <3>1 DEF ReadChunk, StreamClosed
    <3>. QED
      BY <3>2, <3>3 DEF TailsStream
  <2>2. ASSUME NEW t \in Turns, Start(t) \/ WriteFails(t) \/ Answer(t) PROVE TailsStream'
    <3>1. client \in [Turns -> ClientStates]
      BY DEF IInv, TypeOK
    <3>2. client'[t] # "tail" /\ \A u \in Turns \ {t} : client'[u] = client[u]
      BY <2>2, <3>1 DEF Start, WriteFails, Answer
    <3>. QED
      BY <3>2 DEF TailsStream
  <2>3. CASE Crash
    BY <2>3 DEF Crash, TailsStream
  <2>4. CASE UNCHANGED client
    BY <2>4 DEF TailsStream
  <2>5. ASSUME NEW t \in Turns, Disconnect(t) \/ GoesSilent(t) \/ HandlerStep(t) \/ KernelStep(t)
        PROVE  UNCHANGED client
    BY <2>5 DEF Disconnect, GoesSilent, HandlerStep, SendDelta, SendDone, HandlerEnds, HandlerFails, KernelStep,
       Take, Forward, Drained, HandlerReturned, PutCompletion, PutArtifact, PutRow, PutFails, ForwardDone
  <2>6. CASE UNCHANGED vars
    BY <2>6 DEF vars, TailsStream
  <2>. QED
    BY <2>1, <2>2, <2>3, <2>4, <2>5, <2>6 DEF Next, GatewayStep, Quiescent
<1>. QED
  BY <1>1, <1>2, Invariance, PTL DEF Spec

\* As long as a client waits, its turn has a step to take that is not a failure,
\* or the client has all that came from an upstream that has gone silent: no
\* goroutine of ChatCompletionStream, the handler or streamChat waits for another
\* that will not come.
THEOREM TurnsNeverHang == Spec => []TurnMoves
<1>1. ASSUME IInv, TailsStream, NEW t \in Turns, client[t] \in {"reading", "tail"}
      PROVE  \/ Stalled(t) \/ handler[t] = "closing"
             \/ handler[t] = "silent" /\ t \in cancelled
             \/ handler[t] = "running" /\ sent[t] - taken[t] < Capacity
             \/ kernel[t] = "recv" /\ (taken[t] < sent[t] \/ InnerClosed(t))
             \/ kernel[t] = "wait" /\ InnerClosed(t)
             \/ kernel[t] \in {"completion", "artifact", "rows"}
             \/ kernel[t] \in {"send", "final"} /\ passed[t] - read[t] < Capacity
             \/ client[t] = "reading" /\ read[t] < passed[t]
             \/ Returned(t) /\ client[t] = (IF t \in Streamed THEN "tail" ELSE "reading")
             \/ Returned(t) /\ t \in Streamed /\ client[t] = "reading" /\ read[t] = passed[t]
  <2>1. /\ sent[t] \in Nat /\ taken[t] \in Nat /\ passed[t] \in Nat /\ read[t] \in Nat
        /\ Capacity \in Nat \ {0} /\ ChannelsBounded(t) /\ Progress(t)
        /\ handler[t] \in HandlerStates /\ kernel[t] \in KernelStages
    BY <1>1, TurnsAssumption DEF IInv, TypeOK
  <2>2. client[t] = "tail" => t \in Streamed /\ Returned(t)
    BY <1>1 DEF IInv, TailsStream, Streaming
  <2>3. handler[t] # "idle" /\ kernel[t] # "idle"
    BY <1>1, <2>1 DEF Progress
  <2>4. CASE kernel[t] = "recv"
    <3>1. CASE taken[t] = sent[t]
      <4>1. CASE handler[t] = "silent" /\ t \notin cancelled
        <5>1. client[t] = "reading"
          BY <1>1, <2>2, <2>4 DEF Returned
        <5>2. read[t] < passed[t] \/ read[t] = passed[t]
          BY <2>1 DEF ChannelsBounded
        <5>. QED
          BY <2>4, <3>1, <4>1, <5>1, <5>2 DEF Stalled
      <4>2. CASE handler[t] = "silent" /\ t \in cancelled
        BY <4>2
      <4>3. CASE handler[t] # "silent"
        BY <2>1, <2>3, <2>4, <3>1, <4>3 DEF HandlerStates, InnerClosed
      <4>. QED
        BY <4>1, <4>2, <4>3
    <3>2. CASE taken[t] # sent[t]
      BY <2>1, <2>4, <3>2 DEF ChannelsBounded
    <3>. QED
      BY <3>1, <3>2
  <2>5. CASE kernel[t] \in {"send", "final"}
    <3>1. client[t] = "reading"
      BY <1>1, <2>2, <2>5 DEF Returned
    <3>2. passed[t] - read[t] < Capacity \/ read[t] < passed[t]
      BY <2>1 DEF ChannelsBounded
    <3>. QED
      BY <2>5, <3>1, <3>2
  <2>6. CASE kernel[t] = "wait"
    BY <2>1, <2>6 DEF Progress, InnerClosed
  <2>7. CASE Returned(t)
    <3>1. read[t] < passed[t] \/ read[t] = passed[t]
      BY <2>1 DEF ChannelsBounded
    <3>. QED
      BY <1>1, <2>2, <2>7, <3>1
  <2>8. CASE kernel[t] \in {"completion", "artifact", "rows"}
    BY <2>8
  <2>. QED
    BY <2>1, <2>3, <2>4, <2>5, <2>6, <2>7, <2>8 DEF KernelStages, Returned
<1>2. IInv /\ TailsStream => TurnMoves
  BY <1>1 DEF TurnMoves
<1>. QED
  BY <1>2, Invariance, TailsStreamAlways, PTL

=============================================================================
