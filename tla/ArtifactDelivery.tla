--------------------------- MODULE ArtifactDelivery ---------------------------
(***************************************************************************)
(* How a rendered artifact gets from the renderer to the disk, the NAS or  *)
(* an HTTP client.                                                         *)
(*                                                                         *)
(* A stream renderer runs in a goroutine of its own: it waits for the      *)
(* Remotion child, sends the file in chunks over a bounded channel, and    *)
(* closes the channel when it is done or has failed.  The other end is     *)
(* `soyaos agent invoke`, which copies the chunks to a temporary file,     *)
(* checks it, renames it to its place, exports the sources, uploads the    *)
(* file and writes the evidence; or the HTTP handler, which passes the     *)
(* chunks on from an offset.  A workbook is rendered without a goroutine   *)
(* and published the same way.                                             *)
(*                                                                         *)
(* A file is the number of chunks it holds; a whole one has Total.  The    *)
(* disk, the child, the NAS and the client may fail at every step, and the *)
(* process may be killed.                                                  *)
(***************************************************************************)
EXTENDS Integers, Sequences

CONSTANTS
  Total,       \* chunks of a whole artifact
  Cap,         \* of the channel: 8 for the command, 4 for the handler
  Protocols    \* of NAS that may be asked for: "smb", "nfs", "webdav", "s3"

ASSUME DeliveryAssumption ==
  /\ Total \in Nat \ {0} /\ Cap \in Nat \ {0}
  /\ Protocols \subseteq {"smb", "nfs", "webdav", "s3"}

Old  == -1     \* what was there before
None == -2     \* nothing is there

VARIABLES
  job,         \* [kind, skip, export, nas, evidence]: what is asked for
  producer,    \* "idle", "rendering", "streaming", "ok" or "failed"
  sent, got,   \* chunks sent and received: sent - got are in the channel
  over,        \* the context is done: deadline, cancel, client gone
  stage,       \* of the command or the handler
  sound,       \* the renderer's bytes begin as an MP4 does, or parse as a workbook
  torn,        \* a write or a close on this side has failed
  tmp,         \* the temporary file
  workDir,     \* the render directory is there
  out,         \* the file at the output path
  export,      \* the exported source tree: None, 0 (a part) or Total
  nas,         \* the remote file
  evidence,    \* the bytes the evidence file speaks of
  body         \* chunks written to the HTTP response

deliveryVars == <<job, producer, sent, got, over, stage, sound, torn, tmp, workDir,
                  out, export, nas, evidence, body>>
pipeVars == <<producer, sent, got, over>>
fileVars == <<tmp, workDir, out, export, nas, evidence>>

Jobs == [kind : {"mp4"}, skip : {0}, export : BOOLEAN, nas : Protocols \cup {"none"},
         evidence : BOOLEAN]
   \cup [kind : {"xlsx"}, skip : {0}, export : {FALSE}, nas : {"none"}, evidence : {FALSE}]
   \cup [kind : {"http"}, skip : 0..Total, export : {FALSE}, nas : {"none"}, evidence : {FALSE}]

Command == {"request", "start", "copy", "wait", "validate", "render", "publish", "export", "upload", "evidence"}
Handler == {"serve", "drain"}
EndStages == {"done", "failed", "complete", "left", "killed"}

DeliveryInit ==
  /\ job \in Jobs
  /\ stage = IF job.kind = "http" THEN "serve" ELSE "request"
  /\ producer = IF job.kind = "http" THEN "rendering" ELSE "idle"
  /\ sent = 0 /\ got = 0 /\ over = FALSE /\ sound \in BOOLEAN /\ torn = FALSE
  /\ tmp = None /\ workDir = FALSE
  /\ out = Old /\ export = None /\ nas = Old /\ evidence = Old /\ body = 0

-----------------------------------------------------------------------------
(***************************************************************************)
(* Mutated forms.                                                          *)
(***************************************************************************)
\* The renderer's error is not looked at once its chunks are in the file.
Rendered_IgnoresRenderer == ~torn

\* One chunk more than the channel has room for.
HasRoom_OffByOne == sent - got <= Cap

\* The handler leaves at a failed write without draining the channel.
AfterBrokenWrite_Returns == "left"

\* The remote file is as the upload leaves it, which is not looked at.
Uploaded_Unchecked(there) == TRUE

-----------------------------------------------------------------------------
(***************************************************************************)
(* The goroutine of RenderStream.                                          *)
(***************************************************************************)
Closed  == producer \in {"ok", "failed"}       \* it closes the channel as it returns
Drained == Closed /\ got = sent

\* The child has written its file, or has exited with an error or been killed.
ChildExits ==
  /\ producer = "rendering"
  /\ \/ producer' = "streaming" /\ ~over
     \/ producer' = "failed"
  /\ UNCHANGED <<job, sent, got, over, stage, sound, torn, body, fileVars>>

\* There is room in the channel.
HasRoom == sent - got < Cap

SendChunk ==
  /\ producer = "streaming" /\ sent < Total /\ HasRoom
  /\ sent' = sent + 1
  /\ UNCHANGED <<job, producer, got, over, stage, sound, torn, body, fileVars>>

EndStream ==
  /\ producer = "streaming" /\ sent = Total
  /\ producer' = "ok"
  /\ UNCHANGED <<job, sent, got, over, stage, sound, torn, body, fileVars>>

\* A read fails, the output exceeds its limit, or the context is done: then
\* even a full channel does not hold the goroutine.
BreakStream ==
  /\ producer = "streaming"
  /\ producer' = "failed"
  /\ UNCHANGED <<job, sent, got, over, stage, sound, torn, body, fileVars>>

\* The render timeout, or the disconnect of the client.
Expire ==
  /\ ~over /\ producer # "idle" /\ stage \notin EndStages
  /\ over' = TRUE
  /\ UNCHANGED <<job, producer, sent, got, stage, sound, torn, body, fileVars>>

-----------------------------------------------------------------------------
(***************************************************************************)
(* soyaos agent invoke.                                                    *)
(***************************************************************************)
Enter(where) == stage' = where

\* A command that ends removes its temporary file and render directory.
End(where) == Enter(where) /\ tmp' = None /\ workDir' = FALSE

\* Nothing was torn: copyErr, renderErr and closeErr are nil.
Rendered == ~torn /\ producer = "ok"

\* requestAgentCompletion: the agent's answer is what is rendered.
Request ==
  /\ stage = "request"
  /\ Enter("start") \/ Enter("failed")
  /\ UNCHANGED <<job, pipeVars, sound, torn, body, fileVars>>

\* renderMP4Artifact up to the start of the renderer, or the checks fail.
StartMP4 ==
  /\ stage = "start" /\ job.kind = "mp4"
  /\ \/ /\ Enter("copy") /\ tmp' = 0 /\ workDir' = TRUE /\ producer' = "rendering"
     \/ End("failed") /\ UNCHANGED producer
  /\ UNCHANGED <<job, sent, got, over, sound, torn, body, out, export, nas, evidence>>

\* io.Copy takes a chunk and writes it.
CopyChunk ==
  /\ stage = "copy" /\ got < sent
  /\ got' = got + 1 /\ tmp' = tmp + 1
  /\ UNCHANGED <<job, producer, sent, over, stage, sound, torn, body, workDir, out, export,
                 nas, evidence>>

\* It takes a chunk and cannot write it; nobody reads the channel any more.
CopyFails ==
  /\ stage = "copy" /\ got < sent
  /\ got' = got + 1 /\ torn' = TRUE
  /\ Enter("wait")
  /\ UNCHANGED <<job, producer, sent, over, sound, body, fileVars>>

CopyEnds ==
  /\ stage = "copy" /\ Drained
  /\ Enter("wait")
  /\ UNCHANGED <<job, pipeVars, sound, torn, body, fileVars>>

\* The result of the goroutine is awaited whatever became of the copy; then the
\* temporary file is closed, which may fail as well.
AwaitRenderer ==
  /\ stage = "wait" /\ Closed
  /\ \/ Rendered /\ Enter("validate") /\ UNCHANGED <<tmp, workDir>>
     \/ End("failed")
  /\ UNCHANGED <<job, pipeVars, sound, torn, body, out, export, nas, evidence>>

\* validateMP4File.
ValidateMP4 ==
  /\ stage = "validate"
  /\ \/ sound /\ Enter("publish") /\ UNCHANGED <<tmp, workDir>>
     \/ End("failed")
  /\ UNCHANGED <<job, pipeVars, sound, torn, body, out, export, nas, evidence>>

\* renderXLSXArtifact: the response must parse, and have the rows asked for.
StartXLSX ==
  /\ stage = "start" /\ job.kind = "xlsx"
  /\ \/ sound /\ Enter("render") /\ tmp' = 0 /\ UNCHANGED workDir
     \/ End("failed")
  /\ UNCHANGED <<job, pipeVars, sound, torn, body, out, export, nas, evidence>>

\* XLSXRenderer writes the whole file, or fails somewhere in it.
RenderXLSX ==
  /\ stage = "render"
  /\ \/ tmp' = Total /\ Enter("publish") /\ UNCHANGED workDir
     \/ End("failed")
  /\ UNCHANGED <<job, pipeVars, sound, torn, body, out, export, nas, evidence>>

\* What is asked for of the stages that may follow.
Asked(where) == \/ where = "export" /\ job.export
                \/ where = "upload" /\ job.nas # "none"
                \/ where = "evidence" /\ job.evidence

\* On to the first of these stages that is asked for, or to the end.
Onward(stages) ==
  \/ (\A i \in DOMAIN stages : ~Asked(stages[i])) /\ End("done")
  \/ \E i \in DOMAIN stages :
       /\ Asked(stages[i]) /\ \A j \in 1..i - 1 : ~Asked(stages[j])
       /\ Enter(stages[i]) /\ tmp' = None /\ UNCHANGED workDir

\* The rename is the moment the artifact appears; the temporary file is gone.
Publish ==
  /\ stage = "publish"
  /\ \/ out' = tmp /\ Onward(<<"export", "upload", "evidence">>)
     \/ End("failed") /\ UNCHANGED out
  /\ UNCHANGED <<job, pipeVars, sound, torn, body, export, nas, evidence>>

\* copyPortableRemotionProject: nothing is taken back if it fails half-way.
Export ==
  /\ stage = "export"
  /\ \/ export' = Total /\ Onward(<<"upload", "evidence">>)
     \/ export' \in {None, 0} /\ End("failed")
  /\ UNCHANGED <<job, pipeVars, sound, torn, body, out, nas, evidence>>

\* What opening a NAS and writing to it may leave there when it fails: SMB
\* truncates the file, NFS removes it first, a WebDAV server may keep what it
\* received, an object of S3 appears as a whole.
SMBLeaves    == {Old} \cup 0..Total - 1
NFSLeaves    == {Old, None} \cup 0..Total - 1
WebDAVLeaves == {Old} \cup 0..Total
S3Leaves     == {Old, Total}

LeftBy(protocol) ==
  CASE protocol = "smb"    -> SMBLeaves
    [] protocol = "nfs"    -> NFSLeaves
    [] protocol = "webdav" -> WebDAVLeaves
    [] protocol = "s3"     -> S3Leaves

\* Write reports an error whenever less than the file has been acknowledged.
Uploaded(there) == there = Total

\* uploadArtifactToNAS, under the deadline of the render.
Upload ==
  /\ stage = "upload"
  /\ \E there \in LeftBy(job.nas) \cup {Total} :
       /\ nas' = there
       /\ \/ Uploaded(there) /\ ~over /\ Onward(<<"evidence">>)
          \/ End("failed")
  /\ UNCHANGED <<job, pipeVars, sound, torn, body, out, export, evidence>>

\* writeJSONAtomic: a temporary file and a rename of its own.
WriteEvidence ==
  /\ stage = "evidence"
  /\ \/ evidence' = got /\ End("done")
     \/ UNCHANGED evidence /\ End("failed")
  /\ UNCHANGED <<job, pipeVars, sound, torn, body, out, export, nas>>

\* The process is killed: its goroutine is gone, its files stay.
Kill ==
  /\ stage \in Command \cup Handler
  /\ Enter("killed") /\ producer' = IF Closed THEN producer ELSE "failed"
  /\ UNCHANGED <<job, sent, got, over, sound, torn, body, fileVars>>

-----------------------------------------------------------------------------
(***************************************************************************)
(* ServeStreamingArtifact.                                                 *)
(***************************************************************************)
\* Chunks before the offset are skipped, the others passed on.
ServeChunk ==
  /\ stage = "serve" /\ got < sent
  /\ got' = got + 1
  /\ body' = IF got' > job.skip THEN body + 1 ELSE body
  /\ UNCHANGED <<job, producer, sent, over, stage, sound, torn, fileVars>>

\* Where a failed write leads: the renderer is cancelled and drained.
AfterBrokenWrite == "drain"

ServeBreaks ==
  /\ stage = "serve" /\ got < sent /\ got + 1 > job.skip
  /\ got' = got + 1 /\ over' = TRUE
  /\ Enter(AfterBrokenWrite)
  /\ UNCHANGED <<job, producer, sent, sound, torn, body, fileVars>>

DrainChunk ==
  /\ stage = "drain" /\ got < sent
  /\ got' = got + 1
  /\ UNCHANGED <<job, producer, sent, over, stage, sound, torn, body, fileVars>>

\* The channel is closed: the handler returns, and a response that was not
\* broken ends like one that is whole.
ServeEnds ==
  /\ stage \in Handler /\ Drained
  /\ Enter(IF stage = "serve" THEN "complete" ELSE "left")
  /\ UNCHANGED <<job, pipeVars, sound, torn, body, fileVars>>

-----------------------------------------------------------------------------
DeliveryNext ==
  \/ ChildExits \/ SendChunk \/ EndStream \/ BreakStream \/ Expire
  \/ Request \/ StartMP4 \/ CopyChunk \/ CopyFails \/ CopyEnds \/ AwaitRenderer \/ ValidateMP4
  \/ StartXLSX \/ RenderXLSX
  \/ Publish \/ Export \/ Upload \/ WriteEvidence
  \/ ServeChunk \/ ServeBreaks \/ DrainChunk \/ ServeEnds
  \/ Kill

DeliverySpec == DeliveryInit /\ [][DeliveryNext]_deliveryVars

-----------------------------------------------------------------------------
\* The pipe, the stages and the files have their types.
DeliveryTypeOK ==
  /\ job \in Jobs /\ producer \in {"idle", "rendering", "streaming", "ok", "failed"}
  /\ got \in 0..sent /\ sent \in 0..Total /\ sent - got <= Cap
  /\ over \in BOOLEAN /\ stage \in Command \cup Handler \cup EndStages
  /\ sound \in BOOLEAN /\ torn \in BOOLEAN /\ workDir \in BOOLEAN
  /\ {tmp, out, export, nas, evidence} \subseteq {Old, None} \cup 0..Total
  /\ body \in 0..Total

\* Whatever fails, and whenever the process is killed, the output path holds the
\* file of before or a whole artifact that passed its check; and a command that
\* reports success has put everything that was asked for where it was asked for.
DeliveredIsWhole ==
  /\ out \in {Old, Total} /\ (out = Total => sound)
  /\ stage = "done" =>
       /\ out = Total
       /\ job.export => export = Total
       /\ job.nas # "none" => nas = out
       /\ job.evidence => evidence = out

\* Neither a command that ends nor a handler that returns leaves its renderer
\* running, and the command leaves no temporary file or directory.
NothingLeftBehind ==
  stage \in EndStages \ {"killed"} =>
    /\ producer = "idle" \/ Closed
    /\ tmp = None /\ ~workDir

\* Both.  Of an HTTP response nothing is claimed but that its renderer has ended:
\* the handler cannot tell the client that a body was cut short.
InvocationsEndWell == DeliveredIsWhole /\ NothingLeftBehind
=============================================================================
