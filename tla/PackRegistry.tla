---------------------------- MODULE PackRegistry ----------------------------
(***************************************************************************)
(* Deploying SoyaPacks and finding them again: control.handleDeployPack,   *)
(* kernel.RegisterFromPack and reloadDeployedPacks of `soyaos start`.      *)
(*                                                                         *)
(* A pack directory is a map from file names to the pack whose bytes the   *)
(* file holds.  A deploy replaces the directory (RemoveAll, then Rename or *)
(* a copy file by file) and registers the manifest it has in memory with   *)
(* the prompts it reads back from the directory.  HTTP requests do this    *)
(* concurrently and nothing locks the directory or the whole registration; *)
(* a process that starts registers the directories it finds, in directory  *)
(* order, before it serves requests.  A crash loses the kernel's registry  *)
(* and leaves the directories as they are.                                 *)
(***************************************************************************)
EXTENDS Naturals, Sequences, FiniteSets

CONSTANTS
  Deployers,    \* concurrent POST /control/v0/packs requests
  Boot,         \* the goroutine of cmdStart
  Packs,        \* uploads that pass sha256, Extract, LoadFromFile and Validate
  Slugs, Dirs,  \* expose.virtual_model_id; <name>-<version>
  Slug,         \* [Packs -> Slugs]
  Dir,          \* [Packs -> Dirs]
  ActionIds,    \* action ids, each also the name of its handler file
  Actions,      \* [Packs -> Seq(ActionIds)], manifest.actions
  Contents,     \* [Packs -> set of the file names in the archive]
  Schedules,    \* [Packs -> Seq(BOOLEAN)], does the schedule hook accept it?
  DirOrder,     \* Dirs in the order os.ReadDir lists them
  None, Torn,   \* no file; a file cut short
  MaxDeploys,   \* bound: deploys in a behaviour
  MaxCrashes    \* bound: crashes in a behaviour

FileNames == {"soyapack.yaml", "entry"} \cup ActionIds

ASSUME PacksAssumption ==
  /\ Boot \notin Deployers
  /\ None \notin Packs /\ Torn \notin Packs /\ None # Torn
  /\ Slug \in [Packs -> Slugs] /\ Dir \in [Packs -> Dirs]
  /\ Actions \in [Packs -> Seq(ActionIds)]
  /\ Schedules \in [Packs -> Seq(BOOLEAN)]
  /\ Contents \in [Packs -> SUBSET FileNames]
  /\ \A p \in Packs : "soyapack.yaml" \in Contents[p]
  /\ DirOrder \in Seq(Dirs) /\ \A d \in Dirs : \E i \in DOMAIN DirOrder : DirOrder[i] = d

VARIABLES
  disk,        \* [Dirs -> [FileNames -> whose bytes]]
  agents,      \* [Slugs -> [manifest, entry]], Kernel.agents
  handlers,    \* [Slugs -> [ActionIds -> whose prompt]], Kernel.packActions
  jobs,        \* [Slugs -> [schedule index -> whose prompt]], the time wheel
  proc,        \* [Procs -> registration in progress]
  toLoad,      \* the directories the start-up has not reached
  settled,     \* history: [Slugs -> pack], see Settle
  overlapped,  \* history: deployers another deploy got in the way of
  deploys, crashes   \* history: for the bounds

registry == <<agents, handlers, jobs>>
history  == <<settled, overlapped, deploys, crashes>>
vars     == <<disk, registry, proc, toLoad, history>>

-----------------------------------------------------------------------------
Procs    == Deployers \cup {Boot}
Bytes    == Packs \cup {None, Torn}
Stages   == {"idle", "remove", "promote", "copy", "fill",
             "load", "register", "actions", "schedules"}
JobIndex == UNION {DOMAIN Schedules[p] : p \in Packs}

Idle    == [at |-> "idle", pack |-> None, entry |-> None, left |-> {}, file |-> None, next |-> 1]
NoAgent == [manifest |-> None, entry |-> None]
Serving == toLoad = <<>> /\ proc[Boot].at = "idle"

\* The files of a directory that holds exactly the archive of p.
Archive(p) == [f \in FileNames |-> IF f \in Contents[p] THEN p ELSE None]
Empty      == [f \in FileNames |-> None]

\* The directory and the slug a registration works on.
DirOf(x)  == Dir[proc[x].pack]
SlugOf(x) == Slug[proc[x].pack]

\* Two deploys get in each other's way.
Clash(p, q) == Slug[p] = Slug[q] \/ Dir[p] = Dir[q]

Goto(x, stage) == proc' = [proc EXCEPT ![x].at = stage]

Init ==
  /\ disk     = [d \in Dirs |-> Empty]
  /\ agents   = [s \in Slugs |-> NoAgent]
  /\ handlers = [s \in Slugs |-> [a \in ActionIds |-> None]]
  /\ jobs     = [s \in Slugs |-> [i \in JobIndex |-> None]]
  /\ proc     = [x \in Procs |-> Idle]
  /\ toLoad   = <<>>
  /\ settled  = [s \in Slugs |-> None]
  /\ overlapped = {}
  /\ deploys = 0 /\ crashes = 0

\* A slug is settled on p when the last deploy that touched its name or its
\* directory was a deploy of p that answered 200 and met no other on its way.
Settle(x) ==
  settled' = IF x \in Deployers \ overlapped
             THEN [settled EXCEPT ![SlugOf(x)] = proc[x].pack] ELSE settled

\* A registration ends with an error: a deploy answers 4xx or 5xx, start-up
\* warns and goes on with the next directory.  Nothing is rolled back.
GiveUp(x) ==
  /\ proc' = [proc EXCEPT ![x] = Idle]
  /\ UNCHANGED <<disk, registry, toLoad, history>>

-----------------------------------------------------------------------------
(***************************************************************************)
(* Mutated forms: what an action would be after a plausible slip in the    *)
(* code.  No specification uses them; each shows that a property can fail. *)
(***************************************************************************)

\* The stale directory is not removed before the new one is promoted.
Removed_LeavesStale(d) ==
  /\ proc[d].at = "remove"
  /\ Goto(d, "promote")
  /\ UNCHANGED <<disk, registry, toLoad, history>>

\* Start-up stops at the first directory it cannot load.
BootNext_StopsAtBroken ==
  /\ proc[Boot].at = "idle" /\ toLoad # <<>>
  /\ IF disk[Head(toLoad)]["soyapack.yaml"] \in Packs
     THEN /\ toLoad' = Tail(toLoad)
          /\ proc' = [proc EXCEPT ![Boot] = [Idle EXCEPT !.at = "load",
                                   !.pack = disk[Head(toLoad)]["soyapack.yaml"]]]
     ELSE toLoad' = <<>> /\ UNCHANGED proc
  /\ UNCHANGED <<disk, registry, history>>

\* Start-up registers whatever the directory holds.
BootNext_Unchecked ==
  /\ proc[Boot].at = "idle" /\ toLoad # <<>>
  /\ toLoad' = Tail(toLoad)
  /\ proc' = [proc EXCEPT ![Boot] = [Idle EXCEPT !.at = "load",
                                        !.pack = disk[Head(toLoad)]["soyapack.yaml"]]]
  /\ UNCHANGED <<disk, registry, history>>

-----------------------------------------------------------------------------
(***************************************************************************)
(* handleDeployPack: from the staged, validated upload to the final        *)
(* directory.  An upload that is refused earlier changes nothing.          *)
(***************************************************************************)
Deploy(d, p) ==
  LET hindered == {e \in Deployers : proc[e].at # "idle" /\ Clash(p, proc[e].pack)} IN
  /\ Serving /\ proc[d].at = "idle" /\ deploys < MaxDeploys
  /\ deploys' = deploys + 1
  /\ proc'    = [proc EXCEPT ![d] = [Idle EXCEPT !.at = "remove", !.pack = p]]
  /\ overlapped' = (overlapped \ {d}) \cup hindered \cup (IF hindered = {} THEN {} ELSE {d})
  /\ settled' = [s \in Slugs |-> IF s = Slug[p] \/ (settled[s] # None /\ Clash(p, settled[s]))
                                 THEN None ELSE settled[s]]
  /\ UNCHANGED <<disk, registry, toLoad, crashes>>

\* os.RemoveAll(finalDir), one file at a time.
RemoveFile(d, f) ==
  /\ proc[d].at = "remove" /\ disk[DirOf(d)][f] # None
  /\ disk' = [disk EXCEPT ![DirOf(d)][f] = None]
  /\ UNCHANGED <<registry, proc, toLoad, history>>

Removed(d) ==
  /\ proc[d].at = "remove" /\ disk[DirOf(d)] = Empty
  /\ Goto(d, "promote")
  /\ UNCHANGED <<disk, registry, toLoad, history>>

\* os.Rename puts the staging directory in place; it needs the place free.
Rename(d) ==
  /\ proc[d].at = "promote" /\ disk[DirOf(d)] = Empty
  /\ disk' = [disk EXCEPT ![DirOf(d)] = Archive(proc[d].pack)]
  /\ Goto(d, "load")
  /\ UNCHANGED <<registry, toLoad, history>>

\* The place is taken or on another device: copyTree, file by file.
FallBackToCopy(d) ==
  /\ proc[d].at = "promote"
  /\ proc' = [proc EXCEPT ![d].at = "copy", ![d].left = Contents[proc[d].pack]]
  /\ UNCHANGED <<disk, registry, toLoad, history>>

\* OpenFile with O_TRUNC, then io.Copy.
CopyTruncates(d, f) ==
  /\ proc[d].at = "copy" /\ f \in proc[d].left
  /\ disk' = [disk EXCEPT ![DirOf(d)][f] = Torn]
  /\ proc' = [proc EXCEPT ![d].at = "fill", ![d].left = @ \ {f}, ![d].file = f]
  /\ UNCHANGED <<registry, toLoad, history>>

CopyFills(d) ==
  /\ proc[d].at = "fill"
  /\ disk' = [disk EXCEPT ![DirOf(d)][proc[d].file] = proc[d].pack]
  /\ proc' = [proc EXCEPT ![d].at = "copy", ![d].file = None]
  /\ UNCHANGED <<registry, toLoad, history>>

Copied(d) ==
  /\ proc[d].at = "copy" /\ proc[d].left = {}
  /\ Goto(d, "load")
  /\ UNCHANGED <<disk, registry, toLoad, history>>

\* The file system refuses one of the steps: the request answers 500.
DeployFails(d) == proc[d].at \in {"remove", "promote", "copy", "fill"} /\ GiveUp(d)

-----------------------------------------------------------------------------
(***************************************************************************)
(* reloadDeployedPacks.                                                    *)
(***************************************************************************)
Loadable(d) == disk[d]["soyapack.yaml"] \in Packs

\* The next directory, unless its manifest is absent or does not parse.
BootNext ==
  /\ proc[Boot].at = "idle" /\ toLoad # <<>>
  /\ toLoad' = Tail(toLoad)
  /\ proc' = IF Loadable(Head(toLoad))
             THEN [proc EXCEPT ![Boot] = [Idle EXCEPT !.at = "load",
                                            !.pack = disk[Head(toLoad)]["soyapack.yaml"]]]
             ELSE proc
  /\ UNCHANGED <<disk, registry, history>>

-----------------------------------------------------------------------------
(***************************************************************************)
(* registerFromPack.                                                       *)
(***************************************************************************)

\* loadPromptBodies reads the entry prompt from the directory.
LoadPrompts(x) ==
  /\ proc[x].at = "load"
  /\ disk[DirOf(x)]["entry"] # None
  /\ proc' = [proc EXCEPT ![x].at = "register", ![x].entry = disk[DirOf(x)]["entry"]]
  /\ UNCHANGED <<disk, registry, toLoad, history>>

PromptMissing(x) == /\ proc[x].at = "load" /\ disk[DirOf(x)]["entry"] = None
                    /\ GiveUp(x)

\* Kernel.Register: the agent is reachable from here on.
Register(x) ==
  /\ proc[x].at = "register"
  /\ agents' = [agents EXCEPT ![SlugOf(x)] =
                  [manifest |-> proc[x].pack, entry |-> proc[x].entry]]
  /\ Goto(x, "actions")
  /\ UNCHANGED <<disk, handlers, jobs, toLoad, history>>

NextAction(x) == Actions[proc[x].pack][proc[x].next]

\* registerPackActions, one declaration at a time.
WireAction(x) ==
  /\ proc[x].at = "actions" /\ proc[x].next <= Len(Actions[proc[x].pack])
  /\ LET prompt == disk[DirOf(x)][NextAction(x)] IN
       /\ prompt # None
       /\ handlers' = [handlers EXCEPT ![SlugOf(x)][NextAction(x)] = prompt]
  /\ proc' = [proc EXCEPT ![x].next = @ + 1]
  /\ UNCHANGED <<disk, agents, jobs, toLoad, history>>

ActionPromptMissing(x) ==
  /\ proc[x].at = "actions" /\ proc[x].next <= Len(Actions[proc[x].pack])
  /\ disk[DirOf(x)][NextAction(x)] = None
  /\ GiveUp(x)

ActionsWired(x) ==
  /\ proc[x].at = "actions" /\ proc[x].next > Len(Actions[proc[x].pack])
  /\ proc' = [proc EXCEPT ![x].at = "schedules", ![x].next = 1]
  /\ UNCHANGED <<disk, registry, toLoad, history>>

\* The schedule hook replaces job pack:<slug>:<i> of the wheel; one it refuses
\* (a once trigger, a malformed cron) is logged and leaves the job as it was.
WireSchedule(x) ==
  /\ proc[x].at = "schedules" /\ proc[x].next <= Len(Schedules[proc[x].pack])
  /\ jobs' = IF Schedules[proc[x].pack][proc[x].next]
             THEN [jobs EXCEPT ![SlugOf(x)][proc[x].next] = proc[x].entry] ELSE jobs
  /\ proc' = [proc EXCEPT ![x].next = @ + 1]
  /\ UNCHANGED <<disk, agents, handlers, toLoad, history>>

\* RegisterFromPack returns nil: a deploy answers 200.
Registered(x) ==
  /\ proc[x].at = "schedules" /\ proc[x].next > Len(Schedules[proc[x].pack])
  /\ Settle(x)
  /\ proc' = [proc EXCEPT ![x] = Idle]
  /\ UNCHANGED <<disk, registry, toLoad, overlapped, deploys, crashes>>

-----------------------------------------------------------------------------
\* The process dies and a new one starts.
Crash ==
  /\ crashes < MaxCrashes
  /\ crashes'  = crashes + 1
  /\ agents'   = [s \in Slugs |-> NoAgent]
  /\ handlers' = [s \in Slugs |-> [a \in ActionIds |-> None]]
  /\ jobs'     = [s \in Slugs |-> [i \in JobIndex |-> None]]
  /\ proc'     = [x \in Procs |-> Idle]
  /\ toLoad'   = DirOrder
  /\ UNCHANGED <<disk, settled, overlapped, deploys>>

DeployStep(d) ==
  \/ \E f \in FileNames : RemoveFile(d, f) \/ CopyTruncates(d, f)
  \/ Removed(d) \/ Rename(d) \/ FallBackToCopy(d) \/ CopyFills(d) \/ Copied(d)
  \/ DeployFails(d)

RegisterStep(x) ==
  \/ LoadPrompts(x) \/ PromptMissing(x) \/ Register(x)
  \/ WireAction(x) \/ ActionPromptMissing(x) \/ ActionsWired(x)
  \/ WireSchedule(x) \/ Registered(x)

Quiescent == /\ deploys = MaxDeploys /\ Serving
             /\ \A d \in Deployers : proc[d].at = "idle"
             /\ UNCHANGED vars

Next ==
  \/ \E d \in Deployers, p \in Packs : Deploy(d, p)
  \/ \E d \in Deployers : DeployStep(d)
  \/ \E x \in Procs : RegisterStep(x)
  \/ BootNext
  \/ Crash \/ Quiescent

Spec == Init /\ [][Next]_vars

-----------------------------------------------------------------------------
TypeOK ==
  /\ disk \in [Dirs -> [FileNames -> Bytes]]
  /\ agents \in [Slugs -> [manifest : Packs \cup {None}, entry : Bytes]]
  /\ handlers \in [Slugs -> [ActionIds -> Bytes]]
  /\ jobs \in [Slugs -> [JobIndex -> Bytes]]
  /\ proc \in [Procs -> [at : Stages, pack : Packs \cup {None}, entry : Bytes,
                         left : SUBSET FileNames, file : FileNames \cup {None}, next : Nat]]
  /\ \A x \in Procs : proc[x].at # "idle" => proc[x].pack \in Packs
  /\ settled \in [Slugs -> Packs \cup {None}]
  /\ overlapped \subseteq Deployers

\* "A clean swap rather than a half-merged sprawl": the directory of a settled
\* pack holds the files of its archive and no other, through any crash.
SettledPackIsOnDisk ==
  \A s \in Slugs : settled[s] # None => disk[Dir[settled[s]]] = Archive(settled[s])

\* Everything the kernel holds for slug s comes from pack p: the manifest, the
\* prompt, every declared action and every accepted schedule.
ServedFrom(s, p) ==
  /\ agents[s] = [manifest |-> p, entry |-> p]
  /\ \A i \in DOMAIN Actions[p] : handlers[s][Actions[p][i]] = p
  /\ \A i \in DOMAIN Schedules[p] : Schedules[p][i] => jobs[s][i] = p

\* No pack of another directory has the slug of p.
AloneWithItsSlug(p) == \A q \in Packs : Slug[q] = Slug[p] => Dir[q] = Dir[p]

\* A settled pack is what its slug serves, and still is after any number of
\* restarts, whatever other deploys failed, overlapped or were cut short.  The
\* guarantee is for packs whose slug lives in one directory only.
SettledPackIsServed ==
  \A s \in Slugs :
    Serving /\ settled[s] # None /\ AloneWithItsSlug(settled[s]) => ServedFrom(s, settled[s])

-----------------------------------------------------------------------------
\* What the source says and the code does not do: "`soyaos start` is idempotent:
\* a Pack that was deployed via POST /control/v0/packs in a prior process is
\* still wired up after a restart" (cmd/soyaos/main.go:212).  Even when no
\* deploy ever left a directory half-written, the version that sorts last wins.
RestartServesWhatWasDeployed ==
  (\A d \in Dirs : disk[d] = Empty \/ \E p \in Packs : disk[d] = Archive(p)) =>
    \A s \in Slugs : Serving /\ settled[s] # None => ServedFrom(s, settled[s])

=============================================================================
