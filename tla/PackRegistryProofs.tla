--------------------------- MODULE PackRegistryProofs ---------------------------
(***************************************************************************)
(* Proofs about PackRegistry, for any Packs, directories and requests.     *)
(*                                                                         *)
(* A deploy that nobody got in the way of is alone with its directory and  *)
(* its slug, so what it has done so far is still there: that is Work.  The *)
(* start-up is alone with everything, and for a directory that holds a     *)
(* whole archive it does the same work.  A settled Pack therefore is on    *)
(* disk, and in a process that serves it has been registered whole, by its *)
(* deploy or by the start-up.                                              *)
(***************************************************************************)
EXTENDS PackRegistry, TLAPS

Active(x) == proc[x].at # "idle"
Loading == {"load", "register", "actions", "schedules"}

ProcType == [at : Stages, pack : Packs \cup {None}, entry : Bytes,
             left : SUBSET FileNames, file : FileNames \cup {None}, next : Nat]

\* The start-up works alone, and the Packs it reads are where they belong.
Places ==
  /\ Serving \/ \A d \in Deployers : ~Active(d)
  /\ Active(Boot) => proc[Boot].at \in Loading
  /\ Active(Boot) => disk[DirOf(Boot)]["soyapack.yaml"] = proc[Boot].pack
  /\ \A d \in Dirs, f \in FileNames : disk[d][f] \in Packs => Dir[disk[d][f]] = d
  /\ \A i \in DOMAIN toLoad : toLoad[i] \in Dirs
  /\ toLoad \in Seq(Dirs)

\* Nobody gets in the way of a deploy that is not marked, nor of a settled Pack.
Apart ==
  /\ \A x \in Deployers \ overlapped, e \in Deployers :
       Active(x) /\ Active(e) /\ x # e => ~Clash(proc[x].pack, proc[e].pack)
  /\ \A s \in Slugs : settled[s] # None =>
       /\ Slug[settled[s]] = s
       /\ \A e \in Deployers : Active(e) => ~Clash(proc[e].pack, settled[s])

\* The files of p that have been written when those of left have not.
Written(p, left) == [f \in FileNames |-> IF f \in Contents[p] \ left THEN p ELSE None]

\* How far the registration k has come with the files, the agent, the handlers
\* and the jobs of its directory and its slug.
Wired(p, i, wired) == wired[Actions[p][i]] = p /\ Actions[p][i] \in Contents[p]

Done(k, dir, agent, wired, job) ==
  LET p == k.pack IN
  /\ k.at = "promote" => dir = Empty
  /\ k.at = "copy" => dir = Written(p, k.left) /\ k.left \subseteq Contents[p]
  /\ k.at = "fill" => /\ k.left \subseteq Contents[p] /\ k.file \in Contents[p] \ k.left
                      /\ \A f \in FileNames \ {k.file} : dir[f] = Written(p, k.left)[f]
  /\ k.at \in Loading => dir = Archive(p)
  /\ k.at \in Loading \ {"load"} => k.entry = p /\ "entry" \in Contents[p]
  /\ k.at \in {"actions", "schedules"} => agent = [manifest |-> p, entry |-> p]
  /\ k.at = "actions" => \A i \in DOMAIN Actions[p] : i < k.next => Wired(p, i, wired)
  /\ k.at = "schedules" =>
       /\ \A i \in DOMAIN Actions[p] : Wired(p, i, wired)
       /\ \A i \in DOMAIN Schedules[p] : i < k.next /\ Schedules[p][i] => job[i] = p

Work(x) == Done(proc[x], disk[DirOf(x)], agents[SlugOf(x)], handlers[SlugOf(x)], jobs[SlugOf(x)])

Clean(x) == IF x = Boot THEN disk[DirOf(Boot)] = Archive(proc[Boot].pack) ELSE x \notin overlapped

Worked == \A x \in Procs : Active(x) /\ Clean(x) => Work(x)

\* A Pack whose deploy answered 200 has its prompts in its archive.
Complete(p) == "entry" \in Contents[p] /\ \A i \in DOMAIN Actions[p] : Actions[p][i] \in Contents[p]

Settled(s) ==
  settled[s] # None =>
    /\ disk[Dir[settled[s]]] = Archive(settled[s])
    /\ Complete(settled[s])
    /\ AloneWithItsSlug(settled[s]) =>
         \/ \E i \in DOMAIN toLoad : toLoad[i] = Dir[settled[s]]
         \/ Active(Boot) /\ proc[Boot].pack = settled[s]
         \/ ServedFrom(s, settled[s])

\* A registration that has not come to the actions counts from the first.
Fresh ==
  \A x \in Procs :
    proc[x].next # 0 /\ (proc[x].at \notin {"actions", "schedules"} => proc[x].next = 1)

IInv == TypeOK /\ Places /\ Apart /\ Worked /\ \A s \in Slugs : Settled(s)

-----------------------------------------------------------------------------
LEMMA PacksTypes ==
  /\ Boot \notin Deployers /\ None \notin Packs /\ Torn \notin Packs /\ None # Torn
  /\ \A p \in Packs : /\ Slug[p] \in Slugs /\ Dir[p] \in Dirs /\ Contents[p] \in SUBSET FileNames
                      /\ "soyapack.yaml" \in Contents[p]
                      /\ Len(Actions[p]) \in Nat /\ DOMAIN Actions[p] = 1..Len(Actions[p])
                      /\ \A i \in DOMAIN Actions[p] : Actions[p][i] \in ActionIds
                      /\ Len(Schedules[p]) \in Nat /\ DOMAIN Schedules[p] = 1..Len(Schedules[p])
                      /\ \A i \in DOMAIN Schedules[p] : i \in JobIndex /\ Schedules[p][i] \in BOOLEAN
<1>1. /\ Boot \notin Deployers /\ None \notin Packs /\ Torn \notin Packs /\ None # Torn
      /\ Slug \in [Packs -> Slugs] /\ Dir \in [Packs -> Dirs]
      /\ Contents \in [Packs -> SUBSET FileNames]
      /\ \A p \in Packs : "soyapack.yaml" \in Contents[p]
      /\ Actions \in [Packs -> Seq(ActionIds)] /\ Schedules \in [Packs -> Seq(BOOLEAN)]
  BY PacksAssumption
<1>2. ASSUME NEW p \in Packs
      PROVE  /\ Len(Actions[p]) \in Nat /\ DOMAIN Actions[p] = 1..Len(Actions[p])
             /\ \A i \in DOMAIN Actions[p] : Actions[p][i] \in ActionIds
  <2>1. Actions[p] \in Seq(ActionIds)
    BY <1>1
  <2> QED BY <2>1
<1>3. ASSUME NEW p \in Packs
      PROVE  /\ Len(Schedules[p]) \in Nat /\ DOMAIN Schedules[p] = 1..Len(Schedules[p])
             /\ \A i \in DOMAIN Schedules[p] : Schedules[p][i] \in BOOLEAN
  <2>1. Schedules[p] \in Seq(BOOLEAN)
    BY <1>1
  <2> QED BY <2>1
<1>4. \A p \in Packs : \A i \in DOMAIN Schedules[p] : i \in JobIndex
  BY DEF JobIndex
<1> QED BY <1>1, <1>2, <1>3, <1>4

LEMMA NamesTypes == "soyapack.yaml" \in FileNames /\ "entry" \in FileNames /\ ActionIds \subseteq FileNames
BY DEF FileNames

LEMMA IdleType == Idle \in ProcType /\ Idle.at = "idle"
BY DEF Idle, ProcType, Stages, Bytes

\* A registration in progress works on a Pack.
LEMMA ActiveTypes ==
  ASSUME TypeOK, NEW x \in Procs
  PROVE  /\ proc[x] \in ProcType
         /\ Active(x) => /\ proc[x].pack \in Packs /\ DirOf(x) \in Dirs /\ SlugOf(x) \in Slugs
BY PacksTypes DEF TypeOK, ProcType, Active, DirOf, SlugOf

LEMMA InitIInv == Init => IInv
<1> SUFFICES ASSUME Init PROVE IInv
  OBVIOUS
<1>1. TypeOK
  <2>1. Empty \in [FileNames -> Bytes] /\ NoAgent \in [manifest : Packs \cup {None}, entry : Bytes]
    BY DEF Empty, NoAgent, Bytes
  <2> QED BY <2>1, IdleType DEF Init, TypeOK, ProcType, Bytes
<1>2. Places
  <2>1. \A d \in Dirs, f \in FileNames : disk[d][f] = None
    BY DEF Init, Empty
  <2>2. \A x \in Procs : ~Active(x)
    BY IdleType DEF Init, Active
  <2>3. toLoad = <<>> /\ <<>> \in Seq(Dirs) /\ DOMAIN <<>> = {}
    BY DEF Init
  <2> QED BY <2>1, <2>2, <2>3, PacksTypes DEF Places, Serving, Procs, Active
<1>3. Apart /\ Worked /\ \A s \in Slugs : Settled(s)
  <2>1. (\A x \in Procs : ~Active(x)) /\ \A s \in Slugs : settled[s] = None
    BY IdleType DEF Init, Active
  <2> QED BY <2>1 DEF Apart, Worked, Settled, Procs
<1> QED BY <1>1, <1>2, <1>3 DEF IInv

-----------------------------------------------------------------------------
\* What every step of a registration keeps to: its own entry of proc, its own
\* directory, into which only bytes of its Pack go, and its own slug.
StepOf(x, k) ==
  /\ proc' = [proc EXCEPT ![x] = k] /\ k \in ProcType
  /\ k.at # "idle" => k.pack = proc[x].pack
  /\ x = Boot => k.at \in Loading \cup {"idle"}
  /\ toLoad' = toLoad /\ overlapped' = overlapped /\ settled' = settled
  /\ disk' \in [Dirs -> [FileNames -> Bytes]]
  /\ agents' \in [Slugs -> [manifest : Packs \cup {None}, entry : Bytes]]
  /\ handlers' \in [Slugs -> [ActionIds -> Bytes]]
  /\ jobs' \in [Slugs -> [JobIndex -> Bytes]]
  /\ \A d \in Dirs \ {DirOf(x)} : disk'[d] = disk[d]
  /\ proc[x].at \in Loading => disk' = disk
  /\ \A f \in FileNames : disk'[DirOf(x)][f] \in {None, Torn, proc[x].pack, disk[DirOf(x)][f]}
  /\ \A s \in Slugs \ {SlugOf(x)} :
       agents'[s] = agents[s] /\ handlers'[s] = handlers[s] /\ jobs'[s] = jobs[s]

\* The start-up and a deploy never work at the same time.
LEMMA BootWorksAlone ==
  ASSUME IInv, NEW d \in Deployers, Active(d)
  PROVE  toLoad = <<>> /\ ~Active(Boot) /\ d # Boot /\ d \in Procs /\ Boot \in Procs
BY PacksTypes DEF IInv, Places, Serving, Active, Procs

\* Work is kept by whoever leaves its directory and its slug alone.
LEMMA WorkKept ==
  ASSUME NEW y \in Procs, Work(y), proc'[y] = proc[y], disk'[DirOf(y)] = disk[DirOf(y)],
         agents'[SlugOf(y)] = agents[SlugOf(y)], handlers'[SlugOf(y)] = handlers[SlugOf(y)],
         jobs'[SlugOf(y)] = jobs[SlugOf(y)]
  PROVE  Work(y)'
BY DEF Work, DirOf, SlugOf

\* What makes a slug settled after a step.
LEMMA SettledNext ==
  ASSUME NEW s, NEW p, settled'[s] = p, disk'[Dir[p]] = Archive(p), Complete(p),
         AloneWithItsSlug(p) =>
            \/ \E i \in DOMAIN toLoad' : toLoad'[i] = Dir[p]
            \/ Active(Boot)' /\ proc'[Boot].pack = p
            \/ ServedFrom(s, p)'
  PROVE  Settled(s)'
BY DEF Settled, ServedFrom

LEMMA StepKeepsIInv ==
  ASSUME IInv, NEW x \in Procs, Active(x), NEW k, StepOf(x, k),
         Clean(x)' /\ k.at # "idle" => Work(x)',
         x = Boot /\ k.at = "idle" =>
           \A s \in Slugs, p \in Packs : settled[s] = p /\ proc[Boot].pack = p => ServedFrom(s, p)'
  PROVE  IInv'
<1> USE DEF IInv
<1>1. /\ proc[x] \in ProcType /\ proc[x].pack \in Packs /\ DirOf(x) \in Dirs /\ SlugOf(x) \in Slugs
      /\ Boot \in Procs /\ Deployers \subseteq Procs /\ Boot \notin Deployers
  BY ActiveTypes, PacksTypes DEF Procs
<1>2. proc \in [Procs -> ProcType] /\ proc'[x] = k /\ \A y \in Procs \ {x} : proc'[y] = proc[y]
  BY DEF TypeOK, ProcType, StepOf
<1>3. x \in Deployers \/ x = Boot
  BY DEF Procs
<1>4. TypeOK'
  <2>1. proc' \in [Procs -> ProcType]
    BY <1>2 DEF StepOf
  <2>2. \A y \in Procs : proc'[y].at # "idle" => proc'[y].pack \in Packs
    BY <1>1, <1>2 DEF StepOf, TypeOK
  <2> QED BY <2>1, <2>2 DEF TypeOK, StepOf, ProcType
<1>5. Places'
  <2>1. Serving' \/ \A d \in Deployers : ~Active(d)'
    <3>1. CASE x \in Deployers
      <4>1. toLoad = <<>> /\ ~Active(Boot) /\ x # Boot
        BY <3>1, BootWorksAlone
      <4> QED BY <4>1, <1>1, <1>2 DEF Serving, StepOf, Active
    <3>2. CASE x = Boot
      <4>1. \A d \in Deployers : ~Active(d)
        BY <3>2 DEF Places, Serving, Active
      <4> QED BY <4>1, <3>2, <1>1, <1>2 DEF Active
    <3> QED BY <1>3, <3>1, <3>2
  <2>2. Active(Boot)' => /\ proc'[Boot].at \in Loading
                         /\ disk'[Dir[proc'[Boot].pack]]["soyapack.yaml"] = proc'[Boot].pack
    <3>1. CASE x \in Deployers
      BY <3>1, <1>1, <1>2, BootWorksAlone DEF Active
    <3>2. CASE x = Boot
      BY <3>2, <1>2 DEF Places, StepOf, Active, DirOf
    <3> QED BY <1>3, <3>1, <3>2
  <2>3. \A d \in Dirs, f \in FileNames : disk'[d][f] \in Packs => Dir[disk'[d][f]] = d
    <3> SUFFICES ASSUME NEW d \in Dirs, NEW f \in FileNames, disk'[d][f] \in Packs
                 PROVE  Dir[disk'[d][f]] = d
      OBVIOUS
    <3>1. CASE d = DirOf(x)
      <4>1. Dir[proc[x].pack] = d
        BY <3>1 DEF DirOf
      <4>2. disk'[d][f] \in {proc[x].pack, disk[d][f]}
        BY <3>1, PacksTypes DEF StepOf
      <4> QED BY <4>1, <4>2 DEF Places
    <3>2. CASE d # DirOf(x)
      BY <3>2 DEF StepOf, Places
    <3> QED BY <3>1, <3>2
  <2> QED BY <2>1, <2>2, <2>3 DEF Places, StepOf, DirOf
<1>6. \A y \in Procs : Active(y)' => Active(y) /\ proc'[y].pack = proc[y].pack
  BY <1>2 DEF StepOf, Active
<1>7. Apart'
  BY <1>6, <1>1 DEF Apart, StepOf
<1>8. Worked'
  <2> SUFFICES ASSUME NEW y \in Procs, Active(y)', Clean(y)' PROVE Work(y)'
    BY DEF Worked
  <2>1. CASE y = x
    BY <2>1, <1>2 DEF Active
  <2>2. CASE y # x
    <3>1. Active(y) /\ proc'[y] = proc[y]
      BY <2>2, <1>2, <1>6
    <3>2. x \in Deployers /\ y \in Deployers
      BY <2>2, <3>1, <1>3, BootWorksAlone DEF Procs
    <3>3. Clean(y) /\ y \notin overlapped
      BY <3>2, <1>1 DEF Clean, StepOf
    <3>4. ~Clash(proc[y].pack, proc[x].pack)
      BY <3>1, <3>2, <3>3, <2>2 DEF Apart
    <3>5. DirOf(y) \in Dirs /\ SlugOf(y) \in Slugs /\ DirOf(y) # DirOf(x) /\ SlugOf(y) # SlugOf(x)
      BY <3>1, <3>4, ActiveTypes DEF Clash, DirOf, SlugOf
    <3>6. Work(y)
      BY <3>1, <3>3 DEF Worked
    <3> QED BY <3>1, <3>5, <3>6, WorkKept DEF StepOf
  <2> QED BY <2>1, <2>2
<1>9. ASSUME NEW s \in Slugs PROVE Settled(s)'
  <2> SUFFICES ASSUME settled[s] # None PROVE Settled(s)'
    BY DEF Settled, StepOf
  <2>0. PICK p \in Packs : p = settled[s]
    BY DEF TypeOK
  <2>1. p \in Packs /\ Slug[p] = s /\ Dir[p] \in Dirs /\ settled'[s] = p
    BY <2>0, PacksTypes DEF TypeOK, Apart, StepOf
  <2>2. disk[Dir[p]] = Archive(p) /\ Complete(p)
    BY <2>0 DEF Settled
  <2>3. CASE x \in Deployers
    <3>1. ~Clash(proc[x].pack, settled[s])
      BY <2>3 DEF Apart
    <3>2. Dir[p] # DirOf(x) /\ s # SlugOf(x)
      BY <2>0, <3>1, <2>1 DEF Clash, DirOf, SlugOf
    <3>3. disk'[Dir[p]] = Archive(p)
      BY <3>2, <2>1, <2>2 DEF StepOf
    <3>4. toLoad = <<>> /\ ~Active(Boot) /\ toLoad' = toLoad
      BY <2>3, BootWorksAlone DEF StepOf
    <3>5. AloneWithItsSlug(p) => ServedFrom(s, p)
      BY <2>0, <3>4 DEF Settled
    <3>6. ServedFrom(s, p) => ServedFrom(s, p)'
      BY <3>2, <2>1 DEF ServedFrom, StepOf
    <3> QED BY <2>1, <2>2, <3>3, <3>5, <3>6, SettledNext
  <2>4. CASE x = Boot
    <3>1. disk' = disk /\ toLoad' = toLoad
      BY <2>4 DEF Places, StepOf
    <3>2. ASSUME SlugOf(x) # s, AloneWithItsSlug(p)
          PROVE  (\E i \in DOMAIN toLoad : toLoad[i] = Dir[p]) \/ ServedFrom(s, p)'
      <4>1. proc[Boot].pack # p
        BY <3>2, <2>1, <2>4 DEF SlugOf
      <4>2. (\E i \in DOMAIN toLoad : toLoad[i] = Dir[p]) \/ ServedFrom(s, p)
        BY <2>0, <3>2, <4>1 DEF Settled
      <4>3. ServedFrom(s, p) => ServedFrom(s, p)'
        BY <3>2 DEF ServedFrom, StepOf
      <4> QED BY <4>2, <4>3
    <3>3. ASSUME SlugOf(x) = s, AloneWithItsSlug(p)
          PROVE  (Active(Boot)' /\ proc'[Boot].pack = p) \/ ServedFrom(s, p)'
      <4>1. DirOf(x) = Dir[p]
        BY <3>3, <2>1, <1>1 DEF AloneWithItsSlug, SlugOf, DirOf
      <4>2. Archive(p)["soyapack.yaml"] = p
        BY <2>1, PacksTypes, NamesTypes DEF Archive
      <4>3. proc[Boot].pack = p
        BY <4>1, <4>2, <2>2, <2>4 DEF Places
      <4>4. CASE k.at # "idle"
        BY <4>3, <4>4, <1>2, <2>4 DEF Active, StepOf
      <4>5. CASE k.at = "idle"
        BY <2>0, <4>3, <4>5, <2>4
      <4> QED BY <4>4, <4>5
    <3>4. AloneWithItsSlug(p) =>
            \/ \E i \in DOMAIN toLoad' : toLoad'[i] = Dir[p]
            \/ Active(Boot)' /\ proc'[Boot].pack = p
            \/ ServedFrom(s, p)'
      BY <3>1, <3>2, <3>3
    <3> QED BY <2>1, <2>2, <3>1, <3>4, SettledNext
  <2> QED BY <1>3, <2>3, <2>4
<1> QED BY <1>4, <1>5, <1>7, <1>8, <1>9

-----------------------------------------------------------------------------
\* A step that changes proc[x] only.
LEMMA OnlyProc ==
  ASSUME IInv, NEW x \in Procs, Active(x), NEW k \in ProcType,
         proc' = [proc EXCEPT ![x] = k],
         k.at # "idle" => k.pack = proc[x].pack,
         x = Boot => k.at \in Loading \cup {"idle"},
         UNCHANGED <<disk, registry, toLoad, overlapped, settled>>
  PROVE  StepOf(x, k)
BY DEF StepOf, IInv, TypeOK, registry

\* A step that changes proc[x] and files of its directory, which is a deploy's.
LEMMA OnlyDisk ==
  ASSUME IInv, NEW x \in Deployers, Active(x), NEW k \in ProcType, NEW dir,
         proc[x].at \notin Loading, proc' = [proc EXCEPT ![x] = k],
         k.at # "idle" => k.pack = proc[x].pack,
         \A f \in FileNames : dir[f] \in {None, Torn, proc[x].pack, disk[DirOf(x)][f]},
         dir \in [FileNames -> Bytes],
         disk' = [disk EXCEPT ![DirOf(x)] = dir],
         UNCHANGED <<registry, toLoad, overlapped, settled>>
  PROVE  StepOf(x, k) /\ disk'[DirOf(x)] = dir
<1>1. x \in Procs /\ x # Boot /\ DirOf(x) \in Dirs
  BY ActiveTypes, PacksTypes DEF Procs, IInv
<1>2. disk \in [Dirs -> [FileNames -> Bytes]]
  BY DEF IInv, TypeOK
<1>3. disk'[DirOf(x)] = dir
  BY <1>1, <1>2
<1> QED BY <1>1, <1>2, <1>3 DEF StepOf, IInv, TypeOK, registry

\* What a deploy has done, as the steps below use it.
LEMMA WorkOf ==
  ASSUME IInv, NEW x \in Procs, Active(x), Clean(x)
  PROVE  Done(proc[x], disk[DirOf(x)], agents[SlugOf(x)], handlers[SlugOf(x)], jobs[SlugOf(x)])
BY DEF IInv, Worked, Work

LEMMA RemoveFileIInv ==
  ASSUME IInv, NEW d \in Deployers, NEW f \in FileNames, RemoveFile(d, f)
  PROVE  IInv'
<1> DEFINE k == proc[d]
           dir == [disk[DirOf(d)] EXCEPT ![f] = None]
<1>1. Active(d) /\ d \in Procs /\ k \in ProcType /\ DirOf(d) \in Dirs /\ k.at = "remove" /\ d # Boot
  BY ActiveTypes, PacksTypes DEF RemoveFile, Active, Procs, IInv
<1>2. dir \in [FileNames -> Bytes]
  BY <1>1, PacksTypes DEF IInv, TypeOK, Bytes
<1>3. \A g \in FileNames : dir[g] \in {None, Torn, proc[d].pack, disk[DirOf(d)][g]}
  BY <1>1 DEF IInv, TypeOK
<1>4. disk' = [disk EXCEPT ![DirOf(d)] = dir] /\ proc' = [proc EXCEPT ![d] = k]
  BY <1>1 DEF RemoveFile, IInv, TypeOK
<1>5. StepOf(d, k)
  <2> HIDE DEF k, dir
  <2>1. proc[d].at \notin Loading /\ k.pack = proc[d].pack
    BY <1>1 DEF k, Loading
  <2>2. UNCHANGED <<registry, toLoad, overlapped, settled>>
    BY DEF RemoveFile, history
  <2> QED BY <1>1, <1>2, <1>3, <1>4, <2>1, <2>2, OnlyDisk
<1>6. Work(d)'
  BY <1>1, <1>4 DEF Work, Done, Loading, RemoveFile
<1> QED BY <1>1, <1>5, <1>6, StepKeepsIInv

\* A step of a deploy that leaves the directory alone and takes it to k.
LEMMA DeployMovesIInv ==
  ASSUME IInv, NEW d \in Deployers, Active(d), NEW k \in ProcType,
         proc' = [proc EXCEPT ![d] = k],
         k.at # "idle" => k.pack = proc[d].pack,
         UNCHANGED <<disk, registry, toLoad, overlapped, settled>>,
         Clean(d) /\ k.at # "idle" =>
           Done(k, disk[DirOf(d)], agents[SlugOf(d)], handlers[SlugOf(d)], jobs[SlugOf(d)])
  PROVE  IInv'
<1>1. d \in Procs /\ d # Boot /\ proc'[d] = k
  BY PacksTypes DEF Procs, IInv, TypeOK
<1>2. StepOf(d, k)
  BY <1>1, OnlyProc
<1>3. Clean(d)' /\ k.at # "idle" => Work(d)'
  BY <1>1 DEF Clean, Work, DirOf, SlugOf, registry
<1> QED BY <1>1, <1>2, <1>3, StepKeepsIInv

\* A step of a deploy that makes dir of its directory and takes it to k.
LEMMA DeployWritesIInv ==
  ASSUME IInv, NEW d \in Deployers, Active(d), NEW k \in ProcType, NEW dir,
         proc[d].at \notin Loading, proc' = [proc EXCEPT ![d] = k], k.pack = proc[d].pack,
         \A f \in FileNames : dir[f] \in {None, Torn, proc[d].pack, disk[DirOf(d)][f]},
         dir \in [FileNames -> Bytes],
         disk' = [disk EXCEPT ![DirOf(d)] = dir],
         UNCHANGED <<registry, toLoad, overlapped, settled>>,
         Clean(d) => Done(k, dir, agents[SlugOf(d)], handlers[SlugOf(d)], jobs[SlugOf(d)])
  PROVE  IInv'
<1>1. d \in Procs /\ d # Boot /\ proc'[d] = k
  BY PacksTypes DEF Procs, IInv, TypeOK
<1>2. StepOf(d, k) /\ disk'[DirOf(d)] = dir
  BY <1>1, OnlyDisk
<1>3. Clean(d)' => Work(d)'
  BY <1>1, <1>2 DEF Clean, Work, DirOf, SlugOf, registry, StepOf
<1> QED BY <1>1, <1>2, <1>3, StepKeepsIInv

LEMMA RemovedIInv ==
  ASSUME IInv, NEW d \in Deployers, Removed(d)
  PROVE  IInv'
<1> DEFINE k == [proc[d] EXCEPT !.at = "promote"]
<1>1. Active(d) /\ proc[d] \in ProcType
  BY ActiveTypes DEF Removed, Active, Procs, IInv
<1>2. k \in ProcType /\ k.at = "promote" /\ k.pack = proc[d].pack
  BY <1>1 DEF ProcType, Stages
<1>3. proc' = [proc EXCEPT ![d] = k]
  BY DEF Removed, Goto
<1>4. Done(k, disk[DirOf(d)], agents[SlugOf(d)], handlers[SlugOf(d)], jobs[SlugOf(d)])
  BY <1>2 DEF Done, Removed, Loading
<1>5. UNCHANGED <<disk, registry, toLoad, overlapped, settled>>
  BY DEF Removed, history
<1> HIDE DEF k
<1> QED BY <1>1, <1>2, <1>3, <1>4, <1>5, DeployMovesIInv

LEMMA RenameIInv ==
  ASSUME IInv, NEW d \in Deployers, Rename(d)
  PROVE  IInv'
<1> DEFINE k   == [proc[d] EXCEPT !.at = "load"]
           dir == Archive(proc[d].pack)
<1>1. Active(d) /\ proc[d] \in ProcType /\ proc[d].pack \in Packs
  BY ActiveTypes DEF Rename, Active, Procs, IInv
<1>2. k \in ProcType /\ k.at = "load" /\ k.pack = proc[d].pack
  BY <1>1 DEF ProcType, Stages
<1>3. proc' = [proc EXCEPT ![d] = k] /\ disk' = [disk EXCEPT ![DirOf(d)] = dir]
  BY DEF Rename, Goto
<1>4. /\ \A f \in FileNames : dir[f] \in {None, Torn, proc[d].pack, disk[DirOf(d)][f]}
      /\ dir \in [FileNames -> Bytes]
  BY <1>1 DEF Archive, Bytes
<1>5. Done(k, dir, agents[SlugOf(d)], handlers[SlugOf(d)], jobs[SlugOf(d)])
  BY <1>2 DEF Done, Loading
<1>6. proc[d].at \notin Loading /\ UNCHANGED <<registry, toLoad, overlapped, settled>>
  BY DEF Rename, history, Loading
<1> HIDE DEF k, dir
<1> QED BY <1>1, <1>2, <1>3, <1>4, <1>5, <1>6, DeployWritesIInv

LEMMA FallBackToCopyIInv ==
  ASSUME IInv, NEW d \in Deployers, FallBackToCopy(d)
  PROVE  IInv'
<1> DEFINE k == [proc[d] EXCEPT !.at = "copy", !.left = Contents[proc[d].pack]]
<1>1. Active(d) /\ d \in Procs /\ proc[d] \in ProcType /\ proc[d].pack \in Packs
  BY ActiveTypes DEF FallBackToCopy, Active, Procs, IInv
<1>2. /\ k \in ProcType /\ k.at = "copy" /\ k.pack = proc[d].pack
      /\ k.left = Contents[proc[d].pack]
  BY <1>1, PacksTypes DEF ProcType, Stages
<1>3. proc' = [proc EXCEPT ![d] = k]
  BY <1>1 DEF FallBackToCopy, IInv, TypeOK
<1>4. Clean(d) =>
        Done(k, disk[DirOf(d)], agents[SlugOf(d)], handlers[SlugOf(d)], jobs[SlugOf(d)])
  <2>1. Clean(d) => disk[DirOf(d)] = Empty
    BY <1>1, WorkOf DEF Done, FallBackToCopy
  <2>2. Written(k.pack, k.left) = Empty
    BY <1>2 DEF Written, Empty
  <2> HIDE DEF k
  <2> QED BY <1>2, <2>1, <2>2 DEF Done, Loading
<1>5. UNCHANGED <<disk, registry, toLoad, overlapped, settled>>
  BY DEF FallBackToCopy, history
<1> HIDE DEF k
<1> QED BY <1>1, <1>2, <1>3, <1>4, <1>5, DeployMovesIInv

LEMMA CopyTruncatesIInv ==
  ASSUME IInv, NEW d \in Deployers, NEW f \in FileNames, CopyTruncates(d, f)
  PROVE  IInv'
<1> DEFINE k   == [proc[d] EXCEPT !.at = "fill", !.left = @ \ {f}, !.file = f]
           dir == [disk[DirOf(d)] EXCEPT ![f] = Torn]
           p   == proc[d].pack
<1>1. /\ Active(d) /\ d \in Procs /\ proc[d] \in ProcType /\ p \in Packs /\ DirOf(d) \in Dirs
      /\ disk[DirOf(d)] \in [FileNames -> Bytes]
  BY ActiveTypes DEF CopyTruncates, Active, Procs, IInv, TypeOK
<1>2. /\ k \in ProcType /\ k.at = "fill" /\ k.pack = p
      /\ k.left = proc[d].left \ {f} /\ k.file = f
  BY <1>1 DEF ProcType, Stages
<1>3. proc' = [proc EXCEPT ![d] = k] /\ disk' = [disk EXCEPT ![DirOf(d)] = dir]
  BY <1>1 DEF CopyTruncates, IInv, TypeOK
<1>4. /\ \A g \in FileNames : dir[g] \in {None, Torn, p, disk[DirOf(d)][g]}
      /\ dir \in [FileNames -> Bytes]
  BY <1>1 DEF Bytes
<1>5. Clean(d) => Done(k, dir, agents[SlugOf(d)], handlers[SlugOf(d)], jobs[SlugOf(d)])
  <2> SUFFICES ASSUME Clean(d)
               PROVE  Done(k, dir, agents[SlugOf(d)], handlers[SlugOf(d)], jobs[SlugOf(d)])
    OBVIOUS
  <2>1. disk[DirOf(d)] = Written(p, proc[d].left) /\ f \in proc[d].left
    BY <1>1, WorkOf DEF Done, CopyTruncates
  <2>2. \A g \in FileNames \ {f} : dir[g] = Written(p, k.left)[g]
    BY <1>1, <1>2, <2>1 DEF Written
  <2>3. proc[d].left \subseteq Contents[p]
    BY <1>1, WorkOf DEF Done, CopyTruncates
  <2> HIDE DEF k, dir
  <2> QED BY <1>2, <2>1, <2>2, <2>3 DEF Done, Loading
<1>6. proc[d].at \notin Loading /\ UNCHANGED <<registry, toLoad, overlapped, settled>>
  BY DEF CopyTruncates, history, Loading
<1> HIDE DEF k, dir
<1> QED BY <1>1, <1>2, <1>3, <1>4, <1>5, <1>6, DeployWritesIInv

LEMMA CopyFillsIInv ==
  ASSUME IInv, NEW d \in Deployers, CopyFills(d)
  PROVE  IInv'
<1> DEFINE k   == [proc[d] EXCEPT !.at = "copy", !.file = None]
           p   == proc[d].pack
           dir == [disk[DirOf(d)] EXCEPT ![proc[d].file] = p]
<1>1. /\ Active(d) /\ d \in Procs /\ proc[d] \in ProcType /\ p \in Packs /\ DirOf(d) \in Dirs
      /\ disk[DirOf(d)] \in [FileNames -> Bytes]
  BY ActiveTypes DEF CopyFills, Active, Procs, IInv, TypeOK
<1>2. /\ k \in ProcType /\ k.at = "copy" /\ k.pack = p /\ k.left = proc[d].left
  BY <1>1 DEF ProcType, Stages
<1>3. proc' = [proc EXCEPT ![d] = k] /\ disk' = [disk EXCEPT ![DirOf(d)] = dir]
  BY <1>1 DEF CopyFills, IInv, TypeOK
<1>4. /\ \A g \in FileNames : dir[g] \in {None, Torn, p, disk[DirOf(d)][g]}
      /\ dir \in [FileNames -> Bytes]
  BY <1>1 DEF Bytes
<1>5. Clean(d) => Done(k, dir, agents[SlugOf(d)], handlers[SlugOf(d)], jobs[SlugOf(d)])
  <2> SUFFICES ASSUME Clean(d)
               PROVE  Done(k, dir, agents[SlugOf(d)], handlers[SlugOf(d)], jobs[SlugOf(d)])
    OBVIOUS
  <2>1. /\ \A f \in FileNames \ {proc[d].file} : disk[DirOf(d)][f] = Written(p, proc[d].left)[f]
        /\ proc[d].file \in Contents[p] \ proc[d].left /\ proc[d].left \subseteq Contents[p]
    BY <1>1, WorkOf DEF Done, CopyFills
  <2>2. \A g \in FileNames : dir[g] = Written(p, k.left)[g]
    BY <1>1, <1>2, <2>1 DEF Written
  <2>3. dir = Written(p, k.left)
    BY <1>4, <2>2 DEF Written
  <2> HIDE DEF k, dir
  <2> QED BY <1>2, <2>1, <2>3 DEF Done, Loading
<1>6. proc[d].at \notin Loading /\ UNCHANGED <<registry, toLoad, overlapped, settled>>
  BY DEF CopyFills, history, Loading
<1> HIDE DEF k, dir
<1> QED BY <1>1, <1>2, <1>3, <1>4, <1>5, <1>6, DeployWritesIInv

LEMMA CopiedIInv ==
  ASSUME IInv, NEW d \in Deployers, Copied(d)
  PROVE  IInv'
<1> DEFINE k == [proc[d] EXCEPT !.at = "load"]
<1>1. Active(d) /\ d \in Procs /\ proc[d] \in ProcType
  BY ActiveTypes DEF Copied, Active, Procs, IInv
<1>2. k \in ProcType /\ k.at = "load" /\ k.pack = proc[d].pack
  BY <1>1 DEF ProcType, Stages
<1>3. proc' = [proc EXCEPT ![d] = k]
  BY DEF Copied, Goto
<1>4. Clean(d) =>
        Done(k, disk[DirOf(d)], agents[SlugOf(d)], handlers[SlugOf(d)], jobs[SlugOf(d)])
  <2>1. Clean(d) => disk[DirOf(d)] = Written(proc[d].pack, {})
    BY <1>1, WorkOf DEF Done, Copied
  <2>2. Written(proc[d].pack, {}) = Archive(proc[d].pack)
    BY DEF Written, Archive
  <2> HIDE DEF k
  <2> QED BY <1>2, <2>1, <2>2 DEF Done, Loading
<1>5. UNCHANGED <<disk, registry, toLoad, overlapped, settled>>
  BY DEF Copied, history
<1> HIDE DEF k
<1> QED BY <1>1, <1>2, <1>3, <1>4, <1>5, DeployMovesIInv

LEMMA DeployGivesUpIInv ==
  ASSUME IInv, NEW d \in Deployers, Active(d), GiveUp(d)
  PROVE  IInv'
BY IdleType, DeployMovesIInv DEF GiveUp, history

LEMMA DeployStepIInv ==
  ASSUME IInv, NEW d \in Deployers, DeployStep(d)
  PROVE  IInv'
<1>1. DeployFails(d) => Active(d) /\ GiveUp(d)
  BY DEF DeployFails, Active
<1> QED BY <1>1, RemoveFileIInv, CopyTruncatesIInv, RemovedIInv, RenameIInv, FallBackToCopyIInv,
           CopyFillsIInv, CopiedIInv, DeployGivesUpIInv DEF DeployStep

-----------------------------------------------------------------------------
\* A step of the registration that makes agent, wired and job of its slug.
LEMMA RegisterMovesIInv ==
  ASSUME IInv, NEW x \in Procs, proc[x].at \in Loading, NEW k \in ProcType, k.at \in Loading,
         k.pack = proc[x].pack, proc' = [proc EXCEPT ![x] = k],
         NEW agent \in [manifest : Packs \cup {None}, entry : Bytes],
         NEW wired \in [ActionIds -> Bytes], NEW job \in [JobIndex -> Bytes],
         agents' = [agents EXCEPT ![SlugOf(x)] = agent],
         handlers' = [handlers EXCEPT ![SlugOf(x)] = wired],
         jobs' = [jobs EXCEPT ![SlugOf(x)] = job],
         UNCHANGED <<disk, toLoad, overlapped, settled>>,
         Clean(x) => Done(k, disk[DirOf(x)], agent, wired, job)
  PROVE  IInv'
<1>1. Active(x) /\ proc'[x] = k /\ SlugOf(x) \in Slugs /\ k.at # "idle"
  BY ActiveTypes DEF Active, Loading, IInv, TypeOK
<1>2. agents'[SlugOf(x)] = agent /\ handlers'[SlugOf(x)] = wired /\ jobs'[SlugOf(x)] = job
  BY <1>1 DEF IInv, TypeOK
<1>3. StepOf(x, k)
  BY <1>1 DEF StepOf, IInv, TypeOK
<1>4. Clean(x)' => Clean(x)
  BY <1>1 DEF Clean, DirOf
<1>5. Clean(x)' => Work(x)'
  BY <1>1, <1>2, <1>4 DEF Work, DirOf, SlugOf
<1> QED BY <1>1, <1>3, <1>5, StepKeepsIInv

\* What a slug holds has its type, and putting it back changes nothing.
LEMMA SlugHolds ==
  ASSUME IInv, NEW x \in Procs, Active(x)
  PROVE  /\ agents[SlugOf(x)] \in [manifest : Packs \cup {None}, entry : Bytes]
         /\ handlers[SlugOf(x)] \in [ActionIds -> Bytes] /\ jobs[SlugOf(x)] \in [JobIndex -> Bytes]
         /\ agents = [agents EXCEPT ![SlugOf(x)] = agents[SlugOf(x)]]
         /\ handlers = [handlers EXCEPT ![SlugOf(x)] = handlers[SlugOf(x)]]
         /\ jobs = [jobs EXCEPT ![SlugOf(x)] = jobs[SlugOf(x)]]
BY ActiveTypes DEF IInv, TypeOK

LEMMA LoadPromptsIInv ==
  ASSUME IInv, NEW x \in Procs, LoadPrompts(x)
  PROVE  IInv'
<1> DEFINE k == [proc[x] EXCEPT !.at = "register", !.entry = disk[DirOf(x)]["entry"]]
<1>1. /\ Active(x) /\ proc[x] \in ProcType /\ proc[x].at \in Loading
      /\ disk[DirOf(x)]["entry"] \in Bytes
  BY ActiveTypes, NamesTypes DEF LoadPrompts, Active, Loading, IInv, TypeOK
<1>2. /\ k \in ProcType /\ k.at = "register" /\ k.pack = proc[x].pack
      /\ k.entry = disk[DirOf(x)]["entry"]
  BY <1>1 DEF ProcType, Stages
<1>3. proc' = [proc EXCEPT ![x] = k]
  BY DEF LoadPrompts, IInv, TypeOK
<1>4. Clean(x) =>
        Done(k, disk[DirOf(x)], agents[SlugOf(x)], handlers[SlugOf(x)], jobs[SlugOf(x)])
  <2> SUFFICES ASSUME Clean(x)
        PROVE Done(k, disk[DirOf(x)], agents[SlugOf(x)], handlers[SlugOf(x)], jobs[SlugOf(x)])
    OBVIOUS
  <2>1. disk[DirOf(x)] = Archive(proc[x].pack)
    BY <1>1, WorkOf DEF Done
  <2>2. k.entry = k.pack /\ "entry" \in Contents[k.pack]
    BY <1>2, <2>1, NamesTypes DEF Archive, LoadPrompts
  <2> HIDE DEF k
  <2> QED BY <1>2, <2>1, <2>2 DEF Done, Loading
<1>5. /\ UNCHANGED <<disk, toLoad, overlapped, settled>> /\ k.at \in Loading
      /\ agents' = agents /\ handlers' = handlers /\ jobs' = jobs
  BY <1>2 DEF LoadPrompts, history, registry, Loading
<1> HIDE DEF k
<1> QED BY <1>1, <1>2, <1>3, <1>4, <1>5, SlugHolds, RegisterMovesIInv, ZenonT(30)

LEMMA RegisterIInv ==
  ASSUME IInv, Fresh, NEW x \in Procs, Register(x)
  PROVE  IInv'
<1> DEFINE k     == [proc[x] EXCEPT !.at = "actions"]
           agent == [manifest |-> proc[x].pack, entry |-> proc[x].entry]
<1>1. /\ Active(x) /\ proc[x] \in ProcType /\ proc[x].at \in Loading /\ proc[x].pack \in Packs
      /\ agent \in [manifest : Packs \cup {None}, entry : Bytes]
  BY ActiveTypes DEF Register, Active, Loading, IInv, ProcType
<1>2. k \in ProcType /\ k.at = "actions" /\ k.pack = proc[x].pack /\ k.next = proc[x].next
      /\ k.entry = proc[x].entry
  BY <1>1 DEF ProcType, Stages
<1>3. proc' = [proc EXCEPT ![x] = k]
  BY DEF Register, Goto
<1>4. Clean(x) => Done(k, disk[DirOf(x)], agent, handlers[SlugOf(x)], jobs[SlugOf(x)])
  <2> SUFFICES ASSUME Clean(x)
               PROVE  Done(k, disk[DirOf(x)], agent, handlers[SlugOf(x)], jobs[SlugOf(x)])
    OBVIOUS
  <2>1. /\ disk[DirOf(x)] = Archive(proc[x].pack)
        /\ proc[x].entry = proc[x].pack /\ "entry" \in Contents[proc[x].pack]
    BY <1>1, WorkOf DEF Done, Register, Loading
  <2>2. \A i \in DOMAIN Actions[k.pack] : ~(i < k.next)
    BY <1>1, <1>2, PacksTypes DEF Fresh, Register
  <2> HIDE DEF k
  <2> QED BY <1>2, <2>1, <2>2 DEF Done, Loading
<1>5. /\ UNCHANGED <<disk, toLoad, overlapped, settled>> /\ k.at \in Loading
      /\ handlers' = handlers /\ jobs' = jobs /\ agents' = [agents EXCEPT ![SlugOf(x)] = agent]
  BY <1>2 DEF Register, history, Loading
<1> HIDE DEF k, agent
<1> QED BY <1>1, <1>2, <1>3, <1>4, <1>5, SlugHolds, RegisterMovesIInv

LEMMA WireActionIInv ==
  ASSUME IInv, Fresh, NEW x \in Procs, WireAction(x)
  PROVE  IInv'
<1> DEFINE p      == proc[x].pack
           prompt == disk[DirOf(x)][NextAction(x)]
           k      == [proc[x] EXCEPT !.next = @ + 1]
           wired  == [handlers[SlugOf(x)] EXCEPT ![NextAction(x)] = prompt]
<1>1. /\ Active(x) /\ proc[x] \in ProcType /\ proc[x].at \in Loading /\ proc[x].at = "actions"
      /\ p \in Packs /\ proc[x].next \in Nat /\ DirOf(x) \in Dirs
  BY ActiveTypes DEF WireAction, Active, Loading, IInv, ProcType
<1>2. /\ k \in ProcType /\ k.at = "actions" /\ k.pack = p /\ k.next = proc[x].next + 1
      /\ k.entry = proc[x].entry
  BY <1>1 DEF ProcType, Stages
<1>3. /\ proc[x].next \in DOMAIN Actions[p] /\ NextAction(x) = Actions[p][proc[x].next]
      /\ NextAction(x) \in ActionIds /\ prompt \in Bytes
  <2>1. disk[DirOf(x)] \in [FileNames -> Bytes]
    BY <1>1 DEF IInv, TypeOK
  <2>2. proc[x].next \in DOMAIN Actions[p]
    BY <1>1, PacksTypes DEF WireAction, Fresh
  <2>3. NextAction(x) = Actions[p][proc[x].next] /\ NextAction(x) \in ActionIds
    BY <1>1, <2>2, PacksTypes DEF NextAction
  <2> QED BY <2>1, <2>2, <2>3, NamesTypes
<1>4. handlers[SlugOf(x)] \in [ActionIds -> Bytes] /\ wired \in [ActionIds -> Bytes]
      /\ wired[NextAction(x)] = prompt
      /\ \A a \in ActionIds \ {NextAction(x)} : wired[a] = handlers[SlugOf(x)][a]
  BY <1>1, <1>3, SlugHolds
<1>5. proc' = [proc EXCEPT ![x] = k] /\ handlers' = [handlers EXCEPT ![SlugOf(x)] = wired]
  BY <1>1 DEF WireAction, IInv, TypeOK
<1>6. Clean(x) => Done(k, disk[DirOf(x)], agents[SlugOf(x)], wired, jobs[SlugOf(x)])
  <2> SUFFICES ASSUME Clean(x)
               PROVE  Done(k, disk[DirOf(x)], agents[SlugOf(x)], wired, jobs[SlugOf(x)])
    OBVIOUS
  <2>1. /\ disk[DirOf(x)] = Archive(p) /\ proc[x].entry = p /\ "entry" \in Contents[p]
        /\ agents[SlugOf(x)] = [manifest |-> p, entry |-> p]
        /\ \A i \in DOMAIN Actions[p] : i < proc[x].next => Wired(p, i, handlers[SlugOf(x)])
    BY <1>1, WorkOf DEF Done, Loading
  <2>2. prompt = p /\ NextAction(x) \in Contents[p]
    BY <1>3, <2>1, NamesTypes DEF WireAction, Archive
  <2>3. ASSUME NEW i \in DOMAIN Actions[p], i < k.next PROVE Wired(p, i, wired)
    <3>1. i \in Nat /\ Actions[p][i] \in ActionIds
      BY <1>1, PacksTypes
    <3>2. CASE i = proc[x].next
      BY <1>3, <1>4, <2>2, <3>2 DEF Wired
    <3>3. CASE i # proc[x].next
      <4>1. i < proc[x].next
        BY <1>1, <1>2, <2>3, <3>1, <3>3
      <4>2. Wired(p, i, handlers[SlugOf(x)])
        BY <2>1, <4>1
      <4>3. CASE Actions[p][i] = NextAction(x)
        BY <1>4, <2>2, <4>3 DEF Wired
      <4>4. CASE Actions[p][i] # NextAction(x)
        BY <1>4, <3>1, <4>2, <4>4 DEF Wired
      <4> QED BY <4>3, <4>4
    <3> QED BY <3>2, <3>3
  <2> HIDE DEF k, wired, p
  <2> QED BY <1>2, <2>1, <2>3 DEF Done, Loading
<1>7. /\ UNCHANGED <<disk, toLoad, overlapped, settled>> /\ k.at \in Loading
      /\ agents' = agents /\ jobs' = jobs
  BY <1>2 DEF WireAction, history, Loading
<1> HIDE DEF k, wired
<1> QED BY <1>1, <1>2, <1>4, <1>5, <1>6, <1>7, SlugHolds, RegisterMovesIInv

LEMMA ActionsWiredIInv ==
  ASSUME IInv, NEW x \in Procs, ActionsWired(x)
  PROVE  IInv'
<1> DEFINE p == proc[x].pack
           k == [proc[x] EXCEPT !.at = "schedules", !.next = 1]
<1>1. /\ Active(x) /\ proc[x] \in ProcType /\ proc[x].at \in Loading /\ proc[x].at = "actions"
      /\ p \in Packs /\ proc[x].next \in Nat
  BY ActiveTypes DEF ActionsWired, Active, Loading, IInv, ProcType
<1>2. /\ k \in ProcType /\ k.at = "schedules" /\ k.pack = p /\ k.next = 1
      /\ k.entry = proc[x].entry
  BY <1>1 DEF ProcType, Stages
<1>3. proc' = [proc EXCEPT ![x] = k]
  BY <1>1 DEF ActionsWired, IInv, TypeOK
<1>4. Clean(x) =>
        Done(k, disk[DirOf(x)], agents[SlugOf(x)], handlers[SlugOf(x)], jobs[SlugOf(x)])
  <2> SUFFICES ASSUME Clean(x)
        PROVE Done(k, disk[DirOf(x)], agents[SlugOf(x)], handlers[SlugOf(x)], jobs[SlugOf(x)])
    OBVIOUS
  <2>1. /\ disk[DirOf(x)] = Archive(p) /\ proc[x].entry = p /\ "entry" \in Contents[p]
        /\ agents[SlugOf(x)] = [manifest |-> p, entry |-> p]
        /\ \A i \in DOMAIN Actions[p] : i < proc[x].next => Wired(p, i, handlers[SlugOf(x)])
    BY <1>1, WorkOf DEF Done, Loading
  <2>2. \A i \in DOMAIN Actions[p] : i < proc[x].next
    BY <1>1, PacksTypes DEF ActionsWired
  <2>3. \A i \in DOMAIN Schedules[p] : ~(i < k.next)
    BY <1>1, <1>2, PacksTypes
  <2> HIDE DEF k, p
  <2> QED BY <1>2, <2>1, <2>2, <2>3 DEF Done, Loading
<1>5. /\ UNCHANGED <<disk, toLoad, overlapped, settled>> /\ k.at \in Loading
      /\ agents' = agents /\ handlers' = handlers /\ jobs' = jobs
  BY <1>2 DEF ActionsWired, history, registry, Loading
<1> HIDE DEF k
<1> QED BY <1>1, <1>2, <1>3, <1>4, <1>5, SlugHolds, RegisterMovesIInv, ZenonT(30)

LEMMA WireScheduleIInv ==
  ASSUME IInv, Fresh, NEW x \in Procs, WireSchedule(x)
  PROVE  IInv'
<1> DEFINE p    == proc[x].pack
           i    == proc[x].next
           k    == [proc[x] EXCEPT !.next = @ + 1]
           old  == jobs[SlugOf(x)]
           job  == IF Schedules[p][i] THEN [old EXCEPT ![i] = proc[x].entry] ELSE old
<1>1. /\ Active(x) /\ proc[x] \in ProcType /\ proc[x].at \in Loading /\ proc[x].at = "schedules"
      /\ p \in Packs /\ i \in Nat /\ SlugOf(x) \in Slugs /\ proc[x].entry \in Bytes
  BY ActiveTypes DEF WireSchedule, Active, Loading, IInv, ProcType
<1>2. /\ k \in ProcType /\ k.at = "schedules" /\ k.pack = p /\ k.next = i + 1
      /\ k.entry = proc[x].entry
  BY <1>1 DEF ProcType, Stages
<1>3. i \in DOMAIN Schedules[p] /\ i \in JobIndex /\ Schedules[p][i] \in BOOLEAN
  <2>1. i \in DOMAIN Schedules[p]
    BY <1>1, PacksTypes DEF WireSchedule, Fresh
  <2> QED BY <1>1, <2>1, PacksTypes
<1>4. /\ old \in [JobIndex -> Bytes] /\ job \in [JobIndex -> Bytes]
      /\ Schedules[p][i] => job[i] = proc[x].entry
      /\ \A j \in JobIndex \ {i} : job[j] = old[j]
  BY <1>1, <1>3, SlugHolds
<1>5. proc' = [proc EXCEPT ![x] = k] /\ jobs' = [jobs EXCEPT ![SlugOf(x)] = job]
  <2>1. proc' = [proc EXCEPT ![x] = k]
    BY <1>1 DEF WireSchedule, IInv, TypeOK
  <2>2. jobs \in [Slugs -> [JobIndex -> Bytes]]
    BY DEF IInv, TypeOK
  <2>3. CASE Schedules[p][i]
    BY <1>1, <2>2, <2>3 DEF WireSchedule
  <2>4. CASE ~Schedules[p][i]
    BY <1>1, <2>2, <2>4 DEF WireSchedule
  <2> QED BY <2>1, <2>3, <2>4
<1>6. Clean(x) => Done(k, disk[DirOf(x)], agents[SlugOf(x)], handlers[SlugOf(x)], job)
  <2> SUFFICES ASSUME Clean(x)
               PROVE  Done(k, disk[DirOf(x)], agents[SlugOf(x)], handlers[SlugOf(x)], job)
    OBVIOUS
  <2>1. /\ disk[DirOf(x)] = Archive(p) /\ proc[x].entry = p /\ "entry" \in Contents[p]
        /\ agents[SlugOf(x)] = [manifest |-> p, entry |-> p]
        /\ \A j \in DOMAIN Actions[p] : Wired(p, j, handlers[SlugOf(x)])
        /\ \A j \in DOMAIN Schedules[p] : j < i /\ Schedules[p][j] => old[j] = p
    BY <1>1, WorkOf DEF Done, Loading
  <2>2. ASSUME NEW j \in DOMAIN Schedules[p], j < k.next, Schedules[p][j] PROVE job[j] = p
    <3>1. j \in Nat /\ j \in JobIndex
      BY <1>1, PacksTypes
    <3>2. CASE j = i
      BY <1>4, <2>1, <2>2, <3>2
    <3>3. CASE j # i
      <4>1. j < i
        BY <1>1, <1>2, <2>2, <3>1, <3>3
      <4> QED BY <1>4, <2>1, <2>2, <3>1, <3>3, <4>1
    <3> QED BY <3>2, <3>3
  <2> HIDE DEF k, job, p, old, i
  <2> QED BY <1>2, <2>1, <2>2 DEF Done, Loading
<1>7. /\ UNCHANGED <<disk, toLoad, overlapped, settled>> /\ k.at \in Loading
      /\ agents' = agents /\ handlers' = handlers
  BY <1>2 DEF WireSchedule, history, Loading
<1>8. /\ agents' = [agents EXCEPT ![SlugOf(x)] = agents[SlugOf(x)]]
      /\ handlers' = [handlers EXCEPT ![SlugOf(x)] = handlers[SlugOf(x)]]
      /\ agents[SlugOf(x)] \in [manifest : Packs \cup {None}, entry : Bytes]
      /\ handlers[SlugOf(x)] \in [ActionIds -> Bytes]
  BY <1>1, <1>7, SlugHolds
<1> HIDE DEF k, job, old
<1> QED BY <1>1, <1>2, <1>4, <1>5, <1>6, <1>7, <1>8, RegisterMovesIInv

-----------------------------------------------------------------------------
\* The start-up never fails over the directory of a settled Pack.
LEMMA BootGivesUpIInv ==
  ASSUME IInv, Active(Boot), GiveUp(Boot),
         \A s \in Slugs : settled[s] # proc[Boot].pack
  PROVE  IInv'
<1>1. Boot \in Procs /\ Idle \in ProcType /\ Idle.at = "idle"
  BY IdleType DEF Procs
<1>2. StepOf(Boot, Idle)
  BY <1>1, OnlyProc DEF GiveUp, history
<1> QED BY <1>1, <1>2, StepKeepsIInv

\* Where a settled Pack is being loaded, its directory is whole.
LEMMA BootLoadsWhole ==
  ASSUME IInv, Active(Boot), NEW s \in Slugs, settled[s] = proc[Boot].pack
  PROVE  /\ disk[DirOf(Boot)] = Archive(proc[Boot].pack) /\ Complete(proc[Boot].pack)
         /\ Clean(Boot) /\ SlugOf(Boot) = s
<1>1. proc[Boot].pack \in Packs
  BY ActiveTypes, PacksTypes DEF IInv, Procs
<1>2. settled[s] # None
  BY <1>1, PacksTypes
<1> QED BY <1>2 DEF IInv, Settled, Apart, DirOf, SlugOf, Clean

LEMMA GivesUpIInv ==
  ASSUME IInv, Fresh, NEW x \in Procs, PromptMissing(x) \/ ActionPromptMissing(x)
  PROVE  IInv'
<1>1. Active(x) /\ GiveUp(x)
  BY DEF PromptMissing, ActionPromptMissing, Active
<1>2. CASE x \in Deployers
  BY <1>1, <1>2, DeployGivesUpIInv
<1>3. CASE x = Boot
  <2> SUFFICES ASSUME NEW s \in Slugs, settled[s] = proc[Boot].pack PROVE FALSE
    BY <1>1, <1>3, BootGivesUpIInv
  <2> DEFINE p == proc[Boot].pack
  <2>1. disk[DirOf(Boot)] = Archive(p) /\ Complete(p) /\ p \in Packs /\ proc[Boot].next \in Nat
    BY <1>1, <1>3, BootLoadsWhole, ActiveTypes DEF IInv, ProcType
  <2>2. \A f \in Contents[p] : disk[DirOf(Boot)][f] # None
    BY <2>1, PacksTypes DEF Archive
  <2>3. ~PromptMissing(Boot)
    BY <2>1, <2>2 DEF PromptMissing, Complete
  <2>4. ~ActionPromptMissing(Boot)
    <3> SUFFICES ASSUME ActionPromptMissing(Boot) PROVE FALSE
      OBVIOUS
    <3>1. proc[Boot].next \in DOMAIN Actions[p]
      BY <1>3, <2>1, PacksTypes DEF ActionPromptMissing, Fresh
    <3> QED BY <2>1, <2>2, <3>1 DEF ActionPromptMissing, Complete, NextAction
  <2> QED BY <1>3, <2>3, <2>4
<1> QED BY <1>2, <1>3 DEF Procs

\* A registration that is through has done everything its Pack asks for.
LEMMA RegisteredServes ==
  ASSUME IInv, NEW x \in Procs, Registered(x), Clean(x), NEW p, p = proc[x].pack
  PROVE  disk[Dir[p]] = Archive(p) /\ Complete(p) /\ ServedFrom(Slug[p], p)
<1>1. Active(x) /\ proc[x].at = "schedules" /\ proc[x].next \in Nat /\ p \in Packs
  BY ActiveTypes DEF Registered, Active, IInv, ProcType
<1>2. /\ disk[Dir[p]] = Archive(p) /\ "entry" \in Contents[p]
      /\ agents[Slug[p]] = [manifest |-> p, entry |-> p]
      /\ \A i \in DOMAIN Actions[p] : Wired(p, i, handlers[Slug[p]])
      /\ \A i \in DOMAIN Schedules[p] :
           i < proc[x].next /\ Schedules[p][i] => jobs[Slug[p]][i] = p
  BY <1>1, WorkOf DEF Done, Loading, DirOf, SlugOf
<1>3. \A i \in DOMAIN Schedules[p] : i < proc[x].next
  BY <1>1, PacksTypes DEF Registered
<1> QED BY <1>2, <1>3 DEF Complete, ServedFrom, Wired

\* A deploy nobody got in the way of settles its slug.
LEMMA SettlesIInv ==
  ASSUME IInv, NEW x \in Deployers, x \notin overlapped, Registered(x)
  PROVE  IInv'
<1>0. PICK p \in Packs : p = proc[x].pack
  BY ActiveTypes DEF Registered, Active, IInv, Procs
<1>1. /\ Active(x) /\ x \in Procs /\ x # Boot /\ Boot \in Procs /\ SlugOf(x) = Slug[p] /\ Slug[p] \in Slugs
      /\ toLoad = <<>> /\ ~Active(Boot)
  BY <1>0, BootWorksAlone, PacksTypes DEF Registered, Active, SlugOf
<1>2. /\ settled' = [settled EXCEPT ![Slug[p]] = p] /\ proc' = [proc EXCEPT ![x] = Idle]
      /\ UNCHANGED <<disk, agents, handlers, jobs, toLoad, overlapped>>
  BY <1>0, <1>1 DEF Registered, Settle, registry
<1>3. /\ proc' \in [Procs -> ProcType] /\ settled' \in [Slugs -> Packs \cup {None}]
      /\ settled'[Slug[p]] = p /\ \A s \in Slugs \ {Slug[p]} : settled'[s] = settled[s]
  BY <1>0, <1>1, <1>2, IdleType DEF IInv, TypeOK, ProcType
<1>4. \A y \in Procs : Active(y)' => Active(y) /\ y # x /\ proc'[y] = proc[y]
  BY <1>1, <1>2, <1>3, IdleType DEF Active, IInv, TypeOK
<1>5. TypeOK'
  BY <1>2, <1>3, <1>4 DEF IInv, TypeOK, ProcType, Active
<1>6. Places'
  <2>1. proc'[Boot] = proc[Boot]
    BY <1>1, <1>2 DEF IInv, TypeOK
  <2> QED BY <1>1, <1>2, <2>1 DEF IInv, Places, Serving, Active
<1>7. Apart'
  <2>1. \A y \in Deployers \ overlapped', e \in Deployers :
          Active(y)' /\ Active(e)' /\ y # e => ~Clash(proc'[y].pack, proc'[e].pack)
    BY <1>1, <1>2, <1>4 DEF IInv, Apart, Procs
  <2>2. ASSUME NEW s \in Slugs, settled'[s] # None
        PROVE  Slug[settled'[s]] = s /\ \A e \in Deployers : Active(e)' => ~Clash(proc'[e].pack, settled'[s])
    <3>1. CASE s = Slug[p]
      <4>1. \A e \in Deployers : Active(e)' => ~Clash(p, proc'[e].pack)
        BY <1>0, <1>1, <1>4 DEF IInv, Apart, Procs
      <4> QED BY <1>3, <3>1, <4>1 DEF Clash
    <3>2. CASE s # Slug[p]
      BY <1>3, <1>4, <2>2, <3>2 DEF IInv, Apart, Procs
    <3> QED BY <3>1, <3>2
  <2> QED BY <2>1, <2>2 DEF Apart
<1>8. Worked'
  <2> SUFFICES ASSUME NEW y \in Procs, Active(y)', Clean(y)' PROVE Work(y)'
    BY DEF Worked
  <2>1. Active(y) /\ proc'[y] = proc[y] /\ Clean(y)
    BY <1>1, <1>2, <1>4 DEF Clean, DirOf, Active
  <2>2. Work(y)
    BY <2>1 DEF IInv, Worked
  <2> QED BY <1>2, <2>1, <2>2, WorkKept
<1>9. ASSUME NEW s \in Slugs PROVE Settled(s)'
  <2>1. CASE s = Slug[p]
    <3>1. disk[Dir[p]] = Archive(p) /\ Complete(p) /\ ServedFrom(s, p)
      BY <1>0, <1>1, <2>1, RegisteredServes DEF Clean
    <3>2. ServedFrom(s, p)'
      BY <1>2, <3>1 DEF ServedFrom
    <3> QED BY <1>2, <1>3, <2>1, <3>1, <3>2, SettledNext
  <2>2. CASE s # Slug[p] /\ settled[s] # None
    <3>1. PICK q \in Packs : q = settled[s]
      BY <2>2 DEF IInv, TypeOK
    <3>2. /\ disk[Dir[q]] = Archive(q) /\ Complete(q)
          /\ AloneWithItsSlug(q) => ServedFrom(s, q)
      BY <1>1, <2>2, <3>1 DEF IInv, Settled
    <3>3. ServedFrom(s, q) => ServedFrom(s, q)'
      BY <1>2 DEF ServedFrom
    <3> QED BY <1>2, <1>3, <2>2, <3>1, <3>2, <3>3, SettledNext
  <2>3. CASE s # Slug[p] /\ settled[s] = None
    BY <1>3, <2>3 DEF Settled
  <2> QED BY <2>1, <2>2, <2>3
<1> QED BY <1>5, <1>6, <1>7, <1>8, <1>9 DEF IInv

LEMMA RegisteredIInv ==
  ASSUME IInv, NEW x \in Procs, Registered(x)
  PROVE  IInv'
<1>1. Active(x) /\ Idle \in ProcType /\ Idle.at = "idle" /\ Boot \notin Deployers
  BY IdleType, PacksTypes DEF Registered, Active
<1>2. /\ proc' = [proc EXCEPT ![x] = Idle]
      /\ UNCHANGED <<disk, registry, toLoad, overlapped>>
      /\ x \notin Deployers \ overlapped => settled' = settled
  BY DEF Registered, Settle
<1>3. CASE x \in Deployers /\ x \notin overlapped
  BY <1>3, SettlesIInv
<1>4. CASE x \in Deployers /\ x \in overlapped
  BY <1>1, <1>2, <1>4, DeployMovesIInv
<1>5. CASE x = Boot
  <2>1. StepOf(Boot, Idle)
    BY <1>1, <1>2, <1>5, OnlyProc
  <2>2. ASSUME NEW s \in Slugs, NEW p \in Packs, settled[s] = p, proc[Boot].pack = p
        PROVE  ServedFrom(s, p)'
    <3>1. Clean(Boot) /\ Slug[p] = s
      BY <1>1, <1>5, <2>2, BootLoadsWhole DEF SlugOf
    <3>2. ServedFrom(s, p)
      BY <1>5, <2>2, <3>1, RegisteredServes
    <3> QED BY <1>2, <3>2 DEF ServedFrom, registry
  <2> QED BY <1>1, <1>5, <2>1, <2>2, StepKeepsIInv
<1> QED BY <1>3, <1>4, <1>5 DEF Procs

LEMMA RegisterStepIInv ==
  ASSUME IInv, Fresh, NEW x \in Procs, RegisterStep(x)
  PROVE  IInv'
BY LoadPromptsIInv, RegisterIInv, WireActionIInv, ActionsWiredIInv, WireScheduleIInv,
   RegisteredIInv, GivesUpIInv DEF RegisterStep

-----------------------------------------------------------------------------
\* A new deploy marks whoever it gets in the way of, itself included, and
\* unsettles every slug whose name or directory it is about to change.
LEMMA DeployIInv ==
  ASSUME IInv, NEW d \in Deployers, NEW p \in Packs, Deploy(d, p)
  PROVE  IInv'
<1> DEFINE k        == [Idle EXCEPT !.at = "remove", !.pack = p]
           hindered == {e \in Deployers : proc[e].at # "idle" /\ Clash(p, proc[e].pack)}
<1>1. /\ k \in ProcType /\ k.at = "remove" /\ k.pack = p
      /\ d \in Procs /\ d # Boot /\ Boot \in Procs /\ Deployers \subseteq Procs
      /\ ~Active(d) /\ toLoad = <<>> /\ ~Active(Boot)
  BY IdleType, PacksTypes DEF Idle, ProcType, Stages, Procs, Deploy, Serving, Active, Bytes
<1>2. /\ proc' = [proc EXCEPT ![d] = k]
      /\ overlapped' = (overlapped \ {d}) \cup hindered \cup (IF hindered = {} THEN {} ELSE {d})
      /\ settled' = [s \in Slugs |-> IF s = Slug[p] \/ (settled[s] # None /\ Clash(p, settled[s]))
                                     THEN None ELSE settled[s]]
      /\ UNCHANGED <<disk, agents, handlers, jobs, toLoad>>
  BY DEF Deploy, registry
<1>3. /\ hindered \subseteq overlapped' /\ overlapped \ {d} \subseteq overlapped'
      /\ overlapped' \subseteq Deployers
      /\ d \notin overlapped' => hindered = {}
  BY <1>2 DEF IInv, TypeOK
<1>4. proc' \in [Procs -> ProcType] /\ proc'[d] = k /\ \A y \in Procs \ {d} : proc'[y] = proc[y]
  BY <1>1, <1>2 DEF IInv, TypeOK, ProcType
<1>5. /\ settled' \in [Slugs -> Packs \cup {None}]
      /\ \A s \in Slugs : settled'[s] # None => settled'[s] = settled[s] /\ ~Clash(p, settled[s])
  BY <1>2 DEF IInv, TypeOK
<1> HIDE DEF k
<1>6. TypeOK'
  <2>1. \A y \in Procs : proc'[y].at # "idle" => proc'[y].pack \in Packs
    BY <1>1, <1>4 DEF IInv, TypeOK
  <2> QED BY <1>2, <1>3, <1>4, <1>5, <2>1 DEF IInv, TypeOK, ProcType
<1>7. Places'
  BY <1>1, <1>2, <1>4 DEF IInv, Places, Serving, Active
<1>8. Apart'
  <2>1. ASSUME NEW x \in Deployers \ overlapped', NEW e \in Deployers, Active(x)', Active(e)', x # e
        PROVE  ~Clash(proc'[x].pack, proc'[e].pack)
    <3>1. CASE x = d
      <4>1. hindered = {} /\ Active(e) /\ proc'[e] = proc[e]
        BY <1>1, <1>3, <1>4, <2>1, <3>1 DEF Active
      <4> QED BY <1>1, <1>4, <3>1, <4>1 DEF Active
    <3>2. CASE e = d
      <4>1. x \notin hindered /\ Active(x) /\ proc'[x] = proc[x]
        BY <1>1, <1>3, <1>4, <2>1, <3>2 DEF Active
      <4> QED BY <1>1, <1>4, <3>2, <4>1 DEF Active, Clash
    <3>3. CASE x # d /\ e # d
      <4>1. x \notin overlapped /\ proc'[x] = proc[x] /\ proc'[e] = proc[e]
        BY <1>1, <1>3, <1>4, <3>3
      <4> QED BY <2>1, <4>1 DEF IInv, Apart, Active
    <3> QED BY <3>1, <3>2, <3>3
  <2>2. ASSUME NEW s \in Slugs, settled'[s] # None
        PROVE  Slug[settled'[s]] = s /\ \A e \in Deployers : Active(e)' => ~Clash(proc'[e].pack, settled'[s])
    <3>1. Slug[settled'[s]] = s
      BY <1>5, <2>2 DEF IInv, Apart
    <3>2. ASSUME NEW e \in Deployers, Active(e)' PROVE ~Clash(proc'[e].pack, settled'[s])
      <4>1. CASE e = d
        BY <1>1, <1>4, <1>5, <2>2, <4>1
      <4>2. CASE e # d
        BY <1>1, <1>4, <1>5, <2>2, <3>2, <4>2 DEF IInv, Apart, Active
      <4> QED BY <4>1, <4>2
    <3> QED BY <3>1, <3>2
  <2> QED BY <2>1, <2>2 DEF Apart
<1>9. Worked'
  <2> SUFFICES ASSUME NEW y \in Procs, Active(y)', Clean(y)' PROVE Work(y)'
    BY DEF Worked
  <2>1. CASE y = d
    BY <1>1, <1>4, <2>1 DEF Work, Done, Loading
  <2>2. CASE y # d
    <3>1. proc'[y] = proc[y] /\ y # Boot
      BY <1>1, <1>4, <2>2 DEF Active
    <3>2. y \notin overlapped
      BY <1>3, <2>2, <3>1 DEF Clean
    <3>3. Work(y)
      BY <3>1, <3>2 DEF IInv, Worked, Active, Clean
    <3> QED BY <1>2, <3>1, <3>3, WorkKept
  <2> QED BY <2>1, <2>2
<1>10. ASSUME NEW s \in Slugs PROVE Settled(s)'
  <2>1. CASE settled'[s] # None
    <3>1. PICK q \in Packs : q = settled'[s]
      BY <1>5, <2>1
    <3>2. /\ q = settled[s] /\ q # None /\ disk[Dir[q]] = Archive(q) /\ Complete(q)
          /\ AloneWithItsSlug(q) => ServedFrom(s, q)
      BY <1>1, <1>5, <2>1, <3>1 DEF IInv, Settled
    <3>3. ServedFrom(s, q) => ServedFrom(s, q)'
      BY <1>2 DEF ServedFrom
    <3> QED BY <1>2, <3>1, <3>2, <3>3, SettledNext
  <2>2. CASE settled'[s] = None
    BY <2>2 DEF Settled
  <2> QED BY <2>1, <2>2
<1> QED BY <1>6, <1>7, <1>8, <1>9, <1>10 DEF IInv

LEMMA BootNextIInv ==
  ASSUME IInv, BootNext
  PROVE  IInv'
<1> DEFINE h == Head(toLoad)
           q == disk[h]["soyapack.yaml"]
           k == IF Loadable(h) THEN [Idle EXCEPT !.at = "load", !.pack = q] ELSE Idle
<1>1. /\ Boot \in Procs /\ Boot \notin Deployers /\ ~Active(Boot) /\ toLoad \in Seq(Dirs) /\ toLoad # <<>>
      /\ \A e \in Deployers : ~Active(e)
  BY PacksTypes DEF BootNext, Procs, Active, IInv, Places, Serving
<1>2. /\ toLoad' \in Seq(Dirs) /\ h \in Dirs /\ h = toLoad[1]
      /\ \A i \in DOMAIN toLoad : i = 1 \/ (i - 1 \in DOMAIN toLoad' /\ toLoad'[i - 1] = toLoad[i])
  BY <1>1 DEF BootNext
<1>3. UNCHANGED <<disk, agents, handlers, jobs, settled, overlapped>>
  BY DEF BootNext, registry, history
<1>4. /\ proc' \in [Procs -> ProcType] /\ \A y \in Procs \ {Boot} : proc'[y] = proc[y]
      /\ Loadable(h) => /\ proc'[Boot].at = "load" /\ proc'[Boot].pack = q
                        /\ q \in Packs /\ Dir[q] = h
      /\ ~Loadable(h) => proc'[Boot] = proc[Boot]
  <2>1. proc \in [Procs -> ProcType]
    BY DEF IInv, TypeOK, ProcType
  <2>2. CASE Loadable(h)
    <3>1. q \in Packs /\ Dir[q] = h
      BY <1>2, <2>2, NamesTypes DEF Loadable, IInv, Places
    <3>2. [Idle EXCEPT !.at = "load", !.pack = q] \in ProcType
      BY <3>1, IdleType DEF ProcType, Stages
    <3>3. proc' = [proc EXCEPT ![Boot] = [Idle EXCEPT !.at = "load", !.pack = q]]
      BY <2>2 DEF BootNext
    <3>4. [Idle EXCEPT !.at = "load", !.pack = q].at = "load"
          /\ [Idle EXCEPT !.at = "load", !.pack = q].pack = q
      BY DEF Idle
    <3> HIDE DEF q, h
    <3> QED BY <1>1, <2>1, <2>2, <3>1, <3>2, <3>3, <3>4
  <2>3. CASE ~Loadable(h)
    BY <2>1, <2>3 DEF BootNext
  <2> QED BY <2>2, <2>3
<1> HIDE DEF k
<1>5. TypeOK'
  <2>1. \A y \in Procs : proc'[y].at # "idle" => proc'[y].pack \in Packs
    BY <1>1, <1>4 DEF IInv, TypeOK, Active
  <2> QED BY <1>3, <1>4, <2>1 DEF IInv, TypeOK, ProcType
<1>6. \A e \in Deployers : ~Active(e)'
  BY <1>1, <1>4 DEF Active, Procs
<1>7. Places'
  <2>1. Active(Boot)' => proc'[Boot].at \in Loading /\ disk'[Dir[proc'[Boot].pack]]["soyapack.yaml"] = proc'[Boot].pack
    BY <1>1, <1>3, <1>4 DEF Active, Loading
  <2>2. \A i \in DOMAIN toLoad' : toLoad'[i] \in Dirs
    BY <1>2
  <2> QED BY <1>2, <1>3, <1>6, <2>1, <2>2 DEF IInv, Places, DirOf
<1>8. Apart'
  BY <1>3, <1>6 DEF IInv, Apart
<1>9. Worked'
  <2> SUFFICES ASSUME NEW y \in Procs, Active(y)', Clean(y)' PROVE Work(y)'
    BY DEF Worked
  <2>1. y = Boot /\ Loadable(h)
    BY <1>1, <1>4, <1>6 DEF Procs, Active
  <2> QED BY <1>4, <2>1 DEF Work, Done, Loading, Clean
<1>10. ASSUME NEW s \in Slugs PROVE Settled(s)'
  <2>1. CASE settled[s] # None
    <3>1. PICK p \in Packs : p = settled[s]
      BY <2>1 DEF IInv, TypeOK
    <3>2. /\ disk[Dir[p]] = Archive(p) /\ Complete(p)
          /\ AloneWithItsSlug(p) =>
               (\E i \in DOMAIN toLoad : toLoad[i] = Dir[p]) \/ ServedFrom(s, p)
      BY <1>1, <2>1, <3>1 DEF IInv, Settled
    <3>3. ServedFrom(s, p) => ServedFrom(s, p)'
      BY <1>3 DEF ServedFrom
    <3>4. ASSUME NEW i \in DOMAIN toLoad, toLoad[i] = Dir[p]
          PROVE  \/ \E j \in DOMAIN toLoad' : toLoad'[j] = Dir[p]
                 \/ Active(Boot)' /\ proc'[Boot].pack = p
      <4>1. CASE i = 1
        <5>1. q = p
          BY <1>2, <3>2, <3>4, <4>1, PacksTypes, NamesTypes DEF Archive
        <5>2. Loadable(h)
          BY <5>1 DEF Loadable
        <5> QED BY <1>4, <5>1, <5>2 DEF Active
      <4>2. CASE i # 1
        BY <1>2, <3>4, <4>2
      <4> QED BY <4>1, <4>2
    <3> QED BY <1>3, <3>1, <3>2, <3>3, <3>4, SettledNext
  <2>2. CASE settled[s] = None
    BY <1>3, <2>2 DEF Settled
  <2> QED BY <2>1, <2>2
<1> QED BY <1>5, <1>7, <1>8, <1>9, <1>10 DEF IInv

LEMMA CrashIInv ==
  ASSUME IInv, Crash
  PROVE  IInv'
<1>1. /\ proc' = [x \in Procs |-> Idle] /\ toLoad' = DirOrder /\ UNCHANGED <<disk, settled, overlapped>>
      /\ agents' = [s \in Slugs |-> NoAgent]
      /\ handlers' = [s \in Slugs |-> [a \in ActionIds |-> None]]
      /\ jobs' = [s \in Slugs |-> [i \in JobIndex |-> None]]
  BY DEF Crash
<1>2. DirOrder \in Seq(Dirs) /\ \A d \in Dirs : \E i \in DOMAIN DirOrder : DirOrder[i] = d
  BY PacksAssumption
<1>3. \A x \in Procs : ~Active(x)'
  BY <1>1, IdleType DEF Active
<1>4. NoAgent \in [manifest : Packs \cup {None}, entry : Bytes]
  BY DEF NoAgent, Bytes
<1>5. TypeOK'
  <2>1. proc' \in [Procs -> ProcType] /\ \A x \in Procs : proc'[x].at = "idle"
    BY <1>1, IdleType
  <2> QED BY <1>1, <1>4, <2>1 DEF IInv, TypeOK, ProcType, Bytes
<1>6. Places'
  <2>1. \A i \in DOMAIN toLoad' : toLoad'[i] \in Dirs
    BY <1>1, <1>2
  <2> QED BY <1>1, <1>2, <1>3, <2>1 DEF IInv, Places, Procs
<1>7. Apart' /\ Worked'
  BY <1>1, <1>3 DEF IInv, Apart, Worked, Procs
<1>8. ASSUME NEW s \in Slugs PROVE Settled(s)'
  <2>1. CASE settled[s] # None
    <3>1. PICK p \in Packs : p = settled[s]
      BY <2>1 DEF IInv, TypeOK
    <3>2. disk[Dir[p]] = Archive(p) /\ Complete(p) /\ Dir[p] \in Dirs
      BY <2>1, <3>1, PacksTypes DEF IInv, Settled
    <3> QED BY <1>1, <1>2, <3>1, <3>2, SettledNext
  <2>2. CASE settled[s] = None
    BY <1>1, <2>2 DEF Settled
  <2> QED BY <2>1, <2>2
<1> QED BY <1>5, <1>6, <1>7, <1>8 DEF IInv

LEMMA StutterIInv ==
  ASSUME IInv, UNCHANGED vars
  PROVE  IInv'
<1>1. UNCHANGED <<disk, agents, handlers, jobs, proc, toLoad, settled, overlapped>>
  BY DEF vars, registry, history
<1>2. TypeOK' /\ Places'
  BY <1>1 DEF IInv, TypeOK, Places, Serving, Active, DirOf
<1>3. Apart' /\ Worked'
  BY <1>1 DEF IInv, Apart, Worked, Active, Clean, Work, DirOf, SlugOf
<1>4. \A s \in Slugs : Settled(s)'
  BY <1>1 DEF IInv, Settled, Active, ServedFrom
<1> QED BY <1>2, <1>3, <1>4 DEF IInv

-----------------------------------------------------------------------------
LEMMA FreshNext ==
  ASSUME IInv, Fresh, [Next]_vars
  PROVE  Fresh'
<1> USE DEF Fresh
<1>1. Idle.at = "idle" /\ Idle.next = 1
  BY DEF Idle
<1>2. proc \in [Procs -> ProcType] /\ Deployers \subseteq Procs /\ Boot \in Procs
  BY DEF IInv, TypeOK, ProcType, Procs
<1>3. ASSUME NEW x \in Procs, GiveUp(x) PROVE Fresh'
  BY <1>1, <1>2, <1>3 DEF GiveUp
<1>4. ASSUME NEW d \in Deployers, NEW p \in Packs, Deploy(d, p) PROVE Fresh'
  BY <1>1, <1>2, <1>4 DEF Deploy, Idle
<1>5. ASSUME NEW d \in Deployers, DeployStep(d) PROVE Fresh'
  <2>1. d \in Procs /\ proc[d] \in ProcType /\ DOMAIN proc = Procs
    BY <1>2
  <2>2. ASSUME NEW f \in FileNames, RemoveFile(d, f) \/ CopyTruncates(d, f) PROVE Fresh'
    BY <2>1, <2>2 DEF RemoveFile, CopyTruncates, ProcType
  <2>3. Removed(d) \/ Rename(d) => Fresh'
    BY <2>1 DEF Removed, Rename, Goto, ProcType
  <2>4. FallBackToCopy(d) => Fresh'
    BY <2>1 DEF FallBackToCopy, ProcType
  <2>5. CopyFills(d) \/ Copied(d) => Fresh'
    BY <2>1 DEF CopyFills, Copied, Goto, ProcType
  <2>6. DeployFails(d) => Fresh'
    BY <1>3, <2>1 DEF DeployFails
  <2> QED BY <1>5, <2>2, <2>3, <2>4, <2>5, <2>6 DEF DeployStep
<1>6. ASSUME NEW x \in Procs, RegisterStep(x) PROVE Fresh'
  BY <1>1, <1>2, <1>3, <1>6 DEF RegisterStep, LoadPrompts, PromptMissing, Register, WireAction,
     ActionPromptMissing, ActionsWired, WireSchedule, Registered, Goto, ProcType
<1>7. BootNext => Fresh'
  BY <1>1, <1>2 DEF BootNext, Idle
<1>8. Crash => Fresh'
  BY <1>1 DEF Crash
<1>9. UNCHANGED vars => Fresh'
  BY DEF vars
<1> QED BY <1>4, <1>5, <1>6, <1>7, <1>8, <1>9 DEF Next, Quiescent

\* The inductive invariant: what a registration nobody got in the way of has
\* done is still there, on disk and in the kernel, and a settled Pack is whole
\* on disk and either served or still to be loaded by the start-up.
THEOREM Invariance == Spec => [](IInv /\ Fresh)
<1>1. Init => IInv /\ Fresh
  BY InitIInv, IdleType DEF Init, Fresh, Idle
<1>2. IInv /\ Fresh /\ [Next]_vars => (IInv /\ Fresh)'
  BY FreshNext, DeployIInv, DeployStepIInv, RegisterStepIInv, BootNextIInv, CrashIInv, StutterIInv
     DEF Next, Quiescent
<1> QED BY <1>1, <1>2, PTL DEF Spec

\* Every variable keeps its type.
THEOREM TypeCorrect == Spec => []TypeOK
<1>1. IInv => TypeOK
  BY DEF IInv
<1> QED BY <1>1, Invariance, PTL

\* handleDeployPack: the directory of a Pack that was deployed with nobody in
\* the way holds exactly its archive, through failed and cut-short deploys of
\* others and through crashes.
THEOREM SettledPacksStayOnDisk == Spec => []SettledPackIsOnDisk
<1>1. IInv => SettledPackIsOnDisk
  BY DEF IInv, Settled, SettledPackIsOnDisk
<1> QED BY <1>1, Invariance, PTL

\* registerFromPack and reloadDeployedPacks: once a process serves requests, a
\* settled Pack whose slug has one directory is what the slug serves.
THEOREM SettledPacksAreServed == Spec => []SettledPackIsServed
<1>1. IInv => SettledPackIsServed
  <2> SUFFICES ASSUME IInv, NEW s \in Slugs, Serving, settled[s] # None,
                      AloneWithItsSlug(settled[s])
               PROVE  ServedFrom(s, settled[s])
    BY DEF SettledPackIsServed
  <2> QED BY DEF IInv, Settled, Serving, Active
<1> QED BY <1>1, Invariance, PTL

=============================================================================
