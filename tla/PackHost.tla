------------------------------- MODULE PackHost -------------------------------
(***************************************************************************)
(* What `soyaos start` makes of a manifest: soyapack.Validate, the checks  *)
(* of kernel.registerFromPack behind it, and the hooks of the host that    *)
(* turn storage_nas[], channels[] and schedules[] into NAS targets,        *)
(* publishers and jobs of the time wheel; then the fires of those jobs,    *)
(* which run the agent and push what it says through the publishers.       *)
(*                                                                         *)
(* One slug, whose deployments follow one another (PackRegistry has them   *)
(* overlap, and has the directory and the restarts).  Fires run at any     *)
(* time, also across a deployment.                                         *)
(*                                                                         *)
(* A manifest says of each group of fields what the program tells apart:   *)
(* the files it names, the references it makes, the kind of each entry,    *)
(* and, as a BOOLEAN, whether a group that is only validated has its form. *)
(***************************************************************************)
EXTENDS Naturals, Sequences

CONSTANTS
  Manifests,                  \* what may be deployed
  EnvVars,                    \* the variables a ${NAME} may speak of
  MaxDeployments, MaxFires    \* bounds

NoFile   == ""            \* a path left out
Outside  == "../x"        \* a path that is not Pack-relative
NoRef    == ""            \* a reference left out
Inline   == "inline"      \* a literal where a ${NAME} belongs

ASSUME HostAssumption ==
  /\ EnvVars \cap {NoRef, Inline} = {}
  /\ \A m \in Manifests : \A list \in {m.steps, m.schedules, m.channels, m.actions, m.nas} :
       list \in Seq({list[i] : i \in DOMAIN list})
  /\ MaxDeployments \in Nat /\ MaxFires \in Nat

VARIABLES
  env,          \* the variables that are set
  host,         \* [at, next, publishers]: the deployment under way
  deployed,     \* history: the deployments, [m, answer]
  agent,        \* the deployment of the registered agent, or 0
  targets,      \* [NASIds -> the deployment that opened the handle, or 0]
  wheel,        \* [JobIndices -> the closure of the job]
  persisted,    \* the jobs whose spec is stored
  fires         \* [1..MaxFires -> a run of a closure]

hostVars == <<env, host, deployed, agent, targets, wheel, persisted, fires>>

-----------------------------------------------------------------------------
(***************************************************************************)
(* soyapack.Validate.                                                      *)
(***************************************************************************)
IsRef(r)   == r \in EnvVars
IsLocal(f) == f # Outside
HasSteps(m) == m.steps # <<>>

TableValid(m, steps) == m.table = "none" \/ (steps = 3 /\ m.table = "sound")

\* validateUpstream, validateMemory, the fields every manifest has, and state,
\* sandbox and capabilities: groups that nothing below looks at again.
UpstreamValid(m) == m.upstream \in {"none", "sound"}
MemoryValid(m)   == m.mount
HeaderValid(m)   == m.header
ProfileValid(m)  == m.profile

StepsValid(m) == \A i \in DOMAIN m.steps :
  /\ m.steps[i].id # "" /\ m.steps[i].prompt # NoFile
  /\ \A j \in DOMAIN m.steps : m.steps[i].id = m.steps[j].id => i = j

\* Mutated form of AgentValid: a pack may have both an entry and steps.
AgentValid_BothForms(m) ==
  /\ TableValid(m, Len(m.steps))
  /\ m.entry # NoFile \/ HasSteps(m)
  /\ StepsValid(m)
  /\ m.expose /\ m.model \in {"", "soya:slug"}
  /\ UpstreamValid(m)

AgentValid(m) ==
  /\ TableValid(m, Len(m.steps))
  /\ (m.entry = NoFile) = HasSteps(m)
  /\ StepsValid(m)
  /\ m.expose /\ m.model \in {"", "soya:slug"}
  /\ UpstreamValid(m)

KindValid(m) ==
  \/ m.kind = "Agent" /\ AgentValid(m)
  \/ m.kind = "Skill" /\ m.entry # NoFile
  \/ m.kind = "Memory" /\ MemoryValid(m)

ScheduleValid(s) == (s.cron # "" \/ s.once) /\ s.missed \in {"", "skip", "once", "backfill"}

ChannelValid(c) ==
  /\ c.kind \in {"dingtalk", "feishu", "wework", "wechat-mp", "wechat-cs", "webhook"}
  /\ c.token = NoRef \/ IsRef(c.token)

ActionValid(a) ==
  /\ a.plan # NoFile => IsLocal(a.plan) /\ a.review # NoFile
  /\ IsLocal(a.review)
  /\ a.handler # NoFile /\ a.formed

NASValid(n) ==
  /\ n.protocol \in {"smb", "nfs", "webdav", "s3"} /\ n.host # NoRef
  /\ n.password = NoRef \/ IsRef(n.password)

\* The order of the checks decides only what the error says.
Validate(m) ==
  /\ HeaderValid(m) /\ KindValid(m) /\ ProfileValid(m)
  /\ \A i \in DOMAIN m.schedules : ScheduleValid(m.schedules[i])
  /\ \A i \in DOMAIN m.channels : ChannelValid(m.channels[i])
  /\ \A i \in DOMAIN m.actions : ActionValid(m.actions[i])
  /\ \A i \in DOMAIN m.nas : NASValid(m.nas[i])

-----------------------------------------------------------------------------
(***************************************************************************)
(* The kernel reads the prompts of the pack: m.files maps the paths that   *)
(* are there to what they hold, "text" or "blank".                         *)
(***************************************************************************)
HasFile(m, f) == f \in DOMAIN m.files
Holds(m, f) == HasFile(m, f) /\ m.files[f] = "text"

\* Before the agent is registered.
Registrable(m) ==
  /\ (m.entry = NoFile) = HasSteps(m)
  /\ m.expose /\ m.model = "soya:slug"
  /\ m.entry # NoFile => HasFile(m, m.entry)
  /\ \A i \in DOMAIN m.steps : HasFile(m, m.steps[i].prompt)
  /\ TableValid(m, IF m.entry # NoFile THEN 1 ELSE Len(m.steps))

\* After it.
ActionLoads(m, a) ==
  /\ a.handler # NoFile /\ HasFile(m, a.handler)
  /\ a.review # NoFile => IsLocal(a.review) /\ Holds(m, a.review)
  /\ a.plan # NoFile => IsLocal(a.plan) /\ a.review # NoFile /\ Holds(m, a.plan)

-----------------------------------------------------------------------------
(***************************************************************************)
(* The hooks of the host.                                                  *)
(***************************************************************************)
\* resolveEnvRef and, but for a literal host, its twin in pkg/connectors/nas.
Resolves(ref) == ref = NoRef \/ ref \in env

\* channelHookForEnv.  Without a token the publisher is made and never works.
Publishes(c) == c.kind = "dingtalk" /\ Resolves(c.token)

\* KernelHookAdapter, as far as it can be told before the server is dialled.
Configured(n) == (n.host = Inline \/ n.host \in env) /\ Resolves(n.password)

\* storeNASTarget.
TargetId(n) == IF n.id = "" THEN "primary" ELSE n.id

\* TimeWheel.Add: v0 passes no RunAt, so a schedule needs a cron that parses.
Addable(s) == s.cron = "ok"

-----------------------------------------------------------------------------
(***************************************************************************)
(* Mutated form of AfterSend.                                              *)
(***************************************************************************)
\* A fire ends with the first publisher that fails.
AfterSend_StopsAtFailure(f, i, delivered) ==
  [f EXCEPT !.publishers = @ \ {i}, !.at = IF delivered /\ f.publishers # {i} THEN "sending" ELSE "done"]

-----------------------------------------------------------------------------
JobIndices == UNION {DOMAIN m.schedules : m \in Manifests}
NASIds     == UNION {{TargetId(m.nas[i]) : i \in DOMAIN m.nas} : m \in Manifests}
NoJob      == [deployment |-> 0, publishers |-> {}]
\* The publishers of a fire are those it has not come to yet.
NoFire     == [at |-> "none", deployment |-> 0, publishers |-> {}, outcome |-> "none", posted |-> <<>>]
NoDeployment       == [at |-> "idle", next |-> 1, publishers |-> {}]

\* The deployment under way is the last one.
Now == Len(deployed)
M   == deployed[Now].m

HostInit ==
  /\ env \in SUBSET EnvVars
  /\ host = NoDeployment /\ agent = 0 /\ deployed = <<>>
  /\ targets = [id \in NASIds |-> 0]
  /\ wheel = [i \in JobIndices |-> NoJob] /\ persisted = {}
  /\ fires = [f \in 1..MaxFires |-> NoFire]

-----------------------------------------------------------------------------
(***************************************************************************)
(* handleDeployPack and RegisterFromPack.                                  *)
(***************************************************************************)
Answer(text) ==
  /\ host' = NoDeployment
  /\ deployed' = [deployed EXCEPT ![Now].answer = text]

Deploy(m) ==
  /\ host.at = "idle" /\ Now < MaxDeployments
  /\ deployed' = Append(deployed, [m |-> m, answer |-> "none"])
  /\ host' = [NoDeployment EXCEPT !.at = "validate"]
  /\ UNCHANGED <<env, agent, targets, wheel, persisted, fires>>

Refuse ==
  /\ host.at = "validate"
  /\ \/ ~Validate(M) /\ Answer("invalid")
     \/ Validate(M) /\ ~Registrable(M) /\ Answer("refused")
  /\ UNCHANGED <<env, agent, targets, wheel, persisted, fires>>

RegisterPack ==
  /\ host.at = "validate" /\ Validate(M) /\ Registrable(M)
  /\ agent' = Now
  /\ host' = [host EXCEPT !.at = "actions"]
  /\ UNCHANGED <<env, targets, wheel, persisted, fires, deployed>>

\* An action that does not load refuses the pack, whose agent stays.
LoadActions ==
  /\ host.at = "actions"
  /\ IF \A i \in DOMAIN M.actions : ActionLoads(M, M.actions[i])
     THEN host' = [host EXCEPT !.at = "nas"] /\ UNCHANGED deployed
     ELSE Answer("refused")
  /\ UNCHANGED <<env, agent, targets, wheel, persisted, fires>>

\* The next entry of storage_nas[]: one that cannot be configured or opened
\* is skipped, one of an id in use takes the place of its target.
BindNAS ==
  LET n == M.nas[host.next] IN
  /\ host.at = "nas" /\ host.next <= Len(M.nas)
  /\ host' = [host EXCEPT !.next = @ + 1]
  /\ \/ UNCHANGED targets
     \/ Configured(n) /\ targets' = [targets EXCEPT ![TargetId(n)] = Now]
  /\ UNCHANGED <<env, agent, wheel, persisted, fires, deployed>>

\* All channels: the hook looks at the environment only.
BindChannels ==
  /\ host.at = "nas" /\ host.next > Len(M.nas)
  /\ host' = [at |-> "schedules", next |-> 1,
              publishers |-> {i \in DOMAIN M.channels : Publishes(M.channels[i])}]
  /\ UNCHANGED <<env, agent, targets, wheel, persisted, fires, deployed>>

\* The next entry of schedules[]: what the wheel does not take is skipped; a
\* spec that cannot be stored is reported, with the job in the wheel.
AddSchedule ==
  LET i == host.next IN
  /\ host.at = "schedules" /\ i <= Len(M.schedules)
  /\ host' = [host EXCEPT !.next = @ + 1]
  /\ IF Addable(M.schedules[i])
     THEN /\ wheel' = [wheel EXCEPT ![i] = [deployment |-> Now, publishers |-> host.publishers]]
          /\ persisted' \in {persisted, persisted \cup {i}}
     ELSE UNCHANGED <<wheel, persisted>>
  /\ UNCHANGED <<env, agent, targets, fires, deployed>>

Deployed ==
  /\ host.at = "schedules" /\ host.next > Len(M.schedules)
  /\ Answer("deployed")
  /\ UNCHANGED <<env, agent, targets, wheel, persisted, fires>>

-----------------------------------------------------------------------------
(***************************************************************************)
(* The closure of makeScheduledFire, in a goroutine of the wheel's.        *)
(***************************************************************************)
AfterSend(f, i, delivered) ==
  [f EXCEPT !.publishers = @ \ {i}, !.at = IF f.publishers # {i} THEN "sending" ELSE "done"]

Fire(f, i) ==
  /\ fires[f].at = "none" /\ wheel[i] # NoJob
  /\ fires' = [fires EXCEPT ![f] = [NoFire EXCEPT !.at = "running", !.deployment = wheel[i].deployment,
                                                  !.publishers = wheel[i].publishers]]
  /\ UNCHANGED <<env, host, agent, targets, wheel, persisted, deployed>>

\* The handler of the closure's own deployment fails, says nothing, or something.
RunAgent(f, outcome) ==
  /\ fires[f].at = "running"
  /\ fires' = [fires EXCEPT ![f].outcome = outcome,
                 ![f].at = IF outcome = "body" /\ fires[f].publishers # {} THEN "sending" ELSE "done"]
  /\ UNCHANGED <<env, host, agent, targets, wheel, persisted, deployed>>

\* Outbound.Send through the next publisher: without a token nothing is posted; a
\* post may fail, or be refused by a status or an errcode.
Send(f, delivered) == \E i \in fires[f].publishers :
  LET fire == fires[f]
      live == deployed[fire.deployment].m.channels[i].token # NoRef IN
  /\ fire.at = "sending" /\ \A j \in fire.publishers : i <= j
  /\ delivered => live
  /\ fires' = [fires EXCEPT ![f] = [AfterSend(fire, i, delivered) EXCEPT
                                      !.posted = IF live THEN Append(@, i) ELSE @]]
  /\ UNCHANGED <<env, host, agent, targets, wheel, persisted, deployed>>

HostNext ==
  \/ \E m \in Manifests : Deploy(m)
  \/ Refuse \/ RegisterPack \/ LoadActions \/ BindNAS \/ BindChannels \/ AddSchedule \/ Deployed
  \/ \E f \in 1..MaxFires :
       \/ \E i \in JobIndices : Fire(f, i)
       \/ \E outcome \in {"error", "empty", "body"} : RunAgent(f, outcome)
       \/ \E delivered \in BOOLEAN : Send(f, delivered)

HostSpec == HostInit /\ [][HostNext]_hostVars

-----------------------------------------------------------------------------
\* The deployments, the wheel and the fires have their types.
HostTypeOK ==
  /\ env \subseteq EnvVars
  /\ host \in [at : {"idle", "validate", "actions", "nas", "schedules"},
               next : Nat \ {0}, publishers : SUBSET Nat]
  /\ deployed \in Seq([m : Manifests, answer : {"none", "invalid", "refused", "deployed"}])
  /\ agent \in 0..Now /\ targets \in [NASIds -> 0..Now]
  /\ wheel \in [JobIndices -> [deployment : 0..Now, publishers : SUBSET Nat]]
  /\ persisted \subseteq JobIndices
  /\ fires \in [1..MaxFires ->
               [at : {"none", "running", "sending", "done"}, deployment : 0..Now,
                publishers : SUBSET Nat, outcome : {"none", "error", "empty", "body"},
                posted : Seq(Nat)]]

\* The files a manifest says its pack has.
Declared(m) ==
  {m.entry} \cup {m.steps[i].prompt : i \in DOMAIN m.steps}
    \cup UNION {{m.actions[i].handler, m.actions[i].review, m.actions[i].plan} : i \in DOMAIN m.actions}

\* What Validate has accepted the kernel refuses only because the pack is not
\* an agent or has no model id, or because a file it speaks of is missing or
\* blank: never for what the environment lacks, a server that does not answer
\* or a store that fails, and never for a form Validate should have refused.
AcceptedPacksRegister ==
  \A d \in DOMAIN deployed :
    LET m == deployed[d].m IN
    deployed[d].answer = "refused" =>
      \/ m.kind # "Agent" \/ m.model = ""
      \/ \E f \in Declared(m) \ {NoFile} : ~Holds(m, f)

\* A fire whose agent said something posts it once to every channel of its
\* deployment that can be reached, in order, whichever of them fail and
\* whatever is deployed meanwhile; one whose agent failed or said nothing
\* posts nothing.
FiresReachEveryPublisher ==
  \A f \in 1..MaxFires :
    fires[f].at = "done" =>
      LET channels  == deployed[fires[f].deployment].m.channels
          reachable == {i \in DOMAIN channels :
                          channels[i].kind = "dingtalk" /\ channels[i].token \in env}
          posted    == fires[f].posted
      IN /\ {posted[k] : k \in DOMAIN posted} = IF fires[f].outcome = "body" THEN reachable ELSE {}
         /\ \A k, l \in DOMAIN posted : k < l => posted[k] < posted[l]
=============================================================================
