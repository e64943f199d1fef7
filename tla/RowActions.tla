------------------------------ MODULE RowActions ------------------------------
(***************************************************************************)
(* A button of a workbook row: POST /v1/agents/{slug}/actions/{action_id}, *)
(* from the gateway to the model and back.  handleAgentAction checks the   *)
(* request and its credential (an API key, or a row token that opens one   *)
(* triple of agent, action and row), InvokeAction finds the declaration,   *)
(* the handler and the stored row, and the handler of a Pack plans, drafts *)
(* and reviews a text until it passes or the repairs are spent.            *)
(*                                                                         *)
(* Calls run concurrently with each other, with redeployments of the Pack  *)
(* and with the turns that persist rows.  The agent and its handlers are   *)
(* behind two locks, and a redeployment changes them one by one.  There is *)
(* one agent; a request for any other finds no manifest.  One deployment   *)
(* runs at a time: PackRegistry is about several.  What a model answers is *)
(* a choice among Texts and Verdicts.                                      *)
(*                                                                         *)
(* A text is a sequence of lines [head, cells]: a heading has words in its *)
(* head, any other line has cells, each a sequence of words.  A letter or  *)
(* number of the code is a word here.                                      *)
(***************************************************************************)
EXTENDS Integers, Sequences, FiniteSets, SequencesExt

CONSTANTS
  Calls,
  Requests,    \* [shape, cred, agent, action, row, title, edit]
  Agent,       \* the slug of the deployed Pack
  Keys, Tokens, NoCred,
  Subject,     \* [Keys \cup Tokens -> subject of the identity it stands for]
  Claims,      \* [Tokens -> <<agent, action, row>>]
  Actions,     \* sequence of the action ids of the Pack
  Versions, NoVersion,
  Manifest,    \* [Versions -> [scope, decl : [action -> declaration or Undeclared]]]
  Prompt,      \* [Versions -> [action -> [plan, review : BOOLEAN] or Missing]]
  Undeclared, Missing,
  RowIds, Titles, NoTitle, NoRow,
  Texts, NoText,
  Verdicts,    \* [formed, checks : Seq(<<dimension, passed>>), approved, findings : set of lines]
  Dimensions,  \* that a review must assess; five in the code
  NoContract,  \* text_validation or mirror_table is absent
  MaxRetries,  \* streamCollectMaxRetries; 3 in the code
  MaxDeploys, MaxWrites, MaxFailures  \* bounds

ASSUME ActionsAssumption ==
  /\ NoVersion \notin Versions /\ NoText \notin Texts /\ NoTitle \notin Titles
  /\ Keys \cap Tokens = {} /\ NoCred \notin Keys \cup Tokens
  /\ Actions \in Seq(ToSet(Actions)) /\ Actions # <<>>
  /\ MaxRetries \in Nat \ {0}
  /\ MaxDeploys \in Nat /\ MaxWrites \in Nat /\ MaxFailures \in Nat

ASSUME RequestsAssumption ==
  /\ Requests # {}
  /\ \A r \in Requests : /\ r.shape \in {"ok", "method", "path", "body"}
                        /\ r.action \in ToSet(Actions) /\ r.row \in RowIds

ASSUME VerdictsAssumption ==
  \A v \in Verdicts :
    /\ v.approved \in BOOLEAN
    /\ \A i \in DOMAIN v.checks :
         v.checks[i] = <<v.checks[i][1], v.checks[i][2]>> /\ v.checks[i][2] \in BOOLEAN

VARIABLES
  call,        \* [Calls -> record]
  agent,       \* the version whose manifest is registered, or NoVersion
  handlers,    \* [action -> the version whose prompts its handler holds, or NoVersion]
  deploying,   \* position in Actions of the deployment under way, or 0
  settled,     \* history: the last deployment has registered all it declares
  rows,        \* [owner -> [row -> [by, title] or NoRow]], the stored row payloads
  lapsed,      \* tokens past their expiry
  counts       \* history: [deploys, writes, failures], for the bounds

vars == <<call, agent, handlers, deploying, settled, rows, lapsed, counts>>
others == <<agent, handlers, deploying, settled, rows, lapsed, counts>>

-----------------------------------------------------------------------------
Stages == {"idle", "authorize", "manifest", "declare", "handler", "row", "default",
           "plan", "draft", "review", "finish", "answered"}
Upstream == {"plan", "draft", "review"}   \* stages inside a streamCollect
Subjects == {Subject[x] : x \in Keys \cup Tokens}
AgentWide == "agent"                      \* the owner of agent-scoped state
Owners == Subjects \cup {AgentWide}

\* A user and the agent itself own state in different scopes (kernel/state.go: completionStateOwner).
ASSUME SubjectsAssumption == AgentWide \notin Subjects

Idle == [at |-> "idle", req |-> CHOOSE r \in Requests : TRUE, subject |-> AgentWide,
         version |-> NoVersion, prompt |-> NoVersion, steady |-> FALSE,
         stored |-> NoRow, title |-> NoTitle, original |-> NoTitle,
         attempt |-> 0, tries |-> 0, draft |-> NoText, passed |-> FALSE,
         over |-> FALSE, answer |-> "none"]

DeclOf(k)   == Manifest[k.version].decl[k.req.action]
PromptOf(k) == Prompt[k.prompt][k.req.action]
Armed(k)    == k.version # NoVersion /\ DeclOf(k).timeout = "some"
Target(r)   == <<r.agent, r.action, r.row>>

Init ==
  /\ call = [c \in Calls |-> Idle]
  /\ agent = NoVersion /\ handlers = [a \in ToSet(Actions) |-> NoVersion]
  /\ deploying = 0 /\ settled = FALSE
  /\ rows = [o \in Owners |-> [r \in RowIds |-> NoRow]]
  /\ lapsed = {}
  /\ counts = [deploys |-> 0, writes |-> 0, failures |-> 0]

-----------------------------------------------------------------------------
(***************************************************************************)
(* The text contract of an action: validateActionText and its mirror table.*)
(***************************************************************************)
Headings(text) == {i \in DOMAIN text : text[i].head # <<>>}

\* The lines under the first of the headings at fitting, up to the next heading.
Section(text, fitting) ==
  LET start == Min(fitting)
      after == {i \in Headings(text) : i > start}
  IN SubSeq(text, start + 1, IF after = {} THEN Len(text) ELSE Min(after) - 1)

LineWords(line) == line.head \o FlattenSeq(line.cells)
WordsOf(lines)  == FlattenSeq([i \in DOMAIN lines |-> LineWords(lines[i])])
Blank(line)     == LineWords(line) = <<>>

\* The section is neither too short nor too long.
Measured(cfg, body) == Len(WordsOf(body)) \in cfg.min..cfg.max

\* The cells of one column of a table under its own heading repeat the section.
Mirrors(text, body, table) ==
  LET fitting == {i \in Headings(text) : text[i].head = <<table.section>>}
      lines   == SelectSeq(Section(text, fitting), LAMBDA l : ~Blank(l))
      header  == lines[1].cells
      column  == {j \in DOMAIN header : header[j] = <<table.column>>}
      data    == SubSeq(lines, 3, Len(lines))
  IN /\ fitting # {} /\ Len(lines) >= 3
     /\ Cardinality(column) = 1
     /\ Len(lines[2].cells) = Len(header)
     /\ \A j \in DOMAIN lines[2].cells : lines[2].cells[j] = <<"---">>
     /\ Len(data) = table.rows
     /\ \A i \in DOMAIN data : /\ Len(data[i].cells) = Len(header)
                               /\ \A j \in column : data[i].cells[j] # <<>>
     /\ \A j \in column :
          FlattenSeq([i \in DOMAIN data |-> data[i].cells[j]]) = WordsOf(body)

\* validateActionText.
ValidText(text, cfg) ==
  LET fitting == {i \in Headings(text) : cfg.section \in ToSet(text[i].head)}
      body    == IF cfg.section = NoContract THEN text ELSE Section(text, fitting)
  IN cfg # NoContract =>
       /\ ToSet(WordsOf(text)) \cap cfg.forbidden = {}
       /\ cfg.section # NoContract => fitting # {}
       /\ Measured(cfg, body)
       /\ cfg.mirror # NoContract => Mirrors(text, body, cfg.mirror)

-----------------------------------------------------------------------------
(***************************************************************************)
(* reviewActionText: an answer of the reviewer is a rejection, which may   *)
(* be repaired, an approval, or no verdict at all, which ends the action.  *)
(***************************************************************************)
\* The reviewer's decision is believed without looking at its checks.
Ruling_TakesItsWord(v, text) ==
  IF ~v.formed THEN "invalid" ELSE IF v.approved THEN "approved" ELSE "rejected"

\* The reviewer has found every dimension in order and said so.
Passed(v) == /\ v.formed /\ v.approved
             /\ \A d \in Dimensions : \E i \in DOMAIN v.checks : v.checks[i] = <<d, TRUE>>
             /\ \A i \in DOMAIN v.checks : v.checks[i][2]

AllPassed(v) == \A i \in DOMAIN v.checks : v.checks[i][2]
Ruling(v, text) ==
  LET complete == /\ Len(v.checks) = Cardinality(Dimensions)
                  /\ {v.checks[i][1] : i \in DOMAIN v.checks} = Dimensions
      coherent == /\ v.approved = AllPassed(v)
                  /\ v.approved = (v.findings = {})
  IN IF /\ v.formed /\ complete /\ coherent
        /\ v.findings \subseteq {l \in ToSet(text) : ~Blank(l)}
     THEN IF v.approved THEN "approved" ELSE "rejected"
     ELSE "invalid"

-----------------------------------------------------------------------------
(***************************************************************************)
(* Small definitions; before some of them, under a name of its own, what   *)
(* the definition would be after a plausible slip in the code.  No         *)
(* specification uses those: each shows that a property can fail.          *)
(***************************************************************************)
Set(c, record) == call' = [call EXCEPT ![c] = record]
At(c, stage)   == call[c].at = stage
Answer(c, what) == Set(c, [call[c] EXCEPT !.at = "answered", !.answer = what])
\* What the handler returns is kept until InvokeAction has looked at the context.
Return(c, what) == Set(c, [call[c] EXCEPT !.at = "finish", !.answer = what])

\* The rows of every user are stored under the agent.
RowOwner_AgentOnly(version, subject) == AgentWide

\* completionStateOwner and rowStateOwner.
RowOwner(version, subject) ==
  IF Manifest[version].scope = "user" THEN subject ELSE AgentWide

\* A handler that is there already is kept.
Registered_KeepsFirst(action, version) ==
  IF handlers[action] # NoVersion THEN handlers ELSE [handlers EXCEPT ![action] = version]

\* RegisterPackAction.
Registered(action, version) == [handlers EXCEPT ![action] = version]

\* The verdict of the review replaces the one of the validation.
Accepted_ByReview(c, text, approved) == approved

\* Both kinds of feedback are empty.
Accepted(c, text, approved) == approved /\ ValidText(text, DeclOf(call[c]).validation)

\* One attempt more than the limit.
TornForGood_OneMore(c) == call[c].tries >= MaxRetries \/ call[c].over

\* The stream is torn for the last time, or nobody waits any more.
TornForGood(c) == call[c].tries + 1 >= MaxRetries \/ call[c].over

\* The timeout of the declaration is parsed and not used.
Deadline_Unused(k) == FALSE

\* The context of the call has a deadline.
Deadline(k) == Armed(k) /\ k.at \in {"handler", "row", "default", "finish"} \cup Upstream

-----------------------------------------------------------------------------
(***************************************************************************)
(* The gateway.                                                            *)
(***************************************************************************)
Refusal(shape) == CASE shape = "method" -> "405" [] shape = "path" -> "404" [] shape = "body" -> "400"

\* handleAgentAction up to the credential.
Arrive(c, r) ==
  /\ At(c, "idle")
  /\ IF r.shape = "ok" THEN Set(c, [call[c] EXCEPT !.at = "authorize", !.req = r])
     ELSE Set(c, [call[c] EXCEPT !.at = "answered", !.req = r, !.answer = Refusal(r.shape)])
  /\ UNCHANGED others

\* RowTokenSigner.Verify and the claims' comparison.
TokenOpens(r) == r.cred \in Tokens \ lapsed /\ Claims[r.cred] = Target(r)

\* authorizeAction.
Authorize(c) ==
  /\ At(c, "authorize")
  /\ IF call[c].req.cred \in Keys \/ TokenOpens(call[c].req)
     THEN Set(c, [call[c] EXCEPT !.at = "manifest", !.subject = Subject[call[c].req.cred]])
     ELSE Answer(c, "401")
  /\ UNCHANGED others

\* GetAgentManifest.
FindManifest(c) ==
  /\ At(c, "manifest")
  /\ IF call[c].req.agent = Agent /\ agent # NoVersion THEN Set(c, [call[c] EXCEPT !.at = "declare"])
     ELSE Answer(c, "404")
  /\ UNCHANGED others

-----------------------------------------------------------------------------
(***************************************************************************)
(* InvokeAction.                                                           *)
(***************************************************************************)
\* The second Lookup: the declaration and its timeout.
Declare(c) ==
  /\ At(c, "declare")
  /\ LET decl == Manifest[agent].decl[call[c].req.action]
     IN IF decl = Undeclared THEN Answer(c, "404")
        ELSE IF decl.timeout = "bad" THEN Answer(c, "500")
        ELSE Set(c, [call[c] EXCEPT !.at = "handler", !.version = agent, !.steady = settled])
  /\ UNCHANGED others

\* lookupPackAction, and the default handler if there is none.
FindHandler(c) ==
  /\ At(c, "handler")
  /\ Set(c, [call[c] EXCEPT !.at = "row", !.prompt = handlers[call[c].req.action]])
  /\ UNCHANGED others

\* Where the handler begins.
FirstStage(k) == IF k.prompt = NoVersion THEN "default"
                 ELSE IF PromptOf(k).plan THEN "plan" ELSE "draft"

\* loadRowPayload, and what the handler will read as the title.
LoadRow(c) ==
  /\ At(c, "row")
  /\ LET k      == call[c]
         stored == IF Manifest[k.version].scope = "none" THEN NoRow
                   ELSE rows[RowOwner(k.version, k.subject)][k.req.row]
         titled == stored # NoRow /\ stored.title # NoTitle
     IN \/ /\ k.req.edit = "none"
           /\ Set(c, [k EXCEPT !.at = FirstStage(k), !.stored = stored,
                               !.title = IF titled THEN stored.title ELSE k.req.title])
        \/ /\ k.req.edit # "none" /\ (k.req.edit = "bad" \/ ~titled)
           /\ Answer(c, "400")
        \/ /\ k.req.edit \notin {"none", "bad"} /\ titled
           /\ Set(c, [k EXCEPT !.at = FirstStage(k), !.stored = stored,
                               !.title = k.req.edit, !.original = stored.title])
  /\ UNCHANGED others

\* The store fails to give the row.
LoadRowFails(c) ==
  /\ At(c, "row") /\ counts.failures < MaxFailures
  /\ Answer(c, "500")
  /\ counts' = [counts EXCEPT !.failures = @ + 1]
  /\ UNCHANGED <<agent, handlers, deploying, settled, rows, lapsed>>

\* The handler is back; a context that is done wins over its result.
Finish(c) ==
  /\ At(c, "finish")
  /\ Answer(c, IF call[c].over \/ call[c].answer = "error" THEN "500" ELSE call[c].answer)
  /\ UNCHANGED others

\* The deadline passes or the client leaves.
Expire(c) ==
  /\ call[c].at \notin {"idle", "answered"} /\ ~call[c].over
  /\ Set(c, [call[c] EXCEPT !.over = TRUE])
  /\ UNCHANGED others

-----------------------------------------------------------------------------
(***************************************************************************)
(* The handlers.                                                           *)
(***************************************************************************)
\* defaultActionHandler.
RunDefault(c) ==
  /\ At(c, "default")
  /\ Return(c, "queued")
  /\ UNCHANGED others

\* An upstream connection is torn down in mid-stream.
UpstreamTorn(c) ==
  /\ call[c].at \in Upstream
  /\ IF TornForGood(c) THEN Return(c, "error") ELSE Set(c, [call[c] EXCEPT !.tries = @ + 1])
  /\ UNCHANGED others

\* It fails, is cut at its length limit, or sees the context done.
UpstreamFails(c) ==
  /\ call[c].at \in Upstream
  /\ Return(c, "error")
  /\ UNCHANGED others

\* The editorial plan, which may not be empty.
Planned(c, text) ==
  /\ At(c, "plan")
  /\ IF text = <<>> THEN Return(c, "error") ELSE Set(c, [call[c] EXCEPT !.at = "draft", !.tries = 0])
  /\ UNCHANGED others

\* collectValidatedAction when a text is drafted and, if need be, reviewed.
Judge(c, text, approved, passed) ==
  LET k == call[c]
      contract == DeclOf(k).validation
      repairs  == IF contract = NoContract THEN 0 ELSE contract.repairs
  IN IF Accepted(c, text, approved)
     THEN Set(c, [k EXCEPT !.at = "finish", !.answer = "done", !.draft = text, !.passed = passed])
     ELSE IF k.attempt >= repairs THEN Return(c, "error")
     ELSE Set(c, [k EXCEPT !.at = "draft", !.attempt = @ + 1, !.tries = 0, !.draft = NoText])

\* A draft, or a repair of the one before.  An empty one cannot be reviewed.
Drafted(c, text) ==
  /\ At(c, "draft")
  /\ IF ~PromptOf(call[c]).review THEN Judge(c, text, TRUE, FALSE)
     ELSE IF \A i \in DOMAIN text : Blank(text[i])
          THEN Return(c, "error")
          ELSE Set(c, [call[c] EXCEPT !.at = "review", !.tries = 0, !.draft = text])
  /\ UNCHANGED others

\* The reviewer's answer.
Reviewed(c, v) ==
  /\ At(c, "review")
  /\ LET ruling == Ruling(v, call[c].draft)
     IN IF ruling = "invalid" THEN Return(c, "error")
        ELSE Judge(c, call[c].draft, ruling = "approved", Passed(v))
  /\ UNCHANGED others

-----------------------------------------------------------------------------
(***************************************************************************)
(* Around the calls.                                                       *)
(***************************************************************************)
\* No call is between its two lookups undisturbed any more.
Disturbed == [c \in Calls |-> IF At(c, "handler") THEN [call[c] EXCEPT !.steady = FALSE]
                              ELSE call[c]]

\* RegisterFromPack registers the agent of a version first.
Deploy(v) ==
  /\ deploying = 0 /\ counts.deploys < MaxDeploys
  /\ agent' = v /\ deploying' = 1 /\ settled' = FALSE
  /\ call' = Disturbed
  /\ counts' = [counts EXCEPT !.deploys = @ + 1]
  /\ UNCHANGED <<handlers, rows, lapsed>>

\* registerPackActions, one action at a time; a prompt that is missing or empty ends it.
RegisterAction ==
  /\ deploying # 0
  /\ LET action   == Actions[deploying]
         declared == Manifest[agent].decl[action] # Undeclared
         last     == deploying = Len(Actions)
     IN IF declared /\ Prompt[agent][action] = Missing
        THEN deploying' = 0 /\ UNCHANGED <<handlers, settled>>
        ELSE /\ handlers' = IF declared THEN Registered(action, agent) ELSE handlers
             /\ deploying' = IF last THEN 0 ELSE deploying + 1
             /\ settled' = last
  /\ call' = Disturbed
  /\ UNCHANGED <<agent, rows, lapsed, counts>>

\* One Put of persistWorkbookRows, in a turn of the subject.
WriteRow(subject, r, title) ==
  /\ agent # NoVersion /\ Manifest[agent].scope # "none" /\ counts.writes < MaxWrites
  /\ rows' = [rows EXCEPT ![RowOwner(agent, subject)][r] = [by |-> subject, title |-> title]]
  /\ counts' = [counts EXCEPT !.writes = @ + 1]
  /\ UNCHANGED <<call, agent, handlers, deploying, settled, lapsed>>

\* A row token reaches its expiry.
Lapse(token) ==
  /\ token \notin lapsed
  /\ lapsed' = lapsed \cup {token}
  /\ UNCHANGED <<call, agent, handlers, deploying, settled, rows, counts>>

-----------------------------------------------------------------------------
\* A step of the call that waits for nobody.
Step(c) ==
  \/ Authorize(c) \/ FindManifest(c) \/ Declare(c) \/ FindHandler(c)
  \/ LoadRow(c) \/ RunDefault(c) \/ Finish(c)

\* A step that an upstream model takes.
Reply(c) ==
  \/ UpstreamTorn(c) \/ UpstreamFails(c)
  \/ \E text \in Texts : Planned(c, text) \/ Drafted(c, text)
  \/ \E v \in Verdicts : Reviewed(c, v)

Next ==
  \/ \E c \in Calls : \/ \E r \in Requests : Arrive(c, r)
                      \/ Step(c) \/ Reply(c) \/ LoadRowFails(c) \/ Expire(c)
  \/ \E v \in Versions : Deploy(v)
  \/ RegisterAction
  \/ \E s \in Subjects, r \in RowIds, t \in Titles \cup {NoTitle} : WriteRow(s, r, t)
  \/ \E token \in Tokens : Lapse(token)

(***************************************************************************)
(* The code of a call runs on.  A model may be silent for ever: only a     *)
(* deadline ends such a call, when its timer fires and the HTTP client     *)
(* gives the request up.  Nothing else is owed: no request has to arrive,  *)
(* no deployment to be made.                                               *)
(***************************************************************************)
Fairness ==
  \A c \in Calls :
    /\ WF_vars(Step(c))
    /\ WF_vars(Deadline(call[c]) /\ Expire(c))
    /\ WF_vars(call[c].over /\ UpstreamFails(c))

Spec == Init /\ [][Next]_vars /\ Fairness

-----------------------------------------------------------------------------
Rows == [by : Subjects, title : Titles \cup {NoTitle}]

\* Every variable of the gateway, the kernel and the store stays in its type.
TypeOK ==
  /\ \A c \in Calls :
       LET k == call[c]
       IN /\ k.at \in Stages /\ k.req \in Requests /\ k.subject \in Owners
          /\ k.version \in Versions \cup {NoVersion} /\ k.prompt \in Versions \cup {NoVersion}
          /\ k.stored \in Rows \cup {NoRow}
          /\ k.attempt \in Nat /\ k.tries \in 0..MaxRetries - 1
          /\ k.draft \in Texts \cup {NoText} /\ k.passed \in BOOLEAN
  /\ agent \in Versions \cup {NoVersion}
  /\ handlers \in [ToSet(Actions) -> Versions \cup {NoVersion}]
  /\ deploying \in 0..Len(Actions)
  /\ lapsed \subseteq Tokens

\* A text is handed out only if it meets the contract of the declaration the
\* call was admitted under and, where the handler has a reviewer, that reviewer
\* passed this very text on every dimension: not one it saw before a repair.
ApprovedTextOnly ==
  \A c \in Calls :
    LET k == call[c]
    IN k.answer = "done" =>
         /\ ValidText(k.draft, DeclOf(k).validation)
         /\ PromptOf(k).review => k.passed

\* Whatever is deployed and persisted meanwhile, a handler reads a row of the
\* caller's own where rows belong to users, the stored title unless the caller
\* edits it, and an edit only with the stored title beside it.
PayloadIsGrounded ==
  \A c \in Calls :
    LET k == call[c]
    IN k.at \in {"default", "finish"} \cup Upstream =>
         /\ k.stored # NoRow /\ Manifest[k.version].scope = "user" => k.stored.by = k.subject
         /\ k.req.edit = "none" /\ k.stored # NoRow =>
              k.title = (IF k.stored.title = NoTitle THEN k.req.title ELSE k.stored.title)
         /\ k.req.edit # "none" => /\ k.title = k.req.edit
                                   /\ k.original = k.stored.title /\ k.original # NoTitle

\* A call that no deployment came between runs the prompts of the version whose
\* declaration it checked.
SettledCallsMatch ==
  \A c \in Calls :
    call[c].steady /\ call[c].at \in {"row", "default", "finish"} \cup Upstream =>
      call[c].prompt = call[c].version

\* Both: a call's payload, declaration and prompts belong together.
CallsAreConsistent == PayloadIsGrounded /\ SettledCallsMatch

\* A call admitted under a timeout is answered, however silent the model.
DeadlinesAnswer == \A c \in Calls : Armed(call[c]) ~> call[c].at = "answered"
=============================================================================
