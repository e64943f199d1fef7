---------------------------- MODULE RowActionsProofs ----------------------------
(***************************************************************************)
(* Proofs about RowActions, for any calls, requests, versions, manifests,  *)
(* texts and verdicts.  Everything the properties say of a call is said of *)
(* its record alone, but for one fact: while no deployment comes between   *)
(* its two lookups, the handler it will find is of the version it has      *)
(* looked up.  A step of a call therefore needs only its new record to be  *)
(* good, and a step around the calls only to keep that fact.               *)
(***************************************************************************)
EXTENDS RowActions, TLAPS

Answers == {"none", "400", "401", "404", "405", "500", "done", "queued", "error"}
AnyTitle == Titles \cup {NoTitle} \cup {r.title : r \in Requests} \cup {r.edit : r \in Requests}
Admitted == {"default", "finish"} \cup Upstream   \* stages after the row is loaded

CallType ==
  [at : Stages, req : Requests, subject : Owners, version : Versions \cup {NoVersion},
   prompt : Versions \cup {NoVersion}, steady : BOOLEAN, stored : Rows \cup {NoRow},
   title : AnyTitle, original : AnyTitle, attempt : Nat, tries : 0..MaxRetries - 1,
   draft : Texts \cup {NoText}, passed : BOOLEAN, over : BOOLEAN, answer : Answers]

\* Past its credential a call is its subject's.
Known(k) == k.at \notin {"idle", "authorize", "answered"} => k.subject \in Subjects

Approved(k) ==
  k.answer = "done" =>
    /\ k.at \in {"finish", "answered"}
    /\ ValidText(k.draft, DeclOf(k).validation)
    /\ PromptOf(k).review => k.passed

\* While the handler works its result is open.
Open(k) == k.at \notin {"finish", "answered"} => k.answer = "none"

Grounded(k) ==
  k.at \in Admitted =>
    /\ k.stored # NoRow /\ Manifest[k.version].scope = "user" => k.stored.by = k.subject
    /\ k.req.edit = "none" /\ k.stored # NoRow =>
         k.title = (IF k.stored.title = NoTitle THEN k.req.title ELSE k.stored.title)
    /\ k.req.edit # "none" => /\ k.title = k.req.edit
                              /\ k.original = k.stored.title /\ k.original # NoTitle

Matched(k) == k.steady /\ k.at \in {"row"} \cup Admitted => k.prompt = k.version

Sound(k) == Known(k) /\ Approved(k) /\ Open(k) /\ Grounded(k) /\ Matched(k)

\* The handler that an undisturbed call will find.
Ready(k) == k.at = "handler" /\ k.steady => handlers[k.req.action] = k.version

Good(k) == k \in CallType /\ Sound(k) /\ Ready(k)

CallsGood == call \in [Calls -> CallType] /\ \A c \in Calls : Sound(call[c]) /\ Ready(call[c])

Declared(a) == Manifest[agent].decl[a] # Undeclared

Deployed ==
  /\ agent \in Versions \cup {NoVersion}
  /\ handlers \in [ToSet(Actions) -> Versions \cup {NoVersion}]
  /\ deploying \in 0..Len(Actions)
  /\ settled \in BOOLEAN
  /\ \A i \in 1..deploying - 1 : Declared(Actions[i]) => handlers[Actions[i]] = agent
  /\ settled => \A a \in ToSet(Actions) : Declared(a) => handlers[a] = agent
  /\ deploying # 0 => ~settled

Stored ==
  /\ rows \in [Owners -> [RowIds -> Rows \cup {NoRow}]]
  /\ \A o \in Subjects, r \in RowIds : rows[o][r] # NoRow => rows[o][r].by = o
  /\ lapsed \subseteq Tokens

IInv == CallsGood /\ Deployed /\ Stored

-----------------------------------------------------------------------------
(***************************************************************************)
(* Steps of a call.                                                        *)
(***************************************************************************)
LEMMA CallStep ==
  ASSUME IInv, NEW c \in Calls, NEW k, Good(k), Set(c, k),
         UNCHANGED <<agent, handlers, deploying, settled, rows, lapsed>>
  PROVE  IInv'
<1>1. CallsGood'
  <2>1. call' \in [Calls -> CallType]
    BY DEF IInv, CallsGood, Good, Set
  <2>2. ASSUME NEW d \in Calls PROVE Sound(call'[d]) /\ Ready(call'[d])
    <3>1. CASE d = c
      BY <3>1 DEF IInv, CallsGood, Good, Set
    <3>2. CASE d # c
      BY <3>2 DEF IInv, CallsGood, Set
    <3> QED BY <3>1, <3>2
  <2>3. ASSUME NEW d \in Calls PROVE Ready(call[d])'
    BY <2>2, <2>3 DEF Ready
  <2>4. ASSUME NEW d \in Calls PROVE Sound(call[d])'
    BY <2>2, <2>4 DEF Sound, Known, Approved, Open, Grounded, Matched, DeclOf, PromptOf
  <2> QED BY <2>1, <2>3, <2>4 DEF CallsGood
<1>2. Deployed'
  BY DEF IInv, Deployed, Declared
<1>3. Stored'
  BY DEF IInv, Stored
<1> QED BY <1>1, <1>2, <1>3 DEF IInv

\* A call that is answered otherwise than with a text is good.
LEMMA Answered ==
  ASSUME NEW k, Good(k), NEW what \in Answers \ {"done"}
  PROVE  Good([k EXCEPT !.at = "answered", !.answer = what])
BY ZenonT(30) DEF Good, CallType, Sound, Known, Approved, Open, Grounded, Matched, Ready, Stages, Admitted, Upstream, DeclOf, PromptOf

\* So is one whose handler returns nothing.
LEMMA Returned ==
  ASSUME NEW k, Good(k), k.at \in {"default"} \cup Upstream, NEW what \in {"queued", "error"}
  PROVE  Good([k EXCEPT !.at = "finish", !.answer = what])
<1> DEFINE n == [k EXCEPT !.at = "finish", !.answer = what]
<1>1. k \in CallType /\ Sound(k)
  BY DEF Good
<1>2. n \in CallType
  BY <1>1, ZenonT(30) DEF CallType, Stages, Answers
<1>3. /\ n.at = "finish" /\ n.answer = what
      /\ n.subject = k.subject /\ n.stored = k.stored /\ n.version = k.version
      /\ n.req = k.req /\ n.title = k.title /\ n.original = k.original
      /\ n.steady = k.steady /\ n.prompt = k.prompt
  BY <1>1 DEF CallType
<1> HIDE DEF n
<1>4. Known(n) /\ Matched(n)
  BY <1>1, <1>3 DEF Sound, Known, Matched, Admitted, Upstream
<1>5. Approved(n) /\ Open(n) /\ Ready(n)
  BY <1>3 DEF Approved, Open, Ready
<1>6. Grounded(n)
  BY <1>1, <1>3 DEF Sound, Grounded, Admitted, Upstream
<1> QED
  BY <1>2, <1>4, <1>5, <1>6 DEF Good, Sound, n

LEMMA GoodNow ==
  ASSUME IInv, NEW c \in Calls
  PROVE  Good(call[c])
BY DEF IInv, CallsGood, Good

LEMMA ArriveIInv ==
  ASSUME IInv, NEW c \in Calls, NEW r \in Requests, Arrive(c, r)
  PROVE  IInv'
<1> DEFINE k == call[c]
<1>1. Good(k) /\ k.at = "idle" /\ UNCHANGED <<agent, handlers, deploying, settled, rows, lapsed>>
  BY GoodNow DEF Arrive, At, others
<1>2. CASE r.shape = "ok"
  <2> DEFINE n == [k EXCEPT !.at = "authorize", !.req = r]
  <2>1. Set(c, n)
    BY <1>2 DEF Arrive
  <2>2. Good(n)
    BY <1>1 DEF Good, CallType, Stages, Sound, Known, Approved, Open, Grounded, Matched, Ready,
                Admitted, Upstream
  <2> QED BY <1>1, <2>1, <2>2, CallStep
<1>3. CASE r.shape # "ok"
  <2> DEFINE what == Refusal(r.shape)
             n    == [k EXCEPT !.at = "answered", !.req = r, !.answer = what]
  <2>1. Set(c, n)
    BY <1>3 DEF Arrive
  <2>2. what \in {"400", "404", "405"}
    BY <1>3, RequestsAssumption DEF Refusal
  <2> HIDE DEF what
  <2>3. Good(n)
    BY <1>1, <2>2, ZenonT(30) DEF Good, CallType, Stages, Sound, Known, Approved, Open, Grounded, Matched,
                      Ready, Admitted, Upstream, Answers
  <2> QED BY <1>1, <2>1, <2>3, CallStep
<1> QED BY <1>2, <1>3

LEMMA AuthorizeIInv ==
  ASSUME IInv, NEW c \in Calls, Authorize(c)
  PROVE  IInv'
<1> DEFINE k == call[c]
           n == [k EXCEPT !.at = "manifest", !.subject = Subject[k.req.cred]]
           m == [k EXCEPT !.at = "answered", !.answer = "401"]
<1>1. Good(k) /\ k.at = "authorize" /\ UNCHANGED <<agent, handlers, deploying, settled, rows, lapsed>>
  BY GoodNow DEF Authorize, At, others
<1>2. CASE k.req.cred \in Keys \/ TokenOpens(k.req)
  <2>1. Set(c, n)
    BY <1>2 DEF Authorize
  <2>2. Subject[k.req.cred] \in Subjects
    BY <1>2 DEF TokenOpens, Subjects
  <2>3. Good(n)
    BY <1>1, <2>2 DEF Good, CallType, Stages, Sound, Known, Approved, Open, Grounded, Matched,
                      Ready, Admitted, Upstream, Owners
  <2> QED BY <1>1, <2>1, <2>3, CallStep
<1>3. CASE ~(k.req.cred \in Keys \/ TokenOpens(k.req))
  <2>1. Set(c, m)
    BY <1>3 DEF Authorize, Answer
  <2>2. Good(m)
    BY <1>1, Answered DEF Answers
  <2> QED BY <1>1, <2>1, <2>2, CallStep
<1> QED BY <1>2, <1>3

LEMMA FindManifestIInv ==
  ASSUME IInv, NEW c \in Calls, FindManifest(c)
  PROVE  IInv'
<1> DEFINE k == call[c]
           n == [k EXCEPT !.at = "declare"]
           m == [k EXCEPT !.at = "answered", !.answer = "404"]
<1>1. Good(k) /\ k.at = "manifest" /\ UNCHANGED <<agent, handlers, deploying, settled, rows, lapsed>>
  BY GoodNow DEF FindManifest, At, others
<1>2. Set(c, n) \/ Set(c, m)
  BY DEF FindManifest, Answer
<1>3. Good(n)
  BY <1>1 DEF Good, CallType, Stages, Sound, Known, Approved, Open, Grounded, Matched,
              Ready, Admitted, Upstream
<1>4. Good(m)
  BY <1>1, Answered DEF Answers
<1> QED BY <1>1, <1>2, <1>3, <1>4, CallStep

LEMMA DeclareIInv ==
  ASSUME IInv, NEW c \in Calls, Declare(c)
  PROVE  IInv'
<1> DEFINE k == call[c]
           n == [k EXCEPT !.at = "handler", !.version = agent, !.steady = settled]
<1>1. Good(k) /\ k.at = "declare" /\ UNCHANGED <<agent, handlers, deploying, settled, rows, lapsed>>
  BY GoodNow DEF Declare, At, others
<1>2. CASE Set(c, n) /\ Manifest[agent].decl[k.req.action] # Undeclared
  <2>1. k.req.action \in ToSet(Actions)
    BY <1>1, RequestsAssumption DEF Good, CallType
  <2>2. settled => handlers[k.req.action] = agent
    BY <1>2, <2>1 DEF IInv, Deployed, Declared
  <2>3. agent \in Versions \cup {NoVersion} /\ settled \in BOOLEAN
    BY DEF IInv, Deployed
  <2>4. Good(n)
    BY <1>1, <2>2, <2>3 DEF Good, CallType, Stages, Sound, Known, Approved, Open, Grounded,
                            Matched, Ready, Admitted, Upstream
  <2> QED BY <1>1, <1>2, <2>4, CallStep
<1>3. ASSUME NEW what \in {"404", "500"}, Set(c, [k EXCEPT !.at = "answered", !.answer = what])
      PROVE  IInv'
  <2>1. Good([k EXCEPT !.at = "answered", !.answer = what])
    BY <1>1, Answered DEF Answers
  <2> QED BY <1>1, <1>3, <2>1, CallStep
<1> QED BY <1>2, <1>3 DEF Declare, Answer

LEMMA FindHandlerIInv ==
  ASSUME IInv, NEW c \in Calls, FindHandler(c)
  PROVE  IInv'
<1> DEFINE k == call[c]
           n == [k EXCEPT !.at = "row", !.prompt = handlers[k.req.action]]
<1>1. Good(k) /\ k.at = "handler" /\ UNCHANGED <<agent, handlers, deploying, settled, rows, lapsed>>
  BY GoodNow DEF FindHandler, At, others
<1>2. handlers[k.req.action] \in Versions \cup {NoVersion}
  BY <1>1, RequestsAssumption DEF Good, CallType, IInv, Deployed
<1>3. Good(n)
  BY <1>1, <1>2 DEF Good, CallType, Stages, Sound, Known, Approved, Open, Grounded,
                    Matched, Ready, Admitted, Upstream
<1>4. Set(c, n)
  BY DEF FindHandler
<1> QED BY <1>1, <1>3, <1>4, CallStep
LEMMA LoadRowIInv ==
  ASSUME IInv, NEW c \in Calls, LoadRow(c)
  PROVE  IInv'
<1> DEFINE k      == call[c]
           none   == Manifest[k.version].scope = "none"
           stored == IF none THEN NoRow ELSE rows[RowOwner(k.version, k.subject)][k.req.row]
           titled == stored # NoRow /\ stored.title # NoTitle
           title  == IF titled THEN stored.title ELSE k.req.title
           n == [k EXCEPT !.at = FirstStage(k), !.stored = stored, !.title = title]
           m == [k EXCEPT !.at = FirstStage(k), !.stored = stored,
                          !.title = k.req.edit, !.original = stored.title]
           x == [k EXCEPT !.at = "answered", !.answer = "400"]
<1>1. Good(k) /\ k.at = "row" /\ UNCHANGED <<agent, handlers, deploying, settled, rows, lapsed>>
  BY GoodNow DEF LoadRow, At, others
<1>2. k.req.row \in RowIds /\ k.subject \in Subjects /\ k.req \in Requests
  BY <1>1, RequestsAssumption DEF Good, CallType, Sound, Known
<1>3. /\ stored \in Rows \cup {NoRow}
      /\ stored # NoRow /\ Manifest[k.version].scope = "user" => stored.by = k.subject
  <2>1. /\ RowOwner(k.version, k.subject) \in Owners
        /\ Manifest[k.version].scope = "user" => RowOwner(k.version, k.subject) = k.subject
    BY <1>2 DEF RowOwner, Owners
  <2> QED BY <1>2, <2>1 DEF IInv, Stored
<1>4. FirstStage(k) \in {"default", "plan", "draft"}
  BY DEF FirstStage
<1> HIDE DEF stored, none
<1>5. CASE k.req.edit = "none" /\ Set(c, n)
  <2>1. title \in AnyTitle
    BY <1>2, <1>3 DEF AnyTitle, Rows
  <2> HIDE DEF title
  <2>2. n \in CallType
    BY <1>1, <1>3, <1>4, <2>1 DEF Good, CallType, Stages
  <2>3. /\ n.at = FirstStage(k) /\ n.stored = stored /\ n.title = title /\ n.req = k.req
        /\ n.subject = k.subject /\ n.version = k.version /\ n.answer = k.answer
        /\ n.steady = k.steady /\ n.prompt = k.prompt
    BY <1>1 DEF Good, CallType
  <2>4. Sound(n)
    <3>1. Known(n) /\ Matched(n) /\ Open(n) /\ Approved(n)
      BY <1>1, <1>2, <1>4, <2>3 DEF Good, Sound, Known, Matched, Open, Approved, Admitted
    <3>2. Grounded(n)
      BY <1>3, <1>5, <2>3 DEF Grounded, title
    <3> QED BY <3>1, <3>2 DEF Sound
  <2>5. Ready(n)
    BY <1>4, <2>3 DEF Ready
  <2> QED BY <1>1, <1>5, <2>2, <2>4, <2>5, CallStep DEF Good
<1>6. CASE k.req.edit \notin {"none", "bad"} /\ titled /\ Set(c, m)
  <2>1. k.req.edit \in AnyTitle /\ stored.title \in AnyTitle /\ stored.title # NoTitle
    BY <1>2, <1>3, <1>6 DEF AnyTitle, Rows
  <2>2. m \in CallType
    BY <1>1, <1>3, <1>4, <2>1 DEF Good, CallType, Stages
  <2>3. /\ m.at = FirstStage(k) /\ m.stored = stored /\ m.title = k.req.edit /\ m.req = k.req
        /\ m.original = stored.title
        /\ m.subject = k.subject /\ m.version = k.version /\ m.answer = k.answer
        /\ m.steady = k.steady /\ m.prompt = k.prompt
    BY <1>1 DEF Good, CallType
  <2>4. Sound(m)
    <3>1. Known(m) /\ Matched(m) /\ Open(m) /\ Approved(m)
      BY <1>1, <1>2, <1>4, <2>3 DEF Good, Sound, Known, Matched, Open, Approved, Admitted
    <3>2. Grounded(m)
      BY <1>3, <1>6, <2>1, <2>3 DEF Grounded
    <3> QED BY <3>1, <3>2 DEF Sound
  <2>5. Ready(m)
    BY <1>4, <2>3 DEF Ready
  <2> QED BY <1>1, <1>6, <2>2, <2>4, <2>5, CallStep DEF Good
<1>7. CASE Set(c, x)
  <2>1. Good(x)
    BY <1>1, Answered DEF Answers
  <2> QED BY <1>1, <1>7, <2>1, CallStep
<1> QED BY <1>5, <1>6, <1>7 DEF LoadRow, Answer, stored, none

LEMMA LoadRowFailsIInv ==
  ASSUME IInv, NEW c \in Calls, LoadRowFails(c)
  PROVE  IInv'
<1> DEFINE n == [call[c] EXCEPT !.at = "answered", !.answer = "500"]
<1>1. Good(n)
  BY GoodNow, Answered DEF Answers
<1>2. Set(c, n) /\ UNCHANGED <<agent, handlers, deploying, settled, rows, lapsed>>
  BY DEF LoadRowFails, Answer
<1> QED BY <1>1, <1>2, CallStep

LEMMA FinishIInv ==
  ASSUME IInv, NEW c \in Calls, Finish(c)
  PROVE  IInv'
<1> DEFINE k    == call[c]
           what == IF k.over \/ k.answer = "error" THEN "500" ELSE k.answer
           n    == [k EXCEPT !.at = "answered", !.answer = what]
<1>1. Good(k) /\ k.at = "finish" /\ UNCHANGED <<agent, handlers, deploying, settled, rows, lapsed>>
  BY GoodNow DEF Finish, At, others
<1>2. Set(c, n)
  BY DEF Finish, Answer
<1>3. what \in Answers /\ (what = "done" => k.answer = "done")
  BY <1>1 DEF Good, CallType, Answers
<1> HIDE DEF what
<1>4. n \in CallType
  BY <1>1, <1>3 DEF Good, CallType, Stages
<1>5. /\ n.at = "answered" /\ n.answer = what /\ n.draft = k.draft /\ n.passed = k.passed
      /\ n.version = k.version /\ n.prompt = k.prompt /\ n.req = k.req
  BY <1>1 DEF Good, CallType
<1> HIDE DEF n
<1>6. Known(n) /\ Open(n) /\ Grounded(n) /\ Matched(n) /\ Ready(n)
  BY <1>5 DEF Known, Open, Grounded, Matched, Ready, Admitted, Upstream
<1>7. Approved(n)
  BY <1>1, <1>3, <1>5 DEF Good, Sound, Approved, DeclOf, PromptOf
<1>8. Good(n)
  BY <1>4, <1>6, <1>7 DEF Good, Sound, n
<1> QED BY <1>1, <1>2, <1>8, CallStep

\* Fields that no predicate looks at.
LEMMA Aside ==
  ASSUME NEW k, Good(k), NEW n \in CallType,
         /\ n.at = k.at /\ n.req = k.req /\ n.subject = k.subject /\ n.version = k.version
         /\ n.prompt = k.prompt /\ n.steady = k.steady /\ n.stored = k.stored
         /\ n.title = k.title /\ n.original = k.original /\ n.answer = k.answer
         /\ n.draft = k.draft /\ n.passed = k.passed
  PROVE  Good(n)
BY DEF Good, Sound, Known, Approved, Open, Grounded, Matched, Ready, DeclOf, PromptOf

LEMMA ExpireIInv ==
  ASSUME IInv, NEW c \in Calls, Expire(c)
  PROVE  IInv'
<1> DEFINE n == [call[c] EXCEPT !.over = TRUE]
<1>1. Good(call[c]) /\ UNCHANGED <<agent, handlers, deploying, settled, rows, lapsed>>
  BY GoodNow DEF Expire, others
<1>2. Set(c, n)
  BY DEF Expire
<1>3. Good(n)
  BY <1>1, Aside DEF Good, CallType
<1> QED BY <1>1, <1>2, <1>3, CallStep

-----------------------------------------------------------------------------
(***************************************************************************)
(* The handlers.  Until its result is accepted a call has none, and its    *)
(* stage moves among those after the row.                                  *)
(***************************************************************************)
\* A call may always count its attempts from nothing.
LEMMA FirstTry == /\ MaxRetries \in Nat /\ 0 \in 0..MaxRetries - 1
                  /\ \A n \in 0..MaxRetries - 1 : n + 1 < MaxRetries => n + 1 \in 0..MaxRetries - 1
<1>1. MaxRetries \in Nat \ {0}
  BY ActionsAssumption
<1> QED BY <1>1

LEMMA ReturnIInv ==
  ASSUME IInv, NEW c \in Calls, call[c].at \in {"default"} \cup Upstream,
         NEW what \in {"queued", "error"}, Return(c, what), UNCHANGED others
  PROVE  IInv'
<1>1. Good([call[c] EXCEPT !.at = "finish", !.answer = what])
  BY GoodNow, Returned
<1> QED BY <1>1, CallStep DEF Return, others

\* A call moves on among the stages of its handler.
LEMMA Onward ==
  ASSUME NEW k, Good(k), k.at \in Upstream, NEW n \in CallType,
         n.at \in {"draft", "review"},
         /\ n.req = k.req /\ n.subject = k.subject /\ n.version = k.version
         /\ n.prompt = k.prompt /\ n.steady = k.steady /\ n.stored = k.stored
         /\ n.title = k.title /\ n.original = k.original /\ n.answer = k.answer
  PROVE  Good(n)
<1>1. Known(n) /\ Open(n) /\ Approved(n)
  BY DEF Good, Sound, Known, Open, Approved, Upstream
<1>2. Matched(n) /\ Ready(n)
  BY DEF Good, Sound, Matched, Ready, Admitted, Upstream
<1>3. Grounded(n)
  BY DEF Good, Sound, Grounded, Admitted, Upstream
<1> QED BY <1>1, <1>2, <1>3 DEF Good, Sound

LEMMA RunDefaultIInv ==
  ASSUME IInv, NEW c \in Calls, RunDefault(c)
  PROVE  IInv'
BY ReturnIInv DEF RunDefault, At

LEMMA UpstreamTornIInv ==
  ASSUME IInv, NEW c \in Calls, UpstreamTorn(c)
  PROVE  IInv'
<1> DEFINE n == [call[c] EXCEPT !.tries = @ + 1]
<1>1. CASE TornForGood(c)
  BY <1>1, ReturnIInv DEF UpstreamTorn
<1>2. CASE ~TornForGood(c)
  <2>1. Good(call[c]) /\ UNCHANGED <<agent, handlers, deploying, settled, rows, lapsed>>
    BY GoodNow DEF UpstreamTorn, others
  <2>2. Set(c, n)
    BY <1>2 DEF UpstreamTorn
  <2>3. n \in CallType
    <3>1. ~(call[c].tries + 1 >= MaxRetries) /\ call[c].tries \in 0..MaxRetries - 1
      BY <1>2, <2>1 DEF Good, CallType, TornForGood
    <3>2. call[c].tries + 1 \in 0..MaxRetries - 1
      BY <3>1, FirstTry
    <3> QED BY <2>1, <3>2 DEF Good, CallType
  <2>4. Good(n)
    BY <2>1, <2>3, Aside DEF Good, CallType
  <2> QED BY <2>1, <2>2, <2>4, CallStep
<1> QED BY <1>1, <1>2

LEMMA UpstreamFailsIInv ==
  ASSUME IInv, NEW c \in Calls, UpstreamFails(c)
  PROVE  IInv'
BY ReturnIInv DEF UpstreamFails

LEMMA PlannedIInv ==
  ASSUME IInv, NEW c \in Calls, NEW text \in Texts, Planned(c, text)
  PROVE  IInv'
<1> DEFINE n == [call[c] EXCEPT !.at = "draft", !.tries = 0]
<1>1. CASE text = <<>>
  BY <1>1, ReturnIInv DEF Planned, At, Upstream
<1>2. CASE text # <<>>
  <2>1. /\ Good(call[c]) /\ call[c].at = "plan"
        /\ UNCHANGED <<agent, handlers, deploying, settled, rows, lapsed>>
    BY GoodNow DEF Planned, At, others
  <2>2. Set(c, n)
    BY <1>2 DEF Planned
  <2>3. n \in CallType
    BY <2>1, FirstTry DEF Good, CallType, Stages
  <2>4. Good(n)
    BY <2>1, <2>3, Onward DEF Good, CallType, Upstream
  <2> QED BY <2>1, <2>2, <2>4, CallStep
<1> QED BY <1>1, <1>2

\* A text is accepted only if it is valid and whoever had to approve it did.
LEMMA JudgeIInv ==
  ASSUME IInv, NEW c \in Calls, call[c].at \in {"draft", "review"},
         NEW text \in Texts \cup {NoText}, NEW approved, NEW passed \in BOOLEAN,
         Judge(c, text, approved, passed), UNCHANGED others,
         approved /\ PromptOf(call[c]).review => passed
  PROVE  IInv'
<1> DEFINE k == call[c]
           n == [k EXCEPT !.at = "finish", !.answer = "done", !.draft = text, !.passed = passed]
           m == [k EXCEPT !.at = "draft", !.attempt = @ + 1, !.tries = 0, !.draft = NoText]
<1>1. Good(k) /\ k \in CallType /\ UNCHANGED <<agent, handlers, deploying, settled, rows, lapsed>>
  BY GoodNow DEF Good, others
<1>2. CASE Accepted(c, text, approved) /\ Set(c, n)
  <2>1. n \in CallType
    BY <1>1, ZenonT(30) DEF CallType, Stages, Answers
  <2>2. /\ n.at = "finish" /\ n.answer = "done" /\ n.draft = text /\ n.passed = passed
        /\ n.req = k.req /\ n.subject = k.subject /\ n.version = k.version
        /\ n.prompt = k.prompt /\ n.steady = k.steady /\ n.stored = k.stored
        /\ n.title = k.title /\ n.original = k.original
    BY <1>1 DEF CallType
  <2> HIDE DEF n
  <2>3. Known(n) /\ Open(n) /\ Ready(n)
    BY <1>1, <2>2 DEF Good, Sound, Known, Open, Ready
  <2>4. Approved(n)
    <3>1. ValidText(n.draft, DeclOf(n).validation)
      BY <1>2, <2>2 DEF Accepted, DeclOf
    <3>2. PromptOf(n).review => n.passed
      BY <1>2, <2>2 DEF Accepted, PromptOf
    <3> QED BY <2>2, <3>1, <3>2 DEF Approved
  <2>5. Matched(n)
    BY <1>1, <2>2 DEF Good, Sound, Matched, Admitted, Upstream
  <2>6. Grounded(n)
    BY <1>1, <2>2 DEF Good, Sound, Grounded, Admitted, Upstream
  <2>7. Good(n)
    BY <2>1, <2>3, <2>4, <2>5, <2>6 DEF Good, Sound
  <2> QED BY <1>1, <1>2, <2>7, CallStep DEF n
<1>3. CASE Return(c, "error")
  BY <1>3, ReturnIInv DEF Upstream
<1>4. CASE Set(c, m)
  <2>1. m \in CallType
    <3>1. k.attempt + 1 \in Nat
      BY <1>1 DEF CallType
    <3> QED BY <1>1, <3>1, FirstTry DEF CallType, Stages
  <2>2. Good(m)
    BY <1>1, <2>1, Onward DEF CallType, Upstream
  <2> QED BY <1>1, <1>4, <2>2, CallStep
<1> QED BY <1>2, <1>3, <1>4 DEF Judge

LEMMA DraftedIInv ==
  ASSUME IInv, NEW c \in Calls, NEW text \in Texts, Drafted(c, text)
  PROVE  IInv'
<1> DEFINE n == [call[c] EXCEPT !.at = "review", !.tries = 0, !.draft = text]
<1>1. /\ Good(call[c]) /\ call[c].at = "draft"
      /\ UNCHANGED <<agent, handlers, deploying, settled, rows, lapsed>> /\ UNCHANGED others
  BY GoodNow DEF Drafted, At, others
<1>2. CASE ~PromptOf(call[c]).review
  <2>1. Judge(c, text, TRUE, FALSE)
    BY <1>2 DEF Drafted
  <2> QED BY <1>1, <1>2, <2>1, JudgeIInv
<1>3. CASE Return(c, "error")
  BY <1>1, <1>3, ReturnIInv DEF Upstream
<1>4. CASE Set(c, n)
  <2>1. n \in CallType
    BY <1>1, FirstTry DEF Good, CallType, Stages
  <2>2. Good(n)
    BY <1>1, <2>1, Onward DEF Good, CallType, Upstream
  <2> QED BY <1>1, <1>4, <2>2, CallStep
<1> QED BY <1>2, <1>3, <1>4 DEF Drafted

\* A reviewer that approves has passed the text on every dimension.
LEMMA ApprovalPasses ==
  ASSUME NEW v \in Verdicts, NEW text, Ruling(v, text) = "approved"
  PROVE  Passed(v)
<1>1. /\ v.formed /\ v.approved
      /\ v.approved = AllPassed(v)
      /\ {v.checks[i][1] : i \in DOMAIN v.checks} = Dimensions
  BY DEF Ruling
<1>2. \A i \in DOMAIN v.checks : v.checks[i][2]
  BY <1>1 DEF AllPassed
<1>3. ASSUME NEW d \in Dimensions PROVE \E i \in DOMAIN v.checks : v.checks[i] = <<d, TRUE>>
  <2>1. PICK i \in DOMAIN v.checks : v.checks[i][1] = d
    BY <1>1
  <2>2. v.checks[i] = <<v.checks[i][1], v.checks[i][2]>> /\ v.checks[i][2] = TRUE
    BY <1>2, VerdictsAssumption
  <2> QED BY <2>1, <2>2
<1> QED BY <1>1, <1>2, <1>3 DEF Passed

LEMMA ReviewedIInv ==
  ASSUME IInv, NEW c \in Calls, NEW v \in Verdicts, Reviewed(c, v)
  PROVE  IInv'
<1> DEFINE k == call[c]
           ruling == Ruling(v, k.draft)
<1>1. Good(k) /\ k.at = "review" /\ UNCHANGED others
  BY GoodNow DEF Reviewed, At
<1>2. CASE Return(c, "error")
  BY <1>1, <1>2, ReturnIInv DEF Upstream
<1>3. CASE Judge(c, k.draft, ruling = "approved", Passed(v))
  <2>1. ruling = "approved" => Passed(v)
    BY ApprovalPasses
  <2>2. Passed(v) \in BOOLEAN
    BY DEF Passed
  <2>3. k.draft \in Texts \cup {NoText}
    BY <1>1 DEF Good, CallType
  <2> QED BY <1>1, <1>3, <2>1, <2>2, <2>3, JudgeIInv
<1> QED BY <1>2, <1>3 DEF Reviewed

-----------------------------------------------------------------------------
(***************************************************************************)
(* Around the calls.  A step of a deployment leaves no call steady that is *)
(* between its lookups, and a deployment is settled when every action its  *)
(* manifest declares has its handler.                                      *)
(***************************************************************************)
LEMMA DisturbedGood ==
  ASSUME IInv, call' = Disturbed
  PROVE  CallsGood'
<1>1. ASSUME NEW c \in Calls
      PROVE  /\ call'[c] \in CallType /\ Sound(call'[c])
             /\ ~(call'[c].at = "handler" /\ call'[c].steady)
  <2> DEFINE k == call[c]
             n == [k EXCEPT !.steady = FALSE]
  <2>1. Good(k) /\ k \in CallType /\ call'[c] = IF k.at = "handler" THEN n ELSE k
    BY GoodNow DEF Good, Disturbed, At
  <2>2. CASE k.at = "handler"
    <3>1. n \in CallType
      BY <2>1 DEF CallType
    <3>2. /\ n.at = "handler" /\ n.subject = k.subject /\ n.answer = k.answer
          /\ n.steady = FALSE
      BY <2>1, <2>2 DEF CallType
    <3> HIDE DEF n
    <3>3. Sound(n)
      BY <2>1, <2>2, <3>2 DEF Good, Sound, Known, Approved, Open, Grounded, Matched, Admitted,
                              Upstream
    <3> QED BY <2>1, <2>2, <3>1, <3>2, <3>3
  <2>3. CASE k.at # "handler"
    BY <2>1, <2>3 DEF Good
  <2> QED BY <2>2, <2>3
<1>2. call' \in [Calls -> CallType]
  BY <1>1 DEF Disturbed
<1>3. ASSUME NEW c \in Calls PROVE Ready(call[c])'
  BY <1>1 DEF Ready
<1>4. ASSUME NEW c \in Calls PROVE Sound(call[c])'
  BY <1>1 DEF Sound, Known, Approved, Open, Grounded, Matched, DeclOf, PromptOf
<1> QED BY <1>2, <1>3, <1>4 DEF CallsGood

LEMMA Positions == /\ Len(Actions) \in Nat \ {0} /\ 1 \in 0..Len(Actions) /\ 1..1 - 1 = {}
                   /\ DOMAIN Actions = 1..Len(Actions)
<1>1. Actions \in Seq(ToSet(Actions)) /\ Actions # <<>>
  BY ActionsAssumption
<1> QED BY <1>1

LEMMA OnePosition ==
  ASSUME NEW n \in Nat, NEW i \in 1..n, i # n
  PROVE  i + 1 \in 0..n /\ (i + 1) - 1 = i
OBVIOUS

LEMMA DeployIInv ==
  ASSUME IInv, NEW v \in Versions, Deploy(v)
  PROVE  IInv'
<1>1. CallsGood'
  BY DisturbedGood DEF Deploy
<1>2. Deployed'
  <2>1. /\ deploying' = 1 /\ settled' = FALSE /\ agent' \in Versions
        /\ handlers' \in [ToSet(Actions) -> Versions \cup {NoVersion}]
    BY DEF IInv, Deployed, Deploy
  <2>2. 1 \in 0..Len(Actions) /\ 1..1 - 1 = {}
    BY Positions
  <2> QED BY <2>1, <2>2 DEF Deployed
<1>3. Stored'
  BY DEF IInv, Stored, Deploy
<1> QED BY <1>1, <1>2, <1>3 DEF IInv

LEMMA RegisterActionIInv ==
  ASSUME IInv, RegisterAction
  PROVE  IInv'
<1> DEFINE action == Actions[deploying]
           last   == deploying = Len(Actions)
<1>1. CallsGood'
  BY DisturbedGood DEF RegisterAction
<1>2. Stored'
  BY DEF IInv, Stored, RegisterAction
<1>3. /\ deploying \in 1..Len(Actions) /\ Len(Actions) \in Nat
      /\ DOMAIN Actions = 1..Len(Actions)
      /\ action \in ToSet(Actions) /\ agent' = agent
  <2>1. deploying # 0 /\ agent' = agent
    BY DEF RegisterAction
  <2>2. deploying \in 0..Len(Actions)
    BY DEF IInv, Deployed
  <2>3. Len(Actions) \in Nat /\ DOMAIN Actions = 1..Len(Actions)
    BY Positions
  <2>4. deploying \in 1..Len(Actions)
    BY <2>1, <2>2, <2>3
  <2>5. Actions[deploying] \in ToSet(Actions)
    BY <2>3, <2>4 DEF ToSet
  <2> QED BY <2>1, <2>3, <2>4, <2>5
<1>4. ASSUME deploying' = 0, UNCHANGED <<handlers, settled>>
      PROVE  Deployed'
  <2>1. deploying' \in 0..Len(Actions) /\ 1..deploying' - 1 = {}
    BY <1>3, <1>4
  <2> QED BY <1>3, <1>4, <2>1 DEF IInv, Deployed, Declared
<1>5. ASSUME handlers' = (IF Declared(action) THEN Registered(action, agent) ELSE handlers),
             deploying' = (IF last THEN 0 ELSE deploying + 1),
             settled' = last
      PROVE  Deployed'
  <2>1. handlers' \in [ToSet(Actions) -> Versions \cup {NoVersion}]
    BY <1>3, <1>5 DEF IInv, Deployed, Registered
  <2>2. ASSUME NEW i \in 1..deploying, Declared(Actions[i])
        PROVE  handlers'[Actions[i]] = agent
    <3>1. Actions[i] \in ToSet(Actions)
      BY <1>3 DEF ToSet
    <3>2. CASE i = deploying
      BY <1>3, <1>5, <2>2, <3>1, <3>2 DEF IInv, Deployed, Registered
    <3>3. CASE i \in 1..deploying - 1
      BY <1>3, <1>5, <2>2, <3>1, <3>3 DEF IInv, Deployed, Registered
    <3> QED BY <1>3, <3>2, <3>3
  <2>3. CASE last
    <3>1. ASSUME NEW a \in ToSet(Actions), Declared(a) PROVE handlers'[a] = agent
      <4>1. PICK i \in 1..Len(Actions) : a = Actions[i]
        BY <1>3 DEF ToSet
      <4> QED BY <2>2, <2>3, <3>1, <4>1
    <3>2. deploying' = 0 /\ 0 \in 0..Len(Actions) /\ 1..0 - 1 = {} /\ settled' \in BOOLEAN
      <4>1. last \in BOOLEAN
        OBVIOUS
      <4> QED BY <1>3, <1>5, <2>3, <4>1
    <3> QED BY <1>3, <2>1, <3>1, <3>2 DEF IInv, Deployed, Declared
  <2>4. CASE ~last
    <3>1. /\ deploying' = deploying + 1 /\ deploying + 1 \in 0..Len(Actions)
          /\ (deploying + 1) - 1 = deploying
      <4>1. deploying' = deploying + 1
        BY <1>5, <2>4, Zenon
      <4>2. deploying + 1 \in 0..Len(Actions) /\ (deploying + 1) - 1 = deploying
        <5>1. deploying # Len(Actions)
          BY <2>4
        <5> QED BY <1>3, <5>1, OnePosition
      <4> QED BY <4>1, <4>2
    <3>2. settled' = FALSE
      <4>1. last = FALSE
        BY <2>4
      <4> QED BY <1>5, <4>1
    <3> QED BY <1>3, <2>1, <2>2, <3>1, <3>2 DEF IInv, Deployed, Declared
  <2> QED BY <2>3, <2>4
<1>6. Deployed'
  <2>1. \/ deploying' = 0 /\ UNCHANGED <<handlers, settled>>
        \/ /\ handlers' = IF Declared(action) THEN Registered(action, agent) ELSE handlers
           /\ deploying' = IF last THEN 0 ELSE deploying + 1
           /\ settled' = last
    BY DEF RegisterAction, Declared
  <2> QED BY <1>4, <1>5, <2>1
<1> QED BY <1>1, <1>2, <1>6 DEF IInv

LEMMA WriteRowIInv ==
  ASSUME IInv, NEW s \in Subjects, NEW r \in RowIds, NEW t \in Titles \cup {NoTitle},
         WriteRow(s, r, t)
  PROVE  IInv'
<1> DEFINE o   == RowOwner(agent, s)
           row == [by |-> s, title |-> t]
<1>1. CallsGood'
  <2>1. UNCHANGED <<call, handlers>>
    BY DEF WriteRow
  <2> QED BY <2>1 DEF IInv, CallsGood, Sound, Known, Approved, Open, Grounded, Matched, Ready,
                      DeclOf, PromptOf
<1>2. Deployed'
  BY DEF IInv, Deployed, Declared, WriteRow
<1>3. o \in Owners /\ (o \in Subjects => o = s) /\ row \in Rows /\ row.by = s
  BY SubjectsAssumption DEF RowOwner, Owners, Rows
<1> HIDE DEF o, row
<1>4. rows' = [rows EXCEPT ![o][r] = row] /\ lapsed' = lapsed
  BY DEF WriteRow, o, row
<1>5. rows' \in [Owners -> [RowIds -> Rows \cup {NoRow}]]
  BY <1>3, <1>4 DEF IInv, Stored
<1>6. ASSUME NEW p \in Subjects, NEW q \in RowIds, rows'[p][q] # NoRow
      PROVE  rows'[p][q].by = p
  <2>1. p \in Owners
    BY DEF Owners
  <2>2. CASE p = o /\ q = r
    BY <1>3, <1>4, <2>1, <2>2 DEF IInv, Stored
  <2>3. CASE ~(p = o /\ q = r)
    BY <1>3, <1>4, <1>6, <2>1, <2>3 DEF IInv, Stored
  <2> QED BY <2>2, <2>3
<1>7. Stored'
  BY <1>4, <1>5, <1>6 DEF IInv, Stored
<1> QED BY <1>1, <1>2, <1>7 DEF IInv

LEMMA LapseIInv ==
  ASSUME IInv, NEW token \in Tokens, Lapse(token)
  PROVE  IInv'
<1>1. CallsGood'
  <2>1. UNCHANGED <<call, handlers>>
    BY DEF Lapse
  <2> QED BY <2>1 DEF IInv, CallsGood, Sound, Known, Approved, Open, Grounded, Matched, Ready,
                      DeclOf, PromptOf
<1>2. Deployed'
  BY DEF IInv, Deployed, Declared, Lapse
<1>3. Stored'
  BY DEF IInv, Stored, Lapse
<1> QED BY <1>1, <1>2, <1>3 DEF IInv

-----------------------------------------------------------------------------
LEMMA InitIInv == Init => IInv
<1> SUFFICES ASSUME Init PROVE IInv
  OBVIOUS
<1>1. Good(Idle)
  <2>1. (CHOOSE r \in Requests : TRUE) \in Requests
    BY RequestsAssumption
  <2>2. Idle \in CallType
    BY <2>1, FirstTry DEF Idle, CallType, Stages, Owners, AnyTitle, Answers
  <2>3. Idle.at = "idle" /\ Idle.answer = "none"
    BY DEF Idle
  <2> QED BY <2>2, <2>3 DEF Good, Sound, Known, Approved, Open, Grounded, Matched, Ready,
                            Admitted, Upstream
<1>2. CallsGood
  BY <1>1 DEF Init, CallsGood, Good
<1>3. Deployed
  <2>1. 0 \in 0..Len(Actions) /\ 1..0 - 1 = {}
    BY Positions
  <2>2. FALSE \in BOOLEAN
    OBVIOUS
  <2> QED BY <2>1, <2>2 DEF Init, Deployed
<1>4. Stored
  BY DEF Init, Stored, Owners
<1> QED BY <1>2, <1>3, <1>4 DEF IInv

LEMMA NextIInv == IInv /\ [Next]_vars => IInv'
<1> SUFFICES ASSUME IInv, [Next]_vars PROVE IInv'
  OBVIOUS
<1>1. CASE UNCHANGED vars
  <2>1. UNCHANGED <<call, handlers>> /\ UNCHANGED others
    BY <1>1 DEF vars, others
  <2>2. Deployed'
    BY <2>1 DEF IInv, Deployed, Declared, others
  <2>3. Stored'
    BY <2>1 DEF IInv, Stored, others
  <2>4. CallsGood'
    <3>1. ASSUME NEW c \in Calls PROVE Sound(call[c])' /\ Ready(call[c])'
      <4>1. Sound(call[c]) /\ Ready(call[c]) /\ call'[c] = call[c]
        BY <2>1 DEF IInv, CallsGood
      <4>2. Sound(call[c])'
        BY <2>1, <4>1 DEF Sound, Known, Approved, Open, Grounded, Matched, DeclOf, PromptOf, others
      <4>3. Ready(call[c])'
        BY <2>1, <4>1 DEF Ready, DeclOf, PromptOf, others
      <4> QED BY <4>2, <4>3
    <3> QED BY <2>1, <3>1 DEF IInv, CallsGood
  <2> QED BY <2>2, <2>3, <2>4 DEF IInv
<1>2. ASSUME NEW c \in Calls, NEW r \in Requests, Arrive(c, r) PROVE IInv'
  BY <1>2, ArriveIInv
<1>3. ASSUME NEW c \in Calls, Step(c) PROVE IInv'
  BY <1>3, AuthorizeIInv, FindManifestIInv, DeclareIInv, FindHandlerIInv, LoadRowIInv,
     RunDefaultIInv, FinishIInv DEF Step
<1>4. ASSUME NEW c \in Calls, Reply(c) PROVE IInv'
  BY <1>4, UpstreamTornIInv, UpstreamFailsIInv, PlannedIInv, DraftedIInv, ReviewedIInv DEF Reply
<1>5. ASSUME NEW c \in Calls, LoadRowFails(c) \/ Expire(c) PROVE IInv'
  BY <1>5, LoadRowFailsIInv, ExpireIInv
<1>6. ASSUME NEW v \in Versions, Deploy(v) PROVE IInv'
  BY <1>6, DeployIInv
<1>7. CASE RegisterAction
  BY <1>7, RegisterActionIInv
<1>8. ASSUME NEW s \in Subjects, NEW r \in RowIds, NEW t \in Titles \cup {NoTitle},
             WriteRow(s, r, t)
      PROVE  IInv'
  BY <1>8, WriteRowIInv
<1>9. ASSUME NEW token \in Tokens, Lapse(token) PROVE IInv'
  BY <1>9, LapseIInv
<1> QED BY <1>1, <1>2, <1>3, <1>4, <1>5, <1>6, <1>7, <1>8, <1>9 DEF Next

-----------------------------------------------------------------------------
\* The inductive invariant of the calls, the deployed Pack and the stored rows.
THEOREM Invariance == Spec => []IInv
<1>1. Init => IInv
  BY InitIInv
<1>2. IInv /\ [Next]_vars => IInv'
  BY NextIInv
<1> QED BY <1>1, <1>2, PTL DEF Spec

\* The calls, the handlers and the deployment keep their types; no stream is
\* begun anew more often than streamCollect allows (action_text.go: streamCollect).
THEOREM TypeCorrect == Spec => []TypeOK
<1>1. IInv => TypeOK
  BY DEF IInv, CallsGood, Deployed, Stored, CallType, TypeOK
<1> QED BY <1>1, Invariance, PTL

\* A text that is handed out meets the contract of the declaration the call was
\* admitted under, and its reviewer, where there is one, has passed this text
\* (action_text.go: collectValidatedAction, action_review.go: reviewActionText).
THEOREM TextsAreApproved == Spec => []ApprovedTextOnly
<1>1. IInv => ApprovedTextOnly
  BY DEF IInv, CallsGood, Sound, Approved, ApprovedTextOnly
<1> QED BY <1>1, Invariance, PTL

\* A call's row is its own user's, with the stored title unless the caller edits
\* it, and an undisturbed call runs the prompts of the version that declared it
\* (kernel/actions.go: InvokeAction and loadRowPayload).
THEOREM CallsStayConsistent == Spec => []CallsAreConsistent
<1>1. IInv => PayloadIsGrounded
  BY DEF IInv, CallsGood, Sound, Grounded, PayloadIsGrounded, Admitted
<1>2. IInv => SettledCallsMatch
  BY DEF IInv, CallsGood, Sound, Matched, SettledCallsMatch, Admitted
<1> QED BY <1>1, <1>2, Invariance, PTL DEF CallsAreConsistent
=============================================================================
