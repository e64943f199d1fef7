------------------------------ MODULE MCServices ------------------------------
(***************************************************************************)
(* The instance of Services for TLC.                                       *)
(***************************************************************************)
EXTENDS Services

\* Relay: two pairs of sides, one of them with a second comet.
MCToken  == [m1 |-> "t1", c1 |-> "t1", c2 |-> "t1", x |-> "t2"]
MCSide   == [m1 |-> "moon", c1 |-> "comet", c2 |-> "comet", x |-> "moon"]
MCExpiry == [t1 |-> 4, t2 |-> 4]

\* Transport: a peer with every kind of route, one of them blank, and one of
\* whom nothing is known.
MCListenerOf == [a1 |-> "l1"]
MCCandidate == [
  d1 |-> [peer |-> "p1", sameLAN |-> TRUE, direct |-> "lan", overlay |-> "ov", hints |-> <<"none", "relay">>],
  d2 |-> [peer |-> "any", sameLAN |-> FALSE, direct |-> "none", overlay |-> "none", hints |-> <<>>]]

\* Links: two URLs of one code.
MCCodeOf == [u1 |-> "k", u2 |-> "k", u3 |-> "l"]

\* Host.
Plain == [header |-> TRUE, kind |-> "Agent", entry |-> "soul", steps |-> <<>>, table |-> "none",
  expose |-> TRUE, model |-> "soya:slug", upstream |-> "none", mount |-> FALSE, profile |-> TRUE,
  schedules |-> <<>>, channels |-> <<>>, actions |-> <<>>, nas |-> <<>>,
  files |-> [f \in {"soul", "s1", "s2", "s3", "post", "review", "plan"} |-> "text"]]
Cron(c, o, p) == [cron |-> c, once |-> o, missed |-> p]
Chan(k, t) == [kind |-> k, token |-> t]
Act(h, r, p, w) == [handler |-> h, review |-> r, plan |-> p, formed |-> w]
NAS(i, pr, h, pw) == [id |-> i, protocol |-> pr, host |-> h, password |-> pw]
Three == [i \in 1..3 |-> [id |-> <<"a","b","c">>[i], prompt |-> <<"s1","s2","s3">>[i]]]

\* A digest that is pushed to two robots, and one of three steps with a robot
\* that never works for want of a token.
Digest == [Plain EXCEPT !.schedules = <<Cron("ok", FALSE, ""), Cron("ok", FALSE, "backfill")>>,
  !.channels = <<Chan("dingtalk", "T1"), Chan("feishu", "T1"), Chan("dingtalk", "T2")>>,
  !.actions = <<Act("post", "review", "plan", TRUE)>>,
  !.nas = <<NAS("", "smb", "T1", NoRef), NAS("second", "s3", Inline, "T2"), NAS("", "webdav", Inline, NoRef)>>]
Remake == [Digest EXCEPT !.entry = NoFile, !.steps = Three, !.table = "sound",
  !.schedules = <<Cron("ok", TRUE, "once"), Cron("", TRUE, "skip")>>,
  !.channels = <<Chan("dingtalk", NoRef), Chan("dingtalk", "T2")>>]

\* One fault each, or one thing that is allowed and looks like one.
Odd == {
  [Plain EXCEPT !.header = FALSE], [Plain EXCEPT !.profile = FALSE],
  [Plain EXCEPT !.kind = "Skill"], [Plain EXCEPT !.kind = "Skill", !.expose = FALSE],
  [Plain EXCEPT !.kind = "Skill", !.steps = Three],
  [Plain EXCEPT !.kind = "Memory", !.mount = TRUE, !.entry = NoFile, !.expose = FALSE],
  [Plain EXCEPT !.kind = "Memory"],
  [Plain EXCEPT !.entry = NoFile], [Plain EXCEPT !.steps = Three],
  [Plain EXCEPT !.entry = "absent"], [Plain EXCEPT !.expose = FALSE],
  [Plain EXCEPT !.model = ""], [Plain EXCEPT !.model = "slug"],
  [Plain EXCEPT !.upstream = "unsound"], [Plain EXCEPT !.table = "sound"],
  [Remake EXCEPT !.table = "unsound"], [Remake EXCEPT !.steps[3].prompt = "absent"],
  [Remake EXCEPT !.steps[3].id = "a"],
  [Plain EXCEPT !.schedules = <<Cron("", FALSE, "")>>],
  [Plain EXCEPT !.schedules = <<Cron("bad", FALSE, "skip")>>],
  [Plain EXCEPT !.channels = <<Chan("dingtalk", Inline)>>],
  [Plain EXCEPT !.actions = <<Act("post", NoFile, "plan", TRUE)>>],
  [Plain EXCEPT !.actions = <<Act("post", Outside, NoFile, TRUE)>>],
  [Plain EXCEPT !.actions = <<Act("absent", NoFile, NoFile, TRUE)>>],
  [Plain EXCEPT !.actions = <<Act("post", "review", NoFile, TRUE)>>, !.files["review"] = "blank"],
  [Plain EXCEPT !.nas = <<NAS("", "ftp", Inline, NoRef)>>] }
MCManifests == {Digest, Remake} \cup Odd
=============================================================================
