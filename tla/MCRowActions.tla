----------------------------- MODULE MCRowActions -----------------------------
(***************************************************************************)
(* Two users and a row token, two versions of a Pack.  The first version   *)
(* keeps rows by user, has a deadline, a plan, a reviewer and a contract   *)
(* with a mirror table and one repair; the second keeps rows by agent, and *)
(* its second action has no prompt on disk.                                *)
(***************************************************************************)
EXTENDS RowActions

Line(words)  == [head |-> <<>>, cells |-> <<words>>]
Heading(words) == [head |-> words, cells |-> <<>>]
TableRow(cs) == [head |-> <<>>, cells |-> cs]

Good == << Heading(<<"full", "script">>), Line(<<"a", "b">>),
           Heading(<<"board">>),
           TableRow(<< <<"shot">>, <<"says">> >>), TableRow(<< <<"---">>, <<"---">> >>),
           TableRow(<< <<"1">>, <<"a">> >>), TableRow(<< <<"2">>, <<"b">> >>) >>
Bad  == << Line(<<"a", "b">>) >>
MCTexts == {<<>>, Good, Bad}

Contract == [forbidden |-> {"z"}, section |-> "script", min |-> 1, max |-> 2, repairs |-> 1,
             mirror |-> [section |-> "board", column |-> "says", rows |-> 2]]
Plain == [timeout |-> "none", validation |-> NoContract]
MCManifest ==
  [v1 |-> [scope |-> "user", decl |-> [draft |-> [timeout |-> "some", validation |-> Contract],
                                       post  |-> Undeclared]],
   v2 |-> [scope |-> "agent", decl |-> [draft |-> Plain,
                                        post  |-> Plain]]]
MCPrompt ==
  [v1 |-> [draft |-> [plan |-> TRUE, review |-> TRUE], post |-> Missing],
   v2 |-> [draft |-> [plan |-> FALSE, review |-> FALSE], post |-> Missing]]

Req(cred, action, row, edit) ==
  [shape |-> "ok", cred |-> cred, agent |-> "pack", action |-> action, row |-> row,
   title |-> "mine", edit |-> edit]
MCRequests ==
  { Req("k1", "draft", "r1", "none"), Req("k2", "draft", "r1", "new"),
    Req("t1", "draft", "r1", "none"), Req("t1", "post", "r1", "none"),
    [Req("k1", "draft", "r1", "none") EXCEPT !.shape = "body"] }
MCSubject == [k1 |-> "ann", k2 |-> "bob", t1 |-> "row-token"]
MCClaims  == [t1 |-> <<"pack", "draft", "r1">>]
MCActions == <<"draft", "post">>

Verdict(formed, checks, approved, findings) ==
  [formed |-> formed, checks |-> checks, approved |-> approved, findings |-> findings]
MCVerdicts ==
  { Verdict(TRUE, << <<"claims", TRUE>>, <<"safety", TRUE>> >>, TRUE, {}),
    Verdict(TRUE, << <<"claims", TRUE>>, <<"safety", FALSE>> >>, TRUE, {}),
    Verdict(TRUE, << <<"claims", TRUE>>, <<"safety", FALSE>> >>, FALSE, {Line(<<"a", "b">>)}),
    Verdict(TRUE, << <<"claims", TRUE>>, <<"claims", TRUE>> >>, TRUE, {}) }
=============================================================================
