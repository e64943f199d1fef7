--------------------------- MODULE MCPackRegistry ---------------------------
(***************************************************************************)
(* Instances of PackRegistry for TLC.  muse1 and muse1r are two builds of  *)
(* the same name and version with different files, muse2 is the next       *)
(* version (its directory sorts before the first one's, as 1.10.0 does     *)
(* before 1.9.0), beam is another agent whose archive lacks a prompt.      *)
(***************************************************************************)
EXTENDS PackRegistry

CONSTANTS muse1, muse1r, muse2, beam, museSlug, beamSlug, museDir, museDir2, beamDir

MCSlug == [p \in Packs |-> IF p = beam THEN beamSlug ELSE museSlug]
MCDir  == [p \in Packs |-> IF p = beam THEN beamDir
                           ELSE IF p = muse2 THEN museDir2 ELSE museDir]
MCActions == [p \in Packs |-> IF p = muse1r THEN <<"plan">> ELSE <<"post">>]
MCContents == [p \in Packs |->
  {"soyapack.yaml", "entry"} \cup
    IF p = beam THEN {} ELSE IF p = muse1r THEN {"plan"} ELSE {"post"}]
MCSchedules == [p \in Packs |-> IF p = muse1 THEN <<TRUE>>
                                ELSE IF p = muse1r THEN <<FALSE>> ELSE <<>>]
MCDirOrder == <<beamDir, museDir2, museDir>>

=============================================================================
