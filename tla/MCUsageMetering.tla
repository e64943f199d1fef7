---------------------------- MODULE MCUsageMetering ----------------------------
(***************************************************************************)
(* Instances of UsageMetering for TLC; the constants are in the cfg files. *)
(***************************************************************************)
EXTENDS UsageMetering, TLC

\* The Execute calls are interchangeable.
CallsAlike == Permutations(Calls)

=============================================================================
