----------------------------- MODULE MCAgentTurns -----------------------------
(***************************************************************************)
(* Instances of AgentTurns for TLC: a streamed turn whose answer is a      *)
(* workbook of two sheets that share a row id, and a collected one of the  *)
(* same owner whose answer is a workbook of one row.                       *)
(***************************************************************************)
EXTENDS AgentTurns

CONSTANTS t1, t2, muse

MCOwner  == [t \in Turns |-> muse]
MCDeltas == [t \in Turns |-> IF t = t1 THEN 2 ELSE 1]
MCRowPuts == [t \in Turns |-> IF t = t1 THEN <<1, 1, 2>> ELSE <<1>>]

=============================================================================
