---------------------------- MODULE MCIndexedTable ----------------------------
(***************************************************************************)
(* The instance of IndexedTable for TLC: three partitions, five candidates *)
(* in batches of two (so the last batch is shorter), three rows to select. *)
(* pricing2 has the title of pricing and another partition; wrong breaks a *)
(* column rule.                                                            *)
(***************************************************************************)
EXTENDS IndexedTable

CONSTANTS pricing, taxes, loans, pricing2, wrong, agents, buy, rent, sell

MCTitle == [r \in Rows |-> IF r = pricing2 THEN pricing ELSE r]
MCPartition == [r \in Rows |-> CASE r \in {loans, pricing2} -> rent [] r = agents -> sell
                                 [] r \in {pricing, taxes, wrong} -> buy]

\* Too few rows, rows of other partitions, a duplicate title, a surplus.
MCReplies == {<<>>, <<pricing, taxes>>, <<wrong, taxes>>, <<pricing2, loans>>,
              <<agents, loans>>, <<agents, pricing, taxes>>}

\* A selection of the first candidates, of others, of a wrong length, with a
\* repeated index and with one beyond the candidates.
MCSelections == {<<1, 2, 3>>, <<3, 1, 4>>, <<1, 2>>, <<1, 1, 3>>, <<0, 1, 2>>, <<2, 3, 5>>}
MCBatchValues == <<buy, rent, sell>>

=============================================================================
