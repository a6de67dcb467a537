------------------------------- MODULE Tables -------------------------------
(***************************************************************************)
(* A table is a function from the keys of its rows to the rows.            *)
(***************************************************************************)

\* No row.
None == [none |-> TRUE]

\* The table with a row inserted or overwritten, and with a row deleted.
With(table, key, row) == [k \in DOMAIN table \cup {key} |-> IF k = key THEN row ELSE table[k]]
Without(table, key) == [k \in DOMAIN table \ {key} |-> table[k]]

\* What f says, and what g says where f says nothing.
Over(f, g) == [k \in DOMAIN f \cup DOMAIN g |-> IF k \in DOMAIN f THEN f[k] ELSE g[k]]
=============================================================================
