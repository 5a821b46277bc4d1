-------------------------------- MODULE Tables --------------------------------
(***************************************************************************)
(* Tables and directories as functions from a key to a row: how a row is   *)
(* added, and how the rows of two tables are joined.                       *)
(***************************************************************************)

\* The table with `row` at `key`, added or replaced.
put(table, key, row) ==
    [k \in DOMAIN table \union {key} |-> IF k = key THEN row ELSE table[k]]

\* The rows of both tables; a key of the first keeps its row.
joined(table, more) ==
    [k \in DOMAIN table \union DOMAIN more |-> IF k \in DOMAIN table THEN table[k] ELSE more[k]]
===============================================================================
