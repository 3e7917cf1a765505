-------------------------------- MODULE Tables --------------------------------
(***************************************************************************)
(* A database table is a function from primary keys to rows; its domain is *)
(* the set of keys of the rows that exist.                                 *)
(***************************************************************************)

\* The repositories' create_* functions (session.add, then flush) under a new key;
\* object storage's save, which may also replace what a key holds.
Insert(table, key, value) ==
  [k \in DOMAIN table \cup {key} |-> IF k = key THEN value ELSE table[k]]
=============================================================================
