-------------------------- MODULE StoreStatements --------------------------
(***************************************************************************)
(* A table is a function from keys to values.  A statement inserts a row   *)
(* under a key that must be new, or writes the row under a key unless the  *)
(* row already there is as new; a batch is a sequence of statements.       *)
(***************************************************************************)
EXTENDS Naturals, Sequences

CONSTANT Newer(_, _)   \* does the first value replace the second?

Insert(key, value) == [op |-> "insert", key |-> key, value |-> value]
Upsert(key, value) == [op |-> "upsert", key |-> key, value |-> value]

\* A statement can run on a table unless it inserts a key the table holds.
Fits(s, table) == s.op = "insert" => s.key \notin DOMAIN table

Writes(s, table) == s.key \in DOMAIN table => Newer(s.value, table[s.key])

After(s, table) ==
  [k \in DOMAIN table \union {s.key} |->
     IF k = s.key /\ Writes(s, table) THEN s.value ELSE table[k]]

\* The tables a batch passes through: the first is the one it finds.
Path(batch, table) ==
  LET at[i \in 0..Len(batch)] ==
        IF i = 0 THEN table ELSE After(batch[i], at[i - 1])
  IN at

Accepts(batch, table) ==
  \A i \in 1..Len(batch) : Fits(batch[i], Path(batch, table)[i - 1])

Result(batch, table) == Path(batch, table)[Len(batch)]
=============================================================================
