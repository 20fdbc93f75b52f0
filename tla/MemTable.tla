------------------------------ MODULE MemTable ------------------------------
(***************************************************************************)
(* db/mem_table.hpp: the sorted map of a database, and what a batch of     *)
(* mutations does to it.                                                   *)
(***************************************************************************)
EXTENDS SequencesExt

CONSTANTS Key, Value, NoValue

\* Entries, a map from some of the keys to values.
Entries == UNION {[S -> Value] : S \in SUBSET Key}

\* Clear, and a new table.
NoEntries == [k \in {} |-> NoValue]

\* A Mutation without a value is a Delete.
Mutation == [key : Key, value : Value \cup {NoValue}]

IsDelete(mut) == mut.value = NoValue

\* TryGet of the table and of a snapshot.
Lookup(m, k) == IF k \in DOMAIN m THEN m[k] ELSE NoValue

Mutate(m, mut) ==
  [k \in IF IsDelete(mut) THEN DOMAIN m \ {mut.key} ELSE DOMAIN m \cup {mut.key} |->
     IF k = mut.key THEN mut.value ELSE m[k]]

\* Slip: the mutations of a batch are taken last to first.
ApplyBackwards(m, batch) == FoldLeft(Mutate, m, Reverse(batch))

\* ApplyToMemTable: the mutations of a batch, first to last.
Apply(m, batch) == FoldLeft(Mutate, m, batch)
=============================================================================
