---------------------------- MODULE MCAllreduce ----------------------------
(* Instances of Allreduce for TLC: small files with what the loaders meet.  *)
EXTENDS Allreduce

MCUnit == 420
P(x) == Line(3, x * MCUnit)

\* Duplicates, so that seeds coincide and a cluster is empty.
Twice == <<P(3), P(3), P(8), P(3), P(8), P(3)>>
\* Four rows for three ranks, far groups of which rank 0 sees one: its seeds are all in it.
Skewed == <<P(0), P(5), P(9), P(1)>>
\* A header and a row that is too short: they fall into partitions 0 and 2.
Messy == <<Text(3), P(4), P(0), P(6), P(5), Line(2, 0)>>
\* The first line of partition 1 has a column too many.
Ragged == <<P(2), Line(4, 0), P(5), P(9)>>
\* Partition 1 starts with a line that is no row and of another width: P(6) is dropped.
\* Partition 2 has rows of one number, which are broadcast.
Headed == <<P(2), Text(1), Line(1, 7 * MCUnit), P(2), P(6)>>
\* The first line with a number in front has a column too many and is no row.
Labelled == <<Text(4), Mixed(4), P(4), P(0)>>
\* Fewer lines than ranks.
Short == <<P(2), P(6)>>
Blank == <<Text(1)>>

MCFiles ==
  [kmeans |-> {Twice, Skewed, Messy, Ragged, Headed, Short, Blank},
   logreg |-> {Messy, Ragged, Labelled, Blank}]
=============================================================================
