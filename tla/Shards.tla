------------------------------- MODULE Shards -------------------------------
(***************************************************************************)
(* Input files, their round-robin partitions, and the rows each            *)
(* application finds in a partition: core/file_manager.py,                 *)
(* applications/kmeans/local_iteration.py (load_partition_rdd) and         *)
(* applications/logreg/partition.py, local_gradient.py (parse_row).        *)
(*                                                                         *)
(* A file is a sequence of lines.  Of a line it matters how many columns   *)
(* it has, whether all its cells are numbers, or at least the first is,    *)
(* and the point x it stands for, which has the same coordinate x in every *)
(* column.  A blank line has one column, which is not a number.            *)
(***************************************************************************)
EXTENDS Integers, Sequences

LineType == [columns : Nat, numeric : BOOLEAN, first : BOOLEAN, x : Int]

Line(columns, x) == [columns |-> columns, numeric |-> TRUE, first |-> TRUE, x |-> x]
Text(columns)    == [columns |-> columns, numeric |-> FALSE, first |-> FALSE, x |-> 0]
Mixed(columns)   == [columns |-> columns, numeric |-> FALSE, first |-> TRUE, x |-> 0]

\* Mutant: each partition gets a contiguous block, of the rounded-down length.
PartitionInBlocks(file, n, p) ==
  LET size == Len(file) \div n IN SubSeq(file, p * size + 1, (p + 1) * size)

\* dynamic_partition: line i of the file, from 0, goes to partition i % n.
Partition(file, n, p) ==
  [i \in 1..((Len(file) - p + n - 1) \div n) |-> file[(i - 1) * n + p + 1]]

\* The lines that parse as rows of so many columns, under their numbers, which are no
\* longer consecutive; the others are dropped.
Parsed(lines, columns) ==
  [i \in {k \in DOMAIN lines : lines[k].numeric /\ lines[k].columns = columns} |-> lines[i]]

\* load_partition_rdd: the first line of the partition says how many columns a row
\* has.  raw_rdd.first() raises when there is no line.
PointsOf(partition) == Parsed(partition, partition[1].columns)

HasData(file) == \E i \in DOMAIN file : file[i].first

\* _detect_num_features: the first line of the file that starts with a number
\* decides; the last column is the label.  It raises when there is none.
NumFeatures(file) ==
  LET first == CHOOSE i \in DOMAIN file :
        file[i].first /\ \A j \in 1..(i - 1) : ~file[j].first
  IN file[first].columns - 1

\* parse_row, for every line of a partition.
SamplesOf(partition, features) == Parsed(partition, features + 1)
=============================================================================
