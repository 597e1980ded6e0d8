-------------------------------- MODULE Lloyd --------------------------------
(***************************************************************************)
(* The k-means computations of one rank, applications/kmeans/              *)
(* local_iteration.py and _compute_local_wcss, and what an iteration over  *)
(* a whole data set is.                                                    *)
(*                                                                         *)
(* Points are on the line of equal coordinates.  These are multiples of a  *)
(* unit that every number of rows divides (Unit in Allreduce), so that the *)
(* means taken here are exact: rounding is not modelled.                   *)
(***************************************************************************)
EXTENDS Integers, Sequences, FiniteSets, FiniteSetsExt, Functions

CONSTANTS
  K,         \* number of clusters
  ChunkRows, \* rows of a chunk, _rows_per_chunk
  SampleSize \* rows of a sample, max(10 * k, 200)

ASSUME LloydAssumption == {K, ChunkRows, SampleSize} \subseteq Nat \ {0}

Cluster == 1..K

\* _squared_distances
Distance(x, c) == (x - c) * (x - c)

\* argmin: the first of the nearest centroids.
Nearest(x, centroids) ==
  Min({j \in Cluster : \A i \in Cluster : Distance(x, centroids[j]) <= Distance(x, centroids[i])})

NumRows(rows) == Cardinality(DOMAIN rows)

\* _iter_chunks: the numbers of the rows that come together; the last chunk is
\* shorter.
Chunks(rows) ==
  LET Before(i) == Cardinality({k \in DOMAIN rows : k < i})
  IN {{i \in DOMAIN rows : Before(i) \div ChunkRows = c} : c \in 0..((NumRows(rows) - 1) \div ChunkRows)}

Labels(rows, centroids) == [i \in DOMAIN rows |-> Nearest(rows[i].x, centroids)]

\* The sum of the rows with these numbers.
SumOfRows(rows, numbers) == SumFunction([i \in numbers |-> rows[i].x])

\* compute_local_stats: what the chunks add to the sum and the count of each cluster.
LocalSums(rows, centroids) ==
  LET labels == Labels(rows, centroids) IN
  [j \in Cluster |->
     SumFunction([chunk \in Chunks(rows) |-> SumOfRows(rows, {i \in chunk : labels[i] = j})])]

LocalCounts(rows, centroids) ==
  LET labels == Labels(rows, centroids) IN
  [j \in Cluster |->
     SumFunction([chunk \in Chunks(rows) |-> Cardinality({i \in chunk : labels[i] = j})])]

\* _compute_local_wcss: row by row.
Wcss(rows, centroids) ==
  SumFunction([i \in DOMAIN rows |-> Min({Distance(rows[i].x, centroids[j]) : j \in Cluster})])

Coordinates(rows) == {rows[i].x : i \in DOMAIN rows}

\* The samples that takeSample may draw: all rows if there are no more.
Samples(rows) ==
  {[i \in numbers |-> rows[i]] :
     numbers \in {S \in SUBSET DOMAIN rows : Cardinality(S) = Min({SampleSize, NumRows(rows)})}}

\* init_centroids: any row of a sample first, then any row of it that is not a centre
\* yet, in proportion to its distance; once there is none, any row again.
Seeds(rows) ==
  LET Far(X, s, j) == {x \in X : \A i \in 1..(j - 1) : s[i] # x}
  IN UNION {{s \in [Cluster -> X] : \A j \in 2..K : Far(X, s, j) # {} => s[j] \in Far(X, s, j)} :
              X \in {Coordinates(sample) : sample \in Samples(rows)}}

\* One iteration of Lloyd's algorithm over all rows at once: every centroid becomes
\* the mean of the rows nearest to it, or one of spare if there are none.
IsLloydStep(rows, from, to, spare) ==
  LET labels == Labels(rows, from) IN
  \A j \in Cluster :
    LET own == {i \in DOMAIN rows : labels[i] = j}
    IN IF own = {} THEN to[j] \in spare
       ELSE to[j] * Cardinality(own) = SumOfRows(rows, own)
=============================================================================
