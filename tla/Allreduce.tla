------------------------------ MODULE Allreduce ------------------------------
(***************************************************************************)
(* One Allreduce per iteration (sync_mode "allreduce_mpi", M3): the two    *)
(* programs run_kmeans_allreduce (applications/kmeans/allreduce.py and     *)
(* convergence.py) and run_logreg_allreduce (applications/logreg/          *)
(* allreduce.py), from the input file to the metrics they leave behind.    *)
(*                                                                         *)
(* Every rank runs the same program and takes part in the same collectives *)
(* by calling them: MPI matches the i-th call of one rank with the i-th    *)
(* call of every other, whatever it is, and gives each what the others     *)
(* passed to it.  Two things decide how many calls a rank makes: the       *)
(* clusters that were left empty, one Bcast each, and the iteration in     *)
(* which its loop stops.                                                   *)
(*                                                                         *)
(* K-means computes on the points of the file.  Of logistic regression the *)
(* standardisation is computed; the gradient is left out and the loss of a *)
(* rank is any of Losses.                                                  *)
(***************************************************************************)
EXTENDS Shards, Lloyd

CONSTANTS
  N,          \* size of the communicator
  max_iter,   \* iterations of k-means
  max_epochs, \* epochs of logistic regression
  Unit,       \* coordinates are multiples of it
  Files,      \* input files of each program
  Losses      \* values of a local loss that the tolerance tells apart

ASSUME AllreduceAssumption ==
  /\ N \in Nat \ {0}
  /\ max_iter \in Nat \ {0}
  /\ max_epochs \in Nat \ {0}
  /\ Losses \subseteq Int /\ Losses # {}
  /\ Unit \in Nat \ {0}
  /\ \A f \in Files.kmeans \cup Files.logreg :
       /\ f \in Seq(LineType)
       /\ \A n \in 1..Len(f) : Unit % n = 0
       /\ \A i \in DOMAIN f : f[i].x % Unit = 0

VARIABLES
  app,        \* the program: "kmeans" or "logreg"
  file,       \* the input file
  pc,         \* rank: the collective it comes to next, "output", "done" or "failed"
  waiting,    \* rank: it is inside that collective
  posted,     \* rank: the collective calls it has made, with the buffer it passed
  iteration,  \* rank: iteration (epoch + 1) of the loop
  centroids,  \* rank: centroids
  prev,       \* rank: prev_centroids
  made,       \* rank: global_centroids, as far as this iteration has them
  empty,      \* rank: empty_clusters whose replacement it has not received
  stats,      \* rank: <<mean, variance>> its rows are standardised with
  total,      \* rank: global_wcss or global_loss of this iteration
  record,     \* rank: those of the iterations before, in the collector
  saved,      \* rank: what its CSV file holds
  aggregate   \* what rank 0 made of the CSV files

km   == <<centroids, prev, made, empty>>
vars == <<app, file, pc, waiting, posted, iteration, km, stats, total, record, saved, aggregate>>

Rank == 0..(N - 1)

\* The collectives in the order of the sources.
Setup ==
  [kmeans |-> <<"scatter", "bcast_d", "Bcast_seed", "Barrier">>,
   logreg |-> <<"scatter", "Reduce_stats", "Bcast_stats", "Barrier">>]
Loop ==
  [kmeans |-> <<"sums", "counts", "wcss", "flag">>,
   logreg |-> <<"gradient", "loss", "flag">>]
Rooted == {"scatter", "bcast_d", "Bcast_seed", "Bcast_stats", "replacement", "flag"}

NoFile  == <<>>
Earlier == <<-1>>   \* a CSV file of an earlier run in the same directory; only k-means reads them

Init ==
  /\ app \in {"kmeans", "logreg"}
  /\ file \in Files[app]
  /\ pc = [r \in Rank |-> "scatter"]
  /\ waiting = [r \in Rank |-> FALSE]
  /\ posted = [r \in Rank |-> <<>>]
  /\ iteration = [r \in Rank |-> 1]
  /\ centroids = [r \in Rank |-> [j \in Cluster |-> 0]]
  /\ prev = centroids
  /\ made = centroids
  /\ empty = [r \in Rank |-> {}]
  /\ stats = [r \in Rank |-> <<0, 1>>]
  /\ total = [r \in Rank |-> 0]
  /\ record = [r \in Rank |-> <<>>]
  /\ \E f \in IF app = "kmeans" THEN {NoFile, Earlier} ELSE {NoFile} : saved = [r \in Rank |-> f]
  /\ aggregate = <<>>

----------------------------------------------------------------------------
(* What a rank computes before a collective *)

\* The rows of a rank: points, or samples with as many features as the file has.
Rows(r) ==
  IF app = "kmeans" THEN PointsOf(Partition(file, N, r))
  ELSE SamplesOf(Partition(file, N, r), NumFeatures(file))

NoRows(r) == DOMAIN Rows(r) = {}

\* D, as rank 0 learns it from its seed and everybody else from rank 0.
Columns == Partition(file, N, 0)[1].columns

\* The data make the rank raise: no row to decide the number of columns or features,
\* no row to choose a seed from, rows of another length than the centroids (rows of one
\* number are broadcast to their length), and RDD.reduce() over no rows.
Raises(r) ==
  \/ app = "kmeans" /\ pc[r] = "bcast_d" /\ Partition(file, N, r) = <<>>
  \/ app = "kmeans" /\ pc[r] = "bcast_d" /\ r = 0 /\ NoRows(0)
  \/ app = "kmeans" /\ pc[r] = "sums" /\ ~NoRows(r) /\ Partition(file, N, r)[1].columns \notin {1, Columns}
  \/ app = "logreg" /\ pc[r] = "scatter" /\ r = 0 /\ ~HasData(file)
  \/ app = "logreg" /\ pc[r] = "gradient" /\ NoRows(r)

\* The clusters are gone through in ascending order.
NextEmpty(r) == Min(empty[r])

\* Mutant: the criterion looks at one centroid only.
KMeansConvergedAnywhere(r) == iteration[r] > 1 /\ \E j \in Cluster : made[r][j] = prev[r][j]

\* broadcast_convergence: iteration > 1 and the shift from prev_centroids below tol,
\* which is smaller than any distance between two sets of centroids.
KMeansConverged(r) == iteration[r] > 1 /\ made[r] = prev[r]

\* check_loss_convergence: prev_loss is that of the last epoch, infinite in the first.
LossConverged(r) ==
  record[r] # <<>> /\ total[r] = record[r][Len(record[r])]

Flag(b) == <<IF b THEN 1 ELSE 0>>

\* The buffers the rank may pass to the collective it comes to: its part of a sum, or
\* what the root sends.
Contribution(r) ==
  LET rows == Rows(r) IN
  CASE pc[r] = "bcast_d"      -> {<<Columns>>}
    [] pc[r] = "Bcast_seed"   -> IF r = 0 THEN Seeds(rows) ELSE {centroids[r]}
    [] pc[r] = "Reduce_stats" ->
         {<<SumOfRows(rows, DOMAIN rows), SumFunction([i \in DOMAIN rows |-> rows[i].x * rows[i].x]),
            NumRows(rows)>>}
    [] pc[r] = "Bcast_stats"  -> {stats[r]}
    [] pc[r] = "sums"         -> {LocalSums(rows, centroids[r])}
    [] pc[r] = "counts"       -> {LocalCounts(rows, centroids[r])}
    [] pc[r] = "replacement"  -> {<<x>> : x \in IF r = 0 THEN Coordinates(rows) ELSE {0}}
    [] pc[r] = "wcss"         -> {<<Wcss(rows, centroids[r])>>}
    [] pc[r] = "loss"         -> {<<l>> : l \in Losses}
    [] pc[r] = "flag"         ->
         {Flag(r = 0 /\ IF app = "kmeans" THEN KMeansConverged(r) ELSE LossConverged(r))}
    [] OTHER                  -> {<<>>}

----------------------------------------------------------------------------
(* Entering a collective *)

Call(r, buffer) ==
  [op |-> pc[r], iteration |-> iteration[r],
   cluster |-> IF pc[r] = "replacement" THEN NextEmpty(r) ELSE 0, buffer |-> buffer]

\* The metrics of k-means are written before the last Barrier.
Save(r) == saved' = [saved EXCEPT ![r] = record[r]]

\* The local computation that leads to a collective, then the call.
Enter(r) ==
  /\ pc[r] \notin {"output", "done", "failed"}
  /\ ~waiting[r]
  /\ ~Raises(r)
  /\ waiting' = [waiting EXCEPT ![r] = TRUE]
  /\ \E buffer \in Contribution(r) : posted' = [posted EXCEPT ![r] = Append(@, Call(r, buffer))]
  /\ IF pc[r] = "last_Barrier" THEN Save(r) ELSE UNCHANGED saved
  /\ UNCHANGED <<app, file, pc, iteration, km, stats, total, record, aggregate>>

\* Partitioning, loading, the Spark jobs of an iteration, takeSample on rank 0 or the
\* output of the metrics raises; the rank makes no more calls.
MayRaise(r) ==
  \/ pc[r] \in {"bcast_d", "Reduce_stats", "sums", "gradient", "loss", "last_Barrier", "output"}
  \/ pc[r] = "Barrier" /\ app = "logreg"
  \/ pc[r] \in {"scatter", "replacement"} /\ r = 0

Fail(r) ==
  /\ MayRaise(r) \/ Raises(r)
  /\ ~waiting[r]
  /\ pc' = [pc EXCEPT ![r] = "failed"]
  /\ UNCHANGED <<app, file, waiting, posted, iteration, km, stats, total, record, saved, aggregate>>

----------------------------------------------------------------------------
(* Returning from it *)

\* Rank q has made the call that r is in, or the one that is matched with it.
Made(q, r) == Len(posted[q]) >= Len(posted[r])

AllIn(r) == \A q \in Rank : Made(q, r)

\* Mutant: rank 0 does not wait for the others in a Barrier.
ReturnsWithoutBarrier(r, op) ==
  /\ waiting[r]
  /\ pc[r] = op
  /\ CASE op \in Rooted          -> Made(0, r)
       [] op = "Reduce_stats"    -> r # 0 \/ AllIn(r)
       [] op = "last_Barrier"    -> TRUE
       [] OTHER                  -> AllIn(r)
  /\ waiting' = [waiting EXCEPT ![r] = FALSE]

\* A collective with a root returns on the root at once and elsewhere when the root
\* has called it, a Reduce the other way round; the others return when every rank
\* has called them.
Returns(r, op) ==
  /\ waiting[r]
  /\ pc[r] = op
  /\ CASE op \in Rooted          -> Made(0, r)
       [] op = "Reduce_stats"    -> r # 0 \/ AllIn(r)
       [] OTHER                  -> AllIn(r)
  /\ waiting' = [waiting EXCEPT ![r] = FALSE]

Goto(r, op) == pc' = [pc EXCEPT ![r] = op]

\* The operation that follows in the source.
After(r) ==
  LET ops == Setup[app] \o Loop[app]
      i == CHOOSE j \in DOMAIN ops : ops[j] = pc[r]
  IN ops[i + 1]

\* What the matched calls amount to.
FromRoot(r) == posted[0][Len(posted[r])].buffer

Reduced(r) ==
  [j \in DOMAIN FromRoot(r) |->
     SumFunction([q \in Rank |-> posted[q][Len(posted[r])].buffer[j]])]

\* partition_and_init_spark: the metadata of its partition arrive.
LeaveScatter(r) ==
  /\ Returns(r, "scatter")
  /\ Goto(r, After(r))
  /\ UNCHANGED <<app, file, posted, iteration, km, stats, total, record, saved, aggregate>>

\* The broadcast of d; the Barrier before the loop.
LeaveSetup(r) ==
  /\ Returns(r, "bcast_d") \/ Returns(r, "Barrier")
  /\ Goto(r, After(r))
  /\ UNCHANGED <<app, file, posted, iteration, km, stats, total, record, saved, aggregate>>

LeaveSeed(r) ==
  /\ Returns(r, "Bcast_seed")
  /\ centroids' = [centroids EXCEPT ![r] = FromRoot(r)]
  /\ Goto(r, After(r))
  /\ UNCHANGED <<app, file, posted, iteration, prev, made, empty, stats, total, record, saved, aggregate>>

\* Mean and variance from the sums; a variance of 0 is replaced by 1.
Standardisation(s) ==
  LET n == IF s[3] > 1 THEN s[3] ELSE 1
      mean == s[1] \div n
      variance == s[2] \div n - mean * mean
  IN <<mean, IF variance = 0 THEN 1 ELSE variance>>

\* Mutant: rank 0 standardises with what it has itself.
LeaveReduceLocally(r) ==
  /\ Returns(r, "Reduce_stats")
  /\ stats' = IF r = 0 THEN [stats EXCEPT ![0] = Standardisation(FromRoot(0))] ELSE stats
  /\ Goto(r, After(r))
  /\ UNCHANGED <<app, file, posted, iteration, km, total, record, saved, aggregate>>

\* _broadcast_global_stats: rank 0 makes mean and std of the sums.
LeaveReduce(r) ==
  /\ Returns(r, "Reduce_stats")
  /\ stats' = IF r = 0 THEN [stats EXCEPT ![0] = Standardisation(Reduced(0))] ELSE stats
  /\ Goto(r, After(r))
  /\ UNCHANGED <<app, file, posted, iteration, km, total, record, saved, aggregate>>

LeaveStats(r) ==
  /\ Returns(r, "Bcast_stats")
  /\ stats' = [stats EXCEPT ![r] = FromRoot(r)]
  /\ Goto(r, After(r))
  /\ UNCHANGED <<app, file, posted, iteration, km, total, record, saved, aggregate>>

\* allreduce_centroids, the first Allreduce; made holds the sums for the moment.
LeaveSums(r) ==
  /\ Returns(r, "sums")
  /\ made' = [made EXCEPT ![r] = Reduced(r)]
  /\ Goto(r, After(r))
  /\ UNCHANGED <<app, file, posted, iteration, centroids, prev, empty, stats, total, record, saved, aggregate>>

\* Where it goes once the counts are known or a replacement has arrived.
AfterCounts(left) == IF left = {} THEN "wcss" ELSE "replacement"

\* Mutant: a cluster with a single row counts as empty.
LeaveCountsAboveOne(r) ==
  LET counts == Reduced(r)
      left == {j \in Cluster : counts[j] <= 1} IN
  /\ Returns(r, "counts")
  /\ made' = [made EXCEPT ![r] = [j \in Cluster |-> IF j \in left THEN 0 ELSE @[j] \div counts[j]]]
  /\ empty' = [empty EXCEPT ![r] = left]
  /\ Goto(r, AfterCounts(left))
  /\ UNCHANGED <<app, file, posted, iteration, centroids, prev, stats, total, record, saved, aggregate>>

\* Mutant: a rank looks for empty clusters in its own counts.
LeaveCountsLocally(r) ==
  LET counts == Reduced(r)
      left == {j \in Cluster : posted[r][Len(posted[r])].buffer[j] = 0} IN
  /\ Returns(r, "counts")
  /\ made' = [made EXCEPT ![r] = [j \in Cluster |-> IF j \in left THEN 0 ELSE @[j] \div counts[j]]]
  /\ empty' = [empty EXCEPT ![r] = left]
  /\ Goto(r, AfterCounts(left))
  /\ UNCHANGED <<app, file, posted, iteration, centroids, prev, stats, total, record, saved, aggregate>>

\* The second Allreduce: the clusters with a row get its mean, the others are empty.
LeaveCounts(r) ==
  LET counts == Reduced(r)
      left == {j \in Cluster : counts[j] = 0} IN
  /\ Returns(r, "counts")
  /\ made' = [made EXCEPT ![r] = [j \in Cluster |-> IF j \in left THEN 0 ELSE @[j] \div counts[j]]]
  /\ empty' = [empty EXCEPT ![r] = left]
  /\ Goto(r, AfterCounts(left))
  /\ UNCHANGED <<app, file, posted, iteration, centroids, prev, stats, total, record, saved, aggregate>>

\* One Bcast from rank 0 for each empty cluster.
LeaveReplacement(r) ==
  LET j == NextEmpty(r) IN
  /\ Returns(r, "replacement")
  /\ made' = [made EXCEPT ![r][j] = FromRoot(r)[1]]
  /\ empty' = [empty EXCEPT ![r] = @ \ {j}]
  /\ Goto(r, AfterCounts(empty'[r]))
  /\ UNCHANGED <<app, file, posted, iteration, centroids, prev, stats, total, record, saved, aggregate>>

\* The gradients are summed and every rank makes the same step; the weights are left
\* out.
LeaveGradient(r) ==
  /\ Returns(r, "gradient")
  /\ Goto(r, After(r))
  /\ UNCHANGED <<app, file, posted, iteration, km, stats, total, record, saved, aggregate>>

\* global_wcss; global_loss, whose division by size is left out.
LeaveTotal(r) ==
  /\ Returns(r, "wcss") \/ Returns(r, "loss")
  /\ total' = [total EXCEPT ![r] = Reduced(r)[1]]
  /\ Goto(r, After(r))
  /\ UNCHANGED <<app, file, posted, iteration, km, stats, record, saved, aggregate>>

EndOfLoop == IF app = "kmeans" THEN "last_Barrier" ELSE "output"
Last == IF app = "kmeans" THEN max_iter ELSE max_epochs

\* The next iteration, or the end of the loop.
Continue(r, converged) ==
  IF converged \/ iteration[r] = Last
  THEN Goto(r, EndOfLoop) /\ UNCHANGED iteration
  ELSE Goto(r, Loop[app][1]) /\ iteration' = [iteration EXCEPT ![r] = @ + 1]

\* Mutant: each rank evaluates the criterion for itself; rank 0 has forgotten the
\* loss of the first epoch.
LeaveFlagDecidingLocally(r) ==
  /\ Returns(r, "flag")
  /\ record' = [record EXCEPT ![r] = Append(@, total[r])]
  /\ IF app = "kmeans"
     THEN prev' = [prev EXCEPT ![r] = centroids[r]] /\ centroids' = [centroids EXCEPT ![r] = made[r]]
     ELSE UNCHANGED <<centroids, prev>>
  /\ Continue(r, IF app = "kmeans" THEN KMeansConverged(r) ELSE LossConverged(r) /\ (r # 0 \/ iteration[r] > 2))
  /\ UNCHANGED <<app, file, posted, made, empty, stats, total, saved, aggregate>>

\* The flag of rank 0 arrives: the iteration is recorded, prev_centroids takes over the
\* centroids it started from, centroids the new ones, and the loop ends if it is set.
LeaveFlag(r) ==
  /\ Returns(r, "flag")
  /\ record' = [record EXCEPT ![r] = Append(@, total[r])]
  /\ IF app = "kmeans"
     THEN prev' = [prev EXCEPT ![r] = centroids[r]] /\ centroids' = [centroids EXCEPT ![r] = made[r]]
     ELSE UNCHANGED <<centroids, prev>>
  /\ Continue(r, FromRoot(r)[1] = 1)
  /\ UNCHANGED <<app, file, posted, made, empty, stats, total, saved, aggregate>>

\* Behind the last Barrier rank 0 reads the CSV files of all ranks that have one; what
\* it raises is logged.
LeaveLast(r) ==
  /\ Returns(r, "last_Barrier")
  /\ aggregate' = IF r = 0 THEN [q \in {p \in Rank : saved[p] # NoFile} |-> saved[q]] ELSE aggregate
  /\ Goto(r, "done")
  /\ UNCHANGED <<app, file, posted, iteration, km, stats, total, record, saved>>

\* Logistic regression writes its files and is done: no Barrier, no aggregation.
Output(r) ==
  /\ pc[r] = "output"
  /\ Save(r)
  /\ Goto(r, "done")
  /\ UNCHANGED <<app, file, waiting, posted, iteration, km, stats, total, record, aggregate>>

Leave(r) ==
  \/ LeaveScatter(r) \/ LeaveSetup(r) \/ LeaveSeed(r) \/ LeaveReduce(r) \/ LeaveStats(r)
  \/ LeaveSums(r) \/ LeaveCounts(r) \/ LeaveReplacement(r) \/ LeaveGradient(r)
  \/ LeaveTotal(r) \/ LeaveFlag(r) \/ LeaveLast(r)

Ended == (\A r \in Rank : pc[r] = "done") /\ UNCHANGED vars

Next == (\E r \in Rank : Enter(r) \/ Leave(r) \/ Output(r) \/ Fail(r)) \/ Ended

Spec == Init /\ [][Next]_vars

\* What a rank must do: make its next call, or raise if the data make it, and return
\* from a call that every rank has made (a root may be held in a broadcast until then).
Proceed(r) == Enter(r) \/ Output(r) \/ (Raises(r) /\ Fail(r)) \/ (AllIn(r) /\ Leave(r))

\* Somebody does, as long as there is one who must.
FairSpec == Spec /\ WF_vars(\E r \in Rank : Proceed(r))

----------------------------------------------------------------------------
(* Properties *)

\* The rows of the file, as if there were one rank.
AllRows ==
  IF app = "kmeans" THEN Parsed(file, Columns) ELSE SamplesOf(file, NumFeatures(file))

\* convergence.py, "MPI collective contract": the calls that MPI matches are the
\* same call, for the same iteration and the same cluster, although each rank
\* decides for itself how many replacements there are and when the loop ends.
CallsMatch ==
  \A q, r \in Rank : \A i \in DOMAIN posted[q] \cap DOMAIN posted[r] :
    \A field \in {"op", "iteration", "cluster"} : posted[q][i][field] = posted[r][i][field]

\* load_partition_rdd: the ranks take for rows the lines that rank 0 would.  They do not
\* where the first line of a partition, a header say, has another width: the rank drops
\* its share without an error, or takes rows of one number.
SharesKept == \A q \in Rank : Rows(q) = Parsed(Partition(file, N, q), Columns)

\* allreduce.py: however unequal the shares of the ranks are, as long as they keep their
\* rows an iteration is the iteration a single k-means would make over the whole file,
\* and global_wcss is that of the centroids it started from; the result is the same on
\* every rank in any case.
IterationIsLloyd ==
  \A r \in Rank : app = "kmeans" /\ record[r] # <<>> =>
    /\ SharesKept =>
         /\ IsLloydStep(AllRows, prev[r], centroids[r], Coordinates(Rows(0)))
         /\ record[r][Len(record[r])] = Wcss(AllRows, prev[r])
    /\ \A q \in Rank : Len(record[q]) = Len(record[r]) => centroids[q] = centroids[r]

\* metrics.py:283, wcss_series: "Should be monotonically non-increasing for correct
\* Allreduce sync.  A WCSS increase between iterations signals a sync bug or empty-cluster
\* reinitialisation event."  Here there is no increase in the second case either: a
\* cluster that is left empty was the nearest of no row, so its old centroid added nothing
\* to the cost, and whatever row replaces it can only be nearer.  A replacement of a
\* cluster that has rows, or counts the ranks disagree on, would show.
WcssNeverGrows ==
  app = "kmeans" => \A r \in Rank : \A t \in 2..Len(record[r]) : record[r][t] <= record[r][t - 1]

\* convergence.py: "centroids have stabilised".  Although prev_centroids is an iteration
\* behind, the loop stops before max_iter only where another iteration over the whole
\* file would change nothing, as long as the ranks keep their rows: it is not fooled by
\* centroids that come and go.
StopsAtFixedPoint ==
  \A r \in Rank :
    /\ app = "kmeans" /\ pc[r] \in {"last_Barrier", "done"}
    /\ Len(record[r]) < max_iter /\ SharesKept
    => IsLloydStep(AllRows, centroids[r], centroids[r], Coordinates(Rows(0)))

\* load_and_cache_rdd: every rank standardises its rows with the mean and the variance
\* of all rows of the file, however unequal the shares are.
StatsAreGlobal ==
  \A r \in Rank : app = "logreg" /\ pc[r] \in {"Barrier", "gradient", "loss", "flag", "output", "done"} =>
    LET n == NumRows(AllRows)
        mean == stats[r][1]
        deviations == SumFunction([i \in DOMAIN AllRows |-> Distance(AllRows[i].x, mean)])
    IN /\ n * mean = SumOfRows(AllRows, DOMAIN AllRows)
       /\ IF deviations = 0 THEN stats[r][2] = 1 ELSE n * stats[r][2] = deviations

\* metrics.py, aggregate_across_ranks: "Called by rank 0 only, after all ranks have
\* written their CSVs" and "ranks must have run the same number of iterations": it
\* never averages files of this run with those an earlier run left behind.
AggregateIsOfThisRun ==
  pc[0] = "done" /\ app = "kmeans" => aggregate = [r \in Rank |-> record[0]]

\* A run in which nobody fails ends: no rank is left alone in a collective.
RunEnds ==
  [](\A r \in Rank : pc[r] # "failed") => <>(\A r \in Rank : pc[r] = "done")
=============================================================================
