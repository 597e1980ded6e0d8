------------------------------ MODULE SyncBench ------------------------------
(***************************************************************************)
(* The evaluation of the synchronisation modes: scripts/sync_eval.py run   *)
(* and select (with baseline_eval.py, which drives it, and                 *)
(* compare_baseline.py, which reads the same files), and                   *)
(* scripts/run_sync_benchmark.py with analyze_sync_benchmark.py.           *)
(*                                                                         *)
(* A session runs mpirun for the cells of its plan.  The workers of a run  *)
(* write their metrics files into the directory of the run, each when it   *)
(* is through; the directory is not emptied between attempts.  sync_eval   *)
(* then summarises the files into runs.csv and, for logistic regression,   *)
(* rounds.csv, which are flushed one after the other, and skips in the     *)
(* next session the run ids that ended with code 0.  The benchmark appends *)
(* a row to its manifest, always runs everything, and leaves the files to  *)
(* the analysis.  Sessions come one after the other (nothing prevents two  *)
(* at a time), but a killed session leaves its mpirun behind, and a run    *)
(* killed at its timeout may leave its ranks.                              *)
(*                                                                         *)
(* Metrics are abstracted to the attempt that wrote them and the number of *)
(* rounds they are of.                                                     *)
(***************************************************************************)
EXTENDS Integers, FiniteSets

CONSTANTS
  Tools,      \* "logreg", "kmeans": sync_eval --app; "benchmark": run_sync_benchmark
  Cells,      \* modes x worker counts (x repetitions)
  M3Cells,    \* those of the benchmark's mode allreduce_mpi
  SbWorkers,  \* the workers of a run
  Budgets,    \* values of --rounds
  MaxRuns,    \* bound: runs launched
  MaxOpened   \* bound: sessions opened

ASSUME SyncBenchAssumption ==
  /\ Tools \subseteq {"logreg", "kmeans", "benchmark"}
  /\ M3Cells \subseteq Cells
  /\ SbWorkers # {}
  /\ Budgets \subseteq Nat \ {0}
  /\ {MaxRuns, MaxOpened} \subseteq Nat

VARIABLES
  tool,      \* what the sessions run
  runs,      \* runs.csv or manifest.csv: its first line and its rows
  rounds,    \* rounds.csv
  files,     \* run directory: each worker's metrics
  launched,  \* runs launched so far
  last,      \* run directory: its last attempt
  orphans,   \* runs that outlived their session or their timeout and are still going
  opened,    \* sessions opened so far
  at,        \* what the session is at: "idle", "next", "run", "summary", "rounds"
  own,       \* memory of the session
  cur,       \* the run the session is at
  torn       \* a session ended between its two flushes, or before its first

ranVars == <<files, launched, last, orphans>>
syncBenchVars == <<tool, runs, rounds, ranVars, opened, at, own, cur, torn>>

Eval == tool # "benchmark"
RunId == Cells \X (Budgets \cup {0})

\* Mutant: the run id of k-means does not carry the round budget either.
run_id_without_budget(cell, budget) == <<cell, 0>>

\* Only the run ids of k-means carry the round budget.
run_id(cell, budget) == <<cell, IF tool = "kmeans" THEN budget ELSE 0>>

Missing == [first |-> "absent", rows |-> {}]
NoSession == [plan |-> {}, todo |-> {}, budget |-> 0, done |-> {}, header |-> FALSE, header2 |-> FALSE]
NoRun == [attempt |-> 0]
NoFile == [attempt |-> 0, rounds |-> 0]
NoFiles == [w \in SbWorkers |-> NoFile]

SyncBenchInit ==
  /\ tool \in Tools
  /\ runs = Missing /\ rounds = Missing
  /\ files = [id \in RunId |-> NoFiles]
  /\ launched = 0 /\ opened = 0
  /\ last = [id \in RunId |-> 0]
  /\ orphans = {}
  /\ at = "idle" /\ own = NoSession /\ cur = NoRun
  /\ torn = FALSE

----------------------------------------------------------------------------
(* A session *)

\* csv.DictReader finds the columns by the first line.
ReadRows == IF runs.first = "header" THEN runs.rows ELSE {}

done_ids == {row.id : row \in {r \in ReadRows : r.code = 0}}

Created(file) == IF file.first = "absent" THEN [file EXCEPT !.first = "empty"] ELSE file

\* The flush of a file, with its header when this session is to write one.
Flushed(file, header, rows) ==
  [first |-> IF header THEN "header"
             ELSE IF file.first = "empty" /\ rows # {} THEN "row" ELSE file.first,
   rows |-> file.rows \cup rows]

\* Without a header, done_ids raises at the first row it reads: the one after the first
\* line.
Crashes == runs.first = "row" /\ Cardinality(runs.rows) > 1

\* What the session keeps in memory; the files are there from now on.
Opened(plan, budget, done) ==
  /\ at = "idle"
  /\ opened < MaxOpened
  /\ opened' = opened + 1
  /\ own' = [plan |-> plan, todo |-> plan, budget |-> budget, done |-> done,
             header |-> runs.first = "absent",
             header2 |-> tool = "logreg" /\ rounds.first = "absent"]
  /\ runs' = Created(runs)
  /\ at' = "next"

\* sync_eval: the grid of the command line, whose cells run in the order of the
\* shuffle, and --rounds.
OpenSession(plan, budget) ==
  /\ Eval
  /\ ~Crashes
  /\ Opened(plan, budget, done_ids)
  /\ rounds' = IF tool = "logreg" THEN Created(rounds) ELSE rounds
  /\ UNCHANGED <<tool, ranVars, cur, torn>>

\* run_sync_benchmark: build_run_plan; nothing counts as done.
OpenBenchmark(plan, budget) ==
  /\ ~Eval
  /\ Opened(plan, budget, {})
  /\ UNCHANGED <<tool, rounds, ranVars, cur, torn>>

SkipDone(cell) ==
  /\ at = "next"
  /\ cell \in own.todo
  /\ run_id(cell, own.budget) \in own.done
  /\ own' = [own EXCEPT !.todo = @ \ {cell}]
  /\ UNCHANGED <<tool, runs, rounds, ranVars, opened, at, cur, torn>>

\* A run begins in its directory, which may exist, with files of earlier attempts.  It has
\* at most the budgeted rounds.
Launched(cell, id) ==
  /\ at = "next"
  /\ cell \in own.todo
  /\ launched < MaxRuns
  /\ \E length \in 1..own.budget :
       cur' = [id |-> id, cell |-> cell, budget |-> own.budget, attempt |-> launched + 1,
               length |-> length, haunted |-> \E o \in orphans : o.id = id,
               saved |-> {}, code |-> 0]
  /\ last' = [last EXCEPT ![id] = launched + 1]
  /\ launched' = launched + 1
  /\ own' = [own EXCEPT !.todo = @ \ {cell}]
  /\ at' = "run"

\* sync_eval: build_cmd for a run id that is not done.
Launch(cell) ==
  /\ Eval
  /\ run_id(cell, own.budget) \notin own.done
  /\ Launched(cell, run_id(cell, own.budget))
  /\ UNCHANGED <<tool, runs, rounds, files, orphans, opened, torn>>

\* The benchmark starts these as a module that has no entry point, without --results-dir:
\* the ranks import it, write nothing and are through.
Standalone(cell) == ~Eval /\ cell \in M3Cells

\* run_sync_benchmark: build_command, for every cell.
LaunchBenchmark(cell) ==
  /\ ~Eval
  /\ Launched(cell, run_id(cell, own.budget))
  /\ UNCHANGED <<tool, runs, rounds, files, orphans, opened, torn>>

Saved(run, w) == [run EXCEPT !.saved = @ \cup {w}]
Output(run) == [attempt |-> run.attempt, rounds |-> run.length]

\* A worker writes its metrics when it is through.
WorkerSaves(w) ==
  /\ at = "run"
  /\ ~Standalone(cur.cell)
  /\ w \notin cur.saved
  /\ cur' = Saved(cur, w)
  /\ files' = [files EXCEPT ![cur.id][w] = Output(cur)]
  /\ UNCHANGED <<tool, runs, rounds, launched, last, orphans, opened, at, own, torn>>

OrphanSaves(o, w) ==
  /\ o \in orphans
  /\ ~Standalone(o.cell)
  /\ w \notin o.saved
  /\ orphans' = (orphans \ {o}) \cup {Saved(o, w)}
  /\ files' = [files EXCEPT ![o.id][w] = Output(o)]
  /\ UNCHANGED <<tool, runs, rounds, launched, last, opened, at, own, cur, torn>>

OrphanEnds(o) ==
  /\ o \in orphans
  /\ orphans' = orphans \ {o}
  /\ UNCHANGED <<tool, runs, rounds, files, launched, last, opened, at, own, cur, torn>>

\* Mutant: a run that was killed at the timeout keeps the code 0.
LaunchEndsZero ==
  /\ Eval
  /\ at = "run"
  /\ at' = "summary"
  /\ UNCHANGED <<tool, runs, rounds, ranVars, opened, own, cur, torn>>

EndsWith(code) ==
  /\ at = "run"
  /\ cur' = [cur EXCEPT !.code = code]
  /\ at' = "summary"

\* mpirun ends with code 0, which takes every worker to be through, or with another
\* code (1 stands for all of them) at any time.
Ends ==
  /\ at = "run"
  /\ \E code \in {0, 1} :
       /\ code = 0 => cur.saved = SbWorkers \/ Standalone(cur.cell)
       /\ EndsWith(code)
  /\ UNCHANGED orphans

\* SIGKILL gives mpirun no time to end its ranks: they may go on.
MayBeOrphaned == orphans' \in {orphans, orphans \cup {cur}}

\* launch: or it is killed after --timeout.
LaunchEnds ==
  /\ Eval
  /\ Ends \/ (EndsWith(124) /\ MayBeOrphaned)
  /\ UNCHANGED <<tool, runs, rounds, files, launched, last, opened, own, torn>>

\* stream_and_log: there is no timeout.
StreamEnds ==
  /\ ~Eval
  /\ Ends
  /\ UNCHANGED <<tool, runs, rounds, files, launched, last, opened, own, torn>>

\* The row of the run; "from" is what its summary is computed from.
Row(code, from) ==
  [id |-> cur.id, cell |-> cur.cell, budget |-> cur.budget, attempt |-> cur.attempt,
   length |-> cur.length, haunted |-> cur.haunted, code |-> code, from |-> from]

\* Whatever files are in the directory.
load_rounds == files[cur.id]
load_kmeans_rounds == files[cur.id]

\* The row goes to disk, with the header if it is the first of a new file.
FlushRow(from) ==
  /\ at = "summary"
  /\ runs' = Flushed(runs, own.header, {Row(cur.code, from)})
  /\ own' = [own EXCEPT !.header = FALSE]

\* cmd_run for logistic regression: the row goes to disk, the rounds are still in memory.
Summarise ==
  /\ tool = "logreg"
  /\ FlushRow(load_rounds)
  /\ cur' = [id |-> cur.id, from |-> load_rounds]
  /\ at' = "rounds"
  /\ UNCHANGED <<tool, rounds, ranVars, opened, torn>>

\* cmd_run for k-means: there is only the row.
SummariseKMeans ==
  /\ tool = "kmeans"
  /\ FlushRow(load_kmeans_rounds)
  /\ cur' = NoRun
  /\ at' = "next"
  /\ UNCHANGED <<tool, rounds, ranVars, opened, torn>>

\* The manifest: the metrics are left in the directory.
AppendRow ==
  /\ ~Eval
  /\ FlushRow(NoFiles)
  /\ cur' = NoRun
  /\ at' = "next"
  /\ UNCHANGED <<tool, rounds, ranVars, opened, torn>>

\* summarise_run: the loss after a round is the one the next round enters with, so there is
\* a row for each round of the files but the last.
RoundsIn(id, from) ==
  [id : {id}, round : UNION {1..(from[w].rounds - 1) : w \in SbWorkers}, from : {from}]

After == RoundsIn(cur.id, cur.from)

\* Mutant: the rounds go to disk with those of the next run.
FlushRoundsNever ==
  /\ at = "rounds"
  /\ cur' = NoRun
  /\ at' = "next"
  /\ UNCHANGED <<tool, runs, rounds, ranVars, opened, own, torn>>

FlushRounds ==
  /\ at = "rounds"
  /\ rounds' = Flushed(rounds, own.header2, After)
  /\ own' = [own EXCEPT !.header2 = FALSE]
  /\ cur' = NoRun
  /\ at' = "next"
  /\ UNCHANGED <<tool, runs, ranVars, opened, torn>>

EndSession == own' = NoSession /\ cur' = NoRun /\ at' = "idle"

CloseSession ==
  /\ at = "next"
  /\ own.todo = {}
  /\ runs' = Flushed(runs, own.header, {})
  /\ rounds' = Flushed(rounds, own.header2, {})
  /\ EndSession
  /\ UNCHANGED <<tool, ranVars, opened, torn>>

----------------------------------------------------------------------------
(* The end of a session from outside *)

\* The rows of the rounds are written in order.
Begun == {rows \in SUBSET After : \A r \in After, s \in rows : r.round < s.round => r \in rows}

\* Ctrl-C: the run is terminated, by the benchmark in the end with SIGKILL; the benchmark
\* records it with code -2, and the with statements flush the files; rounds that have not
\* been written yet are not.
CtrlC ==
  /\ at # "idle"
  /\ runs' = Flushed(runs, own.header, IF at = "run" /\ ~Eval THEN {Row(-2, NoFiles)} ELSE {})
  /\ \E rows \in IF at = "rounds" THEN Begun ELSE {{}} :
       /\ rounds' = Flushed(rounds, own.header2, rows)
       /\ torn' = (torn \/ (at = "rounds" /\ rows # After))
  /\ IF at = "run" /\ ~Eval THEN MayBeOrphaned ELSE UNCHANGED orphans
  /\ EndSession
  /\ UNCHANGED <<tool, files, launched, last, opened>>

\* A kill: what is not flushed is lost, and mpirun goes on.
KillSession ==
  /\ at # "idle"
  /\ torn' = (torn \/ at = "rounds" \/ own.header \/ own.header2)
  /\ orphans' = IF at = "run" THEN orphans \cup {cur} ELSE orphans
  /\ EndSession
  /\ UNCHANGED <<tool, runs, rounds, files, launched, last, opened>>

SessionSteps ==
  \/ \E cell \in Cells : SkipDone(cell) \/ Launch(cell) \/ LaunchBenchmark(cell)
  \/ \E w \in SbWorkers : WorkerSaves(w)
  \/ LaunchEnds \/ StreamEnds
  \/ Summarise \/ SummariseKMeans \/ AppendRow
  \/ FlushRounds \/ CloseSession

SyncBenchNext ==
  \/ \E plan \in SUBSET Cells \ {{}}, budget \in Budgets :
       OpenSession(plan, budget) \/ OpenBenchmark(plan, budget)
  \/ SessionSteps
  \/ \E o \in orphans : OrphanEnds(o) \/ \E w \in SbWorkers : OrphanSaves(o, w)
  \/ CtrlC \/ KillSession

SyncBenchSpec == SyncBenchInit /\ [][SyncBenchNext]_syncBenchVars

----------------------------------------------------------------------------
(* select, compare and analyze *)

\* select_best, select_kmeans, build_summary_rows and the comparison with the baseline
\* start from the successful rows.
Selected == {row \in runs.rows : row.code = 0}

\* build_summary_rows: the row comes from the manifest, the metrics from the directory
\* as it is when the analysis runs.
Metrics(row) == IF Eval THEN row.from ELSE files[row.id]

\* The rounds of a successful run are looked up by its run id.
RoundsOf(row) == {<<r.round, r.from>> : r \in {s \in rounds.rows : s.id = row.id}}

\* What its own workers wrote, all of them.
OwnOutput(row) == [w \in SbWorkers |-> Output(row)]

\* The metrics reported with a successful run are that run's, of all its workers, and
\* not what an earlier attempt left in the directory; for the benchmark, as long as no
\* later attempt has overwritten them, and except for allreduce_mpi, with which none are
\* reported.  (What outlived its session or its timeout may have written into the
\* directory during the run.)
SummaryIsOwn ==
  \A row \in Selected :
    ~row.haunted /\ (Eval \/ last[row.id] = row.attempt) =>
      Metrics(row) = IF Standalone(row.cell) THEN NoFiles ELSE OwnOutput(row)

\* The time to target of a run that succeeded at its first attempt is computed from its
\* own rounds, each of them once and all but the last ("R-1: the last model is not
\* evaluated", test_sync_eval.py:56; a run of one round has none), if no session ended
\* between its two flushes.  (The rounds of a failed attempt stay under the same run id.)
SelectReadsOwnRounds ==
  tool = "logreg" /\ ~torn /\ at = "idle" =>
    \A row \in Selected :
      (~row.haunted /\ \A other \in runs.rows : other.id = row.id => other = row)
        => /\ rounds.first = "header"
           /\ RoundsOf(row) = (1..(row.length - 1)) \X {OwnOutput(row)}

\* "runs with different --rounds never collide on resume": when a session of k-means
\* comes to its end, every cell of its plan has a row with the budget of the session.
\* (For logistic regression the row of another budget serves as well.)
PlanCovered ==
  at = "next" /\ own.todo = {} =>
    \A cell \in own.plan : \E row \in runs.rows :
      row.cell = cell /\ (tool # "logreg" => row.budget = own.budget)
=============================================================================
