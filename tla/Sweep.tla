-------------------------------- MODULE Sweep --------------------------------
(***************************************************************************)
(* The resumable benchmark sweeps of scripts/: resource_benchmark.py,      *)
(* doe_kmeans.py, doe_logreg.py, doe_rightsize.py and doe_holdout.py.      *)
(*                                                                         *)
(* A session works through a plan of runs, each an mpirun in a process     *)
(* session of its own, and appends what they gave to a CSV.  A session may *)
(* be interrupted (Ctrl-C: its run is terminated and Python flushes and    *)
(* closes its files) or killed (a signal without a handler, a power cut:   *)
(* buffered output is lost and mpirun goes on).  The next session rebuilds *)
(* from the CSV which runs are done and which configurations to skip.  A   *)
(* lock file keeps two sessions from writing the same CSV; the data files  *)
(* of the doe scripts are generated before it is taken.                    *)
(*                                                                         *)
(* A run is a cell of the design and a repetition.  The rows of a CSV are  *)
(* the set of its (run, exit code) pairs; its first line is all a reader   *)
(* knows of the columns.  Wall times, samples and logs are left out.       *)
(***************************************************************************)
EXTENDS Integers, Sequences, FiniteSets

CONSTANTS
  SwProcs,     \* sessions that may be open at the same time
  SwScripts,   \* the scripts to choose from
  DesignSize,  \* cells in the design of each script
  Reps,        \* repetitions of a cell
  Capped,      \* holdout: the memory-capped cells, the largest cap first
  MaxConsec,   \* MAX_CONSEC_FAILS
  MaxTimeouts, \* resource: --max-cfg-timeouts
  Chunks,      \* writes that fill a data file
  MaxSessions, \* bound: sessions opened
  MaxBad       \* bound: runs that end with another code than 0

ASSUME SweepAssumption ==
  /\ SwScripts \subseteq {"resource", "kmeans", "logreg", "rightsize", "holdout"}
  /\ DesignSize \in [SwScripts -> Nat \ {0}]
  /\ {Reps, MaxConsec, MaxTimeouts, Chunks} \subseteq Nat \ {0}
  /\ "holdout" \in SwScripts => Capped \subseteq 1..DesignSize["holdout"]
  /\ {MaxSessions, MaxBad} \subseteq Nat

VARIABLES
  script,    \* the script all sessions run
  plan,      \* the runs in the order of the script, the same for one --seed
  csv,       \* the results file: its first line and its rows
  backup,    \* rows in files moved aside
  lock,      \* sessions that hold the lock on the CSV
  stage,     \* what each session is at
  mem,       \* memory of each session, from the load of the CSV on
  sessions,  \* sessions opened so far
  bad,       \* runs that ended with another code than 0
  cut,       \* resource: a session ended where its CSV was not whole
  saved,     \* runs whose success has been flushed to a CSV
  data,      \* the generated data file
  tmp,       \* its .tmp file
  gen,       \* what each session has open for writing, and how far it is
  shared     \* two sessions had the .tmp file open

dataVars == <<data, tmp, gen, shared>>
sweepVars == <<script, plan, csv, backup, lock, stage, mem, sessions, bad, cut, saved, dataVars>>

Cell == 1..DesignSize[script]
Runs == [cell : Cell, rep : 1..Reps]
Doe == script # "resource"
IsCapped(cell) == script = "holdout" /\ cell \in Capped

----------------------------------------------------------------------------
(* The plan *)

\* f enumerates the set S.
Orders(S) == {f \in [1..Cardinality(S) -> S] : \A i, j \in DOMAIN f : f[i] = f[j] => i = j}

InOrder(S) == CHOOSE f \in Orders(S) : \A i, j \in DOMAIN f : i < j => f[i] < f[j]

\* itertools.product: all repetitions of a cell before the next cell.
CellMajor(order) ==
  [i \in 1..Len(order) * Reps |->
     [cell |-> order[(i - 1) \div Reps + 1], rep |-> ((i - 1) % Reps) + 1]]

\* One pass over the cells after the other, pass r in the order passes[r].
RepMajor(passes) ==
  LET n == Len(passes[1])
  IN  [i \in 1..n * Reps |->
         [cell |-> passes[(i - 1) \div n + 1][((i - 1) % n) + 1], rep |-> (i - 1) \div n + 1]]

DesignOrder == RepMajor([r \in 1..Reps |-> InOrder(Cell)])

\* rng.sample of the same cells for every repetition.
ShuffledPasses(S) == {RepMajor(passes) : passes \in [1..Reps -> Orders(S)]}

\* The uncapped cells in shuffled passes, then the capped ones with falling cap.
HoldoutPlans ==
  {first \o CellMajor(InOrder(Capped)) : first \in ShuffledPasses((Cell) \ Capped)}

Plans ==
  CASE script = "resource"           -> {CellMajor(InOrder(Cell))}
    [] script \in {"kmeans", "logreg"} -> {DesignOrder}
    [] script = "rightsize"          -> ShuffledPasses(Cell)
    [] script = "holdout"            -> HoldoutPlans

----------------------------------------------------------------------------
(* The loops of the scripts *)

\* Exit codes a run may have (124: killed at the timeout, 125: killed as stalled), those
\* after which it is tried once more, those that end a row of failures, and the
\* timeouts after which the rest of a cell is skipped.
ResourceLoop == [codes |-> {0, 1, 124}, retried |-> {}, forgiven |-> {0, 124}, limit |-> MaxTimeouts]
KmeansLoop == [ResourceLoop EXCEPT !.limit = 1]
LogregLoop == [codes |-> {0, 1, 124, 125}, retried |-> {125}, forgiven |-> {0, 124, 125}, limit |-> 1]
RightsizeLoop == LogregLoop
HoldoutLoop == LogregLoop

Loop ==
  CASE script = "resource"  -> ResourceLoop
    [] script = "kmeans"    -> KmeansLoop
    [] script = "logreg"    -> LogregLoop
    [] script = "rightsize" -> RightsizeLoop
    [] script = "holdout"   -> HoldoutLoop

----------------------------------------------------------------------------
(* The CSV and what a session reads from it *)

Absent == [first |-> "absent", rows |-> {}]
Empty == [first |-> "empty", rows |-> {}]

\* csv.DictReader finds the columns by the first line.
Readable == IF csv.first = "header" THEN csv.rows ELSE {}

\* A capped run that died is a result.
DiedCapped(row) == IsCapped(row.run.cell) /\ row.code \notin {0, 124, 125}

done_keys == {row.run : row \in {r \in Readable : r.code = 0}}

read_state == {row.run : row \in {r \in Readable : r.code = 0 \/ DiedCapped(r)}}

Done == IF Doe THEN read_state ELSE done_keys

\* Distinct repetitions that timed out.
prior_timeouts ==
  [c \in Cell |-> Cardinality({r \in 1..Reps : [run |-> [cell |-> c, rep |-> r], code |-> 124] \in Readable})]

\* Mutant: failed caps are not looked for.
NoFailedCells == {}

failed_cells == {row.run.cell : row \in {r \in Readable : DiedCapped(r)}}

Write(row) == [csv EXCEPT !.first = IF @ \in {"absent", "empty"} THEN "row" ELSE @, !.rows = @ \cup {row}]

----------------------------------------------------------------------------
NoData == [len |-> 0, filled |-> {}]
NoGen == [inode |-> "none", pos |-> 0]
NoMem == [todo |-> {}, attempt |-> 1, timeouts |-> [c \in Cell |-> 0], failed |-> {},
          consec |-> 0, header |-> FALSE, rows |-> {}]

\* The results of one earlier run, written when the script had other columns.
Earlier == {[run |-> [cell |-> 1, rep |-> 1], code |-> 0]}

SweepInit ==
  /\ script \in SwScripts
  /\ plan \in Plans
  /\ csv \in {Absent} \cup
       (IF Doe THEN {} ELSE {[first |-> f, rows |-> Earlier] : f \in {"older", "foreign"}})
  /\ saved = IF csv.first = "foreign" THEN {} ELSE {row.run : row \in csv.rows}
  /\ backup = {} /\ lock = {}
  /\ stage = [p \in SwProcs |-> "idle"]
  /\ mem = [p \in SwProcs |-> NoMem]
  /\ sessions = 0 /\ bad = 0 /\ cut = FALSE
  /\ data = NoData /\ tmp = NoData
  /\ gen = [p \in SwProcs |-> NoGen]
  /\ shared = FALSE

Goto(p, label) == stage' = [stage EXCEPT ![p] = label]

\* The process ends: its lock is released and its files are closed.
Exit(p) ==
  /\ Goto(p, "idle")
  /\ lock' = lock \ {p}
  /\ mem' = [mem EXCEPT ![p] = NoMem]
  /\ gen' = [gen EXCEPT ![p] = NoGen]

Open(p) ==
  /\ stage[p] = "idle"
  /\ sessions < MaxSessions
  /\ sessions' = sessions + 1
  /\ Goto(p, IF Doe THEN "data" ELSE "check")
  /\ UNCHANGED <<script, plan, csv, backup, lock, mem, bad, cut, saved, dataVars>>

----------------------------------------------------------------------------
(* Data files *)

\* A file of the right size is kept, whatever it holds; otherwise path.tmp is opened
\* for writing, which truncates the file another session may have open.
ensure_data(p) ==
  /\ stage[p] = "data"
  /\ IF data.len = Chunks
     THEN Goto(p, "check") /\ UNCHANGED dataVars
     ELSE /\ Goto(p, "write")
          /\ tmp' = NoData
          /\ gen' = [gen EXCEPT ![p] = [inode |-> "tmp", pos |-> 0]]
          /\ shared' = (shared \/ \E q \in SwProcs \ {p} : gen[q].inode = "tmp")
          /\ UNCHANGED data
  /\ UNCHANGED <<script, plan, csv, backup, lock, mem, sessions, bad, cut, saved>>

\* The file position is the writer's own: after a truncation it leaves a hole behind.
Fill(file, pos) ==
  [len |-> IF pos > file.len THEN pos ELSE file.len, filled |-> file.filled \cup {pos}]

WriteChunk(p) ==
  /\ stage[p] = "write"
  /\ LET pos == gen[p].pos + 1
     IN  /\ gen' = [gen EXCEPT ![p].pos = pos]
         /\ tmp' = IF gen[p].inode = "tmp" THEN Fill(tmp, pos) ELSE tmp
         /\ data' = IF gen[p].inode = "data" THEN Fill(data, pos) ELSE data
  /\ Goto(p, "size")
  /\ UNCHANGED <<script, plan, csv, backup, lock, mem, sessions, bad, cut, saved, shared>>

\* os.replace: the other writers' handles follow the file.
Replace(p) ==
  /\ data' = tmp
  /\ tmp' = NoData
  /\ gen' = [q \in SwProcs |->
               IF q = p THEN NoGen
               ELSE IF gen[q].inode = "tmp" THEN [gen[q] EXCEPT !.inode = "data"] ELSE gen[q]]

\* Mutant: the file is put in place one write too early.
CheckSizeEarly(p) ==
  /\ stage[p] = "size"
  /\ \/ /\ gen[p].inode = "tmp" /\ tmp.len < Chunks - 1
        /\ Goto(p, "write")
        /\ UNCHANGED <<lock, mem, data, tmp, gen>>
     \/ /\ gen[p].inode = "tmp" /\ tmp.len >= Chunks - 1
        /\ Goto(p, "check")
        /\ Replace(p)
        /\ UNCHANGED <<lock, mem>>
     \/ /\ gen[p].inode # "tmp"
        /\ Exit(p)
        /\ UNCHANGED <<data, tmp>>
  /\ UNCHANGED <<script, plan, csv, backup, sessions, bad, cut, saved, shared>>

\* getsize(path.tmp): too small, go on; large enough, os.replace; gone, it raises.
CheckSize(p) ==
  /\ stage[p] = "size"
  /\ \/ /\ gen[p].inode = "tmp" /\ tmp.len < Chunks
        /\ Goto(p, "write")
        /\ UNCHANGED <<lock, mem, data, tmp, gen>>
     \/ /\ gen[p].inode = "tmp" /\ tmp.len >= Chunks
        /\ Goto(p, "check")
        /\ Replace(p)
        /\ UNCHANGED <<lock, mem>>
     \/ /\ gen[p].inode # "tmp"
        /\ Exit(p)
        /\ UNCHANGED <<data, tmp>>
  /\ UNCHANGED <<script, plan, csv, backup, sessions, bad, cut, saved, shared>>

----------------------------------------------------------------------------
(* Opening the CSV *)

\* The interpreter, mpirun, the options of main_mpi and the inputs are there, or the
\* session exits.
Preflight(p) ==
  /\ stage[p] = "check"
  /\ \/ Goto(p, "lock") /\ UNCHANGED <<lock, mem, gen>>
     \/ Exit(p)
  /\ UNCHANGED <<script, plan, csv, backup, sessions, bad, cut, saved, data, tmp, shared>>

\* flock without blocking: a second session exits.
Lock(p) ==
  /\ stage[p] = "lock"
  /\ IF lock = {}
     THEN lock' = {p} /\ Goto(p, IF Doe THEN "load" ELSE "prepare") /\ UNCHANGED <<mem, gen>>
     ELSE Exit(p)
  /\ UNCHANGED <<script, plan, csv, backup, sessions, bad, cut, saved, data, tmp, shared>>

\* A file with fewer columns is truncated, to be written again with the rows read
\* from it; one with another first line is moved aside.
prepare_csv(p) ==
  /\ stage[p] = "prepare"
  /\ \/ /\ csv.first \in {"absent", "empty", "header"}
        /\ Goto(p, "load")
        /\ UNCHANGED <<csv, backup, mem>>
     \/ /\ csv.first = "older"
        /\ mem' = [mem EXCEPT ![p].rows = csv.rows]
        /\ csv' = Empty
        /\ Goto(p, "upgrade")
        /\ UNCHANGED backup
     \/ /\ csv.first \in {"foreign", "row"}
        /\ backup' = backup \cup csv.rows
        /\ csv' = Absent
        /\ Goto(p, "load")
        /\ UNCHANGED mem
  /\ UNCHANGED <<script, plan, lock, sessions, bad, cut, saved, dataVars>>

Upgrade(p) ==
  /\ stage[p] = "upgrade"
  /\ csv' = [first |-> "header", rows |-> mem[p].rows]
  /\ mem' = [mem EXCEPT ![p].rows = {}]
  /\ Goto(p, "load")
  /\ UNCHANGED <<script, plan, backup, lock, sessions, bad, cut, saved, dataVars>>

\* Mutant: without the test of the size.
NewFileAbsent == csv.first = "absent"

NewFile == csv.first = "absent" \/ (Doe /\ csv.first = "empty")

\* What is done and what is to be skipped is read, the file is opened for appending
\* (which creates it) and the header of a new file goes into the buffer.
Load(p) ==
  /\ stage[p] = "load"
  /\ mem' = [mem EXCEPT ![p] = [NoMem EXCEPT
                !.todo = {i \in DOMAIN plan : plan[i] \notin Done},
                !.timeouts = prior_timeouts,
                !.failed = failed_cells,
                !.header = NewFile]]
  /\ csv' = IF csv.first = "absent" THEN Empty ELSE csv
  /\ Goto(p, "next")
  /\ UNCHANGED <<script, plan, backup, lock, sessions, bad, cut, saved, dataVars>>

----------------------------------------------------------------------------
(* The loop over the plan *)

\* A smaller cap than one that already failed is not tried.
BelowCliff(failed, cell) == IsCapped(cell) /\ \E c \in failed : c < cell

SkipsCell(timeouts, failed, cell) ==
  timeouts[cell] >= Loop.limit \/ cell \in failed \/ BelowCliff(failed, cell)

\* The first of the places of the plan that are left.
NextPlace(p) == CHOOSE i \in mem[p].todo : \A j \in mem[p].todo : i <= j
NextRun(p) == plan[NextPlace(p)]
Rest(p) == mem[p].todo \ {NextPlace(p)}

Skips(p) == SkipsCell(mem[p].timeouts, mem[p].failed, NextRun(p).cell)

\* Mutant: a skipped cell ends the loop.
SkipRest(p) ==
  /\ stage[p] = "next"
  /\ mem[p].todo # {}
  /\ Skips(p)
  /\ mem' = [mem EXCEPT ![p].todo = {}]
  /\ UNCHANGED <<script, plan, csv, backup, lock, stage, sessions, bad, cut, saved, dataVars>>

Skip(p) ==
  /\ stage[p] = "next"
  /\ mem[p].todo # {}
  /\ Skips(p)
  /\ mem' = [mem EXCEPT ![p].todo = Rest(p)]
  /\ UNCHANGED <<script, plan, csv, backup, lock, stage, sessions, bad, cut, saved, dataVars>>

StartRun(p) ==
  /\ stage[p] = "next"
  /\ mem[p].todo # {}
  /\ ~Skips(p)
  /\ mem' = [mem EXCEPT ![p].attempt = 1]
  /\ Goto(p, "run")
  /\ UNCHANGED <<script, plan, csv, backup, lock, sessions, bad, cut, saved, dataVars>>

\* The header is still in the buffer when no run came before.
Flush(p, file) == IF mem[p].header THEN [file EXCEPT !.first = "header"] ELSE file

\* A stalled run is tried once more.
Retries(p, code) == code \in Loop.retried /\ mem[p].attempt = 1

\* A capped run does not count.
Consec(p, run, code) ==
  IF IsCapped(run.cell) THEN mem[p].consec
  ELSE IF code \in Loop.forgiven THEN 0 ELSE mem[p].consec + 1

\* run_once / run_cmd returns, the rows are written and flushed, and the session
\* retries, aborts or goes on.
RunEnds(p) ==
  /\ stage[p] = "run"
  /\ \E code \in Loop.codes :
       LET run == NextRun(p)
           row == [run |-> run, code |-> code]
           consec == Consec(p, run, code)
       IN  /\ code # 0 => bad < MaxBad
           /\ bad' = IF code = 0 THEN bad ELSE bad + 1
           /\ csv' = Flush(p, Write(row))
           /\ saved' = IF code = 0 THEN saved \cup {run} ELSE saved
           /\ \/ /\ Retries(p, code)
                 /\ mem' = [mem EXCEPT ![p].attempt = 2, ![p].header = FALSE]
                 /\ UNCHANGED <<lock, stage, gen>>
              \/ /\ ~Retries(p, code) /\ consec >= MaxConsec
                 /\ Exit(p)
              \/ /\ ~Retries(p, code) /\ consec < MaxConsec
                 /\ mem' = [mem EXCEPT
                      ![p].todo = Rest(p),
                      ![p].header = FALSE,
                      ![p].timeouts[run.cell] = IF code = 124 THEN @ + 1 ELSE @,
                      ![p].failed = IF DiedCapped(row) THEN @ \cup {run.cell} ELSE @,
                      ![p].consec = consec]
                 /\ Goto(p, "next")
                 /\ UNCHANGED <<lock, gen>>
  /\ UNCHANGED <<script, plan, backup, sessions, cut, data, tmp, shared>>

\* "ALL DONE"
Finish(p) ==
  /\ stage[p] = "next"
  /\ mem[p].todo = {}
  /\ csv' = Flush(p, csv)
  /\ Exit(p)
  /\ UNCHANGED <<script, plan, backup, sessions, bad, cut, saved, data, tmp, shared>>

----------------------------------------------------------------------------
(* The end of a session from outside *)

\* What a partly written upgrade may leave.
Upgraded(rows) == {Empty} \cup {[first |-> "header", rows |-> S] : S \in SUBSET rows}

\* Ctrl-C: the process group of the run is terminated, the files are flushed and closed.
Interrupt(p) ==
  /\ stage[p] # "idle"
  /\ csv' \in IF stage[p] = "upgrade" THEN Upgraded(mem[p].rows) ELSE {Flush(p, csv)}
  /\ cut' = (cut \/ stage[p] = "upgrade")
  /\ Exit(p)
  /\ UNCHANGED <<script, plan, backup, sessions, bad, saved, data, tmp, shared>>

\* A kill: the buffers are lost.
Kill(p) ==
  /\ stage[p] # "idle"
  /\ csv' \in IF stage[p] = "upgrade" THEN Upgraded(mem[p].rows) ELSE {csv}
  /\ cut' = (cut \/ stage[p] = "upgrade" \/ (~Doe /\ mem[p].header))
  /\ Exit(p)
  /\ UNCHANGED <<script, plan, backup, sessions, bad, saved, data, tmp, shared>>

SessionStep(p) ==
  \/ ensure_data(p) \/ WriteChunk(p) \/ CheckSize(p)
  \/ Preflight(p) \/ Lock(p) \/ prepare_csv(p) \/ Upgrade(p) \/ Load(p)
  \/ Skip(p) \/ StartRun(p) \/ RunEnds(p) \/ Finish(p)

SweepNext == \E p \in SwProcs : Open(p) \/ SessionStep(p) \/ Interrupt(p) \/ Kill(p)

SweepSpec == SweepInit /\ [][SweepNext]_sweepVars

----------------------------------------------------------------------------
(* Properties *)

\* "Resumable: re-run after an interruption and it skips combos that already finished
\* with exit_code 0": no session starts a run whose success an earlier one has
\* flushed.  For resource_benchmark.py this holds unless a session was cut where its
\* CSV was not whole: killed before the first flush wrote the header, or stopped
\* between truncating an older file and writing its rows again.
SavedNotRepeated ==
  \A p \in SwProcs : stage[p] = "run" /\ NextRun(p) \in saved => cut

\* What a session skips for timeouts or for a failed cap, the next one skips as well,
\* and for the doe scripts nothing else: the memory of the loop is on disk at every
\* turn.  (resource_benchmark.py counts two timeouts of one repetition as two, and
\* as one when it resumes.)
ResumeSkipsAsBefore ==
  \A p \in SwProcs : stage[p] \in {"next", "run"} =>
    \A c \in Cell :
      LET now == SkipsCell(mem[p].timeouts, mem[p].failed, c)
          resumed == SkipsCell(prior_timeouts, failed_cells, c)
      IN  (resumed => now) /\ (Doe => now = resumed)

\* Whatever sessions came before, "ALL DONE" accounts for every run of the design: the
\* CSV has a row of it, or the row of a timeout of its cell, or of a failed larger cap.
AllDoneAccountsForAll ==
  [][\A p \in SwProcs : stage[p] = "next" /\ mem[p].todo = {} /\ stage'[p] = "idle" =>
       \A run \in Runs : \E row \in csv.rows :
         \/ row.run = run
         \/ row.run.cell = run.cell /\ row.code = 124
         \/ IsCapped(run.cell) /\ DiedCapped(row) /\ row.run.cell <= run.cell]_sweepVars

\* A run reads a complete data file, whenever earlier sessions were interrupted or killed
\* while they generated it, unless two of them were generating it at the same time:
\* the lock is taken after the data files are made.
RunsReadWholeData ==
  \A p \in SwProcs : stage[p] = "run" /\ Doe /\ ~shared => data.filled = 1..Chunks
=============================================================================
