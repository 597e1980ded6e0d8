---------------------------- MODULE MpiJobProofs ----------------------------
(***************************************************************************)
(* Proofs about jobs over MPI, and about the scripts that launch many of   *)
(* them and can be stopped and resumed.                                    *)
(*                                                                         *)
(* MpiLifecycle, for any number of workers: at every moment the messages   *)
(* in flight are determined by where rank 0's loops are and where each     *)
(* worker is, so what rank 0 receives is what was sent in this phase, and  *)
(* comm.Split is a barrier of all ranks or of none.                        *)
(*                                                                         *)
(* Sweep, for any design and any number of sessions: at every turn of the  *)
(* loop, what a session knows in memory is what the next one would read    *)
(* from the CSV, and every run it no longer has to do is accounted for by  *)
(* a row.  That the plan lists every run of the design once is proved of   *)
(* every order a script may put it in.                                     *)
(*                                                                         *)
(* SyncBench, for any number of sessions and runs: whose metrics a         *)
(* directory holds follows from who may still write there; a run that      *)
(* succeeded has overwritten all of them, and only a run that outlived its *)
(* session can have been there meanwhile.                                  *)
(***************************************************************************)
EXTENDS MpiLifecycle, Sweep, SyncBench,
        FiniteSetTheorems, SequenceTheorems, WellFoundedInduction, TLAPS

----------------------------------------------------------------------------
(* The job: its inductive invariant *)

\* How far the loops of rank 0 have come with worker w.
Reported(w)   == root = "end" /\ results[w] # "none"
Collected(w)  == (root = "collect" /\ w < next) \/ root \in {"collected", "gossip"} \/ Reported(w)
Released(w)   == (root = "go" /\ w < next) \/ root \in {"split", "splitting", "collect"} \/ Collected(w)
Heard(w)      == (root = "ready" /\ w < next) \/ root = "go" \/ Released(w)
Configured(w) == (root = "config" /\ w < next) \/ root = "ready" \/ Heard(w)

\* How far a worker has come is within what rank 0 has released it to, and back.
PaceInv ==
  \A w \in Worker :
    /\ pc[w] # "config" => Configured(w)
    /\ Heard(w) => pc[w] \in {"go", "split", "run", "exit"}
    /\ pc[w] \in {"split", "run", "exit"} => Released(w)
    /\ Collected(w) => pc[w] = "exit"

\* The messages in flight.
NetInv ==
  \A w \in Worker :
    /\ Msg("CONFIG", w) \in net <=> pc[w] = "config" /\ Configured(w)
    /\ Msg("READY", w) \in net <=> pc[w] \in {"go", "split", "run", "exit"} /\ ~Heard(w)
    /\ Msg("GO", w) \in net <=> pc[w] = "go" /\ Released(w)
    /\ Msg("RESULT", w) \in net <=> pc[w] = "exit" /\ ~Collected(w)
    /\ Msg("TIMING", w) \in net <=> pc[w] = "exit" /\ ~Collected(w)

\* A worker's driver, its call of Split and its outcome.
WorkerInv ==
  \A w \in Worker :
    /\ pc[w] = "exit" <=> status[w] # "none"
    /\ w \in split => spark[w] = "up" /\ pc[w] \in {"split", "run", "exit"}
    /\ pc[w] = "split" => w \in split
    /\ pc[w] = "run" \/ status[w] = "success" => split = 0..N

\* What rank 0 has received, and what it made of it.
RootInv ==
  /\ \A w \in Worker : results[w] = IF Collected(w) THEN status[w] ELSE "none"
  /\ root \in {"seed", "partition", "split", "splitting"} => next = 1
  /\ root = "end" <=> exit # "running"
  /\ root = "end" =>
       \/ exit = "raised" /\ \A w \in Worker : results[w] = "none"
       \/ exit = "raised" /\ \A w \in Worker : results[w] = "success"
       \/ exit = "complete" /\ \A w \in Worker : results[w] = "success"
       \/ exit = "failed" /\ (\A w \in Worker : results[w] # "none")
                          /\ \E w \in Worker : results[w] = "error"

IInv == TypeOK /\ PaceInv /\ NetInv /\ WorkerInv /\ RootInv

----------------------------------------------------------------------------
(* Helpers *)

LEMMA MsgInjective == \A t, u, v, w : Msg(t, v) = Msg(u, w) <=> t = u /\ v = w
BY DEF Msg

LEMMA MsgType == \A t \in Tag, w \in Worker : Msg(t, w) \in Message
BY DEF Msg, Message

\* A step of a worker leaves the loops of rank 0 where they are.
LEMMA LoopsKept ==
  ASSUME UNCHANGED rootVars
  PROVE  \A w : /\ Collected(w)' = Collected(w) /\ Released(w)' = Released(w)
                /\ Heard(w)' = Heard(w) /\ Configured(w)' = Configured(w)
BY DEF rootVars, Reported, Collected, Released, Heard, Configured

\* One round of a loop over the ranks: next has been dealt with, and all of them have
\* when the next phase is reached.
LEMMA LoopStep ==
  ASSUME NEW phase, NextRank(phase), next \in Worker, root # phase
  PROVE  /\ next' \in Worker /\ root' \in {root, phase}
         /\ \A w \in Worker : (root' = phase \/ w < next') <=> (w < next \/ w = next)
         /\ root' # phase => root' = root
BY ConstantsAssumption DEF NextRank, Worker

----------------------------------------------------------------------------
LEMMA InitIInv == Init => IInv
<1> SUFFICES ASSUME Init PROVE IInv  OBVIOUS
<1> USE ConstantsAssumption DEF Init
<1>1. TypeOK
  BY DEF TypeOK, Worker
<1>2. \A w \in Worker : ~Configured(w) /\ ~Heard(w) /\ ~Released(w) /\ ~Collected(w)
  BY DEF Configured, Heard, Released, Collected, Reported
<1>3. PaceInv /\ NetInv /\ WorkerInv /\ RootInv
  BY <1>2 DEF PaceInv, NetInv, WorkerInv, RootInv
<1>4. QED
  BY <1>1, <1>3 DEF IInv

----------------------------------------------------------------------------
(* Steps of a worker *)

LEMMA RecvConfigIInv ==
  ASSUME IInv, NEW w \in Worker, RecvConfig(w)
  PROVE  IInv'
<1> USE DEF IInv, RecvConfig
<1>1. TypeOK'
  BY DEF TypeOK, rootVars
<1>2. /\ pc[w] = "config" /\ pc'[w] = "init" /\ Configured(w)
      /\ \A v \in Worker : v # w => pc'[v] = pc[v]
  BY DEF TypeOK, NetInv
<1>3. PaceInv'
  BY <1>2, LoopsKept DEF PaceInv
<1>4. NetInv'
  <2>1. \A t \in Tag, v \in Worker :
          Msg(t, v) \in net' <=> Msg(t, v) \in net /\ ~(t = "CONFIG" /\ v = w)
    BY MsgInjective
  <2>2. QED  BY <1>2, <2>1, LoopsKept DEF NetInv, Tag, PaceInv
<1>5. WorkerInv'
  BY <1>2 DEF WorkerInv
<1>6. RootInv'
  BY LoopsKept DEF RootInv, rootVars
<1>7. QED
  BY <1>1, <1>3, <1>4, <1>5, <1>6

LEMMA StartSparkIInv ==
  ASSUME IInv, NEW w \in Worker, StartSpark(w)
  PROVE  IInv'
<1> USE DEF IInv, StartSpark
<1>1. TypeOK'
  BY MsgType DEF TypeOK, rootVars, Tag
<1>2. /\ pc[w] = "init" /\ pc'[w] = "go" /\ ~Heard(w)
      /\ \A v \in Worker : v # w => pc'[v] = pc[v] /\ spark'[v] = spark[v]
  BY DEF TypeOK, PaceInv
<1>3. PaceInv'
  BY <1>2, LoopsKept DEF PaceInv
<1>4. NetInv'
  <2>1. \A t \in Tag, v \in Worker :
          Msg(t, v) \in net' <=> Msg(t, v) \in net \/ (t = "READY" /\ v = w)
    BY MsgInjective
  <2>2. ~Released(w)
    BY <1>2 DEF Heard
  <2>3. QED  BY <1>2, <2>1, <2>2, LoopsKept DEF NetInv, Tag
<1>5. WorkerInv'
  <2>1. w \notin split
    BY <1>2 DEF WorkerInv
  <2>2. QED  BY <1>2, <2>1 DEF WorkerInv
<1>6. RootInv'
  BY LoopsKept DEF RootInv, rootVars
<1>7. QED
  BY <1>1, <1>3, <1>4, <1>5, <1>6

\* Only a worker whose driver is up enters Split.
LEMMA RecvGoIInv ==
  ASSUME IInv, NEW w \in Worker, RecvGo(w)
  PROVE  IInv'
<1> USE DEF IInv, RecvGo
<1>1. TypeOK'
  <2>1. net' \in SUBSET Message
    BY MsgType DEF TypeOK, Tag
  <2>2. split' \in SUBSET (0..N)
    <3>1. w \in 0..N /\ split \in SUBSET (0..N)
      BY ConstantsAssumption DEF TypeOK, Worker
    <3>2. split' \in {split, split \cup {w}}
      OBVIOUS
    <3>3. QED  BY <3>1, <3>2
  <2>3. pc' \in [Worker -> {"config", "init", "go", "split", "run", "exit"}]
    BY DEF TypeOK
  <2>4. status' \in [Worker -> {"none", "success", "error"}]
    BY DEF TypeOK
  <2>5. QED  BY <2>1, <2>2, <2>3, <2>4 DEF TypeOK, rootVars
<1>2. /\ pc[w] = "go" /\ pc'[w] \in {"split", "exit"} /\ Released(w) /\ Heard(w) /\ ~Collected(w)
      /\ \A v \in Worker : v # w => pc'[v] = pc[v] /\ status'[v] = status[v]
      /\ pc'[w] = IF spark[w] = "up" THEN "split" ELSE "exit"
      /\ status'[w] = IF spark[w] = "up" THEN status[w] ELSE "error"
      /\ split' = IF spark[w] = "up" THEN split \cup {w} ELSE split
  BY DEF TypeOK, NetInv, PaceInv, Heard
<1>3. PaceInv'
  BY <1>2, LoopsKept DEF PaceInv
<1>4. NetInv'
  <2>1. \A t \in Tag, v \in Worker :
          Msg(t, v) \in net' <=>
            \/ Msg(t, v) \in net /\ ~(t = "GO" /\ v = w)
            \/ t \in {"RESULT", "TIMING"} /\ v = w /\ spark[w] # "up"
    BY MsgInjective
  <2>2. QED  BY <1>2, <2>1, LoopsKept DEF NetInv, Tag
<1>5. WorkerInv'
  <2>1. \A v \in Worker : pc[v] = "run" \/ status[v] = "success" => w \in split
    BY ConstantsAssumption DEF WorkerInv, Worker
  <2>2. \A v \in Worker : ~(pc[v] = "run" \/ status[v] = "success")
    BY <1>2, <2>1 DEF WorkerInv
  <2>3. status[w] = "none"
    BY <1>2 DEF WorkerInv
  <2>4. QED  BY <1>2, <2>2, <2>3 DEF WorkerInv
<1>6. RootInv'
  BY <1>2, LoopsKept DEF RootInv, rootVars
<1>7. QED
  BY <1>1, <1>3, <1>4, <1>5, <1>6

LEMMA LeaveSplitIInv ==
  ASSUME IInv, NEW w \in Worker, LeaveSplit(w)
  PROVE  IInv'
<1> USE DEF IInv, LeaveSplit
<1>1. TypeOK'
  BY DEF TypeOK, rootVars
<1>2. pc[w] = "split" /\ pc'[w] = "run" /\ \A v \in Worker : v # w => pc'[v] = pc[v]
  BY DEF TypeOK
<1>3. PaceInv' /\ NetInv'
  BY <1>2, LoopsKept DEF PaceInv, NetInv
<1>4. WorkerInv'
  BY <1>2 DEF WorkerInv
<1>5. RootInv'
  BY LoopsKept DEF RootInv, rootVars
<1>6. QED
  BY <1>1, <1>3, <1>4, <1>5

LEMMA RunIInv ==
  ASSUME IInv, NEW w \in Worker, Run(w)
  PROVE  IInv'
<1> USE DEF IInv, Run
<1>1. TypeOK'
  BY MsgType DEF TypeOK, rootVars, Tag
<1>2. /\ pc[w] = "run" /\ pc'[w] = "exit" /\ status'[w] \in {"success", "error"} /\ ~Collected(w)
      /\ \A v \in Worker : v # w => pc'[v] = pc[v] /\ status'[v] = status[v]
  BY DEF TypeOK, PaceInv
<1>3. PaceInv'
  BY <1>2, LoopsKept DEF PaceInv
<1>4. NetInv'
  <2>1. \A t \in Tag, v \in Worker :
          Msg(t, v) \in net' <=> Msg(t, v) \in net \/ (t \in {"RESULT", "TIMING"} /\ v = w)
    BY MsgInjective
  <2>2. QED  BY <1>2, <2>1, LoopsKept DEF NetInv, Tag
<1>5. WorkerInv'
  BY <1>2 DEF WorkerInv
<1>6. RootInv'
  BY <1>2, LoopsKept DEF RootInv, rootVars
<1>7. QED
  BY <1>1, <1>3, <1>4, <1>5, <1>6

----------------------------------------------------------------------------
(* Steps of rank 0 *)

\* Until the first configuration is sent, a run that raises ends with nothing begun.
LEMMA BeginIInv ==
  ASSUME IInv, Seed \/ Partition
  PROVE  IInv'
<1> USE ConstantsAssumption DEF IInv
<1>1. /\ UNCHANGED <<workerVars, net, split, next, results, use_gossip, coupled>>
      /\ root \in {"seed", "partition"} /\ root' \in {"partition", "config", "end"}
      /\ IF root' = "end" THEN exit' = "raised" ELSE exit' = exit
      /\ root' = "config" => root = "partition"
  BY DEF Seed, Partition, Raise
<1>2. TypeOK'
  BY <1>1 DEF TypeOK, workerVars
<1>3. \A v \in Worker : ~Configured(v) /\ ~Heard(v) /\ ~Released(v) /\ ~Collected(v)
  BY <1>1 DEF Configured, Heard, Released, Collected, Reported
<1>4. \A v \in Worker : results[v] = "none"
  BY <1>3 DEF RootInv
<1>5. root' = "config" => next' = 1
  BY <1>1 DEF RootInv
<1>6. \A v \in Worker : ~Configured(v)' /\ ~Heard(v)' /\ ~Released(v)' /\ ~Collected(v)'
  BY <1>1, <1>4, <1>5 DEF Configured, Heard, Released, Collected, Reported, Worker
<1>7. PaceInv' /\ NetInv' /\ WorkerInv'
  BY <1>1, <1>3, <1>6 DEF PaceInv, NetInv, WorkerInv, workerVars
<1>8. RootInv'
  BY <1>1, <1>3, <1>4, <1>6 DEF RootInv
<1>9. QED
  BY <1>2, <1>7, <1>8

LEMMA SendConfigIInv ==
  ASSUME IInv, SendConfig
  PROVE  IInv'
<1> USE DEF IInv, SendConfig
<1>1. root = "config" /\ next \in Worker
  BY DEF TypeOK
<1>2. /\ next' \in Worker /\ root' \in {"config", "ready"} /\ (root' = "ready" => next' = 1)
      /\ \A v \in Worker : (root' = "ready" \/ v < next') <=> (v < next \/ v = next)
  BY <1>1, LoopStep DEF NextRank
<1>3. TypeOK'
  BY <1>1, <1>2, MsgType DEF TypeOK, workerVars, Tag
<1>4. \A v \in Worker :
        /\ Configured(v)' <=> Configured(v) \/ v = next
        /\ ~Heard(v) /\ ~Released(v) /\ ~Collected(v)
        /\ ~Heard(v)' /\ ~Released(v)' /\ ~Collected(v)'
  BY <1>1, <1>2 DEF Configured, Heard, Released, Collected, Reported, Worker
<1>5. ~Configured(next)
  BY <1>1 DEF Configured, Heard, Released, Collected, Reported, Worker
<1>6. PaceInv'
  BY <1>4 DEF PaceInv, workerVars
<1>7. NetInv'
  <2>1. \A t \in Tag, v \in Worker :
          Msg(t, v) \in net' <=> Msg(t, v) \in net \/ (t = "CONFIG" /\ v = next)
    BY MsgInjective
  <2>2. pc[next] = "config"
    BY <1>1, <1>5 DEF PaceInv
  <2>3. QED  BY <1>1, <1>4, <2>1, <2>2 DEF NetInv, Tag, workerVars
<1>8. WorkerInv' /\ RootInv'
  BY <1>1, <1>2, <1>4 DEF WorkerInv, RootInv, workerVars
<1>9. QED
  BY <1>3, <1>6, <1>7, <1>8

LEMMA RecvReadyIInv ==
  ASSUME IInv, RecvReady
  PROVE  IInv'
<1> USE DEF IInv, RecvReady
<1>1. root = "ready" /\ next \in Worker
  BY DEF TypeOK
<1>2. /\ next' \in Worker /\ root' \in {"ready", "go"} /\ (root' = "go" => next' = 1)
      /\ \A v \in Worker : (root' = "go" \/ v < next') <=> (v < next \/ v = next)
  BY <1>1, LoopStep DEF NextRank
<1>3. TypeOK'
  BY <1>1, <1>2 DEF TypeOK, workerVars
<1>4. \A v \in Worker :
        /\ Configured(v) /\ Configured(v)'
        /\ Heard(v)' <=> Heard(v) \/ v = next
        /\ ~Released(v) /\ ~Collected(v) /\ ~Released(v)' /\ ~Collected(v)'
  BY <1>1, <1>2 DEF Configured, Heard, Released, Collected, Reported, Worker
<1>5. PaceInv'
  BY <1>1, <1>4 DEF PaceInv, NetInv, workerVars
<1>6. NetInv'
  <2>1. \A t \in Tag, v \in Worker :
          Msg(t, v) \in net' <=> Msg(t, v) \in net /\ ~(t = "READY" /\ v = next)
    BY MsgInjective
  <2>2. QED  BY <1>1, <1>4, <2>1 DEF NetInv, Tag, workerVars
<1>7. WorkerInv' /\ RootInv'
  BY <1>1, <1>2, <1>4 DEF WorkerInv, RootInv, workerVars
<1>8. QED
  BY <1>3, <1>5, <1>6, <1>7

LEMMA SendGoIInv ==
  ASSUME IInv, SendGo
  PROVE  IInv'
<1> USE DEF IInv, SendGo
<1>1. root = "go" /\ next \in Worker
  BY DEF TypeOK
<1>2. /\ next' \in Worker /\ root' \in {"go", "split"} /\ (root' = "split" => next' = 1)
      /\ \A v \in Worker : (root' = "split" \/ v < next') <=> (v < next \/ v = next)
  BY <1>1, LoopStep DEF NextRank
<1>3. TypeOK'
  BY <1>1, <1>2, MsgType DEF TypeOK, workerVars, Tag
<1>4. \A v \in Worker :
        /\ Configured(v) /\ Configured(v)' /\ Heard(v) /\ Heard(v)'
        /\ Released(v)' <=> Released(v) \/ v = next
        /\ ~Collected(v) /\ ~Collected(v)'
  BY <1>1, <1>2 DEF Configured, Heard, Released, Collected, Reported
<1>5. ~Released(next)
  BY <1>1 DEF Released, Collected, Reported, Worker
<1>6. PaceInv'
  BY <1>4 DEF PaceInv, workerVars
<1>7. NetInv'
  <2>1. \A t \in Tag, v \in Worker :
          Msg(t, v) \in net' <=> Msg(t, v) \in net \/ (t = "GO" /\ v = next)
    BY MsgInjective
  <2>2. pc[next] = "go"
    BY <1>1, <1>4, <1>5 DEF PaceInv
  <2>3. QED  BY <1>1, <1>4, <2>1, <2>2 DEF NetInv, Tag, workerVars
<1>8. WorkerInv' /\ RootInv'
  BY <1>1, <1>2, <1>4 DEF WorkerInv, RootInv, workerVars
<1>9. QED
  BY <1>3, <1>6, <1>7, <1>8

\* The barrier of Split changes nothing in flight.
LEMMA RootSplitIInv ==
  ASSUME IInv, EnterSplit \/ RootLeaveSplit
  PROVE  IInv'
<1> USE DEF IInv
<1>1. /\ UNCHANGED <<workerVars, net, next, results, exit, use_gossip, coupled>>
      /\ root \in {"split", "splitting"} /\ root' \in {"splitting", "collect"}
      /\ split' \in {split, split \cup {0}}
  BY DEF EnterSplit, RootLeaveSplit
<1>2. TypeOK'
  BY <1>1, ConstantsAssumption DEF TypeOK, workerVars
<1>3. \A v \in Worker :
        /\ Configured(v) /\ Configured(v)' /\ Heard(v) /\ Heard(v)' /\ Released(v) /\ Released(v)'
        /\ ~Collected(v)
  BY <1>1 DEF Configured, Heard, Released, Collected, Reported
<1>4. \A v \in Worker : ~Collected(v)'
  BY <1>1 DEF Collected, Reported, Worker, RootInv
<1>5. PaceInv' /\ NetInv'
  BY <1>1, <1>3, <1>4 DEF PaceInv, NetInv, workerVars
<1>6. WorkerInv'
  <2>1. \A v \in Worker : v \in split' <=> v \in split
    BY <1>1 DEF Worker
  <2>2. split = 0..N => split' = 0..N
    <3>1. 0 \in 0..N
      BY ConstantsAssumption
    <3>2. QED  BY <1>1, <3>1
  <2>3. QED  BY <1>1, <2>1, <2>2 DEF WorkerInv, workerVars
<1>7. RootInv'
  BY <1>1, <1>3, <1>4 DEF RootInv, workerVars
<1>8. QED
  BY <1>2, <1>5, <1>6, <1>7

LEMMA CollectIInv ==
  ASSUME IInv, Collect
  PROVE  IInv'
<1> USE DEF IInv, Collect
<1>1. root = "collect" /\ next \in Worker
  BY DEF TypeOK
<1>2. /\ next' \in Worker /\ root' \in {"collect", "collected"}
      /\ \A v \in Worker : (root' = "collected" \/ v < next') <=> (v < next \/ v = next)
  BY <1>1, LoopStep
<1>3. TypeOK'
  BY <1>1, <1>2 DEF TypeOK, workerVars
<1>4. \A v \in Worker :
        /\ Configured(v) /\ Configured(v)' /\ Heard(v) /\ Heard(v)' /\ Released(v) /\ Released(v)'
        /\ Collected(v)' <=> Collected(v) \/ v = next
  BY <1>1, <1>2 DEF Configured, Heard, Released, Collected, Reported
<1>5. pc[next] = "exit"
  BY <1>1 DEF NetInv
<1>6. PaceInv'
  BY <1>4, <1>5 DEF PaceInv, workerVars
<1>7. NetInv'
  <2>1. \A t \in Tag, v \in Worker :
          Msg(t, v) \in net' <=> Msg(t, v) \in net /\ ~(t \in {"RESULT", "TIMING"} /\ v = next)
    BY MsgInjective
  <2>2. QED  BY <1>1, <1>4, <2>1 DEF NetInv, Tag, workerVars
<1>8. WorkerInv'
  BY DEF WorkerInv, workerVars
<1>9. RootInv'
  <2>1. results'[next] = status[next] /\ \A v \in Worker : v # next => results'[v] = results[v]
    BY <1>1 DEF TypeOK
  <2>2. QED  BY <1>1, <1>2, <1>4, <2>1 DEF RootInv, workerVars
<1>10. QED
  BY <1>3, <1>6, <1>7, <1>8, <1>9

\* When the outcomes are judged, all of them have been received.
LEMMA ConcludeIInv ==
  ASSUME IInv, Conclude
  PROVE  IInv'
<1> USE DEF IInv
<1>1. /\ UNCHANGED <<workerVars, net, split, next, results, use_gossip, coupled>>
      /\ root = "collected"
      /\ \/ root' = "end" /\ exit' = "failed" /\ \E v \in Worker : results[v] = "error"
         \/ /\ \A v \in Worker : results[v] # "error"
            /\ \/ root' = "end" /\ exit' \in {"raised", "complete"}
               \/ root' = "gossip" /\ exit' = exit
  BY DEF Conclude, Raise
<1>2. TypeOK'
  BY <1>1 DEF TypeOK, workerVars
<1>3. \A v \in Worker : Collected(v) /\ Released(v) /\ Heard(v) /\ Configured(v)
  BY <1>1 DEF Configured, Heard, Released, Collected
<1>4. \A v \in Worker : results[v] = status[v] /\ results[v] \in {"success", "error"}
  BY <1>3 DEF RootInv, PaceInv, WorkerInv, TypeOK
<1>5. \A v \in Worker : Collected(v)' /\ Released(v)' /\ Heard(v)' /\ Configured(v)'
  BY <1>1, <1>4 DEF Configured, Heard, Released, Collected, Reported
<1>6. PaceInv' /\ NetInv' /\ WorkerInv'
  BY <1>1, <1>3, <1>5 DEF PaceInv, NetInv, WorkerInv, workerVars
<1>7. RootInv'
  BY <1>1, <1>4, <1>5 DEF RootInv, workerVars
<1>8. QED
  BY <1>2, <1>6, <1>7

----------------------------------------------------------------------------
LEMMA NextIInv == IInv /\ [Next]_vars => IInv'
<1> SUFFICES ASSUME IInv, [Next]_vars PROVE IInv'  OBVIOUS
<1>1. ASSUME NEW w \in Worker, WorkerStep(w)
      PROVE  IInv'
  BY <1>1, RecvConfigIInv, StartSparkIInv, RecvGoIInv, LeaveSplitIInv, RunIInv DEF WorkerStep
<1>2. CASE RootStep
  BY <1>2, BeginIInv, SendConfigIInv, RecvReadyIInv, SendGoIInv, RootSplitIInv, CollectIInv,
     ConcludeIInv DEF RootStep
<1>3. CASE Ended \/ UNCHANGED vars
  <2>1. UNCHANGED <<workerVars, net, split, rootVars>>
    BY <1>3 DEF Ended, vars
  <2>2. QED
    BY <2>1, LoopsKept DEF IInv, TypeOK, PaceInv, NetInv, WorkerInv, RootInv, workerVars, rootVars
<1>4. QED
  BY <1>1, <1>2, <1>3 DEF Next

LEMMA Invariant == Spec => []IInv
BY InitIInv, NextIInv, PTL DEF Spec

----------------------------------------------------------------------------
(* The job: results *)

\* Type correctness: every variable of the job over MPI keeps its type.
THEOREM JobTypeCorrect == Spec => []TypeOK
<1>1. IInv => TypeOK  BY DEF IInv
<1>2. QED  BY <1>1, Invariant, PTL

\* The READY / GO barrier and comm.Split: the application starts on a worker only when
\* every driver is up and rank 0 is in the Split, so it runs on every worker or on none.
THEOREM AllOrNoneRun == Spec => []RunsEverywhereOrNowhere
<1>1. IInv => RunsEverywhereOrNowhere
  <2> SUFFICES ASSUME IInv, NEW w \in Worker, pc[w] = "run" \/ status[w] = "success"
               PROVE  0 \in split /\ \A v \in Worker : spark[v] = "up"
    BY DEF RunsEverywhereOrNowhere
  <2>1. split = 0..N
    BY DEF IInv, WorkerInv
  <2>2. 0 \in 0..N /\ \A v \in Worker : v \in 0..N
    BY ConstantsAssumption DEF Worker
  <2>3. QED  BY <2>1, <2>2 DEF IInv, WorkerInv
<1>2. QED  BY <1>1, Invariant, PTL

\* The exit status of run_root_mpi tells what happened on the workers, and when it is
\* known every message of the job has been received.
THEOREM ExitStatusTells == Spec => []ExitStatusIsTrue
<1>1. ASSUME IInv, root = "end"
      PROVE  /\ exit = "failed" <=> \E w \in Worker : status[w] = "error"
             /\ exit = "complete" => \A w \in Worker : status[w] = "success"
             /\ exit = "raised" => (\A w \in Worker : pc[w] = "config")
                                     \/ (\A w \in Worker : status[w] = "success")
             /\ \A w \in Worker : \/ pc[w] = "config" /\ ~Configured(w)
                                  \/ pc[w] = "exit" /\ Collected(w)
  <2> USE <1>1
  <2>1. CASE exit = "raised" /\ \A w \in Worker : results[w] = "none"
    <3>1. \A w \in Worker : ~Configured(w)
      BY <2>1 DEF Configured, Heard, Released, Collected, Reported
    <3>2. \A w \in Worker : pc[w] = "config" /\ status[w] = "none"
      BY <3>1 DEF IInv, PaceInv, WorkerInv
    <3>3. QED  BY <2>1, <3>1, <3>2
  <2>2. CASE \A w \in Worker : results[w] # "none"
    <3>1. \A w \in Worker : Collected(w)
      BY <2>2 DEF Collected, Reported
    <3>2. \A w \in Worker : pc[w] = "exit" /\ results[w] = status[w]
      BY <3>1 DEF IInv, PaceInv, RootInv
    <3>3. \/ exit \in {"raised", "complete"} /\ \A w \in Worker : status[w] = "success"
          \/ exit = "failed" /\ \E w \in Worker : status[w] = "error"
      BY <2>2, <3>2, ConstantsAssumption DEF IInv, RootInv, Worker
    <3>4. QED  BY <3>1, <3>2, <3>3
  <2>3. QED  BY <2>1, <2>2 DEF IInv, RootInv
<1>2. ASSUME IInv, root = "end"
      PROVE  net = {}
  <2>1. \A t \in Tag, w \in Worker : Msg(t, w) \notin net
    BY <1>1, <1>2 DEF IInv, NetInv, Tag, Configured, Heard, Released
  <2>2. \A m \in Message : m = Msg(m.tag, m.rank) /\ m.tag \in Tag /\ m.rank \in Worker
    BY DEF Message, Msg
  <2>3. QED  BY <1>2, <2>1, <2>2 DEF IInv, TypeOK
<1>3. IInv => ExitStatusIsTrue
  <2> SUFFICES ASSUME IInv, exit # "running" PROVE ExitStatusIsTrue
    BY DEF ExitStatusIsTrue
  <2>1. root = "end"
    BY DEF IInv, RootInv
  <2>2. QED  BY <2>1, <1>1, <1>2 DEF ExitStatusIsTrue
<1>4. QED  BY <1>3, Invariant, PTL

\* No send of the job finds its message still in flight: a receive by rank and tag takes
\* the one message that was meant, and the set in which the model keeps them loses none.
THEOREM NothingSentTwice ==
  Spec => [](\A w \in Worker :
               /\ root = "config" /\ next = w => Msg("CONFIG", w) \notin net
               /\ root = "go" /\ next = w => Msg("GO", w) \notin net
               /\ pc[w] = "init" => Msg("READY", w) \notin net
               /\ pc[w] \in {"go", "run"} => {Msg("RESULT", w), Msg("TIMING", w)} \cap net = {})
<1>1. ASSUME IInv, NEW w \in Worker
      PROVE  /\ root = "config" /\ next = w => Msg("CONFIG", w) \notin net
             /\ root = "go" /\ next = w => Msg("GO", w) \notin net
             /\ pc[w] = "init" => Msg("READY", w) \notin net
             /\ pc[w] \in {"go", "run"} => {Msg("RESULT", w), Msg("TIMING", w)} \cap net = {}
  <2> USE <1>1 DEF IInv, NetInv
  <2>1. root = "config" /\ next = w => ~Configured(w)
    BY DEF Configured, Heard, Released, Collected, Reported, Worker
  <2>2. root = "go" /\ next = w => ~Released(w)
    BY DEF Released, Collected, Reported, Worker
  <2>3. pc[w] \in {"go", "run"} => {Msg("RESULT", w), Msg("TIMING", w)} \cap net = {}
    OBVIOUS
  <2>4. QED  BY <2>1, <2>2, <2>3
<1>2. IInv => \A w \in Worker :
               /\ root = "config" /\ next = w => Msg("CONFIG", w) \notin net
               /\ root = "go" /\ next = w => Msg("GO", w) \notin net
               /\ pc[w] = "init" => Msg("READY", w) \notin net
               /\ pc[w] \in {"go", "run"} => {Msg("RESULT", w), Msg("TIMING", w)} \cap net = {}
  BY <1>1
<1>3. QED
  BY <1>2, Invariant, PTL

----------------------------------------------------------------------------
(* The sweeps: the inductive invariant *)

\* f lists every member of S once.
Lists(f, S) ==
  \E n \in Nat :
    /\ f \in [1..n -> S]
    /\ \A i, j \in 1..n : f[i] = f[j] => i = j
    /\ \A x \in S : \E i \in 1..n : f[i] = x

Code == {0, 1, 124, 125}
CsvRow == [run : Runs, code : Code]

Label ==
  {"idle", "data", "write", "size", "check", "lock", "prepare", "upgrade", "load", "next", "run"}

\* Where a session holds the lock, and where it works through the plan.
Held == {"prepare", "upgrade", "load", "next", "run"}
InLoop == {"next", "run"}

\* Where it has not seen a data file of full size.
BeforeCheck == {"idle", "data", "write", "size"}

MemType ==
  [todo : SUBSET DOMAIN plan, attempt : {1, 2}, timeouts : [Cell -> Nat], failed : SUBSET Cell,
   consec : Nat, header : BOOLEAN, rows : SUBSET CsvRow]

File == [len : Nat, filled : SUBSET Nat]

SweepTypeOK ==
  /\ script \in SwScripts
  /\ Lists(plan, Runs)
  /\ csv \in [first : {"absent", "empty", "header", "row", "older", "foreign"}, rows : SUBSET CsvRow]
  /\ backup \subseteq CsvRow
  /\ lock \subseteq SwProcs
  /\ stage \in [SwProcs -> Label]
  /\ mem \in [SwProcs -> MemType]
  /\ sessions \in Nat /\ bad \in Nat
  /\ cut \in BOOLEAN
  /\ saved \subseteq Runs
  /\ data \in File /\ tmp \in File
  /\ gen \in [SwProcs -> [inode : {"none", "tmp", "data"}, pos : Nat]]
  /\ shared \in BOOLEAN

LockInv == \A p \in SwProcs : stage[p] \in Held => lock = {p}

\* As long as no two sessions generate data at the same time, the .tmp file is its
\* writer's own and a data file of full size is full.
DataInv ==
  ~shared =>
    /\ \A p \in SwProcs : gen[p].inode # "data"
    /\ \A p \in SwProcs : gen[p].inode = "tmp" <=> stage[p] \in {"write", "size"}
    /\ \A p, q \in SwProcs : gen[p].inode = "tmp" /\ gen[q].inode = "tmp" => p = q
    /\ \A p \in SwProcs : gen[p].inode = "tmp" =>
         /\ tmp.len = gen[p].pos /\ tmp.filled = 1..tmp.len /\ tmp.len <= Chunks
         /\ stage[p] = "write" => tmp.len < Chunks
    /\ data.len = Chunks => data.filled = 1..Chunks
    /\ \A p \in SwProcs : Doe /\ stage[p] \notin BeforeCheck => data.len = Chunks

Successes(rows) == {row.run : row \in {r \in rows : r.code = 0}}

\* The first line of the CSV, and that it has what was saved unless a session was cut.
CsvInv ==
  /\ csv.first \in {"absent", "empty"} => csv.rows = {}
  /\ Doe => csv.first \in {"absent", "empty", "header"}
  /\ ~cut => csv.first # "row"
  /\ ~cut /\ (\A p \in SwProcs : stage[p] # "upgrade") =>
       IF csv.first = "foreign" THEN saved = {} ELSE saved \subseteq Successes(csv.rows)
  /\ ~cut /\ ~Doe /\ csv.first = "empty" =>
       \E p \in SwProcs : stage[p] \in {"upgrade", "next", "run"}

\* A run that needs no attempt: it has a row, or its cell is skipped for one.
AccountedFor(run) ==
  \E row \in csv.rows :
    \/ row.run = run
    \/ row.run.cell = run.cell /\ row.code = 124
    \/ IsCapped(run.cell) /\ DiedCapped(row) /\ row.run.cell <= run.cell

\* What the session at p has in memory is what the next one reads from the CSV.
LoopInv(p) ==
  /\ csv.first \in {"empty", "header", "row"}
  /\ mem[p].header => csv.first = "empty"
  /\ (Doe \/ ~cut) /\ csv.first = "empty" => mem[p].header
  /\ \A c \in Cell :
       /\ prior_timeouts[c] <= mem[p].timeouts[c]
       /\ Doe /\ mem[p].timeouts[c] > 0 => prior_timeouts[c] > 0
       /\ mem[p].timeouts[c] > 0 => \E row \in csv.rows : row.run.cell = c /\ row.code = 124
  /\ failed_cells \subseteq mem[p].failed
  /\ Doe => mem[p].failed \subseteq failed_cells
  /\ \A c \in mem[p].failed : \E row \in csv.rows : DiedCapped(row) /\ row.run.cell = c
  /\ \A i \in DOMAIN plan : i \in mem[p].todo \/ AccountedFor(plan[i])
  /\ ~cut => \A i \in mem[p].todo : plan[i] \notin saved

SessionInv(p) ==
  /\ stage[p] \in {"prepare", "upgrade"} => ~Doe
  /\ stage[p] = "upgrade" =>
       /\ csv = Empty
       /\ ~cut => saved \subseteq Successes(mem[p].rows)
  /\ stage[p] = "load" => csv.first \in {"absent", "empty", "header"}
  /\ stage[p] \in InLoop => LoopInv(p)
  /\ stage[p] = "run" => mem[p].todo # {}
  /\ stage[p] \notin InLoop => ~mem[p].header

\* The CSV and the sessions.
FileInv == CsvInv /\ \A p \in SwProcs : SessionInv(p)

SweepInv == SweepTypeOK /\ LockInv /\ DataInv /\ FileInv

----------------------------------------------------------------------------
(* Plans list every run once *)

\* Some element of a nonempty set of naturals is the smallest.
LEMMA SmallestOf ==
  ASSUME NEW T \in SUBSET Nat, T # {}
  PROVE  \E n \in T : \A m \in T : n <= m
<1>1. PICK n \in T : \A m \in T : <<m, n>> \notin OpToRel(<, Nat)
  BY NatLessThanWellFounded, WFMin
<1>2. \A m \in T : ~(m < n)
  BY <1>1 DEF OpToRel
<1>3. QED  BY <1>2

LEMMA Division ==
  ASSUME NEW b \in Nat \ {0}, NEW a \in Nat
  PROVE  a \div b \in Nat /\ a % b \in 0..(b - 1) /\ a = b * (a \div b) + (a % b)
OBVIOUS

\* Quotient and remainder by b of the numbers below n * b: in their ranges, different for
\* different numbers, and all of them.
LEMMA SplitIn ==
  ASSUME NEW b \in Nat \ {0}, NEW n \in Nat
  PROVE  \A i \in 1..n * b : ((i - 1) \div b) + 1 \in 1..n /\ ((i - 1) % b) + 1 \in 1..b
<1> SUFFICES ASSUME NEW i \in 1..n * b
             PROVE  ((i - 1) \div b) + 1 \in 1..n /\ ((i - 1) % b) + 1 \in 1..b
  OBVIOUS
<1>1. n * b \in Nat
  OBVIOUS
<1>2. i - 1 \in Nat /\ i - 1 < n * b
  BY <1>1
<1> DEFINE q == (i - 1) \div b
           r == (i - 1) % b
<1>3. q \in Nat /\ r \in 0..(b - 1) /\ i - 1 = b * q + r
  BY <1>2, Division
<1> HIDE DEF q, r
<1>4. ASSUME q >= n PROVE FALSE
  <2>1. b * q >= b * n
    BY <1>3, <1>4
  <2>2. QED  BY <2>1, <1>2, <1>3
<1>5. q < n
  BY <1>3, <1>4
<1>6. q + 1 \in 1..n /\ r + 1 \in 1..b
  BY <1>3, <1>5
<1>7. QED  BY <1>6 DEF q, r

LEMMA SplitOne ==
  ASSUME NEW b \in Nat \ {0}, NEW n \in Nat
  PROVE  \A i, j \in 1..n * b :
           ((i - 1) \div b) + 1 = ((j - 1) \div b) + 1 /\ ((i - 1) % b) + 1 = ((j - 1) % b) + 1
             => i = j
<1> SUFFICES ASSUME NEW i \in 1..n * b, NEW j \in 1..n * b,
                    ((i - 1) \div b) + 1 = ((j - 1) \div b) + 1,
                    ((i - 1) % b) + 1 = ((j - 1) % b) + 1
             PROVE  i = j
  OBVIOUS
<1>1. n * b \in Nat
  OBVIOUS
<1>2. i - 1 \in Nat /\ j - 1 \in Nat
  BY <1>1
<1>3. (i - 1) \div b = (j - 1) \div b /\ (i - 1) % b = (j - 1) % b
  <2>1. (i - 1) \div b \in Nat /\ (j - 1) \div b \in Nat
    BY <1>2, Division
  <2>2. (i - 1) % b \in Nat /\ (j - 1) % b \in Nat
    BY <1>2, Division
  <2>3. QED  BY <2>1, <2>2
<1>4. i - 1 = j - 1
  BY <1>2, <1>3, Division
<1>5. QED  BY <1>2, <1>4

LEMMA SplitAll ==
  ASSUME NEW b \in Nat \ {0}, NEW n \in Nat
  PROVE  \A q \in 1..n, r \in 1..b : \E i \in 1..n * b :
           ((i - 1) \div b) + 1 = q /\ ((i - 1) % b) + 1 = r
<1> SUFFICES ASSUME NEW q \in 1..n, NEW r \in 1..b
             PROVE  \E i \in 1..n * b : ((i - 1) \div b) + 1 = q /\ ((i - 1) % b) + 1 = r
  OBVIOUS
<1> DEFINE a == b * (q - 1) + (r - 1)
<1>0. n * b \in Nat
  OBVIOUS
<1>1. q - 1 \in Nat /\ r - 1 \in 0..(b - 1) /\ b * (q - 1) \in Nat
  OBVIOUS
<1>2. a \in Nat
  BY <1>1
<1>3. a < n * b
  <2>1. b * (q - 1) <= b * (n - 1)
    OBVIOUS
  <2>2. b * (n - 1) = n * b - b
    OBVIOUS
  <2>3. QED  BY <2>1, <2>2, <1>1
<1>4. a \div b = q - 1 /\ a % b = r - 1
  <2> DEFINE q1 == a \div b
  <2>1. q1 \in Nat /\ a % b \in 0..(b - 1) /\ a = b * q1 + (a % b)
    BY <1>2, Division
  <2> HIDE DEF q1
  <2>2. ASSUME q1 < q - 1 PROVE FALSE
    <3>1. b * (q1 + 1) <= b * (q - 1)
      BY <2>1, <2>2, <1>1
    <3>2. b * (q1 + 1) = b * q1 + b
      BY <2>1
    <3>3. QED  BY <3>1, <3>2, <2>1, <1>1
  <2>3. ASSUME q1 > q - 1 PROVE FALSE
    <3>1. b * q <= b * q1
      BY <2>1, <2>3, <1>1
    <3>2. b * q = b * (q - 1) + b
      BY <1>1
    <3>3. QED  BY <3>1, <3>2, <2>1, <1>1
  <2>4. q1 = q - 1
    BY <2>1, <2>2, <2>3, <1>1
  <2>5. a % b = r - 1
    BY <2>1, <2>4, <1>1
  <2>6. QED  BY <2>4, <2>5 DEF q1
<1> HIDE DEF a
<1>5. a + 1 \in 1..n * b /\ (a + 1) - 1 = a
  BY <1>2, <1>3, <1>0
<1>6. QED  BY <1>4, <1>5, <1>1

\* As many different members as there are: an order has them all.
LEMMA OrderHasAll ==
  ASSUME NEW S, IsFiniteSet(S), NEW f \in Orders(S)
  PROVE  /\ f \in Seq(S) /\ Len(f) = Cardinality(S) /\ Cardinality(S) \in Nat
         /\ f \in [1..Len(f) -> S]
         /\ \A i, j \in 1..Len(f) : f[i] = f[j] => i = j
         /\ \A x \in S : \E i \in 1..Len(f) : f[i] = x
<1> DEFINE n == Cardinality(S)
<1>1. n \in Nat
  BY FS_CardinalityType
<1>2. f \in [1..n -> S] /\ \A i, j \in 1..n : f[i] = f[j] => i = j
  BY DEF Orders
<1> HIDE DEF n
<1>3. f \in Seq(S) /\ Len(f) = n
  BY <1>1, <1>2, SeqDef
<1>4. IsFiniteSet(1..n) /\ Cardinality(1..n) = n
  BY <1>1, FS_Interval
<1>5. f \in Injection(1..n, S)
  BY <1>2 DEF Injection, IsInjective
<1>6. f \in Surjection(1..n, S)
  BY <1>4, <1>5, FS_Injection DEF n
<1>7. \A x \in S : \E i \in 1..n : f[i] = x
  BY <1>6 DEF Surjection
<1>8. QED  BY <1>1, <1>2, <1>3, <1>7 DEF n

\* Sorting by the number of smaller members is an order.
LEMMA InOrderIsOrder ==
  ASSUME NEW S \in SUBSET Nat, IsFiniteSet(S)
  PROVE  InOrder(S) \in Orders(S)
<1> DEFINE Below(x) == {y \in S : y <= x}
           n == Cardinality(S)
           rank == [x \in S |-> Cardinality(Below(x))]
<1>1. n \in Nat /\ IsFiniteSet(1..n) /\ Cardinality(1..n) = n
  BY FS_CardinalityType, FS_Interval
<1>2. \A x \in S : /\ IsFiniteSet(Below(x)) /\ Cardinality(Below(x)) \in Nat
                    /\ rank[x] = Cardinality(Below(x)) /\ rank[x] \in 1..n
  <2> TAKE x \in S
  <2>1. IsFiniteSet(Below(x)) /\ Cardinality(Below(x)) <= n
    BY FS_Subset
  <2>2. Cardinality(Below(x)) \in Nat
    BY <2>1, FS_CardinalityType
  <2>3. x \in Below(x)
    OBVIOUS
  <2>4. Cardinality(Below(x)) # 0
    BY <2>1, <2>3, FS_EmptySet
  <2>5. QED  BY <1>1, <2>1, <2>2, <2>4
<1>3. \A x, y \in S : x < y => rank[x] < rank[y]
  <2> SUFFICES ASSUME NEW x \in S, NEW y \in S, x < y
               PROVE  Cardinality(Below(x)) < Cardinality(Below(y))
    OBVIOUS
  <2>1. Below(x) \in SUBSET Below(y) /\ y \in Below(y) /\ y \notin Below(x)
    <3>1. x \in Nat /\ y \in Nat /\ \A z \in S : z \in Nat /\ (z <= x => z <= y)
      OBVIOUS
    <3>2. \A z \in Below(x) : z \in Below(y)
      BY <3>1
    <3>3. y <= y /\ ~(y <= x)
      BY <3>1
    <3>4. y \in Below(y) /\ y \notin Below(x)
      BY <3>3
    <3> HIDE DEF Below
    <3>5. QED  BY <3>2, <3>4
  <2>2. Cardinality(Below(x)) <= Cardinality(Below(y))
        /\ (Cardinality(Below(y)) = Cardinality(Below(x)) => Below(y) = Below(x))
    BY <1>2, <2>1, FS_Subset
  <2>3. QED  BY <1>2, <2>1, <2>2
<1> HIDE DEF rank, n
<1>4. \A x, y \in S : (rank[x] = rank[y] => x = y) /\ (rank[x] < rank[y] => x < y)
  <2>1. \A x, y \in S : x < y \/ x = y \/ y < x
    OBVIOUS
  <2>2. \A x \in S : rank[x] \in Nat
    BY <1>2
  <2>3. QED  BY <1>3, <2>1, <2>2
<1>5. rank \in Injection(S, 1..n)
  <2>1. rank \in [S -> 1..n]
    BY <1>2 DEF rank
  <2>2. QED  BY <2>1, <1>4 DEF Injection, IsInjective
<1>6. rank \in Surjection(S, 1..n)
  BY <1>1, <1>5, FS_Injection DEF n
<1>7. \A i \in 1..n : \E x \in S : rank[x] = i
  BY <1>6 DEF Surjection
<1> DEFINE f == [i \in 1..n |-> CHOOSE x \in S : rank[x] = i]
<1>8. \A i \in 1..n : f[i] \in S /\ rank[f[i]] = i
  BY <1>7
<1>9. f \in [1..n -> S] /\ DOMAIN f = 1..n
  BY <1>8
<1> HIDE DEF f
<1>10. \A i, j \in 1..n : f[i] = f[j] => i = j
  BY <1>8
<1>11. \A i, j \in 1..n : i < j => f[i] < f[j]
  <2> SUFFICES ASSUME NEW i \in 1..n, NEW j \in 1..n, i < j PROVE f[i] < f[j]
    OBVIOUS
  <2>1. f[i] \in S /\ f[j] \in S /\ rank[f[i]] = i /\ rank[f[j]] = j
    BY <1>8
  <2>2. rank[f[i]] < rank[f[j]]
    BY <2>1
  <2>3. QED  BY <2>1, <2>2, <1>4
<1>12. f \in Orders(S)
  BY <1>9, <1>10 DEF Orders, n
<1>13. \A i, j \in DOMAIN f : i < j => f[i] < f[j]
  BY <1>9, <1>11
<1>14. QED  BY <1>12, <1>13 DEF InOrder

Slots(S) == [cell : S, rep : 1..Reps]

LEMMA CellMajorLists ==
  ASSUME NEW S, IsFiniteSet(S), NEW order \in Orders(S)
  PROVE  Lists(CellMajor(order), Slots(S))
<1> DEFINE n == Len(order)
           m == n * Reps
           f == CellMajor(order)
           q(i) == ((i - 1) \div Reps) + 1
           r(i) == ((i - 1) % Reps) + 1
<1>1. Reps \in Nat \ {0}
  BY SweepAssumption
<1>2. /\ n \in Nat /\ order \in [1..n -> S]
      /\ \A i, j \in 1..n : order[i] = order[j] => i = j
      /\ \A x \in S : \E i \in 1..n : order[i] = x
  BY OrderHasAll
<1>3. f = [i \in 1..m |-> [cell |-> order[q(i)], rep |-> r(i)]]
  BY DEF CellMajor
<1> HIDE DEF n, f
<1>4. /\ m \in Nat
      /\ \A i \in 1..m : q(i) \in 1..n /\ r(i) \in 1..Reps
      /\ \A i, j \in 1..m : q(i) = q(j) /\ r(i) = r(j) => i = j
      /\ \A c \in 1..n, k \in 1..Reps : \E i \in 1..m : q(i) = c /\ r(i) = k
  <2>1. m \in Nat
    BY <1>1, <1>2
  <2>2. \A i \in 1..m : q(i) \in 1..n /\ r(i) \in 1..Reps
    BY <1>1, <1>2, SplitIn
  <2>3. \A i, j \in 1..m : q(i) = q(j) /\ r(i) = r(j) => i = j
    BY <1>1, <1>2, SplitOne
  <2>4. \A c \in 1..n, k \in 1..Reps : \E i \in 1..m : q(i) = c /\ r(i) = k
    BY <1>1, <1>2, SplitAll
  <2>5. QED  BY <2>1, <2>2, <2>3, <2>4
<1> HIDE DEF m, q, r
<1>5. \A i \in 1..m : /\ f[i] \in Slots(S)
                       /\ f[i].cell = order[q(i)] /\ f[i].rep = r(i)
  BY <1>2, <1>3, <1>4 DEF Slots
<1>6. f \in [1..m -> Slots(S)]
  BY <1>3, <1>5
<1>7. \A i, j \in 1..m : f[i] = f[j] => i = j
  <2> SUFFICES ASSUME NEW i \in 1..m, NEW j \in 1..m, f[i] = f[j] PROVE i = j
    OBVIOUS
  <2>1. order[q(i)] = order[q(j)] /\ r(i) = r(j)
    BY <1>5
  <2>2. q(i) = q(j)
    BY <1>2, <1>4, <2>1
  <2>3. QED  BY <1>4, <2>1, <2>2
<1>8. ASSUME NEW x \in Slots(S)
      PROVE  \E i \in 1..m : f[i] = x
  <2>1. x.cell \in S /\ x.rep \in 1..Reps /\ x = [cell |-> x.cell, rep |-> x.rep]
    BY DEF Slots
  <2>2. PICK c \in 1..n : order[c] = x.cell
    BY <1>2, <2>1
  <2>3. PICK i \in 1..m : q(i) = c /\ r(i) = x.rep
    BY <1>4, <2>1, <2>2
  <2>4. f[i] = [cell |-> x.cell, rep |-> x.rep]
    BY <1>3, <2>2, <2>3
  <2>5. QED  BY <2>1, <2>4
<1>9. QED  BY <1>4, <1>6, <1>7, <1>8 DEF Lists, f

LEMMA RepMajorLists ==
  ASSUME NEW S, IsFiniteSet(S), NEW passes \in [1..Reps -> Orders(S)]
  PROVE  Lists(RepMajor(passes), Slots(S))
<1> DEFINE n == Len(passes[1])
           m == n * Reps
           f == RepMajor(passes)
           q(i) == ((i - 1) \div n) + 1
           r(i) == ((i - 1) % n) + 1
<1>1. Reps \in Nat \ {0} /\ 1 \in 1..Reps
  BY SweepAssumption
<1>2. \A k \in 1..Reps :
        /\ passes[k] \in [1..n -> S]
        /\ \A i, j \in 1..n : passes[k][i] = passes[k][j] => i = j
        /\ \A x \in S : \E i \in 1..n : passes[k][i] = x
  <2> TAKE k \in 1..Reps
  <2>1. passes[k] \in Orders(S) /\ passes[1] \in Orders(S)
    BY <1>1
  <2>2. Len(passes[k]) = n
    BY <2>1, OrderHasAll
  <2> HIDE DEF n
  <2>3. passes[k] \in [1..n -> S]
    BY <2>1, <2>2, OrderHasAll
  <2>4. \A i, j \in 1..n : passes[k][i] = passes[k][j] => i = j
    BY <2>1, <2>2, OrderHasAll
  <2>5. \A x \in S : \E i \in 1..n : passes[k][i] = x
    BY <2>1, <2>2, OrderHasAll
  <2>6. QED  BY <2>3, <2>4, <2>5
<1>3. n \in Nat
  BY <1>1, OrderHasAll
<1>4. f = [i \in 1..m |-> [cell |-> passes[q(i)][r(i)], rep |-> q(i)]]
  BY DEF RepMajor
<1> HIDE DEF n, f
<1>5. CASE n = 0
  <2>1. S = {} /\ m = 0
    BY <1>1, <1>2, <1>5
  <2>2. Slots(S) = {} /\ 1..m = {} /\ m \in Nat
    BY <2>1 DEF Slots
  <2> HIDE DEF m, q, r
  <2>3. f \in [1..m -> Slots(S)]
    BY <1>4, <2>2
  <2>4. QED  BY <2>2, <2>3 DEF Lists, f
<1>6. CASE n # 0
  <2>1. n \in Nat \ {0} /\ Reps \in Nat /\ m = Reps * n
    BY <1>1, <1>3, <1>6
  <2>2. m \in Nat
    BY <1>1, <1>3
  <2>3. \A i \in 1..m : q(i) \in 1..Reps /\ r(i) \in 1..n
    BY <2>1, SplitIn
  <2>4. \A i, j \in 1..m : q(i) = q(j) /\ r(i) = r(j) => i = j
    BY <2>1, SplitOne
  <2>5. \A k \in 1..Reps, c \in 1..n : \E i \in 1..m : q(i) = k /\ r(i) = c
    <3>1. \A k \in 1..Reps, c \in 1..n : \E i \in 1..Reps * n :
            ((i - 1) \div n) + 1 = k /\ ((i - 1) % n) + 1 = c
      BY <2>1, SplitAll
    <3> HIDE DEF m
    <3>2. QED  BY <2>1, <3>1
  <2> HIDE DEF m, q, r
  <2>6. \A i \in 1..m : /\ f[i] \in Slots(S)
                         /\ f[i].cell = passes[q(i)][r(i)] /\ f[i].rep = q(i)
    <3> TAKE i \in 1..m
    <3>1. f[i] = [cell |-> passes[q(i)][r(i)], rep |-> q(i)]
      BY <1>4
    <3>2. passes[q(i)][r(i)] \in S
      BY <1>2, <2>3
    <3>3. QED  BY <2>3, <3>1, <3>2 DEF Slots
  <2>7. f \in [1..m -> Slots(S)]
    BY <1>4, <2>6
  <2>8. \A i, j \in 1..m : f[i] = f[j] => i = j
    <3> SUFFICES ASSUME NEW i \in 1..m, NEW j \in 1..m, f[i] = f[j] PROVE i = j
      OBVIOUS
    <3>1. q(i) = q(j)
      BY <2>6
    <3>2. passes[q(i)][r(i)] = passes[q(i)][r(j)]
      BY <2>6, <3>1
    <3>3. r(i) = r(j)
      BY <1>2, <2>3, <3>2
    <3>4. QED  BY <2>4, <3>1, <3>3
  <2>9. ASSUME NEW x \in Slots(S)
        PROVE  \E i \in 1..m : f[i] = x
    <3>1. x.cell \in S /\ x.rep \in 1..Reps /\ x = [cell |-> x.cell, rep |-> x.rep]
      BY DEF Slots
    <3>2. PICK c \in 1..n : passes[x.rep][c] = x.cell
      BY <1>2, <3>1
    <3>3. PICK i \in 1..m : q(i) = x.rep /\ r(i) = c
      BY <2>5, <3>1, <3>2
    <3>4. f[i] = [cell |-> x.cell, rep |-> x.rep]
      BY <1>4, <3>2, <3>3
    <3>5. QED  BY <3>1, <3>4
  <2>10. QED  BY <2>2, <2>7, <2>8, <2>9 DEF Lists, f
<1>7. QED  BY <1>5, <1>6

LEMMA ConcatLists ==
  ASSUME NEW S, NEW T, S \cap T = {}, NEW f, NEW g, Lists(f, S), Lists(g, T)
  PROVE  Lists(f \o g, S \cup T)
<1>1. PICK m \in Nat : /\ f \in [1..m -> S]
                       /\ \A i, j \in 1..m : f[i] = f[j] => i = j
                       /\ \A x \in S : \E i \in 1..m : f[i] = x
  BY DEF Lists
<1>2. PICK n \in Nat : /\ g \in [1..n -> T]
                       /\ \A i, j \in 1..n : g[i] = g[j] => i = j
                       /\ \A x \in T : \E i \in 1..n : g[i] = x
  BY DEF Lists
<1>3. f \in Seq(S \cup T) /\ Len(f) = m /\ g \in Seq(S \cup T) /\ Len(g) = n
  <2>1. f \in [1..m -> S \cup T] /\ g \in [1..n -> S \cup T]
    BY <1>1, <1>2
  <2>2. QED  BY <2>1, SeqDef
<1> DEFINE h == f \o g
<1>4. h \in [1..m + n -> S \cup T]
  <2>1. h \in Seq(S \cup T) /\ Len(h) = m + n
    BY <1>3
  <2> HIDE DEF h
  <2>2. QED  BY <2>1
<1>5. \A i \in 1..m : h[i] = f[i]
  BY <1>3
<1>6. \A i \in 1..m + n : i > m => i - m \in 1..n /\ h[i] = g[i - m]
  BY <1>3
<1> HIDE DEF h
<1>7. \A i, j \in 1..m + n : h[i] = h[j] => i = j
  <2> SUFFICES ASSUME NEW i \in 1..m + n, NEW j \in 1..m + n, h[i] = h[j]
               PROVE  i = j
    OBVIOUS
  <2>1. CASE i <= m /\ j <= m
    BY <1>1, <1>5, <2>1
  <2>2. CASE i > m /\ j > m
    <3>1. i - m \in 1..n /\ j - m \in 1..n /\ g[i - m] = g[j - m]
      BY <1>6, <2>2
    <3>2. i - m = j - m
      BY <1>2, <3>1
    <3>3. QED  BY <3>2
  <2>3. CASE i <= m /\ j > m
    <3>1. i \in 1..m /\ f[i] = g[j - m] /\ j - m \in 1..n
      BY <1>5, <1>6, <2>3
    <3>2. f[i] \in S /\ g[j - m] \in T
      BY <1>1, <1>2, <3>1
    <3>3. QED  BY <3>1, <3>2
  <2>4. CASE i > m /\ j <= m
    <3>1. j \in 1..m /\ f[j] = g[i - m] /\ i - m \in 1..n
      BY <1>5, <1>6, <2>4
    <3>2. f[j] \in S /\ g[i - m] \in T
      BY <1>1, <1>2, <3>1
    <3>3. QED  BY <3>1, <3>2
  <2>5. QED  BY <2>1, <2>2, <2>3, <2>4
<1>8. \A x \in S \cup T : \E i \in 1..m + n : h[i] = x
  <2> TAKE x \in S \cup T
  <2>1. CASE x \in S
    <3>1. PICK i \in 1..m : f[i] = x
      BY <1>1, <2>1
    <3>2. i \in 1..m + n /\ h[i] = x
      BY <1>5, <3>1
    <3>3. QED  BY <3>2
  <2>2. CASE x \in T
    <3>1. PICK i \in 1..n : g[i] = x
      BY <1>2, <2>2
    <3>2. i + m \in 1..m + n /\ (i + m) - m = i /\ i + m > m
      OBVIOUS
    <3>3. h[i + m] = x
      BY <1>6, <3>1, <3>2
    <3>4. QED  BY <3>2, <3>3
  <2>3. QED  BY <2>1, <2>2
<1>9. m + n \in Nat  OBVIOUS
<1>10. QED  BY <1>4, <1>7, <1>8, <1>9 DEF Lists, h

\* Whatever the script and the seed, the plan has every run of the design once.
LEMMA PlanLists ==
  ASSUME script \in SwScripts, plan \in Plans
  PROVE  Lists(plan, Runs)
<1>1. Cell \in SUBSET Nat /\ IsFiniteSet(Cell)
  <2>1. DesignSize[script] \in Nat
    BY SweepAssumption
  <2>2. QED  BY <2>1, FS_Interval DEF Cell
<1>2. Runs = Slots(Cell)
  BY DEF Runs, Slots
<1>3. \A S \in SUBSET Cell : IsFiniteSet(S) /\ S \in SUBSET Nat
  BY <1>1, FS_Subset
<1>4. \A S \in SUBSET Cell : \A seq \in ShuffledPasses(S) : Lists(seq, Slots(S))
  BY <1>3, RepMajorLists DEF ShuffledPasses
<1>5. \A S \in SUBSET Cell : Lists(CellMajor(InOrder(S)), Slots(S))
  BY <1>3, InOrderIsOrder, CellMajorLists
<1>6. CASE script = "resource"
  BY <1>2, <1>5, <1>6 DEF Plans
<1>7. CASE script \in {"kmeans", "logreg"}
  <2>1. [r \in 1..Reps |-> InOrder(Cell)] \in [1..Reps -> Orders(Cell)]
    BY <1>1, InOrderIsOrder
  <2>2. Lists(DesignOrder, Slots(Cell))
    BY <1>1, <2>1, RepMajorLists DEF DesignOrder
  <2>3. QED  BY <1>2, <1>7, <2>2 DEF Plans
<1>8. CASE script = "rightsize"
  BY <1>2, <1>4, <1>8 DEF Plans
<1>9. CASE script = "holdout"
  <2>1. Capped \in SUBSET Cell /\ Cell \ Capped \in SUBSET Cell
    BY <1>9, SweepAssumption DEF Cell
  <2>2. PICK first \in ShuffledPasses((Cell) \ Capped) : plan = first \o CellMajor(InOrder(Capped))
    BY <1>9 DEF Plans, HoldoutPlans
  <2>3. Lists(first, Slots((Cell) \ Capped)) /\ Lists(CellMajor(InOrder(Capped)), Slots(Capped))
    BY <1>4, <1>5, <2>1, <2>2
  <2>4. Slots((Cell) \ Capped) \cap Slots(Capped) = {}
        /\ Slots((Cell) \ Capped) \cup Slots(Capped) = Slots(Cell)
    BY <2>1 DEF Slots
  <2>5. Lists(plan, Slots((Cell) \ Capped) \cup Slots(Capped))
    BY <2>2, <2>3, <2>4, ConcatLists
  <2>6. QED  BY <1>2, <2>4, <2>5
<1>10. QED  BY <1>6, <1>7, <1>8, <1>9, SweepAssumption

----------------------------------------------------------------------------
(* What a step leaves as it is, and the types *)

LEMMA SameDesign ==
  ASSUME UNCHANGED script
  PROVE  /\ Cell' = Cell /\ Runs' = Runs /\ CsvRow' = CsvRow /\ (Doe' <=> Doe)
         /\ \A c : IsCapped(c)' <=> IsCapped(c)
         /\ \A row : DiedCapped(row)' <=> DiedCapped(row)
BY DEF Cell, Runs, CsvRow, Doe, IsCapped, DiedCapped

LEMMA LoopFacts ==
  ASSUME script \in SwScripts
  PROVE  /\ Loop.limit \in Nat \ {0} /\ (Doe => Loop.limit = 1)
         /\ Loop.codes \subseteq Code
         /\ \A code \in Loop.retried : code = 125
<1>1. MaxTimeouts \in Nat \ {0}
  BY SweepAssumption
<1>2. CASE script = "resource"
  BY <1>1, <1>2 DEF Loop, ResourceLoop, Doe, Code
<1>3. CASE script = "kmeans"
  <2>1. Loop = [codes |-> {0, 1, 124}, retried |-> {}, forgiven |-> {0, 124}, limit |-> 1]
    BY <1>3 DEF Loop, KmeansLoop, ResourceLoop
  <2>2. QED  BY <2>1 DEF Code
<1>4. CASE script \in {"logreg", "rightsize", "holdout"}
  <2>1. Loop = LogregLoop
    BY <1>4 DEF Loop, RightsizeLoop, HoldoutLoop
  <2>2. Loop.codes = {0, 1, 124, 125} /\ Loop.retried = {125} /\ Loop.limit = 1
    BY <2>1 DEF LogregLoop
  <2>3. QED  BY <2>2 DEF Code
<1>5. QED  BY <1>2, <1>3, <1>4, SweepAssumption

LEMMA DesignFacts ==
  ASSUME script \in SwScripts
  PROVE  /\ DesignSize[script] \in Nat \ {0} /\ Reps \in Nat \ {0} /\ Chunks \in Nat \ {0}
         /\ 1 \in Cell /\ Cell \subseteq Nat /\ 1 \in 1..Reps
BY SweepAssumption DEF Cell

LEMMA PlanFacts ==
  ASSUME Lists(plan, Runs)
  PROVE  /\ DOMAIN plan \subseteq Nat
         /\ \A i \in DOMAIN plan : plan[i] \in Runs
         /\ \A i, j \in DOMAIN plan : plan[i] = plan[j] => i = j
         /\ \A run \in Runs : \E i \in DOMAIN plan : plan[i] = run
BY DEF Lists

\* The place a session is at is one that is left, and holds a run of the design.
LEMMA NextPlaceIsLeft ==
  ASSUME SweepTypeOK, NEW p \in SwProcs, mem[p].todo # {}
  PROVE  /\ NextPlace(p) \in mem[p].todo /\ NextPlace(p) \in DOMAIN plan
         /\ NextRun(p) \in Runs /\ NextRun(p).cell \in Cell /\ NextRun(p).rep \in 1..Reps
         /\ NextRun(p) = plan[NextPlace(p)]
<1>1. mem[p].todo \in SUBSET DOMAIN plan /\ Lists(plan, Runs)
  BY DEF SweepTypeOK, MemType
<1>2. mem[p].todo \in SUBSET Nat
  BY <1>1, PlanFacts
<1>3. NextPlace(p) \in mem[p].todo
  BY <1>2, SmallestOf DEF NextPlace
<1>4. NextRun(p) \in Runs
  BY <1>1, <1>3, PlanFacts DEF NextRun
<1>5. QED
  BY <1>1, <1>3, <1>4 DEF NextRun, Runs

LEMMA NoMemType ==
  ASSUME script \in SwScripts
  PROVE  NoMem \in MemType
BY DEF NoMem, MemType

\* The types of what an end of a session sets.
LEMMA ExitType ==
  ASSUME SweepTypeOK, NEW p \in SwProcs, Exit(p)
  PROVE  /\ stage' \in [SwProcs -> Label] /\ lock' \subseteq SwProcs /\ mem' \in [SwProcs -> MemType]
         /\ gen' \in [SwProcs -> [inode : {"none", "tmp", "data"}, pos : Nat]]
<1>1. NoMem \in MemType /\ NoGen \in [inode : {"none", "tmp", "data"}, pos : Nat]
  BY NoMemType DEF SweepTypeOK, NoGen
<1>2. QED
  BY <1>1 DEF SweepTypeOK, Exit, Goto, Label

LEMMA DataStepsType ==
  ASSUME SweepTypeOK, NEW p \in SwProcs,
         Open(p) \/ ensure_data(p) \/ WriteChunk(p) \/ CheckSize(p) \/ Preflight(p)
  PROVE  SweepTypeOK'
<1> USE DEF dataVars, Goto, Label
<1>1. UNCHANGED script => MemType' = MemType \/ plan' # plan
  BY SameDesign DEF MemType
<1>2. CASE Open(p)
  BY <1>1, <1>2, SameDesign DEF SweepTypeOK, Open
<1>3. CASE ensure_data(p)
  <2>1. gen' \in [SwProcs -> [inode : {"none", "tmp", "data"}, pos : Nat]] /\ tmp' \in File
    BY <1>3 DEF SweepTypeOK, ensure_data, NoData, File
  <2>2. shared' \in BOOLEAN /\ data' = data
    BY <1>3 DEF SweepTypeOK, ensure_data
  <2>3. QED  BY <1>1, <1>3, <2>1, <2>2, SameDesign DEF SweepTypeOK, ensure_data
<1>4. CASE WriteChunk(p)
  <2> DEFINE pos == gen[p].pos + 1
  <2>1. pos \in Nat
    BY DEF SweepTypeOK
  <2>2. \A f \in File : Fill(f, pos) \in File
    BY <2>1 DEF Fill, File
  <2>3. gen' = [gen EXCEPT ![p].pos = pos]
    BY <1>4 DEF WriteChunk
  <2>4. gen' \in [SwProcs -> [inode : {"none", "tmp", "data"}, pos : Nat]]
    BY <2>1, <2>3 DEF SweepTypeOK
  <2>5. tmp' \in File /\ data' \in File
    BY <1>4, <2>2 DEF SweepTypeOK, WriteChunk
  <2>6. QED  BY <1>1, <1>4, <2>4, <2>5, SameDesign DEF SweepTypeOK, WriteChunk
<1>5. CASE CheckSize(p)
  <2>1. CASE Exit(p) /\ UNCHANGED <<data, tmp>>
    BY <1>1, <1>5, <2>1, ExitType, SameDesign DEF SweepTypeOK, CheckSize
  <2>2. CASE Goto(p, "write") /\ UNCHANGED <<lock, mem, data, tmp, gen>>
    BY <1>1, <1>5, <2>2, SameDesign DEF SweepTypeOK, CheckSize
  <2>3. CASE Goto(p, "check") /\ Replace(p) /\ UNCHANGED <<lock, mem>>
    <3>1. gen' \in [SwProcs -> [inode : {"none", "tmp", "data"}, pos : Nat]]
      BY <2>3 DEF SweepTypeOK, Replace, NoGen
    <3>2. data' \in File /\ tmp' \in File
      BY <2>3 DEF SweepTypeOK, Replace, NoData, File
    <3>3. QED  BY <1>1, <1>5, <2>3, <3>1, <3>2, SameDesign DEF SweepTypeOK, CheckSize
  <2>4. QED  BY <1>5, <2>1, <2>2, <2>3 DEF CheckSize
<1>6. CASE Preflight(p)
  <2>1. CASE Exit(p)
    BY <1>1, <1>6, <2>1, ExitType, SameDesign DEF SweepTypeOK, Preflight
  <2>2. CASE Goto(p, "lock") /\ UNCHANGED <<lock, mem, gen>>
    BY <1>1, <1>6, <2>2, SameDesign DEF SweepTypeOK, Preflight
  <2>3. QED  BY <1>6, <2>1, <2>2 DEF Preflight
<1>7. QED  BY <1>2, <1>3, <1>4, <1>5, <1>6

LEMMA LoopStepsType ==
  ASSUME SweepTypeOK, NEW p \in SwProcs,
         Lock(p) \/ prepare_csv(p) \/ Upgrade(p) \/ Load(p) \/ Skip(p) \/ StartRun(p)
  PROVE  SweepTypeOK'
<1> USE DEF dataVars, Goto, Label
<1>0. UNCHANGED <<script, plan, backup>> \/ UNCHANGED <<script, plan>>
  BY DEF Lock, prepare_csv, Upgrade, Load, Skip, StartRun
<1>1. MemType' = MemType /\ CsvRow' = CsvRow /\ Runs' = Runs
  BY <1>0, SameDesign DEF MemType
<1>2. mem[p] \in MemType
  BY DEF SweepTypeOK
<1>3. CASE Lock(p)
  <2>1. CASE Exit(p)
    BY <1>1, <1>3, <2>1, ExitType DEF SweepTypeOK, Lock
  <2>2. CASE lock' = {p} /\ Goto(p, IF Doe THEN "load" ELSE "prepare") /\ UNCHANGED <<mem, gen>>
    BY <1>1, <1>3, <2>2 DEF SweepTypeOK, Lock
  <2>3. QED  BY <1>3, <2>1, <2>2 DEF Lock
<1>4. CASE prepare_csv(p)
  <2>1. csv.rows \subseteq CsvRow
    BY DEF SweepTypeOK
  <2>0. csv' = Empty \/ csv' = csv \/ csv' = Absent
    BY <1>4 DEF prepare_csv
  <2>2. CASE mem' = mem
    BY <1>1, <1>4, <2>0, <2>1, <2>2 DEF SweepTypeOK, prepare_csv, Empty, Absent
  <2>3. CASE mem' = [mem EXCEPT ![p].rows = csv.rows]
    <3>1. [mem[p] EXCEPT !.rows = csv.rows] \in MemType
      BY <1>2, <2>1 DEF MemType
    <3>2. mem' \in [SwProcs -> MemType]
      BY <2>3, <3>1 DEF SweepTypeOK
    <3>3. QED  BY <1>1, <1>4, <2>0, <2>1, <3>2 DEF SweepTypeOK, prepare_csv, Empty, Absent
  <2>4. QED  BY <1>4, <2>2, <2>3 DEF prepare_csv
<1>5. CASE Upgrade(p)
  <2>1. [mem[p] EXCEPT !.rows = {}] \in MemType /\ mem[p].rows \subseteq CsvRow
    BY <1>2 DEF MemType
  <2>2. mem' \in [SwProcs -> MemType]
    BY <1>5, <2>1 DEF SweepTypeOK, Upgrade
  <2>3. QED  BY <1>1, <1>5, <2>1, <2>2 DEF SweepTypeOK, Upgrade
<1>6. CASE Load(p)
  <2> DEFINE todo == {i \in DOMAIN plan : plan[i] \notin Done}
             new == NewFile
             m == [NoMem EXCEPT !.todo = todo, !.timeouts = prior_timeouts, !.failed = failed_cells,
                                !.header = new]
  <2>1. new \in BOOLEAN
    BY DEF NewFile
  <2>2. Readable \subseteq CsvRow
    BY DEF SweepTypeOK, Readable
  <2>3. failed_cells \subseteq Cell
    BY <2>2 DEF failed_cells, CsvRow, Runs
  <2>4. prior_timeouts \in [Cell -> Nat]
    <3>1. Reps \in Nat
      BY SweepAssumption
    <3>2. \A T \in SUBSET (1..Reps) : Cardinality(T) \in Nat
      <4>1. IsFiniteSet(1..Reps)
        BY <3>1, FS_Interval
      <4>2. \A T \in SUBSET (1..Reps) : IsFiniteSet(T)
        BY <4>1, FS_Subset
      <4>3. QED  BY <4>2, FS_CardinalityType
    <3>3. QED  BY <3>2 DEF prior_timeouts
  <2> HIDE DEF todo, new
  <2>5. mem' = [mem EXCEPT ![p] = m]
    BY <1>6 DEF Load, todo, new
  <2>6. todo \in SUBSET DOMAIN plan
    BY DEF todo
  <2>7. m \in MemType
    <3>1. NoMem \in MemType
      BY NoMemType DEF SweepTypeOK
    <3> HIDE DEF NoMem
    <3>2. QED  BY <2>1, <2>3, <2>4, <2>6, <3>1 DEF MemType
  <2>8. mem' \in [SwProcs -> MemType]
    BY <2>5, <2>7 DEF SweepTypeOK
  <2>9. QED  BY <1>1, <1>6, <2>8 DEF SweepTypeOK, Load, Empty
<1>7. CASE Skip(p)
  <2>1. [mem[p] EXCEPT !.todo = Rest(p)] \in MemType
    BY <1>2 DEF MemType, Rest
  <2>2. mem' \in [SwProcs -> MemType]
    BY <1>7, <2>1 DEF SweepTypeOK, Skip
  <2>3. QED  BY <1>1, <1>7, <2>2 DEF SweepTypeOK, Skip
<1>8. CASE StartRun(p)
  <2>1. [mem[p] EXCEPT !.attempt = 1] \in MemType
    BY <1>2 DEF MemType
  <2>2. mem' \in [SwProcs -> MemType]
    BY <1>8, <2>1 DEF SweepTypeOK, StartRun
  <2>3. QED  BY <1>1, <1>8, <2>2 DEF SweepTypeOK, StartRun
<1>9. QED  BY <1>3, <1>4, <1>5, <1>6, <1>7, <1>8

\* The memory of a session that goes on after a run.
GoesOn(p, code, failed, consec) ==
  mem' = [mem EXCEPT ![p].todo = Rest(p), ![p].header = FALSE,
                     ![p].timeouts[NextRun(p).cell] = IF code = 124 THEN @ + 1 ELSE @,
                     ![p].failed = failed, ![p].consec = consec]

FailedThen(p, row) == IF DiedCapped(row) THEN mem[p].failed \cup {row.run.cell} ELSE mem[p].failed

MemAfter(p, code, failed) ==
  /\ mem' \in [SwProcs -> MemType]
  /\ \A q \in SwProcs : q # p => mem'[q] = mem[q]
  /\ mem'[p].todo = Rest(p) /\ mem'[p].header = FALSE /\ mem'[p].failed = failed
  /\ \A c \in Cell : mem'[p].timeouts[c] = IF code = 124 /\ c = NextRun(p).cell
                                            THEN mem[p].timeouts[c] + 1 ELSE mem[p].timeouts[c]

\* What a run that ended leaves in memory, when the session goes on to the next.
LEMMA RunEndsMem ==
  ASSUME SweepTypeOK, NEW p \in SwProcs, NEW code \in Code, mem[p].todo # {},
         NEW failed, failed \in SUBSET Cell, NEW consec \in Nat,
         GoesOn(p, code, failed, consec)
  PROVE  MemAfter(p, code, failed)
<1> DEFINE run == NextRun(p)
           t == [mem[p].timeouts EXCEPT ![run.cell] = IF code = 124 THEN @ + 1 ELSE @]
           m == [mem[p] EXCEPT !.todo = Rest(p), !.header = FALSE, !.timeouts = t,
                               !.failed = failed, !.consec = consec]
<1>1. run.cell \in Cell
  BY NextPlaceIsLeft
<1>0. mem \in [SwProcs -> MemType]
  BY DEF SweepTypeOK
<1>2. mem[p] \in MemType /\ mem[p].timeouts \in [Cell -> Nat] /\ Rest(p) \in SUBSET DOMAIN plan
  BY DEF SweepTypeOK, MemType, Rest
<1>3. t \in [Cell -> Nat]
  BY <1>1, <1>2
<1>4. \A c \in Cell : t[c] = IF code = 124 /\ c = run.cell THEN mem[p].timeouts[c] + 1 ELSE mem[p].timeouts[c]
  BY <1>1, <1>2
<1>5. mem' = [mem EXCEPT ![p] = m]
  BY DEF GoesOn
<1> HIDE DEF t, run
<1>6. /\ m \in MemType /\ m.todo = Rest(p) /\ m.header = FALSE /\ m.timeouts = t /\ m.failed = failed
  BY <1>2, <1>3 DEF MemType
<1> HIDE DEF m
<1>7. mem'[p] = m
  BY <1>0, <1>5
<1>8. mem' \in [SwProcs -> MemType] /\ \A q \in SwProcs \ {p} : mem'[q] = mem[q]
  <2> HIDE DEF MemType
  <2>1. mem' \in [SwProcs -> MemType]
    BY <1>0, <1>5, <1>6
  <2>2. \A q \in SwProcs : q # p => mem'[q] = mem[q]
    BY <1>0, <1>5
  <2>3. QED  BY <2>1, <2>2
<1>9. QED  BY <1>4, <1>6, <1>7, <1>8 DEF run, MemAfter


\* What a run that ends with this code does: it is tried once more, or the session
\* ends, or goes on to the next.
RunEffect(p, code) ==
  LET run == NextRun(p)
      row == [run |-> run, code |-> code]
  IN  /\ bad' = IF code = 0 THEN bad ELSE bad + 1
      /\ csv' = Flush(p, Write(row))
      /\ saved' = IF code = 0 THEN saved \cup {run} ELSE saved
      /\ \/ /\ code = 125
            /\ mem' = [mem EXCEPT ![p].attempt = 2, ![p].header = FALSE]
            /\ UNCHANGED <<lock, stage, gen>>
         \/ Exit(p)
         \/ /\ GoesOn(p, code, FailedThen(p, row), Consec(p, run, code))
            /\ Goto(p, "next")
            /\ UNCHANGED <<lock, gen>>

LEMMA RunEndsIs ==
  ASSUME script \in SwScripts, NEW p \in SwProcs, RunEnds(p)
  PROVE  /\ stage[p] = "run" /\ UNCHANGED <<script, plan, backup, sessions, cut, data, tmp, shared>>
         /\ \E code \in Loop.codes : RunEffect(p, code)
<1>1. stage[p] = "run" /\ UNCHANGED <<script, plan, backup, sessions, cut, data, tmp, shared>>
  BY DEF RunEnds
<1>2. PICK code \in Loop.codes : RunEnds(p)!2!(code)
  BY DEF RunEnds
<1>3. Retries(p, code) => code = 125
  BY LoopFacts DEF Retries
<1>4. QED  BY <1>1, <1>2, <1>3 DEF RunEffect, GoesOn, FailedThen

LEMMA EndStepsType ==
  ASSUME SweepTypeOK, NEW p \in SwProcs, RunEnds(p) \/ Finish(p) \/ Interrupt(p) \/ Kill(p),
         stage[p] = "run" => mem[p].todo # {}
  PROVE  SweepTypeOK'
<1> DEFINE File2 == [first : {"absent", "empty", "header", "row", "older", "foreign"}, rows : SUBSET CsvRow]
<1>1. UNCHANGED <<script, plan, backup, sessions, data, tmp, shared>>
  BY DEF RunEnds, Finish, Interrupt, Kill
<1>2. MemType' = MemType /\ CsvRow' = CsvRow /\ Runs' = Runs
  BY <1>1, SameDesign DEF MemType
<1>3. mem \in [SwProcs -> MemType] /\ csv \in File2
  BY DEF SweepTypeOK
<1>4. \A f \in File2 : Flush(p, f) \in File2
  BY DEF Flush
<1>6. cut' \in BOOLEAN
  BY DEF SweepTypeOK, RunEnds, Finish, Interrupt, Kill
<1>5. /\ csv' \in File2 /\ saved' \in SUBSET Runs /\ bad' \in Nat
      /\ stage' \in [SwProcs -> Label] /\ lock' \subseteq SwProcs /\ mem' \in [SwProcs -> MemType]
      /\ gen' \in [SwProcs -> [inode : {"none", "tmp", "data"}, pos : Nat]]
      => SweepTypeOK'
  BY <1>1, <1>2, <1>6 DEF SweepTypeOK
<1>7. CASE RunEnds(p)
  <2>0. mem[p].todo # {} /\ NextRun(p) \in Runs /\ NextRun(p).cell \in Cell /\ script \in SwScripts
    BY <1>7, NextPlaceIsLeft DEF RunEnds, SweepTypeOK
  <2>1. PICK code \in Loop.codes : RunEffect(p, code)
    BY <1>7, <2>0, RunEndsIs
  <2> DEFINE run == NextRun(p)
             row == [run |-> run, code |-> code]
             failed == FailedThen(p, row)
             consec == Consec(p, run, code)
  <2>2. code \in Code
    BY <2>0, LoopFacts
  <2>3. row \in CsvRow
    BY <2>0, <2>2 DEF CsvRow
  <2>4. csv' \in File2
    <3>1. Write(row) \in File2
      BY <1>3, <2>3 DEF Write
    <3>2. QED  BY <1>4, <2>1, <3>1 DEF RunEffect
  <2>5. saved' \in SUBSET Runs /\ bad' \in Nat
    BY <2>0, <2>1 DEF RunEffect, SweepTypeOK
  <2>6. CASE mem' = [mem EXCEPT ![p].attempt = 2, ![p].header = FALSE] /\ UNCHANGED <<lock, stage, gen>>
    <3>1. [mem[p] EXCEPT !.attempt = 2, !.header = FALSE] \in MemType
      BY <1>3 DEF MemType
    <3>2. mem' \in [SwProcs -> MemType]
      BY <1>3, <2>6, <3>1
    <3>3. QED  BY <1>5, <2>4, <2>5, <2>6, <3>2 DEF SweepTypeOK
  <2>7. CASE Exit(p)
    BY <1>5, <2>4, <2>5, <2>7, ExitType
  <2>8. CASE GoesOn(p, code, failed, consec)
             /\ Goto(p, "next") /\ UNCHANGED <<lock, gen>>
    <3>1. mem[p].failed \in SUBSET Cell /\ mem[p].consec \in Nat
      BY <1>3 DEF MemType
    <3>2. failed \in SUBSET Cell /\ consec \in Nat
      BY <2>0, <3>1 DEF Consec, FailedThen
    <3> HIDE DEF failed, consec
    <3>3. mem' \in [SwProcs -> MemType]
      BY <2>0, <2>2, <2>8, <3>2, RunEndsMem DEF MemAfter
    <3>4. QED  BY <1>5, <2>4, <2>5, <2>8, <3>3 DEF SweepTypeOK, Goto, Label
  <2>9. QED  BY <2>1, <2>6, <2>7, <2>8 DEF RunEffect
<1>8. CASE Finish(p)
  BY <1>3, <1>4, <1>5, <1>8, ExitType DEF SweepTypeOK, Finish
<1>9. CASE Interrupt(p) \/ Kill(p)
  <2>1. mem[p].rows \subseteq CsvRow
    BY <1>3 DEF MemType
  <2>2. \A f \in Upgraded(mem[p].rows) : f \in File2
    BY <2>1 DEF Upgraded, Empty
  <2>3. csv' \in File2 /\ saved' = saved /\ bad' = bad /\ Exit(p)
    BY <1>3, <1>4, <1>9, <2>2 DEF Interrupt, Kill
  <2>4. QED  BY <1>5, <2>3, ExitType DEF SweepTypeOK
<1>10. QED  BY <1>7, <1>8, <1>9

----------------------------------------------------------------------------
(* The lock and the data files *)

\* A session enters where the lock is needed only by taking it, and leaves only by ending.
LEMMA LockStep ==
  ASSUME SweepTypeOK, LockInv, NEW p \in SwProcs,
         Open(p) \/ SessionStep(p) \/ Interrupt(p) \/ Kill(p)
  PROVE  LockInv'
<1> USE DEF LockInv, Held
<1>1. ASSUME lock' = lock, NEW x \in Label, stage' = [stage EXCEPT ![p] = x], x \in Held => stage[p] \in Held
      PROVE  LockInv'
  BY <1>1 DEF SweepTypeOK
<1>2. CASE Exit(p)
  BY <1>2 DEF SweepTypeOK, Exit, Goto
<1>3. CASE lock = {} /\ lock' = {p} /\ \E x : stage' = [stage EXCEPT ![p] = x]
  BY <1>3 DEF SweepTypeOK
<1>4. CASE Open(p) \/ ensure_data(p) \/ WriteChunk(p)
  <2>1. lock' = lock /\ \E x \in Label \ Held : stage' = [stage EXCEPT ![p] = x]
    BY <1>4 DEF Open, ensure_data, WriteChunk, Goto, Label
  <2>2. QED  BY <1>1, <2>1
<1>5. CASE CheckSize(p)
  BY <1>1, <1>2, <1>5 DEF CheckSize, Goto, Label
<1>6. CASE Preflight(p)
  BY <1>1, <1>2, <1>6 DEF Preflight, Goto, Label
<1>7. CASE Lock(p)
  BY <1>2, <1>3, <1>7 DEF Lock, Goto
<1>8. CASE prepare_csv(p) \/ Upgrade(p) \/ Load(p)
  BY <1>1, <1>8 DEF prepare_csv, Upgrade, Load, Goto, Label
<1>9. CASE Skip(p) \/ StartRun(p)
  BY <1>9 DEF Skip, StartRun, Goto, SweepTypeOK
<1>10. CASE RunEnds(p)
  <2>1. stage[p] = "run" /\ (Exit(p) \/ UNCHANGED <<lock, stage>> \/ (UNCHANGED lock /\ Goto(p, "next")))
    BY <1>10 DEF RunEnds
  <2>2. QED  BY <1>1, <1>2, <2>1 DEF Goto, Label
<1>11. CASE Finish(p) \/ Interrupt(p) \/ Kill(p)
  BY <1>2, <1>11 DEF Finish, Interrupt, Kill
<1>12. QED
  BY <1>4, <1>5, <1>6, <1>7, <1>8, <1>9, <1>10, <1>11 DEF SessionStep

\* A session that writes no data leaves the data files as they are.
LEMMA DataKept ==
  ASSUME SweepTypeOK, DataInv, NEW p \in SwProcs, UNCHANGED <<script, data, tmp, shared>>,
         NEW x \in Label \ {"write", "size"}, stage' = [stage EXCEPT ![p] = x],
         \/ x = "idle" /\ gen' = [gen EXCEPT ![p] = NoGen]
         \/ UNCHANGED gen /\ stage[p] \notin {"write", "size"}
            /\ (x # "data" /\ Doe => data.len = Chunks)
  PROVE  DataInv'
<1> SUFFICES ASSUME ~shared PROVE DataInv'
  BY DEF DataInv
<1>1. stage'[p] = x /\ \A q \in SwProcs : q # p => stage'[q] = stage[q]
  BY DEF SweepTypeOK
<1>2. gen'[p].inode = "none" /\ \A q \in SwProcs : q # p => gen'[q] = gen[q]
  BY DEF SweepTypeOK, NoGen, DataInv
<1>3. (Doe' <=> Doe)
  BY SameDesign
<1>4. (x \notin BeforeCheck /\ Doe) => data.len = Chunks
  BY DEF BeforeCheck
<1>5. /\ \A q \in SwProcs : gen'[q].inode # "data"
      /\ \A q \in SwProcs : gen'[q].inode = "tmp" <=> stage'[q] \in {"write", "size"}
  BY <1>1, <1>2 DEF DataInv
<1>6. \A q \in SwProcs : gen'[q].inode = "tmp" => q # p
  BY <1>2
<1>7. QED  BY <1>1, <1>2, <1>3, <1>4, <1>5, <1>6 DEF DataInv

LEMMA DataStep ==
  ASSUME SweepTypeOK, DataInv, NEW p \in SwProcs,
         Open(p) \/ SessionStep(p) \/ Interrupt(p) \/ Kill(p)
  PROVE  DataInv'
<1> USE DEF dataVars, Goto, BeforeCheck
<1>0. Chunks \in Nat \ {0}
  BY SweepAssumption
<1>1. ASSUME Exit(p), UNCHANGED <<script, data, tmp, shared>>
      PROVE  DataInv'
  BY <1>1, DataKept DEF Exit, Label
<1>2. ASSUME NEW x \in Held \cup {"lock"}, stage[p] \notin BeforeCheck, stage' = [stage EXCEPT ![p] = x],
             UNCHANGED <<script, data, tmp, shared, gen>>
      PROVE  DataInv'
  <2>1. CASE ~shared
    <3>1. Doe => data.len = Chunks
      BY <1>2, <2>1 DEF DataInv
    <3>2. QED  BY <1>2, <3>1, DataKept DEF Label, Held
  <2>2. CASE shared
    BY <1>2, <2>2 DEF DataInv
  <2>3. QED  BY <2>1, <2>2 DEF SweepTypeOK
<1>3. CASE Open(p)
  <2>1. script \in SwScripts
    BY DEF SweepTypeOK
  <2>2. CASE Doe
    BY <1>3, <2>2, DataKept DEF Open, Label
  <2>3. CASE ~Doe
    BY <1>3, <2>3, DataKept DEF Open, Label
  <2>4. QED  BY <2>2, <2>3
<1>4. CASE ensure_data(p)
  <2>1. CASE data.len = Chunks
    BY <1>4, <2>1, DataKept DEF ensure_data, Label
  <2>2. CASE data.len # Chunks
    <3> SUFFICES ASSUME ~shared' PROVE DataInv'
      BY DEF DataInv
    <3>1. ~shared /\ \A q \in SwProcs : q # p => gen[q].inode # "tmp"
      BY <1>4, <2>2 DEF ensure_data
    <3>2. stage'[p] = "write" /\ \A q \in SwProcs : q # p => stage'[q] = stage[q]
      BY <1>4, <2>2 DEF ensure_data, SweepTypeOK
    <3>3. gen'[p] = [inode |-> "tmp", pos |-> 0] /\ \A q \in SwProcs : q # p => gen'[q] = gen[q]
      BY <1>4, <2>2 DEF ensure_data, SweepTypeOK
    <3>4. tmp' = NoData /\ data' = data /\ (Doe' <=> Doe)
      BY <1>4, <2>2, SameDesign DEF ensure_data
    <3>5. tmp'.len = 0 /\ tmp'.filled = 1..tmp'.len
      BY <3>4 DEF NoData
    <3>6. QED  BY <1>0, <3>1, <3>2, <3>3, <3>4, <3>5 DEF DataInv
  <2>3. QED  BY <2>1, <2>2
<1>5. CASE WriteChunk(p)
  <2> SUFFICES ASSUME ~shared PROVE DataInv'
    BY <1>5 DEF DataInv, WriteChunk
  <2>1. /\ gen[p].inode = "tmp" /\ gen[p].pos = tmp.len /\ tmp.len < Chunks /\ tmp.filled = 1..tmp.len
        /\ tmp.len \in Nat /\ \A q \in SwProcs : q # p => gen[q].inode = "none"
    BY <1>5 DEF WriteChunk, DataInv, SweepTypeOK, File
  <2>2. gen'[p] = [inode |-> "tmp", pos |-> tmp.len + 1] /\ \A q \in SwProcs : q # p => gen'[q] = gen[q]
    BY <1>5, <2>1 DEF WriteChunk, SweepTypeOK
  <2>3. stage'[p] = "size" /\ \A q \in SwProcs : q # p => stage'[q] = stage[q]
    BY <1>5 DEF WriteChunk, SweepTypeOK
  <2>4. tmp' = Fill(tmp, tmp.len + 1) /\ data' = data /\ (Doe' <=> Doe)
    BY <1>5, <2>1, SameDesign DEF WriteChunk
  <2>5. tmp'.len = tmp.len + 1 /\ tmp'.filled = 1..(tmp.len + 1)
    BY <2>1, <2>4 DEF Fill
  <2>6. QED  BY <1>0, <2>1, <2>2, <2>3, <2>4, <2>5 DEF DataInv
<1>6. CASE CheckSize(p)
  <2>1. CASE Exit(p) /\ UNCHANGED <<data, tmp>>
    BY <1>1, <1>6, <2>1 DEF CheckSize
  <2>2. CASE gen[p].inode = "tmp" /\ tmp.len < Chunks /\ Goto(p, "write")
             /\ UNCHANGED <<lock, mem, data, tmp, gen>>
    <3>1. stage'[p] = "write" /\ \A q \in SwProcs : q # p => stage'[q] = stage[q]
      BY <2>2 DEF SweepTypeOK
    <3>2. UNCHANGED <<script, data, tmp, gen, shared>> /\ stage[p] = "size" /\ (Doe' <=> Doe)
      BY <1>6, <2>2, SameDesign DEF CheckSize
    <3>3. QED  BY <2>2, <3>1, <3>2 DEF DataInv
  <2>3. CASE gen[p].inode = "tmp" /\ tmp.len >= Chunks /\ Goto(p, "check") /\ Replace(p)
             /\ UNCHANGED <<lock, mem>>
    <3> SUFFICES ASSUME ~shared PROVE DataInv'
      BY <1>6 DEF DataInv, CheckSize
    <3>1. tmp.len = Chunks /\ tmp.filled = 1..Chunks /\ \A q \in SwProcs : q # p => gen[q].inode = "none"
      BY <1>0, <1>6, <2>3 DEF DataInv, SweepTypeOK, File, CheckSize
    <3>2. stage'[p] = "check" /\ \A q \in SwProcs : q # p => stage'[q] = stage[q]
      BY <2>3 DEF SweepTypeOK
    <3>3. gen'[p] = NoGen /\ \A q \in SwProcs : q # p => gen'[q] = gen[q]
      BY <2>3, <3>1 DEF Replace
    <3>4. data' = tmp /\ UNCHANGED shared /\ (Doe' <=> Doe)
      BY <1>6, <2>3, SameDesign DEF Replace, CheckSize
    <3>5. \A q \in SwProcs : gen'[q].inode = "none" /\ stage'[q] \notin {"write", "size"}
      BY <3>1, <3>2, <3>3 DEF NoGen, DataInv
    <3>6. QED  BY <3>1, <3>4, <3>5 DEF DataInv
  <2>4. QED  BY <1>6, <2>1, <2>2, <2>3 DEF CheckSize
<1>7. CASE Preflight(p) \/ Lock(p)
  <2>1. CASE Exit(p)
    BY <1>1, <1>7, <2>1 DEF Preflight, Lock
  <2>2. CASE ~Exit(p)
    BY <1>2, <1>7, <2>2 DEF Preflight, Lock, Held
  <2>3. QED  BY <2>1, <2>2
<1>8. CASE prepare_csv(p) \/ Upgrade(p) \/ Load(p) \/ StartRun(p)
  BY <1>2, <1>8 DEF prepare_csv, Upgrade, Load, StartRun, Held
<1>9. CASE Skip(p)
  BY <1>9, SameDesign DEF Skip, DataInv
<1>10. CASE RunEnds(p)
  <2>1. /\ stage[p] = "run" /\ UNCHANGED <<script, data, tmp, shared>>
        /\ Exit(p) \/ UNCHANGED <<stage, gen>> \/ (Goto(p, "next") /\ UNCHANGED gen)
    BY <1>10 DEF RunEnds
  <2>2. CASE UNCHANGED <<stage, gen>>
    BY <2>1, <2>2, SameDesign DEF DataInv
  <2>3. QED  BY <1>1, <1>2, <2>1, <2>2 DEF Held
<1>11. CASE Finish(p) \/ Interrupt(p) \/ Kill(p)
  BY <1>1, <1>11 DEF Finish, Interrupt, Kill
<1>12. QED
  BY <1>3, <1>4, <1>5, <1>6, <1>7, <1>8, <1>9, <1>10, <1>11 DEF SessionStep

----------------------------------------------------------------------------
(* The CSV and the sessions *)

TimedOut(c) == {r \in 1..Reps : [run |-> [cell |-> c, rep |-> r], code |-> 124] \in Readable}

LEMMA PriorIs ==
  /\ \A c \in Cell : prior_timeouts[c] = Cardinality(TimedOut(c))
  /\ \A c \in Cell' : prior_timeouts'[c] = Cardinality(TimedOut(c)')
BY DEF prior_timeouts, TimedOut

\* Cardinalities of sets of repetitions.
LEMMA RepsCount ==
  /\ \A T \in SUBSET (1..Reps) : Cardinality(T) \in Nat /\ (Cardinality(T) > 0 <=> T # {})
  /\ \A S, T \in SUBSET (1..Reps) : S \subseteq T => Cardinality(S) <= Cardinality(T)
  /\ \A S, T \in SUBSET (1..Reps) : \A r : S \subseteq T \cup {r} => Cardinality(S) <= Cardinality(T) + 1
<1>1. IsFiniteSet(1..Reps)
  BY SweepAssumption, FS_Interval
<1>2. \A T \in SUBSET (1..Reps) : IsFiniteSet(T)
  BY <1>1, FS_Subset
<1>3. \A T \in SUBSET (1..Reps) : Cardinality(T) \in Nat /\ (Cardinality(T) > 0 <=> T # {})
  <2> TAKE T \in SUBSET (1..Reps)
  <2>1. Cardinality(T) \in Nat /\ (Cardinality(T) = 0 <=> T = {})
    BY <1>2, FS_CardinalityType, FS_EmptySet
  <2>2. Cardinality(T) > 0 <=> Cardinality(T) # 0
    BY <2>1
  <2>3. QED  BY <2>1, <2>2, Zenon
<1>4. \A S, T \in SUBSET (1..Reps) : S \subseteq T => Cardinality(S) <= Cardinality(T)
  BY <1>2, FS_Subset
<1>5. ASSUME NEW S \in SUBSET (1..Reps), NEW T \in SUBSET (1..Reps), NEW r, S \subseteq T \cup {r}
      PROVE  Cardinality(S) <= Cardinality(T) + 1
  <2>1. IsFiniteSet(T) /\ Cardinality(T) \in Nat
    BY <1>2, <1>3
  <2>2. IsFiniteSet(T \cup {r}) /\ Cardinality(T \cup {r}) <= Cardinality(T) + 1
    <3>1. /\ IsFiniteSet(T \cup {r})
          /\ Cardinality(T \cup {r}) = IF r \in T THEN Cardinality(T) ELSE Cardinality(T) + 1
      BY <2>1, FS_AddElement, Zenon
    <3>2. QED  BY <2>1, <3>1
  <2>3. Cardinality(S) <= Cardinality(T \cup {r})
    BY <1>5, <2>2, FS_Subset
  <2>4. Cardinality(S) \in Nat /\ Cardinality(T \cup {r}) \in Nat
    BY <1>3, <2>2, FS_CardinalityType
  <2>5. QED  BY <2>1, <2>2, <2>3, <2>4
<1>6. QED  BY <1>3, <1>4, <1>5

\* The same file reads the same.
LEMMA ReadSame ==
  ASSUME UNCHANGED <<script, csv>>
  PROVE  /\ Readable' = Readable /\ failed_cells' = failed_cells
         /\ \A c \in Cell : prior_timeouts'[c] = prior_timeouts[c]
         /\ \A run : AccountedFor(run)' <=> AccountedFor(run)
<1>1. Cell' = Cell /\ (\A row : DiedCapped(row)' <=> DiedCapped(row)) /\ \A c : IsCapped(c)' <=> IsCapped(c)
  BY SameDesign
<1>2. Readable' = Readable
  BY DEF Readable
<1>3. failed_cells' = failed_cells
  BY <1>1, <1>2 DEF failed_cells
<1>4. \A c \in Cell : prior_timeouts'[c] = prior_timeouts[c]
  BY <1>1, <1>2 DEF prior_timeouts
<1>5. \A run : AccountedFor(run)' <=> AccountedFor(run)
  BY <1>1 DEF AccountedFor
<1>6. QED  BY <1>2, <1>3, <1>4, <1>5

\* A session that does not move where nothing else does.
LEMMA SessionKept ==
  ASSUME NEW q \in SwProcs, SessionInv(q), UNCHANGED <<script, plan, csv, saved, cut>>,
         stage'[q] = stage[q], mem'[q] = mem[q]
  PROVE  SessionInv(q)'
<1>1. Cell' = Cell /\ (Doe' <=> Doe) /\ \A row : DiedCapped(row)' <=> DiedCapped(row)
  BY SameDesign
<1>2. LoopInv(q) => LoopInv(q)'
  BY <1>1, ReadSame DEF LoopInv
<1>3. QED
  BY <1>1, <1>2 DEF SessionInv, Successes, Empty

\* A session that neither has the lock nor takes it.
LEMMA OutsideStep ==
  ASSUME SweepTypeOK, FileInv, NEW p \in SwProcs, UNCHANGED <<script, plan, csv, saved, cut>>,
         stage[p] \notin Held, NEW x \in Label \ Held, stage' = [stage EXCEPT ![p] = x],
         mem' = mem \/ mem' = [mem EXCEPT ![p] = NoMem]
  PROVE  FileInv'
<1>1. stage'[p] = x /\ \A q \in SwProcs : q # p => stage'[q] = stage[q] /\ mem'[q] = mem[q]
  BY DEF SweepTypeOK
<1>2. ~mem'[p].header
  BY DEF SweepTypeOK, FileInv, SessionInv, Held, InLoop, NoMem
<1>3. SessionInv(p)'
  BY <1>1, <1>2 DEF SessionInv, Held, InLoop
<1>4. \A q \in SwProcs : q # p => SessionInv(q)'
  BY <1>1, SessionKept DEF FileInv
<1>5. Doe' <=> Doe
  BY SameDesign
<1>6. /\ \A q \in SwProcs : stage'[q] = "upgrade" <=> stage[q] = "upgrade"
      /\ \A q \in SwProcs : stage'[q] \in {"upgrade", "next", "run"} <=> stage[q] \in {"upgrade", "next", "run"}
  BY <1>1 DEF Held
<1>7. CsvInv'
  BY <1>5, <1>6 DEF FileInv, CsvInv, Successes
<1>8. QED  BY <1>3, <1>4, <1>7 DEF FileInv

\* The other sessions do not notice what the one that has the lock does.
LEMMA OthersWait ==
  ASSUME SweepTypeOK, LockInv, FileInv, NEW p \in SwProcs, stage[p] \in Held
  PROVE  /\ \A q \in SwProcs : q # p => stage[q] \notin Held
         /\ \A q \in SwProcs : q # p /\ stage'[q] = stage[q] /\ mem'[q] = mem[q] => SessionInv(q)'
<1>1. \A q \in SwProcs : q # p => stage[q] \notin Held
  BY DEF LockInv
<1>2. ASSUME NEW q \in SwProcs, q # p, stage'[q] = stage[q], mem'[q] = mem[q]
      PROVE  SessionInv(q)'
  <2>1. stage'[q] \notin Held /\ ~mem'[q].header
    BY <1>1, <1>2 DEF FileInv, SessionInv, Held, InLoop
  <2>2. QED  BY <2>1 DEF SessionInv, Held, InLoop
<1>3. QED  BY <1>1, <1>2

\* The session takes the lock.
LEMMA LockFileInv ==
  ASSUME SweepTypeOK, LockInv, FileInv, NEW p \in SwProcs, Lock(p)
  PROVE  FileInv'
<1> USE DEF Lock, Goto
<1>1. CASE lock # {}
  BY <1>1, OutsideStep DEF Exit, Held, Label
<1>2. CASE lock = {}
  <2>1. \A q \in SwProcs : stage[q] \notin Held
    BY <1>2 DEF LockInv
  <2>2. UNCHANGED <<script, plan, csv, saved, cut, mem>> /\ (Doe' <=> Doe)
    BY <1>2, SameDesign
  <2>3. stage'[p] = (IF Doe THEN "load" ELSE "prepare") /\ \A q \in SwProcs : q # p => stage'[q] = stage[q]
    BY <1>2 DEF SweepTypeOK
  <2>4. \A q \in SwProcs : q # p => SessionInv(q)'
    BY <2>2, <2>3, SessionKept DEF FileInv
  <2>5. SessionInv(p)'
    BY <2>1, <2>2, <2>3 DEF SessionInv, Held, InLoop, FileInv, CsvInv
  <2>6. CsvInv'
    <3>1. \A q \in SwProcs : stage[q] \notin {"upgrade", "next", "run"} /\ stage'[q] \notin {"upgrade", "next", "run"}
      BY <2>1, <2>3 DEF Held
    <3>2. QED  BY <2>2, <3>1 DEF FileInv, CsvInv, Successes
  <2>7. QED  BY <2>4, <2>5, <2>6 DEF FileInv
<1>3. QED  BY <1>1, <1>2

\* The two steps of prepare_csv.
LEMMA PrepareFileInv ==
  ASSUME SweepTypeOK, LockInv, FileInv, NEW p \in SwProcs, prepare_csv(p) \/ Upgrade(p)
  PROVE  FileInv'
<1> USE DEF Goto, Absent, Empty
<1>1. stage[p] \in {"prepare", "upgrade"} /\ stage[p] \in Held
  BY DEF prepare_csv, Upgrade, Held
<1>2. UNCHANGED <<script, plan, saved, cut>> /\ ~Doe /\ ~Doe'
  BY <1>1, SameDesign DEF prepare_csv, Upgrade, FileInv, SessionInv
<1>3. \A q \in SwProcs : q # p => stage'[q] = stage[q] /\ mem'[q] = mem[q]
  BY DEF SweepTypeOK, prepare_csv, Upgrade
<1>4. \A q \in SwProcs : q # p => SessionInv(q)'
  BY <1>1, <1>3, OthersWait
<1>5. \A q \in SwProcs : q # p => stage[q] \notin Held /\ stage'[q] \notin Held
  BY <1>1, <1>3, OthersWait
<1>6. mem[p] \in MemType /\ ~mem[p].header
  BY <1>1 DEF SweepTypeOK, FileInv, SessionInv, InLoop
<1>7. CASE prepare_csv(p)
  <2>1. ~cut => csv.first # "row" /\ csv.first # "empty"
                /\ IF csv.first = "foreign" THEN saved = {} ELSE saved \subseteq Successes(csv.rows)
    <3>1. \A q \in SwProcs : stage[q] \notin {"upgrade", "next", "run"}
      BY <1>5, <1>7 DEF Held, prepare_csv
    <3>2. QED  BY <1>2, <3>1 DEF FileInv, CsvInv
  <2>2. CASE csv.first \in {"absent", "empty", "header"} /\ Goto(p, "load") /\ UNCHANGED <<csv, backup, mem>>
    <3>1. stage'[p] = "load"
      BY <2>2 DEF SweepTypeOK
    <3>2. SessionInv(p)'
      BY <1>6, <2>2, <3>1 DEF SessionInv, InLoop
    <3>3. CsvInv'
      BY <1>2, <2>1, <2>2 DEF FileInv, CsvInv, Successes
    <3>4. QED  BY <1>4, <3>2, <3>3 DEF FileInv
  <2>3. CASE csv.first = "older" /\ mem' = [mem EXCEPT ![p].rows = csv.rows] /\ csv' = Empty /\ Goto(p, "upgrade")
    <3>1. stage'[p] = "upgrade" /\ mem'[p].rows = csv.rows /\ ~mem'[p].header
      BY <1>6, <2>3 DEF SweepTypeOK, MemType
    <3>2. SessionInv(p)'
      BY <1>2, <2>1, <2>3, <3>1 DEF SessionInv, InLoop, Successes
    <3>3. CsvInv'
      BY <1>2, <2>3, <3>1 DEF CsvInv
    <3>4. QED  BY <1>4, <3>2, <3>3 DEF FileInv
  <2>4. CASE csv.first \in {"foreign", "row"} /\ csv' = Absent /\ Goto(p, "load") /\ UNCHANGED mem
    <3>1. stage'[p] = "load"
      BY <2>4 DEF SweepTypeOK
    <3>2. SessionInv(p)'
      BY <1>6, <2>4, <3>1 DEF SessionInv, InLoop
    <3>3. ~cut => saved = {}
      BY <2>1, <2>4
    <3>4. CsvInv'
      BY <1>2, <2>4, <3>3 DEF CsvInv
    <3>5. QED  BY <1>4, <3>2, <3>4 DEF FileInv
  <2>5. QED  BY <1>7, <2>2, <2>3, <2>4 DEF prepare_csv
<1>8. CASE Upgrade(p)
  <2>1. stage'[p] = "load" /\ ~mem'[p].header
    BY <1>6, <1>8 DEF SweepTypeOK, MemType, Upgrade
  <2>2. ~cut => saved \subseteq Successes(mem[p].rows)
    BY <1>8 DEF FileInv, SessionInv, Upgrade
  <2>3. csv'.first = "header" /\ csv'.rows = mem[p].rows
    BY <1>8 DEF Upgrade
  <2>4. SessionInv(p)'
    BY <2>1, <2>3 DEF SessionInv, InLoop
  <2>5. CsvInv'
    BY <1>2, <2>2, <2>3 DEF CsvInv, Successes
  <2>6. QED  BY <1>4, <2>4, <2>5 DEF FileInv
<1>9. QED  BY <1>7, <1>8

\* What is read is what there is, when the CSV has its header or no rows.
LEMMA ReadsAll ==
  ASSUME SweepTypeOK, CsvInv, csv.first \in {"absent", "empty", "header"}
  PROVE  Readable = csv.rows /\ Successes(csv.rows) \subseteq Done
<1>1. Readable = csv.rows
  BY DEF CsvInv, Readable
<1>2. QED
  BY <1>1 DEF Successes, Done, read_state, done_keys

LEMMA LoadFileInv ==
  ASSUME SweepTypeOK, LockInv, FileInv, NEW p \in SwProcs, Load(p)
  PROVE  FileInv'
<1> USE DEF Goto, Absent, Empty
<1>1. stage[p] = "load" /\ stage[p] \in Held /\ csv.first \in {"absent", "empty", "header"}
  BY DEF Load, Held, FileInv, SessionInv
<1>2. UNCHANGED <<script, plan, saved, cut>> /\ (Doe' <=> Doe) /\ Cell' = Cell
      /\ \A row : DiedCapped(row)' <=> DiedCapped(row)
  BY SameDesign DEF Load
<1>3. stage'[p] = "next" /\ \A q \in SwProcs : q # p => stage'[q] = stage[q] /\ mem'[q] = mem[q]
  BY DEF SweepTypeOK, Load
<1>4. \A q \in SwProcs : q # p => SessionInv(q)'
  BY <1>1, <1>3, OthersWait
<1>5. \A q \in SwProcs : stage[q] \notin {"upgrade", "next", "run"}
  BY <1>1, OthersWait DEF Held
<1>6. ~cut => saved \subseteq Successes(csv.rows) /\ (csv.first = "empty" => Doe)
  BY <1>1, <1>5 DEF FileInv, CsvInv
<1>7. Readable = csv.rows /\ Successes(csv.rows) \subseteq Done
  BY <1>1, ReadsAll DEF FileInv
<1>8. csv'.rows = csv.rows /\ csv'.first = IF csv.first = "absent" THEN "empty" ELSE csv.first
  BY DEF Load, FileInv, CsvInv
<1>9. Readable' = Readable
  BY <1>1, <1>7, <1>8 DEF Readable, FileInv, CsvInv
<1>10. failed_cells' = failed_cells /\ \A c \in Cell : prior_timeouts'[c] = prior_timeouts[c]
  <2>1. failed_cells' = failed_cells
    BY <1>2, <1>9 DEF failed_cells
  <2>2. \A c \in Cell : TimedOut(c)' = TimedOut(c)
    BY <1>9 DEF TimedOut
  <2>3. QED  BY <1>2, <2>1, <2>2, PriorIs
<1>11. /\ mem'[p].todo = {i \in DOMAIN plan : plan[i] \notin Done}
       /\ mem'[p].timeouts = prior_timeouts /\ mem'[p].failed = failed_cells
       /\ mem'[p].header <=> NewFile
  <2> DEFINE new == NewFile
  <2>1. new \in BOOLEAN
    BY DEF NewFile
  <2>2. NoMem \in MemType
    BY NoMemType DEF SweepTypeOK
  <2>3. mem'[p] = [NoMem EXCEPT !.todo = {i \in DOMAIN plan : plan[i] \notin Done},
                     !.timeouts = prior_timeouts, !.failed = failed_cells, !.header = new]
    BY DEF Load, SweepTypeOK
  <2> HIDE DEF new, NoMem
  <2>4. /\ mem'[p].todo = {i \in DOMAIN plan : plan[i] \notin Done}
        /\ mem'[p].timeouts = prior_timeouts /\ mem'[p].failed = failed_cells
        /\ mem'[p].header = new
    BY <2>2, <2>3 DEF MemType
  <2>5. QED  BY <2>1, <2>4 DEF new
<1>12. LoopInv(p)'
  <2>1. /\ csv'.first \in {"empty", "header", "row"}
        /\ mem'[p].header => csv'.first = "empty"
    BY <1>1, <1>8, <1>11 DEF NewFile
  <2>2. (Doe' \/ ~cut') /\ csv'.first = "empty" => mem'[p].header
    BY <1>1, <1>2, <1>6, <1>8, <1>11 DEF NewFile
  <2>3. ASSUME NEW c \in Cell
        PROVE  /\ prior_timeouts'[c] <= mem'[p].timeouts[c]
               /\ Doe' /\ mem'[p].timeouts[c] > 0 => prior_timeouts'[c] > 0
               /\ mem'[p].timeouts[c] > 0 => \E row \in csv'.rows : row.run.cell = c /\ row.code = 124
    <3>1. mem'[p].timeouts[c] = prior_timeouts[c] /\ prior_timeouts'[c] = prior_timeouts[c]
      BY <1>10, <1>11
    <3>2. prior_timeouts[c] = Cardinality(TimedOut(c)) /\ TimedOut(c) \in SUBSET (1..Reps)
      BY PriorIs DEF TimedOut
    <3>3. prior_timeouts[c] \in Nat /\ (prior_timeouts[c] > 0 => TimedOut(c) # {})
      BY <3>2, RepsCount
    <3>4. TimedOut(c) # {} => \E row \in csv'.rows : row.run.cell = c /\ row.code = 124
      <4>1. ASSUME NEW r \in TimedOut(c)
            PROVE  \E row \in csv'.rows : row.run.cell = c /\ row.code = 124
        <5> DEFINE row == [run |-> [cell |-> c, rep |-> r], code |-> 124]
        <5>1. row \in csv'.rows /\ row.run.cell = c /\ row.code = 124
          BY <1>7, <1>8, <4>1 DEF TimedOut
        <5>2. QED  BY <5>1
      <4>2. QED  BY <4>1
    <3>5. QED  BY <3>1, <3>3, <3>4
  <2>4. /\ failed_cells' \subseteq mem'[p].failed
        /\ Doe' => mem'[p].failed \subseteq failed_cells'
    BY <1>10, <1>11
  <2>5. \A c \in mem'[p].failed : \E row \in csv'.rows : DiedCapped(row)' /\ row.run.cell = c
    BY <1>2, <1>7, <1>8, <1>11 DEF failed_cells
  <2>6. (\A i \in DOMAIN plan : i \in mem[p].todo \/ AccountedFor(plan[i]))'
    <3> SUFFICES ASSUME NEW i \in DOMAIN plan, plan[i] \in Done PROVE AccountedFor(plan[i])'
      BY <1>2, <1>11
    <3>1. PICK row \in Readable : row.run = plan[i]
      BY DEF Done, read_state, done_keys
    <3>2. QED  BY <1>2, <1>7, <1>8, <3>1 DEF AccountedFor
  <2>7. ~cut' => \A i \in mem'[p].todo : plan'[i] \notin saved'
    BY <1>2, <1>6, <1>7, <1>11
  <2>8. QED  BY <1>2, <2>1, <2>2, <2>3, <2>4, <2>5, <2>6, <2>7 DEF LoopInv
<1>13. SessionInv(p)'
  BY <1>3, <1>12 DEF SessionInv, InLoop
<1>14. CsvInv'
  BY <1>1, <1>2, <1>3, <1>6, <1>8 DEF FileInv, CsvInv, Successes
<1>15. QED  BY <1>4, <1>13, <1>14 DEF FileInv

\* A cell that is skipped is skipped for a row of the CSV.
LEMMA SkippedIsAccounted ==
  ASSUME SweepTypeOK, NEW p \in SwProcs, LoopInv(p), mem[p].todo # {}, Skips(p)
  PROVE  AccountedFor(NextRun(p))
<1> DEFINE run == NextRun(p)
<1>1. run \in Runs /\ run.cell \in Cell
  BY NextPlaceIsLeft
<1>2. Loop.limit \in Nat \ {0} /\ mem[p].timeouts[run.cell] \in Nat
  BY <1>1, LoopFacts DEF SweepTypeOK, MemType
<1> HIDE DEF run
<1>3. CASE mem[p].timeouts[run.cell] >= Loop.limit
  <2>1. mem[p].timeouts[run.cell] > 0
    BY <1>2, <1>3
  <2>2. QED  BY <1>1, <2>1 DEF LoopInv, AccountedFor, run
<1>4. CASE run.cell \in mem[p].failed
  <2>1. PICK row \in csv.rows : DiedCapped(row) /\ row.run.cell = run.cell
    BY <1>4 DEF LoopInv
  <2>2. IsCapped(run.cell) /\ run.cell <= run.cell
    BY <1>1, <2>1, DesignFacts DEF DiedCapped, SweepTypeOK
  <2>3. QED  BY <2>1, <2>2 DEF AccountedFor, run
<1>5. CASE BelowCliff(mem[p].failed, run.cell)
  <2>1. PICK c \in mem[p].failed : c < run.cell
    BY <1>5 DEF BelowCliff
  <2>2. PICK row \in csv.rows : DiedCapped(row) /\ row.run.cell = c
    BY <2>1 DEF LoopInv
  <2>3. c \in Nat /\ run.cell \in Nat
    BY <1>1, <2>1, DesignFacts DEF SweepTypeOK, MemType
  <2>4. IsCapped(run.cell) /\ row.run.cell <= run.cell
    BY <1>5, <2>1, <2>2, <2>3 DEF BelowCliff
  <2>5. QED  BY <2>2, <2>4 DEF AccountedFor, run
<1>6. QED  BY <1>3, <1>4, <1>5 DEF Skips, SkipsCell, run

LEMMA TurnFileInv ==
  ASSUME SweepTypeOK, LockInv, FileInv, NEW p \in SwProcs, Skip(p) \/ StartRun(p)
  PROVE  FileInv'
<1> USE DEF Goto
<1>1. stage[p] = "next" /\ stage[p] \in Held /\ LoopInv(p) /\ mem[p] \in MemType /\ mem[p].todo # {}
  BY DEF Skip, StartRun, Held, FileInv, SessionInv, InLoop, SweepTypeOK
<1>2. UNCHANGED <<script, plan, csv, saved, cut>> /\ (Doe' <=> Doe) /\ Cell' = Cell
      /\ \A row : DiedCapped(row)' <=> DiedCapped(row)
  BY SameDesign DEF Skip, StartRun
<1>3. stage'[p] \in InLoop /\ \A q \in SwProcs : q # p => stage'[q] = stage[q] /\ mem'[q] = mem[q]
  BY <1>1 DEF SweepTypeOK, Skip, StartRun, InLoop
<1>4. \A q \in SwProcs : q # p => SessionInv(q)'
  BY <1>1, <1>3, OthersWait
<1>5. \A q \in SwProcs : stage[q] # "upgrade" /\ stage'[q] # "upgrade"
  BY <1>1, <1>3, OthersWait DEF Held, InLoop
<1>6. CsvInv'
  BY <1>2, <1>3, <1>5 DEF FileInv, CsvInv, Successes, InLoop
<1>7. /\ mem'[p].timeouts = mem[p].timeouts /\ mem'[p].failed = mem[p].failed
      /\ mem'[p].header = mem[p].header
      /\ mem'[p].todo = IF Skip(p) THEN Rest(p) ELSE mem[p].todo
      /\ stage'[p] = "run" => mem'[p].todo # {}
  <2>1. CASE Skip(p)
    <3>1. mem'[p] = [mem[p] EXCEPT !.todo = Rest(p)] /\ stage'[p] = "next"
      BY <1>1, <2>1 DEF Skip, SweepTypeOK
    <3>2. QED  BY <1>1, <2>1, <3>1 DEF MemType
  <2>2. CASE ~Skip(p)
    <3>1. mem'[p] = [mem[p] EXCEPT !.attempt = 1]
      BY <2>2 DEF StartRun, SweepTypeOK
    <3>2. QED  BY <1>1, <2>2, <3>1 DEF MemType
  <2>3. QED  BY <2>1, <2>2
<1>8. \A i \in DOMAIN plan : i \in mem'[p].todo \/ AccountedFor(plan[i])
  <2> SUFFICES ASSUME NEW i \in DOMAIN plan, i \notin mem'[p].todo PROVE AccountedFor(plan[i])
    OBVIOUS
  <2>1. CASE i \in mem[p].todo
    <3>1. Skip(p) /\ i = NextPlace(p)
      BY <1>7, <2>1 DEF Rest
    <3>2. QED  BY <1>1, <3>1, SkippedIsAccounted DEF Skip, NextRun
  <2>2. CASE i \notin mem[p].todo
    BY <1>1, <2>2 DEF LoopInv
  <2>3. QED  BY <2>1, <2>2
<1>9. (\A i \in DOMAIN plan : i \in mem[p].todo \/ AccountedFor(plan[i]))'
  BY <1>2, <1>8, ReadSame
<1>10. mem'[p].todo \subseteq mem[p].todo
  BY <1>7 DEF Rest
<1>11. LoopInv(p)'
  BY <1>1, <1>2, <1>7, <1>9, <1>10, ReadSame DEF LoopInv
<1>12. SessionInv(p)'
  BY <1>3, <1>7, <1>11 DEF SessionInv, InLoop
<1>13. QED  BY <1>4, <1>6, <1>12 DEF FileInv

\* What one more row does to the CSV of a session in its loop.
LEMMA RowWritten ==
  ASSUME SweepTypeOK, FileInv, NEW p \in SwProcs, stage[p] \in InLoop, UNCHANGED script,
         NEW row \in CsvRow, csv' = Flush(p, Write(row))
  PROVE  /\ csv'.rows = csv.rows \cup {row} /\ csv'.first \in {"header", "row"}
         /\ Doe \/ ~cut => csv'.first = "header"
         /\ Readable' \subseteq Readable \cup {row} /\ Readable \subseteq csv.rows
         /\ Doe => Readable' = Readable \cup {row}
<1>1. LoopInv(p) /\ CsvInv
  BY DEF FileInv, SessionInv
<1>2. /\ csv'.rows = csv.rows \cup {row}
      /\ csv'.first = IF mem[p].header THEN "header"
                      ELSE IF csv.first \in {"absent", "empty"} THEN "row" ELSE csv.first
  BY DEF Flush, Write, SweepTypeOK
<1>3. csv'.first \in {"header", "row"}
  BY <1>1, <1>2 DEF LoopInv
<1>4. Doe \/ ~cut => csv'.first = "header"
  BY <1>1, <1>2 DEF LoopInv, CsvInv
<1>5. Readable' = IF csv'.first = "header" THEN csv.rows \cup {row} ELSE {}
  BY <1>2 DEF Readable
<1>6. csv'.first = "header" => Readable = csv.rows
  BY <1>1, <1>2 DEF LoopInv, CsvInv, Readable
<1>7. QED  BY <1>2, <1>3, <1>4, <1>5, <1>6 DEF Readable

\* The session is in its loop again, with one more row and the memory of it.
LEMMA LoopAfterRun ==
  ASSUME SweepTypeOK, FileInv, NEW p \in SwProcs, stage[p] = "run", UNCHANGED <<script, plan, cut>>,
         NEW code \in Code, NEW row, row = [run |-> NextRun(p), code |-> code],
         csv' = Flush(p, Write(row)),
         saved' = IF code = 0 THEN saved \cup {NextRun(p)} ELSE saved,
         ~mem'[p].header, mem'[p].failed = FailedThen(p, row),
         \A c \in Cell : mem'[p].timeouts[c] = IF code = 124 /\ c = NextRun(p).cell
                                               THEN mem[p].timeouts[c] + 1 ELSE mem[p].timeouts[c],
         \/ mem'[p].todo = mem[p].todo /\ code # 0
         \/ mem'[p].todo = Rest(p)
  PROVE  LoopInv(p)'
<1> DEFINE run == NextRun(p)
<1>1. LoopInv(p) /\ CsvInv /\ mem[p].todo # {} /\ mem[p] \in MemType
  BY DEF FileInv, SessionInv, InLoop, SweepTypeOK
<1>2. run \in Runs /\ run.cell \in Cell /\ run = plan[NextPlace(p)] /\ NextPlace(p) \in DOMAIN plan
      /\ run.rep \in 1..Reps
  BY <1>1, NextPlaceIsLeft
<1>3. row \in CsvRow /\ row.run = run /\ row.code = code
  BY <1>2 DEF CsvRow
<1>4. /\ csv'.rows = csv.rows \cup {row} /\ csv'.first \in {"header", "row"}
      /\ Doe \/ ~cut => csv'.first = "header"
      /\ Readable' \subseteq Readable \cup {row} /\ Readable \subseteq csv.rows
      /\ Doe => Readable' = Readable \cup {row}
  BY <1>3, RowWritten DEF InLoop
<1>5. Cell' = Cell /\ (Doe' <=> Doe) /\ (\A r : DiedCapped(r)' <=> DiedCapped(r))
      /\ \A c : IsCapped(c)' <=> IsCapped(c)
  BY SameDesign
<1> HIDE DEF run
<1>6. /\ csv'.first \in {"empty", "header", "row"}
      /\ mem'[p].header => csv'.first = "empty"
      /\ (Doe' \/ ~cut') /\ csv'.first = "empty" => mem'[p].header
  BY <1>4
<1>7. ASSUME NEW c \in Cell
      PROVE  /\ prior_timeouts'[c] <= mem'[p].timeouts[c]
             /\ Doe' /\ mem'[p].timeouts[c] > 0 => prior_timeouts'[c] > 0
             /\ mem'[p].timeouts[c] > 0 => \E r \in csv'.rows : r.run.cell = c /\ r.code = 124
  <2> DEFINE T == TimedOut(c)
             U == TimedOut(c)'
             hit == code = 124 /\ c = run.cell
  <2>1. T \in SUBSET (1..Reps) /\ U \in SUBSET (1..Reps)
    BY DEF TimedOut
  <2>2. prior_timeouts[c] = Cardinality(T) /\ prior_timeouts'[c] = Cardinality(U)
    BY <1>5, PriorIs
  <2>3. U \subseteq T \cup {run.rep} /\ (~hit => U \subseteq T)
    <3>1. ASSUME NEW r \in U, r \notin T
          PROVE  r = run.rep /\ hit
      <4>1. [run |-> [cell |-> c, rep |-> r], code |-> 124] = row
        BY <1>4, <3>1 DEF TimedOut
      <4>2. QED  BY <1>3, <4>1
    <3>2. QED  BY <3>1
  <2>4. Doe => T \subseteq U /\ (hit => run.rep \in U)
    <3>1. ASSUME Doe, hit PROVE run.rep \in U
      <4>1. row = [run |-> [cell |-> c, rep |-> run.rep], code |-> 124]
        BY <1>2, <1>3, <3>1 DEF CsvRow, Runs
      <4>2. row \in Readable'
        BY <1>4, <3>1
      <4>3. QED  BY <1>2, <4>1, <4>2 DEF TimedOut
    <3>2. ASSUME Doe PROVE T \subseteq U
      BY <1>4, <3>2 DEF TimedOut
    <3>3. QED  BY <3>1, <3>2
  <2>5. /\ mem[p].timeouts[c] \in Nat /\ prior_timeouts[c] <= mem[p].timeouts[c]
        /\ Doe /\ mem[p].timeouts[c] > 0 => prior_timeouts[c] > 0
        /\ mem[p].timeouts[c] > 0 => \E r \in csv.rows : r.run.cell = c /\ r.code = 124
    BY <1>1 DEF LoopInv, MemType
  <2>6. mem'[p].timeouts[c] = IF hit THEN mem[p].timeouts[c] + 1 ELSE mem[p].timeouts[c]
    BY DEF run
  <2>7. hit => row.run.cell = c /\ row.code = 124
    BY <1>3
  <2> HIDE DEF T, U, hit
  <2>8. /\ Cardinality(T) \in Nat /\ Cardinality(U) \in Nat
        /\ Cardinality(T) > 0 <=> T # {}
        /\ Cardinality(U) > 0 <=> U # {}
        /\ Cardinality(U) <= Cardinality(T) + 1
        /\ ~hit => Cardinality(U) <= Cardinality(T)
    BY <2>1, <2>3, RepsCount
  <2>9. prior_timeouts'[c] <= mem'[p].timeouts[c]
    BY <2>2, <2>5, <2>6, <2>8
  <2>10. Doe' /\ mem'[p].timeouts[c] > 0 => prior_timeouts'[c] > 0
    <3>1. CASE hit
      BY <1>5, <2>2, <2>4, <2>8, <3>1
    <3>2. CASE ~hit
      BY <1>5, <2>2, <2>4, <2>5, <2>6, <2>8, <3>2
    <3>3. QED  BY <3>1, <3>2
  <2>11. mem'[p].timeouts[c] > 0 => \E r \in csv'.rows : r.run.cell = c /\ r.code = 124
    BY <1>4, <2>5, <2>6, <2>7
  <2>12. QED  BY <2>9, <2>10, <2>11
<1>8. /\ failed_cells' \subseteq mem'[p].failed
      /\ Doe' => mem'[p].failed \subseteq failed_cells'
      /\ \A c \in mem'[p].failed : \E r \in csv'.rows : DiedCapped(r)' /\ r.run.cell = c
  <2>1. failed_cells' = {r.run.cell : r \in {s \in Readable' : DiedCapped(s)}}
    BY <1>5 DEF failed_cells
  <2>2. failed_cells = {r.run.cell : r \in {s \in Readable : DiedCapped(s)}}
    BY DEF failed_cells
  <2>3. mem'[p].failed = IF DiedCapped(row) THEN mem[p].failed \cup {row.run.cell} ELSE mem[p].failed
    BY DEF FailedThen
  <2>4. failed_cells \subseteq mem[p].failed /\ (Doe => mem[p].failed \subseteq failed_cells)
    BY <1>1 DEF LoopInv
  <2>5. failed_cells' \subseteq mem'[p].failed
    <3>1. ASSUME NEW r \in Readable', DiedCapped(r) PROVE r.run.cell \in mem'[p].failed
      <4>1. CASE r = row
        BY <2>3, <3>1, <4>1
      <4>2. CASE r \in Readable
        BY <2>2, <2>3, <2>4, <3>1, <4>2
      <4>3. QED  BY <1>4, <4>1, <4>2
    <3>2. QED  BY <2>1, <3>1
  <2>6. Doe => mem'[p].failed \subseteq failed_cells'
    <3>1. Doe => failed_cells \subseteq failed_cells' /\ (DiedCapped(row) => row.run.cell \in failed_cells')
      BY <1>4, <2>1, <2>2
    <3>2. QED  BY <2>3, <2>4, <3>1
  <2>7. \A c \in mem'[p].failed : \E r \in csv'.rows : DiedCapped(r) /\ r.run.cell = c
    BY <1>1, <1>4, <2>3 DEF LoopInv
  <2>8. QED  BY <1>5, <2>5, <2>6, <2>7
<1>9. (\A i \in DOMAIN plan : i \in mem[p].todo \/ AccountedFor(plan[i]))'
  <2> SUFFICES ASSUME NEW i \in DOMAIN plan, i \notin mem'[p].todo PROVE AccountedFor(plan[i])'
    OBVIOUS
  <2>1. CASE i \in mem[p].todo
    <3>1. i = NextPlace(p)
      BY <2>1 DEF Rest
    <3>2. row \in csv'.rows /\ row.run = plan'[i]
      BY <1>2, <1>3, <1>4, <3>1
    <3>3. QED  BY <3>2 DEF AccountedFor
  <2>2. CASE i \notin mem[p].todo
    <3>1. AccountedFor(plan[i])
      BY <1>1, <2>2 DEF LoopInv
    <3>2. QED  BY <1>4, <1>5, <3>1 DEF AccountedFor
  <2>3. QED  BY <2>1, <2>2
<1>10. ~cut' => \A i \in mem'[p].todo : plan'[i] \notin saved'
  <2> SUFFICES ASSUME ~cut, NEW i \in mem'[p].todo PROVE plan[i] \notin saved'
    OBVIOUS
  <2>1. i \in mem[p].todo /\ i \in DOMAIN plan
    BY <1>1 DEF Rest, MemType
  <2>2. plan[i] \notin saved
    BY <1>1, <2>1 DEF LoopInv
  <2>3. code = 0 => plan[i] # run
    <3>1. code = 0 => i # NextPlace(p)
      BY DEF Rest
    <3>2. Lists(plan, Runs)
      BY DEF SweepTypeOK
    <3>3. QED  BY <1>2, <2>1, <3>1, <3>2, PlanFacts
  <2>4. QED  BY <2>2, <2>3 DEF run
<1>11. QED
  BY <1>5, <1>6, <1>7, <1>8, <1>9, <1>10 DEF LoopInv

\* A session that ends with its lock, without being cut where the CSV is not whole.
LEMMA ExitFileInv ==
  ASSUME SweepTypeOK, LockInv, FileInv, NEW p \in SwProcs, Exit(p), stage[p] \in Held \ {"upgrade"},
         UNCHANGED <<script, plan, saved>>,
         \/ csv' = Flush(p, csv) /\ UNCHANGED cut
         \/ UNCHANGED csv /\ (cut' <=> cut \/ (~Doe /\ mem[p].header))
  PROVE  FileInv'
<1>1. stage'[p] = "idle" /\ ~mem'[p].header /\ \A q \in SwProcs : q # p => stage'[q] = stage[q] /\ mem'[q] = mem[q]
  BY DEF Exit, Goto, SweepTypeOK, NoMem
<1>2. \A q \in SwProcs : q # p => SessionInv(q)'
  BY <1>1, OthersWait
<1>3. SessionInv(p)'
  BY <1>1 DEF SessionInv, InLoop
<1>4. \A q \in SwProcs : q # p => stage[q] \notin Held /\ stage'[q] \notin Held
  BY <1>1, OthersWait
<1>5. (Doe' <=> Doe) /\ CsvInv /\ SessionInv(p)
  BY SameDesign DEF FileInv
<1>6. /\ csv'.rows = csv.rows
      /\ csv'.first = csv.first \/ csv'.first = "header"
      /\ csv.first # "empty" => csv'.first = csv.first
  <2>1. mem[p].header => csv.first = "empty"
    BY <1>5 DEF SessionInv, LoopInv
  <2>2. QED  BY <2>1 DEF Flush, SweepTypeOK
<1>7. ~cut' => ~cut
  BY <1>5
<1>8. ~cut => IF csv.first = "foreign" THEN saved = {} ELSE saved \subseteq Successes(csv.rows)
  <2>1. \A q \in SwProcs : stage[q] # "upgrade"
    BY <1>4 DEF Held
  <2>2. QED  BY <1>5, <2>1 DEF CsvInv
<1>9. ~cut' /\ ~Doe => csv'.first # "empty"
  <2> SUFFICES ASSUME ~cut', ~Doe, csv.first = "empty" PROVE csv'.first = "header"
    BY <1>6
  <2>1. \E q \in SwProcs : stage[q] \in {"upgrade", "next", "run"}
    BY <1>5, <1>7 DEF CsvInv
  <2>2. stage[p] \in InLoop
    BY <1>4, <2>1 DEF Held, InLoop
  <2>3. mem[p].header
    BY <1>5, <1>7, <2>2 DEF SessionInv, LoopInv
  <2>4. QED  BY <2>3 DEF Flush, SweepTypeOK
<1>10. csv'.first \in {"absent", "empty"} => csv'.rows = {}
  BY <1>5, <1>6 DEF CsvInv
<1>11. CsvInv'
  BY <1>5, <1>6, <1>7, <1>8, <1>9, <1>10 DEF CsvInv, Successes
<1>12. QED  BY <1>2, <1>3, <1>11 DEF FileInv

LEMMA RunEndsFileInv ==
  ASSUME SweepTypeOK, LockInv, FileInv, NEW p \in SwProcs, RunEnds(p)
  PROVE  FileInv'
<1> USE DEF Goto
<1>1. stage[p] = "run" /\ stage[p] \in Held /\ UNCHANGED <<script, plan, cut>> /\ script \in SwScripts
      /\ mem[p].todo # {} /\ mem[p] \in MemType
  BY RunEndsIs DEF Held, SweepTypeOK, FileInv, SessionInv
<1>2. PICK code \in Loop.codes : RunEffect(p, code)
  BY <1>1, RunEndsIs
<1> DEFINE run == NextRun(p)
           row == [run |-> run, code |-> code]
<1>3. code \in Code /\ run \in Runs /\ row \in CsvRow
  BY <1>1, LoopFacts, NextPlaceIsLeft DEF CsvRow
<1>4. csv' = Flush(p, Write(row)) /\ saved' = IF code = 0 THEN saved \cup {run} ELSE saved
  BY <1>2 DEF RunEffect
<1>5. /\ csv'.rows = csv.rows \cup {row} /\ csv'.first \in {"header", "row"}
      /\ Doe \/ ~cut => csv'.first = "header"
  BY <1>1, <1>3, <1>4, RowWritten DEF InLoop
<1>6. (Doe' <=> Doe) /\ CsvInv
  BY <1>1, SameDesign DEF FileInv
<1>7. \A q \in SwProcs : q # p => stage[q] \notin Held
  BY <1>1, OthersWait
<1>8. CsvInv'
  <2>1. ~cut /\ csv.first # "foreign" => saved \subseteq Successes(csv.rows)
    BY <1>1, <1>6, <1>7 DEF CsvInv, Held
  <2>2. csv.first # "foreign"
    BY <1>1 DEF FileInv, SessionInv, InLoop, LoopInv
  <2>3. ~cut => saved' \subseteq Successes(csv'.rows)
    BY <1>4, <1>5, <2>1, <2>2 DEF Successes
  <2>4. QED  BY <1>1, <1>5, <1>6, <2>3 DEF CsvInv, Successes
<1>9. CASE code = 125 /\ mem' = [mem EXCEPT ![p].attempt = 2, ![p].header = FALSE]
           /\ UNCHANGED <<lock, stage, gen>>
  <2>1. mem'[p] = [mem[p] EXCEPT !.attempt = 2, !.header = FALSE]
        /\ \A q \in SwProcs : q # p => mem'[q] = mem[q]
    BY <1>9 DEF SweepTypeOK
  <2>2. /\ ~mem'[p].header /\ mem'[p].todo = mem[p].todo /\ mem'[p].failed = mem[p].failed
        /\ mem'[p].timeouts = mem[p].timeouts
    BY <1>1, <2>1 DEF MemType
  <2>3. mem'[p].failed = FailedThen(p, row)
    BY <1>9, <2>2 DEF FailedThen, DiedCapped
  <2>4. LoopInv(p)'
    <3>1. /\ \A c \in Cell : mem'[p].timeouts[c] = IF code = 124 /\ c = NextRun(p).cell
                                                    THEN mem[p].timeouts[c] + 1 ELSE mem[p].timeouts[c]
          /\ mem'[p].todo = mem[p].todo /\ code # 0
      BY <1>9, <2>2
    <3>2. row = [run |-> NextRun(p), code |-> code]
          /\ saved' = IF code = 0 THEN saved \cup {NextRun(p)} ELSE saved
      BY <1>4
    <3> HIDE DEF row, run
    <3>3. QED  BY <1>1, <1>3, <1>4, <2>2, <2>3, <3>1, <3>2, LoopAfterRun
  <2>5. SessionInv(p)'
    BY <1>1, <1>9, <2>2, <2>4 DEF SessionInv, InLoop
  <2>6. \A q \in SwProcs : q # p => SessionInv(q)'
    BY <1>1, <1>9, <2>1, OthersWait
  <2>7. QED  BY <1>8, <2>5, <2>6 DEF FileInv
<1>10. CASE Exit(p)
  <2>1. stage'[p] = "idle" /\ ~mem'[p].header /\ \A q \in SwProcs : q # p => stage'[q] = stage[q] /\ mem'[q] = mem[q]
    BY <1>10 DEF Exit, SweepTypeOK, NoMem
  <2>2. SessionInv(p)'
    BY <2>1 DEF SessionInv, InLoop
  <2>3. \A q \in SwProcs : q # p => SessionInv(q)'
    BY <1>1, <2>1, OthersWait
  <2>4. QED  BY <1>8, <2>2, <2>3 DEF FileInv
<1>11. CASE GoesOn(p, code, FailedThen(p, row), Consec(p, run, code)) /\ Goto(p, "next")
            /\ UNCHANGED <<lock, gen>>
  <2> DEFINE failed == FailedThen(p, row)
             consec == Consec(p, run, code)
  <2>1. failed \in SUBSET Cell /\ consec \in Nat
    BY <1>1, <1>3, NextPlaceIsLeft DEF FailedThen, Consec, MemType
  <2>2. GoesOn(p, code, failed, consec)
    BY <1>11
  <2> HIDE DEF failed, consec
  <2>3. MemAfter(p, code, failed)
    <3> HIDE DEF row, run
    <3>1. code \in Code /\ mem[p].todo # {}
      BY <1>1, <1>3
    <3>2. QED  BY <2>1, <2>2, <3>1, RunEndsMem
  <2>4. LoopInv(p)'
    BY <1>1, <1>3, <1>4, <2>3, LoopAfterRun DEF failed, MemAfter
  <2>5. stage'[p] = "next" /\ \A q \in SwProcs : q # p => stage'[q] = stage[q]
    BY <1>11 DEF SweepTypeOK
  <2>6. SessionInv(p)'
    BY <2>3, <2>4, <2>5 DEF SessionInv, InLoop, MemAfter
  <2>7. \A q \in SwProcs : q # p => SessionInv(q)'
    BY <1>1, <2>3, <2>5, OthersWait DEF MemAfter
  <2>8. QED  BY <1>8, <2>6, <2>7 DEF FileInv
<1>12. QED  BY <1>2, <1>9, <1>10, <1>11 DEF RunEffect

LEMMA EndFileInv ==
  ASSUME SweepTypeOK, LockInv, FileInv, NEW p \in SwProcs, Finish(p) \/ Interrupt(p) \/ Kill(p)
  PROVE  FileInv'
<1>1. Exit(p) /\ UNCHANGED <<script, plan, saved>>
  BY DEF Finish, Interrupt, Kill
<1>2. stage[p] \notin InLoop => ~mem[p].header
  BY DEF FileInv, SessionInv
<1>3. CASE stage[p] \notin Held
  <2>1. csv' = csv /\ (cut' <=> cut) /\ cut \in BOOLEAN /\ cut' \in BOOLEAN
    BY <1>2, <1>3 DEF Finish, Interrupt, Kill, Held, InLoop, Flush, SweepTypeOK
  <2>2. cut' = cut
    BY <2>1
  <2>3. QED  BY <1>1, <1>3, <2>1, <2>2, OutsideStep DEF Exit, Goto, Held, Label
<1>4. CASE stage[p] = "upgrade"
  <2>1. csv' \in Upgraded(mem[p].rows) /\ cut' /\ ~Doe /\ ~Doe'
    BY <1>1, <1>4, SameDesign DEF Finish, Interrupt, Kill, FileInv, SessionInv
  <2>2. stage'[p] = "idle" /\ ~mem'[p].header /\ \A q \in SwProcs : q # p => stage'[q] = stage[q] /\ mem'[q] = mem[q]
    BY <1>1 DEF Exit, Goto, SweepTypeOK, NoMem
  <2>3. \A q \in SwProcs : q # p => SessionInv(q)'
    BY <1>4, <2>2, OthersWait DEF Held
  <2>4. SessionInv(p)'
    BY <2>2 DEF SessionInv, InLoop
  <2>5. CsvInv'
    BY <2>1 DEF CsvInv, Upgraded, Empty
  <2>6. QED  BY <2>3, <2>4, <2>5 DEF FileInv
<1>5. CASE stage[p] \in Held \ {"upgrade"}
  <2>1. CASE Finish(p)
    BY <1>1, <1>5, <2>1, ExitFileInv DEF Finish
  <2>2. CASE Interrupt(p)
    <3>1. csv' = Flush(p, csv) /\ (cut' <=> cut) /\ cut \in BOOLEAN /\ cut' \in BOOLEAN
      BY <1>5, <2>2 DEF Interrupt, SweepTypeOK
    <3>2. cut' = cut
      BY <3>1
    <3>3. QED  BY <1>1, <1>5, <3>1, <3>2, ExitFileInv
  <2>3. CASE Kill(p)
    <3>1. csv' = csv /\ (cut' <=> cut \/ (~Doe /\ mem[p].header))
      BY <1>5, <2>3 DEF Kill
    <3>2. QED  BY <1>1, <1>5, <3>1, ExitFileInv
  <2>4. QED  BY <2>1, <2>2, <2>3
<1>6. QED  BY <1>3, <1>4, <1>5

----------------------------------------------------------------------------
LEMMA InitSweepInv == SweepInit => SweepInv
<1> SUFFICES ASSUME SweepInit PROVE SweepInv  OBVIOUS
<1> USE DEF SweepInit
<1>1. script \in SwScripts /\ 1 \in Cell /\ 1 \in 1..Reps /\ Chunks # 0
  BY DesignFacts
<1>2. Lists(plan, Runs)
  BY <1>1, PlanLists
<1>3. Earlier \subseteq CsvRow /\ csv.rows \in {{}, Earlier}
  BY <1>1 DEF Earlier, CsvRow, Runs, Code, Absent
<1>4. /\ csv.first \in {"absent", "older", "foreign"}
      /\ Doe => csv.first = "absent"
      /\ csv.first = "absent" => csv.rows = {}
  BY DEF Absent
<1>5. saved = IF csv.first = "foreign" THEN {} ELSE Successes(csv.rows)
  BY <1>3 DEF Successes, Earlier
<1>6. SweepTypeOK
  <2>1. csv \in [first : {"absent", "empty", "header", "row", "older", "foreign"}, rows : SUBSET CsvRow]
    BY <1>3 DEF Absent
  <2>2. saved \subseteq Runs
    BY <1>3, <1>5 DEF Successes, CsvRow
  <2>3. mem \in [SwProcs -> MemType] /\ gen \in [SwProcs -> [inode : {"none", "tmp", "data"}, pos : Nat]]
    BY <1>1, NoMemType DEF NoGen
  <2>4. data \in File /\ tmp \in File
    BY DEF NoData, File
  <2>5. stage \in [SwProcs -> Label]
    BY DEF Label
  <2>6. QED  BY <1>1, <1>2, <2>1, <2>2, <2>3, <2>4, <2>5 DEF SweepTypeOK
<1>7. LockInv
  BY DEF LockInv, Held
<1>8. DataInv
  <2>1. \A p \in SwProcs : gen[p].inode = "none" /\ stage[p] = "idle"
    BY DEF NoGen
  <2>2. data.len = 0
    BY DEF NoData
  <2>3. QED  BY <1>1, <2>1, <2>2 DEF DataInv, BeforeCheck
<1>9. FileInv
  <2>1. \A p \in SwProcs : stage[p] = "idle" /\ mem[p].header = FALSE
    BY DEF NoMem
  <2>2. \A p \in SwProcs : SessionInv(p)
    BY <2>1 DEF SessionInv, InLoop
  <2>3. CsvInv
    BY <1>4, <1>5 DEF CsvInv
  <2>4. QED  BY <2>2, <2>3 DEF FileInv
<1>10. QED  BY <1>6, <1>7, <1>8, <1>9 DEF SweepInv

LEMMA NextSweepInv == SweepInv /\ [SweepNext]_sweepVars => SweepInv'
<1> SUFFICES ASSUME SweepInv, [SweepNext]_sweepVars PROVE SweepInv'  OBVIOUS
<1> USE DEF SweepInv
<1>1. ASSUME NEW p \in SwProcs, Open(p) \/ SessionStep(p) \/ Interrupt(p) \/ Kill(p)
      PROVE  SweepInv'
  <2> USE <1>1
  <2>1. LockInv' /\ DataInv'
    BY LockStep, DataStep
  <2>2. SweepTypeOK'
    <3>1. stage[p] = "run" => mem[p].todo # {}
      BY DEF FileInv, SessionInv
    <3>2. QED  BY <3>1, DataStepsType, LoopStepsType, EndStepsType DEF SessionStep
  <2>3. FileInv'
    <3>1. CASE Open(p)
      <4>1. \E x \in Label \ Held : stage' = [stage EXCEPT ![p] = x]
        BY <3>1 DEF Open, Goto, Label, Held
      <4>2. UNCHANGED <<script, plan, csv, saved, cut, mem>> /\ stage[p] \notin Held
        BY <3>1 DEF Open, Held
      <4>3. QED  BY <4>1, <4>2, OutsideStep
    <3>2. CASE ensure_data(p) \/ WriteChunk(p) \/ CheckSize(p) \/ Preflight(p)
      <4>1. \E x \in Label \ Held : stage' = [stage EXCEPT ![p] = x]
        BY <3>2 DEF ensure_data, WriteChunk, CheckSize, Preflight, Exit, Goto, Label, Held
      <4>2. UNCHANGED <<script, plan, csv, saved, cut>> /\ stage[p] \notin Held
        BY <3>2 DEF ensure_data, WriteChunk, CheckSize, Preflight, Held
      <4>3. mem' = mem \/ mem' = [mem EXCEPT ![p] = NoMem]
        BY <3>2 DEF ensure_data, WriteChunk, CheckSize, Preflight, Exit
      <4>4. QED  BY <4>1, <4>2, <4>3, OutsideStep
    <3>3. QED
      BY <3>1, <3>2, LockFileInv, PrepareFileInv, LoadFileInv, TurnFileInv, RunEndsFileInv, EndFileInv
         DEF SessionStep
  <2>4. QED  BY <2>1, <2>2, <2>3
<1>2. CASE UNCHANGED sweepVars
  <2> USE DEF sweepVars, dataVars
  <2>1. UNCHANGED <<script, plan, csv, saved, cut, stage, mem>> /\ (Doe' <=> Doe)
    BY <1>2, SameDesign
  <2>2. SweepTypeOK'
    BY <1>2, SameDesign DEF SweepTypeOK, MemType
  <2>3. LockInv' /\ DataInv'
    BY <1>2, <2>1 DEF LockInv, DataInv
  <2>4. FileInv'
    BY <2>1, SessionKept DEF FileInv, CsvInv, Successes
  <2>5. QED  BY <2>2, <2>3, <2>4
<1>3. QED
  BY <1>1, <1>2 DEF SweepNext

LEMMA SweepInvariant == SweepSpec => []SweepInv
BY InitSweepInv, NextSweepInv, PTL DEF SweepSpec

----------------------------------------------------------------------------
(* The sweeps: results *)

\* Type correctness: every variable of the sweep keeps its type, and the plan lists
\* every run of the design once.
THEOREM SweepTypeCorrect == SweepSpec => []SweepTypeOK
<1>1. SweepInv => SweepTypeOK  BY DEF SweepInv
<1>2. QED  BY <1>1, SweepInvariant, PTL

\* Resuming: no session of any sweep starts a run whose success is on disk, unless a
\* session of resource_benchmark.py was cut where its CSV was not whole.
THEOREM SuccessIsNotRepeated == SweepSpec => []SavedNotRepeated
<1>1. SweepInv => SavedNotRepeated
  <2> SUFFICES ASSUME SweepInv, NEW p \in SwProcs, stage[p] = "run", ~cut
               PROVE  NextRun(p) \notin saved
    BY DEF SavedNotRepeated, SweepInv, SweepTypeOK
  <2>1. LoopInv(p) /\ mem[p].todo # {} /\ SweepTypeOK
    BY DEF SweepInv, FileInv, SessionInv, InLoop
  <2>2. NextPlace(p) \in mem[p].todo /\ NextRun(p) = plan[NextPlace(p)]
    BY <2>1, NextPlaceIsLeft
  <2>3. QED  BY <2>1, <2>2 DEF LoopInv
<1>2. QED  BY <1>1, SweepInvariant, PTL

\* At every turn of the loop what is skipped is on disk: the next session skips no cell
\* this one would try, and a doe script skips the same cells.
THEOREM SkipsSurvive == SweepSpec => []ResumeSkipsAsBefore
<1>1. SweepInv => ResumeSkipsAsBefore
  <2> SUFFICES ASSUME SweepInv, NEW p \in SwProcs, stage[p] \in InLoop, NEW c \in Cell
               PROVE  LET now == SkipsCell(mem[p].timeouts, mem[p].failed, c)
                          resumed == SkipsCell(prior_timeouts, failed_cells, c)
                      IN  (resumed => now) /\ (Doe => now = resumed)
    BY DEF ResumeSkipsAsBefore, InLoop
  <2>1. LoopInv(p) /\ SweepTypeOK
    BY DEF SweepInv, FileInv, SessionInv
  <2>2. Loop.limit \in Nat \ {0} /\ (Doe => Loop.limit = 1)
    BY <2>1, LoopFacts DEF SweepTypeOK
  <2>3. /\ mem[p].timeouts[c] \in Nat /\ prior_timeouts[c] \in Nat
        /\ prior_timeouts[c] <= mem[p].timeouts[c]
        /\ Doe /\ mem[p].timeouts[c] > 0 => prior_timeouts[c] > 0
    <3>1. prior_timeouts[c] = Cardinality(TimedOut(c)) /\ TimedOut(c) \in SUBSET (1..Reps)
      BY PriorIs DEF TimedOut
    <3>2. prior_timeouts[c] \in Nat
      BY <3>1, RepsCount
    <3>3. QED  BY <2>1, <3>2 DEF LoopInv, SweepTypeOK, MemType
  <2>4. failed_cells \subseteq mem[p].failed /\ (Doe => mem[p].failed = failed_cells)
    BY <2>1 DEF LoopInv
  <2> DEFINE now == SkipsCell(mem[p].timeouts, mem[p].failed, c)
             resumed == SkipsCell(prior_timeouts, failed_cells, c)
  <2>5. resumed => now
    BY <2>2, <2>3, <2>4 DEF SkipsCell, BelowCliff
  <2>6. Doe /\ now => resumed
    BY <2>2, <2>3, <2>4 DEF SkipsCell, BelowCliff
  <2>7. now \in BOOLEAN /\ resumed \in BOOLEAN
    BY DEF SkipsCell
  <2> HIDE DEF now, resumed
  <2>8. (resumed => now) /\ (Doe => now = resumed)
    BY <2>5, <2>6, <2>7
  <2>9. QED  BY <2>8 DEF now, resumed
<1>2. QED  BY <1>1, SweepInvariant, PTL

\* However sessions were interrupted or killed while they made the data, a run reads a
\* whole file, unless two sessions were making it at the same time.
THEOREM DataIsWhole == SweepSpec => []RunsReadWholeData
<1>1. SweepInv => RunsReadWholeData
  BY DEF SweepInv, DataInv, RunsReadWholeData, BeforeCheck
<1>2. QED  BY <1>1, SweepInvariant, PTL

\* "ALL DONE" is said when every run of the design has a row, or a row its cell is
\* skipped for, whatever happened to the sessions before.
THEOREM AllDoneIsDone == SweepSpec => AllDoneAccountsForAll
<1>1. SweepInv /\ [SweepNext]_sweepVars =>
        [\A p \in SwProcs : stage[p] = "next" /\ mem[p].todo = {} /\ stage'[p] = "idle" =>
           \A run \in Runs : \E row \in csv.rows :
             \/ row.run = run
             \/ row.run.cell = run.cell /\ row.code = 124
             \/ IsCapped(run.cell) /\ DiedCapped(row) /\ row.run.cell <= run.cell]_sweepVars
  <2> SUFFICES ASSUME SweepInv, NEW p \in SwProcs, stage[p] = "next", mem[p].todo = {}, NEW run \in Runs
               PROVE  AccountedFor(run)
    BY DEF AccountedFor
  <2>1. LoopInv(p) /\ Lists(plan, Runs)
    BY DEF SweepInv, FileInv, SessionInv, InLoop, SweepTypeOK
  <2>2. PICK i \in DOMAIN plan : plan[i] = run
    BY <2>1, PlanFacts
  <2>3. QED  BY <2>1, <2>2 DEF LoopInv
<1>2. QED
  BY <1>1, SweepInvariant, PTL DEF SweepSpec, AllDoneAccountsForAll

----------------------------------------------------------------------------
(* The evaluation of the modes: the inductive invariant *)

Attempts == Nat \ {0}
Metric == [SbWorkers -> [attempt : Nat, rounds : Nat]]

\* A run, its row in runs.csv or the manifest, its rounds in rounds.csv.
LiveRun ==
  [id : RunId, cell : Cells, budget : Budgets, attempt : Attempts, length : Attempts,
   haunted : BOOLEAN, saved : SUBSET SbWorkers, code : Int]
RunRow ==
  [id : RunId, cell : Cells, budget : Budgets, attempt : Attempts, length : Attempts,
   haunted : BOOLEAN, code : Int, from : Metric]
RoundsRow == [id : RunId, round : Nat, from : Metric]

CsvOf(R) == [first : {"absent", "empty", "header", "row"}, rows : SUBSET R]

SessionMemory ==
  [plan : SUBSET Cells, todo : SUBSET Cells, budget : Nat, done : SUBSET RunId,
   header : BOOLEAN, header2 : BOOLEAN]

BenchTypeOK ==
  /\ tool \in Tools
  /\ runs \in CsvOf(RunRow) /\ rounds \in CsvOf(RoundsRow)
  /\ files \in [RunId -> Metric]
  /\ launched \in Nat /\ opened \in Nat
  /\ last \in [RunId -> Nat]
  /\ orphans \subseteq LiveRun
  /\ at \in {"idle", "next", "run", "summary", "rounds"}
  /\ own \in SessionMemory
  /\ at # "idle" => own.budget \in Budgets
  /\ at \in {"run", "summary"} => cur \in LiveRun
  /\ at = "rounds" => tool = "logreg" /\ cur \in [id : RunId, from : Metric]
  /\ torn \in BOOLEAN

\* The run id of a row, and that attempts are numbered as they begin.
RowsInv ==
  /\ \A id \in RunId : last[id] <= launched
  /\ \A row \in runs.rows : row.id = run_id(row.cell, row.budget) /\ row.attempt <= launched

\* A run that has outlived its session or its timeout is later than every successful row
\* of its run id, unless it has been there while the row's run went on.
OrphansInv ==
  \A o \in orphans :
    /\ o.id = run_id(o.cell, o.budget)
    /\ o.attempt <= last[o.id]
    /\ \A row \in runs.rows :
         row.id = o.id /\ row.code = 0 /\ ~row.haunted => row.attempt < o.attempt

\* A module without an entry point writes nothing.
StandaloneInv ==
  ~Eval => \A id \in RunId : id[1] \in M3Cells => files[id] = NoFiles

\* The run the session is at is the latest, and alone in its directory unless haunted or
\* killed at its timeout.
LiveInv ==
  at \in {"run", "summary"} =>
    /\ cur.id = run_id(cur.cell, cur.budget) /\ cur.budget = own.budget
    /\ cur.attempt = launched /\ last[cur.id] = launched
    /\ \A row \in runs.rows : row.attempt < cur.attempt
    /\ ~cur.haunted /\ cur.code = 0 =>
         /\ \A o \in orphans : o.id # cur.id
         /\ \A w \in cur.saved : files[cur.id][w] = Output(cur)
    /\ at = "run" => cur.code = 0
    /\ at = "summary" /\ cur.code = 0 => cur.saved = SbWorkers \/ Standalone(cur.cell)

\* What is planned is still to do, under way, or has a row that serves.
Served(cell) ==
  \E row \in runs.rows : row.cell = cell /\ (tool # "logreg" => row.budget = own.budget)

PlanInv ==
  /\ own.done \subseteq {row.id : row \in runs.rows}
  /\ tool = "benchmark" => own.done = {}
  /\ at # "idle" =>
       \A cell \in own.plan :
         cell \in own.todo \/ (at \in {"run", "summary"} /\ cur.cell = cell) \/ Served(cell)

\* The rounds of a row.
RoundsFrom(row) == RoundsIn(row.id, row.from)

\* The row whose rounds the session is at.
InMemory(row) == at = "rounds" /\ cur.id = row.id /\ cur.from = row.from

\* rounds.csv has the rounds of rows and of nothing else; all of them unless a session was
\* torn, those of the last row excepted while they are in memory.
RoundsInv ==
  tool = "logreg" =>
    /\ \A s \in rounds.rows : \E row \in runs.rows : s \in RoundsFrom(row)
    /\ at = "rounds" => \E row \in runs.rows : InMemory(row)
    /\ ~torn =>
         /\ \A row \in runs.rows : InMemory(row) \/ RoundsFrom(row) \subseteq rounds.rows
         /\ CASE at = "idle" -> rounds.first \in {"absent", "header"}
              [] at # "idle" /\ own.header2 -> rounds.first = "empty"
              [] OTHER -> rounds.first = "header"
         /\ rounds.first = "absent" => runs.rows = {}

BenchInv ==
  /\ BenchTypeOK /\ RowsInv /\ OrphansInv /\ StandaloneInv /\ LiveInv
  /\ SummaryIsOwn /\ PlanInv /\ RoundsInv

----------------------------------------------------------------------------
(* Helpers *)

LEMMA RunIdType ==
  ASSUME NEW cell \in Cells, NEW budget \in Budgets
  PROVE  run_id(cell, budget) \in RunId
BY DEF run_id, RunId

\* A run id tells the cell, and for k-means the budget.
LEMMA RunIdTells ==
  ASSUME NEW c, NEW d, NEW a, NEW b, run_id(c, a) = run_id(d, b)
  PROVE  c = d /\ (tool = "kmeans" => a = b)
BY DEF run_id

\* The rows of the rounds of a file.
LEMMA RoundsInType ==
  ASSUME NEW id \in RunId, NEW from \in Metric
  PROVE  RoundsIn(id, from) \subseteq RoundsRow
<1> SUFFICES ASSUME NEW s \in RoundsIn(id, from) PROVE s \in RoundsRow  OBVIOUS
<1>1. /\ s \in [id : {id}, round : UNION {1..(from[w].rounds - 1) : w \in SbWorkers}, from : {from}]
  BY DEF RoundsIn
<1>2. PICK w \in SbWorkers : s.round \in 1..(from[w].rounds - 1)
  BY <1>1
<1>3. s.round \in Nat
  BY <1>2 DEF Metric
<1>4. QED  BY <1>1, <1>3 DEF RoundsRow

LEMMA AfterType ==
  ASSUME BenchTypeOK, at = "rounds"
  PROVE  After \subseteq RoundsRow
BY RoundsInType DEF BenchTypeOK, After

LEMMA OutputType ==
  ASSUME NEW run \in LiveRun
  PROVE  Output(run) \in [attempt : Nat, rounds : Nat]
BY DEF Output, LiveRun, Attempts

\* A flush adds rows and keeps those that are there.
LEMMA FlushAdds ==
  ASSUME NEW R, NEW file \in CsvOf(R), NEW header \in BOOLEAN, NEW rows \in SUBSET R
  PROVE  /\ Flushed(file, header, rows) \in CsvOf(R)
         /\ Flushed(file, header, rows).rows = file.rows \cup rows
BY DEF Flushed, CsvOf

LEMMA CreateKeeps ==
  ASSUME NEW R, NEW file \in CsvOf(R)
  PROVE  /\ Created(file) \in CsvOf(R)
         /\ Created(file).rows = file.rows
         /\ Created(file).first = IF file.first = "absent" THEN "empty" ELSE file.first
BY DEF Created, CsvOf

\* The rows of runs.csv have their fields.
LEMMA RowType ==
  ASSUME BenchTypeOK, NEW row \in runs.rows
  PROVE  row \in RunRow
BY DEF BenchTypeOK, CsvOf

\* A step that leaves runs.csv and the directories alone.
LEMMA RecordsKept ==
  ASSUME BenchInv, UNCHANGED <<tool, files, launched, last, orphans>>, runs'.rows = runs.rows
  PROVE  RowsInv' /\ OrphansInv' /\ StandaloneInv' /\ SummaryIsOwn'
BY DEF BenchInv, RowsInv, OrphansInv, StandaloneInv, SummaryIsOwn, Selected, Metrics, Eval,
   Standalone, run_id

----------------------------------------------------------------------------
LEMMA InitBenchInv == SyncBenchInit => BenchInv
<1> SUFFICES ASSUME SyncBenchInit PROVE BenchInv  OBVIOUS
<1> USE SyncBenchAssumption DEF SyncBenchInit, Missing
<1>1. BenchTypeOK
  BY DEF BenchTypeOK, CsvOf, Metric, NoFile, NoFiles, NoSession, SessionMemory
<1>2. RowsInv /\ OrphansInv /\ StandaloneInv /\ LiveInv /\ SummaryIsOwn
  BY DEF RowsInv, OrphansInv, StandaloneInv, LiveInv, SummaryIsOwn, Selected
<1>3. PlanInv
  BY DEF PlanInv, NoSession
<1>4. RoundsInv
  BY DEF RoundsInv
<1>5. QED
  BY <1>1, <1>2, <1>3, <1>4 DEF BenchInv

----------------------------------------------------------------------------
(* A session *)

LEMMA OpenedBenchInv ==
  ASSUME BenchInv, NEW cells \in SUBSET Cells, NEW budget \in Budgets, NEW done,
         done \subseteq {row.id : row \in runs.rows}, tool = "benchmark" => done = {},
         Opened(cells, budget, done), rounds' = IF tool = "logreg" THEN Created(rounds) ELSE rounds,
         UNCHANGED <<tool, ranVars, cur, torn>>
  PROVE  BenchInv'
<1> USE SyncBenchAssumption DEF BenchInv, Opened, ranVars
<1> DEFINE fresh == runs.first = "absent"
<1> DEFINE fresh2 == tool = "logreg" /\ rounds.first = "absent"
<1>1. /\ at = "idle" /\ at' = "next" /\ opened' = opened + 1
      /\ own' = [plan |-> cells, todo |-> cells, budget |-> budget, done |-> done,
                 header |-> fresh, header2 |-> fresh2]
  OBVIOUS
<1>11. own'.header2 = fresh2
  <2> HIDE DEF fresh2
  <2>1. QED  BY <1>1
<1>2. runs' \in CsvOf(RunRow) /\ runs'.rows = runs.rows
  BY CreateKeeps DEF BenchTypeOK
<1>3. /\ rounds' \in CsvOf(RoundsRow) /\ rounds'.rows = rounds.rows
      /\ tool = "logreg" =>
           rounds'.first = IF rounds.first = "absent" THEN "empty" ELSE rounds.first
  BY CreateKeeps DEF BenchTypeOK
<1>4. done \in SUBSET RunId
  BY RowType DEF RunRow, BenchTypeOK
<1>5. BenchTypeOK'
  <2>1. own' \in SessionMemory /\ own'.budget \in Budgets
    BY <1>1, <1>4 DEF SessionMemory
  <2>2. QED  BY <1>1, <1>2, <1>3, <2>1 DEF BenchTypeOK
<1>6. RowsInv' /\ OrphansInv' /\ StandaloneInv' /\ SummaryIsOwn'
  BY <1>2, RecordsKept
<1>7. LiveInv'
  BY <1>1 DEF LiveInv
<1>8. PlanInv'
  BY <1>1, <1>2 DEF PlanInv
<1>9. RoundsInv'
  <2> SUFFICES ASSUME tool = "logreg" PROVE RoundsInv'
    BY DEF RoundsInv
  <2>1. ~torn =>
          /\ rounds.first \in {"absent", "header"}
          /\ \A row \in runs.rows : RoundsFrom(row) \subseteq rounds.rows
    BY <1>1 DEF RoundsInv, InMemory
  <2>2. ~torn => IF own'.header2 THEN rounds'.first = "empty" ELSE rounds'.first = "header"
    <3>1. CASE rounds.first = "absent"
      <4>1. own'.header2
        BY <1>11, <3>1
      <4>2. QED  BY <1>3, <3>1, <4>1
    <3>2. CASE rounds.first # "absent"
      <4>1. ~own'.header2
        BY <1>11, <3>2
      <4>2. QED  BY <1>3, <2>1, <3>2, <4>1
    <3>3. QED  BY <3>1, <3>2
  <2>3. \A s \in rounds.rows : \E row \in runs.rows : s \in RoundsFrom(row)
    BY DEF RoundsInv
  <2>4. QED  BY <1>1, <1>2, <1>3, <2>1, <2>2, <2>3 DEF RoundsInv
<1>10. QED
  BY <1>5, <1>6, <1>7, <1>8, <1>9

LEMMA OpenBenchInv ==
  ASSUME BenchInv, NEW cells \in SUBSET Cells, NEW budget \in Budgets,
         OpenSession(cells, budget) \/ OpenBenchmark(cells, budget)
  PROVE  BenchInv'
<1>1. CASE OpenSession(cells, budget)
  <2>1. done_ids \subseteq {row.id : row \in runs.rows}
    BY DEF done_ids, ReadRows
  <2>2. QED  BY <1>1, <2>1, OpenedBenchInv DEF OpenSession, Eval
<1>2. CASE OpenBenchmark(cells, budget)
  BY <1>2, OpenedBenchInv DEF OpenBenchmark, Eval
<1>3. QED
  BY <1>1, <1>2

\* What a session leaves out has a row of its run id.
LEMMA SkipBenchInv ==
  ASSUME BenchInv, NEW cell \in Cells, SkipDone(cell)
  PROVE  BenchInv'
<1> USE DEF BenchInv, SkipDone, ranVars
<1>1. /\ at = "next" /\ own' = [own EXCEPT !.todo = @ \ {cell}] /\ own \in SessionMemory
      /\ run_id(cell, own.budget) \in own.done
  BY DEF BenchTypeOK
<1>2. /\ own' \in SessionMemory /\ own'.plan = own.plan /\ own'.todo = own.todo \ {cell}
      /\ own'.budget = own.budget /\ own'.done = own.done /\ own'.header2 = own.header2
  BY <1>1 DEF SessionMemory
<1>3. BenchTypeOK'
  BY <1>2 DEF BenchTypeOK
<1>4. RowsInv' /\ OrphansInv' /\ StandaloneInv' /\ SummaryIsOwn'
  BY RecordsKept
<1>5. LiveInv'
  BY <1>1 DEF LiveInv
<1>6. Served(cell)
  <2>1. PICK row \in runs.rows : row.id = run_id(cell, own.budget)
    BY <1>1 DEF PlanInv
  <2>2. row.cell = cell /\ (tool = "kmeans" => row.budget = own.budget)
    BY <2>1, RunIdTells DEF RowsInv
  <2>3. tool \in {"logreg", "kmeans"}
    BY <1>1, SyncBenchAssumption DEF PlanInv, BenchTypeOK
  <2>4. QED  BY <2>2, <2>3 DEF Served
<1>7. PlanInv'
  BY <1>1, <1>2, <1>6 DEF PlanInv, Served
<1>8. RoundsInv'
  BY <1>1, <1>2 DEF RoundsInv, InMemory
<1>9. QED
  BY <1>3, <1>4, <1>5, <1>7, <1>8

----------------------------------------------------------------------------
(* A run *)

LEMMA LaunchedBenchInv ==
  ASSUME BenchInv, NEW cell \in Cells, Launched(cell, run_id(cell, own.budget)),
         UNCHANGED <<tool, runs, rounds, files, orphans, opened, torn>>
  PROVE  BenchInv'
<1> DEFINE id == run_id(cell, own.budget)
<1> USE DEF BenchInv
<1>1. /\ at = "next" /\ at' = "run" /\ launched' = launched + 1 /\ launched \in Nat
      /\ last' = [last EXCEPT ![id] = launched + 1] /\ last \in [RunId -> Nat]
      /\ own' = [own EXCEPT !.todo = @ \ {cell}] /\ own \in SessionMemory /\ own.budget \in Budgets
      /\ \E length \in 1..own.budget :
           cur' = [id |-> id, cell |-> cell, budget |-> own.budget, attempt |-> launched + 1,
                   length |-> length, haunted |-> \E o \in orphans : o.id = id,
                   saved |-> {}, code |-> 0]
  BY DEF Launched, BenchTypeOK
<1>14. PICK length \in 1..own.budget :
         cur' = [id |-> id, cell |-> cell, budget |-> own.budget, attempt |-> launched + 1,
                 length |-> length, haunted |-> \E o \in orphans : o.id = id,
                 saved |-> {}, code |-> 0]
  BY <1>1
<1>15. length \in Attempts
  BY <1>1, SyncBenchAssumption DEF Attempts
<1>2. /\ own' \in SessionMemory /\ own'.plan = own.plan /\ own'.todo = own.todo \ {cell}
      /\ own'.budget = own.budget /\ own'.done = own.done /\ own'.header2 = own.header2
  BY <1>1 DEF SessionMemory
<1>3. id \in RunId
  BY <1>1, RunIdType
<1>4. cur' \in LiveRun
  BY <1>1, <1>3, <1>14, <1>15 DEF LiveRun, Attempts
<1>5. /\ last' \in [RunId -> Nat] /\ last'[id] = launched + 1
      /\ \A i \in RunId : i # id => last'[i] = last[i]
  BY <1>1, <1>3
<1>6. BenchTypeOK'
  BY <1>1, <1>2, <1>4, <1>5 DEF BenchTypeOK
<1>7. RowsInv'
  <2>1. \A i \in RunId : last'[i] <= launched'
    BY <1>1, <1>5 DEF RowsInv
  <2>2. \A row \in runs.rows : row.attempt \in Nat
    BY RowType DEF RunRow, Attempts
  <2>3. QED  BY <1>1, <2>1, <2>2 DEF RowsInv, run_id
<1>8. OrphansInv'
  <2>1. \A o \in orphans : o.id \in RunId /\ o.attempt \in Nat /\ last[o.id] <= launched
    BY DEF BenchTypeOK, LiveRun, Attempts, RowsInv
  <2>2. \A o \in orphans : o.attempt <= last'[o.id]
    BY <1>1, <1>5, <2>1 DEF OrphansInv
  <2>3. QED  BY <2>2 DEF OrphansInv, run_id
<1>9. LiveInv'
  <2>1. \A row \in runs.rows : row.attempt < launched + 1
    BY <1>1, RowType DEF RowsInv, RunRow, Attempts
  <2>2. QED  BY <1>1, <1>2, <1>5, <1>14, <2>1 DEF LiveInv, run_id
<1>10. SummaryIsOwn'
  <2> SUFFICES ASSUME NEW row \in Selected, ~row.haunted, Eval \/ last'[row.id] = row.attempt
               PROVE  Metrics(row) = IF Standalone(row.cell) THEN NoFiles ELSE OwnOutput(row)
    BY DEF SummaryIsOwn, Selected, Metrics, Eval, Standalone
  <2>1. row \in runs.rows /\ row.id \in RunId /\ row.attempt \in Nat /\ row.attempt <= launched
    BY RowType DEF Selected, RunRow, Attempts, RowsInv
  <2>2. Eval \/ last[row.id] = row.attempt
    BY <1>1, <1>5, <2>1
  <2>3. QED  BY <2>2 DEF SummaryIsOwn
<1>11. PlanInv' /\ StandaloneInv'
  BY <1>1, <1>2, <1>14 DEF PlanInv, Served, StandaloneInv, Eval
<1>12. RoundsInv'
  BY <1>1, <1>2 DEF RoundsInv, InMemory
<1>13. QED
  BY <1>6, <1>7, <1>8, <1>9, <1>10, <1>11, <1>12

\* A worker writes into the directory of its run, which is of no row whose metrics are read
\* from there.
LEMMA WorkerSavesBenchInv ==
  ASSUME BenchInv, NEW w \in SbWorkers, WorkerSaves(w)
  PROVE  BenchInv'
<1> USE DEF BenchInv, WorkerSaves
<1>1. /\ at = "run" /\ cur \in LiveRun /\ cur' = [cur EXCEPT !.saved = @ \cup {w}]
      /\ files \in [RunId -> Metric] /\ ~Standalone(cur.cell)
      /\ files' = [files EXCEPT ![cur.id][w] = Output(cur)]
  BY DEF BenchTypeOK, Saved
<1>2. /\ cur' \in LiveRun /\ cur'.saved = cur.saved \cup {w}
      /\ cur'.id = cur.id /\ cur'.cell = cur.cell /\ cur'.budget = cur.budget
      /\ cur'.attempt = cur.attempt /\ cur'.haunted = cur.haunted /\ cur'.code = cur.code
      /\ Output(cur') = Output(cur)
  BY <1>1 DEF LiveRun, Output
<1>3. cur.id \in RunId /\ Output(cur) \in [attempt : Nat, rounds : Nat]
  BY <1>1, OutputType DEF LiveRun
<1>4. /\ files' \in [RunId -> Metric]
      /\ \A i \in RunId : i # cur.id => files'[i] = files[i]
      /\ files'[cur.id] = [files[cur.id] EXCEPT ![w] = Output(cur)]
  <2>1. files[cur.id] \in Metric
    BY <1>1, <1>3
  <2>2. [files[cur.id] EXCEPT ![w] = Output(cur)] \in Metric
    BY <1>3, <2>1 DEF Metric
  <2>3. QED  BY <1>1, <1>3, <2>2
<1>5. \A v \in SbWorkers : files'[cur.id][v] = IF v = w THEN Output(cur) ELSE files[cur.id][v]
  BY <1>1, <1>3, <1>4 DEF Metric
<1>6. BenchTypeOK'
  BY <1>1, <1>2, <1>4 DEF BenchTypeOK
<1>7. RowsInv' /\ OrphansInv' /\ StandaloneInv'
  <2>1. RowsInv' /\ OrphansInv'
    BY DEF RowsInv, OrphansInv, run_id
  <2>2. ~Eval => cur.id[1] \notin M3Cells
    BY <1>1 DEF LiveInv, run_id, Standalone
  <2>3. StandaloneInv'
    BY <1>4, <2>2 DEF StandaloneInv, Eval
  <2>4. QED  BY <2>1, <2>3
<1>8. LiveInv'
  <2> SUFFICES /\ cur'.id = run_id(cur'.cell, cur'.budget) /\ cur'.budget = own.budget
               /\ cur'.attempt = launched /\ last[cur'.id] = launched
               /\ \A row \in runs.rows : row.attempt < cur'.attempt
               /\ ~cur'.haunted =>
                    /\ \A o \in orphans : o.id # cur'.id
                    /\ \A v \in cur'.saved : files'[cur'.id][v] = Output(cur')
               /\ cur'.code = 0
    BY <1>1 DEF LiveInv, run_id
  <2>1. ~cur.haunted => \A v \in cur'.saved : files'[cur.id][v] = Output(cur)
    BY <1>1, <1>2, <1>5 DEF LiveInv, LiveRun
  <2>2. QED  BY <1>1, <1>2, <2>1 DEF LiveInv
<1>9. SummaryIsOwn'
  <2> SUFFICES ASSUME NEW row \in Selected, ~row.haunted, Eval \/ last[row.id] = row.attempt
               PROVE  (IF Eval THEN row.from ELSE files'[row.id])
                        = IF Standalone(row.cell) THEN NoFiles ELSE OwnOutput(row)
    BY DEF SummaryIsOwn, Selected, Metrics, Eval, Standalone
  <2>1. row \in runs.rows /\ row.id \in RunId /\ row.attempt \in Nat
    BY RowType DEF Selected, RunRow, Attempts
  <2>2. Metrics(row) = IF Standalone(row.cell) THEN NoFiles ELSE OwnOutput(row)
    BY DEF SummaryIsOwn
  <2>3. ~Eval => row.id # cur.id
    BY <1>1, <1>3, <2>1 DEF LiveInv
  <2>4. QED  BY <1>4, <2>1, <2>2, <2>3 DEF Metrics
<1>10. PlanInv' /\ RoundsInv'
  BY <1>1, <1>2 DEF PlanInv, RoundsInv, InMemory, Served
<1>11. QED
  BY <1>6, <1>7, <1>8, <1>9, <1>10

\* A run that has outlived its session writes into the directory of a haunted run only, or
\* of one that is not the last there.
LEMMA OrphanSavesBenchInv ==
  ASSUME BenchInv, NEW o \in orphans, NEW w \in SbWorkers, OrphanSaves(o, w)
  PROVE  BenchInv'
<1> DEFINE p == Saved(o, w)
<1> USE DEF BenchInv, OrphanSaves
<1>1. /\ o \in LiveRun /\ orphans' = (orphans \ {o}) \cup {p}
      /\ files \in [RunId -> Metric] /\ files' = [files EXCEPT ![o.id][w] = Output(o)]
      /\ ~Standalone(o.cell)
  BY DEF BenchTypeOK
<1>2. p \in LiveRun /\ p.id = o.id /\ p.attempt = o.attempt /\ p.cell = o.cell /\ p.budget = o.budget
  BY <1>1 DEF LiveRun, Saved
<1>3. o.id \in RunId /\ Output(o) \in [attempt : Nat, rounds : Nat]
  BY <1>1, OutputType DEF LiveRun
<1>4. /\ files' \in [RunId -> Metric]
      /\ \A i \in RunId : i # o.id => files'[i] = files[i]
  BY <1>1, <1>3 DEF Metric
<1>5. BenchTypeOK'
  BY <1>1, <1>2, <1>4 DEF BenchTypeOK
<1>6. RowsInv' /\ OrphansInv' /\ StandaloneInv'
  <2>1. RowsInv' /\ OrphansInv'
    BY <1>1, <1>2 DEF RowsInv, OrphansInv, run_id
  <2>2. ~Eval => o.id[1] \notin M3Cells
    BY <1>1 DEF OrphansInv, run_id, Standalone
  <2>3. StandaloneInv'
    BY <1>4, <2>2 DEF StandaloneInv, Eval
  <2>4. QED  BY <2>1, <2>3
<1>7. LiveInv'
  <2> SUFFICES ASSUME at \in {"run", "summary"}, ~cur.haunted, cur.code = 0
               PROVE  /\ \A q \in orphans' : q.id # cur.id
                      /\ \A v \in cur.saved : files'[cur.id][v] = Output(cur)
    BY DEF LiveInv, run_id, Standalone, Eval
  <2>1. cur.id \in RunId /\ o.id # cur.id
    BY DEF LiveInv, BenchTypeOK, LiveRun
  <2>2. QED  BY <1>1, <1>2, <1>4, <2>1 DEF LiveInv
<1>8. SummaryIsOwn'
  <2> SUFFICES ASSUME NEW row \in Selected, ~row.haunted, Eval \/ last[row.id] = row.attempt
               PROVE  (IF Eval THEN row.from ELSE files'[row.id])
                        = IF Standalone(row.cell) THEN NoFiles ELSE OwnOutput(row)
    BY DEF SummaryIsOwn, Selected, Metrics, Eval, Standalone
  <2>1. row \in runs.rows /\ row.id \in RunId /\ row.attempt \in Nat /\ row.code = 0
    BY RowType DEF Selected, RunRow, Attempts
  <2>2. Metrics(row) = IF Standalone(row.cell) THEN NoFiles ELSE OwnOutput(row)
    BY DEF SummaryIsOwn
  <2>3. ~Eval => row.id # o.id
    BY <1>1, <1>3, <2>1 DEF OrphansInv, BenchTypeOK, LiveRun, Attempts
  <2>4. QED  BY <1>4, <2>1, <2>2, <2>3 DEF Metrics
<1>9. PlanInv' /\ RoundsInv'
  BY DEF PlanInv, RoundsInv, InMemory, Served
<1>10. QED
  BY <1>5, <1>6, <1>7, <1>8, <1>9

LEMMA OrphanEndsBenchInv ==
  ASSUME BenchInv, NEW o \in orphans, OrphanEnds(o)
  PROVE  BenchInv'
<1> USE DEF BenchInv, OrphanEnds
<1>1. BenchTypeOK'
  BY DEF BenchTypeOK
<1>2. RowsInv' /\ OrphansInv' /\ StandaloneInv' /\ LiveInv'
  BY DEF RowsInv, OrphansInv, StandaloneInv, LiveInv, run_id, Standalone, Eval
<1>3. SummaryIsOwn' /\ PlanInv' /\ RoundsInv'
  BY DEF SummaryIsOwn, Selected, Metrics, Eval, Standalone, PlanInv, Served, RoundsInv, InMemory
<1>4. QED
  BY <1>1, <1>2, <1>3

\* The run the session is at may go on without it.
LEMMA CurJoinsOrphans ==
  ASSUME BenchInv, at = "run", UNCHANGED <<tool, last>>,
         orphans' = orphans \/ orphans' = orphans \cup {cur},
         \A row \in runs'.rows : row \in runs.rows \/ row.code # 0
  PROVE  OrphansInv'
<1>1. /\ cur.id = run_id(cur.cell, cur.budget) /\ cur.attempt <= last[cur.id]
      /\ \A row \in runs.rows : row.attempt < cur.attempt
  BY DEF BenchInv, BenchTypeOK, LiveInv
<1>2. QED
  BY <1>1 DEF BenchInv, OrphansInv, run_id

LEMMA EndsBenchInv ==
  ASSUME BenchInv, LaunchEnds \/ StreamEnds
  PROVE  BenchInv'
<1> USE DEF BenchInv
<1>1. UNCHANGED <<tool, runs, rounds, files, launched, last, opened, own, torn>>
  BY DEF LaunchEnds, StreamEnds
<1>2. PICK code \in {0, 1, 124} :
        /\ EndsWith(code)
        /\ code = 0 => cur.saved = SbWorkers \/ Standalone(cur.cell)
        /\ orphans' = orphans \/ (code # 0 /\ orphans' = orphans \cup {cur})
  <2>1. CASE Ends
    BY <2>1 DEF Ends
  <2>2. CASE EndsWith(124) /\ MayBeOrphaned
    BY <2>2 DEF MayBeOrphaned
  <2>3. QED  BY <2>1, <2>2 DEF LaunchEnds, StreamEnds
<1>3. at = "run" /\ at' = "summary" /\ cur \in LiveRun /\ cur' = [cur EXCEPT !.code = code]
  BY <1>2 DEF EndsWith, BenchTypeOK
<1>4. /\ cur' \in LiveRun /\ cur'.saved = cur.saved /\ cur'.code = code
      /\ cur'.id = cur.id /\ cur'.cell = cur.cell /\ cur'.budget = cur.budget
      /\ cur'.attempt = cur.attempt /\ cur'.haunted = cur.haunted
      /\ Output(cur') = Output(cur)
  BY <1>2, <1>3 DEF LiveRun, Output
<1>5. BenchTypeOK'
  BY <1>1, <1>2, <1>3, <1>4 DEF BenchTypeOK
<1>6. RowsInv' /\ OrphansInv' /\ StandaloneInv' /\ SummaryIsOwn'
  <2>1. RowsInv' /\ StandaloneInv' /\ SummaryIsOwn'
    BY <1>1 DEF RowsInv, StandaloneInv, SummaryIsOwn, Selected, Metrics, Eval, Standalone, run_id
  <2>2. OrphansInv'
    BY <1>1, <1>2, <1>3, CurJoinsOrphans
  <2>3. QED  BY <2>1, <2>2
<1>7. LiveInv'
  BY <1>1, <1>2, <1>3, <1>4 DEF LiveInv, run_id, Standalone, Eval
<1>8. PlanInv' /\ RoundsInv'
  BY <1>1, <1>3, <1>4 DEF PlanInv, RoundsInv, InMemory, Served
<1>9. QED
  BY <1>5, <1>6, <1>7, <1>8

----------------------------------------------------------------------------
(* The row of a run *)

\* The session adds the row of the run it is at to runs.csv, with whatever its directory
\* holds.  Then the run is over.
LEMMA RowAdded ==
  ASSUME BenchInv, at \in {"run", "summary"}, NEW code \in Int, NEW from \in Metric,
         at = "run" => code # 0,
         at = "summary" => code = cur.code,
         Eval => from = files[cur.id],
         runs' \in CsvOf(RunRow), runs'.rows = runs.rows \cup {Row(code, from)},
         UNCHANGED <<tool, files, launched, last>>,
         orphans' = orphans \/ (at = "run" /\ orphans' = orphans \cup {cur})
  PROVE  RowsInv' /\ OrphansInv' /\ StandaloneInv' /\ SummaryIsOwn'
<1> DEFINE new == Row(code, from)
<1> USE DEF BenchInv
<1>1. /\ cur \in LiveRun /\ new.id = cur.id /\ new.cell = cur.cell /\ new.budget = cur.budget
      /\ new.attempt = cur.attempt /\ new.haunted = cur.haunted /\ new.code = code /\ new.from = from
      /\ OwnOutput(new) = [w \in SbWorkers |-> Output(cur)]
  BY DEF BenchTypeOK, Row, OwnOutput, Output
<1>2. RowsInv' /\ StandaloneInv'
  BY <1>1 DEF RowsInv, StandaloneInv, Eval, LiveInv, run_id, LiveRun, Attempts, BenchTypeOK
<1>3. OrphansInv'
  <2>1. CASE at = "run"
    BY <1>1, <2>1, CurJoinsOrphans
  <2>2. CASE at = "summary"
    BY <1>1, <2>2 DEF OrphansInv, LiveInv, run_id
  <2>3. QED  BY <2>1, <2>2
<1>4. SummaryIsOwn'
  <2>1. ASSUME code = 0, ~cur.haunted
        PROVE  files[cur.id] = IF Standalone(cur.cell) THEN NoFiles ELSE OwnOutput(new)
    <3>1. CASE Standalone(cur.cell)
      <4>1. cur.id \in RunId /\ cur.id[1] = cur.cell
        BY DEF LiveInv, run_id, LiveRun, BenchTypeOK
      <4>2. QED  BY <3>1, <4>1 DEF StandaloneInv, Standalone
    <3>2. CASE ~Standalone(cur.cell)
      <4>1. \A w \in SbWorkers : files[cur.id][w] = Output(cur)
        BY <2>1, <3>2 DEF LiveInv
      <4>2. files[cur.id] \in Metric
        BY <1>1 DEF BenchTypeOK, LiveRun
      <4>3. QED  BY <1>1, <3>2, <4>1, <4>2 DEF Metric
    <3>3. QED  BY <3>1, <3>2
  <2> SUFFICES ASSUME NEW row \in Selected', ~row.haunted, Eval \/ last[row.id] = row.attempt
               PROVE  Metrics(row) = IF Standalone(row.cell) THEN NoFiles ELSE OwnOutput(row)
    BY DEF SummaryIsOwn, Selected, Metrics, Eval, Standalone
  <2>2. CASE row \in Selected
    BY <2>2 DEF SummaryIsOwn
  <2>3. CASE row = new /\ new.code = 0
    BY <1>1, <2>1, <2>3 DEF Metrics
  <2>4. QED  BY <2>2, <2>3 DEF Selected
<1>5. QED
  BY <1>2, <1>3, <1>4

LEMMA RowFlushed ==
  ASSUME BenchInv, NEW from \in Metric, FlushRow(from)
  PROVE  /\ cur \in LiveRun /\ at = "summary" /\ cur.code \in Int
         /\ runs' \in CsvOf(RunRow) /\ runs'.rows = runs.rows \cup {Row(cur.code, from)}
         /\ own' \in SessionMemory /\ own'.plan = own.plan /\ own'.todo = own.todo
         /\ own'.budget = own.budget /\ own'.done = own.done /\ own'.header2 = own.header2
<1> USE DEF BenchInv, FlushRow
<1>1. /\ cur \in LiveRun /\ cur.code \in Int /\ own \in SessionMemory /\ own.header \in BOOLEAN
      /\ runs \in CsvOf(RunRow)
  BY DEF BenchTypeOK, LiveRun, SessionMemory
<1>2. Row(cur.code, from) \in RunRow
  BY <1>1 DEF Row, RunRow, LiveRun
<1>3. runs' \in CsvOf(RunRow) /\ runs'.rows = runs.rows \cup {Row(cur.code, from)}
  BY <1>1, <1>2, FlushAdds
<1>4. own' = [own EXCEPT !.header = FALSE]
  OBVIOUS
<1>5. QED
  BY <1>1, <1>3, <1>4 DEF SessionMemory

\* The row serves the cell that was under way.
LEMMA RowServes ==
  ASSUME BenchInv, NEW from \in Metric, FlushRow(from), at' \in {"next", "rounds"}, UNCHANGED tool
  PROVE  PlanInv'
<1> USE DEF BenchInv
<1>1. /\ at = "summary" /\ runs'.rows = runs.rows \cup {Row(cur.code, from)}
      /\ own'.plan = own.plan /\ own'.todo = own.todo
      /\ own'.budget = own.budget /\ own'.done = own.done
  BY RowFlushed
<1>2. Row(cur.code, from).cell = cur.cell /\ Row(cur.code, from).budget = own.budget
  BY <1>1 DEF Row, LiveInv
<1>3. \A cell : cell = cur.cell => Served(cell)'
  BY <1>1, <1>2 DEF Served
<1>4. \A cell : Served(cell) => Served(cell)'
  BY <1>1 DEF Served
<1>5. QED
  BY <1>1, <1>3, <1>4 DEF PlanInv

LEMMA DirectoryType ==
  ASSUME BenchInv, at \in {"run", "summary"}
  PROVE  cur.id \in RunId /\ files[cur.id] \in Metric
BY DEF BenchInv, BenchTypeOK, LiveRun

LEMMA NoFilesType == NoFiles \in Metric
BY DEF NoFile, NoFiles, Metric

LEMMA SummariseBenchInv ==
  ASSUME BenchInv, Summarise
  PROVE  BenchInv'
<1> DEFINE from == load_rounds
<1> USE DEF BenchInv, Summarise
<1>1. from \in Metric
  BY DirectoryType DEF FlushRow, load_rounds
<1>2. /\ cur \in LiveRun /\ at = "summary" /\ at' = "rounds" /\ cur.code \in Int
      /\ runs' \in CsvOf(RunRow) /\ runs'.rows = runs.rows \cup {Row(cur.code, from)}
      /\ own' \in SessionMemory /\ own'.budget = own.budget /\ own'.header2 = own.header2
      /\ cur' = [id |-> cur.id, from |-> from]
  BY <1>1, RowFlushed
<1>3. BenchTypeOK'
  <2>1. cur' \in [id : RunId, from : Metric]
    BY <1>1, <1>2 DEF LiveRun
  <2>2. QED  BY <1>2, <2>1 DEF BenchTypeOK, ranVars
<1>4. RowsInv' /\ OrphansInv' /\ StandaloneInv' /\ SummaryIsOwn'
  BY <1>1, <1>2, RowAdded DEF load_rounds, ranVars
<1>5. LiveInv'
  BY <1>2 DEF LiveInv
<1>6. PlanInv'
  BY <1>1, <1>2, RowServes
<1>7. RoundsInv'
  <2> DEFINE new == Row(cur.code, from)
  <2>1. new \in runs'.rows /\ at' = "rounds" /\ cur'.id = new.id /\ cur'.from = new.from
    BY <1>2 DEF Row
  <2>2. at # "rounds"
    BY <1>2
  <2>3. \A row \in runs'.rows : row \in runs.rows \/ row = new
    BY <1>2
  <2> HIDE DEF new
  <2>4. QED  BY <1>2, <2>1, <2>2, <2>3 DEF RoundsInv, InMemory
<1>8. QED
  BY <1>3, <1>4, <1>5, <1>6, <1>7

LEMMA SummariseOtherBenchInv ==
  ASSUME BenchInv, SummariseKMeans \/ AppendRow
  PROVE  BenchInv'
<1> DEFINE from == IF Eval THEN load_kmeans_rounds ELSE NoFiles
<1> USE DEF BenchInv
<1>1. /\ FlushRow(from) /\ tool # "logreg" /\ at' = "next"
      /\ UNCHANGED <<tool, rounds, ranVars, opened, torn>>
  BY DEF SummariseKMeans, AppendRow, Eval
<1>2. from \in Metric
  BY <1>1, DirectoryType, NoFilesType DEF FlushRow, load_kmeans_rounds
<1>3. /\ cur \in LiveRun /\ at = "summary" /\ cur.code \in Int
      /\ runs' \in CsvOf(RunRow) /\ runs'.rows = runs.rows \cup {Row(cur.code, from)}
      /\ own' \in SessionMemory /\ own'.budget = own.budget
  BY <1>1, <1>2, RowFlushed
<1>4. BenchTypeOK'
  BY <1>1, <1>3 DEF BenchTypeOK, ranVars
<1>5. RowsInv' /\ OrphansInv' /\ StandaloneInv' /\ SummaryIsOwn'
  BY <1>1, <1>2, <1>3, RowAdded DEF load_kmeans_rounds, ranVars
<1>6. LiveInv' /\ RoundsInv'
  BY <1>1 DEF LiveInv, RoundsInv
<1>7. PlanInv'
  BY <1>1, <1>2, RowServes
<1>8. QED
  BY <1>4, <1>5, <1>6, <1>7

\* The rounds follow their row.
LEMMA FlushRoundsBenchInv ==
  ASSUME BenchInv, FlushRounds
  PROVE  BenchInv'
<1> USE DEF BenchInv, FlushRounds
<1>1. /\ at = "rounds" /\ at' = "next" /\ tool = "logreg"
      /\ own \in SessionMemory /\ rounds \in CsvOf(RoundsRow) /\ own.header2 \in BOOLEAN
      /\ own' = [own EXCEPT !.header2 = FALSE]
  BY DEF BenchTypeOK, SessionMemory
<1>2. After \in SUBSET RoundsRow
  BY <1>1, AfterType
<1>3. /\ rounds' \in CsvOf(RoundsRow) /\ rounds'.rows = rounds.rows \cup After
  BY <1>1, <1>2, FlushAdds
<1>4. own' \in SessionMemory /\ own'.plan = own.plan /\ own'.todo = own.todo
      /\ own'.budget = own.budget /\ own'.done = own.done /\ own'.header2 = FALSE
  BY <1>1 DEF SessionMemory
<1>5. BenchTypeOK'
  BY <1>1, <1>3, <1>4 DEF BenchTypeOK, ranVars
<1>6. RowsInv' /\ OrphansInv' /\ StandaloneInv' /\ SummaryIsOwn'
  BY RecordsKept DEF ranVars
<1>7. LiveInv' /\ PlanInv'
  BY <1>1, <1>4 DEF LiveInv, PlanInv, Served
<1>8. RoundsInv'
  <2>1. PICK row \in runs.rows : RoundsFrom(row) = After
    BY <1>1 DEF RoundsInv, InMemory, RoundsFrom, After
  <2>2. \A s \in rounds'.rows : \E r \in runs.rows : s \in RoundsFrom(r)
    BY <1>1, <1>3, <2>1 DEF RoundsInv
  <2>3. ASSUME ~torn, NEW r \in runs.rows
        PROVE  RoundsFrom(r) \subseteq rounds'.rows
    <3>1. CASE InMemory(r)
      BY <1>3, <3>1 DEF InMemory, After, RoundsFrom
    <3>2. CASE ~InMemory(r)
      BY <1>1, <1>3, <2>3, <3>2 DEF RoundsInv
    <3>3. QED  BY <3>1, <3>2
  <2>4. ~torn => rounds'.first = "header"
    BY <1>1 DEF RoundsInv, Flushed
  <2>5. QED  BY <1>1, <1>4, <2>2, <2>3, <2>4 DEF RoundsInv
<1>9. QED
  BY <1>5, <1>6, <1>7, <1>8

----------------------------------------------------------------------------
(* The end of a session *)

\* Without a session there is nothing to say of it.
LEMMA BenchSessionEnd ==
  ASSUME BenchInv, EndSession, UNCHANGED tool
  PROVE  /\ LiveInv' /\ PlanInv' /\ own' \in SessionMemory /\ at' = "idle"
<1>1. own' = NoSession /\ at' = "idle"
  BY DEF EndSession
<1>2. QED  BY <1>1 DEF LiveInv, PlanInv, NoSession, SessionMemory

\* The flush of rounds.csv that goes with it, with or without the rounds in memory.
LEMMA RoundsClosed ==
  ASSUME BenchInv, at # "idle", NEW rows \in SUBSET After, at # "rounds" => rows = {},
         rounds' = Flushed(rounds, own.header2, rows),
         runs'.rows = runs.rows, at' = "idle", UNCHANGED tool,
         ~torn' => ~torn /\ (at = "rounds" => rows = After)
  PROVE  rounds' \in CsvOf(RoundsRow) /\ RoundsInv'
<1> USE DEF BenchInv
<1>1. /\ rounds \in CsvOf(RoundsRow) /\ own.header2 \in BOOLEAN /\ rows \in SUBSET RoundsRow
  BY AfterType DEF BenchTypeOK, SessionMemory
<1>2. rounds' \in CsvOf(RoundsRow) /\ rounds'.rows = rounds.rows \cup rows
  BY <1>1, FlushAdds
<1>3. CASE tool = "logreg"
  <2>1. \A s \in rounds'.rows : \E r \in runs.rows : s \in RoundsFrom(r)
    <3>1. at = "rounds" => \E r \in runs.rows : RoundsFrom(r) = After
      BY <1>3 DEF RoundsInv, InMemory, RoundsFrom, After
    <3>2. QED  BY <1>2, <1>3, <3>1 DEF RoundsInv
  <2>2. ASSUME ~torn', NEW r \in runs.rows
        PROVE  RoundsFrom(r) \subseteq rounds'.rows
    <3>1. CASE InMemory(r)
      BY <1>2, <2>2, <3>1 DEF InMemory, After, RoundsFrom
    <3>2. CASE ~InMemory(r)
      BY <1>2, <1>3, <2>2, <3>2 DEF RoundsInv
    <3>3. QED  BY <3>1, <3>2
  <2>3. ~torn' => rounds'.first = "header"
    BY <1>3 DEF RoundsInv, Flushed
  <2>4. QED  BY <1>2, <1>3, <2>1, <2>2, <2>3 DEF RoundsInv
<1>4. QED
  BY <1>2, <1>3 DEF RoundsInv

LEMMA CloseBenchInv ==
  ASSUME BenchInv, CloseSession
  PROVE  BenchInv'
<1> USE DEF BenchInv, CloseSession
<1>1. runs' \in CsvOf(RunRow) /\ runs'.rows = runs.rows
  <2>1. runs \in CsvOf(RunRow) /\ own.header \in BOOLEAN /\ {} \in SUBSET RunRow
    BY DEF BenchTypeOK, SessionMemory
  <2>2. runs' = Flushed(runs, own.header, {})
    OBVIOUS
  <2>3. QED  BY <2>1, <2>2 DEF Flushed, CsvOf
<1>2. LiveInv' /\ PlanInv' /\ own' \in SessionMemory /\ at' = "idle"
  BY BenchSessionEnd
<1>3. rounds' \in CsvOf(RoundsRow) /\ RoundsInv'
  BY <1>1, <1>2, RoundsClosed
<1>4. BenchTypeOK'
  BY <1>1, <1>2, <1>3 DEF BenchTypeOK, ranVars
<1>5. RowsInv' /\ OrphansInv' /\ StandaloneInv' /\ SummaryIsOwn'
  BY <1>1, RecordsKept DEF ranVars
<1>6. QED
  BY <1>2, <1>3, <1>4, <1>5

\* Ctrl-C flushes what is in memory; the benchmark records the run it terminates.
LEMMA CtrlCBenchInv ==
  ASSUME BenchInv, CtrlC
  PROVE  BenchInv'
<1> USE DEF BenchInv
<1> DEFINE terminated == IF at = "run" /\ ~Eval THEN {Row(-2, NoFiles)} ELSE {}
<1>1. /\ at # "idle" /\ runs' = Flushed(runs, own.header, terminated)
      /\ EndSession /\ UNCHANGED <<tool, files, launched, last, opened>>
      /\ orphans' = orphans \/ (at = "run" /\ ~Eval /\ orphans' = orphans \cup {cur})
  BY DEF CtrlC, MayBeOrphaned
<1>2. PICK rows \in (IF at = "rounds" THEN Begun ELSE {{}}) :
        /\ rounds' = Flushed(rounds, own.header2, rows)
        /\ torn' = (torn \/ (at = "rounds" /\ rows # After))
  BY DEF CtrlC
<1>3. terminated \in SUBSET RunRow
  BY NoFilesType DEF BenchTypeOK, Row, RunRow, LiveRun
<1>4. runs' \in CsvOf(RunRow) /\ runs'.rows = runs.rows \cup terminated
  BY <1>1, <1>3, FlushAdds DEF BenchTypeOK, SessionMemory
<1>5. LiveInv' /\ PlanInv' /\ own' \in SessionMemory /\ at' = "idle"
  BY <1>1, BenchSessionEnd
<1>6. RowsInv' /\ OrphansInv' /\ StandaloneInv' /\ SummaryIsOwn'
  <2>1. CASE at = "run" /\ ~Eval
    BY <1>1, <1>4, <2>1, NoFilesType, RowAdded
  <2>2. CASE ~(at = "run" /\ ~Eval)
    BY <1>1, <1>4, <2>2, RecordsKept
  <2>3. QED  BY <2>1, <2>2
<1>7. rounds' \in CsvOf(RoundsRow) /\ RoundsInv'
  <2>1. CASE tool = "logreg"
    <3>1. runs'.rows = runs.rows
      BY <1>4, <2>1 DEF Eval
    <3>2. rows \in SUBSET After
      BY <1>2 DEF Begun
    <3>3. QED  BY <1>1, <1>2, <1>5, <3>1, <3>2, RoundsClosed
  <2>2. CASE tool # "logreg"
    <3>1. rows = {}
      BY <1>2, <2>2 DEF BenchTypeOK
    <3>2. QED  BY <1>1, <1>2, <2>2, <3>1, FlushAdds DEF RoundsInv, BenchTypeOK, SessionMemory
  <2>3. QED  BY <2>1, <2>2
<1>8. BenchTypeOK'
  BY <1>1, <1>2, <1>4, <1>5, <1>7 DEF BenchTypeOK
<1>9. QED
  BY <1>5, <1>6, <1>7, <1>8

\* A kill loses what is in memory and leaves the run going.
LEMMA KillBenchInv ==
  ASSUME BenchInv, KillSession
  PROVE  BenchInv'
<1> USE DEF BenchInv, KillSession
<1>1. LiveInv' /\ PlanInv' /\ own' \in SessionMemory /\ at' = "idle"
  BY BenchSessionEnd
<1>2. /\ at # "idle" /\ own \in SessionMemory /\ torn' = (torn \/ at = "rounds" \/ own.header \/ own.header2)
  BY DEF BenchTypeOK
<1>3. orphans' \subseteq LiveRun
  BY DEF BenchTypeOK
<1>4. BenchTypeOK'
  BY <1>1, <1>2, <1>3 DEF BenchTypeOK, SessionMemory
<1>5. RowsInv' /\ StandaloneInv' /\ SummaryIsOwn'
  BY DEF RowsInv, StandaloneInv, SummaryIsOwn, Selected, Metrics, Eval, Standalone, run_id
<1>6. OrphansInv'
  <2>1. CASE at = "run"
    BY <2>1, CurJoinsOrphans
  <2>2. CASE at # "run"
    BY <2>2 DEF OrphansInv, run_id
  <2>3. QED  BY <2>1, <2>2
<1>7. RoundsInv'
  BY <1>1, <1>2 DEF RoundsInv, InMemory
<1>8. QED
  BY <1>1, <1>4, <1>5, <1>6, <1>7

----------------------------------------------------------------------------
LEMMA NextBenchInv == BenchInv /\ [SyncBenchNext]_syncBenchVars => BenchInv'
<1> SUFFICES ASSUME BenchInv, [SyncBenchNext]_syncBenchVars PROVE BenchInv'  OBVIOUS
<1>1. ASSUME NEW cells \in SUBSET Cells \ {{}}, NEW budget \in Budgets,
             OpenSession(cells, budget) \/ OpenBenchmark(cells, budget)
      PROVE  BenchInv'
  BY <1>1, OpenBenchInv
<1>2. ASSUME NEW cell \in Cells, SkipDone(cell) \/ Launch(cell) \/ LaunchBenchmark(cell)
      PROVE  BenchInv'
  BY <1>2, SkipBenchInv, LaunchedBenchInv DEF Launch, LaunchBenchmark
<1>3. ASSUME NEW w \in SbWorkers, WorkerSaves(w)
      PROVE  BenchInv'
  BY <1>3, WorkerSavesBenchInv
<1>4. CASE SessionSteps
  BY <1>2, <1>3, <1>4, EndsBenchInv, SummariseBenchInv, SummariseOtherBenchInv, FlushRoundsBenchInv,
     CloseBenchInv DEF SessionSteps
<1>5. ASSUME NEW o \in orphans, OrphanEnds(o) \/ \E w \in SbWorkers : OrphanSaves(o, w)
      PROVE  BenchInv'
  BY <1>5, OrphanEndsBenchInv, OrphanSavesBenchInv
<1>6. CASE CtrlC \/ KillSession
  BY <1>6, CtrlCBenchInv, KillBenchInv
<1>7. CASE UNCHANGED syncBenchVars
  <2>1. BenchTypeOK' /\ RowsInv' /\ OrphansInv' /\ StandaloneInv' /\ LiveInv'
    BY <1>7 DEF syncBenchVars, ranVars, BenchInv, BenchTypeOK, RowsInv, OrphansInv, StandaloneInv,
       LiveInv, run_id, Standalone, Eval
  <2>2. SummaryIsOwn' /\ PlanInv' /\ RoundsInv'
    BY <1>7 DEF syncBenchVars, ranVars, BenchInv, SummaryIsOwn, Selected, Metrics, Eval, Standalone,
       PlanInv, Served, RoundsInv, InMemory
  <2>3. QED  BY <2>1, <2>2 DEF BenchInv
<1>8. QED
  BY <1>1, <1>4, <1>5, <1>6, <1>7 DEF SyncBenchNext

LEMMA BenchInvariant == SyncBenchSpec => []BenchInv
BY InitBenchInv, NextBenchInv, PTL DEF SyncBenchSpec

----------------------------------------------------------------------------
(* The evaluation of the modes: results *)

\* sync_eval.py cmd_run and run_sync_benchmark.py: every session and every row has the
\* fields the code reads, whatever ended the sessions before.
THEOREM BenchTypeCorrect == SyncBenchSpec => []BenchTypeOK
<1>1. BenchInv => BenchTypeOK  BY DEF BenchInv
<1>2. QED  BY <1>1, BenchInvariant, PTL

\* The metrics a successful run is summarised with are its own, of all its workers, for
\* any number of sessions, attempts, cells, workers and rounds, and for the benchmark's
\* allreduce_mpi none at all, unless what outlived its session or its timeout was writing
\* there meanwhile.
THEOREM SummariesAreOwn == SyncBenchSpec => []SummaryIsOwn
<1>1. BenchInv => SummaryIsOwn  BY DEF BenchInv
<1>2. QED  BY <1>1, BenchInvariant, PTL

\* select finds under the run id of a run that succeeded at its first attempt its own
\* rounds but the last (none after a single round) and no others, unless a session ended
\* between its two flushes or what outlived its session or its timeout was there.
THEOREM SelectsOwnRounds == SyncBenchSpec => []SelectReadsOwnRounds
<1>1. BenchInv => SelectReadsOwnRounds
  <2> SUFFICES ASSUME BenchInv, tool = "logreg", ~torn, at = "idle", NEW row \in Selected,
                      ~row.haunted, \A other \in runs.rows : other.id = row.id => other = row
               PROVE  /\ rounds.first = "header"
                      /\ RoundsOf(row) = (1..(row.length - 1)) \X {OwnOutput(row)}
    BY DEF SelectReadsOwnRounds
  <2> USE DEF BenchInv
  <2>1. row \in runs.rows /\ row.length \in Attempts
    BY RowType DEF Selected, RunRow
  <2>2. row.from = OwnOutput(row)
    BY DEF SummaryIsOwn, Metrics, Eval, Standalone
  <2>3. UNION {1..(row.from[w].rounds - 1) : w \in SbWorkers} = 1..(row.length - 1)
    <3>1. \A w \in SbWorkers : row.from[w].rounds = row.length
      BY <2>2 DEF OwnOutput, Output
    <3>2. SbWorkers # {}
      BY SyncBenchAssumption
    <3>3. QED  BY <3>1, <3>2
  <2>4. RoundsFrom(row) = [id : {row.id}, round : 1..(row.length - 1), from : {row.from}]
    BY <2>3 DEF RoundsFrom, RoundsIn
  <2>5. RoundsFrom(row) \subseteq rounds.rows
    BY <2>1 DEF RoundsInv, InMemory
  <2>6. \A s \in rounds.rows : s.id = row.id => s \in RoundsFrom(row)
    <3>1. \A other, s : s \in RoundsFrom(other) => s.id = other.id
      BY DEF RoundsFrom, RoundsIn
    <3>2. QED  BY <2>1, <3>1 DEF RoundsInv
  <2>7. RoundsOf(row) = (1..(row.length - 1)) \X {row.from}
    <3>1. RoundsOf(row) = {<<r.round, r.from>> : r \in RoundsFrom(row)}
      <4>1. {s \in rounds.rows : s.id = row.id} = RoundsFrom(row)
        BY <2>4, <2>5, <2>6
      <4>2. QED  BY <4>1 DEF RoundsOf
    <3>2. ASSUME NEW n \in 1..(row.length - 1)
          PROVE  <<n, row.from>> \in RoundsOf(row)
      <4>1. [id |-> row.id, round |-> n, from |-> row.from] \in RoundsFrom(row)
        BY <2>4
      <4>2. QED  BY <3>1, <4>1
    <3>3. RoundsOf(row) \subseteq (1..(row.length - 1)) \X {row.from}
      BY <2>4, <3>1
    <3>4. QED  BY <3>2, <3>3
  <2>8. rounds.first = "header"
    BY <2>1 DEF RoundsInv
  <2>9. QED  BY <2>2, <2>7, <2>8
<1>2. QED  BY <1>1, BenchInvariant, PTL

\* A session that comes to the end of its plan has a row for every cell of it, of its own
\* budget where the run id tells budgets apart.
THEOREM PlansAreCovered == SyncBenchSpec => []PlanCovered
<1>1. BenchInv => PlanCovered
  BY DEF BenchInv, PlanInv, PlanCovered, Served
<1>2. QED  BY <1>1, BenchInvariant, PTL

=============================================================================
