---------------------------- MODULE StarPSProofs ----------------------------
(***************************************************************************)
(* Proofs about StarPS, for any number of workers and rounds and for both  *)
(* modes.  The argument counts, for every worker, what the server has      *)
(* received from it and what it has answered: the two numbers and the      *)
(* worker's own counter say where the one message between them is.         *)
(***************************************************************************)
EXTENDS StarPS, FiniteSetTheorems, SequenceTheorems, TLAPS

----------------------------------------------------------------------------
(* The inductive invariant *)

\* Messages the server has received from a worker, and replies it has sent to it.
Received(w) == iteration + (IF w <= Len(msgs) THEN 1 ELSE 0)
Answered(w) == iteration + (IF w <= sent THEN 1 ELSE 0)

Message(w, k) == [worker |-> w, worker_round |-> k]
ReplyOf(k) == [iteration |-> k, average |-> Round(k)]

\* The exchange between a worker and the server is at one of four points: none is
\* going on, the message is under way, the server has it, the reply is under way.
Exchange(w) ==
  \/ /\ pc[w] # "wait"
     /\ it[w] = Answered(w) /\ it[w] = Received(w)
     /\ up[w] = <<>> /\ down[w] = <<>>
  \/ /\ pc[w] = "wait"
     /\ it[w] = Answered(w) /\ it[w] = Received(w)
     /\ up[w] = <<Message(w, it[w])>> /\ down[w] = <<>>
  \/ /\ pc[w] = "wait"
     /\ it[w] = Answered(w) /\ it[w] + 1 = Received(w)
     /\ up[w] = <<>> /\ down[w] = <<>>
  \/ /\ pc[w] = "wait"
     /\ it[w] + 1 = Answered(w) /\ it[w] + 1 = Received(w)
     /\ up[w] = <<>> /\ down[w] = <<ReplyOf(it[w])>>

ExchangeInv == \A w \in Worker : Exchange(w)

WorkerInv ==
  \A w \in Worker :
    /\ pc[w] \in {"load", "gather", "step", "reduce", "push", "wait"} => it[w] < R
    /\ pc[w] \in {"load", "gather"} => it[w] = 0
    /\ pc[w] = "done" => it[w] = R

\* What the server holds is of the round it serves; between the rounds it has the
\* average of the last one.
ServerInv ==
  /\ \A i \in 1..Len(msgs) : msgs[i] = Message(i, iteration)
  /\ iteration = R => msgs = <<>>
  /\ sent > 0 => Len(msgs) = N
  /\ Len(msgs) = N => final = Round(iteration)
  /\ Len(msgs) < N /\ iteration > 0 => final = Round(iteration - 1)

\* A collective is entered by the workers of its round only.
EnteredInv ==
  /\ entered[0] \subseteq Round(0)
  /\ \A c \in 1..R : entered[c] \subseteq Round(c - 1)

ModelInv ==
  \A w \in Worker :
    /\ it[w] > 0 => model[w] = Round(it[w] - 1)
    /\ Hybrid /\ pc[w] \in {"push", "wait"} => dense[w] = Round(it[w])
    /\ Hybrid /\ pc[w] \in {"step", "done"} /\ it[w] > 0 => dense[w] = Round(it[w] - 1)

MainInv ==
  /\ \A w \in Worker : w <= collected => pc[w] \in {"done", "failed"}
  /\ main = "complete" =>
       collected = N /\ iteration = R /\ \A w \in Worker : pc[w] = "done"

IInv ==
  /\ TypeOK
  /\ ExchangeInv
  /\ WorkerInv
  /\ ServerInv
  /\ EnteredInv
  /\ ModelInv
  /\ MainInv

----------------------------------------------------------------------------
(* A round *)

\* A complete round is as many contributions as there are workers; so when N workers
\* have entered a collective of a round, all have.
LEMMA RoundComplete ==
  ASSUME NEW k, NEW S \in SUBSET Round(k), Cardinality(S) = N
  PROVE  S = Round(k)
<1> DEFINE f == [w \in Worker |-> Message(w, k)]
<1>1. IsFiniteSet(Worker) /\ Cardinality(Worker) = N
  BY ConstantsAssumption, FS_Interval DEF Worker
<1>2. f \in Bijection(Worker, Round(k))
  <2>1. f \in [Worker -> Round(k)]  BY DEF Round, Message
  <2>2. \A v, w \in Worker : f[v] = f[w] => v = w  BY DEF Message
  <2>3. \A m \in Round(k) : \E w \in Worker : f[w] = m  BY DEF Round, Message
  <2>4. QED  BY <2>1, <2>2, <2>3 DEF Bijection, Injection, Surjection, IsInjective
<1>3. ExistsBijection(Worker, Round(k))
  BY <1>2 DEF ExistsBijection
<1>4. IsFiniteSet(Round(k)) /\ Cardinality(Round(k)) = N
  BY <1>1, <1>3, FS_Bijection
<1>5. QED
  BY <1>4, FS_Subset

LEMMA RoundType ==
  ASSUME NEW k \in 0..(R - 1)
  PROVE  Round(k) \in SUBSET Contribution
BY DEF Round, Contribution

LEMMA MessageType ==
  ASSUME NEW w \in Worker, NEW k \in 0..(R - 1)
  PROVE  Message(w, k) \in Contribution /\ Message(w, k) \in Round(k)
BY DEF Message, Contribution, Round

----------------------------------------------------------------------------
LEMMA InitIInv == Init => IInv
<1> SUFFICES ASSUME Init PROVE IInv  OBVIOUS
<1> USE ConstantsAssumption DEF Init
<1>1. Len(msgs) = 0 /\ msgs = <<>> /\ N > 0 /\ R > 0
  OBVIOUS
<1>2. TypeOK
  BY <1>1 DEF TypeOK
<1>3. ExchangeInv
  BY <1>1 DEF ExchangeInv, Exchange, Answered, Received, Worker
<1>4. WorkerInv /\ ServerInv /\ ModelInv /\ MainInv
  BY <1>1 DEF WorkerInv, ServerInv, ModelInv, MainInv, Worker
<1>5. EnteredInv
  BY DEF EnteredInv, Collective
<1>6. QED
  BY <1>2, <1>3, <1>4, <1>5 DEF IInv

----------------------------------------------------------------------------
(* Steps of a worker *)

LEMMA LoadIInv ==
  ASSUME IInv, NEW w \in Worker, Load(w)
  PROVE  IInv'
<1> USE ConstantsAssumption DEF IInv, Load, serverVars, mainVars
<1>1. it[w] = 0 /\ pc[w] = "load" /\ 0 \in 0..(R - 1)
  BY DEF WorkerInv
<1>2. Mine(w) = Message(w, 0) /\ Mine(w) \in Contribution /\ Mine(w) \in Round(0)
  BY <1>1, MessageType DEF Mine, Message
<1>3. TypeOK'
  <2>1. pc' \in [Worker -> {"load", "gather", "step", "reduce", "push", "wait", "done", "failed"}]
    BY DEF TypeOK
  <2>2. entered' \in [Collective -> SUBSET Contribution]
    <3>1. entered \in [Collective -> SUBSET Contribution] /\ 0 \in Collective
      BY DEF TypeOK, Collective
    <3>2. CASE Hybrid
      <4>1. entered[0] \cup {Mine(w)} \in SUBSET Contribution
        BY <3>1, <1>2
      <4>2. entered' = [entered EXCEPT ![0] = entered[0] \cup {Mine(w)}]
        BY <3>2
      <4>3. QED  BY <3>1, <4>1, <4>2
    <3>3. CASE ~Hybrid
      BY <3>1, <3>3
    <3>4. QED  BY <3>2, <3>3
  <2>3. QED  BY <2>1, <2>2 DEF TypeOK
<1>4. ExchangeInv'
  BY <1>1 DEF ExchangeInv, Exchange, Answered, Received, TypeOK
<1>5. WorkerInv'
  BY <1>1 DEF WorkerInv, TypeOK
<1>6. ServerInv'
  BY DEF ServerInv
<1>7. EnteredInv'
  BY <1>2 DEF EnteredInv, TypeOK, Collective
<1>8. ModelInv'
  BY <1>1 DEF ModelInv, TypeOK, Hybrid
<1>9. MainInv'
  BY <1>1 DEF MainInv, TypeOK
<1>10. QED
  BY <1>3, <1>4, <1>5, <1>6, <1>7, <1>8, <1>9

LEMMA LeaveGatherIInv ==
  ASSUME IInv, NEW w \in Worker, LeaveGather(w)
  PROVE  IInv'
<1> USE ConstantsAssumption DEF IInv, LeaveGather, serverVars, mainVars
<1>1. it[w] = 0 /\ pc[w] = "gather" /\ 0 < R
  BY DEF WorkerInv
<1>3. TypeOK'
  BY DEF TypeOK
<1>4. ExchangeInv'
  BY <1>1 DEF ExchangeInv, Exchange, Answered, Received, TypeOK
<1>5. WorkerInv'
  BY <1>1 DEF WorkerInv, TypeOK
<1>6. ServerInv' /\ EnteredInv'
  BY DEF ServerInv, EnteredInv
<1>8. ModelInv'
  BY <1>1 DEF ModelInv, TypeOK, Hybrid
<1>9. MainInv'
  BY <1>1 DEF MainInv, TypeOK
<1>10. QED
  BY <1>3, <1>4, <1>5, <1>6, <1>8, <1>9

LEMMA EnterReduceIInv ==
  ASSUME IInv, NEW w \in Worker, EnterReduce(w)
  PROVE  IInv'
<1> USE ConstantsAssumption DEF IInv, EnterReduce, serverVars, mainVars
<1>1. it[w] \in 0..(R - 1) /\ pc[w] = "step"
  BY DEF WorkerInv, TypeOK
<1>2. Mine(w) \in Contribution /\ Mine(w) \in Round(it[w])
  BY <1>1, MessageType DEF Mine, Message
<1>3. TypeOK'
  <2>1. entered \in [Collective -> SUBSET Contribution] /\ it[w] + 1 \in Collective
    BY <1>1 DEF TypeOK, Collective
  <2>2. entered[it[w] + 1] \cup {Mine(w)} \in SUBSET Contribution
    BY <1>2, <2>1
  <2>3. entered' = [entered EXCEPT ![it[w] + 1] = entered[it[w] + 1] \cup {Mine(w)}]
    OBVIOUS
  <2>4. entered' \in [Collective -> SUBSET Contribution]
    BY <2>1, <2>2, <2>3
  <2>5. QED  BY <2>4 DEF TypeOK
<1>4. ExchangeInv'
  BY <1>1 DEF ExchangeInv, Exchange, Answered, Received, TypeOK
<1>5. WorkerInv'
  BY <1>1 DEF WorkerInv, TypeOK
<1>6. ServerInv'
  BY DEF ServerInv
<1>7. EnteredInv'
  BY <1>1, <1>2 DEF EnteredInv, TypeOK, Collective
<1>8. ModelInv'
  BY <1>1 DEF ModelInv, TypeOK, Hybrid
<1>9. MainInv'
  BY <1>1 DEF MainInv, TypeOK
<1>10. QED
  BY <1>3, <1>4, <1>5, <1>6, <1>7, <1>8, <1>9

\* The Allreduce returns the whole round the worker is in.
LEMMA LeaveReduceIInv ==
  ASSUME IInv, NEW w \in Worker, LeaveReduce(w)
  PROVE  IInv'
<1> USE ConstantsAssumption DEF IInv, LeaveReduce, serverVars, mainVars
<1>1. it[w] \in 0..(R - 1) /\ pc[w] = "reduce"
  BY DEF WorkerInv, TypeOK
<1>2. entered[it[w] + 1] = Round(it[w])
  <2>1. entered[it[w] + 1] \in SUBSET Round(it[w])
    BY <1>1 DEF EnteredInv
  <2>2. QED  BY <2>1, RoundComplete
<1>3. TypeOK'
  <2>1. Round(it[w]) \in SUBSET Contribution
    BY <1>1, RoundType
  <2>2. QED  BY <1>2, <2>1 DEF TypeOK
<1>4. ExchangeInv'
  BY <1>1 DEF ExchangeInv, Exchange, Answered, Received, TypeOK
<1>5. WorkerInv'
  BY <1>1 DEF WorkerInv, TypeOK
<1>6. ServerInv' /\ EnteredInv'
  BY DEF ServerInv, EnteredInv
<1>7. ModelInv'
  BY <1>1, <1>2 DEF ModelInv, TypeOK, Hybrid
<1>8. MainInv'
  BY <1>1 DEF MainInv, TypeOK
<1>9. QED
  BY <1>3, <1>4, <1>5, <1>6, <1>7, <1>8

LEMMA PushIInv ==
  ASSUME IInv, NEW w \in Worker, Push(w)
  PROVE  IInv'
<1> USE ConstantsAssumption DEF IInv, Push, serverVars, mainVars
<1>1. it[w] \in 0..(R - 1) /\ pc[w] \in {"push", "step"} /\ pc[w] # "wait"
  BY DEF WorkerInv, TypeOK
<1>2. Mine(w) = Message(w, it[w]) /\ Mine(w) \in Contribution
  BY <1>1, MessageType DEF Mine, Message
<1>3. up[w] = <<>> /\ up'[w] = <<Message(w, it[w])>>
  <2>1. up[w] = <<>>
    BY <1>1 DEF ExchangeInv, Exchange
  <2>2. up'[w] = Append(up[w], Mine(w))
    BY DEF TypeOK
  <2>3. QED  BY <1>2, <2>1, <2>2
<1>4. TypeOK'
  BY <1>2 DEF TypeOK
<1>5. ExchangeInv'
  BY <1>1, <1>3 DEF ExchangeInv, Exchange, Answered, Received, TypeOK
<1>6. WorkerInv'
  BY <1>1 DEF WorkerInv, TypeOK
<1>7. ServerInv' /\ EnteredInv'
  BY DEF ServerInv, EnteredInv
<1>8. ModelInv'
  BY <1>1 DEF ModelInv, TypeOK, Hybrid
<1>9. MainInv'
  BY <1>1 DEF MainInv, TypeOK
<1>10. QED
  BY <1>4, <1>5, <1>6, <1>7, <1>8, <1>9

\* The reply a worker takes is the average of the round it is in.
LEMMA PullIInv ==
  ASSUME IInv, NEW w \in Worker, Pull(w)
  PROVE  IInv'
<1> USE ConstantsAssumption DEF IInv, Pull, serverVars, mainVars
<1>1. it[w] \in 0..(R - 1) /\ pc[w] = "wait"
  BY DEF WorkerInv, TypeOK
<1>2. /\ it[w] + 1 = Answered(w) /\ it[w] + 1 = Received(w)
      /\ up[w] = <<>> /\ down[w] = <<ReplyOf(it[w])>>
  BY <1>1 DEF ExchangeInv, Exchange
<1>3. Head(down[w]).average = Round(it[w]) /\ Tail(down[w]) = <<>>
  BY <1>2 DEF ReplyOf
<1>4. TypeOK'
  <2>1. Round(it[w]) \in SUBSET Contribution
    BY <1>1, RoundType
  <2>2. it[w] + 1 \in 0..R
    BY <1>1
  <2>3. QED  BY <1>3, <2>1, <2>2 DEF TypeOK
<1>5. ExchangeInv'
  BY <1>1, <1>2, <1>3 DEF ExchangeInv, Exchange, Answered, Received, TypeOK
<1>6. WorkerInv'
  BY <1>1 DEF WorkerInv, TypeOK
<1>7. ServerInv' /\ EnteredInv'
  BY DEF ServerInv, EnteredInv
<1>8. ModelInv'
  <2>1. /\ it'[w] = it[w] + 1 /\ it'[w] - 1 = it[w]
        /\ model'[w] = Round(it[w])
        /\ pc'[w] \in {"step", "done"}
    BY <1>1, <1>3 DEF TypeOK
  <2>2. Hybrid => dense'[w] = Round(it[w])
    BY <1>1 DEF ModelInv
  <2>3. \A v \in Worker : v # w =>
          it'[v] = it[v] /\ model'[v] = model[v] /\ pc'[v] = pc[v] /\ dense'[v] = dense[v]
    BY DEF TypeOK
  <2>4. Hybrid' <=> Hybrid
    BY DEF Hybrid
  <2>5. QED  BY <2>1, <2>2, <2>3, <2>4 DEF ModelInv
<1>9. MainInv'
  BY <1>1 DEF MainInv, TypeOK
<1>10. QED
  BY <1>4, <1>5, <1>6, <1>7, <1>8, <1>9

LEMMA FailIInv ==
  ASSUME IInv, NEW w \in Worker, Fail(w)
  PROVE  IInv'
<1> USE ConstantsAssumption DEF IInv, Fail, serverVars, mainVars
<1>1. pc[w] \in {"load", "step", "done"}
  OBVIOUS
<1>2. TypeOK'
  BY DEF TypeOK
<1>3. ExchangeInv'
  BY <1>1 DEF ExchangeInv, Exchange, Answered, Received, TypeOK
<1>4. WorkerInv'
  BY <1>1 DEF WorkerInv, TypeOK
<1>5. ServerInv' /\ EnteredInv'
  BY DEF ServerInv, EnteredInv
<1>6. ModelInv'
  BY <1>1 DEF ModelInv, TypeOK, Hybrid
<1>7. MainInv'
  BY <1>1 DEF MainInv, TypeOK, Worker
<1>8. QED
  BY <1>2, <1>3, <1>4, <1>5, <1>6, <1>7

----------------------------------------------------------------------------
(* Steps of the server thread *)

\* The last message of a round makes its average.
LEMMA RecvIInv ==
  ASSUME IInv, Recv
  PROVE  IInv'
<1> DEFINE r == Len(msgs) + 1
<1> USE ConstantsAssumption DEF IInv, Recv, workerVars, mainVars
<1>1. r \in Worker /\ iteration \in 0..(R - 1) /\ sent = 0
  BY DEF TypeOK, Worker, ServerInv
<1>2. /\ pc[r] = "wait" /\ it[r] = iteration
      /\ up[r] = <<Message(r, iteration)>> /\ down[r] = <<>>
  BY <1>1 DEF ExchangeInv, Exchange, Answered, Received
<1>3. /\ msgs' = Append(msgs, Message(r, iteration))
      /\ up' = [up EXCEPT ![r] = <<>>]
  BY <1>2
<1>4. /\ Len(msgs') = r
      /\ \A i \in 1..r : msgs'[i] = Message(i, iteration)
  BY <1>3 DEF TypeOK, ServerInv
<1>5. final' = IF r = N THEN Round(iteration) ELSE final
  <2>1. r = N => {msgs'[i] : i \in 1..N} = Round(iteration)
    BY <1>4 DEF Round, Message, Worker
  <2>2. QED  BY <2>1
<1>6. TypeOK'
  <2>1. Message(r, iteration) \in Contribution
    BY <1>1, MessageType
  <2>2. Round(iteration) \in SUBSET Contribution
    BY <1>1, RoundType
  <2>3. msgs' \in Seq(Contribution) /\ Len(msgs') <= N
    <3>1. msgs \in Seq(Contribution)  BY DEF TypeOK
    <3>2. msgs' \in Seq(Contribution)  BY <1>3, <2>1, <3>1, AppendProperties
    <3>3. QED  BY <1>1, <1>4, <3>2 DEF Worker
  <2>4. up' \in [Worker -> Seq(Contribution)]
    <3>1. up \in [Worker -> Seq(Contribution)] /\ <<>> \in Seq(Contribution)
      BY EmptySeq DEF TypeOK
    <3>2. QED  BY <1>3, <3>1
  <2>5. final' \in SUBSET Contribution
    BY <1>5, <2>2 DEF TypeOK
  <2>6. QED  BY <2>3, <2>4, <2>5 DEF TypeOK
<1>7. ExchangeInv'
  <2> SUFFICES ASSUME NEW w \in Worker PROVE Exchange(w)'
    BY DEF ExchangeInv
  <2>1. Exchange(w) /\ w \in 1..N
    BY DEF ExchangeInv, Worker
  <2>2. Received(w)' = IF w = r THEN iteration + 1 ELSE Received(w)
    BY <1>1, <1>4, <2>1 DEF Received, TypeOK
  <2>3. Answered(w)' = Answered(w) /\ (w = r => Answered(w) = iteration)
    BY <1>1, <2>1 DEF Answered
  <2>4. CASE w = r
    BY <1>2, <1>3, <2>2, <2>3, <2>4 DEF Exchange, TypeOK
  <2>5. CASE w # r
    BY <1>3, <2>1, <2>2, <2>3, <2>5 DEF Exchange, TypeOK
  <2>6. QED  BY <2>4, <2>5
<1>8. WorkerInv' /\ EnteredInv' /\ MainInv'
  BY DEF WorkerInv, EnteredInv, MainInv
<1>9. ServerInv'
  BY <1>1, <1>3, <1>4, <1>5 DEF ServerInv, TypeOK
<1>10. ModelInv'
  BY DEF ModelInv, Hybrid
<1>11. QED
  BY <1>6, <1>7, <1>8, <1>9, <1>10

\* A reply is sent while its worker waits for it; the last one ends the round.
LEMMA AnswerIInv ==
  ASSUME IInv, Answer
  PROVE  IInv'
<1> DEFINE r == sent + 1
<1> USE ConstantsAssumption DEF IInv, Answer, workerVars, mainVars
<1>1. r \in Worker /\ iteration \in 0..(R - 1) /\ Len(msgs) = N /\ N > 0
  <2>1. iteration # R
    BY DEF ServerInv, TypeOK
  <2>2. QED  BY <2>1 DEF TypeOK, Worker
<1>2. /\ pc[r] = "wait" /\ it[r] = iteration
      /\ up[r] = <<>> /\ down[r] = <<>>
  <2>1. Answered(r) = iteration /\ Received(r) = iteration + 1
    BY <1>1 DEF Answered, Received, TypeOK, Worker
  <2>2. it[r] \in Nat /\ Exchange(r)
    BY <1>1 DEF ExchangeInv, TypeOK
  <2>3. QED  BY <1>1, <2>1, <2>2 DEF Exchange
<1>3. final = Round(iteration)
  BY <1>1 DEF ServerInv
<1>4. down' = [down EXCEPT ![r] = <<ReplyOf(iteration)>>]
  BY <1>1, <1>2, <1>3 DEF ReplyOf
<1>5. TypeOK'
  <2>1. ReplyOf(iteration) \in Reply
    BY <1>1, <1>3 DEF ReplyOf, Reply, TypeOK
  <2>2. down' \in [Worker -> Seq(Reply)]
    BY <1>1, <1>4, <2>1 DEF TypeOK
  <2>3. /\ iteration' \in 0..R /\ sent' \in 0..(N - 1)
        /\ msgs' \in Seq(Contribution) /\ Len(msgs') <= N
    <3>1. CASE r = N
      BY <1>1, <3>1, EmptySeq DEF TypeOK, Worker
    <3>2. CASE r # N
      BY <1>1, <3>2 DEF TypeOK, Worker
    <3>3. QED  BY <3>1, <3>2
  <2>4. QED  BY <2>2, <2>3 DEF TypeOK
<1>6. ExchangeInv'
  <2> SUFFICES ASSUME NEW w \in Worker PROVE Exchange(w)'
    BY DEF ExchangeInv
  <2>1. Exchange(w) /\ w \in 1..N
    BY DEF ExchangeInv, Worker
  <2>2. CASE r = N
    BY <1>1, <1>2, <1>4, <2>1, <2>2 DEF Exchange, Answered, Received, TypeOK
  <2>3. CASE r # N
    BY <1>1, <1>2, <1>4, <2>1, <2>3 DEF Exchange, Answered, Received, TypeOK
  <2>4. QED  BY <2>2, <2>3
<1>7. WorkerInv' /\ EnteredInv'
  BY DEF WorkerInv, EnteredInv
<1>8. ServerInv'
  <2>1. CASE r = N
    <3>1. msgs' = <<>> /\ sent' = 0 /\ iteration' = iteration + 1 /\ final' = Round(iteration)
      BY <1>3, <2>1
    <3>2. Len(msgs') = 0 /\ iteration' - 1 = iteration
      BY <1>1, <3>1
    <3>3. QED  BY <1>1, <3>1, <3>2 DEF ServerInv
  <2>2. CASE r # N
    BY <1>1, <1>3, <2>2 DEF ServerInv, TypeOK, Worker
  <2>3. QED  BY <2>1, <2>2
<1>9. ModelInv'
  BY DEF ModelInv, Hybrid
<1>10. MainInv'
  BY <1>1 DEF MainInv
<1>11. QED
  BY <1>5, <1>6, <1>7, <1>8, <1>9, <1>10

----------------------------------------------------------------------------
(* Steps of the main thread, and all steps *)

LEMMA MainIInv ==
  ASSUME IInv, MainStep
  PROVE  IInv'
<1> USE ConstantsAssumption DEF IInv, workerVars, serverVars
<1>1. UNCHANGED <<sync_mode, workerVars, entered, up, down, serverVars>>
  BY DEF MainStep, Collect, Conclude
<1>2. TypeOK'
  BY <1>1 DEF TypeOK, MainStep, Collect, Conclude
<1>3. ExchangeInv'
  BY <1>1 DEF ExchangeInv, Exchange, Answered, Received
<1>4. WorkerInv' /\ ServerInv' /\ EnteredInv' /\ ModelInv'
  BY <1>1 DEF WorkerInv, ServerInv, EnteredInv, ModelInv, Hybrid
<1>5. MainInv'
  <2>1. CASE Collect
    BY <1>1, <2>1 DEF MainInv, Collect, TypeOK, Worker
  <2>2. CASE Conclude
    BY <1>1, <2>2 DEF MainInv, Conclude, TypeOK
  <2>3. QED  BY <2>1, <2>2 DEF MainStep
<1>6. QED
  BY <1>2, <1>3, <1>4, <1>5

LEMMA NextIInv == IInv /\ [Next]_vars => IInv'
<1> SUFFICES ASSUME IInv, [Next]_vars PROVE IInv'  OBVIOUS
<1>1. ASSUME NEW w \in Worker, WorkerStep(w) \/ Fail(w)
      PROVE  IInv'
  BY <1>1, LoadIInv, LeaveGatherIInv, EnterReduceIInv, LeaveReduceIInv, PushIInv, PullIInv,
     FailIInv DEF WorkerStep
<1>2. CASE ServerStep
  BY <1>2, RecvIInv, AnswerIInv DEF ServerStep
<1>3. CASE MainStep
  BY <1>3, MainIInv
<1>4. CASE Ended \/ UNCHANGED vars
  BY <1>4 DEF Ended, vars, workerVars, serverVars, mainVars, IInv, TypeOK, ExchangeInv, Exchange,
     Answered, Received, WorkerInv, ServerInv, EnteredInv, ModelInv, Hybrid, MainInv
<1>5. QED
  BY <1>1, <1>2, <1>3, <1>4 DEF Next

LEMMA Invariant == Spec => []IInv
BY InitIInv, NextIInv, PTL DEF Spec

----------------------------------------------------------------------------
(* Results *)

\* The state of the workers, the server and the root has its type.
THEOREM TypeCorrect == Spec => []TypeOK
<1>1. IInv => TypeOK
  BY DEF IInv
<1>2. QED
  BY <1>1, Invariant, PTL

\* "Workers block on the reply before their next round, so per-round tag reuse is
\* safe" (root_mpi.py): for any number of workers, whatever they do at what speed.
THEOREM TagReuseIsSafe == Spec => []RoundsNotMixed
<1>1. IInv => RoundsNotMixed
  <2> SUFFICES ASSUME IInv PROVE RoundsNotMixed  OBVIOUS
  <2>1. \A i \in 1..Len(msgs) : msgs[i] = [worker |-> i, worker_round |-> iteration]
    BY DEF IInv, ServerInv, Message
  <2>2. ASSUME NEW w \in Worker, NEW i \in 1..Len(down[w])
        PROVE  down[w][i] = [iteration |-> it[w], average |-> Round(it[w])]
    <3>1. down[w] = <<>> \/ down[w] = <<ReplyOf(it[w])>>
      BY DEF IInv, ExchangeInv, Exchange
    <3>2. QED  BY <2>2, <3>1 DEF ReplyOf
  <2>3. QED  BY <2>1, <2>2 DEF RoundsNotMixed
<1>2. QED
  BY <1>1, Invariant, PTL

\* What a worker trains on and what the root reports is the mean of one complete
\* round, over both channels of the hybrid mode.
THEOREM TrainsOnLastRound == Spec => []ModelIsLastRound
<1>1. IInv => ModelIsLastRound
  <2> SUFFICES ASSUME IInv PROVE ModelIsLastRound  OBVIOUS
  <2> USE DEF IInv
  <2>1. \A w \in Worker : it[w] > 0 /\ pc[w] \in {"step", "done"} =>
          model[w] = Round(it[w] - 1) /\ (Hybrid => dense[w] = Round(it[w] - 1))
    BY DEF ModelInv
  <2>2. ASSUME main = "complete"
        PROVE  final = Round(R - 1) /\ (Hybrid => dense[1] = final)
    <3>1. iteration = R /\ 1 \in Worker /\ pc[1] = "done" /\ it[1] = R /\ R > 0
      BY <2>2, ConstantsAssumption DEF MainInv, WorkerInv, Worker
    <3>2. Len(msgs) = 0 /\ 0 < N
      BY <3>1, ConstantsAssumption DEF ServerInv
    <3>3. final = Round(R - 1)
      BY <3>1, <3>2 DEF ServerInv
    <3>4. QED  BY <2>1, <3>1, <3>3
  <2>3. QED  BY <2>1, <2>2 DEF ModelIsLastRound
<1>2. QED
  BY <1>1, Invariant, PTL

----------------------------------------------------------------------------
(* Implementation of SyncRounds: who has contributed, and what is closed *)

ContributedBar == [w \in Worker |-> it[w] + (IF pc[w] = "wait" THEN 1 ELSE 0)]
ClosedBar == iteration + (IF Len(msgs) = N THEN 1 ELSE 0)

LEMMA BarInit == Init => Rounds!Init
<1> SUFFICES ASSUME Init PROVE Rounds!Init  OBVIOUS
<1>1. ContributedBar = [w \in Worker |-> 0]
  BY DEF Init, ContributedBar
<1>2. ClosedBar = 0
  BY ConstantsAssumption DEF Init, ClosedBar
<1>3. QED
  BY <1>1, <1>2 DEF Rounds!Init, Init, ContributedBar, ClosedBar

\* A worker that sends contributes; before, it has installed all it contributed to.
LEMMA BarPush ==
  ASSUME IInv, NEW w \in Worker, Push(w)
  PROVE  Rounds!Contribute(w)
<1> USE DEF IInv, TypeOK, Push
<1>1. pc[w] # "wait" /\ it[w] \in 0..(R - 1)
  BY ConstantsAssumption DEF WorkerInv
<1>2. ContributedBar[w] = it[w]
  BY <1>1 DEF ContributedBar
<1>3. ContributedBar' = [ContributedBar EXCEPT ![w] = ContributedBar[w] + 1]
  BY <1>1, <1>2 DEF ContributedBar
<1>4. ClosedBar' = ClosedBar
  BY DEF ClosedBar, serverVars
<1>5. QED
  BY <1>1, <1>2, <1>3, <1>4, ConstantsAssumption DEF Rounds!Contribute, ContributedBar, ClosedBar

LEMMA BarPull ==
  ASSUME IInv, NEW w \in Worker, Pull(w)
  PROVE  Rounds!Install(w)
<1> USE DEF IInv, TypeOK, Pull
<1>1. /\ it[w] + 1 = Answered(w) /\ it[w] \in Nat
      /\ it' = [it EXCEPT ![w] = it[w] + 1]
  BY DEF ExchangeInv, Exchange
<1>2. it[w] < ClosedBar
  BY <1>1, ConstantsAssumption DEF ServerInv, Answered, ClosedBar, Worker
<1>3. ContributedBar' = ContributedBar
  BY <1>1 DEF ContributedBar
<1>4. ClosedBar' = ClosedBar
  BY DEF ClosedBar, serverVars
<1>5. QED
  BY <1>1, <1>2, <1>3, <1>4 DEF Rounds!Install, ContributedBar, ClosedBar

\* The last message of a round closes it, and then every worker waits.
LEMMA BarRecv ==
  ASSUME IInv, Recv
  PROVE  Rounds!Close \/ UNCHANGED Rounds!vars
<1> DEFINE r == Len(msgs) + 1
<1> USE ConstantsAssumption DEF IInv, TypeOK, Recv, workerVars
<1>1. Len(msgs') = r /\ iteration \in 0..(R - 1) /\ ClosedBar = iteration
  BY DEF ClosedBar
<1>2. ContributedBar' = ContributedBar /\ it' = it
  BY DEF ContributedBar
<1>3. CASE r = N
  <2>1. ClosedBar' = ClosedBar + 1
    BY <1>1, <1>3 DEF ClosedBar
  <2>2. ASSUME NEW w \in Worker
        PROVE  ContributedBar[w] = ClosedBar + 1
    <3>1. pc[w] = "wait" /\ it[w] = iteration
      <4>1. Exchange(w) /\ Answered(w) = iteration
        BY <1>1, <1>3 DEF ExchangeInv, ServerInv, Answered, Worker
      <4>2. CASE w = N
        BY <1>1, <1>3, <4>1, <4>2 DEF Exchange
      <4>3. CASE w # N
        <5>1. Received(w) = iteration + 1
          BY <1>1, <1>3, <4>3 DEF Received, Worker
        <5>2. QED  BY <1>1, <4>1, <5>1 DEF Exchange
      <4>4. QED  BY <4>2, <4>3
    <3>2. QED  BY <1>1, <3>1 DEF ContributedBar
  <2>3. QED
    BY <1>1, <1>2, <2>1, <2>2 DEF Rounds!Close, ContributedBar, ClosedBar
<1>4. CASE r # N
  <2>1. ClosedBar' = ClosedBar
    BY <1>1, <1>4 DEF ClosedBar
  <2>2. QED  BY <1>2, <2>1 DEF Rounds!vars, ContributedBar, ClosedBar
<1>5. QED
  BY <1>3, <1>4

\* When the list of messages is emptied, the round has been closed already.
LEMMA BarAnswer ==
  ASSUME IInv, Answer
  PROVE  UNCHANGED Rounds!vars
<1> USE ConstantsAssumption DEF IInv, TypeOK, Answer, workerVars
<1>1. ContributedBar' = ContributedBar /\ it' = it
  BY DEF ContributedBar
<1>2. ClosedBar' = ClosedBar
  <2>1. CASE sent + 1 = N
    <3>1. Len(msgs') = 0 /\ iteration' = iteration + 1
      BY <2>1
    <3>2. QED  BY <3>1 DEF ClosedBar
  <2>2. CASE sent + 1 # N
    BY <2>2 DEF ClosedBar
  <2>3. QED  BY <2>1, <2>2
<1>3. QED
  BY <1>1, <1>2 DEF Rounds!vars, ContributedBar, ClosedBar

\* Everything else leaves the rounds as they are.
LEMMA BarOther ==
  ASSUME IInv,
         \/ \E w \in Worker : Load(w) \/ LeaveGather(w) \/ EnterReduce(w) \/ LeaveReduce(w) \/ Fail(w)
         \/ MainStep \/ Ended \/ UNCHANGED vars
  PROVE  UNCHANGED Rounds!vars
<1> USE DEF IInv, TypeOK
<1>1. it' = it /\ iteration' = iteration /\ msgs' = msgs
  BY DEF Load, LeaveGather, EnterReduce, LeaveReduce, Fail, MainStep, Collect, Conclude, Ended,
     vars, workerVars, serverVars
<1>2. \A w \in Worker : pc'[w] = "wait" <=> pc[w] = "wait"
  BY DEF Load, LeaveGather, EnterReduce, LeaveReduce, Fail, MainStep, Collect, Conclude, Ended,
     vars, workerVars
<1>3. ContributedBar' = ContributedBar /\ ClosedBar' = ClosedBar
  BY <1>1, <1>2 DEF ContributedBar, ClosedBar
<1>4. QED
  BY <1>1, <1>3 DEF Rounds!vars, ContributedBar, ClosedBar

\* The exchange over two tags is a sequence of barrier rounds: no worker contributes
\* twice to a round or before it has the last model, and a round closes over all.
THEOREM ImplementsBarrierRounds == Spec => ImplementsRounds
<1>1. IInv /\ [Next]_vars => [Rounds!Next]_(Rounds!vars)
  <2> SUFFICES ASSUME IInv, [Next]_vars PROVE [Rounds!Next]_(Rounds!vars)  OBVIOUS
  <2>1. ASSUME NEW w \in Worker, WorkerStep(w) \/ Fail(w)
        PROVE  Rounds!Next \/ UNCHANGED Rounds!vars
    BY <2>1, BarPush, BarPull, BarOther DEF WorkerStep, Rounds!Next
  <2>2. CASE ServerStep
    BY <2>2, BarRecv, BarAnswer DEF ServerStep, Rounds!Next
  <2>3. CASE MainStep \/ Ended \/ UNCHANGED vars
    BY <2>3, BarOther
  <2>4. QED
    BY <2>1, <2>2, <2>3 DEF Next
<1>2. QED
  BY BarInit, <1>1, Invariant, PTL DEF Spec, ImplementsRounds, Rounds!Spec

\* So the exchange holds the workers together: none trains on from a model that is not
\* of the last closed round, and none is more than one round ahead of another.
THEOREM WorkersInLockstep == Spec => []Rounds!Lockstep
<1>1. IInv => Rounds!Lockstep
  <2> SUFFICES ASSUME IInv, NEW w \in Worker
               PROVE  /\ it[w] <= ClosedBar /\ ClosedBar <= ContributedBar[w]
                      /\ ContributedBar[w] <= it[w] + 1
    BY DEF Rounds!Lockstep, ContributedBar, ClosedBar
  <2>1. /\ iteration \in Nat /\ it[w] \in Nat /\ sent \in Nat /\ Len(msgs) \in Nat
        /\ Len(msgs) <= N /\ N \in Nat /\ w \in Nat /\ w >= 1 /\ w <= N
    BY ConstantsAssumption DEF IInv, TypeOK, Worker
  <2>2. sent > 0 => Len(msgs) = N
    BY DEF IInv, ServerInv
  <2>3. \/ pc[w] # "wait" /\ it[w] = Answered(w) /\ it[w] = Received(w)
        \/ pc[w] = "wait" /\ it[w] = Answered(w) /\ it[w] = Received(w)
        \/ pc[w] = "wait" /\ it[w] = Answered(w) /\ it[w] + 1 = Received(w)
        \/ pc[w] = "wait" /\ it[w] + 1 = Answered(w) /\ it[w] + 1 = Received(w)
    BY DEF IInv, ExchangeInv, Exchange
  <2>4. ContributedBar[w] = it[w] + (IF pc[w] = "wait" THEN 1 ELSE 0)
    BY DEF ContributedBar
  <2>5. QED  BY <2>1, <2>2, <2>3, <2>4 DEF Answered, Received, ClosedBar
<1>2. QED
  BY <1>1, Invariant, PTL

=============================================================================
