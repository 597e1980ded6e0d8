----------------------------- MODULE RingGossip -----------------------------
(***************************************************************************)
(* Decentralized gossip on a ring (sync_mode "gossip", P3-11).             *)
(*                                                                         *)
(* core/gossip_protocol.py, with the loops of applications/logreg/         *)
(* gossip_run.py and applications/kmeans/gossip_run.py.  In a round a rank *)
(* calls sendrecv twice for every ring distance d, always in the order     *)
(* (to rank+d, from rank-d), (to rank-d, from rank+d), all under one tag,  *)
(* and mixes what it received.  There is no coordinator and no barrier;    *)
(* before the loop the k-means ranks share their seeds in one broadcast.   *)
(*                                                                         *)
(* A state is abstracted to its sender and the round it was made in.       *)
(***************************************************************************)
EXTENDS Integers, Sequences, FiniteSets

CONSTANTS
  N,        \* size of the workers' communicator
  Fanouts,  \* the values of gossip_fanout a job may be started with
  R,        \* max_iter
  Tol       \* TRUE: tol > 0, a rank whose model no longer moves freezes its refit

ASSUME ConstantsAssumption ==
  /\ N \in Nat \ {0}
  /\ Fanouts \subseteq Nat \ {0}
  /\ R \in Nat \ {0}
  /\ Tol \in BOOLEAN

VARIABLES
  application, \* "logreg" or "kmeans"
  fanout,  \* gossip_fanout of the job
  entered, \* ranks that have called the broadcast of the seeds
  pc,      \* rank: "load", "seed" (in the broadcast), "step", "post" (enters a
           \*       sendrecv), "recv", "send" (its message still has to be taken),
           \*       "mix", "done", "failed"
  it,      \* rank: iterations_done
  call,    \* rank: sendrecv calls completed in this round
  got,     \* rank: states received in this round, one per sender
  frozen,  \* rank: the local refit is frozen
  net      \* <<from, to>>: messages in flight, in the order they were sent

jobVars == <<application, fanout>>
vars == <<jobVars, entered, pc, it, call, got, frozen, net>>

Rank == 0..(N - 1)
State == [rank : Rank, worker_round : 0..(R - 1)]

MaxDist == IF fanout <= N \div 2 THEN fanout ELSE N \div 2

\* The peers of a rank: those at ring distance at most MaxDist.
ring_neighbors(r) ==
  (UNION {{(r + d) % N, (r - d) % N} : d \in 1..MaxDist}) \ {r}

\* The c-th sendrecv of a round goes to Dest and waits for Source.
Distance(c) == 1 + (c \div 2)
Dest(r, c)   == IF c % 2 = 0 THEN (r + Distance(c)) % N ELSE (r - Distance(c)) % N
Source(r, c) == IF c % 2 = 0 THEN (r - Distance(c)) % N ELSE (r + Distance(c)) % N
Calls == 2 * MaxDist

Init ==
  /\ application \in {"logreg", "kmeans"}
  /\ fanout \in Fanouts
  /\ entered = {}
  /\ pc = [r \in Rank |-> "load"]
  /\ it = [r \in Rank |-> 0]
  /\ call = [r \in Rank |-> 0]
  /\ got = [r \in Rank |-> {}]
  /\ frozen = [r \in Rank |-> FALSE]
  /\ net = [c \in Rank \X Rank |-> <<>>]

----------------------------------------------------------------------------
\* Loads and counts its rows; rank 0 also draws the k-means seeds.
Load(r) ==
  /\ pc[r] = "load"
  /\ IF application = "kmeans"
     THEN pc' = [pc EXCEPT ![r] = "seed"] /\ entered' = entered \cup {r}
     ELSE pc' = [pc EXCEPT ![r] = "step"] /\ UNCHANGED entered
  /\ UNCHANGED <<jobVars, it, call, got, frozen, net>>

\* comm.bcast(seed_c, root=0) returns: nobody has the seeds before rank 0 is there.
LeaveBcast(r) ==
  /\ pc[r] = "seed"
  /\ 0 \in entered
  /\ pc' = [pc EXCEPT ![r] = "step"]
  /\ UNCHANGED <<jobVars, entered, it, call, got, frozen, net>>

\* The local step, which a frozen rank leaves out; the payload is fixed here.  A rank
\* that is alone has nobody to exchange with.
Step(r) ==
  /\ pc[r] = "step"
  /\ got' = [got EXCEPT ![r] = {}]
  /\ pc' = [pc EXCEPT ![r] = IF Calls = 0 THEN "mix" ELSE "post"]
  /\ UNCHANGED <<jobVars, entered, it, call, frozen, net>>

\* Loading, the local step, the mixing or the final evaluation raises: the rank makes
\* no further call, whoever waits for it.
Fail(r) ==
  /\ pc[r] \in {"load", "mix", "done"} \/ (pc[r] = "step" /\ ~frozen[r])
  /\ pc' = [pc EXCEPT ![r] = "failed"]
  /\ UNCHANGED <<jobVars, entered, it, call, got, frozen, net>>

Mine(r) == [rank |-> r, worker_round |-> it[r]]

\* sendrecv: the send half is started, then the receive half waits.
Post(r) ==
  LET link == <<r, Dest(r, call[r])>> IN
  /\ pc[r] = "post"
  /\ net' = [net EXCEPT ![link] = Append(@, Mine(r))]
  /\ pc' = [pc EXCEPT ![r] = "recv"]
  /\ UNCHANGED <<jobVars, entered, it, call, got, frozen>>

\* The message of the sendrecv has been received: its send half must be complete.
\* MPI may buffer a message, so it may be before; the code cannot rely on it.
Taken(r) == net[<<r, Dest(r, call[r])>>] = <<>>

\* Mutant: send, then receive: the receive half waits for the send half.
RecvAfterSend(r) ==
  LET link == <<Source(r, call[r]), r>> IN
  /\ pc[r] = "recv"
  /\ Taken(r)
  /\ net[link] # <<>>
  /\ got' = [got EXCEPT ![r] = @ \cup {Head(net[link])}]
  /\ net' = [net EXCEPT ![link] = Tail(@)]
  /\ pc' = [pc EXCEPT ![r] = "send"]
  /\ UNCHANGED <<jobVars, entered, it, call, frozen>>

\* Mutant: recv from any source.
RecvFromAny(r) ==
  /\ pc[r] = "recv"
  /\ \E s \in Rank :
       /\ net[<<s, r>>] # <<>>
       /\ LET msg == Head(net[<<s, r>>]) IN
            got' = [got EXCEPT ![r] = IF \E g \in @ : g.rank = msg.rank THEN @ ELSE @ \cup {msg}]
       /\ net' = [net EXCEPT ![<<s, r>>] = Tail(@)]
  /\ pc' = [pc EXCEPT ![r] = "send"]
  /\ UNCHANGED <<jobVars, entered, it, call, frozen>>

\* The receive half: the oldest message of the source, kept if it is the first of
\* its sender.
Recv(r) ==
  LET link == <<Source(r, call[r]), r>> IN
  /\ pc[r] = "recv"
  /\ net[link] # <<>>
  /\ LET msg == Head(net[link]) IN
       got' = [got EXCEPT ![r] = IF \E g \in @ : g.rank = msg.rank THEN @ ELSE @ \cup {msg}]
  /\ net' = [net EXCEPT ![link] = Tail(@)]
  /\ pc' = [pc EXCEPT ![r] = "send"]
  /\ UNCHANGED <<jobVars, entered, it, call, frozen>>

\* sendrecv returns when its send half has completed too.
Return(r) ==
  /\ pc[r] = "send"
  /\ call' = [call EXCEPT ![r] = @ + 1]
  /\ pc' = [pc EXCEPT ![r] = IF call[r] + 1 = Calls THEN "mix" ELSE "post"]
  /\ UNCHANGED <<jobVars, entered, it, got, frozen, net>>

\* consensus_mix of the rank's own state with those received; a model that moved
\* less than tol freezes the refit but not the exchanges.
Mix(r) ==
  /\ pc[r] = "mix"
  /\ it' = [it EXCEPT ![r] = @ + 1]
  /\ call' = [call EXCEPT ![r] = 0]
  /\ \E still \in (IF Tol THEN BOOLEAN ELSE {FALSE}) :
       frozen' = [frozen EXCEPT ![r] = @ \/ still]
  /\ pc' = [pc EXCEPT ![r] = IF it[r] + 1 = R THEN "done" ELSE "step"]
  /\ UNCHANGED <<jobVars, entered, got, net>>

\* Those that are blocked by a failure stay so: there is no timeout.
Ended == (\A r \in Rank : pc[r] \in {"done", "failed"}) /\ UNCHANGED vars

Progress(r) == Load(r) \/ LeaveBcast(r) \/ Step(r) \/ Post(r) \/ Recv(r) \/ Return(r) \/ Mix(r)

RankStep(r) == Progress(r) \/ Fail(r)

Next == (\E r \in Rank : RankStep(r)) \/ Ended

Spec == Init /\ [][Next]_vars

\* A sendrecv returns for certain only when its message has been received, a broadcast
\* only when all ranks have called it.
Completes(r) == (pc[r] = "send" => Taken(r)) /\ (pc[r] = "seed" => entered = Rank)

\* Every process that can move does; nothing obliges it to fail.
FairSpec == Spec /\ \A r \in Rank : WF_vars(Completes(r) /\ Progress(r))

----------------------------------------------------------------------------
(* Properties *)

TypeOK ==
  /\ application \in {"logreg", "kmeans"}
  /\ fanout \in Fanouts
  /\ entered \in SUBSET Rank
  /\ pc \in [Rank -> {"load", "seed", "step", "post", "recv", "send", "mix", "done", "failed"}]
  /\ it \in [Rank -> 0..R]
  /\ call \in [Rank -> 0..Calls]
  /\ got \in [Rank -> SUBSET State]
  /\ frozen \in [Rank -> BOOLEAN]
  /\ net \in [Rank \X Rank -> Seq(State)]

\* What a rank mixes is the state of the same round of each of its ring neighbours,
\* once, although the ranks drift apart and all messages have one tag, also on the
\* rings where the offsets +d and -d meet, and also when some rank has failed.
MixesItsRound ==
  \A r \in Rank : pc[r] = "mix" =>
    got[r] = {[rank |-> p, worker_round |-> it[r]] : p \in ring_neighbors(r)}

\* "deadlock-free": with every process scheduled, although no message need be
\* buffered, every rank gets to the end, frozen or not, if no rank fails before it has
\* made all its rounds. The premise is needed: a sendrecv with a rank that failed
\* (gossip_protocol.py:113) never returns, and in the end blocks the whole ring.
AllFinish ==
  [](\A r \in Rank : pc[r] = "failed" => it[r] = R)
  => <>(\A r \in Rank : pc[r] \in {"done", "failed"})
=============================================================================
