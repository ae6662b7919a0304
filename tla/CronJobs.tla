------------------------------ MODULE CronJobs ------------------------------
(***************************************************************************)
(* How the cron schedulers cut what is due into jobs, and which documents a *)
(* worker takes for a job.  The schedulers of plants and of energy share   *)
(* this text; each counts its own documents.                               *)
(***************************************************************************)
EXTENDS Integers, Sequences, FiniteSets

CONSTANT BatchSize

ASSUME BatchAssumption == BatchSize \in Nat \ {0}

\* The data of a BullMQ job.
Jobs == [time : Nat, skip : Nat, take : Nat]

CeilDiv(n, d) == (n + d - 1) \div d

SmallerOf(m, n) == IF m < n THEN m ELSE n

\* Mutant: batches numbered from one skip the newest documents.
BatchesFromOne(count, time) ==
  [i \in 1 .. CeilDiv(count, BatchSize) |->
     [time |-> time, skip |-> i * BatchSize, take |-> SmallerOf(i * BatchSize, count)]]

\* The jobs of one tick, time seconds after the previous one.  take is the end of the
\* batch, not its length.
Batches(count, time) ==
  [i \in 1 .. CeilDiv(count, BatchSize) |->
     [time |-> time, skip |-> (i - 1) * BatchSize, take |-> SmallerOf(i * BatchSize, count)]]

\* find().sort({ createdAt: "desc" }).skip().limit() over what is due by now.
Page(due, createdAt, job) ==
  LET before(d) == Cardinality({e \in due : createdAt[e] > createdAt[d]})
  IN  {d \in due : job.skip <= before(d) /\ before(d) < job.skip + job.take}
=============================================================================
