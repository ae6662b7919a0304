----------------------------- MODULE EnergyRegen -----------------------------
(***************************************************************************)
(* Energy over time: handlers spend it, purchases refill it, levels raise  *)
(* its maximum, and the energy worker gives a unit back every period to the *)
(* users whose energyFull is false.  The worker reads those users OUTSIDE  *)
(* any transaction and saves each in a transaction of its own.             *)
(*                                                                         *)
(* A handler is one transaction on the user document and one action.       *)
(***************************************************************************)
EXTENDS Farmer, CronJobs

CONSTANTS
  Users, CreatedAt,        \* CreatedAt orders the users of a batch
  InitExperiences,
  EnergyConsume, ExperiencesGain,   \* of what a player does
  DogEnergyReduce, PetExperience,
  Percentages,             \* energyPurchases: parts of the maximum on sale
  RegenTime,               \* energyRegen.time
  TickTimes,               \* seconds a job may find to have passed
  Workers, MaxQueue, MaxRetries,
  LeastEnergy, MaxLevel, MaxExperiences,  \* bounds: players stop there
  NoCopy

Copies == [energy : Nat, energyRegenTime : Nat, energyFull : BOOLEAN]

\* A user as read, the same document as changed since, the level that was read, the
\* time to add and the retries so far.
Tasks == [read : Copies, mem : Copies, level : Nat \ {0}, time : Nat, tries : Nat]

ASSUME RegenAssumption ==
  /\ IsFiniteSet(Users)
  /\ CreatedAt \in [Users -> Nat]
  /\ InitExperiences \in [Users -> Nat]
  \* Spending nothing would mark a full user as due.
  /\ EnergyConsume \in Nat \ {0} /\ DogEnergyReduce \in Nat \ {0}
  /\ ExperiencesGain \in Nat \ {0} /\ PetExperience \in Nat \ {0}
  /\ Percentages \subseteq Nat \ {0}
  /\ RegenTime \in Nat \ {0}
  /\ TickTimes \subseteq Nat \ {0}
  /\ NoCopy \notin Tasks

VARIABLES
  users,   \* energy, energyFull, level and experiences of the user documents
  regen,   \* regen[u]: energyRegenTime of user u
  queue,   \* BullMQ queue of the energy jobs
  task     \* task[w][u]: the copy of user u worker w holds in memory

vars == <<users, regen, queue, task>>

\* A new user has the energy of the first level.
Init ==
  /\ users = [u \in Users |-> [energy |-> MaxEnergy(1), energyFull |-> TRUE,
                               level |-> 1, experiences |-> InitExperiences[u]]]
  /\ regen = [u \in Users |-> 0]
  /\ queue = <<>>
  /\ task = [w \in Workers |-> [u \in Users |-> NoCopy]]

-----------------------------------------------------------------------------
(* Handlers.                                                               *)

Bounded(f) ==
  f.energy >= LeastEnergy /\ f.level <= MaxLevel /\ f.experiences <= MaxExperiences

SetUsers(new) ==
  /\ \A u \in Users : new[u] # users[u] => Bounded(new[u])
  /\ users' = new
  /\ UNCHANGED <<regen, queue, task>>

\* Everything a player does costs energy and gives experiences.
Act(u) ==
  /\ CanSpend(users[u], EnergyConsume)
  /\ SetUsers([users EXCEPT ![u] = Work(@, EnergyConsume, ExperiencesGain)])

\* The dog of a neighbour bites the thief u, and the neighbour gains experiences;
\* subtract throws when the thief has less than that.
Bitten(u, neighbor) ==
  /\ u # neighbor
  /\ CanSpend(users[u], DogEnergyReduce)
  /\ SetUsers([users EXCEPT ![u] = SpendEnergy(@, DogEnergyReduce),
                            ![neighbor] = AddExperiences(@, PetExperience)])

Bought(f, percentage) ==
  SmallerOf(MaxEnergy(f.level), f.energy + (MaxEnergy(f.level) * percentage) \div 100)
    - f.energy

\* A transaction that is not confirmed by the chain changes nothing.
BuyEnergy(u, percentage) ==
  /\ ~ users[u].energyFull
  /\ SetUsers([users EXCEPT ![u] = AddEnergy(@, Bought(@, percentage))])

-----------------------------------------------------------------------------
(* Scheduler and workers.                                                  *)

Due == {u \in Users : ~ users[u].energyFull}

\* Nothing due: the scheduler returns early.
Schedule(time) ==
  /\ Due # {}
  /\ Len(queue) + CeilDiv(Cardinality(Due), BatchSize) <= MaxQueue
  /\ queue' = queue \o Batches(Cardinality(Due), time)
  /\ UNCHANGED <<users, regen, task>>

Idle(w) == \A u \in Users : task[w][u] = NoCopy

Read(u) ==
  [energy |-> users[u].energy, energyRegenTime |-> regen[u],
   energyFull |-> users[u].energyFull]

WorkerReads(w) ==
  /\ Idle(w) /\ queue # <<>>
  /\ task' = [task EXCEPT ![w] =
       [u \in Users |-> IF u \in Page(Due, CreatedAt, Head(queue))
                          THEN [read |-> Read(u), mem |-> Read(u), level |-> users[u].level,
                                time |-> Head(queue).time, tries |-> 0]
                          ELSE NoCopy]]
  /\ queue' = Tail(queue)
  /\ UNCHANGED <<users, regen>>

\* "Removed old job": the job waited longer than the cron timeout.
WorkerDropsJob(w) ==
  /\ Idle(w) /\ queue # <<>>
  /\ queue' = Tail(queue)
  /\ UNCHANGED <<users, regen, task>>

\* Mutant: the energy given is not compared with the maximum.
RestedForEver(c, time, level) ==
  IF c.energyRegenTime + time < RegenTime
    THEN [c EXCEPT !.energyRegenTime = @ + time]
    ELSE [c EXCEPT !.energy = @ + 1, !.energyRegenTime = 0]

\* Mutant: a retry does not look at energyFull again.
RestedAgain(c, time, level) ==
  IF c.energyRegenTime + time < RegenTime
    THEN [c EXCEPT !.energyRegenTime = @ + time]
    ELSE [c EXCEPT !.energy = @ + 1, !.energyRegenTime = 0,
                   !.energyFull = c.energy + 1 >= MaxEnergy(level)]

\* Mutant: the period is taken off a timer that never got the time.
RestedWithCarry(c, time, level) ==
  IF c.energyFull THEN c
  ELSE IF c.energyRegenTime + time < RegenTime
    THEN [c EXCEPT !.energyRegenTime = @ + time]
  ELSE [c EXCEPT !.energy = @ + 1, !.energyRegenTime = @ - RegenTime,
                 !.energyFull = c.energy + 1 >= MaxEnergy(level)]

\* updateUser
Rested(c, time, level) ==
  IF c.energyFull THEN c
  ELSE IF c.energyRegenTime + time < RegenTime
    THEN [c EXCEPT !.energyRegenTime = @ + time]
  ELSE [c EXCEPT !.energy = @ + 1, !.energyRegenTime = 0,
                 !.energyFull = c.energy + 1 >= MaxEnergy(level)]

Aged(job) == [job EXCEPT !.mem = Rested(job.mem, job.time, job.level)]

\* A save writes the paths that differ from what was read.
Kept(old, read, mem) == IF mem = read THEN old ELSE mem

WorkerSaves(w, u) ==
  LET job == Aged(task[w][u])
  IN  /\ task[w][u] # NoCopy
      /\ users' = [users EXCEPT
           ![u].energy = Kept(@, job.read.energy, job.mem.energy),
           ![u].energyFull = Kept(@, job.read.energyFull, job.mem.energyFull)]
      /\ regen' = [regen EXCEPT
           ![u] = Kept(@, job.read.energyRegenTime, job.mem.energyRegenTime)]
      /\ task' = [task EXCEPT ![w][u] = NoCopy]
      /\ UNCHANGED queue

\* The save met the write of a handler: withTransaction runs the callback again, on
\* the copy that has rested already.
WorkerRetries(w, u) ==
  /\ task[w][u] # NoCopy
  /\ task[w][u].tries < MaxRetries
  /\ task' = [task EXCEPT ![w][u] = [Aged(task[w][u]) EXCEPT !.tries = @ + 1]]
  /\ UNCHANGED <<users, regen, queue>>

\* A crash, or an error that is logged and swallowed.
WorkerFails(w, u) ==
  /\ task[w][u] # NoCopy
  /\ task' = [task EXCEPT ![w][u] = NoCopy]
  /\ UNCHANGED <<users, regen, queue>>

-----------------------------------------------------------------------------
Next ==
  \/ \E u \in Users : Act(u)
  \/ \E u, neighbor \in Users : Bitten(u, neighbor)
  \/ \E u \in Users, percentage \in Percentages : BuyEnergy(u, percentage)
  \/ \E time \in TickTimes : Schedule(time)
  \/ \E w \in Workers : WorkerReads(w) \/ WorkerDropsJob(w)
  \/ \E w \in Workers, u \in Users :
       WorkerSaves(w, u) \/ WorkerRetries(w, u) \/ WorkerFails(w, u)

Spec == Init /\ [][Next]_vars

\* The scheduler ticks every second and the workers serve the queue: jobs and saves may
\* fail, but not for ever.
Fairness ==
  /\ WF_vars(\E time \in TickTimes : Schedule(time))
  /\ \A w \in Workers :
       /\ SF_vars(WorkerReads(w))
       /\ \A u \in Users : SF_vars(WorkerSaves(w, u))

FairSpec == Spec /\ Fairness

-----------------------------------------------------------------------------
(* Properties.                                                             *)

\* Types: no handler and no stale save drives energy below zero.
TypeOK ==
  /\ users \in [Users -> Farmers]
  /\ regen \in [Users -> Nat]
  /\ queue \in Seq(Jobs)
  /\ task \in [Workers -> [Users -> Tasks \cup {NoCopy}]]

\* Energy never exceeds the maximum of the level, although a worker saves what it
\* computed from an old energy and an old level over purchases and level-ups, and
\* computes it again when it is retried.
EnergyWithinMaximum == \A u \in Users : users[u].energy <= MaxEnergy(users[u].level)

\* A user who is due is below the maximum: nobody is regenerated, and nobody may buy
\* energy, who has all of it.
DueBelowMaximum ==
  \A u \in Users : ~ users[u].energyFull => users[u].energy < MaxEnergy(users[u].level)

\* Who is due gets energy, by rest or by purchase, unless they spend it, whatever
\* jobs are dropped, whatever saves fail and however stale the copies are.
EnergyReturns ==
  \A u \in Users, e \in LeastEnergy .. MaxEnergy(MaxLevel) :
    (~ users[u].energyFull /\ users[u].energy = e) ~> users[u].energy # e

\* Claimed of energyFull, "Whether the user's energy is full".
FullMeansFull ==
  \A u \in Users : users[u].energyFull => users[u].energy = MaxEnergy(users[u].level)
=============================================================================
