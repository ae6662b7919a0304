---------------------------- MODULE ClusterProofs ----------------------------
(***************************************************************************)
(* Theorems about what runs on several nodes at once: LeaderElection, for  *)
(* every number of replicas and of the tasks they run; Presence, for every *)
(* number of sockets of a user; EnergyRegen, for every number of users and *)
(* workers.                                                                *)
(*                                                                         *)
(* The argument of the election follows a body from the answer of the API  *)
(* server to the write: as long as its resource version is that of the     *)
(* lease, what the replica decided on is what the lease says.  A write     *)
(* that is accepted therefore takes the lease from no one whose claim is   *)
(* fresh.                                                                  *)
(***************************************************************************)
EXTENDS LeaderElection, Presence, EnergyRegen, ServiceProofs, FiniteSetTheorems, TLAPS

-----------------------------------------------------------------------------
(* The election: the inductive invariant.                                  *)

\* What a task of r knows.
TaskSound(r, t) ==
  /\ t.kind = "none" => t.pc = "idle"
  /\ t.kind = "release" => node[r].isShuttingDown
  /\ t.pc = "create" => t.body.holder = r
  /\ t.pc = "got" /\ Unmodified(t.body) =>
       t.body.holder = lease.holder /\ t.body.age = lease.age
  /\ t.pc = "put" =>
       /\ t.body.holder = IF t.kind = "release" THEN None ELSE r
       /\ Unmodified(t.body) =>
            \/ t.kind = "elect" /\ (lease.holder = None \/ lease.age > Duration)
            \/ t.kind # "elect" /\ lease.holder = r

TasksSound == \A r \in Replicas, s \in Slots : TaskSound(r, tasks[r][s])

\* A replica that is gone does nothing any more.
Silent(r) ==
  /\ ~ node[r].isLeader /\ ~ node[r].renewing /\ ~ node[r].watching
  /\ events[r] = <<>>
  /\ \A s \in Slots : tasks[r][s] = IdleTask

GoneIsSilent == \A r \in Replicas : node[r].up = "gone" => Silent(r)

\* The age of the lease is the age of what its holder wrote last.
ClaimIsLease == lease.there => \A r \in Replicas : lease.holder = r => claim[r] = lease.age

\* FreshLeaderHolds for every replica that runs, whether it knows that it leads or not.
Runs(r) == node[r].up # "gone" /\ ~ node[r].isShuttingDown
FreshHolds ==
  \A r \in Replicas : Runs(r) /\ claim[r] <= Duration => lease.there /\ lease.holder = r

IInv == LETypeOK /\ TasksSound /\ GoneIsSilent /\ ClaimIsLease /\ FreshHolds

-----------------------------------------------------------------------------
(* Ages and versions.                                                      *)

LEMMA AgesAreNat == Ages \subseteq Nat /\ 0 \in Ages /\ Void \in Ages /\ Void > Duration
BY LeaderElectionAssumption DEF Ages, Void

LEMMA OlderType ==
  ASSUME NEW a \in Ages
  PROVE  /\ Older(a) \in Ages
         /\ a > Duration => Older(a) > Duration
         /\ Older(a) <= Duration => a <= Duration
BY LeaderElectionAssumption DEF Ages, Older, Void

\* A function takes no more values than it has arguments.
LEMMA ImageBound ==
  ASSUME NEW f, NEW S, S = DOMAIN f, IsFiniteSet(S)
  PROVE  /\ IsFiniteSet({f[x] : x \in S})
         /\ Cardinality({f[x] : x \in S}) <= Cardinality(S)
<1> DEFINE T == {f[x] : x \in S}
           g == [x \in S |-> f[x]]
<1>1. g \in [S -> T] /\ \A y \in T : \E x \in S : g[x] = y
  OBVIOUS
<1>2. g \in Surjection(S, T)
  BY <1>1 DEF Surjection
<1> HIDE DEF T, g
<1>3. IsFiniteSet(T) /\ Cardinality(T) <= Cardinality(S)
  BY <1>2, FS_Surjection
<1> QED BY <1>3 DEF T

\* There is always a version that nobody holds, because fewer are held than there are.
LEMMA NewVersionIsNew == NewVersion \in Versions /\ NewVersion \notin InUse
<1> DEFINE A == {node[r].version : r \in Replicas}
           B == {tasks[r][s].body.ver : r \in Replicas, s \in Slots}
           fA == [r \in Replicas |-> node[r].version]
           fB == [p \in Replicas \X Slots |-> tasks[p[1]][p[2]].body.ver]
<1>1. IsFiniteSet(A) /\ Cardinality(A) <= Cardinality(Replicas)
  <2>1. A = {fA[r] : r \in Replicas} /\ DOMAIN fA = Replicas
    OBVIOUS
  <2> HIDE DEF A, fA
  <2> QED BY <2>1, ImageBound, LeaderElectionAssumption
<1>2. IsFiniteSet(B) /\ Cardinality(B) <= Cardinality(Replicas) * Cardinality(Slots)
  <2>1. B = {fB[p] : p \in Replicas \X Slots}
    <3>1. \A r \in Replicas, s \in Slots : fB[<<r, s>>] = tasks[r][s].body.ver
      OBVIOUS
    <3>2. \A p \in Replicas \X Slots : \E r \in Replicas, s \in Slots : p = <<r, s>>
      OBVIOUS
    <3>3. \A r \in Replicas, s \in Slots : <<r, s>> \in Replicas \X Slots
      OBVIOUS
    <3> HIDE DEF fB
    <3>4. ASSUME NEW p \in Replicas \X Slots PROVE fB[p] \in B
      <4>1. PICK r \in Replicas, s \in Slots : p = <<r, s>>
        BY <3>2
      <4> QED BY <3>1, <4>1
    <3>5. ASSUME NEW b \in B PROVE \E p \in Replicas \X Slots : b = fB[p]
      <4>1. PICK r \in Replicas, s \in Slots : b = tasks[r][s].body.ver
        OBVIOUS
      <4>2. b = fB[<<r, s>>]
        BY <3>1, <4>1
      <4> QED BY <3>3, <4>2
    <3> HIDE DEF B
    <3> QED BY <3>4, <3>5
  <2>2. /\ IsFiniteSet(Replicas \X Slots)
        /\ Cardinality(Replicas \X Slots) = Cardinality(Replicas) * Cardinality(Slots)
    BY FS_Product, LeaderElectionAssumption
  <2>3. DOMAIN fB = Replicas \X Slots
    OBVIOUS
  <2> HIDE DEF B, fB
  <2>4. IsFiniteSet(B) /\ Cardinality(B) <= Cardinality(Replicas \X Slots)
    BY <2>1, <2>2, <2>3, ImageBound
  <2> QED BY <2>2, <2>4
<1>3. InUse = ({lease.ver} \cup A) \cup B
  BY DEF InUse
<1> HIDE DEF A, B
<1>4. IsFiniteSet({lease.ver}) /\ Cardinality({lease.ver}) = 1
  BY FS_Singleton
<1>a. ASSUME NEW S, NEW T, IsFiniteSet(S), IsFiniteSet(T)
      PROVE  IsFiniteSet(S \cup T) /\ Cardinality(S \cup T) <= Cardinality(S) + Cardinality(T)
  <2>1. Cardinality(S) \in Nat /\ Cardinality(T) \in Nat /\ Cardinality(S \cap T) \in Nat
    <3>1. IsFiniteSet(S \cap T)
      BY <1>a, FS_Subset
    <3> QED BY <1>a, <3>1, FS_CardinalityType
  <2>2. /\ IsFiniteSet(S \cup T)
        /\ Cardinality(S \cup T) = Cardinality(S) + Cardinality(T) - Cardinality(S \cap T)
    BY <1>a, FS_Union
  <2> QED BY <2>1, <2>2
<1>5. /\ Cardinality(Replicas) \in Nat /\ Cardinality(Slots) \in Nat
      /\ Cardinality(A) \in Nat /\ Cardinality(B) \in Nat
  BY <1>1, <1>2, FS_CardinalityType, LeaderElectionAssumption
<1>6. IsFiniteSet({lease.ver} \cup A) /\ Cardinality({lease.ver} \cup A) <= 1 + Cardinality(A)
  BY <1>1, <1>4, <1>a
<1>7. IsFiniteSet(InUse) /\ Cardinality(InUse) <= 1 + Cardinality(A) + Cardinality(B)
  <2>1. /\ IsFiniteSet(InUse)
        /\ Cardinality(InUse) <= Cardinality({lease.ver} \cup A) + Cardinality(B)
    BY <1>2, <1>3, <1>6, <1>a
  <2>2. Cardinality({lease.ver} \cup A) \in Nat /\ Cardinality(InUse) \in Nat
    BY <1>6, <2>1, FS_CardinalityType
  <2> QED BY <1>5, <1>6, <2>1, <2>2
<1>8. Cardinality(InUse) <= 1 + Cardinality(Replicas) * (1 + Cardinality(Slots))
  <2> DEFINE x == Cardinality(Replicas)
             y == Cardinality(Slots)
  <2>1. x * (1 + y) = x + x * y
    BY <1>5
  <2>2. x * y \in Nat
    BY <1>5
  <2> QED BY <1>1, <1>2, <1>5, <1>7, <2>1, <2>2, FS_CardinalityType
<1>9. ~ (Versions \subseteq InUse)
  <2> SUFFICES ASSUME Versions \subseteq InUse PROVE FALSE
    OBVIOUS
  <2>1. IsFiniteSet(Versions) /\ Cardinality(Versions) <= Cardinality(InUse)
    BY <1>7, FS_Subset
  <2>2. Cardinality(Versions) > 1 + Cardinality(Replicas) * (1 + Cardinality(Slots))
    BY <2>1, LeaderElectionAssumption
  <2>3. /\ Cardinality(Versions) \in Nat /\ Cardinality(InUse) \in Nat
        /\ Cardinality(Replicas) * (1 + Cardinality(Slots)) \in Nat
    BY <1>5, <1>7, <2>1, FS_CardinalityType
  <2> QED BY <1>8, <2>1, <2>2, <2>3
<1> QED BY <1>9 DEF NewVersion

-----------------------------------------------------------------------------
(* The helpers of the service.                                             *)

\* The body a task is about to write.
LEMMA PutType ==
  ASSUME NEW t \in ElectionTasks, NEW holder \in Holders, NEW age \in Ages
  PROVE  /\ Body(t, holder, age) \in ElectionTasks
         /\ Body(t, holder, age).pc = "put" /\ Body(t, holder, age).kind = t.kind
         /\ Body(t, holder, age).body.holder = holder
         /\ Body(t, holder, age).body.ver = t.body.ver
<1> DEFINE b == [t.body EXCEPT !.holder = holder, !.age = age]
<1>1. b \in Bodies /\ b.holder = holder /\ b.ver = t.body.ver
  BY DEF ElectionTasks, Bodies
<1>2. Body(t, holder, age) = [t EXCEPT !.pc = "put", !.body = b]
  BY DEF Body, ElectionTasks, Bodies
<1> HIDE DEF b
<1> QED BY <1>1, <1>2 DEF ElectionTasks

\* The states a task may be in without knowing anything of the lease.
Quiet(t) == t.pc \in {"idle", "attempt", "get", "acked"}

LEMMA IdleType == NoBody \in Bodies /\ IdleTask \in ElectionTasks
BY AgesAreNat, LeaderElectionAssumption DEF NoBody, Bodies, Holders, Vers, IdleTask, ElectionTasks

LEMMA StartType ==
  ASSUME NEW kind \in {"elect", "renew", "release"}
  PROVE  /\ Start(kind) \in ElectionTasks /\ Quiet(Start(kind))
         /\ Start(kind).kind = kind
BY IdleType DEF Start, IdleTask, ElectionTasks, Quiet

LEMMA NextAttemptType ==
  ASSUME NEW t \in ElectionTasks, t.kind # "none"
  PROVE  /\ NextAttempt(t) \in ElectionTasks /\ Quiet(NextAttempt(t))
         /\ NextAttempt(t) = IdleTask \/ NextAttempt(t).kind = t.kind
<1>1. CASE t.try + 1 >= ElectionRetries
  BY <1>1, IdleType DEF NextAttempt, Quiet, IdleTask
<1>2. CASE ~ (t.try + 1 >= ElectionRetries)
  <2> DEFINE u == Start(t.kind)
             again == t.try + 1
  <2>1. u \in ElectionTasks /\ Quiet(u) /\ u.kind = t.kind
    BY StartType DEF ElectionTasks
  <2>2. again \in 0 .. ElectionRetries
    BY <1>2, LeaderElectionAssumption DEF ElectionTasks
  <2>3. NextAttempt(t) = [u EXCEPT !.try = again]
    BY <1>2 DEF NextAttempt
  <2> HIDE DEF u, again
  <2> QED BY <2>1, <2>2, <2>3 DEF ElectionTasks, Quiet
<1> QED BY <1>1, <1>2

\* What the helpers change of a node: never whether it runs.
SameRun(m, n) == n \in Nodes /\ n.up = m.up /\ n.isShuttingDown = m.isShuttingDown

LEMMA HelpersType ==
  ASSUME NEW n \in Nodes
  PROVE  /\ SameRun(n, n)
         /\ SameRun(n, Failed(n)) /\ SameRun(n, Succeeded(n))
         /\ SameRun(n, LoseLeadership(n)) /\ SameRun(n, BecomeLeader(n))
         /\ SameRun(n, LoseLeadership(Failed(n)))
<1>1. MaxFailures \in Nat
  BY LeaderElectionAssumption
<1>2. SameRun(n, n)
  BY DEF SameRun
<1>3. SameRun(n, Failed(n)) /\ SameRun(n, Succeeded(n))
  BY <1>1 DEF SameRun, Nodes, Failed, Succeeded
<1>4. ASSUME NEW m \in Nodes PROVE SameRun(m, LoseLeadership(m)) /\ SameRun(m, BecomeLeader(m))
  BY DEF SameRun, Nodes, LoseLeadership, BecomeLeader
<1> QED BY <1>2, <1>3, <1>4 DEF SameRun

-----------------------------------------------------------------------------
(* The steps of a task that leave the lease alone.                         *)

\* A task that is busy belongs to a replica that is there, and has a kind.
LEMMA BusyTask ==
  ASSUME IInv, NEW r \in Replicas, NEW s \in Slots, tasks[r][s].pc # "idle"
  PROVE  /\ tasks[r][s] \in ElectionTasks /\ node[r] \in Nodes
         /\ tasks[r][s].kind # "none" /\ node[r].up # "gone"
         /\ TaskSound(r, tasks[r][s])
<1>1. tasks[r][s] \in ElectionTasks /\ node[r] \in Nodes
  BY DEF IInv, LETypeOK
<1>2. TaskSound(r, tasks[r][s])
  BY DEF IInv, TasksSound
<1>3. node[r].up # "gone"
  BY DEF IInv, GoneIsSilent, Silent, IdleTask
<1> QED BY <1>1, <1>2, <1>3 DEF TaskSound

\* A quiet task is sound if a release runs in a shutdown only.
LEMMA QuietSound ==
  ASSUME NEW r, NEW t, Quiet(t), t.kind = "none" => t.pc = "idle",
         t.kind = "release" => node[r].isShuttingDown
  PROVE  TaskSound(r, t)
BY DEF Quiet, TaskSound

\* A task that goes on with what it knows, and a node that runs as before.
LEMMA LocalStep ==
  ASSUME IInv, NEW r \in Replicas, NEW s \in Slots, node[r].up # "gone",
         NEW t \in ElectionTasks, NEW n \in Nodes, Set(r, s, t, n),
         TaskSound(r, t), SameRun(node[r], n),
         NoWrite, faults' \in 0 .. MaxFaults
  PROVE  IInv'
<1>1. /\ node' = [node EXCEPT ![r] = n] /\ tasks' = [tasks EXCEPT ![r][s] = t]
      /\ UNCHANGED <<lease, events, claim>>
  BY DEF Set, NoWrite
<1>2. LETypeOK'
  BY <1>1 DEF IInv, LETypeOK
<1>3. \A q \in Replicas :
        /\ node'[q].up = node[q].up /\ node'[q].isShuttingDown = node[q].isShuttingDown
        /\ q # r => node'[q] = node[q] /\ tasks'[q] = tasks[q]
  BY <1>1 DEF IInv, LETypeOK, SameRun
<1>4. \A q \in Replicas, u \in Slots :
        tasks'[q][u] = IF q = r /\ u = s THEN t ELSE tasks[q][u]
  BY <1>1 DEF IInv, LETypeOK
<1>5. TasksSound'
  <2> SUFFICES ASSUME NEW q \in Replicas, NEW u \in Slots PROVE TaskSound(q, tasks[q][u])'
    BY DEF TasksSound
  <2>1. TaskSound(q, tasks'[q][u])
    BY <1>4 DEF IInv, TasksSound
  <2> QED BY <1>1, <1>3, <2>1 DEF TaskSound, Unmodified
<1>6. GoneIsSilent'
  <2> SUFFICES ASSUME NEW q \in Replicas, node'[q].up = "gone" PROVE Silent(q)'
    BY DEF GoneIsSilent
  <2>1. q # r /\ Silent(q)
    BY <1>3 DEF IInv, GoneIsSilent
  <2> QED BY <1>1, <1>3, <2>1 DEF Silent
<1>7. ClaimIsLease'
  BY <1>1 DEF IInv, ClaimIsLease
<1>8. FreshHolds'
  BY <1>1, <1>3 DEF IInv, FreshHolds, Runs
<1> QED BY <1>2, <1>5, <1>6, <1>7, <1>8 DEF IInv

\* A quiet task of the same kind, or no task, after a busy one.
LEMMA QuietStep ==
  ASSUME IInv, NEW r \in Replicas, NEW s \in Slots, tasks[r][s].pc # "idle",
         NEW t \in ElectionTasks, NEW n \in Nodes, Set(r, s, t, n), Quiet(t),
         t = IdleTask \/ t.kind = tasks[r][s].kind, SameRun(node[r], n),
         NoWrite, faults' \in 0 .. MaxFaults
  PROVE  IInv'
<1>1. TaskSound(r, t)
  <2>1. t.kind = "none" => t.pc = "idle"
    BY BusyTask DEF IdleTask
  <2>2. t.kind = "release" => node[r].isShuttingDown
    BY BusyTask DEF IdleTask, TaskSound
  <2> QED BY <2>1, <2>2, QuietSound
<1> QED BY <1>1, BusyTask, LocalStep

\* What is left of a task whose call threw.
LEMMA ThrowsQuiet ==
  ASSUME IInv, NEW r \in Replicas, NEW s \in Slots, tasks[r][s].pc # "idle",
         NEW mayRetry \in BOOLEAN, Throws(r, s, mayRetry)
  PROVE  \E t \in ElectionTasks, n \in Nodes :
           /\ Set(r, s, t, n)
           /\ Quiet(t)
           /\ t = IdleTask \/ t.kind = tasks[r][s].kind
           /\ SameRun(node[r], n)
<1> DEFINE t == tasks[r][s]
           n == node[r]
<1>1. t \in ElectionTasks /\ n \in Nodes /\ t.kind \in {"elect", "renew", "release"}
  BY BusyTask DEF ElectionTasks
<1>2. /\ NextAttempt(t) \in ElectionTasks /\ Quiet(NextAttempt(t))
      /\ NextAttempt(t) = IdleTask \/ NextAttempt(t).kind = t.kind
  BY <1>1, NextAttemptType
<1>3. IdleTask \in ElectionTasks /\ Quiet(IdleTask)
  BY IdleType DEF IdleTask, Quiet
<1>4. /\ SameRun(n, n) /\ SameRun(n, Failed(n)) /\ SameRun(n, LoseLeadership(Failed(n)))
      /\ Failed(n) \in Nodes /\ LoseLeadership(Failed(n)) \in Nodes
  BY <1>1, HelpersType DEF SameRun
<1>5. CASE t.kind = "elect" /\ mayRetry
  <2> DEFINE again == [Start("elect") EXCEPT !.pc = "get", !.try = t.try, !.retry = t.retry - 1]
  <2>1. Set(r, s, IF t.retry = 0 \/ n.isShuttingDown THEN NextAttempt(t) ELSE again, Failed(n))
    BY <1>5 DEF Throws
  <2>2. t.retry # 0 => again \in ElectionTasks /\ Quiet(again) /\ again.kind = t.kind
    <3> DEFINE u == Start("elect")
               left == t.retry - 1
               tries == t.try
    <3>1. u \in ElectionTasks /\ u.kind = "elect"
      BY StartType
    <3>2. t.retry # 0 => left \in 0 .. ElectionRetries
      BY <1>1, LeaderElectionAssumption DEF ElectionTasks
    <3>3. tries \in 0 .. ElectionRetries
      BY <1>1 DEF ElectionTasks
    <3>4. again = [u EXCEPT !.pc = "get", !.try = tries, !.retry = left]
      OBVIOUS
    <3> HIDE DEF u, left, tries, again
    <3> QED BY <1>5, <3>1, <3>2, <3>3, <3>4 DEF ElectionTasks, Quiet
  <2> HIDE DEF again
  <2>3. CASE t.retry = 0 \/ n.isShuttingDown
    BY <1>2, <1>4, <2>1, <2>3
  <2>4. CASE ~ (t.retry = 0 \/ n.isShuttingDown)
    BY <1>4, <2>1, <2>2, <2>4
  <2> QED BY <2>3, <2>4
<1>6. CASE t.kind = "elect" /\ ~ mayRetry
  <2>1. Set(r, s, NextAttempt(t), n)
    BY <1>6 DEF Throws
  <2> QED BY <1>1, <1>2, <1>4, <2>1
<1>7. CASE t.kind = "renew"
  <2>1. \/ Set(r, s, IdleTask, Failed(n)) \/ Set(r, s, NextAttempt(t), Failed(n))
        \/ Set(r, s, IdleTask, LoseLeadership(Failed(n)))
    BY <1>7 DEF Throws
  <2> QED BY <1>2, <1>3, <1>4, <2>1
<1>8. CASE t.kind = "release"
  <2>1. Set(r, s, IdleTask, n)
    BY <1>8 DEF Throws
  <2> QED BY <1>1, <1>3, <1>4, <2>1
<1> QED BY <1>1, <1>5, <1>6, <1>7, <1>8

LEMMA ThrowsStep ==
  ASSUME IInv, NEW r \in Replicas, NEW s \in Slots, tasks[r][s].pc # "idle",
         NEW mayRetry \in BOOLEAN, Throws(r, s, mayRetry),
         NoWrite, faults' \in 0 .. MaxFaults
  PROVE  IInv'
<1>1. PICK t \in ElectionTasks, n \in Nodes :
        /\ Set(r, s, t, n) /\ Quiet(t)
        /\ t = IdleTask \/ t.kind = tasks[r][s].kind
        /\ SameRun(node[r], n)
  BY ThrowsQuiet, BusyTask DEF ElectionTasks
<1> QED BY <1>1, QuietStep

-----------------------------------------------------------------------------
(* The steps that write the lease.                                         *)

\* A watch that is told of one event more.
LEMMA WatchedType ==
  ASSUME IInv, NEW ev \in Events
  PROVE  /\ Watched(ev) \in [Replicas -> Seq(Events)]
         /\ \A q \in Replicas : ~ node[q].watching => Watched(ev)[q] = events[q]
<1>1. \A q \in Replicas : events[q] \in Seq(Events) /\ Append(events[q], ev) \in Seq(Events)
  BY DEF IInv, LETypeOK
<1> QED BY <1>1 DEF Watched

\* What r writes under a version that is new takes the lease from no one whose claim is
\* fresh, if it leaves it to itself or lets it go in a shutdown.
LEMMA WrittenStep ==
  ASSUME IInv, NEW r \in Replicas, NEW s \in Slots, node[r].up # "gone",
         NEW body \in Bodies, Write(r, body),
         body.holder = r \/ (body.holder = None /\ node[r].isShuttingDown),
         \A q \in Replicas \ {r} : Runs(q) => claim[q] > Duration,
         NEW t \in ElectionTasks, NEW n \in Nodes, Set(r, s, t, n), SameRun(node[r], n),
         t.kind = "none" => t.pc = "idle",
         t.kind = "release" => node[r].isShuttingDown,
         \/ Quiet(t)
         \/ t.pc = "got" /\ t.body.holder = body.holder /\ t.body.age = body.age,
         faults' \in 0 .. MaxFaults
  PROVE  IInv'
<1> DEFINE ev == [type |-> "MODIFIED", holder |-> body.holder, age |-> body.age]
<1>1. /\ node' = [node EXCEPT ![r] = n] /\ tasks' = [tasks EXCEPT ![r][s] = t]
      /\ lease' = [there |-> TRUE, holder |-> body.holder, age |-> body.age, ver |-> NewVersion]
      /\ events' = Watched(ev)
      /\ claim' = [claim EXCEPT ![r] = body.age]
  BY DEF Set, Write
<1>2. body.holder \in Holders /\ body.age \in Ages /\ ev \in Events
  BY DEF Bodies, Events
<1> HIDE DEF ev
<1>3. NewVersion \in Versions /\ NewVersion \notin InUse
  BY NewVersionIsNew
<1>4. LETypeOK'
  <2>1. events' \in [Replicas -> Seq(Events)]
    BY <1>1, <1>2, WatchedType
  <2>2. lease' \in [there : BOOLEAN, holder : Holders, age : Ages, ver : Vers]
    BY <1>1, <1>2, <1>3 DEF Vers
  <2> QED BY <1>1, <1>2, <2>1, <2>2 DEF IInv, LETypeOK
<1>5. \A q \in Replicas :
        /\ node'[q].up = node[q].up /\ node'[q].isShuttingDown = node[q].isShuttingDown
        /\ q # r => node'[q] = node[q] /\ tasks'[q] = tasks[q]
  BY <1>1 DEF IInv, LETypeOK, SameRun
<1>6. \A q \in Replicas, u \in Slots :
        tasks'[q][u] = IF q = r /\ u = s THEN t ELSE tasks[q][u]
  BY <1>1 DEF IInv, LETypeOK
<1>7. TasksSound'
  <2> SUFFICES ASSUME NEW q \in Replicas, NEW u \in Slots PROVE TaskSound(q, tasks[q][u])'
    BY DEF TasksSound
  <2>1. CASE q = r /\ u = s
    BY <1>1, <1>5, <1>6, <2>1 DEF TaskSound, Quiet
  <2>2. CASE ~ (q = r /\ u = s)
    <3>1. tasks'[q][u] = tasks[q][u] /\ TaskSound(q, tasks[q][u])
      BY <1>6, <2>2 DEF IInv, TasksSound
    <3>2. tasks[q][u].body.ver # NewVersion
      BY <1>3 DEF InUse
    <3>3. ~ Unmodified(tasks[q][u].body)'
      BY <1>1, <3>1, <3>2 DEF Unmodified
    <3> QED BY <1>5, <3>1, <3>3 DEF TaskSound
  <2> QED BY <2>1, <2>2
<1>8. GoneIsSilent'
  <2> SUFFICES ASSUME NEW q \in Replicas, node'[q].up = "gone" PROVE Silent(q)'
    BY DEF GoneIsSilent
  <2>1. q # r /\ Silent(q)
    BY <1>5 DEF IInv, GoneIsSilent
  <2>2. events'[q] = events[q]
    BY <1>1, <1>2, <2>1, WatchedType DEF Silent
  <2> QED BY <1>5, <2>1, <2>2 DEF Silent
<1>9. ClaimIsLease'
  <2> SUFFICES ASSUME NEW q \in Replicas, lease'.holder = q PROVE claim'[q] = lease'.age
    BY DEF ClaimIsLease
  <2>1. q = r
    BY <1>1, LeaderElectionAssumption
  <2> QED BY <1>1, <2>1 DEF IInv, LETypeOK
<1>10. FreshHolds'
  <2> SUFFICES ASSUME NEW q \in Replicas, Runs(q)', claim'[q] <= Duration
               PROVE  lease'.there /\ lease'.holder = q
    BY DEF FreshHolds
  <2>1. Runs(q)
    BY <1>5 DEF Runs
  <2>2. q = r
    <3> SUFFICES ASSUME q # r PROVE FALSE
      OBVIOUS
    <3>1. claim'[q] = claim[q] /\ claim[q] > Duration /\ claim[q] \in Nat
      BY <1>1, <2>1, AgesAreNat DEF IInv, LETypeOK
    <3> QED BY <3>1, LeaderElectionAssumption
  <2>3. body.holder = r
    BY <2>1, <2>2 DEF Runs
  <2> QED BY <1>1, <2>2, <2>3
<1> QED BY <1>4, <1>7, <1>8, <1>9, <1>10 DEF IInv

-----------------------------------------------------------------------------
(* The steps of a task.                                                    *)

LEMMA FaultType ==
  ASSUME IInv, NoFault \/ Fault
  PROVE  faults' \in 0 .. MaxFaults
BY LeaderElectionAssumption DEF IInv, LETypeOK, NoFault, Fault

LEMMA AttemptStep ==
  ASSUME IInv, NEW r \in Replicas, NEW s \in Slots, Attempt(r, s)
  PROVE  IInv'
<1> DEFINE t == tasks[r][s]
           n == node[r]
           getting == [t EXCEPT !.pc = "get", !.retry = ElectionRetries]
<1>1. /\ t.pc = "attempt" /\ NoWrite /\ NoFault
      /\ Set(r, s, IdleTask, n) \/ Set(r, s, NextAttempt(t), n) \/ Set(r, s, getting, n)
  BY DEF Attempt
<1>2. t \in ElectionTasks /\ n \in Nodes /\ t.kind # "none" /\ SameRun(n, n)
  BY <1>1, BusyTask, HelpersType
<1>3. getting \in ElectionTasks /\ Quiet(getting) /\ getting.kind = t.kind
  <2>1. ElectionRetries \in 0 .. ElectionRetries
    BY LeaderElectionAssumption
  <2> HIDE DEF t
  <2> QED BY <1>2, <2>1 DEF ElectionTasks, Quiet
<1>4. IdleTask \in ElectionTasks /\ Quiet(IdleTask)
  BY IdleType DEF IdleTask, Quiet
<1>5. /\ NextAttempt(t) \in ElectionTasks /\ Quiet(NextAttempt(t))
      /\ NextAttempt(t) = IdleTask \/ NextAttempt(t).kind = t.kind
  BY <1>2, NextAttemptType
<1>6. faults' \in 0 .. MaxFaults
  BY <1>1, FaultType
<1>7. PICK u \in {IdleTask, NextAttempt(t), getting} : Set(r, s, u, n)
  BY <1>1
<1> HIDE DEF getting
<1>8. u \in ElectionTasks /\ Quiet(u) /\ (u = IdleTask \/ u.kind = t.kind)
  BY <1>3, <1>4, <1>5
<1> QED BY <1>1, <1>2, <1>6, <1>7, <1>8, QuietStep

\* What the API server answers is what the lease says, as long as it is not written.
LEMMA GetStep ==
  ASSUME IInv, NEW r \in Replicas, NEW s \in Slots, Get(r, s)
  PROVE  IInv'
<1> DEFINE t == tasks[r][s]
           answer == [holder |-> lease.holder, age |-> lease.age, ver |-> lease.ver]
           fresh == [holder |-> r, age |-> 0, ver |-> NoVersion]
           got == [t EXCEPT !.pc = "got", !.body = answer]
           create == [t EXCEPT !.pc = "create", !.body = fresh]
<1>1. /\ t.pc = "get" /\ NoWrite
      /\ \/ lease.there /\ Set(r, s, got, node[r]) /\ NoFault
         \/ Set(r, s, create, node[r]) /\ NoFault
         \/ Fault /\ Throws(r, s, TRUE)
  BY DEF Get
<1>2. /\ t \in ElectionTasks /\ node[r] \in Nodes /\ t.kind # "none" /\ SameRun(node[r], node[r])
      /\ node[r].up # "gone" /\ TaskSound(r, t)
  BY <1>1, BusyTask, HelpersType
<1>3. answer \in Bodies /\ fresh \in Bodies
  BY AgesAreNat DEF IInv, LETypeOK, Bodies, Holders, Vers
<1>4. CASE Set(r, s, got, node[r]) /\ NoFault
  <2>1. got \in ElectionTasks /\ got.pc = "got" /\ got.kind = t.kind /\ got.body = answer
    BY <1>2, <1>3 DEF ElectionTasks
  <2> HIDE DEF got
  <2>2. TaskSound(r, got)
    BY <1>2, <2>1 DEF TaskSound
  <2> QED BY <1>1, <1>2, <1>4, <2>1, <2>2, LocalStep, FaultType
<1>5. CASE Set(r, s, create, node[r]) /\ NoFault
  <2>1. create \in ElectionTasks /\ create.pc = "create" /\ create.kind = t.kind /\ create.body = fresh
    BY <1>2, <1>3 DEF ElectionTasks
  <2> HIDE DEF create
  <2>2. TaskSound(r, create)
    BY <1>2, <2>1 DEF TaskSound
  <2> QED BY <1>1, <1>2, <1>5, <2>1, <2>2, LocalStep, FaultType
<1>6. CASE Fault /\ Throws(r, s, TRUE)
  BY <1>1, <1>6, ThrowsStep, FaultType
<1> QED BY <1>1, <1>4, <1>5, <1>6

\* A lease is created where there is none, so that no claim is fresh.
LEMMA CreateStep ==
  ASSUME IInv, NEW r \in Replicas, NEW s \in Slots, Create(r, s)
  PROVE  IInv'
<1> DEFINE t == tasks[r][s]
           got == [t EXCEPT !.pc = "got", !.body.ver = NewVersion]
           n == [node[r] EXCEPT !.version = NewVersion]
<1>1. /\ t.pc = "create"
      /\ \/ ~ lease.there /\ Write(r, t.body) /\ Set(r, s, got, n) /\ NoFault
         \/ Throws(r, s, TRUE) /\ (NoFault \/ Fault) /\ NoWrite
  BY DEF Create
<1>2. /\ t \in ElectionTasks /\ t.body \in Bodies /\ node[r] \in Nodes /\ t.kind # "none"
      /\ node[r].up # "gone" /\ TaskSound(r, t)
  BY <1>1, BusyTask DEF ElectionTasks
<1>3. CASE ~ lease.there /\ Write(r, t.body) /\ Set(r, s, got, n) /\ NoFault
  <2>1. NewVersion \in Vers
    BY NewVersionIsNew DEF Vers
  <2>2. /\ got \in ElectionTasks /\ got.pc = "got" /\ got.kind = t.kind
        /\ got.body.holder = t.body.holder /\ got.body.age = t.body.age
    <3>1. [t.body EXCEPT !.ver = NewVersion] \in Bodies
      BY <1>2, <2>1 DEF Bodies
    <3> QED BY <1>2, <3>1 DEF ElectionTasks, Bodies
  <2>3. SameRun(node[r], n) /\ n \in Nodes
    BY <1>2, <2>1 DEF SameRun, Nodes
  <2>4. \A q \in Replicas \ {r} : Runs(q) => claim[q] > Duration
    <3> SUFFICES ASSUME NEW q \in Replicas, Runs(q) PROVE claim[q] > Duration
      OBVIOUS
    <3>1. claim[q] \in Nat /\ ~ (claim[q] <= Duration)
      BY <1>3, AgesAreNat DEF IInv, LETypeOK, FreshHolds
    <3> QED BY <3>1, LeaderElectionAssumption
  <2>5. t.body.holder = r
    BY <1>1, <1>2 DEF TaskSound
  <2>6. t.kind = "release" => node[r].isShuttingDown
    BY <1>2 DEF TaskSound
  <2>7. faults' \in 0 .. MaxFaults
    BY <1>3, FaultType
  <2> HIDE DEF got, n
  <2> QED BY <1>2, <1>3, <2>2, <2>3, <2>4, <2>5, <2>6, <2>7, WrittenStep
<1>4. CASE Throws(r, s, TRUE) /\ (NoFault \/ Fault) /\ NoWrite
  BY <1>1, <1>4, ThrowsStep, FaultType
<1> QED BY <1>1, <1>3, <1>4

\* What is decided on a lease that is still the one read agrees with what it says.
LEMMA DecideStep ==
  ASSUME IInv, NEW r \in Replicas, NEW s \in Slots, Decide(r, s)
  PROVE  IInv'
<1> DEFINE t == tasks[r][s]
           n == Succeeded(node[r])
           put == Body(t, r, 0)
<1>1. /\ t.kind = "elect" /\ t.pc = "got" /\ NoWrite /\ NoFault
      /\ \/ (IsLeaseExpired(t.body) \/ t.body.holder = None) /\ Set(r, s, put, n)
         \/ Set(r, s, IdleTask, BecomeLeader(n))
         \/ Set(r, s, NextAttempt(t), n)
  BY DEF Decide
<1>2. /\ t \in ElectionTasks /\ t.body \in Bodies /\ node[r] \in Nodes
      /\ node[r].up # "gone" /\ TaskSound(r, t)
  BY <1>1, BusyTask DEF ElectionTasks
<1>3. /\ SameRun(node[r], n) /\ n \in Nodes
      /\ SameRun(node[r], BecomeLeader(n)) /\ BecomeLeader(n) \in Nodes
  <2>1. SameRun(node[r], n) /\ n \in Nodes
    BY <1>2, HelpersType DEF SameRun
  <2> HIDE DEF n
  <2> QED BY <2>1, HelpersType DEF SameRun
<1>4. faults' \in 0 .. MaxFaults
  BY <1>1, FaultType
<1>5. CASE (IsLeaseExpired(t.body) \/ t.body.holder = None) /\ Set(r, s, put, n)
  <2>1. /\ put \in ElectionTasks /\ put.pc = "put" /\ put.kind = "elect"
        /\ put.body.holder = r /\ put.body.ver = t.body.ver
    BY <1>1, <1>2, PutType, AgesAreNat DEF Holders, Bodies
  <2>2. Unmodified(t.body) => lease.holder = None \/ lease.age > Duration
    BY <1>1, <1>2, <1>5 DEF TaskSound, IsLeaseExpired
  <2>3. TaskSound(r, put)
    BY <2>1, <2>2 DEF TaskSound, Unmodified
  <2> HIDE DEF put, n
  <2> QED BY <1>1, <1>2, <1>3, <1>4, <1>5, <2>1, <2>3, LocalStep
<1>6. CASE Set(r, s, IdleTask, BecomeLeader(n))
  <2>1. IdleTask \in ElectionTasks /\ Quiet(IdleTask)
    BY IdleType DEF IdleTask, Quiet
  <2> HIDE DEF n
  <2> QED BY <1>1, <1>3, <1>4, <1>6, <2>1, QuietStep
<1>7. CASE Set(r, s, NextAttempt(t), n)
  <2>1. /\ NextAttempt(t) \in ElectionTasks /\ Quiet(NextAttempt(t))
        /\ NextAttempt(t) = IdleTask \/ NextAttempt(t).kind = t.kind
    BY <1>1, <1>2, NextAttemptType
  <2> HIDE DEF n
  <2> QED BY <1>1, <1>3, <1>4, <1>7, <2>1, QuietStep
<1> QED BY <1>1, <1>5, <1>6, <1>7

LEMMA RenewStep ==
  ASSUME IInv, NEW r \in Replicas, NEW s \in Slots, Renew(r, s)
  PROVE  IInv'
<1> DEFINE t == tasks[r][s]
           n == node[r]
           put == Body(t, r, 0)
<1>1. /\ t.kind = "renew" /\ t.pc = "got" /\ NoWrite /\ NoFault
      /\ \/ Set(r, s, IdleTask, LoseLeadership(n))
         \/ t.body.holder = r /\ Set(r, s, put, n)
  BY DEF Renew
<1>2. /\ t \in ElectionTasks /\ t.body \in Bodies /\ n \in Nodes
      /\ n.up # "gone" /\ TaskSound(r, t)
  BY <1>1, BusyTask DEF ElectionTasks
<1>3. SameRun(n, n) /\ SameRun(n, LoseLeadership(n)) /\ LoseLeadership(n) \in Nodes
  BY <1>2, HelpersType DEF SameRun
<1>4. faults' \in 0 .. MaxFaults
  BY <1>1, FaultType
<1>5. CASE t.body.holder = r /\ Set(r, s, put, n)
  <2>1. /\ put \in ElectionTasks /\ put.pc = "put" /\ put.kind = "renew"
        /\ put.body.holder = r /\ put.body.ver = t.body.ver
    BY <1>1, <1>2, PutType, AgesAreNat DEF Holders, Bodies
  <2>2. TaskSound(r, put)
    BY <1>1, <1>2, <1>5, <2>1 DEF TaskSound, Unmodified
  <2> HIDE DEF put
  <2> QED BY <1>1, <1>2, <1>3, <1>4, <1>5, <2>1, <2>2, LocalStep
<1>6. CASE Set(r, s, IdleTask, LoseLeadership(n))
  <2>1. IdleTask \in ElectionTasks /\ Quiet(IdleTask)
    BY IdleType DEF IdleTask, Quiet
  <2> QED BY <1>1, <1>3, <1>4, <1>6, <2>1, QuietStep
<1> QED BY <1>1, <1>5, <1>6

LEMMA ReleaseStep ==
  ASSUME IInv, NEW r \in Replicas, NEW s \in Slots, Release(r, s)
  PROVE  IInv'
<1> DEFINE t == tasks[r][s]
           n == node[r]
           put == Body(t, None, t.body.age)
<1>1. /\ t.kind = "release" /\ t.pc = "got" /\ NoWrite /\ NoFault
      /\ Set(r, s, IdleTask, n) \/ (t.body.holder = r /\ Set(r, s, put, n))
  BY DEF Release
<1>2. /\ t \in ElectionTasks /\ t.body \in Bodies /\ n \in Nodes
      /\ n.up # "gone" /\ TaskSound(r, t)
  BY <1>1, BusyTask DEF ElectionTasks
<1>3. SameRun(n, n)
  BY <1>2, HelpersType
<1>4. faults' \in 0 .. MaxFaults
  BY <1>1, FaultType
<1>5. CASE t.body.holder = r /\ Set(r, s, put, n)
  <2>1. /\ put \in ElectionTasks /\ put.pc = "put" /\ put.kind = "release"
        /\ put.body.holder = None /\ put.body.ver = t.body.ver
    <3>1. None \in Holders /\ t.body.age \in Ages
      BY <1>2 DEF Holders, Bodies
    <3> QED BY <1>1, <1>2, <3>1, PutType
  <2>2. TaskSound(r, put)
    BY <1>1, <1>2, <1>5, <2>1 DEF TaskSound, Unmodified
  <2> HIDE DEF put
  <2> QED BY <1>1, <1>2, <1>3, <1>4, <1>5, <2>1, <2>2, LocalStep
<1>6. CASE Set(r, s, IdleTask, n)
  <2>1. IdleTask \in ElectionTasks /\ Quiet(IdleTask)
    BY IdleType DEF IdleTask, Quiet
  <2> QED BY <1>1, <1>2, <1>3, <1>4, <1>6, <2>1, QuietStep
<1> QED BY <1>1, <1>5, <1>6

\* A write is accepted under the version that was read, so that it takes an expired lease,
\* one that nobody holds, or the writer's own.
LEMMA PutStep ==
  ASSUME IInv, NEW r \in Replicas, NEW s \in Slots, Put(r, s)
  PROVE  IInv'
<1> DEFINE t == tasks[r][s]
           n == node[r]
           ack == [NoBody EXCEPT !.ver = NewVersion]
           acked == [t EXCEPT !.pc = "acked", !.body = ack]
<1>1. /\ t.pc = "put"
      /\ \/ /\ Unmodified(t.body) /\ Write(r, t.body)
            /\ \/ Set(r, s, acked, n) /\ NoFault
               \/ Fault /\ Throws(r, s, FALSE)
         \/ Throws(r, s, FALSE) /\ (NoFault \/ Fault) /\ NoWrite
  BY DEF Put
<1>2. /\ t \in ElectionTasks /\ t.body \in Bodies /\ n \in Nodes /\ t.kind # "none"
      /\ n.up # "gone" /\ TaskSound(r, t) /\ SameRun(n, n)
  BY <1>1, BusyTask, HelpersType DEF ElectionTasks
<1>3. CASE Unmodified(t.body) /\ Write(r, t.body)
           /\ ((Set(r, s, acked, n) /\ NoFault) \/ (Fault /\ Throws(r, s, FALSE)))
  <2>1. PICK u \in ElectionTasks, m \in Nodes :
          /\ Set(r, s, u, m) /\ Quiet(u) /\ SameRun(n, m)
          /\ u = IdleTask \/ u.kind = t.kind
    <3>1. CASE Set(r, s, acked, n)
      <4>1. ack \in Bodies
        BY IdleType, NewVersionIsNew DEF Bodies, Vers
      <4>2. acked \in ElectionTasks /\ Quiet(acked) /\ acked.kind = t.kind
        BY <1>2, <4>1 DEF ElectionTasks, Quiet
      <4> HIDE DEF acked
      <4> QED BY <1>2, <3>1, <4>2
    <3>2. CASE Throws(r, s, FALSE)
      BY <1>1, <3>2, ThrowsQuiet
    <3> QED BY <1>3, <3>1, <3>2
  <2>2. /\ u.kind = "none" => u.pc = "idle"
        /\ u.kind = "release" => node[r].isShuttingDown
    BY <1>2, <2>1 DEF TaskSound, IdleTask
  <2>3. t.body.holder = r \/ (t.body.holder = None /\ node[r].isShuttingDown)
    BY <1>1, <1>2 DEF TaskSound
  <2>4. lease.there /\ (lease.holder = None \/ lease.age > Duration \/ lease.holder = r)
    BY <1>1, <1>2, <1>3 DEF TaskSound, Unmodified
  <2>5. \A q \in Replicas \ {r} : Runs(q) => claim[q] > Duration
    <3> SUFFICES ASSUME NEW q \in Replicas, q # r, Runs(q), ~ (claim[q] > Duration)
                 PROVE  FALSE
      OBVIOUS
    <3>1. claim[q] \in Nat /\ lease.age \in Nat
      BY AgesAreNat DEF IInv, LETypeOK
    <3>2. lease.holder = q /\ claim[q] = lease.age
      BY <2>4, <3>1, LeaderElectionAssumption DEF IInv, FreshHolds, ClaimIsLease
    <3> QED BY <2>4, <3>2, LeaderElectionAssumption
  <2>6. faults' \in 0 .. MaxFaults
    BY <1>3, FaultType
  <2> QED BY <1>2, <1>3, <2>1, <2>2, <2>3, <2>5, <2>6, WrittenStep
<1>4. CASE Throws(r, s, FALSE) /\ (NoFault \/ Fault) /\ NoWrite
  BY <1>1, <1>4, ThrowsStep, FaultType
<1> HIDE DEF acked, t, n
<1> QED BY <1>1, <1>3, <1>4

LEMMA AckedStep ==
  ASSUME IInv, NEW r \in Replicas, NEW s \in Slots, Acked(r, s)
  PROVE  IInv'
<1> DEFINE t == tasks[r][s]
           n == [node[r] EXCEPT !.version = t.body.ver]
<1>1. t.pc = "acked" /\ NoWrite /\ NoFault
  BY DEF Acked
<1>2. t \in ElectionTasks /\ t.body \in Bodies /\ node[r] \in Nodes /\ t.kind # "none"
  BY <1>1, BusyTask DEF ElectionTasks
<1>3. Set(r, s, IdleTask, BecomeLeader(n)) \/ Set(r, s, IdleTask, Succeeded(n)) \/ Set(r, s, IdleTask, node[r])
  BY <1>2 DEF Acked, ElectionTasks
<1>4. SameRun(node[r], n) /\ n \in Nodes
  BY <1>2 DEF SameRun, Nodes, Bodies
<1>5. /\ SameRun(node[r], BecomeLeader(n)) /\ SameRun(node[r], Succeeded(n))
      /\ SameRun(node[r], node[r])
      /\ BecomeLeader(n) \in Nodes /\ Succeeded(n) \in Nodes
  <2> HIDE DEF n
  <2> QED BY <1>2, <1>4, HelpersType DEF SameRun
<1>6. IdleTask \in ElectionTasks /\ Quiet(IdleTask)
  BY IdleType DEF IdleTask, Quiet
<1>7. faults' \in 0 .. MaxFaults
  BY <1>1, FaultType
<1> HIDE DEF n
<1> QED BY <1>1, <1>2, <1>3, <1>5, <1>6, <1>7, QuietStep

LEMMA TaskStepKeeps ==
  ASSUME IInv, NEW r \in Replicas, NEW s \in Slots, TaskStep(r, s)
  PROVE  IInv'
BY AttemptStep, GetStep, CreateStep, DecideStep, RenewStep, ReleaseStep, PutStep, AckedStep
   DEF TaskStep

-----------------------------------------------------------------------------
(* Timers, the watch, the start and the end.  They write no lease, and     *)
(* start a task or none.                                                   *)

\* A task that starts takes a free place.
LEMMA StartTaskType ==
  ASSUME IInv, NEW r \in Replicas, NEW kind \in {"elect", "renew", "release"},
         StartTask(r, kind)
  PROVE  /\ tasks' \in [Replicas -> [Slots -> ElectionTasks]]
         /\ \A q \in Replicas, u \in Slots :
              \/ tasks'[q][u] = tasks[q][u]
              \/ q = r /\ tasks'[q][u] = Start(kind)
<1>1. PICK s \in Slots : tasks' = [tasks EXCEPT ![r][s] = Start(kind)]
  BY DEF StartTask, FreeSlots
<1>2. Start(kind) \in ElectionTasks
  BY StartType
<1> QED BY <1>1, <1>2 DEF IInv, LETypeOK

\* A step of a replica that leaves the lease alone and starts a task at most.
LEMMA NodeStep ==
  ASSUME IInv, NEW r \in Replicas, node[r].up # "gone", UNCHANGED <<lease, claim>>,
         NEW n \in Nodes, node' = [node EXCEPT ![r] = n],
         n.up # "gone", node[r].isShuttingDown => n.isShuttingDown,
         events' \in [Replicas -> Seq(Events)],
         \A q \in Replicas \ {r} : events'[q] = events[q],
         \/ UNCHANGED tasks
         \/ \E kind \in {"elect", "renew", "release"} :
              StartTask(r, kind) /\ (kind = "release" => n.isShuttingDown),
         faults' \in 0 .. MaxFaults
  PROVE  IInv'
<1>1. /\ tasks' \in [Replicas -> [Slots -> ElectionTasks]]
      /\ \A q \in Replicas, u \in Slots :
           \/ tasks'[q][u] = tasks[q][u]
           \/ /\ q = r /\ Quiet(tasks'[q][u]) /\ tasks'[q][u].kind # "none"
              /\ tasks'[q][u].kind = "release" => n.isShuttingDown
  <2>1. CASE UNCHANGED tasks
    BY <2>1 DEF IInv, LETypeOK
  <2>2. CASE \E kind \in {"elect", "renew", "release"} :
               StartTask(r, kind) /\ (kind = "release" => n.isShuttingDown)
    <3>1. PICK kind \in {"elect", "renew", "release"} :
            StartTask(r, kind) /\ (kind = "release" => n.isShuttingDown)
      BY <2>2
    <3> QED BY <3>1, StartTaskType, StartType
  <2> QED BY <2>1, <2>2
<1>2. LETypeOK'
  BY <1>1 DEF IInv, LETypeOK
<1>3. node'[r] = n /\ \A q \in Replicas \ {r} : node'[q] = node[q] /\ events'[q] = events[q]
  BY DEF IInv, LETypeOK
<1>4. TasksSound'
  <2> SUFFICES ASSUME NEW q \in Replicas, NEW u \in Slots PROVE TaskSound(q, tasks[q][u])'
    BY DEF TasksSound
  <2>1. CASE tasks'[q][u] = tasks[q][u]
    <3>1. TaskSound(q, tasks[q][u])
      BY DEF IInv, TasksSound
    <3> QED BY <1>3, <2>1, <3>1 DEF TaskSound, Unmodified
  <2>2. CASE /\ q = r /\ Quiet(tasks'[q][u]) /\ tasks'[q][u].kind # "none"
             /\ tasks'[q][u].kind = "release" => n.isShuttingDown
    BY <1>3, <2>2 DEF TaskSound, Quiet
  <2> QED BY <1>1, <2>1, <2>2
<1>5. GoneIsSilent'
  <2> SUFFICES ASSUME NEW q \in Replicas, node'[q].up = "gone" PROVE Silent(q)'
    BY DEF GoneIsSilent
  <2>1. q # r
    BY <1>3
  <2>2. Silent(q)
    BY <1>3, <2>1 DEF IInv, GoneIsSilent
  <2> QED BY <1>1, <1>3, <2>1, <2>2 DEF Silent
<1>6. ClaimIsLease'
  BY DEF IInv, ClaimIsLease
<1>7. FreshHolds'
  <2>1. \A q \in Replicas : Runs(q)' => Runs(q)
    BY <1>3 DEF Runs, IInv, LETypeOK, Nodes
  <2> QED BY <2>1 DEF IInv, FreshHolds
<1> QED BY <1>2, <1>4, <1>5, <1>6, <1>7 DEF IInv

LEMMA RenewalTimerStep ==
  ASSUME IInv, NEW r \in Replicas, RenewalTimer(r)
  PROVE  IInv'
<1> DEFINE n == [node[r] EXCEPT !.renewing = FALSE]
<1>1. node[r] \in Nodes /\ node[r].up # "gone"
  BY DEF IInv, LETypeOK, GoneIsSilent, Silent, RenewalTimer
<1>2. n \in Nodes /\ n.up = node[r].up /\ n.isShuttingDown = node[r].isShuttingDown
  BY <1>1 DEF Nodes
<1>3. /\ UNCHANGED <<lease, claim, events, faults>>
      /\ \/ StartTask(r, "renew") /\ node' = [node EXCEPT ![r] = node[r]]
         \/ node' = [node EXCEPT ![r] = n] /\ UNCHANGED tasks
  BY DEF RenewalTimer, IInv, LETypeOK
<1>4. events' \in [Replicas -> Seq(Events)] /\ faults' \in 0 .. MaxFaults
  BY <1>3 DEF IInv, LETypeOK
<1> HIDE DEF n
<1>5. CASE StartTask(r, "renew") /\ node' = [node EXCEPT ![r] = node[r]]
  BY <1>1, <1>3, <1>4, <1>5, NodeStep
<1>6. CASE node' = [node EXCEPT ![r] = n] /\ UNCHANGED tasks
  BY <1>1, <1>2, <1>3, <1>4, <1>6, NodeStep
<1> QED BY <1>3, <1>5, <1>6

LEMMA FirstEventsType ==
  ASSUME IInv
  PROVE  FirstEvents \in Seq(Events)
<1> DEFINE ev == [type |-> "ADDED", holder |-> lease.holder, age |-> lease.age]
<1>1. ev \in Events
  BY DEF IInv, LETypeOK, Events
<1>2. FirstEvents = <<ev>> \/ FirstEvents = <<>>
  BY DEF FirstEvents
<1> HIDE DEF ev
<1>3. <<ev>> \in Seq(Events)
  BY <1>1
<1>4. <<>> \in Seq(Events)
  OBVIOUS
<1> QED BY <1>2, <1>3, <1>4

LEMMA BootStep ==
  ASSUME IInv, NEW r \in Replicas, Boot(r)
  PROVE  IInv'
<1> DEFINE n == [node[r] EXCEPT !.up = "up", !.watching = TRUE]
           m == [node[r] EXCEPT !.up = "up"]
<1>1. /\ StartTask(r, "elect") /\ UNCHANGED <<lease, claim>>
      /\ \/ /\ node' = [node EXCEPT ![r] = n]
            /\ events' = [events EXCEPT ![r] = FirstEvents]
         \/ node' = [node EXCEPT ![r] = Failed(m)] /\ UNCHANGED events
  BY DEF Boot, IInv, LETypeOK
<1>2. node[r] \in Nodes /\ node[r].up = "new"
  BY DEF IInv, LETypeOK, Boot
<1>3. /\ n \in Nodes /\ n.up = "up" /\ n.isShuttingDown = node[r].isShuttingDown
      /\ m \in Nodes /\ m.up = "up" /\ m.isShuttingDown = node[r].isShuttingDown
  BY <1>2 DEF Nodes
<1> HIDE DEF n, m
<1>4. Failed(m) \in Nodes /\ Failed(m).up = "up" /\ Failed(m).isShuttingDown = node[r].isShuttingDown
  BY <1>3, HelpersType DEF SameRun
<1>5. /\ events' \in [Replicas -> Seq(Events)]
      /\ \A q \in Replicas \ {r} : events'[q] = events[q]
  BY <1>1, FirstEventsType DEF IInv, LETypeOK
<1>6. faults' \in 0 .. MaxFaults
  BY FaultType DEF Boot
<1> QED BY <1>1, <1>2, <1>3, <1>4, <1>5, <1>6, NodeStep

LEMMA StartWatcherStep ==
  ASSUME IInv, NEW r \in Replicas, StartWatcher(r)
  PROVE  IInv'
<1> DEFINE m == [node[r] EXCEPT !.watching = TRUE]
<1>1. /\ UNCHANGED <<lease, tasks, claim, faults>>
      /\ node' = [node EXCEPT ![r] = Succeeded(m)]
      /\ events' = [events EXCEPT ![r] = FirstEvents]
  BY DEF StartWatcher, IInv, LETypeOK
<1>2. node[r] \in Nodes /\ node[r].up = "up"
  BY DEF IInv, LETypeOK, StartWatcher
<1>3. m \in Nodes /\ m.up = "up" /\ m.isShuttingDown = node[r].isShuttingDown
  BY <1>2 DEF Nodes
<1> HIDE DEF m
<1>4. /\ Succeeded(m) \in Nodes /\ Succeeded(m).up = "up"
      /\ Succeeded(m).isShuttingDown = node[r].isShuttingDown
  BY <1>3, HelpersType DEF SameRun
<1>5. /\ events' \in [Replicas -> Seq(Events)] /\ faults' \in 0 .. MaxFaults
      /\ \A q \in Replicas \ {r} : events'[q] = events[q]
  BY <1>1, FirstEventsType DEF IInv, LETypeOK
<1> QED BY <1>1, <1>2, <1>4, <1>5, NodeStep

LEMMA WatchEndsStep ==
  ASSUME IInv, NEW r \in Replicas, WatchEnds(r)
  PROVE  IInv'
<1> DEFINE m == [node[r] EXCEPT !.watching = FALSE]
<1>1. /\ UNCHANGED <<lease, tasks, claim>>
      /\ node' = [node EXCEPT ![r] = Failed(m)]
      /\ events' = [events EXCEPT ![r] = <<>>]
  BY DEF WatchEnds, IInv, LETypeOK
<1>2. node[r] \in Nodes /\ node[r].up # "gone"
  BY DEF IInv, LETypeOK, WatchEnds, GoneIsSilent, Silent
<1>3. m \in Nodes /\ m.up = node[r].up /\ m.isShuttingDown = node[r].isShuttingDown
  BY <1>2 DEF Nodes
<1> HIDE DEF m
<1>4. /\ Failed(m) \in Nodes /\ Failed(m).up = node[r].up
      /\ Failed(m).isShuttingDown = node[r].isShuttingDown
  BY <1>3, HelpersType DEF SameRun
<1>5. /\ events' \in [Replicas -> Seq(Events)]
      /\ \A q \in Replicas \ {r} : events'[q] = events[q]
  BY <1>1 DEF IInv, LETypeOK
<1>6. faults' \in 0 .. MaxFaults
  BY FaultType DEF WatchEnds
<1> QED BY <1>1, <1>2, <1>4, <1>5, <1>6, NodeStep

LEMMA BreakerClosesStep ==
  ASSUME IInv, NEW r \in Replicas, BreakerCloses(r)
  PROVE  IInv'
<1> DEFINE n == [node[r] EXCEPT !.failures = 0]
<1>1. node' = [node EXCEPT ![r] = n] /\ UNCHANGED <<lease, tasks, events, claim, faults>>
  BY DEF BreakerCloses
<1>2. /\ n \in Nodes /\ n.up = node[r].up /\ n.isShuttingDown = node[r].isShuttingDown
      /\ n.isLeader = node[r].isLeader /\ n.renewing = node[r].renewing
      /\ n.watching = node[r].watching
  <2>1. node[r] \in Nodes /\ 0 \in 0 .. MaxFailures
    BY LeaderElectionAssumption DEF IInv, LETypeOK
  <2> QED BY <2>1 DEF Nodes
<1> HIDE DEF n
<1>3. LETypeOK'
  BY <1>1, <1>2 DEF IInv, LETypeOK
<1>4. \A q \in Replicas :
        /\ node'[q].up = node[q].up /\ node'[q].isShuttingDown = node[q].isShuttingDown
        /\ node'[q].isLeader = node[q].isLeader /\ node'[q].renewing = node[q].renewing
        /\ node'[q].watching = node[q].watching
  BY <1>1, <1>2 DEF IInv, LETypeOK
<1>5. TasksSound' /\ GoneIsSilent'
  BY <1>1, <1>4 DEF IInv, TasksSound, TaskSound, Unmodified, GoneIsSilent, Silent
<1>6. ClaimIsLease' /\ FreshHolds'
  BY <1>1, <1>4 DEF IInv, ClaimIsLease, FreshHolds, Runs
<1> QED BY <1>3, <1>5, <1>6 DEF IInv

LEMMA HandleEventStep ==
  ASSUME IInv, NEW r \in Replicas, HandleEvent(r)
  PROVE  IInv'
<1> DEFINE ev == Head(events[r])
           n == HandleLeaseUpdate(r, ev)
<1>1. /\ UNCHANGED <<lease, claim, faults>>
      /\ events' = [events EXCEPT ![r] = Tail(events[r])]
      /\ \/ /\ node' = [node EXCEPT ![r] = node[r]]
            /\ UNCHANGED tasks \/ StartTask(r, "elect")
         \/ node' = [node EXCEPT ![r] = n] /\ UNCHANGED tasks
  BY DEF HandleEvent, IInv, LETypeOK
<1>2. node[r] \in Nodes /\ node[r].up # "gone"
  BY DEF IInv, LETypeOK, HandleEvent, GoneIsSilent, Silent
<1>3. n \in Nodes /\ n.up = node[r].up /\ n.isShuttingDown = node[r].isShuttingDown
  <2>1. n \in {node[r], LoseLeadership(node[r]), BecomeLeader(node[r])}
    BY DEF HandleLeaseUpdate
  <2> HIDE DEF n
  <2> QED BY <1>2, <2>1, HelpersType DEF SameRun
<1>4. /\ events' \in [Replicas -> Seq(Events)] /\ faults' \in 0 .. MaxFaults
      /\ \A q \in Replicas \ {r} : events'[q] = events[q]
  <2>1. events[r] \in Seq(Events) /\ events[r] # <<>>
    BY DEF IInv, LETypeOK, HandleEvent
  <2>2. Tail(events[r]) \in Seq(Events)
    BY <2>1
  <2> QED BY <1>1, <2>2 DEF IInv, LETypeOK
<1> HIDE DEF n, ev
<1>5. CASE /\ node' = [node EXCEPT ![r] = node[r]]
           /\ UNCHANGED tasks \/ StartTask(r, "elect")
  BY <1>1, <1>2, <1>4, <1>5, NodeStep
<1>6. CASE node' = [node EXCEPT ![r] = n] /\ UNCHANGED tasks
  BY <1>1, <1>2, <1>3, <1>4, <1>6, NodeStep
<1> QED BY <1>1, <1>5, <1>6

LEMMA ShutdownStep ==
  ASSUME IInv, NEW r \in Replicas, Shutdown(r)
  PROVE  IInv'
<1> DEFINE n == [node[r] EXCEPT !.isShuttingDown = TRUE, !.renewing = FALSE, !.watching = FALSE]
<1>1. /\ UNCHANGED <<lease, claim>>
      /\ node' = [node EXCEPT ![r] = n]
      /\ events' = [events EXCEPT ![r] = <<>>]
      /\ UNCHANGED tasks \/ StartTask(r, "release")
  BY DEF Shutdown, IInv, LETypeOK
<1>2. node[r] \in Nodes /\ node[r].up = "up"
  BY DEF IInv, LETypeOK, Shutdown
<1>3. n \in Nodes /\ n.up = "up" /\ n.isShuttingDown
  BY <1>2 DEF Nodes
<1>4. /\ events' \in [Replicas -> Seq(Events)]
      /\ \A q \in Replicas \ {r} : events'[q] = events[q]
  BY <1>1 DEF IInv, LETypeOK
<1>5. faults' \in 0 .. MaxFaults
  BY FaultType DEF Shutdown
<1> HIDE DEF n
<1> QED BY <1>1, <1>2, <1>3, <1>4, <1>5, NodeStep

LEMMA ExitStep ==
  ASSUME IInv, NEW r \in Replicas, Exit(r)
  PROVE  IInv'
<1> DEFINE n == [up |-> "gone", isLeader |-> FALSE, isShuttingDown |-> FALSE,
                 renewing |-> FALSE, version |-> NoVersion, failures |-> 0,
                 watching |-> FALSE]
<1>1. /\ UNCHANGED <<lease, claim>>
      /\ node' = [node EXCEPT ![r] = n]
      /\ tasks' = [tasks EXCEPT ![r] = [s \in Slots |-> IdleTask]]
      /\ events' = [events EXCEPT ![r] = <<>>]
  BY DEF Exit
<1>2. n \in Nodes
  BY LeaderElectionAssumption DEF Nodes, Vers
<1>3. faults' \in 0 .. MaxFaults
  BY FaultType DEF Exit
<1>4. LETypeOK'
  BY <1>1, <1>2, <1>3, IdleType DEF IInv, LETypeOK
<1>5. /\ node'[r] = n /\ events'[r] = <<>> /\ \A s \in Slots : tasks'[r][s] = IdleTask
      /\ \A q \in Replicas \ {r} :
           node'[q] = node[q] /\ tasks'[q] = tasks[q] /\ events'[q] = events[q]
  BY <1>1 DEF IInv, LETypeOK
<1>6. TasksSound'
  <2> SUFFICES ASSUME NEW q \in Replicas, NEW u \in Slots PROVE TaskSound(q, tasks[q][u])'
    BY DEF TasksSound
  <2>1. CASE q = r
    BY <1>5, <2>1 DEF TaskSound, IdleTask
  <2>2. CASE q # r
    <3>1. TaskSound(q, tasks[q][u])
      BY DEF IInv, TasksSound
    <3> QED BY <1>1, <1>5, <2>2, <3>1 DEF TaskSound, Unmodified
  <2> QED BY <2>1, <2>2
<1>7. GoneIsSilent'
  BY <1>5 DEF IInv, GoneIsSilent, Silent
<1>8. ClaimIsLease'
  BY <1>1 DEF IInv, ClaimIsLease
<1>9. FreshHolds'
  BY <1>1, <1>5 DEF IInv, FreshHolds, Runs
<1> QED BY <1>4, <1>6, <1>7, <1>8, <1>9 DEF IInv

-----------------------------------------------------------------------------
(* What happens to the lease from outside.                                 *)

LEMMA DeleteLeaseStep ==
  ASSUME IInv, DeleteLease
  PROVE  IInv'
<1> DEFINE ev == [type |-> "DELETED", holder |-> None, age |-> 0]
<1>1. /\ UNCHANGED <<node, tasks>>
      /\ lease' = [there |-> FALSE, holder |-> None, age |-> 0, ver |-> NoVersion]
      /\ events' = Watched(ev)
      /\ claim' = [r \in Replicas |-> Void]
  BY DEF DeleteLease
<1>2. ev \in Events
  BY AgesAreNat DEF Events, Holders
<1> HIDE DEF ev
<1>3. faults' \in 0 .. MaxFaults
  BY FaultType DEF DeleteLease
<1>4. LETypeOK'
  BY <1>1, <1>2, <1>3, WatchedType, AgesAreNat DEF IInv, LETypeOK, Holders, Vers
<1>5. TasksSound'
  BY <1>1 DEF IInv, TasksSound, TaskSound, Unmodified
<1>6. GoneIsSilent'
  BY <1>1, <1>2, WatchedType DEF IInv, GoneIsSilent, Silent
<1>7. ClaimIsLease'
  BY <1>1 DEF ClaimIsLease
<1>8. FreshHolds'
  BY <1>1, AgesAreNat, LeaderElectionAssumption DEF FreshHolds, Void
<1> QED BY <1>4, <1>5, <1>6, <1>7, <1>8 DEF IInv

\* The clock makes the lease, the claims and what the tasks read of it older alike.
LEMMA TickStep ==
  ASSUME IInv, Tick
  PROVE  IInv'
<1> DEFINE older(t) == [t EXCEPT !.body.age = Older(@)]
<1>1. /\ UNCHANGED <<node, faults>>
      /\ lease' = IF lease.there THEN [lease EXCEPT !.age = Older(@)] ELSE lease
      /\ claim' = [r \in Replicas |-> Older(claim[r])]
      /\ tasks' = [r \in Replicas |-> [s \in Slots |->
           IF tasks[r][s].pc \in {"create", "got", "put"}
           THEN older(tasks[r][s]) ELSE tasks[r][s]]]
      /\ events' = [r \in Replicas |->
           [i \in DOMAIN events[r] |-> [events[r][i] EXCEPT !.age = Older(@)]]]
  BY DEF Tick
<1>2. ASSUME NEW t \in ElectionTasks
      PROVE  /\ older(t) \in ElectionTasks /\ older(t).pc = t.pc /\ older(t).kind = t.kind
             /\ older(t).body.holder = t.body.holder /\ older(t).body.ver = t.body.ver
             /\ older(t).body.age = Older(t.body.age)
  <2>1. t.body.age \in Ages /\ Older(t.body.age) \in Ages
    BY OlderType DEF ElectionTasks, Bodies
  <2> QED BY <2>1 DEF ElectionTasks, Bodies
<1>3. /\ lease'.there = lease.there /\ lease'.holder = lease.holder /\ lease'.ver = lease.ver
      /\ lease.there => lease'.age = Older(lease.age)
      /\ lease' \in [there : BOOLEAN, holder : Holders, age : Ages, ver : Vers]
      /\ lease.age \in Ages
  BY <1>1, OlderType DEF IInv, LETypeOK
<1>4. ASSUME NEW r \in Replicas
      PROVE  events'[r] \in Seq(Events) /\ (events[r] = <<>> => events'[r] = <<>>)
  <2>1. events[r] \in Seq(Events)
    BY DEF IInv, LETypeOK
  <2>2. ASSUME NEW i \in DOMAIN events[r]
        PROVE  [events[r][i] EXCEPT !.age = Older(@)] \in Events
    <3>1. events[r][i] \in Events
      BY <2>1
    <3>2. Older(events[r][i].age) \in Ages
      BY <3>1, OlderType DEF Events
    <3> QED BY <3>1, <3>2 DEF Events
  <2>3. events'[r] = [i \in 1 .. Len(events[r]) |-> [events[r][i] EXCEPT !.age = Older(@)]]
    BY <1>1, <2>1
  <2>4. events'[r] \in Seq(Events)
    <3>1. Len(events[r]) \in Nat /\ DOMAIN events[r] = 1 .. Len(events[r])
      BY <2>1
    <3>2. \A i \in 1 .. Len(events[r]) : [events[r][i] EXCEPT !.age = Older(@)] \in Events
      BY <2>2, <3>1
    <3> QED BY <2>3, <3>1, <3>2
  <2>5. events[r] = <<>> => events'[r] = <<>>
    BY <2>3
  <2> QED BY <2>4, <2>5
<1>5. ASSUME NEW r \in Replicas, NEW s \in Slots
      PROVE  /\ tasks'[r][s] \in ElectionTasks /\ tasks[r][s] \in ElectionTasks
             /\ tasks[r][s].pc \in {"create", "got", "put"} => tasks'[r][s] = older(tasks[r][s])
             /\ tasks[r][s].pc \notin {"create", "got", "put"} => tasks'[r][s] = tasks[r][s]
  <2>1. tasks[r][s] \in ElectionTasks
    BY DEF IInv, LETypeOK
  <2> HIDE DEF older
  <2> QED BY <1>1, <1>2, <2>1
<1> HIDE DEF older
<1>6. LETypeOK'
  <2>1. claim' \in [Replicas -> Ages]
    BY <1>1, OlderType DEF IInv, LETypeOK
  <2>2. tasks' \in [Replicas -> [Slots -> ElectionTasks]]
    BY <1>1, <1>5
  <2>3. events' \in [Replicas -> Seq(Events)]
    BY <1>1, <1>4
  <2> QED BY <1>1, <1>3, <2>1, <2>2, <2>3 DEF IInv, LETypeOK
<1>7. TasksSound'
  <2> SUFFICES ASSUME NEW r \in Replicas, NEW s \in Slots PROVE TaskSound(r, tasks[r][s])'
    BY DEF TasksSound
  <2>1. TaskSound(r, tasks[r][s])
    BY DEF IInv, TasksSound
  <2>2. CASE tasks[r][s].pc \notin {"create", "got", "put"}
    BY <1>1, <1>5, <2>1, <2>2 DEF TaskSound
  <2>3. CASE tasks[r][s].pc \in {"create", "got", "put"}
    <3> DEFINE t == tasks[r][s]
               u == tasks'[r][s]
    <3>1. /\ u.pc = t.pc /\ u.kind = t.kind /\ u.body.holder = t.body.holder
          /\ u.body.ver = t.body.ver /\ u.body.age = Older(t.body.age)
      BY <1>2, <1>5, <2>3
    <3>2. (lease'.there /\ lease'.ver = u.body.ver) <=> Unmodified(t.body)
      BY <1>3, <3>1 DEF Unmodified
    <3>3. Unmodified(t.body) => lease'.age = Older(lease.age)
      BY <1>3 DEF Unmodified
    <3>4. lease.age > Duration => Older(lease.age) > Duration
      BY <1>3, OlderType
    <3> QED BY <1>1, <1>3, <2>1, <3>1, <3>2, <3>3, <3>4 DEF TaskSound, Unmodified
  <2> QED BY <2>2, <2>3
<1>8. GoneIsSilent'
  BY <1>1, <1>4, <1>5 DEF IInv, GoneIsSilent, Silent, IdleTask
<1>9. ClaimIsLease'
  BY <1>1, <1>3 DEF IInv, ClaimIsLease
<1>10. FreshHolds'
  <2>1. \A r \in Replicas : claim'[r] <= Duration => claim[r] <= Duration
    BY <1>1, OlderType DEF IInv, LETypeOK
  <2> QED BY <1>1, <1>3, <2>1 DEF IInv, FreshHolds, Runs
<1> QED BY <1>6, <1>7, <1>8, <1>9, <1>10 DEF IInv

-----------------------------------------------------------------------------
(* The theorems.                                                           *)

LEMMA IInvInit ==
  ASSUME LEInit
  PROVE  IInv
<1>1. LETypeOK
  <2>1. lease \in [there : BOOLEAN, holder : Holders, age : Ages, ver : Vers]
    BY AgesAreNat DEF LEInit, Holders, Vers
  <2>2. node \in [Replicas -> Nodes]
    BY LeaderElectionAssumption DEF LEInit, Nodes, Vers
  <2>3. tasks \in [Replicas -> [Slots -> ElectionTasks]]
    BY IdleType DEF LEInit
  <2>4. events \in [Replicas -> Seq(Events)]
    BY DEF LEInit
  <2>5. claim \in [Replicas -> Ages]
    BY AgesAreNat DEF LEInit
  <2>6. faults \in 0 .. MaxFaults
    BY LeaderElectionAssumption DEF LEInit
  <2> QED BY <2>1, <2>2, <2>3, <2>4, <2>5, <2>6 DEF LETypeOK
<1>2. TasksSound
  BY DEF LEInit, TasksSound, TaskSound, IdleTask
<1>3. GoneIsSilent
  BY DEF LEInit, GoneIsSilent
<1>4. ClaimIsLease
  BY DEF LEInit, ClaimIsLease
<1>5. FreshHolds
  BY AgesAreNat, LeaderElectionAssumption DEF LEInit, FreshHolds, Void
<1> QED BY <1>1, <1>2, <1>3, <1>4, <1>5 DEF IInv

LEMMA IInvNext ==
  ASSUME IInv, [LENext]_levars
  PROVE  IInv'
<1>1. CASE UNCHANGED levars
  <2>1. UNCHANGED <<lease, node, tasks, events, claim, faults>>
    BY <1>1 DEF levars
  <2>2. LETypeOK'
    BY <2>1 DEF IInv, LETypeOK
  <2>3. TasksSound' /\ GoneIsSilent'
    BY <2>1 DEF IInv, TasksSound, TaskSound, Unmodified, GoneIsSilent, Silent
  <2>4. ClaimIsLease' /\ FreshHolds'
    BY <2>1 DEF IInv, ClaimIsLease, FreshHolds, Runs
  <2> QED BY <2>2, <2>3, <2>4 DEF IInv
<1>2. ASSUME NEW r \in Replicas, Turn(r) PROVE IInv'
  BY <1>2, RenewalTimerStep, HandleEventStep, TaskStepKeeps DEF Turn
<1>3. ASSUME NEW r \in Replicas,
             Boot(r) \/ StartWatcher(r) \/ WatchEnds(r) \/ BreakerCloses(r) \/ Shutdown(r) \/ Exit(r)
      PROVE  IInv'
  BY <1>3, BootStep, StartWatcherStep, WatchEndsStep, BreakerClosesStep, ShutdownStep, ExitStep
<1>4. CASE DeleteLease \/ Tick
  BY <1>4, DeleteLeaseStep, TickStep
<1> QED BY <1>1, <1>2, <1>3, <1>4 DEF LENext

\* However the calls, timers, watches, crashes and deletions interleave, a write that is
\* accepted takes the lease only when it is free, expired or the writer's own.
THEOREM ElectionInvariant == LESpec => []IInv
<1>1. LEInit => IInv
  BY IInvInit
<1>2. IInv /\ [LENext]_levars => IInv'
  BY IInvNext
<1> QED BY <1>1, <1>2, PTL DEF LESpec

\* A leader whose last write is not expired holds the lease, for any number of replicas,
\* tasks at once, retries and faults (tryToBecomeLeader, renewLease, handleLeaseUpdate).
THEOREM LeadersHoldTheLease == LESpec => []FreshLeaderHolds
<1>1. IInv => FreshLeaderHolds
  <2> SUFFICES ASSUME IInv, NEW r \in Replicas, Leads(r), claim[r] <= Duration
               PROVE  lease.there /\ lease.holder = r
    BY DEF FreshLeaderHolds
  <2>1. Runs(r)
    BY DEF IInv, GoneIsSilent, Silent, Leads, Runs
  <2> QED BY <2>1 DEF IInv, FreshHolds
<1> QED BY <1>1, ElectionInvariant, PTL

\* Two replicas that lead at the same time: one of them let its lease run out.
OneFreshLeader ==
  \A r, q \in Replicas :
    Leads(r) /\ Leads(q) /\ claim[r] <= Duration /\ claim[q] <= Duration => r = q

\* There is never a second leader, unless one of them let its lease run out or someone
\* deleted it, which is what a replica that asks whether it leads relies on.
THEOREM LeadersAreOne == LESpec => []OneFreshLeader
<1>1. FreshLeaderHolds => OneFreshLeader
  BY DEF FreshLeaderHolds, OneFreshLeader
<1> QED BY <1>1, LeadersHoldTheLease, PTL

-----------------------------------------------------------------------------
(***************************************************************************)
(* The sockets of one user at the WebSocket servers (Presence).            *)
(***************************************************************************)

\* Before it is authenticated a socket is in no room; afterwards it watches one farm as
\* long as it is connected.
RoomOfOne ==
  \A s \in Sockets :
    /\ step[s] = "new" => s \notin alive
    /\ step[s] \in {"new", "authenticate", "rejected"} =>
         s \notin authenticated /\ watching[s] = {}
    /\ s \in alive \cap authenticated => \E farm \in Farms : watching[s] = {farm}

\* Whoever is in the player's room, was found there or was told to go, has got in, unless
\* its process ended since; no socket finds itself.
Entered == {s \in Sockets : step[s] \in {"done", "ended"}}

FoundEntered ==
  /\ \A s \in player : step[s] = "done"
  /\ dismissed \subseteq Entered
  /\ newest \in Entered \cup {NoSocket}
  /\ \A s \in Sockets : found[s] \subseteq Entered \ {s}

RoomsInv == PTypeOK /\ RoomOfOne /\ FoundEntered /\ NewestStays

LEMMA RoomsInit == PInit => RoomsInv
<1> SUFFICES ASSUME PInit PROVE RoomsInv
  OBVIOUS
<1>1. PTypeOK
  BY DEF PInit, PTypeOK, Steps
<1>2. RoomOfOne
  BY DEF PInit, RoomOfOne
<1>3. FoundEntered /\ NewestStays
  BY DEF PInit, FoundEntered, NewestStays
<1> QED BY <1>1, <1>2, <1>3 DEF RoomsInv

\* A step that lets no socket into the room and tells none to go.
LEMMA NobodyEnters ==
  ASSUME RoomsInv, Entered \subseteq Entered', player' \subseteq player,
         UNCHANGED <<dismissed, newest>>,
         \A s \in player' : step'[s] = "done",
         \A s \in Sockets : found'[s] \subseteq found[s] \cup (player \ {s}),
         \A s \in Sockets : step[s] = "gone" => step'[s] = "gone" /\ found[s] \subseteq found'[s]
  PROVE  FoundEntered' /\ NewestStays'
<1>1. NewestStays'
  BY DEF RoomsInv, NewestStays
<1>2. player \subseteq Entered
  BY DEF RoomsInv, FoundEntered, PTypeOK, Entered
<1>3. \A s \in Sockets : found'[s] \subseteq Entered' \ {s}
  BY <1>2 DEF RoomsInv, FoundEntered
<1>4. dismissed' \subseteq Entered' /\ newest' \in Entered' \cup {NoSocket}
  BY DEF RoomsInv, FoundEntered
<1> QED BY <1>1, <1>3, <1>4 DEF FoundEntered

LEMMA ConnectKeeps ==
  ASSUME RoomsInv, NEW s \in Sockets, Connect(s) \/ Reject(s)
  PROVE  RoomsInv'
<1>1. /\ step[s] \in {"new", "authenticate"}
      /\ \E to \in {"authenticate", "rejected"} : step' = [step EXCEPT ![s] = to]
      /\ alive' \subseteq alive \cup {s} /\ alive' \in SUBSET Sockets
      /\ UNCHANGED <<authenticated, player, newest, dismissed, watching, asked, found, writes,
                     isOnline>>
      /\ \A q \in Sockets \ {s} : q \in alive' <=> q \in alive
  BY DEF RoomsInv, PTypeOK, Connect, Reject, rooms
<1>2. s \notin player
  BY <1>1 DEF RoomsInv, FoundEntered
<1>3. step \in [Sockets -> Steps] /\ player \subseteq Sockets
  BY DEF RoomsInv, PTypeOK
<1>4. PTypeOK'
  BY <1>1, <1>2 DEF RoomsInv, PTypeOK, Steps
<1>5. RoomOfOne'
  BY <1>1, <1>3 DEF RoomsInv, RoomOfOne
<1>6. Entered' = Entered
  BY <1>1, <1>3 DEF Entered
<1>7. \A q \in player' : step'[q] = "done"
  BY <1>1, <1>2, <1>3 DEF RoomsInv, FoundEntered
<1>8. \A q \in Sockets : step[q] = "gone" => step'[q] = "gone"
  BY <1>1, <1>3
<1> QED BY <1>1, <1>4, <1>5, <1>6, <1>7, <1>8, NobodyEnters DEF RoomsInv

LEMMA AuthenticateKeeps ==
  ASSUME RoomsInv, NEW s \in Sockets, Authenticate(s)
  PROVE  RoomsInv'
<1>1. /\ step[s] = "authenticate" /\ step' = [step EXCEPT ![s] = "fetch"]
      /\ asked' = [asked EXCEPT ![s] = Servers]
      /\ authenticated' = authenticated \cup {s}
      /\ watching' = IF s \in alive THEN [watching EXCEPT ![s] = watching[s] \cup {Owner}]
                     ELSE watching
      /\ writes' = writes \cup {<<s, TRUE>>}
      /\ UNCHANGED <<alive, player, newest, dismissed, found, isOnline>>
  BY DEF Authenticate, rooms
<1>2. /\ step \in [Sockets -> Steps] /\ watching \in [Sockets -> SUBSET Farms]
      /\ asked \in [Sockets -> SUBSET Servers] /\ player \subseteq Sockets
      /\ Owner \in Farms
  BY DEF RoomsInv, PTypeOK, Farms
<1>3. watching[s] = {}
  BY <1>1 DEF RoomsInv, RoomOfOne
<1>4. PTypeOK'
  <2>1. step' \in [Sockets -> Steps]
    BY <1>1, <1>2 DEF Steps
  <2>2. watching' \in [Sockets -> SUBSET Farms] /\ asked' \in [Sockets -> SUBSET Servers]
    BY <1>1, <1>2
  <2>3. <<s, TRUE>> \in Sockets \X BOOLEAN
    OBVIOUS
  <2>4. writes' \subseteq Sockets \X BOOLEAN
    BY <1>1, <2>3 DEF RoomsInv, PTypeOK
  <2> QED BY <1>1, <2>1, <2>2, <2>4 DEF RoomsInv, PTypeOK
<1>5. RoomOfOne'
  BY <1>1, <1>2, <1>3 DEF RoomsInv, RoomOfOne
<1>6. Entered' = Entered
  BY <1>1, <1>2 DEF Entered
<1>7. \A q \in player' : step'[q] = "done"
  BY <1>1, <1>2 DEF RoomsInv, FoundEntered
<1>8. \A q \in Sockets : step[q] = "gone" => step'[q] = "gone"
  BY <1>1, <1>2
<1> QED BY <1>1, <1>4, <1>5, <1>6, <1>7, <1>8, NobodyEnters DEF RoomsInv

LEMMA FetchKeeps ==
  ASSUME RoomsInv, NEW s \in Sockets, FetchSockets(s)
  PROVE  RoomsInv'
<1>1. PICK n \in asked[s] :
        /\ asked' = [asked EXCEPT ![s] = asked[s] \ {n}]
        /\ found' = [found EXCEPT ![s] = found[s] \cup {t \in player \ {s} : ServerOf[t] = n}]
  BY DEF FetchSockets, InTheRoom
<1>2. /\ step[s] = "fetch"
      /\ UNCHANGED <<step, alive, authenticated, player, newest, dismissed, watching, writes,
                     isOnline>>
  BY DEF FetchSockets, rooms
<1>3. /\ found \in [Sockets -> SUBSET Sockets] /\ asked \in [Sockets -> SUBSET Servers]
      /\ player \subseteq Sockets
  BY DEF RoomsInv, PTypeOK
<1>4. found' \in [Sockets -> SUBSET Sockets] /\ asked' \in [Sockets -> SUBSET Servers]
  BY <1>1, <1>3
<1>5. PTypeOK'
  BY <1>2, <1>4 DEF RoomsInv, PTypeOK
<1>6. RoomOfOne'
  BY <1>2 DEF RoomsInv, RoomOfOne
<1>7. Entered' = Entered
  BY <1>2 DEF Entered
<1>8. \A q \in Sockets : found[q] \subseteq found'[q] /\ found'[q] \subseteq found[q] \cup (player \ {q})
  BY <1>1, <1>3
<1>9. \A q \in player' : step'[q] = "done"
  BY <1>2 DEF RoomsInv, FoundEntered
<1> QED BY <1>2, <1>5, <1>6, <1>7, <1>8, <1>9, NobodyEnters DEF RoomsInv

\* The process that ends takes its own sockets away, told or not.
LEMMA FetchFailsKeeps ==
  ASSUME RoomsInv, NEW s \in Sockets, FetchFails(s)
  PROVE  RoomsInv'
<1> DEFINE here == {t \in Sockets : ServerOf[t] = ServerOf[s]
                                     /\ step[t] \in {"authenticate", "fetch", "done"}}
<1>1. /\ step' = [t \in Sockets |-> IF t \in here THEN "ended" ELSE step[t]]
      /\ alive' = alive \ here /\ player' = player \ here
      /\ watching' = [t \in Sockets |-> IF t \in here THEN {} ELSE watching[t]]
      /\ writes' \in {writes, {write \in writes : write[1] \notin here}}
      /\ asked' = [t \in Sockets |-> IF t \in here THEN {} ELSE asked[t]]
      /\ found' = [t \in Sockets |-> IF t \in here THEN {} ELSE found[t]]
      /\ UNCHANGED <<authenticated, newest, dismissed, isOnline>>
  BY DEF FetchFails
<1>2. \A t \in here : step[t] \in {"authenticate", "fetch", "done"}
  OBVIOUS
<1> HIDE DEF here
<1>3. PTypeOK'
  <2>1. writes' \subseteq writes
    BY <1>1
  <2>2. step' \in [Sockets -> Steps]
    BY <1>1 DEF RoomsInv, PTypeOK, Steps
  <2>3. watching' \in [Sockets -> SUBSET Farms]
    BY <1>1 DEF RoomsInv, PTypeOK
  <2>4. found' \in [Sockets -> SUBSET Sockets] /\ asked' \in [Sockets -> SUBSET Servers]
    BY <1>1 DEF RoomsInv, PTypeOK
  <2> QED BY <1>1, <2>1, <2>2, <2>3, <2>4 DEF RoomsInv, PTypeOK
<1>4. RoomOfOne'
  BY <1>1 DEF RoomsInv, RoomOfOne
<1>5. Entered \subseteq Entered'
  BY <1>1 DEF Entered
<1>6. \A q \in player' : step'[q] = "done"
  BY <1>1 DEF RoomsInv, FoundEntered, PTypeOK
<1>7. \A q \in Sockets : step[q] = "gone" => q \notin here
  BY <1>2
<1>8. \A q \in Sockets : found'[q] \subseteq found[q] \cup (player \ {q})
  BY <1>1
<1>9. \A q \in Sockets : step[q] = "gone" => step'[q] = "gone" /\ found[q] \subseteq found'[q]
  BY <1>1, <1>7
<1> QED BY <1>1, <1>3, <1>4, <1>5, <1>6, <1>8, <1>9, NobodyEnters DEF RoomsInv

\* A login that gets in is told to go by nobody yet: those who looked before it was there
\* have not seen it.  One that does not get in may have found the newest.
LEMMA JoinKeeps ==
  ASSUME RoomsInv, NEW s \in Sockets, JoinPlayerRoom(s)
  PROVE  RoomsInv'
<1>1. /\ step[s] = "fetch"
      /\ step' = [step EXCEPT ![s] = IF s \in alive THEN "done" ELSE "gone"]
      /\ dismissed' = dismissed \cup found[s]
      /\ player' = player \cup ({s} \cap alive)
      /\ newest' = IF s \in alive THEN s ELSE newest
      /\ UNCHANGED <<alive, authenticated, watching, asked, found, writes, isOnline>>
  BY DEF JoinPlayerRoom, Joins
<1>2. step \in [Sockets -> Steps] /\ found[s] \subseteq Sockets
  BY DEF RoomsInv, PTypeOK
<1>3. PTypeOK'
  <2>1. step' \in [Sockets -> Steps]
    BY <1>1, <1>2 DEF Steps
  <2> QED BY <1>1, <1>2, <2>1 DEF RoomsInv, PTypeOK
<1>4. RoomOfOne'
  BY <1>1, <1>2 DEF RoomsInv, RoomOfOne
<1>5. s \notin Entered /\ s # NoSocket
  BY <1>1, PresenceAssumption DEF Entered
<1>6. s \notin dismissed /\ s \notin found[s] /\ newest # s
  BY <1>5 DEF RoomsInv, FoundEntered
<1>7. CASE s \in alive
  <2>1. Entered' = Entered \cup {s}
    BY <1>1, <1>2, <1>7 DEF Entered
  <2>2. FoundEntered'
    BY <1>1, <1>2, <1>7, <2>1 DEF RoomsInv, FoundEntered, PTypeOK
  <2>3. NewestStays'
    BY <1>1, <1>6, <1>7 DEF NewestStays
  <2> QED BY <1>3, <1>4, <2>2, <2>3 DEF RoomsInv
<1>8. CASE s \notin alive
  <2>1. Entered' = Entered
    BY <1>1, <1>2, <1>8 DEF Entered
  <2>2. player' = player /\ s \notin player
    BY <1>1, <1>8 DEF RoomsInv, PTypeOK
  <2>3. \A q \in player' : step'[q] = "done"
    BY <1>1, <1>2, <2>2 DEF RoomsInv, FoundEntered, PTypeOK
  <2>4. FoundEntered'
    BY <1>1, <1>8, <2>1, <2>3 DEF RoomsInv, FoundEntered
  <2>5. step'[s] = "gone" /\ \A t \in Sockets : step[t] = "gone" => step'[t] = "gone"
    BY <1>1, <1>2, <1>8
  <2>6. NewestStays'
    BY <1>1, <1>8, <2>5 DEF RoomsInv, NewestStays
  <2> QED BY <1>3, <1>4, <2>4, <2>6 DEF RoomsInv
<1> QED BY <1>7, <1>8

LEMMA DisconnectKeeps ==
  ASSUME RoomsInv, NEW s \in Sockets, Disconnect(s)
  PROVE  RoomsInv'
<1>1. /\ alive' = alive \ {s} /\ player' = player \ {s}
      /\ watching' = [watching EXCEPT ![s] = {}]
      /\ writes' \subseteq writes \cup {<<s, FALSE>>}
      /\ UNCHANGED <<step, authenticated, asked, found, newest, dismissed, isOnline>>
  BY DEF Disconnect
<1>2. watching \in [Sockets -> SUBSET Farms]
  BY DEF RoomsInv, PTypeOK
<1>3. PTypeOK'
  <2>1. watching' \in [Sockets -> SUBSET Farms]
    BY <1>1, <1>2
  <2>2. <<s, FALSE>> \in Sockets \X BOOLEAN
    OBVIOUS
  <2>3. writes' \subseteq Sockets \X BOOLEAN
    BY <1>1, <2>2 DEF RoomsInv, PTypeOK
  <2> QED BY <1>1, <2>1, <2>3 DEF RoomsInv, PTypeOK
<1>4. RoomOfOne'
  BY <1>1, <1>2 DEF RoomsInv, RoomOfOne
<1>5. Entered' = Entered
  BY <1>1 DEF Entered
<1>6. \A q \in player' : step'[q] = "done"
  BY <1>1 DEF RoomsInv, FoundEntered
<1> QED BY <1>1, <1>3, <1>4, <1>5, <1>6, NobodyEnters DEF RoomsInv

\* Who changes farms leaves the one it watched.
LEMMA WatchKeeps ==
  ASSUME RoomsInv, NEW s \in Sockets, NEW farm \in Farms, Watch(s, farm)
  PROVE  RoomsInv'
<1>1. PICK room \in watching[s] :
        watching' = [watching EXCEPT ![s] = (watching[s] \ {room}) \cup {farm}]
  BY DEF Watch, Switch
<1>2. /\ s \in alive
      /\ UNCHANGED <<step, alive, authenticated, player, newest, dismissed, asked, found, writes,
                     isOnline>>
  BY DEF Watch, rooms
<1>3. watching \in [Sockets -> SUBSET Farms]
  BY DEF RoomsInv, PTypeOK
<1>4. PTypeOK'
  BY <1>1, <1>2, <1>3 DEF RoomsInv, PTypeOK
<1>5. RoomOfOne'
  BY <1>1, <1>2, <1>3 DEF RoomsInv, RoomOfOne
<1>6. Entered' = Entered
  BY <1>2 DEF Entered
<1>7. \A q \in player' : step'[q] = "done"
  BY <1>2 DEF RoomsInv, FoundEntered
<1> QED BY <1>2, <1>4, <1>5, <1>6, <1>7, NobodyEnters DEF RoomsInv

LEMMA RoomsNext ==
  ASSUME RoomsInv, [PNext]_pvars
  PROVE  RoomsInv'
<1>1. ASSUME NEW s \in Sockets, Visit(s) \/ Return(s)
      PROVE  RoomsInv'
  <2>1. PICK farm \in Farms : Watch(s, farm)
    BY <1>1 DEF Visit, Return, Farms
  <2> QED BY <2>1, WatchKeeps
<1>2. CASE UpdateOnline \/ UNCHANGED pvars
  <2>1. /\ UNCHANGED <<step, alive, authenticated, player, newest, dismissed, watching, asked,
                       found>>
        /\ writes' \subseteq writes
        /\ isOnline' \in BOOLEAN
    BY <1>2 DEF UpdateOnline, pvars, rooms, RoomsInv, PTypeOK
  <2>2. PTypeOK'
    BY <2>1 DEF RoomsInv, PTypeOK
  <2>3. RoomOfOne'
    BY <2>1 DEF RoomsInv, RoomOfOne
  <2>4. Entered' = Entered
    BY <2>1 DEF Entered
  <2>5. \A q \in player' : step'[q] = "done"
    BY <2>1 DEF RoomsInv, FoundEntered
  <2> QED BY <2>1, <2>2, <2>3, <2>4, <2>5, NobodyEnters DEF RoomsInv
<1> QED BY <1>1, <1>2, ConnectKeeps, AuthenticateKeeps, FetchKeeps, FetchFailsKeeps, JoinKeeps,
           DisconnectKeeps
        DEF PNext

\* A socket is in no room before it is authenticated and watches one farm afterwards, and
\* only those who joined the player's room are found in it.
THEOREM RoomsInvariant == PSpec => []RoomsInv
<1>1. RoomsInv /\ [PNext]_pvars => RoomsInv'
  BY RoomsNext
<1> QED BY <1>1, RoomsInit, PTL DEF PSpec

\* However many connections a user makes and wherever they visit, each of them that is
\* connected and authenticated gets the updates of exactly one farm (AuthGateway, visit,
\* return).
THEOREM EachWatchesOneFarm == PSpec => []WatchesOneFarm
<1>1. RoomsInv => WatchesOneFarm
  BY DEF RoomsInv, RoomOfOne, PTypeOK, WatchesOneFarm
<1> QED BY <1>1, RoomsInvariant, PTL

\* Of any number of logins at once, at any number of nodes that answer at different times,
\* the one that got in last is told to go by none that is connected (joinRoom).
THEOREM NewestLoginStays == PSpec => []NewestStays
<1>1. RoomsInv => NewestStays
  BY DEF RoomsInv
<1> QED BY <1>1, RoomsInvariant, PTL

-----------------------------------------------------------------------------
(***************************************************************************)
(* Energy (EnergyRegen): it stays within the maximum and the energyFull    *)
(* flag never marks a full user as due, for any users and any number of    *)
(* workers that save what they computed from old documents.                *)
(***************************************************************************)

(***************************************************************************)
(* A copy was read from a user who was due, at a level the user still has  *)
(* or has passed, and what it holds agrees with that level.                *)
(***************************************************************************)
Sound(c, level) ==
  /\ c.energy <= MaxEnergy(level)
  /\ ~ c.energyFull => c.energy < MaxEnergy(level)
  /\ c.energyRegenTime < RegenTime

CopiesSound ==
  \A w \in Workers, u \in Users : task[w][u] # NoCopy =>
    /\ ~ task[w][u].read.energyFull
    /\ task[w][u].level <= users[u].level
    /\ Sound(task[w][u].mem, task[w][u].level)

\* A part of the invariant: a stored timer holds less than a period.
TimersBelowPeriod == \A u \in Users : regen[u] < RegenTime

Inductive ==
  /\ TypeOK
  /\ EnergyWithinMaximum
  /\ DueBelowMaximum
  /\ TimersBelowPeriod
  /\ CopiesSound

-----------------------------------------------------------------------------
(* Energy and levels.                                                      *)

Within(f) ==
  /\ f.energy <= MaxEnergy(f.level)
  /\ ~ f.energyFull => f.energy < MaxEnergy(f.level)

\* Spending keeps a user within the maximum, at the same level or a higher one.
LEMMA WorkWithin ==
  ASSUME NEW f \in Farmers, Within(f), NEW n \in Nat \ {0}, NEW x \in Nat, CanSpend(f, n)
  PROVE  /\ Work(f, n, x) \in Farmers
         /\ Within(Work(f, n, x))
         /\ Work(f, n, x).level >= f.level
         /\ SpendEnergy(f, n) \in Farmers
         /\ Within(SpendEnergy(f, n))
<1> DEFINE s == SpendEnergy(f, n)
<1>1. /\ s \in Farmers
      /\ s.energy < f.energy
      /\ s.level = f.level
  <2>1. s \in Farmers
    BY SpendEnergyType
  <2>2. s.energy < f.energy /\ s.level = f.level
    BY DEF Farmers, SpendEnergy
  <2> QED BY <2>1, <2>2
<1>2. MaxEnergy(f.level) \in Nat
  BY MaxEnergyGrows DEF Farmers
<1>3. s.energy < MaxEnergy(s.level)
  BY <1>1, <1>2 DEF Within, Farmers
<1>4. Within(s)
  BY <1>1, <1>2, <1>3 DEF Within, Farmers
<1> HIDE DEF s
<1>5. /\ AddExperiences(s, x) \in Farmers
      /\ AddExperiences(s, x).energy = s.energy
      /\ AddExperiences(s, x).level >= s.level
  BY <1>1, AddExperiencesType, LevelsOnlyGrow
<1>6. /\ MaxEnergy(s.level) \in Nat
      /\ MaxEnergy(AddExperiences(s, x).level) \in Nat
      /\ MaxEnergy(s.level) <= MaxEnergy(AddExperiences(s, x).level)
  BY <1>1, <1>5, MaxEnergyGrows DEF Farmers
<1>7. AddExperiences(s, x).energy < MaxEnergy(AddExperiences(s, x).level)
  BY <1>1, <1>3, <1>5, <1>6 DEF Farmers
<1>8. Within(AddExperiences(s, x))
  BY <1>1, <1>5, <1>6, <1>7 DEF Within, Farmers
<1> QED BY <1>1, <1>4, <1>5, <1>8 DEF Work, s

\* A level gained leaves a user within the maximum.
LEMMA GainWithin ==
  ASSUME NEW f \in Farmers, Within(f), NEW x \in Nat
  PROVE  /\ AddExperiences(f, x) \in Farmers
         /\ Within(AddExperiences(f, x))
         /\ AddExperiences(f, x).level >= f.level
<1>1. /\ AddExperiences(f, x) \in Farmers
      /\ AddExperiences(f, x).energy = f.energy
      /\ AddExperiences(f, x).energyFull = f.energyFull
      /\ AddExperiences(f, x).level >= f.level
  BY AddExperiencesType, LevelsOnlyGrow
<1>2. /\ MaxEnergy(f.level) \in Nat
      /\ MaxEnergy(AddExperiences(f, x).level) \in Nat
      /\ MaxEnergy(f.level) <= MaxEnergy(AddExperiences(f, x).level)
  BY <1>1, MaxEnergyGrows DEF Farmers
<1> QED BY <1>1, <1>2 DEF Within, Farmers

\* A purchase never takes energy away and never exceeds the maximum.
LEMMA BoughtWithin ==
  ASSUME NEW f \in Farmers, Within(f), NEW p \in Nat
  PROVE  /\ AddEnergy(f, Bought(f, p)) \in Farmers
         /\ Within(AddEnergy(f, Bought(f, p)))
         /\ AddEnergy(f, Bought(f, p)).level = f.level
<1> DEFINE m == MaxEnergy(f.level)
           part == (m * p) \div 100
           n == Bought(f, p)
<1>1. m \in Nat /\ f.energy \in Nat /\ f.energy <= m
  BY MaxEnergyGrows DEF Farmers, Within
<1>2. part \in Nat
  <2> DEFINE mp == m * p
  <2>1. mp \in Nat
    BY <1>1
  <2> HIDE DEF mp
  <2>2. mp \div 100 \in Nat
    BY <2>1
  <2> QED BY <2>2 DEF mp
<1>3. n = SmallerOf(m, f.energy + part) - f.energy
  BY DEF Bought
<1> HIDE DEF m, part, n
<1>4. n \in Nat /\ f.energy + n <= m
  BY <1>1, <1>2, <1>3 DEF SmallerOf
<1>5. AddEnergy(f, n) = [f EXCEPT !.energy = IF f.energy + n >= m THEN m ELSE @ + n,
                                  !.energyFull = f.energy + n >= m]
  BY DEF AddEnergy, m
<1>6. (f.energy + n >= m) \in BOOLEAN
  OBVIOUS
<1>7. CASE f.energy + n >= m
  <2> DEFINE g == [f EXCEPT !.energy = m, !.energyFull = TRUE]
  <2>1. AddEnergy(f, n) = g
    BY <1>5, <1>7, Zenon
  <2>2. g \in Farmers /\ g.energy = m /\ g.energyFull = TRUE /\ g.level = f.level
    BY <1>1 DEF Farmers
  <2> HIDE DEF g
  <2>3. Within(g)
    BY <1>1, <2>2 DEF Within, m
  <2> QED BY <2>1, <2>2, <2>3 DEF n
<1>8. CASE ~(f.energy + n >= m)
  <2> DEFINE g == [f EXCEPT !.energy = f.energy + n, !.energyFull = FALSE]
  <2>1. f.energy + n \in Nat /\ f.energy + n < m
    BY <1>1, <1>4, <1>8
  <2>2. AddEnergy(f, n) = g
    <3>1. (f.energy + n >= m) = FALSE
      BY <1>8
    <3> QED BY <1>5, <3>1, Zenon
  <2>3. g \in Farmers /\ g.energy = f.energy + n /\ g.energyFull = FALSE /\ g.level = f.level
    BY <2>1 DEF Farmers
  <2> HIDE DEF g
  <2>4. Within(g)
    BY <1>1, <2>1, <2>3 DEF Within, m
  <2> QED BY <2>2, <2>3, <2>4 DEF n
<1> QED BY <1>7, <1>8

-----------------------------------------------------------------------------
(* What a worker computes.                                                 *)

\* Resting keeps a copy sound for the level it was computed with, also when it is
\* repeated.
LEMMA RestedSound ==
  ASSUME NEW c \in Copies, NEW time \in Nat, NEW level \in Nat \ {0}, Sound(c, level)
  PROVE  /\ Rested(c, time, level) \in Copies
         /\ Sound(Rested(c, time, level), level)
<1> DEFINE m == MaxEnergy(level)
           waits == [c EXCEPT !.energyRegenTime = @ + time]
           paid == [c EXCEPT !.energy = @ + 1, !.energyRegenTime = 0,
                             !.energyFull = c.energy + 1 >= m]
<1>1. m \in Nat
  BY MaxEnergyGrows
<1>2. CASE c.energyFull
  BY <1>2 DEF Rested
<1>3. CASE ~ c.energyFull /\ c.energyRegenTime + time < RegenTime
  <2>1. Rested(c, time, level) = waits
    BY <1>3 DEF Rested
  <2>2. /\ waits \in Copies
        /\ waits.energy = c.energy
        /\ waits.energyFull = c.energyFull
        /\ waits.energyRegenTime < RegenTime
    BY <1>3 DEF Copies
  <2> HIDE DEF waits
  <2> QED BY <2>1, <2>2 DEF Sound
<1>4. CASE ~ c.energyFull /\ ~ (c.energyRegenTime + time < RegenTime)
  <2>1. Rested(c, time, level) = paid
    BY <1>4, Zenon DEF Rested
  <2>2. c.energy \in Nat /\ c.energy + 1 \in Nat /\ c.energy + 1 <= m
    BY <1>1, <1>4 DEF Sound, Copies
  <2>3. CASE c.energy + 1 >= m
    <3> DEFINE g == [c EXCEPT !.energy = @ + 1, !.energyRegenTime = 0, !.energyFull = TRUE]
    <3>1. (c.energy + 1 >= m) = TRUE
      BY <2>3
    <3>2. paid = g
      BY <3>1, Zenon
    <3>3. /\ g \in Copies
          /\ g.energy = c.energy + 1
          /\ g.energyFull = TRUE
          /\ g.energyRegenTime = 0
      BY <2>2 DEF Copies
    <3> HIDE DEF g, paid
    <3>4. Sound(g, level)
      BY <2>2, <3>3, RegenAssumption DEF Sound
    <3> QED BY <2>1, <3>2, <3>3, <3>4
  <2>4. CASE ~ (c.energy + 1 >= m)
    <3> DEFINE g == [c EXCEPT !.energy = @ + 1, !.energyRegenTime = 0, !.energyFull = FALSE]
    <3>1. (c.energy + 1 >= m) = FALSE
      BY <2>4
    <3>2. paid = g
      BY <3>1, Zenon
    <3>3. /\ g \in Copies
          /\ g.energy = c.energy + 1
          /\ g.energyFull = FALSE
          /\ g.energyRegenTime = 0
      BY <2>2 DEF Copies
    <3>4. c.energy + 1 < m
      BY <1>1, <2>2, <2>4
    <3> HIDE DEF g, paid
    <3>5. Sound(g, level)
      BY <2>2, <3>3, <3>4, RegenAssumption DEF Sound
    <3> QED BY <2>1, <3>2, <3>3, <3>5
  <2> QED BY <2>3, <2>4
<1> QED BY <1>2, <1>3, <1>4

\* A run of updateUser changes nothing of a task but the copy.
LEMMA AgedSound ==
  ASSUME NEW job \in Tasks, Sound(job.mem, job.level)
  PROVE  /\ Aged(job) \in Tasks
         /\ Aged(job).read = job.read
         /\ Aged(job).level = job.level
         /\ Aged(job).mem \in Copies
         /\ Sound(Aged(job).mem, job.level)
<1> DEFINE c == Rested(job.mem, job.time, job.level)
<1>1. c \in Copies /\ Sound(c, job.level)
  BY RestedSound DEF Tasks
<1>2. Aged(job) = [job EXCEPT !.mem = c]
  BY DEF Aged
<1> HIDE DEF c
<1> QED BY <1>1, <1>2 DEF Tasks

-----------------------------------------------------------------------------
(* Steps.                                                                  *)

LEMMA InitiallyInductive == Init => Inductive
<1> SUFFICES ASSUME Init PROVE Inductive
  OBVIOUS
<1>1. MaxEnergy(1) = 50
  BY DEF MaxEnergy
<1>2. TypeOK
  <2>1. users \in [Users -> Farmers]
    BY <1>1, RegenAssumption DEF Init, Farmers
  <2>2. regen \in [Users -> Nat] /\ queue \in Seq(Jobs)
    BY DEF Init
  <2>3. task \in [Workers -> [Users -> Tasks \cup {NoCopy}]]
    BY DEF Init
  <2> QED BY <2>1, <2>2, <2>3 DEF TypeOK
<1>3. EnergyWithinMaximum /\ DueBelowMaximum
  BY <1>1 DEF Init, EnergyWithinMaximum, DueBelowMaximum
<1>4. TimersBelowPeriod
  BY RegenAssumption DEF Init, TimersBelowPeriod
<1>5. CopiesSound
  BY DEF Init, CopiesSound
<1> QED BY <1>2, <1>3, <1>4, <1>5 DEF Inductive

\* A handler that leaves every user well formed, within the maximum and no lower in
\* level keeps what the workers hold sound.
LEMMA SetUsersInductive ==
  ASSUME Inductive, NEW new \in [Users -> Farmers], SetUsers(new),
         \A u \in Users : Within(new[u]) /\ new[u].level >= users[u].level
  PROVE  Inductive'
<1>1. users' = new /\ UNCHANGED <<regen, queue, task>>
  BY DEF SetUsers
<1>2. TypeOK'
  BY <1>1 DEF TypeOK, Inductive
<1>3. EnergyWithinMaximum' /\ DueBelowMaximum'
  BY <1>1 DEF EnergyWithinMaximum, DueBelowMaximum, Within
<1>4. TimersBelowPeriod'
  BY <1>1 DEF TimersBelowPeriod, Inductive
<1>5. CopiesSound'
  <2> SUFFICES ASSUME NEW w \in Workers, NEW u \in Users, task[w][u] # NoCopy
               PROVE  /\ ~ task[w][u].read.energyFull
                      /\ task[w][u].level <= new[u].level
                      /\ Sound(task[w][u].mem, task[w][u].level)
    BY <1>1 DEF CopiesSound
  <2>1. task[w][u] \in Tasks
    BY DEF Inductive, TypeOK
  <2>2. /\ ~ task[w][u].read.energyFull
        /\ task[w][u].level <= users[u].level
        /\ Sound(task[w][u].mem, task[w][u].level)
    BY DEF Inductive, CopiesSound
  <2>3. task[w][u].level \in Nat /\ users[u].level \in Nat /\ new[u].level \in Nat
    BY <2>1 DEF Tasks, Inductive, TypeOK, Farmers
  <2>4. new[u].level >= users[u].level
    OBVIOUS
  <2> QED BY <2>2, <2>3, <2>4
<1> QED BY <1>2, <1>3, <1>4, <1>5 DEF Inductive

LEMMA UsersWithin ==
  ASSUME Inductive, NEW u \in Users
  PROVE  users[u] \in Farmers /\ Within(users[u])
BY DEF Inductive, TypeOK, EnergyWithinMaximum, DueBelowMaximum, Within

LEMMA ActInductive ==
  ASSUME Inductive, NEW u \in Users, Act(u)
  PROVE  Inductive'
<1> DEFINE f == Work(users[u], EnergyConsume, ExperiencesGain)
           new == [users EXCEPT ![u] = f]
<1>1. /\ f \in Farmers
      /\ Within(f)
      /\ f.level >= users[u].level
  BY UsersWithin, WorkWithin, RegenAssumption DEF Act
<1>2. SetUsers(new)
  BY DEF Act
<1> HIDE DEF f
<1>3. new \in [Users -> Farmers]
  BY <1>1 DEF Inductive, TypeOK
<1>4. \A v \in Users : Within(new[v]) /\ new[v].level >= users[v].level
  BY <1>1, UsersWithin DEF Inductive, TypeOK, Farmers
<1> HIDE DEF new
<1> QED BY <1>2, <1>3, <1>4, SetUsersInductive

LEMMA BittenInductive ==
  ASSUME Inductive, NEW u \in Users, NEW neighbor \in Users, Bitten(u, neighbor)
  PROVE  Inductive'
<1> DEFINE f == SpendEnergy(users[u], DogEnergyReduce)
           g == AddExperiences(users[neighbor], PetExperience)
           new == [users EXCEPT ![u] = f, ![neighbor] = g]
<1>1. f \in Farmers /\ Within(f)
  BY UsersWithin, WorkWithin, RegenAssumption DEF Bitten
<1>2. f.level = users[u].level
  BY DEF SpendEnergy, Inductive, TypeOK, Farmers
<1>3. g \in Farmers /\ Within(g) /\ g.level >= users[neighbor].level
  BY UsersWithin, GainWithin, RegenAssumption
<1>4. SetUsers(new)
  <2>1. [users EXCEPT ![u] = SpendEnergy(@, DogEnergyReduce),
                      ![neighbor] = AddExperiences(@, PetExperience)] = new
    BY DEF Bitten, Inductive, TypeOK
  <2> QED BY <2>1 DEF Bitten
<1>5. u # neighbor
  BY DEF Bitten
<1> HIDE DEF f, g
<1>6. new \in [Users -> Farmers]
  BY <1>1, <1>3 DEF Inductive, TypeOK
<1>7. \A v \in Users : Within(new[v]) /\ new[v].level >= users[v].level
  <2> SUFFICES ASSUME NEW v \in Users
               PROVE  Within(new[v]) /\ new[v].level >= users[v].level
    OBVIOUS
  <2>1. users[v] \in Farmers /\ Within(users[v])
    BY UsersWithin
  <2>2. new[v] = IF v = neighbor THEN g ELSE IF v = u THEN f ELSE users[v]
    BY <1>5 DEF Inductive, TypeOK
  <2>3. users[v].level >= users[v].level
    BY <2>1 DEF Farmers
  <2> HIDE DEF new
  <2>4. CASE v = neighbor
    BY <1>3, <2>2, <2>4
  <2>5. CASE v # neighbor /\ v = u
    BY <1>1, <1>2, <2>2, <2>3, <2>5
  <2>6. CASE v # neighbor /\ v # u
    BY <2>1, <2>2, <2>3, <2>6
  <2> QED BY <2>4, <2>5, <2>6
<1> HIDE DEF new
<1> QED BY <1>4, <1>6, <1>7, SetUsersInductive

LEMMA BuyEnergyInductive ==
  ASSUME Inductive, NEW u \in Users, NEW percentage \in Percentages,
         BuyEnergy(u, percentage)
  PROVE  Inductive'
<1> DEFINE f == AddEnergy(users[u], Bought(users[u], percentage))
           new == [users EXCEPT ![u] = f]
<1>1. /\ f \in Farmers
      /\ Within(f)
      /\ f.level = users[u].level
  BY UsersWithin, BoughtWithin, RegenAssumption
<1>2. SetUsers(new)
  BY DEF BuyEnergy
<1> HIDE DEF f
<1>3. new \in [Users -> Farmers]
  BY <1>1 DEF Inductive, TypeOK
<1>4. \A v \in Users : Within(new[v]) /\ new[v].level >= users[v].level
  BY <1>1, UsersWithin DEF Inductive, TypeOK, Farmers
<1> HIDE DEF new
<1> QED BY <1>2, <1>3, <1>4, SetUsersInductive

LEMMA ScheduleInductive ==
  ASSUME Inductive, NEW time \in TickTimes, Schedule(time)
  PROVE  Inductive'
<1>1. UNCHANGED <<users, regen, task>>
  BY DEF Schedule
<1>2. Cardinality(Due) \in Nat
  <2>1. IsFiniteSet(Due)
    BY RegenAssumption, FS_Subset DEF Due
  <2> QED BY <2>1, FS_CardinalityType
<1>3. queue' \in Seq(Jobs)
  <2>1. queue \in Seq(Jobs)
    BY DEF Inductive, TypeOK
  <2>2. Batches(Cardinality(Due), time) \in Seq(Jobs)
    BY <1>2, BatchesType, RegenAssumption
  <2> QED BY <2>1, <2>2 DEF Schedule
<1>4. TypeOK'
  BY <1>1, <1>3 DEF Inductive, TypeOK
<1> QED BY <1>1, <1>4
        DEF Inductive, EnergyWithinMaximum, DueBelowMaximum, TimersBelowPeriod, CopiesSound

LEMMA WorkerDropsJobInductive ==
  ASSUME Inductive, NEW w \in Workers, WorkerDropsJob(w)
  PROVE  Inductive'
<1>1. UNCHANGED <<users, regen, task>>
  BY DEF WorkerDropsJob
<1>2. queue' \in Seq(Jobs)
  BY DEF WorkerDropsJob, Inductive, TypeOK
<1>3. TypeOK'
  BY <1>1, <1>2 DEF Inductive, TypeOK
<1> QED BY <1>1, <1>3
        DEF Inductive, EnergyWithinMaximum, DueBelowMaximum, TimersBelowPeriod, CopiesSound

\* What is read of a user who is due is sound for the level read with it.
LEMMA ReadSound ==
  ASSUME Inductive, NEW u \in Due
  PROVE  /\ u \in Users
         /\ Read(u) \in Copies
         /\ Read(u).energyFull = FALSE
         /\ users[u].level \in Nat \ {0}
         /\ Sound(Read(u), users[u].level)
<1>1. u \in Users /\ users[u].energyFull = FALSE
  BY DEF Due, Inductive, TypeOK, Farmers
<1>2. users[u] \in Farmers /\ Within(users[u]) /\ regen[u] \in Nat /\ regen[u] < RegenTime
  BY <1>1, UsersWithin DEF Inductive, TypeOK, TimersBelowPeriod
<1>3. /\ Read(u) \in Copies
      /\ Read(u).energy = users[u].energy
      /\ Read(u).energyFull = users[u].energyFull
      /\ Read(u).energyRegenTime = regen[u]
  BY <1>2 DEF Read, Copies, Farmers
<1>4. users[u].level \in Nat \ {0}
  BY <1>2 DEF Farmers
<1> QED BY <1>1, <1>2, <1>3, <1>4 DEF Sound, Within

LEMMA WorkerReadsInductive ==
  ASSUME Inductive, NEW w \in Workers, WorkerReads(w)
  PROVE  Inductive'
<1> DEFINE page == Page(Due, CreatedAt, Head(queue))
           new(u) == [read |-> Read(u), mem |-> Read(u), level |-> users[u].level,
                      time |-> Head(queue).time, tries |-> 0]
           copies == [u \in Users |-> IF u \in page THEN new(u) ELSE NoCopy]
<1>1. /\ queue # <<>>
      /\ task' = [task EXCEPT ![w] = copies]
      /\ queue' = Tail(queue)
      /\ UNCHANGED <<users, regen>>
  BY DEF WorkerReads
<1>2. Head(queue) \in Jobs /\ Tail(queue) \in Seq(Jobs)
  BY <1>1 DEF Inductive, TypeOK
<1>3. ASSUME NEW u \in page
      PROVE  /\ new(u) \in Tasks
             /\ new(u).read.energyFull = FALSE
             /\ new(u).level = users[u].level
             /\ Sound(new(u).mem, new(u).level)
  <2>1. u \in Due
    BY PageIsDue
  <2>2. /\ Read(u) \in Copies
        /\ Read(u).energyFull = FALSE
        /\ users[u].level \in Nat \ {0}
        /\ Sound(Read(u), users[u].level)
    BY <2>1, ReadSound
  <2>3. Head(queue).time \in Nat
    BY <1>2 DEF Jobs
  <2>4. new(u) \in Tasks
    BY <2>2, <2>3 DEF Tasks
  <2> QED BY <2>2, <2>4
<1> HIDE DEF new, page
<1>4. copies \in [Users -> Tasks \cup {NoCopy}]
  BY <1>3
<1>5. TypeOK'
  BY <1>1, <1>2, <1>4 DEF Inductive, TypeOK
<1>6. CopiesSound'
  <2> SUFFICES ASSUME NEW v \in Workers, NEW u \in Users, task'[v][u] # NoCopy
               PROVE  /\ ~ task'[v][u].read.energyFull
                      /\ task'[v][u].level <= users[u].level
                      /\ Sound(task'[v][u].mem, task'[v][u].level)
    BY <1>1 DEF CopiesSound
  <2>1. CASE v = w
    <3>1. task'[v][u] = new(u) /\ u \in page
      BY <1>1, <2>1 DEF Inductive, TypeOK
    <3>2. users[u].level \in Nat
      BY DEF Inductive, TypeOK, Farmers
    <3>3. new(u).level <= users[u].level
      <4>1. new(u).level = users[u].level
        BY <1>3, <3>1, Zenon
      <4>2. users[u].level <= users[u].level
        BY <3>2
      <4> QED BY <4>1, <4>2
    <3> QED BY <1>3, <3>1, <3>3
  <2>2. CASE v # w
    <3>1. task'[v][u] = task[v][u]
      BY <1>1, <2>2 DEF Inductive, TypeOK
    <3> QED BY <3>1 DEF Inductive, CopiesSound
  <2> QED BY <2>1, <2>2
<1> QED BY <1>1, <1>5, <1>6
        DEF Inductive, EnergyWithinMaximum, DueBelowMaximum, TimersBelowPeriod

\* A worker that changes one of its tasks, to a sound one or to none, keeps the rest.
LEMMA OneTask ==
  ASSUME Inductive, NEW w \in Workers, NEW u \in Users, NEW t \in Tasks \cup {NoCopy},
         task' = [task EXCEPT ![w][u] = t],
         \A v \in Users : users'[v].level = users[v].level,
         t # NoCopy => /\ ~ t.read.energyFull
                       /\ t.level <= users[u].level
                       /\ Sound(t.mem, t.level)
  PROVE  /\ task' \in [Workers -> [Users -> Tasks \cup {NoCopy}]]
         /\ CopiesSound'
<1>1. task \in [Workers -> [Users -> Tasks \cup {NoCopy}]]
  BY DEF Inductive, TypeOK
<1>2. task' \in [Workers -> [Users -> Tasks \cup {NoCopy}]]
  BY <1>1
<1>3. CopiesSound'
  <2> SUFFICES ASSUME NEW v \in Workers, NEW x \in Users, task'[v][x] # NoCopy
               PROVE  /\ ~ task'[v][x].read.energyFull
                      /\ task'[v][x].level <= users'[x].level
                      /\ Sound(task'[v][x].mem, task'[v][x].level)
    BY DEF CopiesSound
  <2>1. CASE v = w /\ x = u
    <3>1. task'[v][x] = t
      BY <1>1, <2>1
    <3> QED BY <2>1, <3>1
  <2>2. CASE ~ (v = w /\ x = u)
    <3>1. task'[v][x] = task[v][x]
      BY <1>1, <2>2
    <3> QED BY <3>1 DEF Inductive, CopiesSound
  <2> QED BY <2>1, <2>2
<1> QED BY <1>2, <1>3

LEMMA HeldTask ==
  ASSUME Inductive, NEW w \in Workers, NEW u \in Users, task[w][u] # NoCopy
  PROVE  /\ task[w][u] \in Tasks
         /\ ~ task[w][u].read.energyFull
         /\ task[w][u].level <= users[u].level
         /\ Sound(task[w][u].mem, task[w][u].level)
BY DEF Inductive, TypeOK, CopiesSound

LEMMA WorkerSavesInductive ==
  ASSUME Inductive, NEW w \in Workers, NEW u \in Users, WorkerSaves(w, u)
  PROVE  Inductive'
<1> DEFINE job == Aged(task[w][u])
           f == [users[u] EXCEPT !.energy = Kept(@, job.read.energy, job.mem.energy),
                   !.energyFull = Kept(@, job.read.energyFull, job.mem.energyFull)]
           r == Kept(regen[u], job.read.energyRegenTime, job.mem.energyRegenTime)
<1>1. /\ task[w][u] # NoCopy
      /\ users' = [users EXCEPT
           ![u].energy = Kept(@, job.read.energy, job.mem.energy),
           ![u].energyFull = Kept(@, job.read.energyFull, job.mem.energyFull)]
      /\ regen' = [regen EXCEPT ![u] = r]
      /\ task' = [task EXCEPT ![w][u] = NoCopy]
      /\ UNCHANGED queue
  BY DEF WorkerSaves
<1>2. /\ task[w][u] \in Tasks
      /\ ~ task[w][u].read.energyFull
      /\ task[w][u].level <= users[u].level
      /\ Sound(task[w][u].mem, task[w][u].level)
  BY <1>1, HeldTask
<1>3. /\ job \in Tasks
      /\ job.read.energyFull = FALSE
      /\ job.mem \in Copies
      /\ Sound(job.mem, task[w][u].level)
      /\ task[w][u].level \in Nat \ {0}
  <2>1. task[w][u].read.energyFull = FALSE /\ task[w][u].level \in Nat \ {0}
    BY <1>2 DEF Tasks, Copies
  <2> QED BY <1>2, <2>1, AgedSound
<1>4. users[u] \in Farmers /\ Within(users[u]) /\ regen[u] \in Nat /\ regen[u] < RegenTime
  BY UsersWithin DEF Inductive, TypeOK, TimersBelowPeriod
<1>5. users' = [users EXCEPT ![u] = f]
  BY <1>1 DEF Inductive, TypeOK
<1> HIDE DEF job
\* The level that was read is the level of the user or a lower one.
<1>6. Sound(job.mem, users[u].level)
  <2>1. users[u].level \in Nat \ {0}
    BY <1>4 DEF Farmers
  <2>2. /\ MaxEnergy(task[w][u].level) \in Nat
        /\ MaxEnergy(users[u].level) \in Nat
        /\ MaxEnergy(task[w][u].level) <= MaxEnergy(users[u].level)
    BY <1>2, <1>3, <2>1, MaxEnergyGrows
  <2> QED BY <1>3, <2>2 DEF Sound, Copies
<1> DEFINE e == Kept(users[u].energy, job.read.energy, job.mem.energy)
           b == Kept(users[u].energyFull, job.read.energyFull, job.mem.energyFull)
<1>7. e = users[u].energy \/ e = job.mem.energy
  BY DEF Kept
<1>8. b = users[u].energyFull \/ (b = job.mem.energyFull /\ job.mem.energyFull = TRUE)
  BY <1>3 DEF Kept, Copies
<1>9. /\ e \in Nat
      /\ b \in BOOLEAN
      /\ e <= MaxEnergy(users[u].level)
      /\ ~ b => e < MaxEnergy(users[u].level)
  <2>1. e \in Nat /\ e <= MaxEnergy(users[u].level)
    BY <1>3, <1>4, <1>6, <1>7 DEF Within, Sound, Farmers, Copies
  <2>2. b \in BOOLEAN
    BY <1>4, <1>8 DEF Farmers
  <2>3. ASSUME ~ b PROVE e < MaxEnergy(users[u].level)
    <3>1. users[u].energyFull = FALSE
      BY <1>4, <1>8, <2>3 DEF Farmers
    <3>2. job.mem.energyFull = FALSE
      <4>1. CASE job.mem.energyFull = TRUE
        BY <1>3, <2>3, <4>1 DEF Kept
      <4>2. CASE job.mem.energyFull = FALSE
        BY <4>2
      <4> QED BY <1>3, <4>1, <4>2 DEF Copies
    <3> QED BY <1>4, <1>6, <1>7, <3>1, <3>2 DEF Within, Sound
  <2> QED BY <2>1, <2>2, <2>3
<1>10. f = [users[u] EXCEPT !.energy = e, !.energyFull = b]
  OBVIOUS
<1> HIDE DEF e, b, f
<1>11. f \in Farmers /\ Within(f) /\ f.level = users[u].level
  <2>1. /\ f \in Farmers
        /\ f.energy = e
        /\ f.energyFull = b
        /\ f.level = users[u].level
    BY <1>4, <1>9, <1>10 DEF Farmers
  <2> QED BY <1>9, <2>1 DEF Within
<1>12. r \in Nat /\ r < RegenTime
  BY <1>3, <1>4 DEF Kept, Sound, Copies
<1> HIDE DEF r
<1>13. users' \in [Users -> Farmers] /\ regen' \in [Users -> Nat]
  BY <1>1, <1>5, <1>11, <1>12 DEF Inductive, TypeOK
<1>14. \A v \in Users : Within(users'[v]) /\ users'[v].level = users[v].level
  BY <1>5, <1>11, UsersWithin DEF Inductive, TypeOK
<1>15. task' \in [Workers -> [Users -> Tasks \cup {NoCopy}]] /\ CopiesSound'
  BY <1>1, <1>14, OneTask
<1>16. TypeOK'
  BY <1>1, <1>13, <1>15 DEF Inductive, TypeOK
<1>17. EnergyWithinMaximum' /\ DueBelowMaximum'
  BY <1>14 DEF EnergyWithinMaximum, DueBelowMaximum, Within
<1>18. TimersBelowPeriod'
  BY <1>1, <1>12 DEF Inductive, TypeOK, TimersBelowPeriod
<1> QED BY <1>15, <1>16, <1>17, <1>18 DEF Inductive

LEMMA WorkerRetriesInductive ==
  ASSUME Inductive, NEW w \in Workers, NEW u \in Users, WorkerRetries(w, u)
  PROVE  Inductive'
<1> DEFINE job == Aged(task[w][u])
           t == [job EXCEPT !.tries = @ + 1]
<1>1. /\ task[w][u] # NoCopy
      /\ task' = [task EXCEPT ![w][u] = t]
      /\ UNCHANGED <<users, regen, queue>>
  BY DEF WorkerRetries
<1>2. /\ task[w][u] \in Tasks
      /\ ~ task[w][u].read.energyFull
      /\ task[w][u].level <= users[u].level
      /\ Sound(task[w][u].mem, task[w][u].level)
  BY <1>1, HeldTask
<1>3. /\ job \in Tasks
      /\ ~ job.read.energyFull
      /\ job.level <= users[u].level
      /\ Sound(job.mem, job.level)
  BY <1>2, AgedSound
<1> HIDE DEF job
<1>4. /\ t \in Tasks
      /\ t.read = job.read
      /\ t.level = job.level
      /\ t.mem = job.mem
  BY <1>3 DEF Tasks
<1> HIDE DEF t
<1>5. task' \in [Workers -> [Users -> Tasks \cup {NoCopy}]] /\ CopiesSound'
  BY <1>1, <1>3, <1>4, OneTask
<1>6. TypeOK'
  BY <1>1, <1>5 DEF Inductive, TypeOK
<1> QED BY <1>1, <1>5, <1>6
        DEF Inductive, EnergyWithinMaximum, DueBelowMaximum, TimersBelowPeriod

LEMMA WorkerFailsInductive ==
  ASSUME Inductive, NEW w \in Workers, NEW u \in Users, WorkerFails(w, u)
  PROVE  Inductive'
<1>1. /\ task' = [task EXCEPT ![w][u] = NoCopy]
      /\ UNCHANGED <<users, regen, queue>>
  BY DEF WorkerFails
<1>2. task' \in [Workers -> [Users -> Tasks \cup {NoCopy}]] /\ CopiesSound'
  BY <1>1, OneTask
<1>3. TypeOK'
  BY <1>1, <1>2 DEF Inductive, TypeOK
<1> QED BY <1>1, <1>2, <1>3
        DEF Inductive, EnergyWithinMaximum, DueBelowMaximum, TimersBelowPeriod

LEMMA NextInductive == Inductive /\ [Next]_vars => Inductive'
<1> SUFFICES ASSUME Inductive, [Next]_vars PROVE Inductive'
  OBVIOUS
<1>1. ASSUME NEW u \in Users, Act(u) PROVE Inductive'
  BY <1>1, ActInductive
<1>2. ASSUME NEW u \in Users, NEW neighbor \in Users, Bitten(u, neighbor)
      PROVE  Inductive'
  BY <1>2, BittenInductive
<1>3. ASSUME NEW u \in Users, NEW percentage \in Percentages, BuyEnergy(u, percentage)
      PROVE  Inductive'
  BY <1>3, BuyEnergyInductive
<1>4. ASSUME NEW time \in TickTimes, Schedule(time) PROVE Inductive'
  BY <1>4, ScheduleInductive
<1>5. ASSUME NEW w \in Workers, WorkerReads(w) \/ WorkerDropsJob(w) PROVE Inductive'
  BY <1>5, WorkerReadsInductive, WorkerDropsJobInductive
<1>6. ASSUME NEW w \in Workers, NEW u \in Users,
             WorkerSaves(w, u) \/ WorkerRetries(w, u) \/ WorkerFails(w, u)
      PROVE  Inductive'
  BY <1>6, WorkerSavesInductive, WorkerRetriesInductive, WorkerFailsInductive
<1>7. CASE UNCHANGED vars
  BY <1>7 DEF vars, Inductive, TypeOK, EnergyWithinMaximum, DueBelowMaximum, TimersBelowPeriod,
              CopiesSound
<1> QED BY <1>1, <1>2, <1>3, <1>4, <1>5, <1>6, <1>7 DEF Next

LEMMA AlwaysInductive == Spec => []Inductive
BY InitiallyInductive, NextInductive, PTL DEF Spec

-----------------------------------------------------------------------------
(* Theorems.                                                               *)

\* No handler and no save of an old copy leaves a document of the wrong type, a
\* negative energy among them.
THEOREM TypeCorrect == Spec => []TypeOK
<1>1. Inductive => TypeOK
  BY DEF Inductive
<1> QED BY <1>1, AlwaysInductive, PTL

\* Energy never exceeds the maximum of the level, however many workers save what they
\* computed from old documents and however often they repeat it.
THEOREM NeverAboveMaximum == Spec => []EnergyWithinMaximum
<1>1. Inductive => EnergyWithinMaximum
  BY DEF Inductive
<1> QED BY <1>1, AlwaysInductive, PTL

\* A user whose energyFull is false lacks energy: no worker and no purchase gives
\* energy to a user who has all of it.
THEOREM DueUsersBelowMaximum == Spec => []DueBelowMaximum
<1>1. Inductive => DueBelowMaximum
  BY DEF Inductive
<1> QED BY <1>1, AlwaysInductive, PTL
=============================================================================
