--------------------------- MODULE LeaderElection ---------------------------
(***************************************************************************)
(* LeaderElectionService: replicas that agree on a leader through a        *)
(* Kubernetes lease.  A replica reads the lease, decides, writes it back   *)
(* under its resource version and acts on the answer; meanwhile it renews  *)
(* the lease on a timer and hears of its changes from a watch.  Each of    *)
(* these is a task that waits for the API server between its steps.        *)
(*                                                                         *)
(* Identities are never used twice (they hold the time of the start), so a *)
(* pod that restarts is another replica here.  The clocks of the replicas  *)
(* agree.  The RBAC check of the start and the branch for a process        *)
(* outside Kubernetes, which has no one to agree with, are left out.       *)
(*                                                                         *)
(* The names that every specification has (Init, Next, Spec ...) begin     *)
(* with LE, so that a module may extend another one beside this.           *)
(***************************************************************************)
EXTENDS Integers, Sequences, FiniteSets

CONSTANTS
  Replicas,
  None,        \* a lease without holderIdentity
  Duration,    \* durationInSeconds, in ticks of the clock
  ElectionRetries, \* maxRetries
  MaxFailures, \* maxCircuitBreakerFailures
  Versions,    \* resource versions: only ever compared for equality
  NoVersion,   \* currentLeaseResourceVersion is undefined
  Slots,       \* bound: the tasks a replica runs at once
  MaxEvents,   \* bound: the events of a watch that are under way
  MaxFaults    \* bound: calls and watches that fail, replicas that end, deletions of the lease

\* There is always a version that nobody holds: one is held at the API server, by each
\* replica and by each of its tasks.
ASSUME LeaderElectionAssumption ==
  /\ IsFiniteSet(Replicas) /\ IsFiniteSet(Slots)
  /\ IsFiniteSet(Versions) =>
       Cardinality(Versions) > 1 + Cardinality(Replicas) * (1 + Cardinality(Slots))
  /\ None \notin Replicas /\ NoVersion \notin Versions
  /\ Duration \in Nat /\ ElectionRetries \in Nat /\ MaxFailures \in Nat /\ MaxFaults \in Nat

VARIABLES
  lease,   \* the lease at the API server
  node,    \* the service of each replica
  tasks,   \* what it is doing
  events,  \* what its watch has yet to tell it
  claim,   \* history: the age of the last renewTime it got written, void once the lease is deleted
  faults   \* how many there were

levars == <<lease, node, tasks, events, claim, faults>>

\* Ages are capped one tick past the duration: by then the lease is expired.
Ages == 0 .. Duration + 1
Void == Duration + 1
NoBody == [holder |-> None, age |-> 0, ver |-> NoVersion]
IdleTask == [kind |-> "none", pc |-> "idle", try |-> 0, retry |-> 0, body |-> NoBody]
Start(kind) ==
  [IdleTask EXCEPT !.kind = kind, !.pc = IF kind = "elect" THEN "attempt" ELSE "get"]

LEInit ==
  /\ lease = [there |-> FALSE, holder |-> None, age |-> 0, ver |-> NoVersion]
  /\ node = [r \in Replicas |->
       [up |-> "new", isLeader |-> FALSE, isShuttingDown |-> FALSE, renewing |-> FALSE,
        version |-> NoVersion, failures |-> 0, watching |-> FALSE]]
  /\ tasks = [r \in Replicas |-> [s \in Slots |-> IdleTask]]
  /\ events = [r \in Replicas |-> <<>>]
  /\ claim = [r \in Replicas |-> Void]
  /\ faults = 0

Holders == Replicas \cup {None}
Vers == Versions \cup {NoVersion}
Bodies == [holder : Holders, age : Ages, ver : Vers]
ElectionTasks ==
  [kind : {"none", "elect", "renew", "release"},
   pc : {"idle", "attempt", "get", "create", "got", "put", "acked"},
   try : 0 .. ElectionRetries, retry : 0 .. ElectionRetries, body : Bodies]
Nodes ==
  [up : {"new", "up", "gone"}, isLeader : BOOLEAN, isShuttingDown : BOOLEAN, renewing : BOOLEAN,
   version : Vers, failures : 0 .. MaxFailures, watching : BOOLEAN]
Events == [type : {"ADDED", "MODIFIED", "DELETED"}, holder : Holders, age : Ages]

LETypeOK ==
  /\ lease \in [there : BOOLEAN, holder : Holders, age : Ages, ver : Vers]
  /\ node \in [Replicas -> Nodes]
  /\ tasks \in [Replicas -> [Slots -> ElectionTasks]]
  /\ events \in [Replicas -> Seq(Events)]
  /\ claim \in [Replicas -> Ages]
  /\ faults \in 0 .. MaxFaults
-----------------------------------------------------------------------------
(***************************************************************************)
(* The API server and its watches (external)                               *)
(***************************************************************************)
InUse ==
  {lease.ver} \cup {node[r].version : r \in Replicas}
              \cup {tasks[r][s].body.ver : r \in Replicas, s \in Slots}
NewVersion == CHOOSE v \in Versions : v \notin InUse

Watched(ev) ==
  [r \in Replicas |-> IF node[r].watching THEN Append(events[r], ev) ELSE events[r]]
RoomForEvents == \A r \in Replicas : Len(events[r]) < MaxEvents

\* The lease becomes what replica r sent.
Write(r, body) ==
  /\ RoomForEvents
  /\ lease' = [there |-> TRUE, holder |-> body.holder, age |-> body.age, ver |-> NewVersion]
  /\ events' = Watched([type |-> "MODIFIED", holder |-> body.holder, age |-> body.age])
  /\ claim' = [claim EXCEPT ![r] = body.age]

NoWrite == UNCHANGED <<lease, events, claim>>
Unmodified(body) == lease.there /\ lease.ver = body.ver
-----------------------------------------------------------------------------
(***************************************************************************)
(* Helpers of the service                                                  *)
(***************************************************************************)
BreakerOpen(n) == n.failures >= MaxFailures
Failed(n) == [n EXCEPT !.failures = IF @ < MaxFailures THEN @ + 1 ELSE @]
Succeeded(n) == [n EXCEPT !.failures = 0]

\* Mutant: the lease is expired in its last moment.
ExpiredTooSoon(body) == body.age >= Duration
IsLeaseExpired(body) == body.age > Duration

BecomeLeader(n) ==
  IF n.isShuttingDown THEN n ELSE [n EXCEPT !.isLeader = TRUE, !.renewing = TRUE]
LoseLeadership(n) == [n EXCEPT !.isLeader = FALSE, !.renewing = FALSE]

NextAttempt(t) ==
  IF t.try + 1 >= ElectionRetries THEN IdleTask ELSE [Start(t.kind) EXCEPT !.try = t.try + 1]

Set(r, s, t, n) ==
  /\ tasks' = [tasks EXCEPT ![r][s] = t]
  /\ node' = [node EXCEPT ![r] = n]

NoFault == UNCHANGED faults
Fault == faults < MaxFaults /\ faults' = faults + 1
-----------------------------------------------------------------------------
(***************************************************************************)
(* The steps of a task                                                     *)
(***************************************************************************)
\* The head of the loop in runLeaderElectionProcess, and tryToBecomeLeader up to its first call.
Attempt(r, s) ==
  LET t == tasks[r][s]
      n == node[r]
  IN /\ t.pc = "attempt"
     /\ Set(r, s, IF n.isLeader \/ n.isShuttingDown THEN IdleTask
                  ELSE IF BreakerOpen(n) THEN NextAttempt(t)
                  ELSE [t EXCEPT !.pc = "get", !.retry = ElectionRetries], n)
     /\ NoFault /\ NoWrite

\* What a task does when a call throws: withRetry repeats the reads of an election, an
\* election that fails tries again, a renewal tries again or gives the leadership up, and
\* a release is left alone.
Throws(r, s, mayRetry) ==
  LET t == tasks[r][s]
      n == node[r]
  IN CASE t.kind = "elect" /\ mayRetry ->
            Set(r, s, IF t.retry = 0 \/ n.isShuttingDown THEN NextAttempt(t)
                      ELSE [Start("elect") EXCEPT !.pc = "get", !.try = t.try, !.retry = t.retry - 1],
                Failed(n))
       [] t.kind = "elect" /\ ~mayRetry -> Set(r, s, NextAttempt(t), n)
       [] t.kind = "renew" ->
            IF t.try + 1 < ElectionRetries
            THEN Set(r, s, IF n.isShuttingDown THEN IdleTask ELSE NextAttempt(t), Failed(n))
            ELSE Set(r, s, IdleTask, LoseLeadership(Failed(n)))
       [] t.kind = "release" -> Set(r, s, IdleTask, n)

\* getLease: the answer is what the server held when it read.
Get(r, s) ==
  /\ tasks[r][s].pc = "get"
  /\ \/ /\ lease.there
        /\ Set(r, s, [tasks[r][s] EXCEPT !.pc = "got",
                        !.body = [holder |-> lease.holder, age |-> lease.age, ver |-> lease.ver]],
               node[r])
        /\ NoFault
     \/ /\ ~lease.there
        /\ Set(r, s, [tasks[r][s] EXCEPT !.pc = "create",
                        !.body = [holder |-> r, age |-> 0, ver |-> NoVersion]], node[r])
        /\ NoFault
     \/ Fault /\ Throws(r, s, TRUE)
  /\ NoWrite

\* createLease: refused when another replica was first.
Create(r, s) ==
  LET t == tasks[r][s] IN
  /\ t.pc = "create"
  /\ \/ /\ ~lease.there
        /\ Write(r, t.body)
        /\ Set(r, s, [t EXCEPT !.pc = "got", !.body.ver = NewVersion],
               [node[r] EXCEPT !.version = NewVersion])
        /\ NoFault
     \/ lease.there /\ Throws(r, s, TRUE) /\ NoFault /\ NoWrite
     \/ Fault /\ Throws(r, s, TRUE) /\ NoWrite

Body(t, holder, age) == [t EXCEPT !.pc = "put", !.body.holder = holder, !.body.age = age]

\* tryToBecomeLeader with the lease it read.
Decide(r, s) ==
  LET t == tasks[r][s]
      n == Succeeded(node[r])
  IN /\ t.kind = "elect" /\ t.pc = "got"
     /\ IF IsLeaseExpired(t.body) \/ t.body.holder = None
        THEN Set(r, s, Body(t, r, 0), n)
        ELSE IF t.body.holder = r /\ ~n.isShuttingDown
        THEN Set(r, s, IdleTask, BecomeLeader(n))
        ELSE Set(r, s, NextAttempt(t), n)
     /\ NoFault /\ NoWrite

\* Mutant: a lease that is not ours is left alone, and that is all.
RenewQuietly(r, s) ==
  LET t == tasks[r][s]
      n == node[r]
  IN /\ t.kind = "renew" /\ t.pc = "got"
     /\ IF t.body.holder # r \/ (n.version # NoVersion /\ t.body.ver # n.version)
        THEN Set(r, s, IdleTask, n)
        ELSE Set(r, s, Body(t, r, 0), n)
     /\ NoFault /\ NoWrite

\* renewLease: the lease has to be ours, and untouched since we last wrote it.
Renew(r, s) ==
  LET t == tasks[r][s]
      n == node[r]
  IN /\ t.kind = "renew" /\ t.pc = "got"
     /\ IF t.body.holder # r \/ (n.version # NoVersion /\ t.body.ver # n.version)
        THEN Set(r, s, IdleTask, LoseLeadership(n))
        ELSE Set(r, s, Body(t, r, 0), n)
     /\ NoFault /\ NoWrite

Release(r, s) ==
  LET t == tasks[r][s] IN
  /\ t.kind = "release" /\ t.pc = "got"
  /\ Set(r, s, IF t.body.holder = r THEN Body(t, None, t.body.age) ELSE IdleTask, node[r])
  /\ NoFault /\ NoWrite

\* replaceNamespacedLease: a fault loses the request or its answer.
Put(r, s) ==
  LET t == tasks[r][s] IN
  /\ t.pc = "put"
  /\ \/ /\ Unmodified(t.body)
        /\ Write(r, t.body)
        /\ \/ /\ Set(r, s, [t EXCEPT !.pc = "acked", !.body = [NoBody EXCEPT !.ver = NewVersion]], node[r])
              /\ NoFault
           \/ Fault /\ Throws(r, s, FALSE)
     \/ ~Unmodified(t.body) /\ Throws(r, s, FALSE) /\ NoFault /\ NoWrite
     \/ Fault /\ Throws(r, s, FALSE) /\ NoWrite

Acked(r, s) ==
  LET t == tasks[r][s]
      n == [node[r] EXCEPT !.version = t.body.ver]
  IN /\ t.pc = "acked"
     /\ Set(r, s, IdleTask, CASE t.kind = "elect" -> BecomeLeader(n)
                          [] t.kind = "renew" -> Succeeded(n)
                          [] t.kind = "release" -> node[r])
     /\ NoFault /\ NoWrite

TaskStep(r, s) ==
  \/ Attempt(r, s) \/ Get(r, s) \/ Create(r, s) \/ Decide(r, s) \/ Renew(r, s)
  \/ Release(r, s) \/ Put(r, s) \/ Acked(r, s)
-----------------------------------------------------------------------------
(***************************************************************************)
(* Timers, the watch, the start and the end                                *)
(***************************************************************************)
FreeSlots(r) == {s \in Slots : tasks[r][s] = IdleTask}
StartTask(r, kind) ==
  LET s == CHOOSE s \in FreeSlots(r) : TRUE
  IN /\ FreeSlots(r) # {}
     /\ tasks' = [tasks EXCEPT ![r][s] = Start(kind)]

\* scheduleLeaseRenewal: setInterval does not wait for the renewal before.
RenewalTimer(r) ==
  /\ node[r].renewing
  /\ IF node[r].isLeader /\ ~node[r].isShuttingDown
     THEN StartTask(r, "renew") /\ UNCHANGED node
     ELSE node' = [node EXCEPT ![r].renewing = FALSE] /\ UNCHANGED tasks
  /\ UNCHANGED <<lease, events, claim, faults>>

\* A new watch is first told of the lease as it is.
FirstEvents ==
  IF lease.there THEN <<[type |-> "ADDED", holder |-> lease.holder, age |-> lease.age]>> ELSE <<>>

\* onApplicationBootstrap: the watcher, then the election.
Boot(r) ==
  /\ node[r].up = "new"
  /\ StartTask(r, "elect")
  /\ \/ /\ node' = [node EXCEPT ![r].up = "up", ![r].watching = TRUE]
        /\ events' = [events EXCEPT ![r] = FirstEvents]
        /\ NoFault
     \/ /\ node' = [node EXCEPT ![r] = Failed([@ EXCEPT !.up = "up"])]
        /\ Fault
        /\ UNCHANGED events
  /\ UNCHANGED <<lease, claim>>

StartWatcher(r) ==
  /\ node[r].up = "up" /\ ~node[r].watching /\ ~node[r].isShuttingDown
  /\ ~BreakerOpen(node[r])
  /\ node' = [node EXCEPT ![r] = Succeeded([@ EXCEPT !.watching = TRUE])]
  /\ events' = [events EXCEPT ![r] = FirstEvents]
  /\ UNCHANGED <<lease, tasks, claim, faults>>

\* The watch ends, by an error or because checkWatchHealth aborts it; what it had yet
\* to tell is lost.
WatchEnds(r) ==
  /\ node[r].watching
  /\ Fault
  /\ node' = [node EXCEPT ![r] = Failed([@ EXCEPT !.watching = FALSE])]
  /\ events' = [events EXCEPT ![r] = <<>>]
  /\ UNCHANGED <<lease, tasks, claim>>

\* circuitBreakerTimeout is over, and someone asks.
BreakerCloses(r) ==
  /\ BreakerOpen(node[r])
  /\ node' = [node EXCEPT ![r].failures = 0]
  /\ UNCHANGED <<lease, tasks, events, claim, faults>>

HandleLeaseUpdate(r, ev) ==
  LET n == node[r] IN
  IF n.isShuttingDown THEN n
  ELSE IF ev.holder # r THEN LoseLeadership(n)
  ELSE IF n.isLeader \/ IsLeaseExpired(ev) THEN n
  ELSE BecomeLeader(n)

HandleEvent(r) ==
  /\ events[r] # <<>>
  /\ events' = [events EXCEPT ![r] = Tail(@)]
  /\ LET ev == Head(events[r])
     IN IF ev.type = "DELETED"
        THEN /\ UNCHANGED node
             /\ IF node[r].isLeader \/ node[r].isShuttingDown
                THEN UNCHANGED tasks
                ELSE StartTask(r, "elect")
        ELSE /\ node' = [node EXCEPT ![r] = HandleLeaseUpdate(r, ev)]
             /\ UNCHANGED tasks
  /\ UNCHANGED <<lease, claim, faults>>

\* initiateGracefulShutdown; isLeader stays as it is.
Shutdown(r) ==
  /\ node[r].up = "up" /\ ~node[r].isShuttingDown
  /\ Fault
  /\ node' = [node EXCEPT ![r].isShuttingDown = TRUE, ![r].renewing = FALSE, ![r].watching = FALSE]
  /\ events' = [events EXCEPT ![r] = <<>>]
  /\ IF node[r].isLeader THEN StartTask(r, "release") ELSE UNCHANGED tasks
  /\ UNCHANGED <<lease, claim>>

\* The process is gone, after its shutdown or without one.
Exit(r) ==
  /\ node[r].up = "up"
  /\ IF node[r].isShuttingDown THEN NoFault ELSE Fault
  /\ node' = [node EXCEPT ![r] = [up |-> "gone", isLeader |-> FALSE, isShuttingDown |-> FALSE,
                                  renewing |-> FALSE, version |-> NoVersion, failures |-> 0,
                                  watching |-> FALSE]]
  /\ tasks' = [tasks EXCEPT ![r] = [s \in Slots |-> IdleTask]]
  /\ events' = [events EXCEPT ![r] = <<>>]
  /\ UNCHANGED <<lease, claim>>

\* Someone deletes the lease: whoever held it holds nothing.
DeleteLease ==
  /\ lease.there /\ RoomForEvents
  /\ Fault
  /\ lease' = [there |-> FALSE, holder |-> None, age |-> 0, ver |-> NoVersion]
  /\ events' = Watched([type |-> "DELETED", holder |-> None, age |-> 0])
  /\ claim' = [r \in Replicas |-> Void]
  /\ UNCHANGED <<node, tasks>>

Older(a) == IF a < Void THEN a + 1 ELSE a
Tick ==
  /\ lease' = IF lease.there THEN [lease EXCEPT !.age = Older(@)] ELSE lease
  /\ tasks' = [r \in Replicas |-> [s \in Slots |->
       IF tasks[r][s].pc \in {"create", "got", "put"}
       THEN [tasks[r][s] EXCEPT !.body.age = Older(@)] ELSE tasks[r][s]]]
  /\ events' = [r \in Replicas |-> [i \in DOMAIN events[r] |-> [events[r][i] EXCEPT !.age = Older(@)]]]
  /\ claim' = [r \in Replicas |-> Older(claim[r])]
  /\ UNCHANGED <<node, faults>>

\* What a replica does of its own, its event loop's next turn: a call that is answered or
\* fails, the timer of the renewal, an event of the watch.
Turn(r) == RenewalTimer(r) \/ HandleEvent(r) \/ \E s \in Slots : TaskStep(r, s)

LENext ==
  \/ \E r \in Replicas :
       \/ Boot(r) \/ StartWatcher(r) \/ WatchEnds(r) \/ BreakerCloses(r)
       \/ Turn(r) \/ Shutdown(r) \/ Exit(r)
  \/ DeleteLease
  \/ Tick

LESpec == LEInit /\ [][LENext]_levars

\* The event loop of a replica that runs keeps turning.
LEFairness == \A r \in Replicas : WF_levars(Turn(r))

LEFairSpec == LESpec /\ LEFairness
-----------------------------------------------------------------------------
(***************************************************************************)
(* What the election promises                                              *)
(***************************************************************************)
Leads(r) == node[r].isLeader /\ ~node[r].isShuttingDown

\* As long as what a leader last wrote is not expired the lease is its own, so two replicas
\* lead at the same time only when one of them has let its lease run out unnoticed, or
\* someone deleted the lease (tryToBecomeLeader, renewLease, handleLeaseUpdate).
FreshLeaderHolds ==
  \A r \in Replicas :
    Leads(r) /\ claim[r] <= Duration => lease.there /\ lease.holder = r

\* A leader whose lease is another's finds out and steps down, whatever its watch tells it:
\* the next renewal reads the lease (renewLease).
StaleLeaderStepsDown ==
  \A r \in Replicas :
    (Leads(r) /\ lease.there /\ lease.holder # r)
      ~> (~Leads(r) \/ ~lease.there \/ lease.holder = r)

\* Once nobody leads, someone will again.  The service does not promise it: a replica tries
\* when it starts and when the lease is deleted, and neither the expiry nor the release of a
\* lease makes it try again.
TakesOver ==
  ((\A r \in Replicas : ~Leads(r)) /\ (\E r \in Replicas : node[r].up = "up" /\ ~node[r].isShuttingDown))
    ~> ((\E r \in Replicas : Leads(r)) \/ (\A r \in Replicas : node[r].up # "up" \/ node[r].isShuttingDown))
=============================================================================
