------------------------------ MODULE Presence ------------------------------
(***************************************************************************)
(* The sockets of one user at the WebSocket servers: AuthGateway, which    *)
(* authenticates a connection, lets it into the room of the player and     *)
(* into the room of those who watch a farm, and keeps the isOnline flag of *)
(* the user document; and the visit and return messages.                   *)
(*                                                                         *)
(* A step is what runs between two awaits.  joinRoom is called twice and   *)
(* not awaited: the room of the player waits for fetchSockets, which asks  *)
(* every node, the watcher's room is joined at once, and the flag is       *)
(* written whenever the database gets to it.  When fetchSockets rejects    *)
(* nobody catches it, which ends the process and all it was doing.         *)
(*                                                                         *)
(* The names every specification has (Init, Next, Spec ...) begin with P,  *)
(* so that a module may extend another specification beside this one.      *)
(***************************************************************************)

CONSTANTS
  Sockets,       \* the connections the user makes
  Owner,         \* the user
  Neighbours,    \* users whose farms may be visited
  Servers,       \* the processes of the WebSocket server
  ServerOf,      \* of a socket: the node it is connected to
  NoSocket

ASSUME PresenceAssumption ==
  /\ ServerOf \in [Sockets -> Servers]
  /\ NoSocket \notin Sockets

Farms == {Owner} \cup Neighbours

VARIABLES
  step,          \* of a socket's handleConnection: what it waits for
  alive,         \* the sockets that are connected
  authenticated, \* the sockets whose data.user is set
  player,        \* the sockets in the player's room
  watching,      \* of a socket: the watcher rooms it is in
  asked,         \* of a socket: the nodes fetchSockets still waits for
  found,         \* of a socket: what the nodes answered
  dismissed,     \* the sockets told to disconnect
  writes,        \* the updates of isOnline under way: <<socket, value>>
  isOnline,
  newest         \* history: the socket that joined the player's room last

rooms == <<player, newest, dismissed>>

pvars == <<step, alive, authenticated, rooms, watching, asked, found, writes, isOnline>>

\* "gone" is a login whose socket was closed before it got into the room, "ended" one
\* whose process ended.
Steps == {"new", "authenticate", "fetch", "done", "gone", "rejected", "ended"}

PInit ==
  /\ step = [s \in Sockets |-> "new"]
  /\ alive = {} /\ authenticated = {} /\ player = {} /\ dismissed = {}
  /\ watching = [s \in Sockets |-> {}]
  /\ asked = [s \in Sockets |-> {}]
  /\ found = [s \in Sockets |-> {}]
  /\ writes = {}
  /\ isOnline = FALSE
  /\ newest = NoSocket
-----------------------------------------------------------------------------
(***************************************************************************)
(* A connection                                                            *)
(***************************************************************************)
Connect(s) ==
  /\ step[s] = "new"
  /\ step' = [step EXCEPT ![s] = "authenticate"]
  /\ alive' = alive \cup {s}
  /\ UNCHANGED <<authenticated, rooms, watching, asked, found, writes, isOnline>>

Reject(s) ==
  /\ step[s] = "authenticate"
  /\ step' = [step EXCEPT ![s] = "rejected"]
  /\ alive' = alive \ {s}
  /\ UNCHANGED <<authenticated, rooms, watching, asked, found, writes, isOnline>>

\* Mutant: the room is joined before those in it are looked up.
AuthenticateAndJoin(s) ==
  /\ step[s] = "authenticate"
  /\ step' = [step EXCEPT ![s] = "fetch"]
  /\ asked' = [asked EXCEPT ![s] = Servers]
  /\ authenticated' = authenticated \cup {s}
  /\ watching' = IF s \in alive THEN [watching EXCEPT ![s] = @ \cup {Owner}] ELSE watching
  /\ player' = player \cup ({s} \cap alive)
  /\ newest' = IF s \in alive THEN s ELSE newest
  /\ writes' = writes \cup {<<s, TRUE>>}
  /\ UNCHANGED <<alive, found, dismissed, isOnline>>

\* The socket may be closed by then; its rooms are then nobody's.
Authenticate(s) ==
  /\ step[s] = "authenticate"
  /\ step' = [step EXCEPT ![s] = "fetch"]
  /\ asked' = [asked EXCEPT ![s] = Servers]
  /\ authenticated' = authenticated \cup {s}
  /\ watching' = IF s \in alive THEN [watching EXCEPT ![s] = @ \cup {Owner}] ELSE watching
  /\ writes' = writes \cup {<<s, TRUE>>}
  /\ UNCHANGED <<alive, rooms, found, isOnline>>

\* Mutant: only the node of the socket is asked, and the others are connected elsewhere.
OnThisNode(s, n) == {t \in player \ {s} : ServerOf[t] = n /\ n = ServerOf[s]}

InTheRoom(s, n) == {t \in player \ {s} : ServerOf[t] = n}

\* One node answers.
FetchSockets(s) ==
  /\ step[s] = "fetch"
  /\ \E n \in asked[s] :
       /\ asked' = [asked EXCEPT ![s] = @ \ {n}]
       /\ found' = [found EXCEPT ![s] = @ \cup InTheRoom(s, n)]
  /\ UNCHANGED <<step, alive, authenticated, rooms, watching, writes, isOnline>>

\* A node does not answer in time.  The process that asked ends: its sockets are closed
\* without handleDisconnect, and its updates of the flag are lost unless they were sent.
FetchFails(s) ==
  LET here == {t \in Sockets : ServerOf[t] = ServerOf[s] /\ step[t] \in {"authenticate", "fetch", "done"}}
  IN  /\ step[s] = "fetch" /\ asked[s] # {}
      /\ step' = [t \in Sockets |-> IF t \in here THEN "ended" ELSE step[t]]
      /\ alive' = alive \ here
      /\ player' = player \ here
      /\ watching' = [t \in Sockets |-> IF t \in here THEN {} ELSE watching[t]]
      /\ writes' \in {writes, {write \in writes : write[1] \notin here}}
      /\ asked' = [t \in Sockets |-> IF t \in here THEN {} ELSE asked[t]]
      /\ found' = [t \in Sockets |-> IF t \in here THEN {} ELSE found[t]]
      /\ UNCHANGED <<authenticated, newest, dismissed, isOnline>>

Joins(s) == {s} \cap alive

\* All nodes have answered: whoever was found is told to go, also by a login that is
\* itself closed by now and joins nothing.
JoinPlayerRoom(s) ==
  /\ step[s] = "fetch" /\ asked[s] = {}
  /\ step' = [step EXCEPT ![s] = IF s \in alive THEN "done" ELSE "gone"]
  /\ dismissed' = dismissed \cup found[s]
  /\ player' = player \cup Joins(s)
  /\ newest' = IF s \in alive THEN s ELSE newest
  /\ UNCHANGED <<alive, authenticated, watching, asked, found, writes, isOnline>>

\* A client may leave at any time; one that was dismissed will.
Disconnect(s) ==
  /\ s \in alive
  /\ alive' = alive \ {s}
  /\ player' = player \ {s}
  /\ watching' = [watching EXCEPT ![s] = {}]
  /\ writes' = IF s \in authenticated THEN writes \cup {<<s, FALSE>>} ELSE writes
  /\ UNCHANGED <<step, authenticated, asked, found, newest, dismissed, isOnline>>

UpdateOnline ==
  /\ \E write \in writes :
       /\ isOnline' = write[2]
       /\ writes' = writes \ {write}
  /\ UNCHANGED <<step, alive, authenticated, rooms, watching, asked, found>>
-----------------------------------------------------------------------------
(***************************************************************************)
(* Visits                                                                  *)
(***************************************************************************)
\* Mutant: the farm that was watched is watched still.
WatchToo(s, room, farm) == watching[s] \cup {farm}

Switch(s, room, farm) == (watching[s] \ {room}) \cup {farm}

\* A socket in no watcher room gets an error and stays where it is.
Watch(s, farm) ==
  /\ s \in alive
  /\ \E room \in watching[s] :
       watching' = [watching EXCEPT ![s] = Switch(s, room, farm)]
  /\ UNCHANGED <<step, alive, authenticated, rooms, asked, found, writes, isOnline>>

Visit(s) == \E neighbour \in Neighbours : Watch(s, neighbour)

Return(s) == Watch(s, Owner)

PNext ==
  \/ \E s \in Sockets :
       \/ Connect(s) \/ Reject(s) \/ Authenticate(s)
       \/ FetchSockets(s) \/ FetchFails(s) \/ JoinPlayerRoom(s)
       \/ Disconnect(s) \/ Visit(s) \/ Return(s)
  \/ UpdateOnline

\* The servers finish what they began: the awaits come back, a socket that was told
\* to go is cut off.  Nothing makes a client connect, leave or visit.
PFairness ==
  /\ \A s \in Sockets :
       /\ WF_pvars(Authenticate(s) \/ Reject(s))
       /\ WF_pvars(FetchSockets(s) \/ FetchFails(s))
       /\ WF_pvars(JoinPlayerRoom(s))
       /\ WF_pvars(s \in dismissed /\ Disconnect(s))
  /\ WF_pvars(UpdateOnline)

PSpec == PInit /\ [][PNext]_pvars

PFairSpec == PSpec /\ PFairness
-----------------------------------------------------------------------------
PTypeOK ==
  /\ step \in [Sockets -> Steps]
  /\ alive \subseteq Sockets /\ authenticated \subseteq Sockets
  /\ player \subseteq alive /\ dismissed \subseteq Sockets
  /\ newest \in Sockets \cup {NoSocket}
  /\ asked \in [Sockets -> SUBSET Servers]
  /\ watching \in [Sockets -> SUBSET Farms]
  /\ found \in [Sockets -> SUBSET Sockets]
  /\ writes \subseteq Sockets \X BOOLEAN
  /\ isOnline \in BOOLEAN

\* However connections and visits interleave, a socket that is connected and
\* authenticated gets the updates of one farm and of one only.
WatchesOneFarm ==
  \A s \in alive \cap authenticated : \E farm \in Farms : watching[s] = {farm}

\* Logins that dismiss each other leave the user the connection that got into the room
\* last.  Only a login whose own socket was closed while it looked the others up may take
\* that one away and put nothing in its place.
NewestStays ==
  newest \in dismissed => \E t \in Sockets : step[t] = "gone" /\ newest \in found[t]

\* A login ends those before it: who is in the room when its node is asked does not stay
\* there, unless the login is cut off itself.
NewLoginEndsTheOld ==
  \A s, t \in Sockets :
    (s \in player /\ s # t /\ step[t] = "fetch" /\ ServerOf[s] \in asked[t])
      ~> (s \notin player \/ t \notin alive)

\* No update being under way, the flag says whether a socket is connected.
OnlineFlagTells ==
  (writes = {} /\ \A s \in Sockets : step[s] \in {"new", "done", "gone", "rejected"})
    => (isOnline <=> authenticated \cap alive # {})
=============================================================================
