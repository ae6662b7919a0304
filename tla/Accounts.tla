------------------------------ MODULE Accounts ------------------------------
(***************************************************************************)
(* The mutations of the gameplay subgraph that keep the users and their    *)
(* sessions: sign in by a signed message, refresh, logout, follow,         *)
(* unfollow, the referral, the reward for a follow on X and the display    *)
(* information, called by several clients at once.                         *)
(*                                                                         *)
(* A mutation is a MongoDB transaction on a snapshot of the documents, as  *)
(* in Estate.  A referral writes two users; the inserts of a sign in and   *)
(* of a refresh conflict with nothing.                                     *)
(***************************************************************************)
EXTENDS Integers, FiniteSets, Sequences, SequencesExt

CONSTANTS
  Ids, Tokens,            \* of user and session documents
  Wallets, Network,       \* a wallet is an address on a chain; its network
  Names,
  Clients,
  Free, NoUser, NoTxn,
  FolloweeLimit, ReferredLimit,
  ReferralReward, ReferredReward, FollowXReward,
  DefaultGolds,
  StartUsers,             \* the documents of Ids at the start
  SigningIn,              \* bound: the wallets that sign in
  Messages,               \* bound: the messages that are asked for
  MaxOverlap              \* bound: commits of others while a transaction is open

ASSUME AccountsAssumption ==
  /\ FolloweeLimit \in Nat /\ ReferredLimit \in Nat
  /\ ReferralReward \in Nat /\ ReferredReward \in Nat /\ FollowXReward \in Nat
  /\ DefaultGolds \in Nat
  /\ MaxOverlap \in Nat
  /\ Ids \cap Tokens = {} /\ SigningIn \subseteq Wallets

UserDocuments ==
  [wallet : Wallets, name : Names, golds : Nat, followees : Seq(Ids), referred : Seq(Ids),
   referral : Ids \cup {NoUser}, followX : BOOLEAN]

SessionDocuments == [user : Ids, isActive : BOOLEAN]

VARIABLES
  docs,        \* users and sessions by id
  messages,    \* the messages in the cache
  txn          \* of a client: its snapshot and what was written since

vars == <<docs, messages, txn>>

Users(map) == {u \in Ids : map[u] # Free}

Sessions(map) == {t \in Tokens : map[t] # Free}

NetworkOf(map, u) == Network[map[u].wallet]

\* A referral is known to both users or to neither, nobody is referred twice nor
\* refers more than allowed, and a user has the gold his documents account for.
ReferralsPaid(map) ==
  \A u \in Users(map) :
    /\ map[u].referral \in Users(map) \cup {NoUser}
    /\ ToSet(map[u].referred) \subseteq Users(map)
    /\ \A r \in Users(map) : map[u].referral = r <=> Contains(map[r].referred, u)
    /\ IsInjective(map[u].referred) /\ Len(map[u].referred) <= ReferredLimit
    /\ map[u].golds =
         DefaultGolds + Len(map[u].referred) * ReferredReward
           + (IF map[u].referral # NoUser THEN ReferralReward ELSE 0)
           + (IF map[u].followX THEN FollowXReward ELSE 0)

Neighbours(map) ==
  \A u \in Users(map) :
    /\ IsInjective(map[u].followees) /\ Len(map[u].followees) <= FolloweeLimit
    /\ \A f \in ToSet(map[u].followees) :
         f # u /\ f \in Users(map) /\ NetworkOf(map, f) = NetworkOf(map, u)

\* The run starts after some users have signed in.
ASSUME StartUsersAssumption ==
  /\ NoUser \notin Ids /\ Free \notin UserDocuments /\ Free \notin SessionDocuments
  /\ \A u \in Ids : StartUsers[u] # Free => StartUsers[u] \in UserDocuments
  /\ ReferralsPaid(StartUsers) /\ Neighbours(StartUsers)

Init ==
  /\ docs = [key \in Ids \cup Tokens |-> IF key \in Ids THEN StartUsers[key] ELSE Free]
  /\ messages = {}
  /\ txn = [c \in Clients |-> NoTxn]
-----------------------------------------------------------------------------
(***************************************************************************)
(* Transactions                                                            *)
(***************************************************************************)
Begin(c) ==
  /\ txn[c] = NoTxn
  /\ txn' = [txn EXCEPT ![c] = [docs |-> docs, messages |-> messages,
                                stale |-> {}, overlap |-> 0]]
  /\ UNCHANGED <<docs, messages>>

\* A mutation that throws, or returns before it writes, leaves nothing behind.
End(c) ==
  /\ txn[c] # NoTxn
  /\ txn' = [txn EXCEPT ![c] = NoTxn]
  /\ UNCHANGED <<docs, messages>>

\* Mutant: the last writer wins.
NeverConflict(c, written) == TRUE

NoConflict(c, written) == written \cap txn[c].stale = {}

Pushed(from, to) == Len(to) > Len(from) /\ to = Append(from, Last(to))

\* A save writes the fields that were changed, and what was pushed to a list behind
\* whatever the list holds by then.
Saved(from, to, at) ==
  IF from = Free
    THEN to
    ELSE [field \in DOMAIN to |->
            IF to[field] = from[field] THEN at[field]
            ELSE IF field \in {"followees", "referred"} /\ Pushed(from[field], to[field])
              THEN Append(at[field], Last(to[field]))
              ELSE to[field]]

Commit(c, new) ==
  \E written \in {{key \in DOMAIN new : new[key] # txn[c].docs[key]}} :
    /\ \A e \in Clients \ {c} : txn[e] # NoTxn => txn[e].overlap < MaxOverlap
    /\ NoConflict(c, written)
    /\ docs' = [key \in DOMAIN docs |->
                  IF key \in written THEN Saved(txn[c].docs[key], new[key], docs[key])
                                     ELSE docs[key]]
    /\ txn' = [e \in Clients |->
                 IF e = c \/ txn[e] = NoTxn
                   THEN NoTxn
                   ELSE [txn[e] EXCEPT !.stale = @ \cup written, !.overlap = @ + 1]]
    /\ UNCHANGED messages

\* An id nobody has, here or in the snapshot.
FreshIn(c, keys) == {key \in keys : docs[key] = Free /\ txn[c].docs[key] = Free}
-----------------------------------------------------------------------------
(***************************************************************************)
(* Sign in                                                                 *)
(***************************************************************************)
\* A message lies in the cache for a minute; GenerateSignature asks for one too.
RequestMessage ==
  /\ \E message \in Messages \ messages : messages' = messages \cup {message}
  /\ UNCHANGED <<docs, txn>>

MessageExpires ==
  /\ \E message \in messages : messages' = messages \ {message}
  /\ UNCHANGED <<docs, txn>>

NewUser(wallet, name) ==
  [wallet |-> wallet, name |-> name, golds |-> DefaultGolds, followees |-> <<>>,
   referred |-> <<>>, referral |-> NoUser, followX |-> FALSE]

NewSession(u) == [user |-> u, isActive |-> TRUE]

OfWallet(map, wallet) == {u \in Users(map) : map[u].wallet = wallet}

\* The message stays valid.  Two first sign ins of a wallet may each create a user.
VerifySignature(c) ==
  /\ txn[c] # NoTxn
  /\ txn[c].messages # {}
  /\ \E wallet \in SigningIn, name \in Names, t \in FreshIn(c, Tokens) :
       \/ \E u \in OfWallet(txn[c].docs, wallet) :
            Commit(c, [txn[c].docs EXCEPT ![t] = NewSession(u)])
       \/ /\ OfWallet(txn[c].docs, wallet) = {}
          /\ \E u \in FreshIn(c, Ids) :
               Commit(c, [txn[c].docs EXCEPT ![u] = NewUser(wallet, name),
                                             ![t] = NewSession(u)])

\* A session gives another one and stays as it is.  Any may have expired: then the
\* mutation throws, which is an End.
Refresh(c) ==
  /\ txn[c] # NoTxn
  /\ \E old \in Sessions(txn[c].docs), t \in FreshIn(c, Tokens) :
       /\ txn[c].docs[old].isActive
       /\ Commit(c, [txn[c].docs EXCEPT ![t] = NewSession(txn[c].docs[old].user)])

Logout(c) ==
  /\ txn[c] # NoTxn
  /\ \E t \in Sessions(txn[c].docs) :
       /\ txn[c].docs[t].isActive
       /\ Commit(c, [txn[c].docs EXCEPT ![t].isActive = FALSE])
-----------------------------------------------------------------------------
(***************************************************************************)
(* Followees, referral, the reward for X, display information              *)
(***************************************************************************)
\* Mutant: anyone may be followed.
AnyNetwork(map, u, f) == TRUE

SameNetwork(map, u, f) == NetworkOf(map, u) = NetworkOf(map, f)

Follow(c) ==
  /\ txn[c] # NoTxn
  /\ \E u, f \in Users(txn[c].docs) :
       /\ u # f
       /\ ~Contains(txn[c].docs[u].followees, f)
       /\ SameNetwork(txn[c].docs, u, f)
       /\ Len(txn[c].docs[u].followees) < FolloweeLimit
       /\ Commit(c, [txn[c].docs EXCEPT ![u].followees = Append(@, f)])

\* filter keeps the others in their order.
Without(followees, f) ==
  LET kept[n \in 0 .. Len(followees)] ==
        IF n = 0 THEN <<>>
        ELSE IF followees[n] = f THEN kept[n - 1]
        ELSE Append(kept[n - 1], followees[n])
  IN  kept[Len(followees)]

Unfollow(c) ==
  /\ txn[c] # NoTxn
  /\ \E u, f \in Users(txn[c].docs) :
       /\ SameNetwork(txn[c].docs, u, f)
       /\ Contains(txn[c].docs[u].followees, f)
       /\ Commit(c, [txn[c].docs EXCEPT ![u].followees = Without(@, f)])

\* The user who is referred gets referralRewardQuantity, the one who refers gets
\* referredRewardQuantity.
Refers(user, u) ==
  [user EXCEPT !.golds = @ + ReferredReward, !.referred = Append(@, u)]

ReferredBy(user, r) == [user EXCEPT !.golds = @ + ReferralReward, !.referral = r]

UpdateReferral(c) ==
  /\ txn[c] # NoTxn
  /\ \E u, r \in Users(txn[c].docs) :
       /\ Len(txn[c].docs[r].referred) < ReferredLimit
       /\ u # r
       /\ txn[c].docs[u].referral = NoUser
       /\ ~Contains(txn[c].docs[r].referred, u)
       /\ Commit(c, [txn[c].docs EXCEPT ![r] = Refers(@, u), ![u] = ReferredBy(@, r)])

FollowedX(user) == [user EXCEPT !.golds = @ + FollowXReward, !.followX = TRUE]

UpdateFollowX(c) ==
  /\ txn[c] # NoTxn
  /\ \E u \in Users(txn[c].docs) :
       /\ ~txn[c].docs[u].followX
       /\ Commit(c, [txn[c].docs EXCEPT ![u] = FollowedX(@)])

\* Whether the name is taken is read outside the transaction; the avatar is left out.
UpdateDisplayInformation(c) ==
  /\ txn[c] # NoTxn
  /\ \E u \in Users(txn[c].docs), name \in Names :
       /\ name # txn[c].docs[u].name
       /\ \A other \in Users(docs) :
            docs[other].name = name => NetworkOf(docs, other) # NetworkOf(txn[c].docs, u)
       /\ Commit(c, [txn[c].docs EXCEPT ![u].name = name])

Next ==
  \/ RequestMessage \/ MessageExpires
  \/ \E c \in Clients :
       \/ Begin(c) \/ End(c)
       \/ VerifySignature(c) \/ Refresh(c) \/ Logout(c)
       \/ Follow(c) \/ Unfollow(c) \/ UpdateReferral(c) \/ UpdateFollowX(c)
       \/ UpdateDisplayInformation(c)

Spec == Init /\ [][Next]_vars
-----------------------------------------------------------------------------
WellTyped(map) ==
  \A key \in DOMAIN map :
    map[key] # Free => map[key] \in IF key \in Ids THEN UserDocuments ELSE SessionDocuments

TypeOK ==
  /\ DOMAIN docs = Ids \cup Tokens /\ WellTyped(docs)
  /\ messages \subseteq Messages
  /\ DOMAIN txn = Clients
  /\ \A c \in Clients :
       txn[c] # NoTxn =>
         /\ DOMAIN txn[c] = {"docs", "messages", "stale", "overlap"}
         /\ DOMAIN txn[c].docs = Ids \cup Tokens /\ WellTyped(txn[c].docs)
         /\ txn[c].messages \subseteq Messages
         /\ txn[c].stale \subseteq Ids \cup Tokens
         /\ txn[c].overlap \in 0 .. MaxOverlap

\* A referral is known to both users or to neither, nobody is referred twice nor
\* refers more than allowed, and every reward was paid exactly once: what a user got
\* is what the documents say he got, though a referral writes two users and either
\* may be written by others meanwhile.
ReferralsPaidOnce == ReferralsPaid(docs)

\* Whoever follows and unfollows from wherever, the list of followees stays within its
\* limit and names each neighbour of the same network once, and never the user: both are
\* checked on a snapshot, and a follow is pushed behind what the list holds by then.
FolloweesSound == Neighbours(docs)

\* The reward for referring a user goes to the user who refers.
ReferrerGetsReferralReward ==
  [][\A u, r \in Ids :
       docs'[u] # Free /\ docs[u] # Free /\ docs'[r] # Free /\ docs[r] # Free
         /\ docs[u].referral = NoUser /\ docs'[u].referral = r =>
         docs'[r].golds = docs[r].golds + ReferralReward]_vars
=============================================================================
