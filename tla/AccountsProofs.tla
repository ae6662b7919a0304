--------------------------- MODULE AccountsProofs ---------------------------
(***************************************************************************)
(* The users and sessions of Accounts, for any number of clients: what a   *)
(* client decides on a stale snapshot holds of the documents all the same, *)
(* because a commit that would overwrite what others wrote is refused.     *)
(***************************************************************************)
EXTENDS Accounts, WellFoundedInduction, TLAPS

-----------------------------------------------------------------------------
(* The library states induction with an operator as parameter; a set of    *)
(* numbers does as well.                                                   *)

LEMMA NumbersByInduction ==
  ASSUME NEW S \in SUBSET Nat, 0 \in S, \A n \in S : n + 1 \in S
  PROVE  S = Nat
<1> DEFINE R == OpToRel(<, Nat)
           T == Nat \ S
<1>1. SUFFICES ASSUME T # {} PROVE FALSE
  OBVIOUS
<1>2. IsWellFoundedOn(R, Nat)
  BY NatLessThanWellFounded
<1>3. \A i, j \in Nat : i < j => <<i, j>> \in R
  BY DEF OpToRel
<1> HIDE DEF R
<1>4. PICK n \in T : \A m \in T : ~ (<<m, n>> \in R)
  <2>1. T \subseteq Nat
    OBVIOUS
  <2> HIDE DEF T
  <2> QED BY <1>1, <1>2, <2>1, WFMin
<1>5. n \in Nat /\ n # 0
  BY <1>4
<1>6. n - 1 \in Nat /\ n - 1 < n /\ (n - 1) + 1 = n
  BY <1>5
<1>7. n - 1 \in S
  BY <1>3, <1>4, <1>5, <1>6
<1> QED BY <1>4, <1>6, <1>7

-----------------------------------------------------------------------------
(* Lists of ids.                                                           *)

LEMMA EmptyList ==
  ASSUME NEW S
  PROVE  /\ <<>> \in Seq(S) /\ Len(<<>>) = 0
         /\ IsInjective(<<>>) /\ ToSet(<<>>) = {}
         /\ \A x : ~ Contains(<<>>, x)
BY DEF IsInjective, ToSet, Contains

LEMMA ContainsIsElement ==
  ASSUME NEW S, NEW s \in Seq(S), NEW x
  PROVE  Contains(s, x) <=> x \in ToSet(s)
BY DEF Contains, ToSet

LEMMA Appended ==
  ASSUME NEW S, NEW s \in Seq(S), NEW x \in S
  PROVE  /\ Append(s, x) \in Seq(S) /\ Len(Append(s, x)) = Len(s) + 1
         /\ ToSet(Append(s, x)) = ToSet(s) \cup {x}
         /\ IsInjective(s) /\ x \notin ToSet(s) => IsInjective(Append(s, x))
<1> DEFINE t == Append(s, x)
<1>1. /\ t \in Seq(S) /\ Len(t) = Len(s) + 1 /\ Len(s) \in Nat
      /\ DOMAIN s = 1 .. Len(s) /\ DOMAIN t = 1 .. Len(s) + 1
      /\ t[Len(s) + 1] = x /\ \A i \in 1 .. Len(s) : t[i] = s[i]
  OBVIOUS
<1> HIDE DEF t
<1>2. ToSet(t) = ToSet(s) \cup {x}
  BY <1>1 DEF ToSet
<1>3. ASSUME IsInjective(s), x \notin ToSet(s) PROVE IsInjective(t)
  BY <1>1, <1>3 DEF IsInjective, ToSet
<1> QED BY <1>1, <1>2, <1>3 DEF t

\* kept of Without.
Filtered(s, x, g, n) ==
  g = [i \in 0 .. n |-> IF i = 0 THEN <<>>
                        ELSE IF s[i] = x THEN g[i - 1]
                        ELSE Append(g[i - 1], s[i])]
LEMMA FilteredExists ==
  ASSUME NEW S, NEW s \in Seq(S), NEW x, NEW n \in Nat
  PROVE  \E g : Filtered(s, x, g, n)
<1> DEFINE P == {k \in Nat : \E g : Filtered(s, x, g, k)}
<1>1. 0 \in P
  <2> DEFINE g == [i \in 0 .. 0 |-> <<>>]
  <2>1. Filtered(s, x, g, 0)
    BY DEF Filtered
  <2> QED BY <2>1
<1>2. ASSUME NEW k \in P PROVE k + 1 \in P
  <2>1. PICK g : Filtered(s, x, g, k)
    BY <1>2
  <2> DEFINE h == [i \in 0 .. k + 1 |->
                     IF i <= k THEN g[i]
                     ELSE IF s[i] = x THEN g[i - 1] ELSE Append(g[i - 1], s[i])]
             body == [i \in 0 .. k + 1 |->
                        IF i = 0 THEN <<>>
                        ELSE IF s[i] = x THEN h[i - 1] ELSE Append(h[i - 1], s[i])]
  <2>2. ASSUME NEW i \in 0 .. k + 1 PROVE h[i] = body[i]
    <3>1. CASE i = 0
      BY <2>1, <3>1 DEF Filtered
    <3>2. CASE i \in 1 .. k
      <4>1. i - 1 \in 0 .. k /\ i - 1 \in 0 .. k + 1 /\ i \in 0 .. k /\ i # 0
        BY <3>2
      <4>2. h[i - 1] = g[i - 1] /\ h[i] = g[i]
        BY <3>2, <4>1
      <4> QED BY <2>1, <4>1, <4>2 DEF Filtered
    <3>3. CASE i = k + 1
      <4>1. h[i - 1] = g[i - 1]
        BY <3>3
      <4> QED BY <3>3, <4>1
    <3> QED BY <3>1, <3>2, <3>3
  <2>3. h = body
    BY <2>2
  <2>4. Filtered(s, x, h, k + 1)
    BY <2>3 DEF Filtered
  <2> QED BY <2>4
<1> HIDE DEF P
<1>3. P = Nat
  <2>1. P \in SUBSET Nat
    BY DEF P
  <2> QED BY <1>1, <1>2, <2>1, NumbersByInduction
<1> QED BY <1>3 DEF P

\* What filter keeps: a list of the others, each as often as before at most.
LEMMA WithoutSound ==
  ASSUME NEW S, NEW s \in Seq(S), NEW x
  PROVE  /\ Without(s, x) \in Seq(S) /\ Len(Without(s, x)) <= Len(s)
         /\ ToSet(Without(s, x)) = ToSet(s) \ {x}
         /\ IsInjective(s) => IsInjective(Without(s, x))
<1> DEFINE N == Len(s)
           kept == CHOOSE g : Filtered(s, x, g, N)
           First(n) == {s[i] : i \in 1 .. n}
           Good(n) == /\ kept[n] \in Seq(S) /\ Len(kept[n]) <= n
                      /\ ToSet(kept[n]) = First(n) \ {x}
                      /\ IsInjective(s) => IsInjective(kept[n])
<1>1. N \in Nat /\ DOMAIN s = 1 .. N /\ \A i \in 1 .. N : s[i] \in S
  OBVIOUS
<1>2. Without(s, x) = kept[N]
  BY DEF Without, Filtered
<1>3. Filtered(s, x, kept, N)
  BY <1>1, FilteredExists
<1> HIDE DEF kept, N
<1>4. kept[0] = <<>>
  BY <1>1, <1>3 DEF Filtered
<1>5. ASSUME NEW n \in 1 .. N
      PROVE  kept[n] = IF s[n] = x THEN kept[n - 1] ELSE Append(kept[n - 1], s[n])
  <2>1. n \in 0 .. N /\ n # 0
    BY <1>1
  <2> QED BY <1>3, <2>1 DEF Filtered
<1>6. Good(0)
  <2>1. First(0) = {}
    OBVIOUS
  <2>2. kept[0] \in Seq(S) /\ Len(kept[0]) = 0 /\ ToSet(kept[0]) = {}
    BY <1>4, EmptyList
  <2>3. IsInjective(kept[0])
    BY <1>4, EmptyList
  <2> HIDE DEF First
  <2> QED BY <2>1, <2>2, <2>3
<1>7. ASSUME NEW n \in Nat, n + 1 \in 1 .. N, Good(n) PROVE Good(n + 1)
  <2>1. First(n + 1) = First(n) \cup {s[n + 1]}
    OBVIOUS
  <2>2. n + 1 - 1 = n /\ s[n + 1] \in S
    BY <1>1, <1>7
  <2>3. kept[n + 1] = IF s[n + 1] = x THEN kept[n] ELSE Append(kept[n], s[n + 1])
    BY <1>5, <1>7, <2>2
  <2>4. CASE s[n + 1] = x
    BY <1>7, <2>1, <2>3, <2>4
  <2>5. CASE s[n + 1] # x
    <3> DEFINE t == kept[n]
    <3>1. t \in Seq(S) /\ Len(t) <= n /\ ToSet(t) = First(n) \ {x}
      BY <1>7
    <3>2. ASSUME IsInjective(s) PROVE IsInjective(t) /\ s[n + 1] \notin ToSet(t)
      <4>1. s[n + 1] \notin First(n)
        BY <1>1, <1>7, <3>2 DEF IsInjective
      <4> QED BY <1>7, <3>1, <3>2, <4>1
    <3>3. /\ Append(t, s[n + 1]) \in Seq(S) /\ Len(Append(t, s[n + 1])) = Len(t) + 1
          /\ ToSet(Append(t, s[n + 1])) = ToSet(t) \cup {s[n + 1]}
          /\ IsInjective(s) => IsInjective(Append(t, s[n + 1]))
      BY <2>2, <3>1, <3>2, Appended
    <3>4. kept[n + 1] = Append(t, s[n + 1])
      BY <2>3, <2>5
    <3>5. Len(t) \in Nat
      BY <3>1
    <3> HIDE DEF t, First
    <3>6. ToSet(kept[n + 1]) = First(n + 1) \ {x}
      BY <2>1, <2>5, <3>1, <3>3, <3>4
    <3>7. Len(kept[n + 1]) <= n + 1
      BY <3>1, <3>3, <3>4, <3>5
    <3> QED BY <3>3, <3>4, <3>6, <3>7
  <2> QED BY <2>4, <2>5
<1>8. ToSet(s) = First(N)
  BY <1>1 DEF ToSet
<1> HIDE DEF First
<1>9. Good(N)
  <2> DEFINE T == {n \in Nat : n <= N => Good(n)}
  <2>1. 0 \in T
    BY <1>6
  <2>2. ASSUME NEW n \in T PROVE n + 1 \in T
    <3>1. ASSUME n + 1 <= N PROVE Good(n + 1)
      <4>1. n \in Nat /\ n <= N /\ n + 1 \in 1 .. N
        BY <1>1, <2>2, <3>1
      <4>2. Good(n)
        BY <2>2, <4>1
      <4> QED BY <1>7, <4>1, <4>2
    <3> HIDE DEF Good
    <3> QED BY <3>1
  <2>3. T \in SUBSET Nat
    OBVIOUS
  <2> HIDE DEF T
  <2>4. T = Nat
    BY <2>1, <2>2, <2>3, NumbersByInduction
  <2> QED BY <1>1, <2>4 DEF T
<1> QED BY <1>2, <1>8, <1>9 DEF N

-----------------------------------------------------------------------------
(* Documents.                                                              *)

Keys == Ids \cup Tokens

LEMMA KeyKinds == \A key \in Tokens : key \notin Ids
BY AccountsAssumption

Proper(map) == DOMAIN map = Keys /\ WellTyped(map)

LEMMA UserOf ==
  ASSUME NEW map, Proper(map), NEW u \in Users(map)
  PROVE  /\ map[u] \in UserDocuments /\ u \in Ids /\ u \in DOMAIN map
         /\ map[u] = [wallet |-> map[u].wallet, name |-> map[u].name,
                      golds |-> map[u].golds, followees |-> map[u].followees,
                      referred |-> map[u].referred, referral |-> map[u].referral,
                      followX |-> map[u].followX]
         /\ map[u].wallet \in Wallets /\ map[u].name \in Names /\ map[u].golds \in Nat
         /\ map[u].followees \in Seq(Ids) /\ map[u].referred \in Seq(Ids)
         /\ map[u].referral \in Ids \cup {NoUser} /\ map[u].followX \in BOOLEAN
<1>1. map[u] \in UserDocuments /\ u \in Ids /\ u \in DOMAIN map
  BY DEF Proper, WellTyped, Users, Keys
<1> HIDE DEF Proper
<1> QED BY <1>1 DEF UserDocuments

\* Lists that do not change, and those of new users, stay sound.
LEMMA NeighboursStay ==
  ASSUME NEW old, NEW new, Neighbours(old),
         \A u \in Users(old) :
           u \in Users(new) /\ new[u].wallet = old[u].wallet
             /\ new[u].followees = old[u].followees,
         \A u \in Users(new) \ Users(old) : new[u].followees = <<>>
  PROVE  Neighbours(new)
<1> SUFFICES ASSUME NEW u \in Users(new)
             PROVE  /\ IsInjective(new[u].followees)
                    /\ Len(new[u].followees) <= FolloweeLimit
                    /\ \A f \in ToSet(new[u].followees) :
                         /\ f # u /\ f \in Users(new)
                         /\ NetworkOf(new, f) = NetworkOf(new, u)
  BY DEF Neighbours
<1>1. CASE u \in Users(old)
  <2>1. /\ IsInjective(old[u].followees) /\ Len(old[u].followees) <= FolloweeLimit
        /\ \A f \in ToSet(old[u].followees) :
             f # u /\ f \in Users(old) /\ NetworkOf(old, f) = NetworkOf(old, u)
    BY <1>1 DEF Neighbours
  <2> QED BY <1>1, <2>1 DEF NetworkOf
<1>2. CASE u \notin Users(old)
  BY <1>2, EmptyList, AccountsAssumption
<1> QED BY <1>1, <1>2

\* The follow on X pays once; new users have nothing to account for.
LEMMA ReferralsStay ==
  ASSUME NEW old, NEW new, ReferralsPaid(old), Proper(old),
         \A u \in Users(old) :
           /\ u \in Users(new)
           /\ new[u].referral = old[u].referral /\ new[u].referred = old[u].referred
           /\ \/ new[u].golds = old[u].golds /\ new[u].followX = old[u].followX
              \/ /\ new[u].golds = old[u].golds + FollowXReward
                 /\ ~ old[u].followX /\ new[u].followX,
         \A u \in Users(new) \ Users(old) :
           /\ new[u].golds = DefaultGolds /\ new[u].referral = NoUser
           /\ new[u].referred = <<>> /\ ~ new[u].followX
  PROVE  ReferralsPaid(new)
<1>0. NoUser \notin Users(new) /\ NoUser \notin Users(old)
  BY StartUsersAssumption DEF Users
<1> SUFFICES ASSUME NEW u \in Users(new)
             PROVE  /\ new[u].referral \in Users(new) \cup {NoUser}
                    /\ ToSet(new[u].referred) \subseteq Users(new)
                    /\ \A r \in Users(new) :
                         new[u].referral = r <=> Contains(new[r].referred, u)
                    /\ IsInjective(new[u].referred)
                    /\ Len(new[u].referred) <= ReferredLimit
                    /\ new[u].golds =
                         DefaultGolds + Len(new[u].referred) * ReferredReward
                           + (IF new[u].referral # NoUser THEN ReferralReward ELSE 0)
                           + (IF new[u].followX THEN FollowXReward ELSE 0)
  BY DEF ReferralsPaid
<1>1. ASSUME NEW r \in Users(new)
      PROVE  new[u].referral = r <=> Contains(new[r].referred, u)
  <2>1. CASE u \in Users(old) /\ r \in Users(old)
    BY <2>1 DEF ReferralsPaid
  <2>2. CASE u \in Users(old) /\ r \notin Users(old)
    <3>1. new[u].referral # r
      BY <1>0, <1>1, <2>2 DEF ReferralsPaid
    <3>2. ~ Contains(new[r].referred, u)
      BY <1>1, <2>2, EmptyList
    <3> QED BY <3>1, <3>2
  <2>3. CASE u \notin Users(old) /\ r \in Users(old)
    <3>1. new[u].referral # r
      BY <1>0, <1>1, <2>3
    <3>2. ToSet(old[r].referred) \subseteq Users(old) /\ old[r].referred \in Seq(Ids)
      BY <2>3, UserOf DEF ReferralsPaid
    <3>3. ~ Contains(old[r].referred, u)
      BY <2>3, <3>2, ContainsIsElement
    <3> QED BY <2>3, <3>1, <3>3
  <2>4. CASE u \notin Users(old) /\ r \notin Users(old)
    BY <1>0, <1>1, <2>4, EmptyList
  <2> QED BY <2>1, <2>2, <2>3, <2>4
<1>2. CASE u \in Users(old)
  <2>1. /\ old[u].referral \in Users(old) \cup {NoUser}
        /\ ToSet(old[u].referred) \subseteq Users(old)
        /\ IsInjective(old[u].referred) /\ Len(old[u].referred) <= ReferredLimit
        /\ old[u].golds =
             DefaultGolds + Len(old[u].referred) * ReferredReward
               + (IF old[u].referral # NoUser THEN ReferralReward ELSE 0)
               + (IF old[u].followX THEN FollowXReward ELSE 0)
    BY <1>2 DEF ReferralsPaid
  <2> DEFINE paid == DefaultGolds + Len(old[u].referred) * ReferredReward
                       + (IF old[u].referral # NoUser THEN ReferralReward ELSE 0)
  <2>2. Len(old[u].referred) \in Nat
    BY <1>2, UserOf
  <2>3. Len(old[u].referred) * ReferredReward \in Nat
    BY <2>2, AccountsAssumption
  <2>4. paid \in Int
    BY <2>3, AccountsAssumption
  <2>5. old[u].golds = paid + (IF old[u].followX THEN FollowXReward ELSE 0)
    BY <2>1
  <2>6. paid = DefaultGolds + Len(new[u].referred) * ReferredReward
                 + (IF new[u].referral # NoUser THEN ReferralReward ELSE 0)
    BY <1>2
  <2> HIDE DEF paid
  <2>7. new[u].golds = paid + (IF new[u].followX THEN FollowXReward ELSE 0)
    BY <1>2, <2>4, <2>5, AccountsAssumption
  <2> QED BY <1>1, <1>2, <2>1, <2>6, <2>7
<1>3. CASE u \notin Users(old)
  <2>1. Len(new[u].referred) = 0 /\ ToSet(new[u].referred) = {}
        /\ IsInjective(new[u].referred)
    BY <1>3, EmptyList
  <2>2. DefaultGolds + 0 * ReferredReward + 0 + 0 = DefaultGolds /\ 0 <= ReferredLimit
    BY AccountsAssumption
  <2> QED BY <1>1, <1>3, <2>1, <2>2
<1> QED BY <1>2, <1>3

-----------------------------------------------------------------------------
(* Transactions.                                                           *)

\* What nobody has written since is as it was; a user that was there is still there,
\* with the same wallet.
SnapshotsAgree ==
  \A c \in Clients :
    txn[c] # NoTxn =>
      \A key \in Keys :
        /\ key \notin txn[c].stale => docs[key] = txn[c].docs[key]
        /\ txn[c].docs[key] # Free => docs[key] # Free
        /\ key \in Users(txn[c].docs) => docs[key].wallet = txn[c].docs[key].wallet

AccountsInv == TypeOK /\ SnapshotsAgree /\ ReferralsPaidOnce /\ FolloweesSound

\* No document is removed and no wallet changed.
Grows(old, new) ==
  \A key \in Keys :
    old[key] # Free =>
      new[key] # Free /\ (key \in Ids => new[key].wallet = old[key].wallet)

\* A document is left alone, or written as the handler has it, and then nobody has
\* written it since the snapshot.
Lands(old, snapshot, new, result) ==
  \A key \in Keys :
    IF new[key] = snapshot[key] THEN result[key] = old[key]
    ELSE old[key] = snapshot[key] /\ result[key] = new[key]

LEMMA ProperDocs ==
  ASSUME TypeOK
  PROVE  /\ Proper(docs)
         /\ \A c \in Clients : txn[c] # NoTxn => Proper(txn[c].docs)
BY DEF TypeOK, Proper, Keys

\* A document that is as it was read becomes what the handler made of it.
LEMMA SavedAsWritten ==
  ASSUME NEW from, NEW to,
         from # Free => to \in UserDocuments \/ to \in SessionDocuments
  PROVE  Saved(from, to, from) = to
<1>1. CASE from = Free
  BY <1>1 DEF Saved
<1>2. CASE from # Free
  <2>1. to = [field \in DOMAIN to |-> to[field]]
    BY <1>2 DEF UserDocuments, SessionDocuments
  <2>2. ASSUME NEW field \in DOMAIN to
        PROVE  Saved(from, to, from)[field] = to[field]
    <3>1. CASE to[field] = from[field]
      BY <1>2, <3>1 DEF Saved
    <3>2. CASE to[field] # from[field] /\ field \in {"followees", "referred"}
                 /\ Pushed(from[field], to[field])
      BY <1>2, <3>2 DEF Saved, Pushed
    <3>3. CASE to[field] # from[field] /\ ~(field \in {"followees", "referred"}
                 /\ Pushed(from[field], to[field]))
      BY <1>2, <3>3 DEF Saved
    <3> QED BY <3>1, <3>2, <3>3
  <2>3. Saved(from, to, from) = [field \in DOMAIN to |-> Saved(from, to, from)[field]]
    BY <1>2 DEF Saved
  <2> QED BY <2>1, <2>2, <2>3
<1> QED BY <1>1, <1>2

LEMMA CommitLands ==
  ASSUME TypeOK, SnapshotsAgree, NEW c \in Clients, txn[c] # NoTxn,
         NEW new, Proper(new), Grows(txn[c].docs, new), Commit(c, new)
  PROVE  /\ Lands(docs, txn[c].docs, new, docs')
         /\ Proper(docs') /\ Grows(docs, docs')
         /\ TypeOK' /\ SnapshotsAgree'
<1> DEFINE written == {key \in DOMAIN new : new[key] # txn[c].docs[key]}
<1>1. /\ \A e \in Clients \ {c} : txn[e] # NoTxn => txn[e].overlap < MaxOverlap
      /\ written \cap txn[c].stale = {}
      /\ docs' = [key \in DOMAIN docs |->
                    IF key \in written THEN Saved(txn[c].docs[key], new[key], docs[key])
                                       ELSE docs[key]]
      /\ txn' = [e \in Clients |->
                   IF e = c \/ txn[e] = NoTxn
                     THEN NoTxn
                     ELSE [txn[e] EXCEPT !.stale = @ \cup written, !.overlap = @ + 1]]
      /\ messages' = messages
  BY DEF Commit, NoConflict
<1>2. DOMAIN docs = Keys /\ DOMAIN new = Keys /\ WellTyped(docs) /\ WellTyped(new)
  BY DEF TypeOK, Proper, Keys
<1>3. written \subseteq Keys
  BY <1>2
<1>4. ASSUME NEW key \in Keys
      PROVE  /\ new[key] = txn[c].docs[key] => docs'[key] = docs[key]
             /\ new[key] # txn[c].docs[key] =>
                  docs[key] = txn[c].docs[key] /\ docs'[key] = new[key]
  <2>1. CASE new[key] = txn[c].docs[key]
    BY <1>1, <1>2, <2>1
  <2>2. CASE new[key] # txn[c].docs[key]
    <3>1. key \in written /\ docs[key] = txn[c].docs[key]
      BY <1>1, <1>2, <2>2 DEF SnapshotsAgree
    <3>2. docs'[key] = Saved(docs[key], new[key], docs[key])
      BY <1>1, <1>2, <3>1
    <3>3. docs[key] # Free => new[key] \in UserDocuments \/ new[key] \in SessionDocuments
      BY <1>2, <3>1 DEF Grows, WellTyped
    <3> QED BY <2>2, <3>1, <3>2, <3>3, SavedAsWritten
  <2> QED BY <2>1, <2>2
<1>5. Lands(docs, txn[c].docs, new, docs')
  BY <1>4 DEF Lands
<1>6. Proper(docs')
  <2>1. DOMAIN docs' = Keys
    BY <1>1, <1>2
  <2>2. ASSUME NEW key \in Keys, docs'[key] # Free
        PROVE  docs'[key] \in IF key \in Ids THEN UserDocuments ELSE SessionDocuments
    BY <1>2, <1>4, <2>2 DEF WellTyped
  <2> QED BY <2>1, <2>2 DEF Proper, WellTyped
<1>7. Grows(docs, docs')
  BY <1>4 DEF Grows
<1>8. ASSUME NEW e \in Clients, txn'[e] # NoTxn
      PROVE  /\ e # c /\ txn[e] # NoTxn /\ txn[e].overlap < MaxOverlap
             /\ txn'[e] = [txn[e] EXCEPT !.stale = @ \cup written, !.overlap = @ + 1]
  BY <1>1, <1>8
<1>9. TypeOK'
  <2>1. messages' \subseteq Messages /\ DOMAIN txn' = Clients
    BY <1>1 DEF TypeOK
  <2>2. ASSUME NEW e \in Clients, txn'[e] # NoTxn
        PROVE  /\ DOMAIN txn'[e] = {"docs", "messages", "stale", "overlap"}
               /\ DOMAIN txn'[e].docs = Ids \cup Tokens /\ WellTyped(txn'[e].docs)
               /\ txn'[e].messages \subseteq Messages
               /\ txn'[e].stale \subseteq Ids \cup Tokens
               /\ txn'[e].overlap \in 0 .. MaxOverlap
    <3> DEFINE w == written
    <3>1. w \subseteq Ids \cup Tokens
      BY <1>3 DEF Keys
    <3>2. txn[e] # NoTxn /\ txn[e].overlap < MaxOverlap
          /\ txn'[e] = [txn[e] EXCEPT !.stale = @ \cup w, !.overlap = @ + 1]
      BY <1>8, <2>2
    <3> HIDE DEF w
    <3>3. /\ DOMAIN txn[e] = {"docs", "messages", "stale", "overlap"}
          /\ DOMAIN txn[e].docs = Ids \cup Tokens /\ WellTyped(txn[e].docs)
          /\ txn[e].messages \subseteq Messages
          /\ txn[e].stale \subseteq Ids \cup Tokens
          /\ txn[e].overlap \in 0 .. MaxOverlap
      BY <3>2 DEF TypeOK
    <3> DEFINE t == txn[e]
               t2 == [t EXCEPT !.stale = @ \cup w, !.overlap = @ + 1]
    <3>4. /\ DOMAIN t2 = DOMAIN t /\ t2.docs = t.docs /\ t2.messages = t.messages
          /\ t2.stale = t.stale \cup w /\ t2.overlap = t.overlap + 1
      BY <3>3
    <3> HIDE DEF t2
    <3>5. t2.overlap \in 0 .. MaxOverlap
      BY <3>2, <3>3, <3>4, AccountsAssumption
    <3> QED BY <3>1, <3>2, <3>3, <3>4, <3>5 DEF t2
  <2> QED BY <1>6, <2>1, <2>2 DEF TypeOK, Proper, Keys
<1>10. SnapshotsAgree'
  <2> SUFFICES ASSUME NEW e \in Clients, txn'[e] # NoTxn, NEW key \in Keys
               PROVE  /\ key \notin txn'[e].stale => docs'[key] = txn'[e].docs[key]
                      /\ txn'[e].docs[key] # Free => docs'[key] # Free
                      /\ key \in Users(txn'[e].docs) =>
                           docs'[key].wallet = txn'[e].docs[key].wallet
    BY DEF SnapshotsAgree
  <2> DEFINE t == txn[e]
             w == written
             t2 == [t EXCEPT !.stale = @ \cup w, !.overlap = @ + 1]
  <2>1. t # NoTxn /\ txn'[e] = t2
    BY <1>8
  <2>2. DOMAIN t = {"docs", "messages", "stale", "overlap"} /\ Proper(t.docs)
    BY <2>1, ProperDocs DEF TypeOK
  <2>3. t2.docs = t.docs /\ t2.stale = t.stale \cup w
    BY <2>2
  <2>4. /\ key \notin t.stale => docs[key] = t.docs[key]
        /\ t.docs[key] # Free => docs[key] # Free
        /\ key \in Users(t.docs) => docs[key].wallet = t.docs[key].wallet
    BY <2>1 DEF SnapshotsAgree
  <2>5. key \notin w => docs'[key] = docs[key]
    BY <1>1, <1>2
  <2> HIDE DEF t2, w
  <2>6. key \notin t2.stale => docs'[key] = t2.docs[key]
    BY <2>3, <2>4, <2>5
  <2>7. t2.docs[key] # Free => docs'[key] # Free
    BY <1>7, <2>3, <2>4 DEF Grows
  <2>8. key \in Users(t2.docs) => docs'[key].wallet = t2.docs[key].wallet
    BY <1>7, <2>3, <2>4 DEF Grows, Users
  <2> HIDE DEF t
  <2> QED BY <2>1, <2>6, <2>7, <2>8
<1> QED BY <1>5, <1>6, <1>7, <1>9, <1>10

-----------------------------------------------------------------------------
(* One document of a map changes.                                          *)

DocumentsOf(key) == IF key \in Ids THEN UserDocuments ELSE SessionDocuments

LEMMA Updated ==
  ASSUME NEW map, Proper(map), NEW key \in Keys, NEW doc \in DocumentsOf(key),
         map[key] # Free => (key \in Ids => doc.wallet = map[key].wallet)
  PROVE  LET new == [map EXCEPT ![key] = doc]
         IN  /\ Proper(new) /\ Grows(map, new)
             /\ new[key] = doc /\ \A k \in Keys \ {key} : new[k] = map[k]
<1> DEFINE new == [map EXCEPT ![key] = doc]
<1>1. DOMAIN map = Keys
  BY DEF Proper
<1>2. DOMAIN new = Keys /\ new[key] = doc /\ \A k \in Keys \ {key} : new[k] = map[k]
  BY <1>1
<1> HIDE DEF new
<1>3. Proper(new)
  BY <1>2 DEF Proper, WellTyped, DocumentsOf
<1>4. doc # Free
  BY StartUsersAssumption DEF DocumentsOf
<1>5. Grows(map, new)
  BY <1>2, <1>4 DEF Grows
<1> QED BY <1>2, <1>3, <1>5 DEF new

LEMMA UserByField ==
  ASSUME NEW f, f = [x \in DOMAIN f |-> f[x]],
         DOMAIN f = {"wallet", "name", "golds", "followees", "referred", "referral",
                     "followX"},
         f.wallet \in Wallets, f.name \in Names, f.golds \in Nat,
         f.followees \in Seq(Ids), f.referred \in Seq(Ids),
         f.referral \in Ids \cup {NoUser}, f.followX \in BOOLEAN
  PROVE  f \in UserDocuments
BY DEF UserDocuments

LEMMA NewUserType ==
  ASSUME NEW wallet \in Wallets, NEW name \in Names
  PROVE  NewUser(wallet, name) \in UserDocuments
BY AccountsAssumption, EmptyList DEF NewUser, UserDocuments

\* Sessions, messages and snapshots do not touch the users.
LEMMA UsersStay ==
  ASSUME TypeOK, ReferralsPaidOnce, FolloweesSound, \A u \in Ids : docs'[u] = docs[u]
  PROVE  ReferralsPaidOnce' /\ FolloweesSound'
<1>1. Users(docs') = Users(docs) /\ \A u \in Users(docs) : docs'[u] = docs[u]
  BY DEF Users
<1>2. Proper(docs) /\ ReferralsPaid(docs) /\ Neighbours(docs)
  BY ProperDocs DEF ReferralsPaidOnce, FolloweesSound
<1>3. Neighbours(docs')
  BY <1>1, <1>2, NeighboursStay
<1>4. ReferralsPaid(docs')
  BY <1>1, <1>2, ReferralsStay
<1> QED BY <1>3, <1>4 DEF ReferralsPaidOnce, FolloweesSound

LEMMA BeginStep ==
  ASSUME AccountsInv, NEW c \in Clients, Begin(c)
  PROVE  AccountsInv'
<1>1. docs' = docs /\ messages' = messages
      /\ txn' = [txn EXCEPT ![c] = [docs |-> docs, messages |-> messages,
                                    stale |-> {}, overlap |-> 0]]
  BY DEF Begin
<1>2. DOMAIN txn = Clients
  BY DEF AccountsInv, TypeOK
<1>3. TypeOK'
  BY <1>1, <1>2, AccountsAssumption DEF AccountsInv, TypeOK
<1>4. SnapshotsAgree'
  BY <1>1, <1>2 DEF AccountsInv, SnapshotsAgree, Users
<1> QED BY <1>1, <1>3, <1>4, UsersStay DEF AccountsInv

LEMMA OutsideStep ==
  ASSUME AccountsInv,
         \/ \E c \in Clients : End(c)
         \/ RequestMessage \/ MessageExpires \/ UNCHANGED vars
  PROVE  AccountsInv'
<1>1. docs' = docs /\ messages' \subseteq Messages
      /\ (txn' = txn \/ \E c \in Clients : txn' = [txn EXCEPT ![c] = NoTxn])
  BY DEF End, RequestMessage, MessageExpires, vars, AccountsInv, TypeOK
<1>2. DOMAIN txn = Clients
  BY DEF AccountsInv, TypeOK
<1>3. DOMAIN txn' = Clients
      /\ \A c \in Clients : txn'[c] # NoTxn => txn[c] # NoTxn /\ txn'[c] = txn[c]
  BY <1>1, <1>2
<1>4. TypeOK'
  BY <1>1, <1>3 DEF AccountsInv, TypeOK
<1>5. SnapshotsAgree'
  BY <1>1, <1>3 DEF AccountsInv, SnapshotsAgree
<1> QED BY <1>1, <1>4, <1>5, UsersStay DEF AccountsInv

-----------------------------------------------------------------------------
(* Sign in, refresh and logout write sessions, and at most a new user.     *)

LEMMA SnapshotOf ==
  ASSUME AccountsInv, NEW c \in Clients, txn[c] # NoTxn
  PROVE  /\ TypeOK /\ SnapshotsAgree /\ Proper(txn[c].docs) /\ Proper(docs)
         /\ \A u \in Users(txn[c].docs) :
              u \in Users(docs) /\ NetworkOf(docs, u) = NetworkOf(txn[c].docs, u)
<1>1. TypeOK /\ SnapshotsAgree /\ Proper(txn[c].docs) /\ Proper(docs)
  BY ProperDocs DEF AccountsInv
<1>2. ASSUME NEW u \in Users(txn[c].docs)
      PROVE  u \in Users(docs) /\ NetworkOf(docs, u) = NetworkOf(txn[c].docs, u)
  BY <1>1, <1>2 DEF SnapshotsAgree, NetworkOf, Users, Keys
<1> QED BY <1>1, <1>2

LEMMA SessionWritten ==
  ASSUME AccountsInv, NEW c \in Clients, txn[c] # NoTxn, NEW t \in Tokens,
         NEW doc \in SessionDocuments,
         Commit(c, [txn[c].docs EXCEPT ![t] = doc])
  PROVE  AccountsInv'
<1> DEFINE snapshot == txn[c].docs
           new == [snapshot EXCEPT ![t] = doc]
<1>1. TypeOK /\ SnapshotsAgree /\ Proper(snapshot)
  BY SnapshotOf
<1>2. t \in Keys /\ t \notin Ids /\ doc \in DocumentsOf(t)
  BY KeyKinds DEF Keys, DocumentsOf
<1> HIDE DEF snapshot
<1>3. Proper(new) /\ Grows(snapshot, new) /\ \A k \in Keys \ {t} : new[k] = snapshot[k]
  BY <1>1, <1>2, Updated
<1> HIDE DEF new
<1>4. Commit(c, new)
  BY DEF new, snapshot
<1>5. Lands(docs, snapshot, new, docs') /\ TypeOK' /\ SnapshotsAgree'
  BY <1>1, <1>3, <1>4, CommitLands DEF snapshot
<1>6. \A u \in Ids : docs'[u] = docs[u]
  BY <1>2, <1>3, <1>5 DEF Lands, Keys
<1> QED BY <1>5, <1>6, UsersStay DEF AccountsInv

LEMMA SessionSteps ==
  ASSUME AccountsInv, NEW c \in Clients, Refresh(c) \/ Logout(c)
  PROVE  AccountsInv'
<1>1. CASE Refresh(c)
  <2>1. txn[c] # NoTxn /\ Proper(txn[c].docs)
    BY <1>1, ProperDocs DEF Refresh, AccountsInv
  <2>2. PICK old \in Sessions(txn[c].docs), t \in FreshIn(c, Tokens) :
          Commit(c, [txn[c].docs EXCEPT ![t] = NewSession(txn[c].docs[old].user)])
    BY <1>1 DEF Refresh
  <2>3. old \in Tokens /\ t \in Tokens /\ txn[c].docs[old] \in SessionDocuments
    BY <2>1, KeyKinds DEF Sessions, FreshIn, Proper, WellTyped, Keys
  <2>4. NewSession(txn[c].docs[old].user) \in SessionDocuments
    BY <2>3 DEF NewSession, SessionDocuments
  <2> QED BY <2>1, <2>2, <2>3, <2>4, SessionWritten
<1>2. CASE Logout(c)
  <2>1. txn[c] # NoTxn /\ Proper(txn[c].docs)
    BY <1>2, ProperDocs DEF Logout, AccountsInv
  <2>2. PICK t \in Sessions(txn[c].docs) :
          Commit(c, [txn[c].docs EXCEPT ![t].isActive = FALSE])
    BY <1>2 DEF Logout
  <2>3. t \in Tokens /\ txn[c].docs[t] \in SessionDocuments
    BY <2>1, KeyKinds DEF Sessions, Proper, WellTyped, Keys
  <2> DEFINE doc == [txn[c].docs[t] EXCEPT !.isActive = FALSE]
  <2>4. doc \in SessionDocuments
    BY <2>3 DEF SessionDocuments
  <2>5. Commit(c, [txn[c].docs EXCEPT ![t] = doc])
    BY <2>2
  <2> HIDE DEF doc
  <2> QED BY <2>1, <2>3, <2>4, <2>5, SessionWritten
<1> QED BY <1>1, <1>2

LEMMA VerifySignatureStep ==
  ASSUME AccountsInv, NEW c \in Clients, VerifySignature(c)
  PROVE  AccountsInv'
<1> DEFINE snapshot == txn[c].docs
<1>1. PICK wallet \in SigningIn, name \in Names, t \in FreshIn(c, Tokens) :
        \/ \E u \in OfWallet(txn[c].docs, wallet) :
             Commit(c, [txn[c].docs EXCEPT ![t] = NewSession(u)])
        \/ \E u \in FreshIn(c, Ids) :
             Commit(c, [txn[c].docs EXCEPT ![u] = NewUser(wallet, name),
                                           ![t] = NewSession(u)])
  BY DEF VerifySignature
<1>2. /\ txn[c] # NoTxn /\ TypeOK /\ SnapshotsAgree
      /\ Proper(snapshot) /\ Proper(docs)
  BY SnapshotOf DEF VerifySignature
<1>3. t \in Tokens /\ t \in Keys /\ t \notin Ids /\ snapshot[t] = Free
  BY KeyKinds DEF FreshIn, Keys
<1>4. \A u \in Ids : NewSession(u) \in SessionDocuments
  BY DEF NewSession, SessionDocuments
<1>5. ASSUME NEW u \in OfWallet(txn[c].docs, wallet),
             Commit(c, [txn[c].docs EXCEPT ![t] = NewSession(u)])
      PROVE  AccountsInv'
  <2>1. u \in Ids
    BY DEF OfWallet, Users
  <2> QED BY <1>2, <1>3, <1>4, <1>5, <2>1, SessionWritten
<1>6. ASSUME NEW u \in FreshIn(c, Ids),
             Commit(c, [txn[c].docs EXCEPT ![u] = NewUser(wallet, name),
                                           ![t] = NewSession(u)])
      PROVE  AccountsInv'
  <2>1. u \in Ids /\ u \in Keys /\ u # t /\ docs[u] = Free /\ snapshot[u] = Free
    BY <1>3 DEF FreshIn, Keys
  <2> DEFINE doc == NewUser(wallet, name)
             signed == [snapshot EXCEPT ![u] = doc]
             session == NewSession(u)
             new == [signed EXCEPT ![t] = session]
  <2>2. Commit(c, new)
    BY <1>6
  <2>3. doc \in DocumentsOf(u) /\ session \in DocumentsOf(t) /\ doc \in UserDocuments
    BY <1>3, <1>4, <2>1, NewUserType, AccountsAssumption DEF DocumentsOf
  <2>4. /\ doc.golds = DefaultGolds /\ doc.referral = NoUser /\ doc.referred = <<>>
        /\ doc.followees = <<>> /\ ~ doc.followX
    BY DEF NewUser
  <2> HIDE DEF doc, session, snapshot
  <2>5. /\ Proper(signed) /\ Grows(snapshot, signed)
        /\ signed[u] = doc /\ \A k \in Keys \ {u} : signed[k] = snapshot[k]
    BY <1>2, <2>1, <2>3, Updated
  <2> HIDE DEF signed
  <2>6. /\ Proper(new) /\ Grows(signed, new)
        /\ new[t] = session /\ \A k \in Keys \ {t} : new[k] = signed[k]
    BY <1>3, <2>3, <2>5, Updated
  <2> HIDE DEF new
  <2>7. Grows(snapshot, new)
    BY <2>1, <2>5, <2>6 DEF Grows
  <2>8. /\ Lands(docs, snapshot, new, docs') /\ Proper(docs')
        /\ Grows(docs, docs') /\ TypeOK' /\ SnapshotsAgree'
    BY <1>2, <2>2, <2>6, <2>7, CommitLands DEF snapshot
  <2>9. doc # Free
    BY <2>3, StartUsersAssumption
  <2>10. docs'[u] = doc /\ \A k \in Ids \ {u} : docs'[k] = docs[k]
    BY <1>3, <2>1, <2>5, <2>6, <2>8, <2>9 DEF Lands, Keys
  <2>11. /\ \A k \in Users(docs) : k \in Users(docs') /\ docs'[k] = docs[k]
         /\ \A k \in Users(docs') \ Users(docs) : docs'[k] = doc
    BY <2>1, <2>9, <2>10 DEF Users
  <2>12. Neighbours(docs')
    BY <2>4, <2>11, NeighboursStay DEF AccountsInv, FolloweesSound
  <2>13. ReferralsPaid(docs')
    BY <1>2, <2>4, <2>11, ReferralsStay DEF AccountsInv, ReferralsPaidOnce
  <2> QED BY <2>8, <2>12, <2>13 DEF AccountsInv, FolloweesSound, ReferralsPaidOnce
<1> QED BY <1>1, <1>5, <1>6

-----------------------------------------------------------------------------
(* Mutations of one user.                                                  *)

LEMMA UserWritten ==
  ASSUME AccountsInv, NEW c \in Clients, txn[c] # NoTxn, NEW u \in Users(txn[c].docs),
         NEW doc \in UserDocuments, doc.wallet = txn[c].docs[u].wallet,
         Commit(c, [txn[c].docs EXCEPT ![u] = doc])
  PROVE  /\ TypeOK' /\ SnapshotsAgree' /\ Proper(docs')
         /\ u \in Users(docs) /\ Users(docs') = Users(docs)
         /\ \A k \in Users(docs) \ {u} : docs'[k] = docs[k]
         /\ IF doc = txn[c].docs[u] THEN docs'[u] = docs[u]
            ELSE docs[u] = txn[c].docs[u] /\ docs'[u] = doc
<1> DEFINE snapshot == txn[c].docs
           new == [snapshot EXCEPT ![u] = doc]
<1>1. TypeOK /\ SnapshotsAgree /\ Proper(snapshot) /\ u \in Users(docs)
  BY SnapshotOf
<1>2. u \in Ids /\ u \in Keys /\ doc \in DocumentsOf(u)
  BY DEF Users, Keys, DocumentsOf
<1>3. doc.wallet = snapshot[u].wallet
  OBVIOUS
<1> HIDE DEF snapshot
<1>4. /\ Proper(new) /\ Grows(snapshot, new)
      /\ new[u] = doc /\ \A k \in Keys \ {u} : new[k] = snapshot[k]
  BY <1>1, <1>2, <1>3, Updated
<1> HIDE DEF new
<1>5. Commit(c, new)
  BY DEF new, snapshot
<1>6. /\ Lands(docs, snapshot, new, docs') /\ Proper(docs')
      /\ Grows(docs, docs') /\ TypeOK' /\ SnapshotsAgree'
  BY <1>1, <1>4, <1>5, CommitLands DEF snapshot
<1>7. /\ \A k \in Ids \ {u} : docs'[k] = docs[k]
      /\ IF doc = snapshot[u] THEN docs'[u] = docs[u]
         ELSE docs[u] = snapshot[u] /\ docs'[u] = doc
  BY <1>2, <1>4, <1>6 DEF Lands, Keys
<1>8. Users(docs') = Users(docs)
  BY <1>1, <1>2, <1>6, <1>7 DEF Users, Grows, Keys
<1>9. \A k \in Users(docs) \ {u} : docs'[k] = docs[k]
  BY <1>7 DEF Users
<1> QED BY <1>1, <1>6, <1>7, <1>8, <1>9 DEF snapshot

LEMMA UpdateFollowXStep ==
  ASSUME AccountsInv, NEW c \in Clients, UpdateFollowX(c)
  PROVE  AccountsInv'
<1>1. PICK u \in Users(txn[c].docs) :
        /\ ~ txn[c].docs[u].followX
        /\ Commit(c, [txn[c].docs EXCEPT ![u] = FollowedX(@)])
  BY DEF UpdateFollowX
<1>2. txn[c] # NoTxn /\ Proper(txn[c].docs) /\ Proper(docs)
  BY SnapshotOf DEF UpdateFollowX
<1> DEFINE old == txn[c].docs[u]
           doc == FollowedX(old)
<1>3. u \in DOMAIN txn[c].docs /\ old \in UserDocuments
  BY <1>2, UserOf
<1>4. /\ doc.wallet = old.wallet /\ doc.followees = old.followees
      /\ doc.referral = old.referral /\ doc.referred = old.referred
      /\ doc.golds = old.golds + FollowXReward /\ doc.followX = TRUE
      /\ doc.name = old.name
  BY <1>3 DEF UserDocuments, FollowedX
<1>5. doc \in UserDocuments
  <2>1. /\ doc = [x \in DOMAIN doc |-> doc[x]]
        /\ DOMAIN doc = {"wallet", "name", "golds", "followees", "referred", "referral",
                         "followX"}
    BY <1>3 DEF UserDocuments, FollowedX
  <2>2. /\ doc.wallet \in Wallets /\ doc.name \in Names /\ doc.golds \in Nat
        /\ doc.followees \in Seq(Ids) /\ doc.referred \in Seq(Ids)
        /\ doc.referral \in Ids \cup {NoUser} /\ doc.followX \in BOOLEAN
    <3>1. /\ old.wallet \in Wallets /\ old.name \in Names /\ old.golds \in Nat
          /\ old.followees \in Seq(Ids) /\ old.referred \in Seq(Ids)
          /\ old.referral \in Ids \cup {NoUser}
      BY <1>2, UserOf
    <3> HIDE DEF doc, old
    <3>2. old.golds + FollowXReward \in Nat
      BY <3>1, AccountsAssumption
    <3> QED BY <1>4, <3>1, <3>2, Zenon
  <2> HIDE DEF doc
  <2> QED BY <2>1, <2>2, UserByField
<1>6. Commit(c, [txn[c].docs EXCEPT ![u] = doc])
  BY <1>1
<1>7. ~ old.followX
  BY <1>1
<1> HIDE DEF doc
<1>8. doc # old
  BY <1>4, <1>7
<1>9. /\ TypeOK' /\ SnapshotsAgree'
      /\ u \in Users(docs) /\ Users(docs') = Users(docs)
      /\ \A k \in Users(docs) \ {u} : docs'[k] = docs[k]
      /\ docs[u] = old /\ docs'[u] = doc
  BY <1>2, <1>4, <1>5, <1>6, <1>8, UserWritten
<1> HIDE DEF old
<1>10. Neighbours(docs')
  BY <1>4, <1>9, NeighboursStay DEF AccountsInv, FolloweesSound
<1>11. ReferralsPaid(docs')
  <2>1. ASSUME NEW k \in Users(docs)
        PROVE  /\ k \in Users(docs')
               /\ docs'[k].referral = docs[k].referral
               /\ docs'[k].referred = docs[k].referred
               /\ \/ docs'[k].golds = docs[k].golds /\ docs'[k].followX = docs[k].followX
                  \/ /\ docs'[k].golds = docs[k].golds + FollowXReward
                     /\ ~ docs[k].followX /\ docs'[k].followX
    BY <1>4, <1>7, <1>9, <2>1
  <2> QED BY <1>2, <1>9, <2>1, ReferralsStay DEF AccountsInv, ReferralsPaidOnce
<1> QED BY <1>9, <1>10, <1>11 DEF AccountsInv, FolloweesSound, ReferralsPaidOnce

LEMMA UpdateDisplayInformationStep ==
  ASSUME AccountsInv, NEW c \in Clients, UpdateDisplayInformation(c)
  PROVE  AccountsInv'
<1>1. PICK u \in Users(txn[c].docs), name \in Names :
        Commit(c, [txn[c].docs EXCEPT ![u].name = name])
  BY DEF UpdateDisplayInformation
<1>2. txn[c] # NoTxn /\ Proper(txn[c].docs) /\ Proper(docs)
  BY SnapshotOf DEF UpdateDisplayInformation
<1> DEFINE old == txn[c].docs[u]
           doc == [old EXCEPT !.name = name]
<1>3. u \in DOMAIN txn[c].docs /\ old \in UserDocuments
  BY <1>2, UserOf
<1>4. /\ doc.wallet = old.wallet /\ doc.followees = old.followees
      /\ doc.referral = old.referral /\ doc.referred = old.referred
      /\ doc.golds = old.golds /\ doc.followX = old.followX /\ doc \in UserDocuments
  BY <1>3 DEF UserDocuments
<1>5. Commit(c, [txn[c].docs EXCEPT ![u] = doc])
  BY <1>1
<1> HIDE DEF doc
<1>6. /\ TypeOK' /\ SnapshotsAgree'
      /\ u \in Users(docs) /\ Users(docs') = Users(docs)
      /\ \A k \in Users(docs) \ {u} : docs'[k] = docs[k]
      /\ IF doc = old THEN docs'[u] = docs[u] ELSE docs[u] = old /\ docs'[u] = doc
  BY <1>2, <1>4, <1>5, UserWritten
<1> HIDE DEF old
<1>7. Neighbours(docs')
  BY <1>4, <1>6, NeighboursStay DEF AccountsInv, FolloweesSound
<1>8. ReferralsPaid(docs')
  <2>1. ASSUME NEW k \in Users(docs)
        PROVE  /\ k \in Users(docs')
               /\ docs'[k].referral = docs[k].referral
               /\ docs'[k].referred = docs[k].referred
               /\ docs'[k].golds = docs[k].golds /\ docs'[k].followX = docs[k].followX
    BY <1>4, <1>6, <2>1
  <2> QED BY <1>2, <1>6, <2>1, ReferralsStay DEF AccountsInv, ReferralsPaidOnce
<1> QED BY <1>6, <1>7, <1>8 DEF AccountsInv, FolloweesSound, ReferralsPaidOnce

\* A new list of followees leaves referrals alone.
LEMMA FolloweesWritten ==
  ASSUME AccountsInv, NEW c \in Clients, txn[c] # NoTxn, NEW u \in Users(txn[c].docs),
         NEW list \in Seq(Ids),
         Commit(c, [txn[c].docs EXCEPT ![u].followees = list]),
         docs[u] = txn[c].docs[u] =>
           /\ IsInjective(list) /\ Len(list) <= FolloweeLimit
           /\ \A f \in ToSet(list) :
                f # u /\ f \in Users(docs) /\ NetworkOf(docs, f) = NetworkOf(docs, u)
  PROVE  AccountsInv'
<1>1. Proper(txn[c].docs) /\ Proper(docs)
  BY SnapshotOf
<1> DEFINE old == txn[c].docs[u]
           doc == [old EXCEPT !.followees = list]
<1>2. u \in DOMAIN txn[c].docs /\ old \in UserDocuments
  BY <1>1, UserOf
<1>3. /\ doc.wallet = old.wallet /\ doc.followees = list
      /\ doc.referral = old.referral /\ doc.referred = old.referred
      /\ doc.golds = old.golds /\ doc.followX = old.followX /\ doc \in UserDocuments
  BY <1>2 DEF UserDocuments
<1>4. Commit(c, [txn[c].docs EXCEPT ![u] = doc])
  OBVIOUS
<1> HIDE DEF doc
<1>5. /\ TypeOK' /\ SnapshotsAgree'
      /\ u \in Users(docs) /\ Users(docs') = Users(docs)
      /\ \A k \in Users(docs) \ {u} : docs'[k] = docs[k]
      /\ IF doc = old THEN docs'[u] = docs[u] ELSE docs[u] = old /\ docs'[u] = doc
  BY <1>1, <1>3, <1>4, UserWritten
<1>6. \A k \in Users(docs) : docs'[k].wallet = docs[k].wallet
  BY <1>3, <1>5
<1>7. Neighbours(docs')
  <2> SUFFICES ASSUME NEW k \in Users(docs)
               PROVE  /\ IsInjective(docs'[k].followees)
                      /\ Len(docs'[k].followees) <= FolloweeLimit
                      /\ \A f \in ToSet(docs'[k].followees) :
                           /\ f # k /\ f \in Users(docs)
                           /\ Network[docs'[f].wallet] = Network[docs'[k].wallet]
    BY <1>5 DEF Neighbours, NetworkOf
  <2>1. /\ IsInjective(docs[k].followees) /\ Len(docs[k].followees) <= FolloweeLimit
        /\ \A f \in ToSet(docs[k].followees) :
             f # k /\ f \in Users(docs) /\ NetworkOf(docs, f) = NetworkOf(docs, k)
    BY DEF AccountsInv, FolloweesSound, Neighbours
  <2>2. CASE docs'[k] = docs[k]
    BY <1>5, <1>6, <2>1, <2>2 DEF NetworkOf
  <2>3. CASE k = u /\ docs[u] = old /\ docs'[u] = doc
    <3>1. /\ IsInjective(list) /\ Len(list) <= FolloweeLimit
          /\ \A f \in ToSet(list) :
               f # u /\ f \in Users(docs) /\ NetworkOf(docs, f) = NetworkOf(docs, u)
      BY <2>3
    <3>2. docs'[k].followees = list
      BY <1>3, <2>3
    <3> QED BY <1>6, <2>3, <3>1, <3>2 DEF NetworkOf
  <2> QED BY <1>5, <2>2, <2>3
<1> HIDE DEF old
<1>8. ReferralsPaid(docs')
  <2>1. ASSUME NEW k \in Users(docs)
        PROVE  /\ k \in Users(docs')
               /\ docs'[k].referral = docs[k].referral
               /\ docs'[k].referred = docs[k].referred
               /\ docs'[k].golds = docs[k].golds /\ docs'[k].followX = docs[k].followX
    BY <1>3, <1>5, <2>1
  <2> QED BY <1>1, <1>5, <2>1, ReferralsStay DEF AccountsInv, ReferralsPaidOnce
<1> QED BY <1>5, <1>7, <1>8 DEF AccountsInv, FolloweesSound, ReferralsPaidOnce

\* The guards hold of a snapshot; where it is still current, the list it holds is sound.
LEMMA ListOf ==
  ASSUME AccountsInv, NEW c \in Clients, txn[c] # NoTxn, NEW u \in Users(txn[c].docs),
         docs[u] = txn[c].docs[u]
  PROVE  LET list == txn[c].docs[u].followees
         IN  /\ IsInjective(list) /\ Len(list) <= FolloweeLimit
             /\ \A f \in ToSet(list) :
                  f # u /\ f \in Users(docs) /\ NetworkOf(docs, f) = NetworkOf(docs, u)
BY SnapshotOf DEF AccountsInv, FolloweesSound, Neighbours

LEMMA FollowStep ==
  ASSUME AccountsInv, NEW c \in Clients, Follow(c)
  PROVE  AccountsInv'
<1>1. PICK u \in Users(txn[c].docs), f \in Users(txn[c].docs) :
        /\ u # f /\ ~ Contains(txn[c].docs[u].followees, f)
        /\ SameNetwork(txn[c].docs, u, f)
        /\ Len(txn[c].docs[u].followees) < FolloweeLimit
        /\ Commit(c, [txn[c].docs EXCEPT ![u].followees = Append(@, f)])
  BY DEF Follow
<1>2. /\ txn[c] # NoTxn /\ f \in Ids /\ f \in Users(docs)
      /\ NetworkOf(docs, f) = NetworkOf(docs, u)
  BY <1>1, SnapshotOf DEF Follow, SameNetwork, Users
<1> DEFINE list == txn[c].docs[u].followees
<1>3. list \in Seq(Ids)
  BY <1>2, SnapshotOf, UserOf
<1>4. Commit(c, [txn[c].docs EXCEPT ![u].followees = Append(list, f)])
  BY <1>1
<1>5. f \notin ToSet(list)
  BY <1>1, <1>3, ContainsIsElement
<1>6. ASSUME docs[u] = txn[c].docs[u]
      PROVE  /\ IsInjective(list)
             /\ \A g \in ToSet(list) :
                  g # u /\ g \in Users(docs) /\ NetworkOf(docs, g) = NetworkOf(docs, u)
  BY <1>2, <1>6, ListOf
<1>7. Len(list) + 1 <= FolloweeLimit
  BY <1>1, <1>3, AccountsAssumption
<1> HIDE DEF list
<1>8. /\ Append(list, f) \in Seq(Ids) /\ Len(Append(list, f)) = Len(list) + 1
      /\ ToSet(Append(list, f)) = ToSet(list) \cup {f}
      /\ IsInjective(list) => IsInjective(Append(list, f))
  BY <1>2, <1>3, <1>5, Appended
<1>9. docs[u] = txn[c].docs[u] =>
        /\ IsInjective(Append(list, f)) /\ Len(Append(list, f)) <= FolloweeLimit
        /\ \A g \in ToSet(Append(list, f)) :
             g # u /\ g \in Users(docs) /\ NetworkOf(docs, g) = NetworkOf(docs, u)
  BY <1>1, <1>2, <1>6, <1>7, <1>8
<1> QED BY <1>2, <1>4, <1>8, <1>9, FolloweesWritten

LEMMA UnfollowStep ==
  ASSUME AccountsInv, NEW c \in Clients, Unfollow(c)
  PROVE  AccountsInv'
<1>1. PICK u \in Users(txn[c].docs), f \in Users(txn[c].docs) :
        Commit(c, [txn[c].docs EXCEPT ![u].followees = Without(@, f)])
  BY DEF Unfollow
<1>2. txn[c] # NoTxn
  BY DEF Unfollow
<1> DEFINE list == txn[c].docs[u].followees
<1>3. list \in Seq(Ids)
  BY <1>2, SnapshotOf, UserOf
<1>4. Commit(c, [txn[c].docs EXCEPT ![u].followees = Without(list, f)])
  BY <1>1
<1>5. ASSUME docs[u] = txn[c].docs[u]
      PROVE  /\ IsInjective(list) /\ Len(list) <= FolloweeLimit
             /\ \A g \in ToSet(list) :
                  g # u /\ g \in Users(docs) /\ NetworkOf(docs, g) = NetworkOf(docs, u)
  BY <1>2, <1>5, ListOf
<1> HIDE DEF list
<1>6. /\ Without(list, f) \in Seq(Ids) /\ Len(Without(list, f)) <= Len(list)
      /\ ToSet(Without(list, f)) = ToSet(list) \ {f}
      /\ IsInjective(list) => IsInjective(Without(list, f))
  BY <1>3, WithoutSound
<1>7. Len(list) \in Nat /\ Len(Without(list, f)) \in Nat
  BY <1>3, <1>6
<1>8. docs[u] = txn[c].docs[u] =>
        /\ IsInjective(Without(list, f)) /\ Len(Without(list, f)) <= FolloweeLimit
        /\ \A g \in ToSet(Without(list, f)) :
             g # u /\ g \in Users(docs) /\ NetworkOf(docs, g) = NetworkOf(docs, u)
  BY <1>5, <1>6, <1>7, AccountsAssumption
<1> QED BY <1>2, <1>4, <1>6, <1>8, FolloweesWritten

-----------------------------------------------------------------------------
(* The referral writes two users.                                          *)

LEMMA RefersFields ==
  ASSUME NEW user \in UserDocuments, NEW u \in Ids
  PROVE  LET doc == Refers(user, u)
         IN  /\ doc \in UserDocuments
             /\ doc.wallet = user.wallet /\ doc.followees = user.followees
             /\ doc.referral = user.referral /\ doc.followX = user.followX
             /\ doc.golds = user.golds + ReferredReward
             /\ doc.referred = Append(user.referred, u)
<1> DEFINE doc == Refers(user, u)
<1>1. /\ doc = [x \in DOMAIN doc |-> doc[x]]
      /\ DOMAIN doc = {"wallet", "name", "golds", "followees", "referred", "referral",
                       "followX"}
  BY DEF UserDocuments, Refers
<1>2. /\ doc.wallet = user.wallet /\ doc.followees = user.followees
      /\ doc.referral = user.referral /\ doc.followX = user.followX
      /\ doc.golds = user.golds + ReferredReward
      /\ doc.referred = Append(user.referred, u) /\ doc.name = user.name
  BY DEF UserDocuments, Refers
<1>3. /\ user.wallet \in Wallets /\ user.name \in Names /\ user.golds \in Nat
      /\ user.followees \in Seq(Ids) /\ user.referred \in Seq(Ids)
      /\ user.referral \in Ids \cup {NoUser} /\ user.followX \in BOOLEAN
  BY DEF UserDocuments
<1> HIDE DEF doc
<1>4. user.golds + ReferredReward \in Nat
  BY <1>3, AccountsAssumption
<1>5. Append(user.referred, u) \in Seq(Ids)
  BY <1>3, Appended
<1>6. /\ doc.wallet \in Wallets /\ doc.name \in Names /\ doc.golds \in Nat
      /\ doc.followees \in Seq(Ids) /\ doc.referred \in Seq(Ids)
      /\ doc.referral \in Ids \cup {NoUser} /\ doc.followX \in BOOLEAN
  BY <1>2, <1>3, <1>4, <1>5, Zenon
<1>7. doc \in UserDocuments
  BY <1>1, <1>6, UserByField
<1> QED BY <1>2, <1>7 DEF doc

LEMMA ReferredByFields ==
  ASSUME NEW user \in UserDocuments, NEW r \in Ids
  PROVE  LET doc == ReferredBy(user, r)
         IN  /\ doc \in UserDocuments
             /\ doc.wallet = user.wallet /\ doc.followees = user.followees
             /\ doc.referral = r /\ doc.followX = user.followX
             /\ doc.golds = user.golds + ReferralReward
             /\ doc.referred = user.referred
<1> DEFINE doc == ReferredBy(user, r)
<1>1. /\ doc = [x \in DOMAIN doc |-> doc[x]]
      /\ DOMAIN doc = {"wallet", "name", "golds", "followees", "referred", "referral",
                       "followX"}
  BY DEF UserDocuments, ReferredBy
<1>2. /\ doc.wallet = user.wallet /\ doc.followees = user.followees
      /\ doc.referral = r /\ doc.followX = user.followX
      /\ doc.golds = user.golds + ReferralReward
      /\ doc.referred = user.referred /\ doc.name = user.name
  BY DEF UserDocuments, ReferredBy
<1>3. /\ user.wallet \in Wallets /\ user.name \in Names /\ user.golds \in Nat
      /\ user.followees \in Seq(Ids) /\ user.referred \in Seq(Ids)
      /\ user.followX \in BOOLEAN
  BY DEF UserDocuments
<1> HIDE DEF doc
<1>4. user.golds + ReferralReward \in Nat
  BY <1>3, AccountsAssumption
<1>5. /\ doc.wallet \in Wallets /\ doc.name \in Names /\ doc.golds \in Nat
      /\ doc.followees \in Seq(Ids) /\ doc.referred \in Seq(Ids)
      /\ doc.referral \in Ids \cup {NoUser} /\ doc.followX \in BOOLEAN
  BY <1>2, <1>3, <1>4, Zenon
<1>6. doc \in UserDocuments
  BY <1>1, <1>5, UserByField
<1> QED BY <1>2, <1>6 DEF doc

\* Of documents that account for every reward, one more referral makes documents that
\* do, when both users are as the guards found them.
LEMMA ReferralAdded ==
  ASSUME NEW old, NEW new, Proper(old), ReferralsPaid(old), Users(new) = Users(old),
         NEW u \in Users(old), NEW r \in Users(old), u # r,
         Len(old[r].referred) < ReferredLimit, old[u].referral = NoUser,
         ~ Contains(old[r].referred, u),
         new[r] = Refers(old[r], u), new[u] = ReferredBy(old[u], r),
         \A k \in Users(old) \ {u, r} : new[k] = old[k]
  PROVE  ReferralsPaid(new)
<1> DEFINE account(doc) == DefaultGolds + Len(doc.referred) * ReferredReward
                             + (IF doc.referral # NoUser THEN ReferralReward ELSE 0)
                             + (IF doc.followX THEN FollowXReward ELSE 0)
<1>1. NoUser \notin Ids /\ u \in Ids /\ r \in Ids
  BY StartUsersAssumption DEF Users
<1>2. /\ new[r].referral = old[r].referral /\ new[r].followX = old[r].followX
      /\ new[r].golds = old[r].golds + ReferredReward
      /\ new[r].referred = Append(old[r].referred, u)
  <2>1. old[r] \in UserDocuments
    BY UserOf
  <2> QED BY <1>1, <2>1, RefersFields
<1>3. /\ new[u].referral = r /\ new[u].followX = old[u].followX
      /\ new[u].golds = old[u].golds + ReferralReward
      /\ new[u].referred = old[u].referred
  <2>1. old[u] \in UserDocuments
    BY UserOf
  <2> QED BY <1>1, <2>1, ReferredByFields
<1>4. ASSUME NEW k \in Users(old)
      PROVE  /\ old[k].referral \in Users(old) \cup {NoUser}
             /\ ToSet(old[k].referred) \subseteq Users(old)
             /\ \A l \in Users(old) : old[k].referral = l <=> Contains(old[l].referred, k)
             /\ IsInjective(old[k].referred) /\ Len(old[k].referred) <= ReferredLimit
             /\ old[k].golds = account(old[k])
  BY DEF ReferralsPaid
<1>5. ASSUME NEW k \in Users(old)
      PROVE  old[k].referred \in Seq(Ids) /\ Len(old[k].referred) \in Nat
             /\ old[k].golds \in Nat
  <2>1. old[k].referred \in Seq(Ids) /\ old[k].golds \in Nat
    BY UserOf
  <2> QED BY <2>1
<1>6. /\ ToSet(new[r].referred) = ToSet(old[r].referred) \cup {u}
      /\ Len(new[r].referred) = Len(old[r].referred) + 1
      /\ IsInjective(new[r].referred) /\ new[r].referred \in Seq(Ids)
  <2>1. u \notin ToSet(old[r].referred)
    BY <1>5, ContainsIsElement
  <2> QED BY <1>1, <1>2, <1>4, <1>5, <2>1, Appended
<1>7. ASSUME NEW k \in Users(old)
      PROVE  Contains(new[r].referred, k) <=> Contains(old[r].referred, k) \/ k = u
  BY <1>5, <1>6, ContainsIsElement
<1>8. ASSUME NEW k \in Users(old), NEW l \in Users(old)
      PROVE  new[k].referral = l <=> Contains(new[l].referred, k)
  <2>1. new[k].referral = IF k = u THEN r ELSE old[k].referral
    BY <1>2, <1>3
  <2>2. l # r => new[l].referred = old[l].referred
    BY <1>3
  <2>3. old[k].referral = l <=> Contains(old[l].referred, k)
    BY <1>4
  <2>4. CASE l = r
    BY <1>7, <2>1, <2>3, <2>4
  <2>5. CASE l # r
    <3>1. k = u => ~ Contains(old[l].referred, k)
      BY <1>1, <2>3 DEF Users
    <3> QED BY <2>1, <2>2, <2>3, <2>5, <3>1
  <2> QED BY <2>4, <2>5
<1>9. ASSUME NEW k \in Users(old)
      PROVE  /\ new[k].referral \in Users(old) \cup {NoUser}
             /\ ToSet(new[k].referred) \subseteq Users(old)
             /\ IsInjective(new[k].referred) /\ Len(new[k].referred) <= ReferredLimit
  <2>1. CASE k = r
    <3>1. Len(old[r].referred) + 1 <= ReferredLimit
      BY <1>5, AccountsAssumption
    <3>2. old[r].referral \in Users(old) \cup {NoUser}
          /\ ToSet(old[r].referred) \subseteq Users(old)
      BY <1>4
    <3> QED BY <1>2, <1>6, <2>1, <3>1, <3>2
  <2>2. CASE k = u
    BY <1>3, <1>4, <2>2
  <2>3. CASE k \notin {u, r}
    BY <1>4, <2>3
  <2> QED BY <2>1, <2>2, <2>3
<1>10. ASSUME NEW k \in Users(old) PROVE new[k].golds = account(new[k])
  <2>1. CASE k = r
    <3> DEFINE n == Len(old[r].referred)
    <3>1. (n + 1) * ReferredReward = n * ReferredReward + ReferredReward
          /\ n * ReferredReward \in Nat
      BY <1>5, AccountsAssumption
    <3>2. old[r].golds = account(old[r])
      BY <1>4
    <3>3. new[r].golds = old[r].golds + ReferredReward
          /\ Len(new[r].referred) = n + 1
      BY <1>2, <1>6
    <3> DEFINE before == n * ReferredReward
    <3>4. old[r].golds = DefaultGolds + before
                           + (IF old[r].referral # NoUser THEN ReferralReward ELSE 0)
                           + (IF old[r].followX THEN FollowXReward ELSE 0)
      BY <3>2
    <3>5. account(new[r]) = DefaultGolds + (before + ReferredReward)
                              + (IF old[r].referral # NoUser THEN ReferralReward ELSE 0)
                              + (IF old[r].followX THEN FollowXReward ELSE 0)
      BY <1>2, <3>1, <3>3
    <3>6. before \in Nat
      BY <3>1
    <3> HIDE DEF before, account
    <3>7. new[r].golds = account(new[r])
      BY <3>3, <3>4, <3>5, <3>6, AccountsAssumption
    <3> QED BY <2>1, <3>7
  <2>2. CASE k = u
    <3> DEFINE before == DefaultGolds + Len(old[u].referred) * ReferredReward
               x == IF old[u].followX THEN FollowXReward ELSE 0
    <3>1. old[u].golds = before + 0 + x
      BY <1>4
    <3>2. account(new[u]) = before + ReferralReward + x
      BY <1>1, <1>3
    <3>3. before \in Nat /\ x \in Nat
      <4>1. Len(old[u].referred) * ReferredReward \in Nat
        BY <1>5, AccountsAssumption
      <4> QED BY <4>1, AccountsAssumption
    <3> HIDE DEF before, account, x
    <3>4. new[u].golds = account(new[u])
      BY <1>3, <3>1, <3>2, <3>3, AccountsAssumption
    <3> QED BY <2>2, <3>4
  <2>3. CASE k \notin {u, r}
    BY <1>4, <2>3
  <2> QED BY <2>1, <2>2, <2>3
<1> QED BY <1>8, <1>9, <1>10 DEF ReferralsPaid

LEMMA UpdateReferralStep ==
  ASSUME AccountsInv, NEW c \in Clients, UpdateReferral(c)
  PROVE  AccountsInv'
<1> DEFINE snapshot == txn[c].docs
<1>1. PICK u \in Users(snapshot), r \in Users(snapshot) :
        /\ Len(snapshot[r].referred) < ReferredLimit
        /\ u # r
        /\ snapshot[u].referral = NoUser
        /\ ~ Contains(snapshot[r].referred, u)
        /\ Commit(c, [snapshot EXCEPT ![r] = Refers(@, u), ![u] = ReferredBy(@, r)])
  BY DEF UpdateReferral
<1>2. /\ txn[c] # NoTxn /\ TypeOK /\ SnapshotsAgree /\ Proper(snapshot) /\ Proper(docs)
      /\ u \in Users(docs) /\ r \in Users(docs)
  BY SnapshotOf DEF UpdateReferral
<1>3. /\ snapshot[u] \in UserDocuments /\ snapshot[r] \in UserDocuments
      /\ u \in Ids /\ r \in Ids /\ u \in Keys /\ r \in Keys
      /\ u \in DOMAIN snapshot /\ r \in DOMAIN snapshot
  BY <1>2, UserOf DEF Keys
<1> DEFINE refers == Refers(snapshot[r], u)
           referred == ReferredBy(snapshot[u], r)
           half == [snapshot EXCEPT ![r] = refers]
           new == [half EXCEPT ![u] = referred]
<1>4. Commit(c, new)
  BY <1>1, <1>3
<1> HIDE DEF snapshot
<1>5. /\ refers \in UserDocuments /\ refers.wallet = snapshot[r].wallet
      /\ refers.golds = snapshot[r].golds + ReferredReward
      /\ refers.referred = Append(snapshot[r].referred, u)
      /\ refers.followees = snapshot[r].followees
  BY <1>3, RefersFields
<1>6. /\ referred \in UserDocuments /\ referred.wallet = snapshot[u].wallet
      /\ referred.referral = r /\ referred.followees = snapshot[u].followees
  BY <1>3, ReferredByFields
<1>7. refers # snapshot[r] /\ referred # snapshot[u]
  <2>1. Len(refers.referred) # Len(snapshot[r].referred)
    <3>1. snapshot[r].referred \in Seq(Ids)
      BY <1>2, UserOf
    <3> QED BY <1>3, <1>5, <3>1, Appended
  <2>2. r # NoUser
    BY <1>3, StartUsersAssumption
  <2> QED BY <1>1, <1>6, <2>1, <2>2
<1> HIDE DEF refers, referred
<1>8. /\ Proper(half) /\ Grows(snapshot, half)
      /\ half[r] = refers /\ \A k \in Keys \ {r} : half[k] = snapshot[k]
  BY <1>2, <1>3, <1>5, Updated DEF DocumentsOf
<1> HIDE DEF half
<1>9. half[u] = snapshot[u]
  BY <1>1, <1>3, <1>8
<1>10. /\ Proper(new) /\ Grows(half, new)
       /\ new[u] = referred /\ \A k \in Keys \ {u} : new[k] = half[k]
  BY <1>3, <1>6, <1>8, <1>9, Updated DEF DocumentsOf
<1> HIDE DEF new
<1>11. Grows(snapshot, new)
  BY <1>8, <1>10 DEF Grows
<1>12. /\ Lands(docs, snapshot, new, docs') /\ Proper(docs')
       /\ Grows(docs, docs') /\ TypeOK' /\ SnapshotsAgree'
  BY <1>2, <1>4, <1>10, <1>11, CommitLands DEF snapshot
<1>13. /\ docs[u] = snapshot[u] /\ docs'[u] = referred
       /\ docs[r] = snapshot[r] /\ docs'[r] = refers
       /\ \A k \in Keys \ {u, r} : docs'[k] = docs[k]
  BY <1>1, <1>3, <1>7, <1>8, <1>10, <1>12 DEF Lands
<1>14. Users(docs') = Users(docs)
  BY <1>3, <1>5, <1>6, <1>2, <1>13, StartUsersAssumption DEF Users, Keys
<1>15. \A k \in Users(docs) \ {u, r} : docs'[k] = docs[k]
  BY <1>13 DEF Users, Keys
<1>16. ReferralsPaid(docs')
  <2>1. docs'[r] = Refers(docs[r], u) /\ docs'[u] = ReferredBy(docs[u], r)
    BY <1>13 DEF refers, referred
  <2>2. /\ Len(docs[r].referred) < ReferredLimit /\ docs[u].referral = NoUser
        /\ ~ Contains(docs[r].referred, u) /\ ReferralsPaid(docs)
    BY <1>1, <1>13 DEF AccountsInv, ReferralsPaidOnce
  <2> QED BY <1>1, <1>2, <1>14, <1>15, <2>1, <2>2, ReferralAdded
<1>17. Neighbours(docs')
  <2>1. ASSUME NEW k \in Users(docs)
        PROVE  docs'[k].wallet = docs[k].wallet /\ docs'[k].followees = docs[k].followees
    BY <1>5, <1>6, <1>13, <1>15
  <2> QED BY <1>14, <2>1, NeighboursStay DEF AccountsInv, FolloweesSound
<1> QED BY <1>12, <1>16, <1>17 DEF AccountsInv, FolloweesSound, ReferralsPaidOnce

-----------------------------------------------------------------------------
(* The module.                                                             *)

LEMMA AccountsInit == Init => AccountsInv
<1> SUFFICES ASSUME Init PROVE AccountsInv
  OBVIOUS
<1>1. /\ docs = [key \in Keys |-> IF key \in Ids THEN StartUsers[key] ELSE Free]
      /\ messages = {} /\ txn = [c \in Clients |-> NoTxn]
  BY DEF Init, Keys
<1>2. DOMAIN docs = Ids \cup Tokens /\ \A u \in Ids : docs[u] = StartUsers[u]
  BY <1>1 DEF Keys
<1>3. WellTyped(docs)
  BY <1>1, StartUsersAssumption DEF WellTyped
<1>4. TypeOK /\ SnapshotsAgree
  BY <1>1, <1>2, <1>3 DEF TypeOK, SnapshotsAgree
<1>5. Users(docs) = Users(StartUsers) /\ \A u \in Users(docs) : docs[u] = StartUsers[u]
  BY <1>2 DEF Users
<1>6. ReferralsPaid(docs)
  BY <1>5, StartUsersAssumption DEF ReferralsPaid
<1>7. Neighbours(docs)
  BY <1>5, StartUsersAssumption DEF Neighbours, NetworkOf
<1> QED BY <1>4, <1>6, <1>7 DEF AccountsInv, ReferralsPaidOnce, FolloweesSound

LEMMA AccountsNext == AccountsInv /\ [Next]_vars => AccountsInv'
<1> SUFFICES ASSUME AccountsInv, [Next]_vars PROVE AccountsInv'
  OBVIOUS
<1>1. CASE RequestMessage \/ MessageExpires \/ UNCHANGED vars
  BY <1>1, OutsideStep
<1>2. ASSUME NEW c \in Clients, Begin(c) \/ End(c) PROVE AccountsInv'
  BY <1>2, BeginStep, OutsideStep
<1>3. ASSUME NEW c \in Clients, VerifySignature(c) \/ Refresh(c) \/ Logout(c)
      PROVE  AccountsInv'
  BY <1>3, VerifySignatureStep, SessionSteps
<1>4. ASSUME NEW c \in Clients,
             \/ Follow(c) \/ Unfollow(c) \/ UpdateReferral(c) \/ UpdateFollowX(c)
             \/ UpdateDisplayInformation(c)
      PROVE  AccountsInv'
  BY <1>4, FollowStep, UnfollowStep, UpdateReferralStep, UpdateFollowXStep,
     UpdateDisplayInformationStep
<1> QED BY <1>1, <1>2, <1>3, <1>4 DEF Next

\* Whatever is done from however many clients, users, sessions and snapshots are well
\* formed, and a snapshot differs from the documents only where others wrote.
THEOREM AccountsInvariant == Spec => []AccountsInv
BY AccountsInit, AccountsNext, PTL DEF Spec

\* Referrals are known to both users or to neither and paid once, with any limits and
\* any rewards.
THEOREM ReferralsArePaidOnce == Spec => []ReferralsPaidOnce
<1>1. AccountsInv => ReferralsPaidOnce
  BY DEF AccountsInv
<1> QED BY <1>1, AccountsInvariant, PTL

\* Lists of followees stay within their limit, without the user, a repetition or a user
\* of another network.
THEOREM FolloweesAreSound == Spec => []FolloweesSound
<1>1. AccountsInv => FolloweesSound
  BY DEF AccountsInv
<1> QED BY <1>1, AccountsInvariant, PTL
=============================================================================
