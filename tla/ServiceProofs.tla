---------------------------- MODULE ServiceProofs ---------------------------
(***************************************************************************)
(* Lemmas about what several modules are built from: the user document of  *)
(* Farmer, the jobs of CronJobs and the sums of the community modules.     *)
(***************************************************************************)
EXTENDS Farmer, CronJobs, Functions, FiniteSetTheorems, TLAPS

-----------------------------------------------------------------------------
(* Jobs.                                                                   *)

\* The jobs of a tick are a sequence of well-formed jobs.
LEMMA BatchesType ==
  ASSUME NEW count \in Nat, NEW time \in Nat
  PROVE  Batches(count, time) \in Seq(Jobs)
<1> DEFINE n == CeilDiv(count, BatchSize)
           item(i) == [time |-> time, skip |-> (i - 1) * BatchSize,
                       take |-> SmallerOf(i * BatchSize, count)]
<1>1. n \in Nat
  <2> DEFINE m == count + BatchSize - 1
  <2>1. m \in Nat
    BY BatchAssumption
  <2> HIDE DEF m
  <2>2. m \div BatchSize \in Nat
    BY BatchAssumption, <2>1
  <2> QED BY <2>2 DEF m, CeilDiv
<1> HIDE DEF n
<1>2. ASSUME NEW i \in 1 .. n PROVE item(i) \in Jobs
  <2>1. i \in Nat /\ i - 1 \in Nat
    BY <1>1
  <2>2. i * BatchSize \in Nat /\ (i - 1) * BatchSize \in Nat
    BY BatchAssumption, <2>1
  <2>3. SmallerOf(i * BatchSize, count) \in Nat
    BY <2>2 DEF SmallerOf
  <2> QED BY <2>2, <2>3 DEF Jobs
<1>3. Batches(count, time) = [i \in 1 .. n |-> item(i)]
  BY DEF Batches, n
<1> HIDE DEF item
<1>4. [i \in 1 .. n |-> item(i)] \in Seq(Jobs)
  BY <1>1, <1>2
<1> QED BY <1>3, <1>4

\* A page holds documents that are due.
LEMMA PageIsDue == \A due, createdAt, job : Page(due, createdAt, job) \subseteq due
BY DEF Page

-----------------------------------------------------------------------------
(* Energy and levels.  A record that EXCEPT changes in several fields is   *)
(* shown to belong to its set field by field.                              *)

LEMMA FarmersByField ==
  ASSUME NEW f, f = [x \in DOMAIN f |-> f[x]],
         DOMAIN f = {"energy", "energyFull", "level", "experiences"},
         f.energy \in Nat, f.energyFull \in BOOLEAN, f.level \in Nat \ {0},
         f.experiences \in Nat
  PROVE  f \in Farmers
BY DEF Farmers

\* LevelService keeps a user document well formed.
LEMMA AddExperiencesType ==
  ASSUME NEW f \in Farmers, NEW e \in Nat
  PROVE  AddExperiences(f, e) \in Farmers
<1> DEFINE quota == ExperiencesQuota(f.level)
<1>1. quota \in Int
  <2>1. f.level - 1 \in Int /\ 50 * f.level \in Int
    BY DEF Farmers
  <2>2. 25 * (f.level - 1) * (f.level - 1) \in Int
    BY <2>1
  <2> QED BY <2>1, <2>2 DEF ExperiencesQuota
<1> DEFINE up == [f EXCEPT !.experiences = @ + e - quota, !.level = @ + 1]
           same == [f EXCEPT !.experiences = @ + e]
<1>2. AddExperiences(f, e) = IF f.experiences + e >= quota THEN up ELSE same
  BY DEF AddExperiences
<1> HIDE DEF quota
<1>3. ASSUME f.experiences + e >= quota PROVE up \in Farmers
  <2>1. /\ up = [x \in DOMAIN up |-> up[x]]
        /\ DOMAIN up = {"energy", "energyFull", "level", "experiences"}
    BY DEF Farmers
  <2>2. /\ up.energy \in Nat /\ up.energyFull \in BOOLEAN
        /\ up.level \in Nat \ {0} /\ up.experiences \in Nat
    BY <1>1, <1>3 DEF Farmers
  <2> HIDE DEF up
  <2> QED BY <2>1, <2>2, FarmersByField
<1>4. same \in Farmers
  BY DEF Farmers
<1> QED BY <1>2, <1>3, <1>4

\* EnergyService, once the energy is known to suffice.
LEMMA SpendEnergyType ==
  ASSUME NEW f \in Farmers, NEW n \in Nat, CanSpend(f, n)
  PROVE  SpendEnergy(f, n) \in Farmers
<1> DEFINE g == SpendEnergy(f, n)
<1>1. /\ g = [x \in DOMAIN g |-> g[x]]
      /\ DOMAIN g = {"energy", "energyFull", "level", "experiences"}
  BY DEF Farmers, SpendEnergy
<1>2. /\ g.energy \in Nat /\ g.energyFull \in BOOLEAN
      /\ g.level \in Nat \ {0} /\ g.experiences \in Nat
  BY DEF Farmers, SpendEnergy, CanSpend
<1> HIDE DEF g
<1>3. g \in Farmers
  BY <1>1, <1>2, FarmersByField
<1> QED BY <1>3 DEF g

LEMMA WorkType ==
  ASSUME NEW f \in Farmers, NEW n \in Nat, NEW e \in Nat, CanSpend(f, n)
  PROVE  Work(f, n, e) \in Farmers
BY SpendEnergyType, AddExperiencesType DEF Work

\* A higher level has a higher maximum.
LEMMA MaxEnergyGrows ==
  ASSUME NEW l \in Nat \ {0}, NEW m \in Nat \ {0}, l <= m
  PROVE  /\ MaxEnergy(l) \in Nat
         /\ MaxEnergy(m) \in Nat
         /\ MaxEnergy(l) <= MaxEnergy(m)
BY DEF MaxEnergy

\* LevelService touches neither energy nor its flag, and a level is never lost.
LEMMA LevelsOnlyGrow ==
  ASSUME NEW f \in Farmers, NEW e \in Nat
  PROVE  /\ AddExperiences(f, e).energy = f.energy
         /\ AddExperiences(f, e).energyFull = f.energyFull
         /\ AddExperiences(f, e).level >= f.level
<1> DEFINE quota == ExperiencesQuota(f.level)
           up == [f EXCEPT !.experiences = @ + e - quota, !.level = @ + 1]
           same == [f EXCEPT !.experiences = @ + e]
<1>1. AddExperiences(f, e) = IF f.experiences + e >= quota THEN up ELSE same
  BY DEF AddExperiences
<1> HIDE DEF quota
<1>2. /\ up.energy = f.energy /\ up.energyFull = f.energyFull /\ up.level >= f.level
      /\ same.energy = f.energy /\ same.energyFull = f.energyFull /\ same.level >= f.level
  BY DEF Farmers
<1> HIDE DEF up, same
<1> QED BY <1>1, <1>2

-----------------------------------------------------------------------------
(* Sums.  The library states induction with an operator as parameter; the  *)
(* proofs below pick a smallest counterexample instead.                    *)

\* g gives every part of D the sum of f over it.
Additive(f, D, g) ==
  /\ g \in [SUBSET D -> Int]
  /\ g[{}] = 0
  /\ \A s \in SUBSET D : \A x \in s : g[s] = f[x] + g[s \ {x}]

\* Of a set of parts of a finite set, if it has any, one has no smaller one in it.
LEMMA SmallestPart ==
  ASSUME NEW D, IsFiniteSet(D), NEW Parts \in SUBSET SUBSET D, Parts # {}
  PROVE  \E s \in Parts : \A x \in s : s \ {x} \notin Parts
<1> DEFINE R == OpToRel(<, Nat)
           sizes == {n \in Nat : \E s \in Parts : Cardinality(s) = n}
<1>1. ASSUME NEW s \in Parts PROVE IsFiniteSet(s) /\ Cardinality(s) \in Nat
  BY FS_Subset, FS_CardinalityType
<1>2. sizes # {}
  BY <1>1
<1>3. \A i, j \in Nat : i < j => <<i, j>> \in R
  BY DEF OpToRel
<1>4. PICK n \in sizes : \A m \in sizes : ~ (<<m, n>> \in R)
  <2>1. sizes \subseteq Nat
    OBVIOUS
  <2> HIDE DEF sizes, R
  <2>2. IsWellFoundedOn(R, Nat)
    BY NatLessThanWellFounded DEF R
  <2> QED BY <1>2, <2>1, <2>2, WFMin
<1> HIDE DEF R
<1>5. PICK s \in Parts : Cardinality(s) = n
  BY <1>4
<1>6. ASSUME NEW x \in s, s \ {x} \in Parts PROVE FALSE
  <2>1. Cardinality(s \ {x}) = Cardinality(s) - 1
    BY <1>1, FS_RemoveElement
  <2>2. Cardinality(s \ {x}) \in sizes
    BY <1>1, <1>6
  <2>3. Cardinality(s \ {x}) \in Nat /\ n \in Nat /\ Cardinality(s \ {x}) < n
    BY <1>1, <1>5, <1>6, <2>1
  <2>4. <<Cardinality(s \ {x}), n>> \in R
    BY <1>3, <2>3
  <2> QED BY <1>4, <2>2, <2>4
<1> QED BY <1>6

LEMMA AdditiveExists ==
  ASSUME NEW D, IsFiniteSet(D), NEW f \in [D -> Int]
  PROVE  \E g : Additive(f, D, g)
<1> DEFINE bad == {s \in SUBSET D : ~ \E g : Additive(f, s, g)}
<1>1. SUFFICES ASSUME bad # {} PROVE FALSE
  OBVIOUS
<1>2. PICK s \in bad : \A x \in s : s \ {x} \notin bad
  <2>1. bad \in SUBSET SUBSET D
    OBVIOUS
  <2> HIDE DEF bad
  <2> QED BY <1>1, <2>1, SmallestPart
<1>3. CASE s = {}
  <2> DEFINE g == [u \in SUBSET {} |-> 0]
  <2>1. Additive(f, {}, g)
    BY DEF Additive
  <2> QED BY <1>2, <1>3, <2>1
<1>4. CASE s # {}
  <2>1. PICK x \in s : TRUE
    BY <1>4
  <2>2. PICK h : Additive(f, s \ {x}, h)
    BY <1>2, <2>1
  <2> DEFINE g == [u \in SUBSET s |-> IF x \in u THEN f[x] + h[u \ {x}] ELSE h[u]]
  <2>3. f[x] \in Int /\ \A u \in SUBSET (s \ {x}) : h[u] \in Int
    BY <2>1, <2>2, <1>2 DEF Additive
  <2>4. g \in [SUBSET s -> Int] /\ g[{}] = 0
    BY <2>2, <2>3 DEF Additive
  <2>5. ASSUME NEW u \in SUBSET s, NEW y \in u
        PROVE  g[u] = f[y] + g[u \ {y}]
    <3>1. CASE x \notin u
      <4>1. h[u] = f[y] + h[u \ {y}]
        BY <2>2, <3>1 DEF Additive
      <4> QED BY <3>1, <4>1
    <3>2. CASE x \in u /\ y = x
      <4>1. x \notin u \ {y}
        BY <3>2
      <4> QED BY <3>2, <4>1
    <3>3. CASE x \in u /\ y # x
      <4>1. h[u \ {x}] = f[y] + h[(u \ {x}) \ {y}]
        BY <2>2, <3>3 DEF Additive
      <4>2. (u \ {x}) \ {y} = (u \ {y}) \ {x}
        OBVIOUS
      <4>3. g[u] = f[x] + h[u \ {x}] /\ g[u \ {y}] = f[x] + h[(u \ {y}) \ {x}]
        BY <3>3
      <4>4. f[y] \in Int /\ h[(u \ {y}) \ {x}] \in Int
        BY <1>2, <2>3
      <4>5. f[x] \in Int
        BY <2>3
      <4> HIDE DEF g
      <4>6. \A a, b, c \in Int : a + (b + c) = b + (a + c)
        OBVIOUS
      <4>7. g[u] = f[x] + (f[y] + h[(u \ {y}) \ {x}])
        BY <4>1, <4>2, <4>3
      <4> QED BY <4>3, <4>4, <4>5, <4>6, <4>7
    <3> QED BY <3>1, <3>2, <3>3
  <2>6. Additive(f, s, g)
    BY <2>4, <2>5 DEF Additive
  <2> QED BY <1>2, <2>6
<1> QED BY <1>3, <1>4

\* The fold of the community modules is the sum.
LEMMA SumIsAdditive ==
  ASSUME NEW D, IsFiniteSet(D), NEW f, NEW g, Additive(f, D, g)
  PROVE  SumFunctionOnSet(f, D) = g[D]
<1> DEFINE first(s) == CHOOSE x \in s : TRUE
           Sums(k) == k = [s \in SUBSET D |-> IF s = {} THEN 0 ELSE f[first(s)] + k[s \ {first(s)}]]
           iter == CHOOSE k : Sums(k)
<1>1. SumFunctionOnSet(f, D) = iter[D]
  BY DEF SumFunctionOnSet, FoldFunctionOnSet, MapThenFoldSet
<1>2. Sums(g)
  BY DEF Additive
<1>3. Sums(iter)
  BY <1>2
<1>4. ASSUME NEW s \in SUBSET D
      PROVE  iter[s] = IF s = {} THEN 0 ELSE f[first(s)] + iter[s \ {first(s)}]
  BY <1>3
<1> HIDE DEF iter
<1> DEFINE bad == {s \in SUBSET D : iter[s] # g[s]}
<1>5. SUFFICES ASSUME bad # {} PROVE FALSE
  BY <1>1
<1>6. PICK s \in bad : \A x \in s : s \ {x} \notin bad
  <2>1. bad \in SUBSET SUBSET D
    OBVIOUS
  <2> HIDE DEF bad
  <2> QED BY <1>5, <2>1, SmallestPart
<1>7. s # {}
  BY <1>4, <1>6 DEF Additive
<1>8. g[s] = f[first(s)] + g[s \ {first(s)}]
  BY <1>6, <1>7 DEF Additive
<1>9. iter[s \ {first(s)}] = g[s \ {first(s)}]
  BY <1>6, <1>7
<1> QED BY <1>4, <1>6, <1>7, <1>8, <1>9

LEMMA SumOfParts ==
  ASSUME NEW D, IsFiniteSet(D), NEW f \in [D -> Int]
  PROVE  \E g : Additive(f, D, g) /\ \A s \in SUBSET D : SumFunctionOnSet(f, s) = g[s]
<1>1. PICK g : Additive(f, D, g)
  BY AdditiveExists
<1>2. ASSUME NEW s \in SUBSET D PROVE SumFunctionOnSet(f, s) = g[s]
  <2> DEFINE h == [u \in SUBSET s |-> g[u]]
  <2>1. Additive(f, s, h)
    BY <1>1 DEF Additive
  <2>2. h[s] = g[s]
    OBVIOUS
  <2> HIDE DEF h
  <2> QED BY <2>1, <2>2, FS_Subset, SumIsAdditive
<1> QED BY <1>1, <1>2

\* A sum over a finite set, one element at a time.
LEMMA SumStep ==
  ASSUME NEW D, IsFiniteSet(D), NEW f \in [D -> Int]
  PROVE  /\ SumFunctionOnSet(f, {}) = 0
         /\ \A s \in SUBSET D : SumFunctionOnSet(f, s) \in Int
         /\ \A s \in SUBSET D : \A x \in s :
              SumFunctionOnSet(f, s) = f[x] + SumFunctionOnSet(f, s \ {x})
<1>1. PICK g : Additive(f, D, g) /\ \A s \in SUBSET D : SumFunctionOnSet(f, s) = g[s]
  BY SumOfParts
<1> QED BY <1>1 DEF Additive

\* It depends on the values of what is added only.
LEMMA SumSame ==
  ASSUME NEW D, IsFiniteSet(D), NEW f \in [D -> Int], NEW h \in [D -> Int],
         NEW s \in SUBSET D, \A x \in s : f[x] = h[x]
  PROVE  SumFunctionOnSet(f, s) = SumFunctionOnSet(h, s)
<1>1. IsFiniteSet(s)
  BY FS_Subset
<1>2. PICK g : Additive(f, D, g)
  BY AdditiveExists
<1> DEFINE k == [u \in SUBSET s |-> g[u]]
<1>3. Additive(f, s, k) /\ Additive(h, s, k)
  BY <1>2 DEF Additive
<1> HIDE DEF k
<1> QED BY <1>1, <1>3, SumIsAdditive

\* What is added at one place is added to the sum.
LEMMA SumUpdate ==
  ASSUME NEW D, IsFiniteSet(D), NEW f \in [D -> Int], NEW h \in [D -> Int],
         NEW d \in D, \A x \in D \ {d} : f[x] = h[x]
  PROVE  SumFunction(h) = SumFunction(f) + h[d] - f[d]
<1>1. SumFunctionOnSet(f, D) = f[d] + SumFunctionOnSet(f, D \ {d})
  BY SumStep
<1>2. SumFunctionOnSet(h, D) = h[d] + SumFunctionOnSet(h, D \ {d})
  BY SumStep
<1>3. SumFunctionOnSet(f, D \ {d}) = SumFunctionOnSet(h, D \ {d})
  BY SumSame
<1>4. /\ SumFunctionOnSet(f, D \ {d}) \in Int /\ SumFunctionOnSet(h, D \ {d}) \in Int
      /\ f[d] \in Int /\ h[d] \in Int
  BY SumStep
<1>5. DOMAIN f = D /\ DOMAIN h = D
  OBVIOUS
<1> QED BY <1>1, <1>2, <1>3, <1>4, <1>5 DEF SumFunction

LEMMA SumType ==
  ASSUME NEW D, IsFiniteSet(D), NEW f \in [D -> Int]
  PROVE  SumFunction(f) \in Int
BY SumStep DEF SumFunction

\* A sum of nothing but zeros.
LEMMA SumZero ==
  ASSUME NEW D, IsFiniteSet(D), NEW f \in [D -> Int], \A x \in D : f[x] = 0
  PROVE  SumFunction(f) = 0
<1> DEFINE g == [s \in SUBSET D |-> 0]
<1>1. Additive(f, D, g)
  BY DEF Additive
<1>2. g[D] = 0 /\ DOMAIN f = D
  OBVIOUS
<1> HIDE DEF g
<1> QED BY <1>1, <1>2, SumIsAdditive DEF SumFunction

\* A new place adds what stands there.
LEMMA SumAdded ==
  ASSUME NEW D, IsFiniteSet(D), NEW d, d \notin D, NEW f \in [D -> Int],
         NEW h \in [D \cup {d} -> Int], \A x \in D : h[x] = f[x]
  PROVE  SumFunction(h) = SumFunction(f) + h[d]
<1> DEFINE E == D \cup {d}
<1>1. IsFiniteSet(E)
  BY FS_AddElement
<1>2. DOMAIN f = D /\ DOMAIN h = E /\ E \ {d} = D /\ d \in E /\ D \subseteq E
  OBVIOUS
<1>3. PICK g : Additive(h, E, g)
  BY <1>1, AdditiveExists
<1> HIDE DEF E
<1> DEFINE k == [s \in SUBSET D |-> g[s]]
<1>4. Additive(f, D, k)
  BY <1>2, <1>3 DEF Additive
<1>5. g[E] = h[d] + g[D] /\ k[D] = g[D] /\ g[D] \in Int /\ h[d] \in Int
  BY <1>2, <1>3 DEF Additive
<1> HIDE DEF k
<1>6. SumFunctionOnSet(f, D) = g[D]
  BY <1>4, <1>5, SumIsAdditive
<1>7. SumFunctionOnSet(h, E) = g[E]
  BY <1>1, <1>3, SumIsAdditive
<1> QED BY <1>2, <1>5, <1>6, <1>7 DEF SumFunction

\* More and larger values have a larger sum.
LEMMA SumGrows ==
  ASSUME NEW D, NEW E, IsFiniteSet(E), D \subseteq E, NEW f \in [D -> Nat],
         NEW h \in [E -> Nat], \A x \in D : f[x] <= h[x]
  PROVE  SumFunction(f) <= SumFunction(h)
<1>1. IsFiniteSet(D)
  BY FS_Subset
<1>2. f \in [D -> Int] /\ h \in [E -> Int] /\ DOMAIN f = D /\ DOMAIN h = E
  OBVIOUS
<1>3. PICK F : Additive(f, D, F)
  BY <1>1, <1>2, AdditiveExists
<1>4. PICK H : Additive(h, E, H)
  BY <1>2, AdditiveExists
<1> DEFINE bad == {s \in SUBSET E : ~ (F[s \cap D] <= H[s])}
<1>5. bad = {}
  <2> SUFFICES ASSUME bad # {} PROVE FALSE
    OBVIOUS
  <2>1. PICK s \in bad : \A x \in s : s \ {x} \notin bad
    <3>1. bad \in SUBSET SUBSET E
      OBVIOUS
    <3> HIDE DEF bad
    <3> QED BY <3>1, SmallestPart
  <2>2. s \in SUBSET E /\ ~ (F[s \cap D] <= H[s])
    OBVIOUS
  <2>3. s # {}
    <3>1. F[{}] = 0 /\ H[{}] = 0
      BY <1>3, <1>4 DEF Additive
    <3> SUFFICES ASSUME s = {} PROVE FALSE
      OBVIOUS
    <3>2. s \cap D = {}
      OBVIOUS
    <3>3. F[s \cap D] = 0 /\ H[s] = 0
      BY <3>1, <3>2
    <3> HIDE DEF bad
    <3> QED BY <2>2, <3>3
  <2>4. PICK x \in s : TRUE
    BY <2>3
  <2> DEFINE t == s \ {x}
  <2>5. t \in SUBSET E /\ F[t \cap D] <= H[t]
    BY <2>1, <2>2
  <2>6. H[s] = h[x] + H[t] /\ H[t] \in Int /\ h[x] \in Nat
    BY <1>4, <2>2, <2>4, <2>5 DEF Additive
  <2>7. CASE x \in D
    <3>1. F[s \cap D] = f[x] + F[(s \cap D) \ {x}]
      BY <1>3, <2>4, <2>7 DEF Additive
    <3>2. F[s \cap D] = f[x] + F[t \cap D]
      <4>1. (s \cap D) \ {x} = t \cap D
        OBVIOUS
      <4> QED BY <3>1, <4>1
    <3>3. F[t \cap D] \in Int
      BY <1>3 DEF Additive
    <3>4. f[x] <= h[x] /\ f[x] \in Nat
      BY <2>7
    <3> DEFINE a == F[t \cap D]
               b == H[t]
    <3>5. a \in Int /\ b \in Int /\ a <= b
      BY <2>5, <2>6, <3>3
    <3>6. F[s \cap D] = f[x] + a /\ H[s] = h[x] + b
      BY <2>6, <3>2
    <3> HIDE DEF a, b, t, bad
    <3> QED BY <2>2, <2>6, <3>4, <3>5, <3>6
  <2>8. CASE x \notin D
    <3>1. s \cap D = t \cap D
      BY <2>8
    <3>2. F[t \cap D] \in Int
      BY <1>3 DEF Additive
    <3> DEFINE a == F[t \cap D]
               b == H[t]
    <3>3. a \in Int /\ b \in Int /\ a <= b
      BY <2>5, <2>6, <3>2
    <3>4. F[s \cap D] = a /\ H[s] = h[x] + b
      BY <2>6, <3>1
    <3> HIDE DEF a, b, t, bad
    <3> QED BY <2>2, <2>6, <3>3, <3>4
  <2> QED BY <2>7, <2>8
<1>6. F[E \cap D] <= H[E] /\ E \cap D = D
  BY <1>5
<1>7. SumFunctionOnSet(f, D) = F[D] /\ SumFunctionOnSet(h, E) = H[E]
  BY <1>1, <1>3, <1>4, SumIsAdditive
<1> QED BY <1>2, <1>6, <1>7 DEF SumFunction

\* A sum of natural numbers is one.
LEMMA SumOfNats ==
  ASSUME NEW D, IsFiniteSet(D), NEW f \in [D -> Nat]
  PROVE  \A s \in SUBSET D : SumFunctionOnSet(f, s) \in Nat
<1> DEFINE bad == {s \in SUBSET D : SumFunctionOnSet(f, s) \notin Nat}
<1>1. SUFFICES ASSUME bad # {} PROVE FALSE
  OBVIOUS
<1>2. f \in [D -> Int]
  OBVIOUS
<1>3. PICK s \in bad : \A x \in s : s \ {x} \notin bad
  <2>1. bad \in SUBSET SUBSET D
    OBVIOUS
  <2> HIDE DEF bad
  <2> QED BY <1>1, <2>1, SmallestPart
<1>4. PICK x \in s : TRUE
  BY <1>2, <1>3, SumStep
<1>5. SumFunctionOnSet(f, s) = f[x] + SumFunctionOnSet(f, s \ {x})
  BY <1>2, <1>3, <1>4, SumStep
<1>6. SumFunctionOnSet(f, s \ {x}) \in Nat /\ f[x] \in Nat
  BY <1>3, <1>4
<1> QED BY <1>3, <1>5, <1>6
=============================================================================
