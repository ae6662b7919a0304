-------------------------- MODULE PlantFarmProofs ---------------------------
(* Theorems about PlantFarm, for every value of its constants.             *)
EXTENDS PlantFarm, ServiceProofs, FiniteSetTheorems, TLAPS

-----------------------------------------------------------------------------
(* Types of the operators.  A record that EXCEPT changes in several fields *)
(* is shown to belong to its set field by field.                           *)

LEMMA PlantInfosByField ==
  ASSUME NEW p, p = [x \in DOMAIN p |-> p[x]],
         DOMAIN p = {"kind", "stage", "elapsed", "state", "fertilized", "quality",
                     "thieves", "harvests", "desired", "min", "left"},
         p.kind \in Kinds \union {NoKind}, p.stage \in 0 .. GrowthStages - 1,
         p.elapsed \in Nat, p.state \in PlantStates,
         p.fertilized \in BOOLEAN, p.quality \in BOOLEAN,
         p.thieves \in SUBSET Users, p.harvests \in Nat,
         p.desired \in Nat, p.min \in Nat, p.left \in Int
  PROVE  p \in PlantInfos
BY DEF PlantInfos

\* The quantities a kind ripens to are natural numbers, the protected part of
\* them first, with the sick yield in between.
LEMMA Yields ==
  ASSUME NEW k \in Kinds
  PROVE  /\ HarvestQuantity[k] \in Nat
         /\ MinYield(k) \in Nat
         /\ MinYield(k) <= HarvestQuantity[k]
<1> DEFINE q == HarvestQuantity[k]
           m == MinThievablePercent
<1>1. q \in Nat /\ m \in 0 .. 100
  BY GrowthAssumption
<1>2. q * m \in Nat
  BY <1>1
<1>3. q * m <= q * 100
  BY <1>1
<1>4. MinYield(k) = (q * m) \div 100
  BY DEF MinYield
<1> DEFINE qm == q * m
<1>5. qm \in Nat /\ qm <= q * 100 /\ MinYield(k) = qm \div 100
  BY <1>2, <1>3, <1>4
<1> HIDE DEF qm, q
<1> QED BY <1>1, <1>5 DEF q

\* What Grow leaves alone, and the shape it preserves: a plant is FullyMatured
\* exactly in its last stage, and carries items exactly then.
NotOverdrawn(p) ==
  \/ p.left >= p.min
  \/ \E q \in 1 .. p.desired - p.min : p.left >= p.min - Overdraw(q)

Shape(p) ==
  /\ p.state = FullyMatured <=> p.stage = GrowthStages - 1
  /\ p.state # FullyMatured => p.left = 0
  /\ p.state = FullyMatured => p.left <= p.desired /\ NotOverdrawn(p)

LEMMA RipenLemma ==
  ASSUME NEW p \in PlantInfos, p.kind \in Kinds, NEW roll \in Rolls,
         p.stage = GrowthStages - 1
  PROVE  /\ Ripen(p, roll) \in PlantInfos
         /\ Ripen(p, roll).kind = p.kind
         /\ Ripen(p, roll).thieves = p.thieves
         /\ Ripen(p, roll).harvests = p.harvests
         /\ Shape(Ripen(p, roll))
<1> DEFINE r == Ripen(p, roll)
<1>1. /\ r = [x \in DOMAIN r |-> r[x]]
      /\ DOMAIN r = {"kind", "stage", "elapsed", "state", "fertilized", "quality",
                     "thieves", "harvests", "desired", "min", "left"}
  BY DEF Ripen, PlantInfos
<1>2. /\ r.kind = p.kind /\ r.stage = p.stage /\ r.elapsed = 0
      /\ r.state = FullyMatured /\ r.fertilized = p.fertilized
      /\ r.thieves = p.thieves /\ r.harvests = p.harvests
      /\ r.desired = HarvestQuantity[p.kind] /\ r.min = MinYield(p.kind)
      /\ r.left = RipeYield(p)
  BY DEF Ripen, PlantInfos
<1>3. r.quality = (p.quality \/ roll.quality)
  BY DEF Ripen, PlantInfos
<1>4. /\ RipeYield(p) \in Nat
      /\ MinYield(p.kind) <= RipeYield(p)
      /\ RipeYield(p) <= HarvestQuantity[p.kind]
  BY Yields DEF RipeYield
<1> HIDE DEF r
<1>5. r.quality \in BOOLEAN
  BY <1>3
<1>6. r \in PlantInfos
  BY <1>1, <1>2, <1>4, <1>5, Yields, PlantInfosByField DEF PlantInfos, PlantStates
<1>7. Shape(r)
  BY <1>2, <1>4 DEF Shape, NotOverdrawn
<1> QED BY <1>2, <1>4, <1>6, <1>7 DEF r

LEMMA EnterStageLemma ==
  ASSUME NEW p \in PlantInfos, p.kind \in Kinds, NEW roll \in Rolls
  PROVE  /\ EnterStage(p, roll) \in PlantInfos
         /\ EnterStage(p, roll).kind = p.kind
         /\ EnterStage(p, roll).thieves = p.thieves
         /\ EnterStage(p, roll).harvests = p.harvests
         /\ p.state # FullyMatured /\ p.left = 0 => Shape(EnterStage(p, roll))
<1> USE GrowthAssumption
<1> DEFINE dry == [p EXCEPT !.state = IF roll.thirst THEN NeedWater ELSE @, !.elapsed = 0]
           sick == [p EXCEPT !.state = IF roll.pest # Normal THEN roll.pest ELSE @]
<1>1. CASE p.stage <= GrowthStages - 3
  <2>1. EnterStage(p, roll) = dry
    BY <1>1 DEF EnterStage
  <2>2. /\ dry = [x \in DOMAIN dry |-> dry[x]]
        /\ DOMAIN dry = {"kind", "stage", "elapsed", "state", "fertilized", "quality",
                         "thieves", "harvests", "desired", "min", "left"}
    BY DEF PlantInfos
  <2>3. /\ dry.kind = p.kind /\ dry.stage = p.stage /\ dry.elapsed = 0
        /\ dry.state \in {NeedWater, p.state} /\ dry.fertilized = p.fertilized
        /\ dry.quality = p.quality /\ dry.thieves = p.thieves
        /\ dry.harvests = p.harvests /\ dry.desired = p.desired
        /\ dry.min = p.min /\ dry.left = p.left
    BY DEF PlantInfos
  <2> HIDE DEF dry
  <2>4. /\ dry.state \in PlantStates
        /\ p.state # FullyMatured => dry.state # FullyMatured
    BY <2>3 DEF PlantInfos, PlantStates, NeedWater, FullyMatured
  <2>5. dry \in PlantInfos
    BY <2>2, <2>3, <2>4, PlantInfosByField DEF PlantInfos
  <2>6. p.state # FullyMatured /\ p.left = 0 => Shape(dry)
    BY <1>1, <2>3, <2>4 DEF Shape, PlantInfos
  <2> QED BY <2>1, <2>3, <2>5, <2>6
<1>2. CASE p.stage = GrowthStages - 2
  <2>1. EnterStage(p, roll) = sick
    BY <1>2 DEF EnterStage
  <2>2. sick \in PlantInfos
    BY DEF PlantInfos, PlantStates, Rolls
  <2>3. /\ sick.kind = p.kind /\ sick.stage = p.stage /\ sick.thieves = p.thieves
        /\ sick.harvests = p.harvests /\ sick.left = p.left
    BY DEF PlantInfos
  <2>4. p.state # FullyMatured => sick.state # FullyMatured
    BY DEF PlantInfos, Rolls, Normal, IsWeedy, IsInfested, FullyMatured
  <2> HIDE DEF sick
  <2>5. p.state # FullyMatured /\ p.left = 0 => Shape(sick)
    BY <1>2, <2>3, <2>4 DEF Shape, PlantInfos
  <2> QED BY <2>1, <2>2, <2>3, <2>5
<1>3. CASE ~(p.stage <= GrowthStages - 3) /\ p.stage # GrowthStages - 2
  <2>1. EnterStage(p, roll) = Ripen(p, roll)
    BY <1>3 DEF EnterStage
  <2>2. p.stage = GrowthStages - 1
    BY <1>3 DEF PlantInfos
  <2> QED BY <2>1, <2>2, RipenLemma
<1> QED BY <1>1, <1>2, <1>3

LEMMA GrowLemma ==
  ASSUME NEW p \in PlantInfos, p.kind \in Kinds, NEW time \in Nat, NEW roll \in Rolls
  PROVE  /\ Grow(p, time, roll) \in PlantInfos
         /\ Grow(p, time, roll).kind = p.kind
         /\ Grow(p, time, roll).thieves = p.thieves
         /\ Grow(p, time, roll).harvests = p.harvests
         /\ Shape(p) => Shape(Grow(p, time, roll))
<1> USE GrowthAssumption
<1> DEFINE duration == GrowthStageDuration[p.kind]
<1>1. duration \in Nat
  OBVIOUS
<1>2. CASE p.stage >= GrowthStages - 1
  BY <1>2 DEF Grow
<1>3. CASE ~(p.stage >= GrowthStages - 1) /\ p.elapsed + time < duration
  <2> DEFINE older == [p EXCEPT !.elapsed = @ + time]
  <2>1. Grow(p, time, roll) = older
    BY <1>3 DEF Grow
  <2>2. older \in PlantInfos
    BY DEF PlantInfos
  <2>3. /\ older.kind = p.kind /\ older.stage = p.stage /\ older.state = p.state
        /\ older.thieves = p.thieves /\ older.harvests = p.harvests
        /\ older.left = p.left /\ older.desired = p.desired /\ older.min = p.min
    BY DEF PlantInfos
  <2> HIDE DEF older
  <2>4. Shape(p) => Shape(older)
    BY <2>3 DEF Shape, NotOverdrawn
  <2> QED BY <2>1, <2>2, <2>3, <2>4
<1>4. CASE ~(p.stage >= GrowthStages - 1) /\ ~(p.elapsed + time < duration)
  <2> DEFINE next == [p EXCEPT !.elapsed = @ + time - duration, !.stage = @ + 1,
                               !.fertilized = FALSE]
  <2>1. Grow(p, time, roll) = EnterStage(next, roll)
    BY <1>4 DEF Grow
  <2>2. /\ next = [x \in DOMAIN next |-> next[x]]
        /\ DOMAIN next = {"kind", "stage", "elapsed", "state", "fertilized", "quality",
                          "thieves", "harvests", "desired", "min", "left"}
    BY DEF PlantInfos
  <2>3. /\ next.kind = p.kind /\ next.stage = p.stage + 1
        /\ next.elapsed = p.elapsed + time - duration
        /\ next.state = p.state /\ next.fertilized = FALSE
        /\ next.quality = p.quality /\ next.thieves = p.thieves
        /\ next.harvests = p.harvests /\ next.desired = p.desired
        /\ next.min = p.min /\ next.left = p.left
    BY DEF PlantInfos
  <2> HIDE DEF next
  <2>4. next.stage \in 0 .. GrowthStages - 1 /\ next.elapsed \in Nat
    BY <1>1, <1>4, <2>3 DEF PlantInfos
  <2>5. next \in PlantInfos
    BY <2>2, <2>3, <2>4, PlantInfosByField DEF PlantInfos
  <2>6. Shape(p) => next.state # FullyMatured /\ next.left = 0
    BY <1>4, <2>3 DEF Shape, PlantInfos
  <2> QED BY <2>1, <2>3, <2>5, <2>6, EnterStageLemma
<1> QED BY <1>2, <1>3, <1>4

\* Writing modified paths of one well-formed plantInfo over another.
LEMMA SavedLemma ==
  ASSUME NEW db \in PlantInfos, NEW mem \in PlantInfos,
         NEW modified \in SUBSET WorkerPaths
  PROVE  /\ Saved(db, mem, modified) \in PlantInfos
         /\ Saved(db, mem, modified).kind = db.kind
         /\ Saved(db, mem, modified).thieves = db.thieves
         /\ Saved(db, mem, modified).stage = IF "stage" \in modified THEN mem.stage ELSE db.stage
         /\ Saved(db, mem, modified).state = IF "state" \in modified THEN mem.state ELSE db.state
         /\ Saved(db, mem, modified).desired =
              IF "desired" \in modified THEN mem.desired ELSE db.desired
         /\ Saved(db, mem, modified).min = IF "min" \in modified THEN mem.min ELSE db.min
         /\ Saved(db, mem, modified).left = IF "left" \in modified THEN mem.left ELSE db.left
<1> DEFINE q == Saved(db, mem, modified)
<1>1. /\ q = [x \in DOMAIN q |-> q[x]]
      /\ DOMAIN q = {"kind", "stage", "elapsed", "state", "fertilized", "quality",
                     "thieves", "harvests", "desired", "min", "left"}
  BY DEF Saved, PlantInfos
<1>2. /\ q.kind = db.kind /\ q.thieves = db.thieves /\ q.harvests = db.harvests
      /\ q.stage = IF "stage" \in modified THEN mem.stage ELSE db.stage
      /\ q.elapsed = IF "elapsed" \in modified THEN mem.elapsed ELSE db.elapsed
  BY DEF Saved, PlantInfos, WorkerPaths
<1>3. /\ q.state = IF "state" \in modified THEN mem.state ELSE db.state
      /\ q.fertilized = IF "fertilized" \in modified THEN mem.fertilized ELSE db.fertilized
      /\ q.quality = IF "quality" \in modified THEN mem.quality ELSE db.quality
  BY DEF Saved, PlantInfos
<1>4. /\ q.desired = IF "desired" \in modified THEN mem.desired ELSE db.desired
      /\ q.min = IF "min" \in modified THEN mem.min ELSE db.min
      /\ q.left = IF "left" \in modified THEN mem.left ELSE db.left
  BY DEF Saved, PlantInfos
<1> HIDE DEF q
<1>5. q.stage \in 0 .. GrowthStages - 1 /\ q.elapsed \in Nat /\ q.state \in PlantStates
  BY <1>2, <1>3 DEF PlantInfos
<1>6. q.fertilized \in BOOLEAN /\ q.quality \in BOOLEAN
  BY <1>3 DEF PlantInfos
<1>7. q.desired \in Nat /\ q.min \in Nat /\ q.left \in Int
  BY <1>4 DEF PlantInfos
<1>8. q.kind \in Kinds \union {NoKind} /\ q.thieves \in SUBSET Users /\ q.harvests \in Nat
  BY <1>2 DEF PlantInfos
<1>9. q \in PlantInfos
  BY <1>1, <1>5, <1>6, <1>7, <1>8, PlantInfosByField
<1> QED BY <1>2, <1>3, <1>4, <1>9 DEF q

\* What the services of the player handlers do to a plantInfo.
LEMMA TendedLemma ==
  ASSUME NEW p \in PlantInfos
  PROVE  /\ Tended(p) \in PlantInfos
         /\ Tended(p).kind = p.kind /\ Tended(p).stage = p.stage
         /\ Tended(p).thieves = p.thieves /\ Tended(p).state = Normal
         /\ Tended(p).desired = p.desired /\ Tended(p).min = p.min /\ Tended(p).left = p.left
BY DEF Tended, PlantInfos, PlantStates

LEMMA FertilizedLemma ==
  ASSUME NEW p \in PlantInfos
  PROVE  /\ Fertilized(p) \in PlantInfos
         /\ Fertilized(p).kind = p.kind /\ Fertilized(p).stage = p.stage
         /\ Fertilized(p).thieves = p.thieves /\ Fertilized(p).state = p.state
         /\ Fertilized(p).desired = p.desired /\ Fertilized(p).min = p.min
         /\ Fertilized(p).left = p.left
<1> DEFINE q == Fertilized(p)
<1>1. /\ q = [x \in DOMAIN q |-> q[x]]
      /\ DOMAIN q = {"kind", "stage", "elapsed", "state", "fertilized", "quality",
                     "thieves", "harvests", "desired", "min", "left"}
  BY DEF Fertilized, PlantInfos
<1>2. /\ q.kind = p.kind /\ q.stage = p.stage /\ q.elapsed = p.elapsed + FertilizerTimeReduce
      /\ q.state = p.state /\ q.fertilized = TRUE /\ q.quality = p.quality
      /\ q.thieves = p.thieves /\ q.harvests = p.harvests /\ q.desired = p.desired
      /\ q.min = p.min /\ q.left = p.left
  BY DEF Fertilized, PlantInfos
<1> HIDE DEF q
<1>3. q.elapsed \in Nat
  BY <1>2, GrowthAssumption DEF PlantInfos
<1>4. q \in PlantInfos
  BY <1>1, <1>2, <1>3, PlantInfosByField DEF PlantInfos
<1> QED BY <1>2, <1>4 DEF q

LEMMA RegrownLemma ==
  ASSUME NEW p \in PlantInfos
  PROVE  /\ Regrown(p) \in PlantInfos
         /\ Regrown(p).kind = p.kind /\ Regrown(p).thieves = p.thieves
         /\ Regrown(p).left = 0 /\ Shape(Regrown(p))
<1> DEFINE q == Regrown(p)
<1>1. /\ q = [x \in DOMAIN q |-> q[x]]
      /\ DOMAIN q = {"kind", "stage", "elapsed", "state", "fertilized", "quality",
                     "thieves", "harvests", "desired", "min", "left"}
  BY DEF Regrown, PlantInfos
<1>2. /\ q.kind = p.kind /\ q.stage = NextGrowthStageAfterHarvest - 1 /\ q.elapsed = 0
      /\ q.state = NeedWater /\ q.fertilized = p.fertilized
      /\ q.thieves = p.thieves /\ q.harvests = p.harvests + 1 /\ q.desired = p.desired
      /\ q.min = p.min /\ q.left = 0
  BY DEF Regrown, PlantInfos
<1>3. q.quality \in BOOLEAN
  BY DEF Regrown, PlantInfos
<1> HIDE DEF q
<1>4. q.stage \in 0 .. GrowthStages - 1 /\ q.stage # GrowthStages - 1
  BY <1>2, GrowthAssumption
<1>5. q \in PlantInfos
  <2>1. q.state \in PlantStates
    BY <1>2 DEF PlantStates
  <2>2. /\ q.kind \in Kinds \union {NoKind} /\ q.elapsed \in Nat /\ q.fertilized \in BOOLEAN
        /\ q.thieves \in SUBSET Users /\ q.harvests \in Nat
        /\ q.desired \in Nat /\ q.min \in Nat /\ q.left \in Int
    BY <1>2 DEF PlantInfos
  <2> QED BY <1>1, <1>3, <1>4, <2>1, <2>2, PlantInfosByField
<1>6. Shape(q)
  BY <1>2, <1>4 DEF Shape, NeedWater, FullyMatured
<1> QED BY <1>2, <1>5, <1>6 DEF q

LEMMA StolenLemma ==
  ASSUME NEW p \in PlantInfos, NEW u \in Users, NEW quantity \in Int
  PROVE  /\ Stolen(p, u, quantity) \in PlantInfos
         /\ Stolen(p, u, quantity).kind = p.kind
         /\ Stolen(p, u, quantity).stage = p.stage
         /\ Stolen(p, u, quantity).state = p.state
         /\ Stolen(p, u, quantity).thieves = p.thieves \union {u}
         /\ Stolen(p, u, quantity).desired = p.desired
         /\ Stolen(p, u, quantity).min = p.min
         /\ Stolen(p, u, quantity).left = p.left - quantity
<1> DEFINE q == Stolen(p, u, quantity)
<1>1. /\ q = [x \in DOMAIN q |-> q[x]]
      /\ DOMAIN q = {"kind", "stage", "elapsed", "state", "fertilized", "quality",
                     "thieves", "harvests", "desired", "min", "left"}
  BY DEF Stolen, PlantInfos
<1>2. /\ q.kind = p.kind /\ q.stage = p.stage /\ q.elapsed = p.elapsed
      /\ q.state = p.state /\ q.fertilized = p.fertilized /\ q.quality = p.quality
      /\ q.thieves = p.thieves \union {u} /\ q.harvests = p.harvests
      /\ q.desired = p.desired /\ q.min = p.min /\ q.left = p.left - quantity
  BY DEF Stolen, PlantInfos
<1> HIDE DEF q
<1>3. q \in PlantInfos
  BY <1>1, <1>2, PlantInfosByField DEF PlantInfos
<1> QED BY <1>2, <1>3 DEF q

LEMMA NewPlantLemma ==
  ASSUME NEW kind \in Kinds \union {NoKind}
  PROVE  /\ NewPlant(kind) \in PlantInfos
         /\ NewPlant(kind).kind = kind /\ NewPlant(kind).left = 0 /\ Shape(NewPlant(kind))
<1> USE GrowthAssumption
<1>1. NewPlant(kind) \in PlantInfos
  BY DEF NewPlant, PlantInfos, PlantStates
<1>2. Shape(NewPlant(kind))
  BY DEF NewPlant, Shape, Normal, FullyMatured
<1> QED BY <1>1, <1>2 DEF NewPlant

\* What a theft takes: at least one item and no more than the plant can spare;
\* with the cat, the overdraw on top of it.
LEMMA HaulLemma ==
  ASSUME NEW q \in Int, NEW cat \in BOOLEAN
  PROVE  /\ Haul(q, cat) \in Int /\ Overdraw(q) \in Int
         /\ ~cat => Haul(q, cat) = q
         /\ cat => Haul(q, cat) = q + Overdraw(q)
         /\ q \in Nat => Haul(q, cat) \in Nat
<1> DEFINE a == q + CatPlusQuantity
           b == 100 + CatBonusPercent
           c == a * b
<1>1. a \in Int /\ b \in Nat /\ (q \in Nat => a \in Nat)
  BY FarmAssumption
<1>2. c \in Int /\ (q \in Nat => c \in Nat)
  <2> HIDE DEF a, b
  <2> QED BY <1>1
<1>3. Haul(q, cat) = IF cat THEN c \div 100 ELSE q
  BY DEF Haul
<1>4. Haul(q, TRUE) = c \div 100
  BY DEF Haul
<1> HIDE DEF c
<1>5. c \div 100 \in Int /\ (q \in Nat => c \div 100 \in Nat)
  BY <1>2
<1>6. Overdraw(q) = c \div 100 - q
  BY <1>4 DEF Overdraw
<1> QED BY <1>3, <1>5, <1>6

-----------------------------------------------------------------------------
(* Type correctness.                                                       *)

LEMMA ChargeType ==
  ASSUME TypeOK, NEW u \in Users, NEW activity \in Activities, Charge(u, activity)
  PROVE  users' \in [Users -> Farmers]
<1>1. /\ EnergyConsume[activity] \in Nat
      /\ ExperiencesGain[activity] \in Nat
  BY FarmAssumption
<1>2. Work(users[u], EnergyConsume[activity], ExperiencesGain[activity]) \in Farmers
  BY <1>1, WorkType DEF Charge, TypeOK
<1> QED BY <1>2 DEF Charge, TypeOK

LEMMA StoreType ==
  ASSUME TypeOK, NEW u \in Users, NEW kind \in Kinds, NEW quantity \in Int,
         Store(u, kind, quantity)
  PROVE  products' \in [Users -> [Kinds -> Int]]
<1>1. [products[u] EXCEPT ![kind] = @ + quantity] \in [Kinds -> Int]
  BY DEF TypeOK
<1> QED BY <1>1 DEF Store, TypeOK

\* What is due can be counted.
LEMMA DueCounted == Cardinality(Due) \in Nat
<1>1. IsFiniteSet(Due)
  BY FarmAssumption, FS_Subset DEF Due
<1> QED BY <1>1, FS_CardinalityType

\* A worker takes tiles that are due.
LEMMA BatchIsDue == \A job : Batch(job) \subseteq Due
BY PageIsDue DEF Batch

\* A worker's copy stays a well-formed task when it is aged, and keeps its kind.
LEMMA AgedLemma ==
  ASSUME NEW job \in Tasks, job.mem.kind \in Kinds, NEW roll \in Rolls
  PROVE  /\ Aged(job, roll) \in Tasks
         /\ Aged(job, roll).mem = Grow(job.mem, job.time, roll)
         /\ Aged(job, roll).modified = job.modified \union Modified(job.mem, Aged(job, roll).mem)
         /\ Aged(job, roll).time = job.time
         /\ Aged(job, roll).tries = job.tries
         /\ [Aged(job, roll) EXCEPT !.tries = Aged(job, roll).tries + 1] \in Tasks
<1> DEFINE g == Grow(job.mem, job.time, roll)
           m == job.modified \union Modified(job.mem, g)
           a == Aged(job, roll)
<1>1. job.mem \in PlantInfos /\ job.time \in Nat /\ job.tries \in Nat
      /\ job.modified \in SUBSET WorkerPaths
  BY DEF Tasks
<1>2. g \in PlantInfos
  BY <1>1, GrowLemma
<1>3. m \in SUBSET WorkerPaths
  BY <1>1 DEF Modified
<1>4. a = [job EXCEPT !.mem = g, !.modified = m]
  BY DEF Aged
<1> HIDE DEF g, m, a
<1>5. a = [mem |-> g, modified |-> m, time |-> job.time, tries |-> job.tries]
  BY <1>4 DEF Tasks
<1>6. a \in Tasks
  BY <1>1, <1>2, <1>3, <1>5 DEF Tasks
<1>7. [a EXCEPT !.tries = a.tries + 1] \in Tasks
  BY <1>6 DEF Tasks
<1>8. a.mem = g /\ a.modified = m /\ a.time = job.time /\ a.tries = job.tries
  BY <1>5
<1> QED BY <1>6, <1>7, <1>8 DEF g, m, a

LEMMA PersistedType ==
  ASSUME TypeOK, NEW t \in Tiles, NEW job \in Tasks
  PROVE  Persisted(t, job) \in PlantInfos \union {NoPlant}
<1>1. plants[t] \in PlantInfos \union {NoPlant}
  BY DEF TypeOK
<1>2. NewPlant(NoKind) \in PlantInfos
  BY NewPlantLemma
<1>3. job.mem \in PlantInfos /\ job.modified \in SUBSET WorkerPaths
  BY DEF Tasks
<1>4. (IF Planted(t) THEN plants[t] ELSE NewPlant(NoKind)) \in PlantInfos
  BY <1>1, <1>2 DEF Planted
<1>5. Saved(IF Planted(t) THEN plants[t] ELSE NewPlant(NoKind), job.mem, job.modified)
        \in PlantInfos
  BY <1>3, <1>4, SavedLemma
<1> QED BY <1>1, <1>5 DEF Persisted

LEMMA LedgerEntries ==
  ASSUME NEW entry \in [ripened : Int, taken : Int], NEW n \in Int
  PROVE  /\ [entry EXCEPT !.ripened = @ + n] \in [ripened : Int, taken : Int]
         /\ [entry EXCEPT !.taken = @ + n] \in [ripened : Int, taken : Int]
OBVIOUS

LEMMA PetCounts ==
  ASSUME NEW counts \in [dog : Nat, cat : Nat], NEW cat \in BOOLEAN
  PROVE  [counts EXCEPT !.cat = IF cat THEN @ + 1 ELSE @] \in [dog : Nat, cat : Nat]
OBVIOUS

LEMMA CureType ==
  ASSUME TypeOK, NEW u \in Users, NEW t \in Tiles, NEW tool, NEW ailment,
         NEW activity \in Activities, Cure(u, t, tool, ailment, activity)
  PROVE  TypeOK'
<1>1. users' \in [Users -> Farmers]
  BY ChargeType DEF Cure
<1>2. plants[t] \in PlantInfos
  BY DEF Cure, Planted, TypeOK
<1>3. plants' \in [Tiles -> PlantInfos \union {NoPlant}]
  BY <1>2, TendedLemma DEF Cure, SetPlant, TypeOK
<1> QED BY <1>1, <1>3 DEF Cure, TypeOK

\* Whatever is planted, a new plant stands on the tile, of a kind or without a crop.
LEMMA PlantsAKind ==
  ASSUME NEW u \in Users, NEW t \in Tiles, PlantSeed(u, t)
  PROVE  \E kind \in Kinds \union {NoKind} : Plant(u, t, kind)
BY DEF PlantSeed, PlantFromToolbar, PlantFertilizer, PlantProduct

LEMMA OwnType ==
  ASSUME TypeOK, NEW u \in Users, NEW t \in Tiles, Own(u, t)
  PROVE  TypeOK'
<1>1. CASE PlantSeed(u, t)
  <2>1. PICK kind \in Kinds \union {NoKind} : Plant(u, t, kind)
    BY <1>1, PlantsAKind
  <2>2. users' \in [Users -> Farmers]
    BY <2>1, ChargeType DEF Plant, Activities
  <2>3. NewPlant(kind) \in PlantInfos
    BY NewPlantLemma
  <2>4. plants' \in [Tiles -> PlantInfos \union {NoPlant}]
    BY <2>1, <2>3 DEF Plant, SetPlant, TypeOK
  <2>5. toolbar' \in [Users -> [Kinds \union Tools -> Nat]]
    <3>1. ASSUME NEW item \in Kinds \union Tools, PlantFromToolbar(u, t, item)
          PROVE  toolbar' \in [Users -> [Kinds \union Tools -> Nat]]
      <4>1. [toolbar[u] EXCEPT ![item] = @ - 1] \in [Kinds \union Tools -> Nat]
        BY <3>1 DEF PlantFromToolbar, TypeOK
      <4> QED BY <3>1, <4>1 DEF PlantFromToolbar, TypeOK
    <3> QED BY <1>1, <3>1 DEF PlantSeed, PlantFertilizer, PlantProduct, TypeOK
  <2>6. fertilizers' \in [Users -> Nat]
    <3>1. CASE PlantFertilizer(u, t)
      BY <3>1 DEF PlantFertilizer, TypeOK
    <3>2. CASE fertilizers' = fertilizers
      BY <3>2 DEF TypeOK
    <3> QED BY <1>1, <3>1, <3>2 DEF PlantSeed, PlantFromToolbar, PlantProduct
  <2>7. products' \in [Users -> [Kinds -> Int]]
    <3>1. ASSUME NEW k \in Kinds, PlantProduct(u, t, k)
          PROVE  products' \in [Users -> [Kinds -> Int]]
      <4>1. [products[u] EXCEPT ![k] = @ - 1] \in [Kinds -> Int]
        BY DEF TypeOK
      <4> QED BY <3>1, <4>1 DEF PlantProduct, TypeOK
    <3> QED BY <1>1, <3>1 DEF PlantSeed, PlantFromToolbar, PlantFertilizer, TypeOK
  <2> QED BY <2>1, <2>2, <2>4, <2>5, <2>6, <2>7 DEF Plant, TypeOK
<1>3. CASE UseWateringCan(u, t)
  BY <1>3, CureType DEF UseWateringCan, Activities
<1>4. CASE UsePesticide(u, t)
  BY <1>4, CureType DEF UsePesticide, Activities
<1>5. CASE UseHerbicide(u, t)
  BY <1>5, CureType DEF UseHerbicide, Activities
<1>6. ASSUME NEW v \in Users, UseFertilizer(u, t, v) PROVE TypeOK'
  <2>1. users' \in [Users -> Farmers]
    BY <1>6, ChargeType DEF UseFertilizer, Activities
  <2>2. plants[t] \in PlantInfos
    BY <1>6 DEF UseFertilizer, Planted, TypeOK
  <2>3. plants' \in [Tiles -> PlantInfos \union {NoPlant}]
    BY <1>6, <2>2, FertilizedLemma DEF UseFertilizer, SetPlant, TypeOK
  <2>4. fertilizers' \in [Users -> Nat]
    BY <1>6 DEF UseFertilizer, TypeOK
  <2> QED BY <1>6, <2>1, <2>3, <2>4 DEF UseFertilizer, TypeOK
<1>7. CASE HarvestPlant(u, t)
  <2>1. plants[t] \in PlantInfos /\ plants[t].left \in Int /\ plants[t].quality \in BOOLEAN
        /\ plants[t].kind \in Kinds
    BY <1>7 DEF HarvestPlant, Ripe, Planted, TypeOK, PlantInfos
  <2>2. users' \in [Users -> Farmers]
    <3>1. EnergyConsume["harvestPlant"] \in Nat /\ HarvestExperiences[plants[t].quality] \in Nat
      BY <2>1, FarmAssumption DEF Activities
    <3>2. Work(users[u], EnergyConsume["harvestPlant"], HarvestExperiences[plants[t].quality])
            \in Farmers
      BY <1>7, <3>1, WorkType DEF HarvestPlant, TypeOK
    <3> QED BY <1>7, <3>2 DEF HarvestPlant, TypeOK
  <2>3. products' \in [Users -> [Kinds -> Int]]
    BY <1>7, <2>1, StoreType DEF HarvestPlant
  <2>4. plants' \in [Tiles -> PlantInfos \union {NoPlant}]
    BY <1>7, <2>1, RegrownLemma DEF HarvestPlant, SetPlant, TypeOK
  <2>5. harvestCount' \in [Tiles -> Nat]
    BY <1>7 DEF HarvestPlant, TypeOK
  <2>6. ledger' \in [Tiles -> [ripened : Int, taken : Int]]
    <3>1. [ledger[t] EXCEPT !.taken = @ + plants[t].left] \in [ripened : Int, taken : Int]
      BY <2>1, LedgerEntries DEF TypeOK
    <3> QED BY <1>7, <3>1 DEF HarvestPlant, TypeOK
  <2> QED BY <1>7, <2>2, <2>3, <2>4, <2>5, <2>6 DEF HarvestPlant, TypeOK
<1>8. CASE RemovePlant(u, t)
  BY <1>8 DEF RemovePlant, SetPlant, TypeOK, player
<1> QED BY <1>1, <1>3, <1>4, <1>5, <1>6, <1>7, <1>8 DEF Own

LEMMA VisitType ==
  ASSUME TypeOK, NEW u \in Users, NEW t \in Tiles, Visit(u, t)
  PROVE  TypeOK'
<1>1. CASE HelpUseWateringCan(u, t)
  BY <1>1, CureType DEF HelpUseWateringCan, Activities
<1>2. CASE HelpUsePesticide(u, t)
  BY <1>2, CureType DEF HelpUsePesticide, Activities
<1>3. CASE HelpUseHerbicide(u, t)
  BY <1>3, CureType DEF HelpUseHerbicide, Activities
<1>4. CASE ThiefBitten(u, t)
  <2>1. Owner[t] \in Users /\ Owner[t] # u
    BY <1>4, FarmAssumption DEF ThiefBitten, CanThieve, Neighbor
  <2>2. SpendEnergy(users[u], DogEnergyReduce) \in Farmers
    BY <1>4, FarmAssumption, SpendEnergyType DEF ThiefBitten, TypeOK
  <2>3. AddExperiences(users[Owner[t]], PetExperience) \in Farmers
    BY <2>1, FarmAssumption, AddExperiencesType DEF TypeOK
  <2>4. users' \in [Users -> Farmers]
    BY <1>4, <2>1, <2>2, <2>3 DEF ThiefBitten, TypeOK
  <2>5. plants[t] \in PlantInfos
    BY <1>4 DEF ThiefBitten, CanThieve, Ripe, Planted, TypeOK
  <2>6. plants' \in [Tiles -> PlantInfos \union {NoPlant}]
    BY <1>4, <2>5, StolenLemma DEF ThiefBitten, SetPlant, TypeOK
  <2> QED BY <1>4, <2>4, <2>6 DEF ThiefBitten, TypeOK
<1>5. ASSUME NEW wanted \in StealQuantities, NEW cat \in BOOLEAN, ThiefSteals(u, t, wanted, cat)
      PROVE  TypeOK'
  <2> DEFINE haul == Haul(Spare(plants[t], wanted), cat)
             thief == IF cat THEN AddExperiences(users[u], PetExperience) ELSE users[u]
  <2>1. plants[t] \in PlantInfos /\ plants[t].left \in Int /\ plants[t].min \in Int
        /\ plants[t].kind \in Kinds
    BY <1>5 DEF ThiefSteals, CanThieve, Ripe, Planted, TypeOK, PlantInfos
  <2>2. haul \in Int
    <3>1. Spare(plants[t], wanted) \in Int
      BY <2>1, FarmAssumption DEF Spare
    <3> QED BY <3>1, HaulLemma
  <2>3. thief \in Farmers /\ CanSpend(thief, EnergyConsume["thiefPlant"])
    <3>1. AddExperiences(users[u], PetExperience) \in Farmers
      BY FarmAssumption, AddExperiencesType DEF TypeOK
    <3>2. AddExperiences(users[u], PetExperience).energy = users[u].energy
      BY DEF AddExperiences, TypeOK, Farmers
    <3>3. CanSpend(users[u], EnergyConsume["thiefPlant"])
      BY <1>5 DEF ThiefSteals, CanThieve
    <3> QED BY <3>1, <3>2, <3>3 DEF TypeOK, CanSpend
  <2> HIDE DEF haul, thief
  <2>4. Work(thief, EnergyConsume["thiefPlant"], ExperiencesGain["thiefPlant"]) \in Farmers
    BY <2>3, FarmAssumption, WorkType DEF Activities
  <2>5. users' \in [Users -> Farmers]
    BY <1>5, <2>4 DEF ThiefSteals, TypeOK, thief
  <2>6. products' \in [Users -> [Kinds -> Int]]
    BY <1>5, <2>1, <2>2, StoreType DEF ThiefSteals, haul
  <2>7. pets' \in [Users -> [dog : Nat, cat : Nat]]
    <3>1. [pets[u] EXCEPT !.cat = IF cat THEN @ + 1 ELSE @] \in [dog : Nat, cat : Nat]
      BY PetCounts DEF TypeOK
    <3> QED BY <1>5, <3>1 DEF ThiefSteals, TypeOK
  <2>8. plants' \in [Tiles -> PlantInfos \union {NoPlant}]
    BY <1>5, <2>1, <2>2, StolenLemma DEF ThiefSteals, SetPlant, TypeOK, haul
  <2>9. ledger' \in [Tiles -> [ripened : Int, taken : Int]]
    <3>1. [ledger[t] EXCEPT !.taken = @ + haul] \in [ripened : Int, taken : Int]
      BY <2>2, LedgerEntries DEF TypeOK
    <3> QED BY <1>5, <3>1 DEF ThiefSteals, TypeOK, haul
  <2> QED BY <1>5, <2>5, <2>6, <2>7, <2>8, <2>9 DEF ThiefSteals, TypeOK
<1> QED BY <1>1, <1>2, <1>3, <1>4, <1>5 DEF Visit

LEMMA ReadsType ==
  ASSUME TypeOK, NEW w \in Workers, WorkerReads(w)
  PROVE  TypeOK'
<1> DEFINE job == Head(queue)
           copy(t) == [mem |-> plants[t], modified |-> {}, time |-> job.time, tries |-> 0]
           held == [t \in Tiles |-> IF t \in Batch(job) THEN copy(t) ELSE NoTask]
<1>1. job \in Jobs /\ Tail(queue) \in Seq(Jobs)
  BY DEF WorkerReads, TypeOK
<1>2. job.time \in Nat
  BY <1>1 DEF Jobs
<1>3. ASSUME NEW t \in Batch(job) PROVE copy(t) \in Tasks
  <2>1. plants[t] \in PlantInfos
    BY <1>3, BatchIsDue DEF Due, Planted, TypeOK
  <2> HIDE DEF job
  <2> QED BY <1>2, <2>1 DEF Tasks
<1> HIDE DEF copy, job
<1>4. held \in [Tiles -> Tasks \union {NoTask}]
  BY <1>3
<1>5. task' = [task EXCEPT ![w] = held] /\ queue' = Tail(queue)
  BY DEF WorkerReads, copy, job
<1>6. UNCHANGED <<player, plants, ledger>>
  BY DEF WorkerReads
<1> HIDE DEF held
<1> QED BY <1>1, <1>4, <1>5, <1>6 DEF TypeOK, player

LEMMA WorkOnType ==
  ASSUME TypeOK, NEW w \in Workers, NEW t \in Tiles, WorkOn(w, t)
  PROVE  TypeOK'
<1>1. ASSUME NEW roll \in RollChoices, WorkerSaves(w, t, roll) PROVE TypeOK'
  <2> DEFINE job == Aged(task[w][t], roll)
  <2>1. roll \in Rolls /\ task[w][t] \in Tasks
    BY <1>1, FarmAssumption DEF WorkerSaves, TypeOK
  <2>2. job \in Tasks
    BY <1>1, <2>1, AgedLemma DEF WorkerSaves
  <2>3. job.mem.left \in Int
    BY <2>2 DEF Tasks, PlantInfos
  <2> HIDE DEF job
  <2>4. plants' \in [Tiles -> PlantInfos \union {NoPlant}]
    BY <1>1, <2>2, PersistedType DEF WorkerSaves, SetPlant, TypeOK, job
  <2>5. ledger' \in [Tiles -> [ripened : Int, taken : Int]]
    <3>1. [ledger[t] EXCEPT !.ripened = @ + job.mem.left] \in [ripened : Int, taken : Int]
      BY <2>3, LedgerEntries DEF TypeOK
    <3>2. ledger' = [ledger EXCEPT ![t].ripened = IF Ripens(t, job) THEN @ + job.mem.left ELSE @]
      BY <1>1 DEF WorkerSaves, job
    <3>3. CASE Ripens(t, job)
      BY <3>1, <3>2, <3>3 DEF TypeOK
    <3>4. CASE ~Ripens(t, job)
      <4>1. [ledger[t] EXCEPT !.ripened = @] = ledger[t]
        BY DEF TypeOK
      <4> QED BY <3>2, <3>4, <4>1 DEF TypeOK
    <3> QED BY <3>3, <3>4
  <2>6. task' \in [Workers -> [Tiles -> Tasks \union {NoTask}]]
    BY <1>1 DEF WorkerSaves, TypeOK
  <2> QED BY <1>1, <2>4, <2>5, <2>6 DEF WorkerSaves, TypeOK, player
<1>2. ASSUME NEW roll \in RollChoices, WorkerRetries(w, t, roll) PROVE TypeOK'
  <2>1. roll \in Rolls /\ task[w][t] \in Tasks
    BY <1>2, FarmAssumption DEF WorkerRetries, TypeOK
  <2>2. [Aged(task[w][t], roll) EXCEPT !.tries = Aged(task[w][t], roll).tries + 1] \in Tasks
    BY <1>2, <2>1, AgedLemma DEF WorkerRetries
  <2>3. task' \in [Workers -> [Tiles -> Tasks \union {NoTask}]]
    BY <1>2, <2>2 DEF WorkerRetries, TypeOK
  <2> QED BY <1>2, <2>3 DEF WorkerRetries, TypeOK, player
<1>3. CASE WorkerFails(w, t)
  BY <1>3 DEF WorkerFails, TypeOK, player
<1> QED BY <1>1, <1>2, <1>3 DEF WorkOn

LEMMA InitType == Init => TypeOK
<1>1. ASSUME Init PROVE queue \in Seq(Jobs)
  BY <1>1 DEF Init
<1>2. ASSUME Init PROVE task \in [Workers -> [Tiles -> Tasks \union {NoTask}]]
  BY <1>2 DEF Init
<1>3. ASSUME Init
      PROVE  /\ users \in [Users -> Farmers] /\ toolbar \in [Users -> [Kinds \union Tools -> Nat]]
             /\ fertilizers \in [Users -> Nat] /\ products \in [Users -> [Kinds -> Int]]
  <2>1. /\ InitFarmers \in [Users -> Farmers] /\ InitToolbar \in [Users -> [Kinds \union Tools -> Nat]]
        /\ InitFertilizers \in [Users -> Nat]
    BY FarmAssumption
  <2>2. products \in [Users -> [Kinds -> Int]]
    BY <1>3 DEF Init
  <2>3. users = InitFarmers /\ toolbar = InitToolbar /\ fertilizers = InitFertilizers
    BY <1>3 DEF Init
  <2> QED BY <2>1, <2>2, <2>3, Zenon
<1>4. ASSUME Init
      PROVE  /\ pets \in [Users -> [dog : Nat, cat : Nat]]
             /\ plants \in [Tiles -> PlantInfos \union {NoPlant}]
             /\ harvestCount \in [Tiles -> Nat]
             /\ ledger \in [Tiles -> [ripened : Int, taken : Int]]
  BY <1>4 DEF Init
<1> QED BY <1>1, <1>2, <1>3, <1>4 DEF TypeOK

\* Every document stays well formed, however many workers run and whatever they
\* overwrite: no handler spends energy, a seed or a fertilizer it has not checked.
THEOREM TypeCorrect == Spec => []TypeOK
<1>1. Init => TypeOK
  BY InitType
<1>2. TypeOK /\ [Next]_vars => TypeOK'
  <2> SUFFICES ASSUME TypeOK, [Next]_vars PROVE TypeOK'
    OBVIOUS
  <2>1. ASSUME NEW u \in Users, NEW t \in Tiles, Own(u, t) \/ Visit(u, t) PROVE TypeOK'
    BY <2>1, OwnType, VisitType
  <2>2. ASSUME NEW time \in TickTimes, Schedule(time) PROVE TypeOK'
    <3>1. queue' \in Seq(Jobs)
      <4>1. MaxQueue \in Nat /\ TickTimes \subseteq Nat \ {0}
      BY FarmAssumption
    <4> QED BY <2>2, <4>1, DueCounted, BatchesType DEF Schedule, TypeOK
    <3> QED BY <2>2, <3>1 DEF Schedule, TypeOK, player
  <2>3. ASSUME NEW w \in Workers, WorkerReads(w) PROVE TypeOK'
    BY <2>3, ReadsType
  <2>4. ASSUME NEW w \in Workers, WorkerDropsJob(w) PROVE TypeOK'
    <3>1. UNCHANGED <<player, plants, task, ledger>> /\ queue' \in Seq(Jobs)
      BY <2>4 DEF WorkerDropsJob, TypeOK
    <3> QED BY <3>1, Zenon DEF TypeOK, player
  <2>5. ASSUME NEW w \in Workers, NEW t \in Tiles, WorkOn(w, t) PROVE TypeOK'
    BY <2>5, WorkOnType
  <2>6. CASE UNCHANGED vars
    BY <2>6 DEF vars, TypeOK
  <2> QED BY <2>1, <2>2, <2>3, <2>4, <2>5, <2>6 DEF Next
<1> QED BY <1>1, <1>2, PTL DEF Spec

-----------------------------------------------------------------------------
(* Thieves, with any number of workers.                                    *)

\* $set writes the modified paths alone, so a stale copy does not bring back the
\* list of thieves it read: nobody robs one planting twice.
THEOREM ThievesStay == Spec => ThievesRemembered
<1> DEFINE Kept(t) == Planted(t) /\ Planted(t)' => plants[t].thieves \subseteq plants'[t].thieves
<1>1. ASSUME TypeOK, [Next]_vars, NEW t \in Tiles PROVE Kept(t)
  <2>1. ASSUME plants' = plants PROVE Kept(t)
    BY <2>1
  <2>2. ASSUME NEW s \in Tiles, NEW p, SetPlant(s, p),
               Planted(s) /\ p # NoPlant => plants[s].thieves \subseteq p.thieves
        PROVE  Kept(t)
    BY <1>1, <2>2 DEF SetPlant, Planted, TypeOK
  <2> HIDE DEF Kept
  <2>3. ASSUME NEW s \in Tiles, Planted(s) PROVE plants[s] \in PlantInfos
    BY <1>1, <2>3 DEF Planted, TypeOK
  <2>4. ASSUME NEW u \in Users, NEW s \in Tiles, Own(u, s) PROVE Kept(t)
    <3>1. CASE PlantSeed(u, s)
      BY <2>2, <3>1, PlantsAKind DEF Plant
    <3>2. ASSUME NEW tool, NEW ailment, NEW activity, Cure(u, s, tool, ailment, activity)
          PROVE  Kept(t)
      BY <2>2, <2>3, <3>2, TendedLemma DEF Cure
    <3>3. ASSUME NEW v \in Users, UseFertilizer(u, s, v) PROVE Kept(t)
      BY <2>2, <2>3, <3>3, FertilizedLemma DEF UseFertilizer
    <3>4. CASE HarvestPlant(u, s)
      BY <2>2, <2>3, <3>4, RegrownLemma DEF HarvestPlant
    <3>5. CASE RemovePlant(u, s)
      BY <2>2, <3>5 DEF RemovePlant
    <3> QED BY <2>4, <3>1, <3>2, <3>3, <3>4, <3>5
        DEF Own, UseWateringCan, UsePesticide, UseHerbicide
  <2>5. ASSUME NEW u \in Users, NEW s \in Tiles, Visit(u, s) PROVE Kept(t)
    <3>1. ASSUME NEW tool, NEW ailment, NEW activity, Cure(u, s, tool, ailment, activity)
          PROVE  Kept(t)
      BY <2>2, <2>3, <3>1, TendedLemma DEF Cure
    <3>2. CASE ThiefBitten(u, s)
      BY <2>2, <2>3, <3>2, StolenLemma DEF ThiefBitten, CanThieve, Ripe
    <3>3. ASSUME NEW wanted \in StealQuantities, NEW cat \in BOOLEAN, ThiefSteals(u, s, wanted, cat)
          PROVE  Kept(t)
      <4>1. Planted(s)
        BY <3>3 DEF ThiefSteals, CanThieve, Ripe
      <4>2. plants[s] \in PlantInfos
        BY <2>3, <4>1
      <4>3. Haul(Spare(plants[s], wanted), cat) \in Int
        <5>1. Spare(plants[s], wanted) \in Int
          BY <4>2, FarmAssumption DEF Spare, PlantInfos
        <5> QED BY <5>1, HaulLemma
      <4>4. SetPlant(s, Stolen(plants[s], u, Haul(Spare(plants[s], wanted), cat)))
        BY <3>3 DEF ThiefSteals
      <4> QED BY <2>2, <4>2, <4>3, <4>4, StolenLemma
    <3> QED BY <2>5, <3>1, <3>2, <3>3
        DEF Visit, HelpUseWateringCan, HelpUsePesticide, HelpUseHerbicide
  <2>6. ASSUME NEW w \in Workers, NEW s \in Tiles, WorkOn(w, s) PROVE Kept(t)
    <3>1. ASSUME NEW roll \in RollChoices, WorkerSaves(w, s, roll) PROVE Kept(t)
      <4> DEFINE job == Aged(task[w][s], roll)
      <4>1. roll \in Rolls /\ task[w][s] \in Tasks
        BY <1>1, <3>1, FarmAssumption DEF WorkerSaves, TypeOK
      <4>2. job \in Tasks
        BY <3>1, <4>1, AgedLemma DEF WorkerSaves
      <4>3. SetPlant(s, Persisted(s, job))
        BY <3>1 DEF WorkerSaves
      <4> HIDE DEF job
      <4>4. job.mem \in PlantInfos /\ job.modified \in SUBSET WorkerPaths
        BY <4>2 DEF Tasks
      <4>5. Planted(s) => plants[s].thieves \subseteq Persisted(s, job).thieves
        BY <2>3, <4>4, SavedLemma DEF Persisted
      <4> QED BY <2>2, <4>3, <4>5
    <3>2. ASSUME NEW roll \in RollChoices, WorkerRetries(w, s, roll) PROVE Kept(t)
      BY <2>1, <3>2 DEF WorkerRetries
    <3>3. CASE WorkerFails(w, s)
      BY <2>1, <3>3 DEF WorkerFails
    <3> QED BY <2>6, <3>1, <3>2, <3>3 DEF WorkOn
  <2>7. ASSUME NEW time \in TickTimes, Schedule(time) PROVE Kept(t)
    BY <2>1, <2>7 DEF Schedule
  <2>8. ASSUME NEW w \in Workers, WorkerReads(w) \/ WorkerDropsJob(w) PROVE Kept(t)
    BY <2>1, <2>8 DEF WorkerReads, WorkerDropsJob
  <2>9. CASE UNCHANGED vars
    BY <2>1, <2>9 DEF vars
  <2> QED BY <1>1, <2>4, <2>5, <2>6, <2>7, <2>8, <2>9 DEF Next
<1>2. TypeOK /\ [Next]_vars
        => [\A t \in Tiles :
              Planted(t) /\ Planted(t)' => plants[t].thieves \subseteq plants'[t].thieves]_vars
  BY <1>1
<1> QED BY <1>2, TypeCorrect, PTL DEF Spec, ThievesRemembered

-----------------------------------------------------------------------------
(* Safety with one worker, as the project deploys it.  A save is harmless  *)
(* because a tile that is held keeps growing, and because whatever the     *)
(* worker did not modify is what the database still holds.                 *)

SingleWorker == \A v, w \in Workers : v = w

\* The copy a worker holds of tile t against the document in the database.
Fresh(t, job) ==
  /\ Planted(t) /\ Growing(plants[t]) /\ plants[t].kind = job.mem.kind
  /\ Shape(job.mem)
  /\ job.mem.state = FullyMatured => "state" \in job.modified
  /\ "stage" \notin job.modified => job.mem.stage = plants[t].stage
  /\ "desired" \notin job.modified => job.mem.desired = plants[t].desired
  /\ "min" \notin job.modified => job.mem.min = plants[t].min
  /\ "left" \notin job.modified => job.mem.left = plants[t].left

GoodPlant(p) == p \in PlantInfos /\ Shape(p)

Inductive ==
  /\ TypeOK
  /\ \A t \in Tiles : Planted(t) => GoodPlant(plants[t])
  /\ TileLedger
  /\ \A w \in Workers, t \in Tiles : task[w][t] # NoTask => Fresh(t, task[w][t])

Balance(entry) == entry.ripened - entry.taken

\* p takes the place of q in the database under the feet of a worker.
Undisturbed(q, p) ==
  /\ p # NoPlant /\ Growing(p) /\ p.kind = q.kind /\ p.stage = q.stage
  /\ p.desired = q.desired /\ p.min = q.min /\ p.left = q.left

\* Every action of a player replaces one plantInfo and at most one ledger entry.
LEMMA PlayerStep ==
  ASSUME Inductive, TypeOK', UNCHANGED task,
         NEW s \in Tiles, NEW p, SetPlant(s, p),
         p # NoPlant => GoodPlant(p),
         Planted(s) /\ Growing(plants[s]) => Undisturbed(plants[s], p),
         \A t \in Tiles : t # s => ledger'[t] = ledger[t],
         Balance(ledger'[s]) = IF p = NoPlant THEN 0 ELSE p.left
  PROVE  Inductive'
<1>1. plants'[s] = p /\ \A t \in Tiles : t # s => plants'[t] = plants[t]
  BY DEF SetPlant, Inductive, TypeOK
<1>2. \A t \in Tiles : Planted(t)' => GoodPlant(plants'[t])
  BY <1>1 DEF Inductive, Planted
<1>3. TileLedger'
  BY <1>1 DEF Inductive, TileLedger, Left, Planted, Balance
<1>4. ASSUME NEW w \in Workers, NEW t \in Tiles, task[w][t] # NoTask
      PROVE  Fresh(t, task[w][t])'
  <2>1. Fresh(t, task[w][t]) /\ task' = task
    BY <1>4 DEF Inductive
  <2>2. CASE t = s
    BY <1>1, <2>1, <2>2 DEF Fresh, Undisturbed, Planted
  <2>3. CASE t # s
    BY <1>1, <2>1, <2>3 DEF Fresh, Planted
  <2> QED BY <2>2, <2>3
<1>5. \A w \in Workers, t \in Tiles : task'[w][t] # NoTask => Fresh(t, task[w][t])'
  BY <1>4
<1> QED BY <1>2, <1>3, <1>5 DEF Inductive

LEMMA CureSafe ==
  ASSUME Inductive, NEW u \in Users, NEW t \in Tiles, NEW tool, NEW ailment,
         ailment # FullyMatured,
         NEW activity \in Activities, Cure(u, t, tool, ailment, activity)
  PROVE  Inductive'
<1> DEFINE p == Tended(plants[t])
<1>1. TypeOK'
  BY CureType DEF Inductive
<1>2. GoodPlant(plants[t]) /\ Planted(t) /\ plants[t].state # FullyMatured
  BY DEF Cure, Inductive
<1>3. plants[t].state \in PlantStates /\ plants[t] \in PlantInfos
  BY <1>2 DEF GoodPlant, PlantInfos
<1>4. /\ p \in PlantInfos /\ p.kind = plants[t].kind /\ p.stage = plants[t].stage
      /\ p.state = Normal /\ p.desired = plants[t].desired /\ p.min = plants[t].min
      /\ p.left = plants[t].left
  BY <1>3, TendedLemma
<1>5. SetPlant(t, p) /\ UNCHANGED <<task, ledger>>
  BY DEF Cure
<1> HIDE DEF p
<1>6. p # NoPlant /\ GoodPlant(p)
  BY <1>2, <1>4, FarmAssumption DEF GoodPlant, Shape, Normal, FullyMatured
<1>7. Undisturbed(plants[t], p)
  BY <1>4, <1>6 DEF Undisturbed, Growing, Normal, NeedWater, FullyMatured
<1>8. Balance(ledger[t]) = p.left
  BY <1>2, <1>4 DEF Inductive, TileLedger, Left, Balance
<1> QED BY <1>1, <1>5, <1>6, <1>7, <1>8, PlayerStep

LEMMA Taken ==
  ASSUME Inductive, NEW t \in Tiles, NEW n \in Int,
         ledger' = [ledger EXCEPT ![t].taken = @ + n]
  PROVE  /\ \A s \in Tiles : s # t => ledger'[s] = ledger[s]
         /\ Balance(ledger'[t]) = Balance(ledger[t]) - n
<1>1. ledger[t] \in [ripened : Int, taken : Int] /\ ledger \in [Tiles -> [ripened : Int, taken : Int]]
  BY DEF Inductive, TypeOK
<1>2. ledger'[t] = [ledger[t] EXCEPT !.taken = @ + n]
  BY <1>1
<1>3. Balance(ledger'[t]) = Balance(ledger[t]) - n
  BY <1>1, <1>2 DEF Balance
<1> QED BY <1>1, <1>3

LEMMA OwnSafe ==
  ASSUME Inductive, NEW u \in Users, NEW t \in Tiles, Own(u, t)
  PROVE  Inductive'
<1>1. TypeOK'
  BY OwnType DEF Inductive
<1>2. Balance(ledger[t]) = Left(t)
  BY DEF Inductive, TileLedger, Balance
<1>3. CASE PlantSeed(u, t)
  <2>0. PICK kind \in Kinds \union {NoKind} : Plant(u, t, kind)
    BY <1>3, PlantsAKind
  <2>1. GoodPlant(NewPlant(kind)) /\ NewPlant(kind).left = 0
    BY NewPlantLemma DEF GoodPlant
  <2>2. NewPlant(kind) # NoPlant
    <3>1. NoPlant \notin PlantInfos
      BY FarmAssumption
    <3> QED BY <2>1, <3>1 DEF GoodPlant
  <2>3. SetPlant(t, NewPlant(kind)) /\ ~Planted(t) /\ UNCHANGED <<task, ledger>>
    BY <2>0 DEF Plant
  <2>4. Balance(ledger'[t]) = NewPlant(kind).left
    BY <1>2, <2>1, <2>3 DEF Left
  <2> QED BY <1>1, <2>1, <2>2, <2>3, <2>4, PlayerStep
<1>4. CASE UseWateringCan(u, t)
  BY <1>4, CureSafe DEF UseWateringCan, Activities, NeedWater, FullyMatured
<1>5. CASE UsePesticide(u, t)
  BY <1>5, CureSafe DEF UsePesticide, Activities, IsInfested, FullyMatured
<1>6. CASE UseHerbicide(u, t)
  BY <1>6, CureSafe DEF UseHerbicide, Activities, IsWeedy, FullyMatured
<1>7. ASSUME NEW v \in Users, UseFertilizer(u, t, v) PROVE Inductive'
  <2> DEFINE p == Fertilized(plants[t])
  <2>1. Planted(t) /\ SetPlant(t, p) /\ UNCHANGED <<task, ledger>>
    BY <1>7 DEF UseFertilizer
  <2>2. GoodPlant(plants[t])
    BY <2>1 DEF Inductive
  <2>3. /\ p \in PlantInfos /\ p.kind = plants[t].kind /\ p.stage = plants[t].stage
        /\ p.state = plants[t].state /\ p.desired = plants[t].desired
        /\ p.min = plants[t].min /\ p.left = plants[t].left
    BY <2>2, FertilizedLemma DEF GoodPlant
  <2> HIDE DEF p
  <2>4. GoodPlant(p) /\ p # NoPlant
    BY <2>2, <2>3, FarmAssumption DEF GoodPlant, Shape, NotOverdrawn
  <2>5. Growing(plants[t]) => Undisturbed(plants[t], p)
    BY <2>3, <2>4 DEF Undisturbed, Growing
  <2>6. Balance(ledger'[t]) = p.left
    BY <1>2, <2>1, <2>3 DEF Left
  <2> QED BY <1>1, <2>1, <2>4, <2>5, <2>6, PlayerStep
<1>8. CASE HarvestPlant(u, t)
  <2> DEFINE p == IF IsPerennial(plants[t]) THEN Regrown(plants[t]) ELSE NoPlant
  <2>1. /\ Planted(t) /\ plants[t].state = FullyMatured /\ UNCHANGED task /\ SetPlant(t, p)
        /\ ledger' = [ledger EXCEPT ![t].taken = @ + plants[t].left]
    BY <1>8 DEF HarvestPlant, Ripe
  <2>2. GoodPlant(plants[t]) /\ plants[t].left \in Int
    BY <2>1 DEF Inductive, GoodPlant, PlantInfos
  <2>3. p # NoPlant => GoodPlant(p) /\ p.left = 0
    BY <2>2, RegrownLemma DEF GoodPlant
  <2>4. ~Growing(plants[t])
    BY <2>1 DEF Growing
  <2>5. /\ \A s \in Tiles : s # t => ledger'[s] = ledger[s]
        /\ Balance(ledger'[t]) = Balance(ledger[t]) - plants[t].left
    BY <2>1, <2>2, Taken
  <2>6. Balance(ledger'[t]) = 0
    BY <1>2, <2>1, <2>2, <2>5 DEF Left
  <2> HIDE DEF p
  <2> QED BY <1>1, <2>1, <2>3, <2>4, <2>5, <2>6, PlayerStep
<1>9. CASE RemovePlant(u, t)
  <2>1. ~Planted(t) /\ SetPlant(t, NoPlant) /\ UNCHANGED <<task, ledger>>
    BY <1>9 DEF RemovePlant
  <2>2. Balance(ledger'[t]) = 0
    BY <1>2, <2>1 DEF Left
  <2> QED BY <1>1, <2>1, <2>2, PlayerStep
<1> QED BY <1>3, <1>4, <1>5, <1>6, <1>7, <1>8, <1>9 DEF Own

\* What a theft leaves behind.
LEMMA TheftLemma ==
  ASSUME NEW p, GoodPlant(p), p.state = FullyMatured, p.left > p.min,
         NEW u \in Users, NEW wanted \in StealQuantities, NEW cat \in BOOLEAN
  PROVE  /\ Haul(Spare(p, wanted), cat) \in Nat
         /\ GoodPlant(Stolen(p, u, Haul(Spare(p, wanted), cat)))
         /\ Stolen(p, u, Haul(Spare(p, wanted), cat)).left = p.left - Haul(Spare(p, wanted), cat)
<1> DEFINE q == Spare(p, wanted)
           haul == Haul(q, cat)
           r == Stolen(p, u, haul)
<1>1. p.left \in Int /\ p.min \in Nat /\ p.desired \in Nat /\ p.left <= p.desired
      /\ wanted \in Nat \ {0} /\ p.stage = GrowthStages - 1
  BY FarmAssumption DEF GoodPlant, PlantInfos, Shape
<1>2. q \in 1 .. p.desired - p.min /\ q <= p.left - p.min
  BY <1>1 DEF Spare
<1> HIDE DEF q
<1>3. haul \in Nat /\ (haul = q \/ haul = q + Overdraw(q)) /\ Overdraw(q) \in Int
  BY <1>2, HaulLemma
<1> HIDE DEF haul
<1>4. /\ r \in PlantInfos /\ r.kind = p.kind /\ r.stage = p.stage /\ r.state = p.state
      /\ r.desired = p.desired /\ r.min = p.min /\ r.left = p.left - haul
  BY <1>3, StolenLemma DEF GoodPlant
<1> HIDE DEF r
<1>5. NotOverdrawn(r)
  <2>1. CASE haul = q
    BY <1>1, <1>2, <1>4, <2>1 DEF NotOverdrawn
  <2>2. CASE haul = q + Overdraw(q)
    <3>1. r.left >= r.min - Overdraw(q)
      BY <1>1, <1>2, <1>3, <1>4, <2>2
    <3> QED BY <1>2, <1>4, <3>1 DEF NotOverdrawn
  <2> QED BY <1>3, <2>1, <2>2
<1>6. Shape(r)
  BY <1>1, <1>3, <1>4, <1>5 DEF Shape
<1> QED BY <1>3, <1>4, <1>6 DEF GoodPlant, q, haul, r

LEMMA VisitSafe ==
  ASSUME Inductive, NEW u \in Users, NEW t \in Tiles, Visit(u, t)
  PROVE  Inductive'
<1>1. TypeOK'
  BY VisitType DEF Inductive
<1>2. Balance(ledger[t]) = Left(t)
  BY DEF Inductive, TileLedger, Balance
<1>3. CASE HelpUseWateringCan(u, t)
  BY <1>3, CureSafe DEF HelpUseWateringCan, Activities, NeedWater, FullyMatured
<1>4. CASE HelpUsePesticide(u, t)
  BY <1>4, CureSafe DEF HelpUsePesticide, Activities, IsInfested, FullyMatured
<1>5. CASE HelpUseHerbicide(u, t)
  BY <1>5, CureSafe DEF HelpUseHerbicide, Activities, IsWeedy, FullyMatured
<1>6. ASSUME CanThieve(u, t)
      PROVE  /\ Planted(t) /\ GoodPlant(plants[t]) /\ plants[t].left > plants[t].min
             /\ plants[t].state = FullyMatured /\ ~Growing(plants[t])
             /\ plants[t].left \in Int
  BY <1>6 DEF CanThieve, Ripe, Inductive, Growing, GoodPlant, PlantInfos
<1>7. CASE ThiefBitten(u, t)
  <2> DEFINE p == Stolen(plants[t], u, 0)
  <2>1. CanThieve(u, t) /\ SetPlant(t, p) /\ UNCHANGED <<task, ledger>>
    BY <1>7 DEF ThiefBitten
  <2>2. /\ p \in PlantInfos /\ p.kind = plants[t].kind /\ p.stage = plants[t].stage
        /\ p.state = plants[t].state /\ p.desired = plants[t].desired
        /\ p.min = plants[t].min /\ p.left = plants[t].left
    BY <1>6, <2>1, StolenLemma DEF GoodPlant
  <2> HIDE DEF p
  <2>3. GoodPlant(p) /\ p # NoPlant
    BY <1>6, <2>1, <2>2, FarmAssumption DEF GoodPlant, Shape, NotOverdrawn
  <2>4. Balance(ledger'[t]) = p.left
    BY <1>2, <1>6, <2>1, <2>2 DEF Left
  <2> QED BY <1>1, <1>6, <2>1, <2>3, <2>4, PlayerStep
<1>8. ASSUME NEW wanted \in StealQuantities, NEW cat \in BOOLEAN, ThiefSteals(u, t, wanted, cat)
      PROVE  Inductive'
  <2> DEFINE haul == Haul(Spare(plants[t], wanted), cat)
             p == Stolen(plants[t], u, haul)
  <2>1. /\ CanThieve(u, t) /\ SetPlant(t, p) /\ UNCHANGED task
        /\ ledger' = [ledger EXCEPT ![t].taken = @ + haul]
    BY <1>8 DEF ThiefSteals
  <2>2. haul \in Nat /\ GoodPlant(p) /\ p.left = plants[t].left - haul
    BY <1>6, <2>1, TheftLemma
  <2> HIDE DEF haul, p
  <2>3. p # NoPlant
    BY <2>2, FarmAssumption DEF GoodPlant
  <2>4. /\ \A s \in Tiles : s # t => ledger'[s] = ledger[s]
        /\ Balance(ledger'[t]) = Balance(ledger[t]) - haul
    <3>1. haul \in Int
      BY <2>2
    <3>2. ledger' = [ledger EXCEPT ![t].taken = @ + haul]
      BY <2>1
    <3> QED BY <3>1, <3>2, Taken
  <2>5. Balance(ledger'[t]) = p.left
    BY <1>2, <1>6, <2>1, <2>2, <2>4 DEF Left
  <2> QED BY <1>1, <1>6, <2>1, <2>2, <2>3, <2>4, <2>5, PlayerStep
<1> QED BY <1>3, <1>4, <1>5, <1>7, <1>8 DEF Visit

\* Aging a copy keeps it fresh: it only changes paths it marks as modified.
LEMMA AgedFresh ==
  ASSUME NEW t \in Tiles, NEW job \in Tasks, job.mem.kind \in Kinds, NEW roll \in Rolls,
         Fresh(t, job)
  PROVE  Fresh(t, Aged(job, roll))
<1> DEFINE a == Aged(job, roll)
           g == Grow(job.mem, job.time, roll)
<1>1. job.mem \in PlantInfos /\ job.time \in Nat /\ Shape(job.mem)
  BY DEF Tasks, Fresh
<1>2. g.kind = job.mem.kind /\ Shape(g) /\ g \in PlantInfos
  BY <1>1, GrowLemma
<1>3. a.mem = g /\ a.modified = job.modified \union Modified(job.mem, g)
  BY AgedLemma
<1> HIDE DEF a, g
<1>4. ASSUME NEW f \in WorkerPaths, f \notin a.modified
      PROVE  f \notin job.modified /\ g[f] = job.mem[f]
  BY <1>3, <1>4 DEF Modified
<1>5. /\ "stage" \notin a.modified => g.stage = plants[t].stage
      /\ "desired" \notin a.modified => g.desired = plants[t].desired
      /\ "min" \notin a.modified => g.min = plants[t].min
      /\ "left" \notin a.modified => g.left = plants[t].left
  BY <1>4 DEF Fresh, WorkerPaths
<1>6. g.state = FullyMatured => "state" \in a.modified
  <2>1. ASSUME "state" \notin a.modified, g.state = FullyMatured PROVE FALSE
    BY <1>3, <1>4, <2>1 DEF Fresh, WorkerPaths
  <2> QED BY <2>1
<1>7. Planted(t) /\ Growing(plants[t]) /\ plants[t].kind = g.kind
  BY <1>2 DEF Fresh
<1> QED BY <1>2, <1>3, <1>5, <1>6, <1>7 DEF Fresh, a

\* A fresh copy saved over a growing plant leaves the plant the copy was aged to.
LEMMA SaveLemma ==
  ASSUME NEW t \in Tiles, NEW job \in Tasks, Fresh(t, job), GoodPlant(plants[t])
  PROVE  /\ GoodPlant(Persisted(t, job))
         /\ Persisted(t, job).left = job.mem.left
         /\ Persisted(t, job).state = FullyMatured <=> job.mem.state = FullyMatured
<1> DEFINE q == Persisted(t, job)
<1>1. /\ Planted(t) /\ plants[t] \in PlantInfos /\ plants[t].state # FullyMatured
      /\ job.mem \in PlantInfos /\ job.modified \in SUBSET WorkerPaths
  BY DEF Fresh, Growing, GoodPlant, Tasks
<1>2. CASE job.modified = {}
  <2>1. q = plants[t]
    BY <1>2 DEF Persisted
  <2>2. job.mem.left = plants[t].left /\ job.mem.state # FullyMatured
    BY <1>2 DEF Fresh
  <2> HIDE DEF q
  <2>3. GoodPlant(q) /\ q.left = job.mem.left
        /\ (q.state = FullyMatured <=> job.mem.state = FullyMatured)
    BY <1>1, <2>1, <2>2
  <2> QED BY <2>3 DEF q
<1>3. CASE job.modified # {}
  <2>1. q = Saved(plants[t], job.mem, job.modified)
    BY <1>1, <1>3 DEF Persisted
  <2>2. /\ q \in PlantInfos /\ q.kind = plants[t].kind
        /\ q.stage = IF "stage" \in job.modified THEN job.mem.stage ELSE plants[t].stage
        /\ q.state = IF "state" \in job.modified THEN job.mem.state ELSE plants[t].state
        /\ q.desired = IF "desired" \in job.modified THEN job.mem.desired ELSE plants[t].desired
        /\ q.min = IF "min" \in job.modified THEN job.mem.min ELSE plants[t].min
        /\ q.left = IF "left" \in job.modified THEN job.mem.left ELSE plants[t].left
    BY <1>1, <2>1, SavedLemma
  <2> HIDE DEF q
  <2>3. /\ q.stage = job.mem.stage /\ q.desired = job.mem.desired
        /\ q.min = job.mem.min /\ q.left = job.mem.left
    BY <2>2 DEF Fresh
  <2>4. q.state = FullyMatured <=> job.mem.state = FullyMatured
    BY <1>1, <2>2 DEF Fresh
  <2>5. Shape(q)
    BY <2>3, <2>4 DEF Fresh, Shape, NotOverdrawn
  <2>6. GoodPlant(q)
    BY <1>1, <2>2, <2>5 DEF GoodPlant
  <2> QED BY <2>3, <2>4, <2>6 DEF q
<1> QED BY <1>2, <1>3

\* With one worker a task of any tile belongs to the worker that takes the step.
LEMMA SavesSafe ==
  ASSUME Inductive, SingleWorker, NEW w \in Workers, NEW t \in Tiles, NEW roll \in RollChoices,
         WorkerSaves(w, t, roll)
  PROVE  Inductive'
<1> DEFINE job == Aged(task[w][t], roll)
           p == Persisted(t, job)
<1>1. TypeOK'
  BY WorkOnType DEF Inductive, WorkOn
<1>2. /\ roll \in Rolls /\ task[w][t] \in Tasks /\ task[w][t] # NoTask
      /\ task[w][t].mem.kind \in Kinds
  BY FarmAssumption DEF WorkerSaves, Inductive, TypeOK
<1>3. job \in Tasks /\ Fresh(t, job)
  BY <1>2, AgedLemma, AgedFresh DEF Inductive
<1>4. /\ SetPlant(t, p) /\ task' = [task EXCEPT ![w][t] = NoTask]
      /\ ledger' = [ledger EXCEPT ![t].ripened = IF Ripens(t, job) THEN @ + job.mem.left ELSE @]
  BY DEF WorkerSaves
<1> HIDE DEF job
<1>5. Planted(t) /\ GoodPlant(plants[t]) /\ plants[t].state # FullyMatured /\ plants[t].left = 0
  BY <1>3 DEF Fresh, Inductive, Growing, GoodPlant, Shape
<1>6. /\ GoodPlant(p) /\ p.left = job.mem.left
      /\ p.state = FullyMatured <=> job.mem.state = FullyMatured
  BY <1>3, <1>5, SaveLemma
<1> HIDE DEF p
<1>7. p # NoPlant /\ p.left \in Int /\ (p.state # FullyMatured => p.left = 0)
  BY <1>6, FarmAssumption DEF GoodPlant, PlantInfos, Shape
<1>8. /\ plants'[t] = p
      /\ \A s \in Tiles : s # t => plants'[s] = plants[s]
  BY <1>4 DEF SetPlant, Inductive, TypeOK
<1>9. \A s \in Tiles : Planted(s)' => GoodPlant(plants'[s])
  BY <1>6, <1>8 DEF Inductive, Planted
<1>10. /\ \A s \in Tiles : s # t => ledger'[s] = ledger[s]
       /\ Balance(ledger'[t]) = p.left
  <2>1. ledger[t] \in [ripened : Int, taken : Int]
        /\ ledger \in [Tiles -> [ripened : Int, taken : Int]]
    BY DEF Inductive, TypeOK
  <2>2. \A s \in Tiles : s # t => ledger'[s] = ledger[s]
    BY <1>4, <2>1
  <2>3. Balance(ledger[t]) = 0
    BY <1>5 DEF Inductive, TileLedger, Left, Balance
  <2>4. Ripens(t, job) <=> p.state = FullyMatured
    BY <1>5, <1>6 DEF Ripens, Ripe
  <2>5. CASE Ripens(t, job)
    <3>1. ledger'[t] = [ledger[t] EXCEPT !.ripened = @ + p.left]
      BY <1>4, <1>6, <2>1, <2>5
    <3>2. Balance(ledger'[t]) = Balance(ledger[t]) + p.left
      BY <1>7, <2>1, <3>1 DEF Balance
    <3> QED BY <1>7, <2>2, <2>3, <3>2
  <2>6. CASE ~Ripens(t, job)
    <3>1. ledger'[t] = ledger[t]
      BY <1>4, <2>1, <2>6
    <3> QED BY <1>7, <2>2, <2>3, <2>4, <2>6, <3>1
  <2> QED BY <2>5, <2>6
<1>11. TileLedger'
  <2>1. Left(t)' = p.left
    BY <1>7, <1>8 DEF Left, Planted
  <2>2. ASSUME NEW s \in Tiles, s # t PROVE Balance(ledger'[s]) = Left(s)'
    BY <1>8, <1>10, <2>2 DEF Inductive, TileLedger, Left, Planted, Balance
  <2> QED BY <1>10, <2>1, <2>2 DEF TileLedger, Balance
<1>12. ASSUME NEW v \in Workers, NEW s \in Tiles, task'[v][s] # NoTask
       PROVE  Fresh(s, task[v][s])'
  <2>1. v = w
    BY DEF SingleWorker
  <2>2. s # t /\ task'[v][s] = task[v][s]
    BY <1>4, <1>12, <2>1 DEF Inductive, TypeOK
  <2>3. Fresh(s, task[v][s])
    BY <1>12, <2>2 DEF Inductive
  <2>4. plants'[s] = plants[s]
    BY <1>8, <2>2
  <2> QED BY <2>2, <2>3, <2>4 DEF Fresh, Planted
<1>13. \A v \in Workers, s \in Tiles : task'[v][s] # NoTask => Fresh(s, task[v][s])'
  BY <1>12
<1> QED BY <1>1, <1>9, <1>11, <1>13 DEF Inductive

LEMMA RetriesSafe ==
  ASSUME Inductive, NEW w \in Workers, NEW t \in Tiles, NEW roll \in RollChoices,
         WorkerRetries(w, t, roll)
  PROVE  Inductive'
<1> DEFINE job == Aged(task[w][t], roll)
           again == [job EXCEPT !.tries = job.tries + 1]
<1>1. TypeOK'
  BY WorkOnType DEF Inductive, WorkOn
<1>2. /\ roll \in Rolls /\ task[w][t] \in Tasks /\ task[w][t] # NoTask
      /\ task[w][t].mem.kind \in Kinds
  BY FarmAssumption DEF WorkerRetries, Inductive, TypeOK
<1>3. job \in Tasks /\ Fresh(t, job)
  BY <1>2, AgedLemma, AgedFresh DEF Inductive
<1>4. task' = [task EXCEPT ![w][t] = again] /\ UNCHANGED <<plants, ledger>>
  BY DEF WorkerRetries
<1>5. again.mem = job.mem /\ again.modified = job.modified
  BY <1>3 DEF Tasks
<1> HIDE DEF job, again
<1>6. Fresh(t, again)
  BY <1>3, <1>5 DEF Fresh
<1>7. ASSUME NEW v \in Workers, NEW s \in Tiles, task'[v][s] # NoTask
      PROVE  Fresh(s, task[v][s])'
  <2>1. task'[v][s] = (IF v = w /\ s = t THEN again ELSE task[v][s])
    BY <1>4 DEF Inductive, TypeOK
  <2>2. Fresh(s, task'[v][s])
    BY <1>6, <1>7, <2>1 DEF Inductive
  <2> QED BY <1>4, <2>2 DEF Fresh, Planted
<1>8. \A v \in Workers, s \in Tiles : task'[v][s] # NoTask => Fresh(s, task[v][s])'
  BY <1>7
<1> QED BY <1>1, <1>4, <1>8 DEF Inductive, TileLedger, Left, Planted

LEMMA FailsSafe ==
  ASSUME Inductive, NEW w \in Workers, NEW t \in Tiles, WorkerFails(w, t)
  PROVE  Inductive'
<1>1. TypeOK'
  BY WorkOnType DEF Inductive, WorkOn
<1>2. task' = [task EXCEPT ![w][t] = NoTask] /\ UNCHANGED <<plants, ledger>>
  BY DEF WorkerFails
<1>3. ASSUME NEW v \in Workers, NEW s \in Tiles, task'[v][s] # NoTask
      PROVE  Fresh(s, task[v][s])'
  <2>1. task'[v][s] = task[v][s]
    BY <1>2, <1>3 DEF Inductive, TypeOK
  <2> QED BY <1>2, <1>3, <2>1 DEF Inductive, Fresh, Planted
<1>4. \A v \in Workers, s \in Tiles : task'[v][s] # NoTask => Fresh(s, task[v][s])'
  BY <1>3
<1> QED BY <1>1, <1>2, <1>4 DEF Inductive, TileLedger, Left, Planted

\* The batch a worker reads holds growing plants only.
LEMMA ReadsSafe ==
  ASSUME Inductive, NEW w \in Workers, WorkerReads(w)
  PROVE  Inductive'
<1> DEFINE copy(t) == [mem |-> plants[t], modified |-> {}, time |-> Head(queue).time, tries |-> 0]
<1>1. TypeOK'
  BY ReadsType DEF Inductive
<1>2. /\ task' = [task EXCEPT ![w] = [t \in Tiles |->
                    IF t \in Batch(Head(queue)) THEN copy(t) ELSE NoTask]]
      /\ UNCHANGED <<plants, ledger>>
  BY DEF WorkerReads
<1>3. ASSUME NEW t \in Batch(Head(queue)) PROVE Fresh(t, copy(t))
  <2>1. Planted(t) /\ Growing(plants[t]) /\ t \in Tiles
    BY <1>3, BatchIsDue DEF Due
  <2>2. GoodPlant(plants[t])
    BY <2>1 DEF Inductive
  <2>3. copy(t).mem = plants[t] /\ copy(t).modified = {}
    OBVIOUS
  <2> HIDE DEF copy
  <2> QED BY <2>1, <2>2, <2>3 DEF Fresh, Growing, GoodPlant
<1> HIDE DEF copy
<1>4. ASSUME NEW v \in Workers, NEW s \in Tiles, task'[v][s] # NoTask
      PROVE  Fresh(s, task[v][s])'
  <2>1. CASE v = w
    <3>1. s \in Batch(Head(queue)) /\ task'[v][s] = copy(s)
      BY <1>2, <1>4, <2>1 DEF Inductive, TypeOK
    <3>2. Fresh(s, task'[v][s])
      BY <1>3, <3>1
    <3> QED BY <1>2, <3>2 DEF Fresh, Planted
  <2>2. CASE v # w
    <3>1. task'[v][s] = task[v][s]
      BY <1>2, <2>2 DEF Inductive, TypeOK
    <3>2. Fresh(s, task'[v][s])
      BY <1>4, <3>1 DEF Inductive
    <3> QED BY <1>2, <3>2 DEF Fresh, Planted
  <2> QED BY <2>1, <2>2
<1>5. \A v \in Workers, s \in Tiles : task'[v][s] # NoTask => Fresh(s, task[v][s])'
  BY <1>4
<1> QED BY <1>1, <1>2, <1>5 DEF Inductive, TileLedger, Left, Planted

LEMMA InductiveStep ==
  ASSUME Inductive, SingleWorker, TypeOK', [Next]_vars
  PROVE  Inductive'
<1>1. ASSUME UNCHANGED <<plants, ledger, task>> PROVE Inductive'
  BY <1>1 DEF Inductive, TileLedger, Left, Planted, Fresh
<1>2. ASSUME NEW u \in Users, NEW t \in Tiles, Own(u, t) \/ Visit(u, t) PROVE Inductive'
  BY <1>2, OwnSafe, VisitSafe
<1>3. ASSUME NEW time \in TickTimes, Schedule(time) PROVE Inductive'
  BY <1>1, <1>3 DEF Schedule
<1>4. ASSUME NEW w \in Workers, WorkerReads(w) \/ WorkerDropsJob(w) PROVE Inductive'
  BY <1>1, <1>4, ReadsSafe DEF WorkerDropsJob
<1>5. ASSUME NEW w \in Workers, NEW t \in Tiles, WorkOn(w, t) PROVE Inductive'
  BY <1>5, SavesSafe, RetriesSafe, FailsSafe DEF WorkOn
<1>6. CASE UNCHANGED vars
  BY <1>1, <1>6 DEF vars
<1> QED BY <1>2, <1>3, <1>4, <1>5, <1>6 DEF Next

\* One worker: the inductive invariant, which ties the copy a worker holds to the plant
\* as the handlers have left it.
THEOREM InductiveInvariant ==
  ASSUME SingleWorker
  PROVE  Spec => []Inductive
<1>1. Init => Inductive
  <2> SUFFICES ASSUME Init, TypeOK PROVE Inductive
    BY InitType
  <2>1. \A t \in Tiles : ~Planted(t) /\ ledger[t].ripened = 0 /\ ledger[t].taken = 0
    BY DEF Init, Planted
  <2>2. \A w \in Workers, t \in Tiles : task[w][t] = NoTask
    BY DEF Init
  <2> QED BY <2>1, <2>2 DEF Inductive, TileLedger, Left
<1>2. Inductive /\ TypeOK' /\ [Next]_vars => Inductive'
  BY InductiveStep
<1> QED BY <1>1, <1>2, TypeCorrect, PTL DEF Spec

\* One worker, retries and stale copies notwithstanding: nobody harvests, robs or
\* replaces a plant between the read and the save of the worker.
THEOREM HeldTilesKeepGrowing ==
  ASSUME SingleWorker
  PROVE  Spec => []HeldPlantsGrow
<1>1. Inductive => HeldPlantsGrow
  BY DEF Inductive, Fresh, HeldPlantsGrow
<1> QED BY <1>1, InductiveInvariant, PTL

\* One worker: what ripened on a tile and was not taken from it still hangs there.
THEOREM LedgerBalanced ==
  ASSUME SingleWorker
  PROVE  Spec => []TileLedger
<1>1. Inductive => TileLedger
  BY DEF Inductive
<1> QED BY <1>1, InductiveInvariant, PTL

\* One worker, any number of thieves, any quantities: a plant is never overdrawn by
\* more than the bonus of one cat.
THEOREM NeverOverdrawn ==
  ASSUME SingleWorker
  PROVE  Spec => []LeftWithinBounds
<1>1. Inductive => LeftWithinBounds
  BY DEF Inductive, GoodPlant, Shape, NotOverdrawn, LeftWithinBounds, Ripe
<1> QED BY <1>1, InductiveInvariant, PTL

\* One worker: stage and state, saved as separate paths, agree on ripeness.
THEOREM RipenessAgrees ==
  ASSUME SingleWorker
  PROVE  Spec => []RipeExactlyAtLastStage
<1>1. Inductive => RipeExactlyAtLastStage
  BY DEF Inductive, GoodPlant, Shape, RipeExactlyAtLastStage, Ripe
<1> QED BY <1>1, InductiveInvariant, PTL

-----------------------------------------------------------------------------
(* Who changes a plant.  Every player handler that changes one also gives  *)
(* experiences to some user, so a step that changes a plant and no user is *)
(* a worker's save.                                                        *)

LEMMA ExperienceShows ==
  ASSUME NEW f \in Farmers, NEW e \in Nat \ {0}
  PROVE  /\ AddExperiences(f, e).experiences # f.experiences \/ AddExperiences(f, e).level # f.level
         /\ AddExperiences(f, e).energy = f.energy
<1> DEFINE quota == ExperiencesQuota(f.level)
           up == [f EXCEPT !.experiences = @ + e - quota, !.level = @ + 1]
           same == [f EXCEPT !.experiences = @ + e]
<1>1. AddExperiences(f, e) = IF f.experiences + e >= quota THEN up ELSE same
  BY DEF AddExperiences
<1>2. f.experiences \in Nat /\ f.level \in Nat
  BY DEF Farmers
<1>3. up.level = f.level + 1 /\ up.energy = f.energy
  BY DEF Farmers
<1>4. same.experiences = f.experiences + e /\ same.energy = f.energy
  BY DEF Farmers
<1> HIDE DEF up, same, quota
<1> QED BY <1>1, <1>2, <1>3, <1>4

LEMMA NeverDemoted ==
  ASSUME NEW f \in Farmers, NEW e \in Nat \ {0}
  PROVE  /\ AddExperiences(f, e).level >= f.level
         /\ AddExperiences(f, e).level = f.level => AddExperiences(f, e).experiences > f.experiences
<1> DEFINE quota == ExperiencesQuota(f.level)
           up == [f EXCEPT !.experiences = @ + e - quota, !.level = @ + 1]
           same == [f EXCEPT !.experiences = @ + e]
<1>1. AddExperiences(f, e) = IF f.experiences + e >= quota THEN up ELSE same
  BY DEF AddExperiences
<1>2. f.experiences \in Nat /\ f.level \in Nat
  BY DEF Farmers
<1>3. up.level = f.level + 1
  BY DEF Farmers
<1>4. same.experiences = f.experiences + e /\ same.level = f.level
  BY DEF Farmers
<1> HIDE DEF up, same, quota
<1> QED BY <1>1, <1>2, <1>3, <1>4

LEMMA WorkShows ==
  ASSUME NEW f \in Farmers, NEW n \in Nat, NEW e \in Nat \ {0}, CanSpend(f, n)
  PROVE  Work(f, n, e) # f
<1>1. SpendEnergy(f, n) \in Farmers
  BY SpendEnergyType
<1>2. SpendEnergy(f, n).experiences = f.experiences /\ SpendEnergy(f, n).level = f.level
  BY DEF SpendEnergy, Farmers
<1>3. Work(f, n, e).experiences # f.experiences \/ Work(f, n, e).level # f.level
  BY <1>1, <1>2, ExperienceShows DEF Work
<1> QED BY <1>3

LEMMA ChargeShows ==
  ASSUME TypeOK, NEW u \in Users, NEW activity \in Activities, Charge(u, activity)
  PROVE  users' # users
<1>1. users[u] \in Farmers /\ EnergyConsume[activity] \in Nat /\ ExperiencesGain[activity] \in Nat \ {0}
  BY FarmAssumption DEF TypeOK
<1>2. Work(users[u], EnergyConsume[activity], ExperiencesGain[activity]) # users[u]
  BY <1>1, WorkShows DEF Charge
<1>3. users'[u] = Work(users[u], EnergyConsume[activity], ExperiencesGain[activity])
  BY DEF Charge, TypeOK
<1> QED BY <1>2, <1>3

LEMMA PlayersLearn ==
  ASSUME TypeOK, NEW u \in Users, NEW t \in Tiles, Own(u, t) \/ Visit(u, t)
  PROVE  users' # users \/ plants' = plants
<1>1. ASSUME PlantSeed(u, t) PROVE users' # users
  BY <1>1, ChargeShows, PlantsAKind DEF Plant, Activities
<1>2. ASSUME NEW tool, NEW ailment, NEW activity \in Activities,
             Cure(u, t, tool, ailment, activity)
      PROVE  users' # users
  BY <1>2, ChargeShows DEF Cure
<1>3. ASSUME NEW v \in Users, UseFertilizer(u, t, v) PROVE users' # users
  BY <1>3, ChargeShows DEF UseFertilizer, Activities
<1>4. ASSUME HarvestPlant(u, t) PROVE users' # users
  <2> DEFINE n == EnergyConsume["harvestPlant"]
             e == HarvestExperiences[plants[t].quality]
  <2>1. plants[t].quality \in BOOLEAN /\ users[u] \in Farmers
    BY <1>4 DEF HarvestPlant, Ripe, Planted, TypeOK, PlantInfos
  <2>2. n \in Nat /\ e \in Nat \ {0}
    BY <2>1, FarmAssumption DEF Activities
  <2>3. users' = [users EXCEPT ![u] = Work(@, n, e)] /\ CanSpend(users[u], n)
    BY <1>4 DEF HarvestPlant
  <2> HIDE DEF n, e
  <2>4. Work(users[u], n, e) # users[u]
    BY <2>1, <2>2, <2>3, WorkShows
  <2>5. users'[u] = Work(users[u], n, e)
    BY <2>3 DEF TypeOK
  <2> QED BY <2>4, <2>5
<1>5. ASSUME RemovePlant(u, t) PROVE plants' = plants
  BY <1>5 DEF RemovePlant, SetPlant, Planted, TypeOK
<1>6. ASSUME ThiefBitten(u, t) PROVE users' # users
  <2> DEFINE o == Owner[t]
  <2>1. o \in Users /\ o # u /\ users[o] \in Farmers /\ PetExperience \in Nat \ {0}
    BY <1>6, FarmAssumption DEF ThiefBitten, CanThieve, Neighbor, TypeOK
  <2>2. AddExperiences(users[o], PetExperience) # users[o]
    BY <2>1, ExperienceShows
  <2>3. users' = [users EXCEPT ![u] = SpendEnergy(@, DogEnergyReduce),
                               ![o] = AddExperiences(@, PetExperience)]
    BY <1>6 DEF ThiefBitten
  <2>4. users'[o] = AddExperiences(users[o], PetExperience)
    BY <2>1, <2>3 DEF TypeOK
  <2> QED BY <2>2, <2>4
<1>7. ASSUME NEW wanted \in StealQuantities, NEW cat \in BOOLEAN, ThiefSteals(u, t, wanted, cat)
      PROVE  users' # users
  <2> DEFINE thief == IF cat THEN AddExperiences(users[u], PetExperience) ELSE users[u]
             n == EnergyConsume["thiefPlant"]
             e == ExperiencesGain["thiefPlant"]
             g == SpendEnergy(thief, n)
  <2>1. users[u].energy >= n /\ n \in Nat /\ e \in Nat \ {0} /\ PetExperience \in Nat \ {0}
        /\ users[u] \in Farmers
    BY <1>7, FarmAssumption DEF ThiefSteals, CanThieve, CanSpend, TypeOK, Activities
  <2>2. thief \in Farmers /\ thief.level >= users[u].level /\ thief.energy = users[u].energy
        /\ (thief.level = users[u].level => thief.experiences >= users[u].experiences)
    <3> DEFINE up == AddExperiences(users[u], PetExperience)
    <3>1. /\ up \in Farmers /\ up.level >= users[u].level /\ up.energy = users[u].energy
          /\ up.level = users[u].level => up.experiences > users[u].experiences
      BY <2>1, NeverDemoted, AddExperiencesType, ExperienceShows
    <3>2. up.experiences \in Nat /\ users[u].experiences \in Nat /\ users[u].level \in Nat
      BY <2>1, <3>1 DEF Farmers
    <3> HIDE DEF up
    <3>3. thief = (IF cat THEN up ELSE users[u])
      BY DEF up
    <3> HIDE DEF thief
    <3> QED BY <2>1, <3>1, <3>2, <3>3
  <2> HIDE DEF thief, n, e
  <2>3. g \in Farmers /\ g.level = thief.level /\ g.experiences = thief.experiences
    <3>1. CanSpend(thief, n)
      BY <2>1, <2>2 DEF CanSpend
    <3>2. g \in Farmers
      BY <2>1, <2>2, <3>1, SpendEnergyType
    <3> QED BY <2>2, <3>2 DEF SpendEnergy, Farmers
  <2>4. users'[u] = AddExperiences(g, e)
    BY <1>7 DEF ThiefSteals, Work, TypeOK, thief, n, e
  <2> HIDE DEF g
  <2>5. AddExperiences(g, e).level >= g.level /\ AddExperiences(g, e).level \in Nat
        /\ AddExperiences(g, e).experiences \in Nat
        /\ (AddExperiences(g, e).level = g.level
              => AddExperiences(g, e).experiences > g.experiences)
    <3>1. AddExperiences(g, e) \in Farmers
      BY <2>1, <2>3, AddExperiencesType
    <3> QED BY <2>1, <2>3, <3>1, NeverDemoted DEF Farmers
  <2>6. users'[u] # users[u]
    BY <2>1, <2>2, <2>3, <2>4, <2>5 DEF Farmers
  <2> QED BY <2>6
<1> QED BY <1>1, <1>2, <1>3, <1>4, <1>5, <1>6, <1>7
    DEF Own, Visit, UseWateringCan, UsePesticide, UseHerbicide,
        HelpUseWateringCan, HelpUsePesticide, HelpUseHerbicide, Activities

\* One worker: what is not growing, be it waiting for water or for its harvest, is
\* changed by a player alone.
THEOREM WaitingPlantsLeftAlone ==
  ASSUME SingleWorker
  PROVE  Spec => WorkersLeaveWaitingPlants
<1> DEFINE Grows(t) ==
      plants'[t] # plants[t] /\ users' = users => Planted(t) /\ Growing(plants[t])
<1>1. ASSUME Inductive, [Next]_vars, NEW t \in Tiles PROVE Grows(t)
  <2>1. ASSUME plants' = plants PROVE Grows(t)
    BY <2>1
  <2>2. ASSUME NEW w \in Workers, NEW s \in Tiles, NEW roll \in RollChoices, WorkerSaves(w, s, roll)
        PROVE  Grows(t)
    <3>1. Planted(s) /\ Growing(plants[s])
      BY <1>1, <2>2 DEF WorkerSaves, Inductive, Fresh
    <3>2. s # t => plants'[t] = plants[t]
      BY <1>1, <2>2 DEF WorkerSaves, SetPlant, Inductive, TypeOK
    <3> QED BY <3>1, <3>2
  <2> HIDE DEF Grows
  <2>3. ASSUME NEW u \in Users, NEW s \in Tiles, Own(u, s) \/ Visit(u, s) PROVE Grows(t)
    <3>1. users' # users \/ plants' = plants
      BY <1>1, <2>3, PlayersLearn DEF Inductive
    <3> QED BY <2>1, <3>1 DEF Grows
  <2>4. ASSUME NEW w \in Workers, NEW s \in Tiles, WorkOn(w, s) PROVE Grows(t)
    BY <2>1, <2>2, <2>4 DEF WorkOn, WorkerRetries, WorkerFails
  <2>5. ASSUME NEW time \in TickTimes, Schedule(time) PROVE Grows(t)
    BY <2>1, <2>5 DEF Schedule
  <2>6. ASSUME NEW w \in Workers, WorkerReads(w) \/ WorkerDropsJob(w) PROVE Grows(t)
    BY <2>1, <2>6 DEF WorkerReads, WorkerDropsJob
  <2>7. CASE UNCHANGED vars
    BY <2>1, <2>7 DEF vars
  <2> QED BY <1>1, <2>3, <2>4, <2>5, <2>6, <2>7 DEF Next
<1>2. Inductive /\ [Next]_vars
        => [\A t \in Tiles :
              plants'[t] # plants[t] /\ users' = users
                => Planted(t) /\ plants[t].state \notin {NeedWater, FullyMatured}]_vars
  BY <1>1 DEF Growing
<1> QED BY <1>2, InductiveInvariant, PTL DEF Spec, WorkersLeaveWaitingPlants
=============================================================================
