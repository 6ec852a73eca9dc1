--------------------------- MODULE NightlyProofs ---------------------------
(***************************************************************************)
(* What retention leaves, and over what the rollups are computed, for any  *)
(* tables, weeks to keep, window and clock, however many statements fail   *)
(* and wherever the process dies.                                          *)
(***************************************************************************)
EXTENDS Nightly, FiniteSetTheorems, TLAPS

-----------------------------------------------------------------------------
\* Hours, days and weeks.

LEMMA Dividing ==
    ASSUME NEW a \in Int, NEW n \in Nat \ {0}
    PROVE  a \div n \in Int /\ a % n \in 0..(n - 1) /\ a < n * (a \div n) + n
<1>1. a \div n \in Int
  OBVIOUS
<1>2. a % n \in 0..(n - 1)
  OBVIOUS
<1>3. a < n * (a \div n) + n
  OBVIOUS
<1> QED BY <1>1, <1>2, <1>3

\* Later hours are of no earlier day of the agency.
LEMMA DaysAscend ==
    ASSUME NEW g \in Int, NEW h \in Int, g <= h
    PROVE  /\ AgencyDay(g) \in Int /\ AgencyDay(h) \in Int
           /\ AgencyDay(g) <= AgencyDay(h)
<1>1. HoursPerDay \in Nat \ {0} /\ Lag \in Int
  BY NightlyAssumption
<1>2. ASSUME NEW a \in Int, NEW b \in Int, NEW n \in Nat \ {0}, a <= b
      PROVE  a \div n \in Int /\ b \div n \in Int /\ a \div n <= b \div n
  BY <1>2
<1>3. g - Lag \in Int /\ h - Lag \in Int /\ g - Lag <= h - Lag
  BY <1>1
<1> QED BY <1>1, <1>2, <1>3 DEF AgencyDay, Day

LEMMA WeekType ==
    ASSUME NEW d \in Int
    PROVE  WeekOf(d) \in Int
  BY NightlyAssumption, Dividing DEF WeekOf

LEMMA HoursPerWeekType == HoursPerWeek \in Nat
  BY NightlyAssumption DEF HoursPerWeek

\* What has expired by a reading of the clock was kept for the weeks to keep.
LEMMA ExpiredIsOld ==
    ASSUME NEW t \in Tables, NEW w \in Int, NEW at \in Int, Expired(t, w, at)
    PROVE  Keep[t] > 0 /\ at >= (w + 1 + Keep[t]) * HoursPerWeek
<1>1. Keep[t] \in Nat /\ HoursPerWeek \in Nat
  BY NightlyAssumption, HoursPerWeekType
<1>2. ASSUME NEW k \in Nat, NEW n \in Nat, (w + 1) * n <= at - k * n
      PROVE  at >= (w + 1 + k) * n
  BY <1>2
<1> QED BY <1>1, <1>2 DEF Expired

\* A finite set of numbers has a least one: by the well-foundedness of the sets
\* of those below.
LEMMA LeastOfFinite ==
    ASSUME NEW S \in SUBSET Int, S # {}, IsFiniteSet(S)
    PROVE  Min(S) \in S /\ \A y \in S : Min(S) <= y
<1> DEFINE Below(x) == {y \in S : y < x}
           T == {Below(x) : x \in S}
<1>1. IsWellFoundedOn(StrictSubsetOrdering(S), SUBSET S)
  BY FS_FiniteSubsetsOfFinite, FS_StrictSubsetOrderingWellFounded
<1>2. T \subseteq SUBSET S /\ T # {}
  OBVIOUS
<1>3. PICK s \in T : \A t \in T : <<t, s>> \notin StrictSubsetOrdering(S)
  <2> HIDE DEF T
  <2> QED BY <1>1, <1>2, WFMin
<1>4. PICK x \in S : s = Below(x)
  BY <1>3
<1>5. ASSUME NEW y \in S, y < x PROVE FALSE
  <2>1. Below(y) \in T /\ Below(y) \in SUBSET S /\ s \in SUBSET S
    BY <1>2, <1>3
  <2>2. Below(y) \subseteq Below(x) /\ y \in Below(x) /\ y \notin Below(y)
    <3>1. \A z \in S : z < y => z < x
      BY <1>5
    <3>2. Below(y) \subseteq Below(x)
      BY <3>1
    <3>3. y \in Below(x)
      BY <1>5
    <3>4. ~(y < y)
      OBVIOUS
    <3> QED BY <3>2, <3>3, <3>4
  <2> QED BY <1>3, <1>4, <2>1, <2>2 DEF StrictSubsetOrdering
<1>6. \A y \in S : x <= y
  BY <1>5
<1> QED BY <1>6 DEF Min

-----------------------------------------------------------------------------
\* Types.

Creations == [week: Int, table: Tables]

\* A table's partitions: the days held, by attached week.
Partitions == UNION {[W -> SUBSET Int] : W \in SUBSET Int}

ServePCs == {"down", "boot", "idle", "rollup", "ensure", "drop", "detached"}

Todos      == Seq(Creations)
TableSets  == SUBSET Tables
TableNames == Tables \cup {""}
WeekSets   == SUBSET Int

Serves == [pc: ServePCs, at: Int, todo: Todos, tables: TableSets, table: TableNames,
           weeks: WeekSets, end: Int, built: Int]

NightlyTypeOK ==
    /\ now \in Nat
    /\ part \in [Tables -> Partitions]
    /\ \A t \in Tables : IsFiniteSet(DOMAIN part[t])
    /\ deflt \in [Tables -> SUBSET Int]
    /\ stray \in [Tables -> SUBSET Int]
    /\ serve \in Serves
    /\ latch \in [rollup: Int, retention: Int]
    /\ replay \in [pc: {"idle", "running"}, day: Int, todo: Todos]
    /\ rollups \in [1..Rollups -> [end: Int, days: SUBSET Int]]
    /\ failures \in Nat
    /\ written \in [Tables -> SUBSET Int]

LEMMA PartitionsType ==
    ASSUME NEW f \in Partitions
    PROVE  DOMAIN f \subseteq Int /\ \A w \in DOMAIN f : f[w] \subseteq Int
  BY DEF Partitions

LEMMA PartitionsMade ==
    ASSUME NEW W \in SUBSET Int, NEW f \in [W -> SUBSET Int]
    PROVE  f \in Partitions /\ DOMAIN f = W
  BY DEF Partitions

\* EnsurePartitions goes through weeks and tables.
LEMMA EnsureListType ==
    ASSUME NEW from \in Int, NEW to \in Int
    PROVE  EnsureList(from, to) \in Seq(Creations)
<1> DEFINE n == Len(Parents)
           m == (to - from + 1) * n
<1>1. n \in Nat \ {0} /\ DOMAIN Parents = 1..n /\ \A i \in 1..n : Parents[i] \in Tables
  BY NightlyAssumption
<1> HIDE DEF n
<1>2. m \in Int
  BY <1>1
<1>3. ASSUME NEW i \in 1..m
      PROVE  [week |-> from + ((i - 1) \div n), table |-> Parents[((i - 1) % n) + 1]]
                \in Creations
  <2>1. (i - 1) \div n \in Int /\ (i - 1) % n \in 0..(n - 1)
    <3> HIDE DEF m
    <3>1. i - 1 \in Int
      BY <1>2
    <3> QED BY <1>1, <3>1, Dividing
  <2>2. from + ((i - 1) \div n) \in Int /\ ((i - 1) % n) + 1 \in 1..n
    BY <1>1, <2>1
  <2> QED BY <1>1, <2>2 DEF Creations
<1>4. ASSUME NEW k \in Nat, NEW f, f = [i \in 1..k |-> f[i]], \A i \in 1..k : f[i] \in Creations
      PROVE  f \in Seq(Creations)
  BY <1>4
<1>5. EnsureList(from, to)
        = [i \in 1..m |-> [week |-> from + ((i - 1) \div n),
                           table |-> Parents[((i - 1) % n) + 1]]]
  BY DEF EnsureList, n
<1> HIDE DEF m
<1>6. /\ EnsureList(from, to) = [i \in 1..m |-> EnsureList(from, to)[i]]
      /\ \A i \in 1..m : EnsureList(from, to)[i] \in Creations
  BY <1>3, <1>5
<1>7. CASE m \in Nat
  BY <1>4, <1>6, <1>7
<1>8. CASE m \notin Nat
  <2>1. 1..m = 1..0
    BY <1>2, <1>8
  <2> HIDE DEF EnsureList
  <2> QED BY <1>4, <1>6, <2>1
<1> QED
  BY <1>7, <1>8

-----------------------------------------------------------------------------
\* What the statements do to the partitions.

\* CREATE TABLE IF NOT EXISTS attaches an empty partition or none.
LEMMA CreatesOne ==
    ASSUME NightlyTypeOK, NEW c \in Creations, Creates(c)
    PROVE  /\ part' \in [Tables -> Partitions]
           /\ \A t \in Tables :
                /\ DOMAIN part[t] \subseteq DOMAIN part'[t]
                /\ DOMAIN part'[t] \subseteq DOMAIN part[t] \cup {c.week}
                /\ \A w \in DOMAIN part[t] : part'[t][w] = part[t][w]
                /\ \A w \in DOMAIN part'[t] \ DOMAIN part[t] : part'[t][w] = {}
<1> DEFINE new == [w \in DOMAIN part[c.table] \cup {c.week} |->
                     IF w = c.week THEN {} ELSE part[c.table][w]]
<1>1. /\ part \in [Tables -> Partitions] /\ c.week \in Int /\ c.table \in Tables
      /\ part[c.table] \in Partitions
  BY DEF NightlyTypeOK, Creations
<1>2. CASE part' = part
  BY <1>1, <1>2
<1>3. CASE part' = [part EXCEPT ![c.table] = new] /\ c.week \notin DOMAIN part[c.table]
  <2>1. /\ DOMAIN part[c.table] \subseteq Int
        /\ \A w \in DOMAIN part[c.table] : part[c.table][w] \subseteq Int
    BY <1>1, PartitionsType
  <2>2. new \in [DOMAIN part[c.table] \cup {c.week} -> SUBSET Int]
    BY <2>1
  <2>3. new \in Partitions /\ DOMAIN new = DOMAIN part[c.table] \cup {c.week}
    BY <1>1, <2>1, <2>2, PartitionsMade
  <2>4. /\ \A w \in DOMAIN part[c.table] : new[w] = part[c.table][w]
        /\ new[c.week] = {}
    BY <1>3
  <2> HIDE DEF new
  <2>5. /\ part' \in [Tables -> Partitions] /\ part'[c.table] = new
        /\ \A t \in Tables : t # c.table => part'[t] = part[t]
    BY <1>1, <1>3, <2>3
  <2> QED BY <2>3, <2>4, <2>5
<1> QED
  BY <1>2, <1>3 DEF Creates

\* A row is held where it is routed, with everything held before.
LEMMA RoutesOne ==
    ASSUME NightlyTypeOK, NEW t \in Tables, NEW d \in Int, Routes(t, d)
    PROVE  /\ part' \in [Tables -> Partitions]
           /\ deflt' \in [Tables -> SUBSET Int]
           /\ written' \in [Tables -> SUBSET Int]
           /\ \A u \in Tables :
                /\ DOMAIN part'[u] = DOMAIN part[u]
                /\ \A w \in DOMAIN part[u] : part[u][w] \subseteq part'[u][w]
                /\ \A w \in DOMAIN part[u] :
                     \A e \in part'[u][w] : e \in part[u][w] \/ (e = d /\ w = WeekOf(d))
                /\ deflt[u] \subseteq deflt'[u]
                /\ \A e \in written'[u] : e \in written[u] \/ (u = t /\ e = d)
           /\ \/ d \in deflt'[t]
              \/ WeekOf(d) \in DOMAIN part[t] /\ d \in part'[t][WeekOf(d)]
<1>1. /\ part \in [Tables -> Partitions] /\ part[t] \in Partitions
      /\ deflt \in [Tables -> SUBSET Int] /\ written \in [Tables -> SUBSET Int]
  BY DEF NightlyTypeOK
<1>2. /\ written' \in [Tables -> SUBSET Int]
      /\ \A u \in Tables : \A e \in written'[u] : e \in written[u] \/ (u = t /\ e = d)
  BY <1>1 DEF Routes
<1>3. CASE WeekOf(d) \in DOMAIN part[t]
  <2> DEFINE new == [part[t] EXCEPT ![WeekOf(d)] = @ \cup {d}]
  <2>1. part' = [part EXCEPT ![t] = new] /\ deflt' = deflt
    BY <1>1, <1>3 DEF Routes
  <2>2. part[t] \in [DOMAIN part[t] -> SUBSET Int] /\ DOMAIN part[t] \subseteq Int
    BY <1>1 DEF Partitions
  <2>3. new \in [DOMAIN part[t] -> SUBSET Int]
    BY <1>3, <2>2
  <2>4. new \in Partitions /\ DOMAIN new = DOMAIN part[t]
    BY <2>2, <2>3, PartitionsMade
  <2>5. \A w \in DOMAIN part[t] :
          new[w] = IF w = WeekOf(d) THEN part[t][w] \cup {d} ELSE part[t][w]
    BY <1>3, <2>2
  <2> HIDE DEF new
  <2>6. /\ part' \in [Tables -> Partitions] /\ part'[t] = new
        /\ \A u \in Tables : u # t => part'[u] = part[u]
    BY <1>1, <2>1, <2>4
  <2> QED BY <1>1, <1>2, <1>3, <2>1, <2>4, <2>5, <2>6
<1>4. CASE WeekOf(d) \notin DOMAIN part[t]
  <2>1. part' = part /\ deflt' = [deflt EXCEPT ![t] = @ \cup {d}]
    BY <1>4 DEF Routes
  <2> QED BY <1>1, <1>2, <2>1
<1> QED
  BY <1>3, <1>4

\* DETACH takes the oldest of the expired partitions, and nothing else.
LEMMA DetachesOne ==
    ASSUME NightlyTypeOK, Detach, serve.table \in Tables, IsFiniteSet(serve.weeks)
    PROVE  /\ part' \in [Tables -> Partitions]
           /\ Min(serve.weeks) \in serve.weeks
           /\ \A t \in Tables :
                /\ DOMAIN part'[t] = IF t = serve.table
                                     THEN DOMAIN part[t] \ {Min(serve.weeks)}
                                     ELSE DOMAIN part[t]
                /\ \A w \in DOMAIN part'[t] : part'[t][w] = part[t][w]
<1> DEFINE w0 == Min(serve.weeks)
           s  == serve.table
           new == [v \in DOMAIN part[s] \ {w0} |-> part[s][v]]
<1>1. part \in [Tables -> Partitions] /\ part[s] \in Partitions /\ serve.weeks \in SUBSET Int
  BY DEF NightlyTypeOK, Serves, WeekSets
<1>2. w0 \in serve.weeks
  BY <1>1, LeastOfFinite DEF Detach
<1> HIDE DEF w0
<1>3. part' = [part EXCEPT ![s] = new]
  BY <1>1 DEF Detach, w0
<1>4. /\ DOMAIN part[s] \subseteq Int
      /\ \A w \in DOMAIN part[s] : part[s][w] \subseteq Int
  BY <1>1, PartitionsType
<1>5. new \in [DOMAIN part[s] \ {w0} -> SUBSET Int]
  BY <1>4
<1>6. new \in Partitions /\ DOMAIN new = DOMAIN part[s] \ {w0}
  BY <1>4, <1>5, PartitionsMade
<1>7. \A w \in DOMAIN part[s] \ {w0} : new[w] = part[s][w]
  OBVIOUS
<1> HIDE DEF new, s
<1>8. /\ part' \in [Tables -> Partitions] /\ part'[s] = new
      /\ \A t \in Tables : t # s => part'[t] = part[t]
  BY <1>1, <1>3, <1>6 DEF s
<1> QED
  BY <1>1, <1>2, <1>6, <1>7, <1>8 DEF w0, s

-----------------------------------------------------------------------------
\* The types are an invariant.

LEMMA ServedDays == \A t \in Tables : \A d \in Serviced[t] : d \in Int
  BY NightlyAssumption

LEMMA ServiceDaysType == ServiceDays \subseteq Int
  BY ServedDays DEF ServiceDays

\* What the steps of the serving process change of its record, one field at a
\* time.
LEMMA ServeFields ==
    ASSUME NEW s \in Serves
    PROVE  /\ \A pc \in ServePCs : [s EXCEPT !.pc = pc] \in Serves
           /\ \A at \in Int : [s EXCEPT !.at = at] \in Serves
           /\ \A todo \in Todos : [s EXCEPT !.todo = todo] \in Serves
           /\ \A tables \in TableSets : [s EXCEPT !.tables = tables] \in Serves
           /\ \A table \in TableNames : [s EXCEPT !.table = table] \in Serves
           /\ \A weeks \in WeekSets : [s EXCEPT !.weeks = weeks] \in Serves
           /\ \A end \in Int : [s EXCEPT !.end = end] \in Serves
           /\ \A built \in Int : [s EXCEPT !.built = built] \in Serves
  BY DEF Serves

LEMMA ServeTodo ==
    ASSUME NEW s \in Serves, NEW pc \in ServePCs, NEW todo \in Todos
    PROVE  [s EXCEPT !.pc = pc, !.todo = todo] \in Serves
<1>1. [s EXCEPT !.pc = pc, !.todo = todo] = [[s EXCEPT !.pc = pc] EXCEPT !.todo = todo]
  OBVIOUS
<1> QED BY <1>1, ServeFields

LEMMA ServeRollup ==
    ASSUME NEW s \in Serves, NEW pc \in ServePCs, NEW end \in Int, NEW built \in Int
    PROVE  [s EXCEPT !.pc = pc, !.end = end, !.built = built] \in Serves
<1>1. [s EXCEPT !.pc = pc, !.end = end, !.built = built]
        = [[[s EXCEPT !.pc = pc] EXCEPT !.end = end] EXCEPT !.built = built]
  OBVIOUS
<1>2. [[s EXCEPT !.pc = pc] EXCEPT !.end = end] \in Serves
  BY ServeFields
<1> QED BY <1>1, <1>2, ServeFields

LEMMA ServeDrops ==
    ASSUME NEW s \in Serves, NEW pc \in ServePCs, NEW at \in Int, NEW todo \in Todos,
           NEW weeks \in WeekSets, NEW tables \in TableSets
    PROVE  [s EXCEPT !.pc = pc, !.at = at, !.todo = todo, !.weeks = weeks, !.tables = tables]
              \in Serves
<1>1. [s EXCEPT !.pc = pc, !.at = at, !.todo = todo, !.weeks = weeks, !.tables = tables]
        = [[[[[s EXCEPT !.pc = pc] EXCEPT !.at = at] EXCEPT !.todo = todo]
              EXCEPT !.weeks = weeks] EXCEPT !.tables = tables]
  OBVIOUS
<1>2. [[s EXCEPT !.pc = pc] EXCEPT !.at = at] \in Serves
  BY ServeFields
<1>3. [[[s EXCEPT !.pc = pc] EXCEPT !.at = at] EXCEPT !.todo = todo] \in Serves
  BY <1>2, ServeFields
<1>4. [[[[s EXCEPT !.pc = pc] EXCEPT !.at = at] EXCEPT !.todo = todo]
         EXCEPT !.weeks = weeks] \in Serves
  BY <1>3, ServeFields
<1> QED BY <1>1, <1>4, ServeFields

LEMMA ServeList ==
    ASSUME NEW s \in Serves, NEW tables \in TableSets, NEW table \in TableNames,
           NEW weeks \in WeekSets
    PROVE  [s EXCEPT !.tables = tables, !.table = table, !.weeks = weeks] \in Serves
<1>1. [s EXCEPT !.tables = tables, !.table = table, !.weeks = weeks]
        = [[[s EXCEPT !.tables = tables] EXCEPT !.table = table] EXCEPT !.weeks = weeks]
  OBVIOUS
<1>2. [[s EXCEPT !.tables = tables] EXCEPT !.table = table] \in Serves
  BY ServeFields
<1> QED BY <1>1, <1>2, ServeFields

LEMMA ServeWeeks ==
    ASSUME NEW s \in Serves, NEW pc \in ServePCs, NEW weeks \in WeekSets
    PROVE  [s EXCEPT !.pc = pc, !.weeks = weeks] \in Serves
<1>1. [s EXCEPT !.pc = pc, !.weeks = weeks] = [[s EXCEPT !.pc = pc] EXCEPT !.weeks = weeks]
  OBVIOUS
<1> QED BY <1>1, ServeFields

LEMMA ServeStates ==
    /\ Down \in Serves /\ Idle \in Serves
    /\ serve \in Serves /\ now \in Int => Drops \in Serves
<1>1. << >> \in Todos
  BY DEF Todos
<1>2. Down \in Serves
  BY <1>1 DEF Down, Serves, ServePCs, TableSets, TableNames, WeekSets
<1>3. Idle \in Serves
  BY <1>2, ServeFields DEF Idle, ServePCs
<1>4. {t \in Tables : Keep[t] > 0} \in TableSets /\ {} \in WeekSets /\ "drop" \in ServePCs
  BY DEF TableSets, WeekSets, ServePCs
<1>5. ASSUME serve \in Serves, now \in Int PROVE Drops \in Serves
  BY <1>1, <1>4, <1>5, ServeDrops DEF Drops
<1> QED BY <1>2, <1>3, <1>5

LEMMA NightlyTypesInit == Init => NightlyTypeOK
<1> SUFFICES ASSUME Init PROVE NightlyTypeOK
  OBVIOUS
<1>1. << >> \in Partitions /\ IsFiniteSet(DOMAIN << >>)
  <2>1. DOMAIN << >> = {}
    OBVIOUS
  <2>2. << >> \in [{} -> SUBSET Int]
    OBVIOUS
  <2>3. << >> \in Partitions
    BY <2>2 DEF Partitions
  <2> QED BY <2>1, <2>3, FS_EmptySet
<1>2. serve \in Serves
  BY ServeStates DEF Init
<1>3. part \in [Tables -> Partitions] /\ \A t \in Tables : part[t] = << >>
  BY <1>1 DEF Init
<1>4. now \in Nat /\ rollups \in [1..Rollups -> [end: Int, days: SUBSET Int]]
  BY NightlyAssumption DEF Init
<1>5. /\ latch \in [rollup: Int, retention: Int]
      /\ replay \in [pc: {"idle", "running"}, day: Int, todo: Todos]
      /\ failures \in Nat
  BY DEF Init, NoLatch, NoReplay, Todos
<1>6. \A t \in Tables : IsFiniteSet(DOMAIN part[t])
  BY <1>1, <1>3
<1> QED
  BY <1>2, <1>3, <1>4, <1>5, <1>6 DEF Init, NightlyTypeOK

\* The partitions stay finitely many, typed, under each statement on them.
LEMMA StatementsTyped ==
    ASSUME NightlyTypeOK,
           \/ \E c \in Creations : Creates(c)
           \/ \E t \in Tables, d \in Int : Routes(t, d)
           \/ Detach /\ serve.table \in Tables /\ IsFiniteSet(serve.weeks)
           \/ part' = part
    PROVE  /\ part' \in [Tables -> Partitions]
           /\ \A t \in Tables : IsFiniteSet(DOMAIN part'[t])
<1>0. \A t \in Tables : IsFiniteSet(DOMAIN part[t])
  BY DEF NightlyTypeOK
<1>1. ASSUME NEW c \in Creations, Creates(c)
      PROVE  /\ part' \in [Tables -> Partitions]
             /\ \A t \in Tables : IsFiniteSet(DOMAIN part'[t])
  <2>1. ASSUME NEW t \in Tables PROVE IsFiniteSet(DOMAIN part'[t])
    <3>1. IsFiniteSet(DOMAIN part[t] \cup {c.week})
      BY <1>0, FS_AddElement
    <3>2. DOMAIN part'[t] \subseteq DOMAIN part[t] \cup {c.week}
      BY <1>1, CreatesOne
    <3> QED BY <3>1, <3>2, FS_Subset
  <2> QED BY <1>1, <2>1, CreatesOne
<1>2. ASSUME NEW t \in Tables, NEW d \in Int, Routes(t, d)
      PROVE  /\ part' \in [Tables -> Partitions]
             /\ \A u \in Tables : IsFiniteSet(DOMAIN part'[u])
  <2>1. part' \in [Tables -> Partitions] /\ \A u \in Tables : DOMAIN part'[u] = DOMAIN part[u]
    BY <1>2, RoutesOne
  <2> QED BY <1>0, <2>1
<1>3. ASSUME Detach, serve.table \in Tables, IsFiniteSet(serve.weeks)
      PROVE  /\ part' \in [Tables -> Partitions]
             /\ \A t \in Tables : IsFiniteSet(DOMAIN part'[t])
  <2>1. /\ part' \in [Tables -> Partitions]
        /\ \A t \in Tables : DOMAIN part'[t] \subseteq DOMAIN part[t]
    BY <1>3, DetachesOne
  <2> QED BY <1>0, <2>1, FS_Subset
<1> QED
  BY <1>0, <1>1, <1>2, <1>3 DEF NightlyTypeOK

\* While old partitions are dropped, their clock reading is not ahead, their
\* table is one of the tables, and they are finitely many and expired.
DropsExpired ==
    serve.pc \in {"drop", "detached"} =>
        /\ serve.at <= now
        /\ IsFiniteSet(serve.weeks)
        /\ \A w \in serve.weeks : Expired(serve.table, w, serve.at)
        /\ serve.weeks # {} => serve.table \in Tables
        /\ serve.pc = "detached" => serve.weeks # {}

LEMMA NightlyTypesNext == NightlyTypeOK /\ DropsExpired /\ [Next]_vars => NightlyTypeOK'
<1> SUFFICES ASSUME NightlyTypeOK, DropsExpired, [Next]_vars PROVE NightlyTypeOK'
  OBVIOUS
<1>0. /\ now \in Nat /\ Ahead \in Nat /\ serve \in Serves
      /\ HoursPerWeek \in Nat
      /\ rollups \in [1..Rollups -> [end: Int, days: SUBSET Int]]
      /\ \A t \in Tables : deflt[t] \subseteq Int
      /\ latch \in [rollup: Int, retention: Int]
      /\ replay \in [pc: {"idle", "running"}, day: Int, todo: Todos]
  BY NightlyAssumption, HoursPerWeekType DEF NightlyTypeOK
<1>1. \A h \in Int : AgencyDay(h) \in Int /\ Day(h) \in Int /\ WeekAt(h) \in Int
  <2>1. \A h \in Int : AgencyDay(h) \in Int
    BY DaysAscend
  <2>2. \A h \in Int : Day(h) \in Int
    BY NightlyAssumption, Dividing DEF Day
  <2> QED BY <2>1, <2>2, WeekType DEF WeekAt
<1>e. \A from, to \in Int : EnsureList(from, to) \in Todos
  BY EnsureListType DEF Todos
<1>2. \A x \in Todos : x # << >> => Head(x) \in Creations /\ Tail(x) \in Todos
  BY DEF Todos
<1>f. /\ serve.pc \in ServePCs /\ serve.todo \in Todos /\ serve.built \in Int
      /\ serve.end \in Int /\ serve.weeks \in WeekSets /\ serve.tables \in TableSets
  BY <1>0 DEF Serves
<1> DEFINE PartTyped == /\ part' \in [Tables -> Partitions]
                        /\ \A t \in Tables : IsFiniteSet(DOMAIN part'[t])
<1>p. part' = part => PartTyped
  BY DEF NightlyTypeOK
<1>3. CASE Boot
  <2>1. /\ now - HoursPerWeek \in Int /\ now + Ahead * HoursPerWeek \in Int
    BY <1>0
  <2>3. WeekAt(now - HoursPerWeek) \in Int /\ WeekAt(now + Ahead * HoursPerWeek) \in Int
    BY <1>1, <2>1
  <2>2. serve' \in Serves
    BY <1>3, <1>e, <2>3, ServeStates, ServeTodo DEF Boot, ServePCs
  <2> QED BY <1>3, <1>p, <2>2 DEF Boot, NoLatch, NightlyTypeOK
<1>4. CASE CreatePartition
  <2>1. PartTyped
    BY <1>2, <1>4, <1>f, StatementsTyped DEF CreatePartition
  <2>2. serve' \in Serves
    BY <1>0, <1>2, <1>4, <1>f, ServeFields DEF CreatePartition
  <2> QED BY <1>4, <2>1, <2>2 DEF CreatePartition, NightlyTypeOK
<1>5. CASE Booted \/ RollupDone \/ RetentionDone \/ Dies
  <2>1. serve' \in Serves
    BY <1>5, ServeStates DEF Booted, RollupDone, RetentionDone, Dies
  <2> QED BY <1>5, <1>p, <2>1 DEF Booted, RollupDone, RetentionDone, Dies, NightlyTypeOK
<1>6. CASE StartRollup
  <2>0. now \in Int
    BY <1>0
  <2>1. AgencyDay(now) \in Int /\ Day(now) \in Int
    BY <1>1, <2>0
  <2>2. serve' \in Serves
    <3>1. "rollup" \in ServePCs /\ 0 \in Int
      BY DEF ServePCs
    <3>2. serve' = [serve EXCEPT !.pc = "rollup", !.end = AgencyDay(now), !.built = 0]
      BY <1>6 DEF StartRollup
    <3> QED BY <1>0, <2>1, <3>1, <3>2, ServeRollup
  <2>3. latch' \in [rollup: Int, retention: Int]
    BY <1>0, <1>6, <2>1 DEF StartRollup
  <2> QED BY <1>6, <1>p, <2>2, <2>3 DEF StartRollup, NightlyTypeOK
<1>7. CASE SkipRollup
  BY <1>0, <1>1, <1>7, <1>p DEF SkipRollup, NightlyTypeOK
<1>8. CASE Rebuild
  <2>1. serve' \in Serves
    BY <1>0, <1>8, <1>f, ServeFields DEF Rebuild
  <2>2. InWindow(serve.end) \subseteq Int /\ serve.end \in Int
    <3>1. Events \in Tables /\ part[Events] \in Partitions
      BY NightlyAssumption DEF Events, Tables, NightlyTypeOK
    <3>2. Held(Events) \subseteq Int
      BY <1>0, <3>1, PartitionsType DEF Held
    <3> QED BY <1>f, <3>2 DEF InWindow
  <2>3. rollups' \in [1..Rollups -> [end: Int, days: SUBSET Int]]
    BY <1>0, <1>8, <2>2 DEF Rebuild
  <2> QED BY <1>8, <1>p, <2>1, <2>3 DEF Rebuild, NightlyTypeOK
<1>9. CASE StartRetention
  <2>1. now + Ahead * HoursPerWeek \in Int /\ now \in Int
    BY <1>0
  <2>2. EnsureList(WeekAt(now), WeekAt(now + Ahead * HoursPerWeek)) \in Todos
    BY <1>1, <1>e, <2>1
  <2>3. serve' \in Serves
    BY <1>0, <1>9, <2>2, ServeTodo DEF StartRetention, ServePCs
  <2>4. latch' \in [rollup: Int, retention: Int]
    BY <1>0, <1>1, <1>9 DEF StartRetention
  <2> QED BY <1>9, <1>p, <2>3, <2>4 DEF StartRetention, NightlyTypeOK
<1>10. CASE StartDropping \/ StatementFails
  <2>1. Drops \in Serves /\ Idle \in Serves /\ Down \in Serves
    BY <1>0, ServeStates
  <2>2. serve' \in Serves /\ failures' \in Nat
    BY <1>10, <2>1 DEF StartDropping, StatementFails, Fallible, NightlyTypeOK
  <2> QED BY <1>10, <1>p, <2>2 DEF StartDropping, StatementFails, NightlyTypeOK
<1>11. ASSUME NEW t \in Tables, ListPartitions(t) PROVE NightlyTypeOK'
  <2>1. DOMAIN part[t] \subseteq Int
    BY PartitionsType DEF NightlyTypeOK
  <2>2. serve' \in Serves
    <3>1. {w \in DOMAIN part[t] : Expired(t, w, serve.at)} \in WeekSets
      BY <2>1 DEF WeekSets
    <3>2. serve.tables \ {t} \in TableSets /\ t \in TableNames
      BY <1>f DEF TableSets, TableNames
    <3> QED BY <1>0, <1>11, <3>1, <3>2, ServeList DEF ListPartitions
  <2> QED BY <1>11, <1>p, <2>2 DEF ListPartitions, NightlyTypeOK
<1>12. CASE Detach
  <2>1. serve.table \in Tables /\ IsFiniteSet(serve.weeks)
    BY <1>12 DEF Detach, DropsExpired
  <2>2. PartTyped
    BY <1>12, <2>1, StatementsTyped
  <2>3. Min(serve.weeks) \in Int
    BY <1>f, <1>12, <2>1, LeastOfFinite DEF Detach, WeekSets
  <2>4. serve' \in Serves
    BY <1>0, <1>12, ServeFields DEF Detach, ServePCs
  <2>5. stray' \in [Tables -> SUBSET Int]
    BY <1>12, <2>3 DEF Detach, NightlyTypeOK
  <2> QED BY <1>12, <2>2, <2>4, <2>5 DEF Detach, NightlyTypeOK
<1>13. CASE DropTable
  <2>1. serve' \in Serves
    <3>1. serve.weeks \ {Min(serve.weeks)} \in WeekSets
      BY <1>f DEF WeekSets
    <3> QED BY <1>0, <1>13, <3>1, ServeWeeks DEF DropTable, ServePCs
  <2>2. stray' \in [Tables -> SUBSET Int]
    BY <1>13 DEF DropTable, NightlyTypeOK
  <2> QED BY <1>13, <1>p, <2>1, <2>2 DEF DropTable, NightlyTypeOK
<1>14. ASSUME NEW t \in Tables, NEW d \in Int, Routes(t, d),
              WriteLive(t, d) \/ ReplayWrites(t)
       PROVE  NightlyTypeOK'
  <2>1. PartTyped
    BY <1>14, StatementsTyped
  <2>2. deflt' \in [Tables -> SUBSET Int] /\ written' \in [Tables -> SUBSET Int]
    BY <1>14, RoutesOne
  <2> QED BY <1>14, <2>1, <2>2 DEF WriteLive, ReplayWrites, NightlyTypeOK
<1>15. ASSUME NEW t \in Tables, NEW d \in ServiceDays, WriteLive(t, d) PROVE NightlyTypeOK'
  BY <1>14, <1>15, ServiceDaysType DEF WriteLive
<1>16. ASSUME NEW t \in Tables, ReplayWrites(t) PROVE NightlyTypeOK'
  BY <1>14, <1>16, <1>0 DEF ReplayWrites
<1>17. ASSUME NEW d \in ServiceDays, StartReplay(d) PROVE NightlyTypeOK'
  <2>1. /\ d \in Int /\ d - 1 \in Int /\ d + DaysPerWeek \in Int
    BY NightlyAssumption, ServiceDaysType
  <2>2. EnsureList(WeekOf(d - 1), WeekOf(d + DaysPerWeek)) \in Todos
    BY <1>e, <2>1, WeekType
  <2> QED BY <1>17, <1>p, <2>1, <2>2 DEF StartReplay, NightlyTypeOK
<1>18. CASE ReplayCreates
  <2>1. PartTyped
    BY <1>0, <1>2, <1>18, StatementsTyped DEF ReplayCreates
  <2>2. replay' \in [pc: {"idle", "running"}, day: Int, todo: Todos]
    BY <1>0, <1>2, <1>18 DEF ReplayCreates
  <2> QED BY <1>18, <2>1, <2>2 DEF ReplayCreates, NightlyTypeOK
<1>19. CASE ReplayEnds \/ UNCHANGED vars
  <2>1. NoReplay \in [pc: {"idle", "running"}, day: Int, todo: Todos]
    BY DEF NoReplay, Todos
  <2>2. CASE ReplayEnds
    BY <1>p, <2>1, <2>2 DEF ReplayEnds, NightlyTypeOK
  <2>3. CASE UNCHANGED vars
    BY <2>3 DEF vars, NightlyTypeOK
  <2> QED BY <1>19, <2>2, <2>3
<1>20. CASE Tick
  BY <1>20, <1>p DEF Tick, Fallible, NightlyTypeOK
<1> QED
  BY <1>3, <1>4, <1>5, <1>6, <1>7, <1>8, <1>9, <1>10, <1>11, <1>12, <1>13, <1>15, <1>16,
     <1>17, <1>18, <1>19, <1>20 DEF Next

-----------------------------------------------------------------------------
\* What retention leaves.

\* A partition holds days of its week only.
DaysOfTheirWeek ==
    \A t \in Tables : \A w \in DOMAIN part[t] : \A d \in part[t][w] : WeekOf(d) = w

KeepInv == NightlyTypeOK /\ DropsExpired /\ DaysOfTheirWeek /\ KeptForRetention

\* The tables change by one statement at a time, or not at all.
LEMMA OneStatement ==
    ASSUME NightlyTypeOK, [Next]_vars
    PROVE  \/ UNCHANGED <<part, deflt, written>>
           \/ UNCHANGED <<deflt, written>> /\ \E c \in Creations : Creates(c)
           \/ \E t \in Tables, d \in Int : Routes(t, d)
           \/ Detach
<1>0. /\ \A x \in Todos : x # << >> => Head(x) \in Creations
      /\ serve.todo \in Todos /\ replay.todo \in Todos /\ replay.day \in Int
  BY DEF NightlyTypeOK, Serves, Todos
<1>1. CASE CreatePartition \/ ReplayCreates
  BY <1>0, <1>1 DEF CreatePartition, ReplayCreates
<1>2. CASE \E t \in Tables, d \in ServiceDays : WriteLive(t, d)
  BY <1>2, ServiceDaysType DEF WriteLive
<1>3. CASE \E t \in Tables : ReplayWrites(t)
  BY <1>0, <1>3 DEF ReplayWrites
<1> QED
  BY <1>1, <1>2, <1>3 DEF Next, vars, Boot, Booted, StartRollup, SkipRollup, Rebuild,
     RollupDone, StartRetention, StartDropping, ListPartitions, DropTable, RetentionDone,
     StatementFails, Dies, StartReplay, ReplayEnds, Tick

LEMMA ClockAscends ==
    ASSUME NightlyTypeOK, [Next]_vars
    PROVE  now' \in Nat /\ now \in Nat /\ now <= now'
<1>1. now' = now \/ now' = now + 1
  BY DEF Next, vars, Boot, CreatePartition, Booted, StartRollup, SkipRollup, Rebuild,
     RollupDone, StartRetention, StartDropping, ListPartitions, Detach, DropTable,
     RetentionDone, StatementFails, Dies, WriteLive, StartReplay, ReplayCreates,
     ReplayWrites, ReplayEnds, Tick
<1> QED BY <1>1 DEF NightlyTypeOK

\* What is held stays so, but for the days of a partition that is detached,
\* whose week has expired.
LEMMA HeldStays ==
    ASSUME NightlyTypeOK, DropsExpired, DaysOfTheirWeek, [Next]_vars,
           NEW t \in Tables, NEW d \in Held(t)
    PROVE  \/ d \in Held(t)'
           \/ Detach /\ WeekOf(d) \in Int /\ Expired(t, WeekOf(d), serve.at)
<1>1. CASE UNCHANGED <<part, deflt, written>>
  BY <1>1 DEF Held
<1>2. ASSUME NEW c \in Creations, Creates(c), UNCHANGED deflt PROVE d \in Held(t)'
  <2>1. CASE d \in deflt[t]
    BY <1>2, <2>1 DEF Held
  <2>2. ASSUME NEW w \in DOMAIN part[t], d \in part[t][w]
        PROVE  w \in DOMAIN part'[t] /\ d \in part'[t][w]
    BY <1>2, <2>2, CreatesOne
  <2> QED BY <2>1, <2>2 DEF Held
<1>3. ASSUME NEW u \in Tables, NEW e \in Int, Routes(u, e) PROVE d \in Held(t)'
  <2>1. CASE d \in deflt[t]
    BY <1>3, <2>1, RoutesOne DEF Held
  <2>2. ASSUME NEW w \in DOMAIN part[t], d \in part[t][w]
        PROVE  w \in DOMAIN part'[t] /\ d \in part'[t][w]
    BY <1>3, <2>2, RoutesOne
  <2> QED BY <2>1, <2>2 DEF Held
<1>4. CASE Detach
  <2>1. serve.table \in Tables /\ IsFiniteSet(serve.weeks)
    BY <1>4 DEF Detach, DropsExpired
  <2>2. CASE d \in deflt[t]
    BY <1>4, <2>2 DEF Detach, Held
  <2>3. ASSUME NEW w \in DOMAIN part[t], d \in part[t][w]
        PROVE  \/ w \in DOMAIN part'[t] /\ d \in part'[t][w]
               \/ WeekOf(d) \in Int /\ Expired(t, WeekOf(d), serve.at)
    <3>1. CASE t = serve.table /\ w = Min(serve.weeks)
      <4>1. w \in serve.weeks
        BY <1>4, <2>1, <3>1, DetachesOne
      <4>2. Expired(t, w, serve.at)
        BY <1>4, <3>1, <4>1 DEF Detach, DropsExpired
      <4>3. WeekOf(d) = w /\ w \in Int
        BY <2>3, PartitionsType DEF DaysOfTheirWeek, NightlyTypeOK
      <4> QED BY <4>2, <4>3
    <3>2. CASE ~(t = serve.table /\ w = Min(serve.weeks))
      BY <1>4, <2>1, <2>3, <3>2, DetachesOne
    <3> QED BY <3>1, <3>2
  <2> QED BY <1>4, <2>2, <2>3 DEF Held
<1> QED
  BY <1>1, <1>2, <1>3, <1>4, OneStatement

\* What is written is held.
LEMMA WrittenIsHeld ==
    ASSUME NightlyTypeOK, [Next]_vars,
           NEW t \in Tables, NEW d \in written'[t], d \notin written[t]
    PROVE  d \in Held(t)'
<1>1. ASSUME NEW u \in Tables, NEW e \in Int, Routes(u, e) PROVE d \in Held(t)'
  <2>1. u = t /\ e = d
    BY <1>1, RoutesOne
  <2>2. d \in deflt'[t] \/ (WeekOf(d) \in DOMAIN part'[t] /\ d \in part'[t][WeekOf(d)])
    BY <1>1, <2>1, RoutesOne
  <2> QED BY <2>2 DEF Held
<1> QED
  BY <1>1, OneStatement DEF Detach

LEMMA DaysOfTheirWeekNext ==
    ASSUME NightlyTypeOK, DropsExpired, DaysOfTheirWeek, [Next]_vars
    PROVE  DaysOfTheirWeek'
<1>1. ASSUME NEW c \in Creations, Creates(c) PROVE DaysOfTheirWeek'
  <2>1. \A t \in Tables : \A w \in DOMAIN part'[t] :
          \/ w \in DOMAIN part[t] /\ part'[t][w] = part[t][w]
          \/ part'[t][w] = {}
    BY <1>1, CreatesOne
  <2> QED BY <2>1 DEF DaysOfTheirWeek, WeekOf
<1>2. ASSUME NEW u \in Tables, NEW e \in Int, Routes(u, e) PROVE DaysOfTheirWeek'
  <2>1. \A t \in Tables : \A w \in DOMAIN part'[t] :
          /\ w \in DOMAIN part[t]
          /\ \A d \in part'[t][w] : d \in part[t][w] \/ w = WeekOf(d)
    BY <1>2, RoutesOne
  <2> QED BY <2>1 DEF DaysOfTheirWeek, WeekOf
<1>3. CASE Detach
  <2>1. serve.table \in Tables /\ IsFiniteSet(serve.weeks)
    BY <1>3 DEF Detach, DropsExpired
  <2>2. \A t \in Tables : \A w \in DOMAIN part'[t] :
          w \in DOMAIN part[t] /\ part'[t][w] = part[t][w]
    BY <1>3, <2>1, DetachesOne
  <2> QED BY <2>2 DEF DaysOfTheirWeek, WeekOf
<1>4. CASE UNCHANGED <<part, deflt, written>>
  BY <1>4 DEF DaysOfTheirWeek, WeekOf
<1> QED
  BY <1>1, <1>2, <1>3, <1>4, OneStatement

LEMMA DropsExpiredNext ==
    ASSUME NightlyTypeOK, DropsExpired, [Next]_vars
    PROVE  DropsExpired'
<1>0. /\ now \in Nat /\ now' \in Nat /\ now <= now' /\ serve.at \in Int
      /\ serve \in Serves
  BY ClockAscends DEF NightlyTypeOK, Serves
<1>1. CASE serve'.pc \notin {"drop", "detached"}
  BY <1>1 DEF DropsExpired
<1>2. CASE serve' = serve
  BY <1>0, <1>2 DEF DropsExpired, Expired
<1>3. CASE serve' = Drops
  <2>1. serve'.pc = "drop" /\ serve'.at = now /\ serve'.weeks = {}
    BY <1>0, <1>3 DEF Drops, Serves
  <2> QED BY <1>0, <2>1, FS_EmptySet DEF DropsExpired
<1>4. ASSUME NEW t \in Tables, ListPartitions(t) PROVE DropsExpired'
  <2>1. /\ serve'.pc = "drop" /\ serve'.at = serve.at /\ serve'.table = t
        /\ serve'.weeks = {w \in DOMAIN part[t] : Expired(t, w, serve.at)}
        /\ serve.at <= now
    BY <1>0, <1>4 DEF ListPartitions, Serves, DropsExpired
  <2>2. IsFiniteSet(serve'.weeks)
    BY <2>1, FS_Subset DEF NightlyTypeOK
  <2>3. \A w \in serve'.weeks : Expired(serve'.table, w, serve'.at)
    BY <2>1
  <2> QED BY <1>0, <2>1, <2>2, <2>3 DEF DropsExpired, Expired
<1>5. CASE Detach
  <2>1. /\ serve'.pc = "detached" /\ serve'.at = serve.at /\ serve'.table = serve.table
        /\ serve'.weeks = serve.weeks /\ serve.weeks # {} /\ serve.pc = "drop"
    BY <1>0, <1>5 DEF Detach, Serves
  <2> QED BY <1>0, <2>1 DEF DropsExpired, Expired
<1>6. CASE DropTable
  <2>1. /\ serve'.pc = "drop" /\ serve'.at = serve.at /\ serve'.table = serve.table
        /\ serve'.weeks \subseteq serve.weeks /\ serve.pc = "detached"
    BY <1>0, <1>6 DEF DropTable, Serves
  <2>2. IsFiniteSet(serve'.weeks)
    BY <2>1, FS_Subset DEF DropsExpired
  <2> QED BY <1>0, <2>1, <2>2 DEF DropsExpired, Expired
<1>7. \/ serve' = serve \/ serve' = Drops \/ Detach \/ DropTable
      \/ \E t \in Tables : ListPartitions(t)
      \/ serve'.pc \notin {"drop", "detached"}
  <2>0. Idle.pc = "idle" /\ Down.pc = "down"
    BY DEF Idle, Down
  <2>1. CASE Boot \/ Booted \/ RollupDone \/ RetentionDone \/ Dies
    <3>1. CASE Boot
      BY <3>1 DEF Boot, Down
    <3> QED BY <2>0, <2>1, <3>1 DEF Booted, RollupDone, RetentionDone, Dies
  <2>2. CASE CreatePartition \/ StartRollup \/ Rebuild \/ StartRetention
    BY <1>0, <2>2 DEF CreatePartition, StartRollup, Rebuild, StartRetention, Serves
  <2>3. CASE StatementFails \/ StartDropping
    <3>1. serve' \in {Down, Drops, Idle}
      BY <2>3 DEF StatementFails, StartDropping
    <3> QED BY <2>0, <3>1
  <2> QED
    BY <2>1, <2>2, <2>3 DEF Next, vars, SkipRollup, WriteLive, StartReplay, ReplayCreates,
                            ReplayWrites, ReplayEnds, Tick
<1> QED
  BY <1>1, <1>2, <1>3, <1>4, <1>5, <1>6, <1>7

LEMMA KeptNext ==
    ASSUME KeepInv, [Next]_vars
    PROVE  KeptForRetention'
<1> USE DEF KeepInv
<1>0. /\ now \in Nat /\ now' \in Nat /\ now <= now' /\ HoursPerWeek \in Nat
      /\ serve.at \in Int /\ \A t \in Tables : Keep[t] \in Nat
  BY ClockAscends, HoursPerWeekType, NightlyAssumption DEF NightlyTypeOK, Serves
<1>1. SUFFICES ASSUME NEW t \in Tables, NEW d \in written'[t], d \notin Held(t)'
               PROVE  Keep[t] > 0 /\ now' >= (WeekOf(d) + 1 + Keep[t]) * HoursPerWeek
  BY DEF KeptForRetention
<1>2. d \in written[t] /\ d \in Int
  BY <1>1, WrittenIsHeld DEF NightlyTypeOK
<1>3. (WeekOf(d) + 1 + Keep[t]) * HoursPerWeek \in Int
  BY <1>0, <1>2, WeekType
<1>4. CASE d \in Held(t)
  <2>1. Detach /\ WeekOf(d) \in Int /\ Expired(t, WeekOf(d), serve.at)
    BY <1>1, <1>4, HeldStays
  <2>2. Keep[t] > 0 /\ serve.at >= (WeekOf(d) + 1 + Keep[t]) * HoursPerWeek
    BY <1>0, <2>1, ExpiredIsOld
  <2>3. serve.at <= now
    BY <2>1 DEF Detach, DropsExpired
  <2> QED BY <1>0, <1>3, <2>2, <2>3
<1>5. CASE d \notin Held(t)
  <2>1. Keep[t] > 0 /\ now >= (WeekOf(d) + 1 + Keep[t]) * HoursPerWeek
    BY <1>2, <1>5 DEF KeptForRetention
  <2> QED BY <1>0, <1>3, <2>1
<1> QED BY <1>4, <1>5

LEMMA KeepInvInit == Init => KeepInv
<1> SUFFICES ASSUME Init PROVE KeepInv
  OBVIOUS
<1>1. DropsExpired
  BY DEF Init, Down, DropsExpired
<1>2. \A t \in Tables : DOMAIN part[t] = {} /\ written[t] = {}
  BY DEF Init
<1> QED
  BY <1>1, <1>2, NightlyTypesInit DEF KeepInv, DaysOfTheirWeek, KeptForRetention

\* The types of the tables and of the nightly job.
THEOREM NightlyIsTyped == Spec => []NightlyTypeOK
<1>1. KeepInv /\ [Next]_vars => KeepInv'
  BY NightlyTypesNext, DropsExpiredNext, DaysOfTheirWeekNext, KeptNext DEF KeepInv
<1>2. KeepInv => NightlyTypeOK
  BY DEF KeepInv
<1> QED BY <1>1, <1>2, KeepInvInit, PTL DEF Spec

\* dropOldPartitions takes whole weeks, by a clock reading that is never ahead:
\* no day is lost before its week is older than the weeks to keep, whatever
\* fails, dies or is late.
THEOREM NothingIsDroppedEarly == Spec => []KeptForRetention
<1>1. KeepInv /\ [Next]_vars => KeepInv'
  BY NightlyTypesNext, DropsExpiredNext, DaysOfTheirWeekNext, KeptNext DEF KeepInv
<1>2. KeepInv => KeptForRetention
  BY DEF KeepInv
<1> QED BY <1>1, <1>2, KeepInvInit, PTL DEF Spec

-----------------------------------------------------------------------------
\* The windows of the rollups.

\* No table is computed over days to come; in a run, those done are over its
\* window and the others over no later one.
WindowsInOrder ==
    /\ \A i \in 1..Rollups : rollups[i].end <= AgencyDay(now)
    /\ serve.pc = "rollup" =>
        /\ serve.built \in 0..Rollups
        /\ serve.end <= AgencyDay(now)
        /\ \A i \in 1..Rollups : rollups[i].end <= serve.end
        /\ \A i \in 1..serve.built : rollups[i].end = serve.end

\* When a run began, what had been dropped was older than the weeks to keep.
RunBeginsWithWhatIsKept ==
    serve.pc = "rollup" =>
        \A d \in written[Events] :
            \/ d \in Held(Events)
            \/ /\ Keep[Events] > 0
               /\ AgencyDay((WeekOf(d) + 1 + Keep[Events]) * HoursPerWeek) <= serve.end

WindowsInv == KeepInv /\ WindowsInOrder /\ WindowsDescend /\ RunBeginsWithWhatIsKept

\* A step begins a run, rebuilds one table of it, ends or interrupts it, or is
\* no concern of the rollups.
LEMMA RollupSteps ==
    ASSUME NightlyTypeOK, [Next]_vars
    PROVE  \/ StartRollup
           \/ Rebuild
           \/ rollups' = rollups /\ serve'.pc # "rollup"
           \/ rollups' = rollups /\ serve' = serve
<1>0. serve \in Serves
  BY DEF NightlyTypeOK
<1>1. Idle.pc = "idle" /\ Down.pc = "down" /\ Drops.pc = "drop"
  BY <1>0 DEF Idle, Down, Drops, Serves
<1>2. CASE Boot
  BY <1>2 DEF Boot, Down
<1>3. CASE Booted \/ RollupDone \/ RetentionDone \/ Dies \/ StatementFails \/ StartDropping
  <2>1. serve' \in {Idle, Down, Drops} /\ rollups' = rollups
    BY <1>3 DEF Booted, RollupDone, RetentionDone, Dies, StatementFails, StartDropping
  <2> QED BY <1>1, <2>1
<1>4. CASE CreatePartition \/ StartRetention \/ Detach \/ DropTable
  BY <1>0, <1>4 DEF CreatePartition, StartRetention, Detach, DropTable, Serves
<1>5. ASSUME NEW t \in Tables, ListPartitions(t) PROVE rollups' = rollups /\ serve'.pc # "rollup"
  BY <1>0, <1>5 DEF ListPartitions, Serves
<1> QED
  BY <1>2, <1>3, <1>4, <1>5 DEF Next, vars, SkipRollup, WriteLive, StartReplay,
     ReplayCreates, ReplayWrites, ReplayEnds, Tick

\* The table a rollup rebuilds is computed over the run's window.
LEMMA RebuildsOne ==
    ASSUME NightlyTypeOK, WindowsInOrder, Rebuild
    PROVE  /\ serve.built + 1 \in 1..Rollups /\ serve.built \in Nat
           /\ serve'.pc = "rollup" /\ serve'.built = serve.built + 1 /\ serve'.end = serve.end
           /\ rollups'[serve.built + 1] = [end |-> serve.end, days |-> InWindow(serve.end)]
           /\ \A i \in 1..Rollups : i # serve.built + 1 => rollups'[i] = rollups[i]
<1>0. serve \in Serves /\ Rollups \in Nat
  BY NightlyAssumption DEF NightlyTypeOK
<1>1. serve.pc = "rollup" /\ serve.built \in Nat /\ serve.built + 1 \in 1..Rollups
  BY <1>0 DEF Rebuild, WindowsInOrder
<1>2. serve'.pc = "rollup" /\ serve'.built = serve.built + 1 /\ serve'.end = serve.end
  BY <1>0, <1>1 DEF Rebuild, Serves
<1> QED BY <1>1, <1>2 DEF Rebuild, NightlyTypeOK

LEMMA WindowsInOrderNext ==
    ASSUME NightlyTypeOK, WindowsInOrder, WindowsDescend, [Next]_vars
    PROVE  WindowsInOrder' /\ WindowsDescend'
<1>0. /\ now \in Int /\ now' \in Int /\ now <= now'
      /\ Rollups \in Nat
      /\ \A i \in 1..Rollups : rollups[i].end \in Int
      /\ serve \in Serves /\ serve.end \in Int
  BY ClockAscends, NightlyAssumption DEF NightlyTypeOK, Serves
<1>1. AgencyDay(now) \in Int /\ AgencyDay(now') \in Int /\ AgencyDay(now) <= AgencyDay(now')
  BY <1>0, DaysAscend
<1> DEFINE today == AgencyDay(now)
           later == AgencyDay(now')
<1>2. SUFFICES /\ \A i \in 1..Rollups : rollups'[i].end <= later
               /\ serve'.pc = "rollup" =>
                    /\ serve'.built \in 0..Rollups
                    /\ serve'.end <= later
                    /\ \A i \in 1..Rollups : rollups'[i].end <= serve'.end
                    /\ \A i \in 1..serve'.built : rollups'[i].end = serve'.end
               /\ \A i, j \in 1..Rollups : i < j => rollups'[i].end >= rollups'[j].end
  BY DEF WindowsInOrder, WindowsDescend, AgencyDay, Day
<1>3. /\ \A i \in 1..Rollups : rollups[i].end <= today
      /\ serve.pc = "rollup" =>
           /\ serve.built \in 0..Rollups
           /\ serve.end <= today
           /\ \A i \in 1..Rollups : rollups[i].end <= serve.end
           /\ \A i \in 1..serve.built : rollups[i].end = serve.end
      /\ \A i, j \in 1..Rollups : i < j => rollups[i].end >= rollups[j].end
  BY DEF WindowsInOrder, WindowsDescend
<1>4. CASE StartRollup
  <2>1. /\ rollups' = rollups /\ serve'.end = today /\ serve'.built = 0
        /\ serve'.pc = "rollup"
    BY <1>0, <1>4 DEF StartRollup, Serves
  <2> HIDE DEF today, later
  <2> QED BY <1>0, <1>1, <1>3, <2>1 DEF today, later
<1>5. CASE Rebuild
  <2>1. /\ serve.built + 1 \in 1..Rollups /\ serve.built \in Nat
        /\ serve'.built = serve.built + 1 /\ serve'.end = serve.end
        /\ rollups'[serve.built + 1].end = serve.end
        /\ \A i \in 1..Rollups : i # serve.built + 1 => rollups'[i] = rollups[i]
    BY <1>5, RebuildsOne
  <2>2. serve.pc = "rollup"
    BY <1>5 DEF Rebuild
  <2>3. today \in Int /\ later \in Int /\ today <= later
    BY <1>1
  <2> HIDE DEF today, later
  <2> QED BY <1>0, <1>3, <2>1, <2>2, <2>3
<1>6. CASE rollups' = rollups /\ (serve'.pc # "rollup" \/ serve' = serve)
  <2>1. today \in Int /\ later \in Int /\ today <= later
    BY <1>1
  <2> HIDE DEF today, later
  <2> QED BY <1>0, <1>3, <1>6, <2>1
<1> QED BY <1>4, <1>5, <1>6, RollupSteps

LEMMA RunBeginsWithWhatIsKeptNext ==
    ASSUME KeepInv, RunBeginsWithWhatIsKept, [Next]_vars
    PROVE  RunBeginsWithWhatIsKept'
<1>0. /\ now \in Int /\ serve \in Serves /\ Events \in Tables /\ Keep[Events] \in Nat
      /\ HoursPerWeek \in Nat /\ NightlyTypeOK
  <2>1. Events \in Tables
    BY NightlyAssumption DEF Events, Tables
  <2> QED BY <2>1, HoursPerWeekType, NightlyAssumption DEF KeepInv, NightlyTypeOK
<1> DEFINE Old(d, end) == /\ Keep[Events] > 0
                          /\ AgencyDay((WeekOf(d) + 1 + Keep[Events]) * HoursPerWeek) <= end
<1>1. SUFFICES ASSUME serve'.pc = "rollup", NEW d \in written'[Events], d \notin Held(Events)'
               PROVE  Old(d, serve'.end)
  BY DEF RunBeginsWithWhatIsKept, AgencyDay, Day, WeekOf, HoursPerWeek, Events
<1>2. d \in written[Events] /\ d \in Int
  BY <1>0, <1>1, WrittenIsHeld DEF NightlyTypeOK
<1>3. CASE StartRollup
  <2>1. part' = part /\ deflt' = deflt /\ serve'.end = AgencyDay(now)
    BY <1>0, <1>3 DEF StartRollup, Serves
  <2>2. d \notin Held(Events)
    BY <1>1, <2>1 DEF Held
  <2>3. Keep[Events] > 0 /\ now >= (WeekOf(d) + 1 + Keep[Events]) * HoursPerWeek
    BY <1>0, <1>2, <2>2 DEF KeepInv, KeptForRetention
  <2>4. (WeekOf(d) + 1 + Keep[Events]) * HoursPerWeek \in Int
    BY <1>0, <1>2, WeekType
  <2>5. AgencyDay((WeekOf(d) + 1 + Keep[Events]) * HoursPerWeek) <= AgencyDay(now)
    BY <1>0, <2>3, <2>4, DaysAscend
  <2> QED BY <2>1, <2>3, <2>5
<1>4. CASE ~StartRollup
  <2>1. serve.pc = "rollup" /\ serve'.end = serve.end
    <3>1. CASE Rebuild
      BY <1>0, <3>1 DEF Rebuild, Serves
    <3>2. CASE serve' = serve
      BY <1>1, <3>2
    <3> QED BY <1>0, <1>1, <1>4, <3>1, <3>2, RollupSteps
  <2>2. d \notin Held(Events)
    BY <1>0, <1>1, <2>1, HeldStays DEF KeepInv, Detach
  <2> QED BY <1>2, <2>1, <2>2 DEF RunBeginsWithWhatIsKept
<1> QED BY <1>3, <1>4

LEMMA WindowsInvInit == Init => WindowsInv
<1> SUFFICES ASSUME Init PROVE WindowsInv
  OBVIOUS
<1>1. AgencyDay(now) \in Int /\ 0 <= AgencyDay(now)
  <2>1. /\ now - Lag \in Nat /\ HoursPerDay \in Nat \ {0}
    BY NightlyAssumption DEF Init
  <2>2. \A a \in Nat : \A n \in Nat \ {0} : a \div n \in Int /\ 0 <= a \div n
    OBVIOUS
  <2> QED BY <2>1, <2>2 DEF AgencyDay, Day
<1>2. serve.pc = "down"
  BY DEF Init, Down
<1>3. \A i \in 1..Rollups : rollups[i].end = 0
  BY DEF Init
<1> QED
  BY <1>1, <1>2, <1>3, KeepInvInit DEF WindowsInv, WindowsInOrder, WindowsDescend,
                                       RunBeginsWithWhatIsKept

LEMMA WindowsInvNext == WindowsInv /\ [Next]_vars => WindowsInv'
<1>1. KeepInv /\ [Next]_vars => KeepInv'
  BY NightlyTypesNext, DropsExpiredNext, DaysOfTheirWeekNext, KeptNext DEF KeepInv
<1>2. WindowsInv => NightlyTypeOK
  BY DEF WindowsInv, KeepInv
<1> QED
  BY <1>1, <1>2, WindowsInOrderNext, RunBeginsWithWhatIsKeptNext DEF WindowsInv

\* rollup.Run rebuilds its tables one after the other over the window it read
\* once: a table is never computed over a later window than one before it.
THEOREM RollupWindowsDescend == Spec => []WindowsDescend
<1>1. WindowsInv => WindowsDescend
  BY DEF WindowsInv
<1> QED BY <1>1, WindowsInvInit, WindowsInvNext, PTL DEF Spec

\* The window of the rollups is less than the weeks stop_events keeps (6 and 26
\* unless configured: config.go), and the agency's clock less than a week behind.
WindowIsKept ==
    Keep[Events] > 0 => Window < Keep[Events] /\ Lag <= HoursPerWeek

\* A day whose partition was dropped is before the window.
LEMMA DroppedIsBeforeWindow ==
    ASSUME WindowIsKept, Keep[Events] > 0, Events \in Tables, NEW d \in Int, NEW end \in Int,
           AgencyDay((WeekOf(d) + 1 + Keep[Events]) * HoursPerWeek) <= end
    PROVE  d < end - Window * DaysPerWeek
<1> DEFINE w == WeekOf(d)
           k == Keep[Events]
           H == HoursPerDay
           D == DaysPerWeek
<1>1. /\ H \in Nat \ {0} /\ D \in Nat \ {0} /\ k \in Nat /\ Window \in Nat /\ Lag \in Int
      /\ w \in Int /\ Window + 1 <= k /\ Lag <= H * D
  BY NightlyAssumption, WeekType DEF WindowIsKept, HoursPerWeek
<1>2. d < D * w + D
  BY <1>1, Dividing DEF WeekOf
<1>3. ((w + 1 + k) * (H * D) - Lag) \div H <= end
  BY DEF AgencyDay, Day, HoursPerWeek
<1> HIDE DEF w, k, H, D
<1>4. ASSUME NEW a \in Int, NEW b \in Int, a * H <= b PROVE a <= b \div H
  <2>1. b \div H \in Int /\ b < H * (b \div H) + H
    BY <1>1, <1>4, Dividing
  <2>2. a * H < ((b \div H) + 1) * H
    BY <1>1, <1>4, <2>1
  <2>3. ASSUME NEW x \in Int, NEW y \in Int, NEW n \in Nat \ {0}, x * n < y * n PROVE x < y
    <3>1. CASE y <= x
      <4>1. x - y \in Nat
        BY <2>3, <3>1
      <4>2. (x - y) * n \in Nat
        BY <2>3, <4>1
      <4>3. (x - y) * n = x * n - y * n
        BY <2>3
      <4> QED BY <2>3, <4>2, <4>3
    <3> QED BY <2>3, <3>1
  <2>4. a < (b \div H) + 1
    BY <1>1, <1>4, <2>1, <2>2, <2>3
  <2> QED BY <1>4, <2>1, <2>4
<1>5. ((w + k) * D) * H <= (w + 1 + k) * (H * D) - Lag
  BY <1>1
<1>6. (w + k) * D <= end
  BY <1>1, <1>3, <1>4, <1>5
<1>7. (Window + 1) * D <= k * D
  <2>1. (k - (Window + 1)) * D \in Nat
    BY <1>1
  <2> QED BY <1>1, <2>1
<1>8. end - Window * D > d
  BY <1>1, <1>2, <1>6, <1>7
<1> QED
  BY <1>1, <1>8 DEF D

\* A rollup misses nothing of its window that was ever written, when the window
\* is less than what stop_events keeps.
THEOREM RollupsAreComplete == WindowIsKept /\ Spec => RollupsMissNothing
<1>1. WindowIsKept /\ WindowsInv /\ [Next]_vars =>
        [\A i \in 1..Rollups : rollups'[i] # rollups[i] =>
           {d \in written[Events] : rollups'[i].end - Window * DaysPerWeek <= d
                                    /\ d < rollups'[i].end} \subseteq rollups'[i].days]_vars
  <2> SUFFICES ASSUME WindowIsKept, WindowsInv, [Next]_vars,
                      NEW i \in 1..Rollups, rollups'[i] # rollups[i],
                      NEW d \in written[Events],
                      rollups'[i].end - Window * DaysPerWeek <= d, d < rollups'[i].end
               PROVE  d \in rollups'[i].days
    OBVIOUS
  <2>0. NightlyTypeOK /\ WindowsInOrder /\ Events \in Tables
    BY NightlyAssumption DEF WindowsInv, KeepInv, Events, Tables
  <2>1. Rebuild
    BY <2>0, RollupSteps DEF StartRollup
  <2>2. rollups'[i] = [end |-> serve.end, days |-> InWindow(serve.end)]
    BY <2>0, <2>1, RebuildsOne
  <2>3. /\ serve.pc = "rollup" /\ serve.end \in Int /\ d \in Int
        /\ Window * DaysPerWeek \in Int
    <3>1. Window * DaysPerWeek \in Int
      BY NightlyAssumption
    <3>2. d \in Int
      BY <2>0 DEF NightlyTypeOK
    <3>3. serve.pc = "rollup" /\ serve.end \in Int
      BY <2>0, <2>1 DEF Rebuild, NightlyTypeOK, Serves
    <3> QED BY <3>1, <3>2, <3>3
  <2>4. d \in Held(Events)
    <3> SUFFICES ASSUME d \notin Held(Events) PROVE FALSE
      OBVIOUS
    <3>1. /\ Keep[Events] > 0
          /\ AgencyDay((WeekOf(d) + 1 + Keep[Events]) * HoursPerWeek) <= serve.end
      BY <2>3 DEF WindowsInv, RunBeginsWithWhatIsKept
    <3>2. d < serve.end - Window * DaysPerWeek
      BY <2>0, <2>3, <3>1, DroppedIsBeforeWindow
    <3> QED BY <2>2, <2>3, <3>2
  <2> QED BY <2>2, <2>4 DEF InWindow
<1>2. WindowIsKept => WindowIsKept'
  BY DEF WindowIsKept, Events, HoursPerWeek
<1> QED
  BY <1>1, <1>2, WindowsInvInit, WindowsInvNext, PTL DEF Spec, RollupsMissNothing
=============================================================================
