------------------------- MODULE ScheduleLoadsProofs -------------------------
(***************************************************************************)
(* What is active is one whole version with every line of its zips, and an *)
(* open load keeps its row, for any number of loads, schedules, zips,      *)
(* failures and any batch size.  With one load at a time, a schedule stays *)
(* until the next one is there, and what requests are told is true of one  *)
(* schedule, for any number of requests.                                   *)
(***************************************************************************)
EXTENDS ScheduleReads, TLAPS

Loading == {"begun"} \cup InTransaction

LoadType ==
    [pc: Pcs, sha: Shas \cup {""}, id: {0} \cup VersionIds, found: {0} \cup VersionIds,
     zip: Nat, tz: TimeZones, copied: SUBSET AllRows, buffer: [Tables -> Seq(AllRows)],
     saw: SUBSET VersionIds]

VersionType ==
    [sha: Shas, tz: TimeZones, loaded: BOOLEAN, active: BOOLEAN, rows: SUBSET AllRows]

Buffered(x) == UNION {Range(x.buffer[t]) : t \in Tables}

\* What load x has in hand and what it may count on in the table.
LoadOK(table, x) ==
    /\ x \in LoadType
    /\ x.pc \in {"idle", "deleting", "inserting"} => x.id = 0
    /\ x.pc \in Loading => /\ x.id # 0 /\ x.sha \in Shas
                           /\ x.zip <= Len(Zips[x.sha]) /\ 1..x.zip \subseteq Readable[x.sha]
    /\ x.pc = "inserting" => x.sha \in Shas /\ x.zip = 0 /\ x.copied = {} /\ Buffered(x) = {}
    /\ x.pc = "deleting" => x.sha \in Shas /\ x.zip = 0 /\ x.copied = {} /\ Buffered(x) = {}
    /\ x.pc = "begun" => x.zip = 0
    /\ x.pc \in {"begun", "parsing"} => x.copied \cup Buffered(x) = Contents(x.sha, x.zip)
    /\ x.pc \in InTransaction \ {"parsing"}
       => x.zip = Len(Zips[x.sha]) /\ x.copied = Whole(x.sha)
    /\ x.pc \in InTransaction /\ x.copied # {} => x.id \in DOMAIN table
    /\ x.pc \in Loading /\ x.id \in DOMAIN table
       => table[x.id].sha = x.sha /\ ~table[x.id].loaded
    /\ x.pc = "activated" => Active(table) \subseteq x.saw

\* No two loads have one version in hand, or its entry of the unique index.
Apart(x, y) ==
    /\ x.id # 0 => x.id # y.id
    /\ ~(x.pc = "activated" /\ y.pc = "activated")

LoadsOK ==
    /\ load \in [Loaders -> LoadType]
    /\ \A l \in Loaders : LoadOK(versions, load[l])
    /\ \A l, m \in Loaders : l # m => Apart(load[l], load[m])

\* Versions: one of a sha, loaded ones whole, one active.
TableOK(table) ==
    /\ DOMAIN table \subseteq VersionIds
    /\ table = [i \in DOMAIN table |-> table[i]]
    /\ \A i \in DOMAIN table :
         /\ table[i] \in VersionType
         /\ table[i].loaded => table[i].rows = Whole(table[i].sha)
         /\ table[i].active => table[i].loaded
    /\ \A i, j \in DOMAIN table : table[i].sha = table[j].sha => i = j
    /\ \A i, j \in Active(table) : i = j

Rest == published \in Shas /\ past \subseteq Shas /\ failures \in 0..MaxFailures

Inv == TableOK(versions) /\ LoadsOK /\ Rest

-----------------------------------------------------------------------------
(* What batches are made of.                                               *)

\* A batch size divides no queue further than it goes.
LEMMA FullBatchesFit ==
    ASSUME NEW q \in Seq(AllRows)
    PROVE  FullBatches(q) \in 0..Len(q)
<1> DEFINE n == Len(q)
<1>1. n \in Nat /\ Batch \in Nat \ {0}
  BY LoadsAssumption
<1> HIDE DEF n
<1>2. n % Batch \in 0..(Batch - 1)
  BY <1>1
<1>3. n < Batch => n % Batch = n
  BY <1>1
<1>4. n % Batch \in 0..n
  BY <1>1, <1>2, <1>3
<1> QED
  BY <1>1, <1>4 DEF FullBatches, n

\* The rows of a sequence.
LEMMA RowsOf ==
    ASSUME NEW S, NEW q \in Seq(S)
    PROVE  \A x : x \in Range(q) <=> \E i \in 1..Len(q) : x = q[i]
<1>1. DOMAIN q = 1..Len(q)
  OBVIOUS
<1> QED
  BY <1>1 DEF Range

\* A sequence is the rows before a cut and the rows behind it.
LEMMA CutLosesNothing ==
    ASSUME NEW S, NEW q \in Seq(S), NEW n \in 0..Len(q)
    PROVE  /\ SubSeq(q, 1, n) \in Seq(S)
           /\ SubSeq(q, n + 1, Len(q)) \in Seq(S)
           /\ Range(SubSeq(q, 1, n)) \cup Range(SubSeq(q, n + 1, Len(q))) = Range(q)
<1> DEFINE a == SubSeq(q, 1, n)
           b == SubSeq(q, n + 1, Len(q))
<1>1. /\ a \in Seq(S) /\ Len(a) = n /\ \A i \in 1..n : a[i] = q[i]
      /\ b \in Seq(S) /\ Len(b) = Len(q) - n /\ \A i \in 1..(Len(q) - n) : b[i] = q[n + i]
  OBVIOUS
<1> HIDE DEF a, b
<1>2. Len(q) \in Nat
  OBVIOUS
<1>3. ASSUME NEW x
      PROVE  x \in Range(a) \cup Range(b) <=> x \in Range(q)
  <2>1. /\ x \in Range(a) <=> \E i \in 1..Len(a) : x = a[i]
        /\ x \in Range(b) <=> \E i \in 1..Len(b) : x = b[i]
        /\ x \in Range(q) <=> \E i \in 1..Len(q) : x = q[i]
    <3>1. a \in Seq(S) /\ b \in Seq(S) /\ q \in Seq(S)
      BY <1>1
    <3>2. x \in Range(a) <=> \E i \in 1..Len(a) : x = a[i]
      BY <3>1, RowsOf, Zenon
    <3>3. x \in Range(b) <=> \E i \in 1..Len(b) : x = b[i]
      BY <3>1, RowsOf, Zenon
    <3>4. x \in Range(q) <=> \E i \in 1..Len(q) : x = q[i]
      BY <3>1, RowsOf, Zenon
    <3> QED BY <3>2, <3>3, <3>4
  <2>2. ASSUME NEW i \in 1..Len(q), x = q[i]
        PROVE  x \in Range(a) \cup Range(b)
    <3>1. CASE i <= n
      BY <1>1, <2>1, <2>2, <3>1
    <3>2. CASE ~(i <= n)
      <4>1. i - n \in 1..Len(b) /\ n + (i - n) = i
        BY <1>1, <1>2, <3>2
      <4> QED BY <1>1, <2>1, <2>2, <4>1
    <3> QED BY <3>1, <3>2
  <2>3. ASSUME NEW i \in 1..Len(a), x = a[i]
        PROVE  x \in Range(q)
    <3>1. i \in 1..n /\ i \in 1..Len(q)
      BY <1>1, <1>2, <2>3
    <3>2. x = q[i]
      BY <1>1, <2>3, <3>1
    <3> QED BY <2>1, <3>1, <3>2
  <2>4. ASSUME NEW i \in 1..Len(b), x = b[i]
        PROVE  x \in Range(q)
    <3>1. n + i \in 1..Len(q)
      BY <1>1, <1>2, <2>4
    <3> QED BY <1>1, <2>1, <2>4, <3>1
  <2> QED BY <2>1, <2>2, <2>3, <2>4
<1> QED
  BY <1>1, <1>3 DEF a, b

\* Joined sequences have the rows of both.
LEMMA JoinLosesNothing ==
    ASSUME NEW S, NEW p \in Seq(S), NEW q \in Seq(S)
    PROVE  p \o q \in Seq(S) /\ Range(p \o q) = Range(p) \cup Range(q)
<1> DEFINE j == p \o q
<1>1. /\ j \in Seq(S) /\ Len(j) = Len(p) + Len(q)
      /\ \A i \in 1..Len(p) : j[i] = p[i]
      /\ \A i \in 1..Len(q) : j[Len(p) + i] = q[i]
  OBVIOUS
<1> HIDE DEF j
<1>2. Len(p) \in Nat /\ Len(q) \in Nat
  OBVIOUS
<1>3. ASSUME NEW x
      PROVE  x \in Range(j) <=> x \in Range(p) \cup Range(q)
  <2>1. /\ x \in Range(j) <=> \E i \in 1..Len(j) : x = j[i]
        /\ x \in Range(p) <=> \E i \in 1..Len(p) : x = p[i]
        /\ x \in Range(q) <=> \E i \in 1..Len(q) : x = q[i]
    <3>1. j \in Seq(S) /\ p \in Seq(S) /\ q \in Seq(S)
      BY <1>1
    <3>2. x \in Range(j) <=> \E i \in 1..Len(j) : x = j[i]
      BY <3>1, RowsOf, Zenon
    <3>3. x \in Range(p) <=> \E i \in 1..Len(p) : x = p[i]
      BY <3>1, RowsOf, Zenon
    <3>4. x \in Range(q) <=> \E i \in 1..Len(q) : x = q[i]
      BY <3>1, RowsOf, Zenon
    <3> QED BY <3>2, <3>3, <3>4
  <2>2. ASSUME NEW i \in 1..Len(p), x = p[i]
        PROVE  x \in Range(j)
    <3>1. i \in 1..Len(j)
      BY <1>1, <1>2, <2>2
    <3>2. x = j[i]
      BY <1>1, <2>2
    <3> QED BY <2>1, <3>1, <3>2
  <2>3. ASSUME NEW i \in 1..Len(q), x = q[i]
        PROVE  x \in Range(j)
    <3>1. Len(p) + i \in 1..Len(j)
      BY <1>1, <1>2
    <3> QED BY <1>1, <2>1, <2>3, <3>1
  <2>4. ASSUME NEW i \in 1..Len(j), x = j[i]
        PROVE  x \in Range(p) \cup Range(q)
    <3>1. CASE i <= Len(p)
      BY <1>1, <1>2, <2>1, <2>4, <3>1
    <3>2. CASE ~(i <= Len(p))
      <4>1. i - Len(p) \in 1..Len(q) /\ Len(p) + (i - Len(p)) = i
        BY <1>1, <1>2, <3>2
      <4> QED BY <1>1, <2>1, <2>4, <4>1
    <3> QED BY <3>1, <3>2
  <2> QED BY <2>1, <2>2, <2>3, <2>4
<1> QED
  BY <1>1, <1>3 DEF j

\* A schedule whose zips can all be read has rows.
LEMMA WholeIsNotEmpty ==
    ASSUME NEW sha \in Shas, 1..Len(Zips[sha]) \subseteq Readable[sha]
    PROVE  Whole(sha) # {}
<1>1. Len(Zips[sha]) \in Nat \ {0}
  BY ZipsAssumption
<1>2. 1 \in 1..Len(Zips[sha]) /\ 1 \in Readable[sha]
  BY <1>1
<1>3. PICK t \in Tables : /\ ZipRows[sha][1][t] \in Seq(Range(ZipRows[sha][1][t]))
                          /\ ZipRows[sha][1][t] # << >>
  BY <1>2, ZipsAssumption
<1> DEFINE q == ZipRows[sha][1][t]
<1>4. Range(q) # {}
  <2> HIDE DEF q
  <2>1. q \in Seq(Range(q)) /\ q # << >>
    BY <1>3 DEF q
  <2>2. 1 \in 1..Len(q)
    BY <2>1
  <2>3. q[1] \in Range(q)
    BY <2>1, <2>2, RowsOf
  <2> QED BY <2>3
<1>5. Range(q) \subseteq Whole(sha)
  BY <1>2 DEF Whole, Contents
<1> QED
  BY <1>4, <1>5

-----------------------------------------------------------------------------
(* What a step of one load leaves to the others.                           *)

\* A load counts on no more of the table than its own row and who is active.
LEMMA OtherTable ==
    ASSUME NEW table, NEW new, NEW x, LoadOK(table, x),
           x.pc \in InTransaction /\ x.id \in DOMAIN table => x.id \in DOMAIN new,
           x.pc \in Loading /\ x.id \in DOMAIN new
           => /\ x.id \in DOMAIN table /\ new[x.id].sha = table[x.id].sha
              /\ new[x.id].loaded = table[x.id].loaded,
           x.pc = "activated" => Active(new) \subseteq Active(table)
    PROVE  LoadOK(new, x)
  BY DEF LoadOK

LEMMA ApartIsMutual ==
    ASSUME NEW x, NEW y
    PROVE  Apart(x, y) <=> Apart(y, x)
  BY DEF Apart

\* One load moves on, to a state that suits the table and the other loads.
LEMMA OneLoadMoves ==
    ASSUME LoadsOK, NEW l \in Loaders, NEW x,
           load' = [load EXCEPT ![l] = x],
           LoadOK(versions', x),
           \A m \in Loaders \ {l} : LoadOK(versions', load[m]) /\ Apart(x, load[m])
    PROVE  LoadsOK'
<1>1. load \in [Loaders -> LoadType] /\ x \in LoadType
  BY DEF LoadsOK, LoadOK
<1>2. load' \in [Loaders -> LoadType]
  BY <1>1
<1>3. \A m \in Loaders : load'[m] = IF m = l THEN x ELSE load[m]
  BY <1>1
<1>4. \A m \in Loaders : LoadOK(versions', load'[m])
  BY <1>3
<1>5. ASSUME NEW m \in Loaders, NEW n \in Loaders, m # n
      PROVE  Apart(load'[m], load'[n])
  <2>1. CASE m = l
    BY <1>3, <1>5, <2>1
  <2>2. CASE n = l
    BY <1>3, <1>5, <2>2, ApartIsMutual
  <2>3. CASE m # l /\ n # l
    BY <1>3, <1>5, <2>3 DEF LoadsOK
  <2> QED BY <2>1, <2>2, <2>3
<1> QED
  BY <1>2, <1>4, <1>5 DEF LoadsOK

\* A step that leaves the table alone, and takes no version in hand.
LEMMA TableStays ==
    ASSUME LoadsOK, NEW l \in Loaders, NEW x,
           versions' = versions, load' = [load EXCEPT ![l] = x],
           LoadOK(versions, x), x.id \in {0, load[l].id},
           x.pc = "activated" => \A m \in Loaders \ {l} : load[m].pc # "activated"
    PROVE  LoadsOK'
<1>1. \A m \in Loaders \ {l} : LoadOK(versions', load[m]) /\ Apart(x, load[m])
  BY DEF LoadsOK, Apart
<1> QED
  BY <1>1, OneLoadMoves

\* A row that no other load has locked is deleted.
LEMMA RowDeleted ==
    ASSUME TableOK(versions), LoadsOK, NEW l \in Loaders, NEW i, NEW x,
           i \notin LockedByOthers(l),
           versions' = Without(versions, i), load' = [load EXCEPT ![l] = x],
           LoadOK(versions', x), x.id \in {0, load[l].id}, x.pc # "activated"
    PROVE  TableOK(versions') /\ LoadsOK'
<1>1. /\ DOMAIN versions' = DOMAIN versions \ {i}
      /\ \A j \in DOMAIN versions' : versions'[j] = versions[j]
      /\ versions' = [j \in DOMAIN versions' |-> versions'[j]]
  BY DEF Without
<1>2. Active(versions') \subseteq Active(versions)
  BY <1>1 DEF Active
<1>3. TableOK(versions')
  BY <1>1, <1>2 DEF TableOK
<1>4. ASSUME NEW m \in Loaders \ {l}
      PROVE  LoadOK(versions', load[m]) /\ Apart(x, load[m])
  <2>1. LoadOK(versions, load[m]) /\ Apart(load[l], load[m])
    BY <1>4 DEF LoadsOK
  <2>2. load[m].pc \in InTransaction /\ load[m].id \in DOMAIN versions
        => load[m].id \in DOMAIN versions'
    BY <1>1, <1>4 DEF LockedByOthers, LockedBy, Ids
  <2>3. LoadOK(versions', load[m])
    BY <1>1, <1>2, <2>1, <2>2, OtherTable
  <2> QED BY <2>1, <2>3 DEF Apart
<1> QED
  BY <1>3, <1>4, OneLoadMoves

\* An activated load has its row, which is still to be loaded, and all rows of
\* its schedule; it has seen whatever is active.
LEMMA ReadyToCommit ==
    ASSUME NEW table, NEW x, LoadOK(table, x), x.pc = "activated"
    PROVE  /\ x.id \in DOMAIN table /\ x.id # 0
           /\ table[x.id].sha = x.sha /\ ~table[x.id].loaded
           /\ x.copied = Whole(x.sha) /\ x.copied \subseteq AllRows /\ x.tz \in TimeZones
           /\ Active(table) \subseteq x.saw
<1>1. /\ x.pc \in InTransaction /\ x.pc \in Loading /\ x.pc \in InTransaction \ {"parsing"}
  BY DEF InTransaction, Loading
<1>2. /\ x.copied = Whole(x.sha) /\ x.sha \in Shas
      /\ 1..Len(Zips[x.sha]) \subseteq Readable[x.sha]
  BY <1>1 DEF LoadOK
<1>3. x.copied # {}
  BY <1>2, WholeIsNotEmpty
<1>4. x.copied \subseteq AllRows /\ x.tz \in TimeZones
  BY DEF LoadOK, LoadType
<1> QED
  BY <1>1, <1>2, <1>3, <1>4 DEF LoadOK

\* A load commits.
LEMMA VersionCommitted ==
    ASSUME TableOK(versions), LoadsOK, NEW l \in Loaders, NEW x,
           load[l].pc = "activated",
           versions' = Committed(l), load' = [load EXCEPT ![l] = x],
           x \in LoadType, x.pc \in {"idle", "aborting"},
           x.id \in {0, load[l].id}, x.pc = "idle" => x.id = 0
    PROVE  TableOK(versions') /\ LoadsOK'
<1> DEFINE id == load[l].id
           sha == load[l].sha
<1>1. LoadOK(versions, load[l])
  BY DEF LoadsOK
<1>2. /\ id \in DOMAIN versions /\ id # 0 /\ versions[id].sha = sha /\ ~versions[id].loaded
      /\ load[l].copied = Whole(sha) /\ load[l].copied \subseteq AllRows
      /\ load[l].tz \in TimeZones /\ Active(versions) \subseteq load[l].saw
  BY <1>1, ReadyToCommit
<1>3. /\ DOMAIN versions' = DOMAIN versions
      /\ versions' = [i \in DOMAIN versions' |-> versions'[i]]
  BY DEF Committed, Ids
<1>4. /\ versions'[id] \in VersionType /\ versions'[id].sha = sha
      /\ versions'[id].loaded /\ versions'[id].active /\ versions'[id].rows = Whole(sha)
  <2>1. versions[id] \in VersionType
    BY <1>2 DEF TableOK
  <2>2. versions'[id] = [versions[id] EXCEPT !.loaded = TRUE, !.active = TRUE,
                                            !.tz = load[l].tz, !.rows = load[l].copied]
    BY <1>2 DEF Committed, Ids
  <2> HIDE DEF id, sha
  <2> QED BY <1>2, <2>1, <2>2 DEF VersionType
<1>5. ASSUME NEW i \in DOMAIN versions, i # id
      PROVE  /\ versions'[i] \in VersionType /\ versions'[i].sha = versions[i].sha
             /\ versions'[i].loaded = versions[i].loaded /\ versions'[i].rows = versions[i].rows
             /\ ~versions'[i].active
  <2>1. versions[i] \in VersionType
    BY <1>5 DEF TableOK
  <2>2. CASE i \in load[l].saw
    <3>1. versions'[i] = [versions[i] EXCEPT !.active = FALSE]
      BY <1>5, <2>2 DEF Committed, Ids
    <3> QED BY <2>1, <3>1 DEF VersionType
  <2>3. CASE i \notin load[l].saw
    <3>1. versions'[i] = versions[i]
      BY <1>5, <2>3 DEF Committed, Ids
    <3>2. ~versions[i].active
      BY <1>2, <1>5, <2>3 DEF Active
    <3> QED BY <2>1, <3>1, <3>2
  <2> QED BY <2>2, <2>3
<1> HIDE DEF id, sha
<1>6. Active(versions') = {id}
  BY <1>2, <1>3, <1>4, <1>5 DEF Active
<1>7. TableOK(versions')
  <2>1. \A i \in DOMAIN versions' : versions'[i].sha = versions[i].sha
    BY <1>2, <1>3, <1>4, <1>5
  <2>2. \A i \in DOMAIN versions' :
           /\ versions'[i] \in VersionType
           /\ versions'[i].loaded => versions'[i].rows = Whole(versions'[i].sha)
           /\ versions'[i].active => versions'[i].loaded
    BY <1>2, <1>3, <1>4, <1>5 DEF TableOK
  <2> QED BY <1>3, <1>6, <2>1, <2>2 DEF TableOK
<1>8. LoadOK(versions', x)
  BY DEF LoadOK, Loading, InTransaction
<1>9. ASSUME NEW m \in Loaders \ {l}
      PROVE  LoadOK(versions', load[m]) /\ Apart(x, load[m])
  <2>1. LoadOK(versions, load[m]) /\ Apart(load[l], load[m]) /\ Apart(load[m], load[l])
    BY <1>9 DEF LoadsOK
  <2>2. load[m].pc # "activated" /\ load[m].id # id
    BY <1>2, <2>1 DEF Apart, id
  <2>3. LoadOK(versions', load[m])
    BY <1>3, <1>5, <2>1, <2>2, OtherTable
  <2> QED BY <2>1, <2>3 DEF Apart
<1> QED
  BY <1>7, <1>8, <1>9, OneLoadMoves

\* A row is inserted under an id that nobody knows.
LEMMA RowInserted ==
    ASSUME TableOK(versions), LoadsOK, NEW l \in Loaders, NEW id,
           load[l].pc = "inserting", OfSha(load[l].sha) = {}, InsertsRow(l, id)
    PROVE  TableOK(versions') /\ LoadsOK'
<1> DEFINE x   == [load[l] EXCEPT !.pc = "begun", !.id = id]
           row == [sha |-> load[l].sha, tz |-> "", loaded |-> FALSE, active |-> FALSE,
                   rows |-> {}]
<1>1. LoadOK(versions, load[l]) /\ load[l] \in LoadType /\ load[l].sha \in Shas
  BY DEF LoadsOK, LoadOK
<1>2. /\ id \in VersionIds /\ id # 0 /\ id \notin DOMAIN versions
      /\ \A m \in Loaders : load[m].id # id
  <2>1. id \in VersionIds /\ id \notin Known
    BY DEF InsertsRow
  <2>2. id # 0
    BY <2>1, LoadsAssumption
  <2>3. \A m \in Loaders : load[m].id \in Known
    BY DEF Known
  <2> QED BY <2>1, <2>2, <2>3 DEF Known, Ids
<1>3. /\ versions' = [i \in DOMAIN versions \cup {id} |-> IF i = id THEN row ELSE versions[i]]
      /\ DOMAIN versions' = DOMAIN versions \cup {id}
      /\ versions'[id] = row
      /\ \A i \in DOMAIN versions : versions'[i] = versions[i]
  <2>1. versions' = [i \in DOMAIN versions \cup {id} |-> IF i = id THEN row ELSE versions[i]]
    BY DEF InsertsRow, Ids
  <2> HIDE DEF row
  <2> QED BY <1>2, <2>1
<1>4. load' = [load EXCEPT ![l] = x]
  <2>1. load \in [Loaders -> LoadType]
    BY DEF LoadsOK
  <2>2. load' = [load EXCEPT ![l].pc = "begun", ![l].id = id]
    BY DEF InsertsRow
  <2> QED BY <1>1, <2>1, <2>2 DEF LoadType
<1>5. row \in VersionType /\ row.sha = load[l].sha /\ ~row.loaded /\ ~row.active
  <2>1. "" \in TimeZones /\ {} \in SUBSET AllRows /\ FALSE \in BOOLEAN
    BY DEF TimeZones
  <2> QED BY <1>1, <2>1 DEF VersionType
<1>6. /\ x \in LoadType /\ x.pc = "begun" /\ x.id = id /\ x.sha = load[l].sha
      /\ x.zip = load[l].zip /\ x.copied = load[l].copied /\ x.buffer = load[l].buffer
  BY <1>1, <1>2 DEF LoadType, Pcs
<1> HIDE DEF x, row
<1>7. Active(versions') = Active(versions)
  BY <1>2, <1>3, <1>5 DEF Active
<1>8. TableOK(versions')
  <2>1. \A i \in DOMAIN versions : versions[i].sha # load[l].sha
    BY DEF OfSha, Ids
  <2>2. versions' = [i \in DOMAIN versions' |-> versions'[i]]
    BY <1>3
  <2>3. \A i \in DOMAIN versions' :
           /\ versions'[i] \in VersionType
           /\ versions'[i].loaded => versions'[i].rows = Whole(versions'[i].sha)
           /\ versions'[i].active => versions'[i].loaded
    BY <1>3, <1>5 DEF TableOK
  <2>4. \A i, j \in DOMAIN versions' : versions'[i].sha = versions'[j].sha => i = j
    BY <1>3, <1>5, <2>1 DEF TableOK
  <2> QED BY <1>2, <1>3, <1>7, <2>2, <2>3, <2>4 DEF TableOK
<1>9. LoadOK(versions', x)
  <2>1. load[l].zip = 0 /\ load[l].copied = {} /\ Buffered(load[l]) = {}
    BY <1>1 DEF LoadOK
  <2>2. Contents(x.sha, 0) = {}
    BY DEF Contents
  <2>3. Len(Zips[x.sha]) \in Nat /\ 1..0 = {}
    BY <1>1, <1>6, ZipsAssumption
  <2>4. Buffered(x) = {}
    BY <1>6, <2>1 DEF Buffered
  <2> QED BY <1>1, <1>2, <1>3, <1>5, <1>6, <2>1, <2>2, <2>3, <2>4 DEF LoadOK, Loading, InTransaction
<1>10. ASSUME NEW m \in Loaders \ {l}
       PROVE  LoadOK(versions', load[m]) /\ Apart(x, load[m])
  <2>1. LoadOK(versions, load[m]) /\ load[m].id # id
    BY <1>2, <1>10 DEF LoadsOK
  <2>2. LoadOK(versions', load[m])
    BY <1>3, <1>7, <2>1, OtherTable
  <2> QED BY <1>6, <2>1, <2>2 DEF Apart
<1> QED
  BY <1>4, <1>8, <1>9, <1>10, OneLoadMoves

-----------------------------------------------------------------------------
(* The steps of a load.                                                    *)

\* A load that has not begun has nothing.
LEMMA IdleIsEmpty ==
    /\ Idle \in LoadType /\ Idle.pc = "idle" /\ Idle.id = 0
    /\ Idle.zip = 0 /\ Idle.copied = {} /\ Buffered(Idle) = {}
<1> DEFINE none == [t \in Tables |-> << >>]
<1>1. /\ none \in [Tables -> Seq(AllRows)] /\ {} \in SUBSET AllRows
      /\ {} \in SUBSET VersionIds /\ 0 \in Nat /\ "idle" \in Pcs
  BY DEF Pcs
<1>2. "" \in TimeZones
  BY DEF TimeZones
<1>3. Idle = [pc |-> "idle", sha |-> "", id |-> 0, found |-> 0, zip |-> 0, tz |-> "",
              copied |-> {}, buffer |-> none, saw |-> {}]
  BY DEF Idle
<1>4. Range(<< >>) = {} /\ \A t \in Tables : none[t] = << >>
  BY DEF Range
<1> HIDE DEF none
<1>5. Idle \in LoadType
  BY <1>1, <1>2, <1>3 DEF LoadType
<1> QED
  BY <1>3, <1>4, <1>5 DEF Buffered

\* The invariant holds at the start.
LEMMA InitInv == Init => Inv
<1> SUFFICES ASSUME Init
             PROVE  Inv
  OBVIOUS
<1>1. Idle \in LoadType /\ Idle.pc = "idle" /\ Idle.id = 0
  BY IdleIsEmpty
<1>2. \A l \in Loaders : load[l] = Idle
  BY DEF Init
<1>3. LoadOK(versions, Idle) /\ Apart(Idle, Idle)
  BY <1>1 DEF LoadOK, Loading, InTransaction, Apart
<1>4. LoadsOK
  BY <1>1, <1>2, <1>3 DEF LoadsOK, Init
<1>5. TableOK(versions)
  BY DEF Init, TableOK, Active
<1> QED
  BY <1>4, <1>5, LoadsAssumption DEF Inv, Rest, Init

\* What a load in its place looks like.
LEMMA LoadKnown ==
    ASSUME LoadsOK, NEW l \in Loaders
    PROVE  /\ load[l] \in LoadType /\ LoadOK(versions, load[l])
           /\ load \in [Loaders -> LoadType]
  BY DEF LoadsOK

\* An idle load, or one that aborts, owes nothing.
LEMMA NothingOwed ==
    ASSUME NEW table, NEW id \in {0} \cup VersionIds
    PROVE  /\ LoadOK(table, Idle)
           /\ LoadOK(table, [Idle EXCEPT !.pc = "aborting", !.id = id])
           /\ [Idle EXCEPT !.pc = "aborting", !.id = id] \in LoadType
           /\ [Idle EXCEPT !.pc = "aborting", !.id = id].pc = "aborting"
           /\ [Idle EXCEPT !.pc = "aborting", !.id = id].id = id
<1>1. Idle \in LoadType /\ Idle.pc = "idle" /\ Idle.id = 0
  BY IdleIsEmpty
<1>2. [Idle EXCEPT !.pc = "aborting", !.id = id] \in LoadType
  BY <1>1 DEF LoadType, Pcs
<1>3. /\ [Idle EXCEPT !.pc = "aborting", !.id = id].pc = "aborting"
      /\ [Idle EXCEPT !.pc = "aborting", !.id = id].id = id
  BY <1>1 DEF LoadType
<1> QED
  BY <1>1, <1>2, <1>3 DEF LoadOK, Loading, InTransaction

\* Whatever makes a load abort, the table and the other loads do not see it.
LEMMA AbortsOK ==
    ASSUME LoadsOK, NEW l \in Loaders, Aborts(l), versions' = versions
    PROVE  LoadsOK'
<1> DEFINE x == [Idle EXCEPT !.pc = "aborting", !.id = load[l].id]
<1>1. load[l].id \in {0} \cup VersionIds
  BY LoadKnown DEF LoadType
<1>2. LoadOK(versions, x) /\ x.id = load[l].id /\ x.pc # "activated"
  BY <1>1, NothingOwed
<1>3. load' = [load EXCEPT ![l] = x]
  BY DEF Aborts
<1> HIDE DEF x
<1> QED
  BY <1>2, <1>3, TableStays

\* LookUp starts from nothing.
LEMMA LookUpOK ==
    ASSUME Inv, NEW l \in Loaders, LookUp(l)
    PROVE  LoadsOK'
<1>1. PICK found \in IF OfSha(published) = {} THEN {0} ELSE OfSha(published) :
        load' = [load EXCEPT ![l] =
                   [Idle EXCEPT !.pc = IF found = 0 THEN "inserting" ELSE "deleting",
                                !.sha = published, !.found = found]]
  BY DEF LookUp
<1> DEFINE x == [Idle EXCEPT !.pc = IF found = 0 THEN "inserting" ELSE "deleting",
                             !.sha = published, !.found = found]
<1>2. found \in {0} \cup VersionIds /\ published \in Shas
  BY DEF OfSha, Ids, Inv, TableOK, Rest
<1>3. /\ x \in LoadType /\ x.pc \in {"inserting", "deleting"} /\ x.id = 0
      /\ x.sha = published /\ x.zip = 0 /\ x.copied = {} /\ x.buffer = Idle.buffer
  BY <1>2, IdleIsEmpty DEF LoadType, Pcs
<1>4. LoadOK(versions, x) /\ x.pc # "activated"
  <2> HIDE DEF x
  <2>1. Buffered(x) = {}
    BY <1>3, IdleIsEmpty DEF Buffered
  <2> QED BY <1>2, <1>3, <2>1 DEF LoadOK, Loading, InTransaction
<1>5. load' = [load EXCEPT ![l] = x] /\ versions' = versions
  BY <1>1 DEF LookUp
<1> HIDE DEF x
<1> QED
  BY <1>3, <1>4, <1>5, TableStays DEF Inv

\* What a zip hands over is rows.
LEMMA ZipRowsAreRows ==
    ASSUME NEW sha \in Shas, NEW k \in Readable[sha], NEW t \in Tables
    PROVE  ZipRows[sha][k][t] \in Seq(AllRows)
<1> DEFINE q == ZipRows[sha][k][t]
<1>1. q \in Seq(Range(q))
  BY ZipsAssumption
<1>2. Range(q) \subseteq AllRows
  BY DEF AllRows
<1> HIDE DEF q
<1>3. /\ Len(q) \in Nat /\ DOMAIN q = 1..Len(q) /\ q = [i \in 1..Len(q) |-> q[i]]
      /\ \A i \in 1..Len(q) : q[i] \in Range(q)
  BY <1>1
<1>4. q \in Seq(AllRows)
  BY <1>2, <1>3
<1> QED
  BY <1>4 DEF q

\* One more zip adds its rows.
LEMMA OneMoreZip ==
    ASSUME NEW sha, NEW k \in Nat
    PROVE  Contents(sha, k + 1)
             = Contents(sha, k) \cup UNION {Range(ZipRows[sha][k + 1][t]) : t \in Tables}
<1>1. 1..(k + 1) = 1..k \cup {k + 1}
  OBVIOUS
<1> DEFINE j == k + 1
<1> HIDE DEF j
<1>2. 1..j = 1..k \cup {j}
  BY <1>1 DEF j
<1>3. Contents(sha, j) = Contents(sha, k) \cup UNION {Range(ZipRows[sha][j][t]) : t \in Tables}
  BY <1>2 DEF Contents
<1> QED
  BY <1>3 DEF j

\* Nothing of a zip is lost between what was sent and what is left.
LEMMA ParseZipOK ==
    ASSUME LoadsOK, NEW l \in Loaders, ParseZip(l)
    PROVE  LoadsOK'
<1> DEFINE sha == load[l].sha
           k   == load[l].zip + 1
           sent == UNION {Range(Sent(l, t)) : t \in Tables}
           left == [t \in Tables |-> Left(l, t)]
           tz  == AgencyTZ(Zips[sha][k])
           x   == [load[l] EXCEPT !.pc = "parsing", !.zip = k, !.tz = tz,
                                  !.copied = @ \cup sent, !.buffer = left]
<1>1. /\ load[l] \in LoadType /\ LoadOK(versions, load[l]) /\ load \in [Loaders -> LoadType]
      /\ load[l].pc \in {"begun", "parsing"} /\ load[l].zip \in Nat
  BY LoadKnown DEF LoadType, ParseZip, MoreZips
<1>2. /\ load[l].pc \in Loading /\ sha \in Shas /\ load[l].id # 0
      /\ 1..load[l].zip \subseteq Readable[sha]
      /\ load[l].copied \cup Buffered(load[l]) = Contents(sha, load[l].zip)
      /\ load[l].id \in DOMAIN versions
         => versions[load[l].id].sha = sha /\ ~versions[load[l].id].loaded
  <2>1. load[l].pc \in Loading
    BY <1>1 DEF Loading, InTransaction
  <2> QED BY <1>1, <2>1 DEF LoadOK
<1>3. k \in Readable[sha] /\ k <= Len(Zips[sha]) /\ k \in Nat
  <2>1. Len(Zips[sha]) \in Nat
    BY <1>2, ZipsAssumption
  <2>2. load[l].zip < Len(Zips[sha]) /\ k \in Readable[sha]
    BY DEF ParseZip, MoreZips, NextZip
  <2> HIDE DEF sha
  <2> QED BY <1>1, <2>1, <2>2
<1>4. ASSUME NEW t \in Tables
      PROVE  /\ Sent(l, t) \in Seq(AllRows) /\ Left(l, t) \in Seq(AllRows)
             /\ Range(Sent(l, t)) \cup Range(Left(l, t))
                  = Range(load[l].buffer[t]) \cup Range(ZipRows[sha][k][t])
  <2> DEFINE q == Queue(l, t)
             n == FullBatches(q)
  <2>1. load[l].buffer[t] \in Seq(AllRows) /\ ZipRows[sha][k][t] \in Seq(AllRows)
    BY <1>1, <1>2, <1>3, ZipRowsAreRows DEF LoadType
  <2>2. q = load[l].buffer[t] \o ZipRows[sha][k][t]
    BY DEF Queue, NextZip
  <2>3. /\ q \in Seq(AllRows)
        /\ Range(q) = Range(load[l].buffer[t]) \cup Range(ZipRows[sha][k][t])
    <3> DEFINE a == load[l].buffer[t]
               b == ZipRows[sha][k][t]
    <3>1. a \in Seq(AllRows) /\ b \in Seq(AllRows) /\ q = a \o b
      BY <2>1, <2>2
    <3> HIDE DEF a, b, q
    <3>2. q \in Seq(AllRows) /\ Range(q) = Range(a) \cup Range(b)
      BY <3>1, JoinLosesNothing
    <3> QED BY <3>2 DEF a, b
  <2>4. Sent(l, t) = SubSeq(q, 1, n) /\ Left(l, t) = SubSeq(q, n + 1, Len(q))
    BY DEF Sent, Left
  <2>5. n \in 0..Len(q)
    <3> HIDE DEF q
    <3> QED BY <2>3, FullBatchesFit
  <2> HIDE DEF q, n
  <2>6. /\ SubSeq(q, 1, n) \in Seq(AllRows) /\ SubSeq(q, n + 1, Len(q)) \in Seq(AllRows)
        /\ Range(SubSeq(q, 1, n)) \cup Range(SubSeq(q, n + 1, Len(q))) = Range(q)
    BY <2>3, <2>5, CutLosesNothing
  <2> QED BY <2>3, <2>4, <2>6
<1>5. sent \subseteq AllRows /\ left \in [Tables -> Seq(AllRows)]
  <2>1. ASSUME NEW t \in Tables
        PROVE  Range(Sent(l, t)) \subseteq AllRows
    <3> DEFINE q == Sent(l, t)
    <3>1. q \in Seq(AllRows)
      BY <1>4
    <3> HIDE DEF q
    <3>2. Range(q) \subseteq AllRows
      BY <3>1, RowsOf
    <3> QED BY <3>2 DEF q
  <2> QED BY <1>4, <2>1
<1>6. tz \in TimeZones
  <2> DEFINE zones(a) == {AgencyTZ(Zips[a][j]) : j \in Readable[a]}
  <2> HIDE DEF sha, k
  <2>1. tz \in zones(sha)
    BY <1>3, Zenon
  <2>2. zones(sha) \subseteq UNION {zones(a) : a \in Shas}
    <3> HIDE DEF zones
    <3> QED BY <1>2
  <2>3. TimeZones = {""} \cup UNION {zones(a) : a \in Shas}
    BY Zenon DEF TimeZones
  <2> HIDE DEF zones, tz
  <2> QED BY <2>1, <2>2, <2>3
<1>7. load' = [load EXCEPT ![l] = x] /\ versions' = versions
  <2>1. load' = [load EXCEPT ![l].pc = "parsing", ![l].zip = @ + 1,
                             ![l].tz = AgencyTZ(Zips[load[l].sha][NextZip(l)]),
                             ![l].copied = @ \cup UNION {Range(Sent(l, t)) : t \in Tables},
                             ![l].buffer = [t \in Tables |-> Left(l, t)]]
    BY DEF ParseZip
  <2>2. NextZip(l) = k
    BY DEF NextZip
  <2>3. versions' = versions
    BY DEF ParseZip
  <2>4. load' = [load EXCEPT ![l].pc = "parsing", ![l].zip = k, ![l].tz = tz,
                             ![l].copied = @ \cup sent, ![l].buffer = left]
    BY <2>1, <2>2
  <2> HIDE DEF sha, k, sent, left, tz
  <2> QED BY <1>1, <2>3, <2>4 DEF LoadType
<1>8. Contents(sha, k)
        = Contents(sha, load[l].zip) \cup UNION {Range(ZipRows[sha][k][t]) : t \in Tables}
  BY <1>1, OneMoreZip
<1>9. sent \cup UNION {Range(left[t]) : t \in Tables}
        = Buffered(load[l]) \cup UNION {Range(ZipRows[sha][k][t]) : t \in Tables}
  <2>1. \A t \in Tables : left[t] = Left(l, t)
    OBVIOUS
  <2> HIDE DEF left
  <2> QED BY <1>4, <2>1 DEF Buffered
<1>10. sent # {} => load[l].id \in DOMAIN versions
  <2> SUFFICES ASSUME sent # {}
               PROVE  load[l].id \in DOMAIN versions
    OBVIOUS
  <2>1. PICK t \in Tables : Range(Sent(l, t)) # {}
    OBVIOUS
  <2>2. Sent(l, t) # << >>
    BY <2>1 DEF Range
  <2> QED BY <2>2 DEF ParseZip, Takes, Ids
<1> HIDE DEF sent, left, tz
<1>11. /\ x \in LoadType /\ x.pc = "parsing" /\ x.zip = k /\ x.sha = sha /\ x.id = load[l].id
       /\ x.copied = load[l].copied \cup sent /\ x.buffer = left
  <2> HIDE DEF k, sha
  <2>1. "parsing" \in Pcs
    BY DEF Pcs, InTransaction
  <2> QED BY <1>1, <1>3, <1>5, <1>6, <2>1 DEF LoadType, sha
<1> HIDE DEF x
<1>12. 1..k \subseteq Readable[sha]
  <2>1. 1..k = 1..load[l].zip \cup {k}
    BY <1>1
  <2> QED BY <1>2, <1>3, <2>1
<1> HIDE DEF k, sha
<1>13. x.copied \cup Buffered(x) = Contents(sha, k)
  BY <1>2, <1>8, <1>9, <1>11 DEF Buffered
<1>14. x.copied # {} => x.id \in DOMAIN versions
  <2>1. CASE load[l].pc = "begun"
    <3>1. load[l].zip = 0
      BY <1>1, <2>1 DEF LoadOK
    <3>2. Contents(sha, 0) = {}
      BY DEF Contents
    <3>3. load[l].copied = {}
      BY <1>2, <3>1, <3>2
    <3> QED BY <1>10, <1>11, <3>3
  <2>2. CASE load[l].pc = "parsing"
    <3>1. load[l].copied # {} => load[l].id \in DOMAIN versions
      BY <1>1, <2>2 DEF LoadOK, InTransaction
    <3> QED BY <1>10, <1>11, <3>1
  <2> QED BY <1>1, <2>1, <2>2
<1>15. LoadOK(versions, x)
  BY <1>2, <1>3, <1>11, <1>12, <1>13, <1>14 DEF LoadOK, Loading, InTransaction
<1> QED
  BY <1>7, <1>11, <1>15, TableStays

\* Commit's flush leaves the whole schedule copied.
LEMMA FlushOK ==
    ASSUME LoadsOK, NEW l \in Loaders, Flush(l)
    PROVE  LoadsOK'
<1> DEFINE sha   == load[l].sha
           sent  == Buffered(load[l])
           empty == [t \in Tables |-> << >>]
           x     == [load[l] EXCEPT !.pc = "filled", !.copied = @ \cup sent, !.buffer = empty]
<1>1. /\ load[l] \in LoadType /\ LoadOK(versions, load[l]) /\ load \in [Loaders -> LoadType]
      /\ load[l].pc = "parsing" /\ load[l].zip = Len(Zips[sha])
  BY LoadKnown DEF Flush, AllRead
<1>2. /\ sha \in Shas /\ load[l].id # 0 /\ load[l].copied \cup sent = Whole(sha)
      /\ load[l].zip <= Len(Zips[sha]) /\ 1..load[l].zip \subseteq Readable[sha]
      /\ load[l].id \in DOMAIN versions
         => versions[load[l].id].sha = sha /\ ~versions[load[l].id].loaded
  BY <1>1 DEF LoadOK, Loading, InTransaction, Whole
<1>3. sent \subseteq AllRows
  <2>1. ASSUME NEW t \in Tables
        PROVE  Range(load[l].buffer[t]) \subseteq AllRows
    <3> DEFINE q == load[l].buffer[t]
    <3>1. q \in Seq(AllRows)
      BY <1>1 DEF LoadType
    <3> HIDE DEF q
    <3>2. Range(q) \subseteq AllRows
      BY <3>1, RowsOf
    <3> QED BY <3>2 DEF q
  <2> QED BY <2>1 DEF Buffered
<1>4. empty \in [Tables -> Seq(AllRows)]
  OBVIOUS
<1>5. sent # {} => load[l].id \in DOMAIN versions
  <2> SUFFICES ASSUME sent # {}
               PROVE  load[l].id \in DOMAIN versions
    OBVIOUS
  <2>1. PICK t \in Tables : Range(load[l].buffer[t]) # {}
    BY DEF Buffered
  <2>2. load[l].buffer[t] # << >>
    BY <2>1 DEF Range
  <2> QED BY <2>2 DEF Flush, Flushable, Takes, Ids
<1>6. load' = [load EXCEPT ![l] = x] /\ versions' = versions
  <2>1. load' = [load EXCEPT ![l].pc = "filled", ![l].copied = @ \cup sent, ![l].buffer = empty]
    BY DEF Flush, Buffered
  <2>2. versions' = versions
    BY DEF Flush
  <2> HIDE DEF sent, empty
  <2> QED BY <1>1, <2>1, <2>2 DEF LoadType
<1> HIDE DEF sent, empty
<1>7. /\ x \in LoadType /\ x.pc = "filled" /\ x.zip = load[l].zip /\ x.sha = sha
      /\ x.id = load[l].id /\ x.copied = load[l].copied \cup sent
  <2>1. "filled" \in Pcs
    BY DEF Pcs, InTransaction
  <2> QED BY <1>1, <1>3, <1>4, <2>1 DEF LoadType
<1> HIDE DEF x, sha
<1>8. x.copied # {} => x.id \in DOMAIN versions
  BY <1>1, <1>5, <1>7 DEF LoadOK, InTransaction
<1>9. LoadOK(versions, x)
  BY <1>1, <1>2, <1>7, <1>8 DEF LoadOK, Loading, InTransaction
<1> QED
  BY <1>6, <1>7, <1>9, TableStays

\* From the flush to the commit, a load only gets further.
LEMMA FilledGoesOn ==
    ASSUME LoadsOK, NEW l \in Loaders, NEW pc \in InTransaction \ {"parsing"},
           NEW saw \in SUBSET VersionIds,
           load[l].pc \in InTransaction \ {"parsing"}, versions' = versions,
           load' = [load EXCEPT ![l] = [load[l] EXCEPT !.pc = pc, !.saw = saw]],
           pc = "activated" => /\ Active(versions) \subseteq saw
                               /\ \A m \in Loaders \ {l} : load[m].pc # "activated"
    PROVE  LoadsOK'
<1> DEFINE x == [load[l] EXCEPT !.pc = pc, !.saw = saw]
<1>1. load[l] \in LoadType /\ LoadOK(versions, load[l])
  BY LoadKnown
<1>2. /\ x \in LoadType /\ x.pc = pc /\ x.saw = saw /\ x.id = load[l].id
      /\ x.sha = load[l].sha /\ x.zip = load[l].zip /\ x.copied = load[l].copied
  BY <1>1 DEF LoadType, Pcs
<1>3. load' = [load EXCEPT ![l] = x]
  OBVIOUS
<1> HIDE DEF x
<1>4. LoadOK(versions, x)
  <2>1. load[l].pc \in Loading /\ load[l].pc \in InTransaction
    BY DEF Loading
  <2>2. x.pc \notin {"idle", "deleting", "inserting", "begun", "parsing"}
    BY <1>2 DEF InTransaction
  <2> QED BY <1>1, <1>2, <2>1, <2>2 DEF LoadOK
<1> QED
  BY <1>2, <1>3, <1>4, TableStays

\* Stamp, SeeActive, Deactivate and Activate.
LEMMA CommitGoesOn ==
    ASSUME Inv, NEW l \in Loaders,
           Stamp(l) \/ SeeActive(l) \/ Deactivate(l) \/ Activate(l)
    PROVE  LoadsOK'
<1>1. /\ LoadsOK /\ load[l] \in LoadType /\ load \in [Loaders -> LoadType]
      /\ load[l].saw \in SUBSET VersionIds /\ DOMAIN versions \subseteq VersionIds
  BY LoadKnown DEF Inv, LoadType, TableOK
<1>2. CASE Stamp(l)
  <2>1. load' = [load EXCEPT ![l] = [load[l] EXCEPT !.pc = "stamped", !.saw = load[l].saw]]
    BY <1>1, <1>2 DEF Stamp, Goes, LoadType
  <2>2. load[l].pc \in InTransaction \ {"parsing"} /\ versions' = versions
    BY <1>2 DEF Stamp, InTransaction
  <2>3. "stamped" \in InTransaction \ {"parsing"} /\ "stamped" # "activated"
    BY DEF InTransaction
  <2> QED BY <1>1, <2>1, <2>2, <2>3, FilledGoesOn
<1>3. CASE SeeActive(l)
  <2>1. load' = [load EXCEPT ![l] = [load[l] EXCEPT !.pc = "deactivating",
                                                   !.saw = Active(versions)]]
    BY <1>1, <1>3 DEF SeeActive, LoadType
  <2>2. load[l].pc \in InTransaction \ {"parsing"} /\ versions' = versions
    BY <1>3 DEF SeeActive, InTransaction
  <2>3. "deactivating" \in InTransaction \ {"parsing"} /\ "deactivating" # "activated"
    BY DEF InTransaction
  <2>4. Active(versions) \in SUBSET VersionIds
    BY <1>1 DEF Active
  <2> QED BY <1>1, <2>1, <2>2, <2>3, <2>4, FilledGoesOn
<1>4. CASE Deactivate(l)
  <2> DEFINE saw == load[l].saw \cap Active(versions)
  <2>1. load' = [load EXCEPT ![l] = [load[l] EXCEPT !.pc = "deactivated", !.saw = saw]]
    BY <1>1, <1>4 DEF Deactivate, LoadType
  <2>2. load[l].pc \in InTransaction \ {"parsing"} /\ versions' = versions
    BY <1>4 DEF Deactivate, InTransaction
  <2>3. "deactivated" \in InTransaction \ {"parsing"} /\ "deactivated" # "activated"
    BY DEF InTransaction
  <2>4. saw \in SUBSET VersionIds
    BY <1>1
  <2> HIDE DEF saw
  <2> QED BY <1>1, <2>1, <2>2, <2>3, <2>4, FilledGoesOn
<1>5. CASE Activate(l)
  <2>1. load' = [load EXCEPT ![l] = [load[l] EXCEPT !.pc = "activated", !.saw = load[l].saw]]
    BY <1>1, <1>5 DEF Activate, Goes, LoadType
  <2>2. load[l].pc \in InTransaction \ {"parsing"} /\ versions' = versions
    BY <1>5 DEF Activate, InTransaction
  <2>3. "activated" \in InTransaction \ {"parsing"}
    BY DEF InTransaction
  <2>4. /\ Active(versions) \subseteq load[l].saw
        /\ \A m \in Loaders \ {l} : load[m].pc # "activated"
    BY <1>5 DEF Activate, EntryHeldByOther
  <2> QED BY <1>1, <2>1, <2>2, <2>3, <2>4, FilledGoesOn
<1> QED
  BY <1>2, <1>3, <1>4, <1>5

\* Steps back to idle that leave the table alone.
LEMMA IdleAgain ==
    ASSUME LoadsOK, NEW l \in Loaders, load' = [load EXCEPT ![l] = Idle], versions' = versions
    PROVE  LoadsOK'
<1>1. LoadOK(versions, Idle) /\ Idle.pc # "activated" /\ Idle.id = 0
  BY NothingOwed, IdleIsEmpty
<1> QED
  BY <1>1, TableStays

\* DeleteLeftover and Abort.
LEMMA DeletesOK ==
    ASSUME TableOK(versions), LoadsOK, NEW l \in Loaders, DeleteLeftover(l) \/ Abort(l)
    PROVE  TableOK(versions') /\ LoadsOK'
<1>1. load[l] \in LoadType /\ LoadOK(versions, load[l]) /\ load \in [Loaders -> LoadType]
  BY LoadKnown
<1>2. CASE DeleteLeftover(l)
  <2> DEFINE x == [load[l] EXCEPT !.pc = "inserting", !.found = 0]
             i == load[l].found
  <2>1. load' = [load EXCEPT ![l] = x]
    BY <1>1, <1>2 DEF DeleteLeftover, LoadType
  <2>2. /\ x \in LoadType /\ x.pc = "inserting" /\ x.id = load[l].id /\ x.sha = load[l].sha
        /\ x.zip = load[l].zip /\ x.copied = load[l].copied /\ x.buffer = load[l].buffer
    BY <1>1 DEF LoadType, Pcs
  <2>3. i \notin LockedByOthers(l) /\ versions' = Without(versions, i) /\ load[l].pc = "deleting"
    BY <1>2 DEF DeleteLeftover
  <2> HIDE DEF x, i
  <2>4. Buffered(x) = Buffered(load[l])
    BY <2>2 DEF Buffered
  <2>5. LoadOK(versions', x)
    BY <1>1, <2>2, <2>3, <2>4 DEF LoadOK, Loading, InTransaction
  <2> QED BY <2>1, <2>2, <2>3, <2>5, RowDeleted
<1>3. CASE Abort(l)
  <2>1. LoadOK(versions', Idle) /\ Idle.pc # "activated" /\ Idle.id = 0
    BY NothingOwed, IdleIsEmpty
  <2> DEFINE i == load[l].id
  <2>2. /\ i \notin LockedByOthers(l) /\ versions' = Without(versions, i)
        /\ load' = [load EXCEPT ![l] = Idle]
    BY <1>3 DEF Abort
  <2> HIDE DEF i
  <2> QED BY <2>1, <2>2, RowDeleted
<1> QED
  BY <1>2, <1>3

\* Commit, whether or not its answer arrives.
LEMMA CommitsOK ==
    ASSUME TableOK(versions), LoadsOK, NEW l \in Loaders, Commit(l) \/ CommitUnacknowledged(l)
    PROVE  TableOK(versions') /\ LoadsOK'
<1>1. CASE Commit(l)
  <2>1. /\ load[l].pc = "activated" /\ versions' = Committed(l)
        /\ load' = [load EXCEPT ![l] = Idle]
    BY <1>1 DEF Commit
  <2> QED BY <2>1, VersionCommitted, IdleIsEmpty
<1>2. CASE CommitUnacknowledged(l)
  <2> DEFINE x == [Idle EXCEPT !.pc = "aborting", !.id = load[l].id]
  <2>1. /\ load[l].pc = "activated" /\ versions' = Committed(l)
        /\ load' = [load EXCEPT ![l] = x]
    BY <1>2 DEF CommitUnacknowledged, Aborts
  <2>2. x \in LoadType /\ x.pc = "aborting" /\ x.id = load[l].id
    <3>1. load[l].id \in {0} \cup VersionIds
      BY LoadKnown DEF LoadType
    <3> QED BY <3>1, NothingOwed
  <2> HIDE DEF x
  <2> QED BY <2>1, <2>2, VersionCommitted
<1> QED
  BY <1>1, <1>2

\* A step of load l, whatever id the sequence gives it.
LoadStep(l, id) ==
    \/ LookUp(l) \/ Proceeds(l, id)
    \/ CommitUnacknowledged(l) \/ Fails(l) \/ Dies(l)

\* Every step of a load keeps the invariant.
LEMMA StepInv ==
    ASSUME Inv, NEW l \in Loaders, NEW id, LoadStep(l, id)
    PROVE  Inv'
<1>1. Rest'
  <2>1. published' = published /\ past' = past
    BY DEF LoadStep, LookUp, Proceeds, CommitUnacknowledged, Fails, Dies, DeleteLeftover, Insert,
       InsertsRow, InsertRefused, ParseZip, ParseRefused, Flush, FlushRefused, Stamp,
       SeeActive, Deactivate, Activate, ActivateRefused, Commit, Abort
  <2>2. failures' = failures \/ MayFail
    BY DEF LoadStep, LookUp, Proceeds, CommitUnacknowledged, Fails, Dies, DeleteLeftover, Insert,
       InsertsRow, InsertRefused, ParseZip, ParseRefused, Flush, FlushRefused, Stamp,
       SeeActive, Deactivate, Activate, ActivateRefused, Commit, Abort
  <2> QED BY <2>1, <2>2, LoadsAssumption DEF Inv, Rest, MayFail
<1>2. CASE LookUp(l)
  BY <1>1, <1>2, LookUpOK DEF LookUp, Inv
<1>3. CASE DeleteLeftover(l) \/ Abort(l)
  BY <1>1, <1>3, DeletesOK DEF Inv
<1>4. CASE Insert(l, id)
  <2>1. load[l].pc = "inserting" /\ OfSha(load[l].sha) = {} /\ InsertsRow(l, id)
    BY <1>4 DEF Insert
  <2> QED BY <1>1, <2>1, RowInserted DEF Inv
<1>5. CASE InsertRefused(l) \/ Dies(l)
  <2>1. load' = [load EXCEPT ![l] = Idle] /\ versions' = versions
    BY <1>5 DEF InsertRefused, Dies
  <2> QED BY <1>1, <2>1, IdleAgain DEF Inv
<1>6. CASE ParseZip(l)
  BY <1>1, <1>6, ParseZipOK DEF ParseZip, Inv
<1>7. CASE ParseRefused(l) \/ FlushRefused(l) \/ ActivateRefused(l) \/ Fails(l)
  <2>1. Aborts(l) /\ versions' = versions
    BY <1>7 DEF ParseRefused, FlushRefused, ActivateRefused, Fails
  <2> QED BY <1>1, <2>1, AbortsOK DEF Inv
<1>8. CASE Flush(l)
  BY <1>1, <1>8, FlushOK DEF Flush, Inv
<1>9. CASE Stamp(l) \/ SeeActive(l) \/ Deactivate(l) \/ Activate(l)
  BY <1>1, <1>9, CommitGoesOn DEF Stamp, SeeActive, Deactivate, Activate, Inv
<1>10. CASE Commit(l) \/ CommitUnacknowledged(l)
  BY <1>1, <1>10, CommitsOK DEF Inv
<1> QED BY <1>2, <1>3, <1>4, <1>5, <1>6, <1>7, <1>8, <1>9, <1>10 DEF LoadStep, Proceeds

\* So does a publication.
LEMMA PublishInv ==
    ASSUME Inv, NEW sha \in Shas, Publish(sha)
    PROVE  Inv'
<1>1. versions' = versions /\ load' = load
  BY DEF Publish
<1>2. TableOK(versions') /\ LoadsOK'
  BY <1>1 DEF Inv, LoadsOK
<1> QED BY <1>2 DEF Publish, Inv, Rest

\* And so does no step.
LEMMA StutterInv == Inv /\ UNCHANGED vars => Inv'
  BY DEF vars, Inv, TableOK, LoadsOK, LoadOK, Rest, Active

\* Every step keeps the invariant.
LEMMA NextInv == Inv /\ [Next]_vars => Inv'
<1> SUFFICES ASSUME Inv, [Next]_vars
             PROVE  Inv'
  OBVIOUS
<1>1. ASSUME NEW l \in Loaders,
             \/ LookUp(l) \/ Proceeds(l, Fresh(Known))
             \/ CommitUnacknowledged(l) \/ Fails(l) \/ Dies(l)
      PROVE  Inv'
  <2>1. LoadStep(l, Fresh(Known))
    BY <1>1 DEF LoadStep
  <2> QED BY <2>1, StepInv
<1> QED
  BY <1>1, StutterInv, PublishInv DEF Next

LEMMA Invariance == Spec => []Inv
  BY InitInv, NextInv, PTL DEF Spec

-----------------------------------------------------------------------------

\* The tables and the loads keep their types (ScheduleLoad, schedule_versions).
THEOREM LoadsTypeOK == Spec => []TypeOK
<1>1. Inv => TypeOK
  BY DEF Inv, TableOK, LoadsOK, Rest, TypeOK, VersionType, LoadType, Ids
<1> QED
  BY <1>1, Invariance, PTL

\* ActiveIsWhole in every reachable state: whatever loads overlap, fail or die,
\* what readers take for the schedule is one loaded version with every row of
\* every zip (addRow, flush, Commit, Abort).
THEOREM ActiveVersionIsWhole == Spec => []ActiveIsWhole
<1>1. Inv => ActiveIsWhole
  BY DEF Inv, TableOK, ActiveIsWhole, Active
<1> QED
  BY <1>1, Invariance, PTL

\* OpenLoadsKeepTheirRow in every reachable state: once rows are copied, the
\* version they refer to is there until the load ends (Meta, NewScheduleLoad).
THEOREM OpenLoadsHaveTheirRow == Spec => []OpenLoadsKeepTheirRow
<1>1. Inv => OpenLoadsKeepTheirRow
  BY DEF Inv, LoadsOK, LoadOK, OpenLoadsKeepTheirRow, Loading, Ids
<1> QED
  BY <1>1, Invariance, PTL

\* What a step makes of a version that stays.
SameVersion(i) ==
    /\ versions'[i].sha = versions[i].sha
    /\ versions[i].loaded
       => versions'[i] = [versions[i] EXCEPT !.active = versions'[i].active]

LEMMA StepKeepsVersion ==
    ASSUME Inv, NEW l \in Loaders, NEW id, LoadStep(l, id),
           NEW i \in DOMAIN versions \cap DOMAIN versions'
    PROVE  SameVersion(i)
<1>1. versions[i] \in VersionType
  BY DEF Inv, TableOK
<1>2. CASE versions'[i] = versions[i]
  BY <1>1, <1>2 DEF SameVersion, VersionType
<1>3. ASSUME load[l].pc = "activated", versions' = Committed(l)
      PROVE  SameVersion(i)
  <2>1. ~versions[load[l].id].loaded
    BY <1>3, ReadyToCommit DEF Inv, LoadsOK
  <2>2. CASE i = load[l].id
    <3>1. versions'[i] = [versions[i] EXCEPT !.loaded = TRUE, !.active = TRUE,
                                            !.tz = load[l].tz, !.rows = load[l].copied]
      BY <1>3, <2>2 DEF Committed, Ids
    <3> QED BY <1>1, <2>1, <2>2, <3>1 DEF SameVersion, VersionType
  <2>3. CASE i # load[l].id /\ i \in load[l].saw
    <3>1. versions'[i] = [versions[i] EXCEPT !.active = FALSE]
      BY <1>3, <2>3 DEF Committed, Ids
    <3> QED BY <1>1, <3>1 DEF SameVersion, VersionType
  <2>4. CASE i # load[l].id /\ i \notin load[l].saw
    <3>1. versions'[i] = versions[i]
      BY <1>3, <2>4 DEF Committed, Ids
    <3> QED BY <1>2, <3>1
  <2> QED BY <2>2, <2>3, <2>4
<1>4. ASSUME NEW j, versions' = Without(versions, j)
      PROVE  versions'[i] = versions[i]
  BY <1>4 DEF Without
<1>5. ASSUME InsertsRow(l, id)
      PROVE  versions'[i] = versions[i]
  <2>1. id \notin DOMAIN versions
    BY <1>5 DEF InsertsRow, Known, Ids
  <2> QED BY <1>5, <2>1 DEF InsertsRow, Ids
<1>6. CASE DeleteLeftover(l) \/ Abort(l)
  BY <1>2, <1>4, <1>6 DEF DeleteLeftover, Abort
<1>7. CASE Insert(l, id)
  BY <1>2, <1>5, <1>7 DEF Insert
<1>8. CASE Commit(l) \/ CommitUnacknowledged(l)
  BY <1>3, <1>8 DEF Commit, CommitUnacknowledged
<1>9. CASE \/ LookUp(l) \/ InsertRefused(l) \/ Dies(l) \/ ParseZip(l) \/ ParseRefused(l)
           \/ FlushRefused(l) \/ ActivateRefused(l) \/ Fails(l) \/ Flush(l) \/ Stamp(l)
           \/ SeeActive(l) \/ Deactivate(l) \/ Activate(l)
  <2>1. versions' = versions
    BY <1>9 DEF LookUp, InsertRefused, Dies, ParseZip, ParseRefused, FlushRefused,
       ActivateRefused, Fails, Flush, Stamp, SeeActive, Deactivate, Activate
  <2> QED BY <1>2, <2>1
<1> QED BY <1>6, <1>7, <1>8, <1>9 DEF LoadStep, Proceeds

LEMMA VersionsStay ==
    ASSUME Inv, [Next]_vars, NEW i \in DOMAIN versions \cap DOMAIN versions'
    PROVE  SameVersion(i)
<1>1. versions[i] \in VersionType
  BY DEF Inv, TableOK
<1>2. CASE versions' = versions
  BY <1>1, <1>2 DEF SameVersion, VersionType
<1>3. ASSUME NEW l \in Loaders, LoadStep(l, Fresh(Known))
      PROVE  SameVersion(i)
  BY <1>3, StepKeepsVersion
<1> QED
  BY <1>2, <1>3 DEF Next, LoadStep, Publish, vars

\* VersionsAreImmutable, for every step: a loaded version never changes but for
\* its active flag, and a sha has one version at most (UNIQUE sha256, Commit).
THEOREM LoadedVersionsAreImmutable == Spec => VersionsAreImmutable
<1>1. ASSUME Inv, Inv', [Next]_vars
      PROVE  [/\ \A i \in Ids \cap Ids' :
                   /\ versions'[i].sha = versions[i].sha
                   /\ versions[i].loaded
                      => versions'[i] = [versions[i] EXCEPT !.active = versions'[i].active]
              /\ \A i, j \in Ids' : versions'[i].sha = versions'[j].sha => i = j]_vars
  <2>1. \A i \in DOMAIN versions \cap DOMAIN versions' : SameVersion(i)
    BY <1>1, VersionsStay
  <2>2. \A i, j \in DOMAIN versions' : versions'[i].sha = versions'[j].sha => i = j
    BY <1>1 DEF Inv, TableOK
  <2> QED BY <2>1, <2>2 DEF SameVersion, Ids
<1> QED
  BY <1>1, Invariance, PTL DEF Spec, VersionsAreImmutable

-----------------------------------------------------------------------------
(* While requests are served.                                              *)

\* What a step of a load does to the table.
LEMMA TableChanges ==
    ASSUME NEW l \in Loaders, NEW id, LoadStep(l, id)
    PROVE  \/ versions' = versions
           \/ DeleteLeftover(l) /\ versions' = Without(versions, load[l].found)
           \/ Abort(l) /\ versions' = Without(versions, load[l].id)
           \/ Insert(l, id) /\ InsertsRow(l, id)
           \/ /\ Commit(l) \/ CommitUnacknowledged(l)
              /\ load[l].pc = "activated" /\ versions' = Committed(l)
<1>1. CASE DeleteLeftover(l) \/ Abort(l)
  BY <1>1 DEF DeleteLeftover, Abort
<1>2. CASE Insert(l, id)
  BY <1>2 DEF Insert
<1>3. CASE Commit(l) \/ CommitUnacknowledged(l)
  BY <1>3 DEF Commit, CommitUnacknowledged
<1>4. CASE \/ LookUp(l) \/ InsertRefused(l) \/ Dies(l) \/ ParseZip(l) \/ ParseRefused(l)
           \/ FlushRefused(l) \/ ActivateRefused(l) \/ Fails(l) \/ Flush(l) \/ Stamp(l)
           \/ SeeActive(l) \/ Deactivate(l) \/ Activate(l)
  BY <1>4 DEF LookUp, InsertRefused, Dies, ParseZip, ParseRefused, FlushRefused,
     ActivateRefused, Fails, Flush, Stamp, SeeActive, Deactivate, Activate
<1> QED BY <1>1, <1>2, <1>3, <1>4 DEF LoadStep, Proceeds

\* A request is served, or a load goes on and the requests under way notice.
LEMMA ReadSteps ==
    ASSUME [ReadNext]_readVars
    PROVE  \/ UNCHANGED vars /\ (UNCHANGED reader \/ \E r \in Readers : Read(r))
           \/ Notice /\ \/ \E sha \in Shas : Publish(sha)
                        \/ \E l \in Loaders : LoadStep(l, Fresh(Known \cup Held))
<1>1. CASE UNCHANGED readVars
  BY <1>1 DEF readVars
<1>2. ASSUME NEW r \in Readers, Read(r) PROVE UNCHANGED vars
  BY <1>2 DEF Read, Ask, FindVersion, ReadRows, ReadUnversioned, ReadFails
<1> QED BY <1>1, <1>2 DEF ReadNext, LoadStep

LEMMA ReadInv == Inv /\ [ReadNext]_readVars => Inv'
<1> SUFFICES ASSUME Inv, [ReadNext]_readVars PROVE Inv'
  OBVIOUS
<1>1. ASSUME NEW l \in Loaders, LoadStep(l, Fresh(Known \cup Held)) PROVE Inv'
  BY <1>1, StepInv
<1> QED BY <1>1, ReadSteps, PublishInv, StutterInv

LEMMA ReadInvariance == ReadSpec => []Inv
  BY InitInv, ReadInv, PTL DEF ReadSpec, ReadInit

\* What has been loaded could be read.
LoadedReads ==
    \A i \in Ids : versions[i].loaded
                   => 1..Len(Zips[versions[i].sha]) \subseteq Readable[versions[i].sha]

LEMMA StepLoadsReadable ==
    ASSUME Inv, LoadedReads, NEW l \in Loaders, NEW id, LoadStep(l, id)
    PROVE  LoadedReads'
<1> SUFFICES ASSUME NEW i \in Ids', versions'[i].loaded
             PROVE  1..Len(Zips[versions'[i].sha]) \subseteq Readable[versions'[i].sha]
  BY DEF LoadedReads
<1>1. CASE i \in Ids /\ versions'[i] = versions[i]
  BY <1>1 DEF LoadedReads
<1>2. ASSUME NEW j, versions' = Without(versions, j)
      PROVE  i \in Ids /\ versions'[i] = versions[i]
  BY <1>2 DEF Without, Ids
<1>3. CASE InsertsRow(l, id)
  <2>1. i \in Ids \/ i = id
    BY <1>3 DEF InsertsRow, Ids
  <2>2. i # id
    BY <1>3 DEF InsertsRow, Ids
  <2>3. versions'[i] = versions[i]
    BY <1>3, <2>1, <2>2 DEF InsertsRow, Ids
  <2> QED BY <1>1, <2>1, <2>2, <2>3
<1>4. CASE load[l].pc = "activated" /\ versions' = Committed(l)
  <2>1. i \in Ids
    BY <1>4 DEF Committed, Ids
  <2>2. versions[i] \in VersionType
    BY <2>1 DEF Inv, TableOK, Ids
  <2>3. CASE i = load[l].id
    <3>1. /\ load[l].zip = Len(Zips[load[l].sha])
          /\ 1..load[l].zip \subseteq Readable[load[l].sha]
      BY <1>4 DEF Inv, LoadsOK, LoadOK, Loading, InTransaction
    <3>2. versions[i].sha = load[l].sha
      BY <1>4, <2>1, <2>3, ReadyToCommit DEF Inv, LoadsOK
    <3>3. versions'[i].sha = versions[i].sha
      BY <1>4, <2>1, <2>2, <2>3 DEF Committed, VersionType
    <3> QED BY <3>1, <3>2, <3>3
  <2>4. CASE i # load[l].id
    <3>1. versions'[i].sha = versions[i].sha /\ versions'[i].loaded = versions[i].loaded
      BY <1>4, <2>1, <2>2, <2>4 DEF Committed, VersionType
    <3> QED BY <2>1, <3>1 DEF LoadedReads
  <2> QED BY <2>3, <2>4
<1>5. CASE versions' = versions
  BY <1>1, <1>5 DEF Ids
<1> QED BY <1>1, <1>2, <1>3, <1>4, <1>5, TableChanges

LEMMA LoadsReadable == ReadSpec => [](Inv /\ LoadedReads)
<1>1. ReadInit => Inv /\ LoadedReads
  BY InitInv DEF ReadInit, Init, LoadedReads, Ids
<1>2. Inv /\ LoadedReads /\ [ReadNext]_readVars => (Inv /\ LoadedReads)'
  <2> SUFFICES ASSUME Inv, LoadedReads, [ReadNext]_readVars PROVE LoadedReads'
    BY ReadInv
  <2>1. CASE versions' = versions
    BY <2>1 DEF LoadedReads, Ids
  <2>2. ASSUME NEW l \in Loaders, LoadStep(l, Fresh(Known \cup Held)) PROVE LoadedReads'
    BY <2>2, StepLoadsReadable
  <2> QED BY <2>1, <2>2, ReadSteps DEF vars, Publish
<1> QED BY <1>1, <1>2, PTL DEF ReadSpec

\* A line of a file that could be read, in the row made of it.
LEMMA LineParsed ==
    ASSUME NEW sha \in Shas, NEW k \in Readable[sha], NEW t \in Tables,
           Has(Zips[sha][k], t),
           NEW i \in DOMAIN Member(Zips[sha][k], t).rows
    PROVE  LET file == Member(Zips[sha][k], t)
               line == file.rows[i]
               row  == Parsed(t, file, line)
           IN  /\ row.table = t
               /\ \A col \in DOMAIN row.cells : row.cells[col] # Malformed
               /\ \A col \in DOMAIN line \cap DOMAIN row.cells :
                     line[col] \in {"", row.cells[col]}
<1> DEFINE file == Member(Zips[sha][k], t)
           line == file.rows[i]
           row  == Parsed(t, file, line)
           cell(col) == Cell(file, line, col)
           cols == Texts[t] \cup Exact[t] \cup DOMAIN Defaults[t]
<1>1. row = [table |-> t,
             cells |-> [col \in cols |->
                          IF cell(col) = "" /\ col \in DOMAIN Defaults[t]
                          THEN Defaults[t][col] ELSE cell(col)]]
  BY DEF Parsed
<1>2. ~Refuses(t, file, line)
  <2>1. Reads(Zips[sha][k])
    BY DEF Readable
  <2> QED BY <2>1 DEF Reads
<1>3. DOMAIN line \subseteq file.cols /\ \A col \in Texts[t] : cell(col) # Malformed
  BY LinesAssumption
<1>4. \A col \in DOMAIN Defaults[t] : Defaults[t][col] # Malformed
  <2>1. \A col \in DOMAIN Defaults[t] : Defaults[t][col] \in {"0", "-1"}
    BY DEF Tables, Defaults
  <2> QED BY <2>1, LinesAssumption
<1>5. \A col \in cols : cell(col) # Malformed
  BY <1>2, <1>3 DEF Refuses
<1>6. \A col \in DOMAIN line : cell(col) = line[col]
  BY <1>3 DEF Cell
<1> HIDE DEF row
<1>7. row.table = t /\ DOMAIN row.cells = cols
      /\ \A col \in cols : row.cells[col] = IF cell(col) = "" /\ col \in DOMAIN Defaults[t]
                                            THEN Defaults[t][col] ELSE cell(col)
  BY <1>1
<1>8. \A col \in cols : row.cells[col] # Malformed
  BY <1>4, <1>5, <1>7
<1>9. \A col \in DOMAIN line \cap cols : line[col] \in {"", row.cells[col]}
  BY <1>6, <1>7
<1> QED BY <1>7, <1>8, <1>9 DEF row

\* The rows of a version are those of the lines of its zips.
LEMMA WholeOfLines ==
    ASSUME NEW sha \in Shas, 1..Len(Zips[sha]) \subseteq Readable[sha]
    PROVE  \A row : row \in Whole(sha)
             <=> \E k \in 1..Len(Zips[sha]), t \in Tables :
                   /\ Has(Zips[sha][k], t)
                   /\ \E i \in DOMAIN Member(Zips[sha][k], t).rows :
                        row = Parsed(t, Member(Zips[sha][k], t), Member(Zips[sha][k], t).rows[i])
<1>1. ASSUME NEW k \in 1..Len(Zips[sha]), NEW t \in Tables, NEW row
      PROVE  row \in Range(ZipRows[sha][k][t])
             <=> /\ Has(Zips[sha][k], t)
                 /\ \E i \in DOMAIN Member(Zips[sha][k], t).rows :
                      row = Parsed(t, Member(Zips[sha][k], t), Member(Zips[sha][k], t).rows[i])
  <2>1. ZipRows[sha][k][t] = Rows(Zips[sha][k], t)
    BY DEF ZipRows
  <2>2. CASE Has(Zips[sha][k], t)
    BY <2>1, <2>2 DEF Rows, Range
  <2>3. CASE ~Has(Zips[sha][k], t)
    BY <2>1, <2>3 DEF Rows, Range
  <2> QED BY <2>2, <2>3
<1>2. Whole(sha) = UNION {Range(ZipRows[sha][j][t]) : j \in 1..Len(Zips[sha]), t \in Tables}
  BY DEF Whole, Contents
<1>3. \A row : row \in Whole(sha)
          <=> \E k \in 1..Len(Zips[sha]), t \in Tables : row \in Range(ZipRows[sha][k][t])
  BY <1>2
<1> DEFINE Reaches(k, t, row) == row \in Range(ZipRows[sha][k][t])
           Line(k, t, row) ==
             /\ Has(Zips[sha][k], t)
             /\ \E i \in DOMAIN Member(Zips[sha][k], t).rows :
                  row = Parsed(t, Member(Zips[sha][k], t), Member(Zips[sha][k], t).rows[i])
<1>4. \A k \in 1..Len(Zips[sha]), t \in Tables : \A row : Reaches(k, t, row) <=> Line(k, t, row)
  BY <1>1
<1>5. \A row : row \in Whole(sha)
          <=> \E k \in 1..Len(Zips[sha]), t \in Tables : Reaches(k, t, row)
  BY <1>3
<1> HIDE DEF Reaches, Line
<1>6. \A row : row \in Whole(sha)
          <=> \E k \in 1..Len(Zips[sha]), t \in Tables : Line(k, t, row)
  BY <1>4, <1>5
<1> QED BY <1>6 DEF Line

\* EveryLineIsLoaded in every reachable state, whatever loads overlap, fail or
\* die: what is active has every line of every file, and no cell of it could
\* not be read (ParseZip's parsers, addRow, Commit).
THEOREM EveryLineIsServed == ReadSpec => []EveryLineIsLoaded
<1>1. Inv /\ LoadedReads => EveryLineIsLoaded
  <2> SUFFICES ASSUME Inv, LoadedReads, NEW v \in Active(versions)
               PROVE  /\ \A row \in versions[v].rows : Malformed \notin Range(row.cells)
                      /\ \A k \in DOMAIN Zips[versions[v].sha], t \in Tables :
                           Has(Zips[versions[v].sha][k], t) =>
                             \A line \in Range(Member(Zips[versions[v].sha][k], t).rows) :
                               \E row \in versions[v].rows :
                                 /\ row.table = t
                                 /\ \A col \in DOMAIN line \cap DOMAIN row.cells :
                                       line[col] \in {"", row.cells[col]}
    BY DEF EveryLineIsLoaded
  <2> DEFINE sha == versions[v].sha
  <2>1. /\ sha \in Shas /\ versions[v].rows = Whole(sha)
        /\ 1..Len(Zips[sha]) \subseteq Readable[sha]
    <3>1. v \in Ids /\ versions[v].loaded /\ versions[v] \in VersionType
      BY DEF Active, Inv, TableOK, Ids
    <3> QED BY <3>1 DEF LoadedReads, Inv, TableOK, VersionType, Ids
  <2>2. DOMAIN Zips[sha] = 1..Len(Zips[sha])
    BY <2>1, LinesAssumption
  <2> HIDE DEF sha
  <2>3. ASSUME NEW row \in Whole(sha) PROVE Malformed \notin Range(row.cells)
    <3>1. PICK k \in 1..Len(Zips[sha]), t \in Tables :
            /\ Has(Zips[sha][k], t)
            /\ \E i \in DOMAIN Member(Zips[sha][k], t).rows :
                 row = Parsed(t, Member(Zips[sha][k], t), Member(Zips[sha][k], t).rows[i])
      BY <2>1, <2>3, WholeOfLines
    <3>2. k \in Readable[sha]
      BY <2>1
    <3> DEFINE file == Member(Zips[sha][k], t)
    <3>3. PICK i \in DOMAIN file.rows : row = Parsed(t, file, file.rows[i])
      BY <3>1
    <3>4. LET parsed == Parsed(t, file, file.rows[i])
          IN  \A col \in DOMAIN parsed.cells : parsed.cells[col] # Malformed
      BY <2>1, <3>1, <3>2, LineParsed
    <3> HIDE DEF file
    <3>5. \A col \in DOMAIN row.cells : row.cells[col] # Malformed
      BY <3>3, <3>4
    <3> QED BY <3>5 DEF Range
  <2>4. ASSUME NEW k \in DOMAIN Zips[sha], NEW t \in Tables, Has(Zips[sha][k], t),
               NEW line \in Range(Member(Zips[sha][k], t).rows)
        PROVE  \E row \in Whole(sha) :
                 /\ row.table = t
                 /\ \A col \in DOMAIN line \cap DOMAIN row.cells :
                       line[col] \in {"", row.cells[col]}
    <3>1. PICK i \in DOMAIN Member(Zips[sha][k], t).rows :
            line = Member(Zips[sha][k], t).rows[i]
      BY <2>4 DEF Range
    <3>2. k \in 1..Len(Zips[sha]) /\ k \in Readable[sha]
      BY <2>1, <2>2
    <3> DEFINE row == Parsed(t, Member(Zips[sha][k], t), line)
    <3>3. row \in Whole(sha)
      <4> HIDE DEF row
      <4>1. row = Parsed(t, Member(Zips[sha][k], t), Member(Zips[sha][k], t).rows[i])
        BY <3>1 DEF row
      <4> QED BY <2>1, <2>4, <3>1, <3>2, <4>1, WholeOfLines
    <3>4. /\ row.table = t
          /\ \A col \in DOMAIN line \cap DOMAIN row.cells : line[col] \in {"", row.cells[col]}
      BY <2>1, <2>4, <3>1, <3>2, LineParsed
    <3> HIDE DEF row
    <3> QED BY <3>3, <3>4
  <2>5. \A row \in versions[v].rows : Malformed \notin Range(row.cells)
    BY <2>1, <2>3
  <2> DEFINE Served(t, line, rows) ==
               \E row \in rows :
                 /\ row.table = t
                 /\ \A col \in DOMAIN line \cap DOMAIN row.cells :
                       line[col] \in {"", row.cells[col]}
             Lines(k, t) == Range(Member(Zips[sha][k], t).rows)
  <2>6. \A k \in DOMAIN Zips[sha], t \in Tables :
          Has(Zips[sha][k], t) => \A line \in Lines(k, t) : Served(t, line, versions[v].rows)
    <3>1. \A k \in DOMAIN Zips[sha], t \in Tables :
            Has(Zips[sha][k], t) => \A line \in Lines(k, t) : Served(t, line, Whole(sha))
      BY <2>4
    <3> HIDE DEF Served, Lines
    <3> QED BY <2>1, <3>1
  <2> QED BY <2>5, <2>6 DEF sha
<1> QED BY <1>1, LoadsReadable, PTL

-----------------------------------------------------------------------------
(* One load at a time.                                                     *)

\* The serving process has one loader.  The theorems that assume this do not
\* hold for what a load of another process may do to a version under a request,
\* nor for a commit whose answer is lost.
OneLoadAtATime == (\A l, m \in Loaders : l = m) /\ ~LosesAnswers

\* What a load is about to delete has not been loaded.
OwesNothingLoaded ==
    \A l \in Loaders :
        /\ load[l].pc = "deleting" /\ load[l].found \in Ids => ~versions[load[l].found].loaded
        /\ load[l].pc = "aborting" /\ load[l].id \in Ids => ~versions[load[l].id].loaded

LEMMA OneLoadOwesNothing ==
    ASSUME OneLoadAtATime, Inv, OwesNothingLoaded,
           NEW l \in Loaders, NEW id, LoadStep(l, id)
    PROVE  OwesNothingLoaded'
<1>1. Loaders = {l} /\ ~CommitUnacknowledged(l)
  BY DEF OneLoadAtATime, CommitUnacknowledged
<1>2. /\ load[l] \in LoadType /\ LoadOK(versions, load[l]) /\ load \in [Loaders -> LoadType]
  BY LoadKnown DEF Inv
<1>3. Idle.pc = "idle"
  BY IdleIsEmpty
<1>4. SUFFICES /\ load'[l].pc = "deleting" /\ load'[l].found \in Ids'
                  => ~versions'[load'[l].found].loaded
               /\ load'[l].pc = "aborting" /\ load'[l].id \in Ids'
                  => ~versions'[load'[l].id].loaded
  BY <1>1 DEF OwesNothingLoaded
<1>5. CASE LookUp(l)
  <2>1. PICK found \in IF OfSha(published) = {} THEN {0} ELSE OfSha(published) :
          load' = [load EXCEPT ![l] =
                     [Idle EXCEPT !.pc = IF found = 0 THEN "inserting" ELSE "deleting",
                                  !.sha = published, !.found = found]]
    BY <1>5 DEF LookUp
  <2>2. /\ load'[l] = [Idle EXCEPT !.pc = IF found = 0 THEN "inserting" ELSE "deleting",
                                   !.sha = published, !.found = found]
        /\ versions' = versions
    BY <1>2, <1>5, <2>1 DEF LookUp
  <2>3. load'[l].pc \in {"inserting", "deleting"} /\ load'[l].found = found
    BY <2>2, IdleIsEmpty DEF LoadType
  <2>4. found # 0 => ~versions[found].loaded
    BY <1>5, <2>1 DEF LookUp
  <2>5. 0 \notin Ids
    BY LoadsAssumption DEF Inv, TableOK, Ids
  <2> QED BY <2>2, <2>3, <2>4, <2>5 DEF Ids
<1>6. CASE ParseRefused(l) \/ FlushRefused(l) \/ ActivateRefused(l) \/ Fails(l)
  <2>1. Aborts(l) /\ versions' = versions /\ load[l].pc \in Loading
    BY <1>6 DEF ParseRefused, FlushRefused, ActivateRefused, Fails, MoreZips, AllRead,
       Loading, InTransaction
  <2>2. load'[l] = [Idle EXCEPT !.pc = "aborting", !.id = load[l].id]
    BY <1>2, <2>1 DEF Aborts
  <2>3. load'[l].pc = "aborting" /\ load'[l].id = load[l].id
    BY <1>2, <2>2, NothingOwed DEF LoadType
  <2>4. load[l].id \in Ids => ~versions[load[l].id].loaded
    BY <1>2, <2>1 DEF LoadOK, Ids
  <2> QED BY <2>1, <2>3, <2>4 DEF Ids
<1>7. CASE InsertRefused(l) \/ Dies(l) \/ Commit(l) \/ Abort(l)
  <2>1. load'[l] = Idle
    BY <1>2, <1>7 DEF InsertRefused, Dies, Commit, Abort
  <2> QED BY <1>3, <2>1
<1>8. CASE \/ DeleteLeftover(l) \/ Insert(l, id) \/ ParseZip(l) \/ Flush(l) \/ Stamp(l)
           \/ SeeActive(l) \/ Deactivate(l) \/ Activate(l)
  <2>1. load'[l].pc \notin {"deleting", "aborting"}
    <3>1. CASE DeleteLeftover(l)
      BY <1>2, <3>1 DEF DeleteLeftover, LoadType
    <3>2. CASE Insert(l, id)
      BY <1>2, <3>2 DEF Insert, InsertsRow, LoadType
    <3>3. CASE ParseZip(l)
      BY <1>2, <3>3 DEF ParseZip, LoadType
    <3>4. CASE Flush(l)
      BY <1>2, <3>4 DEF Flush, LoadType
    <3>5. CASE Stamp(l) \/ SeeActive(l) \/ Deactivate(l) \/ Activate(l)
      BY <1>2, <3>5 DEF Stamp, SeeActive, Deactivate, Activate, Goes, LoadType
    <3> QED BY <1>8, <3>1, <3>2, <3>3, <3>4, <3>5
  <2> QED BY <2>1
<1> QED BY <1>1, <1>5, <1>6, <1>7, <1>8 DEF LoadStep, Proceeds

\* A loaded version stays, and stays what it is.
LoadedStays ==
    \A i \in Ids : versions[i].loaded
                   => /\ i \in Ids' /\ versions'[i].loaded
                      /\ versions'[i].sha = versions[i].sha
                      /\ versions'[i].rows = versions[i].rows

LEMMA OneLoadKeepsLoaded ==
    ASSUME OneLoadAtATime, Inv, OwesNothingLoaded,
           NEW l \in Loaders, NEW id, LoadStep(l, id)
    PROVE  LoadedStays /\ (Active(versions) # {} => Active(versions') # {})
<1>1. ~CommitUnacknowledged(l)
  BY DEF OneLoadAtATime, CommitUnacknowledged
<1>2. \A i \in Ids \cap Ids' : SameVersion(i) /\ versions[i] \in VersionType
  BY StepKeepsVersion DEF Ids, Inv, TableOK
<1>3. \A i \in Ids : versions[i].loaded => i \in Ids'
  <2>1. CASE DeleteLeftover(l) /\ versions' = Without(versions, load[l].found)
    <3>1. load[l].pc = "deleting"
      BY <2>1 DEF DeleteLeftover
    <3> QED BY <2>1, <3>1 DEF Without, OwesNothingLoaded, Ids
  <2>2. CASE Abort(l) /\ versions' = Without(versions, load[l].id)
    <3>1. load[l].pc = "aborting"
      BY <2>2 DEF Abort
    <3> QED BY <2>2, <3>1 DEF Without, OwesNothingLoaded, Ids
  <2>3. CASE InsertsRow(l, id)
    BY <2>3 DEF InsertsRow, Ids
  <2>4. CASE versions' = Committed(l)
    BY <2>4 DEF Committed, Ids
  <2>5. CASE versions' = versions
    BY <2>5 DEF Ids
  <2> QED BY <2>1, <2>2, <2>3, <2>4, <2>5, TableChanges
<1>4. LoadedStays
  <2> SUFFICES ASSUME NEW i \in Ids, versions[i].loaded
               PROVE  /\ i \in Ids' /\ versions'[i].loaded
                      /\ versions'[i].sha = versions[i].sha
                      /\ versions'[i].rows = versions[i].rows
    BY DEF LoadedStays
  <2>1. i \in Ids' /\ SameVersion(i) /\ versions[i] \in VersionType
    BY <1>2, <1>3
  <2> QED BY <2>1 DEF SameVersion, VersionType
<1>5. ASSUME NEW i \in Active(versions) PROVE Active(versions') # {}
  <2>1. i \in Ids /\ versions[i].loaded /\ versions[i].active
    BY DEF Active, Ids, Inv, TableOK
  <2>2. i \in Ids'
    BY <1>3, <2>1
  <2>3. CASE load[l].pc = "activated" /\ versions' = Committed(l)
    <3>1. load[l].id \in Ids /\ versions[load[l].id] \in VersionType
      BY <2>3, ReadyToCommit DEF Inv, LoadsOK, TableOK, Ids
    <3>2. load[l].id \in DOMAIN versions' /\ versions'[load[l].id].active
      BY <2>3, <3>1 DEF Committed, VersionType
    <3> QED BY <3>2 DEF Active
  <2>4. CASE versions'[i] = versions[i]
    BY <2>1, <2>2, <2>4 DEF Active, Ids
  <2>5. ASSUME NEW j, versions' = Without(versions, j) PROVE versions'[i] = versions[i]
    BY <2>2, <2>5 DEF Without, Ids
  <2>6. CASE InsertsRow(l, id)
    <3>1. i # id
      BY <2>1, <2>6 DEF InsertsRow, Known
    <3> QED BY <2>1, <2>4, <2>6, <3>1 DEF InsertsRow
  <2> QED BY <2>3, <2>4, <2>5, <2>6, TableChanges
<1> QED BY <1>4, <1>5

\* The steps of ReadSpec, one load at a time.
LEMMA OneLoadSteps ==
    ASSUME OneLoadAtATime, Inv, OwesNothingLoaded, [ReadNext]_readVars
    PROVE  /\ OwesNothingLoaded' /\ LoadedStays
           /\ Active(versions) # {} => Active(versions') # {}
<1>1. CASE versions' = versions /\ load' = load
  <2>1. LoadedStays
    BY <1>1 DEF LoadedStays, Ids
  <2> QED BY <1>1, <2>1 DEF OwesNothingLoaded, Ids
<1>2. ASSUME NEW l \in Loaders, LoadStep(l, Fresh(Known \cup Held))
      PROVE  /\ OwesNothingLoaded' /\ LoadedStays
             /\ Active(versions) # {} => Active(versions') # {}
  BY <1>2, OneLoadOwesNothing, OneLoadKeepsLoaded
<1> QED BY <1>1, <1>2, ReadSteps DEF vars, Publish

LEMMA OneLoadInvariance ==
    OneLoadAtATime /\ ReadSpec => [](OneLoadAtATime /\ Inv /\ OwesNothingLoaded)
<1>1. ReadInit => Inv /\ OwesNothingLoaded
  <2>1. ASSUME ReadInit, NEW l \in Loaders PROVE load[l].pc = "idle"
    BY <2>1, IdleIsEmpty DEF ReadInit, Init
  <2> QED BY <2>1, InitInv DEF ReadInit, OwesNothingLoaded
<1>2. OneLoadAtATime /\ Inv /\ OwesNothingLoaded /\ [ReadNext]_readVars
      => (OneLoadAtATime /\ Inv /\ OwesNothingLoaded)'
  <2>1. OneLoadAtATime => OneLoadAtATime'
    BY DEF OneLoadAtATime
  <2> QED BY <2>1, ReadInv, OneLoadSteps
<1> QED BY <1>1, <1>2, PTL DEF ReadSpec

\* ScheduleStays, for every step: one load at a time takes no schedule from the
\* riders without giving them another (Commit "atomically moves the active
\* flag", Abort and NewScheduleLoad delete what was not loaded).
THEOREM ScheduleIsKept == OneLoadAtATime /\ ReadSpec => ScheduleStays
<1>1. OneLoadAtATime /\ Inv /\ OwesNothingLoaded /\ [ReadNext]_readVars
      => [Active(versions) # {} => Active(versions') # {}]_vars
  BY OneLoadSteps
<1> QED BY <1>1, OneLoadInvariance, PTL DEF ReadSpec, ScheduleStays

-----------------------------------------------------------------------------
(* What a request is answered.                                             *)

Versioned ==
    {"SearchStops", "StopsInBBox", "Stop", "Route", "Routes", "RoutesServingStop",
     "StopHourly", "StopDepartures"}

\* db has these rows, and no others, of version v.
Holds(db, v, rows) ==
    \A x : x \in db /\ x.v = v
           <=> \E row \in rows : x = [v |-> v, table |-> row.table, cells |-> row.cells]

LEMMA TaggedHolds ==
    ASSUME NEW rows, NEW v
    PROVE  Holds(Tagged(v, rows), v, rows)
BY DEF Holds, Tagged

LEMMA NoneHolds == Holds({}, 0, {})
BY DEF Holds

LEMMA GtfsHolds ==
    ASSUME NEW i \in Ids
    PROVE  Holds(Gtfs, i, versions[i].rows)
<1>1. ASSUME NEW x PROVE x \in Gtfs /\ x.v = i <=> x \in Tagged(i, versions[i].rows)
  BY DEF Gtfs, Tagged
<1> QED BY <1>1 DEF Holds, Tagged

LEMMA GtfsHoldsNone ==
    ASSUME 0 \notin Ids
    PROVE  Holds(Gtfs, 0, {})
BY DEF Holds, Gtfs, Tagged

\* What a query answers about a version depends on its rows alone, whatever
\* other versions are in the tables.
CellsIn(rows, t) == {row.cells : row \in {x \in rows : x.table = t}}

LEMMA CellsOfRows ==
    ASSUME NEW db, NEW v, NEW rows, Holds(db, v, rows), NEW t
    PROVE  CellsOf(db, v, t) = CellsIn(rows, t)
<1> DEFINE tagged(row) == [v |-> v, table |-> row.table, cells |-> row.cells]
<1>1. \A x : x \in db /\ x.v = v <=> \E row \in rows : x = tagged(row)
  BY DEF Holds
<1>2. \A row : tagged(row).v = v /\ tagged(row).table = row.table /\ tagged(row).cells = row.cells
  OBVIOUS
<1> HIDE DEF tagged
<1>3. ASSUME NEW c \in CellsOf(db, v, t) PROVE c \in CellsIn(rows, t)
  <2>1. PICK x \in db : x.v = v /\ x.table = t /\ c = x.cells
    BY <1>3 DEF CellsOf
  <2>2. PICK row \in rows : x = tagged(row)
    BY <1>1, <2>1
  <2> QED BY <1>2, <2>1, <2>2 DEF CellsIn
<1>4. ASSUME NEW c \in CellsIn(rows, t) PROVE c \in CellsOf(db, v, t)
  <2>1. PICK row \in rows : row.table = t /\ c = row.cells
    BY <1>4 DEF CellsIn
  <2>2. tagged(row) \in db /\ tagged(row).v = v
    BY <1>1, <2>1
  <2> QED BY <1>2, <2>1, <2>2 DEF CellsOf
<1> QED BY <1>3, <1>4

LEMMA FamilyOfRows ==
    ASSUME NEW db, NEW v, NEW db2, NEW v2, NEW rows,
           Holds(db, v, rows), Holds(db2, v2, rows), NEW id
    PROVE  Family(db, v, id) = Family(db2, v2, id)
BY CellsOfRows DEF Family

LEMMA ServingOfRows ==
    ASSUME NEW db, NEW v, NEW db2, NEW v2, NEW rows,
           Holds(db, v, rows), Holds(db2, v2, rows), NEW id
    PROVE  RoutesServingStop(db, v, id) \subseteq RoutesServingStop(db2, v2, id)
<1> SUFFICES ASSUME NEW x \in db, x.v = v, x.table = "routes",
                    NEW t \in db, NEW s \in db,
                    t.table = "trips", t.v = x.v, t.cells.route_id = x.cells.route_id,
                    s.table = "stop_times", s.v = t.v, s.cells.trip_id = t.cells.trip_id,
                    s.cells.stop_id \in Family(db, v, id)
             PROVE  x.cells.route_id \in RoutesServingStop(db2, v2, id)
  BY DEF RoutesServingStop
<1> DEFINE other(row) == [v |-> v2, table |-> row.table, cells |-> row.cells]
<1>1. ASSUME NEW y \in db, y.v = v PROVE other(y) \in db2
  <2>1. PICK row \in rows : y = [v |-> v, table |-> row.table, cells |-> row.cells]
    BY <1>1 DEF Holds
  <2>2. other(y) = [v |-> v2, table |-> row.table, cells |-> row.cells]
    BY <2>1
  <2> HIDE DEF other
  <2> QED BY <2>2 DEF Holds
<1>2. other(x) \in db2 /\ other(t) \in db2 /\ other(s) \in db2
  BY <1>1
<1>3. \A y : other(y).v = v2 /\ other(y).table = y.table /\ other(y).cells = y.cells
  OBVIOUS
<1>4. Family(db, v, id) = Family(db2, v2, id)
  BY FamilyOfRows
<1> HIDE DEF other
<1> QED BY <1>2, <1>3, <1>4 DEF RoutesServingStop

LEMMA AnswerOfRows ==
    ASSUME NEW db, NEW v, NEW db2, NEW v2, NEW rows,
           Holds(db, v, rows), Holds(db2, v2, rows),
           NEW query \in Versioned, NEW of
    PROVE  Answer(query, of, db, v) = Answer(query, of, db2, v2)
<1>1. \A t : CellsOf(db, v, t) = CellsOf(db2, v2, t)
  BY CellsOfRows
<1>2. \A id : Family(db, v, id) = Family(db2, v2, id)
  BY FamilyOfRows
<1>3. RoutesServingStop(db, v, of) = RoutesServingStop(db2, v2, of)
  BY ServingOfRows
<1>4. SearchStops(db, v, of) = SearchStops(db2, v2, of)
  BY <1>1 DEF SearchStops
<1>5. StopsInBBox(db, v, of) = StopsInBBox(db2, v2, of)
  BY <1>1 DEF StopsInBBox
<1>6. Stop(db, v, of) = Stop(db2, v2, of) /\ Route(db, v, of) = Route(db2, v2, of)
  BY <1>1 DEF Stop, Route
<1>7. Routes(db, v) = Routes(db2, v2)
  BY <1>1 DEF Routes
<1>8. StopRollup(db, v, query, of) = StopRollup(db2, v2, query, of)
  BY <1>2 DEF StopRollup
<1> QED BY <1>3, <1>4, <1>5, <1>6, <1>7, <1>8 DEF Answer, Versioned, Expanding

\* A query about a loaded version answers as if its schedule were the only one,
\* and one about no version as if there were none.
LEMMA LoadedAnswer ==
    ASSUME Inv, NEW i \in Ids, versions[i].loaded, NEW query \in Versioned, NEW of
    PROVE  Answer(query, of, Gtfs, i) = AnswerFor(query, of, versions[i].sha)
<1>1. versions[i].rows = Whole(versions[i].sha) /\ versions[i].sha # ""
  <2>1. versions[i].sha \in Shas /\ versions[i].rows = Whole(versions[i].sha)
    BY DEF Inv, TableOK, VersionType, Ids
  <2> QED BY <2>1, ReadsAssumption
<1>2. Holds(Gtfs, i, versions[i].rows) /\ Holds(Tagged(1, versions[i].rows), 1, versions[i].rows)
  BY GtfsHolds, TaggedHolds
<1>3. Answer(query, of, Gtfs, i) = Answer(query, of, Tagged(1, versions[i].rows), 1)
  BY <1>2, AnswerOfRows
<1> QED BY <1>1, <1>3 DEF AnswerFor, Only

LEMMA NoAnswer ==
    ASSUME Inv, NEW query \in Versioned, NEW of
    PROVE  Answer(query, of, Gtfs, 0) = AnswerFor(query, of, "")
<1>1. 0 \notin Ids
  BY LoadsAssumption DEF Inv, TableOK, Ids
<1>2. Answer(query, of, Gtfs, 0) = Answer(query, of, {}, 0)
  BY <1>1, GtfsHoldsNone, NoneHolds, AnswerOfRows
<1> QED BY <1>2 DEF AnswerFor, Only

LEMMA NothingToAnswer ==
    ASSUME NEW query \in Versioned \ Expanding, NEW of
    PROVE  AnswerFor(query, of, "") = {}
<1>1. \A t : CellsOf({}, 0, t) = {}
  BY DEF CellsOf
<1>2. AnswerFor(query, of, "") = Answer(query, of, {}, 0)
  BY DEF AnswerFor, Only
<1>3. CASE query \in {"SearchStops", "StopsInBBox", "Stop", "Route", "Routes"}
  BY <1>1, <1>2, <1>3 DEF Answer, SearchStops, StopsInBBox, Shown, Stop, Route, Routes
<1>4. CASE query = "RoutesServingStop"
  BY <1>2, <1>4 DEF Answer, RoutesServingStop
<1> QED BY <1>3, <1>4 DEF Versioned, Expanding

\* The queries of a handler: a single row is asked for first or not at all, and
\* is followed by another query.
LEMMA HandlersShape ==
    ASSUME NEW kind \in DOMAIN Handlers
    PROVE  /\ Len(Handlers[kind]) \in 1..4
           /\ \A i \in 1..Len(Handlers[kind]) :
                /\ Handlers[kind][i] \in Versioned \cup Unversioned
                /\ i > 1 => Handlers[kind][i] \notin Single
           /\ Handlers[kind][1] \in Single => Len(Handlers[kind]) > 1
<1> USE DEF Versioned, Unversioned, Single
<1> DEFINE q == Handlers[kind]
<1>1. CASE q \in {<<"SearchStops">>, <<"StopsInBBox">>, <<"Routes">>}
  BY <1>1
<1>2. CASE \E second \in {"RoutesServingStop", "SaveSubscription"} : q = <<"Stop", second>>
  <2>1. PICK second \in {"RoutesServingStop", "SaveSubscription"} : q = <<"Stop", second>>
    BY <1>2
  <2> HIDE DEF q
  <2>2. Len(q) = 2 /\ q[1] = "Stop" /\ q[2] = second
    BY <2>1
  <2> QED BY <2>2 DEF q
<1>3. CASE q = <<"Stop", "StopHourly", "StopDepartures", "RoutesServingStop">>
  BY <1>3
<1>4. CASE q = <<"Route", "RouteHourly">>
  <2> HIDE DEF q
  <2>1. Len(q) = 2 /\ q[1] = "Route" /\ q[2] = "RouteHourly"
    BY <1>4
  <2> QED BY <2>1 DEF q
<1> QED BY <1>1, <1>2, <1>3, <1>4 DEF Handlers

-----------------------------------------------------------------------------
(* Requests while the schedule is replaced.                                *)

AskedOf(x) == Handlers[x.kind][x.at]
FirstOf(x) == Handlers[x.kind][1]

IsReader(x) ==
    x = [pc |-> x.pc, kind |-> x.kind, of |-> x.of, at |-> x.at, id |-> x.id,
         answer |-> x.answer, status |-> x.status, seen |-> x.seen]

\* One of the schedules seen answers so.
Said(x, query, answer) == \E sha \in x.seen : answer = AnswerFor(query, x.of, sha)

\* One of the schedules seen has the row asked for first.
HadFirst(x) == \E sha \in x.seen : AnswerFor(FirstOf(x), x.of, sha) # {}

\* The version being read was active when it was found, and is still there.
Reading(table, x) ==
    /\ AskedOf(x) \notin Unversioned
    /\ x.id = 0 => AskedOf(x) \in Expanding /\ "" \in x.seen
    /\ x.id # 0 => /\ x.id \in DOMAIN table /\ table[x.id].loaded
                   /\ table[x.id].sha \in x.seen

ReaderOK(table, x) ==
    /\ IsReader(x)
    /\ x.pc \in {"waiting", "asking", "reading", "answered"}
    /\ x.pc = "waiting" => x.answer = << >> /\ x.status = 0
    /\ x.pc # "waiting" => x.kind \in DOMAIN Handlers /\ x.at \in 1..Len(Handlers[x.kind])
    /\ x.pc \in {"asking", "reading"} => x.status = 0 /\ Sha(table) \in x.seen
    /\ x.pc = "reading" => Reading(table, x)
    /\ x.answer # << >> /\ x.answer[1] \notin Unversioned
       => Said(x, x.answer[1], x.answer[2])
    /\ x.pc # "waiting" /\ FirstOf(x) \in Single
       => /\ x.at > 1 \/ x.status = 200 => HadFirst(x)
          /\ x.status = 404 => Said(x, FirstOf(x), {})

ReadersOK ==
    /\ reader = [r \in Readers |-> reader[r]]
    /\ \A r \in Readers : ReaderOK(versions, reader[r])

LEMMA ReaderMoves ==
    ASSUME ReadersOK, NEW r \in Readers, NEW y,
           reader' = [reader EXCEPT ![r] = y], versions' = versions, ReaderOK(versions, y)
    PROVE  ReadersOK'
<1>1. reader' = [q \in Readers |-> IF q = r THEN y ELSE reader[q]]
  BY DEF ReadersOK
<1>2. \A q \in Readers : ReaderOK(versions, reader'[q])
  BY <1>1 DEF ReadersOK
<1> QED BY <1>1, <1>2 DEF ReadersOK

LEMMA ReaderKnown ==
    ASSUME ReadersOK, NEW r \in Readers
    PROVE  /\ IsReader(reader[r]) /\ ReaderOK(versions, reader[r])
           /\ Query(r) = AskedOf(reader[r])
BY DEF ReadersOK, ReaderOK, Query, AskedOf

LEMMA HandlerKnown ==
    ASSUME NEW table, NEW x, ReaderOK(table, x), x.pc # "waiting"
    PROVE  /\ x.at \in 1..Len(Handlers[x.kind]) /\ Len(Handlers[x.kind]) \in 1..4
           /\ AskedOf(x) \in Versioned \cup Unversioned
           /\ AskedOf(x) \in Single => x.at = 1 /\ AskedOf(x) = FirstOf(x)
           /\ AskedOf(x) \notin Single /\ FirstOf(x) \in Single => x.at > 1
<1>1. x.kind \in DOMAIN Handlers /\ x.at \in 1..Len(Handlers[x.kind])
  BY DEF ReaderOK
<1>2. /\ Len(Handlers[x.kind]) \in 1..4
      /\ AskedOf(x) \in Versioned \cup Unversioned
      /\ x.at > 1 => AskedOf(x) \notin Single
  BY <1>1, HandlersShape DEF AskedOf
<1>3. x.at = 1 \/ x.at > 1
  BY <1>1, <1>2
<1> QED BY <1>1, <1>2, <1>3 DEF AskedOf, FirstOf

\* The requests when one of them has these fields.
With(r, pc, at, id, answer, status) ==
    [reader EXCEPT ![r] = [pc |-> pc, kind |-> reader[r].kind, of |-> reader[r].of, at |-> at,
                           id |-> id, answer |-> answer, status |-> status,
                           seen |-> reader[r].seen]]

\* One field at a time.
PutPc(f, r, pc) == [f EXCEPT ![r].pc = pc]
PutAt(f, r, at) == [f EXCEPT ![r].at = at]
PutId(f, r, id) == [f EXCEPT ![r].id = id]
PutAnswer(f, r, answer) == [f EXCEPT ![r].answer = answer]
PutStatus(f, r, status) == [f EXCEPT ![r].status = status]

LEMMA PutFields ==
    ASSUME reader = [q \in Readers |-> reader[q]], NEW r \in Readers,
           NEW pc, NEW at, NEW id, NEW answer, NEW status, NEW v
    PROVE  /\ PutPc(With(r, pc, at, id, answer, status), r, v)
                = With(r, v, at, id, answer, status)
           /\ PutAt(With(r, pc, at, id, answer, status), r, v)
                = With(r, pc, v, id, answer, status)
           /\ PutId(With(r, pc, at, id, answer, status), r, v)
                = With(r, pc, at, v, answer, status)
           /\ PutAnswer(With(r, pc, at, id, answer, status), r, v)
                = With(r, pc, at, id, v, status)
           /\ PutStatus(With(r, pc, at, id, answer, status), r, v)
                = With(r, pc, at, id, answer, v)
<1> DEFINE x == reader[r]
           y == [pc |-> pc, kind |-> x.kind, of |-> x.of, at |-> at, id |-> id,
                 answer |-> answer, status |-> status, seen |-> x.seen]
           f == With(r, pc, at, id, answer, status)
<1>1. f = [q \in Readers |-> f[q]] /\ f[r] = y /\ f = [reader EXCEPT ![r] = y]
  BY DEF With
<1>2. ASSUME NEW z PROVE [f EXCEPT ![r] = z] = [reader EXCEPT ![r] = z]
  BY <1>1
<1>3. /\ [y EXCEPT !.pc = v]
           = [pc |-> v, kind |-> x.kind, of |-> x.of, at |-> at, id |-> id,
              answer |-> answer, status |-> status, seen |-> x.seen]
      /\ [y EXCEPT !.at = v]
           = [pc |-> pc, kind |-> x.kind, of |-> x.of, at |-> v, id |-> id,
              answer |-> answer, status |-> status, seen |-> x.seen]
      /\ [y EXCEPT !.id = v]
           = [pc |-> pc, kind |-> x.kind, of |-> x.of, at |-> at, id |-> v,
              answer |-> answer, status |-> status, seen |-> x.seen]
      /\ [y EXCEPT !.answer = v]
           = [pc |-> pc, kind |-> x.kind, of |-> x.of, at |-> at, id |-> id,
              answer |-> v, status |-> status, seen |-> x.seen]
      /\ [y EXCEPT !.status = v]
           = [pc |-> pc, kind |-> x.kind, of |-> x.of, at |-> at, id |-> id,
              answer |-> answer, status |-> v, seen |-> x.seen]
  OBVIOUS
<1> HIDE DEF f, y
<1>4. /\ PutPc(f, r, v) = [f EXCEPT ![r] = [y EXCEPT !.pc = v]]
      /\ PutAt(f, r, v) = [f EXCEPT ![r] = [y EXCEPT !.at = v]]
      /\ PutId(f, r, v) = [f EXCEPT ![r] = [y EXCEPT !.id = v]]
      /\ PutAnswer(f, r, v) = [f EXCEPT ![r] = [y EXCEPT !.answer = v]]
      /\ PutStatus(f, r, v) = [f EXCEPT ![r] = [y EXCEPT !.status = v]]
  BY <1>1, Zenon DEF PutPc, PutAt, PutId, PutAnswer, PutStatus
<1> QED BY <1>2, <1>3, <1>4 DEF With, f

LEMMA WithItself ==
    ASSUME reader = [q \in Readers |-> reader[q]], NEW r \in Readers, IsReader(reader[r])
    PROVE  LET x == reader[r] IN reader = With(r, x.pc, x.at, x.id, x.answer, x.status)
BY DEF With, IsReader

\* A query is answered, and the request may go on.
LEMMA AnswersChange ==
    ASSUME ReadersOK, NEW r \in Readers, NEW a, Answers(r, a)
    PROVE  LET x    == reader[r]
               last == x.at = Len(Handlers[x.kind])
           IN  reader' = With(r, IF last THEN "answered" ELSE "asking",
                              IF last THEN x.at ELSE x.at + 1, 0, <<AskedOf(x), a>>,
                              IF last THEN 200 ELSE 0)
<1> DEFINE x      == reader[r]
           last   == x.at = Len(Handlers[x.kind])
           at     == IF last THEN x.at ELSE x.at + 1
           pc     == IF last THEN "answered" ELSE "asking"
           status == IF last THEN 200 ELSE 0
           answered == PutAnswer(reader, r, <<AskedOf(x), a>>)
<1>0. IsReader(x) /\ reader = [q \in Readers |-> reader[q]] /\ Query(r) = AskedOf(x)
  BY ReaderKnown DEF ReadersOK
<1>1. answered = With(r, x.pc, x.at, x.id, <<AskedOf(x), a>>, x.status)
  BY <1>0, WithItself, PutFields
<1>2. answered[r].at = x.at
  BY <1>0, <1>1 DEF With
<1>3. reader' = PutStatus(PutPc(PutId([answered EXCEPT ![r].at = IF last THEN @ ELSE @ + 1],
                                      r, 0), r, pc), r, status)
  <2>1. reader' = [reader EXCEPT ![r].answer = <<AskedOf(x), a>>,
                                 ![r].at = IF last THEN @ ELSE @ + 1,
                                 ![r].id = 0, ![r].pc = pc, ![r].status = status]
    BY <1>0 DEF Answers
  <2> HIDE DEF last, pc, status
  <2>2. [reader EXCEPT ![r].answer = <<AskedOf(x), a>>, ![r].at = IF last THEN @ ELSE @ + 1,
                       ![r].id = 0, ![r].pc = pc, ![r].status = status]
          = PutStatus(PutPc(PutId([answered EXCEPT ![r].at = IF last THEN @ ELSE @ + 1],
                                  r, 0), r, pc), r, status)
    BY DEF PutPc, PutId, PutAnswer, PutStatus
  <2> QED BY <2>1, <2>2
<1>4. [answered EXCEPT ![r].at = IF last THEN @ ELSE @ + 1] = PutAt(answered, r, at)
  <2> HIDE DEF answered
  <2> QED BY <1>2, Zenon DEF PutAt
<1> HIDE DEF answered, at, pc, status
<1>5. PutAt(answered, r, at) = With(r, x.pc, at, x.id, <<AskedOf(x), a>>, x.status)
  BY <1>0, <1>1, PutFields
<1>6. PutStatus(PutPc(PutId(With(r, x.pc, at, x.id, <<AskedOf(x), a>>, x.status),
                            r, 0), r, pc), r, status)
        = With(r, pc, at, 0, <<AskedOf(x), a>>, status)
  BY <1>0, PutFields
<1> QED BY <1>3, <1>4, <1>5, <1>6 DEF at, pc, status

\* A request is over.
LEMMA OverChange ==
    ASSUME ReadersOK, NEW r \in Readers
    PROVE  LET x == reader[r]
           IN  /\ Refuses404(r)
                  => reader' = With(r, "answered", x.at, 0, <<AskedOf(x), {}>>, 404)
               /\ Refuses500(r) => reader' = With(r, "answered", x.at, 0, << >>, 500)
               /\ Namelessly(r) => reader' = With(r, "answered", x.at, 0, << >>, 200)
<1> DEFINE x == reader[r]
<1>1. IsReader(x) /\ reader = [q \in Readers |-> reader[q]] /\ Query(r) = AskedOf(x)
  BY ReaderKnown DEF ReadersOK
<1>2. ASSUME NEW status, NEW answer
      PROVE  PutAnswer(PutId(PutStatus(PutPc(reader, r, "answered"), r, status), r, 0), r, answer)
             = With(r, "answered", x.at, 0, answer, status)
  BY <1>1, WithItself, PutFields
<1>3. ASSUME Refuses404(r)
      PROVE  reader' = PutAnswer(PutId(PutStatus(PutPc(reader, r, "answered"), r, 404), r, 0), r,
                                 <<AskedOf(x), {}>>)
  BY <1>1, <1>3 DEF Refuses404, PutPc, PutId, PutAnswer, PutStatus
<1>4. ASSUME Refuses500(r)
      PROVE  reader' = PutAnswer(PutId(PutStatus(PutPc(reader, r, "answered"), r, 500), r, 0), r,
                                 << >>)
  BY <1>4 DEF Refuses500, PutPc, PutId, PutAnswer, PutStatus
<1>5. ASSUME Namelessly(r)
      PROVE  reader' = PutAnswer(PutId(PutStatus(PutPc(reader, r, "answered"), r, 200), r, 0), r,
                                 << >>)
  BY <1>5 DEF Namelessly, PutPc, PutId, PutAnswer, PutStatus
<1> QED BY <1>2, <1>3, <1>4, <1>5

\* A query answered with what a schedule seen says of it.
LEMMA AnswersOK ==
    ASSUME ReadersOK, versions' = versions, NEW r \in Readers, NEW a, Answers(r, a),
           reader[r].pc \in {"asking", "reading"},
           AskedOf(reader[r]) \notin Unversioned => Said(reader[r], AskedOf(reader[r]), a),
           AskedOf(reader[r]) \in Single => a # {}
    PROVE  ReadersOK'
<1> DEFINE x    == reader[r]
           last == x.at = Len(Handlers[x.kind])
           y    == [pc |-> IF last THEN "answered" ELSE "asking", kind |-> x.kind, of |-> x.of,
                    at |-> IF last THEN x.at ELSE x.at + 1, id |-> 0,
                    answer |-> <<AskedOf(x), a>>, status |-> IF last THEN 200 ELSE 0,
                    seen |-> x.seen]
<1>1. reader' = [reader EXCEPT ![r] = y]
  BY AnswersChange DEF With
<1>2. ReaderOK(versions, x) /\ x.pc # "waiting" /\ x.status = 0 /\ Sha(versions) \in x.seen
  BY ReaderKnown DEF ReaderOK
<1>3. /\ x.at \in 1..Len(Handlers[x.kind]) /\ Len(Handlers[x.kind]) \in 1..4
      /\ AskedOf(x) \in Single => x.at = 1 /\ AskedOf(x) = FirstOf(x)
      /\ AskedOf(x) \notin Single /\ FirstOf(x) \in Single => x.at > 1
  BY <1>2, HandlerKnown
<1>4. /\ IsReader(y) /\ y.kind = x.kind /\ y.of = x.of /\ y.seen = x.seen
      /\ y.answer = <<AskedOf(x), a>> /\ y.answer[1] = AskedOf(x) /\ y.answer[2] = a
      /\ y.pc \in {"asking", "answered"}
      /\ y.pc = "asking" => y.status = 0
      /\ y.status # 404
  BY DEF IsReader
<1>5. y.at \in 1..Len(Handlers[x.kind])
  BY <1>3
<1>6. FirstOf(y) = FirstOf(x)
  BY <1>4 DEF FirstOf
<1> HIDE DEF y
<1>7. y.answer[1] \notin Unversioned => Said(y, y.answer[1], y.answer[2])
  BY <1>4 DEF Said
<1>8. ASSUME FirstOf(x) \in Single PROVE HadFirst(y)
  <2>1. CASE AskedOf(x) \in Single
    <3>1. AskedOf(x) \notin Unversioned /\ a # {} /\ AskedOf(x) = FirstOf(x)
      BY <1>3, <2>1 DEF Single, Unversioned
    <3> QED BY <1>4, <1>6, <3>1 DEF Said, HadFirst
  <2>2. CASE AskedOf(x) \notin Single
    <3>1. HadFirst(x)
      BY <1>2, <1>3, <1>8, <2>2 DEF ReaderOK
    <3> QED BY <1>4, <1>6, <3>1 DEF HadFirst
  <2> QED BY <2>1, <2>2
<1>9. ReaderOK(versions, y)
  <2>1. /\ y.pc \in {"waiting", "asking", "reading", "answered"}
        /\ y.pc # "waiting" /\ y.pc # "reading"
    BY <1>4
  <2>2. y.kind \in DOMAIN Handlers /\ y.at \in 1..Len(Handlers[y.kind])
    BY <1>2, <1>4, <1>5 DEF ReaderOK
  <2>3. y.pc \in {"asking", "reading"} => y.status = 0 /\ Sha(versions) \in y.seen
    BY <1>2, <1>4
  <2>4. FirstOf(y) \in Single => HadFirst(y) /\ y.status # 404
    BY <1>4, <1>6, <1>8
  <2> QED BY <1>4, <1>7, <2>1, <2>2, <2>3, <2>4 DEF ReaderOK
<1> QED BY <1>1, <1>9, ReaderMoves

\* A request refused because a schedule seen does not have the row.
LEMMA NotFoundOK ==
    ASSUME ReadersOK, versions' = versions, NEW r \in Readers, Refuses404(r),
           reader[r].pc \in {"asking", "reading"}, AskedOf(reader[r]) \in Single,
           Said(reader[r], AskedOf(reader[r]), {})
    PROVE  ReadersOK'
<1> DEFINE x == reader[r]
           y == [pc |-> "answered", kind |-> x.kind, of |-> x.of, at |-> x.at, id |-> 0,
                 answer |-> <<AskedOf(x), {}>>, status |-> 404, seen |-> x.seen]
<1>1. reader' = [reader EXCEPT ![r] = y]
  BY OverChange DEF With
<1>2. ReaderOK(versions, x) /\ x.pc # "waiting"
  BY ReaderKnown
<1>3. x.at = 1 /\ AskedOf(x) = FirstOf(x)
  BY <1>2, HandlerKnown
<1>4. /\ IsReader(y) /\ y.pc = "answered" /\ y.kind = x.kind /\ y.of = x.of /\ y.seen = x.seen
      /\ y.at = x.at /\ y.answer[1] = AskedOf(x) /\ y.answer[2] = {} /\ y.status = 404
  BY DEF IsReader
<1>5. FirstOf(y) = FirstOf(x)
  BY <1>4 DEF FirstOf
<1> HIDE DEF y
<1>6. Said(y, y.answer[1], y.answer[2]) /\ Said(y, FirstOf(y), {})
  BY <1>3, <1>4, <1>5 DEF Said
<1>7. ReaderOK(versions, y)
  BY <1>2, <1>3, <1>4, <1>6 DEF ReaderOK
<1> QED BY <1>1, <1>7, ReaderMoves

\* A request whose statement failed, or that does without it.
LEMMA FailsOK ==
    ASSUME ReadersOK, versions' = versions, NEW r \in Readers,
           reader[r].pc \in {"asking", "reading"},
           IF Tolerated(r) THEN Namelessly(r) ELSE Refuses500(r)
    PROVE  ReadersOK'
<1> DEFINE x == reader[r]
           y == [pc |-> "answered", kind |-> x.kind, of |-> x.of, at |-> x.at, id |-> 0,
                 answer |-> << >>, status |-> IF Tolerated(r) THEN 200 ELSE 500,
                 seen |-> x.seen]
<1>1. reader' = [reader EXCEPT ![r] = y]
  BY OverChange DEF With
<1>2. ReaderOK(versions, x) /\ x.pc # "waiting" /\ Query(r) = AskedOf(x)
  BY ReaderKnown
<1>3. AskedOf(x) \notin Single /\ FirstOf(x) \in Single => x.at > 1
  BY <1>2, HandlerKnown
<1>4. /\ IsReader(y) /\ y.pc = "answered" /\ y.kind = x.kind /\ y.of = x.of /\ y.seen = x.seen
      /\ y.at = x.at /\ y.answer = << >> /\ y.status # 404
      /\ y.status = 200 => AskedOf(x) \notin Single
  BY <1>2 DEF IsReader, Tolerated, Single
<1>5. FirstOf(y) = FirstOf(x)
  BY <1>4 DEF FirstOf
<1> HIDE DEF y
<1>6. FirstOf(y) \in Single /\ (y.at > 1 \/ y.status = 200) => HadFirst(y)
  <2>1. FirstOf(x) \in Single /\ x.at > 1 => HadFirst(x)
    BY <1>2 DEF ReaderOK
  <2> QED BY <1>3, <1>4, <1>5, <2>1 DEF HadFirst
<1>7. ReaderOK(versions, y)
  BY <1>2, <1>4, <1>6 DEF ReaderOK
<1> QED BY <1>1, <1>7, ReaderMoves

\* The record of a new request, one field at a time.
Asked(x, pc, kind, of, seen) ==
    [[[[x EXCEPT !.pc = pc] EXCEPT !.kind = kind] EXCEPT !.of = of] EXCEPT !.seen = seen]

LEMMA AskedFields ==
    ASSUME NEW x, IsReader(x), NEW pc, NEW kind, NEW of, NEW seen
    PROVE  Asked(x, pc, kind, of, seen)
             = [pc |-> pc, kind |-> kind, of |-> of, at |-> x.at, id |-> x.id,
                answer |-> x.answer, status |-> x.status, seen |-> seen]
<1> DEFINE fields(p, k, o, s) ==
             [pc |-> p, kind |-> k, of |-> o, at |-> x.at, id |-> x.id,
              answer |-> x.answer, status |-> x.status, seen |-> s]
<1>1. [fields(x.pc, x.kind, x.of, x.seen) EXCEPT !.pc = pc] = fields(pc, x.kind, x.of, x.seen)
  OBVIOUS
<1>2. [fields(pc, x.kind, x.of, x.seen) EXCEPT !.kind = kind] = fields(pc, kind, x.of, x.seen)
  OBVIOUS
<1>3. [fields(pc, kind, x.of, x.seen) EXCEPT !.of = of] = fields(pc, kind, of, x.seen)
  OBVIOUS
<1>4. [fields(pc, kind, of, x.seen) EXCEPT !.seen = seen] = fields(pc, kind, of, seen)
  OBVIOUS
<1>5. x = fields(x.pc, x.kind, x.of, x.seen)
  BY DEF IsReader
<1>6. Asked(x, pc, kind, of, seen) = fields(pc, kind, of, seen)
  <2> HIDE DEF fields
  <2>1. [x EXCEPT !.pc = pc] = fields(pc, x.kind, x.of, x.seen)
    BY <1>1, <1>5, Zenon
  <2>2. [[x EXCEPT !.pc = pc] EXCEPT !.kind = kind] = fields(pc, kind, x.of, x.seen)
    BY <1>2, <2>1, Zenon
  <2>3. [[[x EXCEPT !.pc = pc] EXCEPT !.kind = kind] EXCEPT !.of = of]
          = fields(pc, kind, of, x.seen)
    BY <1>3, <2>2, Zenon
  <2> QED BY <1>4, <2>3, Zenon DEF Asked
<1> QED BY <1>6

\* A request arrives.
LEMMA AskOK ==
    ASSUME ReadersOK, NEW r \in Readers, NEW q \in Requests, Ask(r, q)
    PROVE  ReadersOK'
<1> DEFINE y == [pc |-> "asking", kind |-> q.kind, of |-> q.of, at |-> 1, id |-> 0,
                 answer |-> << >>, status |-> 0, seen |-> {Sha(versions)}]
<1>1. reader' = [reader EXCEPT ![r] = y] /\ versions' = versions
  <2>1. /\ reader' = [reader EXCEPT ![r] =
                        [Waiting EXCEPT !.pc = "asking", !.kind = q.kind, !.of = q.of,
                                        !.seen = {Sha(versions)}]]
        /\ UNCHANGED vars
    BY DEF Ask
  <2>2. [Waiting EXCEPT !.pc = "asking", !.kind = q.kind, !.of = q.of, !.seen = {Sha(versions)}]
          = Asked(Waiting, "asking", q.kind, q.of, {Sha(versions)})
    BY DEF Asked
  <2>3. Asked(Waiting, "asking", q.kind, q.of, {Sha(versions)}) = y
    <3>1. /\ IsReader(Waiting) /\ Waiting.at = 1 /\ Waiting.id = 0 /\ Waiting.answer = << >>
          /\ Waiting.status = 0
      BY DEF Waiting, IsReader
    <3> QED BY <3>1, AskedFields
  <2> HIDE DEF y
  <2> QED BY <2>1, <2>2, <2>3 DEF vars
<1>2. q.kind \in DOMAIN Handlers
  BY ReadsAssumption
<1>3. 1 \in 1..Len(Handlers[q.kind])
  BY <1>2, HandlersShape
<1>4. /\ IsReader(y) /\ y.pc = "asking" /\ y.kind = q.kind /\ y.at = 1 /\ y.answer = << >>
      /\ y.status = 0 /\ y.seen = {Sha(versions)}
  BY DEF IsReader
<1> HIDE DEF y
<1>5. ReaderOK(versions, y)
  BY <1>2, <1>3, <1>4 DEF ReaderOK
<1> QED BY <1>1, <1>5, ReaderMoves

\* The version found active is loaded, and it is the schedule of the moment.
LEMMA ActiveFound ==
    ASSUME Inv
    PROVE  /\ ActiveVersion = 0 => Sha(versions) = ""
           /\ ActiveVersion # 0 => /\ ActiveVersion \in Ids
                                   /\ versions[ActiveVersion].loaded
                                   /\ versions[ActiveVersion].sha = Sha(versions)
<1>1. CASE Active(versions) = {}
  BY <1>1 DEF ActiveVersion, Sha
<1>2. CASE Active(versions) # {}
  <2>1. ActiveVersion \in Active(versions) /\ Sha(versions) = versions[ActiveVersion].sha
    <3>1. ActiveVersion = CHOOSE i \in Active(versions) : TRUE
      BY <1>2 DEF ActiveVersion
    <3>2. Sha(versions) = versions[CHOOSE i \in Active(versions) : TRUE].sha
      BY <1>2 DEF Sha
    <3>3. (CHOOSE i \in Active(versions) : TRUE) \in Active(versions)
      BY <1>2
    <3> QED BY <3>1, <3>2, <3>3
  <2>2. ActiveVersion \in Ids /\ versions[ActiveVersion].active
    BY <2>1 DEF Active, Ids
  <2>3. versions[ActiveVersion].loaded /\ ActiveVersion # 0
    BY <2>2, LoadsAssumption DEF Inv, TableOK, Ids
  <2> QED BY <2>1, <2>2, <2>3
<1> QED BY <1>1, <1>2

\* The first statement.
LEMMA FindVersionOK ==
    ASSUME Inv, ReadersOK, NEW r \in Readers, FindVersion(r)
    PROVE  ReadersOK'
<1> DEFINE x == reader[r]
<1>1. /\ versions' = versions /\ x.pc = "asking" /\ AskedOf(x) \notin Unversioned
      /\ Query(r) = AskedOf(x) /\ ReaderOK(versions, x)
      /\ IsReader(x) /\ reader = [s \in Readers |-> reader[s]]
  BY ReaderKnown DEF FindVersion, vars, ReadersOK
<1>2. AskedOf(x) \in Versioned /\ Sha(versions) \in x.seen /\ x.status = 0
  BY <1>1, HandlerKnown DEF ReaderOK
<1>3. CASE ActiveVersion # 0 \/ AskedOf(x) \in Expanding
  <2> DEFINE y == [pc |-> "reading", kind |-> x.kind, of |-> x.of, at |-> x.at,
                   id |-> ActiveVersion, answer |-> x.answer, status |-> x.status,
                   seen |-> x.seen]
  <2>1. reader' = [reader EXCEPT ![r].pc = "reading", ![r].id = ActiveVersion]
    BY <1>1, <1>3 DEF FindVersion
  <2>2. reader' = PutId(PutPc(reader, r, "reading"), r, ActiveVersion)
    BY <2>1 DEF PutId, PutPc
  <2>3. reader' = With(r, "reading", x.at, ActiveVersion, x.answer, x.status)
    BY <1>1, <2>2, WithItself, PutFields
  <2>4. reader' = [reader EXCEPT ![r] = y]
    BY <2>3 DEF With
  <2>5. /\ IsReader(y) /\ y.pc = "reading" /\ y.kind = x.kind /\ y.of = x.of /\ y.at = x.at
        /\ y.id = ActiveVersion /\ y.answer = x.answer /\ y.status = x.status
        /\ y.seen = x.seen
    BY DEF IsReader
  <2> HIDE DEF y
  <2>6. AskedOf(y) = AskedOf(x) /\ FirstOf(y) = FirstOf(x)
    BY <2>5 DEF AskedOf, FirstOf
  <2>7. Reading(versions, y)
    BY <1>1, <1>2, <1>3, <2>5, <2>6, ActiveFound DEF Reading, Ids
  <2>8. /\ Said(x, y.answer[1], y.answer[2]) => Said(y, y.answer[1], y.answer[2])
        /\ HadFirst(x) => HadFirst(y)
    BY <2>5, <2>6 DEF Said, HadFirst
  <2>9. ReaderOK(versions, y)
    BY <1>1, <1>2, <2>5, <2>6, <2>7, <2>8 DEF ReaderOK
  <2> QED BY <1>1, <2>4, <2>9, ReaderMoves
<1>4. CASE ~(ActiveVersion # 0 \/ AskedOf(x) \in Expanding)
  <2>1. IF AskedOf(x) \in Single THEN Refuses404(r) ELSE Answers(r, {})
    BY <1>1, <1>4 DEF FindVersion
  <2>2. Said(x, AskedOf(x), {})
    <3>1. "" \in x.seen
      BY <1>2, <1>4, ActiveFound
    <3> QED BY <1>2, <1>4, <3>1, NothingToAnswer DEF Said
  <2>3. CASE AskedOf(x) \in Single
    BY <1>1, <2>1, <2>2, <2>3, NotFoundOK
  <2>4. CASE AskedOf(x) \notin Single
    BY <1>1, <2>1, <2>2, <2>4, AnswersOK
  <2> QED BY <2>3, <2>4
<1> QED BY <1>3, <1>4

\* The second statement.
LEMMA ReadRowsOK ==
    ASSUME Inv, ReadersOK, NEW r \in Readers, ReadRows(r)
    PROVE  ReadersOK'
<1> DEFINE x == reader[r]
           answer == Answer(AskedOf(x), x.of, Gtfs, x.id)
<1>1. /\ versions' = versions /\ x.pc = "reading" /\ Query(r) = AskedOf(x)
      /\ ReaderOK(versions, x)
  BY ReaderKnown DEF ReadRows, vars
<1>2. Reading(versions, x) /\ AskedOf(x) \in Versioned
  BY <1>1, HandlerKnown DEF ReaderOK, Reading
<1>3. Said(x, AskedOf(x), answer)
  <2>1. CASE x.id = 0
    <3>1. answer = AnswerFor(AskedOf(x), x.of, "")
      BY <1>2, <2>1, NoAnswer
    <3> QED BY <1>2, <2>1, <3>1 DEF Reading, Said
  <2>2. CASE x.id # 0
    <3>1. x.id \in Ids /\ versions[x.id].loaded /\ versions[x.id].sha \in x.seen
      BY <1>2, <2>2 DEF Reading, Ids
    <3>2. answer = AnswerFor(AskedOf(x), x.of, versions[x.id].sha)
      BY <1>2, <3>1, LoadedAnswer
    <3> QED BY <3>1, <3>2 DEF Said
  <2> QED BY <2>1, <2>2
<1>4. IF AskedOf(x) \in Single /\ answer = {} THEN Refuses404(r) ELSE Answers(r, answer)
  BY <1>1 DEF ReadRows
<1> HIDE DEF answer
<1>5. CASE AskedOf(x) \in Single /\ answer = {}
  BY <1>1, <1>3, <1>4, <1>5, NotFoundOK
<1>6. CASE ~(AskedOf(x) \in Single /\ answer = {})
  BY <1>1, <1>3, <1>4, <1>6, AnswersOK
<1> QED BY <1>5, <1>6

\* The steps of a request.
LEMMA ReadOK ==
    ASSUME Inv, ReadersOK, NEW r \in Readers, Read(r)
    PROVE  ReadersOK'
<1>1. ASSUME ReadUnversioned(r) PROVE ReadersOK'
  <2>1. /\ versions' = versions /\ reader[r].pc = "asking" /\ Answers(r, {})
        /\ AskedOf(reader[r]) \in Unversioned
    BY <1>1, ReaderKnown DEF ReadUnversioned, vars
  <2>2. AskedOf(reader[r]) \notin Single
    BY <2>1 DEF Unversioned, Single
  <2> QED BY <2>1, <2>2, AnswersOK
<1>2. ASSUME ReadFails(r) PROVE ReadersOK'
  <2>1. /\ versions' = versions /\ reader[r].pc \in {"asking", "reading"}
        /\ IF Tolerated(r) THEN Namelessly(r) ELSE Refuses500(r)
    BY <1>2 DEF ReadFails, vars
  <2> QED BY <2>1, FailsOK
<1> QED BY <1>1, <1>2, AskOK, FindVersionOK, ReadRowsOK DEF Read

\* A load's step leaves what requests have found, and they notice what it made
\* active.
LEMMA NoticeOK ==
    ASSUME ReadersOK, LoadedStays, Notice
    PROVE  ReadersOK'
<1> SUFFICES ASSUME NEW r \in Readers PROVE ReaderOK(versions', reader'[r])
  BY DEF ReadersOK, Notice
<1> DEFINE x == reader[r]
           y == [pc |-> x.pc, kind |-> x.kind, of |-> x.of, at |-> x.at, id |-> x.id,
                 answer |-> x.answer, status |-> x.status, seen |-> x.seen \cup {Sha(versions')}]
<1>1. IsReader(x) /\ ReaderOK(versions, x)
  BY ReaderKnown
<1>2. CASE x.pc \notin {"asking", "reading"}
  <2>1. reader'[r] = x
    BY <1>2 DEF Notice
  <2> QED BY <1>1, <1>2, <2>1 DEF ReaderOK
<1>3. CASE x.pc \in {"asking", "reading"}
  <2>1. reader'[r] = [x EXCEPT !.seen = @ \cup {Sha(versions')}]
    BY <1>3 DEF Notice
  <2>2. reader'[r] = y
    BY <1>1, <2>1 DEF IsReader
  <2>3. /\ IsReader(y) /\ y.pc = x.pc /\ y.kind = x.kind /\ y.of = x.of /\ y.at = x.at
        /\ y.id = x.id /\ y.answer = x.answer /\ y.status = x.status
        /\ y.seen = x.seen \cup {Sha(versions')}
    BY DEF IsReader
  <2> HIDE DEF y
  <2>4. AskedOf(y) = AskedOf(x) /\ FirstOf(y) = FirstOf(x)
    BY <2>3 DEF AskedOf, FirstOf
  <2>5. Reading(versions, x) => Reading(versions', y)
    BY <2>3, <2>4 DEF Reading, LoadedStays, Ids
  <2>6. \A query, answer : Said(x, query, answer) => Said(y, query, answer)
    BY <2>3 DEF Said
  <2>7. HadFirst(x) => HadFirst(y)
    BY <2>3, <2>4 DEF HadFirst
  <2>8. ReaderOK(versions', y)
    BY <1>1, <1>3, <2>3, <2>4, <2>5, <2>6, <2>7 DEF ReaderOK
  <2> QED BY <2>2, <2>8
<1> QED BY <1>2, <1>3

LEMMA NoticeOrRead ==
    ASSUME OneLoadAtATime, Inv, OwesNothingLoaded, ReadersOK, [ReadNext]_readVars
    PROVE  ReadersOK'
<1>1. CASE UNCHANGED vars /\ UNCHANGED reader
  BY <1>1 DEF vars, ReadersOK
<1>2. ASSUME NEW r \in Readers, Read(r) PROVE ReadersOK'
  BY <1>2, ReadOK
<1>3. CASE Notice
  BY <1>3, OneLoadSteps, NoticeOK
<1> QED BY <1>1, <1>2, <1>3, ReadSteps

LEMMA RequestsInvariance ==
    OneLoadAtATime /\ ReadSpec => []ReadersOK
<1>1. ReadInit => ReadersOK
  <2>1. IsReader(Waiting) /\ Waiting.pc = "waiting" /\ Waiting.answer = << >> /\ Waiting.status = 0
    BY DEF Waiting, IsReader
  <2>2. ReaderOK(versions, Waiting)
    BY <2>1 DEF ReaderOK
  <2>3. ASSUME ReadInit, NEW r \in Readers PROVE reader[r] = Waiting
    BY <2>3 DEF ReadInit
  <2> QED BY <2>2, <2>3 DEF ReadInit, ReadersOK
<1>2. OneLoadAtATime /\ Inv /\ OwesNothingLoaded /\ ReadersOK /\ [ReadNext]_readVars
      => ReadersOK'
  BY NoticeOrRead
<1> QED BY <1>1, <1>2, OneLoadInvariance, PTL DEF ReadSpec

\* AnswersAreOfASchedule, for any number of requests: whatever statement of
\* whatever load comes between the two of a query, its answer is what one
\* schedule says that was active during the request.
THEOREM AnswersAreOfOneSchedule ==
    OneLoadAtATime /\ ReadSpec => []AnswersAreOfASchedule
<1>1. ReadersOK => AnswersAreOfASchedule
  BY DEF ReadersOK, ReaderOK, Said, AnswersAreOfASchedule
<1> QED BY <1>1, RequestsInvariance, PTL

\* NotFoundIsTrue, for any number of requests: 404 is said of a row that a
\* schedule of that time does not have, 200 only of one that it has.
THEOREM NotFoundIsSaidTruly ==
    OneLoadAtATime /\ ReadSpec => []NotFoundIsTrue
<1>1. ASSUME ReadersOK, NEW r \in Readers,
             reader[r].status \in {200, 404},
             Handlers[reader[r].kind][1] \in Single
      PROVE  \E sha \in reader[r].seen :
                (AnswerFor(Handlers[reader[r].kind][1], reader[r].of, sha) = {})
                   <=> reader[r].status = 404
  <2> DEFINE x == reader[r]
  <2>1. ReaderOK(versions, x) /\ x.pc # "waiting" /\ FirstOf(x) = Handlers[x.kind][1]
    BY <1>1 DEF ReadersOK, ReaderOK, FirstOf
  <2>2. CASE x.status = 404
    <3>1. Said(x, FirstOf(x), {})
      BY <1>1, <2>1, <2>2 DEF ReaderOK
    <3> QED BY <2>1, <2>2, <3>1 DEF Said
  <2>3. CASE x.status = 200
    <3>1. HadFirst(x)
      BY <1>1, <2>1, <2>3 DEF ReaderOK
    <3> QED BY <2>1, <2>3, <3>1 DEF HadFirst
  <2> QED BY <1>1, <2>2, <2>3
<1>2. ReadersOK => NotFoundIsTrue
  BY <1>1 DEF NotFoundIsTrue
<1> QED BY <1>2, RequestsInvariance, PTL
=============================================================================
