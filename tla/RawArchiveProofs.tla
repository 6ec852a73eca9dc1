-------------------------- MODULE RawArchiveProofs --------------------------
(***************************************************************************)
(* What the archive keeps, for any pollers, feeds, responses, retention    *)
(* and replays, wherever a poll or the process stops.                      *)
(***************************************************************************)
EXTENDS RawArchive, FiniteSetTheorems, TLAPS

-----------------------------------------------------------------------------
\* Types.

PollPCs == {"idle", "fetching", "fetched", "looked", "written", "recorded"}

Feeds == {FeedOf[p] : p \in Pollers}
Blobs == [feed: Feeds, at: Nat, sha: Responses \cup {None}]
Rows  == [by: Pollers, feed: Feeds, at: Nat, sha: Responses \cup {None}, blind: BOOLEAN]

Hashes == Responses \cup {None}
Jobs == [pc: PollPCs, at: Nat, sha: Hashes, last: Hashes]

ArchiveTypeOK ==
    /\ now \in Nat
    /\ index \in Seq(Rows)
    /\ files \subseteq Blobs
    /\ delivered \subseteq Blobs
    /\ job \in [Pollers -> Jobs]
    /\ replay \in [pc: {"idle", "running", "returned"}, found: SUBSET Blobs,
                   todo: SUBSET Blobs, done: SUBSET Blobs]

\* Of finitely many rows there is one with the greatest value: by the
\* well-foundedness of the sets of rows with greater ones.
LEMMA Greatest ==
    ASSUME NEW n \in Nat, NEW S, S \subseteq 1..n, S # {},
           NEW f, \A i \in S : f[i] \in Int
    PROVE  \E x \in S : \A y \in S : f[y] <= f[x]
<1> DEFINE Above(x) == {y \in S : f[x] < f[y]}
           T == {Above(x) : x \in S}
<1>1. IsWellFoundedOn(StrictSubsetOrdering(1..n), SUBSET (1..n))
  <2>1. IsFiniteSet(1..n)
    BY FS_Interval
  <2> QED BY <2>1, FS_FiniteSubsetsOfFinite, FS_StrictSubsetOrderingWellFounded
<1>2. T \subseteq SUBSET (1..n) /\ T # {}
  OBVIOUS
<1>3. PICK s \in T : \A t \in T : <<t, s>> \notin StrictSubsetOrdering(1..n)
  <2> HIDE DEF T
  <2> QED BY <1>1, <1>2, WFMin
<1>4. PICK x \in S : s = Above(x)
  BY <1>3
<1>5. ASSUME NEW y \in S, f[x] < f[y] PROVE FALSE
  <2>1. Above(y) \in T /\ Above(y) \in SUBSET (1..n) /\ s \in SUBSET (1..n)
    BY <1>2, <1>3
  <2>2. Above(y) \subseteq Above(x) /\ y \in Above(x) /\ y \notin Above(y)
    <3>1. \A z \in S : f[y] < f[z] => f[x] < f[z]
      BY <1>5
    <3>2. Above(y) \subseteq Above(x)
      BY <3>1
    <3>3. y \in Above(x)
      BY <1>5
    <3>4. ~(f[y] < f[y])
      OBVIOUS
    <3> QED BY <3>2, <3>3, <3>4
  <2> QED BY <1>3, <1>4, <2>1, <2>2 DEF StrictSubsetOrdering
<1> QED
  BY <1>5

\* LastSHA answers with the hash of a row of the feed, none newer than it and
\* none later among the equally new, or with nothing.
LEMMA LastSHARow ==
    ASSUME index \in Seq(Rows), NEW feed, LastSHA(feed) # None
    PROVE  \E i \in DOMAIN index :
             /\ index[i].feed = feed /\ LastSHA(feed) = index[i].sha
             /\ \A j \in DOMAIN index :
                  index[j].feed = feed =>
                      /\ index[j].at <= index[i].at
                      /\ index[j].at = index[i].at => j <= i
<1> DEFINE ofFeed == {i \in DOMAIN index : index[i].feed = feed}
           newest == {i \in ofFeed : \A j \in ofFeed : index[j].at <= index[i].at}
           n == Len(index)
<1>1. n \in Nat /\ DOMAIN index = 1..n /\ \A i \in 1..n : index[i] \in Rows
  OBVIOUS
<1>2. ofFeed # {} /\ LastSHA(feed) = index[Max(newest)].sha
  BY DEF LastSHA
<1>3. \E x \in ofFeed : \A y \in ofFeed : index[y].at <= index[x].at
  <2> DEFINE at == [i \in ofFeed |-> index[i].at]
  <2>1. \A i \in ofFeed : at[i] = index[i].at /\ at[i] \in Int
    BY <1>1 DEF Rows
  <2>2. ofFeed \subseteq 1..n
    BY <1>1
  <2> HIDE DEF at, ofFeed
  <2>3. \E x \in ofFeed : \A y \in ofFeed : at[y] <= at[x]
    BY <1>1, <1>2, <2>1, <2>2, Greatest
  <2> QED BY <2>1, <2>3
<1>4. newest # {} /\ newest \subseteq 1..n
  BY <1>1, <1>3
<1>5. \E x \in newest : \A y \in newest : y <= x
  <2> DEFINE same == [i \in newest |-> i]
  <2>1. \A i \in newest : same[i] = i /\ same[i] \in Int
    BY <1>4
  <2> HIDE DEF same, newest
  <2>2. \E x \in newest : \A y \in newest : same[y] <= same[x]
    BY <1>1, <1>4, <2>1, Greatest
  <2> QED BY <2>1, <2>2
<1>6. Max(newest) \in newest /\ \A y \in newest : y <= Max(newest)
  <2> HIDE DEF newest
  <2> QED BY <1>4, <1>5 DEF Max
<1> QED
  BY <1>1, <1>2, <1>6

LEMMA LastSHAType ==
    ASSUME index \in Seq(Rows), NEW feed
    PROVE  LastSHA(feed) \in Hashes
<1>1. CASE LastSHA(feed) = None
  BY <1>1 DEF Hashes
<1>2. CASE LastSHA(feed) # None
  <2>1. PICK i \in DOMAIN index : LastSHA(feed) = index[i].sha
    BY <1>2, LastSHARow
  <2>2. index[i] \in Rows
    BY <2>1
  <2> QED BY <2>1, <2>2 DEF Rows, Hashes
<1> QED BY <1>1, <1>2

\* The blob of a poll (blobPath) is a blob.
LEMMA BlobType ==
    ASSUME ArchiveTypeOK, NEW p \in Pollers
    PROVE  Blob(p) \in Blobs
  BY DEF ArchiveTypeOK, Jobs, Hashes, Blob, Blobs, Feeds

\* A poll that ends leaves an idle poller, and the others' jobs.
LEMMA PollEnds ==
    ASSUME ArchiveTypeOK, NEW p \in Pollers, Ends(p)
    PROVE  /\ job' \in [Pollers -> Jobs]
           /\ job'[p].pc = "idle"
           /\ \A q \in Pollers : q # p => job'[q] = job[q]
  BY DEF Ends, IdlePoll, ArchiveTypeOK, Jobs, PollPCs, Hashes

\* What each step of a poll leaves in hand: the time, the response, the last
\* hash, the next place.
LEMMA PollStarts ==
    ASSUME ArchiveTypeOK, NEW p \in Pollers,
           job' = [job EXCEPT ![p].pc = "fetching", ![p].at = now]
    PROVE  /\ job' \in [Pollers -> Jobs]
           /\ job'[p].pc = "fetching" /\ job'[p].at = now
           /\ \A q \in Pollers : q # p => job'[q] = job[q]
  BY DEF ArchiveTypeOK, Jobs, PollPCs

LEMMA PollFetched ==
    ASSUME ArchiveTypeOK, NEW p \in Pollers, NEW sha \in Hashes,
           job' = [job EXCEPT ![p].pc = "fetched", ![p].sha = sha]
    PROVE  /\ job' \in [Pollers -> Jobs]
           /\ job'[p].pc = "fetched" /\ job'[p].sha = sha /\ job'[p].at = job[p].at
           /\ \A q \in Pollers : q # p => job'[q] = job[q]
  BY DEF ArchiveTypeOK, Jobs, PollPCs

LEMMA PollLooked ==
    ASSUME ArchiveTypeOK, NEW p \in Pollers, NEW last \in Hashes,
           job' = [job EXCEPT ![p].pc = "looked", ![p].last = last]
    PROVE  /\ job' \in [Pollers -> Jobs]
           /\ job'[p].pc = "looked" /\ job'[p].last = last
           /\ job'[p].at = job[p].at /\ job'[p].sha = job[p].sha
           /\ \A q \in Pollers : q # p => job'[q] = job[q]
  BY DEF ArchiveTypeOK, Jobs, PollPCs

LEMMA PollGoes ==
    ASSUME ArchiveTypeOK, NEW p \in Pollers, NEW pc \in PollPCs, Goes(p, pc)
    PROVE  /\ job' \in [Pollers -> Jobs]
           /\ job'[p].pc = pc /\ job'[p].last = job[p].last
           /\ job'[p].at = job[p].at /\ job'[p].sha = job[p].sha
           /\ \A q \in Pollers : q # p => job'[q] = job[q]
  BY DEF Goes, ArchiveTypeOK, Jobs

\* The row RecordRawPoll appends.
NewRow(p) == [by |-> p, feed |-> FeedOf[p], at |-> job[p].at, sha |-> job[p].sha,
              blind |-> job[p].last = None]

\* The index grows by the row of the poll (RecordRawPoll), and is a sequence of
\* rows.
LEMMA IndexGrows ==
    ASSUME ArchiveTypeOK, NEW p \in Pollers, index' = Append(index, NewRow(p))
    PROVE  /\ index' \in Seq(Rows)
           /\ Len(index) \in Nat /\ Len(index') = Len(index) + 1
           /\ DOMAIN index = 1..Len(index) /\ DOMAIN index' = 1..(Len(index) + 1)
           /\ \A i \in DOMAIN index : index'[i] = index[i]
           /\ index'[Len(index) + 1] = NewRow(p)
<1>1. NewRow(p) \in Rows
  BY DEF ArchiveTypeOK, Jobs, Hashes, NewRow, Rows, Feeds
<1> QED
  BY <1>1 DEF ArchiveTypeOK

\* Nothing is archived at the start, and nobody polls.
LEMMA ArchiveTypesInit == Init => ArchiveTypeOK
  BY DEF Init, ArchiveTypeOK, Jobs, IdlePoll, PollPCs, Hashes, NoReplay

\* Every step keeps the types.
LEMMA ArchiveTypesNext == ArchiveTypeOK /\ [Next]_vars => ArchiveTypeOK'
<1> SUFFICES ASSUME ArchiveTypeOK, [Next]_vars PROVE ArchiveTypeOK'
  OBVIOUS
<1>1. ASSUME NEW p \in Pollers, Start(p) PROVE ArchiveTypeOK'
  <2>1. job' \in [Pollers -> Jobs]
    BY <1>1, PollStarts DEF Start
  <2> QED BY <1>1, <2>1 DEF Start, ArchiveTypeOK
<1>2. ASSUME NEW p \in Pollers, NEW sha \in Responses, Fetch(p, sha) PROVE ArchiveTypeOK'
  <2>1. job' \in [Pollers -> Jobs]
    BY <1>2, PollFetched DEF Fetch, Hashes
  <2> QED BY <1>2, <2>1 DEF Fetch, ArchiveTypeOK
<1>3. ASSUME NEW p \in Pollers, LookUp(p) PROVE ArchiveTypeOK'
  <2>1. PICK last \in {LastSHA(FeedOf[p]), None} :
          job' = [job EXCEPT ![p].pc = "looked", ![p].last = last]
    BY <1>3 DEF LookUp
  <2>2. last \in Hashes
    BY LastSHAType DEF ArchiveTypeOK, Hashes
  <2>3. job' \in [Pollers -> Jobs]
    BY <2>1, <2>2, PollLooked
  <2> QED BY <1>3, <2>3 DEF LookUp, ArchiveTypeOK
<1>4. ASSUME NEW p \in Pollers, Unchanged(p) \/ Fails(p) PROVE ArchiveTypeOK'
  BY <1>4, PollEnds DEF Unchanged, Fails, ArchiveTypeOK
<1>5. ASSUME NEW p \in Pollers, WriteBlob(p) PROVE ArchiveTypeOK'
  <2>1. job' \in [Pollers -> Jobs]
    BY <1>5, PollGoes DEF WriteBlob, PollPCs
  <2> QED BY <1>5, <2>1, BlobType DEF WriteBlob, ArchiveTypeOK
<1>6. ASSUME NEW p \in Pollers, Record(p) \/ RecordUnacknowledged(p) PROVE ArchiveTypeOK'
  <2>1. index' \in Seq(Rows)
    BY <1>6, IndexGrows DEF Record, RecordUnacknowledged, NewRow
  <2>2. job' \in [Pollers -> Jobs]
    <3>1. Goes(p, "recorded") \/ Ends(p)
      BY <1>6 DEF Record, RecordUnacknowledged
    <3> QED BY <3>1, PollEnds, PollGoes DEF PollPCs
  <2> QED BY <1>6, <2>1, <2>2 DEF Record, RecordUnacknowledged, ArchiveTypeOK
<1>7. ASSUME NEW p \in Pollers, Deliver(p) PROVE ArchiveTypeOK'
  BY <1>7, BlobType, PollEnds DEF Deliver, ArchiveTypeOK
<1>8. CASE Restart
  <2>1. job' \in [Pollers -> Jobs]
    BY <1>8 DEF Restart, IdlePoll, Jobs, PollPCs, Hashes
  <2> QED BY <1>8, <2>1 DEF Restart, ArchiveTypeOK
<1>9. CASE (\E f \in files : Prune(f)) \/ Tick \/ UNCHANGED vars
  BY <1>9 DEF Prune, Tick, vars, ArchiveTypeOK
<1>10. CASE \E r \in Ranges : Discover(r.from, r.to)
  BY <1>10 DEF Discover, ArchiveTypeOK
<1>11. ASSUME NEW f \in replay.todo, SkipBlob(f) \/ ReplayBlob(f) PROVE ArchiveTypeOK'
  <2>1. f \in Blobs
    BY DEF ArchiveTypeOK
  <2>2. CASE SkipBlob(f)
    BY <2>2 DEF SkipBlob, ArchiveTypeOK
  <2>3. CASE ReplayBlob(f)
    BY <2>1, <2>3 DEF ReplayBlob, ArchiveTypeOK
  <2> QED BY <1>11, <2>2, <2>3
<1>12. CASE ReplayReturns \/ ReplayEnds
  BY <1>12 DEF ReplayReturns, ReplayEnds, NoReplay, ArchiveTypeOK
<1> QED
  BY <1>1, <1>2, <1>3, <1>4, <1>5, <1>6, <1>7, <1>8, <1>9, <1>10, <1>11, <1>12 DEF Next

\* The types of the archive are an invariant.
THEOREM ArchiveIsTyped == Spec => []ArchiveTypeOK
  BY ArchiveTypesInit, ArchiveTypesNext, PTL DEF Spec

-----------------------------------------------------------------------------
\* What was kept is on disk.

\* A blob on disk stays there, or is old enough to be pruned -- and then it
\* remains so.
LEMMA OnDiskStays ==
    ASSUME ArchiveTypeOK, [Next]_vars, NEW f \in Blobs, OnDisk(f)
    PROVE  OnDisk(f)'
<1> USE DEF OnDisk
<1>1. f.at \in Nat /\ Retention \in Nat /\ now \in Nat
  BY ArchiveAssumption DEF ArchiveTypeOK, Blobs
<1>2. ASSUME NEW p \in Pollers,
             \/ Start(p)
             \/ \E sha \in Responses : Fetch(p, sha)
             \/ LookUp(p) \/ Unchanged(p) \/ WriteBlob(p)
             \/ Record(p) \/ RecordUnacknowledged(p) \/ Deliver(p) \/ Fails(p)
      PROVE  now' = now /\ files \subseteq files'
  BY <1>2 DEF Start, Fetch, LookUp, Unchanged, WriteBlob, Record, RecordUnacknowledged,
              Deliver, Fails
<1>3. CASE \E g \in files : Prune(g)
  BY <1>1, <1>3 DEF Prune, Prunable
<1>4. CASE Tick
  BY <1>1, <1>4 DEF Tick
<1>5. CASE \/ Restart
           \/ \E r \in Ranges : Discover(r.from, r.to)
           \/ \E g \in replay.todo : SkipBlob(g) \/ ReplayBlob(g)
           \/ ReplayReturns \/ ReplayEnds \/ UNCHANGED vars
  BY <1>5 DEF Restart, Discover, SkipBlob, ReplayBlob, ReplayReturns, ReplayEnds, vars
<1> QED
  BY <1>2, <1>3, <1>4, <1>5 DEF Next

\* A poll that has written its blob finds it on disk until it ends.
WrittenOnDisk ==
    \A p \in Pollers : job[p].pc \in {"written", "recorded"} => OnDisk(Blob(p))

KeptInv == ArchiveTypeOK /\ WrittenOnDisk /\ KeptOnDisk

LEMMA WrittenOnDiskNext ==
    ASSUME KeptInv, [Next]_vars
    PROVE  WrittenOnDisk'
<1> USE DEF KeptInv
<1>t. \A q \in Pollers : Blob(q) \in Blobs
  BY BlobType
<1>1. SUFFICES ASSUME NEW q \in Pollers, job'[q].pc \in {"written", "recorded"}
               PROVE  \/ Blob(q)' \in files'
                      \/ Blob(q)' = Blob(q) /\ job[q].pc \in {"written", "recorded"}
  BY <1>t, OnDiskStays DEF WrittenOnDisk, OnDisk
<1>2. CASE job'[q] = job[q]
  BY <1>1, <1>2 DEF Blob
<1>3. CASE job'[q] # job[q]
  <2>1. CASE Restart
    BY <1>1, <2>1 DEF Restart, IdlePoll
  <2>2. ASSUME NEW p \in Pollers, Start(p) PROVE q = p /\ FALSE
    BY <1>1, <1>3, <2>2, PollStarts DEF Start
  <2>3. ASSUME NEW p \in Pollers, NEW sha \in Responses, Fetch(p, sha) PROVE FALSE
    BY <1>1, <1>3, <2>3, PollFetched DEF Fetch, Hashes
  <2>4. ASSUME NEW p \in Pollers, LookUp(p) PROVE FALSE
    <3>1. PICK last \in {LastSHA(FeedOf[p]), None} :
            job' = [job EXCEPT ![p].pc = "looked", ![p].last = last]
      BY <2>4 DEF LookUp
    <3>2. last \in Hashes
      BY LastSHAType DEF ArchiveTypeOK, Hashes
    <3> QED BY <1>1, <1>3, <3>1, <3>2, PollLooked
  <2>5. ASSUME NEW p \in Pollers, Ends(p) PROVE FALSE
    BY <1>1, <1>3, <2>5, PollEnds
  <2>6. ASSUME NEW p \in Pollers, WriteBlob(p) PROVE Blob(q)' \in files'
    <3>1. q = p /\ Blob(q)' = Blob(q)
      BY <1>3, <2>6, PollGoes DEF WriteBlob, Blob, PollPCs
    <3> QED BY <2>6, <3>1 DEF WriteBlob
  <2>7. ASSUME NEW p \in Pollers, Ready(p, "written"), Goes(p, "recorded")
        PROVE  Blob(q)' = Blob(q) /\ job[q].pc \in {"written", "recorded"}
    BY <1>3, <2>7, PollGoes DEF Blob, Ready, PollPCs
  <2>8. \/ Restart
        \/ \E p \in Pollers :
             \/ Start(p) \/ LookUp(p) \/ Ends(p) \/ WriteBlob(p)
             \/ \E sha \in Responses : Fetch(p, sha)
             \/ Ready(p, "written") /\ Goes(p, "recorded")
    BY <1>3 DEF Next, vars, Unchanged, Record, RecordUnacknowledged, Deliver, Fails, Prune,
                Discover, SkipBlob, ReplayBlob, ReplayReturns, ReplayEnds, Tick
  <2> QED BY <2>1, <2>2, <2>3, <2>4, <2>5, <2>6, <2>7, <2>8
<1> QED
  BY <1>2, <1>3

\* The blob a row is about.
RowBlob(r) == [feed |-> r.feed, at |-> r.at, sha |-> r.sha]

LEMMA KeptOnDiskNext ==
    ASSUME KeptInv, [Next]_vars
    PROVE  KeptOnDisk'
<1> USE DEF KeptInv
<1> DEFINE Later(f) == f \in files' \/ f.at + Retention < now'
<1>1. \A f \in Blobs : OnDisk(f) => Later(f)
  BY OnDiskStays DEF OnDisk
<1>2. \A i \in DOMAIN index : index[i] \in Rows /\ Later(RowBlob(index[i]))
  <2>1. \A i \in DOMAIN index : index[i] \in Rows /\ OnDisk(RowBlob(index[i]))
    BY DEF ArchiveTypeOK, KeptOnDisk, RowBlob
  <2>2. \A r \in Rows : RowBlob(r) \in Blobs
    BY DEF Rows, Blobs, RowBlob
  <2> QED BY <1>1, <2>1, <2>2
<1>3. \A f \in delivered : Later(f)
  BY <1>1 DEF ArchiveTypeOK, KeptOnDisk
<1>k. SUFFICES /\ \A i \in DOMAIN index' : Later(RowBlob(index'[i]))
               /\ \A f \in delivered' : Later(f)
  BY DEF KeptOnDisk, OnDisk, RowBlob
<1> HIDE DEF Later
<1>4. ASSUME NEW p \in Pollers, Record(p) \/ RecordUnacknowledged(p)
      PROVE  delivered' = delivered /\ \A i \in DOMAIN index' : Later(RowBlob(index'[i]))
  <2>1. index' = Append(index, NewRow(p)) /\ delivered' = delivered
    BY <1>4 DEF Record, RecordUnacknowledged, NewRow
  <2>2. Blob(p) \in Blobs /\ OnDisk(Blob(p)) /\ RowBlob(NewRow(p)) = Blob(p)
    BY <1>4, BlobType DEF WrittenOnDisk, Record, RecordUnacknowledged, Ready, NewRow, Blob,
                          RowBlob
  <2>3. ASSUME NEW i \in DOMAIN index' PROVE Later(RowBlob(index'[i]))
    <3>1. CASE i \in DOMAIN index
      <4>1. index'[i] = index[i]
        BY <2>1, <3>1, IndexGrows
      <4> QED BY <1>2, <3>1, <4>1
    <3>2. CASE i \notin DOMAIN index
      <4>1. index'[i] = NewRow(p)
        BY <2>1, <3>2, IndexGrows
      <4> QED BY <1>1, <2>2, <4>1
    <3> QED BY <3>1, <3>2
  <2> QED BY <2>1, <2>3
<1>5. ASSUME NEW p \in Pollers, Deliver(p)
      PROVE  index' = index /\ \A f \in delivered' : Later(f)
  <2>1. Later(Blob(p))
    BY <1>1, <1>5, BlobType DEF WrittenOnDisk, Deliver, Ready
  <2> QED BY <1>3, <1>5, <2>1 DEF Deliver
<1>6. \/ \E p \in Pollers : Record(p) \/ RecordUnacknowledged(p) \/ Deliver(p)
      \/ UNCHANGED <<index, delivered>>
  BY DEF Next, vars, Start, Fetch, LookUp, Unchanged, WriteBlob, Fails, Restart, Prune,
         Discover, SkipBlob, ReplayBlob, ReplayReturns, ReplayEnds, Tick
<1> QED
  BY <1>2, <1>3, <1>4, <1>5, <1>6

\* The blob is durably on disk before anything is done with it (writeBlob in
\* pollOnce): what the index lists and what the engine was given can be read
\* back until retention takes it.
THEOREM EverythingKeptIsOnDisk == Spec => []KeptOnDisk
<1>1. Init => KeptInv
  <2> SUFFICES ASSUME Init PROVE KeptInv
    OBVIOUS
  <2> QED BY ArchiveTypesInit DEF Init, KeptInv, KeptOnDisk, WrittenOnDisk, IdlePoll
<1>2. KeptInv /\ [Next]_vars => KeptInv'
  BY ArchiveTypesNext, WrittenOnDiskNext, KeptOnDiskNext DEF KeptInv
<1>3. KeptInv => KeptOnDisk
  BY DEF KeptInv
<1> QED
  BY <1>1, <1>2, <1>3, PTL DEF Spec

-----------------------------------------------------------------------------
\* What a replay reaches.

\* A poll is no older than PollTime while it runs.
PollsAreShort ==
    \A p \in Pollers :
        job[p].pc # "idle" => job[p].at <= now /\ now <= job[p].at + PollTime

\* Pruned: no poll still running can write it again, PollTime being less than
\* the retention.
Gone(f) == f \notin files /\ f.at + Retention < now

\* Of the blobs a replay found, each is still to do, delivered, undecodable or
\* gone for good; and those still to do are on disk or old.
ReplayAccounts ==
    replay.pc # "idle" =>
        /\ \A f \in replay.found : OnDisk(f)
        /\ replay.todo \subseteq replay.found
        /\ replay.pc = "returned" => replay.todo = {}
        /\ \A f \in replay.found :
             f \in replay.todo \/ f \in replay.done \/ f.sha \in Undecodable \/ Gone(f)

ReplayInv == ArchiveTypeOK /\ PollsAreShort /\ ReplayAccounts

LEMMA PollsAreShortNext ==
    ASSUME ArchiveTypeOK, PollsAreShort, [Next]_vars
    PROVE  PollsAreShort'
<1>1. PollTime \in Nat /\ now \in Nat /\ \A p \in Pollers : job[p].at \in Nat
  BY ArchiveAssumption DEF ArchiveTypeOK, Jobs
<1>2. ASSUME NEW p \in Pollers, now' = now,
             \A q \in Pollers : q # p => job'[q] = job[q],
             \/ job'[p].pc = "idle" \/ job'[p].at = now
             \/ job[p].pc # "idle" /\ job'[p].at = job[p].at
      PROVE  PollsAreShort'
  BY <1>1, <1>2 DEF PollsAreShort
<1>3. ASSUME NEW p \in Pollers, Start(p) PROVE PollsAreShort'
  <2>1. now' = now /\ job'[p].at = now /\ \A q \in Pollers : q # p => job'[q] = job[q]
    BY <1>3, PollStarts DEF Start
  <2> QED BY <1>2, <2>1
<1>4. ASSUME NEW p \in Pollers, NEW sha \in Responses, Fetch(p, sha) PROVE PollsAreShort'
  BY <1>2, <1>4, PollFetched DEF Fetch, Ready, Hashes
<1>5. ASSUME NEW p \in Pollers, LookUp(p) PROVE PollsAreShort'
  <2>1. PICK last \in {LastSHA(FeedOf[p]), None} :
          job' = [job EXCEPT ![p].pc = "looked", ![p].last = last]
    BY <1>5 DEF LookUp
  <2>2. last \in Hashes
    BY LastSHAType DEF ArchiveTypeOK, Hashes
  <2> QED BY <1>2, <1>5, <2>1, <2>2, PollLooked DEF LookUp, Ready
<1>6. ASSUME NEW p \in Pollers, Ends(p), now' = now PROVE PollsAreShort'
  <2>1. job'[p].pc = "idle" /\ \A q \in Pollers : q # p => job'[q] = job[q]
    BY <1>6, PollEnds
  <2> QED BY <1>2, <1>6, <2>1
<1>7. ASSUME NEW p \in Pollers, NEW pc \in PollPCs, Goes(p, pc), job[p].pc # "idle",
             now' = now
      PROVE  PollsAreShort'
  BY <1>2, <1>7, PollGoes
<1>8. CASE Restart
  BY <1>8 DEF Restart, IdlePoll, PollsAreShort
<1>9. CASE Tick
  BY <1>1, <1>9 DEF Tick, PollsAreShort
<1>10. CASE UNCHANGED <<now, job>>
  BY <1>10 DEF PollsAreShort
<1>11. \/ Restart \/ Tick \/ UNCHANGED <<now, job>>
       \/ \E p \in Pollers :
            \/ Start(p) \/ LookUp(p)
            \/ Ends(p) /\ now' = now
            \/ \E sha \in Responses : Fetch(p, sha)
            \/ Goes(p, "written") /\ job[p].pc # "idle" /\ now' = now
            \/ Goes(p, "recorded") /\ job[p].pc # "idle" /\ now' = now
  BY DEF Next, vars, Unchanged, WriteBlob, Record, RecordUnacknowledged, Deliver, Fails,
         Ready, Prune, Discover, SkipBlob, ReplayBlob, ReplayReturns, ReplayEnds
<1> QED
  BY <1>3, <1>4, <1>5, <1>6, <1>7, <1>8, <1>9, <1>10, <1>11 DEF PollPCs

\* What retention took does not come back.
LEMMA GoneStays ==
    ASSUME ArchiveTypeOK, PollsAreShort, [Next]_vars, NEW f \in Blobs, Gone(f)
    PROVE  Gone(f)'
<1> USE DEF Gone
<1>1. /\ f.at \in Nat /\ Retention \in Nat /\ now \in Nat /\ PollTime \in Nat
      /\ PollTime <= Retention
  BY ArchiveAssumption DEF ArchiveTypeOK, Blobs
<1>2. ASSUME NEW p \in Pollers, WriteBlob(p) PROVE Gone(f)'
  <2>1. job[p].at \in Nat /\ now <= job[p].at + PollTime
    BY <1>2 DEF WriteBlob, Ready, PollsAreShort, ArchiveTypeOK, Jobs
  <2>2. f # Blob(p)
    BY <1>1, <2>1 DEF Blob
  <2> QED BY <1>2, <2>2 DEF WriteBlob
<1>3. CASE files' \subseteq files /\ (now' = now \/ now' = now + 1)
  BY <1>1, <1>3
<1>4. \/ \E p \in Pollers : WriteBlob(p)
      \/ files' \subseteq files /\ (now' = now \/ now' = now + 1)
  BY DEF Next, vars, Start, Fetch, LookUp, Unchanged, Record, RecordUnacknowledged, Deliver,
         Fails, Restart, Prune, Discover, SkipBlob, ReplayBlob, ReplayReturns, ReplayEnds, Tick
<1> QED
  BY <1>2, <1>3, <1>4

LEMMA ReplayAccountsNext ==
    ASSUME ReplayInv, [Next]_vars
    PROVE  ReplayAccounts'
<1> USE DEF ReplayInv
<1>0. /\ replay \in [pc: {"idle", "running", "returned"}, found: SUBSET Blobs,
                      todo: SUBSET Blobs, done: SUBSET Blobs]
      /\ files \subseteq Blobs
  BY DEF ArchiveTypeOK
<1> DEFINE LaterOn(f) == f \in files' \/ f.at + Retention < now'
           LaterGone(f) == f \notin files' /\ f.at + Retention < now'
<1>1. \A f \in Blobs : OnDisk(f) => LaterOn(f)
  BY OnDiskStays DEF OnDisk
<1>2. \A f \in Blobs : Gone(f) => LaterGone(f)
  BY GoneStays DEF Gone
<1>k. SUFFICES ASSUME replay'.pc # "idle"
      PROVE  /\ \A f \in replay'.found : LaterOn(f)
             /\ replay'.todo \subseteq replay'.found
             /\ replay'.pc = "returned" => replay'.todo = {}
             /\ \A f \in replay'.found :
                  \/ f \in replay'.todo \/ f \in replay'.done
                  \/ f.sha \in Undecodable \/ LaterGone(f)
  BY DEF ReplayAccounts, OnDisk, Gone
<1>3. CASE replay' = replay
  <2> HIDE DEF LaterOn, LaterGone
  <2> QED BY <1>0, <1>1, <1>2, <1>3, <1>k DEF ReplayAccounts
<1>4. ASSUME NEW r \in Ranges, Discover(r.from, r.to)
      PROVE  /\ replay'.todo = replay'.found /\ replay'.pc = "running"
             /\ \A f \in replay'.found : LaterOn(f)
  BY <1>4 DEF Discover
<1>5. ASSUME NEW f \in replay.todo, SkipBlob(f)
      PROVE  /\ replay' = [replay EXCEPT !.todo = @ \ {f}] /\ replay.pc = "running"
             /\ f.sha \in Undecodable \/ LaterGone(f)
  <2>1. f \in Blobs /\ OnDisk(f)
    BY <1>0, <1>5 DEF SkipBlob, ReplayAccounts
  <2>2. f.sha \in Undecodable \/ Gone(f)
    BY <1>5, <2>1 DEF SkipBlob, OnDisk, Gone
  <2> QED BY <1>2, <1>5, <2>1, <2>2 DEF SkipBlob
<1>6. ASSUME NEW f \in replay.todo, SkipBlob(f) \/ ReplayBlob(f)
      PROVE  /\ replay.pc = "running" /\ replay'.pc = "running"
             /\ replay'.found = replay.found /\ replay'.todo = replay.todo \ {f}
             /\ replay.done \subseteq replay'.done
             /\ f \in replay'.done \/ f.sha \in Undecodable \/ LaterGone(f)
  <2>1. CASE SkipBlob(f)
    BY <1>0, <1>5, <2>1
  <2>2. CASE ReplayBlob(f)
    BY <1>0, <2>2 DEF ReplayBlob
  <2> QED BY <1>6, <2>1, <2>2
<1>7. CASE ReplayReturns
  <2>1. /\ replay.pc = "running" /\ replay'.todo = {} /\ replay.todo = {}
        /\ replay'.found = replay.found /\ replay'.done = replay.done
    BY <1>0, <1>7 DEF ReplayReturns
  <2> HIDE DEF LaterOn, LaterGone
  <2> QED BY <1>0, <1>1, <1>2, <2>1 DEF ReplayAccounts
<1>8. CASE ReplayEnds
  BY <1>8, <1>k DEF ReplayEnds, NoReplay
<1>9. \/ replay' = replay \/ ReplayReturns \/ ReplayEnds
      \/ \E r \in Ranges : Discover(r.from, r.to)
      \/ \E f \in replay.todo : SkipBlob(f) \/ ReplayBlob(f)
  BY DEF Next, vars, Start, Fetch, LookUp, Unchanged, WriteBlob, Record,
         RecordUnacknowledged, Deliver, Fails, Restart, Prune, Tick
<1>10. ASSUME NEW f \in replay.todo, SkipBlob(f) \/ ReplayBlob(f)
       PROVE  /\ \A g \in replay'.found : LaterOn(g)
              /\ replay'.todo \subseteq replay'.found
              /\ replay'.pc = "returned" => replay'.todo = {}
              /\ \A g \in replay'.found :
                   \/ g \in replay'.todo \/ g \in replay'.done
                   \/ g.sha \in Undecodable \/ LaterGone(g)
  <2> HIDE DEF LaterOn, LaterGone
  <2> QED BY <1>0, <1>1, <1>2, <1>6, <1>10 DEF ReplayAccounts
<1> HIDE DEF LaterOn, LaterGone
<1> QED
  BY <1>3, <1>4, <1>7, <1>8, <1>9, <1>10

\* A replay that returns has delivered every blob of its range that can still be
\* read (Replay in replay.go), whatever was polled and pruned meanwhile.
THEOREM ReplaysAreComplete == Spec => []ReplayIsComplete
<1>1. Init => ReplayInv
  <2> SUFFICES ASSUME Init PROVE ReplayInv
    OBVIOUS
  <2> QED BY ArchiveTypesInit DEF Init, ReplayInv, PollsAreShort, IdlePoll, ReplayAccounts,
                                  NoReplay
<1>2. ReplayInv /\ [Next]_vars => ReplayInv'
  BY ArchiveTypesNext, PollsAreShortNext, ReplayAccountsNext DEF ReplayInv
<1>3. ReplayInv => ReplayIsComplete
  BY DEF ReplayInv, ReplayAccounts, ReplayIsComplete, Gone
<1> QED
  BY <1>1, <1>2, <1>3, PTL DEF Spec

-----------------------------------------------------------------------------
\* What is not archived again.  With two URLs of one feed, LastSHA may answer
\* with a row of the other.

OneUrlPerFeed == \A p, q \in Pollers : FeedOf[p] = FeedOf[q] => p = q

\* Rows carry their poller's feed, and a poller's are in the order of their
\* polls, which are not ahead of the clock.
RowsInOrder ==
    /\ \A i \in DOMAIN index : index[i].feed = FeedOf[index[i].by] /\ index[i].at <= now
    /\ \A i, j \in DOMAIN index :
         i < j /\ index[i].by = index[j].by => index[i].at <= index[j].at

\* The last row of a poller.
LastRowOf(i, p) ==
    /\ i \in DOMAIN index /\ index[i].by = p
    /\ \A j \in DOMAIN index : index[j].by = p => j <= i

\* What a poll has in hand: it is newer than its poller's rows; the hash it
\* looked up is the last row's still, and differs from its own once written.
JobsInOrder ==
    \A p \in Pollers :
        /\ job[p].pc # "idle" =>
             /\ job[p].at <= now
             /\ \A i \in DOMAIN index : index[i].by = p => index[i].at <= job[p].at
        /\ job[p].pc \in {"looked", "written"} /\ job[p].last # None =>
             \E i \in DOMAIN index : LastRowOf(i, p) /\ index[i].sha = job[p].last
        /\ job[p].pc = "written" => job[p].last # job[p].sha

RearchiveInv ==
    ArchiveTypeOK /\ RowsInOrder /\ JobsInOrder /\ IdenticalNotRearchived

\* The lookup finds the poller's own last row, the feed having no other poller.
LEMMA LookedUpIsLast ==
    ASSUME OneUrlPerFeed, ArchiveTypeOK, RowsInOrder, NEW p \in Pollers,
           LastSHA(FeedOf[p]) # None
    PROVE  \E i \in DOMAIN index : LastRowOf(i, p) /\ index[i].sha = LastSHA(FeedOf[p])
<1>1. \A i \in DOMAIN index : index[i] \in Rows /\ i \in Nat
  BY DEF ArchiveTypeOK
<1>2. PICK i \in DOMAIN index :
        /\ index[i].feed = FeedOf[p] /\ LastSHA(FeedOf[p]) = index[i].sha
        /\ \A j \in DOMAIN index :
             index[j].feed = FeedOf[p] =>
                 index[j].at <= index[i].at /\ (index[j].at = index[i].at => j <= i)
  <2>1. index \in Seq(Rows)
    BY DEF ArchiveTypeOK
  <2> QED BY <2>1, LastSHARow
<1>3. \A j \in DOMAIN index : index[j].by \in Pollers /\ index[j].at \in Nat
  BY <1>1 DEF Rows
<1>4. \A j \in DOMAIN index : index[j].feed = FeedOf[p] <=> index[j].by = p
  BY <1>3 DEF RowsInOrder, OneUrlPerFeed
<1>5. ASSUME NEW j \in DOMAIN index, index[j].by = p PROVE j <= i
  <2>1. index[i].by = p /\ index[j].at <= index[i].at
    BY <1>2, <1>4, <1>5
  <2>2. i < j => index[i].at <= index[j].at
    BY <1>5, <2>1 DEF RowsInOrder
  <2> QED BY <1>1, <1>2, <1>3, <1>4, <1>5, <2>1, <2>2
<1> QED
  BY <1>2, <1>4, <1>5 DEF LastRowOf

\* While the index stands, a step of one poll disturbs nothing if that poll is
\* left in order.
LEMMA JobInOrderStep ==
    ASSUME RearchiveInv, NEW p \in Pollers, index' = index, now' = now,
           \A q \in Pollers : q # p => job'[q] = job[q],
           \/ job'[p].pc = "idle"
           \/ /\ \/ job'[p].at = now
                 \/ job[p].pc # "idle" /\ job'[p].at = job[p].at
              /\ job'[p].pc \in {"looked", "written"} /\ job'[p].last # None =>
                   \E i \in DOMAIN index : LastRowOf(i, p) /\ index[i].sha = job'[p].last
              /\ job'[p].pc = "written" => job'[p].last # job'[p].sha
    PROVE  RowsInOrder' /\ JobsInOrder' /\ IdenticalNotRearchived'
<1>1. now \in Nat
  BY DEF RearchiveInv, ArchiveTypeOK
<1>2. RowsInOrder' /\ IdenticalNotRearchived'
  BY DEF RearchiveInv, RowsInOrder, IdenticalNotRearchived
<1>3. \A i : \A q \in Pollers : LastRowOf(i, q)' <=> LastRowOf(i, q)
  BY DEF LastRowOf
<1>4. ASSUME NEW q \in Pollers, q # p PROVE job'[q] = job[q]
  BY <1>4
<1>5. JobsInOrder'
  <2> SUFFICES ASSUME NEW q \in Pollers
      PROVE /\ job'[q].pc # "idle" =>
                 /\ job'[q].at <= now
                 /\ \A i \in DOMAIN index : index[i].by = q => index[i].at <= job'[q].at
            /\ job'[q].pc \in {"looked", "written"} /\ job'[q].last # None =>
                 \E i \in DOMAIN index : LastRowOf(i, q) /\ index[i].sha = job'[q].last
            /\ job'[q].pc = "written" => job'[q].last # job'[q].sha
    BY <1>3 DEF JobsInOrder
  <2>1. CASE q # p
    BY <2>1 DEF RearchiveInv, JobsInOrder
  <2>2. CASE q = p
    BY <1>1, <2>2 DEF RearchiveInv, JobsInOrder, RowsInOrder
  <2> QED BY <2>1, <2>2
<1> QED
  BY <1>2, <1>5

\* The row RecordRawPoll appends is newer than its poller's others, and, unless
\* the lookup had failed, its hash is not the last one's.
LEMMA RecordInOrder ==
    ASSUME RearchiveInv, NEW p \in Pollers, Ready(p, "written"), now' = now,
           index' = Append(index, NewRow(p)),
           \/ job'[p].pc = "idle"
           \/ job'[p].pc = "recorded" /\ job'[p].at = job[p].at,
           \A q \in Pollers : q # p => job'[q] = job[q]
    PROVE  RowsInOrder' /\ JobsInOrder' /\ IdenticalNotRearchived'
<1> DEFINE n == Len(index) + 1
<1>1. /\ ArchiveTypeOK /\ RowsInOrder /\ JobsInOrder /\ IdenticalNotRearchived
      /\ now \in Nat /\ job[p].at \in Nat
  BY DEF RearchiveInv, ArchiveTypeOK, Jobs
<1>2. /\ Len(index) \in Nat /\ n \in Nat
      /\ DOMAIN index = 1..Len(index) /\ DOMAIN index' = 1..n
      /\ \A i \in DOMAIN index : index'[i] = index[i]
      /\ index'[n] = NewRow(p)
      /\ \A i \in DOMAIN index' : i \in DOMAIN index \/ i = n
      /\ n \notin DOMAIN index
  BY <1>1, IndexGrows
<1>3. /\ NewRow(p).by = p /\ NewRow(p).feed = FeedOf[p] /\ NewRow(p).at = job[p].at
      /\ NewRow(p).sha = job[p].sha /\ NewRow(p).blind = (job[p].last = None)
  BY DEF NewRow
<1>4. /\ job[p].pc = "written" /\ job[p].at <= now /\ job[p].last # job[p].sha
      /\ \A i \in DOMAIN index : index[i].by = p => index[i].at <= job[p].at
      /\ job[p].last # None =>
           \E i \in DOMAIN index : LastRowOf(i, p) /\ index[i].sha = job[p].last
  BY <1>1 DEF Ready, JobsInOrder
<1> HIDE DEF n
<1>5. RowsInOrder'
  <2>1. ASSUME NEW i \in DOMAIN index'
        PROVE  index'[i].feed = FeedOf[index'[i].by] /\ index'[i].at <= now'
    BY <1>1, <1>2, <1>3, <1>4 DEF RowsInOrder
  <2>2. ASSUME NEW i \in DOMAIN index', NEW j \in DOMAIN index',
               i < j, index'[i].by = index'[j].by
        PROVE  index'[i].at <= index'[j].at
    <3>1. i \in DOMAIN index
      BY <1>2, <2>2
    <3>2. CASE j = n
      BY <1>2, <1>3, <1>4, <2>2, <3>1, <3>2
    <3>3. CASE j \in DOMAIN index
      BY <1>1, <1>2, <2>2, <3>1, <3>3 DEF RowsInOrder
    <3> QED BY <1>2, <3>2, <3>3
  <2> QED BY <2>1, <2>2 DEF RowsInOrder
<1>6. JobsInOrder'
  <2> SUFFICES ASSUME NEW q \in Pollers
      PROVE /\ job'[q].pc # "idle" =>
                 /\ job'[q].at <= now
                 /\ \A i \in DOMAIN index' : index'[i].by = q => index'[i].at <= job'[q].at
            /\ job'[q].pc \in {"looked", "written"} /\ job'[q].last # None =>
                 \E i \in DOMAIN index' :
                    /\ index'[i].by = q /\ index'[i].sha = job'[q].last
                    /\ \A j \in DOMAIN index' : index'[j].by = q => j <= i
            /\ job'[q].pc = "written" => job'[q].last # job'[q].sha
    BY DEF JobsInOrder, LastRowOf
  <2>1. CASE q = p
    BY <1>1, <1>2, <1>3, <1>4, <2>1
  <2>2. CASE q # p
    <3>1. /\ job'[q] = job[q]
          /\ \A i \in DOMAIN index' :
               index'[i].by = q => i \in DOMAIN index /\ index'[i] = index[i]
      BY <1>2, <1>3, <2>2
    <3>2. /\ job[q].pc # "idle" =>
               /\ job[q].at <= now
               /\ \A i \in DOMAIN index : index[i].by = q => index[i].at <= job[q].at
          /\ job[q].pc \in {"looked", "written"} /\ job[q].last # None =>
               \E i \in DOMAIN index : LastRowOf(i, q) /\ index[i].sha = job[q].last
          /\ job[q].pc = "written" => job[q].last # job[q].sha
      BY <1>1 DEF JobsInOrder
    <3>3. ASSUME NEW i \in DOMAIN index, LastRowOf(i, q), index[i].sha = job[q].last
          PROVE  /\ i \in DOMAIN index'
                 /\ index'[i].by = q /\ index'[i].sha = job'[q].last
                 /\ \A j \in DOMAIN index' : index'[j].by = q => j <= i
      BY <1>2, <3>1, <3>3 DEF LastRowOf
    <3>4. \A i \in DOMAIN index' : index'[i].by = q /\ job[q].pc # "idle"
                                    => index'[i].at <= job'[q].at
      BY <3>1, <3>2
    <3> QED BY <3>1, <3>2, <3>3, <3>4
  <2> QED BY <2>1, <2>2
<1>7. IdenticalNotRearchived'
  <2> SUFFICES ASSUME NEW i \in DOMAIN index', NEW j \in DOMAIN index',
                      i < j, index'[i].by = index'[j].by,
                      \A k \in (i+1)..(j-1) : index'[k].by # index'[i].by
               PROVE  index'[i].sha # index'[j].sha \/ index'[j].blind
    BY DEF IdenticalNotRearchived
  <2>1. i \in DOMAIN index
    BY <1>2
  <2>2. CASE j \in DOMAIN index
    <3>1. \A k \in (i+1)..(j-1) : k \in DOMAIN index /\ index'[k] = index[k]
      BY <1>2, <2>1, <2>2
    <3> QED BY <1>1, <1>2, <2>1, <2>2, <3>1 DEF IdenticalNotRearchived
  <2>3. CASE j = n
    <3>1. \A k \in DOMAIN index : index[k].by = p => k <= i
      BY <1>2, <1>3, <2>1, <2>3
    <3>2. ASSUME job[p].last # None PROVE index[i].sha = job[p].last
      <4>1. PICK k \in DOMAIN index : LastRowOf(k, p) /\ index[k].sha = job[p].last
        BY <1>4, <3>2
      <4>2. k = i
        BY <1>2, <1>3, <2>1, <2>3, <3>1, <4>1 DEF LastRowOf
      <4> QED BY <4>1, <4>2
    <3> QED BY <1>2, <1>3, <1>4, <2>1, <2>3, <3>2
  <2> QED BY <1>2, <2>2, <2>3
<1> QED
  BY <1>5, <1>6, <1>7

LEMMA RearchiveNext ==
    ASSUME OneUrlPerFeed, RearchiveInv, [Next]_vars
    PROVE  RearchiveInv'
<1>0. ArchiveTypeOK /\ RowsInOrder /\ JobsInOrder /\ now \in Nat
  BY DEF RearchiveInv, ArchiveTypeOK
<1>k. SUFFICES RowsInOrder' /\ JobsInOrder' /\ IdenticalNotRearchived'
  BY <1>0, ArchiveTypesNext DEF RearchiveInv
<1>g. SUFFICES ASSUME ~(RowsInOrder' /\ JobsInOrder' /\ IdenticalNotRearchived') PROVE FALSE
  OBVIOUS
<1>1. ASSUME NEW p \in Pollers, Start(p) PROVE FALSE
  <2>1. /\ now' = now /\ index' = index
        /\ job'[p].at = now /\ job'[p].pc = "fetching"
        /\ \A q \in Pollers : q # p => job'[q] = job[q]
    BY <1>0, <1>1, PollStarts DEF Start
  <2> QED BY <1>g, <2>1, JobInOrderStep
<1>2. ASSUME NEW p \in Pollers, NEW sha \in Responses, Fetch(p, sha) PROVE FALSE
  <2>1. /\ now' = now /\ index' = index
        /\ job[p].pc # "idle" /\ job'[p].at = job[p].at /\ job'[p].pc = "fetched"
        /\ \A q \in Pollers : q # p => job'[q] = job[q]
    BY <1>0, <1>2, PollFetched DEF Fetch, Ready, Hashes
  <2> QED BY <1>g, <2>1, JobInOrderStep
<1>3. ASSUME NEW p \in Pollers, LookUp(p) PROVE FALSE
  <2>1. PICK last \in {LastSHA(FeedOf[p]), None} :
          job' = [job EXCEPT ![p].pc = "looked", ![p].last = last]
    BY <1>3 DEF LookUp
  <2>2. last \in Hashes
    BY <1>0, LastSHAType DEF ArchiveTypeOK, Hashes
  <2>3. /\ now' = now /\ index' = index
        /\ job[p].pc # "idle" /\ job'[p].at = job[p].at /\ job'[p].pc = "looked"
        /\ job'[p].last = last /\ \A q \in Pollers : q # p => job'[q] = job[q]
    BY <1>0, <1>3, <2>1, <2>2, PollLooked DEF LookUp, Ready
  <2>4. last # None => \E i \in DOMAIN index : LastRowOf(i, p) /\ index[i].sha = last
    BY <1>0, <2>1, LookedUpIsLast
  <2> QED BY <1>g, <2>3, <2>4, JobInOrderStep
<1>4. ASSUME NEW p \in Pollers, Ends(p), now' = now, index' = index PROVE FALSE
  <2>1. job'[p].pc = "idle" /\ \A q \in Pollers : q # p => job'[q] = job[q]
    BY <1>0, <1>4, PollEnds
  <2> QED BY <1>g, <1>4, <2>1, JobInOrderStep
<1>5. ASSUME NEW p \in Pollers, WriteBlob(p) PROVE FALSE
  <2>1. /\ now' = now /\ index' = index
        /\ job[p].pc = "looked" /\ job'[p].at = job[p].at /\ job'[p].pc = "written"
        /\ job[p].last # job[p].sha
        /\ job'[p].last = job[p].last /\ job'[p].sha = job[p].sha
        /\ \A q \in Pollers : q # p => job'[q] = job[q]
    BY <1>0, <1>5, PollGoes DEF WriteBlob, Ready, PollPCs
  <2>2. job[p].last # None =>
          \E i \in DOMAIN index : LastRowOf(i, p) /\ index[i].sha = job[p].last
    BY <1>0, <2>1 DEF JobsInOrder
  <2> QED BY <1>g, <2>1, <2>2, JobInOrderStep
<1>6. ASSUME NEW p \in Pollers, Record(p) \/ RecordUnacknowledged(p) PROVE FALSE
  <2>1. /\ Ready(p, "written") /\ now' = now /\ index' = Append(index, NewRow(p))
        /\ Goes(p, "recorded") \/ Ends(p)
    BY <1>6 DEF Record, RecordUnacknowledged, NewRow
  <2>2. /\ \/ job'[p].pc = "idle"
           \/ job'[p].pc = "recorded" /\ job'[p].at = job[p].at
        /\ \A q \in Pollers : q # p => job'[q] = job[q]
    BY <1>0, <2>1, PollEnds, PollGoes DEF PollPCs
  <2> QED BY <1>g, <2>1, <2>2, RecordInOrder
<1>7. CASE Restart
  <2>1. index' = index /\ now' = now /\ \A p \in Pollers : job'[p].pc = "idle"
    BY <1>7 DEF Restart, IdlePoll
  <2> QED BY <1>g, <2>1 DEF RearchiveInv, RowsInOrder, JobsInOrder, IdenticalNotRearchived
<1>8. CASE index' = index /\ job' = job /\ (now' = now \/ now' = now + 1)
  <2>1. \A i \in DOMAIN index : index[i].at \in Nat
    <3>1. \A i \in DOMAIN index : index[i] \in Rows
      BY <1>0 DEF ArchiveTypeOK
    <3> QED BY <3>1 DEF Rows
  <2>2. \A p \in Pollers : job[p].at \in Nat
    BY <1>0 DEF ArchiveTypeOK, Jobs
  <2>3. RowsInOrder'
    BY <1>0, <1>8, <2>1 DEF RowsInOrder
  <2>4. JobsInOrder'
    BY <1>0, <1>8, <2>2 DEF JobsInOrder, LastRowOf
  <2>5. IdenticalNotRearchived'
    BY <1>8 DEF RearchiveInv, IdenticalNotRearchived
  <2> QED BY <1>g, <2>3, <2>4, <2>5
<1>9. \/ Restart
      \/ index' = index /\ job' = job /\ (now' = now \/ now' = now + 1)
      \/ \E p \in Pollers :
           \/ Start(p) \/ LookUp(p) \/ WriteBlob(p) \/ Record(p) \/ RecordUnacknowledged(p)
           \/ \E sha \in Responses : Fetch(p, sha)
           \/ Ends(p) /\ now' = now /\ index' = index
  BY DEF Next, vars, Unchanged, Deliver, Fails, Prune, Discover, SkipBlob, ReplayBlob,
         ReplayReturns, ReplayEnds, Tick
<1> QED
  BY <1>1, <1>2, <1>3, <1>4, <1>5, <1>6, <1>7, <1>8, <1>9

\* Identical responses are not archived again (LastSHA, interfaces.go:41) when a
\* feed has one URL: however polls fail, are cut short or are taken in one
\* second, two rows in a row of one URL differ unless the lookup had failed.
THEOREM IdenticalResponsesAreArchivedOnce ==
    OneUrlPerFeed /\ Spec => []IdenticalNotRearchived
<1>1. Init => RearchiveInv
  <2> SUFFICES ASSUME Init PROVE RearchiveInv
    OBVIOUS
  <2>1. DOMAIN index = {} /\ \A p \in Pollers : job[p].pc = "idle"
    BY DEF Init, IdlePoll
  <2> QED BY <2>1, ArchiveTypesInit DEF RearchiveInv, RowsInOrder, JobsInOrder,
                                        IdenticalNotRearchived
<1>2. OneUrlPerFeed /\ RearchiveInv /\ [Next]_vars => OneUrlPerFeed' /\ RearchiveInv'
  BY RearchiveNext DEF OneUrlPerFeed
<1>3. RearchiveInv => IdenticalNotRearchived
  BY DEF RearchiveInv
<1> QED
  BY <1>1, <1>2, <1>3, PTL DEF Spec
=============================================================================
