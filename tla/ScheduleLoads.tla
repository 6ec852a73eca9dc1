---------------------------- MODULE ScheduleLoads ----------------------------
(***************************************************************************)
(* Loading a static schedule (internal/store/scheduleload.go, driven by    *)
(* loadStatic of cmd/ridewatch/main.go).  The serving process loads at its *)
(* first boot and every few hours; `ridewatch load-static` loads from a    *)
(* process of its own, so loads may overlap, and any of them may die.      *)
(*                                                                         *)
(* schedule_versions, its constraints and the gtfs tables are Postgres's   *)
(* under READ COMMITTED: statements of the pool commit by themselves,      *)
(* those of the load's transaction show when it commits and lock the rows  *)
(* they touch until then.  A zip is read in one step: what it copies shows *)
(* to nobody before the commit, and what it locks it locks from the start. *)
(***************************************************************************)
EXTENDS GtfsZip, Functions

CONSTANTS
    Loaders,       \* processes that may run loadStatic
    Shas,          \* identities of what an agency may publish
    Zips,          \* sha -> the zips it is the hash of, in STATIC_GTFS_URL order
    Batch,         \* copyBatchSize
    VersionIds,    \* ids of schedule_versions, used again once nobody knows them
    MayRevert,     \* whether the agency may publish an earlier schedule again
    LosesAnswers,  \* whether a commit may succeed without the client knowing
    MaxFailures    \* bound: crashes, errors and lost answers in one behaviour

ASSUME LoadsAssumption ==
    /\ MayRevert \in BOOLEAN /\ LosesAnswers \in BOOLEAN
    /\ MaxFailures \in Nat /\ Batch \in Nat \ {0} /\ VersionIds \subseteq Nat \ {0}

\* What ParseZip hands over of the k-th zip of each schedule, if it can read it.
Readable == [sha \in Shas |-> {k \in 1..Len(Zips[sha]) : Reads(Zips[sha][k])}]

ZipRows ==
    [sha \in Shas |-> [k \in Readable[sha] |-> [t \in Tables |-> Rows(Zips[sha][k], t)]]]

\* Whatever is published has a zip, and a zip that can be read has a row.
ASSUME ZipsAssumption ==
    \A sha \in Shas :
        /\ Len(Zips[sha]) \in Nat \ {0}
        /\ \A k \in Readable[sha] :
             /\ \A t \in Tables : ZipRows[sha][k][t] \in Seq(Range(ZipRows[sha][k][t]))
             /\ \E t \in Tables : ZipRows[sha][k][t] # << >>

\* Rows reach columns of their header, and what is no number, time or date is
\* where one is asked for.
ASSUME LinesAssumption ==
    /\ Malformed \notin {"", "0", "-1"}
    /\ \A sha \in Shas :
         /\ DOMAIN Zips[sha] = 1..Len(Zips[sha])
         /\ \A k \in Readable[sha], t \in Tables :
              Has(Zips[sha][k], t) =>
                LET file == Member(Zips[sha][k], t)
                IN  \A i \in DOMAIN file.rows :
                      /\ DOMAIN file.rows[i] \subseteq file.cols
                      /\ \A col \in Texts[t] : Cell(file, file.rows[i], col) # Malformed

VARIABLES
    versions,   \* the tables as committed: id -> [sha, tz, loaded, active, rows]
    load,       \* what each process is doing
    published,  \* what the agency serves at STATIC_GTFS_URL
    past,       \* what it has ever served
    failures    \* spent of MaxFailures

vars == <<versions, load, published, past, failures>>

\* id: the version being loaded, 0 for none; found: a leftover row to delete;
\* zip: how many zips have been read; tz, copied, buffer: what the transaction
\* has been given, and what waits for a full batch; saw: the active rows its
\* UPDATE means to deactivate.
Idle ==
    [pc |-> "idle", sha |-> "", id |-> 0, found |-> 0, zip |-> 0, tz |-> "",
     copied |-> {}, buffer |-> [t \in Tables |-> << >>], saw |-> {}]

-----------------------------------------------------------------------------
(* The table.                                                              *)

Ids == DOMAIN versions
Active(table) == {i \in DOMAIN table : table[i].active}
OfSha(sha) == {i \in Ids : versions[i].sha = sha}

Without(table, i) == [j \in DOMAIN table \ {i} |-> table[j]]

\* Ids that are in the table or in some process's hands.  (GENERATED ALWAYS AS
\* IDENTITY counts on for ever; an id nobody knows of is as good as a new one.)
Known == Ids \cup UNION {{load[l].id, load[l].found} \cup load[l].saw : l \in Loaders}

Fresh(known) ==
    CHOOSE i \in VersionIds \ known : \A j \in VersionIds \ known : i <= j

\* Rows a load's transaction has locked: its own from Meta on, if it is there,
\* and, once it has deactivated them, the formerly active ones.
InTransaction == {"parsing", "filled", "stamped", "deactivating", "deactivated", "activated"}

LockedBy(l) ==
    (IF load[l].pc \in InTransaction THEN {load[l].id} \cap Ids ELSE {})
    \cup (IF load[l].pc \in {"deactivated", "activated"} THEN load[l].saw ELSE {})

LockedByOthers(l) == UNION {LockedBy(m) : m \in Loaders \ {l}}

\* The table as the load's commit leaves it.
Committed(l) ==
    [i \in Ids |->
        IF i = load[l].id
        THEN [versions[i] EXCEPT !.loaded = TRUE, !.active = TRUE,
                                 !.tz = load[l].tz, !.rows = load[l].copied]
        ELSE IF i \in load[l].saw THEN [versions[i] EXCEPT !.active = FALSE]
        ELSE versions[i]]

\* COPY accepts a batch: its version is there (foreign key) and no key is there
\* twice (primary key).
Takes(l, batch) ==
    /\ batch # << >> => load[l].id \in Ids
    /\ \A i, j \in DOMAIN batch : Key(batch[i]) = Key(batch[j]) => i = j
    /\ \A i \in DOMAIN batch, row \in load[l].copied : Key(batch[i]) # Key(row)

Goes(l, pc) == load' = [load EXCEPT ![l].pc = pc]

\* Abort begins with Rollback, which forgets all but the id.
Aborts(l) == load' = [load EXCEPT ![l] = [Idle EXCEPT !.pc = "aborting", !.id = load[l].id]]

-----------------------------------------------------------------------------

Init ==
    /\ versions = << >>
    /\ load = [l \in Loaders |-> Idle]
    /\ published \in Shas
    /\ past = {published}
    /\ failures = 0

\* The agency publishes another schedule.
Publish(sha) ==
    /\ sha # published
    /\ MayRevert \/ sha \notin past
    /\ published' = sha
    /\ past' = past \cup {sha}
    /\ UNCHANGED <<versions, load, failures>>

\* Download, then the SELECT of NewScheduleLoad.  A version already loaded is
\* ErrVersionExists, which loadStatic counts as unchanged; a row that is not
\* loaded is taken for the trace of a crashed load.
LookUp(l) ==
    /\ load[l] = Idle
    /\ \A i \in OfSha(published) : ~versions[i].loaded
    /\ \E found \in IF OfSha(published) = {} THEN {0} ELSE OfSha(published) :
         load' = [load EXCEPT ![l] =
                    [Idle EXCEPT !.pc = IF found = 0 THEN "inserting" ELSE "deleting",
                                 !.sha = published, !.found = found]]
    /\ UNCHANGED <<versions, published, past, failures>>

LeavesLeftover(l) ==                                 \* variant: no retry of a crashed load
    /\ load[l].pc = "deleting"
    /\ Goes(l, "inserting")
    /\ UNCHANGED <<versions, published, past, failures>>

DeletesWithoutWaiting(l) ==                          \* variant: no row lock
    /\ load[l].pc = "deleting"
    /\ versions' = Without(versions, load[l].found)
    /\ load' = [load EXCEPT ![l].pc = "inserting", ![l].found = 0]
    /\ UNCHANGED <<published, past, failures>>

\* DELETE of that row, by id; it waits for a transaction that has locked it and
\* then deletes whatever that transaction made of it.
DeleteLeftover(l) ==
    /\ load[l].pc = "deleting"
    /\ load[l].found \notin LockedByOthers(l)
    /\ versions' = Without(versions, load[l].found)
    /\ load' = [load EXCEPT ![l].pc = "inserting", ![l].found = 0]
    /\ UNCHANGED <<published, past, failures>>

InsertsRow(l, id) ==
    /\ id \in VersionIds \ Known
    /\ versions' = [i \in Ids \cup {id} |->
                      IF i = id
                      THEN [sha |-> load[l].sha, tz |-> "", loaded |-> FALSE,
                            active |-> FALSE, rows |-> {}]
                      ELSE versions[i]]
    /\ load' = [load EXCEPT ![l].pc = "begun", ![l].id = id]
    /\ UNCHANGED <<published, past, failures>>

InsertTwin(l, id) ==                                 \* variant: sha256 is not UNIQUE
    /\ load[l].pc = "inserting"
    /\ InsertsRow(l, id)

\* INSERT of the version row, which commits by itself, and Begin.
Insert(l, id) ==
    /\ load[l].pc = "inserting"
    /\ OfSha(load[l].sha) = {}
    /\ InsertsRow(l, id)

\* sha256 is UNIQUE: another load has inserted its row meanwhile.
InsertRefused(l) ==
    /\ load[l].pc = "inserting"
    /\ OfSha(load[l].sha) # {}
    /\ load' = [load EXCEPT ![l] = Idle]
    /\ UNCHANGED <<versions, published, past, failures>>

\* The next zip, as ParseZip streams it: rows join their table's buffer, and
\* what fills a batch is copied.
NextZip(l) == load[l].zip + 1
Queue(l, t) == load[l].buffer[t] \o ZipRows[load[l].sha][NextZip(l)][t]

FullBatches(queue) == Len(queue) - (Len(queue) % Batch)

Sent(l, t) == SubSeq(Queue(l, t), 1, FullBatches(Queue(l, t)))
Left(l, t) == SubSeq(Queue(l, t), FullBatches(Queue(l, t)) + 1, Len(Queue(l, t)))

MoreZips(l) ==
    /\ load[l].pc \in {"begun", "parsing"}
    /\ load[l].zip < Len(Zips[load[l].sha])

\* ParseZip: Meta, then table after table.  (Meta updates nothing, without an
\* error, when the row is gone.)
ParseZip(l) ==
    /\ MoreZips(l)
    /\ NextZip(l) \in Readable[load[l].sha]
    /\ \A t \in Tables : Takes(l, Sent(l, t))
    /\ load' = [load EXCEPT ![l].pc = "parsing",
                            ![l].zip = @ + 1,
                            ![l].tz = AgencyTZ(Zips[load[l].sha][NextZip(l)]),
                            ![l].copied = @ \cup UNION {Range(Sent(l, t)) : t \in Tables},
                            ![l].buffer = [t \in Tables |-> Left(l, t)]]
    /\ UNCHANGED <<versions, published, past, failures>>

\* ParseZip or a COPY in it returns an error, and loadStatic calls Abort.
ParseRefused(l) ==
    /\ MoreZips(l)
    /\ ~(NextZip(l) \in Readable[load[l].sha] /\ \A t \in Tables : Takes(l, Sent(l, t)))
    /\ Aborts(l)
    /\ UNCHANGED <<versions, published, past, failures>>

AllRead(l) == load[l].pc = "parsing" /\ load[l].zip = Len(Zips[load[l].sha])

Flushable(l) == \A t \in Tables : Takes(l, load[l].buffer[t])

FlushNothing(l) ==                                   \* variant: Commit without its flush
    /\ AllRead(l)
    /\ Goes(l, "filled")
    /\ UNCHANGED <<versions, published, past, failures>>

\* Commit: what is left in the buffers is copied.
Flush(l) ==
    /\ AllRead(l)
    /\ Flushable(l)
    /\ load' = [load EXCEPT ![l].pc = "filled",
                            ![l].copied = @ \cup UNION {Range(load[l].buffer[t]) : t \in Tables},
                            ![l].buffer = [t \in Tables |-> << >>]]
    /\ UNCHANGED <<versions, published, past, failures>>

FlushRefused(l) ==
    /\ AllRead(l)
    /\ ~Flushable(l)
    /\ Aborts(l)
    /\ UNCHANGED <<versions, published, past, failures>>

\* Commit: UPDATE ... SET loaded_at.
Stamp(l) ==
    /\ load[l].pc = "filled"
    /\ Goes(l, "stamped")
    /\ UNCHANGED <<versions, published, past, failures>>

\* Commit: UPDATE ... SET active = false WHERE active.  It picks the rows that
\* are active now and then waits for the transactions that have locked them.
SeeActive(l) ==
    /\ load[l].pc = "stamped"
    /\ load' = [load EXCEPT ![l].pc = "deactivating", ![l].saw = Active(versions)]
    /\ UNCHANGED <<versions, published, past, failures>>

DeactivateAtOnce(l) ==                               \* variant: outside the transaction
    /\ load[l].pc = "deactivating"
    /\ load[l].saw \cap LockedByOthers(l) = {}
    /\ versions' = [i \in Ids |-> IF i \in load[l].saw
                                  THEN [versions[i] EXCEPT !.active = FALSE]
                                  ELSE versions[i]]
    /\ Goes(l, "deactivated")
    /\ UNCHANGED <<published, past, failures>>

\* Once they are free it looks again at those rows, and at no others.
Deactivate(l) ==
    /\ load[l].pc = "deactivating"
    /\ load[l].saw \cap LockedByOthers(l) = {}
    /\ load' = [load EXCEPT ![l].pc = "deactivated",
                            ![l].saw = @ \cap Active(versions)]
    /\ UNCHANGED <<versions, published, past, failures>>

\* schedule_versions_one_active: an entry of another transaction is waited
\* for, a committed one that is not deactivated here refuses the UPDATE.
EntryHeldByOther(l) == \E m \in Loaders \ {l} : load[m].pc = "activated"

ActivateUnindexed(l) ==                              \* variant: no unique index
    /\ load[l].pc = "deactivated"
    /\ Goes(l, "activated")
    /\ UNCHANGED <<versions, published, past, failures>>

\* Commit: UPDATE ... SET active = true.
Activate(l) ==
    /\ load[l].pc = "deactivated"
    /\ ~EntryHeldByOther(l)
    /\ Active(versions) \subseteq load[l].saw
    /\ Goes(l, "activated")
    /\ UNCHANGED <<versions, published, past, failures>>

ActivateRefused(l) ==
    /\ load[l].pc = "deactivated"
    /\ ~EntryHeldByOther(l)
    /\ ~(Active(versions) \subseteq load[l].saw)
    /\ Aborts(l)
    /\ UNCHANGED <<versions, published, past, failures>>

\* Commit: the transaction commits.
Commit(l) ==
    /\ load[l].pc = "activated"
    /\ versions' = Committed(l)
    /\ load' = [load EXCEPT ![l] = Idle]
    /\ UNCHANGED <<published, past, failures>>

\* Abort, after its Rollback: DELETE of the version row by id.
Abort(l) ==
    /\ load[l].pc = "aborting"
    /\ load[l].id \notin LockedByOthers(l)
    /\ versions' = Without(versions, load[l].id)
    /\ load' = [load EXCEPT ![l] = Idle]
    /\ UNCHANGED <<published, past, failures>>

-----------------------------------------------------------------------------
(* Failures, MaxFailures of them.                                          *)

MayFail == failures < MaxFailures /\ failures' = failures + 1

\* The commit has happened but its answer is lost; loadStatic calls Abort.
CommitUnacknowledged(l) ==
    /\ LosesAnswers /\ MayFail
    /\ load[l].pc = "activated"
    /\ versions' = Committed(l)
    /\ Aborts(l)
    /\ UNCHANGED <<published, past>>

\* A statement of the transaction fails, or ParseZip rejects the zip.
Fails(l) ==
    /\ MayFail
    /\ load[l].pc \in {"begun"} \cup InTransaction
    /\ Aborts(l)
    /\ UNCHANGED <<versions, published, past>>

\* The process dies, or a statement of the pool fails: the transaction, if
\* any, is rolled back and what was committed stays.
Dies(l) ==
    /\ MayFail
    /\ load[l] # Idle
    /\ load' = [load EXCEPT ![l] = Idle]
    /\ UNCHANGED <<versions, published, past>>

-----------------------------------------------------------------------------

\* A step of a load that nothing goes wrong in; id is the next of the sequence.
Proceeds(l, id) ==
    \/ DeleteLeftover(l)
    \/ Insert(l, id)
    \/ InsertRefused(l)
    \/ ParseZip(l)
    \/ ParseRefused(l)
    \/ Flush(l)
    \/ FlushRefused(l)
    \/ Stamp(l)
    \/ SeeActive(l)
    \/ Deactivate(l)
    \/ Activate(l)
    \/ ActivateRefused(l)
    \/ Commit(l)
    \/ Abort(l)

Next ==
    \/ \E sha \in Shas : Publish(sha)
    \/ \E l \in Loaders :
         \/ LookUp(l)
         \/ Proceeds(l, Fresh(Known))
         \/ CommitUnacknowledged(l)
         \/ Fails(l)
         \/ Dies(l)

Spec == Init /\ [][Next]_vars

\* The refresh ticker fires for ever, and a load that does not fail proceeds.
Fairness == \A l \in Loaders : WF_vars(LookUp(l)) /\ WF_vars(Proceeds(l, Fresh(Known)))

FairSpec == Spec /\ Fairness

-----------------------------------------------------------------------------

Pcs == {"idle", "deleting", "inserting", "begun", "aborting"} \cup InTransaction

AllRows ==
    UNION {UNION {Range(ZipRows[sha][k][t]) : k \in Readable[sha], t \in Tables} : sha \in Shas}

TimeZones ==
    {""} \cup UNION {{AgencyTZ(Zips[sha][k]) : k \in Readable[sha]} : sha \in Shas}

TypeOK ==
    /\ Ids \subseteq VersionIds
    /\ \A i \in Ids : versions[i] \in [sha: Shas, tz: TimeZones, loaded: BOOLEAN, active: BOOLEAN,
                                    rows: SUBSET AllRows]
    /\ load \in [Loaders -> [pc: Pcs, sha: Shas \cup {""}, id: {0} \cup VersionIds,
                             found: {0} \cup VersionIds, zip: Nat, tz: TimeZones,
                             copied: SUBSET AllRows, buffer: [Tables -> Seq(AllRows)],
                             saw: SUBSET VersionIds]]
    /\ published \in Shas /\ past \subseteq Shas
    /\ failures \in 0..MaxFailures

\* All rows of the first k zips of a schedule.
Contents(sha, k) == UNION {Range(ZipRows[sha][j][t]) : j \in 1..k, t \in Tables}

Whole(sha) == Contents(sha, Len(Zips[sha]))

\* What readers take for the schedule is one version, and has every row of
\* every zip: buffering, batches and commit lose nothing of it, and nothing of
\* a load that was refused, died or overlapped with another is ever active.
ActiveIsWhole ==
    /\ \A i, j \in Active(versions) : i = j
    /\ \A i \in Active(versions) : /\ versions[i].loaded
                                   /\ versions[i].rows = Whole(versions[i].sha)

\* One line that cannot be read keeps all of its version from being active:
\* what is active has no cell that could not be read, and every line of every
\* file of its zips, with each cell that says something.
EveryLineIsLoaded ==
    \A i \in Active(versions) :
        /\ \A row \in versions[i].rows : Malformed \notin Range(row.cells)
        /\ \A k \in DOMAIN Zips[versions[i].sha], t \in Tables :
             LET zip == Zips[versions[i].sha][k]
             IN  Has(zip, t) => \A line \in Range(Member(zip, t).rows) :
                   \E row \in versions[i].rows :
                      /\ row.table = t
                      /\ \A col \in DOMAIN line \cap DOMAIN row.cells :
                            line[col] \in {"", row.cells[col]}

\* A load that has copied rows commits them: nobody takes the version away
\* from under the open transaction.
OpenLoadsKeepTheirRow ==
    \A l \in Loaders :
        load[l].pc \in InTransaction /\ load[l].copied # {}
        => load[l].id \in Ids /\ ~versions[load[l].id].loaded

\* README: "Each publish is snapshotted as an immutable version": a sha names
\* one version as long as it is there, and what is loaded stays as it is.
VersionsAreImmutable ==
    [][/\ \A i \in Ids \cap Ids' :
            /\ versions'[i].sha = versions[i].sha
            /\ versions[i].loaded => versions'[i] = [versions[i] EXCEPT !.active = versions'[i].active]
       /\ \A i, j \in Ids' : versions'[i].sha = versions'[j].sha => i = j]_vars

\* Readers that found a schedule go on finding one: Commit "atomically moves
\* the active flag to this version".
ScheduleStays == [][Active(versions) # {} => Active(versions') # {}]_vars

\* Schedules a load can make something of: zips that read well and share no key.
Loadable ==
    {sha \in Shas :
        /\ Readable[sha] = 1..Len(Zips[sha])
        /\ \A j, k \in Readable[sha], t \in Tables :
             \A m \in DOMAIN ZipRows[sha][j][t], n \in DOMAIN ZipRows[sha][k][t] :
                Key(ZipRows[sha][j][t][m]) = Key(ZipRows[sha][k][t][n]) => j = k /\ m = n}

\* The schedule an agency that does not revert settles on becomes the active
\* one, if it can be loaded: a load that died half way, or a zip that could not
\* be read, stands in nobody's way.  (A schedule that was loaded and replaced
\* before would count as unchanged.)
AgencyIsFollowed ==
    <>[](published \in Loadable => \E i \in Active(versions) : versions[i].sha = published)
=============================================================================
