----------------------------- MODULE RawArchive -----------------------------
(***************************************************************************)
(* Polling a feed and keeping what it said (internal/ingest/ingest.go,     *)
(* replay.go; internal/store/rawarchive.go).  Each poller fetches, asks    *)
(* for the last hash archived for its feed, and unless the bytes are the   *)
(* same writes the blob, indexes it and hands the snapshot to the engine.  *)
(* Pollers of the same feed, a replay and the nightly pruning move between *)
(* these steps, any of which may fail, and the process may die.            *)
(*                                                                         *)
(* A response is its hash.  The clock counts seconds, as file names do.    *)
(***************************************************************************)
EXTENDS Naturals, Sequences, FiniteSetsExt

CONSTANTS
    Pollers,      \* one per URL
    FeedOf,       \* FeedOf[p]: the feed the URL is configured for
    Responses,    \* what a URL may serve
    Undecodable,  \* those DecodeFeed rejects
    Retention,    \* RAW_RETENTION_DAYS, in clock units
    Ranges,       \* [from, to] a replay may be asked for
    PollTime,     \* the longest a poll takes: seconds, where retention is days
    None,         \* no hash: LastSHA's "" and a failed lookup
    MaxTime,      \* bound: the clock stops here
    MaxRows       \* bound: no poll starts once the index has so many rows

ASSUME ArchiveAssumption ==
    /\ Undecodable \subseteq Responses
    /\ None \notin Responses
    /\ Retention \in Nat /\ PollTime \in 0..Retention
    /\ MaxTime \in Nat /\ MaxRows \in Nat

VARIABLES
    now,        \* the clock
    index,      \* raw_polls in the order of their ids
    files,      \* the blobs on disk: feed, second of the poll, hash
    job,        \* what each poller has in hand
    delivered,  \* history: the blobs whose snapshots the engine took from a poller
    replay      \* `ridewatch replay`: blobs discovered, still to do, delivered

vars == <<now, index, files, job, delivered, replay>>

IdlePoll == [pc |-> "idle", at |-> 0, sha |-> None, last |-> None]
NoReplay == [pc |-> "idle", found |-> {}, todo |-> {}, done |-> {}]

-----------------------------------------------------------------------------
(* The index and the archive.                                              *)

\* LastSHA: the hash of the newest row of the feed, by poll time, then id.
LastSHA(feed) ==
    LET ofFeed == {i \in DOMAIN index : index[i].feed = feed}
        newest == {i \in ofFeed : \A j \in ofFeed : index[j].at <= index[i].at}
    IN  IF ofFeed = {} THEN None ELSE index[Max(newest)].sha

\* blobPath: of the poll a job is about.
Blob(p) == [feed |-> FeedOf[p], at |-> job[p].at, sha |-> job[p].sha]

\* PruneArchive with the cutoff of the moment.
Prunable(at) == at + Retention < now

Ready(p, pc) == job[p].pc = pc
Goes(p, pc) == job' = [job EXCEPT ![p].pc = pc]
Ends(p) == job' = [job EXCEPT ![p] = IdlePoll]

-----------------------------------------------------------------------------

Init ==
    /\ now = 0
    /\ index = << >>
    /\ files = {}
    /\ job = [p \in Pollers |-> IdlePoll]
    /\ delivered = {}
    /\ replay = NoReplay

\* pollOnce takes the time of the poll and sends the request.
Start(p) ==
    /\ Ready(p, "idle")
    /\ Len(index) < MaxRows
    /\ job' = [job EXCEPT ![p].pc = "fetching", ![p].at = now]
    /\ UNCHANGED <<now, index, files, delivered, replay>>

\* The response arrives, whole.
Fetch(p, sha) ==
    /\ Ready(p, "fetching")
    /\ job' = [job EXCEPT ![p].pc = "fetched", ![p].sha = sha]
    /\ UNCHANGED <<now, index, files, delivered, replay>>

\* LastSHA; when the lookup fails the poll goes on as if there were no blob.
LookUp(p) ==
    /\ Ready(p, "fetched")
    /\ \E last \in {LastSHA(FeedOf[p]), None} :
         job' = [job EXCEPT ![p].pc = "looked", ![p].last = last]
    /\ UNCHANGED <<now, index, files, delivered, replay>>

\* Byte-identical to the last blob: nothing to archive.
Unchanged(p) ==
    /\ Ready(p, "looked")
    /\ job[p].last = job[p].sha
    /\ Ends(p)
    /\ UNCHANGED <<now, index, files, delivered, replay>>

FailedWriteIgnored(p) ==                             \* variant: goes on without a blob
    /\ Ready(p, "looked")
    /\ Goes(p, "written")
    /\ UNCHANGED <<now, index, files, delivered, replay>>

WritesEvenUnchanged(p) ==                            \* variant: hash not compared
    /\ Ready(p, "looked")
    /\ files' = files \cup {Blob(p)}
    /\ Goes(p, "written")
    /\ UNCHANGED <<now, index, delivered, replay>>

\* writeBlob: a temporary file, renamed.
WriteBlob(p) ==
    /\ Ready(p, "looked")
    /\ job[p].last # job[p].sha
    /\ files' = files \cup {Blob(p)}
    /\ Goes(p, "written")
    /\ UNCHANGED <<now, index, delivered, replay>>

\* RecordRawPoll.  A blob that does not decode is indexed too, and ends the
\* poll.  blind tells, for the properties, that LastSHA had nothing to say.
Record(p) ==
    /\ Ready(p, "written")
    /\ index' = Append(index, [by |-> p, feed |-> FeedOf[p], at |-> job[p].at,
                               sha |-> job[p].sha, blind |-> job[p].last = None])
    /\ IF job[p].sha \in Undecodable THEN Ends(p) ELSE Goes(p, "recorded")
    /\ UNCHANGED <<now, files, delivered, replay>>

\* The row commits, the answer does not arrive, and the poll ends.
RecordUnacknowledged(p) ==
    /\ Ready(p, "written")
    /\ index' = Append(index, [by |-> p, feed |-> FeedOf[p], at |-> job[p].at,
                               sha |-> job[p].sha, blind |-> job[p].last = None])
    /\ Ends(p)
    /\ UNCHANGED <<now, files, delivered, replay>>

\* The sink takes the snapshot.
Deliver(p) ==
    /\ Ready(p, "recorded")
    /\ delivered' = delivered \cup {Blob(p)}
    /\ Ends(p)
    /\ UNCHANGED <<now, index, files, replay>>

\* Fetching, writing, indexing or delivering fails: the poll ends there.
Fails(p) ==
    /\ job[p].pc \in {"fetching", "looked", "written", "recorded"}
    /\ Ends(p)
    /\ UNCHANGED <<now, index, files, delivered, replay>>

\* The serving process dies and starts again.
Restart ==
    /\ job' = [p \in Pollers |-> IdlePoll]
    /\ UNCHANGED <<now, index, files, delivered, replay>>

\* PruneArchive, file by file; it may stop at any of them.
Prune(f) ==
    /\ f \in files
    /\ Prunable(f.at)
    /\ files' = files \ {f}
    /\ UNCHANGED <<now, index, job, delivered, replay>>

-----------------------------------------------------------------------------
(* Replay.                                                                 *)

\* discoverBlobs, and the range asked for.
Discover(from, to) ==
    /\ replay.pc = "idle"
    /\ LET range == {f \in files : from <= f.at /\ f.at <= to}
       IN  replay' = [pc |-> "running", found |-> range, todo |-> range, done |-> {}]
    /\ UNCHANGED <<now, index, files, job, delivered>>

\* The blobs that may be next: the oldest.
Oldest(todo) == {f \in todo : \A g \in todo : f.at <= g.at}

StopsAtBadBlob(f) ==                                 \* variant: an error ends the replay
    /\ replay.pc = "running"
    /\ f \in Oldest(replay.todo)
    /\ f \notin files \/ f.sha \in Undecodable
    /\ replay' = [replay EXCEPT !.todo = {}]
    /\ UNCHANGED <<now, index, files, job, delivered>>

\* A blob that has gone or does not decode is counted and skipped.
SkipBlob(f) ==
    /\ replay.pc = "running"
    /\ f \in Oldest(replay.todo)
    /\ f \notin files \/ f.sha \in Undecodable
    /\ replay' = [replay EXCEPT !.todo = @ \ {f}]
    /\ UNCHANGED <<now, index, files, job, delivered>>

ReplayBlob(f) ==
    /\ replay.pc = "running"
    /\ f \in Oldest(replay.todo)
    /\ f \in files /\ f.sha \notin Undecodable
    /\ replay' = [replay EXCEPT !.todo = @ \ {f}, !.done = @ \cup {f}]
    /\ UNCHANGED <<now, index, files, job, delivered>>

\* Every blob is done: Replay returns their number.
ReplayReturns ==
    /\ replay.pc = "running" /\ replay.todo = {}
    /\ replay' = [replay EXCEPT !.pc = "returned"]
    /\ UNCHANGED <<now, index, files, job, delivered>>

\* The process ends: it has reported, its sink has failed, or it was killed.
ReplayEnds ==
    /\ replay.pc # "idle"
    /\ replay' = NoReplay
    /\ UNCHANGED <<now, index, files, job, delivered>>

Tick ==
    /\ now < MaxTime
    /\ \A p \in Pollers : job[p].pc # "idle" => now < job[p].at + PollTime
    /\ now' = now + 1
    /\ UNCHANGED <<index, files, job, delivered, replay>>

Next ==
    \/ \E p \in Pollers :
         \/ Start(p)
         \/ \E sha \in Responses : Fetch(p, sha)
         \/ LookUp(p)
         \/ Unchanged(p)
         \/ WriteBlob(p)
         \/ Record(p)
         \/ RecordUnacknowledged(p)
         \/ Deliver(p)
         \/ Fails(p)
    \/ Restart
    \/ \E f \in files : Prune(f)
    \/ \E r \in Ranges : Discover(r.from, r.to)
    \/ \E f \in replay.todo : SkipBlob(f) \/ ReplayBlob(f)
    \/ ReplayReturns
    \/ ReplayEnds
    \/ Tick

Spec == Init /\ [][Next]_vars

-----------------------------------------------------------------------------

OnDisk(f) == f \in files \/ f.at + Retention < now

\* "The blob is durably on disk before any decode result is acted on"
\* (ingest.go): whatever the index lists and whatever the engine was given can
\* be read back until retention takes it, wherever a poll failed or the process
\* died -- so a replay can make up for every snapshot that was not delivered.
KeptOnDisk ==
    /\ \A i \in DOMAIN index :
         OnDisk([feed |-> index[i].feed, at |-> index[i].at, sha |-> index[i].sha])
    /\ \A f \in delivered : OnDisk(f)

\* interfaces.go:41: LastSHA is there "so byte-identical responses are not
\* re-archived": of two rows in a row from one URL, the second differs unless
\* its lookup had failed.
IdenticalNotRearchived ==
    \A i, j \in DOMAIN index :
        /\ i < j /\ index[i].by = index[j].by
        /\ \A k \in (i+1)..(j-1) : index[k].by # index[i].by
        => index[i].sha # index[j].sha \/ index[j].blind

\* A replay that returns has delivered every blob of its range that can still
\* be read: one bad or pruned blob costs no other.
ReplayIsComplete ==
    replay.pc = "returned" =>
        \A f \in replay.found :
            f \in files /\ f.sha \notin Undecodable => f \in replay.done
=============================================================================
