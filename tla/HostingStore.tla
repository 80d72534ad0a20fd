---------------------------- MODULE HostingStore ----------------------------
(***************************************************************************)
(* src/hosting/store.ts: the one JSON file behind managed hosting, seen as *)
(* a value  db == [row, outbox, res]:                                      *)
(*   row     the hosting instance (one: the rows of different instances    *)
(*           only meet in the reservation, which is another module)        *)
(*   outbox  the set of durable jobs ever enqueued                         *)
(*   res     the set of provider resources ever recorded                   *)
(* Every operator below is one HostingStore method, i.e. one synchronous   *)
(* mutate(): it maps a db to the next db, and the file is replaced whole.  *)
(*                                                                         *)
(* row.version only ever decides whether a row read earlier is still the   *)
(* row on disk.  It is kept relative to the current step: it counts the    *)
(* updates the step has made so far, and the system module starts every    *)
(* step from 0 (see Commit in Hosting.tla).                                *)
(***************************************************************************)
EXTENDS Integers, FiniteSets

NoTime == -1          \* a null instant (milliseconds in the code)
NoServer == 0         \* a null providerInstanceId
Free == [holder |-> "none", until |-> NoTime]    \* leaseToken = null

-----------------------------------------------------------------------------
(* instances *)

\* Mutant: the stored row keeps the version its readers hold.
UpdateUnversioned(db, draft) ==
    [db EXCEPT !.row = [draft EXCEPT !.version = db.row.version]]

\* updateInstance with an expectedVersion that matches: the draft is stored
\* under the next version.  A caller whose row is stale does not get here.
UpdateInstance(db, draft) ==
    [db EXCEPT !.row = [draft EXCEPT !.version = db.row.version + 1]]

\* claimLease refuses while a live lease is held; a stale one is reclaimable.
LeaseRefused(db, t) ==
    db.row.lease.holder # "none" /\ db.row.lease.until > t

ClaimLease(db, who, until) ==
    UpdateInstance(db, [db.row EXCEPT !.lease = [holder |-> who, until |-> until]])

\* releaseLease proves possession by token, not by version.
ReleaseLease(db, who) ==
    IF db.row.lease.holder = who
    THEN UpdateInstance(db, [db.row EXCEPT !.lease = Free])
    ELSE db

-----------------------------------------------------------------------------
(* provider resources *)

RecordResource(db, pid, gen) ==
    IF \E r \in db.res : r.pid = pid
    THEN db
    ELSE [db EXCEPT !.res = @ \cup {[pid |-> pid, gen |-> gen, present |-> TRUE]}]

MarkRemoved(db, gens) ==
    [db EXCEPT !.res =
        {IF r.gen \in gens THEN [r EXCEPT !.present = FALSE] ELSE r : r \in @}]

-----------------------------------------------------------------------------
(* outbox.  A job is named by its dedupeKey, which is permanent: the key of *)
(* a job already sent or obsolete still refuses a second enqueue.  The key  *)
(* is its kind and the two numbers the code writes into it (the lifecycle   *)
(* version, the generation, an attempt or an instant; 0 where it has none). *)

Key(kind, a, b) == [kind |-> kind, a |-> a, b |-> b]

Job(key, row, at) ==
    [key |-> key, lv |-> row.lv, gen |-> row.gen, at |-> at,
     status |-> "pending", lease |-> NoTime]

Enqueue(db, job) ==
    IF \E o \in db.outbox : o.key = job.key
    THEN db
    ELSE [db EXCEPT !.outbox = @ \cup {job}]

Claimable(job, t) ==
    job.status = "pending" /\ (job.lease = NoTime \/ job.lease < t)

Due(db, t) == {o.key : o \in {j \in db.outbox : Claimable(j, t) /\ j.at <= t}}

JobOf(db, key) == CHOOSE o \in db.outbox : o.key = key

ClaimJob(db, key, until) ==
    [db EXCEPT !.outbox =
        {IF o.key = key THEN [o EXCEPT !.lease = until] ELSE o : o \in @}]

CompleteJob(db, key) ==
    [db EXCEPT !.outbox =
        {IF o.key = key THEN [o EXCEPT !.status = "sent", !.lease = NoTime] ELSE o
            : o \in @}]

\* Mutant: a job to be retried is filed as failed.
ReleaseAsFailed(db, key, at) ==
    [db EXCEPT !.outbox =
        {IF o.key = key
         THEN [o EXCEPT !.status = "failed", !.lease = NoTime, !.at = at]
         ELSE o : o \in @}]

\* A retry is pending again whatever the job's status was meanwhile.
ReleaseJob(db, key, at) ==
    [db EXCEPT !.outbox =
        {IF o.key = key
         THEN [o EXCEPT !.status = "pending", !.lease = NoTime, !.at = at]
         ELSE o : o \in @}]

\* obsoletePendingJobsOlderThan, always called with the row just written.
Older(o, row) == o.gen < row.gen \/ (o.gen = row.gen /\ o.lv < row.lv)

ObsoleteOlder(db) ==
    [db EXCEPT !.outbox =
        {IF o.status = "pending" /\ Older(o, db.row)
         THEN [o EXCEPT !.status = "obsolete"] ELSE o : o \in @}]
=============================================================================
