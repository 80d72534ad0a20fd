--------------------------- MODULE Hosting_proofs ---------------------------
(***************************************************************************)
(* Proofs about Hosting, for every number of ticks and handlers in flight, *)
(* every policy and every bound.                                           *)
(*                                                                         *)
(* A step computes the db it stores by applying store and lifecycle        *)
(* operators one after the other to the db it found.  Follows(d, e) is     *)
(* what every operator guarantees of the db it returns, and it composes;   *)
(* Leads(d, e) adds that the operator neither declares the server ready    *)
(* nor ends the row.  The sections follow the modules: the store, the      *)
(* lifecycle, the shape of a step, and one lemma for every action.         *)
(***************************************************************************)
EXTENDS Hosting, TLAPS

Queued(d) == {o.key : o \in d.outbox}

\* A tick's list, and the job it is working on, name jobs in the outbox.
Knows(me, d) ==
    /\ me.due \subseteq Queued(d)
    /\ me.pc \notin {"idle", "drain"} => me.key \in Queued(d)

JobsKnown == \A w \in Workers : Knows(wk[w], db)

\* The inductive invariant.
IInv == TypeOK /\ JobsKnown /\ SnapshotsHold

Follows(d, e) ==
    /\ d \in Dbs /\ e \in Dbs
    /\ Queued(d) \subseteq Queued(e)
    /\ e.row.version >= d.row.version
    /\ e.row.version = d.row.version => e.row = d.row

Leads(d, e) ==
    /\ Follows(d, e)
    /\ e.row.stage = "ready" => d.row.stage = "ready"
    /\ e.row.stage = "deleted" => d.row.stage \in {"deleted", "ordered"}
    /\ e.row.stage = "ordered" => d.row.stage = "ordered"

-----------------------------------------------------------------------------
(* the store *)

LEMMA VersionType == ASSUME NEW d \in Dbs PROVE d.row.version \in Nat
  BY DEF Dbs, Rows

LEMMA FollowsItself == ASSUME NEW d \in Dbs PROVE Leads(d, d)
  BY VersionType DEF Leads, Follows

LEMMA FollowsOn ==
    ASSUME NEW d, NEW e, NEW f, Follows(d, e), Follows(e, f)
    PROVE  Follows(d, f)
  BY VersionType DEF Follows

LEMMA LeadsOn ==
    ASSUME NEW d, NEW e, NEW f, Leads(d, e), Leads(e, f)
    PROVE  Leads(d, f)
  BY FollowsOn DEF Leads

\* updateInstance stores the draft under a later version and nothing else.
LEMMA UpdateInstanceFollows ==
    ASSUME NEW d \in Dbs, NEW draft \in Rows
    PROVE  /\ Follows(d, UpdateInstance(d, draft))
           /\ UpdateInstance(d, draft).row = [draft EXCEPT !.version = d.row.version + 1]
           /\ UpdateInstance(d, draft).row.stage = draft.stage
           /\ UpdateInstance(d, draft).row.version = d.row.version + 1
           /\ UpdateInstance(d, draft).outbox = d.outbox
<1>1. /\ UpdateInstance(d, draft).row = [draft EXCEPT !.version = d.row.version + 1]
      /\ UpdateInstance(d, draft).row.stage = draft.stage
      /\ UpdateInstance(d, draft).row.version = d.row.version + 1
      /\ UpdateInstance(d, draft).outbox = d.outbox
  BY DEF UpdateInstance, Dbs, Rows
<1>2. UpdateInstance(d, draft) \in Dbs
  BY DEF UpdateInstance, Dbs, Rows
<1>3. QED BY <1>1, <1>2, VersionType DEF Follows, Queued

\* ... so a draft that keeps or leaves the row's stage without ending it leads.
LEMMA UpdateInstanceLeads ==
    ASSUME NEW d \in Dbs, NEW draft \in Rows,
           \/ draft.stage = d.row.stage
           \/ draft.stage \notin {"ready", "ordered", "deleted"}
    PROVE  Leads(d, UpdateInstance(d, draft))
  BY UpdateInstanceFollows DEF Leads

LEMMA ClaimLeaseLeads ==
    ASSUME NEW d \in Dbs, NEW who \in Workers, NEW until \in Instants
    PROVE  /\ Leads(d, ClaimLease(d, who, until))
           /\ ClaimLease(d, who, until).row.stage = d.row.stage
           /\ ClaimLease(d, who, until).row.holdAt = d.row.holdAt
           /\ ClaimLease(d, who, until).row.pid = d.row.pid
<1> DEFINE draft == [d.row EXCEPT !.lease = [holder |-> who, until |-> until]]
<1>1. draft \in Rows /\ draft.stage = d.row.stage /\ draft.holdAt = d.row.holdAt
      /\ draft.pid = d.row.pid
  BY DEF Dbs, Rows
<1> HIDE DEF draft
<1>2. UpdateInstance(d, draft).row = [draft EXCEPT !.version = d.row.version + 1]
  BY <1>1, UpdateInstanceFollows
<1>3. /\ UpdateInstance(d, draft).row.holdAt = draft.holdAt
      /\ UpdateInstance(d, draft).row.pid = draft.pid
  BY <1>1, <1>2 DEF Rows
<1>4. ClaimLease(d, who, until) = UpdateInstance(d, draft)
  BY DEF ClaimLease, draft
<1>5. /\ Leads(d, UpdateInstance(d, draft))
      /\ UpdateInstance(d, draft).row.stage = draft.stage
  BY <1>1, UpdateInstanceLeads, UpdateInstanceFollows
<1>6. QED BY <1>1, <1>3, <1>4, <1>5

LEMMA ReleaseLeaseLeads ==
    ASSUME NEW d \in Dbs, NEW who
    PROVE  Leads(d, ReleaseLease(d, who)) /\ ReleaseLease(d, who).row.stage = d.row.stage
<1> DEFINE draft == [d.row EXCEPT !.lease = Free]
<1>1. draft \in Rows /\ draft.stage = d.row.stage
  BY DEF Dbs, Rows, Free, Instants
<1> HIDE DEF draft
<1>2. CASE d.row.lease.holder = who
  <2>1. ReleaseLease(d, who) = UpdateInstance(d, draft)
    BY <1>2 DEF ReleaseLease, draft
  <2>2. QED BY <1>1, <2>1, UpdateInstanceLeads, UpdateInstanceFollows
<1>3. CASE d.row.lease.holder # who
  BY <1>3, FollowsItself DEF ReleaseLease
<1>4. QED BY <1>2, <1>3

\* A method that leaves the row alone and drops no job leads.
LEMMA SameRowLeads ==
    ASSUME NEW d \in Dbs, NEW e \in Dbs, e.row = d.row, Queued(d) \subseteq Queued(e)
    PROVE  Leads(d, e)
  BY VersionType DEF Leads, Follows

\* Whatever happens to the recorded resources.
LEMMA ResourcesLeads ==
    ASSUME NEW d \in Dbs, NEW res \in SUBSET [pid : Nat, gen : Nat, present : BOOLEAN]
    PROVE  Leads(d, [d EXCEPT !.res = res]) /\ [d EXCEPT !.res = res].row = d.row
<1>1. /\ [d EXCEPT !.res = res] \in Dbs
      /\ [d EXCEPT !.res = res].row = d.row
      /\ [d EXCEPT !.res = res].outbox = d.outbox
  BY DEF Dbs
<1>2. QED BY <1>1, SameRowLeads DEF Queued

LEMMA RecordResourceLeads ==
    ASSUME NEW d \in Dbs, NEW pid \in Nat, NEW gen \in Nat
    PROVE  Leads(d, RecordResource(d, pid, gen)) /\ RecordResource(d, pid, gen).row = d.row
<1> DEFINE new == [pid |-> pid, gen |-> gen, present |-> TRUE]
           res == d.res \cup {new}
<1>0. new \in [pid : Nat, gen : Nat, present : BOOLEAN]
  OBVIOUS
<1> HIDE DEF new
<1>1. res \in SUBSET [pid : Nat, gen : Nat, present : BOOLEAN]
  BY <1>0 DEF Dbs
<1>2. RecordResource(d, pid, gen) = d \/ RecordResource(d, pid, gen) = [d EXCEPT !.res = res]
  BY DEF RecordResource, new
<1> HIDE DEF res
<1>3. QED BY <1>1, <1>2, ResourcesLeads, FollowsItself

LEMMA MarkRemovedLeads ==
    ASSUME NEW d \in Dbs, NEW gens
    PROVE  Leads(d, MarkRemoved(d, gens)) /\ MarkRemoved(d, gens).row = d.row
<1>1. {IF r.gen \in gens THEN [r EXCEPT !.present = FALSE] ELSE r : r \in d.res}
        \in SUBSET [pid : Nat, gen : Nat, present : BOOLEAN]
  BY DEF Dbs
<1>2. QED BY <1>1, ResourcesLeads DEF MarkRemoved

LEMMA EnqueueLeads ==
    ASSUME NEW d \in Dbs, NEW job \in Jobs
    PROVE  Leads(d, Enqueue(d, job)) /\ Enqueue(d, job).row = d.row
<1>1. Enqueue(d, job) \in Dbs /\ Enqueue(d, job).row = d.row
  BY DEF Enqueue, Dbs
<1>2. d.outbox \subseteq Enqueue(d, job).outbox
  BY DEF Enqueue, Dbs
<1>3. QED BY <1>1, <1>2, SameRowLeads DEF Queued

\* The methods that rewrite jobs in place: each job keeps its key.
LEMMA OutboxMapLeads ==
    ASSUME NEW d \in Dbs, NEW box \in SUBSET Jobs,
           {o.key : o \in box} = Queued(d)
    PROVE  Leads(d, [d EXCEPT !.outbox = box]) /\ [d EXCEPT !.outbox = box].row = d.row
<1>1. /\ [d EXCEPT !.outbox = box] \in Dbs
      /\ [d EXCEPT !.outbox = box].row = d.row
      /\ [d EXCEPT !.outbox = box].outbox = box
  BY DEF Dbs
<1>2. QED BY <1>1, SameRowLeads DEF Queued

LEMMA ClaimJobLeads ==
    ASSUME NEW d \in Dbs, NEW key, NEW until \in Instants
    PROVE  Leads(d, ClaimJob(d, key, until)) /\ ClaimJob(d, key, until).row = d.row
<1> DEFINE G(o) == IF o.key = key THEN [o EXCEPT !.lease = until] ELSE o
           box == {G(o) : o \in d.outbox}
<1>1. \A o \in d.outbox : G(o) \in Jobs /\ G(o).key = o.key
  BY DEF Dbs, Jobs
<1>2. box \in SUBSET Jobs /\ {o.key : o \in box} = Queued(d)
  BY <1>1 DEF Queued
<1>3. ClaimJob(d, key, until) = [d EXCEPT !.outbox = box]
  BY DEF ClaimJob
<1>4. QED BY <1>2, <1>3, OutboxMapLeads

LEMMA CompleteJobLeads ==
    ASSUME NEW d \in Dbs, NEW key
    PROVE  Leads(d, CompleteJob(d, key)) /\ CompleteJob(d, key).row = d.row
<1> DEFINE G(o) == IF o.key = key THEN [o EXCEPT !.status = "sent", !.lease = NoTime] ELSE o
           box == {G(o) : o \in d.outbox}
<1>1. \A o \in d.outbox : G(o) \in Jobs /\ G(o).key = o.key
  BY DEF Dbs, Jobs, Instants
<1>2. box \in SUBSET Jobs /\ {o.key : o \in box} = Queued(d)
  BY <1>1 DEF Queued
<1>3. CompleteJob(d, key) = [d EXCEPT !.outbox = box]
  BY DEF CompleteJob
<1>4. QED BY <1>2, <1>3, OutboxMapLeads

LEMMA ReleaseJobLeads ==
    ASSUME NEW d \in Dbs, NEW key, NEW at \in Int
    PROVE  Leads(d, ReleaseJob(d, key, at)) /\ ReleaseJob(d, key, at).row = d.row
<1> DEFINE G(o) == IF o.key = key
                   THEN [o EXCEPT !.status = "pending", !.lease = NoTime, !.at = at] ELSE o
           box == {G(o) : o \in d.outbox}
<1>1. \A o \in d.outbox : G(o) \in Jobs /\ G(o).key = o.key
  BY DEF Dbs, Jobs, Instants
<1>2. box \in SUBSET Jobs /\ {o.key : o \in box} = Queued(d)
  BY <1>1 DEF Queued
<1>3. ReleaseJob(d, key, at) = [d EXCEPT !.outbox = box]
  BY DEF ReleaseJob
<1>4. QED BY <1>2, <1>3, OutboxMapLeads

LEMMA ObsoleteOlderLeads ==
    ASSUME NEW d \in Dbs
    PROVE  Leads(d, ObsoleteOlder(d)) /\ ObsoleteOlder(d).row = d.row
<1> DEFINE G(o) == IF o.status = "pending" /\ Older(o, d.row)
                   THEN [o EXCEPT !.status = "obsolete"] ELSE o
           box == {G(o) : o \in d.outbox}
<1>1. \A o \in d.outbox : G(o) \in Jobs /\ G(o).key = o.key
  BY DEF Dbs, Jobs
<1>2. box \in SUBSET Jobs /\ {o.key : o \in box} = Queued(d)
  BY <1>1 DEF Queued
<1>3. ObsoleteOlder(d) = [d EXCEPT !.outbox = box]
  BY DEF ObsoleteOlder
<1>4. QED BY <1>2, <1>3, OutboxMapLeads

LEMMA JobType ==
    ASSUME NEW kind \in Kinds, NEW a \in Nat, NEW b \in Nat, NEW row \in Rows, NEW at \in Int
    PROVE  Job(Key(kind, a, b), row, at) \in Jobs
  BY DEF Job, Key, Jobs, Keys, Rows, Instants

\* The fields of a row that guards and arithmetic read.
LEMMA RowFields ==
    ASSUME NEW d \in Dbs
    PROVE  /\ d.row \in Rows
           /\ d.row.stage \in Stages
           /\ d.row.lv \in Nat /\ d.row.gen \in Nat /\ d.row.pid \in Nat
           /\ d.row.minted \in Nat /\ d.row.attempts \in Nat /\ d.row.tried \in Nat
           /\ d.row.tok \in Nat /\ d.row.tokUntil \in Instants
           /\ d.row.paid \in Instants /\ d.row.holdAt \in Instants
           /\ d.row.suspendAt \in Int /\ d.row.deleteAt \in Int
           /\ d.row.reason \in {"none", "renewal_unpaid", "intentional"}
  BY DEF Dbs, Rows

-----------------------------------------------------------------------------
(* the lifecycle *)

LEMMA DeadlinesType ==
    ASSUME NEW anchor \in Int, NEW reason, NEW held \in Int
    PROVE  /\ Deadlines(anchor, reason, held).suspendAt \in Int
           /\ Deadlines(anchor, reason, held).deleteAt \in Int
  BY PolicyAssumption DEF Deadlines

LEMMA EnqueueProvisionLeads ==
    ASSUME NEW d \in Dbs, NEW t \in Nat
    PROVE  Leads(d, EnqueueProvision(d, t)) /\ EnqueueProvision(d, t).row = d.row
<1>1. "provision" \in Kinds
  BY DEF Kinds
<1>2. Job(Key("provision", d.row.lv, d.row.gen), d.row, t) \in Jobs
  BY <1>1, RowFields, JobType
<1>3. QED BY <1>2, EnqueueLeads DEF EnqueueProvision

LEMMA EnqueueStripeCancelLeads ==
    ASSUME NEW d \in Dbs, NEW t \in Nat,
           NEW why \in {"stripe_ineligible", "stripe_setup_failure", "stripe_terminated"}
    PROVE  Leads(d, EnqueueStripeCancel(d, why, t)) /\ EnqueueStripeCancel(d, why, t).row = d.row
<1>1. why \in Kinds
  BY DEF Kinds
<1>2. Job(Key(why, 0, 0), d.row, t) \in Jobs
  BY <1>1, RowFields, JobType
<1>3. QED BY <1>2, EnqueueLeads DEF EnqueueStripeCancel

LEMMA QueueDeadlineJobsLeads ==
    ASSUME NEW d \in Dbs, NEW dl, dl.suspendAt \in Int, dl.deleteAt \in Int
    PROVE  Leads(d, QueueDeadlineJobs(d, dl)) /\ QueueDeadlineJobs(d, dl).row = d.row
<1> DEFINE suspended == Enqueue(d, Job(Key("suspend", d.row.lv, 0), d.row, dl.suspendAt))
           deleted == Enqueue(suspended, Job(Key("delete", d.row.lv, 0), d.row, dl.deleteAt))
<1>1. "suspend" \in Kinds /\ "delete" \in Kinds
  BY DEF Kinds
<1>2. /\ Job(Key("suspend", d.row.lv, 0), d.row, dl.suspendAt) \in Jobs
      /\ Job(Key("delete", d.row.lv, 0), d.row, dl.deleteAt) \in Jobs
  BY <1>1, RowFields, JobType
<1>3. Leads(d, suspended) /\ suspended.row = d.row
  BY <1>2, EnqueueLeads
<1>4. suspended \in Dbs
  BY <1>3 DEF Leads, Follows
<1>5. Leads(suspended, deleted) /\ deleted.row = d.row
  BY <1>2, <1>3, <1>4, EnqueueLeads
<1>6. QueueDeadlineJobs(d, dl) = deleted
  BY DEF QueueDeadlineJobs
<1>7. QED BY <1>3, <1>5, <1>6, LeadsOn

LEMMA ScheduleEndLeads ==
    ASSUME NEW d \in Dbs, NEW reason \in {"renewal_unpaid", "intentional"}, NEW anchor \in Int
    PROVE  Leads(d, ScheduleEnd(d, reason, anchor))
<1> DEFINE dl == Deadlines(anchor, reason, 0)
           stage == IF reason = "intentional" THEN "cancel_scheduled" ELSE "past_due"
           draft == [d.row EXCEPT
                !.stage = stage, !.reason = reason, !.suspendAt = dl.suspendAt,
                !.deleteAt = dl.deleteAt, !.lv = @ + 1]
           scheduled == UpdateInstance(d, draft)
           current == ObsoleteOlder(scheduled)
<1>1. dl.suspendAt \in Int /\ dl.deleteAt \in Int
  BY DeadlinesType
<1>2. stage \in Stages /\ stage \notin {"ready", "ordered", "deleted"}
  BY DEF Stages, Recoverable
<1>3. ScheduleEnd(d, reason, anchor) = QueueDeadlineJobs(current, dl)
  BY DEF ScheduleEnd
<1> HIDE DEF dl, stage
<1>4. draft \in Rows /\ draft.stage = stage
  <2>1. draft = [f \in DOMAIN d.row |->
            CASE f = "stage" -> stage [] f = "reason" -> reason
              [] f = "suspendAt" -> dl.suspendAt [] f = "deleteAt" -> dl.deleteAt
              [] f = "lv" -> d.row.lv + 1 [] OTHER -> d.row[f]]
    BY Zenon
  <2>2. QED BY <1>1, <1>2, <2>1, RowFields, SMT DEF Rows
<1> HIDE DEF draft
<1>5. Leads(d, scheduled)
  BY <1>2, <1>4, UpdateInstanceLeads
<1>6. scheduled \in Dbs
  BY <1>5 DEF Leads, Follows
<1> HIDE DEF scheduled
<1>7. Leads(scheduled, current)
  BY <1>6, ObsoleteOlderLeads
<1>8. current \in Dbs
  BY <1>7 DEF Leads, Follows
<1> HIDE DEF current
<1>9. Leads(current, QueueDeadlineJobs(current, dl))
  BY <1>1, <1>8, QueueDeadlineJobsLeads
<1>10. QED BY <1>3, <1>5, <1>7, <1>9, LeadsOn

LEMMA RestoreLeads ==
    ASSUME NEW d \in Dbs, NEW periodEnd \in Instants, NEW t \in Nat
    PROVE  Leads(d, Restore(d, periodEnd, t))
<1> DEFINE draft == [d.row EXCEPT
                !.paid = periodEnd, !.reason = "none", !.suspendAt = NoTime,
                !.deleteAt = NoTime, !.stage = "restoring", !.note = "none", !.lv = @ + 1]
           restoring == UpdateInstance(d, draft)
           queued == ObsoleteOlder(restoring)
           job == Job(Key("restore", restoring.row.lv, 0), restoring.row, t)
<1>1. draft \in Rows /\ draft.stage = "restoring"
  <2>1. draft = [f \in DOMAIN d.row |->
            CASE f = "paid" -> periodEnd [] f = "reason" -> "none"
              [] f = "suspendAt" -> NoTime [] f = "deleteAt" -> NoTime
              [] f = "stage" -> "restoring" [] f = "note" -> "none"
              [] f = "lv" -> d.row.lv + 1 [] OTHER -> d.row[f]]
    BY Zenon
  <2>2. QED BY <2>1, RowFields, SMT DEF Rows, NoTime, Stages, Recoverable
<1>2. Restore(d, periodEnd, t) = Enqueue(queued, job)
  BY DEF Restore
<1> HIDE DEF draft
<1>3. Leads(d, restoring) /\ restoring \in Dbs
  BY <1>1, UpdateInstanceLeads DEF Leads, Follows
<1> HIDE DEF restoring
<1>4. Leads(restoring, queued) /\ queued \in Dbs
  BY <1>3, ObsoleteOlderLeads DEF Leads, Follows
<1>5. "restore" \in Kinds
  BY DEF Kinds
<1>6. job \in Jobs
  BY <1>3, <1>5, RowFields, JobType
<1> HIDE DEF queued, job
<1>7. Leads(queued, Enqueue(queued, job))
  BY <1>4, <1>6, EnqueueLeads
<1>8. QED BY <1>2, <1>3, <1>4, <1>7, LeadsOn

LEMMA NotifyLatePaymentLeads ==
    ASSUME NEW d \in Dbs
    PROVE  Leads(d, NotifyLatePayment(d))
<1> DEFINE draft == [d.row EXCEPT !.note = "late"]
<1>1. draft \in Rows /\ draft.stage = d.row.stage
  BY DEF Dbs, Rows
<1> HIDE DEF draft
<1>2. NotifyLatePayment(d) = d \/ NotifyLatePayment(d) = UpdateInstance(d, draft)
  BY DEF NotifyLatePayment, draft
<1>3. QED BY <1>1, <1>2, FollowsItself, UpdateInstanceLeads

LEMMA RenewLeads ==
    ASSUME NEW d \in Dbs, NEW periodEnd \in Instants, NEW t \in Nat
    PROVE  Leads(d, Renew(d, periodEnd, t))
<1> DEFINE paid == [d.row EXCEPT !.paid = periodEnd]
           cleared == [paid EXCEPT !.suspendAt = NoTime, !.deleteAt = NoTime,
                                   !.reason = "none", !.lv = @ + 1]
           renewed == UpdateInstance(d, cleared)
           current == ObsoleteOlder(renewed)
<1>1. \/ Renew(d, periodEnd, t) = UpdateInstance(d, paid)
      \/ Renew(d, periodEnd, t) = current
      \/ Renew(d, periodEnd, t) = EnqueueProvision(current, t)
  BY DEF Renew
<1>2. paid \in Rows /\ paid.stage = d.row.stage
  BY DEF Dbs, Rows
<1> HIDE DEF paid
<1>3. cleared \in Rows /\ cleared.stage = paid.stage
  <2>1. cleared = [f \in DOMAIN paid |->
            CASE f = "suspendAt" -> NoTime [] f = "deleteAt" -> NoTime
              [] f = "reason" -> "none" [] f = "lv" -> paid.lv + 1 [] OTHER -> paid[f]]
    BY Zenon
  <2>2. QED BY <1>2, <2>1, SMT DEF Rows, NoTime
<1> HIDE DEF cleared
<1>4. Leads(d, renewed) /\ renewed \in Dbs
  BY <1>2, <1>3, UpdateInstanceLeads DEF Leads, Follows
<1> HIDE DEF renewed
<1>5. Leads(renewed, current) /\ current \in Dbs
  BY <1>4, ObsoleteOlderLeads DEF Leads, Follows
<1> HIDE DEF current
<1>6. Leads(current, EnqueueProvision(current, t))
  BY <1>5, EnqueueProvisionLeads
<1>7. Leads(d, UpdateInstance(d, paid))
  BY <1>2, UpdateInstanceLeads
<1>8. QED BY <1>1, <1>4, <1>5, <1>6, <1>7, LeadsOn

LEMMA WithProvisionJobLeads ==
    ASSUME NEW d \in Dbs, NEW s, NEW endOnly, NEW t \in Nat
    PROVE  Leads(d, WithProvisionJob(d, s, endOnly, t))
  BY EnqueueProvisionLeads, FollowsItself DEF WithProvisionJob

LEMMA WithFlagLeads ==
    ASSUME NEW d \in Dbs, NEW s
    PROVE  Leads(d, WithFlag(d, s))
<1> DEFINE draft == [d.row EXCEPT !.note = "flagged"]
<1>1. draft \in Rows /\ draft.stage = d.row.stage
  BY DEF Dbs, Rows
<1> HIDE DEF draft
<1>2. WithFlag(d, s) = d \/ WithFlag(d, s) = UpdateInstance(d, draft)
  BY DEF WithFlag, draft
<1>3. QED BY <1>1, <1>2, FollowsItself, UpdateInstanceLeads

LEMMA FirstType ==
    ASSUME NEW a \in Instants, NEW b \in Instants, NEW t \in Nat
    PROVE  First(a, b, t) \in Int
  BY DEF First, Instants, NoTime

LEMMA ApplyBillingSignalLeads ==
    ASSUME NEW d0 \in Dbs, NEW s \in Subscriptions, NEW endOnly \in BOOLEAN, NEW t \in Nat
    PROVE  Leads(d0, ApplyBillingSignal(d0, s, endOnly, t))
<1> DEFINE d1 == WithProvisionJob(d0, s, endOnly, t)
           d == WithFlag(d1, s)
           e == ApplyBillingSignal(d0, s, endOnly, t)
<1>1. Leads(d0, d1) /\ d1 \in Dbs
  BY WithProvisionJobLeads DEF Leads, Follows
<1>2. Leads(d1, d) /\ d \in Dbs
  BY <1>1, WithFlagLeads DEF Leads, Follows
<1>3. s.end \in Instants /\ d.row.paid \in Instants
  BY <1>2, RowFields DEF Subscriptions
<1>4. \/ e = NotifyLatePayment(d)
      \/ e = Restore(d, s.end, t)
      \/ e = Renew(d, s.end, t)
      \/ e = ScheduleEnd(d, "intentional", First(s.end, d.row.paid, t))
      \/ e = ScheduleEnd(d, "renewal_unpaid", First(d.row.paid, t, t))
      \/ e = d
  BY SMTT(60) DEF ApplyBillingSignal
<1> HIDE DEF d, d1
<1>5. First(s.end, d.row.paid, t) \in Int /\ First(d.row.paid, t, t) \in Int
  BY <1>3, FirstType DEF Instants
<1>6. /\ Leads(d, NotifyLatePayment(d))
      /\ Leads(d, Restore(d, s.end, t))
      /\ Leads(d, Renew(d, s.end, t))
      /\ Leads(d, ScheduleEnd(d, "intentional", First(s.end, d.row.paid, t)))
      /\ Leads(d, ScheduleEnd(d, "renewal_unpaid", First(d.row.paid, t, t)))
      /\ Leads(d, d)
  BY <1>2, <1>3, <1>5, NotifyLatePaymentLeads, RestoreLeads, RenewLeads,
     ScheduleEndLeads, FollowsItself
<1>7. Leads(d, e)
  BY <1>4, <1>6
<1>8. QED BY <1>1, <1>2, <1>7, LeadsOn

\* The owner's reconciliation never declares a server ready and ends no row
\* that has a server.
LEMMA ReconcileOwnerLeads ==
    ASSUME NEW d \in Dbs, NEW s \in Subscriptions, NEW e \in Eligibilities, NEW t \in Nat
    PROVE  Leads(d, ReconcileOwner(d, s, e, t))
<1> DEFINE next == ReconcileOwner(d, s, e, t)
           ended == ApplyBillingSignal(d, s, TRUE, t)
           refused == EnqueueStripeCancel(d, "stripe_ineligible", t)
           draft == [d.row EXCEPT !.stage = "deleted"]
<1>1. \/ next = d
      \/ next = NotifyLatePayment(d)
      \/ next = ApplyBillingSignal(d, s, FALSE, t)
      \/ d.row.stage = "ordered" /\ next = UpdateInstance(refused, draft)
      \/ next = EnqueueStripeCancel(ended, "stripe_ineligible", t)
  BY DEF ReconcileOwner, Eligibilities
<1>2. /\ Leads(d, d)
      /\ Leads(d, NotifyLatePayment(d))
      /\ Leads(d, ApplyBillingSignal(d, s, FALSE, t))
  BY FollowsItself, NotifyLatePaymentLeads, ApplyBillingSignalLeads
<1>3. Leads(d, EnqueueStripeCancel(ended, "stripe_ineligible", t))
  <2>1. Leads(d, ended) /\ ended \in Dbs
    BY ApplyBillingSignalLeads DEF Leads, Follows
  <2>2. Leads(ended, EnqueueStripeCancel(ended, "stripe_ineligible", t))
    BY <2>1, EnqueueStripeCancelLeads
  <2>3. QED BY <2>1, <2>2, LeadsOn
<1>4. ASSUME d.row.stage = "ordered" PROVE Leads(d, UpdateInstance(refused, draft))
  <2>1. draft \in Rows /\ draft.stage = "deleted"
    BY DEF Dbs, Rows, Stages, Terminal
  <2> HIDE DEF draft
  <2>2. Leads(d, refused) /\ refused \in Dbs
    BY EnqueueStripeCancelLeads DEF Leads, Follows
  <2> HIDE DEF refused
  <2>3. /\ Follows(d, UpdateInstance(refused, draft))
        /\ UpdateInstance(refused, draft).row.stage = "deleted"
    BY <2>1, <2>2, UpdateInstanceFollows, FollowsOn DEF Leads
  <2>4. QED BY <1>4, <2>3 DEF Leads
<1>5. QED BY <1>1, <1>2, <1>3, <1>4

\* markReady is where a row becomes ready; it only follows.
LEMMA MarkReadyFollows ==
    ASSUME NEW d \in Dbs
    PROVE  Follows(d, MarkReady(d)) /\ MarkReady(d).row.stage = "ready"
<1> DEFINE draft == [d.row EXCEPT !.stage = "ready", !.note = "none"]
<1>1. draft \in Rows /\ draft.stage = "ready"
  <2>1. draft = [f \in DOMAIN d.row |->
            CASE f = "stage" -> "ready" [] f = "note" -> "none" [] OTHER -> d.row[f]]
    BY Zenon
  <2>2. QED BY <2>1, RowFields, SMT DEF Rows, Stages
<1>2. MarkReady(d) = UpdateInstance(d, draft)
  BY DEF MarkReady
<1> HIDE DEF draft
<1>3. Follows(d, UpdateInstance(d, draft)) /\ UpdateInstance(d, draft).row.stage = draft.stage
  BY <1>1, UpdateInstanceFollows
<1>4. QED BY <1>1, <1>2, <1>3

LEMMA UnnotedLeads ==
    ASSUME NEW d \in Dbs
    PROVE  Leads(d, UpdateInstance(d, [d.row EXCEPT !.note = "none"]))
<1> DEFINE draft == [d.row EXCEPT !.note = "none"]
<1>1. draft \in Rows /\ draft.stage = d.row.stage
  BY DEF Dbs, Rows
<1> HIDE DEF draft
<1>2. Leads(d, UpdateInstance(d, draft))
  BY <1>1, UpdateInstanceLeads
<1>3. QED BY <1>2 DEF draft

LEMMA RefuseReadinessLeads ==
    ASSUME NEW d \in Dbs, NEW t \in Nat
    PROVE  Leads(d, RefuseReadiness(d, t))
<1> DEFINE moved == UpdateInstance(d, [d.row EXCEPT !.note = "none"])
           replace == Job(Key("replace_region", d.row.gen, 0), moved.row, t)
           terminal == Job(Key("region_terminal", d.row.gen, 0), d.row, t)
<1>1. \/ RefuseReadiness(d, t) = Enqueue(moved, replace)
      \/ RefuseReadiness(d, t) = Enqueue(d, terminal)
  BY DEF RefuseReadiness
<1>2. Leads(d, moved) /\ moved \in Dbs
  BY UnnotedLeads DEF Leads, Follows
<1> HIDE DEF moved
<1>3. "replace_region" \in Kinds /\ "region_terminal" \in Kinds
  BY DEF Kinds
<1>4. replace \in Jobs /\ terminal \in Jobs
  BY <1>2, <1>3, RowFields, JobType
<1> HIDE DEF replace, terminal
<1>5. Leads(moved, Enqueue(moved, replace)) /\ Leads(d, Enqueue(d, terminal))
  BY <1>2, <1>4, EnqueueLeads
<1>6. QED BY <1>1, <1>2, <1>5, LeadsOn

LEMMA FailProvisioningLeads ==
    ASSUME NEW d \in Dbs, NEW t \in Nat
    PROVE  Leads(d, FailProvisioning(d, t))
<1> DEFINE failed == UpdateInstance(d, [d.row EXCEPT !.note = "none"])
<1>1. Leads(d, failed) /\ failed \in Dbs
  BY UnnotedLeads DEF Leads, Follows
<1>2. FailProvisioning(d, t) = EnqueueStripeCancel(failed, "stripe_setup_failure", t)
  BY DEF FailProvisioning
<1> HIDE DEF failed
<1>3. QED BY <1>1, <1>2, EnqueueStripeCancelLeads, LeadsOn

-----------------------------------------------------------------------------
(* what the steps of Hosting write *)

LEMMA BootstrappingLeads ==
    ASSUME NEW d \in Dbs, NEW me \in Ticks, NEW sid \in Nat
    PROVE  Leads(d, Bootstrapping(d, me, sid))
<1> DEFINE recorded == RecordResource(d, sid, me.gen)
           row == recorded.row
           draft == [row EXCEPT !.pid = sid, !.stage = "bootstrapping"]
           installed == UpdateInstance(recorded, draft)
           at == IF row.tokUntil # NoTime THEN row.tokUntil ELSE me.t + TokenTtl
           job == Job(Key("bootstrap_timeout", row.attempts, row.gen), installed.row, at)
<1>1. Bootstrapping(d, me, sid) = Enqueue(installed, job)
  BY DEF Bootstrapping
<1>2. me.gen \in Nat /\ me.t \in Nat
  BY DEF Ticks
<1>3. Leads(d, recorded) /\ recorded \in Dbs
  BY <1>2, RecordResourceLeads DEF Leads, Follows
<1> HIDE DEF recorded
<1>4. draft \in Rows /\ draft.stage = "bootstrapping"
  <2>1. draft = [f \in DOMAIN row |->
            CASE f = "pid" -> sid [] f = "stage" -> "bootstrapping" [] OTHER -> row[f]]
    BY Zenon
  <2>2. row \in Rows
    BY <1>3, RowFields
  <2> HIDE DEF row
  <2>3. QED BY <2>1, <2>2, SMT DEF Rows, Stages
<1> HIDE DEF draft
<1>5. Leads(recorded, installed) /\ installed \in Dbs
  BY <1>3, <1>4, UpdateInstanceLeads DEF Leads, Follows
<1>6. /\ row.attempts \in Nat /\ row.gen \in Nat /\ row.tokUntil \in Instants
      /\ installed.row \in Rows
  BY <1>3, <1>5, RowFields
<1> HIDE DEF installed, row
<1>7. at \in Int
  BY <1>2, <1>6, SystemAssumption DEF Instants, NoTime
<1>8. "bootstrap_timeout" \in Kinds
  BY DEF Kinds
<1>9. job \in Jobs
  BY <1>6, <1>7, <1>8, JobType
<1> HIDE DEF job
<1>10. Leads(installed, Enqueue(installed, job))
  BY <1>5, <1>9, EnqueueLeads
<1>11. QED BY <1>1, <1>3, <1>5, <1>10, LeadsOn

LEMMA AttemptLeads ==
    ASSUME NEW d \in Dbs
    PROVE  Leads(d, UpdateInstance(d,
                [d.row EXCEPT !.stage = "provisioning", !.attempts = @ + 1]))
<1> DEFINE draft == [d.row EXCEPT !.stage = "provisioning", !.attempts = @ + 1]
<1>1. draft \in Rows /\ draft.stage = "provisioning"
  <2>1. draft = [f \in DOMAIN d.row |->
            CASE f = "stage" -> "provisioning" [] f = "attempts" -> d.row.attempts + 1
              [] OTHER -> d.row[f]]
    BY Zenon
  <2>2. QED BY <2>1, RowFields, SMT DEF Rows, Stages
<1> HIDE DEF draft
<1>2. Leads(d, UpdateInstance(d, draft))
  BY <1>1, UpdateInstanceLeads
<1>3. QED BY <1>2 DEF draft

LEMMA MintedLeads ==
    ASSUME NEW d \in Dbs, NEW tok \in Nat, NEW until \in Nat
    PROVE  Leads(d, UpdateInstance(d,
                [d.row EXCEPT !.minted = tok, !.tok = tok, !.tokUntil = until]))
<1> DEFINE draft == [d.row EXCEPT !.minted = tok, !.tok = tok, !.tokUntil = until]
<1>1. draft \in Rows /\ draft.stage = d.row.stage
  <2>1. draft = [f \in DOMAIN d.row |->
            CASE f = "minted" -> tok [] f = "tok" -> tok [] f = "tokUntil" -> until
              [] OTHER -> d.row[f]]
    BY Zenon
  <2>2. QED BY <2>1, RowFields, SMT DEF Rows, Instants
<1> HIDE DEF draft
<1>2. Leads(d, UpdateInstance(d, draft))
  BY <1>1, UpdateInstanceLeads
<1>3. QED BY <1>2 DEF draft

LEMMA CleanedUpLeads ==
    ASSUME NEW d \in Dbs, NEW me \in Ticks
    PROVE  Leads(d, CleanedUp(d, me))
<1> DEFINE removed == MarkRemoved(d, {me.gen})
           moved == [removed.row EXCEPT
                !.tried = @ + 1, !.gen = @ + 1, !.attempts = 0, !.pid = NoServer,
                !.tok = 0, !.tokUntil = NoTime, !.stage = "provisioning"]
           ended == [removed.row EXCEPT !.pid = NoServer, !.tokUntil = NoTime]
<1>1. me.t \in Nat
  BY DEF Ticks
<1>2. Leads(d, removed) /\ removed \in Dbs
  BY MarkRemovedLeads DEF Leads, Follows
<1>3. \/ CleanedUp(d, me) = EnqueueProvision(UpdateInstance(removed, moved), me.t)
      \/ CleanedUp(d, me) = FailProvisioning(UpdateInstance(removed, ended), me.t)
  BY DEF CleanedUp, NextRegion, SetupEnded
<1> HIDE DEF removed
<1>4. moved \in Rows /\ moved.stage = "provisioning"
  <2>1. moved = [f \in DOMAIN removed.row |->
            CASE f = "tried" -> removed.row.tried + 1 [] f = "gen" -> removed.row.gen + 1
              [] f = "attempts" -> 0 [] f = "pid" -> NoServer [] f = "tok" -> 0
              [] f = "tokUntil" -> NoTime [] f = "stage" -> "provisioning"
              [] OTHER -> removed.row[f]]
    BY Zenon
  <2>2. QED BY <1>2, <2>1, RowFields, SMT DEF Rows, Stages, Instants, NoTime, NoServer
<1>5. ended \in Rows /\ ended.stage = removed.row.stage
  <2>1. ended = [f \in DOMAIN removed.row |->
            CASE f = "pid" -> NoServer [] f = "tokUntil" -> NoTime [] OTHER -> removed.row[f]]
    BY Zenon
  <2>2. QED BY <1>2, <2>1, RowFields, SMT DEF Rows, Instants, NoServer
<1> HIDE DEF moved, ended
<1>6. /\ Leads(removed, UpdateInstance(removed, moved))
      /\ Leads(removed, UpdateInstance(removed, ended))
      /\ UpdateInstance(removed, moved) \in Dbs
      /\ UpdateInstance(removed, ended) \in Dbs
  BY <1>2, <1>4, <1>5, UpdateInstanceLeads DEF Leads, Follows
<1>7. /\ Leads(removed, EnqueueProvision(UpdateInstance(removed, moved), me.t))
      /\ Leads(removed, FailProvisioning(UpdateInstance(removed, ended), me.t))
  BY <1>1, <1>6, EnqueueProvisionLeads, FailProvisioningLeads, LeadsOn
<1>8. QED BY <1>2, <1>3, <1>7, LeadsOn

LEMMA PowerRequestedLeads ==
    ASSUME NEW d \in Dbs
    PROVE  Leads(d, PowerRequested(d))
  BY UnnotedLeads, FollowsItself DEF PowerRequested

LEMMA SuspendedLeads ==
    ASSUME NEW d \in Dbs, NEW fresh \in BOOLEAN
    PROVE  Leads(d, Suspended(d, fresh))
<1> DEFINE draft == [d.row EXCEPT !.stage = "suspended"]
<1>1. draft \in Rows /\ draft.stage = "suspended"
  BY DEF Dbs, Rows, Stages, Recoverable
<1> HIDE DEF draft
<1>2. Suspended(d, fresh) = d \/ Suspended(d, fresh) = UpdateInstance(d, draft)
  BY DEF Suspended, draft
<1>3. QED BY <1>1, <1>2, UpdateInstanceLeads, FollowsItself

LEMMA CommittedLeads ==
    ASSUME NEW d \in Dbs
    PROVE  /\ Leads(d, Committed(d))
           /\ Committed(d).row.stage = "deleting"
           /\ Committed(d).row.holdAt = d.row.holdAt
<1> DEFINE draft == [d.row EXCEPT !.stage = "deleting"]
           written == UpdateInstance(d, draft)
<1>1. draft \in Rows /\ draft.stage = "deleting" /\ draft.holdAt = d.row.holdAt
  BY DEF Dbs, Rows, Stages, Terminal
<1>2. Committed(d) = ObsoleteOlder(written)
  BY DEF Committed
<1> HIDE DEF draft
<1>3. /\ Leads(d, written) /\ written \in Dbs
      /\ written.row = [draft EXCEPT !.version = d.row.version + 1]
      /\ written.row.stage = "deleting"
  BY <1>1, UpdateInstanceLeads, UpdateInstanceFollows DEF Leads, Follows
<1>4. written.row.holdAt = d.row.holdAt
  BY <1>1, <1>3 DEF Rows
<1> HIDE DEF written
<1>5. QED BY <1>2, <1>3, <1>4, ObsoleteOlderLeads, LeadsOn

\* The end of a row; it is written only when the committed row stands.
LEMMA AbsentFollows ==
    ASSUME NEW d \in Dbs, NEW w, NEW fresh \in BOOLEAN, NEW t \in Nat
    PROVE  /\ Follows(d, Absent(d, w, fresh, t))
           /\ fresh => Absent(d, w, fresh, t).row.stage = "deleted"
           /\ ~fresh => Absent(d, w, fresh, t).row.stage = d.row.stage
<1> DEFINE res == {[r EXCEPT !.present = FALSE] : r \in d.res}
           removed == [d EXCEPT !.res = res]
           draft == [d.row EXCEPT !.stage = "deleted", !.tok = 0, !.tokUntil = NoTime]
           ended == UpdateInstance(removed, draft)
           done == EnqueueStripeCancel(ended, "stripe_terminated", t)
<1>1. Absent(d, w, fresh, t) = ReleaseLease(IF fresh THEN done ELSE removed, w)
  BY DEF Absent
<1>2. res \in SUBSET [pid : Nat, gen : Nat, present : BOOLEAN]
  BY DEF Dbs
<1> HIDE DEF res
<1>3. Leads(d, removed) /\ removed.row = d.row /\ removed \in Dbs
  BY <1>2, ResourcesLeads DEF Leads, Follows
<1> HIDE DEF removed
<1>4. draft \in Rows /\ draft.stage = "deleted"
  <2>1. draft = [f \in DOMAIN d.row |->
            CASE f = "stage" -> "deleted" [] f = "tok" -> 0 [] f = "tokUntil" -> NoTime
              [] OTHER -> d.row[f]]
    BY Zenon
  <2>2. QED BY <2>1, RowFields, SMT DEF Rows, Stages, Terminal, Instants
<1> HIDE DEF draft
<1>5. Follows(removed, ended) /\ ended \in Dbs /\ ended.row.stage = "deleted"
  BY <1>3, <1>4, UpdateInstanceFollows DEF Follows
<1> HIDE DEF ended
<1>6. Follows(ended, done) /\ done \in Dbs /\ done.row.stage = "deleted"
  BY <1>5, EnqueueStripeCancelLeads DEF Leads, Follows
<1> HIDE DEF done
<1>7. Follows(d, done)
  BY <1>3, <1>5, <1>6, FollowsOn DEF Leads
<1>8. /\ Follows(done, ReleaseLease(done, w))
      /\ ReleaseLease(done, w).row.stage = "deleted"
      /\ Follows(removed, ReleaseLease(removed, w))
      /\ ReleaseLease(removed, w).row.stage = d.row.stage
  BY <1>3, <1>6, ReleaseLeaseLeads DEF Leads
<1>9. QED BY <1>1, <1>3, <1>7, <1>8, FollowsOn DEF Leads

LEMMA JobOfType ==
    ASSUME NEW d \in Dbs, NEW key \in Queued(d)
    PROVE  JobOf(d, key) \in Jobs
<1>1. PICK o \in d.outbox : o.key = key
  BY DEF Queued
<1>2. JobOf(d, key) \in d.outbox
  BY <1>1 DEF JobOf
<1>3. QED BY <1>2 DEF Dbs

LEMMA ConfirmingLeads ==
    ASSUME NEW d \in Dbs, NEW w, NEW me \in Ticks, me.key \in Queued(d)
    PROVE  Leads(d, Confirming(d, w, me)) /\ Confirming(d, w, me).row.stage = d.row.stage
<1> DEFINE committed == JobOf(d, me.key)
           confirm == [key |-> Key("delete_confirm", committed.lv, me.t),
                       lv |-> committed.lv, gen |-> committed.gen,
                       at |-> me.t + ConfirmDelay, status |-> "pending", lease |-> NoTime]
<1>1. Confirming(d, w, me) = ReleaseLease(Enqueue(d, confirm), w)
  BY DEF Confirming
<1>2. committed.lv \in Nat /\ committed.gen \in Nat /\ me.t \in Nat
  BY JobOfType DEF Jobs, Ticks
<1> HIDE DEF committed
<1>3. confirm \in Jobs
  BY <1>2, SystemAssumption DEF Jobs, Key, Keys, Kinds, Instants
<1> HIDE DEF confirm
<1>4. /\ Leads(d, Enqueue(d, confirm)) /\ Enqueue(d, confirm) \in Dbs
      /\ Enqueue(d, confirm).row = d.row
  BY <1>3, EnqueueLeads DEF Leads, Follows
<1>5. QED BY <1>1, <1>4, ReleaseLeaseLeads, LeadsOn

\* Reversing a cancellation makes the row ready again.
LEMMA ResumedFollows ==
    ASSUME NEW d \in Dbs
    PROVE  Follows(d, Resumed(d)) /\ Resumed(d).row.stage = "ready"
<1> DEFINE draft == [d.row EXCEPT
                !.reason = "none", !.suspendAt = NoTime, !.deleteAt = NoTime,
                !.stage = "ready", !.holdAt = NoTime, !.lv = @ + 1]
           written == UpdateInstance(d, draft)
<1>1. Resumed(d) = ObsoleteOlder(written)
  BY DEF Resumed
<1>2. draft \in Rows /\ draft.stage = "ready"
  <2>1. draft = [f \in DOMAIN d.row |->
            CASE f = "reason" -> "none" [] f = "suspendAt" -> NoTime
              [] f = "deleteAt" -> NoTime [] f = "stage" -> "ready"
              [] f = "holdAt" -> NoTime [] f = "lv" -> d.row.lv + 1 [] OTHER -> d.row[f]]
    BY Zenon
  <2>2. QED BY <2>1, RowFields, SMT DEF Rows, Stages, Instants, NoTime
<1> HIDE DEF draft
<1>3. Follows(d, written) /\ written.row.stage = "ready" /\ written \in Dbs
  BY <1>2, UpdateInstanceFollows DEF Follows
<1> HIDE DEF written
<1>4. QED BY <1>1, <1>3, ObsoleteOlderLeads, FollowsOn DEF Leads

LEMMA ReleasedLeads ==
    ASSUME NEW d \in Dbs, NEW t \in Nat
    PROVE  Leads(d, Released(d, t))
<1> DEFINE row == d.row
           anchor == row.suspendAt - (IF row.reason = "renewal_unpaid" THEN Grace ELSE 0)
           dl == Deadlines(anchor, row.reason, t - row.holdAt)
           unheld == [row EXCEPT !.holdAt = NoTime]
           draft == [row EXCEPT !.holdAt = NoTime, !.suspendAt = dl.suspendAt,
                                !.deleteAt = dl.deleteAt, !.lv = @ + 1]
           written == UpdateInstance(d, draft)
           shifted == ObsoleteOlder(written)
           job == Job(Key("delete", shifted.row.lv, 0), shifted.row, dl.deleteAt)
<1>1. anchor \in Int /\ t - row.holdAt \in Int
  BY RowFields, PolicyAssumption DEF Instants, NoTime
<1>2. dl.suspendAt \in Int /\ dl.deleteAt \in Int
  BY <1>1, DeadlinesType
<1>3. \/ Released(d, t) = UpdateInstance(d, unheld)
      \/ Released(d, t) = QueueDeadlineJobs(shifted, dl)
      \/ Released(d, t) = Enqueue(shifted, job)
  <2>1. Released(d, t) =
            CASE row.reason = "none" \/ row.suspendAt = NoTime -> UpdateInstance(d, unheld)
              [] row.reason # "none" /\ row.suspendAt # NoTime /\ dl.deleteAt > t ->
                    QueueDeadlineJobs(shifted, dl)
              [] row.reason # "none" /\ row.suspendAt # NoTime /\ dl.deleteAt <= t ->
                    Enqueue(shifted, job)
    BY Zenon DEF Released
  <2> HIDE DEF dl, anchor, unheld, draft, written, shifted, job
  <2>2. dl.deleteAt > t \/ dl.deleteAt <= t
    BY <1>2
  <2>3. QED BY <2>1, <2>2
<1> HIDE DEF dl
<1>4. unheld \in Rows /\ unheld.stage = d.row.stage
  BY RowFields DEF Rows, Instants
<1>5. draft \in Rows /\ draft.stage = d.row.stage
  <2>1. draft = [f \in DOMAIN row |->
            CASE f = "holdAt" -> NoTime [] f = "suspendAt" -> dl.suspendAt
              [] f = "deleteAt" -> dl.deleteAt [] f = "lv" -> row.lv + 1
              [] OTHER -> row[f]]
    BY Zenon
  <2>2. QED BY <1>2, <2>1, RowFields, SMT DEF Rows, Instants
<1> HIDE DEF draft, unheld
<1>6. Leads(d, UpdateInstance(d, unheld))
  BY <1>4, UpdateInstanceLeads
<1>7. Leads(d, written) /\ written \in Dbs
  BY <1>5, UpdateInstanceLeads DEF Leads, Follows
<1> HIDE DEF written
<1>8. Leads(written, shifted) /\ shifted \in Dbs
  BY <1>7, ObsoleteOlderLeads DEF Leads, Follows
<1> HIDE DEF shifted
<1>9. "delete" \in Kinds
  BY DEF Kinds
<1>10. job \in Jobs
  BY <1>2, <1>8, <1>9, RowFields, JobType
<1> HIDE DEF job
<1>11. Leads(shifted, QueueDeadlineJobs(shifted, dl)) /\ Leads(shifted, Enqueue(shifted, job))
  BY <1>2, <1>8, <1>10, QueueDeadlineJobsLeads, EnqueueLeads
<1>12. QED BY <1>3, <1>6, <1>7, <1>8, <1>11, LeadsOn

-----------------------------------------------------------------------------
(* the shape of a step *)

\* What a step that stores d promises about ready and deleted rows.
Permitted(d) ==
    /\ db.row.stage # "ready" /\ d.row.stage = "ready" =>
        \/ db.row.stage = "cancel_scheduled"
        \/ /\ db.row.stage \in {"provisioning", "bootstrapping", "restoring"}
           /\ ServerOn(db.row.pid)
    /\ db.row.stage = "deleting" /\ d.row.stage = "deleted" => db.row.holdAt = NoTime

Storable(d) == Follows(db, d) /\ Permitted(d)

GoodTick(me, d) ==
    /\ me \in Ticks
    /\ Knows(me, d)
    /\ me.fresh => TickSees(me, d.row)

GoodHandler(me, d) ==
    /\ me \in Handlers
    /\ me.fresh => HandlerSees(me, d.row)

\* What every step must leave behind.
Preserved == IInv' /\ ProvesReady /\ RespectsHold

LEMMA LeadsIsStorable == ASSUME NEW d, Leads(db, d) PROVE Storable(d)
  BY DEF Leads, Storable, Permitted

LEMMA GoodNow ==
    ASSUME IInv
    PROVE  /\ db \in Dbs /\ Storable(db) /\ Leads(db, db)
           /\ \A w \in Workers : GoodTick(wk[w], db)
           /\ \A r \in Requests : GoodHandler(rq[r], db)
<1>1. db \in Dbs
  BY DEF IInv, TypeOK
<1>2. Leads(db, db)
  BY <1>1, FollowsItself
<1>3. Storable(db)
  BY <1>2, LeadsIsStorable
<1>4. \A w \in Workers : GoodTick(wk[w], db)
  BY DEF IInv, TypeOK, JobsKnown, SnapshotsHold, GoodTick
<1>5. \A r \in Requests : GoodHandler(rq[r], db)
  BY DEF IInv, TypeOK, SnapshotsHold, GoodHandler
<1>6. QED BY <1>1, <1>2, <1>3, <1>4, <1>5

LEMMA StoredType ==
    ASSUME NEW d \in Dbs
    PROVE  /\ Stored(d) \in Dbs /\ Stored(d).row.version = 0
           /\ Stored(d).outbox = d.outbox
           /\ Stored(d).row.stage = d.row.stage /\ Stored(d).row.pid = d.row.pid
           /\ Stored(d).row.holdAt = d.row.holdAt
           /\ Stored(d).row.suspendAt = d.row.suspendAt
  BY DEF Stored, Dbs, Rows

LEMMA StoredGood ==
    ASSUME NEW d \in Dbs
    PROVE  /\ \A me : GoodTick(me, d) => GoodTick(me, Stored(d))
           /\ \A me : GoodHandler(me, d) => GoodHandler(me, Stored(d))
  BY StoredType DEF GoodTick, GoodHandler, Knows, Queued, TickSees, HandlerSees

\* The compare-and-swap at work: whoever is still fresh sees the row it read.
LEMMA OthersGood ==
    ASSUME IInv, NEW d, Follows(db, d)
    PROVE  /\ \A w \in Workers : GoodTick(AfterStep(wk[w], d), d)
           /\ \A r \in Requests : GoodHandler(AfterStep(rq[r], d), d)
<1>1. db.row.version = 0
  BY DEF IInv, TypeOK
<1>2. d.row.version = 0 => d.row = db.row
  BY <1>1 DEF Follows
<1>3. ASSUME NEW w \in Workers PROVE GoodTick(AfterStep(wk[w], d), d)
  <2> DEFINE me == wk[w]
             after == AfterStep(me, d)
  <2>1. GoodTick(me, db)
    BY GoodNow
  <2>2. me \in Ticks
    BY <2>1 DEF GoodTick
  <2> HIDE DEF me
  <2>3. /\ after \in Ticks /\ after.due = me.due /\ after.key = me.key /\ after.pc = me.pc
        /\ after.t = me.t /\ (after.fresh => me.fresh /\ d.row.version = 0)
    BY <2>2 DEF AfterStep, Ticks
  <2> HIDE DEF after
  <2>4. Knows(after, d)
    BY <2>1, <2>3 DEF GoodTick, Knows, Follows
  <2>5. after.fresh => TickSees(after, d.row)
    BY <1>2, <2>1, <2>3 DEF GoodTick, TickSees
  <2>6. QED BY <2>3, <2>4, <2>5 DEF GoodTick, after, me
<1>4. ASSUME NEW r \in Requests PROVE GoodHandler(AfterStep(rq[r], d), d)
  <2> DEFINE me == rq[r]
             after == AfterStep(me, d)
  <2>1. GoodHandler(me, db)
    BY GoodNow
  <2>2. me \in Handlers
    BY <2>1 DEF GoodHandler
  <2> HIDE DEF me
  <2>3. /\ after \in Handlers /\ after.pc = me.pc /\ after.pid = me.pid
        /\ (after.fresh => me.fresh /\ d.row.version = 0)
    BY <2>2 DEF AfterStep, Handlers
  <2> HIDE DEF after
  <2>4. after.fresh => HandlerSees(after, d.row)
    BY <1>2, <2>1, <2>3 DEF GoodHandler, HandlerSees
  <2>5. QED BY <2>3, <2>4 DEF GoodHandler, after, me
<1>5. QED BY <1>3, <1>4

\* Storing d is enough when every tick and handler is good afterwards.
LEMMA StepPreserves ==
    ASSUME IInv, NEW d, Storable(d), db' = Stored(d),
           wk' \in [Workers -> Ticks], \A w \in Workers : GoodTick(wk'[w], d),
           rq' \in [Requests -> Handlers], \A r \in Requests : GoodHandler(rq'[r], d),
           sub' \in Subscriptions, elig' \in Eligibilities, now' \in Nat,
           vps' \in Seq(Servers), stripe' \in BOOLEAN
    PROVE  Preserved
<1>1. d \in Dbs
  BY DEF Storable, Follows
<1>2. /\ db' \in Dbs /\ db'.row.version = 0
      /\ db'.row.stage = d.row.stage
  BY <1>1, StoredType
<1>3. /\ \A w \in Workers : GoodTick(wk'[w], db')
      /\ \A r \in Requests : GoodHandler(rq'[r], db')
  BY <1>1, StoredGood
<1>4. TypeOK'
  BY <1>2 DEF TypeOK
<1>5. JobsKnown' /\ SnapshotsHold'
  BY <1>3 DEF JobsKnown, SnapshotsHold, GoodTick, GoodHandler
<1>6. ProvesReady /\ RespectsHold
  BY <1>2 DEF ProvesReady, RespectsHold, Storable, Permitted
<1>7. QED BY <1>4, <1>5, <1>6 DEF IInv, Preserved

LEMMA WorkerStepPreserves ==
    ASSUME IInv, NEW w \in Workers, NEW d, Storable(d), NEW next, GoodTick(next, d),
           WorkerStep(w, d, next), vps' \in Seq(Servers), stripe' \in BOOLEAN
    PROVE  Preserved
<1>1. /\ \A x \in Workers : GoodTick(AfterStep(wk[x], d), d)
      /\ \A r \in Requests : GoodHandler(AfterStep(rq[r], d), d)
  BY OthersGood DEF Storable
<1>2. /\ db' = Stored(d)
      /\ wk' = [x \in Workers |-> IF x = w THEN next ELSE AfterStep(wk[x], d)]
      /\ rq' = [r \in Requests |-> AfterStep(rq[r], d)]
      /\ sub' = sub /\ elig' = elig /\ now' = now
  BY DEF WorkerStep
<1>3. /\ wk' \in [Workers -> Ticks] /\ \A x \in Workers : GoodTick(wk'[x], d)
      /\ rq' \in [Requests -> Handlers] /\ \A r \in Requests : GoodHandler(rq'[r], d)
  BY <1>1, <1>2 DEF GoodTick, GoodHandler
<1>4. sub' \in Subscriptions /\ elig' \in Eligibilities /\ now' \in Nat
  BY <1>2 DEF IInv, TypeOK
<1>5. QED BY <1>2, <1>3, <1>4, StepPreserves

LEMMA RequestStepPreserves ==
    ASSUME IInv, NEW r \in Requests, NEW d, Storable(d), NEW next, GoodHandler(next, d),
           RequestStep(r, d, next), vps' \in Seq(Servers), stripe' \in BOOLEAN
    PROVE  Preserved
<1>1. /\ \A w \in Workers : GoodTick(AfterStep(wk[w], d), d)
      /\ \A x \in Requests : GoodHandler(AfterStep(rq[x], d), d)
  BY OthersGood DEF Storable
<1>2. /\ db' = Stored(d)
      /\ wk' = [w \in Workers |-> AfterStep(wk[w], d)]
      /\ rq' = [x \in Requests |-> IF x = r THEN next ELSE AfterStep(rq[x], d)]
      /\ sub' = sub /\ elig' = elig /\ now' = now
  BY DEF RequestStep
<1>3. /\ wk' \in [Workers -> Ticks] /\ \A w \in Workers : GoodTick(wk'[w], d)
      /\ rq' \in [Requests -> Handlers] /\ \A x \in Requests : GoodHandler(rq'[x], d)
  BY <1>1, <1>2 DEF GoodTick, GoodHandler
<1>4. sub' \in Subscriptions /\ elig' \in Eligibilities /\ now' \in Nat
  BY <1>2 DEF IInv, TypeOK
<1>5. QED BY <1>2, <1>3, <1>4, StepPreserves

LEMMA SyncStepPreserves ==
    ASSUME IInv, NEW d, Storable(d), SyncStep(d),
           sub' \in Subscriptions, elig' \in Eligibilities
    PROVE  Preserved
<1>1. /\ \A w \in Workers : GoodTick(AfterStep(wk[w], d), d)
      /\ \A r \in Requests : GoodHandler(AfterStep(rq[r], d), d)
  BY OthersGood DEF Storable
<1>2. /\ db' = Stored(d)
      /\ wk' = [w \in Workers |-> AfterStep(wk[w], d)]
      /\ rq' = [r \in Requests |-> AfterStep(rq[r], d)]
      /\ vps' = vps /\ stripe' = stripe /\ now' = now
  BY DEF SyncStep
<1>3. /\ wk' \in [Workers -> Ticks] /\ \A w \in Workers : GoodTick(wk'[w], d)
      /\ rq' \in [Requests -> Handlers] /\ \A r \in Requests : GoodHandler(rq'[r], d)
  BY <1>1, <1>2 DEF GoodTick, GoodHandler
<1>4. vps' \in Seq(Servers) /\ stripe' \in BOOLEAN /\ now' \in Nat
  BY <1>2 DEF IInv, TypeOK
<1>5. QED BY <1>2, <1>3, <1>4, StepPreserves

-----------------------------------------------------------------------------
(* the provider's servers *)

LEMMA TurnType ==
    ASSUME vps \in Seq(Servers), NEW pid, NEW from,
           NEW to \in {"on", "off", "deleting", "gone"}
    PROVE  Turn(pid, from, to) \in Seq(Servers)
<1>1. CASE pid \in DOMAIN vps
  <2>1. vps[pid] \in Servers
    BY <1>1
  <2>2. [vps[pid] EXCEPT !.st = to] \in Servers
    BY <2>1 DEF Servers
  <2>3. [vps EXCEPT ![pid].st = to] = [vps EXCEPT ![pid] = [vps[pid] EXCEPT !.st = to]]
    OBVIOUS
  <2>4. [vps EXCEPT ![pid].st = to] \in Seq(Servers)
    BY <1>1, <2>2, <2>3
  <2>5. QED BY <2>4 DEF Turn
<1>2. CASE pid \notin DOMAIN vps
  BY <1>2 DEF Turn
<1>3. QED BY <1>1, <1>2

LEMMA EffectType ==
    ASSUME vps \in Seq(Servers), NEW me \in Ticks
    PROVE  Effect(me) \in Seq(Servers)
<1>1. [gen |-> me.gen, tok |-> me.tok, st |-> "on"] \in Servers
  BY DEF Ticks, Servers
<1>2. Append(vps, [gen |-> me.gen, tok |-> me.tok, st |-> "on"]) \in Seq(Servers)
  BY <1>1
<1>3. /\ Turn(me.pid, {"off"}, "on") \in Seq(Servers)
      /\ Turn(me.pid, {"on"}, "off") \in Seq(Servers)
      /\ Turn(me.pid, {"on", "off"}, "deleting") \in Seq(Servers)
  BY TurnType
<1>4. QED BY <1>2, <1>3 DEF Effect

-----------------------------------------------------------------------------
(* how a tick ends a job or goes on waiting *)

\* A tick on a job: its list and its job are in the outbox.
Working(me, d) == me \in Ticks /\ me.due \subseteq Queued(d) /\ me.key \in Queued(d)

LEMMA WorkingOn ==
    ASSUME NEW d, NEW e, NEW me, Working(me, d), Follows(d, e)
    PROVE  Working(me, e)
  BY DEF Working, Follows

LEMMA NoKeyGood == IdleWorker \in Ticks /\ IdleWorker.fresh = FALSE /\ IdleWorker.pc = "idle"
                   /\ IdleWorker.due = {}
  BY DEF IdleWorker, Ticks, WorkerPcs, NoServer

LEMMA RestGood ==
    ASSUME NEW d, NEW me \in Ticks, me.due \subseteq Queued(d)
    PROVE  GoodTick(Rest(me), d)
<1> DEFINE on == [IdleWorker EXCEPT !.pc = "drain", !.t = me.t, !.due = me.due]
<1>1. on \in Ticks /\ on.fresh = FALSE /\ on.pc = "drain" /\ on.due = me.due
  BY DEF IdleWorker, Ticks, WorkerPcs, NoServer
<1>2. Rest(me) = IdleWorker \/ Rest(me) = on
  BY DEF Rest
<1> HIDE DEF on
<1>3. QED BY <1>1, <1>2, NoKeyGood DEF GoodTick, Knows

\* d may be stored together with a rewrite of the outbox alone.
LEMMA SameRowStorable ==
    ASSUME NEW d, NEW e, Storable(d), Leads(d, e), e.row = d.row
    PROVE  Storable(e)
  BY FollowsOn DEF Storable, Permitted, Leads

LEMMA DonePreserves ==
    ASSUME IInv, NEW w \in Workers, NEW d, Storable(d), NEW me, Working(me, db),
           Done(w, d, me), vps' \in Seq(Servers), stripe' \in BOOLEAN
    PROVE  Preserved
<1> DEFINE e == CompleteJob(d, me.key)
<1>1. d \in Dbs
  BY DEF Storable, Follows
<1>2. Leads(d, e) /\ e.row = d.row
  BY <1>1, CompleteJobLeads
<1>3. Storable(e)
  BY <1>2, SameRowStorable
<1>4. Working(me, e)
  BY <1>3, WorkingOn DEF Storable
<1>5. GoodTick(Rest(me), e)
  BY <1>4, RestGood DEF Working
<1>6. WorkerStep(w, e, Rest(me))
  BY DEF Done
<1>7. QED BY <1>3, <1>5, <1>6, WorkerStepPreserves

LEMMA RetryPreserves ==
    ASSUME IInv, NEW w \in Workers, NEW d, Storable(d), NEW me, Working(me, db),
           Retry(w, d, me), vps' \in Seq(Servers), stripe' \in BOOLEAN
    PROVE  Preserved
<1> DEFINE e == ReleaseJob(d, me.key, now + Backoff)
<1>1. d \in Dbs
  BY DEF Storable, Follows
<1>2. now + Backoff \in Int
  BY SystemAssumption DEF IInv, TypeOK
<1>3. Leads(d, e) /\ e.row = d.row
  BY <1>1, <1>2, ReleaseJobLeads
<1>4. Storable(e)
  BY <1>3, SameRowStorable
<1>5. Working(me, e)
  BY <1>4, WorkingOn DEF Storable
<1>6. GoodTick(Rest(me), e)
  BY <1>5, RestGood DEF Working
<1>7. WorkerStep(w, e, Rest(me))
  BY DEF Retry
<1>8. QED BY <1>4, <1>6, <1>7, WorkerStepPreserves

LEMMA FailsPreserves ==
    ASSUME IInv, NEW w \in Workers, NEW d, Storable(d), NEW me, Working(me, db),
           Fails(w, d, me), vps' \in Seq(Servers), stripe' \in BOOLEAN
    PROVE  Preserved
  BY RetryPreserves DEF Fails

Watched == {"suspend_power", "delete_get", "delete_call"}

LEMMA AwaitPreserves ==
    ASSUME IInv, NEW w \in Workers, NEW d, Storable(d), NEW me, Working(me, db),
           NEW pc \in WorkerPcs,
           me.fresh /\ pc \in Watched => TickSees([me EXCEPT !.pc = pc], d.row),
           Await(w, d, me, pc), vps' \in Seq(Servers), stripe' \in BOOLEAN
    PROVE  Preserved
<1> DEFINE next == [me EXCEPT !.pc = pc]
<1>1. Working(me, d)
  BY WorkingOn DEF Storable
<1>2. /\ next \in Ticks /\ next.due = me.due /\ next.key = me.key
      /\ next.fresh = me.fresh /\ next.pc = pc
  BY <1>1 DEF Working, Ticks
<1>3. me.fresh => TickSees(next, d.row)
  <2>1. CASE pc \in Watched
    BY <2>1
  <2>2. CASE pc \notin Watched
    BY <1>2, <2>2 DEF TickSees, Watched
  <2>3. QED BY <2>1, <2>2
<1> HIDE DEF next
<1>4. GoodTick(next, d)
  BY <1>1, <1>2, <1>3 DEF GoodTick, Knows, Working
<1>5. WorkerStep(w, d, next)
  BY DEF Await, next
<1>6. QED BY <1>4, <1>5, WorkerStepPreserves

\* A tick in the middle of a job.
LEMMA AtWork ==
    ASSUME IInv, NEW w \in Workers, wk[w].pc \notin {"idle", "drain"}
    PROVE  /\ Working(wk[w], db)
           /\ wk[w].fresh => TickSees(wk[w], db.row)
           /\ Effect(wk[w]) \in Seq(Servers)
           /\ vps \in Seq(Servers) /\ stripe \in BOOLEAN
<1>1. GoodTick(wk[w], db)
  BY GoodNow
<1>2. vps \in Seq(Servers) /\ stripe \in BOOLEAN
  BY DEF IInv, TypeOK
<1>3. QED BY <1>1, <1>2, EffectType DEF GoodTick, Working, Knows

-----------------------------------------------------------------------------
(* drainProvision *)

\* What a tick remembers of the row when it asks the provider.
LEMMA KnownWorking ==
    ASSUME NEW d, NEW me, Working(me, d), NEW gen \in Nat, NEW pid \in Nat
    PROVE  /\ Working([me EXCEPT !.pid = pid], d)
           /\ Working([me EXCEPT !.gen = gen, !.pid = pid], d)
           /\ Working([me EXCEPT !.pid = pid, !.gen = gen], d)
<1>1. me \in Ticks
  BY DEF Working
<1>2. /\ [me EXCEPT !.pid = pid] \in Ticks
      /\ [me EXCEPT !.gen = gen, !.pid = pid] \in Ticks
      /\ [me EXCEPT !.pid = pid, !.gen = gen] \in Ticks
  BY <1>1 DEF Ticks
<1>3. /\ [me EXCEPT !.pid = pid].due = me.due /\ [me EXCEPT !.pid = pid].key = me.key
      /\ [me EXCEPT !.gen = gen, !.pid = pid].due = me.due
      /\ [me EXCEPT !.gen = gen, !.pid = pid].key = me.key
      /\ [me EXCEPT !.pid = pid, !.gen = gen].due = me.due
      /\ [me EXCEPT !.pid = pid, !.gen = gen].key = me.key
  BY <1>1 DEF Ticks
<1>4. QED BY <1>2, <1>3 DEF Working

LEMMA AfterQuotePreserves ==
    ASSUME IInv, NEW w \in Workers, NEW d, Leads(db, d), NEW me, Working(me, db),
           AfterQuote(w, d, me), vps' \in Seq(Servers), stripe' \in BOOLEAN
    PROVE  Preserved
<1> DEFINE attempt == UpdateInstance(d, [d.row EXCEPT !.stage = "provisioning", !.attempts = @ + 1])
           known == [me EXCEPT !.gen = d.row.gen, !.pid = d.row.pid]
<1>1. d \in Dbs /\ me.t \in Nat
  BY DEF Leads, Follows, Working, Ticks
<1>2. CASE Done(w, FailProvisioning(d, me.t), me)
  <2>1. Storable(FailProvisioning(d, me.t))
    BY <1>1, FailProvisioningLeads, LeadsOn, LeadsIsStorable
  <2>2. QED BY <1>2, <2>1, DonePreserves
<1>3. CASE Await(w, attempt, known, IF d.row.pid # NoServer THEN "prov_get" ELSE "prov_find")
  <2>1. Storable(attempt)
    BY <1>1, AttemptLeads, LeadsOn, LeadsIsStorable
  <2>2. Working(known, db)
    BY <1>1, RowFields, KnownWorking
  <2> HIDE DEF attempt, known
  <2>3. CASE Await(w, attempt, known, "prov_get")
    BY <2>1, <2>2, <2>3, AwaitPreserves DEF WorkerPcs, Watched
  <2>4. CASE Await(w, attempt, known, "prov_find")
    BY <2>1, <2>2, <2>4, AwaitPreserves DEF WorkerPcs, Watched
  <2>5. QED BY <1>3, <2>3, <2>4
<1>4. QED BY <1>2, <1>3 DEF AfterQuote

\* The five ways a provisioning job begins.
LEMMA StartProvisionIs ==
    ASSUME NEW w, NEW d \in Dbs, NEW me, StartProvision(w, d, me)
    PROVE  \/ Retry(w, d, me)
           \/ Await(w, d, [me EXCEPT !.pid = d.row.pid], "restore_get")
           \/ Done(w, FailProvisioning(d, me.t), me)
           \/ AfterQuote(w, d, me)
           \/ Await(w, d, me, "plans")
<1>1. d.row.attempts >= MaxAttempts \/ d.row.attempts < MaxAttempts
  BY RowFields, PolicyAssumption
<1>2. CASE d.row.stage = "restoring"
  BY <1>2 DEF StartProvision
<1>3. CASE d.row.stage # "restoring" /\ elig = "withheld"
  BY <1>3 DEF StartProvision
<1>4. CASE d.row.stage # "restoring" /\ elig # "withheld" /\ d.row.attempts >= MaxAttempts
  BY <1>4, RowFields, PolicyAssumption DEF StartProvision
<1>5. CASE d.row.stage # "restoring" /\ elig # "withheld" /\ d.row.attempts < MaxAttempts
  BY <1>5, RowFields, PolicyAssumption DEF StartProvision
<1>6. QED BY <1>1, <1>2, <1>3, <1>4, <1>5

LEMMA StartProvisionPreserves ==
    ASSUME IInv, NEW w \in Workers, NEW d, Leads(db, d), NEW me, Working(me, db),
           StartProvision(w, d, me), vps' \in Seq(Servers), stripe' \in BOOLEAN
    PROVE  Preserved
<1>1. d \in Dbs /\ me.t \in Nat /\ Storable(d)
  BY LeadsIsStorable DEF Leads, Follows, Working, Ticks
<1>2. CASE Retry(w, d, me)
  BY <1>1, <1>2, RetryPreserves
<1>3. CASE Await(w, d, [me EXCEPT !.pid = d.row.pid], "restore_get")
  <2>1. Working([me EXCEPT !.pid = d.row.pid], db)
    BY <1>1, RowFields, KnownWorking
  <2>2. QED BY <1>1, <1>3, <2>1, AwaitPreserves DEF WorkerPcs, Watched
<1>4. CASE Done(w, FailProvisioning(d, me.t), me)
  <2>1. Storable(FailProvisioning(d, me.t))
    BY <1>1, FailProvisioningLeads, LeadsOn, LeadsIsStorable
  <2>2. QED BY <1>4, <2>1, DonePreserves
<1>5. CASE AfterQuote(w, d, me)
  BY <1>5, AfterQuotePreserves
<1>6. CASE Await(w, d, me, "plans")
  BY <1>1, <1>6, AwaitPreserves DEF WorkerPcs, Watched
<1>7. QED BY <1>1, <1>2, <1>3, <1>4, <1>5, <1>6, StartProvisionIs

LEMMA PlansAnswerPreserves ==
    ASSUME IInv, NEW w \in Workers, PlansAnswer(w)
    PROVE  Preserved
<1> DEFINE me == wk[w]
           draft == [db.row EXCEPT !.quoted = TRUE]
           quoted == IF db.row.quoted THEN db ELSE UpdateInstance(db, draft)
<1>1. Working(me, db) /\ vps' \in Seq(Servers) /\ stripe' \in BOOLEAN
  BY AtWork DEF PlansAnswer
<1>2. Leads(db, quoted)
  <2>1. db \in Dbs /\ Leads(db, db)
    BY GoodNow
  <2>2. draft \in Rows /\ draft.stage = db.row.stage
    BY <2>1 DEF Dbs, Rows
  <2> HIDE DEF draft
  <2>3. QED BY <2>1, <2>2, UpdateInstanceLeads
<1>3. AfterQuote(w, quoted, me) \/ Fails(w, db, me)
  BY DEF PlansAnswer
<1> HIDE DEF quoted
<1>4. QED BY <1>1, <1>2, <1>3, GoodNow, AfterQuotePreserves, FailsPreserves

LEMMA BootstrappingPreserves ==
    ASSUME IInv, NEW w \in Workers, NEW me, Working(me, db), NEW sid \in Nat,
           Done(w, Bootstrapping(db, me, sid), me),
           vps' \in Seq(Servers), stripe' \in BOOLEAN
    PROVE  Preserved
<1>1. Storable(Bootstrapping(db, me, sid))
  BY GoodNow, BootstrappingLeads, LeadsIsStorable DEF Working
<1>2. QED BY <1>1, DonePreserves

LEMMA ProvisionGetAnswerPreserves ==
    ASSUME IInv, NEW w \in Workers, ProvisionGetAnswer(w)
    PROVE  Preserved
<1> DEFINE me == wk[w]
<1>1. Working(me, db) /\ vps' \in Seq(Servers) /\ stripe' \in BOOLEAN
  BY AtWork DEF ProvisionGetAnswer
<1>2. me.pid \in Nat
  BY <1>1 DEF Working, Ticks
<1>3. \/ Done(w, Bootstrapping(db, me, me.pid), me)
      \/ Await(w, db, me, "prov_find")
      \/ Fails(w, db, me)
  BY DEF ProvisionGetAnswer
<1>4. "prov_find" \in WorkerPcs \ Watched
  BY DEF WorkerPcs, Watched
<1>5. QED BY <1>1, <1>2, <1>3, <1>4, GoodNow, BootstrappingPreserves, AwaitPreserves, FailsPreserves

LEMMA ProvisionFindAnswerPreserves ==
    ASSUME IInv, NEW w \in Workers, ProvisionFindAnswer(w)
    PROVE  Preserved
<1> DEFINE me == wk[w]
           tok == db.row.minted + 1
           until == me.t + TokenTtl
           minted == UpdateInstance(db, [db.row EXCEPT
                        !.minted = tok, !.tok = tok, !.tokUntil = until])
           next == [me EXCEPT !.tok = tok]
<1>1. Working(me, db) /\ vps' \in Seq(Servers) /\ stripe' \in BOOLEAN
  BY AtWork DEF ProvisionFindAnswer
<1>2. tok \in Nat /\ until \in Nat
  BY <1>1, GoodNow, RowFields, SystemAssumption DEF Working, Ticks
<1>3. DOMAIN vps \subseteq Nat
  BY DEF IInv, TypeOK
<1>4. \/ \E sid \in DOMAIN vps : Done(w, Bootstrapping(db, me, sid), me)
      \/ Await(w, minted, next, "prov_create")
      \/ Fails(w, db, me)
  BY DEF ProvisionFindAnswer
<1> HIDE DEF tok, until
<1>5. Storable(minted)
  BY <1>2, GoodNow, MintedLeads, LeadsIsStorable
<1>6. Working(next, db)
  BY <1>1, <1>2 DEF Working, Ticks
<1>7. "prov_create" \in WorkerPcs \ Watched
  BY DEF WorkerPcs, Watched
<1> HIDE DEF minted, next
<1>8. QED BY <1>1, <1>3, <1>4, <1>5, <1>6, <1>7, GoodNow,
             BootstrappingPreserves, AwaitPreserves, FailsPreserves

LEMMA ProvisionCreateAnswerPreserves ==
    ASSUME IInv, NEW w \in Workers, ProvisionCreateAnswer(w)
    PROVE  Preserved
<1> DEFINE me == wk[w]
<1>1. Working(me, db) /\ vps' \in Seq(Servers) /\ stripe' \in BOOLEAN
  BY AtWork DEF ProvisionCreateAnswer
<1>2. Len(vps) + 1 \in Nat
  BY DEF IInv, TypeOK
<1>3. Done(w, Bootstrapping(db, me, Len(vps) + 1), me) \/ Fails(w, db, me)
  BY DEF ProvisionCreateAnswer
<1>4. QED BY <1>1, <1>2, <1>3, GoodNow, BootstrappingPreserves, FailsPreserves

LEMMA PoweredPreserves ==
    ASSUME IInv, NEW w \in Workers, NEW me, Working(me, db),
           Done(w, PowerRequested(db), me), vps' \in Seq(Servers), stripe' \in BOOLEAN
    PROVE  Preserved
<1>1. Storable(PowerRequested(db))
  BY GoodNow, PowerRequestedLeads, LeadsIsStorable
<1>2. QED BY <1>1, DonePreserves

LEMMA RestoreGetAnswerPreserves ==
    ASSUME IInv, NEW w \in Workers, RestoreGetAnswer(w)
    PROVE  Preserved
<1> DEFINE me == wk[w]
<1>1. Working(me, db) /\ vps' \in Seq(Servers) /\ stripe' \in BOOLEAN
  BY AtWork DEF RestoreGetAnswer
<1>2. \/ Retry(w, db, me)
      \/ Done(w, PowerRequested(db), me)
      \/ Await(w, db, me, "restore_power")
      \/ Fails(w, db, me)
  BY DEF RestoreGetAnswer
<1>3. "restore_power" \in WorkerPcs \ Watched
  BY DEF WorkerPcs, Watched
<1>4. QED BY <1>1, <1>2, <1>3, GoodNow, RetryPreserves, PoweredPreserves,
             AwaitPreserves, FailsPreserves

LEMMA RestorePowerAnswerPreserves ==
    ASSUME IInv, NEW w \in Workers, RestorePowerAnswer(w)
    PROVE  Preserved
<1> DEFINE me == wk[w]
<1>1. Working(me, db) /\ vps' \in Seq(Servers) /\ stripe' \in BOOLEAN
  BY AtWork DEF RestorePowerAnswer
<1>2. Done(w, PowerRequested(db), me) \/ Retry(w, db, me) \/ Fails(w, db, me)
  BY DEF RestorePowerAnswer
<1>3. QED BY <1>1, <1>2, GoodNow, RetryPreserves, PoweredPreserves, FailsPreserves

-----------------------------------------------------------------------------
(* drainReadinessRecheck *)

LEMMA CleanedUpPreserves ==
    ASSUME IInv, NEW w \in Workers, NEW d, Leads(db, d), NEW me, Working(me, db),
           NEW known \in Ticks, Done(w, CleanedUp(d, known), me),
           vps' \in Seq(Servers), stripe' \in BOOLEAN
    PROVE  Preserved
<1>1. Storable(CleanedUp(d, known))
  BY CleanedUpLeads, LeadsOn, LeadsIsStorable DEF Leads, Follows
<1>2. QED BY <1>1, DonePreserves

LEMMA StartRecheckPreserves ==
    ASSUME IInv, NEW w \in Workers, NEW d, Leads(db, d), NEW me, Working(me, db),
           StartRecheck(w, d, me), vps' \in Seq(Servers), stripe' \in BOOLEAN
    PROVE  Preserved
<1> DEFINE known == [me EXCEPT !.pid = d.row.pid, !.gen = d.row.gen]
<1>1. d \in Dbs /\ me.t \in Nat /\ Storable(d)
  BY LeadsIsStorable DEF Leads, Follows, Working, Ticks
<1>2. Working(known, db) /\ known \in Ticks
  BY <1>1, RowFields, KnownWorking DEF Working
<1>3. \/ Done(w, d, me)
      \/ Retry(w, d, me)
      \/ Done(w, RefuseReadiness(d, me.t), me)
      \/ Done(w, CleanedUp(d, known), me)
      \/ Await(w, d, known, "recheck_delete")
  BY DEF StartRecheck
<1> HIDE DEF known
<1>4. CASE Done(w, d, me)
  BY <1>1, <1>4, DonePreserves
<1>5. CASE Retry(w, d, me)
  BY <1>1, <1>5, RetryPreserves
<1>6. CASE Done(w, RefuseReadiness(d, me.t), me)
  <2>1. Storable(RefuseReadiness(d, me.t))
    BY <1>1, RefuseReadinessLeads, LeadsOn, LeadsIsStorable
  <2>2. QED BY <1>6, <2>1, DonePreserves
<1>7. CASE Done(w, CleanedUp(d, known), me)
  BY <1>2, <1>7, CleanedUpPreserves
<1>8. CASE Await(w, d, known, "recheck_delete")
  BY <1>1, <1>2, <1>8, AwaitPreserves DEF WorkerPcs, Watched
<1>9. QED BY <1>3, <1>4, <1>5, <1>6, <1>7, <1>8

LEMMA RecheckDeleteAnswerPreserves ==
    ASSUME IInv, NEW w \in Workers, RecheckDeleteAnswer(w)
    PROVE  Preserved
<1> DEFINE me == wk[w]
<1>1. Working(me, db) /\ vps' \in Seq(Servers) /\ stripe' \in BOOLEAN
  BY AtWork DEF RecheckDeleteAnswer
<1>2. Await(w, db, me, "recheck_get") \/ Fails(w, db, me)
  BY DEF RecheckDeleteAnswer
<1>3. "recheck_get" \in WorkerPcs \ Watched
  BY DEF WorkerPcs, Watched
<1>4. QED BY <1>1, <1>2, <1>3, GoodNow, AwaitPreserves, FailsPreserves

LEMMA RecheckGetAnswerPreserves ==
    ASSUME IInv, NEW w \in Workers, RecheckGetAnswer(w)
    PROVE  Preserved
<1> DEFINE me == wk[w]
<1>1. Working(me, db) /\ vps' \in Seq(Servers) /\ stripe' \in BOOLEAN /\ me \in Ticks
  BY AtWork DEF RecheckGetAnswer, Working
<1>2. Retry(w, db, me) \/ Done(w, CleanedUp(db, me), me) \/ Fails(w, db, me)
  BY DEF RecheckGetAnswer
<1>3. QED BY <1>1, <1>2, GoodNow, RetryPreserves, CleanedUpPreserves, FailsPreserves

-----------------------------------------------------------------------------
(* drainSuspend and drainDelete.  A Start lemma is about the row the store  *)
(* holds: only the job's claim has been written to d.                       *)

LEMMA StartSuspendPreserves ==
    ASSUME IInv, NEW w \in Workers, NEW d, Leads(db, d), d.row = db.row,
           NEW me, Working(me, db),
           StartSuspend(w, d, me), vps' \in Seq(Servers), stripe' \in BOOLEAN
    PROVE  Preserved
<1> DEFINE row == d.row
           due == row.stage \notin Terminal /\ row.suspendAt # NoTime /\ me.t >= row.suspendAt
           known == [me EXCEPT !.pid = row.pid, !.fresh = TRUE]
           next == [known EXCEPT !.pc = "suspend_power"]
<1>1. d \in Dbs /\ Storable(d)
  BY LeadsIsStorable DEF Leads, Follows
<1>2. row.pid \in Nat /\ row.suspendAt \in Int /\ me.t \in Nat /\ me \in Ticks
  BY <1>1, RowFields DEF Working, Ticks
<1>3. \/ Done(w, d, me)
      \/ Done(w, Suspended(d, TRUE), me)
      \/ due /\ Await(w, d, known, "suspend_power")
  BY DEF StartSuspend
<1>4. CASE Done(w, d, me)
  BY <1>1, <1>4, DonePreserves
<1>5. CASE Done(w, Suspended(d, TRUE), me)
  <2>1. Storable(Suspended(d, TRUE))
    BY <1>1, SuspendedLeads, LeadsOn, LeadsIsStorable
  <2>2. QED BY <1>5, <2>1, DonePreserves
<1>6. CASE due /\ Await(w, d, known, "suspend_power")
  <2>1. known \in Ticks /\ known.due = me.due /\ known.key = me.key /\ known.t = me.t
    BY <1>2 DEF Ticks
  <2>2. Working(known, db)
    BY <2>1 DEF Working
  <2>3. next.pc = "suspend_power" /\ next.t = me.t
    BY <1>2, <2>1 DEF Ticks
  <2>4. TickSees(next, row)
    BY <1>2, <1>6, <2>3 DEF TickSees
  <2> HIDE DEF known
  <2>5. QED BY <1>1, <1>6, <2>2, <2>4, AwaitPreserves DEF WorkerPcs
<1>7. QED BY <1>3, <1>4, <1>5, <1>6

LEMMA SuspendPowerAnswerPreserves ==
    ASSUME IInv, NEW w \in Workers, SuspendPowerAnswer(w)
    PROVE  Preserved
<1> DEFINE me == wk[w]
<1>1. Working(me, db) /\ vps' \in Seq(Servers) /\ stripe' \in BOOLEAN
  BY AtWork DEF SuspendPowerAnswer
<1>2. Storable(Suspended(db, me.fresh))
  <2>1. me.fresh \in BOOLEAN
    BY <1>1 DEF Working, Ticks
  <2>2. QED BY <2>1, GoodNow, SuspendedLeads, LeadsIsStorable
<1>3. Done(w, Suspended(db, me.fresh), me) \/ Retry(w, db, me) \/ Fails(w, db, me)
  BY DEF SuspendPowerAnswer
<1>4. QED BY <1>1, <1>2, <1>3, GoodNow, DonePreserves, RetryPreserves, FailsPreserves

\* A row ends only when its deletion is committed and not held.
LEMMA AbsentStorable ==
    ASSUME IInv, NEW d, Follows(db, d), NEW w, NEW fresh \in BOOLEAN, NEW t \in Nat,
           fresh => db.row.holdAt = NoTime,
           d.row.stage \notin {"ready", "deleted"} \/ d.row = db.row
    PROVE  Storable(Absent(d, w, fresh, t))
<1> DEFINE e == Absent(d, w, fresh, t)
<1>1. d \in Dbs
  BY DEF Follows
<1>2. /\ Follows(d, e)
      /\ fresh => e.row.stage = "deleted"
      /\ ~fresh => e.row.stage = d.row.stage
  BY <1>1, AbsentFollows
<1> HIDE DEF e
<1>3. Follows(db, e)
  BY <1>2, FollowsOn
<1>4. Permitted(e)
  BY <1>2 DEF Permitted
<1>5. QED BY <1>3, <1>4 DEF Storable, e

LEMMA StartDeletePreserves ==
    ASSUME IInv, NEW w \in Workers, NEW d, Leads(db, d), d.row = db.row,
           NEW me, Working(me, db),
           StartDelete(w, d, me), vps' \in Seq(Servers), stripe' \in BOOLEAN
    PROVE  Preserved
<1> DEFINE row == d.row
           claimed == ClaimLease(d, w, me.t + LeaseTtl)
           committed == Committed(claimed)
           known == [me EXCEPT !.pid = row.pid, !.fresh = TRUE]
           next == [known EXCEPT !.pc = "delete_get"]
<1>1. d \in Dbs /\ Storable(d) /\ me.t \in Nat /\ me \in Ticks
  BY LeadsIsStorable DEF Leads, Follows, Working, Ticks
<1>2. row.pid \in Nat
  BY <1>1, RowFields
<1>3. /\ Leads(d, claimed) /\ claimed \in Dbs
      /\ claimed.row.holdAt = row.holdAt
  <2>1. me.t + LeaseTtl \in Instants
    BY <1>1, SystemAssumption DEF Instants
  <2>2. QED BY <1>1, <2>1, ClaimLeaseLeads DEF Leads, Follows
<1>4. \/ Done(w, d, me)
      \/ Done(w, ReleaseLease(claimed, w), me)
      \/ /\ row.holdAt = NoTime
         /\ \/ Done(w, Absent(committed, w, TRUE, me.t), me)
            \/ Done(w, Confirming(committed, w, me), me)
            \/ Await(w, committed, known, "delete_get")
  BY DEF StartDelete, DeleteRefused
<1> HIDE DEF claimed
<1>5. /\ Leads(claimed, committed) /\ committed \in Dbs
      /\ committed.row.stage = "deleting"
      /\ committed.row.holdAt = row.holdAt
  BY <1>3, CommittedLeads DEF Leads, Follows
<1> HIDE DEF committed
<1>6. Leads(db, claimed) /\ Leads(db, committed)
  BY <1>3, <1>5, LeadsOn
<1>7. CASE Done(w, d, me)
  BY <1>1, <1>7, DonePreserves
<1>8. CASE Done(w, ReleaseLease(claimed, w), me)
  <2>1. Storable(ReleaseLease(claimed, w))
    BY <1>3, <1>6, ReleaseLeaseLeads, LeadsOn, LeadsIsStorable
  <2>2. QED BY <1>8, <2>1, DonePreserves
<1>9. CASE row.holdAt = NoTime /\ Done(w, Absent(committed, w, TRUE, me.t), me)
  <2>1. Storable(Absent(committed, w, TRUE, me.t))
    BY <1>1, <1>5, <1>6, <1>9, AbsentStorable DEF Leads
  <2>2. QED BY <1>9, <2>1, DonePreserves
<1>10. CASE Done(w, Confirming(committed, w, me), me)
  <2>1. me.key \in Queued(committed)
    BY <1>6, WorkingOn DEF Leads, Working
  <2>2. Storable(Confirming(committed, w, me))
    BY <1>1, <1>5, <1>6, <2>1, ConfirmingLeads, LeadsOn, LeadsIsStorable
  <2>3. QED BY <1>10, <2>2, DonePreserves
<1>11. CASE row.holdAt = NoTime /\ Await(w, committed, known, "delete_get")
  <2>1. known \in Ticks /\ known.due = me.due /\ known.key = me.key
    BY <1>1, <1>2 DEF Ticks
  <2>2. Working(known, db)
    BY <2>1 DEF Working
  <2>3. next.pc = "delete_get"
    BY <2>1 DEF Ticks
  <2>4. TickSees(next, committed.row)
    BY <1>5, <1>11, <2>3 DEF TickSees
  <2>5. Storable(committed)
    BY <1>6, LeadsIsStorable
  <2> HIDE DEF known
  <2>6. QED BY <1>11, <2>2, <2>4, <2>5, AwaitPreserves DEF WorkerPcs
<1>12. QED BY <1>4, <1>7, <1>8, <1>9, <1>10, <1>11

LEMMA ReleasedFails ==
    ASSUME IInv, NEW w \in Workers, NEW me, Working(me, db),
           Fails(w, ReleaseLease(db, w), me), vps' \in Seq(Servers), stripe' \in BOOLEAN
    PROVE  Preserved
<1>1. Storable(ReleaseLease(db, w))
  BY GoodNow, ReleaseLeaseLeads, LeadsIsStorable
<1>2. QED BY <1>1, FailsPreserves

LEMMA DeleteGetAnswerPreserves ==
    ASSUME IInv, NEW w \in Workers, DeleteGetAnswer(w)
    PROVE  Preserved
<1> DEFINE me == wk[w]
           next == [me EXCEPT !.pc = "delete_call"]
<1>1. /\ Working(me, db) /\ vps' \in Seq(Servers) /\ stripe' \in BOOLEAN
      /\ me.pc = "delete_get" /\ (me.fresh => TickSees(me, db.row))
  BY AtWork DEF DeleteGetAnswer
<1>2. me.fresh => db.row.stage = "deleting" /\ db.row.holdAt = NoTime
  BY <1>1 DEF TickSees
<1>3. me \in Ticks /\ me.t \in Nat /\ me.fresh \in BOOLEAN
  BY <1>1 DEF Working, Ticks
<1>4. \/ Await(w, db, me, "delete_call")
      \/ Done(w, Absent(db, w, me.fresh, me.t), me)
      \/ Fails(w, ReleaseLease(db, w), me)
  BY DEF DeleteGetAnswer
<1>5. CASE Await(w, db, me, "delete_call")
  <2>1. next.pc = "delete_call"
    BY <1>3 DEF Ticks
  <2>2. me.fresh => TickSees(next, db.row)
    BY <1>2, <2>1 DEF TickSees
  <2>3. QED BY <1>1, <1>5, <2>2, GoodNow, AwaitPreserves DEF WorkerPcs
<1>6. CASE Done(w, Absent(db, w, me.fresh, me.t), me)
  <2>1. Storable(Absent(db, w, me.fresh, me.t))
    BY <1>2, <1>3, GoodNow, AbsentStorable DEF Storable
  <2>2. QED BY <1>1, <1>6, <2>1, DonePreserves
<1>7. CASE Fails(w, ReleaseLease(db, w), me)
  BY <1>1, <1>7, ReleasedFails
<1>8. QED BY <1>4, <1>5, <1>6, <1>7

LEMMA DeleteCallAnswerPreserves ==
    ASSUME IInv, NEW w \in Workers, DeleteCallAnswer(w)
    PROVE  Preserved
<1> DEFINE me == wk[w]
<1>1. Working(me, db) /\ vps' \in Seq(Servers) /\ stripe' \in BOOLEAN
  BY AtWork DEF DeleteCallAnswer
<1>2. Done(w, Confirming(db, w, me), me) \/ Fails(w, ReleaseLease(db, w), me)
  BY DEF DeleteCallAnswer
<1>3. Storable(Confirming(db, w, me))
  BY <1>1, GoodNow, ConfirmingLeads, LeadsIsStorable DEF Working
<1>4. QED BY <1>1, <1>2, <1>3, DonePreserves, ReleasedFails

LEMMA StripeAnswerPreserves ==
    ASSUME IInv, NEW w \in Workers, StripeAnswer(w)
    PROVE  Preserved
<1> DEFINE me == wk[w]
<1>1. Working(me, db) /\ vps' \in Seq(Servers) /\ stripe' \in BOOLEAN
  BY AtWork DEF StripeAnswer
<1>2. Done(w, db, me) \/ Fails(w, db, me)
  BY DEF StripeAnswer
<1>3. QED BY <1>1, <1>2, GoodNow, DonePreserves, FailsPreserves

-----------------------------------------------------------------------------
(* tick *)

LEMMA TickStartPreserves ==
    ASSUME IInv, NEW w \in Workers, TickStart(w)
    PROVE  Preserved
<1> DEFINE d == ReconcileOwner(db, sub, elig, now)
           due == Due(d, now)
           next == [IdleWorker EXCEPT !.t = now, !.due = due]
<1>1. /\ db \in Dbs /\ sub \in Subscriptions /\ elig \in Eligibilities /\ now \in Nat
      /\ vps' \in Seq(Servers) /\ stripe' \in BOOLEAN
  BY DEF IInv, TypeOK, TickStart
<1>2. Leads(db, d) /\ d \in Dbs
  BY <1>1, ReconcileOwnerLeads DEF Leads, Follows
<1>3. WorkerStep(w, d, Rest(next))
  BY DEF TickStart
<1> HIDE DEF d
<1>4. due \subseteq Queued(d) /\ due \subseteq Keys
  BY <1>2 DEF Due, Queued, Dbs, Jobs
<1> HIDE DEF due
<1>5. next \in Ticks /\ next.due = due
  BY <1>1, <1>4 DEF IdleWorker, Ticks, WorkerPcs, NoServer
<1> HIDE DEF next
<1>6. GoodTick(Rest(next), d)
  BY <1>4, <1>5, RestGood
<1>7. Storable(d)
  BY <1>2, LeadsIsStorable
<1>8. QED BY <1>1, <1>3, <1>6, <1>7, WorkerStepPreserves

LEMMA RunJobPreserves ==
    ASSUME IInv, NEW w \in Workers, NEW d, Leads(db, d), d.row = db.row,
           NEW me, Working(me, db),
           RunJob(w, d, me), vps' \in Seq(Servers), stripe' \in BOOLEAN
    PROVE  Preserved
<1>1. Storable(d)
  BY LeadsIsStorable
<1>2. \/ Done(w, d, me)
      \/ StartProvision(w, d, me)
      \/ StartRecheck(w, d, me)
      \/ StartSuspend(w, d, me)
      \/ StartDelete(w, d, me)
      \/ Await(w, d, me, "stripe")
  BY DEF RunJob
<1>3. "stripe" \in WorkerPcs \ Watched
  BY DEF WorkerPcs, Watched
<1>4. CASE Done(w, d, me)
  BY <1>1, <1>4, DonePreserves
<1>5. CASE StartProvision(w, d, me)
  BY <1>5, StartProvisionPreserves
<1>6. CASE StartRecheck(w, d, me)
  BY <1>6, StartRecheckPreserves
<1>7. CASE StartSuspend(w, d, me)
  BY <1>7, StartSuspendPreserves
<1>8. CASE StartDelete(w, d, me)
  BY <1>8, StartDeletePreserves
<1>9. CASE Await(w, d, me, "stripe")
  BY <1>1, <1>3, <1>9, AwaitPreserves
<1>10. QED BY <1>2, <1>4, <1>5, <1>6, <1>7, <1>8, <1>9

LEMMA DrainNextPreserves ==
    ASSUME IInv, NEW w \in Workers, DrainNext(w)
    PROVE  Preserved
<1> DEFINE me == wk[w]
<1>1. PICK key \in me.due :
        LET taken == [me EXCEPT !.due = @ \ {key}, !.key = key]
        IN  IF Claimable(JobOf(db, key), me.t)
            THEN RunJob(w, ClaimJob(db, key, me.t + LeaseTtl), taken)
            ELSE WorkerStep(w, db, Rest(taken))
  BY DEF DrainNext
<1> DEFINE taken == [me EXCEPT !.due = @ \ {key}, !.key = key]
           claimed == ClaimJob(db, key, me.t + LeaseTtl)
<1>2. /\ db \in Dbs /\ Storable(db) /\ me \in Ticks /\ me.due \subseteq Queued(db)
      /\ vps' \in Seq(Servers) /\ stripe' \in BOOLEAN
  BY GoodNow DEF GoodTick, Knows, IInv, TypeOK, DrainNext
<1>3. key \in Keys /\ me.t + LeaseTtl \in Instants
  BY <1>2, SystemAssumption DEF Ticks, Instants
<1>4. taken \in Ticks /\ taken.due = me.due \ {key} /\ taken.key = key
  BY <1>2, <1>3 DEF Ticks
<1>5. Working(taken, db)
  BY <1>2, <1>4 DEF Working
<1>6. Leads(db, claimed) /\ claimed.row = db.row
  BY <1>2, <1>3, ClaimJobLeads
<1>7. GoodTick(Rest(taken), db)
  BY <1>5, RestGood DEF Working
<1>8. RunJob(w, claimed, taken) \/ WorkerStep(w, db, Rest(taken))
  BY <1>1
<1> HIDE DEF taken, claimed
<1>9. QED BY <1>2, <1>5, <1>6, <1>7, <1>8, RunJobPreserves, WorkerStepPreserves

LEMMA WorkerPreserves ==
    ASSUME IInv, NEW w \in Workers, Worker(w)
    PROVE  Preserved
  BY TickStartPreserves, DrainNextPreserves, PlansAnswerPreserves,
     ProvisionGetAnswerPreserves, ProvisionFindAnswerPreserves,
     ProvisionCreateAnswerPreserves, RestoreGetAnswerPreserves,
     RestorePowerAnswerPreserves, RecheckDeleteAnswerPreserves,
     RecheckGetAnswerPreserves, SuspendPowerAnswerPreserves,
     DeleteGetAnswerPreserves, DeleteCallAnswerPreserves, StripeAnswerPreserves
  DEF Worker

-----------------------------------------------------------------------------
(* requests *)

LEMMA IdleRequestGood == ASSUME NEW d PROVE GoodHandler(IdleRequest, d)
  BY DEF GoodHandler, IdleRequest, Handlers, NoServer

\* A handler that goes off to Stripe or the provider took the row's version.
LEMMA AskedPreserves ==
    ASSUME IInv, NEW r \in Requests, NEW pc \in {"cancel", "resume", "health"},
           Asked(r, pc),
           pc = "cancel" => db.row.stage \notin Terminal,
           pc = "resume" => db.row.stage = "cancel_scheduled",
           pc = "health" =>
               /\ db.row.stage \in {"provisioning", "bootstrapping", "restoring"}
               /\ db.row.pid # NoServer,
           vps' = vps, stripe' = stripe
    PROVE  Preserved
<1> DEFINE next == [IdleRequest EXCEPT !.pc = pc, !.t = now, !.fresh = TRUE,
                        !.gen = db.row.gen, !.pid = db.row.pid, !.tok = db.row.tok]
<1>1. /\ db \in Dbs /\ now \in Nat /\ vps' \in Seq(Servers) /\ stripe' \in BOOLEAN
  BY DEF IInv, TypeOK
<1>2. db.row.gen \in Nat /\ db.row.pid \in Nat /\ db.row.tok \in Nat
  BY <1>1, RowFields
<1>3. IdleRequest \in Handlers
  BY IdleRequestGood DEF GoodHandler
<1>4. next \in Handlers /\ next.pc = pc /\ next.pid = db.row.pid
  BY <1>1, <1>2, <1>3 DEF Handlers
<1>5. HandlerSees(next, db.row)
  BY <1>4 DEF HandlerSees
<1>6. RequestStep(r, db, next)
  BY DEF Asked
<1> HIDE DEF next
<1>7. QED BY <1>1, <1>4, <1>5, <1>6, GoodNow, RequestStepPreserves DEF GoodHandler

LEMMA CancelRequestPreserves ==
    ASSUME IInv, NEW r \in Requests, CancelRequest(r)
    PROVE  Preserved
  BY AskedPreserves DEF CancelRequest

LEMMA ResumeRenewalPreserves ==
    ASSUME IInv, NEW r \in Requests, ResumeRenewal(r) \/ AdminResumeRenewal(r)
    PROVE  Preserved
<1>1. Asked(r, "resume") /\ db.row.stage = "cancel_scheduled" /\ vps' = vps /\ stripe' = stripe
  BY DEF ResumeRenewal, AdminResumeRenewal
<1>2. QED BY <1>1, AskedPreserves

LEMMA ReportReadyPreserves ==
    ASSUME IInv, NEW r \in Requests, ReportReady(r)
    PROVE  Preserved
<1>1. /\ Asked(r, "health") /\ vps' = vps /\ stripe' = stripe
      /\ db.row.stage \in {"provisioning", "bootstrapping", "restoring"}
      /\ db.row.pid # NoServer
  BY DEF ReportReady, BootProof, RestoreProof
<1>2. QED BY <1>1, AskedPreserves

LEMMA CancelAnswerPreserves ==
    ASSUME IInv, NEW r \in Requests, CancelAnswer(r)
    PROVE  Preserved
<1> DEFINE anchor == First(db.row.paid, rq[r].t, rq[r].t)
           d == IF rq[r].fresh THEN ScheduleEnd(db, "intentional", anchor) ELSE db
<1>1. GoodHandler(rq[r], db) /\ db \in Dbs /\ Storable(db)
  BY GoodNow
<1>2. rq[r].t \in Nat /\ db.row.paid \in Instants
  BY <1>1, RowFields DEF GoodHandler, Handlers
<1>3. anchor \in Int
  BY <1>2, FirstType DEF Instants
<1>4. vps' \in Seq(Servers) /\ stripe' \in BOOLEAN
  BY DEF CancelAnswer, IInv, TypeOK
<1>5. RequestStep(r, d, IdleRequest) \/ RequestStep(r, db, IdleRequest)
  BY DEF CancelAnswer
<1> HIDE DEF anchor
<1>6. Storable(d)
  BY <1>1, <1>3, ScheduleEndLeads, LeadsIsStorable
<1> HIDE DEF d
<1>7. QED BY <1>1, <1>4, <1>5, <1>6, IdleRequestGood, RequestStepPreserves

LEMMA ResumeAnswerPreserves ==
    ASSUME IInv, NEW r \in Requests, ResumeAnswer(r)
    PROVE  Preserved
<1> DEFINE d == IF rq[r].fresh THEN Resumed(db) ELSE db
<1>1. /\ GoodHandler(rq[r], db) /\ db \in Dbs /\ Storable(db)
      /\ vps' \in Seq(Servers) /\ stripe' \in BOOLEAN
  BY GoodNow DEF ResumeAnswer, IInv, TypeOK
<1>2. rq[r].fresh => db.row.stage = "cancel_scheduled"
  BY <1>1 DEF GoodHandler, HandlerSees, ResumeAnswer
<1>3. RequestStep(r, d, IdleRequest) \/ RequestStep(r, db, IdleRequest)
  BY DEF ResumeAnswer
<1>4. Storable(d)
  BY <1>1, <1>2, ResumedFollows DEF Storable, Permitted
<1> HIDE DEF d
<1>5. QED BY <1>1, <1>3, <1>4, IdleRequestGood, RequestStepPreserves

LEMMA ObservedLeads ==
    ASSUME NEW d \in Dbs
    PROVE  Leads(d, Observed(d)) /\ Observed(d) \in Dbs
  BY RowFields, UpdateInstanceLeads DEF Observed, Leads, Follows

LEMMA HealthAnswerPreserves ==
    ASSUME IInv, NEW r \in Requests, HealthAnswer(r)
    PROVE  Preserved
<1> DEFINE d == MarkReady(Observed(db))
<1>1. /\ GoodHandler(rq[r], db) /\ db \in Dbs /\ Storable(db)
      /\ vps' \in Seq(Servers) /\ stripe' \in BOOLEAN
  BY GoodNow DEF HealthAnswer, IInv, TypeOK
<1>2. rq[r].fresh =>
        /\ db.row.stage \in {"provisioning", "bootstrapping", "restoring"}
        /\ db.row.pid = rq[r].pid
  BY <1>1 DEF GoodHandler, HandlerSees, HealthAnswer
<1>3. \/ rq[r].fresh /\ ServerOn(rq[r].pid) /\ RequestStep(r, d, IdleRequest)
      \/ RequestStep(r, db, IdleRequest)
  BY DEF HealthAnswer
<1>4. Follows(db, d) /\ d.row.stage = "ready"
  BY <1>1, ObservedLeads, MarkReadyFollows, FollowsOn DEF Leads
<1> HIDE DEF d
<1>5. rq[r].fresh /\ ServerOn(rq[r].pid) => Storable(d)
  BY <1>2, <1>4 DEF Storable, Permitted
<1>6. QED BY <1>1, <1>3, <1>5, IdleRequestGood, RequestStepPreserves

LEMMA RequestPreserves ==
    ASSUME IInv, NEW r \in Requests, Request(r)
    PROVE  Preserved
  BY CancelRequestPreserves, CancelAnswerPreserves, ResumeRenewalPreserves,
     ResumeAnswerPreserves, ReportReadyPreserves, HealthAnswerPreserves
  DEF Request

\* A synchronous step of a server, an operator or billing.
LEMMA SyncPreserves ==
    ASSUME IInv, NEW d, Leads(db, d), SyncStep(d), sub' \in Subscriptions, elig' = elig
    PROVE  Preserved
<1>1. elig' \in Eligibilities
  BY DEF IInv, TypeOK
<1>2. QED BY <1>1, LeadsIsStorable, SyncStepPreserves

LEMMA ReportRefusedPreserves ==
    ASSUME IInv, ReportRefused
    PROVE  Preserved
<1> DEFINE seen == Observed(db)
           draft == [db.row EXCEPT !.note = "none"]
<1>1. db \in Dbs /\ now \in Nat /\ sub' \in Subscriptions /\ elig' = elig
  BY DEF IInv, TypeOK, ReportRefused
<1>2. Leads(db, seen) /\ seen \in Dbs
  BY <1>1, ObservedLeads
<1>3. SyncStep(RefuseReadiness(seen, now)) \/ SyncStep(UpdateInstance(seen, draft))
  BY DEF ReportRefused
<1>4. Leads(db, RefuseReadiness(seen, now))
  BY <1>1, <1>2, RefuseReadinessLeads, LeadsOn
<1>5. Leads(db, UpdateInstance(seen, draft))
  <2>1. draft \in Rows /\ draft.stage = db.row.stage
    BY <1>1 DEF Dbs, Rows
  <2>2. seen.row.stage = db.row.stage
    BY <1>1, RowFields, UpdateInstanceFollows DEF Observed
  <2> HIDE DEF seen, draft
  <2>3. QED BY <1>2, <2>1, <2>2, UpdateInstanceLeads, LeadsOn
<1>6. QED BY <1>1, <1>3, <1>4, <1>5, SyncPreserves

-----------------------------------------------------------------------------
(* the operator *)

LEMMA AdminPreserves ==
    ASSUME IInv, NEW event, NEW d, Leads(db, d), Admin(event, d)
    PROVE  Preserved
<1>1. SyncStep(d) /\ sub' \in Subscriptions /\ elig' = elig
  BY DEF Admin, IInv, TypeOK
<1>2. QED BY <1>1, SyncPreserves

LEMMA AdminRetryProvisioningPreserves ==
    ASSUME IInv, AdminRetryProvisioning
    PROVE  Preserved
<1> DEFINE draft == [db.row EXCEPT !.attempts = 0, !.note = "none"]
           reset == UpdateInstance(db, draft)
<1>1. db \in Dbs /\ now \in Nat
  BY DEF IInv, TypeOK
<1>2. draft \in Rows /\ draft.stage = db.row.stage
  <2>1. draft = [f \in DOMAIN db.row |->
            CASE f = "attempts" -> 0 [] f = "note" -> "none" [] OTHER -> db.row[f]]
    BY Zenon
  <2>2. QED BY <1>1, <2>1, RowFields, SMT DEF Rows
<1>3. Admin("retry", EnqueueProvision(reset, now))
  BY DEF AdminRetryProvisioning
<1> HIDE DEF draft
<1>4. Leads(db, reset) /\ reset \in Dbs
  BY <1>1, <1>2, UpdateInstanceLeads DEF Leads, Follows
<1> HIDE DEF reset
<1>5. QED BY <1>1, <1>3, <1>4, EnqueueProvisionLeads, LeadsOn, AdminPreserves

LEMMA AdminForceSuspendPreserves ==
    ASSUME IInv, AdminForceSuspend
    PROVE  Preserved
<1> DEFINE draft == [db.row EXCEPT !.suspendAt = now, !.note = "none", !.lv = @ + 1]
           forced == UpdateInstance(db, draft)
           job == Job(Key("admin_suspend", forced.row.lv, 0), forced.row, now)
<1>1. db \in Dbs /\ now \in Nat
  BY DEF IInv, TypeOK
<1>2. draft \in Rows /\ draft.stage = db.row.stage
  <2>1. draft = [f \in DOMAIN db.row |->
            CASE f = "suspendAt" -> now [] f = "note" -> "none"
              [] f = "lv" -> db.row.lv + 1 [] OTHER -> db.row[f]]
    BY Zenon
  <2>2. QED BY <1>1, <2>1, RowFields, SMT DEF Rows
<1>3. Admin("force_suspend", Enqueue(forced, job))
  BY DEF AdminForceSuspend
<1> HIDE DEF draft
<1>4. Leads(db, forced) /\ forced \in Dbs
  BY <1>1, <1>2, UpdateInstanceLeads DEF Leads, Follows
<1> HIDE DEF forced
<1>5. "admin_suspend" \in Kinds
  BY DEF Kinds
<1>6. job \in Jobs
  BY <1>1, <1>4, <1>5, RowFields, JobType
<1> HIDE DEF job
<1>7. QED BY <1>3, <1>4, <1>6, EnqueueLeads, LeadsOn, AdminPreserves

LEMMA AdminForceDeletePreserves ==
    ASSUME IInv, AdminForceDelete
    PROVE  Preserved
<1> DEFINE reason == IF db.row.reason = "none" THEN "intentional" ELSE db.row.reason
           suspendAt == IF db.row.suspendAt = NoTime THEN now ELSE db.row.suspendAt
           draft == [db.row EXCEPT
                !.reason = IF @ = "none" THEN "intentional" ELSE @,
                !.suspendAt = IF @ = NoTime THEN now ELSE @,
                !.deleteAt = now, !.note = "none", !.lv = @ + 1]
           forced == UpdateInstance(db, draft)
           job == Job(Key("admin_delete", forced.row.lv, 0), forced.row, now)
<1>1. db \in Dbs /\ now \in Nat
  BY DEF IInv, TypeOK
<1>2. reason \in {"none", "renewal_unpaid", "intentional"} /\ suspendAt \in Int
  BY <1>1, RowFields
<1>3. draft \in Rows /\ draft.stage = db.row.stage
  <2>1. draft = [f \in DOMAIN db.row |->
            CASE f = "reason" -> reason [] f = "suspendAt" -> suspendAt
              [] f = "deleteAt" -> now [] f = "note" -> "none"
              [] f = "lv" -> db.row.lv + 1 [] OTHER -> db.row[f]]
    BY Zenon
  <2> HIDE DEF reason, suspendAt
  <2>2. QED BY <1>1, <1>2, <2>1, RowFields, SMT DEF Rows
<1>4. Admin("force_delete", Enqueue(forced, job))
  BY DEF AdminForceDelete
<1> HIDE DEF draft
<1>5. Leads(db, forced) /\ forced \in Dbs
  BY <1>1, <1>3, UpdateInstanceLeads DEF Leads, Follows
<1> HIDE DEF forced
<1>6. "admin_delete" \in Kinds
  BY DEF Kinds
<1>7. job \in Jobs
  BY <1>1, <1>5, <1>6, RowFields, JobType
<1> HIDE DEF job
<1>8. QED BY <1>4, <1>5, <1>7, EnqueueLeads, LeadsOn, AdminPreserves

LEMMA AdminHoldDeletionPreserves ==
    ASSUME IInv, AdminHoldDeletion
    PROVE  Preserved
<1> DEFINE holdAt == IF db.row.holdAt = NoTime THEN now ELSE db.row.holdAt
           draft == [db.row EXCEPT !.holdAt = IF @ = NoTime THEN now ELSE @]
<1>1. db \in Dbs /\ now \in Nat
  BY DEF IInv, TypeOK
<1>2. holdAt \in Instants
  BY <1>1, RowFields DEF Instants
<1>3. draft = [db.row EXCEPT !.holdAt = holdAt]
  OBVIOUS
<1>4. Admin("hold", UpdateInstance(db, draft))
  BY DEF AdminHoldDeletion
<1> HIDE DEF holdAt, draft
<1>5. draft \in Rows /\ draft.stage = db.row.stage
  BY <1>1, <1>2, <1>3, RowFields DEF Rows
<1>6. QED BY <1>1, <1>4, <1>5, UpdateInstanceLeads, AdminPreserves

LEMMA AdminReleaseHoldPreserves ==
    ASSUME IInv, AdminReleaseHold
    PROVE  Preserved
<1>1. db \in Dbs /\ now \in Nat
  BY DEF IInv, TypeOK
<1>2. QED BY <1>1, ReleasedLeads, AdminPreserves DEF AdminReleaseHold

LEMMA OperatorPreserves ==
    ASSUME IInv, Operator
    PROVE  Preserved
  BY AdminRetryProvisioningPreserves, AdminForceSuspendPreserves,
     AdminForceDeletePreserves, AdminHoldDeletionPreserves, AdminReleaseHoldPreserves
  DEF Operator

-----------------------------------------------------------------------------
(* the environment *)

LEMMA WebhookPreserves ==
    ASSUME IInv, NEW record \in Subscriptions, Webhook(record)
    PROVE  Preserved
<1> DEFINE d == ReconcileOwner(db, record, elig, now)
<1>1. db \in Dbs /\ elig \in Eligibilities /\ now \in Nat
  BY DEF IInv, TypeOK
<1>2. Leads(db, d)
  BY <1>1, ReconcileOwnerLeads
<1>3. SyncStep(d) /\ sub' = record /\ elig' = elig
  BY DEF Webhook
<1>4. QED BY <1>2, <1>3, SyncPreserves

LEMMA BillingPreserves ==
    ASSUME IInv, InvoicePaid \/ SubscriptionUpdated \/ ChargeFlagged
    PROVE  Preserved
<1>1. sub \in Subscriptions
  BY DEF IInv, TypeOK
<1>2. CASE InvoicePaid
  <2>1. PICK end \in sub.end..MaxPaid :
            Webhook([sub EXCEPT !.end = end, !.status = "active"])
    BY <1>2 DEF InvoicePaid
  <2>2. end \in Instants
    BY <1>1, <2>1, SystemAssumption DEF Subscriptions, Instants, NoTime
  <2>3. [sub EXCEPT !.end = end, !.status = "active"] \in Subscriptions
    BY <1>1, <2>2 DEF Subscriptions, Statuses
  <2>4. QED BY <2>1, <2>3, WebhookPreserves
<1>3. CASE SubscriptionUpdated
  <2>0. sub.end \in Instants
    BY <1>1 DEF Subscriptions
  <2>1. PICK status \in Statuses :
            \E end \in sub.end..(IF "pay" \in Events THEN MaxPaid ELSE sub.end) :
                Webhook([sub EXCEPT !.status = status, !.end = end])
    BY <1>3 DEF SubscriptionUpdated
  <2>2. PICK end \in sub.end..(IF "pay" \in Events THEN MaxPaid ELSE sub.end) :
            Webhook([sub EXCEPT !.status = status, !.end = end])
    BY <2>1
  <2>3. end \in Instants
    BY <2>0, <2>2, SystemAssumption DEF Instants, NoTime
  <2>4. [sub EXCEPT !.status = status, !.end = end] \in Subscriptions
    BY <1>1, <2>1, <2>3 DEF Subscriptions
  <2>5. QED BY <2>2, <2>4, WebhookPreserves
<1>4. CASE ChargeFlagged
  <2>1. [sub EXCEPT !.flagged = TRUE] \in Subscriptions
    BY <1>1 DEF Subscriptions
  <2>2. QED BY <1>4, <2>1, WebhookPreserves DEF ChargeFlagged
<1>5. QED BY <1>2, <1>3, <1>4

\* A step that leaves the store, the ticks and the handlers alone.
LEMMA OutsidePreserves ==
    ASSUME IInv, db' = db, wk' = wk, rq' = rq, sub' = sub, stripe' = stripe,
           elig' \in Eligibilities, now' \in Nat, vps' \in Seq(Servers)
    PROVE  Preserved
<1>1. TypeOK'
  BY DEF IInv, TypeOK
<1>2. JobsKnown' /\ SnapshotsHold'
  BY DEF IInv, JobsKnown, SnapshotsHold
<1>3. QED BY <1>1, <1>2 DEF Preserved, IInv, ProvesReady, RespectsHold

LEMMA EnvironmentPreserves ==
    ASSUME IInv, Environment
    PROVE  Preserved
<1>1. TypeOK
  BY DEF IInv
<1>2. CASE InvoicePaid \/ SubscriptionUpdated \/ ChargeFlagged
  BY <1>2, BillingPreserves
<1>3. CASE LicenceChanges
  BY <1>1, <1>3, OutsidePreserves DEF LicenceChanges, TypeOK
<1>4. ASSUME NEW sid \in DOMAIN vps, DeletionEnds(sid) PROVE Preserved
  <2>1. vps' = [vps EXCEPT ![sid] = [vps[sid] EXCEPT !.st = "gone"]]
    BY <1>4 DEF DeletionEnds
  <2>2. [vps[sid] EXCEPT !.st = "gone"] \in Servers
    <3>1. vps[sid] \in Servers
      BY <1>1, <1>4 DEF TypeOK
    <3>2. QED BY <3>1 DEF Servers
  <2>3. vps' \in Seq(Servers)
    BY <1>1, <1>4, <2>1, <2>2 DEF TypeOK
  <2>4. QED BY <1>1, <1>4, <2>3, OutsidePreserves DEF DeletionEnds, TypeOK
<1>5. CASE ClockTicks
  BY <1>1, <1>5, OutsidePreserves DEF ClockTicks, TypeOK
<1>6. QED BY <1>2, <1>3, <1>4, <1>5 DEF Environment

LEMMA CrashPreserves ==
    ASSUME IInv, Crash
    PROVE  Preserved
<1>1. /\ wk' = [w \in Workers |-> IdleWorker] /\ rq' = [r \in Requests |-> IdleRequest]
      /\ db' = db /\ sub' = sub /\ elig' = elig /\ now' = now
  BY DEF Crash
<1>2. vps' \in Seq(Servers)
  <2>1. ASSUME NEW w \in Workers PROVE Effect(wk[w]) \in Seq(Servers)
    BY EffectType DEF IInv, TypeOK
  <2>2. QED BY <2>1 DEF Crash, IInv, TypeOK
<1>3. stripe' \in BOOLEAN
  BY DEF Crash, StripeEffects, IInv, TypeOK
<1>4. IdleWorker \in Ticks /\ IdleRequest \in Handlers
  BY NoKeyGood, IdleRequestGood DEF GoodHandler
<1>5. TypeOK'
  BY <1>1, <1>2, <1>3, <1>4 DEF IInv, TypeOK
<1>6. JobsKnown'
  BY <1>1, NoKeyGood DEF JobsKnown, Knows
<1>7. SnapshotsHold'
  BY <1>1, NoKeyGood DEF SnapshotsHold, IdleRequest
<1>8. QED BY <1>1, <1>5, <1>6, <1>7 DEF Preserved, IInv, ProvesReady, RespectsHold

-----------------------------------------------------------------------------
(* the theorems *)

LEMMA NextPreserves == ASSUME IInv, Next PROVE Preserved
  BY WorkerPreserves, RequestPreserves, ReportRefusedPreserves, OperatorPreserves,
     EnvironmentPreserves, CrashPreserves
  DEF Next, Running

LEMMA StutterPreserves == ASSUME IInv, UNCHANGED vars PROVE Preserved
<1>1. TypeOK'
  BY DEF IInv, TypeOK, vars
<1>2. JobsKnown' /\ SnapshotsHold'
  BY DEF IInv, JobsKnown, SnapshotsHold, vars
<1>3. QED BY <1>1, <1>2 DEF Preserved, IInv, ProvesReady, RespectsHold, vars

LEMMA InitInvariant == Init => IInv
<1> SUFFICES ASSUME Init PROVE IInv
  OBVIOUS
<1>1. OrderedRow \in Rows
  <2>1. Free \in [holder : Workers \cup {"none"}, until : Instants]
    BY DEF Free, Instants
  <2>2. NoTime \in Int /\ NoTime \in Instants /\ NoServer \in Nat
    BY DEF NoTime, NoServer, Instants
  <2>3. "ordered" \in Stages
    BY DEF Stages
  <2>4. QED BY <2>1, <2>2, <2>3 DEF OrderedRow, Rows, Instants
<1>2. ReadyRow \in Rows /\ ReadyRow.version = 0
  <2> DEFINE quoted == TRUE
  <2>1. ReadyRow = [f \in DOMAIN OrderedRow |->
            CASE f = "stage" -> "ready" [] f = "pid" -> 1 [] f = "tok" -> 1
              [] f = "tokUntil" -> 0 [] f = "minted" -> 1 [] f = "attempts" -> 1
              [] f = "quoted" -> quoted [] f = "paid" -> 0 [] OTHER -> OrderedRow[f]]
    BY Zenon DEF ReadyRow
  <2>2. OrderedRow.version = 0 /\ quoted \in BOOLEAN
    BY DEF OrderedRow
  <2> HIDE DEF quoted
  <2>3. QED BY <1>1, <2>1, <2>2, SMT DEF Rows, Stages, Instants
<1>3. InstalledJobs \in SUBSET Jobs
  <2>1. "provision" \in Kinds /\ "bootstrap_timeout" \in Kinds
    BY DEF Kinds
  <2>2. /\ Job(Key("provision", 1, 1), ReadyRow, 0) \in Jobs
        /\ Job(Key("bootstrap_timeout", 1, 1), ReadyRow, 0) \in Jobs
    BY <1>2, <2>1, JobType
  <2>3. \A job \in Jobs : Sent(job) \in Jobs
    BY DEF Sent, Jobs
  <2>4. QED BY <2>2, <2>3 DEF InstalledJobs
<1>4. db \in Dbs /\ db.row.version = 0
  <2>1. CASE InitStage = "ready"
    BY <1>2, <1>3, <2>1 DEF Init, Dbs
  <2>2. CASE InitStage # "ready"
    BY <1>1, <2>2 DEF Init, Dbs, OrderedRow
  <2>3. QED BY <2>1, <2>2
<1>5. vps \in Seq(Servers)
  <2>1. [gen |-> 1, tok |-> 1, st |-> "on"] \in Servers
    BY DEF Servers
  <2>2. QED BY <2>1 DEF Init
<1>6. IdleWorker \in Ticks /\ IdleRequest \in Handlers
  BY NoKeyGood, IdleRequestGood DEF GoodHandler
<1>7. TypeOK
  BY <1>4, <1>5, <1>6 DEF Init, TypeOK, Subscriptions, Statuses, Eligibilities, Instants
<1>8. JobsKnown
  BY NoKeyGood DEF Init, JobsKnown, Knows
<1>9. SnapshotsHold
  BY NoKeyGood DEF Init, SnapshotsHold, IdleRequest
<1>10. QED BY <1>7, <1>8, <1>9 DEF IInv

LEMMA InductiveInvariant == Spec => []IInv
<1>1. IInv /\ [Next]_vars => IInv'
  BY NextPreserves, StutterPreserves DEF Preserved
<1>2. QED BY InitInvariant, <1>1, PTL DEF Spec

\* Every variable keeps its type and every record its version at 0: the store
\* operators, in whatever order a step applies them, lose no field.
THEOREM TypeCorrect == Spec => []TypeOK
<1>1. IInv => TypeOK
  BY DEF IInv
<1>2. QED BY <1>1, InductiveInvariant, PTL

\* For any number of ticks and handlers in flight, whoever's compare-and-swap
\* is going to succeed still sees what it checked before its await.
THEOREM SnapshotsCorrect == Spec => []SnapshotsHold
<1>1. IInv => SnapshotsHold
  BY DEF IInv
<1>2. QED BY <1>1, InductiveInvariant, PTL

\* No interleaving declares a server ready without a proof from the server the
\* row names, or the reversal of a cancellation.
THEOREM ReadyCorrect == Spec => ReadyIsProven
<1>1. IInv /\ [Next]_vars => [ProvesReady]_vars
  BY NextPreserves DEF Preserved
<1>2. QED BY <1>1, InductiveInvariant, PTL DEF Spec, ReadyIsProven

\* No interleaving ends a committed deletion under an operator's hold.
THEOREM HoldCorrect == Spec => HeldNeverDeleted
<1>1. IInv /\ [Next]_vars => [RespectsHold]_vars
  BY NextPreserves DEF Preserved
<1>2. QED BY <1>1, InductiveInvariant, PTL DEF Spec, HeldNeverDeleted
=============================================================================
