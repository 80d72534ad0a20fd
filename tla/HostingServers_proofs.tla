----------------------- MODULE HostingServers_proofs -----------------------
(***************************************************************************)
(* More proofs about Hosting: how many servers an order has at the         *)
(* provider, the credential they were created with, and what becomes of    *)
(* them when the row ends; and the schedule under which a row is suspended *)
(* and its deletion committed.                                             *)
(*                                                                         *)
(* The first section says, for every operator of the store and of the      *)
(* lifecycle, what the row is after it.  The second one reads every action *)
(* of the system as one of a few kinds of step (StepKinds): what it does   *)
(* to the row's generation, server and credential, to the provider's       *)
(* servers, and to what a tick in flight remembers of them.  The           *)
(* invariants are then proved by cases on the kinds.  The last section     *)
(* says that a row that is being deleted stays so.                         *)
(***************************************************************************)
EXTENDS Hosting_proofs

-----------------------------------------------------------------------------
(* the row after an operator *)

\* The row's claim on a server: which one, under which label and credential.
SameServer(r, s) ==
    s.gen = r.gen /\ s.pid = r.pid /\ s.tok = r.tok

\* The row's term and the schedule of its end.
SameSchedule(r, s) ==
    /\ s.paid = r.paid /\ s.reason = r.reason /\ s.holdAt = r.holdAt
    /\ s.suspendAt = r.suspendAt /\ s.deleteAt = r.deleteAt

Alike(r, s) == SameServer(r, s) /\ SameSchedule(r, s) /\ s.stage = r.stage

LEMMA AlikeItself == ASSUME NEW r PROVE Alike(r, r)
  BY DEF Alike, SameServer, SameSchedule

LEMMA AlikeOn == ASSUME NEW r, NEW s, NEW u, Alike(r, s), Alike(s, u) PROVE Alike(r, u)
  BY DEF Alike, SameServer, SameSchedule

LEMMA SameRowAlike == ASSUME NEW d, NEW e, e.row = d.row PROVE Alike(d.row, e.row)
  BY AlikeItself

\* Storing a draft changes nothing of it but the version.
LEMMA StoresDraft ==
    ASSUME NEW d \in Dbs, NEW draft \in Rows
    PROVE  /\ UpdateInstance(d, draft) \in Dbs
           /\ Alike(draft, UpdateInstance(d, draft).row)
           /\ UpdateInstance(d, draft).row.version = d.row.version + 1
<1>1. /\ UpdateInstance(d, draft) \in Dbs
      /\ UpdateInstance(d, draft).row = [draft EXCEPT !.version = d.row.version + 1]
      /\ UpdateInstance(d, draft).row.version = d.row.version + 1
  BY UpdateInstanceFollows DEF Follows
<1>2. Alike(draft, [draft EXCEPT !.version = d.row.version + 1])
  BY DEF Alike, SameServer, SameSchedule, Rows
<1>3. QED BY <1>1, <1>2

LEMMA StoresAlike ==
    ASSUME NEW d \in Dbs, NEW draft \in Rows, Alike(d.row, draft)
    PROVE  UpdateInstance(d, draft) \in Dbs /\ Alike(d.row, UpdateInstance(d, draft).row)
  BY StoresDraft, AlikeOn

LEMMA StoredAlike ==
    ASSUME NEW d \in Dbs
    PROVE  Alike(d.row, Stored(d).row)
  BY DEF Alike, SameServer, SameSchedule, Stored, Dbs, Rows

LEMMA ClaimLeaseAlike ==
    ASSUME NEW d \in Dbs, NEW who \in Workers, NEW until \in Instants
    PROVE  Alike(d.row, ClaimLease(d, who, until).row)
<1> DEFINE draft == [d.row EXCEPT !.lease = [holder |-> who, until |-> until]]
<1>1. draft \in Rows /\ Alike(d.row, draft)
  BY DEF Dbs, Rows, Alike, SameServer, SameSchedule
<1>2. ClaimLease(d, who, until) = UpdateInstance(d, draft)
  BY DEF ClaimLease
<1> HIDE DEF draft
<1>3. QED BY <1>1, <1>2, StoresAlike

LEMMA ReleaseLeaseAlike ==
    ASSUME NEW d \in Dbs, NEW who
    PROVE  Alike(d.row, ReleaseLease(d, who).row)
<1> DEFINE draft == [d.row EXCEPT !.lease = Free]
<1>1. draft \in Rows /\ Alike(d.row, draft)
  BY DEF Dbs, Rows, Free, Instants, Alike, SameServer, SameSchedule
<1>2. ReleaseLease(d, who) \in {d, UpdateInstance(d, draft)}
  BY DEF ReleaseLease
<1> HIDE DEF draft
<1>3. QED BY <1>1, <1>2, StoresAlike, AlikeItself

LEMMA NotedAlike ==
    ASSUME NEW d \in Dbs, NEW note \in {"none", "flagged", "late"}
    PROVE  /\ UpdateInstance(d, [d.row EXCEPT !.note = note]) \in Dbs
           /\ Alike(d.row, UpdateInstance(d, [d.row EXCEPT !.note = note]).row)
<1> DEFINE draft == [d.row EXCEPT !.note = note]
<1>1. draft \in Rows /\ Alike(d.row, draft)
  BY DEF Dbs, Rows, Alike, SameServer, SameSchedule
<1> HIDE DEF draft
<1>2. UpdateInstance(d, draft) \in Dbs /\ Alike(d.row, UpdateInstance(d, draft).row)
  BY <1>1, StoresAlike
<1>3. QED BY <1>2 DEF draft

LEMMA NotifyLatePaymentAlike ==
    ASSUME NEW d \in Dbs
    PROVE  NotifyLatePayment(d) \in Dbs /\ Alike(d.row, NotifyLatePayment(d).row)
  BY NotedAlike, AlikeItself DEF NotifyLatePayment

LEMMA WithFlagAlike ==
    ASSUME NEW d \in Dbs, NEW s
    PROVE  WithFlag(d, s) \in Dbs /\ Alike(d.row, WithFlag(d, s).row)
  BY NotedAlike, AlikeItself DEF WithFlag

LEMMA WithProvisionJobAlike ==
    ASSUME NEW d \in Dbs, NEW s, NEW endOnly, NEW t \in Nat
    PROVE  WithProvisionJob(d, s, endOnly, t) \in Dbs
           /\ Alike(d.row, WithProvisionJob(d, s, endOnly, t).row)
  BY EnqueueProvisionLeads, AlikeItself DEF WithProvisionJob, Leads, Follows

LEMMA FailProvisioningAlike ==
    ASSUME NEW d \in Dbs, NEW t \in Nat
    PROVE  FailProvisioning(d, t) \in Dbs /\ Alike(d.row, FailProvisioning(d, t).row)
<1> DEFINE failed == UpdateInstance(d, [d.row EXCEPT !.note = "none"])
<1>1. failed \in Dbs /\ Alike(d.row, failed.row)
  BY NotedAlike
<1>2. FailProvisioning(d, t) = EnqueueStripeCancel(failed, "stripe_setup_failure", t)
  BY DEF FailProvisioning
<1> HIDE DEF failed
<1>3. QED BY <1>1, <1>2, EnqueueStripeCancelLeads DEF Leads, Follows

LEMMA EnqueueRow == ASSUME NEW d \in Dbs, NEW job PROVE Enqueue(d, job).row = d.row
  BY DEF Enqueue, Dbs

LEMMA RefuseReadinessAlike ==
    ASSUME NEW d \in Dbs, NEW t \in Nat
    PROVE  Alike(d.row, RefuseReadiness(d, t).row)
<1> DEFINE moved == UpdateInstance(d, [d.row EXCEPT !.note = "none"])
           replace == Job(Key("replace_region", d.row.gen, 0), moved.row, t)
           terminal == Job(Key("region_terminal", d.row.gen, 0), d.row, t)
<1>1. \/ RefuseReadiness(d, t) = Enqueue(moved, replace)
      \/ RefuseReadiness(d, t) = Enqueue(d, terminal)
  BY DEF RefuseReadiness
<1>2. Alike(d.row, moved.row)
  BY NotedAlike
<1>3. Enqueue(moved, replace).row = moved.row /\ Enqueue(d, terminal).row = d.row
  <2>1. moved \in Dbs
    BY NotedAlike
  <2> HIDE DEF moved, replace, terminal
  <2>2. QED BY <2>1, EnqueueRow
<1> HIDE DEF moved, replace, terminal
<1>4. QED BY <1>1, <1>2, <1>3, AlikeItself

LEMMA PowerRequestedAlike ==
    ASSUME NEW d \in Dbs
    PROVE  Alike(d.row, PowerRequested(d).row)
  BY NotedAlike, AlikeItself DEF PowerRequested

LEMMA ObservedAlike ==
    ASSUME NEW d \in Dbs
    PROVE  Observed(d) \in Dbs /\ Alike(d.row, Observed(d).row)
  BY StoresDraft, RowFields DEF Observed

LEMMA QuotedAlike ==
    ASSUME NEW d \in Dbs
    PROVE  /\ UpdateInstance(d, [d.row EXCEPT !.quoted = TRUE]) \in Dbs
           /\ Alike(d.row, UpdateInstance(d, [d.row EXCEPT !.quoted = TRUE]).row)
<1> DEFINE draft == [d.row EXCEPT !.quoted = TRUE]
<1>1. draft \in Rows /\ Alike(d.row, draft)
  BY DEF Dbs, Rows, Alike, SameServer, SameSchedule
<1> HIDE DEF draft
<1>2. UpdateInstance(d, draft) \in Dbs /\ Alike(d.row, UpdateInstance(d, draft).row)
  BY <1>1, StoresAlike
<1>3. QED BY <1>2 DEF draft

LEMMA ConfirmingAlike ==
    ASSUME NEW d \in Dbs, NEW w, NEW me \in Ticks, me.key \in Queued(d)
    PROVE  Alike(d.row, Confirming(d, w, me).row)
<1> DEFINE committed == JobOf(d, me.key)
           confirm == [key |-> Key("delete_confirm", committed.lv, me.t),
                       lv |-> committed.lv, gen |-> committed.gen,
                       at |-> me.t + ConfirmDelay, status |-> "pending", lease |-> NoTime]
<1>1. Confirming(d, w, me) = ReleaseLease(Enqueue(d, confirm), w)
  BY DEF Confirming
<1>2. committed.lv \in Nat /\ committed.gen \in Nat /\ me.t \in Nat
  BY JobOfType DEF Jobs, Ticks
<1> HIDE DEF committed
<1>3. confirm \in Jobs
  BY <1>2, SystemAssumption DEF Jobs, Key, Keys, Kinds, Instants
<1> HIDE DEF confirm
<1>4. Enqueue(d, confirm) \in Dbs /\ Enqueue(d, confirm).row = d.row
  BY <1>3, EnqueueLeads DEF Leads, Follows
<1>5. QED BY <1>1, <1>4, ReleaseLeaseAlike

\* The schedule of an end: anchored, with the grace of an unpaid renewal.
EndsAt(s, reason, anchor) ==
    /\ s.reason = reason
    /\ s.suspendAt = anchor + (IF reason = "renewal_unpaid" THEN Grace ELSE 0)
    /\ s.deleteAt = s.suspendAt + Retention

Unscheduled(s) == s.reason = "none" /\ s.suspendAt = NoTime /\ s.deleteAt = NoTime

LEMMA DeadlinesAre ==
    ASSUME NEW anchor \in Int, NEW reason, NEW held \in Int
    PROVE  /\ Deadlines(anchor, reason, held).suspendAt
                = anchor + (IF reason = "renewal_unpaid" THEN Grace ELSE 0) + held
           /\ Deadlines(anchor, reason, held).deleteAt
                = Deadlines(anchor, reason, held).suspendAt + Retention
           /\ Deadlines(anchor, reason, held).suspendAt \in Int
           /\ Deadlines(anchor, reason, held).deleteAt \in Int
  BY PolicyAssumption DEF Deadlines

LEMMA ScheduleEndRow ==
    ASSUME NEW d \in Dbs, NEW reason \in {"renewal_unpaid", "intentional"}, NEW anchor \in Int
    PROVE  LET s == ScheduleEnd(d, reason, anchor).row
           IN  /\ SameServer(d.row, s) /\ EndsAt(s, reason, anchor)
               /\ s.paid = d.row.paid /\ s.holdAt = d.row.holdAt
               /\ s.stage = IF reason = "intentional" THEN "cancel_scheduled" ELSE "past_due"
<1> DEFINE dl == Deadlines(anchor, reason, 0)
           stage == IF reason = "intentional" THEN "cancel_scheduled" ELSE "past_due"
           draft == [d.row EXCEPT
                !.stage = stage, !.reason = reason, !.suspendAt = dl.suspendAt,
                !.deleteAt = dl.deleteAt, !.lv = @ + 1]
           scheduled == UpdateInstance(d, draft)
           current == ObsoleteOlder(scheduled)
<1>1. /\ dl.suspendAt = anchor + (IF reason = "renewal_unpaid" THEN Grace ELSE 0)
      /\ dl.deleteAt = dl.suspendAt + Retention
      /\ dl.suspendAt \in Int /\ dl.deleteAt \in Int
  BY DeadlinesAre, PolicyAssumption
<1>2. stage \in Stages
  BY DEF Stages, Recoverable
<1>3. ScheduleEnd(d, reason, anchor) = QueueDeadlineJobs(current, dl)
  BY DEF ScheduleEnd
<1> HIDE DEF dl, stage
<1>4. /\ draft \in Rows /\ draft.stage = stage /\ draft.reason = reason
      /\ draft.suspendAt = dl.suspendAt /\ draft.deleteAt = dl.deleteAt
      /\ SameServer(d.row, draft)
      /\ draft.paid = d.row.paid /\ draft.holdAt = d.row.holdAt
  <2>1. draft = [f \in DOMAIN d.row |->
            CASE f = "stage" -> stage [] f = "reason" -> reason
              [] f = "suspendAt" -> dl.suspendAt [] f = "deleteAt" -> dl.deleteAt
              [] f = "lv" -> d.row.lv + 1 [] OTHER -> d.row[f]]
    BY Zenon
  <2>2. QED BY <1>1, <1>2, <2>1, RowFields, SMT DEF Rows, SameServer
<1> HIDE DEF draft
<1>5. scheduled \in Dbs /\ Alike(draft, scheduled.row)
  BY <1>4, StoresDraft
<1> HIDE DEF scheduled
<1>6. current \in Dbs /\ current.row = scheduled.row
  BY <1>5, ObsoleteOlderLeads DEF Leads, Follows
<1> HIDE DEF current
<1>7. QueueDeadlineJobs(current, dl).row = current.row
  BY <1>1, <1>6, QueueDeadlineJobsLeads
<1>8. Alike(draft, ScheduleEnd(d, reason, anchor).row)
  BY <1>3, <1>5, <1>6, <1>7
<1>9. QED BY <1>1, <1>4, <1>8 DEF Alike, SameServer, SameSchedule, EndsAt, stage

LEMMA RestoreRow ==
    ASSUME NEW d \in Dbs, NEW periodEnd \in Instants, NEW t \in Nat
    PROVE  LET s == Restore(d, periodEnd, t).row
           IN  /\ SameServer(d.row, s) /\ Unscheduled(s)
               /\ s.paid = periodEnd /\ s.holdAt = d.row.holdAt /\ s.stage = "restoring"
<1> DEFINE draft == [d.row EXCEPT
                !.paid = periodEnd, !.reason = "none", !.suspendAt = NoTime,
                !.deleteAt = NoTime, !.stage = "restoring", !.note = "none", !.lv = @ + 1]
           restoring == UpdateInstance(d, draft)
           queued == ObsoleteOlder(restoring)
           job == Job(Key("restore", restoring.row.lv, 0), restoring.row, t)
<1>1. /\ draft \in Rows /\ draft.stage = "restoring" /\ Unscheduled(draft)
      /\ SameServer(d.row, draft)
      /\ draft.paid = periodEnd /\ draft.holdAt = d.row.holdAt
  <2>1. draft = [f \in DOMAIN d.row |->
            CASE f = "paid" -> periodEnd [] f = "reason" -> "none"
              [] f = "suspendAt" -> NoTime [] f = "deleteAt" -> NoTime
              [] f = "stage" -> "restoring" [] f = "note" -> "none"
              [] f = "lv" -> d.row.lv + 1 [] OTHER -> d.row[f]]
    BY Zenon
  <2>2. QED BY <2>1, RowFields, SMT DEF Rows, NoTime, Stages, Recoverable,
                                      SameServer, Unscheduled
<1>2. Restore(d, periodEnd, t) = Enqueue(queued, job)
  BY DEF Restore
<1> HIDE DEF draft
<1>3. restoring \in Dbs /\ Alike(draft, restoring.row)
  BY <1>1, StoresDraft
<1> HIDE DEF restoring
<1>4. queued \in Dbs /\ queued.row = restoring.row
  BY <1>3, ObsoleteOlderLeads DEF Leads, Follows
<1> HIDE DEF queued, job
<1>5. Alike(draft, Restore(d, periodEnd, t).row)
  BY <1>2, <1>3, <1>4, EnqueueRow
<1>6. QED BY <1>1, <1>5 DEF Alike, SameServer, SameSchedule, Unscheduled

\* A renewal moves the term on.  It clears an end nobody wanted and leaves the
\* schedule of an intentional one.
LEMMA RenewRow ==
    ASSUME NEW d \in Dbs, NEW periodEnd \in Instants, NEW t \in Nat
    PROVE  LET s == Renew(d, periodEnd, t).row
           IN  /\ SameServer(d.row, s)
               /\ s.paid = periodEnd /\ s.holdAt = d.row.holdAt /\ s.stage = d.row.stage
               /\ \/ d.row.reason # "intentional" /\ Unscheduled(s)
                  \/ /\ d.row.reason = "intentional" \/ Unscheduled(d.row)
                     /\ s.reason = d.row.reason
                     /\ s.suspendAt = d.row.suspendAt /\ s.deleteAt = d.row.deleteAt
<1> DEFINE row == d.row
           clears == /\ row.reason # "intentional"
                     /\ row.reason # "none" \/ row.suspendAt # NoTime \/ row.deleteAt # NoTime
           paid == [row EXCEPT !.paid = periodEnd]
           cleared == [paid EXCEPT !.suspendAt = NoTime, !.deleteAt = NoTime,
                                   !.reason = "none", !.lv = @ + 1]
           renewed == UpdateInstance(d, cleared)
           current == ObsoleteOlder(renewed)
           s == Renew(d, periodEnd, t).row
<1>1. \/ ~clears /\ Renew(d, periodEnd, t) = UpdateInstance(d, paid)
      \/ clears /\ Renew(d, periodEnd, t) \in {current, EnqueueProvision(current, t)}
  BY DEF Renew
<1>2. /\ paid \in Rows /\ SameServer(row, paid) /\ paid.stage = row.stage
      /\ paid.paid = periodEnd /\ paid.holdAt = row.holdAt
      /\ paid.reason = row.reason /\ paid.suspendAt = row.suspendAt
      /\ paid.deleteAt = row.deleteAt
  BY DEF Dbs, Rows, SameServer
<1> HIDE DEF paid
<1>3. /\ cleared \in Rows /\ SameServer(paid, cleared) /\ cleared.stage = paid.stage
      /\ cleared.paid = paid.paid /\ cleared.holdAt = paid.holdAt /\ Unscheduled(cleared)
  <2>1. cleared = [f \in DOMAIN paid |->
            CASE f = "suspendAt" -> NoTime [] f = "deleteAt" -> NoTime
              [] f = "reason" -> "none" [] f = "lv" -> paid.lv + 1 [] OTHER -> paid[f]]
    BY Zenon
  <2>2. QED BY <1>2, <2>1, SMT DEF Rows, NoTime, SameServer, Unscheduled
<1> HIDE DEF cleared
<1>4. CASE ~clears /\ Renew(d, periodEnd, t) = UpdateInstance(d, paid)
  <2>1. Alike(paid, s)
    BY <1>2, <1>4, StoresDraft
  <2>2. QED BY <1>2, <1>4, <2>1 DEF Alike, SameServer, SameSchedule, Unscheduled
<1>5. CASE clears /\ Renew(d, periodEnd, t) \in {current, EnqueueProvision(current, t)}
  <2>1. renewed \in Dbs /\ Alike(cleared, renewed.row)
    BY <1>3, StoresDraft
  <2> HIDE DEF renewed
  <2>2. current \in Dbs /\ current.row = renewed.row
    BY <2>1, ObsoleteOlderLeads DEF Leads, Follows
  <2> HIDE DEF current
  <2>3. EnqueueProvision(current, t).row = current.row
    BY <2>2, EnqueueProvisionLeads
  <2>4. Alike(cleared, s)
    BY <1>5, <2>1, <2>2, <2>3
  <2>5. QED BY <1>2, <1>3, <1>5, <2>4 DEF Alike, SameServer, SameSchedule, Unscheduled
<1>6. QED BY <1>1, <1>4, <1>5

(* What the owner's reconciliation against a billing record does to the row. *)

EndsUnpaid(r, s, t) ==
    /\ r.stage \notin Terminal /\ r.reason = "none"
    /\ EndsAt(s, "renewal_unpaid", First(r.paid, t, t))
    /\ s.paid = r.paid /\ s.holdAt = r.holdAt /\ s.stage = "past_due"

EndsIntentionally(r, s, anchor) ==
    /\ r.stage \notin Terminal
    /\ EndsAt(s, "intentional", anchor)
    /\ s.paid = r.paid /\ s.holdAt = r.holdAt /\ s.stage = "cancel_scheduled"

IsRestored(r, s, end) ==
    /\ r.stage \in Recoverable /\ end > r.paid
    /\ Unscheduled(s) /\ s.paid = end /\ s.holdAt = r.holdAt /\ s.stage = "restoring"

IsRenewed(r, s, end) ==
    /\ r.stage \notin Terminal \cup Recoverable /\ end > r.paid
    /\ s.paid = end /\ s.holdAt = r.holdAt /\ s.stage = r.stage
    /\ \/ r.reason # "intentional" /\ Unscheduled(s)
       \/ /\ r.reason = "intentional" \/ Unscheduled(r)
          /\ s.reason = r.reason /\ s.suspendAt = r.suspendAt /\ s.deleteAt = r.deleteAt

IsBilled(r, s, record, t) ==
    /\ SameServer(r, s)
    /\ \/ Alike(r, s)
       \/ EndsUnpaid(r, s, t)
       \/ EndsIntentionally(r, s, First(record.end, r.paid, t))
       \/ IsRestored(r, s, record.end)
       \/ IsRenewed(r, s, record.end)

\* An order whose licence is refused before there was a server.
IsRefused(r, s) ==
    /\ r.stage = "ordered" /\ r.pid = NoServer
    /\ SameServer(r, s) /\ SameSchedule(r, s) /\ s.stage = "deleted"

LEMMA BilledAfterAlike ==
    ASSUME NEW r, NEW s, NEW u, NEW record, NEW t, Alike(r, s), IsBilled(s, u, record, t)
    PROVE  IsBilled(r, u, record, t)
<1>1. SameServer(r, u)
  BY DEF Alike, IsBilled, SameServer
<1>2. CASE Alike(s, u)
  BY <1>1, <1>2, AlikeOn DEF IsBilled
<1>3. CASE ~Alike(s, u)
  BY <1>1, <1>3
  DEF IsBilled, Alike, SameSchedule, EndsUnpaid, EndsIntentionally, IsRestored, IsRenewed,
      Unscheduled
<1>4. QED BY <1>2, <1>3

LEMMA BilledThenAlike ==
    ASSUME NEW r, NEW s, NEW u, NEW record, NEW t, IsBilled(r, s, record, t), Alike(s, u)
    PROVE  IsBilled(r, u, record, t)
<1>1. SameServer(r, u)
  BY DEF Alike, IsBilled, SameServer
<1>2. CASE Alike(r, s)
  BY <1>1, <1>2, AlikeOn DEF IsBilled
<1>3. CASE ~Alike(r, s)
  BY <1>1, <1>3
  DEF IsBilled, Alike, SameSchedule, EndsUnpaid, EndsIntentionally, IsRestored, IsRenewed,
      Unscheduled, EndsAt
<1>4. QED BY <1>2, <1>3

LEMMA ApplyBillingSignalRow ==
    ASSUME NEW d0 \in Dbs, NEW s \in Subscriptions, NEW endOnly \in BOOLEAN, NEW t \in Nat
    PROVE  IsBilled(d0.row, ApplyBillingSignal(d0, s, endOnly, t).row, s, t)
<1> DEFINE d1 == WithProvisionJob(d0, s, endOnly, t)
           d == WithFlag(d1, s)
           e == ApplyBillingSignal(d0, s, endOnly, t)
           row == d.row
<1>1. d1 \in Dbs /\ Alike(d0.row, d1.row)
  BY WithProvisionJobAlike
<1>2. d \in Dbs /\ Alike(d0.row, row)
  BY <1>1, WithFlagAlike, AlikeOn
<1> SUFFICES IsBilled(row, e.row, s, t)
  BY <1>2, BilledAfterAlike
<1>3. s.end \in Instants /\ row.paid \in Instants
  BY <1>2, RowFields DEF Subscriptions
<1>4. \/ e \in {d, NotifyLatePayment(d)}
      \/ /\ row.stage \in Recoverable /\ s.end > row.paid
         /\ e = Restore(d, s.end, t)
      \/ /\ row.stage \notin Terminal \cup Recoverable /\ s.end > row.paid
         /\ e = Renew(d, s.end, t)
      \/ /\ row.stage \notin Terminal
         /\ e = ScheduleEnd(d, "intentional", First(s.end, row.paid, t))
      \/ /\ row.stage \notin Terminal /\ row.reason = "none"
         /\ e = ScheduleEnd(d, "renewal_unpaid", First(row.paid, t, t))
  BY SMTT(60) DEF ApplyBillingSignal
<1> HIDE DEF d, d1, e
<1>5. First(s.end, row.paid, t) \in Int /\ First(row.paid, t, t) \in Int
  BY <1>3, FirstType DEF Instants
<1>6. CASE e \in {d, NotifyLatePayment(d)}
  BY <1>2, <1>6, NotifyLatePaymentAlike, AlikeItself DEF IsBilled, Alike
<1>7. CASE row.stage \in Recoverable /\ s.end > row.paid /\ e = Restore(d, s.end, t)
  BY <1>2, <1>3, <1>7, RestoreRow DEF IsBilled, IsRestored
<1>8. CASE /\ row.stage \notin Terminal \cup Recoverable /\ s.end > row.paid
           /\ e = Renew(d, s.end, t)
  BY <1>2, <1>3, <1>8, RenewRow DEF IsBilled, IsRenewed
<1>9. CASE /\ row.stage \notin Terminal
           /\ e = ScheduleEnd(d, "intentional", First(s.end, row.paid, t))
  BY <1>2, <1>5, <1>9, ScheduleEndRow DEF IsBilled, EndsIntentionally
<1>10. CASE /\ row.stage \notin Terminal /\ row.reason = "none"
            /\ e = ScheduleEnd(d, "renewal_unpaid", First(row.paid, t, t))
  BY <1>2, <1>5, <1>10, ScheduleEndRow DEF IsBilled, EndsUnpaid
<1>11. QED BY <1>4, <1>6, <1>7, <1>8, <1>9, <1>10

LEMMA ReconcileOwnerRow ==
    ASSUME NEW d \in Dbs, NEW s \in Subscriptions, NEW e \in Eligibilities, NEW t \in Nat
    PROVE  LET next == ReconcileOwner(d, s, e, t).row
           IN  IsBilled(d.row, next, s, t) \/ IsRefused(d.row, next)
<1> DEFINE next == ReconcileOwner(d, s, e, t)
           ended == ApplyBillingSignal(d, s, TRUE, t)
           refused == EnqueueStripeCancel(d, "stripe_ineligible", t)
           draft == [d.row EXCEPT !.stage = "deleted"]
<1>1. \/ next \in {d, NotifyLatePayment(d)}
      \/ next = ApplyBillingSignal(d, s, FALSE, t)
      \/ /\ d.row.stage = "ordered" /\ d.row.pid = NoServer
         /\ next = UpdateInstance(refused, draft)
      \/ next = EnqueueStripeCancel(ended, "stripe_ineligible", t)
  BY DEF ReconcileOwner, Eligibilities
<1> HIDE DEF next
<1>2. CASE next \in {d, NotifyLatePayment(d)}
  <2>1. Alike(d.row, next.row)
    BY <1>2, NotifyLatePaymentAlike, AlikeItself
  <2>2. QED BY <2>1 DEF IsBilled, Alike, next
<1>3. CASE next = ApplyBillingSignal(d, s, FALSE, t)
  BY <1>3, ApplyBillingSignalRow DEF next
<1>4. CASE next = EnqueueStripeCancel(ended, "stripe_ineligible", t)
  <2>1. ended \in Dbs
    BY ApplyBillingSignalLeads DEF Leads, Follows
  <2>2. next.row = ended.row
    BY <1>4, <2>1, EnqueueStripeCancelLeads
  <2>3. QED BY <2>2, ApplyBillingSignalRow DEF next
<1>5. CASE /\ d.row.stage = "ordered" /\ d.row.pid = NoServer
           /\ next = UpdateInstance(refused, draft)
  <2>1. /\ draft \in Rows /\ draft.stage = "deleted"
        /\ SameServer(d.row, draft) /\ SameSchedule(d.row, draft)
    BY DEF Dbs, Rows, Stages, Terminal, SameServer, SameSchedule
  <2>2. refused \in Dbs
    BY EnqueueStripeCancelLeads DEF Leads, Follows
  <2> HIDE DEF draft, refused
  <2>3. Alike(draft, next.row)
    BY <1>5, <2>1, <2>2, StoresDraft
  <2>4. IsRefused(d.row, next.row)
    BY <1>5, <2>1, <2>3 DEF IsRefused, Alike, SameServer, SameSchedule
  <2>5. QED BY <2>4 DEF next
<1>6. QED BY <1>1, <1>2, <1>3, <1>4, <1>5

\* Only the stage moves.
Staged(r, s, stage) == SameServer(r, s) /\ SameSchedule(r, s) /\ s.stage = stage

LEMMA StagedThenAlike ==
    ASSUME NEW r, NEW s, NEW u, NEW stage, Staged(r, s, stage), Alike(s, u)
    PROVE  Staged(r, u, stage)
  BY DEF Staged, Alike, SameServer, SameSchedule

LEMMA AlikeThenStaged ==
    ASSUME NEW r, NEW s, NEW u, NEW stage, Alike(r, s), Staged(s, u, stage)
    PROVE  Staged(r, u, stage)
  BY DEF Staged, Alike, SameServer, SameSchedule

LEMMA MarkReadyRow ==
    ASSUME NEW d \in Dbs
    PROVE  Staged(d.row, MarkReady(d).row, "ready")
<1> DEFINE draft == [d.row EXCEPT !.stage = "ready", !.note = "none"]
<1>1. draft \in Rows /\ Staged(d.row, draft, "ready")
  <2>1. draft = [f \in DOMAIN d.row |->
            CASE f = "stage" -> "ready" [] f = "note" -> "none" [] OTHER -> d.row[f]]
    BY Zenon
  <2>2. QED BY <2>1, RowFields, SMT DEF Rows, Stages, Staged, SameServer, SameSchedule
<1>2. MarkReady(d) = UpdateInstance(d, draft)
  BY DEF MarkReady
<1> HIDE DEF draft
<1>3. QED BY <1>1, <1>2, StoresDraft, StagedThenAlike

LEMMA SuspendedRow ==
    ASSUME NEW d \in Dbs
    PROVE  /\ Staged(d.row, Suspended(d, TRUE).row, "suspended")
           /\ Suspended(d, FALSE) = d
<1> DEFINE draft == [d.row EXCEPT !.stage = "suspended"]
<1>1. draft \in Rows /\ Staged(d.row, draft, "suspended")
  BY DEF Dbs, Rows, Stages, Recoverable, Staged, SameServer, SameSchedule
<1>2. Suspended(d, TRUE) = UpdateInstance(d, draft) /\ Suspended(d, FALSE) = d
  BY DEF Suspended
<1> HIDE DEF draft
<1>3. QED BY <1>1, <1>2, StoresDraft, StagedThenAlike

LEMMA CommittedRow ==
    ASSUME NEW d \in Dbs
    PROVE  Committed(d) \in Dbs /\ Staged(d.row, Committed(d).row, "deleting")
<1> DEFINE draft == [d.row EXCEPT !.stage = "deleting"]
<1>1. draft \in Rows /\ Staged(d.row, draft, "deleting")
  BY DEF Dbs, Rows, Stages, Terminal, Staged, SameServer, SameSchedule
<1> DEFINE written == UpdateInstance(d, draft)
<1>2. Committed(d) = ObsoleteOlder(written)
  BY DEF Committed
<1> HIDE DEF draft
<1>3. written \in Dbs /\ Staged(d.row, written.row, "deleting")
  BY <1>1, StoresDraft, StagedThenAlike
<1> HIDE DEF written
<1>4. Committed(d) \in Dbs /\ Committed(d).row = written.row
  BY <1>2, <1>3, ObsoleteOlderLeads DEF Leads, Follows
<1>5. QED BY <1>3, <1>4

LEMMA AttemptRow ==
    ASSUME NEW d \in Dbs
    PROVE  Staged(d.row,
                  UpdateInstance(d, [d.row EXCEPT !.stage = "provisioning", !.attempts = @ + 1]).row,
                  "provisioning")
<1> DEFINE draft == [d.row EXCEPT !.stage = "provisioning", !.attempts = @ + 1]
<1>1. draft \in Rows /\ Staged(d.row, draft, "provisioning")
  <2>1. draft = [f \in DOMAIN d.row |->
            CASE f = "stage" -> "provisioning" [] f = "attempts" -> d.row.attempts + 1
              [] OTHER -> d.row[f]]
    BY Zenon
  <2>2. QED BY <2>1, RowFields, SMT DEF Rows, Stages, Staged, SameServer, SameSchedule
<1> HIDE DEF draft
<1>2. Staged(d.row, UpdateInstance(d, draft).row, "provisioning")
  BY <1>1, StoresDraft, StagedThenAlike
<1>3. QED BY <1>2 DEF draft

\* The end of a row: its credential goes with it.
IsEnded(r, s) ==
    s.gen = r.gen /\ s.pid = r.pid /\ SameSchedule(r, s) /\ s.stage = "deleted"

LEMMA AbsentRow ==
    ASSUME NEW d \in Dbs, NEW w, NEW fresh \in BOOLEAN, NEW t \in Nat
    PROVE  /\ fresh => IsEnded(d.row, Absent(d, w, fresh, t).row)
           /\ ~fresh => Alike(d.row, Absent(d, w, fresh, t).row)
<1> DEFINE res == {[r EXCEPT !.present = FALSE] : r \in d.res}
           removed == [d EXCEPT !.res = res]
           draft == [d.row EXCEPT !.stage = "deleted", !.tok = 0, !.tokUntil = NoTime]
           ended == UpdateInstance(removed, draft)
           done == EnqueueStripeCancel(ended, "stripe_terminated", t)
<1>1. Absent(d, w, fresh, t) = ReleaseLease(IF fresh THEN done ELSE removed, w)
  BY DEF Absent
<1>2. res \in SUBSET [pid : Nat, gen : Nat, present : BOOLEAN]
  BY DEF Dbs
<1> HIDE DEF res
<1>3. removed.row = d.row /\ removed \in Dbs
  BY <1>2, ResourcesLeads DEF Leads, Follows
<1> HIDE DEF removed
<1>4. draft \in Rows /\ IsEnded(d.row, draft)
  <2>1. draft = [f \in DOMAIN d.row |->
            CASE f = "stage" -> "deleted" [] f = "tok" -> 0 [] f = "tokUntil" -> NoTime
              [] OTHER -> d.row[f]]
    BY Zenon
  <2>2. QED BY <2>1, RowFields, SMT DEF Rows, Stages, Terminal, Instants, IsEnded, SameSchedule
<1> HIDE DEF draft
<1>5. ended \in Dbs /\ Alike(draft, ended.row)
  BY <1>3, <1>4, StoresDraft
<1> HIDE DEF ended
<1>6. done \in Dbs /\ Alike(draft, done.row)
  BY <1>5, EnqueueStripeCancelLeads DEF Leads, Follows
<1> HIDE DEF done
<1>7. CASE fresh
  <2>1. Alike(draft, Absent(d, w, fresh, t).row)
    BY <1>1, <1>6, <1>7, ReleaseLeaseAlike, AlikeOn
  <2>2. QED BY <1>4, <1>7, <2>1 DEF IsEnded, Alike, SameServer, SameSchedule
<1>8. CASE ~fresh
  BY <1>1, <1>3, <1>8, ReleaseLeaseAlike
<1>9. QED BY <1>7, <1>8

\* The row settles on a server and waits for its proof.
IsInstalled(r, s, sid) ==
    /\ s.gen = r.gen /\ s.pid = sid /\ s.tok = r.tok
    /\ SameSchedule(r, s) /\ s.stage = "bootstrapping"

LEMMA BootstrappingRow ==
    ASSUME NEW d \in Dbs, NEW me \in Ticks, NEW sid \in Nat
    PROVE  IsInstalled(d.row, Bootstrapping(d, me, sid).row, sid)
<1> DEFINE recorded == RecordResource(d, sid, me.gen)
           row == recorded.row
           draft == [row EXCEPT !.pid = sid, !.stage = "bootstrapping"]
           installed == UpdateInstance(recorded, draft)
           at == IF row.tokUntil # NoTime THEN row.tokUntil ELSE me.t + TokenTtl
           job == Job(Key("bootstrap_timeout", row.attempts, row.gen), installed.row, at)
<1>1. Bootstrapping(d, me, sid) = Enqueue(installed, job)
  BY DEF Bootstrapping
<1>2. me.gen \in Nat
  BY DEF Ticks
<1>3. recorded \in Dbs /\ recorded.row = d.row
  BY <1>2, RecordResourceLeads DEF Leads, Follows
<1> HIDE DEF recorded
<1>4. draft \in Rows /\ IsInstalled(row, draft, sid)
  <2>1. draft = [f \in DOMAIN row |->
            CASE f = "pid" -> sid [] f = "stage" -> "bootstrapping" [] OTHER -> row[f]]
    BY Zenon
  <2>2. row \in Rows
    BY <1>3, RowFields
  <2> HIDE DEF row
  <2>3. QED BY <2>1, <2>2, SMT DEF Rows, Stages, IsInstalled, SameSchedule
<1> HIDE DEF draft
<1>5. installed \in Dbs /\ Alike(draft, installed.row)
  BY <1>3, <1>4, StoresDraft
<1> HIDE DEF installed, job
<1>6. Alike(draft, Bootstrapping(d, me, sid).row)
  BY <1>1, <1>5, EnqueueRow
<1>7. QED BY <1>3, <1>4, <1>6 DEF IsInstalled, Alike, SameServer, SameSchedule

\* A new credential is stored and nothing else.
IsMinted(r, s, tok) ==
    /\ s.gen = r.gen /\ s.pid = r.pid /\ s.tok = tok
    /\ SameSchedule(r, s) /\ s.stage = r.stage

LEMMA MintedRow ==
    ASSUME NEW d \in Dbs, NEW tok \in Nat, NEW until \in Nat
    PROVE  IsMinted(d.row, UpdateInstance(d, [d.row EXCEPT
                !.minted = tok, !.tok = tok, !.tokUntil = until]).row, tok)
<1> DEFINE draft == [d.row EXCEPT !.minted = tok, !.tok = tok, !.tokUntil = until]
<1>1. draft \in Rows /\ IsMinted(d.row, draft, tok)
  <2>1. draft = [f \in DOMAIN d.row |->
            CASE f = "minted" -> tok [] f = "tok" -> tok [] f = "tokUntil" -> until
              [] OTHER -> d.row[f]]
    BY Zenon
  <2>2. QED BY <2>1, RowFields, SMT DEF Rows, Instants, IsMinted, SameSchedule
<1> HIDE DEF draft
<1>2. Alike(draft, UpdateInstance(d, draft).row)
  BY <1>1, StoresDraft
<1>3. IsMinted(d.row, UpdateInstance(d, draft).row, tok)
  BY <1>1, <1>2 DEF IsMinted, Alike, SameServer, SameSchedule
<1>4. QED BY <1>3 DEF draft

\* The row lets go of its server, and may start again under the next generation.
IsCleared(r, s) ==
    /\ s.pid = NoServer /\ SameSchedule(r, s)
    /\ \/ s.gen = r.gen /\ s.tok = r.tok /\ s.stage = r.stage
       \/ s.gen = r.gen + 1 /\ s.tok = 0 /\ s.stage = "provisioning"

LEMMA CleanedUpRow ==
    ASSUME NEW d \in Dbs, NEW me \in Ticks
    PROVE  IsCleared(d.row, CleanedUp(d, me).row)
<1> DEFINE removed == MarkRemoved(d, {me.gen})
           moved == [removed.row EXCEPT
                !.tried = @ + 1, !.gen = @ + 1, !.attempts = 0, !.pid = NoServer,
                !.tok = 0, !.tokUntil = NoTime, !.stage = "provisioning"]
           ended == [removed.row EXCEPT !.pid = NoServer, !.tokUntil = NoTime]
<1>1. me.t \in Nat
  BY DEF Ticks
<1>2. removed \in Dbs /\ removed.row = d.row
  BY MarkRemovedLeads DEF Leads, Follows
<1>3. \/ CleanedUp(d, me) = EnqueueProvision(UpdateInstance(removed, moved), me.t)
      \/ CleanedUp(d, me) = FailProvisioning(UpdateInstance(removed, ended), me.t)
  BY DEF CleanedUp, NextRegion, SetupEnded
<1> HIDE DEF removed
<1>4. moved \in Rows /\ IsCleared(removed.row, moved)
  <2>1. moved = [f \in DOMAIN removed.row |->
            CASE f = "tried" -> removed.row.tried + 1 [] f = "gen" -> removed.row.gen + 1
              [] f = "attempts" -> 0 [] f = "pid" -> NoServer [] f = "tok" -> 0
              [] f = "tokUntil" -> NoTime [] f = "stage" -> "provisioning"
              [] OTHER -> removed.row[f]]
    BY Zenon
  <2>2. QED BY <1>2, <2>1, RowFields, SMT
        DEF Rows, Stages, Instants, NoTime, NoServer, IsCleared, SameSchedule
<1>5. ended \in Rows /\ IsCleared(removed.row, ended)
  <2>1. ended = [f \in DOMAIN removed.row |->
            CASE f = "pid" -> NoServer [] f = "tokUntil" -> NoTime [] OTHER -> removed.row[f]]
    BY Zenon
  <2>2. QED BY <1>2, <2>1, RowFields, SMT
        DEF Rows, Instants, NoServer, IsCleared, SameSchedule
<1> HIDE DEF moved, ended
<1>6. /\ UpdateInstance(removed, moved) \in Dbs /\ UpdateInstance(removed, ended) \in Dbs
      /\ Alike(moved, UpdateInstance(removed, moved).row)
      /\ Alike(ended, UpdateInstance(removed, ended).row)
  BY <1>2, <1>4, <1>5, StoresDraft
<1>7. /\ Alike(moved, EnqueueProvision(UpdateInstance(removed, moved), me.t).row)
      /\ Alike(ended, FailProvisioning(UpdateInstance(removed, ended), me.t).row)
  BY <1>1, <1>6, EnqueueProvisionLeads, FailProvisioningAlike, AlikeOn
<1>8. QED BY <1>2, <1>3, <1>4, <1>5, <1>7
          DEF IsCleared, Alike, SameServer, SameSchedule

IsResumed(r, s) ==
    SameServer(r, s) /\ Unscheduled(s) /\ s.paid = r.paid /\ s.holdAt = NoTime /\ s.stage = "ready"

LEMMA ResumedRow ==
    ASSUME NEW d \in Dbs
    PROVE  IsResumed(d.row, Resumed(d).row)
<1> DEFINE draft == [d.row EXCEPT
                !.reason = "none", !.suspendAt = NoTime, !.deleteAt = NoTime,
                !.stage = "ready", !.holdAt = NoTime, !.lv = @ + 1]
           written == UpdateInstance(d, draft)
<1>1. Resumed(d) = ObsoleteOlder(written)
  BY DEF Resumed
<1>2. draft \in Rows /\ IsResumed(d.row, draft)
  <2>1. draft = [f \in DOMAIN d.row |->
            CASE f = "reason" -> "none" [] f = "suspendAt" -> NoTime
              [] f = "deleteAt" -> NoTime [] f = "stage" -> "ready"
              [] f = "holdAt" -> NoTime [] f = "lv" -> d.row.lv + 1 [] OTHER -> d.row[f]]
    BY Zenon
  <2>2. QED BY <2>1, RowFields, SMT DEF Rows, Stages, Instants, NoTime,
                                      IsResumed, Unscheduled, SameServer
<1> HIDE DEF draft
<1>3. written \in Dbs /\ Alike(draft, written.row)
  BY <1>2, StoresDraft
<1> HIDE DEF written
<1>4. Resumed(d).row = written.row
  BY <1>1, <1>3, ObsoleteOlderLeads
<1>5. QED BY <1>2, <1>3, <1>4 DEF IsResumed, Unscheduled, Alike, SameServer, SameSchedule

\* A released hold moves a schedule on by the time it was held, or drops it.
IsReleased(r, s, t) ==
    /\ SameServer(r, s) /\ s.stage = r.stage
    /\ s.paid = r.paid /\ s.reason = r.reason /\ s.holdAt = NoTime
    /\ \/ /\ r.reason = "none" \/ r.suspendAt = NoTime
          /\ s.suspendAt = r.suspendAt /\ s.deleteAt = r.deleteAt
       \/ /\ r.reason # "none" /\ r.suspendAt # NoTime
          /\ s.suspendAt = r.suspendAt + (t - r.holdAt)
          /\ s.deleteAt = s.suspendAt + Retention

LEMMA ReleasedRow ==
    ASSUME NEW d \in Dbs, NEW t \in Nat
    PROVE  IsReleased(d.row, Released(d, t).row, t)
<1> DEFINE row == d.row
           scheduled == row.reason # "none" /\ row.suspendAt # NoTime
           anchor == row.suspendAt - (IF row.reason = "renewal_unpaid" THEN Grace ELSE 0)
           dl == Deadlines(anchor, row.reason, t - row.holdAt)
           unheld == [row EXCEPT !.holdAt = NoTime]
           draft == [row EXCEPT !.holdAt = NoTime, !.suspendAt = dl.suspendAt,
                                !.deleteAt = dl.deleteAt, !.lv = @ + 1]
           written == UpdateInstance(d, draft)
           shifted == ObsoleteOlder(written)
           job == Job(Key("delete", shifted.row.lv, 0), shifted.row, dl.deleteAt)
<1>1. anchor \in Int /\ t - row.holdAt \in Int
  BY RowFields, PolicyAssumption DEF Instants, NoTime
<1>2. /\ dl.suspendAt \in Int /\ dl.deleteAt \in Int
      /\ dl.suspendAt = row.suspendAt + (t - row.holdAt)
      /\ dl.deleteAt = dl.suspendAt + Retention
  <2>1. /\ dl.suspendAt \in Int /\ dl.deleteAt \in Int
        /\ dl.deleteAt = dl.suspendAt + Retention
        /\ dl.suspendAt = anchor + (IF row.reason = "renewal_unpaid" THEN Grace ELSE 0)
                            + (t - row.holdAt)
    BY <1>1, DeadlinesAre
  <2>2. anchor + (IF row.reason = "renewal_unpaid" THEN Grace ELSE 0) = row.suspendAt
    BY RowFields, PolicyAssumption
  <2>3. QED BY <2>1, <2>2
<1>3. \/ ~scheduled /\ Released(d, t) = UpdateInstance(d, unheld)
      \/ scheduled /\ Released(d, t) \in {QueueDeadlineJobs(shifted, dl), Enqueue(shifted, job)}
  <2>1. Released(d, t) =
            CASE row.reason = "none" \/ row.suspendAt = NoTime -> UpdateInstance(d, unheld)
              [] row.reason # "none" /\ row.suspendAt # NoTime /\ dl.deleteAt > t ->
                    QueueDeadlineJobs(shifted, dl)
              [] row.reason # "none" /\ row.suspendAt # NoTime /\ dl.deleteAt <= t ->
                    Enqueue(shifted, job)
    BY Zenon DEF Released
  <2> HIDE DEF dl, anchor, unheld, draft, written, shifted, job
  <2>2. dl.deleteAt > t \/ dl.deleteAt <= t
    BY <1>2
  <2>3. QED BY <2>1, <2>2
<1> HIDE DEF dl
<1>4. unheld \in Rows /\ (~scheduled => IsReleased(row, unheld, t))
  BY RowFields DEF Rows, Instants, IsReleased, SameServer
<1>5. draft \in Rows /\ (scheduled => IsReleased(row, draft, t))
  <2>1. draft = [f \in DOMAIN row |->
            CASE f = "holdAt" -> NoTime [] f = "suspendAt" -> dl.suspendAt
              [] f = "deleteAt" -> dl.deleteAt [] f = "lv" -> row.lv + 1
              [] OTHER -> row[f]]
    BY Zenon
  <2>2. QED BY <1>2, <2>1, RowFields, SMT DEF Rows, Instants, IsReleased, SameServer
<1> HIDE DEF draft, unheld
<1>6. CASE ~scheduled /\ Released(d, t) = UpdateInstance(d, unheld)
  BY <1>4, <1>6, StoresDraft DEF IsReleased, Alike, SameServer, SameSchedule
<1>7. CASE scheduled /\ Released(d, t) \in {QueueDeadlineJobs(shifted, dl), Enqueue(shifted, job)}
  <2>1. written \in Dbs /\ Alike(draft, written.row)
    BY <1>5, StoresDraft
  <2> HIDE DEF written
  <2>2. shifted \in Dbs /\ shifted.row = written.row
    BY <2>1, ObsoleteOlderLeads DEF Leads, Follows
  <2> HIDE DEF shifted, job
  <2>3. QueueDeadlineJobs(shifted, dl).row = shifted.row /\ Enqueue(shifted, job).row = shifted.row
    BY <1>2, <2>2, QueueDeadlineJobsLeads, EnqueueRow
  <2>4. Alike(draft, Released(d, t).row)
    BY <1>7, <2>1, <2>2, <2>3
  <2>5. QED BY <1>5, <1>7, <2>4 DEF IsReleased, Alike, SameServer, SameSchedule
<1>8. QED BY <1>3, <1>6, <1>7

-----------------------------------------------------------------------------
(* the kinds of step.  Everything below is about one step, from the row old *)
(* to the row new.                                                          *)

old == db.row
new == db'.row

\* What a tick in flight remembers is as it was ...
Unmoved(x) ==
    /\ wk'[x].pc = wk[x].pc /\ wk'[x].t = wk[x].t
    /\ wk'[x].gen = wk[x].gen /\ wk'[x].pid = wk[x].pid /\ wk'[x].tok = wk[x].tok

\* ... or the tick is not waiting for an answer about a server's existence.
Asking == {"prov_get", "prov_find", "prov_create", "recheck_delete", "recheck_get",
           "delete_get", "delete_call"}

Rests(x) == wk'[x].pc \notin Asking

Others(w) == \A x \in Workers : x # w => Unmoved(x)

Quiets(w) == Others(w) /\ Rests(w)

Goes(w, pc) == Others(w) /\ wk'[w].pc = pc

\* Servers are switched on and off, deleted and gone; none appears or returns.
Turned ==
    /\ DOMAIN vps' = DOMAIN vps
    /\ \A sid \in DOMAIN vps :
        /\ vps'[sid].gen = vps[sid].gen /\ vps'[sid].tok = vps[sid].tok
        /\ vps[sid].st = "gone" => vps'[sid].st = "gone"

Created(me) == vps' = Append(vps, [gen |-> me.gen, tok |-> me.tok, st |-> "on"])

\* The row's claim stands, and the row did not end with a server.
Kept ==
    /\ new.gen = old.gen /\ new.pid = old.pid
    /\ new.stage # "deleted" => new.tok = old.tok /\ old.stage # "deleted"
    /\ new.stage = "deleted" =>
        old.stage = "deleted" \/ (old.stage = "ordered" /\ old.pid = NoServer)
    /\ new.stage \in {"bootstrapping", "ordered"} => new.stage = old.stage

Calm == Kept /\ Turned /\ \A x \in Workers : Unmoved(x) \/ Rests(x)

Attempts(w) ==
    /\ Staged(old, new, "provisioning") /\ vps' = vps
    /\ Goes(w, "prov_get") \/ Goes(w, "prov_find")
    /\ wk'[w].gen = old.gen

Misses(w) ==
    /\ wk[w].pc = "prov_get" /\ Goes(w, "prov_find") /\ wk'[w].gen = wk[w].gen
    /\ Alike(old, new) /\ vps' = vps

Installs(w) ==
    /\ \E sid \in Existing :
        /\ wk[w].pc = "prov_find" \/ (wk[w].pc = "prov_get" /\ sid = wk[w].pid)
        /\ IsInstalled(old, new, sid)
    /\ Quiets(w) /\ vps' = vps

Mints(w) ==
    /\ wk[w].pc = "prov_find" /\ \A sid \in Existing : vps[sid].gen # wk[w].gen
    /\ Goes(w, "prov_create") /\ wk'[w].gen = wk[w].gen
    /\ IsMinted(old, new, wk'[w].tok) /\ vps' = vps

Creates(w) ==
    /\ wk[w].pc = "prov_create" /\ Created(wk[w])
    /\ IsInstalled(old, new, Len(vps) + 1)
    /\ Quiets(w)

\* The create arrived at the provider and its answer did not come back.
Orphans(w) ==
    /\ "fail" \in Events \/ "crash" \in Events
    /\ wk[w].pc = "prov_create" /\ Created(wk[w])
    /\ Alike(old, new) /\ Rests(w) /\ \A x \in Workers : Unmoved(x) \/ Rests(x)

Rechecks(w) ==
    /\ old.stage = "bootstrapping" /\ Alike(old, new) /\ vps' = vps
    /\ Goes(w, "recheck_delete") /\ wk'[w].pid = old.pid

Removes(w) ==
    /\ wk[w].pc = "recheck_delete" /\ Goes(w, "recheck_get") /\ wk'[w].pid = wk[w].pid
    /\ Alike(old, new) /\ Turned

Clears(w) ==
    /\ \/ wk[w].pc = "recheck_get" /\ wk[w].pid \notin Existing
       \/ old.stage = "bootstrapping" /\ old.pid = NoServer
    /\ IsCleared(old, new) /\ Quiets(w) /\ vps' = vps

Commits(w) ==
    /\ old.stage # "deleted" /\ Staged(old, new, "deleting") /\ vps' = vps
    /\ Goes(w, "delete_get") /\ wk'[w].pid = old.pid

Calls(w) ==
    /\ wk[w].pc = "delete_get" /\ Goes(w, "delete_call") /\ wk'[w].pid = wk[w].pid
    /\ Alike(old, new) /\ vps' = vps

Ends(w) ==
    /\ \/ wk[w].pc = "delete_get" /\ wk[w].pid \notin Existing
       \/ old.pid = NoServer
    /\ IsEnded(old, new) /\ Quiets(w) /\ vps' = vps

ServerStep ==
    \/ Calm
    \/ \E w \in Workers :
        \/ Attempts(w) \/ Misses(w) \/ Installs(w) \/ Mints(w) \/ Creates(w) \/ Orphans(w)
        \/ Rechecks(w) \/ Removes(w) \/ Clears(w)
        \/ Commits(w) \/ Calls(w) \/ Ends(w)

\* The stages a schedule leads to.
Scheduled == {"cancel_scheduled", "suspended", "deleting"}

KeepsSchedule == SameSchedule(old, new) /\ (new.stage \in Scheduled => new.stage = old.stage)

Suspends(w) ==
    /\ Staged(old, new, "suspended")
    /\ old.suspendAt # NoTime /\ old.suspendAt <= wk[w].t

CommitsDue(w) ==
    /\ Staged(old, new, "deleting")
    /\ old.deleteAt # NoTime /\ old.deleteAt <= wk[w].t

IsHeld ==
    /\ new.stage = old.stage /\ new.paid = old.paid /\ new.reason = old.reason
    /\ new.suspendAt = old.suspendAt /\ new.deleteAt = old.deleteAt
    /\ new.holdAt \in {old.holdAt, now}

IsForced ==
    /\ "force_suspend" \in Events \/ "force_delete" \in Events
    /\ new.stage = old.stage

ScheduleStep ==
    \/ KeepsSchedule
    \/ \E w \in Workers : Suspends(w) \/ CommitsDue(w)
    \/ EndsUnpaid(old, new, now)
    \/ EndsIntentionally(old, new, First(sub'.end, old.paid, now))
    \/ \E q \in Requests : EndsIntentionally(old, new, First(old.paid, rq[q].t, rq[q].t))
    \/ IsRestored(old, new, sub'.end) \/ IsRenewed(old, new, sub'.end)
    \/ IsResumed(old, new) \/ IsReleased(old, new, now) \/ IsHeld \/ IsForced

\* A tick goes by the instant it started.
Timely ==
    /\ now' >= now /\ sub'.end >= sub.end
    /\ \A x \in Workers : wk'[x].t = wk[x].t \/ wk'[x].t \in {0, now}

StepKinds == ServerStep /\ ScheduleStep /\ Timely

-----------------------------------------------------------------------------
(* what a step of a tick, a handler or a synchronous caller leaves *)

LEMMA StepRow ==
    ASSUME IInv, NEW d \in Dbs, db' = Stored(d)
    PROVE  Alike(d.row, new)
  BY StoredAlike DEF new

LEMMA AfterStepSame ==
    ASSUME NEW me \in Ticks, NEW d
    PROVE  LET after == AfterStep(me, d)
           IN  /\ after.pc = me.pc /\ after.t = me.t
               /\ after.gen = me.gen /\ after.pid = me.pid /\ after.tok = me.tok
  BY DEF AfterStep, Ticks

LEMMA WorkerStepIs ==
    ASSUME IInv, NEW w \in Workers, NEW d \in Dbs, NEW next, WorkerStep(w, d, next)
    PROVE  /\ Alike(d.row, new) /\ Others(w) /\ wk'[w] = next
           /\ sub' = sub /\ now' = now
<1>1. /\ db' = Stored(d) /\ sub' = sub /\ now' = now
      /\ wk' = [x \in Workers |-> IF x = w THEN next ELSE AfterStep(wk[x], d)]
  BY DEF WorkerStep
<1>2. \A x \in Workers : wk[x] \in Ticks
  BY DEF IInv, TypeOK
<1>3. Others(w)
  BY <1>1, <1>2, AfterStepSame DEF Others, Unmoved
<1>4. QED BY <1>1, <1>3, StepRow

LEMMA SyncStepIs ==
    ASSUME IInv, NEW d \in Dbs, db' = Stored(d),
           wk' = [w \in Workers |-> AfterStep(wk[w], d)]
    PROVE  Alike(d.row, new) /\ \A x \in Workers : Unmoved(x)
<1>1. \A x \in Workers : wk[x] \in Ticks
  BY DEF IInv, TypeOK
<1>2. QED BY <1>1, AfterStepSame, StepRow DEF Unmoved

LEMMA RestIs ==
    ASSUME NEW me \in Ticks
    PROVE  Rest(me).pc \in {"idle", "drain"} /\ Rest(me).t \in {0, me.t}
  BY DEF Rest, IdleWorker

\* The rest of a tick's list after a job that returned or failed.
LEMMA DoneIs ==
    ASSUME IInv, NEW w \in Workers, NEW d \in Dbs, NEW me \in Ticks, me.t = wk[w].t,
           Done(w, d, me)
    PROVE  Alike(d.row, new) /\ Quiets(w) /\ Timely
<1> DEFINE e == CompleteJob(d, me.key)
<1>1. e \in Dbs /\ e.row = d.row
  BY CompleteJobLeads DEF Leads, Follows
<1>2. WorkerStep(w, e, Rest(me))
  BY DEF Done
<1> HIDE DEF e
<1>3. /\ Alike(e.row, new) /\ Others(w) /\ wk'[w] = Rest(me) /\ sub' = sub /\ now' = now
  BY <1>1, <1>2, WorkerStepIs
<1>4. now \in Nat /\ sub.end \in Int
  BY DEF IInv, TypeOK, Subscriptions, Instants, NoTime
<1>5. QED BY <1>1, <1>3, <1>4, RestIs DEF Quiets, Rests, Asking, Timely, Others, Unmoved

LEMMA RetryIs ==
    ASSUME IInv, NEW w \in Workers, NEW d \in Dbs, NEW me \in Ticks, me.t = wk[w].t,
           Retry(w, d, me)
    PROVE  Alike(d.row, new) /\ Quiets(w) /\ Timely
<1> DEFINE e == ReleaseJob(d, me.key, now + Backoff)
<1>0. now \in Nat /\ sub.end \in Int /\ now + Backoff \in Int
  BY SystemAssumption DEF IInv, TypeOK, Subscriptions, Instants, NoTime
<1>1. e \in Dbs /\ e.row = d.row
  BY <1>0, ReleaseJobLeads DEF Leads, Follows
<1>2. WorkerStep(w, e, Rest(me))
  BY DEF Retry
<1> HIDE DEF e
<1>3. /\ Alike(e.row, new) /\ Others(w) /\ wk'[w] = Rest(me) /\ sub' = sub /\ now' = now
  BY <1>1, <1>2, WorkerStepIs
<1>4. QED BY <1>0, <1>1, <1>3, RestIs DEF Quiets, Rests, Asking, Timely, Others, Unmoved

LEMMA FailsIs ==
    ASSUME IInv, NEW w \in Workers, NEW d \in Dbs, NEW me \in Ticks, me.t = wk[w].t,
           Fails(w, d, me)
    PROVE  Alike(d.row, new) /\ Quiets(w) /\ Timely /\ "fail" \in Events
  BY RetryIs DEF Fails

LEMMA AwaitIs ==
    ASSUME IInv, NEW w \in Workers, NEW d \in Dbs, NEW me \in Ticks, me.t = wk[w].t,
           NEW pc, Await(w, d, me, pc)
    PROVE  /\ Alike(d.row, new) /\ Goes(w, pc) /\ Timely
           /\ wk'[w].gen = me.gen /\ wk'[w].pid = me.pid /\ wk'[w].tok = me.tok
<1> DEFINE next == [me EXCEPT !.pc = pc]
<1>1. /\ next.pc = pc /\ next.t = me.t
      /\ next.gen = me.gen /\ next.pid = me.pid /\ next.tok = me.tok
  BY DEF Ticks
<1>2. WorkerStep(w, d, next)
  BY DEF Await
<1> HIDE DEF next
<1>3. /\ Alike(d.row, new) /\ Others(w) /\ wk'[w] = next /\ sub' = sub /\ now' = now
  BY <1>2, WorkerStepIs
<1>4. now \in Nat /\ sub.end \in Int
  BY DEF IInv, TypeOK, Subscriptions, Instants, NoTime
<1>5. QED BY <1>1, <1>3, <1>4 DEF Goes, Timely, Others, Unmoved

LEMMA SameIsTurned == ASSUME vps' = vps PROVE Turned
  BY DEF Turned

LEMMA TurnIsTurned ==
    ASSUME IInv, NEW pid, NEW from \in SUBSET {"on", "off"}, NEW to, vps' = Turn(pid, from, to)
    PROVE  Turned
<1>1. CASE pid \in DOMAIN vps /\ vps[pid].st \in from
  <2>1. vps \in Seq(Servers)
    BY DEF IInv, TypeOK
  <2>2. vps' = [vps EXCEPT ![pid] = [vps[pid] EXCEPT !.st = to]]
    BY <1>1 DEF Turn
  <2>3. vps[pid] \in Servers /\ vps[pid].st # "gone"
    BY <1>1, <2>1
  <2>4. /\ [vps[pid] EXCEPT !.st = to].gen = vps[pid].gen
        /\ [vps[pid] EXCEPT !.st = to].tok = vps[pid].tok
    BY <2>3 DEF Servers
  <2>5. DOMAIN vps' = DOMAIN vps
    BY <2>2
  <2>6. \A sid \in DOMAIN vps : sid # pid => vps'[sid] = vps[sid]
    BY <2>2
  <2>7. vps'[pid] = [vps[pid] EXCEPT !.st = to]
    BY <1>1, <2>2
  <2>8. QED BY <2>3, <2>4, <2>5, <2>6, <2>7 DEF Turned
<1>2. CASE ~(pid \in DOMAIN vps /\ vps[pid].st \in from)
  BY <1>2, SameIsTurned DEF Turn
<1>3. QED BY <1>1, <1>2

LEMMA EffectIsTurned ==
    ASSUME IInv, NEW me \in Ticks, me.pc # "prov_create", vps' \in {vps, Effect(me)}
    PROVE  Turned
<1>1. \/ vps' = vps
      \/ vps' = Turn(me.pid, {"off"}, "on")
      \/ vps' = Turn(me.pid, {"on"}, "off")
      \/ vps' = Turn(me.pid, {"on", "off"}, "deleting")
  BY DEF Effect
<1>2. QED BY <1>1, SameIsTurned, TurnIsTurned

\* A row as it was, and ticks that go on or stop asking.
LEMMA AlikeIsCalm ==
    ASSUME Alike(old, new), Turned, \A x \in Workers : Unmoved(x) \/ Rests(x)
    PROVE  ServerStep /\ ScheduleStep
<1>1. Kept /\ KeepsSchedule
  BY DEF Kept, KeepsSchedule, Alike, SameServer
<1>2. QED BY <1>1 DEF ServerStep, ScheduleStep, Calm

LEMMA QuietIsCalm ==
    ASSUME Alike(old, new), Turned, NEW w \in Workers, Quiets(w)
    PROVE  ServerStep /\ ScheduleStep
  BY AlikeIsCalm DEF Quiets, Others

LEMMA KeepsScheduleIs ==
    ASSUME NEW stage, Staged(old, new, stage), stage \notin Scheduled
    PROVE  ScheduleStep
  BY DEF Staged, ScheduleStep, KeepsSchedule

-----------------------------------------------------------------------------
(* drainProvision *)

LEMMA Ordinary ==
    ASSUME IInv
    PROVE  /\ db \in Dbs /\ old \in Rows /\ vps \in Seq(Servers) /\ now \in Nat
           /\ \A w \in Workers : wk[w] \in Ticks
  BY RowFields DEF IInv, TypeOK, old

LEMMA AfterQuoteKind ==
    ASSUME IInv, NEW w \in Workers, NEW d \in Dbs, Alike(old, d.row),
           NEW me \in Ticks, me.t = wk[w].t, AfterQuote(w, d, me), vps' = vps
    PROVE  StepKinds
<1> DEFINE attempt == UpdateInstance(d, [d.row EXCEPT !.stage = "provisioning", !.attempts = @ + 1])
           known == [me EXCEPT !.gen = d.row.gen, !.pid = d.row.pid]
<1>1. me.t \in Nat /\ Turned
  BY SameIsTurned DEF Ticks
<1>2. CASE Done(w, FailProvisioning(d, me.t), me)
  <2>1. FailProvisioning(d, me.t) \in Dbs /\ Alike(old, FailProvisioning(d, me.t).row)
    BY <1>1, FailProvisioningAlike, AlikeOn
  <2>2. Alike(old, new) /\ Quiets(w) /\ Timely
    BY <1>2, <2>1, DoneIs, AlikeOn
  <2>3. QED BY <1>1, <2>2, QuietIsCalm DEF StepKinds
<1>3. CASE Await(w, attempt, known, IF d.row.pid # NoServer THEN "prov_get" ELSE "prov_find")
  <2>1. Staged(old, attempt.row, "provisioning")
    BY AttemptRow, AlikeThenStaged
  <2>2. attempt \in Dbs
    BY AttemptLeads DEF Leads, Follows
  <2>3. known \in Ticks /\ known.t = wk[w].t /\ known.gen = d.row.gen
    BY RowFields DEF Ticks
  <2> HIDE DEF attempt, known
  <2>4. /\ Alike(attempt.row, new) /\ Timely /\ wk'[w].gen = d.row.gen
        /\ Goes(w, "prov_get") \/ Goes(w, "prov_find")
    <3>1. CASE Await(w, attempt, known, "prov_get")
      BY <2>2, <2>3, <3>1, AwaitIs
    <3>2. CASE Await(w, attempt, known, "prov_find")
      BY <2>2, <2>3, <3>2, AwaitIs
    <3>3. QED BY <1>3, <3>1, <3>2
  <2>5. Staged(old, new, "provisioning")
    BY <2>1, <2>4, StagedThenAlike
  <2>6. d.row.gen = old.gen
    BY DEF Alike, SameServer
  <2>7. Attempts(w)
    BY <2>4, <2>5, <2>6 DEF Attempts
  <2>8. ScheduleStep
    BY <2>5, KeepsScheduleIs DEF Scheduled
  <2>9. QED BY <2>4, <2>7, <2>8 DEF StepKinds, ServerStep
<1>4. QED BY <1>2, <1>3 DEF AfterQuote

LEMMA StartProvisionKind ==
    ASSUME IInv, NEW w \in Workers, NEW d \in Dbs, d.row = old,
           NEW me \in Ticks, me.t = wk[w].t, StartProvision(w, d, me), vps' = vps
    PROVE  StepKinds
<1>1. me.t \in Nat /\ Alike(old, d.row) /\ Turned
  BY AlikeItself, SameIsTurned DEF Ticks
<1>2. CASE Retry(w, d, me)
  <2>1. Alike(old, new) /\ Quiets(w) /\ Timely
    BY <1>1, <1>2, RetryIs, AlikeOn
  <2>2. QED BY <1>1, <2>1, QuietIsCalm DEF StepKinds
<1>3. CASE Await(w, d, [me EXCEPT !.pid = d.row.pid], "restore_get")
  <2>1. [me EXCEPT !.pid = d.row.pid] \in Ticks /\ [me EXCEPT !.pid = d.row.pid].t = me.t
    BY RowFields DEF Ticks
  <2>2. Alike(d.row, new) /\ Goes(w, "restore_get") /\ Timely
    BY <1>3, <2>1, AwaitIs
  <2>3. Alike(old, new) /\ Quiets(w)
    BY <1>1, <2>2, AlikeOn DEF Goes, Quiets, Rests, Asking
  <2>4. QED BY <1>1, <2>2, <2>3, QuietIsCalm DEF StepKinds
<1>4. CASE Done(w, FailProvisioning(d, me.t), me)
  <2>1. FailProvisioning(d, me.t) \in Dbs /\ Alike(old, FailProvisioning(d, me.t).row)
    BY <1>1, FailProvisioningAlike, AlikeOn
  <2>2. Alike(old, new) /\ Quiets(w) /\ Timely
    BY <1>4, <2>1, DoneIs, AlikeOn
  <2>3. QED BY <1>1, <2>2, QuietIsCalm DEF StepKinds
<1>5. CASE AfterQuote(w, d, me)
  BY <1>1, <1>5, AfterQuoteKind
<1>6. CASE Await(w, d, me, "plans")
  <2>1. Alike(d.row, new) /\ Goes(w, "plans") /\ Timely
    BY <1>6, AwaitIs
  <2>2. Alike(old, new) /\ Quiets(w)
    BY <1>1, <2>1, AlikeOn DEF Goes, Quiets, Rests, Asking
  <2>3. QED BY <1>1, <2>1, <2>2, QuietIsCalm DEF StepKinds
<1>7. QED BY <1>2, <1>3, <1>4, <1>5, <1>6, StartProvisionIs

LEMMA PlansAnswerKind ==
    ASSUME IInv, NEW w \in Workers, PlansAnswer(w)
    PROVE  StepKinds
<1> DEFINE me == wk[w]
           quoted == IF db.row.quoted THEN db
                     ELSE UpdateInstance(db, [db.row EXCEPT !.quoted = TRUE])
<1>1. db \in Dbs /\ me \in Ticks /\ vps' = vps
  BY Ordinary DEF PlansAnswer
<1>2. quoted \in Dbs /\ Alike(old, quoted.row)
  BY <1>1, QuotedAlike, AlikeItself DEF old
<1>3. AfterQuote(w, quoted, me) \/ Fails(w, db, me)
  BY DEF PlansAnswer
<1> HIDE DEF quoted
<1>4. CASE AfterQuote(w, quoted, me)
  BY <1>1, <1>2, <1>4, AfterQuoteKind
<1>5. CASE Fails(w, db, me)
  BY <1>1, <1>5, FailsIs, QuietIsCalm, SameIsTurned DEF StepKinds, old
<1>6. QED BY <1>3, <1>4, <1>5

LEMMA DoneBootstrappingIs ==
    ASSUME IInv, NEW w \in Workers, NEW sid \in Nat, Done(w, Bootstrapping(db, wk[w], sid), wk[w])
    PROVE  IsInstalled(old, new, sid) /\ Quiets(w) /\ Timely /\ ScheduleStep
<1> DEFINE d == Bootstrapping(db, wk[w], sid)
<1>1. db \in Dbs /\ wk[w] \in Ticks
  BY Ordinary
<1>2. d \in Dbs /\ IsInstalled(old, d.row, sid) /\ Done(w, d, wk[w])
  <2>1. Leads(db, d) /\ IsInstalled(db.row, d.row, sid) /\ Done(w, d, wk[w])
    BY <1>1, BootstrappingRow, BootstrappingLeads
  <2> HIDE DEF d
  <2>2. QED BY <2>1 DEF Leads, Follows, old
<1> HIDE DEF d
<1>3. Alike(d.row, new) /\ Quiets(w) /\ Timely
  BY <1>1, <1>2, DoneIs
<1>4. IsInstalled(old, new, sid)
  BY <1>2, <1>3 DEF IsInstalled, Alike, SameServer, SameSchedule
<1>5. ScheduleStep
  BY <1>4 DEF IsInstalled, ScheduleStep, KeepsSchedule, Scheduled
<1>6. QED BY <1>3, <1>4, <1>5

LEMMA FailsKind ==
    ASSUME IInv, NEW w \in Workers, Fails(w, db, wk[w]), Turned
    PROVE  StepKinds
<1>1. db \in Dbs /\ wk[w] \in Ticks
  BY Ordinary
<1>2. Alike(old, new) /\ Quiets(w) /\ Timely
  BY <1>1, FailsIs DEF old
<1>3. QED BY <1>2, QuietIsCalm DEF StepKinds

LEMMA RetryKind ==
    ASSUME IInv, NEW w \in Workers, Retry(w, db, wk[w]), Turned
    PROVE  StepKinds
<1>1. db \in Dbs /\ wk[w] \in Ticks
  BY Ordinary
<1>2. Alike(old, new) /\ Quiets(w) /\ Timely
  BY <1>1, RetryIs DEF old
<1>3. QED BY <1>2, QuietIsCalm DEF StepKinds

\* A job that returned and left the row as it was.
LEMMA DoneKind ==
    ASSUME IInv, NEW w \in Workers, NEW d \in Dbs, Alike(old, d.row),
           NEW me \in Ticks, me.t = wk[w].t, Done(w, d, me), Turned
    PROVE  StepKinds
<1>1. Alike(old, new) /\ Quiets(w) /\ Timely
  BY DoneIs, AlikeOn
<1>2. QED BY <1>1, QuietIsCalm DEF StepKinds

LEMMA ProvisionGetAnswerKind ==
    ASSUME IInv, NEW w \in Workers, ProvisionGetAnswer(w)
    PROVE  StepKinds
<1> DEFINE me == wk[w]
<1>1. db \in Dbs /\ me \in Ticks /\ me.pid \in Nat /\ vps' = vps /\ Turned /\ me.pc = "prov_get"
  BY Ordinary, SameIsTurned DEF ProvisionGetAnswer, Ticks
<1>2. CASE ServerFound(me.pid) /\ Done(w, Bootstrapping(db, me, me.pid), me)
  <2>1. me.pid \in Existing
    BY <1>2 DEF Existing, ServerFound
  <2>2. IsInstalled(old, new, me.pid) /\ Quiets(w) /\ Timely /\ ScheduleStep
    BY <1>1, <1>2, DoneBootstrappingIs
  <2>3. Installs(w)
    BY <1>1, <2>1, <2>2 DEF Installs
  <2>4. QED BY <2>2, <2>3 DEF StepKinds, ServerStep
<1>3. CASE Await(w, db, me, "prov_find")
  <2>1. Alike(old, new) /\ Goes(w, "prov_find") /\ Timely /\ wk'[w].gen = me.gen
    BY <1>1, <1>3, AwaitIs DEF old
  <2>2. Misses(w)
    BY <1>1, <2>1 DEF Misses
  <2>3. ScheduleStep
    BY <2>1 DEF ScheduleStep, KeepsSchedule, Alike
  <2>4. QED BY <2>1, <2>2, <2>3 DEF StepKinds, ServerStep
<1>4. CASE Fails(w, db, me)
  BY <1>1, <1>4, FailsKind
<1>5. QED BY <1>2, <1>3, <1>4 DEF ProvisionGetAnswer

LEMMA ProvisionFindAnswerKind ==
    ASSUME IInv, NEW w \in Workers, ProvisionFindAnswer(w)
    PROVE  StepKinds
<1> DEFINE me == wk[w]
           labelled == {sid \in DOMAIN vps : ServerFound(sid) /\ vps[sid].gen = me.gen}
           tok == db.row.minted + 1
           until == me.t + TokenTtl
           minted == UpdateInstance(db, [db.row EXCEPT
                        !.minted = tok, !.tok = tok, !.tokUntil = until])
           known == [me EXCEPT !.tok = tok]
<1>0. vps' = vps /\ me.pc = "prov_find"
  BY DEF ProvisionFindAnswer
<1>1. /\ db \in Dbs /\ me \in Ticks /\ tok \in Nat /\ until \in Nat
      /\ vps' = vps /\ Turned /\ me.pc = "prov_find" /\ vps \in Seq(Servers)
  <2>1. db \in Dbs /\ me \in Ticks /\ vps \in Seq(Servers) /\ Turned
    BY <1>0, Ordinary, SameIsTurned
  <2>2. db.row.minted \in Nat /\ me.t \in Nat
    BY <2>1, RowFields DEF Ticks
  <2>3. QED BY <1>0, <2>1, <2>2, SystemAssumption
<1>2. ASSUME NEW sid \in labelled, Done(w, Bootstrapping(db, me, sid), me)
      PROVE  StepKinds
  <2>1. sid \in Existing /\ sid \in Nat
    BY <1>1, <1>2 DEF Existing
  <2>2. IsInstalled(old, new, sid) /\ Quiets(w) /\ Timely /\ ScheduleStep
    BY <1>2, <2>1, DoneBootstrappingIs
  <2>3. Installs(w)
    BY <1>1, <2>1, <2>2 DEF Installs
  <2>4. QED BY <2>2, <2>3 DEF StepKinds, ServerStep
<1>3. CASE labelled = {} /\ Await(w, minted, known, "prov_create")
  <2>1. minted \in Dbs /\ IsMinted(old, minted.row, tok)
    BY <1>1, MintedRow, MintedLeads DEF Leads, Follows, old
  <2>2. known \in Ticks /\ known.t = me.t /\ known.gen = me.gen /\ known.tok = tok
    BY <1>1 DEF Ticks
  <2> HIDE DEF minted, known, tok
  <2>3. /\ Alike(minted.row, new) /\ Goes(w, "prov_create") /\ Timely
        /\ wk'[w].gen = me.gen /\ wk'[w].tok = tok
    BY <1>3, <2>1, <2>2, AwaitIs
  <2>4. IsMinted(old, new, tok)
    BY <2>1, <2>3 DEF IsMinted, Alike, SameServer, SameSchedule
  <2>5. \A sid \in Existing : vps[sid].gen # me.gen
    BY <1>3 DEF Existing
  <2>6. Mints(w)
    BY <1>1, <2>3, <2>4, <2>5 DEF Mints
  <2>7. ScheduleStep
    BY <2>4 DEF IsMinted, ScheduleStep, KeepsSchedule
  <2>8. QED BY <2>3, <2>6, <2>7 DEF StepKinds, ServerStep
<1>4. CASE Fails(w, db, me)
  BY <1>1, <1>4, FailsKind
<1>5. QED
  <2>1. \/ \E sid \in labelled : Done(w, Bootstrapping(db, me, sid), me)
        \/ labelled = {} /\ Await(w, minted, known, "prov_create")
        \/ Fails(w, db, me)
    BY DEF ProvisionFindAnswer
  <2>2. QED BY <1>2, <1>3, <1>4, <2>1

LEMMA ProvisionCreateAnswerKind ==
    ASSUME IInv, NEW w \in Workers, ProvisionCreateAnswer(w)
    PROVE  StepKinds
<1> DEFINE me == wk[w]
           created == Append(vps, [gen |-> me.gen, tok |-> me.tok, st |-> "on"])
<1>1. db \in Dbs /\ me \in Ticks /\ vps \in Seq(Servers) /\ me.pc = "prov_create"
  BY Ordinary DEF ProvisionCreateAnswer
<1>2. Effect(me) \in {vps, created} /\ (Room => Effect(me) = created)
  BY <1>1 DEF Effect
<1>3. CASE Room /\ vps' = Effect(me) /\ Done(w, Bootstrapping(db, me, Len(vps) + 1), me)
  <2>1. Len(vps) + 1 \in Nat
    BY <1>1
  <2>2. IsInstalled(old, new, Len(vps) + 1) /\ Quiets(w) /\ Timely /\ ScheduleStep
    BY <1>3, <2>1, DoneBootstrappingIs
  <2>3. Creates(w)
    BY <1>1, <1>2, <1>3, <2>2 DEF Creates, Created
  <2>4. QED BY <2>2, <2>3 DEF StepKinds, ServerStep
<1>4. CASE vps' \in {vps, Effect(me)} /\ Fails(w, db, me)
  <2>1. CASE vps' = vps
    BY <1>4, <2>1, FailsKind, SameIsTurned
  <2>2. CASE vps' = created
    <3>1. Alike(old, new) /\ Quiets(w) /\ Timely /\ "fail" \in Events
      BY <1>1, <1>4, FailsIs DEF old
    <3>2. Orphans(w)
      BY <1>1, <2>2, <3>1 DEF Orphans, Created, Quiets, Others
    <3>3. ScheduleStep
      BY <3>1 DEF ScheduleStep, KeepsSchedule, Alike
    <3>4. QED BY <3>1, <3>2, <3>3 DEF StepKinds, ServerStep
  <2>3. QED BY <1>2, <1>4, <2>1, <2>2
<1>5. QED BY <1>3, <1>4 DEF ProvisionCreateAnswer

LEMMA PowerRequestedKind ==
    ASSUME IInv, NEW w \in Workers, Done(w, PowerRequested(db), wk[w]), Turned
    PROVE  StepKinds
<1>1. db \in Dbs /\ wk[w] \in Ticks
  BY Ordinary
<1>2. PowerRequested(db) \in Dbs
  BY <1>1, PowerRequestedLeads DEF Leads, Follows
<1>3. Alike(old, PowerRequested(db).row)
  BY <1>1, PowerRequestedAlike DEF old
<1>4. QED BY <1>1, <1>2, <1>3, DoneKind

LEMMA RestoreGetAnswerKind ==
    ASSUME IInv, NEW w \in Workers, RestoreGetAnswer(w)
    PROVE  StepKinds
<1> DEFINE me == wk[w]
<1>1. db \in Dbs /\ me \in Ticks /\ Turned
  BY Ordinary, SameIsTurned DEF RestoreGetAnswer
<1>2. CASE Await(w, db, me, "restore_power")
  <2>1. Alike(old, new) /\ Goes(w, "restore_power") /\ Timely
    BY <1>1, <1>2, AwaitIs DEF old
  <2>2. Quiets(w)
    BY <2>1 DEF Goes, Quiets, Rests, Asking
  <2>3. QED BY <1>1, <2>1, <2>2, QuietIsCalm DEF StepKinds
<1>3. \/ Retry(w, db, me) \/ Done(w, PowerRequested(db), me)
      \/ Await(w, db, me, "restore_power") \/ Fails(w, db, me)
  BY DEF RestoreGetAnswer
<1>4. QED BY <1>1, <1>2, <1>3, RetryKind, PowerRequestedKind, FailsKind

LEMMA RestorePowerAnswerKind ==
    ASSUME IInv, NEW w \in Workers, RestorePowerAnswer(w)
    PROVE  StepKinds
<1>1. wk[w] \in Ticks /\ wk[w].pc = "restore_power" /\ vps' \in {vps, Effect(wk[w])}
  BY Ordinary DEF RestorePowerAnswer
<1>2. Turned
  BY <1>1, EffectIsTurned
<1>3. \/ Done(w, PowerRequested(db), wk[w]) \/ Retry(w, db, wk[w]) \/ Fails(w, db, wk[w])
  BY DEF RestorePowerAnswer
<1>4. QED BY <1>2, <1>3, RetryKind, PowerRequestedKind, FailsKind

-----------------------------------------------------------------------------
(* drainReadinessRecheck *)

LEMMA DoneCleanedUpKind ==
    ASSUME IInv, NEW w \in Workers, NEW d \in Dbs, d.row = old,
           NEW known \in Ticks, NEW me \in Ticks, me.t = wk[w].t,
           Done(w, CleanedUp(d, known), me), vps' = vps,
           \/ wk[w].pc = "recheck_get" /\ wk[w].pid \notin Existing
           \/ old.stage = "bootstrapping" /\ old.pid = NoServer
    PROVE  StepKinds
<1> DEFINE e == CleanedUp(d, known)
<1>1. e \in Dbs /\ IsCleared(old, e.row) /\ Done(w, e, me)
  <2>1. Leads(d, e) /\ IsCleared(d.row, e.row) /\ Done(w, e, me)
    BY CleanedUpLeads, CleanedUpRow
  <2> HIDE DEF e
  <2>2. QED BY <2>1 DEF Leads, Follows
<1> HIDE DEF e
<1>2. Alike(e.row, new) /\ Quiets(w) /\ Timely
  BY <1>1, DoneIs
<1>3. IsCleared(old, new)
  BY <1>1, <1>2 DEF IsCleared, Alike, SameServer, SameSchedule
<1>4. Clears(w)
  BY <1>2, <1>3 DEF Clears
<1>5. ScheduleStep
  BY <1>3 DEF IsCleared, ScheduleStep, KeepsSchedule, Scheduled
<1>6. QED BY <1>2, <1>4, <1>5 DEF StepKinds, ServerStep

LEMMA StartRecheckKind ==
    ASSUME IInv, NEW w \in Workers, NEW d \in Dbs, d.row = old,
           NEW me \in Ticks, me.t = wk[w].t, StartRecheck(w, d, me), vps' = vps
    PROVE  StepKinds
<1> DEFINE known == [me EXCEPT !.pid = d.row.pid, !.gen = d.row.gen]
           refused == RefuseReadiness(d, me.t)
<1>1. me.t \in Nat /\ Alike(old, d.row) /\ Turned
  BY AlikeItself, SameIsTurned DEF Ticks
<1>2. known \in Ticks /\ known.t = wk[w].t /\ known.pid = old.pid
  BY RowFields DEF Ticks
<1>3. \/ Done(w, d, me)
      \/ Retry(w, d, me)
      \/ Done(w, refused, me)
      \/ old.stage = "bootstrapping" /\ old.pid = NoServer /\ Done(w, CleanedUp(d, known), me)
      \/ old.stage = "bootstrapping" /\ Await(w, d, known, "recheck_delete")
  BY DEF StartRecheck
<1> HIDE DEF known
<1>4. CASE Done(w, d, me)
  BY <1>1, <1>4, DoneKind
<1>5. CASE Retry(w, d, me)
  <2>1. Alike(old, new) /\ Quiets(w) /\ Timely
    BY <1>1, <1>5, RetryIs, AlikeOn
  <2>2. QED BY <1>1, <2>1, QuietIsCalm DEF StepKinds
<1>6. CASE Done(w, refused, me)
  <2>1. refused \in Dbs /\ Alike(old, refused.row)
    BY <1>1, RefuseReadinessAlike, RefuseReadinessLeads DEF Leads, Follows
  <2> HIDE DEF refused
  <2>2. QED BY <1>1, <1>6, <2>1, DoneKind
<1>7. CASE old.stage = "bootstrapping" /\ old.pid = NoServer /\ Done(w, CleanedUp(d, known), me)
  BY <1>2, <1>7, DoneCleanedUpKind
<1>8. CASE old.stage = "bootstrapping" /\ Await(w, d, known, "recheck_delete")
  <2>1. Alike(old, new) /\ Goes(w, "recheck_delete") /\ Timely /\ wk'[w].pid = old.pid
    BY <1>1, <1>2, <1>8, AwaitIs
  <2>2. Rechecks(w)
    BY <1>8, <2>1 DEF Rechecks
  <2>3. ScheduleStep
    BY <2>1 DEF ScheduleStep, KeepsSchedule, Alike
  <2>4. QED BY <2>1, <2>2, <2>3 DEF StepKinds, ServerStep
<1>9. QED BY <1>3, <1>4, <1>5, <1>6, <1>7, <1>8

LEMMA RecheckDeleteAnswerKind ==
    ASSUME IInv, NEW w \in Workers, RecheckDeleteAnswer(w)
    PROVE  StepKinds
<1>1. db \in Dbs /\ wk[w] \in Ticks /\ wk[w].pc = "recheck_delete" /\ vps' \in {vps, Effect(wk[w])}
  BY Ordinary DEF RecheckDeleteAnswer
<1>2. Turned
  BY <1>1, EffectIsTurned
<1>3. CASE Await(w, db, wk[w], "recheck_get")
  <2>1. Alike(old, new) /\ Goes(w, "recheck_get") /\ Timely /\ wk'[w].pid = wk[w].pid
    BY <1>1, <1>3, AwaitIs DEF old
  <2>2. Removes(w)
    BY <1>1, <1>2, <2>1 DEF Removes
  <2>3. ScheduleStep
    BY <2>1 DEF ScheduleStep, KeepsSchedule, Alike
  <2>4. QED BY <2>1, <2>2, <2>3 DEF StepKinds, ServerStep
<1>4. CASE Fails(w, db, wk[w])
  BY <1>2, <1>4, FailsKind
<1>5. QED BY <1>3, <1>4 DEF RecheckDeleteAnswer

LEMMA RecheckGetAnswerKind ==
    ASSUME IInv, NEW w \in Workers, RecheckGetAnswer(w)
    PROVE  StepKinds
<1>1. /\ db \in Dbs /\ wk[w] \in Ticks /\ wk[w].pc = "recheck_get"
      /\ vps' = vps /\ Turned
  BY Ordinary, SameIsTurned DEF RecheckGetAnswer
<1>2. CASE ~ServerFound(wk[w].pid) /\ Done(w, CleanedUp(db, wk[w]), wk[w])
  <2>1. wk[w].pid \notin Existing
    BY <1>2 DEF Existing
  <2>2. QED BY <1>1, <1>2, <2>1, DoneCleanedUpKind DEF old
<1>3. CASE Retry(w, db, wk[w])
  BY <1>1, <1>3, RetryKind
<1>4. CASE Fails(w, db, wk[w])
  BY <1>1, <1>4, FailsKind
<1>5. QED BY <1>2, <1>3, <1>4 DEF RecheckGetAnswer

-----------------------------------------------------------------------------
(* drainSuspend *)

LEMMA StagedIsCalm ==
    ASSUME NEW stage, Staged(old, new, stage), old.stage # "deleted",
           stage \notin {"bootstrapping", "ordered", "deleted"},
           Turned, \A x \in Workers : Unmoved(x) \/ Rests(x)
    PROVE  ServerStep
<1>1. Kept
  BY DEF Staged, SameServer, Kept
<1>2. QED BY <1>1 DEF Calm, ServerStep

LEMMA DoneSuspendedKind ==
    ASSUME IInv, NEW w \in Workers, NEW d \in Dbs, d.row = old, old.stage \notin Terminal,
           NEW me \in Ticks, me.t = wk[w].t,
           old.suspendAt # NoTime, old.suspendAt <= wk[w].t,
           Done(w, Suspended(d, TRUE), me), Turned
    PROVE  StepKinds
<1> DEFINE e == Suspended(d, TRUE)
<1>1. e \in Dbs /\ Staged(old, e.row, "suspended") /\ Done(w, e, me)
  <2>1. Leads(d, e) /\ Staged(d.row, e.row, "suspended") /\ Done(w, e, me)
    BY SuspendedLeads, SuspendedRow
  <2> HIDE DEF e
  <2>2. QED BY <2>1 DEF Leads, Follows
<1> HIDE DEF e
<1>2. Alike(e.row, new) /\ Quiets(w) /\ Timely
  BY <1>1, DoneIs
<1>3. Staged(old, new, "suspended")
  BY <1>1, <1>2, StagedThenAlike
<1>4. ScheduleStep
  BY <1>3 DEF ScheduleStep, Suspends
<1>5. ServerStep
  BY <1>2, <1>3, StagedIsCalm DEF Quiets, Others, Terminal
<1>6. QED BY <1>2, <1>4, <1>5 DEF StepKinds

LEMMA StartSuspendKind ==
    ASSUME IInv, NEW w \in Workers, NEW d \in Dbs, d.row = old,
           NEW me \in Ticks, me.t = wk[w].t, StartSuspend(w, d, me), vps' = vps
    PROVE  StepKinds
<1> DEFINE known == [me EXCEPT !.pid = d.row.pid, !.fresh = TRUE]
<1>1. Alike(old, d.row) /\ Turned
  BY AlikeItself, SameIsTurned
<1>2. \/ Done(w, d, me)
      \/ /\ old.stage \notin Terminal /\ old.suspendAt # NoTime /\ me.t >= old.suspendAt
         /\ Done(w, Suspended(d, TRUE), me)
      \/ Await(w, d, known, "suspend_power")
  BY DEF StartSuspend
<1>3. CASE Done(w, d, me)
  BY <1>1, <1>3, DoneKind
<1>4. CASE /\ old.stage \notin Terminal /\ old.suspendAt # NoTime /\ me.t >= old.suspendAt
           /\ Done(w, Suspended(d, TRUE), me)
  <2>1. old.suspendAt \in Int /\ me.t \in Nat
    BY Ordinary, RowFields DEF Ticks, old
  <2>2. old.suspendAt <= wk[w].t
    BY <1>4, <2>1
  <2>3. QED BY <1>1, <1>4, <2>2, DoneSuspendedKind
<1>5. CASE Await(w, d, known, "suspend_power")
  <2>1. known \in Ticks /\ known.t = wk[w].t
    BY RowFields DEF Ticks
  <2> HIDE DEF known
  <2>2. Alike(old, new) /\ Goes(w, "suspend_power") /\ Timely
    BY <1>1, <1>5, <2>1, AwaitIs
  <2>3. Quiets(w)
    BY <2>2 DEF Goes, Quiets, Rests, Asking
  <2>4. QED BY <1>1, <2>2, <2>3, QuietIsCalm DEF StepKinds
<1>6. QED BY <1>2, <1>3, <1>4, <1>5

LEMMA SuspendPowerAnswerKind ==
    ASSUME IInv, NEW w \in Workers, SuspendPowerAnswer(w)
    PROVE  StepKinds
<1> DEFINE me == wk[w]
<1>1. /\ db \in Dbs /\ me \in Ticks /\ me.pc = "suspend_power"
      /\ vps' \in {vps, Effect(me)} /\ me.fresh \in BOOLEAN
  BY Ordinary DEF SuspendPowerAnswer, Ticks
<1>2. Turned
  BY <1>1, EffectIsTurned
<1>3. CASE Done(w, Suspended(db, me.fresh), me) /\ me.fresh
  <2>1. TickSees(me, db.row)
    BY <1>3 DEF IInv, SnapshotsHold
  <2>2. old.stage \notin Terminal /\ old.suspendAt # NoTime /\ old.suspendAt <= me.t
    BY <1>1, <2>1 DEF TickSees, old
  <2>3. Done(w, Suspended(db, TRUE), me)
    BY <1>3 DEF Suspended
  <2>4. QED BY <1>1, <1>2, <2>2, <2>3, DoneSuspendedKind DEF old
<1>4. CASE Done(w, Suspended(db, me.fresh), me) /\ ~me.fresh
  <2>1. Suspended(db, me.fresh) = db
    BY <1>4 DEF Suspended
  <2>2. QED BY <1>1, <1>2, <1>4, <2>1, DoneKind, AlikeItself DEF old
<1>5. \/ Done(w, Suspended(db, me.fresh), me) \/ Retry(w, db, me) \/ Fails(w, db, me)
  BY DEF SuspendPowerAnswer
<1>6. QED BY <1>1, <1>2, <1>3, <1>4, <1>5, RetryKind, FailsKind

-----------------------------------------------------------------------------
(* drainDelete *)

LEMMA DoneAbsentKind ==
    ASSUME IInv, NEW w \in Workers, NEW d \in Dbs, SameServer(old, d.row), SameSchedule(old, d.row),
           NEW me \in Ticks, me.t = wk[w].t,
           Done(w, Absent(d, w, TRUE, me.t), me), vps' = vps,
           \/ wk[w].pc = "delete_get" /\ wk[w].pid \notin Existing
           \/ old.pid = NoServer
    PROVE  StepKinds
<1> DEFINE e == Absent(d, w, TRUE, me.t)
<1>1. e \in Dbs /\ IsEnded(d.row, e.row) /\ Done(w, e, me)
  <2>1. me.t \in Nat
    BY DEF Ticks
  <2>2. Follows(d, e) /\ IsEnded(d.row, e.row) /\ Done(w, e, me)
    BY <2>1, AbsentFollows, AbsentRow
  <2> HIDE DEF e
  <2>3. QED BY <2>2 DEF Follows
<1> HIDE DEF e
<1>2. Alike(e.row, new) /\ Quiets(w) /\ Timely
  BY <1>1, DoneIs
<1>3. IsEnded(old, new)
  BY <1>1, <1>2 DEF IsEnded, Alike, SameServer, SameSchedule
<1>4. Ends(w)
  BY <1>2, <1>3 DEF Ends
<1>5. ScheduleStep
  BY <1>3 DEF IsEnded, ScheduleStep, KeepsSchedule, Scheduled
<1>6. QED BY <1>2, <1>4, <1>5 DEF StepKinds, ServerStep

LEMMA StartDeleteKind ==
    ASSUME IInv, NEW w \in Workers, NEW d \in Dbs, d.row = old, Queued(db) \subseteq Queued(d),
           NEW me \in Ticks, me.t = wk[w].t, me.key \in Queued(db),
           StartDelete(w, d, me), vps' = vps
    PROVE  StepKinds
<1> DEFINE row == d.row
           claimed == ClaimLease(d, w, me.t + LeaseTtl)
           committed == Committed(claimed)
           known == [me EXCEPT !.pid = row.pid, !.fresh = TRUE]
           due == row.stage # "deleted" /\ row.deleteAt # NoTime /\ me.t >= row.deleteAt
<1>1. Alike(old, d.row) /\ Turned /\ me.t \in Nat /\ me.t + LeaseTtl \in Instants
  BY AlikeItself, SameIsTurned, SystemAssumption DEF Ticks, Instants
<1>2. /\ claimed \in Dbs /\ Alike(old, claimed.row) /\ Queued(d) \subseteq Queued(claimed)
  BY <1>1, ClaimLeaseLeads, ClaimLeaseAlike DEF Leads, Follows
<1>3. \/ Done(w, d, me)
      \/ Done(w, ReleaseLease(claimed, w), me)
      \/ /\ due
         /\ \/ row.pid = NoServer /\ Done(w, Absent(committed, w, TRUE, me.t), me)
            \/ Done(w, Confirming(committed, w, me), me)
            \/ Await(w, committed, known, "delete_get")
  BY DEF StartDelete
<1> HIDE DEF claimed
<1>4. /\ committed \in Dbs /\ Staged(old, committed.row, "deleting")
      /\ me.key \in Queued(committed)
  <2>1. Leads(claimed, committed) /\ Staged(claimed.row, committed.row, "deleting")
    BY <1>2, CommittedLeads, CommittedRow
  <2> HIDE DEF committed
  <2>2. QED BY <1>2, <2>1, AlikeThenStaged DEF Leads, Follows
<1> HIDE DEF committed
<1>5. ASSUME due PROVE old.stage # "deleted" /\ old.deleteAt # NoTime /\ old.deleteAt <= wk[w].t
  <2>1. old.deleteAt \in Int
    BY Ordinary, RowFields DEF old
  <2>2. QED BY <1>1, <1>5, <2>1
<1>6. CASE Done(w, d, me)
  BY <1>1, <1>6, DoneKind
<1>7. CASE Done(w, ReleaseLease(claimed, w), me)
  <2>1. ReleaseLease(claimed, w) \in Dbs /\ Alike(old, ReleaseLease(claimed, w).row)
    BY <1>2, ReleaseLeaseLeads, ReleaseLeaseAlike, AlikeOn DEF Leads, Follows
  <2>2. QED BY <1>1, <1>7, <2>1, DoneKind
<1>8. CASE row.pid = NoServer /\ Done(w, Absent(committed, w, TRUE, me.t), me)
  BY <1>4, <1>8, DoneAbsentKind DEF Staged
<1>9. CASE due /\ Done(w, Confirming(committed, w, me), me)
  <2> DEFINE e == Confirming(committed, w, me)
  <2>1. e \in Dbs /\ Alike(committed.row, e.row) /\ Done(w, e, me)
    BY <1>4, <1>9, ConfirmingLeads, ConfirmingAlike DEF Leads, Follows
  <2> HIDE DEF e
  <2>2. Alike(e.row, new) /\ Quiets(w) /\ Timely
    BY <2>1, DoneIs
  <2>3. Staged(old, new, "deleting")
    BY <1>4, <2>1, <2>2, AlikeOn, StagedThenAlike
  <2>4. ServerStep
    BY <1>1, <1>5, <1>9, <2>2, <2>3, StagedIsCalm DEF Quiets, Others
  <2>5. ScheduleStep
    BY <1>5, <1>9, <2>3 DEF ScheduleStep, CommitsDue
  <2>6. QED BY <2>2, <2>4, <2>5 DEF StepKinds
<1>10. CASE due /\ Await(w, committed, known, "delete_get")
  <2>1. known \in Ticks /\ known.t = wk[w].t /\ known.pid = old.pid
    BY RowFields DEF Ticks
  <2> HIDE DEF known
  <2>2. Alike(committed.row, new) /\ Goes(w, "delete_get") /\ Timely /\ wk'[w].pid = old.pid
    BY <1>4, <1>10, <2>1, AwaitIs
  <2>3. Staged(old, new, "deleting")
    BY <1>4, <2>2, StagedThenAlike
  <2>4. Commits(w)
    BY <1>5, <1>10, <2>2, <2>3 DEF Commits
  <2>5. ScheduleStep
    BY <1>5, <1>10, <2>3 DEF ScheduleStep, CommitsDue
  <2>6. QED BY <2>2, <2>4, <2>5 DEF StepKinds, ServerStep
<1>11. QED BY <1>3, <1>6, <1>7, <1>8, <1>9, <1>10

LEMMA ReleasedFailsKind ==
    ASSUME IInv, NEW w \in Workers, Fails(w, ReleaseLease(db, w), wk[w]), Turned
    PROVE  StepKinds
<1>1. db \in Dbs /\ wk[w] \in Ticks
  BY Ordinary
<1>2. ReleaseLease(db, w) \in Dbs /\ Alike(old, ReleaseLease(db, w).row)
  BY <1>1, ReleaseLeaseLeads, ReleaseLeaseAlike DEF Leads, Follows, old
<1>3. Alike(old, new) /\ Quiets(w) /\ Timely
  BY <1>1, <1>2, FailsIs, AlikeOn
<1>4. QED BY <1>3, QuietIsCalm DEF StepKinds

LEMMA DeleteGetAnswerKind ==
    ASSUME IInv, NEW w \in Workers, DeleteGetAnswer(w)
    PROVE  StepKinds
<1> DEFINE me == wk[w]
<1>1. /\ db \in Dbs /\ me \in Ticks /\ me.pc = "delete_get" /\ vps' = vps /\ Turned
      /\ me.fresh \in BOOLEAN /\ me.t \in Nat
  BY Ordinary, SameIsTurned DEF DeleteGetAnswer, Ticks
<1>2. CASE Await(w, db, me, "delete_call")
  <2>1. Alike(old, new) /\ Goes(w, "delete_call") /\ Timely /\ wk'[w].pid = me.pid
    BY <1>1, <1>2, AwaitIs DEF old
  <2>2. Calls(w)
    BY <1>1, <2>1 DEF Calls
  <2>3. ScheduleStep
    BY <2>1 DEF ScheduleStep, KeepsSchedule, Alike
  <2>4. QED BY <2>1, <2>2, <2>3 DEF StepKinds, ServerStep
<1>3. CASE ~ServerFound(me.pid) /\ Done(w, Absent(db, w, me.fresh, me.t), me)
  <2>1. CASE me.fresh
    <3>1. me.pid \notin Existing
      BY <1>3 DEF Existing
    <3>2. Done(w, Absent(db, w, TRUE, me.t), me)
      BY <1>1, <1>3, <2>1 DEF Absent
    <3>3. SameServer(old, db.row) /\ SameSchedule(old, db.row)
      BY DEF SameServer, SameSchedule, old
    <3>4. QED BY <1>1, <3>1, <3>2, <3>3, DoneAbsentKind
  <2>2. CASE ~me.fresh
    <3>1. Absent(db, w, me.fresh, me.t) \in Dbs
      BY <1>1, AbsentFollows DEF Follows
    <3>2. Alike(old, Absent(db, w, me.fresh, me.t).row)
      BY <1>1, <2>2, AbsentRow DEF old
    <3>3. QED BY <1>1, <1>3, <3>1, <3>2, DoneKind
  <2>3. QED BY <2>1, <2>2
<1>4. CASE Fails(w, ReleaseLease(db, w), me)
  BY <1>1, <1>4, ReleasedFailsKind
<1>5. QED BY <1>2, <1>3, <1>4 DEF DeleteGetAnswer

LEMMA DeleteCallAnswerKind ==
    ASSUME IInv, NEW w \in Workers, DeleteCallAnswer(w)
    PROVE  StepKinds
<1> DEFINE me == wk[w]
<1>1. /\ db \in Dbs /\ me \in Ticks /\ me.pc = "delete_call" /\ vps' \in {vps, Effect(me)}
  BY Ordinary DEF DeleteCallAnswer
<1>2. Turned
  BY <1>1, EffectIsTurned
<1>3. CASE Done(w, Confirming(db, w, me), me)
  <2>1. me.key \in Queued(db)
    BY <1>1 DEF IInv, JobsKnown, Knows
  <2>2. Confirming(db, w, me) \in Dbs /\ Alike(old, Confirming(db, w, me).row)
    BY <1>1, <2>1, ConfirmingLeads, ConfirmingAlike DEF Leads, Follows, old
  <2>3. QED BY <1>1, <1>2, <1>3, <2>2, DoneKind
<1>4. CASE Fails(w, ReleaseLease(db, w), me)
  BY <1>2, <1>4, ReleasedFailsKind
<1>5. QED BY <1>3, <1>4 DEF DeleteCallAnswer

LEMMA StripeAnswerKind ==
    ASSUME IInv, NEW w \in Workers, StripeAnswer(w)
    PROVE  StepKinds
<1>1. db \in Dbs /\ wk[w] \in Ticks /\ Alike(old, db.row) /\ Turned
  BY Ordinary, AlikeItself, SameIsTurned DEF StripeAnswer, old
<1>2. Done(w, db, wk[w]) \/ Fails(w, db, wk[w])
  BY DEF StripeAnswer
<1>3. QED BY <1>1, <1>2, DoneKind, FailsKind

-----------------------------------------------------------------------------
(* a tick *)

\* A reconciliation against the billing record in force after the step.
LEMMA ReconciledKind ==
    ASSUME IInv, sub' \in Subscriptions, NEW e \in Eligibilities,
           Alike(ReconcileOwner(db, sub', e, now).row, new),
           Turned, \A x \in Workers : Unmoved(x) \/ Rests(x)
    PROVE  ServerStep /\ ScheduleStep
<1> DEFINE mid == ReconcileOwner(db, sub', e, now).row
<1>1. IsBilled(old, mid, sub', now) \/ IsRefused(old, mid)
  BY Ordinary, ReconcileOwnerRow DEF old
<1> HIDE DEF mid
<1>2. Alike(mid, new)
  BY DEF mid
<1>3. CASE IsBilled(old, mid, sub', now)
  <2>1. IsBilled(old, new, sub', now)
    BY <1>2, <1>3, BilledThenAlike
  <2>2. Kept
    BY <2>1 DEF IsBilled, SameServer, Alike, EndsUnpaid, EndsIntentionally, IsRestored,
                IsRenewed, Terminal, Recoverable, Kept
  <2>3. ScheduleStep
    BY <2>1 DEF IsBilled, ScheduleStep, Alike, KeepsSchedule
  <2>4. QED BY <2>2, <2>3 DEF ServerStep, Calm
<1>4. CASE IsRefused(old, mid)
  <2>1. IsRefused(old, new)
    BY <1>2, <1>4 DEF IsRefused, Alike, SameServer, SameSchedule
  <2>2. Kept
    BY <2>1 DEF IsRefused, SameServer, Kept
  <2>3. ScheduleStep
    BY <2>1 DEF IsRefused, ScheduleStep, KeepsSchedule, Scheduled
  <2>4. QED BY <2>2, <2>3 DEF ServerStep, Calm
<1>5. QED BY <1>1, <1>3, <1>4

LEMMA TickStartKind ==
    ASSUME IInv, NEW w \in Workers, TickStart(w)
    PROVE  StepKinds
<1> DEFINE d == ReconcileOwner(db, sub, elig, now)
           due == Due(d, now)
           next == [IdleWorker EXCEPT !.t = now, !.due = due]
<1>1. /\ db \in Dbs /\ sub \in Subscriptions /\ elig \in Eligibilities /\ now \in Nat /\ Turned
  BY SameIsTurned DEF IInv, TypeOK, TickStart
<1>2. d \in Dbs
  BY <1>1, ReconcileOwnerLeads DEF Leads, Follows
<1>3. WorkerStep(w, d, Rest(next))
  BY DEF TickStart
<1>4. next \in Ticks /\ next.t = now
  <2>1. due \subseteq Keys
    BY <1>2 DEF Due, Dbs, Jobs
  <2> HIDE DEF due
  <2>2. QED BY <1>1, <2>1 DEF IdleWorker, Ticks, WorkerPcs, NoServer
<1> HIDE DEF next
<1>5. /\ Alike(d.row, new) /\ Others(w) /\ wk'[w] = Rest(next) /\ sub' = sub /\ now' = now
  BY <1>2, <1>3, WorkerStepIs
<1>6. Quiets(w)
  BY <1>4, <1>5, RestIs DEF Quiets, Rests, Asking
<1>7. Timely
  <2>1. sub.end \in Int
    BY <1>1 DEF Subscriptions, Instants, NoTime
  <2>2. wk'[w].t \in {0, now}
    BY <1>4, <1>5, RestIs
  <2>3. QED BY <1>1, <1>5, <2>1, <2>2 DEF Timely, Others, Unmoved
<1>8. ServerStep /\ ScheduleStep
  <2>1. Alike(ReconcileOwner(db, sub', elig, now).row, new) /\ sub' \in Subscriptions
    BY <1>1, <1>5
  <2>2. QED BY <1>1, <1>6, <2>1, ReconciledKind DEF Quiets, Others
<1>9. QED BY <1>7, <1>8 DEF StepKinds

LEMMA RunJobKind ==
    ASSUME IInv, NEW w \in Workers, NEW d \in Dbs, d.row = old, Queued(db) \subseteq Queued(d),
           NEW me \in Ticks, me.t = wk[w].t, me.key \in Queued(db),
           RunJob(w, d, me), vps' = vps
    PROVE  StepKinds
<1>1. \/ Done(w, d, me)
      \/ StartProvision(w, d, me)
      \/ StartRecheck(w, d, me)
      \/ StartSuspend(w, d, me)
      \/ StartDelete(w, d, me)
      \/ Await(w, d, me, "stripe")
  BY DEF RunJob
<1>2. Alike(old, d.row) /\ Turned
  BY AlikeItself, SameIsTurned
<1>3. CASE Await(w, d, me, "stripe")
  <2>1. Alike(old, new) /\ Goes(w, "stripe") /\ Timely
    BY <1>2, <1>3, AwaitIs
  <2>2. Quiets(w)
    BY <2>1 DEF Goes, Quiets, Rests, Asking
  <2>3. QED BY <1>2, <2>1, <2>2, QuietIsCalm DEF StepKinds
<1>4. CASE Done(w, d, me)
  BY <1>2, <1>4, DoneKind
<1>5. CASE StartProvision(w, d, me)
  BY <1>5, StartProvisionKind
<1>6. CASE StartRecheck(w, d, me)
  BY <1>6, StartRecheckKind
<1>7. CASE StartSuspend(w, d, me)
  BY <1>7, StartSuspendKind
<1>8. CASE StartDelete(w, d, me)
  BY <1>8, StartDeleteKind
<1>9. QED BY <1>1, <1>3, <1>4, <1>5, <1>6, <1>7, <1>8

LEMMA DrainNextKind ==
    ASSUME IInv, NEW w \in Workers, DrainNext(w)
    PROVE  StepKinds
<1> DEFINE me == wk[w]
<1>1. PICK key \in me.due :
        LET taken == [me EXCEPT !.due = @ \ {key}, !.key = key]
        IN  IF Claimable(JobOf(db, key), me.t)
            THEN RunJob(w, ClaimJob(db, key, me.t + LeaseTtl), taken)
            ELSE WorkerStep(w, db, Rest(taken))
  BY DEF DrainNext
<1> DEFINE taken == [me EXCEPT !.due = @ \ {key}, !.key = key]
           claimed == ClaimJob(db, key, me.t + LeaseTtl)
<1>2. /\ db \in Dbs /\ me \in Ticks /\ me.due \subseteq Queued(db) /\ vps' = vps /\ Turned
  BY Ordinary, SameIsTurned DEF IInv, JobsKnown, Knows, DrainNext
<1>3. key \in Keys /\ key \in Queued(db) /\ me.t + LeaseTtl \in Instants
  BY <1>2, SystemAssumption DEF Ticks, Instants
<1>4. taken \in Ticks /\ taken.t = me.t /\ taken.key = key
  BY <1>2, <1>3 DEF Ticks
<1>5. claimed \in Dbs /\ claimed.row = old /\ Queued(db) \subseteq Queued(claimed)
  BY <1>2, <1>3, ClaimJobLeads DEF Leads, Follows, old
<1>6. RunJob(w, claimed, taken) \/ WorkerStep(w, db, Rest(taken))
  BY <1>1
<1> HIDE DEF taken, claimed
<1>7. CASE RunJob(w, claimed, taken)
  BY <1>2, <1>3, <1>4, <1>5, <1>7, RunJobKind
<1>8. CASE WorkerStep(w, db, Rest(taken))
  <2>1. /\ Alike(old, new) /\ Others(w) /\ wk'[w] = Rest(taken) /\ sub' = sub /\ now' = now
    BY <1>2, <1>8, WorkerStepIs DEF old
  <2>2. Quiets(w)
    BY <1>4, <2>1, RestIs DEF Quiets, Rests, Asking
  <2>3. Timely
    <3>1. now \in Nat /\ sub.end \in Int
      BY DEF IInv, TypeOK, Subscriptions, Instants, NoTime
    <3>2. wk'[w].t \in {0, me.t}
      BY <1>4, <2>1, RestIs
    <3>3. QED BY <2>1, <3>1, <3>2 DEF Timely, Others, Unmoved
  <2>4. QED BY <1>2, <2>1, <2>2, <2>3, QuietIsCalm DEF StepKinds
<1>9. QED BY <1>6, <1>7, <1>8

LEMMA WorkerKind ==
    ASSUME IInv, NEW w \in Workers, Worker(w)
    PROVE  StepKinds
  BY TickStartKind, DrainNextKind, PlansAnswerKind, ProvisionGetAnswerKind,
     ProvisionFindAnswerKind, ProvisionCreateAnswerKind, RestoreGetAnswerKind,
     RestorePowerAnswerKind, RecheckDeleteAnswerKind, RecheckGetAnswerKind,
     SuspendPowerAnswerKind, DeleteGetAnswerKind, DeleteCallAnswerKind, StripeAnswerKind
  DEF Worker

-----------------------------------------------------------------------------
(* the requests *)

LEMMA RequestStepIs ==
    ASSUME IInv, NEW r \in Requests, NEW d \in Dbs, NEW next, RequestStep(r, d, next)
    PROVE  Alike(d.row, new) /\ (\A x \in Workers : Unmoved(x) \/ Rests(x)) /\ Timely
<1>1. /\ db' = Stored(d) /\ sub' = sub /\ now' = now
      /\ wk' = [x \in Workers |-> AfterStep(wk[x], d)]
  BY DEF RequestStep
<1>2. Alike(d.row, new) /\ \A x \in Workers : Unmoved(x)
  BY <1>1, SyncStepIs
<1>3. now \in Nat /\ sub.end \in Int
  BY DEF IInv, TypeOK, Subscriptions, Instants, NoTime
<1>4. QED BY <1>1, <1>2, <1>3 DEF Timely, Unmoved

\* A request that leaves the row as it was.
LEMMA UntouchedKind ==
    ASSUME IInv, NEW r \in Requests, NEW next, RequestStep(r, db, next), vps' = vps
    PROVE  StepKinds
<1>1. Alike(old, new) /\ (\A x \in Workers : Unmoved(x) \/ Rests(x)) /\ Timely
  BY Ordinary, RequestStepIs DEF old
<1>2. QED BY <1>1, AlikeIsCalm, SameIsTurned DEF StepKinds

LEMMA AskedKind ==
    ASSUME IInv, NEW r \in Requests,
           CancelRequest(r) \/ ResumeRenewal(r) \/ AdminResumeRenewal(r) \/ ReportReady(r)
    PROVE  StepKinds
  BY UntouchedKind
  DEF CancelRequest, ResumeRenewal, AdminResumeRenewal, ReportReady, Asked

LEMMA CancelAnswerKind ==
    ASSUME IInv, NEW r \in Requests, CancelAnswer(r)
    PROVE  StepKinds
<1> DEFINE anchor == First(db.row.paid, rq[r].t, rq[r].t)
           d == ScheduleEnd(db, "intentional", anchor)
<1>1. db \in Dbs /\ rq[r] \in Handlers /\ rq[r].pc = "cancel" /\ vps' = vps
  BY Ordinary DEF IInv, TypeOK, CancelAnswer
<1>2. anchor \in Int
  <2>1. db.row.paid \in Instants /\ rq[r].t \in Nat /\ rq[r].t \in Instants
    BY <1>1, RowFields DEF Instants, Handlers
  <2>2. QED BY <2>1, FirstType
<1>3. CASE RequestStep(r, d, IdleRequest) /\ rq[r].fresh
  <2>1. old.stage \notin Terminal
    BY <1>1, <1>3 DEF IInv, SnapshotsHold, HandlerSees, old
  <2>2. d \in Dbs /\ SameServer(old, d.row) /\ EndsIntentionally(old, d.row, anchor)
    <3>1. Leads(db, d)
      BY <1>1, <1>2, ScheduleEndLeads
    <3>2. /\ SameServer(db.row, d.row) /\ EndsAt(d.row, "intentional", anchor)
          /\ d.row.paid = db.row.paid /\ d.row.holdAt = db.row.holdAt
          /\ d.row.stage = "cancel_scheduled"
      BY <1>1, <1>2, ScheduleEndRow
    <3> HIDE DEF d, anchor
    <3>3. QED BY <2>1, <3>1, <3>2 DEF Leads, Follows, EndsIntentionally, old
  <2> HIDE DEF d
  <2>3. Alike(d.row, new) /\ (\A x \in Workers : Unmoved(x) \/ Rests(x)) /\ Timely
    BY <1>3, <2>2, RequestStepIs
  <2> HIDE DEF anchor
  <2>4. SameServer(old, new) /\ EndsIntentionally(old, new, anchor)
    BY <2>2, <2>3 DEF EndsIntentionally, EndsAt, SameServer, Alike, SameSchedule
  <2>5. ScheduleStep
    BY <2>4 DEF ScheduleStep, anchor, old
  <2>6. Kept
    BY <2>1, <2>4 DEF Kept, SameServer, EndsIntentionally, Terminal
  <2>7. ServerStep
    BY <1>1, <2>3, <2>6, SameIsTurned DEF ServerStep, Calm
  <2>8. QED BY <2>3, <2>5, <2>7 DEF StepKinds
<1>4. CASE RequestStep(r, db, IdleRequest)
  BY <1>1, <1>4, UntouchedKind
<1>5. QED BY <1>3, <1>4 DEF CancelAnswer

LEMMA ResumeAnswerKind ==
    ASSUME IInv, NEW r \in Requests, ResumeAnswer(r)
    PROVE  StepKinds
<1> DEFINE d == Resumed(db)
<1>1. db \in Dbs /\ rq[r].pc = "resume" /\ vps' = vps
  BY Ordinary DEF ResumeAnswer
<1>2. CASE RequestStep(r, d, IdleRequest) /\ rq[r].fresh
  <2>1. old.stage = "cancel_scheduled"
    BY <1>1, <1>2 DEF IInv, SnapshotsHold, HandlerSees, old
  <2>2. d \in Dbs /\ IsResumed(old, d.row)
    <3>1. Follows(db, d) /\ IsResumed(db.row, d.row)
      BY <1>1, ResumedFollows, ResumedRow
    <3> HIDE DEF d
    <3>2. QED BY <3>1 DEF Follows, old
  <2> HIDE DEF d
  <2>3. Alike(d.row, new) /\ (\A x \in Workers : Unmoved(x) \/ Rests(x)) /\ Timely
    BY <1>2, <2>2, RequestStepIs
  <2>4. IsResumed(old, new)
    BY <2>2, <2>3 DEF IsResumed, Unscheduled, SameServer, Alike, SameSchedule
  <2>5. ScheduleStep
    BY <2>4 DEF ScheduleStep
  <2>6. Kept
    BY <2>1, <2>4 DEF Kept, SameServer, IsResumed
  <2>7. QED BY <1>1, <2>3, <2>5, <2>6, SameIsTurned DEF StepKinds, ServerStep, Calm
<1>3. CASE RequestStep(r, db, IdleRequest)
  BY <1>1, <1>3, UntouchedKind
<1>4. QED BY <1>2, <1>3 DEF ResumeAnswer

LEMMA HealthAnswerKind ==
    ASSUME IInv, NEW r \in Requests, HealthAnswer(r)
    PROVE  StepKinds
<1> DEFINE seen == Observed(db)
           d == MarkReady(seen)
<1>1. db \in Dbs /\ rq[r].pc = "health" /\ vps' = vps
  BY Ordinary DEF HealthAnswer
<1>2. CASE RequestStep(r, d, IdleRequest) /\ rq[r].fresh
  <2>1. old.stage # "deleted"
    BY <1>1, <1>2 DEF IInv, SnapshotsHold, HandlerSees, old
  <2>2. seen \in Dbs /\ Alike(old, seen.row)
    BY <1>1, ObservedAlike DEF old
  <2> HIDE DEF seen
  <2>3. d \in Dbs /\ Staged(old, d.row, "ready")
    <3>1. Follows(seen, d) /\ Staged(seen.row, d.row, "ready")
      BY <2>2, MarkReadyFollows, MarkReadyRow
    <3> HIDE DEF d
    <3>2. QED BY <2>2, <3>1, AlikeThenStaged DEF Follows
  <2> HIDE DEF d
  <2>4. Alike(d.row, new) /\ (\A x \in Workers : Unmoved(x) \/ Rests(x)) /\ Timely
    BY <1>2, <2>3, RequestStepIs
  <2>5. Staged(old, new, "ready")
    BY <2>3, <2>4, StagedThenAlike
  <2>6. ScheduleStep
    BY <2>5, KeepsScheduleIs DEF Scheduled
  <2>7. ServerStep
    BY <1>1, <2>1, <2>4, <2>5, StagedIsCalm, SameIsTurned
  <2>8. QED BY <2>4, <2>6, <2>7 DEF StepKinds
<1>3. CASE RequestStep(r, db, IdleRequest)
  BY <1>1, <1>3, UntouchedKind
<1>4. QED BY <1>2, <1>3 DEF HealthAnswer

LEMMA RequestKind ==
    ASSUME IInv, NEW r \in Requests, Request(r)
    PROVE  StepKinds
  BY AskedKind, CancelAnswerKind, ResumeAnswerKind, HealthAnswerKind DEF Request

\* A synchronous step: billing's, an operator's or a server's report.
LEMMA SyncIs ==
    ASSUME IInv, NEW d \in Dbs, SyncStep(d), sub'.end >= sub.end
    PROVE  /\ Alike(d.row, new) /\ (\A x \in Workers : Unmoved(x) \/ Rests(x)) /\ Timely
           /\ vps' = vps /\ now' = now
<1>1. /\ db' = Stored(d) /\ now' = now /\ vps' = vps
      /\ wk' = [x \in Workers |-> AfterStep(wk[x], d)]
  BY DEF SyncStep
<1>2. Alike(d.row, new) /\ \A x \in Workers : Unmoved(x)
  BY <1>1, SyncStepIs
<1>3. now \in Nat
  BY DEF IInv, TypeOK
<1>4. QED BY <1>1, <1>2, <1>3 DEF Timely, Unmoved

LEMMA SyncAlikeKind ==
    ASSUME IInv, NEW d \in Dbs, Alike(old, d.row), SyncStep(d), sub' = sub
    PROVE  StepKinds
<1>1. sub.end \in Int
  BY DEF IInv, TypeOK, Subscriptions, Instants, NoTime
<1>2. Alike(d.row, new) /\ (\A x \in Workers : Unmoved(x) \/ Rests(x)) /\ Timely /\ vps' = vps
  BY <1>1, SyncIs
<1>3. Alike(old, new)
  BY <1>2, AlikeOn
<1>4. QED BY <1>2, <1>3, AlikeIsCalm, SameIsTurned DEF StepKinds

LEMMA ReportRefusedKind ==
    ASSUME IInv, ReportRefused
    PROVE  StepKinds
<1> DEFINE seen == Observed(db)
           draft == [db.row EXCEPT !.note = "none"]
<1>1. db \in Dbs /\ now \in Nat /\ sub' = sub
  BY Ordinary DEF ReportRefused
<1>2. seen \in Dbs /\ Alike(old, seen.row)
  BY <1>1, ObservedAlike DEF old
<1>3. SyncStep(RefuseReadiness(seen, now)) \/ SyncStep(UpdateInstance(seen, draft))
  BY DEF ReportRefused
<1> HIDE DEF seen
<1>4. CASE SyncStep(RefuseReadiness(seen, now))
  <2>1. RefuseReadiness(seen, now) \in Dbs /\ Alike(old, RefuseReadiness(seen, now).row)
    BY <1>1, <1>2, RefuseReadinessLeads, RefuseReadinessAlike, AlikeOn DEF Leads, Follows
  <2>2. QED BY <1>1, <1>4, <2>1, SyncAlikeKind
<1>5. CASE SyncStep(UpdateInstance(seen, draft))
  <2>1. draft \in Rows /\ Alike(old, draft)
    BY <1>1, RowFields DEF Rows, Alike, SameServer, SameSchedule, old
  <2> HIDE DEF draft
  <2>2. UpdateInstance(seen, draft) \in Dbs /\ Alike(old, UpdateInstance(seen, draft).row)
    BY <1>2, <2>1, StoresDraft, AlikeOn
  <2>3. QED BY <1>1, <1>5, <2>2, SyncAlikeKind
<1>6. QED BY <1>3, <1>4, <1>5

-----------------------------------------------------------------------------
(* the operator *)

\* A synchronous step that keeps the stage and the claim on the server.
LEMMA SyncSameKind ==
    ASSUME IInv, NEW d \in Dbs, SyncStep(d), sub' = sub,
           SameServer(old, d.row), d.row.stage = old.stage
    PROVE  /\ SameServer(old, new) /\ new.stage = old.stage /\ Alike(d.row, new)
           /\ ServerStep /\ Timely
<1>1. sub.end \in Int
  BY DEF IInv, TypeOK, Subscriptions, Instants, NoTime
<1>2. Alike(d.row, new) /\ (\A x \in Workers : Unmoved(x) \/ Rests(x)) /\ Timely /\ vps' = vps
  BY <1>1, SyncIs
<1>3. SameServer(old, new) /\ new.stage = old.stage
  BY <1>2 DEF Alike, SameServer
<1>4. Kept
  BY <1>3 DEF Kept, SameServer
<1>5. QED BY <1>2, <1>3, <1>4, SameIsTurned DEF ServerStep, Calm

LEMMA AdminRetryProvisioningKind ==
    ASSUME IInv, AdminRetryProvisioning
    PROVE  StepKinds
<1> DEFINE draft == [db.row EXCEPT !.attempts = 0, !.note = "none"]
           reset == UpdateInstance(db, draft)
           d == EnqueueProvision(reset, now)
<1>1. db \in Dbs /\ now \in Nat
  BY Ordinary
<1>2. draft \in Rows /\ Alike(old, draft)
  <2>1. draft = [f \in DOMAIN db.row |->
            CASE f = "attempts" -> 0 [] f = "note" -> "none" [] OTHER -> db.row[f]]
    BY Zenon
  <2>2. QED BY <1>1, <2>1, RowFields, SMT DEF Rows, Alike, SameServer, SameSchedule, old
<1>3. SyncStep(d) /\ sub' = sub
  BY DEF AdminRetryProvisioning, Admin
<1> HIDE DEF draft
<1>4. reset \in Dbs /\ Alike(old, reset.row)
  BY <1>1, <1>2, StoresDraft, AlikeOn
<1> HIDE DEF reset
<1>5. d \in Dbs /\ d.row = reset.row
  BY <1>1, <1>4, EnqueueProvisionLeads, EnqueueRow DEF Leads, Follows, EnqueueProvision
<1> HIDE DEF d
<1>6. Alike(old, d.row)
  BY <1>4, <1>5
<1>7. QED BY <1>3, <1>5, <1>6, SyncAlikeKind

LEMMA AdminForceSuspendKind ==
    ASSUME IInv, AdminForceSuspend
    PROVE  StepKinds
<1> DEFINE draft == [db.row EXCEPT !.suspendAt = now, !.note = "none", !.lv = @ + 1]
           forced == UpdateInstance(db, draft)
           job == Job(Key("admin_suspend", forced.row.lv, 0), forced.row, now)
           d == Enqueue(forced, job)
<1>1. db \in Dbs /\ now \in Nat
  BY Ordinary
<1>2. draft \in Rows /\ SameServer(old, draft) /\ draft.stage = old.stage
  <2>1. draft = [f \in DOMAIN db.row |->
            CASE f = "suspendAt" -> now [] f = "note" -> "none"
              [] f = "lv" -> db.row.lv + 1 [] OTHER -> db.row[f]]
    BY Zenon
  <2>2. QED BY <1>1, <2>1, RowFields, SMT DEF Rows, SameServer, old
<1>3. SyncStep(d) /\ sub' = sub /\ "force_suspend" \in Events
  BY DEF AdminForceSuspend, Admin
<1> HIDE DEF draft
<1>4. forced \in Dbs /\ Alike(draft, forced.row)
  BY <1>1, <1>2, StoresDraft
<1> HIDE DEF forced
<1>5. job \in Jobs
  BY <1>1, <1>4, RowFields, JobType DEF Kinds
<1> HIDE DEF job
<1>6. d \in Dbs /\ d.row = forced.row
  BY <1>4, <1>5, EnqueueLeads DEF Leads, Follows
<1> HIDE DEF d
<1>7. SameServer(old, d.row) /\ d.row.stage = old.stage
  BY <1>2, <1>4, <1>6 DEF SameServer, Alike
<1>8. new.stage = old.stage /\ ServerStep /\ Timely
  BY <1>3, <1>6, <1>7, SyncSameKind
<1>9. QED BY <1>3, <1>8 DEF StepKinds, ScheduleStep, IsForced

LEMMA AdminForceDeleteKind ==
    ASSUME IInv, AdminForceDelete
    PROVE  StepKinds
<1> DEFINE reason == IF db.row.reason = "none" THEN "intentional" ELSE db.row.reason
           suspendAt == IF db.row.suspendAt = NoTime THEN now ELSE db.row.suspendAt
           draft == [db.row EXCEPT
                !.reason = IF @ = "none" THEN "intentional" ELSE @,
                !.suspendAt = IF @ = NoTime THEN now ELSE @,
                !.deleteAt = now, !.note = "none", !.lv = @ + 1]
           forced == UpdateInstance(db, draft)
           job == Job(Key("admin_delete", forced.row.lv, 0), forced.row, now)
           d == Enqueue(forced, job)
<1>1. db \in Dbs /\ now \in Nat
  BY Ordinary
<1>2. reason \in {"none", "renewal_unpaid", "intentional"} /\ suspendAt \in Int
  BY <1>1, RowFields
<1>3. draft \in Rows /\ SameServer(old, draft) /\ draft.stage = old.stage
  <2>1. draft = [f \in DOMAIN db.row |->
            CASE f = "reason" -> reason [] f = "suspendAt" -> suspendAt
              [] f = "deleteAt" -> now [] f = "note" -> "none"
              [] f = "lv" -> db.row.lv + 1 [] OTHER -> db.row[f]]
    BY Zenon
  <2> HIDE DEF reason, suspendAt
  <2>2. QED BY <1>1, <1>2, <2>1, RowFields, SMT DEF Rows, SameServer, old
<1>4. SyncStep(d) /\ sub' = sub /\ "force_delete" \in Events
  BY DEF AdminForceDelete, Admin
<1> HIDE DEF draft
<1>5. forced \in Dbs /\ Alike(draft, forced.row)
  BY <1>1, <1>3, StoresDraft
<1> HIDE DEF forced
<1>6. job \in Jobs
  BY <1>1, <1>5, RowFields, JobType DEF Kinds
<1> HIDE DEF job
<1>7. d \in Dbs /\ d.row = forced.row
  BY <1>5, <1>6, EnqueueLeads DEF Leads, Follows
<1> HIDE DEF d
<1>8. SameServer(old, d.row) /\ d.row.stage = old.stage
  BY <1>3, <1>5, <1>7 DEF SameServer, Alike
<1>9. new.stage = old.stage /\ ServerStep /\ Timely
  BY <1>4, <1>7, <1>8, SyncSameKind
<1>10. QED BY <1>4, <1>9 DEF StepKinds, ScheduleStep, IsForced

LEMMA AdminHoldDeletionKind ==
    ASSUME IInv, AdminHoldDeletion
    PROVE  StepKinds
<1> DEFINE holdAt == IF db.row.holdAt = NoTime THEN now ELSE db.row.holdAt
           draft == [db.row EXCEPT !.holdAt = IF @ = NoTime THEN now ELSE @]
           d == UpdateInstance(db, draft)
<1>1. db \in Dbs /\ now \in Nat
  BY Ordinary
<1>2. holdAt \in Instants /\ holdAt \in {old.holdAt, now}
  BY <1>1, RowFields DEF Instants, old
<1>3. draft = [db.row EXCEPT !.holdAt = holdAt]
  OBVIOUS
<1>4. SyncStep(d) /\ sub' = sub
  BY DEF AdminHoldDeletion, Admin
<1> HIDE DEF holdAt, draft
<1>5. /\ draft \in Rows /\ SameServer(old, draft) /\ draft.stage = old.stage
      /\ draft.paid = old.paid /\ draft.reason = old.reason
      /\ draft.suspendAt = old.suspendAt /\ draft.deleteAt = old.deleteAt
      /\ draft.holdAt = holdAt
  BY <1>1, <1>2, <1>3, RowFields DEF Rows, SameServer, old
<1>6. d \in Dbs /\ Alike(draft, d.row)
  BY <1>1, <1>5, StoresDraft
<1> HIDE DEF d
<1>7. SameServer(old, d.row) /\ d.row.stage = old.stage
  BY <1>5, <1>6 DEF SameServer, Alike
<1>8. Alike(d.row, new) /\ new.stage = old.stage /\ ServerStep /\ Timely
  BY <1>4, <1>6, <1>7, SyncSameKind
<1>9. IsHeld
  BY <1>2, <1>5, <1>6, <1>8 DEF IsHeld, Alike, SameSchedule
<1>10. QED BY <1>8, <1>9 DEF StepKinds, ScheduleStep

LEMMA AdminReleaseHoldKind ==
    ASSUME IInv, AdminReleaseHold
    PROVE  StepKinds
<1> DEFINE d == Released(db, now)
<1>1. db \in Dbs /\ now \in Nat
  BY Ordinary
<1>2. SyncStep(d) /\ sub' = sub
  BY DEF AdminReleaseHold, Admin
<1>3. d \in Dbs /\ IsReleased(old, d.row, now)
  <2>1. Leads(db, d) /\ IsReleased(db.row, d.row, now)
    BY <1>1, ReleasedLeads, ReleasedRow
  <2> HIDE DEF d
  <2>2. QED BY <2>1 DEF Leads, Follows, old
<1> HIDE DEF d
<1>4. SameServer(old, d.row) /\ d.row.stage = old.stage
  BY <1>3 DEF IsReleased
<1>5. Alike(d.row, new) /\ ServerStep /\ Timely
  BY <1>2, <1>3, <1>4, SyncSameKind
<1>6. IsReleased(old, new, now)
  BY <1>3, <1>5 DEF IsReleased, Alike, SameServer, SameSchedule
<1>7. QED BY <1>5, <1>6 DEF StepKinds, ScheduleStep

LEMMA OperatorKind ==
    ASSUME IInv, Operator
    PROVE  StepKinds
  BY AdminRetryProvisioningKind, AdminForceSuspendKind, AdminForceDeleteKind,
     AdminHoldDeletionKind, AdminReleaseHoldKind
  DEF Operator

-----------------------------------------------------------------------------
(* the environment *)

LEMMA WebhookKind ==
    ASSUME IInv, NEW record \in Subscriptions, record.end >= sub.end, Webhook(record)
    PROVE  StepKinds
<1> DEFINE d == ReconcileOwner(db, record, elig, now)
<1>1. db \in Dbs /\ elig \in Eligibilities /\ now \in Nat
  BY DEF IInv, TypeOK
<1>2. d \in Dbs
  BY <1>1, ReconcileOwnerLeads DEF Leads, Follows
<1>3. SyncStep(d) /\ sub' = record
  BY DEF Webhook
<1>4. Alike(d.row, new) /\ (\A x \in Workers : Unmoved(x) \/ Rests(x)) /\ Timely /\ vps' = vps
  BY <1>2, <1>3, SyncIs
<1>5. ServerStep /\ ScheduleStep
  BY <1>1, <1>3, <1>4, ReconciledKind, SameIsTurned
<1>6. QED BY <1>4, <1>5 DEF StepKinds

LEMMA BillingKind ==
    ASSUME IInv, InvoicePaid \/ SubscriptionUpdated \/ ChargeFlagged
    PROVE  StepKinds
<1>1. sub \in Subscriptions /\ sub.end \in Instants
  BY DEF IInv, TypeOK, Subscriptions
<1>2. CASE InvoicePaid
  <2>1. PICK end \in sub.end..MaxPaid :
            Webhook([sub EXCEPT !.end = end, !.status = "active"])
    BY <1>2 DEF InvoicePaid
  <2> DEFINE record == [sub EXCEPT !.end = end, !.status = "active"]
  <2>2. end \in Instants /\ end >= sub.end
    BY <1>1, <2>1, SystemAssumption DEF Instants, NoTime
  <2>3. record \in Subscriptions /\ record.end >= sub.end
    BY <1>1, <2>2 DEF Subscriptions, Statuses
  <2>4. QED BY <2>1, <2>3, WebhookKind
<1>3. CASE SubscriptionUpdated
  <2>1. PICK status \in Statuses :
            \E end \in sub.end..(IF "pay" \in Events THEN MaxPaid ELSE sub.end) :
                Webhook([sub EXCEPT !.status = status, !.end = end])
    BY <1>3 DEF SubscriptionUpdated
  <2>2. PICK end \in sub.end..(IF "pay" \in Events THEN MaxPaid ELSE sub.end) :
            Webhook([sub EXCEPT !.status = status, !.end = end])
    BY <2>1
  <2> DEFINE record == [sub EXCEPT !.status = status, !.end = end]
  <2>3. end \in Instants /\ end >= sub.end
    BY <1>1, <2>2, SystemAssumption DEF Instants, NoTime
  <2>4. record \in Subscriptions /\ record.end >= sub.end
    BY <1>1, <2>1, <2>3 DEF Subscriptions
  <2>5. QED BY <2>2, <2>4, WebhookKind
<1>4. CASE ChargeFlagged
  <2> DEFINE record == [sub EXCEPT !.flagged = TRUE]
  <2>1. record \in Subscriptions /\ record.end = sub.end
    BY <1>1 DEF Subscriptions
  <2>2. record.end >= sub.end
    BY <1>1, <2>1 DEF Instants, NoTime
  <2>3. Webhook(record)
    BY <1>4 DEF ChargeFlagged
  <2>4. QED BY <2>1, <2>2, <2>3, WebhookKind
<1>5. QED BY <1>2, <1>3, <1>4

\* A step that leaves the row and the ticks alone.
LEMMA OutsideKind ==
    ASSUME IInv, db' = db, wk' = wk, sub' = sub, now' \in Nat, now' >= now, Turned
    PROVE  StepKinds
<1>1. Alike(old, new) /\ \A x \in Workers : Unmoved(x)
  BY DEF Alike, SameServer, SameSchedule, Unmoved, old, new
<1>2. sub.end \in Int
  BY DEF IInv, TypeOK, Subscriptions, Instants, NoTime
<1>3. Timely
  BY <1>2 DEF Timely
<1>4. QED BY <1>1, <1>3, AlikeIsCalm DEF StepKinds

LEMMA EnvironmentKind ==
    ASSUME IInv, Environment
    PROVE  StepKinds
<1>1. now \in Nat /\ vps \in Seq(Servers)
  BY DEF IInv, TypeOK
<1>2. CASE InvoicePaid \/ SubscriptionUpdated \/ ChargeFlagged
  BY <1>2, BillingKind
<1>3. CASE LicenceChanges
  BY <1>1, <1>3, OutsideKind, SameIsTurned DEF LicenceChanges
<1>4. ASSUME NEW sid \in DOMAIN vps, DeletionEnds(sid) PROVE StepKinds
  <2>1. vps' = [vps EXCEPT ![sid] = [vps[sid] EXCEPT !.st = "gone"]]
    BY <1>4 DEF DeletionEnds
  <2>2. vps[sid] \in Servers
    BY <1>1, <1>4
  <2>3. /\ [vps[sid] EXCEPT !.st = "gone"].gen = vps[sid].gen
        /\ [vps[sid] EXCEPT !.st = "gone"].tok = vps[sid].tok
        /\ [vps[sid] EXCEPT !.st = "gone"].st = "gone"
    BY <2>2 DEF Servers
  <2>4. DOMAIN vps' = DOMAIN vps
    BY <2>1
  <2>5. \A other \in DOMAIN vps : other # sid => vps'[other] = vps[other]
    BY <2>1
  <2>6. vps'[sid] = [vps[sid] EXCEPT !.st = "gone"]
    BY <1>4, <2>1
  <2>7. Turned
    BY <2>3, <2>4, <2>5, <2>6 DEF Turned
  <2>8. QED BY <1>1, <1>4, <2>7, OutsideKind DEF DeletionEnds
<1>5. CASE ClockTicks
  BY <1>1, <1>5, OutsideKind, SameIsTurned DEF ClockTicks
<1>6. QED BY <1>2, <1>3, <1>4, <1>5 DEF Environment

LEMMA CrashKind ==
    ASSUME IInv, Crash
    PROVE  StepKinds
<1>1. /\ wk' = [w \in Workers |-> IdleWorker] /\ "crash" \in Events
      /\ db' = db /\ sub' = sub /\ now' = now
  BY DEF Crash
<1>2. Alike(old, new) /\ \A x \in Workers : Rests(x) /\ wk'[x].t = 0
  BY <1>1 DEF Alike, SameServer, SameSchedule, old, new, Rests, Asking, IdleWorker
<1>3. now \in Nat /\ sub.end \in Int
  BY DEF IInv, TypeOK, Subscriptions, Instants, NoTime
<1>4. Timely
  BY <1>1, <1>2, <1>3 DEF Timely
<1>5. CASE vps' = vps
  BY <1>2, <1>4, <1>5, AlikeIsCalm, SameIsTurned DEF StepKinds
<1>6. ASSUME NEW w \in Workers, vps' = Effect(wk[w]) PROVE StepKinds
  <2>1. wk[w] \in Ticks
    BY Ordinary
  <2>2. CASE wk[w].pc # "prov_create"
    <3>1. Turned
      BY <1>6, <2>1, <2>2, EffectIsTurned
    <3>2. QED BY <1>2, <1>4, <3>1, AlikeIsCalm DEF StepKinds
  <2>3. CASE wk[w].pc = "prov_create" /\ Room
    <3>1. Created(wk[w])
      BY <1>6, <2>3 DEF Created, Effect
    <3>2. Orphans(w)
      BY <1>1, <1>2, <2>3, <3>1 DEF Orphans
    <3>3. ScheduleStep
      BY <1>2 DEF ScheduleStep, KeepsSchedule, Alike
    <3>4. QED BY <1>4, <3>2, <3>3 DEF StepKinds, ServerStep
  <2>4. CASE wk[w].pc = "prov_create" /\ ~Room
    <3>1. vps' = vps
      BY <1>6, <2>4 DEF Effect
    <3>2. QED BY <1>5, <3>1
  <2>5. QED BY <2>2, <2>3, <2>4
<1>7. QED BY <1>5, <1>6 DEF Crash

LEMMA NextKind ==
    ASSUME IInv, [Next]_vars
    PROVE  StepKinds
<1>1. CASE UNCHANGED vars
  <2>1. db' = db /\ wk' = wk /\ sub' = sub /\ now' = now /\ vps' = vps /\ now \in Nat
    BY <1>1 DEF vars, IInv, TypeOK
  <2>2. QED BY <2>1, OutsideKind, SameIsTurned
<1>2. CASE Next
  BY <1>2, WorkerKind, RequestKind, ReportRefusedKind, OperatorKind, EnvironmentKind, CrashKind
  DEF Next, Running
<1>3. QED BY <1>1, <1>2

-----------------------------------------------------------------------------
(* the schedule: who may suspend, and when *)

\* A tick never works ahead of the clock.
Punctual == \A x \in Workers : wk[x].t <= now

LEMMA InitPunctual == Init => Punctual
  BY DEF Init, Punctual, IdleWorker

LEMMA PunctualPreserved ==
    ASSUME IInv, Punctual, [Next]_vars
    PROVE  Punctual' /\ (old.stage # "suspended" /\ new.stage = "suspended"
                            => old.suspendAt # NoTime /\ old.suspendAt <= now)
<1>1. ScheduleStep /\ Timely
  BY NextKind DEF StepKinds
<1>2. /\ now \in Nat /\ now' \in Nat /\ old \in Rows
      /\ \A x \in Workers : wk[x].t \in Nat
  BY Ordinary, NextPreserves, StutterPreserves DEF Ticks, Preserved, IInv, TypeOK
<1>3. Punctual'
  BY <1>1, <1>2 DEF Punctual, Timely
<1>4. ASSUME old.stage # "suspended", new.stage = "suspended"
      PROVE  old.suspendAt # NoTime /\ old.suspendAt <= now
  <2>1. PICK w \in Workers : Suspends(w)
    BY <1>1, <1>4 DEF ScheduleStep, KeepsSchedule, Scheduled, CommitsDue, Staged,
        EndsUnpaid, EndsIntentionally, IsRestored, IsRenewed, IsResumed, IsReleased, IsHeld, IsForced
  <2>2. old.suspendAt \in Int
    BY <1>2 DEF Rows
  <2>3. QED BY <1>2, <2>1, <2>2 DEF Suspends, Punctual
<1>5. QED BY <1>3, <1>4

LEMMA AlwaysPunctual == Spec => []Punctual
<1>1. IInv /\ Punctual /\ [Next]_vars => Punctual'
  BY PunctualPreserved
<1>2. QED BY InitPunctual, <1>1, InductiveInvariant, PTL DEF Spec

\* Whoever else writes the row while the provider is powering the server off,
\* a row becomes suspended only under a suspend instant that it has and that
\* has passed.
THEOREM SuspensionCorrect == Spec => SuspendedOnSchedule
<1>1. IInv /\ Punctual /\ [Next]_vars =>
        [db.row.stage # "suspended" /\ db'.row.stage = "suspended"
            => db.row.suspendAt # NoTime /\ db.row.suspendAt <= now]_vars
  BY PunctualPreserved DEF old, new
<1>2. QED BY <1>1, AlwaysPunctual, InductiveInvariant, PTL DEF Spec, SuspendedOnSchedule

-----------------------------------------------------------------------------
(* the term: no schedule starts inside it, no deletion is committed early *)

\* The events that end a service whatever its schedule says.
Unforced == "force_suspend" \notin Events /\ "force_delete" \notin Events

ScheduleIsSound(row) ==
    /\ row.reason = "none" => row.suspendAt = NoTime /\ row.deleteAt = NoTime
    /\ row.reason # "none" => row.suspendAt >= 0 /\ row.deleteAt = row.suspendAt + Retention
    /\ row.reason = "renewal_unpaid" => row.suspendAt >= row.paid + Grace
    /\ row.stage = "cancel_scheduled" => row.suspendAt >= row.paid

\* The row never shows a longer term than billing's record, nor a hold that
\* has not begun.
TermInv ==
    /\ ScheduleIsSound(db.row)
    /\ db.row.paid <= sub.end /\ db.row.holdAt <= now
    /\ Punctual

LEMMA InitTerm == Init => TermInv
<1>1. ASSUME Init PROVE TermInv
  <2>1. /\ OrderedRow.reason = "none" /\ OrderedRow.suspendAt = NoTime
        /\ OrderedRow.deleteAt = NoTime /\ OrderedRow.stage = "ordered"
        /\ OrderedRow.paid = NoTime /\ OrderedRow.holdAt = NoTime
    BY DEF OrderedRow
  <2>2. /\ ReadyRow.reason = "none" /\ ReadyRow.suspendAt = NoTime
        /\ ReadyRow.deleteAt = NoTime /\ ReadyRow.stage = "ready"
        /\ ReadyRow.paid = 0 /\ ReadyRow.holdAt = NoTime
    BY DEF OrderedRow, ReadyRow
  <2>3. db.row \in {OrderedRow, ReadyRow} /\ sub.end = 0 /\ now = 0
    BY <1>1 DEF Init
  <2>4. QED BY <1>1, <2>1, <2>2, <2>3, InitPunctual DEF TermInv, ScheduleIsSound, NoTime
<1>2. QED BY <1>1

LEMMA TermPreserved ==
    ASSUME IInv, TermInv, Unforced, [Next]_vars
    PROVE  TermInv' /\ (old.stage # "deleting" /\ new.stage = "deleting"
                            => /\ now >= old.suspendAt + Retention
                               /\ old.reason = "renewal_unpaid"
                                    => now >= old.paid + Grace + Retention)
<1> USE DEF NoTime
<1>1. ScheduleStep /\ Timely
  BY NextKind DEF StepKinds
<1>2. IInv'
  BY NextPreserves, StutterPreserves DEF Preserved
<1>3. /\ now \in Nat /\ now' \in Nat /\ now' >= now
      /\ sub.end \in Int /\ sub'.end \in Int /\ sub.end >= -1 /\ sub'.end >= sub.end
      /\ \A x \in Workers : wk[x].t \in Nat
      /\ \A q \in Requests : rq[q].t \in Nat
  BY <1>1, <1>2 DEF Timely, IInv, TypeOK, Subscriptions, Instants, Ticks, Handlers
<1>4. /\ old.paid \in Int /\ old.paid >= -1 /\ old.holdAt \in Int /\ old.holdAt >= -1
      /\ old.suspendAt \in Int /\ old.deleteAt \in Int
      /\ old.reason \in {"none", "renewal_unpaid", "intentional"}
  BY Ordinary, RowFields DEF Instants, old
<1>5. Grace \in Nat /\ Retention \in Nat
  BY PolicyAssumption
<1>6. Punctual'
  BY PunctualPreserved DEF TermInv
<1>7. ScheduleIsSound(old) /\ old.paid <= sub.end /\ old.holdAt <= now
  BY DEF TermInv, old
<1>8. ASSUME NEW a \in Int, NEW b \in Int, NEW c \in Int
      PROVE  First(a, b, c) \in {a, b, c} /\ (a >= 0 => First(a, b, c) = a)
             /\ (a = -1 => First(a, b, c) \in {b, c})
             /\ (a = -1 /\ b = -1 => First(a, b, c) = c)
             /\ (a = -1 /\ b >= 0 => First(a, b, c) = b)
  BY <1>8 DEF First
<1>9. ScheduleIsSound(new) /\ new.paid <= sub'.end /\ new.holdAt <= now'
  <2>1. CASE KeepsSchedule
    BY <1>3, <1>4, <1>7, <2>1 DEF KeepsSchedule, SameSchedule, ScheduleIsSound, Scheduled
  <2>2. ASSUME NEW w \in Workers, Suspends(w) \/ CommitsDue(w)
        PROVE  ScheduleIsSound(new) /\ new.paid <= sub'.end /\ new.holdAt <= now'
    BY <1>3, <1>4, <1>7, <2>2
    DEF Suspends, CommitsDue, Staged, SameSchedule, ScheduleIsSound
  <2>3. CASE EndsUnpaid(old, new, now)
    <3> DEFINE anchor == First(old.paid, now, now)
    <3>1. anchor \in Int /\ anchor >= 0 /\ anchor >= old.paid
      BY <1>3, <1>4, <1>8
    <3>2. /\ EndsAt(new, "renewal_unpaid", anchor)
          /\ new.paid = old.paid /\ new.holdAt = old.holdAt /\ new.stage = "past_due"
      BY <2>3 DEF EndsUnpaid
    <3> HIDE DEF anchor
    <3>3. QED BY <1>3, <1>4, <1>5, <1>7, <3>1, <3>2 DEF EndsAt, ScheduleIsSound
  <2>4. ASSUME NEW anchor \in Int, anchor >= 0, anchor >= old.paid,
               EndsIntentionally(old, new, anchor)
        PROVE  ScheduleIsSound(new) /\ new.paid <= sub'.end /\ new.holdAt <= now'
    BY <1>3, <1>4, <1>5, <1>7, <2>4 DEF EndsIntentionally, EndsAt, ScheduleIsSound
  <2>5. CASE EndsIntentionally(old, new, First(sub'.end, old.paid, now))
    <3>1. /\ First(sub'.end, old.paid, now) \in Int
          /\ First(sub'.end, old.paid, now) >= 0
          /\ First(sub'.end, old.paid, now) >= old.paid
      BY <1>3, <1>4, <1>7, <1>8
    <3>2. QED BY <2>4, <2>5, <3>1
  <2>6. ASSUME NEW q \in Requests,
               EndsIntentionally(old, new, First(old.paid, rq[q].t, rq[q].t))
        PROVE  ScheduleIsSound(new) /\ new.paid <= sub'.end /\ new.holdAt <= now'
    <3>1. /\ First(old.paid, rq[q].t, rq[q].t) \in Int
          /\ First(old.paid, rq[q].t, rq[q].t) >= 0
          /\ First(old.paid, rq[q].t, rq[q].t) >= old.paid
      BY <1>3, <1>4, <1>8
    <3>2. QED BY <2>4, <2>6, <3>1
  <2>7. CASE IsRestored(old, new, sub'.end)
    BY <1>3, <1>4, <1>7, <2>7 DEF IsRestored, Unscheduled, ScheduleIsSound
  <2>8. CASE IsRenewed(old, new, sub'.end)
    BY <1>3, <1>4, <1>7, <2>8 DEF IsRenewed, Unscheduled, ScheduleIsSound, Recoverable
  <2>9. CASE IsResumed(old, new)
    BY <1>3, <1>4, <1>7, <2>9 DEF IsResumed, Unscheduled, ScheduleIsSound
  <2>10. CASE IsReleased(old, new, now)
    BY <1>3, <1>4, <1>5, <1>7, <2>10 DEF IsReleased, ScheduleIsSound
  <2>11. CASE IsHeld
    BY <1>3, <1>4, <1>7, <2>11 DEF IsHeld, ScheduleIsSound
  <2>12. ~IsForced
    BY DEF IsForced, Unforced
  <2>13. QED BY <1>1, <2>1, <2>2, <2>3, <2>5, <2>6, <2>7, <2>8, <2>9, <2>10, <2>11, <2>12
             DEF ScheduleStep
<1>10. ASSUME old.stage # "deleting", new.stage = "deleting"
       PROVE  /\ now >= old.suspendAt + Retention
              /\ old.reason = "renewal_unpaid" => now >= old.paid + Grace + Retention
  <2>1. PICK w \in Workers : CommitsDue(w)
    BY <1>1, <1>10 DEF ScheduleStep, KeepsSchedule, Scheduled, Suspends, Staged,
        EndsUnpaid, EndsIntentionally, IsRestored, IsRenewed, IsResumed, IsReleased, IsHeld, IsForced
  <2>2. old.deleteAt # NoTime /\ old.deleteAt <= now
    BY <1>3, <1>4, <2>1 DEF CommitsDue, TermInv, Punctual
  <2>3. QED BY <1>3, <1>4, <1>5, <1>7, <2>2 DEF ScheduleIsSound
<1>11. QED BY <1>6, <1>9, <1>10 DEF TermInv, new

LEMMA AlwaysTerm == ASSUME Unforced PROVE Spec => []TermInv
<1>1. IInv /\ TermInv /\ [Next]_vars => TermInv'
  BY TermPreserved
<1>2. QED BY InitTerm, <1>1, InductiveInvariant, PTL DEF Spec

\* Unless an operator forces an end, every schedule the row ever shows starts
\* at or after the end of the term it shows as paid, and no deletion is
\* committed before grace and retention have passed, whatever payments, holds
\* and releases came between.
THEOREM PaidTermCorrect == ASSUME Unforced PROVE Spec => PaidTermRespected
<1>1. ASSUME TermInv' PROVE TermKept'
  BY <1>1 DEF TermInv, ScheduleIsSound, TermKept
<1>2. IInv /\ TermInv /\ [Next]_vars => [TermKept' /\ CommitsInTime]_vars
  BY <1>1, TermPreserved DEF old, new, CommitsInTime
<1>3. QED BY <1>2, AlwaysTerm, InductiveInvariant, PTL DEF Spec, PaidTermRespected

-----------------------------------------------------------------------------
(* the provider's servers after a step *)

LEMMA SameExisting == ASSUME vps' = vps PROVE Existing' = Existing
  BY DEF Existing, ServerFound

LEMMA TurnedExisting ==
    ASSUME Turned
    PROVE  /\ Existing' \subseteq Existing
           /\ \A sid \in Existing' : vps'[sid].gen = vps[sid].gen /\ vps'[sid].tok = vps[sid].tok
  BY DEF Turned, Existing, ServerFound

LEMMA NoServerNumberZero == ASSUME IInv PROVE NoServer \notin Existing
<1>1. vps \in Seq(Servers) /\ DOMAIN vps = 1..Len(vps)
  BY DEF IInv, TypeOK
<1>2. QED BY <1>1 DEF Existing, NoServer

LEMMA CreatedExisting ==
    ASSUME IInv, NEW me \in Ticks, Created(me)
    PROVE  /\ Existing' = Existing \cup {Len(vps) + 1}
           /\ \A sid \in Existing : vps'[sid] = vps[sid]
           /\ vps'[Len(vps) + 1].gen = me.gen /\ vps'[Len(vps) + 1].tok = me.tok
<1> DEFINE server == [gen |-> me.gen, tok |-> me.tok, st |-> "on"]
<1>1. vps \in Seq(Servers) /\ vps' = Append(vps, server) /\ Len(vps) \in Nat
  BY DEF IInv, TypeOK, Created
<1>2. server.gen = me.gen /\ server.tok = me.tok /\ server.st = "on"
  OBVIOUS
<1>3. server \in Servers
  BY DEF Servers, Ticks
<1> HIDE DEF server
<1>4. /\ DOMAIN vps = 1..Len(vps) /\ DOMAIN vps' = 1..(Len(vps) + 1)
      /\ \A sid \in 1..Len(vps) : vps'[sid] = vps[sid]
      /\ vps'[Len(vps) + 1] = server
  BY <1>1, <1>3
<1>5. Existing = {sid \in 1..Len(vps) : vps[sid].st # "gone"}
  BY <1>4 DEF Existing, ServerFound
<1>6. Existing' = {sid \in 1..(Len(vps) + 1) : vps'[sid].st # "gone"}
  BY <1>4 DEF Existing, ServerFound
<1>7. QED BY <1>1, <1>2, <1>4, <1>5, <1>6

-----------------------------------------------------------------------------
(* one server, as long as one tick at a time asks for it *)

\* Two ticks may run at once, setInterval sees to that, and everything below
\* holds for any number of them.  But no two wait at the same instant for the
\* provider's answer to a look-up, a create or a delete: nothing in the code
\* keeps the second from looking while the first one's create is under way.
OneAsks ==
    \A v, w \in Workers : wk[v].pc \in Asking /\ wk[w].pc \in Asking => v = w

Provisioning == {"prov_get", "prov_find", "prov_create"}
Rechecking   == {"recheck_delete", "recheck_get"}

\* What a tick waiting for the provider relies on: the label it looks for is
\* the row's, it creates only what does not exist, and the server it removes
\* is the only one there is.
TickCounts(me) ==
    /\ me.pc \in Provisioning =>
        me.gen = db.row.gen /\ db.row.stage \notin {"bootstrapping", "ordered"}
    /\ me.pc = "prov_create" => Existing = {}
    /\ me.pc \in Rechecking => Existing \subseteq {me.pid}

ServersCounted ==
    /\ \A sid \in Existing : vps[sid].gen = db.row.gen
    /\ OneServer
    /\ db.row.stage = "bootstrapping" => Existing \subseteq {db.row.pid}
    /\ \A x \in Workers : TickCounts(wk[x])

LEMMA InitExisting ==
    ASSUME Init
    PROVE  /\ Existing \subseteq {db.row.pid}
           /\ \A sid \in Existing : vps[sid].gen = db.row.gen /\ vps[sid].tok = db.row.tok
           /\ db.row.stage \in {"ordered", "ready"}
           /\ \A x \in Workers : wk[x].pc = "idle"
<1>1. \A x \in Workers : wk[x].pc = "idle"
  BY DEF Init, IdleWorker
<1>2. CASE InitStage = "ready"
  <2>1. db.row = ReadyRow /\ vps = <<[gen |-> 1, tok |-> 1, st |-> "on"]>>
    BY <1>2 DEF Init
  <2>2. ReadyRow.gen = 1 /\ ReadyRow.tok = 1 /\ ReadyRow.pid = 1 /\ ReadyRow.stage = "ready"
    BY DEF ReadyRow, OrderedRow
  <2>3. DOMAIN vps = {1} /\ vps[1].gen = 1 /\ vps[1].tok = 1
    BY <2>1
  <2>4. QED BY <1>1, <2>1, <2>2, <2>3 DEF Existing
<1>3. CASE InitStage # "ready"
  <2>1. db.row = OrderedRow /\ vps = <<>>
    BY <1>3 DEF Init
  <2>2. OrderedRow.stage = "ordered"
    BY DEF OrderedRow
  <2>3. DOMAIN vps = {}
    BY <2>1
  <2>4. QED BY <1>1, <2>1, <2>2, <2>3 DEF Existing
<1>4. QED BY <1>2, <1>3

LEMMA InitServers == Init => ServersCounted
<1>1. ASSUME Init PROVE ServersCounted
  BY <1>1, InitExisting DEF ServersCounted, OneServer, TickCounts, Provisioning, Rechecking
<1>2. QED BY <1>1

\* The server that was not found is the one there could have been.
LEMMA NoneLeft ==
    ASSUME IInv, ServersCounted, NEW w \in Workers,
           \/ wk[w].pc = "recheck_get" /\ wk[w].pid \notin Existing
           \/ old.stage = "bootstrapping" /\ old.pid = NoServer
    PROVE  Existing = {}
  BY NoServerNumberZero DEF ServersCounted, TickCounts, Rechecking, old

\* The row keeps its generation and goes no nearer to a boot, and no server
\* appears: nothing that was counted changes.
LEMMA CountsKept ==
    ASSUME IInv, ServersCounted, Turned, new.gen = old.gen,
           new.stage = "bootstrapping" => old.stage = "bootstrapping" /\ new.pid = old.pid,
           \A x \in Workers : TickCounts(wk[x])'
    PROVE  ServersCounted'
<1>1. /\ Existing' \subseteq Existing
      /\ \A sid \in Existing' : vps'[sid].gen = vps[sid].gen
  BY TurnedExisting
<1>2. QED BY <1>1 DEF ServersCounted, OneServer, old, new

LEMMA RestsCount == ASSUME NEW x \in Workers, Rests(x) PROVE TickCounts(wk[x])'
  BY DEF Rests, Asking, TickCounts, Provisioning, Rechecking

\* Beside a tick that asks now or next, no other one does.
LEMMA OthersRest ==
    ASSUME OneAsks, OneAsks', NEW w \in Workers, Others(w),
           wk[w].pc \in Asking \/ wk'[w].pc \in Asking,
           NEW x \in Workers, x # w
    PROVE  Rests(x) /\ TickCounts(wk[x])'
<1>1. wk'[x].pc = wk[x].pc
  BY DEF Others, Unmoved
<1>2. Rests(x)
  BY <1>1 DEF OneAsks, Rests
<1>3. QED BY <1>2, RestsCount

\* A tick beside one that only moves the row's stage still counts on it.
LEMMA OthersCount ==
    ASSUME ServersCounted, NEW w \in Workers, Others(w), Existing' = Existing,
           new.gen = old.gen, new.stage \in {"bootstrapping", "ordered"} => new.stage = old.stage,
           NEW x \in Workers, x # w
    PROVE  TickCounts(wk[x])'
<1>1. TickCounts(wk[x]) /\ Unmoved(x)
  BY DEF ServersCounted, Others
<1>2. QED BY <1>1 DEF Unmoved, TickCounts, Provisioning, old, new

LEMMA ServersPreserved ==
    ASSUME IInv, ServersCounted, OneAsks, OneAsks', ServerStep
    PROVE  ServersCounted'
<1>1. \A w \in Workers : wk[w] \in Ticks
  BY Ordinary
<1>2. /\ \A sid \in Existing : vps[sid].gen = old.gen
      /\ \A s1, s2 \in Existing : s1 = s2
      /\ old.stage = "bootstrapping" => Existing \subseteq {old.pid}
      /\ \A x \in Workers : TickCounts(wk[x])
  BY DEF ServersCounted, OneServer, old
<1>3. CASE Calm
  <2>1. Kept /\ Turned /\ \A x \in Workers : Unmoved(x) \/ Rests(x)
    BY <1>3 DEF Calm
  <2>2. ASSUME NEW x \in Workers PROVE TickCounts(wk[x])'
    <3>1. CASE Rests(x)
      BY <3>1, RestsCount
    <3>2. CASE Unmoved(x)
      <4>1. Existing' \subseteq Existing
        BY <2>1, TurnedExisting
      <4>2. TickCounts(wk[x])
        BY <1>2
      <4>3. QED BY <2>1, <3>2, <4>1, <4>2 DEF Unmoved, Kept, TickCounts, Provisioning, old, new
    <3>3. QED BY <2>1, <3>1, <3>2
  <2>3. QED BY <2>1, <2>2, CountsKept DEF Kept
<1>4. ASSUME NEW w \in Workers, Attempts(w) PROVE ServersCounted'
  <2>1. TickCounts(wk[w])'
    BY <1>4 DEF Attempts, Goes, Staged, SameServer, TickCounts, Rechecking, new
  <2>2. \A x \in Workers : TickCounts(wk[x])'
    BY <1>4, <2>1, OthersRest DEF Attempts, Goes, Asking
  <2>3. QED BY <1>4, <2>2, CountsKept, SameIsTurned DEF Attempts, Staged, SameServer
<1>5. ASSUME NEW w \in Workers, Misses(w) PROVE ServersCounted'
  <2>1. TickCounts(wk[w])'
    BY <1>2, <1>5
    DEF Misses, Goes, Alike, SameServer, TickCounts, Provisioning, Rechecking, old, new
  <2>2. \A x \in Workers : TickCounts(wk[x])'
    BY <1>5, <2>1, OthersRest DEF Misses, Goes, Asking
  <2>3. QED BY <1>5, <2>2, CountsKept, SameIsTurned DEF Misses, Alike, SameServer
<1>6. ASSUME NEW w \in Workers, Installs(w) PROVE ServersCounted'
  <2>1. PICK sid \in Existing : IsInstalled(old, new, sid)
    BY <1>6 DEF Installs
  <2>2. Existing' = Existing /\ Existing = {sid} /\ vps' = vps
    BY <1>2, <1>6, <2>1, SameExisting DEF Installs
  <2>3. \A x \in Workers : TickCounts(wk[x])'
    BY <1>6, OthersRest, RestsCount DEF Installs, Quiets, Asking
  <2>4. QED BY <1>2, <2>1, <2>2, <2>3 DEF ServersCounted, OneServer, IsInstalled, new
<1>7. ASSUME NEW w \in Workers, Mints(w) PROVE ServersCounted'
  <2>1. TickCounts(wk[w]) /\ wk[w].pc = "prov_find"
    BY <1>2, <1>7 DEF Mints
  <2>2. Existing = {}
    BY <1>2, <1>7, <2>1 DEF Mints, TickCounts, Provisioning, old
  <2>3. Existing' = {}
    BY <1>7, <2>2, SameExisting DEF Mints
  <2>4. TickCounts(wk[w])'
    BY <1>7, <2>1, <2>3
    DEF Mints, Goes, IsMinted, TickCounts, Provisioning, Rechecking, old, new
  <2>5. \A x \in Workers : TickCounts(wk[x])'
    BY <1>7, <2>4, OthersRest DEF Mints, Goes, Asking
  <2>6. /\ \A sid \in Existing' : vps'[sid].gen = new.gen
        /\ OneServer'
        /\ Existing' \subseteq {new.pid}
    BY <2>3 DEF OneServer
  <2>7. QED BY <2>5, <2>6 DEF ServersCounted, new
<1>8. ASSUME NEW w \in Workers, Creates(w) PROVE ServersCounted'
  <2>1. Existing = {} /\ wk[w].gen = old.gen
    BY <1>2, <1>8 DEF Creates, TickCounts, Provisioning, old
  <2>2. Existing' = {Len(vps) + 1} /\ vps'[Len(vps) + 1].gen = wk[w].gen
    BY <1>1, <1>8, <2>1, CreatedExisting DEF Creates
  <2>3. \A x \in Workers : TickCounts(wk[x])'
    BY <1>8, OthersRest, RestsCount DEF Creates, Quiets, Asking
  <2>4. IsInstalled(old, new, Len(vps) + 1)
    BY <1>8 DEF Creates
  <2>5. QED BY <2>1, <2>2, <2>3, <2>4 DEF ServersCounted, OneServer, IsInstalled, new
<1>9. ASSUME NEW w \in Workers, Orphans(w) PROVE ServersCounted'
  <2>1. Existing = {} /\ wk[w].gen = old.gen /\ old.stage # "bootstrapping"
    BY <1>2, <1>9 DEF Orphans, TickCounts, Provisioning, old
  <2>2. Existing' = {Len(vps) + 1} /\ vps'[Len(vps) + 1].gen = wk[w].gen
    BY <1>1, <1>9, <2>1, CreatedExisting DEF Orphans
  <2>3. ASSUME NEW x \in Workers PROVE TickCounts(wk[x])'
    <3>1. Rests(x)
      BY <1>9 DEF Orphans, Unmoved, Rests, Asking, OneAsks
    <3>2. QED BY <3>1, RestsCount
  <2>4. new.gen = old.gen /\ new.stage = old.stage
    BY <1>9 DEF Orphans, Alike, SameServer
  <2>5. QED BY <2>1, <2>2, <2>3, <2>4 DEF ServersCounted, OneServer, new
<1>10. ASSUME NEW w \in Workers, Rechecks(w) PROVE ServersCounted'
  <2>1. Existing' = Existing /\ Existing \subseteq {old.pid}
    BY <1>2, <1>10, SameExisting DEF Rechecks
  <2>2. TickCounts(wk[w])'
    BY <1>10, <2>1 DEF Rechecks, Goes, TickCounts, Provisioning, Rechecking
  <2>3. \A x \in Workers : TickCounts(wk[x])'
    BY <1>10, <2>2, OthersRest DEF Rechecks, Goes, Asking
  <2>4. QED BY <1>10, <2>3, CountsKept, SameIsTurned DEF Rechecks, Alike, SameServer
<1>11. ASSUME NEW w \in Workers, Removes(w) PROVE ServersCounted'
  <2>1. Existing' \subseteq {wk'[w].pid}
    <3>1. Existing' \subseteq Existing
      BY <1>11, TurnedExisting DEF Removes
    <3>2. Existing \subseteq {wk[w].pid} /\ wk'[w].pid = wk[w].pid
      BY <1>2, <1>11 DEF Removes, TickCounts, Rechecking
    <3>3. QED BY <3>1, <3>2
  <2>2. TickCounts(wk[w])'
    BY <1>11, <2>1 DEF Removes, Goes, TickCounts, Provisioning, Rechecking
  <2>3. \A x \in Workers : TickCounts(wk[x])'
    BY <1>11, <2>2, OthersRest DEF Removes, Goes, Asking
  <2>4. QED BY <1>11, <2>3, CountsKept DEF Removes, Alike, SameServer
<1>12. ASSUME NEW w \in Workers, Clears(w) PROVE ServersCounted'
  <2>1. Existing' = {}
    BY <1>12, NoneLeft, SameExisting DEF Clears
  <2>2. ASSUME NEW x \in Workers PROVE TickCounts(wk[x])'
    <3>1. CASE x = w
      BY <1>12, <3>1, RestsCount DEF Clears, Quiets
    <3>2. CASE x # w /\ wk[w].pc = "recheck_get"
      BY <1>12, <3>2, OthersRest DEF Clears, Quiets, Asking
    <3>3. CASE x # w /\ old.stage = "bootstrapping"
      <4>1. TickCounts(wk[x]) /\ Unmoved(x)
        BY <1>2, <1>12, <3>3 DEF Clears, Quiets, Others
      <4>2. QED BY <2>1, <3>3, <4>1 DEF Unmoved, TickCounts, Provisioning, Rechecking, old
    <3>4. QED BY <1>12, <3>1, <3>2, <3>3 DEF Clears
  <2>3. /\ \A sid \in Existing' : vps'[sid].gen = new.gen
        /\ OneServer'
        /\ Existing' \subseteq {new.pid}
    BY <2>1 DEF OneServer
  <2>4. QED BY <2>2, <2>3 DEF ServersCounted, new
<1>13. ASSUME NEW w \in Workers, Commits(w) \/ Calls(w) PROVE ServersCounted'
  <2>1. TickCounts(wk[w])'
    BY <1>13 DEF Commits, Calls, Goes, TickCounts, Provisioning, Rechecking
  <2>2. \A x \in Workers : TickCounts(wk[x])'
    BY <1>13, <2>1, OthersRest DEF Commits, Calls, Goes, Asking
  <2>3. QED BY <1>13, <2>2, CountsKept, SameIsTurned
        DEF Commits, Calls, Staged, Alike, SameServer
<1>14. ASSUME NEW w \in Workers, Ends(w) PROVE ServersCounted'
  <2>1. \A x \in Workers : TickCounts(wk[x])'
    BY <1>14, OthersCount, RestsCount, SameExisting DEF Ends, Quiets, IsEnded
  <2>2. QED BY <1>14, <2>1, CountsKept, SameIsTurned DEF Ends, IsEnded
<1>15. QED BY <1>3, <1>4, <1>5, <1>6, <1>7, <1>8, <1>9, <1>10, <1>11, <1>12, <1>13, <1>14
           DEF ServerStep

LEMMA AlwaysCounted == Spec /\ []OneAsks => []ServersCounted
<1>1. IInv /\ ServersCounted /\ OneAsks /\ OneAsks' /\ [Next]_vars => ServersCounted'
  BY NextKind, ServersPreserved DEF StepKinds
<1>2. QED BY InitServers, <1>1, InductiveInvariant, PTL DEF Spec

\* Whatever calls fail half way, whatever crashes and whatever is retried,
\* however many ticks run at once, an order has at most one server at the
\* provider for as long as no two ticks have asked for it at the same time.
THEOREM OneServerCorrect == Spec /\ []OneAsks => []OneServer
<1>1. ServersCounted => OneServer
  BY DEF ServersCounted
<1>2. QED BY <1>1, AlwaysCounted, PTL

-----------------------------------------------------------------------------
(* the credential a server was created with *)

\* As long as the row lives, a create in flight presents the credential the
\* row already verifies, and so does every server there is.
CredentialsStand ==
    db.row.stage # "deleted" =>
        /\ \A sid \in Existing : vps[sid].tok = db.row.tok
        /\ \A x \in Workers : wk[x].pc = "prov_create" => wk[x].tok = db.row.tok

\* A row that ended with a server still there or on its way stays ended.
StaysGone ==
    /\ db.row.stage = "deleted"
    /\ Existing # {} \/ \E x \in Workers : wk[x].pc = "prov_create"
    => db'.row.stage = "deleted"

\* A step that neither creates a server nor asks for one.
LEMMA CredentialsUntouched ==
    ASSUME CredentialsStand, Turned,
           new.stage # "deleted" => old.stage # "deleted" /\ new.tok = old.tok,
           \A x \in Workers : wk'[x].pc = "prov_create" =>
                wk[x].pc = "prov_create" /\ wk'[x].tok = wk[x].tok
    PROVE  CredentialsStand'
<1>1. /\ Existing' \subseteq Existing
      /\ \A sid \in Existing' : vps'[sid].tok = vps[sid].tok
  BY TurnedExisting
<1>2. QED BY <1>1 DEF CredentialsStand, old, new

\* Beside a tick that rests now, a create in flight was in flight before.
LEMMA CreateUnmoved ==
    ASSUME NEW w \in Workers, Others(w), wk'[w].pc # "prov_create",
           NEW x \in Workers, wk'[x].pc = "prov_create"
    PROVE  wk[x].pc = "prov_create" /\ wk'[x].tok = wk[x].tok
  BY DEF Others, Unmoved

LEMMA CredentialsPreserved ==
    ASSUME IInv, ServersCounted, CredentialsStand, OneAsks, OneAsks', ServerStep, StaysGone
    PROVE  CredentialsStand'
<1>1. \A w \in Workers : wk[w] \in Ticks
  BY Ordinary
<1>2. /\ old.stage = "deleted" /\ (Existing # {} \/ \E x \in Workers : wk[x].pc = "prov_create")
            => new.stage = "deleted"
      /\ old.stage # "deleted" =>
            /\ \A sid \in Existing : vps[sid].tok = old.tok
            /\ \A x \in Workers : wk[x].pc = "prov_create" => wk[x].tok = old.tok
  BY DEF StaysGone, CredentialsStand, old, new
<1>3. CASE Calm
  <2>1. Kept /\ Turned /\ \A x \in Workers : Unmoved(x) \/ Rests(x)
    BY <1>3 DEF Calm
  <2>2. \A x \in Workers : wk'[x].pc = "prov_create" =>
            wk[x].pc = "prov_create" /\ wk'[x].tok = wk[x].tok
    BY <2>1 DEF Unmoved, Rests, Asking
  <2>3. QED BY <2>1, <2>2, CredentialsUntouched DEF Kept
<1>4. ASSUME NEW w \in Workers,
             \/ Attempts(w) \/ Misses(w) \/ Installs(w) \/ Rechecks(w) \/ Removes(w)
             \/ Commits(w) \/ Calls(w)
      PROVE  CredentialsStand'
  <2>1. Turned
    BY <1>4, SameIsTurned
    DEF Attempts, Misses, Installs, Rechecks, Removes, Commits, Calls
  <2>2. Others(w) /\ wk'[w].pc # "prov_create"
    BY <1>4
    DEF Attempts, Misses, Installs, Rechecks, Removes, Commits, Calls,
        Goes, Quiets, Rests, Asking
  <2>3. new.tok = old.tok
    BY <1>4
    DEF Attempts, Misses, Installs, Rechecks, Removes, Commits, Calls,
        Staged, Alike, SameServer, IsInstalled
  <2>4. \A x \in Workers : wk'[x].pc = "prov_create" =>
            wk[x].pc = "prov_create" /\ wk'[x].tok = wk[x].tok
    BY <2>2, CreateUnmoved
  <2>5. CASE new.stage # "deleted" => old.stage # "deleted"
    BY <2>1, <2>3, <2>4, <2>5, CredentialsUntouched
  <2>6. CASE old.stage = "deleted" /\ new.stage # "deleted"
    <3>1. Existing = {} /\ \A x \in Workers : wk[x].pc # "prov_create"
      BY <1>2, <2>6
    <3>2. Existing' = {} /\ \A x \in Workers : wk'[x].pc # "prov_create"
      BY <2>1, <2>4, <3>1, TurnedExisting
    <3>3. QED BY <3>2 DEF CredentialsStand
  <2>7. QED BY <2>5, <2>6
<1>5. ASSUME NEW w \in Workers, Mints(w) PROVE CredentialsStand'
  <2>1. TickCounts(wk[w]) /\ wk[w].pc = "prov_find"
    BY <1>5 DEF Mints, ServersCounted
  <2>2. Existing = {}
    BY <1>5, <2>1 DEF Mints, TickCounts, Provisioning, ServersCounted
  <2>3. Existing' = {}
    BY <1>5, <2>2, SameExisting DEF Mints
  <2>4. wk'[w].tok = new.tok
    BY <1>5 DEF Mints, IsMinted
  <2>5. \A x \in Workers : x # w => wk'[x].pc # "prov_create"
    BY <1>5, OthersRest DEF Mints, Goes, Rests, Asking
  <2>6. QED BY <2>3, <2>4, <2>5 DEF CredentialsStand, new
<1>6. ASSUME NEW w \in Workers, Creates(w) \/ Orphans(w) PROVE CredentialsStand'
  <2>1. wk[w].pc = "prov_create" /\ Existing = {}
    BY <1>6 DEF Creates, Orphans, ServersCounted, TickCounts
  <2>2. Existing' = {Len(vps) + 1} /\ vps'[Len(vps) + 1].tok = wk[w].tok
    BY <1>1, <1>6, <2>1, CreatedExisting DEF Creates, Orphans
  <2>3. new.tok = old.tok
    BY <1>6 DEF Creates, Orphans, IsInstalled, Alike, SameServer
  <2>4. ASSUME NEW x \in Workers PROVE wk'[x].pc # "prov_create"
    BY <1>6, <2>1, OthersRest
    DEF Creates, Orphans, Quiets, Rests, Asking, Unmoved, OneAsks
  <2>5. new.stage # "deleted" => wk[w].tok = old.tok
    BY <1>2, <2>1
  <2>6. QED BY <2>2, <2>3, <2>4, <2>5 DEF CredentialsStand, new
<1>7. ASSUME NEW w \in Workers, Clears(w) PROVE CredentialsStand'
  <2>1. Existing' = {}
    BY <1>7, NoneLeft, SameExisting DEF Clears
  <2>2. ASSUME NEW x \in Workers PROVE wk'[x].pc # "prov_create"
    <3>1. CASE x = w
      BY <1>7, <3>1 DEF Clears, Quiets, Rests, Asking
    <3>2. CASE x # w /\ wk[w].pc = "recheck_get"
      BY <1>7, <3>2, OthersRest DEF Clears, Quiets, Rests, Asking
    <3>3. CASE x # w /\ old.stage = "bootstrapping"
      BY <1>7, <3>3
      DEF Clears, Quiets, Others, Unmoved, ServersCounted, TickCounts, Provisioning, old
    <3>4. QED BY <1>7, <3>1, <3>2, <3>3 DEF Clears
  <2>3. QED BY <2>1, <2>2 DEF CredentialsStand
<1>8. ASSUME NEW w \in Workers, Ends(w) PROVE CredentialsStand'
  BY <1>8 DEF Ends, IsEnded, CredentialsStand, new
<1>9. QED BY <1>3, <1>4, <1>5, <1>6, <1>7, <1>8 DEF ServerStep

\* Whichever create was lost or repeated and however often its answer did not
\* arrive, the credential a running server presents is the one the row
\* verifies: a server found again by its label can still prove itself.  It
\* takes a row that, once it has ended and left a server behind, is not
\* brought back; any other end may be undone.
THEOREM CredentialCorrect == Spec /\ []OneAsks /\ [][StaysGone]_vars => []CredentialKept
<1>1. Init => CredentialsStand
  BY InitExisting DEF CredentialsStand
<1>2. ASSUME IInv, ServersCounted, CredentialsStand, OneAsks, OneAsks', [Next]_vars, [StaysGone]_vars
      PROVE  CredentialsStand'
  <2>1. CASE UNCHANGED vars
    BY <1>2, <2>1 DEF vars, CredentialsStand, Existing, ServerFound
  <2>2. CASE StaysGone
    BY <1>2, <2>2, NextKind, CredentialsPreserved DEF StepKinds
  <2>3. QED BY <1>2, <2>1, <2>2
<1>3. CredentialsStand => CredentialKept
  BY DEF CredentialsStand, CredentialKept
<1>4. QED BY <1>1, <1>2, <1>3, AlwaysCounted, InductiveInvariant, PTL DEF Spec

-----------------------------------------------------------------------------
(* nothing is left behind when a row ends *)

\* The answer to a create arrives: the server is in the row as soon as it is
\* at the provider.  Every other call may fail and the process may die.
CreateAnswered ==
    Len(vps') > Len(vps) => db'.row.stage = "bootstrapping" /\ db'.row.pid = Len(vps')

\* The row knows the server there is, and so does the tick that deletes it.
NothingUnknown ==
    /\ Existing \subseteq {db.row.pid}
    /\ db.row.stage = "deleted" => Existing = {}
    /\ \A x \in Workers : wk[x].pc \in {"delete_get", "delete_call"} => wk[x].pid = db.row.pid

\* The row keeps its server, no server appears, and a tick that was not
\* deleting is not.
LEMMA KnowledgeKept ==
    ASSUME IInv, NothingUnknown, Turned, new.pid = old.pid,
           new.stage = "deleted" =>
                old.stage = "deleted" \/ old.pid = NoServer \/ old.pid \notin Existing,
           \A x \in Workers : wk'[x].pc \in {"delete_get", "delete_call"} => wk'[x].pid = old.pid
    PROVE  NothingUnknown'
<1>1. Existing' \subseteq Existing /\ NoServer \notin Existing
  BY TurnedExisting, NoServerNumberZero
<1>2. QED BY <1>1 DEF NothingUnknown, old, new

LEMMA KnowledgePreserved ==
    ASSUME IInv, ServersCounted, NothingUnknown, OneAsks, OneAsks', ServerStep, CreateAnswered
    PROVE  NothingUnknown'
<1> DEFINE Deleting == {"delete_get", "delete_call"}
<1>1. \A w \in Workers : wk[w] \in Ticks
  BY Ordinary
<1>2. /\ Existing \subseteq {old.pid}
      /\ \A x \in Workers : wk[x].pc \in Deleting => wk[x].pid = old.pid
  BY DEF NothingUnknown, old
<1>3. CASE Calm
  <2>1. Kept /\ Turned /\ \A x \in Workers : Unmoved(x) \/ Rests(x)
    BY <1>3 DEF Calm
  <2>2. \A x \in Workers : wk'[x].pc \in Deleting => wk'[x].pid = old.pid
    BY <1>2, <2>1 DEF Unmoved, Rests, Asking
  <2>3. QED BY <2>1, <2>2, KnowledgeKept DEF Kept
<1>4. ASSUME NEW w \in Workers,
             \/ Attempts(w) \/ Misses(w) \/ Rechecks(w) \/ Removes(w) \/ Mints(w)
      PROVE  NothingUnknown'
  <2>1. Turned
    BY <1>4, SameIsTurned DEF Attempts, Misses, Rechecks, Removes, Mints
  <2>2. new.pid = old.pid
    BY <1>4 DEF Attempts, Misses, Rechecks, Removes, Mints, Staged, Alike, SameServer, IsMinted
  <2>3. new.stage = "deleted" => old.stage = "deleted"
    BY <1>4 DEF Attempts, Misses, Rechecks, Removes, Mints, Staged, Alike, IsMinted
  <2>4. \A x \in Workers : wk'[x].pc \notin Deleting
    BY <1>4, OthersRest DEF Attempts, Misses, Rechecks, Removes, Mints, Goes, Rests, Asking
  <2>5. QED BY <2>1, <2>2, <2>3, <2>4, KnowledgeKept
<1>5. ASSUME NEW w \in Workers, Commits(w) \/ Calls(w) PROVE NothingUnknown'
  <2>1. vps' = vps /\ new.pid = old.pid /\ (new.stage = "deleted" => old.stage = "deleted")
    BY <1>5 DEF Commits, Calls, Staged, Alike, SameServer
  <2>2. \A x \in Workers : wk'[x].pc \in Deleting => wk'[x].pid = old.pid
    BY <1>2, <1>5, OthersRest DEF Commits, Calls, Goes, Rests, Asking
  <2>3. QED BY <2>1, <2>2, KnowledgeKept, SameIsTurned
<1>6. ASSUME NEW w \in Workers, Installs(w) PROVE NothingUnknown'
  <2>1. PICK sid \in Existing : IsInstalled(old, new, sid)
    BY <1>6 DEF Installs
  <2>2. Existing' = {sid}
    BY <1>6, <2>1, SameExisting DEF Installs, ServersCounted, OneServer
  <2>3. \A x \in Workers : wk'[x].pc \notin Deleting
    BY <1>6, OthersRest DEF Installs, Quiets, Rests, Asking
  <2>4. QED BY <2>1, <2>2, <2>3 DEF NothingUnknown, IsInstalled, new
<1>7. ASSUME NEW w \in Workers, Creates(w) PROVE NothingUnknown'
  <2>1. TickCounts(wk[w]) /\ wk[w].pc = "prov_create"
    BY <1>7 DEF Creates, ServersCounted
  <2>2. Existing' = {Len(vps) + 1}
    BY <1>1, <1>7, <2>1, CreatedExisting DEF Creates, TickCounts
  <2>3. \A x \in Workers : wk'[x].pc \notin Deleting
    BY <1>7, OthersRest DEF Creates, Quiets, Rests, Asking
  <2>4. QED BY <1>7, <2>2, <2>3 DEF Creates, NothingUnknown, IsInstalled, new
<1>8. ASSUME NEW w \in Workers, Orphans(w) PROVE FALSE
  <2>1. old.stage # "bootstrapping" /\ new.stage = old.stage
    BY <1>8 DEF Orphans, ServersCounted, TickCounts, Provisioning, Alike, old
  <2>2. Len(vps') > Len(vps)
    BY <1>8 DEF IInv, TypeOK, Orphans, Created
  <2>3. QED BY <2>1, <2>2 DEF CreateAnswered, new
<1>9. ASSUME NEW w \in Workers, Clears(w) PROVE NothingUnknown'
  <2>1. Existing' = {}
    BY <1>9, NoneLeft, SameExisting DEF Clears
  <2>2. ASSUME NEW x \in Workers, wk'[x].pc \in Deleting PROVE wk'[x].pid = new.pid
    <3>1. x # w
      BY <1>9, <2>2 DEF Clears, Quiets, Rests, Asking
    <3>2. wk[w].pc # "recheck_get"
      BY <1>9, <2>2, <3>1, OthersRest DEF Clears, Quiets, Rests, Asking
    <3>3. old.pid = NoServer /\ new.pid = NoServer
      BY <1>9, <3>2 DEF Clears, IsCleared
    <3>4. wk'[x].pid = wk[x].pid /\ wk[x].pc \in Deleting
      BY <1>9, <2>2, <3>1 DEF Clears, Quiets, Others, Unmoved
    <3>5. QED BY <1>2, <3>3, <3>4
  <2>3. QED BY <2>1, <2>2 DEF NothingUnknown, new
<1>10. ASSUME NEW w \in Workers, Ends(w) PROVE NothingUnknown'
  <2>1. old.pid = NoServer \/ old.pid \notin Existing
    BY <1>2, <1>10 DEF Ends
  <2>2. \A x \in Workers : wk'[x].pc \in Deleting => wk'[x].pid = old.pid
    BY <1>2, <1>10 DEF Ends, Quiets, Others, Unmoved, Rests, Asking
  <2>3. QED BY <1>10, <2>1, <2>2, KnowledgeKept, SameIsTurned DEF Ends, IsEnded
<1>11. QED BY <1>3, <1>4, <1>5, <1>6, <1>7, <1>8, <1>9, <1>10 DEF ServerStep

\* A row ends as deleted only when the provider has no server of it, whatever
\* billing, the customer and the operator do meanwhile, whichever call fails
\* and wherever the process dies, but for a create: the server of one whose
\* answer is lost can only be found by its label, and nothing looks for it
\* when the row ends.
THEOREM NothingLeftCorrect == Spec /\ []OneAsks /\ [][CreateAnswered]_vars => []NoLeak
<1>1. Init => NothingUnknown
  BY InitExisting DEF NothingUnknown
<1>2. ASSUME IInv, ServersCounted, NothingUnknown, OneAsks, OneAsks', [Next]_vars,
             [CreateAnswered]_vars
      PROVE  NothingUnknown'
  <2>1. CASE UNCHANGED vars
    BY <1>2, <2>1 DEF vars, NothingUnknown, Existing, ServerFound
  <2>2. CASE CreateAnswered
    BY <1>2, <2>2, NextKind, KnowledgePreserved DEF StepKinds
  <2>3. QED BY <1>2, <2>1, <2>2
<1>3. NothingUnknown => NoLeak
  BY DEF NothingUnknown, NoLeak
<1>4. QED BY <1>1, <1>2, <1>3, AlwaysCounted, InductiveInvariant, PTL DEF Spec

-----------------------------------------------------------------------------
(* A row that is being deleted stays so.  Nothing in the code says so in one *)
(* place.  A deletion is committed by the drain of a job that carries the    *)
(* row's own version and generation, and from then on what could bring the   *)
(* row back is another job that carries them too.  Orderly says that there   *)
(* is none: the jobs that end a row and those that set one up never carry    *)
(* the same two numbers, and a row that has ended has none of the latter.    *)

Builds == {"provision", "restore"}

\* The deletions whose key is the version they were queued under.
Dated == {"delete", "admin_delete"}

\* The jobs of the outbox by what the drain compares with the row.
Names(d) == {[key |-> o.key, lv |-> o.lv, gen |-> o.gen] : o \in d.outbox}

IsCurrent(n, row) == n.lv = row.lv /\ n.gen = row.gen

Carries(d, kinds) == \E n \in Names(d) : n.key.kind \in kinds /\ IsCurrent(n, d.row)

Ended(d) == d.row.stage \in Terminal

\* No job is ahead of the row; the key of a deletion is its version.
Numbered(d) ==
    \A n \in Names(d) :
        /\ n.lv <= d.row.lv /\ n.gen <= d.row.gen
        /\ n.key.kind \in Dated => n.lv = n.key.a

Orderly(d) ==
    /\ Numbered(d)
    /\ ~(Carries(d, DeleteJobs) /\ Carries(d, Builds))
    /\ Ended(d) => ~Carries(d, Builds)
    /\ d.row.stage = "ordered" => d.row.reason = "none" /\ ~Carries(d, DeleteJobs)

KeepsOrder(d, e) == Orderly(d) => Orderly(e) /\ (Ended(e) <=> Ended(d))

\* A row under new numbers, and one under a new version.
Blank(d) == Numbered(d) /\ ~Carries(d, DeleteJobs) /\ ~Carries(d, Builds)
Fresh(d) ==
    /\ Blank(d)
    /\ \A n \in Names(d) : n.key.kind \in Dated => n.key.a < d.row.lv

-----------------------------------------------------------------------------
(* the store *)

LEMMA OrderOn ==
    ASSUME NEW d, NEW e, NEW f, KeepsOrder(d, e), KeepsOrder(e, f)
    PROVE  KeepsOrder(d, f)
  BY DEF KeepsOrder

LEMMA OrderItself == ASSUME NEW d PROVE KeepsOrder(d, d)
  BY DEF KeepsOrder

LEMMA NamesType ==
    ASSUME NEW d \in Dbs
    PROVE  Names(d) \subseteq [key : Keys, lv : Nat, gen : Nat]
  BY DEF Names, Dbs, Jobs

\* The order depends on the names, on the row's numbers and on its stage.
LEMMA SameNumbersOrder ==
    ASSUME NEW d, NEW e, Names(e) = Names(d),
           e.row.lv = d.row.lv, e.row.gen = d.row.gen, Ended(e) <=> Ended(d),
           e.row.stage = "ordered" => d.row.stage = "ordered" /\ e.row.reason = d.row.reason
    PROVE  KeepsOrder(d, e)
<1>1. /\ Numbered(d) <=> Numbered(e)
      /\ \A kinds : Carries(d, kinds) <=> Carries(e, kinds)
  BY DEF Numbered, Carries, IsCurrent
<1>2. QED BY <1>1 DEF KeepsOrder, Orderly

LEMMA SameRowOrder ==
    ASSUME NEW d, NEW e, Names(e) = Names(d), e.row = d.row
    PROVE  /\ KeepsOrder(d, e)
           /\ Blank(d) => Blank(e)
           /\ Fresh(d) => Fresh(e)
<1>1. KeepsOrder(d, e)
  BY SameNumbersOrder DEF Ended
<1>2. QED BY <1>1 DEF Blank, Fresh, Numbered, Carries, IsCurrent

\* A method that rewrites jobs where they stand.
LEMMA RewrittenNames ==
    ASSUME NEW d, NEW e, NEW g, e.outbox = {g[o] : o \in d.outbox},
           \A o \in d.outbox : g[o].key = o.key /\ g[o].lv = o.lv /\ g[o].gen = o.gen
    PROVE  Names(e) = Names(d)
<1> DEFINE N(o) == [key |-> o.key, lv |-> o.lv, gen |-> o.gen]
<1>1. Names(d) = {N(o) : o \in d.outbox} /\ Names(e) = {N(o) : o \in e.outbox}
  BY DEF Names
<1>2. \A o \in d.outbox : N(g[o]) = N(o)
  OBVIOUS
<1> HIDE DEF N
<1>3. {N(o) : o \in e.outbox} \subseteq {N(o) : o \in d.outbox}
  BY <1>2
<1>4. {N(o) : o \in d.outbox} \subseteq {N(o) : o \in e.outbox}
  BY <1>2
<1>5. QED BY <1>1, <1>3, <1>4

LEMMA ClaimJobNames ==
    ASSUME NEW d \in Dbs, NEW key, NEW until
    PROVE  Names(ClaimJob(d, key, until)) = Names(d) /\ ClaimJob(d, key, until).row = d.row
<1> DEFINE G(o) == IF o.key = key THEN [o EXCEPT !.lease = until] ELSE o
           g == [o \in d.outbox |-> G(o)]
<1>1. \A o \in d.outbox : g[o].key = o.key /\ g[o].lv = o.lv /\ g[o].gen = o.gen
  BY DEF Dbs, Jobs
<1>2. ClaimJob(d, key, until).outbox = {g[o] : o \in d.outbox} /\ ClaimJob(d, key, until).row = d.row
  BY DEF ClaimJob, Dbs
<1> HIDE DEF g
<1>3. QED BY <1>1, <1>2, RewrittenNames

LEMMA CompleteJobNames ==
    ASSUME NEW d \in Dbs, NEW key
    PROVE  Names(CompleteJob(d, key)) = Names(d) /\ CompleteJob(d, key).row = d.row
<1> DEFINE G(o) == IF o.key = key THEN [o EXCEPT !.status = "sent", !.lease = NoTime] ELSE o
           g == [o \in d.outbox |-> G(o)]
<1>1. \A o \in d.outbox : g[o].key = o.key /\ g[o].lv = o.lv /\ g[o].gen = o.gen
  BY DEF Dbs, Jobs
<1>2. CompleteJob(d, key).outbox = {g[o] : o \in d.outbox} /\ CompleteJob(d, key).row = d.row
  BY DEF CompleteJob, Dbs
<1> HIDE DEF g
<1>3. QED BY <1>1, <1>2, RewrittenNames

LEMMA ReleaseJobNames ==
    ASSUME NEW d \in Dbs, NEW key, NEW at
    PROVE  Names(ReleaseJob(d, key, at)) = Names(d) /\ ReleaseJob(d, key, at).row = d.row
<1> DEFINE G(o) == IF o.key = key
                   THEN [o EXCEPT !.status = "pending", !.lease = NoTime, !.at = at] ELSE o
           g == [o \in d.outbox |-> G(o)]
<1>1. \A o \in d.outbox : g[o].key = o.key /\ g[o].lv = o.lv /\ g[o].gen = o.gen
  BY DEF Dbs, Jobs
<1>2. ReleaseJob(d, key, at).outbox = {g[o] : o \in d.outbox} /\ ReleaseJob(d, key, at).row = d.row
  BY DEF ReleaseJob, Dbs
<1> HIDE DEF g
<1>3. QED BY <1>1, <1>2, RewrittenNames

LEMMA ObsoleteOlderNames ==
    ASSUME NEW d \in Dbs
    PROVE  Names(ObsoleteOlder(d)) = Names(d) /\ ObsoleteOlder(d).row = d.row
<1> DEFINE G(o) == IF o.status = "pending" /\ Older(o, d.row)
                   THEN [o EXCEPT !.status = "obsolete"] ELSE o
           g == [o \in d.outbox |-> G(o)]
<1>1. \A o \in d.outbox : g[o].key = o.key /\ g[o].lv = o.lv /\ g[o].gen = o.gen
  BY DEF Dbs, Jobs
<1>2. ObsoleteOlder(d).outbox = {g[o] : o \in d.outbox} /\ ObsoleteOlder(d).row = d.row
  BY DEF ObsoleteOlder, Dbs
<1> HIDE DEF g
<1>3. QED BY <1>1, <1>2, RewrittenNames

\* Storing a draft changes no job.
LEMMA DraftStored ==
    ASSUME NEW d \in Dbs, NEW draft \in Rows
    PROVE  LET e == UpdateInstance(d, draft) IN
           /\ e \in Dbs /\ Names(e) = Names(d)
           /\ e.row.lv = draft.lv /\ e.row.gen = draft.gen
           /\ e.row.stage = draft.stage /\ e.row.reason = draft.reason
<1> DEFINE e == UpdateInstance(d, draft)
<1>1. /\ e \in Dbs /\ e.outbox = d.outbox
      /\ e.row = [draft EXCEPT !.version = d.row.version + 1]
  BY UpdateInstanceFollows DEF Follows
<1> HIDE DEF e
<1>2. /\ e.row.lv = draft.lv /\ e.row.gen = draft.gen
      /\ e.row.stage = draft.stage /\ e.row.reason = draft.reason
  BY <1>1 DEF Rows
<1>3. QED BY <1>1, <1>2 DEF Names, e

LEMMA DraftOrder ==
    ASSUME NEW d \in Dbs, NEW draft \in Rows,
           draft.lv = d.row.lv, draft.gen = d.row.gen,
           draft.stage \in Terminal <=> Ended(d),
           draft.stage = "ordered" => d.row.stage = "ordered" /\ draft.reason = d.row.reason
    PROVE  KeepsOrder(d, UpdateInstance(d, draft))
  BY DraftStored, SameNumbersOrder DEF Ended

\* Under a new version, or a new generation, the row has no job yet.
LEMMA MovedOn ==
    ASSUME NEW d \in Dbs, Numbered(d), NEW draft \in Rows,
           draft.lv = d.row.lv + 1, draft.gen = d.row.gen
    PROVE  Fresh(UpdateInstance(d, draft))
<1> DEFINE e == UpdateInstance(d, draft)
<1>1. Names(e) = Names(d) /\ e.row.lv = d.row.lv + 1 /\ e.row.gen = d.row.gen
  BY DraftStored
<1> HIDE DEF e
<1>2. d.row.lv \in Nat /\ d.row.gen \in Nat
  BY RowFields
<1>3. ASSUME NEW n \in Names(e)
      PROVE  /\ n.lv < e.row.lv /\ n.gen <= e.row.gen
             /\ n.key.kind \in Dated => n.lv = n.key.a
  <2>1. n.lv \in Nat /\ n.lv <= d.row.lv /\ n.gen <= d.row.gen
        /\ (n.key.kind \in Dated => n.lv = n.key.a)
    BY <1>1, NamesType DEF Numbered
  <2>2. QED BY <1>1, <1>2, <2>1
<1>4. \A n \in Names(e) : n.lv \in Nat /\ n.lv <= e.row.lv /\ ~IsCurrent(n, e.row)
  BY <1>1, <1>2, <1>3, NamesType DEF IsCurrent
<1>5. QED BY <1>3, <1>4 DEF Fresh, Blank, Numbered, Carries, e

LEMMA MovedOver ==
    ASSUME NEW d \in Dbs, Numbered(d), NEW draft \in Rows,
           draft.lv = d.row.lv, draft.gen = d.row.gen + 1
    PROVE  Blank(UpdateInstance(d, draft))
<1> DEFINE e == UpdateInstance(d, draft)
<1>1. Names(e) = Names(d) /\ e.row.lv = d.row.lv /\ e.row.gen = d.row.gen + 1
  BY DraftStored
<1> HIDE DEF e
<1>2. d.row.lv \in Nat /\ d.row.gen \in Nat
  BY RowFields
<1>3. ASSUME NEW n \in Names(e)
      PROVE  /\ n.lv <= e.row.lv /\ n.gen <= e.row.gen /\ n.gen # e.row.gen
             /\ n.key.kind \in Dated => n.lv = n.key.a
  <2>1. n.gen \in Nat /\ n.lv <= d.row.lv /\ n.gen <= d.row.gen
        /\ (n.key.kind \in Dated => n.lv = n.key.a)
    BY <1>1, NamesType DEF Numbered
  <2>2. QED BY <1>1, <1>2, <2>1
<1>4. QED BY <1>3 DEF Blank, Numbered, Carries, IsCurrent, e

LEMMA BlankOrder ==
    ASSUME NEW d, Blank(d), d.row.stage = "ordered" => d.row.reason = "none"
    PROVE  Orderly(d)
  BY DEF Orderly, Blank

-----------------------------------------------------------------------------
(* new jobs *)

LEMMA EnqueueNames ==
    ASSUME NEW d \in Dbs, NEW job \in Jobs
    PROVE  LET e == Enqueue(d, job)
               name == [key |-> job.key, lv |-> job.lv, gen |-> job.gen]
           IN  /\ e \in Dbs /\ e.row = d.row
               /\ Names(d) \subseteq Names(e)
               /\ Names(e) \subseteq Names(d) \cup {name}
               /\ (\A n \in Names(d) : n.key # job.key) => name \in Names(e)
<1> DEFINE e == Enqueue(d, job)
           name == [key |-> job.key, lv |-> job.lv, gen |-> job.gen]
<1>1. e \in Dbs /\ e.row = d.row
  BY EnqueueLeads DEF Leads, Follows
<1>2. CASE \E o \in d.outbox : o.key = job.key
  <2>1. e = d
    BY <1>2 DEF Enqueue
  <2>2. \E n \in Names(d) : n.key = job.key
    <3>1. PICK o \in d.outbox : o.key = job.key
      BY <1>2
    <3>2. [key |-> o.key, lv |-> o.lv, gen |-> o.gen] \in Names(d)
      BY DEF Names
    <3>3. QED BY <3>1, <3>2
  <2>3. QED BY <1>1, <2>1, <2>2
<1>3. CASE ~\E o \in d.outbox : o.key = job.key
  <2>1. e.outbox = d.outbox \cup {job}
    BY <1>3 DEF Enqueue, Dbs
  <2>2. Names(e) = Names(d) \cup {name}
    <3> HIDE DEF e
    <3>1. Names(e) = {[key |-> o.key, lv |-> o.lv, gen |-> o.gen] : o \in d.outbox \cup {job}}
      BY <2>1 DEF Names
    <3>2. QED BY <3>1 DEF Names
  <2>3. QED BY <1>1, <2>2
<1>4. QED BY <1>2, <1>3

\* A job that is not ahead of the row disturbs nothing, unless it sets the row
\* up beside a deletion or after one, or is the first deletion of its numbers.
LEMMA EnqueueOrder ==
    ASSUME NEW d \in Dbs, NEW job \in Jobs,
           Numbered(d) => job.lv <= d.row.lv /\ job.gen <= d.row.gen,
           job.key.kind \in Dated => job.lv = job.key.a,
           job.key.kind \in Builds /\ Orderly(d) => ~Carries(d, DeleteJobs) /\ ~Ended(d),
           job.key.kind \in DeleteJobs /\ IsCurrent(job, d.row) => Carries(d, DeleteJobs)
    PROVE  KeepsOrder(d, Enqueue(d, job))
<1> DEFINE e == Enqueue(d, job)
           name == [key |-> job.key, lv |-> job.lv, gen |-> job.gen]
<1>1. /\ e.row = d.row /\ Names(d) \subseteq Names(e)
      /\ Names(e) \subseteq Names(d) \cup {name}
  BY EnqueueNames
<1>2. name.key = job.key /\ name.lv = job.lv /\ name.gen = job.gen
  OBVIOUS
<1> HIDE DEF e, name
<1> SUFFICES ASSUME Orderly(d) PROVE Orderly(e) /\ (Ended(e) <=> Ended(d))
  BY DEF KeepsOrder, e
<1>3. Numbered(e)
  BY <1>1, <1>2 DEF Orderly, Numbered
<1>4. /\ Carries(d, DeleteJobs) => Carries(e, DeleteJobs)
      /\ Carries(e, DeleteJobs) => Carries(d, DeleteJobs)
  BY <1>1, <1>2 DEF Carries, IsCurrent
<1>5. Carries(e, Builds) => Carries(d, Builds) \/ job.key.kind \in Builds
  BY <1>1, <1>2 DEF Carries
<1>6. QED BY <1>1, <1>3, <1>4, <1>5 DEF Orderly, Ended

\* Most jobs neither end a row nor set one up.
LEMMA EnqueueOther ==
    ASSUME NEW d \in Dbs, NEW kind \in Kinds \ (DeleteJobs \cup Builds),
           NEW a \in Nat, NEW b \in Nat, NEW row \in Rows, NEW at \in Int,
           row.lv = d.row.lv, row.gen = d.row.gen
    PROVE  LET e == Enqueue(d, Job(Key(kind, a, b), row, at)) IN
           /\ e \in Dbs /\ e.row = d.row
           /\ KeepsOrder(d, e)
           /\ Fresh(d) => Fresh(e)
           /\ Orderly(d) => Numbered(e)
           /\ Carries(e, DeleteJobs) => Carries(d, DeleteJobs)
           /\ Carries(e, Builds) => Carries(d, Builds)
<1> DEFINE job == Job(Key(kind, a, b), row, at)
           e == Enqueue(d, job)
           name == [key |-> job.key, lv |-> job.lv, gen |-> job.gen]
<1>1. job \in Jobs
  BY JobType
<1>2. /\ job.key.kind = kind /\ job.lv = d.row.lv /\ job.gen = d.row.gen
      /\ kind \notin Dated /\ kind \notin Builds /\ kind \notin DeleteJobs
  BY DEF Job, Key, DeleteJobs, Dated
<1> HIDE DEF job
<1>3. d.row.lv <= d.row.lv /\ d.row.gen <= d.row.gen
  BY RowFields
<1>4. KeepsOrder(d, e)
  BY <1>1, <1>2, <1>3, EnqueueOrder
<1>5. /\ e \in Dbs /\ e.row = d.row
      /\ Names(e) \subseteq Names(d) \cup {name}
  BY <1>1, EnqueueNames
<1>6. name.key.kind = kind /\ name.lv = d.row.lv /\ name.gen = d.row.gen
  BY <1>2
<1> HIDE DEF e, name
<1>7. Fresh(d) => Fresh(e)
  BY <1>2, <1>3, <1>5, <1>6 DEF Fresh, Blank, Numbered, Carries
<1>8. /\ Carries(e, DeleteJobs) => Carries(d, DeleteJobs)
      /\ Carries(e, Builds) => Carries(d, Builds)
  BY <1>2, <1>5, <1>6 DEF Carries
<1>9. QED BY <1>4, <1>5, <1>7, <1>8 DEF KeepsOrder, Orderly, e, job

\* A deletion queued under a new version is the job that carries it.
LEMMA EnqueueDelete ==
    ASSUME NEW d \in Dbs, Fresh(d), NEW at \in Int, d.row.stage # "ordered",
           NEW kind \in Dated
    PROVE  LET e == Enqueue(d, Job(Key(kind, d.row.lv, 0), d.row, at)) IN
           Orderly(e) /\ e.row = d.row /\ e \in Dbs
<1> DEFINE job == Job(Key(kind, d.row.lv, 0), d.row, at)
           e == Enqueue(d, job)
           name == [key |-> job.key, lv |-> job.lv, gen |-> job.gen]
<1>1. d.row.lv \in Nat /\ d.row.gen \in Nat /\ d.row \in Rows
  BY RowFields
<1>2. kind \in Kinds /\ kind \in DeleteJobs /\ kind \notin Builds
  BY DEF Kinds, DeleteJobs, Builds, Dated
<1>3. job \in Jobs
  BY <1>1, <1>2, JobType
<1>4. /\ job.key.kind = kind /\ job.key.a = d.row.lv
      /\ job.lv = d.row.lv /\ job.gen = d.row.gen
  BY DEF Job, Key
<1> HIDE DEF job
<1>5. \A n \in Names(d) : n.key # job.key
  BY <1>1, <1>4 DEF Fresh
<1>6. /\ e.row = d.row /\ e \in Dbs /\ Names(e) = Names(d) \cup {name}
  BY <1>3, <1>5, EnqueueNames
<1>7. name.key.kind = kind /\ name.key.a = d.row.lv /\ name.lv = d.row.lv /\ name.gen = d.row.gen
  BY <1>4
<1> HIDE DEF e, name
<1>8. Numbered(e)
  BY <1>1, <1>6, <1>7 DEF Fresh, Blank, Numbered
<1>9. Carries(e, DeleteJobs) /\ ~Carries(e, Builds)
  BY <1>2, <1>6, <1>7 DEF Fresh, Blank, Carries, IsCurrent
<1>10. QED BY <1>6, <1>8, <1>9 DEF Orderly, e, job

LEMMA QueueDeadlineJobsOrder ==
    ASSUME NEW d \in Dbs, Fresh(d), d.row.stage # "ordered",
           NEW dl, dl.suspendAt \in Int, dl.deleteAt \in Int
    PROVE  Orderly(QueueDeadlineJobs(d, dl)) /\ QueueDeadlineJobs(d, dl).row = d.row
<1> DEFINE suspended == Enqueue(d, Job(Key("suspend", d.row.lv, 0), d.row, dl.suspendAt))
<1>1. "suspend" \in Kinds \ (DeleteJobs \cup Builds)
  BY DEF Kinds, DeleteJobs, Builds
<1>2. suspended \in Dbs /\ suspended.row = d.row /\ Fresh(suspended)
  BY <1>1, RowFields, EnqueueOther
<1>3. QueueDeadlineJobs(d, dl) =
        Enqueue(suspended, Job(Key("delete", d.row.lv, 0), d.row, dl.deleteAt))
  BY DEF QueueDeadlineJobs
<1> HIDE DEF suspended
<1>4. QED BY <1>2, <1>3, EnqueueDelete DEF Dated

LEMMA EnqueueProvisionOrder ==
    ASSUME NEW d \in Dbs, NEW t \in Nat, ~Ended(d), Orderly(d) => ~Carries(d, DeleteJobs)
    PROVE  KeepsOrder(d, EnqueueProvision(d, t))
<1> DEFINE job == Job(Key("provision", d.row.lv, d.row.gen), d.row, t)
<1>1. /\ "provision" \in Kinds /\ "provision" \in Builds
      /\ "provision" \notin DeleteJobs /\ "provision" \notin Dated
  BY DEF Kinds, Builds, DeleteJobs, Dated
<1>2. job \in Jobs
  BY <1>1, RowFields, JobType
<1>3. job.key.kind = "provision" /\ job.lv = d.row.lv /\ job.gen = d.row.gen
  BY DEF Job, Key
<1> HIDE DEF job
<1>4. KeepsOrder(d, Enqueue(d, job))
  BY <1>1, <1>2, <1>3, RowFields, EnqueueOrder
<1>5. QED BY <1>4 DEF EnqueueProvision, job

LEMMA EnqueueStripeCancelOrder ==
    ASSUME NEW d \in Dbs, NEW t \in Nat,
           NEW why \in {"stripe_ineligible", "stripe_setup_failure", "stripe_terminated"}
    PROVE  /\ EnqueueStripeCancel(d, why, t) \in Dbs
           /\ EnqueueStripeCancel(d, why, t).row = d.row
           /\ KeepsOrder(d, EnqueueStripeCancel(d, why, t))
           /\ Orderly(d) => Numbered(EnqueueStripeCancel(d, why, t))
           /\ Carries(EnqueueStripeCancel(d, why, t), Builds) => Carries(d, Builds)
<1>1. why \in Kinds \ (DeleteJobs \cup Builds)
  BY DEF Kinds, DeleteJobs, Builds
<1>2. d.row \in Rows /\ 0 \in Nat /\ t \in Int
  BY RowFields
<1> DEFINE e == Enqueue(d, Job(Key(why, 0, 0), d.row, t))
<1>3. /\ e \in Dbs /\ e.row = d.row /\ KeepsOrder(d, e)
      /\ Orderly(d) => Numbered(e)
      /\ Carries(e, Builds) => Carries(d, Builds)
  BY <1>1, <1>2, EnqueueOther
<1>4. EnqueueStripeCancel(d, why, t) = e
  BY DEF EnqueueStripeCancel
<1> HIDE DEF e
<1>5. QED BY <1>3, <1>4

-----------------------------------------------------------------------------
(* the row under the same numbers *)

\* What the order sees of a row.
Level(r, s) == s.lv = r.lv /\ s.gen = r.gen /\ s.stage = r.stage /\ s.reason = r.reason

LEMMA LevelOrder ==
    ASSUME NEW d \in Dbs, NEW draft \in Rows, Level(d.row, draft)
    PROVE  KeepsOrder(d, UpdateInstance(d, draft)) /\ UpdateInstance(d, draft) \in Dbs
  BY DraftOrder, DraftStored DEF Level, Ended

LEMMA NotedOrder ==
    ASSUME NEW d \in Dbs, NEW note \in {"none", "flagged", "late"}
    PROVE  LET e == UpdateInstance(d, [d.row EXCEPT !.note = note]) IN
           KeepsOrder(d, e) /\ e \in Dbs /\ e.row.lv = d.row.lv /\ e.row.gen = d.row.gen
<1> DEFINE draft == [d.row EXCEPT !.note = note]
<1>1. draft \in Rows /\ Level(d.row, draft)
  BY DEF Dbs, Rows, Level
<1> HIDE DEF draft
<1>2. LET e == UpdateInstance(d, draft) IN
      KeepsOrder(d, e) /\ e \in Dbs /\ e.row.lv = d.row.lv /\ e.row.gen = d.row.gen
  BY <1>1, LevelOrder, DraftStored DEF Level
<1>3. QED BY <1>2 DEF draft

LEMMA ObservedOrder == ASSUME NEW d \in Dbs PROVE KeepsOrder(d, Observed(d)) /\ Observed(d) \in Dbs
<1>1. d.row \in Rows /\ Level(d.row, d.row)
  BY RowFields DEF Level
<1>2. QED BY <1>1, LevelOrder DEF Observed

LEMMA QuotedOrder ==
    ASSUME NEW d \in Dbs
    PROVE  LET e == UpdateInstance(d, [d.row EXCEPT !.quoted = TRUE]) IN
           KeepsOrder(d, e) /\ e \in Dbs
<1> DEFINE draft == [d.row EXCEPT !.quoted = TRUE]
<1>1. draft \in Rows /\ Level(d.row, draft)
  BY DEF Dbs, Rows, Level
<1> HIDE DEF draft
<1>2. KeepsOrder(d, UpdateInstance(d, draft)) /\ UpdateInstance(d, draft) \in Dbs
  BY <1>1, LevelOrder
<1>3. QED BY <1>2 DEF draft

LEMMA MintedOrder ==
    ASSUME NEW d \in Dbs, NEW tok \in Nat, NEW until \in Nat
    PROVE  KeepsOrder(d, UpdateInstance(d,
                [d.row EXCEPT !.minted = tok, !.tok = tok, !.tokUntil = until]))
<1> DEFINE draft == [d.row EXCEPT !.minted = tok, !.tok = tok, !.tokUntil = until]
<1>1. draft \in Rows /\ Level(d.row, draft)
  <2>1. draft = [f \in DOMAIN d.row |->
            CASE f = "minted" -> tok [] f = "tok" -> tok [] f = "tokUntil" -> until
              [] OTHER -> d.row[f]]
    BY Zenon
  <2>2. QED BY <2>1, RowFields, SMT DEF Rows, Instants, Level
<1> HIDE DEF draft
<1>2. KeepsOrder(d, UpdateInstance(d, draft))
  BY <1>1, LevelOrder
<1>3. QED BY <1>2 DEF draft

LEMMA HeldOrder ==
    ASSUME NEW d \in Dbs, NEW at \in Instants
    PROVE  LET e == UpdateInstance(d, [d.row EXCEPT !.holdAt = at]) IN
           KeepsOrder(d, e) /\ e \in Dbs
<1> DEFINE draft == [d.row EXCEPT !.holdAt = at]
<1>1. draft \in Rows /\ Level(d.row, draft)
  BY DEF Dbs, Rows, Level
<1> HIDE DEF draft
<1>2. KeepsOrder(d, UpdateInstance(d, draft)) /\ UpdateInstance(d, draft) \in Dbs
  BY <1>1, LevelOrder
<1>3. QED BY <1>2 DEF draft

LEMMA ClaimLeaseOrder ==
    ASSUME NEW d \in Dbs, NEW who \in Workers, NEW until \in Instants
    PROVE  KeepsOrder(d, ClaimLease(d, who, until))
           /\ Names(ClaimLease(d, who, until)) = Names(d)
           /\ ClaimLease(d, who, until).row.lv = d.row.lv
           /\ ClaimLease(d, who, until).row.gen = d.row.gen
<1> DEFINE draft == [d.row EXCEPT !.lease = [holder |-> who, until |-> until]]
<1>1. draft \in Rows /\ Level(d.row, draft)
  BY DEF Dbs, Rows, Level
<1>2. ClaimLease(d, who, until) = UpdateInstance(d, draft)
  BY DEF ClaimLease
<1> HIDE DEF draft
<1>3. QED BY <1>1, <1>2, LevelOrder, DraftStored DEF Level

LEMMA ReleaseLeaseOrder ==
    ASSUME NEW d \in Dbs, NEW who
    PROVE  KeepsOrder(d, ReleaseLease(d, who)) /\ ReleaseLease(d, who) \in Dbs
<1> DEFINE draft == [d.row EXCEPT !.lease = Free]
<1>1. draft \in Rows /\ Level(d.row, draft)
  BY DEF Dbs, Rows, Free, Instants, Level
<1>2. ReleaseLease(d, who) \in {d, UpdateInstance(d, draft)}
  BY DEF ReleaseLease
<1> HIDE DEF draft
<1>3. QED BY <1>1, <1>2, LevelOrder, OrderItself

\* The inventory of servers is no part of the order.
LEMMA ResourcesOrder ==
    ASSUME NEW d, NEW e, e.row = d.row, e.outbox = d.outbox
    PROVE  KeepsOrder(d, e) /\ Names(e) = Names(d)
<1>1. Names(e) = Names(d)
  BY DEF Names
<1>2. QED BY <1>1, SameRowOrder

LEMMA RecordResourceOrder ==
    ASSUME NEW d \in Dbs, NEW pid, NEW gen
    PROVE  KeepsOrder(d, RecordResource(d, pid, gen))
<1>1. RecordResource(d, pid, gen).row = d.row /\ RecordResource(d, pid, gen).outbox = d.outbox
  BY DEF RecordResource, Dbs
<1>2. QED BY <1>1, ResourcesOrder

LEMMA MarkRemovedOrder ==
    ASSUME NEW d \in Dbs, NEW gens
    PROVE  KeepsOrder(d, MarkRemoved(d, gens))
<1>1. MarkRemoved(d, gens).row = d.row /\ MarkRemoved(d, gens).outbox = d.outbox
  BY DEF MarkRemoved, Dbs
<1>2. QED BY <1>1, ResourcesOrder

-----------------------------------------------------------------------------
(* the lifecycle *)

\* Under a new version and with no job yet, a row is in order.
LEMMA FreshOrder ==
    ASSUME NEW d, Fresh(d), d.row.stage = "ordered" => d.row.reason = "none"
    PROVE  Orderly(d)
  BY BlankOrder DEF Fresh

LEMMA ObsoleteOlderOrder ==
    ASSUME NEW d \in Dbs
    PROVE  /\ KeepsOrder(d, ObsoleteOlder(d)) /\ ObsoleteOlder(d) \in Dbs
           /\ ObsoleteOlder(d).row = d.row
           /\ Fresh(d) => Fresh(ObsoleteOlder(d))
<1>1. Names(ObsoleteOlder(d)) = Names(d) /\ ObsoleteOlder(d).row = d.row
  BY ObsoleteOlderNames
<1>2. ObsoleteOlder(d) \in Dbs
  BY ObsoleteOlderLeads DEF Leads, Follows
<1>3. QED BY <1>1, <1>2, SameRowOrder

LEMMA ScheduleEndOrder ==
    ASSUME NEW d \in Dbs, ~Ended(d),
           NEW reason \in {"renewal_unpaid", "intentional"}, NEW anchor \in Int
    PROVE  KeepsOrder(d, ScheduleEnd(d, reason, anchor))
<1> DEFINE dl == Deadlines(anchor, reason, 0)
           stage == IF reason = "intentional" THEN "cancel_scheduled" ELSE "past_due"
           draft == [d.row EXCEPT
                !.stage = stage, !.reason = reason, !.suspendAt = dl.suspendAt,
                !.deleteAt = dl.deleteAt, !.lv = @ + 1]
           scheduled == UpdateInstance(d, draft)
           current == ObsoleteOlder(scheduled)
<1>1. dl.suspendAt \in Int /\ dl.deleteAt \in Int
  BY DeadlinesType
<1>2. stage \in Stages /\ stage # "ordered" /\ stage \notin Terminal
  BY DEF Stages, Recoverable, Terminal
<1>3. ScheduleEnd(d, reason, anchor) = QueueDeadlineJobs(current, dl)
  BY DEF ScheduleEnd
<1> HIDE DEF dl, stage
<1>4. /\ draft \in Rows /\ draft.stage = stage
      /\ draft.lv = d.row.lv + 1 /\ draft.gen = d.row.gen
  <2>1. draft = [f \in DOMAIN d.row |->
            CASE f = "stage" -> stage [] f = "reason" -> reason
              [] f = "suspendAt" -> dl.suspendAt [] f = "deleteAt" -> dl.deleteAt
              [] f = "lv" -> d.row.lv + 1 [] OTHER -> d.row[f]]
    BY Zenon
  <2>2. QED BY <1>1, <1>2, <2>1, RowFields, SMT DEF Rows
<1> HIDE DEF draft
<1>5. scheduled \in Dbs /\ scheduled.row.stage = stage
  BY <1>4, DraftStored
<1> SUFFICES ASSUME Orderly(d)
             PROVE  Orderly(QueueDeadlineJobs(current, dl)) /\ ~Ended(QueueDeadlineJobs(current, dl))
  BY <1>3 DEF KeepsOrder
<1>6. Fresh(scheduled)
  BY <1>4, MovedOn DEF Orderly
<1> HIDE DEF scheduled
<1>7. current \in Dbs /\ Fresh(current) /\ current.row.stage = stage
  BY <1>5, <1>6, ObsoleteOlderOrder
<1> HIDE DEF current
<1>8. Orderly(QueueDeadlineJobs(current, dl)) /\ QueueDeadlineJobs(current, dl).row = current.row
  BY <1>1, <1>2, <1>7, QueueDeadlineJobsOrder
<1>9. QED BY <1>2, <1>7, <1>8 DEF Ended

LEMMA RestoreOrder ==
    ASSUME NEW d \in Dbs, ~Ended(d), NEW periodEnd \in Instants, NEW t \in Nat
    PROVE  KeepsOrder(d, Restore(d, periodEnd, t))
<1> DEFINE draft == [d.row EXCEPT
                !.paid = periodEnd, !.reason = "none", !.suspendAt = NoTime,
                !.deleteAt = NoTime, !.stage = "restoring", !.note = "none", !.lv = @ + 1]
           restoring == UpdateInstance(d, draft)
           queued == ObsoleteOlder(restoring)
           job == Job(Key("restore", restoring.row.lv, 0), restoring.row, t)
<1>1. /\ draft \in Rows /\ draft.stage = "restoring"
      /\ draft.lv = d.row.lv + 1 /\ draft.gen = d.row.gen
  <2>1. draft = [f \in DOMAIN d.row |->
            CASE f = "paid" -> periodEnd [] f = "reason" -> "none"
              [] f = "suspendAt" -> NoTime [] f = "deleteAt" -> NoTime
              [] f = "stage" -> "restoring" [] f = "note" -> "none"
              [] f = "lv" -> d.row.lv + 1 [] OTHER -> d.row[f]]
    BY Zenon
  <2>2. QED BY <2>1, RowFields, SMT DEF Rows, NoTime, Stages, Recoverable
<1>2. Restore(d, periodEnd, t) = Enqueue(queued, job)
  BY DEF Restore
<1> HIDE DEF draft
<1>3. restoring \in Dbs /\ restoring.row.stage = "restoring"
  BY <1>1, DraftStored
<1> SUFFICES ASSUME Orderly(d) PROVE Orderly(Enqueue(queued, job)) /\ ~Ended(Enqueue(queued, job))
  BY <1>2 DEF KeepsOrder
<1>4. Fresh(restoring)
  BY <1>1, MovedOn DEF Orderly
<1> HIDE DEF restoring
<1>5. queued \in Dbs /\ Fresh(queued) /\ queued.row = restoring.row
  BY <1>3, <1>4, ObsoleteOlderOrder
<1>6. /\ "restore" \in Kinds /\ "restore" \in Builds
      /\ "restore" \notin DeleteJobs /\ "restore" \notin Dated
  BY DEF Kinds, Builds, DeleteJobs, Dated
<1>7. job \in Jobs
  BY <1>3, <1>6, RowFields, JobType
<1>8. job.key.kind = "restore" /\ job.lv = queued.row.lv /\ job.gen = queued.row.gen
  BY <1>5 DEF Job, Key
<1>9. Orderly(queued) /\ ~Ended(queued)
  BY <1>3, <1>5, FreshOrder DEF Ended, Terminal
<1>10. ~Carries(queued, DeleteJobs) /\ queued.row.lv \in Nat /\ queued.row.gen \in Nat
  BY <1>5, RowFields DEF Fresh, Blank
<1> HIDE DEF queued, job
<1>11. KeepsOrder(queued, Enqueue(queued, job))
  BY <1>5, <1>6, <1>7, <1>8, <1>9, <1>10, EnqueueOrder
<1>12. QED BY <1>9, <1>11 DEF KeepsOrder

LEMMA NotifyLatePaymentOrder ==
    ASSUME NEW d \in Dbs
    PROVE  KeepsOrder(d, NotifyLatePayment(d)) /\ NotifyLatePayment(d) \in Dbs
  BY NotedOrder, OrderItself DEF NotifyLatePayment

LEMMA RenewOrder ==
    ASSUME NEW d \in Dbs, ~Ended(d), NEW periodEnd \in Instants, NEW t \in Nat
    PROVE  KeepsOrder(d, Renew(d, periodEnd, t))
<1> DEFINE paid == [d.row EXCEPT !.paid = periodEnd]
           cleared == [paid EXCEPT !.suspendAt = NoTime, !.deleteAt = NoTime,
                                   !.reason = "none", !.lv = @ + 1]
           stored == UpdateInstance(d, cleared)
           next == ObsoleteOlder(stored)
<1>1. Renew(d, periodEnd, t) \in {UpdateInstance(d, paid), EnqueueProvision(next, t), next}
  BY DEF Renew
<1>2. paid \in Rows /\ Level(d.row, paid) /\ paid.lv = d.row.lv
  BY DEF Dbs, Rows, Level
<1> HIDE DEF paid
<1>3. /\ cleared \in Rows /\ cleared.lv = d.row.lv + 1 /\ cleared.gen = d.row.gen
      /\ cleared.stage = d.row.stage /\ cleared.reason = "none"
  <2>1. cleared = [f \in DOMAIN paid |->
            CASE f = "suspendAt" -> NoTime [] f = "deleteAt" -> NoTime
              [] f = "reason" -> "none" [] f = "lv" -> paid.lv + 1 [] OTHER -> paid[f]]
    BY Zenon
  <2>2. d.row.lv \in Nat
    BY RowFields
  <2>3. QED BY <1>2, <2>1, <2>2, SMT DEF Rows, NoTime, Level
<1> HIDE DEF cleared
<1>4. CASE Renew(d, periodEnd, t) = UpdateInstance(d, paid)
  BY <1>2, <1>4, LevelOrder
<1>5. CASE Renew(d, periodEnd, t) \in {EnqueueProvision(next, t), next}
  <2>1. stored \in Dbs /\ stored.row.stage = d.row.stage /\ stored.row.reason = "none"
    BY <1>3, DraftStored
  <2> SUFFICES ASSUME Orderly(d)
               PROVE  /\ Orderly(Renew(d, periodEnd, t))
                      /\ ~Ended(Renew(d, periodEnd, t))
    BY DEF KeepsOrder
  <2>2. Fresh(stored)
    BY <1>3, MovedOn DEF Orderly
  <2> HIDE DEF stored
  <2>3. next \in Dbs /\ Fresh(next) /\ next.row = stored.row
    BY <2>1, <2>2, ObsoleteOlderOrder
  <2> HIDE DEF next
  <2>4. Orderly(next) /\ ~Ended(next)
    BY <2>1, <2>3, FreshOrder DEF Ended
  <2>5. KeepsOrder(next, EnqueueProvision(next, t))
    BY <2>3, <2>4, EnqueueProvisionOrder DEF Fresh, Blank
  <2>6. QED BY <1>5, <2>4, <2>5 DEF KeepsOrder
<1>6. QED BY <1>1, <1>4, <1>5

LEMMA WithProvisionJobOrder ==
    ASSUME NEW d \in Dbs, NEW s, NEW endOnly, NEW t \in Nat
    PROVE  KeepsOrder(d, WithProvisionJob(d, s, endOnly, t))
<1>1. CASE d.row.stage = "ordered"
  <2>1. ~Ended(d) /\ (Orderly(d) => ~Carries(d, DeleteJobs))
    BY <1>1 DEF Orderly, Ended, Terminal
  <2>2. QED BY <2>1, EnqueueProvisionOrder, OrderItself DEF WithProvisionJob
<1>2. CASE d.row.stage # "ordered"
  BY <1>2, OrderItself DEF WithProvisionJob
<1>3. QED BY <1>1, <1>2

LEMMA WithFlagOrder ==
    ASSUME NEW d \in Dbs, NEW s
    PROVE  KeepsOrder(d, WithFlag(d, s))
  BY NotedOrder, OrderItself DEF WithFlag

\* Every branch of the billing signal leaves the order as it was; none applies
\* to a row that has ended but the notice of a late payment.
LEMMA ApplyBillingSignalOrder ==
    ASSUME NEW d0 \in Dbs, NEW s \in Subscriptions, NEW endOnly \in BOOLEAN, NEW t \in Nat
    PROVE  KeepsOrder(d0, ApplyBillingSignal(d0, s, endOnly, t))
<1> DEFINE d1 == WithProvisionJob(d0, s, endOnly, t)
           d == WithFlag(d1, s)
           e == ApplyBillingSignal(d0, s, endOnly, t)
<1>1. d1 \in Dbs /\ KeepsOrder(d0, d1)
  BY WithProvisionJobOrder, WithProvisionJobLeads DEF Leads, Follows
<1> HIDE DEF d1
<1>2. d \in Dbs /\ KeepsOrder(d0, d)
  BY <1>1, WithFlagOrder, WithFlagLeads, OrderOn DEF Leads, Follows
<1>3. \/ e = d \/ e = NotifyLatePayment(d)
      \/ ~Ended(d) /\ e = Restore(d, s.end, t)
      \/ ~Ended(d) /\ e = Renew(d, s.end, t)
      \/ ~Ended(d) /\ e = ScheduleEnd(d, "intentional", First(s.end, d.row.paid, t))
      \/ ~Ended(d) /\ e = ScheduleEnd(d, "renewal_unpaid", First(d.row.paid, t, t))
  BY DEF ApplyBillingSignal, d1, Ended, Recoverable, Terminal
<1> HIDE DEF d, e
<1>4. s.end \in Instants /\ d.row.paid \in Instants /\ t \in Instants
  BY <1>2, RowFields DEF Subscriptions, Instants
<1>5. First(s.end, d.row.paid, t) \in Int /\ First(d.row.paid, t, t) \in Int
  BY <1>4, FirstType
<1>6. KeepsOrder(d, e)
  BY <1>2, <1>3, <1>4, <1>5, OrderItself, NotifyLatePaymentOrder, RestoreOrder,
     RenewOrder, ScheduleEndOrder
<1>7. QED BY <1>2, <1>6, OrderOn DEF e

\* An order whose licence is refused before it has a server is ended on the
\* spot, and is in order if nothing that would set it up is queued.
LEMMA RefusedOrder ==
    ASSUME NEW d \in Dbs, NEW t \in Nat, Orderly(d), ~Carries(d, Builds)
    PROVE  Orderly(UpdateInstance(EnqueueStripeCancel(d, "stripe_ineligible", t),
                        [d.row EXCEPT !.stage = "deleted"]))
<1> DEFINE draft == [d.row EXCEPT !.stage = "deleted"]
           refused == EnqueueStripeCancel(d, "stripe_ineligible", t)
           e == UpdateInstance(refused, draft)
<1>1. /\ draft \in Rows /\ draft.lv = d.row.lv /\ draft.gen = d.row.gen
      /\ draft.stage = "deleted"
  BY DEF Dbs, Rows, Stages, Terminal
<1> HIDE DEF draft
<1>2. /\ refused \in Dbs /\ refused.row = d.row /\ Numbered(refused)
      /\ ~Carries(refused, Builds)
  BY EnqueueStripeCancelOrder
<1> HIDE DEF refused
<1>3. /\ Names(e) = Names(refused) /\ e.row.stage = "deleted"
      /\ e.row.lv = refused.row.lv /\ e.row.gen = refused.row.gen
  BY <1>1, <1>2, DraftStored
<1> HIDE DEF e
<1>4. Numbered(e) /\ ~Carries(e, Builds)
  BY <1>2, <1>3 DEF Numbered, Carries, IsCurrent
<1>5. Orderly(e)
  BY <1>3, <1>4 DEF Orderly
<1>6. QED BY <1>5 DEF e, refused, draft

LEMMA ReconcileOwnerOrder ==
    ASSUME NEW d \in Dbs, NEW s \in Subscriptions, NEW may \in Eligibilities, NEW t \in Nat
    PROVE  LET e == ReconcileOwner(d, s, may, t) IN
           \/ KeepsOrder(d, e)
           \/ /\ d.row.stage = "ordered" /\ e.row.stage = "deleted"
              /\ Orderly(d) /\ ~Carries(d, Builds) => Orderly(e)
<1> DEFINE ended == ApplyBillingSignal(d, s, TRUE, t)
           refused == EnqueueStripeCancel(d, "stripe_ineligible", t)
           draft == [d.row EXCEPT !.stage = "deleted"]
           gone == UpdateInstance(refused, draft)
           e == ReconcileOwner(d, s, may, t)
<1>1. \/ e \in {d, NotifyLatePayment(d), ApplyBillingSignal(d, s, FALSE, t)}
      \/ e = EnqueueStripeCancel(ended, "stripe_ineligible", t)
      \/ d.row.stage = "ordered" /\ e = gone
  BY DEF ReconcileOwner, Eligibilities
<1>2. /\ KeepsOrder(d, d) /\ KeepsOrder(d, NotifyLatePayment(d))
      /\ KeepsOrder(d, ApplyBillingSignal(d, s, FALSE, t)) /\ KeepsOrder(d, ended)
  BY ApplyBillingSignalOrder, NotifyLatePaymentOrder, OrderItself
<1>3. ended \in Dbs
  BY ApplyBillingSignalLeads DEF Leads, Follows
<1> HIDE DEF ended
<1>4. KeepsOrder(d, EnqueueStripeCancel(ended, "stripe_ineligible", t))
  BY <1>2, <1>3, EnqueueStripeCancelOrder, OrderOn
<1>5. CASE d.row.stage = "ordered" /\ e = gone
  <2>1. Orderly(d) /\ ~Carries(d, Builds) => Orderly(gone)
    BY RefusedOrder
  <2>2. draft \in Rows /\ draft.stage = "deleted"
    BY DEF Dbs, Rows, Stages, Terminal
  <2>3. refused \in Dbs
    BY EnqueueStripeCancelOrder
  <2> HIDE DEF draft, refused
  <2>4. gone.row.stage = "deleted"
    BY <2>2, <2>3, DraftStored
  <2>5. QED BY <1>5, <2>1, <2>4
<1> HIDE DEF e
<1>6. CASE e \in {d, NotifyLatePayment(d), ApplyBillingSignal(d, s, FALSE, t)}
  BY <1>2, <1>6 DEF e
<1>7. CASE e = EnqueueStripeCancel(ended, "stripe_ineligible", t)
  BY <1>4, <1>7 DEF e
<1>8. QED BY <1>1, <1>5, <1>6, <1>7

LEMMA MarkReadyOrder ==
    ASSUME NEW d \in Dbs, ~Ended(d)
    PROVE  KeepsOrder(d, MarkReady(d))
<1> DEFINE draft == [d.row EXCEPT !.stage = "ready", !.note = "none"]
<1>1. /\ draft \in Rows /\ draft.lv = d.row.lv /\ draft.gen = d.row.gen
      /\ draft.stage = "ready"
  BY DEF Dbs, Rows, Stages
<1> HIDE DEF draft
<1>2. "ready" \notin Terminal
  BY DEF Terminal
<1>3. KeepsOrder(d, UpdateInstance(d, draft))
  BY <1>1, <1>2, DraftOrder
<1>4. QED BY <1>3 DEF MarkReady, draft

LEMMA EnqueueRecheckOrder ==
    ASSUME NEW d \in Dbs, NEW a \in Nat, NEW b \in Nat, NEW t \in Int,
           NEW kind \in {"bootstrap_timeout", "replace_region", "region_terminal"}
    PROVE  KeepsOrder(d, Enqueue(d, Job(Key(kind, a, b), d.row, t)))
<1>1. kind \in Kinds \ (DeleteJobs \cup Builds) /\ d.row \in Rows
  BY RowFields DEF Kinds, DeleteJobs, Builds
<1>2. QED BY <1>1, EnqueueOther

LEMMA RefuseReadinessOrder ==
    ASSUME NEW d \in Dbs, NEW t \in Nat
    PROVE  KeepsOrder(d, RefuseReadiness(d, t))
<1> DEFINE moved == UpdateInstance(d, [d.row EXCEPT !.note = "none"])
           replace == Job(Key("replace_region", d.row.gen, 0), moved.row, t)
           terminal == Job(Key("region_terminal", d.row.gen, 0), d.row, t)
<1>1. RefuseReadiness(d, t) \in {Enqueue(moved, replace), Enqueue(d, terminal)}
  BY DEF RefuseReadiness
<1>2. moved \in Dbs /\ KeepsOrder(d, moved)
  BY NotedOrder
<1> HIDE DEF moved
<1>3. d.row.gen \in Nat /\ 0 \in Nat /\ t \in Int
  BY RowFields
<1>4. KeepsOrder(moved, Enqueue(moved, replace)) /\ KeepsOrder(d, Enqueue(d, terminal))
  BY <1>2, <1>3, EnqueueRecheckOrder
<1>5. QED BY <1>1, <1>2, <1>4, OrderOn

LEMMA FailProvisioningOrder ==
    ASSUME NEW d \in Dbs, NEW t \in Nat
    PROVE  KeepsOrder(d, FailProvisioning(d, t))
<1> DEFINE failed == UpdateInstance(d, [d.row EXCEPT !.note = "none"])
<1>1. failed \in Dbs /\ KeepsOrder(d, failed)
  BY NotedOrder
<1>2. FailProvisioning(d, t) = EnqueueStripeCancel(failed, "stripe_setup_failure", t)
  BY DEF FailProvisioning
<1> HIDE DEF failed
<1>3. KeepsOrder(failed, EnqueueStripeCancel(failed, "stripe_setup_failure", t))
  BY <1>1, EnqueueStripeCancelOrder
<1>4. QED BY <1>1, <1>2, <1>3, OrderOn

-----------------------------------------------------------------------------
(* the operators of a tick's jobs *)

LEMMA AttemptOrder ==
    ASSUME NEW d \in Dbs, ~Ended(d)
    PROVE  KeepsOrder(d, UpdateInstance(d,
                [d.row EXCEPT !.stage = "provisioning", !.attempts = @ + 1]))
<1> DEFINE draft == [d.row EXCEPT !.stage = "provisioning", !.attempts = @ + 1]
<1>1. /\ draft \in Rows /\ draft.lv = d.row.lv /\ draft.gen = d.row.gen
      /\ draft.stage = "provisioning"
  <2>1. draft = [f \in DOMAIN d.row |->
            CASE f = "stage" -> "provisioning" [] f = "attempts" -> d.row.attempts + 1
              [] OTHER -> d.row[f]]
    BY Zenon
  <2>2. QED BY <2>1, RowFields, SMT DEF Rows, Stages
<1> HIDE DEF draft
<1>2. "provisioning" \notin Terminal
  BY DEF Terminal
<1>3. KeepsOrder(d, UpdateInstance(d, draft))
  BY <1>1, <1>2, DraftOrder
<1>4. QED BY <1>3 DEF draft

LEMMA BootstrappingOrder ==
    ASSUME NEW d \in Dbs, ~Ended(d), NEW me \in Ticks, NEW sid \in Nat
    PROVE  KeepsOrder(d, Bootstrapping(d, me, sid))
<1> DEFINE recorded == RecordResource(d, sid, me.gen)
           draft == [recorded.row EXCEPT !.pid = sid, !.stage = "bootstrapping"]
           installed == UpdateInstance(recorded, draft)
           at == IF recorded.row.tokUntil # NoTime THEN recorded.row.tokUntil ELSE me.t + TokenTtl
           job == Job(Key("bootstrap_timeout", recorded.row.attempts, recorded.row.gen),
                      installed.row, at)
<1>1. me.gen \in Nat /\ me.t + TokenTtl \in Int
  BY SystemAssumption DEF Ticks
<1>2. recorded \in Dbs /\ recorded.row = d.row /\ KeepsOrder(d, recorded)
  BY <1>1, RecordResourceLeads, RecordResourceOrder DEF Leads, Follows
<1>3. Bootstrapping(d, me, sid) = Enqueue(installed, job)
  BY DEF Bootstrapping
<1>4. at \in Int
  BY <1>1, <1>2, RowFields DEF Instants, NoTime
<1> HIDE DEF recorded, at
<1>5. /\ draft \in Rows /\ draft.lv = recorded.row.lv /\ draft.gen = recorded.row.gen
      /\ draft.stage = "bootstrapping"
  BY <1>2 DEF Dbs, Rows, Stages
<1> HIDE DEF draft
<1>6. KeepsOrder(recorded, installed) /\ installed \in Dbs
  BY <1>2, <1>5, DraftOrder, DraftStored DEF Ended, Terminal
<1> HIDE DEF installed
<1>7. recorded.row.attempts \in Nat /\ recorded.row.gen \in Nat
  BY <1>2, RowFields
<1>8. KeepsOrder(installed, Enqueue(installed, job))
  BY <1>4, <1>6, <1>7, EnqueueRecheckOrder
<1>9. QED BY <1>2, <1>3, <1>6, <1>8, OrderOn

LEMMA NextRegionOrder ==
    ASSUME NEW d \in Dbs, ~Ended(d), NEW t \in Nat
    PROVE  KeepsOrder(d, NextRegion(d, t))
<1> DEFINE draft == [d.row EXCEPT
                !.tried = @ + 1, !.gen = @ + 1, !.attempts = 0, !.pid = NoServer,
                !.tok = 0, !.tokUntil = NoTime, !.stage = "provisioning"]
           moved == UpdateInstance(d, draft)
<1>1. /\ draft \in Rows /\ draft.lv = d.row.lv /\ draft.gen = d.row.gen + 1
      /\ draft.stage = "provisioning"
  <2>1. draft = [f \in DOMAIN d.row |->
            CASE f = "tried" -> d.row.tried + 1 [] f = "gen" -> d.row.gen + 1
              [] f = "attempts" -> 0 [] f = "pid" -> NoServer [] f = "tok" -> 0
              [] f = "tokUntil" -> NoTime [] f = "stage" -> "provisioning"
              [] OTHER -> d.row[f]]
    BY Zenon
  <2>2. QED BY <2>1, RowFields, SMT DEF Rows, NoTime, NoServer, Instants, Stages
<1>2. NextRegion(d, t) = EnqueueProvision(moved, t)
  BY DEF NextRegion
<1> HIDE DEF draft
<1>3. moved \in Dbs /\ moved.row.stage = "provisioning"
  BY <1>1, DraftStored
<1> SUFFICES ASSUME Orderly(d)
             PROVE  Orderly(EnqueueProvision(moved, t)) /\ ~Ended(EnqueueProvision(moved, t))
  BY <1>2 DEF KeepsOrder
<1>4. Blank(moved)
  BY <1>1, MovedOver DEF Orderly
<1> HIDE DEF moved
<1>5. Orderly(moved) /\ ~Ended(moved)
  BY <1>3, <1>4, BlankOrder DEF Ended, Terminal
<1>6. KeepsOrder(moved, EnqueueProvision(moved, t))
  BY <1>3, <1>4, <1>5, EnqueueProvisionOrder DEF Blank
<1>7. QED BY <1>5, <1>6 DEF KeepsOrder

LEMMA CleanedUpOrder ==
    ASSUME NEW d \in Dbs, ~Ended(d), NEW me \in Ticks
    PROVE  KeepsOrder(d, CleanedUp(d, me))
<1> DEFINE removed == MarkRemoved(d, {me.gen})
           draft == [removed.row EXCEPT !.pid = NoServer, !.tokUntil = NoTime]
           ended == UpdateInstance(removed, draft)
<1>1. me.t \in Nat
  BY DEF Ticks
<1>2. removed \in Dbs /\ removed.row = d.row /\ KeepsOrder(d, removed)
  BY MarkRemovedLeads, MarkRemovedOrder DEF Leads, Follows
<1>3. CleanedUp(d, me) \in {NextRegion(removed, me.t), FailProvisioning(ended, me.t)}
  BY DEF CleanedUp, SetupEnded
<1> HIDE DEF removed
<1>4. KeepsOrder(removed, NextRegion(removed, me.t))
  BY <1>1, <1>2, NextRegionOrder DEF Ended
<1>5. draft \in Rows /\ Level(removed.row, draft)
  BY <1>2 DEF Dbs, Rows, Level, NoServer, NoTime, Instants
<1> HIDE DEF draft
<1>6. ended \in Dbs /\ KeepsOrder(removed, ended)
  BY <1>2, <1>5, LevelOrder
<1> HIDE DEF ended
<1>7. KeepsOrder(ended, FailProvisioning(ended, me.t))
  BY <1>1, <1>6, FailProvisioningOrder
<1>8. QED BY <1>2, <1>3, <1>4, <1>6, <1>7, OrderOn

LEMMA PowerRequestedOrder ==
    ASSUME NEW d \in Dbs
    PROVE  KeepsOrder(d, PowerRequested(d))
  BY NotedOrder, OrderItself DEF PowerRequested

LEMMA SuspendedOrder ==
    ASSUME NEW d \in Dbs, NEW fresh, fresh => ~Ended(d)
    PROVE  KeepsOrder(d, Suspended(d, fresh))
<1> DEFINE draft == [d.row EXCEPT !.stage = "suspended"]
<1>1. /\ draft \in Rows /\ draft.lv = d.row.lv /\ draft.gen = d.row.gen
      /\ draft.stage = "suspended"
  BY DEF Dbs, Rows, Stages, Recoverable
<1>2. Suspended(d, fresh) = IF fresh THEN UpdateInstance(d, draft) ELSE d
  BY DEF Suspended
<1> HIDE DEF draft
<1>3. "suspended" \notin Terminal
  BY DEF Terminal
<1>4. fresh => KeepsOrder(d, UpdateInstance(d, draft))
  BY <1>1, <1>3, DraftOrder
<1>5. QED BY <1>2, <1>4, OrderItself

\* The commit leaves the numbers alone: the job that carries the row carries on.
LEMMA CommittedOrder ==
    ASSUME NEW d \in Dbs, Orderly(d), Carries(d, DeleteJobs)
    PROVE  LET e == Committed(d) IN
           Orderly(e) /\ Ended(e) /\ e \in Dbs
<1> DEFINE draft == [d.row EXCEPT !.stage = "deleting"]
           stored == UpdateInstance(d, draft)
<1>1. /\ draft \in Rows /\ draft.lv = d.row.lv /\ draft.gen = d.row.gen
      /\ draft.stage = "deleting"
  BY DEF Dbs, Rows, Stages, Terminal
<1>2. Committed(d) = ObsoleteOlder(stored)
  BY DEF Committed
<1> HIDE DEF draft
<1>3. /\ stored \in Dbs /\ Names(stored) = Names(d) /\ stored.row.stage = "deleting"
      /\ stored.row.lv = d.row.lv /\ stored.row.gen = d.row.gen
  BY <1>1, DraftStored
<1> HIDE DEF stored
<1>4. Numbered(stored) /\ \A kinds : Carries(stored, kinds) <=> Carries(d, kinds)
  BY <1>3 DEF Orderly, Numbered, Carries, IsCurrent
<1>5. Orderly(stored) /\ Ended(stored)
  BY <1>3, <1>4 DEF Orderly, Ended, Terminal
<1>6. QED BY <1>2, <1>3, <1>5, ObsoleteOlderOrder DEF KeepsOrder

LEMMA AbsentOrder ==
    ASSUME NEW d \in Dbs, NEW w, NEW fresh \in BOOLEAN, fresh => Ended(d), NEW t \in Nat
    PROVE  KeepsOrder(d, Absent(d, w, fresh, t)) /\ Absent(d, w, fresh, t) \in Dbs
<1> DEFINE res == {[r EXCEPT !.present = FALSE] : r \in d.res}
           removed == [d EXCEPT !.res = res]
           draft == [d.row EXCEPT !.stage = "deleted", !.tok = 0, !.tokUntil = NoTime]
           ended == UpdateInstance(removed, draft)
           done == EnqueueStripeCancel(ended, "stripe_terminated", t)
<1>1. removed \in Dbs /\ removed.row = d.row /\ removed.outbox = d.outbox
  <2>1. res \in SUBSET [pid : Nat, gen : Nat, present : BOOLEAN]
    BY DEF Dbs
  <2> HIDE DEF res
  <2>2. QED BY <2>1 DEF Dbs
<1>2. KeepsOrder(d, removed)
  BY <1>1, ResourcesOrder
<1>3. Absent(d, w, fresh, t) = ReleaseLease(IF fresh THEN done ELSE removed, w)
  BY DEF Absent
<1> HIDE DEF removed
<1>4. /\ draft \in Rows /\ draft.lv = d.row.lv /\ draft.gen = d.row.gen
      /\ draft.stage = "deleted"
  BY DEF Dbs, Rows, Stages, Terminal, Instants, NoTime
<1> HIDE DEF draft
<1>5. ended \in Dbs
  BY <1>1, <1>4, DraftStored
<1>6. fresh => KeepsOrder(removed, ended)
  BY <1>1, <1>4, DraftOrder DEF Ended, Terminal
<1> HIDE DEF ended
<1>7. done \in Dbs /\ KeepsOrder(ended, done)
  BY <1>5, EnqueueStripeCancelOrder
<1> HIDE DEF done
<1>8. /\ KeepsOrder(done, ReleaseLease(done, w)) /\ ReleaseLease(done, w) \in Dbs
      /\ KeepsOrder(removed, ReleaseLease(removed, w)) /\ ReleaseLease(removed, w) \in Dbs
  BY <1>1, <1>7, ReleaseLeaseOrder
<1>9. QED BY <1>2, <1>3, <1>6, <1>7, <1>8, OrderOn

LEMMA JobOfNamed ==
    ASSUME NEW d \in Dbs, NEW key \in Queued(d)
    PROVE  /\ JobOf(d, key) \in Jobs
           /\ \E n \in Names(d) :
                n.key = key /\ n.lv = JobOf(d, key).lv /\ n.gen = JobOf(d, key).gen
<1>1. JobOf(d, key) \in d.outbox /\ JobOf(d, key).key = key
  BY DEF JobOf, Queued
<1> DEFINE o == JobOf(d, key)
           n == [key |-> o.key, lv |-> o.lv, gen |-> o.gen]
<1>2. n \in Names(d)
  BY <1>1 DEF Names
<1>3. n.key = key /\ n.lv = o.lv /\ n.gen = o.gen
  BY <1>1
<1>4. QED BY <1>2, <1>3, JobOfType

LEMMA ConfirmingOrder ==
    ASSUME NEW d \in Dbs, NEW w, NEW me \in Ticks, me.key \in Queued(d),
           me.key.kind \in DeleteJobs
    PROVE  KeepsOrder(d, Confirming(d, w, me)) /\ Confirming(d, w, me) \in Dbs
<1> DEFINE job == JobOf(d, me.key)
           confirm == [key |-> Key("delete_confirm", job.lv, me.t),
                       lv |-> job.lv, gen |-> job.gen, at |-> me.t + ConfirmDelay,
                       status |-> "pending", lease |-> NoTime]
<1>1. job \in Jobs
  BY JobOfType
<1>2. PICK n \in Names(d) : n.key = me.key /\ n.lv = job.lv /\ n.gen = job.gen
  BY JobOfNamed
<1>3. Confirming(d, w, me) = ReleaseLease(Enqueue(d, confirm), w)
  BY DEF Confirming
<1>4. confirm \in Jobs
  BY <1>1, SystemAssumption DEF Jobs, Keys, Key, Kinds, Ticks, Instants, NoTime
<1>5. /\ confirm.key.kind = "delete_confirm" /\ confirm.lv = n.lv /\ confirm.gen = n.gen
      /\ "delete_confirm" \notin Builds /\ "delete_confirm" \notin Dated
  BY <1>2 DEF Key, Builds, Dated
<1> HIDE DEF confirm, job
<1>6. Numbered(d) => confirm.lv <= d.row.lv /\ confirm.gen <= d.row.gen
  BY <1>5 DEF Numbered
<1>7. IsCurrent(confirm, d.row) => Carries(d, DeleteJobs)
  BY <1>2, <1>5 DEF Carries, IsCurrent
<1>8. KeepsOrder(d, Enqueue(d, confirm)) /\ Enqueue(d, confirm) \in Dbs
  BY <1>4, <1>5, <1>6, <1>7, EnqueueOrder, EnqueueNames
<1>9. QED BY <1>3, <1>8, ReleaseLeaseOrder, OrderOn

-----------------------------------------------------------------------------
(* the operators of handlers and of the operator's actions *)

LEMMA ResumedOrder ==
    ASSUME NEW d \in Dbs, ~Ended(d)
    PROVE  KeepsOrder(d, Resumed(d))
<1> DEFINE draft == [d.row EXCEPT
                !.reason = "none", !.suspendAt = NoTime, !.deleteAt = NoTime,
                !.stage = "ready", !.holdAt = NoTime, !.lv = @ + 1]
           stored == UpdateInstance(d, draft)
<1>1. /\ draft \in Rows /\ draft.stage = "ready"
      /\ draft.lv = d.row.lv + 1 /\ draft.gen = d.row.gen
  <2>1. draft = [f \in DOMAIN d.row |->
            CASE f = "reason" -> "none" [] f = "suspendAt" -> NoTime
              [] f = "deleteAt" -> NoTime [] f = "stage" -> "ready"
              [] f = "holdAt" -> NoTime [] f = "lv" -> d.row.lv + 1
              [] OTHER -> d.row[f]]
    BY Zenon
  <2>2. QED BY <2>1, RowFields, SMT DEF Rows, NoTime, Stages, Instants
<1>2. Resumed(d) = ObsoleteOlder(stored)
  BY DEF Resumed
<1> HIDE DEF draft
<1>3. stored \in Dbs /\ stored.row.stage = "ready"
  BY <1>1, DraftStored
<1> SUFFICES ASSUME Orderly(d) PROVE Orderly(ObsoleteOlder(stored)) /\ ~Ended(ObsoleteOlder(stored))
  BY <1>2 DEF KeepsOrder
<1>4. Fresh(stored)
  BY <1>1, MovedOn DEF Orderly
<1> HIDE DEF stored
<1>5. Orderly(stored) /\ ~Ended(stored)
  BY <1>3, <1>4, FreshOrder DEF Ended, Terminal
<1>6. QED BY <1>3, <1>5, ObsoleteOlderOrder DEF KeepsOrder

\* A hold released: the schedule it moves is one the row has, and an ordered
\* row has none.
LEMMA ReleasedOrder ==
    ASSUME NEW d \in Dbs, NEW t \in Nat
    PROVE  KeepsOrder(d, Released(d, t))
<1> DEFINE row == d.row
           anchor == row.suspendAt - (IF row.reason = "renewal_unpaid" THEN Grace ELSE 0)
           held == t - row.holdAt
           dl == Deadlines(anchor, row.reason, held)
           draft == [row EXCEPT
                !.holdAt = NoTime, !.suspendAt = dl.suspendAt,
                !.deleteAt = dl.deleteAt, !.lv = @ + 1]
           stored == UpdateInstance(d, draft)
           shifted == ObsoleteOlder(stored)
           job == Job(Key("delete", shifted.row.lv, 0), shifted.row, dl.deleteAt)
<1>1. anchor \in Int /\ held \in Int
  BY RowFields, PolicyAssumption DEF Instants, NoTime
<1>2. dl.suspendAt \in Int /\ dl.deleteAt \in Int
  BY <1>1, DeadlinesType
<1>3. \/ Released(d, t) = UpdateInstance(d, [row EXCEPT !.holdAt = NoTime])
      \/ row.reason # "none" /\ Released(d, t) = QueueDeadlineJobs(shifted, dl)
      \/ row.reason # "none" /\ Released(d, t) = Enqueue(shifted, job)
  <2> DEFINE unheld == [row EXCEPT !.holdAt = NoTime]
  <2>1. Released(d, t) =
            CASE row.reason = "none" \/ row.suspendAt = NoTime -> UpdateInstance(d, unheld)
              [] row.reason # "none" /\ row.suspendAt # NoTime /\ dl.deleteAt > t ->
                    QueueDeadlineJobs(shifted, dl)
              [] row.reason # "none" /\ row.suspendAt # NoTime /\ dl.deleteAt <= t ->
                    Enqueue(shifted, job)
    BY Zenon DEF Released
  <2> HIDE DEF dl, anchor, unheld, draft, stored, shifted, job
  <2>2. dl.deleteAt > t \/ dl.deleteAt <= t
    BY <1>2
  <2>3. \/ Released(d, t) = UpdateInstance(d, unheld)
        \/ row.reason # "none" /\ Released(d, t) = QueueDeadlineJobs(shifted, dl)
        \/ row.reason # "none" /\ Released(d, t) = Enqueue(shifted, job)
    BY <2>1, <2>2
  <2>4. QED BY <2>3 DEF unheld
<1> HIDE DEF dl, held, anchor
<1>4. /\ draft \in Rows /\ draft.lv = row.lv + 1 /\ draft.gen = row.gen
      /\ draft.stage = row.stage
  <2>1. draft = [f \in DOMAIN row |->
            CASE f = "holdAt" -> NoTime [] f = "suspendAt" -> dl.suspendAt
              [] f = "deleteAt" -> dl.deleteAt [] f = "lv" -> row.lv + 1
              [] OTHER -> row[f]]
    BY Zenon
  <2>2. QED BY <1>2, <2>1, RowFields, SMT DEF Rows, NoTime, Instants
<1> HIDE DEF draft
<1>5. stored \in Dbs /\ stored.row.stage = row.stage
  BY <1>4, DraftStored
<1>6. CASE Released(d, t) = UpdateInstance(d, [row EXCEPT !.holdAt = NoTime])
  BY <1>6, HeldOrder DEF Instants
<1>7. CASE /\ row.reason # "none"
           /\ Released(d, t) \in {QueueDeadlineJobs(shifted, dl), Enqueue(shifted, job)}
  <2> SUFFICES ASSUME Orderly(d)
               PROVE  Orderly(Released(d, t)) /\ (Ended(Released(d, t)) <=> Ended(d))
    BY DEF KeepsOrder
  <2>1. row.stage # "ordered"
    BY <1>7 DEF Orderly
  <2>2. Fresh(stored)
    BY <1>4, MovedOn DEF Orderly
  <2> HIDE DEF stored
  <2>3. shifted \in Dbs /\ Fresh(shifted) /\ shifted.row.stage = row.stage
    BY <1>5, <2>2, ObsoleteOlderOrder
  <2> HIDE DEF shifted
  <2>4. /\ Orderly(QueueDeadlineJobs(shifted, dl))
        /\ QueueDeadlineJobs(shifted, dl).row = shifted.row
    BY <1>2, <2>1, <2>3, QueueDeadlineJobsOrder
  <2>5. Orderly(Enqueue(shifted, job)) /\ Enqueue(shifted, job).row = shifted.row
    BY <1>2, <2>1, <2>3, EnqueueDelete DEF Dated
  <2>6. QED BY <1>7, <2>3, <2>4, <2>5 DEF Ended
<1>8. QED BY <1>3, <1>6, <1>7

LEMMA ForcedSuspendOrder ==
    ASSUME NEW d \in Dbs, ~Ended(d), NEW t \in Nat
    PROVE  LET forced == UpdateInstance(d, [d.row EXCEPT
                    !.suspendAt = t, !.note = "none", !.lv = @ + 1])
               e == Enqueue(forced, Job(Key("admin_suspend", forced.row.lv, 0), forced.row, t))
           IN  KeepsOrder(d, e) /\ e \in Dbs
<1> DEFINE draft == [d.row EXCEPT !.suspendAt = t, !.note = "none", !.lv = @ + 1]
           forced == UpdateInstance(d, draft)
           e == Enqueue(forced, Job(Key("admin_suspend", forced.row.lv, 0), forced.row, t))
<1>1. /\ draft \in Rows /\ draft.lv = d.row.lv + 1 /\ draft.gen = d.row.gen
      /\ draft.stage = d.row.stage /\ draft.reason = d.row.reason
  <2>1. draft = [f \in DOMAIN d.row |->
            CASE f = "suspendAt" -> t [] f = "note" -> "none"
              [] f = "lv" -> d.row.lv + 1 [] OTHER -> d.row[f]]
    BY Zenon
  <2>2. QED BY <2>1, RowFields, SMT DEF Rows
<1> HIDE DEF draft
<1>2. forced \in Dbs /\ forced.row.stage = d.row.stage /\ forced.row.reason = d.row.reason
  BY <1>1, DraftStored
<1>3. Orderly(d) => Fresh(forced)
  BY <1>1, MovedOn DEF Orderly
<1> HIDE DEF forced
<1>4. Orderly(d) => Orderly(forced)
  BY <1>2, <1>3, FreshOrder DEF Ended, Orderly
<1>5. "admin_suspend" \in Kinds \ (DeleteJobs \cup Builds) /\ forced.row.lv \in Nat
      /\ forced.row \in Rows /\ t \in Int
  BY <1>2, RowFields DEF Kinds, DeleteJobs, Builds
<1>6. KeepsOrder(forced, e) /\ e \in Dbs
  BY <1>2, <1>5, EnqueueOther
<1> HIDE DEF e
<1>7. KeepsOrder(d, e)
  BY <1>2, <1>4, <1>6 DEF KeepsOrder, Ended
<1>8. QED BY <1>6, <1>7 DEF e, forced, draft

\* A forced deletion gives the row a new version, and the job that carries it.
LEMMA ForcedDeleteOrder ==
    ASSUME NEW d \in Dbs, d.row.stage # "ordered", NEW t \in Nat
    PROVE  LET forced == UpdateInstance(d, [d.row EXCEPT
                    !.reason = IF @ = "none" THEN "intentional" ELSE @,
                    !.suspendAt = IF @ = NoTime THEN t ELSE @,
                    !.deleteAt = t, !.note = "none", !.lv = @ + 1])
               e == Enqueue(forced, Job(Key("admin_delete", forced.row.lv, 0), forced.row, t))
           IN  KeepsOrder(d, e) /\ e \in Dbs
<1> DEFINE reason == IF d.row.reason = "none" THEN "intentional" ELSE d.row.reason
           suspendAt == IF d.row.suspendAt = NoTime THEN t ELSE d.row.suspendAt
           draft == [d.row EXCEPT
                    !.reason = IF @ = "none" THEN "intentional" ELSE @,
                    !.suspendAt = IF @ = NoTime THEN t ELSE @,
                    !.deleteAt = t, !.note = "none", !.lv = @ + 1]
           forced == UpdateInstance(d, draft)
           e == Enqueue(forced, Job(Key("admin_delete", forced.row.lv, 0), forced.row, t))
<1>1. /\ draft \in Rows /\ draft.lv = d.row.lv + 1 /\ draft.gen = d.row.gen
      /\ draft.stage = d.row.stage
  <2>1. draft = [f \in DOMAIN d.row |->
            CASE f = "reason" -> reason [] f = "suspendAt" -> suspendAt
              [] f = "deleteAt" -> t [] f = "note" -> "none"
              [] f = "lv" -> d.row.lv + 1 [] OTHER -> d.row[f]]
    BY Zenon
  <2>2. reason \in {"renewal_unpaid", "intentional"} /\ suspendAt \in Int
    BY RowFields DEF Dbs, Rows
  <2> HIDE DEF reason, suspendAt
  <2>3. QED BY <2>1, <2>2, RowFields, SMT DEF Rows
<1> HIDE DEF draft
<1>2. forced \in Dbs /\ forced.row.stage = d.row.stage
  BY <1>1, DraftStored
<1>3. Orderly(d) => Fresh(forced)
  BY <1>1, MovedOn DEF Orderly
<1> HIDE DEF forced
<1>4. "admin_delete" \in Kinds /\ forced.row.lv \in Nat /\ forced.row \in Rows
  BY <1>2, RowFields DEF Kinds
<1>5. Job(Key("admin_delete", forced.row.lv, 0), forced.row, t) \in Jobs
  BY <1>4, JobType
<1>6. e \in Dbs /\ e.row = forced.row
  BY <1>2, <1>5, EnqueueNames
<1>7. Orderly(d) => Orderly(e)
  BY <1>2, <1>3, EnqueueDelete DEF Dated
<1> HIDE DEF e
<1>8. KeepsOrder(d, e)
  BY <1>2, <1>6, <1>7 DEF KeepsOrder, Ended
<1>9. QED BY <1>6, <1>8 DEF e, forced, draft

\* The operator's retry of a setup no deletion is queued for.
LEMMA RetriedOrder ==
    ASSUME NEW d \in Dbs, ~Ended(d), ~Carries(d, DeleteJobs), NEW t \in Nat
    PROVE  LET e == EnqueueProvision(
                    UpdateInstance(d, [d.row EXCEPT !.attempts = 0, !.note = "none"]), t)
           IN  KeepsOrder(d, e) /\ e \in Dbs
<1> DEFINE draft == [d.row EXCEPT !.attempts = 0, !.note = "none"]
           retried == UpdateInstance(d, draft)
<1>1. draft \in Rows /\ Level(d.row, draft)
  <2>1. draft = [f \in DOMAIN d.row |->
            CASE f = "attempts" -> 0 [] f = "note" -> "none" [] OTHER -> d.row[f]]
    BY Zenon
  <2>2. QED BY <2>1, RowFields, SMT DEF Rows, Level
<1> HIDE DEF draft
<1>2. retried \in Dbs /\ KeepsOrder(d, retried)
  BY <1>1, LevelOrder
<1>3. /\ Names(retried) = Names(d) /\ retried.row.stage = d.row.stage
      /\ retried.row.lv = d.row.lv /\ retried.row.gen = d.row.gen
  BY <1>1, DraftStored DEF Level
<1> HIDE DEF retried
<1>4. ~Ended(retried) /\ ~Carries(retried, DeleteJobs)
  BY <1>3 DEF Ended, Carries, IsCurrent
<1>5. KeepsOrder(retried, EnqueueProvision(retried, t))
  BY <1>2, <1>4, EnqueueProvisionOrder
<1>6. EnqueueProvision(retried, t) \in Dbs
  BY <1>2, EnqueueProvisionLeads DEF Leads, Follows
<1>7. QED BY <1>2, <1>5, <1>6, OrderOn DEF retried, draft

-----------------------------------------------------------------------------
(* the shape of a step *)

\* Where a tick waits for the provider about a server it is setting up, and
\* about one it is deleting.
SettingUp == {"plans", "prov_get", "prov_find", "prov_create", "recheck_delete", "recheck_get"}
Deleting  == {"delete_get", "delete_call"}

\* What a tick in flight takes for granted of a row d may have become.
Attends(me, d) ==
    /\ me.pc \in SettingUp => ~Ended(d)
    /\ me.pc \in Deleting => me.key.kind \in DeleteJobs

\* The inductive invariant, next to IInv.
EndInOrder ==
    /\ Orderly(db)
    /\ \A w \in Workers : Attends(wk[w], db)

\* While a tick is setting a server up no other one is under way: nothing in
\* the code sees to it, and a second tick that commits a deletion in the
\* meantime has it undone by the answer the first one is waiting for.
BuildsAlone ==
    \A v, w \in Workers : wk[v].pc \in SettingUp /\ wk[w].pc # "idle" => v = w

\* No tick but w is setting a server up.
Alone(w) == \A x \in Workers : x # w => wk[x].pc \notin SettingUp

(* Where TLC finds an ended row brought back.  The operator's retry of a     *)
(* setup checks neither the stage nor the schedule, his deletion of an order *)
(* that has no server yet leaves billing free to queue the setup again, and  *)
(* an order whose licence is refused ends beside a setup already queued or   *)
(* under way.  A row is ended in good time when none of the three happens at *)
(* such a moment; all three may happen at any other.                         *)
InGoodTime ==
    /\ AdminRetryProvisioning => ~Ended(db) /\ ~Carries(db, DeleteJobs)
    /\ AdminForceDelete => db.row.stage # "ordered"
    /\ db.row.stage = "ordered" /\ db'.row.stage = "deleted" =>
        ~Carries(db, Builds) /\ \A w \in Workers : wk[w].pc \notin SettingUp

\* What every step must leave behind.
Onward == EndInOrder' /\ (Ended(db) => Ended(db'))

\* A db this step may store.
Onto(d) == d \in Dbs /\ Orderly(d) /\ (Ended(db) => Ended(d))

LEMMA KeptIsOnto ==
    ASSUME EndInOrder, NEW d \in Dbs, KeepsOrder(db, d)
    PROVE  Onto(d) /\ (Ended(d) <=> Ended(db))
  BY DEF EndInOrder, KeepsOrder, Onto

LEMMA NowOnto ==
    ASSUME IInv, EndInOrder
    PROVE  Onto(db) /\ db \in Dbs /\ Orderly(db) /\ \A w \in Workers : wk[w] \in Ticks
  BY DEF IInv, TypeOK, EndInOrder, Onto

LEMMA StoredOrder ==
    ASSUME NEW d \in Dbs
    PROVE  /\ Orderly(d) => Orderly(Stored(d))
           /\ Ended(Stored(d)) <=> Ended(d)
<1>1. Names(Stored(d)) = Names(d)
  BY StoredType DEF Names
<1>2. Level(d.row, Stored(d).row)
  BY DEF Stored, Dbs, Rows, Level
<1>3. QED BY <1>1, <1>2, SameNumbersOrder DEF Level, Ended, KeepsOrder

LEMMA WorkerOnward ==
    ASSUME IInv, EndInOrder, NEW w \in Workers, Alone(w), NEW d, Onto(d), NEW next,
           WorkerStep(w, d, next), Attends(next, d)
    PROVE  Onward
<1>1. db' = Stored(d) /\ d \in Dbs
  BY DEF WorkerStep, Onto
<1>2. Orderly(db') /\ (Ended(db') <=> Ended(d))
  BY <1>1, StoredOrder DEF Onto
<1>3. ASSUME NEW x \in Workers PROVE Attends(wk[x], db)'
  <2>1. CASE x = w
    <3>1. wk'[x] = next
      BY <2>1 DEF WorkerStep
    <3>2. QED BY <1>2, <3>1 DEF Attends
  <2>2. CASE x # w
    <3>1. wk'[x].pc = wk[x].pc /\ wk'[x].key = wk[x].key
      BY <2>2, NowOnto DEF WorkerStep, AfterStep, Ticks
    <3>2. wk[x].pc \notin SettingUp /\ Attends(wk[x], db)
      BY <2>2 DEF Alone, EndInOrder
    <3>3. QED BY <3>1, <3>2 DEF Attends
  <2>3. QED BY <2>1, <2>2
<1>4. EndInOrder'
  BY <1>2, <1>3 DEF EndInOrder
<1>5. QED BY <1>2, <1>4 DEF Onward, Onto

LEMMA RestAttends ==
    ASSUME NEW me \in Ticks, NEW d
    PROVE  Attends(Rest(me), d)
<1>1. Rest(me).pc \in {"idle", "drain"}
  BY RestIs
<1>2. QED BY <1>1 DEF Attends, SettingUp, Deleting

LEMMA DoneOnward ==
    ASSUME IInv, EndInOrder, NEW w \in Workers, Alone(w), NEW d, Onto(d),
           NEW me \in Ticks, Done(w, d, me)
    PROVE  Onward
<1> DEFINE e == CompleteJob(d, me.key)
<1>1. e \in Dbs /\ KeepsOrder(d, e)
  BY CompleteJobLeads, CompleteJobNames, SameRowOrder DEF Leads, Follows, Onto
<1>2. WorkerStep(w, e, Rest(me))
  BY DEF Done
<1> HIDE DEF e
<1>3. Onto(e)
  BY <1>1 DEF Onto, KeepsOrder
<1>4. QED BY <1>2, <1>3, RestAttends, WorkerOnward

LEMMA RetryOnward ==
    ASSUME IInv, EndInOrder, NEW w \in Workers, Alone(w), NEW d, Onto(d),
           NEW me \in Ticks, Retry(w, d, me)
    PROVE  Onward
<1> DEFINE e == ReleaseJob(d, me.key, now + Backoff)
<1>1. now + Backoff \in Int
  BY SystemAssumption DEF IInv, TypeOK
<1>2. e \in Dbs /\ KeepsOrder(d, e)
  BY <1>1, ReleaseJobLeads, ReleaseJobNames, SameRowOrder DEF Leads, Follows, Onto
<1>3. WorkerStep(w, e, Rest(me))
  BY DEF Retry
<1> HIDE DEF e
<1>4. Onto(e)
  BY <1>2 DEF Onto, KeepsOrder
<1>5. QED BY <1>3, <1>4, RestAttends, WorkerOnward

LEMMA FailsOnward ==
    ASSUME IInv, EndInOrder, NEW w \in Workers, Alone(w), NEW d, Onto(d),
           NEW me \in Ticks, Fails(w, d, me)
    PROVE  Onward
  BY RetryOnward DEF Fails

LEMMA AwaitOnward ==
    ASSUME IInv, EndInOrder, NEW w \in Workers, Alone(w), NEW d, Onto(d),
           NEW me \in Ticks, NEW pc, Await(w, d, me, pc),
           pc \in SettingUp => ~Ended(d),
           pc \in Deleting => me.key.kind \in DeleteJobs
    PROVE  Onward
<1> DEFINE next == [me EXCEPT !.pc = pc]
<1>1. next.pc = pc /\ next.key = me.key
  BY DEF Ticks
<1>2. WorkerStep(w, d, next)
  BY DEF Await
<1> HIDE DEF next
<1>3. Attends(next, d)
  BY <1>1 DEF Attends
<1>4. QED BY <1>2, <1>3, WorkerOnward

\* A handler or a synchronous caller neither ends a row nor disturbs a tick.
LEMMA AsideOnward ==
    ASSUME IInv, EndInOrder, NEW d \in Dbs, KeepsOrder(db, d), db' = Stored(d),
           wk' = [w \in Workers |-> AfterStep(wk[w], d)]
    PROVE  Onward
<1>1. Onto(d) /\ (Ended(d) <=> Ended(db))
  BY KeptIsOnto
<1>2. Orderly(db') /\ (Ended(db') <=> Ended(db))
  BY <1>1, StoredOrder DEF Onto
<1>3. ASSUME NEW x \in Workers PROVE Attends(wk[x], db)'
  <2>1. wk[x] \in Ticks /\ Attends(wk[x], db)
    BY NowOnto DEF EndInOrder
  <2>2. wk'[x].pc = wk[x].pc /\ wk'[x].key = wk[x].key
    BY <2>1 DEF AfterStep, Ticks
  <2>3. QED BY <1>2, <2>1, <2>2 DEF Attends
<1>4. EndInOrder'
  BY <1>2, <1>3 DEF EndInOrder
<1>5. QED BY <1>2, <1>4 DEF Onward

\* A step that leaves the store alone and no tick in the middle of a job it
\* was not in.
LEMMA OutsideOnward ==
    ASSUME EndInOrder, db' = db,
           \A x \in Workers : wk'[x] = wk[x] \/ wk'[x].pc = "idle"
    PROVE  Onward
  BY DEF EndInOrder, Onward, Attends, SettingUp, Deleting, Ended, Orderly, Numbered,
         Carries, Names

-----------------------------------------------------------------------------
(* the ticks *)

LEMMA AfterQuoteOnward ==
    ASSUME IInv, EndInOrder, NEW w \in Workers, Alone(w), NEW d, Onto(d), ~Ended(d),
           NEW me \in Ticks, AfterQuote(w, d, me)
    PROVE  Onward
<1> DEFINE attempt == UpdateInstance(d, [d.row EXCEPT !.stage = "provisioning", !.attempts = @ + 1])
           known == [me EXCEPT !.gen = d.row.gen, !.pid = d.row.pid]
<1>1. d \in Dbs /\ me.t \in Nat
  BY DEF Onto, Ticks
<1>2. CASE Done(w, FailProvisioning(d, me.t), me)
  <2>1. FailProvisioning(d, me.t) \in Dbs /\ KeepsOrder(d, FailProvisioning(d, me.t))
    BY <1>1, FailProvisioningLeads, FailProvisioningOrder DEF Leads, Follows
  <2>2. Onto(FailProvisioning(d, me.t))
    BY <2>1 DEF Onto, KeepsOrder
  <2>3. QED BY <1>2, <2>2, DoneOnward
<1>3. CASE Await(w, attempt, known, IF d.row.pid # NoServer THEN "prov_get" ELSE "prov_find")
  <2>1. attempt \in Dbs /\ KeepsOrder(d, attempt)
    BY <1>1, AttemptLeads, AttemptOrder DEF Leads, Follows
  <2>2. known \in Ticks
    BY <1>1, RowFields DEF Ticks
  <2> HIDE DEF attempt, known
  <2>3. Onto(attempt) /\ ~Ended(attempt)
    BY <2>1 DEF Onto, KeepsOrder
  <2>4. "prov_get" \notin Deleting /\ "prov_find" \notin Deleting
    BY DEF Deleting
  <2>5. PICK pc \in {"prov_get", "prov_find"} : Await(w, attempt, known, pc)
    BY <1>3
  <2>6. QED BY <2>2, <2>3, <2>4, <2>5, AwaitOnward
<1>4. QED BY <1>2, <1>3 DEF AfterQuote

LEMMA StartProvisionOnward ==
    ASSUME IInv, EndInOrder, NEW w \in Workers, Alone(w), NEW d, Onto(d), ~Ended(d),
           NEW me \in Ticks, StartProvision(w, d, me)
    PROVE  Onward
<1>1. d \in Dbs /\ me.t \in Nat
  BY DEF Onto, Ticks
<1>2. CASE Retry(w, d, me)
  BY <1>2, RetryOnward
<1>3. CASE Await(w, d, [me EXCEPT !.pid = d.row.pid], "restore_get")
  <2>1. [me EXCEPT !.pid = d.row.pid] \in Ticks
    BY <1>1, RowFields DEF Ticks
  <2>2. "restore_get" \notin SettingUp /\ "restore_get" \notin Deleting
    BY DEF SettingUp, Deleting
  <2>3. QED BY <1>3, <2>1, <2>2, AwaitOnward
<1>4. CASE Done(w, FailProvisioning(d, me.t), me)
  <2>1. FailProvisioning(d, me.t) \in Dbs /\ KeepsOrder(d, FailProvisioning(d, me.t))
    BY <1>1, FailProvisioningLeads, FailProvisioningOrder DEF Leads, Follows
  <2>2. Onto(FailProvisioning(d, me.t))
    BY <2>1 DEF Onto, KeepsOrder
  <2>3. QED BY <1>4, <2>2, DoneOnward
<1>5. CASE AfterQuote(w, d, me)
  BY <1>5, AfterQuoteOnward
<1>6. CASE Await(w, d, me, "plans")
  BY <1>6, AwaitOnward DEF Deleting
<1>7. QED BY <1>1, <1>2, <1>3, <1>4, <1>5, <1>6, StartProvisionIs

\* A tick that was setting a server up finds a row that has not ended.
LEMMA StillRunning ==
    ASSUME IInv, EndInOrder, NEW w \in Workers, wk[w].pc \in SettingUp
    PROVE  ~Ended(db)
  BY DEF EndInOrder, Attends

LEMMA PlansAnswerOnward ==
    ASSUME IInv, EndInOrder, NEW w \in Workers, Alone(w), PlansAnswer(w)
    PROVE  Onward
<1> DEFINE me == wk[w]
           quoted == IF db.row.quoted THEN db
                     ELSE UpdateInstance(db, [db.row EXCEPT !.quoted = TRUE])
<1>1. me \in Ticks /\ db \in Dbs /\ Onto(db)
  BY NowOnto
<1>2. ~Ended(db)
  BY StillRunning DEF PlansAnswer, SettingUp
<1>3. quoted \in Dbs /\ KeepsOrder(db, quoted)
  BY <1>1, QuotedOrder, OrderItself
<1>4. AfterQuote(w, quoted, me) \/ Fails(w, db, me)
  BY DEF PlansAnswer
<1> HIDE DEF quoted
<1>5. Onto(quoted) /\ ~Ended(quoted)
  BY <1>2, <1>3, KeptIsOnto
<1>6. QED BY <1>1, <1>4, <1>5, AfterQuoteOnward, FailsOnward

LEMMA BootstrappingOnward ==
    ASSUME IInv, EndInOrder, NEW w \in Workers, Alone(w), ~Ended(db), NEW sid \in Nat,
           Done(w, Bootstrapping(db, wk[w], sid), wk[w])
    PROVE  Onward
<1>1. db \in Dbs /\ wk[w] \in Ticks
  BY NowOnto
<1>2. /\ Bootstrapping(db, wk[w], sid) \in Dbs
      /\ KeepsOrder(db, Bootstrapping(db, wk[w], sid))
  BY <1>1, BootstrappingLeads, BootstrappingOrder DEF Leads, Follows
<1>3. QED BY <1>1, <1>2, KeptIsOnto, DoneOnward

LEMMA ProvisionGetAnswerOnward ==
    ASSUME IInv, EndInOrder, NEW w \in Workers, Alone(w), ProvisionGetAnswer(w)
    PROVE  Onward
<1> DEFINE me == wk[w]
<1>1. me \in Ticks /\ Onto(db) /\ me.pid \in Nat
  BY NowOnto DEF Ticks
<1>2. ~Ended(db)
  BY StillRunning DEF ProvisionGetAnswer, SettingUp
<1>3. "prov_find" \notin Deleting
  BY DEF Deleting
<1>4. \/ Done(w, Bootstrapping(db, me, me.pid), me)
      \/ Await(w, db, me, "prov_find")
      \/ Fails(w, db, me)
  BY DEF ProvisionGetAnswer
<1>5. QED BY <1>1, <1>2, <1>3, <1>4, BootstrappingOnward, AwaitOnward, FailsOnward

LEMMA ProvisionFindAnswerOnward ==
    ASSUME IInv, EndInOrder, NEW w \in Workers, Alone(w), ProvisionFindAnswer(w)
    PROVE  Onward
<1> DEFINE me == wk[w]
           labelled == {sid \in DOMAIN vps : ServerFound(sid) /\ vps[sid].gen = me.gen}
           tok == db.row.minted + 1
           until == me.t + TokenTtl
           minted == UpdateInstance(db, [db.row EXCEPT
                        !.minted = tok, !.tok = tok, !.tokUntil = until])
           known == [me EXCEPT !.tok = tok]
<1>1. me \in Ticks /\ db \in Dbs /\ Onto(db)
  BY NowOnto
<1>2. ~Ended(db)
  BY StillRunning DEF ProvisionFindAnswer, SettingUp
<1>3. tok \in Nat /\ until \in Nat
  BY <1>1, RowFields, SystemAssumption DEF Ticks
<1>4. \/ \E sid \in labelled : Done(w, Bootstrapping(db, me, sid), me)
      \/ Await(w, minted, known, "prov_create")
      \/ Fails(w, db, me)
  BY DEF ProvisionFindAnswer
<1>5. labelled \subseteq Nat
  BY DEF IInv, TypeOK
<1> HIDE DEF labelled
<1>6. known \in Ticks
  BY <1>1, <1>3 DEF Ticks
<1> HIDE DEF tok, until
<1>7. minted \in Dbs /\ KeepsOrder(db, minted)
  BY <1>1, <1>3, MintedLeads, MintedOrder DEF Leads, Follows
<1> HIDE DEF minted, known
<1>8. Onto(minted) /\ ~Ended(minted)
  BY <1>2, <1>7, KeptIsOnto
<1>9. "prov_create" \notin Deleting
  BY DEF Deleting
<1>10. CASE \E sid \in labelled : Done(w, Bootstrapping(db, me, sid), me)
  BY <1>2, <1>5, <1>10, BootstrappingOnward
<1>11. CASE Await(w, minted, known, "prov_create")
  BY <1>6, <1>8, <1>9, <1>11, AwaitOnward
<1>12. CASE Fails(w, db, me)
  BY <1>1, <1>12, FailsOnward
<1>13. QED BY <1>4, <1>10, <1>11, <1>12

LEMMA ProvisionCreateAnswerOnward ==
    ASSUME IInv, EndInOrder, NEW w \in Workers, Alone(w), ProvisionCreateAnswer(w)
    PROVE  Onward
<1> DEFINE me == wk[w]
<1>1. me \in Ticks /\ Onto(db) /\ Len(vps) + 1 \in Nat
  BY NowOnto DEF IInv, TypeOK
<1>2. ~Ended(db)
  BY StillRunning DEF ProvisionCreateAnswer, SettingUp
<1>3. Done(w, Bootstrapping(db, me, Len(vps) + 1), me) \/ Fails(w, db, me)
  BY DEF ProvisionCreateAnswer
<1>4. QED BY <1>1, <1>2, <1>3, BootstrappingOnward, FailsOnward

LEMMA PoweredOnward ==
    ASSUME IInv, EndInOrder, NEW w \in Workers, Alone(w),
           Done(w, PowerRequested(db), wk[w])
    PROVE  Onward
<1>1. db \in Dbs /\ wk[w] \in Ticks
  BY NowOnto
<1>2. PowerRequested(db) \in Dbs /\ KeepsOrder(db, PowerRequested(db))
  BY <1>1, PowerRequestedLeads, PowerRequestedOrder DEF Leads, Follows
<1>3. QED BY <1>1, <1>2, KeptIsOnto, DoneOnward

LEMMA RestoreAnswerOnward ==
    ASSUME IInv, EndInOrder, NEW w \in Workers, Alone(w),
           RestoreGetAnswer(w) \/ RestorePowerAnswer(w)
    PROVE  Onward
<1> DEFINE me == wk[w]
<1>1. me \in Ticks /\ Onto(db)
  BY NowOnto
<1>2. \/ Retry(w, db, me) \/ Done(w, PowerRequested(db), me)
      \/ Await(w, db, me, "restore_power") \/ Fails(w, db, me)
  BY DEF RestoreGetAnswer, RestorePowerAnswer
<1>3. "restore_power" \notin SettingUp /\ "restore_power" \notin Deleting
  BY DEF SettingUp, Deleting
<1>4. QED BY <1>1, <1>2, <1>3, RetryOnward, PoweredOnward, AwaitOnward, FailsOnward

LEMMA CleanedUpOnward ==
    ASSUME IInv, EndInOrder, NEW w \in Workers, Alone(w), NEW d, Onto(d), ~Ended(d),
           NEW known \in Ticks, NEW me \in Ticks, Done(w, CleanedUp(d, known), me)
    PROVE  Onward
<1>1. CleanedUp(d, known) \in Dbs /\ KeepsOrder(d, CleanedUp(d, known))
  BY CleanedUpLeads, CleanedUpOrder DEF Onto, Leads, Follows
<1>2. Onto(CleanedUp(d, known))
  BY <1>1 DEF Onto, KeepsOrder
<1>3. QED BY <1>2, DoneOnward

LEMMA StartRecheckOnward ==
    ASSUME IInv, EndInOrder, NEW w \in Workers, Alone(w), NEW d, Onto(d),
           NEW me \in Ticks, StartRecheck(w, d, me)
    PROVE  Onward
<1> DEFINE known == [me EXCEPT !.pid = d.row.pid, !.gen = d.row.gen]
<1>1. d \in Dbs /\ me.t \in Nat
  BY DEF Onto, Ticks
<1>2. known \in Ticks
  BY <1>1, RowFields DEF Ticks
<1>3. \/ Done(w, d, me)
      \/ Retry(w, d, me)
      \/ Done(w, RefuseReadiness(d, me.t), me)
      \/ d.row.stage = "bootstrapping" /\ Done(w, CleanedUp(d, known), me)
      \/ d.row.stage = "bootstrapping" /\ Await(w, d, known, "recheck_delete")
  BY DEF StartRecheck
<1> HIDE DEF known
<1>4. d.row.stage = "bootstrapping" => ~Ended(d)
  BY DEF Ended, Terminal
<1>5. CASE Done(w, d, me)
  BY <1>5, DoneOnward
<1>6. CASE Retry(w, d, me)
  BY <1>6, RetryOnward
<1>7. CASE Done(w, RefuseReadiness(d, me.t), me)
  <2>1. RefuseReadiness(d, me.t) \in Dbs /\ KeepsOrder(d, RefuseReadiness(d, me.t))
    BY <1>1, RefuseReadinessLeads, RefuseReadinessOrder DEF Leads, Follows
  <2>2. Onto(RefuseReadiness(d, me.t))
    BY <2>1 DEF Onto, KeepsOrder
  <2>3. QED BY <1>7, <2>2, DoneOnward
<1>8. CASE ~Ended(d) /\ Done(w, CleanedUp(d, known), me)
  BY <1>2, <1>8, CleanedUpOnward
<1>9. CASE ~Ended(d) /\ Await(w, d, known, "recheck_delete")
  BY <1>2, <1>9, AwaitOnward DEF Deleting
<1>10. QED BY <1>3, <1>4, <1>5, <1>6, <1>7, <1>8, <1>9

LEMMA RecheckAnswerOnward ==
    ASSUME IInv, EndInOrder, NEW w \in Workers, Alone(w),
           RecheckDeleteAnswer(w) \/ RecheckGetAnswer(w)
    PROVE  Onward
<1> DEFINE me == wk[w]
<1>1. me \in Ticks /\ Onto(db)
  BY NowOnto
<1>2. ~Ended(db)
  BY StillRunning DEF RecheckDeleteAnswer, RecheckGetAnswer, SettingUp
<1>3. \/ Await(w, db, me, "recheck_get") \/ Fails(w, db, me)
      \/ Retry(w, db, me) \/ Done(w, CleanedUp(db, me), me)
  BY DEF RecheckDeleteAnswer, RecheckGetAnswer
<1>4. "recheck_get" \notin Deleting
  BY DEF Deleting
<1>5. QED BY <1>1, <1>2, <1>3, <1>4, AwaitOnward, FailsOnward, RetryOnward, CleanedUpOnward

LEMMA SuspendedOnward ==
    ASSUME IInv, EndInOrder, NEW w \in Workers, Alone(w), NEW d, Onto(d),
           NEW fresh \in BOOLEAN, fresh => ~Ended(d),
           NEW me \in Ticks, Done(w, Suspended(d, fresh), me)
    PROVE  Onward
<1>1. Suspended(d, fresh) \in Dbs /\ KeepsOrder(d, Suspended(d, fresh))
  BY SuspendedLeads, SuspendedOrder DEF Onto, Leads, Follows
<1>2. Onto(Suspended(d, fresh))
  BY <1>1 DEF Onto, KeepsOrder
<1>3. QED BY <1>2, DoneOnward

LEMMA StartSuspendOnward ==
    ASSUME IInv, EndInOrder, NEW w \in Workers, Alone(w), NEW d, Onto(d),
           NEW me \in Ticks, StartSuspend(w, d, me)
    PROVE  Onward
<1> DEFINE known == [me EXCEPT !.pid = d.row.pid, !.fresh = TRUE]
<1>1. \/ Done(w, d, me)
      \/ ~Ended(d) /\ Done(w, Suspended(d, TRUE), me)
      \/ Await(w, d, known, "suspend_power")
  BY DEF StartSuspend, Ended
<1>2. known \in Ticks
  BY RowFields DEF Onto, Ticks
<1> HIDE DEF known
<1>3. "suspend_power" \notin SettingUp /\ "suspend_power" \notin Deleting
  BY DEF SettingUp, Deleting
<1>4. QED BY <1>1, <1>2, <1>3, DoneOnward, SuspendedOnward, AwaitOnward

LEMMA SuspendPowerAnswerOnward ==
    ASSUME IInv, EndInOrder, NEW w \in Workers, Alone(w), SuspendPowerAnswer(w)
    PROVE  Onward
<1> DEFINE me == wk[w]
<1>1. me \in Ticks /\ Onto(db) /\ me.fresh \in BOOLEAN
  BY NowOnto DEF Ticks
<1>2. me.fresh => ~Ended(db)
  BY DEF SuspendPowerAnswer, IInv, SnapshotsHold, TickSees, Ended
<1>3. Done(w, Suspended(db, me.fresh), me) \/ Retry(w, db, me) \/ Fails(w, db, me)
  BY DEF SuspendPowerAnswer
<1>4. QED BY <1>1, <1>2, <1>3, SuspendedOnward, RetryOnward, FailsOnward

LEMMA StartDeleteOnward ==
    ASSUME IInv, EndInOrder, NEW w \in Workers, Alone(w), NEW d, Onto(d),
           NEW me \in Ticks, me.key \in Queued(d), me.key.kind \in DeleteJobs,
           Carries(d, DeleteJobs), StartDelete(w, d, me)
    PROVE  Onward
<1> DEFINE claimed == ClaimLease(d, w, me.t + LeaseTtl)
           committed == Committed(claimed)
           known == [me EXCEPT !.pid = d.row.pid, !.fresh = TRUE]
<1>1. d \in Dbs /\ me.t \in Nat
  BY DEF Onto, Ticks
<1>2. known \in Ticks /\ known.key = me.key
  BY <1>1, RowFields DEF Ticks
<1>3. \/ Done(w, d, me)
      \/ Done(w, ReleaseLease(claimed, w), me)
      \/ Done(w, Absent(committed, w, TRUE, me.t), me)
      \/ Done(w, Confirming(committed, w, me), me)
      \/ Await(w, committed, known, "delete_get")
  BY DEF StartDelete
<1>4. me.t + LeaseTtl \in Instants
  BY <1>1, SystemAssumption DEF Instants
<1>5. /\ claimed \in Dbs /\ KeepsOrder(d, claimed) /\ Carries(claimed, DeleteJobs)
      /\ Queued(d) \subseteq Queued(claimed)
  <2>1. /\ Names(claimed) = Names(d) /\ KeepsOrder(d, claimed)
        /\ claimed.row.lv = d.row.lv /\ claimed.row.gen = d.row.gen
    BY <1>1, <1>4, ClaimLeaseOrder
  <2>2. claimed \in Dbs /\ Queued(d) \subseteq Queued(claimed)
    BY <1>1, <1>4, ClaimLeaseLeads DEF Leads, Follows
  <2> HIDE DEF claimed
  <2>3. QED BY <2>1, <2>2 DEF Carries, IsCurrent
<1> HIDE DEF claimed, known
<1>6. Onto(claimed)
  BY <1>5 DEF Onto, KeepsOrder
<1>7. committed \in Dbs /\ Orderly(committed) /\ Ended(committed)
  BY <1>5, <1>6, CommittedOrder DEF Onto
<1>8. Queued(claimed) \subseteq Queued(committed)
  BY <1>5, CommittedLeads DEF Leads, Follows
<1> HIDE DEF committed
<1>9. Onto(committed) /\ me.key \in Queued(committed)
  BY <1>5, <1>7, <1>8 DEF Onto
<1>10. CASE Done(w, d, me)
  BY <1>10, DoneOnward
<1>11. CASE Done(w, ReleaseLease(claimed, w), me)
  <2>1. Onto(ReleaseLease(claimed, w))
    BY <1>5, <1>6, ReleaseLeaseOrder DEF Onto, KeepsOrder
  <2>2. QED BY <1>11, <2>1, DoneOnward
<1>12. CASE Done(w, Absent(committed, w, TRUE, me.t), me)
  <2>1. Onto(Absent(committed, w, TRUE, me.t))
    BY <1>1, <1>7, <1>9, AbsentOrder DEF Onto, KeepsOrder
  <2>2. QED BY <1>12, <2>1, DoneOnward
<1>13. CASE Done(w, Confirming(committed, w, me), me)
  <2>1. Onto(Confirming(committed, w, me))
    BY <1>7, <1>9, ConfirmingOrder DEF Onto, KeepsOrder
  <2>2. QED BY <1>13, <2>1, DoneOnward
<1>14. CASE Await(w, committed, known, "delete_get")
  <2>1. "delete_get" \notin SettingUp
    BY DEF SettingUp
  <2>2. QED BY <1>2, <1>9, <1>14, <2>1, AwaitOnward
<1>15. QED BY <1>3, <1>10, <1>11, <1>12, <1>13, <1>14

LEMMA DeleteAnswerOnward ==
    ASSUME IInv, EndInOrder, NEW w \in Workers, Alone(w),
           DeleteGetAnswer(w) \/ DeleteCallAnswer(w)
    PROVE  Onward
<1> DEFINE me == wk[w]
<1>1. me \in Ticks /\ Onto(db) /\ me.fresh \in BOOLEAN /\ me.t \in Nat /\ db \in Dbs
  BY NowOnto DEF Ticks
<1>2. me.pc \in Deleting
  BY DEF DeleteGetAnswer, DeleteCallAnswer, Deleting
<1>3. me.key.kind \in DeleteJobs
  BY <1>2 DEF EndInOrder, Attends
<1>4. me.fresh => Ended(db)
  BY <1>2 DEF Deleting, IInv, SnapshotsHold, TickSees, Ended, Terminal
<1>5. me.key \in Queued(db)
  BY <1>2 DEF Deleting, IInv, JobsKnown, Knows
<1>6. /\ Onto(Absent(db, w, me.fresh, me.t))
      /\ Onto(Confirming(db, w, me))
      /\ Onto(ReleaseLease(db, w))
  BY <1>1, <1>3, <1>4, <1>5, AbsentOrder, ConfirmingOrder, ReleaseLeaseOrder, KeptIsOnto
<1>7. \/ Await(w, db, me, "delete_call")
      \/ Done(w, Absent(db, w, me.fresh, me.t), me)
      \/ Done(w, Confirming(db, w, me), me)
      \/ Fails(w, ReleaseLease(db, w), me)
  BY DEF DeleteGetAnswer, DeleteCallAnswer
<1>8. "delete_call" \notin SettingUp
  BY DEF SettingUp
<1>9. QED BY <1>1, <1>3, <1>6, <1>7, <1>8, AwaitOnward, DoneOnward, FailsOnward

LEMMA StripeAnswerOnward ==
    ASSUME IInv, EndInOrder, NEW w \in Workers, Alone(w), StripeAnswer(w)
    PROVE  Onward
<1>1. Done(w, db, wk[w]) \/ Fails(w, db, wk[w])
  BY DEF StripeAnswer
<1>2. QED BY <1>1, NowOnto, DoneOnward, FailsOnward

\* A step in which an order is refused, and nothing was setting it up.
LEMMA RefusedOnward ==
    ASSUME IInv, EndInOrder, InGoodTime, NEW d \in Dbs, db' = Stored(d),
           db.row.stage = "ordered", d.row.stage = "deleted",
           Orderly(db) /\ ~Carries(db, Builds) => Orderly(d),
           \A x \in Workers : wk'[x].pc \notin SettingUp \cup Deleting
                \/ (wk'[x].pc = wk[x].pc /\ wk'[x].key = wk[x].key)
    PROVE  Onward
<1>1. db'.row.stage = "deleted"
  BY DEF Stored, Dbs, Rows
<1>2. ~Carries(db, Builds) /\ \A x \in Workers : wk[x].pc \notin SettingUp
  BY <1>1 DEF InGoodTime
<1>3. Orderly(db')
  BY <1>2, StoredOrder DEF EndInOrder
<1>4. ASSUME NEW x \in Workers PROVE Attends(wk[x], db)'
  BY <1>2 DEF Attends, EndInOrder
<1>5. EndInOrder'
  BY <1>3, <1>4 DEF EndInOrder
<1>6. QED BY <1>1, <1>5 DEF Onward, Ended, Terminal

LEMMA TickStartOnward ==
    ASSUME IInv, EndInOrder, InGoodTime, NEW w \in Workers, TickStart(w)
    PROVE  Onward
<1> DEFINE d == ReconcileOwner(db, sub, elig, now)
           me == [IdleWorker EXCEPT !.t = now, !.due = Due(d, now)]
<1>1. WorkerStep(w, d, Rest(me)) /\ wk[w].pc = "idle"
  BY DEF TickStart
<1>2. /\ db \in Dbs /\ sub \in Subscriptions /\ now \in Nat
      /\ elig \in Eligibilities
  BY DEF IInv, TypeOK
<1>3. d \in Dbs
  BY <1>2, ReconcileOwnerLeads DEF Leads, Follows
<1>4. \/ KeepsOrder(db, d)
      \/ /\ db.row.stage = "ordered" /\ d.row.stage = "deleted"
         /\ Orderly(db) /\ ~Carries(db, Builds) => Orderly(d)
  BY <1>2, ReconcileOwnerOrder
<1> HIDE DEF d
<1>5. Rest(me).pc \in {"idle", "drain"}
  BY DEF Rest, IdleWorker
<1>6. ASSUME NEW x \in Workers
      PROVE  \/ wk'[x].pc \notin SettingUp \cup Deleting
             \/ wk'[x].pc = wk[x].pc /\ wk'[x].key = wk[x].key
  <2>1. CASE x = w
    <3>1. wk'[x] = Rest(me)
      BY <1>1, <2>1 DEF WorkerStep
    <3>2. QED BY <1>5, <3>1 DEF SettingUp, Deleting
  <2>2. CASE x # w
    BY <1>1, <2>2, NowOnto DEF WorkerStep, AfterStep, Ticks
  <2>3. QED BY <2>1, <2>2
<1>7. db' = Stored(d)
  BY <1>1 DEF WorkerStep
<1>8. CASE KeepsOrder(db, d)
  <2>1. Onto(d) /\ (Ended(d) <=> Ended(db))
    BY <1>3, <1>8, KeptIsOnto
  <2>2. Orderly(db') /\ (Ended(db') <=> Ended(db))
    BY <1>3, <1>7, <2>1, StoredOrder DEF Onto
  <2>3. ASSUME NEW x \in Workers PROVE Attends(wk[x], db)'
    BY <1>6, <2>2 DEF Attends, EndInOrder
  <2>4. QED BY <2>2, <2>3 DEF Onward, EndInOrder
<1>9. CASE ~KeepsOrder(db, d)
  BY <1>3, <1>4, <1>6, <1>7, <1>9, RefusedOnward
<1>10. QED BY <1>8, <1>9

\* The guard of the drain: only a job that carries the row's numbers runs.  If
\* it sets a server up there is no deletion under these numbers, so the row
\* has not ended; and if it deletes, it is such a deletion.
LEMMA RunJobOnward ==
    ASSUME IInv, EndInOrder, NEW w \in Workers, Alone(w), NEW d, Onto(d),
           NEW me \in Ticks, me.key \in Queued(d), RunJob(w, d, me)
    PROVE  Onward
<1> DEFINE job == JobOf(d, me.key)
           kind == me.key.kind
<1>1. d \in Dbs /\ Orderly(d)
  BY DEF Onto
<1>2. PICK n \in Names(d) : n.key = me.key /\ n.lv = job.lv /\ n.gen = job.gen
  BY <1>1, JobOfNamed
<1>3. \/ Done(w, d, me)
      \/ /\ job.lv = d.row.lv /\ job.gen = d.row.gen
         /\ \/ kind \in Builds /\ StartProvision(w, d, me)
            \/ StartRecheck(w, d, me)
            \/ StartSuspend(w, d, me)
            \/ kind \in DeleteJobs /\ StartDelete(w, d, me)
            \/ Await(w, d, me, "stripe")
  BY DEF RunJob, Builds, DeleteJobs
<1> HIDE DEF job
<1>4. CASE Done(w, d, me)
  BY <1>4, DoneOnward
<1>5. CASE /\ job.lv = d.row.lv /\ job.gen = d.row.gen
           /\ kind \in Builds /\ StartProvision(w, d, me)
  <2>1. Carries(d, Builds)
    BY <1>2, <1>5 DEF Carries, IsCurrent
  <2>2. ~Ended(d)
    BY <1>1, <2>1 DEF Orderly
  <2>3. QED BY <1>5, <2>2, StartProvisionOnward
<1>6. CASE StartRecheck(w, d, me)
  BY <1>6, StartRecheckOnward
<1>7. CASE StartSuspend(w, d, me)
  BY <1>7, StartSuspendOnward
<1>8. CASE /\ job.lv = d.row.lv /\ job.gen = d.row.gen
           /\ kind \in DeleteJobs /\ StartDelete(w, d, me)
  <2>1. Carries(d, DeleteJobs)
    BY <1>2, <1>8 DEF Carries, IsCurrent
  <2>2. QED BY <1>8, <2>1, StartDeleteOnward
<1>9. CASE Await(w, d, me, "stripe")
  BY <1>9, AwaitOnward DEF SettingUp, Deleting
<1>10. QED BY <1>3, <1>4, <1>5, <1>6, <1>7, <1>8, <1>9

LEMMA DrainNextOnward ==
    ASSUME IInv, EndInOrder, NEW w \in Workers, Alone(w), DrainNext(w)
    PROVE  Onward
<1> DEFINE me == wk[w]
<1>1. PICK key \in me.due :
        LET taken == [me EXCEPT !.due = @ \ {key}, !.key = key]
        IN  IF Claimable(JobOf(db, key), me.t)
            THEN RunJob(w, ClaimJob(db, key, me.t + LeaseTtl), taken)
            ELSE WorkerStep(w, db, Rest(taken))
  BY DEF DrainNext
<1> DEFINE taken == [me EXCEPT !.due = @ \ {key}, !.key = key]
           claimed == ClaimJob(db, key, me.t + LeaseTtl)
<1>2. db \in Dbs /\ Onto(db) /\ me \in Ticks /\ me.due \subseteq Queued(db)
  BY NowOnto DEF IInv, JobsKnown, Knows
<1>3. key \in Keys /\ me.t + LeaseTtl \in Instants
  BY <1>2, SystemAssumption DEF Ticks, Instants
<1>4. taken \in Ticks /\ taken.key = key
  BY <1>2, <1>3 DEF Ticks
<1>5. claimed \in Dbs /\ KeepsOrder(db, claimed) /\ Queued(db) \subseteq Queued(claimed)
  BY <1>2, <1>3, ClaimJobLeads, ClaimJobNames, SameRowOrder DEF Leads, Follows
<1>6. RunJob(w, claimed, taken) \/ WorkerStep(w, db, Rest(taken))
  BY <1>1
<1> HIDE DEF taken, claimed
<1>7. Onto(claimed)
  BY <1>5, KeptIsOnto
<1>8. QED BY <1>2, <1>4, <1>5, <1>6, <1>7, RunJobOnward, RestAttends, WorkerOnward

LEMMA WorkerOnwards ==
    ASSUME IInv, EndInOrder, BuildsAlone, InGoodTime, NEW w \in Workers, Worker(w)
    PROVE  Onward
<1>1. CASE TickStart(w)
  BY <1>1, TickStartOnward
<1>2. CASE wk[w].pc # "idle"
  <2>1. Alone(w)
    BY <1>2 DEF BuildsAlone, Alone
  <2>2. ~TickStart(w)
    BY <1>2 DEF TickStart
  <2>3. QED
    BY <2>1, <2>2, DrainNextOnward, PlansAnswerOnward,
       ProvisionGetAnswerOnward, ProvisionFindAnswerOnward, ProvisionCreateAnswerOnward,
       RestoreAnswerOnward, RecheckAnswerOnward, SuspendPowerAnswerOnward,
       DeleteAnswerOnward, StripeAnswerOnward
    DEF Worker
<1>3. wk[w].pc # "idle" \/ TickStart(w)
  BY DEF Worker, DrainNext, PlansAnswer, ProvisionGetAnswer, ProvisionFindAnswer,
         ProvisionCreateAnswer, RestoreGetAnswer, RestorePowerAnswer, RecheckDeleteAnswer,
         RecheckGetAnswer, SuspendPowerAnswer, DeleteGetAnswer, DeleteCallAnswer, StripeAnswer
<1>4. QED BY <1>1, <1>2, <1>3

-----------------------------------------------------------------------------
(* the handlers *)

LEMMA AskedOnward ==
    ASSUME IInv, EndInOrder, NEW r \in Requests, NEW pc, Asked(r, pc)
    PROVE  Onward
  BY NowOnto, OrderItself, AsideOnward DEF Asked, RequestStep

LEMMA HandlerOnward ==
    ASSUME IInv, EndInOrder, NEW r \in Requests, NEW d \in Dbs, KeepsOrder(db, d),
           RequestStep(r, d, IdleRequest) \/ RequestStep(r, db, IdleRequest)
    PROVE  Onward
  BY NowOnto, OrderItself, AsideOnward DEF RequestStep

LEMMA CancelAnswerOnward ==
    ASSUME IInv, EndInOrder, NEW r \in Requests, CancelAnswer(r)
    PROVE  Onward
<1> DEFINE anchor == First(db.row.paid, rq[r].t, rq[r].t)
           d == IF rq[r].fresh THEN ScheduleEnd(db, "intentional", anchor) ELSE db
<1>1. db \in Dbs /\ rq[r].t \in Nat /\ db.row.paid \in Instants
  BY RowFields DEF IInv, TypeOK, Handlers
<1>2. anchor \in Int
  BY <1>1, FirstType DEF Instants
<1>3. RequestStep(r, d, IdleRequest) \/ RequestStep(r, db, IdleRequest)
  BY DEF CancelAnswer
<1>4. rq[r].fresh => ~Ended(db)
  BY DEF CancelAnswer, IInv, SnapshotsHold, HandlerSees, Ended
<1> HIDE DEF anchor
<1>5. d \in Dbs /\ KeepsOrder(db, d)
  <2>1. CASE rq[r].fresh
    <3>1. ScheduleEnd(db, "intentional", anchor) \in Dbs
      BY <1>1, <1>2, ScheduleEndLeads DEF Leads, Follows
    <3>2. KeepsOrder(db, ScheduleEnd(db, "intentional", anchor))
      BY <1>1, <1>2, <1>4, <2>1, ScheduleEndOrder
    <3>3. QED BY <2>1, <3>1, <3>2
  <2>2. CASE ~rq[r].fresh
    BY <1>1, <2>2, OrderItself
  <2>3. QED BY <2>1, <2>2
<1> HIDE DEF d
<1>6. QED BY <1>3, <1>5, HandlerOnward

LEMMA ResumeAnswerOnward ==
    ASSUME IInv, EndInOrder, NEW r \in Requests, ResumeAnswer(r)
    PROVE  Onward
<1> DEFINE d == IF rq[r].fresh THEN Resumed(db) ELSE db
<1>1. db \in Dbs
  BY NowOnto
<1>2. RequestStep(r, d, IdleRequest) \/ RequestStep(r, db, IdleRequest)
  BY DEF ResumeAnswer
<1>3. rq[r].fresh => ~Ended(db)
  BY DEF ResumeAnswer, IInv, SnapshotsHold, HandlerSees, Ended, Terminal
<1>4. d \in Dbs /\ KeepsOrder(db, d)
  BY <1>1, <1>3, ResumedFollows, ResumedOrder, OrderItself DEF Follows
<1> HIDE DEF d
<1>5. QED BY <1>2, <1>4, HandlerOnward

LEMMA ObservedLevel ==
    ASSUME NEW d \in Dbs
    PROVE  LET e == Observed(d) IN
           /\ e \in Dbs /\ KeepsOrder(d, e) /\ Level(e.row, d.row)
           /\ Ended(e) <=> Ended(d)
  BY RowFields, DraftStored, LevelOrder DEF Observed, Level, Ended

LEMMA HealthAnswerOnward ==
    ASSUME IInv, EndInOrder, NEW r \in Requests, HealthAnswer(r)
    PROVE  Onward
<1> DEFINE d == MarkReady(Observed(db))
<1>1. db \in Dbs
  BY NowOnto
<1>2. \/ rq[r].fresh /\ RequestStep(r, d, IdleRequest)
      \/ RequestStep(r, db, IdleRequest)
  BY DEF HealthAnswer
<1>3. CASE rq[r].fresh
  <2>1. ~Ended(db)
    BY <1>3 DEF HealthAnswer, IInv, SnapshotsHold, HandlerSees, Ended, Terminal
  <2>2. Observed(db) \in Dbs /\ KeepsOrder(db, Observed(db)) /\ ~Ended(Observed(db))
    BY <1>1, <2>1, ObservedLevel
  <2>3. d \in Dbs /\ KeepsOrder(Observed(db), d)
    BY <2>2, MarkReadyFollows, MarkReadyOrder DEF Follows
  <2> HIDE DEF d
  <2>4. KeepsOrder(db, d)
    BY <2>2, <2>3, OrderOn
  <2>5. QED BY <1>2, <2>3, <2>4, HandlerOnward
<1>4. CASE ~rq[r].fresh
  BY <1>1, <1>2, <1>4, OrderItself, HandlerOnward
<1>5. QED BY <1>3, <1>4

LEMMA RequestOnward ==
    ASSUME IInv, EndInOrder, NEW r \in Requests, Request(r)
    PROVE  Onward
  BY AskedOnward, CancelAnswerOnward, ResumeAnswerOnward, HealthAnswerOnward
  DEF Request, CancelRequest, ResumeRenewal, AdminResumeRenewal, ReportReady

-----------------------------------------------------------------------------
(* a server's refusal, the operator and billing *)

LEMMA SyncOnward ==
    ASSUME IInv, EndInOrder, NEW d \in Dbs, KeepsOrder(db, d), SyncStep(d)
    PROVE  Onward
  BY AsideOnward DEF SyncStep

LEMMA ReportRefusedOnward ==
    ASSUME IInv, EndInOrder, ReportRefused
    PROVE  Onward
<1> DEFINE seen == Observed(db)
           draft == [db.row EXCEPT !.note = "none"]
<1>1. db \in Dbs /\ now \in Nat
  BY DEF IInv, TypeOK
<1>2. seen \in Dbs /\ KeepsOrder(db, seen) /\ Level(seen.row, db.row)
  BY <1>1, ObservedLevel
<1>3. SyncStep(RefuseReadiness(seen, now)) \/ SyncStep(UpdateInstance(seen, draft))
  BY DEF ReportRefused
<1>4. draft \in Rows /\ Level(db.row, draft)
  BY <1>1 DEF Dbs, Rows, Level
<1> HIDE DEF seen, draft
<1>5. RefuseReadiness(seen, now) \in Dbs /\ KeepsOrder(db, RefuseReadiness(seen, now))
  BY <1>1, <1>2, RefuseReadinessLeads, RefuseReadinessOrder, OrderOn DEF Leads, Follows
<1>6. UpdateInstance(seen, draft) \in Dbs /\ KeepsOrder(db, UpdateInstance(seen, draft))
  <2>1. Level(seen.row, draft)
    BY <1>2, <1>4 DEF Level
  <2>2. QED BY <1>2, <1>4, <2>1, LevelOrder, OrderOn
<1>7. QED BY <1>1, <1>3, <1>5, <1>6, SyncOnward

LEMMA OperatorOnward ==
    ASSUME IInv, EndInOrder, InGoodTime, Operator
    PROVE  Onward
<1>1. db \in Dbs /\ now \in Nat /\ now \in Instants
  BY DEF IInv, TypeOK, Instants
<1>2. CASE AdminForceSuspend
  <2> DEFINE forced == UpdateInstance(db, [db.row EXCEPT
                    !.suspendAt = now, !.note = "none", !.lv = @ + 1])
             d == Enqueue(forced, Job(Key("admin_suspend", forced.row.lv, 0), forced.row, now))
  <2>1. SyncStep(d) /\ ~Ended(db)
    BY <1>2 DEF AdminForceSuspend, Admin, Ended
  <2>2. d \in Dbs /\ KeepsOrder(db, d)
    BY <1>1, <2>1, ForcedSuspendOrder
  <2> HIDE DEF d
  <2>3. QED BY <2>1, <2>2, SyncOnward
<1>3. CASE AdminHoldDeletion
  <2> DEFINE at == IF db.row.holdAt = NoTime THEN now ELSE db.row.holdAt
             d == UpdateInstance(db, [db.row EXCEPT !.holdAt = at])
  <2>1. SyncStep(d)
    BY <1>3, Zenon DEF AdminHoldDeletion, Admin
  <2>2. at \in Instants
    BY <1>1, RowFields
  <2> HIDE DEF at
  <2>3. d \in Dbs /\ KeepsOrder(db, d)
    BY <1>1, <2>2, HeldOrder
  <2> HIDE DEF d
  <2>4. QED BY <2>1, <2>3, SyncOnward
<1>4. CASE AdminReleaseHold
  <2>1. SyncStep(Released(db, now))
    BY <1>4 DEF AdminReleaseHold, Admin
  <2>2. Released(db, now) \in Dbs /\ KeepsOrder(db, Released(db, now))
    BY <1>1, ReleasedLeads, ReleasedOrder DEF Leads, Follows
  <2>3. QED BY <2>1, <2>2, SyncOnward
<1>5. CASE AdminRetryProvisioning
  <2> DEFINE d == EnqueueProvision(
                    UpdateInstance(db, [db.row EXCEPT !.attempts = 0, !.note = "none"]), now)
  <2>1. SyncStep(d)
    BY <1>5 DEF AdminRetryProvisioning, Admin
  <2>2. ~Ended(db) /\ ~Carries(db, DeleteJobs)
    BY <1>5 DEF InGoodTime
  <2>3. d \in Dbs /\ KeepsOrder(db, d)
    BY <1>1, <2>2, RetriedOrder
  <2> HIDE DEF d
  <2>4. QED BY <2>1, <2>3, SyncOnward
<1>6. CASE AdminForceDelete
  <2> DEFINE forced == UpdateInstance(db, [db.row EXCEPT
                    !.reason = IF @ = "none" THEN "intentional" ELSE @,
                    !.suspendAt = IF @ = NoTime THEN now ELSE @,
                    !.deleteAt = now, !.note = "none", !.lv = @ + 1])
             d == Enqueue(forced, Job(Key("admin_delete", forced.row.lv, 0), forced.row, now))
  <2>1. SyncStep(d)
    BY <1>6, Zenon DEF AdminForceDelete, Admin
  <2>2. db.row.stage # "ordered"
    BY <1>6 DEF InGoodTime
  <2>3. d \in Dbs /\ KeepsOrder(db, d)
    BY <1>1, <2>2, ForcedDeleteOrder
  <2> HIDE DEF d
  <2>4. QED BY <2>1, <2>3, SyncOnward
<1>7. QED BY <1>2, <1>3, <1>4, <1>5, <1>6 DEF Operator

LEMMA WebhookOnward ==
    ASSUME IInv, EndInOrder, InGoodTime, NEW record \in Subscriptions, Webhook(record)
    PROVE  Onward
<1> DEFINE d == ReconcileOwner(db, record, elig, now)
<1>1. db \in Dbs /\ elig \in Eligibilities /\ now \in Nat
  BY DEF IInv, TypeOK
<1>2. d \in Dbs
  BY <1>1, ReconcileOwnerLeads DEF Leads, Follows
<1>3. \/ KeepsOrder(db, d)
      \/ /\ db.row.stage = "ordered" /\ d.row.stage = "deleted"
         /\ Orderly(db) /\ ~Carries(db, Builds) => Orderly(d)
  BY <1>1, ReconcileOwnerOrder
<1>4. SyncStep(d)
  BY DEF Webhook
<1> HIDE DEF d
<1>5. CASE KeepsOrder(db, d)
  BY <1>2, <1>4, <1>5, SyncOnward
<1>6. CASE ~KeepsOrder(db, d)
  <2>1. db' = Stored(d)
    BY <1>4 DEF SyncStep
  <2>2. \A x \in Workers : wk'[x].pc = wk[x].pc /\ wk'[x].key = wk[x].key
    BY <1>4, NowOnto DEF SyncStep, AfterStep, Ticks
  <2>3. QED BY <1>2, <1>3, <1>6, <2>1, <2>2, RefusedOnward
<1>7. QED BY <1>5, <1>6

LEMMA BillingOnward ==
    ASSUME IInv, EndInOrder, InGoodTime, InvoicePaid \/ SubscriptionUpdated \/ ChargeFlagged
    PROVE  Onward
<1>1. sub \in Subscriptions
  BY DEF IInv, TypeOK
<1>2. CASE InvoicePaid
  <2>1. PICK end \in sub.end..MaxPaid :
            Webhook([sub EXCEPT !.end = end, !.status = "active"])
    BY <1>2 DEF InvoicePaid
  <2>2. end \in Instants
    BY <1>1, <2>1, SystemAssumption DEF Subscriptions, Instants, NoTime
  <2>3. [sub EXCEPT !.end = end, !.status = "active"] \in Subscriptions
    BY <1>1, <2>2 DEF Subscriptions, Statuses
  <2>4. QED BY <2>1, <2>3, WebhookOnward
<1>3. CASE SubscriptionUpdated
  <2>1. PICK status \in Statuses :
            \E end \in sub.end..(IF "pay" \in Events THEN MaxPaid ELSE sub.end) :
                Webhook([sub EXCEPT !.status = status, !.end = end])
    BY <1>3 DEF SubscriptionUpdated
  <2>2. PICK end \in sub.end..(IF "pay" \in Events THEN MaxPaid ELSE sub.end) :
            Webhook([sub EXCEPT !.status = status, !.end = end])
    BY <2>1
  <2>3. sub.end \in Instants
    BY <1>1 DEF Subscriptions
  <2>4. end \in Instants
    BY <2>2, <2>3, SystemAssumption DEF Instants, NoTime
  <2>5. [sub EXCEPT !.status = status, !.end = end] \in Subscriptions
    BY <1>1, <2>1, <2>4 DEF Subscriptions
  <2>6. QED BY <2>2, <2>5, WebhookOnward
<1>4. CASE ChargeFlagged
  <2>1. [sub EXCEPT !.flagged = TRUE] \in Subscriptions
    BY <1>1 DEF Subscriptions
  <2>2. QED BY <1>4, <2>1, WebhookOnward DEF ChargeFlagged
<1>5. QED BY <1>2, <1>3, <1>4

LEMMA EnvironmentOnward ==
    ASSUME IInv, EndInOrder, InGoodTime, Environment
    PROVE  Onward
<1>1. CASE LicenceChanges \/ (\E sid \in DOMAIN vps : DeletionEnds(sid)) \/ ClockTicks
  <2>1. db' = db /\ wk' = wk
    BY <1>1 DEF LicenceChanges, DeletionEnds, ClockTicks
  <2>2. QED BY <2>1, OutsideOnward
<1>2. QED BY <1>1, BillingOnward DEF Environment

LEMMA CrashOnward == ASSUME EndInOrder, Crash PROVE Onward
<1>1. db' = db /\ \A x \in Workers : wk'[x].pc = "idle"
  BY NoKeyGood DEF Crash
<1>2. QED BY <1>1, OutsideOnward

-----------------------------------------------------------------------------
(* the theorems *)

LEMMA NextOnward ==
    ASSUME IInv, EndInOrder, BuildsAlone, InGoodTime, Next
    PROVE  Onward
  BY WorkerOnwards, RequestOnward, ReportRefusedOnward, OperatorOnward,
     EnvironmentOnward, CrashOnward
  DEF Next, Running

LEMMA StutterOnward == ASSUME EndInOrder, UNCHANGED vars PROVE Onward
<1>1. db' = db /\ wk' = wk
  BY DEF vars
<1>2. QED BY <1>1, OutsideOnward

LEMMA InitOrder == Init => EndInOrder
<1> SUFFICES ASSUME Init PROVE EndInOrder
  OBVIOUS
<1>1. \A x \in Workers : Attends(wk[x], db)
  BY NoKeyGood DEF Init, Attends, SettingUp, Deleting
<1>2. CASE InitStage = "ready"
  <2>1. db.row = ReadyRow /\ db.outbox = InstalledJobs
    BY <1>2 DEF Init
  <2>2. db.row.lv = 1 /\ db.row.gen = 1 /\ db.row.stage = "ready"
    BY <2>1 DEF ReadyRow, OrderedRow
  <2>3. ASSUME NEW n \in Names(db)
        PROVE  n.lv = 1 /\ n.gen = 1 /\ n.key.kind \in {"provision", "bootstrap_timeout"}
    BY <2>1, <2>3 DEF Names, InstalledJobs, Sent, Job, Key, ReadyRow, OrderedRow
  <2>4. Numbered(db)
    BY <2>2, <2>3 DEF Numbered, Dated
  <2>5. ~Carries(db, DeleteJobs)
    BY <2>3 DEF Carries, DeleteJobs
  <2>6. QED BY <1>1, <2>2, <2>4, <2>5 DEF EndInOrder, Orderly, Ended, Terminal
<1>3. CASE InitStage # "ready"
  <2>1. db.row = OrderedRow /\ Names(db) = {}
    BY <1>3 DEF Init, Names
  <2>2. db.row.stage = "ordered" /\ db.row.reason = "none"
    BY <2>1 DEF OrderedRow
  <2>3. Numbered(db) /\ ~Carries(db, DeleteJobs)
    BY <2>1 DEF Numbered, Carries
  <2>4. QED BY <1>1, <2>2, <2>3 DEF EndInOrder, Orderly, Ended, Terminal
<1>4. QED BY <1>2, <1>3

LEMMA AlwaysInOrder == Spec /\ []BuildsAlone /\ [][InGoodTime]_vars => []EndInOrder
<1>1. ASSUME IInv, EndInOrder, BuildsAlone, [Next]_vars, [InGoodTime]_vars
      PROVE  EndInOrder'
  <2>1. CASE UNCHANGED vars
    BY <1>1, <2>1, StutterOnward DEF Onward
  <2>2. CASE Next /\ InGoodTime
    BY <1>1, <2>2, NextOnward DEF Onward
  <2>3. QED BY <1>1, <2>1, <2>2
<1>2. QED BY InitOrder, <1>1, InductiveInvariant, PTL DEF Spec

\* A deletion once committed is never taken back, whatever is paid, cancelled,
\* resumed, held, released, licensed, forced or proven by a server meanwhile,
\* whichever calls fail and wherever the process dies: no job that could set
\* the row up again carries the numbers a deletion was committed under.  It
\* takes ticks that set up alone and the three ends in good time.
THEOREM EndCorrect == Spec /\ []BuildsAlone /\ [][InGoodTime]_vars => NeverRevived
<1>1. ASSUME IInv, EndInOrder, BuildsAlone, [Next]_vars, [InGoodTime]_vars
      PROVE  [db.row.stage \in Terminal => db'.row.stage \in Terminal]_vars
  <2>1. CASE UNCHANGED vars
    BY <2>1
  <2>2. CASE Next /\ InGoodTime
    BY <1>1, <2>2, NextOnward DEF Onward, Ended
  <2>3. QED BY <1>1, <2>1, <2>2
<1>2. QED BY <1>1, AlwaysInOrder, InductiveInvariant, PTL DEF Spec, NeverRevived
=============================================================================
