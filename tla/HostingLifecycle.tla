-------------------------- MODULE HostingLifecycle --------------------------
(***************************************************************************)
(* The synchronous part of src/hosting/service.ts: every place that        *)
(* derives a lifecycle transition from the billing record, an operator's   *)
(* request or a readiness verdict and writes it through the store.  None   *)
(* of it awaits, so each operator maps a db to a db in one step.           *)
(*                                                                         *)
(* sub is the owner's RoleSubscriptionRecord("hosting"): [status, end,     *)
(* flagged].  E-mail jobs are not in the outbox of this model: draining    *)
(* one writes nothing but the job itself.                                  *)
(***************************************************************************)
EXTENDS HostingStore

CONSTANTS
    Grace,          \* policy.renewalGraceHours
    Retention,      \* policy.retentionHours
    Regions,        \* how many regions the policy configures
    MaxAttempts     \* MAX_PROVISION_ATTEMPTS

ASSUME PolicyAssumption ==
    /\ Grace \in Nat
    /\ Retention \in Nat
    /\ Regions \in Nat \ {0}
    /\ MaxAttempts \in Nat \ {0}

Recoverable == {"past_due", "cancel_scheduled", "suspended", "restoring"}
Terminal    == {"deleting", "deleted"}

Stages == {"ordered", "provisioning", "bootstrapping", "ready"} \cup Recoverable \cup Terminal

Statuses == {"active", "cancels", "past_due", "canceled"}

PaidEvidence(sub) ==
    sub.status \in {"active", "cancels"} \/ sub.end > 0

\* Which software licence stands behind the server: "withheld" is a licence
\* that lapsed while Stripe still reports its subscription active.
Eligibilities == {"eligible", "withheld", "ineligible"}

-----------------------------------------------------------------------------
(* deadlines.ts *)

\* Mutant: deletion falls due with suspension.
DeadlinesAtOnce(anchor, reason, held) ==
    LET suspendAt == anchor + (IF reason = "renewal_unpaid" THEN Grace ELSE 0) + held
    IN  [suspendAt |-> suspendAt, deleteAt |-> suspendAt]

Deadlines(anchor, reason, held) ==
    LET suspendAt == anchor + (IF reason = "renewal_unpaid" THEN Grace ELSE 0) + held
    IN  [suspendAt |-> suspendAt, deleteAt |-> suspendAt + Retention]

-----------------------------------------------------------------------------
(* jobs *)

EnqueueProvision(db, t) ==
    Enqueue(db, Job(Key("provision", db.row.lv, db.row.gen), db.row, t))

EnqueueStripeCancel(db, why, t) ==
    Enqueue(db, Job(Key(why, 0, 0), db.row, t))

\* Mutant: the dedupe keys leave the lifecycle version out.
QueueUnderOneKey(db, d) ==
    LET suspended == Enqueue(db, Job(Key("suspend", 0, 0), db.row, d.suspendAt))
    IN  Enqueue(suspended, Job(Key("delete", 0, 0), db.row, d.deleteAt))

\* The suspend and delete jobs of a schedule (its notices are e-mails).
QueueDeadlineJobs(db, d) ==
    LET suspended == Enqueue(db, Job(Key("suspend", db.row.lv, 0), db.row, d.suspendAt))
    IN  Enqueue(suspended, Job(Key("delete", db.row.lv, 0), db.row, d.deleteAt))

-----------------------------------------------------------------------------
(* transitions *)

ScheduleEnd(db, reason, anchor) ==
    LET d == Deadlines(anchor, reason, 0)
        scheduled == UpdateInstance(db,
            [db.row EXCEPT
                !.stage = IF reason = "intentional" THEN "cancel_scheduled" ELSE "past_due",
                !.reason = reason, !.suspendAt = d.suspendAt, !.deleteAt = d.deleteAt,
                !.lv = @ + 1])
    IN  QueueDeadlineJobs(ObsoleteOlder(scheduled), d)

Restore(db, periodEnd, t) ==
    LET restoring == UpdateInstance(db,
            [db.row EXCEPT
                !.paid = periodEnd, !.reason = "none", !.suspendAt = NoTime,
                !.deleteAt = NoTime, !.stage = "restoring", !.note = "none", !.lv = @ + 1])
        queued == ObsoleteOlder(restoring)
    IN  Enqueue(queued, Job(Key("restore", restoring.row.lv, 0), restoring.row, t))

\* The guard on the note is what keeps one late payment one notice.
NotifyLatePayment(db) ==
    IF db.row.note = "late" THEN db
    ELSE UpdateInstance(db, [db.row EXCEPT !.note = "late"])

\* paidThroughMs moves on.  Only clearing a real, unintended end schedule is a
\* lifecycle transition; an intentional one survives the payment.
Renew(db, periodEnd, t) ==
    LET row == db.row
        clears == /\ row.reason # "intentional"
                  /\ row.reason # "none" \/ row.suspendAt # NoTime \/ row.deleteAt # NoTime
        paid == [row EXCEPT !.paid = periodEnd]
        cleared == [paid EXCEPT !.suspendAt = NoTime, !.deleteAt = NoTime,
                                !.reason = "none", !.lv = @ + 1]
        next == ObsoleteOlder(UpdateInstance(db, cleared))
    IN  IF ~clears THEN UpdateInstance(db, paid)
        ELSE IF row.stage = "ordered" /\ row.pid = NoServer
             THEN EnqueueProvision(next, t)
             ELSE next

-----------------------------------------------------------------------------
(* applyBillingSignal: the branches in the order the code tries them *)

WithProvisionJob(db, sub, endOnly, t) ==
    IF ~endOnly /\ db.row.stage = "ordered" /\ db.row.pid = NoServer /\ PaidEvidence(sub)
    THEN EnqueueProvision(db, t) ELSE db

WithFlag(db, sub) ==
    IF sub.flagged /\ db.row.note # "flagged"
    THEN UpdateInstance(db, [db.row EXCEPT !.note = "flagged"]) ELSE db

First(a, b, c) == IF a # NoTime THEN a ELSE IF b # NoTime THEN b ELSE c

ApplyBillingSignal(db0, sub, endOnly, t) ==
    LET db == WithFlag(WithProvisionJob(db0, sub, endOnly, t), sub)
        row == db.row
        advanced == ~endOnly /\ sub.end # NoTime /\ sub.end > row.paid
        terminal == row.stage \in Terminal
        unanchored == endOnly /\ sub.end = NoTime /\ row.paid = NoTime
        paidOrNow == First(row.paid, t, t)
    IN  CASE advanced /\ terminal -> NotifyLatePayment(db)
          [] advanced /\ row.stage \in Recoverable -> Restore(db, sub.end, t)
          [] advanced /\ ~terminal /\ row.stage \notin Recoverable -> Renew(db, sub.end, t)
          [] ~advanced /\ ~terminal /\ sub.status = "cancels"
                /\ row.reason # "intentional" /\ ~unanchored ->
                ScheduleEnd(db, "intentional", First(sub.end, row.paid, t))
          [] ~advanced /\ ~terminal /\ sub.status = "past_due" /\ row.reason = "none" ->
                ScheduleEnd(db, "renewal_unpaid", paidOrNow)
          [] ~advanced /\ ~terminal /\ sub.status = "canceled" /\ row.reason = "none" ->
                ScheduleEnd(db, "renewal_unpaid", paidOrNow)
          [] OTHER -> db

(* reconcileOwner for an owner whose record and row carry the same Stripe   *)
(* subscription.  A deleted row is no longer the owner's active instance;   *)
(* paid evidence on its subscription is then reported as a late payment.    *)
ReconcileOwner(db, sub, elig, t) ==
    LET row == db.row
        noServerYet == row.stage = "ordered" /\ row.pid = NoServer
        ended == ApplyBillingSignal(db, sub, TRUE, t)
        refused == EnqueueStripeCancel(db, "stripe_ineligible", t)
    IN  CASE row.stage = "deleted" ->
                IF PaidEvidence(sub) THEN NotifyLatePayment(db) ELSE db
          [] row.stage # "deleted" /\ elig = "eligible" ->
                ApplyBillingSignal(db, sub, FALSE, t)
          [] row.stage # "deleted" /\ elig = "withheld" ->
                IF noServerYet THEN db ELSE ApplyBillingSignal(db, sub, FALSE, t)
          [] row.stage # "deleted" /\ elig = "ineligible" /\ noServerYet ->
                UpdateInstance(refused, [row EXCEPT !.stage = "deleted"])
          [] row.stage # "deleted" /\ elig = "ineligible" /\ ~noServerYet ->
                EnqueueStripeCancel(ended, "stripe_ineligible", t)

-----------------------------------------------------------------------------
(* readiness and failed setups *)

MarkReady(db) ==
    UpdateInstance(db, [db.row EXCEPT !.stage = "ready", !.note = "none"])

\* handleReadinessRefusal: the next untried region once, then the clean-up
\* that ends the setup.  row.tried counts the regions given up on.
RefuseReadiness(db, t) ==
    LET moved == UpdateInstance(db, [db.row EXCEPT !.note = "none"])
    IN  IF db.row.tried + 1 < Regions
        THEN Enqueue(moved, Job(Key("replace_region", db.row.gen, 0), moved.row, t))
        ELSE Enqueue(db, Job(Key("region_terminal", db.row.gen, 0), db.row, t))

\* hosting.billing has a subscription for every row of this model.
FailProvisioning(db, t) ==
    EnqueueStripeCancel(UpdateInstance(db, [db.row EXCEPT !.note = "none"]),
                        "stripe_setup_failure", t)
=============================================================================
