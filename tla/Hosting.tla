------------------------------- MODULE Hosting -------------------------------
(***************************************************************************)
(* Managed VPS hosting (src/hosting/service.ts over store.ts and           *)
(* provider.ts): the ticks that drain the durable outbox, the HTTP         *)
(* handlers that await Stripe or the provider, the operator's actions, the *)
(* billing record and the clock, all over one hosting instance.            *)
(*                                                                         *)
(* One JavaScript process: code between two awaits is one step here, and   *)
(* every await is a point where any other step may come first.  A tick in  *)
(* flight is a member of Workers (setInterval starts the next tick whether *)
(* or not the last has ended), a handler in flight a member of Requests.   *)
(***************************************************************************)
EXTENDS HostingLifecycle, Sequences

CONSTANTS
    Workers,        \* ticks that may be in flight at once
    Requests,       \* customer, admin and server requests in flight at once
    Events,         \* what the environment does in this instance, see below
    InitStage,      \* "ordered": just paid; "ready": installed and running
    LeaseTtl, Backoff, ConfirmDelay, TokenTtl,
    MaxNow,         \* bound: the clock stops here
    MaxLv,          \* bound: no new outside event at this lifecycle version
    MaxServers,     \* bound: servers the provider ever creates
    MaxTokens,      \* bound: no operator retry once so many were minted
    MaxPaid         \* bound: the last period end a payment can reach

(* "fail"   a provider or Stripe call fails, with or without its effect      *)
(* "crash"  the process dies and restarts            "no_key" no API key     *)
(* "price"  the price or ceiling check refuses       "pay", "status",        *)
(* "flag", "licence"   billing events    "cancel", "resume", "report"        *)
(* "refuse" a readiness report that refuses the region                       *)
(* "retry", "force_suspend", "force_delete", "hold"   operator actions       *)
AllEvents == {"fail", "crash", "no_key", "price", "pay", "status", "flag",
              "licence", "cancel", "resume", "report", "refuse", "retry",
              "force_suspend", "force_delete", "hold"}

ASSUME SystemAssumption ==
    /\ "none" \notin Workers
    /\ Events \subseteq AllEvents
    /\ InitStage \in {"ordered", "ready"}
    /\ LeaseTtl \in Nat /\ Backoff \in Nat /\ ConfirmDelay \in Nat /\ TokenTtl \in Nat
    /\ MaxNow \in Nat /\ MaxLv \in Nat /\ MaxServers \in Nat \ {0}
    /\ MaxTokens \in Nat /\ MaxPaid \in Nat

VARIABLES
    db,       \* hosting-db.v1.json
    sub,      \* billing's role record of the owner
    elig,     \* the owner's software licence
    vps,      \* the provider's servers, by id: label's generation, credential, state
    stripe,   \* cancel_at_period_end as Stripe holds it
    now,      \* the clock
    wk,       \* ticks in flight
    rq        \* handlers in flight

vars == <<db, sub, elig, vps, stripe, now, wk, rq>>

NoKey == Key("none", 0, 0)

IdleWorker  == [pc |-> "idle", t |-> 0, due |-> {}, key |-> NoKey,
                fresh |-> FALSE, gen |-> 0, pid |-> NoServer, tok |-> 0]
IdleRequest == [pc |-> "idle", t |-> 0, fresh |-> FALSE, gen |-> 0,
                pid |-> NoServer, tok |-> 0]

OrderedRow ==
    [stage |-> "ordered", lv |-> 1, gen |-> 1, version |-> 0, pid |-> NoServer,
     tok |-> 0, tokUntil |-> NoTime, minted |-> 0, attempts |-> 0, tried |-> 0,
     quoted |-> FALSE, paid |-> NoTime, reason |-> "none", suspendAt |-> NoTime,
     deleteAt |-> NoTime, holdAt |-> NoTime, note |-> "none", lease |-> Free]

\* The same row once installed: server 1 answered, its jobs are in the outbox.
ReadyRow ==
    [OrderedRow EXCEPT !.stage = "ready", !.pid = 1, !.tok = 1, !.tokUntil = 0,
                       !.minted = 1, !.attempts = 1, !.quoted = TRUE, !.paid = 0]

Sent(job) == [job EXCEPT !.status = "sent"]

InstalledJobs ==
    {Sent(Job(Key("provision", 1, 1), ReadyRow, 0)),
     Sent(Job(Key("bootstrap_timeout", 1, 1), ReadyRow, 0))}

Init ==
    /\ db = IF InitStage = "ready"
            THEN [row |-> ReadyRow, outbox |-> InstalledJobs,
                  res |-> {[pid |-> 1, gen |-> 1, present |-> TRUE]}]
            ELSE [row |-> OrderedRow, outbox |-> {}, res |-> {}]
    /\ sub = [status |-> "active", end |-> 0, flagged |-> FALSE]
    /\ elig = "eligible"
    /\ vps = IF InitStage = "ready" THEN <<[gen |-> 1, tok |-> 1, st |-> "on"]>> ELSE <<>>
    /\ stripe = FALSE
    /\ now = 0
    /\ wk = [w \in Workers |-> IdleWorker]
    /\ rq = [r \in Requests |-> IdleRequest]

-----------------------------------------------------------------------------
(* A step stores the db it computed.  An update of the row in this step     *)
(* makes every row another tick or handler read before it stale.            *)

Stored(d) == [d EXCEPT !.row.version = 0]

AfterStep(p, d) == [p EXCEPT !.fresh = @ /\ d.row.version = 0]

WorkerStep(w, d, next) ==
    /\ db' = Stored(d)
    /\ wk' = [x \in Workers |-> IF x = w THEN next ELSE AfterStep(wk[x], d)]
    /\ rq' = [r \in Requests |-> AfterStep(rq[r], d)]
    /\ UNCHANGED <<sub, elig, now>>

RequestStep(r, d, next) ==
    /\ db' = Stored(d)
    /\ wk' = [w \in Workers |-> AfterStep(wk[w], d)]
    /\ rq' = [x \in Requests |-> IF x = r THEN next ELSE AfterStep(rq[x], d)]
    /\ UNCHANGED <<sub, elig, now>>

SyncStep(d) ==
    /\ db' = Stored(d)
    /\ wk' = [w \in Workers |-> AfterStep(wk[w], d)]
    /\ rq' = [r \in Requests |-> AfterStep(rq[r], d)]
    /\ UNCHANGED <<vps, stripe, now>>

ServerFound(pid) == pid \in DOMAIN vps /\ vps[pid].st # "gone"
ServerOn(pid)    == pid \in DOMAIN vps /\ vps[pid].st = "on"

Turn(pid, from, to) ==
    IF pid \in DOMAIN vps /\ vps[pid].st \in from
    THEN [vps EXCEPT ![pid].st = to] ELSE vps

Room == Len(vps) < MaxServers

\* What the call in flight does on the provider's side once it arrives there.
Effect(me) ==
    CASE me.pc = "prov_create" /\ Room ->
            Append(vps, [gen |-> me.gen, tok |-> me.tok, st |-> "on"])
      [] me.pc = "restore_power" -> Turn(me.pid, {"off"}, "on")
      [] me.pc = "suspend_power" -> Turn(me.pid, {"on"}, "off")
      [] me.pc \in {"recheck_delete", "delete_call"} ->
            Turn(me.pid, {"on", "off"}, "deleting")
      [] OTHER -> vps

-----------------------------------------------------------------------------
(* the end of one job: the tick goes on with the rest of its list *)

Rest(me) == IF me.due = {} THEN IdleWorker
            ELSE [IdleWorker EXCEPT !.pc = "drain", !.t = me.t, !.due = me.due]

Await(w, d, me, pc) == WorkerStep(w, d, [me EXCEPT !.pc = pc])

\* runJob returned: "sent", whether or not it did anything.
Done(w, d, me) == WorkerStep(w, CompleteJob(d, me.key), Rest(me))

\* runJob threw: pending again after the backoff, by the clock of now.
Retry(w, d, me) == WorkerStep(w, ReleaseJob(d, me.key, now + Backoff), Rest(me))

\* A call that fails, its effect on the other side done or not.
Fails(w, d, me) == "fail" \in Events /\ Retry(w, d, me)

ProviderMissing == "no_key" \in Events

-----------------------------------------------------------------------------
(* drainProvision *)

Bootstrapping(d, me, sid) ==
    LET recorded == RecordResource(d, sid, me.gen)
        row == recorded.row
        installed == UpdateInstance(recorded,
                        [row EXCEPT !.pid = sid, !.stage = "bootstrapping"])
        at == IF row.tokUntil # NoTime THEN row.tokUntil ELSE me.t + TokenTtl
    IN  Enqueue(installed,
                Job(Key("bootstrap_timeout", row.attempts, row.gen), installed.row, at))

\* After the price quote: the row is read again, whatever it has become.
AfterQuote(w, d, me) ==
    \/ /\ "price" \in Events
       /\ Done(w, FailProvisioning(d, me.t), me)
    \/ LET row == d.row
           attempt == UpdateInstance(d, [row EXCEPT !.stage = "provisioning", !.attempts = @ + 1])
           known == [me EXCEPT !.gen = row.gen, !.pid = row.pid]
       IN  Await(w, attempt, known, IF row.pid # NoServer THEN "prov_get" ELSE "prov_find")

StartProvision(w, d, me) ==
    LET row == d.row IN
    \/ ProviderMissing /\ Retry(w, d, me)
    \/ /\ row.stage = "restoring"
       /\ IF row.pid = NoServer THEN Retry(w, d, me)
          ELSE Await(w, d, [me EXCEPT !.pid = row.pid], "restore_get")
    \/ /\ row.stage # "restoring"
       /\ CASE elig = "withheld" -> Retry(w, d, me)
            [] elig # "withheld" /\ row.attempts >= MaxAttempts ->
                 Done(w, FailProvisioning(d, me.t), me)
            [] elig # "withheld" /\ row.attempts < MaxAttempts ->
                 IF row.quoted THEN AfterQuote(w, d, me) ELSE Await(w, d, me, "plans")

PlansAnswer(w) ==
    LET me == wk[w]
        quoted == IF db.row.quoted THEN db
                  ELSE UpdateInstance(db, [db.row EXCEPT !.quoted = TRUE])
    IN  /\ me.pc = "plans"
        /\ AfterQuote(w, quoted, me) \/ (~db.row.quoted /\ Fails(w, db, me))
        /\ UNCHANGED <<vps, stripe>>

ProvisionGetAnswer(w) ==
    LET me == wk[w] IN
    /\ me.pc = "prov_get"
    /\ \/ ServerFound(me.pid) /\ Done(w, Bootstrapping(db, me, me.pid), me)
       \/ ~ServerFound(me.pid) /\ Await(w, db, me, "prov_find")
       \/ Fails(w, db, me)
    /\ UNCHANGED <<vps, stripe>>

\* Mutant: a second createInstance without looking for the first one.
CreateUnlooked(w) ==
    LET me == wk[w]
        tok == db.row.minted + 1
        minted == UpdateInstance(db, [db.row EXCEPT
                    !.minted = tok, !.tok = tok, !.tokUntil = me.t + TokenTtl])
    IN  /\ me.pc = "prov_find"
        /\ \/ Await(w, minted, [me EXCEPT !.tok = tok], "prov_create")
           \/ Fails(w, db, me)
        /\ UNCHANGED <<vps, stripe>>

\* Mutant: the verifier is not persisted before the create is sent.
CreateUnverified(w) ==
    LET me == wk[w]
        labelled == {sid \in DOMAIN vps : ServerFound(sid) /\ vps[sid].gen = me.gen}
        tok == db.row.minted + 1
    IN  /\ me.pc = "prov_find"
        /\ \/ \E sid \in labelled : Done(w, Bootstrapping(db, me, sid), me)
           \/ labelled = {} /\ Await(w, db, [me EXCEPT !.tok = tok], "prov_create")
           \/ Fails(w, db, me)
        /\ UNCHANGED <<vps, stripe>>

\* findByLabel; when nothing carries the label, the credentials are stored
\* before the server that will present them is asked for.
ProvisionFindAnswer(w) ==
    LET me == wk[w]
        labelled == {sid \in DOMAIN vps : ServerFound(sid) /\ vps[sid].gen = me.gen}
        tok == db.row.minted + 1
        minted == UpdateInstance(db, [db.row EXCEPT
                    !.minted = tok, !.tok = tok, !.tokUntil = me.t + TokenTtl])
    IN  /\ me.pc = "prov_find"
        /\ \/ \E sid \in labelled : Done(w, Bootstrapping(db, me, sid), me)
           \/ labelled = {} /\ Await(w, minted, [me EXCEPT !.tok = tok], "prov_create")
           \/ Fails(w, db, me)
        /\ UNCHANGED <<vps, stripe>>

ProvisionCreateAnswer(w) ==
    LET me == wk[w] IN
    /\ me.pc = "prov_create"
    /\ \/ Room /\ vps' = Effect(me) /\ Done(w, Bootstrapping(db, me, Len(vps) + 1), me)
       \/ vps' \in {vps, Effect(me)} /\ Fails(w, db, me)
    /\ UNCHANGED stripe

\* A retained server of a paid recovery: power it on and wait for its proof.
PowerRequested(d) ==
    IF d.row.stage = "restoring"
    THEN UpdateInstance(d, [d.row EXCEPT !.note = "none"]) ELSE d

RestoreGetAnswer(w) ==
    LET me == wk[w] IN
    /\ me.pc = "restore_get"
    /\ \/ ~ServerFound(me.pid) /\ Retry(w, db, me)
       \/ ServerOn(me.pid) /\ Done(w, PowerRequested(db), me)
       \/ /\ ServerFound(me.pid) /\ ~ServerOn(me.pid)
          /\ Await(w, db, me, "restore_power")
       \/ Fails(w, db, me)
    /\ UNCHANGED <<vps, stripe>>

RestorePowerAnswer(w) ==
    LET me == wk[w] IN
    /\ me.pc = "restore_power"
    /\ \/ ServerFound(me.pid) /\ vps' = Effect(me) /\ Done(w, PowerRequested(db), me)
       \/ ~ServerFound(me.pid) /\ vps' = vps /\ Retry(w, db, me)
       \/ vps' \in {vps, Effect(me)} /\ Fails(w, db, me)
    /\ UNCHANGED stripe

-----------------------------------------------------------------------------
(* drainReadinessRecheck *)

NextRegion(d, t) ==
    EnqueueProvision(
        UpdateInstance(d, [d.row EXCEPT
            !.tried = @ + 1, !.gen = @ + 1, !.attempts = 0, !.pid = NoServer,
            !.tok = 0, !.tokUntil = NoTime, !.stage = "provisioning"]), t)

SetupEnded(d, t) ==
    FailProvisioning(
        UpdateInstance(d, [d.row EXCEPT !.pid = NoServer, !.tokUntil = NoTime]), t)

\* The refused server is gone: only now may its replacement be queued.
CleanedUp(d, me) ==
    LET removed == MarkRemoved(d, {me.gen})
    IN  IF me.key.kind = "replace_region"
        THEN NextRegion(removed, me.t) ELSE SetupEnded(removed, me.t)

StartRecheck(w, d, me) ==
    LET row == d.row
        known == [me EXCEPT !.pid = row.pid, !.gen = row.gen]
    IN  CASE row.stage # "bootstrapping" -> Done(w, d, me)
          [] row.stage = "bootstrapping" /\ me.key.kind = "bootstrap_timeout" ->
                IF row.tokUntil # NoTime /\ me.t < row.tokUntil
                THEN Retry(w, d, me)
                ELSE Done(w, RefuseReadiness(d, me.t), me)
          [] row.stage = "bootstrapping" /\ me.key.kind # "bootstrap_timeout" ->
                \/ ProviderMissing /\ Retry(w, d, me)
                \/ IF row.pid = NoServer THEN Done(w, CleanedUp(d, known), me)
                   ELSE Await(w, d, known, "recheck_delete")

RecheckDeleteAnswer(w) ==
    LET me == wk[w] IN
    /\ me.pc = "recheck_delete"
    /\ \/ vps' = Effect(me) /\ Await(w, db, me, "recheck_get")
       \/ vps' \in {vps, Effect(me)} /\ Fails(w, db, me)
    /\ UNCHANGED stripe

RecheckGetAnswer(w) ==
    LET me == wk[w] IN
    /\ me.pc = "recheck_get"
    /\ \/ ServerFound(me.pid) /\ Retry(w, db, me)
       \/ ~ServerFound(me.pid) /\ Done(w, CleanedUp(db, me), me)
       \/ Fails(w, db, me)
    /\ UNCHANGED <<vps, stripe>>

-----------------------------------------------------------------------------
(* drainSuspend: off first, then the stage, if the row is still the one read *)

\* Mutant: the stage follows the power-off whatever the row has become.
SuspendedAnyway(d, fresh) == UpdateInstance(d, [d.row EXCEPT !.stage = "suspended"])

Suspended(d, fresh) ==
    IF fresh THEN UpdateInstance(d, [d.row EXCEPT !.stage = "suspended"]) ELSE d

StartSuspend(w, d, me) ==
    LET row == d.row
        due == /\ row.stage \notin Terminal
               /\ row.suspendAt # NoTime /\ me.t >= row.suspendAt
    IN  IF ~due THEN Done(w, d, me)
        ELSE \/ /\ row.pid = NoServer \/ ProviderMissing
                /\ Done(w, Suspended(d, TRUE), me)
             \/ /\ row.pid # NoServer
                /\ Await(w, d, [me EXCEPT !.pid = row.pid, !.fresh = TRUE], "suspend_power")

SuspendPowerAnswer(w) ==
    LET me == wk[w] IN
    /\ me.pc = "suspend_power"
    /\ \/ ServerFound(me.pid) /\ vps' = Effect(me) /\ Done(w, Suspended(db, me.fresh), me)
       \/ ~ServerFound(me.pid) /\ vps' = vps /\ Retry(w, db, me)
       \/ vps' \in {vps, Effect(me)} /\ Fails(w, db, me)
    /\ UNCHANGED stripe

-----------------------------------------------------------------------------
(* drainDelete *)

Expiring == {"suspended", "past_due", "cancel_scheduled"}

\* The gate before the irreversible commit, on the row read under the lease.
DeleteRefused(row) ==
    \/ row.holdAt # NoTime
    \/ row.stage = "restoring"
    \/ row.reason = "none" /\ row.stage \notin Expiring

Committed(d) == ObsoleteOlder(UpdateInstance(d, [d.row EXCEPT !.stage = "deleting"]))

\* Mutant: the final write does not check that the committed row stands.
AbsentUnchecked(d, w, fresh, t) ==
    LET removed == [d EXCEPT !.res = {[r EXCEPT !.present = FALSE] : r \in @}]
        done == EnqueueStripeCancel(
                    UpdateInstance(removed, [d.row EXCEPT
                        !.stage = "deleted", !.tok = 0, !.tokUntil = NoTime]),
                    "stripe_terminated", t)
    IN  ReleaseLease(done, w)

\* The provider no longer has the server: finish, if the committed row stands.
Absent(d, w, fresh, t) ==
    LET removed == [d EXCEPT !.res = {[r EXCEPT !.present = FALSE] : r \in @}]
        done == EnqueueStripeCancel(
                    UpdateInstance(removed, [d.row EXCEPT
                        !.stage = "deleted", !.tok = 0, !.tokUntil = NoTime]),
                    "stripe_terminated", t)
    IN  ReleaseLease(IF fresh THEN done ELSE removed, w)

\* Mutant: nobody looks again.
Unconfirmed(d, w, me) == ReleaseLease(d, w)

\* Mutant: a deletion the provider accepted counts as done.
DeleteCallBelieved(w) ==
    LET me == wk[w] IN
    /\ me.pc = "delete_call"
    /\ vps' = Effect(me) /\ Done(w, Absent(db, w, me.fresh, me.t), me)
    /\ UNCHANGED stripe

\* Deletion asked for: look again shortly, under the version committed.
Confirming(d, w, me) ==
    LET committed == JobOf(d, me.key)
        confirm == [key |-> Key("delete_confirm", committed.lv, me.t),
                    lv |-> committed.lv, gen |-> committed.gen,
                    at |-> me.t + ConfirmDelay, status |-> "pending", lease |-> NoTime]
    IN  ReleaseLease(Enqueue(d, confirm), w)

StartDelete(w, d, me) ==
    LET row == d.row
        due == row.stage # "deleted" /\ row.deleteAt # NoTime /\ me.t >= row.deleteAt
        claimed == ClaimLease(d, w, me.t + LeaseTtl)
        committed == Committed(claimed)
    IN  IF ~due \/ LeaseRefused(d, me.t) THEN Done(w, d, me)
        ELSE IF DeleteRefused(row) THEN Done(w, ReleaseLease(claimed, w), me)
        ELSE \/ row.pid = NoServer /\ Done(w, Absent(committed, w, TRUE, me.t), me)
             \/ /\ row.pid # NoServer /\ ProviderMissing
                /\ Done(w, Confirming(committed, w, me), me)
             \/ /\ row.pid # NoServer
                /\ Await(w, committed, [me EXCEPT !.pid = row.pid, !.fresh = TRUE], "delete_get")

DeleteGetAnswer(w) ==
    LET me == wk[w] IN
    /\ me.pc = "delete_get"
    /\ \/ ServerFound(me.pid) /\ Await(w, db, me, "delete_call")
       \/ ~ServerFound(me.pid) /\ Done(w, Absent(db, w, me.fresh, me.t), me)
       \/ Fails(w, ReleaseLease(db, w), me)
    /\ UNCHANGED <<vps, stripe>>

DeleteCallAnswer(w) ==
    LET me == wk[w] IN
    /\ me.pc = "delete_call"
    /\ \/ vps' = Effect(me) /\ Done(w, Confirming(db, w, me), me)
       \/ vps' \in {vps, Effect(me)} /\ Fails(w, ReleaseLease(db, w), me)
    /\ UNCHANGED stripe

-----------------------------------------------------------------------------
(* billing_reconcile: Stripe is told to stop, or has already ended it *)

StripeAnswer(w) ==
    LET me == wk[w] IN
    /\ me.pc = "stripe"
    /\ \/ stripe' = TRUE /\ Done(w, db, me)
       \/ sub.status = "canceled" /\ stripe' = stripe /\ Done(w, db, me)
       \/ stripe' \in {stripe, TRUE} /\ Fails(w, db, me)
    /\ UNCHANGED vps

-----------------------------------------------------------------------------
(* tick *)

TickStart(w) ==
    LET d == ReconcileOwner(db, sub, elig, now)
        due == Due(d, now)
    IN  /\ wk[w].pc = "idle"
        /\ WorkerStep(w, d, Rest([IdleWorker EXCEPT !.t = now, !.due = due]))
        /\ UNCHANGED <<vps, stripe>>

RunJob(w, d, me) ==
    LET job == JobOf(d, me.key)
        kind == me.key.kind
    IN  CASE job.lv # d.row.lv \/ job.gen # d.row.gen -> Done(w, d, me)
          [] OTHER ->
             CASE kind \in {"provision", "restore"} -> StartProvision(w, d, me)
               [] kind \in {"bootstrap_timeout", "replace_region", "region_terminal"} ->
                    StartRecheck(w, d, me)
               [] kind \in {"suspend", "admin_suspend"} -> StartSuspend(w, d, me)
               [] kind \in {"delete", "admin_delete", "delete_confirm"} ->
                    StartDelete(w, d, me)
               [] OTHER -> Await(w, d, me, "stripe")

\* The next job of the tick's list, earliest first, claimed at the instant
\* the tick started.  A job another tick holds or finished is passed over.
DrainNext(w) ==
    LET me == wk[w] IN
    /\ me.pc = "drain"
    /\ \E key \in me.due :
        LET job == JobOf(db, key)
            taken == [me EXCEPT !.due = @ \ {key}, !.key = key]
        IN  /\ \A other \in me.due : job.at <= JobOf(db, other).at
            /\ IF Claimable(job, me.t)
               THEN RunJob(w, ClaimJob(db, key, me.t + LeaseTtl), taken)
               ELSE WorkerStep(w, db, Rest(taken))
    /\ UNCHANGED <<vps, stripe>>

Worker(w) ==
    \/ TickStart(w) \/ DrainNext(w)
    \/ PlansAnswer(w) \/ ProvisionGetAnswer(w) \/ ProvisionFindAnswer(w)
    \/ ProvisionCreateAnswer(w) \/ RestoreGetAnswer(w) \/ RestorePowerAnswer(w)
    \/ RecheckDeleteAnswer(w) \/ RecheckGetAnswer(w) \/ SuspendPowerAnswer(w)
    \/ DeleteGetAnswer(w) \/ DeleteCallAnswer(w) \/ StripeAnswer(w)

-----------------------------------------------------------------------------
(* requests *)

Quiet(r) == rq[r].pc = "idle" /\ db.row.lv < MaxLv

Asked(r, pc) ==
    RequestStep(r, db, [IdleRequest EXCEPT !.pc = pc, !.t = now, !.fresh = TRUE,
                        !.gen = db.row.gen, !.pid = db.row.pid, !.tok = db.row.tok])

CancelRequest(r) ==
    /\ "cancel" \in Events /\ Quiet(r)
    /\ db.row.stage \notin Terminal
    /\ Asked(r, "cancel")
    /\ UNCHANGED <<vps, stripe>>

\* Mutant: the schedule is written whatever the row has become.
CancelAnyway(r) ==
    LET anchor == First(db.row.paid, rq[r].t, rq[r].t) IN
    /\ rq[r].pc = "cancel"
    /\ stripe' = TRUE
    /\ RequestStep(r, ScheduleEnd(db, "intentional", anchor), IdleRequest)
    /\ UNCHANGED vps

\* Stripe confirmed.  The deadlines follow the row read before Stripe was
\* asked; when that row is stale nothing is written.
CancelAnswer(r) ==
    LET anchor == First(db.row.paid, rq[r].t, rq[r].t)
        d == IF rq[r].fresh THEN ScheduleEnd(db, "intentional", anchor) ELSE db
    IN  /\ rq[r].pc = "cancel"
        /\ \/ stripe' = TRUE /\ RequestStep(r, d, IdleRequest)
           \/ /\ "fail" \in Events /\ stripe' \in {stripe, TRUE}
              /\ RequestStep(r, db, IdleRequest)
        /\ UNCHANGED vps

ActiveAtStripe == sub.status \in {"active", "cancels"} /\ ~sub.flagged

ResumeRenewal(r) ==
    /\ "resume" \in Events /\ Quiet(r)
    /\ db.row.stage = "cancel_scheduled"
    /\ db.row.suspendAt = NoTime \/ now < db.row.suspendAt
    /\ ActiveAtStripe
    /\ Asked(r, "resume")
    /\ UNCHANGED <<vps, stripe>>

AdminResumeRenewal(r) ==
    /\ "resume" \in Events /\ Quiet(r)
    /\ db.row.stage = "cancel_scheduled" /\ db.row.reason = "intentional"
    /\ ActiveAtStripe
    /\ Asked(r, "resume")
    /\ UNCHANGED <<vps, stripe>>

Resumed(d) ==
    ObsoleteOlder(UpdateInstance(d, [d.row EXCEPT
        !.reason = "none", !.suspendAt = NoTime, !.deleteAt = NoTime,
        !.stage = "ready", !.holdAt = NoTime, !.lv = @ + 1]))

ResumeAnswer(r) ==
    /\ rq[r].pc = "resume"
    /\ \/ /\ stripe' = FALSE
          /\ RequestStep(r, IF rq[r].fresh THEN Resumed(db) ELSE db, IdleRequest)
       \/ /\ "fail" \in Events /\ stripe' \in {stripe, FALSE}
          /\ RequestStep(r, db, IdleRequest)
    /\ UNCHANGED vps

(* reportReadiness: a server proves itself with the credential and the      *)
(* generation it was created with.  Its report may arrive at any time.      *)
BootProof(row, server) ==
    /\ row.stage \in {"provisioning", "bootstrapping"}
    /\ row.gen = server.gen
    /\ row.tok = server.tok /\ row.tokUntil >= now

RestoreProof(row, server) ==
    row.stage = "restoring" /\ row.gen = server.gen /\ row.tok = server.tok

Observed(d) == UpdateInstance(d, d.row)

ReportReady(r) ==
    /\ "report" \in Events /\ Quiet(r)
    /\ db.row.pid # NoServer
    /\ \E sid \in DOMAIN vps : BootProof(db.row, vps[sid]) \/ RestoreProof(db.row, vps[sid])
    /\ Asked(r, "health")
    /\ UNCHANGED <<vps, stripe>>

\* Mutant: the proof is recorded on whatever row there is now.
HealthUnchecked(r) ==
    /\ rq[r].pc = "health"
    /\ ServerOn(rq[r].pid)
    /\ RequestStep(r, MarkReady(Observed(db)), IdleRequest)
    /\ UNCHANGED <<vps, stripe>>

\* The provider's address of the row's server, then its public health.
HealthAnswer(r) ==
    /\ rq[r].pc = "health"
    /\ \/ /\ ServerOn(rq[r].pid)
          /\ RequestStep(r, IF rq[r].fresh THEN MarkReady(Observed(db)) ELSE db, IdleRequest)
       \/ RequestStep(r, db, IdleRequest)
    /\ UNCHANGED <<vps, stripe>>

ReportRefused ==
    /\ "refuse" \in Events /\ db.row.lv < MaxLv
    /\ \/ /\ \E sid \in DOMAIN vps : BootProof(db.row, vps[sid])
          /\ SyncStep(RefuseReadiness(Observed(db), now))
       \/ /\ \E sid \in DOMAIN vps : RestoreProof(db.row, vps[sid])
          /\ SyncStep(UpdateInstance(Observed(db), [db.row EXCEPT !.note = "none"]))
    /\ UNCHANGED <<sub, elig>>

Request(r) ==
    \/ CancelRequest(r) \/ CancelAnswer(r)
    \/ ResumeRenewal(r) \/ AdminResumeRenewal(r) \/ ResumeAnswer(r)
    \/ ReportReady(r) \/ HealthAnswer(r)

-----------------------------------------------------------------------------
(* the operator *)

Admin(event, d) ==
    /\ event \in Events /\ db.row.lv < MaxLv
    /\ SyncStep(d)
    /\ UNCHANGED <<sub, elig>>

AdminRetryProvisioning ==
    /\ db.row.minted < MaxTokens
    /\ Admin("retry", EnqueueProvision(
            UpdateInstance(db, [db.row EXCEPT !.attempts = 0, !.note = "none"]), now))

AdminForceSuspend ==
    LET forced == UpdateInstance(db, [db.row EXCEPT
                    !.suspendAt = now, !.note = "none", !.lv = @ + 1])
    IN  /\ db.row.stage \notin Terminal
        /\ Admin("force_suspend",
                 Enqueue(forced, Job(Key("admin_suspend", forced.row.lv, 0), forced.row, now)))

AdminForceDelete ==
    LET row == db.row
        forced == UpdateInstance(db, [row EXCEPT
                    !.reason = IF @ = "none" THEN "intentional" ELSE @,
                    !.suspendAt = IF @ = NoTime THEN now ELSE @,
                    !.deleteAt = now, !.note = "none", !.lv = @ + 1])
    IN  /\ row.stage # "deleted" /\ row.holdAt = NoTime
        /\ Admin("force_delete",
                 Enqueue(forced, Job(Key("admin_delete", forced.row.lv, 0), forced.row, now)))

\* A repeated hold keeps the instant of the first.
AdminHoldDeletion ==
    /\ db.row.stage # "deleted"
    /\ Admin("hold", UpdateInstance(db,
            [db.row EXCEPT !.holdAt = IF @ = NoTime THEN now ELSE @]))

\* Deadlines move on by the time held, from the anchor suspendAt stands for.
Released(d, t) ==
    LET row == d.row
        anchor == row.suspendAt - (IF row.reason = "renewal_unpaid" THEN Grace ELSE 0)
        dl == Deadlines(anchor, row.reason, t - row.holdAt)
        shifted == ObsoleteOlder(UpdateInstance(d, [row EXCEPT
                    !.holdAt = NoTime, !.suspendAt = dl.suspendAt,
                    !.deleteAt = dl.deleteAt, !.lv = @ + 1]))
        job == Job(Key("delete", shifted.row.lv, 0), shifted.row, dl.deleteAt)
    IN  CASE row.reason = "none" \/ row.suspendAt = NoTime ->
                UpdateInstance(d, [row EXCEPT !.holdAt = NoTime])
          [] row.reason # "none" /\ row.suspendAt # NoTime /\ dl.deleteAt > t ->
                QueueDeadlineJobs(shifted, dl)
          [] row.reason # "none" /\ row.suspendAt # NoTime /\ dl.deleteAt <= t ->
                Enqueue(shifted, job)

AdminReleaseHold ==
    /\ db.row.holdAt # NoTime
    /\ Admin("hold", Released(db, now))

Operator ==
    \/ AdminRetryProvisioning \/ AdminForceSuspend \/ AdminForceDelete
    \/ AdminHoldDeletion \/ AdminReleaseHold

-----------------------------------------------------------------------------
(* the environment *)

\* A billing event rewrites the role record and reconciles in the same breath.
Webhook(record) ==
    /\ db.row.lv < MaxLv
    /\ sub' = record
    /\ SyncStep(ReconcileOwner(db, record, elig, now))
    /\ UNCHANGED elig

InvoicePaid ==
    /\ "pay" \in Events
    /\ \E end \in sub.end..MaxPaid :
        Webhook([sub EXCEPT !.end = end, !.status = "active"])

\* Stripe delivers in any order, so any status may follow any other; an
\* update of a paid subscription carries its period end.
SubscriptionUpdated ==
    /\ "status" \in Events
    /\ \E status \in Statuses \ {sub.status} :
       \E end \in sub.end..(IF "pay" \in Events THEN MaxPaid ELSE sub.end) :
        /\ end = sub.end \/ status \in {"active", "cancels"}
        /\ Webhook([sub EXCEPT !.status = status, !.end = end])

ChargeFlagged ==
    /\ "flag" \in Events /\ ~sub.flagged
    /\ Webhook([sub EXCEPT !.flagged = TRUE])

LicenceChanges ==
    /\ "licence" \in Events /\ db.row.lv < MaxLv
    /\ elig' \in Eligibilities \ {elig}
    /\ UNCHANGED <<db, sub, vps, stripe, now, wk, rq>>

\* The provider deletes asynchronously.
DeletionEnds(sid) ==
    /\ vps[sid].st = "deleting"
    /\ vps' = [vps EXCEPT ![sid].st = "gone"]
    /\ UNCHANGED <<db, sub, elig, stripe, now, wk, rq>>

\* What a call to Stripe in flight leaves there if it arrives.
StripeEffects ==
    {TRUE : w \in {v \in Workers : wk[v].pc = "stripe"}}
    \cup {rq[r].pc = "cancel" : r \in {q \in Requests : rq[q].pc \in {"cancel", "resume"}}}

\* The process dies: what was in flight is forgotten here, its call may still
\* take effect there; the file and every lease in it stay.
Crash ==
    /\ "crash" \in Events
    /\ wk' = [w \in Workers |-> IdleWorker]
    /\ rq' = [r \in Requests |-> IdleRequest]
    /\ vps' \in {vps} \cup {Effect(wk[w]) : w \in Workers}
    /\ stripe' \in {stripe} \cup StripeEffects
    /\ UNCHANGED <<db, sub, elig, now>>

ClockTicks ==
    /\ now < MaxNow
    /\ now' = now + 1
    /\ UNCHANGED <<db, sub, elig, vps, stripe, wk, rq>>

Environment ==
    \/ InvoicePaid \/ SubscriptionUpdated \/ ChargeFlagged \/ LicenceChanges
    \/ (\E sid \in DOMAIN vps : DeletionEnds(sid)) \/ ClockTicks

Running ==
    \/ \E w \in Workers : Worker(w)
    \/ \E r \in Requests : Request(r)
    \/ ReportRefused \/ Operator \/ Environment

Next == Running \/ Crash

Spec == Init /\ [][Next]_vars

-----------------------------------------------------------------------------
(* properties *)

Instants == Nat \cup {NoTime}

Kinds == {"provision", "restore", "bootstrap_timeout", "replace_region",
          "region_terminal", "suspend", "admin_suspend", "delete",
          "admin_delete", "delete_confirm", "stripe_ineligible",
          "stripe_setup_failure", "stripe_terminated"}

Keys == [kind : Kinds, a : Nat, b : Nat]

Jobs == [key : Keys, lv : Nat, gen : Nat, at : Int,
         status : {"pending", "sent", "obsolete"}, lease : Instants]

Rows == [stage : Stages, lv : Nat, gen : Nat, version : Nat, pid : Nat, tok : Nat,
         tokUntil : Instants, minted : Nat, attempts : Nat, tried : Nat,
         quoted : BOOLEAN, paid : Instants,
         reason : {"none", "renewal_unpaid", "intentional"},
         suspendAt : Int, deleteAt : Int, holdAt : Instants,
         note : {"none", "flagged", "late"},
         lease : [holder : Workers \cup {"none"}, until : Instants]]

Dbs == [row : Rows, outbox : SUBSET Jobs,
        res : SUBSET [pid : Nat, gen : Nat, present : BOOLEAN]]

WorkerPcs == {"idle", "drain", "plans", "prov_get", "prov_find", "prov_create",
              "restore_get", "restore_power", "recheck_delete", "recheck_get",
              "suspend_power", "delete_get", "delete_call", "stripe"}

Subscriptions == [status : Statuses, end : Instants, flagged : BOOLEAN]

Servers == [gen : Nat, tok : Nat, st : {"on", "off", "deleting", "gone"}]

Ticks == [pc : WorkerPcs, t : Nat, due : SUBSET Keys, key : Keys \cup {NoKey},
          fresh : BOOLEAN, gen : Nat, pid : Nat, tok : Nat]

Handlers == [pc : {"idle", "cancel", "resume", "health"}, t : Nat,
             fresh : BOOLEAN, gen : Nat, pid : Nat, tok : Nat]

\* The type of every variable; between steps the version is back at 0.
TypeOK ==
    /\ db \in Dbs /\ db.row.version = 0
    /\ sub \in Subscriptions
    /\ elig \in Eligibilities
    /\ vps \in Seq(Servers)
    /\ stripe \in BOOLEAN
    /\ now \in Nat
    /\ wk \in [Workers -> Ticks]
    /\ rq \in [Requests -> Handlers]

\* What the code checked on the row before it let go of it.
HandlerSees(me, row) ==
    /\ me.pc = "cancel" => row.stage \notin Terminal
    /\ me.pc = "resume" => row.stage = "cancel_scheduled"
    /\ me.pc = "health" =>
        /\ row.stage \in {"provisioning", "bootstrapping", "restoring"}
        /\ row.pid = me.pid /\ row.pid # NoServer

TickSees(me, row) ==
    /\ me.pc = "suspend_power" =>
        /\ row.stage \notin Terminal
        /\ row.suspendAt # NoTime /\ row.suspendAt <= me.t
    /\ me.pc \in {"delete_get", "delete_call"} =>
        /\ row.stage = "deleting" /\ row.holdAt = NoTime

(* What a tick or a handler still holds to be true of the row it read before *)
(* an await, when its compare-and-swap is going to succeed: the optimistic   *)
(* version protects the gates of cancel, resume, readiness, suspend and      *)
(* delete across every await (service.ts 875-971, 1015-1068, 1509-1588).     *)
SnapshotsHold ==
    /\ \A r \in Requests : rq[r].fresh => HandlerSees(rq[r], db.row)
    /\ \A w \in Workers : wk[w].fresh => TickSees(wk[w], db.row)

Existing == {sid \in DOMAIN vps : ServerFound(sid)}

\* One order never has two servers at the provider at once, whatever calls
\* failed half way, were repeated or crashed (provider.ts 8-17: "never a
\* second create"), and a replacement waits for the clean-up (1363-1365).
OneServer == \A s1, s2 \in Existing : s1 = s2

\* The credential a running server of the current generation was created with
\* is the one the row verifies, so an uncertain create can still prove itself
\* (service.ts 1296-1300: the verifier is persisted before the call).
CredentialKept ==
    \A sid \in Existing :
        vps[sid].gen = db.row.gen /\ db.row.stage # "deleted" => vps[sid].tok = db.row.tok

\* A server the provider has is in the inventory, or a job that will look for
\* it by its label is still due (service.ts 1323-1330: the next attempt's
\* findByLabel "is what discovers the orphan").
NoOrphan ==
    \A sid \in Existing :
        \/ \E r \in db.res : r.pid = sid /\ r.present
        \/ \E o \in db.outbox : /\ o.key.kind = "provision" /\ o.status = "pending"
                                /\ o.gen = vps[sid].gen
                                /\ o.lv = db.row.lv /\ o.gen = db.row.gen

\* A row only ends as deleted when the provider has no server left for it
\* (drainDelete waits for absence, service.ts 1554-1570).
NoLeak == db.row.stage = "deleted" => Existing = {}

DeleteJobs == {"delete", "admin_delete", "delete_confirm"}

HasJob(kinds) ==
    \E o \in db.outbox : /\ o.key.kind \in kinds /\ o.status = "pending"
                         /\ o.lv = db.row.lv /\ o.gen = db.row.gen

\* A committed deletion that is not held always has a job left that will
\* carry it on (service.ts 1522-1524: "a crash between commit and confirm is
\* safely resumable").
DeletionKeepsItsJob == db.row.stage = "deleting" /\ db.row.holdAt = NoTime => HasJob(DeleteJobs)

\* Whatever schedule the row shows, the job that ends the service is in the
\* outbox under the row's own version: a deadline shown is a deadline kept
\* (scheduleEnd, cancel, adminReleaseHold: 812-838, 1862-1907).
EndKeepsItsJob ==
    db.row.deleteAt # NoTime /\ db.row.stage \notin Terminal /\ db.row.holdAt = NoTime
        => HasJob(DeleteJobs)

\* How a step may make a row ready, and end one.
ProvesReady ==
    db.row.stage # "ready" /\ db'.row.stage = "ready" =>
        \/ db.row.stage = "cancel_scheduled"
        \/ /\ db.row.stage \in {"provisioning", "bootstrapping", "restoring"}
           /\ ServerOn(db.row.pid)

RespectsHold ==
    db.row.stage = "deleting" /\ db'.row.stage = "deleted" => db.row.holdAt = NoTime

\* A server is declared ready by a proof for the very server and generation
\* the row names, still powered on when the address was read, or by
\* reversing a cancellation that never took effect (1015-1105, 944-971).
ReadyIsProven == [][ProvesReady]_vars

\* A row on an operator's hold never becomes deleted, even when the hold was
\* placed while the provider was already being asked (1525-1588, 1832-1843).
HeldNeverDeleted == [][RespectsHold]_vars

\* "Irreversible deletion is a hard wall" (service.ts 844-846): no payment,
\* webhook or late answer brings a deleting or deleted row back.
NeverRevived == [][db.row.stage \in Terminal => db'.row.stage \in Terminal]_vars

\* No service is scheduled to end inside the term paid for: a cancelled one
\* runs to the end of that term and an unpaid renewal has its grace on top;
\* data is kept for the retention that follows (deadlines.ts, scheduleEnd,
\* adminReleaseHold).  An operator's forced end is outside this.
TermKept ==
    /\ db.row.stage = "cancel_scheduled" => db.row.suspendAt >= db.row.paid
    /\ db.row.reason = "renewal_unpaid" => db.row.suspendAt >= db.row.paid + Grace
    /\ db.row.reason # "none" => db.row.deleteAt = db.row.suspendAt + Retention

\* A deletion is committed only when the retention that follows the suspension
\* has passed and, for an unpaid renewal, the grace that follows the term.
CommitsInTime ==
    db.row.stage # "deleting" /\ db'.row.stage = "deleting"
        => /\ now >= db.row.suspendAt + Retention
           /\ db.row.reason = "renewal_unpaid" => now >= db.row.paid + Grace + Retention

\* The paid term is respected by every schedule a step leaves and by every
\* deletion (drainDelete).  The end a customer asked for stands even when a later
\* payment moves the term on (applyBillingSignal, 750-771).
PaidTermRespected == [][TermKept' /\ CommitsInTime]_vars

\* A row becomes suspended only under a suspend instant it still has and that
\* has passed: a payment or a hold release that lands while the provider is
\* powering the server off wins (drainSuspend, 1509-1519).
SuspendedOnSchedule ==
    [][db.row.stage # "suspended" /\ db'.row.stage = "suspended"
        => db.row.suspendAt # NoTime /\ db.row.suspendAt <= now]_vars

\* The server a customer was running on (server 1 of a system that starts
\* ready) is only given up when its row is ending (tests/hosting-service
\* .test.mjs:277: "a restore refusal never replaces or deletes the customer's
\* retained server").
ReadyServerKept ==
    [][InitStage = "ready" /\ vps[1].st \in {"on", "off"} /\ vps'[1].st = "deleting"
        => db.row.stage \in Terminal]_vars

-----------------------------------------------------------------------------
(* liveness: a prompt system, in which the clock only moves when no tick is  *)
(* working and nothing is due (a tick every 30 s against deadlines of hours). *)
(* The bound on the clock must not cut off a schedule or a retry, so billing *)
(* changes and crashes come while there is time left for a whole end of      *)
(* service, and the provider finishes a deletion before the last retry.      *)

TimeLeft(span) == now + span < MaxNow

Retrying == LeaseTtl + ConfirmDelay

Prompt ==
    /\ now' # now =>
        /\ \A w \in Workers : wk[w].pc = "idle"
        /\ \A r \in Requests : rq[r].pc = "idle"
        /\ Stored(ReconcileOwner(db, sub, elig, now)) = db /\ Due(db, now) = {}
        /\ TimeLeft(Retrying) \/ \A sid \in DOMAIN vps : vps[sid].st # "deleting"
    /\ sub' # sub => TimeLeft(Grace + Retention + Retrying)

PromptNext == (Running /\ Prompt) \/ (TimeLeft(Retrying) /\ Crash)

\* A crash may come at any point but not before every job for ever: a tick
\* that keeps starting gets to its jobs, and time goes on.
Fairness ==
    /\ SF_vars(ClockTicks /\ Prompt)
    /\ \A w \in Workers : WF_vars(Worker(w)) /\ SF_vars(DrainNext(w))
    /\ \A r \in Requests : WF_vars(CancelAnswer(r) \/ ResumeAnswer(r) \/ HealthAnswer(r))
    /\ WF_vars(\E sid \in DOMAIN vps : DeletionEnds(sid))

LiveSpec == Init /\ [][PromptNext]_vars /\ Fairness

\* A subscription that stays ended at Stripe ends the service, whatever crashes
\* on the way: the row becomes deleted and the provider has no server left.
EndedIsDeleted ==
    sub.status = "canceled"
        ~> \/ db.row.stage = "deleted" /\ Existing = {}
           \/ sub.status # "canceled"
=============================================================================
