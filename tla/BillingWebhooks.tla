--------------------------- MODULE BillingWebhooks ---------------------------
(***************************************************************************)
(* Stripe's webhooks for the software licence of one customer              *)
(* (src/billing/service.ts) and the hand-over of the events applied to the *)
(* Earn programme.                                                         *)
(*                                                                         *)
(* A request in flight is a member of Requests.  Its code between two      *)
(* awaits is one step: it leaves a trail of disk images, and the process   *)
(* may die at any of them (Run).  Checkouts take their turn on the         *)
(* customer's lock; invoices, refunds and the operator do not.             *)
(***************************************************************************)
EXTENDS BillingStore

CONSTANTS
    Requests,
    OneOff,         \* what a one-off purchase buys (policy.oneOffDays)
    Bootstrap,      \* policy.bootstrapDays
    MaxNow,         \* bound: the clock stops here
    MaxCrashes,     \* bound: the process dies at most so often
    MaxForgotten,   \* bound: ids dropped from the seen events
    MaxResends      \* bound: welcome e-mails an operator sends again

ASSUME TermAssumption ==
    /\ OneOff \in Nat \ {0}
    /\ Bootstrap \in Nat \ {0}

VARIABLES
    disk,           \* the files
    rq,             \* each request: where it is, its event, the row it holds
    inFlight,       \* this.inFlight
    drain,          \* drainAfterCommit: the event awaited and those left
    handed,         \* the events Earn was handed
    now, crashes, forgotten, resends

vars == <<disk, rq, inFlight, drain, handed, now, crashes, forgotten, resends>>

Idle == [pc |-> "idle", ev |-> NoEvent, rec |-> NoCustomer]
Resting == [ev |-> NoEvent, todo |-> {}]

Init ==
    /\ disk = [cust |-> NoCustomer, exp |-> <<>>, revoked |-> {}, ptr |-> NoSession,
               marker |-> [s \in Sessions |-> NoMarker], seen |-> {},
               outbox |-> [e \in Events |-> "none"]]
    /\ rq = [r \in Requests |-> Idle]
    /\ inFlight = {} /\ drain = Resting /\ handed = {}
    /\ now = 1 /\ crashes = 0 /\ forgotten = 0 /\ resends = 0

Later(a, b) == IF a > b THEN a ELSE b
Sooner(a, b) == IF a < b THEN a ELSE b
Known(image) == image.cust # NoCustomer

-----------------------------------------------------------------------------
(* What a handler does before it awaits or ends: its trail, where it is then *)
(* ("failed" raises, so the reply is a 500) and the row it goes on with.     *)

Result(tr, pc, rec) == [tr |-> tr, pc |-> pc, rec |-> rec]
Finishes(tr) == Result(tr, "finish", NoCustomer)
Fails(tr) == Result(tr, "failed", NoCustomer)

\* The welcome e-mail goes out once; until it did, every handler awaits it.
Welcome(tr, rec) ==
    Result(tr, IF rec.welcomed THEN "finish" ELSE "mail", rec)

NoteCharge(rec, charge) ==
    IF charge = "" THEN rec ELSE [rec EXCEPT !.charges = @ \cup {charge}]

\* A licence must expire after it is issued.
CannotIssue(image, t) == ~Known(image) /\ t <= now

EnsureCustomer(tr, sub, t) ==
    IF Known(Disk(tr)) THEN tr
    ELSE LET issued == IssueUntil(tr, t)
         IN  PutCustomer(issued, Customer(Len(Disk(issued).exp), sub))

\* Mutant: the target is written even when it lies earlier.
ExtendEitherWay(tr, lic, target) == SetExpiry(tr, lic, target)

\* Forward only, and never a revoked licence.
ExtendLicense(tr, lic, target) ==
    IF target > Disk(tr).exp[lic] THEN SetExpiry(tr, lic, target) ELSE tr

-----------------------------------------------------------------------------
(* one-off purchases *)

ChargeOf(s) == Facts[CHOOSE e \in Events : Facts[e].session = s].charge

\* Mutant: the marker says applied before the licence is extended.
FulfilMarkerFirst(tr, s) ==
    LET m == Disk(tr).marker[s]
        known == EnsureCustomer(tr, FALSE, m.target)
        rec == NoteCharge(Disk(known).cust, ChargeOf(s))
        applied == PutCheckoutSession(PutCustomer(known, rec), s, "applied", rec.lic)
        extended == ExtendLicense(applied, rec.lic, m.target)
    IN  IF CannotIssue(Disk(tr), m.target) \/ rec.lic \in Disk(tr).revoked THEN Fails(tr)
        ELSE Welcome(ClearPending(extended, s), rec)

\* What a claimed session is still owed.  Its target was written before, so a
\* replay after a crash writes the same expiry again.
Fulfil(tr, s) ==
    LET m == Disk(tr).marker[s]
        known == EnsureCustomer(tr, FALSE, m.target)
        rec == NoteCharge(Disk(known).cust, ChargeOf(s))
        bound == IF m.lic = NoLicence
                 THEN PutCheckoutSession(known, s, "pending", rec.lic) ELSE known
        extended == ExtendLicense(bound, rec.lic, m.target)
        applied == PutCheckoutSession(PutCustomer(extended, rec), s, "applied", rec.lic)
    IN  CASE CannotIssue(Disk(tr), m.target) -> Fails(tr)
          [] ~CannotIssue(Disk(tr), m.target) /\ m.lic \notin {NoLicence, rec.lic} -> Fails(known)
          [] ~CannotIssue(Disk(tr), m.target) /\ m.lic \in {NoLicence, rec.lic} ->
                IF rec.lic \in Disk(tr).revoked THEN Fails(bound)
                ELSE Welcome(ClearPending(applied, s), rec)

\* Mutant: a purchase left pending is left for its own redelivery.
RecoverNothing(tr) == Finishes(tr)

\* A purchase another process left pending comes first: the next one must
\* see its term.  "finish" lets the handler go on at once.
RecoverPendingCheckout(tr) ==
    LET s == Disk(tr).ptr
    IN  CASE s = NoSession -> Finishes(tr)
          [] s # NoSession /\ Disk(tr).marker[s].status \in {"none", "applied"} ->
                Finishes(ClearPending(tr, s))
          [] s # NoSession /\ Disk(tr).marker[s].status = "pending" ->
                LET owed == Fulfil(tr, s)
                IN  IF owed.pc = "mail" THEN Result(owed.tr, "recovered", owed.rec) ELSE owed

PaymentTarget(image) ==
    OneOff + (IF Known(image) THEN Later(image.exp[image.cust.lic], now) ELSE now)

\* onPaymentCheckout once nothing is pending.
PaymentCheckout(tr, s) ==
    LET image == Disk(tr)
        revoked == image.cust.lic \in image.revoked
        claimed == ClaimCheckoutSession(PutPending(tr, s), s, PaymentTarget(image), image.cust.lic)
        duplicate == PutCustomer(claimed, NoteCharge(image.cust, ChargeOf(s)))
        applied == image.marker[s].status = "applied"
    IN  CASE revoked /\ applied -> Finishes(tr)
          [] revoked /\ ~applied -> Fails(tr)
          [] ~revoked /\ applied -> Finishes(ClearPending(duplicate, s))
          [] ~revoked /\ ~applied -> Fulfil(claimed, s)

OnPaymentCheckout(tr, e) ==
    LET recovery == RecoverPendingCheckout(tr)
    IN  IF recovery.pc = "finish" THEN PaymentCheckout(recovery.tr, Facts[e].session)
        ELSE recovery

-----------------------------------------------------------------------------
(* subscriptions and charges *)

OnSubscriptionCheckout(tr, e) ==
    LET known == EnsureCustomer(tr, TRUE, now + Bootstrap)
        rec == NoteCharge([Disk(known).cust EXCEPT !.sub = TRUE], Facts[e].charge)
    IN  Welcome(PutCustomer(known, rec), rec)

\* applyPaidInvoiceTerm
PaidTerm(rec, end) ==
    LET paid == Later(rec.paid, end)
    IN  [rec EXCEPT !.sub = TRUE, !.paid = paid, !.ends = paid + Grace,
                    !.unpaid = IF paid > @ THEN NoTime ELSE @]

OnInvoicePaid(tr, e) ==
    LET target == Facts[e].end + Grace
        known == EnsureCustomer(tr, TRUE, target)
        rec == NoteCharge(PaidTerm(Disk(known).cust, Facts[e].end), Facts[e].charge)
    IN  IF CannotIssue(Disk(tr), target) THEN Fails(tr)
        ELSE Welcome(PutCustomer(ExtendLicense(known, rec.lic, target), rec), rec)

\* A failure for a term already settled is ignored.
OnInvoiceFailed(tr, e) ==
    LET rec == Disk(tr).cust
        start == Facts[e].start
        unpaid == IF rec.unpaid = NoTime THEN start ELSE Sooner(rec.unpaid, start)
        limit == Grace + (IF rec.paid = NoTime THEN unpaid ELSE rec.paid)
        known == {t \in {rec.ends} : t # NoTime}
            \cup {Disk(tr).exp[l] : l \in {rec.lic} \ (Disk(tr).revoked \cup {NoLicence})}
        ends == CHOOSE t \in known \cup {limit} : \A u \in known \cup {limit} : t <= u
    IN  IF ~Known(Disk(tr)) \/ rec.paid > start THEN Finishes(tr)
        ELSE Finishes(PutCustomer(tr, [rec EXCEPT !.unpaid = unpaid, !.ends = ends]))

\* Status and cancellation never grant a term.
OnSubscriptionUpdated(tr) ==
    IF ~Known(Disk(tr)) THEN Finishes(tr)
    ELSE Finishes(PutCustomer(tr, [Disk(tr).cust EXCEPT !.sub = TRUE]))

OnChargeSucceeded(tr, e) ==
    IF ~Known(Disk(tr)) THEN Finishes(tr)
    ELSE Finishes(PutCustomer(tr, NoteCharge(Disk(tr).cust, Facts[e].charge)))

RevokeCustomer(tr) ==
    LET rec == Disk(tr).cust
    IN  Finishes(PutCustomer(Revoke(tr, rec.lic), rec))

OnRefund(tr) == IF Known(Disk(tr)) THEN RevokeCustomer(tr) ELSE Finishes(tr)

\* A dispute names only its charge.
OnDispute(tr, e) ==
    IF Facts[e].charge \in Disk(tr).cust.charges THEN RevokeCustomer(tr) ELSE Finishes(tr)

\* A charge no record holds is first looked up at Stripe.
Held(image, e) == Facts[e].charge \in image.cust.charges

ApplyEvent(tr, e) ==
    LET kind == Facts[e].kind
    IN  CASE kind \in {"purchase", "subscribe"} -> Result(tr, "wait", NoCustomer)
          [] kind \in {"refund", "dispute"} /\ ~Held(Disk(tr), e) ->
                Result(tr, "resolve", NoCustomer)
          [] kind = "refund" /\ Held(Disk(tr), e) -> OnRefund(tr)
          [] kind = "dispute" /\ Held(Disk(tr), e) -> OnDispute(tr, e)
          [] kind = "paid" -> OnInvoicePaid(tr, e)
          [] kind = "failed" -> OnInvoiceFailed(tr, e)
          [] kind = "status" -> OnSubscriptionUpdated(tr)
          [] kind = "charge" -> OnChargeSucceeded(tr, e)

-----------------------------------------------------------------------------
(* steps *)

\* The code of request r runs to its next await, or the process dies on the
\* way and leaves any image of the trail behind.
Run(r, tr, me, flight) ==
    \/ /\ disk' = Disk(tr)
       /\ rq' = [rq EXCEPT ![r] = me] /\ inFlight' = flight
       /\ UNCHANGED <<drain, crashes>>
    \/ /\ crashes < MaxCrashes /\ crashes' = crashes + 1
       /\ \E i \in DOMAIN tr : disk' = tr[i]
       /\ rq' = [q \in Requests |-> Idle] /\ inFlight' = {} /\ drain' = Resting

\* Mutant: the event of a failed delivery stays in flight.
RunForgetful(r, e, result) ==
    \E done \in {result} :
        Run(r, done.tr,
            IF done.pc = "failed" THEN Idle ELSE [pc |-> done.pc, ev |-> e, rec |-> done.rec],
            inFlight \cup {e})

RunResult(r, e, result) ==
    \E done \in {result} :
        IF done.pc = "failed" THEN Run(r, done.tr, Idle, inFlight \ {e})
        ELSE Run(r, done.tr, [pc |-> done.pc, ev |-> e, rec |-> done.rec], inFlight \cup {e})

\* A delivery of e: refused while e is being applied or the outbox is full,
\* else staged for Earn; a duplicate is only committed again.
Receive(r, e) ==
    LET staged == IF EarnWants(e) THEN Stage(<<disk>>, e) ELSE <<disk>>
        duplicate == IF EarnWants(e) THEN Commit(staged, e) ELSE staged
    IN  /\ rq[r].pc = "idle" /\ e \notin inFlight
        /\ EarnWants(e) => Stageable(disk, e)
        /\ IF e \in disk.seen THEN Run(r, duplicate, Idle, inFlight)
           ELSE RunResult(r, e, ApplyEvent(staged, e))
        /\ UNCHANGED <<handed, now, forgotten, resends>>

HoldsLock(q) ==
    \/ rq[q].pc = "recovered"
    \/ /\ rq[q].pc = "mail" /\ rq[q].ev # NoEvent
       /\ Facts[rq[q].ev].kind \in {"purchase", "subscribe"}

\* withCheckoutLocks gave the request its turn.
EnterCheckout(r) ==
    LET e == rq[r].ev
    IN  /\ rq[r].pc = "wait" /\ \A q \in Requests : ~HoldsLock(q)
        /\ RunResult(r, e, IF Facts[e].kind = "purchase" THEN OnPaymentCheckout(<<disk>>, e)
                           ELSE OnSubscriptionCheckout(<<disk>>, e))
        /\ UNCHANGED <<handed, now, forgotten, resends>>

\* The row the handler read before the e-mail goes back to the file.
Mailed(r) ==
    {PutCustomer(<<disk>>, rec) : rec \in {rq[r].rec, [rq[r].rec EXCEPT !.welcomed = TRUE]}}

MailAnswer(r) ==
    LET e == rq[r].ev
    IN  /\ rq[r].pc \in {"mail", "recovered"}
        /\ \E tr \in Mailed(r) :
            IF e = NoEvent THEN Run(r, tr, Idle, inFlight)
            ELSE RunResult(r, e, IF rq[r].pc = "mail" THEN Finishes(tr)
                                 ELSE PaymentCheckout(tr, Facts[e].session))
        /\ UNCHANGED <<handed, now, forgotten, resends>>

\* Stripe names the invoice of a charge that paid one; the row of its
\* subscription then holds the charge.
ResolveAnswer(r) ==
    LET e == rq[r].ev
        linked == IF Facts[e].end # NoTime /\ disk.cust.sub
                  THEN PutCustomer(<<disk>>, NoteCharge(disk.cust, Facts[e].charge)) ELSE <<disk>>
    IN  /\ rq[r].pc = "resolve"
        /\ RunResult(r, e, IF Facts[e].kind = "refund" THEN OnRefund(linked)
                           ELSE OnDispute(linked, e))
        /\ UNCHANGED <<handed, now, forgotten, resends>>

ResolveFails(r) ==
    /\ rq[r].pc = "resolve"
    /\ RunResult(r, rq[r].ev, Fails(<<disk>>))
    /\ UNCHANGED <<handed, now, forgotten, resends>>

\* The event was applied: it is seen, and Earn's row committed.
Finish(r) ==
    LET e == rq[r].ev
        seen == MarkSeen(<<disk>>, e)
    IN  /\ rq[r].pc = "finish"
        /\ Run(r, IF EarnWants(e) THEN Commit(seen, e) ELSE seen, Idle, inFlight \ {e})
        /\ UNCHANGED <<handed, now, forgotten, resends>>

\* The operator sends the welcome e-mail again.
ResendWelcome(r) ==
    /\ rq[r].pc = "idle" /\ Known(disk) /\ resends < MaxResends
    /\ rq' = [rq EXCEPT ![r] = [pc |-> "mail", ev |-> NoEvent, rec |-> disk.cust]]
    /\ resends' = resends + 1
    /\ UNCHANGED <<disk, inFlight, drain, handed, now, crashes, forgotten>>

-----------------------------------------------------------------------------
(* drainAfterCommit: one pass at a time, row by row *)

\* Mutant: the row is gone before Earn has it.
AwaitsCompleted(tr, todo) ==
    LET left == todo \cap Ready(Disk(tr))
    IN  \/ left = {} /\ disk' = Disk(tr) /\ drain' = Resting
        \/ \E e \in left :
            /\ disk' = Disk(Complete(tr, e))
            /\ drain' = [ev |-> e, todo |-> todo \ {e}]

Awaits(tr, todo) ==
    LET left == todo \cap Ready(Disk(tr))
    IN  \/ left = {} /\ disk' = Disk(tr) /\ drain' = Resting
        \/ \E e \in left :
            /\ disk' = Disk(Commit(tr, e))
            /\ drain' = [ev |-> e, todo |-> todo \ {e}]

DrainStart ==
    /\ drain = Resting /\ Ready(disk) # {}
    /\ Awaits(<<disk>>, Ready(disk))
    /\ UNCHANGED <<rq, inFlight, handed, now, crashes, forgotten, resends>>

HookDone ==
    /\ drain.ev # NoEvent
    /\ handed' = handed \cup {drain.ev}
    /\ Awaits(Complete(<<disk>>, drain.ev), drain.todo)
    /\ UNCHANGED <<rq, inFlight, now, crashes, forgotten, resends>>

\* Earn refuses: the row stays for the next pass.
HookFails ==
    /\ drain.ev # NoEvent
    /\ Awaits(<<disk>>, drain.todo)
    /\ UNCHANGED <<rq, inFlight, handed, now, crashes, forgotten, resends>>

\* The process dies while everything awaits; Earn may have been handed its
\* event all the same.
Crash ==
    /\ crashes < MaxCrashes /\ crashes' = crashes + 1
    /\ rq' = [r \in Requests |-> Idle] /\ inFlight' = {} /\ drain' = Resting
    /\ handed' \in {handed, handed \cup ({drain.ev} \ {NoEvent})}
    /\ UNCHANGED <<disk, now, forgotten, resends>>

ClockTicks ==
    /\ now < MaxNow /\ now' = now + 1
    /\ UNCHANGED <<disk, rq, inFlight, drain, handed, crashes, forgotten, resends>>

\* The cap on seen events is the whole hub's: other customers' events push
\* this one's out.
Forget(e) ==
    /\ forgotten < MaxForgotten /\ forgotten' = forgotten + 1
    /\ e \in disk.seen
    /\ disk' = [disk EXCEPT !.seen = @ \ {e}]
    /\ UNCHANGED <<rq, inFlight, drain, handed, now, crashes, resends>>

Request(r) ==
    \/ \E e \in Events : Receive(r, e)
    \/ EnterCheckout(r) \/ MailAnswer(r) \/ ResolveAnswer(r) \/ ResolveFails(r)
    \/ Finish(r) \/ ResendWelcome(r)

Next ==
    \/ \E r \in Requests : Request(r)
    \/ \E e \in Events : Forget(e)
    \/ DrainStart \/ HookDone \/ HookFails \/ Crash \/ ClockTicks

Spec == Init /\ [][Next]_vars

-----------------------------------------------------------------------------
(* Fairness: Stripe delivers an event until it is applied, and answers a     *)
(* look-up sooner or later; mail requests end; the timer of drainAfterCommit *)
(* goes on and Earn takes each event in the end.                             *)

GoesOn(r) ==
    EnterCheckout(r) \/ MailAnswer(r) \/ ResolveAnswer(r) \/ ResolveFails(r) \/ Finish(r)

Fairness ==
    /\ \A r \in Requests : WF_vars(GoesOn(r))
    /\ \A e \in Events :
        /\ WF_vars(e \notin disk.seen /\ \E r \in Requests : Receive(r, e))
        /\ SF_vars(drain.ev = e /\ HookDone)
    /\ SF_vars(\E r \in Requests : ResolveAnswer(r))
    /\ WF_vars(DrainStart \/ HookDone \/ HookFails)

LiveSpec == Spec /\ Fairness

-----------------------------------------------------------------------------
(* Properties *)

Licences(image) == DOMAIN image.exp

DiskOK(image) ==
    /\ image.cust \in [lic : Licences(image) \cup {NoLicence}, sub : BOOLEAN, paid : Nat,
                       unpaid : Nat, ends : Nat, charges : SUBSET STRING, welcomed : BOOLEAN]
    /\ image.exp \in Seq(Nat) /\ image.revoked \subseteq Licences(image)
    /\ image.ptr \in Sessions \cup {NoSession}
    /\ image.marker \in [Sessions -> [status : {"none", "pending", "applied"},
                                     target : Nat, lic : Licences(image) \cup {NoLicence}]]
    /\ image.seen \subseteq Events
    /\ image.outbox \in [Events -> {"none", "staged", "committed"}]

\* The shape of the files and of what is in flight; each event in flight is
\* held by exactly one request (inFlight, service.ts 443-492).
TypeOK ==
    /\ DiskOK(disk)
    /\ \A r \in Requests :
        /\ rq[r].pc \in {"idle", "wait", "mail", "recovered", "resolve", "finish"}
        /\ rq[r].ev \in Events \cup {NoEvent}
    /\ inFlight = {rq[r].ev : r \in Requests} \ {NoEvent}
    /\ \A r, q \in Requests : rq[r].ev = rq[q].ev /\ rq[r].ev # NoEvent => r = q
    /\ drain.ev \in Events \cup {NoEvent} /\ drain.todo \subseteq Events
    /\ handed \subseteq Events
    /\ now \in 1..MaxNow /\ crashes \in 0..MaxCrashes
    /\ forgotten \in 0..MaxForgotten /\ resends \in 0..MaxResends

Claimed == {s \in Sessions : disk.marker[s] # NoMarker}
Revoked == disk.cust.lic \in disk.revoked

\* Every purchase of the customer buys a term of its own, whatever died or was
\* delivered again in between: no two claimed targets overlap
\* (recoverPendingCheckout: "preserves every paid term").
TermsStack ==
    \A s, t \in Claimed : s # t =>
        LET a == disk.marker[s].target
            b == disk.marker[t].target
        IN  a >= b + OneOff \/ b >= a + OneOff

Longest(S) == CHOOSE t \in S : \A u \in S : u <= t

\* No event is paid out twice: the licence runs no longer than the bootstrap
\* term or a paid period, and one term per purchase
\* (claimCheckoutSession, extendLicense).
NoFreeTerms ==
    Known(disk) =>
        disk.exp[disk.cust.lic] <=
            OneOff * Cardinality(Claimed)
            + Longest({now + Bootstrap}
                      \cup {Facts[e].end + Grace : e \in {f \in Events : Facts[f].kind = "paid"}})

\* What an event paid for stands in the licence, unless it was revoked.
PaidOut(e) ==
    LET s == Facts[e].session
        m == disk.marker[s]
    IN  CASE Facts[e].kind = "purchase" ->
                /\ m.status = "applied" /\ m.lic = disk.cust.lic /\ Known(disk)
                /\ Revoked \/ disk.exp[m.lic] >= m.target
          [] Facts[e].kind = "paid" ->
                Known(disk) /\ (Revoked \/ disk.exp[disk.cust.lic] >= Facts[e].end + Grace)
          [] Facts[e].kind \notin {"purchase", "paid"} -> TRUE

\* Stripe never sends an event again once it is seen, so by then its term is
\* on disk, wherever the process died (handleWebhook: "An event that raised
\* is NOT marked seen").
SeenIsPaidOut == \A e \in disk.seen : PaidOut(e)

\* A commission is earned only on a payment billing has applied
\* (after-commit-outbox.ts: "without treating an unapplied event as paid").
EarnOnlyApplied == \A e \in handed : PaidOut(e)

\* No event, in whatever order, takes away a term a licence already has
\* (extendLicense: "FORWARD").
NeverShortened == [][\A l \in Licences(disk) : disk'.exp[l] >= disk.exp[l]]_vars

\* A revoked licence stays revoked, is never extended and never replaced by a
\* fresh one for the same customer, whatever is paid or delivered later.
RevokedStays ==
    [][\A l \in disk.revoked :
        /\ l \in disk'.revoked /\ disk'.exp[l] = disk.exp[l]
        /\ disk.cust.lic = l => disk'.cust.lic = l]_vars

\* The signed ceiling of the app's access (signedBillingAccessFor, 2536-2551);
\* a customer with none has no ceiling.
Ceiling ==
    LET rec == disk.cust
        term == IF ~rec.sub THEN disk.exp[rec.lic]
                ELSE IF rec.paid # NoTime THEN rec.paid + Grace ELSE rec.ends
    IN  IF term = NoTime THEN disk.exp[rec.lic] ELSE Sooner(term, disk.exp[rec.lic])

\* A paid term is never cut short by the late news that it was refused
\* (tests/billing-unpaid-grace.test.mjs: "settlement restores the paid term;
\* a late failed event cannot undo it").
PaidTermStands ==
    \A e \in disk.seen :
        Facts[e].kind = "paid" /\ Known(disk) /\ ~Revoked => Ceiling >= Facts[e].end + Grace

\* A payment that cannot be applied any more: its licence was revoked, or the
\* term it bought ran out before any licence was issued.
Lost(e) ==
    \/ Facts[e].kind = "purchase" /\ Revoked
    \/ Facts[e].kind = "purchase" /\ ~Known(disk)
        /\ \E s \in Claimed : disk.marker[s].target <= now
    \/ Facts[e].kind = "paid" /\ ~Known(disk) /\ Facts[e].end + Grace <= now

\* Every event Stripe keeps delivering is applied in the end, whatever failed
\* and wherever the process died (handleWebhook: "the retry gets a second
\* chance").
EventsApplied == \A e \in Events : <>(e \in disk.seen \/ Lost(e))

\* Earn is handed every event billing applied (drainAfterCommit: "an Earn
\* failure leaves the row durable for the next pass").
EarnEventually ==
    \A e \in Events : (EarnWants(e) /\ e \in disk.seen) ~> (e \in handed)
=============================================================================
