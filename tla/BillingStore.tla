---------------------------- MODULE BillingStore ----------------------------
(***************************************************************************)
(* The files behind billing, seen as one value, for one Stripe customer:   *)
(*   cust     billing/store.ts: the customer row                           *)
(*   exp      license.ts: the expiry of every licence issued, in order; a  *)
(*            licence is known by its place in this sequence               *)
(*   revoked  license.ts: the licences revoked                             *)
(*   ptr, marker   billing/store.ts: the pending-checkout pointer and the  *)
(*            checkout-session markers                                     *)
(*   seen     billing/store.ts: the webhook events remembered as applied   *)
(*   outbox   billing/after-commit-outbox.ts: each event's row, if any     *)
(*                                                                         *)
(* Every write replaces one file, and the process may die between any two. *)
(* So an operator below maps a trail to a trail: the images the disk has   *)
(* gone through since the code last awaited, the current one first.        *)
(***************************************************************************)
EXTENDS Integers, FiniteSets, Sequences

CONSTANTS
    Sessions,       \* one-off checkout sessions
    Events,         \* webhook event ids
    Facts,          \* what Stripe says in each event
    NoEvent,
    EarnOn,         \* whether the hub runs an Earn programme
    Grace,          \* policy.graceDays
    MaxPending      \* MAX_PENDING

NoTime == 0
NoLicence == 0
NoSession == "none"

Kinds == {"purchase", "subscribe", "paid", "failed", "status", "charge", "refund", "dispute"}

\* An event names the session it is about, the period its invoice bills and
\* the charge it carries.
EventFacts == [kind : Kinds, session : Sessions \cup {NoSession},
               start : Nat, end : Nat, charge : STRING]

\* EARN_HOOK_TYPES
EarnWants(e) == EarnOn /\ Facts[e].kind # "charge"

ASSUME BillingAssumption ==
    /\ IsFiniteSet(Events) /\ IsFiniteSet(Sessions)
    /\ NoEvent \notin Events /\ NoSession \notin Sessions
    /\ Facts \in [Events -> EventFacts]
    /\ \A e \in Events : Facts[e].kind = "purchase" => Facts[e].session # NoSession
    /\ EarnOn \in BOOLEAN
    /\ Grace \in Nat /\ MaxPending \in Nat \ {0}

Disk(tr) == tr[1]

Write(tr, image) == <<image>> \o tr

-----------------------------------------------------------------------------
(* customers: times are 0 where the row has none *)

NoCustomer ==
    [lic |-> NoLicence, sub |-> FALSE, paid |-> NoTime, unpaid |-> NoTime,
     ends |-> NoTime, charges |-> {}, welcomed |-> FALSE]

Customer(lic, sub) == [NoCustomer EXCEPT !.lic = lic, !.sub = sub]

PutCustomer(tr, rec) == Write(tr, [Disk(tr) EXCEPT !.cust = rec])

-----------------------------------------------------------------------------
(* licences *)

IssueUntil(tr, t) == Write(tr, [Disk(tr) EXCEPT !.exp = Append(@, t)])

\* Mutant: a revoked licence is extended too.
SetExpiryAnyway(tr, lic, t) == Write(tr, [Disk(tr) EXCEPT !.exp[lic] = t])

\* setExpiry leaves a revoked licence alone.
SetExpiry(tr, lic, t) ==
    IF lic \in Disk(tr).revoked THEN tr ELSE Write(tr, [Disk(tr) EXCEPT !.exp[lic] = t])

Revoke(tr, lic) == Write(tr, [Disk(tr) EXCEPT !.revoked = @ \cup {lic}])

-----------------------------------------------------------------------------
(* checkout sessions *)

NoMarker == [status |-> "none", target |-> NoTime, lic |-> NoLicence]

PutPending(tr, s) == Write(tr, [Disk(tr) EXCEPT !.ptr = s])

ClearPending(tr, s) ==
    IF Disk(tr).ptr = s THEN Write(tr, [Disk(tr) EXCEPT !.ptr = NoSession]) ELSE tr

\* Mutant: a replay is claimed again, with the target it computed.
ClaimAgain(tr, s, target, lic) ==
    Write(tr, [Disk(tr) EXCEPT
        !.marker[s] = [status |-> "pending", target |-> target, lic |-> lic]])

\* The marker of a session already claimed is the authority.
ClaimCheckoutSession(tr, s, target, lic) ==
    IF Disk(tr).marker[s] # NoMarker THEN tr
    ELSE Write(tr, [Disk(tr) EXCEPT
            !.marker[s] = [status |-> "pending", target |-> target, lic |-> lic]])

PutCheckoutSession(tr, s, status, lic) ==
    Write(tr, [Disk(tr) EXCEPT !.marker[s].status = status, !.marker[s].lic = lic])

-----------------------------------------------------------------------------
(* seen events *)

MarkSeen(tr, e) == Write(tr, [Disk(tr) EXCEPT !.seen = @ \cup {e}])

-----------------------------------------------------------------------------
(* the Earn outbox *)

Rows(image) == {e \in Events : image.outbox[e] # "none"}

Stageable(image, e) == image.outbox[e] # "none" \/ Cardinality(Rows(image)) < MaxPending

Stage(tr, e) ==
    IF Disk(tr).outbox[e] # "none" THEN tr
    ELSE Write(tr, [Disk(tr) EXCEPT !.outbox[e] = "staged"])

\* A row already handed on cannot be committed: the reply is a 500.
Commit(tr, e) ==
    IF Disk(tr).outbox[e] # "staged" THEN tr
    ELSE Write(tr, [Disk(tr) EXCEPT !.outbox[e] = "committed"])

Complete(tr, e) == Write(tr, [Disk(tr) EXCEPT !.outbox[e] = "none"])

\* Mutant: every row staged is handed on.
ReadyAsStaged(image) == Rows(image)

\* A row is handed on once billing has applied its event.
Ready(image) == {e \in Rows(image) : image.outbox[e] = "committed" \/ e \in image.seen}
=============================================================================
