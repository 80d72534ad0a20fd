--------------------------- MODULE HostedCheckout ---------------------------
(***************************************************************************)
(* Buying managed hosting, up to the paid reservation: checkouts of        *)
(* software and hosting together (billing/launch.ts), a customer's own     *)
(* hosting checkout, and the reservations both make (hosting/service.ts,   *)
(* hosting/store.ts).  What becomes of a paid row is Hosting's subject,    *)
(* and so is a customer whose software licence has lapsed.                 *)
(*                                                                         *)
(* A mixed attempt is named by its intent; a direct checkout by its row.   *)
(* Code between two awaits is one step; a crash may fall between two file  *)
(* writes of a step, and ends every request in flight.                     *)
(***************************************************************************)
EXTENDS Naturals, Sequences, FiniteSets

CONSTANTS
    Attempts, Licences,   \* browser attempts of mixed checkouts; licences presented
    Lic,                  \* attempt -> licence it presents, or NoLicence
    Payer,                \* attempt -> the Stripe customer who would pay it
    Customers, Directs,   \* who uses a checkout of their own; requests of these
    NoLicence,
    Hold,                 \* minutes of a reservation, and of its session
    MaxPending, Ceiling,  \* anonymous checkouts, rows the provider budget covers
    MaxNow, MaxRows       \* bounds

CheckoutAssumption ==
    /\ Lic \in [Attempts -> Licences \cup {NoLicence}] /\ NoLicence \notin Licences
    /\ Hold \in Nat \ {0} /\ MaxPending \in Nat /\ Ceiling \in Nat /\ MaxNow \in Nat /\ MaxRows \in Nat

VARIABLES
    now,
    rows,      \* hosting-db: the instances in the order they were made
    intents,   \* attempt -> its persisted intent, or NoIntent
    claims,    \* licence -> the attempt that holds it, or NoClaim
    session,   \* attempt -> Stripe's session: "none", "open", "paid", "expired"
    direct,    \* row -> the same of a direct checkout, with its end
    applied,   \* subscriptions whose payment billing has applied
    terminal,  \* mixed subscriptions billing knows to have ended
    role,      \* customer -> the hosting subscription of the role record
    cancelled, \* subscriptions queued for cancellation
    req,       \* attempt -> the request in flight
    hook,      \* attempt -> the webhook of its session in flight
    dreq       \* direct requests in flight

vars == <<now, rows, intents, claims, session, direct, applied, terminal, role,
          cancelled, req, hook, dreq>>
files == <<rows, intents, claims>>
books == <<applied, terminal, role, cancelled>>

NoIntent == [is |-> FALSE]
NoClaim == [is |-> FALSE]
NoSub == <<"none", 0>>
Idle == [pc |-> "idle"]
Closed == [st |-> "none", until |-> 0]
Bundle(a) == <<"bundle", a>>
Of(c) == <<"customer", c>>
People == Customers \cup {Payer[a] : a \in Attempts}

Init ==
    /\ now = 0 /\ rows = <<>>
    /\ intents = [a \in Attempts |-> NoIntent] /\ claims = [l \in Licences |-> NoClaim]
    /\ session = [a \in Attempts |-> "none"] /\ direct = [k \in 1..MaxRows |-> Closed]
    /\ applied = {} /\ terminal = {} /\ role = [c \in People |-> NoSub] /\ cancelled = {}
    /\ req = [a \in Attempts |-> Idle] /\ hook = [a \in Attempts |-> Idle]
    /\ dreq = [d \in Directs |-> Idle]

\* The process dies and comes back: only the files are left.
Died ==
    /\ req' = [a \in Attempts |-> Idle] /\ hook' = [a \in Attempts |-> Idle]
    /\ dreq' = [d \in Directs |-> Idle]

-----------------------------------------------------------------------------
(* reservations: HostingStore, and the limits a checkout must pass *)

Active(rs) == {k \in DOMAIN rs : rs[k].stage # "deleted"}
ActiveOf(rs, o) == {k \in Active(rs) : rs[k].owner = o}

Row(o, until) ==
    [owner |-> o, stage |-> "ordered", until |-> until, quoted |-> TRUE,
     mixed |-> FALSE, url |-> FALSE, sub |-> NoSub, why |-> ""]
\* reserveInstance wrote it, the quote and the end of the hold are not yet there.
HalfRow(o) == [Row(o, 0) EXCEPT !.quoted = FALSE]

CanReserve(o) == ActiveOf(rows, o) = {} /\ Len(rows) < MaxRows

\* expireCheckoutReservations(): a mixed checkout is released by Stripe's word only.
Overdue(r, t) == r.stage = "ordered" /\ ~r.mixed /\ r.until # 0 /\ t >= r.until /\ r.sub = NoSub
Swept(rs, t) ==
    [k \in DOMAIN rs |-> IF Overdue(rs[k], t) THEN [rs[k] EXCEPT !.stage = "deleted", !.until = 0]
                         ELSE rs[k]]

\* costCeilingRefusalWithQuote(): a row without a quote makes the projection unknown.
Affordable(rs) ==
    (\A k \in Active(rs) : rs[k].quoted) /\ Cardinality(Active(rs)) < Ceiling
Pending(rs, t) ==
    {k \in DOMAIN rs : rs[k].stage = "ordered" /\ rs[k].until > t
                       /\ \E a \in Attempts : rs[k].owner = Bundle(a)}
Admits(rs, t) == Cardinality(Pending(rs, t)) < MaxPending

-----------------------------------------------------------------------------
(* createCheckout() of a mixed attempt *)

Sealed(a) == intents[a].is /\ intents[a].sealed
Retryable(a) == intents[a].is => ~intents[a].sealed /\ now < intents[a].until

\* The claim of a licence: a checkout that was paid and applied, or one proved
\* expired, makes room for the next.
Over(a) ==
    /\ intents[a].is
    /\ \/ intents[a].sess /\ <<"mixed", a>> \in applied
       \/ intents[a].sealed
Claims(a) ==
    IF Lic[a] = NoLicence THEN claims' = claims
    ELSE LET c == claims[Lic[a]] IN
         /\ c.is => c.id = a \/ Over(c.id)
         /\ claims' = [claims EXCEPT ![Lic[a]] = [is |-> TRUE, id |-> a]]

\* A new attempt asks for prices; what is missing for hosting refuses it first.
Begins(a) ==
    /\ req[a] = Idle /\ ~intents[a].is
    /\ Claims(a) /\ req' \in {req, [req EXCEPT ![a] = [pc |-> "prove"]]}
    /\ UNCHANGED <<now, rows, intents, session, direct, books, hook, dreq>>

\* bindSplitCheckout() and the POST under the key of the attempt.
Bound(rs, k) == [rs EXCEPT ![k].mixed = TRUE]
Posting(i) == [pc |-> "post", intent |-> i]

Retries(a) ==
    /\ req[a] = Idle /\ intents[a].is /\ Retryable(a)
    /\ Claims(a)
    /\ \/ intents[a].url /\ UNCHANGED <<rows, req>>
       \/ ~intents[a].url /\ rows[intents[a].res].stage # "ordered" /\ UNCHANGED <<rows, req>>
       \/ /\ ~intents[a].url /\ rows[intents[a].res].stage = "ordered"
          /\ rows' = Bound(rows, intents[a].res)
          /\ req' = [req EXCEPT ![a] = Posting(intents[a])]
    /\ UNCHANGED <<now, intents, session, direct, books, hook, dreq>>

\* The intent is written, then the row bound to it, then Stripe is asked.
Intends(a, rs, k) ==
    LET i == [is |-> TRUE, res |-> k, until |-> rs[k].until, sess |-> FALSE,
              url |-> FALSE, sealed |-> FALSE]
    IN  \/ /\ rows' = Bound(rs, k) /\ intents' = [intents EXCEPT ![a] = i]
           /\ req' = [req EXCEPT ![a] = Posting(i)] /\ UNCHANGED <<hook, dreq>>
        \/ Died /\ rows' = rs /\ intents' \in {intents, [intents EXCEPT ![a] = i]}

\* reserveSplitCheckout() up to the provider's price list.
Prepares(a) ==
    /\ req[a].pc = "prove"
    /\ LET rs == Swept(rows, now)  mine == ActiveOf(rs, Bundle(a)) IN
        \/ \E k \in mine : /\ rs[k].stage = "ordered" /\ rs[k].until > now
                           /\ Intends(a, rs, k)
        \/ /\ mine = {} /\ Admits(rs, now)
           /\ Lic[a] # NoLicence => ActiveOf(rs, Of(Payer[a])) = {}
           /\ rows' = rs /\ req' = [req EXCEPT ![a] = [pc |-> "quote", at |-> now]]
           /\ UNCHANGED <<intents, hook, dreq>>
        \/ /\ rows' = rs /\ req' = [req EXCEPT ![a] = Idle]
           /\ UNCHANGED <<intents, hook, dreq>>
    /\ UNCHANGED <<now, claims, session, direct, books>>

\* ... and after it: the limits again, then the reservation.
Admitted(a) == Admits(rows, req[a].at) /\ Affordable(rows) /\ CanReserve(Bundle(a))
Reserves(a) ==
    /\ req[a].pc = "quote" /\ Admitted(a)
    /\ \/ Intends(a, Append(rows, Row(Bundle(a), req[a].at + Hold)), Len(rows) + 1)
       \/ Died /\ rows' = Append(rows, HalfRow(Bundle(a))) /\ UNCHANGED intents
    /\ UNCHANGED <<now, claims, session, direct, books>>

\* Prices cannot be verified, the limits refuse, or the POST fails or is lost.
GivesUp(a) ==
    /\ req[a] # Idle /\ req' = [req EXCEPT ![a] = Idle]
    /\ UNCHANGED <<now, files, session, direct, books, hook, dreq>>

\* Stripe makes one session for a key and repeats it when asked again.
Opened(a) ==
    /\ req[a].pc = "post" /\ session[a] = "none" /\ now < req[a].intent.until
    /\ session' = [session EXCEPT ![a] = "open"]
    /\ UNCHANGED <<now, files, direct, books, req, hook, dreq>>
Answered(a) ==
    /\ req[a].pc = "post" /\ session[a] # "none"
    /\ intents' = [intents EXCEPT ![a] = [req[a].intent EXCEPT !.sess = TRUE, !.url = TRUE]]
    /\ req' = [req EXCEPT ![a] = Idle]
    /\ UNCHANGED <<now, rows, claims, session, direct, books, hook, dreq>>

-----------------------------------------------------------------------------
(* a customer's own checkout: checkoutUrl() and submitStripeCheckout() *)

DirectBegins(d, c) ==
    /\ dreq[d] = Idle
    /\ \/ ActiveOf(rows, Of(c)) = {} /\ Affordable(rows)
          /\ dreq' = [dreq EXCEPT ![d] = [pc |-> "price", cust |-> c, at |-> now]]
       \/ \E k \in ActiveOf(rows, Of(c)) :
            /\ rows[k].stage = "ordered" /\ now < rows[k].until
            /\ ~rows[k].mixed /\ ~rows[k].url
            /\ dreq' = [dreq EXCEPT ![d] = [pc |-> "post", row |-> k, until |-> rows[k].until]]
    /\ UNCHANGED <<now, files, session, direct, books, req, hook>>

DirectReserves(d) ==
    /\ dreq[d].pc = "price" /\ Affordable(rows) /\ CanReserve(Of(dreq[d].cust))
    /\ LET k == Len(rows) + 1  until == dreq[d].at + Hold IN
        \/ /\ rows' = Append(rows, Row(Of(dreq[d].cust), until))
           /\ dreq' = [dreq EXCEPT ![d] = [pc |-> "post", row |-> k, until |-> until]]
           /\ UNCHANGED <<req, hook>>
        \/ Died /\ rows' \in {Append(rows, HalfRow(Of(dreq[d].cust))),
                              Append(rows, Row(Of(dreq[d].cust), until))}
    /\ UNCHANGED <<now, intents, claims, session, direct, books>>

DirectGivesUp(d) ==
    /\ dreq[d] # Idle /\ dreq' = [dreq EXCEPT ![d] = Idle]
    /\ UNCHANGED <<now, files, session, direct, books, req, hook>>

DirectOpened(d) ==
    /\ dreq[d].pc = "post" /\ direct[dreq[d].row].st = "none" /\ now < dreq[d].until
    /\ direct' = [direct EXCEPT ![dreq[d].row] = [st |-> "open", until |-> dreq[d].until]]
    /\ UNCHANGED <<now, files, session, books, req, hook, dreq>>

\* The row is read again: a refusal closes it, an answer stores the link.
DirectAnswered(d) ==
    /\ dreq[d].pc = "post" /\ dreq' = [dreq EXCEPT ![d] = Idle]
    /\ LET k == dreq[d].row IN
        \/ /\ direct[k].st # "none"
           /\ rows' = IF rows[k].stage = "ordered" THEN [rows EXCEPT ![k].url = TRUE] ELSE rows
        \/ rows' = IF rows[k].stage = "ordered" /\ rows[k].sub = NoSub
                   THEN [rows EXCEPT ![k].stage = "deleted", ![k].until = 0] ELSE rows
    /\ UNCHANGED <<now, intents, claims, session, direct, books, req, hook>>

-----------------------------------------------------------------------------
(* what billing learns *)

\* reconcileOwner(): the subscription of the role record is bound to the row,
\* and one that has no row is refused by a deleted row and cancelled.
Firsts(rs, o) == {k \in DOMAIN rs : rs[k].owner = o /\ rs[k].stage = "deleted"
                     /\ \A j \in 1..(k - 1) : rs[j].owner = o => rs[j].stage # "deleted"}
Reconciles(rs, c, sub) ==
    LET mine == ActiveOf(rs, Of(c)) IN
    \/ \E k \in mine : /\ rows' = IF rs[k].sub = sub THEN rs
                                  ELSE [rs EXCEPT ![k].sub = sub, ![k].until = 0]
                       /\ cancelled' = cancelled
    \/ /\ mine = {} /\ \E k \in Firsts(rs, Of(c)) : rs[k].sub = sub
       /\ rows' = rs /\ cancelled' = cancelled
    \/ /\ mine = {} /\ ~\E k \in Firsts(rs, Of(c)) : rs[k].sub = sub
       /\ Len(rs) < MaxRows
       /\ rows' = Append(rs, [HalfRow(Of(c)) EXCEPT !.stage = "deleted", !.sub = sub, !.why = "unreserved"])
       /\ cancelled' = cancelled \cup {sub}

\* A payment of a direct checkout reaches billing.
DirectPaid(k) ==
    /\ direct[k].st = "paid" /\ <<"direct", k>> \notin applied
    /\ applied' = applied \cup {<<"direct", k>>}
    /\ LET c == rows[k].owner[2] IN
        /\ role' = [role EXCEPT ![c] = <<"direct", k>>]
        /\ Reconciles(rows, c, <<"direct", k>>)
    /\ UNCHANGED <<now, intents, claims, session, direct, terminal, req, hook, dreq>>

\* acceptBundleReservation(): adoption, once or again.
Adoptable(a, k) ==
    rows[k].owner = Bundle(a) /\ rows[k].stage = "ordered" /\ ActiveOf(rows, Of(Payer[a])) = {}
Adopted(a, k) == [rows EXCEPT ![k].owner = Of(Payer[a]), ![k].sub = <<"mixed", a>>]
IsAdopted(a, k) == rows[k].owner = Of(Payer[a]) /\ rows[k].sub = <<"mixed", a>>
Accepts(a, k) ==
    \/ Adoptable(a, k) /\ rows' = Adopted(a, k)
    \/ IsAdopted(a, k) /\ rows' = rows

\* The webhook of a paid session: the intent learns its session, with a POST
\* whose answer it awaits unless the intent knows it already.
PaidBegins(a) ==
    /\ hook[a] = Idle /\ session[a] = "paid" /\ <<"mixed", a>> \notin applied
    /\ a \notin terminal /\ intents[a].is /\ ~Sealed(a)
    /\ hook' = [hook EXCEPT ![a] = [pc |-> "paid", intent |-> intents[a]]]
    /\ UNCHANGED <<now, files, session, direct, books, req, dreq>>
PaidAccepted(a) ==
    /\ hook[a].pc = "paid"
    /\ IF intents[a].sess THEN intents' = intents
       ELSE intents' = [intents EXCEPT ![a] = [hook[a].intent EXCEPT !.sess = TRUE]]
    /\ \/ Accepts(a, intents[a].res) /\ hook' = [hook EXCEPT ![a] = [pc |-> "software"]]
       \/ ~Adoptable(a, intents[a].res) /\ ~IsAdopted(a, intents[a].res)
          /\ rows' = rows /\ hook' = [hook EXCEPT ![a] = Idle]
    /\ UNCHANGED <<now, claims, session, direct, books, req, dreq>>

\* Software, then hosting, are applied: charge, role record, row.
PaidApplied(a) ==
    /\ hook[a].pc = "software" /\ hook' = [hook EXCEPT ![a] = Idle]
    /\ applied' = applied \cup {<<"mixed", a>>}
    /\ role' = [role EXCEPT ![Payer[a]] = <<"mixed", a>>]
    /\ Reconciles(rows, Payer[a], <<"mixed", a>>)
    /\ UNCHANGED <<now, intents, claims, session, direct, terminal, req, dreq>>

\* The subscription ended: recorded first, then the reservation is closed.
Ended(a) ==
    /\ hook[a] = Idle /\ session[a] = "paid" /\ a \notin terminal /\ intents[a].is /\ ~Sealed(a)
    /\ terminal' = terminal \cup {a}
    /\ LET k == intents[a].res
           shut(rs) == [rs EXCEPT ![k].stage = "deleted", ![k].until = 0]
       IN  rows' = IF Adoptable(a, k) THEN shut(Adopted(a, k))
                   ELSE IF IsAdopted(a, k) /\ rows[k].stage = "ordered" THEN shut(rows) ELSE rows
    /\ UNCHANGED <<now, intents, claims, session, direct, applied, role, cancelled, req, hook, dreq>>

\* expireSession(): Stripe's proof, the intent read, the lines asked for ...
ExpiryBegins(a) ==
    /\ hook[a] = Idle /\ session[a] = "expired" /\ intents[a].is
    /\ hook' = [hook EXCEPT ![a] = [pc |-> "expiry", intent |-> intents[a]]]
    /\ UNCHANGED <<now, files, session, direct, books, req, dreq>>

\* ... then the reservation released, the intent sealed, the claim dropped.
Releasable(a, k) ==
    /\ rows[k].owner = Bundle(a) /\ rows[k].sub = NoSub /\ rows[k].mixed
    /\ rows[k].stage = "ordered" \/ rows[k].why = "expired"
Released(k) == [rows EXCEPT ![k].stage = "deleted", ![k].until = 0, ![k].why = "expired"]
Seal(a) == [intents EXCEPT ![a] = [hook[a].intent EXCEPT !.sess = TRUE, !.sealed = TRUE]]
Unclaimed(a) ==
    [l \in Licences |-> IF Lic[a] = l /\ claims[l].is /\ claims[l].id = a THEN NoClaim ELSE claims[l]]
ExpirySeals(a) ==
    /\ hook[a].pc = "expiry"
    /\ LET k == hook[a].intent.res IN
        \/ /\ Releasable(a, k) /\ rows' = Released(k) /\ intents' = Seal(a) /\ claims' = Unclaimed(a)
           /\ hook' = [hook EXCEPT ![a] = Idle] /\ UNCHANGED <<req, dreq>>
        \/ /\ Releasable(a, k) /\ rows' = Released(k) /\ intents' \in {intents, Seal(a)}
           /\ Died /\ claims' = claims
        \/ ~Releasable(a, k) /\ hook' = [hook EXCEPT ![a] = Idle] /\ UNCHANGED <<files, req, dreq>>
    /\ UNCHANGED <<now, session, direct, books>>

HookFails(a) ==
    /\ hook[a] # Idle /\ hook' = [hook EXCEPT ![a] = Idle]
    /\ UNCHANGED <<now, files, session, direct, books, req, dreq>>

-----------------------------------------------------------------------------
(* the environment *)

\* reconcileAll(): each tick expires reservations and derives every owner.
Tick ==
    /\ rows' = Swept(rows, now)
    /\ UNCHANGED <<now, intents, claims, session, direct, books, req, hook, dreq>>
Derives(c) ==
    /\ role[c] # NoSub /\ Reconciles(rows, c, role[c])
    /\ UNCHANGED <<now, intents, claims, session, direct, applied, terminal, role, req, hook, dreq>>

\* An adopted or bound row is served and, one day, deleted.
Served(k) ==
    /\ k \in DOMAIN rows /\ rows[k].stage = "ordered" /\ rows[k].sub # NoSub
    /\ rows' = [rows EXCEPT ![k].stage = "served"]
    /\ UNCHANGED <<now, intents, claims, session, direct, books, req, hook, dreq>>
Deleted(k) ==
    /\ k \in DOMAIN rows /\ rows[k].stage = "served"
    /\ rows' = [rows EXCEPT ![k].stage = "deleted"]
    /\ UNCHANGED <<now, intents, claims, session, direct, books, req, hook, dreq>>

Pays(a) ==
    /\ session[a] = "open" /\ session' = [session EXCEPT ![a] = "paid"]
    /\ UNCHANGED <<now, files, direct, books, req, hook, dreq>>
Expires(a) ==
    /\ session[a] = "open" /\ now >= intents[a].until
    /\ session' = [session EXCEPT ![a] = "expired"]
    /\ UNCHANGED <<now, files, direct, books, req, hook, dreq>>
DirectTurns(k) ==
    /\ direct[k].st = "open"
    /\ \/ direct' = [direct EXCEPT ![k].st = "paid"]
       \/ now >= direct[k].until /\ direct' = [direct EXCEPT ![k].st = "expired"]
    /\ UNCHANGED <<now, files, session, books, req, hook, dreq>>
Crash == Died /\ UNCHANGED <<now, files, session, direct, books>>
Clock ==
    /\ now < MaxNow /\ now' = now + 1
    /\ UNCHANGED <<files, session, direct, books, req, hook, dreq>>

Next ==
    \/ \E a \in Attempts :
        \/ Begins(a) \/ Retries(a) \/ Prepares(a) \/ Reserves(a) \/ GivesUp(a)
        \/ Opened(a) \/ Answered(a) \/ PaidBegins(a) \/ PaidAccepted(a) \/ PaidApplied(a)
        \/ Ended(a) \/ ExpiryBegins(a) \/ ExpirySeals(a) \/ HookFails(a) \/ Pays(a) \/ Expires(a)
    \/ \E d \in Directs : \/ DirectReserves(d) \/ DirectGivesUp(d) \/ DirectOpened(d)
                          \/ DirectAnswered(d) \/ \E c \in Customers : DirectBegins(d, c)
    \/ \E k \in 1..MaxRows : DirectPaid(k) \/ DirectTurns(k) \/ Served(k) \/ Deleted(k)
    \/ \E c \in People : Derives(c)
    \/ Tick \/ Crash \/ Clock

Spec == Init /\ [][Next]_vars
-----------------------------------------------------------------------------
\* One active instance per owner; the provider budget is kept although prices
\* are awaited between the check and the reservation.
RowsAreOwned ==
    /\ \A o \in {rows[k].owner : k \in Active(rows)} : Cardinality(ActiveOf(rows, o)) = 1
    /\ Cardinality(Active(rows)) <= Ceiling

\* A mixed checkout that can still be paid, or was paid and not yet adopted,
\* keeps its reservation: clock, crash and other requests do not take it.
PaidKeepsItsRow ==
    \A a \in Attempts : session[a] \in {"open", "paid"} =>
        /\ intents[a].is
        /\ LET r == rows[intents[a].res] IN r.owner = Bundle(a) => r.stage = "ordered" /\ r.mixed

\* What an intent says is over is over: Stripe can no longer take the money.
SealedIsOver ==
    \A a \in Attempts : Sealed(a) => session[a] = "expired" /\ rows[intents[a].res].stage = "deleted"

\* A licence has one checkout at a time that could take money for it or took
\* money that is not applied.
Unsettled(a) == session[a] = "open" \/ (session[a] = "paid" /\ <<"mixed", a>> \notin applied)
OneCheckoutEach ==
    \A a, b \in Attempts :
        Lic[a] = Lic[b] /\ Lic[a] # NoLicence /\ Unsettled(a) /\ Unsettled(b) => a = b

CheckoutsHold == RowsAreOwned /\ PaidKeepsItsRow /\ SealedIsOver /\ OneCheckoutEach

\* These two fail, see the README: a refused payment is refused and cancelled
\* once (hosting/service.ts), and a seal is not taken back (launch.ts).
RejectedOnce ==
    \A i, j \in DOMAIN rows :
        rows[i].why = "unreserved" /\ rows[j].why = "unreserved" /\ rows[i].sub = rows[j].sub
        => i = j
SealStays == [][\A a \in Attempts : Sealed(a) => Sealed(a)']_vars
=============================================================================
