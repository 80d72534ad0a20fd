---------------------------- MODULE EarnReferrals ---------------------------
(* Commission on referred sales (earn-stripe.ts: handleEvent, invoice,       *)
(* checkoutPurchase, adjustInvoice, activate, the reviewed reconciliation).  *)
(* Everything that waits for Stripe is one serial queue; events come late,   *)
(* twice and in any order, any step may fail, and Stripe moves on between    *)
(* two reads.  An event is remembered only when it was handled to the end.   *)
(*                                                                           *)
(* One member, who has a promotion and may get others.  A sale is a paid     *)
(* invoice or a one-time checkout, of a price of two; a rate of two is all   *)
(* of it.                                                                    *)
EXTENDS Integers, FiniteSets

CONSTANTS Invoices, Checkouts,    \* the sales
          Rates,
          MaxPromo, MaxSales      \* bounds: promotions the member activates, sales made

VARIABLES sale,         \* Stripe: promotion (0 before the sale), sold before the profile
                        \* named it (early), self, refunded, dispute
          sent,         \* events Stripe created
          promotion, history,    \* the profile: promotion now, and those before
          created,      \* promotions created at Stripe
          rate,         \* commissionPercent
          rows,         \* recorded sales: made, rate, refunded, disputed
          entries,      \* the entries of a sale: their sum, and how many are earnings
          seen,         \* events remembered
          worker        \* step, event, sale, what was read

vars == <<sale, sent, promotion, history, created, rate, rows, entries, seen, worker>>

Sales == Invoices \cup Checkouts
Price == 2
NoRow == [made |-> FALSE, rate |-> 0, refunded |-> 0, disputed |-> FALSE]
NoEvent == <<"none", "none", 0>>
Idle == [pc |-> "idle", event |-> NoEvent, sale |-> "none", refunded |-> 0, disputed |-> FALSE, rate |-> 0]

Init ==
    /\ sale = [s \in Sales |-> [promo |-> 0, early |-> FALSE, self |-> FALSE, refunded |-> 0,
                                 dispute |-> "none"]]
    /\ sent = {} /\ promotion = 1 /\ history = {} /\ created = 1
    /\ rate \in Rates /\ rows = [s \in Sales |-> NoRow] /\ entries = [s \in Sales |-> [cents |-> 0, earnings |-> 0]] /\ seen = {}
    /\ worker = Idle

Published == {promotion} \cup history
Stripe == <<sale, sent>>
Profile == <<promotion, history, created>>
Book == <<rows, entries, seen>>

\* What a row earns after refunds and disputes.
Commission(r) == (Price * r.rate) \div 2
Clawed(r) == IF r.disputed THEN Commission(r) ELSE (Commission(r) * r.refunded) \div Price
Net(r) == Commission(r) - Clawed(r)
Change(s, kind, cents) ==
    [entries EXCEPT ![s].cents = @ + cents,
                    ![s].earnings = @ + (IF kind = "earning" /\ cents # 0 THEN 1 ELSE 0)]

-----------------------------------------------------------------------------
(* Stripe and the operator *)
\* A code sells from the moment Stripe has it, before the profile names it.
Emits(kind, s) == sent' = sent \cup {<<kind, s, 1 + Cardinality({e \in sent : e[2] = s})>>}
Sells(s, self) ==
    /\ sale[s].promo = 0 /\ Cardinality({t \in Sales : sale[t].promo # 0}) < MaxSales
    /\ \E p \in 1..created :
        sale' = [sale EXCEPT ![s].promo = p, ![s].early = p \notin Published, ![s].self = self]
    /\ Emits("paid", s) /\ UNCHANGED <<Profile, rate, Book, worker>>
Refunds(s) ==
    /\ sale[s].promo # 0 /\ sale[s].refunded < Price
    /\ sale' = [sale EXCEPT ![s].refunded = @ + 1]
    /\ Emits("charge", s) /\ UNCHANGED <<Profile, rate, Book, worker>>
Disputes(s, how) ==
    /\ sale[s].promo # 0
    /\ sale[s].dispute = IF how = "open" THEN "none" ELSE "open"
    /\ sale' = [sale EXCEPT ![s].dispute = how]
    /\ Emits("charge", s) /\ UNCHANGED <<Profile, rate, Book, worker>>
Configure(r) == rate' = r /\ UNCHANGED <<Stripe, Profile, Book, worker>>

-----------------------------------------------------------------------------
(* activate(): a new promotion is created, or one found that an activation   *)
(* left behind, and proved; the old one is retired, the profile written last *)
Activates ==
    /\ worker = Idle /\ worker' = [Idle EXCEPT !.pc = "activate"]
    /\ \/ created' = created + 1 /\ created < MaxPromo
       \/ created' = created /\ created \notin Published
    /\ UNCHANGED <<Stripe, promotion, history, rate, Book>>
Activated ==
    /\ worker.pc = "activate" /\ worker' = Idle
    /\ promotion' = created /\ history' = history \cup {promotion}
    /\ UNCHANGED <<Stripe, created, rate, Book>>

(* handleEvent() *)
Attributed(s) == sale[s].promo \in Published /\ ~sale[s].self
Recorded(s) == rows[s].made

Remember(ev) == seen' = seen \cup {ev}
Takes(ev) ==
    /\ worker = Idle /\ ev \in sent \ seen
    /\ LET s == ev[2]
           unknown == ev[1] = "charge" /\ s \in Checkouts /\ ~Recorded(s)
       IN  IF unknown   \* the charge of a checkout names no invoice
           THEN Remember(ev) /\ UNCHANGED worker
           ELSE /\ worker' = [Idle EXCEPT !.pc = IF Recorded(s) THEN "read" ELSE "prove",
                                          !.event = ev, !.sale = s]
                /\ UNCHANGED seen
    /\ UNCHANGED <<Stripe, Profile, rate, rows, entries>>

\* invoice() and checkoutPurchase(): proved, then recorded once at today's rate.
Records ==
    /\ worker.pc = "prove"
    /\ LET s == worker.sale IN
        IF Attributed(s)
        THEN /\ rows' = [rows EXCEPT ![s] = [NoRow EXCEPT !.made = TRUE, !.rate = rate]]
             /\ entries' = Change(s, "earning", Commission(rows'[s]))
             /\ worker' = [worker EXCEPT !.pc = "read"] /\ UNCHANGED seen
        ELSE /\ IF worker.event = NoEvent THEN UNCHANGED seen ELSE Remember(worker.event)
             /\ worker' = Idle /\ UNCHANGED <<rows, entries>>
    /\ UNCHANGED <<Stripe, Profile, rate>>

\* adjustInvoice(): refunds and disputes as Stripe has them, against the row.
ReadsCharge ==
    /\ worker.pc = "read"
    /\ LET c == sale[worker.sale] IN
       worker' = [worker EXCEPT !.pc = IF c.dispute = "none" THEN "adjust" ELSE "disputes",
                                !.refunded = c.refunded, !.disputed = FALSE]
    /\ UNCHANGED <<Stripe, Profile, rate, Book>>
ReadsDisputes ==
    /\ worker.pc = "disputes"
    /\ worker' = [worker EXCEPT !.pc = "adjust", !.disputed = sale[worker.sale].dispute # "won"]
    /\ UNCHANGED <<Stripe, Profile, rate, Book>>
Adjusted(s) == [rows[s] EXCEPT !.refunded = worker.refunded, !.disputed = worker.disputed]
Adjusts ==
    /\ worker.pc = "adjust"
    /\ LET s == worker.sale IN
        /\ rows' = [rows EXCEPT ![s] = Adjusted(s)]
        /\ entries' = Change(s, "adjustment", Net(Adjusted(s)) - Net(rows[s]))
    /\ worker' = [worker EXCEPT !.pc = IF worker.event = NoEvent THEN "correct" ELSE "done"]
    /\ UNCHANGED <<Stripe, Profile, rate, seen>>
Done ==
    /\ worker.pc = "done"
    /\ Remember(worker.event) /\ worker' = Idle
    /\ UNCHANGED <<Stripe, Profile, rate, rows, entries>>

\* reconcileReferralInvoices() and ...Purchases(): the sale recorded if it was
\* missed, and its rate corrected to the one reviewed, unless that changed.
Reconciles(s) ==
    /\ worker = Idle /\ sale[s].promo # 0
    /\ worker' = [Idle EXCEPT !.pc = IF Recorded(s) THEN "read" ELSE "prove", !.sale = s, !.rate = rate]
    /\ UNCHANGED <<Stripe, Profile, rate, Book>>
Corrects ==
    /\ worker.pc = "correct" /\ worker' = Idle
    /\ IF rate = worker.rate
       THEN LET s == worker.sale
                r == [rows[s] EXCEPT !.rate = worker.rate]
            IN  /\ rows' = [rows EXCEPT ![s] = r]
                /\ entries' = Change(s, "adjustment", Net(r) - Net(rows[s]))
       ELSE UNCHANGED <<rows, entries>>
    /\ UNCHANGED <<Stripe, Profile, rate, seen>>

\* A request fails, or the hub dies: what was written stays.
Fails == worker # Idle /\ worker' = Idle /\ UNCHANGED <<Stripe, Profile, rate, Book>>

Next ==
    \/ Activates \/ Activated \/ Records \/ ReadsCharge \/ ReadsDisputes \/ Adjusts \/ Done
    \/ Corrects \/ Fails
    \/ \E ev \in sent : Takes(ev)
    \/ \E s \in Sales :
        \/ Refunds(s) \/ Reconciles(s)
        \/ \E self \in BOOLEAN : Sells(s, self)
        \/ \E how \in {"open", "won", "lost"} : Disputes(s, how)
    \/ \E r \in Rates : Configure(r)

Spec == Init /\ [][Next]_vars
-----------------------------------------------------------------------------
Owed(s) == sale[s].promo # 0 /\ ~sale[s].self /\ ~sale[s].early

\* Whatever the order and the failures: a sale earns one commission, the books
\* always add up to what the row earns after refunds and disputes, and once every
\* event is handled they pay what Stripe's refunds and disputes leave.  Nothing is
\* earned on one's own purchase, and no published promotion is ever disowned.
\* The third holds for sales through a code the profile named when they were
\* made: an event handled before an activation has written it is foreign.
CommissionMatches ==
    /\ \A s \in Sales :
        /\ entries[s].cents = Net(rows[s])
        /\ entries[s].earnings <= 1
        /\ sale[s].self => ~Recorded(s)
        /\ worker = Idle /\ Owed(s) /\ (\A ev \in sent \ seen : ev[2] # s) =>
              /\ Recorded(s) /\ rows[s].refunded = sale[s].refunded
              /\ entries[s].cents = IF sale[s].dispute \in {"open", "lost"} THEN 0
                    ELSE Commission(rows[s]) - (Commission(rows[s]) * sale[s].refunded) \div Price
    /\ \A s \in Sales : sale[s].promo # 0 /\ ~sale[s].early => sale[s].promo \in Published
=============================================================================
