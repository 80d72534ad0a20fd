------------------------------ MODULE MCBilling ------------------------------
EXTENDS BillingWebhooks, TLC

Symmetry == Permutations(Requests)

About(kind, session, start, end, charge) ==
    [kind |-> kind, session |-> session, start |-> start, end |-> end, charge |-> charge]

\* Everything Stripe may say of one customer: two purchases, a subscription
\* with a period first refused and then paid, and a refund.
AllFacts ==
    [buyA |-> About("purchase", "sA", 0, 0, "chA"),
     buyB |-> About("purchase", "sB", 0, 0, "chB"),
     subscribe |-> About("subscribe", NoSession, 0, 0, ""),
     refused |-> About("failed", NoSession, 1, 3, ""),
     paid |-> About("paid", NoSession, 1, 3, "chI"),
     status |-> About("status", NoSession, 0, 0, ""),
     charged |-> About("charge", NoSession, 0, 0, "chA"),
     refundA |-> About("refund", NoSession, 0, 0, "chA"),
     refundI |-> About("refund", NoSession, 1, 3, "chI"),
     disputeA |-> About("dispute", NoSession, 0, 0, "chA")]

SomeFacts == [e \in Events |-> AllFacts[e]]
=============================================================================
