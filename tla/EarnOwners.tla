----------------------------- MODULE EarnOwners -----------------------------
(* Whose Earn account it is (earn.ts bindOwner and grantDashboard, server.ts  *)
(* earnCustomer and the reviewed link of one partner).  A customer comes in   *)
(* by e-mail session or by licence; every key of a customer must lead to one  *)
(* owner, also when billing learns later that two keys are one customer's.    *)
(*                                                                            *)
(* An owner is named by the key it was first derived from.                    *)
EXTENDS Naturals, FiniteSets

CONSTANTS Accounts,       \* billing records: [email, lic, cus]
          Legacy          \* owners of the time before bindings

VARIABLES customers,      \* billing records there are, all live and with Earn on
          members, bindings, grants,
          link,           \* the reviewed link in progress: [pc, acc, lic, owner]
          answers         \* <<licence, owner, by grant>> as customers were answered

vars == <<customers, members, bindings, grants, link, answers>>

None == <<"none", "">>
NoLink == [pc |-> "none"]
Lics == {a.lic : a \in Accounts}

Init ==
    /\ customers = {} /\ members \in SUBSET Legacy
    /\ bindings = [k \in {} |-> None] /\ grants = [l \in Lics |-> None]
    /\ link = NoLink /\ answers = {}

\* Billing records a purchase.
Purchase(a) ==
    /\ \A b \in customers : b.lic # a.lic
    /\ customers' = customers \cup {a}
    /\ UNCHANGED <<members, bindings, grants, link, answers>>

\* A record without a Stripe customer gets one.
Identified(a, b) ==
    /\ a \in customers /\ a.cus = "" /\ a.lic = b.lic /\ a.email = b.email
    /\ customers' = (customers \ {a}) \cup {b}
    /\ UNCHANGED <<members, bindings, grants, link, answers>>

\* earnBillingKeys(), and the identities a record had before bindings.
Known(recs) == {a \in recs : a.cus # ""}
KeysOf(recs) == {<<"lic", a.lic>> : a \in recs} \cup {<<"cus", a.cus>> : a \in Known(recs)}
PastOf(recs) == UNION {{<<"email", a.email>>, <<"lic", a.lic>>} : a \in recs}

\* boundOwnerFromBindings(), and the members among the identities of old.
BoundTo(keys) == {bindings[k] : k \in keys \cap DOMAIN bindings}
Historical(legacy) == legacy \cap members

\* bindOwner(): anything ambiguous is refused for review.
Agreed(keys, legacy) ==
    /\ Cardinality(BoundTo(keys)) <= 1 /\ Cardinality(Historical(legacy)) <= 1
    /\ BoundTo(keys) # {} /\ Historical(legacy) # {} => BoundTo(keys) = Historical(legacy)
OwnerFor(keys, legacy, preferred) ==
    IF BoundTo(keys) # {} THEN CHOOSE o \in BoundTo(keys) : TRUE
    ELSE IF Historical(legacy) # {} THEN CHOOSE o \in Historical(legacy) : TRUE ELSE preferred
Bind(keys, owner) ==
    bindings' = [k \in DOMAIN bindings \cup keys |-> IF k \in keys THEN owner ELSE bindings[k]]

\* The owner of a customer nobody has seen.
Preferred(recs) ==
    IF Known(recs) # {} THEN <<"cus", (CHOOSE a \in Known(recs) : TRUE).cus>>
    ELSE <<"lic", (CHOOSE a \in recs : TRUE).lic>>

\* boundEarnOwner(), and the member most requests create after it.
Visit(recs, keys, legacy, preferred, lics) ==
    /\ Agreed(keys, legacy)
    /\ LET o == OwnerFor(keys, legacy, preferred) IN
        /\ Bind(keys, o) /\ members' \in {members, members \cup {o}}
        /\ answers' = answers \cup {<<l, o, FALSE>> : l \in lics}
    /\ UNCHANGED <<customers, grants, link>>

\* earnCustomer() behind an e-mail session: every record of the address.
VisitByEmail(e) ==
    LET recs == {a \in customers : a.email = e} IN
    /\ recs # {}
    /\ Visit(recs, KeysOf(recs), PastOf(recs), Preferred(recs), {a.lic : a \in recs})

\* ... behind a licence: its record if billing has one, a dashboard grant first.
VisitByLicense(l) ==
    LET recs == {a \in customers : a.lic = l} IN
    /\ grants[l] = None
    /\ Visit(recs, KeysOf(recs) \cup {<<"lic", l>>}, PastOf(recs) \cup {<<"lic", l>>},
             IF recs = {} THEN <<"lic", l>> ELSE Preferred(recs), {l})
VisitByGrant(l) ==
    /\ grants[l] \in members
    /\ answers' = answers \cup {<<l, grants[l], TRUE>>}
    /\ UNCHANGED <<customers, members, bindings, grants, link>>

\* The reviewed link of a partner: the owner is worked out and Stripe is asked
\* about it; the owner is bound, and made a member if it is still the same; Stripe
\* is asked again, and the licence gets its grant.
LinkBegins(a, l) ==
    /\ link = NoLink /\ {b \in customers : b.email = a.email} = {a} /\ a.cus # ""
    /\ Agreed(KeysOf({a}), PastOf({a}))
    /\ LET o == OwnerFor(KeysOf({a}), PastOf({a}), <<"cus", a.cus>>) IN
        /\ grants[l] \in {None, o}
        /\ link' = [pc |-> "asks", acc |-> a, lic |-> l, owner |-> o]
    /\ UNCHANGED <<customers, members, bindings, grants, answers>>
LinkBinds ==
    /\ link.pc = "asks"
    /\ LET keys == KeysOf({link.acc})  legacy == PastOf({link.acc})
           o == OwnerFor(keys, legacy, <<"cus", link.acc.cus>>) IN
        /\ Agreed(keys, legacy) /\ Bind(keys, o)
        /\ \/ /\ o = link.owner /\ members' = members \cup {o}
              /\ link' = [link EXCEPT !.pc = "adopts"]
           \/ o # link.owner /\ link' = NoLink /\ UNCHANGED members
    /\ UNCHANGED <<customers, grants, answers>>
LinkGrants ==
    /\ link.pc = "adopts" /\ link' = NoLink
    /\ grants' = [grants EXCEPT ![link.lic] = IF @ = None THEN link.owner ELSE @]
    /\ UNCHANGED <<customers, members, bindings, answers>>
\* Stripe, or a review, refuses.
LinkFails ==
    /\ link # NoLink /\ link' = NoLink
    /\ UNCHANGED <<customers, members, bindings, grants, answers>>

Next ==
    \/ LinkBinds \/ LinkGrants \/ LinkFails
    \/ \E a \in Accounts : \/ Purchase(a) \/ VisitByEmail(a.email) \/ VisitByLicense(a.lic)
                           \/ \E b \in Accounts : Identified(a, b)
    \/ \E l \in Lics : VisitByGrant(l) \/ \E a \in Accounts : LinkBegins(a, l)

Spec == Init /\ [][Next]_vars
-----------------------------------------------------------------------------
\* However the customer came in, and whatever billing learned in between, the
\* same licence was always answered as the same owner, and so it was under a
\* reviewed grant, which always leads to a member.
OneOwnerEach ==
    /\ \A s, t \in answers : s[1] = t[1] /\ s[3] = t[3] => s[2] = t[2]
    /\ \A l \in Lics : grants[l] # None => grants[l] \in members
=============================================================================
