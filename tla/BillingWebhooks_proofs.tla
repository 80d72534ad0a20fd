----------------------- MODULE BillingWebhooks_proofs -----------------------
(***************************************************************************)
(* Proofs about BillingWebhooks, for every set of events, sessions and     *)
(* requests, every fact Stripe may state in them, every term, every grace  *)
(* period and every bound.                                                 *)
(*                                                                         *)
(* A step of a request leaves a trail of disk images and the process may   *)
(* die at any of them.  So the inductive invariant speaks of one image     *)
(* (Sound) and of what a request in flight knows of it (Holds); each       *)
(* handler is shown to leave a trail whose every image is sound and keeps  *)
(* what the one before it granted (Grows), and its last image is what its  *)
(* request then knows.  Only then do the actions come in.                  *)
(***************************************************************************)
EXTENDS BillingWebhooks, FiniteSetTheorems, WellFoundedInduction, TLAPS

Row == [lic : Nat, sub : BOOLEAN, paid : Nat, unpaid : Nat, ends : Nat,
        charges : SUBSET STRING, welcomed : BOOLEAN]
Mark == [status : {"none", "pending", "applied"}, target : Nat, lic : Nat]
Image == [cust : Row, exp : Seq(Nat), revoked : SUBSET Nat, ptr : Sessions \cup {NoSession},
          marker : [Sessions -> Mark], seen : SUBSET Events,
          outbox : [Events -> {"none", "staged", "committed"}]]

Offered == {Facts[e].session : e \in Events}
ClaimedIn(d) == {s \in Sessions : d.marker[s] # NoMarker}

\* The rows name licences that were issued, and the pointer a session of Stripe's.
Shape(d) ==
    /\ d \in Image
    /\ d.cust.lic \in DOMAIN d.exp \cup {NoLicence}
    /\ Known(d) => d.cust.lic # NoLicence
    /\ d.revoked \subseteq DOMAIN d.exp
    /\ d.ptr # NoSession => d.ptr \in Offered

\* The licence of the customer runs to t at least, unless it was revoked.
Granted(d, t) ==
    /\ Known(d)
    /\ d.cust.lic \in d.revoked \/ d.exp[d.cust.lic] >= t

\* An applied marker is that of the customer's licence, which has its term.
Settled(d) ==
    \A s \in Sessions : d.marker[s].status = "applied" =>
        d.marker[s].lic = d.cust.lic /\ Granted(d, d.marker[s].target)

\* PaidOut of any image.
PaidIn(d, e) ==
    /\ Facts[e].kind = "purchase" => d.marker[Facts[e].session].status = "applied"
    /\ Facts[e].kind = "paid" => Granted(d, Facts[e].end + Grace)

\* What the files say of an event, they say of a payment applied.
Covered(d) == \A e \in Events : e \in d.seen \/ d.outbox[e] = "committed" => PaidIn(d, e)

\* A purchase left half done is the one the pointer names, and no two
\* purchases share a day of their terms.
Stacked(d) ==
    /\ \A s \in Sessions : d.marker[s].status = "none" => d.marker[s] = NoMarker
    /\ \A s \in Sessions : d.marker[s].status = "pending" => d.ptr = s
    /\ \A s, t \in ClaimedIn(d) : s # t =>
        LET a == d.marker[s].target
            b == d.marker[t].target
        IN  a >= b + OneOff \/ b >= a + OneOff

\* Nothing stands that was not bought: cap is what one term may reach.
Budget(d, cap) == OneOff * Cardinality(ClaimedIn(d)) + cap
Capped(d, cap) ==
    /\ Known(d) => d.exp[d.cust.lic] <= Budget(d, cap)
    /\ \A s \in ClaimedIn(d) : d.marker[s].target <= Budget(d, cap)

Sound(d, cap) == Shape(d) /\ Settled(d) /\ Covered(d) /\ Stacked(d) /\ Capped(d, cap)

\* What one image granted still stands in a later one.
Keeps(a, b) ==
    /\ DOMAIN a.exp \subseteq DOMAIN b.exp
    /\ \A l \in DOMAIN a.exp : b.exp[l] >= a.exp[l]
    /\ a.revoked \subseteq b.revoked
    /\ \A l \in a.revoked : b.exp[l] = a.exp[l]
    /\ Known(a) => Known(b) /\ b.cust.lic = a.cust.lic
    /\ \A s \in Sessions : a.marker[s].status = "applied" => b.marker[s] = a.marker[s]

Grows(d, tr, cap) ==
    /\ Shape(d) /\ tr \in Seq(Image) /\ Len(tr) >= 1
    /\ \A i \in 1..Len(tr) : Sound(tr[i], cap) /\ Keeps(d, tr[i])

\* Sessions and events are as they were.
Untouched(a, b) ==
    b.marker = a.marker /\ b.ptr = a.ptr /\ b.seen = a.seen /\ b.outbox = a.outbox

NothingPending(d) == \A s \in Sessions : d.marker[s].status # "pending"

Places == {"idle", "wait", "mail", "recovered", "resolve", "finish"}

\* What a request knows of the disk, wherever its code awaits.
Holds(d, pc, e, rec) ==
    /\ pc \in Places
    /\ e \in Events \cup {NoEvent} /\ rec \in Row
    /\ pc \in {"wait", "recovered", "resolve", "finish"} => e \in Events
    /\ pc = "wait" => Facts[e].kind \in {"purchase", "subscribe"}
    /\ pc \in {"mail", "recovered"} => Known(d) /\ rec.lic = d.cust.lic
    /\ pc = "recovered" => Facts[e].kind = "purchase" /\ NothingPending(d)
    /\ pc = "resolve" => Facts[e].kind \in {"refund", "dispute"}
    /\ pc \in {"mail", "finish"} /\ e \in Events => PaidIn(d, e)

\* What a handler leaves to its request: res as Result makes it.
Owed(d, e, res, cap) ==
    /\ Grows(d, res.tr, cap)
    /\ res.pc = "failed" \/ Holds(Disk(res.tr), res.pc, e, res.rec)

\* How long one term may run: NoFreeTerms.
Terms == {now + Bootstrap}
         \cup {Facts[e].end + Grace : e \in {f \in Events : Facts[f].kind = "paid"}}

IsCap(cap) ==
    /\ cap \in Nat /\ cap >= now + Bootstrap
    /\ \A e \in Events : Facts[e].kind = "paid" => cap >= Facts[e].end + Grace

RequestsOK ==
    /\ rq \in [Requests -> [pc : Places, ev : Events \cup {NoEvent}, rec : Row]]
    /\ \A r \in Requests : Holds(disk, rq[r].pc, rq[r].ev, rq[r].rec)
    /\ \A r, q \in Requests : rq[r].pc = "recovered" /\ rq[q].pc = "recovered" => r = q

DrainOK ==
    /\ drain.ev \in Events \cup {NoEvent} /\ drain.todo \subseteq Events
    /\ drain.ev \in Events => PaidIn(disk, drain.ev)
    /\ handed \subseteq Events /\ \A e \in handed : PaidIn(disk, e)

IInv ==
    /\ now \in Nat /\ Sound(disk, Longest(Terms)) /\ RequestsOK /\ DrainOK

-----------------------------------------------------------------------------
(* what an image that keeps another's grants inherits from it *)

LEMMA EventFact ==
    ASSUME NEW e \in Events
    PROVE  /\ Facts[e].kind \in Kinds /\ Facts[e].session \in Sessions \cup {NoSession}
           /\ Facts[e].start \in Nat /\ Facts[e].end \in Nat /\ Facts[e].charge \in STRING
           /\ Facts[e].kind = "purchase" => Facts[e].session \in Sessions \cap Offered
  BY BillingAssumption DEF EventFacts, Offered

LEMMA KeepsSelf ==
    ASSUME NEW d \in Image
    PROVE  Keeps(d, d)
  BY DEF Keeps, Image

LEMMA KeepsTrans ==
    ASSUME NEW a \in Image, NEW b \in Image, NEW c \in Image,
           a.revoked \subseteq DOMAIN a.exp, Keeps(a, b), Keeps(b, c)
    PROVE  Keeps(a, c)
  BY DEF Keeps, Image

LEMMA KeptGrant ==
    ASSUME NEW a, NEW b, NEW t \in Nat, Shape(a), Shape(b), Keeps(a, b), Granted(a, t)
    PROVE  Granted(b, t)
  <1>1. /\ Known(b) /\ b.cust.lic = a.cust.lic
        /\ a.cust.lic \in a.revoked \/ a.exp[a.cust.lic] >= t
    BY DEF Keeps, Granted
  <1>2. CASE a.cust.lic \in a.revoked
    BY <1>1, <1>2 DEF Keeps, Granted
  <1>3. CASE a.cust.lic \notin a.revoked
    <2>1. Known(a) /\ a.cust.lic # NoLicence /\ a.cust.lic \in DOMAIN a.exp
      BY DEF Granted, Shape
    <2>2. a.exp \in Seq(Nat) /\ b.exp \in Seq(Nat)
      BY DEF Shape, Image
    <2>3. b.exp[a.cust.lic] >= a.exp[a.cust.lic] /\ a.cust.lic \in DOMAIN b.exp
      BY <2>1 DEF Keeps
    <2>4. a.exp[a.cust.lic] \in Nat /\ b.exp[a.cust.lic] \in Nat
      <3>1. ASSUME NEW s \in Seq(Nat), NEW i \in DOMAIN s
            PROVE  s[i] \in Nat
        OBVIOUS
      <3> QED
        BY <2>1, <2>2, <2>3, <3>1
    <2>5. b.exp[b.cust.lic] >= t
      BY <1>1, <1>3, <2>3, <2>4
    <2> QED
      BY <1>1, <2>5 DEF Granted
  <1> QED
    BY <1>2, <1>3

LEMMA KeptPaid ==
    ASSUME NEW a, NEW b, NEW e \in Events, Shape(a), Shape(b), Keeps(a, b), PaidIn(a, e)
    PROVE  PaidIn(b, e)
  <1>1. Facts[e].end + Grace \in Nat
    BY EventFact, BillingAssumption
  <1>2. Facts[e].kind = "paid" => Granted(b, Facts[e].end + Grace)
    BY <1>1, KeptGrant DEF PaidIn
  <1>3. Facts[e].kind = "purchase" => b.marker[Facts[e].session].status = "applied"
    BY EventFact DEF PaidIn, Keeps
  <1> QED
    BY <1>2, <1>3 DEF PaidIn

LEMMA KeptSettled ==
    ASSUME NEW a, NEW b, Shape(a), Shape(b), Keeps(a, b), Settled(a), b.marker = a.marker
    PROVE  Settled(b)
  <1> SUFFICES ASSUME NEW s \in Sessions, b.marker[s].status = "applied"
               PROVE  b.marker[s].lic = b.cust.lic /\ Granted(b, b.marker[s].target)
    BY DEF Settled
  <1>1. a.marker[s].lic = a.cust.lic /\ Granted(a, a.marker[s].target)
    BY DEF Settled
  <1>2. a.marker[s].target \in Nat
    BY DEF Shape, Image, Mark
  <1>3. Granted(b, b.marker[s].target)
    BY <1>1, <1>2, KeptGrant
  <1> QED
    BY <1>1, <1>3 DEF Keeps, Granted

LEMMA KeptCovered ==
    ASSUME NEW a, NEW b, Shape(a), Shape(b), Keeps(a, b), Covered(a),
           b.seen = a.seen, b.outbox = a.outbox
    PROVE  Covered(b)
  BY KeptPaid DEF Covered

\* A write to a customer or a licence.
LEMMA KeptSound ==
    ASSUME NEW cap, NEW a, NEW b, Sound(a, cap), Shape(b), Keeps(a, b),
           Untouched(a, b),
           Known(b) => b.exp[b.cust.lic] <= Budget(b, cap)
    PROVE  Sound(b, cap)
  <1>1. ClaimedIn(b) = ClaimedIn(a)
    BY DEF ClaimedIn, Untouched
  <1>2. Stacked(b)
    BY <1>1 DEF Sound, Stacked, Untouched
  <1>3. Capped(b, cap)
    BY <1>1 DEF Sound, Capped, Budget, Untouched
  <1> QED
    BY <1>2, <1>3, KeptSettled, KeptCovered DEF Sound, Untouched

LEMMA WriteGrows ==
    ASSUME NEW cap, NEW d, NEW tr, Grows(d, tr, cap),
            NEW image, Sound(image, cap), Keeps(Disk(tr), image)
    PROVE  Grows(d, Write(tr, image), cap) /\ Disk(Write(tr, image)) = image
  <1> DEFINE new == Write(tr, image)
  <1>1. d \in Image /\ d.revoked \subseteq DOMAIN d.exp /\ image \in Image
        /\ tr \in Seq(Image) /\ Len(tr) >= 1 /\ tr[1] \in Image
    BY DEF Sound, Shape, Grows
  <1>2. new \in Seq(Image) /\ Len(new) = Len(tr) + 1 /\ new[1] = image
        /\ \A i \in 1..Len(tr) : new[i + 1] = tr[i]
    BY <1>1 DEF Write
  <1>3. Keeps(d, tr[1])
    BY <1>1 DEF Grows
  <1>4. Keeps(d, image)
    BY <1>1, <1>3, KeepsTrans DEF Disk
  <1>5. ASSUME NEW i \in 1..Len(new)
        PROVE  Sound(new[i], cap) /\ Keeps(d, new[i])
    <2>1. CASE i = 1
      BY <2>1, <1>2, <1>4
    <2>2. CASE i # 1
      <3>1. i - 1 \in 1..Len(tr) /\ (i - 1) + 1 = i
        BY <2>2, <1>1, <1>2
      <3>2. new[i] = tr[i - 1]
        BY <3>1, <1>2
      <3> QED
        BY <3>1, <3>2 DEF Grows
    <2> QED
      BY <2>1, <2>2
  <1> QED
    BY <1>1, <1>2, <1>5 DEF Grows, Disk

-----------------------------------------------------------------------------
(* what each write of the store does to a sound image *)

LEMMA GrowsSelf ==
    ASSUME NEW cap, NEW d, Sound(d, cap)
    PROVE  Grows(d, <<d>>, cap) /\ Disk(<<d>>) = d
  BY KeepsSelf DEF Sound, Shape, Grows, Disk

LEMMA DiskIs ==
    ASSUME NEW cap, NEW d, NEW tr, Grows(d, tr, cap)
    PROVE  Sound(Disk(tr), cap) /\ Keeps(d, Disk(tr)) /\ Shape(d)
  BY DEF Grows, Disk

LEMMA BudgetIs ==
    ASSUME NEW cap \in Nat, NEW d
    PROVE  /\ IsFiniteSet(ClaimedIn(d)) /\ Cardinality(ClaimedIn(d)) \in Nat
           /\ Budget(d, cap) \in Nat /\ Budget(d, cap) >= cap
  <1>1. IsFiniteSet(ClaimedIn(d)) /\ Cardinality(ClaimedIn(d)) \in Nat
    BY FS_Subset, FS_CardinalityType, BillingAssumption DEF ClaimedIn
  <1>2. ASSUME NEW n \in Nat
        PROVE  OneOff * n \in Nat
    BY TermAssumption
  <1> QED
    BY <1>1, <1>2 DEF Budget

LEMMA SameBudget ==
    ASSUME NEW cap, NEW a, NEW b, b.marker = a.marker
    PROVE  ClaimedIn(b) = ClaimedIn(a) /\ Budget(b, cap) = Budget(a, cap)
  BY DEF ClaimedIn, Budget

LEMMA PutCustomerIs ==
    ASSUME NEW cap \in Nat, NEW d, NEW tr, Grows(d, tr, cap),
           NEW rec \in Row, rec.lic \in DOMAIN Disk(tr).exp,
           Known(Disk(tr)) => rec.lic = Disk(tr).cust.lic,
           ~Known(Disk(tr)) => Disk(tr).exp[rec.lic] <= Budget(Disk(tr), cap)
    PROVE  /\ Grows(d, PutCustomer(tr, rec), cap)
           /\ Disk(PutCustomer(tr, rec)) = [Disk(tr) EXCEPT !.cust = rec]
           /\ Known(Disk(PutCustomer(tr, rec)))
           /\ Untouched(Disk(tr), Disk(PutCustomer(tr, rec)))
  <1> DEFINE a == Disk(tr)
             b == [a EXCEPT !.cust = rec]
  <1>1. Sound(a, cap) /\ Shape(a) /\ a \in Image
    BY DiskIs DEF Sound, Shape
  <1>2. b \in Image /\ Untouched(a, b) /\ b.cust = rec /\ b.exp = a.exp /\ b.revoked = a.revoked
    BY <1>1 DEF Image, Untouched
  <1>3. Known(b) /\ b.cust.lic # NoLicence
    BY <1>1, <1>2 DEF Known, NoCustomer, NoLicence, Shape, Image
  <1>4. Shape(b)
    BY <1>1, <1>2, <1>3 DEF Shape, Untouched
  <1>5. Keeps(a, b)
    BY <1>1, <1>2, <1>3 DEF Keeps, Image, Shape, Untouched
  <1>6. b.exp[b.cust.lic] <= Budget(b, cap)
    BY <1>1, <1>2, SameBudget DEF Sound, Capped, Untouched
  <1>7. Sound(b, cap)
    BY <1>1, <1>2, <1>4, <1>5, <1>6, KeptSound
  <1> QED
    BY <1>2, <1>3, <1>5, <1>7, WriteGrows DEF PutCustomer

LEMMA IssueUntilIs ==
    ASSUME NEW cap \in Nat, NEW d, NEW tr, Grows(d, tr, cap), NEW t \in Nat
    PROVE  /\ Grows(d, IssueUntil(tr, t), cap)
           /\ Disk(IssueUntil(tr, t)).exp = Append(Disk(tr).exp, t)
           /\ Disk(IssueUntil(tr, t)).cust = Disk(tr).cust
           /\ Untouched(Disk(tr), Disk(IssueUntil(tr, t)))
  <1> DEFINE a == Disk(tr)
             b == [a EXCEPT !.exp = Append(@, t)]
  <1>1. Sound(a, cap) /\ Shape(a) /\ a \in Image
    BY DiskIs DEF Sound, Shape
  <1>2. /\ a.exp \in Seq(Nat) /\ b.exp = Append(a.exp, t) /\ Append(a.exp, t) \in Seq(Nat)
        /\ DOMAIN a.exp \subseteq DOMAIN b.exp /\ \A l \in DOMAIN a.exp : b.exp[l] = a.exp[l]
    BY <1>1 DEF Image
  <1>3. b \in Image /\ Untouched(a, b) /\ b.cust = a.cust /\ b.revoked = a.revoked
    BY <1>1, <1>2 DEF Image, Untouched
  <1>4. Known(b) <=> Known(a)
    BY <1>3 DEF Known
  <1>5. Shape(b)
    BY <1>1, <1>3, <1>2, <1>4 DEF Shape, Untouched
  <1>6. Keeps(a, b)
    BY <1>1, <1>3, <1>2, <1>4 DEF Keeps, Image, Shape, Untouched
  <1>7. Known(b) => b.exp[b.cust.lic] <= Budget(b, cap)
    BY <1>1, <1>3, <1>2, <1>4, SameBudget DEF Sound, Shape, Capped, Untouched
  <1>8. Sound(b, cap)
    BY <1>1, <1>3, <1>5, <1>6, <1>7, KeptSound
  <1>9. IssueUntil(tr, t) = Write(tr, b)
    BY DEF IssueUntil
  <1> HIDE DEF b
  <1>10. Grows(d, Write(tr, b), cap) /\ Disk(Write(tr, b)) = b
    BY <1>3, <1>6, <1>8, WriteGrows
  <1> QED
    BY <1>2, <1>3, <1>9, <1>10

\* A customer has one licence, issued for the term that made it a customer.
LEMMA EnsureCustomerIs ==
    ASSUME NEW cap \in Nat, NEW d, NEW tr, Grows(d, tr, cap),
           NEW sub \in BOOLEAN, NEW t \in Nat, t <= Budget(Disk(tr), cap)
    PROVE  /\ Grows(d, EnsureCustomer(tr, sub, t), cap)
           /\ Known(Disk(EnsureCustomer(tr, sub, t)))
           /\ Untouched(Disk(tr), Disk(EnsureCustomer(tr, sub, t)))
  <1> DEFINE new == IssueUntil(tr, t)
             rec == Customer(Len(Disk(new).exp), sub)
  <1>1. CASE Known(Disk(tr))
    BY <1>1 DEF EnsureCustomer, Untouched
  <1>2. CASE ~Known(Disk(tr))
    <2>1. Disk(tr).exp \in Seq(Nat) /\ Disk(tr) \in Image
      BY DiskIs DEF Sound, Shape, Image
    <2>2. Grows(d, new, cap) /\ Untouched(Disk(tr), Disk(new))
          /\ Disk(new).exp = Append(Disk(tr).exp, t) /\ Disk(new).cust = Disk(tr).cust
      <3>1. /\ Grows(d, IssueUntil(tr, t), cap) /\ Untouched(Disk(tr), Disk(IssueUntil(tr, t)))
            /\ Disk(IssueUntil(tr, t)).exp = Append(Disk(tr).exp, t)
            /\ Disk(IssueUntil(tr, t)).cust = Disk(tr).cust
        BY IssueUntilIs
      <3> QED
        BY <3>1
    <2>7. EnsureCustomer(tr, sub, t) = PutCustomer(new, rec)
      BY <1>2 DEF EnsureCustomer
    <2>8. rec = Customer(Len(Disk(new).exp), sub)
      OBVIOUS
    <2> HIDE DEF new, rec
    <2>3. Len(Disk(new).exp) = Len(Disk(tr).exp) + 1 /\ Len(Disk(new).exp) \in DOMAIN Disk(new).exp
          /\ Disk(new).exp[Len(Disk(new).exp)] = t
      BY <2>1, <2>2
    <2>4. rec \in Row /\ rec.lic = Len(Disk(new).exp)
      <3>1. NoCustomer \in Row
        BY DEF NoCustomer, Row, NoLicence, NoTime
      <3>2. Len(Disk(new).exp) \in Nat
        BY <2>1, <2>3
      <3> QED
        BY <2>8, <3>1, <3>2 DEF Customer, Row
    <2>5. ~Known(Disk(new)) /\ Budget(Disk(new), cap) = Budget(Disk(tr), cap)
      BY <1>2, <2>2, SameBudget DEF Known, Untouched
    <2>6. Grows(d, PutCustomer(new, rec), cap) /\ Known(Disk(PutCustomer(new, rec)))
          /\ Untouched(Disk(new), Disk(PutCustomer(new, rec)))
      BY <2>2, <2>3, <2>4, <2>5, PutCustomerIs
    <2> QED
      BY <2>2, <2>6, <2>7 DEF Untouched
  <1> QED
    BY <1>1, <1>2

LEMMA ExtendLicenseIs ==
    ASSUME NEW cap \in Nat, NEW d, NEW tr, Grows(d, tr, cap), Known(Disk(tr)),
           NEW lic, lic = Disk(tr).cust.lic,
           NEW t \in Nat, t <= Budget(Disk(tr), cap)
    PROVE  /\ Grows(d, ExtendLicense(tr, lic, t), cap)
           /\ Disk(ExtendLicense(tr, lic, t)).cust = Disk(tr).cust
           /\ Disk(ExtendLicense(tr, lic, t)).revoked = Disk(tr).revoked
           /\ Untouched(Disk(tr), Disk(ExtendLicense(tr, lic, t)))
           /\ Granted(Disk(ExtendLicense(tr, lic, t)), t)
  <1> DEFINE a == Disk(tr)
             b == [a EXCEPT !.exp[lic] = t]
  <1>1. Sound(a, cap) /\ Shape(a) /\ a \in Image /\ lic \in DOMAIN a.exp /\ a.exp \in Seq(Nat)
    BY DiskIs DEF Sound, Shape, Image
  <1>2. CASE t <= a.exp[lic]
    <2>1. ExtendLicense(tr, lic, t) = tr
      BY <1>1, <1>2 DEF ExtendLicense
    <2> QED
      BY <2>1, <1>1, <1>2 DEF Untouched, Granted
  <1>3. CASE lic \in a.revoked
    <2>1. ExtendLicense(tr, lic, t) = tr
      BY <1>3 DEF ExtendLicense, SetExpiry
    <2> QED
      BY <2>1, <1>1, <1>3 DEF Untouched, Granted
  <1>4. CASE t > a.exp[lic] /\ lic \notin a.revoked
    <2>1. ExtendLicense(tr, lic, t) = Write(tr, b)
      BY <1>4 DEF ExtendLicense, SetExpiry
    <2>2. b.exp \in Seq(Nat) /\ DOMAIN b.exp = DOMAIN a.exp /\ b.exp[lic] = t
          /\ \A l \in DOMAIN a.exp \ {lic} : b.exp[l] = a.exp[l]
      BY <1>1 DEF Image
    <2>3. b \in Image /\ Untouched(a, b) /\ b.cust = a.cust /\ b.revoked = a.revoked
      BY <1>1, <2>2 DEF Image, Untouched
    <2>4. Known(b) <=> Known(a)
      BY <2>3 DEF Known
    <2>5. Shape(b)
      BY <1>1, <2>2, <2>3, <2>4 DEF Shape, Untouched
    <2>6. Keeps(a, b)
      BY <1>1, <1>4, <2>2, <2>3, <2>4 DEF Keeps, Image, Shape, Untouched
    <2>7. b.exp[b.cust.lic] <= Budget(b, cap)
      BY <2>2, <2>3, SameBudget DEF Untouched
    <2>8. Sound(b, cap)
      BY <1>1, <2>3, <2>5, <2>6, <2>7, KeptSound
    <2>9. Grows(d, Write(tr, b), cap) /\ Disk(Write(tr, b)) = b
      BY <2>6, <2>8, WriteGrows
    <2>10. Granted(b, t)
      BY <2>2, <2>3, <2>4 DEF Granted
    <2> QED
      BY <2>1, <2>3, <2>9, <2>10
  <1> QED
    BY <1>1, <1>2, <1>3, <1>4 DEF Image

LEMMA RevokeIs ==
    ASSUME NEW cap \in Nat, NEW d, NEW tr, Grows(d, tr, cap), Known(Disk(tr)),
           NEW lic, lic = Disk(tr).cust.lic
    PROVE  /\ Grows(d, Revoke(tr, lic), cap)
           /\ Disk(Revoke(tr, lic)).cust = Disk(tr).cust
           /\ Disk(Revoke(tr, lic)).exp = Disk(tr).exp
           /\ Untouched(Disk(tr), Disk(Revoke(tr, lic)))
  <1> DEFINE a == Disk(tr)
             b == [a EXCEPT !.revoked = @ \cup {lic}]
  <1>1. Sound(a, cap) /\ Shape(a) /\ a \in Image /\ lic \in DOMAIN a.exp /\ lic \in Nat
    BY DiskIs DEF Sound, Shape, Image, Row
  <1>2. b \in Image /\ Untouched(a, b) /\ b.cust = a.cust /\ b.exp = a.exp
        /\ b.revoked = a.revoked \cup {lic}
    BY <1>1 DEF Image, Untouched
  <1>3. Known(b) <=> Known(a)
    BY <1>2 DEF Known
  <1>4. Shape(b)
    BY <1>1, <1>2, <1>3 DEF Shape, Untouched
  <1>5. Keeps(a, b)
    BY <1>1, <1>2, <1>3 DEF Keeps, Image, Shape, Untouched
  <1>6. b.exp[b.cust.lic] <= Budget(b, cap)
    BY <1>1, <1>2, SameBudget DEF Sound, Capped, Untouched
  <1>7. Sound(b, cap)
    BY <1>1, <1>2, <1>4, <1>5, <1>6, KeptSound
  <1>8. Revoke(tr, lic) = Write(tr, b)
    BY DEF Revoke
  <1>9. Grows(d, Write(tr, b), cap) /\ Disk(Write(tr, b)) = b
    BY <1>5, <1>7, WriteGrows
  <1> QED
    BY <1>2, <1>8, <1>9

\* A write to the sessions: the customer and the licences are as they were.
LEMMA SessionSound ==
    ASSUME NEW cap, NEW a, NEW b, Sound(a, cap), b \in Image,
           b.cust = a.cust, b.exp = a.exp, b.revoked = a.revoked,
           b.seen = a.seen, b.outbox = a.outbox,
           \A s \in Sessions : a.marker[s].status = "applied" => b.marker[s] = a.marker[s],
           b.ptr # NoSession => b.ptr \in Offered,
           Settled(b), Stacked(b), Capped(b, cap)
    PROVE  Sound(b, cap) /\ Keeps(a, b)
  <1>1. Shape(a) /\ a \in Image
    BY DEF Sound, Shape
  <1>2. Known(b) <=> Known(a)
    BY DEF Known
  <1>3. Shape(b)
    BY <1>1, <1>2 DEF Shape
  <1>4. Keeps(a, b)
    BY <1>1, <1>2, <1>3 DEF Keeps, Image, Shape
  <1>5. Covered(b)
    BY <1>1, <1>3, <1>4, KeptCovered DEF Sound
  <1> QED
    BY <1>3, <1>4, <1>5 DEF Sound

LEMMA PutPendingIs ==
    ASSUME NEW cap \in Nat, NEW d, NEW tr, Grows(d, tr, cap), NEW s \in Sessions, s \in Offered,
           \A t \in Sessions : Disk(tr).marker[t].status = "pending" => t = s
    PROVE  /\ Grows(d, PutPending(tr, s), cap)
           /\ Disk(PutPending(tr, s)) = [Disk(tr) EXCEPT !.ptr = s]
  <1> DEFINE a == Disk(tr)
             b == [a EXCEPT !.ptr = s]
  <1>1. Sound(a, cap) /\ Shape(a) /\ a \in Image
    BY DiskIs DEF Sound, Shape
  <1>2. b \in Image /\ b.cust = a.cust /\ b.exp = a.exp /\ b.revoked = a.revoked
        /\ b.marker = a.marker /\ b.seen = a.seen /\ b.outbox = a.outbox /\ b.ptr = s
    BY <1>1 DEF Image
  <1>3. Settled(b)
    BY <1>1, <1>2 DEF Sound, Settled, Granted, Known
  <1>4. ClaimedIn(b) = ClaimedIn(a) /\ Budget(b, cap) = Budget(a, cap)
    BY <1>2, SameBudget
  <1>5. Stacked(b)
    BY <1>1, <1>2, <1>4 DEF Sound, Stacked
  <1>6. Capped(b, cap)
    BY <1>1, <1>2, <1>4 DEF Sound, Capped, Known
  <1>7. Sound(b, cap) /\ Keeps(a, b)
    BY <1>1, <1>2, <1>3, <1>5, <1>6, SessionSound
  <1> QED
    BY <1>7, WriteGrows DEF PutPending

LEMMA ClearPendingIs ==
    ASSUME NEW cap \in Nat, NEW d, NEW tr, Grows(d, tr, cap), NEW s \in Sessions,
           Disk(tr).marker[s].status # "pending"
    PROVE  /\ Grows(d, ClearPending(tr, s), cap)
           /\ NothingPending(Disk(tr)) \/ Disk(tr).ptr # s
           /\ Disk(ClearPending(tr, s)).cust = Disk(tr).cust
           /\ Disk(ClearPending(tr, s)).exp = Disk(tr).exp
           /\ Disk(ClearPending(tr, s)).revoked = Disk(tr).revoked
           /\ Disk(ClearPending(tr, s)).marker = Disk(tr).marker
  <1> DEFINE a == Disk(tr)
             b == [a EXCEPT !.ptr = NoSession]
  <1>1. Sound(a, cap) /\ Shape(a) /\ a \in Image
    BY DiskIs DEF Sound, Shape
  <1>2. CASE a.ptr # s
    BY <1>2 DEF ClearPending
  <1>3. CASE a.ptr = s
    <2>1. b \in Image /\ b.cust = a.cust /\ b.exp = a.exp /\ b.revoked = a.revoked
          /\ b.marker = a.marker /\ b.seen = a.seen /\ b.outbox = a.outbox /\ b.ptr = NoSession
      BY <1>1 DEF Image
    <2>2. Settled(b)
      BY <1>1, <2>1 DEF Sound, Settled, Granted, Known
    <2>3. ClaimedIn(b) = ClaimedIn(a) /\ Budget(b, cap) = Budget(a, cap)
      BY <2>1, SameBudget
    <2>4. NothingPending(a)
      BY <1>1, <1>3 DEF NothingPending, Sound, Stacked
    <2>5. Stacked(b)
      BY <1>1, <2>1, <2>3, <2>4 DEF Sound, Stacked, NothingPending
    <2>6. Capped(b, cap)
      BY <1>1, <2>1, <2>3 DEF Sound, Capped, Known
    <2>7. Sound(b, cap) /\ Keeps(a, b)
      BY <1>1, <2>1, <2>2, <2>5, <2>6, SessionSound
    <2>8. ClearPending(tr, s) = Write(tr, b)
      BY <1>3 DEF ClearPending
    <2>9. Grows(d, Write(tr, b), cap) /\ Disk(Write(tr, b)) = b
      BY <2>7, WriteGrows
    <2> QED
      BY <2>1, <2>4, <2>8, <2>9
  <1> QED
    BY <1>2, <1>3

LEMMA OneMore ==
    ASSUME NEW cap \in Nat, NEW a, NEW b, NEW s \in Sessions, s \notin ClaimedIn(a),
           ClaimedIn(b) = ClaimedIn(a) \cup {s}
    PROVE  Budget(b, cap) = Budget(a, cap) + OneOff
  <1>1. Cardinality(ClaimedIn(a)) \in Nat
        /\ Cardinality(ClaimedIn(b)) = Cardinality(ClaimedIn(a)) + 1
    BY BudgetIs, FS_AddElement
  <1>2. ASSUME NEW n \in Nat
        PROVE  OneOff * (n + 1) = OneOff * n + OneOff /\ OneOff * n \in Nat
    BY TermAssumption
  <1> QED
    BY <1>1, <1>2, TermAssumption DEF Budget

\* Claiming a session not claimed before is what raises the budget by a term.
LEMMA ClaimIs ==
    ASSUME NEW cap \in Nat, NEW d, NEW tr, Grows(d, tr, cap), NEW s \in Sessions,
           Disk(tr).ptr = s, Disk(tr).marker[s].status # "applied",
           NEW target \in Nat, NEW lic \in Nat,
           Disk(tr).marker[s] = NoMarker =>
                /\ \A t \in ClaimedIn(Disk(tr)) : target >= Disk(tr).marker[t].target + OneOff
                /\ target <= Budget(Disk(tr), cap) + OneOff
    PROVE  /\ Grows(d, ClaimCheckoutSession(tr, s, target, lic), cap)
           /\ Disk(ClaimCheckoutSession(tr, s, target, lic)).marker[s].status = "pending"
           /\ Disk(ClaimCheckoutSession(tr, s, target, lic)).cust = Disk(tr).cust
  <1> DEFINE a == Disk(tr)
             m == [status |-> "pending", target |-> target, lic |-> lic]
             b == [a EXCEPT !.marker[s] = m]
  <1>1. Sound(a, cap) /\ Shape(a) /\ a \in Image
    BY DiskIs DEF Sound, Shape
  <1>2. CASE a.marker[s] # NoMarker
    <2>1. a.marker[s].status = "pending"
      BY <1>1, <1>2 DEF Sound, Stacked, Image, Mark
    <2> QED
      BY <1>2, <2>1 DEF ClaimCheckoutSession
  <1>3. CASE a.marker[s] = NoMarker
    <2>1. m \in Mark /\ m # NoMarker /\ m.status = "pending" /\ m.target = target
      BY DEF Mark, NoMarker
    <2>2. b \in Image /\ b.cust = a.cust /\ b.exp = a.exp /\ b.revoked = a.revoked
          /\ b.marker = [a.marker EXCEPT ![s] = m] /\ b.seen = a.seen /\ b.outbox = a.outbox
          /\ b.ptr = a.ptr
      BY <1>1, <2>1 DEF Image
    <2>3. b.marker[s] = m /\ \A t \in Sessions \ {s} : b.marker[t] = a.marker[t]
      BY <1>1, <2>2 DEF Image
    <2>4. ClaimedIn(b) = ClaimedIn(a) \cup {s} /\ s \notin ClaimedIn(a)
      BY <1>3, <2>1, <2>3 DEF ClaimedIn
    <2>5. Budget(b, cap) = Budget(a, cap) + OneOff
      BY <2>4, OneMore
    <2>6. Settled(b)
      BY <1>1, <2>1, <2>2, <2>3 DEF Sound, Settled, Granted, Known
    <2>7. Stacked(b)
      <3>1. \A t \in Sessions : b.marker[t].status = "none" => b.marker[t] = NoMarker
        BY <1>1, <2>1, <2>3 DEF Sound, Stacked
      <3>2. \A t \in Sessions : b.marker[t].status = "pending" => b.ptr = t
        BY <1>1, <2>2, <2>3 DEF Sound, Stacked
      <3>3. ASSUME NEW t \in ClaimedIn(b), NEW u \in ClaimedIn(b), t # u
            PROVE  \/ b.marker[t].target >= b.marker[u].target + OneOff
                   \/ b.marker[u].target >= b.marker[t].target + OneOff
        <4>1. CASE t = s
          BY <4>1, <1>3, <2>1, <2>3, <2>4, <3>3 DEF ClaimedIn
        <4>2. CASE u = s
          BY <4>2, <1>3, <2>1, <2>3, <2>4, <3>3 DEF ClaimedIn
        <4>3. CASE t # s /\ u # s
          BY <4>3, <1>1, <2>3, <2>4, <3>3 DEF Sound, Stacked, ClaimedIn
        <4> QED
          BY <4>1, <4>2, <4>3
      <3> QED
        BY <3>1, <3>2, <3>3 DEF Stacked
    <2>8. Capped(b, cap)
      <3>1. Budget(a, cap) \in Nat /\ OneOff \in Nat
        BY BudgetIs, TermAssumption
      <3>2. Known(b) => b.exp[b.cust.lic] <= Budget(b, cap)
        <4>1. Known(a) => a.exp[a.cust.lic] \in Nat
          BY <1>1 DEF Shape, Image
        <4> QED
          BY <1>1, <2>2, <2>5, <3>1, <4>1 DEF Sound, Capped, Known
      <3>3. ASSUME NEW t \in ClaimedIn(b)
            PROVE  b.marker[t].target <= Budget(b, cap)
        <4>1. CASE t = s
          BY <4>1, <1>3, <2>1, <2>3, <2>5
        <4>2. CASE t # s
          <5>1. a.marker[t].target \in Nat /\ a.marker[t].target <= Budget(a, cap)
            BY <4>2, <1>1, <2>4 DEF Sound, Capped, Image, Mark, ClaimedIn
          <5> QED
            BY <4>2, <5>1, <2>3, <2>5, <3>1 DEF ClaimedIn
        <4> QED
          BY <4>1, <4>2
      <3> QED
        BY <3>2, <3>3 DEF Capped
    <2>9. Sound(b, cap) /\ Keeps(a, b)
      <3>1. \A t \in Sessions : a.marker[t].status = "applied" => b.marker[t] = a.marker[t]
        BY <2>3
      <3> QED
        BY <1>1, <2>2, <2>6, <2>7, <2>8, <3>1, SessionSound DEF Shape
    <2>10. ClaimCheckoutSession(tr, s, target, lic) = Write(tr, b)
      BY <1>3 DEF ClaimCheckoutSession
    <2>11. Grows(d, Write(tr, b), cap) /\ Disk(Write(tr, b)) = b
      BY <2>9, WriteGrows
    <2> QED
      BY <2>1, <2>2, <2>3, <2>10, <2>11
  <1> QED
    BY <1>2, <1>3

\* A session claimed is bound to a licence, and once that has its term it is
\* applied: neither moves its target.
LEMMA PutCheckoutSessionIs ==
    ASSUME NEW cap \in Nat, NEW d, NEW tr, Grows(d, tr, cap), NEW s \in Sessions,
           Disk(tr).marker[s].status = "pending",
           NEW status \in {"pending", "applied"}, NEW lic \in Nat,
           status = "applied" =>
                lic = Disk(tr).cust.lic /\ Granted(Disk(tr), Disk(tr).marker[s].target)
    PROVE  /\ Grows(d, PutCheckoutSession(tr, s, status, lic), cap)
           /\ Disk(PutCheckoutSession(tr, s, status, lic)).cust = Disk(tr).cust
           /\ Disk(PutCheckoutSession(tr, s, status, lic)).revoked = Disk(tr).revoked
           /\ Disk(PutCheckoutSession(tr, s, status, lic)).ptr = Disk(tr).ptr
           /\ Disk(PutCheckoutSession(tr, s, status, lic)).marker[s].status = status
           /\ Disk(PutCheckoutSession(tr, s, status, lic)).marker[s].target
                = Disk(tr).marker[s].target
  <1> DEFINE a == Disk(tr)
             m == [status |-> status, target |-> a.marker[s].target, lic |-> lic]
             b == [a EXCEPT !.marker[s].status = status, !.marker[s].lic = lic]
  <1>1. Sound(a, cap) /\ Shape(a) /\ a \in Image
    BY DiskIs DEF Sound, Shape
  <1>2. a.marker[s] \in Mark /\ m \in Mark /\ m # NoMarker /\ a.marker[s] # NoMarker
    BY <1>1 DEF Image, Mark, NoMarker
  <1>3. b.cust = a.cust /\ b.exp = a.exp /\ b.revoked = a.revoked
        /\ b.seen = a.seen /\ b.outbox = a.outbox /\ b.ptr = a.ptr
    BY <1>1 DEF Image
  <1>4. b.marker[s] = m /\ \A t \in Sessions \ {s} : b.marker[t] = a.marker[t]
    BY <1>1, <1>2 DEF Image, Mark
  <1>5. b \in Image
    <2>1. b.marker \in [Sessions -> Mark]
      BY <1>1, <1>2, <1>4 DEF Image
    <2> QED
      BY <1>1, <2>1 DEF Image
  <1>6. ClaimedIn(b) = ClaimedIn(a) /\ Budget(b, cap) = Budget(a, cap)
        /\ \A t \in Sessions : b.marker[t].target = a.marker[t].target
    <2>1. m.target = a.marker[s].target
      OBVIOUS
    <2>2. \A t \in Sessions : b.marker[t].target = a.marker[t].target
                              /\ (b.marker[t] # NoMarker <=> a.marker[t] # NoMarker)
      <3> HIDE DEF a, b, m
      <3> QED
        BY <1>2, <1>4, <2>1
    <2>3. ClaimedIn(b) = ClaimedIn(a)
      <3> HIDE DEF a, b
      <3> QED
        BY <2>2 DEF ClaimedIn
    <2> QED
      BY <2>2, <2>3 DEF Budget
  <1>7. Settled(b)
    BY <1>1, <1>3, <1>4 DEF Sound, Settled, Granted, Known
  <1>8. Stacked(b)
    <2>1. Stacked(a) /\ m.status = status
      BY <1>1 DEF Sound
    <2>2. b.marker[s].status # "none" /\ a.marker[s].status = "pending"
      BY <1>4, <2>1
    <2> HIDE DEF a, b, m
    <2>3. \A t \in Sessions : b.marker[t].status = "none" => b.marker[t] = NoMarker
      BY <1>4, <2>1, <2>2 DEF Stacked
    <2>4. \A t \in Sessions : b.marker[t].status = "pending" => b.ptr = t
      BY <1>3, <1>4, <2>1, <2>2 DEF Stacked
    <2>5. \A t, u \in ClaimedIn(b) :
              t \in Sessions /\ u \in Sessions /\ t \in ClaimedIn(a) /\ u \in ClaimedIn(a)
      BY <1>6 DEF ClaimedIn
    <2>6. \A t, u \in ClaimedIn(b) : t # u =>
              \/ b.marker[t].target >= b.marker[u].target + OneOff
              \/ b.marker[u].target >= b.marker[t].target + OneOff
      BY <1>6, <2>1, <2>5 DEF Stacked
    <2> QED
      BY <2>3, <2>4, <2>6 DEF Stacked
  <1>9. Capped(b, cap)
    BY <1>1, <1>3, <1>6 DEF Sound, Capped, Known, ClaimedIn
  <1>10. Sound(b, cap) /\ Keeps(a, b)
    <2>1. \A t \in Sessions : a.marker[t].status = "applied" => b.marker[t] = a.marker[t]
      BY <1>4
    <2> QED
      BY <1>1, <1>3, <1>5, <1>7, <1>8, <1>9, <2>1, SessionSound DEF Shape
  <1>11. PutCheckoutSession(tr, s, status, lic) = Write(tr, b)
    BY DEF PutCheckoutSession
  <1>12. Grows(d, Write(tr, b), cap) /\ Disk(Write(tr, b)) = b
    BY <1>10, WriteGrows
  <1>13. b.marker[s].status = status /\ b.marker[s].target = a.marker[s].target
    BY <1>4
  <1> HIDE DEF b
  <1> QED
    BY <1>3, <1>11, <1>12, <1>13

\* A write to the events seen or to the outbox.
LEMMA EventSound ==
    ASSUME NEW cap, NEW a, NEW b, Sound(a, cap), b \in Image,
           b.cust = a.cust, b.exp = a.exp, b.revoked = a.revoked,
           b.ptr = a.ptr, b.marker = a.marker,
           \A e \in Events : e \in b.seen \/ b.outbox[e] = "committed" => PaidIn(a, e)
    PROVE  Sound(b, cap) /\ Keeps(a, b)
  <1>1. Shape(a) /\ a \in Image
    BY DEF Sound, Shape
  <1>2. Known(b) <=> Known(a)
    BY DEF Known
  <1>3. Shape(b)
    BY <1>1, <1>2 DEF Shape
  <1>4. Keeps(a, b)
    BY <1>1, <1>2, <1>3 DEF Keeps, Image, Shape
  <1>5. Settled(b)
    BY <1>1, <1>3, <1>4, KeptSettled DEF Sound
  <1>6. Covered(b)
    BY <1>1, <1>3, <1>4, KeptPaid DEF Covered
  <1>7. Stacked(b) /\ Capped(b, cap)
    BY <1>2, SameBudget DEF Sound, Stacked, Capped
  <1> QED
    BY <1>3, <1>4, <1>5, <1>6, <1>7 DEF Sound

LEMMA CoveredPaid ==
    ASSUME NEW cap, NEW d, Sound(d, cap), NEW e \in Events,
           e \in d.seen \/ d.outbox[e] = "committed"
    PROVE  PaidIn(d, e)
  BY DEF Sound, Covered

\* What a request or the drain knew of the image before, it knows of this one.
SameBusiness(a, b) ==
    b.cust = a.cust /\ b.exp = a.exp /\ b.revoked = a.revoked /\ b.marker = a.marker

LEMMA MarkSeenIs ==
    ASSUME NEW cap, NEW d, NEW tr, Grows(d, tr, cap), NEW e \in Events, PaidIn(Disk(tr), e)
    PROVE  Grows(d, MarkSeen(tr, e), cap) /\ SameBusiness(Disk(tr), Disk(MarkSeen(tr, e)))
  <1> DEFINE a == Disk(tr)
             b == [a EXCEPT !.seen = @ \cup {e}]
  <1>1. Sound(a, cap) /\ a \in Image
    BY DiskIs DEF Sound, Shape
  <1>2. b \in Image /\ b.ptr = a.ptr /\ SameBusiness(a, b)
        /\ b.seen = a.seen \cup {e} /\ b.outbox = a.outbox
    BY <1>1 DEF Image, SameBusiness
  <1>3. \A f \in Events : f \in b.seen \/ b.outbox[f] = "committed" => PaidIn(a, f)
    BY <1>1, <1>2, CoveredPaid
  <1>4. Sound(b, cap) /\ Keeps(a, b)
    BY <1>1, <1>2, <1>3, EventSound DEF SameBusiness
  <1>5. MarkSeen(tr, e) = Write(tr, b)
    BY DEF MarkSeen
  <1>6. Grows(d, Write(tr, b), cap) /\ Disk(Write(tr, b)) = b
    BY <1>4, WriteGrows
  <1> QED
    BY <1>2, <1>5, <1>6

LEMMA OutboxIs ==
    ASSUME NEW cap, NEW d, NEW tr, Grows(d, tr, cap), NEW e \in Events,
           NEW row \in {"none", "staged", "committed"},
           row = "committed" => PaidIn(Disk(tr), e),
           NEW b, b = [Disk(tr) EXCEPT !.outbox[e] = row]
    PROVE  /\ Grows(d, Write(tr, b), cap)
           /\ SameBusiness(Disk(tr), Disk(Write(tr, b)))
           /\ Disk(Write(tr, b)).seen = Disk(tr).seen
  <1> DEFINE a == Disk(tr)
  <1>1. Sound(a, cap) /\ a \in Image
    BY DiskIs DEF Sound, Shape
  <1>2. b \in Image /\ b.ptr = a.ptr /\ SameBusiness(a, b) /\ b.seen = a.seen
        /\ b.outbox = [a.outbox EXCEPT ![e] = row]
    BY <1>1 DEF Image, SameBusiness
  <1>3. \A f \in Events : f # e => b.outbox[f] = a.outbox[f]
    BY <1>1, <1>2 DEF Image
  <1>4. b.outbox[e] = row
    BY <1>1, <1>2 DEF Image
  <1>5. \A f \in Events : f \in b.seen \/ b.outbox[f] = "committed" => PaidIn(a, f)
    BY <1>1, <1>2, <1>3, <1>4, CoveredPaid
  <1>6. Sound(b, cap) /\ Keeps(a, b)
    BY <1>1, <1>2, <1>5, EventSound DEF SameBusiness
  <1>7. Grows(d, Write(tr, b), cap) /\ Disk(Write(tr, b)) = b
    BY <1>6, WriteGrows
  <1> QED
    BY <1>2, <1>7

LEMMA StageIs ==
    ASSUME NEW cap, NEW d, NEW tr, Grows(d, tr, cap), NEW e \in Events
    PROVE  Grows(d, Stage(tr, e), cap) /\ SameBusiness(Disk(tr), Disk(Stage(tr, e)))
           /\ Disk(Stage(tr, e)).seen = Disk(tr).seen
  BY OutboxIs DEF Stage, SameBusiness

LEMMA CommitIs ==
    ASSUME NEW cap, NEW d, NEW tr, Grows(d, tr, cap), NEW e \in Events, PaidIn(Disk(tr), e)
    PROVE  Grows(d, Commit(tr, e), cap) /\ SameBusiness(Disk(tr), Disk(Commit(tr, e)))
  BY OutboxIs DEF Commit, SameBusiness

LEMMA CompleteIs ==
    ASSUME NEW cap, NEW d, NEW tr, Grows(d, tr, cap), NEW e \in Events
    PROVE  Grows(d, Complete(tr, e), cap) /\ SameBusiness(Disk(tr), Disk(Complete(tr, e)))
  BY OutboxIs DEF Complete, SameBusiness

LEMMA SamePaid ==
    ASSUME NEW a, NEW b, SameBusiness(a, b), NEW e
    PROVE  PaidIn(b, e) <=> PaidIn(a, e)
  BY DEF SameBusiness, PaidIn, Granted, Known

-----------------------------------------------------------------------------
(* what each handler leaves behind *)

LEMMA RowOfNoCustomer == NoCustomer \in Row /\ NoCustomer.lic = NoLicence
  BY DEF NoCustomer, Row, NoLicence, NoTime

LEMMA FreeEvent ==
    ASSUME NEW d, NEW e \in Events, Facts[e].kind \notin {"purchase", "paid"}
    PROVE  PaidIn(d, e)
  BY DEF PaidIn

LEMMA ResultIs ==
    ASSUME NEW tr, NEW pc, NEW rec
    PROVE  /\ Result(tr, pc, rec).tr = tr /\ Result(tr, pc, rec).pc = pc
           /\ Result(tr, pc, rec).rec = rec
  BY DEF Result

LEMMA FailsIs ==
    ASSUME NEW cap, NEW d, NEW tr, Grows(d, tr, cap), NEW e
    PROVE  Owed(d, e, Fails(tr), cap) /\ Fails(tr).tr = tr /\ Fails(tr).pc = "failed"
  BY ResultIs DEF Owed, Fails

LEMMA FinishesIs ==
    ASSUME NEW cap, NEW d, NEW tr, Grows(d, tr, cap), NEW e \in Events, PaidIn(Disk(tr), e)
    PROVE  Owed(d, e, Finishes(tr), cap) /\ Finishes(tr).tr = tr /\ Finishes(tr).pc = "finish"
  <1>1. Finishes(tr).tr = tr /\ Finishes(tr).pc = "finish" /\ Finishes(tr).rec = NoCustomer
    BY ResultIs DEF Finishes
  <1>2. Holds(Disk(tr), "finish", e, NoCustomer)
    BY RowOfNoCustomer DEF Holds, Places
  <1> QED
    BY <1>1, <1>2 DEF Owed

LEMMA WelcomeIs ==
    ASSUME NEW cap, NEW d, NEW tr, Grows(d, tr, cap), NEW e \in Events, PaidIn(Disk(tr), e),
           Known(Disk(tr)), NEW rec \in Row, rec.lic = Disk(tr).cust.lic
    PROVE  /\ Owed(d, e, Welcome(tr, rec), cap) /\ Welcome(tr, rec).tr = tr
           /\ Welcome(tr, rec).pc \in {"mail", "finish"}
  <1>1. /\ Welcome(tr, rec).tr = tr /\ Welcome(tr, rec).rec = rec
        /\ Welcome(tr, rec).pc \in {"mail", "finish"}
    BY ResultIs DEF Welcome
  <1>2. \A pc \in {"mail", "finish"} : Holds(Disk(tr), pc, e, rec)
    BY DEF Holds, Places
  <1> QED
    BY <1>1, <1>2 DEF Owed

LEMMA NoteChargeIs ==
    ASSUME NEW rec \in Row, NEW charge \in STRING
    PROVE  NoteCharge(rec, charge) \in Row /\ NoteCharge(rec, charge).lic = rec.lic
  <1>1. rec.charges \cup {charge} \in SUBSET STRING
    BY DEF Row
  <1> QED
    BY <1>1 DEF NoteCharge, Row

\* A write of the row a sound image holds, with other facts in it.
LEMMA UpdateIs ==
    ASSUME NEW cap \in Nat, NEW d, NEW tr, Grows(d, tr, cap), Known(Disk(tr)),
           NEW rec \in Row, rec.lic = Disk(tr).cust.lic
    PROVE  /\ Grows(d, PutCustomer(tr, rec), cap) /\ Known(Disk(PutCustomer(tr, rec)))
           /\ Untouched(Disk(tr), Disk(PutCustomer(tr, rec)))
           /\ Disk(PutCustomer(tr, rec)).cust = rec
           /\ Disk(PutCustomer(tr, rec)).revoked = Disk(tr).revoked
           /\ \A t : Granted(Disk(tr), t) => Granted(Disk(PutCustomer(tr, rec)), t)
  <1>1. Shape(Disk(tr)) /\ Disk(tr) \in Image
    BY DiskIs DEF Sound, Shape
  <1>2. rec.lic \in DOMAIN Disk(tr).exp
    BY <1>1 DEF Shape
  <1>3. /\ Grows(d, PutCustomer(tr, rec), cap)
        /\ Disk(PutCustomer(tr, rec)) = [Disk(tr) EXCEPT !.cust = rec]
        /\ Known(Disk(PutCustomer(tr, rec)))
        /\ Untouched(Disk(tr), Disk(PutCustomer(tr, rec)))
    BY <1>2, PutCustomerIs
  <1>4. /\ Disk(PutCustomer(tr, rec)).cust = rec
        /\ Disk(PutCustomer(tr, rec)).exp = Disk(tr).exp
        /\ Disk(PutCustomer(tr, rec)).revoked = Disk(tr).revoked
    BY <1>1, <1>3 DEF Image
  <1> QED
    BY <1>3, <1>4 DEF Granted

LEMMA CustIs ==
    ASSUME NEW cap, NEW d, NEW tr, Grows(d, tr, cap)
    PROVE  Disk(tr).cust \in Row /\ (Known(Disk(tr)) <=> Disk(tr).cust.lic # NoLicence)
  BY DiskIs, RowOfNoCustomer DEF Sound, Shape, Image, Known

LEMMA OnSubscriptionCheckoutIs ==
    ASSUME NEW cap, IsCap(cap), now \in Nat, NEW d, NEW tr, Grows(d, tr, cap),
           NEW e \in Events, Facts[e].kind = "subscribe"
    PROVE  /\ Owed(d, e, OnSubscriptionCheckout(tr, e), cap)
           /\ OnSubscriptionCheckout(tr, e).pc # "recovered"
           /\ Disk(OnSubscriptionCheckout(tr, e).tr).marker = Disk(tr).marker
  <1> DEFINE known == EnsureCustomer(tr, TRUE, now + Bootstrap)
             row == [Disk(known).cust EXCEPT !.sub = TRUE]
             rec == NoteCharge(row, Facts[e].charge)
  <1>1. cap \in Nat /\ now + Bootstrap \in Nat /\ now + Bootstrap <= Budget(Disk(tr), cap)
    BY BudgetIs, TermAssumption DEF IsCap
  <1>2. Grows(d, known, cap) /\ Known(Disk(known)) /\ Untouched(Disk(tr), Disk(known))
    BY <1>1, EnsureCustomerIs
  <1> HIDE DEF known
  <1>3. row \in Row /\ row.lic = Disk(known).cust.lic
    BY <1>2, CustIs DEF Row
  <1> HIDE DEF row
  <1>4. rec \in Row /\ rec.lic = Disk(known).cust.lic
    BY <1>3, NoteChargeIs, EventFact
  <1> HIDE DEF rec
  <1>5. /\ Grows(d, PutCustomer(known, rec), cap) /\ Known(Disk(PutCustomer(known, rec)))
        /\ Untouched(Disk(known), Disk(PutCustomer(known, rec)))
        /\ Disk(PutCustomer(known, rec)).cust = rec
    BY <1>1, <1>2, <1>4, UpdateIs
  <1>6. OnSubscriptionCheckout(tr, e) = Welcome(PutCustomer(known, rec), rec)
    BY DEF OnSubscriptionCheckout, known, row, rec
  <1>7. PaidIn(Disk(PutCustomer(known, rec)), e)
    BY FreeEvent
  <1>8. /\ Owed(d, e, Welcome(PutCustomer(known, rec), rec), cap)
        /\ Welcome(PutCustomer(known, rec), rec).tr = PutCustomer(known, rec)
        /\ Welcome(PutCustomer(known, rec), rec).pc \in {"mail", "finish"}
    BY <1>4, <1>5, <1>7, WelcomeIs
  <1> QED
    BY <1>2, <1>5, <1>6, <1>8 DEF Untouched

LEMMA PaidTermIs ==
    ASSUME NEW rec \in Row, NEW end \in Nat
    PROVE  PaidTerm(rec, end) \in Row /\ PaidTerm(rec, end).lic = rec.lic
  <1>1. Later(rec.paid, end) \in Nat /\ NoTime \in Nat
        /\ Later(rec.paid, end) + Grace \in Nat
    BY BillingAssumption DEF Row, Later, NoTime
  <1> QED
    BY <1>1 DEF PaidTerm, Row

LEMMA OnInvoicePaidIs ==
    ASSUME NEW cap, IsCap(cap), NEW d, NEW tr, Grows(d, tr, cap),
           NEW e \in Events, Facts[e].kind = "paid"
    PROVE  /\ Owed(d, e, OnInvoicePaid(tr, e), cap)
           /\ OnInvoicePaid(tr, e).pc # "recovered"
           /\ Disk(OnInvoicePaid(tr, e).tr).marker = Disk(tr).marker
  <1> DEFINE target == Facts[e].end + Grace
             known == EnsureCustomer(tr, TRUE, target)
             row == PaidTerm(Disk(known).cust, Facts[e].end)
             rec == NoteCharge(row, Facts[e].charge)
             ext == ExtendLicense(known, rec.lic, target)
             put == PutCustomer(ext, rec)
  <1>1. cap \in Nat /\ target \in Nat /\ target <= cap
    BY EventFact, BillingAssumption DEF IsCap
  <1>2. \A x : target <= Budget(x, cap)
    BY <1>1, BudgetIs
  <1> HIDE DEF target
  <1>3. Grows(d, known, cap) /\ Known(Disk(known)) /\ Untouched(Disk(tr), Disk(known))
    BY <1>1, <1>2, EnsureCustomerIs
  <1> HIDE DEF known
  <1>4. rec \in Row /\ rec.lic = Disk(known).cust.lic
    <2>1. row \in Row /\ row.lic = Disk(known).cust.lic
      BY <1>3, CustIs, PaidTermIs, EventFact
    <2> HIDE DEF row
    <2> QED
      BY <2>1, NoteChargeIs, EventFact
  <1> HIDE DEF row, rec
  <1>5. /\ Grows(d, ext, cap) /\ Disk(ext).cust = Disk(known).cust
        /\ Untouched(Disk(known), Disk(ext)) /\ Granted(Disk(ext), target)
    BY <1>1, <1>2, <1>3, <1>4, ExtendLicenseIs
  <1>6. Known(Disk(ext))
    BY <1>5 DEF Granted
  <1> HIDE DEF ext
  <1>7. /\ Grows(d, put, cap) /\ Known(Disk(put)) /\ Untouched(Disk(ext), Disk(put))
        /\ Disk(put).cust = rec /\ Granted(Disk(put), target)
    BY <1>1, <1>4, <1>5, <1>6, UpdateIs
  <1>8. PaidIn(Disk(put), e)
    BY <1>7 DEF PaidIn, target
  <1>9. CASE CannotIssue(Disk(tr), target)
    <2>1. OnInvoicePaid(tr, e) = Fails(tr)
      BY <1>9 DEF OnInvoicePaid, target
    <2> QED
      BY <2>1, FailsIs
  <1>10. CASE ~CannotIssue(Disk(tr), target)
    <2>1. OnInvoicePaid(tr, e) = Welcome(put, rec)
      BY <1>10 DEF OnInvoicePaid, target, known, row, rec, ext
    <2> HIDE DEF put
    <2>2. Owed(d, e, Welcome(put, rec), cap) /\ Welcome(put, rec).tr = put
          /\ Welcome(put, rec).pc \in {"mail", "finish"}
      BY <1>4, <1>7, <1>8, WelcomeIs
    <2> QED
      BY <1>3, <1>5, <1>7, <2>1, <2>2 DEF Untouched
  <1> QED
    BY <1>9, <1>10

LEMMA Least ==
    ASSUME NEW S, S \subseteq Nat, NEW a, NEW b, NEW c, c \in S, S \subseteq {a, b, c}
    PROVE  (CHOOSE t \in S : \A u \in S : t <= u) \in Nat
  <1>1. \E t \in S : \A u \in S : t <= u
    <2>1. CASE a \in S /\ \A u \in S : a <= u
      BY <2>1
    <2>2. CASE b \in S /\ \A u \in S : b <= u
      BY <2>2
    <2>3. CASE ~(a \in S /\ \A u \in S : a <= u) /\ ~(b \in S /\ \A u \in S : b <= u)
      BY <2>3
    <2> QED
      BY <2>1, <2>2, <2>3
  <1> QED
    BY <1>1

\* The handlers that neither grant a term nor await anything more.
Modest(tr, res) == res.pc \in {"finish", "failed"} /\ Disk(res.tr).marker = Disk(tr).marker

LEMMA EndsIs ==
    ASSUME NEW cap, NEW d, NEW tr, Grows(d, tr, cap),
           NEW e \in Events, Facts[e].kind \notin {"purchase", "paid"}
    PROVE  Owed(d, e, Finishes(tr), cap) /\ Modest(tr, Finishes(tr))
  BY FinishesIs, FreeEvent DEF Modest

LEMMA NotesIs ==
    ASSUME NEW cap \in Nat, NEW d, NEW tr, Grows(d, tr, cap), Known(Disk(tr)),
           NEW rec \in Row, rec.lic = Disk(tr).cust.lic,
           NEW e \in Events, Facts[e].kind \notin {"purchase", "paid"}
    PROVE  /\ Owed(d, e, Finishes(PutCustomer(tr, rec)), cap)
           /\ Modest(tr, Finishes(PutCustomer(tr, rec)))
  <1> DEFINE put == PutCustomer(tr, rec)
  <1>1. Grows(d, put, cap) /\ Untouched(Disk(tr), Disk(put))
    BY UpdateIs
  <1> HIDE DEF put
  <1>2. Owed(d, e, Finishes(put), cap) /\ Finishes(put).tr = put /\ Finishes(put).pc = "finish"
    BY <1>1, FinishesIs, FreeEvent
  <1>3. Modest(tr, Finishes(put))
    BY <1>1, <1>2 DEF Modest, Untouched
  <1> QED
    BY <1>2, <1>3 DEF put

LEMMA OnInvoiceFailedIs ==
    ASSUME NEW cap \in Nat, NEW d, NEW tr, Grows(d, tr, cap),
           NEW e \in Events, Facts[e].kind = "failed"
    PROVE  Owed(d, e, OnInvoiceFailed(tr, e), cap) /\ Modest(tr, OnInvoiceFailed(tr, e))
  <1> DEFINE rec == Disk(tr).cust
             start == Facts[e].start
             unpaid == IF rec.unpaid = NoTime THEN start ELSE Sooner(rec.unpaid, start)
             limit == Grace + (IF rec.paid = NoTime THEN unpaid ELSE rec.paid)
             licensed == {Disk(tr).exp[l] : l \in {rec.lic} \ (Disk(tr).revoked \cup {NoLicence})}
             times == {t \in {rec.ends} : t # NoTime} \cup licensed \cup {limit}
             ends == CHOOSE t \in times : \A u \in times : t <= u
             new == [rec EXCEPT !.unpaid = unpaid, !.ends = ends]
  <1>1. CASE ~Known(Disk(tr)) \/ rec.paid > start
    <2>1. OnInvoiceFailed(tr, e) = Finishes(tr)
      BY <1>1 DEF OnInvoiceFailed
    <2> QED
      BY <2>1, EndsIs
  <1>2. CASE Known(Disk(tr)) /\ ~(rec.paid > start)
    <2>1. Disk(tr) \in Image /\ Shape(Disk(tr)) /\ rec \in Row
      BY DiskIs DEF Sound, Shape, Image
    <2>2. unpaid \in Nat /\ limit \in Nat
      BY <2>1, EventFact, BillingAssumption DEF Row, Sooner
    <2>3. rec.lic \in DOMAIN Disk(tr).exp /\ Disk(tr).exp[rec.lic] \in Nat
      BY <1>2, <2>1 DEF Shape, Image
    <2>4. times \subseteq Nat /\ limit \in times
          /\ times \subseteq {rec.ends, Disk(tr).exp[rec.lic], limit}
      BY <2>1, <2>2, <2>3 DEF Row
    <2> HIDE DEF times, limit, unpaid
    <2>5. ends \in Nat
      BY <2>4, Least
    <2>6. OnInvoiceFailed(tr, e) = Finishes(PutCustomer(tr, new))
      BY <1>2 DEF OnInvoiceFailed, times, limit, unpaid
    <2> HIDE DEF ends
    <2>7. new \in Row /\ new.lic = rec.lic
      BY <2>1, <2>2, <2>5 DEF Row
    <2> HIDE DEF new
    <2> QED
      BY <1>2, <2>6, <2>7, NotesIs
  <1> QED
    BY <1>1, <1>2

LEMMA OnSubscriptionUpdatedIs ==
    ASSUME NEW cap \in Nat, NEW d, NEW tr, Grows(d, tr, cap),
           NEW e \in Events, Facts[e].kind = "status"
    PROVE  Owed(d, e, OnSubscriptionUpdated(tr), cap) /\ Modest(tr, OnSubscriptionUpdated(tr))
  <1> DEFINE new == [Disk(tr).cust EXCEPT !.sub = TRUE]
  <1>1. new \in Row /\ new.lic = Disk(tr).cust.lic
    BY CustIs DEF Row
  <1>2. CASE Known(Disk(tr))
    BY <1>1, <1>2, NotesIs DEF OnSubscriptionUpdated
  <1>3. CASE ~Known(Disk(tr))
    BY <1>3, EndsIs DEF OnSubscriptionUpdated
  <1> QED
    BY <1>2, <1>3

LEMMA OnChargeSucceededIs ==
    ASSUME NEW cap \in Nat, NEW d, NEW tr, Grows(d, tr, cap),
           NEW e \in Events, Facts[e].kind = "charge"
    PROVE  Owed(d, e, OnChargeSucceeded(tr, e), cap) /\ Modest(tr, OnChargeSucceeded(tr, e))
  <1> DEFINE new == NoteCharge(Disk(tr).cust, Facts[e].charge)
  <1>1. new \in Row /\ new.lic = Disk(tr).cust.lic
    BY CustIs, NoteChargeIs, EventFact
  <1>2. CASE Known(Disk(tr))
    <2>1. OnChargeSucceeded(tr, e) = Finishes(PutCustomer(tr, new))
      BY <1>2 DEF OnChargeSucceeded
    <2> HIDE DEF new
    <2> QED
      BY <1>1, <1>2, <2>1, NotesIs
  <1>3. CASE ~Known(Disk(tr))
    BY <1>3, EndsIs DEF OnChargeSucceeded
  <1> QED
    BY <1>2, <1>3

LEMMA RevokeCustomerIs ==
    ASSUME NEW cap \in Nat, NEW d, NEW tr, Grows(d, tr, cap), Known(Disk(tr)),
           NEW e \in Events, Facts[e].kind \notin {"purchase", "paid"}
    PROVE  Owed(d, e, RevokeCustomer(tr), cap) /\ Modest(tr, RevokeCustomer(tr))
  <1> DEFINE rec == Disk(tr).cust
             revoked == Revoke(tr, rec.lic)
  <1>1. /\ Grows(d, revoked, cap) /\ Disk(revoked).cust = rec /\ Untouched(Disk(tr), Disk(revoked))
        /\ Known(Disk(revoked)) /\ rec \in Row
    BY RevokeIs, CustIs DEF Known
  <1>2. RevokeCustomer(tr) = Finishes(PutCustomer(revoked, rec))
    BY DEF RevokeCustomer
  <1> HIDE DEF revoked, rec
  <1>3. /\ Owed(d, e, Finishes(PutCustomer(revoked, rec)), cap)
        /\ Modest(revoked, Finishes(PutCustomer(revoked, rec)))
    BY <1>1, NotesIs
  <1> QED
    BY <1>1, <1>2, <1>3 DEF Modest, Untouched

LEMMA OnRefundIs ==
    ASSUME NEW cap \in Nat, NEW d, NEW tr, Grows(d, tr, cap),
           NEW e \in Events, Facts[e].kind = "refund"
    PROVE  Owed(d, e, OnRefund(tr), cap) /\ Modest(tr, OnRefund(tr))
  BY RevokeCustomerIs, EndsIs DEF OnRefund

LEMMA OnDisputeIs ==
    ASSUME NEW cap \in Nat, NEW d, NEW tr, Grows(d, tr, cap),
           NEW e \in Events, Facts[e].kind = "dispute"
    PROVE  Owed(d, e, OnDispute(tr, e), cap) /\ Modest(tr, OnDispute(tr, e))
  <1>1. CASE Facts[e].charge \in Disk(tr).cust.charges
    <2>1. Known(Disk(tr))
      BY <1>1 DEF Known, NoCustomer
    <2> QED
      BY <1>1, <2>1, RevokeCustomerIs DEF OnDispute
  <1>2. CASE Facts[e].charge \notin Disk(tr).cust.charges
    BY <1>2, EndsIs DEF OnDispute
  <1> QED
    BY <1>1, <1>2

\* No handler but a purchase's touches the sessions or has one recovered.
LEMMA ApplyEventIs ==
    ASSUME NEW cap, IsCap(cap), NEW d, NEW tr, Grows(d, tr, cap), NEW e \in Events
    PROVE  /\ Owed(d, e, ApplyEvent(tr, e), cap) /\ ApplyEvent(tr, e).pc # "recovered"
           /\ Disk(ApplyEvent(tr, e).tr).marker = Disk(tr).marker
  <1>1. cap \in Nat /\ Facts[e].kind \in Kinds
    BY EventFact DEF IsCap
  <1>2. CASE Facts[e].kind \in {"purchase", "subscribe"}
    <2>1. ApplyEvent(tr, e) = Result(tr, "wait", NoCustomer)
      BY <1>2 DEF ApplyEvent
    <2>2. Holds(Disk(tr), "wait", e, NoCustomer)
      BY <1>2, RowOfNoCustomer DEF Holds, Places
    <2> QED
      BY <2>1, <2>2, ResultIs DEF Owed
  <1>3. CASE Facts[e].kind \in {"refund", "dispute"} /\ ~Held(Disk(tr), e)
    <2>1. ApplyEvent(tr, e) = Result(tr, "resolve", NoCustomer)
      BY <1>3 DEF ApplyEvent
    <2>2. Holds(Disk(tr), "resolve", e, NoCustomer)
      BY <1>3, RowOfNoCustomer DEF Holds, Places
    <2> QED
      BY <2>1, <2>2, ResultIs DEF Owed
  <1>4. CASE Facts[e].kind = "refund" /\ Held(Disk(tr), e)
    <2>1. ApplyEvent(tr, e) = OnRefund(tr)
      BY <1>4 DEF ApplyEvent
    <2> QED
      BY <1>1, <1>4, <2>1, OnRefundIs DEF Modest
  <1>5. CASE Facts[e].kind = "dispute" /\ Held(Disk(tr), e)
    <2>1. ApplyEvent(tr, e) = OnDispute(tr, e)
      BY <1>5 DEF ApplyEvent
    <2> QED
      BY <1>1, <1>5, <2>1, OnDisputeIs DEF Modest
  <1>6. CASE Facts[e].kind = "paid"
    <2>1. ApplyEvent(tr, e) = OnInvoicePaid(tr, e)
      BY <1>6 DEF ApplyEvent
    <2> QED
      BY <1>6, <2>1, OnInvoicePaidIs
  <1>7. CASE Facts[e].kind = "failed"
    <2>1. ApplyEvent(tr, e) = OnInvoiceFailed(tr, e)
      BY <1>7 DEF ApplyEvent
    <2> QED
      BY <1>1, <1>7, <2>1, OnInvoiceFailedIs DEF Modest
  <1>8. CASE Facts[e].kind = "status"
    <2>1. ApplyEvent(tr, e) = OnSubscriptionUpdated(tr)
      BY <1>8 DEF ApplyEvent
    <2> QED
      BY <1>1, <1>8, <2>1, OnSubscriptionUpdatedIs DEF Modest
  <1>9. CASE Facts[e].kind = "charge"
    <2>1. ApplyEvent(tr, e) = OnChargeSucceeded(tr, e)
      BY <1>9 DEF ApplyEvent
    <2> QED
      BY <1>1, <1>9, <2>1, OnChargeSucceededIs DEF Modest
  <1> QED
    BY <1>1, <1>2, <1>3, <1>4, <1>5, <1>6, <1>7, <1>8, <1>9 DEF Kinds

-----------------------------------------------------------------------------
(* one-off purchases *)

LEMMA ChargeOfIs ==
    ASSUME NEW s \in Offered
    PROVE  ChargeOf(s) \in STRING
  BY EventFact DEF ChargeOf, Offered

\* An applied session of an image is one whose purchase was paid out.
LEMMA AppliedIs ==
    ASSUME NEW d, NEW e \in Events, Facts[e].kind = "purchase",
           d.marker[Facts[e].session].status = "applied"
    PROVE  PaidIn(d, e)
  BY DEF PaidIn

\* Fulfil gives a claimed session its term, whatever it was owed before.
LEMMA FulfilIs ==
    ASSUME NEW cap \in Nat, NEW d, NEW tr, Grows(d, tr, cap),
           NEW s \in Sessions, s \in Offered, Disk(tr).marker[s].status = "pending",
           NEW res, res = Fulfil(tr, s)
    PROVE  /\ Grows(d, res.tr, cap) /\ res.pc \in {"failed", "mail", "finish"}
           /\ res.pc # "failed" =>
                /\ Disk(res.tr).marker[s].status = "applied" /\ NothingPending(Disk(res.tr))
                /\ Known(Disk(res.tr)) /\ res.rec \in Row /\ res.rec.lic = Disk(res.tr).cust.lic
  <1> DEFINE m == Disk(tr).marker[s]
             known == EnsureCustomer(tr, FALSE, m.target)
             rec == NoteCharge(Disk(known).cust, ChargeOf(s))
             bound == IF m.lic = NoLicence
                      THEN PutCheckoutSession(known, s, "pending", rec.lic) ELSE known
             ext == ExtendLicense(bound, rec.lic, m.target)
             put == PutCustomer(ext, rec)
             applied == PutCheckoutSession(put, s, "applied", rec.lic)
             cleared == ClearPending(applied, s)
  <1>1. m \in Mark /\ m # NoMarker /\ m.status = "pending" /\ m.target <= Budget(Disk(tr), cap)
    <2>1. Sound(Disk(tr), cap) /\ m \in Mark
      BY DiskIs DEF Sound, Shape, Image
    <2>2. m # NoMarker
      BY DEF NoMarker
    <2> QED
      BY <2>1, <2>2 DEF Sound, Capped, ClaimedIn
  <1>2. m.target \in Nat /\ Disk(tr).ptr = s
    BY <1>1, DiskIs DEF Mark, Sound, Stacked
  <1>3. Grows(d, known, cap) /\ Known(Disk(known)) /\ Untouched(Disk(tr), Disk(known))
    BY <1>1, <1>2, EnsureCustomerIs
  <1>4. Disk(known).marker[s] = m /\ Disk(known).ptr = s
    BY <1>2, <1>3 DEF Untouched
  <1> HIDE DEF m, known
  <1>5. rec \in Row /\ rec.lic = Disk(known).cust.lic /\ rec.lic \in Nat
    <2>1. rec \in Row /\ rec.lic = Disk(known).cust.lic
      BY <1>3, CustIs, NoteChargeIs, ChargeOfIs
    <2> QED
      BY <2>1 DEF Row
  <1> HIDE DEF rec
  <1>6. /\ Grows(d, bound, cap) /\ Disk(bound).cust = Disk(known).cust /\ Disk(bound).ptr = s
        /\ Disk(bound).marker[s].status = "pending" /\ Disk(bound).marker[s].target = m.target
    <2>1. CASE m.lic = NoLicence
      <3>1. "pending" \in {"pending", "applied"} /\ Disk(known).marker[s].status = "pending"
        BY <1>1, <1>4
      <3> QED
        BY <1>3, <1>4, <1>5, <2>1, <3>1, PutCheckoutSessionIs
    <2>2. CASE m.lic # NoLicence
      BY <1>1, <1>3, <1>4, <2>2
    <2> QED
      BY <2>1, <2>2
  <1> HIDE DEF bound
  <1>7. Known(Disk(bound)) /\ m.target <= Budget(Disk(bound), cap)
    <2>1. s \in ClaimedIn(Disk(bound))
      BY <1>6 DEF ClaimedIn, NoMarker
    <2> QED
      BY <1>3, <1>6, <2>1, DiskIs DEF Sound, Capped, Known
  <1>8. /\ Grows(d, ext, cap) /\ Disk(ext).cust = Disk(bound).cust
        /\ Untouched(Disk(bound), Disk(ext)) /\ Granted(Disk(ext), m.target)
    BY <1>2, <1>5, <1>6, <1>7, ExtendLicenseIs
  <1> HIDE DEF ext
  <1>9. /\ Grows(d, put, cap) /\ Known(Disk(put)) /\ Untouched(Disk(ext), Disk(put))
        /\ Disk(put).cust = rec /\ Granted(Disk(put), m.target)
    <2>1. Known(Disk(ext)) /\ rec.lic = Disk(ext).cust.lic
      BY <1>5, <1>6, <1>8 DEF Granted
    <2> QED
      BY <1>5, <1>8, <2>1, UpdateIs
  <1>10. Disk(put).marker[s].status = "pending" /\ Disk(put).marker[s].target = m.target
         /\ Disk(put).ptr = s
    BY <1>6, <1>8, <1>9 DEF Untouched
  <1> HIDE DEF put
  <1>11. /\ Grows(d, applied, cap) /\ Disk(applied).cust = rec /\ Disk(applied).ptr = s
         /\ Disk(applied).marker[s].status = "applied"
    <2>1. "applied" \in {"pending", "applied"}
      OBVIOUS
    <2> QED
      BY <1>5, <1>9, <1>10, <2>1, PutCheckoutSessionIs
  <1> HIDE DEF applied
  <1>12. /\ Grows(d, cleared, cap) /\ NothingPending(Disk(applied))
         /\ Disk(cleared).cust = rec /\ Disk(cleared).marker = Disk(applied).marker
    BY <1>11, ClearPendingIs
  <1> HIDE DEF cleared
  <1>13. /\ Disk(cleared).marker[s].status = "applied" /\ NothingPending(Disk(cleared))
         /\ Known(Disk(cleared)) /\ rec.lic = Disk(cleared).cust.lic
    <2>1. Known(Disk(cleared))
      BY <1>9, <1>12 DEF Known
    <2> QED
      BY <1>11, <1>12, <2>1 DEF NothingPending
  <1>14. CASE CannotIssue(Disk(tr), m.target)
    <2>1. res = Fails(tr)
      BY <1>14 DEF Fulfil, m
    <2> QED
      BY <2>1, FailsIs
  <1>15. CASE ~CannotIssue(Disk(tr), m.target) /\ m.lic \notin {NoLicence, rec.lic}
    <2>1. res = Fails(known)
      BY <1>15 DEF Fulfil, m, known, rec
    <2> QED
      BY <1>3, <2>1, FailsIs
  <1>16. CASE /\ ~CannotIssue(Disk(tr), m.target) /\ m.lic \in {NoLicence, rec.lic}
              /\ rec.lic \in Disk(tr).revoked
    <2>1. res = Fails(bound)
      BY <1>16 DEF Fulfil, m, known, rec, bound
    <2> QED
      BY <1>6, <2>1, FailsIs
  <1>17. CASE /\ ~CannotIssue(Disk(tr), m.target) /\ m.lic \in {NoLicence, rec.lic}
              /\ rec.lic \notin Disk(tr).revoked
    <2>1. res = Welcome(cleared, rec)
      BY <1>17 DEF Fulfil, m, known, rec, bound, ext, put, applied, cleared
    <2>2. res.tr = cleared /\ res.rec = rec /\ res.pc \in {"mail", "finish"}
      BY <2>1, ResultIs DEF Welcome
    <2> QED
      BY <1>5, <1>12, <1>13, <2>2
  <1> QED
    BY <1>14, <1>15, <1>16, <1>17

LEMMA RecoverPendingCheckoutIs ==
    ASSUME NEW cap \in Nat, NEW d, NEW tr, Grows(d, tr, cap),
           NEW res, res = RecoverPendingCheckout(tr)
    PROVE  /\ Grows(d, res.tr, cap) /\ res.pc \in {"failed", "recovered", "finish"}
           /\ res.pc # "failed" => NothingPending(Disk(res.tr))
           /\ res.pc = "recovered" =>
                Known(Disk(res.tr)) /\ res.rec \in Row /\ res.rec.lic = Disk(res.tr).cust.lic
  <1> DEFINE s == Disk(tr).ptr
             owed == Fulfil(tr, s)
  <1>1. Sound(Disk(tr), cap) /\ s \in Sessions \cup {NoSession} /\ (s # NoSession => s \in Offered)
    BY DiskIs DEF Sound, Shape, Image
  <1>2. CASE s = NoSession
    <2>1. NothingPending(Disk(tr))
      BY <1>1, <1>2, BillingAssumption DEF Sound, Stacked, NothingPending
    <2>2. res = Finishes(tr)
      BY <1>2 DEF RecoverPendingCheckout
    <2>3. res.tr = tr /\ res.pc = "finish"
      BY <2>2, ResultIs DEF Finishes
    <2> QED
      BY <2>1, <2>3
  <1>3. CASE s # NoSession /\ Disk(tr).marker[s].status \in {"none", "applied"}
    <2>1. res = Finishes(ClearPending(tr, s))
      BY <1>3 DEF RecoverPendingCheckout
    <2>2. res.tr = ClearPending(tr, s) /\ res.pc = "finish"
      BY <2>1, ResultIs DEF Finishes
    <2>3. /\ Grows(d, ClearPending(tr, s), cap) /\ NothingPending(Disk(tr))
          /\ Disk(ClearPending(tr, s)).marker = Disk(tr).marker
      BY <1>1, <1>3, ClearPendingIs
    <2> QED
      BY <2>2, <2>3 DEF NothingPending
  <1>4. CASE s # NoSession /\ Disk(tr).marker[s].status = "pending"
    <2>1. /\ Grows(d, owed.tr, cap) /\ owed.pc \in {"failed", "mail", "finish"}
          /\ owed.pc # "failed" =>
                /\ NothingPending(Disk(owed.tr)) /\ Known(Disk(owed.tr))
                /\ owed.rec \in Row /\ owed.rec.lic = Disk(owed.tr).cust.lic
      BY <1>1, <1>4, FulfilIs
    <2>2. res = IF owed.pc = "mail" THEN Result(owed.tr, "recovered", owed.rec) ELSE owed
      BY <1>4 DEF RecoverPendingCheckout
    <2> HIDE DEF owed
    <2> QED
      BY <2>1, <2>2, ResultIs
  <1>5. s # NoSession => Disk(tr).marker[s].status \in {"none", "pending", "applied"}
    BY <1>1 DEF Sound, Shape, Image, Mark
  <1> QED
    BY <1>2, <1>3, <1>4, <1>5

\* The next term starts where the last one ends, or now.
LEMMA PaymentTargetIs ==
    ASSUME NEW cap, IsCap(cap), now \in Nat, NEW d, Sound(d, cap), NothingPending(d),
           d.cust.lic \notin d.revoked
    PROVE  /\ PaymentTarget(d) \in Nat /\ PaymentTarget(d) <= Budget(d, cap) + OneOff
           /\ \A t \in ClaimedIn(d) : PaymentTarget(d) >= d.marker[t].target + OneOff
  <1>1. cap \in Nat /\ OneOff \in Nat /\ now <= cap
        /\ Budget(d, cap) \in Nat /\ cap <= Budget(d, cap)
    BY BudgetIs, TermAssumption DEF IsCap
  <1>2. ASSUME NEW t \in ClaimedIn(d)
        PROVE  Known(d) /\ d.exp[d.cust.lic] >= d.marker[t].target /\ d.marker[t].target \in Nat
    <2>1. d.marker[t].status = "applied" /\ d.marker[t].target \in Nat
      BY DEF ClaimedIn, Sound, Shape, Stacked, NothingPending, Image, Mark
    <2> QED
      BY <2>1 DEF ClaimedIn, Sound, Settled, Granted
  <1>3. CASE Known(d)
    <2>1. d.exp[d.cust.lic] \in Nat /\ d.exp[d.cust.lic] <= Budget(d, cap)
      BY <1>3 DEF Sound, Shape, Image, Capped
    <2>2. PaymentTarget(d) = OneOff + Later(d.exp[d.cust.lic], now)
      BY <1>3 DEF PaymentTarget
    <2> QED
      BY <1>1, <1>2, <2>1, <2>2 DEF Later
  <1>4. CASE ~Known(d)
    <2>1. PaymentTarget(d) = OneOff + now
      BY <1>4 DEF PaymentTarget
    <2> QED
      BY <1>1, <1>2, <1>4, <2>1
  <1> QED
    BY <1>3, <1>4

LEMMA PaymentCheckoutIs ==
    ASSUME NEW cap, IsCap(cap), now \in Nat, NEW d, NEW tr, Grows(d, tr, cap),
           NothingPending(Disk(tr)), NEW e \in Events, Facts[e].kind = "purchase",
           NEW s, s = Facts[e].session, NEW res, res = PaymentCheckout(tr, s)
    PROVE  Owed(d, e, res, cap) /\ res.pc # "recovered"
  <1> DEFINE image == Disk(tr)
             charge == NoteCharge(image.cust, ChargeOf(s))
             pending == PutPending(tr, s)
             target == PaymentTarget(image)
             claimed == ClaimCheckoutSession(pending, s, target, image.cust.lic)
             duplicate == PutCustomer(claimed, charge)
             cleared == ClearPending(duplicate, s)
             owed == Fulfil(claimed, s)
  <1>1. cap \in Nat /\ s \in Sessions /\ s \in Offered
    BY EventFact DEF IsCap
  <1>2. Sound(image, cap) /\ image \in Image /\ image.cust.lic \in Nat /\ image.cust \in Row
    BY DiskIs DEF Sound, Shape, Image, Row
  <1>3. Grows(d, pending, cap) /\ Disk(pending) = [image EXCEPT !.ptr = s]
    BY <1>1, PutPendingIs DEF NothingPending
  <1>4. /\ Disk(pending).ptr = s /\ Disk(pending).cust = image.cust
        /\ Disk(pending).exp = image.exp /\ Disk(pending).revoked = image.revoked
        /\ Disk(pending).marker = image.marker
    BY <1>2, <1>3 DEF Image
  <1>5. ClaimedIn(Disk(pending)) = ClaimedIn(image)
        /\ Budget(Disk(pending), cap) = Budget(image, cap)
    BY <1>4, SameBudget
  <1> HIDE DEF pending
  <1>6. CASE image.cust.lic \in image.revoked /\ image.marker[s].status = "applied"
    <2>1. res = Finishes(tr)
      BY <1>6 DEF PaymentCheckout
    <2>2. PaidIn(Disk(tr), e)
      BY <1>6, AppliedIs
    <2> QED
      BY <2>1, <2>2, FinishesIs
  <1>7. CASE image.cust.lic \in image.revoked /\ image.marker[s].status # "applied"
    <2>1. res = Fails(tr)
      BY <1>7 DEF PaymentCheckout
    <2> QED
      BY <2>1, FailsIs
  <1>8. CASE image.cust.lic \notin image.revoked /\ image.marker[s].status = "applied"
    <2>1. claimed = pending
      BY <1>4, <1>8 DEF ClaimCheckoutSession, NoMarker
    <2> HIDE DEF claimed
    <2>2. Known(Disk(pending))
      BY <1>1, <1>2, <1>4, <1>8 DEF Sound, Settled, Granted, Known
    <2>3. charge \in Row /\ charge.lic = Disk(pending).cust.lic
      BY <1>1, <1>2, <1>4, NoteChargeIs, ChargeOfIs
    <2> HIDE DEF charge
    <2>4. Grows(d, duplicate, cap) /\ Untouched(Disk(pending), Disk(duplicate))
      BY <1>1, <1>3, <2>1, <2>2, <2>3, UpdateIs
    <2>5. Disk(duplicate).marker = image.marker
      BY <1>4, <2>4 DEF Untouched
    <2> HIDE DEF duplicate
    <2>6. Grows(d, cleared, cap) /\ Disk(cleared).marker = image.marker
      <3>1. Disk(duplicate).marker[s].status # "pending"
        BY <1>8, <2>5
      <3> QED
        BY <1>1, <2>4, <2>5, <3>1, ClearPendingIs
    <2>7. res = Finishes(cleared)
      BY <1>8 DEF PaymentCheckout, cleared, duplicate, claimed, charge, pending
    <2> HIDE DEF cleared
    <2>8. PaidIn(Disk(cleared), e)
      BY <1>8, <2>6, AppliedIs
    <2> QED
      BY <2>6, <2>7, <2>8, FinishesIs
  <1>9. CASE image.cust.lic \notin image.revoked /\ image.marker[s].status # "applied"
    <2>1. /\ target \in Nat /\ target <= Budget(image, cap) + OneOff
          /\ \A t \in ClaimedIn(image) : target >= image.marker[t].target + OneOff
      BY <1>2, <1>9, PaymentTargetIs
    <2> HIDE DEF target
    <2>2. Grows(d, claimed, cap) /\ Disk(claimed).marker[s].status = "pending"
      <3>1. /\ \A t \in ClaimedIn(Disk(pending)) :
                    target >= Disk(pending).marker[t].target + OneOff
            /\ target <= Budget(Disk(pending), cap) + OneOff
        BY <1>4, <1>5, <2>1
      <3>2. Disk(pending).ptr = s /\ Disk(pending).marker[s].status # "applied"
        BY <1>4, <1>9
      <3>3. Grows(d, pending, cap) /\ s \in Sessions /\ cap \in Nat /\ target \in Nat
            /\ image.cust.lic \in Nat
        BY <1>1, <1>2, <1>3, <2>1
      <3> HIDE DEF image
      <3> QED
        BY <3>1, <3>2, <3>3, ClaimIs
    <2>3. res = owed
      BY <1>9 DEF PaymentCheckout, claimed, pending, target
    <2> HIDE DEF claimed
    <2>4. /\ Grows(d, owed.tr, cap) /\ owed.pc \in {"failed", "mail", "finish"}
          /\ owed.pc # "failed" =>
                /\ Disk(owed.tr).marker[s].status = "applied" /\ Known(Disk(owed.tr))
                /\ owed.rec \in Row /\ owed.rec.lic = Disk(owed.tr).cust.lic
      BY <1>1, <2>2, FulfilIs
    <2> HIDE DEF owed
    <2>5. owed.pc # "failed" => PaidIn(Disk(owed.tr), e)
      BY <2>4, AppliedIs
    <2> QED
      BY <2>3, <2>4, <2>5 DEF Owed, Holds, Places
  <1> QED
    BY <1>6, <1>7, <1>8, <1>9

LEMMA OnPaymentCheckoutIs ==
    ASSUME NEW cap, IsCap(cap), now \in Nat, NEW d, NEW tr, Grows(d, tr, cap),
           NEW e \in Events, Facts[e].kind = "purchase"
    PROVE  Owed(d, e, OnPaymentCheckout(tr, e), cap)
  <1> DEFINE recovery == RecoverPendingCheckout(tr)
  <1>1. cap \in Nat
    BY DEF IsCap
  <1>2. /\ Grows(d, recovery.tr, cap) /\ recovery.pc \in {"failed", "recovered", "finish"}
        /\ recovery.pc # "failed" => NothingPending(Disk(recovery.tr))
        /\ recovery.pc = "recovered" =>
                /\ Known(Disk(recovery.tr)) /\ recovery.rec \in Row
                /\ recovery.rec.lic = Disk(recovery.tr).cust.lic
    BY <1>1, RecoverPendingCheckoutIs
  <1>3. CASE recovery.pc = "finish"
    <2>1. OnPaymentCheckout(tr, e) = PaymentCheckout(recovery.tr, Facts[e].session)
      BY <1>3 DEF OnPaymentCheckout
    <2> HIDE DEF recovery
    <2> QED
      BY <1>2, <1>3, <2>1, PaymentCheckoutIs
  <1>4. CASE recovery.pc # "finish"
    <2>1. OnPaymentCheckout(tr, e) = recovery
      BY <1>4 DEF OnPaymentCheckout
    <2> HIDE DEF recovery
    <2> QED
      BY <1>2, <1>4, <2>1 DEF Owed, Holds, Places
  <1> QED
    BY <1>3, <1>4

\* The charge a look-up at Stripe found to be the customer's.
LEMMA ResolveAnswerIs ==
    ASSUME NEW cap, IsCap(cap), NEW d, NEW tr, Grows(d, tr, cap), NEW e \in Events,
           Facts[e].kind \in {"refund", "dispute"},
           NEW linked, linked = IF Facts[e].end # NoTime /\ Disk(tr).cust.sub
                                THEN PutCustomer(tr, NoteCharge(Disk(tr).cust, Facts[e].charge))
                                ELSE tr,
           NEW res,
           res = IF Facts[e].kind = "refund" THEN OnRefund(linked) ELSE OnDispute(linked, e)
    PROVE  /\ Owed(d, e, res, cap) /\ res.pc # "recovered"
           /\ Disk(res.tr).marker = Disk(tr).marker
  <1> DEFINE rec == NoteCharge(Disk(tr).cust, Facts[e].charge)
  <1>1. cap \in Nat /\ rec \in Row /\ rec.lic = Disk(tr).cust.lic
    BY CustIs, NoteChargeIs, EventFact DEF IsCap
  <1>2. CASE Facts[e].end # NoTime /\ Disk(tr).cust.sub
    <2>1. Known(Disk(tr))
      BY <1>2 DEF Known, NoCustomer
    <2>2. linked = PutCustomer(tr, rec)
      BY <1>2
    <2> HIDE DEF rec
    <2>3. Grows(d, linked, cap) /\ Disk(linked).marker = Disk(tr).marker
      BY <1>1, <2>1, <2>2, UpdateIs DEF Untouched
    <2> QED
      BY <1>1, <2>3, OnRefundIs, OnDisputeIs DEF Modest
  <1>3. CASE ~(Facts[e].end # NoTime /\ Disk(tr).cust.sub)
    <2>1. linked = tr
      BY <1>3
    <2> QED
      BY <1>1, <2>1, OnRefundIs, OnDisputeIs DEF Modest
  <1> QED
    BY <1>2, <1>3

-----------------------------------------------------------------------------
(* the longest term there is *)

\* By minimality: a finite set without a greatest number has a least such
\* subset, and one of its members tops the rest.
LEMMA LongestIs ==
    ASSUME NEW S, IsFiniteSet(S), S \subseteq Nat, S # {}
    PROVE  Longest(S) \in S /\ \A u \in S : u <= Longest(S)
  <1> DEFINE Top(X) == \E t \in X : \A u \in X : u <= t
             Bad == {X \in FiniteSubsetsOf(S) : X # {} /\ ~Top(X)}
  <1>1. Bad = {}
    <2>1. SUFFICES ASSUME Bad # {}
                   PROVE  FALSE
      OBVIOUS
    <2>2. PICK X \in Bad : \A Y \in Bad : ~ (<<Y, X>> \in StrictSubsetOrdering(S))
      <3>1. Bad \subseteq FiniteSubsetsOf(S)
        OBVIOUS
      <3> HIDE DEF Bad
      <3> QED
        BY <2>1, <3>1, FS_StrictSubsetOrderingWellFounded, WFMin
    <2>3. PICK x \in X : TRUE
      BY <2>2
    <2>4. X \subseteq S /\ IsFiniteSet(X) /\ ~Top(X)
      BY <2>2 DEF FiniteSubsetsOf
    <2>5. X \ {x} \in FiniteSubsetsOf(S) /\ <<X \ {x}, X>> \in StrictSubsetOrdering(S)
      BY <2>3, <2>4, FS_RemoveElement DEF FiniteSubsetsOf, StrictSubsetOrdering
    <2>6. X \ {x} = {} \/ Top(X \ {x})
      BY <2>2, <2>5
    <2>7. Top(X)
      <3>1. CASE X \ {x} = {}
        BY <2>3, <2>4, <3>1
      <3>2. CASE Top(X \ {x})
        <4>1. PICK t \in X \ {x} : \A u \in X \ {x} : u <= t
          BY <3>2
        <4>2. t \in Nat /\ x \in Nat /\ \A u \in X : u \in Nat
          BY <2>3, <2>4, <4>1
        <4>3. CASE x <= t
          BY <4>1, <4>3
        <4>4. CASE t <= x
          BY <2>3, <4>1, <4>2, <4>4
        <4> QED
          BY <4>2, <4>3, <4>4
      <3> QED
        BY <2>6, <3>1, <3>2
    <2> QED
      BY <2>4, <2>7
  <1>2. S \in FiniteSubsetsOf(S)
    BY DEF FiniteSubsetsOf
  <1>3. \E t \in S : \A u \in S : u <= t
    BY <1>1, <1>2
  <1> QED
    BY <1>3 DEF Longest

LEMMA TermsCap == now \in Nat => IsCap(Longest(Terms)) /\ Longest(Terms) \in Terms
  <1> SUFFICES ASSUME now \in Nat
               PROVE  IsCap(Longest(Terms)) /\ Longest(Terms) \in Terms
    OBVIOUS
  <1> DEFINE P == {f \in Events : Facts[f].kind = "paid"}
             T == {Facts[e].end + Grace : e \in P}
             f == [e \in P |-> Facts[e].end + Grace]
  <1>1. IsFiniteSet(P)
    BY FS_Subset, BillingAssumption
  <1>2. f \in Surjection(P, T)
    BY DEF Surjection
  <1>3. IsFiniteSet(T)
    BY <1>1, <1>2, FS_Surjection
  <1>4. Terms = T \cup {now + Bootstrap}
    BY DEF Terms
  <1>5. IsFiniteSet(Terms)
    BY <1>3, <1>4, FS_AddElement
  <1>6. \A e \in Events : Facts[e].end + Grace \in Nat
    BY EventFact, BillingAssumption
  <1>7. now + Bootstrap \in Nat
    BY TermAssumption
  <1>8. Terms \subseteq Nat /\ now + Bootstrap \in Terms
        /\ \A e \in Events : Facts[e].kind = "paid" => Facts[e].end + Grace \in Terms
    BY <1>4, <1>6, <1>7
  <1>9. Longest(Terms) \in Terms /\ \A u \in Terms : u <= Longest(Terms)
    BY <1>5, <1>8, LongestIs
  <1> QED
    BY <1>8, <1>9 DEF IsCap

LEMMA LaterCap ==
    ASSUME NEW cap \in Nat, NEW more \in Nat, cap <= more, NEW d, Sound(d, cap)
    PROVE  Sound(d, more)
  <1>1. OneOff * Cardinality(ClaimedIn(d)) \in Nat
    BY BudgetIs, TermAssumption
  <1>2. Budget(d, cap) <= Budget(d, more) /\ Budget(d, cap) \in Nat /\ Budget(d, more) \in Nat
    BY <1>1 DEF Budget
  <1>3. Known(d) => d.exp[d.cust.lic] \in Nat
    BY DEF Sound, Shape, Image
  <1>4. \A s \in Sessions : d.marker[s].target \in Nat
    BY DEF Sound, Shape, Image, Mark
  <1>5. Capped(d, more)
    BY <1>2, <1>3, <1>4 DEF Sound, Capped, ClaimedIn
  <1> QED
    BY <1>5 DEF Sound

-----------------------------------------------------------------------------
(* the invariant: what requests and the drain know outlives the others' steps *)

LEMMA HoldsKept ==
    ASSUME NEW a, NEW b, Shape(a), Shape(b), Keeps(a, b), NEW pc, NEW e, NEW rec,
           Holds(a, pc, e, rec), pc = "recovered" => NothingPending(b)
    PROVE  Holds(b, pc, e, rec)
  <1>1. Known(a) => Known(b) /\ b.cust.lic = a.cust.lic
    BY DEF Keeps
  <1>2. e \in Events /\ PaidIn(a, e) => PaidIn(b, e)
    BY KeptPaid
  <1> QED
    BY <1>1, <1>2 DEF Holds

LEMMA IdleHolds ==
    ASSUME NEW d
    PROVE  Holds(d, "idle", NoEvent, NoCustomer)
  BY RowOfNoCustomer DEF Holds, Places

\* A step leaves a sound disk that keeps what the one before it granted.
Moves(cap) == Shape(disk) /\ Sound(disk', cap) /\ Keeps(disk, disk')

Recovering(r) == rq[r].pc = "recovered"

LEMMA DrainKept ==
    ASSUME NEW cap, Moves(cap), DrainOK,
           drain' \in {drain, Resting},
           handed' = handed
    PROVE  DrainOK'
  <1>1. Shape(disk) /\ Shape(disk') /\ Keeps(disk, disk')
    BY DEF Moves, Sound
  <1>2. \A e \in Events : PaidIn(disk, e) => PaidIn(disk', e)
    BY <1>1, KeptPaid
  <1> QED
    BY <1>2, BillingAssumption DEF DrainOK, Resting

\* Request r goes on to me; nobody else may hold a recovered checkout while
\* the sessions move.
LEMMA RequestsKept ==
    ASSUME NEW cap, Moves(cap), RequestsOK, NEW r \in Requests,
           NEW me, me = [pc |-> me.pc, ev |-> me.ev, rec |-> me.rec],
           Holds(disk', me.pc, me.ev, me.rec), rq' = [rq EXCEPT ![r] = me],
           \/ disk'.marker = disk.marker /\ (me.pc = "recovered" => rq[r].pc = "recovered")
           \/ \A q \in Requests \ {r} : ~Recovering(q)
    PROVE  RequestsOK'
  <1>1. Shape(disk) /\ Shape(disk') /\ Keeps(disk, disk')
    BY DEF Moves, Sound
  <1>2. me \in [pc : Places, ev : Events \cup {NoEvent}, rec : Row]
    BY DEF Holds
  <1>3. rq' \in [Requests -> [pc : Places, ev : Events \cup {NoEvent}, rec : Row]]
        /\ rq'[r] = me /\ \A q \in Requests \ {r} : rq'[q] = rq[q]
    BY <1>2 DEF RequestsOK
  <1>4. ASSUME NEW q \in Requests
        PROVE  Holds(disk', rq'[q].pc, rq'[q].ev, rq'[q].rec)
    <2>1. CASE q = r
      BY <1>3, <2>1
    <2>2. CASE q # r
      <3>1. Holds(disk, rq[q].pc, rq[q].ev, rq[q].rec)
        BY DEF RequestsOK
      <3>2. rq[q].pc = "recovered" => NothingPending(disk')
        BY <2>2, <3>1 DEF Holds, NothingPending, Recovering
      <3> QED
        BY <1>1, <1>3, <2>2, <3>1, <3>2, HoldsKept
    <2> QED
      BY <2>1, <2>2
  <1>5. ASSUME NEW p \in Requests, NEW q \in Requests,
               rq'[p].pc = "recovered", rq'[q].pc = "recovered"
        PROVE  p = q
    BY <1>3, <1>5 DEF RequestsOK, Recovering
  <1> QED
    BY <1>3, <1>4, <1>5 DEF RequestsOK

LEMMA AllIdle ==
    ASSUME rq' = [q \in Requests |-> Idle]
    PROVE  RequestsOK'
  <1>1. Idle \in [pc : Places, ev : Events \cup {NoEvent}, rec : Row] /\ Idle.pc = "idle"
        /\ Idle.ev = NoEvent /\ Idle.rec = NoCustomer
    BY RowOfNoCustomer DEF Idle, Places
  <1>2. \A q \in Requests : rq'[q] = Idle
    OBVIOUS
  <1> QED
    BY <1>1, <1>2, IdleHolds DEF RequestsOK

LEMMA RunIs ==
    ASSUME NEW cap, RequestsOK, DrainOK, NEW tr, Grows(disk, tr, cap), NEW r \in Requests,
           NEW me, me = [pc |-> me.pc, ev |-> me.ev, rec |-> me.rec],
           Holds(Disk(tr), me.pc, me.ev, me.rec),
           \/ Disk(tr).marker = disk.marker /\ me.pc # "recovered"
           \/ \A q \in Requests \ {r} : ~Recovering(q),
           NEW flight, Run(r, tr, me, flight), handed' = handed
    PROVE  Moves(cap) /\ RequestsOK' /\ DrainOK'
  <1>1. CASE /\ disk' = Disk(tr) /\ rq' = [rq EXCEPT ![r] = me]
             /\ UNCHANGED <<drain, crashes>>
    <2>1. Moves(cap)
      BY <1>1, DiskIs DEF Moves
    <2>2. RequestsOK'
      BY <1>1, <2>1, RequestsKept
    <2>3. DrainOK'
      BY <1>1, <2>1, DrainKept
    <2> QED
      BY <2>1, <2>2, <2>3
  <1>2. CASE /\ \E i \in DOMAIN tr : disk' = tr[i]
             /\ rq' = [q \in Requests |-> Idle] /\ drain' = Resting
    <2>1. Moves(cap)
      BY <1>2 DEF Grows, Moves
    <2>2. RequestsOK'
      BY <1>2, AllIdle
    <2>3. DrainOK'
      BY <1>2, <2>1, DrainKept
    <2> QED
      BY <2>1, <2>2, <2>3
  <1> QED
    BY <1>1, <1>2 DEF Run

LEMMA RunResultIs ==
    ASSUME NEW cap, RequestsOK, DrainOK, NEW r \in Requests, NEW e \in Events, NEW res,
           Owed(disk, e, res, cap),
           \/ Disk(res.tr).marker = disk.marker /\ res.pc # "recovered"
           \/ \A q \in Requests \ {r} : ~Recovering(q),
           RunResult(r, e, res), handed' = handed
    PROVE  Moves(cap) /\ RequestsOK' /\ DrainOK'
  <1>1. Grows(disk, res.tr, cap)
    BY DEF Owed
  <1>2. CASE res.pc = "failed"
    <2>1. Run(r, res.tr, Idle, inFlight \ {e})
      BY <1>2 DEF RunResult
    <2>2. Idle = [pc |-> Idle.pc, ev |-> Idle.ev, rec |-> Idle.rec] /\ Idle.pc # "recovered"
          /\ Holds(Disk(res.tr), Idle.pc, Idle.ev, Idle.rec)
      BY IdleHolds DEF Idle
    <2> QED
      BY <1>1, <2>1, <2>2, RunIs
  <1>3. CASE res.pc # "failed"
    <2> DEFINE me == [pc |-> res.pc, ev |-> e, rec |-> res.rec]
    <2>1. Run(r, res.tr, me, inFlight \cup {e})
      BY <1>3 DEF RunResult
    <2>2. me.pc = res.pc /\ me.ev = e /\ me.rec = res.rec
          /\ me = [pc |-> me.pc, ev |-> me.ev, rec |-> me.rec]
      OBVIOUS
    <2> HIDE DEF me
    <2>3. Holds(Disk(res.tr), me.pc, me.ev, me.rec)
      BY <1>3, <2>2 DEF Owed
    <2> QED
      BY <1>1, <2>1, <2>2, <2>3, RunIs
  <1> QED
    BY <1>2, <1>3

-----------------------------------------------------------------------------
(* the actions *)

\* What each action is shown to do; cap stands for Longest(Terms).
Steps(cap) == Moves(cap) /\ RequestsOK' /\ DrainOK'

Before(cap) == IsCap(cap) /\ now \in Nat /\ Sound(disk, cap) /\ RequestsOK /\ DrainOK

LEMMA BeforeIs ==
    ASSUME NEW cap, Before(cap)
    PROVE  /\ cap \in Nat /\ Grows(disk, <<disk>>, cap) /\ Disk(<<disk>>) = disk
           /\ \A r \in Requests : Holds(disk, rq[r].pc, rq[r].ev, rq[r].rec)
  BY GrowsSelf DEF Before, IsCap, RequestsOK

LEMMA ReceiveSteps ==
    ASSUME NEW cap, Before(cap), NEW r \in Requests, NEW e \in Events, Receive(r, e)
    PROVE  Steps(cap)
  <1> DEFINE staged == IF EarnWants(e) THEN Stage(<<disk>>, e) ELSE <<disk>>
             duplicate == IF EarnWants(e) THEN Commit(staged, e) ELSE staged
  <1>1. Grows(disk, staged, cap) /\ SameBusiness(disk, Disk(staged))
        /\ Disk(staged).seen = disk.seen
    BY BeforeIs, StageIs DEF SameBusiness
  <1>2. handed' = handed
    BY DEF Receive
  <1>3. CASE e \in disk.seen
    <2>1. Run(r, duplicate, Idle, inFlight)
      BY <1>3 DEF Receive
    <2> HIDE DEF staged
    <2>2. PaidIn(Disk(staged), e)
      BY <1>1, <1>3, DiskIs, CoveredPaid
    <2>3. Grows(disk, duplicate, cap) /\ SameBusiness(Disk(staged), Disk(duplicate))
      BY <1>1, <2>2, CommitIs DEF SameBusiness
    <2>4. Disk(duplicate).marker = disk.marker
      BY <1>1, <2>3 DEF SameBusiness
    <2>5. Idle = [pc |-> Idle.pc, ev |-> Idle.ev, rec |-> Idle.rec] /\ Idle.pc # "recovered"
          /\ Holds(Disk(duplicate), Idle.pc, Idle.ev, Idle.rec)
      BY IdleHolds DEF Idle
    <2> HIDE DEF duplicate
    <2> QED
      BY <1>2, <2>1, <2>3, <2>4, <2>5, RunIs DEF Before, Steps
  <1>4. CASE e \notin disk.seen
    <2>1. RunResult(r, e, ApplyEvent(staged, e))
      BY <1>4 DEF Receive
    <2> HIDE DEF staged
    <2>2. /\ Owed(disk, e, ApplyEvent(staged, e), cap) /\ ApplyEvent(staged, e).pc # "recovered"
          /\ Disk(ApplyEvent(staged, e).tr).marker = disk.marker
      BY <1>1, ApplyEventIs DEF Before, SameBusiness
    <2> QED
      BY <1>2, <2>1, <2>2, RunResultIs DEF Before, Steps
  <1> QED
    BY <1>3, <1>4

LEMMA EnterCheckoutSteps ==
    ASSUME NEW cap, Before(cap), NEW r \in Requests, EnterCheckout(r)
    PROVE  Steps(cap)
  <1> DEFINE e == rq[r].ev
             res == IF Facts[e].kind = "purchase" THEN OnPaymentCheckout(<<disk>>, e)
                    ELSE OnSubscriptionCheckout(<<disk>>, e)
  <1>1. e \in Events /\ Facts[e].kind \in {"purchase", "subscribe"}
    BY BeforeIs DEF EnterCheckout, Holds
  <1>2. \A q \in Requests : ~Recovering(q)
    BY DEF EnterCheckout, HoldsLock, Recovering
  <1>3. RunResult(r, e, res) /\ handed' = handed
    BY DEF EnterCheckout
  <1>4. Owed(disk, e, res, cap)
    BY <1>1, BeforeIs, OnPaymentCheckoutIs, OnSubscriptionCheckoutIs DEF Before
  <1> HIDE DEF e, res
  <1> QED
    BY <1>1, <1>2, <1>3, <1>4, RunResultIs DEF Before, Steps

LEMMA MailAnswerSteps ==
    ASSUME NEW cap, Before(cap), NEW r \in Requests, MailAnswer(r)
    PROVE  Steps(cap)
  <1> DEFINE e == rq[r].ev
  <1>1. /\ rq[r].pc \in {"mail", "recovered"} /\ Holds(disk, rq[r].pc, e, rq[r].rec)
        /\ Known(disk) /\ rq[r].rec \in Row /\ rq[r].rec.lic = disk.cust.lic
    BY BeforeIs DEF MailAnswer, Holds
  <1>2. PICK tr \in Mailed(r) :
            IF e = NoEvent THEN Run(r, tr, Idle, inFlight)
            ELSE RunResult(r, e, IF rq[r].pc = "mail" THEN Finishes(tr)
                                 ELSE PaymentCheckout(tr, Facts[e].session))
    BY DEF MailAnswer
  <1>3. PICK rec \in {rq[r].rec, [rq[r].rec EXCEPT !.welcomed = TRUE]} :
            tr = PutCustomer(<<disk>>, rec)
    BY <1>2 DEF Mailed
  <1>4. rec \in Row /\ rec.lic = disk.cust.lic
    BY <1>1 DEF Row
  <1>5. Grows(disk, tr, cap) /\ Disk(tr).marker = disk.marker
    BY <1>1, <1>3, <1>4, BeforeIs, UpdateIs DEF Untouched
  <1>6. handed' = handed
    BY DEF MailAnswer
  <1>7. CASE e = NoEvent
    <2>1. Idle = [pc |-> Idle.pc, ev |-> Idle.ev, rec |-> Idle.rec] /\ Idle.pc # "recovered"
          /\ Holds(Disk(tr), Idle.pc, Idle.ev, Idle.rec)
      BY IdleHolds DEF Idle
    <2> QED
      BY <1>2, <1>5, <1>6, <1>7, <2>1, RunIs DEF Before, Steps
  <1>8. CASE e # NoEvent /\ rq[r].pc = "mail"
    <2>1. e \in Events /\ PaidIn(disk, e)
      BY <1>1, <1>8 DEF Holds
    <2>2. PaidIn(Disk(tr), e)
      BY <1>5, <2>1, DiskIs, KeptPaid DEF Sound
    <2>3. Owed(disk, e, Finishes(tr), cap) /\ Finishes(tr).tr = tr /\ Finishes(tr).pc = "finish"
      BY <1>5, <2>1, <2>2, FinishesIs
    <2>4. RunResult(r, e, Finishes(tr))
      BY <1>2, <1>8
    <2> HIDE DEF e
    <2> QED
      BY <1>5, <1>6, <2>1, <2>3, <2>4, RunResultIs DEF Before, Steps
  <1>9. CASE e # NoEvent /\ rq[r].pc = "recovered"
    <2>1. e \in Events /\ Facts[e].kind = "purchase" /\ NothingPending(disk)
      BY <1>1, <1>9 DEF Holds
    <2>2. NothingPending(Disk(tr))
      BY <1>5, <2>1 DEF NothingPending
    <2>3. RunResult(r, e, PaymentCheckout(tr, Facts[e].session))
      BY <1>2, <1>9
    <2>4. Owed(disk, e, PaymentCheckout(tr, Facts[e].session), cap)
      BY <1>5, <2>1, <2>2, PaymentCheckoutIs DEF Before
    <2>5. \A q \in Requests \ {r} : ~Recovering(q)
      BY <1>9 DEF Before, RequestsOK, Recovering
    <2> HIDE DEF e
    <2> QED
      BY <1>6, <2>1, <2>3, <2>4, <2>5, RunResultIs DEF Before, Steps
  <1> QED
    BY <1>1, <1>7, <1>8, <1>9

LEMMA ResolveAnswerSteps ==
    ASSUME NEW cap, Before(cap), NEW r \in Requests, ResolveAnswer(r)
    PROVE  Steps(cap)
  <1> DEFINE e == rq[r].ev
             linked == IF Facts[e].end # NoTime /\ disk.cust.sub
                       THEN PutCustomer(<<disk>>, NoteCharge(disk.cust, Facts[e].charge))
                       ELSE <<disk>>
             res == IF Facts[e].kind = "refund" THEN OnRefund(linked) ELSE OnDispute(linked, e)
  <1>1. e \in Events /\ Facts[e].kind \in {"refund", "dispute"}
    BY BeforeIs DEF ResolveAnswer, Holds
  <1>2. RunResult(r, e, res) /\ handed' = handed
    BY DEF ResolveAnswer
  <1>3. linked = IF Facts[e].end # NoTime /\ Disk(<<disk>>).cust.sub
                 THEN PutCustomer(<<disk>>, NoteCharge(Disk(<<disk>>).cust, Facts[e].charge))
                 ELSE <<disk>>
    BY BeforeIs
  <1> HIDE DEF linked, e
  <1>4. /\ Owed(disk, e, res, cap) /\ res.pc # "recovered"
        /\ Disk(res.tr).marker = disk.marker
    BY <1>1, <1>3, BeforeIs, ResolveAnswerIs DEF Before
  <1> HIDE DEF res
  <1> QED
    BY <1>1, <1>2, <1>4, RunResultIs DEF Before, Steps

LEMMA ResolveFailsSteps ==
    ASSUME NEW cap, Before(cap), NEW r \in Requests, ResolveFails(r)
    PROVE  Steps(cap)
  <1>1. rq[r].ev \in Events
    BY BeforeIs DEF ResolveFails, Holds
  <1>2. RunResult(r, rq[r].ev, Fails(<<disk>>)) /\ handed' = handed
    BY DEF ResolveFails
  <1>3. /\ Owed(disk, rq[r].ev, Fails(<<disk>>), cap) /\ Fails(<<disk>>).tr = <<disk>>
        /\ Fails(<<disk>>).pc # "recovered"
    BY BeforeIs, FailsIs
  <1> QED
    BY <1>1, <1>2, <1>3, BeforeIs, RunResultIs DEF Before, Steps

LEMMA FinishSteps ==
    ASSUME NEW cap, Before(cap), NEW r \in Requests, Finish(r)
    PROVE  Steps(cap)
  <1> DEFINE e == rq[r].ev
             seen == MarkSeen(<<disk>>, e)
             tr == IF EarnWants(e) THEN Commit(seen, e) ELSE seen
  <1>1. e \in Events /\ PaidIn(disk, e)
    BY BeforeIs DEF Finish, Holds
  <1>2. Run(r, tr, Idle, inFlight \ {e}) /\ handed' = handed
    BY DEF Finish
  <1>3. Grows(disk, seen, cap) /\ SameBusiness(disk, Disk(seen))
    BY <1>1, BeforeIs, MarkSeenIs
  <1> HIDE DEF seen, e
  <1>4. Grows(disk, tr, cap) /\ Disk(tr).marker = disk.marker
    <2>1. PaidIn(Disk(seen), e)
      BY <1>1, <1>3, SamePaid
    <2>2. Grows(disk, Commit(seen, e), cap) /\ SameBusiness(Disk(seen), Disk(Commit(seen, e)))
      BY <1>1, <1>3, <2>1, CommitIs
    <2> QED
      BY <1>3, <2>2 DEF SameBusiness
  <1> HIDE DEF tr
  <1>5. Idle = [pc |-> Idle.pc, ev |-> Idle.ev, rec |-> Idle.rec] /\ Idle.pc # "recovered"
        /\ Holds(Disk(tr), Idle.pc, Idle.ev, Idle.rec)
    BY IdleHolds DEF Idle
  <1> QED
    BY <1>2, <1>4, <1>5, RunIs DEF Before, Steps

\* The steps that leave the disk alone.
LEMMA RestingDisk ==
    ASSUME NEW cap, Before(cap), disk' = disk
    PROVE  Moves(cap)
  BY KeepsSelf DEF Before, Sound, Shape, Moves

LEMMA ResendWelcomeSteps ==
    ASSUME NEW cap, Before(cap), NEW r \in Requests, ResendWelcome(r)
    PROVE  Steps(cap)
  <1> DEFINE me == [pc |-> "mail", ev |-> NoEvent, rec |-> disk.cust]
  <1>1. /\ Known(disk) /\ rq' = [rq EXCEPT ![r] = me] /\ disk' = disk
        /\ drain' = drain /\ handed' = handed
    BY DEF ResendWelcome
  <1>2. me.pc = "mail" /\ me.ev = NoEvent /\ me.rec = disk.cust
        /\ me = [pc |-> me.pc, ev |-> me.ev, rec |-> me.rec]
    OBVIOUS
  <1> HIDE DEF me
  <1>3. disk.cust \in Row
    BY DEF Before, Sound, Shape, Image
  <1>4. Holds(disk', me.pc, me.ev, me.rec)
    BY <1>1, <1>2, <1>3, BillingAssumption DEF Holds, Places
  <1>5. Moves(cap)
    BY <1>1, RestingDisk
  <1>6. RequestsOK'
    BY <1>1, <1>2, <1>4, <1>5, RequestsKept DEF Before
  <1>7. DrainOK'
    BY <1>1, <1>5, DrainKept DEF Before
  <1> QED
    BY <1>5, <1>6, <1>7 DEF Steps

\* No request moves.
LEMMA RequestsStay ==
    ASSUME NEW cap, Moves(cap), RequestsOK, rq' = rq, disk'.marker = disk.marker
    PROVE  RequestsOK'
  <1>1. Shape(disk) /\ Shape(disk') /\ Keeps(disk, disk')
    BY DEF Moves, Sound
  <1>2. ASSUME NEW q \in Requests
        PROVE  Holds(disk', rq[q].pc, rq[q].ev, rq[q].rec)
    <2>1. Holds(disk, rq[q].pc, rq[q].ev, rq[q].rec)
      BY DEF RequestsOK
    <2>2. rq[q].pc = "recovered" => NothingPending(disk')
      BY <2>1 DEF Holds, NothingPending
    <2> QED
      BY <1>1, <2>1, <2>2, HoldsKept
  <1> QED
    BY <1>2 DEF RequestsOK

LEMMA AwaitsSteps ==
    ASSUME NEW cap, Before(cap), NEW tr, Grows(disk, tr, cap), SameBusiness(disk, Disk(tr)),
           NEW todo \in SUBSET Events, Awaits(tr, todo), rq' = rq,
           handed' \subseteq Events, \A e \in handed' : PaidIn(disk, e)
    PROVE  Steps(cap)
  <1> DEFINE left == todo \cap Ready(Disk(tr))
  <1>1. ASSUME NEW e \in left
        PROVE  e \in Events /\ PaidIn(Disk(tr), e)
    BY DiskIs, CoveredPaid DEF Ready, Rows
  <1>2. CASE disk' = Disk(tr) /\ drain' = Resting
    <2>1. Moves(cap) /\ SameBusiness(disk, disk')
      BY <1>2, DiskIs DEF Moves
    <2>2. RequestsOK'
      BY <2>1, RequestsStay DEF Before, SameBusiness
    <2>3. DrainOK'
      BY <1>2, <2>1, SamePaid, BillingAssumption DEF DrainOK, Resting
    <2> QED
      BY <2>1, <2>2, <2>3 DEF Steps
  <1>3. ASSUME NEW e \in left, disk' = Disk(Commit(tr, e)), drain' = [ev |-> e, todo |-> todo \ {e}]
        PROVE  Steps(cap)
    <2>1. e \in Events /\ PaidIn(Disk(tr), e)
      BY <1>1
    <2>2. Grows(disk, Commit(tr, e), cap) /\ SameBusiness(Disk(tr), Disk(Commit(tr, e)))
      BY <2>1, CommitIs
    <2>3. Moves(cap) /\ SameBusiness(disk, disk')
      BY <1>3, <2>2, DiskIs DEF Moves, SameBusiness
    <2>4. RequestsOK'
      BY <2>3, RequestsStay DEF Before, SameBusiness
    <2>5. drain'.ev = e /\ drain'.todo \subseteq Events
      BY <1>3
    <2>6. PaidIn(disk', e) /\ \A f \in handed' : PaidIn(disk', f)
      BY <1>3, <2>1, <2>2, <2>3, SamePaid
    <2>7. DrainOK'
      BY <2>1, <2>5, <2>6 DEF DrainOK
    <2> QED
      BY <2>3, <2>4, <2>7 DEF Steps
  <1> QED
    BY <1>2, <1>3 DEF Awaits

LEMMA DrainStartSteps ==
    ASSUME NEW cap, Before(cap), DrainStart
    PROVE  Steps(cap)
  <1>1. Ready(disk) \in SUBSET Events
    BY DEF Ready, Rows
  <1>2. Awaits(<<disk>>, Ready(disk)) /\ rq' = rq /\ handed' = handed
    BY DEF DrainStart
  <1> QED
    BY <1>1, <1>2, BeforeIs, AwaitsSteps DEF Before, DrainOK, SameBusiness

LEMMA HookDoneSteps ==
    ASSUME NEW cap, Before(cap), HookDone
    PROVE  Steps(cap)
  <1>1. drain.ev \in Events /\ PaidIn(disk, drain.ev) /\ drain.todo \in SUBSET Events
    BY DEF Before, DrainOK, HookDone
  <1>2. handed' \subseteq Events /\ \A e \in handed' : PaidIn(disk, e)
    BY <1>1 DEF Before, DrainOK, HookDone
  <1>3. Awaits(Complete(<<disk>>, drain.ev), drain.todo) /\ rq' = rq
    BY DEF HookDone
  <1>4. /\ Grows(disk, Complete(<<disk>>, drain.ev), cap)
        /\ SameBusiness(disk, Disk(Complete(<<disk>>, drain.ev)))
    BY <1>1, BeforeIs, CompleteIs
  <1> QED
    BY <1>1, <1>2, <1>3, <1>4, AwaitsSteps

LEMMA HookFailsSteps ==
    ASSUME NEW cap, Before(cap), HookFails
    PROVE  Steps(cap)
  <1>1. drain.todo \in SUBSET Events
    BY DEF Before, DrainOK
  <1>2. Awaits(<<disk>>, drain.todo) /\ rq' = rq /\ handed' = handed
    BY DEF HookFails
  <1> QED
    BY <1>1, <1>2, BeforeIs, AwaitsSteps DEF Before, DrainOK, SameBusiness

LEMMA CrashSteps ==
    ASSUME NEW cap, Before(cap), Crash
    PROVE  Steps(cap)
  <1>1. rq' = [r \in Requests |-> Idle] /\ drain' = Resting /\ disk' = disk
        /\ handed' \in {handed, handed \cup ({drain.ev} \ {NoEvent})}
    BY DEF Crash
  <1>2. RequestsOK'
    BY <1>1, AllIdle
  <1>3. DrainOK'
    BY <1>1, BillingAssumption DEF Before, DrainOK, Resting
  <1> QED
    BY <1>1, <1>2, <1>3, RestingDisk DEF Steps

LEMMA ForgetSteps ==
    ASSUME NEW cap, Before(cap), NEW e \in Events, Forget(e)
    PROVE  Steps(cap)
  <1> DEFINE b == [disk EXCEPT !.seen = @ \ {e}]
  <1>1. disk' = b /\ rq' = rq /\ drain' = drain /\ handed' = handed
    BY DEF Forget
  <1>2. Sound(disk, cap) /\ disk \in Image
    BY DEF Before, Sound, Shape
  <1>3. b \in Image /\ SameBusiness(disk, b) /\ b.ptr = disk.ptr
        /\ b.seen \subseteq disk.seen /\ b.outbox = disk.outbox
    BY <1>2 DEF Image, SameBusiness
  <1> HIDE DEF b
  <1>4. Sound(b, cap) /\ Keeps(disk, b)
    BY <1>2, <1>3, CoveredPaid, EventSound DEF SameBusiness
  <1>5. Moves(cap)
    BY <1>1, <1>2, <1>4 DEF Moves, Sound
  <1>6. RequestsOK'
    BY <1>1, <1>3, <1>5, RequestsStay DEF Before, SameBusiness
  <1>7. DrainOK'
    BY <1>1, <1>5, DrainKept DEF Before
  <1> QED
    BY <1>5, <1>6, <1>7 DEF Steps

LEMMA RequestSteps ==
    ASSUME NEW cap, Before(cap), NEW r \in Requests, Request(r)
    PROVE  Steps(cap) /\ now' = now
  <1>1. now' = now
    BY DEF Request, Receive, EnterCheckout, MailAnswer, ResolveAnswer, ResolveFails, Finish,
           ResendWelcome
  <1>2. Steps(cap)
    BY ReceiveSteps, EnterCheckoutSteps, MailAnswerSteps, ResolveAnswerSteps, ResolveFailsSteps,
       FinishSteps, ResendWelcomeSteps DEF Request
  <1> QED
    BY <1>1, <1>2

-----------------------------------------------------------------------------
(* the theorems *)

LEMMA InitIInv == Init => IInv
  <1> SUFFICES ASSUME Init
               PROVE  IInv
    OBVIOUS
  <1>1. /\ disk.cust = NoCustomer /\ disk.exp = <<>> /\ disk.revoked = {} /\ disk.ptr = NoSession
        /\ disk.marker = [s \in Sessions |-> NoMarker] /\ disk.seen = {}
        /\ disk.outbox = [e \in Events |-> "none"] /\ now = 1
    BY DEF Init
  <1>2. NoMarker \in Mark /\ NoMarker.status = "none" /\ ~Known(disk)
    BY <1>1 DEF NoMarker, Mark, NoTime, NoLicence, Known
  <1>3. disk \in Image
    BY <1>1, <1>2, RowOfNoCustomer DEF Init, Image
  <1>4. ClaimedIn(disk) = {}
    BY <1>1 DEF ClaimedIn
  <1>5. Shape(disk)
    BY <1>1, <1>2, <1>3, RowOfNoCustomer DEF Shape
  <1>6. Settled(disk) /\ Covered(disk)
    BY <1>1, <1>2 DEF Settled, Covered
  <1>7. Stacked(disk) /\ \A cap : Capped(disk, cap)
    BY <1>1, <1>2, <1>4 DEF Stacked, Capped
  <1>8. RequestsOK
    <2>1. Idle \in [pc : Places, ev : Events \cup {NoEvent}, rec : Row] /\ Idle.pc = "idle"
          /\ Idle.ev = NoEvent /\ Idle.rec = NoCustomer
      BY RowOfNoCustomer DEF Idle, Places
    <2>2. rq = [r \in Requests |-> Idle] /\ \A q \in Requests : rq[q] = Idle
      BY DEF Init
    <2> QED
      BY <2>1, <2>2, IdleHolds DEF RequestsOK
  <1>9. DrainOK
    BY BillingAssumption DEF Init, DrainOK, Resting
  <1> QED
    BY <1>1, <1>5, <1>6, <1>7, <1>8, <1>9 DEF IInv, Sound

LEMMA BeforeIInv == IInv => Before(Longest(Terms))
  BY TermsCap DEF IInv, Before

\* Every step keeps the invariant and what the disk granted.
LEMMA NextIInv ==
    ASSUME IInv, [Next]_vars
    PROVE  IInv' /\ Keeps(disk, disk')
  <1> DEFINE cap == Longest(Terms)
  <1>1. Before(cap)
    BY BeforeIInv
  <1>2. CASE Steps(cap) /\ now' = now
    <2>1. Sound(disk', cap) /\ Keeps(disk, disk') /\ RequestsOK' /\ DrainOK'
      BY <1>2 DEF Steps, Moves
    <2>2. Longest(Terms)' = cap
      BY <1>2 DEF Terms, Longest
    <2> HIDE DEF cap
    <2> QED
      BY <1>2, <2>1, <2>2 DEF IInv
  <1>3. ASSUME NEW r \in Requests, Request(r)
        PROVE  Steps(cap) /\ now' = now
    BY <1>1, <1>3, RequestSteps
  <1>4. CASE DrainStart \/ HookDone \/ HookFails \/ Crash
    <2>1. Steps(cap)
      BY <1>1, <1>4, DrainStartSteps, HookDoneSteps, HookFailsSteps, CrashSteps
    <2> QED
      BY <1>2, <1>4, <2>1 DEF DrainStart, HookDone, HookFails, Crash
  <1>5. ASSUME NEW e \in Events, Forget(e)
        PROVE  Steps(cap) /\ now' = now
    BY <1>1, <1>5, ForgetSteps DEF Forget
  <1>6. CASE UNCHANGED vars
    <2>1. disk' = disk /\ rq' = rq /\ drain' = drain /\ handed' = handed /\ now' = now
      BY <1>6 DEF vars
    <2>2. Moves(cap)
      BY <1>1, <2>1, RestingDisk
    <2>3. RequestsOK' /\ DrainOK'
      BY <1>1, <2>1 DEF Before, RequestsOK, DrainOK
    <2> QED
      BY <1>2, <2>1, <2>2, <2>3 DEF Steps
  <1>7. CASE ClockTicks
    <2>1. now' = now + 1 /\ disk' = disk /\ rq' = rq /\ drain' = drain /\ handed' = handed
      BY <1>7 DEF ClockTicks
    <2>2. now' \in Nat /\ now \in Nat
      BY <1>1, <2>1 DEF Before
    <2>3. cap \in Nat /\ cap <= Longest(Terms)' /\ Longest(Terms)' \in Nat
      <3>1. IsCap(cap) /\ cap \in Terms
        BY <2>2, TermsCap
      <3>2. (now \in Nat)' => IsCap(Longest(Terms))'
        BY TermsCap, PTL
      <3>3. /\ Longest(Terms)' \in Nat /\ Longest(Terms)' >= now' + Bootstrap
            /\ \A e \in Events : Facts[e].kind = "paid" => Longest(Terms)' >= Facts[e].end + Grace
        BY <2>2, <3>2 DEF IsCap
      <3> HIDE DEF cap
      <3>4. \/ cap = now + Bootstrap
            \/ \E e \in Events : Facts[e].kind = "paid" /\ cap = Facts[e].end + Grace
        BY <3>1 DEF Terms
      <3> QED
        BY <2>1, <2>2, <3>1, <3>3, <3>4, TermAssumption DEF IsCap
    <2>4. Sound(disk', Longest(Terms)')
      BY <1>1, <2>1, <2>3, LaterCap DEF Before
    <2>5. RequestsOK' /\ DrainOK' /\ Keeps(disk, disk')
      BY <1>1, <2>1, KeepsSelf DEF Before, RequestsOK, DrainOK, Sound, Shape
    <2> QED
      BY <2>2, <2>4, <2>5 DEF IInv
  <1> QED
    BY <1>2, <1>3, <1>4, <1>5, <1>6, <1>7 DEF Next

\* Billing keeps its files sound, whatever is delivered, in whatever order,
\* and wherever the process dies (billing/service.ts, handleWebhook).
THEOREM Invariance == Spec => []IInv
  <1>1. IInv /\ [Next]_vars => IInv'
    BY NextIInv
  <1> QED
    BY InitIInv, <1>1, PTL DEF Spec

\* Every purchase of the customer has a term of its own
\* (recoverPendingCheckout, claimCheckoutSession).
THEOREM PurchasesStack == Spec => []TermsStack
  <1>1. IInv => TermsStack
    BY DEF IInv, Sound, Stacked, TermsStack, Claimed, ClaimedIn
  <1> QED
    BY Invariance, <1>1, PTL

\* A licence runs no longer than one term a purchase past the longest other
\* term (claimCheckoutSession, extendLicense).
THEOREM NothingFree == Spec => []NoFreeTerms
  <1>1. IInv => NoFreeTerms
    BY DEF IInv, Sound, Capped, Budget, NoFreeTerms, Claimed, ClaimedIn, Terms
  <1> QED
    BY Invariance, <1>1, PTL

LEMMA PaidOutIs ==
    ASSUME Sound(disk, Longest(Terms)), NEW e \in Events, PaidIn(disk, e)
    PROVE  PaidOut(e)
  <1>1. CASE Facts[e].kind = "purchase"
    <2>1. disk.marker[Facts[e].session].status = "applied" /\ Facts[e].session \in Sessions
      BY <1>1, EventFact DEF PaidIn
    <2> QED
      BY <1>1, <2>1 DEF Sound, Settled, Granted, PaidOut, Revoked
  <1>2. CASE Facts[e].kind = "paid"
    BY <1>2 DEF PaidIn, Granted, PaidOut, Revoked
  <1>3. CASE Facts[e].kind \notin {"purchase", "paid"}
    BY <1>3 DEF PaidOut
  <1> QED
    BY <1>1, <1>2, <1>3

\* An event remembered as applied has its term on disk (handleWebhook).
THEOREM SeenWerePaidOut == Spec => []SeenIsPaidOut
  <1>1. ASSUME IInv, NEW e \in disk.seen
        PROVE  PaidOut(e)
    <2>1. Sound(disk, Longest(Terms)) /\ e \in Events
      BY <1>1 DEF IInv, Sound, Shape, Image
    <2> QED
      BY <1>1, <2>1, CoveredPaid, PaidOutIs
  <1>2. IInv => SeenIsPaidOut
    BY <1>1 DEF SeenIsPaidOut
  <1> QED
    BY Invariance, <1>2, PTL

\* Earn is handed no event whose payment billing has not applied
\* (drainAfterCommit, after-commit-outbox.ts).
THEOREM HandedWerePaidOut == Spec => []EarnOnlyApplied
  <1>1. ASSUME IInv, NEW e \in handed
        PROVE  PaidOut(e)
    BY <1>1, PaidOutIs DEF IInv, DrainOK
  <1>2. IInv => EarnOnlyApplied
    BY <1>1 DEF EarnOnlyApplied
  <1> QED
    BY Invariance, <1>2, PTL

\* No step takes away a term a licence has (extendLicense).
THEOREM TermsOnlyGrow == Spec => NeverShortened
  <1>1. IInv /\ [Next]_vars => [\A l \in Licences(disk) : disk'.exp[l] >= disk.exp[l]]_vars
    BY NextIInv DEF Keeps, Licences
  <1> QED
    BY Invariance, <1>1, PTL DEF Spec, NeverShortened

\* A revoked licence stays revoked, unextended and the customer's only one
\* (setExpiry, ensureCustomer).
THEOREM RevokedForGood == Spec => RevokedStays
  <1> DEFINE Kept == \A l \in disk.revoked :
                        /\ l \in disk'.revoked /\ disk'.exp[l] = disk.exp[l]
                        /\ disk.cust.lic = l => disk'.cust.lic = l
  <1>1. ASSUME IInv, [Next]_vars
        PROVE  Kept
    <2>1. Keeps(disk, disk') /\ disk.revoked \subseteq DOMAIN disk.exp /\ disk.exp \in Seq(Nat)
      BY <1>1, NextIInv DEF IInv, Sound, Shape, Image
    <2>2. ASSUME NEW l \in disk.revoked, disk.cust.lic = l
          PROVE  disk'.cust.lic = l
      <3>1. l # NoLicence
        BY <2>1 DEF NoLicence
      <3>2. Known(disk)
        BY <2>2, <3>1, RowOfNoCustomer DEF Known
      <3> QED
        BY <2>1, <2>2, <3>2 DEF Keeps
    <2> QED
      BY <2>1, <2>2 DEF Keeps
  <1>2. IInv /\ [Next]_vars => [Kept]_vars
    BY <1>1
  <1> QED
    BY Invariance, <1>2, PTL DEF Spec, RevokedStays
=============================================================================
