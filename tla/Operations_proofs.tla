-------------------------- MODULE Operations_proofs -------------------------
(* Proofs about the parts of MCOperations that write what they keep in       *)
(* several steps: the books, the owners, the payouts and the commissions of  *)
(* the Earn programme, the publication of releases, the messages, and the    *)
(* hosting checkouts.  A behaviour is one of a single part, so the invariant *)
(* is one of each part (Stands), and each part has its own section:          *)
(*                                                                           *)
(*  - books (BooksInv): what was booked is the month, the review or the      *)
(*    entry it names, and a reference of a kind is booked once;              *)
(*  - owners (OwnersInv): an answer is what a binding or a grant still says; *)
(*  - payouts (PayoutsInv): that of EarnPayouts_proofs;                      *)
(*  - commissions (ReferralsInv): a sale agrees with Stripe or has an event  *)
(*    to be handled, and so does what the worker has read;                   *)
(*  - publications (PublicationInv): a marker says how to go back from every *)
(*    state the control file and the pointer can be left in;                 *)
(*  - contacts (CopyInv): what a pass has updated is there until its         *)
(*    checkpoint is written, or somebody edited it;                          *)
(*  - reminders (RemindInv): a message that was shown is asked for again     *)
(*    under the same key while its provider knows the key;                   *)
(*  - notifications (NoticesInv): the state in memory says what the file     *)
(*    says, and a row in flight is a row of it with its attempt on record;   *)
(*  - checkouts (CheckoutInv): an owner has one active row within the        *)
(*    budget, an attempt that may take money holds its row and the claim of  *)
(*    its licence, and what is in flight speaks of the row of its intent.    *)
EXTENDS MCOperations, FiniteSetTheorems, TLAPS

-----------------------------------------------------------------------------
(* EarnLedger: v1 joined, v2 claim, v3 rate, v4 fee, v5 entries, v6 months,  *)
(* v7 revs, v8 month, v9 page, v10 view, v11 preview.                        *)

\* An exchange account has one verified owner.
OneVerified ==
    \A o, p \in Members : v2[o].verified /\ v2[p].verified /\ v2[p].uid = v2[o].uid => o = p

\* An entry is found by its reference and its kind.
OneEntry == \A d, e \in v5 : d.ref = e.ref /\ d.kind = e.kind => d = e

\* A rebate belongs to a finalised month, which has it as it is booked.
Rebates ==
    \A e \in v5 : e.ref[1] = "rebate" =>
        /\ e.ref[2] \in DOMAIN v6
        /\ \E r \in v6[e.ref[2]] : r.owner = e.owner /\ r.cents = e.cents

IsClaim(c) == c = [uid |-> c.uid, verified |-> c.verified, rev |-> c.rev, sub |-> c.sub]
ClaimsAre == v2 = [o \in Members |-> v2[o]] /\ \A o \in Members : IsClaim(v2[o])

BooksInv == ClaimsAre /\ OneVerified /\ OneEntry /\ Rebates

LEMMA BooksStart == Ledger!Init => BooksInv
  <1> SUFFICES ASSUME Ledger!Init PROVE BooksInv
    OBVIOUS
  <1>1. v2 = [o \in Members |-> Ledger!NoClaim] /\ v5 = {}
    BY DEF Ledger!Init
  <1>2. /\ IsClaim(Ledger!NoClaim) /\ Ledger!NoClaim.verified = FALSE
    BY DEF IsClaim, Ledger!NoClaim
  <1>3. ClaimsAre
    BY <1>1, <1>2 DEF ClaimsAre
  <1>4. \A o \in Members : v2[o].verified = FALSE
    BY <1>1, <1>2
  <1>5. OneVerified
    BY <1>4 DEF OneVerified
  <1> QED
    BY <1>1, <1>3, <1>5 DEF BooksInv, OneEntry, Rebates

LEMMA EntryIs ==
    ASSUME NEW o, NEW k, NEW c, NEW r
    PROVE  /\ Ledger!Entry(o, k, c, r).owner = o /\ Ledger!Entry(o, k, c, r).kind = k
           /\ Ledger!Entry(o, k, c, r).cents = c /\ Ledger!Entry(o, k, c, r).ref = r
  BY DEF Ledger!Entry

LEMMA RefIs ==
    ASSUME NEW what, NEW k, NEW o
    PROVE  /\ Ledger!Ref(what, k, o)[1] = what /\ Ledger!Ref(what, k, o)[2] = k /\ Ledger!Ref(what, k, o)[3] = o
  BY DEF Ledger!Ref

\* Entries that are new under their references, and no rebates.
LEMMA BooksGrow ==
    ASSUME BooksInv, UNCHANGED <<v2, v6>>, NEW new, v5' = v5 \cup new,
           \A e \in new : e.ref[1] # "rebate" /\ \A d \in v5 : ~(d.ref = e.ref /\ d.kind = e.kind),
           \A d, e \in new : d.ref = e.ref => d = e
    PROVE  BooksInv'
  <1>1. OneEntry'
    BY DEF BooksInv, OneEntry
  <1>2. Rebates'
    BY DEF BooksInv, Rebates
  <1> QED
    BY <1>1, <1>2 DEF BooksInv, ClaimsAre, OneVerified

LEMMA BooksStay == ASSUME BooksInv, UNCHANGED <<v2, v5, v6>> PROVE BooksInv'
  BY DEF BooksInv, ClaimsAre, OneVerified, OneEntry, Rebates

\* A claim is filed anew, unverified.
LEMMA AddUidStep ==
    ASSUME BooksInv, NEW o \in Members, NEW u \in Uids, Ledger!AddUid(o, u) PROVE BooksInv'
  <1>1. /\ v2' = [v2 EXCEPT ![o] = [uid |-> u, verified |-> FALSE, rev |-> v7', sub |-> v7']]
        /\ UNCHANGED <<v5, v6>>
    BY DEF Ledger!AddUid
  <1>2. ClaimsAre' /\ ~v2'[o].verified /\ \A p \in Members \ {o} : v2'[p] = v2[p]
    BY <1>1 DEF BooksInv, ClaimsAre, IsClaim
  <1>3. OneVerified'
    BY <1>2 DEF BooksInv, OneVerified
  <1> QED
    BY <1>1, <1>2, <1>3 DEF BooksInv, OneEntry, Rebates

\* configure({verified}): the account has no other verified owner.
LEMMA VerifyClaimStep ==
    ASSUME BooksInv, NEW o \in Members, NEW yes \in BOOLEAN, Ledger!Verify(o, yes) PROVE BooksInv'
  <1>1. /\ v2' = [v2 EXCEPT ![o].verified = yes, ![o].rev = v7'] /\ UNCHANGED <<v5, v6>>
        /\ yes => \A p \in Members \ {o} : v2[p].uid # v2[o].uid \/ ~v2[p].verified
    BY DEF Ledger!Verify
  <1>2. v2[o] = [uid |-> v2[o].uid, verified |-> v2[o].verified, rev |-> v2[o].rev, sub |-> v2[o].sub]
    BY DEF BooksInv, ClaimsAre, IsClaim
  <1>3. v2'[o] = [uid |-> v2[o].uid, verified |-> yes, rev |-> v7', sub |-> v2[o].sub]
    <2>1. v2'[o] = [[v2[o] EXCEPT !.verified = yes] EXCEPT !.rev = v7']
      BY <1>1 DEF BooksInv, ClaimsAre
    <2> QED
      BY <1>2, <2>1
  <1>4. \A p \in Members \ {o} : v2'[p] = v2[p]
    BY <1>1 DEF BooksInv, ClaimsAre
  <1>5. ClaimsAre'
    <2>1. v2' = [p \in Members |-> v2'[p]]
      BY <1>1 DEF BooksInv, ClaimsAre
    <2>2. IsClaim(v2'[o])
      BY <1>3 DEF IsClaim
    <2>3. \A p \in Members \ {o} : IsClaim(v2'[p])
      BY <1>4 DEF BooksInv, ClaimsAre, IsClaim
    <2> QED
      BY <2>1, <2>2, <2>3 DEF ClaimsAre, IsClaim
  <1>6. v2'[o].uid = v2[o].uid /\ v2'[o].verified = yes
    BY <1>3
  <1>7. OneVerified'
    <2> SUFFICES ASSUME NEW p \in Members, NEW q \in Members, v2'[p].verified, v2'[q].verified,
                        v2'[q].uid = v2'[p].uid
                 PROVE  p = q
      BY DEF OneVerified
    <2>1. \A s \in Members \ {o} : v2[o].uid = v2[s].uid => ~(yes /\ v2[s].verified)
      BY <1>1
    <2>2. p = o => yes
      BY <1>6, Zenon
    <2>3. q = o => yes
      BY <1>6, Zenon
    <2>4. CASE p # o /\ q # o
      BY <1>4, <2>4 DEF BooksInv, OneVerified
    <2>5. CASE p = o /\ q # o
      <3>1. v2'[q] = v2[q] /\ v2[o].uid = v2[q].uid
        BY <1>4, <1>6, <2>5
      <3> QED
        BY <2>1, <2>2, <2>5, <3>1, Zenon
    <2>6. CASE p # o /\ q = o
      <3>1. v2'[p] = v2[p] /\ v2[o].uid = v2[p].uid
        BY <1>4, <1>6, <2>6
      <3> QED
        BY <2>1, <2>3, <2>6, <3>1, Zenon
    <2> QED
      BY <2>4, <2>5, <2>6
  <1> QED
    BY <1>1, <1>5, <1>7 DEF BooksInv, OneEntry, Rebates

\* assessHostingFees(): one entry for a month and a member.
LEMMA FeesStay ==
    ASSUME BooksInv, UNCHANGED <<v2, v6>>, NEW f, v5' = Ledger!Assessed(f) PROVE BooksInv'
  <1> DEFINE new == {e \in Ledger!Fees(f) : \A d \in v5 : d.ref # e.ref}
  <1>1. ASSUME NEW e \in Ledger!Fees(f)
        PROVE  \E o, k : e = Ledger!Entry(o, "adjustment", -1, Ledger!Ref("fee", k, o))
    BY DEF Ledger!Fees
  <1>2. \A e \in new : e.ref[1] # "rebate" /\ \A d \in v5 : ~(d.ref = e.ref /\ d.kind = e.kind)
    <2> SUFFICES ASSUME NEW e \in new PROVE e.ref[1] # "rebate" /\ \A d \in v5 : ~(d.ref = e.ref /\ d.kind = e.kind)
      OBVIOUS
    <2>1. PICK o, k : e = Ledger!Entry(o, "adjustment", -1, Ledger!Ref("fee", k, o))
      BY <1>1
    <2>2. e.ref[1] = "fee"
      BY <2>1, EntryIs, RefIs
    <2> QED
      BY <2>2
  <1>3. ASSUME NEW d \in new, NEW e \in new, d.ref = e.ref PROVE d = e
    <2>1. PICK o, k : d = Ledger!Entry(o, "adjustment", -1, Ledger!Ref("fee", k, o))
      BY <1>1
    <2>2. PICK p, j : e = Ledger!Entry(p, "adjustment", -1, Ledger!Ref("fee", j, p))
      BY <1>1
    <2>3. Ledger!Ref("fee", k, o) = Ledger!Ref("fee", j, p)
      BY <1>3, <2>1, <2>2, EntryIs
    <2>4. k = j /\ o = p
      BY <2>3, RefIs
    <2> QED
      BY <2>1, <2>2, <2>4
  <1>4. v5' = v5 \cup new
    BY DEF Ledger!Assessed
  <1> HIDE DEF new
  <1> QED
    BY <1>2, <1>3, <1>4, BooksGrow

LEMMA RecordStep ==
    ASSUME BooksInv, NEW o \in Billed, NEW kind, NEW r, Ledger!Record(o, kind, 1, <<"op", r, o>>)
    PROVE  BooksInv'
  <1> DEFINE e == Ledger!Entry(o, kind, IF kind = "payout" THEN -1 ELSE 1, <<"op", r, o>>)
  <1>1. /\ v5' = v5 \cup {e} /\ UNCHANGED <<v2, v6>>
        /\ \A d \in v5 : ~(d.ref = <<"op", r, o>> /\ d.kind = kind)
    BY DEF Ledger!Record
  <1>2. e.ref = <<"op", r, o>> /\ e.kind = kind
    BY EntryIs
  <1> HIDE DEF e
  <1> DEFINE new == {e}
  <1>3. /\ \A x \in new : x.ref[1] # "rebate" /\ \A d \in v5 : ~(d.ref = x.ref /\ d.kind = x.kind)
        /\ \A x, y \in new : x.ref = y.ref => x = y
        /\ v5' = v5 \cup new
    BY <1>1, <1>2
  <1> HIDE DEF new
  <1> QED
    BY <1>1, <1>3, BooksGrow

LEMMA ReverseStep == ASSUME BooksInv, NEW d \in v5, Ledger!Reverse(d) PROVE BooksInv'
  <1> DEFINE e == Ledger!Entry(d.owner, "reversal", -d.cents, Ledger!Ref("reverse", d.kind, d.ref))
  <1>1. /\ v5' = v5 \cup {e} /\ UNCHANGED <<v2, v6>>
        /\ \A c \in v5 : c.ref # Ledger!Ref("reverse", d.kind, d.ref)
    BY DEF Ledger!Reverse
  <1>2. e.ref = Ledger!Ref("reverse", d.kind, d.ref)
    BY EntryIs
  <1> HIDE DEF e
  <1> DEFINE new == {e}
  <1>3. /\ \A x \in new : x.ref[1] # "rebate" /\ \A c \in v5 : ~(c.ref = x.ref /\ c.kind = x.kind)
        /\ \A x, y \in new : x.ref = y.ref => x = y
        /\ v5' = v5 \cup new
    BY <1>1, <1>2, RefIs
  <1> HIDE DEF new
  <1> QED
    BY <1>1, <1>3, BooksGrow

\* importCsv(): a row of the month for each of its rebates.
LEMMA ImportStep == ASSUME BooksInv, Ledger!ImportCsv PROVE BooksInv'
  <1> DEFINE new == {Ledger!Entry(r.owner, "earning", r.cents, Ledger!Ref("rebate", v11.month, r.owner)) :
                        r \in {x \in v11.rows : x.cents >= MinRebate}}
  <1>1. /\ v11.rows = Ledger!Rows(v11.csv) /\ v11.month \notin DOMAIN v6
        /\ v6' = [k \in DOMAIN v6 \cup {v11.month} |-> IF k = v11.month THEN v11.rows ELSE v6[k]]
        /\ v5' = v5 \cup new /\ UNCHANGED v2
    BY DEF Ledger!ImportCsv
  <1>2. ASSUME NEW r \in v11.rows, NEW s \in v11.rows, r.owner = s.owner PROVE r = s
    <2>1. PICK o : r = [owner |-> o, cents |-> v3[o] * Dollars]
      BY <1>1 DEF Ledger!Rows
    <2>2. PICK p : s = [owner |-> p, cents |-> v3[p] * Dollars]
      BY <1>1 DEF Ledger!Rows
    <2> QED
      BY <1>2, <2>1, <2>2
  <1>3. ASSUME NEW e \in new
        PROVE  \E r \in v11.rows : /\ e = Ledger!Entry(r.owner, "earning", r.cents, Ledger!Ref("rebate", v11.month, r.owner))
                                   /\ e.ref = Ledger!Ref("rebate", v11.month, r.owner)
                                   /\ e.owner = r.owner /\ e.cents = r.cents
                                   /\ e.ref[1] = "rebate" /\ e.ref[2] = v11.month /\ e.ref[3] = r.owner
    <2>1. PICK r \in v11.rows : e = Ledger!Entry(r.owner, "earning", r.cents, Ledger!Ref("rebate", v11.month, r.owner))
      OBVIOUS
    <2>2. e.ref = Ledger!Ref("rebate", v11.month, r.owner) /\ e.owner = r.owner /\ e.cents = r.cents
      BY <2>1, EntryIs
    <2> QED
      BY <2>1, <2>2, RefIs
  <1> HIDE DEF new
  <1>4. ASSUME NEW d \in new, NEW e \in new, d.ref = e.ref PROVE d = e
    <2>1. PICK r \in v11.rows : /\ d = Ledger!Entry(r.owner, "earning", r.cents, Ledger!Ref("rebate", v11.month, r.owner))
                                /\ d.ref[3] = r.owner
      BY <1>3
    <2>2. PICK s \in v11.rows : /\ e = Ledger!Entry(s.owner, "earning", s.cents, Ledger!Ref("rebate", v11.month, s.owner))
                                /\ e.ref[3] = s.owner
      BY <1>3
    <2>3. r = s
      BY <1>2, <1>4, <2>1, <2>2
    <2> QED
      BY <2>1, <2>2, <2>3
  <1>5. ASSUME NEW d \in v5, NEW e \in new PROVE d.ref # e.ref
    <2>1. e.ref[1] = "rebate" /\ e.ref[2] = v11.month
      BY <1>3
    <2>2. d.ref[1] = "rebate" => d.ref[2] \in DOMAIN v6
      BY DEF BooksInv, Rebates
    <2> QED
      BY <1>1, <2>1, <2>2
  <1>6. OneEntry'
    BY <1>1, <1>4, <1>5 DEF BooksInv, OneEntry
  <1>7. Rebates'
    <2> SUFFICES ASSUME NEW e \in v5', e.ref[1] = "rebate"
                 PROVE  e.ref[2] \in DOMAIN v6' /\ \E r \in v6'[e.ref[2]] : r.owner = e.owner /\ r.cents = e.cents
      BY DEF Rebates
    <2>1. CASE e \in v5
      <3>1. e.ref[2] \in DOMAIN v6 /\ \E r \in v6[e.ref[2]] : r.owner = e.owner /\ r.cents = e.cents
        BY <2>1 DEF BooksInv, Rebates
      <3>2. e.ref[2] \in DOMAIN v6' /\ v6'[e.ref[2]] = v6[e.ref[2]]
        BY <1>1, <3>1
      <3> QED
        BY <3>1, <3>2
    <2>2. CASE e \in new
      <3>1. e.ref[2] = v11.month /\ \E r \in v11.rows : r.owner = e.owner /\ r.cents = e.cents
        BY <1>3, <2>2
      <3>2. v11.month \in DOMAIN v6' /\ v6'[v11.month] = v11.rows
        BY <1>1
      <3> QED
        BY <3>1, <3>2
    <2> QED
      BY <1>1, <2>1, <2>2
  <1> QED
    BY <1>1, <1>6, <1>7 DEF BooksInv, ClaimsAre, OneVerified

LEMMA BooksKept == BooksInv /\ Ledger!Next => BooksInv'
  <1> SUFFICES ASSUME BooksInv, Ledger!Next PROVE BooksInv'
    OBVIOUS
  <1>1. CASE Ledger!MonthEnds
    BY <1>1, BooksStay DEF Ledger!MonthEnds, Ledger!Book
  <1>2. CASE Ledger!AssessHostingFees
    BY <1>2, FeesStay DEF Ledger!AssessHostingFees
  <1>3. CASE Ledger!ImportCsv
    BY <1>3, ImportStep
  <1>4. ASSUME NEW o \in Members, Ledger!Join(o) \/ Ledger!LoadPage(o) \/ Ledger!LoadView(o) PROVE BooksInv'
    BY <1>4, BooksStay DEF Ledger!Join, Ledger!LoadPage, Ledger!LoadView, Ledger!Book
  <1>5. ASSUME NEW o \in Members, NEW u \in Uids, Ledger!AddUid(o, u) PROVE BooksInv'
    BY <1>5, AddUidStep
  <1>6. ASSUME NEW o \in Members, NEW yes \in BOOLEAN, Ledger!Verify(o, yes) PROVE BooksInv'
    BY <1>6, VerifyClaimStep
  <1>7. ASSUME NEW o, NEW r, NEW f, Ledger!Configure(o, r, f) PROVE BooksInv'
    BY <1>7, FeesStay DEF Ledger!Configure
  <1>8. ASSUME NEW o \in Billed, NEW kind, NEW r, Ledger!Record(o, kind, 1, <<"op", r, o>>) PROVE BooksInv'
    BY <1>8, RecordStep
  <1>9. ASSUME NEW e \in v5, Ledger!Reverse(e) PROVE BooksInv'
    BY <1>9, ReverseStep
  <1>10. ASSUME NEW k, NEW csv, Ledger!PreviewCsv(k, csv) PROVE BooksInv'
    BY <1>10, BooksStay DEF Ledger!PreviewCsv, Ledger!Book
  <1> QED
    BY <1>1, <1>2, <1>3, <1>4, <1>5, <1>6, <1>7, <1>8, <1>9, <1>10 DEF Ledger!Next

LEMMA BooksReviewed == BooksInv => Ledger!BooksAreReviewed
  BY DEF BooksInv, OneVerified, OneEntry, Rebates, Ledger!BooksAreReviewed

-----------------------------------------------------------------------------
(* EarnOwners: v1 customers, v2 members, v3 bindings, v4 grants, v5 link,    *)
(* v6 answers.                                                               *)

NoOwner == Owners!None

\* The owners the bindings lead to: finitely many, so a count of those of some
\* keys means something.
BoundOwners == {v3[k] : k \in DOMAIN v3}

\* An answer is what the licence's binding says, or its grant.
Explained ==
    \A s \in v6 :
        /\ s[3] = TRUE \/ s[3] = FALSE
        /\ s[3] = TRUE => s[1] \in Owners!Lics /\ v4[s[1]] = s[2] /\ s[2] # NoOwner
        /\ s[3] = FALSE => <<"lic", s[1]>> \in DOMAIN v3 /\ v3[<<"lic", s[1]>>] = s[2]

\* A reviewed link carries an owner, who is a member once it was adopted.
LinkHolds ==
    v5 # Owners!NoLink =>
        /\ v5 = [pc |-> v5.pc, acc |-> v5.acc, lic |-> v5.lic, owner |-> v5.owner]
        /\ v5.pc \in {"asks", "adopts"} /\ v5.owner # NoOwner
        /\ v5.pc = "adopts" => v5.owner \in v2

OwnersInv ==
    /\ NoOwner \notin v2 /\ NoOwner \notin BoundOwners /\ IsFiniteSet(BoundOwners)
    /\ v4 = [l \in Owners!Lics |-> v4[l]]
    /\ \A l \in Owners!Lics : v4[l] # NoOwner => v4[l] \in v2
    /\ Explained /\ LinkHolds

LEMMA OwnersStart == Owners!Init => OwnersInv
  <1> SUFFICES ASSUME Owners!Init PROVE OwnersInv
    OBVIOUS
  <1>1. v3 = [k \in {} |-> NoOwner] /\ v2 \subseteq Legacy /\ v4 = [l \in Owners!Lics |-> NoOwner]
        /\ v5 = Owners!NoLink /\ v6 = {}
    BY DEF Owners!Init, NoOwner
  <1>2. BoundOwners = {}
    BY <1>1 DEF BoundOwners
  <1>3. IsFiniteSet({})
    BY FS_EmptySet
  <1>4. NoOwner \notin v2
    BY <1>1, OwnersAssumption DEF NoOwner, Owners!None
  <1> QED
    BY <1>1, <1>2, <1>3, <1>4 DEF OwnersInv, Explained, LinkHolds

LEMMA OwnersCount == \A S : Owners!Cardinality(S) = Cardinality(S)
  BY Zenon DEF Owners!Cardinality, Cardinality

\* boundOwnerFromBindings() with one owner at most: each bound key leads to it.
LEMMA BoundAlike ==
    ASSUME OwnersInv, NEW keys, Cardinality(Owners!BoundTo(keys)) <= 1
    PROVE  /\ \A o \in Owners!BoundTo(keys) : Owners!BoundTo(keys) = {o} /\ o # NoOwner
           /\ \A k \in keys \cap DOMAIN v3 : v3[k] \in Owners!BoundTo(keys)
  <1>1. Owners!BoundTo(keys) \subseteq BoundOwners
    BY DEF Owners!BoundTo, BoundOwners
  <1>2. IsFiniteSet(Owners!BoundTo(keys))
    BY <1>1, FS_Subset DEF OwnersInv
  <1>3. ASSUME NEW o \in Owners!BoundTo(keys) PROVE Owners!BoundTo(keys) = {o}
    <2>1. Cardinality(Owners!BoundTo(keys)) \in Nat
      BY <1>2, FS_CardinalityType
    <2>2. Cardinality(Owners!BoundTo(keys)) # 0
      BY <1>2, <1>3, FS_EmptySet
    <2>3. Cardinality(Owners!BoundTo(keys)) = 1
      BY <2>1, <2>2
    <2> QED
      BY <1>2, <1>3, <2>3, FS_Singleton
  <1>4. \A k \in keys \cap DOMAIN v3 : v3[k] \in Owners!BoundTo(keys)
    BY DEF Owners!BoundTo
  <1> QED
    BY <1>1, <1>3, <1>4 DEF OwnersInv

\* The owner that is worked out is the one every bound key has.
LEMMA OwnerIsBound ==
    ASSUME OwnersInv, NEW keys, NEW legacy, NEW preferred, Owners!Agreed(keys, legacy), preferred # NoOwner
    PROVE  LET o == Owners!OwnerFor(keys, legacy, preferred)
           IN  o # NoOwner /\ \A k \in keys \cap DOMAIN v3 : v3[k] = o
  <1> DEFINE o == Owners!OwnerFor(keys, legacy, preferred)
  <1>1. Cardinality(Owners!BoundTo(keys)) <= 1
    BY OwnersCount DEF Owners!Agreed
  <1>2. CASE Owners!BoundTo(keys) # {}
    <2>1. o \in Owners!BoundTo(keys)
      BY <1>2 DEF Owners!OwnerFor
    <2> HIDE DEF o
    <2>2. Owners!BoundTo(keys) = {o} /\ o # NoOwner
      BY <1>1, <2>1, BoundAlike
    <2>3. \A k \in keys \cap DOMAIN v3 : v3[k] \in Owners!BoundTo(keys)
      BY <1>1, BoundAlike
    <2> QED
      BY <2>2, <2>3 DEF o
  <1>3. CASE Owners!BoundTo(keys) = {}
    <2>1. keys \cap DOMAIN v3 = {}
      BY <1>3 DEF Owners!BoundTo
    <2>2. CASE Owners!Historical(legacy) # {}
      <3>1. o \in Owners!Historical(legacy)
        BY <1>3, <2>2 DEF Owners!OwnerFor
      <3>2. o \in v2
        BY <3>1 DEF Owners!Historical
      <3> HIDE DEF o
      <3>3. o # NoOwner
        BY <3>2 DEF OwnersInv
      <3> QED
        BY <2>1, <3>3 DEF o
    <2>3. CASE Owners!Historical(legacy) = {}
      <3>1. o = preferred
        BY <1>3, <2>3 DEF Owners!OwnerFor
      <3> HIDE DEF o
      <3> QED
        BY <2>1, <3>1 DEF o
    <2> QED
      BY <2>2, <2>3
  <1> QED
    BY <1>2, <1>3

LEMMA BindAdds ==
    ASSUME OwnersInv, NEW keys, NEW o, o # NoOwner, Owners!Bind(keys, o),
           \A k \in keys \cap DOMAIN v3 : v3[k] = o
    PROVE  /\ \A k \in DOMAIN v3 : k \in DOMAIN v3' /\ v3'[k] = v3[k]
           /\ \A k \in keys : k \in DOMAIN v3' /\ v3'[k] = o
           /\ NoOwner \notin BoundOwners' /\ IsFiniteSet(BoundOwners')
  <1>1. v3' = [k \in DOMAIN v3 \cup keys |-> IF k \in keys THEN o ELSE v3[k]]
    BY DEF Owners!Bind
  <1>2. DOMAIN v3' = DOMAIN v3 \cup keys
    BY <1>1
  <1>3. /\ \A k \in DOMAIN v3 : v3'[k] = v3[k]
        /\ \A k \in keys : v3'[k] = o
    BY <1>1
  <1>4. BoundOwners' \subseteq BoundOwners \cup {o}
    BY <1>2, <1>3 DEF BoundOwners
  <1>5. IsFiniteSet(BoundOwners \cup {o})
    BY FS_AddElement DEF OwnersInv
  <1>6. IsFiniteSet(BoundOwners')
    BY <1>4, <1>5, FS_Subset
  <1> QED
    BY <1>2, <1>3, <1>4, <1>6 DEF OwnersInv

\* bindOwner(): answers that were given stay explained.
LEMMA BoundStays ==
    ASSUME OwnersInv, NEW keys, NEW o, o # NoOwner, Owners!Bind(keys, o),
           \A k \in keys \cap DOMAIN v3 : v3[k] = o,
           v2' \in {v2, v2 \cup {o}}, UNCHANGED v4,
           NEW ls, \A l \in ls : <<"lic", l>> \in keys, v6' = v6 \cup {<<l, o, FALSE>> : l \in ls},
           LinkHolds'
    PROVE  OwnersInv'
  <1>1. /\ \A k \in DOMAIN v3 : k \in DOMAIN v3' /\ v3'[k] = v3[k]
        /\ \A k \in keys : k \in DOMAIN v3' /\ v3'[k] = o
        /\ NoOwner \notin BoundOwners' /\ IsFiniteSet(BoundOwners')
    BY BindAdds
  <1>2. Explained'
    <2> SUFFICES ASSUME NEW s \in v6'
                 PROVE  /\ s[3] = TRUE \/ s[3] = FALSE
                        /\ s[3] = TRUE => s[1] \in Owners!Lics /\ v4'[s[1]] = s[2] /\ s[2] # NoOwner
                        /\ s[3] = FALSE => <<"lic", s[1]>> \in DOMAIN v3' /\ v3'[<<"lic", s[1]>>] = s[2]
      BY DEF Explained, Owners!Lics
    <2>1. CASE s \in v6
      <3>1. /\ s[3] = TRUE \/ s[3] = FALSE
            /\ s[3] = TRUE => s[1] \in Owners!Lics /\ v4[s[1]] = s[2] /\ s[2] # NoOwner
            /\ s[3] = FALSE => <<"lic", s[1]>> \in DOMAIN v3 /\ v3[<<"lic", s[1]>>] = s[2]
        BY <2>1 DEF OwnersInv, Explained
      <3> QED
        BY <1>1, <3>1
    <2>2. CASE s \notin v6
      <3>1. PICK l \in ls : s = <<l, o, FALSE>>
        BY <2>2
      <3>2. s[1] = l /\ s[2] = o /\ s[3] = FALSE
        BY <3>1
      <3> QED
        BY <1>1, <3>2
    <2> QED
      BY <2>1, <2>2
  <1>3. NoOwner \notin v2' /\ v2 \subseteq v2'
    BY DEF OwnersInv
  <1> QED
    BY <1>1, <1>2, <1>3 DEF OwnersInv, Owners!Lics

LEMMA OwnersStay ==
    ASSUME OwnersInv, UNCHANGED <<v2, v3, v4, v6>>, LinkHolds' PROVE OwnersInv'
  BY DEF OwnersInv, BoundOwners, Explained

LEMMA PreferredIs ==
    ASSUME NEW recs PROVE Owners!Preferred(recs) # NoOwner
  <1>1. \A x : <<"cus", x>> # NoOwner /\ <<"lic", x>> # NoOwner
    BY DEF NoOwner, Owners!None
  <1> QED
    BY <1>1 DEF Owners!Preferred

LEMMA VisitStep ==
    ASSUME OwnersInv, NEW recs, NEW keys, NEW legacy, NEW preferred, NEW ls, preferred # NoOwner,
           \A l \in ls : <<"lic", l>> \in keys, Owners!Visit(recs, keys, legacy, preferred, ls)
    PROVE  OwnersInv'
  <1> DEFINE o == Owners!OwnerFor(keys, legacy, preferred)
  <1>1. /\ Owners!Agreed(keys, legacy) /\ Owners!Bind(keys, o) /\ v2' \in {v2, v2 \cup {o}}
        /\ v6' = v6 \cup {<<l, o, FALSE>> : l \in ls} /\ UNCHANGED <<v4, v5>>
    BY DEF Owners!Visit
  <1>2. o # NoOwner /\ \A k \in keys \cap DOMAIN v3 : v3[k] = o
    BY <1>1, OwnerIsBound
  <1> HIDE DEF o
  <1>3. LinkHolds'
    BY <1>1 DEF OwnersInv, LinkHolds
  <1> QED
    BY <1>1, <1>2, <1>3, BoundStays

LEMMA VisitsStep ==
    ASSUME OwnersInv, NEW a, Owners!VisitByEmail(a.email) \/ Owners!VisitByLicense(a.lic)
    PROVE  OwnersInv'
  <1>1. CASE Owners!VisitByEmail(a.email)
    <2> DEFINE recs == {b \in v1 : b.email = a.email}
               ls == {b.lic : b \in recs}
    <2>1. Owners!Visit(recs, Owners!KeysOf(recs), Owners!PastOf(recs), Owners!Preferred(recs), ls)
      BY <1>1 DEF Owners!VisitByEmail
    <2>2. \A l \in ls : <<"lic", l>> \in Owners!KeysOf(recs)
      BY DEF Owners!KeysOf
    <2> HIDE DEF recs, ls
    <2> QED
      BY <2>1, <2>2, PreferredIs, VisitStep
  <1>2. CASE Owners!VisitByLicense(a.lic)
    <2> DEFINE recs == {b \in v1 : b.lic = a.lic}
               keys == Owners!KeysOf(recs) \cup {<<"lic", a.lic>>}
               preferred == IF recs = {} THEN <<"lic", a.lic>> ELSE Owners!Preferred(recs)
               ls == {a.lic}
    <2>1. Owners!Visit(recs, keys, Owners!PastOf(recs) \cup {<<"lic", a.lic>>}, preferred, ls)
      BY <1>2 DEF Owners!VisitByLicense
    <2>2. \A l \in ls : <<"lic", l>> \in keys
      OBVIOUS
    <2>3. preferred # NoOwner
      BY PreferredIs DEF NoOwner, Owners!None
    <2> HIDE DEF recs, keys, preferred, ls
    <2> QED
      BY <2>1, <2>2, <2>3, VisitStep
  <1> QED
    BY <1>1, <1>2

\* A grant answers as long as it leads to a member, and it is never moved.
LEMMA GrantedStep == ASSUME OwnersInv, NEW l \in Owners!Lics, Owners!VisitByGrant(l) PROVE OwnersInv'
  <1>1. v4[l] \in v2 /\ v6' = v6 \cup {<<l, v4[l], TRUE>>} /\ UNCHANGED <<v2, v3, v4, v5>>
    BY DEF Owners!VisitByGrant
  <1>2. v4[l] # NoOwner
    BY <1>1 DEF OwnersInv
  <1>3. Explained'
    <2> DEFINE t == <<l, v4[l], TRUE>>
    <2>1. t[1] = l /\ t[2] = v4[l] /\ t[3] = TRUE
      OBVIOUS
    <2> HIDE DEF t
    <2> QED
      BY <1>1, <1>2, <2>1 DEF OwnersInv, Explained, Owners!Lics, t
  <1> QED
    BY <1>1, <1>3 DEF OwnersInv, BoundOwners, LinkHolds, Owners!Lics

LEMMA LinkSteps ==
    ASSUME OwnersInv,
           \/ Owners!LinkFails \/ Owners!LinkBinds \/ Owners!LinkGrants
           \/ \E a \in Accounts, l \in Owners!Lics : Owners!LinkBegins(a, l)
    PROVE  OwnersInv'
  <1>1. CASE Owners!LinkFails
    BY <1>1, OwnersStay DEF Owners!LinkFails, LinkHolds
  <1>2. ASSUME NEW a, NEW l, Owners!LinkBegins(a, l) PROVE OwnersInv'
    <2> DEFINE o == Owners!OwnerFor(Owners!KeysOf({a}), Owners!PastOf({a}), <<"cus", a.cus>>)
    <2>1. /\ Owners!Agreed(Owners!KeysOf({a}), Owners!PastOf({a}))
          /\ v5' = [pc |-> "asks", acc |-> a, lic |-> l, owner |-> o] /\ UNCHANGED <<v2, v3, v4, v6>>
      BY <1>2 DEF Owners!LinkBegins
    <2>2. o # NoOwner
      <3>1. <<"cus", a.cus>> # NoOwner
        BY DEF NoOwner, Owners!None
      <3> QED
        BY <2>1, <3>1, OwnerIsBound
    <2> HIDE DEF o
    <2> QED
      BY <2>1, <2>2, OwnersStay DEF LinkHolds
  <1>3. CASE Owners!LinkBinds
    <2> DEFINE keys == Owners!KeysOf({v5.acc})
               legacy == Owners!PastOf({v5.acc})
               o == Owners!OwnerFor(keys, legacy, <<"cus", v5.acc.cus>>)
               ls == {}
    <2>1. /\ v5.pc = "asks" /\ Owners!Agreed(keys, legacy) /\ Owners!Bind(keys, o)
          /\ \/ o = v5.owner /\ v2' = v2 \cup {o} /\ v5' = [v5 EXCEPT !.pc = "adopts"]
             \/ o # v5.owner /\ v5' = Owners!NoLink /\ UNCHANGED v2
          /\ UNCHANGED <<v4, v6>>
      BY <1>3 DEF Owners!LinkBinds
    <2>2. o # NoOwner /\ \A k \in keys \cap DOMAIN v3 : v3[k] = o
      <3>1. <<"cus", v5.acc.cus>> # NoOwner
        BY DEF NoOwner, Owners!None
      <3> QED
        BY <2>1, <3>1, OwnerIsBound
    <2> HIDE DEF keys, legacy, o
    <2>3. LinkHolds'
      <3>1. CASE o = v5.owner /\ v2' = v2 \cup {o} /\ v5' = [v5 EXCEPT !.pc = "adopts"]
        <4>1. v5 = [pc |-> v5.pc, acc |-> v5.acc, lic |-> v5.lic, owner |-> v5.owner]
          BY <2>1 DEF OwnersInv, LinkHolds, Owners!NoLink
        <4>2. v5' = [pc |-> "adopts", acc |-> v5.acc, lic |-> v5.lic, owner |-> v5.owner]
          BY <3>1, <4>1
        <4> QED
          BY <2>2, <3>1, <4>2 DEF LinkHolds
      <3>2. CASE v5' = Owners!NoLink
        BY <3>2 DEF LinkHolds
      <3> QED
        BY <2>1, <3>1, <3>2
    <2>4. /\ \A l \in ls : <<"lic", l>> \in keys
          /\ v6' = v6 \cup {<<l, o, FALSE>> : l \in ls}
      BY <2>1
    <2>5. v2' \in {v2, v2 \cup {o}} /\ UNCHANGED v4
      BY <2>1
    <2> HIDE DEF ls
    <2> QED
      BY <2>1, <2>2, <2>3, <2>4, <2>5, BoundStays
  <1>4. CASE Owners!LinkGrants
    <2>1. /\ v5.pc = "adopts" /\ v5' = Owners!NoLink
          /\ v4' = [v4 EXCEPT ![v5.lic] = IF @ = NoOwner THEN v5.owner ELSE @]
          /\ UNCHANGED <<v2, v3, v6>>
      BY <1>4 DEF Owners!LinkGrants, NoOwner
    <2>2. v5.owner \in v2
      BY <2>1 DEF OwnersInv, LinkHolds, Owners!NoLink
    <2>3. v4' = [l \in Owners!Lics |-> v4'[l]]
      BY <2>1 DEF OwnersInv
    <2>4. \A l \in Owners!Lics : v4'[l] = v4[l] \/ (v4[l] = NoOwner /\ v4'[l] \in v2)
      BY <2>1, <2>2 DEF OwnersInv
    <2>5. Explained'
      BY <2>1, <2>4 DEF OwnersInv, Explained, Owners!Lics
    <2>6. LinkHolds'
      BY <2>1 DEF LinkHolds
    <2> QED
      BY <2>1, <2>3, <2>4, <2>5, <2>6 DEF OwnersInv, BoundOwners, Owners!Lics
  <1> QED
    BY <1>1, <1>2, <1>3, <1>4

LEMMA OwnersKept == OwnersInv /\ Owners!Next => OwnersInv'
  <1> SUFFICES ASSUME OwnersInv, Owners!Next PROVE OwnersInv'
    OBVIOUS
  <1>1. CASE \/ Owners!LinkFails \/ Owners!LinkBinds \/ Owners!LinkGrants
             \/ \E a \in Accounts, l \in Owners!Lics : Owners!LinkBegins(a, l)
    BY <1>1, LinkSteps
  <1>2. ASSUME NEW a \in Accounts, Owners!VisitByEmail(a.email) \/ Owners!VisitByLicense(a.lic)
        PROVE  OwnersInv'
    BY <1>2, VisitsStep
  <1>3. ASSUME NEW a \in Accounts, NEW b \in Accounts, Owners!Purchase(a) \/ Owners!Identified(a, b)
        PROVE  OwnersInv'
    BY <1>3, OwnersStay DEF Owners!Purchase, Owners!Identified, OwnersInv, LinkHolds
  <1>4. ASSUME NEW l \in Owners!Lics, Owners!VisitByGrant(l) PROVE OwnersInv'
    BY <1>4, GrantedStep
  <1> QED
    BY <1>1, <1>2, <1>3, <1>4 DEF Owners!Next

LEMMA OwnersAreOne == OwnersInv => Owners!OneOwnerEach
  <1> SUFFICES ASSUME OwnersInv PROVE Owners!OneOwnerEach
    OBVIOUS
  <1>1. ASSUME NEW s \in v6, NEW t \in v6, s[1] = t[1], s[3] = t[3] PROVE s[2] = t[2]
    <2>1. CASE s[3] = TRUE
      BY <1>1, <2>1 DEF OwnersInv, Explained
    <2>2. CASE s[3] = FALSE
      BY <1>1, <2>2 DEF OwnersInv, Explained
    <2> QED
      BY <2>1, <2>2 DEF OwnersInv, Explained
  <1> QED
    BY <1>1 DEF OwnersInv, Owners!OneOwnerEach, NoOwner

-----------------------------------------------------------------------------
(* EarnPayouts: v1 now, v2 booked, v3 jobs, v4 entries, v5 stripe, v6 keyAt, *)
(* v7 worker, v8 preference, v9 automatic, v10 count.  Its proofs are in     *)
(* EarnPayouts_proofs; here its two instances are shown to be one.           *)

Paying == INSTANCE EarnPayouts_proofs WITH
    MaxTime <- PayoutTime,
    now <- v1, booked <- v2, jobs <- v3, entries <- v4, stripe <- v5,
    keyAt <- v6, worker <- v7, preference <- v8, automatic <- v9,
    count <- v10

LEMMA SameSums == \A f : Payouts!SumFunction(f) = Paying!SumFunction(f)
  BY Zenon DEF Payouts!SumFunction, Paying!SumFunction, Payouts!SumFunctionOnSet, Paying!SumFunctionOnSet,
     Payouts!FoldFunctionOnSet, Paying!FoldFunctionOnSet, Payouts!MapThenFoldSet, Paying!MapThenFoldSet

LEMMA SameAllocations ==
    Payouts!Debt = Paying!Debt /\ Payouts!Credit = Paying!Credit /\ Payouts!Allocations = Paying!Allocations
  <1>1. \A s : Payouts!OfJobs(s) = Paying!OfJobs(s)
    BY SameSums, Zenon DEF Payouts!OfJobs, Paying!OfJobs, Payouts!Sign, Paying!Sign
  <1>2. \A s : Payouts!Total(s) = Paying!Total(s)
    BY <1>1, Zenon DEF Payouts!Total, Paying!Total
  <1>3. Payouts!Debt = Paying!Debt /\ Payouts!Credit = Paying!Credit
    BY SameSums, <1>2, Zenon DEF Payouts!Debt, Paying!Debt, Payouts!Credit, Paying!Credit
  <1> QED
    BY SameSums, <1>2, <1>3, Zenon DEF Payouts!Allocations, Paying!Allocations

LEMMA SameInit == Payouts!Init => Paying!Init
  BY DEF Payouts!Init, Paying!Init, Payouts!Idle, Paying!Idle

LEMMA SameAdmit == Payouts!Admit => Paying!Admit
  <1> USE DEF Payouts!At, Paying!At, Payouts!Idle, Paying!Idle, Payouts!Cycle, Paying!Cycle,
      Payouts!Book, Paying!Book, Payouts!File, Paying!File, Payouts!Outside, Paying!Outside,
      Payouts!AtStripe, Paying!AtStripe
  <1>1. Payouts!Admissible <=> Paying!Admissible
    BY DEF Payouts!Admissible, Paying!Admissible
  <1> QED
    BY SameAllocations, <1>1, Zenon DEF Payouts!Admit, Paying!Admit

LEMMA SameSubmitted == \A j, next : Payouts!Submitted(j, next) => Paying!Submitted(j, next)
  <1>1. \A got : Payouts!Apply(got) => Paying!Apply(got)
    BY DEF Payouts!Apply, Paying!Apply, Payouts!Outcomes, Paying!Outcomes, Payouts!Settles, Paying!Settles,
       Payouts!Settled, Paying!Settled, Payouts!Written, Paying!Written, Payouts!Ended, Paying!Ended
  <1>2. \A j : Payouts!KeyKnown(j) = Paying!KeyKnown(j)
    BY DEF Payouts!KeyKnown, Paying!KeyKnown
  <1>3. \A j : Payouts!Arrives(j) => Paying!Arrives(j)
    BY <1>2 DEF Payouts!Arrives, Paying!Arrives
  <1>4. \A job : Payouts!TooOld(job) = Paying!TooOld(job)
    BY DEF Payouts!TooOld, Paying!TooOld
  <1> QED
    BY <1>1, <1>2, <1>3, <1>4, Zenon DEF Payouts!Submitted, Paying!Submitted, Payouts!AtStripe,
       Paying!AtStripe, Payouts!File, Paying!File

LEMMA SameNext == Payouts!Next => Paying!Next
  <1> USE DEF Payouts!At, Paying!At, Payouts!Idle, Paying!Idle, Payouts!Cycle, Paying!Cycle,
      Payouts!Book, Paying!Book, Payouts!File, Paying!File, Payouts!Outside, Paying!Outside,
      Payouts!AtStripe, Paying!AtStripe, Payouts!Ended, Paying!Ended, Payouts!Status, Paying!Status,
      Payouts!Booked, Paying!Booked, Payouts!Unanswered, Paying!Unanswered,
      Payouts!Settles, Paying!Settles, Payouts!Settled, Paying!Settled, Payouts!Written, Paying!Written,
      Payouts!Outcomes, Paying!Outcomes, Payouts!Apply, Paying!Apply
  <1>1. Payouts!Run => Paying!Run
    BY DEF Payouts!Run, Paying!Run
  <1>2. Payouts!Reconcile => Paying!Reconcile
    BY DEF Payouts!Reconcile, Paying!Reconcile
  <1>3. Payouts!SettleStored => Paying!SettleStored
    BY DEF Payouts!SettleStored, Paying!SettleStored
  <1>4. Payouts!AsksStripe => Paying!AsksStripe
    BY DEF Payouts!AsksStripe, Paying!AsksStripe, Payouts!Admissible, Paying!Admissible
  <1>5. Payouts!Rest => Paying!Rest
    BY DEF Payouts!Rest, Paying!Rest
  <1>6. Payouts!Tick => Paying!Tick
    BY Zenon DEF Payouts!Tick, Paying!Tick
  <1>7. /\ Payouts!Configure => Paying!Configure
        /\ Payouts!SavePreference => Paying!SavePreference
        /\ Payouts!Crash => Paying!Crash
    BY DEF Payouts!Configure, Paying!Configure, Payouts!SavePreference, Paying!SavePreference,
       Payouts!Crash, Paying!Crash
  <1>8. \A j : Payouts!ReadPayoutStatus(j) => Paying!ReadPayoutStatus(j)
    BY DEF Payouts!ReadPayoutStatus, Paying!ReadPayoutStatus
  <1>9. \A j : Payouts!Repeat(j) => Paying!Repeat(j)
    BY SameSubmitted, Zenon DEF Payouts!Repeat, Paying!Repeat
  <1>10. \A j : Payouts!SubmitAdmitted(j) => Paying!SubmitAdmitted(j)
    BY SameSubmitted, Zenon DEF Payouts!SubmitAdmitted, Paying!SubmitAdmitted
  <1>11. \A j : Payouts!StripeMoves(j) => Paying!StripeMoves(j)
    BY DEF Payouts!StripeMoves, Paying!StripeMoves
  <1>12. \A s, c : Payouts!Record(s, c) => Paying!Record(s, c)
    BY DEF Payouts!Record, Paying!Record
  <1> QED
    BY SameAdmit, <1>1, <1>2, <1>3, <1>4, <1>5, <1>6, <1>7, <1>8, <1>9, <1>10, <1>11, <1>12, Zenon
    DEF Payouts!Next, Paying!Next

PayoutsInv == Paying!IInv

LEMMA PayoutsStart == Payouts!Init => PayoutsInv
  BY SameInit, Paying!InitIInv DEF PayoutsInv

LEMMA PayoutsKept ==
    ASSUME PayoutsInv, Payouts!Next \/ UNCHANGED <<v1, v2, v3, v4, v5, v6, v7, v8, v9, v10>>
    PROVE  PayoutsInv'
  <1>1. Paying!PayoutAssumption
    BY PayoutAssumption DEF Paying!PayoutAssumption
  <1>2. Paying!Next \/ UNCHANGED Paying!vars
    BY SameNext DEF Paying!vars
  <1> QED
    BY <1>1, <1>2, Paying!NextIInv DEF PayoutsInv

LEMMA PaidOnceEach == PayoutsInv => Payouts!PaidOnce
  <1>1. Paying!PaidOnce => Payouts!PaidOnce
    BY DEF Payouts!PaidOnce, Paying!PaidOnce, Payouts!HasAll, Paying!HasAll, Payouts!HasNone, Paying!HasNone,
       Payouts!Srcs, Paying!Srcs, Payouts!Ended, Paying!Ended
  <1> QED
    BY <1>1, Paying!AgreeingPaidOnce DEF PayoutsInv
-----------------------------------------------------------------------------
(* EarnReferrals: v1 sale, v2 sent, v3 promotion, v4 history, v5 created,    *)
(* v6 rate, v7 rows, v8 entries, v9 seen, v10 worker.                        *)

Sales == Referrals!Sales
Sale == [promo : Nat, early : BOOLEAN, self : BOOLEAN, refunded : Nat, dispute : {"none", "open", "won", "lost"}]
Row == [made : BOOLEAN, rate : Nat, refunded : Nat, disputed : BOOLEAN]

ReferralTypes ==
    /\ v1 \in [Sales -> Sale] /\ v7 \in [Sales -> Row]
    /\ v8 \in [Sales -> [cents : Int, earnings : Nat]]
    /\ v3 \in Nat /\ v4 \subseteq Nat /\ v5 \in Nat /\ v6 \in Nat

\* Events are numbered by sale, so a new one is new.
OfSale(s) == {e \in v2 : e[2] = s}
EventsInv ==
    /\ IsFiniteSet(v2) /\ v9 \subseteq v2
    /\ \A e \in v2 :
          /\ e[1] \in {"paid", "charge"} /\ e[2] \in Sales /\ v1[e[2]].promo # 0
          /\ e[3] \in Nat /\ e[3] <= Cardinality(OfSale(e[2]))

\* Events to be handled yet, and those beyond the one that is being handled.
Unseen(s) == {e \in OfSale(s) : e \notin v9}
Later(s) == {e \in Unseen(s) : e # v10.event}

\* The refunds and disputes that were read are those Stripe has.
Current(r, s) ==
    r.refunded = v1[s].refunded /\ (r.disputed = TRUE <=> v1[s].dispute \in {"open", "lost"})

Earned(s) == v1[s].promo # 0 /\ v1[s].self = FALSE
Owed(s) == Earned(s) /\ v1[s].early = FALSE

\* A sale that is owed and not on record has its payment to be handled; one that
\* is on record either agrees with Stripe or has an event to be handled.
SaleOK(s) ==
    /\ v1[s].promo # 0 /\ v1[s].early = FALSE => v1[s].promo \in {v3} \cup v4
    /\ v7[s].made = TRUE => Earned(s)
    /\ v7[s].made = FALSE => v7[s] = Referrals!NoRow /\ v8[s].earnings = 0
    /\ v7[s].made = FALSE /\ Owed(s) => \E e \in Unseen(s) : e[1] = "paid"
    /\ v7[s].made = TRUE /\ Owed(s) => Current(v7[s], s) \/ Unseen(s) # {}
    /\ v8[s].cents = Referrals!Net(v7[s]) /\ v8[s].earnings <= 1
SalesInv == \A s \in Sales : SaleOK(s)

\* What the worker has read is current, or an event will come.
AtSale == {"prove", "read", "disputes", "adjust", "done", "correct"}
WorkerInv ==
    /\ v10 = [pc |-> v10.pc, event |-> v10.event, sale |-> v10.sale,
              refunded |-> v10.refunded, disputed |-> v10.disputed, rate |-> v10.rate]
    /\ v10.pc \in AtSale \cup {"idle", "activate"}
    /\ v10.refunded \in Nat /\ v10.disputed \in BOOLEAN /\ v10.rate \in Nat
    /\ v10.pc \in AtSale =>
          /\ v10.sale \in Sales /\ v1[v10.sale].promo # 0
          /\ v10.event = Referrals!NoEvent \/ (v10.event \in v2 /\ v10.event[2] = v10.sale)
          /\ v7[v10.sale].made = (v10.pc # "prove")
    /\ v10.pc = "disputes" =>
          v1[v10.sale].dispute # "none" /\ (v10.refunded = v1[v10.sale].refunded \/ Later(v10.sale) # {})
    /\ v10.pc = "adjust" => Current(v10, v10.sale) \/ Later(v10.sale) # {}
    /\ v10.pc = "done" => v10.event # Referrals!NoEvent
    /\ v10.pc = "done" => Current(v7[v10.sale], v10.sale) \/ Later(v10.sale) # {}

ReferralsInv == ReferralTypes /\ EventsInv /\ SalesInv /\ WorkerInv

\* What a row earns is a number, nothing when there is no row, all that is left of
\* it when nothing was refunded, and nothing when it is disputed.
LEMMA NetIs ==
    ASSUME NEW r \in Row
    PROVE  /\ Referrals!Net(r) \in Int /\ Referrals!Commission(r) \in Nat
           /\ r.disputed = TRUE => Referrals!Net(r) = 0
           /\ r.disputed = FALSE =>
                 Referrals!Net(r) = Referrals!Commission(r) - (Referrals!Commission(r) * r.refunded) \div 2
           /\ r.disputed = FALSE /\ r.refunded = 0 => Referrals!Net(r) = Referrals!Commission(r)
  <1> DEFINE c == Referrals!Commission(r)
             cut == c * r.refunded
  <1>1. r.rate \in Nat /\ r.refunded \in Nat /\ r.disputed \in BOOLEAN
    BY DEF Row
  <1>2. c \in Nat
    BY <1>1 DEF Referrals!Commission, Referrals!Price
  <1>3. Referrals!Net(r) = c - (IF r.disputed THEN c ELSE cut \div 2)
    BY DEF Referrals!Net, Referrals!Clawed, Referrals!Price
  <1> HIDE DEF c
  <1>4. cut \in Nat /\ (r.refunded = 0 => cut = 0)
    BY <1>1, <1>2
  <1> HIDE DEF cut
  <1>5. CASE r.disputed = TRUE
    <2>1. Referrals!Net(r) = c - c
      BY <1>3, <1>5
    <2> QED
      BY <1>2, <1>5, <2>1 DEF c
  <1>6. CASE r.disputed = FALSE
    <2>1. Referrals!Net(r) = c - cut \div 2
      BY <1>3, <1>6
    <2>2. cut \div 2 \in Int /\ (cut = 0 => cut \div 2 = 0)
      BY <1>4
    <2>3. Referrals!Net(r) \in Int /\ (r.refunded = 0 => Referrals!Net(r) = c)
      BY <1>2, <1>4, <2>1, <2>2
    <2> QED
      BY <1>2, <1>6, <2>1, <2>3 DEF c, cut
  <1> QED
    BY <1>1, <1>5, <1>6

LEMMA NoRowIs ==
    /\ Referrals!NoRow \in Row /\ Referrals!NoRow.made = FALSE /\ Referrals!NoRow.disputed = FALSE
    /\ Referrals!NoRow.refunded = 0 /\ Referrals!Net(Referrals!NoRow) = 0
  <1>1. /\ Referrals!NoRow \in Row /\ Referrals!NoRow.made = FALSE /\ Referrals!NoRow.disputed = FALSE
        /\ Referrals!NoRow.refunded = 0 /\ Referrals!NoRow.rate = 0
    BY DEF Row, Referrals!NoRow
  <1>2. Referrals!Commission(Referrals!NoRow) = 0
    BY <1>1 DEF Referrals!Commission, Referrals!Price
  <1> QED
    BY <1>1, <1>2, NetIs

LEMMA ReferralsStart == Referrals!Init => ReferralsInv
  <1> SUFFICES ASSUME Referrals!Init PROVE ReferralsInv
    OBVIOUS
  <1> DEFINE none == [promo |-> 0, early |-> FALSE, self |-> FALSE, refunded |-> 0, dispute |-> "none"]
  <1>1. /\ v1 = [s \in Sales |-> none] /\ v2 = {} /\ v9 = {} /\ v3 = 1 /\ v4 = {} /\ v5 = 1 /\ v6 \in Nat
        /\ v7 = [s \in Sales |-> Referrals!NoRow] /\ v8 = [s \in Sales |-> [cents |-> 0, earnings |-> 0]]
        /\ v10 = Referrals!Idle
    BY CommissionAssumption DEF Referrals!Init, Sales
  <1>2. ReferralTypes
    BY <1>1, NoRowIs DEF ReferralTypes, Sale
  <1>3. EventsInv
    BY <1>1, FS_EmptySet DEF EventsInv
  <1>4. SalesInv
    BY <1>1, NoRowIs DEF SalesInv, SaleOK, Earned, Owed
  <1>5. WorkerInv
    BY <1>1 DEF WorkerInv, Referrals!Idle, AtSale
  <1> QED
    BY <1>2, <1>3, <1>4, <1>5 DEF ReferralsInv

LEMMA ReferralsCount == \A S : Referrals!Cardinality(S) = Cardinality(S)
  BY Zenon DEF Referrals!Cardinality, Cardinality

\* A new event of a sale is none of those there are.
LEMMA NewEvent ==
    ASSUME EventsInv, NEW kind \in {"paid", "charge"}, NEW s \in Sales, Referrals!Emits(kind, s),
           UNCHANGED v9, v1'[s].promo # 0, \A t \in Sales : v1[t].promo # 0 => v1'[t].promo # 0
    PROVE  EventsInv' /\ \E ev : ev \notin v2 /\ ev[1] = kind /\ ev[2] = s /\ v2' = v2 \cup {ev}
  <1> DEFINE n == Cardinality(OfSale(s))
             ev == <<kind, s, 1 + n>>
  <1>1. v2' = v2 \cup {ev}
    BY ReferralsCount DEF Referrals!Emits, OfSale
  <1>2. \A t : IsFiniteSet(OfSale(t)) /\ Cardinality(OfSale(t)) \in Nat
    <2>1. \A t : OfSale(t) \in SUBSET v2
      BY DEF OfSale
    <2> QED
      BY <2>1, FS_Subset, FS_CardinalityType DEF EventsInv
  <1>3. n \in Nat
    BY <1>2
  <1>4. ev[1] = kind /\ ev[2] = s /\ ev[3] = 1 + n
    OBVIOUS
  <1>5. \A e \in v2 : e[2] = s => e[3] <= n
    BY DEF EventsInv
  <1> HIDE DEF n, ev
  <1>6. ev \notin v2
    <2> SUFFICES ASSUME ev \in v2 PROVE FALSE
      OBVIOUS
    <2>1. ev[3] <= n
      BY <1>4, <1>5
    <2> QED
      BY <1>3, <1>4, <2>1
  <1>7. OfSale(s)' = OfSale(s) \cup {ev} /\ \A t : t # s => OfSale(t)' = OfSale(t)
    BY <1>1, <1>4 DEF OfSale
  <1>8. Cardinality(OfSale(s)') = n + 1
    <2>1. ev \notin OfSale(s)
      BY <1>6 DEF OfSale
    <2> QED
      BY <1>2, <1>7, <2>1, FS_AddElement DEF n
  <1>9. ASSUME NEW e \in v2'
        PROVE  /\ e[1] \in {"paid", "charge"} /\ e[2] \in Sales /\ v1'[e[2]].promo # 0
               /\ e[3] \in Nat /\ e[3] <= Cardinality(OfSale(e[2])')
    <2>1. CASE e = ev
      BY <1>3, <1>4, <1>8, <2>1
    <2>2. CASE e \in v2 /\ e[2] = s
      <3>1. e[3] \in Nat /\ e[3] <= n /\ e[1] \in {"paid", "charge"}
        BY <1>5, <2>2 DEF EventsInv
      <3> QED
        BY <1>3, <1>8, <2>2, <3>1
    <2>3. CASE e \in v2 /\ e[2] # s
      BY <1>7, <2>3 DEF EventsInv
    <2> QED
      BY <1>1, <2>1, <2>2, <2>3
  <1>10. IsFiniteSet(v2')
    BY <1>1, FS_AddElement DEF EventsInv
  <1>11. EventsInv'
    <2>1. v9' \subseteq v2'
      BY <1>1 DEF EventsInv
    <2> QED
      BY <1>9, <1>10, <2>1 DEF EventsInv, Sales, Referrals!Sales
  <1> QED
    BY <1>1, <1>4, <1>6, <1>11

LEMMA EventFacts ==
    ASSUME EventsInv
    PROVE  /\ Referrals!NoEvent \notin v2
           /\ \A s : Unseen(s) \subseteq v2 /\ \A e \in Unseen(s) : e[2] = s /\ e \notin v9
  BY DEF EventsInv, Unseen, OfSale, Referrals!NoEvent

\* What an action leaves alone.
LEMMA SaleStays ==
    ASSUME NEW t \in Sales, SaleOK(t), v1'[t] = v1[t], v7'[t] = v7[t], v8'[t] = v8[t],
           {v3} \cup v4 \subseteq {v3'} \cup v4', Unseen(t)' = Unseen(t)
    PROVE  SaleOK(t)'
  BY DEF SaleOK, Current, Earned, Owed

LEMMA IdleIs == v10' = Referrals!Idle => WorkerInv'
  BY DEF WorkerInv, Referrals!Idle, AtSale

\* Stripe moves on at a sale, and says so.
LEMMA SaleMoves ==
    ASSUME ReferralsInv, NEW s \in Sales, EventsInv', NEW ev, ev \notin v2, ev[2] = s, v2' = v2 \cup {ev},
           v1' \in [Sales -> Sale], v1[s].promo # 0, v1'[s].promo = v1[s].promo, v1'[s].self = v1[s].self,
           v1'[s].early = v1[s].early, v1[s].dispute # "none" => v1'[s].dispute # "none", \A t \in Sales \ {s} : v1'[t] = v1[t],
           UNCHANGED <<v3, v4, v5, v6, v7, v8, v9, v10>>
    PROVE  ReferralsInv'
  <1>1. \A t : Unseen(t) \subseteq Unseen(t)' /\ Later(t) \subseteq Later(t)'
    BY DEF Unseen, Later, OfSale
  <1>2. \A t \in Sales \ {s} : Unseen(t)' = Unseen(t)
    BY DEF Unseen, OfSale
  <1>3. ev \notin v9 /\ (v10.pc \in AtSale => ev # v10.event)
    <2>1. ev[1] \in {"paid", "charge"}
      BY DEF EventsInv
    <2>2. ev # Referrals!NoEvent
      BY <2>1 DEF Referrals!NoEvent
    <2> QED
      BY <2>2 DEF ReferralsInv, WorkerInv, EventsInv
  <1>4. ev \in Unseen(s)' /\ (v10.pc \in AtSale => ev \in Later(s)')
    BY <1>3 DEF Unseen, Later, OfSale
  <1>5. ReferralTypes'
    BY DEF ReferralsInv, ReferralTypes
  <1>6. SaleOK(s)'
    <2>1. SaleOK(s) /\ (Earned(s)' <=> Earned(s)) /\ (Owed(s)' <=> Owed(s))
      BY DEF ReferralsInv, SalesInv, Earned, Owed
    <2>2. v7'[s].made = FALSE /\ Owed(s)' => \E e \in Unseen(s)' : e[1] = "paid"
      BY <1>1, <2>1 DEF SaleOK
    <2> QED
      BY <1>4, <2>1, <2>2 DEF SaleOK
  <1>7. SalesInv'
    <2>1. ASSUME NEW t \in Sales \ {s} PROVE SaleOK(t)'
      BY <1>2, <2>1, SaleStays DEF ReferralsInv, SalesInv
    <2> QED
      BY <1>6, <2>1 DEF SalesInv, Sales, Referrals!Sales
  <1>8. ASSUME v10.pc \in AtSale
        PROVE  \/ Later(v10.sale)' # {}
               \/ Later(v10.sale)' = Later(v10.sale) /\ v1'[v10.sale] = v1[v10.sale]
    <2>1. v10.sale \in Sales
      BY <1>8 DEF ReferralsInv, WorkerInv
    <2>2. CASE v10.sale = s
      BY <1>4, <1>8, <2>2
    <2>3. CASE v10.sale # s
      BY <1>2, <2>1, <2>3 DEF Later
    <2> QED
      BY <2>2, <2>3
  <1>9. WorkerInv'
    BY <1>8 DEF ReferralsInv, WorkerInv, Current, AtSale
  <1> QED
    BY <1>5, <1>7, <1>9 DEF ReferralsInv

LEMMA StripeMovesOn ==
    ASSUME ReferralsInv, NEW s \in Sales,
           Referrals!Refunds(s) \/ \E how \in {"open", "won", "lost"} : Referrals!Disputes(s, how)
    PROVE  ReferralsInv'
  <1>1. UNCHANGED <<v3, v4, v5, v6, v7, v8, v9, v10>> /\ Referrals!Emits("charge", s) /\ v1[s].promo # 0
    BY DEF Referrals!Refunds, Referrals!Disputes, Referrals!Profile, Referrals!Book
  <1>2. v1 \in [Sales -> Sale]
    BY DEF ReferralsInv, ReferralTypes
  <1> DEFINE Moved == /\ v1' \in [Sales -> Sale] /\ v1'[s].promo = v1[s].promo /\ v1'[s].self = v1[s].self
                      /\ v1'[s].early = v1[s].early
                      /\ v1[s].dispute # "none" => v1'[s].dispute # "none"
                      /\ \A t \in Sales \ {s} : v1'[t] = v1[t]
  <1>3. Moved
    <2>1. CASE Referrals!Refunds(s)
      <3> DEFINE c == [v1[s] EXCEPT !.refunded = @ + 1]
      <3>1. v1' = [v1 EXCEPT ![s] = c]
        BY <2>1 DEF Referrals!Refunds
      <3>2. c \in Sale /\ c.promo = v1[s].promo /\ c.early = v1[s].early /\ c.self = v1[s].self
            /\ c.dispute = v1[s].dispute
        BY <1>2 DEF Sale
      <3> QED
        BY <1>2, <3>1, <3>2
    <2>2. ASSUME NEW how \in {"open", "won", "lost"}, Referrals!Disputes(s, how)
          PROVE  Moved
      <3> DEFINE c == [v1[s] EXCEPT !.dispute = how]
      <3>1. v1' = [v1 EXCEPT ![s] = c]
        BY <2>2 DEF Referrals!Disputes
      <3>2. c \in Sale /\ c.promo = v1[s].promo /\ c.early = v1[s].early /\ c.self = v1[s].self
            /\ c.dispute # "none"
        BY <1>2 DEF Sale
      <3> QED
        BY <1>2, <3>1, <3>2
    <2> QED
      BY <2>1, <2>2
  <1>4. \A t \in Sales : v1[t].promo # 0 => v1'[t].promo # 0
    BY <1>3
  <1>5. EventsInv' /\ \E ev : ev \notin v2 /\ ev[1] = "charge" /\ ev[2] = s /\ v2' = v2 \cup {ev}
    BY <1>1, <1>3, <1>4, NewEvent DEF ReferralsInv
  <1>6. PICK ev : ev \notin v2 /\ ev[1] = "charge" /\ ev[2] = s /\ v2' = v2 \cup {ev}
    BY <1>5
  <1> QED
    BY <1>1, <1>3, <1>5, <1>6, SaleMoves

\* A sale through one of the member's promotions, on record when its payment is handled.
LEMMA SaleMade ==
    ASSUME ReferralsInv, NEW s \in Sales, NEW self \in BOOLEAN, Referrals!Sells(s, self)
    PROVE  ReferralsInv'
  <1>1. /\ UNCHANGED <<v3, v4, v5, v6, v7, v8, v9, v10>> /\ Referrals!Emits("paid", s) /\ v1[s].promo = 0
        /\ \E p \in 1..v5 : v1' = [v1 EXCEPT ![s].promo = p, ![s].early = p \notin Referrals!Published,
                                             ![s].self = self]
    BY DEF Referrals!Sells, Referrals!Profile, Referrals!Book
  <1>2. v1 \in [Sales -> Sale] /\ v5 \in Nat
    BY DEF ReferralsInv, ReferralTypes
  <1>3. PICK p \in 1..v5 : v1' = [v1 EXCEPT ![s].promo = p, ![s].early = p \notin Referrals!Published,
                                           ![s].self = self]
    BY <1>1
  <1> DEFINE out == p \notin Referrals!Published
             c == [[[v1[s] EXCEPT !.promo = p] EXCEPT !.early = out] EXCEPT !.self = self]
  <1>4. v1' = [v1 EXCEPT ![s] = c]
    <2>1. v1' = [v1 EXCEPT ![s].promo = p, ![s].early = out, ![s].self = self]
      BY <1>3
    <2> HIDE DEF out
    <2> QED
      BY <1>2, <2>1
  <1>13. out \in BOOLEAN /\ (out = FALSE => p \in {v3} \cup v4) /\ p \in Nat \ {0}
    BY <1>2 DEF Referrals!Published
  <1> HIDE DEF out
  <1>5. c \in Sale /\ c.promo = p /\ c.early = out
    BY <1>2, <1>13 DEF Sale
  <1>6. v1' \in [Sales -> Sale] /\ v1'[s].promo = p /\ p # 0 /\ \A t \in Sales \ {s} : v1'[t] = v1[t]
    BY <1>2, <1>4, <1>5, <1>13
  <1>14. v1'[s].early = FALSE => p \in {v3} \cup v4
    BY <1>2, <1>4, <1>5, <1>13
  <1>7. EventsInv' /\ \E ev : ev \notin v2 /\ ev[1] = "paid" /\ ev[2] = s /\ v2' = v2 \cup {ev}
    <2>1. v1'[s].promo # 0
      BY <1>6
    <2>2. \A t \in Sales : v1[t].promo # 0 => v1'[t].promo # 0
      BY <1>1, <1>6
    <2> QED
      BY <1>1, <2>1, <2>2, NewEvent DEF ReferralsInv
  <1>8. PICK ev : ev \notin v2 /\ ev[1] = "paid" /\ ev[2] = s /\ v2' = v2 \cup {ev}
    BY <1>7
  <1>9. \A t \in Sales \ {s} : Unseen(t)' = Unseen(t) /\ Later(t)' = Later(t)
    BY <1>1, <1>8 DEF Unseen, OfSale, Later
  <1>10. v7[s].made = FALSE /\ SaleOK(s)
    BY <1>1 DEF ReferralsInv, SalesInv, SaleOK, Earned, ReferralTypes, Row
  <1>11. SalesInv'
    <2>1. ASSUME NEW t \in Sales \ {s} PROVE SaleOK(t)'
      BY <1>1, <1>6, <1>9, <2>1, SaleStays DEF ReferralsInv, SalesInv
    <2>2. ev \in Unseen(s)'
      BY <1>1, <1>8 DEF Unseen, OfSale, ReferralsInv, EventsInv
    <2>3. SaleOK(s)'
      BY <1>1, <1>6, <1>8, <1>10, <1>14, <2>2 DEF SaleOK
    <2> QED
      BY <2>1, <2>3 DEF SalesInv, Sales, Referrals!Sales
  <1>12. WorkerInv'
    <2>1. v10.pc \in AtSale => v10.sale \in Sales \ {s}
      BY <1>1 DEF ReferralsInv, WorkerInv
    <2>2. v2 \subseteq v2'
      BY <1>8
    <2> QED
      BY <1>1, <1>6, <1>9, <2>1, <2>2 DEF ReferralsInv, WorkerInv, Current, AtSale, Sales, Referrals!Sales
  <1> QED
    BY <1>1, <1>6, <1>7, <1>11, <1>12 DEF ReferralsInv, ReferralTypes

\* The member replaces the promotion, and the operator changes the rate.
LEMMA ProfileMoves ==
    ASSUME ReferralsInv,
           Referrals!Activates \/ Referrals!Activated \/ (\E r \in Commissions : Referrals!Configure(r))
    PROVE  ReferralsInv'
  <1>1. UNCHANGED <<v1, v2, v7, v8, v9>>
    BY DEF Referrals!Activates, Referrals!Activated, Referrals!Configure, Referrals!Stripe, Referrals!Profile,
       Referrals!Book
  <1>2. EventsInv' /\ \A t : Unseen(t)' = Unseen(t)
    BY <1>1 DEF ReferralsInv, EventsInv, Unseen, OfSale
  <1>3. /\ {v3} \cup v4 \subseteq {v3'} \cup v4' /\ v3' \in Nat /\ v4' \subseteq Nat
        /\ v5' \in Nat /\ v6' \in Nat
    BY CommissionAssumption DEF Referrals!Activates, Referrals!Activated, Referrals!Configure, Referrals!Stripe,
       Referrals!Profile, Referrals!Book, ReferralsInv, ReferralTypes
  <1>4. ReferralTypes'
    BY <1>1, <1>3 DEF ReferralsInv, ReferralTypes
  <1>5. SalesInv'
    <2>1. ASSUME NEW t \in Sales PROVE SaleOK(t)'
      BY <1>1, <1>2, <1>3, SaleStays DEF ReferralsInv, SalesInv
    <2> QED
      BY <2>1 DEF SalesInv, Sales, Referrals!Sales
  <1>6. WorkerInv'
    <2>1. CASE Referrals!Activates
      BY <2>1 DEF Referrals!Activates, Referrals!Idle, WorkerInv, AtSale
    <2>2. CASE Referrals!Activated
      BY <2>2, IdleIs DEF Referrals!Activated
    <2>3. CASE \E r \in Commissions : Referrals!Configure(r)
      <3>1. UNCHANGED v10
        BY <2>3 DEF Referrals!Configure
      <3> QED
        BY <1>1, <1>2, <3>1 DEF ReferralsInv, WorkerInv, Current, Later, AtSale, Sales, Referrals!Sales
    <2> QED
      BY <2>1, <2>2, <2>3
  <1> QED
    BY <1>2, <1>4, <1>5, <1>6 DEF ReferralsInv

\* The worker begins with a sale, reads what Stripe has of it, or stops.
LEMMA WorkerMoves ==
    ASSUME ReferralsInv,
           \/ Referrals!ReadsCharge \/ Referrals!ReadsDisputes \/ Referrals!Fails
           \/ \E s \in Sales : Referrals!Reconciles(s)
    PROVE  ReferralsInv'
  <1>1. UNCHANGED <<v1, v2, v3, v4, v5, v6, v7, v8, v9>>
    BY DEF Referrals!ReadsCharge, Referrals!ReadsDisputes, Referrals!Fails, Referrals!Reconciles, Referrals!Stripe,
       Referrals!Profile, Referrals!Book
  <1>2. EventsInv' /\ ReferralTypes' /\ \A t : Unseen(t)' = Unseen(t)
    BY <1>1 DEF ReferralsInv, EventsInv, ReferralTypes, Unseen, OfSale
  <1>3. SalesInv'
    <2>1. ASSUME NEW t \in Sales PROVE SaleOK(t)'
      BY <1>1, <1>2, SaleStays DEF ReferralsInv, SalesInv
    <2> QED
      BY <2>1 DEF SalesInv, Sales, Referrals!Sales
  <1>4. v1 \in [Sales -> Sale] /\ v7 \in [Sales -> Row] /\ v6 \in Nat
    BY DEF ReferralsInv, ReferralTypes
  <1>5. WorkerInv'
    <2>1. CASE Referrals!ReadsCharge
      <3> DEFINE c == v1[v10.sale]
      <3>1. v10.pc = "read" /\ v10.sale \in Sales
        BY <2>1 DEF Referrals!ReadsCharge, ReferralsInv, WorkerInv, AtSale
      <3>2. v10' = [[[v10 EXCEPT !.pc = IF c.dispute = "none" THEN "adjust" ELSE "disputes"]
                          EXCEPT !.refunded = c.refunded] EXCEPT !.disputed = FALSE]
        BY <2>1 DEF Referrals!ReadsCharge
      <3>3. /\ v10'.pc = (IF c.dispute = "none" THEN "adjust" ELSE "disputes") /\ v10'.refunded = c.refunded
            /\ v10'.disputed = FALSE /\ v10'.event = v10.event /\ v10'.sale = v10.sale /\ v10'.rate = v10.rate
            /\ v10' = [pc |-> v10'.pc, event |-> v10'.event, sale |-> v10'.sale,
                       refunded |-> v10'.refunded, disputed |-> v10'.disputed, rate |-> v10'.rate]
        BY <3>2 DEF ReferralsInv, WorkerInv
      <3>4. c.refunded \in Nat
        BY <1>4, <3>1 DEF Sale
      <3> QED
        BY <1>1, <1>2, <3>1, <3>3, <3>4 DEF ReferralsInv, WorkerInv, Current, Later, AtSale, Sales, Referrals!Sales
    <2>2. CASE Referrals!ReadsDisputes
      <3> DEFINE c == v1[v10.sale]
      <3>1. v10.pc = "disputes" /\ v10.sale \in Sales
        BY <2>2 DEF Referrals!ReadsDisputes, ReferralsInv, WorkerInv, AtSale
      <3>2. v10' = [[v10 EXCEPT !.pc = "adjust"] EXCEPT !.disputed = (c.dispute # "won")]
        BY <2>2 DEF Referrals!ReadsDisputes
      <3>3. /\ v10'.pc = "adjust" /\ v10'.refunded = v10.refunded
            /\ v10'.disputed = (c.dispute # "won") /\ v10'.event = v10.event /\ v10'.sale = v10.sale
            /\ v10'.rate = v10.rate
            /\ v10' = [pc |-> v10'.pc, event |-> v10'.event, sale |-> v10'.sale,
                       refunded |-> v10'.refunded, disputed |-> v10'.disputed, rate |-> v10'.rate]
        BY <3>2 DEF ReferralsInv, WorkerInv
      <3>4. c.dispute \in {"none", "open", "won", "lost"}
        BY <1>4, <3>1 DEF Sale
      <3>5. v10'.disputed = TRUE <=> c.dispute # "won"
        BY <3>3
      <3>6. Current(v10, v10.sale)' \/ Later(v10.sale)' # {}
        BY <1>1, <1>2, <3>1, <3>3, <3>4, <3>5 DEF ReferralsInv, WorkerInv, Current, Later
      <3> QED
        BY <1>1, <3>1, <3>3, <3>6 DEF ReferralsInv, WorkerInv, AtSale, Sales, Referrals!Sales
    <2>3. CASE Referrals!Fails
      BY <2>3, IdleIs DEF Referrals!Fails
    <2>4. ASSUME NEW s \in Sales, Referrals!Reconciles(s)
          PROVE  WorkerInv'
      <3>1. /\ v10' = [[[Referrals!Idle EXCEPT !.pc = IF v7[s].made THEN "read" ELSE "prove"]
                         EXCEPT !.sale = s] EXCEPT !.rate = v6]
            /\ v1[s].promo # 0
        BY <2>4 DEF Referrals!Reconciles, Referrals!Recorded
      <3>2. v7[s].made \in BOOLEAN
        BY <1>4 DEF Row
      <3>3. v10' = [pc |-> IF v7[s].made THEN "read" ELSE "prove", event |-> Referrals!NoEvent, sale |-> s,
                    refunded |-> 0, disputed |-> FALSE, rate |-> v6]
        BY <3>1 DEF Referrals!Idle
      <3>4. /\ v10'.pc = (IF v7[s].made THEN "read" ELSE "prove") /\ v10'.event = Referrals!NoEvent
            /\ v10'.sale = s /\ v10'.refunded = 0 /\ v10'.disputed = FALSE /\ v10'.rate = v6
            /\ v10' = [pc |-> v10'.pc, event |-> v10'.event, sale |-> v10'.sale,
                       refunded |-> v10'.refunded, disputed |-> v10'.disputed, rate |-> v10'.rate]
        BY <3>3
      <3>5. v1'[v10'.sale].promo # 0
        BY <1>1, <3>1, <3>4
      <3>6. v7'[v10'.sale].made = (v10'.pc # "prove")
        BY <1>1, <3>2, <3>4
      <3>7. v10'.pc \in {"prove", "read"} /\ v10'.sale \in Sales
        BY <3>4
      <3>8. v10'.pc \in AtSale \cup {"idle", "activate"} /\ v10'.pc \notin {"disputes", "adjust", "done"}
        BY <3>7 DEF AtSale
      <3>9. v10'.refunded \in Nat /\ v10'.disputed \in BOOLEAN /\ v10'.rate \in Nat
        <4>1. v6 \in Nat /\ 0 \in Nat
          BY <1>4
        <4> QED
          BY <3>4, <4>1, Zenon
      <3> QED
        BY <3>4, <3>5, <3>6, <3>7, <3>8, <3>9, Zenon DEF WorkerInv, Sales, Referrals!Sales
    <2> QED
      BY <2>1, <2>2, <2>3, <2>4
  <1> QED
    BY <1>2, <1>3, <1>5 DEF ReferralsInv

LEMMA EntryMoves ==
    ASSUME NEW x \in [cents : Int, earnings : Nat], NEW c \in Int, NEW n \in Nat
    PROVE  LET e == [[x EXCEPT !.cents = @ + c] EXCEPT !.earnings = @ + n] IN
           e.cents = x.cents + c /\ e.earnings = x.earnings + n /\ e \in [cents : Int, earnings : Nat]
  <1> DEFINE d == [x EXCEPT !.cents = @ + c]
             e == [d EXCEPT !.earnings = @ + n]
  <1>1. d \in [cents : Int, earnings : Nat] /\ d.cents = x.cents + c /\ d.earnings = x.earnings
    OBVIOUS
  <1> HIDE DEF d
  <1>2. e \in [cents : Int, earnings : Nat] /\ e.cents = d.cents /\ e.earnings = d.earnings + n
    BY <1>1
  <1> QED
    BY <1>1, <1>2 DEF d

\* A row is written, and its entries move by what it earns now.
LEMMA RowWritten ==
    ASSUME ReferralsInv, NEW s \in Sales, NEW r \in Row, NEW kind \in {"earning", "adjustment"},
           v7' = [v7 EXCEPT ![s] = r],
           v8' = Referrals!Change(s, kind, Referrals!Net(r) - Referrals!Net(v7[s])),
           r.made = TRUE, Earned(s), Owed(s) => Current(r, s) \/ Unseen(s) # {},
           kind = "earning" => v8[s].earnings = 0, UNCHANGED <<v1, v2, v3, v4, v5, v6, v9>>
    PROVE  /\ ReferralTypes' /\ EventsInv' /\ SalesInv' /\ v7'[s] = r /\ \A t : Unseen(t)' = Unseen(t)
           /\ \A t \in Sales \ {s} : v7'[t] = v7[t]
  <1> DEFINE c == Referrals!Net(r) - Referrals!Net(v7[s])
             n == IF kind = "earning" /\ c # 0 THEN 1 ELSE 0
             e == [[v8[s] EXCEPT !.cents = @ + c] EXCEPT !.earnings = @ + n]
  <1>1. /\ v7 \in [Sales -> Row] /\ v8 \in [Sales -> [cents : Int, earnings : Nat]]
        /\ v7[s] \in Row /\ Referrals!Net(r) \in Int /\ Referrals!Net(v7[s]) \in Int
    BY NetIs DEF ReferralsInv, ReferralTypes
  <1>2. v8' = [v8 EXCEPT ![s] = e]
    <2>1. v8' = [[v8 EXCEPT ![s].cents = @ + c] EXCEPT ![s].earnings = @ + n]
      BY DEF Referrals!Change
    <2> QED
      BY <1>1, <2>1
  <1>3. v8[s].cents = Referrals!Net(v7[s]) /\ v8[s].earnings <= 1
    BY DEF ReferralsInv, SalesInv, SaleOK
  <1>4. c \in Int /\ n \in {0, 1} /\ (kind = "adjustment" => n = 0)
    BY <1>1
  <1> HIDE DEF n, c
  <1>5. e.cents = v8[s].cents + c /\ e.earnings = v8[s].earnings + n /\ e \in [cents : Int, earnings : Nat]
    <2>1. v8[s] \in [cents : Int, earnings : Nat] /\ n \in Nat
      BY <1>1, <1>4
    <2> QED
      BY <1>4, <2>1, EntryMoves
  <1> HIDE DEF e
  <1>6. e.cents = Referrals!Net(r) /\ e.earnings <= 1
    BY <1>1, <1>3, <1>4, <1>5 DEF c
  <1>7. /\ v7' \in [Sales -> Row] /\ v8' \in [Sales -> [cents : Int, earnings : Nat]]
        /\ v7'[s] = r /\ v8'[s] = e /\ \A t \in Sales \ {s} : v7'[t] = v7[t] /\ v8'[t] = v8[t]
    BY <1>1, <1>2, <1>5
  <1>8. EventsInv' /\ ReferralTypes' /\ \A t : Unseen(t)' = Unseen(t)
    BY <1>7 DEF ReferralsInv, EventsInv, ReferralTypes, Unseen, OfSale, Sales, Referrals!Sales
  <1>9. SaleOK(s)'
    <2>1. SaleOK(s)
      BY DEF ReferralsInv, SalesInv
    <2> QED
      BY <1>6, <1>7, <1>8, <2>1 DEF SaleOK, Earned, Owed, Current
  <1>10. SalesInv'
    <2>1. ASSUME NEW t \in Sales \ {s} PROVE SaleOK(t)'
      BY <1>7, <1>8, <2>1, SaleStays DEF ReferralsInv, SalesInv
    <2> QED
      BY <1>9, <2>1 DEF SalesInv, Sales, Referrals!Sales
  <1> QED
    BY <1>7, <1>8, <1>10

\* adjustInvoice() writes what it read, the review its rate.
LEMMA RowMoves ==
    ASSUME ReferralsInv, Referrals!Adjusts \/ Referrals!Corrects
    PROVE  ReferralsInv'
  <1> DEFINE s == v10.sale
             r == [[v7[s] EXCEPT !.refunded = v10.refunded] EXCEPT !.disputed = v10.disputed]
             q == [v7[s] EXCEPT !.rate = v10.rate]
  <1>1. v10.pc \in {"adjust", "correct"} /\ s \in Sales /\ UNCHANGED <<v1, v2, v3, v4, v5, v6, v9>>
    BY DEF Referrals!Adjusts, Referrals!Corrects, ReferralsInv, WorkerInv, AtSale, Referrals!Stripe,
       Referrals!Profile
  <1>2. /\ v7[s] \in Row /\ v7[s].made = TRUE /\ Earned(s) /\ SaleOK(s)
        /\ v10.refunded \in Nat /\ v10.disputed \in BOOLEAN /\ v10.rate \in Nat
    BY <1>1 DEF ReferralsInv, ReferralTypes, WorkerInv, SalesInv, SaleOK, AtSale
  <1>3. CASE Referrals!Adjusts
    <2>1. v10.pc = "adjust" /\ v7' = [v7 EXCEPT ![s] = r]
      BY <1>3 DEF Referrals!Adjusts, Referrals!Adjusted
    <2>2. v8' = Referrals!Change(s, "adjustment", Referrals!Net(r) - Referrals!Net(v7[s]))
      BY <1>3 DEF Referrals!Adjusts, Referrals!Adjusted
    <2>3. r \in Row /\ r.made = TRUE /\ r.refunded = v10.refunded /\ r.disputed = v10.disputed
      BY <1>2 DEF Row
    <2>4. Current(r, s) \/ Later(s) # {}
      BY <2>1, <2>3 DEF ReferralsInv, WorkerInv, Current
    <2>5. Current(r, s) \/ Unseen(s) # {}
      BY <2>4 DEF Later
    <2>6. v10' = [v10 EXCEPT !.pc = IF v10.event = Referrals!NoEvent THEN "correct" ELSE "done"]
      BY <1>3 DEF Referrals!Adjusts
    <2> HIDE DEF s, r
    <2>7. /\ ReferralTypes' /\ EventsInv' /\ SalesInv' /\ v7'[s] = r /\ \A t : Unseen(t)' = Unseen(t)
          /\ \A t \in Sales \ {s} : v7'[t] = v7[t]
      BY <1>1, <1>2, <2>1, <2>2, <2>3, <2>5, RowWritten
    <2>8. /\ v10'.pc = (IF v10.event = Referrals!NoEvent THEN "correct" ELSE "done")
          /\ v10'.refunded = v10.refunded /\ v10'.disputed = v10.disputed /\ v10'.event = v10.event
          /\ v10'.sale = s /\ v10'.rate = v10.rate
          /\ v10' = [pc |-> v10'.pc, event |-> v10'.event, sale |-> v10'.sale,
                     refunded |-> v10'.refunded, disputed |-> v10'.disputed, rate |-> v10'.rate]
      BY <2>6 DEF ReferralsInv, WorkerInv, s
    <2>9. Current(v7[v10.sale], v10.sale)' \/ Later(v10.sale)' # {}
      BY <1>1, <2>4, <2>7, <2>8 DEF Current, Later
    <2>10. v10.event = Referrals!NoEvent \/ (v10.event \in v2 /\ v10.event[2] = s)
      BY <1>1, <2>1 DEF ReferralsInv, WorkerInv, AtSale, s
    <2>11. WorkerInv'
      BY <1>1, <1>2, <2>3, <2>7, <2>8, <2>9, <2>10 DEF WorkerInv, AtSale, Earned, Sales, Referrals!Sales
    <2> QED
      BY <2>7, <2>11 DEF ReferralsInv
  <1>4. CASE Referrals!Corrects /\ v6 = v10.rate
    <2>1. v7' = [v7 EXCEPT ![s] = q] /\ v10' = Referrals!Idle
      BY <1>4 DEF Referrals!Corrects
    <2>2. v8' = Referrals!Change(s, "adjustment", Referrals!Net(q) - Referrals!Net(v7[s]))
      BY <1>4 DEF Referrals!Corrects
    <2>3. q \in Row /\ q.made = TRUE /\ q.refunded = v7[s].refunded /\ q.disputed = v7[s].disputed
      BY <1>2 DEF Row
    <2>4. Owed(s) => Current(q, s) \/ Unseen(s) # {}
      BY <1>2, <2>3 DEF SaleOK, Current
    <2> HIDE DEF s, q
    <2>5. ReferralTypes' /\ EventsInv' /\ SalesInv'
      BY <1>1, <1>2, <2>1, <2>2, <2>3, <2>4, RowWritten
    <2> QED
      BY <2>1, <2>5, IdleIs DEF ReferralsInv
  <1>5. CASE Referrals!Corrects /\ v6 # v10.rate
    <2>1. UNCHANGED <<v7, v8>> /\ v10' = Referrals!Idle
      BY <1>5 DEF Referrals!Corrects
    <2>2. EventsInv' /\ ReferralTypes' /\ \A t : Unseen(t)' = Unseen(t)
      BY <1>1, <2>1 DEF ReferralsInv, EventsInv, ReferralTypes, Unseen, OfSale
    <2>3. ASSUME NEW t \in Sales PROVE SaleOK(t)'
      BY <1>1, <2>1, <2>2, <2>3, SaleStays DEF ReferralsInv, SalesInv
    <2> QED
      BY <2>1, <2>2, <2>3, IdleIs DEF ReferralsInv, SalesInv, Sales, Referrals!Sales
  <1> QED
    BY <1>3, <1>4, <1>5

\* An event is remembered when nothing depends on it any more.
LEMMA Handled ==
    ASSUME ReferralsInv, NEW ev \in v2, v9' = v9 \cup {ev}, v10' = Referrals!Idle,
           UNCHANGED <<v1, v2, v3, v4, v5, v6, v7, v8>>,
           v7[ev[2]].made = FALSE /\ Owed(ev[2]) => ev[1] # "paid",
           v7[ev[2]].made = TRUE => Current(v7[ev[2]], ev[2]) \/ Unseen(ev[2]) \ {ev} # {}
    PROVE  ReferralsInv'
  <1> DEFINE s == ev[2]
  <1>1. s \in Sales
    BY DEF ReferralsInv, EventsInv
  <1>2. EventsInv' /\ ReferralTypes'
    BY DEF ReferralsInv, EventsInv, ReferralTypes, OfSale
  <1>3. \A t \in Sales : Unseen(t)' = Unseen(t) \ {ev}
    BY DEF Unseen, OfSale
  <1>4. \A t \in Sales \ {s} : Unseen(t)' = Unseen(t)
    BY DEF Unseen, OfSale
  <1> HIDE DEF s
  <1>5. SaleOK(s)'
    <2>1. SaleOK(s)
      BY <1>1 DEF ReferralsInv, SalesInv
    <2>2. v7[s].made = FALSE /\ Owed(s) => \E e \in Unseen(s)' : e[1] = "paid"
      <3> SUFFICES ASSUME v7[s].made = FALSE, Owed(s) PROVE \E e \in Unseen(s)' : e[1] = "paid"
        OBVIOUS
      <3>1. PICK e \in Unseen(s) : e[1] = "paid"
        BY <2>1 DEF SaleOK
      <3>2. e # ev
        BY <3>1 DEF s
      <3> QED
        BY <1>1, <1>3, <3>1, <3>2
    <2>3. v7[s].made = TRUE => Current(v7[s], s) \/ Unseen(s)' # {}
      BY <1>1, <1>3 DEF s
    <2> QED
      BY <2>1, <2>2, <2>3 DEF SaleOK, Earned, Owed, Current
  <1>6. SalesInv'
    <2>1. ASSUME NEW t \in Sales \ {s} PROVE SaleOK(t)'
      BY <1>4, <2>1, SaleStays DEF ReferralsInv, SalesInv
    <2> QED
      BY <1>5, <2>1 DEF SalesInv, Sales, Referrals!Sales
  <1> QED
    BY <1>2, <1>6, IdleIs DEF ReferralsInv

LEMMA NothingWritten ==
    ASSUME ReferralsInv, WorkerInv', UNCHANGED <<v1, v2, v3, v4, v5, v6, v7, v8, v9>>
    PROVE  ReferralsInv'
  <1>1. EventsInv' /\ ReferralTypes' /\ \A t : Unseen(t)' = Unseen(t)
    BY DEF ReferralsInv, EventsInv, ReferralTypes, Unseen, OfSale
  <1>2. ASSUME NEW t \in Sales PROVE SaleOK(t)'
    BY <1>1, <1>2, SaleStays DEF ReferralsInv, SalesInv
  <1> QED
    BY <1>1, <1>2 DEF ReferralsInv, SalesInv, Sales, Referrals!Sales

\* handleEvent() takes an event, and remembers it when it has done what it asks for.
LEMMA EventMoves ==
    ASSUME ReferralsInv, (\E ev \in v2 : Referrals!Takes(ev)) \/ Referrals!Done
    PROVE  ReferralsInv'
  <1>1. ASSUME NEW ev \in v2, Referrals!Takes(ev) PROVE ReferralsInv'
    <2> DEFINE s == ev[2]
    <2>1. /\ v10 = Referrals!Idle /\ UNCHANGED <<v1, v2, v3, v4, v5, v6, v7, v8>>
      BY <1>1 DEF Referrals!Takes, Referrals!Stripe, Referrals!Profile
    <2>2. s \in Sales /\ v1[s].promo # 0 /\ v7[s].made \in BOOLEAN
      BY DEF ReferralsInv, EventsInv, ReferralTypes, Row
    <2>3. CASE ev[1] = "charge" /\ s \in Checkouts /\ ~v7[s].made
      <3>1. v9' = v9 \cup {ev} /\ v10' = Referrals!Idle
        BY <1>1, <2>1, <2>3 DEF Referrals!Takes, Referrals!Remember, Referrals!Recorded
      <3>2. v7[ev[2]].made = FALSE /\ Owed(ev[2]) => ev[1] # "paid"
        BY <2>3
      <3>3. v7[ev[2]].made = TRUE => Current(v7[ev[2]], ev[2]) \/ Unseen(ev[2]) \ {ev} # {}
        BY <2>3
      <3> QED
        BY <2>1, <3>1, <3>2, <3>3, Handled
    <2>4. CASE ~(ev[1] = "charge" /\ s \in Checkouts /\ ~v7[s].made)
      <3>1. /\ v10' = [[[Referrals!Idle EXCEPT !.pc = IF v7[s].made THEN "read" ELSE "prove"]
                            EXCEPT !.event = ev] EXCEPT !.sale = s]
            /\ v9' = v9
        BY <1>1, <2>4 DEF Referrals!Takes, Referrals!Recorded
      <3>2. v10' = [pc |-> IF v7[s].made THEN "read" ELSE "prove", event |-> ev, sale |-> s,
                    refunded |-> 0, disputed |-> FALSE, rate |-> 0]
        BY <3>1 DEF Referrals!Idle
      <3>3. WorkerInv'
        BY <2>1, <2>2, <3>2 DEF WorkerInv, AtSale, Sales, Referrals!Sales
      <3> QED
        BY <2>1, <3>1, <3>3, NothingWritten
    <2> QED
      BY <2>3, <2>4
  <1>2. CASE Referrals!Done
    <2> DEFINE ev == v10.event
    <2>1. /\ v10.pc = "done" /\ v9' = v9 \cup {ev} /\ v10' = Referrals!Idle
          /\ UNCHANGED <<v1, v2, v3, v4, v5, v6, v7, v8>>
      BY <1>2 DEF Referrals!Done, Referrals!Remember, Referrals!Stripe, Referrals!Profile
    <2>2. /\ ev \in v2 /\ ev[2] = v10.sale /\ v7[ev[2]].made = TRUE
          /\ Current(v7[ev[2]], ev[2]) \/ Later(ev[2]) # {}
      BY <2>1 DEF ReferralsInv, WorkerInv, AtSale
    <2>3. Current(v7[ev[2]], ev[2]) \/ Unseen(ev[2]) \ {ev} # {}
      BY <2>2 DEF Later
    <2>4. v7[ev[2]].made = FALSE /\ Owed(ev[2]) => ev[1] # "paid"
      BY <2>2
    <2>5. v7[ev[2]].made = TRUE => Current(v7[ev[2]], ev[2]) \/ Unseen(ev[2]) \ {ev} # {}
      BY <2>3
    <2> HIDE DEF ev
    <2> QED
      BY <2>1, <2>2, <2>4, <2>5, Handled
  <1> QED
    BY <1>1, <1>2

\* invoice() and checkoutPurchase() record a sale of the member's, and no other.
LEMMA RecordMoves ==
    ASSUME ReferralsInv, Referrals!Records
    PROVE  ReferralsInv'
  <1> DEFINE s == v10.sale
             ev == v10.event
             r == [[Referrals!NoRow EXCEPT !.made = TRUE] EXCEPT !.rate = v6]
  <1>1. /\ v10.pc = "prove" /\ s \in Sales /\ (ev = Referrals!NoEvent \/ (ev \in v2 /\ ev[2] = s))
        /\ v7[s].made = FALSE /\ v1[s].promo # 0 /\ UNCHANGED <<v1, v2, v3, v4, v5, v6>>
    BY DEF Referrals!Records, ReferralsInv, WorkerInv, AtSale, Referrals!Stripe, Referrals!Profile
  <1>2. /\ v1[s] \in Sale /\ v6 \in Nat /\ SaleOK(s) /\ v7 \in [Sales -> Row]
        /\ v10.refunded \in Nat /\ v10.disputed \in BOOLEAN /\ v10.rate \in Nat
    BY <1>1 DEF ReferralsInv, ReferralTypes, SalesInv, WorkerInv
  <1>3. CASE Referrals!Attributed(s)
    <2>1. v7' = [v7 EXCEPT ![s] = r] /\ v10' = [v10 EXCEPT !.pc = "read"] /\ v9' = v9
      BY <1>3 DEF Referrals!Records
    <2>2. v7'[s] = r
      BY <1>1, <1>2, <2>1
    <2>3. v8' = Referrals!Change(s, "earning", Referrals!Commission(v7'[s]))
      BY <1>3 DEF Referrals!Records
    <2>4. r \in Row /\ r.made = TRUE /\ r.refunded = 0 /\ r.disputed = FALSE
      BY <1>2, NoRowIs DEF Row, Referrals!NoRow
    <2>5. Referrals!Net(r) = Referrals!Commission(r) /\ Referrals!Commission(r) \in Nat
      BY <2>4, NetIs
    <2>6. v7[s] = Referrals!NoRow /\ v8[s].earnings = 0 /\ Referrals!Net(v7[s]) = 0
      BY <1>1, <1>2, NoRowIs DEF SaleOK
    <2>7. Earned(s)
      BY <1>1, <1>2, <1>3 DEF Referrals!Attributed, Earned, Sale
    <2>8. Owed(s) => Unseen(s) # {}
      BY <1>1, <1>2 DEF SaleOK
    <2> HIDE DEF s, r
    <2>9. Referrals!Commission(v7'[s]) = Referrals!Net(r) - Referrals!Net(v7[s])
      BY <2>2, <2>5, <2>6
    <2>10. v8' = Referrals!Change(s, "earning", Referrals!Net(r) - Referrals!Net(v7[s]))
      BY <2>3, <2>9
    <2>11. ReferralTypes' /\ EventsInv' /\ SalesInv'
      BY <1>1, <2>1, <2>4, <2>6, <2>7, <2>8, <2>10, RowWritten
    <2>12. /\ v10'.pc = "read" /\ v10'.refunded = v10.refunded /\ v10'.disputed = v10.disputed
           /\ v10'.event = ev /\ v10'.sale = s /\ v10'.rate = v10.rate
           /\ v10' = [pc |-> v10'.pc, event |-> v10'.event, sale |-> v10'.sale,
                      refunded |-> v10'.refunded, disputed |-> v10'.disputed, rate |-> v10'.rate]
      BY <2>1 DEF ReferralsInv, WorkerInv, s
    <2>13. WorkerInv'
      BY <1>1, <1>2, <2>2, <2>4, <2>12 DEF WorkerInv, AtSale, Sales, Referrals!Sales
    <2> QED
      BY <2>11, <2>13 DEF ReferralsInv
  <1>4. CASE ~Referrals!Attributed(s) /\ ev = Referrals!NoEvent
    <2>1. UNCHANGED <<v7, v8, v9>> /\ v10' = Referrals!Idle
      BY <1>4 DEF Referrals!Records
    <2> QED
      BY <1>1, <2>1, IdleIs, NothingWritten
  <1>5. CASE ~Referrals!Attributed(s) /\ ev # Referrals!NoEvent
    <2>1. UNCHANGED <<v7, v8>> /\ v9' = v9 \cup {ev} /\ v10' = Referrals!Idle
      BY <1>5 DEF Referrals!Records, Referrals!Remember
    <2>2. ev \in v2 /\ ev[2] = s
      BY <1>1, <1>5
    <2>3. ~Owed(s)
      BY <1>2, <1>5 DEF Referrals!Attributed, Referrals!Published, Earned, Owed, SaleOK
    <2> HIDE DEF s, ev
    <2> QED
      BY <1>1, <2>1, <2>2, <2>3, Handled
  <1> QED
    BY <1>3, <1>4, <1>5

LEMMA ReferralsKept ==
    ASSUME ReferralsInv, Referrals!Next \/ UNCHANGED <<v1, v2, v3, v4, v5, v6, v7, v8, v9, v10>>
    PROVE  ReferralsInv'
  <1>1. CASE UNCHANGED <<v1, v2, v3, v4, v5, v6, v7, v8, v9, v10>>
    <2>1. WorkerInv'
      BY <1>1 DEF ReferralsInv, WorkerInv, Current, Later, Unseen, OfSale, Sales, Referrals!Sales
    <2> QED
      BY <1>1, <2>1, NothingWritten
  <1>2. CASE Referrals!Next
    BY <1>2, StripeMovesOn, SaleMade, ProfileMoves, WorkerMoves, RowMoves, EventMoves, RecordMoves
    DEF Referrals!Next, Sales
  <1> QED
    BY <1>1, <1>2

\* One commission for each sale, and the one that refunds and disputes leave.
LEMMA CommissionsMatch ==
    ASSUME ReferralsInv
    PROVE  Referrals!CommissionMatches
  <1>1. ASSUME NEW s \in Sales
        PROVE  /\ v8[s].cents = Referrals!Net(v7[s]) /\ v8[s].earnings <= 1
               /\ v1[s].self => ~Referrals!Recorded(s)
               /\ v1[s].promo # 0 /\ ~v1[s].early => v1[s].promo \in Referrals!Published
    BY DEF ReferralsInv, ReferralTypes, Sale, Row, SalesInv, SaleOK, Earned, Referrals!Recorded,
       Referrals!Published
  <1>2. ASSUME NEW s \in Sales, Referrals!Owed(s), \A ev \in v2 \ v9 : ev[2] # s
        PROVE  /\ Referrals!Recorded(s) /\ v7[s].refunded = v1[s].refunded
               /\ v8[s].cents = IF v1[s].dispute \in {"open", "lost"} THEN 0
                     ELSE Referrals!Commission(v7[s]) - (Referrals!Commission(v7[s]) * v1[s].refunded) \div Referrals!Price
    <2>1. SaleOK(s) /\ v1[s] \in Sale /\ v7[s] \in Row
      BY DEF ReferralsInv, ReferralTypes, SalesInv
    <2>2. Unseen(s) = {}
      BY <1>2 DEF Unseen, OfSale
    <2>3. Owed(s) /\ v7[s].made = TRUE
      BY <1>2, <2>1, <2>2 DEF SaleOK, Earned, Owed, Sale, Row, Referrals!Owed
    <2>4. /\ v7[s].refunded = v1[s].refunded
          /\ (v7[s].disputed = TRUE <=> v1[s].dispute \in {"open", "lost"})
      BY <2>1, <2>2, <2>3 DEF SaleOK, Current
    <2>5. v7[s].disputed \in BOOLEAN /\ v8[s].cents = Referrals!Net(v7[s])
      BY <2>1 DEF Row, SaleOK
    <2>6. CASE v7[s].disputed = TRUE
      BY <2>1, <2>3, <2>4, <2>5, <2>6, NetIs DEF Referrals!Recorded
    <2>7. CASE v7[s].disputed = FALSE
      <3>1. v8[s].cents = Referrals!Commission(v7[s]) - (Referrals!Commission(v7[s]) * v7[s].refunded) \div 2
        BY <2>1, <2>5, <2>7, NetIs
      <3> QED
        BY <2>3, <2>4, <2>7, <3>1, Zenon DEF Referrals!Recorded, Referrals!Price
    <2> QED
      BY <2>5, <2>6, <2>7
  <1> QED
    BY <1>1, <1>2 DEF Referrals!CommissionMatches, Sales
-----------------------------------------------------------------------------
(* Releases: v2 control, v3 latest, v4 shelf, v5 marker, v6 lock, v7 run,    *)
(* v10 evidence, v13 stood.                                                  *)

NoBuild == Publishing!None
Channels == Publishing!Channels
IsControl(r) ==
    r = [beta |-> r.beta, betaAt |-> r.betaAt, production |-> r.production, hold |-> r.hold]
Agree(ctl, ptr) == ctl.beta = ptr["beta"] /\ ctl.production = ptr["production"]

\* What a pointer of a channel may lead to.
Fit(c, b) == b # NoBuild => b \in v4[c] /\ (c = "production" => b \in v13 \cap v10)

\* A pending publication: the control file is the one before it or the one it
\* writes, the pointer the old or the new one, and either pair agrees.
Pending(m) ==
    /\ m.channel \in Channels
    /\ IsControl(m.before) /\ IsControl(m.next)
    /\ Agree(m.before, [v3 EXCEPT ![m.channel] = m.prior])
    /\ Agree(m.next, [v3 EXCEPT ![m.channel] = m.target])
    /\ v2 \in {m.before, m.next} /\ v3[m.channel] \in {m.prior, m.target}
    /\ Fit(m.channel, m.prior) /\ Fit(m.channel, m.target)

\* The Beta there is once the pending publication is rolled back was finished.
LastBeta == IF v5 # Publishing!NoMarker /\ v5.channel = "beta" THEN v5.prior ELSE v3["beta"]

FilesInv ==
    /\ IsControl(v2)
    /\ v3 = [c \in Channels |-> v3[c]] /\ v4 = [c \in Channels |-> v4[c]]
    /\ \A c \in Channels : Fit(c, v3[c])
    /\ IF v5 = Publishing!NoMarker THEN Agree(v2, v3) ELSE Pending(v5)
    /\ LastBeta # NoBuild => LastBeta \in v13

\* The publisher: from the marker on it works with the pending publication.
Busy == {"control", "pointer", "verify", "remove",
         "undoPointer", "undoControl", "undoControlKeep", "unmark"}
Works(r) ==
    /\ v5 # Publishing!NoMarker /\ v5 = r.undo /\ v5.channel = r.channel /\ v5.target = r.build
    /\ r.pc \in {"control", "unmark"} => v2 = v5.before
    /\ r.pc \in {"pointer", "verify", "remove"} => v2 = v5.next
    /\ r.pc \in {"control", "pointer", "undoControl", "unmark"} => v3[r.channel] = v5.prior
    /\ r.pc \in {"verify", "remove"} => v3[r.channel] = v5.target
RunInv ==
    v7 # Publishing!NoRun =>
      /\ v7.pc \in Busy \cup {"recover", "check", "end"}
      /\ {"pc", "channel", "build"} \subseteq DOMAIN v7 /\ v7.channel \in Channels
      /\ v7.pc = "check" => v5 = Publishing!NoMarker
      /\ v7.pc \in Busy => "undo" \in DOMAIN v7 /\ Works(v7)

PublicationInv == FilesInv /\ RunInv

LEMMA PublicationStarts == Publishing!Init => PublicationInv
  <1> SUFFICES ASSUME Publishing!Init PROVE PublicationInv
    OBVIOUS
  <1>1. IsControl(v2)
    BY DEF Publishing!Init, IsControl
  <1>2. FilesInv
    BY <1>1 DEF Publishing!Init, FilesInv, Fit, Agree, LastBeta, NoBuild, Channels, Publishing!Channels
  <1>3. RunInv
    BY DEF Publishing!Init, RunInv
  <1> QED
    BY <1>2, <1>3 DEF PublicationInv

LEMMA FilesStay ==
    ASSUME FilesInv, UNCHANGED <<v2, v3, v4, v5, v10>>, v13 \subseteq v13' PROVE FilesInv'
  <1>1. \A c, b : Fit(c, b) => Fit(c, b)'
    BY DEF Fit
  <1>2. Pending(v5) => Pending(v5)'
    BY <1>1 DEF Pending
  <1> QED
    BY <1>1, <1>2 DEF FilesInv, LastBeta

LEMMA WorksStays ==
    ASSUME NEW r, NEW s, Works(r), UNCHANGED <<v2, v3, v5>>,
           s.undo = r.undo, s.channel = r.channel, s.build = r.build, s.pc \in {r.pc, "undoPointer", "undoControlKeep"}
    PROVE  Works(s)'
  BY DEF Works

\* The publisher goes on without touching the files.
LEMMA RunGoes ==
    ASSUME RunInv, v7 # Publishing!NoRun, NEW pc, Publishing!Goes(pc), pc \in {"check", "end"},
           pc = "check" => v5' = Publishing!NoMarker
    PROVE  RunInv'
  <1>1. v7'.pc = pc /\ v7'.channel = v7.channel /\ DOMAIN v7' = DOMAIN v7
    BY DEF Publishing!Goes, RunInv
  <1> QED
    BY <1>1 DEF RunInv, Busy

LEMMA QuietSteps ==
    ASSUME PublicationInv,
           \/ Publishing!RemoveStaleLock \/ Publishing!Refused \/ Publishing!End \/ Publishing!Dies
           \/ Publishing!Tick
           \/ \E b \in Builds : Publishing!Bug(b) \/ \E c \in Channels : Publishing!Start(c, b)
           \/ \E c \in Channels : Publishing!Update(c)
    PROVE  PublicationInv'
  <1> USE DEF PublicationInv
  <1>1. UNCHANGED <<v2, v3, v4, v5, v10, v13>>
    BY DEF Publishing!RemoveStaleLock, Publishing!Refused, Publishing!End, Publishing!Dies, Publishing!Tick,
           Publishing!Bug, Publishing!Start, Publishing!Update, Publishing!Files, Publishing!World
  <1>2. FilesInv'
    BY <1>1, FilesStay
  <1>3. RunInv'
    <2>1. CASE UNCHANGED v7
      <3>1. v7 # Publishing!NoRun /\ v7.pc \in Busy => Works(v7)'
        BY <1>1, <2>1 DEF RunInv, Works
      <3> QED
        BY <1>1, <2>1, <3>1 DEF RunInv
    <2>2. CASE Publishing!Refused
      BY <2>2, RunGoes DEF Publishing!Refused, Publishing!NoRun
    <2>3. CASE v7' = Publishing!NoRun
      BY <2>3 DEF RunInv
    <2>4. ASSUME NEW c \in Channels, NEW b \in Builds, Publishing!Start(c, b) PROVE RunInv'
      <3>1. v7' = [pc |-> "recover", channel |-> c, build |-> b]
        BY <2>4 DEF Publishing!Start
      <3> QED
        BY <3>1 DEF RunInv, Busy
    <2> QED
      BY <2>1, <2>2, <2>3, <2>4 DEF Publishing!RemoveStaleLock, Publishing!End, Publishing!Dies,
         Publishing!Tick, Publishing!Bug, Publishing!Update
  <1> QED
    BY <1>2, <1>3

\* What a pointer leads to stays fit for it.
LEMMA FitStays ==
    ASSUME FilesInv, UNCHANGED v10, v13 \subseteq v13', \A d \in Channels : v4[d] \subseteq v4'[d],
           NEW c \in Channels, NEW b, Fit(c, b)
    PROVE  Fit(c, b)'
  BY DEF Fit

LEMMA TwoChannels == Channels = {"beta", "production"} /\ Publishing!NoMarker.channel \notin Channels
  BY DEF Channels, Publishing!Channels, Publishing!NoMarker

\* The pointer of one channel is written.
LEMMA Pointed ==
    ASSUME FilesInv, NEW c \in Channels, NEW b, v3' = [v3 EXCEPT ![c] = b]
    PROVE  v3' = [d \in Channels |-> v3'[d]] /\ v3'[c] = b /\ \A d \in Channels \ {c} : v3'[d] = v3[d]
  BY DEF FilesInv

LEMMA SetHoldStep == ASSUME PublicationInv, Publishing!SetHold PROVE PublicationInv'
  <1> USE DEF PublicationInv
  <1>1. /\ v7 = Publishing!NoRun /\ v5 = Publishing!NoMarker
        /\ v2' = [v2 EXCEPT !.hold = ~@] /\ UNCHANGED <<v3, v4, v5, v7, v10, v13>>
    BY DEF Publishing!SetHold, Publishing!World
  <1>2. IsControl(v2') /\ v2'.beta = v2.beta /\ v2'.production = v2.production
    <2>1. v2' = [beta |-> v2.beta, betaAt |-> v2.betaAt, production |-> v2.production, hold |-> ~v2.hold]
      <3>1. v2 = [beta |-> v2.beta, betaAt |-> v2.betaAt, production |-> v2.production, hold |-> v2.hold]
        BY DEF FilesInv, IsControl
      <3> QED
        BY <1>1, <3>1, Zenon
    <2> QED
      BY <2>1 DEF IsControl
  <1>3. \A c \in Channels : Fit(c, v3[c])'
    BY <1>1 DEF FilesInv, Fit
  <1>4. FilesInv'
    BY <1>1, <1>2, <1>3 DEF FilesInv, Agree, LastBeta
  <1> QED
    BY <1>1, <1>4 DEF RunInv

\* recoverPendingReleasePublication(): whichever way, both files agree again.
LEMMA RecoverStep == ASSUME PublicationInv, Publishing!Recover PROVE PublicationInv'
  <1> USE DEF PublicationInv
  <1>1. v7.pc = "recover" /\ UNCHANGED <<v3, v4, v10>> /\ v7 # Publishing!NoRun
    BY DEF Publishing!Recover, Publishing!World, Publishing!NoRun
  <1>2. CASE v5 = Publishing!NoMarker /\ Publishing!Goes("check") /\ UNCHANGED <<v2, v5, v13>>
    BY <1>1, <1>2, FilesStay, RunGoes
  <1>3. ASSUME v5 # Publishing!NoMarker, v5' = Publishing!NoMarker, Publishing!Goes("check"),
               v13 \subseteq v13', IsControl(v2'), Agree(v2', v3),
               v3["beta"] # NoBuild => v3["beta"] \in v13'
        PROVE  PublicationInv'
    <2>1. \A c \in Channels : Fit(c, v3[c])'
      BY <1>1, <1>3 DEF Fit, FilesInv
    <2>2. FilesInv'
      BY <1>1, <1>3, <2>1 DEF FilesInv, LastBeta, Agree
    <2> QED
      BY <1>1, <1>3, <2>2, RunGoes
  <1>4. ASSUME v5 # Publishing!NoMarker, v5.channel = v7.channel
        PROVE  /\ Pending(v5) /\ v7.channel = v5.channel
               /\ \A b : v3[v5.channel] = b => [v3 EXCEPT ![v5.channel] = b] = v3
    BY <1>4 DEF FilesInv
  <1>5. ASSUME v5 # Publishing!NoMarker, v5.channel = v7.channel, v3[v7.channel] = v5.target, v2 = v5.next,
               v5' = Publishing!NoMarker, Publishing!Goes("check"),
               Publishing!Finished(v7.channel, v3[v7.channel]), UNCHANGED v2
        PROVE  PublicationInv'
    <2>1. Agree(v2', v3) /\ IsControl(v2')
      BY <1>4, <1>5 DEF Pending
    <2>2. v13 \subseteq v13' /\ (v3["beta"] # NoBuild => v3["beta"] \in v13')
      BY <1>4, <1>5, TwoChannels DEF Publishing!Finished, FilesInv, LastBeta, Pending
    <2> QED
      BY <1>3, <1>5, <2>1, <2>2
  <1>6. ASSUME v5 # Publishing!NoMarker, v5.channel = v7.channel, v3[v7.channel] = v5.prior,
               v2' = v5.before, v5' = Publishing!NoMarker, Publishing!Goes("check"), UNCHANGED v13
        PROVE  PublicationInv'
    <2>1. Agree(v2', v3) /\ IsControl(v2')
      BY <1>4, <1>6 DEF Pending
    <2>2. v3["beta"] # NoBuild => v3["beta"] \in v13'
      BY <1>4, <1>6 DEF FilesInv, LastBeta
    <2> QED
      BY <1>3, <1>6, <2>1, <2>2
  <1> QED
    BY <1>2, <1>5, <1>6 DEF Publishing!Recover

\* recordBetaPublication() and its like for Production change their own head.
LEMMA HeadsAre ==
    ASSUME IsControl(v2), NEW c \in Channels, NEW b
    PROVE  /\ IsControl(Publishing!Heads(c, b))
           /\ Publishing!Heads(c, b).beta = IF c = "beta" THEN b ELSE v2.beta
           /\ Publishing!Heads(c, b).production = IF c = "beta" THEN v2.production ELSE b
  BY TwoChannels DEF IsControl, Publishing!Heads

LEMMA PrepareStep == ASSUME PublicationInv, Publishing!Prepare PROVE PublicationInv'
  <1> USE DEF PublicationInv
  <1>1. /\ v7.pc = "check" /\ UNCHANGED <<v2, v3, v10, v13>> /\ v7 # Publishing!NoRun
        /\ v5 = Publishing!NoMarker /\ v7.channel \in Channels
    BY DEF Publishing!Prepare, Publishing!World, Publishing!NoRun, RunInv
  <1>2. CASE Publishing!Goes("end") /\ UNCHANGED <<v4, v5>>
    BY <1>1, <1>2, FilesStay, RunGoes
  <1>3. ASSUME v7.channel = "production" => Publishing!Eligible(v7.build),
               v4' = [v4 EXCEPT ![v7.channel] = @ \cup {v7.build}],
               v5' = [channel |-> v7.channel, prior |-> v3[v7.channel], before |-> v2,
                      target |-> v7.build, next |-> Publishing!Heads(v7.channel, v7.build)],
               v7' = [pc |-> "control", channel |-> v7.channel, build |-> v7.build, undo |-> v5']
        PROVE  PublicationInv'
    <2>1. /\ v5'.channel = v7.channel /\ v5'.prior = v3[v7.channel] /\ v5'.before = v2 /\ v5'.target = v7.build
          /\ v5'.next = Publishing!Heads(v7.channel, v7.build) /\ v5' # Publishing!NoMarker
      BY <1>1, <1>3, TwoChannels DEF Publishing!NoMarker
    <2>2. v4' = [c \in Channels |-> v4'[c]] /\ \A c \in Channels : v4[c] \subseteq v4'[c]
      BY <1>3 DEF FilesInv
    <2>3. \A c \in Channels : Fit(c, v3[c])'
      BY <1>1, <2>2 DEF Fit, FilesInv
    <2>4. Fit(v5.channel, v5.target)' /\ Fit(v5.channel, v5.prior)'
      <3>1. v7.build \in v4'[v7.channel]
        BY <1>1, <1>3 DEF FilesInv
      <3>2. v7.channel = "production" /\ v7.build # NoBuild => v7.build \in v13 \cap v10
        BY <1>1, <1>3 DEF Publishing!Eligible, FilesInv, LastBeta
      <3> QED
        BY <1>1, <2>1, <2>3, <3>1, <3>2 DEF Fit
    <2>5. Pending(v5)'
      <3>1. Agree(v2, [v3 EXCEPT ![v7.channel] = v3[v7.channel]])
        BY <1>1 DEF FilesInv, Agree
      <3>2. Agree(Publishing!Heads(v7.channel, v7.build), [v3 EXCEPT ![v7.channel] = v7.build])
        <4>1. Agree(v2, v3) /\ IsControl(v2)
          BY <1>1 DEF FilesInv
        <4>2. /\ [v3 EXCEPT ![v7.channel] = v7.build]["beta"] =
                   IF v7.channel = "beta" THEN v7.build ELSE v3["beta"]
              /\ [v3 EXCEPT ![v7.channel] = v7.build]["production"] =
                   IF v7.channel = "beta" THEN v3["production"] ELSE v7.build
          BY <1>1, TwoChannels DEF FilesInv
        <4> QED
          BY <1>1, <4>1, <4>2, HeadsAre DEF Agree
      <3>3. IsControl(v2) /\ IsControl(Publishing!Heads(v7.channel, v7.build))
        BY <1>1, HeadsAre DEF FilesInv
      <3> QED
        BY <1>1, <2>1, <2>4, <3>1, <3>2, <3>3 DEF Pending, Agree
    <2>6. FilesInv'
      BY <1>1, <2>1, <2>2, <2>3, <2>5 DEF FilesInv, LastBeta
    <2>7. RunInv'
      BY <1>1, <1>3, <2>1 DEF RunInv, Works, Busy
    <2> QED
      BY <2>6, <2>7
  <1> QED
    BY <1>2, <1>3 DEF Publishing!Prepare

\* The publisher goes on with the publication it works with.
LEMMA RunWorks ==
    ASSUME RunInv, v7.pc \in Busy, NEW pc \in Busy, Publishing!Goes(pc), UNCHANGED v5,
           pc \in {"control", "unmark"} => v2' = v5.before,
           pc \in {"pointer", "verify", "remove"} => v2' = v5.next,
           pc \in {"control", "pointer", "undoControl", "unmark"} => v3'[v7.channel] = v5.prior,
           pc \in {"verify", "remove"} => v3'[v7.channel] = v5.target
    PROVE  RunInv'
  <1>1. v7 # Publishing!NoRun
    BY DEF Busy, Publishing!NoRun
  <1>2. /\ v7'.pc = pc /\ v7'.channel = v7.channel /\ v7'.build = v7.build /\ v7'.undo = v7.undo
        /\ DOMAIN v7' = DOMAIN v7
    BY <1>1 DEF Publishing!Goes, RunInv
  <1>3. Works(v7)'
    BY <1>1, <1>2 DEF RunInv, Works
  <1> QED
    BY <1>1, <1>2, <1>3 DEF RunInv, Busy

LEMMA Working ==
    ASSUME PublicationInv, v7.pc \in Busy
    PROVE  /\ v7 # Publishing!NoRun /\ v5 # Publishing!NoMarker /\ Pending(v5) /\ Works(v7)
           /\ v7.channel \in Channels
  BY DEF PublicationInv, RunInv, FilesInv, Works, Busy, Publishing!NoRun

\* One file is written with what it held, or with what it is to hold.
LEMMA PutsStay ==
    ASSUME PublicationInv, v7.pc \in Busy, UNCHANGED v10, NEW ctl, NEW ptr, Publishing!Puts(ctl, ptr),
           ctl \in {v5.before, v5.next}, ptr \in {v5.prior, v5.target}
    PROVE  FilesInv' /\ UNCHANGED v5 /\ v2' = ctl /\ v3'[v7.channel] = ptr
  <1>1. /\ v5 # Publishing!NoMarker /\ Pending(v5) /\ v5.channel = v7.channel /\ v7.channel \in Channels
    BY Working DEF Works
  <1>2. /\ v2' = ctl /\ v3' = [v3 EXCEPT ![v5.channel] = ptr] /\ UNCHANGED <<v4, v5, v13>>
    BY <1>1 DEF Publishing!Puts
  <1>3. FilesInv
    BY DEF PublicationInv
  <1>4. /\ v3' = [d \in Channels |-> v3'[d]] /\ v3'[v5.channel] = ptr
        /\ \A d \in Channels \ {v5.channel} : v3'[d] = v3[d]
    BY <1>1, <1>2, <1>3, Pointed
  <1>5. \A c \in Channels : \A b : Fit(c, b) => Fit(c, b)'
    BY <1>2 DEF Fit
  <1>6. \A c \in Channels : Fit(c, v3[c])'
    <2>1. \A c \in Channels : Fit(c, v3'[c])
      BY <1>1, <1>3, <1>4 DEF Pending, FilesInv
    <2> QED
      BY <1>2, <2>1 DEF Fit
  <1>7. \A b : [v3' EXCEPT ![v5.channel] = b] = [v3 EXCEPT ![v5.channel] = b]
    BY <1>2
  <1>8. Pending(v5)'
    BY <1>1, <1>2, <1>4, <1>5, <1>7 DEF Pending
  <1>9. LastBeta' = LastBeta
    BY <1>1, <1>2, <1>4, TwoChannels DEF LastBeta
  <1>10. IsControl(v2')
    BY <1>1, <1>2 DEF Pending
  <1> QED
    BY <1>1, <1>2, <1>3, <1>4, <1>6, <1>8, <1>9, <1>10 DEF FilesInv

\* A write of the commit, or of its rollback.
LEMMA WriteStep ==
    ASSUME PublicationInv, v7.pc \in Busy, UNCHANGED v10, NEW ctl, NEW ptr, NEW ok \in Busy, NEW bad \in Busy \cup {"end"},
           Publishing!Step(Publishing!Puts(ctl, ptr), ok, bad),
           ctl \in {v5.before, v5.next}, ptr \in {v5.prior, v5.target},
           ok \in {"control", "unmark"} => ctl = v5.before,
           ok \in {"pointer", "verify", "remove"} => ctl = v5.next,
           ok \in {"control", "pointer", "undoControl", "unmark"} => ptr = v5.prior,
           ok \in {"verify", "remove"} => ptr = v5.target,
           bad \in {"undoPointer", "undoControlKeep", "end"}
    PROVE  PublicationInv'
  <1>1. v7 # Publishing!NoRun
    BY Working
  <1>2. ASSUME Publishing!Puts(ctl, ptr) PROVE FilesInv' /\ UNCHANGED v5 /\ v2' = ctl /\ v3'[v7.channel] = ptr
    BY <1>2, PutsStay
  <1>3. ASSUME Publishing!Puts(ctl, ptr), Publishing!Goes(ok) PROVE PublicationInv'
    BY <1>2, <1>3, RunWorks DEF PublicationInv
  <1>4. ASSUME FilesInv', UNCHANGED v5, Publishing!Goes(bad) PROVE PublicationInv'
    <2>1. CASE bad = "end"
      BY <1>1, <1>4, <2>1, RunGoes DEF PublicationInv
    <2>2. CASE bad # "end"
      BY <1>4, <2>2, RunWorks DEF PublicationInv
    <2> QED
      BY <2>1, <2>2
  <1>5. ASSUME UNCHANGED <<Publishing!Files, v13>> PROVE FilesInv' /\ UNCHANGED v5
    BY <1>5, FilesStay DEF PublicationInv, Publishing!Files
  <1> QED
    BY <1>2, <1>3, <1>4, <1>5 DEF Publishing!Step

LEMMA CommitSteps ==
    ASSUME PublicationInv,
           \/ Publishing!WriteControl \/ Publishing!ReplaceLatest
           \/ Publishing!RestorePointer \/ Publishing!RestoreControl \/ Publishing!RestoreAnyway
    PROVE  PublicationInv'
  <1>1. UNCHANGED v10
    BY DEF Publishing!WriteControl, Publishing!ReplaceLatest, Publishing!RestorePointer,
           Publishing!RestoreControl, Publishing!RestoreAnyway, Publishing!Still, Publishing!World
  <1>2. ASSUME v7.pc \in Busy
        PROVE  /\ v5 = v7.undo /\ v5.target = v7.build
               /\ v2 \in {v5.before, v5.next} /\ v3[v7.channel] \in {v5.prior, v5.target}
               /\ v7.pc = "control" => v3[v7.channel] = v5.prior
               /\ v7.pc = "pointer" => v2 = v5.next
               /\ v7.pc = "undoControl" => v3[v7.channel] = v5.prior
    BY <1>2, Working DEF Works, Pending
  <1>3. CASE Publishing!WriteControl
    <2>1. v7.pc = "control" /\ v7.pc \in Busy
      BY <1>3 DEF Publishing!WriteControl, Busy
    <2>2. Publishing!Step(Publishing!Puts(v5.next, v3[v7.channel]), "pointer", "undoPointer")
      BY <1>2, <1>3, <2>1 DEF Publishing!WriteControl
    <2> QED
      BY <1>1, <1>2, <2>1, <2>2, WriteStep DEF Busy
  <1>4. CASE Publishing!ReplaceLatest
    <2>1. v7.pc = "pointer" /\ v7.pc \in Busy
      BY <1>4 DEF Publishing!ReplaceLatest, Busy
    <2>2. Publishing!Step(Publishing!Puts(v2, v5.target), "verify", "undoPointer")
      BY <1>2, <1>4, <2>1 DEF Publishing!ReplaceLatest
    <2> QED
      BY <1>1, <1>2, <2>1, <2>2, WriteStep DEF Busy
  <1>5. CASE Publishing!RestorePointer
    <2>1. v7.pc = "undoPointer" /\ v7.pc \in Busy
      BY <1>5 DEF Publishing!RestorePointer, Busy
    <2>2. Publishing!Step(Publishing!Puts(v2, v5.prior), "undoControl", "undoControlKeep")
      BY <1>2, <1>5, <2>1 DEF Publishing!RestorePointer
    <2> QED
      BY <1>1, <1>2, <2>1, <2>2, WriteStep DEF Busy
  <1>6. CASE Publishing!RestoreControl
    <2>1. v7.pc = "undoControl" /\ v7.pc \in Busy
      BY <1>6 DEF Publishing!RestoreControl, Busy
    <2>2. Publishing!Step(Publishing!Puts(v5.before, v3[v7.channel]), "unmark", "end")
      BY <1>2, <1>6, <2>1 DEF Publishing!RestoreControl
    <2> QED
      BY <1>1, <1>2, <2>1, <2>2, WriteStep DEF Busy
  <1>7. CASE Publishing!RestoreAnyway
    <2>1. v7.pc = "undoControlKeep" /\ v7.pc \in Busy
      BY <1>7 DEF Publishing!RestoreAnyway, Busy
    <2>2. Publishing!Step(Publishing!Puts(v5.before, v3[v7.channel]), "end", "end")
      BY <1>2, <1>7, <2>1 DEF Publishing!RestoreAnyway
    <2>3. ASSUME FilesInv', UNCHANGED v5, Publishing!Goes("end") PROVE PublicationInv'
      BY <2>1, <2>3, Working, RunGoes DEF PublicationInv
    <2>4. ASSUME Publishing!Puts(v5.before, v3[v7.channel]) PROVE FilesInv' /\ UNCHANGED v5
      BY <1>1, <1>2, <2>1, <2>4, PutsStay
    <2>5. ASSUME UNCHANGED <<Publishing!Files, v13>> PROVE FilesInv' /\ UNCHANGED v5
      BY <1>1, <2>5, FilesStay DEF PublicationInv, Publishing!Files
    <2> QED
      BY <2>2, <2>3, <2>4, <2>5 DEF Publishing!Step
  <1> QED
    BY <1>3, <1>4, <1>5, <1>6, <1>7

LEMMA VerifyStep == ASSUME PublicationInv, Publishing!Verify PROVE PublicationInv'
  <1>1. v7.pc = "verify" /\ v7.pc \in Busy /\ UNCHANGED <<v2, v3, v4, v5, v10, v13>>
    BY DEF Publishing!Verify, Publishing!Step, Publishing!Files, Publishing!Still, Publishing!World, Busy
  <1>2. Publishing!Goes("remove") \/ Publishing!Goes("undoPointer")
    BY DEF Publishing!Verify, Publishing!Step
  <1>3. v2 = v5.next /\ v3[v7.channel] = v5.target
    BY <1>1, Working DEF Works
  <1>4. FilesInv'
    BY <1>1, FilesStay DEF PublicationInv
  <1>5. RunInv'
    BY <1>1, <1>2, <1>3, RunWorks DEF PublicationInv, Busy
  <1> QED
    BY <1>4, <1>5 DEF PublicationInv

LEMMA RemovalSteps ==
    ASSUME PublicationInv, Publishing!RemoveMarker \/ Publishing!Unmark PROVE PublicationInv'
  <1>1. v7.pc \in {"remove", "unmark"} /\ v7.pc \in Busy /\ UNCHANGED v10
    BY DEF Publishing!RemoveMarker, Publishing!Unmark, Publishing!Still, Publishing!World, Busy
  <1>2. /\ v7 # Publishing!NoRun /\ v5 # Publishing!NoMarker /\ Pending(v5) /\ Works(v7) /\ v7.channel \in Channels
        /\ v5.channel = v7.channel /\ v5.target = v7.build
    BY <1>1, Working DEF Works
  <1>3. CASE v5' = Publishing!NoMarker
    <2>1. /\ Publishing!Goes("end") /\ UNCHANGED <<v2, v3, v4>>
          /\ IF v7.pc = "remove" THEN Publishing!Finished(v7.channel, v7.build) ELSE UNCHANGED v13
      BY <1>2, <1>3 DEF Publishing!RemoveMarker, Publishing!Unmark, Publishing!Removes, Publishing!Files
    <2>2. \A b : v3[v5.channel] = b => [v3 EXCEPT ![v5.channel] = b] = v3
      BY <1>2 DEF PublicationInv, FilesInv
    <2>3. Agree(v2, v3) /\ IsControl(v2)
      <3>1. /\ Agree(v5.before, [v3 EXCEPT ![v5.channel] = v5.prior]) /\ IsControl(v5.before)
            /\ Agree(v5.next, [v3 EXCEPT ![v5.channel] = v5.target]) /\ IsControl(v5.next)
        BY <1>2 DEF Pending
      <3>2. CASE v7.pc = "unmark"
        <4>1. v2 = v5.before /\ v3[v5.channel] = v5.prior
          BY <1>2, <3>2 DEF Works
        <4> QED
          BY <2>2, <3>1, <4>1
      <3>3. CASE v7.pc = "remove"
        <4>1. v2 = v5.next /\ v3[v5.channel] = v5.target
          BY <1>2, <3>3 DEF Works
        <4> QED
          BY <2>2, <3>1, <4>1
      <3> QED
        BY <1>1, <3>2, <3>3
    <2>4. v13 \subseteq v13' /\ (v3["beta"] # NoBuild => v3["beta"] \in v13')
      <3>1. LastBeta # NoBuild => LastBeta \in v13
        BY DEF PublicationInv, FilesInv
      <3>2. v13 \subseteq v13'
        BY <2>1 DEF Publishing!Finished
      <3>3. CASE v5.channel # "beta"
        BY <3>1, <3>2, <3>3 DEF LastBeta
      <3>4. CASE v5.channel = "beta" /\ v7.pc = "unmark"
        <4>1. v3["beta"] = v5.prior
          BY <1>2, <3>4 DEF Works
        <4> QED
          BY <1>2, <3>1, <3>2, <3>4, <4>1 DEF LastBeta
      <3>5. CASE v5.channel = "beta" /\ v7.pc = "remove"
        <4>1. v3["beta"] = v7.build
          BY <1>2, <3>5 DEF Works
        <4> QED
          BY <1>2, <2>1, <3>2, <3>5, <4>1 DEF Publishing!Finished
      <3> QED
        BY <1>1, <3>2, <3>3, <3>4, <3>5
    <2>5. \A c \in Channels : Fit(c, v3[c])'
      BY <1>1, <2>1, <2>4 DEF Fit, PublicationInv, FilesInv
    <2>6. FilesInv'
      BY <1>3, <2>1, <2>3, <2>4, <2>5 DEF PublicationInv, FilesInv, LastBeta, Agree
    <2> QED
      BY <1>2, <1>3, <2>1, <2>6, RunGoes DEF PublicationInv
  <1>4. CASE v5' # Publishing!NoMarker
    <2>1. /\ Publishing!Goes("end") \/ Publishing!Goes("undoPointer")
          /\ UNCHANGED <<v2, v3, v4, v5, v13>>
      BY <1>4 DEF Publishing!RemoveMarker, Publishing!Unmark, Publishing!Removes, Publishing!Files
    <2>2. FilesInv'
      BY <1>1, <2>1, FilesStay DEF PublicationInv
    <2>3. CASE Publishing!Goes("end")
      BY <1>2, <2>2, <2>3, RunGoes DEF PublicationInv
    <2>4. CASE Publishing!Goes("undoPointer")
      BY <1>1, <2>1, <2>2, <2>4, RunWorks DEF PublicationInv, Busy
    <2> QED
      BY <2>1, <2>3, <2>4
  <1> QED
    BY <1>3, <1>4

LEMMA PublicationKept == PublicationInv /\ Publishing!Next => PublicationInv'
  <1> SUFFICES ASSUME PublicationInv, Publishing!Next PROVE PublicationInv'
    OBVIOUS
  <1>1. CASE \/ Publishing!RemoveStaleLock \/ Publishing!Refused \/ Publishing!End \/ Publishing!Dies
             \/ Publishing!Tick
             \/ \E b \in Builds : Publishing!Bug(b) \/ \E c \in Channels : Publishing!Start(c, b)
             \/ \E c \in Channels : Publishing!Update(c)
    BY <1>1, QuietSteps
  <1>2. CASE Publishing!SetHold
    BY <1>2, SetHoldStep
  <1>3. CASE Publishing!Recover
    BY <1>3, RecoverStep
  <1>4. CASE Publishing!Prepare
    BY <1>4, PrepareStep
  <1>5. CASE \/ Publishing!WriteControl \/ Publishing!ReplaceLatest
             \/ Publishing!RestorePointer \/ Publishing!RestoreControl \/ Publishing!RestoreAnyway
    BY <1>5, CommitSteps
  <1>6. CASE Publishing!Verify
    BY <1>6, VerifyStep
  <1>7. CASE Publishing!RemoveMarker \/ Publishing!Unmark
    BY <1>7, RemovalSteps
  <1> QED
    BY <1>1, <1>2, <1>3, <1>4, <1>5, <1>6, <1>7 DEF Publishing!Next, Channels

LEMMA PublicationWhole == PublicationInv => Publishing!PublicationIsWhole
  <1> SUFFICES ASSUME PublicationInv PROVE Publishing!PublicationIsWhole
    OBVIOUS
  <1>1. v5 = Publishing!NoMarker => v2.beta = v3["beta"] /\ v2.production = v3["production"]
    BY DEF PublicationInv, FilesInv, Agree
  <1>2. \A c \in Channels : v3[c] # NoBuild => v3[c] \in v4[c] /\ (c = "production" => v3[c] \in v13 \cap v10)
    BY DEF PublicationInv, FilesInv, Fit
  <1> QED
    BY <1>1, <1>2, TwoChannels DEF Publishing!PublicationIsWhole, Publishing!Served, NoBuild, Channels
-----------------------------------------------------------------------------
(* CustomerSync: v1 customer, v2 key, v3 attrs, v4 checkpoint, v5 ready,     *)
(* v6 pass, v7 closed, v8 now, v9 passes, v10 lapsed.                        *)

Places == Keys \X Contacts
CopyTypes ==
    /\ v2 \in Keys
    /\ v3 = [p \in Places |-> v3[p]]
    /\ v4 = [c \in Contacts |-> v4[c]]
    /\ \A c \in Contacts : v4[c] = [key |-> v4[c].key, digest |-> v4[c].digest, next |-> v4[c].next]

\* A pass works under a key; what it updated is there, or somebody edited it.
Visiting == {"lookup", "update", "applied"}
PassInv ==
    /\ v6.pc \in Visiting \cup {"idle", "lists", "customers", "attributes", "next"}
    /\ v6.pc # "idle" => v6.key \in Keys
    /\ v6.pc \in {"attributes", "next"} =>
          /\ v6 = [pc |-> v6.pc, left |-> v6.left, at |-> v6.at, key |-> v6.key, facts |-> v6.facts]
          /\ v6.left \subseteq Contacts
    /\ v6.pc \in Visiting =>
          /\ v6 = [pc |-> v6.pc, left |-> v6.left, at |-> v6.at, key |-> v6.key, facts |-> v6.facts,
                   contact |-> v6.contact]
          /\ v6.left \subseteq Contacts /\ v6.contact \in Contacts
    /\ v6.pc = "update" => v3[ContactCopy!Place] # ContactCopy!Unlisted
    /\ v6.pc = "applied" => v3[ContactCopy!Place] = ContactCopy!Wanted \/ ContactCopy!Place \in v10

CopyInv == CopyTypes /\ PassInv /\ ContactCopy!CheckpointsAreTrue

LEMMA CopyStarts == ContactCopy!Init => CopyInv
  <1> SUFFICES ASSUME ContactCopy!Init PROVE CopyInv
    OBVIOUS
  <1>1. CopyTypes
    BY DEF ContactCopy!Init, CopyTypes, Places
  <1>2. PassInv
    BY DEF ContactCopy!Init, ContactCopy!Idle, PassInv, Visiting
  <1>3. ContactCopy!CheckpointsAreTrue
    BY DEF ContactCopy!Init, ContactCopy!CheckpointsAreTrue
  <1> QED
    BY <1>1, <1>2, <1>3 DEF CopyInv

\* What a pass does without a checkpoint or an update: it goes on, or it ends with
\* what it had not checked off noted.
LEMMA PassGoes ==
    ASSUME CopyInv, UNCHANGED <<v3, v4>>, v2' \in Keys, PassInv', v10 \subseteq v10',
           v6.pc = "applied" => \/ v6'.pc = "applied" /\ ContactCopy!Place' = ContactCopy!Place
                                \/ ContactCopy!Place \in v10'
    PROVE  CopyInv'
  <1>1. CopyTypes'
    BY DEF CopyInv, CopyTypes
  <1>2. ContactCopy!CheckpointsAreTrue'
    BY DEF CopyInv, ContactCopy!CheckpointsAreTrue
  <1> QED
    BY <1>1, <1>2 DEF CopyInv

LEMMA QuietPass ==
    ASSUME CopyInv,
           \/ ContactCopy!Begin \/ ContactCopy!ReadsLists \/ ContactCopy!Selects \/ ContactCopy!ReadFails
           \/ ContactCopy!EnsureAttributes \/ ContactCopy!Ends
           \/ \E c \in Contacts : ContactCopy!Visits(c)
    PROVE  CopyInv'
  <1>1. UNCHANGED <<v2, v3, v4, v10>> /\ v6.pc # "applied"
    BY DEF ContactCopy!Begin, ContactCopy!ReadsLists, ContactCopy!Selects, ContactCopy!ReadFails,
       ContactCopy!EnsureAttributes, ContactCopy!Ends, ContactCopy!Visits, ContactCopy!Idle
  <1>2. v2 \in Keys
    BY DEF CopyInv, CopyTypes
  <1>3. PassInv'
    <2>1. CASE ContactCopy!Begin \/ ContactCopy!ReadsLists \/ ContactCopy!ReadFails \/ ContactCopy!Ends
      BY <1>2, <2>1 DEF CopyInv, PassInv, Visiting, ContactCopy!Begin, ContactCopy!ReadsLists,
         ContactCopy!ReadFails, ContactCopy!Ends, ContactCopy!Idle
    <2>2. CASE ContactCopy!Selects
      <3>1. \A S \in ContactCopy!Chosen : S \subseteq Contacts
        BY DEF ContactCopy!Chosen, ContactCopy!Due
      <3> QED
        BY <2>2, <3>1 DEF CopyInv, PassInv, Visiting, ContactCopy!Selects, ContactCopy!Idle
    <2>3. CASE ContactCopy!EnsureAttributes
      BY <2>3 DEF CopyInv, PassInv, Visiting, ContactCopy!EnsureAttributes, ContactCopy!Idle
    <2>4. ASSUME NEW c \in Contacts, ContactCopy!Visits(c) PROVE PassInv'
      BY <2>4 DEF CopyInv, PassInv, Visiting, ContactCopy!Visits
    <2> QED
      BY <2>1, <2>2, <2>3, <2>4
  <1> QED
    BY <1>1, <1>2, <1>3, PassGoes

\* A pass that ends before its checkpoint leaves a note of what it updated.
LEMMA PassBreaks ==
    ASSUME CopyInv, ContactCopy!NothingSaved \/ ContactCopy!Stop \/ ContactCopy!Restart
    PROVE  CopyInv'
  <1>1. UNCHANGED <<v2, v3, v4>> /\ v10' = v10 \cup ContactCopy!Unsaved /\ v6' = ContactCopy!Idle
    BY DEF ContactCopy!NothingSaved, ContactCopy!Stop, ContactCopy!Restart
  <1>2. v2 \in Keys
    BY DEF CopyInv, CopyTypes
  <1>3. PassInv'
    BY <1>1 DEF PassInv, Visiting, ContactCopy!Idle
  <1>4. v6.pc = "applied" => ContactCopy!Place \in v10'
    BY <1>1 DEF ContactCopy!Unsaved
  <1> QED
    BY <1>1, <1>2, <1>3, <1>4, PassGoes

\* Facts and keys change under the pass, contacts are edited.
LEMMA CopyWorld ==
    ASSUME CopyInv,
           \/ ContactCopy!Tick
           \/ \E c \in Contacts, f \in Facts : ContactCopy!CustomerChanges(c, f)
           \/ \E k \in Keys : ContactCopy!KeyChanges(k)
    PROVE  CopyInv'
  <1>1. UNCHANGED <<v3, v4, v6, v10>> /\ v2' \in Keys
    BY DEF CopyInv, CopyTypes, ContactCopy!Tick, ContactCopy!CustomerChanges, ContactCopy!KeyChanges
  <1>2. PassInv' /\ ContactCopy!Place' = ContactCopy!Place
    BY <1>1 DEF CopyInv, PassInv, ContactCopy!Place, ContactCopy!Wanted
  <1> QED
    BY <1>1, <1>2, PassGoes

LEMMA EditStep ==
    ASSUME CopyInv, NEW k \in Keys, NEW c \in Contacts, ContactCopy!ContactChanges(k, c)
    PROVE  CopyInv'
  <1> DEFINE p == <<k, c>>
  <1>1. UNCHANGED <<v2, v4, v6>> /\ v10' = v10 \cup {p} /\ p \in Places
    BY DEF ContactCopy!ContactChanges, Places
  <1>2. /\ v3' = [v3 EXCEPT ![p] = IF v3[p] \in {ContactCopy!Absent, ContactCopy!Unlisted}
                                     THEN ContactCopy!Blank ELSE ContactCopy!Absent]
    BY DEF ContactCopy!ContactChanges
  <1>3. v3 = [q \in Places |-> v3[q]]
    BY DEF CopyInv, CopyTypes
  <1>4. v3' = [q \in Places |-> v3'[q]] /\ v3'[p] # ContactCopy!Unlisted /\ \A q : q # p => v3'[q] = v3[q]
    BY <1>1, <1>2, <1>3 DEF ContactCopy!Absent, ContactCopy!Blank, ContactCopy!Unlisted
  <1> HIDE DEF p
  <1>5. CopyTypes'
    BY <1>1, <1>4 DEF CopyInv, CopyTypes, Places
  <1>6. ContactCopy!Place' = ContactCopy!Place /\ ContactCopy!Wanted' = ContactCopy!Wanted
    BY <1>1 DEF ContactCopy!Place, ContactCopy!Wanted
  <1>7. PassInv'
    BY <1>1, <1>4, <1>6 DEF CopyInv, PassInv
  <1>8. ContactCopy!CheckpointsAreTrue'
    <2> SUFFICES ASSUME NEW d \in Contacts, v4[d].digest # ContactCopy!None
                 PROVE  \/ v3'[<<v4[d].key, d>>] = v4[d].digest \/ <<v4[d].key, d>> \in v10'
                        \/ v6.pc = "applied" /\ ContactCopy!Place = <<v4[d].key, d>>
      BY <1>1, <1>6 DEF ContactCopy!CheckpointsAreTrue
    <2>1. \/ v3[<<v4[d].key, d>>] = v4[d].digest \/ <<v4[d].key, d>> \in v10
          \/ v6.pc = "applied" /\ ContactCopy!Place = <<v4[d].key, d>>
      BY DEF CopyInv, ContactCopy!CheckpointsAreTrue
    <2> QED
      BY <1>1, <1>4, <2>1
  <1> QED
    BY <1>5, <1>7, <1>8 DEF CopyInv

\* The update: the contact holds the facts of the pass now.
LEMMA AppliedStep == ASSUME CopyInv, ContactCopy!Applied PROVE CopyInv'
  <1> DEFINE p == ContactCopy!Place
  <1>1. /\ v6.pc = "update" /\ UNCHANGED <<v2, v4, v10>> /\ v6' = [v6 EXCEPT !.pc = "applied"]
        /\ v3' = [v3 EXCEPT ![p] = IF v3[p] = ContactCopy!Unlisted THEN v3[p] ELSE ContactCopy!Wanted]
    BY DEF ContactCopy!Applied
  <1>2. /\ v6 = [pc |-> v6.pc, left |-> v6.left, at |-> v6.at, key |-> v6.key, facts |-> v6.facts,
                 contact |-> v6.contact]
        /\ v6.left \subseteq Contacts /\ v6.contact \in Contacts /\ v6.key \in Keys
        /\ v3[p] # ContactCopy!Unlisted
    BY <1>1 DEF CopyInv, PassInv, Visiting
  <1>3. v6' = [pc |-> "applied", left |-> v6.left, at |-> v6.at, key |-> v6.key, facts |-> v6.facts,
               contact |-> v6.contact]
    BY <1>1, <1>2
  <1>4. p \in Places /\ p' = p /\ ContactCopy!Wanted' = ContactCopy!Wanted
    BY <1>2, <1>3 DEF Places, ContactCopy!Place, ContactCopy!Wanted
  <1>5. v3 = [q \in Places |-> v3[q]]
    BY DEF CopyInv, CopyTypes
  <1>6. v3' = [q \in Places |-> v3'[q]] /\ v3'[p] = ContactCopy!Wanted /\ \A q : q # p => v3'[q] = v3[q]
    BY <1>1, <1>2, <1>4, <1>5
  <1>7. CopyTypes'
    BY <1>1, <1>6 DEF CopyInv, CopyTypes, Places
  <1>8. PassInv'
    BY <1>2, <1>3, <1>4, <1>6 DEF PassInv, Visiting
  <1>9. ContactCopy!CheckpointsAreTrue'
    <2> HIDE DEF p
    <2> SUFFICES ASSUME NEW d \in Contacts, v4[d].digest # ContactCopy!None
                 PROVE  \/ v3'[<<v4[d].key, d>>] = v4[d].digest \/ <<v4[d].key, d>> \in v10
                        \/ p = <<v4[d].key, d>>
      BY <1>1, <1>3, <1>4 DEF ContactCopy!CheckpointsAreTrue, p
    <2>1. v3[<<v4[d].key, d>>] = v4[d].digest \/ <<v4[d].key, d>> \in v10
      BY <1>1 DEF CopyInv, ContactCopy!CheckpointsAreTrue
    <2> QED
      BY <1>6, <2>1
  <1> QED
    BY <1>7, <1>8, <1>9 DEF CopyInv

\* A checkpoint that delays the contact says what the contact holds.
LEMMA SaveStep ==
    ASSUME CopyInv, NEW digest, NEW wait, v6.pc \in Visiting, ContactCopy!Save(digest, wait),
           UNCHANGED <<v2, v3, v10>>,
           v6.pc = "applied" \/ digest = ContactCopy!None \/ v3[ContactCopy!Place] = digest,
           v6.pc = "applied" => digest \in {ContactCopy!None, ContactCopy!Wanted}
    PROVE  CopyInv'
  <1> DEFINE p == ContactCopy!Place
             s == [key |-> v6.key, digest |-> digest, next |-> v6.at + wait]
  <1>1. /\ v4' = [v4 EXCEPT ![v6.contact] = s]
        /\ v6' = [pc |-> "next", left |-> v6.left, at |-> v6.at, key |-> v6.key, facts |-> v6.facts]
    BY DEF ContactCopy!Save, ContactCopy!Onward
  <1>2. v6.left \subseteq Contacts /\ v6.contact \in Contacts /\ v6.key \in Keys /\ p = <<v6.key, v6.contact>>
    BY DEF CopyInv, PassInv, Visiting, ContactCopy!Place
  <1>3. v4 = [c \in Contacts |-> v4[c]]
    BY DEF CopyInv, CopyTypes
  <1>4. v4' = [c \in Contacts |-> v4'[c]] /\ v4'[v6.contact] = s /\ \A d \in Contacts \ {v6.contact} : v4'[d] = v4[d]
    BY <1>1, <1>2, <1>3
  <1>5. CopyTypes'
    BY <1>4 DEF CopyInv, CopyTypes
  <1>6. PassInv'
    BY <1>1, <1>2 DEF PassInv, Visiting
  <1>7. v3[p] = ContactCopy!Wanted \/ p \in v10 \/ v6.pc # "applied"
    BY DEF CopyInv, PassInv
  <1>8. ContactCopy!CheckpointsAreTrue'
    <2> SUFFICES ASSUME NEW d \in Contacts, v4'[d].digest # ContactCopy!None
                 PROVE  v3[<<v4'[d].key, d>>] = v4'[d].digest \/ <<v4'[d].key, d>> \in v10
      BY DEF ContactCopy!CheckpointsAreTrue
    <2>1. CASE d = v6.contact
      <3>1. v4'[d].key = v6.key /\ v4'[d].digest = digest
        BY <1>4, <2>1
      <3> QED
        BY <1>2, <1>7, <2>1, <3>1
    <2>2. CASE d # v6.contact
      <3>1. v4'[d] = v4[d] /\ p # <<v4[d].key, d>>
        BY <1>2, <1>4, <2>2
      <3> QED
        BY <3>1 DEF CopyInv, ContactCopy!CheckpointsAreTrue
    <2> QED
      BY <2>1, <2>2
  <1> QED
    BY <1>5, <1>6, <1>8 DEF CopyInv

LEMMA Checkpoints ==
    ASSUME CopyInv, ContactCopy!Fails \/ ContactCopy!LookedUp \/ ContactCopy!UpdateAnswered
    PROVE  CopyInv'
  <1>1. CASE ContactCopy!Fails
    BY <1>1, SaveStep DEF ContactCopy!Fails, Visiting
  <1>2. CASE ContactCopy!UpdateAnswered
    BY <1>2, SaveStep DEF ContactCopy!UpdateAnswered, Visiting
  <1>3. CASE ContactCopy!LookedUp /\ v6'.pc # "update"
    <2>1. v6.pc = "lookup" /\ UNCHANGED <<v2, v3, v10>>
      BY <1>3 DEF ContactCopy!LookedUp
    <2>2. \/ ContactCopy!Save(ContactCopy!None, Missing)
          \/ v3[ContactCopy!Place] = ContactCopy!Wanted /\ ContactCopy!Save(ContactCopy!Wanted, Success)
      BY <1>3, <2>1 DEF ContactCopy!LookedUp, CopyInv, PassInv, Visiting
    <2> QED
      BY <2>1, <2>2, SaveStep DEF Visiting
  <1>4. CASE ContactCopy!LookedUp /\ v6'.pc = "update"
    <2>1. v6.pc = "lookup" /\ UNCHANGED <<v2, v3, v10>>
      BY <1>4 DEF ContactCopy!LookedUp
    <2>2. /\ v3[ContactCopy!Place] # ContactCopy!Unlisted /\ UNCHANGED v4
          /\ v6' = [v6 EXCEPT !.pc = "update"]
      BY <1>4 DEF ContactCopy!LookedUp, ContactCopy!Save, ContactCopy!Onward
    <2>3. v6' = [pc |-> "update", left |-> v6.left, at |-> v6.at, key |-> v6.key, facts |-> v6.facts,
                 contact |-> v6.contact]
      BY <2>1, <2>2 DEF CopyInv, PassInv, Visiting
    <2>4. ContactCopy!Place' = ContactCopy!Place
      BY <2>3 DEF ContactCopy!Place
    <2>5. PassInv' /\ v2 \in Keys
      BY <2>1, <2>2, <2>3, <2>4 DEF CopyInv, CopyTypes, PassInv, Visiting
    <2> QED
      BY <2>1, <2>2, <2>5, PassGoes
  <1> QED
    BY <1>1, <1>2, <1>3, <1>4

LEMMA CopyKept == CopyInv /\ ContactCopy!Next => CopyInv'
  BY QuietPass, PassBreaks, CopyWorld, EditStep, AppliedStep, Checkpoints DEF ContactCopy!Next

-----------------------------------------------------------------------------
(* Reminders: v1 sub, v2 customer, v3 provider, v4 row, v5 tick, v6 now,     *)
(* v7 known, v8 shown.                                                       *)

Waits == {"stripe", "preview", "send", "asked", "arrived"}

\* An earlier attempt may be repeated: the same provider knows its key.
Repeats(t) == v4.by = t.by /\ t.by = Keyed /\ t.clock < v4.since + Resend

\* The tick works on the row of the file, as it is; what it sends comes in time.
TickInv ==
    v5 # Reminding!Off =>
        /\ v5 = [pc |-> v5.pc, clock |-> v5.clock, by |-> v5.by, row |-> v4]
        /\ v5.pc \in Waits /\ v5.clock \in Nat /\ v6 \in {v5.clock, v5.clock + 1}
        /\ v4.state = "pending" /\ v4.since <= v5.clock
        /\ v5.pc # "stripe" => v5.clock < First
        /\ v5.pc \in {"preview", "send"} /\ v4.asked = TRUE => Repeats(v5)
        /\ v5.pc \in {"asked", "arrived"} => v4.asked = TRUE /\ (v8 # {} => Repeats(v5) \/ v5.pc = "arrived")
        /\ v5.pc = "arrived" => v8 # {}

\* The customer has seen nothing before an attempt was written down, and whoever
\* delivered the message knows its key from then on.
ShownInv ==
    /\ v6 \in Nat
    /\ v4 = [state |-> v4.state, body |-> v4.body, by |-> v4.by, asked |-> v4.asked, since |-> v4.since]
    /\ v4.asked \in BOOLEAN /\ v4.since \in Nat /\ v4.since <= v6
    /\ \A s, t \in v8 : s = t
    /\ \A s \in v8 : s.at \in Nat /\ s.at <= First
    /\ v8 = {} => v7.by = "none"
    /\ v8 # {} => v4.asked = TRUE /\ v7.by = v4.by /\ v7.at \in Nat /\ v4.since <= v7.at /\ v7.at <= v6
    /\ v4.state = "sent" => v8 # {}

RemindInv == TickInv /\ ShownInv

LEMMA RemindStarts == Reminding!Init => RemindInv
  <1> SUFFICES ASSUME Reminding!Init PROVE RemindInv
    OBVIOUS
  <1>1. TickInv
    BY DEF Reminding!Init, TickInv
  <1>2. ShownInv
    BY DEF Reminding!Init, ShownInv, Reminding!NewRow, Reminding!Unseen, Reminding!None
  <1> QED
    BY <1>1, <1>2 DEF RemindInv

\* A row is written that says less than was done, or the same.
LEMMA RowStays ==
    ASSUME ShownInv, UNCHANGED <<v6, v7, v8>>, NEW state, state = "sent" => v8 # {},
           v4' = [v4 EXCEPT !.state = state]
    PROVE  ShownInv'
  <1>1. v4' = [state |-> state, body |-> v4.body, by |-> v4.by, asked |-> v4.asked, since |-> v4.since]
    BY DEF ShownInv
  <1>2. /\ v4'.state = state /\ v4'.by = v4.by /\ v4'.asked = v4.asked /\ v4'.since = v4.since
        /\ v4'.body = v4.body
    BY <1>1
  <1> QED
    BY <1>1, <1>2 DEF ShownInv

LEMMA TickEnds == v5' = Reminding!Off => TickInv'
  BY DEF TickInv

\* The tick is over, whatever it made of the row.
LEMMA EndsStep ==
    ASSUME RemindInv, v5 # Reminding!Off, NEW state, Reminding!Ends(state), UNCHANGED <<v6, v7, v8>>,
           state = "sent" => v8 # {}
    PROVE  RemindInv'
  <1>1. v4' = [v4 EXCEPT !.state = state] /\ v5' = Reminding!Off
    BY DEF Reminding!Ends, Reminding!Puts, Reminding!Over, RemindInv, TickInv
  <1> QED
    BY <1>1, RowStays, TickEnds DEF RemindInv

LEMMA BreaksOff ==
    ASSUME RemindInv, v5 # Reminding!Off, UNCHANGED <<v6, v7, v8>>, v4' \in {v4, v5.row}, v5' = Reminding!Off
    PROVE  RemindInv'
  <1>1. v4' = v4
    BY DEF RemindInv, TickInv
  <1> QED
    BY <1>1, TickEnds DEF RemindInv, ShownInv

LEMMA NotOff == v5 = Reminding!Off => v5.pc = "off"
  BY DEF Reminding!Off

LEMMA BeginsStep == ASSUME RemindInv, Reminding!Begins PROVE RemindInv'
  <1>1. /\ v4.state = "pending" /\ UNCHANGED <<v4, v6, v7, v8>>
        /\ v5' = [pc |-> "stripe", clock |-> v6, by |-> v3, row |-> v4]
    BY DEF Reminding!Begins
  <1>2. ShownInv'
    BY <1>1 DEF RemindInv, ShownInv
  <1>3. TickInv'
    BY <1>1 DEF RemindInv, ShownInv, TickInv, Waits
  <1> QED
    BY <1>2, <1>3 DEF RemindInv

LEMMA ReadsStep == ASSUME RemindInv, Reminding!ReadsSubscription PROVE RemindInv'
  <1>1. v5 # Reminding!Off /\ v5.pc = "stripe" /\ UNCHANGED <<v6, v7, v8>>
    BY NotOff DEF Reminding!ReadsSubscription, Reminding!At
  <1>2. CASE Reminding!Ends("canceled") \/ Reminding!Ends("needs_attention")
    BY <1>1, <1>2, EndsStep
  <1>3. CASE Reminding!Puts(v5.row) /\ Reminding!Over
    BY <1>1, <1>3, BreaksOff DEF Reminding!Puts, Reminding!Over
  <1>4. CASE /\ ~(v5.clock >= First \/ (v5.by # Reminding!None /\ Reminding!Unsafe)) /\ v5.by # Reminding!None
             /\ v5' = [v5 EXCEPT !.pc = IF v5.row.body = Reminding!None THEN "preview" ELSE "send"]
             /\ UNCHANGED v4
    <2> DEFINE pc == IF v5.row.body = Reminding!None THEN "preview" ELSE "send"
    <2>1. /\ v5 = [pc |-> v5.pc, clock |-> v5.clock, by |-> v5.by, row |-> v4]
          /\ v5.clock \in Nat /\ v6 \in {v5.clock, v5.clock + 1}
          /\ v4.state = "pending" /\ v4.since <= v5.clock /\ v4.since \in Nat
      BY <1>1 DEF RemindInv, TickInv, ShownInv
    <2>2. v5' = [pc |-> pc, clock |-> v5.clock, by |-> v5.by, row |-> v4]
      BY <1>4, <2>1
    <2>3. pc \in {"preview", "send"}
      OBVIOUS
    <2> HIDE DEF pc
    <2>4. v5.clock < First
      BY <1>4, <2>1, RemindAssumption
    <2>5. v4.asked = TRUE => Repeats(v5)
      <3> SUFFICES ASSUME v4.asked = TRUE PROVE Repeats(v5)
        OBVIOUS
      <3>1. ~Reminding!Unsafe
        BY <1>4
      <3>2. v5.row = v4
        BY <2>1
      <3>3. v4.by = v5.by /\ v5.by = Keyed /\ ~(v5.clock - v4.since >= Resend)
        BY <3>1, <3>2 DEF Reminding!Unsafe
      <3> QED
        BY <2>1, <3>3, RemindAssumption DEF Repeats
    <2>6. v5'.pc = pc /\ v5'.clock = v5.clock /\ v5'.by = v5.by /\ v5'.row = v4
      BY <2>2
    <2>7. TickInv'
      BY <1>1, <1>4, <2>1, <2>2, <2>3, <2>4, <2>5, <2>6 DEF TickInv, Waits, Repeats
    <2> QED
      BY <1>1, <1>4, <2>7 DEF RemindInv, ShownInv
  <1> QED
    BY <1>1, <1>2, <1>3, <1>4, Zenon DEF Reminding!ReadsSubscription

LEMMA PreviewedStep == ASSUME RemindInv, Reminding!Previewed PROVE RemindInv'
  <1>1. v5 # Reminding!Off /\ v5.pc = "preview" /\ UNCHANGED <<v6, v7, v8>>
    BY NotOff DEF Reminding!Previewed, Reminding!At
  <1>2. CASE Reminding!Puts(v5.row) /\ Reminding!Over
    BY <1>1, <1>2, BreaksOff DEF Reminding!Puts, Reminding!Over
  <1>3. ASSUME NEW b \in Bodies, NEW r, r = [[v5.row EXCEPT !.body = b] EXCEPT !.by = v5.by],
               v4' = r, v5' = [[v5 EXCEPT !.pc = "send"] EXCEPT !.row = r]
        PROVE  RemindInv'
    <2>1. /\ v5 = [pc |-> v5.pc, clock |-> v5.clock, by |-> v5.by, row |-> v4]
          /\ v5.clock \in Nat /\ v6 \in {v5.clock, v5.clock + 1}
          /\ v4.state = "pending" /\ v4.since <= v5.clock /\ v5.clock < First
          /\ v4.asked = TRUE => Repeats(v5)
      BY <1>1 DEF RemindInv, TickInv
    <2>2. v4 = [state |-> v4.state, body |-> v4.body, by |-> v4.by, asked |-> v4.asked, since |-> v4.since]
      BY DEF RemindInv, ShownInv
    <2>3. v5.row = v4
      BY <2>1
    <2>4. v4' = [state |-> v4.state, body |-> b, by |-> v5.by, asked |-> v4.asked, since |-> v4.since]
      BY <1>3, <2>2, <2>3
    <2>5. v5' = [pc |-> "send", clock |-> v5.clock, by |-> v5.by, row |-> v4']
      BY <1>3, <2>1
    <2>6. /\ v4'.state = v4.state /\ v4'.by = v5.by /\ v4'.asked = v4.asked /\ v4'.since = v4.since
          /\ v4'.body = b
          /\ v5'.pc = "send" /\ v5'.clock = v5.clock /\ v5'.by = v5.by /\ v5'.row = v4'
      BY <2>4, <2>5
    <2>7. v8 # {} => v5.by = v4.by
      BY <2>1 DEF RemindInv, ShownInv, Repeats
    <2>8. ShownInv'
      BY <1>1, <2>4, <2>6, <2>7 DEF RemindInv, ShownInv
    <2>9. TickInv'
      BY <1>1, <2>1, <2>5, <2>6 DEF TickInv, Waits, Repeats
    <2> QED
      BY <2>8, <2>9 DEF RemindInv
  <1> QED
    BY <1>1, <1>2, <1>3 DEF Reminding!Previewed, Reminding!Puts

LEMMA AttemptsStep == ASSUME RemindInv, Reminding!Attempts PROVE RemindInv'
  <1> DEFINE n == IF v5.row.asked THEN v5.row.since ELSE v5.clock
             r == [[v5.row EXCEPT !.asked = TRUE] EXCEPT !.since = n]
  <1>1. /\ v5 # Reminding!Off /\ v5.pc = "send" /\ UNCHANGED <<v6, v7, v8>>
        /\ v4' = r /\ v5' = [[v5 EXCEPT !.pc = "asked"] EXCEPT !.row = r]
    BY NotOff DEF Reminding!Attempts, Reminding!At, Reminding!Puts
  <1>2. /\ v5 = [pc |-> v5.pc, clock |-> v5.clock, by |-> v5.by, row |-> v4]
        /\ v5.clock \in Nat /\ v6 \in {v5.clock, v5.clock + 1}
        /\ v4.state = "pending" /\ v4.since <= v5.clock /\ v5.clock < First
        /\ v4.asked = TRUE => Repeats(v5)
    BY <1>1 DEF RemindInv, TickInv
  <1>3. /\ v4 = [state |-> v4.state, body |-> v4.body, by |-> v4.by, asked |-> v4.asked, since |-> v4.since]
        /\ v4.asked \in BOOLEAN /\ v4.since \in Nat
    BY DEF RemindInv, ShownInv
  <1>4. v5.row = v4
    BY <1>2
  <1>5. /\ v4.asked = TRUE => n = v4.since
        /\ v4.asked = FALSE => n = v5.clock
        /\ n \in Nat /\ n <= v5.clock
    BY <1>2, <1>3, <1>4
  <1>6. v4' = [state |-> v4.state, body |-> v4.body, by |-> v4.by, asked |-> TRUE, since |-> n]
    BY <1>1, <1>3, <1>4
  <1>7. v5' = [pc |-> "asked", clock |-> v5.clock, by |-> v5.by, row |-> v4']
    BY <1>1, <1>2
  <1> HIDE DEF n, r
  <1>8. /\ v4'.state = v4.state /\ v4'.by = v4.by /\ v4'.asked = TRUE /\ v4'.since = n /\ v4'.body = v4.body
        /\ v5'.pc = "asked" /\ v5'.clock = v5.clock /\ v5'.by = v5.by /\ v5'.row = v4'
    BY <1>6, <1>7
  <1>9. v8 # {} => v4.asked = TRUE
    BY DEF RemindInv, ShownInv
  <1>10. ShownInv'
    BY <1>1, <1>2, <1>5, <1>6, <1>8, <1>9 DEF RemindInv, ShownInv
  <1>11. TickInv'
    BY <1>1, <1>2, <1>5, <1>7, <1>8, <1>9 DEF TickInv, Waits, Repeats
  <1> QED
    BY <1>10, <1>11 DEF RemindInv

\* The provider that has shown the message knows its key still.
LEMMA ArrivesStep == ASSUME RemindInv, Reminding!Arrives PROVE RemindInv'
  <1>1. v5 # Reminding!Off /\ v5.pc = "asked" /\ UNCHANGED <<v4, v6>> /\ v5' = [v5 EXCEPT !.pc = "arrived"]
    BY NotOff DEF Reminding!Arrives, Reminding!At
  <1>2. /\ v5 = [pc |-> v5.pc, clock |-> v5.clock, by |-> v5.by, row |-> v4]
        /\ v5.clock \in Nat /\ v6 \in {v5.clock, v5.clock + 1}
        /\ v4.state = "pending" /\ v4.since <= v5.clock /\ v5.clock < First
        /\ v4.asked = TRUE /\ (v8 # {} => Repeats(v5))
    BY <1>1 DEF RemindInv, TickInv
  <1>3. v5' = [pc |-> "arrived", clock |-> v5.clock, by |-> v5.by, row |-> v4] /\ v5.row = v4
    BY <1>1, <1>2
  <1>4. /\ v5'.pc = "arrived" /\ v5'.clock = v5.clock /\ v5'.by = v5.by /\ v5'.row = v4
    BY <1>3
  <1>5. v4.since \in Nat /\ v6 \in Nat
    BY DEF RemindInv, ShownInv
  <1>6. CASE v8 # {}
    <2>1. v4.by = Keyed /\ v5.clock < v4.since + Resend /\ v7.by = v4.by /\ v7.at \in Nat /\ v4.since <= v7.at
      BY <1>2, <1>6 DEF RemindInv, ShownInv, Repeats
    <2>2. v6 - v7.at < Forget
      BY <1>2, <1>5, <2>1, RemindAssumption
    <2>3. UNCHANGED <<v7, v8>>
      BY <1>3, <2>1, <2>2 DEF Reminding!Arrives, Reminding!Knows
    <2>4. TickInv'
      BY <1>1, <1>2, <1>3, <1>4, <1>6, <2>3 DEF TickInv, Waits
    <2> QED
      BY <1>1, <2>3, <2>4 DEF RemindInv, ShownInv
  <1>7. CASE v8 = {}
    <2>1. ~Reminding!Knows
      BY <1>7, RemindAssumption DEF RemindInv, ShownInv, Reminding!Knows
    <2>2. /\ v7' = [at |-> v6, by |-> v4.by] /\ v8' = {[at |-> v6, body |-> v4.body]}
      BY <1>3, <1>7, <2>1 DEF Reminding!Arrives
    <2>3. v6 <= First /\ v4.since <= v6
      BY <1>2, <1>5, RemindAssumption
    <2>4. /\ v4' = v4 /\ v6' = v6 /\ v7'.at = v6 /\ v7'.by = v4.by /\ v8' # {}
          /\ \A s \in v8' : s = [at |-> v6, body |-> v4.body] /\ s.at = v6
      BY <1>1, <2>2
    <2>5. ShownInv
      BY DEF RemindInv
    <2>6. ShownInv'
      BY <1>2, <1>5, <2>3, <2>4, <2>5 DEF ShownInv
    <2>7. TickInv'
      BY <1>1, <1>2, <1>3, <1>4, <2>2 DEF TickInv, Waits
    <2> QED
      BY <2>6, <2>7 DEF RemindInv
  <1> QED
    BY <1>6, <1>7

LEMMA AnswerSteps ==
    ASSUME RemindInv, Reminding!Answered \/ Reminding!Unanswered \/ Reminding!Restart
    PROVE  RemindInv'
  <1>1. v5 # Reminding!Off /\ UNCHANGED <<v6, v7, v8>>
    BY NotOff DEF Reminding!Answered, Reminding!Unanswered, Reminding!Restart, Reminding!At
  <1>2. CASE Reminding!Answered
    <2>1. v8 # {} /\ Reminding!Ends("sent")
      BY <1>1, <1>2 DEF RemindInv, TickInv, Reminding!Answered, Reminding!At
    <2> QED
      BY <1>1, <2>1, EndsStep
  <1>3. CASE Reminding!Unanswered
    BY <1>1, <1>3, BreaksOff DEF Reminding!Unanswered, Reminding!Puts, Reminding!Over
  <1>4. CASE Reminding!Restart
    BY <1>1, <1>4, BreaksOff DEF Reminding!Restart, Reminding!Over
  <1> QED
    BY <1>2, <1>3, <1>4

LEMMA RemindWorld ==
    ASSUME RemindInv, Reminding!World \/ Reminding!Hour
    PROVE  RemindInv'
  <1>1. UNCHANGED <<v4, v5, v7, v8>>
    BY DEF Reminding!World, Reminding!Hour
  <1>2. CASE Reminding!World
    <2>1. UNCHANGED v6
      BY <1>2 DEF Reminding!World
    <2> QED
      BY <1>1, <2>1 DEF RemindInv, ShownInv, TickInv, Repeats
  <1>3. CASE Reminding!Hour
    <2>1. v6' = v6 + 1 /\ (v5 = Reminding!Off \/ v5.clock = v6)
      BY <1>3 DEF Reminding!Hour
    <2>2. v6 \in Nat
      BY DEF RemindInv, ShownInv
    <2>3. ShownInv'
      BY <1>1, <2>1, <2>2 DEF RemindInv, ShownInv
    <2>4. TickInv'
      BY <1>1, <2>1, <2>2 DEF RemindInv, TickInv, Repeats
    <2> QED
      BY <2>3, <2>4 DEF RemindInv
  <1> QED
    BY <1>2, <1>3

LEMMA RemindKept == RemindInv /\ Reminding!Next => RemindInv'
  BY BeginsStep, ReadsStep, PreviewedStep, AttemptsStep, ArrivesStep, AnswerSteps, RemindWorld DEF Reminding!Next

LEMMA RemindsOnce == RemindInv => Reminding!RemindedOnce
  BY DEF RemindInv, ShownInv, Reminding!RemindedOnce

-----------------------------------------------------------------------------
(* Notifications: v1 mem, v2 file, v3 flushing, v4 held, v5 faults, v6 owed, *)
(* v7 received.                                                              *)

Notice == [id : Notices, state : {"queued", "sending", "ambiguous", "delivered", "failed"}, attempts : Nat]

\* What the rows of the outbox say of the notifications that are owed and shown.
Whole(rows, due, got) ==
    /\ rows \in Seq(Notice)
    /\ \A j, k \in DOMAIN rows : rows[j].id = rows[k].id => j = k
    /\ \A n \in due : \E k \in DOMAIN rows : rows[k].id = n /\ Outbox!Active(rows[k])
    /\ \A k \in DOMAIN rows : rows[k].state = "delivered" => rows[k].id \in got
    /\ \A k \in DOMAIN rows : rows[k].id \in got => rows[k].attempts > 0

\* A row in flight is one of the rows still, with its attempt on record.
Flies(rows, id) ==
    \E k \in DOMAIN rows :
        rows[k].id = id /\ rows[k].state \in {"sending", "ambiguous"} /\ rows[k].attempts > 0

HeldInv ==
    /\ v4 = [id |-> v4.id, live |-> v4.live, sent |-> v4.sent, shown |-> v4.shown,
             attempts |-> v4.attempts]
    /\ v4 # Outbox!NoRow => Flies(v2.rows, v4.id)
    /\ v4.shown => v4.id \in v7 /\ v4.id \notin v6

NoticesInv ==
    /\ v2 = [url |-> v2.url, rows |-> v2.rows]
    /\ v1 = v2 \/ v1 = Outbox!Doubtful(v2)
    /\ Whole(v2.rows, v6, v7)
    /\ HeldInv

\* Among the numbers of a set each has a rank of its own, and each rank is had.
LEMMA Ranks ==
    ASSUME NEW n \in Nat, NEW K \in SUBSET (1 .. n)
    PROVE  /\ Cardinality(K) \in Nat
           /\ \A k \in K : Cardinality(K \cap (1 .. k)) \in 1 .. Cardinality(K)
           /\ \A i \in 1 .. Cardinality(K) : \E k \in K : Cardinality(K \cap (1 .. k)) = i
           /\ \A j, k \in K : Cardinality(K \cap (1 .. j)) = Cardinality(K \cap (1 .. k)) => j = k
  <1>1. IsFiniteSet(K)
    <2>1. IsFiniteSet(1 .. n)
      BY FS_Interval
    <2> QED
      BY <2>1, FS_Subset
  <1>2. \A S \in SUBSET K : IsFiniteSet(S) /\ Cardinality(S) \in Nat /\ Cardinality(S) <= Cardinality(K)
    BY <1>1, FS_Subset, FS_CardinalityType
  <1>3. Cardinality(K) \in Nat
    BY <1>2
  <1>4. \A k \in K : Cardinality(K \cap (1 .. k)) \in 1 .. Cardinality(K)
    <2> SUFFICES ASSUME NEW k \in K PROVE Cardinality(K \cap (1 .. k)) \in 1 .. Cardinality(K)
      OBVIOUS
    <2>1. k \in K \cap (1 .. k) /\ K \cap (1 .. k) \in SUBSET K
      OBVIOUS
    <2>2. IsFiniteSet(K \cap (1 .. k)) /\ Cardinality(K \cap (1 .. k)) # 0
      BY <1>2, <2>1, FS_EmptySet
    <2> QED
      BY <1>2, <1>3, <2>1, <2>2
  <1>5. \A j, k \in K : j < k => Cardinality(K \cap (1 .. j)) # Cardinality(K \cap (1 .. k))
    <2> SUFFICES ASSUME NEW j \in K, NEW k \in K, j < k,
                        Cardinality(K \cap (1 .. j)) = Cardinality(K \cap (1 .. k))
                 PROVE  FALSE
      OBVIOUS
    <2>1. K \cap (1 .. j) \in SUBSET (K \cap (1 .. k)) /\ K \cap (1 .. k) \in SUBSET K
      OBVIOUS
    <2>2. IsFiniteSet(K \cap (1 .. k))
      BY <1>2, <2>1
    <2>3. K \cap (1 .. j) = K \cap (1 .. k)
      BY <2>1, <2>2, FS_Subset
    <2> QED
      BY <2>3
  <1>6. \A j, k \in K : Cardinality(K \cap (1 .. j)) = Cardinality(K \cap (1 .. k)) => j = k
    <2> SUFFICES ASSUME NEW j \in K, NEW k \in K, j # k
                 PROVE  Cardinality(K \cap (1 .. j)) # Cardinality(K \cap (1 .. k))
      OBVIOUS
    <2>1. j < k \/ k < j
      OBVIOUS
    <2> QED
      BY <1>5, <2>1
  <1>7. \A i \in 1 .. Cardinality(K) : \E k \in K : Cardinality(K \cap (1 .. k)) = i
    <2> DEFINE T == 1 .. Cardinality(K)
               f == [k \in K |-> Cardinality(K \cap (1 .. k))]
    <2>1. IsFiniteSet(T) /\ Cardinality(T) = Cardinality(K)
      BY <1>3, FS_Interval
    <2>2. f \in [K -> T] /\ \A j, k \in K : f[j] = f[k] => j = k
      BY <1>4, <1>6
    <2>3. f \in Injection(K, T)
      <3> HIDE DEF f, T
      <3> QED
        BY <2>2 DEF Injection, IsInjective
    <2>4. f \in Surjection(K, T)
      <3> HIDE DEF f, T
      <3> QED
        BY <2>1, <2>3, FS_Injection
    <2> QED
      BY <2>4 DEF Surjection
  <1> QED
    BY <1>3, <1>4, <1>6, <1>7

LEMMA OutboxCounts == \A S : Outbox!Cardinality(S) = Cardinality(S)
  BY Zenon DEF Outbox!Cardinality, Cardinality

\* Trimming keeps rows as they are and in their order, each once, and every active
\* row among them.
LEMMA TrimmedIs ==
    ASSUME NEW rows \in Seq(Notice)
    PROVE  LET trimmed == Outbox!Trimmed(rows)
           IN  /\ trimmed \in Seq(Notice)
               /\ \E at \in [DOMAIN trimmed -> DOMAIN rows] :
                    /\ \A i \in DOMAIN trimmed : trimmed[i] = rows[at[i]]
                    /\ \A i, j \in DOMAIN trimmed : at[i] = at[j] => i = j
                    /\ \A k \in DOMAIN rows : Outbox!Active(rows[k]) => \E i \in DOMAIN trimmed : at[i] = k
  <1> DEFINE K == Outbox!Kept(rows)
             N == Cardinality(K)
             at == [i \in 1 .. N |-> Outbox!Nth(K, i)]
  <1>1. K \in SUBSET (1 .. Len(rows)) /\ Len(rows) \in Nat /\ DOMAIN rows = 1 .. Len(rows)
    BY DEF Outbox!Kept
  <1>2. \A k \in DOMAIN rows : Outbox!Active(rows[k]) => k \in K
    BY DEF Outbox!Kept
  <1>3. Outbox!Trimmed(rows) = [i \in 1 .. N |-> rows[Outbox!Nth(K, i)]]
    BY OutboxCounts DEF Outbox!Trimmed
  <1> HIDE DEF K
  <1>4. /\ N \in Nat
        /\ \A k \in K : Cardinality(K \cap (1 .. k)) \in 1 .. N
        /\ \A i \in 1 .. N : \E k \in K : Cardinality(K \cap (1 .. k)) = i
        /\ \A j, k \in K : Cardinality(K \cap (1 .. j)) = Cardinality(K \cap (1 .. k)) => j = k
    BY <1>1, Ranks
  <1>5. \A i \in 1 .. N : Outbox!Nth(K, i) \in K /\ Cardinality(K \cap (1 .. Outbox!Nth(K, i))) = i
    BY <1>4, OutboxCounts DEF Outbox!Nth
  <1> HIDE DEF N
  <1>6. at \in [1 .. N -> DOMAIN rows] /\ \A i \in 1 .. N : at[i] \in K /\ Cardinality(K \cap (1 .. at[i])) = i
    BY <1>1, <1>5
  <1>7. \A i, j \in 1 .. N : at[i] = at[j] => i = j
    <2> HIDE DEF at
    <2> QED
      BY <1>6
  <1>8. \A k \in K : \E i \in 1 .. N : at[i] = k
    <2> SUFFICES ASSUME NEW k \in K PROVE \E i \in 1 .. N : at[i] = k
      OBVIOUS
    <2>1. Cardinality(K \cap (1 .. k)) \in 1 .. N
      BY <1>4
    <2> DEFINE r == Cardinality(K \cap (1 .. k))
    <2>2. at[r] \in K /\ Cardinality(K \cap (1 .. at[r])) = r
      BY <1>6, <2>1
    <2>3. at[r] = k
      <3> HIDE DEF at
      <3> QED
        BY <1>4, <2>2
    <2> QED
      BY <2>1, <2>3
  <1>9. Outbox!Trimmed(rows) = [i \in 1 .. N |-> rows[at[i]]]
    BY <1>3
  <1> HIDE DEF at
  <1>10. \A i \in 1 .. N : rows[at[i]] \in Notice
    BY <1>1, <1>6
  <1>11. Outbox!Trimmed(rows) \in Seq(Notice) /\ DOMAIN Outbox!Trimmed(rows) = 1 .. N
    BY <1>4, <1>9, <1>10
  <1> QED
    BY <1>2, <1>6, <1>7, <1>8, <1>9, <1>11

LEMMA TrimWhole ==
    ASSUME NEW rows, NEW due, NEW got, Whole(rows, due, got)
    PROVE  /\ Whole(Outbox!Trimmed(rows), due, got)
           /\ \A id : Flies(rows, id) => Flies(Outbox!Trimmed(rows), id)
  <1> DEFINE trimmed == Outbox!Trimmed(rows)
  <1>1. rows \in Seq(Notice)
    BY DEF Whole
  <1>2. trimmed \in Seq(Notice)
    BY <1>1, TrimmedIs
  <1>3. PICK at \in [DOMAIN trimmed -> DOMAIN rows] :
           /\ \A i \in DOMAIN trimmed : trimmed[i] = rows[at[i]]
           /\ \A i, j \in DOMAIN trimmed : at[i] = at[j] => i = j
           /\ \A k \in DOMAIN rows : Outbox!Active(rows[k]) => \E i \in DOMAIN trimmed : at[i] = k
    BY <1>1, TrimmedIs
  <1> HIDE DEF trimmed
  <1>4. Whole(trimmed, due, got)
    <2>1. \A n \in due : \E i \in DOMAIN trimmed : trimmed[i].id = n /\ Outbox!Active(trimmed[i])
      <3> SUFFICES ASSUME NEW n \in due
                   PROVE  \E i \in DOMAIN trimmed : trimmed[i].id = n /\ Outbox!Active(trimmed[i])
        OBVIOUS
      <3>1. PICK k \in DOMAIN rows : rows[k].id = n /\ Outbox!Active(rows[k])
        BY DEF Whole
      <3>2. PICK i \in DOMAIN trimmed : at[i] = k
        BY <1>3, <3>1
      <3>3. trimmed[i] = rows[k]
        BY <1>3, <3>2
      <3> QED
        BY <3>1, <3>3
    <2>2. \A i, j \in DOMAIN trimmed : trimmed[i].id = trimmed[j].id => i = j
      BY <1>3 DEF Whole
    <2>3. \A i \in DOMAIN trimmed : /\ trimmed[i].state = "delivered" => trimmed[i].id \in got
                                    /\ trimmed[i].id \in got => trimmed[i].attempts > 0
      BY <1>3 DEF Whole
    <2> QED
      BY <1>2, <2>1, <2>2, <2>3 DEF Whole
  <1>5. ASSUME NEW id, Flies(rows, id) PROVE Flies(trimmed, id)
    <2>1. PICK k \in DOMAIN rows :
             rows[k].id = id /\ rows[k].state \in {"sending", "ambiguous"} /\ rows[k].attempts > 0
      BY <1>5 DEF Flies
    <2>2. PICK i \in DOMAIN trimmed : at[i] = k
      BY <1>3, <2>1 DEF Outbox!Active
    <2>3. trimmed[i] = rows[k]
      BY <1>3, <2>2
    <2> QED
      BY <2>1, <2>3 DEF Flies
  <1> QED
    BY <1>4, <1>5 DEF trimmed

LEMMA DoubtfulWhole ==
    ASSUME NEW f, f = [url |-> f.url, rows |-> f.rows], NEW due, NEW got, Whole(f.rows, due, got)
    PROVE  LET d == Outbox!Doubtful(f)
           IN  /\ d = [url |-> d.url, rows |-> d.rows]
               /\ Whole(d.rows, due, got)
               /\ \A id : Flies(f.rows, id) => Flies(d.rows, id)
  <1> DEFINE d == Outbox!Doubtful(f)
             rows == [k \in DOMAIN f.rows |->
                        IF f.rows[k].state = "sending" THEN [f.rows[k] EXCEPT !.state = "ambiguous"]
                        ELSE f.rows[k]]
  <1>1. d = [url |-> f.url, rows |-> rows]
    BY DEF Outbox!Doubtful
  <1>2. d = [url |-> d.url, rows |-> d.rows] /\ d.rows = rows
    BY <1>1
  <1>3. f.rows \in Seq(Notice)
    BY DEF Whole
  <1>4. \A k \in DOMAIN f.rows :
           /\ rows[k] \in Notice
           /\ rows[k].id = f.rows[k].id /\ rows[k].attempts = f.rows[k].attempts
           /\ rows[k].state = IF f.rows[k].state = "sending" THEN "ambiguous" ELSE f.rows[k].state
    <2> SUFFICES ASSUME NEW k \in DOMAIN f.rows
                 PROVE  /\ rows[k] \in Notice
                        /\ rows[k].id = f.rows[k].id /\ rows[k].attempts = f.rows[k].attempts
                        /\ rows[k].state = IF f.rows[k].state = "sending" THEN "ambiguous"
                                           ELSE f.rows[k].state
      OBVIOUS
    <2>1. f.rows[k] \in Notice
      BY <1>3
    <2>2. rows[k] = IF f.rows[k].state = "sending" THEN [f.rows[k] EXCEPT !.state = "ambiguous"]
                    ELSE f.rows[k]
      OBVIOUS
    <2> HIDE DEF rows
    <2> QED
      BY <2>1, <2>2 DEF Notice
  <1>5. rows \in Seq(Notice) /\ DOMAIN rows = DOMAIN f.rows
    <2>1. PICK n \in Nat : DOMAIN f.rows = 1 .. n
      BY <1>3
    <2>2. DOMAIN rows = DOMAIN f.rows /\ rows = [k \in 1 .. n |-> rows[k]]
      BY <2>1
    <2> HIDE DEF rows
    <2> QED
      BY <1>4, <2>1, <2>2
  <1> HIDE DEF rows, d
  <1>6. Whole(rows, due, got)
    BY <1>4, <1>5 DEF Whole, Outbox!Active
  <1>7. \A id : Flies(f.rows, id) => Flies(rows, id)
    BY <1>4, <1>5 DEF Flies
  <1> QED
    BY <1>2, <1>6, <1>7 DEF d

\* The state in memory says what the file says.
LEMMA MemoryStands ==
    ASSUME NoticesInv
    PROVE  /\ v1 = [url |-> v1.url, rows |-> v1.rows]
           /\ Whole(v1.rows, v6, v7)
           /\ v4 # Outbox!NoRow => Flies(v1.rows, v4.id)
  BY DoubtfulWhole DEF NoticesInv, HeldInv

LEMMA NoticesStart == Outbox!Init => NoticesInv
  <1> SUFFICES ASSUME Outbox!Init PROVE NoticesInv
    OBVIOUS
  <1>1. v1 = v2 /\ v2 = [url |-> TRUE, rows |-> <<>>] /\ v4 = Outbox!NoRow /\ v6 = {} /\ v7 = {}
    BY DEF Outbox!Init
  <1>2. v2 = [url |-> v2.url, rows |-> v2.rows] /\ v2.rows = <<>>
    BY <1>1
  <1>3. Whole(v2.rows, v6, v7)
    BY <1>1, <1>2 DEF Whole
  <1>4. HeldInv
    BY <1>1 DEF HeldInv, Outbox!NoRow
  <1> QED
    BY <1>1, <1>2, <1>3, <1>4 DEF NoticesInv

\* What a step writes is on disk, or the file stays and is read again.
LEMMA WritesStep ==
    ASSUME NEW s, s = [url |-> s.url, rows |-> s.rows], Outbox!Stored(s), Whole(s.rows, v6', v7'),
           v4' # Outbox!NoRow => Flies(s.rows, v4'.id),
           v4' = [id |-> v4'.id, live |-> v4'.live, sent |-> v4'.sent, shown |-> v4'.shown,
                  attempts |-> v4'.attempts],
           v4'.shown => v4'.id \in v7' /\ v4'.id \notin v6'
    PROVE  NoticesInv'
  <1>1. v1' = s /\ v2' = s
    BY DEF Outbox!Stored
  <1>2. HeldInv'
    BY <1>1 DEF HeldInv, Outbox!NoRow
  <1> QED
    BY <1>1, <1>2 DEF NoticesInv

LEMMA ReloadsStep ==
    ASSUME NoticesInv, Outbox!NotStored \/ UNCHANGED <<v1, v2>>, Whole(v2.rows, v6', v7'),
           v4' # Outbox!NoRow => Flies(v2.rows, v4'.id),
           v4' = [id |-> v4'.id, live |-> v4'.live, sent |-> v4'.sent, shown |-> v4'.shown,
                  attempts |-> v4'.attempts],
           v4'.shown => v4'.id \in v7' /\ v4'.id \notin v6'
    PROVE  NoticesInv'
  <1>1. v2' = v2 /\ (v1' = Outbox!Doubtful(v2) \/ v1' = v1)
    BY DEF Outbox!NotStored
  <1>2. HeldInv'
    BY <1>1 DEF HeldInv, Outbox!NoRow
  <1>3. v1' = v2' \/ v1' = Outbox!Doubtful(v2)'
    BY <1>1 DEF NoticesInv, Outbox!Doubtful
  <1> QED
    BY <1>1, <1>2, <1>3 DEF NoticesInv

\* The row of a flush that is no longer one of the state in memory.
LEMMA OrphanStep ==
    ASSUME HeldInv, Outbox!Orphaned
    PROVE  /\ v4' = [id |-> v4'.id, live |-> v4'.live, sent |-> v4'.sent, shown |-> v4'.shown,
                     attempts |-> v4'.attempts]
           /\ v4'.id = v4.id /\ v4'.shown = v4.shown
           /\ v4' # Outbox!NoRow => v4 # Outbox!NoRow
  <1>1. v4' = [id |-> v4.id, live |-> FALSE, sent |-> v4.sent, shown |-> v4.shown,
               attempts |-> v4.attempts]
    BY DEF HeldInv, Outbox!Orphaned
  <1>2. v4 = Outbox!NoRow => v4' = Outbox!NoRow
    <2> SUFFICES ASSUME v4 = Outbox!NoRow PROVE v4' = Outbox!NoRow
      OBVIOUS
    <2>1. v4' = [Outbox!NoRow EXCEPT !.live = FALSE]
      BY DEF Outbox!Orphaned
    <2> QED
      BY <2>1 DEF Outbox!NoRow
  <1>3. v4'.id = v4.id /\ v4'.live = FALSE /\ v4'.sent = v4.sent /\ v4'.shown = v4.shown
        /\ v4'.attempts = v4.attempts
    BY <1>1
  <1> QED
    BY <1>1, <1>2, <1>3

LEMMA EnqueueStep ==
    ASSUME NoticesInv, NEW n \in Notices, Outbox!EnqueueRow(n)
    PROVE  NoticesInv'
  <1> DEFINE row == [id |-> n, state |-> "queued", attempts |-> 0]
             more == Append(v1.rows, row)
             s == [url |-> v1.url, rows |-> Outbox!Trimmed(more)]
  <1>1. /\ v1 = [url |-> v1.url, rows |-> v1.rows]
        /\ Whole(v1.rows, v6, v7)
        /\ v4 # Outbox!NoRow => Flies(v1.rows, v4.id)
        /\ HeldInv
    BY MemoryStands DEF NoticesInv
  <1>2. \A k \in DOMAIN v1.rows : v1.rows[k].id # n
    BY DEF Outbox!EnqueueRow
  <1>3. CASE Outbox!NotStored /\ Outbox!Orphaned /\ UNCHANGED <<v6, v7>>
    BY <1>1, <1>3, OrphanStep, ReloadsStep DEF NoticesInv, HeldInv
  <1>4. CASE /\ Outbox!Stored([v1 EXCEPT !.rows = Outbox!Trimmed(Append(@, row))])
             /\ v6' = v6 \cup {n} /\ v7' = v7 \ {n} /\ v4' = v4
    <2>1. Outbox!Stored(s)
      BY <1>1, <1>4
    <2>2. v1.rows \in Seq(Notice) /\ row \in Notice
      BY <1>1 DEF Whole, Notice
    <2>3. /\ more \in Seq(Notice) /\ DOMAIN more = 1 .. Len(v1.rows) + 1
          /\ DOMAIN v1.rows = 1 .. Len(v1.rows) /\ Len(v1.rows) \in Nat
          /\ \A k \in DOMAIN v1.rows : more[k] = v1.rows[k]
          /\ more[Len(v1.rows) + 1] = row
      BY <2>2
    <2>4. row.id = n /\ row.state = "queued" /\ row.attempts = 0
      OBVIOUS
    <2> HIDE DEF more, row
    <2>5. Whole(more, v6', v7')
      <3>1. \A j, k \in DOMAIN more : more[j].id = more[k].id => j = k
        BY <1>1, <1>2, <2>3, <2>4 DEF Whole
      <3>2. \A m \in v6' : \E k \in DOMAIN more : more[k].id = m /\ Outbox!Active(more[k])
        <4> SUFFICES ASSUME NEW m \in v6'
                     PROVE  \E k \in DOMAIN more : more[k].id = m /\ Outbox!Active(more[k])
          OBVIOUS
        <4>1. CASE m = n
          <5>1. Len(v1.rows) + 1 \in DOMAIN more
            BY <2>3
          <5> QED
            BY <2>3, <2>4, <4>1, <5>1 DEF Outbox!Active
        <4>2. CASE m # n
          <5>1. PICK k \in DOMAIN v1.rows : v1.rows[k].id = m /\ Outbox!Active(v1.rows[k])
            BY <1>1, <1>4, <4>2 DEF Whole
          <5>2. k \in DOMAIN more /\ more[k] = v1.rows[k]
            BY <2>3
          <5> QED
            BY <5>1, <5>2
        <4> QED
          BY <4>1, <4>2
      <3>3. \A k \in DOMAIN more : /\ more[k].state = "delivered" => more[k].id \in v7'
                                   /\ more[k].id \in v7' => more[k].attempts > 0
        BY <1>1, <1>2, <1>4, <2>3, <2>4 DEF Whole
      <3> QED
        BY <2>3, <3>1, <3>2, <3>3 DEF Whole
    <2>6. v4 # Outbox!NoRow => Flies(more, v4.id) /\ v4.id # n
      <3> SUFFICES ASSUME v4 # Outbox!NoRow PROVE Flies(more, v4.id) /\ v4.id # n
        OBVIOUS
      <3>1. PICK k \in DOMAIN v1.rows : /\ v1.rows[k].id = v4.id /\ v1.rows[k].attempts > 0
                                        /\ v1.rows[k].state \in {"sending", "ambiguous"}
        BY <1>1 DEF Flies
      <3>2. k \in DOMAIN more /\ more[k] = v1.rows[k]
        BY <2>3
      <3> QED
        BY <1>2, <3>1, <3>2 DEF Flies
    <2>7. Whole(Outbox!Trimmed(more), v6', v7') /\ (v4' # Outbox!NoRow => Flies(Outbox!Trimmed(more), v4'.id))
      BY <1>4, <2>5, <2>6, TrimWhole
    <2>8. v4'.shown => v4'.id \in v7' /\ v4'.id \notin v6'
      <3>1. v4.shown => v4 # Outbox!NoRow
        BY DEF Outbox!NoRow
      <3> QED
        BY <1>1, <1>4, <2>6, <3>1 DEF HeldInv
    <2>9. s = [url |-> s.url, rows |-> s.rows] /\ s.rows = Outbox!Trimmed(more)
      OBVIOUS
    <2> HIDE DEF s
    <2> QED
      BY <1>1, <1>4, <2>1, <2>7, <2>8, <2>9, WritesStep DEF HeldInv
  <1> QED
    BY <1>3, <1>4 DEF Outbox!EnqueueRow

LEMMA ConfigureStep ==
    ASSUME NoticesInv, NEW on \in BOOLEAN, Outbox!Configure(on)
    PROVE  NoticesInv'
  <1>1. /\ v1 = [url |-> v1.url, rows |-> v1.rows]
        /\ Whole(v1.rows, v6, v7)
        /\ v4 # Outbox!NoRow => Flies(v1.rows, v4.id)
        /\ HeldInv
    BY MemoryStands DEF NoticesInv
  <1>2. UNCHANGED <<v6, v7>> /\ Outbox!Orphaned
    BY DEF Outbox!Configure
  <1>3. CASE Outbox!NotStored
    BY <1>1, <1>2, <1>3, OrphanStep, ReloadsStep DEF NoticesInv, HeldInv
  <1>4. CASE Outbox!Stored([v1 EXCEPT !.url = on])
    <2> DEFINE s == [v1 EXCEPT !.url = on]
    <2>1. s = [url |-> on, rows |-> v1.rows]
      BY <1>1
    <2>2. s = [url |-> s.url, rows |-> s.rows] /\ s.rows = v1.rows /\ Outbox!Stored(s)
      BY <1>4, <2>1
    <2> HIDE DEF s
    <2> QED
      BY <1>1, <1>2, <2>2, OrphanStep, WritesStep DEF HeldInv
  <1> QED
    BY <1>3, <1>4 DEF Outbox!Configure

\* One row is given another state, or one more attempt.
LEMMA RowSet ==
    ASSUME NEW rows, NEW k \in DOMAIN rows, NEW row \in Notice, NEW due, NEW got,
           Whole(rows, due, got), row.id = rows[k].id, row.attempts >= rows[k].attempts,
           row.id \in due => Outbox!Active(row), row.state = "delivered" => row.id \in got
    PROVE  Whole([rows EXCEPT ![k] = row], due, got)
  <1> DEFINE new == [rows EXCEPT ![k] = row]
  <1>1. rows \in Seq(Notice)
    BY DEF Whole
  <1>2. /\ new \in Seq(Notice) /\ DOMAIN new = DOMAIN rows
        /\ \A j \in DOMAIN rows : new[j] = IF j = k THEN row ELSE rows[j]
    BY <1>1
  <1> HIDE DEF new
  <1>3. \A j \in DOMAIN rows : /\ new[j].id = rows[j].id
                               /\ rows[j].attempts > 0 => new[j].attempts > 0
    <2> SUFFICES ASSUME NEW j \in DOMAIN rows
                 PROVE  new[j].id = rows[j].id /\ (rows[j].attempts > 0 => new[j].attempts > 0)
      OBVIOUS
    <2>1. rows[j] \in Notice
      BY <1>1
    <2>2. rows[j].attempts \in Nat /\ row.attempts \in Nat
      BY <2>1 DEF Notice
    <2>3. CASE j = k
      BY <1>2, <2>2, <2>3
    <2>4. CASE j # k
      BY <1>2, <2>4
    <2> QED
      BY <2>3, <2>4
  <1>4. \A n \in due : \E j \in DOMAIN new : new[j].id = n /\ Outbox!Active(new[j])
    <2> SUFFICES ASSUME NEW n \in due PROVE \E j \in DOMAIN new : new[j].id = n /\ Outbox!Active(new[j])
      OBVIOUS
    <2>1. PICK j \in DOMAIN rows : rows[j].id = n /\ Outbox!Active(rows[j])
      BY DEF Whole
    <2> QED
      BY <1>2, <2>1
  <1>5. Whole(new, due, got)
    BY <1>2, <1>3, <1>4 DEF Whole
  <1> QED
    BY <1>5 DEF new

LEMMA MarkedRow ==
    ASSUME NEW r \in Notice
    PROVE  [r EXCEPT !.state = "sending", !.attempts = @ + 1] =
             [id |-> r.id, state |-> "sending", attempts |-> r.attempts + 1]
  <1> DEFINE n == r.attempts + 1
             marked == [r EXCEPT !.state = "sending", !.attempts = n]
  <1>1. r = [id |-> r.id, state |-> r.state, attempts |-> r.attempts]
    BY DEF Notice
  <1> HIDE DEF n
  <1>2. marked = [[r EXCEPT !.state = "sending"] EXCEPT !.attempts = n]
    OBVIOUS
  <1>3. [r EXCEPT !.state = "sending"] = [id |-> r.id, state |-> "sending", attempts |-> r.attempts]
    BY <1>1
  <1> DEFINE sent == [id |-> r.id, state |-> "sending", attempts |-> r.attempts]
  <1>4. [sent EXCEPT !.attempts = n] = [id |-> r.id, state |-> "sending", attempts |-> n]
    OBVIOUS
  <1> HIDE DEF marked
  <1>5. marked = [sent EXCEPT !.attempts = n]
    BY <1>2, <1>3
  <1> QED
    BY <1>4, <1>5 DEF n, marked

LEMMA SendStep ==
    ASSUME NoticesInv, NEW k \in DOMAIN v1.rows, Outbox!Send(k)
    PROVE  NoticesInv'
  <1> DEFINE row == [v1.rows[k] EXCEPT !.state = "sending", !.attempts = @ + 1]
             new == [v1.rows EXCEPT ![k] = row]
             s == [url |-> v1.url, rows |-> new]
  <1>1. /\ v1 = [url |-> v1.url, rows |-> v1.rows]
        /\ Whole(v1.rows, v6, v7)
        /\ HeldInv /\ v4 = Outbox!NoRow /\ UNCHANGED <<v6, v7>>
        /\ v1.rows[k].state \in {"queued", "ambiguous"}
    BY MemoryStands DEF NoticesInv, Outbox!Send
  <1>2. CASE Outbox!NotStored /\ v4' = v4
    BY <1>1, <1>2, ReloadsStep DEF NoticesInv, HeldInv
  <1>3. CASE /\ Outbox!Stored([v1 EXCEPT !.rows[k] = row])
             /\ v4' = [id |-> row.id, live |-> TRUE, sent |-> v1.url, shown |-> FALSE,
                       attempts |-> row.attempts]
    <2>1. [v1 EXCEPT !.rows[k] = row] = s
      BY <1>1
    <2>2. v1.rows \in Seq(Notice) /\ v1.rows[k] \in Notice
      BY <1>1 DEF Whole
    <2>3. /\ row \in Notice /\ row.id = v1.rows[k].id /\ row.state = "sending"
          /\ row.attempts = v1.rows[k].attempts + 1 /\ v1.rows[k].attempts \in Nat
      <3>1. v1.rows[k] = [id |-> v1.rows[k].id, state |-> v1.rows[k].state,
                          attempts |-> v1.rows[k].attempts]
            /\ v1.rows[k].id \in Notices /\ v1.rows[k].attempts \in Nat
        BY <2>2 DEF Notice
      <3>2. row = [id |-> v1.rows[k].id, state |-> "sending", attempts |-> v1.rows[k].attempts + 1]
        BY <2>2, MarkedRow
      <3> HIDE DEF row
      <3> QED
        BY <3>1, <3>2 DEF Notice
    <2>4. v4'.id = row.id /\ v4'.shown = FALSE
          /\ v4' = [id |-> v4'.id, live |-> v4'.live, sent |-> v4'.sent, shown |-> v4'.shown,
                    attempts |-> v4'.attempts]
      BY <1>3
    <2>5. s = [url |-> s.url, rows |-> s.rows] /\ s.rows = new
      OBVIOUS
    <2> HIDE DEF row
    <2>6. new[k] = row /\ k \in DOMAIN new
      OBVIOUS
    <2>7. Whole(new, v6, v7)
      BY <1>1, <2>3, RowSet DEF Outbox!Active
    <2>8. Flies(new, row.id)
      BY <2>3, <2>6 DEF Flies
    <2> HIDE DEF new, s
    <2>9. Outbox!Stored(s)
      BY <1>3, <2>1
    <2> QED
      BY <1>1, <2>4, <2>5, <2>7, <2>8, <2>9, WritesStep
  <1> QED
    BY <1>2, <1>3 DEF Outbox!Send

\* What reached Discord was in flight.
LEMMA ReachesStep ==
    ASSUME NEW rows, Whole(rows, v6, v7), Flies(rows, v4.id), Outbox!Reaches
    PROVE  Whole(rows, v6', v7') /\ v4.id \in v7' /\ v4.id \notin v6'
  <1>1. v7' = v7 \cup {v4.id} /\ v6' = v6 \ {v4.id}
    BY DEF Outbox!Reaches
  <1>2. PICK j \in DOMAIN rows : rows[j].id = v4.id /\ rows[j].attempts > 0
    BY DEF Flies
  <1>3. \A k \in DOMAIN rows : rows[k].id = v4.id => k = j
    BY <1>2 DEF Whole
  <1>4. \A k \in DOMAIN rows : /\ rows[k].state = "delivered" => rows[k].id \in v7'
                               /\ rows[k].id \in v7' => rows[k].attempts > 0
    BY <1>1, <1>2, <1>3 DEF Whole
  <1>5. Whole(rows, v6', v7')
    BY <1>1, <1>4 DEF Whole
  <1> QED
    BY <1>1, <1>5

LEMMA ShownStep ==
    ASSUME NoticesInv, Outbox!Shown
    PROVE  NoticesInv'
  <1>1. v4.sent /\ v4' = [v4 EXCEPT !.shown = TRUE] /\ UNCHANGED <<v1, v2>> /\ Outbox!Reaches
    BY DEF Outbox!Shown, Outbox!Reaches
  <1>2. v4 # Outbox!NoRow
    BY <1>1 DEF Outbox!NoRow
  <1>3. Flies(v2.rows, v4.id) /\ HeldInv
    BY <1>2 DEF NoticesInv, HeldInv
  <1>4. Whole(v2.rows, v6', v7') /\ v4.id \in v7' /\ v4.id \notin v6'
    BY <1>1, <1>3, ReachesStep DEF NoticesInv
  <1>5. v4' = [id |-> v4.id, live |-> v4.live, sent |-> v4.sent, shown |-> TRUE,
               attempts |-> v4.attempts]
    BY <1>1, <1>3 DEF HeldInv
  <1>6. /\ v4'.id = v4.id
        /\ v4' = [id |-> v4'.id, live |-> v4'.live, sent |-> v4'.sent, shown |-> v4'.shown,
                  attempts |-> v4'.attempts]
    BY <1>5
  <1> QED
    BY <1>1, <1>3, <1>4, <1>6, ReloadsStep

\* The row in flight, if it is still one of the state in memory, gets the state of
\* its answer; only an answer that was none leaves it owed.
RowInState(row, s) == [id |-> row.id, state |-> s, attempts |-> row.attempts]

LEMMA RecordedIs ==
    ASSUME NEW s, NEW rows, Whole(rows, v6, v7), v1 = [url |-> v1.url, rows |-> rows],
           NEW k \in DOMAIN rows, rows[k].id = v4.id, v4.live
    PROVE  Outbox!Recorded(s) = [url |-> v1.url, rows |-> [rows EXCEPT ![k] = RowInState(rows[k], s)]]
  <1> DEFINE marked == [j \in DOMAIN rows |->
                 IF rows[j].id = v4.id THEN [rows[j] EXCEPT !.state = s] ELSE rows[j]]
  <1>1. v1.rows = rows
    OBVIOUS
  <1>2. Outbox!Recorded(s) = [v1 EXCEPT !.rows = marked]
    BY <1>1 DEF Outbox!Recorded
  <1>3. \A j \in DOMAIN rows : rows[j].id = v4.id => j = k
    BY DEF Whole
  <1>4. rows \in Seq(Notice)
    BY DEF Whole
  <1>5. rows[k] \in Notice
    BY <1>4
  <1>6. [rows[k] EXCEPT !.state = s] = RowInState(rows[k], s)
    BY <1>5 DEF Notice, RowInState
  <1>7. \A j \in DOMAIN rows : marked[j] = IF j = k THEN RowInState(rows[k], s) ELSE rows[j]
    BY <1>3, <1>6
  <1>8. rows = [j \in DOMAIN rows |-> rows[j]]
    BY <1>4
  <1>9. marked = [rows EXCEPT ![k] = RowInState(rows[k], s)]
    BY <1>7, <1>8
  <1> HIDE DEF marked
  <1> QED
    BY <1>2, <1>9

\* An answer, or the end of a request without one: what is no longer owed is
\* given up, and what is called delivered was shown.
LEMMA RecordedWhole ==
    ASSUME NoticesInv, v4 # Outbox!NoRow, NEW s \in Outbox!Outcomes,
           v6' = (IF s = "failed" /\ v4.live THEN v6 \ {v4.id} ELSE v6)
    PROVE  LET after == Outbox!Recorded(s)
           IN  after = [url |-> after.url, rows |-> after.rows] /\ Whole(after.rows, v6', v7)
  <1> DEFINE after == Outbox!Recorded(s)
  <1>1. /\ v1 = [url |-> v1.url, rows |-> v1.rows]
        /\ Whole(v1.rows, v6, v7) /\ Flies(v1.rows, v4.id)
        /\ HeldInv
    BY MemoryStands DEF NoticesInv
  <1>2. Whole(v1.rows, v6', v7)
    BY <1>1 DEF Whole
  <1>3. CASE ~v4.live
    <2>1. after = v1
      BY <1>3 DEF Outbox!Recorded
    <2> QED
      BY <1>1, <1>2, <2>1
  <1>4. CASE v4.live
    <2>1. PICK k \in DOMAIN v1.rows : v1.rows[k].id = v4.id
      BY <1>1 DEF Flies
    <2> DEFINE row == RowInState(v1.rows[k], s)
               new == [v1.rows EXCEPT ![k] = row]
    <2>2. after = [url |-> v1.url, rows |-> new]
      BY <1>1, <1>4, <2>1, RecordedIs
    <2>3. after = [url |-> after.url, rows |-> after.rows] /\ after.rows = new
      BY <2>2
    <2>4. /\ s \in {"ambiguous", "queued", "delivered", "failed"}
          /\ s = "delivered" => v4.shown
      BY DEF Outbox!Outcomes
    <2>5. v1.rows \in Seq(Notice)
      BY <1>1 DEF Whole
    <2>6. v1.rows[k] \in Notice
      BY <2>5
    <2>7. row.id = v4.id /\ row.state = s /\ row.attempts = v1.rows[k].attempts
      BY <2>1 DEF RowInState
    <2>8. row \in Notice /\ row.attempts >= v1.rows[k].attempts
      BY <2>4, <2>6 DEF Notice, RowInState
    <2>9. v4.id \in v6' => Outbox!Active(row)
      <3>1. CASE s = "failed"
        BY <1>4, <3>1
      <3>2. CASE s = "delivered"
        BY <1>1, <2>4, <3>2 DEF HeldInv
      <3>3. CASE s \in {"ambiguous", "queued"}
        BY <2>7, <3>3 DEF Outbox!Active
      <3> QED
        BY <2>4, <3>1, <3>2, <3>3
    <2>10. s = "delivered" => v4.id \in v7
      BY <1>1, <2>4 DEF HeldInv
    <2> HIDE DEF row
    <2>11. Whole(new, v6', v7)
      BY <1>2, <2>1, <2>7, <2>8, <2>9, <2>10, RowSet
    <2> QED
      BY <2>3, <2>11
  <1> QED
    BY <1>3, <1>4

LEMMA OutcomeStep ==
    ASSUME NoticesInv, Outbox!Answered
    PROVE  NoticesInv'
  <1>1. v4 # Outbox!NoRow /\ v4' = Outbox!NoRow /\ v7' = v7
    BY DEF Outbox!Answered
  <1>2. PICK s \in Outbox!Outcomes :
          /\ \/ LET after == Outbox!Recorded(s)
                IN  Outbox!Stored([after EXCEPT !.rows = Outbox!Trimmed(@)])
             \/ Outbox!NotStored
          /\ v6' = IF s = "failed" /\ v4.live THEN v6 \ {v4.id} ELSE v6
    BY DEF Outbox!Answered
  <1>3. /\ v4' = [id |-> v4'.id, live |-> v4'.live, sent |-> v4'.sent, shown |-> v4'.shown,
                  attempts |-> v4'.attempts]
        /\ ~v4'.shown
    BY <1>1 DEF Outbox!NoRow
  <1>4. CASE Outbox!NotStored
    <2>1. Whole(v2.rows, v6', v7')
      BY <1>1, <1>2 DEF NoticesInv, Whole
    <2> QED
      BY <1>1, <1>3, <1>4, <2>1, ReloadsStep
  <1>5. CASE LET after == Outbox!Recorded(s)
             IN  Outbox!Stored([after EXCEPT !.rows = Outbox!Trimmed(@)])
    <2> DEFINE after == Outbox!Recorded(s)
               new == [after EXCEPT !.rows = Outbox!Trimmed(@)]
    <2>1. after = [url |-> after.url, rows |-> after.rows] /\ Whole(after.rows, v6', v7)
      BY <1>1, <1>2, RecordedWhole
    <2> HIDE DEF after
    <2>2. new = [url |-> after.url, rows |-> Outbox!Trimmed(after.rows)]
      BY <2>1
    <2>3. new = [url |-> new.url, rows |-> new.rows] /\ new.rows = Outbox!Trimmed(after.rows)
      BY <2>2
    <2>4. Whole(new.rows, v6', v7')
      BY <1>1, <2>1, <2>3, TrimWhole
    <2>5. Outbox!Stored(new)
      BY <1>5 DEF after
    <2> HIDE DEF new
    <2> QED
      BY <1>1, <1>3, <2>3, <2>4, <2>5, WritesStep
  <1> QED
    BY <1>2, <1>4, <1>5

LEMMA OutboxRestarts ==
    ASSUME NoticesInv, Outbox!Restart
    PROVE  NoticesInv'
  <1>1. /\ v1' = Outbox!Doubtful(v2) /\ v2' = Outbox!Doubtful(v2) /\ v4' = Outbox!NoRow
        /\ Outbox!Reaches \/ UNCHANGED <<v6, v7>>
    BY DEF Outbox!Restart
  <1>2. /\ v4' = [id |-> v4'.id, live |-> v4'.live, sent |-> v4'.sent, shown |-> v4'.shown,
                  attempts |-> v4'.attempts]
        /\ ~v4'.shown
    BY <1>1 DEF Outbox!NoRow
  <1>3. Whole(v2.rows, v6', v7')
    <2>1. CASE Outbox!Reaches
      <3>1. v4 # Outbox!NoRow
        BY <2>1 DEF Outbox!Reaches, Outbox!NoRow
      <3> QED
        BY <2>1, <3>1, ReachesStep DEF NoticesInv, HeldInv
    <2>2. CASE UNCHANGED <<v6, v7>>
      BY <2>2 DEF NoticesInv
    <2> QED
      BY <1>1, <2>1, <2>2
  <1> DEFINE d == Outbox!Doubtful(v2)
  <1>4. d = [url |-> d.url, rows |-> d.rows] /\ Whole(d.rows, v6', v7')
    BY <1>3, DoubtfulWhole DEF NoticesInv
  <1>5. HeldInv'
    BY <1>1, <1>2 DEF HeldInv, Outbox!NoRow
  <1> HIDE DEF d
  <1>6. v1' = d /\ v2' = d
    BY <1>1 DEF d
  <1> QED
    BY <1>4, <1>5, <1>6 DEF NoticesInv

LEMMA NoticesStay == NoticesInv /\ UNCHANGED <<v1, v2, v4, v6, v7>> => NoticesInv'
  BY DEF NoticesInv, HeldInv, Outbox!Doubtful, Outbox!NoRow

LEMMA NoticesKept == NoticesInv /\ Outbox!Next => NoticesInv'
  BY EnqueueStep, ConfigureStep, SendStep, ShownStep, OutcomeStep, OutboxRestarts DEF Outbox!Next

LEMMA NoticesAreOnFile == NoticesInv => Outbox!NoticesAreKept
  BY DEF NoticesInv, Whole, Outbox!NoticesAreKept, Outbox!RowsOf

-----------------------------------------------------------------------------
(* HostedCheckout: v1 now, v2 rows, v3 intents, v4 claims, v5 session,       *)
(* v6 direct, v7 applied, v8 terminal, v9 role, v10 cancelled, v11 req,      *)
(* v12 hook, v13 dreq.                                                       *)

RowFields == {"owner", "stage", "until", "quoted", "mixed", "url", "sub", "why"}

\* The rows by themselves: an owner has one that is active, and a mixed checkout
\* whose row is not adopted has no subscription on it.
RowsInv(R) ==
    /\ \E X : R \in Seq(X)
    /\ \A k \in DOMAIN R : DOMAIN R[k] = RowFields
    /\ \A k \in DOMAIN R, a \in Launches : R[k].owner = Checkout!Bundle(a) => R[k].sub = Checkout!NoSub
    /\ \A j, k \in Checkout!Active(R) : R[j].owner = R[k].owner => j = k
    /\ Cardinality(Checkout!Active(R)) <= Ceiling

\* A row that holds the place of a mixed checkout.
Holds(r) == r.stage = "ordered" /\ r.mixed = TRUE

\* What a step may do to a row whose attempt is not in X.
Follows(r, s, X) ==
    /\ r.stage = "deleted" => s.stage = "deleted"
    /\ \A c : r.owner = Checkout!Of(c) => s.owner = Checkout!Of(c)
    /\ \A a \in Launches : s.owner = Checkout!Bundle(a) => r.owner = Checkout!Bundle(a)
    /\ \A a \in Launches \ X : s.owner = Checkout!Bundle(a) /\ Holds(r) => Holds(s)

Continues(R, S, X) ==
    /\ DOMAIN R \subseteq DOMAIN S
    /\ \A k \in DOMAIN R : Follows(R[k], S[k], X)

LEMMA ContinuesTwice ==
    ASSUME NEW R, NEW S, NEW T, Continues(R, S, {}), Continues(S, T, {})
    PROVE  Continues(R, T, {})
  BY DEF Continues, Follows

LEMMA CheckoutCounts == \A S : Checkout!Cardinality(S) = Cardinality(S)
  BY Zenon DEF Checkout!Cardinality, Cardinality

LEMMA RowsAre ==
    ASSUME NEW R, RowsInv(R)
    PROVE  /\ Len(R) \in Nat /\ DOMAIN R = 1 .. Len(R) /\ R = [k \in 1 .. Len(R) |-> R[k]]
           /\ IsFiniteSet(Checkout!Active(R)) /\ Checkout!Active(R) \subseteq DOMAIN R
  <1>1. PICK X : R \in Seq(X)
    BY DEF RowsInv
  <1>2. Len(R) \in Nat /\ DOMAIN R = 1 .. Len(R) /\ R = [k \in 1 .. Len(R) |-> R[k]]
    BY <1>1
  <1>3. Checkout!Active(R) \subseteq 1 .. Len(R)
    BY <1>2 DEF Checkout!Active
  <1>4. IsFiniteSet(1 .. Len(R))
    BY <1>2, FS_Interval
  <1> QED
    BY <1>2, <1>3, <1>4, FS_Subset

\* Rows are changed in place, and none becomes active or another's.
LEMMA RowsTouched ==
    ASSUME NEW R, RowsInv(R), NEW S, S = [k \in DOMAIN R |-> S[k]], NEW X,
           \A k \in DOMAIN R :
             /\ DOMAIN S[k] = RowFields /\ S[k].owner = R[k].owner
             /\ R[k].stage = "deleted" => S[k].stage = "deleted"
             /\ \A a \in Launches : S[k].owner = Checkout!Bundle(a) =>
                  S[k].sub = Checkout!NoSub /\ (a \notin X /\ Holds(R[k]) => Holds(S[k]))
    PROVE  RowsInv(S) /\ Continues(R, S, X)
  <1>1. Len(R) \in Nat /\ DOMAIN R = 1 .. Len(R)
    BY RowsAre
  <1>2. S \in Seq({S[k] : k \in DOMAIN R})
    BY <1>1
  <1>3. Checkout!Active(S) \subseteq Checkout!Active(R)
    BY DEF Checkout!Active
  <1>4. Cardinality(Checkout!Active(S)) <= Cardinality(Checkout!Active(R))
        /\ Cardinality(Checkout!Active(S)) \in Nat /\ Cardinality(Checkout!Active(R)) \in Nat
    BY <1>3, RowsAre, FS_Subset, FS_CardinalityType
  <1>5. Ceiling \in Nat
    BY CheckoutAssumption
  <1>6. Cardinality(Checkout!Active(S)) <= Ceiling
    BY <1>4, <1>5 DEF RowsInv
  <1>7. \A j, k \in Checkout!Active(S) : S[j].owner = S[k].owner => j = k
    BY <1>3, RowsAre DEF RowsInv
  <1>8. RowsInv(S)
    BY <1>2, <1>6, <1>7 DEF RowsInv
  <1>9. Continues(R, S, X)
    BY DEF Continues, Follows
  <1> QED
    BY <1>8, <1>9

\* One row is changed in place.
LEMMA RowTouched ==
    ASSUME NEW R, RowsInv(R), NEW k \in DOMAIN R, NEW r, NEW X, DOMAIN r = RowFields,
           r.owner = R[k].owner, R[k].stage = "deleted" => r.stage = "deleted",
           \A a \in Launches : R[k].owner = Checkout!Bundle(a) =>
             r.sub = Checkout!NoSub /\ (a \notin X /\ Holds(R[k]) => Holds(r))
    PROVE  RowsInv([R EXCEPT ![k] = r]) /\ Continues(R, [R EXCEPT ![k] = r], X)
  <1> DEFINE S == [R EXCEPT ![k] = r]
  <1>1. S = [j \in DOMAIN R |-> S[j]]
    BY RowsAre
  <1>2. \A j \in DOMAIN R : S[j] = IF j = k THEN r ELSE R[j]
    BY RowsAre
  <1> HIDE DEF S
  <1>3. \A j \in DOMAIN R : \A a \in Launches :
          R[j].owner = Checkout!Bundle(a) => R[j].sub = Checkout!NoSub
    BY DEF RowsInv
  <1>4. \A j \in DOMAIN R :
             /\ DOMAIN S[j] = RowFields /\ S[j].owner = R[j].owner
             /\ R[j].stage = "deleted" => S[j].stage = "deleted"
             /\ \A a \in Launches : S[j].owner = Checkout!Bundle(a) =>
                  S[j].sub = Checkout!NoSub /\ (a \notin X /\ Holds(R[j]) => Holds(S[j]))
    BY <1>2, <1>3 DEF RowsInv
  <1>5. RowsInv(S) /\ Continues(R, S, X)
    BY <1>1, <1>4, RowsTouched
  <1> QED
    BY <1>5 DEF S

LEMMA RowsSame ==
    ASSUME NEW R, NEW X, RowsInv(R)
    PROVE  Continues(R, R, X)
  BY DEF Continues, Follows

\* A row is added: it is not active, or its owner has none and the budget covers it.
LEMMA RowAdded ==
    ASSUME NEW R, RowsInv(R), NEW r, DOMAIN r = RowFields,
           \A a \in Launches : r.owner = Checkout!Bundle(a) => r.sub = Checkout!NoSub,
           \/ r.stage = "deleted"
           \/ Cardinality(Checkout!Active(R)) < Ceiling /\ Checkout!ActiveOf(R, r.owner) = {}
    PROVE  /\ RowsInv(Append(R, r)) /\ Continues(R, Append(R, r), {})
           /\ Len(R) + 1 \in DOMAIN Append(R, r) /\ Append(R, r)[Len(R) + 1] = r
  <1> DEFINE n == Len(R) + 1
             S == Append(R, r)
  <1>1. PICK X : R \in Seq(X)
    BY DEF RowsInv
  <1>2. R \in Seq(X \cup {r})
    BY <1>1
  <1>3. /\ S \in Seq(X \cup {r}) /\ DOMAIN S = 1 .. n /\ n \in Nat /\ DOMAIN R = 1 .. n - 1
        /\ S[n] = r /\ n \in DOMAIN S /\ n \notin DOMAIN R /\ DOMAIN S = DOMAIN R \cup {n}
        /\ \A k \in DOMAIN R : S[k] = R[k] /\ k \in DOMAIN S
    BY <1>2
  <1> HIDE DEF n, S
  <1>4. \A k \in DOMAIN S : k \in DOMAIN R \/ k = n
    BY <1>3
  <1>5. Checkout!Active(S) = Checkout!Active(R) \cup (IF r.stage = "deleted" THEN {} ELSE {n})
    BY <1>3, <1>4 DEF Checkout!Active
  <1>6. IsFiniteSet(Checkout!Active(R)) /\ n \notin Checkout!Active(R) /\ Ceiling \in Nat
    BY <1>3, RowsAre, CheckoutAssumption
  <1>7. Cardinality(Checkout!Active(S)) <= Ceiling
    <2>1. CASE r.stage = "deleted"
      BY <1>5, <2>1 DEF RowsInv
    <2>2. CASE r.stage # "deleted"
      <3>1. Cardinality(Checkout!Active(S)) = Cardinality(Checkout!Active(R)) + 1
        BY <1>5, <1>6, <2>2, FS_AddElement
      <3>2. Cardinality(Checkout!Active(R)) \in Nat
        BY <1>6, FS_CardinalityType
      <3> QED
        BY <1>6, <2>2, <3>1, <3>2
    <2> QED
      BY <2>1, <2>2
  <1>8. \A j, k \in Checkout!Active(S) : S[j].owner = S[k].owner => j = k
    <2>1. \A k \in Checkout!Active(R) : S[k].owner = R[k].owner /\ k \in DOMAIN R
      BY <1>3, RowsAre
    <2>2. r.stage # "deleted" => \A k \in Checkout!Active(R) : R[k].owner # r.owner
      BY DEF Checkout!ActiveOf
    <2>3. \A j, k \in Checkout!Active(R) : R[j].owner = R[k].owner => j = k
      BY DEF RowsInv
    <2> QED
      BY <1>3, <1>5, <2>1, <2>2, <2>3
  <1>9. \A k \in DOMAIN S : DOMAIN S[k] = RowFields
    BY <1>3, <1>4 DEF RowsInv
  <1>10. \A k \in DOMAIN S, a \in Launches : S[k].owner = Checkout!Bundle(a) => S[k].sub = Checkout!NoSub
    BY <1>3, <1>4 DEF RowsInv
  <1>11. RowsInv(S)
    BY <1>3, <1>7, <1>8, <1>9, <1>10 DEF RowsInv
  <1>12. Continues(R, S, {})
    BY <1>3 DEF Continues, Follows
  <1> QED
    BY <1>3, <1>11, <1>12 DEF n, S

\* A row that was of an attempt becomes its payer's, who has none.
LEMMA RowAdopted ==
    ASSUME NEW R, RowsInv(R), NEW k \in DOMAIN R, NEW r, NEW a, NEW c, DOMAIN r = RowFields,
           R[k].owner = Checkout!Bundle(a), R[k].stage # "deleted", r.owner = Checkout!Of(c),
           r.stage = "deleted" \/ Checkout!ActiveOf(R, Checkout!Of(c)) = {}
    PROVE  RowsInv([R EXCEPT ![k] = r]) /\ Continues(R, [R EXCEPT ![k] = r], {})
  <1> DEFINE S == [R EXCEPT ![k] = r]
  <1>1. S = [j \in DOMAIN R |-> S[j]] /\ DOMAIN S = DOMAIN R
    BY RowsAre
  <1>2. \A j \in DOMAIN R : S[j] = IF j = k THEN r ELSE R[j]
    BY RowsAre
  <1> HIDE DEF S
  <1>3. Len(R) \in Nat /\ DOMAIN R = 1 .. Len(R)
    BY RowsAre
  <1>4. S \in Seq({S[j] : j \in DOMAIN R})
    BY <1>1, <1>3
  <1>5. k \in Checkout!Active(R) /\ Checkout!Active(S) \subseteq Checkout!Active(R)
    BY <1>1, <1>2 DEF Checkout!Active
  <1>6. Cardinality(Checkout!Active(S)) <= Cardinality(Checkout!Active(R))
        /\ Cardinality(Checkout!Active(S)) \in Nat /\ Cardinality(Checkout!Active(R)) \in Nat
    BY <1>5, RowsAre, FS_Subset, FS_CardinalityType
  <1>7. Cardinality(Checkout!Active(S)) <= Ceiling
    BY <1>6, CheckoutAssumption DEF RowsInv
  <1>8. \A i, j \in Checkout!Active(S) : S[i].owner = S[j].owner => i = j
    <2>1. \A j \in Checkout!Active(S) : j # k => S[j].owner = R[j].owner
      BY <1>2, <1>5, RowsAre
    <2>2. k \in Checkout!Active(S) => \A j \in Checkout!Active(S) : j # k => S[j].owner # Checkout!Of(c)
      BY <1>2, <1>5, <2>1 DEF Checkout!Active, Checkout!ActiveOf
    <2>3. S[k].owner = Checkout!Of(c)
      BY <1>2
    <2> QED
      BY <1>5, <2>1, <2>2, <2>3 DEF RowsInv
  <1>9. \A b \in Launches : Checkout!Of(c) # Checkout!Bundle(b)
    BY DEF Checkout!Of, Checkout!Bundle
  <1>10. \A j \in DOMAIN S : /\ DOMAIN S[j] = RowFields
                             /\ \A b \in Launches : S[j].owner = Checkout!Bundle(b) => S[j].sub = Checkout!NoSub
    BY <1>1, <1>2, <1>9 DEF RowsInv
  <1>11. RowsInv(S)
    BY <1>4, <1>7, <1>8, <1>10 DEF RowsInv
  <1>12. \A d : R[k].owner # Checkout!Of(d)
    BY DEF Checkout!Of, Checkout!Bundle
  <1>13. Continues(R, S, {})
    BY <1>1, <1>2, <1>9, <1>12 DEF Continues, Follows
  <1> QED
    BY <1>11, <1>13 DEF S

LEMMA RowClosed ==
    ASSUME NEW r, DOMAIN r = RowFields
    PROVE  LET s == [r EXCEPT !.stage = "deleted", !.until = 0]
           IN  /\ DOMAIN s = RowFields /\ s.stage = "deleted" /\ s.owner = r.owner
               /\ s.sub = r.sub /\ s.mixed = r.mixed
  BY DEF RowFields

LEMMA RowExpired ==
    ASSUME NEW r, DOMAIN r = RowFields
    PROVE  LET s == [r EXCEPT !.stage = "deleted", !.until = 0, !.why = "expired"]
           IN  /\ DOMAIN s = RowFields /\ s.stage = "deleted" /\ s.owner = r.owner
               /\ s.sub = r.sub /\ s.mixed = r.mixed
  BY DEF RowFields

LEMMA RowOwned ==
    ASSUME NEW r, NEW o, NEW b, DOMAIN r = RowFields
    PROVE  LET s == [r EXCEPT !.owner = o, !.sub = b]
           IN  DOMAIN s = RowFields /\ s.stage = r.stage /\ s.owner = o /\ s.sub = b
  BY DEF RowFields

LEMMA RowSubscribed ==
    ASSUME NEW r, NEW b, DOMAIN r = RowFields
    PROVE  LET s == [r EXCEPT !.sub = b, !.until = 0]
           IN  DOMAIN s = RowFields /\ s.stage = r.stage /\ s.owner = r.owner
  BY DEF RowFields

LEMMA NewRow ==
    ASSUME NEW o, NEW t
    PROVE  LET s == Checkout!Row(o, t)
           IN  DOMAIN s = RowFields /\ s.owner = o /\ s.stage = "ordered" /\ s.sub = Checkout!NoSub
  BY DEF Checkout!Row, RowFields

LEMMA NewHalfRow ==
    ASSUME NEW o
    PROVE  LET s == Checkout!HalfRow(o)
           IN  DOMAIN s = RowFields /\ s.owner = o /\ s.stage = "ordered" /\ s.sub = Checkout!NoSub
  <1>1. DOMAIN Checkout!Row(o, 0) = RowFields
    BY NewRow
  <1> QED
    BY <1>1, NewRow DEF Checkout!HalfRow, RowFields

LEMMA NewRefusedRow ==
    ASSUME NEW o, NEW b
    PROVE  LET s == [Checkout!HalfRow(o) EXCEPT !.stage = "deleted", !.sub = b, !.why = "unreserved"]
           IN  DOMAIN s = RowFields /\ s.owner = o /\ s.stage = "deleted"
  BY NewHalfRow DEF RowFields

\* Owners are not mistaken for each other.
LEMMA OwnersDiffer ==
    /\ \A c, a : Checkout!Of(c) # Checkout!Bundle(a)
    /\ \A a, b : Checkout!Bundle(a) = Checkout!Bundle(b) => a = b
  BY DEF Checkout!Of, Checkout!Bundle

LEMMA SweptRows ==
    ASSUME NEW R, RowsInv(R), NEW t
    PROVE  RowsInv(Checkout!Swept(R, t)) /\ Continues(R, Checkout!Swept(R, t), {})
  <1> DEFINE S == Checkout!Swept(R, t)
  <1>1. S = [k \in DOMAIN R |-> S[k]]
    BY DEF Checkout!Swept
  <1>2. ASSUME NEW k \in DOMAIN R
        PROVE  /\ DOMAIN S[k] = RowFields /\ S[k].owner = R[k].owner
               /\ R[k].stage = "deleted" => S[k].stage = "deleted"
               /\ \A a \in Launches : S[k].owner = Checkout!Bundle(a) =>
                    S[k].sub = Checkout!NoSub /\ (a \notin {} /\ Holds(R[k]) => Holds(S[k]))
    <2>1. DOMAIN R[k] = RowFields /\ \A a \in Launches : R[k].owner = Checkout!Bundle(a) => R[k].sub = Checkout!NoSub
      BY DEF RowsInv
    <2>2. S[k] = IF Checkout!Overdue(R[k], t) THEN [R[k] EXCEPT !.stage = "deleted", !.until = 0] ELSE R[k]
      BY DEF Checkout!Swept
    <2> HIDE DEF S
    <2>3. CASE Checkout!Overdue(R[k], t)
      <3>1. ~Holds(R[k])
        BY <2>3 DEF Checkout!Overdue, Holds
      <3>2. DOMAIN S[k] = RowFields /\ S[k].owner = R[k].owner /\ S[k].stage = "deleted" /\ S[k].sub = R[k].sub
        BY <2>1, <2>2, <2>3, RowClosed
      <3> QED
        BY <2>1, <3>1, <3>2
    <2>4. CASE ~Checkout!Overdue(R[k], t)
      BY <2>1, <2>2, <2>4
    <2> QED
      BY <2>3, <2>4
  <1> HIDE DEF S
  <1>3. RowsInv(S) /\ Continues(R, S, {})
    BY <1>1, <1>2, RowsTouched
  <1> QED
    BY <1>3 DEF S

LEMMA BoundRow ==
    ASSUME NEW R, RowsInv(R), NEW k \in DOMAIN R
    PROVE  LET S == Checkout!Bound(R, k)
           IN  /\ RowsInv(S) /\ Continues(R, S, {}) /\ DOMAIN S = DOMAIN R
               /\ S[k].mixed = TRUE /\ S[k].stage = R[k].stage /\ S[k].owner = R[k].owner
  <1> DEFINE r == [R[k] EXCEPT !.mixed = TRUE]
  <1>1. DOMAIN R[k] = RowFields /\ \A a \in Launches : R[k].owner = Checkout!Bundle(a) => R[k].sub = Checkout!NoSub
    BY DEF RowsInv
  <1>2. DOMAIN r = RowFields /\ r.owner = R[k].owner /\ r.stage = R[k].stage /\ r.sub = R[k].sub /\ r.mixed = TRUE
    BY <1>1 DEF RowFields
  <1>3. Checkout!Bound(R, k) = [R EXCEPT ![k] = r]
    BY DEF Checkout!Bound
  <1>4. [R EXCEPT ![k] = r][k] = r /\ DOMAIN [R EXCEPT ![k] = r] = DOMAIN R
    BY RowsAre
  <1> HIDE DEF r
  <1>5. RowsInv([R EXCEPT ![k] = r]) /\ Continues(R, [R EXCEPT ![k] = r], {})
    BY <1>1, <1>2, RowTouched DEF Holds
  <1> QED
    BY <1>2, <1>3, <1>4, <1>5

\* A row of a customer is closed, given its link or its subscription, or served.
LEMMA CustomerRow ==
    ASSUME NEW R, RowsInv(R), NEW k \in DOMAIN R, NEW c, R[k].owner = Checkout!Of(c), NEW r,
           DOMAIN r = RowFields, r.owner = R[k].owner, R[k].stage = "deleted" => r.stage = "deleted"
    PROVE  RowsInv([R EXCEPT ![k] = r]) /\ Continues(R, [R EXCEPT ![k] = r], {})
  BY RowTouched, OwnersDiffer

LEMMA ReconciledRows ==
    ASSUME RowsInv(v2), NEW c, NEW b, Checkout!Reconciles(v2, c, b)
    PROVE  RowsInv(v2') /\ Continues(v2, v2', {})
  <1>1. CASE v2' = v2
    BY <1>1, RowsSame
  <1>2. ASSUME NEW k \in Checkout!ActiveOf(v2, Checkout!Of(c)), v2' = [v2 EXCEPT ![k].sub = b, ![k].until = 0]
        PROVE  RowsInv(v2') /\ Continues(v2, v2', {})
    <2> DEFINE r == [v2[k] EXCEPT !.sub = b, !.until = 0]
    <2>1. k \in DOMAIN v2 /\ v2[k].owner = Checkout!Of(c)
      BY RowsAre DEF Checkout!ActiveOf
    <2>2. DOMAIN v2[k] = RowFields
      BY <2>1 DEF RowsInv
    <2>3. DOMAIN r = RowFields /\ r.stage = v2[k].stage /\ r.owner = v2[k].owner
      BY <2>2, RowSubscribed
    <2>4. v2' = [v2 EXCEPT ![k] = r]
      BY <1>2, <2>1, RowsAre
    <2> HIDE DEF r
    <2> QED
      BY <2>1, <2>3, <2>4, CustomerRow
  <1>3. CASE v2' = Append(v2, [Checkout!HalfRow(Checkout!Of(c)) EXCEPT !.stage = "deleted", !.sub = b,
                                                                       !.why = "unreserved"])
    <2> DEFINE r == [Checkout!HalfRow(Checkout!Of(c)) EXCEPT !.stage = "deleted", !.sub = b, !.why = "unreserved"]
    <2>1. DOMAIN r = RowFields /\ r.owner = Checkout!Of(c) /\ r.stage = "deleted"
      BY NewRefusedRow
    <2>2. v2' = Append(v2, r)
      BY <1>3
    <2>3. \A a \in Launches : r.owner # Checkout!Bundle(a)
      BY <2>1, OwnersDiffer
    <2> HIDE DEF r
    <2>4. RowsInv(Append(v2, r)) /\ Continues(v2, Append(v2, r), {})
      BY <2>1, <2>3, RowAdded
    <2> QED
      BY <2>2, <2>4
  <1> QED
    BY <1>1, <1>2, <1>3 DEF Checkout!Reconciles

\* Who may reserve gets a row of his own within the budget.
LEMMA ReservedRow ==
    ASSUME RowsInv(v2), NEW o, Checkout!CanReserve(o), Checkout!Affordable(v2), NEW r,
           (\E t : r = Checkout!Row(o, t)) \/ r = Checkout!HalfRow(o)
    PROVE  /\ RowsInv(Append(v2, r)) /\ Continues(v2, Append(v2, r), {})
           /\ Len(v2) + 1 \in DOMAIN Append(v2, r) /\ Append(v2, r)[Len(v2) + 1] = r
           /\ r.owner = o /\ r.stage = "ordered"
  <1>1. DOMAIN r = RowFields /\ r.owner = o /\ r.stage = "ordered" /\ r.sub = Checkout!NoSub
    BY NewRow, NewHalfRow
  <1>2. Cardinality(Checkout!Active(v2)) < Ceiling /\ Checkout!ActiveOf(v2, o) = {}
    BY CheckoutCounts DEF Checkout!CanReserve, Checkout!Affordable
  <1> QED
    BY <1>1, <1>2, RowAdded

\* The reservation of a paid attempt becomes its payer's.
LEMMA AdoptedRows ==
    ASSUME RowsInv(v2), NEW a \in Launches, NEW k \in DOMAIN v2, Checkout!Adoptable(a, k)
    PROVE  LET S == Checkout!Adopted(a, k)
           IN  /\ RowsInv(S) /\ Continues(v2, S, {}) /\ DOMAIN S = DOMAIN v2
               /\ S[k].owner = Checkout!Of(Payer[a])
  <1> DEFINE r == [v2[k] EXCEPT !.owner = Checkout!Of(Payer[a]), !.sub = <<"mixed", a>>]
  <1>1. DOMAIN v2[k] = RowFields /\ v2[k].owner = Checkout!Bundle(a) /\ v2[k].stage = "ordered"
        /\ Checkout!ActiveOf(v2, Checkout!Of(Payer[a])) = {}
    BY DEF RowsInv, Checkout!Adoptable
  <1>2. DOMAIN r = RowFields /\ r.stage = "ordered" /\ r.owner = Checkout!Of(Payer[a])
    BY <1>1, RowOwned
  <1>3. Checkout!Adopted(a, k) = [v2 EXCEPT ![k] = r]
    BY RowsAre DEF Checkout!Adopted
  <1>4. [v2 EXCEPT ![k] = r][k] = r /\ DOMAIN [v2 EXCEPT ![k] = r] = DOMAIN v2
    BY RowsAre
  <1> HIDE DEF r
  <1>5. RowsInv([v2 EXCEPT ![k] = r]) /\ Continues(v2, [v2 EXCEPT ![k] = r], {})
    BY <1>1, <1>2, RowAdopted
  <1> QED
    BY <1>2, <1>3, <1>4, <1>5

\* A customer's row is closed.
LEMMA ClosedRows ==
    ASSUME NEW R, RowsInv(R), NEW k \in DOMAIN R, NEW c, R[k].owner = Checkout!Of(c)
    PROVE  LET S == [R EXCEPT ![k].stage = "deleted", ![k].until = 0]
           IN  RowsInv(S) /\ Continues(R, S, {})
  <1> DEFINE r == [R[k] EXCEPT !.stage = "deleted", !.until = 0]
  <1>1. DOMAIN R[k] = RowFields
    BY DEF RowsInv
  <1>2. DOMAIN r = RowFields /\ r.stage = "deleted" /\ r.owner = R[k].owner
    BY <1>1, RowClosed
  <1>3. [R EXCEPT ![k].stage = "deleted", ![k].until = 0] = [R EXCEPT ![k] = r]
    BY RowsAre
  <1> HIDE DEF r
  <1>4. RowsInv([R EXCEPT ![k] = r]) /\ Continues(R, [R EXCEPT ![k] = r], {})
    BY <1>2, CustomerRow
  <1> QED
    BY <1>3, <1>4

\* What is known of an attempt: its intent, the request and the webhook in flight,
\* the row it holds while its session may be paid, and the claim of its licence.
IntentFields == {"is", "res", "until", "sess", "url", "sealed"}
IntentIs(i) == DOMAIN i = IntentFields /\ i.is
SameIntent(i, j) == IntentIs(i) /\ i.res = j.res

IntentInv(a) ==
    /\ v3[a].is => IntentIs(v3[a]) /\ v3[a].res \in DOMAIN v2
    /\ v5[a] # "none" => v3[a].is
    /\ v5[a] \in {"none", "open", "paid", "expired"}
    /\ <<"mixed", a>> \in v7 => v5[a] = "paid"

RequestInv(a) ==
    /\ v11[a].pc \in {"prove", "quote"} => ~v3[a].is
    /\ v11[a].pc = "post" => v3[a].is /\ SameIntent(v11[a].intent, v3[a]) /\ ~v11[a].intent.sealed

HookInv(a) ==
    /\ v12[a].pc \in {"paid", "software"} => v5[a] = "paid"
    /\ v12[a].pc = "paid" => v3[a].is /\ SameIntent(v12[a].intent, v3[a]) /\ ~v12[a].intent.sealed
    /\ v12[a].pc = "expiry" => v5[a] = "expired" /\ v3[a].is /\ SameIntent(v12[a].intent, v3[a])

\* A session that may be paid, or may yet be opened, is of a row that is held.
MayBePaid(a) == v5[a] \in {"open", "paid"} \/ (v5[a] = "none" /\ v11[a].pc = "post")
PlaceInv(a) == MayBePaid(a) /\ v2[v3[a].res].owner = Checkout!Bundle(a) => Holds(v2[v3[a].res])

SealInv(a) == Checkout!Sealed(a) => v5[a] = "expired" /\ v2[v3[a].res].stage = "deleted"

Needs(a) == Checkout!Unsettled(a) \/ (v5[a] = "none" /\ v11[a] # Checkout!Idle)
ClaimOf(a) == [is |-> TRUE, id |-> a]
ClaimInv(a) == Lic[a] # NoLicence /\ Needs(a) => v4[Lic[a]] = ClaimOf(a)

AttemptInv(a) == IntentInv(a) /\ RequestInv(a) /\ HookInv(a) /\ PlaceInv(a) /\ SealInv(a) /\ ClaimInv(a)

CheckoutShapes ==
    /\ v3 = [a \in Launches |-> v3[a]]
    /\ v4 = [l \in Licences |-> v4[l]]
    /\ v5 = [a \in Launches |-> v5[a]]
    /\ v11 = [a \in Launches |-> v11[a]]
    /\ v12 = [a \in Launches |-> v12[a]]
    /\ v13 = [d \in Directs |-> v13[d]]

\* A customer's own checkout waits for Stripe about a row of a customer.
DirectInv(d) ==
    v13[d].pc = "post" => v13[d].row \in DOMAIN v2 /\ \E c : v2[v13[d].row].owner = Checkout!Of(c)

CheckoutInv ==
    /\ RowsInv(v2) /\ CheckoutShapes
    /\ \A a \in Launches : AttemptInv(a)
    /\ \A d \in Directs : DirectInv(d)

LEMMA CheckoutBegins == Checkout!Init => CheckoutInv
  <1> SUFFICES ASSUME Checkout!Init PROVE CheckoutInv
    OBVIOUS
  <1>1. RowsInv(v2)
    <2>1. v2 = <<>> /\ Checkout!Active(v2) = {}
      BY DEF Checkout!Init, Checkout!Active
    <2>2. Cardinality(Checkout!Active(v2)) = 0
      BY <2>1, FS_EmptySet
    <2>3. v2 \in Seq({})
      BY <2>1
    <2> QED
      BY <2>1, <2>2, <2>3, CheckoutAssumption DEF RowsInv
  <1>2. CheckoutShapes
    BY DEF Checkout!Init, CheckoutShapes
  <1>3. ASSUME NEW a \in Launches PROVE AttemptInv(a)
    BY DEF Checkout!Init, AttemptInv, IntentInv, RequestInv, HookInv, PlaceInv, MayBePaid, SealInv,
       ClaimInv, Needs, Checkout!Unsettled, Checkout!Sealed, Checkout!NoIntent, Checkout!Idle
  <1>4. ASSUME NEW d \in Directs PROVE DirectInv(d)
    BY DEF Checkout!Init, DirectInv, Checkout!Idle
  <1> QED
    BY <1>1, <1>2, <1>3, <1>4 DEF CheckoutInv

\* An attempt that is not the step's own keeps what is known of it.
LEMMA AttemptStays ==
    ASSUME NEW X, Continues(v2, v2', X), NEW a \in Launches, AttemptInv(a), a \in X => v5[a] = "expired",
           v3'[a] = v3[a], v5'[a] = v5[a], v11'[a] = v11[a] \/ v11'[a] = Checkout!Idle,
           v12'[a] = v12[a] \/ v12'[a] = Checkout!Idle,
           <<"mixed", a>> \in v7' <=> <<"mixed", a>> \in v7,
           Lic[a] # NoLicence /\ Needs(a) /\ v4[Lic[a]] = ClaimOf(a) => v4'[Lic[a]] = ClaimOf(a)
    PROVE  AttemptInv(a)'
  <1>1. IntentInv(a)'
    BY DEF AttemptInv, IntentInv, Continues
  <1>2. RequestInv(a)'
    BY DEF AttemptInv, RequestInv, Checkout!Idle
  <1>3. HookInv(a)'
    BY DEF AttemptInv, HookInv, Checkout!Idle
  <1>4. v3[a].is => /\ v3[a].res \in DOMAIN v2
                    /\ Follows(v2[v3[a].res], v2'[v3[a].res], X)
    BY DEF AttemptInv, IntentInv, Continues
  <1>5. MayBePaid(a)' => MayBePaid(a) /\ a \notin X /\ v3[a].is
    BY DEF MayBePaid, Checkout!Idle, AttemptInv, IntentInv, RequestInv
  <1>6. PlaceInv(a)'
    BY <1>4, <1>5 DEF AttemptInv, PlaceInv, Follows
  <1>7. Checkout!Sealed(a)' => Checkout!Sealed(a)
    BY DEF Checkout!Sealed
  <1>8. SealInv(a)'
    BY <1>4, <1>7 DEF AttemptInv, SealInv, Checkout!Sealed, Follows
  <1>9. Needs(a)' => Needs(a)
    BY DEF Needs, Checkout!Unsettled
  <1>10. ClaimInv(a)'
    BY <1>9 DEF AttemptInv, ClaimInv, ClaimOf
  <1> QED
    BY <1>1, <1>2, <1>3, <1>6, <1>8, <1>10 DEF AttemptInv

\* A customer's own request that is not the step's own.
LEMMA DirectStays ==
    ASSUME NEW X, Continues(v2, v2', X), NEW d \in Directs, DirectInv(d),
           v13'[d] = v13[d] \/ v13'[d] = Checkout!Idle
    PROVE  DirectInv(d)'
  BY DEF DirectInv, Continues, Follows, Checkout!Idle

\* A step that leaves every attempt alone.
LEMMA RowsStep ==
    ASSUME CheckoutInv, RowsInv(v2'), Continues(v2, v2', {}), UNCHANGED <<v3, v4, v5, v11, v12>>,
           \A a \in Launches : <<"mixed", a>> \in v7' <=> <<"mixed", a>> \in v7,
           v13' = [d \in Directs |-> v13'[d]], \A d \in Directs : DirectInv(d)'
    PROVE  CheckoutInv'
  <1>1. ASSUME NEW a \in Launches PROVE AttemptInv(a)'
    <2>1. v3'[a] = v3[a] /\ v5'[a] = v5[a] /\ v11'[a] = v11[a] /\ v12'[a] = v12[a] /\ v4' = v4 /\ a \notin {}
      OBVIOUS
    <2>2. AttemptInv(a)
      BY DEF CheckoutInv
    <2>3. Lic[a] # NoLicence /\ Needs(a) /\ v4[Lic[a]] = ClaimOf(a) => v4'[Lic[a]] = ClaimOf(a)
      BY <2>1
    <2> QED
      BY <2>1, <2>2, <2>3, AttemptStays
  <1>2. CheckoutShapes'
    BY DEF CheckoutInv, CheckoutShapes
  <1> QED
    BY <1>1, <1>2 DEF CheckoutInv

LEMMA QuietStep ==
    ASSUME CheckoutInv, RowsInv(v2'), Continues(v2, v2', {}), UNCHANGED <<v3, v4, v5, v11, v12, v13>>,
           \A a \in Launches : <<"mixed", a>> \in v7' <=> <<"mixed", a>> \in v7
    PROVE  CheckoutInv'
  <1>1. \A d \in Directs : DirectInv(d)'
    BY DirectStays DEF CheckoutInv
  <1> QED
    BY <1>1, RowsStep DEF CheckoutInv, CheckoutShapes

LEMMA TickStep ==
    ASSUME CheckoutInv, Checkout!Tick
    PROVE  CheckoutInv'
  BY SweptRows, QuietStep DEF Checkout!Tick, Checkout!books, CheckoutInv

LEMMA DerivesStep ==
    ASSUME CheckoutInv, NEW c, Checkout!Derives(c)
    PROVE  CheckoutInv'
  BY ReconciledRows, QuietStep DEF Checkout!Derives, CheckoutInv

LEMMA DirectPaidStep ==
    ASSUME CheckoutInv, NEW k, Checkout!DirectPaid(k)
    PROVE  CheckoutInv'
  <1>1. v7' = v7 \cup {<<"direct", k>>} /\ UNCHANGED <<v3, v4, v5, v11, v12, v13>>
        /\ Checkout!Reconciles(v2, v2[k].owner[2], <<"direct", k>>)
    BY DEF Checkout!DirectPaid
  <1>2. \A a \in Launches : <<"mixed", a>> \in v7' <=> <<"mixed", a>> \in v7
    BY <1>1
  <1>3. RowsInv(v2') /\ Continues(v2, v2', {})
    BY <1>1, ReconciledRows DEF CheckoutInv
  <1> QED
    BY <1>1, <1>2, <1>3, QuietStep

\* A row is served, or a served one deleted: it has its subscription.
LEMMA ServedStep ==
    ASSUME CheckoutInv, NEW k, Checkout!Served(k) \/ Checkout!Deleted(k)
    PROVE  CheckoutInv'
  <1>1. PICK to \in {"served", "deleted"} :
          /\ v2' = [v2 EXCEPT ![k].stage = to] /\ k \in DOMAIN v2
          /\ \/ v2[k].stage = "ordered" /\ v2[k].sub # Checkout!NoSub
             \/ v2[k].stage = "served"
    BY DEF Checkout!Served, Checkout!Deleted
  <1>2. UNCHANGED <<v3, v4, v5, v7, v11, v12, v13>>
    BY DEF Checkout!Served, Checkout!Deleted, Checkout!books
  <1> DEFINE r == [v2[k] EXCEPT !.stage = to]
  <1>3. /\ RowsInv(v2) /\ DOMAIN v2[k] = RowFields
        /\ \A a \in Launches : v2[k].owner = Checkout!Bundle(a) => v2[k].sub = Checkout!NoSub
    BY <1>1 DEF CheckoutInv, RowsInv
  <1>4. DOMAIN r = RowFields /\ r.owner = v2[k].owner /\ r.sub = v2[k].sub
    BY <1>3 DEF RowFields
  <1>5. v2' = [v2 EXCEPT ![k] = r]
    BY <1>1
  <1>6. v2[k].stage # "deleted"
    BY <1>1
  <1>7. \A a \in Launches : v2[k].owner = Checkout!Bundle(a) => ~Holds(v2[k])
    BY <1>1, <1>3 DEF Holds
  <1> HIDE DEF r
  <1>8. \A a \in Launches : v2[k].owner = Checkout!Bundle(a) =>
          r.sub = Checkout!NoSub /\ (a \notin {} /\ Holds(v2[k]) => Holds(r))
    BY <1>3, <1>4, <1>7
  <1>9. RowsInv([v2 EXCEPT ![k] = r]) /\ Continues(v2, [v2 EXCEPT ![k] = r], {})
    BY <1>1, <1>3, <1>4, <1>6, <1>8, RowTouched
  <1> QED
    BY <1>2, <1>5, <1>9, QuietStep

LEMMA ClockStep ==
    ASSUME CheckoutInv, UNCHANGED <<v2, v3, v4, v5, v7, v11, v12, v13>>
    PROVE  CheckoutInv'
  BY QuietStep, RowsSame DEF CheckoutInv

\* A step in which the process dies, whatever row it leaves behind.
LEMMA DiedStep ==
    ASSUME CheckoutInv, RowsInv(v2'), Continues(v2, v2', {}), UNCHANGED <<v3, v4, v5, v7>>, Checkout!Died
    PROVE  CheckoutInv'
  <1>1. v11' = [a \in Launches |-> Checkout!Idle] /\ v12' = [a \in Launches |-> Checkout!Idle]
        /\ v13' = [d \in Directs |-> Checkout!Idle]
    BY DEF Checkout!Died
  <1>2. ASSUME NEW a \in Launches PROVE AttemptInv(a)'
    <2>1. v3'[a] = v3[a] /\ v5'[a] = v5[a] /\ v11'[a] = Checkout!Idle /\ v12'[a] = Checkout!Idle /\ v4' = v4
          /\ a \notin {} /\ (<<"mixed", a>> \in v7' <=> <<"mixed", a>> \in v7)
      BY <1>1
    <2>2. AttemptInv(a)
      BY DEF CheckoutInv
    <2>3. Lic[a] # NoLicence /\ Needs(a) /\ v4[Lic[a]] = ClaimOf(a) => v4'[Lic[a]] = ClaimOf(a)
      BY <2>1
    <2> QED
      BY <2>1, <2>2, <2>3, AttemptStays
  <1>3. CheckoutShapes'
    BY <1>1 DEF CheckoutInv, CheckoutShapes
  <1>4. \A d \in Directs : DirectInv(d)'
    BY <1>1 DEF DirectInv, Checkout!Idle
  <1> QED
    BY <1>2, <1>3, <1>4 DEF CheckoutInv

LEMMA CrashStep ==
    ASSUME CheckoutInv, Checkout!Crash
    PROVE  CheckoutInv'
  <1>1. Checkout!Died /\ UNCHANGED <<v2, v3, v4, v5, v7>>
    BY DEF Checkout!Crash, Checkout!files, Checkout!books
  <1>2. RowsInv(v2') /\ Continues(v2, v2', {})
    BY <1>1, RowsSame DEF CheckoutInv
  <1> QED
    BY <1>1, <1>2, DiedStep

\* A request of a customer's own checkout moves.
LEMMA DirectMoves ==
    ASSUME CheckoutInv, RowsInv(v2'), Continues(v2, v2', {}), UNCHANGED <<v3, v4, v5, v7, v11, v12>>,
           NEW d \in Directs, NEW x, v13' = [v13 EXCEPT ![d] = x],
           x.pc = "post" => x.row \in DOMAIN v2' /\ \E c : v2'[x.row].owner = Checkout!Of(c)
    PROVE  CheckoutInv'
  <1>1. v13 = [e \in Directs |-> v13[e]]
    BY DEF CheckoutInv, CheckoutShapes
  <1>2. v13'[d] = x /\ v13' = [e \in Directs |-> v13'[e]] /\ \A e \in Directs \ {d} : v13'[e] = v13[e]
    BY <1>1
  <1>3. DirectInv(d)'
    BY <1>2 DEF DirectInv
  <1>4. ASSUME NEW e \in Directs \ {d} PROVE DirectInv(e)'
    BY <1>2, DirectStays DEF CheckoutInv
  <1>5. \A e \in Directs : DirectInv(e)'
    BY <1>3, <1>4
  <1> QED
    BY <1>2, <1>5, RowsStep

LEMMA DirectBeginsStep ==
    ASSUME CheckoutInv, NEW d \in Directs, NEW c, Checkout!DirectBegins(d, c)
    PROVE  CheckoutInv'
  <1>1. UNCHANGED <<v2, v3, v4, v5, v7, v11, v12>>
    BY DEF Checkout!DirectBegins, Checkout!files, Checkout!books
  <1>2. RowsInv(v2') /\ Continues(v2, v2', {})
    BY <1>1, RowsSame DEF CheckoutInv
  <1>3. CASE v13' = [v13 EXCEPT ![d] = [pc |-> "price", cust |-> c, at |-> v1]]
    BY <1>1, <1>2, <1>3, DirectMoves
  <1>4. ASSUME NEW k \in Checkout!ActiveOf(v2, Checkout!Of(c)),
               v13' = [v13 EXCEPT ![d] = [pc |-> "post", row |-> k, until |-> v2[k].until]]
        PROVE  CheckoutInv'
    <2>1. k \in DOMAIN v2 /\ v2[k].owner = Checkout!Of(c)
      BY RowsAre DEF Checkout!ActiveOf, CheckoutInv
    <2> QED
      BY <1>1, <1>2, <1>4, <2>1, DirectMoves
  <1> QED
    BY <1>3, <1>4 DEF Checkout!DirectBegins

LEMMA DirectReservesStep ==
    ASSUME CheckoutInv, NEW d \in Directs, Checkout!DirectReserves(d)
    PROVE  CheckoutInv'
  <1> DEFINE o == Checkout!Of(v13[d].cust)
             t == v13[d].at + Hold
             k == Len(v2) + 1
  <1>1. /\ Checkout!Affordable(v2) /\ Checkout!CanReserve(o) /\ UNCHANGED <<v3, v4, v5, v7>>
        /\ \/ /\ v2' = Append(v2, Checkout!Row(o, t))
              /\ v13' = [v13 EXCEPT ![d] = [pc |-> "post", row |-> k, until |-> t]]
              /\ UNCHANGED <<v11, v12>>
           \/ Checkout!Died /\ v2' \in {Append(v2, Checkout!HalfRow(o)), Append(v2, Checkout!Row(o, t))}
    BY DEF Checkout!DirectReserves, Checkout!books
  <1>2. RowsInv(v2)
    BY DEF CheckoutInv
  <1> HIDE DEF o, t
  <1>3. PICK r : v2' = Append(v2, r) /\ ((\E u : r = Checkout!Row(o, u)) \/ r = Checkout!HalfRow(o))
    BY <1>1
  <1>4. RowsInv(v2') /\ Continues(v2, v2', {}) /\ k \in DOMAIN v2' /\ v2'[k] = r /\ r.owner = o
    BY <1>1, <1>2, <1>3, ReservedRow
  <1>5. \E c : v2'[k].owner = Checkout!Of(c)
    BY <1>4 DEF o
  <1> HIDE DEF k
  <1>6. CASE UNCHANGED <<v11, v12>> /\ v13' = [v13 EXCEPT ![d] = [pc |-> "post", row |-> k, until |-> t]]
    BY <1>1, <1>4, <1>5, <1>6, DirectMoves
  <1>7. CASE Checkout!Died
    BY <1>1, <1>4, <1>7, DiedStep
  <1> QED
    BY <1>1, <1>6, <1>7

LEMMA DirectGivesUpStep ==
    ASSUME CheckoutInv, NEW d \in Directs, Checkout!DirectGivesUp(d)
    PROVE  CheckoutInv'
  <1>1. UNCHANGED <<v2, v3, v4, v5, v7, v11, v12>> /\ v13' = [v13 EXCEPT ![d] = Checkout!Idle]
    BY DEF Checkout!DirectGivesUp, Checkout!files, Checkout!books
  <1>2. RowsInv(v2') /\ Continues(v2, v2', {})
    BY <1>1, RowsSame DEF CheckoutInv
  <1>3. Checkout!Idle.pc # "post"
    BY DEF Checkout!Idle
  <1> QED
    BY <1>1, <1>2, <1>3, DirectMoves

LEMMA DirectStripeStep ==
    ASSUME CheckoutInv, NEW d, NEW k, Checkout!DirectOpened(d) \/ Checkout!DirectTurns(k)
    PROVE  CheckoutInv'
  BY ClockStep DEF Checkout!DirectOpened, Checkout!DirectTurns, Checkout!files, Checkout!books

LEMMA DirectAnsweredStep ==
    ASSUME CheckoutInv, NEW d \in Directs, Checkout!DirectAnswered(d)
    PROVE  CheckoutInv'
  <1> DEFINE k == v13[d].row
  <1>1. /\ UNCHANGED <<v3, v4, v5, v7, v11, v12>> /\ v13' = [v13 EXCEPT ![d] = Checkout!Idle]
        /\ \/ v2' = v2
           \/ v2' = [v2 EXCEPT ![k].url = TRUE]
           \/ v2' = [v2 EXCEPT ![k].stage = "deleted", ![k].until = 0]
    BY DEF Checkout!DirectAnswered, Checkout!books
  <1>2. RowsInv(v2) /\ DirectInv(d) /\ v13[d].pc = "post"
    BY DEF CheckoutInv, Checkout!DirectAnswered
  <1>3. k \in DOMAIN v2 /\ \E c : v2[k].owner = Checkout!Of(c)
    BY <1>2 DEF DirectInv
  <1>4. DOMAIN v2[k] = RowFields
    BY <1>2, <1>3 DEF RowsInv
  <1> HIDE DEF k
  <1>5. ASSUME v2' = [v2 EXCEPT ![k].url = TRUE]
        PROVE  RowsInv(v2') /\ Continues(v2, v2', {})
    <2> DEFINE r == [v2[k] EXCEPT !.url = TRUE]
    <2>1. DOMAIN r = RowFields /\ r.owner = v2[k].owner /\ r.stage = v2[k].stage
      BY <1>4 DEF RowFields
    <2>2. v2' = [v2 EXCEPT ![k] = r]
      BY <1>5
    <2> HIDE DEF r
    <2> QED
      BY <1>2, <1>3, <2>1, <2>2, CustomerRow
  <1>6. ASSUME v2' = [v2 EXCEPT ![k].stage = "deleted", ![k].until = 0]
        PROVE  RowsInv(v2') /\ Continues(v2, v2', {})
    <2>1. PICK c : v2[k].owner = Checkout!Of(c)
      BY <1>3
    <2> DEFINE S == [v2 EXCEPT ![k].stage = "deleted", ![k].until = 0]
    <2>2. RowsInv(S) /\ Continues(v2, S, {})
      BY <1>2, <1>3, <2>1, ClosedRows
    <2> QED
      BY <1>6, <2>2
  <1>7. v2' = v2 => Continues(v2, v2', {}) /\ RowsInv(v2')
    BY <1>2, RowsSame
  <1>8. RowsInv(v2') /\ Continues(v2, v2', {})
    BY <1>1, <1>5, <1>6, <1>7, Zenon
  <1>9. Checkout!Idle.pc # "post"
    BY DEF Checkout!Idle
  <1> QED
    BY <1>1, <1>8, <1>9, DirectMoves

\* A step of attempt a: the others keep what they have, or lose their request.
Alone(a) ==
    /\ CheckoutShapes'
    /\ \A b \in Launches \ {a} :
         /\ v3'[b] = v3[b] /\ v5'[b] = v5[b]
         /\ v11'[b] = v11[b] \/ v11'[b] = Checkout!Idle
         /\ v12'[b] = v12[b] \/ v12'[b] = Checkout!Idle
         /\ <<"mixed", b>> \in v7' <=> <<"mixed", b>> \in v7
         /\ Lic[b] # NoLicence /\ Needs(b) /\ v4[Lic[b]] = ClaimOf(b) => v4'[Lic[b]] = ClaimOf(b)
    /\ \A d \in Directs : v13'[d] = v13[d] \/ v13'[d] = Checkout!Idle

LEMMA OneStep ==
    ASSUME CheckoutInv, NEW a \in Launches, NEW X \in SUBSET {a}, RowsInv(v2'), Continues(v2, v2', X),
           Alone(a), AttemptInv(a)'
    PROVE  CheckoutInv'
  <1>1. ASSUME NEW b \in Launches \ {a} PROVE AttemptInv(b)'
    <2>1. b \notin X /\ AttemptInv(b)
      BY DEF CheckoutInv
    <2>2. /\ v3'[b] = v3[b] /\ v5'[b] = v5[b]
          /\ v11'[b] = v11[b] \/ v11'[b] = Checkout!Idle
          /\ v12'[b] = v12[b] \/ v12'[b] = Checkout!Idle
          /\ <<"mixed", b>> \in v7' <=> <<"mixed", b>> \in v7
          /\ Lic[b] # NoLicence /\ Needs(b) /\ v4[Lic[b]] = ClaimOf(b) => v4'[Lic[b]] = ClaimOf(b)
      BY DEF Alone
    <2> QED
      BY <2>1, <2>2, AttemptStays
  <1>2. \A d \in Directs : DirectInv(d)'
    BY DirectStays DEF CheckoutInv, Alone
  <1> QED
    BY <1>1, <1>2 DEF CheckoutInv, Alone

\* The shape of the steps that leave claims and payments alone.
LEMMA AloneStep ==
    ASSUME CheckoutInv, NEW a \in Launches, v4' = v4, v7' = v7,
           NEW i, v3' = v3 \/ v3' = [v3 EXCEPT ![a] = i],
           NEW s, v5' = v5 \/ v5' = [v5 EXCEPT ![a] = s],
           NEW q, v11' = v11 \/ v11' = [v11 EXCEPT ![a] = q] \/ v11' = [b \in Launches |-> Checkout!Idle],
           NEW h, v12' = v12 \/ v12' = [v12 EXCEPT ![a] = h] \/ v12' = [b \in Launches |-> Checkout!Idle],
           v13' = v13 \/ v13' = [d \in Directs |-> Checkout!Idle]
    PROVE  Alone(a)
  <1>1. CheckoutShapes
    BY DEF CheckoutInv
  <1>2. CheckoutShapes'
    BY <1>1 DEF CheckoutShapes
  <1>3. \A b \in Launches \ {a} :
         /\ v3'[b] = v3[b] /\ v5'[b] = v5[b]
         /\ v11'[b] = v11[b] \/ v11'[b] = Checkout!Idle
         /\ v12'[b] = v12[b] \/ v12'[b] = Checkout!Idle
    BY <1>1 DEF CheckoutShapes
  <1>4. \A d \in Directs : v13'[d] = v13[d] \/ v13'[d] = Checkout!Idle
    OBVIOUS
  <1> QED
    BY <1>2, <1>3, <1>4 DEF Alone

\* The claim goes to the attempt that asks; who needs his keeps it.
LEMMA Claimed ==
    ASSUME CheckoutInv, NEW a \in Launches, Checkout!Claims(a)
    PROVE  /\ v4' = [l \in Licences |-> v4'[l]]
           /\ Lic[a] # NoLicence => v4'[Lic[a]] = ClaimOf(a)
           /\ \A b \in Launches \ {a} :
                Lic[b] # NoLicence /\ Needs(b) /\ v4[Lic[b]] = ClaimOf(b) => v4'[Lic[b]] = ClaimOf(b)
  <1>1. v4 = [l \in Licences |-> v4[l]] /\ Lic \in [Launches -> Licences \cup {NoLicence}]
    BY CheckoutAssumption DEF CheckoutInv, CheckoutShapes
  <1>2. ASSUME NEW b \in Launches, Needs(b) PROVE ~Checkout!Over(b)
    <2>1. IntentInv(b) /\ SealInv(b)
      BY DEF CheckoutInv, AttemptInv
    <2> QED
      BY <1>2, <2>1 DEF Needs, Checkout!Over, Checkout!Unsettled, Checkout!Sealed, IntentInv, SealInv
  <1>3. CASE Lic[a] = NoLicence
    BY <1>1, <1>3 DEF Checkout!Claims
  <1>4. CASE Lic[a] # NoLicence
    <2>1. /\ v4[Lic[a]].is => v4[Lic[a]].id = a \/ Checkout!Over(v4[Lic[a]].id)
          /\ v4' = [v4 EXCEPT ![Lic[a]] = ClaimOf(a)]
      BY <1>4 DEF Checkout!Claims, ClaimOf
    <2>2. ASSUME NEW b \in Launches \ {a}, Needs(b), v4[Lic[b]] = ClaimOf(b) PROVE Lic[b] # Lic[a]
      BY <1>2, <2>1, <2>2 DEF ClaimOf
    <2> QED
      BY <1>1, <1>4, <2>1, <2>2
  <1> QED
    BY <1>3, <1>4

LEMMA AttemptBeginsStep ==
    ASSUME CheckoutInv, NEW a \in Launches, Checkout!Begins(a)
    PROVE  CheckoutInv'
  <1>1. /\ v11[a] = Checkout!Idle /\ ~v3[a].is /\ Checkout!Claims(a)
        /\ UNCHANGED <<v2, v3, v5, v7, v12, v13>>
        /\ v11' = v11 \/ v11' = [v11 EXCEPT ![a] = [pc |-> "prove"]]
    BY DEF Checkout!Begins, Checkout!books
  <1>2. AttemptInv(a) /\ CheckoutShapes
    BY DEF CheckoutInv
  <1>3. v11'[a] = v11[a] \/ v11'[a] = [pc |-> "prove"]
    BY <1>1, <1>2 DEF CheckoutShapes
  <1>4. Alone(a)
    <2>1. CheckoutShapes'
      BY <1>1, <1>2, Claimed DEF CheckoutShapes
    <2>2. \A b \in Launches \ {a} : v11'[b] = v11[b]
      BY <1>1, <1>2 DEF CheckoutShapes
    <2> QED
      BY <1>1, <2>1, <2>2, Claimed DEF Alone
  <1>5. AttemptInv(a)'
    <2>1. v5[a] = "none"
      BY <1>1, <1>2 DEF AttemptInv, IntentInv
    <2>2. ClaimInv(a)'
      BY <1>1, Claimed DEF ClaimInv, ClaimOf
    <2>3. IntentInv(a)' /\ HookInv(a)' /\ SealInv(a)'
      BY <1>1, <1>2 DEF AttemptInv, IntentInv, HookInv, SealInv, Checkout!Sealed
    <2>4. RequestInv(a)' /\ PlaceInv(a)'
      BY <1>1, <1>3, <2>1 DEF RequestInv, PlaceInv, MayBePaid, Checkout!Idle
    <2> QED
      BY <2>2, <2>3, <2>4 DEF AttemptInv
  <1>6. RowsInv(v2') /\ Continues(v2, v2', {})
    BY <1>1, RowsSame DEF CheckoutInv
  <1> QED
    BY <1>4, <1>5, <1>6, OneStep

LEMMA RetriesStep ==
    ASSUME CheckoutInv, NEW a \in Launches, Checkout!Retries(a)
    PROVE  CheckoutInv'
  <1> DEFINE k == v3[a].res
  <1>1. /\ v11[a] = Checkout!Idle /\ v3[a].is /\ ~v3[a].sealed /\ Checkout!Claims(a)
        /\ UNCHANGED <<v3, v5, v7, v12, v13>>
        /\ \/ UNCHANGED <<v2, v11>>
           \/ /\ v2[k].stage = "ordered" /\ v2' = Checkout!Bound(v2, k)
              /\ v11' = [v11 EXCEPT ![a] = Checkout!Posting(v3[a])]
    BY DEF Checkout!Retries, Checkout!Retryable, Checkout!books
  <1>2. AttemptInv(a) /\ CheckoutShapes /\ RowsInv(v2)
    BY DEF CheckoutInv
  <1>3. v11'[a] = v11[a] \/ v11'[a] = Checkout!Posting(v3[a])
    BY <1>1, <1>2 DEF CheckoutShapes
  <1>4. Alone(a)
    <2>1. CheckoutShapes'
      BY <1>1, <1>2, Claimed DEF CheckoutShapes
    <2>2. \A b \in Launches \ {a} : v11'[b] = v11[b]
      BY <1>1, <1>2 DEF CheckoutShapes
    <2> QED
      BY <1>1, <2>1, <2>2, Claimed DEF Alone
  <1>5. k \in DOMAIN v2
    BY <1>1, <1>2 DEF AttemptInv, IntentInv
  <1> HIDE DEF k
  <1> DEFINE S == Checkout!Bound(v2, k)
  <1>6. RowsInv(S) /\ Continues(v2, S, {}) /\ S[k].mixed = TRUE /\ S[k].stage = v2[k].stage
    BY <1>2, <1>5, BoundRow
  <1>7. /\ v2' = v2 => RowsInv(v2') /\ Continues(v2, v2', {})
        /\ v11' # v11 => v2' = S /\ v2[k].stage = "ordered"
        /\ v2' = v2 \/ v2' = S
    BY <1>1, <1>2, RowsSame
  <1> HIDE DEF S
  <1>8. RowsInv(v2') /\ Continues(v2, v2', {})
    BY <1>6, <1>7
  <1>9. v11' # v11 => Holds(v2'[k])
    BY <1>6, <1>7 DEF Holds
  <1>10. AttemptInv(a)'
    <2>1. CASE v11' = v11
      <3>1. v3'[a] = v3[a] /\ v5'[a] = v5[a] /\ v11'[a] = v11[a] /\ v12'[a] = v12[a] /\ a \notin {}
            /\ (<<"mixed", a>> \in v7' <=> <<"mixed", a>> \in v7)
        BY <1>1, <2>1
      <3>2. Lic[a] # NoLicence /\ Needs(a) /\ v4[Lic[a]] = ClaimOf(a) => v4'[Lic[a]] = ClaimOf(a)
        BY <1>1, Claimed
      <3> QED
        BY <1>2, <1>8, <3>1, <3>2, AttemptStays
    <2>2. CASE v11' # v11
      <3>1. v11'[a] = Checkout!Posting(v3[a])
        BY <1>1, <1>2, <2>2 DEF CheckoutShapes
      <3>2. ClaimInv(a)'
        BY <1>1, Claimed DEF ClaimInv, ClaimOf
      <3>3. IntentInv(a)'
        BY <1>1, <1>2, <1>8 DEF AttemptInv, IntentInv, Continues
      <3>4. HookInv(a)' /\ SealInv(a)'
        BY <1>1, <1>2 DEF AttemptInv, HookInv, SealInv, Checkout!Sealed
      <3>5. RequestInv(a)'
        BY <1>1, <1>2, <3>1 DEF RequestInv, Checkout!Posting, SameIntent, AttemptInv, IntentInv
      <3>6. PlaceInv(a)'
        BY <1>1, <1>9, <2>2 DEF PlaceInv, k
      <3> QED
        BY <3>2, <3>3, <3>4, <3>5, <3>6 DEF AttemptInv
    <2> QED
      BY <2>1, <2>2
  <1> QED
    BY <1>4, <1>8, <1>10, OneStep

\* The intent is written, with its row bound or the process dead.
LEMMA IntendsStep ==
    ASSUME CheckoutInv, NEW a \in Launches, v11[a].pc \in {"prove", "quote"},
           NEW R, RowsInv(R), Continues(v2, R, {}), NEW k \in DOMAIN R, R[k].stage = "ordered",
           Checkout!Intends(a, R, k), UNCHANGED <<v4, v5, v7>>
    PROVE  CheckoutInv'
  <1> DEFINE i == [is |-> TRUE, res |-> k, until |-> R[k].until, sess |-> FALSE,
                   url |-> FALSE, sealed |-> FALSE]
             S == Checkout!Bound(R, k)
  <1>1. /\ UNCHANGED <<v4, v5, v7>>
        /\ \/ /\ v2' = S /\ v3' = [v3 EXCEPT ![a] = i] /\ v11' = [v11 EXCEPT ![a] = Checkout!Posting(i)]
              /\ v12' = v12 /\ v13' = v13
           \/ Checkout!Died /\ v2' = R /\ v3' = v3
           \/ Checkout!Died /\ v2' = R /\ v3' = [v3 EXCEPT ![a] = i]
    BY DEF Checkout!Intends
  <1>2. AttemptInv(a) /\ CheckoutShapes
    BY DEF CheckoutInv
  <1>3. ~v3[a].is /\ v5[a] = "none" /\ <<"mixed", a>> \notin v7 /\ v11[a] # Checkout!Idle
    BY <1>2 DEF AttemptInv, IntentInv, RequestInv, Checkout!Idle
  <1>4. IntentIs(i) /\ i.res = k /\ ~i.sealed
    BY DEF IntentIs, IntentFields
  <1>5. RowsInv(S) /\ Continues(R, S, {}) /\ DOMAIN S = DOMAIN R /\ S[k].mixed = TRUE /\ S[k].stage = R[k].stage
    BY BoundRow
  <1>6. Continues(v2, S, {})
    BY <1>5, ContinuesTwice
  <1> HIDE DEF i, S
  <1>7. ASSUME v2' = S, v3' = [v3 EXCEPT ![a] = i], v11' = [v11 EXCEPT ![a] = Checkout!Posting(i)],
               v12' = v12, v13' = v13
        PROVE  CheckoutInv'
    <2>1. v3'[a] = i /\ v11'[a] = Checkout!Posting(i)
      BY <1>2, <1>7 DEF CheckoutShapes
    <2>2. Alone(a)
      BY <1>1, <1>7, AloneStep
    <2>3. IntentInv(a)'
      BY <1>1, <1>3, <1>4, <1>5, <1>7, <2>1 DEF IntentInv
    <2>4. RequestInv(a)' /\ SealInv(a)'
      BY <1>4, <2>1 DEF RequestInv, SealInv, Checkout!Sealed, Checkout!Posting, SameIntent, IntentIs
    <2>5. HookInv(a)'
      BY <1>1, <1>2, <1>3, <1>7 DEF AttemptInv, HookInv
    <2>6. PlaceInv(a)'
      BY <1>4, <1>5, <1>7, <2>1 DEF PlaceInv, Holds
    <2>7. ClaimInv(a)'
      BY <1>1, <1>2, <1>3 DEF AttemptInv, ClaimInv, Needs, ClaimOf
    <2>8. AttemptInv(a)'
      BY <2>3, <2>4, <2>5, <2>6, <2>7 DEF AttemptInv
    <2> QED
      BY <1>5, <1>6, <1>7, <2>2, <2>8, OneStep
  <1>8. ASSUME Checkout!Died, v2' = R, v3' = [v3 EXCEPT ![a] = i]
        PROVE  CheckoutInv'
    <2>1. v3'[a] = i
      BY <1>2, <1>8 DEF CheckoutShapes
    <2>2. /\ v11' = [b \in Launches |-> Checkout!Idle] /\ v12' = [b \in Launches |-> Checkout!Idle]
          /\ v13' = [d \in Directs |-> Checkout!Idle]
      BY <1>8 DEF Checkout!Died
    <2>3. Alone(a)
      BY <1>1, <1>8, <2>2, AloneStep
    <2>4. v11'[a].pc = "idle" /\ v12'[a].pc = "idle" /\ v11'[a] = Checkout!Idle
      BY <2>2 DEF Checkout!Idle
    <2>5. IntentInv(a)'
      BY <1>1, <1>3, <1>4, <1>8, <2>1 DEF IntentInv
    <2>6. RequestInv(a)' /\ HookInv(a)'
      BY <2>4 DEF RequestInv, HookInv
    <2>7. PlaceInv(a)' /\ SealInv(a)' /\ ClaimInv(a)'
      BY <1>1, <1>3, <1>4, <2>1, <2>4
         DEF PlaceInv, MayBePaid, SealInv, Checkout!Sealed, ClaimInv, Needs, Checkout!Unsettled
    <2>8. AttemptInv(a)'
      BY <2>5, <2>6, <2>7 DEF AttemptInv
    <2> QED
      BY <1>8, <2>3, <2>8, OneStep
  <1>9. ASSUME Checkout!Died, v2' = R, v3' = v3
        PROVE  CheckoutInv'
    BY <1>1, <1>9, DiedStep
  <1> QED
    BY <1>1, <1>7, <1>8, <1>9

\* The own attempt keeps its intent, session and claim while its request moves.
LEMMA RequestMoves ==
    ASSUME CheckoutInv, NEW a \in Launches, RowsInv(v2'), Continues(v2, v2', {}),
           UNCHANGED <<v3, v4, v5, v7, v12, v13>>, NEW q, v11' = [v11 EXCEPT ![a] = q],
           q.pc # "post", q.pc \in {"prove", "quote"} => ~v3[a].is,
           q = Checkout!Idle \/ v11[a] # Checkout!Idle
    PROVE  CheckoutInv'
  <1>1. AttemptInv(a) /\ CheckoutShapes
    BY DEF CheckoutInv
  <1>2. v11'[a] = q
    BY <1>1 DEF CheckoutShapes
  <1>3. Alone(a)
    BY AloneStep
  <1>4. IntentInv(a)'
    BY <1>1 DEF AttemptInv, IntentInv, Continues
  <1>5. RequestInv(a)'
    BY <1>2 DEF RequestInv
  <1>6. HookInv(a)'
    BY <1>1 DEF AttemptInv, HookInv
  <1>7. MayBePaid(a)' => MayBePaid(a) /\ v3[a].is
    BY <1>1, <1>2 DEF MayBePaid, AttemptInv, IntentInv
  <1>8. v3[a].is => v3[a].res \in DOMAIN v2 /\ Follows(v2[v3[a].res], v2'[v3[a].res], {})
    BY <1>1 DEF AttemptInv, IntentInv, Continues
  <1>9. PlaceInv(a)' /\ SealInv(a)'
    BY <1>1, <1>7, <1>8 DEF AttemptInv, PlaceInv, SealInv, Checkout!Sealed, Follows
  <1>10. ClaimInv(a)'
    BY <1>1, <1>2 DEF AttemptInv, ClaimInv, Needs, Checkout!Unsettled, ClaimOf
  <1>11. AttemptInv(a)'
    BY <1>4, <1>5, <1>6, <1>9, <1>10 DEF AttemptInv
  <1> QED
    BY <1>3, <1>11, OneStep

LEMMA GivesUpStep ==
    ASSUME CheckoutInv, NEW a \in Launches, Checkout!GivesUp(a)
    PROVE  CheckoutInv'
  <1>1. UNCHANGED <<v2, v3, v4, v5, v7, v12, v13>> /\ v11' = [v11 EXCEPT ![a] = Checkout!Idle]
    BY DEF Checkout!GivesUp, Checkout!files, Checkout!books
  <1>2. RowsInv(v2') /\ Continues(v2, v2', {})
    BY <1>1, RowsSame DEF CheckoutInv
  <1>3. Checkout!Idle.pc = "idle"
    BY DEF Checkout!Idle
  <1> QED
    BY <1>1, <1>2, <1>3, RequestMoves

LEMMA PreparesStep ==
    ASSUME CheckoutInv, NEW a \in Launches, Checkout!Prepares(a)
    PROVE  CheckoutInv'
  <1> DEFINE R == Checkout!Swept(v2, v1)
  <1>1. v11[a].pc = "prove" /\ UNCHANGED <<v4, v5, v7>>
    BY DEF Checkout!Prepares, Checkout!books
  <1>2. RowsInv(R) /\ Continues(v2, R, {})
    BY SweptRows DEF CheckoutInv
  <1>3. AttemptInv(a)
    BY DEF CheckoutInv
  <1>4. ~v3[a].is /\ v11[a] # Checkout!Idle
    BY <1>1, <1>3 DEF AttemptInv, RequestInv, Checkout!Idle
  <1>5. \/ \E k \in Checkout!ActiveOf(R, Checkout!Bundle(a)) :
             R[k].stage = "ordered" /\ Checkout!Intends(a, R, k)
        \/ /\ v2' = R /\ v11' = [v11 EXCEPT ![a] = [pc |-> "quote", at |-> v1]]
           /\ UNCHANGED <<v3, v12, v13>>
        \/ /\ v2' = R /\ v11' = [v11 EXCEPT ![a] = Checkout!Idle]
           /\ UNCHANGED <<v3, v12, v13>>
    BY DEF Checkout!Prepares
  <1> HIDE DEF R
  <1>6. ASSUME NEW k \in Checkout!ActiveOf(R, Checkout!Bundle(a)), R[k].stage = "ordered", Checkout!Intends(a, R, k)
        PROVE  CheckoutInv'
    <2>1. k \in DOMAIN R
      BY <1>2, RowsAre DEF Checkout!ActiveOf
    <2> QED
      BY <1>1, <1>2, <1>6, <2>1, IntendsStep
  <1>7. ASSUME v2' = R, v11' = [v11 EXCEPT ![a] = [pc |-> "quote", at |-> v1]], UNCHANGED <<v3, v12, v13>>
        PROVE  CheckoutInv'
    <2> DEFINE q == [pc |-> "quote", at |-> v1]
    <2>1. q.pc = "quote"
      OBVIOUS
    <2> HIDE DEF q
    <2>2. v11' = [v11 EXCEPT ![a] = q]
      BY <1>7 DEF q
    <2> QED
      BY <1>1, <1>2, <1>4, <1>7, <2>1, <2>2, RequestMoves
  <1>8. ASSUME v2' = R, v11' = [v11 EXCEPT ![a] = Checkout!Idle], UNCHANGED <<v3, v12, v13>>
        PROVE  CheckoutInv'
    <2>1. Checkout!Idle.pc = "idle"
      BY DEF Checkout!Idle
    <2> QED
      BY <1>1, <1>2, <1>8, <2>1, RequestMoves
  <1> QED
    BY <1>5, <1>6, <1>7, <1>8

LEMMA ReservesStep ==
    ASSUME CheckoutInv, NEW a \in Launches, Checkout!Reserves(a)
    PROVE  CheckoutInv'
  <1> DEFINE o == Checkout!Bundle(a)
             r == Checkout!Row(o, v11[a].at + Hold)
             n == Len(v2) + 1
  <1>1. /\ v11[a].pc = "quote" /\ UNCHANGED <<v4, v5, v7>>
        /\ Checkout!Affordable(v2) /\ Checkout!CanReserve(o)
        /\ \/ Checkout!Intends(a, Append(v2, r), n)
           \/ Checkout!Died /\ v2' = Append(v2, Checkout!HalfRow(o)) /\ v3' = v3
    BY DEF Checkout!Reserves, Checkout!Admitted, Checkout!books
  <1>2. RowsInv(v2)
    BY DEF CheckoutInv
  <1>3. \E t : r = Checkout!Row(o, t)
    OBVIOUS
  <1> HIDE DEF o, r
  <1>4. /\ RowsInv(Append(v2, r)) /\ Continues(v2, Append(v2, r), {})
        /\ n \in DOMAIN Append(v2, r) /\ Append(v2, r)[n] = r /\ r.stage = "ordered"
    BY <1>1, <1>2, <1>3, ReservedRow
  <1> DEFINE h == Checkout!HalfRow(o)
  <1>5. h = Checkout!HalfRow(o)
    OBVIOUS
  <1> HIDE DEF h
  <1>6. RowsInv(Append(v2, h)) /\ Continues(v2, Append(v2, h), {})
    BY <1>1, <1>2, <1>5, ReservedRow
  <1>7. ASSUME Checkout!Died, v2' = Append(v2, h), v3' = v3
        PROVE  CheckoutInv'
    BY <1>1, <1>6, <1>7, DiedStep
  <1> DEFINE R == Append(v2, r)
  <1>8. ASSUME Checkout!Intends(a, R, n)
        PROVE  CheckoutInv'
    <2>1. RowsInv(R) /\ Continues(v2, R, {}) /\ n \in DOMAIN R /\ R[n].stage = "ordered"
      BY <1>4
    <2> HIDE DEF R, n
    <2> QED
      BY <1>1, <1>8, <2>1, IntendsStep
  <1> QED
    BY <1>1, <1>5, <1>7, <1>8

\* A session is opened, paid or expires.
LEMMA SessionStep ==
    ASSUME CheckoutInv, NEW a \in Launches,
           Checkout!Opened(a) \/ Checkout!Pays(a) \/ Checkout!Expires(a)
    PROVE  CheckoutInv'
  <1>1. /\ UNCHANGED <<v2, v3, v4, v7, v11, v12, v13>>
        /\ \E s : /\ v5' = [v5 EXCEPT ![a] = s]
                  /\ \/ s = "open" /\ v5[a] = "none" /\ v11[a].pc = "post"
                     \/ s = "paid" /\ v5[a] = "open"
                     \/ s = "expired" /\ v5[a] = "open"
    BY DEF Checkout!Opened, Checkout!Pays, Checkout!Expires, Checkout!files, Checkout!books
  <1>2. PICK s : /\ v5' = [v5 EXCEPT ![a] = s]
                 /\ \/ s = "open" /\ v5[a] = "none" /\ v11[a].pc = "post"
                    \/ s = "paid" /\ v5[a] = "open"
                    \/ s = "expired" /\ v5[a] = "open"
    BY <1>1
  <1>3. AttemptInv(a) /\ CheckoutShapes
    BY DEF CheckoutInv
  <1>4. v5'[a] = s /\ v3[a].is /\ <<"mixed", a>> \notin v7 /\ ~Checkout!Sealed(a)
    BY <1>2, <1>3 DEF CheckoutShapes, AttemptInv, IntentInv, RequestInv, SealInv
  <1>5. Alone(a)
    BY <1>1, <1>2, AloneStep
  <1>6. IntentInv(a)' /\ RequestInv(a)'
    BY <1>1, <1>2, <1>3, <1>4 DEF AttemptInv, IntentInv, RequestInv
  <1>7. HookInv(a)'
    BY <1>1, <1>2, <1>3 DEF AttemptInv, HookInv
  <1>8. PlaceInv(a)' /\ SealInv(a)'
    BY <1>1, <1>2, <1>3, <1>4 DEF AttemptInv, PlaceInv, MayBePaid, SealInv, Checkout!Sealed
  <1>9. ClaimInv(a)'
    BY <1>1, <1>2, <1>3, <1>4 DEF AttemptInv, ClaimInv, Needs, Checkout!Unsettled, ClaimOf, Checkout!Idle
  <1>10. RowsInv(v2') /\ Continues(v2, v2', {})
    BY <1>1, RowsSame DEF CheckoutInv
  <1>11. AttemptInv(a)'
    BY <1>6, <1>7, <1>8, <1>9 DEF AttemptInv
  <1> QED
    BY <1>5, <1>10, <1>11, OneStep

LEMMA AnsweredStep ==
    ASSUME CheckoutInv, NEW a \in Launches, Checkout!Answered(a)
    PROVE  CheckoutInv'
  <1> DEFINE i == [v11[a].intent EXCEPT !.sess = TRUE, !.url = TRUE]
  <1>1. /\ v11[a].pc = "post" /\ v5[a] # "none" /\ UNCHANGED <<v2, v4, v5, v7, v12, v13>>
        /\ v3' = [v3 EXCEPT ![a] = i] /\ v11' = [v11 EXCEPT ![a] = Checkout!Idle]
    BY DEF Checkout!Answered, Checkout!books
  <1>2. AttemptInv(a) /\ CheckoutShapes
    BY DEF CheckoutInv
  <1>3. /\ v3[a].is /\ SameIntent(v11[a].intent, v3[a]) /\ ~v11[a].intent.sealed
        /\ IntentIs(v3[a]) /\ v3[a].res \in DOMAIN v2
    BY <1>1, <1>2 DEF AttemptInv, IntentInv, RequestInv
  <1>4. IntentIs(i) /\ i.res = v3[a].res /\ ~i.sealed
    BY <1>3 DEF SameIntent, IntentIs, IntentFields
  <1> HIDE DEF i
  <1>5. v3'[a] = i /\ v11'[a] = Checkout!Idle /\ v11'[a].pc = "idle"
    BY <1>1, <1>2 DEF CheckoutShapes, Checkout!Idle
  <1>6. Alone(a)
    BY <1>1, AloneStep
  <1>7. IntentInv(a)'
    BY <1>1, <1>2, <1>3, <1>4, <1>5 DEF AttemptInv, IntentInv, IntentIs
  <1>8. RequestInv(a)' /\ SealInv(a)'
    BY <1>4, <1>5 DEF RequestInv, SealInv, Checkout!Sealed
  <1>9. HookInv(a)'
    BY <1>1, <1>2, <1>3, <1>4, <1>5 DEF AttemptInv, HookInv, SameIntent, IntentIs
  <1>10. PlaceInv(a)' /\ ClaimInv(a)'
    BY <1>1, <1>2, <1>4, <1>5
       DEF AttemptInv, PlaceInv, MayBePaid, ClaimInv, Needs, Checkout!Unsettled, ClaimOf
  <1>11. RowsInv(v2') /\ Continues(v2, v2', {})
    BY <1>1, RowsSame DEF CheckoutInv
  <1>12. AttemptInv(a)'
    BY <1>7, <1>8, <1>9, <1>10 DEF AttemptInv
  <1> QED
    BY <1>6, <1>11, <1>12, OneStep

\* The webhook moves; the own attempt's intent keeps its row.
LEMMA HookMoves ==
    ASSUME CheckoutInv, NEW a \in Launches, RowsInv(v2'), Continues(v2, v2', {}),
           UNCHANGED <<v4, v5, v7, v11, v13>>, NEW i, v3' = v3 \/ v3' = [v3 EXCEPT ![a] = i],
           NEW h, v12' = [v12 EXCEPT ![a] = h],
           h.pc \in {"paid", "software"} => v5[a] = "paid",
           h.pc = "paid" => v3[a].is /\ SameIntent(h.intent, v3[a]) /\ ~h.intent.sealed,
           h.pc = "expiry" => v5[a] = "expired" /\ v3[a].is /\ SameIntent(h.intent, v3[a]),
           v3' # v3 => v3[a].is /\ SameIntent(i, v3[a]) /\ ~i.sealed
    PROVE  CheckoutInv'
  <1>1. AttemptInv(a) /\ CheckoutShapes
    BY DEF CheckoutInv
  <1>2. v12'[a] = h
    BY <1>1 DEF CheckoutShapes
  <1>3. v3'[a] = v3[a] \/ (v3[a].is /\ v3'[a] = i /\ SameIntent(i, v3[a]) /\ ~i.sealed)
    BY <1>1 DEF CheckoutShapes
  <1>4. v3'[a].is <=> v3[a].is
    BY <1>3 DEF SameIntent, IntentIs
  <1>5. v3[a].is => IntentIs(v3'[a]) /\ v3'[a].res = v3[a].res
    BY <1>1, <1>3 DEF AttemptInv, IntentInv, SameIntent
  <1>6. Alone(a)
    BY AloneStep
  <1>7. IntentInv(a)'
    BY <1>1, <1>4, <1>5 DEF AttemptInv, IntentInv, Continues
  <1>8. RequestInv(a)'
    BY <1>1, <1>4, <1>5 DEF AttemptInv, RequestInv, SameIntent, IntentIs
  <1>9. HookInv(a)'
    BY <1>1, <1>2, <1>4, <1>5 DEF HookInv, SameIntent, IntentIs
  <1>10. v3[a].is => v3[a].res \in DOMAIN v2 /\ Follows(v2[v3[a].res], v2'[v3[a].res], {})
    BY <1>1 DEF AttemptInv, IntentInv, Continues
  <1>11. MayBePaid(a)' => MayBePaid(a) /\ v3[a].is
    BY <1>1 DEF MayBePaid, AttemptInv, IntentInv, RequestInv
  <1>12. PlaceInv(a)'
    BY <1>1, <1>5, <1>10, <1>11 DEF AttemptInv, PlaceInv, Follows
  <1>13. SealInv(a)'
    BY <1>1, <1>3, <1>4, <1>5, <1>10 DEF AttemptInv, SealInv, Checkout!Sealed, Follows
  <1>14. ClaimInv(a)'
    BY <1>1 DEF AttemptInv, ClaimInv, Needs, Checkout!Unsettled, ClaimOf
  <1>15. AttemptInv(a)'
    BY <1>7, <1>8, <1>9, <1>12, <1>13, <1>14 DEF AttemptInv
  <1> QED
    BY <1>6, <1>15, OneStep

LEMMA HookFailsStep ==
    ASSUME CheckoutInv, NEW a \in Launches, Checkout!HookFails(a)
    PROVE  CheckoutInv'
  <1>1. UNCHANGED <<v2, v3, v4, v5, v7, v11, v13>> /\ v12' = [v12 EXCEPT ![a] = Checkout!Idle]
    BY DEF Checkout!HookFails, Checkout!files, Checkout!books
  <1>2. RowsInv(v2') /\ Continues(v2, v2', {})
    BY <1>1, RowsSame DEF CheckoutInv
  <1>3. Checkout!Idle.pc = "idle"
    BY DEF Checkout!Idle
  <1> QED
    BY <1>1, <1>2, <1>3, HookMoves

\* A webhook of a paid or an expired session starts with the intent it reads.
LEMMA HookBeginsStep ==
    ASSUME CheckoutInv, NEW a \in Launches, Checkout!PaidBegins(a) \/ Checkout!ExpiryBegins(a)
    PROVE  CheckoutInv'
  <1> DEFINE H(p) == [pc |-> p, intent |-> v3[a]]
  <1>1. /\ UNCHANGED <<v2, v3, v4, v5, v7, v11, v13>> /\ v3[a].is
        /\ \/ v12' = [v12 EXCEPT ![a] = H("paid")] /\ v5[a] = "paid" /\ ~Checkout!Sealed(a)
           \/ v12' = [v12 EXCEPT ![a] = H("expiry")] /\ v5[a] = "expired"
    BY DEF Checkout!PaidBegins, Checkout!ExpiryBegins, Checkout!files, Checkout!books
  <1>2. \A p : H(p).pc = p /\ H(p).intent = v3[a]
    OBVIOUS
  <1> HIDE DEF H
  <1>3. PICK h : /\ v12' = [v12 EXCEPT ![a] = h] /\ h.intent = v3[a]
                 /\ \/ h.pc = "paid" /\ v5[a] = "paid" /\ ~Checkout!Sealed(a)
                    \/ h.pc = "expiry" /\ v5[a] = "expired"
    BY <1>1, <1>2
  <1>4. SameIntent(v3[a], v3[a]) /\ (h.pc = "paid" => ~v3[a].sealed)
    BY <1>1, <1>3 DEF CheckoutInv, AttemptInv, IntentInv, SameIntent, Checkout!Sealed
  <1>5. RowsInv(v2') /\ Continues(v2, v2', {})
    BY <1>1, RowsSame DEF CheckoutInv
  <1>6. /\ h.pc \in {"paid", "software"} => v5[a] = "paid"
        /\ h.pc = "paid" => v3[a].is /\ SameIntent(h.intent, v3[a]) /\ ~h.intent.sealed
        /\ h.pc = "expiry" => v5[a] = "expired" /\ v3[a].is /\ SameIntent(h.intent, v3[a])
    BY <1>1, <1>3, <1>4
  <1> QED
    BY <1>1, <1>3, <1>5, <1>6, HookMoves

\* The reservation is adopted, or already was: the rows go on.
LEMMA AcceptsRows ==
    ASSUME RowsInv(v2), NEW a \in Launches, NEW k \in DOMAIN v2, Checkout!Accepts(a, k)
    PROVE  RowsInv(v2') /\ Continues(v2, v2', {})
  <1>1. CASE v2' = v2
    BY <1>1, RowsSame
  <1>2. CASE Checkout!Adoptable(a, k) /\ v2' = Checkout!Adopted(a, k)
    BY <1>2, AdoptedRows
  <1> QED
    BY <1>1, <1>2 DEF Checkout!Accepts

LEMMA PaidAcceptedStep ==
    ASSUME CheckoutInv, NEW a \in Launches, Checkout!PaidAccepted(a)
    PROVE  CheckoutInv'
  <1> DEFINE i == [v12[a].intent EXCEPT !.sess = TRUE]
             k == v3[a].res
  <1>1. /\ v12[a].pc = "paid" /\ UNCHANGED <<v4, v5, v7, v11, v13>>
        /\ v3' = v3 \/ v3' = [v3 EXCEPT ![a] = i]
        /\ \/ Checkout!Accepts(a, k) /\ v12' = [v12 EXCEPT ![a] = [pc |-> "software"]]
           \/ v2' = v2 /\ v12' = [v12 EXCEPT ![a] = Checkout!Idle]
    BY DEF Checkout!PaidAccepted, Checkout!books
  <1>2. AttemptInv(a) /\ RowsInv(v2)
    BY DEF CheckoutInv
  <1>3. v5[a] = "paid" /\ v3[a].is /\ SameIntent(v12[a].intent, v3[a]) /\ ~v12[a].intent.sealed
        /\ IntentIs(v3[a]) /\ k \in DOMAIN v2
    BY <1>1, <1>2 DEF AttemptInv, IntentInv, HookInv
  <1>4. SameIntent(i, v3[a]) /\ ~i.sealed
    BY <1>3 DEF SameIntent, IntentIs, IntentFields
  <1> HIDE DEF i, k
  <1>5. RowsInv(v2') /\ Continues(v2, v2', {})
    <2>1. CASE v2' = v2
      BY <1>2, <2>1, RowsSame
    <2>2. CASE Checkout!Accepts(a, k)
      BY <1>2, <1>3, <2>2, AcceptsRows
    <2> QED
      BY <1>1, <2>1, <2>2
  <1>6. PICK h : v12' = [v12 EXCEPT ![a] = h] /\ (h.pc = "software" \/ h.pc = "idle")
    <2>1. [pc |-> "software"].pc = "software" /\ Checkout!Idle.pc = "idle"
      BY DEF Checkout!Idle
    <2> QED
      BY <1>1, <2>1, Zenon
  <1>7. /\ h.pc \in {"paid", "software"} => v5[a] = "paid"
        /\ h.pc = "paid" => v3[a].is /\ SameIntent(h.intent, v3[a]) /\ ~h.intent.sealed
        /\ h.pc = "expiry" => v5[a] = "expired" /\ v3[a].is /\ SameIntent(h.intent, v3[a])
        /\ v3' # v3 => v3[a].is /\ SameIntent(i, v3[a]) /\ ~i.sealed
    BY <1>3, <1>4, <1>6
  <1> QED
    BY <1>1, <1>5, <1>6, <1>7, HookMoves

LEMMA PaidAppliedStep ==
    ASSUME CheckoutInv, NEW a \in Launches, Checkout!PaidApplied(a)
    PROVE  CheckoutInv'
  <1>1. /\ v12[a].pc = "software" /\ v12' = [v12 EXCEPT ![a] = Checkout!Idle]
        /\ v7' = v7 \cup {<<"mixed", a>>} /\ UNCHANGED <<v3, v4, v5, v11, v13>>
        /\ Checkout!Reconciles(v2, Payer[a], <<"mixed", a>>)
    BY DEF Checkout!PaidApplied
  <1>2. AttemptInv(a) /\ CheckoutShapes
    BY DEF CheckoutInv
  <1>3. RowsInv(v2') /\ Continues(v2, v2', {})
    BY <1>1, ReconciledRows DEF CheckoutInv
  <1>4. v12'[a].pc = "idle" /\ v5[a] = "paid"
    BY <1>1, <1>2 DEF CheckoutShapes, AttemptInv, HookInv, Checkout!Idle
  <1>5. Alone(a)
    <2>1. CheckoutShapes'
      BY <1>1, <1>2 DEF CheckoutShapes
    <2>2. \A b \in Launches \ {a} : v12'[b] = v12[b]
      BY <1>1, <1>2 DEF CheckoutShapes
    <2>3. \A b \in Launches \ {a} : <<"mixed", b>> \in v7' <=> <<"mixed", b>> \in v7
      BY <1>1
    <2> QED
      BY <1>1, <2>1, <2>2, <2>3 DEF Alone
  <1>6. IntentInv(a)'
    BY <1>1, <1>2, <1>3, <1>4 DEF AttemptInv, IntentInv, Continues
  <1>7. RequestInv(a)' /\ HookInv(a)'
    BY <1>1, <1>2, <1>4 DEF AttemptInv, RequestInv, HookInv
  <1>8. v3[a].is /\ v3[a].res \in DOMAIN v2 /\ Follows(v2[v3[a].res], v2'[v3[a].res], {})
    BY <1>2, <1>3, <1>4 DEF AttemptInv, IntentInv, Continues
  <1>9. PlaceInv(a)' /\ SealInv(a)'
    BY <1>1, <1>2, <1>8 DEF AttemptInv, PlaceInv, MayBePaid, SealInv, Checkout!Sealed, Follows
  <1>10. ClaimInv(a)'
    BY <1>1, <1>2 DEF AttemptInv, ClaimInv, Needs, Checkout!Unsettled, ClaimOf
  <1>11. AttemptInv(a)'
    BY <1>6, <1>7, <1>9, <1>10 DEF AttemptInv
  <1> QED
    BY <1>3, <1>5, <1>11, OneStep

LEMMA EndedStep ==
    ASSUME CheckoutInv, NEW a \in Launches, Checkout!Ended(a)
    PROVE  CheckoutInv'
  <1> DEFINE k == v3[a].res
             shut(rs) == [rs EXCEPT ![k].stage = "deleted", ![k].until = 0]
  <1>1. /\ v3[a].is /\ UNCHANGED <<v3, v4, v5, v7, v11, v12, v13>>
        /\ \/ Checkout!Adoptable(a, k) /\ v2' = shut(Checkout!Adopted(a, k))
           \/ Checkout!IsAdopted(a, k) /\ v2' = shut(v2)
           \/ v2' = v2
    BY DEF Checkout!Ended
  <1>2. RowsInv(v2) /\ k \in DOMAIN v2
    BY <1>1 DEF CheckoutInv, AttemptInv, IntentInv
  <1> HIDE DEF k
  <1>3. \A R : RowsInv(R) /\ k \in DOMAIN R /\ R[k].owner = Checkout!Of(Payer[a])
               => RowsInv(shut(R)) /\ Continues(R, shut(R), {})
    BY ClosedRows
  <1> HIDE DEF shut
  <1>4. Checkout!Adoptable(a, k) =>
          LET S == Checkout!Adopted(a, k) IN RowsInv(shut(S)) /\ Continues(v2, shut(S), {})
    <2> DEFINE S == Checkout!Adopted(a, k)
    <2> SUFFICES ASSUME Checkout!Adoptable(a, k) PROVE RowsInv(shut(S)) /\ Continues(v2, shut(S), {})
      OBVIOUS
    <2>1. RowsInv(S) /\ Continues(v2, S, {}) /\ DOMAIN S = DOMAIN v2 /\ S[k].owner = Checkout!Of(Payer[a])
      BY <1>2, AdoptedRows
    <2> HIDE DEF S
    <2>2. RowsInv(shut(S)) /\ Continues(S, shut(S), {})
      BY <1>2, <1>3, <2>1
    <2> QED
      BY <2>1, <2>2, ContinuesTwice
  <1>5. Checkout!IsAdopted(a, k) => RowsInv(shut(v2)) /\ Continues(v2, shut(v2), {})
    BY <1>2, <1>3 DEF Checkout!IsAdopted
  <1>6. v2' = v2 => RowsInv(v2') /\ Continues(v2, v2', {})
    BY <1>2, RowsSame
  <1>7. RowsInv(v2') /\ Continues(v2, v2', {})
    BY <1>1, <1>4, <1>5, <1>6, Zenon
  <1>8. \A b \in Launches : <<"mixed", b>> \in v7' <=> <<"mixed", b>> \in v7
    BY <1>1
  <1> QED
    BY <1>1, <1>7, <1>8, QuietStep

\* The reservation of an expired session is released: nobody else's row changes.
LEMMA ReleasedRows ==
    ASSUME RowsInv(v2), NEW a \in Launches, NEW k \in DOMAIN v2, Checkout!Releasable(a, k)
    PROVE  LET S == Checkout!Released(k)
           IN  /\ RowsInv(S) /\ Continues(v2, S, {a}) /\ DOMAIN S = DOMAIN v2
               /\ S[k].stage = "deleted"
  <1> DEFINE r == [v2[k] EXCEPT !.stage = "deleted", !.until = 0, !.why = "expired"]
  <1>1. DOMAIN v2[k] = RowFields /\ v2[k].owner = Checkout!Bundle(a) /\ v2[k].sub = Checkout!NoSub
    BY DEF RowsInv, Checkout!Releasable
  <1>2. DOMAIN r = RowFields /\ r.stage = "deleted" /\ r.owner = v2[k].owner /\ r.sub = v2[k].sub
    BY <1>1, RowExpired
  <1>3. Checkout!Released(k) = [v2 EXCEPT ![k] = r]
    BY RowsAre DEF Checkout!Released
  <1>4. [v2 EXCEPT ![k] = r][k] = r /\ DOMAIN [v2 EXCEPT ![k] = r] = DOMAIN v2
    BY RowsAre
  <1> HIDE DEF r
  <1>5. \A b \in Launches : v2[k].owner = Checkout!Bundle(b) =>
          r.sub = Checkout!NoSub /\ (b \notin {a} /\ Holds(v2[k]) => Holds(r))
    BY <1>1, <1>2, OwnersDiffer
  <1>6. RowsInv([v2 EXCEPT ![k] = r]) /\ Continues(v2, [v2 EXCEPT ![k] = r], {a})
    BY <1>2, <1>5, RowTouched
  <1> QED
    BY <1>2, <1>3, <1>4, <1>6

LEMMA ExpirySealsStep ==
    ASSUME CheckoutInv, NEW a \in Launches, Checkout!ExpirySeals(a)
    PROVE  CheckoutInv'
  <1> DEFINE k == v12[a].intent.res
             S == Checkout!Released(k)
             i == [v12[a].intent EXCEPT !.sess = TRUE, !.sealed = TRUE]
  <1>1. /\ v12[a].pc = "expiry" /\ UNCHANGED <<v5, v7>>
        /\ \/ /\ Checkout!Releasable(a, k) /\ v2' = S /\ v3' = [v3 EXCEPT ![a] = i]
              /\ v4' = Checkout!Unclaimed(a) /\ v12' = [v12 EXCEPT ![a] = Checkout!Idle]
              /\ UNCHANGED <<v11, v13>>
           \/ /\ Checkout!Releasable(a, k) /\ v2' = S
              /\ v3' = v3 \/ v3' = [v3 EXCEPT ![a] = i]
              /\ Checkout!Died /\ v4' = v4
           \/ v12' = [v12 EXCEPT ![a] = Checkout!Idle] /\ UNCHANGED <<v2, v3, v4, v11, v13>>
    BY DEF Checkout!ExpirySeals, Checkout!Seal, Checkout!files, Checkout!books
  <1>2. AttemptInv(a) /\ CheckoutShapes /\ RowsInv(v2)
    BY DEF CheckoutInv
  <1>3. v5[a] = "expired" /\ v3[a].is /\ SameIntent(v12[a].intent, v3[a]) /\ k \in DOMAIN v2 /\ v3[a].res = k
    BY <1>1, <1>2 DEF AttemptInv, IntentInv, HookInv, SameIntent
  <1>4. IntentIs(i) /\ i.res = k
    BY <1>3 DEF SameIntent, IntentIs, IntentFields
  <1> HIDE DEF i, k
  <1>5. Checkout!Releasable(a, k) =>
          /\ RowsInv(S) /\ Continues(v2, S, {a}) /\ DOMAIN S = DOMAIN v2 /\ S[k].stage = "deleted"
    BY <1>2, <1>3, ReleasedRows
  <1> HIDE DEF S
  <1>6. ASSUME Checkout!Releasable(a, k), v2' = S,
               v3' = v3 \/ v3' = [v3 EXCEPT ![a] = i], v11'[a] = v11[a] \/ v11'[a] = Checkout!Idle,
               v12'[a] = Checkout!Idle
        PROVE  AttemptInv(a)'
    <2>1. v3'[a] = v3[a] \/ v3'[a] = i
      BY <1>2, <1>6 DEF CheckoutShapes
    <2>2. v3'[a].is /\ IntentIs(v3'[a]) /\ v3'[a].res = k
      BY <1>2, <1>3, <1>4, <2>1 DEF AttemptInv, IntentInv, IntentIs
    <2>3. IntentInv(a)'
      BY <1>1, <1>2, <1>3, <1>5, <1>6, <2>2 DEF AttemptInv, IntentInv
    <2>4. RequestInv(a)'
      BY <1>2, <1>3, <1>6, <2>2 DEF AttemptInv, RequestInv, SameIntent, Checkout!Idle, IntentIs
    <2>5. HookInv(a)'
      BY <1>6 DEF HookInv, Checkout!Idle
    <2>6. PlaceInv(a)' /\ ClaimInv(a)'
      BY <1>1, <1>3 DEF PlaceInv, MayBePaid, ClaimInv, Needs, Checkout!Unsettled
    <2>7. SealInv(a)'
      BY <1>1, <1>3, <1>5, <1>6, <2>2 DEF SealInv
    <2> QED
      BY <2>3, <2>4, <2>5, <2>6, <2>7 DEF AttemptInv
  <1>7. ASSUME Checkout!Releasable(a, k), v2' = S, v3' = [v3 EXCEPT ![a] = i],
               v4' = Checkout!Unclaimed(a), v12' = [v12 EXCEPT ![a] = Checkout!Idle], UNCHANGED <<v11, v13>>
        PROVE  CheckoutInv'
    <2>1. v12'[a] = Checkout!Idle
      BY <1>2, <1>7 DEF CheckoutShapes
    <2>2. Alone(a)
      <3>1. CheckoutShapes'
        BY <1>1, <1>2, <1>7 DEF CheckoutShapes, Checkout!Unclaimed
      <3>2. \A b \in Launches \ {a} : v3'[b] = v3[b] /\ v12'[b] = v12[b]
        BY <1>2, <1>7 DEF CheckoutShapes
      <3>3. \A b \in Launches \ {a} :
              Lic[b] # NoLicence /\ v4[Lic[b]] = ClaimOf(b) => v4'[Lic[b]] = ClaimOf(b)
        BY <1>7, CheckoutAssumption DEF Checkout!Unclaimed, ClaimOf
      <3> QED
        BY <1>1, <1>7, <3>1, <3>2, <3>3 DEF Alone
    <2> QED
      BY <1>5, <1>6, <1>7, <2>1, <2>2, OneStep
  <1>8. ASSUME Checkout!Releasable(a, k), v2' = S, v3' = v3 \/ v3' = [v3 EXCEPT ![a] = i],
               Checkout!Died, v4' = v4
        PROVE  CheckoutInv'
    <2>1. /\ v11' = [b \in Launches |-> Checkout!Idle] /\ v12' = [b \in Launches |-> Checkout!Idle]
          /\ v13' = [d \in Directs |-> Checkout!Idle]
      BY <1>8 DEF Checkout!Died
    <2>2. Alone(a)
      BY <1>1, <1>8, <2>1, AloneStep
    <2> QED
      BY <1>5, <1>6, <1>8, <2>1, <2>2, OneStep
  <1>9. ASSUME v12' = [v12 EXCEPT ![a] = Checkout!Idle], UNCHANGED <<v2, v3, v4, v11, v13>>
        PROVE  CheckoutInv'
    <2>1. RowsInv(v2') /\ Continues(v2, v2', {})
      BY <1>2, <1>9, RowsSame
    <2>2. Checkout!Idle.pc = "idle"
      BY DEF Checkout!Idle
    <2> QED
      BY <1>1, <1>9, <2>1, <2>2, HookMoves
  <1> QED
    BY <1>1, <1>7, <1>8, <1>9

LEMMA CheckoutKept ==
    ASSUME CheckoutInv, Checkout!Next
    PROVE  CheckoutInv'
  <1>1. ASSUME NEW a \in Launches,
               \/ Checkout!Begins(a) \/ Checkout!Retries(a) \/ Checkout!Prepares(a) \/ Checkout!Reserves(a)
               \/ Checkout!GivesUp(a) \/ Checkout!Opened(a) \/ Checkout!Answered(a)
               \/ Checkout!PaidBegins(a) \/ Checkout!PaidAccepted(a) \/ Checkout!PaidApplied(a)
               \/ Checkout!Ended(a) \/ Checkout!ExpiryBegins(a) \/ Checkout!ExpirySeals(a)
               \/ Checkout!HookFails(a) \/ Checkout!Pays(a) \/ Checkout!Expires(a)
        PROVE  CheckoutInv'
    BY <1>1, AttemptBeginsStep, RetriesStep, PreparesStep, ReservesStep, GivesUpStep, SessionStep, AnsweredStep,
       HookBeginsStep, PaidAcceptedStep, PaidAppliedStep, EndedStep, ExpirySealsStep, HookFailsStep
  <1>2. ASSUME NEW d \in Directs,
               \/ Checkout!DirectReserves(d) \/ Checkout!DirectGivesUp(d) \/ Checkout!DirectOpened(d)
               \/ Checkout!DirectAnswered(d) \/ \E c \in Customers : Checkout!DirectBegins(d, c)
        PROVE  CheckoutInv'
    BY <1>2, DirectReservesStep, DirectGivesUpStep, DirectStripeStep, DirectAnsweredStep, DirectBeginsStep
  <1>3. ASSUME NEW k, \/ Checkout!DirectPaid(k) \/ Checkout!DirectTurns(k)
                      \/ Checkout!Served(k) \/ Checkout!Deleted(k)
        PROVE  CheckoutInv'
    BY <1>3, DirectPaidStep, DirectStripeStep, ServedStep
  <1>4. ASSUME NEW c, Checkout!Derives(c) PROVE CheckoutInv'
    BY <1>4, DerivesStep
  <1>5. ASSUME Checkout!Clock PROVE CheckoutInv'
    BY <1>5, ClockStep DEF Checkout!Clock, Checkout!files, Checkout!books
  <1> QED
    BY <1>1, <1>2, <1>3, <1>4, <1>5, TickStep, CrashStep DEF Checkout!Next

\* What the run checks of the checkouts follows.
LEMMA CheckoutsAreHeld == CheckoutInv => Checkout!CheckoutsHold
  <1> SUFFICES ASSUME CheckoutInv PROVE Checkout!CheckoutsHold
    OBVIOUS
  <1>1. RowsInv(v2) /\ \A a \in Launches : AttemptInv(a)
    BY DEF CheckoutInv
  <1>2. Checkout!RowsAreOwned
    <2>1. ASSUME NEW k \in Checkout!Active(v2)
          PROVE  Checkout!Cardinality(Checkout!ActiveOf(v2, v2[k].owner)) = 1
      <3>1. Checkout!ActiveOf(v2, v2[k].owner) = {k}
        BY <1>1 DEF RowsInv, Checkout!ActiveOf
      <3> QED
        BY <3>1, FS_Singleton, CheckoutCounts
    <2>2. Checkout!Cardinality(Checkout!Active(v2)) <= Ceiling
      BY <1>1, CheckoutCounts DEF RowsInv
    <2> QED
      BY <2>1, <2>2 DEF Checkout!RowsAreOwned
  <1>3. Checkout!PaidKeepsItsRow
    BY <1>1 DEF Checkout!PaidKeepsItsRow, AttemptInv, IntentInv, PlaceInv, MayBePaid, Holds
  <1>4. Checkout!SealedIsOver
    BY <1>1 DEF Checkout!SealedIsOver, AttemptInv, SealInv
  <1>5. Checkout!OneCheckoutEach
    <2>1. \A a \in Launches : Lic[a] # NoLicence /\ Checkout!Unsettled(a) => v4[Lic[a]] = ClaimOf(a)
      BY <1>1 DEF AttemptInv, ClaimInv, Needs
    <2>2. \A a : ClaimOf(a).id = a
      BY DEF ClaimOf
    <2>3. \A a, b \in Launches : Lic[a] = Lic[b] /\ Lic[a] # NoLicence
            /\ Checkout!Unsettled(a) /\ Checkout!Unsettled(b) => ClaimOf(a) = ClaimOf(b)
      BY <2>1
    <2> QED
      BY <2>2, <2>3 DEF Checkout!OneCheckoutEach
  <1> QED
    BY <1>2, <1>3, <1>4, <1>5 DEF Checkout!CheckoutsHold

-----------------------------------------------------------------------------
(* The parts together                                                        *)

Stands ==
    /\ part = "ledger" => BooksInv
    /\ part = "owner" => OwnersInv
    /\ part = "payout" => PayoutsInv
    /\ part = "referral" => ReferralsInv
    /\ part = "release" => PublicationInv
    /\ part = "notice" => NoticesInv
    /\ part = "contact" => CopyInv
    /\ part = "reminder" => RemindInv
    /\ part = "checkout" => CheckoutInv

LEMMA OperationsStart == Init => Stands
  <1> SUFFICES ASSUME Init PROVE Stands
    OBVIOUS
  <1>1. CASE LedgerStarts \/ OwnersStarts \/ PayoutsStarts \/ ReferralsStarts \/ PublishingStarts
    BY <1>1, BooksStart, OwnersStart, PayoutsStart, ReferralsStart, PublicationStarts
    DEF LedgerStarts, OwnersStarts, PayoutsStarts, ReferralsStarts, PublishingStarts, Stands
  <1>2. CASE OutboxStarts \/ ContactsStarts \/ RemindingStarts \/ CheckoutStarts
    BY <1>2, NoticesStart, CopyStarts, RemindStarts, CheckoutBegins
    DEF OutboxStarts, ContactsStarts, RemindingStarts, CheckoutStarts, Stands
  <1>3. CASE SeatChecksStarts \/ SessionsStarts \/ ChatsStarts \/ ReportsStarts
    BY <1>3 DEF SeatChecksStarts, SessionsStarts, ChatsStarts, ReportsStarts, Stands
  <1> QED
    BY <1>1, <1>2, <1>3 DEF Init

LEMMA OperationsStutter ==
    ASSUME Stands, UNCHANGED vars
    PROVE  Stands'
  <1>1. UNCHANGED <<part, v1, v2, v3, v4, v5, v6, v7, v8, v9, v10, v11, v12, v13>>
    BY DEF vars
  <1>2. BooksInv => BooksInv'
    BY <1>1, BooksStay
  <1>3. OwnersInv => OwnersInv'
    BY <1>1, OwnersStay DEF OwnersInv, LinkHolds
  <1>4. PayoutsInv => PayoutsInv'
    BY <1>1, PayoutsKept
  <1>5. ReferralsInv => ReferralsInv'
    BY <1>1, ReferralsKept
  <1>6. PublicationInv => PublicationInv'
    BY <1>1, FilesStay DEF PublicationInv, RunInv, Works
  <1>7. NoticesInv => NoticesInv'
    BY <1>1, NoticesStay
  <1>8. CopyInv => CopyInv'
    BY <1>1 DEF CopyInv, CopyTypes, PassInv, ContactCopy!CheckpointsAreTrue, ContactCopy!Place,
       ContactCopy!Wanted
  <1>9. RemindInv => RemindInv'
    BY <1>1 DEF RemindInv, TickInv, ShownInv, Waits, Repeats
  <1>10. CheckoutInv => CheckoutInv'
    BY <1>1, ClockStep
  <1> QED
    BY <1>1, <1>2, <1>3, <1>4, <1>5, <1>6, <1>7, <1>8, <1>9, <1>10 DEF Stands

LEMMA OperationsKept == Stands /\ [Next]_vars => Stands'
  <1> SUFFICES ASSUME Stands, [Next]_vars PROVE Stands'
    OBVIOUS
  <1>1. CASE LedgerMoves
    BY <1>1, BooksKept DEF LedgerMoves, Stands
  <1>2. CASE OwnersMoves
    BY <1>2, OwnersKept DEF OwnersMoves, Stands
  <1>3. CASE PayoutsMoves
    BY <1>3, PayoutsKept DEF PayoutsMoves, Stands
  <1>4. CASE ReferralsMoves
    BY <1>4, ReferralsKept DEF ReferralsMoves, Stands
  <1>5. CASE PublishingMoves
    BY <1>5, PublicationKept DEF PublishingMoves, Stands
  <1>6. CASE OutboxMoves
    BY <1>6, NoticesKept DEF OutboxMoves, Stands
  <1>7. CASE ContactsMoves
    BY <1>7, CopyKept DEF ContactsMoves, Stands
  <1>8. CASE RemindingMoves
    BY <1>8, RemindKept DEF RemindingMoves, Stands
  <1>9. CASE CheckoutMoves
    BY <1>9, CheckoutKept DEF CheckoutMoves, Stands
  <1>10. CASE SeatChecksMoves \/ SessionsMoves \/ ChatsMoves \/ ReportsMoves
    BY <1>10 DEF SeatChecksMoves, SessionsMoves, ChatsMoves, ReportsMoves, Stands
  <1>11. CASE UNCHANGED vars
    BY <1>11, OperationsStutter
  <1> QED
    BY <1>1, <1>2, <1>3, <1>4, <1>5, <1>6, <1>7, <1>8, <1>9, <1>10, <1>11 DEF Next

\* The invariants of the parts hold in every reachable state, for every number of
\* members, accounts, sales, sources, builds, notifications, contacts, keys and
\* checkouts, whatever fails (earn.ts, earn-stripe.ts, release-controls.ts,
\* notifications.ts, marketing-customer-sync.ts, billing/reminders.ts,
\* billing/launch.ts, hosting/service.ts).
THEOREM PartsStand == Spec => []Stands
  BY OperationsStart, OperationsKept, PTL DEF Spec

\* Rebates and reversals are on the books as reviewed, a licence has one owner,
\* Stripe pays a payout job once and none that is under way is released, a sale
\* earns what refunds and disputes leave of it (earn.ts, earn-stripe.ts), and a
\* licence has one hosting checkout that may take money, whose reservation is kept
\* within the provider budget (billing/launch.ts, hosting/service.ts).
THEOREM EarningsStand == Spec => []EarningsHold
  <1>1. Stands => EarningsHold
    BY BooksReviewed, OwnersAreOne, PaidOnceEach, CommissionsMatch, CheckoutsAreHeld
    DEF Stands, EarningsHold
  <1> QED
    BY PartsStand, <1>1, PTL

\* Wherever a publication failed or died: without a marker control and pointers
\* agree, a pointer leads to bytes on its shelf, and Production is a build that
\* soaked as the Beta it was (release-controls.ts, publish and recover).
THEOREM PublicationStands == Spec => []PublicationIsWhole
  <1>1. Stands => PublicationIsWhole
    BY PublicationWhole DEF Stands, PublicationIsWhole
  <1> QED
    BY PartsStand, <1>1, PTL

\* An owed notification stays on file in a state that is sent again until it is
\* shown or given up, a reminder is shown once and before the trial ends, and a
\* contact is left out of a pass only because its account holds its facts or
\* somebody edited it (notifications.ts, billing/reminders.ts,
\* marketing-customer-sync.ts).
THEOREM MessagesStand == Spec => []MessagesAreTracked
  <1>1. Stands => MessagesAreTracked
    BY NoticesAreOnFile, RemindsOnce DEF Stands, CopyInv, MessagesAreTracked
  <1> QED
    BY PartsStand, <1>1, PTL
=============================================================================
