----------------------------- MODULE EarnLedger -----------------------------
(* The Earn ledger (earn.ts): members and their exchange accounts, immutable *)
(* entries, reviewed monthly rebates, hosting fees.  Every                   *)
(* operation is one synchronous transaction on one file; what can be stale   *)
(* is what a member's page, the operator's view or a CSV preview shows.      *)
(*                                                                           *)
(* One exchange.  Revisions and submissions are numbered instead of random.  *)
EXTENDS Integers, FiniteSets, FiniteSetsExt

CONSTANTS Members, Uids,
          Billed,         \* bound: the members the operator configures and books
          Rates,          \* rebate percentages, as factors
          Dollars,        \* commission of one CSV row
          Refs,           \* references an operator types
          MinRebate,      \* a rebate below it does not qualify
          MaxMonth, MaxRev, MaxEntries   \* bounds

VARIABLES joined,         \* members on record
          claim,          \* their exchange UID, as submitted and reviewed
          rate,           \* rebatePercent
          fee,            \* first month of the hosting fee, 0 without one
          entries,
          months,         \* finalised rebates
          revs,           \* revisions handed out
          month,          \* the current month
          page,           \* the claim a member's page shows
          view,           \* the claim the operator's view shows
          preview         \* the CSV the operator reviews

vars == <<joined, claim, rate, fee, entries, months, revs, month,
          page, view, preview>>

None == "none"
NoClaim == [uid |-> None, verified |-> FALSE, rev |-> 0, sub |-> 0]
NoPreview == [month |-> 0, rows |-> {}, csv |-> {}]
Entry(o, k, c, r) == [owner |-> o, kind |-> k, cents |-> c, ref |-> r]
Ref(what, k, o) == <<what, k, o>>

Init ==
    /\ joined = {} /\ entries = {} /\ months = [k \in {} |-> {}]
    /\ claim = [o \in Members |-> NoClaim] /\ rate = [o \in Members |-> Min(Rates)]
    /\ fee = [o \in Members |-> 0]
    /\ revs = 0 /\ month = 1
    /\ page = claim /\ view = claim /\ preview = NoPreview

Balance(o) == MapThenSumSet(LAMBDA e : e.cents, {e \in entries : e.owner = o})
Room == Cardinality(entries) < MaxEntries

Book == <<joined, claim, rate, fee, entries, months, revs>>
Seen == <<page, view, preview>>

\* member(): created on the first visit.
Join(o) ==
    /\ o \notin joined /\ joined' = joined \cup {o}
    /\ UNCHANGED <<claim, rate, fee, entries, months, revs, month, Seen>>

\* A mistake: a claim is changed from a page that shows its account only.
AddUidUnseen(o, u) ==
    /\ o \in joined /\ revs < MaxRev
    /\ claim[o] = NoClaim \/ (claim[o].uid = page[o].uid /\ u # page[o].uid)
    /\ revs' = revs + 1
    /\ claim' = [claim EXCEPT ![o] = [uid |-> u, verified |-> FALSE, rev |-> revs', sub |-> revs']]
    /\ UNCHANGED <<joined, rate, fee, entries, months, month, Seen>>

\* addUid(): a first claim, or a change of the claim the page still shows.
AddUid(o, u) ==
    /\ o \in joined /\ revs < MaxRev
    /\ \/ claim[o] = NoClaim
       \/ claim[o].uid = page[o].uid /\ u # page[o].uid /\ claim[o].rev = page[o].rev
    /\ revs' = revs + 1
    /\ claim' = [claim EXCEPT ![o] = [uid |-> u, verified |-> FALSE, rev |-> revs', sub |-> revs']]
    /\ UNCHANGED <<joined, rate, fee, entries, months, month, Seen>>

\* configure({exchange, uid, verified}): on the claim the view showed, and one
\* verified owner per account.
Verify(o, yes) ==
    LET c == claim[o] IN
    /\ c # NoClaim /\ c.uid = view[o].uid /\ c.verified # yes /\ c.rev = view[o].rev
    /\ yes => \A p \in Members \ {o} : claim[p].uid # c.uid \/ ~claim[p].verified
    /\ revs < MaxRev /\ revs' = revs + 1
    /\ claim' = [claim EXCEPT ![o].verified = yes, ![o].rev = revs']
    /\ UNCHANGED <<joined, rate, fee, entries, months, month, page, view, preview>>

\* assessHostingFees(): every month due and not yet on the books.
Fees(f) ==
    {Entry(p[1], "adjustment", -1, Ref("fee", p[2], p[1])) :
        p \in {q \in Members \X (1 .. month) : f[q[1]] # 0 /\ f[q[1]] <= q[2]}}
Assessed(f) == entries \cup {e \in Fees(f) : \A d \in entries : d.ref # e.ref}

Configure(o, r, f) ==
    /\ o \in joined
    /\ rate' = [rate EXCEPT ![o] = r]
    /\ fee' = [fee EXCEPT ![o] = f]
    /\ entries' = Assessed(fee')
    /\ UNCHANGED <<joined, claim, months, revs, month, Seen>>

AssessHostingFees ==
    /\ entries' = Assessed(fee)
    /\ UNCHANGED <<joined, claim, rate, fee, months, revs, month, Seen>>

\* record(): the same reference again is the same entry or an error.
Record(o, kind, cents, r) ==
    /\ o \in joined /\ Room
    /\ \A e \in entries : ~(e.ref = r /\ e.kind = kind)
    /\ kind = "payout" => Balance(o) >= cents
    /\ entries' = entries \cup {Entry(o, kind, IF kind = "payout" THEN -cents ELSE cents, r)}
    /\ UNCHANGED <<joined, claim, rate, fee, months, revs, month, Seen>>

\* reverse(): once, and never of a reversal.
Reverse(e) ==
    /\ e.kind # "reversal"
    /\ \A d \in entries : d.ref # Ref("reverse", e.kind, e.ref)
    /\ entries' = entries \cup {Entry(e.owner, "reversal", -e.cents, Ref("reverse", e.kind, e.ref))}
    /\ UNCHANGED <<joined, claim, rate, fee, months, revs, month, Seen>>

\* previewCsv(): a completed month, every row matched to a verified account.
Holder(u) == {o \in joined : claim[o].uid = u /\ claim[o].verified}
Matched(csv) == csv # {} /\ \A u \in csv : Holder(u) # {}
Rows(csv) ==
    {[owner |-> o, cents |-> rate[o] * Dollars] : o \in UNION {Holder(u) : u \in csv}}

PreviewCsv(k, csv) ==
    /\ k < month /\ Matched(csv)
    /\ preview' = [month |-> k, rows |-> Rows(csv), csv |-> csv]
    /\ UNCHANGED <<Book, month, page, view>>

\* importCsv(): computed again, it must be what was reviewed; a month is
\* finalised once.
ImportCsv ==
    /\ preview # NoPreview /\ Matched(preview.csv)
    /\ Rows(preview.csv) = preview.rows
    /\ preview.month \notin DOMAIN months
    /\ months' = [k \in DOMAIN months \cup {preview.month} |->
                     IF k = preview.month THEN preview.rows ELSE months[k]]
    /\ entries' = entries \cup {Entry(r.owner, "earning", r.cents, Ref("rebate", preview.month, r.owner)) :
                                   r \in {x \in preview.rows : x.cents >= MinRebate}}
    /\ UNCHANGED <<joined, claim, rate, fee, revs, month, Seen>>

LoadPage(o) == page' = [page EXCEPT ![o] = claim[o]] /\ UNCHANGED <<Book, month, view, preview>>
LoadView(o) == view' = [view EXCEPT ![o] = claim[o]] /\ UNCHANGED <<Book, month, page, preview>>

MonthEnds ==
    /\ month < MaxMonth /\ month' = month + 1
    /\ UNCHANGED <<Book, Seen>>

Next ==
    \/ MonthEnds \/ AssessHostingFees \/ ImportCsv
    \/ \E o \in Members :
        \/ Join(o) \/ LoadPage(o) \/ LoadView(o)
        \/ \E u \in Uids : AddUid(o, u)
        \/ \E yes \in BOOLEAN : Verify(o, yes)
    \/ \E o \in Billed :
        \/ \E r \in Rates, f \in 0 .. 1 : Configure(o, r, f)
        \/ \E kind \in {"earning", "adjustment", "payout"}, r \in Refs :
            Record(o, kind, 1, <<"op", r, o>>)
    \/ \E e \in entries : Room /\ Reverse(e)
    \/ \E k \in 1 .. MaxMonth, csv \in SUBSET Uids : PreviewCsv(k, csv)

Spec == Init /\ [][Next]_vars
-----------------------------------------------------------------------------
\* Whatever pages are stale: an account has one verified owner; a rebate is on
\* the books once, as reviewed; a month's fee is charged once; an entry is
\* reversed once, to the cent.
BooksAreReviewed ==
    /\ \A o, p \in Members :
          claim[o].verified /\ claim[p].verified /\ claim[p].uid = claim[o].uid => o = p
    /\ \A d, e \in entries : d.ref = e.ref /\ d.kind = e.kind => d = e
    /\ \A e \in entries : e.ref[1] = "rebate" =>
          \E r \in months[e.ref[2]] : r.owner = e.owner /\ r.cents = e.cents

\* The operator verifies only the submission the view showed, a member replaces
\* only the claim the page showed.  Entries and finalised months are never
\* rewritten; a month finalised is what the preview showed; no payout is recorded
\* beyond the balance.
BooksOnlyGrow ==
    /\ \A o \in Members :
          /\ claim'[o].verified /\ ~claim[o].verified => claim[o].sub = view[o].sub
          /\ claim[o] # NoClaim /\ claim'[o].sub # claim[o].sub =>
                claim[o].verified = page[o].verified
    /\ entries \subseteq entries'
    /\ \A k \in DOMAIN months : k \in DOMAIN months' /\ months'[k] = months[k]
    /\ \A k \in DOMAIN months' \ DOMAIN months : months'[k] = preview.rows
    /\ \A e \in entries' \ entries : e.kind = "payout" => Balance(e.owner) + e.cents >= 0
=============================================================================
