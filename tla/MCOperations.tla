---------------------------- MODULE MCOperations ----------------------------
(* The parts around the customer and the operator for TLC, in one run: the   *)
(* books, the owners, the payouts and the commissions of the Earn programme, *)
(* the publication of releases, seats, sessions, notifications, the contact  *)
(* copy, reminders, support chats, feedback reports and hosting checkouts.   *)
(*                                                                           *)
(* As modelled these parts share no state, so a behaviour of the run is one  *)
(* of a single part: `part` says of which, and every part keeps its state in *)
(* v1, v2, ... in the order its instance names them.                         *)
EXTENDS Integers, Sequences, FiniteSets

CONSTANTS Members, Uids, Billed, Rates, Dollars, Refs, MinRebate, MaxMonth, MaxRev,
          MaxEntries,                 \* the books
          Accounts, Legacy,           \* the owners
          Sources, Fresh, KeyLife, CycleLen, PayoutTime, MaxBooked,  \* the payouts
          Invoices, Checkouts, Commissions, MaxPromo, MaxSales,   \* the commissions
          Builds, Soak, ReleaseTime, MaxRuns, MaxFaults,  \* the publications
          Notices, OutboxRows, MaxQueue, MaxAttempts, Faults,     \* the notifications
          Contacts, Keys, Facts, Limit, Success, Missing, Failure,
          CopyTime, CopyPasses,       \* the contact copy
          First, Lead, Resend, Forget, Providers, Keyed, Bodies, RemindTime,  \* the reminders
          Launches, Licences, NoLicence, Lic, Payer, Customers, Directs,
          Hold, MaxPending, Ceiling, CheckoutTime, Reservations   \* the hosting checkouts

\* The null of the owners is none of them.
ASSUME OwnersAssumption == <<"none", "">> \notin Legacy
\* A commission may be nothing, and is never negative.
ASSUME CommissionAssumption == Commissions \subseteq Nat
\* A submission is given up before Stripe may forget its key
\* (SUBMISSION_RETRY_MS, 23 h of 24 h).
ASSUME PayoutAssumption ==
    /\ Fresh \in Nat /\ KeyLife \in Nat /\ Fresh < KeyLife
    /\ CycleLen \in Nat \ {0} /\ MaxBooked \in Nat
\* A reminder is not sent again once its provider may forget the key (23 h of 24 h).
ASSUME RemindAssumption ==
    /\ Resend \in Nat /\ Forget \in Nat /\ Resend < Forget
    /\ First \in Nat /\ Keyed # "none"
\* A mixed checkout presents one licence, or none.
ASSUME CheckoutAssumption ==
    /\ Lic \in [Launches -> Licences \cup {NoLicence}] /\ NoLicence \notin Licences
    /\ Ceiling \in Nat

VARIABLES part, v1, v2, v3, v4, v5, v6, v7, v8, v9, v10, v11, v12, v13

vars == <<part, v1, v2, v3, v4, v5, v6, v7, v8, v9, v10, v11, v12, v13>>

\* Variables a part has no use for.
Off12 == v12 = 0 /\ v13 = 0
Off11 == v11 = 0 /\ Off12
Off9 == v9 = 0 /\ v10 = 0 /\ Off11
Off8 == v8 = 0 /\ Off9
Off7 == v7 = 0 /\ Off8
Still12 == UNCHANGED <<v12, v13>>
Still11 == UNCHANGED <<v11>> /\ Still12
Still9 == UNCHANGED <<v9, v10>> /\ Still11
Still8 == UNCHANGED <<v8>> /\ Still9
Still7 == UNCHANGED <<v7>> /\ Still8

\* Two licences under one e-mail, known to Stripe as two customers, one of them
\* only later, the keys of the members from before the owners had keys of their
\* own, and two builds.
As == {[email |-> "e", lic |-> "l1", cus |-> "c1"],
       [email |-> "e", lic |-> "l2", cus |-> ""], [email |-> "e", lic |-> "l2", cus |-> "c2"]}
Ls == {<<"email", "e">>, <<"lic", "l1">>}
Bs == {<<1, 1>>, <<2, 1>>}
\* The attempts are of one licence and one customer, who also has a checkout of his
\* own.
Lics == [a \in Launches |-> "l"]
Payers == [a \in Launches |-> "c"]

Ledger == INSTANCE EarnLedger WITH
    joined <- v1, claim <- v2, rate <- v3, fee <- v4, entries <- v5,
    months <- v6, revs <- v7, month <- v8, page <- v9, view <- v10,
    preview <- v11
LedgerStarts == part = "ledger" /\ Ledger!Init /\ Off12
LedgerMoves == part = "ledger" /\ Ledger!Next /\ Still12 /\ UNCHANGED part

Owners == INSTANCE EarnOwners WITH
    customers <- v1, members <- v2, bindings <- v3, grants <- v4, link <- v5,
    answers <- v6
OwnersStarts == part = "owner" /\ Owners!Init /\ Off7
OwnersMoves == part = "owner" /\ Owners!Next /\ Still7 /\ UNCHANGED part

Payouts == INSTANCE EarnPayouts WITH
    MaxTime <- PayoutTime,
    now <- v1, booked <- v2, jobs <- v3, entries <- v4, stripe <- v5,
    keyAt <- v6, worker <- v7, preference <- v8, automatic <- v9,
    count <- v10
PayoutsStarts == part = "payout" /\ Payouts!Init /\ Off11
PayoutsMoves == part = "payout" /\ Payouts!Next /\ Still11 /\ UNCHANGED part

Referrals == INSTANCE EarnReferrals WITH
    Rates <- Commissions,
    sale <- v1, sent <- v2, promotion <- v3, history <- v4, created <- v5,
    rate <- v6, rows <- v7, entries <- v8, seen <- v9, worker <- v10
ReferralsStarts == part = "referral" /\ Referrals!Init /\ Off11
ReferralsMoves == part = "referral" /\ Referrals!Next /\ Still11 /\ UNCHANGED part

Publishing == INSTANCE Releases WITH
    MaxTime <- ReleaseTime,
    now <- v1, control <- v2, latest <- v3, shelf <- v4, marker <- v5,
    lock <- v6, run <- v7, runs <- v8, faults <- v9, evidence <- v10,
    bugs <- v11, installed <- v12, stood <- v13
PublishingStarts == part = "release" /\ Publishing!Init
PublishingMoves == part = "release" /\ Publishing!Next /\ UNCHANGED part

SeatChecks == INSTANCE Seats WITH
    Installs <- {"a", "b", "c"}, Limits <- {1, 2}, Default <- 1,
    Release <- 2, MaxNow <- 3,
    seat <- v1, policy <- v2, valid <- v3, now <- v4, answer <- v5,
    told <- v6, peak <- v7
SeatChecksStarts == part = "seat" /\ SeatChecks!Init /\ Off8
SeatChecksMoves == part = "seat" /\ SeatChecks!Next /\ Still8 /\ UNCHANGED part

Sessions == INSTANCE CustomerSessions WITH
    Emails <- {"e"}, Records <- {"r"}, LinkTtl <- 1, LinkKept <- 1,
    SessionTtl <- 3, Touch <- 1, MaxLinks <- 3, MaxSessions <- 2, MaxNow <- 4,
    billed <- v1, links <- v2, sessions <- v3, now <- v4, minted <- v5,
    made <- v6, opened <- v7
SessionsStarts == part = "session" /\ Sessions!Init /\ Off8
SessionsMoves == part = "session" /\ Sessions!Next /\ Still8 /\ UNCHANGED part

Outbox == INSTANCE Notifications WITH
    MaxRows <- OutboxRows,
    mem <- v1, file <- v2, flushing <- v3, held <- v4, faults <- v5, owed <- v6,
    received <- v7
OutboxStarts == part = "notice" /\ Outbox!Init /\ Off8
OutboxMoves == part = "notice" /\ Outbox!Next /\ Still8 /\ UNCHANGED part

ContactCopy == INSTANCE CustomerSync WITH
    MaxNow <- CopyTime, MaxPasses <- CopyPasses,
    customer <- v1, key <- v2, attrs <- v3, checkpoint <- v4, ready <- v5,
    pass <- v6, closed <- v7, now <- v8, passes <- v9, lapsed <- v10
ContactsStarts == part = "contact" /\ ContactCopy!Init /\ Off11
ContactsMoves == part = "contact" /\ ContactCopy!Next /\ Still11 /\ UNCHANGED part

Reminding == INSTANCE Reminders WITH
    MaxNow <- RemindTime,
    sub <- v1, customer <- v2, provider <- v3, row <- v4, tick <- v5,
    now <- v6, known <- v7, shown <- v8
RemindingStarts == part = "reminder" /\ Reminding!Init /\ Off9
RemindingMoves == part = "reminder" /\ Reminding!Next /\ Still9 /\ UNCHANGED part

Chats == INSTANCE SupportChat WITH
    Threads <- {"t", "u"}, Reserve <- 2, Limits <- {2, 3}, MaxMonth <- 2,
    MaxCalls <- 2,
    thread <- v1, usage <- v2, limit <- v3, month <- v4, call <- v5,
    calls <- v6, billed <- v7, top <- v8, dropped <- v9, overruled <- v10
ChatsStarts == part = "chat" /\ Chats!Init /\ Off11
ChatsMoves == part = "chat" /\ Chats!Next /\ Still11 /\ UNCHANGED part

Reports == INSTANCE Feedback WITH
    Licences <- {"a", "b"}, MaxRows <- 2, MaxOwn <- 2, MaxPictures <- 2,
    MaxOwnPictures <- 1, MaxReports <- 3,
    lines <- v1, files <- v2, report <- v3, wrote <- v4, cut <- v5,
    acked <- v6, deleted <- v7
ReportsStarts == part = "feed" /\ Reports!Init /\ Off8
ReportsMoves == part = "feed" /\ Reports!Next /\ Still8 /\ UNCHANGED part

Checkout == INSTANCE HostedCheckout WITH
    Attempts <- Launches, MaxNow <- CheckoutTime, MaxRows <- Reservations,
    now <- v1, rows <- v2, intents <- v3, claims <- v4, session <- v5,
    direct <- v6, applied <- v7, terminal <- v8, role <- v9, cancelled <- v10,
    req <- v11, hook <- v12, dreq <- v13
CheckoutStarts == part = "checkout" /\ Checkout!Init
CheckoutMoves == part = "checkout" /\ Checkout!Next /\ UNCHANGED part

-----------------------------------------------------------------------------
Init ==
    \/ LedgerStarts \/ OwnersStarts \/ PayoutsStarts
    \/ ReferralsStarts \/ PublishingStarts \/ SeatChecksStarts
    \/ SessionsStarts \/ OutboxStarts \/ ContactsStarts
    \/ RemindingStarts \/ ChatsStarts \/ ReportsStarts \/ CheckoutStarts

Next ==
    \/ LedgerMoves \/ OwnersMoves \/ PayoutsMoves
    \/ ReferralsMoves \/ PublishingMoves \/ SeatChecksMoves
    \/ SessionsMoves \/ OutboxMoves \/ ContactsMoves
    \/ RemindingMoves \/ ChatsMoves \/ ReportsMoves \/ CheckoutMoves

Spec == Init /\ [][Next]_vars

-----------------------------------------------------------------------------
\* Money moves once: rebates and reversals are on the books as reviewed, a
\* licence has one owner, Stripe pays a payout job once and none that is under
\* way is released, a sale earns what refunds and disputes leave of it (earn.ts,
\* earn-stripe.ts); a licence has one hosting checkout that may take money, which
\* keeps its server's reservation, within the provider budget (billing/launch.ts,
\* hosting/service.ts).
EarningsHold ==
    /\ part = "ledger" => Ledger!BooksAreReviewed
    /\ part = "owner" => Owners!OneOwnerEach
    /\ part = "payout" => Payouts!PaidOnce
    /\ part = "referral" => Referrals!CommissionMatches
    /\ part = "checkout" => Checkout!CheckoutsHold

\* No entry and no finalised month is rewritten, no review applies to another
\* submission than the one shown, no payout goes beyond the balance (earn.ts,
\* earn-stripe.ts).
BooksOnlyGrow ==
    [][/\ part = "ledger" => Ledger!BooksOnlyGrow
       /\ part = "payout" => Payouts!NeverOverdrawn]_vars

\* Wherever a publication failed or died: without a marker control and pointers
\* agree, a pointer leads to bytes on its shelf, Production is a build that
\* soaked as the Beta it was (release-controls.ts).
PublicationIsWhole == part = "release" => Publishing!PublicationIsWhole

\* One seat is not traded by two installs in one window, a link opens one
\* session, the assistant neither overrules a person nor outspends its month, a
\* stored report stays (seats.ts, customer-sessions.ts, support-chat.ts,
\* feedback.ts).
CustomersAreServed ==
    /\ part = "seat" => SeatChecks!SeatsAreFair
    /\ part = "session" => Sessions!SessionsAreEarned
    /\ part = "chat" => Chats!SupportHolds
    /\ part = "feed" => Reports!EvidenceIsKept

\* Messages to people and to other services: an owed notification stays until it
\* is shown, a reminder is shown once and in time, a contact is left out only
\* because its account holds its facts (notifications.ts, billing/reminders.ts,
\* marketing-customer-sync.ts).
MessagesAreTracked ==
    /\ part = "notice" => Outbox!NoticesAreKept
    /\ part = "reminder" => Reminding!RemindedOnce
    /\ part = "contact" => ContactCopy!CheckpointsAreTrue
=============================================================================
