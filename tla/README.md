# WickHunter Hub: TLA+ models, model checking and proofs

This directory models the core logic of the WickHunter Hub (`src/`, TypeScript
on Node.js): the parts that move customers' money, licences and servers, the
market-data side, and the parts around customers and the operator. It
holds TLA+ modules translated from the source, configurations that TLC checks
on small instances, and theorems that TLAPS proves for every instance.
`PROJECT.json` lists components, runs, mutants, the map from definitions to
source lines, hazards, findings and theorems.

Source paths below are relative to the repository's `src/` directory.

1. [The system](#1-the-system)
2. [Modules and the code they stand for](#2-modules-and-the-code-they-stand-for)
3. [Runs: what is checked, bounds](#3-runs)
4. [Fairness](#4-fairness)
5. [Proofs](#5-proofs)
6. [Findings and observations](#6-findings-and-observations)
7. [Limits of the models](#7-limits-of-the-models)
8. [Plan](#8-plan)

## 1. The system

The Hub is one Node.js process (systemd restarts it) over a directory of JSON
and binary files. It sells licences and managed servers through Stripe, leases
licences to installed apps, runs an affiliate programme (Earn), publishes
signed releases, and serves candles, liquidation percentiles and market
capitalisations. There are no threads in the core: the code between two
`await`s is atomic towards the rest of the process, and every `await` (Stripe,
Vultr, Brevo, Discord, venues, workers) is a point at which any other handler
or timer may run. Almost all state is in files replaced whole
(`jsonfile.ts`: write a temporary file, rename), so the process may die between
any two writes, and a file is never half written. That is the shape of every
module here: **one TLA+ step is the code between two awaits; a crash may fall
between two writes of one step; a call in flight may have taken effect when its
answer is lost.**

| Component | State | Operations | Interacts with |
|---|---|---|---|
| Hosting store (`hosting/store.ts`) | instance rows, outbox jobs, provider resources in one file; row leases; row versions | compare-and-swap update, lease, enqueue once per dedupe key, claim/complete/release/obsolete jobs | hosting lifecycle |
| Hosting lifecycle (`hosting/service.ts`, `deadlines.ts`) | stage, lifecycle version, generation, deadlines, hold, credential of each row | reconcile with billing, provision, bootstrap timeout, region replacement, suspend, delete, restore, cancel/resume, readiness report, operator actions | billing's role record, provider, Stripe, timers |
| Hosting provider (`hosting/provider.ts`, `bootstrap.ts`, `readiness.ts`) | servers at Vultr, what each was created with | create, find by label, get, power, delete (asynchronous) | lifecycle; servers report back over HTTP |
| Hosting notices and policy (`hosting/emails.ts`, `policy.ts`) | e-mail jobs, settings | queue and send once | lifecycle outbox |
| Billing webhooks (`billing/service.ts`) | customer row, in-flight set, checkout locks | `handleWebhook` and one handler per event, recovery of a pending purchase, welcome e-mail, refunds and disputes | licence registry, Stripe look-ups, e-mail, Earn |
| Billing store (`billing/store.ts`) | customers, checkout markers and pointer, seen events, tokens | put, claim, mark | every billing handler |
| Earn hand-over (`billing/after-commit-outbox.ts`) | staged / committed events | stage, commit, drain, complete | billing → Earn |
| Licence registry (`license.ts`) | issued licences, expiries, revocations | issue, setExpiry, revoke | billing, leases |
| Roles and bundles (`billing/roles.ts`, ...) | software + hosting sides of a bundle | attribute an event, apply both sides | billing ↔ hosting |
| Launch checkout (`billing/launch.ts`) | intents, claims of licences, sessions | create, retry, expire and seal a checkout, reconcile it with Stripe | hosting reservations, billing |
| Device recovery (`install-recovery.ts`) | recovery phases | move a licence to a new device | billing, leases |
| Billing configuration, Stripe client, reporting, reminders | one settings file each | parse, sign, list, remind | billing |
| Licence leases (`license-leases.ts`) | hash-chained signed ledger, head, segments, lock file | challenge, activate, renew, rebind, deactivate, override | licence registry, recovery |
| Billing reminders (`billing/reminders.ts`) | one row per subscription: message, attempt, answer | read Stripe, compose once, send, resend under the same key | billing, e-mail |
| Seats (`seats.ts`), check-ins (`checkins.ts`) | installs per licence with their last sign of life; the last check-ins | admit, refuse, release, limit; append | HTTP check-in |
| Customer sessions (`customer-sessions.ts`) | sign-in links, sessions, each in a file | mint, exchange once, slide, sign out, prune | billing records, portal |
| Earn ledger (`earn.ts`, `earn-registration-owner.ts`, `server.ts`) | members, claims, immutable entries, months; owner bindings and dashboard grants | join, claim, verify, rate, assess fees, record, reverse, preview and import a CSV; bind an owner | billing records, portal |
| Earn payouts and referrals (`earn-stripe.ts`) | payout jobs, profiles, invoice rows, seen events | admit, submit, reconcile, settle; activate a code, record a sale, adjust it | Earn ledger, Stripe, hand-over |
| Candle collector (`candles/collector.ts`, `store.ts`) | rows on disk, caches of coverage, holes and proved emptiness; pace per venue | plan a pass, fetch, write, prune, back off, report health | venues, stream |
| Candle stream (`candles/stream*.ts`, `bitunix-fold.ts`) | forming, held and deferred bars | ingest, close by flag or by order, settle, write | socket pool, collector |
| Timeframe history (`candles/timeframe*.ts`), seed pool | day and month files, horizon frontier and proofs, worker slots and queue | write, fold, prune, page a horizon, seed, time out | candle service, workers |
| Candle service (`candles/service.ts`, `snapshot*.ts`) | snapshot cache, shared builds, timers | answer, build, recheck, tick, prime, prune, stop | collectors, store, HTTP |
| Socket pool (`net/socket-pool.ts`), liquidations (`liq/*`) | connections with generations, retired sockets; archive, status note | slice, open, reopen, resync, stop; ingest | venues |
| Market capitalisation (`marketcap/*`) | catalogues, pair maps, facts, credit ledger, published snapshot | refresh the mapping, retry, quote, charge, publish | CMC, CoinGecko |
| Releases (`release-*.ts`, `bin/publish-release.ts`) | control state, latest pointer and shelf per channel, pending marker, lock | publish, roll back, recover, hold, attest | apps' updater, feedback |
| Operations and upgrade (`operations.ts`, `bin/*`) | status files across processes | request, run, report | systemd |
| Notifications (`notifications.ts`) | an outbox of rows | enqueue, configure, flush, retry | all components, Discord |
| Contact copy (`marketing-*.ts`) | checkpoint per contact | pass, update, record | billing records, Brevo |
| Support chat (`support-*.ts`) | conversations, usage rows with reservations | ask, answer, take over, recover | portal, model provider |
| Feedback (`feedback.ts`), community | append-only rows, pictures in a directory | add, set status, delete | portal |
| Compression queue (`async-gzip.ts`) | reservations, queue, bytes held | reserve, compress, release | HTTP |
| HTTP server, rate limits (`server.ts`, `ratelimit.ts`) | counters | route, authenticate, timers | everything |

### Hard behaviours

*Hosting.* A tick starts every 30 s whether or not the last one ended, works a
list read at its start, and carries one instant (`nowMs`) through every await.
Provider calls may succeed and be reported failed. Rows change under a tick
between its read and its compare-and-swap. A dedupe key is permanent, so a job
obsoleted or sent can never be queued again under that key. Deletion is
irreversible and asynchronous.

*Billing.* Stripe delivers at least once and in no order. One purchase writes
five files; the process may die between any two. Checkout handlers serialise on
a per-customer lock, invoices and refunds do not. The welcome e-mail is awaited
with a row in hand that is written back afterwards. An event is marked seen
only after its handler, and Earn must get it exactly when it was applied.

*Leases.* Several challenges are open at once and their proofs come in any order, also
after the binding moved. Clocks are set back. One append writes a lock, perhaps a
rotation, a line and a head, each durable on its own; and the lock is there because
another hub may run on the same directory.

*Market data.* Sockets deliver after they were retired, reconnects cut a minute anywhere, and
one venue never says that a minute is over. Caches say what the disk holds while the stream
writes, the retention deletes and the listing changes below them. A page of history asked for
before the frontier moved answers afterwards. Workers answer after their timeout, callers leave
while their bytes are compressed. A refusal must be obeyed although other requests succeed meanwhile,
credits are spent before their file is written, and a tick outlives `stop()`.

*Money and publication.* A payout's answer is lost and it is submitted again, perhaps after Stripe
forgot its key; refunds and disputes overtake the commission they reduce; an operator reviews a
page that is no longer true. A publication writes control state and pointer one after the other and
may die or fail between any two steps, also while it is rolled back.

*People.* Two installs race for one seat, a link is exchanged after its e-mail changed its owner,
a person takes over a chat whose answer is under way, the month of a budget ends, a report's row is cut
short, a notification's row is replaced under its own request.

### What makes each component correct

*Hosting:* one server per order; the row can verify the server that was
created; every gate checked before an await still holds when the write
succeeds; a deadline shown has its job; nothing is deleted before the paid term
and the retention, under a hold, or comes back afterwards; no server survives
its row; an ended subscription does end. *Billing:* every purchase buys exactly
one term of its own; what is acknowledged is on disk; no event shortens a term
or revives a revoked licence; a settled term is not undone by late news; every
delivered event is applied and handed to Earn once applied. *Leases:*
a consumed or outdated challenge never moves a binding, the seat limit holds, leases
are numbered in order, a licence locked by the operator gains no machine, and the
files read as one log that only grows. *Market data:* what is kept are final bars of
minutes that are over; what the collector believes is on disk; a written row stays readable as
long as its layout keeps it; every job and every compression settles once; a refusal is obeyed and
credits are never under-counted; nothing is armed after a stop. *Earn:* one owner per licence, no entry is
rewritten, a job is paid once or returned, a sale earns what refunds leave of it. *Releases:*
pointer and control state agree, and what a pointer names is on its shelf. *People:* a seat is not
traded between two installs, one link opens one session, the assistant neither overrules a person nor
outspends its month, a stored report stays, an owed message stays until it is shown.

## 2. Modules and the code they stand for

| Module | Models | Extends |
|---|---|---|
| `HostingStore` | the methods of `HostingStore`: each maps the value of the file to its next value | standard modules |
| `HostingLifecycle` | pure lifecycle rules: billing signals, deadlines, restore, readiness, failure | `HostingStore` |
| `Hosting` | the system: ticks, HTTP handlers, operator, billing, provider, clock, crash | `HostingLifecycle` |
| `Hosting_proofs` | the file and what ticks and handlers know of it: theorems and proofs | `Hosting`, TLAPS |
| `HostingServers_proofs` | what every step does to servers, schedule and clock, and why an end once committed stands: theorems and proofs | `Hosting_proofs` |
| `BillingStore` | the files behind billing; each write prepends an image to a trail | standard modules |
| `BillingWebhooks` | handlers, requests, locks, the drain to Earn, crash | `BillingStore` |
| `BillingWebhooks_proofs` | theorems and proofs about `BillingWebhooks` | `BillingWebhooks`, `FiniteSetTheorems`, `WellFoundedInduction`, TLAPS |
| `MCBilling` | the table of Stripe events and the symmetry of requests | `BillingWebhooks` |
| `LicenseLeases` | the operations of `LicenseLeaseService` on the book its ledger replays to, the operator, the clocks | standard modules |
| `LicenseLeases_proofs` | theorems and proofs about `LicenseLeases` | `LicenseLeases`, `FiniteSetTheorems`, TLAPS |
| `LeaseLedger` | `appendEvent`, `replay`, rotation, constructor: lock, segments and head as files written by several hubs | `SequencesExt` |
| `SignedLog` | what `LeaseLedger` promises, implemented by it (`KeepsItsPromise`) | standard modules |
| `LeaseLedger_proofs` | theorems and proofs about `LeaseLedger` | `LeaseLedger`, `SequenceTheorems`, `WellFoundedInduction`, TLAPS |
| `MCLeases` | symmetry for TLC | |
| `SocketPool` | connections, generations, retired sockets that call back | `SequencesExt` |
| `CandleStream`, `LiqStreams` | what rides on it: live candles with their closure and settling; liquidations with their roster loader and status note | `SocketPool` |
| `BitunixFold` | the venue that never says a minute is over | standard modules |
| `CandleCoverage` | what the collector believes of one symbol, under passes, stream writes, retention, relisting, restart | `FiniteSetsExt` |
| `VenuePace` | rate, refusals, cooling, health of one venue | `FiniteSetsExt` |
| `TimeframeShelf` | day and month files of one series, folding, retention, a change of layout | standard modules |
| `HorizonCursor` | the long-horizon cursor, pages, proofs of emptiness, long answers after a relisting | `FiniteSetsExt` |
| `SeedPool`, `GzipQueue` | bounded pools: worker threads with time-outs; compressions with reservations | `SequencesExt`, `FiniteSetsExt` |
| `SnapshotCache` | shared builds, slots, retries and expiry of snapshots | `SequencesExt` |
| `CandleTimers` | every timer chain of the candle service across start, stop and ticks | standard modules |
| `MarketCaps` | catalogues, pair maps, credits, publication, restart | standard modules |
| `HostedCheckout` | mixed and direct hosting checkouts of several customers up to the paid reservation: rows, intents, claims, sessions, expiry | standard modules |
| `EarnLedger`, `EarnOwners` | the books; which owner a customer is | `FiniteSetsExt` |
| `EarnPayouts`, `EarnReferrals` | the worker that pays; commission against refunds and disputes | `Functions`, standard modules |
| `EarnPayouts_proofs` | theorems and proofs about `EarnPayouts` | `EarnPayouts`, `SequenceTheorems`, TLAPS |
| `Releases` | a publication and its recovery, write by write | standard modules |
| `Seats`, `CustomerSessions` | seats of a licence; links and sessions | `Functions` |
| `SupportChat`, `Feedback` | conversations and their budget; reports and pictures | `SequencesExt` |
| `Notifications`, `Reminders`, `CustomerSync` | outgoing messages and the contact copy | standard modules |
| `MCMarketData`, `MCOperations` | the instances of these parts for TLC | by INSTANCE |
| `MarketData_proofs` | theorems and proofs about six parts of `MCMarketData` | `MCMarketData`, `FiniteSetTheorems`, `SequenceTheorems`, TLAPS |
| `Operations_proofs` | theorems and proofs about nine parts of `MCOperations` | `MCOperations`, `FiniteSetTheorems`, TLAPS; `EarnPayouts_proofs` by INSTANCE |

**Hosting.** `db` is `hosting-db.v1.json` for one instance: `db.row` the row,
`db.outbox` every job ever queued (its key is the dedupe key), `db.res` the
provider resources. `sub` is billing's role record, `elig` the owner's licence,
`vps` the provider's servers (their generation and credential are what the
label and cloud-init carry), `stripe` the `cancel_at_period_end` Stripe holds.
`wk[w]` is a tick in flight: where it awaits, its instant, the jobs left in its
list and what it holds of the row it read; `rq[r]` is a handler in flight.
`TickStart` is `reconcileAll` + `duePending`; `DrainNext` is `claimOutboxJob` +
`runJob` to its first await; each `...Answer` action is the code from one await
to the next. Every answer has a failing alternative with and without the effect
at the provider. `row.version`, which the code uses only for compare-and-swap, is
kept as a flag `fresh` on each holder of a row: any update by another step
clears it (`AfterStep`), and a write guarded by the version is guarded by `fresh`.

**Billing.** `disk` is the value of all files for one Stripe customer. A handler
is an operator from a trail of disk images to a `Result`: its trail, where it is
next (`"mail"`, `"resolve"`, `"finish"`, ..., `"failed"` for a 500) and the row it
goes on with. `Run` either takes the head of the trail or crashes and leaves any
image of it. `EnterCheckout` is the turn given by `withCheckoutLocks`,
`MailAnswer` writes back the row held across the e-mail, `ResolveAnswer` follows
the charge look-up at Stripe, `Finish` marks the event seen and commits the Earn
row, `DrainStart`/`HookDone`/`HookFails` are `drainAfterCommit`. Terms are in
small units; the policy's grace, one-off and bootstrap lengths are constants.

**Leases.** The work is split where the code splits it. Every operation is synchronous: it
replays the ledger, decides, and appends one event. `LicenseLeases` takes the append as one step
on the `book` (`ReplayState`: bindings, challenges, spent nonces, overrides, locked licences,
latest signed time): the event is in force, or its line is written without its head and the
ledger is `refused` from then on. `LeaseLedger` has the steps of that append and shows that these
are the only outcomes for a hub alone on its files. A proof whose challenge was spent returns the
stored result and changes nothing, so it is a stutter; a failed guard is a thrown error and a stutter
too. The bearer's own expiry and the registry's are separate inputs, as in `authenticate`. The
monotonic clock is represented by `drift`, how far the wall clock is off it, and `anchor`, the drift
when the process started: `rawNow` raises when the first has grown by more than the skew.

In `LeaseLedger` a hash is the history it stands for, so a line holds the history before it and
the head the whole history. `Torn` is bytes that are no JSON. `hub[h].pc` is the next call to
the file system of a hub in `appendEvent`; a hub may die before any of them, any write may throw, a line may be
half written. `replay` is one step except for its truncation, which works at the offset
read before and is not locked (`Truncate`). `log`, `acked`, `basis` and `clashed` record what
happened and are read by no action.

**Sockets and streams.** `conns` holds the connections of a pool under their identity with the
generation of their socket; `socks` is every socket that can still call back, with the frames on
their way. A callback is heeded only when it is `Current`. `CandleStream` and `LiqStreams` extend the
pool with their own `extra` of a connection (the forming bars; the acknowledgement) and say what a frame
does through `Receive`. In `CandleStream` the venue is `venue[s]`, the revision each minute has reached,
so that "final" is a fact of the venue and not of the code that claims it.

**History.** `CandleCoverage` has one symbol: `held`, `rest`, `frontier`, `empty` are on disk,
`cov`, `byDay`, `hole`, `skip`, `floor` in memory; a pass plans and then awaits its requests one by one.
`TimeframeShelf` has one series of one month: a row is the strength of what a slot holds, so that a
coarse row never replaces a native one. `HorizonCursor` has one series without its arithmetic: `blank` records
when an open was really answered empty. `SnapshotCache.rows[p]` counts the windows of a pair the store holds in
full and stands for the fingerprint of its files.

**Pools, pace and credits.** A promise is the sequence of how it was settled (`SeedPool.settled`), so that
settling twice shows. `VenuePace.refusal` and `asked` remember the last refusal and request and are
read by no action. `MarketCaps.billed` is what the provider charged, against the `ledger` in memory and its `disk`.
`CandleTimers` tells a timer from the field that points at it.

**Checkout.** `HostedCheckout` has the rows of all owners where `Hosting` has one: `rows` in the order they were made, which
`reconcileOwner` goes through. A mixed attempt awaits the prices (`prove`), the provider (`quote`) and Stripe (`post`); its webhook awaits the
recovery of the session (`paid`), the application of the software (`software`) and the lines of an expired one (`expiry`). `req` and
`hook` carry the intent read before the await, which the code writes back. `session` and `direct` are Stripe's side, and outlive a crash.

**Earn.** Each operation of the ledger is one synchronous transaction; what can be stale is `page`,
`view` and `preview`, which the next request carries. `EarnPayouts` has the worker's steps between two calls of
Stripe; `stripe[j]` are the payments made for a job's key, `keyAt` when the key was first used, so that a forgotten key would pay
again. `EarnReferrals` has one serial queue; `sale` is what Stripe says of a sale now, `rows` and `entries` what the
books say. A code sells from the moment an activation has created it; `sale.early` remembers that the profile did not name it yet. `EarnOwners.answers` records who a customer was taken for.

**Releases.** One step per write of `commitReleasePublication` and its rollback, each of which may fail before or after
it took effect, or be the last. `stood` records the Betas whose publication was finished.

**People.** `told`, `peak`, `opened`, `owed`, `received`, `lapsed`, `shown`, `billed`, `top`, `dropped`,
`overruled`, `acked`, `cut` are history: what was said or done, for the properties. A row object held across an
await is `Notifications.held`, with a flag that says whether it still is a row of the state.

Definitions whose comment begins "Mutant:" or "A mistake:" are plausible bugs of the
definition that follows. No specification uses them; they show that each property can fail.

## 3. Runs

Each run's properties are stated in the module next to a comment that names the
code. All exhaust their state space (the violations stop at the first error). Every property has
a mutant in `PROJECT.json`: a definition replaced by the plausible bug stated just before it, under which the run fails.

| Run | Events allowed | Shows | Distinct states |
|---|---|---|---|
| `hosting_setup` | reports, refusals, crash, failed calls, price refusal, retry | `OneServer`, `CredentialKept`, `SnapshotsHold` while an order is set up | 1.03 M |
| `hosting_end` | status, payment, cancel, resume, reports, missing key | `PaidTermRespected`, `NeverRevived`, `ReadyIsProven`, `SuspendedOnSchedule` | 4.2 M |
| `hosting_operator` | force-suspend, force-delete, hold, flag, licence, crash, failed calls | `NoLeak`, `HeldNeverDeleted` | 3.46 M |
| `hosting_live` | status, payment, cancel, resume, crash | `EndKeepsItsJob`; `EndedIsDeleted` under fairness | 44 k |
| `billing_webhooks` | two purchases, a subscription checkout, an invoice refused and paid, a dispute | `TermsStack`, `NoFreeTerms`, `SeenIsPaidOut`, `NeverShortened`, `RevokedStays` | 4.7 M |
| `billing_live` | a purchase and a refund, welcome e-mail sent again, Earn on | `EventsApplied`, `EarnEventually`, `EarnOnlyApplied` | 18.6 k |
| `leases` | three challenges over activation, renewal, rebind, release; overrides, lost machines, revocation, expiries, clock, restart, failed append | `SeatsHeld`, `MachinesDiffer`, `OneUsePerRevision`, `LeasesInOrder`, `LockedGainsNothing` | 0.96 M |
| `lease_ledger` | two hubs, four appends, rotation, three failures | `Kept`, `DecidedOnTheLog`, `KeepsItsPromise` (refinement of `SignedLog`) | 0.80 M |
| `market_data` | twelve parts, see below | `FinalBarsOnly`, `WritesAreOwned`, `StreamTold`, `HistoryIsKept`, `AnswersSettle`, `UsageIsBounded` | 2.06 M |
| `operations` | thirteen parts, see below | `EarningsHold`, `BooksOnlyGrow`, `PublicationIsWhole`, `CustomersAreServed`, `MessagesAreTracked` | 4.6 M |
| `hosting_restore_race`, `billing_lost_term` | | counterexamples, see section 6 | |

**Composition.** `market_data` and `operations` hold several components each. These share no state in the
models (a part's environment, such as the stream that writes under the collector, is inside the part), so their
product would only multiply states. A behaviour of the run is therefore one of a single part: `part` is chosen at the start
and never changes, the parts use the same variables `v1`, `v2`, ... in the order their instances name them, and a
property of the run is the conjunction, over its parts, of the property each module states
(`part = "seed" => Seeds!EveryJobSettles`). Nothing is lost against a run per part. The parts that do meet are
composed for real: the streams extend the socket pool, `Hosting` its lifecycle and store, billing its store, and `LeaseLedger` meets
`SignedLog` by refinement.

**Hosting bounds.** One tick and one handler in flight, one row; the theorems allow ticks that overlap. `Grace` and
`Retention` are 1 so that three clock values separate paid, grace, retention and
after; `MaxAttempts` 2 or 3 reaches the attempt limit, `Regions` 2 gives one
replacement and then the end of setup, `MaxServers` 2 lets a second server
exist, which is all `OneServer` needs, and makes the third create fail.
`MaxLv` stops new outside events after two to four rounds of change; what is
in flight then still runs out. `LeaseTtl` 0 in `hosting_setup` lets a crashed
tick's lease run out at once. Events are split over the runs by the properties they
can disturb; the theorems of section 5 hold for all events, ticks and handlers together, under the hypotheses they state.

**Billing bounds.** Two requests, so that one handler awaits while others run;
two sessions, so that a second purchase meets an unfinished first one; one
crash, at any write of any step, and one event id forgotten (the cap on seen ids
is hub-wide) in `billing_webhooks`. `OneOff` 1 with two clock values lets a
claimed term run out before the hub is up again and the licence is issued. Every
event may be delivered any number of times until seen. Status changes and
`charge.succeeded` are modelled (`OnSubscriptionUpdated`, `OnChargeSucceeded`)
but left out of the instances: the one writes only the subscription mark, the
other only a charge id. `MaxPending` 3 is above the number of wanted events, so the
cap itself is not met. `billing_live` is small because TLC's fairness tests
enumerate every handler; two requests contending for the checkout lock are in
the safety runs only.

**Lease bounds.** `leases`: one licence, as an operation reads no other licence's rows; two
activations, installs and keys, so that two machines can collide in install, in key or in both; three
challenges, the least in which one is spent, one outdated and one still open;
limit 1 with overrides to 2, so that a seat is gained and given back; a clock of three values that can be set one
back or forward (`MaxDrift` 1 with `Skew` 0 makes a forward jump beyond the skew), `Ttl` 2 and
`LeaseTime` 1 so that challenges and licences end within it; one crash or failed append.
`lease_ledger`: segments of two lines, so that four appends after the schema marker rotate twice
and a torn line may be first or last of its segment; two hubs and two pids, so that a restarted hub
meets a lock that bears its own pid.

**Market-data bounds.** The bounds of the parts that have theorems are constants of `MCMarketData` and are given in `market_data.cfg`; those of
the others stand at their instances. *Stream:* one symbol, two connections and three generations, so that a
retired socket still has frames while its successor is subscribed; two minutes of two revisions, one deferred bar, so that
the limit of deferral is met. *Liq:* two perpetuals on two connections, two starts, so that a loader outlives its pool.
*Fold:* four minutes, of three times each, two of them in the finalisation window. *Seed:* two slots, a queue of one, four
jobs: full, refused, handed on. *Gzip:* four requests, one compressor, three reservations, four bytes for sizes of one and two: each limit is
met while the others are not. *Cover:* six minutes in days of three, pages of three, two listings; every answer a venue can
give to a page. *Pace:* rates 1 to 4, so that halving and climbing meet both ends; a Retry-After longer than
the cooling and none. *Snapshots:* two pairs, two keys, a cache of one entry and one slot, two ticks to a window.
*Shelf:* a month of two days, one with two slots, kept zero or one day. *Horizon:* two candles, pages of two, four ticks, two listings.
*Timers:* two starts, three days, two venues. *Caps:* one venue, two symbols, a ceiling of three credits, two months.

**Operations bounds.** *Ledger:* two members and two UIDs, so that a UID can pass from one to the other; two entries, two months,
three revisions, so that page, view and preview can each be stale. *Owners:* two licences under one e-mail, two Stripe customers, members from
before the bindings. *Payouts:* two sources, two half-days: a key is forgotten after two, a job is not submitted again after one; one entry booked by others, so that a
debt of one source meets a credit of the other. *Referrals:* one invoice, one checkout, one sale, two promotions, the first one in the profile at the start, the second one perhaps left at Stripe by an activation that failed, commissions of nothing, a half and the whole of a price of two
(a commission of 0 % is a setting the code accepts: such a sale is on record and earns nothing).
*Releases:* two builds, three publications, two faults: one fails and its rollback fails too. *Seats:* three installs, limits 1 and
2. *Sessions:* one address, three links, two sessions, lifetimes that differ. *Notices:* three in an outbox of two,
two attempts, one fault. *Contacts:* one contact, two accounts, two facts, two passes.
*Reminders:* hours around the limits of 23 and 24 hours, scaled to 2 and 3. *Chats:* two conversations, two calls, two months, limits below and above
two reservations. *Reports:* three attempts in a store of two with two pictures. *Checkout:* two attempts of one licence and a direct checkout of the
same customer over a budget for one server, so that each pair competes; two rows in all. The same properties were also checked
with a budget for two servers and three rows (7.1 M states, too long for the run), and with a third attempt without a licence.

`CHECK_DEADLOCK FALSE` is set for these two runs, whose parts end (all jobs asked for, the clock at its bound), for the leases, where all nonces or events are used up, and for
billing because the instance ends: all events seen, the clock at
its bound. Symmetry over `Requests` is used in the billing safety runs only.

## 4. Fairness

`hosting_live` uses `LiveSpec`: the tick's steps and the handlers' answers are
weakly fair (`setInterval` fires; provider and Stripe calls have time-outs);
`DrainNext` and the clock are strongly fair because a crash may come between
any two steps but does not come every time before the same job; the provider ends
a deletion it accepted. `Prompt` lets the clock move only when no work is due: ticks come every
30 seconds, deadlines are days apart. Because the clock is bounded, new billing
changes and crashes are only taken while a full end of service still fits.

`billing_live` assumes: Stripe redelivers an event until it gets a 2xx (its
documented behaviour, and the reason the hub answers 500); a look-up at Stripe
fails any number of times but not for ever (strong fairness); the other steps of
a handler happen; the drain timer goes on; Earn accepts each event in the end
(strong fairness of `HookDone` per event). Crashes are bounded by `MaxCrashes`.
`EventsApplied` excuses what the code refuses for ever (`Lost`): a purchase for a
revoked licence, and a payment whose term ended before any licence was issued.

## 5. Proofs

`Hosting_proofs` proves, for any sets of ticks and handlers, any constants that
satisfy the named assumptions (`SystemAssumption` and those of the lifecycle
module) and every event enabled at once:

| Theorem | States |
|---|---|
| `TypeCorrect` | `Spec => []TypeOK` |
| `SnapshotsCorrect` | `Spec => []SnapshotsHold` |
| `ReadyCorrect` | `Spec => ReadyIsProven` |
| `HoldCorrect` | `Spec => HeldNeverDeleted` |

`SnapshotsHold` says what optimistic concurrency buys: a tick or handler whose
compare-and-swap is going to succeed still sees the conditions it checked before
its await. It is not inductive alone. The invariant is

    IInv == TypeOK /\ JobsKnown /\ SnapshotsHold

`JobsKnown` ties the jobs a tick holds to the outbox (jobs are never dropped), so
that `JobOf` is defined; `TypeOK` gives the row its fields. The argument rests
on two relations between values of the file. `Follows(d, e)`: both are typed, every
job of `d` is still in `e`, the row's version never goes back, and a row with the same
version is the same row. `Leads(d, e)`: moreover the row was not made ready, deleted or
ordered on the way. Each operator of the store and of the
lifecycle gets one lemma (`EnqueueLeads`, `UpdateInstanceFollows`, ...), each
action composes them, and `StepPreserves` turns "the step's db leads" into
`IInv'` for everybody who is not acting. The two action properties come from the
same invariant: `ReadyIsProven` from what `health` still sees, `HeldNeverDeleted`
from what `delete_get` and `delete_call` still see.

`HostingServers_proofs` goes on with the servers and the schedule, again for any sets of handlers and any constants:

| Theorem | States | Under | Invariant |
|---|---|---|---|
| `SuspensionCorrect` | `Spec => SuspendedOnSchedule` | | `Punctual` |
| `PaidTermCorrect` | `Spec => PaidTermRespected` | `Unforced` | `TermInv` |
| `OneServerCorrect` | `Spec /\ []OneAsks => []OneServer` | | `ServersCounted` |
| `CredentialCorrect` | `Spec /\ []OneAsks /\ [][StaysGone]_vars => []CredentialKept` | | `CredentialsStand` |
| `NothingLeftCorrect` | `Spec /\ []OneAsks /\ [][CreateAnswered]_vars => []NoLeak` | | `NothingUnknown` |

The first half says once what a step can be. For each operator of the store and the lifecycle a lemma tells the
row it returns as far as these properties see it (`RestoreRow`, `RenewRow`, `ReleasedRow`, ...); one lemma per action
composes them, and `NextKind` gathers the result, `StepKinds`:

- `ServerStep`: the step leaves servers and their columns alone (`Calm`) or is one of ten: an attempt spent, a server
  missed, a boot installed, a token minted, a server created, an unknown create, a recheck, a removal, a region cleared, a call that may be lost.
- `ScheduleStep`: it keeps the schedule (`KeepsSchedule`) or is a suspension that is due, the commitment of a deletion that is
  due, one of the billing signals' four outcomes, a hold or its release, or forced by the operator.
- `Timely`: no tick's instant changes, or a tick takes the present.

The second half never looks at an action again. Each invariant is shown by the cases of `StepKinds`.

- `TermInv` adds to the type invariant that the two deadlines of a row are set together and in order, that a row past its paid
  term has a reason, and that an unpaid row keeps the retention (`ScheduleIsSound`).
- `ServersCounted` says at each await what a tick's request can find: no server, or the only one of
  that generation, and that no server has a number the file has not reached.
- `CredentialsStand` says that a tick with a create under way carries the credential of the row it holds, and that
  a row that remembers a server remembers the credential this server booted with.
- `NothingUnknown` says that a server is in the file or known to a tick that will put it there.

`Unforced` is about a constant: it leaves out force-suspend and force-delete, which override the paid term by design. The other
hypotheses are about behaviours. Any number of ticks may overlap and every event may occur; each hypothesis excludes one thing at one
moment, at which TLC finds the conclusion false, and the theorem says that nothing else can break it:

- `OneAsks`: no two ticks wait at the same instant for the provider's answer to a look-up, a create or a delete. Nothing in the
  code sees to this: `tick` has no re-entrancy guard, and two that ask at once create twice (section 6). One tick at a time satisfies it, and so do
  overlapping ticks that run different jobs of the row one after the other, that write, or that wait for a readiness check, a power-off or Stripe.
- `StaysGone`: a row that is deleted while a server of it is there, or a create is under way, stays deleted. An operator's retry while
  the deletion is under way brings it back (TLC: `Events` {"retry", "force_delete", "fail"}, `InitStage` "ready"), and a row brought back has forgotten the credential of the server it lost.
- `CreateAnswered`: the answer to a create that made a server arrives. Calls that fail before they took effect, lost
  answers to a deletion, and crashes anywhere else are allowed. Without it a server may be left (finding 4).

The last section of `HostingServers_proofs` shows why a row that is being deleted stays so, which nothing in the code says in one place:

| Theorem | States | Under | Invariant |
|---|---|---|---|
| `EndCorrect` | `Spec /\ []BuildsAlone /\ [][InGoodTime]_vars => NeverRevived` | | `EndInOrder` |

The drain runs a job only if it carries the row's lifecycle version and generation. A deletion is committed by
such a job, so what could bring the row back is a job under the same two numbers that sets a server up. `Orderly` says that
there is none: no job is ahead of the row, a scheduled deletion's key is its version, deletions and set-ups never carry
the row's numbers at once, an ended row has its deletion, and an ordered row has neither a reason to end nor a deletion. `EndInOrder` adds what
ticks in flight rely on: one that sets a server up waits over a row that has not ended, one that deletes works for such a job. Each operator
gets a lemma that it `KeepsOrder`; the two interesting kinds are those that move the numbers on (the row is then `Fresh`,
nothing carries its numbers) and those that queue a job under them.

Its two hypotheses say when the code relies on luck, and every event there is may occur otherwise. `BuildsAlone`: while a tick waits for the provider about a
server it is setting up, no other tick is under way; a second one may commit a deletion meanwhile, and the answer the first one waits for is then written
over it. `InGoodTime`: an operator does not retry the setup of a row that has ended or carries a deletion, does not force-delete an
order without a server, and an order does not lose its licence while its setup is queued or under way (finding 5). A licence that lapses at any other
moment, a retry of a row that has no end ahead of it and a forced deletion of a row with a server are allowed, as are force-suspend, holds, crashes and failing calls.
TLC finds an ended row brought back at each of the excluded moments; for `BuildsAlone` with two members in `Workers`, `Events` {"force_delete"} and `InitStage` "ordered".
The conjunction was first checked by TLC on the constants of `hosting_end`.

`LicenseLeases_proofs` proves every property of the run `leases`, for any sets of
licences, bindings, challenges, installs and keys, any limits and any clock values
that satisfy `LeaseAssumption` (finitely many bindings, lengths of time that are
numbers, a licence row with an expiry that is a number):

| Theorem | States | Needs besides `TypeOK` |
|---|---|---|
| `TypeCorrect` | `Spec => []TypeOK` | |
| `SeatsCorrect` | `Spec => []SeatsHeld` | |
| `MachinesCorrect` | `Spec => []MachinesDiffer` | |
| `ChallengesCorrect` | `Spec => []OneUsePerRevision` | `Behind` |
| `LeasesCorrect` | `Spec => []LeasesInOrder` | `Ahead` |
| `LockedCorrect` | `Spec => LockedGainsNothing` | |

The argument has two halves. The first shows, one lemma per operation, that a step does
one of five things to the book (`OneEvent`): nothing, one challenge written (`Asked`),
one spent (`Answered`), one binding retired (`Retired`), one limit set (`Seated`); each
carries the conditions the operation checked first. The second half proves each property
once per kind of event. `OneUsePerRevision` is not inductive: the invariant `Behind`
adds that the binding of a spent challenge has moved past the revision the challenge
names, so that a second challenge for that revision is not `Current`. `LeasesInOrder`
needs `Ahead`: no recorded lease is ahead of its binding's numbers or of the time of the
last event, so that the next lease, numbered on and signed at `ServerNow`, is the last
in every respect. Seats are counted with the cardinality lemmas of the library.

`LeaseLedger_proofs` proves every property of the run `lease_ledger`, for any number of hubs and processes, any size of a
segment and any number of appends, deaths and writes that throw, under `LedgerAssumption` (the mark of a
lock without an owner is no hub and no process, there is a process id for each hub, a segment has at least one line, and the first
event fits the bound):

| Theorem | States |
|---|---|
| `LedgerAgrees` | `Spec => []IInv` |
| `TypeCorrect` | `Spec => []TypeOK` |
| `LogWasDecided` | `Spec => []DecidedOnTheLog` |
| `AcknowledgedIsKept` | `Spec => []Kept` |
| `PromiseKept` | `Spec => KeepsItsPromise` |

The invariant has two halves. `Shape` and `Decided` hold whoever writes at the same time: a line that is not torn holds
the history its event was decided on (`Good`), so a chain that is read is made of events that were decided on it, in
whatever order lines and segments came to the disk. `Alone` holds until two hubs change the files at once, which is what
`clashed` records: a hub between its lock and its unlock has the lock, and what it checked under the lock (the
segment is repaired, the head counts the lines) is still so when it writes. For a reader each action is one of three
steps (`Seen`): nothing, a history that cannot be read any more, one more event at the end. These are the steps of
`SignedLog`, so the refinement follows action by action. The facts about `FlattenSeq` over the segments rest on a least counterexample, again because
the induction theorems take an operator.

`BillingWebhooks_proofs` proves every safety property of the runs `billing_webhooks` and
`billing_live`, for any sets of events, sessions and requests, any facts Stripe states in
the events, any term, grace period, clock and bounds that satisfy `TermAssumption` and
`BillingAssumption` (finitely many events and sessions):

| Theorem | States |
|---|---|
| `Invariance` | `Spec => []IInv` |
| `PurchasesStack` | `Spec => []TermsStack` |
| `NothingFree` | `Spec => []NoFreeTerms` |
| `SeenWerePaidOut` | `Spec => []SeenIsPaidOut` |
| `HandedWerePaidOut` | `Spec => []EarnOnlyApplied` |
| `TermsOnlyGrow` | `Spec => NeverShortened` |
| `RevokedForGood` | `Spec => RevokedStays` |

A step of a request leaves a trail of disk images, one per write, and a crash may leave any
of them. So the invariant speaks of one image, and a step preserves it when every image of
its trail is sound. `Sound(d)` has five parts:

- `Shape`: rows, licences and pointer name what exists.
- `Settled`: an applied marker is that of the customer's licence, and this licence
  reaches its target unless it was revoked.
- `Covered`: an event that is seen, or committed in the outbox, is paid in.
- `Stacked`: a pending marker is the one the pointer names, and the targets of two
  claimed sessions are at least one term apart.
- `Capped`: neither a target nor the customer's expiry exceeds one term per claimed session
  plus the longest single term.

`SeenIsPaidOut` alone is not inductive: a look-up at Stripe, a welcome e-mail or a recovery
separates what a request decided from what it writes. `RequestsOK` says what a request
still knows where it awaits: one about to finish has paid its event in; one
that sends an e-mail carries a row of the customer's own licence, although other columns of
that row may be stale (finding 2); one that finished a recovery finds nothing
pending, and there is only one such request, which is what the checkout lock is for. `Keeps(a, b)` is the order between
images: nothing granted in `a` is taken back in `b`. `NeverShortened` and
`RevokedStays` follow from it, and so does everything a waiting request knows.

The proof has a lemma for each write of the store, then one for each handler (`Grows`:
every image of its trail is sound and keeps what the first one granted), then one per action, and
`NextIInv` puts them together. `NoFreeTerms` counts claimed sessions with the cardinality lemmas of the
library; that a finite set of terms has a longest one is shown with a least counterexample,
because the library's induction theorems take an operator as a parameter.

`EarnPayouts_proofs` proves `PaidOnce`, the payout part of `EarningsHold`, for any set of funding sources, any length of a
month, any number of jobs and times. The theorems assume `PayoutAssumption`, of which the part that matters is `Fresh < KeyLife`:
a submission is given up (after 23 h) before Stripe may forget its key (after 24 h).

| Theorem | States |
|---|---|
| `PayoutsAgree` | `Spec => []IInv` |
| `PayoutsOnce` | `Spec => []PaidOnce` |

The invariant says three things of each job by itself: Stripe was asked once while its key was known, or not at all
(`AskedOnce`); what the file says of the job is true of its payment (`Truthful`); the entries booked are those of its outcome
(`Booking`). It also says that no two jobs are of the same month. The worker carries statuses it read some time ago: they may be old, but an end it has
read is still an end and money it saw paid was paid (`Told`), which is why a status may be settled late, twice or
after a restart. That a repeated submission is answered from its key is part of the model of Stripe (section 6).

`MarketData_proofs` proves four of the six properties of the run `market_data`, those of its stream, liquidations, Bitunix, pace,
capitalisations and timers. Bounds, symbols, venues, prices and volumes are any values that satisfy three assumptions:
`PoolAssumption` (a connection takes at least one symbol, finitely many symbols, liquidations are numbered), `PaceAssumption` (rates and
times are numbers) and `LengthAssumption` (a minute and a month have a length).

| Theorem | States | Invariant |
|---|---|---|
| `FinalBars` | `Spec => []FinalBarsOnly` | `StreamInv`, `FoldInv` |
| `WritesOwned` | `Spec => WritesAreOwned` | `StreamInv` |
| `StreamIsTold` | `Spec => []StreamTold` | `LiqInv` |
| `UsageBounded` | `Spec => []UsageIsBounded` | `PaceInv`, `CapsInv`, `TimersInv` |

- `PoolInv` is the socket pool's, shown once for both streams over any symbols, frames and extra state of a connection. A symbol has one
  connection. A connection has one socket per generation, which carries its symbols, is no younger than it and is open when the connection knows it open; a
  connection that has not opened knows nothing yet. The actions of a stream reach the pool as one of `PoolMoves` (a socket opens or ends, a connection is retired or retries) or
  as `Replaces` (a new set of symbols, cut into connections).
- `StreamInv`: what is deferred or stored is final, which is not inductive, because the bar that a later minute closes is whatever the connection
  last heard. `Told` adds why that is the venue's last word: on a socket that is heard, minutes come in order, and a bar the venue has since revised is
  followed by its revision. Old sockets may say anything, since the generation test keeps them unheard.
- `LiqInv`: a liquidation is on its way to at most one socket that is heard, once, and no longer when it was counted (`LiqHeard`); the note counts what
  stands (`LiqNoted`) and a running pool carries the newest roster (`LiqFollows`).
- `FoldInv`: `FoldKnows` says what the fold can hold in each minute, including the candidate it keeps over the boundary and the seed it waits for, whether
  the venue has begun the next minute or not. From it, what is published is the venue's bar of that minute, in order.
- `PaceInv`, `CapsInv` and `TimersInv` tie the last refusal to the rate and the cooldown, the ledger to what was billed and written, and each timer to its field.

`FoldInv` and `LiqInv` were first checked by TLC on the constants of the run.

`Operations_proofs` proves three of the properties of the run `operations`, `EarningsHold`, `PublicationIsWhole` and `MessagesAreTracked`, for every
value of the constants of the nine parts they are about. The assumptions of `MCOperations`: `OwnersAssumption` (the null of the owners is no member's key),
`CommissionAssumption` (no commission is negative), `PayoutAssumption` (as above), `RemindAssumption` (a reminder is given up, after 23 hours, before
its provider forgets its key, after 24; the provider that keeps keys has a name) and `CheckoutAssumption` (a mixed checkout presents one licence or none; the
budget is a number of servers).

| Theorem | States | Invariant |
|---|---|---|
| `PartsStand` | `Spec => []Stands` | `BooksInv`, `OwnersInv`, `PayoutsInv`, `ReferralsInv`, `PublicationInv`, `NoticesInv`, `CopyInv`, `RemindInv`, `CheckoutInv` |
| `EarningsStand` | `Spec => []EarningsHold` | (from `PartsStand`) |
| `PublicationStands` | `Spec => []PublicationIsWhole` | (from `PartsStand`) |
| `MessagesStand` | `Spec => []MessagesAreTracked` | (from `PartsStand`) |

- `BooksInv`: an exchange account has one verified owner, an entry is found by its reference and kind, and a rebate or a reversal is what a
  finalised month or a review says. What a stale page, view or preview carries needs no invariant: each write looks again.
- `OwnersInv`: an answer given is still what a binding or a grant says, bindings lead to finitely many owners and never to nobody, and a reviewed link under way
  carries an owner who is a member by the time it is bound.
- `PayoutsInv` is `IInv` of `EarnPayouts_proofs`. The lemmas `SameInit`, `SameNext` show that the instance `Payouts` of the run and the instance of the proofs
  have the same steps.
- `ReferralsInv`: the question is why a worker that reads refunds before disputes, that may die in between, and whose events come in any order ends up with
  the right commission. A sale through a code of the profile that is not on record still has its payment to be handled; one that is either agrees with Stripe or has an event to be handled
  (`SaleOK`). The same is said of what the worker has read, of the events other than the one in its hands (`WorkerInv`): when that one is remembered, the others
  remain. Events are numbered by sale, so a new one is never one that was remembered (`NewEvent`).
- `PublicationInv`: while there is a marker, the control file is the one before or the one after, the pointer the old one or the new one, and either pair that belongs
  together agrees (`Pending`); where the publisher is in its sequence says which (`Works`). The Beta that is left when a pending
  publication is rolled back is one that was finished (`LastBeta`), which is what makes a Production a build that soaked.
- `NoticesInv`: memory is the file, or the file with its rows in flight in doubt; the rows say what is owed and what was shown (`Whole`), and the row of
  the flush in progress is one of them with its attempt on record (`Flies`). That is why neither a restart nor a message that gets through
  although its answer is lost can show a row without an attempt. `TrimmedIs` (from `Ranks`, a lemma about ranks in a finite set) says what trimming does: rows stay as they
  are, each once, and no active one goes.
- `RemindInv`: once a message is shown, its row is asked for again only under the key the provider has on record and before the 23rd hour
  after it was first asked, so the provider still knows it. A tick uses the clock it read; `TickInv` bounds how far that is behind.
- `CopyInv`: the one claim a checkpoint needs of a pass in flight is that an update is in the account of the pass's key until its checkpoint is written.
- `CheckoutInv`: `RowsInv` is about the rows alone (one active row per owner, the budget, no subscription on a row that is still a checkout's), and `Continues` says what
  every step leaves of a row: deleted stays deleted, a customer's stays the customer's, and the ordered, bound row of a checkout stays so unless the session of that
  checkout has expired. An attempt then needs three facts of its own. Its row is held from the moment Stripe is asked, before any session exists (`PlaceInv`).
  The intents a request or a webhook carries over its awaits are of the row the stored intent names and, unless the session has expired, not sealed (`RequestInv`, `HookInv`): whichever of them
  is written last changes neither the row nor what is over. The licence's claim is the attempt's while it asks for its first session, and from then on until its payment
  is applied or the session has expired (`ClaimInv`), so the claim that is given away is never one that is needed (`Claimed`).

`ReferralsInv` and `PublicationInv` were first checked by TLC on the constants of the run, `NoticesInv` with two faults, `CheckoutInv` also with a budget of two
servers and three rows.

Model-checked only:

- `EndKeepsItsJob` of the hosting lifecycle. It is false with most events enabled at once (finding 6), so a theorem about it
  would speak of the events of one run only.
- `HistoryIsKept` and `AnswersSettle` of `MCMarketData`: caches and shelves whose properties count and sum over data (`GzipQueue` adds up bytes with a fold
  over sets, which needs induction).
- `CustomersAreServed` and `BooksOnlyGrow` of `MCOperations`. The last compares sums over the entries of the books, which needs
  induction over data; the other is a conjunction over four machines that share no variable, the assistant's budget (sums over the calls) among them.
- Liveness (`EndedIsDeleted`, `ReadyServerKept` and the temporal properties of the other runs): fairness and `ENABLED` are beyond the prover.
- What a recursive definition computes for every input: this needs induction over data.

## 6. Findings and observations

Two runs end in a counterexample to what a comment or a test of the repository says. The others are given with the constants
under which TLC finds them (for `Hosting`: those of `hosting_end` with the ones named here).

1. `hosting_restore_race`: a late payment sets a running server's row to restoring;
   the server's periodic report makes it ready before the restore job drains; the job
   then finds a stage other than restoring, provisions again under the same version,
   queues a boot time-out that is already due, and the time-out's region
   replacement deletes the healthy server.
2. `billing_lost_term`: a checkout's welcome e-mail writes back the customer row read before
   the payment; a late failed invoice then cuts the signed access of a paid term.
3. `DeletionKeepsItsJob` (`Events` {"status", "pay"}, `Backoff` 0, `MaxLv` 3): a payment reconciled while the provider is asked
   about a committed deletion makes the final write stale; the job still ends as sent, and
   nothing is left to finish the deletion.
4. `NoOrphan` (`Events` {"fail"}, `InitStage` "ordered", `Backoff` 0, `MaxNow` 1, `MaxLv` 2): an uncertain create on the last attempt
   is never looked up by label.
5. `NeverRevived` (`Events` {"licence"}, `InitStage` "ordered", `MaxNow` 2, `MaxLv` 4, `MaxPaid` 1): an order that lost its licence is
   marked deleted under an unchanged lifecycle version (644-647), so its pending provision job is not superseded and creates a server for
   the deleted row.
6. `EndKeepsItsJob` (`Events` {"status", "refuse"}, `InitStage` "ordered", `MaxLv` 4, `MaxPaid` 1): the replacement of a region starts a new generation,
   which supersedes the queued end jobs; the row keeps its reason, so no later billing signal schedules them again.
7. `FlightIsAnswered` in `Notifications` (with the constants the run `operations` gives it): `configure()`, or the reload after a failed write, replaces the state by a copy
   while a flush holds a row object of the old one. The answer goes to an object nobody reads: the row stays
   "sending" until a restart sends the notification again.
8. `WholeOrPrevious` in `MarketCaps` (`McSpec`, `Symbols` and `First` {x}, `NV` 2, `Ceiling` 9, `PagesPlan` and `MaxPages` 1, `MapEvery`,
   `CapEvery`, `Ttl`, `Ladder` and `MaxNow` 2, `Month` 3): after a restart one venue's first catalogue read fails and the pass publishes without
   that venue's rows over the good snapshot loaded from disk.
9. `MonthIsWhole` in `TimeframeShelf` (with the constants the run `market_data` gives it): a horizon that was on, off and on again leaves day files beside a month file that lacks
   them; reads in the month layout miss those days until the month is next written.
10. `PartialIsRetried` in `SnapshotCache` (two pairs and keys, one entry, one slot, one retry, windows of four ticks,
   lifetimes of one): a build whose fold failed counts as a retry of a partial answer, which may then be held to the end of its window.
11. The month's end drops the reservation of a support question whose call is in flight (`support-chat.ts:280`): the paid answer is
   refused and the conversation handed over. `SupportHolds` excludes these (`dropped`).
12. A report appended after a cut line is glued to it and lost although the customer was told it is stored
    (`jsonfile.ts:69`). `EvidenceIsKept` excludes exactly these (`cut`).

13. `RejectedOnce` in `HostedCheckout` (with the constants the run `operations` gives it and `MaxRows` 3): a payment that no row is reserved for is
    refused again at every tick when an older deleted row of the owner, found first, has another or no subscription
    (`hosting/service.ts:575`). Each refusal leaves a row and a cancellation job.
14. `SealStays` in `HostedCheckout` (with the constants of `operations`): the answer to a POST writes the intent as it was before, and takes back the seal
    an expiry put on it meanwhile (`launch.ts:413`). The reservation is gone, but the attempt is "awaiting confirmation" until the expiry is proved once more.

Found while modelling, not made into runs:

- A customer with a mixed checkout open may open a direct one as well. Once both are made, the paid mixed one cannot be adopted: billing
  answers 500 and Stripe retries; when its subscription ends first, its row stays ordered and counts in the budget.
- A death between `reserveInstance` and the write of the quote leaves a row whose cost is unknown. It has no end of its hold either, so every
  hosting checkout is refused until an operator intervenes (`hosting/service.ts:316-334, 372-375`).

- The lease ledger's lock does not exclude a second hub in every order
  (`license-leases.ts:1212-1222`). It is created empty and gets its pid a moment later; a lock
  without a readable owner is removed, although the comment at 1215 says "refused below". And two
  waiters that both found a dead owner may remove the lock one after the other, the second one that of the
  first. `Unlock` removes whatever lock is there. Two hubs that write at once break the hash chain, and every
  replay refuses from then on; if both rotate, the second rename overwrites a segment. Without the excuse
  `clashed`, and with one line per segment or six events, TLC finds a history that is read again without an event that
  was acknowledged, against "concurrent writers [...] all fail closed" (README 2613).
- A replay truncates a torn tail without the lock at the offset it read (1142); a line another
  hub appended meanwhile is cut off.
- A throw while the pid of the lock is written (1209-1210) leaves the lock behind; with the pid of the
  living hub in it every later append is "busy" until the process ends. The same holds for a lock left by a crash
  when a later process gets its pid.

- `OneServer` needs ticks of which no two ask the provider at once (`OneAsks`, section 5). `tick` has no re-entrancy guard
  (`hosting/service.ts:1166-1195`) and claims with the instant it started at, so with two
  members in `Workers` a slow tick's claim is born expired, the job is claimed again and
  `createInstance` runs twice. The lease is two minutes and a provider call up to 20 s, so
  it takes a tick of several slow jobs.
- A late-payment notice is written on every terminated row of the owner (1599-1610).
- `adminForceSuspend` (1787) starts a new lifecycle version without queueing the delete job
  again, so a row already past due loses its end (`EndKeepsItsJob` and `EndedIsDeleted` are
  checked without it); combined with a hold its schedule also differs from the paid term
  (`PaidTermRespected` is proved without it; force-delete ignores the term by design).
- A subscriber who cancels after a payment that billing has not reconciled yet ends at the end of the term the row knows: `Renew` keeps an
  intentional date (755-762). `PaidTermRespected` therefore speaks of the term the row shows.
- `adminRetryProvisioning` is refused silently when its permanent dedupe key was used
  before, and a retry on a deleting row queues provisioning again. `adminForceDelete` of an order without a
  server moves its version on; the next tick queues its provisioning under the new version, and if the deletion
  is drained first, the deleted row is set up. The run `hosting_end` is without the two; `EndCorrect` allows them at any other moment.
- A readiness report accepted while a region's server is being deleted leaves a ready row
  without a server.
- `cancel()` answers ok with dates although its compare-and-swap failed (886-888).
- Obsoleting a queued Stripe cancellation leaves its key used, so it cannot be queued
  again (656, 1749-1755).
- The welcome e-mail is not sent once: a checkout and an invoice of a new customer both
  find it unsent, and the second page token revokes the first.
- The stale row of `billing_lost_term` also drops recorded charge ids; a dispute on
  such a charge is then ignored and marked seen.
- If the hub stays down past a claimed target before the licence was issued,
  `issueUntil` refuses it for ever and every later checkout of the customer fails in
  its recovery (`Lost` in `BillingWebhooks`).
- Staged rows of events that never apply stay in the Earn outbox and count toward its cap
  of 2048; a pass takes the 25 oldest rows, so 25 rows Earn always refuses starve the rest.
- A refresh of market capitalisations planned below the monthly ceiling may end above it, because a call billed more than planned
  is charged at once and the plan is not made again (`budget.ts`, `marketcap/service.ts:714-724`).
- A referral code sells from the moment an activation has created it at Stripe (`earn-stripe.ts:492`), before the profile names it (499). A sale
  made through it whose event is handled before that write, perhaps because the hub died in between, is taken for foreign and its event remembered; a later
  activation finds the code again but not the sale, and only the reviewed reconciliation brings its commission. `CommissionMatches`
  excuses such a sale only for not being on record.
- `SnapshotCache`: a build that ends after its entry was evicted, and a failed recheck, put an entry back without looking at the cap;
  a shared build may answer a request that came after the window turned.
- A death between folding a day file and removing it, followed by a restart with the horizon taken away, leaves a day file that hides the
  month's rows (`ShelfKeeps` excludes it: `left`). A series that goes month, day, month keeps an older native row over a newer one.
- A row that a page demanded does not withdraw an emptiness proof that is waiting for its second answer (`HorizonCursor`).
- A request that arrives after `CandleService.stop()` makes the worker pool again. Horizon pruning of a restart is done at the next day.
- A payout submission whose answer was lost is repeated under the same key. The model assumes that Stripe answers a repeat from the
  key before it judges the request again; were the repeat refused (400, 402, 403, 404 or 422), `submit` would release the reservation of
  a payment that was made.
- `Releases`: an unlink that took effect while the directory sync failed, and a death in the rollback after it, leave the
  files agreeing without a marker (checked). The soak is counted from the start of the Beta's publication.
- After a restart a reminder or a notification may be attempted more often than its eight tries.
- Pictures left by a crash count towards the quota for ever. When the owner of a file cannot be set after the line was appended,
  the picture of a stored report is removed (`feedback.ts:774-778`).
- `candles/service.ts:880` speaks of what REST confirmed "this run"; the frontier is loaded from its file, so what an earlier run confirmed counts as well.

## 7. Limits of the models

*Hosting.* One row: rows meet only in the reservation of names and in the cost ceiling,
which `HostedCheckout` models (in `Hosting` the ceiling is the event `"price"`). Not modelled:
complimentary servers, e-mail jobs, SSH and fleet keys, the replay counter of management
reports, the verdict over venue probes (a report is accepted or refused
nondeterministically), settings. Between two jobs of a list other steps may run here, although the code goes on
in the same turn: more behaviours, never fewer. When the clock stops at its bound, time-outs later than the bound do not happen.

*Checkout.* A licence in order, one price list, an amount of one per server. Not modelled: checkouts of software alone, Lifetime, the earlier bundle checkout, which the
server no longer admits (`bundleCheckout` with `admitNew` false), and seals written by older versions (`confirmHistoricalExpiry`).
The paid session is applied in one step; what may go wrong in it is the subject of `BillingWebhooks`.

*Billing.* One customer. Not modelled: bundles, launch grants, device recovery, repair of unpaid grace,
page tokens, the role index, test mode and its caps, legacy charge-id migration.
`Finish` is a step of its own although only microtasks separate it from the handler: more
behaviours. A recovery's instant taken before its e-mail is not kept. Charges are a set without its cap of 50. The hub-wide cap
on seen ids is `Forget`, which drops any id.

*Leases.* Not modelled: the signing key store and its rotation, the signed bytes and the bot's
verifier (`verifyLicenseLease`), bounded text and key validation, admin snapshots, the first
initialisation of an empty data directory (the instances start after it). A replay's reads are one step:
each file is read after the head, so a replay that overlaps an append can only refuse once more. The replay
cache is left out: it is used only while head, size, mtime and inode are those it was made from. A pid belongs to a
hub or to nobody.

*Market data.* One symbol or series per part, two where it matters. Not modelled: parsers and wire formats, the row files' bytes, aggregation of
prices and volumes, pings and lengths of back-offs, seeding of many series, the liquidation archive and percentile table, the other liquidation
venues (their sockets ride on the same pool), signatures, the secondary capitalisation provider and operator overrides. Collector and
stream are modelled separately, each with the other as its environment; so are the shelf and the horizon.

*Earn.* One exchange, one member in payouts and referrals. The ledger file is shared by all four modules in the code; here each has the others'
writes as environment steps (`Record`, `SavePreference`, `Configure`). Not modelled: campaign pages, display names, onboarding of accounts, currency conversion, special offers.

*Releases.* Manifests are verified and signed elsewhere: a build is its version and its bytes.

*People.* One licence, one address, one subscription, or two conversations. Not modelled: dashboard views, cookies, rate limits, prompt building,
wording, gallery and rewards, unsubscribe pages.

*Not modelled at all*, and why: hosting notices and policy (settings, wording), billing roles and bundles and device recovery (each would
repeat the billing handlers with a second side; left for later), configuration and Stripe requests, reporting and check-ins (no state that could go wrong),
the candle migration (runs once before the service), operations and upgrade (system calls of another process), the marketplace bridge
(its service is not in the repository), rate limits (unit-tested arithmetic).

*Outside.* Stripe, Vultr and e-mail are what the code assumes of them: answers in any
order, lost answers with or without effect. Signatures, parsing, formatting, HTML and
HTTP routing are left to the unit tests. A file is replaced atomically and survives a crash.

## 8. Plan

What is left, most important first.

| Step | Module(s) | Question | Abstract specification / theorem |
|---|---|---|---|
| 1 | proofs of `HistoryIsKept` | what a coverage, a shelf and a horizon believe is on disk | an invariant per part, as in `MarketData_proofs` |
| 2 | `BillingBundles`, `InstallRecovery` | two-sided application, phases over two ledgers | composed with `LicenseLeases` and `BillingWebhooks` |
| 3 | one Earn file | `EarnLedger`, `EarnPayouts` and `EarnReferrals` over one ledger instead of environments | balance never negative but for clawback |
| 4 | collector and stream over one store | the two writers of `CandleCoverage` and `CandleStream` composed | |
| 5 | `UpgradeRunner` | request, status and run across two processes | |
