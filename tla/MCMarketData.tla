---------------------------- MODULE MCMarketData ----------------------------
(* The parts of the market-data side for TLC, in one run: the websocket      *)
(* pools, the live candles, the liquidation feed, the closing of Bitunix     *)
(* bars, the pool of seed workers, the compressor, the collector's coverage  *)
(* and pacing, the timeframe history, and the market capitalisations.        *)
(*                                                                           *)
(* As modelled these parts share no state, so a behaviour of the run is one  *)
(* of a single part: `part` says of which, and every part keeps its state in *)
(* v1, v2, ... in the order its instance names them.                         *)
(*                                                                           *)
(* The bounds of the parts MarketData_proofs has theorems about are          *)
(* constants, those of the others stand at their instances.                  *)
EXTENDS Naturals, Sequences, FiniteSets

CONSTANTS Cap, MaxConns, MaxGen,                   \* SocketPool
          BarPairs, MaxMinute, MaxRev, MaxFrames, MaxDeferred,   \* CandleStream
          LiqPerps, MaxRuns, MaxEvents, MaxAnswers,              \* LiqStreams
          Prices, MaxVolume, MaxBucket, Times, InWindow,         \* BitunixFold
          MinRate, MaxRate, Cooldown, MaxCooldown, RetryAfter, Streak,
          Memory, RefreshEvery, StallAfter, FailingAfter, MaxTime,   \* VenuePace
          Collectors, Steps, MaxDay, MaxStarts,                      \* CandleTimers
          Symbols, FirstListed, NV, Ceiling, PagesPlan, MaxPages, MapEvery,
          CapEvery, Ttl, Month, Ladder, MaxNow                   \* MarketCaps

\* A connection carries at least one topic, a venue lists finitely many, and the
\* liquidations of a behaviour are numbered.
ASSUME PoolAssumption ==
    /\ Cap \in Nat \ {0} /\ IsFiniteSet(BarPairs) /\ IsFiniteSet(LiqPerps)
    /\ MaxEvents \in Nat
\* Rates are whole requests a second, waits and memories are durations.
ASSUME PaceAssumption ==
    {MinRate, MaxRate, Cooldown, MaxCooldown, Memory, FailingAfter} \cup RetryAfter \subseteq Nat
\* A minute and a month have a length.
ASSUME LengthAssumption == Times \in Nat \ {0} /\ Month \in Nat \ {0}

VARIABLES part, v1, v2, v3, v4, v5, v6, v7, v8, v9, v10, v11, v12, v13, v14, v15,
          v16, v17, v18, v19

vars == <<part, v1, v2, v3, v4, v5, v6, v7, v8, v9, v10, v11, v12, v13, v14, v15,
          v16, v17, v18, v19>>

\* Variables a part has no use for.
Off15 == v15 = 0 /\ v16 = 0 /\ v17 = 0 /\ v18 = 0 /\ v19 = 0
Off12 == v12 = 0 /\ v13 = 0 /\ v14 = 0 /\ Off15
Off10 == v10 = 0 /\ v11 = 0 /\ Off12
Off9 == v9 = 0 /\ Off10
Off7 == v7 = 0 /\ v8 = 0 /\ Off9
Still15 == UNCHANGED <<v15, v16, v17, v18, v19>>
Still12 == UNCHANGED <<v12, v13, v14>> /\ Still15
Still10 == UNCHANGED <<v10, v11>> /\ Still12
Still9 == UNCHANGED <<v9>> /\ Still10
Still7 == UNCHANGED <<v7, v8>> /\ Still9

\* The extra state of a connection in each of the two pools.
NoBars == [s \in BarPairs |-> [open |-> 0, rev |-> 0, closed |-> FALSE]]
NoExtra == [acknowledged |-> FALSE, refused |-> FALSE]

Stream == INSTANCE CandleStream WITH
    Items <- BarPairs, Fresh <- NoBars, States <- BOOLEAN, MaxQueue <- MaxFrames,
    running <- v1, conns <- v2, made <- v3, socks <- v4, states <- v5,
    wanted <- v6, venue <- v7, clock <- v8, settledScan <- v9,
    deferred <- v10, stored <- v11
StreamStarts == part = "stream" /\ Stream!Init /\ Off12
StreamMoves == part = "stream" /\ Stream!Next /\ Still12 /\ UNCHANGED part

Liq == INSTANCE LiqStreams WITH
    Items <- LiqPerps, Fresh <- NoExtra, MaxQueue <- MaxAnswers,
    running <- v1, conns <- v2, made <- v3, socks <- v4, roster <- v5,
    runs <- v6, loads <- v7, idle <- v8, note <- v9, events <- v10,
    counted <- v11
LiqStarts == part = "liq" /\ Liq!Init /\ Off12
LiqMoves == part = "liq" /\ Liq!Next /\ Still12 /\ UNCHANGED part

Fold == INSTANCE BitunixFold WITH
    minute <- v1, bar <- v2, past <- v3, ended <- v4, time <- v5,
    shown <- v6, up <- v7, fold <- v8, out <- v9
FoldStarts == part = "fold" /\ Fold!Init /\ Off10
FoldMoves == part = "fold" /\ Fold!Next /\ Still10 /\ UNCHANGED part

Seeds == INSTANCE SeedPool WITH
    Slots <- {1, 2}, MaxQueue <- 1, MaxJobs <- 4, MaxWorkers <- 4,
    slots <- v1, queue <- v2, asked <- v3, closed <- v4, settled <- v5,
    workers <- v6, spawned <- v7, replies <- v8
SeedsStarts == part = "seed" /\ Seeds!Init /\ Off9
SeedsMoves == part = "seed" /\ Seeds!Next /\ Still9 /\ UNCHANGED part

Gzip == INSTANCE GzipQueue WITH
    Requests <- 1 .. 4, Sizes <- {1, 2}, MaxActive <- 1, MaxJobs <- 3,
    MaxBytes <- 4,
    reservation <- v1, size <- v2, pending <- v3, compressing <- v4,
    active <- v5, jobs <- v6, retainedBytes <- v7, answer <- v8
GzipStarts == part = "gzip" /\ Gzip!Init /\ Off9
GzipMoves == part = "gzip" /\ Gzip!Next /\ Still9 /\ UNCHANGED part

Coverage == INSTANCE CandleCoverage WITH
    Day <- 3, Retain <- 3, Page <- 3, TailFill <- 2, Reconcile <- 2,
    Span <- 2, Ttl <- 1, Backoff <- 1, MaxBackoff <- 2, Confirm <- 1,
    Recheck <- 2, MaxNow <- 6, MaxGen <- 2,
    now <- v1, held <- v2, rest <- v3, frontier <- v4, empty <- v5,
    emptyGen <- v6, gen <- v7, listed <- v8, cov <- v9, byDay <- v10,
    hole <- v11, skip <- v12, floor <- v13, pass <- v14
CoverageStarts == part = "cover" /\ Coverage!Init /\ Off15
CoverageMoves == part = "cover" /\ Coverage!Next /\ Still15 /\ UNCHANGED part

Pace == INSTANCE VenuePace WITH
    Asks <- RetryAfter,
    now <- v1, rate <- v2, cooldown <- v3, hits <- v4, streak <- v5,
    ceiling <- v6, fails <- v7, polled <- v8, ok <- v9, hadWork <- v10,
    refreshed <- v11, pass <- v12, refusal <- v13, asked <- v14
PaceStarts == part = "pace" /\ Pace!Init /\ Off15
PaceMoves == part = "pace" /\ Pace!Next /\ Still15 /\ UNCHANGED part

Snapshots == INSTANCE SnapshotCache WITH
    Pairs <- {"a", "b"}, Keys <- {"x", "y"}, Cap <- 1, Slots <- 1,
    Retries <- 1, Bucket <- 2, RetryTtl <- 1, FailTtl <- 1, MaxNow <- 2,
    now <- v1, symbols <- v2, digging <- v3, rows <- v4, cache <- v5,
    flight <- v6, slotsInUse <- v7, waiters <- v8
SnapshotsStarts == part = "shot" /\ Snapshots!Init /\ Off9
SnapshotsMoves == part = "shot" /\ Snapshots!Next /\ Still9 /\ UNCHANGED part

Shelf == INSTANCE TimeframeShelf WITH
    Days <- {1, 2}, Wide <- {1}, Short <- 0, Long <- 1, MaxNow <- 3,
    layout <- v1, days <- v2, month <- v3, now <- v4, had <- v5, left <- v6
ShelfStarts == part = "shelf" /\ Shelf!Init /\ Off7
ShelfMoves == part = "shelf" /\ Shelf!Next /\ Still7 /\ UNCHANGED part

Horizon == INSTANCE HorizonCursor WITH
    Days <- 2, Page <- 2, Chunk <- 2, Retry <- 1, Apart <- 1, Recheck <- 2,
    MaxNow <- 4, MaxGen <- 2,
    now <- v1, gen <- v2, floor <- v3, shelf <- v4, frontier <- v5,
    file <- v6, proofs <- v7, cursor <- v8, page <- v9, job <- v10,
    blank <- v11
HorizonStarts == part = "horizon" /\ Horizon!Init /\ Off12
HorizonMoves == part = "horizon" /\ Horizon!Next /\ Still12 /\ UNCHANGED part

Timers == INSTANCE CandleTimers WITH
    Venues <- Collectors,
    on <- v1, streams <- v2, field <- v3, armed <- v4, left <- v5,
    tick <- v6, day <- v7, pruned <- v8, starts <- v9
TimersStarts == part = "timers" /\ Timers!Init /\ Off10
TimersMoves == part = "timers" /\ Timers!Next /\ Still10 /\ UNCHANGED part

Caps == INSTANCE MarketCaps WITH
    First <- FirstListed,
    now <- v1, listed <- v2, known <- v3, cats <- v4, pairs <- v5,
    seen <- v6, pages <- v7, facts <- v8, lastMap <- v9, lastCaps <- v10,
    lastList <- v11, retries <- v12, run <- v13, ledger <- v14, disk <- v15,
    clean <- v16, billed <- v17, served <- v18, file <- v19
CapsStarts == part = "caps" /\ Caps!McInit
CapsMoves == part = "caps" /\ Caps!McNext /\ UNCHANGED part

-----------------------------------------------------------------------------
Init ==
    \/ StreamStarts \/ LiqStarts \/ FoldStarts
    \/ SeedsStarts \/ GzipStarts \/ CoverageStarts
    \/ PaceStarts \/ SnapshotsStarts \/ ShelfStarts
    \/ HorizonStarts \/ TimersStarts \/ CapsStarts

Next ==
    \/ StreamMoves \/ LiqMoves \/ FoldMoves
    \/ SeedsMoves \/ GzipMoves \/ CoverageMoves
    \/ PaceMoves \/ SnapshotsMoves \/ ShelfMoves
    \/ HorizonMoves \/ TimersMoves \/ CapsMoves

Spec == Init /\ [][Next]_vars

-----------------------------------------------------------------------------
\* Only final bars are kept: what the websockets leave in the store is the
\* venue's last revision of a minute that is over, and a Bitunix minute is
\* published once, with the venue's final bar of that very minute, wherever the
\* stream was cut and whatever came late (stream-runner.ts, bitunix-fold.ts).
FinalBarsOnly ==
    /\ part = "stream" => Stream!StoredIsFinal
    /\ part = "fold" => Fold!ClosedIsFinal

\* A live bar is stored while the runner runs, for a symbol it still follows, and
\* once it has settled (stream-runner.ts).
WritesAreOwned == [][part = "stream" => Stream!WritesAreOwned]_vars

\* However sockets linger, reconnect and are replaced: no liquidation counts
\* twice, the status counts exactly the subscriptions that stand now, and the
\* connections carry the newest roster (socket-pool.ts, liq/stream-runner.ts).
StreamTold == part = "liq" => Liq!StreamTold

\* What the collector believes without rescanning is on disk, and a range proved
\* empty holds no candle; what was written can be read for as long as its layout
\* keeps it; what a horizon does not call missing is there (collector.ts,
\* timeframe.ts, candles/service.ts).
HistoryIsKept ==
    /\ part = "cover" => Coverage!CoverageIsExact
    /\ part = "shelf" => Shelf!ShelfKeeps
    /\ part = "horizon" => Horizon!HorizonIsHonest

\* Whatever races with a timeout, an exit or a client that left: a seed job
\* settles once, no compressor slot or byte is lost, and an unexpired snapshot is
\* of the present window (timeframe-seed-pool.ts, async-gzip.ts,
\* candles/service.ts).
AnswersSettle ==
    /\ part = "seed" => Seeds!EveryJobSettles
    /\ part = "gzip" => Gzip!CountersAreExact
    /\ part = "shot" => Snapshots!AnswersAreCurrent

\* A venue's refusal is obeyed for as long as it says; every credit charged is in
\* the ledger, and a coin that is served as mapped has its verdict; a stopped
\* service has nothing armed (collector.ts, marketcap/service.ts,
\* candles/service.ts).
UsageIsBounded ==
    /\ part = "pace" => Pace!RefusalsObeyed
    /\ part = "caps" => Caps!CapsAreHonest
    /\ part = "timers" => Timers!QuietWhenStopped
=============================================================================
