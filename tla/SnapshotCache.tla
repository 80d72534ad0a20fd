---------------------------- MODULE SnapshotCache ----------------------------
(* Snapshots of one venue's windows (candles/service.ts 117-182, 634-858,    *)
(* with the fold of candles/snapshot.ts and its worker): one flight per key, *)
(* a bounded number of folds at once, a cache ordered by use, and a partial  *)
(* answer folded again a bounded number of times inside its window.          *)
(*                                                                           *)
(* A key stands for an interval and a depth; a window is named by the number *)
(* of its newest complete bucket.  `rows[p]` counts the windows of a pair    *)
(* the store holds in full, and stands for the fingerprint of its files.     *)
EXTENDS Naturals, Sequences, FiniteSets, SequencesExt

CONSTANTS Pairs, Keys,
          Cap,         \* SNAPSHOT_CACHE_PER_VENUE
          Slots,       \* SNAPSHOT_WORKER_CONCURRENCY
          Retries,     \* SNAPSHOT_RETRIES_PER_BUCKET
          Bucket,      \* ticks from one window to the next
          RetryTtl, FailTtl,  \* SNAPSHOT_RETRY_TTL_MS, SNAPSHOT_FAILURE_TTL_MS
          MaxNow       \* bound: the clock

VARIABLES now,
          symbols,     \* the collector's roster
          digging,     \* pairs whose skip the collector is about to change
          rows,        \* windows on disk, per pair
          cache,       \* snapshotCache: entries, least recently used first
          flight,      \* snapshotInflight, per key
          slotsInUse,
          waiters      \* snapshotSlotWaiters

vars == <<now, symbols, digging, rows, cache, flight, slotsInUse, waiters>>

None == [pc |-> "none"]

Init ==
    /\ now = 0
    /\ symbols \in SUBSET Pairs \ {{}}
    /\ digging \in SUBSET Pairs
    /\ rows = [p \in Pairs |-> 0]
    /\ cache = <<>>
    /\ flight = [k \in Keys |-> None]
    /\ slotsInUse = 0 /\ waiters = <<>>

Anchor(t) == t \div Bucket
Boundary(anchor) == (anchor + 1) * Bucket
Sooner(anchor, t) == IF t < Boundary(anchor) THEN t ELSE Boundary(anchor)

Held(k) == SelectSeq(cache, LAMBDA e : e.key = k)
Others(k) == SelectSeq(cache, LAMBDA e : e.key # k)
SameWindow(e, anchor, roster) == e.anchor = anchor /\ e.roster = roster
Transient(skipped) == skipped \cap digging

\* snapshot(): a fresh entry is served, a flight is shared, and a partial one
\* of this very window is held, or rechecked while retries are left.
Served(k) ==
    /\ cache' = Others(k) \o Held(k)
    /\ UNCHANGED <<flight, slotsInUse, waiters>>

Takeoff(k, pc, held) ==
    flight' = [flight EXCEPT ![k] =
                  [pc |-> pc, at |-> IF pc = "recheck" THEN now ELSE 0, roster |-> symbols, held |-> held, prints |-> <<>>]]

Queues(k, held) ==
    IF slotsInUse < Slots
    THEN Takeoff(k, "granted", held) /\ slotsInUse' = slotsInUse + 1 /\ UNCHANGED waiters
    ELSE Takeoff(k, "queued", held) /\ waiters' = Append(waiters, k) /\ UNCHANGED slotsInUse

Request(k) ==
    /\ flight[k] = None
    /\ LET held == Held(k)
           mine == held # <<>> /\ held[1].ok /\ SameWindow(held[1], Anchor(now), symbols)
       IN  CASE held # <<>> /\ now < held[1].expires /\ held[1].roster = symbols -> Served(k)
             [] mine /\ Transient(held[1].skipped) # {} /\ held[1].retries < Retries ->
                    Takeoff(k, "recheck", held) /\ UNCHANGED <<cache, slotsInUse, waiters>>
             [] mine /\ (Transient(held[1].skipped) = {} \/ held[1].retries >= Retries) ->
                    /\ cache' = Append(Others(k), [held[1] EXCEPT !.expires = Boundary(held[1].anchor)])
                    /\ UNCHANGED <<flight, slotsInUse, waiters>>
             [] OTHER -> Queues(k, held) /\ UNCHANGED cache
    /\ UNCHANGED <<now, symbols, digging, rows>>

\* The recheck: a skipped pair whose files have moved since the fold makes a
\* new one, otherwise the entry is held a little longer.
Recheck(k) ==
    LET f == flight[k]
        e == f.held[1]
    IN  /\ f.pc = "recheck"
        /\ IF \E p \in e.skipped : rows[p] # e.prints[p]
           THEN /\ IF slotsInUse < Slots
                   THEN flight' = [flight EXCEPT ![k].pc = "granted", ![k].at = 0] /\ slotsInUse' = slotsInUse + 1 /\ UNCHANGED waiters
                   ELSE flight' = [flight EXCEPT ![k].pc = "queued", ![k].at = 0] /\ waiters' = Append(waiters, k) /\ UNCHANGED slotsInUse
                /\ UNCHANGED cache
           ELSE /\ cache' = Append(Others(k), [e EXCEPT !.expires = Sooner(e.anchor, f.at + RetryTtl)])
                /\ flight' = [flight EXCEPT ![k] = None]
                /\ UNCHANGED <<slotsInUse, waiters>>
        /\ UNCHANGED <<now, symbols, digging, rows>>

\* With a slot, the clock is read again and the worker starts: it takes every
\* pair's fingerprint before it reads the pair.
Folds(k) ==
    /\ flight[k].pc = "granted"
    /\ flight' = [flight EXCEPT ![k].pc = "folding", ![k].at = now, ![k].prints = Restrict(rows, flight[k].roster),
                                ![k].held = IF Held(k) # <<>> THEN Held(k) ELSE @]
    /\ UNCHANGED <<now, symbols, digging, rows, cache, slotsInUse, waiters>>

\* releaseSnapshotSlot(): the slot passes straight to the next waiter.
Releases(k) ==
    IF waiters = <<>>
    THEN /\ slotsInUse' = slotsInUse - 1
         /\ flight' = [flight EXCEPT ![k] = None] /\ UNCHANGED waiters
    ELSE /\ waiters' = Tail(waiters)
         /\ flight' = [flight EXCEPT ![k] = None, ![Head(waiters)].pc = "granted"]
         /\ UNCHANGED slotsInUse

\* Earlier folds of this window count as its retries, whatever came of them.
Count(f) ==
    IF f.held # <<>> /\ SameWindow(f.held[1], Anchor(f.at), f.roster) THEN f.held[1].retries + 1 ELSE 0
Partials(f) ==
    IF f.held # <<>> /\ SameWindow(f.held[1], Anchor(f.at), f.roster) THEN f.held[1].partials ELSE 0

\* The newest use is at the end, the oldest entries give way.
Stored(k, entry) ==
    LET all == Append(Others(k), entry)
    IN  IF Len(all) > Cap THEN SubSeq(all, Len(all) - Cap + 1, Len(all)) ELSE all

Entry(k, f, ok, skipped, expires, partials) ==
    [key |-> k, ok |-> ok, skipped |-> skipped,
     prints |-> [p \in skipped |-> f.prints[p]], expires |-> expires,
     roster |-> f.roster, anchor |-> Anchor(f.at), retries |-> Count(f), partials |-> partials]

\* buildSnapshotEntry(): the fold's answer; the clock of the fold decides.
Folded(k) ==
    LET f       == flight[k]
        anchor  == Anchor(f.at)
        skipped == {p \in f.roster : rows[p] <= anchor}
        again   == Transient(skipped) # {} /\ Count(f) < Retries
    IN  /\ f.pc = "folding"
        /\ cache' = Stored(k,
              IF skipped = f.roster
              THEN Entry(k, f, FALSE, {}, Sooner(anchor, f.at + RetryTtl), Partials(f))
              ELSE Entry(k, f, TRUE, skipped, IF again THEN Sooner(anchor, f.at + RetryTtl) ELSE Boundary(anchor),
                         Partials(f) + 1))
        /\ Releases(k)
        /\ UNCHANGED <<now, symbols, digging, rows>>

\* The worker throws, exits or times out: a good answer of the same window is
\* kept, otherwise the refusal itself is cached for a while.
FoldFails(k) ==
    LET f      == flight[k]
        anchor == Anchor(f.at)
    IN  /\ f.pc = "folding"
        /\ cache' = IF f.held # <<>> /\ f.held[1].ok /\ SameWindow(f.held[1], anchor, f.roster)
                    THEN LET kept == [f.held[1] EXCEPT !.expires = Sooner(anchor, f.at + RetryTtl)]
                         IN  IF Held(k) = <<>> THEN Append(cache, kept)
                             ELSE [i \in DOMAIN cache |-> IF cache[i].key = k THEN kept ELSE cache[i]]
                    ELSE Stored(k, Entry(k, f, FALSE, {}, Sooner(anchor, f.at + FailTtl), Partials(f)))
        /\ Releases(k)
        /\ UNCHANGED <<now, symbols, digging, rows>>

\* The collector: rows arrive, a pair is listed (a
\* delisted one stays in the roster), time passes.
Collects(p) ==
    /\ p \in digging /\ rows[p] <= Anchor(now)
    /\ rows' = [rows EXCEPT ![p] = @ + 1]
    /\ UNCHANGED <<now, symbols, digging, cache, flight, slotsInUse, waiters>>

Lists(p) ==
    /\ p \notin symbols
    /\ symbols' = symbols \cup {p}
    /\ UNCHANGED <<now, digging, rows, cache, flight, slotsInUse, waiters>>

Tick ==
    /\ now < MaxNow
    /\ now' = now + 1
    /\ UNCHANGED <<symbols, digging, rows, cache, flight, slotsInUse, waiters>>

Next ==
    \/ \E k \in Keys : Request(k) \/ Recheck(k) \/ Folds(k) \/ Folded(k) \/ FoldFails(k)
    \/ \E p \in Pairs : Collects(p) \/ Lists(p)
    \/ Tick

Spec == Init /\ [][Next]_vars
-----------------------------------------------------------------------------
\* An unexpired answer is of the window of now; a partial one whose skipped
\* pairs have not moved is what a fold would answer again, so holding it hides
\* nothing; its window was folded a bounded number of times; no slot is lost
\* and nobody waits for one that is free.
AnswersAreCurrent ==
    /\ \A i \in DOMAIN cache :
           LET e == cache[i]
           IN  /\ now < e.expires => e.anchor = Anchor(now)
               /\ e.ok /\ (\A p \in e.skipped : rows[p] = e.prints[p]) =>
                      e.skipped = {p \in e.roster : rows[p] <= e.anchor}
               /\ e.partials <= Retries + 1
    /\ slotsInUse = Cardinality({k \in Keys : flight[k].pc \in {"granted", "folding"}})
    /\ waiters # <<>> => slotsInUse = Slots

\* A partial answer waits for the boundary of its window only when the pairs it
\* lacks are lacking for good or it was folded again as often as allowed.
PartialIsRetried ==
    \A i \in DOMAIN cache :
        LET e == cache[i]
        IN  e.ok /\ Transient(e.skipped) # {} /\ e.partials <= Retries => e.expires <= now + RetryTtl
=============================================================================
