--------------------------- MODULE CandleCoverage ---------------------------
(* What the collector knows of the minutes on disk (candles/collector.ts on   *)
(* candles/store.ts): the coverage it keeps without rescanning, the hole it   *)
(* repairs next, the minutes a venue does not have, and how far REST has      *)
(* confirmed.  One symbol of one venue; minutes are numbered from 1, and a    *)
(* minute is also the unit of time.                                           *)
(*                                                                            *)
(* A pass plans its requests and then awaits them one by one; websocket       *)
(* writes, roster refreshes and time go on meanwhile.                         *)
EXTENDS Integers, Sequences, FiniteSets, FiniteSetsExt

CONSTANTS Day,                   \* minutes in a day file
          Retain, Page,          \* minutes retained, rows of a page
          TailFill, Reconcile, Span,   \* tail backlog, websocket lead, reconcile bound
          Ttl, Backoff, MaxBackoff,    \* hole cache, futile repair
          Confirm, Recheck,      \* between confirmations of an empty range, after
          MaxNow, MaxGen         \* bounds: time, listings

VARIABLES now,          \* the newest settled minute
          held,         \* minutes in the day files
          rest,         \* minutes REST has fetched at some time
          frontier,     \* restFrontier, 0 when there is none (durable)
          empty, emptyGen,       \* venueEmpty and its generation (durable)
          gen, listed,  \* listing generation, still listed
          cov, byDay,   \* coverageCache, heldByDay
          hole,         \* holeCache
          skip,         \* repairSkip
          floor,        \* backfillFloor
          pass          \* the requests of this pass, and its settled minute

vars == <<now, held, rest, frontier, empty, emptyGen, gen, listed, cov, byDay, hole, skip,
          floor, pass>>

Disk == <<held, rest, frontier, empty, emptyGen>>
Roster == <<gen, listed>>

None == [none |-> TRUE]
NoGap == <<0, 0>>
NoPass == [items |-> <<>>, upto |-> 0]
DayOf(m) == m \div Day
Days == 0 .. DayOf(MaxNow)

\* store.coverage() deep and shallow, and the counts per day.
Covers(S, count) ==
    IF S = {} THEN [first |-> 0, last |-> 0, count |-> 0, missing |-> 0]
    ELSE [first |-> Min(S), last |-> Max(S), count |-> count,
          missing |-> Max({0, Max(S) - Min(S) + 1 - count})]
Scan(S) == Covers(S, Cardinality(S))
PerDay(S) == [d \in Days |-> Cardinality({m \in S : DayOf(m) = d})]
Gaps(from, to) ==
    {g \in (from .. to) \X (from .. to) :
        /\ g[1] <= g[2] /\ (g[1] .. g[2]) \cap held = {}
        /\ g[1] = from \/ g[1] - 1 \in held
        /\ g[2] = to \/ g[2] + 1 \in held}
First(G) == IF G = {} THEN NoGap ELSE CHOOSE g \in G : \A h \in G : g[1] <= h[1]

Init ==
    /\ now = 1 /\ held = {} /\ rest = {} /\ frontier = 0
    /\ empty = {} /\ emptyGen = 1 /\ gen = 1 /\ listed = TRUE
    /\ cov = None /\ byDay = None /\ hole = None /\ skip = None
    /\ floor = 0 /\ pass = NoPass

-----------------------------------------------------------------------------
(* The cache, kept in step with what is written.                              *)
Updated(c, rows, new) ==
    LET ends == rows \cup ({c.first, c.last} \ {0})
        n == c.count + Cardinality(new)
    IN Covers(ends, n)
Counted(rows, new) == [d \in Days |-> byDay[d] + Cardinality({m \in new : DayOf(m) = d})]
Write(rows) == held' = held \cup rows
Ranges == IF listed /\ emptyGen = gen THEN empty ELSE {}
DropOverlap(rows) == {r \in empty : r.a .. r.b \cap rows = {}}

\* noteStoredCandles(): a batch of the stream, all of it settled.
StreamWrites(from) ==
    LET rows == from .. now
        new == rows \ held
        gap == IF hole = None THEN NoGap ELSE hole.gap
    IN
    /\ from > 0
    /\ Write(rows)
    /\ empty' = IF new = {} THEN empty ELSE DropOverlap(rows)
    /\ IF cov = None THEN UNCHANGED <<cov, byDay, hole>>
       ELSE /\ cov' = Updated(cov, rows, new)
            /\ byDay' = IF byDay = None THEN None ELSE Counted(rows, new)
            /\ hole' = IF (gap # NoGap /\ gap[1] .. gap[2] \cap rows # {})
                            \/ cov'.missing > cov.missing
                       THEN None ELSE hole
    /\ UNCHANGED <<now, rest, frontier, emptyGen, Roster, skip, floor, pass>>

\* primeTurn(), prepareCoverage() and a status scan.
Prime ==
    /\ cov = None /\ cov' = Scan(held) /\ byDay' = PerDay(held)
    /\ UNCHANGED <<now, Disk, Roster, hole, skip, floor, pass>>

-----------------------------------------------------------------------------
(* Planning: oldestHole() and workQueue().                                    *)
Proved(g) ==
    \E r \in Ranges : /\ r.a <= g[1] /\ g[2] <= r.b
                      /\ now - r.last < (IF r.n >= 2 THEN Recheck ELSE Confirm)
Skipping == skip # None /\ now < skip.until
SkipAfter == IF Skipping THEN skip.after ELSE 0
FreshHole == hole # None /\ now - hole.at < Ttl /\ hole.skip = SkipAfter
Oldest(c) == First({g \in Gaps(Max({c.first, SkipAfter}), c.last) : ~Proved(g)})

\* Rows without a frontier were written by a stream, now (wsWrittenMs) or before
\* a restart (restartCandidates).
Item(kind, from, to) == [kind |-> kind, from |-> from, to |-> to]
TailOf(c) ==
    CASE c.last = 0 -> <<Item("tail", Max({1, now - (Page - 1)}), now)>>
      [] c.last # 0 /\ now - c.last >= TailFill ->
           <<Item("tail", c.last + 1, Min({now, c.last + Page}))>>
      [] OTHER -> <<>>
ReconcileOf(c) ==
    LET due == c.last # 0 /\ (frontier = 0 \/ c.last - frontier >= Reconcile)
        wanted == IF frontier = 0 THEN c.last - (Reconcile - 1) ELSE frontier + 1
        from == Max({wanted, c.last - (Span - 1), c.first})
    IN IF due THEN <<Item("reconcile", from, c.last)>> ELSE <<>>
RepairOf(c, h) ==
    IF c.missing > 0 /\ h # None /\ h.gap # NoGap /\ Min({now, h.gap[1] + Page - 1}) > h.gap[1]
    THEN <<Item("repair", h.gap[1], Min({now, h.gap[1] + Page - 1}))>> ELSE <<>>
BackfillOf(c) ==
    LET dig == IF floor = 0 THEN c.first ELSE Min({c.first, floor})
    IN IF c.last # 0 /\ dig > Max({1, now - Retain})
       THEN <<Item("backfill", Max({1, now - Retain, dig - Page}), dig - 1)>> ELSE <<>>

Plan ==
    /\ pass = NoPass /\ listed
    /\ LET c == IF cov = None THEN Scan(held) ELSE cov
           due == c.missing > 0 /\ ~FreshHole
           h == IF due THEN [at |-> now, gap |-> Oldest(c), skip |-> SkipAfter] ELSE hole
           over == \/ c.missing = 0
                   \/ due /\ ~Skipping /\ (h.gap = NoGap \/ h.gap[1] >= skip.after)
           items == TailOf(c) \o ReconcileOf(c) \o RepairOf(c, h) \o BackfillOf(c)
       IN /\ cov' = c /\ byDay' = IF cov = None THEN PerDay(held) ELSE byDay
          /\ hole' = h /\ skip' = IF skip # None /\ over THEN None ELSE skip
          /\ pass' = IF items = <<>> THEN NoPass ELSE [items |-> items, upto |-> now]
          /\ items # <<>> \/ <<cov, hole, skip>> # <<c, h, skip'>>
    /\ UNCHANGED <<now, Disk, Roster, floor>>

-----------------------------------------------------------------------------
(* An answer: the rows of the range the venue has and the pass admits.        *)
Target == Head(pass.items)
Rest == [pass EXCEPT !.items = Tail(@)]
NextPass == pass' = IF Tail(pass.items) = <<>> THEN NoPass ELSE Rest
KnownGap == IF hole = None THEN NoGap ELSE hole.gap
Recent(m) == m >= pass.upto - TailFill

\* confirmVenueEmpty(): rows after the hole and none in it.
ProvesEmpty(rows) ==
    /\ Target.kind = "repair" /\ KnownGap # NoGap
    /\ KnownGap[1] = Target.from /\ KnownGap[2] < Target.to /\ ~Recent(KnownGap[2]) /\ listed
    /\ KnownGap[1] .. KnownGap[2] \cap rows = {}
    /\ \E m \in rows : m > KnownGap[2]
Confirmed(ranges) ==
    LET g == KnownGap
        same == {r \in ranges : r.a = g[1] /\ r.b = g[2]}
    IN IF same # {}
       THEN (ranges \ same) \cup {[r EXCEPT !.last = pass.upto, !.n = IF pass.upto - r.at >= Confirm THEN 2 ELSE @] : r \in same}
       ELSE {r \in ranges : r.b < g[1] \/ r.a > g[2]}
                \cup {[a |-> g[1], b |-> g[2], at |-> pass.upto, last |-> pass.upto, n |-> 1]}
\* noteFutileRepair()
Futile ==
    /\ KnownGap # NoGap /\ KnownGap[1] = Target.from /\ ~Recent(KnownGap[2])
Backed ==
    LET n == 1 + (IF skip = None THEN 0 ELSE skip.failures)
        to == Min({KnownGap[2], Target.to}) + 1
    IN [after |-> IF skip # None /\ pass.upto < skip.until THEN Max({skip.after, to}) ELSE to,
        until |-> pass.upto + Min({MaxBackoff, Backoff * n}), failures |-> Min({n, MaxBackoff})]

Answer(rows) ==
    LET new == rows \ held
        c == IF cov = None THEN Scan(held \cup rows) ELSE cov
        kept == IF new = {} THEN Ranges ELSE Ranges \cap DropOverlap(rows)
    IN
    /\ pass # NoPass /\ rows \subseteq Target.from .. Min({Target.to, pass.upto})
    /\ Write(rows) /\ rest' = rest \cup rows
    /\ IF rows = {} THEN UNCHANGED <<cov, byDay, frontier>>
       ELSE /\ cov' = Updated(c, rows, new)
            /\ byDay' = CASE cov = None -> PerDay(held') [] byDay = None -> None [] OTHER -> Counted(rows, new)
            /\ frontier' = Max(rows \cup {frontier})
    /\ IF ProvesEmpty(rows)
       THEN empty' = Confirmed(kept) /\ emptyGen' = gen /\ hole' = None /\ UNCHANGED skip
       ELSE /\ empty' = IF new = {} THEN empty ELSE DropOverlap(rows)
            /\ UNCHANGED emptyGen
            /\ CASE Target.kind = "repair" /\ new # {} ->
                      hole' = None /\ skip' = IF skip = None THEN None ELSE [skip EXCEPT !.failures = 0]
                 [] Target.kind = "repair" /\ new = {} /\ Futile -> hole' = None /\ skip' = Backed
                 [] OTHER -> UNCHANGED <<hole, skip>>
    /\ floor' = IF Target.kind = "backfill" /\ rows = {}
                THEN (IF floor = 0 THEN Target.from ELSE Min({floor, Target.from})) ELSE floor
    /\ NextPass /\ UNCHANGED <<now, Roster>>

\* A request fails: the item is dropped; a refusal ends the pass.
Fails ==
    /\ pass # NoPass /\ pass' \in {NoPass, IF Tail(pass.items) = <<>> THEN NoPass ELSE Rest}
    /\ UNCHANGED <<now, Disk, Roster, cov, byDay, hole, skip, floor>>

-----------------------------------------------------------------------------
\* prune() and pruneCoverage(), after the passes of a tick.
Carried(left) ==
    Covers(left, cov.count - MapThenSumSet(LAMBDA d : byDay[d], {d \in Days : d < DayOf(Max({0, now - Retain}))}))
Carries(left) ==
    /\ cov # None /\ byDay # None /\ cov.count = MapThenSumSet(LAMBDA d : byDay[d], Days)
    /\ left # {} => Max(left) = cov.last /\ Carried(left).count > 0
Prune ==
    LET cutoff == DayOf(Max({0, now - Retain})) * Day
        left == {m \in held : m >= cutoff}
    IN
    /\ pass = NoPass /\ left # held
    /\ held' = left /\ empty' = {r \in empty : r.b >= cutoff}
    /\ hole' = None
    /\ IF Carries(left) THEN cov' = Carried(left) /\ byDay' = [d \in Days |-> IF d * Day < cutoff THEN 0 ELSE byDay[d]]
       ELSE cov' = None /\ byDay' = None
    /\ UNCHANGED <<now, rest, frontier, emptyGen, Roster, skip, floor, pass>>

\* refreshSymbols(): the symbol leaves the list, and comes back as a new listing.
Delist == listed /\ listed' = FALSE /\ UNCHANGED <<now, Disk, gen, cov, byDay, hole, skip, floor, pass>>
Relist ==
    /\ ~listed /\ gen < MaxGen /\ listed' = TRUE /\ gen' = gen + 1
    /\ UNCHANGED <<now, Disk, cov, byDay, hole, skip, floor, pass>>

Tick ==
    /\ now < MaxNow /\ now' = now + 1
    /\ UNCHANGED <<Disk, Roster, cov, byDay, hole, skip, floor, pass>>
Restart ==
    /\ cov' = None /\ byDay' = None /\ hole' = None /\ skip' = None /\ floor' = 0
    /\ pass' = NoPass
    /\ UNCHANGED <<now, Disk, Roster>>

Next ==
    \/ Prime \/ Plan \/ Fails \/ Prune \/ Delist \/ Relist \/ Tick \/ Restart
    \/ \E m \in {now - 1, now} : StreamWrites(m)
    \/ \E rows \in SUBSET (1 .. MaxNow) : Answer(rows)

Spec == Init /\ [][Next]_vars
-----------------------------------------------------------------------------
\* However passes, stream writes, retention and restarts interleave: what the
\* collector believes without rescanning is what is on disk, and a range proved
\* empty twice holds no candle.
CoverageIsExact ==
    /\ cov # None => cov = Scan(held)
    /\ byDay # None => byDay = PerDay(held)
    /\ \A r \in empty : r.n >= 2 => r.a .. r.b \cap held = {}
=============================================================================
