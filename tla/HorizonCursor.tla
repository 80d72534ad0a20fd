---------------------------- MODULE HorizonCursor ----------------------------
(* The long horizon of one higher-timeframe series (candles/timeframe.ts     *)
(* 758-1709): a standing cursor knows which candles the shelf still lacks,   *)
(* asks for the newest missing page, takes two empty answers an hour apart   *)
(* as proof that the venue has nothing there, and starts from the shelf and  *)
(* its sidecar files after a restart.  Long answers are built by a worker    *)
(* from a job prepared earlier and are refused after a relisting.            *)
(*                                                                           *)
(* Candles are numbered by their open, one per unit of time.  The row checks *)
(* of Bitunix, the routes of WEEX and the fold of one interval into another  *)
(* are left out.                                                             *)
EXTENDS Naturals, FiniteSets, FiniteSetsExt

CONSTANTS Days,        \* candles of the horizon, its padding included
          Page,        \* candles of a page
          Chunk,       \* candles of a month, as the scan reads them
          Retry,       \* HORIZON_RETRY_MS
          Apart,       \* HORIZON_EMPTY_CONFIRM_GAP_MS
          Recheck,     \* HORIZON_EMPTY_RECHECK_MS
          MaxNow,      \* bound: the clock
          MaxGen       \* bound: listings of the symbol

VARIABLES now, gen,
          floor,       \* minuteFloors: the first open of this listing
          shelf,       \* the native rows the store holds
          frontier,    \* frontiers, and the file it was last flushed to
          file,        \* the sidecar files
          proofs,      \* proofs: a floor and empty ranges
          cursor, page, job,
          blank        \* per open, when it was first answered empty, and again

vars == <<now, gen, floor, shelf, frontier, file, proofs, cursor, page, job, blank>>

NoCursor == [on |-> FALSE]
NoPage == [on |-> FALSE]
NoJob == [pc |-> "none"]
NoFloor == [at |-> 0]
NoProofs == [gen |-> 0, floor |-> NoFloor, empty |-> {}]
Never == [first |-> 0, again |-> FALSE]
Opens == 1 .. MaxNow

Init ==
    /\ now = Days + 1 /\ gen = 1 /\ floor = 1
    /\ shelf = {} /\ frontier = 0
    /\ file = [frontier |-> 0, proofs |-> NoProofs]
    /\ proofs = NoProofs
    /\ cursor = NoCursor /\ page = NoPage /\ job = NoJob
    /\ blank = [o \in Opens |-> Never]

Newest == now - 1
From == LET oldest == IF now > Days THEN now - Days ELSE 1 IN IF oldest > floor THEN oldest ELSE floor
\* proofsFor(): the proofs of another listing do not count.
Own == IF proofs.gen = gen THEN proofs ELSE [NoProofs EXCEPT !.gen = gen]
Safe(o) == o \in shelf /\ o >= floor /\ o <= frontier

\* warm(): a tradable symbol of the roster gets a cursor, others lose theirs.
Warm ==
    /\ ~cursor.on
    /\ cursor' = [on |-> TRUE, ready |-> FALSE, begun |-> FALSE, scan |-> 0, from |-> 0, covered |-> 0,
                  gaps |-> {}, landed |-> FALSE, retry |-> 0]
    /\ UNCHANGED <<now, gen, floor, shelf, frontier, file, proofs, page, job, blank>>

Drops ==
    /\ cursor.on
    /\ cursor' = NoCursor
    /\ UNCHANGED <<now, gen, floor, shelf, frontier, file, proofs, page, job, blank>>

\* initStep(): the window is fixed by the first step, then the shelf is read
\* month by month.
Begun(c) ==
    IF c.begun THEN c
    ELSE [c EXCEPT !.begun = TRUE, !.from = From, !.scan = From, !.gaps = From .. Newest,
                   !.covered = IF Newest >= From THEN Newest ELSE From - 1]
Scans ==
    /\ cursor.on /\ ~cursor.ready
    /\ LET c    == Begun(cursor)
           to   == IF c.scan + Chunk - 1 < c.covered THEN c.scan + Chunk - 1 ELSE c.covered
           held == {o \in c.scan .. to : Safe(o)}
           left == c.gaps \ held
       IN  cursor' = [c EXCEPT !.gaps = left, !.scan = to + 1, !.ready = to >= c.covered,
                               !.landed = to >= c.covered /\ c.covered \notin left]
    /\ UNCHANGED <<now, gen, floor, shelf, frontier, file, proofs, page, job, blank>>

\* advanceCursor(): the window follows the clock.
Advanced(c) ==
    LET covered == IF Newest > c.covered THEN Newest ELSE c.covered
        from    == IF From > c.from THEN From ELSE c.from
    IN  [c EXCEPT !.covered = covered, !.from = from,
                  !.gaps = {o \in c.gaps \cup (c.covered + 1 .. covered) : o >= from}]

\* workableGaps(): what an empty answer has covered lately waits.
Waits(last, n) == now < last + (IF n >= 2 THEN Recheck ELSE Apart)
Waiting ==
    UNION {r.from .. r.to : r \in {e \in Own.empty : Waits(e.last, e.n)}}
    \cup (IF Own.floor # NoFloor /\ Waits(Own.floor.last, Own.floor.n) THEN 1 .. Own.floor.at - 1 ELSE {})

\* horizonWork(), cursorPage() and attempted(): the newest missing page.
Asks ==
    /\ cursor.on /\ cursor.ready /\ ~page.on
    /\ LET c     == Advanced(cursor)
           gaps  == c.gaps \ Waiting
           to    == Max(gaps)
           run   == {o \in gaps : o .. to \subseteq gaps}
           start == IF Min(run) + Page > to THEN Min(run) ELSE to + 1 - Page
       IN  /\ proofs' = [proofs EXCEPT !.empty = {r \in @ : r.to >= c.from}]
           /\ gaps # {} /\ now >= c.retry
           /\ cursor' = [c EXCEPT !.retry = now + Retry]
           /\ page' = [on |-> TRUE, from |-> start, to |-> to, at |-> now]
    /\ UNCHANGED <<now, gen, floor, shelf, frontier, file, job, blank>>

\* What the page proves: everything asked was empty, or empty up to its first
\* row with no hole after it, next to rows that are held.
Proven(c, rows) ==
    IF ~(page.to + 1 <= c.covered /\ page.from >= c.from /\ page.to + 1 \notin c.gaps) THEN 0
    ELSE IF rows = {} THEN page.to
    ELSE IF Min(rows) > page.from /\ rows = Min(rows) .. page.to THEN Min(rows) - 1 ELSE 0

Later(p, first) == IF page.at >= first + Apart THEN 2 ELSE p

FloorNow(to) ==
    LET f == Own.floor
    IN  IF f # NoFloor /\ f.at = to + 1
        THEN [f EXCEPT !.last = page.at, !.n = Later(@, f.first)]
        ELSE [at |-> to + 1, first |-> page.at, last |-> page.at, n |-> 1]

EmptyNow(to) ==
    LET same == {r \in Own.empty : r.from = page.from /\ r.to = to}
    IN  IF same # {}
        THEN (Own.empty \ same) \cup {[r EXCEPT !.last = page.at, !.n = Later(@, r.first)] : r \in same}
        ELSE {r \in Own.empty : r.to < page.from \/ r.from > to}
             \cup {[from |-> page.from, to |-> to, first |-> page.at, last |-> page.at, n |-> 1]}

Proofs(c, rows) ==
    LET to      == Proven(c, rows)
        leading == c.gaps # {} /\ c.from .. to \subseteq c.gaps
        told    == IF to = 0 THEN proofs
                   ELSE IF leading THEN [Own EXCEPT !.floor = FloorNow(to)]
                   ELSE [Own EXCEPT !.empty = EmptyNow(to)]
    IN  [told EXCEPT !.floor = IF @ # NoFloor /\ \E o \in rows : o < @.at THEN NoFloor ELSE @,
                     !.empty = {r \in @ : rows \cap (r.from .. r.to) = {}}]

\* A new proof, or one that is now confirmed.
Counts(p) == {[x EXCEPT !.last = 0] : x \in p.empty \cup ({p.floor} \ {NoFloor})}
News(c, rows) == Proven(c, rows) # 0 /\ ~(Counts(Proofs(c, rows)) \subseteq Counts(Own))

Blanked(rows) ==
    [o \in Opens |->
        IF o \notin (page.from .. page.to) \ rows THEN blank[o]
        ELSE IF blank[o].first = 0 THEN [Never EXCEPT !.first = page.at]
        ELSE [blank[o] EXCEPT !.again = @ \/ page.at >= blank[o].first + Apart]]

Flushes(p, f) == file' = file \/ file' = [frontier |-> f, proofs |-> p]

\* recordHorizon(): rows of an earlier listing are dropped, the store and the
\* frontier take the others, and a cursor that is ready takes the news.
Records(rows) ==
    LET got  == {o \in rows : o < page.at /\ o >= floor}
        seen == [cursor EXCEPT !.gaps = @ \ got]
        took == cursor.on /\ cursor.ready
    IN  /\ page.on /\ rows \subseteq page.from .. page.to
        /\ page' = NoPage
        /\ shelf' = shelf \cup got
        /\ frontier' = Max(got \cup {frontier})
        /\ proofs' = IF took THEN Proofs(seen, got) ELSE proofs
        /\ cursor' = IF ~took THEN cursor
                     ELSE [seen EXCEPT !.landed = @ \/ seen.covered \notin seen.gaps,
                                       !.retry = IF got # {} \/ News(seen, got) \/ page.to >= page.at THEN 0 ELSE @]
        /\ blank' = Blanked(got)
        /\ Flushes(proofs', frontier')
        /\ UNCHANGED <<now, gen, floor, job>>

AskFails ==
    /\ page.on
    /\ page' = NoPage
    /\ UNCHANGED <<now, gen, floor, shelf, frontier, file, proofs, cursor, job, blank>>

\* record() of a reader's demand: rows arrive that the cursor is not told of.
Demanded(o) ==
    /\ o \in From .. Newest /\ o \notin shelf
    /\ shelf' = shelf \cup {o}
    /\ frontier' = IF o > frontier THEN o ELSE frontier
    /\ Flushes(proofs, frontier')
    /\ UNCHANGED <<now, gen, floor, proofs, cursor, page, job, blank>>

Flush ==
    /\ file # [frontier |-> frontier, proofs |-> proofs]
    /\ file' = [frontier |-> frontier, proofs |-> proofs]
    /\ UNCHANGED <<now, gen, floor, shelf, frontier, proofs, cursor, page, job, blank>>

\* prune(): the shelf keeps a little more than the horizon.
Prune ==
    /\ \E o \in shelf : o + Days + 1 < now
    /\ shelf' = {o \in shelf : o + Days + 1 >= now}
    /\ UNCHANGED <<now, gen, floor, frontier, file, proofs, cursor, page, job, blank>>

\* Memory goes, the files are read again.
Reloaded ==
    /\ frontier' = file'.frontier /\ proofs' = file'.proofs
    /\ cursor' = NoCursor /\ page' = NoPage /\ job' = NoJob

Restart == UNCHANGED <<now, gen, floor, shelf, file, blank>> /\ Reloaded

\* noteInstrumentRoster(): the rows of another listing go, then the identity
\* is written, then the frontier and the proofs; the process may die between.
Relist ==
    /\ gen < MaxGen
    /\ shelf' = {}
    /\ \/ UNCHANGED <<gen, floor, file, blank>> /\ Reloaded
       \/ /\ gen' = gen + 1 /\ floor' = now
          /\ blank' = [o \in Opens |-> Never]
          /\ \/ UNCHANGED file /\ Reloaded
             \/ file' = [file EXCEPT !.frontier = 0] /\ Reloaded
             \/ /\ file' = [frontier |-> 0, proofs |-> NoProofs]
                /\ frontier' = 0 /\ proofs' = NoProofs /\ cursor' = NoCursor
                /\ UNCHANGED <<page, job>>
    /\ UNCHANGED now

\* prepareLongRequest(), the worker's read, and finishLongRequest().
Prepares ==
    /\ job.pc \in {"none", "served"}
    /\ job' = [pc |-> "asked", gen |-> gen, frontier |-> frontier, floor |-> floor, rows |-> {}]
    /\ UNCHANGED <<now, gen, floor, shelf, frontier, file, proofs, cursor, page, blank>>

Builds ==
    /\ job.pc = "asked"
    /\ job' = [job EXCEPT !.pc = "built", !.rows = {o \in shelf : o >= job.floor /\ o <= job.frontier}]
    /\ UNCHANGED <<now, gen, floor, shelf, frontier, file, proofs, cursor, page, blank>>

Finishes ==
    /\ job.pc = "built"
    /\ job' = IF job.gen # gen THEN NoJob ELSE [pc |-> "served", older |-> {o \in job.rows : o < floor}]
    /\ UNCHANGED <<now, gen, floor, shelf, frontier, file, proofs, cursor, page, blank>>

Tick ==
    /\ now < MaxNow
    /\ now' = now + 1
    /\ UNCHANGED <<gen, floor, shelf, frontier, file, proofs, cursor, page, job, blank>>

Next ==
    \/ Warm \/ Drops \/ Scans \/ Asks \/ AskFails \/ Flush \/ Prune \/ Restart \/ Relist \/ Tick
    \/ Prepares \/ Builds \/ Finishes
    \/ page.on /\ \E rows \in SUBSET (page.from .. page.to) : Records(rows)
    \/ \E o \in Opens : Demanded(o)

Spec == Init /\ [][Next]_vars
-----------------------------------------------------------------------------
\* What a cursor does not list as missing is on the shelf and may be served; a
\* confirmed hole was answered empty twice, far enough apart; a long answer has
\* no candle of an earlier listing.
HorizonIsHonest ==
    /\ cursor.on /\ cursor.ready =>
           /\ \A o \in (cursor.from .. cursor.covered) \ cursor.gaps : o < From \/ Safe(o)
           /\ cursor.covered < now
    /\ \A r \in Own.empty : r.n >= 2 => \A o \in r.from .. r.to : blank[o].again
    /\ Own.floor # NoFloor /\ Own.floor.n >= 2 => blank[Own.floor.at - 1].again
    /\ job.pc = "served" => job.older = {}
=============================================================================
