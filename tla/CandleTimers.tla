----------------------------- MODULE CandleTimers -----------------------------
(* The schedule of the candle service (candles/service.ts 368-612): the tick  *)
(* interval, the coverage prime, the horizon prime and the daily prune, each  *)
(* a chain of timeouts that re-arms itself, and stop(), which may come while  *)
(* a tick waits for its collectors.  A timer is told apart from the field     *)
(* that points at it: one that is overwritten cannot be cleared any more.     *)
EXTENDS Naturals

CONSTANTS Venues,    \* collectors, as a number
          Steps,     \* most turns a horizon prime or a prune may need
          MaxDay,    \* bound: days
          MaxStarts  \* bound: start()

VARIABLES on,        \* timer: the tick interval
          streams,   \* the stream runners
          field,     \* kind of chain -> its field holds a timer
          armed,     \* kind of chain -> timers that may still fire
          left,      \* venues to prime, series to scan, prune steps to do
          tick,      \* tickInFlight, and the day it took as its now
          day, pruned, starts

vars == <<on, streams, field, armed, left, tick, day, pruned, starts>>

Chains == {"prime", "horizon", "prune", "startup"}
NoTick == [pc |-> "none"]

Init ==
    /\ on = FALSE /\ streams = FALSE
    /\ field = [k \in Chains |-> FALSE] /\ armed = [k \in Chains |-> 0]
    /\ left = [k \in Chains |-> 0]
    /\ tick = NoTick /\ day = 1 /\ pruned = 0 /\ starts = 0

\* setTimeout() of the chains K, and its handle in the field.
Arms(K) == field' = [k \in Chains |-> k \in K \/ field[k]] /\ armed' = [k \in Chains |-> armed[k] + IF k \in K THEN 1 ELSE 0]

\* warmHorizon(): the roster may bring series whose scan is pending.
Warmed(pending) == pending > 0 /\ ~field["horizon"]

\* start(): streams, prime, interval, horizon and the first tick of WEEX.
Start(pending) ==
    /\ ~on /\ starts < MaxStarts
    /\ starts' = starts + 1 /\ on' = TRUE /\ streams' = TRUE
    /\ left' = [left EXCEPT !["prime"] = Venues, !["horizon"] = pending]
    /\ Arms({"prime", "startup"} \cup (IF Warmed(pending) THEN {"horizon"} ELSE {}))
    /\ UNCHANGED <<tick, day, pruned>>

\* stop(): every field is cleared; a tick that waits goes on.
Stop ==
    /\ on
    /\ on' = FALSE /\ streams' = FALSE
    /\ armed' = [k \in Chains |-> armed[k] - IF field[k] THEN 1 ELSE 0]
    /\ field' = [k \in Chains |-> FALSE]
    /\ UNCHANGED <<left, tick, day, pruned, starts>>

\* One turn of a chain: its field is emptied, work is done or fails, and the
\* next turn is armed while there is more.
Turn(k) ==
    /\ armed[k] > 0 /\ k # "startup"
    /\ \E n \in 0 .. left[k], fails \in BOOLEAN :
          LET goes == on \/ k = "prime"
              more == goes /\ n > 0 /\ (fails => k = "prime" /\ n < left[k])
          IN  /\ left' = IF goes THEN [left EXCEPT ![k] = n] ELSE left
              /\ field' = [field EXCEPT ![k] = more]
              /\ armed' = IF more THEN armed ELSE [armed EXCEPT ![k] = @ - 1]
    /\ UNCHANGED <<on, streams, tick, day, pruned, starts>>

\* tickAll(): by the interval, or at once after start; one tick at a time.
TickBegins(early) ==
    /\ IF early THEN armed["startup"] > 0 ELSE on
    /\ armed' = [armed EXCEPT !["startup"] = IF early THEN @ - 1 ELSE @]
    /\ field' = [field EXCEPT !["startup"] = @ /\ ~early]
    /\ tick' = IF tick = NoTick THEN [pc |-> "collecting", day |-> day] ELSE tick
    /\ UNCHANGED <<on, streams, left, day, pruned, starts>>

\* startTimeframePrune(): done at once when the service is stopped.
Prunes == on /\ ~field["prune"]

\* The rest of tickAllOnce(), after the last collector.
TickEnds(pending, steps) ==
    /\ tick # NoTick
    /\ tick' = NoTick
    /\ LET due   == tick.day > pruned
           chain == {k \in Chains : (k = "horizon" /\ on /\ Warmed(pending)) \/ (k = "prune" /\ due /\ Prunes)}
       IN  /\ pruned' = IF due THEN tick.day ELSE pruned
           /\ left' = [k \in Chains |-> IF k = "horizon" THEN pending
                                        ELSE IF k = "prune" /\ k \in chain THEN steps ELSE left[k]]
           /\ Arms(chain)
    /\ UNCHANGED <<on, streams, day, starts>>

DayPasses ==
    /\ day < MaxDay
    /\ day' = day + 1
    /\ UNCHANGED <<on, streams, field, armed, left, tick, pruned, starts>>

Next ==
    \/ \E n \in 0 .. Steps : Start(n)
    \/ Stop \/ DayPasses
    \/ \E k \in Chains : Turn(k)
    \/ \E early \in BOOLEAN : TickBegins(early)
    \/ \E n, s \in 0 .. Steps : TickEnds(n, s)

Spec == Init /\ [][Next]_vars
-----------------------------------------------------------------------------
\* In whatever order stops, starts and ticks that outlive a stop come, a chain has one
\* timer, its field holds it, and nothing of the service is armed once it has
\* stopped.
QuietWhenStopped ==
    /\ \A k \in Chains : armed[k] = IF field[k] THEN 1 ELSE 0
    /\ ~on => ~streams /\ \A k \in Chains : armed[k] = 0
=============================================================================
