-------------------------- MODULE MarketData_proofs --------------------------
(*************************************************************************)
(* Proofs about the market-data side: the timers of the candle service,  *)
(* the credits of the market capitalisations, the pacing of a venue, the *)
(* live candles and the liquidation feed on their socket pools, and the  *)
(* closing of Bitunix minutes.                                           *)
(*                                                                       *)
(* In MCMarketData every part keeps its state in v1, v2, ... : the       *)
(* invariant of a part is stated over them, and holds while `part` names *)
(* that part.  What both streams need of the socket pool is proved once, *)
(* for the symbols, the frames and the extra state of a connection they  *)
(* give it.                                                              *)
(*************************************************************************)
EXTENDS MCMarketData, FiniteSetTheorems, SequenceTheorems, TLAPS
-----------------------------------------------------------------------------
\* A part at a time, first the three of usage.
\*
\* CandleTimers: v1 on, v2 streams, v3 field, v4 armed.  start() and stop() of
\* candles/service.ts move both together; a chain has one timer armed when its
\* field is set and none otherwise, and a stopped service has none.
TimersInv ==
    /\ v1 \in BOOLEAN /\ v2 = v1
    /\ v3 \in [Timers!Chains -> BOOLEAN]
    /\ v4 = [k \in Timers!Chains |-> IF v3[k] THEN 1 ELSE 0]
    /\ ~v1 => \A k \in Timers!Chains : ~v3[k]

LEMMA TimersStart == Timers!Init => TimersInv
BY DEF Timers!Init, TimersInv, Timers!Chains

LEMMA TimersArmed ==
    ASSUME TimersInv, NEW K, Timers!Arms(K), \A k \in Timers!Chains : k \in K => ~v3[k],
           v1' \in BOOLEAN, v2' = v1', v1 \/ v1', K # {} => v1', K = {} => v1' = v1
    PROVE  TimersInv'
<1>1. v3' = [k \in Timers!Chains |-> k \in K \/ v3[k]]
    BY DEF Timers!Arms
<1>2. v4' = [k \in Timers!Chains |-> IF v3'[k] THEN 1 ELSE 0]
    <2>1. ASSUME NEW k \in Timers!Chains
          PROVE  v4[k] + (IF k \in K THEN 1 ELSE 0) = IF v3'[k] THEN 1 ELSE 0
        <3>1. CASE k \in K
            <4>1. ~v3[k] /\ v4[k] = 0
                BY <3>1 DEF TimersInv
            <4>2. v3'[k]
                BY <1>1, <3>1
            <4> QED
                BY <3>1, <4>1, <4>2
        <3>2. CASE k \notin K
            <4>1. v3'[k] = v3[k]
                BY <1>1, <3>2 DEF TimersInv
            <4>2. v4[k] = IF v3[k] THEN 1 ELSE 0
                BY DEF TimersInv
            <4> QED
                BY <3>2, <4>1, <4>2
        <3> QED
            BY <3>1, <3>2
    <2> QED
        BY <2>1, Zenon DEF Timers!Arms
<1>3. v3' \in [Timers!Chains -> BOOLEAN]
    BY <1>1 DEF TimersInv
<1>4. v1'
    BY DEF TimersInv
<1> QED
    BY <1>2, <1>3, <1>4 DEF TimersInv

LEMMA TimersKept == TimersInv /\ Timers!Next => TimersInv'
<1> SUFFICES ASSUME TimersInv, Timers!Next PROVE TimersInv'
    OBVIOUS
<1>1. ASSUME NEW n \in 0 .. Steps, Timers!Start(n) PROVE TimersInv'
    <2> DEFINE K == {"prime", "startup"} \cup (IF Timers!Warmed(n) THEN {"horizon"} ELSE {})
    <2>1. Timers!Arms(K) /\ ~v1 /\ v1' = TRUE /\ v2' = TRUE
        BY <1>1, Zenon DEF Timers!Start
    <2>2. "prime" \in K
        OBVIOUS
    <2> HIDE DEF K
    <2> QED
        BY <2>1, <2>2, TimersArmed DEF TimersInv
<1>2. CASE Timers!Stop
    <2>1. /\ v1' = FALSE /\ v2' = FALSE /\ v3' = [k \in Timers!Chains |-> FALSE]
          /\ v4' = [k \in Timers!Chains |-> v4[k] - IF v3[k] THEN 1 ELSE 0]
        BY <1>2, Zenon DEF Timers!Stop
    <2>2. ASSUME NEW k \in Timers!Chains PROVE v4[k] - (IF v3[k] THEN 1 ELSE 0) = 0
        <3>1. v4[k] = IF v3[k] THEN 1 ELSE 0
            BY DEF TimersInv
        <3> QED
            BY <3>1
    <2>3. v4' = [k \in Timers!Chains |-> 0]
        BY <2>1, <2>2
    <2> QED
        BY <2>1, <2>3 DEF TimersInv
<1>3. CASE Timers!DayPasses
    BY <1>3 DEF Timers!DayPasses, TimersInv
<1>4. ASSUME NEW k \in Timers!Chains, Timers!Turn(k) PROVE TimersInv'
    <2>1. v4[k] = 1 /\ v3[k] /\ v1
        BY <1>4 DEF Timers!Turn, TimersInv
    <2>2. PICK n \in 0 .. v5[k], fails \in BOOLEAN :
             LET more == n > 0 /\ (fails => k = "prime" /\ n < v5[k])
             IN  /\ v3' = [v3 EXCEPT ![k] = more]
                 /\ v4' = IF more THEN v4 ELSE [v4 EXCEPT ![k] = @ - 1]
        BY <1>4, <2>1 DEF Timers!Turn
    <2> DEFINE more == n > 0 /\ (fails => k = "prime" /\ n < v5[k])
    <2>3. UNCHANGED <<v1, v2>>
        BY <1>4 DEF Timers!Turn
    <2>4. CASE more
        <3>1. v3' = v3 /\ v4' = v4
            BY <2>1, <2>2, <2>4 DEF TimersInv
        <3> QED
            BY <2>3, <3>1 DEF TimersInv
    <2>5. CASE ~more
        <3>1. v3' = [v3 EXCEPT ![k] = FALSE] /\ v4' = [v4 EXCEPT ![k] = 0]
            <4>1. more = FALSE
                BY <2>5
            <4>2. v4' = [v4 EXCEPT ![k] = 0]
                BY <2>1, <2>2, <2>5
            <4> QED
                BY <2>2, <4>1, <4>2, Zenon
        <3>2. v4' = [l \in Timers!Chains |-> IF v3'[l] THEN 1 ELSE 0]
            BY <3>1 DEF TimersInv
        <3> QED
            BY <2>1, <2>3, <3>1, <3>2 DEF TimersInv
    <2> QED
        BY <2>4, <2>5
<1>5. ASSUME NEW early \in BOOLEAN, Timers!TickBegins(early) PROVE TimersInv'
    <2>1. UNCHANGED <<v1, v2>>
        BY <1>5 DEF Timers!TickBegins
    <2>2. CASE early
        <3>1. v4["startup"] = 1 /\ v3["startup"] /\ v1
            BY <1>5, <2>2 DEF Timers!TickBegins, TimersInv, Timers!Chains
        <3>2. v3' = [v3 EXCEPT !["startup"] = FALSE] /\ v4' = [v4 EXCEPT !["startup"] = 0]
            <4>1. v3' = [v3 EXCEPT !["startup"] = @ /\ ~early] /\ (v3["startup"] /\ ~early) = FALSE
                BY <1>5, <2>2, Zenon DEF Timers!TickBegins
            <4>2. v4' = [v4 EXCEPT !["startup"] = 0]
                BY <1>5, <2>2, <3>1 DEF Timers!TickBegins
            <4> QED
                BY <4>1, <4>2, Zenon
        <3>3. v4' = [l \in Timers!Chains |-> IF v3'[l] THEN 1 ELSE 0]
            BY <3>2 DEF TimersInv
        <3> QED
            BY <2>1, <3>1, <3>2, <3>3 DEF TimersInv
    <2>3. CASE ~early
        <3>1. v3' = v3 /\ v4' = v4
            BY <1>5, <2>3 DEF Timers!TickBegins, TimersInv, Timers!Chains
        <3> QED
            BY <2>1, <3>1 DEF TimersInv
    <2> QED
        BY <2>2, <2>3
<1>6. ASSUME NEW n \in 0 .. Steps, NEW s \in 0 .. Steps, Timers!TickEnds(n, s) PROVE TimersInv'
    <2> DEFINE due == v6.day > v8
               K   == {k \in Timers!Chains : (k = "horizon" /\ v1 /\ Timers!Warmed(n)) \/ (k = "prune" /\ due /\ Timers!Prunes)}
    <2>1. Timers!Arms(K) /\ UNCHANGED <<v1, v2>>
        BY <1>6, Zenon DEF Timers!TickEnds
    <2>2. \A k \in Timers!Chains : k \in K => ~v3[k] /\ v1
        BY DEF Timers!Warmed, Timers!Prunes
    <2>3. CASE v1
        <3> HIDE DEF K
        <3> QED
            BY <2>1, <2>2, <2>3, TimersArmed DEF TimersInv
    <2>4. CASE ~v1
        <3>1. K = {}
            BY <2>2, <2>4
        <3>2. v3' = v3 /\ v4' = v4
            BY <2>1, <3>1 DEF Timers!Arms, TimersInv
        <3> QED
            BY <2>1, <3>2 DEF TimersInv
    <2> QED
        BY <2>3, <2>4
<1> QED
    BY <1>1, <1>2, <1>3, <1>4, <1>5, <1>6 DEF Timers!Next

LEMMA TimersShown == TimersInv => Timers!QuietWhenStopped
BY DEF TimersInv, Timers!QuietWhenStopped

-----------------------------------------------------------------------------
\* MarketCaps: v1 now, v14 ledger, v15 disk, v16 clean, v17 billed, v18 served, v19
\* file.  The ledger says what was billed, and what is on disk once saved says the
\* same; what a restart would serve is what is served, and every mapped symbol has a cap.
Ledger == [month : Nat, used : Nat]

CapsInv ==
    /\ v1 \in Nat /\ v14 \in Ledger /\ v15 \in Ledger
    /\ v14 = v17
    /\ v16 => v14 = v15
    /\ v18 = v19
    /\ v18 # Caps!NoSnap => \A v \in Caps!Venues : v18.mapped[v] \subseteq DOMAIN v18.caps \cap v18.rows[v]

LEMMA CapsStart == Caps!McInit => CapsInv
BY DEF Caps!McInit, CapsInv, Caps!NoSnap, Ledger

LEMMA ChargeIsBooked ==
    ASSUME CapsInv, Caps!Charge(1), v17' = [Caps!Rolled(v17, v1) EXCEPT !.used = @ + 1]
    PROVE  v14' \in Ledger /\ v15' \in Ledger /\ v14' = v17' /\ (v16' => v14' = v15')
<1>1. v1 \div Month \in Nat
    BY LengthAssumption DEF CapsInv
<1>2. Caps!Rolled(v14, v1) \in Ledger
    BY <1>1 DEF Caps!Rolled, Caps!MonthOf, CapsInv, Ledger
<1> QED
    BY <1>2 DEF Caps!Charge, CapsInv, Ledger

LEMMA SnapshotIsWhole ==
    \A v \in Caps!Venues : Caps!Snapshot.mapped[v] \subseteq DOMAIN Caps!Snapshot.caps \cap Caps!Snapshot.rows[v]
BY DEF Caps!Snapshot, Caps!MappedIds, Caps!Mapped

LEMMA CapsKept == CapsInv /\ Caps!McNext => CapsInv'
<1> SUFFICES ASSUME CapsInv, Caps!McNext PROVE CapsInv'
    OBVIOUS
<1> USE DEF CapsInv
<1>1. CASE v1' \in Nat /\ UNCHANGED <<Caps!books, Caps!output>>
    BY <1>1 DEF Caps!books, Caps!output
<1>2. CASE Caps!Calls
    BY <1>2, ChargeIsBooked DEF Caps!Calls, Caps!output
<1>3. ASSUME NEW ok \in BOOLEAN, Caps!Publish(ok) PROVE CapsInv'
    BY <1>3, SnapshotIsWhole DEF Caps!Publish, Caps!books
<1>4. ASSUME NEW ok \in BOOLEAN, Caps!Restart(ok) PROVE CapsInv'
    BY <1>4, SnapshotIsWhole DEF Caps!Restart
<1>5. ASSUME NEW answer, NEW extra \in BOOLEAN, Caps!QuoteRead(answer, extra) PROVE CapsInv'
    BY <1>5, ChargeIsBooked DEF Caps!QuoteRead, Caps!books, Caps!output
<1>6. ASSUME NEW ok \in BOOLEAN, NEW others, Caps!ListRead(ok, others) PROVE CapsInv'
    BY <1>1, <1>6 DEF Caps!ListRead
<1>7. ASSUME NEW got, Caps!CatalogueRead(got) PROVE CapsInv'
    BY <1>1, <1>7 DEF Caps!CatalogueRead
<1>8. ASSUME NEW more, NEW whole, Caps!PairsRead(more, whole) PROVE CapsInv'
    BY <1>1, <1>8 DEF Caps!PairsRead
<1>9. ASSUME NEW v, NEW s, Caps!Lists(v, s) PROVE CapsInv'
    BY <1>1, <1>9 DEF Caps!Lists
<1> QED
    BY <1>1, <1>2, <1>3, <1>4, <1>5, <1>6, <1>7, <1>8, <1>9
       DEF Caps!McNext, Caps!TickBegins, Caps!MappingEnds, Caps!RetryEnds, Caps!CapsBegin, Caps!Tick

LEMMA CapsShown == CapsInv => Caps!CapsAreHonest
BY DEF CapsInv, Caps!CapsAreHonest, Ledger

-----------------------------------------------------------------------------
\* VenuePace: v1 now, v2 rate, v3 cooldown, v4 hits, v6 ceiling, v7 fails, v12
\* pass, v13 the last refusal, v14 when the venue was last asked.  A pass flies only
\* past the cooldown; after a refusal the cooldown is the one it named, no request
\* went out inside it, and the rate stays under the ceiling while it is remembered.
Stop == [rate : Nat, at : Nat, wait : Nat]

PaceInv ==
    /\ v1 \in Nat /\ v2 \in Nat /\ v3 \in Nat /\ v4 \in 0 .. 4
    /\ v6 \in [rate : Nat, until : Nat] /\ v7 \in Nat
    /\ v13 \in Stop /\ v14 \in Nat
    /\ v14 <= v1
    /\ v12 # Pace!Idle => v1 >= v3
    /\ v13 # Pace!NoRefusal =>
          /\ v13.at <= v1 /\ v3 = v13.at + v13.wait
          /\ v6 = [rate |-> Pace!Max({MinRate, (v13.rate * 4) \div 5}), until |-> v13.at + Memory]
          /\ v14 <= v13.at \/ v14 >= v3
          /\ v1 < v6.until => v2 <= v6.rate

LEMMA PaceMax == \A a, b \in Int : Pace!Max({a, b}) = IF a >= b THEN a ELSE b
<1> SUFFICES ASSUME NEW a \in Int, NEW b \in Int PROVE Pace!Max({a, b}) = IF a >= b THEN a ELSE b
    OBVIOUS
<1> DEFINE m == IF a >= b THEN a ELSE b
<1>1. m \in {a, b} /\ \A y \in {a, b} : m >= y
    OBVIOUS
<1>2. \A x \in {a, b} : (\A y \in {a, b} : x >= y) => x = m
    OBVIOUS
<1> QED
    BY <1>1, <1>2 DEF Pace!Max

LEMMA PaceMin == \A a, b \in Int : Pace!Min({a, b}) = IF a <= b THEN a ELSE b
<1> SUFFICES ASSUME NEW a \in Int, NEW b \in Int PROVE Pace!Min({a, b}) = IF a <= b THEN a ELSE b
    OBVIOUS
<1> DEFINE m == IF a <= b THEN a ELSE b
<1>1. m \in {a, b} /\ \A y \in {a, b} : m <= y
    OBVIOUS
<1>2. \A x \in {a, b} : (\A y \in {a, b} : x <= y) => x = m
    OBVIOUS
<1> QED
    BY <1>1, <1>2 DEF Pace!Min

LEMMA TwoToThe == \A n \in 0 .. 4 : 2 ^ n \in Nat
<1>1. \A n \in 0 .. 4 : n = 0 \/ n = 1 \/ n = 2 \/ n = 3 \/ n = 4
    OBVIOUS
<1>2. 2 ^ 0 \in Nat /\ 2 ^ 1 \in Nat /\ 2 ^ 2 \in Nat /\ 2 ^ 3 \in Nat /\ 2 ^ 4 \in Nat
    OBVIOUS
<1> QED
    BY <1>1, <1>2

LEMMA PaceStart == Pace!Init => PaceInv
BY PaceAssumption DEF Pace!Init, PaceInv, Pace!NoCeiling, Pace!NoRefusal, Stop

\* Once refused, whatever was known before: the new silence is the remembered one.
LEMMA RefusedIsRemembered ==
    ASSUME PaceInv, NEW wait \in RetryAfter, Pace!Refused(wait), v12' = Pace!Idle,
           UNCHANGED <<v1, v14>>, v7' \in Nat
    PROVE  PaceInv'
<1> DEFINE slow  == Pace!Max({MinRate, (v2 * 4) \div 5})
           half  == Pace!Max({MinRate, v2 \div 2})
           quiet == Pace!Max({wait, Pace!Min({MaxCooldown, Cooldown * 2 ^ v4})})
<1>1. /\ MinRate \in Nat /\ MaxCooldown \in Nat /\ Cooldown \in Nat /\ Memory \in Nat /\ wait \in Nat
      /\ v1 \in Nat /\ v2 \in Nat /\ v4 \in 0 .. 4 /\ v14 \in Nat
    BY PaceAssumption DEF PaceInv
<1>2. slow \in Nat /\ half \in Nat /\ half <= slow
    <2>1. /\ (v2 * 4) \div 5 \in Nat /\ v2 \div 2 \in Nat
          /\ v2 \div 2 <= (v2 * 4) \div 5
        BY <1>1
    <2> QED
        BY <1>1, <2>1, PaceMax
<1>3. quiet \in Nat
    <2>1. Cooldown * 2 ^ v4 \in Nat
        <3> DEFINE times == 2 ^ v4
        <3>1. times \in Nat
            BY <1>1, TwoToThe
        <3> HIDE DEF times
        <3>2. Cooldown * times \in Nat
            BY <1>1, <3>1
        <3> QED
            BY <3>2 DEF times
    <2> DEFINE doubled == Cooldown * 2 ^ v4
               capped == Pace!Min({MaxCooldown, doubled})
    <2>2. doubled \in Nat
        BY <2>1
    <2> HIDE DEF doubled
    <2>3. capped \in Nat
        BY <1>1, <2>2, PaceMin
    <2> HIDE DEF capped
    <2>4. Pace!Max({wait, capped}) \in Nat
        BY <1>1, <2>3, PaceMax
    <2> QED
        BY <2>4 DEF capped, doubled
<1>4. v4' \in 0 .. 4
    <2>1. Pace!Min({v4 + 1, 4}) \in 0 .. 4
        BY <1>1, PaceMin
    <2> QED
        BY <2>1 DEF Pace!Refused
<1>5. /\ v6' = [rate |-> slow, until |-> v1 + Memory] /\ v2' = half /\ v3' = v1 + quiet
      /\ v13' = [rate |-> v2, at |-> v1, wait |-> v3' - v1]
    BY DEF Pace!Refused
<1>6. v13'.wait = quiet
    BY <1>1, <1>3, <1>5
<1> HIDE DEF slow, half, quiet
<1>7. /\ v2' \in Nat /\ v3' \in Nat /\ v6' \in [rate : Nat, until : Nat]
      /\ v13' = [rate |-> v2, at |-> v1, wait |-> quiet] /\ v13' \in Stop
    BY <1>1, <1>2, <1>3, <1>5, <1>6 DEF Stop
<1>8. v6' = [rate |-> Pace!Max({MinRate, (v13'.rate * 4) \div 5}), until |-> v13'.at + Memory]
    BY <1>5, <1>7 DEF slow
<1>9. v13'.at <= v1' /\ v3' = v13'.at + v13'.wait /\ v14' <= v13'.at /\ v2' <= v6'.rate
    BY <1>1, <1>2, <1>3, <1>5, <1>7 DEF PaceInv
<1> QED
    BY <1>1, <1>4, <1>7, <1>8, <1>9 DEF PaceInv

LEMMA PaceKept == PaceInv /\ Pace!Next => PaceInv'
<1> SUFFICES ASSUME PaceInv, Pace!Next PROVE PaceInv'
    OBVIOUS
<1>1. CASE Pace!Skip
    BY <1>1 DEF Pace!Skip, Pace!Rate, Pace!Seen, PaceInv
<1>2. CASE Pace!Works
    BY <1>2 DEF Pace!Works, Pace!Rate, Pace!Seen, PaceInv, Pace!Idle
<1>3. CASE Pace!Request
    <2>1. v1 >= v3
        BY <1>3 DEF Pace!Request, PaceInv, Pace!Idle
    <2> QED
        BY <1>3, <2>1 DEF Pace!Request, Pace!Rate, Pace!Seen, PaceInv
<1>4. CASE Pace!EndPass
    BY <1>4 DEF Pace!EndPass, Pace!Rate, Pace!Seen, PaceInv
<1>5. CASE Pace!Good
    <2>1. v1 >= v3
        BY <1>5 DEF Pace!Good, PaceInv, Pace!Idle
    <2>2. v2' \in Nat /\ (v1 < v6.until /\ v2 <= v6.rate => v2' <= v6.rate)
        <3> DEFINE quicker == Pace!Max({v2 + 1, (v2 * 5) \div 4})
        <3>1. /\ MaxRate \in Nat /\ v2 \in Nat /\ v6.rate \in Nat /\ v6.until \in Nat /\ v1 \in Nat
            BY PaceAssumption DEF PaceInv
        <3>2. Pace!Limit \in Nat /\ (v1 < v6.until => Pace!Limit <= v6.rate)
            BY <3>1, PaceMin DEF Pace!Limit
        <3>3. quicker \in Nat
            <4>1. v2 + 1 \in Nat /\ (v2 * 5) \div 4 \in Nat
                BY <3>1
            <4> QED
                BY <4>1, PaceMax
        <3>4. v2' = v2 \/ v2' = Pace!Min({Pace!Limit, quicker})
            BY <1>5 DEF Pace!Good, Pace!Succeeded
        <3> HIDE DEF quicker
        <3>5. Pace!Min({Pace!Limit, quicker}) \in Nat /\ Pace!Min({Pace!Limit, quicker}) <= Pace!Limit
            BY <3>2, <3>3, PaceMin
        <3> QED
            BY <3>1, <3>2, <3>4, <3>5
    <2>3. v7' \in Nat /\ v4' \in 0 .. 4 /\ UNCHANGED <<v1, v3, v6, v13, v14>>
        BY <1>5 DEF Pace!Good, Pace!Succeeded
    <2> QED
        BY <2>1, <2>2, <2>3 DEF PaceInv
<1>6. ASSUME NEW wait \in RetryAfter, Pace!SlowDown(wait) PROVE PaceInv'
    BY <1>6, RefusedIsRemembered DEF Pace!SlowDown
<1>7. ASSUME NEW wait \in RetryAfter, Pace!RateLimited(wait) PROVE PaceInv'
    BY <1>7, RefusedIsRemembered DEF Pace!RateLimited, Pace!Seen, PaceInv
<1>8. CASE Pace!Errs
    <2>1. v1 >= v3
        BY <1>8 DEF Pace!Errs, PaceInv, Pace!Idle
    <2>2. v7' \in Nat
        <3>1. v7' = Pace!Min({v7 + 1, FailingAfter})
            BY <1>8 DEF Pace!Errs
        <3>2. v7 + 1 \in Nat /\ FailingAfter \in Nat
            BY PaceAssumption DEF PaceInv
        <3>3. Pace!Min({v7 + 1, FailingAfter}) = IF v7 + 1 <= FailingAfter THEN v7 + 1 ELSE FailingAfter
            BY <3>2, PaceMin
        <3> QED
            BY <3>1, <3>2, <3>3
    <2> QED
        BY <1>8, <2>1, <2>2 DEF Pace!Errs, Pace!Rate, PaceInv
<1>9. CASE Pace!Tick
    <2>1. /\ v1' = v1 + 1 /\ v1 \in Nat
          /\ UNCHANGED <<v2, v3, v4, v6, v7, v12, v13, v14>>
        BY <1>9 DEF Pace!Tick, Pace!Rate, Pace!Seen, PaceInv
    <2>2. v3 \in Nat /\ v14 \in Nat /\ v13 \in Stop /\ v6 \in [rate : Nat, until : Nat]
        BY DEF PaceInv
    <2>3. v12' # Pace!Idle => v1' >= v3'
        BY <2>1, <2>2 DEF PaceInv
    <2>4. v14' <= v1' /\ v13.at \in Nat /\ v6.until \in Nat
        BY <2>1, <2>2 DEF PaceInv, Stop
    <2>5. ASSUME v13' # Pace!NoRefusal
          PROVE  v13'.at <= v1' /\ (v1' < v6'.until => v2' <= v6'.rate)
        BY <2>1, <2>4, <2>5 DEF PaceInv
    <2> QED
        BY <2>1, <2>2, <2>3, <2>4, <2>5 DEF PaceInv
<1>10. ASSUME NEW due \in 0 .. MaxRate, Pace!Begin(due) PROVE PaceInv'
    BY <1>10 DEF Pace!Begin, Pace!Cooling, Pace!Rate, Pace!Seen, PaceInv
<1> QED
    BY <1>1, <1>2, <1>3, <1>4, <1>5, <1>6, <1>7, <1>8, <1>9, <1>10 DEF Pace!Next

LEMMA PaceShown == PaceInv => Pace!RefusalsObeyed
<1> SUFFICES ASSUME PaceInv, v13 # Pace!NoRefusal PROVE Pace!RefusalsObeyed
    BY DEF Pace!RefusalsObeyed
<1>1. v1 < v3 => Pace!State \in {"failing", "cooling"}
    BY PaceAssumption DEF PaceInv, Pace!State, Pace!Cooling
<1>2. v3 = v13.at + v13.wait /\ v6.until = v13.at + Memory /\ v6.rate = Pace!Max({MinRate, (v13.rate * 4) \div 5})
    BY DEF PaceInv
<1> QED
    BY <1>1, <1>2 DEF PaceInv, Pace!RefusalsObeyed

-----------------------------------------------------------------------------
\* The three parts of usage, each under its own invariant.
UsageInv ==
    /\ part = "pace" => PaceInv
    /\ part = "caps" => CapsInv
    /\ part = "timers" => TimersInv

\* A venue's refusal is obeyed for as long as it says, every credit charged is in
\* the ledger and a coin that is served as mapped has its verdict, and a stopped
\* service has nothing armed: collector.ts paces its requests, marketcap/service.ts
\* charges before it calls and publishes whole snapshots, candles/service.ts arms each
\* timer chain once and stop() disarms them all.
THEOREM UsageBounded == Spec => []UsageIsBounded
<1>1. Init => UsageInv
    BY PaceStart, CapsStart, TimersStart
       DEF Init, UsageInv, StreamStarts, LiqStarts, FoldStarts, SeedsStarts, GzipStarts,
           CoverageStarts, PaceStarts, SnapshotsStarts, ShelfStarts, HorizonStarts,
           TimersStarts, CapsStarts
<1>2. UsageInv /\ [Next]_vars => UsageInv'
    <2> SUFFICES ASSUME UsageInv, [Next]_vars PROVE UsageInv'
        OBVIOUS
    <2>1. CASE PaceMoves
        BY <2>1, PaceKept DEF UsageInv, PaceMoves
    <2>2. CASE CapsMoves
        BY <2>2, CapsKept DEF UsageInv, CapsMoves
    <2>3. CASE TimersMoves
        BY <2>3, TimersKept DEF UsageInv, TimersMoves
    <2>4. CASE UNCHANGED vars
        <3>1. UNCHANGED <<part, v1, v2, v3, v4, v6, v7, v12, v13, v14, v15, v16, v17, v18, v19>>
            BY <2>4 DEF vars
        <3>2. PaceInv => PaceInv'
            BY <3>1 DEF PaceInv
        <3>3. CapsInv => CapsInv'
            BY <3>1 DEF CapsInv
        <3>4. TimersInv => TimersInv'
            BY <3>1 DEF TimersInv
        <3> QED
            BY <3>1, <3>2, <3>3, <3>4 DEF UsageInv
    <2>5. CASE part' = part /\ part \notin {"pace", "caps", "timers"}
        BY <2>5 DEF UsageInv
    <2> QED
        BY <2>1, <2>2, <2>3, <2>4, <2>5
           DEF Next, StreamMoves, LiqMoves, FoldMoves, SeedsMoves, GzipMoves,
               CoverageMoves, SnapshotsMoves, ShelfMoves, HorizonMoves
<1>3. UsageInv => UsageIsBounded
    BY PaceShown, CapsShown, TimersShown DEF UsageInv, UsageIsBounded
<1> QED
    BY <1>1, <1>2, <1>3, PTL DEF Spec

-----------------------------------------------------------------------------
\* A finite set can be enumerated, and an enumeration misses nothing.
LEMMA Enumerable ==
    ASSUME NEW W, IsFiniteSet(W)
    PROVE  \E f \in [1 .. Cardinality(W) -> W] : IsInjective(f)
BY FS_CardinalityType DEF ExistsBijection, Bijection, Injection

LEMMA EnumeratedWhole ==
    ASSUME NEW W, IsFiniteSet(W), NEW f \in [1 .. Cardinality(W) -> W], IsInjective(f)
    PROVE  \A x \in W : \E i \in 1 .. Cardinality(W) : f[i] = x
<1>1. Cardinality(W) \in Nat
    BY FS_CardinalityType
<1>2. IsFiniteSet(1 .. Cardinality(W)) /\ Cardinality(1 .. Cardinality(W)) = Cardinality(W)
    BY <1>1, FS_Interval
<1>3. f \in Injection(1 .. Cardinality(W), W)
    BY DEF Injection
<1>4. f \in Surjection(1 .. Cardinality(W), W)
    BY <1>2, <1>3, FS_Injection
<1> QED
    BY <1>4 DEF Surjection

\* Slices of a roster hold all of it, and no symbol twice.
Cut(f, W, k) == {f[i] : i \in {j \in 1 .. Cardinality(W) : (j - 1) \div Cap = k}}
Cuts(f, W) == {k \in 0 .. Cardinality(W) : Cut(f, W, k) # {}}

LEMMA SlicedWhole ==
    ASSUME NEW W, IsFiniteSet(W), NEW f \in [1 .. Cardinality(W) -> W], IsInjective(f)
    PROVE  /\ Cuts(f, W) \subseteq Nat
           /\ \A k \in Cuts(f, W) : Cut(f, W, k) \subseteq W
           /\ \A x \in W : \E k \in Cuts(f, W) : x \in Cut(f, W, k)
           /\ \A k, l \in Cuts(f, W) : k # l => Cut(f, W, k) \cap Cut(f, W, l) = {}
<1> DEFINE n == Cardinality(W)
<1>1. n \in Nat /\ Cap \in Nat \ {0}
    BY FS_CardinalityType, PoolAssumption
<1>2. Cuts(f, W) \subseteq Nat
    BY <1>1 DEF Cuts
<1>3. ASSUME NEW k \in Cuts(f, W) PROVE Cut(f, W, k) \subseteq W
    BY DEF Cut
<1>4. ASSUME NEW x \in W PROVE \E k \in Cuts(f, W) : x \in Cut(f, W, k)
    <2>1. PICK i \in 1 .. n : f[i] = x
        BY EnumeratedWhole
    <2>2. (i - 1) \div Cap \in 0 .. n
        BY <1>1, <2>1
    <2>3. x \in Cut(f, W, (i - 1) \div Cap)
        BY <2>1 DEF Cut
    <2> QED
        BY <2>2, <2>3 DEF Cuts
<1>5. ASSUME NEW k \in Cuts(f, W), NEW l \in Cuts(f, W), k # l PROVE Cut(f, W, k) \cap Cut(f, W, l) = {}
    BY <1>5 DEF Cut, IsInjective
<1> QED
    BY <1>2, <1>3, <1>4, <1>5

\* An instance has a Cardinality of its own, with the same definition.
LEMMA StreamCounts == \A S : Stream!Cardinality(S) = Cardinality(S)
BY Zenon DEF Stream!Cardinality, Cardinality

LEMMA TimesOver == ASSUME NEW a \in Nat, NEW c \in Nat \ {0} PROVE (a * c) \div c = a
OBVIOUS

\* The slices that are used are the first ones.
LEMMA SlicesAreFirst ==
    ASSUME NEW W, IsFiniteSet(W), NEW f \in [1 .. Cardinality(W) -> W], NEW k \in Cuts(f, W), NEW l \in 0 .. k
    PROVE  l \in Cuts(f, W)
<1> DEFINE n == Cardinality(W)
<1>1. n \in Nat /\ Cap \in Nat \ {0} /\ k \in 0 .. n
    BY FS_CardinalityType, PoolAssumption DEF Cuts
<1>2. PICK j \in 1 .. n : (j - 1) \div Cap = k
    BY DEF Cuts, Cut
<1>3. k * Cap <= j - 1
    BY <1>1, <1>2
<1>4. l * Cap <= k * Cap /\ l * Cap \in Nat
    <2>1. k - l \in Nat /\ k = l + (k - l) /\ l \in Nat
        BY <1>1
    <2>2. \A a, b, c \in Nat : (a + b) * c = a * c + b * c /\ a * c \in Nat /\ b * c \in Nat
        OBVIOUS
    <2>3. (l + (k - l)) * Cap = l * Cap + (k - l) * Cap /\ l * Cap \in Nat /\ (k - l) * Cap \in Nat
        BY <1>1, <2>1, <2>2
    <2> QED
        BY <2>1, <2>3
<1>5. (l * Cap) \div Cap = l
    <2>1. l \in Nat /\ Cap \in Nat \ {0}
        BY <1>1
    <2> QED
        BY <2>1, TimesOver, Zenon
<1>6. l * Cap + 1 \in 1 .. n
    BY <1>1, <1>2, <1>3, <1>4
<1>7. f[l * Cap + 1] \in Cut(f, W, l)
    <2> DEFINE i == l * Cap + 1
    <2>1. i - 1 = l * Cap
        BY <1>4
    <2>2. i \in 1 .. n /\ (i - 1) \div Cap = l
        BY <1>5, <1>6, <2>1
    <2> HIDE DEF i
    <2>3. f[i] \in Cut(f, W, l)
        BY <2>2 DEF Cut
    <2> QED
        BY <2>3 DEF i
<1> QED
    BY <1>1, <1>7 DEF Cuts

LEMMA NewConnsAreCounted ==
    ASSUME NEW W, IsFiniteSet(W), NEW f \in [1 .. Cardinality(W) -> W], NEW m \in Nat
    PROVE  LET ids == {m + 1 + k : k \in Cuts(f, W)}
           IN  Cardinality(ids) \in Nat /\ ids \subseteq m + 1 .. m + Cardinality(ids)
<1> DEFINE n   == Cardinality(W)
           ids == {m + 1 + k : k \in Cuts(f, W)}
<1>1. n \in Nat
    BY FS_CardinalityType
<1>2. IsFiniteSet(ids) /\ Cardinality(ids) \in Nat
    <2>1. ids \subseteq m + 1 .. m + 1 + n
        BY <1>1 DEF Cuts
    <2>2. IsFiniteSet(m + 1 .. m + 1 + n)
        BY <1>1, FS_Interval
    <2>3. IsFiniteSet(ids)
        BY <2>1, <2>2, FS_Subset
    <2> QED
        BY <2>3, FS_CardinalityType
<1>3. ASSUME NEW k \in Cuts(f, W) PROVE m + 1 + k \in m + 1 .. m + Cardinality(ids)
    <2>1. k \in Nat
        BY <1>1 DEF Cuts
    <2>2. m + 1 .. m + 1 + k \subseteq ids
        <3> SUFFICES ASSUME NEW i \in m + 1 .. m + 1 + k PROVE i \in ids
            OBVIOUS
        <3>1. i - (m + 1) \in 0 .. k /\ i = m + 1 + (i - (m + 1))
            BY <2>1
        <3>2. i - (m + 1) \in Cuts(f, W)
            BY <3>1, SlicesAreFirst
        <3> QED
            BY <3>1, <3>2
    <2>3. Cardinality(m + 1 .. m + 1 + k) = k + 1
        BY <2>1, FS_Interval
    <2>4. k + 1 <= Cardinality(ids)
        BY <1>2, <2>2, <2>3, FS_Subset
    <2> QED
        BY <1>2, <2>1, <2>4
<1> QED
    BY <1>2, <1>3

-----------------------------------------------------------------------------
\* Both streams keep their pool in v1 .. v4, and differ in the symbols, the
\* frames and the extra state of a connection.
Conn(All, Extras) ==
    [items : SUBSET All, gen : Nat, sock : Nat, opened : BOOLEAN, timer : BOOLEAN,
     connectTimer : BOOLEAN, extra : Extras]
Sock(All, Frames) == [conn : Nat, gen : Nat, items : SUBSET All, open : BOOLEAN, queue : Seq(Frames)]

PoolTyped(All, Extras, Frames) ==
    /\ v1 \in BOOLEAN /\ v3 \in Nat
    /\ DOMAIN v2 \subseteq 1 .. v3
    /\ \A i \in DOMAIN v2 : v2[i] \in Conn(All, Extras)
    /\ v4 \subseteq Sock(All, Frames)

\* A symbol has one connection, a connection one socket of its generation, open
\* when the connection knows it open; and it knows nothing before it is.
ConnsHold(fresh) ==
    /\ ~v1 => DOMAIN v2 = {}
    /\ \A i, j \in DOMAIN v2 : i # j => v2[i].items \cap v2[j].items = {}
    /\ \A i \in DOMAIN v2 : ~v2[i].opened => v2[i].extra = fresh
    /\ \A i \in DOMAIN v2 : v2[i].timer => ~v2[i].opened
SocksHold ==
    /\ \A k, l \in v4 : k.conn = l.conn /\ k.gen = l.gen => k = l
    /\ \A k \in v4 : k.conn <= v3 /\ (~k.open => k.queue = <<>>)
    /\ \A k \in v4 : k.conn \in DOMAIN v2 =>
          /\ k.gen <= v2[k.conn].gen /\ k.items = v2[k.conn].items
          /\ k.gen = v2[k.conn].gen => k.open = v2[k.conn].opened /\ ~v2[k.conn].timer

PoolInv(All, Extras, Frames, fresh) == PoolTyped(All, Extras, Frames) /\ ConnsHold(fresh) /\ SocksHold

Retired(c, g, fresh) ==
    [items |-> c.items, gen |-> g, sock |-> 0, opened |-> FALSE, timer |-> TRUE,
     connectTimer |-> FALSE, extra |-> fresh]
Connected(c, g) ==
    [items |-> c.items, gen |-> g, sock |-> g, opened |-> FALSE, timer |-> FALSE,
     connectTimer |-> TRUE, extra |-> c.extra]
Plain(i, g, items) == [conn |-> i, gen |-> g, items |-> items, open |-> FALSE, queue |-> <<>>]

Elsewhere(i) == DOMAIN v2' = DOMAIN v2 /\ \A j \in DOMAIN v2 \ {i} : v2'[j] = v2[j]

\* What the pool does to a connection: the socket opens; it is retired; its retry
\* fires.  `gone` are sockets that have ended.
OpensOne ==
    \E k \in v4 :
        /\ ~k.open /\ k.conn \in DOMAIN v2 /\ v2[k.conn].gen = k.gen
        /\ Elsewhere(k.conn) /\ v2'[k.conn] = [v2[k.conn] EXCEPT !.opened = TRUE, !.connectTimer = FALSE]
        /\ v4' = (v4 \ {k}) \cup {[k EXCEPT !.open = TRUE]}
DropsSome == v2' = v2 /\ \E gone \in SUBSET v4 : v4' = v4 \ gone
RetiresOne(fresh) ==
    \E i \in DOMAIN v2, gone \in SUBSET v4 :
        /\ Elsewhere(i) /\ v2'[i] = Retired(v2[i], v2[i].gen + 1, fresh)
        /\ v4' = v4 \ gone
RetriesOne(fresh) ==
    \E i \in DOMAIN v2 :
        /\ v2[i].timer /\ Elsewhere(i)
        /\ \/ v2'[i] = Retired(v2[i], v2[i].gen + 2, fresh) /\ v4' = v4
           \/ /\ v2'[i] = Connected(v2[i], v2[i].gen + 1)
              /\ v4' = v4 \cup {Plain(i, v2[i].gen + 1, v2[i].items)}

PoolMoves(fresh) ==
    /\ v1' = v1 /\ v3' = v3
    /\ OpensOne \/ DropsSome \/ RetiresOne(fresh) \/ RetriesOne(fresh)

LEMMA PoolMovesKept ==
    ASSUME NEW All, NEW Extras, NEW Frames, NEW fresh \in Extras,
           PoolInv(All, Extras, Frames, fresh), PoolMoves(fresh)
    PROVE  PoolInv(All, Extras, Frames, fresh)'
<1> USE DEF PoolMoves, PoolInv
<1>1. CASE OpensOne
    <2>1. PICK k \in v4 : /\ ~k.open /\ k.conn \in DOMAIN v2 /\ v2[k.conn].gen = k.gen
                          /\ Elsewhere(k.conn) /\ v2'[k.conn] = [v2[k.conn] EXCEPT !.opened = TRUE, !.connectTimer = FALSE]
                          /\ v4' = (v4 \ {k}) \cup {[k EXCEPT !.open = TRUE]}
        BY <1>1 DEF OpensOne
    <2> DEFINE i == k.conn
               o == [k EXCEPT !.open = TRUE]
    <2>2. /\ v2[i] \in Conn(All, Extras) /\ k \in Sock(All, Frames)
          /\ DOMAIN v2' = DOMAIN v2 /\ \A j \in DOMAIN v2 : j # i => v2'[j] = v2[j]
        BY <2>1 DEF PoolTyped, Elsewhere
    <2>3. /\ v2'[i] \in Conn(All, Extras) /\ v2'[i].items = v2[i].items /\ v2'[i].gen = v2[i].gen
          /\ v2'[i].opened = TRUE /\ v2'[i].timer = v2[i].timer
        BY <2>1, <2>2 DEF Conn
    <2>4. o \in Sock(All, Frames) /\ o.conn = k.conn /\ o.gen = k.gen /\ o.items = k.items /\ o.open = TRUE
        BY <2>2 DEF Sock
    <2>5. v4' = (v4 \ {k}) \cup {o}
        BY <2>1
    <2> HIDE DEF o
    <2>6. PoolTyped(All, Extras, Frames)'
        BY <2>2, <2>3, <2>4, <2>5 DEF PoolTyped
    <2>7. ConnsHold(fresh)'
        <3>1. ~v2[i].timer
            BY <2>1 DEF SocksHold
        <3> QED
            BY <2>1, <2>2, <2>3, <3>1 DEF ConnsHold
    <2>8. SocksHold'
        <3>0. k.gen = v2[i].gen /\ k.gen <= v2[i].gen /\ k.items = v2[i].items /\ ~v2[i].timer
            BY <2>1 DEF SocksHold
        <3>1. \A l \in v4' : \E m \in v4 : m.conn = l.conn /\ m.gen = l.gen /\ m.items = l.items /\ (l = m \/ (m = k /\ l = o))
            BY <2>4, <2>5
        <3>2. \A l, m \in v4' : l.conn = m.conn /\ l.gen = m.gen => l = m
            BY <2>1, <2>4, <2>5, <3>1 DEF SocksHold
        <3>3. \A l \in v4' : l.conn <= v3' /\ (~l.open => l.queue = <<>>)
            BY <2>4, <2>5 DEF SocksHold
        <3>4. ASSUME NEW l \in v4', l.conn \in DOMAIN v2'
              PROVE  /\ l.gen <= v2'[l.conn].gen /\ l.items = v2'[l.conn].items
                     /\ l.gen = v2'[l.conn].gen => l.open = v2'[l.conn].opened /\ ~v2'[l.conn].timer
            <4>1. CASE l = o
                <5>1. l.conn = i /\ l.gen = k.gen /\ l.items = k.items /\ l.open = TRUE
                    BY <2>4, <4>1
                <5> QED
                    BY <2>3, <3>0, <5>1
            <4>2. CASE l # o
                <5>1. l \in v4 /\ l # k
                    BY <2>5, <4>2
                <5>2. l.conn = i => l.gen # v2[i].gen
                    BY <2>1, <5>1 DEF SocksHold
                <5> QED
                    BY <2>2, <2>3, <3>4, <5>1, <5>2 DEF SocksHold
            <4> QED
                BY <4>1, <4>2
        <3> QED
            BY <3>2, <3>3, <3>4 DEF SocksHold
    <2> QED
        BY <2>6, <2>7, <2>8
<1>2. CASE DropsSome
    <2>1. v2' = v2 /\ v4' \subseteq v4 /\ v1' = v1 /\ v3' = v3
        BY <1>2 DEF DropsSome
    <2>2. PoolTyped(All, Extras, Frames)'
        BY <2>1 DEF PoolTyped
    <2>3. ConnsHold(fresh)'
        BY <2>1 DEF ConnsHold
    <2>4. SocksHold'
        BY <2>1 DEF SocksHold
    <2> QED
        BY <2>2, <2>3, <2>4
<1>3. ASSUME NEW i \in DOMAIN v2, NEW g \in Nat, g > v2[i].gen, NEW gone \in SUBSET v4,
             Elsewhere(i), v2'[i] = Retired(v2[i], g, fresh), v4' = v4 \ gone
      PROVE  PoolInv(All, Extras, Frames, fresh)'
    <2>1. v2[i] \in Conn(All, Extras) /\ v4 \subseteq Sock(All, Frames)
        BY DEF PoolTyped
    <2>2. /\ v2'[i] \in Conn(All, Extras) /\ v2'[i].items = v2[i].items /\ v2'[i].gen = g /\ v2[i].gen \in Nat
          /\ v2'[i].opened = FALSE /\ v2'[i].timer = TRUE /\ v2'[i].extra = fresh
        BY <1>3, <2>1 DEF Conn, Retired
    <2>3. DOMAIN v2' = DOMAIN v2 /\ \A j \in DOMAIN v2 : j # i => v2'[j] = v2[j]
        BY <1>3 DEF Elsewhere
    <2>4. PoolTyped(All, Extras, Frames)'
        BY <1>3, <2>2, <2>3 DEF PoolTyped
    <2>5. ConnsHold(fresh)'
        BY <2>2, <2>3 DEF ConnsHold
    <2>6. SocksHold'
        <3>1. \A k \in v4 : k.gen \in Nat
            BY <2>1 DEF Sock
        <3>2. ASSUME NEW k \in v4, k.conn = i PROVE k.gen < g
            BY <1>3, <2>2, <3>1, <3>2 DEF SocksHold
        <3>3. \A k \in v4' : k \in v4
            BY <1>3
        <3>4. ASSUME NEW k \in v4', k.conn \in DOMAIN v2'
              PROVE  /\ k.gen <= v2'[k.conn].gen /\ k.items = v2'[k.conn].items
                     /\ k.gen = v2'[k.conn].gen => k.open = v2'[k.conn].opened /\ ~v2'[k.conn].timer
            BY <1>3, <2>2, <2>3, <3>1, <3>2, <3>3, <3>4 DEF SocksHold
        <3> QED
            BY <3>3, <3>4 DEF SocksHold
    <2> QED
        BY <2>4, <2>5, <2>6
<1>4. CASE RetiresOne(fresh)
    <2>1. PICK i \in DOMAIN v2, gone \in SUBSET v4 :
             /\ Elsewhere(i) /\ v2'[i] = Retired(v2[i], v2[i].gen + 1, fresh) /\ v4' = v4 \ gone
        BY <1>4 DEF RetiresOne
    <2>2. v2[i].gen \in Nat
        BY DEF PoolTyped, Conn
    <2> QED
        BY <1>3, <2>1, <2>2
<1>5. ASSUME NEW i \in DOMAIN v2, v2[i].timer, Elsewhere(i), v2'[i] = Connected(v2[i], v2[i].gen + 1),
             v4' = v4 \cup {Plain(i, v2[i].gen + 1, v2[i].items)}
      PROVE  PoolInv(All, Extras, Frames, fresh)'
    <2> DEFINE p == Plain(i, v2[i].gen + 1, v2[i].items)
    <2>1. v2[i] \in Conn(All, Extras) /\ v4 \subseteq Sock(All, Frames)
        BY DEF PoolTyped
    <2>2. /\ v2'[i] \in Conn(All, Extras) /\ v2'[i].items = v2[i].items /\ v2'[i].gen = v2[i].gen + 1
          /\ v2[i].gen \in Nat /\ v2'[i].opened = FALSE /\ v2'[i].timer = FALSE /\ v2'[i].extra = v2[i].extra
        BY <1>5, <2>1 DEF Conn, Connected
    <2>3. DOMAIN v2' = DOMAIN v2 /\ \A j \in DOMAIN v2 : j # i => v2'[j] = v2[j]
        BY <1>5 DEF Elsewhere
    <2>4. i \in Nat /\ i <= v3 /\ i \in 1 .. v3
        BY DEF PoolTyped
    <2>5. /\ p \in Sock(All, Frames) /\ p.conn = i /\ p.gen = v2[i].gen + 1 /\ p.items = v2[i].items
          /\ p.open = FALSE /\ p.queue = <<>>
        BY <2>1, <2>2, <2>4 DEF Plain, Sock, Conn
    <2>6. v4' = v4 \cup {p}
        BY <1>5
    <2> HIDE DEF p
    <2>7. PoolTyped(All, Extras, Frames)'
        BY <2>2, <2>3, <2>5, <2>6 DEF PoolTyped
    <2>8. ConnsHold(fresh)'
        BY <1>5, <2>2, <2>3 DEF ConnsHold
    <2>9. SocksHold'
        <3>1. \A k \in v4 : k.gen \in Nat
            BY <2>1 DEF Sock
        <3>2. ASSUME NEW k \in v4, k.conn = i PROVE k.gen < v2[i].gen + 1
            BY <2>2, <3>1, <3>2 DEF SocksHold
        <3>3. \A k, l \in v4' : k.conn = l.conn /\ k.gen = l.gen => k = l
            BY <2>2, <2>5, <2>6, <3>1, <3>2 DEF SocksHold
        <3>4. \A k \in v4' : k.conn <= v3' /\ (~k.open => k.queue = <<>>)
            BY <2>4, <2>5, <2>6 DEF SocksHold
        <3>5. ASSUME NEW k \in v4', k.conn \in DOMAIN v2'
              PROVE  /\ k.gen <= v2'[k.conn].gen /\ k.items = v2'[k.conn].items
                     /\ k.gen = v2'[k.conn].gen => k.open = v2'[k.conn].opened /\ ~v2'[k.conn].timer
            <4>1. CASE k = p
                <5>1. k.conn = i /\ k.gen = v2'[i].gen /\ k.gen \in Nat /\ k.items = v2'[i].items
                    BY <2>2, <2>5, <4>1
                <5>2. k.open = v2'[i].opened /\ ~v2'[i].timer
                    BY <2>2, <2>5, <4>1, Zenon
                <5> QED
                    BY <5>1, <5>2
            <4>2. CASE k # p
                <5>1. k \in v4
                    BY <2>6, <4>2
                <5>2. CASE k.conn = i
                    BY <2>2, <3>1, <3>2, <5>1, <5>2 DEF SocksHold
                <5>3. CASE k.conn # i
                    BY <2>3, <3>5, <5>1, <5>3 DEF SocksHold
                <5> QED
                    BY <5>2, <5>3
            <4> QED
                BY <4>1, <4>2
        <3> QED
            BY <3>3, <3>4, <3>5 DEF SocksHold
    <2> QED
        BY <2>7, <2>8, <2>9
<1>6. CASE RetriesOne(fresh)
    <2>1. PICK i \in DOMAIN v2 :
        /\ v2[i].timer /\ Elsewhere(i)
        /\ \/ v2'[i] = Retired(v2[i], v2[i].gen + 2, fresh) /\ v4' = v4
           \/ /\ v2'[i] = Connected(v2[i], v2[i].gen + 1)
              /\ v4' = v4 \cup {Plain(i, v2[i].gen + 1, v2[i].items)}
        BY <1>6 DEF RetriesOne
    <2>2. v2[i].gen \in Nat /\ v4 = v4 \ {} /\ {} \in SUBSET v4
        BY DEF PoolTyped, Conn
    <2>3. CASE v2'[i] = Retired(v2[i], v2[i].gen + 2, fresh) /\ v4' = v4
        <3>1. v2[i].gen + 2 \in Nat /\ v2[i].gen + 2 > v2[i].gen /\ v4' = v4 \ {}
            BY <2>2, <2>3
        <3> QED
            BY <1>3, <2>1, <2>2, <2>3, <3>1
    <2> QED
        BY <1>5, <2>1, <2>3
<1> QED
    BY <1>1, <1>2, <1>4, <1>6

\* A new roster: every connection is replaced, a slice each, numbered on from
\* those ever made; where the factory throws a retry is armed at once.
NewId(k) == v3 + 1 + k
NewIds(want, f) == {NewId(k) : k \in Cuts(f, want)}
Replaces(want, f, fresh) ==
    /\ v3' = v3 + Cardinality(NewIds(want, f))
    /\ DOMAIN v2' = NewIds(want, f)
    /\ \E refused \in SUBSET NewIds(want, f) :
          /\ \A k \in Cuts(f, want) :
                LET c == [items |-> Cut(f, want, k), extra |-> fresh]
                IN  v2'[NewId(k)] = IF NewId(k) \in refused THEN Retired(c, 2, fresh) ELSE Connected(c, 1)
          /\ v4' = v4 \cup {Plain(i, 1, v2'[i].items) : i \in NewIds(want, f) \ refused}

LEMMA PoolReplacedKept ==
    ASSUME NEW All, NEW Extras, NEW Frames, NEW fresh \in Extras,
           PoolTyped(All, Extras, Frames), SocksHold, v1' = TRUE,
           NEW want \in SUBSET All, IsFiniteSet(want),
           NEW f \in [1 .. Cardinality(want) -> want], IsInjective(f), Replaces(want, f, fresh)
    PROVE  /\ PoolInv(All, Extras, Frames, fresh)'
           /\ \A x : x \in want <=> \E i \in DOMAIN v2' : x \in v2'[i].items
<1> DEFINE ids == NewIds(want, f)
<1>1. PICK refused \in SUBSET ids :
          /\ \A k \in Cuts(f, want) :
                LET c == [items |-> Cut(f, want, k), extra |-> fresh]
                IN  v2'[NewId(k)] = IF NewId(k) \in refused THEN Retired(c, 2, fresh) ELSE Connected(c, 1)
          /\ v4' = v4 \cup {Plain(i, 1, v2'[i].items) : i \in ids \ refused}
    BY DEF Replaces
<1>2. v3 \in Nat /\ v4 \subseteq Sock(All, Frames)
    BY DEF PoolTyped
<1>3. /\ Cardinality(ids) \in Nat /\ ids \subseteq v3 + 1 .. v3 + Cardinality(ids)
    BY <1>2, NewConnsAreCounted DEF NewIds, NewId
<1>4. v3' \in Nat /\ v3' >= v3 /\ DOMAIN v2' = ids /\ ids \subseteq 1 .. v3' /\ \A i \in ids : i \in Nat /\ v3 < i /\ i <= v3'
    BY <1>2, <1>3 DEF Replaces
<1>5. ASSUME NEW k \in Cuts(f, want)
      PROVE  /\ v2'[NewId(k)] \in Conn(All, Extras) /\ v2'[NewId(k)].items = Cut(f, want, k)
             /\ v2'[NewId(k)].opened = FALSE /\ v2'[NewId(k)].extra = fresh
             /\ NewId(k) \notin refused => v2'[NewId(k)].gen = 1 /\ v2'[NewId(k)].timer = FALSE
    <2> DEFINE c == [items |-> Cut(f, want, k), extra |-> fresh]
    <2>1. Cut(f, want, k) \in SUBSET All
        BY SlicedWhole
    <2>2. v2'[NewId(k)] = IF NewId(k) \in refused THEN Retired(c, 2, fresh) ELSE Connected(c, 1)
        BY <1>1
    <2>3. CASE NewId(k) \in refused
        BY <2>1, <2>2, <2>3 DEF Retired, Conn
    <2>4. CASE NewId(k) \notin refused
        BY <2>1, <2>2, <2>4 DEF Connected, Conn
    <2> QED
        BY <2>3, <2>4
<1>6. \A i \in ids : \E k \in Cuts(f, want) : i = NewId(k)
    BY DEF NewIds
<1>7. \A i \in ids : v2'[i] \in Conn(All, Extras) /\ v2'[i].opened = FALSE /\ v2'[i].extra = fresh
    BY <1>5, <1>6
<1>8. ASSUME NEW i \in ids \ refused, NEW p, p = Plain(i, 1, v2'[i].items)
      PROVE  /\ p \in Sock(All, Frames) /\ p.conn = i /\ p.gen = 1 /\ p.items = v2'[i].items
             /\ p.open = FALSE /\ p.queue = <<>> /\ v2'[i].gen = 1 /\ v2'[i].timer = FALSE
    <2>1. v2'[i].items \in SUBSET All /\ i \in Nat
        BY <1>4, <1>7 DEF Conn
    <2>2. v2'[i].gen = 1 /\ v2'[i].timer = FALSE
        BY <1>5, <1>6
    <2> QED
        BY <1>8, <2>1, <2>2 DEF Plain, Sock
<1>9. \A k \in v4' : k \in v4 \/ \E i \in ids \ refused : k = Plain(i, 1, v2'[i].items)
    BY <1>1
<1>10. PoolTyped(All, Extras, Frames)'
    <2>1. v4' \subseteq Sock(All, Frames)
        BY <1>2, <1>8, <1>9
    <2> QED
        BY <1>4, <1>7, <2>1 DEF PoolTyped
<1>11. ConnsHold(fresh)'
    <2>1. ASSUME NEW i \in ids, NEW j \in ids, i # j PROVE v2'[i].items \cap v2'[j].items = {}
        <3>1. PICK k \in Cuts(f, want), l \in Cuts(f, want) : i = NewId(k) /\ j = NewId(l)
            BY <1>6
        <3>2. k # l
            BY <2>1, <3>1
        <3>3. Cut(f, want, k) \cap Cut(f, want, l) = {}
            BY <3>2, SlicedWhole
        <3> QED
            BY <1>5, <3>1, <3>3
    <2> QED
        BY <1>4, <1>7, <2>1 DEF ConnsHold
<1>12. SocksHold'
    <2>1. \A k \in v4 : k.conn \in Nat /\ k.conn <= v3 /\ k.conn <= v3' /\ k.conn \notin ids /\ (~k.open => k.queue = <<>>)
        BY <1>2, <1>4 DEF SocksHold, Sock
    <2>2. ASSUME NEW k \in v4', NEW l \in v4', k.conn = l.conn, k.gen = l.gen PROVE k = l
        <3>1. CASE k \in v4 /\ l \in v4
            BY <2>2, <3>1 DEF SocksHold
        <3>2. CASE k \notin v4 /\ l \notin v4
            <4>1. PICK i \in ids \ refused : k = Plain(i, 1, v2'[i].items)
                BY <1>9, <3>2
            <4>2. PICK j \in ids \ refused : l = Plain(j, 1, v2'[j].items)
                BY <1>9, <3>2
            <4>3. k.conn = i /\ l.conn = j
                BY <4>1, <4>2 DEF Plain
            <4> QED
                BY <2>2, <4>1, <4>2, <4>3
        <3>3. CASE k \in v4 /\ l \notin v4
            <4>1. PICK j \in ids \ refused : l = Plain(j, 1, v2'[j].items)
                BY <1>9, <3>3
            <4>2. l.conn = j
                BY <4>1 DEF Plain
            <4> QED
                BY <2>1, <2>2, <3>3, <4>2
        <3>4. CASE k \notin v4 /\ l \in v4
            <4>1. PICK i \in ids \ refused : k = Plain(i, 1, v2'[i].items)
                BY <1>9, <3>4
            <4>2. k.conn = i
                BY <4>1 DEF Plain
            <4> QED
                BY <2>1, <2>2, <3>4, <4>2
        <3> QED
            BY <3>1, <3>2, <3>3, <3>4
    <2>3. ASSUME NEW k \in v4' PROVE k.conn <= v3' /\ (~k.open => k.queue = <<>>)
        <3>1. CASE k \in v4
            BY <2>1, <3>1
        <3>2. CASE k \notin v4
            <4>1. PICK i \in ids \ refused : k = Plain(i, 1, v2'[i].items)
                BY <1>9, <3>2
            <4>2. k.conn = i /\ k.queue = <<>>
                BY <1>8, <4>1
            <4> QED
                BY <1>4, <4>2
        <3> QED
            BY <3>1, <3>2
    <2>4. ASSUME NEW k \in v4', k.conn \in DOMAIN v2'
          PROVE  /\ k.gen <= v2'[k.conn].gen /\ k.items = v2'[k.conn].items
                 /\ k.gen = v2'[k.conn].gen => k.open = v2'[k.conn].opened /\ ~v2'[k.conn].timer
        <3>1. k \notin v4
            BY <1>4, <2>1, <2>4
        <3>2. PICK i \in ids \ refused : k = Plain(i, 1, v2'[i].items)
            BY <1>9, <3>1
        <3>3. k.conn = i /\ k.gen = 1 /\ v2'[i].gen = 1 /\ k.items = v2'[i].items
            BY <1>8, <3>2
        <3>4. k.open = v2'[i].opened /\ ~v2'[i].timer
            BY <1>7, <1>8, <3>2, Zenon
        <3> QED
            BY <3>3, <3>4
    <2> QED
        BY <2>2, <2>3, <2>4 DEF SocksHold
<1>13. ASSUME NEW x PROVE x \in want <=> \E i \in DOMAIN v2' : x \in v2'[i].items
    <2>1. ASSUME x \in want PROVE \E i \in DOMAIN v2' : x \in v2'[i].items
        <3>1. PICK k \in Cuts(f, want) : x \in Cut(f, want, k)
            BY <2>1, SlicedWhole
        <3>2. NewId(k) \in DOMAIN v2'
            BY <1>4 DEF NewIds
        <3>3. x \in v2'[NewId(k)].items
            BY <1>5, <3>1
        <3> QED
            BY <3>2, <3>3
    <2>2. ASSUME NEW i \in DOMAIN v2', x \in v2'[i].items PROVE x \in want
        <3>1. PICK k \in Cuts(f, want) : i = NewId(k)
            BY <1>4, <1>6
        <3>2. v2'[i].items = Cut(f, want, k)
            BY <1>5, <3>1
        <3>3. Cut(f, want, k) \subseteq want
            BY SlicedWhole
        <3> QED
            BY <2>2, <3>2, <3>3
    <2> QED
        BY <2>1, <2>2
<1> QED
    BY <1>10, <1>11, <1>12, <1>13 DEF PoolInv

\* Frames are queued and delivered, and a connection that is open remembers
\* something: nothing else of the pool changes.
LEMMA PoolHeardKept ==
    ASSUME NEW All, NEW Extras, NEW Frames, NEW fresh \in Extras,
           PoolInv(All, Extras, Frames, fresh), v1' = v1, v3' = v3,
           DOMAIN v2' = DOMAIN v2,
           \A i \in DOMAIN v2 : \/ v2'[i] = v2[i]
                                \/ v2[i].opened /\ \E e \in Extras : v2'[i] = [v2[i] EXCEPT !.extra = e],
           NEW q \in [v4 -> Seq(Frames)], \A k \in v4 : ~k.open => q[k] = <<>>,
           v4' = {[k EXCEPT !.queue = q[k]] : k \in v4}
    PROVE  PoolInv(All, Extras, Frames, fresh)'
<1> USE DEF PoolInv
<1>1. ASSUME NEW i \in DOMAIN v2
      PROVE  /\ v2'[i] \in Conn(All, Extras) /\ v2'[i].items = v2[i].items /\ v2'[i].gen = v2[i].gen
             /\ v2'[i].opened = v2[i].opened /\ v2'[i].timer = v2[i].timer
             /\ ~v2[i].opened => v2'[i].extra = v2[i].extra
    <2>1. v2[i] \in Conn(All, Extras)
        BY DEF PoolTyped
    <2> QED
        BY <2>1 DEF Conn
<1>2. ASSUME NEW l \in v4'
      PROVE  \E k \in v4 : /\ l = [k EXCEPT !.queue = q[k]] /\ l \in Sock(All, Frames)
                           /\ l.conn = k.conn /\ l.gen = k.gen /\ l.items = k.items /\ l.open = k.open
                           /\ l.queue = q[k]
    <2>1. PICK k \in v4 : l = [k EXCEPT !.queue = q[k]]
        OBVIOUS
    <2>2. k \in Sock(All, Frames) /\ q[k] \in Seq(Frames)
        BY DEF PoolTyped
    <2> QED
        BY <2>1, <2>2 DEF Sock
<1>3. PoolTyped(All, Extras, Frames)'
    BY <1>1, <1>2 DEF PoolTyped
<1>4. ConnsHold(fresh)'
    BY <1>1 DEF ConnsHold
<1>5. SocksHold'
    <2>1. ASSUME NEW l \in v4', NEW m \in v4', l.conn = m.conn, l.gen = m.gen PROVE l = m
        <3>1. PICK k \in v4 : l = [k EXCEPT !.queue = q[k]] /\ l.conn = k.conn /\ l.gen = k.gen
            BY <1>2
        <3>2. PICK j \in v4 : m = [j EXCEPT !.queue = q[j]] /\ m.conn = j.conn /\ m.gen = j.gen
            BY <1>2
        <3>3. k = j
            BY <2>1, <3>1, <3>2 DEF SocksHold
        <3> QED
            BY <3>1, <3>2, <3>3
    <2>2. ASSUME NEW l \in v4' PROVE l.conn <= v3' /\ (~l.open => l.queue = <<>>)
        BY <1>2 DEF SocksHold
    <2>3. ASSUME NEW l \in v4', l.conn \in DOMAIN v2'
          PROVE  /\ l.gen <= v2'[l.conn].gen /\ l.items = v2'[l.conn].items
                 /\ l.gen = v2'[l.conn].gen => l.open = v2'[l.conn].opened /\ ~v2'[l.conn].timer
        <3>1. PICK k \in v4 : l.conn = k.conn /\ l.gen = k.gen /\ l.items = k.items /\ l.open = k.open
            BY <1>2
        <3>2. k.conn \in DOMAIN v2
            BY <2>3, <3>1
        <3>3. /\ k.gen <= v2[k.conn].gen /\ k.items = v2[k.conn].items
              /\ k.gen = v2[k.conn].gen => k.open = v2[k.conn].opened /\ ~v2[k.conn].timer
            BY <3>2 DEF SocksHold
        <3> QED
            BY <1>1, <3>1, <3>2, <3>3
    <2> QED
        BY <2>1, <2>2, <2>3 DEF SocksHold
<1> QED
    BY <1>3, <1>4, <1>5

\* A frame leaves the queue of one socket.
LEMMA OneQueueChanges ==
    ASSUME NEW All, NEW Frames, v4 \subseteq Sock(All, Frames), NEW s \in v4, NEW r \in Seq(Frames),
           v4' = (v4 \ {s}) \cup {[s EXCEPT !.queue = r]}
    PROVE  LET q == [k \in v4 |-> IF k = s THEN r ELSE k.queue]
           IN  q \in [v4 -> Seq(Frames)] /\ v4' = {[k EXCEPT !.queue = q[k]] : k \in v4}
<1> DEFINE q == [k \in v4 |-> IF k = s THEN r ELSE k.queue]
<1>1. \A k \in v4 : k.queue \in Seq(Frames) /\ [k EXCEPT !.queue = k.queue] = k
    BY DEF Sock
<1>2. q \in [v4 -> Seq(Frames)]
    BY <1>1
<1>3. \A k \in v4 : [k EXCEPT !.queue = q[k]] = IF k = s THEN [s EXCEPT !.queue = r] ELSE k
    BY <1>1
<1> HIDE DEF q
<1>4. ASSUME NEW l \in v4' PROVE \E k \in v4 : l = [k EXCEPT !.queue = q[k]]
    <2>1. CASE l \in v4 \ {s}
        BY <1>3, <2>1
    <2>2. CASE l \notin v4 \ {s}
        BY <1>3, <2>2
    <2> QED
        BY <2>1, <2>2
<1>5. ASSUME NEW k \in v4 PROVE [k EXCEPT !.queue = q[k]] \in v4'
    <2>1. CASE k = s
        BY <1>3, <2>1
    <2>2. CASE k # s
        BY <1>3, <2>2
    <2> QED
        BY <2>1, <2>2
<1>6. v4' = {[k EXCEPT !.queue = q[k]] : k \in v4}
    BY <1>4, <1>5
<1> QED
    BY <1>2, <1>6 DEF q

\* A socket whose frames are heeded.
Hears(k) == k.open /\ k.conn \in DOMAIN v2 /\ v2[k.conn].gen = k.gen

\* What the pool does leaves it what it has heard, or it has heard nothing yet.
LEMMA HearsKept ==
    ASSUME NEW All, NEW Extras, NEW Frames, NEW fresh \in Extras,
           PoolInv(All, Extras, Frames, fresh), PoolMoves(fresh), NEW k \in v4', Hears(k)'
    PROVE  \/ k \in v4 /\ Hears(k) /\ v2'[k.conn].extra = v2[k.conn].extra
           \/ k.queue = <<>> /\ v2'[k.conn].extra = fresh
<1> USE DEF PoolInv, PoolMoves, Hears
<1>1. CASE OpensOne
    <2>1. PICK l \in v4 : /\ ~l.open /\ l.conn \in DOMAIN v2 /\ v2[l.conn].gen = l.gen
                          /\ Elsewhere(l.conn) /\ v2'[l.conn] = [v2[l.conn] EXCEPT !.opened = TRUE, !.connectTimer = FALSE]
                          /\ v4' = (v4 \ {l}) \cup {[l EXCEPT !.open = TRUE]}
        BY <1>1 DEF OpensOne
    <2>2. v2[l.conn] \in Conn(All, Extras) /\ l \in Sock(All, Frames)
        BY <2>1 DEF PoolTyped
    <2>3. v2'[l.conn].extra = v2[l.conn].extra /\ v2'[l.conn].gen = l.gen
        BY <2>1, <2>2 DEF Conn
    <2>4. CASE k = [l EXCEPT !.open = TRUE]
        <3>1. k.queue = l.queue /\ k.conn = l.conn
            BY <2>2, <2>4 DEF Sock
        <3>2. l.queue = <<>> /\ ~v2[l.conn].opened
            BY <2>1 DEF SocksHold
        <3>3. v2[l.conn].extra = fresh
            BY <2>1, <3>2 DEF ConnsHold
        <3> QED
            BY <2>3, <3>1, <3>2, <3>3
    <2>5. CASE k # [l EXCEPT !.open = TRUE]
        <3>1. k \in v4 /\ k # l
            BY <2>1, <2>5
        <3>2. CASE k.conn = l.conn
            BY <2>1, <2>3, <3>1, <3>2 DEF SocksHold
        <3>3. CASE k.conn # l.conn
            BY <2>1, <3>1, <3>3 DEF Elsewhere
        <3> QED
            BY <3>2, <3>3
    <2> QED
        BY <2>4, <2>5
<1>2. CASE DropsSome
    BY <1>2 DEF DropsSome
<1>3. ASSUME NEW i \in DOMAIN v2, k \in v4, Elsewhere(i), v2'[i].gen # k.gen
      PROVE  k \in v4 /\ Hears(k) /\ v2'[k.conn].extra = v2[k.conn].extra
    <2>1. k.conn # i /\ k.conn \in DOMAIN v2
        BY <1>3 DEF Elsewhere
    <2> QED
        BY <1>3, <2>1 DEF Elsewhere
<1>4. \A i \in DOMAIN v2 : v2[i].gen \in Nat
    BY DEF PoolTyped, Conn
<1>5. \A l \in v4 : l.gen \in Nat
    BY DEF PoolTyped, Sock
<1>6. ASSUME NEW i \in DOMAIN v2, k \in v4, Elsewhere(i), v2'[i].gen \in Nat, v2'[i].gen > v2[i].gen
      PROVE  k \in v4 /\ Hears(k) /\ v2'[k.conn].extra = v2[k.conn].extra
    <2>1. CASE k.conn = i
        <3>1. k.gen <= v2[i].gen
            BY <1>6, <2>1 DEF SocksHold
        <3> QED
            BY <1>3, <1>4, <1>5, <1>6, <3>1
    <2>2. CASE k.conn # i
        BY <1>6, <2>2 DEF Elsewhere
    <2> QED
        BY <2>1, <2>2
<1>7. CASE RetiresOne(fresh)
    <2>1. PICK i \in DOMAIN v2, gone \in SUBSET v4 :
             /\ Elsewhere(i) /\ v2'[i] = Retired(v2[i], v2[i].gen + 1, fresh) /\ v4' = v4 \ gone
        BY <1>7 DEF RetiresOne
    <2>2. v2'[i].gen = v2[i].gen + 1 /\ k \in v4
        BY <2>1 DEF Retired
    <2> QED
        BY <1>4, <1>6, <2>1, <2>2
<1>8. CASE RetriesOne(fresh)
    <2>1. PICK i \in DOMAIN v2 :
        /\ v2[i].timer /\ Elsewhere(i)
        /\ \/ v2'[i] = Retired(v2[i], v2[i].gen + 2, fresh) /\ v4' = v4
           \/ /\ v2'[i] = Connected(v2[i], v2[i].gen + 1)
              /\ v4' = v4 \cup {Plain(i, v2[i].gen + 1, v2[i].items)}
        BY <1>8 DEF RetriesOne
    <2>2. v2'[i].gen \in Nat /\ v2'[i].gen > v2[i].gen
        BY <1>4, <2>1 DEF Retired, Connected
    <2>3. k \in v4
        BY <2>1 DEF Plain
    <2> QED
        BY <1>6, <2>1, <2>2, <2>3
<1> QED
    BY <1>1, <1>2, <1>7, <1>8

\* After a new roster nobody has heard anything.
LEMMA NobodyHears ==
    ASSUME NEW All, NEW Extras, NEW Frames, PoolTyped(All, Extras, Frames), SocksHold,
           NEW want, IsFiniteSet(want), NEW f \in [1 .. Cardinality(want) -> want],
           NEW fresh, Replaces(want, f, fresh), NEW k \in v4'
    PROVE  ~Hears(k)'
<1>1. k \in v4 => k.conn \in Nat /\ k.conn <= v3
    BY DEF PoolTyped, Sock, SocksHold
<1>2. \A i \in DOMAIN v2' : i \in Nat /\ i > v3
    <2>1. v3 \in Nat
        BY DEF PoolTyped
    <2>2. NewIds(want, f) \subseteq v3 + 1 .. v3 + Cardinality(NewIds(want, f)) /\ Cardinality(NewIds(want, f)) \in Nat
        BY <2>1, NewConnsAreCounted DEF NewIds, NewId
    <2> QED
        BY <2>1, <2>2 DEF Replaces
<1>3. k \notin v4 => ~k.open
    BY DEF Replaces, Plain
<1>4. v3 \in Nat
    BY DEF PoolTyped
<1> QED
    BY <1>1, <1>2, <1>3, <1>4 DEF Hears

\* A connection is known by its fields.
LEMMA ConnIs ==
    ASSUME NEW g, NEW s, NEW o, NEW t, NEW u, NEW e, NEW i,
           NEW n \in [items : {i}, gen : {g}, sock : {s}, opened : {o}, timer : {t},
                      connectTimer : {u}, extra : {e}]
    PROVE  n = [items |-> i, gen |-> g, sock |-> s, opened |-> o, timer |-> t,
                connectTimer |-> u, extra |-> e]
<1>1. n = [items |-> n.items, gen |-> n.gen, sock |-> n.sock, opened |-> n.opened,
           timer |-> n.timer, connectTimer |-> n.connectTimer, extra |-> n.extra]
    OBVIOUS
<1>2. /\ n.items = i /\ n.gen = g /\ n.sock = s /\ n.opened = o /\ n.timer = t
      /\ n.connectTimer = u /\ n.extra = e
    OBVIOUS
<1> QED
    BY <1>1, <1>2

-----------------------------------------------------------------------------
Bars == [open : Nat, rev : Nat, closed : BOOLEAN]
Ticks == [symbol : BarPairs, open : Nat, rev : Nat, closed : BOOLEAN]
StreamPool == PoolInv(BarPairs, [BarPairs -> Bars], Ticks, NoBars)

LEMMA StreamRetires ==
    ASSUME NEW All, NEW E, NEW c \in Conn(All, E), NEW g \in Nat
    PROVE  Stream!Reopened(c, g) = Retired(c, g + 1, NoBars)
<1> DEFINE n == Stream!Reopened(c, g)
<1>1. n \in [items : {c.items}, gen : {g + 1}, sock : {0}, opened : {FALSE}, timer : {TRUE},
           connectTimer : {FALSE}, extra : {NoBars}]
    BY DEF Stream!Reopened, Stream!NoSock, Conn
<1> HIDE DEF n
<1>2. n = [items |-> c.items, gen |-> g + 1, sock |-> 0, opened |-> FALSE, timer |-> TRUE,
           connectTimer |-> FALSE, extra |-> NoBars]
    BY <1>1, ConnIs, Zenon
<1> QED
    BY <1>2, Zenon DEF n, Retired

LEMMA StreamConnects ==
    ASSUME NEW All, NEW E, NEW c \in Conn(All, E), NEW g \in Nat
    PROVE  Stream!Connecting(c, g) = Connected(c, g)
<1> DEFINE n == Stream!Connecting(c, g)
<1>1. n \in [items : {c.items}, gen : {g}, sock : {g}, opened : {FALSE}, timer : {FALSE},
           connectTimer : {TRUE}, extra : {c.extra}]
    BY DEF Stream!Connecting, Conn
<1> HIDE DEF n
<1>2. n = [items |-> c.items, gen |-> g, sock |-> g, opened |-> FALSE, timer |-> FALSE,
           connectTimer |-> TRUE, extra |-> c.extra]
    BY <1>1, ConnIs, Zenon
<1> QED
    BY <1>2, Zenon DEF n, Connected

LEMMA StreamOpens ==
    ASSUME NEW items, NEW c, c.items = items, c.extra = NoBars, NEW r
    PROVE  Stream!Opened(Stream!NewConn(items), r) = IF r THEN Retired(c, 2, NoBars) ELSE Connected(c, 1)
<1> DEFINE b == Stream!NewConn(items)
<1>1. b \in Conn(items, {NoBars}) /\ b.gen = 0 /\ b.items = items /\ b.extra = NoBars
    BY DEF Stream!NewConn, Stream!NoSock, Conn
<1> HIDE DEF b
<1>2. Stream!Opened(b, r) = IF r THEN Stream!Reopened(b, b.gen + 1) ELSE Stream!Connecting(b, b.gen + 1)
    BY Zenon DEF Stream!Opened
<1>3. b.gen + 1 = 1 /\ b.gen + 1 \in Nat /\ 1 + 1 = 2
    BY <1>1
<1>4. Stream!Reopened(b, 1) = Retired(b, 2, NoBars) /\ Stream!Connecting(b, 1) = Connected(b, 1)
    BY <1>1, <1>3, StreamRetires, StreamConnects
<1>5. Retired(b, 2, NoBars) = Retired(c, 2, NoBars) /\ Connected(b, 1) = Connected(c, 1)
    BY <1>1, Zenon DEF Retired, Connected
<1> QED
    BY <1>2, <1>3, <1>4, <1>5, Zenon DEF b

LEMMA StreamPoolMoves ==
    ASSUME PoolTyped(BarPairs, [BarPairs -> Bars], Ticks), Stream!PoolSteps
    PROVE  PoolMoves(NoBars)
<1>1. \A i \in DOMAIN v2 : v2[i] \in Conn(BarPairs, [BarPairs -> Bars])
    BY DEF PoolTyped
<1>2. ASSUME NEW i \in DOMAIN v2, NEW c, v2' = [v2 EXCEPT ![i] = c] PROVE Elsewhere(i) /\ v2'[i] = c
    BY <1>2 DEF Elsewhere
<1>3. ASSUME NEW i \in DOMAIN v2, NEW g \in Nat
      PROVE  Stream!Reopened(v2[i], g) = Retired(v2[i], g + 1, NoBars)
    BY <1>1, StreamRetires
<1>4. ASSUME NEW i \in DOMAIN v2, Stream!ReopensConn(i)
      PROVE  Elsewhere(i) /\ v2'[i] = Retired(v2[i], v2[i].gen + 1, NoBars)
    <2>1. v2' = [v2 EXCEPT ![i] = Stream!Reopened(v2[i], v2[i].gen)]
        BY <1>4 DEF Stream!ReopensConn
    <2>2. v2[i].gen \in Nat
        BY <1>1 DEF Conn
    <2> QED
        BY <1>2, <1>3, <2>1, <2>2
<1>5. ASSUME NEW s \in v4, Stream!SockOpens(s) PROVE PoolMoves(NoBars)
    <2>1. CASE Stream!Current(s.conn, s.gen)
        <3> DEFINE i == s.conn
        <3>1. i \in DOMAIN v2 /\ v2[i].gen = s.gen /\ ~s.open
            BY <1>5, <2>1 DEF Stream!Current, Stream!SockOpens
        <3>2. /\ v2' = [v2 EXCEPT ![i].opened = TRUE, ![i].connectTimer = FALSE]
              /\ v4' = (v4 \ {s}) \cup {[s EXCEPT !.open = TRUE]} /\ v1' = v1 /\ v3' = v3
            BY <1>5, <2>1 DEF Stream!SockOpens
        <3>3. v2' = [v2 EXCEPT ![i] = [v2[i] EXCEPT !.opened = TRUE, !.connectTimer = FALSE]]
            BY <3>1, <3>2
        <3>4. Elsewhere(i) /\ v2'[i] = [v2[i] EXCEPT !.opened = TRUE, !.connectTimer = FALSE]
            BY <1>2, <3>1, <3>3
        <3> QED
            BY <3>1, <3>2, <3>4 DEF PoolMoves, OpensOne
    <2>2. CASE ~Stream!Current(s.conn, s.gen)
        BY <1>5, <2>2 DEF Stream!SockOpens, PoolMoves, DropsSome
    <2> QED
        BY <2>1, <2>2
<1>6. ASSUME NEW s \in v4, Stream!SockEnds(s) PROVE PoolMoves(NoBars)
    <2>1. v4' = v4 \ {s} /\ {s} \in SUBSET v4 /\ v1' = v1 /\ v3' = v3
        BY <1>6 DEF Stream!SockEnds
    <2>2. CASE Stream!Current(s.conn, s.gen)
        <3>1. s.conn \in DOMAIN v2 /\ Stream!ReopensConn(s.conn)
            BY <1>6, <2>2 DEF Stream!SockEnds, Stream!Current
        <3> QED
            BY <1>4, <2>1, <3>1 DEF PoolMoves, RetiresOne
    <2>3. CASE ~Stream!Current(s.conn, s.gen)
        BY <1>6, <2>1, <2>3 DEF Stream!SockEnds, PoolMoves, DropsSome
    <2> QED
        BY <2>2, <2>3
<1>7. ASSUME NEW i \in DOMAIN v2, Stream!ConnectTimesOut(i) PROVE PoolMoves(NoBars)
    <2>1. v4' = v4 \ {} /\ {} \in SUBSET v4 /\ v1' = v1 /\ v3' = v3 /\ Stream!ReopensConn(i)
        BY <1>7 DEF Stream!ConnectTimesOut
    <2> QED
        BY <1>4, <2>1 DEF PoolMoves, RetiresOne
<1>8. ASSUME NEW i \in DOMAIN v2, Stream!RetryFires(i) PROVE PoolMoves(NoBars)
    <2>1. PICK refused \in BOOLEAN :
        /\ v2' = [v2 EXCEPT ![i] = Stream!Opened(v2[i], refused)]
        /\ v4' = IF refused THEN v4 ELSE v4 \cup {Stream!Socket(i, v2[i].gen + 1, v2[i].items)}
        BY <1>8 DEF Stream!RetryFires
    <2>2. v2[i].timer /\ v1' = v1 /\ v3' = v3 /\ v2[i].gen \in Nat
        BY <1>1, <1>8 DEF Stream!RetryFires, Conn
    <2>3. Elsewhere(i) /\ v2'[i] = Stream!Opened(v2[i], refused)
        BY <1>2, <2>1
    <2>4. CASE refused
        <3>1. v2'[i] = Retired(v2[i], v2[i].gen + 2, NoBars)
            BY <1>3, <2>2, <2>3, <2>4 DEF Stream!Opened
        <3> QED
            BY <2>1, <2>2, <2>3, <2>4, <3>1 DEF PoolMoves, RetriesOne
    <2>5. CASE ~refused
        <3>1. v2'[i] = Connected(v2[i], v2[i].gen + 1)
            BY <1>1, <2>2, <2>3, <2>5, StreamConnects DEF Stream!Opened
        <3>2. Stream!Socket(i, v2[i].gen + 1, v2[i].items) = Plain(i, v2[i].gen + 1, v2[i].items)
            BY DEF Stream!Socket, Plain
        <3> QED
            BY <2>1, <2>2, <2>3, <2>5, <3>1, <3>2 DEF PoolMoves, RetriesOne
    <2> QED
        BY <2>4, <2>5
<1> QED
    BY <1>5, <1>6, <1>7, <1>8 DEF Stream!PoolSteps

LEMMA StreamResynced ==
    ASSUME PoolTyped(BarPairs, [BarPairs -> Bars], Ticks), NEW want \in SUBSET BarPairs, Stream!ResyncTo(want)
    PROVE  \/ Stream!Same(want) /\ UNCHANGED <<v2, v3, v4>>
           \/ ~Stream!Same(want) /\ Replaces(want, Stream!SetToSeq(want), NoBars)
<1> DEFINE f   == Stream!SetToSeq(want)
           ids == NewIds(want, f)
<1>1. CASE Stream!Same(want) /\ UNCHANGED <<v2, v3, v4>>
    BY <1>1
<1>2. ASSUME NEW refused, Stream!Resynced(want, refused) PROVE Replaces(want, f, NoBars)
    <2>1. \A k : Stream!Slice(want, k) = Cut(f, want, k)
        BY StreamCounts DEF Stream!Slice, Cut
    <2>2. Stream!Slices(want) = Cuts(f, want)
        BY <2>1, StreamCounts DEF Stream!Slices, Cuts
    <2>3. v3 \in Nat /\ IsFiniteSet(want)
        BY PoolAssumption, FS_Subset DEF PoolTyped
    <2>4. Cuts(f, want) \subseteq Nat
        BY <2>3, FS_CardinalityType DEF Cuts
    <2>5. {v3 + 1 + k : k \in Stream!Slices(want)} = ids
        BY <2>2 DEF NewIds, NewId
    <2> HIDE DEF ids, f
    <2>6. /\ refused \subseteq ids
          /\ v3' = v3 + Cardinality(ids)
          /\ v2' = [i \in ids |-> Stream!Opened(Stream!NewConn(Cut(f, want, i - v3 - 1)), i \in refused)]
          /\ v4' = v4 \cup {Stream!Socket(i, 1, Cut(f, want, i - v3 - 1)) : i \in ids \ refused}
        BY <1>2, <2>1, <2>5, StreamCounts DEF Stream!Resynced
    <2>7. ASSUME NEW k \in Cuts(f, want)
          PROVE  NewId(k) \in ids /\ NewId(k) - v3 - 1 = k
        BY <2>3, <2>4 DEF ids, NewIds, NewId
    <2>8. ASSUME NEW k \in Cuts(f, want)
          PROVE  LET c == [items |-> Cut(f, want, k), extra |-> NoBars]
                 IN  /\ v2'[NewId(k)] = IF NewId(k) \in refused THEN Retired(c, 2, NoBars) ELSE Connected(c, 1)
                     /\ v2'[NewId(k)].items = Cut(f, want, k)
        <3> DEFINE c == [items |-> Cut(f, want, k), extra |-> NoBars]
        <3>1. v2'[NewId(k)] = Stream!Opened(Stream!NewConn(Cut(f, want, k)), NewId(k) \in refused)
            BY <2>6, <2>7
        <3>2. c.items = Cut(f, want, k) /\ c.extra = NoBars
            OBVIOUS
        <3> HIDE DEF c
        <3>3. \A r : Stream!Opened(Stream!NewConn(Cut(f, want, k)), r) =
                        IF r THEN Retired(c, 2, NoBars) ELSE Connected(c, 1)
            BY <3>2, StreamOpens, Zenon
        <3>4. v2'[NewId(k)] = IF NewId(k) \in refused THEN Retired(c, 2, NoBars) ELSE Connected(c, 1)
            BY <3>1, <3>3, Zenon
        <3>5. v2'[NewId(k)].items = Cut(f, want, k)
            BY <3>2, <3>4 DEF Retired, Connected
        <3> QED
            BY <3>4, <3>5 DEF c
    <2>9. \A i \in ids : v2'[i].items = Cut(f, want, i - v3 - 1)
        BY <2>7, <2>8 DEF ids, NewIds
    <2>10. v4' = v4 \cup {Plain(i, 1, v2'[i].items) : i \in ids \ refused}
        BY <2>6, <2>9 DEF Stream!Socket, Plain
    <2>11. DOMAIN v2' = ids
        BY <2>6
    <2> QED
        BY <2>6, <2>8, <2>10, <2>11 DEF Replaces, ids
<1> QED
    BY <1>1, <1>2 DEF Stream!ResyncTo

\* CandleStream: v6 wanted, v7 venue (the revisions of each minute of a symbol), v8
\* clock, v9 settledScan, v10 deferred, v11 stored.
StreamTyped ==
    /\ v6 \in SUBSET BarPairs
    /\ v7 \in [BarPairs -> Seq(Nat)] /\ \A s \in BarPairs : v7[s] # <<>>
    /\ v8 \in Nat /\ v9 \in Nat
    /\ v10 \in [BarPairs -> SUBSET Bars] /\ v11 \in [BarPairs -> SUBSET Bars]

\* What a write leaves was stored before or is being written.
LEMMA WrittenFrom ==
    ASSUME v11 \in [BarPairs -> SUBSET Bars], NEW ready \in [BarPairs -> SUBSET Bars], Stream!Write(ready)
    PROVE  /\ v11' \in [BarPairs -> SUBSET Bars]
           /\ \A s \in BarPairs : v11'[s] \subseteq v11[s] \cup ready[s]
<1>1. PICK failed : v11' = [s \in BarPairs |-> IF s \in failed THEN v11[s] ELSE Stream!Over(v11[s], ready[s])]
    BY DEF Stream!Write
<1>2. \A s \in BarPairs : Stream!Over(v11[s], ready[s]) \subseteq v11[s] \cup ready[s]
    BY DEF Stream!Over
<1>3. \A s \in BarPairs : v11'[s] \subseteq v11[s] \cup ready[s]
    BY <1>1, <1>2
<1>4. \A s \in BarPairs : v11'[s] \in SUBSET Bars
    BY <1>3
<1> QED
    BY <1>1, <1>3, <1>4

LEMMA DeferringFrom == \A bars, b : Stream!Deferring(bars, b) \subseteq bars \cup {b}
BY DEF Stream!Deferring

\* One frame of a current socket: what it makes closed, and where that goes.
TickOf(t) == [open |-> t.open, rev |-> t.rev, closed |-> t.closed]
Done(i, t) == IF t.symbol \in v2[i].items THEN Stream!Closes(v2[i].extra[t.symbol], TickOf(t)) ELSE Stream!NoTick

LEMMA TickIsBar == ASSUME NEW t \in Ticks
    PROVE /\ TickOf(t) \in Bars /\ t.symbol \in BarPairs
          /\ TickOf(t).open = t.open /\ TickOf(t).rev = t.rev /\ TickOf(t).closed = t.closed
BY DEF Ticks, Bars, TickOf

LEMMA BarsMove ==
    ASSUME NEW h \in Bars, NEW b \in Bars
    PROVE  Stream!Closes(h, b) \in Bars /\ Stream!Holds(h, b) \in Bars
<1>1. Stream!NoTick \in Bars
    BY DEF Stream!NoTick, Bars
<1> QED
    BY <1>1 DEF Stream!Closes, Stream!Holds

LEMMA Ingested ==
    ASSUME StreamTyped, NEW i \in DOMAIN v2, v2[i] \in Conn(BarPairs, [BarPairs -> Bars]),
           NEW t \in Ticks, Stream!Ingest(i, t)
    PROVE  /\ v9' \in Nat /\ v10' \in [BarPairs -> SUBSET Bars] /\ v11' \in [BarPairs -> SUBSET Bars]
           /\ \A s \in BarPairs : \A b \in v10'[s] : b \in v10[s] \/ (s = t.symbol /\ b = Done(i, t) /\ b # Stream!NoTick)
           /\ \A s \in BarPairs : \A b \in v11'[s] :
                 b \in v11[s] \/ (b.open <= v8 /\ (b \in v10[s] \/ (s = t.symbol /\ b = Done(i, t) /\ b # Stream!NoTick)))
           /\ t.symbol \notin v2[i].items => v2' = v2
           /\ t.symbol \in v2[i].items =>
                 /\ Elsewhere(i)
                 /\ v2'[i] = [v2[i] EXCEPT !.extra = [v2[i].extra EXCEPT ![t.symbol] = Stream!Holds(v2[i].extra[t.symbol], TickOf(t))]]
<1> DEFINE scan  == v8 > v9
           taken == [s \in BarPairs |-> IF scan THEN Stream!Settled(v10[s]) ELSE {}]
           mine  == t.symbol \in v2[i].items
           held  == v2[i].extra[t.symbol]
           done  == Done(i, t)
           ready == done # Stream!NoTick /\ done.open <= v8
           left  == [s \in BarPairs |-> v10[s] \ taken[s]]
           rest  == CASE done = Stream!NoTick -> left[t.symbol]
                      [] ready -> {b \in left[t.symbol] : b.open # done.open}
                      [] OTHER -> Stream!Deferring(left[t.symbol], done)
           write == [taken EXCEPT ![t.symbol] = IF ready THEN Stream!Over(taken[t.symbol], {done}) ELSE taken[t.symbol]]
<1>1. /\ v2' = IF mine THEN [v2 EXCEPT ![i].extra[t.symbol] = Stream!Holds(held, TickOf(t))] ELSE v2
      /\ v9' = Stream!Max2(v9, v8)
      /\ v10' = [left EXCEPT ![t.symbol] = rest]
      /\ Stream!Write(write)
    BY DEF Stream!Ingest, TickOf, Done
<1>2. t.symbol \in BarPairs /\ TickOf(t) \in Bars
    BY TickIsBar
<1>3. held \in Bars /\ v2[i].extra \in [BarPairs -> Bars] /\ v2[i].items \in SUBSET BarPairs
    BY <1>2 DEF Conn
<1>4. done \in Bars
    <2>1. Stream!NoTick \in Bars
        BY DEF Stream!NoTick, Bars
    <2> QED
        BY <1>2, <1>3, <2>1, BarsMove DEF Done
<1>5. v10 \in [BarPairs -> SUBSET Bars] /\ v11 \in [BarPairs -> SUBSET Bars] /\ v8 \in Nat /\ v9 \in Nat
    BY DEF StreamTyped
<1> HIDE DEF done
<1>6. \A s \in BarPairs : taken[s] \subseteq v10[s] /\ \A b \in taken[s] : b.open <= v8
    BY DEF Stream!Settled
<1>7. rest \subseteq v10[t.symbol] \cup ({done} \ {Stream!NoTick})
    BY <1>2, DeferringFrom
<1>8. v10' \in [BarPairs -> SUBSET Bars] /\ \A s \in BarPairs : v10'[s] = IF s = t.symbol THEN rest ELSE left[s]
    <2>1. rest \in SUBSET Bars
        BY <1>2, <1>4, <1>5, <1>7
    <2>2. left \in [BarPairs -> SUBSET Bars]
        BY <1>5
    <2> HIDE DEF rest, left
    <2> QED
        BY <1>1, <1>2, <2>1, <2>2
<1>9. Stream!Over(taken[t.symbol], {done}) \subseteq taken[t.symbol] \cup {done}
    BY DEF Stream!Over
<1>10. /\ write \in [BarPairs -> SUBSET Bars]
       /\ \A s \in BarPairs : write[s] \subseteq taken[s] \cup (IF s = t.symbol /\ ready THEN {done} ELSE {})
    <2>1. taken \in [BarPairs -> SUBSET Bars]
        BY <1>5, <1>6
    <2> HIDE DEF taken, ready
    <2> QED
        BY <1>2, <1>4, <1>9, <2>1
<1>11. v11' \in [BarPairs -> SUBSET Bars] /\ \A s \in BarPairs : v11'[s] \subseteq v11[s] \cup write[s]
    <2> HIDE DEF write
    <2> QED
        BY <1>1, <1>5, <1>10, WrittenFrom
<1>12. \A s \in BarPairs : \A b \in v10'[s] : b \in v10[s] \/ (s = t.symbol /\ b = done /\ b # Stream!NoTick)
    <2>1. \A s \in BarPairs : left[s] \subseteq v10[s]
        OBVIOUS
    <2> HIDE DEF left, rest
    <2> QED
        BY <1>7, <1>8, <2>1
<1>13. \A s \in BarPairs : \A b \in v11'[s] :
          b \in v11[s] \/ (b.open <= v8 /\ (b \in v10[s] \/ (s = t.symbol /\ b = done /\ b # Stream!NoTick)))
    <2>1. ready => done.open <= v8 /\ done # Stream!NoTick
        OBVIOUS
    <2> HIDE DEF taken, write, ready
    <2> QED
        BY <1>6, <1>10, <1>11, <2>1
<1>14. v9' \in Nat
    BY <1>1, <1>5 DEF Stream!Max2
<1>15. ASSUME mine
       PROVE  /\ Elsewhere(i)
              /\ v2'[i] = [v2[i] EXCEPT !.extra = [v2[i].extra EXCEPT ![t.symbol] = Stream!Holds(held, TickOf(t))]]
    <2> DEFINE x == Stream!Holds(held, TickOf(t))
    <2>1. v2' = [v2 EXCEPT ![i].extra[t.symbol] = x]
        BY <1>1, <1>15
    <2> HIDE DEF x
    <2>2. v2' = [v2 EXCEPT ![i] = [v2[i] EXCEPT !.extra = [v2[i].extra EXCEPT ![t.symbol] = x]]]
        BY <2>1
    <2>3. Elsewhere(i) /\ v2'[i] = [v2[i] EXCEPT !.extra = [v2[i].extra EXCEPT ![t.symbol] = x]]
        BY <2>2 DEF Elsewhere
    <2> QED
        BY <2>3 DEF x
<1> QED
    BY <1>1, <1>8, <1>11, <1>12, <1>13, <1>14, <1>15 DEF done

\* The venue's present revision of a minute, and a minute that is over.
Present(s, b) == b.open \in 1 .. Len(v7[s]) /\ b.rev = v7[s][b.open]
Final(s, b) == Present(s, b) /\ b.open < Len(v7[s])

\* What a hearing socket holds and has on its way of one symbol: minutes in order,
\* and a bar the venue has since revised is followed by its revision.
Follows(q, i, s, o) == \E j \in 1 .. Len(q) : j > i /\ q[j].symbol = s /\ q[j].open = o
Told(h, q, s) ==
    /\ h # Stream!NoTick => h.open \in 1 .. Len(v7[s]) /\ (Present(s, h) \/ Follows(q, 0, s, h.open))
    /\ \A i \in 1 .. Len(q) : q[i].symbol = s =>
          /\ q[i].open \in 1 .. Len(v7[s]) /\ h.open <= q[i].open
          /\ q[i].closed => Final(s, q[i])
          /\ Present(s, q[i]) \/ Follows(q, i, s, q[i].open)
          /\ \A j \in 1 .. Len(q) : j > i /\ q[j].symbol = s => q[i].open <= q[j].open

\* The next frame: the bar it closes is final, and what is held then is in order.
LEMMA NextTold ==
    ASSUME NEW s \in BarPairs, v7[s] \in Seq(Nat), NEW h \in Bars, NEW q \in Seq(Ticks), q # <<>>, Told(h, q, s)
    PROVE  LET t == Head(q)
               b == TickOf(t)
           IN  /\ t.symbol = s => /\ Stream!Closes(h, b) # Stream!NoTick => Final(s, Stream!Closes(h, b))
                                  /\ Told(Stream!Holds(h, b), Tail(q), s)
               /\ t.symbol # s => Told(h, Tail(q), s)
<1> DEFINE t == Head(q)
           b == TickOf(t)
           r == Tail(q)
<1>1. /\ t = q[1] /\ t \in Ticks /\ r \in Seq(Ticks) /\ Len(q) \in Nat /\ Len(q) >= 1 /\ Len(r) = Len(q) - 1
      /\ \A i \in 1 .. Len(r) : i + 1 \in 1 .. Len(q) /\ r[i] = q[i + 1]
    BY HeadTailProperties, LenProperties, EmptySeq
<1>2. b \in Bars /\ b.open = t.open /\ b.rev = t.rev /\ b.closed = t.closed
    BY <1>1, TickIsBar
<1>3. 1 \in 1 .. Len(q)
    BY <1>1
<1>4. Len(v7[s]) \in Nat /\ \A i \in 1 .. Len(q) : q[i].open \in Nat
    <2>1. \A i \in 1 .. Len(q) : q[i] \in Ticks
        BY ElementOfSeq
    <2> QED
        BY <2>1, LenProperties DEF Ticks
<1>5. \A i \in 2 .. Len(q) : i - 1 \in 1 .. Len(r) /\ r[i - 1] = q[i]
    BY <1>1
<1> HIDE DEF t, b, r
<1>6. ASSUME NEW i \in 0 .. Len(r), NEW o, Follows(q, i + 1, s, o) PROVE Follows(r, i, s, o)
    <2>1. PICK j \in 1 .. Len(q) : j > i + 1 /\ q[j].symbol = s /\ q[j].open = o
        BY <1>6 DEF Follows
    <2>2. j \in 2 .. Len(q) /\ j - 1 > i
        BY <1>1, <2>1
    <2> QED
        BY <1>5, <2>1, <2>2 DEF Follows
<1>7. ASSUME NEW i \in 1 .. Len(r), r[i].symbol = s
      PROVE  /\ r[i].open \in 1 .. Len(v7[s])
             /\ r[i].closed => Final(s, r[i])
             /\ Present(s, r[i]) \/ Follows(r, i, s, r[i].open)
             /\ \A j \in 1 .. Len(r) : j > i /\ r[j].symbol = s => r[i].open <= r[j].open
             /\ h.open <= r[i].open
    <2>1. i + 1 \in 1 .. Len(q) /\ r[i] = q[i + 1] /\ i \in 0 .. Len(r)
        BY <1>1
    <2>2. /\ q[i + 1].open \in 1 .. Len(v7[s]) /\ h.open <= q[i + 1].open
          /\ q[i + 1].closed => Final(s, q[i + 1])
          /\ Present(s, q[i + 1]) \/ Follows(q, i + 1, s, q[i + 1].open)
          /\ \A j \in 1 .. Len(q) : j > i + 1 /\ q[j].symbol = s => q[i + 1].open <= q[j].open
        BY <1>7, <2>1 DEF Told
    <2>3. ASSUME NEW j \in 1 .. Len(r), j > i, r[j].symbol = s PROVE r[i].open <= r[j].open
        <3>1. j + 1 \in 1 .. Len(q) /\ r[j] = q[j + 1] /\ j + 1 > i + 1
            BY <1>1, <2>3
        <3>2. q[j + 1].symbol = s
            BY <2>3, <3>1
        <3> QED
            BY <2>1, <2>2, <3>1, <3>2
    <2>4. Follows(q, i + 1, s, q[i + 1].open) => Follows(r, i, s, r[i].open)
        BY <1>6, <2>1, Zenon
    <2>5. r[i].open \in 1 .. Len(v7[s]) /\ h.open <= r[i].open
        BY <2>1, <2>2
    <2>6. r[i].closed => Final(s, r[i])
        BY <2>1, <2>2 DEF Final, Present
    <2>7. Present(s, r[i]) \/ Follows(r, i, s, r[i].open)
        BY <2>1, <2>2, <2>4 DEF Present
    <2> QED
        BY <2>3, <2>5, <2>6, <2>7
<1>8. ASSUME t.symbol = s
      PROVE  /\ t.open \in 1 .. Len(v7[s]) /\ h.open <= t.open /\ (t.closed => Final(s, t))
             /\ Present(s, t) \/ Follows(q, 1, s, t.open)
             /\ \A j \in 1 .. Len(q) : j > 1 /\ q[j].symbol = s => t.open <= q[j].open
    BY <1>1, <1>3, <1>8 DEF Told
<1>9. ASSUME t.symbol = s PROVE Stream!Closes(h, b) # Stream!NoTick => Final(s, Stream!Closes(h, b))
    <2>1. CASE b.closed
        <3>1. Stream!Closes(h, b) = b
            BY <2>1 DEF Stream!Closes
        <3> QED
            BY <1>2, <1>8, <1>9, <2>1, <3>1 DEF Final, Present
    <2>2. CASE ~b.closed /\ h # Stream!NoTick /\ b.open > h.open
        <3>1. Stream!Closes(h, b) = h
            BY <2>2 DEF Stream!Closes
        <3>2. h.open \in 1 .. Len(v7[s]) /\ (Present(s, h) \/ Follows(q, 0, s, h.open))
            BY <2>2 DEF Told
        <3>3. ~Follows(q, 0, s, h.open)
            <4> SUFFICES ASSUME NEW j \in 1 .. Len(q), q[j].symbol = s, q[j].open = h.open PROVE FALSE
                BY DEF Follows
            <4>1. j = 1 \/ j > 1
                BY <1>1
            <4>2. t.open <= q[j].open
                BY <1>1, <1>4, <1>8, <1>9, <4>1
            <4> QED
                BY <1>1, <1>2, <1>3, <1>4, <2>2, <3>2, <4>2
        <3> QED
            BY <1>2, <1>4, <1>8, <1>9, <2>2, <3>1, <3>2, <3>3 DEF Final
    <2>3. CASE ~b.closed /\ ~(h # Stream!NoTick /\ b.open > h.open)
        BY <2>3 DEF Stream!Closes
    <2> QED
        BY <2>1, <2>2, <2>3
<1>10. ASSUME t.symbol = s PROVE Told(Stream!Holds(h, b), r, s)
    <2>1. CASE b.closed
        <3>1. Stream!Holds(h, b) = Stream!NoTick
            BY <1>2, <1>8, <1>10, <2>1 DEF Stream!Holds
        <3>2. Stream!NoTick.open = 0
            BY DEF Stream!NoTick
        <3> QED
            BY <1>4, <1>7, <3>1, <3>2 DEF Told
    <2>2. CASE ~b.closed
        <3>1. Stream!Holds(h, b) = b
            <4>1. ~(b.open < h.open)
                BY <1>2, <1>8, <1>10 DEF Bars
            <4> QED
                BY <2>2, <4>1 DEF Stream!Holds
        <3>2. Present(s, b) \/ Follows(r, 0, s, b.open)
            <4>1. CASE Present(s, t)
                BY <1>2, <4>1 DEF Present
            <4>2. CASE Follows(q, 1, s, t.open)
                <5>1. 0 \in 0 .. Len(r) /\ 0 + 1 = 1
                    BY <1>1
                <5> QED
                    BY <1>2, <1>6, <4>2, <5>1
            <4> QED
                BY <1>8, <1>10, <4>1, <4>2
        <3>3. \A i \in 1 .. Len(r) : r[i].symbol = s => b.open <= r[i].open
            <4> SUFFICES ASSUME NEW i \in 1 .. Len(r), r[i].symbol = s PROVE b.open <= r[i].open
                OBVIOUS
            <4>1. i + 1 \in 1 .. Len(q) /\ i + 1 > 1 /\ r[i] = q[i + 1]
                BY <1>1
            <4> QED
                BY <1>2, <1>8, <1>10, <4>1
        <3> QED
            BY <1>2, <1>7, <1>8, <1>10, <3>1, <3>2, <3>3 DEF Told
    <2> QED
        BY <2>1, <2>2
<1>11. ASSUME t.symbol # s PROVE Told(h, r, s)
    <2>1. ASSUME NEW o, Follows(q, 0, s, o) PROVE Follows(r, 0, s, o)
        <3>1. PICK j \in 1 .. Len(q) : q[j].symbol = s /\ q[j].open = o
            BY <2>1 DEF Follows
        <3>2. j # 1
            BY <1>1, <1>11, <3>1
        <3>3. j \in 2 .. Len(q) /\ j - 1 > 0
            BY <1>1, <3>1, <3>2
        <3> QED
            BY <1>5, <3>1, <3>3 DEF Follows
    <2> QED
        BY <1>7, <2>1 DEF Told
<1> QED
    BY <1>9, <1>10, <1>11 DEF t, b, r

\* The venue revises the minute that is forming, or goes on to the next.
Advances(s, f) ==
    /\ f \in Ticks /\ f.symbol = s
    /\ v7' \in [BarPairs -> Seq(Nat)]
    /\ \A x \in BarPairs \ {s} : v7'[x] = v7[x]
    /\ Len(v7'[s]) >= Len(v7[s])
    /\ \A o \in 1 .. Len(v7[s]) : v7'[s][o] = v7[s][o] \/ o = f.open
    /\ f.open >= Len(v7[s])
    /\ Present(s, f)' /\ (f.closed => Final(s, f)')

LEMMA FinalStays ==
    ASSUME v7 \in [BarPairs -> Seq(Nat)], NEW s \in BarPairs, NEW f, Advances(s, f),
           NEW x \in BarPairs, NEW b, Final(x, b)
    PROVE  Final(x, b)'
<1>1. CASE x # s
    BY <1>1 DEF Advances, Final, Present
<1>2. CASE x = s
    <2>1. Len(v7[s]) \in Nat /\ Len(v7'[s]) \in Nat
        <3>1. v7[s] \in Seq(Nat) /\ v7'[s] \in Seq(Nat)
            BY DEF Advances
        <3> QED
            BY <3>1
    <2>2. f.open >= Len(v7[s]) /\ Len(v7'[s]) >= Len(v7[s]) /\ f.open \in Nat
        BY DEF Advances, Ticks
    <2>3. b.open \in 1 .. Len(v7[s]) /\ b.rev = v7[s][b.open] /\ b.open < Len(v7[s])
        BY <1>2 DEF Final, Present
    <2>4. v7'[s][b.open] = v7[s][b.open]
        <3>1. v7'[s][b.open] = v7[s][b.open] \/ b.open = f.open
            BY <2>3 DEF Advances
        <3>2. b.open # f.open
            BY <2>1, <2>2, <2>3
        <3> QED
            BY <3>1, <3>2
    <2> QED
        BY <1>2, <2>1, <2>2, <2>3, <2>4 DEF Final, Present
<1> QED
    BY <1>1, <1>2

\* A push reaches what was present: revised, it is followed by the revision.
LEMMA PushTold ==
    ASSUME v7 \in [BarPairs -> Seq(Nat)], NEW s \in BarPairs, NEW f, Advances(s, f),
           NEW h \in Bars, NEW q \in Seq(Ticks), NEW x \in BarPairs, Told(h, q, x)
    PROVE  /\ Told(h, Append(q, f), x)'
           /\ x # s => Told(h, q, x)'
<1> DEFINE r == Append(q, f)
<1>1. /\ Len(q) \in Nat /\ Len(r) = Len(q) + 1 /\ r[Len(q) + 1] = f /\ f \in Ticks /\ f.symbol = s
      /\ \A i \in 1 .. Len(q) : r[i] = q[i] /\ q[i] \in Ticks /\ q[i].open \in Nat
    <2>1. f \in Ticks /\ f.symbol = s
        BY DEF Advances
    <2>2. \A i \in 1 .. Len(q) : q[i] \in Ticks
        BY ElementOfSeq
    <2> QED
        BY <2>1, <2>2, AppendProperties, LenProperties DEF Ticks
<1>2. /\ Len(v7[x]) \in Nat /\ Len(v7'[x]) \in Nat /\ Len(v7'[x]) >= Len(v7[x])
    <2>1. v7'[x] \in Seq(Nat) /\ (x # s => v7'[x] = v7[x]) /\ (x = s => Len(v7'[x]) >= Len(v7[x]))
        BY DEF Advances
    <2> QED
        BY <2>1, LenProperties
<1>3. x = s => f.open \in 1 .. Len(v7'[x]) /\ f.open >= Len(v7[x]) /\ Present(x, f)' /\ (f.closed => Final(x, f)')
    BY DEF Advances, Present
<1>4. h.open \in Nat /\ f.open \in Nat
    BY <1>1 DEF Bars, Ticks
<1> HIDE DEF r
<1>5. ASSUME NEW i \in 0 .. Len(q), NEW o, Follows(q, i, x, o) PROVE Follows(r, i, x, o)
    <2>1. PICK j \in 1 .. Len(q) : j > i /\ q[j].symbol = x /\ q[j].open = o
        BY <1>5 DEF Follows
    <2>2. j \in 1 .. Len(r) /\ r[j] = q[j]
        BY <1>1, <2>1
    <2> QED
        BY <2>1, <2>2 DEF Follows
<1>6. ASSUME NEW i \in 0 .. Len(q), NEW b, Present(x, b), ~Present(x, b)' PROVE Follows(r, i, x, b.open)
    <2>1. b.open \in 1 .. Len(v7[x]) /\ b.rev = v7[x][b.open]
        BY <1>6 DEF Present
    <2>2. x = s
        <3>1. CASE x # s
            BY <1>6, <3>1 DEF Advances, Present
        <3> QED
            BY <3>1
    <2>3. b.open = f.open
        <3>1. v7'[x][b.open] = v7[x][b.open] \/ b.open = f.open
            BY <2>1, <2>2 DEF Advances
        <3> QED
            BY <1>2, <1>6, <2>1, <3>1 DEF Present
    <2>4. Len(q) + 1 \in 1 .. Len(r) /\ Len(q) + 1 > i
        BY <1>1
    <2> QED
        BY <1>1, <2>2, <2>3, <2>4 DEF Follows
<1>7. h # Stream!NoTick => h.open \in 1 .. Len(v7'[x]) /\ (Present(x, h)' \/ Follows(r, 0, x, h.open))
    <2> SUFFICES ASSUME h # Stream!NoTick PROVE h.open \in 1 .. Len(v7'[x]) /\ (Present(x, h)' \/ Follows(r, 0, x, h.open))
        OBVIOUS
    <2>1. h.open \in 1 .. Len(v7[x]) /\ (Present(x, h) \/ Follows(q, 0, x, h.open))
        BY DEF Told
    <2>2. h.open \in 1 .. Len(v7'[x])
        BY <1>2, <2>1
    <2>3. 0 \in 0 .. Len(q)
        BY <1>1
    <2> QED
        BY <1>5, <1>6, <2>1, <2>2, <2>3
<1>8. ASSUME NEW i \in 1 .. Len(q), q[i].symbol = x
      PROVE  /\ q[i].open \in 1 .. Len(v7'[x]) /\ h.open <= q[i].open
             /\ q[i].closed => Final(x, q[i])'
             /\ Present(x, q[i])' \/ Follows(r, i, x, q[i].open)
             /\ q[i].open <= Len(v7[x])
    <2>1. /\ q[i].open \in 1 .. Len(v7[x]) /\ h.open <= q[i].open
          /\ q[i].closed => Final(x, q[i])
          /\ Present(x, q[i]) \/ Follows(q, i, x, q[i].open)
        BY <1>8 DEF Told
    <2>2. q[i].open \in 1 .. Len(v7'[x]) /\ q[i].open <= Len(v7[x])
        BY <1>2, <2>1
    <2>3. q[i].closed => Final(x, q[i])'
        BY <2>1, FinalStays
    <2>4. i \in 0 .. Len(q)
        OBVIOUS
    <2>5. Present(x, q[i])' \/ Follows(r, i, x, q[i].open)
        BY <1>5, <1>6, <2>1, <2>4
    <2> QED
        BY <2>1, <2>2, <2>3, <2>5
<1>9. ASSUME NEW i \in 1 .. Len(q), NEW j \in 1 .. Len(q), q[i].symbol = x, j > i, q[j].symbol = x
      PROVE  q[i].open <= q[j].open
    BY <1>9 DEF Told
<1>10. Told(h, r, x)'
    <2>1. ASSUME NEW i \in 1 .. Len(r), r[i].symbol = x
          PROVE  /\ r[i].open \in 1 .. Len(v7'[x]) /\ h.open <= r[i].open
                 /\ r[i].closed => Final(x, r[i])'
                 /\ Present(x, r[i])' \/ Follows(r, i, x, r[i].open)
                 /\ \A j \in 1 .. Len(r) : j > i /\ r[j].symbol = x => r[i].open <= r[j].open
        <3>1. CASE i \in 1 .. Len(q)
            <4>1. r[i] = q[i] /\ q[i].symbol = x
                BY <1>1, <2>1, <3>1
            <4>2. ASSUME NEW j \in 1 .. Len(r), j > i, r[j].symbol = x PROVE r[i].open <= r[j].open
                <5>1. CASE j \in 1 .. Len(q)
                    <6>1. r[j] = q[j]
                        BY <1>1, <5>1
                    <6>2. q[i].open <= q[j].open
                        BY <1>9, <3>1, <4>1, <4>2, <5>1, <6>1
                    <6> QED
                        BY <4>1, <6>1, <6>2
                <5>2. CASE j \notin 1 .. Len(q)
                    <6>1. r[j] = f
                        <7>1. j = Len(q) + 1
                            BY <1>1, <5>2
                        <7> QED
                            BY <1>1, <7>1
                    <6>2. x = s
                        BY <1>1, <4>2, <6>1
                    <6>3. q[i].open \in Nat /\ q[i].open <= Len(v7[x]) /\ f.open >= Len(v7[x])
                        BY <1>1, <1>3, <1>8, <3>1, <4>1, <6>2
                    <6> QED
                        BY <1>2, <1>4, <4>1, <6>1, <6>3
                <5> QED
                    BY <5>1, <5>2
            <4>3. /\ q[i].open \in 1 .. Len(v7'[x]) /\ h.open <= q[i].open
                  /\ q[i].closed => Final(x, q[i])'
                  /\ Present(x, q[i])' \/ Follows(r, i, x, q[i].open)
                BY <1>8, <3>1, <4>1
            <4>4. r[i] = q[i]
                BY <4>1
            <4> QED
                BY <4>2, <4>3, <4>4 DEF Final, Present
        <3>2. CASE i \notin 1 .. Len(q)
            <4>1. r[i] = f /\ i = Len(q) + 1
                BY <1>1, <3>2
            <4>2. x = s
                BY <1>1, <2>1, <4>1
            <4>3. h.open <= f.open
                <5>1. h.open <= Len(v7[x])
                    <6>1. h = Stream!NoTick => h.open = 0
                        BY DEF Stream!NoTick
                    <6>2. h # Stream!NoTick => h.open \in 1 .. Len(v7[x])
                        BY DEF Told
                    <6> QED
                        BY <1>2, <6>1, <6>2
                <5> QED
                    BY <1>2, <1>3, <1>4, <4>2, <5>1
            <4>4. /\ f.open \in 1 .. Len(v7'[x]) /\ Present(x, f)' /\ (f.closed => Final(x, f)')
                BY <1>3, <4>2
            <4>5. \A j \in 1 .. Len(r) : ~(j > i)
                BY <1>1, <4>1
            <4> QED
                BY <4>1, <4>3, <4>4, <4>5 DEF Final, Present
        <3> QED
            BY <3>1, <3>2
    <2> QED
        BY <1>7, <2>1 DEF Told
<1>11. ASSUME x # s PROVE Told(h, q, x)'
    BY <1>11 DEF Told, Final, Present, Advances
<1> QED
    BY <1>10, <1>11 DEF r

\* What is deferred or stored is final; what is deferred belongs to a running
\* stream that carries its symbol; and what the venue still has to say to a socket
\* that is heard makes up for what the connection holds (Told): that is why the bar
\* a later minute closes is the last revision of the minute before.
StreamInv ==
    /\ StreamPool
    /\ StreamTyped
    /\ \A s \in BarPairs : v10[s] # {} => v1 /\ s \in Stream!Have
    /\ \A s \in BarPairs : \A b \in v10[s] \cup v11[s] : Final(s, b)
    /\ \A k \in v4 : Hears(k) => \A s \in k.items : Told(v2[k.conn].extra[s], k.queue, s)

LEMMA HaveIs == \A s : s \in Stream!Have <=> \E i \in DOMAIN v2 : s \in v2[i].items
BY DEF Stream!Have

LEMMA StreamStart == Stream!Init => StreamInv
<1> SUFFICES ASSUME Stream!Init PROVE StreamInv
    OBVIOUS
<1>1. v1 = FALSE /\ v2 = <<>> /\ v3 = 0 /\ v4 = {} /\ DOMAIN v2 = {}
    BY DEF Stream!Init, Stream!PoolInit
<1>2. StreamPool
    BY <1>1 DEF StreamPool, PoolInv, PoolTyped, ConnsHold, SocksHold
<1>3. StreamTyped
    BY DEF Stream!Init, StreamTyped
<1>4. \A s \in BarPairs : v10[s] = {} /\ v11[s] = {}
    BY DEF Stream!Init
<1> QED
    BY <1>1, <1>2, <1>3, <1>4 DEF StreamInv

\* Steps of the pool that leave the rest alone.
LEMMA PoolSteps ==
    ASSUME StreamInv, Stream!Pool
    PROVE  StreamInv'
<1>1. UNCHANGED <<v6, v7, v8, v9, v10, v11>> /\ PoolMoves(NoBars)
    BY StreamPoolMoves DEF Stream!Pool, StreamInv, StreamPool, PoolInv
<1>2. NoBars \in [BarPairs -> Bars]
    BY DEF NoBars, Bars
<1>3. StreamPool'
    BY <1>1, <1>2, PoolMovesKept DEF StreamInv, StreamPool
<1>4. StreamTyped'
    BY <1>1 DEF StreamInv, StreamTyped
<1>5. \A i \in DOMAIN v2 : i \in DOMAIN v2' /\ v2'[i].items = v2[i].items
    <2>1. \A i \in DOMAIN v2 : v2[i] \in Conn(BarPairs, [BarPairs -> Bars])
        BY DEF StreamInv, StreamPool, PoolInv, PoolTyped
    <2>2. CASE OpensOne
        <3>1. PICK k \in v4 : /\ k.conn \in DOMAIN v2 /\ Elsewhere(k.conn)
                              /\ v2'[k.conn] = [v2[k.conn] EXCEPT !.opened = TRUE, !.connectTimer = FALSE]
            BY <2>2 DEF OpensOne
        <3>2. v2'[k.conn].items = v2[k.conn].items
            BY <2>1, <3>1 DEF Conn
        <3> QED
            BY <3>1, <3>2 DEF Elsewhere
    <2>3. CASE DropsSome
        BY <2>3 DEF DropsSome
    <2>4. CASE RetiresOne(NoBars)
        BY <2>4 DEF RetiresOne, Retired, Elsewhere
    <2>5. CASE RetriesOne(NoBars)
        BY <2>5 DEF RetriesOne, Retired, Connected, Elsewhere
    <2> QED
        BY <1>1, <2>2, <2>3, <2>4, <2>5 DEF PoolMoves
<1>6. \A s \in BarPairs : v10'[s] # {} => v1' /\ s \in Stream!Have'
    BY <1>1, <1>5, HaveIs DEF StreamInv, PoolMoves, Stream!Have
<1>7. \A s \in BarPairs : \A b \in v10'[s] \cup v11'[s] : Final(s, b)'
    BY <1>1 DEF StreamInv, Final, Present
<1>8. ASSUME NEW k \in v4', Hears(k)', NEW s \in k.items
      PROVE  Told(v2[k.conn].extra[s], k.queue, s)'
    <2>1. CASE k \in v4 /\ Hears(k) /\ v2'[k.conn].extra = v2[k.conn].extra
        <3>1. Told(v2[k.conn].extra[s], k.queue, s)
            BY <2>1 DEF StreamInv
        <3> QED
            BY <1>1, <2>1, <3>1 DEF Told, Final, Present
    <2>2. CASE k.queue = <<>> /\ v2'[k.conn].extra = NoBars
        <3>1. s \in BarPairs
            BY <1>3 DEF StreamPool, PoolInv, PoolTyped, Sock
        <3>2. v2'[k.conn].extra[s] = Stream!NoTick
            BY <2>2, <3>1 DEF NoBars, Stream!NoTick
        <3>3. \A i : i \notin 1 .. Len(k.queue)
            BY <2>2, EmptySeq
        <3> QED
            BY <3>2, <3>3 DEF Told
    <2>3. PoolInv(BarPairs, [BarPairs -> Bars], Ticks, NoBars)
        BY DEF StreamInv, StreamPool
    <2>4. \/ k \in v4 /\ Hears(k) /\ v2'[k.conn].extra = v2[k.conn].extra
          \/ k.queue = <<>> /\ v2'[k.conn].extra = NoBars
        BY <1>1, <1>2, <1>8, <2>3, HearsKept
    <2> QED
        BY <2>1, <2>2, <2>4
<1> QED
    BY <1>3, <1>4, <1>6, <1>7, <1>8 DEF StreamInv

\* A new roster: a bar held back belongs to a symbol that stays.
LEMMA RosterSteps ==
    ASSUME StreamInv, NEW want \in SUBSET BarPairs, Stream!ResyncTo(want), v1' = TRUE,
           v6' \in SUBSET BarPairs, UNCHANGED <<v7, v8, v9, v11>>,
           v10' = IF v1 /\ Stream!Same(want) THEN v10 ELSE Stream!Kept(want)
    PROVE  StreamInv'
<1>1. PoolTyped(BarPairs, [BarPairs -> Bars], Ticks) /\ SocksHold /\ ConnsHold(NoBars) /\ StreamTyped
    BY DEF StreamInv, StreamPool, PoolInv
<1>2. NoBars \in [BarPairs -> Bars]
    BY DEF NoBars, Bars
<1>3. \A s \in BarPairs : v10'[s] \subseteq v10[s] /\ ((v1 /\ Stream!Same(want)) \/ (v10'[s] # {} => s \in want))
    BY DEF Stream!Kept
<1>4. StreamTyped'
    <2>1. v10' \in [BarPairs -> SUBSET Bars]
        BY <1>1 DEF Stream!Kept, StreamTyped
    <2> QED
        BY <1>1, <2>1 DEF StreamTyped
<1>5. \A s \in BarPairs : \A b \in v10'[s] \cup v11'[s] : Final(s, b)'
    BY <1>3 DEF StreamInv, Final, Present
<1>6. CASE Stream!Same(want) /\ UNCHANGED <<v2, v3, v4>>
    <2>1. v1
        BY <1>1, <1>6 DEF Stream!Same, ConnsHold, PoolTyped
    <2>2. v1' = v1
        BY <1>1, <2>1 DEF PoolTyped
    <2>3. StreamPool'
        BY <1>1, <1>6, <2>2 DEF StreamPool, PoolInv, PoolTyped, ConnsHold, SocksHold
    <2>4. \A s \in BarPairs : v10'[s] # {} => v1' /\ s \in Stream!Have'
        BY <1>3, <1>6, <2>2, HaveIs DEF StreamInv, Stream!Have
    <2>5. \A k \in v4' : Hears(k)' => \A s \in k.items : Told(v2[k.conn].extra[s], k.queue, s)'
        BY <1>6 DEF StreamInv, Hears, Told, Final, Present
    <2> QED
        BY <1>4, <1>5, <2>3, <2>4, <2>5 DEF StreamInv
<1>7. CASE ~Stream!Same(want) /\ Replaces(want, Stream!SetToSeq(want), NoBars)
    <2> DEFINE f == Stream!SetToSeq(want)
    <2>1. IsFiniteSet(want)
        BY PoolAssumption, FS_Subset
    <2>2. f \in [1 .. Cardinality(want) -> want] /\ IsInjective(f)
        BY <2>1, Enumerable, StreamCounts DEF Stream!SetToSeq, Stream!IsInjective, IsInjective
    <2> HIDE DEF f
    <2>3. Replaces(want, f, NoBars)
        BY <1>7 DEF f
    <2>4. StreamPool' /\ \A s : s \in want <=> \E i \in DOMAIN v2' : s \in v2'[i].items
        BY <1>1, <1>2, <2>1, <2>2, <2>3, PoolReplacedKept DEF StreamPool
    <2>5. \A s \in BarPairs : v10'[s] # {} => v1' /\ s \in Stream!Have'
        BY <1>3, <1>7, <2>4 DEF Stream!Have
    <2>6. \A k \in v4' : ~Hears(k)'
        BY <1>1, <2>1, <2>2, <2>3, NobodyHears
    <2> QED
        BY <1>4, <1>5, <2>4, <2>5, <2>6 DEF StreamInv
<1> QED
    BY <1>1, <1>6, <1>7, StreamResynced

\* Steps that touch neither the pool nor the venue.
LEMMA QuietSteps ==
    ASSUME StreamInv, UNCHANGED <<v1, v2, v3, v4, v6, v7>>, v8' \in Nat, v9' \in Nat,
           v10' \in [BarPairs -> SUBSET Bars], v11' \in [BarPairs -> SUBSET Bars],
           \A s \in BarPairs : v10'[s] \subseteq v10[s] /\ v11'[s] \subseteq v11[s] \cup v10[s]
    PROVE  StreamInv'
<1>1. StreamPool'
    BY DEF StreamInv, StreamPool, PoolInv, PoolTyped, ConnsHold, SocksHold
<1>2. StreamTyped'
    BY DEF StreamInv, StreamTyped
<1>3. \A s \in BarPairs : v10'[s] # {} => v1' /\ s \in Stream!Have'
    BY HaveIs DEF StreamInv, Stream!Have
<1>4. \A s \in BarPairs : \A b \in v10'[s] \cup v11'[s] : Final(s, b)'
    BY DEF StreamInv, Final, Present
<1>5. \A k \in v4' : Hears(k)' => \A s \in k.items : Told(v2[k.conn].extra[s], k.queue, s)'
    BY DEF StreamInv, Hears, Told, Final, Present
<1> QED
    BY <1>1, <1>2, <1>3, <1>4, <1>5 DEF StreamInv

LEMMA FlushSteps ==
    ASSUME StreamInv, Stream!FlushDeferred
    PROVE  /\ StreamInv'
           /\ \A s \in BarPairs : \A b \in v11'[s] : b \in v11[s] \/ (b \in v10[s] /\ b.open <= v8)
<1> DEFINE ready == [s \in BarPairs |-> Stream!Settled(v10[s])]
<1>1. StreamTyped
    BY DEF StreamInv
<1>2. UNCHANGED <<v1, v2, v3, v4, v6, v7, v8>> /\ v9' = Stream!Max2(v9, v8) /\ Stream!Write(ready)
      /\ v10' = [s \in BarPairs |-> v10[s] \ Stream!Settled(v10[s])]
    BY DEF Stream!FlushDeferred, Stream!poolVars
<1>3. \A s \in BarPairs : ready[s] \subseteq v10[s] /\ \A b \in ready[s] : b.open <= v8
    BY DEF Stream!Settled
<1>4. ready \in [BarPairs -> SUBSET Bars]
    BY <1>1 DEF StreamTyped, Stream!Settled
<1> HIDE DEF ready
<1>5. v11' \in [BarPairs -> SUBSET Bars] /\ \A s \in BarPairs : v11'[s] \subseteq v11[s] \cup ready[s]
    BY <1>1, <1>2, <1>4, WrittenFrom DEF StreamTyped
<1>6. v10' \in [BarPairs -> SUBSET Bars] /\ \A s \in BarPairs : v10'[s] \subseteq v10[s]
    BY <1>1, <1>2 DEF StreamTyped
<1>7. v8' \in Nat /\ v9' \in Nat
    BY <1>1, <1>2 DEF StreamTyped, Stream!Max2
<1>8. \A s \in BarPairs : v11'[s] \subseteq v11[s] \cup v10[s]
    BY <1>3, <1>5
<1>9. StreamInv'
    BY <1>2, <1>5, <1>6, <1>7, <1>8, QuietSteps
<1> QED
    BY <1>3, <1>5, <1>9

LEMMA StopSteps == ASSUME StreamInv, Stream!Stop PROVE StreamInv'
<1>1. /\ v1' = FALSE /\ v2' = <<>> /\ DOMAIN v2' = {} /\ UNCHANGED <<v3, v4, v6, v7, v8, v9, v11>>
      /\ v10' = [s \in BarPairs |-> {}]
    BY DEF Stream!Stop, Stream!StopPool
<1>2. StreamPool'
    BY <1>1 DEF StreamInv, StreamPool, PoolInv, PoolTyped, ConnsHold, SocksHold
<1>3. StreamTyped'
    BY <1>1 DEF StreamInv, StreamTyped
<1>4. \A s \in BarPairs : \A b \in v10'[s] \cup v11'[s] : Final(s, b)'
    BY <1>1 DEF StreamInv, Final, Present
<1>5. \A k \in v4' : ~Hears(k)'
    BY <1>1 DEF Hears
<1> QED
    BY <1>1, <1>2, <1>3, <1>4, <1>5 DEF StreamInv

LEMMA DeliverSteps ==
    ASSUME StreamInv, NEW k \in v4, Stream!Deliver(k)
    PROVE  /\ StreamInv'
           /\ \A s \in BarPairs : \A b \in v11'[s] : b \in v11[s] \/ (v1 /\ s \in Stream!Have /\ b.open <= v8)
<1> DEFINE i == k.conn
           t == Head(k.queue)
           r == Tail(k.queue)
           n == [k EXCEPT !.queue = r]
           q == [l \in v4 |-> IF l = k THEN r ELSE l.queue]
<1>1. /\ PoolTyped(BarPairs, [BarPairs -> Bars], Ticks) /\ SocksHold /\ ConnsHold(NoBars) /\ StreamTyped
      /\ PoolInv(BarPairs, [BarPairs -> Bars], Ticks, NoBars)
    BY DEF StreamInv, StreamPool, PoolInv
<1>2. /\ k \in Sock(BarPairs, Ticks) /\ v4 \subseteq Sock(BarPairs, Ticks)
      /\ \A j \in DOMAIN v2 : v2[j] \in Conn(BarPairs, [BarPairs -> Bars])
    BY <1>1 DEF PoolTyped
<1>3. /\ k.queue # <<>> /\ v4' = (v4 \ {k}) \cup {n} /\ UNCHANGED <<v1, v3, v6, v7, v8>>
    BY DEF Stream!Deliver, Stream!Receive
<1>4. k.queue \in Seq(Ticks) /\ t \in Ticks /\ r \in Seq(Ticks)
    <2>1. k.queue \in Seq(Ticks)
        BY <1>2 DEF Sock
    <2> QED
        BY <1>3, <2>1, HeadTailProperties
<1>5. k.open
    BY <1>1, <1>3 DEF SocksHold
<1>6. /\ n \in Sock(BarPairs, Ticks) /\ n.conn = i /\ n.gen = k.gen /\ n.items = k.items /\ n.open = k.open /\ n.queue = r
    BY <1>2, <1>4 DEF Sock
<1>7. q \in [v4 -> Seq(Ticks)] /\ v4' = {[l EXCEPT !.queue = q[l]] : l \in v4}
    BY <1>2, <1>3, <1>4, OneQueueChanges
<1>8. \A l \in v4 : ~l.open => q[l] = <<>>
    BY <1>1, <1>5 DEF SocksHold
<1> HIDE DEF n, q, t, r
<1>9. NoBars \in [BarPairs -> Bars]
    BY DEF NoBars, Bars
<1>10. \A l \in v4 : Hears(l) /\ l.conn = i /\ Hears(k) => l = k
    BY <1>1 DEF Hears, SocksHold
<1>11. CASE ~Stream!Current(i, k.gen)
    <2>1. UNCHANGED <<v2, v9, v10, v11>>
        BY <1>11 DEF Stream!Deliver, Stream!Receive
    <2>2. StreamPool'
        BY <1>1, <1>3, <1>7, <1>8, <1>9, <2>1, PoolHeardKept DEF StreamPool
    <2>3. StreamTyped'
        BY <1>1, <1>3, <2>1 DEF StreamTyped
    <2>4. \A s \in BarPairs : v10'[s] # {} => v1' /\ s \in Stream!Have'
        BY <1>3, <2>1 DEF StreamInv, Stream!Have
    <2>5. \A s \in BarPairs : \A b \in v10'[s] \cup v11'[s] : Final(s, b)'
        BY <1>3, <2>1 DEF StreamInv, Final, Present
    <2>6. ASSUME NEW l \in v4', Hears(l)', NEW s \in l.items PROVE Told(v2[l.conn].extra[s], l.queue, s)'
        <3>1. ~Hears(k) /\ ~Hears(n)'
            <4>1. i \notin DOMAIN v2 \/ v2[i].gen # k.gen
                BY <1>1, <1>11 DEF Stream!Current, ConnsHold
            <4> QED
                BY <1>6, <2>1, <4>1 DEF Hears
        <3>2. l \in v4 /\ Hears(l)
            BY <1>3, <2>1, <2>6, <3>1 DEF Hears
        <3>3. Told(v2[l.conn].extra[s], l.queue, s)
            BY <3>2 DEF StreamInv
        <3> QED
            BY <1>3, <2>1, <3>3 DEF Told, Final, Present
    <2> QED
        BY <2>1, <2>2, <2>3, <2>4, <2>5, <2>6 DEF StreamInv
<1>12. CASE Stream!Current(i, k.gen)
    <2>1. v1 /\ i \in DOMAIN v2 /\ v2[i].gen = k.gen /\ Hears(k) /\ Stream!Ingest(i, t)
        BY <1>5, <1>12 DEF Stream!Current, Hears, Stream!Deliver, Stream!Receive, t
    <2>2. v2[i] \in Conn(BarPairs, [BarPairs -> Bars]) /\ v2[i].items = k.items /\ v2[i].opened
        <3>1. v2[i].items = k.items /\ (k.open = v2[i].opened)
            BY <1>1, <2>1 DEF SocksHold
        <3>2. v2[i].opened
            BY <1>5, <3>1, Zenon
        <3> QED
            BY <1>2, <2>1, <3>1, <3>2
    <2> DEFINE h == v2[i].extra
               x == Stream!Holds(h[t.symbol], TickOf(t))
    <2>3. /\ v9' \in Nat /\ v10' \in [BarPairs -> SUBSET Bars] /\ v11' \in [BarPairs -> SUBSET Bars]
          /\ \A s \in BarPairs : \A b \in v10'[s] : b \in v10[s] \/ (s = t.symbol /\ b = Done(i, t) /\ b # Stream!NoTick)
          /\ \A s \in BarPairs : \A b \in v11'[s] :
                b \in v11[s] \/ (b.open <= v8 /\ (b \in v10[s] \/ (s = t.symbol /\ b = Done(i, t) /\ b # Stream!NoTick)))
          /\ t.symbol \notin v2[i].items => v2' = v2
          /\ t.symbol \in v2[i].items => Elsewhere(i) /\ v2'[i] = [v2[i] EXCEPT !.extra = [h EXCEPT ![t.symbol] = x]]
        BY <1>1, <1>4, <2>1, <2>2, Ingested
    <2>4. /\ h \in [BarPairs -> Bars] /\ t.symbol \in BarPairs /\ TickOf(t) \in Bars /\ x \in Bars
          /\ v2[i].items \in SUBSET BarPairs
        <3>1. h \in [BarPairs -> Bars] /\ v2[i].items \in SUBSET BarPairs
            BY <2>2 DEF Conn
        <3> QED
            BY <1>4, <3>1, TickIsBar, BarsMove
    <2>5. /\ DOMAIN v2' = DOMAIN v2
          /\ \A j \in DOMAIN v2 : \/ v2'[j] = v2[j]
                                  \/ v2[j].opened /\ \E e \in [BarPairs -> Bars] : v2'[j] = [v2[j] EXCEPT !.extra = e]
        <3>1. CASE t.symbol \notin v2[i].items
            BY <2>3, <3>1
        <3>2. CASE t.symbol \in v2[i].items
            <4>1. Elsewhere(i) /\ v2'[i] = [v2[i] EXCEPT !.extra = [h EXCEPT ![t.symbol] = x]]
                BY <2>3, <3>2
            <4>2. [h EXCEPT ![t.symbol] = x] \in [BarPairs -> Bars]
                BY <2>4
            <4> QED
                BY <2>2, <4>1, <4>2 DEF Elsewhere
        <3> QED
            BY <3>1, <3>2
    <2>6. StreamPool'
        BY <1>1, <1>3, <1>7, <1>8, <1>9, <2>5, PoolHeardKept DEF StreamPool
    <2>7. StreamTyped'
        BY <1>1, <1>3, <2>3 DEF StreamTyped
    <2>8. \A j \in DOMAIN v2 : v2'[j].items = v2[j].items /\ v2'[j].gen = v2[j].gen
        <3>1. \A j \in DOMAIN v2 : v2[j] \in Conn(BarPairs, [BarPairs -> Bars])
            BY <1>2
        <3> QED
            BY <2>5, <3>1 DEF Conn
    <2>9. \A s : s \in Stream!Have' <=> s \in Stream!Have
        BY <2>5, <2>8 DEF Stream!Have
    <2>10. Done(i, t) # Stream!NoTick => t.symbol \in v2[i].items /\ t.symbol \in Stream!Have
        BY <2>1, HaveIs DEF Done
    <2>11. ASSUME NEW s \in k.items
           PROVE  /\ Told(h[s], k.queue, s) /\ s \in BarPairs
                  /\ t.symbol = s => /\ Stream!Closes(h[s], TickOf(t)) # Stream!NoTick => Final(s, Stream!Closes(h[s], TickOf(t)))
                                     /\ Told(Stream!Holds(h[s], TickOf(t)), r, s)
                  /\ t.symbol # s => Told(h[s], r, s)
        <3>1. s \in BarPairs /\ h[s] \in Bars /\ v7[s] \in Seq(Nat)
            BY <1>1, <2>2, <2>4 DEF StreamTyped
        <3>2. Told(h[s], k.queue, s)
            BY <2>1 DEF StreamInv
        <3> QED
            BY <1>3, <1>4, <3>1, <3>2, NextTold DEF t, r
    <2>12. Done(i, t) # Stream!NoTick => Final(t.symbol, Done(i, t))
        BY <2>2, <2>10, <2>11 DEF Done
    <2>13. \A s \in BarPairs : v10'[s] # {} => v1' /\ s \in Stream!Have'
        BY <1>3, <2>1, <2>3, <2>9, <2>10 DEF StreamInv
    <2>14. \A s \in BarPairs : \A b \in v10'[s] \cup v11'[s] : Final(s, b)
        BY <2>3, <2>12 DEF StreamInv
    <2>15. \A s \in BarPairs : \A b \in v10'[s] \cup v11'[s] : Final(s, b)'
        BY <1>3, <2>14 DEF Final, Present
    <2>16. ASSUME NEW l \in v4', Hears(l)', NEW s \in l.items PROVE Told(v2[l.conn].extra[s], l.queue, s)'
        <3>1. CASE l = n
            <4>1. s \in k.items /\ l.conn = i /\ l.queue = r
                BY <1>6, <2>16, <3>1
            <4>2. Told(v2'[i].extra[s], r, s)
                <5>1. CASE t.symbol = s
                    <6>1. t.symbol \in v2[i].items
                        BY <2>2, <4>1, <5>1
                    <6>2. v2'[i] = [v2[i] EXCEPT !.extra = [h EXCEPT ![t.symbol] = x]]
                        BY <2>3, <6>1
                    <6>3. v2'[i].extra = [h EXCEPT ![t.symbol] = x]
                        BY <2>2, <6>2 DEF Conn
                    <6>4. v2'[i].extra[s] = Stream!Holds(h[s], TickOf(t))
                        BY <2>4, <5>1, <6>3
                    <6> QED
                        BY <2>11, <4>1, <5>1, <6>4
                <5>2. CASE t.symbol # s
                    <6>1. v2'[i].extra[s] = h[s]
                        <7>1. CASE t.symbol \notin v2[i].items
                            BY <2>3, <7>1
                        <7>2. CASE t.symbol \in v2[i].items
                            <8>1. v2'[i] = [v2[i] EXCEPT !.extra = [h EXCEPT ![t.symbol] = x]]
                                BY <2>3, <7>2
                            <8>2. v2'[i].extra = [h EXCEPT ![t.symbol] = x]
                                BY <2>2, <8>1 DEF Conn
                            <8>3. s \in BarPairs
                                BY <2>11, <4>1
                            <8> QED
                                BY <2>4, <5>2, <8>2, <8>3
                        <7> QED
                            BY <7>1, <7>2
                    <6> QED
                        BY <2>11, <4>1, <5>2, <6>1
                <5> QED
                    BY <5>1, <5>2
            <4> QED
                BY <1>3, <4>1, <4>2 DEF Told, Final, Present
        <3>2. CASE l # n
            <4>1. l \in v4 /\ l # k
                BY <1>3, <3>2
            <4>2. Hears(l)
                BY <2>5, <2>8, <2>16, <4>1 DEF Hears
            <4>3. l.conn # i
                BY <1>10, <2>1, <4>1, <4>2
            <4>4. v2'[l.conn] = v2[l.conn]
                BY <2>3, <4>2, <4>3 DEF Hears, Elsewhere
            <4>5. Told(v2[l.conn].extra[s], l.queue, s)
                BY <4>1, <4>2 DEF StreamInv
            <4> QED
                BY <1>3, <4>4, <4>5 DEF Told, Final, Present
        <3> QED
            BY <3>1, <3>2
    <2>17. StreamInv'
        BY <2>6, <2>7, <2>13, <2>15, <2>16 DEF StreamInv
    <2>18. \A s \in BarPairs : \A b \in v11'[s] : b \in v11[s] \/ (v1 /\ s \in Stream!Have /\ b.open <= v8)
        BY <2>1, <2>3, <2>10 DEF StreamInv
    <2> QED
        BY <2>17, <2>18
<1> QED
    BY <1>11, <1>12

LEMMA PushSteps ==
    ASSUME StreamInv, NEW s \in BarPairs, NEW f, Advances(s, f), Stream!Push(s, f), v7'[s] # <<>>,
           UNCHANGED <<v1, v2, v3, v6, v8, v9, v10, v11>>
    PROVE  StreamInv'
<1> DEFINE told(k) == k.open /\ s \in k.items
           q == [k \in v4 |-> IF told(k) THEN Append(k.queue, f) ELSE k.queue]
<1>1. /\ PoolTyped(BarPairs, [BarPairs -> Bars], Ticks) /\ SocksHold /\ ConnsHold(NoBars) /\ StreamTyped
      /\ PoolInv(BarPairs, [BarPairs -> Bars], Ticks, NoBars)
    BY DEF StreamInv, StreamPool, PoolInv
<1>2. /\ v4 \subseteq Sock(BarPairs, Ticks) /\ \A k \in v4 : k.queue \in Seq(Ticks) /\ k.items \in SUBSET BarPairs
      /\ \A j \in DOMAIN v2 : v2[j] \in Conn(BarPairs, [BarPairs -> Bars])
    BY <1>1 DEF PoolTyped, Sock
<1>3. f \in Ticks /\ v7 \in [BarPairs -> Seq(Nat)] /\ v7' \in [BarPairs -> Seq(Nat)]
    BY <1>1 DEF Advances, StreamTyped
<1>4. q \in [v4 -> Seq(Ticks)]
    <2>1. \A k \in v4 : Append(k.queue, f) \in Seq(Ticks)
        BY <1>2, <1>3, AppendProperties
    <2> QED
        BY <1>2, <2>1
<1>5. v4' = {[k EXCEPT !.queue = q[k]] : k \in v4}
    <2>1. \A k \in v4 : [k EXCEPT !.queue = k.queue] = k
        BY <1>2 DEF Sock
    <2> DEFINE subscribed == {l \in v4 : l.open /\ s \in l.items}
               new(k) == IF k \in subscribed THEN [k EXCEPT !.queue = Append(k.queue, f)] ELSE k
    <2>2. \A k \in v4 : new(k) = [k EXCEPT !.queue = q[k]]
        BY <2>1
    <2>3. v4' = {new(k) : k \in v4}
        BY DEF Stream!Push
    <2> HIDE DEF told, q, new
    <2>4. \A l \in v4' : \E k \in v4 : l = [k EXCEPT !.queue = q[k]]
        BY <2>2, <2>3
    <2>5. \A k \in v4 : [k EXCEPT !.queue = q[k]] \in v4'
        BY <2>2, <2>3
    <2> QED
        BY <2>4, <2>5
<1>6. \A k \in v4 : ~k.open => q[k] = <<>>
    BY <1>1 DEF SocksHold
<1>7. NoBars \in [BarPairs -> Bars]
    BY DEF NoBars, Bars
<1>8. StreamPool'
    <2> HIDE DEF q
    <2>1. /\ v1' = v1 /\ v3' = v3 /\ DOMAIN v2' = DOMAIN v2
          /\ \A i \in DOMAIN v2 : \/ v2'[i] = v2[i]
                                  \/ v2[i].opened /\ \E e \in [BarPairs -> Bars] : v2'[i] = [v2[i] EXCEPT !.extra = e]
        OBVIOUS
    <2>2. PoolInv(BarPairs, [BarPairs -> Bars], Ticks, NoBars)'
        BY <1>1, <1>4, <1>5, <1>6, <1>7, <2>1, PoolHeardKept
    <2> QED
        BY <2>2 DEF StreamPool
<1>9. StreamTyped'
    BY <1>1, <1>3 DEF StreamTyped, Advances
<1>10. \A x \in BarPairs : v10'[x] # {} => v1' /\ x \in Stream!Have'
    BY DEF StreamInv, Stream!Have
<1>11. \A x \in BarPairs : \A b \in v10'[x] \cup v11'[x] : Final(x, b)'
    BY <1>3, FinalStays DEF StreamInv
<1>12. ASSUME NEW l \in v4', Hears(l)', NEW x \in l.items PROVE Told(v2[l.conn].extra[x], l.queue, x)'
    <2>1. PICK k \in v4 : l = [k EXCEPT !.queue = q[k]]
        BY <1>5
    <2>2. l.conn = k.conn /\ l.gen = k.gen /\ l.items = k.items /\ l.open = k.open /\ l.queue = q[k]
        BY <1>2, <1>4, <2>1 DEF Sock
    <2>3. Hears(k)
        BY <1>12, <2>2 DEF Hears
    <2>4. Told(v2[k.conn].extra[x], k.queue, x) /\ x \in BarPairs /\ v2[k.conn].extra[x] \in Bars
        <3>1. v2[k.conn].extra \in [BarPairs -> Bars]
            BY <1>2, <2>3 DEF Hears, Conn
        <3> QED
            BY <1>2, <1>12, <2>2, <2>3, <3>1 DEF StreamInv
    <2>5. /\ Told(v2[k.conn].extra[x], Append(k.queue, f), x)'
          /\ x # s => Told(v2[k.conn].extra[x], k.queue, x)'
        <3>1. PICK e : e = v2[k.conn].extra[x]
            OBVIOUS
        <3>2. e \in Bars /\ Told(e, k.queue, x) /\ v2'[k.conn].extra[x] = e
            BY <2>4, <3>1
        <3>3. Told(e, Append(k.queue, f), x)' /\ (x # s => Told(e, k.queue, x)')
            BY <1>2, <1>3, <2>4, <3>2, PushTold
        <3> QED
            BY <3>2, <3>3 DEF Told, Final, Present
    <2>6. x = s => told(k)
        BY <1>12, <2>2, <2>3 DEF Hears
    <2>7. CASE told(k)
        BY <2>2, <2>5, <2>7
    <2>8. CASE ~told(k)
        BY <2>2, <2>5, <2>6, <2>8
    <2> QED
        BY <2>7, <2>8
<1> QED
    BY <1>8, <1>9, <1>10, <1>11, <1>12 DEF StreamInv

LEMMA TradeSteps == ASSUME StreamInv, NEW s \in BarPairs, Stream!Trade(s) PROVE StreamInv'
<1> DEFINE m == Len(v7[s])
<1>0. PICK f : f = Stream!Tick(s, m, v7[s][m] + 1, FALSE)
    OBVIOUS
<1>1. v7 \in [BarPairs -> Seq(Nat)] /\ v7[s] \in Seq(Nat) /\ v7[s] # <<>>
    BY DEF StreamInv, StreamTyped
<1>2. m \in Nat /\ m \in 1 .. m /\ v7[s][m] \in Nat
    BY <1>1, EmptySeq, LenProperties, ElementOfSeq
<1>3. v7' = [v7 EXCEPT ![s] = [v7[s] EXCEPT ![m] = v7[s][m] + 1]] /\ Stream!Push(s, f)
      /\ UNCHANGED <<v1, v2, v3, v6, v8, v9, v10, v11>>
    BY <1>0 DEF Stream!Trade, Stream!Now
<1>4. /\ f \in Ticks /\ f.symbol = s /\ f.open = m /\ f.rev = v7[s][m] + 1 /\ f.closed = FALSE
    BY <1>0, <1>2 DEF Stream!Tick, Ticks
<1>5. /\ v7'[s] = [v7[s] EXCEPT ![m] = v7[s][m] + 1] /\ v7'[s] \in Seq(Nat) /\ Len(v7'[s]) = m
      /\ \A x \in BarPairs \ {s} : v7'[x] = v7[x]
    <2>1. v7'[s] = [v7[s] EXCEPT ![m] = v7[s][m] + 1]
        BY <1>1, <1>3
    <2> QED
        BY <1>1, <1>2, <1>3, <2>1, ExceptSeq
<1>6. v7'[s][m] = v7[s][m] + 1 /\ \A o \in 1 .. m : v7'[s][o] = v7[s][o] \/ o = m
    BY <1>1, <1>2, <1>5
<1>7. v7' \in [BarPairs -> Seq(Nat)]
    BY <1>1, <1>3, <1>5
<1>8. Advances(s, f)
    BY <1>2, <1>4, <1>5, <1>6, <1>7 DEF Advances, Present
<1>9. v7'[s] # <<>>
    BY <1>2, <1>5, EmptySeq
<1> QED
    BY <1>3, <1>8, <1>9, PushSteps

LEMMA MinuteSteps == ASSUME StreamInv, NEW s \in BarPairs, Stream!NextMinute(s) PROVE StreamInv'
<1> DEFINE m == Len(v7[s])
           n == IF v5 THEN 0 ELSE 1
<1>0. PICK f : f = IF v5 THEN Stream!Tick(s, m, v7[s][m], TRUE) ELSE Stream!Tick(s, m + 1, 1, FALSE)
    OBVIOUS
<1>1. v7 \in [BarPairs -> Seq(Nat)] /\ v7[s] \in Seq(Nat) /\ v7[s] # <<>>
    BY DEF StreamInv, StreamTyped
<1>2. m \in Nat /\ m \in 1 .. m /\ v7[s][m] \in Nat /\ n \in Nat
    BY <1>1, EmptySeq, LenProperties, ElementOfSeq
<1>3. v7' = [v7 EXCEPT ![s] = Append(v7[s], n)] /\ Stream!Push(s, f)
      /\ UNCHANGED <<v1, v2, v3, v6, v8, v9, v10, v11>>
    BY <1>0 DEF Stream!NextMinute, Stream!Now
<1>4. /\ v7'[s] = Append(v7[s], n) /\ v7'[s] \in Seq(Nat) /\ Len(v7'[s]) = m + 1 /\ v7'[s][m + 1] = n
      /\ \A o \in 1 .. m : v7'[s][o] = v7[s][o]
      /\ \A x \in BarPairs \ {s} : v7'[x] = v7[x]
    BY <1>1, <1>2, <1>3, AppendProperties
<1>5. v7' \in [BarPairs -> Seq(Nat)]
    BY <1>1, <1>3, <1>4
<1>6. v7'[s] # <<>>
    BY <1>2, <1>4, EmptySeq
<1>7. Advances(s, f)
    <2>1. CASE v5
        <3>1. /\ f \in Ticks /\ f.symbol = s /\ f.open = m /\ f.rev = v7[s][m]
            BY <1>0, <1>2, <2>1 DEF Stream!Tick, Ticks
        <3>2. Final(s, f)' /\ Present(s, f)'
            BY <1>2, <1>4, <3>1 DEF Final, Present
        <3> QED
            BY <1>2, <1>4, <1>5, <3>1, <3>2 DEF Advances
    <2>2. CASE ~v5
        <3>1. /\ f \in Ticks /\ f.symbol = s /\ f.open = m + 1 /\ f.rev = 1 /\ f.closed = FALSE /\ n = 1
            BY <1>0, <1>2, <2>2 DEF Stream!Tick, Ticks
        <3> HIDE DEF n
        <3>2. Present(s, f)'
            BY <1>2, <1>4, <3>1 DEF Present
        <3> QED
            BY <1>2, <1>4, <1>5, <3>1, <3>2 DEF Advances
    <2> QED
        BY <2>1, <2>2
<1> QED
    BY <1>3, <1>6, <1>7, PushSteps

\* A step stores no bar but one of a running stream's symbols that has ended.
Owned ==
    \A s \in BarPairs : \A b \in v11'[s] : b \in v11[s] \/ (v1 /\ s \in Stream!Have /\ b.open <= v8)

LEMMA StreamKept == StreamInv /\ Stream!Next => StreamInv' /\ Owned
<1> SUFFICES ASSUME StreamInv, Stream!Next PROVE StreamInv' /\ Owned
    OBVIOUS
<1>1. StreamTyped /\ ConnsHold(NoBars)
    BY DEF StreamInv, StreamPool, PoolInv
<1>2. v11' = v11 => Owned
    BY DEF Owned
<1>3. CASE Stream!Start
    <2>1. /\ ~v1 /\ v1' = TRUE /\ Stream!ResyncTo(v6) /\ v10' = Stream!Kept(v6)
          /\ UNCHANGED <<v6, v7, v8, v9, v11>>
        BY <1>3 DEF Stream!Start, Stream!StartPool
    <2>2. v6 \in SUBSET BarPairs /\ v6' \in SUBSET BarPairs
        BY <1>1, <2>1 DEF StreamTyped
    <2> QED
        BY <1>2, <2>1, <2>2, RosterSteps
<1>4. ASSUME NEW want \in SUBSET BarPairs, Stream!Resync(want) PROVE StreamInv' /\ Owned
    <2>1. /\ v1 /\ v1' = v1 /\ v6' = want /\ Stream!ResyncTo(want)
          /\ v10' = IF Stream!Same(want) THEN v10 ELSE Stream!Kept(want)
          /\ UNCHANGED <<v7, v8, v9, v11>>
        BY <1>4 DEF Stream!Resync
    <2>2. v1' = TRUE
        BY <2>1 DEF StreamInv, StreamPool, PoolInv, PoolTyped
    <2>3. v10' = IF v1 /\ Stream!Same(want) THEN v10 ELSE Stream!Kept(want)
        BY <2>1
    <2>4. StreamInv'
        BY <2>1, <2>2, <2>3, RosterSteps
    <2> QED
        BY <1>2, <2>1, <2>4
<1>5. CASE Stream!Stop
    BY <1>2, <1>5, StopSteps DEF Stream!Stop
<1>6. CASE Stream!Pool
    BY <1>2, <1>6, PoolSteps DEF Stream!Pool
<1>7. CASE Stream!FlushDeferred
    <2>1. v1
        BY <1>7 DEF Stream!FlushDeferred
    <2>2. StreamInv' /\ \A s \in BarPairs : \A b \in v11'[s] : b \in v11[s] \/ (b \in v10[s] /\ b.open <= v8)
        BY <1>7, FlushSteps
    <2>3. \A s \in BarPairs : v10[s] # {} => s \in Stream!Have
        BY DEF StreamInv
    <2> QED
        BY <2>1, <2>2, <2>3 DEF Owned
<1>8. CASE Stream!ClockTicks
    <2>1. UNCHANGED <<v1, v2, v3, v4, v6, v7, v9, v10, v11>> /\ v8' = v8 + 1
        BY <1>8 DEF Stream!ClockTicks, Stream!poolVars
    <2>2. v8' \in Nat /\ v9' \in Nat /\ v10' \in [BarPairs -> SUBSET Bars] /\ v11' \in [BarPairs -> SUBSET Bars]
        BY <1>1, <2>1 DEF StreamTyped
    <2> QED
        BY <1>2, <2>1, <2>2, QuietSteps
<1>9. ASSUME NEW k \in v4, Stream!Deliver(k) PROVE StreamInv' /\ Owned
    BY <1>9, DeliverSteps DEF Owned
<1>10. ASSUME NEW s \in BarPairs, Stream!Trade(s) PROVE StreamInv' /\ Owned
    BY <1>2, <1>10, TradeSteps DEF Stream!Trade
<1>11. ASSUME NEW s \in BarPairs, Stream!NextMinute(s) PROVE StreamInv' /\ Owned
    BY <1>2, <1>11, MinuteSteps DEF Stream!NextMinute
<1> QED
    BY <1>3, <1>4, <1>5, <1>6, <1>7, <1>8, <1>9, <1>10, <1>11 DEF Stream!Next

LEMMA StreamShown == StreamInv => Stream!StoredIsFinal
BY DEF StreamInv, Stream!StoredIsFinal, Stream!Now, Final, Present

LEMMA OwnedShown == Owned => Stream!WritesAreOwned
BY DEF Owned, Stream!WritesAreOwned

-----------------------------------------------------------------------------
LiqExtras == [acknowledged : BOOLEAN, refused : BOOLEAN]
LiqFrames == [event : Nat, told : LiqExtras]
LiqPool == PoolInv(LiqPerps, LiqExtras, LiqFrames, NoExtra)

LEMMA LiqCounts == \A S : Liq!Cardinality(S) = Cardinality(S)
BY Zenon DEF Liq!Cardinality, Cardinality

LEMMA LiqRetires ==
    ASSUME NEW All, NEW E, NEW c \in Conn(All, E), NEW g \in Nat
    PROVE  Liq!Reopened(c, g) = Retired(c, g + 1, NoExtra)
<1> DEFINE n == Liq!Reopened(c, g)
<1>1. n \in [items : {c.items}, gen : {g + 1}, sock : {0}, opened : {FALSE}, timer : {TRUE},
           connectTimer : {FALSE}, extra : {NoExtra}]
    BY DEF Liq!Reopened, Liq!NoSock, Conn
<1> HIDE DEF n
<1>2. n = [items |-> c.items, gen |-> g + 1, sock |-> 0, opened |-> FALSE, timer |-> TRUE,
           connectTimer |-> FALSE, extra |-> NoExtra]
    BY <1>1, ConnIs, Zenon
<1> QED
    BY <1>2, Zenon DEF n, Retired

LEMMA LiqConnects ==
    ASSUME NEW All, NEW E, NEW c \in Conn(All, E), NEW g \in Nat
    PROVE  Liq!Connecting(c, g) = Connected(c, g)
<1> DEFINE n == Liq!Connecting(c, g)
<1>1. n \in [items : {c.items}, gen : {g}, sock : {g}, opened : {FALSE}, timer : {FALSE},
           connectTimer : {TRUE}, extra : {c.extra}]
    BY DEF Liq!Connecting, Conn
<1> HIDE DEF n
<1>2. n = [items |-> c.items, gen |-> g, sock |-> g, opened |-> FALSE, timer |-> FALSE,
           connectTimer |-> TRUE, extra |-> c.extra]
    BY <1>1, ConnIs, Zenon
<1> QED
    BY <1>2, Zenon DEF n, Connected

LEMMA LiqOpens ==
    ASSUME NEW items, NEW c, c.items = items, c.extra = NoExtra, NEW r
    PROVE  Liq!Opened(Liq!NewConn(items), r) = IF r THEN Retired(c, 2, NoExtra) ELSE Connected(c, 1)
<1> DEFINE b == Liq!NewConn(items)
<1>1. b \in Conn(items, {NoExtra}) /\ b.gen = 0 /\ b.items = items /\ b.extra = NoExtra
    BY DEF Liq!NewConn, Liq!NoSock, Conn
<1> HIDE DEF b
<1>2. Liq!Opened(b, r) = IF r THEN Liq!Reopened(b, b.gen + 1) ELSE Liq!Connecting(b, b.gen + 1)
    BY Zenon DEF Liq!Opened
<1>3. b.gen + 1 = 1 /\ b.gen + 1 \in Nat /\ 1 + 1 = 2
    BY <1>1
<1>4. Liq!Reopened(b, 1) = Retired(b, 2, NoExtra) /\ Liq!Connecting(b, 1) = Connected(b, 1)
    BY <1>1, <1>3, LiqRetires, LiqConnects
<1>5. Retired(b, 2, NoExtra) = Retired(c, 2, NoExtra) /\ Connected(b, 1) = Connected(c, 1)
    BY <1>1, Zenon DEF Retired, Connected
<1> QED
    BY <1>2, <1>3, <1>4, <1>5, Zenon DEF b

LEMMA LiqPoolMoves ==
    ASSUME PoolTyped(LiqPerps, LiqExtras, LiqFrames), Liq!PoolSteps
    PROVE  PoolMoves(NoExtra)
<1>1. \A i \in DOMAIN v2 : v2[i] \in Conn(LiqPerps, LiqExtras)
    BY DEF PoolTyped
<1>2. ASSUME NEW i \in DOMAIN v2, NEW c, v2' = [v2 EXCEPT ![i] = c] PROVE Elsewhere(i) /\ v2'[i] = c
    BY <1>2 DEF Elsewhere
<1>3. ASSUME NEW i \in DOMAIN v2, NEW g \in Nat
      PROVE  Liq!Reopened(v2[i], g) = Retired(v2[i], g + 1, NoExtra)
    BY <1>1, LiqRetires
<1>4. ASSUME NEW i \in DOMAIN v2, Liq!ReopensConn(i)
      PROVE  Elsewhere(i) /\ v2'[i] = Retired(v2[i], v2[i].gen + 1, NoExtra)
    <2>1. v2' = [v2 EXCEPT ![i] = Liq!Reopened(v2[i], v2[i].gen)]
        BY <1>4 DEF Liq!ReopensConn
    <2>2. v2[i].gen \in Nat
        BY <1>1 DEF Conn
    <2> QED
        BY <1>2, <1>3, <2>1, <2>2
<1>5. ASSUME NEW s \in v4, Liq!SockOpens(s) PROVE PoolMoves(NoExtra)
    <2>1. CASE Liq!Current(s.conn, s.gen)
        <3> DEFINE i == s.conn
        <3>1. i \in DOMAIN v2 /\ v2[i].gen = s.gen /\ ~s.open
            BY <1>5, <2>1 DEF Liq!Current, Liq!SockOpens
        <3>2. /\ v2' = [v2 EXCEPT ![i].opened = TRUE, ![i].connectTimer = FALSE]
              /\ v4' = (v4 \ {s}) \cup {[s EXCEPT !.open = TRUE]} /\ v1' = v1 /\ v3' = v3
            BY <1>5, <2>1 DEF Liq!SockOpens
        <3>3. v2' = [v2 EXCEPT ![i] = [v2[i] EXCEPT !.opened = TRUE, !.connectTimer = FALSE]]
            BY <3>1, <3>2
        <3>4. Elsewhere(i) /\ v2'[i] = [v2[i] EXCEPT !.opened = TRUE, !.connectTimer = FALSE]
            BY <1>2, <3>1, <3>3
        <3> QED
            BY <3>1, <3>2, <3>4 DEF PoolMoves, OpensOne
    <2>2. CASE ~Liq!Current(s.conn, s.gen)
        BY <1>5, <2>2 DEF Liq!SockOpens, PoolMoves, DropsSome
    <2> QED
        BY <2>1, <2>2
<1>6. ASSUME NEW s \in v4, Liq!SockEnds(s) PROVE PoolMoves(NoExtra)
    <2>1. v4' = v4 \ {s} /\ {s} \in SUBSET v4 /\ v1' = v1 /\ v3' = v3
        BY <1>6 DEF Liq!SockEnds
    <2>2. CASE Liq!Current(s.conn, s.gen)
        <3>1. s.conn \in DOMAIN v2 /\ Liq!ReopensConn(s.conn)
            BY <1>6, <2>2 DEF Liq!SockEnds, Liq!Current
        <3> QED
            BY <1>4, <2>1, <3>1 DEF PoolMoves, RetiresOne
    <2>3. CASE ~Liq!Current(s.conn, s.gen)
        BY <1>6, <2>1, <2>3 DEF Liq!SockEnds, PoolMoves, DropsSome
    <2> QED
        BY <2>2, <2>3
<1>7. ASSUME NEW i \in DOMAIN v2, Liq!ConnectTimesOut(i) PROVE PoolMoves(NoExtra)
    <2>1. v4' = v4 \ {} /\ {} \in SUBSET v4 /\ v1' = v1 /\ v3' = v3 /\ Liq!ReopensConn(i)
        BY <1>7 DEF Liq!ConnectTimesOut
    <2> QED
        BY <1>4, <2>1 DEF PoolMoves, RetiresOne
<1>8. ASSUME NEW i \in DOMAIN v2, Liq!RetryFires(i) PROVE PoolMoves(NoExtra)
    <2>1. PICK refused \in BOOLEAN :
        /\ v2' = [v2 EXCEPT ![i] = Liq!Opened(v2[i], refused)]
        /\ v4' = IF refused THEN v4 ELSE v4 \cup {Liq!Socket(i, v2[i].gen + 1, v2[i].items)}
        BY <1>8 DEF Liq!RetryFires
    <2>2. v2[i].timer /\ v1' = v1 /\ v3' = v3 /\ v2[i].gen \in Nat
        BY <1>1, <1>8 DEF Liq!RetryFires, Conn
    <2>3. Elsewhere(i) /\ v2'[i] = Liq!Opened(v2[i], refused)
        BY <1>2, <2>1
    <2>4. CASE refused
        <3>1. v2'[i] = Retired(v2[i], v2[i].gen + 2, NoExtra)
            BY <1>3, <2>2, <2>3, <2>4 DEF Liq!Opened
        <3> QED
            BY <2>1, <2>2, <2>3, <2>4, <3>1 DEF PoolMoves, RetriesOne
    <2>5. CASE ~refused
        <3>1. v2'[i] = Connected(v2[i], v2[i].gen + 1)
            BY <1>1, <2>2, <2>3, <2>5, LiqConnects DEF Liq!Opened
        <3>2. Liq!Socket(i, v2[i].gen + 1, v2[i].items) = Plain(i, v2[i].gen + 1, v2[i].items)
            BY DEF Liq!Socket, Plain
        <3> QED
            BY <2>1, <2>2, <2>3, <2>5, <3>1, <3>2 DEF PoolMoves, RetriesOne
    <2> QED
        BY <2>4, <2>5
<1> QED
    BY <1>5, <1>6, <1>7, <1>8 DEF Liq!PoolSteps

LEMMA LiqResynced ==
    ASSUME PoolTyped(LiqPerps, LiqExtras, LiqFrames), NEW want \in SUBSET LiqPerps, Liq!ResyncTo(want)
    PROVE  \/ Liq!Same(want) /\ UNCHANGED <<v2, v3, v4>>
           \/ ~Liq!Same(want) /\ Replaces(want, Liq!SetToSeq(want), NoExtra)
<1> DEFINE f   == Liq!SetToSeq(want)
           ids == NewIds(want, f)
<1>1. CASE Liq!Same(want) /\ UNCHANGED <<v2, v3, v4>>
    BY <1>1
<1>2. ASSUME NEW refused, Liq!Resynced(want, refused) PROVE Replaces(want, f, NoExtra)
    <2>1. \A k : Liq!Slice(want, k) = Cut(f, want, k)
        BY LiqCounts DEF Liq!Slice, Cut
    <2>2. Liq!Slices(want) = Cuts(f, want)
        BY <2>1, LiqCounts DEF Liq!Slices, Cuts
    <2>3. v3 \in Nat /\ IsFiniteSet(want)
        BY PoolAssumption, FS_Subset DEF PoolTyped
    <2>4. Cuts(f, want) \subseteq Nat
        BY <2>3, FS_CardinalityType DEF Cuts
    <2>5. {v3 + 1 + k : k \in Liq!Slices(want)} = ids
        BY <2>2 DEF NewIds, NewId
    <2> HIDE DEF ids, f
    <2>6. /\ refused \subseteq ids
          /\ v3' = v3 + Cardinality(ids)
          /\ v2' = [i \in ids |-> Liq!Opened(Liq!NewConn(Cut(f, want, i - v3 - 1)), i \in refused)]
          /\ v4' = v4 \cup {Liq!Socket(i, 1, Cut(f, want, i - v3 - 1)) : i \in ids \ refused}
        BY <1>2, <2>1, <2>5, LiqCounts DEF Liq!Resynced
    <2>7. ASSUME NEW k \in Cuts(f, want)
          PROVE  NewId(k) \in ids /\ NewId(k) - v3 - 1 = k
        BY <2>3, <2>4 DEF ids, NewIds, NewId
    <2>8. ASSUME NEW k \in Cuts(f, want)
          PROVE  LET c == [items |-> Cut(f, want, k), extra |-> NoExtra]
                 IN  /\ v2'[NewId(k)] = IF NewId(k) \in refused THEN Retired(c, 2, NoExtra) ELSE Connected(c, 1)
                     /\ v2'[NewId(k)].items = Cut(f, want, k)
        <3> DEFINE c == [items |-> Cut(f, want, k), extra |-> NoExtra]
        <3>1. v2'[NewId(k)] = Liq!Opened(Liq!NewConn(Cut(f, want, k)), NewId(k) \in refused)
            BY <2>6, <2>7
        <3>2. c.items = Cut(f, want, k) /\ c.extra = NoExtra
            OBVIOUS
        <3> HIDE DEF c
        <3>3. \A r : Liq!Opened(Liq!NewConn(Cut(f, want, k)), r) =
                        IF r THEN Retired(c, 2, NoExtra) ELSE Connected(c, 1)
            BY <3>2, LiqOpens, Zenon
        <3>4. v2'[NewId(k)] = IF NewId(k) \in refused THEN Retired(c, 2, NoExtra) ELSE Connected(c, 1)
            BY <3>1, <3>3, Zenon
        <3>5. v2'[NewId(k)].items = Cut(f, want, k)
            BY <3>2, <3>4 DEF Retired, Connected
        <3> QED
            BY <3>4, <3>5 DEF c
    <2>9. \A i \in ids : v2'[i].items = Cut(f, want, i - v3 - 1)
        BY <2>7, <2>8 DEF ids, NewIds
    <2>10. v4' = v4 \cup {Plain(i, 1, v2'[i].items) : i \in ids \ refused}
        BY <2>6, <2>9 DEF Liq!Socket, Plain
    <2>11. DOMAIN v2' = ids
        BY <2>6
    <2> QED
        BY <2>6, <2>8, <2>10, <2>11 DEF Replaces, ids
<1> QED
    BY <1>1, <1>2 DEF Liq!ResyncTo

\* A liquidation is on its way to one heeded socket at most, once, and no longer
\* when it was counted.
Once(k, m, l, n) ==
    k.queue[m].event = l.queue[n].event => k.queue[m].event = 0 \/ (k = l /\ m = n)

LiqHeard ==
    /\ \A e \in 1 .. MaxEvents : v11[e] <= 1 /\ (v11[e] = 1 => e <= v10)
    /\ \A k \in v4 : Hears(k) => \A n \in 1 .. Len(k.queue) :
          /\ k.queue[n].event <= v10
          /\ \A e \in 1 .. MaxEvents : v11[e] = 1 => k.queue[n].event # e
    /\ \A k, l \in v4 : Hears(k) /\ Hears(l) =>
          \A m \in 1 .. Len(k.queue), n \in 1 .. Len(l.queue) : Once(k, m, l, n)

\* The counters, the note kept of the answers and the roster the pool has: what is
\* noted is what stands, and a running pool carries the roster it was given last.
LiqCounted == v10 \in Nat /\ v11 \in [1 .. MaxEvents -> Nat]
LiqNoted ==
    /\ v9.acknowledged = Liq!Perps(v2, "acknowledged")
    /\ v9.refused = Liq!Perps(v2, "refused")
LiqFollows == v1 => v5 = Liq!Have

LiqInv ==
    /\ LiqPool /\ v5 \in SUBSET LiqPerps /\ LiqFollows
    /\ LiqCounted /\ LiqNoted /\ LiqHeard

LEMMA PerpsSame ==
    ASSUME NEW a, NEW b, NEW f, DOMAIN a = DOMAIN b,
           \A i \in DOMAIN a : a[i].items = b[i].items /\ a[i].extra = b[i].extra
    PROVE  Liq!Perps(a, f) = Liq!Perps(b, f)
<1>1. {i \in DOMAIN a : a[i].extra[f]} = {i \in DOMAIN b : b[i].extra[f]}
    OBVIOUS
<1>2. {a[i].items : i \in {j \in DOMAIN a : a[j].extra[f]}} = {b[i].items : i \in {j \in DOMAIN b : b[j].extra[f]}}
    BY <1>1
<1> QED
    BY <1>2, Zenon DEF Liq!Perps

LEMMA NotedIs ==
    ASSUME NEW cs, NEW want, v9' = Liq!Note(cs, want)
    PROVE  v9'.acknowledged = Liq!Perps(cs, "acknowledged") /\ v9'.refused = Liq!Perps(cs, "refused")
BY DEF Liq!Note

LEMMA LiqStart == Liq!Init => LiqInv
<1> SUFFICES ASSUME Liq!Init PROVE LiqInv
    OBVIOUS
<1>1. v1 = FALSE /\ v2 = <<>> /\ v3 = 0 /\ v4 = {} /\ DOMAIN v2 = {} /\ v5 = {}
    BY DEF Liq!Init, Liq!PoolInit
<1>2. LiqPool
    BY <1>1 DEF LiqPool, PoolInv, PoolTyped, ConnsHold, SocksHold
<1>3. LiqCounted /\ v10 = 0 /\ \A e \in 1 .. MaxEvents : v11[e] = 0
    BY DEF Liq!Init, LiqCounted
<1>4. LiqHeard
    BY <1>1, <1>3 DEF LiqHeard
<1>5. \A f : Liq!Perps(v2, f) = 0
    <2>1. \A f : UNION {v2[i].items : i \in {j \in DOMAIN v2 : v2[j].extra[f]}} = {}
        BY <1>1
    <2>2. Liq!Cardinality({}) = 0
        BY LiqCounts, FS_EmptySet
    <2> QED
        BY <2>1, <2>2 DEF Liq!Perps
<1>6. LiqNoted
    BY <1>5 DEF Liq!Init, LiqNoted
<1> QED
    BY <1>1, <1>2, <1>3, <1>4, <1>6 DEF LiqInv, LiqFollows

\* Nobody hears anything new.
LEMMA LiqHeardStays ==
    ASSUME LiqHeard, UNCHANGED <<v10, v11>>,
           \A k \in v4' : Hears(k)' => (k \in v4 /\ Hears(k)) \/ k.queue = <<>>
    PROVE  LiqHeard'
<1>1. \A k \in v4' : Hears(k)' => (k \in v4 /\ Hears(k)) \/ Len(k.queue) = 0
    BY EmptySeq
<1> QED
    BY <1>1 DEF LiqHeard, Once

LEMMA LiqPoolSteps == ASSUME LiqInv, Liq!Pool PROVE LiqInv'
<1>1. PoolMoves(NoExtra) /\ UNCHANGED <<v1, v3, v5, v10, v11>>
    BY LiqPoolMoves DEF Liq!Pool, LiqInv, LiqPool, PoolInv, PoolMoves
<1>2. NoExtra \in LiqExtras
    BY DEF NoExtra, LiqExtras
<1>3. LiqPool'
    BY <1>1, <1>2, PoolMovesKept DEF LiqInv, LiqPool
<1>4. /\ \A i \in DOMAIN v2 : v2[i] \in Conn(LiqPerps, LiqExtras)
      /\ PoolInv(LiqPerps, LiqExtras, LiqFrames, NoExtra)
    BY DEF LiqInv, LiqPool, PoolInv, PoolTyped
<1>5. LiqHeard'
    <2>1. \A k \in v4' : Hears(k)' => (k \in v4 /\ Hears(k)) \/ k.queue = <<>>
        BY <1>1, <1>2, <1>4, HearsKept
    <2> QED
        BY <1>1, <2>1, LiqHeardStays DEF LiqInv
<1>6. v9' = IF v2' = v2 \/ \E i \in DOMAIN v2 : v2'[i].opened /\ ~v2[i].opened
            THEN v9 ELSE Liq!Note(v2', v5)
    BY DEF Liq!Pool
<1>7. /\ DOMAIN v2' = DOMAIN v2
      /\ \A i \in DOMAIN v2 : v2'[i].items = v2[i].items
      /\ \/ \A i \in DOMAIN v2 : v2'[i].extra = v2[i].extra
         \/ ~\E i \in DOMAIN v2 : v2'[i].opened /\ ~v2[i].opened
    <2>1. CASE OpensOne
        <3>1. PICK k \in v4 : /\ k.conn \in DOMAIN v2 /\ Elsewhere(k.conn)
                              /\ v2'[k.conn] = [v2[k.conn] EXCEPT !.opened = TRUE, !.connectTimer = FALSE]
            BY <2>1 DEF OpensOne
        <3>2. v2'[k.conn].items = v2[k.conn].items /\ v2'[k.conn].extra = v2[k.conn].extra
            BY <1>4, <3>1 DEF Conn
        <3> QED
            BY <3>1, <3>2 DEF Elsewhere
    <2>2. CASE DropsSome
        BY <2>2 DEF DropsSome
    <2>3. CASE RetiresOne(NoExtra)
        BY <2>3 DEF RetiresOne, Retired, Elsewhere
    <2>4. CASE RetriesOne(NoExtra)
        BY <2>4 DEF RetriesOne, Retired, Connected, Elsewhere
    <2> QED
        BY <1>1, <2>1, <2>2, <2>3, <2>4 DEF PoolMoves
<1>8. LiqNoted'
    <2>1. CASE \A i \in DOMAIN v2 : v2'[i].extra = v2[i].extra
        <3>1. \A f : Liq!Perps(v2', f) = Liq!Perps(v2, f)
            BY <1>7, <2>1, PerpsSame
        <3>2. CASE v9' = v9
            BY <3>1, <3>2 DEF LiqInv, LiqNoted
        <3>3. CASE v9' = Liq!Note(v2', v5)
            BY <3>3, NotedIs DEF LiqNoted
        <3> QED
            BY <1>6, <3>2, <3>3
    <2>2. CASE ~\E i \in DOMAIN v2 : v2'[i].opened /\ ~v2[i].opened
        <3>1. CASE v2' = v2
            BY <1>6, <3>1 DEF LiqInv, LiqNoted
        <3>2. CASE v2' # v2
            <4>1. v9' = Liq!Note(v2', v5)
                BY <1>6, <2>2, <3>2
            <4> QED
                BY <4>1, NotedIs DEF LiqNoted
        <3> QED
            BY <3>1, <3>2
    <2> QED
        BY <1>7, <2>1, <2>2
<1>9. LiqFollows'
    BY <1>1, <1>7 DEF LiqInv, LiqFollows, Liq!Have
<1> QED
    BY <1>1, <1>3, <1>5, <1>8, <1>9 DEF LiqInv, LiqCounted

LEMMA LiqFollowed ==
    ASSUME LiqInv, NEW want \in SUBSET LiqPerps, Liq!ResyncTo(want), v1' = TRUE, v5' = want,
           UNCHANGED <<v10, v11>>
    PROVE  /\ LiqPool' /\ LiqHeard' /\ LiqFollows'
           /\ (Liq!Same(want) /\ v2' = v2) \/ (want = {} => DOMAIN v2' = {})
<1>1. PoolTyped(LiqPerps, LiqExtras, LiqFrames) /\ SocksHold /\ ConnsHold(NoExtra)
    BY DEF LiqInv, LiqPool, PoolInv
<1>2. NoExtra \in LiqExtras
    BY DEF NoExtra, LiqExtras
<1>3. CASE Liq!Same(want) /\ UNCHANGED <<v2, v3, v4>>
    <2>1. v1
        BY <1>1, <1>3 DEF Liq!Same, ConnsHold, PoolTyped
    <2>2. v1' = v1
        BY <1>1, <2>1 DEF PoolTyped
    <2>3. LiqPool'
        BY <1>1, <1>3, <2>2 DEF LiqPool, PoolInv, PoolTyped, ConnsHold, SocksHold
    <2>4. LiqHeard'
        BY <1>3, LiqHeardStays DEF LiqInv, Hears
    <2>5. LiqFollows'
        BY <1>3 DEF LiqFollows, Liq!Same, Liq!Have
    <2> QED
        BY <1>3, <2>3, <2>4, <2>5
<1>4. CASE ~Liq!Same(want) /\ Replaces(want, Liq!SetToSeq(want), NoExtra)
    <2> DEFINE f == Liq!SetToSeq(want)
    <2>1. IsFiniteSet(want)
        BY PoolAssumption, FS_Subset
    <2>2. f \in [1 .. Cardinality(want) -> want] /\ IsInjective(f)
        BY <2>1, Enumerable, LiqCounts DEF Liq!SetToSeq, Liq!IsInjective, IsInjective
    <2> HIDE DEF f
    <2>3. Replaces(want, f, NoExtra)
        BY <1>4 DEF f
    <2>4. LiqPool' /\ \A s : s \in want <=> \E i \in DOMAIN v2' : s \in v2'[i].items
        BY <1>1, <1>2, <2>1, <2>2, <2>3, PoolReplacedKept DEF LiqPool
    <2>5. \A k \in v4' : ~Hears(k)'
        BY <1>1, <2>1, <2>2, <2>3, NobodyHears
    <2>6. LiqHeard'
        BY <2>5, LiqHeardStays DEF LiqInv
    <2>7. LiqFollows'
        <3>1. Liq!Have' = UNION {v2'[i].items : i \in DOMAIN v2'}
            BY DEF Liq!Have
        <3>2. want = UNION {v2'[i].items : i \in DOMAIN v2'}
            BY <2>4
        <3> QED
            BY <3>1, <3>2 DEF LiqFollows
    <2>8. want = {} => DOMAIN v2' = {}
        <3> SUFFICES ASSUME want = {} PROVE DOMAIN v2' = {}
            OBVIOUS
        <3>1. Cardinality(want) = 0
            BY FS_EmptySet
        <3>2. Cuts(f, want) = {}
            BY <3>1 DEF Cuts, Cut
        <3> QED
            BY <2>3, <3>2 DEF Replaces, NewIds
    <2> QED
        BY <2>4, <2>6, <2>7, <2>8
<1> QED
    BY <1>1, <1>3, <1>4, LiqResynced

LEMMA LiqStartSteps == ASSUME LiqInv, Liq!Start PROVE LiqInv'
<1>1. /\ ~v1 /\ v1' = TRUE /\ v5' = {} /\ Liq!ResyncTo({}) /\ UNCHANGED <<v9, v10, v11>>
    BY DEF Liq!Start, Liq!StartPool
<1>2. DOMAIN v2 = {}
    BY <1>1 DEF LiqInv, LiqPool, PoolInv, ConnsHold
<1>3. LiqPool' /\ LiqHeard' /\ LiqFollows' /\ DOMAIN v2' = {}
    BY <1>1, <1>2, LiqFollowed DEF Liq!Same
<1>4. \A f : Liq!Perps(v2', f) = Liq!Perps(v2, f)
    BY <1>2, <1>3, PerpsSame
<1>5. LiqNoted'
    BY <1>1, <1>4 DEF LiqInv, LiqNoted
<1> QED
    BY <1>1, <1>3, <1>5 DEF LiqInv, LiqCounted

LEMMA LiqStopSteps == ASSUME LiqInv, Liq!Stop PROVE LiqInv'
<1>1. /\ v1' = FALSE /\ v2' = <<>> /\ DOMAIN v2' = {} /\ UNCHANGED <<v3, v4, v5, v10, v11>>
      /\ v9' = Liq!Note(v2', v5)
    BY DEF Liq!Stop, Liq!StopPool
<1>2. LiqPool'
    BY <1>1 DEF LiqInv, LiqPool, PoolInv, PoolTyped, ConnsHold, SocksHold
<1>3. \A k \in v4' : ~Hears(k)'
    BY <1>1 DEF Hears
<1>4. LiqHeard'
    BY <1>1, <1>3, LiqHeardStays DEF LiqInv
<1>5. LiqNoted'
    BY <1>1, NotedIs DEF LiqNoted
<1>6. LiqFollows'
    BY <1>1 DEF LiqFollows
<1> QED
    BY <1>1, <1>2, <1>4, <1>5, <1>6 DEF LiqInv, LiqCounted

\* Steps that leave all of it alone.
LEMMA LiqQuietSteps ==
    ASSUME LiqInv, UNCHANGED <<v1, v2, v3, v4, v5, v9, v10, v11>>
    PROVE  LiqInv'
<1>1. LiqPool'
    BY DEF LiqInv, LiqPool, PoolInv, PoolTyped, ConnsHold, SocksHold
<1>2. LiqHeard'
    BY LiqHeardStays DEF LiqInv, Hears
<1>3. LiqNoted' /\ LiqFollows' /\ LiqCounted'
    BY DEF LiqInv, LiqNoted, LiqFollows, LiqCounted, Liq!Have
<1> QED
    BY <1>1, <1>2, <1>3 DEF LiqInv

LEMMA LiqLoadedSteps ==
    ASSUME LiqInv, NEW run, NEW perps \in SUBSET LiqPerps, Liq!Loaded(run, perps)
    PROVE  LiqInv'
<1>1. CASE Liq!Alive(run)
    <2>1. /\ v5' = perps /\ Liq!ResyncTo(perps) /\ v9' = Liq!Note(v2', perps)
          /\ v1 /\ UNCHANGED <<v1, v10, v11>>
        BY <1>1 DEF Liq!Loaded, Liq!Alive
    <2>2. v1' = TRUE
        BY <2>1 DEF LiqInv, LiqPool, PoolInv, PoolTyped
    <2>3. LiqPool' /\ LiqHeard' /\ LiqFollows'
        BY <2>1, <2>2, LiqFollowed
    <2>4. LiqNoted'
        BY <2>1, NotedIs DEF LiqNoted
    <2> QED
        BY <2>1, <2>3, <2>4 DEF LiqInv, LiqCounted
<1>2. CASE ~Liq!Alive(run)
    BY <1>2, LiqQuietSteps DEF Liq!Loaded
<1> QED
    BY <1>1, <1>2

\* The queues change to `q`.
LEMMA LiqQueued ==
    ASSUME v4 \subseteq Sock(LiqPerps, LiqFrames), NEW q \in [v4 -> Seq(LiqFrames)],
           v4' = {[k EXCEPT !.queue = q[k]] : k \in v4}, DOMAIN v2' = DOMAIN v2,
           \A i \in DOMAIN v2 : v2'[i].gen = v2[i].gen,
           \A e \in 1 .. MaxEvents : v11'[e] <= 1 /\ (v11'[e] = 1 => e <= v10'),
           \A k \in v4 : Hears(k) => \A n \in 1 .. Len(q[k]) :
               /\ q[k][n].event <= v10'
               /\ \A e \in 1 .. MaxEvents : v11'[e] = 1 => q[k][n].event # e,
           \A k, l \in v4 : Hears(k) /\ Hears(l) =>
               \A m \in 1 .. Len(q[k]), n \in 1 .. Len(q[l]) :
                   q[k][m].event = q[l][n].event => q[k][m].event = 0 \/ (k = l /\ m = n)
    PROVE  LiqHeard'
<1>1. ASSUME NEW l \in v4', Hears(l)'
      PROVE  \E k \in v4 : l = [k EXCEPT !.queue = q[k]] /\ Hears(k) /\ l.queue = q[k]
    <2>1. PICK k \in v4 : l = [k EXCEPT !.queue = q[k]]
        OBVIOUS
    <2>2. l.conn = k.conn /\ l.gen = k.gen /\ l.open = k.open /\ l.queue = q[k]
        BY <2>1 DEF Sock
    <2>3. Hears(k)
        BY <1>1, <2>2 DEF Hears
    <2> QED
        BY <2>1, <2>2, <2>3
<1>2. ASSUME NEW l \in v4', Hears(l)', NEW n \in 1 .. Len(l.queue)
      PROVE  /\ l.queue[n].event <= v10'
             /\ \A e \in 1 .. MaxEvents : v11'[e] = 1 => l.queue[n].event # e
    BY <1>1, <1>2
<1>3. ASSUME NEW k \in v4', NEW l \in v4', Hears(k)', Hears(l)',
             NEW m \in 1 .. Len(k.queue), NEW n \in 1 .. Len(l.queue)
      PROVE  Once(k, m, l, n)
    <2>1. PICK a \in v4 : k = [a EXCEPT !.queue = q[a]] /\ Hears(a) /\ k.queue = q[a]
        BY <1>1, <1>3
    <2>2. PICK b \in v4 : l = [b EXCEPT !.queue = q[b]] /\ Hears(b) /\ l.queue = q[b]
        BY <1>1, <1>3
    <2>3. q[a][m].event = q[b][n].event => q[a][m].event = 0 \/ (a = b /\ m = n)
        BY <2>1, <2>2
    <2>4. a = b => k = l
        BY <2>1, <2>2
    <2> QED
        BY <2>1, <2>2, <2>3, <2>4 DEF Once
<1> QED
    BY <1>2, <1>3 DEF LiqHeard, Once

LEMMA LiqDeliverSteps == ASSUME LiqInv, NEW k \in v4, Liq!Deliver(k) PROVE LiqInv'
<1> DEFINE i == k.conn
           t == Head(k.queue)
           r == Tail(k.queue)
           n == [k EXCEPT !.queue = r]
           q == [l \in v4 |-> IF l = k THEN r ELSE l.queue]
<1>1. /\ PoolTyped(LiqPerps, LiqExtras, LiqFrames) /\ SocksHold /\ ConnsHold(NoExtra)
      /\ PoolInv(LiqPerps, LiqExtras, LiqFrames, NoExtra)
    BY DEF LiqInv, LiqPool, PoolInv
<1>2. /\ k \in Sock(LiqPerps, LiqFrames) /\ v4 \subseteq Sock(LiqPerps, LiqFrames)
      /\ \A j \in DOMAIN v2 : v2[j] \in Conn(LiqPerps, LiqExtras)
    BY <1>1 DEF PoolTyped
<1>3. k.queue # <<>> /\ v4' = (v4 \ {k}) \cup {n} /\ UNCHANGED <<v1, v3, v5, v10>>
    BY DEF Liq!Deliver, Liq!Receive
<1>4. k.queue \in Seq(LiqFrames) /\ t \in LiqFrames /\ r \in Seq(LiqFrames)
    <2>1. k.queue \in Seq(LiqFrames)
        BY <1>2 DEF Sock
    <2> QED
        BY <1>3, <2>1, HeadTailProperties
<1>5. /\ Len(r) + 1 = Len(k.queue) /\ Len(r) \in Nat /\ k.queue[1] = t
      /\ \A m \in 1 .. Len(r) : r[m] = k.queue[m + 1]
    BY <1>2, <1>3 DEF Sock
<1>6. k.open
    BY <1>1, <1>3 DEF SocksHold
<1>7. q \in [v4 -> Seq(LiqFrames)] /\ v4' = {[l EXCEPT !.queue = q[l]] : l \in v4}
    BY <1>2, <1>3, <1>4, OneQueueChanges
<1>8. \A l \in v4 : ~l.open => q[l] = <<>>
    BY <1>1, <1>6 DEF SocksHold
<1>9. q[k] = r /\ \A l \in v4 : l # k => q[l] = l.queue
    OBVIOUS
<1> HIDE DEF n, q, t, r
<1>10. NoExtra \in LiqExtras
    BY DEF NoExtra, LiqExtras
<1>11. \A l \in v4 : l.queue \in Seq(LiqFrames) /\ Len(l.queue) \in Nat
    BY <1>2 DEF Sock
<1>12. \A l \in v4 : \A m \in 1 .. Len(q[l]) :
          \E o \in 1 .. Len(l.queue) : /\ q[l][m] = l.queue[o]
                                       /\ o = IF l = k THEN m + 1 ELSE m
    BY <1>5, <1>9, <1>11
<1>13. \A a, b \in v4 : Hears(a) /\ Hears(b) =>
          \A m \in 1 .. Len(q[a]), o \in 1 .. Len(q[b]) :
              q[a][m].event = q[b][o].event => q[a][m].event = 0 \/ (a = b /\ m = o)
    <2> SUFFICES ASSUME NEW a \in v4, NEW b \in v4, Hears(a), Hears(b),
                        NEW m \in 1 .. Len(q[a]), NEW o \in 1 .. Len(q[b]),
                        q[a][m].event = q[b][o].event, q[a][m].event # 0
                 PROVE  a = b /\ m = o
        OBVIOUS
    <2>1. PICK x \in 1 .. Len(a.queue) : q[a][m] = a.queue[x] /\ x = IF a = k THEN m + 1 ELSE m
        BY <1>12
    <2>2. PICK y \in 1 .. Len(b.queue) : q[b][o] = b.queue[y] /\ y = IF b = k THEN o + 1 ELSE o
        BY <1>12
    <2>3. a = b /\ x = y
        BY <2>1, <2>2 DEF LiqInv, LiqHeard, Once
    <2>4. m \in Nat /\ o \in Nat
        BY <1>4, <1>9, <1>11
    <2> QED
        BY <2>1, <2>2, <2>3, <2>4
<1>14. CASE \/ ~Liq!Current(i, k.gen)
            \/ t.event = 0
    <2>1. v11' = v11
        BY <1>14 DEF Liq!Deliver, Liq!Receive, Liq!Handle, Liq!NoEvent, t
    <2>2. /\ DOMAIN v2' = DOMAIN v2
          /\ \A j \in DOMAIN v2 : \/ v2'[j] = v2[j]
                                  \/ v2[j].opened /\ \E e \in LiqExtras : v2'[j] = [v2[j] EXCEPT !.extra = e]
          /\ (v2' = v2 /\ v9' = v9) \/ v9' = Liq!Note(v2', v5)
        <3>1. CASE ~Liq!Current(i, k.gen)
            BY <3>1 DEF Liq!Deliver, Liq!Receive
        <3>2. CASE Liq!Current(i, k.gen) /\ t.event = 0
            <4>1. /\ i \in DOMAIN v2 /\ v2[i].gen = k.gen
                  /\ v2' = [v2 EXCEPT ![i].extra = t.told] /\ v9' = Liq!Note(v2', v5)
                BY <3>2 DEF Liq!Current, Liq!Deliver, Liq!Receive, Liq!Handle, Liq!NoEvent, t
            <4>2. k.open = v2[i].opened
                BY <1>1, <4>1 DEF SocksHold
            <4>3. v2[i].opened
                BY <1>6, <4>2, Zenon
            <4>4. t.told \in LiqExtras
                BY <1>4 DEF LiqFrames
            <4> QED
                BY <4>1, <4>3, <4>4
        <3> QED
            BY <1>14, <3>1, <3>2
    <2>3. LiqPool'
        BY <1>1, <1>3, <1>7, <1>8, <1>10, <2>2, PoolHeardKept DEF LiqPool
    <2>4. \A j \in DOMAIN v2 : v2'[j].items = v2[j].items /\ v2'[j].gen = v2[j].gen
        BY <1>2, <2>2 DEF Conn
    <2>5. LiqNoted'
        BY <2>2, NotedIs DEF LiqInv, LiqNoted
    <2>6. LiqFollows'
        BY <1>3, <2>2, <2>4 DEF LiqInv, LiqFollows, Liq!Have
    <2>7. \A l \in v4 : Hears(l) => \A m \in 1 .. Len(q[l]) :
             /\ q[l][m].event <= v10'
             /\ \A e \in 1 .. MaxEvents : v11'[e] = 1 => q[l][m].event # e
        BY <1>3, <1>12, <2>1 DEF LiqInv, LiqHeard
    <2>8. \A e \in 1 .. MaxEvents : v11'[e] <= 1 /\ (v11'[e] = 1 => e <= v10')
        BY <1>3, <2>1 DEF LiqInv, LiqHeard
    <2>9. LiqHeard'
        BY <1>2, <1>7, <1>13, <2>2, <2>4, <2>7, <2>8, LiqQueued
    <2> QED
        BY <1>3, <2>1, <2>3, <2>5, <2>6, <2>9 DEF LiqInv, LiqCounted
<1>15. CASE Liq!Current(i, k.gen) /\ t.event # 0
    <2> DEFINE x == t.event
    <2>1. /\ v11' = [v11 EXCEPT ![x] = v11[x] + 1] /\ v2' = v2 /\ v9' = v9
          /\ i \in DOMAIN v2 /\ v2[i].gen = k.gen
        BY <1>15 DEF Liq!Current, Liq!Deliver, Liq!Receive, Liq!Handle, Liq!NoEvent, t
    <2>2. Hears(k)
        BY <1>6, <2>1 DEF Hears
    <2>3. LiqPool'
        BY <1>1, <1>3, <1>7, <1>8, <1>10, <2>1, PoolHeardKept DEF LiqPool
    <2>4. LiqNoted' /\ LiqFollows'
        BY <1>3, <2>1 DEF LiqInv, LiqNoted, LiqFollows, Liq!Have
    <2>5. v11 \in [1 .. MaxEvents -> Nat] /\ v10 \in Nat /\ x \in Nat
        BY <1>4 DEF LiqInv, LiqCounted, LiqFrames
    <2>6. 1 \in 1 .. Len(k.queue) /\ k.queue[1].event = x
        BY <1>5
    <2>7. x <= v10 /\ \A e \in 1 .. MaxEvents : v11[e] = 1 => x # e
        BY <2>2, <2>6 DEF LiqInv, LiqHeard
    <2>8. x \in 1 .. MaxEvents => v11[x] = 0
        <3>1. \A e \in 1 .. MaxEvents : v11[e] <= 1 /\ v11[e] \in Nat
            BY <2>5 DEF LiqInv, LiqHeard
        <3> HIDE DEF x
        <3> QED
            BY <2>7, <3>1
    <2>9. /\ v11' \in [1 .. MaxEvents -> Nat]
          /\ \A e \in 1 .. MaxEvents : v11'[e] = IF e = x THEN 1 ELSE v11[e]
        <3> HIDE DEF x
        <3>1. CASE x \in 1 .. MaxEvents
            BY <2>1, <2>5, <2>8, <3>1
        <3>2. CASE x \notin 1 .. MaxEvents
            <4>1. v11' = v11
                BY <2>1, <2>5, <3>2
            <4> QED
                BY <2>5, <3>2, <4>1
        <3> QED
            BY <3>1, <3>2
    <2>10. \A e \in 1 .. MaxEvents : v11'[e] <= 1 /\ (v11'[e] = 1 => e <= v10')
        BY <1>3, <2>7, <2>9 DEF LiqInv, LiqHeard
    <2>11. ASSUME NEW l \in v4, Hears(l), NEW m \in 1 .. Len(q[l])
           PROVE  q[l][m].event <= v10' /\ q[l][m].event # x
        <3>1. PICK o \in 1 .. Len(l.queue) : q[l][m] = l.queue[o] /\ o = IF l = k THEN m + 1 ELSE m
            BY <1>12
        <3>2. m \in Nat /\ m # 0
            BY <1>4, <1>9, <1>11
        <3>3. ~(l = k /\ o = 1)
            BY <3>1, <3>2
        <3>4. Once(k, 1, l, o) /\ l.queue[o].event <= v10
            BY <2>2, <2>6, <2>11 DEF LiqInv, LiqHeard
        <3> QED
            BY <1>3, <1>15, <2>6, <3>1, <3>3, <3>4 DEF Once
    <2>12. \A l \in v4 : Hears(l) => \A m \in 1 .. Len(q[l]) :
             /\ q[l][m].event <= v10'
             /\ \A e \in 1 .. MaxEvents : v11'[e] = 1 => q[l][m].event # e
        <3> SUFFICES ASSUME NEW l \in v4, Hears(l), NEW m \in 1 .. Len(q[l]), NEW e \in 1 .. MaxEvents
                     PROVE  q[l][m].event <= v10' /\ (v11'[e] = 1 => q[l][m].event # e)
            BY <2>11
        <3>1. v11[e] = 1 => q[l][m].event # e
            <4>1. PICK o \in 1 .. Len(l.queue) : q[l][m] = l.queue[o]
                BY <1>12
            <4> QED
                BY <4>1 DEF LiqInv, LiqHeard
        <3> QED
            BY <2>9, <2>11, <3>1
    <2>13. LiqHeard'
        BY <1>2, <1>7, <1>13, <2>1, <2>10, <2>12, LiqQueued
    <2> QED
        BY <1>3, <2>3, <2>4, <2>5, <2>9, <2>13 DEF LiqInv, LiqCounted
<1> QED
    BY <1>14, <1>15

LEMMA PastEnd ==
    ASSUME NEW a \in Nat, NEW b, b = a \/ b = a + 1, NEW m \in 1 .. b, m \notin 1 .. a
    PROVE  b = a + 1 /\ m = a + 1
OBVIOUS

\* The venue sends: queues of open sockets grow.
LEMMA LiqSentKept ==
    ASSUME LiqInv, NEW q \in [v4 -> Seq(LiqFrames)], \A k \in v4 : ~k.open => q[k] = k.queue,
           v4' = {[k EXCEPT !.queue = q[k]] : k \in v4}, UNCHANGED <<v1, v2, v3, v5, v9, v11>>,
           v10' \in Nat, v10 <= v10',
           NEW g \in Nat, g = 0 \/ g = v10 + 1, g <= v10',
           \A k \in v4 : Len(q[k]) = Len(k.queue) \/ Len(q[k]) = Len(k.queue) + 1,
           \A k \in v4 : \A n \in 1 .. Len(q[k]) :
              IF n \in 1 .. Len(k.queue) THEN q[k][n] = k.queue[n] ELSE q[k][n].event = g,
           \A k, l \in v4 : Hears(k) /\ Hears(l) /\ k # l /\ g # 0 => q[k] = k.queue \/ q[l] = l.queue
    PROVE  LiqInv'
<1>1. /\ PoolTyped(LiqPerps, LiqExtras, LiqFrames) /\ SocksHold /\ ConnsHold(NoExtra)
      /\ PoolInv(LiqPerps, LiqExtras, LiqFrames, NoExtra)
    BY DEF LiqInv, LiqPool, PoolInv
<1>2. /\ v4 \subseteq Sock(LiqPerps, LiqFrames) /\ \A k \in v4 : k.queue \in Seq(LiqFrames)
      /\ \A k \in v4 : Len(k.queue) \in Nat
    BY <1>1 DEF PoolTyped, Sock
<1>3. NoExtra \in LiqExtras
    BY DEF NoExtra, LiqExtras
<1>4. \A k \in v4 : ~k.open => q[k] = <<>>
    BY <1>1 DEF SocksHold
<1>5. LiqPool'
    <2>1. PoolInv(LiqPerps, LiqExtras, LiqFrames, NoExtra)'
        BY <1>1, <1>3, <1>4, PoolHeardKept
    <2> QED
        BY <2>1 DEF LiqPool
<1>6. v10 \in Nat /\ v11 \in [1 .. MaxEvents -> Nat]
    BY DEF LiqInv, LiqCounted
<1>7. \A e \in 1 .. MaxEvents : v11'[e] <= 1 /\ (v11'[e] = 1 => e <= v10 /\ e <= v10')
    BY <1>6, PoolAssumption DEF LiqInv, LiqHeard
<1>8. ASSUME NEW k \in v4, Hears(k), NEW n \in 1 .. Len(k.queue)
      PROVE  /\ k.queue[n].event <= v10 /\ k.queue[n].event \in Nat
             /\ \A e \in 1 .. MaxEvents : v11[e] = 1 => k.queue[n].event # e
    <2>1. k.queue[n] \in LiqFrames
        BY <1>2, <1>8, ElementOfSeq
    <2> QED
        BY <1>8, <2>1 DEF LiqInv, LiqHeard, LiqFrames
<1>9. ASSUME NEW k \in v4, Hears(k), NEW n \in 1 .. Len(q[k])
      PROVE  /\ q[k][n].event <= v10'
             /\ \A e \in 1 .. MaxEvents : v11'[e] = 1 => q[k][n].event # e
    <2>1. CASE n \in 1 .. Len(k.queue)
        BY <1>6, <1>8, <1>9, <2>1
    <2>2. CASE n \notin 1 .. Len(k.queue)
        <3>1. q[k][n].event = g
            BY <2>2
        <3>2. \A e \in 1 .. MaxEvents : v11'[e] = 1 => g # e
            BY <1>6, <1>7, PoolAssumption
        <3> QED
            BY <3>1, <3>2
    <2> QED
        BY <2>1, <2>2
<1>10. ASSUME NEW k \in v4, NEW l \in v4, Hears(k), Hears(l),
              NEW m \in 1 .. Len(q[k]), NEW n \in 1 .. Len(q[l]),
              q[k][m].event = q[l][n].event, q[k][m].event # 0
       PROVE  k = l /\ m = n
    <2>1. CASE m \in 1 .. Len(k.queue) /\ n \in 1 .. Len(l.queue)
        <3>1. q[k][m] = k.queue[m] /\ q[l][n] = l.queue[n]
            BY <2>1
        <3>2. Once(k, m, l, n)
            BY <1>10, <2>1 DEF LiqInv, LiqHeard
        <3> QED
            BY <1>10, <3>1, <3>2 DEF Once
    <2>2. CASE m \in 1 .. Len(k.queue) /\ n \notin 1 .. Len(l.queue)
        <3>1. q[k][m] = k.queue[m] /\ q[l][n].event = g /\ k.queue[m].event <= v10 /\ k.queue[m].event \in Nat
            BY <1>8, <1>10, <2>2
        <3> QED
            BY <1>6, <1>10, <3>1
    <2>3. CASE m \notin 1 .. Len(k.queue) /\ n \in 1 .. Len(l.queue)
        <3>1. q[l][n] = l.queue[n] /\ q[k][m].event = g /\ l.queue[n].event <= v10 /\ l.queue[n].event \in Nat
            BY <1>8, <1>10, <2>3
        <3> QED
            BY <1>6, <1>10, <3>1
    <2>4. CASE m \notin 1 .. Len(k.queue) /\ n \notin 1 .. Len(l.queue)
        <3>1. q[k][m].event = g /\ g # 0
            BY <1>10, <2>4
        <3>2. /\ Len(q[k]) = Len(k.queue) \/ Len(q[k]) = Len(k.queue) + 1
              /\ Len(q[l]) = Len(l.queue) \/ Len(q[l]) = Len(l.queue) + 1
              /\ Len(k.queue) \in Nat /\ Len(l.queue) \in Nat
            BY <1>2
        <3>3. /\ Len(q[k]) = Len(k.queue) + 1 /\ Len(q[l]) = Len(l.queue) + 1
              /\ m = Len(k.queue) + 1 /\ n = Len(l.queue) + 1
            BY <2>4, <3>2, PastEnd
        <3>4. q[k] # k.queue /\ q[l] # l.queue
            BY <3>2, <3>3
        <3>5. k = l
            BY <1>10, <3>1, <3>4
        <3> QED
            BY <3>3, <3>5
    <2> QED
        BY <2>1, <2>2, <2>3, <2>4
<1>11. LiqHeard'
    <2>1. DOMAIN v2' = DOMAIN v2 /\ \A i \in DOMAIN v2 : v2'[i].gen = v2[i].gen
        OBVIOUS
    <2>2. \A k, l \in v4 : Hears(k) /\ Hears(l) =>
             \A m \in 1 .. Len(q[k]), n \in 1 .. Len(q[l]) :
                 q[k][m].event = q[l][n].event => q[k][m].event = 0 \/ (k = l /\ m = n)
        BY <1>10
    <2>3. \A k \in v4 : Hears(k) => \A n \in 1 .. Len(q[k]) :
             /\ q[k][n].event <= v10'
             /\ \A e \in 1 .. MaxEvents : v11'[e] = 1 => q[k][n].event # e
        BY <1>9
    <2>4. \A e \in 1 .. MaxEvents : v11'[e] <= 1 /\ (v11'[e] = 1 => e <= v10')
        BY <1>7
    <2> QED
        BY <1>2, <2>1, <2>2, <2>3, <2>4, LiqQueued
<1>12. LiqNoted' /\ LiqFollows' /\ LiqCounted'
    BY <1>6 DEF LiqInv, LiqNoted, LiqFollows, LiqCounted, Liq!Have
<1> QED
    BY <1>5, <1>11, <1>12 DEF LiqInv

LEMMA LiqGrown ==
    ASSUME v4 \subseteq Sock(LiqPerps, LiqFrames), NEW T \in SUBSET v4, NEW f \in LiqFrames,
           v4' = {IF k \in T THEN [k EXCEPT !.queue = Append(k.queue, f)] ELSE k : k \in v4}
    PROVE  LET q == [k \in v4 |-> IF k \in T THEN Append(k.queue, f) ELSE k.queue]
           IN  /\ q \in [v4 -> Seq(LiqFrames)] /\ v4' = {[k EXCEPT !.queue = q[k]] : k \in v4}
               /\ \A k \in v4 : Len(q[k]) = Len(k.queue) \/ Len(q[k]) = Len(k.queue) + 1
               /\ \A k \in v4 : \A n \in 1 .. Len(q[k]) :
                     IF n \in 1 .. Len(k.queue) THEN q[k][n] = k.queue[n] ELSE q[k][n] = f
<1> DEFINE q == [k \in v4 |-> IF k \in T THEN Append(k.queue, f) ELSE k.queue]
           new(k) == IF k \in T THEN [k EXCEPT !.queue = Append(k.queue, f)] ELSE k
<1>1. \A k \in v4 : k.queue \in Seq(LiqFrames) /\ Len(k.queue) \in Nat /\ [k EXCEPT !.queue = k.queue] = k
    BY DEF Sock
<1>2. \A k \in v4 : /\ Append(k.queue, f) \in Seq(LiqFrames) /\ Len(Append(k.queue, f)) = Len(k.queue) + 1
                    /\ \A n \in 1 .. Len(k.queue) + 1 :
                          Append(k.queue, f)[n] = IF n \in 1 .. Len(k.queue) THEN k.queue[n] ELSE f
    BY <1>1
<1>3. \A k \in v4 : q[k] = IF k \in T THEN Append(k.queue, f) ELSE k.queue
    OBVIOUS
<1>4. q \in [v4 -> Seq(LiqFrames)]
    BY <1>1, <1>2
<1>5. \A k \in v4 : new(k) = [k EXCEPT !.queue = q[k]]
    BY <1>1
<1>6. v4' = {new(k) : k \in v4}
    OBVIOUS
<1> HIDE DEF q, new
<1>7. v4' = {[k EXCEPT !.queue = q[k]] : k \in v4}
    <2>1. \A l \in v4' : \E k \in v4 : l = [k EXCEPT !.queue = q[k]]
        BY <1>5, <1>6
    <2>2. \A k \in v4 : [k EXCEPT !.queue = q[k]] \in v4'
        BY <1>5, <1>6
    <2> QED
        BY <2>1, <2>2
<1>8. \A k \in v4 : Len(q[k]) = Len(k.queue) \/ Len(q[k]) = Len(k.queue) + 1
    BY <1>2, <1>3
<1>9. \A k \in v4 : \A n \in 1 .. Len(q[k]) :
         IF n \in 1 .. Len(k.queue) THEN q[k][n] = k.queue[n] ELSE q[k][n] = f
    BY <1>2, <1>3
<1> QED
    BY <1>4, <1>7, <1>8, <1>9 DEF q

LEMMA LiqAnswersSteps == ASSUME LiqInv, NEW s \in v4, NEW ok \in BOOLEAN, Liq!Answers(s, ok) PROVE LiqInv'
<1> DEFINE f == Liq!Frame(Liq!NoEvent, [acknowledged |-> ok, refused |-> ~ok])
           T == {s}
           q == [k \in v4 |-> IF k \in T THEN Append(k.queue, f) ELSE k.queue]
<1>1. /\ s.open /\ v4' = (v4 \ {s}) \cup {[s EXCEPT !.queue = Append(s.queue, f)]}
      /\ UNCHANGED <<v1, v2, v3, v5, v9, v10, v11>>
    BY DEF Liq!Answers, Liq!Room, Liq!Pushed
<1>2. f \in LiqFrames /\ f.event = 0
    BY DEF Liq!Frame, Liq!NoEvent, LiqFrames, LiqExtras
<1> HIDE DEF f
<1>3. v4 \subseteq Sock(LiqPerps, LiqFrames) /\ v10 \in Nat
    BY DEF LiqInv, LiqPool, PoolInv, PoolTyped, LiqCounted
<1>4. v4' = {IF k \in T THEN [k EXCEPT !.queue = Append(k.queue, f)] ELSE k : k \in v4}
    BY <1>1
<1>5. /\ q \in [v4 -> Seq(LiqFrames)] /\ v4' = {[k EXCEPT !.queue = q[k]] : k \in v4}
      /\ \A k \in v4 : Len(q[k]) = Len(k.queue) \/ Len(q[k]) = Len(k.queue) + 1
      /\ \A k \in v4 : \A n \in 1 .. Len(q[k]) :
            IF n \in 1 .. Len(k.queue) THEN q[k][n] = k.queue[n] ELSE q[k][n] = f
    <2>1. T \in SUBSET v4
        OBVIOUS
    <2> HIDE DEF T
    <2> QED
        BY <1>2, <1>3, <1>4, <2>1, LiqGrown
<1>6. \A k \in v4 : ~k.open => q[k] = k.queue
    BY <1>1
<1> HIDE DEF q
<1>7. \A k \in v4 : \A n \in 1 .. Len(q[k]) :
         IF n \in 1 .. Len(k.queue) THEN q[k][n] = k.queue[n] ELSE q[k][n].event = 0
    BY <1>2, <1>5
<1>8. /\ v10' \in Nat /\ v10 <= v10' /\ 0 <= v10'
      /\ \A k, l \in v4 : Hears(k) /\ Hears(l) /\ k # l /\ 0 # 0 => q[k] = k.queue \/ q[l] = l.queue
    BY <1>1, <1>3
<1> QED
    BY <1>1, <1>5, <1>6, <1>7, <1>8, LiqSentKept

LEMMA LiqLiquidatedSteps == ASSUME LiqInv, NEW perp \in LiqPerps, Liq!Liquidated(perp) PROVE LiqInv'
<1> DEFINE f == Liq!Frame(v10 + 1, Liq!NoExtra)
           T == {k \in v4 : k.open /\ perp \in k.items}
           q == [k \in v4 |-> IF k \in T THEN Append(k.queue, f) ELSE k.queue]
<1>1. /\ v10' = v10 + 1
      /\ v4' = {IF k.open /\ perp \in k.items THEN [k EXCEPT !.queue = Append(k.queue, f)] ELSE k : k \in v4}
      /\ UNCHANGED <<v1, v2, v3, v5, v9, v11>>
    BY DEF Liq!Liquidated, Liq!Pushed
<1>2. v4 \subseteq Sock(LiqPerps, LiqFrames) /\ v10 \in Nat /\ SocksHold /\ ConnsHold(NoExtra)
    BY DEF LiqInv, LiqPool, PoolInv, PoolTyped, LiqCounted
<1>3. f \in LiqFrames /\ f.event = v10 + 1
    BY <1>2 DEF Liq!Frame, Liq!NoExtra, LiqFrames, LiqExtras
<1> HIDE DEF f
<1>4. v4' = {IF k \in T THEN [k EXCEPT !.queue = Append(k.queue, f)] ELSE k : k \in v4}
    BY <1>1
<1>5. /\ q \in [v4 -> Seq(LiqFrames)] /\ v4' = {[k EXCEPT !.queue = q[k]] : k \in v4}
      /\ \A k \in v4 : Len(q[k]) = Len(k.queue) \/ Len(q[k]) = Len(k.queue) + 1
      /\ \A k \in v4 : \A n \in 1 .. Len(q[k]) :
            IF n \in 1 .. Len(k.queue) THEN q[k][n] = k.queue[n] ELSE q[k][n] = f
    <2>1. T \in SUBSET v4
        OBVIOUS
    <2> HIDE DEF T
    <2> QED
        BY <1>2, <1>3, <1>4, <2>1, LiqGrown
<1>6. \A k \in v4 : (~k.open => q[k] = k.queue) /\ (k \notin T => q[k] = k.queue)
    OBVIOUS
<1> HIDE DEF q
<1>7. \A k \in v4 : \A n \in 1 .. Len(q[k]) :
         IF n \in 1 .. Len(k.queue) THEN q[k][n] = k.queue[n] ELSE q[k][n].event = v10 + 1
    BY <1>3, <1>5
<1>8. ASSUME NEW k \in v4, NEW l \in v4, Hears(k), Hears(l), k # l
      PROVE  q[k] = k.queue \/ q[l] = l.queue
    <2> SUFFICES ASSUME k \in T, l \in T PROVE FALSE
        BY <1>6
    <2>1. perp \in v2[k.conn].items /\ perp \in v2[l.conn].items
        BY <1>2, <1>8 DEF SocksHold, Hears
    <2>2. k.conn = l.conn
        BY <1>2, <1>8, <2>1 DEF ConnsHold, Hears
    <2> QED
        BY <1>2, <1>8, <2>2 DEF SocksHold, Hears
<1>9. v10 + 1 \in Nat /\ v10' \in Nat /\ v10 <= v10' /\ v10 + 1 <= v10'
    BY <1>1, <1>2
<1> DEFINE g == v10 + 1
<1>10. g \in Nat /\ (g = 0 \/ g = v10 + 1) /\ g <= v10'
    BY <1>9
<1>11. \A k \in v4 : \A n \in 1 .. Len(q[k]) :
          IF n \in 1 .. Len(k.queue) THEN q[k][n] = k.queue[n] ELSE q[k][n].event = g
    BY <1>7
<1>12. \A k, l \in v4 : Hears(k) /\ Hears(l) /\ k # l /\ g # 0 => q[k] = k.queue \/ q[l] = l.queue
    BY <1>8
<1>13. \A k \in v4 : ~k.open => q[k] = k.queue
    BY <1>6
<1> HIDE DEF g
<1> QED
    BY <1>1, <1>5, <1>9, <1>10, <1>11, <1>12, <1>13, LiqSentKept

LEMMA LiqKept == LiqInv /\ Liq!Next => LiqInv'
<1> SUFFICES ASSUME LiqInv, Liq!Next PROVE LiqInv'
    OBVIOUS
<1>1. CASE Liq!Start
    BY <1>1, LiqStartSteps
<1>2. CASE Liq!Stop
    BY <1>2, LiqStopSteps
<1>3. CASE Liq!Pool
    BY <1>3, LiqPoolSteps
<1>4. ASSUME NEW run \in v7, Liq!LoadFails(run) \/ \E perps \in SUBSET LiqPerps : Liq!Loaded(run, perps)
      PROVE  LiqInv'
    <2>1. CASE Liq!LoadFails(run)
        BY <2>1, LiqQuietSteps DEF Liq!LoadFails, Liq!poolVars
    <2> QED
        BY <1>4, <2>1, LiqLoadedSteps
<1>5. ASSUME NEW run \in v8, Liq!Reload(run) PROVE LiqInv'
    BY <1>5, LiqQuietSteps DEF Liq!Reload, Liq!poolVars
<1>6. ASSUME NEW s \in v4, Liq!Deliver(s) \/ \E ok \in BOOLEAN : Liq!Answers(s, ok) PROVE LiqInv'
    BY <1>6, LiqDeliverSteps, LiqAnswersSteps
<1>7. ASSUME NEW perp \in LiqPerps, Liq!Liquidated(perp) PROVE LiqInv'
    BY <1>7, LiqLiquidatedSteps
<1> QED
    BY <1>1, <1>2, <1>3, <1>4, <1>5, <1>6, <1>7 DEF Liq!Next

LEMMA LiqShown == LiqInv => Liq!StreamTold
BY DEF LiqInv, LiqHeard, LiqNoted, LiqFollows, Liq!StreamTold

-----------------------------------------------------------------------------
\* The folding of Bitunix bars.
FoldBars == [open : Prices, close : Prices, volume : Nat]
SomeBar == FoldBars \cup {Fold!NoBar}
FoldStates ==
    [bucket : Nat, forming : SomeBar, carry : SomeBar, lastTs : Nat, last : SomeBar,
     awaitingSeed : BOOLEAN, candidate : SomeBar]

\* What the state of the fold `s` knows in minute `m`, once `shown` was pushed at `ts`
\* and the venue's bar is `bar`, of the minute before when that `ended`.
FoldKnows(s, m, ended, ts, shown, bar) ==
    \/ s = Fold!Empty
    \/ /\ s.lastTs = ts /\ s.last = shown
       /\ \/ /\ s.bucket = m /\ s.candidate = Fold!NoBar
             /\ s.awaitingSeed \/ (~ended /\ s.forming = shown)
          \/ /\ ended /\ s.bucket = m - 1 /\ m > 1
             /\ \/ s.candidate = bar /\ bar.volume > 0
                \/ s.candidate = Fold!NoBar /\ (s.awaitingSeed \/ s.forming = shown)

\* BitunixFold: v1 minute, v2 bar, v3 past, v4 ended, v5 time, v6 shown, v7 up, v8
\* fold, v9 out.  Nothing is pushed before it traded, the time of the last push is
\* of the minute or of the one that just ended, and what was published is the
\* venue's final bar of its minute, minute after minute.
FoldInv ==
    /\ v1 \in Nat \ {0} /\ v2 \in FoldBars /\ v3 \in Seq(FoldBars) /\ Len(v3) = v1 - 1
    /\ v4 \in BOOLEAN /\ v5 \in Nat \ {0} /\ v6 \in FoldBars /\ v8 \in FoldStates
    /\ v4 => v1 > 1 /\ v2 = v3[v1 - 1]
    /\ v6.open = v2.open /\ v6.volume <= v2.volume
    /\ \/ Fold!Bucket(v5) = v1 - 1 /\ v4
       \/ Fold!Bucket(v5) = v1 /\ (v4 => v6 = v2 /\ v2.volume > 0)
    /\ FoldKnows(v8, v1, v4, v5, v6, v2)
    /\ v7 \in BOOLEAN /\ (v7 \/ v8 = Fold!Empty)
    /\ v9 \in Seq([bar : SomeBar, minute : Nat])
    /\ \A i \in 1 .. Len(v9) :
          /\ v9[i].minute \in 1 .. v1 - 1 /\ v9[i].bar = v3[v9[i].minute]
          /\ v4 => v9[i].minute < v1 - 1
          /\ \A j \in 1 .. Len(v9) : i < j => v9[i].minute < v9[j].minute

LEMMA BucketOf ==
    ASSUME NEW m \in Nat \ {0}, NEW t \in 0 .. Times - 1
    PROVE  m * Times + t \in Nat \ {0} /\ Fold!Bucket(m * Times + t) = m
<1>1. Times \in Nat \ {0}
    BY LengthAssumption
<1>2. \A a, b \in Nat : \A c \in Nat \ {0} : b < c => (a * c + b) \div c = a
    OBVIOUS
<1>3. \A a \in Nat \ {0}, c \in Nat \ {0} : a * c \in Nat \ {0}
    OBVIOUS
<1> QED
    BY <1>1, <1>2, <1>3 DEF Fold!Bucket

LEMMA EmptyFold ==
    /\ Fold!Empty \in FoldStates /\ Fold!Empty.bucket = 0 /\ Fold!Empty.lastTs = 0
    /\ Fold!Empty.candidate = Fold!NoBar /\ ~Fold!Empty.awaitingSeed
BY DEF Fold!Empty, FoldStates, SomeBar

LEMMA SeededFold ==
    ASSUME NEW b \in FoldBars, NEW ts \in Nat
    PROVE  LET s == Fold!SeededBy(b, ts)
           IN  /\ s.bucket = Fold!Bucket(ts) /\ s.forming = b /\ s.lastTs = ts /\ s.last = b
               /\ s.candidate = Fold!NoBar /\ ~s.awaitingSeed
               /\ Fold!Bucket(ts) \in Nat /\ s \in FoldStates
<1> DEFINE e == Fold!Empty
<1>1. e \in FoldStates /\ e.candidate = Fold!NoBar /\ ~e.awaitingSeed
    BY EmptyFold
<1> HIDE DEF e
<1>2. Fold!SeededBy(b, ts) = [e EXCEPT !.bucket = Fold!Bucket(ts), !.forming = b, !.lastTs = ts, !.last = b]
    BY DEF Fold!SeededBy, e
<1>3. Fold!Bucket(ts) \in Nat
    BY LengthAssumption DEF Fold!Bucket
<1> QED
    BY <1>1, <1>2, <1>3 DEF FoldStates, SomeBar

LEMMA QuarantinedFold ==
    ASSUME NEW b \in FoldBars, NEW ts \in Nat
    PROVE  LET s == Fold!Quarantined(b, ts)
           IN  /\ s.bucket = Fold!Bucket(ts) /\ s.lastTs = ts /\ s.last = b
               /\ s.candidate = Fold!NoBar /\ s.awaitingSeed
               /\ s \in FoldStates
<1> DEFINE e == Fold!Empty
<1>1. e \in FoldStates /\ e.candidate = Fold!NoBar
    BY EmptyFold
<1> HIDE DEF e
<1>2. Fold!Quarantined(b, ts) =
         [e EXCEPT !.bucket = Fold!Bucket(ts), !.carry = b, !.awaitingSeed = TRUE, !.lastTs = ts, !.last = b]
    BY DEF Fold!Quarantined, e
<1>3. Fold!Bucket(ts) \in Nat
    BY LengthAssumption DEF Fold!Bucket
<1> QED
    BY <1>1, <1>2, <1>3 DEF FoldStates, SomeBar

LEMMA FoldCases ==
    ASSUME NEW s, NEW b, NEW ts
    PROVE  LET drops   == s.lastTs # 0 /\ Fold!Dropped(s, b, ts)
               final   == s.candidate # Fold!NoBar
               joins   == s.bucket # 0 /\ ~final /\ Fold!Bucket(ts) = s.bucket
               follows == s.bucket # 0 /\ Fold!Bucket(ts) = s.bucket + 1 /\ (final \/ ~s.awaitingSeed)
           IN  /\ drops => Fold!Apply(s, b, ts) = Fold!Keep(s)
               /\ ~drops /\ joins /\ ~follows => Fold!Apply(s, b, ts) = Fold!SameBucket(s, b, ts)
               /\ ~drops /\ ~joins /\ follows /\ final =>
                     Fold!Apply(s, b, ts) = Fold!NextBucket(s, s.candidate, b, ts)
               /\ ~drops /\ ~joins /\ follows /\ ~final =>
                     Fold!Apply(s, b, ts) = Fold!NextBucket(s, s.forming, b, ts)
               /\ ~drops /\ ~joins /\ ~follows => Fold!Apply(s, b, ts) = Fold!Restarted(b, ts)
BY DEF Fold!Apply

LEMMA RestartedFold ==
    ASSUME NEW b \in FoldBars, NEW ts \in Nat
    PROVE  LET r == Fold!Restarted(b, ts)
           IN  /\ r.closed = Fold!Nothing /\ r.state \in FoldStates
               /\ r.state.bucket = Fold!Bucket(ts) /\ r.state.lastTs = ts /\ r.state.last = b
               /\ r.state.candidate = Fold!NoBar
               /\ Fold!IsSeed(b) => r.state.forming = b
               /\ ~Fold!IsSeed(b) => r.state.awaitingSeed
<1>1. CASE Fold!IsSeed(b)
    BY <1>1, SeededFold DEF Fold!Restarted, Fold!Keep
<1>2. CASE ~Fold!IsSeed(b)
    BY <1>2, QuarantinedFold DEF Fold!Restarted, Fold!Keep
<1> QED
    BY <1>1, <1>2

LEMMA JoinedFold ==
    ASSUME NEW s \in FoldStates, NEW b \in FoldBars, NEW ts \in Nat,
           s.candidate = Fold!NoBar, s.bucket = Fold!Bucket(ts)
    PROVE  LET r == Fold!SameBucket(s, b, ts)
           IN  /\ r.closed = Fold!Nothing /\ r.state \in FoldStates
               /\ r.state.bucket = Fold!Bucket(ts) /\ r.state.lastTs = ts /\ r.state.last = b
               /\ r.state.candidate = Fold!NoBar
               /\ r.state.awaitingSeed \/ r.state.forming = b
               /\ s.awaitingSeed /\ ~Fold!IsSeed(b) => r.state.awaitingSeed
<1>1. CASE s.awaitingSeed /\ ~Fold!IsSeed(b)
    <2> DEFINE n == [s EXCEPT !.lastTs = ts, !.last = b, !.carry = b]
    <2>1. /\ n \in FoldStates /\ n.lastTs = ts /\ n.last = b /\ n.candidate = s.candidate
          /\ n.bucket = s.bucket
        BY DEF FoldStates, SomeBar
    <2>2. Fold!SameBucket(s, b, ts) = Fold!Keep(n)
        BY <1>1 DEF Fold!SameBucket
    <2>3. n.awaitingSeed = s.awaitingSeed
        BY Zenon DEF FoldStates
    <2> HIDE DEF n
    <2>4. n.awaitingSeed
        BY <1>1, <2>3, Zenon
    <2>5. /\ Fold!SameBucket(s, b, ts).state = n
          /\ Fold!SameBucket(s, b, ts).closed = Fold!Nothing
        BY <2>2 DEF Fold!Keep
    <2> QED
        BY <2>1, <2>4, <2>5
<1>2. CASE s.awaitingSeed /\ Fold!IsSeed(b)
    BY <1>2, SeededFold DEF Fold!SameBucket, Fold!Keep
<1>3. CASE ~s.awaitingSeed
    BY <1>3, SeededFold, QuarantinedFold DEF Fold!SameBucket, Fold!Keep
<1> QED
    BY <1>1, <1>2, <1>3

LEMMA FollowedFold ==
    ASSUME NEW s \in FoldStates, NEW held \in FoldBars, NEW b \in FoldBars, NEW ts \in Nat
    PROVE  LET r == Fold!NextBucket(s, held, b, ts)
           IN  /\ r.state \in FoldStates /\ r.state.lastTs = ts /\ r.state.last = b
               /\ Fold!IsSeed(b) =>
                     /\ r.state.bucket = Fold!Bucket(ts) /\ r.state.candidate = Fold!NoBar
                     /\ r.state.forming = b
                     /\ \/ r.closed = Fold!Nothing
                        \/ r.closed = Fold!Closing(held, s.bucket) /\ b.open = held.close
               /\ ~Fold!IsSeed(b) =>
                     /\ r.closed = Fold!Nothing
                     /\ \/ r.state.bucket = s.bucket /\ r.state.candidate = b
                        \/ /\ r.state.bucket = Fold!Bucket(ts) /\ r.state.candidate = Fold!NoBar
                           /\ r.state.awaitingSeed
<1>1. CASE Fold!IsSeed(b)
    <2> DEFINE sure == b.open = held.close /\ (s.candidate # Fold!NoBar => ts % Times < InWindow)
               done == IF sure THEN Fold!Closing(held, s.bucket) ELSE Fold!Nothing
    <2>1. /\ Fold!NextBucket(s, held, b, ts).state = Fold!SeededBy(b, ts)
          /\ Fold!NextBucket(s, held, b, ts).closed = done
        BY <1>1 DEF Fold!NextBucket
    <2>2. done = Fold!Nothing \/ (done = Fold!Closing(held, s.bucket) /\ b.open = held.close)
        OBVIOUS
    <2> HIDE DEF done
    <2> QED
        BY <1>1, <2>1, <2>2, SeededFold
<1>2. CASE ~Fold!IsSeed(b) /\ ts % Times < InWindow /\ Fold!Continues(held, b)
    <2> DEFINE n == [s EXCEPT !.candidate = b, !.carry = Fold!NoBar, !.lastTs = ts, !.last = b]
    <2>1. /\ n \in FoldStates /\ n.lastTs = ts /\ n.last = b /\ n.candidate = b
          /\ n.bucket = s.bucket
        BY DEF FoldStates, SomeBar
    <2>2. Fold!NextBucket(s, held, b, ts) = Fold!Keep(n)
        BY <1>2 DEF Fold!NextBucket
    <2> HIDE DEF n
    <2> QED
        BY <1>2, <2>1, <2>2 DEF Fold!Keep
<1>3. CASE ~Fold!IsSeed(b) /\ ~(ts % Times < InWindow /\ Fold!Continues(held, b))
    <2>1. Fold!NextBucket(s, held, b, ts) = Fold!Keep(Fold!Quarantined(b, ts))
        BY <1>3 DEF Fold!NextBucket
    <2> QED
        BY <1>3, <2>1, QuarantinedFold DEF Fold!Keep
<1> QED
    BY <1>1, <1>2, <1>3

LEMMA FoldStart == Fold!Init => FoldInv
<1> SUFFICES ASSUME Fold!Init PROVE FoldInv
    OBVIOUS
<1>1. Times \in Nat \ {0} /\ Fold!Bucket(v5) = 1 /\ v1 = 1 /\ v5 = Times
    BY LengthAssumption DEF Fold!Init, Fold!Bucket
<1>2. v2 \in FoldBars /\ v6 = v2
    BY DEF Fold!Init, FoldBars, Fold!Bar
<1>3. v3 = <<>> /\ v9 = <<>> /\ v8 = Fold!Empty
    BY DEF Fold!Init
<1>4. v4 \in BOOLEAN /\ ~v4 /\ v7 \in BOOLEAN /\ v7
    BY Zenon DEF Fold!Init
<1>5. v8 \in FoldStates /\ FoldKnows(v8, v1, v4, v5, v6, v2)
    BY <1>3, EmptyFold DEF FoldKnows
<1>6. v3 \in Seq(FoldBars) /\ Len(v3) = v1 - 1 /\ v9 \in Seq([bar : SomeBar, minute : Nat]) /\ Len(v9) = 0
    BY <1>1, <1>3
<1>7. v6.open = v2.open /\ v6.volume <= v2.volume /\ v5 \in Nat \ {0}
    BY <1>1, <1>2 DEF FoldBars
<1> QED
    BY <1>1, <1>2, <1>4, <1>5, <1>6, <1>7 DEF FoldInv

LEMMA DroppedFold ==
    ASSUME FoldInv, NEW ts \in Nat, ts >= v5, Fold!Bucket(ts) = v1, NEW b \in FoldBars,
           Fold!IsSeed(b) \/ (b.open = v6.open /\ v6.volume <= b.volume),
           v8.lastTs # 0, Fold!Dropped(v8, b, ts)
    PROVE  b = v6 /\ ts = v5 /\ v8.lastTs = v5 /\ v8.last = v6
<1>1. v8 # Fold!Empty
    BY EmptyFold
<1>2. v8.lastTs = v5 /\ v8.last = v6 /\ v8.bucket <= v1
    BY <1>1 DEF FoldInv, FoldKnows
<1>3. v6 \in FoldBars /\ v5 \in Nat /\ v1 \in Nat /\ v8.bucket \in Nat
    BY DEF FoldInv, FoldStates
<1> QED
    BY <1>2, <1>3 DEF Fold!Dropped, Fold!IsSeed, FoldBars

LEMMA PushedFold ==
    ASSUME FoldInv, ~v4, NEW ts \in Nat, ts >= v5, Fold!Bucket(ts) = v1
    PROVE  LET r == Fold!Apply(v8, v2, ts)
           IN  /\ r.closed = Fold!Nothing /\ r.state \in FoldStates
               /\ FoldKnows(r.state, v1, FALSE, ts, v2, v2)
<1> DEFINE drops == v8.lastTs # 0 /\ Fold!Dropped(v8, v2, ts)
<1>1. /\ v2 \in FoldBars /\ v6 \in FoldBars /\ v8 \in FoldStates /\ v1 \in Nat \ {0}
      /\ v2.open = v6.open /\ v6.volume <= v2.volume
      /\ FoldKnows(v8, v1, FALSE, v5, v6, v2)
    BY DEF FoldInv
<1>2. CASE drops
    <2>1. v2 = v6 /\ ts = v5
        BY <1>1, <1>2, DroppedFold
    <2>2. Fold!Apply(v8, v2, ts) = Fold!Keep(v8)
        BY <1>2, FoldCases
    <2>3. FoldKnows(v8, v1, FALSE, ts, v2, v2)
        BY <1>1, <2>1
    <2> QED
        BY <1>1, <2>2, <2>3 DEF Fold!Keep, FoldKnows
<1>3. CASE ~drops /\ v8 = Fold!Empty
    <2>1. Fold!Apply(v8, v2, ts) = Fold!Restarted(v2, ts)
        BY <1>3, EmptyFold, FoldCases
    <2> QED
        BY <1>1, <2>1, RestartedFold DEF FoldKnows
<1>4. CASE ~drops /\ v8 # Fold!Empty
    <2>1. v8.bucket = v1 /\ v8.candidate = Fold!NoBar
        BY <1>1, <1>4 DEF FoldKnows
    <2>2. Fold!Apply(v8, v2, ts) = Fold!SameBucket(v8, v2, ts)
        BY <1>1, <1>4, <2>1, FoldCases
    <2> QED
        BY <1>1, <2>1, <2>2, JoinedFold DEF FoldKnows
<1> QED
    BY <1>2, <1>3, <1>4

LEMMA FinalisedFold ==
    ASSUME FoldInv, v4, v2.volume > 0, NEW ts \in Nat, ts >= v5, Fold!Bucket(ts) = v1
    PROVE  LET r == Fold!Apply(v8, v2, ts)
           IN  /\ r.closed = Fold!Nothing /\ r.state \in FoldStates
               /\ FoldKnows(r.state, v1, TRUE, ts, v2, v2)
<1> DEFINE drops == v8.lastTs # 0 /\ Fold!Dropped(v8, v2, ts)
<1>1. /\ v2 \in FoldBars /\ v6 \in FoldBars /\ v8 \in FoldStates /\ v1 \in Nat /\ v1 > 1
      /\ v2.open = v6.open /\ v6.volume <= v2.volume
      /\ FoldKnows(v8, v1, TRUE, v5, v6, v2)
    BY DEF FoldInv
<1>2. ~Fold!IsSeed(v2) /\ v2 # Fold!NoBar
    BY <1>1 DEF Fold!IsSeed, Fold!NoBar
<1>3. CASE drops
    <2>1. v2 = v6 /\ ts = v5
        BY <1>1, <1>3, DroppedFold
    <2>2. Fold!Apply(v8, v2, ts) = Fold!Keep(v8)
        BY <1>3, FoldCases
    <2>3. FoldKnows(v8, v1, TRUE, ts, v2, v2)
        BY <1>1, <2>1
    <2> QED
        BY <1>1, <2>2, <2>3 DEF Fold!Keep, FoldKnows
<1>4. CASE ~drops /\ v8 = Fold!Empty
    <2>1. Fold!Apply(v8, v2, ts) = Fold!Restarted(v2, ts)
        BY <1>4, EmptyFold, FoldCases
    <2> QED
        BY <1>1, <1>2, <2>1, RestartedFold DEF FoldKnows
<1>5. CASE ~drops /\ v8.bucket = v1 /\ v8.candidate = Fold!NoBar /\ v8.awaitingSeed
    <2>1. Fold!Apply(v8, v2, ts) = Fold!SameBucket(v8, v2, ts)
        BY <1>1, <1>5, FoldCases
    <2> QED
        BY <1>1, <1>2, <1>5, <2>1, JoinedFold DEF FoldKnows
<1>6. CASE ~drops /\ v8.bucket = v1 - 1 /\ v8.candidate = Fold!NoBar /\ v8.awaitingSeed
    <2>1. Fold!Apply(v8, v2, ts) = Fold!Restarted(v2, ts)
        BY <1>1, <1>6, FoldCases
    <2> QED
        BY <1>1, <1>2, <2>1, RestartedFold DEF FoldKnows
<1>7. CASE ~drops /\ v8.bucket = v1 - 1 /\ v8.candidate = v2
    <2>1. Fold!Apply(v8, v2, ts) = Fold!NextBucket(v8, v2, v2, ts)
        BY <1>1, <1>2, <1>7, FoldCases
    <2> QED
        BY <1>1, <1>2, <1>7, <2>1, FollowedFold DEF FoldKnows
<1>8. CASE /\ ~drops /\ v8.bucket = v1 - 1 /\ v8.candidate = Fold!NoBar /\ ~v8.awaitingSeed
           /\ v8.forming = v6
    <2>1. Fold!Apply(v8, v2, ts) = Fold!NextBucket(v8, v6, v2, ts)
        BY <1>1, <1>8, FoldCases
    <2> QED
        BY <1>1, <1>2, <1>8, <2>1, FollowedFold DEF FoldKnows
<1> HIDE DEF drops
<1> QED
    BY <1>1, <1>3, <1>4, <1>5, <1>6, <1>7, <1>8 DEF FoldKnows

LEMMA SeededNext ==
    ASSUME FoldInv, v4, v6 = v2 \/ v6.close # v2.close, NEW ts \in Nat, ts >= v5,
           Fold!Bucket(ts) = v1, NEW b \in FoldBars, b = Fold!Bar(v2.close, v2.close, 0)
    PROVE  LET r == Fold!Apply(v8, b, ts)
           IN  /\ r.closed \in {Fold!Nothing, Fold!Closing(v2, v1 - 1)}
               /\ r.state \in FoldStates
               /\ FoldKnows(r.state, v1, FALSE, ts, b, b)
<1> DEFINE drops == v8.lastTs # 0 /\ Fold!Dropped(v8, b, ts)
<1>1. /\ v2 \in FoldBars /\ v6 \in FoldBars /\ v8 \in FoldStates /\ v1 \in Nat /\ v1 > 1
      /\ v2.open = v6.open /\ v6.volume <= v2.volume
      /\ FoldKnows(v8, v1, TRUE, v5, v6, v2)
    BY DEF FoldInv
<1>2. Fold!IsSeed(b) /\ b.open = v2.close /\ b.volume = 0
    BY DEF Fold!IsSeed, Fold!Bar
<1>3. ~drops
    <2> SUFFICES ASSUME drops PROVE FALSE
        OBVIOUS
    <2>1. b = v6 /\ ts = v5
        BY <1>1, <1>2, DroppedFold
    <2> QED
        BY <1>1, <1>2, <2>1 DEF FoldInv
<1>4. CASE v8 = Fold!Empty
    <2>1. Fold!Apply(v8, b, ts) = Fold!Restarted(b, ts)
        BY <1>3, <1>4, EmptyFold, FoldCases
    <2> QED
        BY <1>1, <1>2, <2>1, RestartedFold DEF FoldKnows
<1>5. CASE v8.bucket = v1 /\ v8.candidate = Fold!NoBar /\ v8.awaitingSeed
    <2>1. Fold!Apply(v8, b, ts) = Fold!SameBucket(v8, b, ts)
        BY <1>1, <1>3, <1>5, FoldCases
    <2> QED
        BY <1>1, <1>2, <1>5, <2>1, JoinedFold DEF FoldKnows
<1>6. CASE v8.bucket = v1 - 1 /\ v8.candidate = Fold!NoBar /\ v8.awaitingSeed
    <2>1. Fold!Apply(v8, b, ts) = Fold!Restarted(b, ts)
        BY <1>1, <1>3, <1>6, FoldCases
    <2> QED
        BY <1>1, <1>2, <2>1, RestartedFold DEF FoldKnows
<1>7. CASE v8.bucket = v1 - 1 /\ v8.candidate = v2 /\ v2.volume > 0
    <2>1. v2 # Fold!NoBar
        BY <1>7 DEF Fold!NoBar
    <2>2. Fold!Apply(v8, b, ts) = Fold!NextBucket(v8, v2, b, ts)
        BY <1>1, <1>3, <1>7, <2>1, FoldCases
    <2> QED
        BY <1>1, <1>2, <1>7, <2>2, FollowedFold DEF FoldKnows
<1>8. CASE /\ v8.bucket = v1 - 1 /\ v8.candidate = Fold!NoBar /\ ~v8.awaitingSeed
           /\ v8.forming = v6
    <2>1. Fold!Apply(v8, b, ts) = Fold!NextBucket(v8, v6, b, ts)
        BY <1>1, <1>3, <1>8, FoldCases
    <2> QED
        BY <1>1, <1>2, <1>8, <2>1, FollowedFold DEF FoldKnows
<1> QED
    BY <1>1, <1>4, <1>5, <1>6, <1>7, <1>8 DEF FoldKnows

\* What a push does to the fold and to what was published.
LEMMA SentFold ==
    ASSUME FoldInv, NEW b, NEW ts, Fold!Sends(b, ts), NEW e \in BOOLEAN, NEW f,
           LET r == Fold!Apply(v8, b, ts)
           IN  /\ r.closed = Fold!Nothing \/ (v4 /\ ~e /\ r.closed = Fold!Closing(v2, v1 - 1))
               /\ r.state \in FoldStates /\ FoldKnows(r.state, v1, e, ts, b, f)
    PROVE  /\ v8' \in FoldStates /\ FoldKnows(v8', v1, e, ts, b, f)
           /\ v7 \/ v8' = Fold!Empty
           /\ v9' = v9 \/ (v4 /\ ~e /\ v9' = Append(v9, Fold!Closing(v2, v1 - 1)))
<1> DEFINE r == Fold!Apply(v8, b, ts)
<1>1. /\ v7 => v8' = r.state
      /\ ~v7 => v8' = v8
      /\ v9' = v9 \/ (v9' = Append(v9, r.closed) /\ r.closed # Fold!Nothing)
    BY DEF Fold!Sends
<1>2. v7 \/ v8 = Fold!Empty
    BY DEF FoldInv
<1>3. FoldKnows(Fold!Empty, v1, e, ts, b, f) /\ Fold!Empty \in FoldStates
    BY EmptyFold DEF FoldKnows
<1> HIDE DEF r
<1>4. /\ r.closed = Fold!Nothing \/ (v4 /\ ~e /\ r.closed = Fold!Closing(v2, v1 - 1))
      /\ r.state \in FoldStates /\ FoldKnows(r.state, v1, e, ts, b, f)
    BY DEF r
<1>5. CASE v7
    BY <1>1, <1>4, <1>5
<1>6. CASE ~v7
    <2>1. v8' = Fold!Empty
        BY <1>1, <1>2, <1>6
    <2>2. v8' \in FoldStates /\ FoldKnows(v8', v1, e, ts, b, f)
        BY <1>3, <2>1
    <2>3. v9' = v9 \/ (v4 /\ ~e /\ v9' = Append(v9, Fold!Closing(v2, v1 - 1)))
        BY <1>1, <1>4
    <2> QED
        BY <2>1, <2>2, <2>3
<1> QED
    BY <1>5, <1>6

\* A bar published is the final one of the newest minute that ended.
LEMMA PublishedFold ==
    ASSUME FoldInv, v4, v9' = Append(v9, Fold!Closing(v2, v1 - 1)), v3' = v3
    PROVE  /\ v9' \in Seq([bar : SomeBar, minute : Nat])
           /\ \A i \in 1 .. Len(v9') :
                 /\ v9'[i].minute \in 1 .. v1 - 1 /\ v9'[i].bar = v3'[v9'[i].minute]
                 /\ \A j \in 1 .. Len(v9') : i < j => v9'[i].minute < v9'[j].minute
<1> DEFINE c == Fold!Closing(v2, v1 - 1)
           n == Len(v9)
           q == Append(v9, c)
<1>1. /\ v1 \in Nat /\ v1 > 1 /\ v2 = v3[v1 - 1] /\ v2 \in SomeBar
      /\ v9 \in Seq([bar : SomeBar, minute : Nat]) /\ n \in Nat
      /\ \A i \in 1 .. n :
            /\ v9[i].minute \in 1 .. v1 - 1 /\ v9[i].bar = v3[v9[i].minute]
            /\ v9[i].minute < v1 - 1
            /\ \A j \in 1 .. n : i < j => v9[i].minute < v9[j].minute
    BY DEF FoldInv, SomeBar
<1>2. c \in [bar : SomeBar, minute : Nat] /\ c.minute = v1 - 1 /\ c.bar = v2
    BY <1>1 DEF Fold!Closing
<1> HIDE DEF c
<1>3. /\ q \in Seq([bar : SomeBar, minute : Nat]) /\ Len(q) = n + 1 /\ q[n + 1] = c
      /\ \A i \in 1 .. n : q[i] = v9[i]
    BY <1>1, <1>2
<1>4. v9' = q
    BY DEF c
<1> HIDE DEF q, n
<1>5. \A i \in 1 .. Len(q) :
         /\ q[i].minute \in 1 .. v1 - 1 /\ q[i].bar = v3[q[i].minute]
         /\ \A j \in 1 .. Len(q) : i < j => q[i].minute < q[j].minute
    <2> SUFFICES ASSUME NEW i \in 1 .. n + 1, NEW j \in 1 .. n + 1
                 PROVE  /\ q[i].minute \in 1 .. v1 - 1 /\ q[i].bar = v3[q[i].minute]
                        /\ i < j => q[i].minute < q[j].minute
        BY <1>3
    <2>1. n \in Nat
        BY <1>1
    <2>2. (i \in 1 .. n \/ i = n + 1) /\ (j \in 1 .. n \/ j = n + 1)
        BY <2>1
    <2>3. \A k \in 1 .. n : q[k].minute \in 1 .. v1 - 1 /\ q[k].minute < v1 - 1 /\ q[k].bar = v3[q[k].minute]
        BY <1>1, <1>3
    <2>4. q[n + 1].minute = v1 - 1 /\ q[n + 1].bar = v3[v1 - 1] /\ v1 - 1 \in 1 .. v1 - 1
        BY <1>1, <1>2, <1>3
    <2>5. q[i].minute \in 1 .. v1 - 1 /\ q[i].bar = v3[q[i].minute]
        BY <2>2, <2>3, <2>4
    <2>6. CASE i \in 1 .. n /\ j \in 1 .. n
        BY <1>1, <1>3, <2>5, <2>6
    <2>7. CASE i \in 1 .. n /\ j = n + 1
        BY <2>3, <2>4, <2>5, <2>7
    <2>8. CASE i = n + 1
        BY <2>1, <2>5, <2>8
    <2> QED
        BY <2>2, <2>6, <2>7, <2>8
<1> QED
    BY <1>3, <1>4, <1>5

LEMMA TradeKept == ASSUME FoldInv, NEW p \in Prices, Fold!Trade(p) PROVE FoldInv'
<1>1. /\ v2' = Fold!Bar(v2.open, p, v2.volume + 1) /\ ~v4
      /\ UNCHANGED <<v1, v3, v4, v5, v6, v7, v8, v9>>
    BY DEF Fold!Trade
<1>2. v2 \in FoldBars /\ v6 \in FoldBars /\ v6.open = v2.open /\ v6.volume <= v2.volume
    BY DEF FoldInv
<1>3. v2' \in FoldBars /\ v6.open = v2'.open /\ v6.volume <= v2'.volume
    BY <1>1, <1>2 DEF Fold!Bar, FoldBars
<1>4. FoldKnows(v8, v1, v4, v5, v6, v2')
    BY <1>1 DEF FoldInv, FoldKnows
<1> QED
    BY <1>1, <1>3, <1>4 DEF FoldInv

LEMMA MinuteKept == ASSUME FoldInv, Fold!MinuteEnds PROVE FoldInv'
<1>1. /\ ~v4 /\ v1' = v1 + 1 /\ v3' = Append(v3, v2)
      /\ UNCHANGED <<v2, v5, v6, v7, v8, v9>>
    BY DEF Fold!MinuteEnds
<1>2. v4' \in BOOLEAN /\ v4'
    BY Zenon DEF Fold!MinuteEnds
<1>3. v1 \in Nat \ {0} /\ v2 \in FoldBars /\ v3 \in Seq(FoldBars) /\ Len(v3) = v1 - 1
    BY DEF FoldInv
<1>4. /\ v3' \in Seq(FoldBars) /\ Len(v3') = v1'- 1 /\ v3'[v1' - 1] = v2'
      /\ \A m \in 1 .. v1 - 1 : v3'[m] = v3[m]
    BY <1>1, <1>3
<1>5. FoldKnows(v8, v1', v4', v5, v6, v2)
    BY <1>1, <1>2, <1>3 DEF FoldInv, FoldKnows
<1>6. Fold!Bucket(v5') = v1' - 1
    BY <1>1, <1>3 DEF FoldInv, Fold!Bucket
<1>7. \A i \in 1 .. Len(v9') :
         /\ v9'[i].minute \in 1 .. v1' - 1 /\ v9'[i].bar = v3'[v9'[i].minute]
         /\ v9'[i].minute < v1' - 1
         /\ \A j \in 1 .. Len(v9') : i < j => v9'[i].minute < v9'[j].minute
    <2>1. \A i \in 1 .. Len(v9) :
             /\ v9[i].minute \in 1 .. v1 - 1 /\ v9[i].bar = v3[v9[i].minute]
             /\ \A j \in 1 .. Len(v9) : i < j => v9[i].minute < v9[j].minute
        BY DEF FoldInv
    <2>2. \A m \in 1 .. v1 - 1 : m \in 1 .. v1' - 1 /\ m < v1' - 1
        BY <1>1, <1>3
    <2> QED
        BY <1>1, <1>4, <2>1, <2>2
<1>8. v1' \in Nat \ {0} /\ v1' > 1
    BY <1>1, <1>3
<1>9. /\ v2' \in FoldBars /\ v5' \in Nat \ {0} /\ v6' \in FoldBars /\ v8' \in FoldStates
      /\ v6'.open = v2'.open /\ v6'.volume <= v2'.volume
      /\ v7' \in BOOLEAN /\ (v7' \/ v8' = Fold!Empty)
      /\ v9' \in Seq([bar : SomeBar, minute : Nat])
      /\ FoldKnows(v8', v1', v4', v5', v6', v2')
    BY <1>1, <1>5 DEF FoldInv
<1> QED
    BY <1>2, <1>4, <1>6, <1>7, <1>8, <1>9 DEF FoldInv

LEMMA SocketKept == ASSUME FoldInv, Fold!SocketLost \/ Fold!SocketBack PROVE FoldInv'
<1>1. /\ UNCHANGED <<v1, v2, v3, v4, v5, v6, v9>>
      /\ v8' = v8 \/ v8' = Fold!Empty
    BY DEF Fold!SocketLost, Fold!SocketBack
<1>2. v7' \in BOOLEAN /\ (v7' \/ v8' = Fold!Empty)
    BY Zenon DEF Fold!SocketLost, Fold!SocketBack
<1>3. v8' \in FoldStates /\ FoldKnows(v8', v1, v4, v5, v6, v2)
    BY <1>1, EmptyFold DEF FoldInv, FoldKnows
<1> QED
    BY <1>1, <1>2, <1>3 DEF FoldInv

LEMMA PushKept ==
    ASSUME FoldInv, NEW ts \in Nat \ {0}, Fold!Bucket(ts) = v1, Fold!Push(ts)
    PROVE  FoldInv'
<1>1. /\ ~v4 /\ ts >= v5 /\ v5' = ts /\ v6' = v2 /\ UNCHANGED <<v1, v2, v3, v4, v7>>
      /\ Fold!Sends(v2, ts)
    BY DEF Fold!Push, Fold!Sends
<1>2. /\ v8' \in FoldStates /\ FoldKnows(v8', v1, FALSE, ts, v2, v2)
      /\ v7 \/ v8' = Fold!Empty
      /\ v9' = v9
    BY <1>1, PushedFold, SentFold
<1>3. FoldKnows(v8', v1', v4', v5', v6', v2')
    BY <1>1, <1>2 DEF FoldKnows
<1>4. Fold!Bucket(v5') = v1' /\ v5' \in Nat \ {0} /\ v6'.volume <= v2'.volume
    BY <1>1 DEF Fold!Bucket, FoldInv, FoldBars
<1> QED
    BY <1>1, <1>2, <1>3, <1>4 DEF FoldInv

LEMMA FinaliseKept ==
    ASSUME FoldInv, NEW ts \in Nat \ {0}, Fold!Bucket(ts) = v1, Fold!Finalise(ts)
    PROVE  FoldInv'
<1>1. /\ v4 /\ ts >= v5 /\ v5' = ts /\ v6' = v2 /\ UNCHANGED <<v1, v2, v3, v4, v7>>
      /\ v2.volume > 0 /\ Fold!Sends(v2, ts)
    BY DEF Fold!Finalise, Fold!Sends
<1>2. /\ v8' \in FoldStates /\ FoldKnows(v8', v1, TRUE, ts, v2, v2)
      /\ v7 \/ v8' = Fold!Empty
      /\ v9' = v9
    BY <1>1, FinalisedFold, SentFold
<1>3. FoldKnows(v8', v1', v4', v5', v6', v2')
    BY <1>1, <1>2 DEF FoldKnows
<1>4. Fold!Bucket(v5') = v1' /\ v5' \in Nat \ {0} /\ v6'.volume <= v2'.volume
    BY <1>1 DEF Fold!Bucket, FoldInv, FoldBars
<1> QED
    BY <1>1, <1>2, <1>3, <1>4 DEF FoldInv

LEMMA SeedKept ==
    ASSUME FoldInv, NEW ts \in Nat \ {0}, Fold!Bucket(ts) = v1, Fold!Seed(ts)
    PROVE  FoldInv'
<1> DEFINE b == Fold!Bar(v2.close, v2.close, 0)
<1>1. /\ v4 /\ ts >= v5 /\ v5' = ts /\ v6' = b /\ v2' = b /\ UNCHANGED <<v1, v3, v7>>
      /\ v6 = v2 \/ v6.close # v2.close
    BY DEF Fold!Seed, Fold!Sends
<1>2. v4' \in BOOLEAN /\ ~v4'
    BY Zenon DEF Fold!Seed
<1>3. Fold!Sends(b, ts)
    BY <1>1 DEF Fold!Seed, Fold!Sends
<1>4. b \in FoldBars /\ b.volume = 0
    BY DEF FoldInv, FoldBars, Fold!Bar
<1>5. LET r == Fold!Apply(v8, b, ts)
      IN  /\ r.closed \in {Fold!Nothing, Fold!Closing(v2, v1 - 1)}
          /\ r.state \in FoldStates /\ FoldKnows(r.state, v1, FALSE, ts, b, b)
    BY <1>1, <1>4, SeededNext
<1>6. b = Fold!Bar(v2.close, v2.close, 0)
    OBVIOUS
<1> HIDE DEF b
<1>7. /\ v8' \in FoldStates /\ FoldKnows(v8', v1, FALSE, ts, b, b)
      /\ v7 \/ v8' = Fold!Empty
      /\ v9' = v9 \/ v9' = Append(v9, Fold!Closing(v2, v1 - 1))
    BY <1>1, <1>3, <1>5, SentFold
<1>8. FoldKnows(v8', v1', v4', v5', v6', v2')
    BY <1>1, <1>2, <1>7 DEF FoldKnows
<1>9. Fold!Bucket(v5') = v1' /\ v5' \in Nat \ {0} /\ v6'.volume <= v2'.volume
    BY <1>1, <1>4 DEF Fold!Bucket
<1>10. /\ v9' \in Seq([bar : SomeBar, minute : Nat])
       /\ \A i \in 1 .. Len(v9') :
             /\ v9'[i].minute \in 1 .. v1 - 1 /\ v9'[i].bar = v3'[v9'[i].minute]
             /\ \A j \in 1 .. Len(v9') : i < j => v9'[i].minute < v9'[j].minute
    <2>1. CASE v9' = v9
        BY <1>1, <2>1 DEF FoldInv
    <2>2. CASE v9' = Append(v9, Fold!Closing(v2, v1 - 1))
        BY <1>1, <2>2, PublishedFold
    <2> QED
        BY <1>7, <2>1, <2>2
<1>11. v1' \in Nat \ {0} /\ v3' \in Seq(FoldBars) /\ Len(v3') = v1' - 1 /\ v7' \in BOOLEAN
    BY <1>1 DEF FoldInv
<1>12. v2' \in FoldBars /\ v6' \in FoldBars /\ v6'.open = v2'.open /\ (v7' \/ v8' = Fold!Empty)
    BY <1>1, <1>4, <1>7
<1> QED
    BY <1>1, <1>2, <1>7, <1>8, <1>9, <1>10, <1>11, <1>12 DEF FoldInv

LEMMA FoldKept == FoldInv /\ Fold!Next => FoldInv'
<1> SUFFICES ASSUME FoldInv, Fold!Next PROVE FoldInv'
    OBVIOUS
<1>1. CASE \E p \in Prices : Fold!Trade(p)
    BY <1>1, TradeKept
<1>2. CASE Fold!MinuteEnds
    BY <1>2, MinuteKept
<1>3. CASE Fold!SocketLost \/ Fold!SocketBack
    BY <1>3, SocketKept
<1>4. ASSUME NEW t \in 0 .. Times - 1,
             LET ts == v1 * Times + t IN Fold!Push(ts) \/ Fold!Finalise(ts) \/ Fold!Seed(ts)
      PROVE  FoldInv'
    <2> DEFINE ts == v1 * Times + t
    <2>1. ts \in Nat \ {0} /\ Fold!Bucket(ts) = v1
        BY BucketOf DEF FoldInv
    <2>2. Fold!Push(ts) \/ Fold!Finalise(ts) \/ Fold!Seed(ts)
        BY <1>4
    <2> HIDE DEF ts
    <2> QED
        BY <2>1, <2>2, PushKept, FinaliseKept, SeedKept
<1> QED
    BY <1>1, <1>2, <1>3, <1>4 DEF Fold!Next

LEMMA FoldShown == FoldInv => Fold!ClosedIsFinal
<1> SUFFICES ASSUME FoldInv PROVE Fold!ClosedIsFinal
    OBVIOUS
<1>1. DOMAIN v9 = 1 .. Len(v9) /\ DOMAIN v3 = 1 .. v1 - 1
    BY DEF FoldInv
<1> QED
    BY <1>1 DEF FoldInv, Fold!ClosedIsFinal

-----------------------------------------------------------------------------
\* The three parts with a stream, each under its own invariant.
StreamsInv ==
    /\ part = "stream" => StreamInv
    /\ part = "liq" => LiqInv
    /\ part = "fold" => FoldInv

LEMMA StreamsStart == Init => StreamsInv
BY StreamStart, LiqStart, FoldStart
   DEF Init, StreamsInv, StreamStarts, LiqStarts, FoldStarts, SeedsStarts, GzipStarts,
       CoverageStarts, PaceStarts, SnapshotsStarts, ShelfStarts, HorizonStarts,
       TimersStarts, CapsStarts

LEMMA StreamsStill == ASSUME StreamsInv, UNCHANGED vars PROVE StreamsInv'
<1>1. UNCHANGED <<part, v1, v2, v3, v4, v5, v6, v7, v8, v9, v10, v11>>
    BY DEF vars
<1>2. StreamInv => StreamInv'
    <2> SUFFICES ASSUME StreamInv PROVE StreamInv'
        OBVIOUS
    <2>1. /\ v8' \in Nat /\ v9' \in Nat
          /\ v10' \in [BarPairs -> SUBSET Bars] /\ v11' \in [BarPairs -> SUBSET Bars]
        BY <1>1 DEF StreamInv, StreamTyped
    <2> QED
        BY <1>1, <2>1, QuietSteps
<1>3. LiqInv => LiqInv'
    BY <1>1, LiqQuietSteps
<1>4. FoldInv => FoldInv'
    BY <1>1 DEF FoldInv, FoldKnows, Fold!Bucket
<1> QED
    BY <1>1, <1>2, <1>3, <1>4 DEF StreamsInv

LEMMA StreamsKept ==
    ASSUME StreamsInv, Next
    PROVE  StreamsInv' /\ (part = "stream" => Stream!WritesAreOwned)
<1>1. CASE StreamMoves
    BY <1>1, StreamKept, OwnedShown DEF StreamsInv, StreamMoves
<1>2. CASE LiqMoves
    BY <1>2, LiqKept DEF StreamsInv, LiqMoves
<1>3. CASE FoldMoves
    BY <1>3, FoldKept DEF StreamsInv, FoldMoves
<1>4. CASE part' = part /\ part \notin {"stream", "liq", "fold"}
    BY <1>4 DEF StreamsInv
<1> QED
    BY <1>1, <1>2, <1>3, <1>4
       DEF Next, SeedsMoves, GzipMoves, CoverageMoves, PaceMoves, SnapshotsMoves,
           ShelfMoves, HorizonMoves, TimersMoves, CapsMoves

\* What the websockets leave in the store is the venue's last revision of a minute
\* that is over, whatever socket brought it and however late, and a Bitunix minute
\* is published once, with the venue's final bar of that minute: stream-runner.ts
\* ingests, defers and flushes, bitunix-fold.ts closes.
THEOREM FinalBars == Spec => []FinalBarsOnly
<1>1. StreamsInv /\ [Next]_vars => StreamsInv'
    BY StreamsKept, StreamsStill
<1>2. StreamsInv => FinalBarsOnly
    BY StreamShown, FoldShown DEF StreamsInv, FinalBarsOnly
<1> QED
    BY StreamsStart, <1>1, <1>2, PTL DEF Spec

\* No liquidation is counted twice, the status counts the subscriptions that stand,
\* and a running pool carries the newest roster: socket-pool.ts replaces and retires
\* connections while liq/stream-runner.ts loads rosters and counts.
THEOREM StreamIsTold == Spec => []StreamTold
<1>1. StreamsInv /\ [Next]_vars => StreamsInv'
    BY StreamsKept, StreamsStill
<1>2. StreamsInv => StreamTold
    BY LiqShown DEF StreamsInv, StreamTold
<1> QED
    BY StreamsStart, <1>1, <1>2, PTL DEF Spec

\* A bar reaches the store only while the runner runs, for a symbol its pool carries,
\* and settled: stop(), resync() and the deferral of stream-runner.ts at every step.
THEOREM WritesOwned == Spec => WritesAreOwned
<1>1. StreamsInv /\ [Next]_vars => StreamsInv'
    BY StreamsKept, StreamsStill
<1>2. StreamsInv /\ [Next]_vars => [part = "stream" => Stream!WritesAreOwned]_vars
    BY StreamsKept
<1> QED
    BY StreamsStart, <1>1, <1>2, PTL DEF Spec, WritesAreOwned
=============================================================================
