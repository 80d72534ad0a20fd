--------------------------- MODULE TimeframeShelf ---------------------------
(* The shelf of one higher-timeframe series (candles/timeframe.ts 77-391,    *)
(* 1687-1711): day files, or one file per month once the series is on a long *)
(* horizon.  A write in the month layout folds the month's day files in and  *)
(* then removes them; the layout changes when the hub is restarted with      *)
(* another configuration; retention removes files by their kind.             *)
(*                                                                           *)
(* One month.  A row is the strength of what a slot holds; a file is a       *)
(* function over slots or Absent.                                            *)
EXTENDS Naturals, FiniteSets

CONSTANTS Days,        \* the days of the month, 1 .. n
          Wide,        \* bound: the days with two slots, the others have one
          Short, Long, \* days a series is kept off and on the horizon
          MaxNow       \* bound: the day of the hub

VARIABLES layout,      \* layoutOf: "day" or "month"
          days,        \* the day files
          month,       \* the month file
          now,
          had,         \* the best ever written in each layout (history)
          left         \* day files that outlived their folding (history)

vars == <<layout, days, month, now, had, left>>

Slots(d) == IF d \in Wide THEN {1, 2} ELSE {1}

Empty == 0
Aggregate == 1
Native == 2
Absent == <<>>

Max(a, b) == IF a > b THEN a ELSE b

Init ==
    /\ layout \in {"day", "month"}
    /\ days = [d \in Days |-> Absent]
    /\ month = Absent
    /\ now = 1
    /\ left = {}
    /\ had = [l \in {"day", "month"} |-> [d \in Days |-> [s \in Slots(d) |-> Empty]]]

Blank(d) == [s \in Slots(d) |-> Empty]
MonthOf(d) == IF month = Absent THEN Blank(d) ELSE month[d]

\* A native row is never replaced by an aggregate.
Over(held, row) == IF held = Native /\ row = Aggregate THEN held ELSE row

\* A mistake: a row of the month file is never replaced.
FoldsOnce(kept, held) == IF kept # Empty THEN kept ELSE held

\* The migration on write: a day slot fills an empty month slot, or upgrades
\* an aggregate to native.
Folds(kept, held) ==
    IF kept # Empty /\ ~(kept = Aggregate /\ held = Native) THEN kept
    ELSE IF held = Empty THEN kept ELSE held

Noted(d, s, row) == [had EXCEPT ![layout][d][s] = Max(@, row)]

\* write(), month layout: the folded day files go after the rename, and any of
\* them may stay when the process dies or the removal throws.
WriteMonth(d, s, row) ==
    LET base == [e \in Days |-> [t \in Slots(e) |->
                    IF days[e] = Absent THEN MonthOf(e)[t] ELSE Folds(MonthOf(e)[t], days[e][t])]]
    IN  /\ layout = "month"
        /\ month' = [base EXCEPT ![d][s] = Over(@, row)]
        /\ left' \in SUBSET {e \in Days : days[e] # Absent}
        /\ days' = [e \in Days |-> IF e \in left' THEN days[e] ELSE Absent]
        /\ had' = Noted(d, s, row)
        /\ UNCHANGED <<layout, now>>

\* write(), day layout: a new day file carries the day's month slots.
WriteDay(d, s, row) ==
    LET base == IF days[d] = Absent THEN MonthOf(d) ELSE days[d]
    IN  /\ layout = "day"
        /\ days' = [days EXCEPT ![d] = [base EXCEPT ![s] = Over(@, row)]]
        /\ had' = Noted(d, s, row)
        /\ UNCHANGED <<layout, month, now, left>>

\* read(): the layout's own container wins, the other is the fallback.
Read(d, s) ==
    CASE layout = "month" /\ month # Absent -> month[d][s]
      [] layout = "month" /\ month = Absent -> IF days[d] = Absent THEN Empty ELSE days[d][s]
      [] layout = "day" -> IF days[d] = Absent THEN MonthOf(d)[s] ELSE days[d][s]

\* retentionCutoff() and pruneSymbol(): a month file keeps the horizon's days
\* even when the series has left it, and goes only whole.
Gone(d, kind) == d + (IF kind = "month" \/ layout = "month" THEN Long ELSE Short) < now
Prune ==
    /\ days' = [d \in Days |-> IF Gone(d, "day") THEN Absent ELSE days[d]]
    /\ month' = IF \A d \in Days : Gone(d, "month") THEN Absent ELSE month
    /\ left' = {d \in left : days'[d] # Absent}
    /\ UNCHANGED <<layout, now, had>>

\* The hub is restarted, on or off the horizon.
Restart ==
    /\ layout' = IF layout = "day" THEN "month" ELSE "day"
    /\ UNCHANGED <<days, month, now, had, left>>

NextDay ==
    /\ now < MaxNow
    /\ now' = now + 1
    /\ UNCHANGED <<layout, days, month, had, left>>

Next ==
    \/ \E d \in Days : \E s \in Slots(d), row \in {Aggregate, Native} :
           WriteMonth(d, s, row) \/ WriteDay(d, s, row)
    \/ Prune \/ Restart \/ NextDay

Spec == Init /\ [][Next]_vars
-----------------------------------------------------------------------------
Held(d, s) == Max(MonthOf(d)[s], IF days[d] = Absent THEN Empty ELSE days[d][s])

\* Whatever was written is still on the shelf for as long as its layout keeps
\* it, and a read finds it, unless the day's file stands beside the month file
\* in the month layout or outlived its folding (the next write in the month
\* layout mends both).
ShelfKeeps ==
    \A d \in Days : \A s \in Slots(d) :
        LET owed == Max(IF now <= d + Long THEN had["month"][d][s] ELSE Empty,
                        IF now <= d + Short THEN had["day"][d][s] ELSE Empty)
        IN  /\ Held(d, s) >= owed
            /\ d \in left \/ (layout = "month" /\ month # Absent /\ days[d] # Absent) \/ Read(d, s) >= owed

\* timeframe.ts:193 "a present month file is always the whole month": a read
\* in the month layout finds whatever is kept.
MonthIsWhole == \A d \in Days : \A s \in Slots(d) : layout = "month" => Read(d, s) >= Held(d, s)
=============================================================================
