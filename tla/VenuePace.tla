----------------------------- MODULE VenuePace ------------------------------
(* How fast a venue is asked (candles/collector.ts, tick()): a budget per     *)
(* pass, requests spaced by the current rate, half the rate and a growing     *)
(* silence after a refusal, a slow climb back below the refused rate, and     *)
(* the health reported from it.  Answers come while time goes on.             *)
EXTENDS Integers, FiniteSets, FiniteSetsExt

CONSTANTS MinRate, MaxRate,      \* minRequestsPerSecond, requestsPerSecond
          Cooldown, MaxCooldown, \* rateLimitCooldownMs, rateLimitMaxCooldownMs
          Asks,                  \* what Retry-After may say
          Streak, Memory,        \* successes for a climb, REFUSED_MEMORY
          RefreshEvery, StallAfter, FailingAfter,
          MaxTime                \* bound: time

VARIABLES now,
          rate, cooldown,        \* effectiveRps, cooldownUntil
          hits, streak,          \* consecutiveRateLimits, successStreak
          ceiling,               \* refusedCeiling
          fails, polled, ok, hadWork,    \* what health() reads, 0 for never
          refreshed,             \* lastSymbolRefreshAt
          pass,                  \* this pass: its instant, requests left, in flight
          refusal, asked         \* the last refusal, the last request

vars == <<now, rate, cooldown, hits, streak, ceiling, fails, polled, ok, hadWork,
          refreshed, pass, refusal, asked>>

Idle == [at |-> 0, left |-> 0, flying |-> FALSE, listing |-> FALSE]
NoCeiling == [rate |-> MaxRate, until |-> 0]
NoRefusal == [rate |-> 0, at |-> 0, wait |-> 0]
Rate == <<rate, cooldown, hits, streak, ceiling, refusal>>
Seen == <<fails, ok>>

Init ==
    /\ now = 1 /\ rate = MaxRate /\ cooldown = 0 /\ hits = 0 /\ streak = 0 /\ ceiling = NoCeiling
    /\ fails = 0 /\ polled = 0 /\ ok = 0 /\ hadWork = TRUE /\ refreshed = 0
    /\ pass = Idle /\ refusal = NoRefusal /\ asked = 0

\* budgetFor(): at least one request.
Budget == Max({1, rate})
Cooling == now < cooldown
Stale == refreshed = 0 \/ now - refreshed >= RefreshEvery

\* noteRateLimited()
Refused(wait) ==
    /\ hits' = Min({hits + 1, 4}) /\ streak' = 0
    /\ ceiling' = [rate |-> Max({MinRate, (rate * 4) \div 5}), until |-> now + Memory]
    /\ rate' = Max({MinRate, rate \div 2})
    /\ cooldown' = now + Max({wait, Min({MaxCooldown, Cooldown * 2^hits})})
    /\ refusal' = [rate |-> rate, at |-> now, wait |-> cooldown' - now]
\* noteSuccess()
Limit == IF now < ceiling.until THEN Min({MaxRate, ceiling.rate}) ELSE MaxRate
Succeeded ==
    /\ hits' = 0 /\ UNCHANGED <<cooldown, ceiling, refusal>>
    /\ IF streak + 1 >= Streak /\ rate < Limit
       THEN streak' = 0 /\ rate' = Min({Limit, Max({rate + 1, (rate * 5) \div 4})})
       ELSE streak' = Min({streak + 1, Streak}) /\ UNCHANGED rate

\* A pass begins: silent while cooling; the symbol list first when it is stale;
\* else as many requests as are due and the budget admits.
Skip ==
    /\ pass = Idle /\ Cooling /\ polled' = now /\ polled' # polled
    /\ UNCHANGED <<now, Rate, Seen, hadWork, refreshed, pass, asked>>
Begin(due) ==
    /\ pass = Idle /\ ~Cooling /\ polled # now
    /\ pass' = [at |-> now, left |-> Min({due, Budget}), flying |-> Stale, listing |-> Stale]
    /\ asked' = IF Stale THEN now ELSE asked
    /\ polled' = IF Stale THEN polled ELSE now
    /\ hadWork' = IF Stale THEN hadWork ELSE due > 0
    /\ UNCHANGED <<now, Rate, Seen, refreshed>>
Works ==                    \* after the list, whatever it answered
    /\ pass.listing /\ ~pass.flying /\ pass' = [pass EXCEPT !.listing = FALSE]
    /\ polled' = pass.at /\ hadWork' = (pass.left > 0)
    /\ UNCHANGED <<now, Rate, Seen, refreshed, asked>>
Request ==
    /\ ~pass.listing /\ ~pass.flying /\ pass.left > 0
    /\ pass' = [pass EXCEPT !.left = @ - 1, !.flying = TRUE] /\ asked' = now
    /\ UNCHANGED <<now, Rate, Seen, polled, hadWork, refreshed>>
EndPass ==                  \* queue, budget or deadline exhausted
    /\ pass # Idle /\ ~pass.listing /\ ~pass.flying /\ pass' = Idle
    /\ UNCHANGED <<now, Rate, Seen, polled, hadWork, refreshed, asked>>

Landed == pass' = [pass EXCEPT !.flying = FALSE]
Good ==
    /\ pass.flying /\ Landed /\ Succeeded /\ ok' = pass.at /\ fails' = 0
    /\ refreshed' = IF pass.listing THEN pass.at ELSE refreshed
    /\ UNCHANGED <<now, polled, hadWork, asked>>
\* A page the venue gave with a warning to slow down is kept.
SlowDown(wait) ==
    /\ pass.flying /\ ~pass.listing /\ Refused(wait) /\ pass' = Idle
    /\ ok' = pass.at /\ fails' = 0
    /\ UNCHANGED <<now, polled, hadWork, refreshed, asked>>
RateLimited(wait) ==
    /\ pass.flying /\ Refused(wait) /\ pass' = Idle
    /\ UNCHANGED <<now, Seen, polled, hadWork, refreshed, asked>>
Errs ==
    /\ pass.flying /\ Landed /\ fails' = Min({fails + 1, FailingAfter})
    /\ UNCHANGED <<now, Rate, ok, polled, hadWork, refreshed, asked>>
Tick ==
    /\ now < MaxTime /\ now' = now + 1
    /\ UNCHANGED <<Rate, Seen, polled, hadWork, refreshed, pass, asked>>

Next ==
    \/ Skip \/ Works \/ Request \/ EndPass \/ Good \/ Errs \/ Tick
    \/ \E due \in 0 .. MaxRate : Begin(due)
    \/ \E wait \in Asks : SlowDown(wait) \/ RateLimited(wait)

Spec == Init /\ [][Next]_vars
-----------------------------------------------------------------------------
\* health(), in its order.
State ==
    CASE fails >= FailingAfter -> "failing"
      [] fails < FailingAfter /\ Cooling -> "cooling"
      [] fails < FailingAfter /\ ~Cooling /\ ok = 0 -> IF now - 1 < StallAfter THEN "starting" ELSE "failing"
      [] OTHER -> IF now - ok < StallAfter \/ (now - polled < StallAfter /\ polled # 0 /\ ~hadWork)
                  THEN "running" ELSE "stalled"

\* A refusal is obeyed for as long as it says, its rate is not reached again
\* while it is remembered, and the venue is not called running meanwhile.
RefusalsObeyed ==
    refusal # NoRefusal =>
        /\ asked <= refusal.at \/ asked >= refusal.at + refusal.wait
        /\ now < refusal.at + Memory => rate <= Max({MinRate, (refusal.rate * 4) \div 5})
        /\ now < refusal.at + refusal.wait => State # "running"
=============================================================================
