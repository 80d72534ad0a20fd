---------------------------- MODULE CandleStream ----------------------------
(* Live one-minute candles from a venue's websockets                         *)
(* (candles/stream-runner.ts on net/socket-pool.ts, with the closure buffer  *)
(* and the adapters of candles/stream.ts).                                   *)
(*                                                                           *)
(* The venue is `venue[s]`: the revision each minute of a symbol has reached,*)
(* the last minute forming.  Every change is pushed, in order, to the        *)
(* sockets subscribed at that moment.  A venue that states closure sends the *)
(* final bar again with its flag, one that does not sends the first bar of   *)
(* the next minute.                                                          *)
EXTENDS SocketPool

CONSTANTS States,      \* the adapters in use: TRUE states closure (bybit, binance,
                       \* aster), FALSE leaves it to the order (bitget, weex updates)
          MaxMinute,   \* bound: minutes of the venue
          MaxRev,      \* bound: revisions of one minute
          MaxQueue,    \* bound: frames on their way per socket
          MaxDeferred  \* MAX_DEFERRED_PER_SYMBOL

VARIABLES states,      \* does this venue state closure
          wanted,      \* deps.symbols(): what the collector follows now
          venue,       \* revision of every minute, per symbol
          clock,       \* settledOpenMs(now()): the newest minute that has settled
          settledScan, \* settledScanMs
          deferred,    \* closed but unsettled bars, per symbol
          stored       \* what deps.write put in the store, per symbol

vars == <<poolVars, states, wanted, venue, clock, settledScan, deferred, stored>>

NoTick == [open |-> 0, rev |-> 0, closed |-> FALSE]
NoBars == [s \in Items |-> NoTick]

Now(s) == Len(venue[s])

Init ==
    /\ PoolInit
    /\ states \in States
    /\ wanted \in SUBSET Items
    /\ venue = [s \in Items |-> <<0>>]
    /\ clock = 0 /\ settledScan = 0
    /\ deferred = [s \in Items |-> {}]
    /\ stored = [s \in Items |-> {}]

Max2(a, b) == IF a > b THEN a ELSE b

\* ClosureBuffer.push: the bar that just became closed, and what is held after.
Closes(held, t) ==
    IF t.closed THEN t ELSE IF held # NoTick /\ t.open > held.open THEN held ELSE NoTick
Holds(held, t) ==
    CASE t.closed -> IF held.open <= t.open THEN NoTick ELSE held
      [] ~t.closed /\ t.open < held.open -> held
      [] OTHER -> t

Oldest(bars) == CHOOSE b \in bars : \A a \in bars : b.open <= a.open
Newest(bars) == CHOOSE b \in bars : \A a \in bars : a.open <= b.open

\* defer(): at most MaxDeferred bars wait per symbol, the newest gives way.
Deferring(bars, b) ==
    LET others == {a \in bars : a.open # b.open}
    IN  CASE others # bars -> others \cup {b}
          [] Cardinality(bars) < MaxDeferred -> bars \cup {b}
          [] b.open >= Newest(bars).open -> bars
          [] OTHER -> (bars \ {Newest(bars)}) \cup {b}

\* takeSettledDeferred(): the deferred bars that have settled.
Settled(bars) == {b \in bars : b.open <= clock}

\* The bars of one minute that replace each other in the store.
Over(bars, new) == {b \in bars : \A a \in new : a.open # b.open} \cup new

\* writeReady(): deps.write may throw, symbol by symbol; the bars are then gone.
Write(ready) ==
    \E failed \in SUBSET {s \in Items : ready[s] # {}} :
        stored' = [s \in Items |->
                      IF s \in failed THEN stored[s] ELSE Over(stored[s], ready[s])]

\* ingest(): one frame of a current socket.
Ingest(id, t) ==
    LET scan   == clock > settledScan
        taken  == [s \in Items |-> IF scan THEN Settled(deferred[s]) ELSE {}]
        mine   == t.symbol \in conns[id].items
        tick   == [open |-> t.open, rev |-> t.rev, closed |-> t.closed]
        held   == conns[id].extra[t.symbol]
        done   == IF mine THEN Closes(held, tick) ELSE NoTick
        ready  == done # NoTick /\ done.open <= clock
        left   == [s \in Items |-> deferred[s] \ taken[s]]
    IN  /\ conns' = IF mine THEN [conns EXCEPT ![id].extra[t.symbol] = Holds(held, tick)]
                            ELSE conns
        /\ settledScan' = Max2(settledScan, clock)
        /\ deferred' = [left EXCEPT ![t.symbol] =
                           CASE done = NoTick -> @
                             [] ready -> {b \in @ : b.open # done.open}
                             [] OTHER -> Deferring(@, done)]
        /\ Write([taken EXCEPT ![t.symbol] = IF ready THEN Over(@, {done}) ELSE @])

Deliver(s) ==
    /\ Receive(s, Ingest, UNCHANGED <<settledScan, deferred, stored>>)
    /\ UNCHANGED <<states, wanted, venue, clock>>

\* flushDeferred(), every second.
FlushDeferred ==
    /\ running /\ \E s \in Items : deferred[s] # {}
    /\ settledScan' = Max2(settledScan, clock)
    /\ deferred' = [s \in Items |-> deferred[s] \ Settled(deferred[s])]
    /\ Write([s \in Items |-> Settled(deferred[s])])
    /\ UNCHANGED <<poolVars, states, wanted, venue, clock>>

\* A mistake: what is held back outlives its symbol.
KeptAll(want) == deferred

\* onBeforeResync: bars of symbols no longer wanted are dropped.
Kept(want) == [s \in Items |-> IF s \in want THEN deferred[s] ELSE {}]

Start ==
    /\ ~running
    /\ StartPool(wanted)
    /\ deferred' = Kept(wanted)
    /\ UNCHANGED <<states, wanted, venue, clock, settledScan, stored>>

Stop ==
    /\ running
    /\ StopPool
    /\ deferred' = [s \in Items |-> {}]
    /\ UNCHANGED <<states, wanted, venue, clock, settledScan, stored>>

\* The collector's list of symbols changes and the runner is told.
Resync(want) ==
    /\ running /\ want # wanted
    /\ wanted' = want
    /\ ResyncTo(want)
    /\ deferred' = IF Same(want) THEN deferred ELSE Kept(want)
    /\ UNCHANGED <<running, states, venue, clock, settledScan, stored>>

Pool == PoolSteps /\ UNCHANGED <<states, wanted, venue, clock, settledScan, deferred, stored>>

\* The venue: a trade revises the forming minute, or the next minute begins.
Tick(s, m, r, closed) == [symbol |-> s, open |-> m, rev |-> r, closed |-> closed]

Push(s, frame) ==
    LET subscribed == {k \in socks : k.open /\ s \in k.items}
    IN  /\ \A k \in subscribed : Len(k.queue) < MaxQueue
        /\ socks' = {IF k \in subscribed THEN [k EXCEPT !.queue = Append(@, frame)] ELSE k : k \in socks}

Trade(s) ==
    /\ venue[s][Now(s)] < MaxRev
    /\ venue' = [venue EXCEPT ![s][Now(s)] = @ + 1]
    /\ Push(s, Tick(s, Now(s), venue[s][Now(s)] + 1, FALSE))
    /\ UNCHANGED <<running, conns, made, states, wanted, clock, settledScan, deferred, stored>>

NextMinute(s) ==
    /\ Now(s) < MaxMinute
    /\ venue' = [venue EXCEPT ![s] = Append(@, IF states THEN 0 ELSE 1)]
    /\ Push(s, IF states THEN Tick(s, Now(s), venue[s][Now(s)], TRUE)
                         ELSE Tick(s, Now(s) + 1, 1, FALSE))
    /\ UNCHANGED <<running, conns, made, states, wanted, clock, settledScan, deferred, stored>>

\* The hub's own clock, which need not agree with the venue's.
ClockTicks ==
    /\ clock < MaxMinute
    /\ clock' = clock + 1
    /\ UNCHANGED <<poolVars, states, wanted, venue, settledScan, deferred, stored>>

Next ==
    \/ Start \/ Stop \/ Pool \/ FlushDeferred \/ ClockTicks
    \/ \E want \in SUBSET Items : Resync(want)
    \/ \E s \in socks : Deliver(s)
    \/ \E s \in Items : Trade(s) \/ NextMinute(s)

-----------------------------------------------------------------------------
\* A stored minute is over at the venue and holds its last revision, although
\* no venue says so and sockets drop, linger and are replaced mid-minute.
StoredIsFinal ==
    \A s \in Items : \A b \in stored[s] : b.open < Now(s) /\ b.rev = venue[s][b.open]

\* A bar is stored only while the runner runs, for a symbol one of its
\* connections still has, and not before the hub's clock says it has settled.
WritesAreOwned ==
    \A s \in Items : \A b \in stored'[s] \ stored[s] :
        /\ running /\ s \in Have
        /\ b.open <= clock

Spec == Init /\ [][Next]_vars
=============================================================================
