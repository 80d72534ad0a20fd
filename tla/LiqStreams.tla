----------------------------- MODULE LiqStreams -----------------------------
(* The live liquidation stream of one Bybit category (liq/stream-runner.ts)  *)
(* on the socket pool: a loader fetches the roster of perpetuals, now and    *)
(* again, retrying on failure; a new roster replaces the sockets; the status *)
(* note counts the acknowledged and refused subscriptions.                   *)
(*                                                                           *)
(* Every start of the runner builds a pool and a loader of its own, a stop   *)
(* leaves an old loader asleep or waiting for its answer.                    *)
EXTENDS SocketPool

CONSTANTS MaxRuns,     \* bound: starts of the runner
          MaxEvents,   \* bound: liquidations at the venue
          MaxQueue     \* bound: frames on their way per socket

VARIABLES roster,      \* bybitRoster
          runs,        \* starts so far
          loads,       \* starts whose loader waits for an answer
          idle,        \* starts whose loader waits for its refresh or its retry
          note,        \* notes: acknowledged, refused and desired perpetuals
          events,      \* liquidations at the venue so far
          counted      \* how often each was handed to emit()

vars == <<poolVars, roster, runs, loads, idle, note, events, counted>>

NoExtra == [acknowledged |-> FALSE, refused |-> FALSE]

Init ==
    /\ PoolInit
    /\ roster = {} /\ runs = 0 /\ loads = {} /\ idle = {}
    /\ note = [acknowledged |-> 0, refused |-> 0, desired |-> 0]
    /\ events = 0 /\ counted = [e \in 1 .. MaxEvents |-> 0]

\* refreshNote(): counted over the pool's connections.
Perps(cs, field) == Cardinality(UNION {cs[id].items : id \in {i \in DOMAIN cs : cs[i].extra[field]}})
Note(cs, desired) ==
    [acknowledged |-> Perps(cs, "acknowledged"), refused |-> Perps(cs, "refused"),
     desired |-> Cardinality(desired)]

\* startBybit(): an empty roster, a pool and a loader, which asks at once.
Start ==
    /\ ~running /\ runs < MaxRuns
    /\ runs' = runs + 1
    /\ roster' = {}
    /\ StartPool({})
    /\ loads' = loads \cup {runs + 1}
    /\ UNCHANGED <<idle, note, events, counted>>

\* stop(): the pools let go of everything, the loaders are told.
Stop ==
    /\ running
    /\ StopPool
    /\ note' = Note(<<>>, roster)
    /\ UNCHANGED <<roster, runs, loads, idle, events, counted>>

\* alive(): this loader was not stopped, whatever has been started since.
Alive(run) == running /\ run = runs

\* The answer of a load arrives: the roster is set and the pool follows it.
Loaded(run, perps) ==
    /\ loads' = loads \ {run}
    /\ IF Alive(run)
       THEN /\ roster' = perps /\ ResyncTo(perps)
            /\ note' = Note(conns', perps)
            /\ idle' = idle \cup {run}
       ELSE UNCHANGED <<roster, conns, made, socks, note, idle>>
    /\ UNCHANGED <<running, runs, events, counted>>

\* It fails: the loader sleeps, then tries again if it is still alive.
LoadFails(run) ==
    /\ loads' = loads \ {run}
    /\ idle' = IF Alive(run) THEN idle \cup {run} ELSE idle
    /\ UNCHANGED <<poolVars, roster, runs, note, events, counted>>

\* A retry or the refresh every six hours.
Reload(run) ==
    /\ idle' = idle \ {run}
    /\ loads' = IF Alive(run) THEN loads \cup {run} ELSE loads
    /\ UNCHANGED <<poolVars, roster, runs, note, events, counted>>

NoEvent == 0
Frame(event, told) == [event |-> event, told |-> told]

\* handleBybitMessage(): an answer to the subscription, or a liquidation.
Handle(id, frame) ==
    IF frame.event # NoEvent
    THEN /\ counted' = [counted EXCEPT ![frame.event] = @ + 1]
         /\ UNCHANGED <<conns, note>>
    ELSE /\ conns' = [conns EXCEPT ![id].extra = frame.told]
         /\ note' = Note(conns', roster)
         /\ UNCHANGED counted

Deliver(s) ==
    /\ Receive(s, Handle, UNCHANGED <<counted, note>>)
    /\ UNCHANGED <<roster, runs, loads, idle, events>>

\* Closes, errors and time-outs discard what the connection was told.
Pool ==
    /\ PoolSteps
    /\ note' = IF conns' = conns \/ \E id \in DOMAIN conns : conns'[id].opened /\ ~conns[id].opened
               THEN note ELSE Note(conns', roster)
    /\ UNCHANGED <<roster, runs, loads, idle, events, counted>>

\* The venue answers a subscription, or liquidates.
Pushed(s, frame) == [s EXCEPT !.queue = Append(@, frame)]
Room(s) == s.open /\ Len(s.queue) < MaxQueue

Answers(s, ok) ==
    /\ Room(s)
    /\ socks' = (socks \ {s}) \cup {Pushed(s, Frame(NoEvent, [acknowledged |-> ok, refused |-> ~ok]))}
    /\ UNCHANGED <<running, conns, made, roster, runs, loads, idle, note, events, counted>>

Liquidated(perp) ==
    /\ events < MaxEvents
    /\ events' = events + 1
    /\ \A s \in socks : s.open /\ perp \in s.items => Room(s)
    /\ socks' = {IF s.open /\ perp \in s.items THEN Pushed(s, Frame(events + 1, NoExtra)) ELSE s : s \in socks}
    /\ UNCHANGED <<running, conns, made, roster, runs, loads, idle, note, counted>>

Next ==
    \/ Start \/ Stop \/ Pool
    \/ \E run \in loads : LoadFails(run) \/ \E perps \in SUBSET Items : Loaded(run, perps)
    \/ \E run \in idle : Reload(run)
    \/ \E s \in socks : Deliver(s) \/ \E ok \in BOOLEAN : Answers(s, ok)
    \/ \E perp \in Items : Liquidated(perp)

Spec == Init /\ [][Next]_vars
-----------------------------------------------------------------------------
\* However sockets linger, reconnect and are replaced: no liquidation counts
\* twice, the status counts exactly the subscriptions that stand now, and the
\* connections carry the roster of the newest start only.
StreamTold ==
    /\ \A e \in 1 .. MaxEvents : counted[e] <= 1
    /\ note.acknowledged = Perps(conns, "acknowledged")
    /\ note.refused = Perps(conns, "refused")
    /\ running => Have = roster
=============================================================================
