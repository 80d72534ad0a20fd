----------------------------- MODULE SocketPool -----------------------------
(* The pool of websockets that every stream of the hub rides on              *)
(* (net/socket-pool.ts): symbols are sliced over connections, a connection   *)
(* is opened again after every close, error or time-out, and a change of the *)
(* symbols replaces all of them.  A socket the pool has let go of may still  *)
(* deliver what was on its way: its callbacks carry the connection and the   *)
(* generation they were made for.                                            *)
(*                                                                           *)
(* The world outside is `socks`: a socket is subscribed once it has opened   *)
(* under a current callback, and its queue holds frames not yet delivered.   *)
(* Back-off lengths and pings are left out: a retry may fire at any time.    *)
EXTENDS Naturals, Sequences, FiniteSets, SequencesExt

CONSTANTS Items,       \* the symbols a venue can list
          Cap,         \* maxTopicsPerConnection
          Fresh,       \* the extra state of a connection, as makeExtra builds it
          MaxConns,    \* bound: connections ever made
          MaxGen       \* bound: generations of one connection

VARIABLES running,     \* runningFlag
          conns,       \* the pool's connections by identity
          made,        \* connections made so far
          socks        \* sockets that can still call back

poolVars == <<running, conns, made, socks>>

NoSock == 0

PoolInit == running = FALSE /\ conns = <<>> /\ made = 0 /\ socks = {}

\* A mistake: a callback is known by its connection, not by its generation.
CurrentConnection(id, gen) == running /\ id \in DOMAIN conns

\* The guard of every callback: the pool runs, still has the connection, and
\* has not retired this generation of it.
Current(id, gen) == 
    running /\ id \in DOMAIN conns /\ conns[id].gen = gen

Connecting(c, gen) ==
    [c EXCEPT !.gen = gen, !.sock = gen, !.opened = FALSE,
              !.timer = FALSE, !.connectTimer = TRUE]

\* A close, an error, a time-out or a factory that throws: the generation is
\* retired, what the connection buffered is discarded, a retry is armed.
Reopened(c, gen) ==
    [c EXCEPT !.gen = gen + 1, !.sock = NoSock, !.opened = FALSE, !.timer = TRUE,
              !.connectTimer = FALSE, !.extra = Fresh]

Socket(id, gen, items) ==
    [conn |-> id, gen |-> gen, items |-> items, open |-> FALSE, queue |-> <<>>]

\* open(c): the next generation, with a socket unless the factory throws.
Opened(c, refused) ==
    IF refused THEN Reopened(c, c.gen + 1) ELSE Connecting(c, c.gen + 1)

NewConn(items) ==
    [items |-> items, gen |-> 0, sock |-> NoSock, opened |-> FALSE,
     timer |-> FALSE, connectTimer |-> FALSE, extra |-> Fresh]

Have == UNION {conns[id].items : id \in DOMAIN conns}

Same(want) == DOMAIN conns # {} /\ want = Have

\* The wanted symbols, sliced by the cap.
Slice(want, k) ==
    {SetToSeq(want)[i] : i \in {j \in 1 .. Cardinality(want) : (j - 1) \div Cap = k}}
Slices(want) == {k \in 0 .. Cardinality(want) : Slice(want, k) # {}}

\* resync(): every connection is torn down and the slices are opened anew; the
\* factory throws for the connections in `refused`.
Resynced(want, refused) ==
    LET ids == {made + 1 + k : k \in Slices(want)}
    IN  /\ Cardinality(ids) + made <= MaxConns
        /\ refused \subseteq ids
        /\ made' = made + Cardinality(ids)
        /\ conns' = [id \in ids |-> Opened(NewConn(Slice(want, id - made - 1)), id \in refused)]
        /\ socks' = socks \cup {Socket(id, 1, Slice(want, id - made - 1)) : id \in ids \ refused}

ResyncTo(want) ==
    \/ Same(want) /\ UNCHANGED <<conns, made, socks>>
    \/ ~Same(want) /\ \E refused \in SUBSET (made + 1 .. made + 1 + Cardinality(want)) :
                          Resynced(want, refused)

StartPool(want) == running' = TRUE /\ ResyncTo(want)

StopPool == running' = FALSE /\ conns' = <<>> /\ UNCHANGED <<made, socks>>

\* onOpen: a retired socket opens unheard and is never subscribed.
SockOpens(s) ==
    /\ ~s.open
    /\ IF Current(s.conn, s.gen)
       THEN /\ conns' = [conns EXCEPT ![s.conn].opened = TRUE, ![s.conn].connectTimer = FALSE]
            /\ socks' = (socks \ {s}) \cup {[s EXCEPT !.open = TRUE]}
       ELSE UNCHANGED conns /\ socks' = socks \ {s}
    /\ UNCHANGED <<running, made>>

ReopensConn(id) ==
    /\ conns[id].gen < MaxGen
    /\ conns' = [conns EXCEPT ![id] = Reopened(@, @.gen)]

\* onClose and onError.
SockEnds(s) ==
    /\ IF Current(s.conn, s.gen) THEN ReopensConn(s.conn) ELSE UNCHANGED conns
    /\ socks' = socks \ {s}
    /\ UNCHANGED <<running, made>>

\* The connection never opened in time; its socket is closed and may linger.
ConnectTimesOut(id) ==
    /\ conns[id].connectTimer /\ ~conns[id].opened
    /\ ReopensConn(id)
    /\ UNCHANGED <<running, made, socks>>

RetryFires(id) ==
    /\ conns[id].timer /\ conns[id].gen < MaxGen
    /\ \E refused \in BOOLEAN :
        /\ conns' = [conns EXCEPT ![id] = Opened(@, refused)]
        /\ socks' = IF refused THEN socks ELSE socks \cup {Socket(id, conns[id].gen + 1, conns[id].items)}
    /\ UNCHANGED <<running, made>>

\* handleMessage: the first frame of a socket's queue reaches its callback.
\* Handled(id, frame) is the owner's onMessage, Ignored what else stands still.
Receive(s, Handled(_, _), Ignored) ==
    /\ s.queue # <<>>
    /\ socks' = (socks \ {s}) \cup {[s EXCEPT !.queue = Tail(@)]}
    /\ IF Current(s.conn, s.gen) THEN Handled(s.conn, Head(s.queue))
                                 ELSE Ignored /\ UNCHANGED conns
    /\ UNCHANGED <<running, made>>

PoolSteps ==
    \/ \E s \in socks : SockOpens(s) \/ SockEnds(s)
    \/ \E id \in DOMAIN conns : ConnectTimesOut(id) \/ RetryFires(id)
=============================================================================
