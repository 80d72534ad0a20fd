------------------------------ MODULE SeedPool ------------------------------
(* The pool of worker threads that builds long timeframe histories           *)
(* (candles/timeframe-seed-pool.ts): a few slots, a bounded queue, a timer   *)
(* per job, workers that answer late, die or are terminated.                 *)
(*                                                                           *)
(* A worker is known by the slot it was spawned for.  A reply already posted *)
(* may arrive after its worker was terminated or before its exit is seen.    *)
EXTENDS Naturals, Sequences, FiniteSets, SequencesExt

CONSTANTS Slots, MaxQueue,
          MaxJobs, MaxWorkers   \* bounds: jobs asked for, workers spawned

VARIABLES slots,       \* worker and running job of every slot
          queue,       \* Pending jobs in order
          asked,       \* nextId - 1
          closed,
          settled,     \* how the promises of a job were settled, in order
          workers,     \* worker threads not yet seen to exit
          spawned,     \* workers so far
          replies      \* messages posted by workers

vars == <<slots, queue, asked, closed, settled, workers, spawned, replies>>

None == 0

Init ==
    /\ slots = [s \in Slots |-> [worker |-> None, running |-> None]]
    /\ queue = <<>> /\ asked = 0 /\ closed = FALSE
    /\ settled = [j \in 1 .. MaxJobs |-> <<>>]
    /\ workers = {} /\ spawned = 0 /\ replies = {}

Settle(st, j, how) == [st EXCEPT ![j] = Append(@, how)]
Free(sl) == {s \in Slots : sl[s].running = None}

\* dispatch(): the first free slot takes the next job, on its worker or on a new
\* one.  One slot at most is free when jobs wait, so one round is all of it.
Dispatch(sl, q, ws) ==
    IF q = <<>> \/ Free(sl) = {} \/ closed
    THEN slots' = sl /\ queue' = q /\ workers' = ws /\ UNCHANGED spawned
    ELSE LET s    == CHOOSE k \in Free(sl) : \A i \in Free(sl) : k <= i
             born == sl[s].worker = None
             w    == IF born THEN spawned + 1 ELSE sl[s].worker
         IN  /\ w <= MaxWorkers
             /\ spawned' = IF born THEN w ELSE spawned
             /\ slots' = [sl EXCEPT ![s] = [worker |-> w, running |-> Head(q)]]
             /\ queue' = Tail(q)
             /\ workers' = {v \in ws : v.id # w} \cup {[id |-> w, slot |-> s, job |-> Head(q)]}

\* run(job): refused when the pool is closed, or busy with a full queue.
Run ==
    /\ asked < MaxJobs
    /\ asked' = asked + 1
    /\ CASE closed -> /\ settled' = Settle(settled, asked', "closed")
                      /\ UNCHANGED <<slots, queue, workers, spawned>>
         [] ~closed /\ Free(slots) = {} /\ Len(queue) >= MaxQueue ->
                      /\ settled' = Settle(settled, asked', "busy")
                      /\ UNCHANGED <<slots, queue, workers, spawned>>
         [] OTHER ->  /\ Dispatch(slots, Append(queue, asked'), workers)
                      /\ UNCHANGED settled
    /\ UNCHANGED <<closed, replies>>

\* A worker has built its job and posts the reply.
WorkerReplies(w) ==
    /\ w.job # None
    /\ replies' = replies \cup {[slot |-> w.slot, job |-> w.job]}
    /\ workers' = (workers \ {w}) \cup {[w EXCEPT !.job = None]}
    /\ UNCHANGED <<slots, queue, asked, closed, settled, spawned>>

\* A mistake: an answer is taken for the job its slot runs now.
ReplyBelieved(m) ==
    /\ replies' = replies \ {m}
    /\ settled' = Settle(settled, m.job, "reply")
    /\ Dispatch([slots EXCEPT ![m.slot].running = None], queue, workers)
    /\ UNCHANGED <<asked, closed>>

\* on "message": heeded only for the job the slot still runs.
ReplyArrives(m) ==
    /\ replies' = replies \ {m}
    /\ IF slots[m.slot].running = m.job
       THEN /\ settled' = Settle(settled, m.job, "reply")
            /\ Dispatch([slots EXCEPT ![m.slot].running = None], queue, workers)
       ELSE UNCHANGED <<slots, queue, workers, spawned, settled>>
    /\ UNCHANGED <<asked, closed>>

\* on "error" and "exit": a worker the slot still holds takes its job with it.
WorkerLost(w) ==
    LET s == w.slot  j == slots[s].running IN
    /\ IF slots[s].worker = w.id
       THEN /\ settled' = IF j = None THEN settled ELSE Settle(settled, j, "lost")
            /\ Dispatch([slots EXCEPT ![s] = [worker |-> None, running |-> None]], queue, workers \ {w})
       ELSE workers' = workers \ {w} /\ UNCHANGED <<slots, queue, spawned, settled>>
    /\ UNCHANGED <<asked, closed, replies>>

\* The timer of a running job: the worker is terminated, its exit comes later.
TimesOut(s) ==
    /\ slots[s].running # None
    /\ settled' = Settle(settled, slots[s].running, "timeout")
    /\ Dispatch([slots EXCEPT ![s] = [worker |-> None, running |-> None]], queue, workers)
    /\ UNCHANGED <<asked, closed, replies>>

Close ==
    /\ ~closed
    /\ closed' = TRUE
    /\ settled' = [j \in DOMAIN settled |->
                      IF j \in ToSet(queue) \/ \E s \in Slots : slots[s].running = j
                      THEN Append(settled[j], "closed") ELSE settled[j]]
    /\ slots' = [s \in Slots |-> [worker |-> None, running |-> None]]
    /\ queue' = <<>>
    /\ UNCHANGED <<asked, workers, spawned, replies>>

Next ==
    \/ Run \/ Close
    \/ \E w \in workers : WorkerReplies(w) \/ WorkerLost(w)
    \/ \E m \in replies : ReplyArrives(m)
    \/ \E s \in Slots : TimesOut(s)

Spec == Init /\ [][Next]_vars
-----------------------------------------------------------------------------
\* Whatever races, a job asked for is settled once, or it still is in exactly one
\* place from which it will be: the queue, or a slot with its timer.  No job
\* waits while a slot is free.
EveryJobSettles ==
    /\ \A j \in 1 .. asked :
          LET at == {s \in Slots : slots[s].running = j}
              in == {i \in DOMAIN queue : queue[i] = j}
          IN  Len(settled[j]) + Cardinality(at) + Cardinality(in) = 1
    /\ queue # <<>> => Free(slots) = {}
    /\ Len(queue) <= MaxQueue
=============================================================================
