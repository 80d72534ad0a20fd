----------------------------- MODULE LeaseLedger -----------------------------
(***************************************************************************)
(* The files under the licence leases (src/license-leases.ts 804-1255): a  *)
(* lock, the active segment of the ledger, its archived segments, and the  *)
(* signed head that counts the lines and names the last hash.  The hubs    *)
(* are processes on one data directory; each may die between any two       *)
(* writes, and each write may fail with an exception.                      *)
(*                                                                         *)
(* A hash is the history it stands for: a line holds the history it was    *)
(* chained to, and the head the whole history it signs.                    *)
(***************************************************************************)
EXTENDS Naturals, FiniteSets, SequencesExt

CONSTANTS
    Hubs, Pids, NoOne,
    RotateAt,       \* ledgerRotateBytes, in lines
    MaxEvents,      \* bound: operations that get as far as an event
    MaxFailures     \* bound: deaths of a hub, and writes that throw

ASSUME LedgerAssumption ==
    /\ NoOne \notin Hubs \cup Pids /\ Cardinality(Pids) >= Cardinality(Hubs)
    /\ RotateAt \in Nat \ {0} /\ MaxEvents \in Nat \ {0} /\ MaxFailures \in Nat

VARIABLES
    archives,       \* the segments, oldest first
    active,         \* the lines of the active segment, or no such file
    head,           \* license-lease-audit-head.v1.json
    lock,           \* license-lease-write.v1.lock
    hub,            \* the processes
    events,         \* the last event an operation of some hub decided on
    failures,
    \* what happened, for the properties alone:
    log,            \* the history read last
    acked,          \* the events whose operation returned, in that order
    basis,          \* the history each event was decided on
    clashed         \* two hubs have changed the files at the same time

files == <<archives, active, head>>
vars == <<archives, active, head, lock, hub, events, failures, log, acked, basis, clashed>>

Line(e, prev) == [event |-> e, prev |-> prev]
Torn == Line(0, <<>>)       \* bytes that are no JSON
NoFile == <<Line(0, <<0>>)>>
NoLock == [by |-> NoOne, owner |-> NoOne]
First == 1                  \* ledger_initialized

Init ==
    /\ archives = <<>> /\ active = <<Line(First, <<>>)>> /\ head = <<First>>
    /\ lock = NoLock /\ events = First /\ failures = 0
    /\ \E pid \in [Hubs -> Pids] :
        /\ \A g, h \in Hubs : pid[g] = pid[h] => g = h
        /\ hub = [h \in Hubs |-> [pc |-> "idle", pid |-> pid[h], on |-> <<>>,
                                  event |-> 0, target |-> 0, again |-> FALSE]]
    /\ log = head /\ acked = <<>> /\ basis = << <<>> >> /\ clashed = FALSE

-----------------------------------------------------------------------------
(* reading the ledger *)

\* A torn last line of the active segment is not read.
ActiveLines ==
    IF active = NoFile THEN <<>>
    ELSE IF active # <<>> /\ Last(active) = Torn THEN Front(active) ELSE active

Lines == FlattenSeq(archives) \o ActiveLines

EventsOf(lines) == [i \in DOMAIN lines |-> lines[i].event]

Chained(lines) ==
    \A i \in DOMAIN lines :
        lines[i] # Torn /\ lines[i].prev = EventsOf(SubSeq(lines, 1, i - 1))

\* Mutant: an active segment is expected, also in the middle of a rotation.
ReplaysBoth ==
    /\ active # NoFile /\ \A i \in DOMAIN archives : archives[i] # <<>>
    /\ Chained(Lines) /\ head = EventsOf(Lines)

\* replay: every segment whole, every line chained, and the head at the end.
Replays ==
    /\ \A i \in DOMAIN archives : archives[i] # <<>>
    /\ Chained(Lines) /\ head = EventsOf(Lines)

\* Mutant: the torn bytes stay in the file.
RepairedNever == active

\* A replay that succeeds truncates what it did not read.
Repaired == IF active = NoFile THEN NoFile ELSE ActiveLines
Whole == Repaired = active

-----------------------------------------------------------------------------
(* one append: lock, check, rotate, line, head, unlock *)

Goes(h, pc) == hub' = [hub EXCEPT ![h].pc = pc]

\* A hub is between its lock and its unlock, and the lock is its own.
Writing == {"stamp", "check", "list", "rename", "create", "line", "head", "unlock"}
Holds(h) == lock.by = h /\ hub[h].pc \in Writing

\* An operation reads the ledger, truncates what it did not read, and decides on
\* an event.
Decide(h) ==
    /\ hub[h].pc = "idle" /\ events < MaxEvents /\ Replays
    /\ events' = events + 1
    /\ basis' = Append(basis, EventsOf(Lines))
    /\ hub' = [hub EXCEPT ![h] = [@ EXCEPT
                    !.pc = IF Whole THEN "lock" ELSE "truncate",
                    !.on = EventsOf(Lines), !.event = events',
                    !.target = Len(ActiveLines), !.again = FALSE]]
    /\ UNCHANGED <<files, lock, failures, acked, clashed>>

\* Nothing locks the file meanwhile: it may have been repaired, or have grown.  A
\* file that has become shorter is filled up with bytes that are no JSON.
Truncate(h) ==
    /\ hub[h].pc = "truncate"
    /\ LET at == hub[h].target
       IN  active' = IF active = NoFile THEN NoFile
                     ELSE IF Len(active) < at THEN Append(active, Torn)
                     ELSE SubSeq(active, 1, at)
    /\ clashed' = (clashed \/ active' \notin {active, Repaired})
    /\ Goes(h, IF hub[h].event = 0
               THEN IF active = NoFile THEN "down" ELSE "idle"
               ELSE IF active = NoFile THEN "idle" ELSE "lock")
    /\ UNCHANGED <<archives, head, lock, events, failures, acked, basis>>

\* The lock file is made empty, and its owner is written a moment later.
Lock(h) ==
    /\ hub[h].pc = "lock"
    /\ IF lock = NoLock
       THEN lock' = [by |-> h, owner |-> NoOne] /\ Goes(h, "stamp")
       ELSE Goes(h, "inspect") /\ UNCHANGED lock
    /\ UNCHANGED <<files, events, failures, acked, basis, clashed>>

Alive(pid) == \E g \in Hubs : hub[g].pc # "down" /\ hub[g].pid = pid

\* Busy if its owner lives; a lock without an owner is taken for a dead one's.
Inspect(h) ==
    /\ hub[h].pc = "inspect"
    /\ Goes(h, IF Alive(lock.owner) \/ hub[h].again THEN "idle" ELSE "seize")
    /\ UNCHANGED <<files, lock, events, failures, acked, basis, clashed>>

RemoveLock(h) == lock' = NoLock /\ clashed' = (clashed \/ \E g \in Hubs \ {h} : Holds(g))

Seize(h) ==
    /\ hub[h].pc = "seize"
    /\ IF lock = NoLock
       THEN Goes(h, "idle") /\ UNCHANGED <<lock, clashed>>
       ELSE /\ RemoveLock(h)
            /\ hub' = [hub EXCEPT ![h].pc = "lock", ![h].again = TRUE]
    /\ UNCHANGED <<files, events, failures, acked, basis>>

\* The pid goes to the file this hub made, whether or not it is still there.
Stamp(h) ==
    /\ hub[h].pc = "stamp"
    /\ lock' = IF lock.by = h THEN [lock EXCEPT !.owner = hub[h].pid] ELSE lock
    /\ Goes(h, "check")
    /\ UNCHANGED <<files, events, failures, acked, basis, clashed>>

\* Mutant: the ledger need not be the one the operation decided on.
CheckReplaysOnly(h) ==
    /\ hub[h].pc = "check"
    /\ active' = IF Replays THEN Repaired ELSE active
    /\ hub' = [hub EXCEPT
                ![h].on = EventsOf(Lines),
                ![h].pc = IF ~Replays THEN "unlock"
                          ELSE IF Len(ActiveLines) >= RotateAt THEN "list" ELSE "line"]
    /\ UNCHANGED <<archives, head, lock, events, failures, acked, basis, clashed>>

\* Under the lock the ledger is read again, and must be as it was.
Check(h) ==
    /\ hub[h].pc = "check"
    /\ active' = IF Replays THEN Repaired ELSE active
    /\ Goes(h, IF ~Replays \/ EventsOf(Lines) # hub[h].on THEN "unlock"
               ELSE IF Len(ActiveLines) >= RotateAt THEN "list" ELSE "line")
    /\ UNCHANGED <<archives, head, lock, events, failures, acked, basis, clashed>>

List(h) ==
    /\ hub[h].pc = "list"
    /\ hub' = [hub EXCEPT ![h].target = Len(archives) + 1,
                          ![h].pc = IF active = NoFile THEN "unlock"
                                    ELSE IF active = <<>> THEN "line" ELSE "rename"]
    /\ UNCHANGED <<files, lock, events, failures, acked, basis, clashed>>

Rename(h) ==
    /\ hub[h].pc = "rename"
    /\ IF active = NoFile
       THEN Goes(h, "unlock") /\ UNCHANGED files
       ELSE /\ archives' = [i \in DOMAIN archives \cup {hub[h].target} |->
                                IF i = hub[h].target THEN active ELSE archives[i]]
            /\ active' = NoFile /\ UNCHANGED head
            /\ Goes(h, "create")
    /\ UNCHANGED <<lock, events, failures, acked, basis, clashed>>

Create(h) ==
    /\ hub[h].pc = "create"
    /\ IF active = NoFile
       THEN active' = <<>> /\ Goes(h, "line")
       ELSE UNCHANGED active /\ Goes(h, "unlock")
    /\ UNCHANGED <<archives, head, lock, events, failures, acked, basis, clashed>>

Written(line) == Append(IF active = NoFile THEN <<>> ELSE active, line)

WriteLine(h) ==
    /\ hub[h].pc = "line"
    /\ active' = Written(Line(hub[h].event, hub[h].on))
    /\ Goes(h, "head")
    /\ UNCHANGED <<archives, head, lock, events, failures, acked, basis, clashed>>

\* A head replaces the other by a rename; with it the event is in force.
WriteHead(h) ==
    /\ hub[h].pc = "head"
    /\ head' = Append(hub[h].on, hub[h].event)
    /\ acked' = Append(acked, hub[h].event)
    /\ Goes(h, "unlock")
    /\ UNCHANGED <<archives, active, lock, events, failures, basis, clashed>>

\* finally: the lock that is there is removed.
Unlock(h) ==
    /\ hub[h].pc = "unlock"
    /\ RemoveLock(h)
    /\ Goes(h, "idle")
    /\ UNCHANGED <<files, events, failures, acked, basis>>

-----------------------------------------------------------------------------
(* failures *)

MayFail == failures < MaxFailures /\ failures' = failures + 1

\* Half a line is written, and then the write throws or the hub dies.
Tears(h) ==
    /\ hub[h].pc = "line" /\ MayFail
    /\ active' = Written(Torn)
    /\ \E pc \in {"unlock", "down"} : Goes(h, pc)
    /\ UNCHANGED <<archives, head, lock, events, acked, basis, clashed>>

\* A write under the lock throws, before or after it took effect.
Throws(h) ==
    /\ hub[h].pc \in {"list", "rename", "create", "line", "head"} /\ MayFail
    /\ Goes(h, "unlock")
    /\ UNCHANGED <<files, lock, events, acked, basis, clashed>>

\* The owner of the lock cannot be written: the lock file stays.
StampThrows(h) ==
    /\ hub[h].pc = "stamp" /\ MayFail
    /\ \/ UNCHANGED lock
       \/ lock.by = h /\ lock' = [lock EXCEPT !.owner = hub[h].pid]
    /\ Goes(h, "idle")
    /\ UNCHANGED <<files, events, acked, basis, clashed>>

Dies(h) ==
    /\ hub[h].pc # "down" /\ MayFail
    /\ Goes(h, "down")
    /\ UNCHANGED <<files, lock, events, acked, basis, clashed>>

\* The constructor reads the ledger, and makes the active segment if a rotation
\* was cut short.  Pids come round again.
Restarts(h) ==
    /\ hub[h].pc = "down" /\ Replays
    /\ active' = IF active = NoFile THEN <<>> ELSE active
    /\ \E pid \in Pids :
        /\ ~Alive(pid)
        /\ hub' = [hub EXCEPT ![h] = [@ EXCEPT
                        !.pc = IF Whole THEN "idle" ELSE "truncate", !.pid = pid,
                        !.event = 0, !.target = Len(ActiveLines)]]
    /\ UNCHANGED <<archives, head, lock, events, failures, acked, basis, clashed>>

Steps(h) ==
    \/ Decide(h) \/ Truncate(h) \/ Lock(h) \/ Inspect(h) \/ Seize(h) \/ Stamp(h) \/ Check(h)
    \/ List(h) \/ Rename(h) \/ Create(h) \/ WriteLine(h) \/ WriteHead(h) \/ Unlock(h)
    \/ Tears(h) \/ Throws(h) \/ StampThrows(h) \/ Dies(h) \/ Restarts(h)

Next ==
    /\ \E h \in Hubs : Steps(h)
    /\ log' = IF Replays' THEN EventsOf(Lines)' ELSE log

Spec == Init /\ [][Next]_vars
-----------------------------------------------------------------------------
(* Properties *)

History == Seq(1..MaxEvents)
Pcs == {"idle", "truncate", "lock", "inspect", "seize", "down"} \cup Writing

\* A lock file always has a maker, whatever the order of creations, removals
\* and pids written late; segments are numbered without a gap (1204-1224, 885-909).
TypeOK ==
    /\ archives \in Seq(Seq([event : 0..MaxEvents, prev : History]))
    /\ active = NoFile \/ active \in Seq([event : 0..MaxEvents, prev : History])
    /\ head \in History /\ log \in History /\ acked \in History
    /\ lock = NoLock \/ lock \in [by : Hubs, owner : Pids \cup {NoOne}]
    /\ hub \in [Hubs -> [pc : Pcs, pid : Pids, on : History, event : 0..MaxEvents,
                         target : Nat, again : BOOLEAN]]
    /\ events \in 1..MaxEvents /\ failures \in 0..MaxFailures
    /\ basis \in [1..events -> History] /\ clashed \in BOOLEAN

\* Unless two hubs changed the files at once, whatever dies or throws between
\* lock, rotation, line, head and unlock: what was acknowledged is all in the
\* ledger and in the head, in order, and at most one whole line is ahead of
\* them - the one state a replay refuses (license-leases.ts 1130-1145, 1239-1251).
Kept ==
    ~clashed =>
        LET kept == <<First>> \o acked
        IN  /\ head = kept /\ Chained(Lines)
            /\ \/ EventsOf(Lines) = kept
               \/ \E e \in 1..events : EventsOf(Lines) = Append(kept, e)

\* No event of a history that is read was decided on another history than the
\* one before it, not even when two hubs write at once (1227-1229, 994-998).
DecidedOnTheLog ==
    \A i \in 2..Len(log) : basis[log[i]] = SubSeq(log, 1, i - 1)

\* The files are one growing log to everyone who reads them: rotations, torn
\* lines, deaths and restarts are not seen in it, and an interrupted append is
\* never taken back once its line is whole (README 1532-1538).
Promise == INSTANCE SignedLog
            WITH Events <- 1..MaxEvents, reads <- Replays, shared <- clashed
KeepsItsPromise == Promise!Spec

\* Hubs and pids are interchangeable (for TLC).
Symmetry == Permutations(Hubs) \cup Permutations(Pids)
=============================================================================
