---------------------------- MODULE Notifications ----------------------------
(***************************************************************************)
(* The Discord outbox (notifications.ts): rows in memory and in a file, a  *)
(* flush that holds one row object while it waits for Discord, and the     *)
(* callers that enqueue or configure meanwhile.  A write may fail and the  *)
(* process may end at any point.  A flush looks at the URL once, before    *)
(* its first row.                                                          *)
(*                                                                         *)
(* held is the row object of the flush in progress; live tells whether it  *)
(* is still a row of the state in memory, which configure() clones and a   *)
(* failed write reloads.  Back-off only delays a row: any active row may   *)
(* be the next one due.  owed and received are history.                    *)
(***************************************************************************)
EXTENDS Integers, Sequences, FiniteSets

CONSTANTS
    Notices,     \* notification ids
    MaxRows,     \* MAX_ROWS
    MaxQueue,    \* MAX_QUEUE
    MaxAttempts, \* the tries a row gets
    Faults       \* bound: failed writes and restarts

VARIABLES
    mem, file,   \* [url, rows]: is there a webhook URL, and what is to be sent
    flushing,    \* a flush goes on with further rows
    held,        \* the row being sent
    faults,
    owed,        \* accepted, and neither delivered nor given up
    received     \* what Discord has shown

noticeVars == <<mem, file, flushing, held, faults, owed, received>>

NoRow == [id |-> "none", live |-> FALSE, sent |-> FALSE, shown |-> FALSE, attempts |-> 0]

Init ==
    /\ mem = [url |-> TRUE, rows |-> <<>>] /\ file = mem
    /\ flushing = FALSE /\ held = NoRow /\ faults = 0
    /\ owed = {} /\ received = {}

\* A mistake: a row being sent may be taken for one that is done.
ActiveAtRest(r) == r.state \in {"queued", "ambiguous"}

Active(r) == r.state \in {"queued", "sending", "ambiguous"}

\* What a process that finds a row in flight makes of it.
Doubtful(state) ==
    [state EXCEPT !.rows = [k \in DOMAIN @ |->
        IF @[k].state = "sending" THEN [@[k] EXCEPT !.state = "ambiguous"] ELSE @[k]]]

\* persist(): the new state is on disk, or the old one is in memory again.
Stored(state) == mem' = state /\ file' = state /\ faults' = faults

NotStored ==
    /\ faults < Faults /\ faults' = faults + 1
    /\ mem' = Doubtful(file) /\ file' = file

\* The oldest inactive rows go while there are too many; the others move up.
Kept(rows) ==
    {k \in DOMAIN rows : ~Active(rows[k]) =>
        Cardinality({j \in 1 .. k : ~Active(rows[j])}) > Len(rows) - MaxRows}
Nth(S, i) == CHOOSE k \in S : Cardinality(S \cap (1 .. k)) = i
Trimmed(rows) == [i \in 1 .. Cardinality(Kept(rows)) |-> rows[Nth(Kept(rows), i)]]

Orphaned == held' = [held EXCEPT !.live = FALSE]

EnqueueRow(n) ==
    /\ mem.url
    /\ \A k \in DOMAIN mem.rows : mem.rows[k].id # n
    /\ Len(SelectSeq(mem.rows, Active)) < MaxQueue
    /\ \/ /\ Stored([mem EXCEPT !.rows =
               Trimmed(Append(@, [id |-> n, state |-> "queued", attempts |-> 0]))])
          /\ owed' = owed \cup {n} /\ received' = received \ {n}
          /\ UNCHANGED held
       \/ NotStored /\ Orphaned /\ UNCHANGED <<owed, received>>
    /\ UNCHANGED flushing

\* configure() works on a clone of the whole state.
Configure(on) ==
    /\ Stored([mem EXCEPT !.url = on]) \/ NotStored
    /\ Orphaned
    /\ UNCHANGED <<flushing, owed, received>>

\* flush(): one row is marked and written before its request leaves.
Send(k) ==
    /\ held = NoRow /\ (mem.url \/ flushing)
    /\ mem.rows[k].state \in {"queued", "ambiguous"}
    /\ LET row == [mem.rows[k] EXCEPT !.state = "sending", !.attempts = @ + 1]
       IN  \/ /\ Stored([mem EXCEPT !.rows[k] = row])
              /\ held' = [id |-> row.id, live |-> TRUE, sent |-> mem.url, shown |-> FALSE,
                          attempts |-> row.attempts]
              /\ flushing' = TRUE
           \/ NotStored /\ flushing' = FALSE /\ UNCHANGED held
    /\ UNCHANGED <<owed, received>>

\* Discord shows the message whether or not its answer gets through.
Reaches ==
    /\ held.sent
    /\ received' = received \cup {held.id}
    /\ owed' = owed \ {held.id}

Shown ==
    /\ Reaches
    /\ held' = [held EXCEPT !.shown = TRUE]
    /\ UNCHANGED <<mem, file, flushing, faults>>

\* The state an answer, or none, gives the row object; a request to no URL has
\* no answer.
Outcomes ==
    LET again(s) == IF held.attempts >= MaxAttempts THEN "failed" ELSE s
    IN  {again("ambiguous")} \cup
        (IF ~held.sent THEN {}
         ELSE IF held.shown THEN {"delivered"}
         ELSE {"failed", again("queued")})

Recorded(s) ==
    IF held.live
    THEN [mem EXCEPT !.rows = [k \in DOMAIN @ |->
             IF @[k].id = held.id THEN [@[k] EXCEPT !.state = s] ELSE @[k]]]
    ELSE mem

Answered ==
    /\ held # NoRow
    /\ \E s \in Outcomes :
         /\ \/ /\ LET after == Recorded(s) IN Stored([after EXCEPT !.rows = Trimmed(@)])
               /\ flushing' \in BOOLEAN
            \/ NotStored /\ flushing' = FALSE
         /\ owed' = IF s = "failed" /\ held.live THEN owed \ {held.id} ELSE owed
    /\ held' = NoRow
    /\ UNCHANGED received

\* The process ends; the next one settles what was in flight, which Discord may
\* still show.
Restart ==
    /\ faults < Faults /\ faults' = faults + 1
    /\ mem' = Doubtful(file) /\ file' = Doubtful(file)
    /\ flushing' = FALSE /\ held' = NoRow
    /\ Reaches \/ UNCHANGED <<owed, received>>

Next ==
    \/ \E n \in Notices : EnqueueRow(n)
    \/ \E on \in BOOLEAN : Configure(on)
    \/ \E k \in DOMAIN mem.rows : Send(k)
    \/ Shown \/ Answered \/ Restart

Spec == Init /\ [][Next]_noticeVars

RowsOf(n) == {k \in DOMAIN file.rows : file.rows[k].id = n}

-----------------------------------------------------------------------------
\* An accepted notification stays in the file, in a state that is sent again
\* after a restart, until Discord shows it or the outbox gives it up; a row is
\* called delivered only when it was shown; one that has no attempt on record
\* was never shown, whatever ended the process; a notification has one row.
NoticesAreKept ==
    /\ \A n \in owed : \E k \in RowsOf(n) : Active(file.rows[k])
    /\ \A k \in DOMAIN file.rows :
         /\ file.rows[k].state = "delivered" => file.rows[k].id \in received
         /\ file.rows[k].id \in received => file.rows[k].attempts > 0
    /\ \A k, j \in DOMAIN file.rows : file.rows[k].id = file.rows[j].id => k = j

\* A row in flight belongs to a flush: no other one waits for an answer.
FlightIsAnswered ==
    held = NoRow => \A k \in DOMAIN mem.rows : mem.rows[k].state # "sending"
=============================================================================
