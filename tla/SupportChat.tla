----------------------------- MODULE SupportChat -----------------------------
(***************************************************************************)
(* Support conversations (support-chat.ts): a customer's question is       *)
(* stored, an AI answer is paid for out of a monthly budget, and a person  *)
(* may take over at any moment, also while the answer is being made.  The  *)
(* worst cost of a call is reserved before it; a call that fails without a *)
(* bill gives its reservation back, any other keeps it.                    *)
(*                                                                         *)
(* Every conversation is of an owner of its own, who waits for one answer  *)
(* at a time.  usage has the reservations of the month they were made in.  *)
(* billed, top and dropped are history: what the provider charged for the  *)
(* calls of a month, the highest limit of that month, and the              *)
(* conversations whose last question lost its reservation.                 *)
(***************************************************************************)
EXTENDS Naturals, FiniteSets, FiniteSetsExt

CONSTANTS
    Threads,     \* conversations
    Reserve,     \* RESERVE_MICROS: no call costs more
    Limits,      \* monthly limits the operator sets
    MaxMonth,    \* bound
    MaxCalls     \* bound: calls

VARIABLES
    thread,      \* id -> [status, why, unanswered, asked, replied]
    usage,       \* rows [id, month, micros, pending]
    limit, month,
    call,        \* id -> the provider call in flight: its row
    calls,       \* calls made, which numbers their rows
    billed, top, dropped,
    overruled    \* an AI answer was added although a person had taken over

supportVars == <<thread, usage, limit, month, call, calls, billed, top, dropped, overruled>>

NoCall == [id |-> 0, month |-> 0, left |-> FALSE]
NoThread == [status |-> "none", why |-> "none", unanswered |-> FALSE, asked |-> FALSE,
             replied |-> FALSE]
Resumable == {"ai", "quota", "error"}

Init ==
    /\ thread = [t \in Threads |-> NoThread]
    /\ usage = {} /\ calls = 0
    /\ limit \in Limits /\ month = 1
    /\ call = [t \in Threads |-> NoCall]
    /\ billed = [m \in 1..MaxMonth |-> 0]
    /\ top = [m \in 1..MaxMonth |-> limit]
    /\ dropped = {} /\ overruled = FALSE

Spent(m) == MapThenSumSet(LAMBDA u : u.micros, {u \in usage : u.month = m})

Blocked == limit < Spent(month) + Reserve

\* The conversation after the customer's message, before an answer is sought.
Posted(th, wants) ==
    LET back == ~th.asked /\ th.why \in Resumable
        held == wants \/ (th.status = "human" /\ ~back)
        said == CASE th.status = "none" ->
                       [th EXCEPT !.status = IF held THEN "human" ELSE "assistant"]
                  [] th.status = "resolved" -> [th EXCEPT !.status = "human", !.why = "staff"]
                  [] th.status = "human" /\ th.asked /\ th.why # "staff" ->
                       [th EXCEPT !.why = "requested"]
                  [] th.status = "human" /\ back /\ ~held -> [th EXCEPT !.status = "assistant"]
                  [] OTHER -> th
    IN  [now |-> [said EXCEPT !.unanswered = TRUE], held |-> held]

Referred(th, wants) ==
    [th EXCEPT !.status = "human",
               !.why = IF @ = "staff" THEN @
                       ELSE IF wants THEN "requested"
                       ELSE IF @ = "requested" \/ (th.status = "human" /\ @ = "none") THEN @
                       ELSE IF Blocked THEN "quota" ELSE @]

Reserved(t) == [id |-> calls + 1, month |-> month, micros |-> Reserve, pending |-> t]

\* Rows of earlier months go when a reservation is made, in flight or not.
Kept == {u \in usage : u.month = month}

Overdue == {u \in Threads : call[u] # NoCall /\ call[u].month # month}

Ask(t, wants) ==
    /\ call[t] = NoCall
    /\ LET p == Posted(thread[t], wants)
       IN  IF p.now.status = "human" \/ p.held \/ Blocked
           THEN /\ thread' = [thread EXCEPT ![t] = Referred(p.now, wants)]
                /\ UNCHANGED <<usage, call, calls, dropped>>
           ELSE /\ calls < MaxCalls
                /\ calls' = calls + 1
                /\ thread' = [thread EXCEPT ![t] = p.now]
                /\ usage' = Kept \cup {Reserved(t)}
                /\ call' = [call EXCEPT ![t] = [id |-> calls', month |-> month, left |-> TRUE]]
                /\ dropped' = (dropped \ {t}) \cup Overdue
    /\ UNCHANGED <<limit, month, billed, top, overruled>>

Row(t) == {u \in usage : u.id = call[t].id}

Failed(th) ==
    IF th.status = "assistant" THEN [th EXCEPT !.status = "human", !.why = "error"] ELSE th

\* The provider may charge for a call, answered or not, up to the reserve.
Charges(t, cost) == billed' = [billed EXCEPT ![call[t].month] = @ + cost]

Settled(t, cost) ==
    usage' = (usage \ Row(t)) \cup {[u EXCEPT !.micros = cost, !.pending = "no"] : u \in Row(t)}

\* The answer joins the conversation unless a person has taken it over.
Answered(th, refers) ==
    IF th.status # "assistant" THEN th
    ELSE LET said == [th EXCEPT !.unanswered = FALSE, !.replied = TRUE]
         IN  IF refers THEN [said EXCEPT !.status = "human", !.why = "ai"] ELSE said

AnswerComes(t, cost, refers) ==
    /\ call[t] # NoCall /\ Row(t) # {}
    /\ Settled(t, cost) /\ Charges(t, cost)
    /\ thread' = [thread EXCEPT ![t] = Answered(@, refers)]
    /\ overruled' = (overruled \/ (thread[t].unanswered /\ ~thread'[t].unanswered
                                   /\ ~call[t].left))
    /\ call' = [call EXCEPT ![t] = NoCall]
    /\ UNCHANGED <<limit, month, calls, top, dropped>>

\* No usable answer, or one whose reservation is gone.  Only a refusal is known
\* to cost nothing.
CallFails(t, refused, cost) ==
    /\ call[t] # NoCall /\ (refused => cost = 0)
    /\ usage' = IF refused THEN usage \ Row(t) ELSE usage
    /\ Charges(t, cost)
    /\ thread' = [thread EXCEPT ![t] = Failed(@)]
    /\ call' = [call EXCEPT ![t] = NoCall]
    /\ UNCHANGED <<limit, month, calls, top, dropped, overruled>>

\* A person steps in.
StepsIn(t, th) ==
    /\ thread[t].status # "none"
    /\ thread' = [thread EXCEPT ![t] = th]
    /\ call' = [call EXCEPT ![t].left = FALSE]
    /\ UNCHANGED <<usage, limit, month, calls, billed, top, dropped, overruled>>

\* Staff reply, take over or reopen, and resolve.
Staff(t) ==
    LET taken == [thread[t] EXCEPT !.status = "human", !.why = "staff"]
    IN  \/ StepsIn(t, [taken EXCEPT !.unanswered = FALSE, !.replied = TRUE])
        \/ StepsIn(t, taken)
        \/ StepsIn(t, [thread[t] EXCEPT !.status = "resolved", !.why = "none"])

\* The customer marks a reply as helpful, maybe one that had needed help, or asks
\* for a person.
Marks(t) ==
    /\ thread[t].replied
    /\ \/ \E asked \in {thread[t].asked, FALSE} :
            StepsIn(t, [thread[t] EXCEPT !.status = "resolved", !.why = "none", !.asked = asked])
       \/ StepsIn(t, [thread[t] EXCEPT !.status = "human", !.why = "requested", !.asked = TRUE])

Delete(t) ==
    /\ thread[t].status # "none" /\ call[t] = NoCall
    /\ thread' = [thread EXCEPT ![t] = NoThread]
    /\ UNCHANGED <<usage, limit, month, call, calls, billed, top, dropped, overruled>>

\* The budget is raised or lowered at any time.
SetLimit(n) ==
    /\ limit' = n
    /\ top' = [top EXCEPT ![month] = IF n > @ THEN n ELSE @]
    /\ UNCHANGED <<thread, usage, month, call, calls, billed, dropped, overruled>>

MonthEnds ==
    /\ month < MaxMonth
    /\ month' = month + 1
    /\ top' = [top EXCEPT ![month'] = limit]
    /\ UNCHANGED <<thread, usage, limit, call, calls, billed, dropped, overruled>>

\* A restart hands the questions of pending reservations to the team.
Orphans == {t \in Threads : /\ \E u \in usage : u.pending = t
                            /\ thread[t].status = "assistant" /\ thread[t].unanswered}

\* The process ends and starts again; a call in flight may be charged all the
\* same.
Restart(cost) ==
    /\ thread' = [t \in Threads |-> IF t \in Orphans THEN Failed(thread[t]) ELSE thread[t]]
    /\ billed' = [m \in 1..MaxMonth |->
         billed[m] + cost * Cardinality({t \in Threads : call[t] # NoCall /\ call[t].month = m})]
    /\ call' = [t \in Threads |-> NoCall]
    /\ UNCHANGED <<usage, limit, month, calls, top, dropped, overruled>>

\* The second write of a question does not take place: it fails, or the process
\* ends before it and a restart follows.
AskFails(t, wants) ==
    /\ call[t] = NoCall
    /\ thread' = [thread EXCEPT ![t] = Posted(@, wants).now]
    /\ dropped' = dropped \cup {t}
    /\ UNCHANGED <<usage, limit, month, call, calls, billed, top, overruled>>

Next ==
    \/ \E t \in Threads, wants \in BOOLEAN : Ask(t, wants) \/ AskFails(t, wants)
    \/ \E t \in Threads : Staff(t) \/ Marks(t) \/ Delete(t)
    \/ \E t \in Threads, cost \in {1, Reserve}, refers \in BOOLEAN : AnswerComes(t, cost, refers)
    \/ \E t \in Threads, refused \in BOOLEAN, cost \in {0, Reserve} : CallFails(t, refused, cost)
    \/ \E n \in Limits : SetLimit(n)
    \/ MonthEnds
    \/ \E cost \in {0, Reserve} : Restart(cost)

Spec == Init /\ [][Next]_supportVars

-----------------------------------------------------------------------------
\* An AI answer never overrules a person who stepped in while it was made; the
\* provider never charges more for a month's calls than that month's limit; a
\* question left with the assistant is being answered, or its reservation was
\* lost with a write or a month.
SupportHolds ==
    /\ ~overruled
    /\ \A m \in 1..MaxMonth : billed[m] <= top[m]
    /\ \A t \in Threads : thread[t].status = "assistant" /\ thread[t].unanswered
                             => call[t] # NoCall \/ t \in dropped
=============================================================================
