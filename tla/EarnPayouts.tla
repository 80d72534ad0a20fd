---------------------------- MODULE EarnPayouts -----------------------------
(* Monthly payouts through Stripe (earn-stripe.ts, run() to settleInState()).*)
(* One serial worker: it reads the payments it knows, repeats submissions    *)
(* whose answer it never saw, and admits one job per member and cycle.       *)
(* Ledger entries and the member's payout preference change while it waits.  *)
(* It dies at any moment and starts from the file.                           *)
(*                                                                           *)
(* One member.  Time is in half-days.  Stripe keeps an idempotency key for   *)
(* KeyLife after its first use, and answers a repeated request from it before*)
(* it judges the request anew.                                               *)
EXTENDS Integers, Sequences, FiniteSets, Functions

CONSTANTS Sources,        \* referral, exchange, marketplace
          Fresh,          \* a job older than this is never submitted again (23 h)
          KeyLife,        \* Stripe forgets an idempotency key (24 h)
          CycleLen,       \* length of a month
          MaxTime, MaxBooked   \* bounds: time, operator's entries

VARIABLES now,
          booked,         \* entries of others, by source: before the cycle and in it
          jobs,           \* in the ledger file
          entries,        \* <<kind, job, source>> of the payouts
          stripe,         \* payments Stripe made for a job's key, with their status
          keyAt,          \* first use of a job's idempotency key
          worker,         \* step, jobs to go, statuses read
          preference,     \* the member asked for another rail
          automatic,
          count           \* entries booked by others

vars == <<now, booked, jobs, entries, stripe, keyAt, worker, preference, automatic, count>>

Idle == [pc |-> "idle", todo |-> {}, got |-> {}]
At(pc, todo) == [pc |-> pc, todo |-> todo, got |-> {}]
Cycle == 1 + now \div CycleLen
Ended == {"failed", "canceled", "returned"}

Init ==
    /\ now = 0 /\ jobs = <<>> /\ entries = {} /\ stripe = <<>> /\ keyAt = <<>>
    /\ booked = [s \in Sources |-> [past |-> 1, cur |-> 0]]
    /\ worker = Idle /\ preference = FALSE /\ automatic = TRUE /\ count = 0

Book == <<booked, count>>
File == <<jobs, entries>>
Outside == <<now, preference, automatic>>
AtStripe == <<stripe, keyAt>>

Sign(kind) == IF kind \in {"hold", "payout"} THEN -1 ELSE 1
Booked(s) == booked[s].past + booked[s].cur
OfJobs(s) == SumFunction([e \in {x \in entries : x[3] = s} |-> Sign(e[1]) * jobs[e[2]].alloc[s]])
Balance(s) == Booked(s) + OfJobs(s)

\* Totals the admission works with: what is of an earlier period, and any debt.
Total(s) == booked[s].past + (IF booked[s].cur < 0 THEN booked[s].cur ELSE 0) + OfJobs(s)

\* Debts of one source are taken from the others.
Debt == -SumFunction([s \in {x \in Sources : Total(x) < 0} |-> Total(s)])
Credit == SumFunction([s \in {x \in Sources : Total(x) > 0} |-> Total(s)])
Allocations ==
    {a \in [Sources -> 0 .. MaxBooked + 1] :
        /\ \A s \in Sources : a[s] <= IF Total(s) > 0 THEN Total(s) ELSE 0
        /\ SumFunction(a) = IF Debt < Credit THEN Credit - Debt ELSE 0}

\* settleInState(): what a status read from Stripe does to a job and the books.
Settles(job, status) ==
    status \in Ended \cup {"processing", "posted"} /\ ~job.returned /\ job.status \notin {"failed", "canceled"}
Settled(job, status) ==
    LET paid == job.paid \/ status = "posted" IN
    [job EXCEPT !.status = status, !.paid = paid,
                !.released = @ \/ status \in {"posted"} \cup Ended,
                !.returned = @ \/ (status \in Ended /\ (job.paid \/ status = "returned"))]
Written(j, job, status) ==
    LET srcs == {s \in Sources : job.alloc[s] > 0}
        all(kind) == {<<kind, j, s>> : s \in srcs}
    IN  IF status = "posted" /\ ~job.paid THEN all("release") \cup all("payout")
        ELSE IF status \in Ended /\ job.paid THEN all("reversal")
        ELSE IF status \in Ended /\ ~job.released THEN all("release") ELSE {}
Outcomes(got) == {g \in got : Settles(jobs[g[1]], g[2])}
Apply(got) ==
    /\ jobs' = [j \in DOMAIN jobs |->
                  IF \E g \in Outcomes(got) : g[1] = j
                  THEN Settled(jobs[j], (CHOOSE g \in Outcomes(got) : g[1] = j)[2]) ELSE jobs[j]]
    /\ entries' = entries \cup UNION {Written(g[1], jobs[g[1]], g[2]) : g \in Outcomes(got)}

Status(j) == stripe[j][Len(stripe[j])]
Unanswered == {j \in DOMAIN jobs : ~jobs[j].stripeId /\ jobs[j].status = "submitting"}

\* run(): the payments with an id, then those without, then the admission.
Run ==
    /\ worker.pc = "idle"
    /\ worker' = At("read", {j \in DOMAIN jobs : jobs[j].stripeId /\ jobs[j].status \notin Ended})
    /\ UNCHANGED <<Book, File, Outside, AtStripe>>
ReadPayoutStatus(j) ==
    /\ worker.pc = "read" /\ j \in worker.todo
    /\ \E status \in {Status(j), "error"} :
        worker' = [worker EXCEPT !.todo = @ \ {j}, !.got = @ \cup {<<j, status>>}]
    /\ UNCHANGED <<Book, File, Outside, AtStripe>>
Reconcile ==
    /\ worker.pc = "read" /\ worker.todo = {}
    /\ Apply(worker.got)
    /\ worker' = At("repeat", Unanswered)
    /\ UNCHANGED <<Book, Outside, AtStripe>>

\* A mistake: the key of a submission is trusted longer than it is sure to live.
TooOldLate(job) == now - job.created > Fresh + 1

\* submit(): too old is left for review; otherwise the request, its answer lost,
\* refused, or stored.
TooOld(job) == now - job.created > Fresh
KeyKnown(j) == keyAt[j] >= 0 /\ now - keyAt[j] < KeyLife
Arrives(j) ==
    /\ stripe' = IF KeyKnown(j) THEN stripe ELSE [stripe EXCEPT ![j] = Append(@, "processing")]
    /\ keyAt' = IF KeyKnown(j) THEN keyAt ELSE [keyAt EXCEPT ![j] = now]

Submitted(j, next) ==
    /\ jobs[j].status = "submitting" /\ ~jobs[j].stripeId
    /\ \/ /\ TooOld(jobs[j])
          /\ jobs' = [jobs EXCEPT ![j].status = "needs_review"]
          /\ worker' = next /\ UNCHANGED <<entries, AtStripe>>
       \/ /\ ~TooOld(jobs[j]) /\ Arrives(j)
          /\ \/ jobs' = [jobs EXCEPT ![j].stripeId = TRUE] /\ worker' = [next EXCEPT !.got = {j}]
             \/ worker' = next /\ UNCHANGED jobs           \* the answer is lost
          /\ UNCHANGED entries
       \/ /\ ~TooOld(jobs[j]) /\ worker' = next            \* the request is lost
          /\ UNCHANGED <<File, AtStripe>>
       \/ /\ ~TooOld(jobs[j]) /\ ~KeyKnown(j)              \* 400, 402, 403, 404, 422
          /\ Apply({<<j, "failed">>})
          /\ worker' = next /\ UNCHANGED AtStripe

Repeat(j) ==
    /\ worker.pc = "repeat" /\ worker.got = {} /\ j \in worker.todo
    /\ Submitted(j, At("repeat", worker.todo \ {j}))
    /\ UNCHANGED <<Book, Outside>>
\* The status of a payment just stored is read at once, before the next step.
SettleStored ==
    /\ worker.got # {} /\ worker.pc \in {"repeat", "admitted"}
    /\ \/ Apply({<<j, Status(j)>> : j \in worker.got})
       \/ UNCHANGED File
    /\ worker' = [worker EXCEPT !.got = {}]
    /\ UNCHANGED <<Book, Outside, AtStripe>>

\* The admission: the account and the recipient are asked, then everything is
\* looked at again in the transaction that reserves the money.
Admissible == automatic /\ ~preference /\ \A j \in DOMAIN jobs : jobs[j].cycle # Cycle
AsksStripe ==
    /\ worker.pc = "repeat" /\ worker.todo = {} /\ worker.got = {}
    /\ worker' = IF Admissible THEN At("admit", {Cycle}) ELSE Idle
    /\ UNCHANGED <<Book, File, Outside, AtStripe>>
Admit ==
    /\ worker.pc = "admit"
    /\ IF Admissible /\ worker.todo = {Cycle} /\ Credit > Debt
       THEN \E a \in Allocations :
            /\ jobs' = Append(jobs, [cycle |-> Cycle, alloc |-> a, status |-> "submitting", created |-> now,
                          stripeId |-> FALSE, paid |-> FALSE, released |-> FALSE, returned |-> FALSE])
            /\ entries' = entries \cup {<<"hold", Len(jobs'), s>> : s \in {x \in Sources : a[x] > 0}}
            /\ stripe' = Append(stripe, <<>>) /\ keyAt' = Append(keyAt, -1)
            /\ worker' = At("admitted", {Len(jobs')})
       ELSE worker' = Idle /\ UNCHANGED <<File, AtStripe>>
    /\ UNCHANGED <<Book, Outside>>
SubmitAdmitted(j) ==
    /\ worker.pc = "admitted" /\ j \in worker.todo
    /\ Submitted(j, At("admitted", {}))
    /\ UNCHANGED <<Book, Outside>>
Rest ==
    /\ worker = At("admitted", {})
    /\ worker' = Idle
    /\ UNCHANGED <<Book, File, Outside, AtStripe>>

\* What happens meanwhile.
Tick ==
    /\ now < MaxTime /\ now' = now + 1
    /\ booked' = IF now' % CycleLen # 0 THEN booked
                 ELSE [s \in Sources |-> [past |-> Booked(s), cur |-> 0]]
    /\ UNCHANGED <<count, File, AtStripe, worker, preference, automatic>>
Record(s, c) ==
    /\ count < MaxBooked /\ count' = count + 1
    /\ booked' = [booked EXCEPT ![s].cur = @ + c]
    /\ UNCHANGED <<File, Outside, AtStripe, worker>>
Configure == automatic' = ~automatic /\ UNCHANGED <<now, preference, Book, File, AtStripe, worker>>
SavePreference == preference' = TRUE /\ UNCHANGED <<now, automatic, Book, File, AtStripe, worker>>
StripeMoves(j) ==
    /\ stripe[j] # <<>>
    /\ \E s \in CASE Status(j) = "processing" -> {"posted", "failed", "canceled"}
                  [] Status(j) = "posted" -> {"returned"} [] OTHER -> {} :
          stripe' = [stripe EXCEPT ![j][Len(stripe[j])] = s]
    /\ UNCHANGED <<keyAt, Book, File, Outside, worker>>
Crash == worker # Idle /\ worker' = Idle /\ UNCHANGED <<Book, File, Outside, AtStripe>>

Next ==
    \/ Run \/ Reconcile \/ SettleStored \/ AsksStripe \/ Admit \/ Rest
    \/ Tick \/ Configure \/ SavePreference \/ Crash
    \/ \E j \in DOMAIN jobs : ReadPayoutStatus(j) \/ Repeat(j) \/ SubmitAdmitted(j) \/ StripeMoves(j)
    \/ \E s \in Sources, c \in {-1, 1} : Record(s, c)

Spec == Init /\ [][Next]_vars
-----------------------------------------------------------------------------
Srcs(j) == {s \in Sources : jobs[j].alloc[s] > 0}
HasAll(kind, j) == \A s \in Srcs(j) : <<kind, j, s>> \in entries
HasNone(kind, j) == \A s \in Sources : <<kind, j, s>> \notin entries

\* However answers are lost and whenever the worker dies: Stripe pays a job once
\* at most; a reservation is released without a payout only when no payment is
\* under way or done; and the books of a job are those of its outcome.
PaidOnce ==
    \A j \in DOMAIN jobs :
        /\ Len(stripe[j]) <= 1
        /\ jobs[j].released /\ ~jobs[j].paid => \A i \in DOMAIN stripe[j] : stripe[j][i] \in Ended
        /\ jobs[j].paid => stripe[j] # <<>> /\ HasAll("payout", j)
        /\ HasAll("hold", j)
        /\ IF jobs[j].released THEN HasAll("release", j) ELSE HasNone("release", j)
        /\ IF jobs[j].paid /\ jobs[j].returned THEN HasAll("reversal", j) ELSE HasNone("reversal", j)
        /\ \A i \in DOMAIN jobs : jobs[i].cycle = jobs[j].cycle => i = j

\* A new job never reserves more than the member has, over all sources.
NeverOverdrawn == Len(jobs') > Len(jobs) => SumFunction([s \in Sources |-> Balance(s)])' >= 0
=============================================================================
