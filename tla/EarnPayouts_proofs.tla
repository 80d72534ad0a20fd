------------------------ MODULE EarnPayouts_proofs -------------------------
(***************************************************************************)
(* Proofs about EarnPayouts: Stripe pays a job once at most and the books  *)
(* of a job are those of its outcome, for every set of sources, every      *)
(* length of a month and every time, provided that a job stops being       *)
(* submitted before Stripe may forget its idempotency key.                 *)
(*                                                                         *)
(* Each job is by itself: what Stripe did for its key, what the file says  *)
(* of it and what was booked for it (JobOK).  The worker carries statuses  *)
(* it has read; they may be old, but an end it has read is an end still,   *)
(* and money it has seen paid was paid (Told, WorkerOK).                   *)
(***************************************************************************)
EXTENDS EarnPayouts, SequenceTheorems, TLAPS

\* The durations and the bounds are numbers, and a submission is given up
\* before its key may be forgotten (SUBMISSION_RETRY_MS, 23 h of 24 h).
PayoutAssumption ==
    /\ Fresh \in Nat /\ KeyLife \in Nat /\ Fresh < KeyLife
    /\ CycleLen \in Nat \ {0}
    /\ MaxBooked \in Nat

AtBank == {"processing", "posted", "failed", "canceled", "returned"}
Job == [cycle : Int, alloc : [Sources -> Nat], status : AtBank \cup {"submitting", "needs_review"},
        created : Nat, stripeId : BOOLEAN, paid : BOOLEAN, released : BOOLEAN, returned : BOOLEAN]
Kinds == {"hold", "release", "payout", "reversal"}

Typed ==
    /\ now \in Nat
    /\ jobs \in Seq(Job)
    /\ stripe \in Seq(Seq(AtBank)) /\ Len(stripe) = Len(jobs)
    /\ keyAt \in Seq(Int) /\ Len(keyAt) = Len(jobs)
    /\ entries \subseteq Kinds \X (1 .. Len(jobs)) \X Sources

AllEnded(j) == \A i \in DOMAIN stripe[j] : stripe[j][i] \in Ended
Posted(j) == stripe[j] # <<>> /\ stripe[j][1] \in {"posted", "returned"}

\* Stripe was asked once, while its key was known, or not at all.
AskedOnce(j) ==
    /\ jobs[j].created <= now
    /\ keyAt[j] = -1 => stripe[j] = <<>>
    /\ keyAt[j] # -1 => Len(stripe[j]) = 1 /\ jobs[j].created <= keyAt[j] /\ keyAt[j] <= now
    /\ jobs[j].stripeId => keyAt[j] # -1

\* What the file says of a job is true of its payment.
Truthful(j) ==
    LET job == jobs[j] IN
    /\ job.status \in {"submitting", "needs_review"} => ~job.paid /\ ~job.released /\ ~job.returned
    /\ job.paid => job.released /\ Posted(j)
    /\ job.released /\ ~job.paid => AllEnded(j) /\ (job.returned \/ job.status \in {"failed", "canceled"})

Booking(j) ==
    /\ HasAll("hold", j)
    /\ IF jobs[j].released THEN HasAll("release", j) ELSE HasNone("release", j)
    /\ jobs[j].paid => HasAll("payout", j)
    /\ IF jobs[j].paid /\ jobs[j].returned THEN HasAll("reversal", j) ELSE HasNone("reversal", j)

JobOK(j) == AskedOnce(j) /\ Truthful(j) /\ Booking(j)

OnePerCycle == \A i, j \in DOMAIN jobs : jobs[i].cycle = jobs[j].cycle => i = j

\* A status read of a payment, however long ago.
Told(j, status) ==
    /\ status \in AtBank \cup {"error"}
    /\ status \in Ended => AllEnded(j)
    /\ status = "posted" => Posted(j)
TrueReport(got) ==
    /\ \A g \in got : g = <<g[1], g[2]>> /\ g[1] \in DOMAIN jobs /\ Told(g[1], g[2])
    /\ \A g, h \in got : g[1] = h[1] => g = h

Asked == {j \in DOMAIN jobs : stripe[j] # <<>>}
WorkerOK ==
    /\ worker = [pc |-> worker.pc, todo |-> worker.todo, got |-> worker.got]
    /\ worker.pc = "read" =>
          /\ worker.todo \subseteq Asked
          /\ TrueReport(worker.got) /\ \A g \in worker.got : g[1] \notin worker.todo
    /\ worker.pc \in {"repeat", "admitted"} =>
          worker.todo \subseteq DOMAIN jobs /\ worker.got \subseteq Asked

IInv == Typed /\ (\A j \in DOMAIN jobs : JobOK(j)) /\ OnePerCycle /\ WorkerOK

-----------------------------------------------------------------------------
(* settleInState(): one status, one job                                      *)

LEMMA NoLength ==
    ASSUME NEW s, s = <<>>
    PROVE  Len(s) = 0
  <1>1. Len(<<>>) = 0
    OBVIOUS
  <1> QED
    BY <1>1, Zenon

LEMMA JobFacts ==
    ASSUME Typed
    PROVE  /\ Len(jobs) \in Nat
           /\ DOMAIN jobs = 1 .. Len(jobs) /\ DOMAIN stripe = 1 .. Len(jobs)
           /\ DOMAIN keyAt = 1 .. Len(jobs)
           /\ \A j \in DOMAIN jobs : /\ jobs[j] \in Job /\ stripe[j] \in Seq(AtBank)
                                     /\ keyAt[j] \in Int
  BY DEF Typed

LEMMA SettledIs ==
    ASSUME NEW job \in Job, NEW status, Settles(job, status)
    PROVE  /\ Settled(job, status) \in Job
           /\ Settled(job, status).alloc = job.alloc
           /\ Settled(job, status).cycle = job.cycle
           /\ Settled(job, status).created = job.created
           /\ Settled(job, status).stripeId = job.stripeId
           /\ Settled(job, status).status = status
           /\ Settled(job, status).paid = (job.paid \/ status = "posted")
           /\ Settled(job, status).released = (job.released \/ status \in {"posted"} \cup Ended)
           /\ Settled(job, status).returned =
                 (job.returned \/ (status \in Ended /\ (job.paid \/ status = "returned")))
  BY DEF Settles, Settled, Job, AtBank, Ended

\* Apply writes to a job what its one status says, or nothing.
Wrote(j, status) ==
    /\ Settles(jobs[j], status)
    /\ jobs'[j] = Settled(jobs[j], status)
    /\ \A kind, s : <<kind, j, s>> \in entries' <=>
          <<kind, j, s>> \in entries \/ <<kind, j, s>> \in Written(j, jobs[j], status)
WroteNothing(j) ==
    /\ jobs'[j] = jobs[j]
    /\ \A kind, s : <<kind, j, s>> \in entries' <=> <<kind, j, s>> \in entries

LEMMA WrittenOf ==
    ASSUME NEW j, NEW job, NEW status, NEW e \in Written(j, job, status)
    PROVE  \E kind \in Kinds, s \in Sources : e = <<kind, j, s>>
  BY DEF Written, Kinds

LEMMA ApplyOne ==
    ASSUME NEW got, TrueReport(got), Apply(got), NEW j \in DOMAIN jobs
    PROVE  (\E g \in got : g[1] = j /\ Wrote(j, g[2])) \/ WroteNothing(j)
  <1> DEFINE mine == {g \in Outcomes(got) : g[1] = j}
  <1>0. /\ jobs'[j] = IF \E g \in Outcomes(got) : g[1] = j
                      THEN Settled(jobs[j], (CHOOSE g \in Outcomes(got) : g[1] = j)[2]) ELSE jobs[j]
        /\ entries' = entries \cup UNION {Written(g[1], jobs[g[1]], g[2]) : g \in Outcomes(got)}
    BY DEF Apply
  <1>1. ASSUME NEW kind, NEW s, NEW g \in Outcomes(got), <<kind, j, s>> \in Written(g[1], jobs[g[1]], g[2])
        PROVE  g[1] = j
    <2>1. PICK k \in Kinds, t \in Sources : <<kind, j, s>> = <<k, g[1], t>>
      BY <1>1, WrittenOf
    <2> QED
      BY <2>1
  <1>2. CASE mine = {}
    <2>1. jobs'[j] = jobs[j]
      BY <1>0, <1>2
    <2> QED
      BY <1>0, <1>1, <1>2, <2>1 DEF WroteNothing
  <1>3. CASE mine # {}
    <2>1. PICK g \in Outcomes(got) : g[1] = j
      BY <1>3
    <2>2. g \in got /\ Settles(jobs[j], g[2])
      BY <2>1 DEF Outcomes
    <2>3. \A h \in Outcomes(got) : h[1] = j => h = g
      BY <2>1, <2>2 DEF Outcomes, TrueReport
    <2>4. (CHOOSE h \in Outcomes(got) : h[1] = j) = g
      BY <2>1, <2>3
    <2>5. jobs'[j] = Settled(jobs[j], g[2])
      BY <1>0, <2>1, <2>4
    <2>6. \A kind, s : <<kind, j, s>> \in entries' <=>
             <<kind, j, s>> \in entries \/ <<kind, j, s>> \in Written(j, jobs[j], g[2])
      BY <1>0, <1>1, <2>1, <2>3
    <2> QED
      BY <2>1, <2>2, <2>5, <2>6 DEF Wrote
  <1> QED
    BY <1>2, <1>3

LEMMA ApplyTyped ==
    ASSUME Typed, NEW got, TrueReport(got), Apply(got), UNCHANGED <<now, AtStripe>>
    PROVE  Typed' /\ DOMAIN jobs' = DOMAIN jobs
  <1>1. \A j \in DOMAIN jobs : jobs'[j] \in Job
    BY ApplyOne, JobFacts, SettledIs DEF Wrote, WroteNothing
  <1>2. jobs' \in [1 .. Len(jobs) -> Job]
    BY <1>1, JobFacts DEF Apply
  <1>3. jobs' \in Seq(Job) /\ Len(jobs') = Len(jobs) /\ DOMAIN jobs' = DOMAIN jobs
    BY <1>2, JobFacts, SeqDef, LenProperties
  <1>4. entries' \subseteq Kinds \X (1 .. Len(jobs)) \X Sources
    <2>1. ASSUME NEW g \in Outcomes(got), NEW e \in Written(g[1], jobs[g[1]], g[2])
          PROVE  e \in Kinds \X (1 .. Len(jobs)) \X Sources
      <3>1. g[1] \in 1 .. Len(jobs)
        BY JobFacts DEF Outcomes, TrueReport
      <3> QED
        BY <2>1, <3>1, WrittenOf
    <2> QED
      BY <2>1 DEF Apply, Typed
  <1> QED
    BY <1>3, <1>4 DEF Typed, AtStripe

LEMMA ApplyKeepsJob ==
    ASSUME Typed, NEW got, TrueReport(got), Apply(got), UNCHANGED <<now, AtStripe>>,
           NEW j \in DOMAIN jobs, JobOK(j)
    PROVE  JobOK(j)' /\ jobs'[j].cycle = jobs[j].cycle /\ jobs'[j].stripeId = jobs[j].stripeId
  <1> jobs[j] \in Job /\ stripe' = stripe /\ keyAt' = keyAt /\ now' = now
    BY JobFacts DEF AtStripe
  <1>1. CASE WroteNothing(j)
    BY <1>1 DEF WroteNothing, JobOK, AskedOnce, Truthful, Booking, HasAll, HasNone, Srcs, AllEnded, Posted
  <1>2. ASSUME NEW g \in got, g[1] = j, Wrote(j, g[2])
        PROVE  JobOK(j)' /\ jobs'[j].cycle = jobs[j].cycle /\ jobs'[j].stripeId = jobs[j].stripeId
    <2> DEFINE st == g[2]
    <2>1. Told(j, st) /\ Settles(jobs[j], st) /\ jobs'[j] = Settled(jobs[j], st)
      BY <1>2 DEF TrueReport, Wrote
    <2>2. /\ jobs'[j].alloc = jobs[j].alloc
          /\ jobs'[j].cycle = jobs[j].cycle
          /\ jobs'[j].created = jobs[j].created
          /\ jobs'[j].stripeId = jobs[j].stripeId
          /\ jobs'[j].status = st
          /\ jobs'[j].paid = (jobs[j].paid \/ st = "posted")
          /\ jobs'[j].released = (jobs[j].released \/ st \in {"posted"} \cup Ended)
          /\ jobs'[j].returned = (jobs[j].returned \/ (st \in Ended /\ (jobs[j].paid \/ st = "returned")))
      BY <2>1, SettledIs
    <2> HIDE DEF st
    <2>3. AskedOnce(j)'
      BY <2>2 DEF JobOK, AskedOnce
    <2>4. Truthful(j)'
      <3>1. AllEnded(j)' = AllEnded(j) /\ Posted(j)' = Posted(j)
        BY DEF AllEnded, Posted
      <3> QED
        BY <2>1, <2>2, <3>1 DEF JobOK, Truthful, Told, Settles, Ended, Job
    <2>5. Booking(j)'
      <3>1. (Srcs(j))' = Srcs(j) /\ Srcs(j) \subseteq Sources
        BY <2>2 DEF Srcs
      <3>2. \A kind, s : <<kind, j, s>> \in entries' <=>
               <<kind, j, s>> \in entries \/ <<kind, j, s>> \in Written(j, jobs[j], st)
        BY <1>2 DEF Wrote, st
      <3>3. \A kind, s : <<kind, j, s>> \in Written(j, jobs[j], st) <=>
               /\ s \in Srcs(j)
               /\ \/ st = "posted" /\ ~jobs[j].paid /\ kind \in {"release", "payout"}
                  \/ st \in Ended /\ jobs[j].paid /\ kind = "reversal"
                  \/ st \in Ended /\ ~jobs[j].paid /\ ~jobs[j].released /\ kind = "release"
        BY DEF Written, Srcs, Ended
      <3>4. jobs[j].released => jobs[j].paid
        BY <2>1 DEF JobOK, Truthful, Settles, Job
      <3>5. ~jobs[j].returned /\ (jobs[j].paid => jobs[j].released)
        BY <2>1 DEF JobOK, Truthful, Settles
      <3>6. st \in {"processing", "posted"} \cup Ended
        BY <2>1 DEF Settles
      <3> DEFINE All(kind) == \A s \in Srcs(j) : <<kind, j, s>> \in entries
                 No(kind) == \A s \in Sources : <<kind, j, s>> \notin entries
                 Adds(kind) == \/ st = "posted" /\ ~jobs[j].paid /\ kind \in {"release", "payout"}
                               \/ st \in Ended /\ jobs[j].paid /\ kind = "reversal"
                               \/ st \in Ended /\ ~jobs[j].paid /\ ~jobs[j].released /\ kind = "release"
      <3>7. \A kind : /\ All(kind) \/ Adds(kind) => HasAll(kind, j)'
                      /\ No(kind) /\ ~Adds(kind) => HasNone(kind, j)'
        BY <3>1, <3>2, <3>3 DEF HasAll, HasNone
      <3>8. /\ All("hold")
            /\ IF jobs[j].released THEN All("release") ELSE No("release")
            /\ jobs[j].paid => All("payout")
            /\ No("reversal")
        BY <3>5 DEF JobOK, Booking, HasAll, HasNone
      <3> HIDE DEF All, No
      <3>9. HasAll("hold", j)'
        BY <3>7, <3>8
      <3>10. IF jobs'[j].released THEN HasAll("release", j)' ELSE HasNone("release", j)'
        BY <2>2, <3>4, <3>5, <3>6, <3>7, <3>8 DEF Ended
      <3>11. jobs'[j].paid => HasAll("payout", j)'
        BY <2>2, <3>7, <3>8
      <3>12. IF jobs'[j].paid /\ jobs'[j].returned THEN HasAll("reversal", j)' ELSE HasNone("reversal", j)'
        BY <2>2, <3>5, <3>6, <3>7, <3>8 DEF Ended
      <3> QED
        BY <3>9, <3>10, <3>11, <3>12 DEF Booking
    <2> QED
      BY <2>2, <2>3, <2>4, <2>5 DEF JobOK
  <1> QED
    BY <1>1, <1>2, ApplyOne

LEMMA ApplyKeeps ==
    ASSUME Typed, \A j \in DOMAIN jobs : JobOK(j), OnePerCycle,
           NEW got, TrueReport(got), Apply(got), UNCHANGED <<now, AtStripe>>
    PROVE  /\ Typed' /\ (\A j \in DOMAIN jobs : JobOK(j))' /\ OnePerCycle'
           /\ DOMAIN jobs' = DOMAIN jobs
  <1>1. Typed' /\ DOMAIN jobs' = DOMAIN jobs
    BY ApplyTyped
  <1>2. \A j \in DOMAIN jobs : JobOK(j)' /\ jobs'[j].cycle = jobs[j].cycle
    BY ApplyKeepsJob
  <1>3. (\A j \in DOMAIN jobs : JobOK(j))'
    BY <1>1, <1>2
  <1> QED
    BY <1>1, <1>2, <1>3 DEF OnePerCycle

-----------------------------------------------------------------------------
(* Steps that leave file and payments alone                                  *)

FileOK == Typed /\ (\A j \in DOMAIN jobs : JobOK(j)) /\ OnePerCycle

LEMMA FileStays ==
    ASSUME FileOK, UNCHANGED <<File, AtStripe>>, now' \in Nat, now' >= now
    PROVE  FileOK'
  <1> USE DEF File, AtStripe
  <1>1. Typed'
    BY DEF FileOK, Typed
  <1>2. ASSUME NEW j \in DOMAIN jobs
        PROVE  JobOK(j)'
    <2>1. AskedOnce(j)'
      <3>1. jobs[j].created \in Nat /\ keyAt[j] \in Int /\ now \in Nat
        BY JobFacts DEF FileOK, Typed, Job
      <3>2. AskedOnce(j)
        BY DEF FileOK, JobOK
      <3>3. jobs[j].created <= now' /\ (keyAt[j] # -1 => keyAt[j] <= now')
        BY <3>1, <3>2 DEF AskedOnce
      <3> QED
        BY <3>2, <3>3 DEF AskedOnce
    <2>2. Truthful(j)' /\ Booking(j)'
      BY DEF FileOK, JobOK, Truthful, Booking, AllEnded, Posted, HasAll, HasNone, Srcs
    <2> QED
      BY <2>1, <2>2 DEF JobOK
  <1> QED
    BY <1>1, <1>2 DEF FileOK, OnePerCycle

LEMMA WorkerStays ==
    ASSUME WorkerOK, UNCHANGED <<worker, AtStripe>>, DOMAIN jobs' = DOMAIN jobs
    PROVE  WorkerOK'
  <1>1. Asked' = Asked /\ \A j, st : Told(j, st)' = Told(j, st)
    BY DEF Asked, Told, AllEnded, Posted, AtStripe
  <1> QED
    BY <1>1 DEF WorkerOK, TrueReport

LEMMA AskedFacts ==
    ASSUME FileOK, NEW j \in DOMAIN jobs
    PROVE  /\ stripe[j] # <<>> <=> keyAt[j] # -1
           /\ j \in Asked => Len(stripe[j]) = 1 /\ DOMAIN stripe[j] = {1}
                             /\ Status(j) = stripe[j][1] /\ Status(j) \in AtBank
  <1>1. stripe[j] \in Seq(AtBank) /\ AskedOnce(j)
    BY JobFacts DEF FileOK, JobOK
  <1> QED
    BY <1>1 DEF AskedOnce, Asked, Status

\* A status just read is true, and so is an end of a payment never made.
LEMMA ToldNow ==
    ASSUME FileOK, NEW j \in Asked
    PROVE  Told(j, Status(j))
  <1>1. j \in DOMAIN jobs
    BY DEF Asked
  <1> QED
    BY <1>1, AskedFacts DEF Told, AllEnded, Posted, Asked

LEMMA InitIInv ==
    ASSUME Init
    PROVE  IInv
  <1>1. Typed
    BY DEF Init, Typed
  <1>2. DOMAIN jobs = {}
    BY DEF Init
  <1>3. WorkerOK
    BY DEF Init, WorkerOK, Idle
  <1> QED
    BY <1>1, <1>2, <1>3 DEF IInv, OnePerCycle

LEMMA FileUntouched ==
    ASSUME IInv, UNCHANGED <<File, AtStripe>>, now' = now \/ (now' = now + 1), WorkerOK'
    PROVE  IInv'
  <1>1. FileOK'
    BY FileStays DEF IInv, FileOK, Typed
  <1> QED
    BY <1>1 DEF IInv, FileOK

LEMMA RunStep ==
    ASSUME IInv, Run
    PROVE  IInv'
  <1>1. \A j \in DOMAIN jobs : jobs[j].stripeId => j \in Asked
    BY AskedFacts DEF IInv, FileOK, JobOK, AskedOnce, Asked
  <1>2. WorkerOK'
    BY <1>1 DEF Run, WorkerOK, At, TrueReport, Asked, AtStripe, File
  <1> QED
    BY <1>2, FileUntouched DEF Run, Outside

LEMMA ReadStep ==
    ASSUME IInv, NEW j \in DOMAIN jobs, ReadPayoutStatus(j)
    PROVE  IInv'
  <1>1. PICK status \in {Status(j), "error"} :
           worker' = [worker EXCEPT !.todo = @ \ {j}, !.got = @ \cup {<<j, status>>}]
    BY DEF ReadPayoutStatus
  <1>2. UNCHANGED <<File, AtStripe>> /\ now' = now /\ j \in worker.todo /\ worker.pc = "read"
    BY DEF ReadPayoutStatus, Outside
  <1>3. WorkerOK /\ FileOK
    BY DEF IInv, FileOK
  <1>4. /\ worker'.pc = "read" /\ worker'.todo = worker.todo \ {j}
        /\ worker'.got = worker.got \cup {<<j, status>>}
        /\ worker' = [pc |-> worker'.pc, todo |-> worker'.todo, got |-> worker'.got]
    BY <1>1, <1>2, <1>3 DEF WorkerOK
  <1>5. Told(j, status)
    BY <1>2, <1>3, ToldNow DEF Told, WorkerOK, Ended
  <1>6. TrueReport(worker'.got)
    BY <1>2, <1>3, <1>4, <1>5 DEF TrueReport, WorkerOK
  <1>7. Asked' = Asked /\ (\A i, st : Told(i, st)' = Told(i, st)) /\ DOMAIN jobs' = DOMAIN jobs
    BY <1>2 DEF Asked, Told, AllEnded, Posted, AtStripe, File
  <1>8. \A g \in worker'.got : g = <<g[1], g[2]>> /\ g[1] \in DOMAIN jobs' /\ Told(g[1], g[2])'
    BY <1>6, <1>7 DEF TrueReport
  <1>9. \A g, h \in worker'.got : g[1] = h[1] => g = h
    BY <1>6 DEF TrueReport
  <1>10. WorkerOK'
    BY <1>2, <1>3, <1>4, <1>7, <1>8, <1>9 DEF TrueReport, WorkerOK
  <1> QED
    BY <1>2, <1>10, FileUntouched

LEMMA ReconcileStep ==
    ASSUME IInv, Reconcile
    PROVE  IInv'
  <1>1. FileOK' /\ DOMAIN jobs' = DOMAIN jobs
    BY ApplyKeeps DEF IInv, FileOK, Reconcile, WorkerOK, Outside
  <1>2. \A j \in Unanswered : j \in DOMAIN jobs
    BY DEF Unanswered
  <1>3. WorkerOK'
    BY <1>1, <1>2 DEF Reconcile, WorkerOK, At
  <1> QED
    BY <1>1, <1>3 DEF IInv, FileOK

LEMMA SettleStoredStep ==
    ASSUME IInv, SettleStored
    PROVE  IInv'
  <1> DEFINE got == {<<j, Status(j)>> : j \in worker.got}
  <1>1. WorkerOK /\ FileOK /\ worker.got \subseteq Asked /\ UNCHANGED <<now, AtStripe>>
    BY DEF IInv, FileOK, SettleStored, WorkerOK, Outside
  <1>2. TrueReport(got)
    BY <1>1, ToldNow DEF TrueReport, Asked
  <1>3. FileOK' /\ DOMAIN jobs' = DOMAIN jobs
    <2>1. CASE Apply(got)
      BY <1>1, <1>2, <2>1, ApplyKeeps DEF FileOK
    <2>2. CASE UNCHANGED File
      BY <1>1, <2>2, FileStays DEF FileOK, Typed, File
    <2> QED
      BY <2>1, <2>2 DEF SettleStored
  <1>4. WorkerOK'
    BY <1>1, <1>3 DEF SettleStored, WorkerOK
  <1> QED
    BY <1>3, <1>4 DEF IInv, FileOK

LEMMA EasySteps ==
    ASSUME IInv,
           \/ AsksStripe \/ Rest \/ Tick \/ Configure \/ SavePreference \/ Crash
           \/ \E s \in Sources, c \in {-1, 1} : Record(s, c)
    PROVE  IInv'
  <1> USE DEF Outside, File, AtStripe
  <1>1. UNCHANGED <<File, AtStripe>> /\ (now' = now \/ now' = now + 1)
    BY DEF AsksStripe, Rest, Tick, Configure, SavePreference, Crash, Record
  <1>2. WorkerOK'
    <2>1. CASE UNCHANGED worker
      BY <1>1, <2>1, WorkerStays DEF IInv
    <2>2. CASE AsksStripe \/ Rest \/ Crash
      BY <2>2 DEF AsksStripe, Rest, Crash, Idle, At, WorkerOK
    <2> QED
      BY <2>1, <2>2 DEF Tick, Configure, SavePreference, Record
  <1> QED
    BY <1>1, <1>2, FileUntouched

LEMMA AppendIs ==
    ASSUME NEW S, NEW s \in Seq(S), NEW x \in S
    PROVE  /\ Append(s, x) \in Seq(S) /\ Len(Append(s, x)) = Len(s) + 1
           /\ Append(s, x)[Len(s) + 1] = x
           /\ \A j \in 1 .. Len(s) : Append(s, x)[j] = s[j]
  OBVIOUS

\* The row a job is reserved with has its hold and nothing else, and no payment.
LEMMA AdmitStep ==
    ASSUME PayoutAssumption, IInv, Admit
    PROVE  IInv'
  <1>1. FileOK /\ WorkerOK
    BY DEF IInv, FileOK
  <1>2. CASE worker' = Idle /\ UNCHANGED <<File, AtStripe>>
    <2>1. WorkerOK'
      BY <1>2 DEF WorkerOK, Idle
    <2> QED
      BY <1>2, <2>1, FileUntouched DEF Admit, Outside
  <1>3. CASE Admissible /\ ~(worker' = Idle /\ UNCHANGED <<File, AtStripe>>)
    <2>0. PICK n \in Int : n = Len(jobs) + 1
      BY <1>1 DEF FileOK, Typed
    <2>1. PICK a \in Allocations :
            /\ jobs' = Append(jobs, [cycle |-> Cycle, alloc |-> a, status |-> "submitting", created |-> now,
                          stripeId |-> FALSE, paid |-> FALSE, released |-> FALSE, returned |-> FALSE])
            /\ entries' = entries \cup {<<"hold", Len(jobs'), s>> : s \in {x \in Sources : a[x] > 0}}
            /\ stripe' = Append(stripe, <<>>) /\ keyAt' = Append(keyAt, -1)
            /\ worker' = At("admitted", {Len(jobs')})
      BY <1>3 DEF Admit
    <2> DEFINE job == [cycle |-> Cycle, alloc |-> a, status |-> "submitting", created |-> now,
                       stripeId |-> FALSE, paid |-> FALSE, released |-> FALSE, returned |-> FALSE]
    <2>2. a \in [Sources -> Nat]
      BY <2>1 DEF Allocations, PayoutAssumption
    <2>3. Cycle \in Int /\ now \in Nat /\ now' = now
      BY <1>1 DEF Cycle, FileOK, Typed, PayoutAssumption, Admit, Outside
    <2>4. job \in Job
      BY <2>2, <2>3 DEF Job
    <2>5. /\ n \in Nat /\ Len(jobs') = n
          /\ jobs' \in Seq(Job) /\ stripe' \in Seq(Seq(AtBank)) /\ keyAt' \in Seq(Int)
          /\ Len(stripe') = n /\ Len(keyAt') = n
          /\ DOMAIN jobs = 1 .. Len(jobs) /\ DOMAIN jobs' = 1 .. n
          /\ \A j \in 1 .. Len(jobs) : jobs'[j] = jobs[j] /\ stripe'[j] = stripe[j] /\ keyAt'[j] = keyAt[j]
          /\ jobs'[n] = job /\ stripe'[n] = <<>> /\ keyAt'[n] = -1
      <3> HIDE DEF job
      <3>1. <<>> \in Seq(AtBank)
        OBVIOUS
      <3>2. jobs' = Append(jobs, job) /\ stripe' = Append(stripe, <<>>) /\ keyAt' = Append(keyAt, -1)
        BY <2>1 DEF job
      <3>3. jobs \in Seq(Job) /\ stripe \in Seq(Seq(AtBank)) /\ keyAt \in Seq(Int)
            /\ Len(stripe) = Len(jobs) /\ Len(keyAt) = Len(jobs)
        BY <1>1 DEF FileOK, Typed
      <3>4. /\ jobs' \in Seq(Job) /\ Len(jobs') = n /\ jobs'[n] = job
            /\ \A j \in 1 .. Len(jobs) : jobs'[j] = jobs[j]
        BY <2>0, <2>4, <3>2, <3>3, AppendIs
      <3>5. /\ stripe' \in Seq(Seq(AtBank)) /\ Len(stripe') = n /\ stripe'[n] = <<>>
            /\ \A j \in 1 .. Len(jobs) : stripe'[j] = stripe[j]
        BY <2>0, <3>1, <3>2, <3>3, AppendIs
      <3>6. /\ keyAt' \in Seq(Int) /\ Len(keyAt') = n /\ keyAt'[n] = -1
            /\ \A j \in 1 .. Len(jobs) : keyAt'[j] = keyAt[j]
        <4>1. -1 \in Int
          OBVIOUS
        <4> QED
          BY <2>0, <4>1, <3>2, <3>3, AppendIs
      <3>7. n \in Nat /\ DOMAIN jobs = 1 .. Len(jobs)
        BY <2>0, <3>3
      <3>8. DOMAIN jobs' = 1 .. n
        BY <3>4
      <3> QED
        BY <3>4, <3>5, <3>6, <3>7, <3>8
    <2>6. entries' = entries \cup {<<"hold", n, s>> : s \in {x \in Sources : a[x] > 0}}
      BY <2>1, <2>5
    <2>7. Typed'
      BY <2>0, <1>1, <2>3, <2>5, <2>6 DEF FileOK, Typed, Kinds
    <2>8. \A kind, s : <<kind, n, s>> \notin entries
      BY <2>0, <1>1, <2>5 DEF FileOK, Typed
    <2>9. ASSUME NEW j \in 1 .. Len(jobs)
          PROVE  JobOK(j)'
      <3>1. j # n /\ j \in DOMAIN jobs
        BY <2>0, <2>5
      <3>2. \A kind, s : <<kind, j, s>> \in entries' <=> <<kind, j, s>> \in entries
        BY <2>6, <3>1
      <3>3. jobs'[j] = jobs[j] /\ stripe'[j] = stripe[j] /\ keyAt'[j] = keyAt[j]
        BY <2>5
      <3>4. AskedOnce(j)' /\ Truthful(j)'
        BY <1>1, <2>3, <3>1, <3>3 DEF FileOK, JobOK, AskedOnce, Truthful, AllEnded, Posted
      <3>5. Booking(j)'
        BY <1>1, <3>1, <3>2, <3>3 DEF FileOK, JobOK, Booking, HasAll, HasNone, Srcs
      <3> QED
        BY <3>4, <3>5 DEF JobOK
    <2>10. JobOK(n)'
      <3>1. AskedOnce(n)' /\ Truthful(n)'
        BY <2>0, <2>3, <2>5 DEF AskedOnce, Truthful
      <3>2. \A kind, s : <<kind, n, s>> \in entries' <=> kind = "hold" /\ s \in Sources /\ a[s] > 0
        BY <2>6, <2>8
      <3>3. Booking(n)'
        BY <2>0, <2>5, <3>2 DEF Booking, HasAll, HasNone, Srcs
      <3> QED
        BY <3>1, <3>3 DEF JobOK
    <2>11. (\A j \in DOMAIN jobs : JobOK(j))'
      BY <2>0, <2>5, <2>9, <2>10
    <2>12. OnePerCycle'
      <3>1. \A j \in 1 .. Len(jobs) : jobs'[j].cycle # jobs'[n].cycle
        <4>1. \A j \in DOMAIN jobs : jobs[j].cycle # Cycle
          BY <1>3 DEF Admissible
        <4>2. jobs'[n].cycle = Cycle
          BY <2>5
        <4> QED
          BY <2>5, <4>1, <4>2
      <3>2. \A i, j \in 1 .. Len(jobs) : jobs'[i].cycle = jobs'[j].cycle => i = j
        BY <1>1, <2>5 DEF FileOK, OnePerCycle
      <3>3. \A i \in DOMAIN jobs' : i \in 1 .. Len(jobs) \/ i = n
        BY <2>0, <2>5
      <3> QED
        BY <3>1, <3>2, <3>3 DEF OnePerCycle
    <2>13. WorkerOK'
      BY <2>0, <2>1, <2>5 DEF WorkerOK, At
    <2> QED
      BY <2>7, <2>11, <2>12, <2>13 DEF IInv
  <1> QED
    BY <1>2, <1>3 DEF Admit

\* A submission whose key is still known is one Stripe has seen or sees first.
LEMMA KeyIsKnown ==
    ASSUME PayoutAssumption, FileOK, NEW j \in DOMAIN jobs, ~TooOld(jobs[j])
    PROVE  KeyKnown(j) <=> keyAt[j] # -1
  <1>1. AskedOnce(j) /\ keyAt[j] \in Int /\ now \in Nat /\ jobs[j].created \in Nat
    BY JobFacts DEF FileOK, JobOK, Typed, Job
  <1> QED
    BY <1>1 DEF AskedOnce, KeyKnown, TooOld, PayoutAssumption

LEMMA ArrivesOnce ==
    ASSUME PayoutAssumption, FileOK, NEW j \in DOMAIN jobs, ~TooOld(jobs[j]), Arrives(j)
    PROVE  /\ \A i \in DOMAIN jobs \ {j} : stripe'[i] = stripe[i] /\ keyAt'[i] = keyAt[i]
           /\ Len(stripe'[j]) = 1 /\ stripe'[j] \in Seq(AtBank) /\ stripe'[j] # <<>>
           /\ keyAt'[j] \in Int /\ keyAt'[j] # -1 /\ jobs[j].created <= keyAt'[j] /\ keyAt'[j] <= now
           /\ stripe' \in Seq(Seq(AtBank)) /\ keyAt' \in Seq(Int)
           /\ Len(stripe') = Len(jobs) /\ Len(keyAt') = Len(jobs)
  <1>1. /\ AskedOnce(j) /\ Typed /\ now \in Nat /\ jobs[j].created \in Nat
        /\ stripe[j] \in Seq(AtBank) /\ keyAt[j] \in Int
        /\ j \in DOMAIN stripe /\ j \in DOMAIN keyAt
        /\ DOMAIN jobs = 1 .. Len(jobs) /\ DOMAIN stripe = DOMAIN jobs /\ DOMAIN keyAt = DOMAIN jobs
    BY JobFacts DEF FileOK, JobOK, Typed, Job
  <1>2. CASE keyAt[j] # -1
    <2>1. stripe' = stripe /\ keyAt' = keyAt
      BY <1>2, KeyIsKnown DEF Arrives
    <2>2. Len(stripe[j]) = 1 /\ jobs[j].created <= keyAt[j] /\ keyAt[j] <= now
      BY <1>1, <1>2 DEF AskedOnce
    <2>4. stripe[j] # <<>>
      BY <2>2, NoLength
    <2>3. /\ stripe \in Seq(Seq(AtBank)) /\ keyAt \in Seq(Int)
          /\ Len(stripe) = Len(jobs) /\ Len(keyAt) = Len(jobs)
      BY <1>1 DEF Typed
    <2> QED
      BY <1>1, <1>2, <2>1, <2>2, <2>3, <2>4
  <1>3. CASE keyAt[j] = -1
    <2>1. /\ stripe' = [stripe EXCEPT ![j] = Append(stripe[j], "processing")]
          /\ keyAt' = [keyAt EXCEPT ![j] = now] /\ stripe[j] = <<>>
      BY <1>1, <1>3, KeyIsKnown DEF Arrives, AskedOnce
    <2>2. Append(stripe[j], "processing") = <<"processing">> /\ <<"processing">> \in Seq(AtBank)
      BY <2>1 DEF AtBank
    <2>3. stripe' = [stripe EXCEPT ![j] = <<"processing">>]
      BY <2>1, <2>2
    <2>4. now # -1 /\ jobs[j].created <= now
      BY <1>1 DEF AskedOnce
    <2> QED
      BY <1>1, <2>1, <2>2, <2>3, <2>4 DEF Typed
  <1> QED
    BY <1>2, <1>3

\* A step that changes the payment of one job, and nothing the books depend on.
LEMMA OneJobMoves ==
    ASSUME FileOK, NEW j \in DOMAIN jobs, Typed', DOMAIN jobs' = DOMAIN jobs,
           entries' = entries, now' = now,
           \A i \in DOMAIN jobs \ {j} :
              jobs'[i] = jobs[i] /\ stripe'[i] = stripe[i] /\ keyAt'[i] = keyAt[i],
           jobs'[j].alloc = jobs[j].alloc, jobs'[j].cycle = jobs[j].cycle,
           jobs'[j].paid = jobs[j].paid, jobs'[j].released = jobs[j].released,
           jobs'[j].returned = jobs[j].returned,
           AskedOnce(j)', Truthful(j)'
    PROVE  FileOK'
  <1>1. ASSUME NEW i \in DOMAIN jobs, i # j
        PROVE  JobOK(i)'
    <2>1. jobs'[i] = jobs[i] /\ stripe'[i] = stripe[i] /\ keyAt'[i] = keyAt[i] /\ JobOK(i)
      BY <1>1 DEF FileOK
    <2>2. AskedOnce(i)' /\ Truthful(i)'
      BY <2>1 DEF JobOK, AskedOnce, Truthful, AllEnded, Posted
    <2>3. Booking(i)'
      BY <2>1 DEF JobOK, Booking, HasAll, HasNone, Srcs
    <2> QED
      BY <2>2, <2>3 DEF JobOK
  <1>2. Booking(j)'
    BY DEF FileOK, JobOK, Booking, HasAll, HasNone, Srcs
  <1>3. \A i \in DOMAIN jobs : JobOK(i)'
    BY <1>1, <1>2 DEF JobOK
  <1>4. OnePerCycle'
    <2>1. \A i \in DOMAIN jobs : jobs'[i].cycle = jobs[i].cycle
      OBVIOUS
    <2> QED
      BY <2>1 DEF FileOK, OnePerCycle
  <1> QED
    BY <1>3, <1>4 DEF FileOK

LEMMA SubmittedKeeps ==
    ASSUME PayoutAssumption, FileOK, NEW j \in DOMAIN jobs, NEW next, Submitted(j, next), now' = now,
           next = At(next.pc, next.todo), next.pc \in {"repeat", "admitted"}, next.todo \subseteq DOMAIN jobs
    PROVE  FileOK' /\ WorkerOK'
  <1>1. /\ Typed /\ JobOK(j) /\ jobs[j] \in Job /\ DOMAIN jobs = 1 .. Len(jobs) /\ Len(jobs) \in Nat
        /\ jobs[j].status = "submitting" /\ ~jobs[j].paid /\ ~jobs[j].released /\ ~jobs[j].returned
    BY JobFacts DEF FileOK, JobOK, Truthful, Submitted
  <1>2. jobs \in Seq(Job) /\ j \in 1 .. Len(jobs)
    BY <1>1 DEF Typed
  <1>3. ASSUME DOMAIN jobs' = DOMAIN jobs, worker' = next
        PROVE  WorkerOK'
    BY <1>3 DEF WorkerOK, At
  <1>4. CASE TooOld(jobs[j]) /\ jobs' = [jobs EXCEPT ![j].status = "needs_review"]
             /\ worker' = next /\ UNCHANGED <<entries, AtStripe>>
    <2> DEFINE new == [jobs[j] EXCEPT !.status = "needs_review"]
    <2>1. new \in Job /\ new.alloc = jobs[j].alloc /\ new.cycle = jobs[j].cycle /\ new.paid = jobs[j].paid
          /\ new.released = jobs[j].released /\ new.returned = jobs[j].returned
          /\ new.created = jobs[j].created /\ new.stripeId = jobs[j].stripeId
      BY <1>1 DEF Job
    <2> HIDE DEF new
    <2>2. jobs' = [jobs EXCEPT ![j] = new]
      BY <1>4 DEF new
    <2>3. jobs' \in Seq(Job) /\ Len(jobs') = Len(jobs) /\ DOMAIN jobs' = DOMAIN jobs
          /\ \A i \in DOMAIN jobs : jobs'[i] = IF i = j THEN new ELSE jobs[i]
      BY <1>1, <1>2, <2>1, <2>2, ExceptSeq
    <2>4. stripe' = stripe /\ keyAt' = keyAt /\ entries' = entries
      BY <1>4 DEF AtStripe
    <2>5. Typed'
      BY <1>1, <2>3, <2>4 DEF Typed
    <2>6. AskedOnce(j)' /\ Truthful(j)'
      BY <1>1, <2>1, <2>3, <2>4 DEF JobOK, AskedOnce, Truthful
    <2>7. FileOK'
      BY <2>1, <2>3, <2>4, <2>5, <2>6, OneJobMoves
    <2> QED
      BY <1>3, <1>4, <2>3, <2>7
  <1>5. CASE ~TooOld(jobs[j]) /\ Arrives(j) /\ UNCHANGED entries
             /\ \/ jobs' = [jobs EXCEPT ![j].stripeId = TRUE] /\ worker' = [next EXCEPT !.got = {j}]
                \/ worker' = next /\ UNCHANGED jobs
    <2> DEFINE new == IF jobs' = jobs THEN jobs[j] ELSE [jobs[j] EXCEPT !.stripeId = TRUE]
    <2>1. /\ \A i \in DOMAIN jobs \ {j} : stripe'[i] = stripe[i] /\ keyAt'[i] = keyAt[i]
          /\ Len(stripe'[j]) = 1 /\ stripe'[j] # <<>>
          /\ keyAt'[j] # -1 /\ jobs[j].created <= keyAt'[j] /\ keyAt'[j] <= now
          /\ stripe' \in Seq(Seq(AtBank)) /\ keyAt' \in Seq(Int)
          /\ Len(stripe') = Len(jobs) /\ Len(keyAt') = Len(jobs)
      BY <1>5, ArrivesOnce
    <2>2. new \in Job /\ new.alloc = jobs[j].alloc /\ new.cycle = jobs[j].cycle /\ new.paid = jobs[j].paid
          /\ new.released = jobs[j].released /\ new.returned = jobs[j].returned
          /\ new.created = jobs[j].created
      BY <1>1 DEF Job
    <2>3. jobs' = [jobs EXCEPT ![j] = new]
      BY <1>2, <1>5
    <2> HIDE DEF new
    <2>4. jobs' \in Seq(Job) /\ Len(jobs') = Len(jobs) /\ DOMAIN jobs' = DOMAIN jobs
          /\ \A i \in DOMAIN jobs : jobs'[i] = IF i = j THEN new ELSE jobs[i]
      BY <1>1, <1>2, <2>2, <2>3, ExceptSeq
    <2>5. Typed'
      BY <1>1, <1>5, <2>1, <2>4 DEF Typed
    <2>6. AskedOnce(j)' /\ Truthful(j)'
      BY <1>1, <2>1, <2>2, <2>4 DEF JobOK, AskedOnce, Truthful
    <2>7. FileOK'
      BY <1>5, <2>1, <2>2, <2>4, <2>5, <2>6, OneJobMoves
    <2>8. CASE worker' = next
      BY <1>3, <2>4, <2>7, <2>8
    <2>9. CASE worker' = [next EXCEPT !.got = {j}]
      <3>1. {j} \subseteq Asked'
        BY <2>1, <2>4 DEF Asked
      <3> QED
        BY <2>4, <2>7, <2>9, <3>1 DEF WorkerOK, At
    <2> QED
      BY <1>5, <2>8, <2>9
  <1>6. CASE worker' = next /\ UNCHANGED <<File, AtStripe>>
    <2>1. FileOK'
      BY <1>1, <1>6, FileStays DEF Typed
    <2> QED
      BY <1>3, <1>6, <2>1 DEF File
  <1>7. CASE ~TooOld(jobs[j]) /\ ~KeyKnown(j) /\ Apply({<<j, "failed">>})
             /\ worker' = next /\ UNCHANGED AtStripe
    <2>1. stripe[j] = <<>>
      BY <1>1, <1>7, KeyIsKnown DEF JobOK, AskedOnce
    <2>2. TrueReport({<<j, "failed">>})
      BY <2>1 DEF TrueReport, Told, AllEnded, AtBank
    <2>3. FileOK' /\ DOMAIN jobs' = DOMAIN jobs
      BY <1>7, <2>2, ApplyKeeps DEF FileOK, AtStripe
    <2> QED
      BY <1>3, <1>7, <2>3
  <1> QED
    BY <1>4, <1>5, <1>6, <1>7 DEF Submitted

LEMMA SubmitSteps ==
    ASSUME PayoutAssumption, IInv, NEW j \in DOMAIN jobs, Repeat(j) \/ SubmitAdmitted(j)
    PROVE  IInv'
  <1> DEFINE next == IF worker.pc = "repeat" THEN At("repeat", worker.todo \ {j}) ELSE At("admitted", {})
  <1>1. /\ Submitted(j, next) /\ now' = now /\ FileOK /\ WorkerOK
        /\ next.pc \in {"repeat", "admitted"} /\ next = At(next.pc, next.todo) /\ next.todo \subseteq DOMAIN jobs
    BY DEF IInv, FileOK, Repeat, SubmitAdmitted, Outside, At, WorkerOK
  <1> HIDE DEF next
  <1> QED
    BY <1>1, SubmittedKeeps DEF IInv, FileOK

\* A payment moves on: an end stays an end, and what was paid was paid.
LEMMA StripeMovesStep ==
    ASSUME IInv, NEW j \in DOMAIN jobs, StripeMoves(j)
    PROVE  IInv'
  <1>1. PICK s \in CASE Status(j) = "processing" -> {"posted", "failed", "canceled"}
                    [] Status(j) = "posted" -> {"returned"} [] OTHER -> {} :
           stripe' = [stripe EXCEPT ![j][Len(stripe[j])] = s]
    BY DEF StripeMoves
  <1>2. UNCHANGED <<keyAt, File, worker, now>> /\ FileOK /\ WorkerOK /\ stripe[j] # <<>>
    BY DEF StripeMoves, Outside, IInv, FileOK
  <1>3. /\ Len(stripe[j]) = 1 /\ DOMAIN stripe[j] = {1} /\ Status(j) = stripe[j][1]
        /\ stripe[j] \in Seq(AtBank) /\ keyAt[j] # -1 /\ j \in 1 .. Len(jobs)
        /\ stripe \in Seq(Seq(AtBank)) /\ Len(stripe) = Len(jobs) /\ DOMAIN jobs = 1 .. Len(jobs)
    BY <1>2, AskedFacts, JobFacts DEF Asked, FileOK, Typed
  <1>4. s \in {"posted", "failed", "canceled", "returned"} /\ stripe[j][1] \notin Ended
        /\ (s = "returned" <=> stripe[j][1] = "posted")
    BY <1>1, <1>3 DEF Ended
  <1> DEFINE made == [stripe[j] EXCEPT ![1] = s]
  <1>5. made \in Seq(AtBank) /\ Len(made) = 1 /\ made[1] = s /\ DOMAIN made = {1}
    <2>1. s \in AtBank /\ 1 \in 1 .. Len(stripe[j])
      BY <1>3, <1>4 DEF AtBank
    <2>2. made \in Seq(AtBank) /\ Len(made) = Len(stripe[j])
          /\ \A i \in 1 .. Len(stripe[j]) : made[i] = IF i = 1 THEN s ELSE stripe[j][i]
      BY <1>3, <2>1, ExceptSeq
    <2> QED
      BY <1>3, <2>1, <2>2, LenProperties
  <1>6. stripe' = [stripe EXCEPT ![j] = made] /\ made # <<>>
    <2>1. [stripe[j] EXCEPT ![Len(stripe[j])] = s] = made
      BY <1>3
    <2>2. made # <<>>
      BY <1>5, NoLength
    <2> QED
      BY <1>1, <2>1, <2>2
  <1> HIDE DEF made
  <1>7. stripe' \in Seq(Seq(AtBank)) /\ Len(stripe') = Len(stripe) /\ stripe'[j] = made
        /\ \A i \in DOMAIN jobs \ {j} : stripe'[i] = stripe[i]
    BY <1>3, <1>5, <1>6, ExceptSeq
  <1>8. /\ ~AllEnded(j) /\ (Posted(j) => Posted(j)')
        /\ Posted(j) = (stripe[j][1] = "posted")
    BY <1>2, <1>3, <1>4, <1>5, <1>6, <1>7 DEF AllEnded, Posted, Ended
  <1>9. FileOK'
    <2>1. Typed' /\ DOMAIN jobs' = DOMAIN jobs /\ JobOK(j)
      BY <1>2, <1>3, <1>7 DEF FileOK, Typed, File
    <2>2. AskedOnce(j)' /\ Truthful(j)'
      BY <1>2, <1>3, <1>5, <1>6, <1>7, <1>8, <2>1 DEF JobOK, AskedOnce, Truthful, File
    <2> QED
      BY <1>2, <1>7, <2>1, <2>2, OneJobMoves DEF File
  <1>10. ASSUME NEW i \in DOMAIN jobs, NEW st, Told(i, st)
         PROVE  Told(i, st)'
    <2>1. CASE i = j
      BY <1>8, <1>10, <2>1 DEF Told
    <2>2. CASE i # j
      <3>1. stripe'[i] = stripe[i]
        BY <1>7, <2>2
      <3>2. AllEnded(i)' = AllEnded(i) /\ Posted(i)' = Posted(i)
        BY <3>1 DEF AllEnded, Posted
      <3> QED
        BY <1>10, <3>2 DEF Told
    <2> QED
      BY <2>1, <2>2
  <1>11. Asked' = Asked
    BY <1>2, <1>6, <1>7 DEF Asked, File
  <1>12. WorkerOK'
    BY <1>2, <1>10, <1>11 DEF WorkerOK, TrueReport, File
  <1> QED
    BY <1>9, <1>12 DEF IInv, FileOK

LEMMA NextIInv ==
    ASSUME PayoutAssumption, IInv, [Next]_vars
    PROVE  IInv'
  <1>1. CASE Run \/ Reconcile \/ SettleStored \/ Admit
    BY <1>1, RunStep, ReconcileStep, SettleStoredStep, AdmitStep
  <1>2. CASE AsksStripe \/ Rest \/ Tick \/ Configure \/ SavePreference \/ Crash
             \/ \E s \in Sources, c \in {-1, 1} : Record(s, c)
    BY <1>2, EasySteps
  <1>3. ASSUME NEW j \in DOMAIN jobs,
               ReadPayoutStatus(j) \/ Repeat(j) \/ SubmitAdmitted(j) \/ StripeMoves(j)
        PROVE  IInv'
    BY <1>3, ReadStep, SubmitSteps, StripeMovesStep
  <1>4. CASE UNCHANGED vars
    <2>1. WorkerOK'
      BY <1>4, WorkerStays DEF vars, IInv, AtStripe
    <2> QED
      BY <1>4, <2>1, FileUntouched DEF vars, File, AtStripe
  <1> QED
    BY <1>1, <1>2, <1>3, <1>4 DEF Next

-----------------------------------------------------------------------------
\* Files, payments and what the worker carries agree at every moment of every
\* instance (earn-stripe.ts, run).
THEOREM PayoutsAgree ==
    ASSUME PayoutAssumption
    PROVE  Spec => []IInv
  <1>1. IInv /\ [Next]_vars => IInv'
    BY NextIInv
  <1> QED
    BY InitIInv, <1>1, PTL DEF Spec

LEMMA AgreeingPaidOnce ==
    ASSUME IInv
    PROVE  PaidOnce
  <1>1. ASSUME NEW j \in DOMAIN jobs
        PROVE  /\ Len(stripe[j]) <= 1
               /\ jobs[j].released /\ ~jobs[j].paid => \A i \in DOMAIN stripe[j] : stripe[j][i] \in Ended
               /\ jobs[j].paid => stripe[j] # <<>> /\ HasAll("payout", j)
               /\ HasAll("hold", j)
               /\ IF jobs[j].released THEN HasAll("release", j) ELSE HasNone("release", j)
               /\ IF jobs[j].paid /\ jobs[j].returned THEN HasAll("reversal", j) ELSE HasNone("reversal", j)
               /\ \A i \in DOMAIN jobs : jobs[i].cycle = jobs[j].cycle => i = j
    <2>1. JobOK(j) /\ OnePerCycle
      BY DEF IInv
    <2>2. Len(stripe[j]) <= 1
      <3>1. CASE stripe[j] = <<>>
        <4>1. Len(stripe[j]) = 0
          BY <3>1, NoLength
        <4> QED
          BY <4>1
      <3>2. CASE keyAt[j] # -1
        <4>1. Len(stripe[j]) = 1
          BY <2>1, <3>2 DEF JobOK, AskedOnce
        <4> QED
          BY <4>1
      <3> QED
        BY <2>1, <3>1, <3>2 DEF JobOK, AskedOnce
    <2> QED
      BY <2>1, <2>2 DEF JobOK, Truthful, Booking, AllEnded, Posted, OnePerCycle
  <1> QED
    BY <1>1 DEF PaidOnce

\* Stripe pays a job once at most, whatever answers are lost and whenever the worker
\* dies; a reservation is given back only when no payment stands; a job's entries are
\* those of its outcome; and a month has one job (submit, settleInState).
THEOREM PayoutsOnce ==
    ASSUME PayoutAssumption
    PROVE  Spec => []PaidOnce
  <1>1. IInv => PaidOnce
    BY AgreeingPaidOnce
  <1> QED
    BY PayoutsAgree, <1>1, PTL
=============================================================================
