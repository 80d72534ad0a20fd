------------------------------ MODULE GzipQueue ------------------------------
(* Compression of large responses (async-gzip.ts): a request reserves a job   *)
(* before it builds its response, compresses or releases it, and the queue    *)
(* bounds jobs, concurrent compressions and the bytes it holds.               *)
EXTENDS Naturals, Sequences, FiniteSets, FiniteSetsExt

CONSTANTS Requests, Sizes, MaxActive, MaxJobs, MaxBytes

VARIABLES reservation,   \* "none", "reserved", "submitted" or "released", per request
          size,          \* bytes it asked to compress
          pending,       \* requests whose input waits, in order
          compressing,   \* requests whose input is being compressed
          active, jobs, retainedBytes,
          answer         \* how its promise was settled

vars == <<reservation, size, pending, compressing, active, jobs, retainedBytes, answer>>

Init ==
    /\ reservation = [r \in Requests |-> "none"] /\ size = [r \in Requests |-> 0]
    /\ pending = <<>> /\ compressing = {}
    /\ active = 0 /\ jobs = 0 /\ retainedBytes = 0
    /\ answer = [r \in Requests |-> "none"]

Reserve(r) ==
    /\ reservation[r] = "none" /\ jobs < MaxJobs
    /\ reservation' = [reservation EXCEPT ![r] = "reserved"]
    /\ jobs' = jobs + 1
    /\ UNCHANGED <<size, pending, compressing, active, retainedBytes, answer>>

\* pump(): one compression starts for one that ended or for one that is new.
Pump(waiting, working, n) ==
    IF n < MaxActive /\ waiting # <<>>
    THEN /\ pending' = Tail(waiting)
         /\ compressing' = working \cup {Head(waiting)}
         /\ active' = n + 1
    ELSE pending' = waiting /\ compressing' = working /\ active' = n

Compress(r, n) ==
    /\ reservation[r] = "reserved"
    /\ size' = [size EXCEPT ![r] = n]
    /\ IF n > MaxBytes - retainedBytes
       THEN /\ reservation' = [reservation EXCEPT ![r] = "released"]
            /\ jobs' = jobs - 1
            /\ answer' = [answer EXCEPT ![r] = "busy"]
            /\ UNCHANGED <<pending, compressing, active, retainedBytes>>
       ELSE /\ reservation' = [reservation EXCEPT ![r] = "submitted"]
            /\ retainedBytes' = retainedBytes + n
            /\ Pump(Append(pending, r), compressing, active)
            /\ UNCHANGED <<jobs, answer>>

\* release(): a no-op once the reservation was used.
Release(r) ==
    /\ reservation[r] = "reserved"
    /\ reservation' = [reservation EXCEPT ![r] = "released"]
    /\ jobs' = jobs - 1
    /\ UNCHANGED <<size, pending, compressing, active, retainedBytes, answer>>

\* finish(): the callback of gzip, or its exception.
Finish(r, how) ==
    /\ r \in compressing
    /\ jobs' = jobs - 1
    /\ retainedBytes' = retainedBytes - size[r]
    /\ answer' = [answer EXCEPT ![r] = how]
    /\ Pump(pending, compressing \ {r}, active - 1)
    /\ UNCHANGED <<reservation, size>>

\* The request is answered and over; its place in the model is used again.
Over(r) ==
    /\ reservation[r] = "released" \/ answer[r] # "none"
    /\ reservation' = [reservation EXCEPT ![r] = "none"]
    /\ answer' = [answer EXCEPT ![r] = "none"] /\ size' = [size EXCEPT ![r] = 0]
    /\ UNCHANGED <<pending, compressing, active, jobs, retainedBytes>>

Next == \E r \in Requests :
    \/ Reserve(r) \/ Release(r) \/ Over(r)
    \/ \E n \in Sizes : Compress(r, n)
    \/ \E how \in {"done", "failed"} : Finish(r, how)

Spec == Init /\ [][Next]_vars
-----------------------------------------------------------------------------
\* No interleaving leaks a slot or a byte: the counters are exactly the work
\* that stands, within the limits, and no input waits beside a free compressor.
CountersAreExact ==
    LET held == {r \in Requests : reservation[r] = "submitted" /\ answer[r] = "none"} IN
    /\ jobs = Cardinality({r \in Requests : reservation[r] = "reserved"} \cup held)
    /\ retainedBytes = MapThenSumSet(LAMBDA r : size[r], held)
    /\ active = Cardinality(compressing)
    /\ jobs <= MaxJobs /\ active <= MaxActive /\ retainedBytes <= MaxBytes
    /\ pending # <<>> => active = MaxActive
=============================================================================
