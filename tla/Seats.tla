------------------------------- MODULE Seats -------------------------------
(***************************************************************************)
(* One licence, one server: the seat a licence gives to the installs that  *)
(* check in.  A check-in of a holder renews its seat; one of a newcomer    *)
(* takes a seat only when a holder has been silent for the release window. *)
(* The operator may release the seat, change its limit, revoke the licence *)
(* or restart the Hub under another policy.                                *)
(*                                                                         *)
(* A clone signal is an input of the check-in.  told and peak are history:  *)
(* when each install was last told to trade under the present policy, and  *)
(* the most installs that were allowed to since.                           *)
(***************************************************************************)
EXTENDS Integers, Sequences, FiniteSets

CONSTANTS
    Installs,    \* install ids that present the licence
    Limits,      \* seat limits the operator sets
    Default,     \* HUB_SEAT_DEFAULT_LIMIT
    Release,     \* releaseAfterMs
    MaxNow       \* bound on time

VARIABLES
    seat,        \* [installs, limit]: the licence's row of license-seats.v1.json
    policy,      \* [enforce, clone]
    valid,       \* the registry knows the licence and has not revoked it
    now,
    answer,      \* [to, said]: the last answer to a check-in
    told, peak

seatVars == <<seat, policy, valid, now, answer, told, peak>>

Policies == [enforce: BOOLEAN, clone: BOOLEAN]

Never == -Release

NoAnswer == [to |-> "nobody", said |-> "ok"]

Init ==
    /\ seat = [installs |-> <<>>, limit |-> Default]
    /\ policy = [enforce |-> TRUE, clone |-> FALSE]
    /\ valid = TRUE
    /\ now = 0
    /\ answer = NoAnswer
    /\ told = [i \in Installs |-> Never]
    /\ peak = Default

HeldBy(i) == SelectSeq(seat.installs, LAMBDA h : h.id = i)

Answers(i, said) ==
    /\ answer' = [to |-> i, said |-> said]
    /\ told' = IF said = "ok" THEN [told EXCEPT ![i] = now] ELSE told
    /\ UNCHANGED <<policy, valid, now, peak>>

\* A holder: its visit is recorded whatever the answer is.  cloned: the
\* addresses recorded for it show two machines with one install id.
Renew(i, cloned) ==
    /\ HeldBy(i) # <<>>
    /\ seat' = [seat EXCEPT !.installs =
                  [k \in DOMAIN @ |-> IF @[k].id = i THEN [@[k] EXCEPT !.seen = now] ELSE @[k]]]
    /\ Answers(i, IF policy.enforce /\ policy.clone /\ cloned THEN "clone" ELSE "ok")

Alive == SelectSeq(seat.installs, LAMBDA h : now - h.seen < Release)

Taken == Len(Alive) >= seat.limit

\* Without enforcement the newest installs keep the record bounded.
Room == IF Taken THEN SubSeq(Alive, Len(Alive) - seat.limit + 2, Len(Alive)) ELSE Alive

Enter(i) ==
    /\ HeldBy(i) = <<>>
    /\ IF Taken /\ policy.enforce
       THEN /\ seat' = seat
            /\ Answers(i, "taken")
       ELSE /\ seat' = [seat EXCEPT !.installs = Append(Room,
                          [id |-> i, seen |-> now])]
            /\ Answers(i, "ok")

\* The check-in handler: a licence the registry refuses never reaches the seat.
CheckIn(i, cloned) ==
    \/ /\ valid
       /\ Renew(i, cloned) \/ Enter(i)
    \/ /\ ~valid
       /\ seat' = seat
       /\ Answers(i, "revoked")

ReleaseSeat ==
    /\ seat' = [seat EXCEPT !.installs = <<>>]
    /\ told' = [i \in Installs |-> Never]
    /\ peak' = seat.limit
    /\ UNCHANGED <<policy, valid, now, answer>>

SetLimit(n) ==
    /\ seat' = [seat EXCEPT !.limit = n]
    /\ peak' = IF n > peak THEN n ELSE peak
    /\ UNCHANGED <<policy, valid, now, answer, told>>

Registry ==
    /\ valid' = ~valid
    /\ UNCHANGED <<seat, policy, now, answer, told, peak>>

\* A restart reads the policy anew; the rows stay in their file.
Restart(p) ==
    /\ policy' = p
    /\ told' = [i \in Installs |-> Never]
    /\ peak' = IF Len(seat.installs) > seat.limit THEN Len(seat.installs) ELSE seat.limit
    /\ UNCHANGED <<seat, valid, now, answer>>

Tick ==
    /\ now < MaxNow
    /\ now' = now + 1
    /\ UNCHANGED <<seat, policy, valid, answer, told, peak>>

Next ==
    \/ \E i \in Installs, cloned \in BOOLEAN : CheckIn(i, cloned)
    \/ ReleaseSeat
    \/ \E n \in Limits : SetLimit(n)
    \/ Registry
    \/ \E p \in Policies : Restart(p)
    \/ Tick

Spec == Init /\ [][Next]_seatVars

-----------------------------------------------------------------------------
\* "Releases its seat on silence": while the seat is enforced, the installs
\* told to trade within one release window never outnumber the seats the
\* licence had meanwhile, and an install that keeps reporting within the
\* window is never told that another one holds its seat.
SeatsAreFair ==
    /\ policy.enforce =>
         Cardinality({i \in Installs : now - told[i] < Release}) <= peak
    /\ answer.said = "taken" => now - told[answer.to] >= Release
=============================================================================
