---------------------------- MODULE LicenseLeases ----------------------------
(***************************************************************************)
(* Machine-bound licence leases (src/license-leases.ts): an install asks   *)
(* for a challenge, proves its key on it, and gets an activation, a        *)
(* renewal, a rebind to another machine or its release.  The operator      *)
(* grants seats and retires lost machines.                                 *)
(*                                                                         *)
(* Every operation is synchronous code of one process: it replays the      *)
(* ledger, decides, and appends one event, so each is one step on the book *)
(* the ledger replays to.  LeaseLedger says why an append is atomic.       *)
(***************************************************************************)
EXTENDS Naturals, FiniteSets

CONSTANTS
    Licences,
    Activations,    \* what randomId returns for activations
    Nonces,         \* what randomBytes returns for challenges
    Installs, Keys,
    NoOne,
    DefaultLimit,   \* defaultMaxMachines
    MaxLimit,       \* the largest seat override, 64 in the code
    Ttl,            \* challengeTtlMs
    Lag,            \* Math.min(1000, challengeTtlMs - 1) of a deactivation
    LeaseTime,      \* leaseDurationMs
    Skew,           \* maxClockSkewMs
    Hour,
    MaxOutstanding, MaxPerHour,
    Expiries,       \* what a licence row or a bearer may say of its end
    MaxTime,        \* bound: the wall clock stops here
    MaxDrift,       \* bound: how far the wall clock jumps either way
    MaxFailures     \* bound: restarts, and appends that fail half way

ASSUME LeaseAssumption ==
    /\ IsFiniteSet(Activations) /\ IsFiniteSet(Nonces)
    /\ NoOne \notin Licences \cup Activations
    /\ DefaultLimit \in Nat \ {0} /\ MaxLimit \in Nat
    /\ Ttl \in Nat \ {0} /\ Lag \in 0..(Ttl - 1) /\ LeaseTime \in Nat \ {0}
    /\ Skew \in Nat /\ Hour \in Nat /\ MaxDrift \in Nat
    /\ MaxOutstanding \in Nat /\ MaxPerHour \in Nat
    /\ Expiries \subseteq Nat /\ Expiries # {}

VARIABLES
    book,           \* what the ledger replays to
    refused,        \* ledger and signed head disagree: every replay raises
    up, anchor,     \* the process, and the drift of its clock at its start
    revoked, ends,  \* the licence registry
    wall, drift,    \* the wall clock, and how far it is off the monotonic one
    failures

vars == <<book, refused, up, anchor, revoked, ends, wall, drift, failures>>

Machines == [inst : Installs, key : Keys]
Nowhere == [inst |-> NoOne, key |-> NoOne]

NoActivation == [status |-> "none", lic |-> NoOne, at |-> Nowhere, seq |-> 0, rev |-> 0]
NoFacts == [purpose |-> "none", lic |-> NoOne, act |-> NoOne, rev |-> 0,
            at |-> Nowhere, new |-> Nowhere, issued |-> 0]
NoResult == [act |-> NoOne, rev |-> 0, seq |-> 0, at |-> 0, until |-> 0]

Init ==
    /\ book = [acts |-> [a \in Activations |-> NoActivation],
               chal |-> [n \in Nonces |-> NoFacts],
               spent |-> [n \in Nonces |-> NoResult],
               override |-> [l \in Licences |-> 0],
               locked |-> {}, latest |-> 1]
    /\ refused = FALSE /\ up = TRUE /\ anchor = MaxDrift
    /\ revoked = {} /\ ends \in [Licences -> Expiries]
    /\ wall = 1 /\ drift = MaxDrift /\ failures = 0

Later(s, t) == IF s > t THEN s ELSE t
Sooner(s, t) == IF s < t THEN s ELSE t

-----------------------------------------------------------------------------
(* what every operation reads *)

\* A replay succeeds, and the wall clock has not run ahead of the monotonic one.
Serves == up /\ ~refused /\ drift <= anchor + Skew

\* Mutant: a clock set back is believed.
WallNow == wall

\* Server time never falls behind an event already signed.
ServerNow == Later(wall, book.latest)

Authentic(l, bearer, t) == l \notin revoked /\ t < bearer /\ t < ends[l]

Active(acts, l) == {a \in Activations : acts[a].status = "active" /\ acts[a].lic = l}

Limit(l) == IF book.override[l] = 0 THEN DefaultLimit ELSE book.override[l]

\* An event is appended, or its line is written and the head is not: from then
\* on every replay raises, and the event takes no effect.
Appends(next) ==
    \/ book' = next /\ UNCHANGED <<refused, failures>>
    \/ /\ failures < MaxFailures /\ failures' = failures + 1
       /\ refused' = TRUE /\ UNCHANGED book

AppendsAt(t, next) == Appends([next EXCEPT !.latest = Later(@, t)])

-----------------------------------------------------------------------------
(* challenges *)

Outstanding(l, t) ==
    {n \in Nonces : /\ book.chal[n].lic = l /\ book.spent[n] = NoResult
                    /\ t < book.chal[n].issued + Ttl}
Recent(l, t) == {n \in Nonces : book.chal[n].lic = l /\ t < book.chal[n].issued + Hour}

Issues(n, facts) ==
    /\ book.chal[n] = NoFacts
    /\ Cardinality(Outstanding(facts.lic, facts.issued)) < MaxOutstanding
    /\ Cardinality(Recent(facts.lic, facts.issued)) < MaxPerHour
    /\ AppendsAt(facts.issued, [book EXCEPT !.chal[n] = facts])
    /\ UNCHANGED <<up, anchor, revoked, ends, wall, drift>>

\* Mutant: the machine to move to is left out of the facts.
FactsOfTheOld(purpose, a, new, t) ==
    [purpose |-> purpose, lic |-> book.acts[a].lic, act |-> a, rev |-> book.acts[a].rev,
     at |-> book.acts[a].at, new |-> Nowhere, issued |-> t]

Facts(purpose, a, new, t) ==
    [purpose |-> purpose, lic |-> book.acts[a].lic, act |-> a, rev |-> book.acts[a].rev,
     at |-> book.acts[a].at, new |-> new, issued |-> t]

ChallengeActivate(l, bearer, n, machine) ==
    /\ Serves /\ Authentic(l, bearer, ServerNow)
    /\ Issues(n, [purpose |-> "activate", lic |-> l, act |-> NoOne, rev |-> 0,
                  at |-> machine, new |-> Nowhere, issued |-> ServerNow])

\* A bound machine asks to renew, to move to another machine or to leave.
ChallengeRenew(a, bearer, n) ==
    /\ Serves /\ book.acts[a].status = "active"
    /\ Authentic(book.acts[a].lic, bearer, ServerNow)
    /\ Issues(n, Facts("renew", a, Nowhere, ServerNow))

ChallengeRebind(a, bearer, n, machine) ==
    /\ Serves /\ book.acts[a].status = "active"
    /\ Authentic(book.acts[a].lic, bearer, ServerNow)
    /\ machine # book.acts[a].at
    /\ Issues(n, Facts("rebind", a, machine, ServerNow))

\* Leaving needs no licence in force.
ChallengeDeactivate(a, n) ==
    /\ Serves /\ book.acts[a].status = "active"
    /\ Issues(n, Facts("deactivate", a, Nowhere, Sooner(ServerNow, book.latest + Ttl)))

-----------------------------------------------------------------------------
(* proofs: a challenge spent before returns what it returned then, which     *)
(* changes nothing here                                                      *)

Unspent(n, purpose) == book.chal[n].purpose = purpose /\ book.spent[n] = NoResult

Timely(n) == ServerNow < book.chal[n].issued + Ttl

\* Mutant: the binding is compared, its revision is not.
SameMachine(n) ==
    LET facts == book.chal[n]
    IN  /\ book.acts[facts.act].status = "active" /\ book.acts[facts.act].lic = facts.lic
        /\ book.acts[facts.act].at = facts.at

\* The binding has not moved since the challenge was issued.
Current(n) ==
    LET facts == book.chal[n]
    IN  /\ book.acts[facts.act].status = "active" /\ book.acts[facts.act].lic = facts.lic
        /\ book.acts[facts.act].rev = facts.rev /\ book.acts[facts.act].at = facts.at

Spends(n, a, act, result, t) ==
    /\ AppendsAt(t, [book EXCEPT !.acts[a] = act, !.spent[n] = result])
    /\ UNCHANGED <<up, anchor, revoked, ends, wall, drift>>

\* leaseFor: never longer than the licence or the bearer.
Leases(n, a, act, bearer) ==
    LET ending == Sooner(Sooner(bearer, ends[act.lic]), ServerNow + LeaseTime)
    IN  Spends(n, a, act, [act |-> a, rev |-> act.rev, seq |-> act.seq,
                           at |-> ServerNow, until |-> ending], ServerNow)

\* Mutant: the same install gets its old lease number again.
LeasedAgain(act) == [act EXCEPT !.rev = @ + 1]

Renewed(act) == [act EXCEPT !.seq = @ + 1, !.rev = @ + 1]

\* The activations of the licence bound to the install that asks.
Duplicates(n) ==
    {a \in Active(book.acts, book.chal[n].lic) : book.acts[a].at.inst = book.chal[n].at.inst}

ActivateAgain(n, a, bearer) ==
    /\ Serves /\ Unspent(n, "activate") /\ Timely(n)
    /\ Authentic(book.chal[n].lic, bearer, ServerNow)
    /\ a \in Duplicates(n) /\ book.acts[a].at.key = book.chal[n].at.key
    /\ Leases(n, a, Renewed(book.acts[a]), bearer)

\* Mutant: a seat freed by the operator is a seat like any other.
ActivateUnlocked(n, a, bearer) ==
    LET l == book.chal[n].lic
    IN  /\ Serves /\ Unspent(n, "activate") /\ Timely(n) /\ Authentic(l, bearer, ServerNow)
        /\ Duplicates(n) = {}
        /\ Cardinality(Active(book.acts, l)) < Limit(l)
        /\ \A b \in Active(book.acts, l) : book.acts[b].at.key # book.chal[n].at.key
        /\ book.acts[a] = NoActivation
        /\ Leases(n, a, [status |-> "active", lic |-> l, at |-> book.chal[n].at,
                         seq |-> 1, rev |-> 1], bearer)

ActivateNew(n, a, bearer) ==
    LET l == book.chal[n].lic
    IN  /\ Serves /\ Unspent(n, "activate") /\ Timely(n) /\ Authentic(l, bearer, ServerNow)
        /\ Duplicates(n) = {} /\ l \notin book.locked
        /\ Cardinality(Active(book.acts, l)) < Limit(l)
        /\ \A b \in Active(book.acts, l) : book.acts[b].at.key # book.chal[n].at.key
        /\ book.acts[a] = NoActivation
        /\ Leases(n, a, [status |-> "active", lic |-> l, at |-> book.chal[n].at,
                         seq |-> 1, rev |-> 1], bearer)

Renew(n, bearer) ==
    LET a == book.chal[n].act
    IN  /\ Serves /\ Unspent(n, "renew") /\ Timely(n)
        /\ Authentic(book.chal[n].lic, bearer, ServerNow) /\ Current(n)
        /\ Leases(n, a, Renewed(book.acts[a]), bearer)

\* Mutant: only the install id of the new machine is looked for.
FreeInstall(n) ==
    \A b \in Active(book.acts, book.chal[n].lic) \ {book.chal[n].act} :
        book.acts[b].at.inst # book.chal[n].new.inst

\* No other machine of the licence has the new install id or the new key.
FreeMachine(n) ==
    \A b \in Active(book.acts, book.chal[n].lic) \ {book.chal[n].act} :
        /\ book.acts[b].at.inst # book.chal[n].new.inst
        /\ book.acts[b].at.key # book.chal[n].new.key

Rebind(n, bearer) ==
    LET a == book.chal[n].act
    IN  /\ Serves /\ Unspent(n, "rebind") /\ Timely(n)
        /\ Authentic(book.chal[n].lic, bearer, ServerNow) /\ Current(n) /\ FreeMachine(n)
        /\ Leases(n, a, [Renewed(book.acts[a]) EXCEPT !.at = book.chal[n].new], bearer)

Deactivated(act) == [act EXCEPT !.status = "deactivated", !.rev = @ + 1]

\* The clock is held just after the challenge, so that leaving is never too late.
Deactivate(n) ==
    LET a == book.chal[n].act
        act == Deactivated(book.acts[a])
    IN  /\ Serves /\ Unspent(n, "deactivate") /\ Current(n)
        /\ Spends(n, a, act, [act |-> a, rev |-> act.rev, seq |-> act.seq, at |-> 0, until |-> 0],
                  Sooner(ServerNow, book.chal[n].issued + Lag))

-----------------------------------------------------------------------------
(* the operator *)

\* Mutant: the limit is lowered below the machines that are active.
SetSeatOverrideAnyway(l, max) ==
    /\ Serves
    /\ AppendsAt(ServerNow, [book EXCEPT !.override[l] = max])
    /\ UNCHANGED <<up, anchor, revoked, ends, wall, drift>>

\* 0 takes the override away.
SetSeatOverride(l, max) ==
    /\ Serves
    /\ Cardinality(Active(book.acts, l)) <= (IF max = 0 THEN DefaultLimit ELSE max)
    /\ AppendsAt(ServerNow, [book EXCEPT !.override[l] = max])
    /\ UNCHANGED <<up, anchor, revoked, ends, wall, drift>>

\* A lost machine: its seat is freed, and its licence locked for good.  The
\* revision the operator names is the one of the page just read; another one,
\* here and above, changes nothing.
AdminDeactivate(a) ==
    /\ Serves /\ book.acts[a].status = "active"
    /\ AppendsAt(ServerNow, [book EXCEPT !.acts[a] = Deactivated(@),
                                         !.locked = @ \cup {book.acts[a].lic}])
    /\ UNCHANGED <<up, anchor, revoked, ends, wall, drift>>

\* A revocation holds whether or not the ledger could note it.
Revoke(l) ==
    /\ revoked' = revoked \cup {l}
    /\ \/ Serves /\ AppendsAt(ServerNow, book)
       \/ ~Serves /\ UNCHANGED <<book, refused, failures>>
    /\ UNCHANGED <<up, anchor, ends, wall, drift>>

ChangeExpiry(l, t) ==
    /\ l \notin revoked /\ ends' = [ends EXCEPT ![l] = t]
    /\ UNCHANGED <<book, refused, up, anchor, revoked, wall, drift, failures>>

-----------------------------------------------------------------------------
(* the process and its clock *)

Crash ==
    /\ up /\ failures < MaxFailures /\ failures' = failures + 1
    /\ up' = FALSE
    /\ UNCHANGED <<book, refused, anchor, revoked, ends, wall, drift>>

\* A refused ledger leaves the service off.
Restart ==
    /\ ~up /\ ~refused
    /\ up' = TRUE /\ anchor' = drift
    /\ UNCHANGED <<book, refused, revoked, ends, wall, drift, failures>>

ClockTicks ==
    /\ wall < MaxTime /\ wall' = wall + 1
    /\ UNCHANGED <<book, refused, up, anchor, revoked, ends, drift, failures>>

ClockIsSet ==
    /\ \/ drift < 2 * MaxDrift /\ wall < MaxTime /\ drift' = drift + 1 /\ wall' = wall + 1
       \/ drift > 0 /\ wall > 0 /\ drift' = drift - 1 /\ wall' = wall - 1
    /\ UNCHANGED <<book, refused, up, anchor, revoked, ends, failures>>

Asks ==
    \E n \in Nonces, bearer \in Expiries :
        \/ \E l \in Licences, machine \in Machines : ChallengeActivate(l, bearer, n, machine)
        \/ \E a \in Activations :
            \/ ChallengeRenew(a, bearer, n) \/ ChallengeDeactivate(a, n)
            \/ \E machine \in Machines : ChallengeRebind(a, bearer, n, machine)

Answers ==
    \E n \in Nonces, bearer \in Expiries :
        \/ \E a \in Activations : ActivateAgain(n, a, bearer) \/ ActivateNew(n, a, bearer)
        \/ Renew(n, bearer) \/ Rebind(n, bearer) \/ Deactivate(n)

Operator ==
    \/ \E l \in Licences :
        \/ \E max \in 0..MaxLimit : SetSeatOverride(l, max)
        \/ Revoke(l)
        \/ \E t \in Expiries : ChangeExpiry(l, t)
    \/ \E a \in Activations : AdminDeactivate(a)

Next == Asks \/ Answers \/ Operator \/ Crash \/ Restart \/ ClockTicks \/ ClockIsSet

Spec == Init /\ [][Next]_vars

-----------------------------------------------------------------------------
(* Properties *)

Activation ==
    {NoActivation} \cup
    [status : {"active", "deactivated"}, lic : Licences, at : Machines,
     seq : Nat \ {0}, rev : Nat \ {0}]
ChallengeFacts ==
    {NoFacts}
    \cup [purpose : {"activate"}, lic : Licences, act : {NoOne}, rev : {0},
          at : Machines, new : {Nowhere}, issued : Nat]
    \cup [purpose : {"renew", "deactivate"}, lic : Licences, act : Activations,
          rev : Nat \ {0}, at : Machines, new : {Nowhere}, issued : Nat]
    \cup [purpose : {"rebind"}, lic : Licences, act : Activations,
          rev : Nat \ {0}, at : Machines, new : Machines, issued : Nat]
Result ==
    {NoResult} \cup
    [act : Activations, rev : Nat \ {0}, seq : Nat \ {0}, at : Nat, until : Nat]
Books ==
    [acts : [Activations -> Activation], chal : [Nonces -> ChallengeFacts],
     spent : [Nonces -> Result], override : [Licences -> 0..MaxLimit],
     locked : SUBSET Licences, latest : Nat]

\* The book holds whole rows only: a binding has a licence and a machine, a
\* challenge the facts its purpose calls for (license-leases.ts 80-93, 159-171).
TypeOK ==
    /\ book \in Books
    /\ refused \in BOOLEAN /\ up \in BOOLEAN /\ anchor \in Nat
    /\ revoked \subseteq Licences /\ ends \in [Licences -> Nat]
    /\ wall \in Nat /\ drift \in Nat /\ failures \in Nat

\* No order of activations, rebinds, releases, late proofs and changed limits
\* binds more machines to a licence than the limit in force (1428-1431, 1508-1512).
SeatsHeld ==
    \A l \in Licences : Cardinality(Active(book.acts, l)) <= Limit(l)

\* Two active bindings of a licence share neither install id nor key, however
\* challenges to activate and to move cross (1419-1434, 1484-1487).
MachinesDiffer ==
    \A l \in Licences : \A a, b \in Active(book.acts, l) :
        a # b => /\ book.acts[a].at.inst # book.acts[b].at.inst
                 /\ book.acts[a].at.key # book.acts[b].at.key

\* Of all the challenges issued against one revision of a binding one at most
\* is ever spent: the others are stale, whichever comes first (1374-1380).
OneUsePerRevision ==
    \A m, n \in Nonces :
        /\ book.spent[m] # NoResult /\ book.spent[n] # NoResult
        /\ book.chal[m].purpose # "activate" /\ book.chal[n].purpose # "activate"
        /\ book.chal[m].act = book.chal[n].act /\ book.chal[m].rev = book.chal[n].rev
        => m = n

Leased(n) == book.spent[n].until # 0

\* The leases of one binding are numbered in order: a later number
\* is a later revision and never an earlier server time, and no number is given
\* twice, although clocks go back and hubs restart (1257-1259, 1435-1463).
LeasesInOrder ==
    \A m, n \in Nonces :
        Leased(m) /\ Leased(n) /\ m # n /\ book.spent[m].act = book.spent[n].act =>
            /\ book.spent[m].seq # book.spent[n].seq
            /\ book.spent[m].seq < book.spent[n].seq =>
                /\ book.spent[m].rev < book.spent[n].rev
                /\ book.spent[m].at <= book.spent[n].at

\* Once the operator has retired a machine the licence gains no binding again,
\* not even by a challenge issued before (1425-1427).
LockedGainsNothing ==
    [][\A l \in book.locked : Active(book'.acts, l) \subseteq Active(book.acts, l)]_vars
=============================================================================
