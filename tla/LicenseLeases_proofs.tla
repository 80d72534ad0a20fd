------------------------ MODULE LicenseLeases_proofs ------------------------
(***************************************************************************)
(* Proofs about LicenseLeases, for every number of licences, machines,     *)
(* bindings and challenges, every limit, every clock and every bound.      *)
(*                                                                         *)
(* Whatever the action, a step leaves the book still, or writes one        *)
(* challenge in it, spends one, retires one binding or sets one limit.     *)
(* The first half proves that of every action; the second half proves each *)
(* property once for every such change of the book.                        *)
(***************************************************************************)
EXTENDS LicenseLeases, FiniteSetTheorems, TLAPS

\* How one event changes the book b to the book c.
Still(b, c) ==
    /\ c.acts = b.acts /\ c.chal = b.chal /\ c.spent = b.spent
    /\ c.override = b.override /\ c.locked = b.locked

Asked(b, c, n, f) ==
    /\ b.chal[n] = NoFacts /\ f \in ChallengeFacts \ {NoFacts}
    /\ Still([b EXCEPT !.chal[n] = f], c)
    /\ f.purpose # "activate" => f.rev = b.acts[f.act].rev

\* A binding the licence had already, left where it was.
Stays(b, a, act) ==
    b.acts[a].status = "active" /\ act.lic = b.acts[a].lic /\ act.at = b.acts[a].at

\* A binding of a machine that no other binding of its licence is of.
Fits(b, a, act) ==
    /\ \/ b.acts[a].status = "active" /\ act.lic = b.acts[a].lic
       \/ /\ act.lic \notin b.locked
          /\ Cardinality(Active(b.acts, act.lic))
                < (IF b.override[act.lic] = 0 THEN DefaultLimit ELSE b.override[act.lic])
    /\ \A o \in Active(b.acts, act.lic) \ {a} :
        b.acts[o].at.inst # act.at.inst /\ b.acts[o].at.key # act.at.key

Answered(b, c, n, a, act, r) ==
    /\ b.chal[n] # NoFacts /\ b.spent[n] = NoResult
    /\ act \in Activation /\ r \in Result \ {NoResult}
    /\ Still([b EXCEPT !.acts[a] = act, !.spent[n] = r], c)
    /\ r.act = a /\ r.rev = act.rev /\ r.seq = act.seq
    /\ act.rev = b.acts[a].rev + 1 /\ act.seq >= b.acts[a].seq
    /\ r.until # 0 => act.seq > b.acts[a].seq /\ r.at >= b.latest
    /\ r.at <= c.latest
    /\ b.chal[n].purpose # "activate" =>
        b.chal[n].act = a /\ b.chal[n].rev = b.acts[a].rev
    /\ Stays(b, a, act) \/ Fits(b, a, act)

Retired(b, c, a) ==
    /\ b.acts[a].status = "active"
    /\ Still([b EXCEPT !.acts[a] = Deactivated(@), !.locked = @ \cup {b.acts[a].lic}], c)

Seated(b, c, l, max) ==
    /\ Cardinality(Active(b.acts, l)) <= (IF max = 0 THEN DefaultLimit ELSE max)
    /\ Still([b EXCEPT !.override[l] = max], c)

OneEvent(b, c) ==
    /\ c \in Books /\ c.latest >= b.latest
    /\ \/ Still(b, c)
       \/ \E n \in Nonces, f \in ChallengeFacts : Asked(b, c, n, f)
       \/ \E n \in Nonces, a \in Activations, act \in Activation, r \in Result :
            Answered(b, c, n, a, act, r)
       \/ \E a \in Activations : Retired(b, c, a)
       \/ \E l \in Licences, max \in 0..MaxLimit : Seated(b, c, l, max)

-----------------------------------------------------------------------------
(* what an append does *)

Noted(b, t) == [b EXCEPT !.latest = Later(@, t)]

LEMMA NotedIs ==
    ASSUME NEW b \in Books, NEW t \in Nat
    PROVE  /\ Noted(b, t) \in Books /\ Still(b, Noted(b, t))
           /\ Noted(b, t).latest >= b.latest /\ Noted(b, t).latest >= t
  BY DEF Noted, Books, Later, Still

LEMMA AppendsIs ==
    ASSUME TypeOK, NEW t \in Nat, NEW next \in Books, next.latest = book.latest,
           AppendsAt(t, next)
    PROVE  /\ book' \in Books /\ book'.latest >= book.latest
           /\ Still(book, book') \/ (Still(next, book') /\ book'.latest >= t)
  <1>1. book' = book \/ book' = Noted(next, t)
    BY DEF AppendsAt, Appends, Noted
  <1>2. CASE book' = book
    BY <1>2 DEF TypeOK, Still, Books
  <1>3. CASE book' = Noted(next, t)
    BY <1>3, NotedIs DEF TypeOK, Books
  <1> QED BY <1>1, <1>2, <1>3

LEMMA ServerNowIs ==
    ASSUME TypeOK
    PROVE  ServerNow \in Nat /\ ServerNow >= book.latest
  BY DEF TypeOK, ServerNow, Later, Books

LEMMA SoonerIs ==
    ASSUME NEW s \in Nat, NEW t \in Nat
    PROVE  Sooner(s, t) \in Nat
  BY DEF Sooner

-----------------------------------------------------------------------------
(* challenges *)

LEMMA IssuesIs ==
    ASSUME TypeOK, NEW n \in Nonces, NEW f \in ChallengeFacts \ {NoFacts}, Issues(n, f),
           f.purpose # "activate" => f.rev = book.acts[f.act].rev
    PROVE  OneEvent(book, book')
  <1> DEFINE next == [book EXCEPT !.chal[n] = f]
  <1>1. next \in Books /\ next.latest = book.latest
    BY DEF TypeOK, Books
  <1>2. f.issued \in Nat
    BY DEF ChallengeFacts, NoFacts
  <1>3. AppendsAt(f.issued, next) /\ book.chal[n] = NoFacts
    BY DEF Issues
  <1>4. /\ book' \in Books /\ book'.latest >= book.latest
        /\ Still(book, book') \/ Still(next, book')
    BY <1>1, <1>2, <1>3, AppendsIs
  <1>5. CASE Still(book, book')
    BY <1>4, <1>5 DEF OneEvent
  <1>6. CASE Still(next, book')
    <2>1. Asked(book, book', n, f)
      BY <1>3, <1>6 DEF Asked
    <2> QED BY <1>4, <2>1 DEF OneEvent
  <1> QED BY <1>4, <1>5, <1>6

\* The facts of a challenge about an active binding are whole.
LEMMA FactsIs ==
    ASSUME TypeOK, NEW a \in Activations, book.acts[a].status = "active",
           NEW t \in Nat, NEW purpose, NEW new,
           \/ purpose \in {"renew", "deactivate"} /\ new = Nowhere
           \/ purpose = "rebind" /\ new \in Machines
    PROVE  /\ Facts(purpose, a, new, t) \in ChallengeFacts \ {NoFacts}
           /\ Facts(purpose, a, new, t).rev = book.acts[Facts(purpose, a, new, t).act].rev
  <1>1. book.acts[a] \in [status : {"active", "deactivated"}, lic : Licences,
                          at : Machines, seq : Nat \ {0}, rev : Nat \ {0}]
    BY DEF TypeOK, Books, Activation, NoActivation
  <1> QED BY <1>1 DEF Facts, ChallengeFacts, NoFacts

LEMMA AsksIs == ASSUME TypeOK, Asks PROVE OneEvent(book, book')
  <1>1. ASSUME NEW l \in Licences, NEW bearer \in Expiries, NEW n \in Nonces,
               NEW machine \in Machines, ChallengeActivate(l, bearer, n, machine)
        PROVE  OneEvent(book, book')
    <2> DEFINE f == [purpose |-> "activate", lic |-> l, act |-> NoOne, rev |-> 0,
                     at |-> machine, new |-> Nowhere, issued |-> ServerNow]
    <2>1. f \in ChallengeFacts \ {NoFacts} /\ f.purpose = "activate"
      BY ServerNowIs DEF ChallengeFacts, NoFacts
    <2>2. Issues(n, f)
      BY <1>1 DEF ChallengeActivate
    <2> QED BY <2>1, <2>2, IssuesIs
  <1>2. ASSUME NEW a \in Activations, NEW bearer \in Expiries, NEW n \in Nonces,
               ChallengeRenew(a, bearer, n)
        PROVE  OneEvent(book, book')
    BY <1>2, ServerNowIs, FactsIs, IssuesIs DEF ChallengeRenew
  <1>3. ASSUME NEW a \in Activations, NEW bearer \in Expiries, NEW n \in Nonces,
               NEW machine \in Machines, ChallengeRebind(a, bearer, n, machine)
        PROVE  OneEvent(book, book')
    BY <1>3, ServerNowIs, FactsIs, IssuesIs DEF ChallengeRebind
  <1>4. ASSUME NEW a \in Activations, NEW n \in Nonces, ChallengeDeactivate(a, n)
        PROVE  OneEvent(book, book')
    <2> DEFINE limit == book.latest + Ttl
    <2>0. limit \in Nat /\ ServerNow \in Nat
      BY ServerNowIs, LeaseAssumption DEF TypeOK, Books
    <2> HIDE DEF limit
    <2>1. Sooner(ServerNow, limit) \in Nat
      BY <2>0, SoonerIs
    <2> USE DEF limit
    <2> QED BY <1>4, <2>1, FactsIs, IssuesIs DEF ChallengeDeactivate
  <1> QED BY <1>1, <1>2, <1>3, <1>4 DEF Asks

-----------------------------------------------------------------------------
(* proofs *)

Bindings == [status : {"active", "deactivated"}, lic : Licences, at : Machines,
             seq : Nat \ {0}, rev : Nat \ {0}]

\* A binding that is active is whole.
LEMMA ActiveIs ==
    ASSUME TypeOK, NEW a \in Activations, book.acts[a].status = "active"
    PROVE  book.acts[a] \in Bindings
  BY DEF TypeOK, Books, Activation, NoActivation, Bindings

\* A binding numbered on, ended or moved is whole.
LEMMA NumbersIs ==
    ASSUME NEW x \in Bindings
    PROVE  x.seq \in Nat \ {0} /\ x.seq + 1 \in Nat \ {0} /\ x.rev + 1 \in Nat \ {0}
  BY DEF Bindings

LEMMA ChangedIs ==
    ASSUME NEW x \in Bindings, NEW s \in Nat \ {0}, NEW r \in Nat \ {0}
    PROVE  /\ [x EXCEPT !.seq = s, !.rev = r] \in Bindings
           /\ [x EXCEPT !.status = "deactivated", !.rev = r] \in Bindings
  BY DEF Bindings

LEMMA MovedIs ==
    ASSUME NEW x \in Bindings, NEW m \in Machines
    PROVE  [x EXCEPT !.at = m] \in Bindings
  BY DEF Bindings

LEMMA BindingIs ==
    ASSUME NEW act \in Bindings
    PROVE  act \in Activation \ {NoActivation}
  <1>1. act.status # NoActivation.status
    BY DEF Bindings, NoActivation
  <1>2. act \in Activation
    BY DEF Bindings, Activation
  <1> QED BY <1>1, <1>2

LEMMA SpendsIs ==
    ASSUME TypeOK, NEW n \in Nonces, NEW a \in Activations, NEW t \in Nat,
           NEW act \in Activation, NEW r \in Result \ {NoResult},
           book.chal[n] # NoFacts, book.spent[n] = NoResult,
           Spends(n, a, act, r, t),
           r.act = a, r.rev = act.rev, r.seq = act.seq,
           act.rev = book.acts[a].rev + 1, act.seq >= book.acts[a].seq,
           r.until # 0 => act.seq > book.acts[a].seq /\ r.at >= book.latest,
           r.at <= t,
           book.chal[n].purpose # "activate" =>
               book.chal[n].act = a /\ book.chal[n].rev = book.acts[a].rev,
           Stays(book, a, act) \/ Fits(book, a, act)
    PROVE  OneEvent(book, book')
  <1> DEFINE next == [book EXCEPT !.acts[a] = act, !.spent[n] = r]
  <1>1. next \in Books /\ next.latest = book.latest
    BY DEF TypeOK, Books
  <1>2. AppendsAt(t, next)
    BY DEF Spends
  <1>3. /\ book' \in Books /\ book'.latest >= book.latest
        /\ Still(book, book') \/ (Still(next, book') /\ book'.latest >= t)
    BY <1>1, <1>2, AppendsIs
  <1>4. CASE Still(book, book')
    BY <1>3, <1>4 DEF OneEvent
  <1>5. CASE Still(next, book') /\ book'.latest >= t
    <2>1. r.at \in Nat
      BY DEF Result, NoResult
    <2>2. r.at <= book'.latest
      BY <1>3, <1>5, <2>1 DEF Books
    <2>3. Answered(book, book', n, a, act, r)
      BY <1>5, <2>2 DEF Answered
    <2> QED BY <1>3, <2>3 DEF OneEvent
  <1> QED BY <1>3, <1>4, <1>5

\* A lease: the binding is numbered on, and the lease signed at server time.
LEMMA LeasesIs ==
    ASSUME TypeOK, NEW n \in Nonces, NEW a \in Activations, NEW bearer \in Expiries,
           NEW act \in Activation \ {NoActivation},
           book.chal[n] # NoFacts, book.spent[n] = NoResult,
           Leases(n, a, act, bearer),
           act.rev = book.acts[a].rev + 1, act.seq = book.acts[a].seq + 1,
           book.chal[n].purpose # "activate" =>
               book.chal[n].act = a /\ book.chal[n].rev = book.acts[a].rev,
           Stays(book, a, act) \/ Fits(book, a, act)
    PROVE  OneEvent(book, book')
  <1> DEFINE ending == Sooner(Sooner(bearer, ends[act.lic]), ServerNow + LeaseTime)
             r == [act |-> a, rev |-> act.rev, seq |-> act.seq,
                   at |-> ServerNow, until |-> ending]
  <1>1. act.lic \in Licences /\ act.seq \in Nat \ {0} /\ act.rev \in Nat \ {0}
    BY DEF Activation
  <1>2. ServerNow \in Nat /\ ServerNow >= book.latest
    BY ServerNowIs
  <1>3. ending \in Nat
    BY <1>1, <1>2, LeaseAssumption DEF Sooner, TypeOK
  <1>4. r \in Result \ {NoResult}
    BY <1>1, <1>2, <1>3, LeaseAssumption DEF Result, NoResult
  <1>5. Spends(n, a, act, r, ServerNow)
    BY DEF Leases
  <1>6. book.acts[a].seq \in Nat
    BY DEF TypeOK, Books, Activation, NoActivation
  <1>7. act.seq >= book.acts[a].seq /\ act.seq > book.acts[a].seq
    BY <1>6
  <1>8. r.act = a /\ r.rev = act.rev /\ r.seq = act.seq /\ r.at = ServerNow
    OBVIOUS
  <1> HIDE DEF r
  <1> QED BY <1>2, <1>4, <1>5, <1>7, <1>8, SpendsIs

LEMMA RenewedIs ==
    ASSUME TypeOK, NEW a \in Activations, book.acts[a].status = "active"
    PROVE  /\ Renewed(book.acts[a]) \in Bindings
           /\ Renewed(book.acts[a]) \in Activation \ {NoActivation}
           /\ Renewed(book.acts[a]).rev = book.acts[a].rev + 1
           /\ Renewed(book.acts[a]).seq = book.acts[a].seq + 1
           /\ Stays(book, a, Renewed(book.acts[a]))
  <1>1. book.acts[a] \in Bindings
    BY ActiveIs
  <1>2. Renewed(book.acts[a]) \in Bindings
    BY <1>1, NumbersIs, ChangedIs DEF Renewed
  <1>3. /\ Renewed(book.acts[a]).rev = book.acts[a].rev + 1
        /\ Renewed(book.acts[a]).seq = book.acts[a].seq + 1
        /\ Stays(book, a, Renewed(book.acts[a]))
    BY <1>1 DEF Renewed, Bindings, Stays
  <1> QED BY <1>2, <1>3, BindingIs

LEMMA DeactivatedIs ==
    ASSUME TypeOK, NEW a \in Activations, book.acts[a].status = "active"
    PROVE  /\ Deactivated(book.acts[a]) \in Activation \ {NoActivation}
           /\ Deactivated(book.acts[a]).rev = book.acts[a].rev + 1
           /\ Deactivated(book.acts[a]).seq = book.acts[a].seq
           /\ Stays(book, a, Deactivated(book.acts[a]))
  <1>1. book.acts[a] \in Bindings
    BY ActiveIs
  <1>2. Deactivated(book.acts[a]) \in Bindings
    BY <1>1, NumbersIs, ChangedIs DEF Deactivated
  <1>3. /\ Deactivated(book.acts[a]).rev = book.acts[a].rev + 1
        /\ Deactivated(book.acts[a]).seq = book.acts[a].seq
        /\ Stays(book, a, Deactivated(book.acts[a]))
    BY <1>1 DEF Deactivated, Bindings, Stays
  <1> QED BY <1>2, <1>3, BindingIs

\* The facts an unspent challenge of a purpose has.
LEMMA UnspentIs ==
    ASSUME TypeOK, NEW n \in Nonces, NEW purpose, Unspent(n, purpose),
           purpose \in {"activate", "renew", "rebind", "deactivate"}
    PROVE  /\ book.chal[n] # NoFacts /\ book.spent[n] = NoResult
           /\ book.chal[n].purpose = purpose
           /\ book.chal[n].lic \in Licences /\ book.chal[n].at \in Machines
           /\ book.chal[n].issued \in Nat
           /\ purpose # "activate" => book.chal[n].act \in Activations
           /\ purpose = "rebind" => book.chal[n].new \in Machines
  <1>1. book.chal[n] \in ChallengeFacts \ {NoFacts}
    BY DEF Unspent, TypeOK, Books, NoFacts
  <1> QED BY <1>1 DEF Unspent, ChallengeFacts

LEMMA ActivateAgainIs ==
    ASSUME TypeOK, NEW n \in Nonces, NEW a \in Activations, NEW bearer \in Expiries,
           ActivateAgain(n, a, bearer)
    PROVE  OneEvent(book, book')
  <1>1. Unspent(n, "activate") /\ Leases(n, a, Renewed(book.acts[a]), bearer)
    BY DEF ActivateAgain
  <1>2. book.acts[a].status = "active"
    BY DEF ActivateAgain, Duplicates, Active
  <1>3. /\ book.chal[n] # NoFacts /\ book.spent[n] = NoResult
        /\ book.chal[n].purpose = "activate"
    BY <1>1, UnspentIs
  <1> QED BY <1>1, <1>2, <1>3, RenewedIs, LeasesIs

LEMMA ActivateNewIs ==
    ASSUME TypeOK, NEW n \in Nonces, NEW a \in Activations, NEW bearer \in Expiries,
           ActivateNew(n, a, bearer)
    PROVE  OneEvent(book, book')
  <1> DEFINE l == book.chal[n].lic
             act == [status |-> "active", lic |-> l, at |-> book.chal[n].at,
                     seq |-> 1, rev |-> 1]
  <1>1. Unspent(n, "activate") /\ Leases(n, a, act, bearer)
    BY DEF ActivateNew
  <1>2. /\ book.chal[n] # NoFacts /\ book.spent[n] = NoResult
        /\ book.chal[n].purpose = "activate"
        /\ l \in Licences /\ book.chal[n].at \in Machines
    BY <1>1, UnspentIs
  <1>3. act \in Activation \ {NoActivation}
    BY <1>2 DEF Activation, NoActivation
  <1>4. book.acts[a] = NoActivation
    BY DEF ActivateNew
  <1>5. act.rev = book.acts[a].rev + 1 /\ act.seq = book.acts[a].seq + 1
    BY <1>4 DEF NoActivation
  <1>6. Fits(book, a, act)
    <2>1. /\ Duplicates(n) = {} /\ l \notin book.locked
          /\ Cardinality(Active(book.acts, l)) < Limit(l)
          /\ \A b \in Active(book.acts, l) : book.acts[b].at.key # book.chal[n].at.key
      BY DEF ActivateNew
    <2>2. \A b \in Active(book.acts, l) : book.acts[b].at.inst # book.chal[n].at.inst
      BY <2>1 DEF Duplicates
    <2> QED BY <2>1, <2>2 DEF Fits, Limit
  <1> HIDE DEF act
  <1> QED BY <1>1, <1>2, <1>3, <1>5, <1>6, LeasesIs

LEMMA RenewIs ==
    ASSUME TypeOK, NEW n \in Nonces, NEW bearer \in Expiries, Renew(n, bearer)
    PROVE  OneEvent(book, book')
  <1> DEFINE a == book.chal[n].act
  <1>1. Unspent(n, "renew") /\ Current(n) /\ Leases(n, a, Renewed(book.acts[a]), bearer)
    BY DEF Renew
  <1>2. /\ book.chal[n] # NoFacts /\ book.spent[n] = NoResult /\ a \in Activations
    BY <1>1, UnspentIs
  <1>3. book.acts[a].status = "active" /\ book.chal[n].rev = book.acts[a].rev
    BY <1>1 DEF Current
  <1> QED BY <1>1, <1>2, <1>3, RenewedIs, LeasesIs

LEMMA RebindIs ==
    ASSUME TypeOK, NEW n \in Nonces, NEW bearer \in Expiries, Rebind(n, bearer)
    PROVE  OneEvent(book, book')
  <1> DEFINE a == book.chal[n].act
             act == [Renewed(book.acts[a]) EXCEPT !.at = book.chal[n].new]
  <1>1. Unspent(n, "rebind") /\ Current(n) /\ FreeMachine(n) /\ Leases(n, a, act, bearer)
    BY DEF Rebind
  <1>2. /\ book.chal[n] # NoFacts /\ book.spent[n] = NoResult /\ a \in Activations
        /\ book.chal[n].new \in Machines
    BY <1>1, UnspentIs
  <1>3. /\ book.acts[a].status = "active" /\ book.chal[n].rev = book.acts[a].rev
        /\ book.acts[a].lic = book.chal[n].lic
    BY <1>1 DEF Current
  <1>4. /\ act \in Activation \ {NoActivation} /\ act.lic = book.acts[a].lic
        /\ act.at = book.chal[n].new
        /\ act.rev = book.acts[a].rev + 1 /\ act.seq = book.acts[a].seq + 1
    <2>1. book.acts[a] \in Bindings
      BY <1>2, <1>3, ActiveIs
    <2>2. act \in Bindings
      BY <1>2, <1>3, RenewedIs, MovedIs
    <2>3. /\ act.lic = book.acts[a].lic /\ act.at = book.chal[n].new
          /\ act.rev = book.acts[a].rev + 1 /\ act.seq = book.acts[a].seq + 1
      BY <2>1 DEF Renewed, Bindings
    <2> QED BY <2>2, <2>3, BindingIs
  <1>5. Fits(book, a, act)
    BY <1>1, <1>3, <1>4 DEF Fits, FreeMachine
  <1> HIDE DEF act
  <1> QED BY <1>1, <1>2, <1>3, <1>4, <1>5, LeasesIs

LEMMA DeactivateIs ==
    ASSUME TypeOK, NEW n \in Nonces, Deactivate(n)
    PROVE  OneEvent(book, book')
  <1> DEFINE a == book.chal[n].act
             act == Deactivated(book.acts[a])
             t == Sooner(ServerNow, book.chal[n].issued + Lag)
             r == [act |-> a, rev |-> act.rev, seq |-> act.seq, at |-> 0, until |-> 0]
  <1>1. Unspent(n, "deactivate") /\ Current(n) /\ Spends(n, a, act, r, t)
    BY DEF Deactivate
  <1>2. /\ book.chal[n] # NoFacts /\ book.spent[n] = NoResult /\ a \in Activations
        /\ book.chal[n].issued \in Nat
    BY <1>1, UnspentIs
  <1>3. book.acts[a].status = "active" /\ book.chal[n].rev = book.acts[a].rev
    BY <1>1 DEF Current
  <1>4. /\ act \in Activation /\ act.seq = book.acts[a].seq
        /\ act.seq \in Nat \ {0} /\ act.rev \in Nat \ {0}
        /\ act.rev = book.acts[a].rev + 1 /\ Stays(book, a, act)
    BY <1>2, <1>3, DeactivatedIs DEF Activation, NoActivation
  <1>5. t \in Nat
    BY <1>2, ServerNowIs, LeaseAssumption DEF Sooner
  <1>6. r \in Result \ {NoResult}
    BY <1>2, <1>4, LeaseAssumption DEF Result, NoResult
  <1>7. /\ r.act = a /\ r.rev = act.rev /\ r.seq = act.seq /\ r.until = 0 /\ r.at <= t
        /\ act.seq >= book.acts[a].seq
    <2>1. r.act = a /\ r.rev = act.rev /\ r.seq = act.seq /\ r.until = 0 /\ r.at = 0
      OBVIOUS
    <2>2. act.seq \in Nat /\ act.seq = book.acts[a].seq
      BY <1>4
    <2> HIDE DEF act, r, t
    <2> QED
      BY <1>5, <2>1, <2>2
  <1> HIDE DEF act, r, t
  <1> QED BY <1>1, <1>2, <1>3, <1>4, <1>5, <1>6, <1>7, SpendsIs

LEMMA AnswersIs == ASSUME TypeOK, Answers PROVE OneEvent(book, book')
  BY ActivateAgainIs, ActivateNewIs, RenewIs, RebindIs, DeactivateIs DEF Answers

-----------------------------------------------------------------------------
(* the operator, and every step *)

LEMMA SetSeatOverrideIs ==
    ASSUME TypeOK, NEW l \in Licences, NEW max \in 0..MaxLimit, SetSeatOverride(l, max)
    PROVE  OneEvent(book, book')
  <1> DEFINE next == [book EXCEPT !.override[l] = max]
  <1>1. next \in Books /\ next.latest = book.latest
    BY DEF TypeOK, Books
  <1>2. /\ AppendsAt(ServerNow, next)
        /\ Cardinality(Active(book.acts, l)) <= (IF max = 0 THEN DefaultLimit ELSE max)
    BY DEF SetSeatOverride
  <1>3. /\ book' \in Books /\ book'.latest >= book.latest
        /\ Still(book, book') \/ Still(next, book')
    BY <1>1, <1>2, ServerNowIs, AppendsIs
  <1> QED BY <1>2, <1>3 DEF OneEvent, Seated

LEMMA AdminDeactivateIs ==
    ASSUME TypeOK, NEW a \in Activations, AdminDeactivate(a)
    PROVE  OneEvent(book, book')
  <1> DEFINE next == [book EXCEPT !.acts[a] = Deactivated(@),
                                  !.locked = @ \cup {book.acts[a].lic}]
  <1>1. /\ AppendsAt(ServerNow, next) /\ book.acts[a].status = "active"
    BY DEF AdminDeactivate
  <1>2. book.acts[a].lic \in Licences /\ Deactivated(book.acts[a]) \in Activation
    BY <1>1, ActiveIs, DeactivatedIs DEF Bindings
  <1>3. next \in Books /\ next.latest = book.latest
    BY <1>2 DEF TypeOK, Books
  <1>4. /\ book' \in Books /\ book'.latest >= book.latest
        /\ Still(book, book') \/ Still(next, book')
    BY <1>1, <1>3, ServerNowIs, AppendsIs
  <1> QED BY <1>1, <1>4 DEF OneEvent, Retired

LEMMA UntouchedIs == ASSUME TypeOK, UNCHANGED book PROVE OneEvent(book, book')
  BY DEF TypeOK, Books, OneEvent, Still

LEMMA RevokeIs ==
    ASSUME TypeOK, NEW l \in Licences, Revoke(l)
    PROVE  OneEvent(book, book')
  <1>1. CASE AppendsAt(ServerNow, book)
    <2>1. book \in Books
      BY DEF TypeOK
    <2>2. /\ book' \in Books /\ book'.latest >= book.latest /\ Still(book, book')
      BY <1>1, <2>1, ServerNowIs, AppendsIs
    <2> QED BY <2>2 DEF OneEvent
  <1>2. CASE UNCHANGED book
    BY <1>2, UntouchedIs
  <1> QED BY <1>1, <1>2 DEF Revoke

LEMMA OperatorIs == ASSUME TypeOK, Operator PROVE OneEvent(book, book')
  <1>1. ASSUME NEW l \in Licences, NEW t \in Expiries, ChangeExpiry(l, t)
        PROVE  OneEvent(book, book')
    BY <1>1, UntouchedIs DEF ChangeExpiry
  <1> QED BY <1>1, SetSeatOverrideIs, AdminDeactivateIs, RevokeIs DEF Operator

\* Every step writes one event in the book at most.
LEMMA StepIs == ASSUME TypeOK, [Next]_vars PROVE OneEvent(book, book')
  <1>1. CASE Crash \/ Restart \/ ClockTicks \/ ClockIsSet \/ UNCHANGED vars
    BY <1>1, UntouchedIs DEF Crash, Restart, ClockTicks, ClockIsSet, vars
  <1> QED BY <1>1, AsksIs, AnswersIs, OperatorIs DEF Next

-----------------------------------------------------------------------------
(* type correctness *)

Others ==
    /\ refused \in BOOLEAN /\ up \in BOOLEAN /\ anchor \in Nat
    /\ revoked \subseteq Licences /\ ends \in [Licences -> Nat]
    /\ wall \in Nat /\ drift \in Nat /\ failures \in Nat

LEMMA AppendsOthers ==
    ASSUME Others, NEW t, NEW next, AppendsAt(t, next)
    PROVE  refused' \in BOOLEAN /\ failures' \in Nat
  <1>1. \/ UNCHANGED <<refused, failures>>
        \/ failures' = failures + 1 /\ refused' = TRUE
    BY DEF AppendsAt, Appends
  <1>2. CASE UNCHANGED <<refused, failures>>
    BY <1>2 DEF Others
  <1>3. CASE failures' = failures + 1 /\ refused' = TRUE
    BY <1>3 DEF Others
  <1> QED BY <1>1, <1>2, <1>3

LEMMA StepOthers == ASSUME Others, [Next]_vars PROVE Others'
  <1> DEFINE Event ==
        /\ \E t, next : AppendsAt(t, next)
        /\ UNCHANGED <<up, anchor, revoked, ends, wall, drift>>
  <1>1. CASE Event
    BY <1>1, AppendsOthers DEF Others
  <1>2. ASSUME Asks PROVE Event
    <2>1. ASSUME NEW n, NEW f, Issues(n, f) PROVE Event
      BY <2>1 DEF Issues
    <2> HIDE DEF Event
    <2> QED BY <1>2, <2>1 DEF Asks, ChallengeActivate, ChallengeRenew, ChallengeRebind,
                              ChallengeDeactivate
  <1>3. ASSUME Answers PROVE Event
    <2>1. ASSUME NEW n, NEW a, NEW act, NEW r, NEW t, Spends(n, a, act, r, t) PROVE Event
      BY <2>1 DEF Spends
    <2>2. ASSUME NEW n, NEW a, NEW act, NEW bearer, Leases(n, a, act, bearer) PROVE Event
      BY <2>1, <2>2 DEF Leases
    <2> HIDE DEF Event
    <2>3. ASSUME NEW n, Deactivate(n) PROVE Event
      BY <2>1, <2>3 DEF Deactivate
    <2> QED BY <1>3, <2>2, <2>3 DEF Answers, ActivateAgain, ActivateNew, Renew, Rebind
  <1>4. CASE Operator
    <2>1. ASSUME NEW l \in Licences, NEW max \in 0..MaxLimit, SetSeatOverride(l, max)
          PROVE  Event
      BY <2>1 DEF SetSeatOverride
    <2>2. ASSUME NEW a \in Activations, AdminDeactivate(a) PROVE Event
      BY <2>2 DEF AdminDeactivate
    <2>3. ASSUME NEW l \in Licences, Revoke(l) PROVE Others'
      <3>1. revoked' \subseteq Licences /\ UNCHANGED <<up, anchor, ends, wall, drift>>
        BY <2>3 DEF Revoke, Others
      <3>2. refused' \in BOOLEAN /\ failures' \in Nat
        BY <2>3, AppendsOthers DEF Revoke, Others
      <3> QED BY <3>1, <3>2 DEF Others
    <2>4. ASSUME NEW l \in Licences, NEW t \in Expiries, ChangeExpiry(l, t) PROVE Others'
      BY <2>4, LeaseAssumption DEF ChangeExpiry, Others
    <2> HIDE DEF Event
    <2> QED BY <1>1, <1>4, <2>1, <2>2, <2>3, <2>4 DEF Operator
  <1>5. CASE Crash
    <2>1. up' \in BOOLEAN
      BY <1>5 DEF Crash
    <2>2. failures' \in Nat /\ UNCHANGED <<refused, anchor, revoked, ends, wall, drift>>
      BY <1>5 DEF Crash, Others
    <2> QED BY <2>1, <2>2 DEF Others
  <1>6. CASE Restart
    BY <1>6 DEF Restart, Others
  <1>7. CASE ClockTicks
    BY <1>7 DEF ClockTicks, Others
  <1>8. CASE ClockIsSet
    BY <1>8 DEF ClockIsSet, Others
  <1>9. CASE UNCHANGED vars
    BY <1>9 DEF vars, Others
  <1> HIDE DEF Event
  <1> QED BY <1>1, <1>2, <1>3, <1>4, <1>5, <1>6, <1>7, <1>8, <1>9 DEF Next

\* The book holds whole rows only, whatever is asked, answered or lost in an
\* append (80-93, 159-171).
THEOREM TypeCorrect == Spec => []TypeOK
  <1>1. Init => TypeOK
    <2> SUFFICES ASSUME Init PROVE TypeOK
      OBVIOUS
    <2>1. book \in Books
      BY LeaseAssumption DEF Init, Books, Activation, ChallengeFacts, Result
    <2> QED BY <2>1, LeaseAssumption DEF Init, TypeOK
  <1>2. TypeOK /\ [Next]_vars => TypeOK'
    <2> SUFFICES ASSUME TypeOK, [Next]_vars PROVE TypeOK'
      OBVIOUS
    <2>1. (book \in Books)'
      BY StepIs DEF OneEvent
    <2>2. Others'
      BY StepOthers DEF TypeOK, Others
    <2> QED BY <2>1, <2>2 DEF TypeOK, Others
  <1> QED BY <1>1, <1>2, PTL DEF Spec

-----------------------------------------------------------------------------
(* what an event leaves of the book *)

LEMMA AskedIs ==
    ASSUME TypeOK, NEW n \in Nonces, NEW f \in ChallengeFacts, Asked(book, book', n, f)
    PROVE  /\ book.chal[n] = NoFacts
           /\ book'.chal = [book.chal EXCEPT ![n] = f]
           /\ UNCHANGED <<book.acts, book.spent, book.override, book.locked>>
  BY DEF TypeOK, Books, Asked, Still

LEMMA AnsweredIs ==
    ASSUME TypeOK, NEW n \in Nonces, NEW a \in Activations, NEW act \in Activation,
           NEW r \in Result, Answered(book, book', n, a, act, r)
    PROVE  /\ book.chal[n] # NoFacts /\ book.spent[n] = NoResult
           /\ book'.acts[a] = act
           /\ \A x \in Activations \ {a} : book'.acts[x] = book.acts[x]
           /\ book'.spent[n] = r
           /\ \A m \in Nonces \ {n} : book'.spent[m] = book.spent[m]
           /\ UNCHANGED <<book.chal, book.override, book.locked>>
  BY DEF TypeOK, Books, Answered, Still

LEMMA RetiredIs ==
    ASSUME TypeOK, NEW a \in Activations, Retired(book, book', a)
    PROVE  /\ book.acts[a].status = "active"
           /\ book'.acts = [book.acts EXCEPT ![a] = Deactivated(book.acts[a])]
           /\ UNCHANGED <<book.chal, book.spent, book.override>>
  BY DEF TypeOK, Books, Retired, Still

LEMMA SeatedIs ==
    ASSUME TypeOK, NEW l \in Licences, NEW max \in 0..MaxLimit, Seated(book, book', l, max)
    PROVE  /\ Cardinality(Active(book.acts, l)) <= (IF max = 0 THEN DefaultLimit ELSE max)
           /\ book'.override = [book.override EXCEPT ![l] = max]
           /\ UNCHANGED <<book.acts, book.chal, book.spent, book.locked>>
  BY DEF TypeOK, Books, Seated, Still

LEMMA ActsTyped == ASSUME TypeOK PROVE book.acts \in [Activations -> Activation]
  BY DEF TypeOK, Books

LEMMA RetiredLess ==
    ASSUME TypeOK, NEW a \in Activations, Retired(book, book', a), NEW l
    PROVE  Active(book'.acts, l) \subseteq Active(book.acts, l) \ {a}
  <1>1. book'.acts = [book.acts EXCEPT ![a] = Deactivated(book.acts[a])]
    BY RetiredIs
  <1>2. Deactivated(book.acts[a]).status = "deactivated"
    <2>1. book.acts[a] \in Bindings
      BY RetiredIs, ActiveIs
    <2> QED BY <2>1 DEF Deactivated, Bindings
  <1> QED BY <1>1, <1>2, ActsTyped DEF Active

\* An answer binds one machine at most, under an open licence with a free seat.
Gains(l) ==
    /\ l \notin book.locked /\ Cardinality(Active(book.acts, l)) < Limit(l)
    /\ UNCHANGED <<book.override, book.locked>>
    /\ \E a \in Activations : Active(book'.acts, l) \subseteq Active(book.acts, l) \cup {a}

LEMMA AnsweredGains ==
    ASSUME TypeOK, NEW n \in Nonces, NEW a \in Activations, NEW act \in Activation,
           NEW r \in Result, Answered(book, book', n, a, act, r), NEW l
    PROVE  Active(book'.acts, l) \subseteq Active(book.acts, l) \/ Gains(l)
  <1>1. /\ book'.acts[a] = act
        /\ \A x \in Activations \ {a} : book'.acts[x] = book.acts[x]
        /\ UNCHANGED <<book.override, book.locked>>
    BY AnsweredIs
  <1>2. Active(book'.acts, l) \subseteq Active(book.acts, l) \cup {a}
    BY <1>1 DEF Active
  <1>3. CASE a \notin Active(book'.acts, l) \/ a \in Active(book.acts, l)
    BY <1>2, <1>3
  <1>4. CASE a \in Active(book'.acts, l) /\ a \notin Active(book.acts, l)
    <2>1. act.lic = l
      BY <1>1, <1>4 DEF Active
    <2>2. ~(book.acts[a].status = "active" /\ act.lic = book.acts[a].lic)
      BY <1>4, <2>1 DEF Active
    <2>3. Fits(book, a, act)
      BY <2>2 DEF Answered, Stays
    <2> QED BY <1>1, <1>2, <2>1, <2>2, <2>3 DEF Fits, Gains, Limit
  <1> QED BY <1>3, <1>4

LEMMA EventGains ==
    ASSUME TypeOK, OneEvent(book, book'), NEW l
    PROVE  Active(book'.acts, l) \subseteq Active(book.acts, l) \/ Gains(l)
  BY AskedIs, AnsweredGains, RetiredLess, SeatedIs DEF OneEvent, Still

-----------------------------------------------------------------------------
(* seats *)

\* Once the operator has retired a machine, its licence gains no binding, by
\* whatever challenge was issued before (license-leases.ts 1425-1427).
THEOREM LockedCorrect == Spec => LockedGainsNothing
  <1> DEFINE A == \A l \in book.locked : Active(book'.acts, l) \subseteq Active(book.acts, l)
  <1>1. TypeOK /\ [Next]_vars => A
    BY StepIs, EventGains DEF Gains
  <1>2. Spec => []TypeOK
    BY TypeCorrect
  <1> QED BY <1>1, <1>2, PTL DEF Spec, LockedGainsNothing

LEMMA ActiveFinite ==
    ASSUME NEW acts, NEW l
    PROVE  IsFiniteSet(Active(acts, l)) /\ Cardinality(Active(acts, l)) \in Nat
  <1>1. IsFiniteSet(Active(acts, l))
    BY LeaseAssumption, FS_Subset DEF Active
  <1> QED BY <1>1, FS_CardinalityType

LEMMA LimitIs == ASSUME TypeOK, NEW l \in Licences PROVE Limit(l) \in Nat
  BY LeaseAssumption DEF TypeOK, Books, Limit

LEMMA SeatsStep ==
    ASSUME TypeOK, OneEvent(book, book'), SeatsHeld
    PROVE  SeatsHeld'
  <1> SUFFICES ASSUME NEW l \in Licences
               PROVE  Cardinality(Active(book'.acts, l)) <= Limit(l)'
    BY DEF SeatsHeld
  <1> DEFINE old == Active(book.acts, l)
             new == Active(book'.acts, l)
  <1>1. /\ IsFiniteSet(old) /\ Cardinality(old) \in Nat
        /\ IsFiniteSet(new) /\ Cardinality(new) \in Nat
        /\ Limit(l) \in Nat /\ Cardinality(old) <= Limit(l)
    BY ActiveFinite, LimitIs DEF SeatsHeld
  <1>2. CASE Gains(l)
    <2>1. PICK a \in Activations : new \subseteq old \cup {a}
      BY <1>2 DEF Gains
    <2> HIDE DEF old, new
    <2>2. IsFiniteSet(old \cup {a}) /\ Cardinality(old \cup {a}) <= Cardinality(old) + 1
      <3>1. /\ IsFiniteSet(old \cup {a})
            /\ \/ Cardinality(old \cup {a}) = Cardinality(old)
               \/ Cardinality(old \cup {a}) = Cardinality(old) + 1
        BY <1>1, FS_AddElement
      <3> QED BY <1>1, <3>1
    <2>3. Cardinality(new) <= Cardinality(old \cup {a}) /\ Cardinality(old \cup {a}) \in Nat
      BY <2>1, <2>2, FS_Subset, FS_CardinalityType
    <2>4. Limit(l)' = Limit(l) /\ Cardinality(old) < Limit(l)
      BY <1>2 DEF Gains, Limit, old
    <2>5. Cardinality(new) <= Limit(l)
      BY <1>1, <2>2, <2>3, <2>4
    <2> QED BY <2>4, <2>5 DEF new
  <1>3. CASE new \subseteq old
    <2>1. Cardinality(new) <= Cardinality(old) /\ Cardinality(new) <= Limit(l)
      <3> HIDE DEF old, new
      <3>1. Cardinality(new) <= Cardinality(old)
        BY <1>1, <1>3, FS_Subset
      <3> QED BY <1>1, <3>1
    <2>2. CASE UNCHANGED book.override
      <3>1. Limit(l)' = Limit(l)
        BY <2>2 DEF Limit
      <3> QED BY <1>1, <2>1, <3>1
    <2>3. ASSUME NEW k \in Licences, NEW max \in 0..MaxLimit, Seated(book, book', k, max)
          PROVE  Cardinality(new) <= Limit(l)'
      <3>1. /\ Cardinality(Active(book.acts, k)) <= (IF max = 0 THEN DefaultLimit ELSE max)
            /\ book'.override = [book.override EXCEPT ![k] = max]
            /\ book'.acts = book.acts /\ book.override \in [Licences -> 0..MaxLimit]
        BY <2>3, SeatedIs DEF TypeOK, Books
      <3>2. CASE k = l
        BY <3>1, <3>2 DEF Limit
      <3>3. CASE k # l
        <4>1. Limit(l)' = Limit(l)
          BY <3>1, <3>3 DEF Limit
        <4> QED BY <1>1, <3>1, <4>1
      <3> QED BY <3>2, <3>3
    <2> QED BY <2>2, <2>3, AskedIs, AnsweredIs, RetiredIs DEF OneEvent, Still
  <1> QED BY <1>2, <1>3, EventGains

\* No order of activations, moves, releases and changed limits binds more
\* machines to a licence than its limit (1428-1431, 1508-1512).
THEOREM SeatsCorrect == Spec => []SeatsHeld
  <1>1. Init => SeatsHeld
    <2> SUFFICES ASSUME Init, NEW l \in Licences
                 PROVE  Cardinality(Active(book.acts, l)) <= Limit(l)
      BY DEF SeatsHeld
    <2>1. Active(book.acts, l) = {}
      BY DEF Init, Active, NoActivation
    <2>2. Limit(l) \in Nat
      BY LeaseAssumption DEF Init, Limit
    <2> QED BY <2>1, <2>2, FS_EmptySet
  <1>2. TypeOK /\ SeatsHeld /\ [Next]_vars => SeatsHeld'
    BY StepIs, SeatsStep
  <1> QED BY <1>1, <1>2, TypeCorrect, PTL DEF Spec

-----------------------------------------------------------------------------
(* machines *)

LEMMA MachinesAnswered ==
    ASSUME TypeOK, MachinesDiffer, NEW n \in Nonces, NEW a \in Activations,
           NEW act \in Activation, NEW r \in Result, Answered(book, book', n, a, act, r)
    PROVE  MachinesDiffer'
  <1> DEFINE Differ(x, y) == x.inst # y.inst /\ x.key # y.key
  <1>1. book'.acts[a] = act /\ \A x \in Activations \ {a} : book'.acts[x] = book.acts[x]
    BY AnsweredIs
  <1>2. ASSUME NEW l \in Licences, NEW x \in Active(book'.acts, l), x # a
        PROVE  x \in Active(book.acts, l) /\ book'.acts[x] = book.acts[x]
    BY <1>1, <1>2 DEF Active
  <1>3. ASSUME NEW l \in Licences, NEW x \in Active(book'.acts, l), x # a,
               a \in Active(book'.acts, l)
        PROVE  Differ(book'.acts[x].at, book'.acts[a].at)
    <2>1. act.lic = l /\ book'.acts[a] = act
      BY <1>1, <1>3 DEF Active
    <2>2. x \in Active(book.acts, l) /\ book'.acts[x] = book.acts[x]
      BY <1>2, <1>3
    <2>3. CASE Stays(book, a, act)
      <3>1. a \in Active(book.acts, l) /\ act.at = book.acts[a].at
        BY <2>1, <2>3 DEF Stays, Active
      <3> QED BY <1>3, <2>1, <2>2, <3>1 DEF MachinesDiffer
    <2>4. CASE Fits(book, a, act)
      BY <1>3, <2>1, <2>2, <2>4 DEF Fits
    <2> QED BY <2>3, <2>4 DEF Answered
  <1>4. ASSUME NEW l \in Licences, NEW x \in Active(book'.acts, l),
               NEW y \in Active(book'.acts, l), x # y
        PROVE  Differ(book'.acts[x].at, book'.acts[y].at)
    <2>1. CASE x = a
      BY <1>3, <1>4, <2>1
    <2>2. CASE y = a
      BY <1>3, <1>4, <2>2
    <2>3. CASE x # a /\ y # a
      BY <1>2, <1>4, <2>3 DEF MachinesDiffer
    <2> QED BY <2>1, <2>2, <2>3
  <1> QED BY <1>4 DEF MachinesDiffer

LEMMA MachinesRetired ==
    ASSUME TypeOK, MachinesDiffer, NEW a \in Activations, Retired(book, book', a)
    PROVE  MachinesDiffer'
  <1>1. \A l \in Licences : \A x \in Active(book'.acts, l) :
            x \in Active(book.acts, l) /\ x # a
    BY RetiredLess
  <1>2. \A l \in Licences : \A x \in Active(book'.acts, l) : book'.acts[x] = book.acts[x]
    <2>1. book'.acts = [book.acts EXCEPT ![a] = Deactivated(book.acts[a])]
      BY RetiredIs
    <2> QED BY <1>1, <2>1, ActsTyped DEF Active
  <1> QED BY <1>1, <1>2 DEF MachinesDiffer

LEMMA MachinesStep ==
    ASSUME TypeOK, MachinesDiffer, OneEvent(book, book')
    PROVE  MachinesDiffer'
  <1>1. CASE UNCHANGED book.acts
    BY <1>1 DEF MachinesDiffer
  <1> QED BY <1>1, MachinesAnswered, MachinesRetired, AskedIs, SeatedIs DEF OneEvent, Still

\* Two active bindings of a licence share neither install id nor key, however
\* challenges to activate and to move cross (1419-1434, 1484-1487).
THEOREM MachinesCorrect == Spec => []MachinesDiffer
  <1>1. Init => MachinesDiffer
    BY DEF Init, MachinesDiffer, Active, NoActivation
  <1>2. TypeOK /\ MachinesDiffer /\ [Next]_vars => MachinesDiffer'
    BY StepIs, MachinesStep
  <1> QED BY <1>1, <1>2, TypeCorrect, PTL DEF Spec

-----------------------------------------------------------------------------
(* challenges and leases *)

\* A challenge that is spent was issued, and its binding has moved on since.
Behind ==
    \A n \in Nonces : book.spent[n] # NoResult =>
        /\ book.chal[n] # NoFacts
        /\ book.chal[n].purpose # "activate" =>
            book.chal[n].rev < book.acts[book.chal[n].act].rev

\* No result is ahead of its binding, nor of the last event.
Ahead ==
    \A n \in Nonces : book.spent[n] # NoResult =>
        /\ book.spent[n].rev <= book.acts[book.spent[n].act].rev
        /\ book.spent[n].seq <= book.acts[book.spent[n].act].seq
        /\ book.spent[n].at <= book.latest

LEMMA RowsTyped ==
    ASSUME TypeOK
    PROVE  /\ \A a \in Activations : book.acts[a].rev \in Nat /\ book.acts[a].seq \in Nat
           /\ \A n \in Nonces : book.chal[n] # NoFacts =>
                /\ book.chal[n].rev \in Nat
                /\ book.chal[n].purpose # "activate" => book.chal[n].act \in Activations
           /\ \A n \in Nonces : book.spent[n] # NoResult =>
                /\ book.spent[n].act \in Activations
                /\ book.spent[n].rev \in Nat /\ book.spent[n].seq \in Nat
                /\ book.spent[n].at \in Nat
           /\ book.latest \in Nat
           /\ book.chal \in [Nonces -> ChallengeFacts] /\ book.spent \in [Nonces -> Result]
  <1>1. /\ book.acts \in [Activations -> Activation]
        /\ book.chal \in [Nonces -> ChallengeFacts] /\ book.spent \in [Nonces -> Result]
        /\ book.latest \in Nat
    BY DEF TypeOK, Books
  <1>2. \A a \in Activations : book.acts[a].rev \in Nat /\ book.acts[a].seq \in Nat
    BY <1>1 DEF Activation, NoActivation
  <1>3. \A n \in Nonces : book.chal[n] # NoFacts =>
            /\ book.chal[n].rev \in Nat
            /\ book.chal[n].purpose # "activate" => book.chal[n].act \in Activations
    BY <1>1 DEF ChallengeFacts
  <1>4. \A n \in Nonces : book.spent[n] # NoResult =>
            /\ book.spent[n].act \in Activations
            /\ book.spent[n].rev \in Nat /\ book.spent[n].seq \in Nat
            /\ book.spent[n].at \in Nat
    BY <1>1 DEF Result
  <1> QED BY <1>1, <1>2, <1>3, <1>4

LEMMA NextTyped ==
    ASSUME OneEvent(book, book')
    PROVE  /\ \A a \in Activations : book'.acts[a].rev \in Nat /\ book'.acts[a].seq \in Nat
           /\ book'.latest \in Nat /\ book'.latest >= book.latest
  <1>1. book' \in Books
    BY DEF OneEvent
  <1>2. book'.acts \in [Activations -> Activation] /\ book'.latest \in Nat
    BY <1>1 DEF Books
  <1> QED BY <1>2 DEF OneEvent, Activation, NoActivation

\* A binding never goes back to an earlier revision or lease number.
LEMMA BindingsGrow ==
    ASSUME TypeOK, OneEvent(book, book'), NEW x \in Activations
    PROVE  book'.acts[x].rev >= book.acts[x].rev /\ book'.acts[x].seq >= book.acts[x].seq
  <1>0. book.acts[x].rev \in Nat /\ book.acts[x].seq \in Nat
    BY RowsTyped
  <1>1. CASE UNCHANGED book.acts
    BY <1>0, <1>1
  <1>2. ASSUME NEW n \in Nonces, NEW a \in Activations, NEW act \in Activation,
               NEW r \in Result, Answered(book, book', n, a, act, r)
        PROVE  book'.acts[x].rev >= book.acts[x].rev /\ book'.acts[x].seq >= book.acts[x].seq
    <2>1. book'.acts[a] = act /\ \A y \in Activations \ {a} : book'.acts[y] = book.acts[y]
      BY <1>2, AnsweredIs
    <2>2. act.rev = book.acts[a].rev + 1 /\ act.seq >= book.acts[a].seq
      BY <1>2 DEF Answered
    <2> QED BY <1>0, <2>1, <2>2
  <1>3. ASSUME NEW a \in Activations, Retired(book, book', a)
        PROVE  book'.acts[x].rev >= book.acts[x].rev /\ book'.acts[x].seq >= book.acts[x].seq
    <2>1. /\ book.acts[a].status = "active"
          /\ book'.acts = [book.acts EXCEPT ![a] = Deactivated(book.acts[a])]
      BY <1>3, RetiredIs
    <2>2. /\ Deactivated(book.acts[a]).rev = book.acts[a].rev + 1
          /\ Deactivated(book.acts[a]).seq = book.acts[a].seq
      BY <2>1, DeactivatedIs
    <2> QED BY <1>0, <2>1, <2>2, ActsTyped
  <1> QED BY <1>1, <1>2, <1>3, AskedIs, SeatedIs DEF OneEvent, Still

\* What is spent stays spent, and a challenge once issued stays as it is.
LEMMA SpentStays ==
    ASSUME TypeOK, OneEvent(book, book'), NEW m \in Nonces
    PROVE  /\ book.chal[m] # NoFacts => book'.chal[m] = book.chal[m]
           /\ \/ book'.spent[m] = book.spent[m]
              \/ \E a \in Activations, act \in Activation, r \in Result :
                    Answered(book, book', m, a, act, r)
  <1>1. CASE UNCHANGED <<book.chal, book.spent>>
    BY <1>1
  <1>2. ASSUME NEW n \in Nonces, NEW f \in ChallengeFacts, Asked(book, book', n, f)
        PROVE  /\ book.chal[m] # NoFacts => book'.chal[m] = book.chal[m]
               /\ book'.spent[m] = book.spent[m]
    <2>1. /\ book.chal[n] = NoFacts /\ book'.chal = [book.chal EXCEPT ![n] = f]
          /\ book'.spent = book.spent
      BY <1>2, AskedIs
    <2> QED BY <2>1, RowsTyped
  <1>3. ASSUME NEW n \in Nonces, NEW a \in Activations, NEW act \in Activation,
               NEW r \in Result, Answered(book, book', n, a, act, r), n # m
        PROVE  book'.chal = book.chal /\ book'.spent[m] = book.spent[m]
    <2>1. book'.chal = book.chal /\ \A o \in Nonces \ {n} : book'.spent[o] = book.spent[o]
      BY <1>3, AnsweredIs
    <2> QED BY <1>3, <2>1
  <1>4. ASSUME NEW a \in Activations, NEW act \in Activation,
               NEW r \in Result, Answered(book, book', m, a, act, r)
        PROVE  book'.chal = book.chal
    BY <1>4, AnsweredIs
  <1> QED BY <1>1, <1>2, <1>3, <1>4, RetiredIs, SeatedIs DEF OneEvent, Still

\* What an answer records, and where the binding stood before and after.
LEMMA AnswerIs ==
    ASSUME TypeOK, NEW n \in Nonces, NEW a \in Activations, NEW act \in Activation,
           NEW r \in Result, Answered(book, book', n, a, act, r)
    PROVE  /\ book.chal[n] # NoFacts /\ book.spent[n] = NoResult
           /\ book'.chal = book.chal /\ book'.spent[n] = r /\ book'.acts[a] = act
           /\ r # NoResult /\ r.act = a /\ r.rev = act.rev /\ r.seq = act.seq
           /\ act.rev = book.acts[a].rev + 1 /\ act.seq >= book.acts[a].seq
           /\ r.until # 0 => act.seq > book.acts[a].seq /\ r.at >= book.latest
           /\ r.at <= book'.latest
           /\ book.chal[n].purpose # "activate" =>
                book.chal[n].act = a /\ book.chal[n].rev = book.acts[a].rev
  <1>1. /\ book.chal[n] # NoFacts /\ book.spent[n] = NoResult /\ book'.chal = book.chal
        /\ book'.spent[n] = r /\ book'.acts[a] = act
    BY AnsweredIs
  <1> QED BY <1>1 DEF Answered

LEMMA BehindStep ==
    ASSUME TypeOK, Behind, OneEvent(book, book')
    PROVE  Behind'
  <1> SUFFICES ASSUME NEW m \in Nonces, book'.spent[m] # NoResult
               PROVE  /\ book'.chal[m] # NoFacts
                      /\ book'.chal[m].purpose # "activate" =>
                            book'.chal[m].rev < book'.acts[book'.chal[m].act].rev
    BY DEF Behind
  <1>1. CASE book'.spent[m] = book.spent[m]
    <2>1. /\ book.chal[m] # NoFacts /\ book'.chal[m] = book.chal[m]
          /\ book.chal[m].purpose # "activate" =>
                book.chal[m].rev < book.acts[book.chal[m].act].rev
      BY <1>1, SpentStays DEF Behind
    <2>2. ASSUME book.chal[m].purpose # "activate"
          PROVE  book.chal[m].rev < book'.acts[book.chal[m].act].rev
      <3> DEFINE x == book.chal[m].act
      <3>1. x \in Activations /\ book.chal[m].rev \in Nat /\ book.acts[x].rev \in Nat
        BY <2>1, <2>2, RowsTyped
      <3>2. book'.acts[x].rev >= book.acts[x].rev /\ book'.acts[x].rev \in Nat
        BY <3>1, BindingsGrow, NextTyped
      <3> QED BY <2>1, <2>2, <3>1, <3>2
    <2> QED BY <2>1, <2>2
  <1>2. ASSUME NEW a \in Activations, NEW act \in Activation, NEW r \in Result,
               Answered(book, book', m, a, act, r)
        PROVE  /\ book'.chal[m] # NoFacts
               /\ book'.chal[m].purpose # "activate" =>
                     book'.chal[m].rev < book'.acts[book'.chal[m].act].rev
    <2>1. /\ book.chal[m] # NoFacts /\ book'.chal = book.chal /\ book'.acts[a] = act
          /\ act.rev = book.acts[a].rev + 1
          /\ book.chal[m].purpose # "activate" =>
                book.chal[m].act = a /\ book.chal[m].rev = book.acts[a].rev
      BY <1>2, AnswerIs
    <2>2. book.acts[a].rev \in Nat
      BY RowsTyped
    <2> QED BY <2>1, <2>2
  <1> QED BY <1>1, <1>2, SpentStays

\* A challenge about the binding of one that is answered was not spent at the
\* same revision.
LEMMA OneUseStep ==
    ASSUME TypeOK, Behind, OneUsePerRevision, OneEvent(book, book')
    PROVE  OneUsePerRevision'
  <1> DEFINE Same(c, m, n) ==
                /\ c.chal[m].purpose # "activate" /\ c.chal[n].purpose # "activate"
                /\ c.chal[m].act = c.chal[n].act /\ c.chal[m].rev = c.chal[n].rev
  <1>1. ASSUME NEW m \in Nonces, book'.spent[m] = book.spent[m], book'.spent[m] # NoResult
        PROVE  /\ book.chal[m] # NoFacts /\ book'.chal[m] = book.chal[m]
               /\ book.chal[m].purpose # "activate" =>
                     book.chal[m].rev < book.acts[book.chal[m].act].rev
    BY <1>1, SpentStays DEF Behind
  <1>2. ASSUME NEW m \in Nonces, NEW n \in Nonces, book'.spent[m] = book.spent[m],
               book'.spent[m] # NoResult, NEW a \in Activations, NEW act \in Activation,
               NEW r \in Result, Answered(book, book', n, a, act, r)
        PROVE  ~Same(book', m, n)
    <2>1. /\ book'.chal = book.chal
          /\ book.chal[n].purpose # "activate" =>
                book.chal[n].act = a /\ book.chal[n].rev = book.acts[a].rev
      BY <1>2, AnswerIs
    <2>2. book.acts[a].rev \in Nat
      BY RowsTyped
    <2> QED BY <1>1, <1>2, <2>1, <2>2
  <1>3. ASSUME NEW m \in Nonces, NEW n \in Nonces, book'.spent[m] # NoResult,
               book'.spent[n] # NoResult, Same(book', m, n), m # n
        PROVE  FALSE
    <2>1. CASE book'.spent[m] = book.spent[m] /\ book'.spent[n] = book.spent[n]
      BY <1>1, <1>3, <2>1 DEF OneUsePerRevision
    <2>2. CASE book'.spent[m] = book.spent[m] /\ book'.spent[n] # book.spent[n]
      BY <1>2, <1>3, <2>2, SpentStays
    <2>3. CASE book'.spent[m] # book.spent[m] /\ book'.spent[n] = book.spent[n]
      <3>1. Same(book', n, m)
        BY <1>3
      <3> HIDE DEF Same
      <3> QED BY <1>2, <1>3, <2>3, <3>1, SpentStays
    <2>4. CASE book'.spent[m] # book.spent[m] /\ book'.spent[n] # book.spent[n]
      <3>1. PICK a \in Activations, act \in Activation, r \in Result :
                Answered(book, book', m, a, act, r)
        BY <2>4, SpentStays
      <3>2. book'.spent[n] = book.spent[n]
        BY <1>3, <3>1, AnsweredIs
      <3> QED BY <2>4, <3>2
    <2> QED BY <2>1, <2>2, <2>3, <2>4
  <1> QED BY <1>3 DEF OneUsePerRevision

LEMMA AheadStep ==
    ASSUME TypeOK, Ahead, OneEvent(book, book')
    PROVE  Ahead'
  <1> SUFFICES ASSUME NEW m \in Nonces, book'.spent[m] # NoResult
               PROVE  /\ book'.spent[m].rev <= book'.acts[book'.spent[m].act].rev
                      /\ book'.spent[m].seq <= book'.acts[book'.spent[m].act].seq
                      /\ book'.spent[m].at <= book'.latest
    BY DEF Ahead
  <1>1. CASE book'.spent[m] = book.spent[m]
    <2> DEFINE x == book.spent[m].act
    <2>1. /\ x \in Activations /\ book.spent[m].rev \in Nat /\ book.spent[m].seq \in Nat
          /\ book.spent[m].at \in Nat /\ book.latest \in Nat
          /\ book.acts[x].rev \in Nat /\ book.acts[x].seq \in Nat
      BY <1>1, RowsTyped
    <2>2. /\ book.spent[m].rev <= book.acts[x].rev /\ book.spent[m].seq <= book.acts[x].seq
          /\ book.spent[m].at <= book.latest
      BY <1>1 DEF Ahead
    <2>3. /\ book'.acts[x].rev >= book.acts[x].rev /\ book'.acts[x].rev \in Nat
          /\ book'.acts[x].seq >= book.acts[x].seq /\ book'.acts[x].seq \in Nat
          /\ book'.latest >= book.latest /\ book'.latest \in Nat
      BY <2>1, BindingsGrow, NextTyped
    <2> QED BY <1>1, <2>1, <2>2, <2>3
  <1>2. ASSUME NEW a \in Activations, NEW act \in Activation, NEW r \in Result,
               Answered(book, book', m, a, act, r)
        PROVE  /\ book'.spent[m].rev <= book'.acts[book'.spent[m].act].rev
               /\ book'.spent[m].seq <= book'.acts[book'.spent[m].act].seq
               /\ book'.spent[m].at <= book'.latest
    <2>1. /\ book'.spent[m] = r /\ book'.acts[a] = act /\ r.act = a
          /\ r.rev = act.rev /\ r.seq = act.seq /\ r.at <= book'.latest
      BY <1>2, AnswerIs
    <2>2. book'.acts[a].rev \in Nat /\ book'.acts[a].seq \in Nat
      BY NextTyped
    <2> QED BY <2>1, <2>2
  <1> QED BY <1>1, <1>2, SpentStays

\* A new lease comes after every lease its binding has had.
LEMMA NewLeaseIsLast ==
    ASSUME TypeOK, Ahead, NEW n \in Nonces, NEW a \in Activations, NEW act \in Activation,
           NEW r \in Result, Answered(book, book', n, a, act, r), r.until # 0,
           NEW m \in Nonces, book.spent[m] # NoResult, book.spent[m].act = a
    PROVE  /\ book'.spent[n] = r /\ book.spent[m].seq \in Nat /\ r.seq \in Nat
           /\ book.spent[m].seq < r.seq /\ book.spent[m].rev < r.rev
           /\ book.spent[m].at <= r.at
  <1>1. /\ book'.spent[n] = r /\ r # NoResult /\ r.rev = act.rev /\ r.seq = act.seq
        /\ act.rev = book.acts[a].rev + 1 /\ act.seq > book.acts[a].seq
        /\ r.at >= book.latest
    BY AnswerIs
  <1>2. /\ book.spent[m].rev \in Nat /\ book.spent[m].seq \in Nat
        /\ book.spent[m].at \in Nat /\ book.latest \in Nat
        /\ book.acts[a].rev \in Nat /\ book.acts[a].seq \in Nat
    BY RowsTyped
  <1>3. r.rev \in Nat /\ r.seq \in Nat /\ r.at \in Nat
    BY <1>1 DEF Result
  <1>4. /\ book.spent[m].rev <= book.acts[a].rev /\ book.spent[m].seq <= book.acts[a].seq
        /\ book.spent[m].at <= book.latest
    BY DEF Ahead
  <1> QED BY <1>1, <1>2, <1>3, <1>4

LEMMA LeasesStep ==
    ASSUME TypeOK, Ahead, LeasesInOrder, OneEvent(book, book')
    PROVE  LeasesInOrder'
  <1> DEFINE Kept(m) == book'.spent[m] = book.spent[m]
             Ordered(r, s) ==
                /\ r.seq # s.seq
                /\ r.seq < s.seq => r.rev < s.rev /\ r.at <= s.at
  <1> SUFFICES ASSUME NEW m \in Nonces, NEW n \in Nonces, m # n,
                      book'.spent[m].until # 0, book'.spent[n].until # 0,
                      book'.spent[m].act = book'.spent[n].act
               PROVE  Ordered(book'.spent[m], book'.spent[n])
    BY DEF LeasesInOrder, Leased
  <1>1. \A o \in Nonces : book.spent[o].until # 0 => book.spent[o] # NoResult
    BY DEF NoResult
  <1>2. ASSUME NEW o \in Nonces, NEW p \in Nonces, o # p, Kept(o), ~Kept(p),
               book'.spent[o].until # 0, book'.spent[p].until # 0,
               book'.spent[o].act = book'.spent[p].act
        PROVE  Ordered(book'.spent[o], book'.spent[p]) /\ Ordered(book'.spent[p], book'.spent[o])
    <2>1. PICK a \in Activations, act \in Activation, r \in Result :
                Answered(book, book', p, a, act, r)
      BY <1>2, SpentStays
    <2>2. book'.spent[p] = r /\ r.act = a
      BY <2>1, AnswerIs
    <2>3. book.spent[o] # NoResult /\ book.spent[o].act = a
      BY <1>1, <1>2, <2>2
    <2>4. /\ book.spent[o].seq \in Nat /\ r.seq \in Nat
          /\ book.spent[o].seq < r.seq /\ book.spent[o].rev < r.rev
          /\ book.spent[o].at <= r.at
      BY <1>2, <2>1, <2>2, <2>3, NewLeaseIsLast
    <2> QED BY <1>2, <2>2, <2>4
  <1>3. CASE Kept(m) /\ Kept(n)
    BY <1>3 DEF LeasesInOrder, Leased
  <1>4. CASE ~Kept(m) /\ ~Kept(n)
    <2>1. PICK a \in Activations, act \in Activation, r \in Result :
                Answered(book, book', m, a, act, r)
      BY <1>4, SpentStays
    <2>2. Kept(n)
      BY <2>1, AnsweredIs
    <2> QED BY <1>4, <2>2
  <1>5. CASE Kept(m) /\ ~Kept(n)
    BY <1>2, <1>5
  <1>6. CASE ~Kept(m) /\ Kept(n)
    BY <1>2, <1>6
  <1> QED BY <1>3, <1>4, <1>5, <1>6

\* Of the challenges issued against one revision of a binding one at most is
\* ever spent (1374-1380).
THEOREM ChallengesCorrect == Spec => []OneUsePerRevision
  <1>1. Init => Behind /\ OneUsePerRevision
    BY DEF Init, Behind, OneUsePerRevision
  <1>2. TypeOK /\ Behind /\ OneUsePerRevision /\ [Next]_vars => Behind' /\ OneUsePerRevision'
    BY StepIs, BehindStep, OneUseStep
  <1> QED BY <1>1, <1>2, TypeCorrect, PTL DEF Spec

\* The leases of a binding are numbered in the order of their revisions and
\* server times, whatever the clocks and restarts do (1257-1259, 1435-1463).
THEOREM LeasesCorrect == Spec => []LeasesInOrder
  <1>1. Init => Ahead /\ LeasesInOrder
    BY DEF Init, Ahead, LeasesInOrder, Leased, NoResult
  <1>2. TypeOK /\ Ahead /\ LeasesInOrder /\ [Next]_vars => Ahead' /\ LeasesInOrder'
    BY StepIs, AheadStep, LeasesStep
  <1> QED BY <1>1, <1>2, TypeCorrect, PTL DEF Spec
=============================================================================
