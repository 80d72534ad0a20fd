------------------------ MODULE LeaseLedger_proofs -------------------------
(***************************************************************************)
(* Proofs about LeaseLedger, for any number of hubs, any size of a segment *)
(* and any number of appends, deaths and writes that throw: every event of *)
(* a history that is read was decided on the history before it; what was   *)
(* acknowledged is kept; and the files implement SignedLog.                *)
(*                                                                         *)
(* Whoever writes at the same time, a line holds the history its event was *)
(* decided on (Good, Decided).  The rest holds until two hubs change the   *)
(* files at once, and rests on the lock: a hub between its lock and its    *)
(* unlock has the lock, so it is alone there, and what it checked under the *)
(* lock is still so when it writes (Alone).                                *)
(***************************************************************************)
EXTENDS LeaseLedger, SequenceTheorems, WellFoundedInduction, TLAPS

Entry == [event : 0..MaxEvents, prev : History]

\* A line that is not torn holds the history its event was decided on.
Good == {ln \in Entry : ln # Torn => ln.event \in 1..events /\ ln.prev = basis[ln.event]}

HubRows == [pc : Pcs, pid : Pids, on : History, event : 0..MaxEvents,
            target : Nat, again : BOOLEAN]

FilesOK == archives \in Seq(Seq(Good)) /\ (active = NoFile \/ active \in Seq(Good))

Shape ==
    /\ FilesOK
    /\ head \in History /\ log \in Seq(1..events) /\ acked \in Seq(1..events)
    /\ lock = NoLock \/ lock \in [by : Hubs, owner : Pids \cup {NoOne}]
    /\ hub \in [Hubs -> HubRows]
    /\ events \in 1..MaxEvents /\ failures \in 0..MaxFailures
    /\ basis \in [1..events -> History] /\ clashed \in BOOLEAN

\* An operation that has come to the lock carries an event and its history.
Deciding == {"lock", "inspect", "seize"} \cup Writing
DecidedRow(r, n, b, k) ==
    /\ r.event # 0 => r.event \in 1..n /\ r.on = b[r.event]
    /\ r.pc \in Deciding => r.event # 0
    /\ r.pc = "rename" => r.target \in 1..k + 1
Decided ==
    /\ \A h \in Hubs : DecidedRow(hub[h], events, basis, Len(archives))
    /\ DecidedOnTheLog

\* Between its check and its line nothing has changed for the hub that writes.
Checked == {"list", "rename", "create", "line"}

Owned == \A h \in Hubs : hub[h].pc \in Writing => lock.by = h
Readable ==
    /\ \A i \in DOMAIN archives : archives[i] # <<>>
    /\ Chained(Lines)
    /\ EventsOf(Lines) = head \/ \E e \in 1..events : EventsOf(Lines) = Append(head, e)
    /\ head = <<First>> \o acked /\ log = head
Ready(h) ==
    /\ hub[h].pc \in Checked => Whole /\ EventsOf(Lines) = head /\ hub[h].on = head
    /\ hub[h].pc = "rename" =>
          active # NoFile /\ active # <<>> /\ hub[h].target = Len(archives) + 1
    /\ hub[h].pc = "head" => hub[h].on = head /\ EventsOf(Lines) = Append(head, hub[h].event)
\* Nobody writes with another, and what was checked is so.
Alone == ~clashed => Owned /\ Readable /\ \A h \in Hubs : Ready(h)

IInv == Shape /\ Decided /\ Alone

\* What the reader sees of a step: nothing, that the log cannot be read now, or
\* one more event.
Follow == log' = IF Replays' THEN EventsOf(Lines)' ELSE log
Silent == log' = log /\ (Replays' <=> Replays)
Seen ==
    \/ Silent
    \/ Replays /\ ~Replays' /\ log' = log
    \/ Replays' /\ \E e \in 1..MaxEvents : log' = Append(log, e)

-----------------------------------------------------------------------------
(* segments in a row                                                         *)

LEMMA Least ==
    ASSUME NEW T, T \subseteq Nat, T # {}
    PROVE  \E x \in T : \A y \in T : x <= y
  <1> DEFINE R == OpToRel(<, Nat)
  <1>1. IsWellFoundedOn(R, Nat)
    BY NatLessThanWellFounded
  <1>2. \A x, y \in Nat : <<x, y>> \in R <=> x < y
    BY DEF OpToRel
  <1> HIDE DEF R
  <1>3. PICK x \in T : \A y \in T : ~ (<<y, x>> \in R)
    BY <1>1, WFMin
  <1>4. ASSUME NEW y \in T
        PROVE  x <= y
    <2>1. x \in Nat /\ y \in Nat /\ ~ (y < x)
      BY <1>2, <1>3
    <2> QED
      BY <2>1
  <1> QED
    BY <1>4

\* The table FlattenSeq builds: at i, the first i sequences in a row.
Rows(ss, n, f) == f = [i \in 1 .. n |-> IF i = 1 THEN ss[i] ELSE f[i-1] \o ss[i]]

LEMMA RowsAgree ==
    ASSUME NEW ss, NEW tt, NEW m \in Nat, NEW n \in Nat, NEW f, NEW g,
           Rows(ss, m, f), Rows(tt, n, g), m <= n, \A i \in 1 .. m : ss[i] = tt[i]
    PROVE  \A i \in 1 .. m : f[i] = g[i]
  <1> DEFINE Bad == {i \in 1 .. m : f[i] # g[i]}
  <1>1. SUFFICES ASSUME Bad # {}
                 PROVE  FALSE
    OBVIOUS
  <1>2. PICK i \in Bad : \A j \in Bad : i <= j
    <2>1. Bad \subseteq Nat
      OBVIOUS
    <2> HIDE DEF Bad
    <2> QED
      BY <1>1, <2>1, Least
  <1>3. i \in 1 .. m /\ i \in 1 .. n /\ i - 1 \notin Bad
    BY <1>2
  <1>4. /\ f[i] = IF i = 1 THEN ss[i] ELSE f[i-1] \o ss[i]
        /\ g[i] = IF i = 1 THEN tt[i] ELSE g[i-1] \o tt[i]
    <2>1. \A h, uu, k : Rows(uu, k, h) /\ i \in 1 .. k => h[i] = IF i = 1 THEN uu[i] ELSE h[i-1] \o uu[i]
      BY DEF Rows
    <2> QED
      BY <1>3, <2>1
  <1>5. i # 1 => f[i-1] = g[i-1]
    BY <1>3
  <1> QED
    BY <1>2, <1>3, <1>4, <1>5

LEMMA RowsExist ==
    ASSUME NEW ss, NEW n \in Nat
    PROVE  \E f : Rows(ss, n, f)
  <1> DEFINE Bad == {k \in Nat : ~ \E f : Rows(ss, k, f)}
  <1>1. SUFFICES ASSUME Bad # {}
                 PROVE  FALSE
    OBVIOUS
  <1>2. PICK k \in Bad : \A j \in Bad : k <= j
    <2>1. Bad \subseteq Nat
      OBVIOUS
    <2> HIDE DEF Bad
    <2> QED
      BY <1>1, <2>1, Least
  <1>3. k \in Nat /\ ~ \E f : Rows(ss, k, f)
    BY <1>2
  <1>4. CASE k = 0
    <2> DEFINE f == [i \in {} |-> 0]
    <2>1. Rows(ss, 0, f)
      BY DEF Rows
    <2> QED
      BY <1>3, <1>4, <2>1
  <1>5. CASE k # 0
    <2>1. k - 1 \in Nat /\ k - 1 \notin Bad
      BY <1>2, <1>3, <1>5
    <2>2. PICK f : Rows(ss, k - 1, f)
      BY <2>1
    <2> DEFINE g == [i \in 1 .. k |-> IF i = 1 THEN ss[i] ELSE f[i-1] \o ss[i]]
    <2>3. ASSUME NEW i \in 1 .. k - 1
          PROVE  g[i] = f[i]
      <3>1. i \in 1 .. k
        BY <1>3
      <3>2. g[i] = IF i = 1 THEN ss[i] ELSE f[i-1] \o ss[i]
        BY <3>1
      <3>3. f[i] = IF i = 1 THEN ss[i] ELSE f[i-1] \o ss[i]
        BY <2>2 DEF Rows
      <3> QED
        BY <3>2, <3>3
    <2>4. \A i \in 1 .. k : i # 1 => i - 1 \in 1 .. k - 1
      BY <1>3
    <2>5. g = [i \in 1 .. k |-> IF i = 1 THEN ss[i] ELSE g[i-1] \o ss[i]]
      <3> HIDE DEF g
      <3>1. g = [i \in 1 .. k |-> IF i = 1 THEN ss[i] ELSE f[i-1] \o ss[i]]
        BY DEF g
      <3>2. \A i \in 1 .. k : i # 1 => g[i-1] = f[i-1]
        BY <2>3, <2>4
      <3> QED
        BY <3>1, <3>2
    <2>6. Rows(ss, k, g)
      BY <2>5 DEF Rows
    <2> QED
      BY <1>3, <2>6
  <1> QED
    BY <1>4, <1>5

LEMMA FlatIs ==
    ASSUME NEW X, NEW ss \in Seq(X), NEW n, n = Len(ss), n # 0
    PROVE  \E f : Rows(ss, n, f) /\ FlattenSeq(ss) = f[n]
  <1> DEFINE f == CHOOSE f : f = [i \in 1 .. n |-> IF i = 1 THEN ss[i] ELSE f[i-1] \o ss[i]]
  <1>1. FlattenSeq(ss) = f[n]
    BY DEF FlattenSeq
  <1>2. \E g : Rows(ss, n, g)
    BY RowsExist, LenProperties
  <1>3. Rows(ss, n, f)
    BY <1>2 DEF Rows
  <1> QED
    BY <1>1, <1>3

LEMMA FlatEmpty == FlattenSeq(<<>>) = <<>>
  BY DEF FlattenSeq

LEMMA FlatGrows ==
    ASSUME NEW X, NEW ss \in Seq(X), NEW tt \in Seq(X), NEW n \in Nat, NEW m \in Nat, n # 0, m = n + 1,
           Len(ss) = n, Len(tt) = m, \A i \in 1 .. n : ss[i] = tt[i]
    PROVE  FlattenSeq(tt) = FlattenSeq(ss) \o tt[m]
  <1>1. PICK f : Rows(ss, n, f) /\ FlattenSeq(ss) = f[n]
    BY FlatIs
  <1>2. PICK g : Rows(tt, m, g) /\ FlattenSeq(tt) = g[m]
    BY FlatIs
  <1>3. \A i \in 1 .. n : f[i] = g[i]
    <2>1. Rows(ss, n, f) /\ Rows(tt, m, g)
      BY <1>1, <1>2
    <2>2. n <= m
      OBVIOUS
    <2>3. \A i \in 1 .. n : ss[i] = tt[i]
      OBVIOUS
    <2> HIDE <1>1, <1>2
    <2> QED
      BY <2>1, <2>2, <2>3, RowsAgree, SMTT(30)
  <1>4. m \in 1 .. m /\ m # 1 /\ m - 1 = n /\ n \in 1 .. n
    OBVIOUS
  <1>5. g[m] = g[n] \o tt[m]
    BY <1>2, <1>4 DEF Rows
  <1> QED
    BY <1>1, <1>2, <1>3, <1>4, <1>5

LEMMA FlatAppend ==
    ASSUME NEW X, NEW ss \in Seq(Seq(X)), NEW s \in Seq(X)
    PROVE  FlattenSeq(Append(ss, s)) = FlattenSeq(ss) \o s
  <1>1. PICK tt : tt = Append(ss, s)
    OBVIOUS
  <1>2. PICK n \in Nat, m \in Nat : n = Len(ss) /\ m = n + 1
    BY LenProperties
  <1>3. /\ tt \in Seq(Seq(X)) /\ Len(tt) = m /\ tt[m] = s
        /\ \A i \in 1 .. n : ss[i] = tt[i]
    BY <1>1, <1>2, AppendProperties
  <1>4. CASE n = 0
    <2>1. ss = <<>>
      BY <1>2, <1>4, EmptySeq
    <2>2. FlattenSeq(ss) \o s = s
      BY <2>1, FlatEmpty, ConcatEmptySeq
    <2>5. m = Len(tt) /\ m # 0 /\ tt \in Seq(Seq(X))
      BY <1>2, <1>3, <1>4
    <2>6. \E g : Rows(tt, m, g) /\ FlattenSeq(tt) = g[m]
      BY <2>5, FlatIs
    <2>3. PICK g : Rows(tt, m, g) /\ FlattenSeq(tt) = g[m]
      BY <2>6
    <2>4. g[1] = tt[1] /\ m = 1
      BY <1>2, <1>4, <2>3 DEF Rows
    <2> QED
      BY <1>1, <1>3, <2>2, <2>3, <2>4
  <1>5. CASE n # 0
    <2>1. FlattenSeq(tt) = FlattenSeq(ss) \o tt[m]
      BY <1>2, <1>3, <1>5, FlatGrows
    <2> QED
      BY <1>1, <1>3, <2>1
  <1> QED
    BY <1>4, <1>5

LEMMA FlatTyped ==
    ASSUME NEW X, NEW ss \in Seq(Seq(X))
    PROVE  FlattenSeq(ss) \in Seq(X)
  <1>1. CASE Len(ss) = 0
    BY <1>1, EmptySeq, FlatEmpty
  <1>2. CASE Len(ss) # 0
    <2> DEFINE n == Len(ss)
    <2>1. n \in Nat /\ \A i \in 1 .. n : ss[i] \in Seq(X)
      BY LenProperties
    <2>2. PICK f : Rows(ss, n, f) /\ FlattenSeq(ss) = f[n]
      BY <1>2, FlatIs
    <2> DEFINE Bad == {i \in 1 .. n : f[i] \notin Seq(X)}
    <2>3. SUFFICES ASSUME Bad # {}
                   PROVE  FALSE
      BY <1>2, <2>1, <2>2
    <2>4. PICK i \in Bad : \A j \in Bad : i <= j
      <3>1. Bad \subseteq Nat
        OBVIOUS
      <3> HIDE DEF Bad
      <3> QED
        BY <2>3, <3>1, Least
    <2> HIDE DEF n
    <2>5. i \in 1 .. n /\ i - 1 \notin Bad
      BY <2>1, <2>4
    <2>6. f[i] = IF i = 1 THEN ss[i] ELSE f[i-1] \o ss[i]
      BY <2>2, <2>5 DEF Rows
    <2>7. CASE i = 1
      BY <2>1, <2>4, <2>5, <2>6, <2>7
    <2>8. CASE i # 1
      <3>1. f[i-1] \in Seq(X) /\ ss[i] \in Seq(X)
        BY <2>1, <2>5, <2>8
      <3>2. f[i-1] \o ss[i] \in Seq(X)
        BY <3>1, ConcatProperties
      <3>3. f[i] \notin Seq(X)
        BY <2>4 DEF Bad
      <3> QED
        BY <2>6, <2>8, <3>2, <3>3
    <2> QED
      BY <2>7, <2>8
  <1> QED
    BY <1>1, <1>2

-----------------------------------------------------------------------------
(* the events of lines                                                       *)

LEMMA EntryFacts ==
    /\ \A ln \in Entry : ln.event \in 0..MaxEvents /\ ln.prev \in History
    /\ Torn \in Entry /\ Torn # Line(0, <<0>>) /\ NoFile # <<>>
    /\ Good \subseteq Entry
    /\ NoFile \notin Seq(Entry)
  <1>1. <<>> \in History
    BY EmptySeq DEF History
  <1>2. <<>> # <<0>>
    <2>1. Len(<<>>) = 0 /\ Len(<<0>>) = 1
      OBVIOUS
    <2> QED
      BY <2>1
  <1>3. Torn \in Entry
    BY <1>1, LedgerAssumption DEF Torn, Line, Entry
  <1>4. Torn # Line(0, <<0>>)
    <2>1. Torn.prev = <<>> /\ Line(0, <<0>>).prev = <<0>>
      BY DEF Torn, Line
    <2> QED
      BY <1>2, <2>1
  <1>5. Len(NoFile) = 1 /\ NoFile[1] = Line(0, <<0>>)
    BY DEF NoFile
  <1>6. NoFile # <<>>
    <2>1. Len(<<>>) = 0
      OBVIOUS
    <2> QED
      BY <1>5, <2>1
  <1>7. NoFile \notin Seq(Entry)
    <2>1. SUFFICES ASSUME NoFile \in Seq(Entry)
                   PROVE  FALSE
      OBVIOUS
    <2>2. Line(0, <<0>>) \in Entry
      BY <1>5, <2>1, ElementOfSeq
    <2>3. PICK z : z = <<0>>
      OBVIOUS
    <2>4. z \in Seq(1..MaxEvents)
      BY <2>2, <2>3 DEF Entry, Line, History
    <2>5. Len(z) = 1 /\ z[1] = 0
      BY <2>3
    <2>6. z[1] \in 1..MaxEvents
      <3>1. 1 \in 1 .. Len(z)
        BY <2>5
      <3>2. z[1] \in 1..MaxEvents
        BY <2>4, <3>1, ElementOfSeq
      <3> QED
        BY <3>2
    <2> QED
      BY <2>5, <2>6
  <1> QED
    BY <1>3, <1>4, <1>6, <1>7 DEF Entry, Good

LEMMA IsFunSeq ==
    ASSUME NEW X, NEW n \in Nat, NEW f \in [1 .. n -> X]
    PROVE  f \in Seq(X)
  <1>1. f \in UNION {[1..m -> X] : m \in Nat}
    OBVIOUS
  <1>2. Seq(X) = UNION {[1..m -> X] : m \in Nat}
    BY SeqDef, Zenon
  <1> QED
    BY <1>1, <1>2, Zenon

LEMMA Appended ==
    ASSUME NEW X, NEW s \in Seq(X), NEW e \in X, NEW n, NEW m, n = Len(s), m = n + 1
    PROVE  /\ Append(s, e) \in Seq(X) /\ Len(Append(s, e)) = m /\ Append(s, e)[m] = e
           /\ \A i \in 1 .. n : Append(s, e)[i] = s[i]
  BY AppendProperties, LenProperties

LEMMA EventsTyped ==
    ASSUME NEW s \in Seq(Entry)
    PROVE  /\ EventsOf(s) \in Seq(0..MaxEvents) /\ Len(EventsOf(s)) = Len(s)
           /\ \A i \in 1 .. Len(s) : EventsOf(s)[i] = s[i].event
  <1>1. PICK n \in Nat : n = Len(s)
    BY LenProperties
  <1>2. DOMAIN s = 1 .. n /\ \A i \in 1 .. n : s[i] \in Entry
    BY <1>1, LenProperties
  <1>3. EventsOf(s) = [i \in 1 .. n |-> s[i].event]
    BY <1>2 DEF EventsOf
  <1>4. \A i \in 1 .. n : s[i].event \in 0..MaxEvents
    BY <1>2, EntryFacts
  <1>5. EventsOf(s) \in [1 .. n -> 0..MaxEvents]
    BY <1>3, <1>4
  <1>6. EventsOf(s) \in Seq(0..MaxEvents) /\ Len(EventsOf(s)) = n
    <2>1. EventsOf(s) \in Seq(0..MaxEvents)
      BY <1>1, <1>5, IsFunSeq
    <2>2. DOMAIN EventsOf(s) = 1 .. n /\ DOMAIN EventsOf(s) = 1 .. Len(EventsOf(s))
      BY <1>3, <2>1, LenProperties
    <2>3. Len(EventsOf(s)) \in Nat
      BY <2>1, LenProperties
    <2> QED
      BY <2>1, <2>2, <2>3
  <1> QED
    BY <1>1, <1>3, <1>6

LEMMA EventsAppend ==
    ASSUME NEW s \in Seq(Entry), NEW ln \in Entry
    PROVE  EventsOf(Append(s, ln)) = Append(EventsOf(s), ln.event)
  <1>1. PICK n \in Nat, m \in Nat : n = Len(s) /\ m = n + 1
    BY LenProperties
  <1>2. PICK t : t = Append(s, ln)
    OBVIOUS
  <1>3. t \in Seq(Entry) /\ Len(t) = m /\ t[m] = ln /\ \A i \in 1 .. n : t[i] = s[i]
    BY <1>1, <1>2, Appended
  <1>4. PICK u : u = EventsOf(s)
    OBVIOUS
  <1>5. u \in Seq(0..MaxEvents) /\ Len(u) = n /\ \A i \in 1 .. n : u[i] = s[i].event
    BY <1>1, <1>4, EventsTyped
  <1>6. PICK v : v = EventsOf(t)
    OBVIOUS
  <1>7. v \in Seq(0..MaxEvents) /\ Len(v) = m /\ \A i \in 1 .. m : v[i] = t[i].event
    BY <1>3, <1>6, EventsTyped
  <1>8. ln.event \in 0..MaxEvents
    BY EntryFacts
  <1>9. PICK w : w = Append(u, ln.event)
    OBVIOUS
  <1>10. w \in Seq(0..MaxEvents) /\ Len(w) = m /\ w[m] = ln.event /\ \A i \in 1 .. n : w[i] = u[i]
    BY <1>1, <1>5, <1>8, <1>9, Appended
  <1>11. \A i \in 1 .. m : i \in 1 .. n \/ i = m
    BY <1>1
  <1>12. \A i \in 1 .. n : i \in 1 .. m
    BY <1>1
  <1>13. ASSUME NEW i \in 1 .. m
         PROVE  v[i] = w[i]
    <2>1. v[i] = t[i].event
      BY <1>7
    <2>2. CASE i = m
      BY <2>1, <2>2, <1>3, <1>10
    <2>3. CASE i \in 1 .. n
      <3>1. t[i] = s[i] /\ u[i] = s[i].event /\ w[i] = u[i]
        BY <2>3, <1>3, <1>5, <1>10
      <3> QED
        BY <2>1, <3>1
    <2> QED
      BY <2>2, <2>3, <1>11
  <1>14. v = w
    BY <1>7, <1>10, <1>13, SeqEqual
  <1> QED
    BY <1>2, <1>4, <1>6, <1>9, <1>14

LEMMA FirstPart ==
    ASSUME NEW X, NEW s \in Seq(X), NEW k \in Nat, k <= Len(s)
    PROVE  /\ SubSeq(s, 1, k) \in Seq(X) /\ Len(SubSeq(s, 1, k)) = k
           /\ \A i \in 1 .. k : SubSeq(s, 1, k)[i] = s[i]
  <1>1. \A i \in 1 .. k : s[i] \in X
    <2>1. Len(s) \in Nat /\ \A i \in 1 .. Len(s) : s[i] \in X
      BY LenProperties
    <2> QED
      BY <2>1
  <1>2. /\ SubSeq(s, 1, k) \in Seq(X)
        /\ Len(SubSeq(s, 1, k)) = IF 1 <= k THEN k - 1 + 1 ELSE 0
        /\ \A i \in 1 .. k - 1 + 1 : SubSeq(s, 1, k)[i] = s[1 + i - 1]
    BY <1>1, SubSeqProperties
  <1> QED
    BY <1>2

LEMMA EventsSub ==
    ASSUME NEW s \in Seq(Entry), NEW k \in Nat, k <= Len(s)
    PROVE  EventsOf(SubSeq(s, 1, k)) = SubSeq(EventsOf(s), 1, k)
  <1>1. PICK t : t = SubSeq(s, 1, k)
    OBVIOUS
  <1>2. t \in Seq(Entry) /\ Len(t) = k /\ \A i \in 1 .. k : t[i] = s[i]
    BY <1>1, FirstPart
  <1>3. PICK u : u = EventsOf(t)
    OBVIOUS
  <1>4. u \in Seq(0..MaxEvents) /\ Len(u) = k /\ \A i \in 1 .. k : u[i] = t[i].event
    BY <1>2, <1>3, EventsTyped
  <1>5. PICK v : v = EventsOf(s)
    OBVIOUS
  <1>6. v \in Seq(0..MaxEvents) /\ Len(v) = Len(s) /\ \A i \in 1 .. Len(s) : v[i] = s[i].event
    BY <1>5, EventsTyped
  <1>7. PICK w : w = SubSeq(v, 1, k)
    OBVIOUS
  <1>8. w \in Seq(0..MaxEvents) /\ Len(w) = k /\ \A i \in 1 .. k : w[i] = v[i]
    BY <1>6, <1>7, FirstPart
  <1>9. \A i \in 1 .. k : i \in 1 .. Len(s)
    BY LenProperties
  <1>10. \A i \in 1 .. k : u[i] = w[i]
    BY <1>2, <1>4, <1>6, <1>8, <1>9
  <1>11. u = w
    BY <1>4, <1>8, <1>10, SeqEqual
  <1> QED
    BY <1>1, <1>3, <1>5, <1>7, <1>11

LEMMA ChainedAppend ==
    ASSUME NEW s \in Seq(Entry), NEW ln \in Entry, Chained(s), ln # Torn, ln.prev = EventsOf(s)
    PROVE  Chained(Append(s, ln))
  <1>1. PICK n \in Nat, m \in Nat : n = Len(s) /\ m = n + 1
    BY LenProperties
  <1>2. PICK t : t = Append(s, ln)
    OBVIOUS
  <1>3. t \in Seq(Entry) /\ Len(t) = m /\ t[m] = ln /\ \A i \in 1 .. n : t[i] = s[i]
    BY <1>1, <1>2, Appended
  <1>4. DOMAIN t = 1 .. m /\ DOMAIN s = 1 .. n
    BY <1>1, <1>3, LenProperties
  <1>5. ASSUME NEW k \in Nat, k <= n
        PROVE  SubSeq(t, 1, k) = SubSeq(s, 1, k)
    <2>1. k <= m
      BY <1>1, <1>5
    <2>2. PICK u : u = SubSeq(t, 1, k)
      OBVIOUS
    <2>3. u \in Seq(Entry) /\ Len(u) = k /\ \A i \in 1 .. k : u[i] = t[i]
      BY <1>3, <2>1, <2>2, FirstPart
    <2>4. PICK v : v = SubSeq(s, 1, k)
      OBVIOUS
    <2>5. v \in Seq(Entry) /\ Len(v) = k /\ \A i \in 1 .. k : v[i] = s[i]
      BY <1>1, <1>5, <2>4, FirstPart
    <2>6. \A i \in 1 .. k : i \in 1 .. n
      BY <1>5
    <2>7. \A i \in 1 .. k : u[i] = v[i]
      BY <1>3, <2>3, <2>5, <2>6
    <2>8. u = v
      BY <2>3, <2>5, <2>7, SeqEqual
    <2> QED
      BY <2>2, <2>4, <2>8
  <1>6. ASSUME NEW i \in 1 .. m
        PROVE  t[i] # Torn /\ t[i].prev = EventsOf(SubSeq(t, 1, i - 1))
    <2>1. i - 1 \in Nat /\ i - 1 <= n /\ (i \in 1 .. n \/ i = m)
      BY <1>1
    <2>2. SubSeq(t, 1, i - 1) = SubSeq(s, 1, i - 1)
      BY <1>5, <2>1
    <2>3. CASE i \in 1 .. n
      BY <1>3, <1>4, <2>2, <2>3 DEF Chained
    <2>4. CASE i = m
      <3>1. i - 1 = n
        BY <1>1, <2>4
      <3>2. SubSeq(s, 1, n) = s
        BY <1>1, SubSeqFull
      <3> QED
        BY <1>3, <2>2, <2>4, <3>1, <3>2
    <2> QED
      BY <2>1, <2>3, <2>4
  <1>7. Chained(t)
    BY <1>4, <1>6 DEF Chained
  <1> QED
    BY <1>2, <1>7

-----------------------------------------------------------------------------
(* what a reader reads                                                       *)

\* The lines of a segment that are read, and the segment without its torn line.
LinesOf(a) ==
    IF a = NoFile THEN <<>>
    ELSE IF a # <<>> /\ Last(a) = Torn THEN Front(a) ELSE a
RepairedOf(a) == IF a = NoFile THEN NoFile ELSE LinesOf(a)

LEMMA ReadsAre ==
    /\ ActiveLines = LinesOf(active) /\ Repaired = RepairedOf(active)
    /\ Lines = FlattenSeq(archives) \o LinesOf(active)
  BY DEF ActiveLines, Repaired, Lines, LinesOf, RepairedOf

LEMMA FrontIs ==
    ASSUME NEW X, NEW s \in Seq(X), s # <<>>
    PROVE  Front(s) \in Seq(X) /\ Len(s) \in 1 .. Len(s) /\ Last(s) = s[Len(s)]
  <1>1. PICK n \in Nat : n = Len(s) /\ n # 0
    BY EmptySeq
  <1>2. Front(s) = SubSeq(s, 1, n - 1)
    BY <1>1 DEF Front
  <1>3. n - 1 \in Nat /\ n - 1 <= n
    BY <1>1
  <1>4. Front(s) \in Seq(X)
    BY <1>1, <1>2, <1>3, FirstPart
  <1> QED
    BY <1>1, <1>4 DEF Last

LEMMA LinesTyped ==
    ASSUME NEW X, NEW a, a = NoFile \/ a \in Seq(X)
    PROVE  LinesOf(a) \in Seq(X)
  <1>1. CASE a = NoFile
    BY <1>1, EmptySeq DEF LinesOf
  <1>2. CASE a # NoFile /\ a # <<>> /\ Last(a) = Torn
    BY <1>2, FrontIs DEF LinesOf
  <1>3. CASE a # NoFile /\ ~ (a # <<>> /\ Last(a) = Torn)
    BY <1>3 DEF LinesOf
  <1> QED
    BY <1>1, <1>2, <1>3

\* A whole line is read with the others, a torn one is not.
LEMMA ReadAppended ==
    ASSUME NEW s \in Seq(Entry), NEW ln \in Entry
    PROVE  /\ ln # Torn => LinesOf(Append(s, ln)) = Append(s, ln)
           /\ LinesOf(Append(s, Torn)) = s
           /\ Append(s, ln) # NoFile
  <1>1. PICK n \in Nat, m \in Nat : n = Len(s) /\ m = n + 1
    BY LenProperties
  <1>2. ASSUME NEW x \in Entry
        PROVE  /\ Append(s, x) # NoFile /\ Append(s, x) # <<>> /\ Last(Append(s, x)) = x
               /\ Front(Append(s, x)) = s
    <2>1. PICK t : t = Append(s, x)
      OBVIOUS
    <2>2. t \in Seq(Entry) /\ Len(t) = m /\ t[m] = x /\ \A i \in 1 .. n : t[i] = s[i]
      BY <1>1, <2>1, Appended
    <2>3. t # NoFile
      BY <2>2, EntryFacts
    <2>4. t # <<>>
      BY <1>1, <2>2, EmptySeq
    <2>5. Last(t) = x
      BY <2>2 DEF Last
    <2>6. PICK u : u = SubSeq(t, 1, n)
      OBVIOUS
    <2>7. u \in Seq(Entry) /\ Len(u) = n /\ \A i \in 1 .. n : u[i] = t[i]
      <3>1. n <= Len(t)
        BY <1>1, <2>2
      <3> QED
        BY <2>2, <2>6, <3>1, FirstPart
    <2>8. \A i \in 1 .. n : u[i] = s[i]
      BY <2>2, <2>7
    <2>9. u = s
      BY <1>1, <2>7, <2>8, SeqEqual
    <2>10. m - 1 = n
      BY <1>1
    <2>11. Front(t) = s
      BY <2>2, <2>6, <2>9, <2>10 DEF Front
    <2> QED
      BY <2>1, <2>3, <2>4, <2>5, <2>11
  <1>3. ln # Torn => LinesOf(Append(s, ln)) = Append(s, ln)
    BY <1>2 DEF LinesOf
  <1>4. LinesOf(Append(s, Torn)) = s
    BY <1>2, EntryFacts DEF LinesOf
  <1> QED
    BY <1>2, <1>3, <1>4

LEMMA ChainedEnds ==
    ASSUME NEW s \in Seq(Entry), NEW t \in Seq(Entry), Chained(s \o t), t # <<>>
    PROVE  Last(t) # Torn
  <1>1. PICK n \in Nat, m \in Nat : n = Len(s) /\ m = Len(t) /\ m # 0
    BY LenProperties, EmptySeq
  <1>2. PICK k \in Nat : k = n + m /\ k \in 1 .. k /\ ~ (k <= n) /\ k - n = m
    BY <1>1
  <1>3. PICK u : u = s \o t
    OBVIOUS
  <1>4. u \in Seq(Entry) /\ Len(u) = k /\ u[k] = t[m]
    <2>1. /\ s \o t \in Seq(Entry) /\ Len(s \o t) = Len(s) + Len(t)
          /\ \A i \in 1 .. Len(s) + Len(t) : (s \o t)[i] =
                     IF i <= Len(s) THEN s[i] ELSE t[i - Len(s)]
      BY ConcatProperties
    <2> QED
      BY <1>1, <1>2, <1>3, <2>1
  <1>5. k \in DOMAIN u
    BY <1>2, <1>4, LenProperties
  <1>6. u[k] # Torn
    BY <1>3, <1>5 DEF Chained
  <1> QED
    BY <1>1, <1>4, <1>6 DEF Last

\* Repairing a segment that replays changes nothing for its readers.
LEMMA RepairOnce ==
    ASSUME NEW s \in Seq(Entry), NEW a, a = NoFile \/ a \in Seq(Entry),
           Chained(s \o LinesOf(a))
    PROVE  /\ LinesOf(RepairedOf(a)) = LinesOf(a)
           /\ RepairedOf(RepairedOf(a)) = RepairedOf(a)
           /\ RepairedOf(a) = NoFile \/ RepairedOf(a) = LinesOf(a)
  <1>1. CASE a = NoFile
    BY <1>1 DEF RepairedOf
  <1>2. CASE a # NoFile
    <2>1. PICK t : t = LinesOf(a)
      OBVIOUS
    <2>2. t \in Seq(Entry) /\ RepairedOf(a) = t
      BY <1>2, <2>1, LinesTyped DEF RepairedOf
    <2>3. t # NoFile
      BY <2>2, EntryFacts
    <2>4. t # <<>> => Last(t) # Torn
      BY <2>1, <2>2, ChainedEnds
    <2>5. LinesOf(t) = t
      BY <2>3, <2>4 DEF LinesOf
    <2> QED
      BY <2>1, <2>2, <2>3, <2>5 DEF RepairedOf
  <1> QED
    BY <1>1, <1>2

\* A history whose events were each decided on the events before it.
Truly(n, b, s) == s \in Seq(1..n) /\ \A i \in 2..Len(s) : b[s[i]] = SubSeq(s, 1, i - 1)

LEMMA ReadTyped ==
    FilesOK => /\ ActiveLines \in Seq(Good) /\ FlattenSeq(archives) \in Seq(Good)
               /\ Lines \in Seq(Good) /\ Lines \in Seq(Entry)
               /\ (Repaired = NoFile \/ Repaired \in Seq(Good))
  <1> SUFFICES ASSUME FilesOK
               PROVE  /\ ActiveLines \in Seq(Good) /\ FlattenSeq(archives) \in Seq(Good)
                      /\ Lines \in Seq(Good) /\ Lines \in Seq(Entry)
                      /\ (Repaired = NoFile \/ Repaired \in Seq(Good))
    OBVIOUS
  <1>1. LinesOf(active) \in Seq(Good)
    BY LinesTyped DEF FilesOK
  <1>2. FlattenSeq(archives) \in Seq(Good)
    BY FlatTyped DEF FilesOK
  <1>3. Lines \in Seq(Good)
    BY <1>1, <1>2, ReadsAre, ConcatProperties
  <1>4. Lines \in Seq(Entry)
    BY <1>3, EntryFacts, SeqMonotonic
  <1> QED
    BY <1>1, <1>2, <1>3, <1>4, ReadsAre DEF RepairedOf

LEMMA ReplayedIsTrue ==
    FilesOK /\ Replays => Truly(events, basis, EventsOf(Lines))
  <1> SUFFICES ASSUME FilesOK, Replays
               PROVE  Truly(events, basis, EventsOf(Lines))
    OBVIOUS
  <1>1. PICK s : s = Lines
    OBVIOUS
  <1>2. s \in Seq(Good) /\ s \in Seq(Entry) /\ Chained(s)
    BY <1>1, ReadTyped DEF Replays
  <1>3. PICK n \in Nat : n = Len(s)
    BY <1>2, LenProperties
  <1>4. DOMAIN s = 1 .. n /\ \A i \in 1 .. n : s[i] \in Good
    BY <1>2, <1>3, LenProperties
  <1>5. ASSUME NEW i \in 1 .. n
        PROVE  /\ s[i].event \in 1..events /\ basis[s[i].event] = s[i].prev
               /\ s[i].prev = EventsOf(SubSeq(s, 1, i - 1))
    <2>1. s[i] # Torn /\ s[i].prev = EventsOf(SubSeq(s, 1, i - 1))
      BY <1>2, <1>4 DEF Chained
    <2> QED
      BY <1>4, <2>1 DEF Good
  <1>6. PICK u : u = EventsOf(s)
    OBVIOUS
  <1>7. u \in Seq(0..MaxEvents) /\ Len(u) = n /\ \A i \in 1 .. n : u[i] = s[i].event
    BY <1>2, <1>3, <1>6, EventsTyped
  <1>8. u \in [1 .. n -> 1..events]
    <2>1. u \in [1 .. n -> 0..MaxEvents]
      BY <1>7, LenProperties
    <2>2. \A i \in 1 .. n : u[i] \in 1..events
      BY <1>5, <1>7
    <2> QED
      BY <2>1, <2>2
  <1>9. u \in Seq(1..events)
    BY <1>8, IsFunSeq
  <1>10. ASSUME NEW i \in 2 .. n
         PROVE  basis[u[i]] = SubSeq(u, 1, i - 1)
    <2>1. i \in 1 .. n /\ i - 1 \in Nat /\ i - 1 <= n
      BY <1>3
    <2>2. EventsOf(SubSeq(s, 1, i - 1)) = SubSeq(EventsOf(s), 1, i - 1)
      BY <1>2, <1>3, <2>1, EventsSub
    <2> QED
      BY <1>5, <1>6, <1>7, <2>1, <2>2
  <1>11. Truly(events, basis, u)
    BY <1>7, <1>9, <1>10 DEF Truly
  <1> QED
    BY <1>1, <1>6, <1>11

LEMMA TrulyGrows ==
    ASSUME NEW n \in Nat, NEW m \in Nat, n <= m, NEW b, NEW c,
           \A e \in 1 .. n : c[e] = b[e], NEW s, Truly(n, b, s)
    PROVE  Truly(m, c, s)
  <1>1. s \in Seq(1..n) /\ \A i \in 2..Len(s) : b[s[i]] = SubSeq(s, 1, i - 1)
    BY DEF Truly
  <1>2. 1..n \subseteq 1..m
    OBVIOUS
  <1>3. s \in Seq(1..m)
    BY <1>1, <1>2, SeqMonotonic
  <1>4. ASSUME NEW i \in 2..Len(s)
        PROVE  c[s[i]] = SubSeq(s, 1, i - 1)
    <2>1. Len(s) \in Nat /\ \A k \in 1 .. Len(s) : s[k] \in 1..n
      BY <1>1, LenProperties
    <2>2. s[i] \in 1..n
      BY <2>1
    <2> QED
      BY <1>1, <2>2
  <1> QED
    BY <1>3, <1>4 DEF Truly

-----------------------------------------------------------------------------
(* what any step keeps                                                       *)

LEMMA LinesNext ==
    /\ Lines' = FlattenSeq(archives') \o LinesOf(active')
    /\ Whole' <=> RepairedOf(active') = active'
    /\ Whole <=> RepairedOf(active) = active
  BY DEF Lines, ActiveLines, LinesOf, Whole, Repaired, RepairedOf

LEMMA StillFiles ==
    ASSUME UNCHANGED files
    PROVE  /\ Lines' = Lines /\ Whole' = Whole /\ UNCHANGED <<archives, active, head>>
  BY DEF files, Lines, ActiveLines, Whole, Repaired

LEMMA FilesStay ==
    ASSUME FilesOK, UNCHANGED <<archives, active, events, basis>>
    PROVE  FilesOK'
  BY DEF FilesOK, Good

LEMMA LogFollows ==
    ASSUME Shape, Decided, FilesOK', events' \in 1..MaxEvents, events <= events',
           \A e \in 1..events : basis'[e] = basis[e], Follow
    PROVE  Truly(events', basis', log')
  <1>1. Truly(events, basis, log) /\ events \in Nat /\ events' \in Nat
    BY LedgerAssumption DEF Shape, Decided, DecidedOnTheLog, Truly
  <1>2. CASE Replays'
    <2>1. (Truly(events, basis, EventsOf(Lines)))'
      BY <1>2, ReplayedIsTrue, PTL
    <2> QED
      BY <1>2, <2>1 DEF Follow
  <1>3. CASE ~Replays'
    <2>1. Truly(events', basis', log)
      BY <1>1, TrulyGrows
    <2> QED
      BY <1>3, <2>1 DEF Follow
  <1> QED
    BY <1>2, <1>3

LEMMA RowFacts ==
    ASSUME Shape, NEW h \in Hubs
    PROVE  /\ hub[h].pc \in Pcs /\ hub[h].pid \in Pids /\ hub[h].on \in History
           /\ hub[h].event \in 0..MaxEvents /\ hub[h].target \in Nat /\ hub[h].again \in BOOLEAN
           /\ hub[h] \in HubRows
  BY DEF Shape, HubRows

LEMMA RowSet ==
    ASSUME Shape, NEW h \in Hubs, NEW r \in HubRows, hub' = [hub EXCEPT ![h] = r]
    PROVE  /\ hub' \in [Hubs -> HubRows] /\ hub'[h] = r
           /\ \A g \in Hubs \ {h} : hub'[g] = hub[g]
  BY DEF Shape

LEMMA GoesIs ==
    ASSUME Shape, NEW h \in Hubs, NEW pc \in Pcs, Goes(h, pc)
    PROVE  /\ hub' \in [Hubs -> HubRows] /\ hub'[h].pc = pc
           /\ hub'[h].on = hub[h].on /\ hub'[h].event = hub[h].event
           /\ hub'[h].target = hub[h].target /\ hub'[h].again = hub[h].again
           /\ \A g \in Hubs \ {h} : hub'[g] = hub[g]
  <1>1. PICK r : r = [hub[h] EXCEPT !.pc = pc]
    OBVIOUS
  <1>2. /\ r \in HubRows /\ r.pc = pc /\ r.on = hub[h].on /\ r.event = hub[h].event
        /\ r.target = hub[h].target /\ r.again = hub[h].again
    BY <1>1, RowFacts DEF HubRows
  <1>3. hub' = [hub EXCEPT ![h] = r]
    BY <1>1 DEF Goes
  <1>4. /\ hub' \in [Hubs -> HubRows] /\ hub'[h] = r
        /\ \A g \in Hubs \ {h} : hub'[g] = hub[g]
    BY <1>2, <1>3, RowSet
  <1> QED
    BY <1>2, <1>4

LockOK == lock = NoLock \/ lock \in [by : Hubs, owner : Pids \cup {NoOne}]

LEMMA StepKeeps ==
    ASSUME Shape, Decided, NEW h \in Hubs, Follow,
           UNCHANGED <<events, basis>>, FilesOK', head' \in History,
           acked' \in Seq(1..events), LockOK',
           failures' \in 0..MaxFailures, clashed' \in BOOLEAN,
           hub' \in [Hubs -> HubRows], \A g \in Hubs \ {h} : hub'[g] = hub[g],
           Len(archives) <= Len(archives'),
           DecidedRow(hub'[h], events, basis, Len(archives'))
    PROVE  Shape' /\ Decided'
  <1>1. events \in 1..MaxEvents /\ basis \in [1..events -> History] /\ events \in Nat
    BY LedgerAssumption DEF Shape
  <1>2. Truly(events', basis', log')
    <2>1. events <= events' /\ events' \in 1..MaxEvents /\ \A e \in 1..events : basis'[e] = basis[e]
      BY <1>1
    <2> QED
      BY <2>1, LogFollows
  <1>3. log' \in Seq(1..events') /\ DecidedOnTheLog'
    BY <1>2 DEF Truly, DecidedOnTheLog
  <1>4. Shape'
    <2>1. acked' \in Seq(1..events') /\ basis' \in [1..events' -> History]
          /\ events' \in 1..MaxEvents
      BY <1>1
    <2> QED
      BY <1>3, <2>1 DEF Shape, LockOK
  <1>5. ASSUME NEW g \in Hubs
        PROVE  DecidedRow(hub'[g], events', basis', Len(archives'))
    <2>1. CASE g = h
      BY <2>1
    <2>2. CASE g # h
      <3>1. hub'[g] = hub[g]
        BY <2>2
      <3>2. DecidedRow(hub[g], events, basis, Len(archives))
        BY DEF Decided
      <3>3. Len(archives) \in Nat /\ Len(archives') \in Nat
        BY LenProperties DEF Shape, FilesOK
      <3>4. DecidedRow(hub[g], events, basis, Len(archives'))
        BY <3>2, <3>3 DEF DecidedRow
      <3> QED
        BY <3>1, <3>4
    <2> QED
      BY <2>1, <2>2
  <1> QED
    BY <1>3, <1>4, <1>5 DEF Decided

\* A step that changes no line that is read, taken by one hub.
LEMMA AloneSame ==
    ASSUME Shape, Alone, ~clashed, NEW h \in Hubs, Follow, events' \in Nat, events <= events',
           UNCHANGED <<archives, head, acked>>, Lines' = Lines,
           \A g \in Hubs \ {h} : hub'[g] = hub[g],
           \A g \in Hubs \ {h} : hub[g].pc \in Checked =>
                (Whole => Whole') /\ (Whole /\ active # NoFile => active' = active),
           \A g \in Hubs : hub'[g].pc \in Writing => lock'.by = g,
           hub'[h].pc \in Checked =>
                Whole' /\ EventsOf(Lines) = head /\ hub'[h].on = head,
           hub'[h].pc = "rename" =>
                active' # NoFile /\ active' # <<>> /\ hub'[h].target = Len(archives) + 1,
           hub'[h].pc = "head" =>
                hub'[h].on = head /\ EventsOf(Lines) = Append(head, hub'[h].event)
    PROVE  Alone' /\ Silent
  <1>1. Owned /\ Readable /\ \A g \in Hubs : Ready(g)
    BY DEF Alone
  <1>2. Replays' <=> Replays
    BY DEF Replays
  <1>3. log' = log
    BY <1>1, <1>2 DEF Follow, Readable, Replays
  <1>4. Owned'
    BY DEF Owned
  <1>5. Readable'
    <2>1. \A i \in DOMAIN archives' : archives'[i] # <<>>
      BY <1>1 DEF Readable
    <2>2. Chained(Lines)'
      BY <1>1 DEF Readable
    <2>3. EventsOf(Lines)' = head' \/ \E e \in 1..events' : EventsOf(Lines)' = Append(head', e)
      <3>1. EventsOf(Lines) = head \/ \E e \in 1..events : EventsOf(Lines) = Append(head, e)
        BY <1>1 DEF Readable
      <3>2. \A e \in 1..events : e \in 1..events'
        BY LedgerAssumption DEF Shape
      <3> QED
        BY <3>1, <3>2
    <2>4. head' = <<First>> \o acked' /\ log' = head'
      BY <1>1, <1>3 DEF Readable
    <2> QED
      BY <2>1, <2>2, <2>3, <2>4 DEF Readable
  <1>6. ASSUME NEW g \in Hubs
        PROVE  Ready(g)'
    <2>1. CASE g = h
      <3>1. hub'[g].pc \in Checked => Whole' /\ EventsOf(Lines)' = head' /\ hub'[g].on = head'
        BY <2>1
      <3>2. hub'[g].pc = "rename" =>
                active' # NoFile /\ active' # <<>> /\ hub'[g].target = Len(archives') + 1
        BY <2>1
      <3>3. hub'[g].pc = "head" =>
                hub'[g].on = head' /\ EventsOf(Lines)' = Append(head', hub'[g].event)
        BY <2>1
      <3> QED
        BY <3>1, <3>2, <3>3 DEF Ready
    <2>2. CASE g # h
      <3>1. /\ hub'[g] = hub[g] /\ Ready(g)
            /\ hub[g].pc \in Checked =>
                  (Whole => Whole') /\ (Whole /\ active # NoFile => active' = active)
        BY <1>1, <2>2
      <3>2. hub'[g].pc \in Checked => Whole' /\ EventsOf(Lines)' = head' /\ hub'[g].on = head'
        BY <3>1 DEF Ready
      <3>3. hub'[g].pc = "rename" =>
                active' # NoFile /\ active' # <<>> /\ hub'[g].target = Len(archives') + 1
        BY <3>1 DEF Ready, Checked
      <3>4. hub'[g].pc = "head" =>
                hub'[g].on = head' /\ EventsOf(Lines)' = Append(head', hub'[g].event)
        BY <3>1 DEF Ready
      <3> QED
        BY <3>2, <3>3, <3>4 DEF Ready
    <2> QED
      BY <2>1, <2>2
  <1> QED
    BY <1>2, <1>3, <1>4, <1>5, <1>6 DEF Alone, Silent

LEMMA Known ==
    ASSUME IInv
    PROVE  /\ Shape /\ Decided /\ FilesOK /\ events \in Nat /\ events <= events
           /\ head \in History /\ acked \in Seq(1..events) /\ LockOK
           /\ failures \in 0..MaxFailures /\ clashed \in BOOLEAN
           /\ Len(archives) \in Nat /\ Len(archives) <= Len(archives)
           /\ ~clashed => Alone /\ Owned /\ Readable /\ \A g \in Hubs : Ready(g)
           /\ \A g \in Hubs : DecidedRow(hub[g], events, basis, Len(archives))
  BY LenProperties, LedgerAssumption DEF IInv, Shape, FilesOK, LockOK, Alone, Decided

LEMMA Names ==
    /\ Deciding \subseteq Pcs /\ Checked \subseteq Writing /\ Writing \subseteq Deciding
    /\ {"idle", "truncate", "lock", "inspect", "seize", "down"} \subseteq Pcs
    /\ {"idle", "truncate", "down", "lock", "inspect", "seize"} \cap Writing = {}
    /\ {"idle", "truncate", "down"} \cap Deciding = {}
    /\ {"rename", "head"} \subseteq Writing /\ "head" \notin Checked /\ "rename" \in Checked
    /\ {"stamp", "check", "unlock"} \cap Checked = {} /\ {"stamp", "check", "unlock"} \subseteq Writing
    /\ {"list", "rename", "create", "line"} = Checked
  BY DEF Deciding, Pcs, Checked, Writing

-----------------------------------------------------------------------------
(* the actions                                                               *)

\* A step after which its hub is not between its check and its head, and which
\* shows the others what they have checked.
LEMMA LeavesWith ==
    ASSUME IInv, NEW h \in Hubs, Follow,
           UNCHANGED <<archives, head, acked, events, basis>>,
           FilesOK', LockOK', failures' \in 0..MaxFailures, clashed' \in BOOLEAN,
           clashed => clashed',
           hub' \in [Hubs -> HubRows], \A g \in Hubs \ {h} : hub'[g] = hub[g],
           DecidedRow(hub'[h], events, basis, Len(archives)),
           hub'[h].pc \notin Checked \cup {"head"},
           ~clashed' =>
                /\ Lines' = Lines
                /\ hub'[h].pc \in Writing => lock'.by = h
                /\ \A g \in Hubs \ {h} : hub[g].pc \in Writing => lock'.by = g
                /\ \A g \in Hubs \ {h} : hub[g].pc \in Checked =>
                        (Whole => Whole') /\ (Whole /\ active # NoFile => active' = active)
    PROVE  IInv' /\ (~clashed' => Seen)
  <1>1. /\ Shape /\ Decided /\ events \in Nat /\ events <= events /\ head \in History
        /\ acked \in Seq(1..events) /\ Len(archives) \in Nat /\ Len(archives) <= Len(archives)
        /\ ~clashed => Alone
    BY Known
  <1>2. Shape' /\ Decided'
    <2>1. head' \in History /\ acked' \in Seq(1..events) /\ Len(archives) <= Len(archives')
      BY <1>1
    <2> QED
      BY <1>1, <2>1, StepKeeps
  <1>3. ASSUME ~clashed'
        PROVE  Alone' /\ Silent
    <2>1. ~clashed /\ Alone /\ events' \in Nat /\ events <= events'
      BY <1>1, <1>3
    <2>2. \A g \in Hubs : hub'[g].pc \in Writing => lock'.by = g
      BY <1>3
    <2>3. hub'[h].pc \notin Checked /\ hub'[h].pc # "rename" /\ hub'[h].pc # "head"
      BY Names
    <2> QED
      BY <1>1, <1>3, <2>1, <2>2, <2>3, AloneSame
  <1> QED
    BY <1>2, <1>3 DEF IInv, Seen, Alone

LEMMA Leaves ==
    ASSUME IInv, NEW h \in Hubs, Follow,
           UNCHANGED <<archives, head, acked, events, basis>>,
           FilesOK', LockOK', failures' \in 0..MaxFailures, clashed' \in BOOLEAN,
           clashed => clashed',
           NEW pc \in Pcs, Goes(h, pc), pc \notin Checked \cup {"head"},
           pc \in Deciding => hub[h].pc \in Deciding \/ hub[h].event # 0,
           ~clashed' =>
                /\ Lines' = Lines
                /\ pc \in Writing => lock'.by = h
                /\ \A g \in Hubs \ {h} : hub[g].pc \in Writing => lock'.by = g
                /\ \A g \in Hubs \ {h} : hub[g].pc \in Checked =>
                        (Whole => Whole') /\ (Whole /\ active # NoFile => active' = active)
    PROVE  IInv' /\ (~clashed' => Seen)
  <1>1. Shape /\ DecidedRow(hub[h], events, basis, Len(archives))
    BY Known
  <1>2. /\ hub' \in [Hubs -> HubRows] /\ hub'[h].pc = pc
        /\ hub'[h].on = hub[h].on /\ hub'[h].event = hub[h].event
        /\ \A g \in Hubs \ {h} : hub'[g] = hub[g]
    BY <1>1, GoesIs
  <1>3. DecidedRow(hub'[h], events, basis, Len(archives))
    BY <1>1, <1>2, Names DEF DecidedRow
  <1>4. hub'[h].pc \notin Checked \cup {"head"}
    BY <1>2
  <1>5. ~clashed' =>
                /\ Lines' = Lines
                /\ hub'[h].pc \in Writing => lock'.by = h
                /\ \A g \in Hubs \ {h} : hub[g].pc \in Writing => lock'.by = g
                /\ \A g \in Hubs \ {h} : hub[g].pc \in Checked =>
                        (Whole => Whole') /\ (Whole /\ active # NoFile => active' = active)
    BY <1>2
  <1> QED
    BY <1>2, <1>3, <1>4, <1>5, LeavesWith

LEMMA Fails ==
    ASSUME IInv, MayFail \/ UNCHANGED failures
    PROVE  failures' \in 0..MaxFailures
  BY LedgerAssumption, Known DEF MayFail

LEMMA InspectKeeps ==
    ASSUME IInv, NEW h \in Hubs, Inspect(h), Follow
    PROVE  IInv' /\ (~clashed' => Seen)
  <1>1. PICK pc \in {"idle", "seize"} : Goes(h, pc)
    BY DEF Inspect
  <1>2. /\ UNCHANGED <<files, lock, events, failures, acked, basis, clashed>>
        /\ hub[h].pc = "inspect" /\ pc \in Pcs /\ pc \notin Checked \cup {"head"}
        /\ pc \notin Writing /\ hub[h].pc \in Deciding
    BY <1>1, Names DEF Inspect, Deciding
  <1>3. Lines' = Lines /\ Whole' = Whole /\ UNCHANGED <<archives, active, head>>
    BY <1>2, StillFiles
  <1>4. FilesOK' /\ LockOK' /\ failures' \in 0..MaxFailures /\ clashed' \in BOOLEAN
    BY <1>2, <1>3, Known, FilesStay DEF LockOK
  <1>5. ~clashed => \A g \in Hubs : hub[g].pc \in Writing => lock.by = g
    BY Known DEF Owned
  <1> QED
    BY <1>1, <1>2, <1>3, <1>4, <1>5, Leaves

LEMMA ThrowsKeeps ==
    ASSUME IInv, NEW h \in Hubs, Throws(h), Follow
    PROVE  IInv' /\ (~clashed' => Seen)
  <1>1. /\ UNCHANGED <<files, lock, events, acked, basis, clashed>> /\ MayFail
        /\ hub[h].pc \in Writing /\ Goes(h, "unlock")
    BY DEF Throws, Writing
  <1>2. "unlock" \in Pcs /\ "unlock" \notin Checked \cup {"head"} /\ hub[h].pc \in Deciding
    BY <1>1, Names
  <1>3. Lines' = Lines /\ Whole' = Whole /\ UNCHANGED <<archives, active, head>>
    BY <1>1, StillFiles
  <1>4. FilesOK' /\ LockOK' /\ failures' \in 0..MaxFailures /\ clashed' \in BOOLEAN
    BY <1>1, <1>3, Known, FilesStay, Fails DEF LockOK
  <1>5. ~clashed => \A g \in Hubs : hub[g].pc \in Writing => lock.by = g
    BY Known DEF Owned
  <1> QED
    BY <1>1, <1>2, <1>3, <1>4, <1>5, Leaves

LEMMA DiesKeeps ==
    ASSUME IInv, NEW h \in Hubs, Dies(h), Follow
    PROVE  IInv' /\ (~clashed' => Seen)
  <1>1. /\ UNCHANGED <<files, lock, events, acked, basis, clashed>> /\ MayFail
        /\ Goes(h, "down")
    BY DEF Dies
  <1>2. "down" \in Pcs /\ "down" \notin Checked \cup {"head"} /\ "down" \notin Deciding \cup Writing
    BY Names
  <1>3. Lines' = Lines /\ Whole' = Whole /\ UNCHANGED <<archives, active, head>>
    BY <1>1, StillFiles
  <1>4. FilesOK' /\ LockOK' /\ failures' \in 0..MaxFailures /\ clashed' \in BOOLEAN
    BY <1>1, <1>3, Known, FilesStay, Fails DEF LockOK
  <1>5. ~clashed => \A g \in Hubs : hub[g].pc \in Writing => lock.by = g
    BY Known DEF Owned
  <1> QED
    BY <1>1, <1>2, <1>3, <1>4, <1>5, Leaves

LEMMA LockKinds ==
    ASSUME IInv
    PROVE  /\ NoLock.by = NoOne /\ NoOne \notin Hubs
           /\ \A g \in Hubs : lock.by = g => lock \in [by : Hubs, owner : Pids \cup {NoOne}]
  <1>1. NoLock.by = NoOne /\ NoOne \notin Hubs
    BY LedgerAssumption DEF NoLock
  <1> QED
    BY <1>1 DEF IInv, Shape

LEMMA LockKeeps ==
    ASSUME IInv, NEW h \in Hubs, Lock(h), Follow
    PROVE  IInv' /\ (~clashed' => Seen)
  <1>1. UNCHANGED <<files, events, failures, acked, basis, clashed>> /\ hub[h].pc = "lock"
    BY DEF Lock
  <1>2. Lines' = Lines /\ Whole' = Whole /\ UNCHANGED <<archives, active, head>>
    BY <1>1, StillFiles
  <1>3. FilesOK' /\ failures' \in 0..MaxFailures /\ clashed' \in BOOLEAN
    BY <1>1, <1>2, Known, FilesStay
  <1>4. ~clashed => \A g \in Hubs : hub[g].pc \in Writing => lock.by = g
    BY Known DEF Owned
  <1>5. hub[h].pc \in Deciding
    BY <1>1 DEF Deciding
  <1>6. CASE lock = NoLock
    <2>1. lock' = [by |-> h, owner |-> NoOne] /\ Goes(h, "stamp")
      BY <1>6 DEF Lock
    <2>2. LockOK' /\ lock'.by = h
      BY <2>1 DEF LockOK
    <2>3. "stamp" \in Pcs /\ "stamp" \notin Checked \cup {"head"}
      BY Names
    <2>4. ~clashed => \A g \in Hubs : hub[g].pc \notin Writing
      BY <1>4, <1>6, LockKinds
    <2> QED
      BY <1>1, <1>2, <1>3, <1>5, <2>1, <2>2, <2>3, <2>4, Leaves
  <1>7. CASE lock # NoLock
    <2>1. lock' = lock /\ Goes(h, "inspect")
      BY <1>7 DEF Lock
    <2>2. LockOK'
      BY <2>1, Known DEF LockOK
    <2>3. "inspect" \in Pcs /\ "inspect" \notin Checked \cup {"head"} /\ "inspect" \notin Writing
      BY Names
    <2> QED
      BY <1>1, <1>2, <1>3, <1>4, <1>5, <2>1, <2>2, <2>3, Leaves
  <1> QED
    BY <1>6, <1>7

\* A lock that is removed while no other hub owns it protects nobody.
LEMMA Removes ==
    ASSUME IInv, NEW h \in Hubs, RemoveLock(h)
    PROVE  /\ LockOK' /\ clashed' \in BOOLEAN /\ (clashed => clashed')
           /\ ~clashed' => ~clashed /\ \A g \in Hubs \ {h} : hub[g].pc \notin Writing
  <1>1. LockOK' /\ clashed' \in BOOLEAN /\ (clashed => clashed')
    <2>1. lock' = NoLock /\ clashed' = (clashed \/ \E g \in Hubs \ {h} : Holds(g)) /\ clashed \in BOOLEAN
      BY Known DEF RemoveLock
    <2> QED
      BY <2>1 DEF LockOK
  <1>2. ASSUME ~clashed'
        PROVE  ~clashed /\ \A g \in Hubs \ {h} : hub[g].pc \notin Writing
    <2>1. ~clashed /\ \A g \in Hubs \ {h} : ~Holds(g)
      BY <1>2 DEF RemoveLock
    <2>2. \A g \in Hubs : hub[g].pc \in Writing => lock.by = g
      BY <2>1, Known DEF Owned
    <2> QED
      BY <2>1, <2>2 DEF Holds
  <1> QED
    BY <1>1, <1>2

LEMMA SeizeKeeps ==
    ASSUME IInv, NEW h \in Hubs, Seize(h), Follow
    PROVE  IInv' /\ (~clashed' => Seen)
  <1>1. UNCHANGED <<files, events, failures, acked, basis>> /\ hub[h].pc = "seize"
    BY DEF Seize
  <1>2. Lines' = Lines /\ Whole' = Whole /\ UNCHANGED <<archives, active, head>>
    BY <1>1, StillFiles
  <1>3. FilesOK' /\ failures' \in 0..MaxFailures
    BY <1>1, <1>2, Known, FilesStay
  <1>4. CASE lock = NoLock
    <2>1. lock' = lock /\ clashed' = clashed /\ Goes(h, "idle")
      BY <1>4 DEF Seize
    <2>2. LockOK' /\ clashed' \in BOOLEAN
      BY <2>1, Known DEF LockOK
    <2>3. ~clashed => \A g \in Hubs : hub[g].pc \in Writing => lock.by = g
      BY Known DEF Owned
    <2>4. "idle" \in Pcs /\ "idle" \notin Checked \cup {"head"} /\ "idle" \notin Deciding \cup Writing
      BY Names
    <2> QED
      BY <1>1, <1>2, <1>3, <2>1, <2>2, <2>3, <2>4, Leaves
  <1>5. CASE lock # NoLock
    <2>1. RemoveLock(h) /\ hub' = [hub EXCEPT ![h].pc = "lock", ![h].again = TRUE]
      BY <1>5 DEF Seize
    <2>2. PICK r : r = [hub[h] EXCEPT !.pc = "lock", !.again = TRUE]
      OBVIOUS
    <2>3. Shape /\ DecidedRow(hub[h], events, basis, Len(archives))
      BY Known
    <2>4. r \in HubRows /\ r.pc = "lock" /\ r.on = hub[h].on /\ r.event = hub[h].event
      <3>1. "lock" \in Pcs
        BY Names
      <3> QED
        BY <2>2, <2>3, <3>1, RowFacts DEF HubRows
    <2>5. hub' = [hub EXCEPT ![h] = r]
      BY <2>1, <2>2, <2>3 DEF Shape
    <2>6. /\ hub' \in [Hubs -> HubRows] /\ hub'[h] = r
          /\ \A g \in Hubs \ {h} : hub'[g] = hub[g]
      BY <2>3, <2>4, <2>5, RowSet
    <2>7. DecidedRow(hub'[h], events, basis, Len(archives))
      BY <1>1, <2>3, <2>4, <2>6 DEF DecidedRow, Deciding
    <2>8. hub'[h].pc \notin Checked \cup {"head"} /\ hub'[h].pc \notin Writing
      BY <2>4, <2>6, Names
    <2>9. /\ LockOK' /\ clashed' \in BOOLEAN /\ (clashed => clashed')
          /\ ~clashed' => \A g \in Hubs \ {h} : hub[g].pc \notin Writing
      BY <2>1, Removes
    <2>10. ~clashed' =>
                /\ Lines' = Lines
                /\ hub'[h].pc \in Writing => lock'.by = h
                /\ \A g \in Hubs \ {h} : hub[g].pc \in Writing => lock'.by = g
                /\ \A g \in Hubs \ {h} : hub[g].pc \in Checked =>
                        (Whole => Whole') /\ (Whole /\ active # NoFile => active' = active)
      BY <1>2, <2>8, <2>9
    <2>11. UNCHANGED <<archives, head, acked, events, basis>>
      BY <1>1, <1>2
    <2> QED
      <3>1. LockOK' /\ clashed' \in BOOLEAN /\ (clashed => clashed')
        BY <2>9
      <3>2. hub'[h].pc \notin Checked \cup {"head"}
        BY <2>8
      <3> QED
        BY <1>3, <2>6, <2>7, <2>10, <2>11, <3>1, <3>2, LeavesWith
  <1> QED
    BY <1>4, <1>5

LEMMA UnlockKeeps ==
    ASSUME IInv, NEW h \in Hubs, Unlock(h), Follow
    PROVE  IInv' /\ (~clashed' => Seen)
  <1>1. /\ UNCHANGED <<files, events, failures, acked, basis>> /\ RemoveLock(h)
        /\ Goes(h, "idle")
    BY DEF Unlock
  <1>2. Lines' = Lines /\ Whole' = Whole /\ UNCHANGED <<archives, active, head>>
    BY <1>1, StillFiles
  <1>3. FilesOK' /\ failures' \in 0..MaxFailures
    BY <1>1, <1>2, Known, FilesStay
  <1>4. "idle" \in Pcs /\ "idle" \notin Checked \cup {"head"} /\ "idle" \notin Deciding \cup Writing
    BY Names
  <1>5. /\ LockOK' /\ clashed' \in BOOLEAN /\ (clashed => clashed')
        /\ ~clashed' => \A g \in Hubs \ {h} : hub[g].pc \notin Writing
    BY <1>1, Removes
  <1>6. ~clashed' =>
                /\ Lines' = Lines
                /\ "idle" \in Writing => lock'.by = h
                /\ \A g \in Hubs \ {h} : hub[g].pc \in Writing => lock'.by = g
                /\ \A g \in Hubs \ {h} : hub[g].pc \in Checked =>
                        (Whole => Whole') /\ (Whole /\ active # NoFile => active' = active)
    BY <1>2, <1>4, <1>5
  <1>7. UNCHANGED <<archives, head, acked, events, basis>>
    BY <1>1, <1>2
  <1> QED
    <2>1. LockOK' /\ clashed' \in BOOLEAN /\ (clashed => clashed')
      BY <1>5
    <2>2. "idle" \in Pcs /\ Goes(h, "idle") /\ ("idle" \in Deciding => hub[h].pc \in Deciding)
      BY <1>1, <1>4
    <2> QED
      BY <1>3, <1>4, <1>6, <1>7, <2>1, <2>2, Leaves

LEMMA Stamped ==
    ASSUME IInv, NEW h \in Hubs, lock.by = h, lock' = [lock EXCEPT !.owner = hub[h].pid]
    PROVE  LockOK' /\ lock'.by = lock.by
  <1>1. lock \in [by : Hubs, owner : Pids \cup {NoOne}]
    BY LockKinds
  <1>2. hub[h].pid \in Pids
    BY Known, RowFacts
  <1> QED
    BY <1>1, <1>2 DEF LockOK

LEMMA StampKeeps ==
    ASSUME IInv, NEW h \in Hubs, Stamp(h), Follow
    PROVE  IInv' /\ (~clashed' => Seen)
  <1>1. /\ UNCHANGED <<files, events, failures, acked, basis, clashed>> /\ Goes(h, "check")
        /\ hub[h].pc = "stamp"
    BY DEF Stamp
  <1>2. Lines' = Lines /\ Whole' = Whole /\ UNCHANGED <<archives, active, head>>
    BY <1>1, StillFiles
  <1>3. FilesOK' /\ failures' \in 0..MaxFailures /\ clashed' \in BOOLEAN
    BY <1>1, <1>2, Known, FilesStay
  <1>4. LockOK' /\ lock'.by = lock.by
    <2>1. CASE lock.by = h
      BY <2>1, Stamped DEF Stamp
    <2>2. CASE lock.by # h
      BY <2>2, Known DEF Stamp, LockOK
    <2> QED
      BY <2>1, <2>2
  <1>5. "check" \in Pcs /\ "check" \notin Checked \cup {"head"}
    BY Names
  <1>6. hub[h].pc \in Deciding /\ hub[h].pc \in Writing
    BY <1>1, Names
  <1>7. ~clashed => \A g \in Hubs : hub[g].pc \in Writing => lock.by = g
    BY Known DEF Owned
  <1> QED
    BY <1>1, <1>2, <1>3, <1>4, <1>5, <1>6, <1>7, Leaves

LEMMA StampThrowsKeeps ==
    ASSUME IInv, NEW h \in Hubs, StampThrows(h), Follow
    PROVE  IInv' /\ (~clashed' => Seen)
  <1>1. /\ UNCHANGED <<files, events, acked, basis, clashed>> /\ Goes(h, "idle") /\ MayFail
    BY DEF StampThrows
  <1>2. Lines' = Lines /\ Whole' = Whole /\ UNCHANGED <<archives, active, head>>
    BY <1>1, StillFiles
  <1>3. FilesOK' /\ failures' \in 0..MaxFailures /\ clashed' \in BOOLEAN
    BY <1>1, <1>2, Known, FilesStay, Fails
  <1>4. LockOK' /\ lock'.by = lock.by
    <2>1. CASE lock' = lock
      BY <2>1, Known DEF LockOK
    <2>2. CASE lock.by = h /\ lock' = [lock EXCEPT !.owner = hub[h].pid]
      BY <2>2, Stamped
    <2> QED
      BY <2>1, <2>2 DEF StampThrows
  <1>5. "idle" \in Pcs /\ "idle" \notin Checked \cup {"head"} /\ "idle" \notin Deciding \cup Writing
    BY Names
  <1>6. ~clashed => \A g \in Hubs : hub[g].pc \in Writing => lock.by = g
    BY Known DEF Owned
  <1> QED
    BY <1>1, <1>2, <1>3, <1>4, <1>5, <1>6, Leaves

\* A step of the hub that alone writes.
LEMMA OnlyOne ==
    ASSUME IInv, ~clashed, NEW h \in Hubs, hub[h].pc \in Writing
    PROVE  lock.by = h /\ \A g \in Hubs \ {h} : hub[g].pc \notin Writing /\ hub[g].pc \notin Checked
  <1>1. \A g \in Hubs : hub[g].pc \in Writing => lock.by = g
    BY Known DEF Owned
  <1> QED
    BY <1>1, Names

LEMMA Repairs ==
    ASSUME IInv, Chained(Lines), UNCHANGED archives, active' = Repaired
    PROVE  Lines' = Lines /\ Whole'
  <1>1. FlattenSeq(archives) \in Seq(Entry) /\ (active = NoFile \/ active \in Seq(Entry))
    BY Known, ReadTyped, EntryFacts, SeqMonotonic DEF FilesOK
  <1>2. Chained(FlattenSeq(archives) \o LinesOf(active)) /\ active' = RepairedOf(active)
    BY ReadsAre
  <1>3. /\ LinesOf(RepairedOf(active)) = LinesOf(active)
        /\ RepairedOf(RepairedOf(active)) = RepairedOf(active)
    BY <1>1, <1>2, RepairOnce
  <1> QED
    BY <1>2, <1>3, ReadsAre, LinesNext

LEMMA RepairedTyped ==
    ASSUME IInv, UNCHANGED <<archives, events, basis>>, active' \in {active, Repaired}
    PROVE  FilesOK'
  <1>1. FilesOK /\ (Repaired = NoFile \/ Repaired \in Seq(Good))
    BY Known, ReadTyped
  <1>2. Good' = Good
    BY DEF Good
  <1> QED
    BY <1>1, <1>2 DEF FilesOK

LEMMA TornIsGood == Torn \in Good
  BY EntryFacts DEF Good

LEMMA TruncateKeeps ==
    ASSUME IInv, NEW h \in Hubs, Truncate(h), Follow
    PROVE  IInv' /\ (~clashed' => Seen)
  <1>1. /\ UNCHANGED <<archives, head, lock, events, failures, acked, basis>>
        /\ clashed' = (clashed \/ active' \notin {active, Repaired})
    BY DEF Truncate
  <1>2. PICK pc \in {"idle", "down", "lock"} : Goes(h, pc) /\ (pc = "lock" => hub[h].event # 0)
    BY DEF Truncate
  <1>3. FilesOK'
    <2>1. PICK at \in Nat : active' = IF active = NoFile THEN NoFile
                                      ELSE IF Len(active) < at THEN Append(active, Torn)
                                      ELSE SubSeq(active, 1, at)
      BY Known, RowFacts DEF Truncate
    <2>2. archives \in Seq(Seq(Good)) /\ (active = NoFile \/ active \in Seq(Good))
      BY Known DEF FilesOK
    <2>3. active' = NoFile \/ active' \in Seq(Good)
      <3>1. CASE active = NoFile
        BY <2>1, <3>1
      <3>2. CASE active # NoFile /\ Len(active) < at
        BY <2>1, <2>2, <3>2, AppendProperties, TornIsGood
      <3>3. CASE active # NoFile /\ ~(Len(active) < at)
        <4>1. active \in Seq(Good) /\ at <= Len(active)
          BY <2>2, <3>3, LenProperties
        <4> QED
          BY <2>1, <3>3, <4>1, FirstPart
      <3> QED
        BY <3>1, <3>2, <3>3
    <2>4. Good' = Good
      BY <1>1 DEF Good
    <2> QED
      BY <1>1, <2>2, <2>3, <2>4 DEF FilesOK
  <1>4. LockOK' /\ failures' \in 0..MaxFailures /\ clashed' \in BOOLEAN /\ (clashed => clashed')
    BY <1>1, Known DEF LockOK
  <1>5. /\ pc \in Pcs /\ pc \notin Checked \cup {"head"} /\ pc \notin Writing
        /\ pc \in Deciding => hub[h].event # 0
    BY <1>2, Names
  <1>6. ASSUME ~clashed'
        PROVE  /\ Lines' = Lines
               /\ \A g \in Hubs \ {h} : hub[g].pc \in Writing => lock'.by = g
               /\ Whole => active' = active /\ Whole'
    <2>1. ~clashed /\ (active' = active \/ active' = Repaired)
      BY <1>1, <1>6
    <2>2. Readable /\ Owned
      BY <2>1, Known
    <2>3. Lines' = Lines
      <3>1. CASE active' = active
        BY <1>1, <3>1 DEF Lines, ActiveLines
      <3>2. CASE active' = Repaired
        BY <1>1, <2>2, <3>2, Repairs DEF Readable
      <3> QED
        BY <2>1, <3>1, <3>2
    <2>4. Whole => active' = active
      BY <2>1 DEF Whole
    <2>5. active' = active /\ Whole => Whole'
      BY LinesNext
    <2> QED
      BY <1>1, <2>2, <2>3, <2>4, <2>5 DEF Owned
  <1>7. UNCHANGED <<archives, head, acked, events, basis>>
    BY <1>1
  <1> QED
    BY <1>2, <1>3, <1>4, <1>5, <1>6, <1>7, Leaves

LEMMA ConcatAppend ==
    ASSUME NEW X, NEW s \in Seq(X), NEW t \in Seq(X), NEW e \in X
    PROVE  s \o Append(t, e) = Append(s \o t, e)
  <1>1. <<e>> \in Seq(X) /\ s \o t \in Seq(X)
    BY ConcatProperties
  <1>2. Append(t, e) = t \o <<e>> /\ Append(s \o t, e) = (s \o t) \o <<e>>
    BY <1>1, AppendIsConcat
  <1> QED
    BY <1>1, <1>2, ConcatAssociative

\* One line more in a segment that has no torn line.
LEMMA OneLine ==
    ASSUME IInv, NEW ln \in Good, active' = Written(ln), UNCHANGED <<archives, events, basis>>
    PROVE  /\ FilesOK'
           /\ Whole /\ ln = Torn => Lines' = Lines
           /\ Whole /\ ln # Torn => Lines' = Append(Lines, ln) /\ Whole'
  <1>1. archives \in Seq(Seq(Good)) /\ (active = NoFile \/ active \in Seq(Good)) /\ FilesOK
    BY Known DEF FilesOK
  <1>2. PICK s : s = IF active = NoFile THEN <<>> ELSE active
    OBVIOUS
  <1>3. s \in Seq(Good) /\ s \in Seq(Entry) /\ ln \in Entry /\ active' = Append(s, ln)
    <2>1. s \in Seq(Good)
      BY <1>1, <1>2, EmptySeq
    <2>2. s \in Seq(Entry) /\ ln \in Entry
      BY <2>1, EntryFacts, SeqMonotonic
    <2> QED
      BY <1>2, <2>1, <2>2 DEF Written
  <1>4. FilesOK'
    <2>1. active' \in Seq(Good)
      BY <1>3, AppendProperties
    <2>2. Good' = Good
      BY DEF Good
    <2> QED
      BY <1>1, <2>1, <2>2 DEF FilesOK
  <1>5. Whole => LinesOf(active) = s
    BY <1>2, LinesNext DEF RepairedOf, LinesOf
  <1>6. ln = Torn => LinesOf(active') = s
    BY <1>3, ReadAppended
  <1>7. ln # Torn => LinesOf(active') = Append(s, ln) /\ active' # NoFile
    BY <1>3, ReadAppended
  <1>8. FlattenSeq(archives) \o Append(s, ln) = Append(FlattenSeq(archives) \o s, ln)
    BY <1>1, <1>3, ReadTyped, ConcatAppend
  <1>9. Whole /\ ln # Torn => Lines' = Append(Lines, ln) /\ Whole'
    <2>1. SUFFICES ASSUME Whole, ln # Torn
                   PROVE  Lines' = Append(Lines, ln) /\ Whole'
      OBVIOUS
    <2>2. RepairedOf(active') = active'
      BY <1>3, <1>7, <2>1 DEF RepairedOf
    <2> QED
      BY <1>5, <1>7, <1>8, <2>1, <2>2, LinesNext, ReadsAre
  <1>10. Whole /\ ln = Torn => Lines' = Lines
    BY <1>5, <1>6, LinesNext, ReadsAre
  <1> QED
    BY <1>4, <1>9, <1>10

LEMMA TearsKeeps ==
    ASSUME IInv, NEW h \in Hubs, Tears(h), Follow
    PROVE  IInv' /\ (~clashed' => Seen)
  <1>1. /\ UNCHANGED <<archives, head, lock, events, acked, basis, clashed>> /\ MayFail
        /\ active' = Written(Torn) /\ hub[h].pc = "line"
    BY DEF Tears
  <1>2. PICK pc \in {"unlock", "down"} : Goes(h, pc)
    BY DEF Tears
  <1>3. FilesOK' /\ (Whole => Lines' = Lines)
    BY <1>1, TornIsGood, OneLine
  <1>4. LockOK' /\ failures' \in 0..MaxFailures /\ clashed' \in BOOLEAN
    BY <1>1, Known, Fails DEF LockOK
  <1>5. pc \in Pcs /\ pc \notin Checked \cup {"head"}
    BY <1>2, Names
  <1>6. hub[h].pc \in Checked /\ hub[h].pc \in Writing /\ hub[h].pc \in Deciding
    BY <1>1, Names
  <1>7. ASSUME ~clashed'
        PROVE  /\ Lines' = Lines /\ lock'.by = h
               /\ \A g \in Hubs \ {h} : hub[g].pc \notin Writing /\ hub[g].pc \notin Checked
    <2>1. ~clashed
      BY <1>1, <1>7
    <2>2. Whole
      BY <1>6, <2>1, Known DEF Ready
    <2> QED
      BY <1>1, <1>3, <1>6, <2>1, <2>2, OnlyOne
  <1>8. UNCHANGED <<archives, head, acked, events, basis>> /\ (clashed => clashed')
    BY <1>1
  <1> QED
    BY <1>2, <1>3, <1>4, <1>5, <1>6, <1>7, <1>8, Leaves

\* A step of a hub that has the lock, and goes on with what it has checked.
LEMMA Inside ==
    ASSUME IInv, NEW h \in Hubs, Follow, hub[h].pc \in Writing,
           UNCHANGED <<archives, head, lock, acked, events, failures, basis, clashed>>,
           FilesOK', hub' \in [Hubs -> HubRows], \A g \in Hubs \ {h} : hub'[g] = hub[g],
           DecidedRow(hub'[h], events, basis, Len(archives)), hub'[h].pc # "head",
           ~clashed =>
                /\ Lines' = Lines
                /\ hub'[h].pc \in Checked =>
                        Whole' /\ EventsOf(Lines) = head /\ hub'[h].on = head
                /\ hub'[h].pc = "rename" =>
                        active' # NoFile /\ active' # <<>> /\ hub'[h].target = Len(archives) + 1
    PROVE  IInv' /\ (~clashed' => Seen)
  <1>1. /\ Shape /\ Decided /\ events \in Nat /\ events <= events /\ head \in History
        /\ acked \in Seq(1..events) /\ Len(archives) \in Nat /\ Len(archives) <= Len(archives)
        /\ failures \in 0..MaxFailures /\ clashed \in BOOLEAN
    BY Known
  <1>2. Shape' /\ Decided'
    <2>1. head' \in History /\ acked' \in Seq(1..events) /\ Len(archives) <= Len(archives')
          /\ failures' \in 0..MaxFailures /\ clashed' \in BOOLEAN
      BY <1>1
    <2>2. LockOK'
      BY Known DEF LockOK
    <2>3. DecidedRow(hub'[h], events, basis, Len(archives'))
      OBVIOUS
    <2> QED
      BY <1>1, <2>1, <2>2, <2>3, StepKeeps
  <1>3. ASSUME ~clashed'
        PROVE  Alone' /\ Silent
    <2>1. ~clashed /\ events' \in Nat /\ events <= events'
      BY <1>1, <1>3
    <2>2. Alone
      BY <2>1, Known
    <2>3. lock.by = h /\ \A g \in Hubs \ {h} : hub[g].pc \notin Writing /\ hub[g].pc \notin Checked
      BY <2>1, OnlyOne
    <2>4. \A g \in Hubs : hub'[g].pc \in Writing => lock'.by = g
      BY <2>3
    <2>5. \A g \in Hubs \ {h} : hub[g].pc \in Checked =>
                (Whole => Whole') /\ (Whole /\ active # NoFile => active' = active)
      BY <2>3
    <2> QED
      BY <1>1, <2>1, <2>2, <2>4, <2>5, AloneSame
  <1> QED
    BY <1>2, <1>3 DEF IInv, Seen, Alone

LEMMA CheckKeeps ==
    ASSUME IInv, NEW h \in Hubs, Check(h), Follow
    PROVE  IInv' /\ (~clashed' => Seen)
  <1>1. /\ UNCHANGED <<archives, head, lock, events, failures, acked, basis, clashed>>
        /\ hub[h].pc = "check" /\ active' = IF Replays THEN Repaired ELSE active
    BY DEF Check
  <1>2. PICK pc \in {"unlock", "list", "line"} :
            Goes(h, pc) /\ (pc # "unlock" => Replays /\ EventsOf(Lines) = hub[h].on)
    BY DEF Check
  <1>3. /\ hub' \in [Hubs -> HubRows] /\ hub'[h].pc = pc
        /\ hub'[h].on = hub[h].on /\ hub'[h].event = hub[h].event
        /\ \A g \in Hubs \ {h} : hub'[g] = hub[g]
    <2>1. Shape /\ pc \in Pcs
      BY <1>2, Known, Names
    <2> QED
      BY <1>2, <2>1, GoesIs
  <1>4. FilesOK'
    BY <1>1, RepairedTyped
  <1>5. Lines' = Lines /\ (Replays => Whole')
    <2>1. CASE Replays
      BY <1>1, <2>1, Repairs DEF Replays
    <2>2. CASE ~Replays
      BY <1>1, <2>2 DEF Lines, ActiveLines
    <2> QED
      BY <2>1, <2>2
  <1>6. hub[h].pc \in Writing /\ hub[h].pc \in Deciding
    BY <1>1, Names
  <1>7. DecidedRow(hub'[h], events, basis, Len(archives))
    <2>1. DecidedRow(hub[h], events, basis, Len(archives))
      BY Known
    <2> QED
      BY <1>3, <1>6, <2>1 DEF DecidedRow
  <1>8. /\ hub'[h].pc # "head" /\ hub'[h].pc # "rename"
        /\ hub'[h].pc \in Checked => Whole' /\ EventsOf(Lines) = head /\ hub'[h].on = head
    <2>1. hub'[h].pc \in Checked => Replays /\ EventsOf(Lines) = hub[h].on
      BY <1>2, <1>3, Names
    <2> QED
      BY <1>2, <1>3, <1>5, <2>1 DEF Replays
  <1> QED
    BY <1>1, <1>3, <1>4, <1>5, <1>6, <1>7, <1>8, Inside

LEMMA ListKeeps ==
    ASSUME IInv, NEW h \in Hubs, List(h), Follow
    PROVE  IInv' /\ (~clashed' => Seen)
  <1>1. /\ UNCHANGED <<files, lock, events, failures, acked, basis, clashed>>
        /\ hub[h].pc = "list"
    BY DEF List
  <1>2. PICK k \in Nat : k = Len(archives) + 1
    BY Known
  <1>3. PICK pc \in {"unlock", "line", "rename"} :
            /\ pc = "rename" => active # NoFile /\ active # <<>>
            /\ hub' = [hub EXCEPT ![h].target = k, ![h].pc = pc]
    BY <1>2 DEF List
  <1>4. PICK r : r = [hub[h] EXCEPT !.target = k, !.pc = pc]
    OBVIOUS
  <1>5. /\ r \in HubRows /\ r.pc = pc /\ r.target = k
        /\ r.on = hub[h].on /\ r.event = hub[h].event
    <2>1. Shape /\ pc \in Pcs
      BY <1>3, Known, Names
    <2> QED
      BY <1>4, <2>1, RowFacts DEF HubRows
  <1>6. hub' = [hub EXCEPT ![h] = r]
    BY <1>3, <1>4, Known DEF Shape
  <1>7. /\ hub' \in [Hubs -> HubRows] /\ hub'[h] = r
        /\ \A g \in Hubs \ {h} : hub'[g] = hub[g]
    BY <1>5, <1>6, Known, RowSet
  <1>8. Lines' = Lines /\ Whole' = Whole /\ UNCHANGED <<archives, active, head>>
    BY <1>1, StillFiles
  <1>9. FilesOK'
    BY <1>1, <1>8, Known, FilesStay
  <1>10. hub[h].pc \in Writing /\ hub[h].pc \in Deciding /\ hub[h].pc \in Checked
    BY <1>1, Names
  <1>11. DecidedRow(hub'[h], events, basis, Len(archives))
    <2>1. DecidedRow(hub[h], events, basis, Len(archives)) /\ Len(archives) \in Nat
      BY Known
    <2>2. k \in 1 .. Len(archives) + 1
      BY <1>2, <2>1
    <2> QED
      BY <1>5, <1>7, <1>10, <2>1, <2>2 DEF DecidedRow
  <1>12. ~clashed => Whole /\ EventsOf(Lines) = head /\ hub[h].on = head
    BY <1>10, Known DEF Ready
  <1>13. hub'[h].pc # "head"
    BY <1>3, <1>5, <1>7
  <1>14. ~clashed =>
                /\ Lines' = Lines
                /\ hub'[h].pc \in Checked =>
                        Whole' /\ EventsOf(Lines) = head /\ hub'[h].on = head
                /\ hub'[h].pc = "rename" =>
                        active' # NoFile /\ active' # <<>> /\ hub'[h].target = Len(archives) + 1
    BY <1>2, <1>3, <1>5, <1>7, <1>8, <1>12
  <1> QED
    BY <1>1, <1>7, <1>8, <1>9, <1>10, <1>11, <1>13, <1>14, Inside

\* An active segment that is made anew has no line.
LEMMA NewSegment ==
    ASSUME IInv, UNCHANGED <<archives, events, basis>>, active = NoFile, active' = <<>>
    PROVE  FilesOK' /\ Lines' = Lines /\ Whole'
  <1>1. LinesOf(active) = <<>> /\ LinesOf(active') = <<>> /\ RepairedOf(active') = active'
    BY DEF LinesOf, RepairedOf
  <1>2. FilesOK'
    <2>1. active' \in Seq(Good) /\ Good' = Good
      BY EmptySeq DEF Good
    <2> QED
      BY <2>1, Known DEF FilesOK
  <1> QED
    BY <1>1, <1>2, LinesNext, ReadsAre

LEMMA CreateKeeps ==
    ASSUME IInv, NEW h \in Hubs, Create(h), Follow
    PROVE  IInv' /\ (~clashed' => Seen)
  <1>1. /\ UNCHANGED <<archives, head, lock, events, failures, acked, basis, clashed>>
        /\ hub[h].pc = "create"
    BY DEF Create
  <1>2. PICK pc \in {"unlock", "line"} :
            /\ Goes(h, pc)
            /\ pc = "line" => active = NoFile /\ active' = <<>>
            /\ pc = "unlock" => active' = active
    BY DEF Create
  <1>3. /\ hub' \in [Hubs -> HubRows] /\ hub'[h].pc = pc
        /\ hub'[h].on = hub[h].on /\ hub'[h].event = hub[h].event
        /\ \A g \in Hubs \ {h} : hub'[g] = hub[g]
    <2>1. Shape /\ pc \in Pcs
      BY <1>2, Known, Names
    <2> QED
      BY <1>2, <2>1, GoesIs
  <1>4. FilesOK' /\ Lines' = Lines /\ (pc = "line" => Whole')
    <2>1. CASE pc = "line"
      BY <1>1, <1>2, <2>1, NewSegment
    <2>2. CASE pc = "unlock"
      <3>1. Lines' = Lines
        BY <1>1, <1>2, <2>2 DEF Lines, ActiveLines
      <3>2. FilesOK'
        BY <1>1, <1>2, <2>2, Known, FilesStay
      <3> QED
        BY <2>2, <3>1, <3>2
    <2> QED
      BY <1>2, <2>1, <2>2
  <1>5. hub[h].pc \in Writing /\ hub[h].pc \in Deciding /\ hub[h].pc \in Checked
    BY <1>1, Names
  <1>6. DecidedRow(hub'[h], events, basis, Len(archives))
    <2>1. DecidedRow(hub[h], events, basis, Len(archives))
      BY Known
    <2> QED
      BY <1>2, <1>3, <1>5, <2>1 DEF DecidedRow
  <1>7. ~clashed => EventsOf(Lines) = head /\ hub[h].on = head
    BY <1>5, Known DEF Ready
  <1>8. hub'[h].pc # "head" /\ hub'[h].pc # "rename" /\ (hub'[h].pc \in Checked => pc = "line")
    BY <1>2, <1>3, Names
  <1> QED
    BY <1>1, <1>3, <1>4, <1>5, <1>6, <1>7, <1>8, Inside

LEMMA RestartsKeeps ==
    ASSUME IInv, NEW h \in Hubs, Restarts(h), Follow
    PROVE  IInv' /\ (~clashed' => Seen)
  <1>1. /\ UNCHANGED <<archives, head, lock, events, failures, acked, basis, clashed>>
        /\ active' = IF active = NoFile THEN <<>> ELSE active
    BY DEF Restarts
  <1>2. PICK at \in Nat : at = Len(ActiveLines)
    BY Known, ReadTyped, LenProperties
  <1>3. PICK pid \in Pids, pc \in {"idle", "truncate"} :
            hub' = [hub EXCEPT ![h] = [@ EXCEPT !.pc = pc, !.pid = pid, !.event = 0, !.target = at]]
    BY <1>2 DEF Restarts
  <1>4. PICK r : r = [hub[h] EXCEPT !.pc = pc, !.pid = pid, !.event = 0, !.target = at]
    OBVIOUS
  <1>5. r \in HubRows /\ r.pc = pc /\ r.event = 0
    <2>1. Shape /\ pc \in Pcs /\ 0 \in 0..MaxEvents
      BY <1>3, Known, Names, LedgerAssumption
    <2> QED
      BY <1>4, <2>1, RowFacts DEF HubRows
  <1>6. hub' = [hub EXCEPT ![h] = r]
    BY <1>3, <1>4, Known DEF Shape
  <1>7. /\ hub' \in [Hubs -> HubRows] /\ hub'[h] = r
        /\ \A g \in Hubs \ {h} : hub'[g] = hub[g]
    BY <1>5, <1>6, Known, RowSet
  <1>8. /\ hub'[h].pc \notin Checked \cup {"head"} /\ hub'[h].pc \notin Writing
        /\ hub'[h].pc \notin Deciding /\ hub'[h].pc # "rename"
    BY <1>3, <1>5, <1>7, Names
  <1>9. DecidedRow(hub'[h], events, basis, Len(archives))
    BY <1>5, <1>7, <1>8 DEF DecidedRow
  <1>10. FilesOK' /\ Lines' = Lines /\ (Whole => Whole') /\ (active # NoFile => active' = active)
    <2>1. CASE active = NoFile
      BY <1>1, <2>1, NewSegment
    <2>2. CASE active # NoFile
      <3>1. active' = active
        BY <1>1, <2>2
      <3>2. Lines' = Lines /\ (Whole => Whole')
        BY <1>1, <3>1 DEF Lines, ActiveLines, Whole, Repaired
      <3>3. FilesOK'
        BY <1>1, <3>1, Known, FilesStay
      <3> QED
        BY <3>1, <3>2, <3>3
    <2> QED
      BY <2>1, <2>2
  <1>11. ~clashed => \A g \in Hubs : hub[g].pc \in Writing => lock.by = g
    BY Known DEF Owned
  <1>12. LockOK' /\ failures' \in 0..MaxFailures /\ clashed' \in BOOLEAN
    BY <1>1, Known DEF LockOK
  <1>13. ~clashed' =>
                /\ Lines' = Lines
                /\ hub'[h].pc \in Writing => lock'.by = h
                /\ \A g \in Hubs \ {h} : hub[g].pc \in Writing => lock'.by = g
                /\ \A g \in Hubs \ {h} : hub[g].pc \in Checked =>
                        (Whole => Whole') /\ (Whole /\ active # NoFile => active' = active)
    BY <1>1, <1>8, <1>10, <1>11
  <1> QED
    BY <1>1, <1>7, <1>8, <1>9, <1>10, <1>12, <1>13, LeavesWith

LEMMA DecideKeeps ==
    ASSUME IInv, NEW h \in Hubs, Decide(h), Follow
    PROVE  IInv' /\ (~clashed' => Seen)
  <1>1. /\ UNCHANGED <<files, lock, failures, acked, clashed>>
        /\ Replays /\ events < MaxEvents /\ events' = events + 1
        /\ basis' = Append(basis, EventsOf(Lines))
    BY DEF Decide
  <1>2. /\ Shape /\ Decided /\ FilesOK /\ MaxEvents \in Nat
        /\ events \in 1..MaxEvents /\ events \in Nat
        /\ basis \in [1..events -> History]
    BY Known, LedgerAssumption DEF Shape
  <1>3. /\ events' \in 1..MaxEvents /\ events' \in Nat /\ events <= events'
        /\ events' \notin 1..events /\ 1..events' = (1..events) \cup {events'}
    BY <1>1, <1>2
  <1>4. Lines' = Lines /\ Whole' = Whole /\ UNCHANGED <<archives, active, head>>
    BY <1>1, StillFiles
  <1>5. PICK s : s = EventsOf(Lines)
    OBVIOUS
  <1>6. s \in History
    <2>1. s \in Seq(1..events)
      BY <1>1, <1>2, <1>5, ReplayedIsTrue DEF Truly
    <2>2. 1..events \subseteq 1..MaxEvents
      BY <1>2
    <2> QED
      BY <2>1, <2>2, SeqMonotonic DEF History
  <1>7. /\ basis' \in [1..events' -> History] /\ basis'[events'] = s
        /\ \A e \in 1..events : basis'[e] = basis[e]
    <2>1. PICK b : b = basis'
      OBVIOUS
    <2>2. PICK n \in Nat : n = events
      BY <1>2
    <2>3. basis \in Seq(History) /\ Len(basis) = n
      <3>1. basis \in Seq(History)
        BY <1>2, IsFunSeq
      <3>2. DOMAIN basis = 1 .. n /\ DOMAIN basis = 1 .. Len(basis) /\ Len(basis) \in Nat
        BY <1>2, <2>2, <3>1, LenProperties
      <3> QED
        BY <3>1, <3>2
    <2>4. PICK m \in Nat : m = n + 1 /\ m = events'
      BY <1>1, <2>2
    <2>5. b \in Seq(History) /\ Len(b) = m /\ b[m] = s /\ \A e \in 1 .. n : b[e] = basis[e]
      BY <1>1, <1>5, <1>6, <2>1, <2>3, <2>4, Appended
    <2>6. b \in [1 .. m -> History]
      BY <2>5, LenProperties
    <2> QED
      BY <2>1, <2>2, <2>4, <2>5, <2>6
  <1>8. FilesOK'
    <2>1. Good \subseteq Good'
      BY <1>2, <1>3, <1>7 DEF Good
    <2>2. PICK more : more = Good'
      OBVIOUS
    <2>3. Seq(Good) \subseteq Seq(more)
      BY <2>1, <2>2, SeqMonotonic
    <2>4. archives \in Seq(Seq(more))
      BY <1>2, <2>3, SeqMonotonic DEF FilesOK
    <2> QED
      BY <1>2, <1>4, <2>2, <2>3, <2>4 DEF FilesOK
  <1>9. PICK at \in Nat, n \in 1..MaxEvents : at = Len(ActiveLines) /\ n = events'
    BY <1>2, <1>3, ReadTyped, LenProperties
  <1>10. PICK pc \in {"lock", "truncate"} :
            hub' = [hub EXCEPT ![h] = [@ EXCEPT !.pc = pc, !.on = s, !.event = n,
                                                !.target = at, !.again = FALSE]]
    BY <1>5, <1>9 DEF Decide
  <1>11. PICK r : r = [hub[h] EXCEPT !.pc = pc, !.on = s, !.event = n, !.target = at, !.again = FALSE]
    OBVIOUS
  <1>12. r \in HubRows /\ r.pc = pc /\ r.event = n /\ r.on = s
    <2>1. pc \in Pcs /\ n \in 0..MaxEvents
      BY <1>2, <1>10, Names
    <2> QED
      BY <1>2, <1>6, <1>11, <2>1, RowFacts DEF HubRows
  <1>13. hub' = [hub EXCEPT ![h] = r]
    BY <1>2, <1>10, <1>11 DEF Shape
  <1>14. /\ hub' \in [Hubs -> HubRows] /\ hub'[h] = r
         /\ \A g \in Hubs \ {h} : hub'[g] = hub[g]
    BY <1>2, <1>12, <1>13, RowSet
  <1>15. Truly(events', basis', log')
    BY <1>2, <1>3, <1>7, <1>8, LogFollows
  <1>16. Shape'
    <2>1. head' \in History /\ acked' \in Seq(1..events') /\ lock' = lock
          /\ failures' \in 0..MaxFailures /\ clashed' \in BOOLEAN
      <3>1. acked \in Seq(1..events) /\ 1..events \subseteq 1..events'
        BY <1>3, Known
      <3>2. acked \in Seq(1..events')
        BY <3>1, SeqMonotonic
      <3> QED
        BY <1>1, <1>4, <3>2, Known
    <2>2. lock' = NoLock \/ lock' \in [by : Hubs, owner : Pids \cup {NoOne}]
      BY <1>1, Known DEF LockOK
    <2>3. log' \in Seq(1..events')
      BY <1>15 DEF Truly
    <2> QED
      BY <1>3, <1>7, <1>8, <1>14, <2>1, <2>2, <2>3 DEF Shape
  <1>17. Decided'
    <2>1. ASSUME NEW g \in Hubs
          PROVE  DecidedRow(hub'[g], events', basis', Len(archives'))
      <3>1. CASE g = h
        <4>1. hub'[g].event = n /\ hub'[g].on = s /\ n \in 1..n /\ n # 0 /\ hub'[g].pc # "rename"
          BY <1>9, <1>10, <1>12, <1>14, <3>1
        <4> QED
          BY <1>7, <1>9, <4>1 DEF DecidedRow
      <3>2. CASE g # h
        <4>1. hub'[g] = hub[g] /\ DecidedRow(hub[g], events, basis, Len(archives))
          BY <1>14, <3>2, Known
        <4> QED
          BY <1>3, <1>4, <1>7, <4>1 DEF DecidedRow
      <3> QED
        BY <3>1, <3>2
    <2>2. DecidedOnTheLog'
      BY <1>15 DEF Truly, DecidedOnTheLog
    <2> QED
      BY <2>1, <2>2 DEF Decided
  <1>18. ASSUME ~clashed'
         PROVE  Alone' /\ Silent
    <2>1. ~clashed /\ Alone /\ Owned
      BY <1>1, <1>18, Known
    <2>2. hub'[h].pc \notin Checked /\ hub'[h].pc # "rename" /\ hub'[h].pc # "head"
          /\ hub'[h].pc \notin Writing
      BY <1>10, <1>12, <1>14, Names
    <2>3. \A g \in Hubs : hub'[g].pc \in Writing => lock'.by = g
      BY <1>1, <1>14, <2>1, <2>2 DEF Owned
    <2>4. UNCHANGED <<archives, head, acked>>
      BY <1>1, <1>4
    <2> QED
      BY <1>2, <1>3, <1>4, <1>14, <2>1, <2>2, <2>3, <2>4, AloneSame
  <1> QED
    BY <1>16, <1>17, <1>18 DEF IInv, Seen, Alone

\* A step that changes what is read, of the one hub that writes.
LEMMA AloneOne ==
    ASSUME IInv, ~clashed, NEW h \in Hubs, hub[h].pc \in Writing, lock' = lock,
           \A g \in Hubs \ {h} : hub'[g] = hub[g],
           Readable', Ready(h)'
    PROVE  Alone'
  <1>1. lock.by = h /\ \A g \in Hubs \ {h} : hub[g].pc \notin Writing /\ hub[g].pc \notin Checked
    BY OnlyOne
  <1>2. Owned'
    BY <1>1 DEF Owned
  <1>3. ASSUME NEW g \in Hubs
        PROVE  Ready(g)'
    <2>1. CASE g = h
      BY <2>1
    <2>2. CASE g # h
      <3>1. hub'[g].pc \notin Checked /\ hub'[g].pc # "rename" /\ hub'[g].pc # "head"
        BY <1>1, <2>2, Names
      <3> QED
        BY <3>1 DEF Ready
    <2> QED
      BY <2>1, <2>2
  <1> QED
    BY <1>2, <1>3 DEF Alone

\* A segment put beside the archives, at the next number or over another.
Put(s, k, a) == [i \in DOMAIN s \cup {k} |-> IF i = k THEN a ELSE s[i]]

LEMMA Archived ==
    ASSUME NEW X, NEW s \in Seq(X), NEW k \in 1 .. Len(s) + 1, NEW a \in X
    PROVE  /\ Put(s, k, a) \in Seq(X) /\ Len(s) <= Len(Put(s, k, a))
           /\ k = Len(s) + 1 => Put(s, k, a) = Append(s, a)
  <1>1. PICK t : t = Put(s, k, a)
    OBVIOUS
  <1>2. t = [i \in DOMAIN s \cup {k} |-> IF i = k THEN a ELSE s[i]]
    BY <1>1 DEF Put
  <1> SUFFICES /\ t \in Seq(X) /\ Len(s) <= Len(t)
               /\ k = Len(s) + 1 => t = Append(s, a)
    BY <1>1
  <1>3. PICK n \in Nat, m \in Nat : n = Len(s) /\ m = n + 1
    <2>1. Len(s) \in Nat
      BY LenProperties
    <2> QED
      BY <2>1
  <1>4. DOMAIN s = 1 .. n /\ (\A i \in 1 .. n : s[i] \in X) /\ k \in 1 .. m
    BY <1>3, LenProperties
  <1>5. CASE k = m
    <2>1. (1 .. n) \cup {k} = 1 .. m
      BY <1>3, <1>5
    <2>2. t = [i \in 1 .. m |-> IF i = m THEN a ELSE s[i]]
      BY <1>4, <1>5, <1>2, <2>1
    <2>3. \A i \in 1 .. m : i # m => i \in 1 .. n
      BY <1>3
    <2>4. t \in [1 .. m -> X]
      BY <1>4, <2>2, <2>3
    <2>5. t \in Seq(X)
      BY <2>4, IsFunSeq
    <2>6. Len(t) = m
      <3>1. DOMAIN t = 1 .. m /\ DOMAIN t = 1 .. Len(t) /\ Len(t) \in Nat
        BY <2>4, <2>5, LenProperties
      <3>2. 1 .. m = 1 .. Len(t)
        BY <3>1
      <3>3. Len(t) \in Nat
        BY <3>1
      <3> HIDE <3>1
      <3> QED
        BY <3>2, <3>3
    <2>7. PICK u : u = Append(s, a)
      OBVIOUS
    <2>8. u \in Seq(X) /\ Len(u) = m /\ u[m] = a /\ \A i \in 1 .. n : u[i] = s[i]
      BY <1>3, <2>7, Appended
    <2>9. \A i \in 1 .. m : t[i] = u[i]
      BY <2>2, <2>3, <2>8
    <2>10. t = u
      BY <2>5, <2>6, <2>8, <2>9, SeqEqual
    <2>11. Len(s) <= Len(t)
      BY <1>3, <2>6
    <2> QED
      BY <2>5, <2>7, <2>10, <2>11, Zenon
  <1>6. CASE k # m
    <2>1. k \in 1 .. n /\ k # Len(s) + 1
      BY <1>3, <1>4, <1>6
    <2>2. t = [s EXCEPT ![k] = a]
      <3>1. DOMAIN s \cup {k} = DOMAIN s
        BY <1>4, <2>1
      <3> QED
        BY <1>2, <3>1
    <2>3. [s EXCEPT ![k] = a] \in Seq(X) /\ Len([s EXCEPT ![k] = a]) = Len(s)
      BY <1>3, <2>1, ExceptSeq
    <2> QED
      BY <1>3, <2>1, <2>2, <2>3
  <1> QED
    BY <1>5, <1>6

LEMMA RenameKeeps ==
    ASSUME IInv, NEW h \in Hubs, Rename(h), Follow
    PROVE  IInv' /\ (~clashed' => Seen)
  <1>1. /\ UNCHANGED <<lock, events, failures, acked, basis, clashed>>
        /\ hub[h].pc = "rename"
    BY DEF Rename
  <1>2. hub[h].pc \in Writing /\ hub[h].pc \in Deciding /\ hub[h].pc \in Checked
    BY <1>1, Names
  <1>3. LockOK' /\ failures' \in 0..MaxFailures /\ clashed' \in BOOLEAN
    BY <1>1, Known DEF LockOK
  <1>4. CASE active = NoFile
    <2>1. Goes(h, "unlock") /\ UNCHANGED files
      BY <1>4 DEF Rename
    <2>2. Lines' = Lines /\ Whole' = Whole /\ UNCHANGED <<archives, active, head>>
      BY <2>1, StillFiles
    <2>3. FilesOK'
      BY <1>1, <2>2, Known, FilesStay
    <2>4. "unlock" \in Pcs /\ "unlock" \notin Checked \cup {"head"}
      BY Names
    <2>5. ~clashed => \A g \in Hubs : hub[g].pc \in Writing => lock.by = g
      BY Known DEF Owned
    <2> QED
      BY <1>1, <1>2, <1>3, <2>1, <2>2, <2>3, <2>4, <2>5, Leaves
  <1>5. CASE active # NoFile
    <2>1. PICK k \in 1 .. Len(archives) + 1 : k = hub[h].target
      <3>1. DecidedRow(hub[h], events, basis, Len(archives))
        BY Known
      <3> QED
        BY <1>1, <3>1 DEF DecidedRow
    <2>2. /\ archives' = [i \in DOMAIN archives \cup {k} |-> IF i = k THEN active ELSE archives[i]]
          /\ active' = NoFile /\ head' = head /\ Goes(h, "create")
      BY <1>5, <2>1 DEF Rename
    <2>3. archives \in Seq(Seq(Good)) /\ active \in Seq(Good)
      BY <1>5, Known DEF FilesOK
    <2>4. /\ archives' \in Seq(Seq(Good)) /\ Len(archives) <= Len(archives')
          /\ k = Len(archives) + 1 => archives' = Append(archives, active)
      <3>1. archives' = Put(archives, k, active)
        BY <2>2 DEF Put
      <3> QED
        BY <2>3, <3>1, Archived
    <2>5. FilesOK'
      <3>1. Good' = Good
        BY <1>1 DEF Good
      <3> QED
        BY <2>2, <2>4, <3>1 DEF FilesOK
    <2>6. /\ hub' \in [Hubs -> HubRows] /\ hub'[h].pc = "create"
          /\ hub'[h].on = hub[h].on /\ hub'[h].event = hub[h].event
          /\ \A g \in Hubs \ {h} : hub'[g] = hub[g]
      <3>1. Shape /\ "create" \in Pcs
        BY Known, Names
      <3> QED
        BY <2>2, <3>1, GoesIs
    <2>7. DecidedRow(hub'[h], events, basis, Len(archives'))
      <3>1. DecidedRow(hub[h], events, basis, Len(archives))
        BY Known
      <3> QED
        BY <1>2, <2>6, <3>1 DEF DecidedRow
    <2>8. Shape' /\ Decided'
      <3>1. head' \in History /\ acked' \in Seq(1..events)
        BY <1>1, <2>2, Known
      <3> QED
        BY <1>1, <1>3, <2>4, <2>5, <2>6, <2>7, <3>1, Known, StepKeeps
    <2>9. ASSUME ~clashed'
          PROVE  Alone' /\ Silent
      <3>1. ~clashed
        BY <1>1, <2>9
      <3>2. Readable /\ Ready(h)
        BY <3>1, Known
      <3>3. /\ Whole /\ EventsOf(Lines) = head /\ hub[h].on = head
            /\ active # <<>> /\ k = Len(archives) + 1
        BY <1>1, <1>2, <2>1, <3>2 DEF Ready
      <3>4. archives' = Append(archives, active)
        BY <2>4, <3>3
      <3>5. Lines' = Lines
        <4>1. LinesOf(active) = active /\ LinesOf(active') = <<>>
          BY <1>5, <2>2, <3>3, LinesNext DEF RepairedOf, LinesOf
        <4>2. FlattenSeq(archives') = FlattenSeq(archives) \o active
          BY <2>3, <3>4, FlatAppend
        <4>3. FlattenSeq(archives) \o active \in Seq(Good)
          BY <4>1, Known, ReadTyped, ReadsAre
        <4>4. (FlattenSeq(archives) \o active) \o <<>> = FlattenSeq(archives) \o active
          BY <4>3, ConcatEmptySeq
        <4> QED
          BY <4>1, <4>2, <4>4, LinesNext, ReadsAre
      <3>6. \A i \in DOMAIN archives' : archives'[i] # <<>>
        <4>1. PICK n \in Nat, m \in Nat : n = Len(archives) /\ m = n + 1
          BY Known
        <4>2. PICK bs : bs = archives'
          OBVIOUS
        <4>3. bs \in Seq(Seq(Good)) /\ Len(bs) = m /\ bs[m] = active /\ \A i \in 1 .. n : bs[i] = archives[i]
          BY <2>3, <3>4, <4>1, <4>2, Appended
        <4>4. DOMAIN bs = 1 .. m /\ DOMAIN archives = 1 .. n
          BY <2>3, <4>1, <4>3, LenProperties
        <4>5. \A i \in 1 .. m : i \in 1 .. n \/ i = m
          BY <4>1
        <4>6. \A i \in DOMAIN bs : bs[i] # <<>>
          BY <3>2, <3>3, <4>3, <4>4, <4>5 DEF Readable
        <4> QED
          BY <4>2, <4>6
      <3>7. Replays /\ Replays'
        <4>1. Replays
          BY <3>2, <3>3 DEF Replays, Readable
        <4>2. Chained(Lines)' /\ head' = EventsOf(Lines)'
          BY <2>2, <3>5, <4>1 DEF Replays
        <4> QED
          BY <3>6, <4>1, <4>2 DEF Replays
      <3>8. log' = log
        BY <3>2, <3>3, <3>5, <3>7 DEF Follow, Readable
      <3>9. Readable'
        <4>1. Chained(Lines)' /\ EventsOf(Lines)' = head' /\ head' = <<First>> \o acked' /\ log' = head'
          BY <1>1, <2>2, <3>2, <3>3, <3>5, <3>8 DEF Readable
        <4> QED
          BY <3>6, <4>1 DEF Readable
      <3>10. Ready(h)'
        <4>1. Whole'
          BY <2>2, LinesNext DEF RepairedOf
        <4>2. EventsOf(Lines)' = head' /\ hub'[h].on = head'
          BY <2>2, <2>6, <3>3, <3>5
        <4> QED
          BY <2>6, <4>1, <4>2 DEF Ready
      <3>11. Alone'
        BY <1>1, <1>2, <2>6, <3>1, <3>9, <3>10, AloneOne
      <3> QED
        BY <3>7, <3>8, <3>11 DEF Silent
    <2> QED
      BY <2>8, <2>9 DEF IInv, Seen, Alone
  <1> QED
    BY <1>4, <1>5

LEMMA WriteLineKeeps ==
    ASSUME IInv, NEW h \in Hubs, WriteLine(h), Follow
    PROVE  IInv' /\ (~clashed' => Seen)
  <1>1. /\ UNCHANGED <<archives, head, lock, events, failures, acked, basis, clashed>>
        /\ hub[h].pc = "line" /\ active' = Written(Line(hub[h].event, hub[h].on))
        /\ Goes(h, "head")
    BY DEF WriteLine
  <1>2. /\ hub[h].pc \in Writing /\ hub[h].pc \in Deciding /\ hub[h].pc \in Checked
        /\ "head" \in Pcs
    BY <1>1, Names
  <1>3. PICK e, on, ln : e = hub[h].event /\ on = hub[h].on /\ ln = Line(e, on)
    OBVIOUS
  <1>4. e \in 1..events /\ e # 0 /\ on = basis[e] /\ on \in History /\ e \in 0..MaxEvents
        /\ e \in 1..MaxEvents
    <2>1. DecidedRow(hub[h], events, basis, Len(archives)) /\ events \in 1..MaxEvents /\ Shape
      BY Known DEF Shape
    <2>2. e \in 1..events /\ on = basis[e]
      BY <1>2, <1>3, <2>1 DEF DecidedRow
    <2>3. on \in History
      BY <1>3, <2>1, RowFacts
    <2> QED
      BY <2>1, <2>2, <2>3, LedgerAssumption
  <1>5. ln \in Good /\ ln \in Entry /\ ln # Torn /\ ln.event = e /\ ln.prev = on
    <2>1. ln.event = e /\ ln.prev = on /\ ln \in Entry
      BY <1>3, <1>4 DEF Line, Entry
    <2>2. Torn.event = 0
      BY DEF Torn, Line
    <2> QED
      BY <1>4, <2>1, <2>2 DEF Good
  <1>6. /\ FilesOK'
        /\ Whole => Lines' = Append(Lines, ln) /\ Whole'
    BY <1>1, <1>3, <1>5, OneLine
  <1>7. /\ hub' \in [Hubs -> HubRows] /\ hub'[h].pc = "head"
        /\ hub'[h].on = on /\ hub'[h].event = e
        /\ \A g \in Hubs \ {h} : hub'[g] = hub[g]
    <2>1. Shape
      BY Known
    <2> QED
      BY <1>1, <1>2, <1>3, <2>1, GoesIs
  <1>8. DecidedRow(hub'[h], events, basis, Len(archives'))
    BY <1>4, <1>7 DEF DecidedRow
  <1>9. Shape' /\ Decided'
    <2>1. /\ head' \in History /\ acked' \in Seq(1..events) /\ LockOK'
          /\ failures' \in 0..MaxFailures /\ clashed' \in BOOLEAN /\ Len(archives) <= Len(archives')
      BY <1>1, Known DEF LockOK
    <2>2. UNCHANGED <<events, basis>>
      BY <1>1
    <2> QED
      BY <1>6, <1>7, <1>8, <2>1, <2>2, Known, StepKeeps
  <1>10. ASSUME ~clashed'
         PROVE  Alone' /\ Replays /\ ~Replays' /\ log' = log
    <2>1. ~clashed
      BY <1>1, <1>10
    <2>2. Readable /\ Ready(h)
      BY <2>1, Known
    <2>3. Whole /\ EventsOf(Lines) = head /\ on = head
      BY <1>2, <1>3, <2>2 DEF Ready
    <2>4. Lines' = Append(Lines, ln) /\ Lines \in Seq(Entry) /\ head \in History
      BY <1>6, <2>3, Known, ReadTyped
    <2>5. EventsOf(Lines') = Append(head, e)
      BY <1>5, <2>3, <2>4, EventsAppend
    <2>6. Chained(Lines')
      BY <1>5, <2>2, <2>3, <2>4, ChainedAppend DEF Readable
    <2>7. Replays
      BY <2>2, <2>3 DEF Replays, Readable
    <2>8. ~Replays'
      <3>1. head # Append(head, e)
        <4>1. PICK n \in Nat : n = Len(head)
          BY <2>4, LenProperties DEF History
        <4>2. Len(Append(head, e)) = n + 1
          BY <1>4, <2>4, <4>1, AppendProperties DEF History
        <4>3. n # n + 1
          BY <4>1
        <4> QED
          BY <4>1, <4>2, <4>3
      <3> QED
        BY <1>1, <2>5, <3>1 DEF Replays
    <2>9. log' = log
      BY <2>8 DEF Follow
    <2>10. Readable'
      <3>1. \A i \in DOMAIN archives' : archives'[i] # <<>>
        BY <1>1, <2>2 DEF Readable
      <3>2. Chained(Lines)' /\ EventsOf(Lines)' = Append(head', e) /\ e \in 1..events'
        BY <1>1, <1>4, <2>5, <2>6
      <3>3. head' = <<First>> \o acked' /\ log' = head'
        BY <1>1, <2>2, <2>9 DEF Readable
      <3> QED
        BY <3>1, <3>2, <3>3 DEF Readable
    <2>11. Ready(h)'
      <3>1. hub'[h].pc \notin Checked /\ hub'[h].pc # "rename"
        BY <1>7, Names
      <3>2. hub'[h].on = head' /\ EventsOf(Lines)' = Append(head', hub'[h].event)
        BY <1>1, <1>7, <2>3, <2>5
      <3> QED
        BY <3>1, <3>2 DEF Ready
    <2>12. Alone'
      BY <1>1, <1>2, <1>7, <2>1, <2>10, <2>11, AloneOne
    <2> QED
      BY <2>7, <2>8, <2>9, <2>12
  <1> QED
    BY <1>9, <1>10 DEF IInv, Seen, Alone

LEMMA WriteHeadKeeps ==
    ASSUME IInv, NEW h \in Hubs, WriteHead(h), Follow
    PROVE  IInv' /\ (~clashed' => Seen)
  <1>1. /\ UNCHANGED <<archives, active, lock, events, failures, basis, clashed>>
        /\ hub[h].pc = "head" /\ Goes(h, "unlock")
    BY DEF WriteHead
  <1>2. hub[h].pc \in Writing /\ hub[h].pc \in Deciding /\ "unlock" \in Pcs
    BY <1>1, Names
  <1>3. PICK e, on : e = hub[h].event /\ on = hub[h].on
    OBVIOUS
  <1>4. head' = Append(on, e) /\ acked' = Append(acked, e)
    BY <1>3 DEF WriteHead
  <1>5. e \in 1..events /\ on \in History /\ e \in 1..MaxEvents
    <2>1. DecidedRow(hub[h], events, basis, Len(archives)) /\ events \in 1..MaxEvents /\ Shape
      BY Known DEF Shape
    <2>2. e \in 1..events
      BY <1>2, <1>3, <2>1 DEF DecidedRow
    <2>3. on \in History
      BY <1>3, <2>1, RowFacts
    <2> QED
      BY <2>1, <2>2, <2>3, LedgerAssumption
  <1>6. head' \in History /\ acked' \in Seq(1..events)
    <2>1. acked \in Seq(1..events)
      BY Known
    <2> QED
      BY <1>4, <1>5, <2>1, AppendProperties DEF History
  <1>7. /\ hub' \in [Hubs -> HubRows] /\ hub'[h].pc = "unlock"
        /\ hub'[h].on = on /\ hub'[h].event = e
        /\ \A g \in Hubs \ {h} : hub'[g] = hub[g]
    <2>1. Shape
      BY Known
    <2> QED
      BY <1>1, <1>2, <1>3, <2>1, GoesIs
  <1>8. DecidedRow(hub'[h], events, basis, Len(archives'))
    <2>1. DecidedRow(hub[h], events, basis, Len(archives))
      BY Known
    <2> QED
      BY <1>1, <1>2, <1>3, <1>7, <2>1 DEF DecidedRow
  <1>9. FilesOK'
    BY <1>1, Known, FilesStay
  <1>10. Shape' /\ Decided'
    <2>1. /\ LockOK' /\ failures' \in 0..MaxFailures /\ clashed' \in BOOLEAN
          /\ Len(archives) <= Len(archives')
      BY <1>1, Known DEF LockOK
    <2>2. UNCHANGED <<events, basis>>
      BY <1>1
    <2> QED
      BY <1>6, <1>7, <1>8, <1>9, <2>1, <2>2, Known, StepKeeps
  <1>11. ASSUME ~clashed'
         PROVE  Alone' /\ Replays' /\ log' = Append(log, e)
    <2>1. ~clashed
      BY <1>1, <1>11
    <2>2. Readable /\ Ready(h)
      BY <2>1, Known
    <2>3. on = head /\ EventsOf(Lines) = Append(head, e)
      BY <1>1, <1>3, <2>2 DEF Ready
    <2>4. Lines' = Lines
      BY <1>1 DEF Lines, ActiveLines
    <2>5. Replays'
      <3>1. \A i \in DOMAIN archives' : archives'[i] # <<>>
        BY <1>1, <2>2 DEF Readable
      <3>2. Chained(Lines)' /\ head' = EventsOf(Lines)'
        BY <1>4, <2>2, <2>3, <2>4 DEF Readable
      <3> QED
        BY <3>1, <3>2 DEF Replays
    <2>6. log' = head'
      BY <1>4, <2>3, <2>4, <2>5 DEF Follow
    <2>7. head' = <<First>> \o acked'
      <3>1. head = <<First>> \o acked /\ acked \in Seq(1..events)
        BY <2>2, Known DEF Readable
      <3>2. <<First>> \in Seq(1..events)
        <4>1. First \in 1..events
          BY Known, LedgerAssumption DEF Shape, First
        <4> QED
          BY <4>1
      <3>3. <<First>> \o Append(acked, e) = Append(<<First>> \o acked, e)
        BY <1>5, <3>1, <3>2, ConcatAppend
      <3> QED
        BY <1>4, <2>3, <3>1, <3>3
    <2>8. Readable'
      <3>1. \A i \in DOMAIN archives' : archives'[i] # <<>>
        BY <1>1, <2>2 DEF Readable
      <3>2. Chained(Lines)' /\ head' = EventsOf(Lines)'
        BY <1>4, <2>2, <2>3, <2>4 DEF Readable
      <3> QED
        BY <2>6, <2>7, <3>1, <3>2 DEF Readable
    <2>9. Ready(h)'
      <3>1. hub'[h].pc \notin Checked /\ hub'[h].pc # "rename" /\ hub'[h].pc # "head"
        BY <1>7, Names
      <3> QED
        BY <3>1 DEF Ready
    <2>10. Alone'
      BY <1>1, <1>2, <1>7, <2>1, <2>8, <2>9, AloneOne
    <2>11. log' = Append(log, e)
      BY <1>4, <2>2, <2>3, <2>6 DEF Readable
    <2> QED
      BY <2>5, <2>10, <2>11
  <1> QED
    BY <1>5, <1>10, <1>11 DEF IInv, Seen, Alone

-----------------------------------------------------------------------------
(* the theorems                                                              *)

LEMMA NextKeeps ==
    ASSUME IInv, Next
    PROVE  IInv' /\ (~clashed' => Seen)
  <1>1. Follow
    BY DEF Next, Follow
  <1>2. PICK h \in Hubs : Steps(h)
    BY DEF Next
  <1>3. CASE Decide(h)
    BY <1>1, <1>3, DecideKeeps
  <1>4. CASE Truncate(h)
    BY <1>1, <1>4, TruncateKeeps
  <1>5. CASE Lock(h)
    BY <1>1, <1>5, LockKeeps
  <1>6. CASE Inspect(h)
    BY <1>1, <1>6, InspectKeeps
  <1>7. CASE Seize(h)
    BY <1>1, <1>7, SeizeKeeps
  <1>8. CASE Stamp(h)
    BY <1>1, <1>8, StampKeeps
  <1>9. CASE Check(h)
    BY <1>1, <1>9, CheckKeeps
  <1>10. CASE List(h)
    BY <1>1, <1>10, ListKeeps
  <1>11. CASE Rename(h)
    BY <1>1, <1>11, RenameKeeps
  <1>12. CASE Create(h)
    BY <1>1, <1>12, CreateKeeps
  <1>13. CASE WriteLine(h)
    BY <1>1, <1>13, WriteLineKeeps
  <1>14. CASE WriteHead(h)
    BY <1>1, <1>14, WriteHeadKeeps
  <1>15. CASE Unlock(h)
    BY <1>1, <1>15, UnlockKeeps
  <1>16. CASE Tears(h)
    BY <1>1, <1>16, TearsKeeps
  <1>17. CASE Throws(h)
    BY <1>1, <1>17, ThrowsKeeps
  <1>18. CASE StampThrows(h)
    BY <1>1, <1>18, StampThrowsKeeps
  <1>19. CASE Dies(h)
    BY <1>1, <1>19, DiesKeeps
  <1>20. CASE Restarts(h)
    BY <1>1, <1>20, RestartsKeeps
  <1> QED
    BY <1>2, <1>3, <1>4, <1>5, <1>6, <1>7, <1>8, <1>9, <1>10, <1>11, <1>12, <1>13, <1>14,
       <1>15, <1>16, <1>17, <1>18, <1>19, <1>20 DEF Steps

LEMMA StutterKeeps ==
    ASSUME IInv, UNCHANGED vars
    PROVE  IInv' /\ Silent
  <1>1. /\ Lines' = Lines /\ Whole' = Whole /\ (Replays' <=> Replays) /\ Good' = Good
        /\ UNCHANGED <<archives, active, head, lock, hub, events, failures, log, acked, basis, clashed>>
    BY DEF vars, Lines, ActiveLines, Whole, Repaired, Replays, Good
  <1>2. Shape'
    BY <1>1 DEF IInv, Shape, FilesOK
  <1>3. Decided'
    BY <1>1 DEF IInv, Decided, DecidedOnTheLog
  <1>4. Alone'
    <2>1. Owned => Owned'
      BY <1>1 DEF Owned
    <2>2. Readable => Readable'
      BY <1>1 DEF Readable
    <2>3. (\A g \in Hubs : Ready(g)) => (\A g \in Hubs : Ready(g))'
      BY <1>1 DEF Ready
    <2> QED
      BY <1>1, <2>1, <2>2, <2>3 DEF IInv, Alone
  <1> QED
    BY <1>1, <1>2, <1>3, <1>4 DEF IInv, Silent

LEMMA ClashStays ==
    ASSUME [Next]_vars, ~clashed'
    PROVE  ~clashed
  <1>1. CASE Next
    <2>1. PICK h \in Hubs : Steps(h)
      BY <1>1 DEF Next
    <2> QED
      BY <2>1 DEF Steps, Decide, Truncate, Lock, Inspect, Seize, RemoveLock, Stamp, Check, List,
                  Rename, Create, WriteLine, WriteHead, Unlock, Tears, Throws, StampThrows, Dies,
                  Restarts
  <1>2. CASE UNCHANGED vars
    BY <1>2 DEF vars
  <1> QED
    BY <1>1, <1>2

\* An initialised ledger: one line, its head, and no lock.
LEMMA InitLines ==
    ASSUME Init
    PROVE  /\ FilesOK /\ Chained(Lines) /\ EventsOf(Lines) = head /\ head = <<First>> \o acked
           /\ First \in 1..events /\ events = 1 /\ MaxEvents \in Nat \ {0} /\ <<>> \in History
  <1>1. /\ events = 1 /\ First = 1 /\ MaxEvents \in Nat \ {0} /\ <<>> \in History
        /\ basis = << <<>> >> /\ archives = <<>> /\ active = <<Line(First, <<>>)>>
        /\ head = <<First>> /\ acked = <<>>
    BY LedgerAssumption, EmptySeq DEF Init, First, History
  <1>2. PICK ln : ln = Line(First, <<>>)
    OBVIOUS
  <1>3. ln \in Entry /\ ln \in Good /\ ln.event = 1 /\ ln.prev = <<>> /\ ln # Torn
    <2>1. ln.event = 1 /\ ln.prev = <<>> /\ ln = [event |-> 1, prev |-> <<>>]
      BY <1>1, <1>2 DEF Line
    <2>2. ln \in Entry
      BY <1>1, <2>1 DEF Entry
    <2>3. Torn.event = 0
      BY DEF Torn, Line
    <2>4. basis[1] = <<>>
      BY <1>1
    <2> QED
      BY <1>1, <2>1, <2>2, <2>3, <2>4 DEF Good
  <1>4. <<>> \in Seq(Entry) /\ <<>> \in Seq(Good) /\ active = Append(<<>>, ln)
    BY <1>1, <1>2, EmptySeq
  <1>5. LinesOf(active) = active
    BY <1>3, <1>4, ReadAppended
  <1>6. active \in Seq(Good) /\ active \in Seq(Entry)
    BY <1>3, <1>4, AppendProperties
  <1>7. Lines = active
    <2>1. FlattenSeq(archives) = <<>>
      BY <1>1, FlatEmpty
    <2> QED
      BY <1>5, <1>6, <2>1, ReadsAre, ConcatEmptySeq
  <1>8. EventsOf(<<>>) = <<>>
    <2>1. EventsOf(<<>>) \in Seq(0..MaxEvents) /\ Len(EventsOf(<<>>)) = 0
      BY <1>4, EventsTyped, EmptySeq
    <2> QED
      BY <2>1, EmptySeq
  <1>9. Chained(<<>>)
    <2>1. DOMAIN <<>> = {}
      OBVIOUS
    <2> QED
      BY <2>1 DEF Chained
  <1>10. Chained(Lines)
    BY <1>3, <1>4, <1>7, <1>8, <1>9, ChainedAppend
  <1>11. EventsOf(Lines) = head
    <2>1. EventsOf(Append(<<>>, ln)) = Append(EventsOf(<<>>), ln.event)
      BY <1>3, <1>4, EventsAppend
    <2>2. EventsOf(Lines) = Append(<<>>, 1)
      BY <1>3, <1>4, <1>7, <1>8, <2>1
    <2> QED
      BY <1>1, <2>2
  <1>12. FilesOK
    BY <1>1, <1>6, EmptySeq DEF FilesOK
  <1>13. head = <<First>> \o acked
    BY <1>1
  <1> QED
    BY <1>1, <1>10, <1>11, <1>12, <1>13

LEMMA InitIInv == Init => IInv /\ Replays
  <1> SUFFICES ASSUME Init
               PROVE  IInv /\ Replays
    OBVIOUS
  <1>1. /\ FilesOK /\ Chained(Lines) /\ EventsOf(Lines) = head /\ head = <<First>> \o acked
        /\ First \in 1..events /\ events = 1 /\ MaxEvents \in Nat \ {0} /\ <<>> \in History
    BY InitLines
  <1>2. /\ archives = <<>> /\ head = <<First>> /\ lock = NoLock /\ failures = 0
        /\ log = head /\ acked = <<>> /\ basis = << <<>> >> /\ clashed = FALSE
    BY DEF Init
  <1>3. Replays
    BY <1>1, <1>2 DEF Replays
  <1>4. PICK pid \in [Hubs -> Pids] :
            hub = [h \in Hubs |-> [pc |-> "idle", pid |-> pid[h], on |-> <<>>,
                                   event |-> 0, target |-> 0, again |-> FALSE]]
    BY DEF Init
  <1>5. hub \in [Hubs -> HubRows] /\ \A h \in Hubs : hub[h].pc = "idle" /\ hub[h].event = 0
    <2>1. "idle" \in Pcs /\ 0 \in 0..MaxEvents
      BY <1>1, Names
    <2>2. ASSUME NEW h \in Hubs
          PROVE  hub[h] \in HubRows /\ hub[h].pc = "idle" /\ hub[h].event = 0
      BY <1>1, <1>4, <2>1 DEF HubRows
    <2> QED
      BY <1>4, <2>2
  <1>6. Truly(events, basis, log)
    BY <1>1, <1>2, <1>3, ReplayedIsTrue
  <1>7. Shape
    <2>1. head \in History /\ log \in Seq(1..events) /\ acked \in Seq(1..events)
      <3>1. log \in Seq(1..events)
        BY <1>6 DEF Truly
      <3>2. 1..events \subseteq 1..MaxEvents
        BY <1>1
      <3>3. head \in History
        BY <1>2, <3>1, <3>2, SeqMonotonic DEF History
      <3> QED
        BY <1>2, <3>1, <3>3, EmptySeq
    <2>2. events \in 1..MaxEvents /\ failures \in 0..MaxFailures /\ clashed \in BOOLEAN
      <3>1. MaxFailures \in Nat
        BY LedgerAssumption
      <3>2. 0 \in 0..MaxFailures /\ 1 \in 1..MaxEvents
        BY <1>1, <3>1
      <3> QED
        BY <1>1, <1>2, <3>2
    <2>3. basis \in [1..events -> History]
      <3>1. basis \in Seq(History) /\ Len(basis) = 1
        BY <1>1, <1>2
      <3> QED
        BY <1>1, <3>1, LenProperties
    <2> QED
      BY <1>1, <1>2, <1>5, <2>1, <2>2, <2>3 DEF Shape
  <1>8. Decided
    <2>1. DecidedOnTheLog
      BY <1>6 DEF Truly, DecidedOnTheLog
    <2>2. \A h \in Hubs : DecidedRow(hub[h], events, basis, Len(archives))
      BY <1>5, Names DEF DecidedRow
    <2> QED
      BY <2>1, <2>2 DEF Decided
  <1>9. Alone
    <2>1. Owned
      BY <1>5, Names DEF Owned
    <2>2. Readable
      BY <1>1, <1>2, <1>3 DEF Readable, Replays
    <2>3. \A h \in Hubs : Ready(h)
      BY <1>5, Names DEF Ready
    <2> QED
      BY <2>1, <2>2, <2>3 DEF Alone
  <1> QED
    BY <1>3, <1>7, <1>8, <1>9 DEF IInv

\* The history read, the lines, the head and what each hub is about to write agree
\* at every moment of every instance (license-leases.ts 1130-1251).
THEOREM LedgerAgrees == Spec => []IInv
  <1>1. IInv /\ [Next]_vars => IInv'
    BY NextKeeps, StutterKeeps
  <1>2. Init => IInv
    BY InitIInv
  <1> QED
    BY <1>1, <1>2, PTL DEF Spec

\* Files, lock and hubs hold only what they are made for.
THEOREM TypeCorrect == Spec => []TypeOK
  <1>1. IInv => TypeOK
    <2>1. SUFFICES ASSUME IInv
                   PROVE  TypeOK
      OBVIOUS
    <2>2. Shape /\ MaxEvents \in Nat
      BY <2>1, LedgerAssumption DEF IInv
    <2>3. Seq(Good) \subseteq Seq(Entry)
      BY EntryFacts, SeqMonotonic
    <2>4. archives \in Seq(Seq(Entry)) /\ (active = NoFile \/ active \in Seq(Entry))
      BY <2>2, <2>3, SeqMonotonic DEF Shape, FilesOK
    <2>5. log \in History /\ acked \in History
      <3>1. 1..events \subseteq 1..MaxEvents
        BY <2>2 DEF Shape
      <3> QED
        BY <2>2, <3>1, SeqMonotonic DEF Shape, History
    <2>6. lock = NoLock \/ lock \in [by : Hubs, owner : Pids \cup {NoOne}]
      BY <2>2 DEF Shape
    <2> QED
      BY <2>2, <2>4, <2>5, <2>6 DEF TypeOK, Shape, Entry, HubRows
  <1> QED
    BY <1>1, LedgerAgrees, PTL

\* No event of a history that is read was decided on another history than the one
\* before it, not even when hubs write at once (1227-1229, 994-998).
THEOREM LogWasDecided == Spec => []DecidedOnTheLog
  <1>1. IInv => DecidedOnTheLog
    BY DEF IInv, Decided
  <1> QED
    BY <1>1, LedgerAgrees, PTL

\* What was acknowledged is all in the ledger and in the head, in order, whatever
\* died or threw, until two hubs have changed the files at once (1130-1145, 1239-1251).
THEOREM AcknowledgedIsKept == Spec => []Kept
  <1>1. IInv => Kept
    BY DEF IInv, Alone, Readable, Kept
  <1> QED
    BY <1>1, LedgerAgrees, PTL

\* The files implement one growing log (README 1532-1538).
THEOREM PromiseKept == Spec => KeepsItsPromise
  <1>1. Init => Promise!Init
    <2>1. SUFFICES ASSUME Init
                   PROVE  Promise!Init
      OBVIOUS
    <2>2. Replays /\ log = <<First>> /\ clashed = FALSE /\ First \in 1..MaxEvents
      <3>1. Replays /\ 1 \in 1..MaxEvents
        BY <2>1, InitIInv, LedgerAssumption
      <3>2. log = <<First>> /\ clashed = FALSE /\ First = 1
        BY <2>1 DEF Init, First
      <3> QED
        BY <3>1, <3>2
    <2> QED
      BY <2>2 DEF Promise!Init
  <1>2. IInv /\ [Next]_vars => [Promise!Next]_(Promise!vars)
    <2>1. SUFFICES ASSUME IInv, [Next]_vars
                   PROVE  [Promise!Next]_(Promise!vars)
      OBVIOUS
    <2>2. IInv' /\ (~clashed' => Seen)
      BY <2>1, NextKeeps, StutterKeeps DEF Seen
    <2>3. clashed \in BOOLEAN /\ clashed' \in BOOLEAN
      BY <2>1, <2>2 DEF IInv, Shape
    <2>4. CASE clashed'
      BY <2>4 DEF Promise!Next
    <2>5. CASE ~clashed'
      <3>1. clashed' = clashed
        <4>1. ~clashed
          BY <2>1, <2>5, ClashStays
        <4> QED
          BY <2>3, <2>5, <4>1
      <3>2. CASE Silent
        BY <3>1, <3>2 DEF Silent, Promise!vars
      <3>3. CASE Replays /\ ~Replays' /\ log' = log
        BY <2>5, <3>3 DEF Promise!Next, Promise!Obscure
      <3>4. CASE Replays' /\ \E e \in 1..MaxEvents : log' = Append(log, e)
        BY <2>5, <3>4 DEF Promise!Next, Promise!Grow
      <3> QED
        BY <2>2, <2>5, <3>2, <3>3, <3>4 DEF Seen
    <2> QED
      BY <2>4, <2>5
  <1> QED
    BY <1>1, <1>2, LedgerAgrees, PTL DEF Spec, KeepsItsPromise, Promise!Spec
=============================================================================
