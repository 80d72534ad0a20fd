----------------------------- MODULE CustomerSync -----------------------------
(***************************************************************************)
(* The copy of customer facts to the marketing contacts                    *)
(* (marketing-customer-sync.ts): one pass at a time visits the contacts    *)
(* that are due, looks each up, updates it when it differs and writes a    *)
(* checkpoint that says what was copied, under which API key, and when to  *)
(* look again.  Customers, lists and the key change while a pass waits;    *)
(* a request may be answered, refused or lost after it took effect; the    *)
(* service may stop or crash at any step.                                  *)
(*                                                                         *)
(* There is one account per API key.  The allowed lists, which a digest    *)
(* covers too, do not change.  lapsed is history: contacts that somebody   *)
(* edited, or that a pass updated and ended before their checkpoint.       *)
(***************************************************************************)
EXTENDS Naturals, FiniteSets

CONSTANTS
    Contacts,    \* e-mail addresses of live customers
    Keys,        \* API keys, each of an account of its own
    Facts,       \* the attribute values of a customer
    Limit,       \* maxPerPass
    Success, Missing, Failure,   \* the three recheck intervals
    MaxNow, MaxPasses            \* bounds

VARIABLES
    customer,    \* contact -> its present facts, newest record of the address
    key,         \* the saved API key, or None
    attrs,       \* <<key, contact>> -> attributes there, Absent, or Unlisted
    checkpoint,  \* contact -> [key, digest, next]
    ready,       \* attributesReadyForKey
    pass,        \* the pass in progress
    closed, now, passes,
    lapsed

syncVars == <<customer, key, attrs, checkpoint, ready, pass, closed, now, passes, lapsed>>

None == "none"
Absent == "absent"       \* the account has no such contact
Unlisted == "unlisted"   \* it is on none of the allowed lists
Blank == "blank"         \* attributes nobody has set

Idle == [pc |-> "idle"]

Init ==
    /\ customer \in [Contacts -> Facts]
    /\ key \in Keys
    /\ attrs \in [Keys \X Contacts -> {Blank, Absent, Unlisted}]
    /\ checkpoint = [c \in Contacts |-> [key |-> None, digest |-> None, next |-> 0]]
    /\ ready = None /\ pass = Idle /\ closed = FALSE
    /\ now = 0 /\ passes = 0 /\ lapsed = {}

\* A checkpoint of another key, or of other facts, does not delay a contact.
DueAt(c) ==
    IF checkpoint[c].key = pass.key /\ checkpoint[c].digest \in {None, customer[c]}
    THEN checkpoint[c].next ELSE 0

Due == {c \in Contacts : DueAt(c) <= pass.at}

\* The contacts that fit in one pass, the longest overdue first.
Chosen == {S \in SUBSET Due :
    /\ Cardinality(S) = IF Cardinality(Due) < Limit THEN Cardinality(Due) ELSE Limit
    /\ \A c \in S, d \in Due \ S : DueAt(c) <= DueAt(d)}

\* The key, the instant and the customers of a pass are read one after the other.
Begin ==
    /\ pass = Idle /\ ~closed /\ passes < MaxPasses
    /\ passes' = passes + 1
    /\ pass' = [pc |-> "lists", key |-> key]
    /\ UNCHANGED <<customer, key, attrs, checkpoint, ready, closed, now, lapsed>>

ReadsLists ==
    /\ pass.pc = "lists"
    /\ pass' = [pc |-> "customers", key |-> pass.key, at |-> now]
    /\ UNCHANGED <<customer, key, attrs, checkpoint, ready, closed, now, passes, lapsed>>

Selects ==
    /\ pass.pc = "customers"
    /\ \E S \in Chosen :
         pass' = IF S = {} THEN Idle
                 ELSE [pc |-> IF ready = pass.key THEN "next" ELSE "attributes",
                       left |-> S, at |-> pass.at, key |-> pass.key, facts |-> customer]
    /\ UNCHANGED <<customer, key, attrs, checkpoint, ready, closed, now, passes, lapsed>>

\* A list or a record that cannot be read ends the pass.
ReadFails ==
    /\ pass.pc \in {"lists", "customers"}
    /\ pass' = Idle
    /\ UNCHANGED <<customer, key, attrs, checkpoint, ready, closed, now, passes, lapsed>>

\* ensureAttributes: a failure ends the pass and checks nothing off.
EnsureAttributes ==
    /\ pass.pc = "attributes"
    /\ \/ ready' = pass.key /\ pass' = [pass EXCEPT !.pc = "next"]
       \/ ready' = ready /\ pass' = Idle
    /\ UNCHANGED <<customer, key, attrs, checkpoint, closed, now, passes, lapsed>>

Visits(c) ==
    /\ pass.pc = "next" /\ c \in pass.left
    /\ pass' = [pc |-> "lookup", left |-> pass.left \ {c}, at |-> pass.at,
                key |-> pass.key, facts |-> pass.facts, contact |-> c]
    /\ UNCHANGED <<customer, key, attrs, checkpoint, ready, closed, now, passes, lapsed>>

Onward == [pc |-> "next", left |-> pass.left, at |-> pass.at, key |-> pass.key, facts |-> pass.facts]

\* save(): the account, what was copied there, when to look again.
Save(digest, wait) ==
    /\ checkpoint' = [checkpoint EXCEPT ![pass.contact] =
                        [key |-> pass.key, digest |-> digest, next |-> pass.at + wait]]
    /\ pass' = Onward

Place == <<pass.key, pass.contact>>
Wanted == pass.facts[pass.contact]
Unsaved == IF pass.pc = "applied" THEN {Place} ELSE {}

\* Any error of one contact is a short retry of that contact.
Fails ==
    /\ pass.pc \in {"lookup", "update"}
    /\ Save(None, Failure)
    /\ UNCHANGED <<customer, key, attrs, ready, closed, now, passes, lapsed>>

\* Nor can that retry be written: the pass ends.
NothingSaved ==
    /\ pass.pc \in {"lookup", "update", "applied"}
    /\ lapsed' = lapsed \cup Unsaved /\ pass' = Idle
    /\ UNCHANGED <<customer, key, attrs, checkpoint, ready, closed, now, passes>>

LookedUp ==
    /\ pass.pc = "lookup"
    /\ \/ attrs[Place] \in {Absent, Unlisted} /\ Save(None, Missing)
       \/ attrs[Place] = Wanted /\ Save(Wanted, Success)
       \/ /\ attrs[Place] \notin {Absent, Unlisted, Wanted}
          /\ pass' = [pass EXCEPT !.pc = "update"]
          /\ UNCHANGED checkpoint
    /\ UNCHANGED <<customer, key, attrs, ready, closed, now, passes, lapsed>>

\* The update takes effect; its answer is the next step, or never comes.
Applied ==
    /\ pass.pc = "update"
    /\ attrs[Place] # Absent
    /\ attrs' = [attrs EXCEPT ![Place] = IF @ = Unlisted THEN @ ELSE Wanted]
    /\ pass' = [pass EXCEPT !.pc = "applied"]
    /\ UNCHANGED <<customer, key, checkpoint, ready, closed, now, passes, lapsed>>

UpdateAnswered ==
    /\ pass.pc = "applied"
    /\ Save(Wanted, Success) \/ Save(None, Failure)
    /\ UNCHANGED <<customer, key, attrs, ready, closed, now, passes, lapsed>>

Ends ==
    /\ pass.pc = "next" /\ pass.left = {}
    /\ pass' = Idle
    /\ UNCHANGED <<customer, key, attrs, checkpoint, ready, closed, now, passes, lapsed>>

\* stop(): the pass is aborted at its await and saves nothing more.
Stop ==
    /\ ~closed /\ closed' = TRUE
    /\ lapsed' = lapsed \cup Unsaved /\ pass' = Idle
    /\ UNCHANGED <<customer, key, attrs, checkpoint, ready, now, passes>>

Restart ==
    /\ closed' = FALSE /\ ready' = None
    /\ lapsed' = lapsed \cup Unsaved /\ pass' = Idle
    /\ UNCHANGED <<customer, key, attrs, checkpoint, now, passes>>

CustomerChanges(c, f) ==
    /\ customer' = [customer EXCEPT ![c] = f]
    /\ UNCHANGED <<key, attrs, checkpoint, ready, pass, closed, now, passes, lapsed>>

KeyChanges(k) ==
    /\ key' = k
    /\ UNCHANGED <<customer, attrs, checkpoint, ready, pass, closed, now, passes, lapsed>>

\* Somebody adds, lists or removes the contact in the account.
ContactChanges(k, c) ==
    /\ attrs' = [attrs EXCEPT ![<<k, c>>] = IF @ \in {Absent, Unlisted} THEN Blank ELSE Absent]
    /\ lapsed' = lapsed \cup {<<k, c>>}
    /\ UNCHANGED <<customer, key, checkpoint, ready, pass, closed, now, passes>>

Tick ==
    /\ now < MaxNow
    /\ now' = now + 1
    /\ UNCHANGED <<customer, key, attrs, checkpoint, ready, pass, closed, passes, lapsed>>

Next ==
    \/ Begin \/ ReadsLists \/ Selects \/ ReadFails \/ EnsureAttributes
    \/ Fails \/ NothingSaved \/ LookedUp \/ Applied \/ UpdateAnswered \/ Ends
    \/ Stop \/ Restart \/ Tick
    \/ \E c \in Contacts : Visits(c) \/ \E f \in Facts : CustomerChanges(c, f)
    \/ \E k \in Keys : KeyChanges(k) \/ \E c \in Contacts : ContactChanges(k, c)

Spec == Init /\ [][Next]_syncVars

-----------------------------------------------------------------------------
\* A checkpoint that delays a contact for having been copied is about the
\* account of its key: that contact holds the facts there, unless the account
\* was edited or a process ended between an update and its checkpoint; facts
\* and keys that change while a pass waits do not slip into what it records.
CheckpointsAreTrue ==
    \A c \in Contacts :
        LET p == checkpoint[c]
        IN  p.digest # None =>
              attrs[<<p.key, c>>] = p.digest \/ <<p.key, c>> \in lapsed
                 \/ (pass.pc = "applied" /\ Place = <<p.key, c>>)
=============================================================================
