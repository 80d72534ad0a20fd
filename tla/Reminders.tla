------------------------------ MODULE Reminders ------------------------------
(***************************************************************************)
(* The reminder before a subscription's first charge (billing/reminders):  *)
(* a tick reads the subscription at Stripe, composes the message once,     *)
(* writes it down with the time of the first attempt, and sends it under   *)
(* one idempotency key.  An answer may be lost after the provider took the *)
(* message; the process may end at any point.                              *)
(*                                                                         *)
(* now is in hours.  shown is history: the messages the customer got.      *)
(***************************************************************************)
EXTENDS Naturals

CONSTANTS
    First,       \* when billing starts
    Lead,        \* the days before it in which a reminder is due
    Resend,      \* how long a delivery may be tried again: 23 h
    Forget,      \* how long the provider knows an idempotency key: 24 h
    Providers,   \* e-mail providers; only one of them has idempotency keys
    Keyed,       \* that one
    Bodies,      \* the texts an invoice preview may give
    MaxNow       \* bound

VARIABLES
    sub,         \* at Stripe: "active", "ending", "moved" (another first date)
    customer,    \* "due", "void": refunded, disputed or no longer renewing
    provider,    \* the configured provider
    row,         \* the saved reminder
    tick,        \* what the tick in progress works on
    now,
    known,       \* idempotency key at the provider: when it was first used
    shown

reminderVars == <<sub, customer, provider, row, tick, now, known, shown>>

None == "none"
Unseen == [at |-> 0, by |-> None]
NewRow == [state |-> "pending", body |-> None, by |-> None, asked |-> FALSE, since |-> 0]
Off == [pc |-> "off"]

Init ==
    /\ sub = "active" /\ customer = "due"
    /\ provider \in Providers
    /\ row = NewRow /\ tick = Off
    /\ now = 0 /\ known = Unseen /\ shown = {}

At(pc) == tick.pc = pc

\* One tick at a time; only a pending row near its date is looked at.
Begins ==
    /\ At("off")
    /\ customer = "due" /\ row.state = "pending" /\ now + Lead >= First
    /\ tick' = [pc |-> "stripe", clock |-> now, by |-> provider, row |-> row]
    /\ UNCHANGED <<sub, customer, provider, row, now, known, shown>>

Puts(r) == row' = r
Over == tick' = Off
Ends(state) == Puts([tick.row EXCEPT !.state = state]) /\ Over

\* An earlier attempt may have been delivered: only the same provider, and
\* only while it recognises the key, is asked again.
Unsafe ==
    /\ tick.row.asked
    /\ \/ tick.row.by # tick.by
       \/ tick.by # Keyed
       \/ tick.clock - tick.row.since >= Resend

ReadsSubscription ==
    /\ At("stripe")
    /\ \/ sub = "ending" /\ Ends("canceled")
       \/ sub = "moved" /\ Ends("needs_attention")
       \/ /\ sub = "active"
          /\ IF tick.clock >= First \/ (tick.by # None /\ Unsafe)
             THEN Ends("needs_attention")
             ELSE IF tick.by = None THEN Puts(tick.row) /\ Over
             ELSE /\ tick' = [tick EXCEPT !.pc = IF tick.row.body = None THEN "preview" ELSE "send"]
                  /\ UNCHANGED row
       \/ Puts(tick.row) /\ Over       \* no answer, or not this customer's
    /\ UNCHANGED <<sub, customer, provider, now, known, shown>>

\* The message is composed once and stored with who will deliver it.
Previewed ==
    /\ At("preview")
    /\ \/ \E b \in Bodies :
            LET r == [tick.row EXCEPT !.body = b, !.by = tick.by]
            IN  Puts(r) /\ tick' = [tick EXCEPT !.pc = "send", !.row = r]
       \/ Puts(tick.row) /\ Over
    /\ UNCHANGED <<sub, customer, provider, now, known, shown>>

Attempts ==
    /\ At("send")
    /\ LET r == [tick.row EXCEPT !.asked = TRUE,
                                  !.since = IF tick.row.asked THEN @ ELSE tick.clock]
       IN  Puts(r) /\ tick' = [tick EXCEPT !.pc = "asked", !.row = r]
    /\ UNCHANGED <<sub, customer, provider, now, known, shown>>

\* The provider shows a message unless it knows its key.
Knows == /\ tick.row.by = Keyed /\ known.by = Keyed
         /\ now - known.at < Forget

Arrives ==
    /\ At("asked")
    /\ IF Knows THEN UNCHANGED <<known, shown>>
       ELSE /\ known' = [at |-> now, by |-> tick.row.by]
            /\ shown' = shown \cup {[at |-> now, body |-> tick.row.body]}
    /\ tick' = [tick EXCEPT !.pc = "arrived"]
    /\ UNCHANGED <<sub, customer, provider, row, now>>

Answered ==
    /\ At("arrived") /\ Ends("sent")
    /\ UNCHANGED <<sub, customer, provider, now, known, shown>>

Unanswered ==
    /\ At("asked") \/ At("arrived")
    /\ Puts(tick.row) /\ Over
    /\ UNCHANGED <<sub, customer, provider, now, known, shown>>

Restart ==
    /\ ~At("off") /\ Over
    /\ UNCHANGED <<sub, customer, provider, row, now, known, shown>>

World ==
    /\ \/ sub' \in {"active", "ending", "moved"} /\ UNCHANGED <<customer, provider>>
       \/ customer' = "void" /\ UNCHANGED <<sub, provider>>
       \/ provider' \in Providers \cup {None} /\ UNCHANGED <<sub, customer>>
    /\ UNCHANGED <<row, tick, now, known, shown>>

\* A tick lasts less than an hour: at most one passes while it waits.
Hour ==
    /\ now < MaxNow
    /\ tick = Off \/ (~At("off") /\ tick.clock = now)
    /\ now' = now + 1
    /\ UNCHANGED <<sub, customer, provider, row, tick, known, shown>>

Next ==
    \/ Begins \/ ReadsSubscription \/ Previewed \/ Attempts
    \/ Arrives \/ Answered \/ Unanswered \/ Restart \/ World \/ Hour

Spec == Init /\ [][Next]_reminderVars

-----------------------------------------------------------------------------
\* The customer gets the reminder at most once, whatever answers are lost and
\* however often the process restarts or the provider is changed, and gets it
\* before the first charge (an attempt may outlast its hour).
RemindedOnce ==
    /\ \A s, t \in shown : s = t
    /\ \A s \in shown : s.at <= First
    /\ row.state = "sent" => shown # {}
=============================================================================
