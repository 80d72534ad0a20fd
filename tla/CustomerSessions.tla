--------------------------- MODULE CustomerSessions ---------------------------
(***************************************************************************)
(* Customer sign-in (customer-sessions.ts): a billing e-mail gets a link   *)
(* that works once, the link opens a session, and a session slides with    *)
(* use.  Links and sessions are numbered in the order they are made; the   *)
(* number stands for the secret, and anybody who ever saw one may present  *)
(* it again at any later time.                                             *)
(*                                                                         *)
(* opened is history: which link opened a session, and when each session   *)
(* was last honoured.                                                      *)
(***************************************************************************)
EXTENDS Integers, FiniteSets, Functions

CONSTANTS
    Emails,      \* addresses that may ask
    Records,     \* billing customers
    LinkTtl,     \* SIGNIN_TOKEN_TTL_MS
    LinkKept,    \* a day: how long an expired link keeps its row
    SessionTtl,  \* SESSION_TTL_MS
    Touch,       \* SESSION_TOUCH_MIN_INTERVAL_MS
    MaxLinks, MaxSessions, MaxNow   \* bounds

VARIABLES
    billed,      \* record -> its e-mail
    links,       \* the sign-in token file
    sessions,    \* the session file
    now,
    minted, made,\* secrets given out so far
    opened       \* session -> [link, seen, ended]

sessionVars == <<billed, links, sessions, now, minted, made, opened>>

None == "none"

NoFile == [x \in {} |-> None]

Init ==
    /\ billed \in [Records -> Emails \cup {None}]
    /\ links = NoFile /\ sessions = NoFile
    /\ now = 0 /\ minted = 0 /\ made = 0
    /\ opened = NoFile

Matches(e) == {r \in Records : billed[r] = e}

\* requestSignin and adminIssueLink: no billing record, no link.  A link whose
\* e-mail fails or is never sent is a link nobody presents.
MintLink(e) ==
    /\ Matches(e) # {}
    /\ minted < MaxLinks
    /\ minted' = minted + 1
    /\ LET kept == {l \in DOMAIN links : links[l].used = None /\ links[l].expires > now - LinkKept}
       IN  links' = [l \in kept \cup {minted'} |->
                       IF l = minted' THEN [owner |-> e, expires |-> now + LinkTtl, used |-> None]
                                      ELSE links[l]]
    /\ UNCHANGED <<billed, sessions, now, made, opened>>

Works(l) ==
    /\ l \in DOMAIN links
    /\ links[l].used = None
    /\ links[l].expires > now

Consume(l) == links' = [links EXCEPT ![l].used = "used"]

Live(s) ==
    /\ s \in DOMAIN sessions
    /\ ~sessions[s].revoked
    /\ sessions[s].expires > now

\* exchangeToken: the link is spent, then the session is written.
Exchange(l) ==
    /\ Works(l) /\ Consume(l)
    /\ made < MaxSessions
    /\ made' = made + 1
    /\ LET kept == {s \in DOMAIN sessions : Live(s)}
       IN  sessions' = [s \in kept \cup {made'} |->
                          IF s = made'
                          THEN [owner |-> links[l].owner, seen |-> now,
                                expires |-> now + SessionTtl, revoked |-> FALSE]
                          ELSE sessions[s]]
    /\ opened' = [s \in DOMAIN opened \cup {made'} |->
                    IF s = made' THEN [link |-> l, seen |-> now, ended |-> FALSE]
                                 ELSE opened[s]]
    /\ UNCHANGED <<billed, now, minted>>

\* The process ends, or the write fails, between the two files.
ExchangeLost(l) ==
    /\ Works(l) /\ Consume(l)
    /\ UNCHANGED <<billed, sessions, now, minted, made, opened>>

\* validateSession extends a session that was not touched for an hour.
Touched(s) ==
    IF now - sessions[s].seen > Touch
    THEN [sessions EXCEPT ![s].seen = now, ![s].expires = now + SessionTtl]
    ELSE sessions

Visit(s) ==
    /\ Live(s)
    /\ sessions' = Touched(s)
    /\ opened' = [opened EXCEPT ![s].seen = now]
    /\ UNCHANGED <<billed, links, now, minted, made>>

SignOut(s) ==
    /\ s \in DOMAIN sessions
    /\ ~sessions[s].revoked
    /\ sessions' = [sessions EXCEPT ![s].revoked = TRUE]
    /\ opened' = [opened EXCEPT ![s].ended = TRUE]
    /\ UNCHANGED <<billed, links, now, minted, made>>

\* Billing moves a record to another e-mail.
Rebill(r, e) ==
    /\ billed' = [billed EXCEPT ![r] = e]
    /\ UNCHANGED <<links, sessions, now, minted, made, opened>>

Tick ==
    /\ now < MaxNow
    /\ now' = now + 1
    /\ UNCHANGED <<billed, links, sessions, minted, made, opened>>

Next ==
    \/ \E e \in Emails : MintLink(e)
    \/ \E l \in 1..minted : Exchange(l) \/ ExchangeLost(l)
    \/ \E s \in 1..made : Visit(s) \/ SignOut(s)
    \/ \E r \in Records, e \in Emails : Rebill(r, e)
    \/ Tick

Spec == Init /\ [][Next]_sessionVars

-----------------------------------------------------------------------------
\* A link opens one session and never another, whatever is pruned from the
\* files; a session ends for good when its owner signs out; in use it lives on
\* and unused it ends: less than the lifetime minus the touch interval after
\* its last use it is honoured, a full lifetime after it is not.
SessionsAreEarned ==
    /\ IsInjective([s \in DOMAIN opened |-> opened[s].link])
    /\ \A s \in DOMAIN opened : opened[s].ended => ~Live(s)
    /\ \A s \in DOMAIN opened : ~opened[s].ended =>
         /\ now < opened[s].seen + SessionTtl - Touch => Live(s)
         /\ now >= opened[s].seen + SessionTtl => ~Live(s)
=============================================================================
