------------------------------ MODULE Releases ------------------------------
(* Publishing a release (bin/publish-release.ts, release-controls.ts) and     *)
(* serving it (release-routing.ts, the channel routes of server.ts).          *)
(* A publication writes the control state and the latest pointer of its shelf *)
(* behind a pending marker.  Every write may fail, before or after it took    *)
(* effect, and the publisher may die anywhere; the next one recovers.         *)
(*                                                                            *)
(* Manifests are verified and signed offline: a build is its version and its  *)
(* bytes.  Evidence of tests, health and rollback is a fact about a build.    *)
EXTENDS Integers, FiniteSets

CONSTANTS Builds,         \* <<version, bytes>>
          Soak,           \* time a Beta stays unchanged before its promotion
          MaxTime, MaxRuns, MaxFaults   \* bounds: time, publications, faults

VARIABLES now,
          control,        \* beta, betaAt, production, hold
          latest,         \* latest.json of each shelf
          shelf,          \* artifacts with their archived manifests
          marker,         \* the pending publication
          lock,           \* the publisher's lock file is there
          run,            \* the publisher: step, channel, build, what it works with
          runs, faults,
          evidence,       \* builds with passing evidence and a rollback target
          bugs,           \* versions with unresolved bug reports
          installed,      \* what a customer runs
          stood           \* builds whose Beta publication was finished, by hand or by recovery

vars == <<now, control, latest, shelf, marker, lock, run, runs, faults, evidence,
          bugs, installed, stood>>

Channels == {"beta", "production"}
None == <<0, 0>>
NoMarker == [channel |-> "none"]
NoRun == [pc |-> "none"]

Init ==
    /\ now = 0 /\ control = [beta |-> None, betaAt |-> 0, production |-> None, hold |-> FALSE]
    /\ latest = [c \in Channels |-> None] /\ shelf = [c \in Channels |-> {}]
    /\ marker = NoMarker /\ lock = FALSE /\ run = NoRun /\ runs = 0 /\ faults = 0
    /\ evidence \in SUBSET Builds /\ bugs = {} /\ installed = None /\ stood = {}

Files == <<control, latest, shelf, marker>>
World == <<now, evidence, bugs, installed>>

Goes(pc) == run' = [run EXCEPT !.pc = pc]
Finished(c, b) == stood' = IF c = "beta" THEN stood \cup {b} ELSE stood

\* A publisher takes the lock; one left by a dead publisher is removed by hand.
Start(c, b) ==
    /\ run = NoRun /\ ~lock /\ runs < MaxRuns
    /\ lock' = TRUE /\ runs' = runs + 1
    /\ run' = [pc |-> "recover", channel |-> c, build |-> b]
    /\ UNCHANGED <<Files, World, faults, stood>>
RemoveStaleLock ==
    /\ run = NoRun /\ lock /\ lock' = FALSE
    /\ UNCHANGED <<Files, World, run, runs, faults, stood>>

\* recoverPendingReleasePublication(): complete, roll back, or refuse.
Recover ==
    /\ run.pc = "recover"
    /\ \/ /\ marker = NoMarker /\ Goes("check") /\ UNCHANGED <<control, marker, stood>>
       \/ /\ marker # NoMarker /\ marker.channel = run.channel
          /\ LET live == latest[run.channel] IN
              \/ /\ live = marker.target /\ control = marker.next
                 /\ live \in shelf[run.channel]
                 /\ marker' = NoMarker /\ Goes("check") /\ Finished(run.channel, live) /\ UNCHANGED control
              \/ /\ live = marker.prior /\ control \in {marker.before, marker.next}
                 /\ ~(live = marker.target /\ control = marker.next)
                 /\ control' = marker.before /\ marker' = NoMarker /\ Goes("check")
                 /\ UNCHANGED stood
    /\ UNCHANGED <<latest, shelf, lock, World, runs, faults>>
Recoverable ==
    LET live == latest[run.channel] IN
    \/ marker = NoMarker
    \/ /\ marker.channel = run.channel
       /\ \/ live = marker.target /\ control = marker.next
          \/ live = marker.prior /\ control \in {marker.before, marker.next}
Refused ==
    /\ run.pc = "recover" /\ ~Recoverable
    /\ Goes("end") /\ UNCHANGED <<Files, lock, World, runs, faults, stood>>

\* evaluateProductionPromotion() on the Beta shelf as it is now.
Eligible(b) ==
    /\ ~control.hold /\ control.beta = b /\ latest["beta"] = b
    /\ now - control.betaAt >= Soak
    /\ b \in evidence /\ b[1] \notin bugs

\* recordBetaPublication(): the same build keeps its publication time.
Heads(c, b) ==
    IF c = "beta"
    THEN [control EXCEPT !.beta = b, !.betaAt = IF control.beta = b THEN @ ELSE now]
    ELSE [control EXCEPT !.production = b]

\* Artifact and manifest are installed first and never replaced; then the marker.
Prepare ==
    /\ run.pc = "check"
    /\ IF run.channel = "production" /\ ~Eligible(run.build)
       THEN Goes("end") /\ UNCHANGED <<shelf, marker>>
       ELSE /\ shelf' = [shelf EXCEPT ![run.channel] = @ \cup {run.build}]
            /\ marker' = [channel |-> run.channel, prior |-> latest[run.channel], before |-> control,
                          target |-> run.build, next |-> Heads(run.channel, run.build)]
            /\ run' = [pc |-> "control", channel |-> run.channel, build |-> run.build, undo |-> marker']
    /\ UNCHANGED <<control, latest, lock, World, runs, faults, stood>>

\* A write of the commit or of its rollback: done, or failed before or after it
\* took effect.  A failed removal leaves the marker in place.
Step(done, ok, bad) ==
    \/ done /\ Goes(ok) /\ UNCHANGED faults
    \/ /\ faults < MaxFaults /\ faults' = faults + 1
       /\ Goes(bad) /\ (done \/ UNCHANGED <<Files, stood>>)
Puts(ctl, ptr) ==
    /\ control' = ctl /\ latest' = [latest EXCEPT ![run.channel] = ptr]
    /\ UNCHANGED <<shelf, marker, stood>>
Removes(ok, bad) ==
    \/ /\ marker' = NoMarker /\ Goes(ok) /\ UNCHANGED <<control, latest, shelf, faults>>
       /\ IF ok # bad THEN Finished(run.channel, run.build) ELSE UNCHANGED stood
    \/ /\ faults < MaxFaults /\ faults' = faults + 1 /\ Goes(bad) /\ UNCHANGED <<Files, stood>>
Still == UNCHANGED <<lock, World, runs>>

\* A mistake: the control file is put together from itself and not from the undo.
RestoreFromControl ==
    run.pc = "undoControl" /\ Step(Puts(control, latest[run.channel]), "unmark", "end") /\ Still

WriteControl   == run.pc = "control" /\ Step(Puts(run.undo.next, latest[run.channel]), "pointer", "undoPointer") /\ Still
ReplaceLatest  == run.pc = "pointer" /\ Step(Puts(control, run.build), "verify", "undoPointer") /\ Still
Verify         == run.pc = "verify" /\ Step(UNCHANGED <<Files, stood>>, "remove", "undoPointer") /\ Still
RemoveMarker   == run.pc = "remove" /\ Removes("end", "undoPointer") /\ Still
RestorePointer == run.pc = "undoPointer" /\ Step(Puts(control, run.undo.prior), "undoControl", "undoControlKeep") /\ Still
RestoreControl == run.pc = "undoControl" /\ Step(Puts(run.undo.before, latest[run.channel]), "unmark", "end") /\ Still
RestoreAnyway  == run.pc = "undoControlKeep" /\ Step(Puts(run.undo.before, latest[run.channel]), "end", "end") /\ Still
Unmark         == run.pc = "unmark" /\ Removes("end", "end") /\ Still

\* The lock goes last; a dead publisher leaves it.
End == run.pc = "end" /\ run' = NoRun /\ lock' = FALSE /\ UNCHANGED <<Files, World, runs, faults, stood>>
Dies ==
    /\ run # NoRun /\ faults < MaxFaults /\ faults' = faults + 1
    /\ run' = NoRun /\ UNCHANGED <<Files, World, lock, runs, stood>>

-----------------------------------------------------------------------------
(* Around it: time, the operator's hold while nobody publishes, bug reports,  *)
(* and a customer asking for a release of a channel.                          *)
Tick ==
    /\ now < MaxTime /\ now' = now + 1
    /\ UNCHANGED <<Files, lock, run, runs, faults, evidence, bugs, installed, stood>>
SetHold ==
    /\ run = NoRun /\ marker = NoMarker /\ control' = [control EXCEPT !.hold = ~@]
    /\ UNCHANGED <<latest, shelf, marker, lock, run, World, runs, faults, stood>>
Bug(b) ==
    /\ bugs' = bugs \cup {b[1]} /\ bugs' # bugs
    /\ UNCHANGED <<Files, lock, run, runs, faults, now, evidence, installed, stood>>

\* readChannelReleaseFile(): nothing is served whose bytes are not on the shelf.
Served(c) == latest[c] # None /\ latest[c] \in shelf[c]
\* productionTransition(), and the forward-only updater of a Beta customer.
Forward(b) == installed = None \/ b[1] > installed[1] \/ b = installed
Update(c) ==
    /\ Served(c) /\ Forward(latest[c]) /\ installed' = latest[c]
    /\ UNCHANGED <<Files, lock, run, runs, faults, now, evidence, bugs, stood>>

Next ==
    \/ RemoveStaleLock \/ Recover \/ Refused \/ Prepare
    \/ WriteControl \/ ReplaceLatest \/ Verify \/ RemoveMarker
    \/ RestorePointer \/ RestoreControl \/ RestoreAnyway \/ Unmark \/ End \/ Dies
    \/ Tick \/ SetHold
    \/ \E b \in Builds : Bug(b) \/ \E c \in Channels : Start(c, b)
    \/ \E c \in Channels : Update(c)

Spec == Init /\ [][Next]_vars
-----------------------------------------------------------------------------
\* Wherever a publication failed or died: without a marker both files agree; a
\* pointer leads to bytes on its shelf; Production is a build whose own Beta
\* publication was finished, and that has evidence.
PublicationIsWhole ==
    /\ marker = NoMarker => control.beta = latest["beta"] /\ control.production = latest["production"]
    /\ \A c \in Channels : latest[c] # None => Served(c)
    /\ latest["production"] # None => latest["production"] \in stood \cap evidence
=============================================================================
