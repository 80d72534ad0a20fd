------------------------------ MODULE MarketCaps ------------------------------
(* The market-cap producer (marketcap/service.ts, budget.ts, store.ts,        *)
(* caps.ts, identity.ts): a pass re-reads the venues' catalogues and the      *)
(* provider's pair maps, prices the mapped coins in batches, and publishes    *)
(* one signed snapshot, or keeps the last one.  Every provider call costs a   *)
(* credit of a monthly ceiling, and a call may fail, be short, or be the last *)
(* thing the process does.                                                    *)
(*                                                                            *)
(* A symbol is its own coin; overrides, the secondary provider, the paces of  *)
(* calls and the texts of refusals are left out.                              *)
EXTENDS Naturals, FiniteSets

CONSTANTS Symbols,     \* what a venue may list
          First,       \* what every venue lists from the start
          NV,          \* venues, in the order they are read
          Ceiling,     \* monthlyCeiling
          PagesPlan,   \* AGREED_SCHEDULE.pairPagesPerExchange
          MaxPages,    \* pages of a pair map
          MapEvery, CapEvery, Ttl, Month, Ladder,  \* the schedule
          MaxNow       \* bound: the clock

Venues == 1 .. NV

VARIABLES now,
          listed, known,   \* the venues' books and the provider's: they only grow
          cats, pairs,     \* catalogues and pair maps held
          seen,            \* observedExchanges: "none", "ours", "other"
          pages,           \* pairPages
          facts,           \* capFacts: coin -> "verified" or "missing"
          lastMap, lastCaps, lastList,
          retries,         \* venue and symbol -> attempts; a retry is due at the next pass
          run,             \* the pass: busy, where it is, what it changed
          ledger, disk,    \* the credits, and their file
          clean,           \* the file holds every charge
          billed,          \* what the provider charged, per month
          served, file     \* the published snapshot, and its file

mcVars == <<now, listed, known, cats, pairs, seen, pages, facts, lastMap, lastCaps, lastList,
            retries, run, ledger, disk, clean, billed, served, file>>
world  == <<listed, known>>
held   == <<cats, pairs, seen, pages, facts, lastMap, lastCaps, lastList, retries>>
books  == <<ledger, disk, clean, billed>>
output == <<served, file>>

Never == 0     \* the clock starts at 1
NoRun == [pc |-> "idle"]
NoSnap == [at |-> Never]
MonthOf(t) == t \div Month
Rolled(l, t) == IF l.month = MonthOf(t) THEN l ELSE [month |-> MonthOf(t), used |-> 0]

McInit ==
    /\ now = 1
    /\ listed = [v \in Venues |-> First] /\ known = [v \in Venues |-> First]
    /\ cats = [v \in Venues |-> {}] /\ pairs = [v \in Venues |-> {}]
    /\ seen = [v \in Venues |-> "none"] /\ pages = [v \in Venues |-> PagesPlan]
    /\ facts = <<>> /\ lastMap = Never /\ lastCaps = Never /\ lastList = Never
    /\ retries = <<>> /\ run = NoRun
    /\ ledger = [month |-> 0, used |-> 0] /\ disk = ledger /\ clean = TRUE /\ billed = ledger
    /\ served = NoSnap /\ file = NoSnap

\* resolveUniverse(): an active instrument is mapped when the pair map names it.
Mapped(v) == cats[v] \cap pairs[v]
MappedIds == UNION {Mapped(v) : v \in Venues}

\* A mistake: the charge stays in memory and the disk is called up to date.
ChargeUnwritten(n) ==
    /\ ledger' = [Rolled(ledger, now) EXCEPT !.used = @ + n]
    /\ disk' = disk /\ clean' = TRUE

\* charge() and persistLedger(); a failed write is only reported.
Charge(n) ==
    /\ ledger' = [Rolled(ledger, now) EXCEPT !.used = @ + n]
    /\ \/ disk' = ledger' /\ clean' = TRUE
       \/ disk' = disk /\ clean' = FALSE

\* planRefresh(): a refresh that would cross the ceiling does not start.
Affords(n) == Rolled(ledger, now).used + n <= Ceiling
MapCost == (IF lastList = Never \/ now >= lastList + MapEvery THEN 2 ELSE 0)
           + (IF NV = 1 THEN pages[1] ELSE pages[1] + pages[2])

At(pc) == run.pc = pc

\* tick(): the mapping, or else a retry that is due, then the caps.
TickBegins ==
    /\ At("idle")
    /\ LET maps  == lastMap = Never \/ now >= lastMap + MapEvery
           goes(pc, v) == run' = [pc |-> pc, v |-> v, at |-> now, changed |-> FALSE, page |-> 0, todo |-> {}, got |-> <<>>]
       IN  IF maps THEN IF ~Affords(MapCost) THEN goes("caps", 0)
                        ELSE IF lastList = Never \/ now >= lastList + MapEvery THEN goes("list", 0)
                        ELSE goes("cat", 1)
           ELSE IF retries = <<>> THEN goes("caps", 0)
           ELSE \E k \in DOMAIN retries : goes(IF Affords(pages[k[1]]) THEN "retry" ELSE "caps", k[1])
    /\ UNCHANGED <<now, world, held, books, output>>

\* fetchDeps().spend(): the charge is made and saved before the call goes out.
Calls ==
    /\ run.pc \in {"list", "pairs", "retry", "quote"}
    /\ Charge(1)
    /\ billed' = [Rolled(billed, now) EXCEPT !.used = @ + 1]
    /\ run' = [run EXCEPT !.page = @ + 1, !.pc = CASE @ = "list" -> "listAsked" [] @ = "pairs" -> "pairsAsked"
                                                  [] @ = "retry" -> "retryAsked" [] OTHER -> "quoteAsked"]
    /\ UNCHANGED <<now, world, held, output>>

\* The list of exchanges: its failure is not fatal.
ListRead(ok, others) ==
    /\ At("listAsked")
    /\ seen' = IF ok THEN [v \in Venues |-> IF v \in others THEN "other" ELSE "ours"] ELSE seen
    /\ lastList' = IF ok THEN run.at ELSE lastList
    /\ run' = [run EXCEPT !.pc = "cat", !.v = 1, !.page = 0]
    /\ UNCHANGED <<now, world, cats, pairs, pages, facts, lastMap, lastCaps, retries, books, output>>

\* refreshPairsFor() begins; a slug known to name another exchange is not read.
PairsNext(r, v) ==
    IF seen[v] # "other" THEN [r EXCEPT !.pc = "pairs", !.page = 0]
    ELSE [r EXCEPT !.pc = IF v = NV THEN "mapped" ELSE "cat", !.v = IF v = NV THEN v ELSE v + 1]

\* A catalogue: a read that fails, or one that lost symbols, keeps the last.
CatalogueRead(got) ==
    /\ At("cat")
    /\ LET v  == run.v
           ok == got # {} /\ cats[v] \subseteq got
           fresh == IF cats[v] = {} THEN {} ELSE got \ cats[v]
           keys == {<<v, s>> : s \in fresh} \ DOMAIN retries
       IN  /\ got \subseteq listed[v]
           /\ cats' = IF ok THEN [cats EXCEPT ![v] = got] ELSE cats
           /\ retries' = IF ~ok THEN retries
                         ELSE [k \in DOMAIN retries \cup keys |->
                                  IF k \in keys THEN 0 ELSE retries[k]]
           /\ run' = PairsNext([run EXCEPT !.changed = @ \/ ok], v)
    /\ UNCHANGED <<now, world, pairs, seen, pages, facts, lastMap, lastCaps, lastList, books, output>>

\* A page of the pair map: more follow, or the map is whole, or it is kept as
\* it was because the call failed or the rows are fewer than the count.
After(v) == IF v = NV THEN "mapped" ELSE "cat"
PairsRead(more, whole) ==
    /\ run.pc \in {"pairsAsked", "retryAsked"}
    /\ more => run.page < MaxPages
    /\ LET v    == run.v
           solo == At("retryAsked")
       IN  IF more
           THEN /\ run' = [run EXCEPT !.pc = IF solo THEN "retry" ELSE "pairs"]
                /\ UNCHANGED <<pairs, pages>>
           ELSE /\ pairs' = IF whole THEN [pairs EXCEPT ![v] = known[v]] ELSE pairs
                /\ pages' = IF whole THEN [pages EXCEPT ![v] = run.page] ELSE pages
                /\ run' = [run EXCEPT !.pc = IF solo THEN "retried" ELSE After(v), !.page = 0,
                                      !.v = IF solo \/ v = NV THEN v ELSE v + 1,
                                      !.changed = (@ \/ whole)]
    /\ UNCHANGED <<now, world, cats, seen, facts, lastMap, lastCaps, lastList, retries, books, output>>

MappingEnds ==
    /\ At("mapped")
    /\ lastMap' = run.at
    /\ run' = [run EXCEPT !.pc = "caps"]
    /\ UNCHANGED <<now, world, cats, pairs, seen, pages, facts, lastCaps, lastList, retries, books, output>>

\* The rest of runRetry(): all that waited on the venue advance together.
RetryEnds ==
    /\ At("retried")
    /\ LET tried == {k \in DOMAIN retries : k[1] = run.v}
           gone(k) == (run.changed /\ (k[2] \in Mapped(k[1]) \/ k[2] \notin cats[k[1]])) \/ retries[k] + 1 >= Ladder
       IN  retries' = [k \in {j \in DOMAIN retries : j \notin tried \/ ~gone(j)} |->
                          retries[k] + IF k \in tried THEN 1 ELSE 0]
    /\ run' = [run EXCEPT !.pc = "caps"]
    /\ UNCHANGED <<now, world, cats, pairs, seen, pages, facts, lastMap, lastCaps, lastList, books, output>>

\* refreshCaps(): when due, affordable and not empty, one batch after another.
CapsBegin ==
    /\ At("caps")
    /\ LET due == lastCaps = Never \/ now >= lastCaps + CapEvery
       IN  /\ lastCaps' = IF due /\ MappedIds = {} THEN now ELSE lastCaps
           /\ run' = IF due /\ MappedIds # {} /\ Affords(Cardinality(MappedIds))
                     THEN [run EXCEPT !.pc = "quote", !.page = 0, !.todo = MappedIds, !.at = now]
                     ELSE [run EXCEPT !.pc = "publish"]
    /\ UNCHANGED <<now, world, cats, pairs, seen, pages, facts, lastMap, lastList, retries, books, output>>

\* A batch of one: a coin the provider left out is missing, a failed batch
\* keeps what was known, and settle() charges what was billed beyond the plan.
Asked(todo) == CHOOSE s \in todo : TRUE
QuoteRead(answer, extra) ==
    /\ At("quoteAsked") /\ run.todo # {}
    /\ LET s    == Asked(run.todo)
           fact == IF answer # "failed" THEN answer ELSE IF s \in DOMAIN facts THEN facts[s] ELSE "missing"
           left == run.todo \ {s}
           got  == [t \in DOMAIN run.got \cup {s} |-> IF t = s THEN fact ELSE run.got[t]]
       IN  /\ facts' = IF left = {} THEN got ELSE facts
           /\ lastCaps' = IF left = {} THEN run.at ELSE lastCaps
           /\ run' = IF left = {} THEN [run EXCEPT !.pc = "publish", !.todo = {}, !.got = <<>>, !.changed = TRUE]
                     ELSE [run EXCEPT !.pc = "quote", !.todo = left, !.got = got]
    /\ IF extra /\ answer # "failed"
       THEN Charge(1) /\ billed' = [Rolled(billed, now) EXCEPT !.used = @ + 1]
       ELSE UNCHANGED books
    /\ UNCHANGED <<now, world, cats, pairs, seen, pages, lastMap, lastList, retries, output>>

\* publish(): rows for every instrument, a verdict for every mapped coin, one
\* write, and only then the pointer that is served.
Snapshot == [at |-> now, until |-> now + Ttl, rows |-> [v \in Venues |-> cats[v]], mapped |-> [v \in Venues |-> Mapped(v)],
             caps |-> [s \in MappedIds |-> IF s \in DOMAIN facts THEN facts[s] ELSE "missing"]]
Republish == served # NoSnap /\ now + 1 > served.until
Publish(written) ==
    /\ At("publish")
    /\ LET goes == (run.changed \/ Republish) /\ \E v \in Venues : cats[v] # {}
       IN  /\ file' = IF goes /\ written THEN Snapshot ELSE file
           /\ served' = IF goes /\ written THEN Snapshot ELSE served
    /\ run' = NoRun
    /\ UNCHANGED <<now, world, held, books>>

\* A crash keeps the files; one after the write keeps the new snapshot.
Restart(written) ==
    /\ written => At("publish") /\ run.changed /\ \E v \in Venues : cats[v] # {}
    /\ file' = IF written THEN Snapshot ELSE file
    /\ served' = file'
    /\ ledger' = disk /\ clean' = TRUE
    /\ billed' = IF clean THEN billed ELSE disk
    /\ cats' = [v \in Venues |-> {}] /\ pairs' = [v \in Venues |-> {}]
    /\ seen' = [v \in Venues |-> "none"] /\ pages' = [v \in Venues |-> PagesPlan]
    /\ facts' = <<>> /\ lastMap' = Never /\ lastCaps' = Never /\ lastList' = Never
    /\ retries' = <<>> /\ run' = NoRun
    /\ UNCHANGED <<now, world, disk>>

\* The clock; a venue lists a symbol, and later the provider maps it.
Tick ==
    /\ now < MaxNow
    /\ now' = now + 1
    /\ UNCHANGED <<world, held, run, books, output>>

Lists(v, s) ==
    /\ s \in Symbols \ known[v]
    /\ IF s \in listed[v] THEN known' = [known EXCEPT ![v] = @ \cup {s}] /\ UNCHANGED listed
       ELSE listed' = [listed EXCEPT ![v] = @ \cup {s}] /\ UNCHANGED known
    /\ UNCHANGED <<now, held, run, books, output>>

McNext ==
    \/ TickBegins \/ Calls \/ MappingEnds \/ RetryEnds \/ CapsBegin \/ Tick
    \/ \E ok \in BOOLEAN : Publish(ok) \/ Restart(ok)
    \/ \E ok \in BOOLEAN, others \in SUBSET Venues : ListRead(ok, others)
    \/ \E got \in SUBSET Symbols : CatalogueRead(got)
    \/ \E more, whole \in BOOLEAN : PairsRead(more, whole)
    \/ \E answer \in {"verified", "missing", "failed"}, extra \in BOOLEAN : QuoteRead(answer, extra)
    \/ \E v \in Venues, s \in Symbols : Lists(v, s)

McSpec == McInit /\ [][McNext]_mcVars
-----------------------------------------------------------------------------
\* Whatever fails or crashes: the ledger of the month holds every credit the
\* provider charged, as long as its file could be written; and in what is served
\* a mapped coin always has a verdict, after a restart from the file too.
CapsAreHonest ==
    /\ billed.month = ledger.month => billed.used <= ledger.used
    /\ served # NoSnap => \A v \in Venues : served.mapped[v] \subseteq DOMAIN served.caps \cap served.rows[v]

\* The books only grow here, so a row that was mapped stays mapped: "a snapshot
\* is published WHOLE AND VALIDATED, or the previous one keeps serving".
WholeOrPrevious ==
    [][served # NoSnap /\ served' # NoSnap => \A v \in Venues : served.mapped[v] \subseteq served'.mapped[v]]_mcVars
=============================================================================
