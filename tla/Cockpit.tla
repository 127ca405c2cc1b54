------------------------------ MODULE Cockpit ------------------------------
(***************************************************************************)
(* From the vault on the chain to the number in the cockpit: the route     *)
(* /api/vault with its in-process cache (lib/rpc-route-cache.ts), the      *)
(* poller in each viewer's page (hooks/usePoller.ts) and the status chip   *)
(* of VaultOverviewPanel.tsx.  The state of the vault is a version number  *)
(* that only grows; gone[v] tells for how long version v has been out of   *)
(* date.  The route /api/reputation and its panel work the same way.       *)
(* Time passes in ticks; the durations are the code's, in ticks.           *)
(***************************************************************************)
EXTENDS Integers, FiniteSetsExt

CONSTANTS
    Viewers,        \* open pages
    Reads,          \* bound: reads of the node under way at once
    MaxVersion,     \* bound: changes of the vault
    Paused,         \* the versions in which the vault is paused
    PollEvery,      \* SLOW_POLL_MS
    CacheTtl,       \* CACHE_TTL_MS
    StaleAfter,     \* age at which the chip turns STALE
    FetchTimeout,   \* FETCH_TIMEOUT_MS, rounded up
    ReadTime,       \* the node answers or fails within this time
    DemoRuns        \* bound: demo runs a page hears of, 0 outside demo mode

CockpitAssumption ==
    /\ {PollEvery, CacheTtl, StaleAfter, FetchTimeout, ReadTime} \subseteq Nat \ {0}
    /\ MaxVersion \in Nat /\ DemoRuns \in Nat /\ Paused \subseteq 0..MaxVersion

VARIABLES
    chain,          \* the version on the chain
    gone,
    cache,          \* the route's cache entry: its version and time to live
    reads,          \* reads of the node by the route
    page,           \* each viewer's poller
    failed          \* history: for how long no read has failed other than by a 429

vars == <<chain, gone, cache, reads, page, failed>>

Versions == 0..MaxVersion
Nothing == -1       \* no data yet
Zeros == -2         \* the route's fallback body
Cap == ReadTime + CacheTtl + StaleAfter + 2
NoViewer == "none"

Idle == [busy |-> FALSE, for |-> NoViewer, seen |-> Nothing, age |-> 0]
NewPage == [shown |-> Nothing, warned |-> FALSE, error |-> FALSE,
            age |-> 0, next |-> PollEvery, inFlight |-> FALSE, waited |-> 0, mounted |-> FALSE, runs |-> 0]

TypeOK ==
    /\ chain \in Versions
    /\ gone \in [Versions -> 0..Cap]
    /\ cache \in [version : Versions \union {Nothing}, ttl : 0..CacheTtl]
    /\ reads \in [Reads -> [busy : BOOLEAN, for : Viewers \union {NoViewer},
                            seen : Versions \union {Nothing}, age : 0..ReadTime]]
    /\ page \in [Viewers -> [shown : Versions \union {Nothing, Zeros}, warned : BOOLEAN,
                             error : BOOLEAN, age : 0..(StaleAfter + 1), next : 0..PollEvery,
                             inFlight : BOOLEAN, waited : 0..FetchTimeout, mounted : BOOLEAN,
                             runs : 0..DemoRuns]]
    /\ failed \in 0..(StaleAfter + 1)

Init ==
    /\ chain = 0
    /\ gone = [v \in Versions |-> 0]
    /\ cache = [version |-> Nothing, ttl |-> 0]
    /\ reads = [r \in Reads |-> Idle]
    /\ page = [v \in Viewers |-> NewPage]
    /\ failed = StaleAfter + 1

-----------------------------------------------------------------------------

\* getRouteCache
Cached == cache.ttl > 0

\* The poller takes an answer: data, no error, lastUpdatedMs = now.
Delivered(p, value, limited) ==
    [p EXCEPT !.shown = value, !.warned = limited, !.error = FALSE,
              !.age = 0, !.inFlight = FALSE, !.waited = 0]

\* A poller that renews lastUpdatedMs after a failure as well.
Failed_LooksFresh(p) == [p EXCEPT !.error = TRUE, !.age = 0, !.inFlight = FALSE, !.waited = 0]

\* A poller without the "finally" that clears inFlightRef.
Failed_StaysInFlight(p) == [p EXCEPT !.error = TRUE, !.waited = 0]

\* A failed refresh leaves the data and lastUpdatedMs.
Failed(p) == [p EXCEPT !.error = TRUE, !.inFlight = FALSE, !.waited = 0]

\* doFetch and the route: nothing while a request is in flight; the cached
\* body at once; otherwise a read of the node.
Fetch(v, p) ==
    IF p.inFlight
    THEN page' = [page EXCEPT ![v] = p] /\ UNCHANGED reads
    ELSE IF Cached
    THEN page' = [page EXCEPT ![v] = Delivered(p, cache.version, FALSE)] /\ UNCHANGED reads
    ELSE \E r \in Reads :
            /\ ~reads[r].busy
            /\ reads' = [reads EXCEPT ![r] = [Idle EXCEPT !.busy = TRUE, !.for = v]]
            /\ page' = [page EXCEPT ![v] = [p EXCEPT !.inFlight = TRUE]]

Mount(v) ==
    /\ ~page[v].mounted
    /\ Fetch(v, [page[v] EXCEPT !.mounted = TRUE])
    /\ UNCHANGED <<chain, gone, cache, failed>>

Poll(v) ==
    /\ page[v].mounted /\ page[v].next = 0
    /\ Fetch(v, [page[v] EXCEPT !.next = PollEvery])
    /\ UNCHANGED <<chain, gone, cache, failed>>

\* A trigger of the agent makes the page fetch at once (CockpitGrid).  Of a
\* demo run that acted it also credits a simulated yield to the number on the
\* screen, which no poll takes back (balanceDeltaMotes).
Refetch(v) ==
    /\ page[v].mounted
    /\ \E more \in {0, 1} :
        /\ page[v].runs + more <= DemoRuns
        /\ Fetch(v, [page[v] EXCEPT !.runs = @ + more])
    /\ UNCHANGED <<chain, gone, cache, failed>>

\* The node answers with the state of this moment.
NodeAnswers(r) ==
    /\ reads[r].busy /\ reads[r].seen = Nothing
    /\ reads' = [reads EXCEPT ![r].seen = chain]
    /\ UNCHANGED <<chain, gone, cache, page, failed>>

\* The viewer of read r is still waiting for it.
Answer(r, value, limited) ==
    page' = [v \in Viewers |-> IF v = reads[r].for THEN Delivered(page[v], value, limited)
                               ELSE page[v]]

\* setRouteCache and the response
ReadEnds(r) ==
    /\ reads[r].busy /\ reads[r].seen # Nothing
    /\ cache' = [version |-> reads[r].seen, ttl |-> CacheTtl]
    /\ Answer(r, reads[r].seen, FALSE)
    /\ reads' = [reads EXCEPT ![r] = Idle]
    /\ UNCHANGED <<chain, gone, failed>>

\* The read fails: the fallback body with status 200; nothing is cached.  Only
\* a 429 is told to the page as "rate_limited".
ReadFails(r) ==
    /\ reads[r].busy
    /\ \E limited \in BOOLEAN :
        /\ Answer(r, Zeros, limited)
        /\ failed' = IF limited THEN failed ELSE 0
    /\ reads' = [reads EXCEPT ![r] = Idle]
    /\ UNCHANGED <<chain, gone, cache>>

\* The request fails in the page, or FETCH_TIMEOUT_MS is over; the route's
\* read goes on.
RequestFails(v) ==
    /\ page[v].inFlight
    /\ page' = [page EXCEPT ![v] = Failed(@)]
    /\ reads' = [r \in Reads |-> IF reads[r].for = v THEN [reads[r] EXCEPT !.for = NoViewer]
                                 ELSE reads[r]]
    /\ UNCHANGED <<chain, gone, cache, failed>>

ChainChanges ==
    /\ chain < MaxVersion
    /\ chain' = chain + 1
    /\ UNCHANGED <<gone, cache, reads, page, failed>>

\* Timers and timeouts are over before more time passes.
Tick ==
    /\ \A v \in Viewers :
        page[v].mounted /\ page[v].next > 0 /\ page[v].waited < FetchTimeout
    /\ \A r \in Reads : reads[r].age < ReadTime
    /\ failed' = Min({failed + 1, StaleAfter + 1})
    /\ gone' = [v \in Versions |-> IF v < chain THEN Min({gone[v] + 1, Cap}) ELSE 0]
    /\ cache' = [cache EXCEPT !.ttl = Max({@ - 1, 0})]
    /\ reads' = [r \in Reads |-> IF reads[r].busy THEN [reads[r] EXCEPT !.age = @ + 1] ELSE Idle]
    /\ page' = [v \in Viewers |-> [page[v] EXCEPT !.age = Min({@ + 1, StaleAfter + 1}),
                                                  !.next = @ - 1,
                                                  !.waited = IF page[v].inFlight THEN @ + 1 ELSE 0]]
    /\ UNCHANGED chain

Next ==
    \/ Tick \/ ChainChanges
    \/ \E v \in Viewers : Mount(v) \/ Poll(v) \/ Refetch(v) \/ RequestFails(v)
    \/ \E r \in Reads : NodeAnswers(r) \/ ReadEnds(r) \/ ReadFails(r)

Spec == Init /\ [][Next]_vars

\* The page's timers fire, time passes, and the node does not fail every time.
FairSpec ==
    /\ Spec
    /\ WF_vars(Tick)
    /\ \A v \in Viewers :
        /\ WF_vars(Mount(v)) /\ WF_vars(Poll(v))
        /\ WF_vars(page[v].waited = FetchTimeout /\ RequestFails(v))
    /\ \A r \in Reads :
        /\ SF_vars(reads[r].for # NoViewer /\ NodeAnswers(r))
        /\ SF_vars(reads[r].for # NoViewer /\ ReadEnds(r))
        /\ WF_vars(NodeAnswers(r)) /\ WF_vars(ReadEnds(r))
        /\ WF_vars(reads[r].age = ReadTime /\ ReadFails(r))

-----------------------------------------------------------------------------
\* vaultStatus of VaultOverviewPanel
Chip(p) ==
    IF p.shown \in Paused THEN "paused"
    ELSE IF p.warned \/ p.age > StaleAfter \/ p.shown = Nothing THEN "stale"
    ELSE "live"

(* What a LIVE chip stands over, however requests, timeouts and cached     *)
(* answers fall: a state that was the vault's not longer ago than a read,  *)
(* the cache and the age at which the chip turns STALE allow together; or  *)
(* the zeros of the route's fallback, and then a read failed, other than   *)
(* by a 429, not longer ago than that age.  Nothing else, no 429 and no    *)
(* fallback out of a cache.  The number on the screen is this state's      *)
(* balance plus the simulated yield of the page's demo runs.               *)
LiveIsRecent ==
    \A v \in Viewers :
        Chip(page[v]) = "live" =>
            \/ /\ page[v].shown \in Versions
               /\ gone[page[v].shown] <= ReadTime + CacheTtl + StaleAfter
            \/ page[v].shown = Zeros /\ failed <= StaleAfter

(* A page waits for at most one read, and only while it has a request in   *)
(* flight: a given-up answer reaches nobody.                               *)
AnswersAreAwaited ==
    /\ \A r \in Reads : reads[r].for # NoViewer => page[reads[r].for].inFlight
    /\ \A r, s \in Reads : (reads[r].for = reads[s].for /\ r # s) => reads[r].for = NoViewer

(* When the vault no longer changes and the node does not fail every time, *)
(* every page comes to show the vault as it is.                            *)
PagesCatchUp == \A v \in Viewers : []<>(page[v].shown = chain)
=============================================================================
