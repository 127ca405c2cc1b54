------------------------------- MODULE Panels -------------------------------
(* The panels of the dashboard that show live figures, with the routes       *)
(* behind them: the vault's figures (Cockpit), the button that starts a run  *)
(* (TriggerButton), the oracle's data (OracleView) and the agent's decisions *)
(* (DecisionFeed).  They poll for themselves and share no state, so a        *)
(* behaviour runs one of them.                                               *)
EXTENDS Integers, Sequences

CONSTANTS
    Parts,              \* what the behaviours run
    Viewers, Reads, MaxVersion, Paused,                             \* Cockpit
    PollEvery, CacheTtl, StaleAfter, FetchTimeout, ReadTime, DemoRuns,
    Posts, Demo,                                                    \* TriggerButton
    Payments, Seeds, MaxEnds,                                       \* OracleView
    Shown, Limits, MaxDecisions, MaxOld                             \* DecisionFeed

VARIABLES
    part,                                                       \* what this behaviour runs
    chain, gone, cache, reads, page, failed,                    \* Cockpit
    state, resets, heard, asked, post, agent, feed,             \* TriggerButton
    up, ends, latest, stage, lines, torn, receipts, demo, poll, panel,      \* OracleView
    file, open, writes, seeding, clock, answers, polled, error, local, records      \* DecisionFeed

cockpitVars == <<chain, gone, cache, reads, page, failed>>
buttonVars == <<state, resets, heard, asked, post, agent, feed>>
oracleVars == <<up, ends, latest, stage, lines, torn, receipts, demo, poll, panel>>
feedVars == <<file, open, writes, seeding, clock, answers, polled, error, local, records>>
panelVars == <<cockpitVars, buttonVars, oracleVars, feedVars>>

C == INSTANCE Cockpit

T == INSTANCE TriggerButton WITH known <- heard

O == INSTANCE OracleView WITH
        MayTear <- FALSE,
        open <- torn, logged <- receipts, script <- demo, page <- panel

\* The same with an oracle that may end in the middle of an append.
E == INSTANCE OracleView WITH
        MayTear <- TRUE,
        open <- torn, logged <- receipts, script <- demo, page <- panel

F == INSTANCE DecisionFeed WITH DemoMode <- FALSE

\* The same in demo mode.
D == INSTANCE DecisionFeed WITH DemoMode <- TRUE

ASSUME PanelsAssumption ==
    /\ C!CockpitAssumption /\ T!TriggerAssumption
    /\ O!OracleViewAssumption /\ E!OracleViewAssumption
    /\ F!FeedAssumption /\ D!FeedAssumption

\* A panel that does not run stays as it begins.
PanelsInit ==
    /\ part \in Parts
    /\ C!Init /\ T!Init /\ O!Init /\ F!Init
    /\ part # "button" => agent.up
    /\ part \notin {"feed", "demo"} => file = <<>>

CockpitRuns == part = "cockpit" /\ C!Next /\ UNCHANGED <<buttonVars, oracleVars, feedVars>>

ButtonRuns == part = "button" /\ T!Next /\ UNCHANGED <<cockpitVars, oracleVars, feedVars>>

OracleRuns ==
    /\ (part = "oracle" /\ O!Next) \/ (part = "tear" /\ E!Next)
    /\ UNCHANGED <<cockpitVars, buttonVars, feedVars>>

FeedRuns ==
    /\ (part = "feed" /\ F!Next) \/ (part = "demo" /\ D!Next)
    /\ UNCHANGED <<cockpitVars, buttonVars, oracleVars>>

PanelsNext == (CockpitRuns \/ ButtonRuns \/ OracleRuns \/ FeedRuns) /\ UNCHANGED part

PanelsSpec == PanelsInit /\ [][PanelsNext]_<<part, panelVars>>

-----------------------------------------------------------------------------
\* The vault's figures on the cockpit: under a LIVE chip stands a state no older than
\* read, cache and chip allow, or the zeros of a recent failure that was no 429; and a
\* page waits for one read at most, with its request in flight (usePoller.ts,
\* rpc-route-cache.ts, api/vault/route.ts).
CockpitIsTrue == part = "cockpit" => C!TypeOK /\ C!LiveIsRecent /\ C!AnswersAreAwaited

\* A click the agent refused has started no run and will start none; only a click whose
\* own request failed leaves that open (TriggerAgentRunButton.tsx, api/trigger/route.ts,
\* trigger-server.ts).
ButtonIsTrue == part = "button" => T!TypeOK /\ T!RefusedStartsNothing

\* The oracle's panel: the receipt on the screen has its line in payments.jsonl as long
\* as no append was torn, and the notice tells where the data come from.
OraclePanelIsTrue ==
    /\ part = "oracle" => O!TypeOK /\ O!ShownReceiptIsLogged /\ O!NoticeTellsTheSource
    /\ part = "tear" => E!TypeOK /\ E!NoticeTellsTheSource

\* The panels over the logs: the page of decisions is a stretch of the log, backwards and
\* without a gap, unless the log was cleared since; in demo mode a page with an answer is never blank, and the oracle's
\* panel is true.
LogPanelsAreTrue ==
    /\ part = "feed" => F!TypeOK /\ F!FeedFollowsLog
    /\ part = "demo" => D!TypeOK /\ D!NeverBlank
    /\ OraclePanelIsTrue
=============================================================================
