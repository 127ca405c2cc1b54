------------------------------ MODULE MCAround ------------------------------
(* What stands around the agent, on small instances for TLC: the panels of   *)
(* the dashboard (Panels) and the processes beside the agent (Processes).    *)
(* They share no state, so a behaviour runs one of them.                     *)
EXTENDS Panels, Processes

aroundVars == <<part, panelVars, processVars>>

\* A part that does not run stays as it begins.
AroundInit ==
    /\ PanelsInit
    /\ M!Init /\ P!Init /\ S!Init
    /\ part # "deploy" => \A b \in Balances : b <= money
    /\ part # "start" => shell = S!NoKeys

McpRuns == part = "mcp" /\ M!Next /\ UNCHANGED <<deployVars, startVars>>

DeployRuns == part = "deploy" /\ P!Next /\ UNCHANGED <<mcpVars, startVars>>

StartRuns == part = "start" /\ S!Next /\ UNCHANGED <<mcpVars, deployVars>>

AroundNext ==
    \/ PanelsNext /\ UNCHANGED processVars
    \/ (McpRuns \/ DeployRuns \/ StartRuns) /\ UNCHANGED <<part, panelVars>>

AroundSpec == AroundInit /\ [][AroundNext]_aroundVars

\* The fairness of each module, while it is what runs.
CockpitFairness ==
    /\ WF_cockpitVars(part = "cockpit" /\ C!Tick)
    /\ \A v \in Viewers :
        /\ WF_cockpitVars(part = "cockpit" /\ C!Mount(v))
        /\ WF_cockpitVars(part = "cockpit" /\ C!Poll(v))
        /\ WF_cockpitVars(part = "cockpit" /\ page[v].waited = 1 /\ C!RequestFails(v))
    /\ \A r \in Reads :
        /\ SF_cockpitVars(part = "cockpit" /\ reads[r].for # C!NoViewer /\ C!NodeAnswers(r))
        /\ SF_cockpitVars(part = "cockpit" /\ reads[r].for # C!NoViewer /\ C!ReadEnds(r))
        /\ WF_cockpitVars(part = "cockpit" /\ C!NodeAnswers(r))
        /\ WF_cockpitVars(part = "cockpit" /\ C!ReadEnds(r))
        /\ WF_cockpitVars(part = "cockpit" /\ reads[r].age = 2 /\ C!ReadFails(r))

ButtonFairness ==
    /\ WF_buttonVars(part = "button" /\ T!Reset)
    /\ WF_buttonVars(part = "button" /\ T!AskStatus)
    /\ WF_buttonVars(part = "button" /\ T!HearStatus)
    /\ \A k \in Posts :
        /\ WF_buttonVars(part = "button" /\ T!ButtonGets(k))
        /\ WF_buttonVars(part = "button" /\ (T!RouteGivesUp(k) \/ T!RouteForwards(k)))

FeedFairness ==
    /\ WF_feedVars(part = "feed" /\ F!Poll)
    /\ SF_feedVars(part = "feed" /\ F!PollEnds)

OracleFairness ==
    /\ WF_oracleVars(part = "tear" /\ E!PollBegins)
    /\ WF_oracleVars(part = "tear" /\ (E!Delivered \/ E!RequestFails))
    /\ SF_oracleVars(part = "tear" /\ E!OracleAnswers)
    /\ SF_oracleVars(part = "tear" /\ poll.source = "live" /\ E!Delivered)

McpFairness ==
    \A c \in ToolCalls :
        /\ WF_mcpVars(part = "mcp" /\ (M!ReadEnds(c) \/ M!ReadFails(c)))
        /\ WF_mcpVars(part = "mcp" /\ M!OracleAnswers(c))

DeployFairness ==
    /\ WF_deployVars(part = "deploy" /\ P!Preflight)
    /\ WF_deployVars(part = "deploy" /\ P!Lookup)
    /\ WF_deployVars(part = "deploy" /\ P!Put)
    /\ WF_deployVars(part = "deploy" /\ (P!Confirm \/ P!Timeout))
    /\ WF_deployVars(part = "deploy" /\ (P!ReadKey \/ P!KeyTimeout))
    /\ WF_deployVars(part = "deploy" /\ P!Record)

FairAroundSpec ==
    /\ AroundSpec
    /\ CockpitFairness /\ ButtonFairness /\ FeedFairness /\ OracleFairness
    /\ McpFairness /\ DeployFairness

-----------------------------------------------------------------------------
\* What no step may do: a panel that shows decisions never goes back to an error, and to
\* none only when none of them is in the log any more, a client gets the newest readable
\* records in the log's order, a vault state a
\* tool answers with is no older than cache and read allow, and .env never overrides
\* the shell, but for the interval.
NoStepGoesBack ==
    /\ F!ListStays /\ F!RecordsAreTheLatest
    /\ M!StateIsRecent
    /\ S!ShellComesFirst

\* Everything comes back: every page comes to show the vault as it is, the button comes
\* back and no cooldown blocks it for good, a decision in the log reaches the page, the
\* panel shows an oracle that stays up again, every MCP call is answered, and every run
\* of the deploy script ends.
EverythingComesBack ==
    /\ part = "cockpit" => C!PagesCatchUp
    /\ T!ButtonComesBack /\ T!CooldownClears
    /\ part = "feed" => F!PageCatchesUp
    /\ part = "tear" => E!PanelRecovers
    /\ M!EveryCallIsAnswered
    /\ P!RunEnds
=============================================================================
