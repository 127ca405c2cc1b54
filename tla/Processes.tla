----------------------------- MODULE Processes ------------------------------
(* The processes beside the agent: the MCP server (McpServer) and the        *)
(* scripts that deploy the contracts (Deploy) and start an agent (Startup).  *)
(* They run for themselves and share no state.                               *)
EXTENDS Integers, Sequences

CONSTANTS
    ToolCalls, MaxChanges, MaxTime, StateTtl, StateReadTime,        \* McpServer
    Balances, MaxRuns, InstallPayment, CallPayment,                 \* Deploy
    Starters, MaxAdded, Written, ShellKeys                          \* Startup

VARIABLES
    toolCalls, states, mock, paid, version, since, sent, now,   \* McpServer
    building, target, wasm, runs, script, deployed, env, pending, money,    \* Deploy
    installed, key, seen, enrolled, seeds, named,
    dotenv, shell, agents, port                                 \* Startup

mcpVars == <<toolCalls, states, mock, paid, version, since, sent, now>>
deployVars == <<building, target, wasm, runs, script, deployed, env, pending, money,
                installed, key, seen, enrolled, seeds, named>>
startVars == <<dotenv, shell, agents, port>>
processVars == <<mcpVars, deployVars, startVars>>

M == INSTANCE McpServer WITH
        Calls <- ToolCalls, TTL <- StateTtl, ReadTime <- StateReadTime,
        calls <- toolCalls, cache <- states

P == INSTANCE Deploy WITH
        file <- deployed, balance <- money, registered <- enrolled

S == INSTANCE Startup WITH Agents <- Starters

ASSUME ProcessesAssumption == M!McpAssumption /\ P!DeployAssumption /\ S!StartupAssumption

-----------------------------------------------------------------------------
\* An MCP tool's answer matches what its call did: only a valid, meant submission is
\* submitted, and the data it answers with are paid for (tools.ts, mcp-server.ts).
McpIsTrue == M!TypeOK /\ M!AnswersMatchEffects

\* The deploy script: "complete" means registered and seeded, no registry applies its
\* seed twice however often the script is run, a run that has seen enough money does not
\* end for want of it, and testnet.json names what is on chain.
DeployIsSafe ==
    P!TypeOK /\ P!CompleteMeansSeeded /\ P!SeededOnce /\ P!PreflightCovers /\ P!RecordedAndInstalled

\* The start of an agent: an offline one needs no key and reaches nothing, and of agents
\* that share a trigger port the one that listens is the one that goes on.
StartIsSafe == S!TypeOK /\ S!OfflineIsSelfContained /\ S!OneAgentGoesOn
=============================================================================
