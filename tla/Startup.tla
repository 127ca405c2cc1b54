------------------------------ MODULE Startup ------------------------------
(***************************************************************************)
(* How a configuration becomes a running agent: the operator's .env and    *)
(* shell, the loader that merges and validates them (shared/src/env.ts),   *)
(* the agent's entry point (agent/src/run.ts) with its cadence             *)
(* (loop-interval.ts), and the port of its trigger server.                 *)
(* The keys are AGENT_OFFLINE_DEMO, AGENT_ACCOUNT_HASH,                    *)
(* AGENT_PRIVATE_KEY_HEX, ANTHROPIC_API_KEY, CSPR_CLOUD_API_KEY and        *)
(* AGENT_LOOP_INTERVAL_MS, and one for every other field that has a form,  *)
(* the URLs, ports, numbers and enumerations; their values are abstracted  *)
(* to what the code tells apart.                                           *)
(***************************************************************************)
EXTENDS Integers, Sequences, FiniteSets, SequencesExt

CONSTANTS
    Agents,         \* processes of the agent that are started
    MaxAdded,       \* bound: lines that are added to .env
    Written,        \* bound: keys the operator writes to .env
    ShellKeys       \* bound: keys that may be set in the shell

VARIABLES
    dotenv,     \* the lines of .env, in their order
    shell,      \* the shell's variables
    agents,     \* the processes
    port        \* who listens on AGENT_TRIGGER_PORT

vars == <<dotenv, shell, agents, port>>

Values == [offline |-> {"true", "false"}, account |-> {"", "hash"}, key |-> {"", "placeholder", "hex"},
           llm |-> {"", "key"}, api |-> {"", "key"}, others |-> {"fit", "bad"},
           interval |-> {"900000", "30000", "10"}]
Keys == DOMAIN Values
AllValues == UNION {Values[k] : k \in Keys}
Unset == "unset"
Settings == [Keys -> AllValues \union {Unset}]

StartupAssumption ==
    MaxAdded \in Nat /\ Written \subseteq Keys /\ ShellKeys \subseteq Keys

\* .env.example: placeholders are values, too.
Example == <<<<"key", "placeholder">>, <<"account", "">>, <<"llm", "key">>,
             <<"offline", "false">>, <<"api", "key">>, <<"others", "fit">>, <<"interval", "900000">>>>

NoKeys == [k \in Keys |-> Unset]
Down == [pc |-> "down", signer |-> "mock", tx |-> "mock", llm |-> "mock", interval |-> 0,
         env |-> NoKeys]

TypeOK ==
    /\ dotenv \in Seq(Keys \X AllValues)
    /\ shell \in Settings
    /\ \A a \in Agents :
        /\ agents[a].pc \in {"down", "refused", "starting", "running", "crashed"}
        /\ {agents[a].signer, agents[a].tx, agents[a].llm} \subseteq {"mock", "real"}
        /\ agents[a].interval \in {0, 15000, 30000, 900000}
        /\ agents[a].env \in Settings
        /\ agents[a].pc \in {"down", "refused"} => agents[a].interval = 0
    /\ port \subseteq Agents

Init ==
    /\ dotenv = <<>>
    /\ \E s \in [ShellKeys -> AllValues \union {Unset}] :
          /\ \A k \in ShellKeys : s[k] \in Values[k] \union {Unset}
          /\ shell = [k \in Keys |-> IF k \in ShellKeys THEN s[k] ELSE Unset]
    /\ agents = [a \in Agents |-> Down]
    /\ port = {}

-----------------------------------------------------------------------------
(* The operator                                                            *)

\* README.md, quick start: cp .env.example .env
CopyExample ==
    /\ dotenv = <<>>
    /\ dotenv' = Example
    /\ UNCHANGED <<shell, agents, port>>

\* ... and echo "KEY=value" >> .env
AppendLine(k, v) ==
    /\ (Len(dotenv) < MaxAdded) \/ (Len(dotenv) \in Len(Example)..Len(Example) + MaxAdded - 1)
    /\ dotenv' = Append(dotenv, <<k, v>>)
    /\ UNCHANGED <<shell, agents, port>>

\* Fill in a line.
EditLine(i, v) ==
    /\ dotenv' = [dotenv EXCEPT ![i] = <<@[1], v>>]
    /\ dotenv' # dotenv
    /\ UNCHANGED <<shell, agents, port>>

\* With the process goes its port.
Stop(a) ==
    /\ agents[a].pc # "down"
    /\ agents' = [agents EXCEPT ![a] = Down]
    /\ port' = port \ {a}
    /\ UNCHANGED <<dotenv, shell>>

LastWritten(k) ==
    LET lines == {i \in DOMAIN dotenv : dotenv[i][1] = k} IN
    IF lines = {} THEN Unset ELSE dotenv[Max(lines)][2]

-----------------------------------------------------------------------------
(* env.ts                                                                  *)

\* REPO_DOTENV_OVERRIDE_KEYS
OverrideKeys == {"interval"}

\* hydrateProcessEnvFromRepoDotEnv: a line counts if its key has no value yet,
\* and an empty value is one.
Hydrated ==
    LET set(env, line) == IF env[line[1]] = Unset \/ line[1] \in OverrideKeys
                          THEN [env EXCEPT ![line[1]] = line[2]] ELSE env
    IN FoldLeft(set, shell, dotenv)

\* envSchema: AGENT_LOOP_INTERVAL_MS is a whole number from 1000, a blank
\* CSPR_CLOUD_API_KEY is refused, none is not, and the others have their forms.
Valid(env) == env.interval # "10" /\ env.api # "" /\ env.others # "bad"
Offline(env) == env.offline = "true"
IntervalMs(env) == IF env.interval = "30000" THEN 30000 ELSE 900000

-----------------------------------------------------------------------------
(* run.ts                                                                  *)

HasAccount(env) == env.account = "hash" \/ Offline(env)

\* createLlmClient throws when the provider has no key.
HasLlm(env) == Offline(env) \/ env.llm = "key"

\* Without a key, or with one that is none, x402 payloads are signed by mockSign.
Signer(env) == IF env.key = "hex" THEN "real" ELSE "mock"

TxClient(env) == IF Offline(env) THEN "mock" ELSE "real"
LlmClient(env) == IF Offline(env) THEN "mock" ELSE "real"

\* resolveLoopIntervalMs
LoopInterval(env) ==
    IF Offline(env) /\ IntervalMs(env) > 15000 THEN 15000 ELSE IntervalMs(env)

\* The clients, and loop.start, which begins the first iteration at once ...
Start(a) ==
    /\ agents[a].pc = "down"
    /\ LET env == Hydrated IN agents' = [agents EXCEPT ![a] =
            IF Valid(env) /\ HasAccount(env) /\ HasLlm(env)
            THEN [pc |-> "starting", env |-> env,
                  signer |-> Signer(env), tx |-> TxClient(env), llm |-> LlmClient(env),
                  interval |-> LoopInterval(env)]
            ELSE [Down EXCEPT !.pc = "refused", !.env = env]]
    /\ UNCHANGED <<dotenv, shell, port>>

\* A trigger server that logs its 'error' event, and the loop goes on.
Listen_ErrorLogged(a) ==
    /\ agents[a].pc = "starting"
    /\ port' = IF port = {} THEN {a} ELSE port
    /\ agents' = [agents EXCEPT ![a].pc = "running"]
    /\ UNCHANGED <<dotenv, shell>>

\* ... and the trigger server's listen.  A listen that fails, for the port is
\* taken, has no handler and ends the process, with what it was doing.
Listen(a) ==
    /\ agents[a].pc = "starting"
    /\ port' = IF port = {} THEN {a} ELSE port
    /\ agents' = [agents EXCEPT ![a].pc = IF port = {} THEN "running" ELSE "crashed"]
    /\ UNCHANGED <<dotenv, shell>>

Next ==
    \/ CopyExample
    \/ \E k \in Written : \E v \in Values[k] : AppendLine(k, v)
    \/ \E i \in {j \in DOMAIN dotenv : dotenv[j][1] \in Written} :
            \E v \in Values[dotenv[i][1]] : EditLine(i, v)
    \/ \E a \in Agents : Start(a) \/ Listen(a) \/ Stop(a)

Spec == Init /\ [][Next]_vars

-----------------------------------------------------------------------------
\* Its loop runs: the first iteration at least, and past the start all others.
Loops(a) == agents[a].pc \in {"starting", "running"}
Running(a) == agents[a].pc = "running"

(* An offline agent has nothing that reaches the chain or a provider, from *)
(* its first iteration on, is lively, and is refused for nothing but a     *)
(* value that envSchema refuses: not for the want of a key or of an        *)
(* account (run.ts:28).                                                    *)
OfflineIsSelfContained ==
    \A a \in Agents : Offline(agents[a].env) =>
        /\ Loops(a) => agents[a].tx = "mock" /\ agents[a].llm = "mock" /\ agents[a].interval <= 15000
        /\ agents[a].pc = "refused" => ~Valid(agents[a].env)

(* Of the agents that share a trigger port, started and stopped in any     *)
(* order, one goes on past its start, and it is the one that the           *)
(* dashboard's button reaches.  Before that another's first iteration may  *)
(* be under way beside it, on the same logs.                               *)
OneAgentGoesOn == \A a \in Agents : Running(a) <=> port = {a}

\* a's environment is made in this step.
Loads(a) == agents[a].pc = "down" /\ agents'[a].pc # "down"

(* env.ts:117: .env does not override what the shell has set, except for   *)
(* the interval, of which the last line in .env counts.                    *)
ShellComesFirst ==
    [][\A a \in Agents : Loads(a) => \A k \in Keys :
        IF k = "interval" /\ LastWritten(k) # Unset THEN agents'[a].env[k] = LastWritten(k)
        ELSE shell[k] # Unset => agents'[a].env[k] = shell[k]]_vars
=============================================================================
