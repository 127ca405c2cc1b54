----------------------------- MODULE McpServer -----------------------------
(***************************************************************************)
(* The MCP server (mcp-server/src): an LLM client calls tools over stdio,  *)
(* several at a time if it likes.  The server runs beside the agent, with  *)
(* a read cache of its own, a paying oracle client of its own and, for     *)
(* transactions, MockTxClient.  The agent and the vault are seen from      *)
(* outside: the agent's reallocations and what became of them.             *)
(* get_decision_log is in DecisionFeed; get_agent_reputation goes the way  *)
(* of get_vault_state.                                                     *)
(***************************************************************************)
EXTENDS Integers, FiniteSets

CONSTANTS
    Calls,          \* bound: requests of the client
    MaxChanges,     \* bound: reallocations of the agent
    MaxTime,        \* bound: the clock, in units of 10 s
    TTL,            \* the cache's 30 s
    ReadTime        \* assumption: a read ends, well or not, within this time

McpAssumption ==
    /\ MaxChanges \in Nat /\ MaxTime \in Nat
    /\ TTL \in Nat \ {0} /\ ReadTime \in Nat

VARIABLES
    calls,      \* the requests
    cache,      \* the vault state cached, if any, with its expiry
    mock,       \* reallocations that MockTxClient has stored
    paid,       \* calls that have paid the oracle
    version,    \* reallocations the vault has executed
    since,      \* when each version of the vault began
    sent,       \* status of the agent's reallocations
    now

vars == <<calls, cache, mock, paid, version, since, sent, now>>

Versions == 0..MaxChanges
Tools == {"get_vault_state", "submit_reallocation", "fetch_rwa_oracle_data", "get_transaction_status"}
Statuses == {"pending", "confirmed", "failed"}
Placeholder == -1

Free == [pc |-> "free", tool |-> "none", start |-> 0, value |-> Placeholder, about |-> 0, answer |-> "none"]

TypeOK ==
    /\ calls \in [Calls -> [pc : {"free", "reading", "paying", "answered"}, tool : Tools \union {"none"},
                            start : 0..MaxTime, value : Versions \union {Placeholder}, about : Versions,
                            answer : {"none", "state", "dry_run", "submitted", "data", "error"} \union Statuses]]
    /\ Cardinality(cache) <= 1
    /\ cache \subseteq [value : Versions, expires : 0..(MaxTime + TTL)]
    /\ mock \subseteq Calls /\ paid \subseteq Calls
    /\ version \in Versions /\ since \in [Versions -> 0..MaxTime]
    /\ sent \in [1..MaxChanges -> Statuses \union {"none"}]
    /\ now \in 0..MaxTime

Init ==
    /\ calls = [c \in Calls |-> Free]
    /\ cache = {} /\ mock = {} /\ paid = {}
    /\ version = 0 /\ since = [v \in Versions |-> 0]
    /\ sent = [k \in 1..MaxChanges |-> "none"]
    /\ now = 0

-----------------------------------------------------------------------------
(* The tools.  Whatever throws, Zod's parse included, is answered with     *)
(* isError.                                                                *)

Answers(c, tool, answer) ==
    calls' = [calls EXCEPT ![c] = [@ EXCEPT !.pc = "answered", !.tool = tool, !.answer = answer]]

\* getCached
Cached_Ever == cache
Cached == {entry \in cache : entry.expires > now}

GetVaultState(c) ==
    /\ calls[c].pc = "free"
    /\ IF Cached # {}
       THEN \E entry \in Cached :
              calls' = [calls EXCEPT ![c] = [@ EXCEPT !.pc = "answered", !.tool = "get_vault_state",
                                               !.answer = "state", !.start = now, !.value = entry.value]]
       ELSE calls' = [calls EXCEPT ![c] = [@ EXCEPT !.pc = "reading", !.tool = "get_vault_state", !.start = now]]
    /\ cache' = Cached
    /\ UNCHANGED <<mock, paid, version, since, sent, now>>

\* The node reads the vault ...
NodeReads(c) ==
    /\ calls[c].pc = "reading" /\ calls[c].value = Placeholder
    /\ calls' = [calls EXCEPT ![c].value = version]
    /\ UNCHANGED <<cache, mock, paid, version, since, sent, now>>

\* ... and its answer arrives: cached for TTL from now, whoever cached before.
ReadEnds(c) ==
    /\ calls[c].pc = "reading" /\ calls[c].value # Placeholder
    /\ calls' = [calls EXCEPT ![c] = [@ EXCEPT !.pc = "answered", !.answer = "state"]]
    /\ cache' = {[value |-> calls[c].value, expires |-> now + TTL]}
    /\ UNCHANGED <<mock, paid, version, since, sent, now>>

\* A read that fails, or a contract hash that is not set: the placeholder.
ReadFails(c) ==
    /\ calls[c].pc = "reading"
    /\ calls' = [calls EXCEPT ![c] = [@ EXCEPT !.pc = "answered", !.answer = "state", !.value = Placeholder]]
    /\ UNCHANGED <<cache, mock, paid, version, since, sent, now>>

\* A tool that submits before it looks at dry_run.
SubmitReallocation_DryRunLast(c, valid, dryRun) ==
    /\ calls[c].pc = "free"
    /\ Answers(c, "submit_reallocation", IF ~valid THEN "error" ELSE IF dryRun THEN "dry_run" ELSE "submitted")
    /\ mock' = IF valid THEN mock \union {c} ELSE mock
    /\ UNCHANGED <<cache, paid, version, since, sent, now>>

SubmitReallocation(c, valid, dryRun) ==
    /\ calls[c].pc = "free"
    /\ Answers(c, "submit_reallocation", IF ~valid THEN "error" ELSE IF dryRun THEN "dry_run" ELSE "submitted")
    /\ mock' = IF valid /\ ~dryRun THEN mock \union {c} ELSE mock
    /\ UNCHANGED <<cache, paid, version, since, sent, now>>

\* The x402 flow of OracleClient: a call that the oracle has taken money for
\* may still fail.
FetchOracle(c) ==
    /\ calls[c].pc = "free"
    /\ calls' = [calls EXCEPT ![c] = [@ EXCEPT !.pc = "paying", !.tool = "fetch_rwa_oracle_data", !.start = now]]
    /\ UNCHANGED <<cache, mock, paid, version, since, sent, now>>

OraclePaid(c) ==
    /\ calls[c].pc = "paying" /\ c \notin paid
    /\ paid' = paid \union {c}
    /\ UNCHANGED <<calls, cache, mock, version, since, sent, now>>

OracleAnswers(c) ==
    /\ calls[c].pc = "paying"
    /\ \/ c \in paid /\ Answers(c, "fetch_rwa_oracle_data", "data")
       \/ Answers(c, "fetch_rwa_oracle_data", "error")
    /\ UNCHANGED <<cache, mock, paid, version, since, sent, now>>

\* aegis://vault/state, aegis://agent/reputation and aegis://oracle/latest; an
\* error is passed on to the SDK, which answers with it.
ReadResource(c) == GetVaultState(c) \/ FetchOracle(c)

\* MockTxClient knows one status; about = 0 is a transaction of its own.
MockStatus == "confirmed"

GetTransactionStatus(c, k) ==
    /\ calls[c].pc = "free"
    /\ k # 0 => sent[k] # "none"
    /\ calls' = [calls EXCEPT ![c] = [@ EXCEPT !.pc = "answered", !.tool = "get_transaction_status",
                                               !.start = now, !.about = k, !.answer = MockStatus]]
    /\ UNCHANGED <<cache, mock, paid, version, since, sent, now>>

-----------------------------------------------------------------------------
(* The agent, the chain and time                                           *)

AgentSubmits(k) ==
    /\ sent[k] = "none"
    /\ \A j \in 1..(k - 1) : sent[j] \in {"confirmed", "failed"}
    /\ sent' = [sent EXCEPT ![k] = "pending"]
    /\ UNCHANGED <<calls, cache, mock, paid, version, since, now>>

ChainExecutes(k) ==
    /\ sent[k] = "pending"
    /\ \/ /\ sent' = [sent EXCEPT ![k] = "failed"]
          /\ UNCHANGED <<version, since>>
       \/ /\ sent' = [sent EXCEPT ![k] = "confirmed"]
          /\ version' = version + 1
          /\ since' = [since EXCEPT ![version + 1] = now]
    /\ UNCHANGED <<calls, cache, mock, paid, now>>

Tick ==
    /\ now < MaxTime
    /\ \A c \in Calls : calls[c].pc = "reading" => now < calls[c].start + ReadTime
    /\ now' = now + 1
    /\ UNCHANGED <<calls, cache, mock, paid, version, since, sent>>

Next ==
    \/ \E c \in Calls :
        \/ GetVaultState(c) \/ NodeReads(c) \/ ReadEnds(c) \/ ReadFails(c)
        \/ \E valid, dryRun \in BOOLEAN : SubmitReallocation(c, valid, dryRun)
        \/ FetchOracle(c) \/ ReadResource(c) \/ OraclePaid(c) \/ OracleAnswers(c)
        \/ \E k \in Versions : GetTransactionStatus(c, k)
    \/ \E k \in 1..MaxChanges : AgentSubmits(k) \/ ChainExecutes(k)
    \/ Tick

Spec == Init /\ [][Next]_vars

\* The node and the oracle answer or fail.
FairSpec == Spec /\ \A c \in Calls : WF_vars(ReadEnds(c) \/ ReadFails(c)) /\ WF_vars(OracleAnswers(c))

-----------------------------------------------------------------------------
(* A vault state that a tool answers with was the vault's within the last  *)
(* TTL + ReadTime, however many calls share the cache and whichever of     *)
(* them ends first.                                                        *)
StateIsRecent ==
    [][\A c \in Calls :
        (calls[c].pc # "answered" /\ calls'[c].answer = "state" /\ calls'[c].value # Placeholder) =>
            \/ calls'[c].value = version
            \/ since[calls'[c].value + 1] >= now - (TTL + ReadTime)]_calls

(* Only a submission that was valid and meant reaches the transaction      *)
(* client, and data come only to a call that has paid for them.            *)
AnswersMatchEffects ==
    \A c \in Calls : calls[c].pc = "answered" =>
        /\ c \in mock <=> calls[c].answer = "submitted"
        /\ calls[c].answer = "data" => c \in paid

(* Every request is answered.                                              *)
EveryCallIsAnswered == \A c \in Calls : calls[c].pc # "free" ~> calls[c].pc = "answered"
=============================================================================
