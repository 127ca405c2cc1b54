# Aegis: TLA+ verification project

Aegis is a vault on Casper whose allocation an autonomous agent rebalances. A
holder deposits CSPR and gets shares; the agent reads the vault, buys yield data
from an oracle over x402, asks an LLM for an allocation, checks it against gates
and submits a `reallocate` transaction; every third run it reports on its own
accuracy to a reputation registry. A dashboard shows all of this and lets a user
deposit, withdraw and trigger the agent; an MCP server offers the same to an LLM
client. These modules model the contracts, the agent, the oracle, the two
front ends and the scripts that deploy and seed, check them with TLC on small
instances, and prove with TLAPS, for every value of the constants, the main
properties of the contracts, the agent loop, the oracle, the reputation epochs, the
RPC reads, the dashboard's panels and deposit dialog, the MCP server and the scripts.

Paths below are relative to the repository root.

## 1. The system

| Component | State it keeps | Operations | Talks to |
|---|---|---|---|
| Vault contract (`contracts/aegis-contracts/src/vault.rs`) | main purse, CEP-18 supply and balances, owner, agent, paused, allocation, time of the last reallocation | `init`, `deposit`, `withdraw`, `reallocate`, `pause`, `unpause`, `set_agent`, readers | holders, the agent |
| Registry contract (`.../registry.rs`) | owner, profile and membership flag per agent | `init`, `register_agent`, `update_reputation`, readers | the owner's key (in the demo the agent's) |
| Agent loop (`packages/agent/src/loop.ts`) | iteration counter, overlap guard, end of the cooldown | `tick`, `runOnce`, the phases of `perceiveDecideAct`, `runReputationEpoch`, `stop` | all clients, the logs |
| Chain read client (`.../clients/casper-read-client.ts`) | 30 s cache, rate-limit flag | `getVaultState`, `getReputation`, `consumePerceiveRateLimited` | node RPC, REST API |
| Transaction client (`.../clients/casper-tx-client.ts`) | none; retries | `submitReallocate`, `submitUpdateReputation`, `getTransactionStatus` | node RPC |
| Oracle client, LLM clients (`.../clients/`) | none | `fetch`, `decide` | oracle, LLM provider |
| Trigger server (`.../trigger-server.ts`) | time of the last trigger | `POST /trigger`, `GET /status` | agent loop |
| Entry point and cadence (`run.ts`, `loop-interval.ts`), environment (`shared/src/env.ts`) | the merged environment | load and validate, choose clients and interval, start | `.env`, everything above |
| Reputation (`reputation.ts`) | none | `computeReputationDelta`, `hashDecisions` | decision log |
| Oracle and facilitator (`packages/oracle/src`) | set of seen nonces, last paid response | `GET /api/rwa-yields`, `/api/oracle/latest` | payers, `payments.jsonl` |
| Shared rules (`packages/shared/src`) | the JSONL files | `driftBps`, `allocationSanityCheck`, schemas, RPC reads and retries, log helpers | everything |
| MCP server (`packages/mcp-server/src`) | its own clients and cache | six tools, among them `submit_reallocation` | node RPC, oracle, logs |
| Dashboard (`packages/dashboard/src`) | polled snapshots, route caches, demo overlays | poller, API routes, trigger button | agent, oracle, node RPC, logs |
| Wallet session and deposit dialog (`.../components/wallet`, `DepositWithdrawModal.tsx`) | connector, account, step of the dialog, mock overlay | `connect`, `disconnect`, review, sign, retry, close | wallet extension, the chain |
| Scripts (`scripts/*.mjs`) | `contracts/wasm`, `testnet.json`, the logs | build, deploy and seed, demo seeding | the chain, the oracle, files |

Hard behaviour, and where:

- *Contracts*: quotients, widths and branch conditions over long sequences of
  calls; every call is atomic, so there is no interleaving inside one.
- *Agent*: one thread, but everything can happen at an `await`: timer and
  trigger start runs independently, the overlap guard is released before the
  log is written, the read client keeps state between runs, submissions are
  retried although an attempt may have succeeded, the process may die anywhere.
- *Oracle*: payments and nonces against lost answers and restarts.
- *Reads*: one vault state is several RPC reads, each retried by nested policies.
- *Epochs*: spawned in the background, over a log that grows meanwhile.
- *Logs*: files with several writers, read while they are written, torn by a kill.
- *Front ends*: requests, timers, caches and clicks that overlap; a popup outlives
  the dialog that opened it; a client's timeout does not stop the server.
- *Deploying*: a script that only keeps a file is started again after a failure, over
  a chain that may still execute what the last run has sent.

What makes each component correct:

- *Vault*: the share supply is what holders have; a share never loses backing
  or value by somebody else's call; holders can always leave while it is open;
  the locked minimum stays; an allocation weighs 10 000.
- *Registry*: flag and profile agree, the counters make sense, the score is
  explained by the deltas.
- *Agent*: one run at a time, no run during a cooldown, no action on reads that
  were rate limited, a log that is true of the chain, never stuck.
- *Oracle*: a payment is honoured once and buys data; *reputation*: an
  epoch has one verdict, on its own run's decision; *reads*: a state the vault was in.
- *Front ends*: what is shown was true recently, comes back after failures, and says
  of an action what became of it; *deploying*: what is recorded is on chain, and the
  seed is applied once.

## 2. Modules

| Module | Models |
|---|---|
| `Vault` | the vault contract, the CEP-18 share token and the purse |
| `ShareFund` | what a fund promises its members, implemented by `Vault` |
| `MCVault`, `VaultProofs` | symmetry for TLC; theorems about `Vault` |
| `FoldFacts` | induction over finite sets and naturals; what a sum over a finite set is; counting a set of integers off |
| `Registry`, `MCRegistry` | the registry contract, its instance |
| `AgentLoop`, `AgentLoopProofs` | loop, trigger server, retries, log append, crashes; theorems about it and about the watches of `AgentChain` |
| `ReadClient` | what the loop relies on when it reads, implemented by `RpcRead` |
| `RpcRead`, `RpcReadProofs` | the RPC reads behind one vault state or reputation: calls, retries, fallbacks, cache, flag; theorems about it |
| `OdraCodec` | storage keys and bytes: the contract's encoding against the readers' decoding |
| `AllocationRules` | the five places that have an idea of an allocation |
| `Reads`, `MCReads` | `RpcRead` beside instances of the other two; an instance of it |
| `AgentChain` | runs over stale reads and a chain that executes late, in any order or never, with the watches |
| `ReputationEpoch`, `MCReputationEpoch`, `ReputationEpochProofs` | runs, log, epochs and their transactions, composed with `Registry`; theorems about it |
| `Oracle`, `MCOracle`, `OracleProofs` | purchases over x402: nonces, expiry, payment log, aborts, restarts; theorems about it |
| `Wallet`, `VaultModal`, `MCModal` | the wallet session; the dialog on top of it (EXTENDS); accounts that do not own the same |
| `Cockpit` | the vault from the chain through route cache and poller to the chip |
| `TriggerButton` | the button, its routes, the trigger server |
| `DecisionFeed` | the decision log from the append to the screen |
| `OracleView` | the oracle panel with its fallbacks, and the payment log's three writers |
| `McpServer` | concurrent tool calls beside the agent |
| `Deploy` | build and deploy scripts over the chain |
| `Startup` | `.env`, shell, loader, entry point, port |
| `Panels` | instances of `Cockpit`, `TriggerButton`, `OracleView` and `DecisionFeed` |
| `Processes` | instances of `McpServer`, `Deploy` and `Startup` |
| `MCAround` | both, for TLC |
| `DashboardProofs` | theorems about `VaultModal` and `Panels` |
| `ProcessProofs` | theorems about `Registry` and `Processes` |

Three compositions: `AgentChain` puts the agent's runs and the vault together,
`ReputationEpoch` the epochs and `Registry`, `VaultModal` the dialog and `Wallet`.
Two refinements, each checked as a property: `Vault` of `ShareFund`, `RpcRead` of
`ReadClient`.

`Reads`, of which `MCReads` is an instance for TLC, and `MCAround` are not compositions. Their modules share no state in the
program (each page panel polls for itself, each process has its own memory), so an
instance chooses with `part` which of them a behaviour runs and leaves the others as
they begin; that is the union of their state spaces and not the product. `Panels` and
`Processes` hold the instances that are proved about, each without the other, so that a
proof has only those definitions in sight. Each
property and each fairness condition is the module's own (`Reads` extends `RpcRead` and
instantiates the other two), held against the behaviours that run it, and the MC module
gathers them into one property per question, e.g.
`DeployIsSafe` of `CompleteMeansSeeded`, `SeededOnce`, `PreflightCovers` and
`RecordedAndInstalled`.

What the plan has left is what no proof can reach: section 4 names it.

### Vault

Each entry point is one action. A revert undoes everything, the attached value
included, so a reverted call is a stuttering step and an action's guard is the
conjunction of the code's checks in their order (`DepositAccepted`,
`WithdrawAccepted`). `purse` is `self_balance()`; with `deposit` being payable,
the balance the code computes by subtracting the attached value is the purse
before the step. Integers keep their width: `MaxU256` bounds the checked
products, `MaxU32` the saturating sum. The token has no transfer entry point in
this contract, so balances change only by minting and burning. Nothing but
`deposit` adds to the purse: SECURITY.md (SEC-02) says the engine rejects plain
transfers to a contract, and no other entry point is payable. Hence the purse and
the supply stay equal (`EveryShareBacked`) and the quotients of the code are exact
in every reachable state, which neither the code nor its tests say; the rounding,
and the minimum that guards it, only matter to a chain that let motes in another
way, and such a chain is not modelled. Asset ids are
left out of an allocation, since `reallocate` never looks at them; events are
left out.

### ShareFund

Three steps (`Found`, `Join`, `Leave`) that say what money may do at any price:
an amount is rounded by less than a unit, in favour of those who stay, and the
founder's reserve stays where it is. It knows nothing of pauses, widths or formulas;
`Vault!ImplementsShareFund` is the refinement.

### Registry

One action per entry point, saturation at `MaxU64`. `gained` and `lost` are
history variables: what the deltas add up to without limits.

### AgentLoop

An action is the code between two `await`s. A run is a record
with a program counter: at the vault read, the reputation read, the oracle, the
LLM, the submission, or appending to the log. `Iterate` is the synchronous start
of `iterate`, taken by `Tick` and by `Trigger`; `ReadVault` covers node RPC, REST
fallback, placeholder, cache and flag; `Decide` is the LLM's answer with its one
retry and the gates in their order; `Submit` is one attempt of `withRetry`: accepted and
answered, accepted with the answer lost, or refused. `Fail` and `Skip` are the
ways out of `iterate`, both of which release `running` before `AppendLog`.
`Crash` may happen at any time and loses everything but the log.

A view of the vault carries `real`: read, or made up. What the vault answers is
not constrained, which is more than the chain can do; the gates on `paused` and
on the minimum balance are one flag `open`, zod, sanity and confidence are one
outcome `usable`, and allocations that differ are taken to have drifted.

### RpcRead and ReadClient

An action is one answer of the node or of the REST API. A value is the height of the
block that wrote it, so that a state put together from several blocks shows as one.
A call may also end in a default: the node answers with no value or one that cannot be
decoded, or with an error that `isNotFoundError` takes for a missing item, which any
failed query is. `how` says of every field whether it was read or which of these stands
behind it. `FieldsWereTrue` says what remains true of a state: each field was stored at its
moment or is a default that may stand; `PauseNoticed` that a pause before the read is
missed in no other way. `kind` and `policy`, chosen at the start and never changed, say
what is read and how it is retried;
the nesting of `withRpcCall` is as in the code, and `AttemptsBounded` counts what it
amounts to: the attempts of the policy, and their square where two loops are nested.
`LimitIsFlagged` says that a read which a 429 ends raises the flag. `MostTries` is the number
of attempts the policy allows; `ReadIsTrue` and
`RetriesEnd` are the conjunctions the run checks and the theorems state. A named key the
contract has not got spares the calls that need it and leaves their defaults, as an empty
answer does; that shorter sequence is left out. `ReadClient` is the contract of the calls,
five actions long.

### OdraCodec and AllocationRules

Algorithms over data, as operators. `OdraCodec` states the writer's side from the
contracts and the reader's side from `casper-rpc-read.ts`, and its only behaviour is to
choose what was written and what part of it arrives. `AllocationRules` sends an
allocation through schema, sanity gate, drift gate and contract, and back through
both readers; an allocation is a sequence, because order, repeated and missing
assets matter to some of the five. The contract looks at the pause and the caller before it
looks at the weights, and the owner may change both while a call is under way.

### AgentChain

Runs without a count, so that a liveness property can be asked: `VaultFollowsDecisions`
says that once the LLM has settled, the vault ends up where it points, through stale
caches, duplicated attempts and late executions. Transactions live in `Slots`.

### ReputationEpoch

An epoch is a record with a program counter, one per run that spawned it: read the
log, ask the oracle, judge, submit with retries. What it judges, and what its hash
commits to, is the set of decisions it found: neither the verdict nor the properties depend
on their order. The registry's actions are taken from `Registry` by INSTANCE.

### Oracle

A purchase is two requests; verification has no `await` in it and is one action, the
append is awaited, so that anything may come between it and the answer.
`Resend` presents a payload again; `Restart` loses nonces and snapshot. An append may be
cut short (`CutShort`, `torn`): with a part of the line or with all of it but the newline, and
then the next append, whoever makes it, becomes one unreadable line with it. `demo.mjs` empties the
file and writes its own lines; `payments` keeps the lines it removed, and `cleared` how many
they are, so that a claim about the file's history can be stated.

### Startup

The operator copies the example, appends and edits lines, starts and stops agents.
Values are abstracted to what the code tells apart (a placeholder is a key that is
none; `others` stands for every field that has a form, such as a URL or a port).
`Start` is `run.ts` up to `loop.start`, which begins an iteration at once;
`Listen` follows, and a listen that fails ends the process and what it was doing. Another
program on the port is left out.

### McpServer

A call is a record with a program counter; `version` and `since` of the vault say how
old an answer is. Time counts in units of 10 s.

### DecisionFeed

The file is a sequence of lines of which the last may be open; readers come at any
moment. The loop gives its guard back before it appends, so that appends overtake one
another, join or are torn (`writes` has a stage for each), and lines may stand out of the order
the decisions were taken in. `demo.mjs` empties the file under an open page and refills it; two
appends that are both under way when it does so may join. `Shown` stands for the route's 20.

### Cockpit, OracleView, TriggerButton

`Cockpit` has time in ticks, since its question is how old a number on the
screen can be. What a page shows is a version of the vault or the zeros of the route's
fallback; the number on the screen is that state's balance plus the simulated yield of the
page's demo runs (`runs`), which no poll takes back. `failed`, a history variable, says how long ago a read
last failed other than by a 429. `OracleView` has no time and asks where a receipt comes from;
`TriggerButton` follows a click through button, route and trigger server, each of
which may give up on the next, the button's own request included (`FetchFails`).

### Wallet and VaultModal

`connect` may be called again while an earlier call waits for the popup, so calls are
identified. `owns` is what each account has on the chain: the session reads it once, when it
connects, and it falls when a deposit is executed (`Lands`). The dialog adds steps, the popup,
the 90 s timer, answers after it, and the account that was connected when the amount was let
through (`reviewed`). Gas, the payout of withdrawals and an account's other transactions are
left out.

### Deploy

One run of the script is a program counter with a step per transaction; the chain
executes a submitted transaction late or never, and a run can stop or time out
anywhere. A contract is named by the run that installed it.

## 3. Runs

| Run | Properties and what they show | Bounds |
|---|---|---|
| `vault` | `SupplyIsSharesOutstanding`, `EveryShareBacked`: the books survive every sequence of calls. `ExitOpen`, `NobodyDiluted`, `NoRoundTripProfit`: so do the promises to holders. `AllocationSumsToTotal`: no wrong allocation gets in, with a saturating sum, pauses and agent rotation. `ImplementsShareFund`: the vault is a fund | three accounts, 14 motes, minimum 2; weights 0..3 with `MaxU32` = 3, two assets |
| `registry` | `CorrectAtMostDecisions`, `ScoreBetweenBalanceAndGains`: what clamping and saturation keep true | two agents, `MaxU64` = 3, deltas -2..1 |
| `agent_loop` | `OneRunAtATime`, `CooldownStopsRuns`, `LimitedRunNeverSubmits`, `LogTellsTheTruth`, `EpochFollowsItsEntry`: guard, cooldown, rate-limit gate and log under every interleaving, failure and crash; `TypeOK` keeps placeholders out of the cache; `AlwaysReadyAgain` | two runs, four attempts (the code's number), two allocations |
| `reputation_epoch` | `OneVerdict` per epoch; `EpochIsSound` (`HashCoversActedDecisions`, `JudgesItsOwnRun`, `NoPraiseForTheAverage`); `EpochsEnd` | two runs that each spawn an epoch, two attempts, one restart, two sheets, a window of two lines (`Lookback`, 3 epochs in the code) over a log that begins with an unreadable one |
| `agent_chain` | `WatchesEndInTruth` (`WatchesTellTheTruth`, `WatchesEnd`); `VaultFollowsDecisions` | two slots, two attempts, two allocations |
| `oracle` | `HonouredOncePerLife`; `PurchasesAreSound` (`EveryServingLogged`: whichever purchases one looks at, answers are no more than readable and unreadable lines; `UnderpaidNeverServed`, `SnapshotMovesForward`) | two purchases, both at the price or one below it, two presentations each, two lives, appends cut short, one line of `demo.mjs`, two moments, offers valid for one |
| `reads` | `ReadIsTrue` (`FieldsWereTrue`, `PauseNoticed`): what a read returns is true of blocks it saw, or a default that may stand. `RetriesEnd` (`AttemptsBounded`, `LimitEndsTheRead`, `LimitIsFlagged`). `ImplementsReadClient`. `DecodingIsTrue` (`ReadsWhatWasStored`, `CutValuesAreNull`). `RulesAgree` (`NeverForItsWeights`, `EachAssetOnce`, `ActsOnChange`): what passes the gates never reverts for its weights, names each asset once and changes the vault | a vault under fast-fail, the policy of every caller, a reputation under both; four attempts (the code's number), two blocks, one field of a read and the one before left to its default; base 4, hashes of two bytes, every prefix; two assets, total 4 |
| `modal` | `DialogIsTrue` (`ConnectedThroughChosen`, `SigningIsTheLastTry`, `SubmittedIsTheLastTry`, `UncoveredOnlyWhenStale`, `OverlayFromDeposits`): an account is shown only through the chosen connector, the dialog's step is true of the popup, a deposit its account cannot cover is asked for only after an earlier one was executed or under another account than the reviewed one, the overlay adds up. `NothingHangs` (`ConnectingEnds`, `SigningEnds`) | two connects, two signatures, two accounts that own one and two, an amount of two and the rounded balance, with the mock asked for and with the flag unset |
| `around` | `CockpitIsTrue` (`LiveIsRecent`, `AnswersAreAwaited`), `ButtonIsTrue` (`RefusedStartsNothing`), `LogPanelsAreTrue` (`FeedFollowsLog`, `NeverBlank`, `ShownReceiptIsLogged`, `NoticeTellsTheSource`), `McpIsTrue` (`AnswersMatchEffects`), `DeployIsSafe`, `StartIsSafe` (`OfflineIsSelfContained`, `OneAgentGoesOn`), `NoStepGoesBack` (`ListStays`, `RecordsAreTheLatest`, `StateIsRecent`, `ShellComesFirst`) | two route reads, two clicks, three decisions (one of `demo.mjs`) in a window of two, two payments and an end of the oracle, two calls over 40 s, two deploy runs with five balances, two agents with three keys in the shell |
| `around_live` | `EverythingComesBack`: pages catch up, the button and the cooldown notice come back, the panel recovers, calls are answered, deploy runs end | one viewer, read, click, payment, call and run each; two decisions |
| `agent_tx_logged`, `modal_failed` | `EveryTxHashLogged`, `FailedIsNotSent`: expected violations, see Findings | small instances of the same |

A conjunction includes its module's `TypeOK` and is what a run checks; its parts are
stated, and commented, in the component's module.

Why the bounds are enough to be interesting:

- 14 motes with a minimum of 2 allow a founder, later deposits by others and
  withdrawals of everything but the locked part, in any order; a slip in either
  formula moves the price within a few calls. The theorems below remove the bound.
  `MaxU256` = 196 is 14 squared, so nothing overflows (`WidthsSuffice`); where products
  do overflow, the theorems hold the same invariants.
- A u32 of two bits (`MaxU32` = 3) and a total of 2 put sums below, at and above
  the total, at the limit and beyond it.
- A two-bit u64 lets scores hit 0 and the limit, and the counters saturate;
  `MaxHistory` bounds the deltas applied.
- Two runs are what the agent's hazards need: a flag or cached value left by one
  and met by the other, an entry still being written while the next run is on its
  way, a crash between them. `Epochs` = 2 makes the second run of a life spawn an
  epoch and the first not. `MaxRuns` bounds the runs started; three runs were
  explored once, with two attempts (4.6 million states), with the same result.

- Two purchases, calls, slots, epochs, clicks, reads or signatures are what an
  interleaving needs: one overtakes, replaces or outlives the other.
- Restarts: two lives of the oracle show what is lost with memory; two runs of
  `Deploy` show a run that meets its predecessor's leftovers. Three runs of it were
  explored once (0.9 million states) with the same result.
- `Shown` = 2 with three decisions and an old line lets a window lose lines at either
  end and a broken line fill it; 20 would need as many decisions to do the same.
- Durations in `Cockpit` and `McpServer` are the code's, divided by one unit and rounded
  up: poll 60 s, cache 45 s, stale after 60 s (VaultOverviewPanel), page timeout 8 s in
  ticks of 30 s; cache 30 s in units of 10 s (two of them in the instance).
  `ReadTime` is an assumption: the node answers or fails within it. The theorem about
  `LiveIsRecent` holds for all durations.
- `around_live` polls every three ticks and turns STALE after one: an answer of the cache
  and one of the node both come between two polls, which is what a page that catches up
  needs. It is also the run in which a page hears of a demo run (`DemoRuns` is 0 in `around`,
  since such a run disturbs nothing that `around` asks of a page but the number it counts).
- Defaults: one field of a read left to its default (`MaxMissing` of `MCReads`) meets a block, a
  429 and each retry at any of the calls; two of them are two such steps.
- `AllocationRules` and `OdraCodec` take every input of their instance. Two assets
  and a total of 4 have vectors that are short, repeated, overweight or of a wrong
  sum; base 4 with hashes of two bytes has lengths, booleans and both integer
  widths.

Runs of models whose environment is bounded (`CHECK_DEADLOCK FALSE` in the cfg) stop when
the bound is used up; in the others it can always take another step and the deadlock
check is on.

### Fairness

No fairness is ever assumed of users, ticks, triggers, crashes or failures.

- `agent_loop`: weak fairness of each run's next step, and of the end of the
  cooldown. The first says that an awaited call ends, in an answer or an error. The
  oracle and REST calls have a 10 s abort signal and file operations end; for the
  node's RPC and the LLM it is an assumption on the libraries, since this code sets no
  timeout on them. The second is the clock.
- `reputation_epoch`, and the calls of `McpServer` in `around_live`: each step of an epoch
  or handler is taken: answers, errors and aborts are part of it.
- `oracle`, `reads` and `around` ask for safety only and assume no fairness.
- `agent_chain`: weak fairness of the run's steps and of the cache's expiry; strong
  fairness of a read that succeeds, a submission that is accepted and an execution, that
  is, none of these fails every time.
- `modal`: the timers of connecting (20 s) and signing (90 s) fire. The wallet's popup
  may never be answered.
- `around_live`: timers of the pages and the button fire and requests end (the page's
  8 s, the routes' timeouts); strong fairness of successful answers, where a page has to
  catch up: not every request fails. Of `Deploy` the script's own steps and its
  timeouts, none of the chain.

### Findings

Two runs end in a counterexample.

1. `agent_tx_logged`: NFR-O-03 (REQUIREMENTS.md:221) wants each reallocation hash in
   the log. Every attempt of `withRetry` signs a new transaction
   (`casper-tx-client.ts:197`); when the node took one and its answer was lost, the log
   knows only the next attempt, or the error after the last.
2. `modal_failed`: the dialog says "Transaction Failed" after its 90 s timer
   (`DepositWithdrawModal.tsx:115`, 681), while the popup stays open and may still
   sign and send; the retry it offers then deposits twice.

### Divergences met while modelling

The models follow the code in these places too, where a document or comment says
otherwise. No run is kept for them; each was seen by reading, and most of them as a
counterexample of a smaller instance, before the runs were brought together.

- *Vault, agent.* `vault.rs:152` calls "bps sum == 10_000" an invariant; `init` stores an
  empty allocation. README.md:149 promises to act only when chain reads succeed; a read
  that fails other than by a 429 is replaced by a placeholder a run may act on
  (`casper-read-client.ts:152`). The rate-limit flag is "the last perceive phase"'s
  (`casper-read-client.ts:89`) but outlives runs that a gate holds back. ARCHITECTURE.md
  Flow B logs before it submits; the code submits first (`loop.ts:459`). NFR-R-03 allows
  three attempts; the code makes four (`casper-tx-client.ts:445`). A run within 30 s of
  the last read submits what the vault already holds (REQUIREMENTS.md:107).
- *Reputation.* A lost answer applies a delta twice (ASSUMPTIONS.md:128). "Last N acted
  decisions" (`loop.ts:544`) are the acted ones among the last N lines. A decision may be
  judged by the yields it was made from (`reputation.ts:4`). An agent that is restarted
  between two runs never reaches an epoch (REQUIREMENTS.md:117).
- *Oracle.* Seen nonces are lost with the process, so an unexpired payload is honoured
  again (REQUIREMENTS.md:201). Oracle and agent both append to `payments.jsonl`, for which
  `jsonl.ts:11` assumes a single writer. `/api/oracle/latest` gives data of any age the
  time of the request (`types.ts:51`). A kill in the middle of the oracle's append leaves a
  line without its newline: the next one is lost with it, and a payment that bought data has no line
  that can be read (NFR-O-02; `jsonl.ts:26`).
- *Reads.* `withRpcCall` around functions that use it multiplies the attempts
  (`casper-rpc-retry.ts:45` says one retry). A state field that cannot be read loses the
  whole vault state (`casper-rpc-read.ts:398` says it degrades). `parseVaultState` fills a
  short allocation with ids it may already have (`casper-read-client.ts:284`). Any failed
  query is taken for a missing item (`casper-rpc-read.ts:245`): the vault is then returned with
  a default for the field, as open for `paused`.
- *Wallet.* The later of two overlapping connects undoes a disconnect
  (`WalletContext.tsx:33`). Without the flag, a wallet runtime that comes late leaves the
  mock in place (`mockConnector.ts:5`). A balance that cannot be read refuses every
  deposit (`csprClickConnector.ts:69`); a withdrawal's limit is the vault's total
  (DESIGN.md:434); the mock overlay forgets what a withdrawal took below zero. The balance is
  read at connect only (`WalletProvider.tsx:27`) and the amount is checked once
  (`DepositWithdrawModal.tsx:69`): after an executed deposit, or under another account than the
  reviewed one, a deposit the account cannot cover is handed to the wallet.
- *Cockpit.* A failed read becomes an empty vault with status 200, which replaces the last
  known figures (`usePoller.ts:28`), its zeros under a LIVE chip unless it was a 429
  (`api/vault/route.ts:75`); 60 s and 45 s add up where REQUIREMENTS.md:267 has 15 s.
  A reset timer of an earlier click ends a later one's loading (DESIGN.md:703); 202 is
  answered although no run starts (`trigger-server.ts:76`); a lost answer ends in a demo
  decision although a run started (`trigger/route.ts:89`). The button says it failed when
  only its own request did (`TriggerAgentRunButton.tsx:137`), though the run it asked for goes on.
- *Feed and oracle panel.* One unreadable line takes the feed down (`decisions/route.ts:42`);
  a torn append takes the next line with it (`jsonl.ts:26`); the limit counts lines
  (`jsonl.ts:33`); the loop gives its guard back before it appends (`loop.ts:255`), so lines
  may land out of the order the decisions were taken in; `demo.mjs:200` empties the log under an open
  page, whose list goes with it; demo decisions come before newer ones (REQUIREMENTS.md:177) and their
  allocation stays over the vault's (`CockpitGrid.tsx:122`). "Paid via x402" stands beside
  receipts nobody paid (`OraclePanel.tsx:230`); a restarted oracle's demo snapshot replaces
  the paid one; the lines of `demo.mjs` give the panel nothing (DEPLOYMENT.md:287).
- *MCP server.* The read that ends last stays in the cache, though another began later
  (`casper-read-client.ts:86`); submissions and their status are a mock's (`server.ts:35`).
- *Deploying, starting.* A named key that lags is recorded as this run's
  (`deploy-testnet.mjs:467`); a run that stops between the installs and the file leaves a
  vault nobody names (282); REGISTER_ONLY cannot finish a run that stopped after the
  registration (303); a failed build leaves raw wasm where the deploy looks (117). The
  first line of `.env` with a key wins, so README.md:128's `>> .env` changes nothing after
  copying the example; an agent without a key starts (`run.ts:119`). A second agent's first iteration runs
  beside the first agent's, on the same logs, until its listen fails (`run.ts:182`).

## 4. Proofs

`tlapm` checks the theorems for every value of the constants that meets the named
assumptions of the module they are about, which ask for kinds and for what the code
starts with (a positive minimum, at least one attempt, a mock account that is nobody's)
and for nothing that bounds an instance; they are `ASSUME`s, which TLC evaluates. Bounds
of the models (`MaxRuns`, `MaxHeight`, `Restarts`) are constants like any other: the
theorems hold for all of them. Where a run checks `FairSpec` or, in `MCReads`, a
specification that restricts `Init`, the theorems are about the more general `Spec`. Those
about `Panels` are about `PanelsSpec`, those about a process about its own specification
(`M!Spec`, `P!Spec`, `S!Spec`), which the behaviours of `MCAround` obey: a step of it is a
step of the part that runs and leaves the others alone. In the same way those about the
codec and the rules are about `C!Spec` and `A!Spec`, the specifications of `OdraCodec` and
`AllocationRules` as `Reads` instantiates them.

| Module | Theorems about properties the runs check |
|---|---|
| `VaultProofs` | `TypeOK`, `SupplyIsSharesOutstanding`, `EveryShareBacked`, `ExitOpen`, `AllocationSumsToTotal`, `ImplementsShareFund`, `NobodyDiluted`, `NoRoundTripProfit` |
| `AgentLoopProofs` | `TypeOK`, `OneRunAtATime`, `CooldownStopsRuns`, `LimitedRunNeverSubmits`, `LogTellsTheTruth`, `EpochFollowsItsEntry`; of `WatchesEndInTruth` the part that is not liveness |
| `OracleProofs` | `HonouredOncePerLife`, `PurchasesAreSound` |
| `ReputationEpochProofs` | `OneVerdict`, `EpochIsSound` |
| `RpcReadProofs` | `ReadIsTrue`, `RetriesEnd`, `ImplementsReadClient`, `DecodingIsTrue`, `RulesAgree` |
| `DashboardProofs` | `DialogIsTrue`, `CockpitIsTrue`, `ButtonIsTrue`, `LogPanelsAreTrue`; of `NoStepGoesBack` the parts `ListStays` and `RecordsAreTheLatest` |
| `ProcessProofs` | `CorrectAtMostDecisions`, `ScoreBetweenBalanceAndGains`, `McpIsTrue`, `DeployIsSafe`, `StartIsSafe`; of `NoStepGoesBack` the parts `StateIsRecent` and `ShellComesFirst` |

Each component's proofs have the same layout: an inductive invariant of named parts (`IInv`,
or e.g. `DeployInv` where a module has several), lemmas about the operators, one lemma per
action or group of actions that says the invariant is kept, the theorem that it always
holds, and the properties from it. Every one of these invariants was checked by TLC on the
runs' instances before it was proved.

*Vault.* The inductive invariant is the conjunction of `TypeOK`,
`SupplyIsSharesOutstanding`, `LockedOnce` and `EveryShareBacked`. None is
inductive alone: that a balance covers a burn says nothing of the supply unless
the supply is counted from the balances; that the first-deposit branch, taken also
when the purse is zero, never runs on a vault with shares needs their backing, and
the backing after a withdrawal needs the exact quotient `(s * T) \div T`. "The supply is
the sum of the balances" is stated by counting:
`ShareUnits` holds one pair per share, so its cardinality is the sum, and the
library's facts about finite sets replace an induction over the accounts
(`OneHoldingChanges`: a step that changes one balance by d changes the count by
d; `TwoHoldersFit`: two holders never have more than the supply between them).
The arithmetic is isolated in lemmas on products and quotients of naturals
(`DivBounds`, `TimesMonotone`, `TimesCancel`, `ExactQuotient`). No relation between the
widths and the amount of money is assumed; `ExitOpen` and `DepositOpen`, which need one,
carry it as `WidthsSuffice`.

From the invariant follow, with little more: `HoldersCanLeave`, since a payout
is a mote a share and so at most the purse; `VaultIsShareFund`, one lemma per
entry point (`DepositRefines`, `WithdrawRefines`) and a stutter for the rest; and
from the refinement, not from the formulas, `HoldersNotDiluted`
(the price `purse / supply` never falls) and `RoundTripsDoNotPay`.

`AllocationIsWhole` is about a fold: `reallocate` adds the weights up in a u32 that
saturates and compares with the total. `SaturatedOrExact` says that the saturating sum of
any finite family of weights is the exact sum or the limit, so that a sum equal to the
total, which is below the limit or is exact all the same, is the true one.

`LockedOnce` and `DepositOpen` (`LiquidityLocked`, `DepositsAreTaken`) have no run of
their own; the first is part of the inductive invariant, the second follows from it.

*Sums over finite sets.* A theorem whose parameter is an operator cannot be used by these
provers, an induction over a finite set of things can: `FoldFacts` takes the property as
a set of subsets (`SubsetsAre`: a set that holds `S` whenever it holds every `S \ {x}` holds
every finite subset) and of naturals (`NaturalsAre`), and proves from it that the fold of
the community modules has a value whatever the order it takes the elements in
(`FoldExists`), that a sum is one number
whatever the order (`SumIsUnique`, `SumInAnyOrder`), and how it grows (`SumGrows`).
The vault's weights, the dialog's deposits and the lines of `.env` rest on it. The
allocation rules and the decision feed rest on its lemmas that bring sequences back to sets.

*Registry.* The invariant ties flag, profile, counters and the history sums;
`AppliedFacts` states what one update does to a profile, for either sign and at
either limit. That flag and profile agree, and the registry's `TypeOK`, are stated as
theorems (`FlagAndProfileAgree`, `TypeCorrect`) and checked by no run.

*Agent loop.* Six properties, one invariant. `OneRunAtATime` counts active runs, which no
step could use: `GuardIsExact` says instead that the guard is up exactly when some run is
active and that two active runs are the same run. It needs `FreshRuns` (a number not yet
given out belongs to no run, so `Iterate` starts from nothing) and
`NoRunWhileCooling`, since a trigger consults guard and cooldown and nothing else.
`LimitedRunNeverSubmits` needs that the flag a read raised is still up when its run
arrives at the gate (`FlagWaitsForItsRun`), which is true only because no other run is
active meanwhile. `LogTellsTheTruth` speaks of entries that are written much
later than what they tell: `NodeAgreesWithRun` and `EntriesAreOver` carry the
agreement over the retries, the lost answers and the wait for the append.

*Watches.* `AgentLoopProofs` also takes an instance of `AgentChain`, with its own transactions.
That a watch reports what the chain did is inductive together with the types (`WatchInv`), since a
report is made of an execution and a transaction is executed once; the assumption on the
constants is a hypothesis of the theorem (`WatchesAreTrue`).

*Oracle.* Pay-once is a statement about answers that have gone out; what keeps it is one
about requests under way: whoever is between verification and answer has used up the nonce
and is alone with it (`OpenOnesPaid`), and nobody is open for a nonce that was served
in this life (`ServedAreClosed`). `EveryServingLogged` compares two counts for every set of
purchases: the presentations answered with data, and the lines that name one of them or cannot be
read. One set at a time would not do, nor would one purchase, since a line that cannot be read
may stand for any of them, but for one only. `LinesCoverAnswers` is the inductive form: a
presentation counts from its append on, and there is one line to spare while the file ends in a
line of the set that the next append will take with it (`LinesGrow`, `BalanceKept`).

*Reputation epochs.* `VerdictOf` says of each stage of an epoch what it may have sent: nothing
before the verdict, copies of the verdict after. `KnowsLine` and `JudgedInLog` carry the
log window over the lines that other runs append and the torn line a restart leaves.
`EpochIsSound` includes that decisions for assets no better than the average
do not raise a score, for any sheet of yields.

*RPC reads.* `TrueSoFar` is the invariant of a read half done: field by field what
the contract held or a default that may stand (`MayStand`), at heights that never fall. It must also hold of what is cached
(`ResultsAreTrue`), and one cached result at most (`CacheHoldsOne`) is what the refinement
of `ReadClient` turns on. The attempts are bounded by tying the counters of the nested
retries to the requests sent (`RequestsAreFailures`), which gives the square where they are nested
(`NestedAttempts`). `LimitIsLast` keeps a 429 the last answer of a read under fast-fail;
`LimitStep` says of the step that ends a read with one what it leaves in the client.

*Storage and bytes.* `DecodingIsTrue` is about two functions that undo each other, and
holds for every base of a byte, every length of an account hash and all values. The invariant
(`CodecInv`) says of the store that a field is there exactly when its key is, with the bytes
of its value. What the last read found follows from three facts: two fields, or
one field for two accounts, never hash to one key (`KeysDiffer`); what was written out in
bytes is read back (`U32RoundTrip` and `U64RoundTrip`, by successive division, `FlatFives` for
the entries of an allocation, five bytes each at a multiple of five); and a value whose
end is missing does not have the length its prefix announces (`InnerOfStored`,
`EverythingFits`). The assumption `CodecAssumption` says that lengths fit in the four bytes
that announce them, without which it is false.

*Allocation rules.* The invariant `RulesInv` says what each outcome means while it stands:
what was submitted has passed the sanity gate; an action on a true reading was taken on a drift
above the threshold from what the vault still holds. `NeverForItsWeights` then is that gate and
contract add up the same fold, whatever the owner does to pause and agent in the meantime. `EachAssetOnce` counts: `NumAssets` entries with `NumAssets`
different ids, all of them assets, name every asset, so that `new Map` loses none.
`ActsOnChange` needs that the drift, a maximum over both maps' ids, is that of some asset
(`DriftIsSomeAssets`), which holds of two allocations that each name every asset once.

*Deposit dialog.* The five conjuncts of `DialogIsTrue` are nearly inductive together; what
they lack is what ties a try to the review it was signed from (`ReviewedAmount`,
`SignedAsReviewed`), what an answer may say in which connector (`OneConnector`, `AnswersFit`,
`StatesFit`), and what the balance on the page is worth: it was the account's once, and is still
covered unless a deposit has been executed since (`BalanceWasOwned`, `Covers`). `OverlayFromDeposits` is a sum over the tries and needs `FoldFacts`:
an answer that comes adds exactly its own deposit (`TotalGrows`), every other step none.

*Cockpit.* `LiveIsRecent` bounds how old the figures under a LIVE chip may be. Its invariant
gives each place where a figure waits its own bound: a read that knows when it began,
a cache entry that knows when it was stored, a page that knows when it got its figures
(`ReadIsFresh`, `CacheIsFresh`, `PageIsFresh`), each the bound of the place before plus its
own age. `gone[v]` counts for how long the vault has no longer been at `v` and stops
at a cap, and so does the sum it is compared with; `CountsUpTo` is the lemma about that.
`ZerosInv` says of the fallback's zeros that they are as old as a failure (`ZerosAreFresh`); no
cache ever holds them.

*Trigger button.* The claim is about a click that was given up while its request was still
in the agent's queue. `ClickFits` says for every stage of a click what the agent may have
done for it: a refused one has started nothing and waits nowhere, and only one that was
accepted, replaced by a demo decision or lost on its way to the route may have. Timers of earlier clicks are
counted against answered clicks (`TimersFit`), a cardinality that `resetTimer` keeps.

*Oracle panel.* `ReceiptsAreLogged` says, where no append is torn, that every payment the
oracle has recorded, every receipt in the file, and whatever is on its way to the page or on
it has had its line; `SourcesFit` what a notice may claim: live data were served, a
cached payment is one. The same invariant serves both instances, since an oracle that does not
tear may do nothing that one that tears may not (`TearMayDoWhatOracleDoes`).

*Decision feed.* The route reads a window of the log, drops what it cannot parse and turns the
rest around, so the question is about a filter. `Only` counts the kept positions
off: its k-th entry is at the position with k kept ones up to it. `FoldFacts` proves that
every position is counted off once, in ascending order (`NthCountsOff`), and that the positions
behind some point are counted off after those up to it (`NthBehind`), which is what the
last records of the last lines are (`LatestRecords`). Nothing can be said of the order of the
log, since appends overtake one another and the file may be emptied; what holds is that a decision
that has its line, whole, is no longer being appended (`LogFits`). The page's rows, and every
answer on its way to it, are a `Stretch` of the log, read backwards without a gap, or
`Gone` from it (`RowsFit`). That survives an append that ends after a read because the line it
completes is the last of the file, behind all rows, and the decision is in no row, for rows are of
decisions that are no longer being appended. `ListStays` is about what failures leave: a page
that has decisions is given an empty answer only when none of them is in the log any more
(`NeverEmptied`), since a decision among the last lines stays among them until others have replaced it
or the file is emptied. `FeedInv` serves the page with and without demo mode.

*MCP server.* `EffectsFit` goes call by call: it has submitted exactly when it has answered
so, and has paid before it answers with data. The number of executed reallocations is the vault's version
(`version = Cardinality(Executed)`), which keeps the chain within its bound. For
`StateIsRecent`, `StillAt(v, t)` says that the vault had version `v` at some moment not before
`t`. A read that has its answer had it from while it was under way (`RequestIsRecent`), and is
over within the read time; so an entry of the cache, whichever read left it, was true no
longer before its expiry than TTL and read time together (`EntryIsRecent`), and an entry that is
still served has not expired.

*Deploy script.* The invariant speaks of all runs at once. `SeedInOnePlace`: the seed of a
registry is still to be sent, pending, or executed, exactly one of them, though a run
that timed out left its transaction behind. `NamedFirst`: a registry is in `testnet.json`
before anything is registered with it, so that the next run finds it. `SuccessIsTrue`:
what a run has seen succeed has been executed. `MoneyIsThere`: a run that has seen a
balance that covers it still has what its remaining steps cost, whatever earlier
runs' transactions may yet take (`OneAtATime`, `Due`, `Later`).

*Start.* What the loader makes of `.env` and shell is a fold over the lines; `MadeOf(t)` says
which environments the lines `t` may make, and `HydratedIsMade` that the fold makes one of
them, by induction over the sets of lines. From it `ShellComesFirst`. `OneAgentGoesOn` needs of the
port that at most one holds it, and of the processes that whoever does is past its start, over
stops and failed listens in any order (`StartInv`).

Proving changed the models where they could be read in two ways: three `CASE`s had guards
that overlap (`VaultModal!Overlay`, `Cockpit!Chip`, `DecisionFeed!Panel`), of which TLC takes
the first and the prover any. They now say what the code's `if ... else if` says. `@` inside the value of another
`EXCEPT`, which this prover reads as the outer one, is written out in `Wallet` and
`TriggerButton`, and `Startup!LastWritten` takes the last line by its index. `OdraCodec` makes a
number of four bytes by repeated division and not from powers, and
`AllocationRules!Ascending` says what an ascending order is instead of sorting by an operator
this prover cannot expand; so does `DecisionFeed!Only` what a filter keeps, instead of
`SelectSeq`. `FeedAssumption` says that old lines are counted among the decisions
(`MaxOld` is at most `MaxDecisions`), which every run had and the numbers of the old lines need.

### What stays with TLC, and why

- Liveness and fairness, which are out of this prover's reach, as is `ENABLED`:
  `AlwaysReadyAgain`, `EpochsEnd`, `NothingHangs`, `EverythingComesBack`,
  `WatchesEndInTruth`, `VaultFollowsDecisions`.
- With them the whole of `AgentChain` but for what its watches say, since its questions are
  where things end up.

## 5. Not modelled, and why

- Events, log output, prompts, JSON and schema texts, the providers' requests of the LLM
  clients: no property depends on them.
- The CEP-18 module, the purse, block time, the node, the wallet extension and the LLM are
  external, modelled from how the code uses them. The live facilitator calls an external
  service the repository only names.
- Signatures, keys and digests: cryptography is taken as working.
- `demo-decision.ts`, `demo-oracle.ts`, `repo-paths.ts`: constant data and path handling.
- The offline demo mode of the agent, beyond its start: it bypasses the reads and gates
  and has a mock for a chain.
- `AgentLoop.stop()`: only a test calls it.
- Charts (with the demo's allocation over the vault's), reputation arithmetic for display,
  layout and styles: user interface.
- `demo-check.mjs`, and of the deploy script the choice of wasm-opt flags and the encoding
  of transactions: no state.
