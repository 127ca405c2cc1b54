------------------------------- MODULE Deploy -------------------------------
(***************************************************************************)
(* Building and deploying the contracts: scripts/build-contracts.mjs, and  *)
(* scripts/deploy-testnet.mjs, which installs vault and registry, records  *)
(* their hashes in contracts/deployments/testnet.json and registers and    *)
(* seeds the agent, one transaction after another.  The script keeps       *)
(* nothing but that file: after a failure it is started again.  A contract *)
(* is named by the run that installed it, 0 is none.                       *)
(***************************************************************************)
EXTENDS Integers, FiniteSets

CONSTANTS
    MaxRuns,            \* bound: runs of the deploy script
    Balances,           \* what the deployer's account may own at first
    InstallPayment,     \* INSTALL_PAYMENT_MOTES
    CallPayment         \* CALL_PAYMENT_MOTES

DeployAssumption ==
    /\ MaxRuns \in Nat /\ Balances \subseteq Nat
    /\ InstallPayment \in Nat \ {0} /\ CallPayment \in Nat \ {0}

VARIABLES
    building,   \* build-contracts.mjs: steps done + 1, or 0
    target,     \* contracts with a wasm in cargo's target directory
    wasm,       \* contracts/wasm
    runs,       \* runs of the deploy script so far
    script,     \* the latest one
    file,       \* contracts/deployments/testnet.json
    env,        \* REGISTRY_CONTRACT_HASH
    pending,    \* transactions the node has taken and not executed
    balance,
    installed,  \* the contracts on chain
    key,        \* the deployer's named keys
    seen,       \* the named keys as the node reports them
    registered, \* registries that know the agent
    seeds,      \* seed updates each registry has applied
    named       \* registries that testnet.json has named

buildVars == <<building, target, wasm>>
chainVars == <<pending, balance, installed, key, seen, registered, seeds>>
vars == <<buildVars, runs, script, file, env, chainVars, named>>

Contracts == {"vault", "registry"}
Runs == 1..MaxRuns
Steps == {"vault", "registry", "record", "register", "seed"}

Idle == [step |-> "none", phase |-> "put", only |-> FALSE, vault |-> 0, registry |-> 0,
         result |-> "none", reason |-> "none", checked |-> FALSE, clear |-> FALSE]

TypeOK ==
    /\ building \in 0..6 /\ target \subseteq Contracts
    /\ wasm \in [Contracts -> {"none", "raw", "processed"}]
    /\ runs \in 0..MaxRuns
    /\ script \in [step : Steps \union {"none", "preflight", "lookup", "done", "failed"},
                   phase : {"put", "wait", "key"}, only : BOOLEAN,
                   vault : 0..MaxRuns, registry : 0..MaxRuns,
                   result : {"none", "success", "gas", "refused"},
                   reason : {"none", "low", "funds", "lookup", "node", "gas", "refused", "timeout", "key", "crash"},
                   checked : BOOLEAN, clear : BOOLEAN]
    /\ file \in [vault : 0..MaxRuns, registry : 0..MaxRuns, by : 0..MaxRuns]
    /\ env \in 0..MaxRuns
    /\ pending \subseteq [kind : Steps \ {"record"}, run : Runs, wasm : {"none", "raw", "processed"},
                          registry : 0..MaxRuns]
    /\ balance \in Nat
    /\ installed \in [Contracts -> SUBSET Runs]
    /\ key \in [Contracts -> 0..MaxRuns] /\ seen \in [Contracts -> 0..MaxRuns]
    /\ registered \subseteq Runs /\ named \subseteq Runs
    /\ seeds \in [Runs -> 0..MaxRuns]

Init ==
    /\ building = 0 /\ target = {} /\ wasm = [c \in Contracts |-> "none"]
    /\ runs = 0 /\ script = Idle /\ env = 0
    /\ file = [vault |-> 0, registry |-> 0, by |-> 0]
    /\ pending = {} /\ balance \in Balances
    /\ installed = [c \in Contracts |-> {}]
    /\ key = [c \in Contracts |-> 0] /\ seen = [c \in Contracts |-> 0]
    /\ registered = {} /\ seeds = [r \in Runs |-> 0] /\ named = {}

Busy == script.step \notin {"none", "done", "failed"}

-----------------------------------------------------------------------------
(* build-contracts.mjs: cargo, the copy to contracts/wasm, and wasm-opt    *)
(* with wasm-strip on the copy itself; the vault first, then the registry. *)

Compile(c) ==
    /\ target' = target \union {c}
    /\ UNCHANGED wasm

Copy(c) ==
    /\ wasm' = [wasm EXCEPT ![c] = "raw"]
    /\ UNCHANGED target

Optimize(c) ==
    /\ wasm' = [wasm EXCEPT ![c] = "processed"]
    /\ UNCHANGED target

Build ==
    /\ ~Busy
    /\ building = 0 => \E c \in Contracts : wasm[c] # "processed"
    /\ building' = (building + 1) % 7
    /\ LET c == IF building < 4 THEN "vault" ELSE "registry" IN
       CASE building = 0 -> UNCHANGED <<target, wasm>>
         [] building \in {1, 4} -> Compile(c)
         [] building \in {2, 5} -> Copy(c)
         [] building \in {3, 6} -> Optimize(c)
    /\ UNCHANGED <<runs, script, file, env, chainVars, named>>

\* cargo, wasm-opt or wasm-strip fails, or somebody stops the build.
BuildStops ==
    /\ building # 0
    /\ building' = 0
    /\ UNCHANGED <<target, wasm, runs, script, file, env, chainVars, named>>

-----------------------------------------------------------------------------
(* deploy-testnet.mjs                                                      *)

\* resolveWasm: what the build left in contracts/wasm, else cargo's output.
Wasm(c) == IF wasm[c] = "none" /\ c \in target THEN "raw" ELSE wasm[c]

StartScript(only) ==
    /\ ~Busy /\ building = 0 /\ runs < MaxRuns
    /\ only \/ \A c \in Contracts : Wasm(c) # "none"
    /\ runs' = runs + 1
    /\ script' = [Idle EXCEPT !.step = "preflight", !.only = only, !.clear = (pending = {})]
    /\ UNCHANGED <<buildVars, file, env, chainVars, named>>

Fails(why) == script' = [script EXCEPT !.step = "failed", !.reason = why]

MinBalance == IF script.only THEN 2 * CallPayment ELSE 2 * InstallPayment + 3 * CallPayment

\* A balance that cannot be read counts as 0, and 0 is let through.
Preflight ==
    /\ script.step = "preflight"
    /\ \E answer \in {0, balance} :
        IF answer > 0 /\ answer < MinBalance THEN Fails("low")
        ELSE script' = [script EXCEPT !.step = IF script.only THEN "lookup" ELSE "vault",
                                      !.checked = answer > 0]
    /\ UNCHANGED <<buildVars, runs, file, env, chainVars, named>>

\* REGISTER_ONLY: the registry of the environment, else the recorded one.
Lookup ==
    /\ script.step = "lookup"
    /\ LET registry == IF env # 0 THEN env ELSE file.registry IN
       IF registry = 0 THEN Fails("lookup")
       ELSE script' = [script EXCEPT !.step = "register", !.registry = registry]
    /\ UNCHANGED <<buildVars, runs, file, env, chainVars, named>>

Transaction ==
    [kind |-> script.step, run |-> runs, registry |-> script.registry,
     wasm |-> IF script.step \in Contracts THEN Wasm(script.step) ELSE "none"]

Payment(t) == IF t.kind \in Contracts THEN InstallPayment ELSE CallPayment

\* putTransaction: taken, refused for want of money, lost on the way, or taken
\* with its answer lost.
Put ==
    /\ script.step \in Steps \ {"record"} /\ script.phase = "put"
    /\ \/ /\ balance >= Payment(Transaction)
          /\ pending' = pending \union {Transaction}
          /\ script' = [script EXCEPT !.phase = "wait", !.result = "none"] \/ Fails("node")
       \/ /\ UNCHANGED pending
          /\ Fails("node") \/ (balance < Payment(Transaction) /\ Fails("funds"))
    /\ UNCHANGED <<buildVars, runs, file, env, balance, installed, key, seen, registered, seeds, named>>

After == CASE script.step = "register" -> "seed"
           [] script.step = "seed" -> "done"
           [] OTHER -> script.step

\* waitForSuccess, when waitForTransaction returns.
Confirm ==
    /\ script.phase = "wait" /\ script.result # "none" /\ Busy
    /\ IF script.result # "success" THEN Fails(script.result)
       ELSE script' = [script EXCEPT !.step = After,
                                     !.phase = IF script.step \in Contracts THEN "key" ELSE "put"]
    /\ UNCHANGED <<buildVars, runs, file, env, chainVars, named>>

\* EXEC_TIMEOUT_MS: the transaction stays with the node (its TTL is 30 minutes).
Timeout ==
    /\ script.phase = "wait" /\ Busy
    /\ Fails("timeout")
    /\ UNCHANGED <<buildVars, runs, file, env, chainVars, named>>

\* readPackageHash: whichever hash is under the name.
ReadKey ==
    /\ script.phase = "key" /\ Busy
    /\ seen[script.step] # 0
    /\ script' = IF script.step = "vault"
                 THEN [script EXCEPT !.step = "registry", !.phase = "put", !.vault = seen["vault"]]
                 ELSE [script EXCEPT !.step = "record", !.phase = "put", !.registry = seen["registry"]]
    /\ UNCHANGED <<buildVars, runs, file, env, chainVars, named>>

\* No such key within 30 s, or the query fails.
KeyTimeout ==
    /\ script.phase = "key" /\ Busy
    /\ Fails("key")
    /\ UNCHANGED <<buildVars, runs, file, env, chainVars, named>>

Record ==
    /\ script.step = "record"
    /\ file' = [vault |-> script.vault, registry |-> script.registry, by |-> runs]
    /\ named' = named \union {script.registry}
    /\ script' = [script EXCEPT !.step = "register"]
    /\ UNCHANGED <<buildVars, runs, env, chainVars>>

\* The process is killed, or writing the file fails.
Crash ==
    /\ Busy
    /\ Fails("crash")
    /\ UNCHANGED <<buildVars, runs, file, env, chainVars, named>>

\* DEPLOYMENT.md, step 4: the operator copies the hashes into the environment.
Export ==
    /\ ~Busy /\ file.registry # env
    /\ env' = file.registry
    /\ UNCHANGED <<buildVars, runs, script, file, chainVars, named>>

-----------------------------------------------------------------------------
(* The chain                                                               *)

\* The outcome goes to the script if it is still waiting for t.
Outcome(t, result) ==
    IF script.phase = "wait" /\ script.step = t.kind /\ runs = t.run
    THEN [script EXCEPT !.result = result] ELSE script

\* A transaction that is executed pays, even when it runs out of gas, when its
\* wasm is raw or when the contract refuses it.
ExecuteFails(t) ==
    /\ UNCHANGED <<installed, key, registered, seeds>>
    /\ \/ script' = Outcome(t, "gas")
       \/ /\ \/ t.wasm = "raw"
             \/ t.kind = "register" /\ t.registry \in registered
             \/ t.kind = "seed" /\ t.registry \notin registered
          /\ script' = Outcome(t, "refused")

ExecuteInstalls(t) ==
    /\ t.kind \in Contracts /\ t.wasm = "processed"
    /\ installed' = [installed EXCEPT ![t.kind] = @ \union {t.run}]
    /\ key' = [key EXCEPT ![t.kind] = t.run]     \* odra_cfg_allow_key_override
    /\ UNCHANGED <<registered, seeds>>
    /\ script' = Outcome(t, "success")

\* register_agent twice is an error of the registry (AlreadyRegistered).
ExecuteRegisters_Again(t) ==
    /\ t.kind = "register"
    /\ registered' = registered \union {t.registry}
    /\ UNCHANGED <<installed, key, seeds>>
    /\ script' = Outcome(t, "success")

ExecuteRegisters(t) ==
    /\ t.kind = "register" /\ t.registry \notin registered
    /\ registered' = registered \union {t.registry}
    /\ UNCHANGED <<installed, key, seeds>>
    /\ script' = Outcome(t, "success")

ExecuteSeeds(t) ==
    /\ t.kind = "seed" /\ t.registry \in registered
    /\ seeds' = [seeds EXCEPT ![t.registry] = @ + 1]
    /\ UNCHANGED <<installed, key, registered>>
    /\ script' = Outcome(t, "success")

Execute(t) ==
    /\ pending' = pending \ {t}
    /\ balance >= Payment(t)
    /\ balance' = balance - Payment(t)
    /\ ExecuteFails(t) \/ ExecuteInstalls(t) \/ ExecuteRegisters(t) \/ ExecuteSeeds(t)
    /\ UNCHANGED <<buildVars, runs, file, env, seen, named>>

\* The TTL runs out, or the money has gone to another transaction.
Expire(t) ==
    /\ pending' = pending \ {t}
    /\ UNCHANGED <<buildVars, runs, script, file, env, balance, installed, key, seen, registered, seeds, named>>

\* "State can lag briefly after finalization."
NodeCatchesUp ==
    /\ seen # key
    /\ seen' = key
    /\ UNCHANGED <<buildVars, runs, script, file, env, pending, balance, installed, key, registered, seeds, named>>

Next ==
    \/ Build \/ BuildStops \/ Export
    \/ \E only \in BOOLEAN : StartScript(only)
    \/ Preflight \/ Lookup \/ Put \/ Confirm \/ Timeout \/ ReadKey \/ KeyTimeout \/ Record \/ Crash
    \/ \E t \in pending : Execute(t) \/ Expire(t)
    \/ NodeCatchesUp

Spec == Init /\ [][Next]_vars

\* The script's own steps and timers.
FairSpec ==
    /\ Spec
    /\ WF_vars(Preflight) /\ WF_vars(Lookup) /\ WF_vars(Put) /\ WF_vars(Confirm \/ Timeout)
    /\ WF_vars(ReadKey \/ KeyTimeout) /\ WF_vars(Record)

-----------------------------------------------------------------------------
(* deploy-testnet.mjs:330, "Deploy + seed complete": the agent is          *)
(* registered with the script's registry and has its seed, whatever        *)
(* earlier runs left behind.                                               *)
CompleteMeansSeeded ==
    script.step = "done" => script.registry \in registered /\ seeds[script.registry] > 0

(* However often the script is started again, and whatever transactions of *)
(* earlier runs are executed late, no registry applies the seed twice.     *)
SeededOnce == \A r \in Runs : seeds[r] <= 1

(* A run that has seen enough money, with nothing of an earlier run still  *)
(* pending, does not end for want of money.                                *)
PreflightCovers == (script.checked /\ script.clear) => script.reason # "funds"

(* testnet.json names only contracts that are on chain, and every registry *)
(* that knows the agent has been named there: a registration cannot be     *)
(* lost with the run that made it.                                         *)
RecordedAndInstalled ==
    /\ file.by # 0 => file.vault \in installed["vault"] /\ file.registry \in installed["registry"]
    /\ registered \subseteq named

(* Every run of the script ends.                                           *)
RunEnds == Busy ~> ~Busy
=============================================================================
