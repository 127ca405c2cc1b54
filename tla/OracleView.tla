----------------------------- MODULE OracleView -----------------------------
(***************************************************************************)
(* What the cockpit's oracle panel shows, and where it comes from: the     *)
(* snapshot that the oracle process holds, logs/payments.jsonl with its    *)
(* three writers (the oracle, the agent and scripts/demo.mjs), the route   *)
(* /api/oracle that asks the one and falls back to the other, and the      *)
(* panel's poller.  Yields are left out; a receipt is the payment it is    *)
(* for, and Unpaid the made-up receipt of demo data.  How a payment is     *)
(* verified is in Oracle, the poller's timing in Cockpit.                  *)
(***************************************************************************)
EXTENDS Integers, Sequences, SequencesExt

CONSTANTS
    Payments,       \* payments the oracle honours, numbered from 1
    Seeds,          \* lines that demo.mjs writes
    MayTear,        \* the oracle may end in the middle of an append
    MaxEnds         \* bound: ends of the oracle process

OracleViewAssumption ==
    /\ Payments \subseteq Nat \ {0}
    /\ Seeds \in Nat /\ MaxEnds \in Nat /\ MayTear \in BOOLEAN

VARIABLES
    up,         \* the oracle process runs
    ends,       \* how often it has ended
    latest,     \* latestOracleData: its receipt, or Unpaid
    stage,      \* where each payment is
    lines,      \* payments.jsonl
    open,       \* the last line has no newline
    logged,     \* receipts that have had a readable line
    script,     \* demo.mjs: lines it still writes, or NotRun
    poll,       \* the page's request
    page        \* what the panel shows

oracleVars == <<up, ends, latest, stage>>
logVars == <<lines, open, logged>>
vars == <<oracleVars, logVars, script, poll, page>>

Unpaid == 0
NotRun == -1
Line(form, p) == [form |-> form, receipt |-> p]
NoPoll == [at |-> "none", receipt |-> Unpaid, source |-> "none"]

TypeOK ==
    /\ up \in BOOLEAN /\ ends \in 0..MaxEnds
    /\ latest \in Payments \union {Unpaid}
    /\ stage \in [Payments -> {"idle", "writing", "written", "served", "lost", "done"}]
    /\ lines \in Seq([form : {"receipt", "seed", "broken"}, receipt : Payments \union {Unpaid}])
    /\ open \in BOOLEAN /\ (open => lines # <<>>)
    /\ logged \subseteq Payments
    /\ script \in {NotRun} \union 0..Seeds
    /\ poll \in [at : {"none", "oracle", "log", "answer"}, receipt : Payments \union {Unpaid},
                 source : {"none", "live", "payments-log", "demo"}]
    /\ page \in [receipt : Payments \union {Unpaid}, source : {"none", "live", "payments-log", "demo"},
                 error : BOOLEAN]

Init ==
    /\ up = TRUE /\ ends = 0 /\ latest = Unpaid
    /\ stage = [p \in Payments |-> "idle"]
    /\ lines = <<>> /\ open = FALSE /\ logged = {}
    /\ script = NotRun
    /\ poll = NoPoll
    /\ page = [receipt |-> Unpaid, source |-> "none", error |-> FALSE]

-----------------------------------------------------------------------------
(* payments.jsonl                                                          *)

\* appendJsonl: after a torn line the new one is part of it.
Write(line) ==
    /\ lines' = IF open THEN Append(Front(lines), Line("broken", Unpaid)) ELSE Append(lines, line)
    /\ open' = FALSE
    /\ logged' = IF ~open /\ line.form = "receipt" THEN logged \union {line.receipt} ELSE logged

-----------------------------------------------------------------------------
(* The oracle and the agent                                                *)

\* The payment is verified, its line about to be written.
Verify(p) ==
    /\ up /\ stage[p] = "idle"
    /\ stage' = [stage EXCEPT ![p] = "writing"]
    /\ UNCHANGED <<up, ends, latest, logVars, script, poll, page>>

Record(p) ==
    /\ stage[p] = "writing"
    /\ Write(Line("receipt", p))
    /\ stage' = [stage EXCEPT ![p] = "written"]
    /\ UNCHANGED <<up, ends, latest, script, poll, page>>

\* latestOracleData and the answer
Serve(p) ==
    /\ stage[p] = "written"
    /\ latest' = p
    /\ stage' = [stage EXCEPT ![p] = "served"]
    /\ UNCHANGED <<up, ends, logVars, script, poll, page>>

\* The agent logs the receipt as well.
AgentLogs(p) ==
    /\ stage[p] = "served"
    /\ Write(Line("receipt", p))
    /\ stage' = [stage EXCEPT ![p] = "done"]
    /\ UNCHANGED <<up, ends, latest, script, poll, page>>

\* The oracle ends, with an append under way or not, and has no snapshot then.
OracleEnds ==
    /\ up /\ ends < MaxEnds
    /\ up' = FALSE /\ ends' = ends + 1 /\ latest' = Unpaid
    /\ stage' = [p \in Payments |-> IF stage[p] \in {"writing", "written"} THEN "lost" ELSE stage[p]]
    /\ \/ UNCHANGED logVars
       \/ /\ MayTear /\ ~open
          /\ \E p \in Payments : stage[p] = "writing"
          /\ lines' = Append(lines, Line("broken", Unpaid))
          /\ open' = TRUE
          /\ UNCHANGED logged
    /\ UNCHANGED <<script, poll, page>>

OracleStarts ==
    /\ ~up
    /\ up' = TRUE
    /\ UNCHANGED <<ends, latest, stage, logVars, script, poll, page>>

-----------------------------------------------------------------------------
(* demo.mjs                                                                *)

ClearLogs ==
    /\ script = NotRun
    /\ lines' = <<>> /\ open' = FALSE
    /\ script' = Seeds
    /\ UNCHANGED <<oracleVars, logged, poll, page>>

\* Its payment has amount_motes and expiry_unix, which the oracle's schema does
\* not know, so that none is honoured; its lines have no receipt.
SeedLine ==
    /\ script > 0
    /\ Write(Line("seed", Unpaid))
    /\ script' = script - 1
    /\ UNCHANGED <<oracleVars, poll, page>>

-----------------------------------------------------------------------------
(* The route and the page                                                  *)

PollBegins ==
    /\ poll.at = "none"
    /\ poll' = [NoPoll EXCEPT !.at = "oracle"]
    /\ UNCHANGED <<oracleVars, logVars, script, page>>

Answer(receipt, source) == poll' = [at |-> "answer", receipt |-> receipt, source |-> source]

\* GET /api/oracle/latest, with demo data while nothing has been paid.
OracleAnswers ==
    /\ poll.at = "oracle" /\ up
    /\ Answer(latest, "live")
    /\ UNCHANGED <<oracleVars, logVars, script, page>>

\* Nobody listens, or not in five seconds, or the answer is none.
OracleFails ==
    /\ poll.at = "oracle"
    /\ poll' = [poll EXCEPT !.at = "log"]
    /\ UNCHANGED <<oracleVars, logVars, script, page>>

\* The last line counts, if it can be parsed and has a receipt.
ReadLog ==
    /\ poll.at = "log"
    /\ IF lines # <<>> /\ Last(lines).form = "receipt"
       THEN Answer(Last(lines).receipt, "payments-log")
       ELSE Answer(Unpaid, "demo")
    /\ UNCHANGED <<oracleVars, logVars, script, page>>

Delivered ==
    /\ poll.at = "answer"
    /\ page' = [receipt |-> poll.receipt, source |-> poll.source, error |-> FALSE]
    /\ poll' = NoPoll
    /\ UNCHANGED <<oracleVars, logVars, script>>

\* The page gives up; it keeps what it shows.
RequestFails ==
    /\ poll.at # "none"
    /\ page' = [page EXCEPT !.error = TRUE]
    /\ poll' = NoPoll
    /\ UNCHANGED <<oracleVars, logVars, script>>

Next ==
    \/ \E p \in Payments : Verify(p) \/ Record(p) \/ Serve(p) \/ AgentLogs(p)
    \/ OracleEnds \/ OracleStarts
    \/ ClearLogs \/ SeedLine
    \/ PollBegins \/ OracleAnswers \/ OracleFails \/ ReadLog \/ Delivered \/ RequestFails

Spec == Init /\ [][Next]_vars

\* The page polls, a request ends after FETCH_TIMEOUT_MS at the latest, and not
\* every request to an oracle that is up fails, on either way.
FairSpec ==
    /\ Spec
    /\ WF_vars(PollBegins) /\ WF_vars(Delivered \/ RequestFails)
    /\ SF_vars(OracleAnswers) /\ SF_vars(Delivered /\ poll.source = "live")

-----------------------------------------------------------------------------
(* DEMO.md:135: the receipt on the screen is one that payments.jsonl has   *)
(* had a line for, whatever order payments, polls and restarts come in     *)
(* (app.ts:142 writes the line before the snapshot is made).               *)
ShownReceiptIsLogged == page.receipt # Unpaid => page.receipt \in logged

(* A panel without the "oracle offline" notice shows what an oracle has    *)
(* served; one that says "cached payment" shows a payment.                 *)
NoticeTellsTheSource ==
    /\ (page.source = "live" /\ page.receipt # Unpaid) => stage[page.receipt] \in {"served", "done"}
    /\ page.source = "payments-log" => page.receipt # Unpaid

(* When the oracle stays up, every panel comes to show its data again,     *)
(* whatever it has shown meanwhile.                                        *)
PanelRecovers == <>[]up => []<>(page.source = "live")
=============================================================================
