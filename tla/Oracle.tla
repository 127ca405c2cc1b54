------------------------------- MODULE Oracle -------------------------------
(***************************************************************************)
(* The x402 oracle (packages/oracle) and the clients that buy from it      *)
(* (oracle-client.ts, used by the agent's runs, by its reputation epochs   *)
(* and by the MCP server).  A purchase is two requests: the first is       *)
(* answered 402 with an expiry, the second carries a signed payload with a *)
(* nonce of its own; the oracle verifies it, appends the payment to        *)
(* payments.jsonl, and only then makes the data and answers.               *)
(*                                                                         *)
(* Verification runs without an await, so it is one action; the append is  *)
(* awaited, so other requests, the client's 10 s abort and the end of the  *)
(* process come between it and the answer.  A failed append rejects an     *)
(* async Express 4 handler, which nothing catches: Node ends the process.  *)
(* An append cut short leaves a line without its newline, which the next   *)
(* append makes one unreadable line with its own (jsonl.ts).               *)
(*                                                                         *)
(* The log has two more writers: an iteration of the agent's loop, and     *)
(* scripts/demo.mjs, which empties the file and puts lines of its own in.  *)
(*                                                                         *)
(* Abstracted: a nonce is the purchase it was drawn for (uuid v4); the     *)
(* signature is well formed (the mock facilitator looks no closer) and the *)
(* recipient is the one the 402 named, so that check passes; the assets    *)
(* served are the time they were made at.  The live facilitator is a stub  *)
(* and is left out.                                                        *)
(***************************************************************************)
EXTENDS Integers, Sequences, FiniteSets

CONSTANTS
    Purchases,          \* calls of OracleClient.fetch
    LoopPurchases,      \* those made by an iteration of the agent loop
    Copies,             \* bound: presentations of one payload
    Amounts,            \* what the clients may be configured to pay
    Price,              \* ORACLE_PRICE_MOTES of the oracle
    Window,             \* validity of a payment offer
    MaxNow,             \* bound: time explored
    MaxLives,           \* bound: lives of the oracle process
    Seeds               \* lines that demo.mjs writes

ASSUME OracleAssumption ==
    /\ LoopPurchases \subseteq Purchases
    /\ Copies \in Nat \ {0}
    /\ Amounts \subseteq [Purchases -> Nat]
    /\ Price \in Nat
    /\ Window \in Nat \ {0}
    /\ MaxNow \in Nat
    /\ MaxLives \in Nat \ {0}
    /\ Seeds \in Nat

VARIABLES
    now,                \* the clock
    \* the oracle process
    life,               \* which life of the process this is
    seenNonces,         \* MockFacilitator.seenNonces
    latest,             \* latestOracleData: when it was made, or None
    handler,            \* where the request carrying each presentation is
    \* the clients
    amount,             \* what each purchase pays, oraclePriceMotes of its client
    client,             \* where each purchase is
    expiry,             \* expiryUnix of each purchase's payload
    received,           \* the data each purchase brought back, or None
    \* what is on disk, and a record of what was served
    payments,           \* the lines of payments.jsonl, from its first use on
    cleared,            \* how many of them demo.mjs has emptied the file of
    torn,               \* the file ends without a newline
    script,             \* demo.mjs: lines it still writes, or None before it runs
    served              \* the answers with data: presentation and life

oracle == <<life, seenNonces, latest>>
clients == <<client, expiry, received>>
log == <<payments, cleared, torn>>
vars == <<now, oracle, handler, amount, clients, log, script, served>>

None == -1
Times == 0 .. MaxNow
Lives == 1 .. MaxLives

\* The same payload may reach the oracle more than once: copy 1 is the client's.
Presentations == Purchases \X (1 .. Copies)
Nonce(p) == p[1]

ClientStages == {"idle", "asking", "offered", "paying", "paid", "done", "failed"}
HandlerStages == {"none", "wire", "writing", "written", "served", "refused", "lost"}

\* The lines that can be read and name a payment, and the other ones: those of
\* demo.mjs, and what is left of two lines that ran into each other, or of one.
Entries == [writer : {"oracle", "agent"}, nonce : Purchases]
Entry(who, c) == [writer |-> who, nonce |-> c]
Seeded == [writer |-> "demo"]
Broken == [writer |-> "nobody"]
Lines == Entries \cup {Seeded, Broken}
Servings == [by : Presentations, life : Lives, at : Times]

-----------------------------------------------------------------------------
Init ==
    /\ now = 0
    /\ life = 1
    /\ seenNonces = {}
    /\ latest = None
    /\ handler = [p \in Presentations |-> "none"]
    /\ amount \in Amounts
    /\ client = [c \in Purchases |-> "idle"]
    /\ expiry = [c \in Purchases |-> 0]
    /\ received = [c \in Purchases |-> None]
    /\ payments = << >>
    /\ cleared = 0
    /\ torn = FALSE
    /\ script = None
    /\ served = {}

(* payments.jsonl.                                                         *)

\* appendFile, to its end or cut short: behind a torn line the new one is lost in it.
Written(line, cut) ==
    /\ payments' = IF torn THEN [payments EXCEPT ![Len(payments)] = Broken]
                   ELSE Append(payments, line)
    /\ torn' = cut
    /\ UNCHANGED cleared

\* A line cut short: a part of it, or all but the newline.
CutShort(line) == Written(line, TRUE) \/ Written(Broken, TRUE)

(* The client: fetch().                                                    *)

\* The first request leaves, without a payment.
Ask(c) ==
    /\ client[c] = "idle"
    /\ client' = [client EXCEPT ![c] = "asking"]
    /\ UNCHANGED <<now, oracle, handler, expiry, received, log, script, served>>

\* The oracle answers 402: the offer is good for the window from now on.
Require(c) ==
    /\ client[c] = "asking"
    /\ client' = [client EXCEPT ![c] = "offered"]
    /\ expiry' = [expiry EXCEPT ![c] = now + Window]
    /\ UNCHANGED <<now, oracle, handler, received, log, script, served>>

\* The client signs a payload with a fresh nonce and its own configured amount,
\* not the one the 402 asked for, and sends it.
Pay(c) ==
    /\ client[c] = "offered"
    /\ client' = [client EXCEPT ![c] = "paying"]
    /\ handler' = [handler EXCEPT ![<<c, 1>>] = "wire"]
    /\ UNCHANGED <<now, oracle, expiry, received, log, script, served>>

\* A payload that has left the client reaches the oracle again.
Resend(p) ==
    /\ handler[p] = "none"
    /\ handler[<<Nonce(p), 1>>] # "none"
    /\ handler' = [handler EXCEPT ![p] = "wire"]
    /\ UNCHANGED <<now, oracle, clients, log, script, served>>

\* The answer arrives: data, or a refusal, on which fetch throws.
Receive(c) ==
    /\ client[c] = "paying"
    /\ \/ /\ handler[<<c, 1>>] = "served"
          /\ client' = [client EXCEPT ![c] = "paid"]
          /\ \E s \in served : /\ s.by = <<c, 1>>
                               /\ received' = [received EXCEPT ![c] = s.at]
       \/ /\ handler[<<c, 1>>] = "refused"
          /\ client' = [client EXCEPT ![c] = "failed"]
          /\ UNCHANGED received
    /\ UNCHANGED <<now, oracle, handler, expiry, log, script, served>>

\* The 10 s abort, or the connection breaks.  The oracle does not notice.
GiveUp(c) ==
    /\ client[c] \in {"asking", "offered", "paying"}
    /\ client' = [client EXCEPT ![c] = "failed"]
    /\ UNCHANGED <<now, oracle, handler, expiry, received, log, script, served>>

\* After fetch() an iteration of the loop appends the receipt to the same file, or
\* fails to, at once or half way, and throws; the other callers do not log.
LogReceipt(c) ==
    /\ client[c] = "paid"
    /\ client' = [client EXCEPT ![c] = "done"]
    /\ \/ /\ c \in LoopPurchases
          /\ Written(Entry("agent", c), FALSE) \/ CutShort(Entry("agent", c))
       \/ UNCHANGED log
    /\ UNCHANGED <<now, oracle, handler, expiry, received, script, served>>

(* The oracle: the handler of GET /api/rwa-yields with a payment.          *)

\* MockFacilitator.verify up to the nonce, and the checks that come after it.
Expired(p) == expiry[Nonce(p)] <= now
Replayed(p) == Nonce(p) \in seenNonces
Underpaid(p) == amount[Nonce(p)] < Price

\* Slip: a nonce is recorded only with the payment.
Verify_RecordsLater(p) ==
    /\ handler[p] = "wire"
    /\ handler' = [handler EXCEPT ![p] =
                      IF Expired(p) \/ Replayed(p) \/ Underpaid(p)
                      THEN "refused" ELSE "writing"]
    /\ UNCHANGED <<now, oracle, clients, log, script, served>>

\* verify(): an expired or replayed payload is refused and leaves no trace, any
\* other one uses up its nonce, whether or not it pays enough.
Verify(p) ==
    /\ handler[p] = "wire"
    /\ \/ /\ Expired(p) \/ Replayed(p)
          /\ handler' = [handler EXCEPT ![p] = "refused"]
          /\ UNCHANGED seenNonces
       \/ /\ ~Expired(p)
          /\ ~Replayed(p)
          /\ seenNonces' = seenNonces \cup {Nonce(p)}
          /\ handler' = [handler EXCEPT ![p] =
                            IF Underpaid(p) THEN "refused" ELSE "writing"]
    /\ UNCHANGED <<now, life, latest, clients, log, script, served>>

\* appendJsonl has written the payment; the handler goes on in a later turn.
Record(p) ==
    /\ handler[p] = "writing"
    /\ handler' = [handler EXCEPT ![p] = "written"]
    /\ Written(Entry("oracle", Nonce(p)), FALSE)
    /\ UNCHANGED <<now, oracle, clients, script, served>>

\* Slip: the data is sent without waiting for the append.
Serve_BeforeRecord(p) ==
    /\ handler[p] \in {"writing", "written"}
    /\ latest' = now
    /\ served' = served \cup {[by |-> p, life |-> life, at |-> now]}
    /\ handler' = [handler EXCEPT ![p] = "served"]
    /\ UNCHANGED <<now, life, seenNonces, clients, log, script>>

\* generateAssets, latestOracleData and the answer, in one turn.
Serve(p) ==
    /\ handler[p] = "written"
    /\ latest' = now
    /\ served' = served \cup {[by |-> p, life |-> life, at |-> now]}
    /\ handler' = [handler EXCEPT ![p] = "served"]
    /\ UNCHANGED <<now, life, seenNonces, clients, log, script>>

\* The process ends, by an append that failed or otherwise, and is started again:
\* nonces, snapshot and the requests it was working on are gone, and an append
\* under way may have been cut short.
Restart ==
    /\ life < MaxLives
    /\ life' = life + 1
    /\ seenNonces' = {}
    /\ latest' = None
    /\ handler' = [p \in Presentations |->
                      IF handler[p] \in {"writing", "written"} THEN "lost" ELSE handler[p]]
    /\ \/ UNCHANGED log
       \/ \E p \in Presentations : /\ handler[p] = "writing"
                                   /\ CutShort(Entry("oracle", Nonce(p)))
    /\ UNCHANGED <<now, clients, script, served>>

(* scripts/demo.mjs, which asks the oracle for data too: its payments lack     *)
(* fields that the oracle's schema has, and none of them is honoured.          *)

ClearLog ==
    /\ script = None
    /\ script' = Seeds
    /\ cleared' = Len(payments)
    /\ torn' = FALSE
    /\ UNCHANGED <<now, oracle, handler, clients, payments, served>>

SeedLine ==
    /\ script > 0
    /\ script' = script - 1
    /\ Written(Seeded, FALSE)
    /\ UNCHANGED <<now, oracle, handler, clients, served>>

Elapse ==
    /\ now < MaxNow
    /\ now' = now + 1
    /\ UNCHANGED <<oracle, handler, clients, log, script, served>>

-----------------------------------------------------------------------------
ClientStep(c) ==
    \/ Ask(c)
    \/ Require(c)
    \/ Pay(c)
    \/ Receive(c)
    \/ GiveUp(c)
    \/ LogReceipt(c)

OracleStep(p) ==
    \/ Verify(p)
    \/ Record(p)
    \/ Serve(p)

Next ==
    /\ UNCHANGED amount
    /\ \/ \E c \in Purchases : ClientStep(c)
       \/ \E p \in Presentations : Resend(p) \/ OracleStep(p)
       \/ Restart
       \/ ClearLog
       \/ SeedLine
       \/ Elapse

Spec == Init /\ [][Next]_vars

-----------------------------------------------------------------------------
TypeOK ==
    /\ now \in Times
    /\ life \in Lives
    /\ seenNonces \subseteq Purchases
    /\ latest \in Times \cup {None}
    /\ handler \in [Presentations -> HandlerStages]
    /\ amount \in Amounts
    /\ client \in [Purchases -> ClientStages]
    /\ expiry \in [Purchases -> 0 .. MaxNow + Window]
    /\ received \in [Purchases -> Times \cup {None}]
    /\ payments \in Seq(Lines)
    /\ cleared \in Nat /\ cleared <= Len(payments)
    /\ torn \in BOOLEAN /\ (torn => cleared < Len(payments))
    /\ script \in 0 .. Seeds \cup {None}
    /\ served \in SUBSET Servings

\* A payload is honoured at most once in a life of the oracle, however often and
\* however concurrently it is presented (facilitator.ts, steps 3 and 4).
HonouredOncePerLife ==
    \A s, t \in served :
        (Nonce(s.by) = Nonce(t.by) /\ s.life = t.life) => s = t

EntriesOf(c) == {i \in DOMAIN payments :
                    payments[i].writer = "oracle" /\ payments[i].nonce = c}

\* The lines that show, or may have shown, a payment for one of C.
LinesFor(C) == {i \in DOMAIN payments :
                   \/ payments[i] = Broken
                   \/ payments[i].writer = "oracle" /\ payments[i].nonce \in C}

\* The presentations of these purchases that were answered with data.
AnsweredFor(C) == {p \in Presentations : Nonce(p) \in C /\ \E s \in served : s.by = p}

\* Whoever holds data has left a line of the oracle behind (NFR-O-02).  A line that
\* was cut short takes the next one with it, so that not every line can be read; but
\* it takes only one: whichever purchases one looks at, they were answered with data
\* no more often than the oracle has readable lines for them and the log unreadable
\* ones.  And before a line of the agent's there is the oracle's line for the same
\* purchase, or one that cannot be read.  Lines count that demo.mjs has removed since.
EveryServingLogged ==
    /\ \A C \in SUBSET Purchases : Cardinality(AnsweredFor(C)) <= Cardinality(LinesFor(C))
    /\ \A c \in Purchases : \A i \in DOMAIN payments :
          payments[i] = Entry("agent", c) => \E j \in LinesFor({c}) : j < i

\* Nobody gets data for less than the price, in any life and by any copy, although a
\* client pays the amount of its own configuration; and an underpaid payload that
\* was refused is refused for good.
UnderpaidNeverServed ==
    /\ \A s \in served : amount[Nonce(s.by)] >= Price
    /\ \A c \in Purchases : amount[c] < Price => EntriesOf(c) = {}

\* While the process lives the public snapshot only moves forward in time, although
\* requests are answered in any order (app.ts makes the data after the append).
SnapshotMovesForward == [][life' = life => latest' >= latest]_vars

\* What the paid endpoint promises beside: everything of the right kind, whoever holds
\* data left a line behind, readable or not, nobody got data for less than the price, and the
\* snapshot never goes back, although clients give up and ask again and the oracle dies
\* between its steps (app.ts:120-160, facilitator.ts:77-130).
PurchasesAreSound ==
    /\ [](TypeOK /\ EveryServingLogged /\ UnderpaidNeverServed)
    /\ SnapshotMovesForward
=============================================================================
