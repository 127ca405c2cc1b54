---------------------------- MODULE DecisionFeed ----------------------------
(***************************************************************************)
(* The decision log from the agent's append to the screen:                 *)
(* logs/decisions.jsonl and its helpers (shared/src/jsonl.ts,              *)
(* decision-log.ts), the MCP server's get_decision_log, the dashboard's    *)
(* /api/decisions and the feed of CockpitGrid, which puts the demo         *)
(* decisions of this page before the polled ones.  scripts/demo.mjs writes *)
(* the log too.  A decision is a number, the moment it was taken at.       *)
(***************************************************************************)
EXTENDS Integers, Sequences, FiniteSets, SequencesExt

CONSTANTS
    Shown,          \* 20: lines that /api/decisions looks at
    Limits,         \* limits that MCP clients ask for
    MaxDecisions,   \* bound: decisions taken, old lines included
    MaxOld,         \* bound: lines in the file at first
    Seeds,          \* 3: lines that scripts/demo.mjs writes
    DemoMode        \* NEXT_PUBLIC_DEMO_MODE

FeedAssumption ==
    /\ Shown \in Nat \ {0} /\ Limits \subseteq 1..100
    /\ MaxDecisions \in Nat /\ MaxOld \in 0..MaxDecisions /\ Seeds \in Nat
    /\ DemoMode \in BOOLEAN

VARIABLES
    file,       \* the lines
    open,       \* the last line has no newline yet
    writes,     \* how far the append of each decision is
    seeding,    \* scripts/demo.mjs: its lines left, or NotRun, and its last decision
    clock,
    answers,    \* the answer of /api/decisions on its way to the page
    polled,     \* what the page has been given, or Nothing
    error,      \* the poller's error message is up
    local,      \* localDecisions
    records     \* what the last MCP client got

logVars == <<file, open, writes, seeding>>
pageVars == <<answers, polled, error, local>>
vars == <<logVars, clock, pageVars, records>>

Decisions == 1..MaxDecisions
Forms == {"strict", "legacy", "other", "broken"}
NotRun == -1

\* An append waits for its turn, has a part of its line at the end of the file
\* alone, or shares it: somebody else has written, or cleared the file, since.
Stages == {"none", "waits", "alone", "mixed"}

\* A row is what the page shows: the decision and its timestamp.
Row(d, stamp) == [id |-> d, stamp |-> stamp]
Nothing == <<Row(0, -1)>>

\* buildDemoDecisionFeed: older than every decision.
DemoFeed == <<Row(0, 0), Row(-1, -1)>>

\* Array.filter: the entries of s at the positions in kept, in their order.
Only(s, kept) ==
    [k \in 1..Cardinality(kept) |->
        s[CHOOSE i \in kept : Cardinality({j \in kept : j <= i}) = k]]

Readable(lines) == Only(lines, {i \in DOMAIN lines : lines[i].form # "broken"})
LastOf(s, n) == SubSeq(s, IF Len(s) > n THEN Len(s) - n + 1 ELSE 1, Len(s))
Window == LastOf(file, Shown)

OldFiles == {[i \in 1..Len(forms) |-> [id |-> i, form |-> forms[i]]] :
                forms \in UNION {[1..n -> Forms \ {"broken"}] : n \in 0..MaxOld}}

TypeOK ==
    /\ file \in Seq([id : Decisions, form : Forms])
    /\ open \in BOOLEAN /\ error \in BOOLEAN
    /\ writes \in [Decisions -> Stages] /\ clock \in 0..MaxDecisions
    /\ seeding \in [left : 0..Seeds \union {NotRun}, last : 0..MaxDecisions]
    /\ Cardinality(answers) <= 1
    /\ polled \in Seq([id : Int, stamp : Int])
    /\ local \in Seq(Decisions)
    /\ records.limit \in Limits \union {0}

Init ==
    /\ file \in OldFiles /\ open = FALSE
    /\ writes = [d \in Decisions |-> "none"]
    /\ seeding = [left |-> NotRun, last |-> 0]
    /\ clock = Len(file)
    /\ answers = {} /\ polled = Nothing /\ error = FALSE
    /\ local = <<>>
    /\ records = [limit |-> 0, got |-> <<>>]

-----------------------------------------------------------------------------
(* appendJsonl, of the agent and of the script.  A reader, or a crash, may *)
(* see a part of a line, and appends under way may overtake one another.   *)

\* Whoever has a part of a line at the end shares it with the next to write.
Mixed(d, stage) ==
    [e \in Decisions |-> IF e = d THEN stage ELSE IF writes[e] = "alone" THEN "mixed" ELSE writes[e]]

\* runOnce gives its guard back and only then waits for the append: the next
\* iteration may come to its own before this one has written anything.
AppendStarts ==
    /\ clock < MaxDecisions
    /\ clock' = clock + 1
    /\ writes' = [writes EXCEPT ![clock + 1] = "waits"]
    /\ UNCHANGED <<file, open, seeding, pageVars, records>>

PartWritten(d) ==
    /\ writes[d] = "waits"
    /\ file' = IF open THEN file ELSE Append(file, [id |-> d, form |-> "broken"])
    /\ open' = TRUE
    /\ writes' = Mixed(d, IF open THEN "mixed" ELSE "alone")
    /\ UNCHANGED <<seeding, clock, pageVars, records>>

\* The newline is there.  A line of several stays broken.  The script's rows
\* have their time as text.
AppendEnds(d) ==
    /\ writes[d] \in {"alone", "mixed"}
    /\ file' = IF writes[d] = "alone"
               THEN [file EXCEPT ![Len(file)] =
                       [id |-> d, form |-> IF d = seeding.last THEN "legacy" ELSE "strict"]]
               ELSE IF open THEN file ELSE Append(file, [id |-> d, form |-> "broken"])
    /\ open' = FALSE
    /\ writes' = Mixed(d, "none")
    /\ UNCHANGED <<seeding, clock, pageVars, records>>

\* The process is killed, or the disk is full.  The script does not go on.
AppendFails(d) ==
    /\ writes[d] # "none"
    /\ writes' = [writes EXCEPT ![d] = "none"]
    /\ seeding' = IF d = seeding.last THEN [seeding EXCEPT !.left = 0] ELSE seeding
    /\ UNCHANGED <<file, open, clock, pageVars, records>>

\* demo.mjs begins with an empty log ...
LogClears ==
    /\ seeding.left = NotRun
    /\ seeding' = [seeding EXCEPT !.left = Seeds]
    /\ file' = <<>> /\ open' = FALSE
    /\ writes' = [d \in Decisions |-> IF writes[d] = "alone" THEN "mixed" ELSE writes[d]]
    /\ UNCHANGED <<clock, pageVars, records>>

\* ... and appends its lines one after the other.
SeedStarts ==
    /\ seeding.left > 0 /\ clock < MaxDecisions
    /\ seeding.last > 0 => writes[seeding.last] = "none"
    /\ clock' = clock + 1
    /\ seeding' = [left |-> seeding.left - 1, last |-> clock + 1]
    /\ writes' = [writes EXCEPT ![clock + 1] = "waits"]
    /\ UNCHANGED <<file, open, pageVars, records>>

-----------------------------------------------------------------------------
(* readJsonl, as get_decision_log and aegis://decisions/recent call it     *)

ReadJsonl(limit) ==
    LET found == Readable(LastOf(file, limit)) IN [i \in DOMAIN found |-> found[i].id]

AskLog(limit) ==
    /\ records' = [limit |-> limit, got |-> ReadJsonl(limit)]
    /\ UNCHANGED <<logVars, clock, pageVars>>

-----------------------------------------------------------------------------
(* GET /api/decisions and the page                                         *)

\* parseDecisionLogLine: a legacy row has no number for a timestamp and is
\* given the present; what is no decision is dropped.
Parsed(lines) ==
    LET kept == Only(lines, {i \in DOMAIN lines : lines[i].form # "other"}) IN
    [i \in DOMAIN kept |-> Row(kept[i].id, IF kept[i].form = "legacy" THEN clock ELSE kept[i].id)]

\* A route that forgets to turn the log's order around.
Feed_OldestFirst ==
    LET entries == Parsed(Window) IN
    IF entries = <<>> /\ DemoMode THEN DemoFeed ELSE entries

Feed ==
    LET entries == Reverse(Parsed(Window)) IN
    IF entries = <<>> /\ DemoMode THEN DemoFeed ELSE entries

\* JSON.parse throws on a broken line, and the route answers 500.
RouteFails == \E i \in DOMAIN Window : Window[i].form = "broken"

Poll ==
    /\ answers = {}
    /\ answers' = {IF RouteFails THEN <<>> ELSE <<Feed>>}
    /\ UNCHANGED <<logVars, clock, polled, error, local, records>>

PollEnds ==
    /\ answers # {}
    /\ answers' = {}
    /\ polled' \in {IF a = <<>> THEN polled ELSE a[1] : a \in answers}
    /\ error' = (answers = {<<>>})
    /\ UNCHANGED <<logVars, clock, local, records>>

\* The request fails, or takes more than 8 s.
PollFails ==
    /\ answers # {}
    /\ answers' = {} /\ error' = TRUE
    /\ UNCHANGED <<logVars, clock, polled, local, records>>

\* A trigger that ended in a demo decision (TriggerButton): it goes before the
\* others.  That its allocation covers the vault's on the chart is left out.
DemoDecision ==
    /\ clock < MaxDecisions
    /\ clock' = clock + 1
    /\ local' = <<clock + 1>> \o local
    /\ UNCHANGED <<logVars, answers, polled, error, records>>

\* mergedDecisions
Merged ==
    LET own == [i \in DOMAIN local |-> Row(local[i], local[i])] IN
    Only(own, {i \in DOMAIN own : own[i] \notin ToSet(polled)})
        \o (IF polled = Nothing THEN <<>> ELSE polled)

\* DecisionFeedPanel
Panel ==
    IF polled = Nothing /\ local = <<>> THEN IF error THEN "error" ELSE "loading"
    ELSE IF Merged = <<>> THEN "No decisions yet"
    ELSE "list"

Next ==
    \/ AppendStarts \/ LogClears \/ SeedStarts
    \/ \E d \in Decisions : PartWritten(d) \/ AppendEnds(d) \/ AppendFails(d)
    \/ \E limit \in Limits : AskLog(limit)
    \/ Poll \/ PollEnds \/ PollFails \/ DemoDecision

Spec == Init /\ [][Next]_vars

\* The page polls, and not every one of its requests fails.
FairSpec == Spec /\ WF_vars(Poll) /\ SF_vars(PollEnds)

-----------------------------------------------------------------------------
\* The decision has its line, whole.
Logged(l) == file[l].form \in {"strict", "legacy"}

\* None of the rows' decisions is in the log.
Gone(rows) == \A k \in DOMAIN rows, l \in DOMAIN file : Logged(l) => file[l].id # rows[k].id

\* The rows are a stretch of the log, backwards: row k is line at[k], and no
\* decision between two of these lines is left out.
Stretch(rows, at) ==
    /\ \A k \in DOMAIN rows : Logged(at[k]) /\ file[at[k]].id = rows[k].id
    /\ \A k, n \in DOMAIN rows : k < n =>
        /\ at[n] < at[k]
        /\ \A l \in at[n]..at[k] : Logged(l) => \E i \in k..n : at[i] = l

(* What the page was given is a stretch of the log as it is now, the last  *)
(* line first and none left out, however appends overtake one another and  *)
(* tear; or the log was cleared since, and then none of it is in the log.  *)
FeedFollowsLog ==
    /\ Len(polled) <= Shown \/ DemoMode
    /\ Gone(polled) \/ \E at \in [DOMAIN polled -> DOMAIN file] : Stretch(polled, at)

(* The panel never goes back from its list to an error, whatever the route *)
(* and the requests do, and to "No decisions yet" only when none of the    *)
(* decisions it was given is in the log any more.                          *)
ListStays ==
    [][(Panel = "list" /\ Panel' # "list") => Panel' = "No decisions yet" /\ Gone(polled)]_<<polled, local, error>>

(* decisions/route.ts:19: in demo mode a page that has an answer is never  *)
(* blank, whether the log is missing, empty or without a decision.         *)
NeverBlank == (DemoMode /\ polled # Nothing) => Merged # <<>>

(* An MCP client gets the log's last records in the log's order, never     *)
(* more than it asked for, the newest readable one always among them       *)
(* unless unreadable lines fill the whole window.                          *)
RecordsAreTheLatest ==
    [][LET got == records'.got whole == Readable(file) IN
       /\ Len(got) <= records'.limit
       /\ got # <<>> => IsSuffix(got, [i \in DOMAIN whole |-> whole[i].id])]_records

(* A decision in the log reaches the page, unless newer lines push it out  *)
(* or an unreadable line stops the route.                                  *)
PageCatchesUp ==
    \A d \in Decisions :
        (\E i \in DOMAIN Window : Window[i] = [id |-> d, form |-> "strict"]) ~>
            \/ \E i \in DOMAIN polled : polled[i].id = d
            \/ ~\E i \in DOMAIN Window : Window[i].id = d
            \/ RouteFails
=============================================================================
