--------------------------- MODULE TriggerButton ---------------------------
(***************************************************************************)
(* "Trigger Agent Run": the button in the dashboard's header               *)
(* (components/header/TriggerAgentRunButton.tsx), the routes it calls      *)
(* (app/api/trigger, app/api/agent-status) and the agent's trigger server  *)
(* behind them (agent/src/trigger-server.ts).  The agent is seen from      *)
(* outside: up or down, running or not, in RPC cooldown or not; AgentLoop  *)
(* has its inside.                                                         *)
(***************************************************************************)
EXTENDS Integers, FiniteSets

CONSTANTS
    Posts,      \* bound: clicks that are sent
    Demo        \* NEXT_PUBLIC_DEMO_MODE

TriggerAssumption == Demo \in BOOLEAN /\ IsFiniteSet(Posts)

VARIABLES
    state,      \* TriggerState of the button
    resets,     \* timers that will set it to "idle"
    known,      \* agentStatus, as the button last heard
    asked,      \* the answer to a status request on its way to the button
    post,       \* the POSTs of the clicks
    agent,      \* the agent's process
    feed        \* clicks whose demo decision was put into the feed

vars == <<state, resets, known, asked, post, agent, feed>>

Status == [reachable : BOOLEAN, busy : BOOLEAN, cooldown : BOOLEAN]
Unreachable == [reachable |-> FALSE, busy |-> FALSE, cooldown |-> FALSE]
None == [reachable |-> TRUE, busy |-> FALSE, cooldown |-> FALSE]   \* agentStatus = null blocks nothing

Unsent == [pc |-> "unsent", queued |-> FALSE, result |-> "none", started |-> FALSE]

TypeOK ==
    /\ state \in {"idle", "loading", "success", "error"}
    /\ resets \in 0..Cardinality(Posts)
    /\ known \in Status
    /\ asked \in SUBSET Status
    /\ post \in [Posts -> [pc : {"unsent", "route", "back", "done"}, queued : BOOLEAN,
                           result : {"none", "202", "429", "503", "demo", "lost"},
                           started : BOOLEAN]]
    /\ agent \in [up : BOOLEAN, running : BOOLEAN, cooldown : BOOLEAN, recent : BOOLEAN]
    /\ feed \subseteq Posts

Init ==
    /\ state = "idle" /\ resets = 0 /\ known = None /\ asked = {}
    /\ post = [k \in Posts |-> Unsent]
    /\ \E up \in BOOLEAN :
        agent = [up |-> up, running |-> FALSE, cooldown |-> FALSE, recent |-> FALSE]
    /\ feed = {}

-----------------------------------------------------------------------------
(* The button                                                              *)

Enabled ==
    /\ state # "loading"
    /\ ~known.cooldown /\ ~known.busy
    /\ known.reachable \/ Demo

\* In demo mode the route answers by itself.
Click(k) ==
    /\ Enabled /\ post[k].pc = "unsent"
    /\ state' = "loading"
    /\ post' = [post EXCEPT ![k] =
                  IF Demo THEN [@ EXCEPT !.pc = "back", !.result = "demo"]
                  ELSE [@ EXCEPT !.pc = "route", !.queued = agent.up]]
    /\ UNCHANGED <<resets, known, asked, agent, feed>>

\* handleTrigger after the answer; a 503 also teaches the button the cooldown.
ButtonGets(k) ==
    /\ post[k].pc = "back"
    /\ post' = [post EXCEPT ![k].pc = "done"]
    /\ state' = IF post[k].result \in {"202", "demo"} THEN "success" ELSE "error"
    /\ resets' = resets + 1
    /\ known' = IF post[k].result = "503" THEN [known EXCEPT !.cooldown = TRUE] ELSE known
    /\ feed' = IF post[k].result = "demo" THEN feed \union {k} ELSE feed
    /\ UNCHANGED <<asked, agent>>

\* The button's own request fails, before or after the route has it, or is
\* answered with any other error: handleTrigger's catch.  What was handed to
\* the agent stays there.
FetchFails(k) ==
    /\ post[k].pc \in {"route", "back"}
    /\ \E waits \in {post[k].queued, FALSE} :
        post' = [post EXCEPT ![k] = [@ EXCEPT !.pc = "done", !.result = "lost", !.queued = waits]]
    /\ state' = "error"
    /\ resets' = resets + 1
    /\ UNCHANGED <<known, asked, agent, feed>>

\* setTimeout(() => setState("idle")), whatever the state is by then.
Reset ==
    /\ resets > 0
    /\ resets' = resets - 1 /\ state' = "idle"
    /\ UNCHANGED <<known, asked, post, agent, feed>>

\* GET /api/agent-status: the agent's answer, or "unreachable" after 3 s.
AskStatus ==
    /\ asked = {}
    /\ \/ asked' = {Unreachable}
       \/ /\ agent.up
          /\ asked' = {[reachable |-> TRUE, busy |-> agent.running, cooldown |-> agent.cooldown]}
    /\ UNCHANGED <<state, resets, known, post, agent, feed>>

HearStatus ==
    /\ asked # {}
    /\ known' \in asked
    /\ asked' = {}
    /\ UNCHANGED <<state, resets, post, agent, feed>>

-----------------------------------------------------------------------------
(* The route and the agent                                                 *)

\* The route has the agent's answer, unless it gave the request up or nobody
\* waits for it any more.
Answer(k, result) == IF post[k].result = "none" THEN result ELSE post[k].result

AgentRefuses(k, result) ==
    /\ post' = [post EXCEPT ![k] = [@ EXCEPT !.queued = FALSE, !.result = Answer(k, result)]]
    /\ UNCHANGED agent

\* The trigger is taken.  runOnce then declines if an iteration is running,
\* and the answer is the same.
AgentAccepts(k) ==
    /\ agent' = [agent EXCEPT !.recent = TRUE, !.running = TRUE]
    /\ post' = [post EXCEPT ![k] = [@ EXCEPT !.queued = FALSE, !.started = ~agent.running,
                                             !.result = Answer(k, "202")]]

\* A trigger server that checks the cooldown after it has started the run.
AgentGets_CooldownLast(k) ==
    /\ agent.up /\ post[k].queued
    /\ IF agent.recent THEN AgentRefuses(k, "429")
       ELSE IF agent.cooldown
       THEN /\ agent' = [agent EXCEPT !.recent = TRUE, !.running = TRUE]
            /\ post' = [post EXCEPT ![k] = [@ EXCEPT !.queued = FALSE, !.started = ~agent.running,
                                                     !.result = Answer(k, "503")]]
       ELSE AgentAccepts(k)
    /\ UNCHANGED <<state, resets, known, asked, feed>>

\* POST /trigger.  The agent may get to a request after the route gave it up.
AgentGets(k) ==
    /\ agent.up /\ post[k].queued
    /\ IF agent.recent THEN AgentRefuses(k, "429")
       ELSE IF agent.cooldown THEN AgentRefuses(k, "503")
       ELSE AgentAccepts(k)
    /\ UNCHANGED <<state, resets, known, asked, feed>>

\* 202, 429 and 503 are passed on ...
RouteForwards(k) ==
    /\ post[k].pc = "route" /\ post[k].result # "none"
    /\ post' = [post EXCEPT ![k].pc = "back"]
    /\ UNCHANGED <<state, resets, known, asked, agent, feed>>

\* ... and everything else becomes a demo decision: no connection, no answer
\* within 8 s, an answer that is lost, another status.
RouteGivesUp(k) ==
    /\ post[k].pc = "route"
    /\ post' = [post EXCEPT ![k] = [@ EXCEPT !.pc = "back", !.result = "demo"]]
    /\ UNCHANGED <<state, resets, known, asked, agent, feed>>

IntervalOver ==
    /\ agent.recent
    /\ agent' = [agent EXCEPT !.recent = FALSE]
    /\ UNCHANGED <<state, resets, known, asked, post, feed>>

AgentTicks ==
    /\ agent.up /\ ~agent.running /\ ~agent.cooldown
    /\ agent' = [agent EXCEPT !.running = TRUE]
    /\ UNCHANGED <<state, resets, known, asked, post, feed>>

RunEnds ==
    /\ agent.running
    /\ \E limited \in BOOLEAN :
        agent' = [agent EXCEPT !.running = FALSE, !.cooldown = limited]
    /\ UNCHANGED <<state, resets, known, asked, post, feed>>

CooldownEnds ==
    /\ agent.cooldown
    /\ agent' = [agent EXCEPT !.cooldown = FALSE]
    /\ UNCHANGED <<state, resets, known, asked, post, feed>>

\* The process dies, or is started again.
Crash ==
    /\ agent.up
    /\ agent' = [up |-> FALSE, running |-> FALSE, cooldown |-> FALSE, recent |-> FALSE]
    /\ post' = [k \in Posts |-> [post[k] EXCEPT !.queued = FALSE]]
    /\ UNCHANGED <<state, resets, known, asked, feed>>

Start ==
    /\ ~agent.up
    /\ agent' = [agent EXCEPT !.up = TRUE]
    /\ UNCHANGED <<state, resets, known, asked, post, feed>>

Next ==
    \/ Reset \/ AskStatus \/ HearStatus
    \/ IntervalOver \/ AgentTicks \/ RunEnds \/ CooldownEnds \/ Crash \/ Start
    \/ \E k \in Posts : \/ Click(k) \/ ButtonGets(k) \/ FetchFails(k)
                       \/ AgentGets(k) \/ RouteForwards(k) \/ RouteGivesUp(k)

Spec == Init /\ [][Next]_vars

\* The page's timers and the route's 8 s; the user and the agent owe nothing.
FairSpec ==
    /\ Spec
    /\ WF_vars(Reset) /\ WF_vars(AskStatus) /\ WF_vars(HearStatus)
    /\ \A k \in Posts : WF_vars(ButtonGets(k)) /\ WF_vars(RouteGivesUp(k) \/ RouteForwards(k))

-----------------------------------------------------------------------------
(* When the button passes on a refusal (429, 503), the agent has started   *)
(* nothing for that click and will not later: trying again is safe.  A run *)
(* that a click did start was answered for, was replaced by a demo         *)
(* decision, or belongs to a click whose own request failed: of the        *)
(* failures the button shows, only that one leaves a run in doubt.         *)
RefusedStartsNothing ==
    \A k \in Posts :
        /\ post[k].result \in {"429", "503"} => ~post[k].started /\ ~post[k].queued
        /\ post[k].started => post[k].result \in {"202", "demo", "lost"}

(* The button always comes back, whatever the agent and the routes do.     *)
ButtonComesBack == state # "idle" ~> state = "idle"

(* A cooldown that is over, or whose agent is gone, does not block the     *)
(* button for good.                                                        *)
CooldownClears == (<>[](~agent.cooldown)) => []<>(~known.cooldown)
=============================================================================
