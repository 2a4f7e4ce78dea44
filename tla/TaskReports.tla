---------------------------- MODULE TaskReports -----------------------------
(***************************************************************************)
(* Reports of agents about their tasks: the handlers of                    *)
(* reporting/handlers.py, the pin that tells them which task is meant      *)
(* (state_store.py, TaskPinning), and approvals (reporting/handlers.py,    *)
(* executors/_control.py).                                                 *)
(*                                                                         *)
(* Calls are AgentTool calls of the coordinator.  They run next to each    *)
(* other and share one pin, with the revision of the plan it was made for. *)
(* A report is resolved, waits for the plan to be stable, is routed and    *)
(* applied, and rotates the pin afterwards; calls, revisions and decisions *)
(* of the operator come in between.  A status transition with its cascade  *)
(* is one step, as in OverlayExecutor.                                     *)
(***************************************************************************)
EXTENDS TaskPinning

CONSTANTS
    InitialPlan,    \* the tasks of the plan at the start
    Edges,          \* the dependencies plans are made of
    Supersedes,     \* Supersedes[r]: the task r supersedes, or NoTask
    Corrects,       \* the tasks that supersede as a CORRECT
    Assignee,       \* the assignee a task is planned with
    Growth,         \* descriptive growth at the pin
    Spare,          \* the tasks growth may add
    Calls,          \* the AgentTool calls
    Callee,         \* Callee[c]: the agent that call c invokes
    Agents,
    Reports,        \* the reporting tools that are used
    Passive,        \* observation_only
    MaxRevisions,   \* bound on the revisions of the plan
    MaxReports,     \* bound on the reports
    MaxDecisions    \* bound on the operator's decisions

Tools == {"started", "progress", "completed", "failed", "blocked", "awaiting_approval"}

ASSUME ReportsAssumption ==
    /\ InitialPlan \subseteq Tasks /\ Spare \subseteq Tasks \ InitialPlan
    /\ Edges \subseteq Tasks \X Tasks
    /\ Supersedes \in [Tasks -> Tasks \cup {NoTask}]
    /\ Corrects \subseteq Tasks
    /\ Assignee \in [Tasks -> Agents] /\ Callee \in [Calls -> Agents]
    /\ Reports \subseteq Tools
    /\ Growth \in BOOLEAN /\ Passive \in BOOLEAN
    /\ MaxRevisions \in Nat /\ MaxReports \in Nat /\ MaxDecisions \in Nat

VARIABLES
    plan,       \* session.plan
    rev,        \* its revision_index
    owner,      \* assignee_agent_id of its tasks
    pin,        \* goldfive.current_task_id and current_task_revision
    callPin,    \* pending_delegations, by call
    phase,      \* where a call is
    req,        \* the report a call has in flight
    count,      \* how many reports were made
    landed,     \* the report of a call that was applied last
    waiter,     \* pending_approvals: none, open or set
    meta,       \* the decision in pending_approvals_meta, by task
    deciding,   \* the tasks whose decision is being announced
    decisions,  \* how many decisions were made
    answer      \* history: what the approval a call asked for last returned

pins == <<pin, callPin>>
approvals == <<waiter, meta, deciding, decisions, answer>>
vars == <<plan, rev, owner, pins, phase, req, count, landed, approvals>>

NoRev == MaxRevisions + 1          \* the revision was cleared with the pin
NoPin == [task |-> NoTask, rev |-> NoRev]
NoReq == [tool |-> "none", task |-> NoTask]
NoAnswer == [decision |-> "none", made |-> TRUE]

PlanOf(s) ==
    LET has == {t \in Tasks : s[t] # "ABSENT"}
    IN  [status |-> s,
         edges |-> {e \in Edges : e[1] \in has /\ e[2] \in has},
         supersedes |-> [t \in Tasks |-> IF t \in has THEN Supersedes[t] ELSE NoTask]]

Init ==
    /\ plan = PlanOf([t \in Tasks |-> IF t \in InitialPlan THEN "PENDING" ELSE "ABSENT"])
    /\ rev = 0 /\ owner = Assignee
    /\ pin = NoPin /\ callPin = [c \in Calls |-> NoTask]
    /\ phase = [c \in Calls |-> "none"]
    /\ req = [c \in Calls |-> NoReq] /\ count = 0
    /\ landed = [c \in Calls |-> NoReq]
    /\ waiter = [t \in Tasks |-> "none"] /\ meta = [t \in Tasks |-> "none"]
    /\ deciding = {} /\ decisions = 0
    /\ answer = [c \in Calls |-> NoAnswer]

Goto(c, to) == phase' = [phase EXCEPT ![c] = to]

-----------------------------------------------------------------------------
(***************************************************************************)
(* A call is delegated: before_tool_callback.                              *)
(***************************************************************************)

\* set_pin_current_task, _stamp_current_task_id
Stamp(t) == pin' = IF t = NoTask THEN pin ELSE [task |-> t, rev |-> rev]

\* _maybe_pin_delegation_task: the chosen task is given to the agent.
PinDelegation(c, t) ==
    /\ Stamp(t)
    /\ owner' = IF t = NoTask THEN owner ELSE [owner EXCEPT ![t] = Callee[c]]

\* _attempt_descriptive_growth adds a task, which may fail, and
\* _repin_delegation_to_discovered pins it.
Grow(c) ==
    \/ \E t \in Spare \ Ids(plan) :
          /\ plan' = PlanOf([plan.status EXCEPT ![t] = "PENDING"])
          /\ PinDelegation(c, t)
    \/ UNCHANGED <<plan, owner, pin>>

Delegate(c) ==
    /\ phase[c] = "none"
    /\ IF Growth
       THEN \E t \in GrowthChoice(plan, Spare) :
               IF t = NoTask THEN Grow(c) ELSE PinDelegation(c, t) /\ UNCHANGED plan
       ELSE \E t \in DelegationChoice(plan) : PinDelegation(c, t) /\ UNCHANGED plan
    /\ Goto(c, "delegated")
    /\ UNCHANGED <<rev, callPin, req, count, landed, approvals>>

\* The rest of before_tool_callback: the pin for the call, and the redirect to
\* the agent whose turn it is.
Dispatch(c) ==
    /\ phase[c] = "delegated"
    /\ \E t \in CallChoice(plan, owner, Callee[c]) :
          callPin' = [callPin EXCEPT ![c] = IF t = NoTask THEN @ ELSE t]
    /\ \E redirect \in Redirects(plan, owner, Callee[c]) :
          Goto(c, IF redirect /\ ~Passive THEN "ended" ELSE "dispatched")
    /\ UNCHANGED <<plan, rev, owner, pin, req, count, landed, approvals>>

\* before_agent_callback
BeginTurn(c) ==
    /\ phase[c] = "dispatched"
    /\ \E t \in Ladder(plan, owner, Callee[c], {callPin[d] : d \in Calls}, pin.task) : Stamp(t)
    /\ Goto(c, "turn")
    /\ UNCHANGED <<plan, rev, owner, callPin, req, count, landed, approvals>>

EndTurn(c) ==
    /\ phase[c] = "turn"
    /\ Goto(c, "ended")
    /\ req' = [req EXCEPT ![c] = NoReq]
    /\ landed' = [landed EXCEPT ![c] = NoReq]
    /\ answer' = [answer EXCEPT ![c] = NoAnswer]
    /\ UNCHANGED <<plan, rev, owner, pins, count, waiter, meta, deciding, decisions>>

-----------------------------------------------------------------------------
(***************************************************************************)
(* A report.                                                               *)
(***************************************************************************)

\* _inject_task_id_from_state and _resolve_pinned_task_id.  callPin has the
\* coordinator's call, and a report is looked up by its own function call, so
\* it is the shared pin that answers.
Resolved == pin.task

\* before_tool_callback for a reporting tool: without a pin the report is
\* acknowledged and dropped.  A model may send the same report again.
Report(c, tool) ==
    /\ phase[c] = "turn" /\ count < MaxReports
    /\ count' = count + 1
    /\ IF Resolved = NoTask THEN UNCHANGED <<phase, req>>
       ELSE /\ req' = [req EXCEPT ![c] = [tool |-> tool, task |-> Resolved]]
            /\ Goto(c, IF tool = "awaiting_approval" THEN "asking" ELSE "reporting")
    /\ UNCHANGED <<plan, rev, owner, pins, landed, approvals>>

\* _resolve_effective_task_id: from finished tasks to what replaces them, until
\* nothing does or the chain runs in a circle.
Replacements(t) == {r \in Ids(plan) \ Corrects : plan.supersedes[r] = t}
Handovers == {e \in Tasks \X Tasks : plan.status[e[1]] \in Terminal /\ e[2] \in Replacements(e[1])}
Effective(t) ==
    {u \in Reach(Handovers, {t}) :
        \/ plan.status[u] \notin Terminal \/ Replacements(u) = {}
        \/ \E r \in Replacements(u) : u \in Reach(Handovers, {r})}

\* _supersession_successor
Successors(t) == {r \in Ids(plan) : plan.supersedes[r] = t}

\* Mutant: a correction takes over the reports about the task it corrects.
RoutedToCorrection(t) ==
    IF pin.rev >= rev THEN Effective(t)
    ELSE IF Successors(t) = {} THEN {NoTask} ELSE Successors(t)

\* _classify_and_route_pin: where a report about t goes, NoTask when it is
\* refused.  The revision is read from the shared pin.
Routed(t) ==
    IF pin.rev >= rev THEN Effective(t)
    ELSE IF Successors(t) = {} THEN {NoTask}
    ELSE {IF r \in Corrects THEN NoTask ELSE r : r \in Successors(t)}

\* _TOOL_TARGET_STATUS and _TOOL_VALID_SOURCES
Target(tool) ==
    CASE tool \in {"started", "progress"} -> "RUNNING"
      [] tool = "completed" -> "COMPLETED"
      [] tool = "failed" -> "FAILED"
      [] OTHER -> "BLOCKED"
Sources(tool) ==
    CASE tool = "started" -> {"PENDING", "BLOCKED"}
      [] tool = "progress" -> {"RUNNING"}
      [] tool = "blocked" -> {"PENDING", "RUNNING"}
      [] OTHER -> Live

\* _classify_transition
Transitions(tool, t) == plan.status[t] # Target(tool) /\ plan.status[t] \in Sources(tool)

\* sync_current_task_from_transition: the revision is left as it was.
Synced(t, to) ==
    CASE to = "RUNNING" -> [pin EXCEPT !.task = t]
      [] to \in Terminal /\ pin.task = t -> NoPin
      [] OTHER -> pin

\* mark_task_running, _completed, _failed, _blocked
Apply(tool, t) ==
    /\ plan' \in IF tool = "failed" THEN {WithStatus(plan, t, "FAILED"), WithCascade(plan, t, "FAILED")}
                 ELSE {WithStatus(plan, t, Target(tool))}
    /\ pin' = Synced(t, Target(tool))

\* _handle_task_started, _progress, _completed, _failed, _blocked
Land(c) ==
    /\ phase[c] = "reporting"
    /\ \E t \in Routed(req[c].task) :
          IF t # NoTask /\ Transitions(req[c].tool, t)
          THEN /\ Apply(req[c].tool, t)
               /\ landed' = [landed EXCEPT ![c] = [req[c] EXCEPT !.task = t]]
               /\ Goto(c, IF Target(req[c].tool) \in Terminal THEN "rotating" ELSE "turn")
          ELSE Goto(c, "turn") /\ UNCHANGED <<plan, pin, landed>>
    /\ UNCHANGED <<rev, owner, callPin, req, count, approvals>>

\* _rotate_after_terminal and rotate_current_task_id, after the transition was
\* announced: to the one task the agent has left.
Rotate(c) ==
    LET t == landed[c].task
        left == Candidates(plan, owner, owner[t])
    IN  /\ phase[c] = "rotating"
        /\ pin' = IF pin.task \notin {NoTask, t} THEN pin
                  ELSE IF Cardinality(left) = 1
                       THEN [task |-> CHOOSE u \in left : TRUE, rev |-> rev]
                       ELSE NoPin
        /\ Goto(c, "turn")
        /\ UNCHANGED <<plan, rev, owner, callPin, req, count, landed, approvals>>

-----------------------------------------------------------------------------
(***************************************************************************)
(* Approvals.                                                              *)
(***************************************************************************)

\* _handle_awaiting_approval up to the wait.  The waiter and the decision of an
\* earlier request are used again.
AskApproval(c) ==
    LET t == req[c].task
    IN  /\ phase[c] = "asking"
        /\ IF plan.status[t] \in Terminal
           THEN Goto(c, "turn") /\ UNCHANGED <<plan, pin, waiter, answer>>
           ELSE /\ waiter' = [waiter EXCEPT ![t] = IF @ = "none" THEN "open" ELSE @]
                /\ IF plan.status[t] \in Sources("blocked") THEN Apply("blocked", t)
                   ELSE UNCHANGED <<plan, pin>>
                /\ answer' = [answer EXCEPT ![c] = NoAnswer]
                /\ Goto(c, "waiting")
        /\ UNCHANGED <<rev, owner, callPin, req, count, landed, meta, deciding, decisions>>

\* Mutant: the waiter is released before the decision is written down.
DecideReleasesFirst(t, d) ==
    /\ waiter[t] # "none" /\ decisions < MaxDecisions
    /\ t \notin deciding
    /\ waiter' = [waiter EXCEPT ![t] = "set"]
    /\ deciding' = deciding \cup {t}
    /\ decisions' = decisions + 1
    /\ UNCHANGED <<meta, answer, plan, rev, owner, pins, phase, req, count, landed>>

\* _resolve_approval for APPROVE and REJECT: the decision is written down and
\* announced ...
Decide(t, d) ==
    /\ waiter[t] # "none" /\ decisions < MaxDecisions
    /\ t \notin deciding        \* control messages are handled one by one
    /\ meta' = [meta EXCEPT ![t] = d]
    /\ deciding' = deciding \cup {t}
    /\ decisions' = decisions + 1
    /\ UNCHANGED <<waiter, answer, plan, rev, owner, pins, phase, req, count, landed>>

\* ... and then the waiter is set.
Release(t) ==
    /\ t \in deciding
    /\ deciding' = deciding \ {t}
    /\ waiter' = [waiter EXCEPT ![t] = "set"]
    /\ UNCHANGED <<meta, decisions, answer, plan, rev, owner, pins, phase, req, count, landed>>

\* The wait is over.  An empty decision counts as an approval.
Answered(c) ==
    LET t == req[c].task
        d == IF meta[t] = "none" THEN "approve" ELSE meta[t]
    IN  /\ phase[c] = "waiting" /\ waiter[t] = "set"
        /\ answer' = [answer EXCEPT ![c].decision = d, ![c].made = (meta[t] = d)]
        /\ Goto(c, "turn")
        /\ UNCHANGED <<waiter, meta, deciding, decisions, plan, rev, owner, pins, req, count, landed>>

\* Mutant: without a timeout of the agent's own, the wait has none.
ApprovalWaitsForever(c) == FALSE /\ UNCHANGED vars

\* asyncio.wait_for gives up; the request stays open for a late decision.
ApprovalTimesOut(c) ==
    /\ phase[c] = "waiting" /\ waiter[req[c].task] # "set"
    /\ answer' = [answer EXCEPT ![c].decision = "timeout"]
    /\ Goto(c, "turn")
    /\ UNCHANGED <<waiter, meta, deciding, decisions, plan, rev, owner, pins, req, count, landed>>

-----------------------------------------------------------------------------
\* A refine installs a revision: the tasks it replaces are cancelled and new
\* ones added, and Plan.validate accepts it.
Revised(drop, add) ==
    LET new == PlanOf([t \in Tasks |-> IF t \in drop THEN "CANCELLED"
                                       ELSE IF t \in add THEN "PENDING" ELSE plan.status[t]])
    IN  [new EXCEPT !.edges = {e \in @ :
            ~(new.status[e[1]] \in Dead /\ new.status[e[2]] = "PENDING")}]
Revise ==
    /\ rev < MaxRevisions
    /\ \E add \in SUBSET {t \in Tasks \ Spare : plan.status[t] = "ABSENT"} :
          LET new == Revised({Supersedes[t] : t \in add \ Corrects} \cap
                             {t \in Tasks : plan.status[t] \in Live}, add)
          IN  new # plan /\ ValidRevision(new, plan) /\ plan' = new
    /\ rev' = rev + 1
    /\ UNCHANGED <<owner, pins, phase, req, count, landed, approvals>>

Next ==
    \/ \E c \in Calls :
          \/ Delegate(c) \/ Dispatch(c) \/ BeginTurn(c) \/ EndTurn(c)
          \/ \E tool \in Reports : Report(c, tool)
          \/ Land(c) \/ Rotate(c)
          \/ AskApproval(c) \/ Answered(c) \/ ApprovalTimesOut(c)
    \/ \E t \in Tasks : Release(t) \/ \E d \in {"approve", "reject"} : Decide(t, d)
    \/ Revise

Spec == Init /\ [][Next]_vars

\* The event loop runs what can run; calls to tools and decisions need not come.
Fairness == \A c \in Calls :
    WF_vars(Land(c) \/ Rotate(c) \/ AskApproval(c) \/ Answered(c) \/ ApprovalTimesOut(c))
FairSpec == Spec /\ Fairness

-----------------------------------------------------------------------------
(***************************************************************************)
(* Properties.                                                             *)
(***************************************************************************)

\* The tasks that took over from t by replacement.
Lineage(t) ==
    Reach({<<Supersedes[r], r>> : r \in {q \in Tasks \ Corrects : Supersedes[q] # NoTask}}, {t})

\* A report changes the task it was sent for or one that replaced it, whatever
\* other calls do to the shared pin and whatever revisions come in between; a
\* correction is new work, and never takes over the reports about the task it
\* corrects (_classify_and_route_pin).
LandsOnLineage ==
    [][\A c \in Calls :
        landed'[c] \notin {landed[c], NoReq} => landed'[c].task \in Lineage(req[c].task)]_vars

\* An answer to a request for approval is a decision of the operator about that
\* task, or a timeout: the default "approve" of _handle_awaiting_approval is
\* never what an agent gets, whatever the order of decisions, releases and
\* timeouts.
DecisionWasMade == \A c \in Calls : answer[c].made

\* Every report and every request for approval comes to an end, without any
\* decision of the operator ("so a run whose operator never answers cannot hang
\* on the tool call").
ReportsEnd == \A c \in Calls : phase[c] \in {"reporting", "asking", "waiting", "rotating"} ~> phase[c] = "turn"
=============================================================================
