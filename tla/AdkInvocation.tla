--------------------------- MODULE AdkInvocation ----------------------------
(***************************************************************************)
(* One invocation of an ADK agent: ADKAdapter._invoke_internal             *)
(* (adapters/adk.py) around the callbacks of the plugin                    *)
(* (adapters/_adk_plugin.py).                                              *)
(*                                                                         *)
(* The root agent asks its model, which calls other agents; the calls of   *)
(* one answer run next to each other, each with an invocation of its own   *)
(* that is named after the call.  Cancels are flags that the callbacks     *)
(* look at, or cancel the task of the invocation; a timeout of a model     *)
(* call sets a flag, too many calls end the pass, and every way out has to *)
(* leave a transcript in which every call is answered.  Which task an      *)
(* agent works on is in TaskReports.                                       *)
(***************************************************************************)
EXTENDS Naturals, FiniteSets

CONSTANTS
    Root,       \* the invocation of the root agent
    Calls,      \* the AgentTool calls
    NoInv,      \* no invocation
    Cap,        \* agent_tool_cap
    Confirmed,  \* the calls that require the operator's confirmation
    Passive     \* observation_only

Invs == {Root} \cup Calls

ASSUME AdkAssumption ==
    /\ Root \notin Calls /\ NoInv \notin Invs /\ IsFiniteSet(Calls)
    /\ Cap \in Nat \ {0} /\ Confirmed \subseteq Calls /\ Passive \in BOOLEAN

VARIABLES
    pass,         \* where _invoke_internal is
    how,          \* the stop_reason
    phase,        \* where an invocation is
    call,         \* where a call is
    top,          \* _top_invocation_id
    parents,      \* the keys of _invocation_parents
    cancelState,  \* _cancel_state
    sticky,       \* _cancelled_invocations
    entered,      \* _boundary_entered_invocations
    spawn,        \* _agent_tool_spawn_count
    tripped,      \* runaway_delegation_tripped
    watch,        \* the watcher in _invocation_llm_pending: off, sleeping, observing
    pending,      \* the pending tool calls of the session
    healed,       \* those _heal_pending_tool_calls has been through
    unanswered,   \* the calls in the transcript without a response
    hist          \* history, see Init

run == <<phase, call>>
flags == <<top, parents, cancelState, sticky>>
counts == <<spawn, tripped>>
heal == <<pending, healed, unanswered>>
vars == <<pass, how, run, flags, entered, counts, watch, heal, hist>>

Init ==
    /\ pass = "new" /\ how = "none"
    /\ phase = [i \in Invs |-> "none"] /\ call = [c \in Calls |-> "none"]
    /\ top = NoInv /\ parents = {} /\ cancelState = {} /\ sticky = {}
    /\ entered = {}
    /\ spawn = 0 /\ tripped = FALSE
    /\ watch = [i \in Invs |-> "off"]
    /\ pending = {} /\ healed = {} /\ unanswered = {}
    /\ hist = [requested |-> {},     \* invocations a cancel was requested for
               dispatched |-> {},    \* calls whose agent was started
               trips |-> 0,          \* runaway drifts
               open |-> {},          \* boundaries announced as entered, not as exited
               lost |-> {},          \* calls whose response could not be appended
               again |-> FALSE,      \* the handlers of a way out were cancelled
               cut |-> FALSE]        \* and nothing healed after that

\* set_active_context, and the pending calls are cleared.
StartPass ==
    /\ pass = "new"
    /\ pass' = "running"
    /\ spawn' = 0 /\ tripped' = FALSE /\ pending' = {}
    /\ UNCHANGED <<how, run, flags, entered, watch, healed, unanswered, hist>>

Running == pass = "running"
Goto(i, to) == phase' = [phase EXCEPT ![i] = to]
CallTo(c, to) == call' = [call EXCEPT ![c] = to]

-----------------------------------------------------------------------------
(***************************************************************************)
(* Cancel flags.                                                           *)
(***************************************************************************)

\* request_invocation_cancel: the invocation and the descendants known so far.
Flagged(i) == {i} \cup (IF i = top THEN parents ELSE {})
Flag(i) ==
    /\ cancelState' = cancelState \cup Flagged(i)
    /\ hist' = [hist EXCEPT !.requested = @ \cup Flagged(i)]
    /\ UNCHANGED <<top, parents, sticky>>

RequestCancel(i) ==
    /\ Running /\ phase[i] \notin {"none", "ended"}
    /\ Flag(i)
    /\ UNCHANGED <<pass, how, run, entered, counts, watch, heal>>

\* is_invocation_cancelled
Cancelled(i) == i \in sticky \cup cancelState

\* Mutant: the flag is used up by the callback that sees it first.
ObserveOnce(i) ==
    /\ cancelState' = cancelState \ {i}
    /\ UNCHANGED <<top, parents, sticky>>

\* consume_cancel_for_invocation, and what is left for later callbacks.
Observe(i) ==
    /\ cancelState' = cancelState \ {i}
    /\ sticky' = IF i \in cancelState THEN sticky \cup {i} ELSE sticky
    /\ UNCHANGED <<top, parents>>

-----------------------------------------------------------------------------
(***************************************************************************)
(* Callbacks of an invocation.                                             *)
(***************************************************************************)

\* before_run_callback: the first to run is the top, the others its children.
BeforeRun(i) ==
    /\ Running /\ phase[i] = "none"
    /\ i # Root => call[i] = "running"
    /\ top' = IF top = NoInv THEN i ELSE top
    /\ parents' = IF top = NoInv THEN parents ELSE parents \cup {i}
    /\ cancelState' = cancelState \ {i}
    /\ sticky' = IF i \in cancelState THEN sticky \cup {i} ELSE sticky
    /\ Goto(i, "started")
    /\ UNCHANGED <<pass, how, call, entered, counts, watch, heal, hist>>

\* _emit_boundary_entered
EnterBoundary(i) ==
    /\ Running /\ phase[i] = "started"
    /\ entered' = entered \cup {i}
    /\ hist' = [hist EXCEPT !.open = IF i \in entered THEN @ ELSE @ \cup {i}]
    /\ Goto(i, "entered")
    /\ UNCHANGED <<pass, how, call, flags, counts, watch, heal>>

\* _emit_boundary_exited
ExitBoundary(i) ==
    /\ entered' = entered \ {i}
    /\ hist' = [hist EXCEPT !.open = IF i \in entered THEN @ \ {i} ELSE @]

\* The rest of before_agent_callback.
BeforeAgent(i) ==
    /\ Running /\ phase[i] = "entered"
    /\ Observe(i)
    /\ IF Cancelled(i) THEN ExitBoundary(i) ELSE UNCHANGED <<entered, hist>>
    /\ Goto(i, "agent")
    /\ UNCHANGED <<pass, how, call, counts, watch, heal>>

\* before_model_callback: a cancelled invocation is given a last answer, the
\* others prepare the request.
BeforeModel(i) ==
    /\ Running /\ phase[i] = "agent"
    /\ Observe(i)
    /\ Goto(i, IF Cancelled(i) THEN "spoken" ELSE "preparing")
    /\ UNCHANGED <<pass, how, call, entered, counts, watch, heal, hist>>

\* The watcher is started, and the request is sent.
SendRequest(i) ==
    /\ Running /\ phase[i] = "preparing"
    /\ watch' = [watch EXCEPT ![i] = IF Cancelled(i) THEN @ ELSE "sleeping"]
    /\ Goto(i, "model")
    /\ UNCHANGED <<pass, how, call, flags, entered, counts, heal, hist>>

\* after_model_callback: the watcher is cancelled.
AfterModel(i) ==
    /\ Running /\ phase[i] = "model"
    /\ watch' = [watch EXCEPT ![i] = "off"]

\* The model is done.
ModelAnswers(i) ==
    /\ AfterModel(i)
    /\ Goto(i, "spoken")
    /\ UNCHANGED <<pass, how, call, flags, entered, counts, heal, hist>>

\* _run_llm_call_timeout_watcher: it reports, and then sets the flag.
WatcherWakes(i) ==
    /\ Running /\ watch[i] = "sleeping"
    /\ watch' = [watch EXCEPT ![i] = "observing"]
    /\ UNCHANGED <<pass, how, run, flags, entered, counts, heal, hist>>
WatcherFlags(i) ==
    /\ Running /\ watch[i] = "observing"
    /\ watch' = [watch EXCEPT ![i] = "off"]
    /\ IF Passive THEN UNCHANGED <<flags, hist>> ELSE Flag(i)
    /\ UNCHANGED <<pass, how, run, entered, counts, heal>>

\* after_agent_callback
AfterAgent(i) ==
    /\ Running /\ phase[i] = "spoken"
    /\ ExitBoundary(i)
    /\ Goto(i, "done")
    /\ UNCHANGED <<pass, how, call, flags, counts, watch, heal>>

\* after_run_callback.  The pass ends with the root.
AfterRun(i) ==
    /\ Running /\ phase[i] = "done"
    /\ top' = IF top = i THEN NoInv ELSE top
    /\ sticky' = sticky \ {i}
    /\ Goto(i, "ended")
    /\ IF i = Root THEN pass' = "settling" /\ how' = "completed"
       ELSE UNCHANGED <<pass, how>>
    /\ UNCHANGED <<call, parents, cancelState, entered, counts, watch, heal, hist>>

-----------------------------------------------------------------------------
(***************************************************************************)
(* Calls.                                                                  *)
(***************************************************************************)

\* What the loop of _invoke_internal does after every event: it stops when the
\* cap was exceeded, or when the task turns out to be finished.
AfterEvent ==
    \/ IF tripped THEN pass' = "settling" /\ how' = "runaway_delegation"
       ELSE UNCHANGED <<pass, how>>
    \/ ~tripped /\ pass' = "settling" /\ how' = "task_terminal"

\* The model of the root asks for calls, and the event with them arrives.
ModelCalls(cs) ==
    /\ cs # {} /\ \A c \in cs : call[c] = "none"
    /\ AfterModel(Root)
    /\ call' = [c \in Calls |-> IF c \in cs THEN "called" ELSE call[c]]
    /\ pending' = pending \cup cs
    /\ unanswered' = unanswered \cup cs
    /\ Goto(Root, "tools")
    /\ AfterEvent
    /\ UNCHANGED <<flags, entered, counts, healed, hist>>

\* The check at the top of before_tool_callback.
BeforeTool(c) ==
    /\ Running /\ call[c] = "called"
    /\ Observe(Root)
    /\ CallTo(c, IF Cancelled(Root) THEN "returned" ELSE "checking")
    /\ UNCHANGED <<pass, how, phase, entered, counts, watch, heal, hist>>

\* The cap on spawned agents, after the pins of TaskReports.
CountSpawn(c) ==
    /\ Running /\ call[c] = "checking"
    /\ spawn' = spawn + 1
    /\ IF spawn' > Cap /\ ~tripped
       THEN /\ tripped' = TRUE
            /\ CallTo(c, "tripping")
            /\ hist' = [hist EXCEPT !.trips = @ + 1]
       ELSE /\ CallTo(c, IF tripped THEN "returned" ELSE "cleared")
            /\ UNCHANGED <<tripped, hist>>
    /\ UNCHANGED <<pass, how, phase, flags, entered, watch, heal>>

\* _emit_runaway_delegation_drift has returned: the call is skipped.
TripAnnounced(c) ==
    /\ Running /\ call[c] = "tripping"
    /\ CallTo(c, "returned")
    /\ UNCHANGED <<pass, how, phase, flags, entered, counts, watch, heal, hist>>

\* The redirect to another agent, the confirmation, and the dispatch.
Dispatched(c) ==
    /\ CallTo(c, "running")
    /\ hist' = [hist EXCEPT !.dispatched = @ \cup {c}]
Redirect(c) ==
    /\ Running /\ call[c] = "cleared" /\ ~Passive
    /\ CallTo(c, "returned")
    /\ UNCHANGED <<pass, how, phase, flags, entered, counts, watch, heal, hist>>
DispatchCall(c) ==
    /\ Running /\ call[c] = "cleared"
    /\ IF c \in Confirmed THEN CallTo(c, "approving") /\ UNCHANGED hist ELSE Dispatched(c)
    /\ UNCHANGED <<pass, how, phase, flags, entered, counts, watch, heal>>

\* _await_tool_approval waits without a limit.
Approve(c) ==
    /\ Running /\ call[c] = "approving"
    /\ Dispatched(c)
    /\ UNCHANGED <<pass, how, phase, flags, entered, counts, watch, heal>>
Reject(c) ==
    /\ Running /\ call[c] = "approving"
    /\ CallTo(c, "returned")
    /\ UNCHANGED <<pass, how, phase, flags, entered, counts, watch, heal, hist>>

\* Mutant: what an agent returns after a cancel is dropped.
AfterToolUnlessCancelled(c) ==
    /\ Running /\ call[c] = "running" /\ phase[c] = "ended" /\ ~Cancelled(c)
    /\ CallTo(c, "returned")
    /\ UNCHANGED <<pass, how, phase, flags, entered, counts, watch, heal, hist>>

\* The agent has returned: after_tool_callback.
AfterTool(c) ==
    /\ Running /\ call[c] = "running" /\ phase[c] = "ended"
    /\ CallTo(c, "returned")
    /\ UNCHANGED <<pass, how, phase, flags, entered, counts, watch, heal, hist>>

\* ADK answers the calls of one turn together, and the model is asked again.
Respond ==
    LET open == {c \in Calls : call[c] \notin {"none", "answered"}}
    IN  /\ Running /\ phase[Root] = "tools"
        /\ \A c \in open : call[c] = "returned"
        /\ call' = [c \in Calls |-> IF c \in open THEN "answered" ELSE call[c]]
        /\ pending' = pending \ open
        /\ unanswered' = unanswered \ open
        /\ Goto(Root, "agent")
        /\ AfterEvent
        /\ UNCHANGED <<flags, entered, counts, watch, healed, hist>>

-----------------------------------------------------------------------------
(***************************************************************************)
(* Ways out.                                                               *)
(***************************************************************************)

\* The task of the invocation is cancelled: by the executor, by request_cancel
\* or by request_invocation_cancel with cancel_inflight_task.
TaskCancelled ==
    /\ Running
    /\ pass' = "closing" /\ how' = "cancelled"
    /\ UNCHANGED <<run, flags, entered, counts, watch, heal, hist>>

\* A model call raises; from a called agent the error comes up through its call.
Fails(i) ==
    /\ Running /\ phase[i] = "model"
    /\ pass' = "closing" /\ how' = "error"
    /\ UNCHANGED <<run, flags, entered, counts, watch, heal, hist>>

\* close_open_boundaries, one announcement at a time.
CloseBoundary ==
    /\ pass = "closing"
    /\ \E i \in entered : ExitBoundary(i)
    /\ UNCHANGED <<pass, how, run, flags, counts, watch, heal>>

\* Mutant: only an error heals.
BoundariesDoneUnhealed ==
    /\ pass = "closing" /\ entered = {}
    /\ pass' = IF how = "cancelled" THEN "over" ELSE "healing"
    /\ UNCHANGED <<how, run, flags, entered, counts, watch, heal, hist>>

BoundariesDone ==
    /\ pass = "closing" /\ entered = {}
    /\ pass' = "healing"
    /\ UNCHANGED <<how, run, flags, entered, counts, watch, heal, hist>>

Healing == pass \in {"healing", "settling"}

\* _heal_pending_tool_calls appends a response, which may fail.
HealOne(c) ==
    /\ Healing /\ c \in pending \ healed
    /\ healed' = healed \cup {c}
    /\ \/ unanswered' = unanswered \ {c} /\ UNCHANGED hist
       \/ hist' = [hist EXCEPT !.lost = @ \cup {c}] /\ UNCHANGED unanswered
    /\ UNCHANGED <<pass, how, run, flags, entered, counts, watch, pending>>

\* The session cannot be read: nothing is healed.
HealGivesUp ==
    /\ Healing /\ pending # {} /\ healed = {}
    /\ healed' = pending
    /\ hist' = [hist EXCEPT !.lost = @ \cup pending]
    /\ UNCHANGED <<pass, how, run, flags, entered, counts, watch, pending, unanswered>>

\* clear_active_context
ClearContext ==
    /\ top' = NoInv /\ parents' = {} /\ cancelState' = {} /\ sticky' = {}
    /\ entered' = {}
    /\ spawn' = 0 /\ tripped' = FALSE
    /\ watch' = [i \in Invs |-> "off"]

\* After an error, "finally" looks for pending calls once more; after a cancel
\* it only clears the context.
HealDone ==
    /\ Healing /\ healed = pending
    /\ pending' = {} /\ healed' = {}
    /\ IF pass = "healing" /\ how = "error"
       THEN pass' = "settling" /\ UNCHANGED <<flags, entered, counts, watch>>
       ELSE pass' = "over" /\ ClearContext
    /\ UNCHANGED <<how, run, unanswered, hist>>

\* A second cancel, while the handlers wait.  It skips what is left of them:
\* "finally" still clears the context, and after an error still heals.  Within
\* "finally" itself it leaves the context behind.
CancelledAgain ==
    /\ \/ pass = "closing" /\ entered # {}
       \/ Healing /\ pending # {}
    /\ healed' = {}
    /\ IF pass \in {"closing", "healing"} /\ how = "error"
       THEN /\ pass' = "settling"
            /\ hist' = [hist EXCEPT !.again = TRUE]
            /\ UNCHANGED <<flags, entered, counts, watch>>
       ELSE /\ pass' = "over"
            /\ hist' = [hist EXCEPT !.again = TRUE, !.cut = TRUE]
            /\ IF pass = "settling" THEN UNCHANGED <<flags, entered, counts, watch>>
               ELSE ClearContext
    /\ UNCHANGED <<how, run, pending, unanswered>>

-----------------------------------------------------------------------------
Callbacks(i) ==
    \/ BeforeRun(i) \/ EnterBoundary(i) \/ BeforeAgent(i) \/ BeforeModel(i)
    \/ SendRequest(i) \/ ModelAnswers(i) \/ AfterAgent(i) \/ AfterRun(i)

ToolCallbacks(c) ==
    \/ BeforeTool(c) \/ CountSpawn(c) \/ TripAnnounced(c) \/ DispatchCall(c) \/ AfterTool(c)

WayOut == CloseBoundary \/ BoundariesDone \/ (\E c \in Calls : HealOne(c)) \/ HealDone

Next ==
    \/ StartPass \/ Respond \/ TaskCancelled \/ CancelledAgain \/ WayOut \/ HealGivesUp
    \/ \E i \in Invs :
          Callbacks(i) \/ RequestCancel(i) \/ WatcherWakes(i) \/ WatcherFlags(i) \/ Fails(i)
    \/ \E c \in Calls : ToolCallbacks(c) \/ Redirect(c) \/ Approve(c) \/ Reject(c)
    \/ \E cs \in SUBSET Calls : ModelCalls(cs)

Spec == Init /\ [][Next]_vars

\* The event loop and ADK run what can run, and a model answers; cancels,
\* errors, timeouts and decisions of the operator need not come.
Fairness ==
    /\ \A i \in Invs : WF_vars(Callbacks(i))
    /\ \A c \in Calls : WF_vars(ToolCallbacks(c))
    /\ WF_vars(Respond) /\ WF_vars(WayOut)
FairSpec == Spec /\ Fairness

-----------------------------------------------------------------------------
(***************************************************************************)
(* Properties.                                                             *)
(***************************************************************************)

\* An invocation that a cancel was requested for asks its model nothing more,
\* and its calls start no agent any more, whichever callback has consumed the
\* flag: what passed the check before the request is all that goes on.  Nor are
\* more agents started than agent_tool_cap allows, however many calls pass the
\* check together, and the excess is reported once.
NoWorkAfterStop ==
    [][/\ \A i \in hist.requested : phase'[i] = "preparing" => phase[i] = "preparing"
       /\ Root \in hist.requested =>
             \A c \in Calls : call'[c] = "checking" => call[c] = "checking"
       /\ Cardinality(hist'.dispatched) <= Cap /\ hist'.trips <= 1]_vars

\* Every call in the transcript has a response (a provider rejects a transcript
\* in which one has none), on whichever way the invocation ended, unless the
\* response could not be stored or the healing was cancelled; an error whose
\* handling is cancelled still heals.
TranscriptAnswered == unanswered \subseteq hist.lost \/ hist.cut

\* An invocation that was announced as entered is announced as exited, whether
\* it completes, is cancelled or fails.  A pass that stops at an event, for the
\* cap or a finished task, announces nothing.
BoundariesPaired ==
    how \in {"completed", "cancelled", "error"} /\ ~hist.again => hist.open = {}

\* When the invocation is over, nothing of it is left open: neither a call in the
\* transcript nor a boundary (_heal_pending_tool_calls, close_open_boundaries).
NothingLeftOpen == pass = "over" => TranscriptAnswered /\ BoundariesPaired

\* The invocation ends, unless it waits for the operator to confirm a call.
PassEnds == Running ~> (pass = "over" \/ \E c \in Calls : call[c] = "approving")
=============================================================================
