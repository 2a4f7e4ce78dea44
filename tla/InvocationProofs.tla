------------------------- MODULE InvocationProofs --------------------------
(***************************************************************************)
(* The invocation of agents: one invocation within the ADK adapter, and    *)
(* the stages the parallel executor invokes its tasks in.  The proofs of   *)
(* AdkInvocation's NoWorkAfterStop and NothingLeftOpen, for any number of  *)
(* calls, any cap and any set of calls that need a confirmation, and of    *)
(* ParallelExecutor's OnceAndInOrder and FinishedKept, for any plans,      *)
(* bounds, policy and control messages.                                    *)
(*                                                                         *)
(* AdkInvocation: a cancel that was requested stays visible until the      *)
(* invocation has ended, in one of two sets; a call is admitted under the  *)
(* cap before it waits for the operator or runs; a called agent is at work *)
(* only while its call runs, so that none is when the root is done; and    *)
(* what the transcript lacks is pending, not yet healed, or lost.          *)
(*                                                                         *)
(* ParallelExecutor: a task that waits for its seat is in the stage it was *)
(* chosen for and was never invoked, and one that was invoked is in the    *)
(* stage, still to be folded, or in completed_stage_ids.  The order of the *)
(* stages rests on the equation of Placed, whose recursion over the        *)
(* numbers is unfolded by an induction on least counterexamples.           *)
(***************************************************************************)
EXTENDS AdkInvocation, ParallelExecutor, FiniteSetTheorems, WellFoundedInduction, TLAPS

Passes == {"new", "running", "closing", "healing", "settling", "over"}
Inside == {"entered", "agent", "preparing", "model", "tools", "spoken"}
PhaseNames == {"none", "started", "done", "ended"} \cup Inside
CallNames == {"none", "called", "checking", "tripping", "cleared", "approving", "running",
              "returned", "answered"}
Histories == [requested : SUBSET Invs, dispatched : SUBSET Calls, trips : Nat,
              open : SUBSET Invs, lost : SUBSET Calls, again : BOOLEAN, cut : BOOLEAN]

Shapes ==
    /\ pass \in Passes
    /\ phase \in [Invs -> PhaseNames] /\ call \in [Calls -> CallNames]
    /\ parents \subseteq Invs /\ cancelState \subseteq Invs /\ sticky \subseteq Invs
    /\ entered \subseteq Invs
    /\ spawn \in Nat /\ tripped \in BOOLEAN
    /\ pending \subseteq Calls /\ healed \subseteq pending /\ unanswered \subseteq Calls
    /\ hist \in Histories

\* Before the pass starts, nothing has happened.
Fresh ==
    pass = "new" =>
        /\ \A i \in Invs : phase[i] = "none"
        /\ \A c \in Calls : call[c] = "none"
        /\ hist.requested = {} /\ hist.dispatched = {} /\ hist.trips = 0
        /\ unanswered = {} /\ healed = {}

\* A requested cancel is seen by every callback until the invocation ends.
Stopping ==
    Running =>
        /\ phase[Root] # "ended"
        /\ \A i \in hist.requested : phase[i] # "ended" => Cancelled(i)

\* The calls that were let past the cap.
Admitted == hist.dispatched \cup {c \in Calls : call[c] \in {"cleared", "approving"}}
Capped ==
    /\ Cardinality(Admitted) <= Cap /\ hist.trips <= 1
    /\ Running => hist.trips = IF tripped THEN 1 ELSE 0
    /\ Running /\ ~tripped => Cardinality(Admitted) <= spawn /\ spawn <= Cap

\* A called agent is at work only while its call runs, and calls are open only
\* while the root waits for them.
Nested ==
    /\ \A c \in Calls : phase[c] \notin {"none", "ended"} => call[c] = "running"
    /\ phase[Root] # "tools" => \A c \in Calls : call[c] \in {"none", "answered"}

\* What the transcript lacks is still to be healed, or lost.
Healable ==
    /\ pass \in {"new", "running", "closing"} => healed = {}
    /\ pass # "over" => unanswered \subseteq (pending \ healed) \cup hist.lost
    /\ pass = "over" => TranscriptAnswered

\* What was announced as entered is inside, and closed before anything is healed.
Announced ==
    /\ pass # "over" => /\ hist.open \subseteq entered
                        /\ \A i \in entered : phase[i] \in Inside
    /\ pass \in {"healing", "settling", "over"} => BoundariesPaired

AdkInv == Shapes /\ Fresh /\ Stopping /\ Capped /\ Nested /\ Healable /\ Announced

-----------------------------------------------------------------------------
(***************************************************************************)
(* What every step keeps.                                                  *)
(***************************************************************************)

\* Steps keep the shapes.
LEMMA ShapesStep ==
    ASSUME Shapes, Fresh, Healable, Next
    PROVE  Shapes'
<1> USE AdkAssumption
<1>1. ASSUME StartPass PROVE Shapes'
  BY <1>1 DEF StartPass, run, flags, Shapes, Fresh, Healable, Passes, Inside, PhaseNames,
     CallNames, Histories, Invs
<1>2. ASSUME Respond PROVE Shapes'
  BY <1>2 DEF Respond, AfterEvent, flags, counts, Goto, Shapes, Fresh, Healable, Passes, Inside,
     PhaseNames, CallNames, Histories, Invs, Running
<1>3. ASSUME CancelledAgain PROVE Shapes'
  <2>1. hist' \in Histories
    BY <1>3 DEF CancelledAgain, Shapes, Histories
  <2>2. tripped' \in BOOLEAN
    BY <1>3 DEF CancelledAgain, ClearContext, counts, Shapes
  <2>3. spawn' \in Nat /\ pass' \in Passes
    BY <1>3 DEF CancelledAgain, ClearContext, counts, Shapes, Passes
  <2> QED
    BY <1>3, <2>1, <2>2, <2>3 DEF CancelledAgain, ClearContext, run, flags, Shapes
<1>4. ASSUME CloseBoundary PROVE Shapes'
  BY <1>4 DEF CloseBoundary, ExitBoundary, run, flags, counts, heal, Shapes, Fresh, Healable,
     Passes, Inside, PhaseNames, CallNames, Histories, Invs
<1>5. ASSUME HealDone PROVE Shapes'
  <2>1. tripped' \in BOOLEAN
    BY <1>5 DEF HealDone, ClearContext, counts, Shapes
  <2>2. spawn' \in Nat /\ pass' \in Passes
    BY <1>5 DEF HealDone, ClearContext, counts, Shapes, Passes
  <2> QED
    BY <1>5, <2>1, <2>2 DEF HealDone, ClearContext, run, flags, Shapes
<1>6. ASSUME HealGivesUp PROVE Shapes'
  BY <1>6 DEF HealGivesUp, Healing, run, flags, counts, Shapes, Fresh, Healable, Passes, Inside,
     PhaseNames, CallNames, Histories, Invs
<1>7. ASSUME TaskCancelled \/ BoundariesDone PROVE Shapes'
  BY <1>7 DEF TaskCancelled, BoundariesDone, run, flags, counts, heal, Shapes, Fresh, Healable,
     Passes, Inside, PhaseNames, CallNames, Histories, Invs, Running
<1>8. ASSUME NEW i \in Invs, AfterRun(i) PROVE Shapes'
  BY <1>8 DEF AfterRun, counts, heal, Goto, Shapes, Fresh, Healable, Passes, Inside, PhaseNames,
     CallNames, Histories, Invs, Running
<1>9. ASSUME NEW i \in Invs, BeforeRun(i) \/ EnterBoundary(i) \/ BeforeAgent(i) \/
   BeforeModel(i) \/ SendRequest(i) \/ ModelAnswers(i) \/ AfterAgent(i) \/ RequestCancel(i) \/
   WatcherWakes(i) \/ WatcherFlags(i) \/ Fails(i) PROVE Shapes'
  BY <1>9 DEF BeforeRun, EnterBoundary, BeforeAgent, BeforeModel, SendRequest, ModelAnswers,
     AfterAgent, RequestCancel, WatcherWakes, WatcherFlags, Fails, Observe, ExitBoundary,
     AfterModel, Flag, Flagged, run, flags, counts, heal, Goto, Shapes, Fresh, Healable, Passes,
     Inside, PhaseNames, CallNames, Histories, Invs, Running
<1>10. ASSUME NEW c \in Calls, HealOne(c) PROVE Shapes'
  BY <1>10 DEF HealOne, Healing, run, flags, counts, Shapes, Fresh, Healable, Passes, Inside,
     PhaseNames, CallNames, Histories, Invs
<1>11. ASSUME NEW c \in Calls, CountSpawn(c) PROVE Shapes'
  <2>1. tripped' \in BOOLEAN
    BY <1>11 DEF CountSpawn, Shapes
  <2>2. call' \in [Calls -> CallNames]
    BY <1>11 DEF CountSpawn, CallTo, Shapes, CallNames
  <2>3. spawn' \in Nat /\ hist' \in Histories
    BY <1>11 DEF CountSpawn, Shapes, Histories
  <2> QED
    BY <1>11, <2>1, <2>2, <2>3 DEF CountSpawn, flags, heal, Shapes
<1>12. ASSUME NEW c \in Calls, BeforeTool(c) \/ TripAnnounced(c) \/ DispatchCall(c) \/
   AfterTool(c) \/ Redirect(c) \/ Approve(c) \/ Reject(c) PROVE Shapes'
  BY <1>12 DEF BeforeTool, TripAnnounced, DispatchCall, AfterTool, Redirect, Approve, Reject,
     Observe, Dispatched, flags, counts, heal, CallTo, Shapes, Fresh, Healable, Passes, Inside,
     PhaseNames, CallNames, Histories, Invs, Running
<1>13. ASSUME NEW cs \in SUBSET Calls, ModelCalls(cs) PROVE Shapes'
  BY <1>13 DEF ModelCalls, AfterModel, AfterEvent, flags, counts, Goto, Shapes, Fresh, Healable,
     Passes, Inside, PhaseNames, CallNames, Histories, Invs, Running
<1> QED
  BY <1>1, <1>2, <1>3, <1>4, <1>5, <1>6, <1>7, <1>8, <1>9, <1>10, <1>11, <1>12, <1>13 DEF Next,
     Callbacks, ToolCallbacks, WayOut

\* The pass is new only until it starts.
LEMMA FreshStep ==
    ASSUME Shapes, Fresh, Next
    PROVE  Fresh'
<1> USE AdkAssumption
<1>1. ASSUME StartPass \/ Respond \/ TaskCancelled \/ CancelledAgain \/ CloseBoundary \/
   BoundariesDone \/ HealDone \/ HealGivesUp PROVE Fresh'
  BY <1>1 DEF StartPass, Respond, TaskCancelled, CancelledAgain, CloseBoundary, BoundariesDone,
     HealDone, HealGivesUp, AfterEvent, ClearContext, Healing, ExitBoundary, run, flags, counts,
     heal, Goto, Fresh, Running
<1>2. ASSUME NEW i \in Invs, BeforeRun(i) \/ EnterBoundary(i) \/ BeforeAgent(i) \/
   BeforeModel(i) \/ SendRequest(i) \/ ModelAnswers(i) \/ AfterAgent(i) \/ AfterRun(i) \/
   RequestCancel(i) \/ WatcherWakes(i) \/ WatcherFlags(i) \/ Fails(i) PROVE Fresh'
  BY <1>2 DEF BeforeRun, EnterBoundary, BeforeAgent, BeforeModel, SendRequest, ModelAnswers,
     AfterAgent, AfterRun, RequestCancel, WatcherWakes, WatcherFlags, Fails, Observe,
     ExitBoundary, AfterModel, Flag, Flagged, run, flags, counts, heal, Goto, Fresh, Running
<1>3. ASSUME NEW c \in Calls, HealOne(c) \/ BeforeTool(c) \/ CountSpawn(c) \/ TripAnnounced(c)
   \/ DispatchCall(c) \/ AfterTool(c) \/ Redirect(c) \/ Approve(c) \/ Reject(c) PROVE Fresh'
  BY <1>3 DEF HealOne, BeforeTool, CountSpawn, TripAnnounced, DispatchCall, AfterTool, Redirect,
     Approve, Reject, Healing, Observe, Dispatched, run, flags, counts, heal, CallTo, Fresh,
     Running
<1>4. ASSUME NEW cs \in SUBSET Calls, ModelCalls(cs) PROVE Fresh'
  BY <1>4 DEF ModelCalls, AfterModel, AfterEvent, flags, counts, Goto, Fresh, Running
<1> QED
  BY <1>1, <1>2, <1>3, <1>4 DEF Next, Callbacks, ToolCallbacks, WayOut

\* A requested cancel stays visible: a callback that consumes the flag keeps it,
\* and only the end of the invocation forgets it.
LEMMA StoppingStep ==
    ASSUME Shapes, Fresh, Stopping, Next
    PROVE  Stopping'
<1> USE AdkAssumption
<1>1. ASSUME StartPass PROVE Stopping'
  BY <1>1 DEF StartPass, run, flags, Stopping, Fresh, Running, Cancelled, Shapes, Histories,
     Invs
<1>2. ASSUME Respond \/ TaskCancelled \/ CancelledAgain \/ CloseBoundary \/ BoundariesDone \/
   HealDone \/ HealGivesUp PROVE Stopping'
  BY <1>2 DEF Respond, TaskCancelled, CancelledAgain, CloseBoundary, BoundariesDone, HealDone,
     HealGivesUp, AfterEvent, ClearContext, Healing, ExitBoundary, run, flags, counts, heal,
     Goto, Stopping, Fresh, Running, Cancelled, Shapes, Histories, Invs
<1>3. ASSUME NEW i \in Invs, BeforeRun(i) PROVE Stopping'
  BY <1>3 DEF BeforeRun, counts, heal, Goto, Stopping, Fresh, Running, Cancelled, Shapes,
     Histories, Invs
<1>4. ASSUME NEW i \in Invs, BeforeAgent(i) PROVE Stopping'
  BY <1>4 DEF BeforeAgent, Observe, ExitBoundary, counts, heal, Goto, Stopping, Fresh, Running,
     Cancelled, Shapes, Histories, Invs
<1>5. ASSUME NEW i \in Invs, BeforeModel(i) PROVE Stopping'
  BY <1>5 DEF BeforeModel, Observe, counts, heal, Goto, Stopping, Fresh, Running, Cancelled,
     Shapes, Histories, Invs
<1>6. ASSUME NEW i \in Invs, AfterRun(i) PROVE Stopping'
  BY <1>6 DEF AfterRun, counts, heal, Goto, Stopping, Fresh, Running, Cancelled, Shapes,
     Histories, Invs
<1>7. ASSUME NEW i \in Invs, RequestCancel(i) PROVE Stopping'
  BY <1>7 DEF RequestCancel, Flag, Flagged, run, counts, heal, Stopping, Fresh, Running,
     Cancelled, Shapes, Histories, Invs
<1>8. ASSUME NEW i \in Invs, WatcherFlags(i) PROVE Stopping'
  BY <1>8 DEF WatcherFlags, Flag, Flagged, run, flags, counts, heal, Stopping, Fresh, Running,
     Cancelled, Shapes, Histories, Invs
<1>9. ASSUME NEW i \in Invs, EnterBoundary(i) \/ SendRequest(i) \/ ModelAnswers(i) \/
   AfterAgent(i) \/ WatcherWakes(i) \/ Fails(i) PROVE Stopping'
  BY <1>9 DEF EnterBoundary, SendRequest, ModelAnswers, AfterAgent, WatcherWakes, Fails,
     AfterModel, ExitBoundary, run, flags, counts, heal, Goto, Stopping, Fresh, Running,
     Cancelled, Shapes, Histories, Invs
<1>10. ASSUME NEW c \in Calls, BeforeTool(c) PROVE Stopping'
  BY <1>10 DEF BeforeTool, Observe, counts, heal, CallTo, Stopping, Fresh, Running, Cancelled,
     Shapes, Histories, Invs
<1>11. ASSUME NEW c \in Calls, HealOne(c) \/ CountSpawn(c) \/ TripAnnounced(c) \/
   DispatchCall(c) \/ AfterTool(c) \/ Redirect(c) \/ Approve(c) \/ Reject(c) PROVE Stopping'
  BY <1>11 DEF HealOne, CountSpawn, TripAnnounced, DispatchCall, AfterTool, Redirect, Approve,
     Reject, Healing, Dispatched, run, flags, counts, heal, CallTo, Stopping, Fresh, Running,
     Cancelled, Shapes, Histories, Invs
<1>12. ASSUME NEW cs \in SUBSET Calls, ModelCalls(cs) PROVE Stopping'
  BY <1>12 DEF ModelCalls, AfterModel, AfterEvent, flags, counts, Goto, Stopping, Fresh,
     Running, Cancelled, Shapes, Histories, Invs
<1> QED
  BY <1>1, <1>2, <1>3, <1>4, <1>5, <1>6, <1>7, <1>8, <1>9, <1>10, <1>11, <1>12 DEF Next,
     Callbacks, ToolCallbacks, WayOut

\* Called agents and their calls stay nested.
LEMMA NestedStep ==
    ASSUME Shapes, Nested, Next
    PROVE  Nested'
<1> USE AdkAssumption
<1>1. ASSUME Respond PROVE Nested'
  BY <1>1 DEF Respond, AfterEvent, flags, counts, Goto, Nested, Running, Shapes, Invs
<1>2. ASSUME StartPass \/ TaskCancelled \/ CancelledAgain \/ CloseBoundary \/ BoundariesDone \/
   HealDone \/ HealGivesUp PROVE Nested'
  BY <1>2 DEF StartPass, TaskCancelled, CancelledAgain, CloseBoundary, BoundariesDone, HealDone,
     HealGivesUp, ClearContext, Healing, ExitBoundary, run, flags, counts, heal, Nested,
     Running, Shapes, Invs
<1>3. ASSUME NEW i \in Invs, BeforeRun(i) PROVE Nested'
  BY <1>3 DEF BeforeRun, counts, heal, Goto, Nested, Running, Shapes, Invs
<1>4. ASSUME NEW i \in Invs, AfterRun(i) PROVE Nested'
  BY <1>4 DEF AfterRun, counts, heal, Goto, Nested, Running, Shapes, Invs
<1>5. ASSUME NEW i \in Invs, EnterBoundary(i) \/ BeforeAgent(i) \/ BeforeModel(i) \/
   SendRequest(i) \/ ModelAnswers(i) \/ AfterAgent(i) \/ RequestCancel(i) \/ WatcherWakes(i) \/
   WatcherFlags(i) \/ Fails(i) PROVE Nested'
  BY <1>5 DEF EnterBoundary, BeforeAgent, BeforeModel, SendRequest, ModelAnswers, AfterAgent,
     RequestCancel, WatcherWakes, WatcherFlags, Fails, Observe, ExitBoundary, AfterModel, Flag,
     Flagged, run, flags, counts, heal, Goto, Nested, Running, Shapes, Invs
<1>6. ASSUME NEW c \in Calls, AfterTool(c) PROVE Nested'
  BY <1>6 DEF AfterTool, flags, counts, heal, CallTo, Nested, Running, Shapes, Invs
<1>7. ASSUME NEW c \in Calls, HealOne(c) \/ BeforeTool(c) \/ CountSpawn(c) \/ TripAnnounced(c)
   \/ DispatchCall(c) \/ Redirect(c) \/ Approve(c) \/ Reject(c) PROVE Nested'
  BY <1>7 DEF HealOne, BeforeTool, CountSpawn, TripAnnounced, DispatchCall, Redirect, Approve,
     Reject, Healing, Observe, Dispatched, run, flags, counts, heal, CallTo, Nested, Running,
     Shapes, Invs
<1>8. ASSUME NEW cs \in SUBSET Calls, ModelCalls(cs) PROVE Nested'
  BY <1>8 DEF ModelCalls, AfterModel, AfterEvent, flags, counts, Goto, Nested, Running, Shapes,
     Invs
<1> QED
  BY <1>1, <1>2, <1>3, <1>4, <1>5, <1>6, <1>7, <1>8 DEF Next, Callbacks, ToolCallbacks, WayOut

\* What is unanswered stays accounted for.
LEMMA HealableStep ==
    ASSUME Shapes, Fresh, Healable, Next
    PROVE  Healable'
<1> USE AdkAssumption
<1>1. ASSUME StartPass PROVE Healable'
  BY <1>1 DEF StartPass, run, flags, Healable, Fresh, TranscriptAnswered, Shapes, Histories,
     Passes
<1>2. ASSUME Respond PROVE Healable'
  BY <1>2 DEF Respond, AfterEvent, flags, counts, Goto, Healable, Fresh, TranscriptAnswered,
     Running, Shapes, Histories, Passes
<1>3. ASSUME CancelledAgain PROVE Healable'
  BY <1>3 DEF CancelledAgain, ClearContext, Healing, run, flags, counts, Healable, Fresh,
     TranscriptAnswered, Shapes, Histories, Passes
<1>4. ASSUME HealDone PROVE Healable'
  BY <1>4 DEF HealDone, Healing, ClearContext, run, flags, counts, Healable, Fresh,
     TranscriptAnswered, Shapes, Histories, Passes
<1>5. ASSUME HealGivesUp PROVE Healable'
  BY <1>5 DEF HealGivesUp, Healing, run, flags, counts, Healable, Fresh, TranscriptAnswered,
     Shapes, Histories, Passes
<1>6. ASSUME TaskCancelled \/ CloseBoundary \/ BoundariesDone PROVE Healable'
  BY <1>6 DEF TaskCancelled, CloseBoundary, BoundariesDone, ExitBoundary, run, flags, counts,
     heal, Healable, Fresh, TranscriptAnswered, Running, Shapes, Histories, Passes
<1>7. ASSUME NEW i \in Invs, AfterRun(i) PROVE Healable'
  BY <1>7 DEF AfterRun, counts, heal, Goto, Healable, Fresh, TranscriptAnswered, Running,
     Shapes, Histories, Passes
<1>8. ASSUME NEW i \in Invs, BeforeRun(i) \/ EnterBoundary(i) \/ BeforeAgent(i) \/
   BeforeModel(i) \/ SendRequest(i) \/ ModelAnswers(i) \/ AfterAgent(i) \/ RequestCancel(i) \/
   WatcherWakes(i) \/ WatcherFlags(i) \/ Fails(i) PROVE Healable'
  BY <1>8 DEF BeforeRun, EnterBoundary, BeforeAgent, BeforeModel, SendRequest, ModelAnswers,
     AfterAgent, RequestCancel, WatcherWakes, WatcherFlags, Fails, Observe, ExitBoundary,
     AfterModel, Flag, Flagged, run, flags, counts, heal, Goto, Healable, Fresh,
     TranscriptAnswered, Running, Shapes, Histories, Passes
<1>9. ASSUME NEW c \in Calls, HealOne(c) PROVE Healable'
  BY <1>9 DEF HealOne, Healing, run, flags, counts, Healable, Fresh, TranscriptAnswered, Shapes,
     Histories, Passes
<1>10. ASSUME NEW c \in Calls, BeforeTool(c) \/ CountSpawn(c) \/ TripAnnounced(c) \/
   DispatchCall(c) \/ AfterTool(c) \/ Redirect(c) \/ Approve(c) \/ Reject(c) PROVE Healable'
  BY <1>10 DEF BeforeTool, CountSpawn, TripAnnounced, DispatchCall, AfterTool, Redirect,
     Approve, Reject, Observe, Dispatched, flags, counts, heal, CallTo, Healable, Fresh,
     TranscriptAnswered, Running, Shapes, Histories, Passes
<1>11. ASSUME NEW cs \in SUBSET Calls, ModelCalls(cs) PROVE Healable'
  BY <1>11 DEF ModelCalls, AfterModel, AfterEvent, flags, counts, Goto, Healable, Fresh,
     TranscriptAnswered, Running, Shapes, Histories, Passes
<1> QED
  BY <1>1, <1>2, <1>3, <1>4, <1>5, <1>6, <1>7, <1>8, <1>9, <1>10, <1>11 DEF Next, Callbacks,
     ToolCallbacks, WayOut

\* What is open was entered, and the way out closes it.
LEMMA AnnouncedStep ==
    ASSUME Shapes, Nested, Announced, Next
    PROVE  Announced'
<1> USE AdkAssumption
<1>1. ASSUME Respond PROVE Announced'
  BY <1>1 DEF Respond, AfterEvent, flags, counts, Goto, Announced, Nested, BoundariesPaired,
     Running, Shapes, Histories, Passes, Inside, Invs
<1>2. ASSUME CancelledAgain PROVE Announced'
  <2>1. hist'.again /\ hist'.open = hist.open
    BY <1>2 DEF CancelledAgain, Shapes, Histories
  <2>2. BoundariesPaired'
    BY <2>1 DEF BoundariesPaired
  <2>3. pass' # "over" => entered' = entered
    BY <1>2 DEF CancelledAgain
  <2>4. pass # "over" /\ phase' = phase
    BY <1>2 DEF CancelledAgain, Healing, run
  <2> QED
    BY <2>1, <2>2, <2>3, <2>4 DEF Announced
<1>3. ASSUME CloseBoundary PROVE Announced'
  BY <1>3 DEF CloseBoundary, ExitBoundary, run, flags, counts, heal, Announced, Nested,
     BoundariesPaired, Shapes, Histories, Passes, Inside, Invs
<1>4. ASSUME BoundariesDone PROVE Announced'
  BY <1>4 DEF BoundariesDone, run, flags, counts, heal, Announced, Nested, BoundariesPaired,
     Shapes, Histories, Passes, Inside, Invs
<1>5. ASSUME HealDone PROVE Announced'
  BY <1>5 DEF HealDone, Healing, ClearContext, run, flags, counts, Announced, Nested,
     BoundariesPaired, Shapes, Histories, Passes, Inside, Invs
<1>6. ASSUME StartPass \/ TaskCancelled \/ HealGivesUp PROVE Announced'
  BY <1>6 DEF StartPass, TaskCancelled, HealGivesUp, Healing, run, flags, counts, heal,
     Announced, Nested, BoundariesPaired, Running, Shapes, Histories, Passes, Inside, Invs
<1>7. ASSUME NEW i \in Invs, EnterBoundary(i) PROVE Announced'
  BY <1>7 DEF EnterBoundary, flags, counts, heal, Goto, Announced, Nested, BoundariesPaired,
     Running, Shapes, Histories, Passes, Inside, Invs
<1>8. ASSUME NEW i \in Invs, BeforeAgent(i) PROVE Announced'
  BY <1>8 DEF BeforeAgent, Observe, ExitBoundary, counts, heal, Goto, Announced, Nested,
     BoundariesPaired, Running, Shapes, Histories, Passes, Inside, Invs
<1>9. ASSUME NEW i \in Invs, AfterAgent(i) PROVE Announced'
  BY <1>9 DEF AfterAgent, ExitBoundary, flags, counts, heal, Goto, Announced, Nested,
     BoundariesPaired, Running, Shapes, Histories, Passes, Inside, Invs
<1>10. ASSUME NEW i \in Invs, AfterRun(i) PROVE Announced'
  BY <1>10 DEF AfterRun, counts, heal, Goto, Announced, Nested, BoundariesPaired, Running,
     Shapes, Histories, Passes, Inside, Invs
<1>11. ASSUME NEW i \in Invs, BeforeRun(i) \/ BeforeModel(i) \/ SendRequest(i) \/
   ModelAnswers(i) \/ RequestCancel(i) \/ WatcherWakes(i) \/ WatcherFlags(i) \/ Fails(i) PROVE Announced'
  BY <1>11 DEF BeforeRun, BeforeModel, SendRequest, ModelAnswers, RequestCancel, WatcherWakes,
     WatcherFlags, Fails, Observe, AfterModel, Flag, Flagged, run, flags, counts, heal, Goto,
     Announced, Nested, BoundariesPaired, Running, Shapes, Histories, Passes, Inside, Invs
<1>12. ASSUME NEW c \in Calls, HealOne(c) \/ BeforeTool(c) \/ CountSpawn(c) \/ TripAnnounced(c)
   \/ DispatchCall(c) \/ AfterTool(c) \/ Redirect(c) \/ Approve(c) \/ Reject(c) PROVE Announced'
  BY <1>12 DEF HealOne, BeforeTool, CountSpawn, TripAnnounced, DispatchCall, AfterTool,
     Redirect, Approve, Reject, Healing, Observe, Dispatched, run, flags, counts, heal, CallTo,
     Announced, Nested, BoundariesPaired, Running, Shapes, Histories, Passes, Inside, Invs
<1>13. ASSUME NEW cs \in SUBSET Calls, ModelCalls(cs) PROVE Announced'
  BY <1>13 DEF ModelCalls, AfterModel, AfterEvent, flags, counts, Goto, Announced, Nested,
     BoundariesPaired, Running, Shapes, Histories, Passes, Inside, Invs
<1> QED
  BY <1>1, <1>2, <1>3, <1>4, <1>5, <1>6, <1>7, <1>8, <1>9, <1>10, <1>11, <1>12, <1>13 DEF Next,
     Callbacks, ToolCallbacks, WayOut

-----------------------------------------------------------------------------
(***************************************************************************)
(* The cap.                                                                *)
(***************************************************************************)

\* The admitted calls can be counted, and fewer of them count less.
LEMMA AdmittedCount ==
    ASSUME Shapes
    PROVE  /\ Admitted \subseteq Calls /\ IsFiniteSet(Admitted)
           /\ Cardinality(Admitted) \in Nat
           /\ \A S : S \subseteq Admitted => Cardinality(S) \in Nat
                                           /\ Cardinality(S) <= Cardinality(Admitted)
<1>1. Admitted \subseteq Calls
  BY DEF Shapes, Histories, Admitted
<1>2. IsFiniteSet(Admitted)
  BY <1>1, FS_Subset, AdkAssumption
<1>3. Cardinality(Admitted) \in Nat
  BY <1>2, FS_CardinalityType
<1>4. ASSUME NEW S, S \subseteq Admitted
      PROVE  Cardinality(S) \in Nat /\ Cardinality(S) <= Cardinality(Admitted)
  BY <1>2, <1>4, FS_Subset, FS_CardinalityType
<1> QED
  BY <1>1, <1>2, <1>3, <1>4

\* A step that admits no call and leaves the counters alone.
LEMMA NoneAdmitted ==
    ASSUME Shapes, Capped, Admitted' \subseteq Admitted, hist'.trips = hist.trips,
           Running' => Running /\ tripped' = tripped /\ spawn' = spawn
    PROVE  Capped'
<1>1. Cardinality(Admitted') \in Nat /\ Cardinality(Admitted') <= Cardinality(Admitted)
  BY AdmittedCount
<1>2. Cardinality(Admitted) \in Nat /\ spawn \in Nat /\ Cap \in Nat
  BY AdmittedCount, AdkAssumption DEF Shapes
<1>3. Cardinality(Admitted)' = Cardinality(Admitted')
  OBVIOUS
<1> QED
  BY <1>1, <1>2, <1>3 DEF Capped

\* A call counts itself: it is admitted, reports the excess, or returns.
LEMMA CountSpawnCapped ==
    ASSUME Shapes, Capped, NEW c \in Calls, CountSpawn(c)
    PROVE  Capped'
<1>1. /\ Cardinality(Admitted) \in Nat /\ spawn \in Nat /\ Cap \in Nat /\ hist.trips \in Nat
      /\ IsFiniteSet(Admitted)
  BY AdmittedCount, AdkAssumption DEF Shapes, Histories
<1>2. Running /\ Running' /\ spawn' = spawn + 1
  BY DEF CountSpawn, Running
<1>3. CASE spawn' > Cap /\ ~tripped
  <2>1. tripped' /\ hist'.trips = hist.trips + 1 /\ hist'.dispatched = hist.dispatched
    BY <1>3 DEF CountSpawn, Shapes, Histories
  <2>2. Admitted' \subseteq Admitted
    BY <1>3, <2>1 DEF CountSpawn, CallTo, Admitted, Shapes
  <2>3. Cardinality(Admitted') \in Nat /\ Cardinality(Admitted') <= Cardinality(Admitted)
    BY <2>2, AdmittedCount
  <2> QED
    BY <1>1, <1>2, <1>3, <2>1, <2>3 DEF Capped
<1>4. CASE tripped
  <2>1. tripped' = tripped /\ hist' = hist
    BY <1>4 DEF CountSpawn
  <2>2. Admitted' \subseteq Admitted
    BY <1>4, <2>1 DEF CountSpawn, CallTo, Admitted, Shapes
  <2>3. Cardinality(Admitted') \in Nat /\ Cardinality(Admitted') <= Cardinality(Admitted)
    BY <2>2, AdmittedCount
  <2> QED
    BY <1>1, <1>2, <1>4, <2>1, <2>3 DEF Capped
<1>5. CASE ~(spawn' > Cap) /\ ~tripped
  <2>1. ~tripped' /\ hist' = hist
    BY <1>5 DEF CountSpawn
  <2>2. Admitted' \subseteq Admitted \cup {c}
    BY <1>5, <2>1 DEF CountSpawn, CallTo, Admitted, Shapes
  <2>3. /\ IsFiniteSet(Admitted \cup {c})
        /\ Cardinality(Admitted \cup {c}) \in Nat
        /\ Cardinality(Admitted \cup {c}) <= Cardinality(Admitted) + 1
    <3>1. /\ IsFiniteSet(Admitted \cup {c})
          /\ Cardinality(Admitted \cup {c}) =
                IF c \in Admitted THEN Cardinality(Admitted) ELSE Cardinality(Admitted) + 1
      BY <1>1, FS_AddElement
    <3> QED
      BY <1>1, <3>1
  <2>4. /\ Cardinality(Admitted') \in Nat
        /\ Cardinality(Admitted') <= Cardinality(Admitted \cup {c})
    BY <2>2, <2>3, FS_Subset, FS_CardinalityType
  <2> QED
    BY <1>1, <1>2, <1>5, <2>1, <2>3, <2>4 DEF Capped
<1> QED
  BY <1>3, <1>4, <1>5

\* Only CountSpawn admits a call, and only the start of the pass and the way out
\* touch the counters otherwise.
LEMMA FewerAdmitted ==
    ASSUME Shapes, Next, ~StartPass, \A c \in Calls : ~CountSpawn(c)
    PROVE  /\ Admitted' \subseteq Admitted /\ hist'.trips = hist.trips
           /\ Running' => Running /\ tripped' = tripped /\ spawn' = spawn
<1> DEFINE Goal == /\ Admitted' \subseteq Admitted /\ hist'.trips = hist.trips
                   /\ Running' => Running /\ tripped' = tripped /\ spawn' = spawn
<1> USE AdkAssumption
<1>1. ASSUME Respond PROVE Goal
  BY <1>1 DEF Respond, AfterEvent, flags, counts, Goto, Admitted, Running, Shapes, Histories
<1>2. ASSUME CancelledAgain PROVE Goal
  BY <1>2 DEF CancelledAgain, ClearContext, Healing, run, flags, counts, Admitted, Running,
     Shapes, Histories
<1>3. ASSUME HealDone PROVE Goal
  BY <1>3 DEF HealDone, Healing, ClearContext, run, flags, counts, Admitted, Running, Shapes,
     Histories
<1>4. ASSUME TaskCancelled \/ CloseBoundary \/ BoundariesDone \/ HealGivesUp PROVE Goal
  BY <1>4 DEF TaskCancelled, CloseBoundary, BoundariesDone, HealGivesUp, ExitBoundary, Healing,
     run, flags, counts, heal, Admitted, Running, Shapes, Histories
<1>5. ASSUME NEW i \in Invs, BeforeRun(i) \/ EnterBoundary(i) \/ BeforeAgent(i) \/
   BeforeModel(i) \/ SendRequest(i) \/ ModelAnswers(i) \/ AfterAgent(i) \/ AfterRun(i) \/
   RequestCancel(i) \/ WatcherWakes(i) \/ WatcherFlags(i) \/ Fails(i) PROVE Goal
  BY <1>5 DEF BeforeRun, EnterBoundary, BeforeAgent, BeforeModel, SendRequest, ModelAnswers,
     AfterAgent, AfterRun, RequestCancel, WatcherWakes, WatcherFlags, Fails, Observe,
     ExitBoundary, AfterModel, Flag, Flagged, run, flags, counts, heal, Goto, Admitted, Running,
     Shapes, Histories
<1>6. ASSUME NEW c \in Calls, DispatchCall(c) PROVE Goal
  BY <1>6 DEF DispatchCall, Dispatched, flags, counts, heal, CallTo, Admitted, Running, Shapes,
     Histories
<1>7. ASSUME NEW c \in Calls, Approve(c) PROVE Goal
  BY <1>7 DEF Approve, Dispatched, flags, counts, heal, CallTo, Admitted, Running, Shapes,
     Histories
<1>8. ASSUME NEW c \in Calls, HealOne(c) \/ BeforeTool(c) \/ TripAnnounced(c)
   \/ AfterTool(c) \/ Redirect(c) \/ Reject(c) PROVE Goal
  BY <1>8 DEF HealOne, BeforeTool, TripAnnounced, AfterTool, Redirect, Reject, Healing, Observe,
     run, flags, counts, heal, CallTo, Admitted, Running, Shapes, Histories
<1>9. ASSUME NEW cs \in SUBSET Calls, ModelCalls(cs) PROVE Goal
  BY <1>9 DEF ModelCalls, AfterModel, AfterEvent, flags, counts, Goto, Admitted, Running,
     Shapes, Histories
<1> QED
  BY <1>1, <1>2, <1>3, <1>4, <1>5, <1>6, <1>7, <1>8, <1>9 DEF Next, Callbacks, ToolCallbacks,
     WayOut

\* No step admits more calls than the cap allows.
LEMMA CappedStep ==
    ASSUME Shapes, Fresh, Capped, Next
    PROVE  Capped'
<1>1. CASE StartPass
  <2>1. Admitted' = {} /\ hist'.trips = 0 /\ spawn' = 0 /\ ~tripped'
    BY <1>1 DEF StartPass, run, Admitted, Fresh
  <2>2. Cardinality(Admitted') = 0
    BY <2>1, FS_EmptySet
  <2> QED
    BY <2>1, <2>2, AdkAssumption DEF Capped
<1>2. CASE \E c \in Calls : CountSpawn(c)
  BY <1>2, CountSpawnCapped
<1>3. CASE ~StartPass /\ \A c \in Calls : ~CountSpawn(c)
  BY <1>3, FewerAdmitted, NoneAdmitted
<1> QED
  BY <1>1, <1>2, <1>3

-----------------------------------------------------------------------------
(***************************************************************************)
(* The invariant, and what it is for.                                      *)
(***************************************************************************)

\* A state that does not change keeps the invariant.
LEMMA AdkStutter == ASSUME AdkInv, UNCHANGED vars PROVE AdkInv'
BY DEF AdkInv, vars, run, flags, counts, heal, Shapes, Fresh, Stopping, Capped, Nested,
       Healable, Announced, Admitted, Running, Cancelled, TranscriptAnswered, BoundariesPaired

\* The first state satisfies the invariant.
LEMMA AdkInit == Init => AdkInv
<1> USE AdkAssumption
<1> SUFFICES ASSUME Init PROVE AdkInv
  OBVIOUS
<1>1. hist \in Histories /\ hist.requested = {} /\ hist.dispatched = {} /\ hist.trips = 0
      /\ hist.open = {}
  BY DEF Init, Histories
<1>2. Shapes
  BY <1>1 DEF Init, Shapes, Passes, PhaseNames, CallNames
<1>3. Admitted = {}
  BY <1>1 DEF Init, Admitted
<1>4. Capped
  BY <1>1, <1>3, FS_EmptySet DEF Capped, Init, Running
<1>5. Fresh /\ Stopping /\ Nested /\ Healable /\ Announced
  BY <1>1 DEF Init, Fresh, Stopping, Nested, Healable, Announced, Running, Invs
<1> QED
  BY <1>2, <1>4, <1>5 DEF AdkInv

\* The invariant holds.
LEMMA AdkInvHolds == Spec => []AdkInv
<1>1. ASSUME AdkInv, [Next]_vars PROVE AdkInv'
  BY <1>1, AdkStutter, ShapesStep, FreshStep, StoppingStep, NestedStep, HealableStep,
     AnnouncedStep, CappedStep DEF AdkInv
<1> QED
  BY <1>1, AdkInit, PTL DEF Spec

\* Whichever way an invocation ends (it completes, it is cancelled, its model
\* fails, the cap stops it), every call in the transcript has its response and
\* every boundary that was announced as entered was announced as exited, unless
\* a response could not be stored or the healing itself was cancelled.
THEOREM NothingLeftOpenHolds == Spec => []NothingLeftOpen
<1>1. AdkInv => NothingLeftOpen
  BY DEF AdkInv, Healable, Announced, NothingLeftOpen
<1> QED
  BY <1>1, AdkInvHolds, PTL

\* An invocation that was to be cancelled asks its model nothing more.
LEMMA AsksNoMore ==
    ASSUME AdkInv, Next
    PROVE  \A i \in hist.requested : phase'[i] = "preparing" => phase[i] = "preparing"
<1> DEFINE Goal == \A i \in hist.requested : phase'[i] = "preparing" => phase[i] = "preparing"
<1> USE AdkAssumption
<1>1. ASSUME Respond PROVE Goal
  BY <1>1 DEF Respond, AfterEvent, flags, counts, Goto, AdkInv, Stopping, Running, Cancelled,
     Shapes, Histories, Invs
<1>2. ASSUME StartPass \/ TaskCancelled \/ CancelledAgain \/ CloseBoundary \/ BoundariesDone \/
   HealDone \/ HealGivesUp PROVE Goal
  BY <1>2 DEF StartPass, TaskCancelled, CancelledAgain, CloseBoundary, BoundariesDone, HealDone,
     HealGivesUp, ClearContext, Healing, ExitBoundary, run, flags, counts, heal, AdkInv,
     Stopping, Running, Cancelled, Shapes, Histories, Invs
<1>3. ASSUME NEW i \in Invs, BeforeModel(i) PROVE Goal
  BY <1>3 DEF BeforeModel, Observe, counts, heal, Goto, AdkInv, Stopping, Running, Cancelled,
     Shapes, Histories, Invs
<1>4. ASSUME NEW i \in Invs, BeforeRun(i) \/ EnterBoundary(i) \/ BeforeAgent(i) \/
   SendRequest(i) \/ ModelAnswers(i) \/ AfterAgent(i) \/ AfterRun(i) \/ RequestCancel(i) \/
   WatcherWakes(i) \/ WatcherFlags(i) \/ Fails(i) PROVE Goal
  BY <1>4 DEF BeforeRun, EnterBoundary, BeforeAgent, SendRequest, ModelAnswers, AfterAgent,
     AfterRun, RequestCancel, WatcherWakes, WatcherFlags, Fails, Observe, ExitBoundary,
     AfterModel, Flag, Flagged, run, flags, counts, heal, Goto, AdkInv, Stopping, Running,
     Cancelled, Shapes, Histories, Invs
<1>5. ASSUME NEW c \in Calls, HealOne(c) \/ BeforeTool(c) \/ CountSpawn(c) \/ TripAnnounced(c)
   \/ DispatchCall(c) \/ AfterTool(c) \/ Redirect(c) \/ Approve(c) \/ Reject(c) PROVE Goal
  BY <1>5 DEF HealOne, BeforeTool, CountSpawn, TripAnnounced, DispatchCall, AfterTool, Redirect,
     Approve, Reject, Healing, Observe, Dispatched, run, flags, counts, heal, CallTo, AdkInv,
     Stopping, Running, Cancelled, Shapes, Histories, Invs
<1>6. ASSUME NEW cs \in SUBSET Calls, ModelCalls(cs) PROVE Goal
  BY <1>6 DEF ModelCalls, AfterModel, AfterEvent, flags, counts, Goto, AdkInv, Stopping,
     Running, Cancelled, Shapes, Histories, Invs
<1> QED
  BY <1>1, <1>2, <1>3, <1>4, <1>5, <1>6 DEF Next, Callbacks, ToolCallbacks, WayOut

\* The calls of a root that was to be cancelled do not get past the first check.
LEMMA StartsNoMore ==
    ASSUME AdkInv, Next
    PROVE  Root \in hist.requested =>
               \A c \in Calls : call'[c] = "checking" => call[c] = "checking"
<1> DEFINE Goal == Root \in hist.requested =>
               \A c \in Calls : call'[c] = "checking" => call[c] = "checking"
<1> USE AdkAssumption
<1>1. ASSUME Respond PROVE Goal
  BY <1>1 DEF Respond, AfterEvent, flags, counts, Goto, AdkInv, Stopping, Running, Cancelled,
     Shapes
<1>2. ASSUME StartPass \/ TaskCancelled \/ CancelledAgain \/ CloseBoundary \/ BoundariesDone \/
   HealDone \/ HealGivesUp PROVE Goal
  BY <1>2 DEF StartPass, TaskCancelled, CancelledAgain, CloseBoundary, BoundariesDone, HealDone,
     HealGivesUp, ClearContext, Healing, ExitBoundary, run, flags, counts, heal, AdkInv,
     Stopping, Running, Cancelled, Shapes
<1>3. ASSUME NEW i \in Invs, BeforeRun(i) \/ EnterBoundary(i) \/ BeforeAgent(i) \/
   BeforeModel(i) \/ SendRequest(i) \/ ModelAnswers(i) \/ AfterAgent(i) \/ AfterRun(i) \/
   RequestCancel(i) \/ WatcherWakes(i) \/ WatcherFlags(i) \/ Fails(i) PROVE Goal
  BY <1>3 DEF BeforeRun, EnterBoundary, BeforeAgent, BeforeModel, SendRequest, ModelAnswers,
     AfterAgent, AfterRun, RequestCancel, WatcherWakes, WatcherFlags, Fails, Observe,
     ExitBoundary, AfterModel, Flag, Flagged, run, flags, counts, heal, Goto, AdkInv, Stopping,
     Running, Cancelled, Shapes
<1>4. ASSUME NEW c \in Calls, BeforeTool(c) PROVE Goal
  BY <1>4 DEF BeforeTool, Observe, counts, heal, CallTo, AdkInv, Stopping, Running, Cancelled,
     Shapes
<1>5. ASSUME NEW c \in Calls, HealOne(c) \/ CountSpawn(c) \/ TripAnnounced(c) \/ DispatchCall(c)
   \/ AfterTool(c) \/ Redirect(c) \/ Approve(c) \/ Reject(c) PROVE Goal
  BY <1>5 DEF HealOne, CountSpawn, TripAnnounced, DispatchCall, AfterTool, Redirect, Approve,
     Reject, Healing, Dispatched, run, flags, counts, heal, CallTo, AdkInv, Stopping, Running,
     Cancelled, Shapes
<1>6. ASSUME NEW cs \in SUBSET Calls, ModelCalls(cs) PROVE Goal
  BY <1>6 DEF ModelCalls, AfterModel, AfterEvent, flags, counts, Goto, AdkInv, Stopping,
     Running, Cancelled, Shapes
<1> QED
  BY <1>1, <1>2, <1>3, <1>4, <1>5, <1>6 DEF Next, Callbacks, ToolCallbacks, WayOut

\* What the cap promises of the agents that were started.
Bounded == Cardinality(hist.dispatched) <= Cap /\ hist.trips <= 1

\* After a cancel was requested for an invocation, its model is asked nothing more
\* and none of its calls gets past the check, whichever callback consumed the
\* flag; and no more agents are started than agent_tool_cap allows, with one
\* report of the excess, however many calls are checked side by side.
THEOREM NoWorkAfterStopHolds == Spec => NoWorkAfterStop
<1>1. AdkInv => Bounded
  <2> SUFFICES ASSUME AdkInv PROVE Bounded
    OBVIOUS
  <2>1. hist.dispatched \subseteq Admitted
    BY DEF Admitted
  <2>2. /\ Cardinality(hist.dispatched) \in Nat /\ Cardinality(Admitted) \in Nat
        /\ Cardinality(hist.dispatched) <= Cardinality(Admitted)
    BY <2>1, AdmittedCount DEF AdkInv
  <2> QED
    BY <2>2, AdkAssumption DEF AdkInv, Capped, Bounded
<1>2. AdkInv /\ Bounded' /\ [Next]_vars =>
        [/\ \A i \in hist.requested : phase'[i] = "preparing" => phase[i] = "preparing"
         /\ Root \in hist.requested =>
               \A c \in Calls : call'[c] = "checking" => call[c] = "checking"
         /\ Cardinality(hist'.dispatched) <= Cap /\ hist'.trips <= 1]_vars
  BY AsksNoMore, StartsNoMore DEF Bounded
<1> QED
  BY <1>1, <1>2, AdkInvHolds, PTL DEF Spec, NoWorkAfterStop


-----------------------------------------------------------------------------
(***************************************************************************)
(* Induction over the numbers: NatInduction takes an operator, which no    *)
(* prover here can instantiate; the finite sets 0 .. n, ordered by         *)
(* inclusion, do as well.                                                  *)
(***************************************************************************)

\* A nonempty set of finite sets has a member that includes no other.
LEMMA Minimal ==
    ASSUME NEW T, T # {}, \A x \in T : IsFiniteSet(x)
    PROVE  \E x \in T : \A y \in T : y \subseteq x => y = x
<1> DEFINE U == UNION T
<1>1. T \subseteq FiniteSubsetsOf(U)
  BY DEF FiniteSubsetsOf
<1>2. PICK x \in T : \A y \in T : <<y, x>> \notin StrictSubsetOrdering(U)
  <2>1. IsWellFoundedOn(StrictSubsetOrdering(U), FiniteSubsetsOf(U))
    BY FS_StrictSubsetOrderingWellFounded
  <2> HIDE DEF U
  <2>. QED BY <1>1, <2>1, WFMin
<1>. QED BY <1>2 DEF StrictSubsetOrdering

\* A nonempty set of numbers has a least one.
LEMMA Least == ASSUME NEW S \in SUBSET Nat, S # {} PROVE \E n \in S : \A m \in S : n <= m
<1> DEFINE T == {0 .. n : n \in S}
<1>1. \A x \in T : IsFiniteSet(x)
  BY FS_Interval
<1>2. T # {}
  OBVIOUS
<1>3. PICK x \in T : \A y \in T : y \subseteq x => y = x
  <2> HIDE DEF T
  <2>. QED BY <1>1, <1>2, Minimal
<1>4. PICK n \in S : x = 0 .. n
  BY <1>3
<1>5. ASSUME NEW m \in S, ~(n <= m) PROVE FALSE
  <2>1. 0 .. m \in T /\ 0 .. m \subseteq x /\ n \in x /\ n \notin 0 .. m
    BY <1>4, <1>5
  <2>. QED BY <2>1, <1>3
<1>. QED BY <1>5

\* Induction: a set that has 0 and, with each number, the next one, has all.
LEMMA Induction ==
    ASSUME NEW S, 0 \in S, \A n \in Nat : n \in S => n + 1 \in S
    PROVE  Nat \subseteq S
<1> SUFFICES ASSUME Nat \ S # {} PROVE FALSE
  OBVIOUS
<1>1. PICK n \in Nat \ S : \A m \in Nat \ S : n <= m
  BY Least
<1>2. n - 1 \in Nat /\ n - 1 \notin Nat \ S
  BY <1>1
<1>. QED BY <1>1, <1>2

-----------------------------------------------------------------------------
(***************************************************************************)
(* topological_stages: the stages of a plan follow its edges.              *)
(***************************************************************************)

\* The equation of Placed.
Free(p) == {t \in Ids(p) : Preds(p, t) = {}}
After(p, S) == S \cup {t \in Ids(p) : Preds(p, t) \subseteq S}
Layers(p, f, n) == f = [k \in 0 .. n |-> IF k = 0 THEN Free(p) ELSE After(p, f[k - 1])]

\* There are such layers up to every number.
LEMMA LayersExist == ASSUME NEW p, NEW n \in Nat PROVE \E f : Layers(p, f, n)
<1> DEFINE S == {m \in Nat : \E f : Layers(p, f, m)}
<1>1. 0 \in S
  <2>1. Layers(p, [k \in 0 .. 0 |-> Free(p)], 0)
    BY DEF Layers
  <2>. QED BY <2>1
<1>2. ASSUME NEW m \in Nat, m \in S PROVE m + 1 \in S
  <2>1. PICK f : Layers(p, f, m)
    BY <1>2
  <2> DEFINE g == [k \in 0 .. m + 1 |-> IF k <= m THEN f[k] ELSE After(p, f[m])]
  <2>2. \A k \in 0 .. m + 1 : g[k] = IF k = 0 THEN Free(p) ELSE After(p, g[k - 1])
    BY <2>1 DEF Layers
  <2>3. Layers(p, g, m + 1)
    <3>1. g = [k \in 0 .. m + 1 |-> g[k]]
      OBVIOUS
    <3> HIDE DEF g
    <3>. QED BY <2>2, <3>1 DEF Layers
  <2>. QED BY <2>3
<1>. QED BY <1>1, <1>2, Induction

\* And Placed is their last.
LEMMA PlacedLayer ==
    ASSUME NEW p, NEW n \in Nat PROVE \E f : Layers(p, f, n) /\ Placed(p, n) = f[n]
<1> DEFINE f == CHOOSE f : Layers(p, f, n)
<1>1. Layers(p, f, n)
  BY LayersExist
<1>2. Placed(p, n) = f[n]
  BY DEF Placed, Layers, Free, After
<1>. QED BY <1>1, <1>2

\* Layers agree where both are.
LEMMA LayersAgree ==
    ASSUME NEW p, NEW f, NEW g, NEW n \in Nat, NEW m \in Nat, Layers(p, f, n), Layers(p, g, m)
    PROVE  \A k \in Nat : k <= n /\ k <= m => f[k] = g[k]
<1> DEFINE S == {k \in Nat : k <= n /\ k <= m => f[k] = g[k]}
<1>1. \A k \in 0 .. n : f[k] = IF k = 0 THEN Free(p) ELSE After(p, f[k - 1])
  BY DEF Layers
<1>2. \A k \in 0 .. m : g[k] = IF k = 0 THEN Free(p) ELSE After(p, g[k - 1])
  BY DEF Layers
<1>3. 0 \in S
  BY <1>1, <1>2
<1>4. ASSUME NEW k \in Nat, k \in S PROVE k + 1 \in S
  <2>1. k + 1 <= n => f[k + 1] = After(p, f[k])
    BY <1>1
  <2>2. k + 1 <= m => g[k + 1] = After(p, g[k])
    BY <1>2
  <2>. QED BY <1>4, <2>1, <2>2
<1>. QED BY <1>3, <1>4, Induction

\* The stages 0 .. n + 1 of a plan are those before and what waits for them only.
LEMMA PlacedSteps ==
    ASSUME NEW p
    PROVE  /\ Placed(p, 0) = Free(p)
           /\ \A n \in Nat : Placed(p, n + 1) = After(p, Placed(p, n))
<1>1. Placed(p, 0) = Free(p)
  <2>1. PICK f : Layers(p, f, 0) /\ Placed(p, 0) = f[0]
    BY PlacedLayer
  <2>. QED BY <2>1 DEF Layers
<1>2. ASSUME NEW n \in Nat PROVE Placed(p, n + 1) = After(p, Placed(p, n))
  <2>1. PICK f : Layers(p, f, n) /\ Placed(p, n) = f[n]
    BY PlacedLayer
  <2>2. PICK g : Layers(p, g, n + 1) /\ Placed(p, n + 1) = g[n + 1]
    BY PlacedLayer
  <2>3. f[n] = g[n]
    BY <2>1, <2>2, LayersAgree
  <2>4. \A k \in 0 .. n + 1 : g[k] = IF k = 0 THEN Free(p) ELSE After(p, g[k - 1])
    BY <2>2 DEF Layers
  <2>5. n + 1 \in 0 .. n + 1 /\ n + 1 # 0 /\ (n + 1) - 1 = n
    OBVIOUS
  <2>6. g[n + 1] = After(p, g[n])
    BY <2>4, <2>5
  <2>. QED BY <2>1, <2>2, <2>3, <2>6
<1>. QED BY <1>1, <1>2

\* What the stages depend on: the tasks of a plan and its edges.
LEMMA SameStages ==
    ASSUME NEW p, NEW q, Ids(q) = Ids(p), q.edges = p.edges
    PROVE  \A n \in Nat : Placed(q, n) = Placed(p, n)
<1>1. \A S : After(q, S) = After(p, S)
  BY DEF After, Preds
<1>2. Free(q) = Free(p)
  BY DEF Free, Preds
<1> DEFINE S == {n \in Nat : Placed(q, n) = Placed(p, n)}
<1>3. 0 \in S
  BY <1>2, PlacedSteps
<1>4. ASSUME NEW n \in Nat, n \in S PROVE n + 1 \in S
  BY <1>1, <1>4, PlacedSteps
<1>. QED BY <1>3, <1>4, Induction

\* A task that is placed by n has been placed in one of the stages 0 .. n.
LEMMA StagesCover ==
    ASSUME NEW p, NEW n \in Nat, NEW t \in Placed(p, n)
    PROVE  \E k \in 0 .. n : t \in Placed(p, k) /\ (k > 0 => t \notin Placed(p, k - 1))
<1> DEFINE S == {k \in Nat : t \in Placed(p, k)}
<1>1. PICK k \in S : \A m \in S : k <= m
  BY Least
<1>2. k <= n
  BY <1>1
<1>3. k > 0 => k - 1 \in Nat /\ k - 1 \notin S
  BY <1>1
<1>. QED BY <1>1, <1>2, <1>3

\* A task is placed after all its predecessors.
LEMMA PredsPlacedBefore ==
    ASSUME NEW p, NEW n \in Nat, NEW t \in Placed(p, n + 1), t \notin Placed(p, n)
    PROVE  Preds(p, t) \subseteq Placed(p, n)
BY PlacedSteps DEF After

\* The predecessors of a task of a stage are in the stages before it.
LEMMA StageInOrder ==
    ASSUME NEW p, Structure(p), LastStage \in Nat,
           NEW n \in 0 .. LastStage, NEW t \in Stage(p, n), NEW u \in Preds(p, t)
    PROVE  u \in Ids(p) /\ \E k \in 0 .. n - 1 : u \in Stage(p, k)
<1>1. u \in Ids(p)
  BY DEF Preds, Structure
<1>2. n # 0
  <2>1. t \in Free(p) => FALSE
    BY DEF Free
  <2>. QED BY <2>1, PlacedSteps DEF Stage
<1>3. n - 1 \in Nat /\ t \in Placed(p, (n - 1) + 1) /\ t \notin Placed(p, n - 1)
  <2>1. CASE n < LastStage
    BY <1>2, <2>1 DEF Stage
  <2>2. CASE ~(n < LastStage)
    <3>1. n = LastStage /\ (n - 1) + 1 = LastStage
      BY <2>2
    <3>. QED BY <1>2, <2>2, <3>1 DEF Stage, Structure, Acyclic
  <2>. QED BY <2>1, <2>2
<1>4. u \in Placed(p, n - 1)
  BY <1>3, PredsPlacedBefore
<1>5. PICK k \in 0 .. n - 1 : u \in Placed(p, k) /\ (k > 0 => u \notin Placed(p, k - 1))
  BY <1>3, <1>4, StagesCover
<1>6. k < LastStage
  OBVIOUS
<1>7. u \in Stage(p, k)
  BY <1>5, <1>6 DEF Stage
<1>. QED BY <1>1, <1>7

-----------------------------------------------------------------------------
(***************************************************************************)
(* What the changes of a plan keep.                                        *)
(***************************************************************************)

\* q has the tasks and the edges of p.
SamePlan(p, q) == q \in Plans /\ Ids(q) = Ids(p) /\ q.edges = p.edges

\* With the tasks and the edges of a plan its structure is kept.
LEMMA SameStructure ==
    ASSUME NEW p, NEW q, SamePlan(p, q), Structure(p), LastStage \in Nat PROVE Structure(q)
<1>1. Placed(q, LastStage) = Placed(p, LastStage)
  BY SameStages DEF SamePlan
<1>. QED BY <1>1 DEF SamePlan, Structure, Acyclic

\* Setting the status of a task of the plan keeps its tasks and its edges.
LEMMA WithStatusSame ==
    ASSUME NEW p \in Plans, NEW t \in Tasks, NEW to \in Status \ {"ABSENT"},
           p.status[t] # "ABSENT"
    PROVE  SamePlan(p, WithStatus(p, t, to)) /\ WithStatus(p, t, to).status[t] = to
           /\ \A u \in Tasks \ {t} : WithStatus(p, t, to).status[u] = p.status[u]
BY DEF Plans, WithStatus, SamePlan, Ids

\* A plan with other statuses.
LEMMA StatusesSame ==
    ASSUME NEW p \in Plans, NEW s \in [Tasks -> Status],
           \A u \in Tasks : s[u] = "ABSENT" <=> p.status[u] = "ABSENT"
    PROVE  SamePlan(p, [p EXCEPT !.status = s]) /\ [p EXCEPT !.status = s].status = s
BY DEF Plans, SamePlan, Ids

\* A cascade moves live tasks only, besides the one it starts from.
LEMMA CascadeReach ==
    ASSUME NEW p \in Plans, NEW t \in Tasks, NEW u \in LiveReach(p, {t}), u # t
    PROVE  u \in Tasks /\ p.status[u] \in Live
<1> DEFINE E == {e \in p.edges : p.status[e[1]] \in Live /\ p.status[e[2]] \in Live}
           C == {t} \cup {v \in Tasks : p.status[v] \in Live}
<1>1. C \in SUBSET Tasks /\ {t} \subseteq C
  OBVIOUS
<1>2. \A e \in E : e[2] \in C
  BY DEF Plans
<1>3. u \in Reach(E, {t})
  BY DEF LiveReach
<1>4. u \in C
  BY <1>1, <1>2, <1>3 DEF Reach
<1>. QED BY <1>4 DEF C

\* So it keeps the tasks, the edges and what was finished.
LEMMA CascadeSame ==
    ASSUME NEW p \in Plans, NEW t \in Tasks, NEW to \in Status \ {"ABSENT"}, p.status[t] \in Live
    PROVE  SamePlan(p, WithCascade(p, t, to))
           /\ \A u \in Tasks : p.status[u] \in Terminal =>
                 WithCascade(p, t, to).status[u] = p.status[u]
<1> DEFINE s == [u \in Tasks |-> IF u = t THEN to
                                 ELSE IF u \in LiveReach(p, {t}) THEN "CANCELLED"
                                 ELSE p.status[u]]
<1>1. s \in [Tasks -> Status]
  BY DEF Plans, Status, Terminal
<1>2. \A u \in Tasks : u # t /\ u \in LiveReach(p, {t}) => p.status[u] \in Live
  BY CascadeReach
<1>3. \A u \in Tasks : s[u] = "ABSENT" <=> p.status[u] = "ABSENT"
  BY <1>2 DEF Live
<1>4. \A u \in Tasks : p.status[u] \in Terminal => s[u] = p.status[u]
  BY <1>2 DEF Live, Terminal
<1>5. WithCascade(p, t, to) = [p EXCEPT !.status = s]
  BY DEF WithCascade
<1> HIDE DEF s
<1>6. SamePlan(p, [p EXCEPT !.status = s]) /\ [p EXCEPT !.status = s].status = s
  BY <1>1, <1>3, StatusesSame
<1>. QED BY <1>4, <1>5, <1>6

\* A transition as well.
LEMMA TransitionSame ==
    ASSUME plan \in Plans, NEW t \in Tasks, NEW to \in Status \ {"ABSENT"}
    PROVE  SamePlan(plan, Transition(t, to))
           /\ \A u \in Tasks : plan.status[u] \in Terminal =>
                 Transition(t, to).status[u] = plan.status[u]
<1>1. CASE plan.status[t] \notin Live
  BY <1>1 DEF Transition, SamePlan
<1>2. CASE plan.status[t] \in Live /\ to = "CANCELLED"
  BY <1>2, CascadeSame DEF Transition
<1>3. CASE plan.status[t] \in Live /\ to # "CANCELLED"
  <2>1. plan.status[t] # "ABSENT" /\ plan.status[t] \notin Terminal
    BY <1>3 DEF Live, Terminal
  <2>. QED BY <1>3, <2>1, WithStatusSame DEF Transition
<1>. QED BY <1>1, <1>2, <1>3

\* A rewind makes tasks of the plan pending again, and does nothing else.
LEMMA RewindSame ==
    ASSUME plan \in Plans, Structure(plan), NEW q \in Rewinds
    PROVE  SamePlan(plan, q)
           /\ \A u \in Tasks : q.status[u] # plan.status[u] => q.status[u] = "PENDING"
<1>1. PICK t \in Ids(plan) : q = [plan EXCEPT !.status =
          [u \in Tasks |-> IF u \in Reach(plan.edges, {t}) THEN "PENDING" ELSE plan.status[u]]]
  BY DEF Rewinds
<1> DEFINE s == [u \in Tasks |-> IF u \in Reach(plan.edges, {t}) THEN "PENDING"
                                 ELSE plan.status[u]]
<1>2. Reach(plan.edges, {t}) \subseteq Ids(plan)
  <2>1. \A e \in plan.edges : e[2] \in Ids(plan)
    BY DEF Structure
  <2>2. Ids(plan) \in SUBSET Tasks /\ {t} \subseteq Ids(plan)
    BY DEF Ids
  <2>. QED BY <2>1, <2>2 DEF Reach
<1>3. s \in [Tasks -> Status]
  BY DEF Plans, Status, Live
<1>4. \A u \in Tasks : s[u] = "ABSENT" <=> plan.status[u] = "ABSENT"
  BY <1>2 DEF Ids
<1>5. \A u \in Tasks : s[u] # plan.status[u] => s[u] = "PENDING"
  OBVIOUS
<1>6. q = [plan EXCEPT !.status = s]
  BY <1>1
<1> HIDE DEF s
<1>7. SamePlan(plan, [plan EXCEPT !.status = s]) /\ [plan EXCEPT !.status = s].status = s
  BY <1>3, <1>4, StatusesSame
<1>. QED BY <1>5, <1>6, <1>7

\* A revision is a sound plan that keeps what was finished.
LEMMA RevisionSound ==
    ASSUME NEW p \in Plans, NEW q \in RevisionsOf(p)
    PROVE  q \in Plans /\ Structure(q)
           /\ \A u \in Tasks : p.status[u] \in Terminal => q.status[u] = p.status[u]
<1>1. PICK drop \in SUBSET Tasks, add \in SUBSET Tasks : q = Revise(p, drop, add)
  BY DEF RevisionsOf
<1>2. ValidRevision(q, p)
  BY DEF RevisionsOf
<1> DEFINE s == [t \in Tasks |-> IF t \in drop THEN "CANCELLED"
                                 ELSE IF t \in add THEN "PENDING" ELSE p.status[t]]
           new == {e \in Edges : e[2] \in add /\ s[e[1]] # "ABSENT"}
           E == {e \in p.edges \cup new : ~(s[e[1]] \in Dead /\ s[e[2]] = "PENDING")}
<1>3. q = [p EXCEPT !.status = s, !.edges = E]
  BY <1>1 DEF Revise
<1>4. s \in [Tasks -> Status]
  BY DEF Plans, Status, Live, Terminal
<1>5. E \subseteq Tasks \X Tasks
  BY ParallelAssumption DEF Plans
<1>6. q \in Plans
  <2> HIDE DEF s, E
  <2>. QED BY <1>3, <1>4, <1>5 DEF Plans
<1>. QED BY <1>2, <1>6 DEF ValidRevision, KeepsTerminal

-----------------------------------------------------------------------------
(***************************************************************************)
(* The parallel executor: its inductive invariant and its steps.           *)
(***************************************************************************)

JobNames == {"idle", "queued", "running"} \cup Finished
AtStage == pc \in {"stage", "reap"}

ParallelShapes ==
    /\ plan \in Plans /\ base \in Plans /\ Structure(plan)
    /\ Chosen \subseteq Tasks /\ job \in [Tasks -> JobNames]
    /\ invoked \in [Tasks -> Nat]

\* A task that was invoked is in the stage, is being folded, or is remembered;
\* after a cancel none is formed again.
Remembered(t) ==
    \/ t \in done
    \/ AtStage /\ t \in Chosen
    \/ pc = "fold" /\ t \in todo
    \/ pc \in {"cancel", "aborted"}

\* A task waits for its seat only in the stage it was chosen for, and before
\* that it has not been invoked.
InvokedOnce ==
    /\ \A t \in Tasks : job[t] = "queued" => AtStage /\ t \in Chosen /\ invoked[t] = 0
    /\ \A t \in results : job[t] \in Finished
    /\ pc = "fold" => todo \subseteq results
    /\ \A t \in Tasks : invoked[t] <= 1 /\ (invoked[t] = 1 => Remembered(t))

ParallelInv == ParallelShapes /\ InvokedOnce

\* A finished status changes only where FinishedKept allows it.
Keeping ==
    \A t \in Tasks : plan.status[t] \in Terminal /\ plan'.status[t] # plan.status[t] =>
          \/ plan'.status[t] = "PENDING" /\ (DrainOne \/ PausedReceive \/ StageControl)
          \/ job[t] = "queued" /\ job'[t] = "running"
          \/ RefineInstalls /\ base # plan

\* The number of stages is a number: there are finitely many tasks.
LEMMA StagesFinite == LastStage \in Nat
BY ParallelAssumption, FS_CardinalityType DEF LastStage

\* The plan of a refine that is not under way.
LEMMA NoPlanPlan == NoPlan \in Plans
BY DEF NoPlan, NoStatus, Plans, Status

\* A message changes the plan by a rewind, or not at all.
LEMMA DispatchSound ==
    ASSUME ParallelShapes, NEW kind, DispatchPlan(kind)
    PROVE  plan' \in Plans /\ Structure(plan')
           /\ \A u \in Tasks : plan'.status[u] # plan.status[u] => plan'.status[u] = "PENDING"
<1>1. CASE kind = "REWIND_TO"
  BY <1>1, RewindSame, SameStructure, StagesFinite DEF DispatchPlan, ParallelShapes, SamePlan
<1>2. CASE kind # "REWIND_TO"
  BY <1>2 DEF DispatchPlan, ParallelShapes
<1>. QED BY <1>1, <1>2

\* What every step makes of the plan: it stays a plan that is sound, and keeps
\* what is finished but for the exceptions.
LEMMA PlanStep ==
    ASSUME ParallelInv, [ParallelNext]_parallelVars
    PROVE  plan' \in Plans /\ Structure(plan') /\ Keeping
<1> USE StagesFinite DEF ParallelInv, ParallelShapes
<1>1. CASE plan' = plan
  BY <1>1 DEF Keeping
<1>2. CASE DrainOne
  <2>1. PICK kind : DispatchPlan(kind)
    BY <1>2 DEF DrainOne
  <2>. QED BY <1>2, <2>1, DispatchSound DEF Keeping
<1>3. CASE PausedReceive
  <2>1. PICK kind : DispatchPlan(kind)
    BY <1>3 DEF PausedReceive
  <2>. QED BY <1>3, <2>1, DispatchSound DEF Keeping
<1>4. CASE StageControl
  <2>1. DispatchPlan(held)
    BY <1>4 DEF StageControl
  <2>. QED BY <1>4, <2>1, DispatchSound DEF Keeping
<1>5. CASE PauseExpires
  <2> DEFINE s == [t \in Tasks |-> IF plan.status[t] \in Live THEN "CANCELLED"
                                   ELSE plan.status[t]]
  <2>1. plan' = [plan EXCEPT !.status = s]
    BY <1>5 DEF PauseExpires, Plans
  <2>2. s \in [Tasks -> Status]
    BY DEF Plans, Status, Terminal
  <2>3. \A u \in Tasks : s[u] = "ABSENT" <=> plan.status[u] = "ABSENT"
    BY DEF Live
  <2>4. \A u \in Tasks : plan.status[u] \in Terminal => s[u] = plan.status[u]
    BY DEF Live, Terminal
  <2> HIDE DEF s
  <2>5. SamePlan(plan, plan') /\ plan'.status = s
    BY <2>1, <2>2, <2>3, StatusesSame
  <2>. QED BY <2>4, <2>5, SameStructure DEF Keeping, SamePlan
<1>6. CASE ApplySteer \/ DriftRevises
  <2>1. plan' \in RevisionsOf(plan) \cup {plan}
    BY <1>6 DEF ApplySteer, DriftRevises
  <2>. QED BY <2>1, <1>1, RevisionSound DEF Keeping
<1>7. ASSUME NEW t \in Tasks, JobStarts(t) PROVE plan' \in Plans /\ Structure(plan') /\ Keeping
  <2>1. job[t] = "queued" /\ job'[t] = "running"
    BY <1>7 DEF JobStarts
  <2>2. CASE stage[t] # "RUNNING" /\ plan.status[t] # "ABSENT"
    <3>1. plan' = WithStatus(plan, t, "RUNNING")
      BY <1>7, <2>2 DEF JobStarts
    <3>2. "RUNNING" \in Status \ {"ABSENT"}
      BY DEF Status, Live
    <3>3. SamePlan(plan, plan')
          /\ \A u \in Tasks \ {t} : plan'.status[u] = plan.status[u]
      BY <2>2, <3>1, <3>2, WithStatusSame
    <3>. QED BY <2>1, <3>3, SameStructure DEF Keeping, SamePlan
  <2>3. CASE ~(stage[t] # "RUNNING" /\ plan.status[t] # "ABSENT")
    BY <1>1, <1>7, <2>3 DEF JobStarts
  <2>. QED BY <2>2, <2>3
<1>8. ASSUME NEW t \in Tasks, AgentReports(t)
      PROVE  plan' \in Plans /\ Structure(plan') /\ Keeping
  <2>1. plan.status[t] \in Live /\ plan.status[t] # "ABSENT" /\ plan.status[t] \notin Terminal
    BY <1>8 DEF AgentReports, Live, Terminal
  <2>2. "COMPLETED" \in Status \ {"ABSENT"} /\ "FAILED" \in Status \ {"ABSENT"}
    BY DEF Status, Terminal
  <2>3. SamePlan(plan, plan')
        /\ \A u \in Tasks : plan.status[u] \in Terminal => plan'.status[u] = plan.status[u]
    <3>1. CASE plan' = WithStatus(plan, t, "COMPLETED")
      BY <2>1, <2>2, <3>1, WithStatusSame
    <3>2. CASE plan' = WithCascade(plan, t, "FAILED")
      BY <2>1, <2>2, <3>2, CascadeSame
    <3>. QED BY <1>8, <3>1, <3>2 DEF AgentReports
  <2>. QED BY <2>3, SameStructure DEF Keeping, SamePlan
<1>9. ASSUME NEW t \in Tasks, MarkCancelled(t) \/ Fold(t)
      PROVE  plan' \in Plans /\ Structure(plan') /\ Keeping
  <2>1. plan' = plan \/ \E to \in Status \ {"ABSENT"} : plan' = Transition(t, to)
    <3>1. {"COMPLETED", "FAILED", "CANCELLED"} \subseteq Status \ {"ABSENT"}
      BY DEF Status, Terminal
    <3>2. CASE MarkCancelled(t)
      BY <3>1, <3>2 DEF MarkCancelled
    <3>3. CASE Fold(t)
      <4>1. job[t] \in {"ok", "drift", "error", "cancelled"}
        BY <3>3 DEF Fold, InvokedOnce, Finished
      <4>2. plan' = plan
            \/ plan' = Transition(t, CASE job[t] \in {"ok", "drift"} -> "COMPLETED"
                                      [] job[t] = "error" -> "FAILED"
                                      [] job[t] = "cancelled" -> "CANCELLED")
        BY <3>3 DEF Fold
      <4>. QED BY <3>1, <4>1, <4>2
    <3>. QED BY <1>9, <3>2, <3>3
  <2>. QED BY <1>1, <2>1, TransitionSame, SameStructure DEF Keeping, SamePlan
<1>10. CASE RefineInstalls
  <2>1. plan' \in RevisionsOf(base)
    BY <1>10 DEF RefineInstalls
  <2>. QED BY <1>10, <2>1, RevisionSound DEF Keeping
<1>. QED
  <2>1. CASE UNCHANGED parallelVars
    BY <1>1, <2>1 DEF parallelVars
  <2>2. CASE Executor
    <3>1. CASE Drained \/ FormStage \/ NoStage \/ StageEnds \/ RefineStarts \/ RefineFails
      BY <1>1, <3>1 DEF Drained, FormStage, NoStage, StageEnds, RefineStarts, RefineFails
    <3>2. ASSUME NEW t \in Tasks, Collect(t) \/ Reaped(t) PROVE plan' = plan
      BY <3>2 DEF Collect, Reaped
    <3>. QED BY <1>1, <1>2, <1>3, <1>4, <1>6, <1>9, <1>10, <2>2, <3>1, <3>2 DEF Executor
  <2>3. CASE Receive \/ \E kind \in Kinds : Send(kind)
    BY <1>1, <2>3 DEF Receive, Send
  <2>4. CASE \E t \in Tasks, ending \in Finished : JobEnds(t, ending)
    BY <1>1, <2>4 DEF JobEnds
  <2>. QED BY <1>5, <1>6, <1>7, <1>8, <2>1, <2>2, <2>3, <2>4 DEF ParallelNext

\* Every step keeps the other shapes.
LEMMA OtherShapesStep ==
    ASSUME ParallelInv, [ParallelNext]_parallelVars
    PROVE  base' \in Plans /\ Chosen' \subseteq Tasks /\ job' \in [Tasks -> JobNames]
           /\ invoked' \in [Tasks -> Nat]
<1> USE DEF ParallelInv, ParallelShapes
<1>1. CASE UNCHANGED <<base, stage, job, invoked>>
  BY <1>1 DEF Chosen
<1>2. CASE FormStage
  <2>1. Chosen' \subseteq Tasks
    <3>1. PICK n : stage' = [t \in {u \in Stage(plan, n) : IsPending(u)} |-> plan.status[t]]
      BY <1>2 DEF FormStage
    <3>. QED BY <3>1 DEF Chosen, IsPending, Ids
  <2>. QED BY <1>2, <2>1 DEF FormStage, JobNames, fold, refining
<1>3. ASSUME NEW t \in Tasks, JobStarts(t) \/ Reaped(t) \/ \E ending \in Finished : JobEnds(t, ending)
      PROVE  base' = base /\ stage' = stage /\ job' \in [Tasks -> JobNames]
             /\ invoked' \in [Tasks -> Nat]
  BY <1>3 DEF JobStarts, Reaped, JobEnds, JobNames, Finished, fold, refining, round
<1>4. CASE RefineStarts \/ RefineInstalls \/ RefineFails
  BY <1>4, NoPlanPlan DEF RefineStarts, RefineInstalls, RefineFails, round, Chosen
<1>. QED
  <2>1. CASE UNCHANGED parallelVars
    BY <1>1, <2>1 DEF parallelVars, round, refining
  <2>2. CASE Executor
    <3>1. CASE DrainOne \/ Drained \/ PausedReceive \/ ApplySteer \/ NoStage
               \/ StageControl \/ StageEnds
      BY <1>1, <3>1 DEF DrainOne, Drained, PausedReceive, ApplySteer, NoStage, StageControl,
                        StageEnds, round, refining
    <3>2. ASSUME NEW t \in Tasks, Collect(t) \/ MarkCancelled(t) \/ Fold(t)
          PROVE  UNCHANGED <<base, stage, job, invoked>>
      BY <3>2 DEF Collect, MarkCancelled, Fold, round, refining
    <3>. QED BY <1>1, <1>2, <1>3, <1>4, <2>2, <3>1, <3>2 DEF Executor, Chosen
  <2>3. CASE Receive \/ PauseExpires \/ DriftRevises \/ \E kind \in Kinds : Send(kind)
    BY <1>1, <2>3 DEF Receive, PauseExpires, DriftRevises, Send, round, refining
  <2>4. CASE \E t \in Tasks : AgentReports(t)
    BY <1>1, <2>4 DEF AgentReports, round, refining
  <2>. QED BY <1>3, <2>1, <2>2, <2>3, <2>4 DEF ParallelNext, Chosen

\* Every step keeps that a task is invoked once.
LEMMA InvokedOnceStep ==
    ASSUME ParallelInv, [ParallelNext]_parallelVars PROVE InvokedOnce'
<1> USE DEF ParallelInv, ParallelShapes, InvokedOnce, Remembered, AtStage, Chosen
\* Steps that leave the jobs alone, and do not leave a stage.
<1>1. CASE /\ UNCHANGED <<stage, job, results, todo, done, invoked>>
           /\ \/ pc' = pc
              \/ pc \notin {"stage", "reap", "fold", "cancel", "aborted"} /\ pc' # "fold"
              \/ pc = "stage" /\ pc' = "reap"
  BY <1>1
<1>2. CASE FormStage
  <2>1. PICK n : stage' = [t \in {u \in Stage(plan, n) : IsPending(u)} |-> plan.status[t]]
    BY <1>2 DEF FormStage
  <2>2. \A t \in DOMAIN stage' : t \in Tasks /\ t \notin done
    BY <2>1 DEF IsPending, Ids
  <2>3. \A t \in Tasks : invoked[t] = 1 => t \in done
    BY <1>2 DEF FormStage
  <2>4. /\ job' = [t \in Tasks |-> IF t \in DOMAIN stage' THEN "queued" ELSE "idle"]
        /\ results' = {} /\ pc' = "stage" /\ done' = done /\ invoked' = invoked
    BY <1>2 DEF FormStage, fold
  <2>5. \A t \in Tasks : invoked[t] = 0 \/ invoked[t] = 1
    OBVIOUS
  <2>. QED BY <2>2, <2>3, <2>4, <2>5
<1>3. ASSUME NEW t \in Tasks, JobStarts(t) PROVE InvokedOnce'
  <2>1. /\ job[t] = "queued" /\ job' = [job EXCEPT ![t] = "running"]
        /\ invoked' = [invoked EXCEPT ![t] = @ + 1]
        /\ UNCHANGED <<pc, stage, results, todo, done>>
    BY <1>3 DEF JobStarts, fold
  <2>2. invoked[t] = 0 /\ AtStage /\ t \in Chosen /\ t \notin results
    BY <2>1 DEF Finished
  <2>. QED BY <2>1, <2>2
<1>4. ASSUME NEW t \in Tasks, NEW ending \in Finished, JobEnds(t, ending) PROVE InvokedOnce'
  BY <1>4 DEF JobEnds, fold, Finished
<1>5. ASSUME NEW t \in Tasks, Collect(t) \/ Reaped(t) PROVE InvokedOnce'
  <2>1. CASE Collect(t)
    BY <1>5, <2>1 DEF Collect, fold
  <2>2. CASE Reaped(t)
    <3>1. /\ job' \in {job, [job EXCEPT ![t] = "cancelled"]} /\ job'[t] \in Finished
          /\ results' = results \cup {t}
          /\ pc = "reap" /\ UNCHANGED <<pc, stage, todo, done, invoked>>
      BY <2>2 DEF Reaped, fold, Finished
    <3>2. \A u \in Tasks \ {t} : job'[u] = job[u]
      BY <3>1
    <3>3. job'[t] # "queued"
      BY <3>1 DEF Finished
    <3>4. \A u \in Tasks : job'[u] = "queued" =>
             job[u] = "queued" /\ u \in DOMAIN stage /\ invoked[u] = 0
      BY <3>2, <3>3
    <3>5. t \in Tasks /\ \A u \in results : job[u] \in Finished
      OBVIOUS
    <3>6. \A u \in results' : job'[u] \in Finished
      <4>1. CASE job' = job
        BY <3>1, <3>5, <4>1
      <4>2. CASE job' = [job EXCEPT ![t] = "cancelled"]
        BY <3>1, <3>5, <4>2
      <4>. QED BY <3>1, <4>1, <4>2
    <3>. QED BY <3>1, <3>4, <3>6
  <2>. QED BY <1>5, <2>1, <2>2
<1>6. CASE StageEnds
  BY <1>6 DEF StageEnds, round, Pending, Finished
<1>7. ASSUME NEW t \in Tasks, MarkCancelled(t) PROVE InvokedOnce'
  BY <1>7 DEF MarkCancelled, round
<1>8. ASSUME NEW t \in Tasks, Fold(t) PROVE InvokedOnce'
  BY <1>8 DEF Fold, round, AfterFold
<1>. QED
  <2>1. CASE UNCHANGED parallelVars
    BY <1>1, <2>1 DEF parallelVars, round, fold
  <2>2. CASE DrainOne \/ Drained \/ PausedReceive \/ ApplySteer \/ NoStage \/ RefineStarts
             \/ RefineInstalls \/ RefineFails
    BY <1>1, <2>2 DEF DrainOne, Drained, PausedReceive, ApplySteer, NoStage, RefineStarts,
                      RefineInstalls, RefineFails, round, fold
  <2>3. CASE StageControl
    BY <1>1, <2>3 DEF StageControl, fold
  <2>4. CASE Receive \/ PauseExpires \/ DriftRevises \/ \E kind \in Kinds : Send(kind)
    BY <1>1, <2>4 DEF Receive, PauseExpires, DriftRevises, Send, round, fold
  <2>5. CASE \E t \in Tasks : AgentReports(t)
    BY <1>1, <2>5 DEF AgentReports, round, fold
  <2>. QED BY <1>2, <1>3, <1>4, <1>5, <1>6, <1>7, <1>8, <2>1, <2>2, <2>3, <2>4, <2>5
           DEF ParallelNext, Executor

\* So every step keeps the invariant.
LEMMA ParallelStep == ParallelInv /\ [ParallelNext]_parallelVars => ParallelInv'
BY PlanStep, OtherShapesStep, InvokedOnceStep DEF ParallelInv, ParallelShapes

\* It holds at the start.
LEMMA ParallelStart == ParallelInit => ParallelInv
<1> SUFFICES ASSUME ParallelInit PROVE ParallelInv
  OBVIOUS
<1>1. plan \in Plans /\ Structure(plan)
  BY ParallelAssumption DEF ParallelInit, ValidCreation
<1>. QED BY <1>1, NoPlanPlan DEF ParallelInit, ParallelInv, ParallelShapes, InvokedOnce, Remembered,
            AtStage, Chosen, Idle, JobNames

\* Hence always.
LEMMA ParallelInvHolds == ParallelSpec => []ParallelInv
BY ParallelStart, ParallelStep, PTL DEF ParallelSpec

\* FinishedKept: a finished status changes only by a rewind, by a task that was
\* waiting for its seat (run_one marks it RUNNING), or by a refine whose plan
\* replaces one that was changed under it.
THEOREM FinishedKeptHolds == ParallelSpec => FinishedKept
<1>1. ParallelInv /\ [ParallelNext]_parallelVars => [Keeping]_parallelVars
  BY PlanStep
<1>. QED BY <1>1, ParallelInvHolds, PTL DEF ParallelSpec, FinishedKept, Keeping

\* When a stage is formed, what its tasks wait for has been run or is finished.
LEMMA FormedInOrder ==
    ASSUME ParallelInv, FormStage
    PROVE  \A t \in DOMAIN stage' : \A u \in Preds(plan, t) :
                u \in done \/ plan.status[u] \in Terminal
<1> USE DEF ParallelInv, ParallelShapes
<1>1. PICK n \in 0 .. LastStage :
          /\ \A k \in 0 .. n - 1 : \A t \in Stage(plan, k) : ~IsPending(t)
          /\ stage' = [t \in {u \in Stage(plan, n) : IsPending(u)} |-> plan.status[t]]
  BY DEF FormStage
<1> TAKE t \in DOMAIN stage'
<1> TAKE u \in Preds(plan, t)
<1>2. u \in Ids(plan) /\ \E k \in 0 .. n - 1 : u \in Stage(plan, k)
  BY <1>1, StageInOrder, StagesFinite
<1>. QED BY <1>1, <1>2 DEF IsPending

\* OnceAndInOrder: whatever is rewound, steered or revised, no task is given to
\* an agent twice, and stages are formed along the edges of the plan.
THEOREM OnceAndInOrderHolds == ParallelSpec => OnceAndInOrder
<1> DEFINE InOrder == FormStage => \A t \in DOMAIN stage' : \A u \in Preds(plan, t) :
                                      u \in done \/ plan.status[u] \in Terminal
           Once == \A t \in Tasks : invoked'[t] <= 1
<1>1. ParallelInv /\ [ParallelNext]_parallelVars => Once /\ InOrder
  BY InvokedOnceStep, FormedInOrder DEF InvokedOnce
<1>. QED BY <1>1, ParallelInvHolds, PTL DEF ParallelSpec, OnceAndInOrder
=============================================================================
