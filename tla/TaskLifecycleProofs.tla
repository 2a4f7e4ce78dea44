------------------------ MODULE TaskLifecycleProofs ------------------------
(***************************************************************************)
(* Proofs about the task state machine, for every plan graph, every number *)
(* of callers and every set of cancellable callers.                        *)
(***************************************************************************)
EXTENDS TaskLifecycle, TLAPS

-----------------------------------------------------------------------------
(* The type invariant. *)

\* TypeOK holds in the initial state of a session.
LEMMA TypeInit == Init => TypeOK
  BY NoTaskAssumption DEF Init, TypeOK, Status, Terminal, InCascade

\* The first step of any mark_task_* call keeps the types of what it changes.
LEMMA SwapType ==
  ASSUME TypeOK, NEW c \in Callers, NEW t \in Tasks, NEW to \in Status,
         NEW recoverable \in BOOLEAN, NEW dispatch \in BOOLEAN,
         Swap(c, t, to, recoverable, dispatch),
         SyncCurrentTask(t, to) \/ pin' = pin,
         lineage' \subseteq Tasks, fatal' \subseteq Tasks
  PROVE  TypeOK'
<1>1. status' \in [Tasks -> Status]
  BY DEF TypeOK, Swap
<1>2. pin' \in Tasks \cup {NoTask}
  BY DEF TypeOK, SyncCurrentTask
<1>3. [task |-> t, to |-> to, recoverable |-> recoverable, dispatch |-> dispatch] \in Call
  BY DEF Call
<1>4. call' \in [Callers -> Call \cup {NoTask}]
      /\ \A x \in Callers : pc'[x] # "idle" => call'[x] \in Call
  BY <1>3 DEF TypeOK, Swap
<1>5. pc' \in [Callers -> {"idle", "swapped", "announced", "cancelling", "cascaded"}]
  BY DEF TypeOK, Swap
<1>6. \A x \in Callers : InCascade(x)' => item'[x] \in Tasks
  BY DEF TypeOK, Swap, InCascade, cascade
<1> QED
  BY <1>1, <1>2, <1>4, <1>5, <1>6 DEF TypeOK, Swap, cascade

\* Dropping a coroutine's frame keeps the types.
LEMMA LeaveType ==
  ASSUME TypeOK, NEW c \in Callers, Leave(c), UNCHANGED plan, fatal' = fatal,
         announced' = announced, drifts' \subseteq Tasks, abandoned' \subseteq Tasks
  PROVE  TypeOK'
<1>1. call' \in [Callers -> Call \cup {NoTask}]
      /\ \A x \in Callers : pc'[x] # "idle" => call'[x] \in Call
  BY DEF TypeOK, Leave
<1>2. \A x \in Callers : InCascade(x)' => item'[x] \in Tasks
  BY DEF TypeOK, Leave, InCascade
<1> QED
  BY <1>1, <1>2 DEF TypeOK, Leave, plan

\* One round of the cascade's loop keeps the types.
LEMMA LoopType ==
  ASSUME TypeOK, NEW c \in Callers, pc[c] # "idle",
         NEW snap \in SUBSET Tasks, NEW queue \in SUBSET Tasks,
         NEW seen \in SUBSET Tasks, CascadeLoop(c, snap, queue, seen)
  PROVE  TypeOK'
<1>0. call[c] \in Call /\ call[c].task \in Tasks
  BY DEF TypeOK, Call
<1>1. CASE queue = {} /\ Return(c) /\ UNCHANGED plan
  <2>1. drifts' \subseteq Tasks
    BY <1>0, <1>1 DEF TypeOK, Return
  <2> QED
    BY <1>1, <2>1, LeaveType DEF Return, CascadeLoop, TypeOK
<1>2. ASSUME NEW u \in queue, CascadeCancel(c, u, snap, queue, seen)
      PROVE  TypeOK'
  <2>1. status' \in [Tasks -> Status] /\ lineage' \subseteq Tasks
    BY <1>2 DEF TypeOK, CascadeCancel, Status, Terminal
  <2>2. /\ live' \in [Callers -> SUBSET Tasks] /\ todo' \in [Callers -> SUBSET Tasks]
        /\ visited' \in [Callers -> SUBSET Tasks]
        /\ item' \in [Callers -> Tasks \cup {NoTask}]
    BY <1>2 DEF TypeOK, CascadeCancel
  <2>3. \A x \in Callers : InCascade(x)' => item'[x] \in Tasks
    BY <1>2 DEF TypeOK, CascadeCancel, InCascade
  <2>4. \A x \in Callers : pc'[x] # "idle" => call'[x] \in Call
    BY <1>0, <1>2 DEF TypeOK, CascadeCancel
  <2> QED
    BY <1>2, <2>1, <2>2, <2>3, <2>4 DEF TypeOK, CascadeCancel, CascadeLoop
<1> QED
  BY <1>1, <1>2 DEF CascadeLoop

\* Every step keeps the types.
LEMMA TypeStep == TypeOK /\ [Next]_vars => TypeOK'
<1> SUFFICES ASSUME TypeOK, [Next]_vars PROVE TypeOK'
  OBVIOUS
<1>1. CASE UNCHANGED vars
  BY <1>1 DEF TypeOK, vars, plan, sinks, cascade, InCascade
<1>2. ASSUME NEW c \in Callers, NEW t \in Tasks, Mark(c, t) PROVE TypeOK'
  <2> USE DEF Status, Terminal
  <2>1. CASE MarkTaskRunning(c, t)
    BY <2>1, SwapType DEF MarkTaskRunning, TypeOK
  <2>2. CASE MarkTaskCompleted(c, t)
    BY <2>2, SwapType DEF MarkTaskCompleted, TypeOK
  <2>3. ASSUME NEW recoverable \in BOOLEAN, NEW dispatch \in BOOLEAN,
               MarkTaskFailed(c, t, recoverable, dispatch)
        PROVE  TypeOK'
    <3>1. lineage' \subseteq Tasks /\ fatal' \subseteq Tasks
      BY <2>3 DEF MarkTaskFailed, TypeOK
    <3> QED
      BY <2>3, <3>1, SwapType DEF MarkTaskFailed
  <2>4. CASE MarkTaskBlocked(c, t)
    BY <2>4, SwapType DEF MarkTaskBlocked, TypeOK
  <2>5. CASE MarkTaskCancelled(c, t)
    BY <2>5, SwapType DEF MarkTaskCancelled, TypeOK
  <2>6. CASE MarkTaskNotNeeded(c, t)
    BY <2>6, SwapType DEF MarkTaskNotNeeded, TypeOK
  <2> QED
    BY <1>2, <2>1, <2>2, <2>3, <2>4, <2>5, <2>6 DEF Mark
<1>3. ASSUME NEW c \in Callers, Resume(c) PROVE TypeOK'
  <2>0. pc[c] # "idle" /\ call[c] \in Call /\ call[c].task \in Tasks
    BY <1>3 DEF Resume, EmitTaskTransitioned, FinishCall, CascadeStart,
                CascadeEmitTransitioned, CascadeNext, TypeOK, Call
  <2>1. CASE EmitTaskTransitioned(c)
    BY <2>0, <2>1 DEF EmitTaskTransitioned, TypeOK, plan, cascade, InCascade
  <2>2. CASE FinishCall(c)
    <3>1. drifts' \subseteq Tasks
      BY <2>0, <2>2 DEF TypeOK, FinishCall, Return
    <3> QED
      BY <2>2, <3>1, LeaveType DEF FinishCall, Return, TypeOK
  <2>3. CASE CascadeStart(c)
    <3>1. /\ Unfinished \in SUBSET Tasks /\ {} \in SUBSET Tasks
          /\ Downstream(call[c].task) \cap Unfinished \in SUBSET Tasks
      BY DEF Unfinished
    <3> QED
      BY <2>0, <2>3, <3>1, LoopType DEF CascadeStart
  <2>4. CASE CascadeEmitTransitioned(c)
    BY <2>4 DEF CascadeEmitTransitioned, TypeOK, plan, cascade, InCascade
  <2>5. CASE CascadeNext(c)
    <3>1. live[c] \in SUBSET Tasks /\ visited[c] \in SUBSET Tasks
          /\ todo[c] \cup ((Downstream(item[c]) \cap live[c]) \ visited[c]) \in SUBSET Tasks
      BY DEF TypeOK
    <3> QED
      BY <2>0, <2>5, <3>1, LoopType DEF CascadeNext
  <2> QED
    BY <1>3, <2>1, <2>2, <2>3, <2>4, <2>5 DEF Resume
<1>4. ASSUME NEW c \in Callers, CancelCaller(c) PROVE TypeOK'
  <2>1. call[c] \in Call /\ call[c].task \in Tasks
    BY <1>4 DEF CancelCaller, TypeOK, Call
  <2>2. abandoned' \subseteq Tasks
    BY <1>4, <2>1 DEF CancelCaller, TypeOK
  <2> QED
    BY <1>4, <2>2, LeaveType DEF CancelCaller, TypeOK, sinks
<1> QED
  BY <1>1, <1>2, <1>3, <1>4 DEF Next

\* The session state and the suspended calls always have their types, in every
\* plan and for every number of concurrent callers.
THEOREM TypeCorrect == Spec => []TypeOK
  BY TypeInit, TypeStep, PTL DEF Spec

-----------------------------------------------------------------------------
(* What one caller's step leaves alone. *)

Step(c) == (\E t \in Tasks : Mark(c, t)) \/ Resume(c) \/ CancelCaller(c)

\* x's coroutine is where it was.
SameFrame(x) ==
    /\ pc'[x] = pc[x] /\ call'[x] = call[x] /\ live'[x] = live[x]
    /\ todo'[x] = todo[x] /\ visited'[x] = visited[x] /\ item'[x] = item[x]

\* A step belongs to one caller.
LEMMA StepOfCaller == ASSUME Next PROVE \E c \in Callers : Step(c)
  BY DEF Next, Step

\* A caller's step is a step of the specification.
LEMMA StepIsNext == ASSUME NEW c \in Callers, Step(c) PROVE [Next]_vars
  BY DEF Next, Step

\* A step of one caller leaves the coroutines of the others alone.
LEMMA OtherFrames ==
  ASSUME TypeOK, NEW c \in Callers, Step(c)
  PROVE  \A x \in Callers \ {c} : SameFrame(x)
<1>1. ASSUME NEW t \in Tasks, Mark(c, t) PROVE \A x \in Callers \ {c} : SameFrame(x)
  BY <1>1 DEF Mark, MarkTaskRunning, MarkTaskCompleted, MarkTaskFailed, MarkTaskBlocked,
              MarkTaskCancelled, MarkTaskNotNeeded, Swap, SameFrame, cascade, TypeOK
<1>2. CASE EmitTaskTransitioned(c) \/ CascadeEmitTransitioned(c)
  BY <1>2 DEF EmitTaskTransitioned, CascadeEmitTransitioned, SameFrame, cascade, TypeOK
<1>3. CASE FinishCall(c) \/ CancelCaller(c)
  BY <1>3 DEF FinishCall, CancelCaller, Return, Leave, SameFrame, TypeOK
<1>4. CASE CascadeStart(c) \/ CascadeNext(c)
  BY <1>4 DEF CascadeStart, CascadeNext, CascadeLoop, CascadeCancel, Return, Leave,
              SameFrame, TypeOK
<1> QED
  BY <1>1, <1>2, <1>3, <1>4 DEF Step, Resume

\* The kinds of step, by their effect on the plan: a call moves a task that is
\* not finished, a cascade cancels a task of its queue, or the plan stays.
LEMMA StepKinds ==
  ASSUME TypeOK, NEW c \in Callers, Step(c)
  PROVE  \/ \E t \in Tasks, to \in Status, r, d \in BOOLEAN :
                /\ Swap(c, t, to, r, d)
                /\ fatal' = IF to = "FAILED" /\ ~r THEN fatal \cup {t} ELSE fatal
         \/ /\ \/ CascadeStart(c) \/ CascadeNext(c)
            /\ \E u \in Tasks : status' = [status EXCEPT ![u] = "CANCELLED"]
            /\ fatal' = fatal
         \/ status' = status /\ fatal' = fatal
<1> USE DEF Status, Terminal
<1>1. ASSUME NEW t \in Tasks, Mark(c, t)
      PROVE  \E to \in Status, r, d \in BOOLEAN :
                /\ Swap(c, t, to, r, d)
                /\ fatal' = IF to = "FAILED" /\ ~r THEN fatal \cup {t} ELSE fatal
  <2>1. CASE MarkTaskRunning(c, t)
    BY <2>1 DEF MarkTaskRunning
  <2>2. CASE MarkTaskCompleted(c, t)
    BY <2>2 DEF MarkTaskCompleted
  <2>3. ASSUME NEW r \in BOOLEAN, NEW d \in BOOLEAN, MarkTaskFailed(c, t, r, d)
        PROVE  \E to \in Status, rr, dd \in BOOLEAN :
                /\ Swap(c, t, to, rr, dd)
                /\ fatal' = IF to = "FAILED" /\ ~rr THEN fatal \cup {t} ELSE fatal
    <3>1. Swap(c, t, "FAILED", r, d)
      BY <2>3 DEF MarkTaskFailed
    <3>2. fatal' = IF "FAILED" = "FAILED" /\ ~r THEN fatal \cup {t} ELSE fatal
      BY <2>3 DEF MarkTaskFailed
    <3> QED
      BY <3>1, <3>2
  <2>4. CASE MarkTaskBlocked(c, t)
    BY <2>4 DEF MarkTaskBlocked
  <2>5. CASE MarkTaskCancelled(c, t)
    BY <2>5 DEF MarkTaskCancelled
  <2>6. CASE MarkTaskNotNeeded(c, t)
    BY <2>6 DEF MarkTaskNotNeeded
  <2> QED
    BY <1>1, <2>1, <2>2, <2>3, <2>4, <2>5, <2>6 DEF Mark
<1>2. CASE CascadeStart(c) \/ CascadeNext(c)
  BY <1>2 DEF CascadeStart, CascadeNext, CascadeLoop, CascadeCancel, plan, TypeOK
<1>3. CASE EmitTaskTransitioned(c) \/ FinishCall(c) \/ CascadeEmitTransitioned(c)
           \/ CancelCaller(c)
  BY <1>3 DEF EmitTaskTransitioned, FinishCall, CascadeEmitTransitioned, CancelCaller,
              plan, sinks
<1> QED
  BY <1>1, <1>2, <1>3 DEF Step, Resume

\* A finished task is never unfinished again.
LEMMA FinishedStays ==
  ASSUME TypeOK, [Next]_vars, NEW t \in Tasks, Finished(t)
  PROVE  Finished(t)'
<1>1. CASE UNCHANGED vars
  BY <1>1 DEF vars, plan, Finished
<1>2. ASSUME NEW c \in Callers, Step(c) PROVE Finished(t)'
  <2>1. \/ \E s \in Tasks, to \in Status : ~Finished(s) /\ status' = [status EXCEPT ![s] = to]
        \/ \E u \in Tasks : status' = [status EXCEPT ![u] = "CANCELLED"]
        \/ status' = status
    BY <1>2, StepKinds DEF Swap
  <2> QED
    BY <2>1 DEF TypeOK, Finished, Terminal
<1> QED
  BY <1>1, <1>2, StepOfCaller

-----------------------------------------------------------------------------
(* The cascade. *)

\* A round of the loop leaves a cascade that is sound, or no cascade.
LEMMA LoopSound ==
  ASSUME TypeOK, NEW c \in Callers, pc[c] # "idle", Cascades(c),
         NEW snap \in SUBSET Tasks, NEW queue \in SUBSET Tasks,
         NEW seen \in SUBSET Tasks, CascadeLoop(c, snap, queue, seen),
         queue \subseteq snap \ seen,
         \A u \in Tasks \ (snap \ seen) : Finished(u),
         \A u \in Downstream(call[c].task) : Finished(u) \/ u \in queue,
         InCascade(c)'
  PROVE  /\ Cascades(c)'
         /\ item'[c] \in visited'[c]
         /\ todo'[c] \subseteq live'[c] \ visited'[c]
         /\ \A u \in Tasks \ (live'[c] \ visited'[c]) : Finished(u)'
         /\ \A u \in Downstream(call'[c].task) : Finished(u)' \/ u \in todo'[c]
<1>1. PICK u \in queue : CascadeCancel(c, u, snap, queue, seen)
  BY DEF CascadeLoop, Return, Leave, InCascade, TypeOK
<1>2. /\ live'[c] = snap /\ todo'[c] = queue \ {u} /\ visited'[c] = seen \cup {u}
      /\ item'[c] = u /\ call' = call
  BY <1>1 DEF CascadeCancel, TypeOK
<1>3. \A v \in Tasks : Finished(v)' <=> (Finished(v) \/ v = u)
  BY <1>1 DEF CascadeCancel, TypeOK, Finished, Terminal
<1>4. \A v \in Tasks \ (live'[c] \ visited'[c]) : Finished(v)'
  BY <1>2, <1>3
<1>5. \A v \in Downstream(call'[c].task) : Finished(v)' \/ v \in todo'[c]
  BY <1>2, <1>3 DEF Downstream
<1>6. Cascades(c)'
  BY <1>2 DEF Cascades
<1> QED
  BY <1>2, <1>4, <1>5, <1>6

\* Every step keeps the cascades in progress sound.
LEMMA CascadeStep ==
  ASSUME TypeOK, CascadeSound, [Next]_vars
  PROVE  CascadeSound'
<1>1. CASE UNCHANGED vars
  BY <1>1 DEF CascadeSound, vars, plan, cascade, InCascade, Cascades, Finished, Downstream
<1>2. ASSUME NEW c \in Callers, Step(c) PROVE CascadeSound'
  <2>1. \A t \in Tasks : Finished(t) => Finished(t)'
    <3>1. [Next]_vars
      OBVIOUS
    <3> QED
      BY <3>1, FinishedStays
  <2>2. SUFFICES ASSUME NEW x \in Callers, InCascade(x)'
                 PROVE  /\ Cascades(x)'
                        /\ item'[x] \in visited'[x]
                        /\ todo'[x] \subseteq live'[x] \ visited'[x]
                        /\ \A u \in Tasks \ (live'[x] \ visited'[x]) : Finished(u)'
                        /\ \A u \in Downstream(call'[x].task) : Finished(u)' \/ u \in todo'[x]
    BY DEF CascadeSound, Downstream
  <2>3. CASE SameFrame(x) \/ (x = c /\ CascadeEmitTransitioned(c))
    <3>1. InCascade(x)
      BY <2>2, <2>3 DEF InCascade, SameFrame, CascadeEmitTransitioned
    <3>2. /\ call'[x] = call[x] /\ live'[x] = live[x] /\ todo'[x] = todo[x]
          /\ visited'[x] = visited[x] /\ item'[x] = item[x]
      BY <2>3 DEF SameFrame, CascadeEmitTransitioned, cascade
    <3>3. /\ Cascades(x) /\ item[x] \in visited[x] /\ todo[x] \subseteq live[x] \ visited[x]
          /\ \A u \in Tasks \ (live[x] \ visited[x]) : Finished(u)
          /\ \A u \in Downstream(call[x].task) : Finished(u) \/ u \in todo[x]
      BY <3>1 DEF CascadeSound
    <3>4. Cascades(x)'
      BY <3>2, <3>3 DEF Cascades
    <3> QED
      BY <2>1, <3>2, <3>3, <3>4 DEF Downstream
  <2>4. CASE x = c /\ CascadeStart(c)
    <3>1. Unfinished \in SUBSET Tasks /\ {} \in SUBSET Tasks
          /\ Downstream(call[c].task) \cap Unfinished \in SUBSET Tasks
      BY DEF Unfinished
    <3>2. /\ Downstream(call[c].task) \cap Unfinished \subseteq Unfinished \ {}
          /\ \A u \in Tasks \ (Unfinished \ {}) : Finished(u)
          /\ \A u \in Downstream(call[c].task) :
                Finished(u) \/ u \in Downstream(call[c].task) \cap Unfinished
      BY DEF Unfinished, Downstream
    <3>3. pc[c] # "idle" /\ Cascades(c)
          /\ CascadeLoop(c, Unfinished, Downstream(call[c].task) \cap Unfinished, {})
      BY <2>4 DEF CascadeStart
    <3> DEFINE snap == Unfinished
               queue == Downstream(call[c].task) \cap Unfinished
    <3>4. /\ snap \in SUBSET Tasks /\ queue \in SUBSET Tasks /\ {} \in SUBSET Tasks
          /\ CascadeLoop(c, snap, queue, {}) /\ queue \subseteq snap \ {}
          /\ \A u \in Tasks \ (snap \ {}) : Finished(u)
          /\ \A u \in Downstream(call[c].task) : Finished(u) \/ u \in queue
      BY <3>1, <3>2, <3>3
    <3> HIDE DEF snap, queue
    <3> QED
      BY <2>2, <2>4, <3>3, <3>4, LoopSound
  <2>5. CASE x = c /\ CascadeNext(c)
    <3> DEFINE queue == todo[c] \cup ((Downstream(item[c]) \cap live[c]) \ visited[c])
    <3>1. live[c] \in SUBSET Tasks /\ visited[c] \in SUBSET Tasks /\ queue \in SUBSET Tasks
      BY DEF TypeOK
    <3>2. InCascade(c) /\ pc[c] # "idle"
      BY <2>5 DEF CascadeNext, InCascade
    <3>3. /\ Cascades(c) /\ queue \subseteq live[c] \ visited[c]
          /\ \A u \in Tasks \ (live[c] \ visited[c]) : Finished(u)
          /\ \A u \in Downstream(call[c].task) : Finished(u) \/ u \in queue
      BY <3>2 DEF CascadeSound
    <3>4. CascadeLoop(c, live[c], queue, visited[c])
      BY <2>5 DEF CascadeNext
    <3> DEFINE snap == live[c]
               seen == visited[c]
    <3>5. /\ snap \in SUBSET Tasks /\ queue \in SUBSET Tasks /\ seen \in SUBSET Tasks
          /\ CascadeLoop(c, snap, queue, seen) /\ queue \subseteq snap \ seen
          /\ \A u \in Tasks \ (snap \ seen) : Finished(u)
          /\ \A u \in Downstream(call[c].task) : Finished(u) \/ u \in queue
      BY <3>1, <3>3, <3>4
    <3> HIDE DEF queue, snap, seen
    <3> QED
      BY <2>2, <2>5, <3>2, <3>3, <3>5, LoopSound
  <2>6. CASE x = c /\ ~CascadeStart(c) /\ ~CascadeNext(c) /\ ~CascadeEmitTransitioned(c)
    <3>1. ~InCascade(c)'
      <4>1. ASSUME NEW t \in Tasks, Mark(c, t) PROVE ~InCascade(c)'
        BY <4>1 DEF Mark, MarkTaskRunning, MarkTaskCompleted, MarkTaskFailed,
                    MarkTaskBlocked, MarkTaskCancelled, MarkTaskNotNeeded, Swap,
                    InCascade, TypeOK
      <4>2. CASE EmitTaskTransitioned(c) \/ FinishCall(c) \/ CancelCaller(c)
        BY <4>2 DEF EmitTaskTransitioned, FinishCall, CancelCaller, Return, Leave,
                    InCascade, TypeOK
      <4> QED
        BY <1>2, <2>6, <4>1, <4>2 DEF Step, Resume
    <3> QED
      BY <2>2, <2>6, <3>1
  <2> QED
    BY <1>2, <2>3, <2>4, <2>5, <2>6, OtherFrames
<1> QED
  BY <1>1, <1>2, StepOfCaller

-----------------------------------------------------------------------------
(* No orphans. *)

\* A task reported as failed for good is finished.
FatalIsFinished == \A t \in fatal : Finished(t)

\* Every step keeps it so.
LEMMA FatalStep ==
  ASSUME TypeOK, FatalIsFinished, [Next]_vars
  PROVE  FatalIsFinished'
<1>1. CASE UNCHANGED vars
  BY <1>1 DEF FatalIsFinished, vars, plan, sinks, Finished
<1>2. ASSUME NEW c \in Callers, Step(c) PROVE FatalIsFinished'
  <2>1. \A t \in fatal : Finished(t)'
    BY FinishedStays DEF FatalIsFinished, TypeOK
  <2>2. ASSUME NEW s \in Tasks, NEW to \in Status, NEW r \in BOOLEAN, NEW d \in BOOLEAN,
               Swap(c, s, to, r, d),
               fatal' = IF to = "FAILED" /\ ~r THEN fatal \cup {s} ELSE fatal
        PROVE  FatalIsFinished'
    <3>1. to = "FAILED" => Finished(s)'
      BY <2>2 DEF Swap, Finished, Terminal, TypeOK
    <3> QED
      BY <2>1, <2>2, <3>1 DEF FatalIsFinished
  <2>3. CASE fatal' = fatal
    BY <2>1, <2>3 DEF FatalIsFinished
  <2> QED
    BY <1>2, <2>2, <2>3, StepKinds
<1> QED
  BY <1>1, <1>2, StepOfCaller

\* A caller's coverage of u survives the caller's own step, unless u is
\* finished by it or t's cascade is abandoned.
LEMMA OwnCoverStep ==
  ASSUME TypeOK, CascadeSound, NEW c \in Callers, Step(c),
         NEW t \in Tasks, NEW u \in Tasks, <<t, u>> \in Edges, t \notin abandoned',
         \/ pc[c] \in {"swapped", "announced"} /\ call[c].task = t /\ Cascades(c)
         \/ InCascade(c) /\ u \in todo[c] /\ t \in visited[c] \cup {call[c].task}
         \/ InCascade(c) /\ item[c] = t /\ u \in live[c] \ visited[c]
  PROVE  Finished(u)' \/ Covered(t, u)'
<1>0. pc[c] # "idle" /\ u \in Downstream(t)
  BY DEF InCascade, Downstream
<1>1. CASE EmitTaskTransitioned(c) \/ CascadeEmitTransitioned(c)
  <2>1. call' = call /\ cascade' = cascade
        /\ (pc[c] = "swapped" => pc'[c] = "announced")
        /\ (pc[c] = "cancelling" => pc'[c] = "cascaded")
        /\ pc[c] \in {"swapped", "cancelling"}
    BY <1>1 DEF EmitTaskTransitioned, CascadeEmitTransitioned, TypeOK
  <2>2. \/ pc'[c] \in {"swapped", "announced"} /\ call'[c].task = t /\ Cascades(c)'
        \/ InCascade(c)' /\ u \in todo'[c] /\ t \in visited'[c] \cup {call'[c].task}
        \/ InCascade(c)' /\ item'[c] = t /\ u \in live'[c] \ visited'[c]
    BY <2>1 DEF InCascade, Cascades, cascade
  <2> QED
    BY <2>2 DEF Covered
<1>2. CASE CascadeStart(c)
  <2>1. call[c].task = t
    BY <1>2 DEF CascadeStart, InCascade
  <2>2. CASE u \notin Unfinished
    BY <2>2, <1>2, FinishedStays, StepIsNext DEF Unfinished
  <2>3. CASE u \in Unfinished
    <3>1. PICK v \in Downstream(call[c].task) \cap Unfinished :
             CascadeCancel(c, v, Unfinished, Downstream(call[c].task) \cap Unfinished, {})
      BY <1>0, <1>2, <2>1, <2>3 DEF CascadeStart, CascadeLoop
    <3>2. /\ InCascade(c)' /\ call' = call
          /\ todo'[c] = (Downstream(t) \cap Unfinished) \ {v}
      BY <2>1, <3>1 DEF CascadeCancel, InCascade, TypeOK
    <3>3. u = v => Finished(u)'
      BY <3>1 DEF CascadeCancel, Finished, Terminal, TypeOK
    <3>4. u # v => u \in todo'[c] /\ t \in visited'[c] \cup {call'[c].task}
      BY <1>0, <2>1, <2>3, <3>2
    <3> QED
      BY <3>2, <3>3, <3>4 DEF Covered
  <2> QED
    BY <2>2, <2>3
<1>3. CASE CascadeNext(c)
  <2> DEFINE queue == todo[c] \cup ((Downstream(item[c]) \cap live[c]) \ visited[c])
  <2>1. InCascade(c) /\ u \in queue /\ t \in visited[c] \cup {call[c].task}
    BY <1>0, <1>3 DEF CascadeNext, InCascade, CascadeSound
  <2>2. PICK v \in queue : CascadeCancel(c, v, live[c], queue, visited[c])
    BY <1>3, <2>1 DEF CascadeNext, CascadeLoop
  <2>3. /\ InCascade(c)' /\ call' = call /\ todo'[c] = queue \ {v}
        /\ visited'[c] = visited[c] \cup {v}
    BY <2>2 DEF CascadeCancel, InCascade, TypeOK
  <2>4. v \in Tasks
    BY <2>2 DEF TypeOK
  <2>5. u = v => Finished(u)'
    BY <2>2, <2>4 DEF CascadeCancel, Finished, Terminal, TypeOK
  <2>6. u # v => u \in todo'[c] /\ t \in visited'[c] \cup {call'[c].task}
    BY <2>1, <2>3
  <2> QED
    BY <2>3, <2>5, <2>6 DEF Covered
<1>4. CASE CancelCaller(c)
  <2>1. t \in {call[c].task} \cup visited[c]
    BY DEF CascadeSound
  <2> QED
    BY <1>4, <2>1 DEF CancelCaller
<1>5. ~FinishCall(c)
  BY DEF FinishCall, InCascade
<1>6. ASSUME NEW s \in Tasks, Mark(c, s) PROVE FALSE
  BY <1>0, <1>6 DEF Mark, MarkTaskRunning, MarkTaskCompleted, MarkTaskFailed,
                    MarkTaskBlocked, MarkTaskCancelled, MarkTaskNotNeeded, Swap
<1> QED
  BY <1>1, <1>2, <1>3, <1>4, <1>5, <1>6 DEF Step, Resume

\* A task that becomes doomed is covered by the caller that dooms it.
LEMMA NewlyDoomed ==
  ASSUME TypeOK, CascadeSound, CascadeSound', FatalIsFinished, NEW c \in Callers, Step(c),
         NEW t \in Tasks, NEW u \in Tasks, <<t, u>> \in Edges,
         ~Doomed(t), Doomed(t)'
  PROVE  Finished(u)' \/ Covered(t, u)'
<1>0. u \in Downstream(t)
  BY DEF Downstream
<1>1. ASSUME NEW s \in Tasks, NEW to \in Status, NEW r \in BOOLEAN, NEW d \in BOOLEAN,
             Swap(c, s, to, r, d),
             fatal' = IF to = "FAILED" /\ ~r THEN fatal \cup {s} ELSE fatal
      PROVE  Finished(u)' \/ Covered(t, u)'
  <2>1. s = t /\ (to = "CANCELLED" \/ (to = "FAILED" /\ ~r))
    BY <1>1 DEF Doomed, Swap, TypeOK, Finished, Terminal, FatalIsFinished
  <2>2. pc'[c] = "swapped" /\ call'[c].task = t /\ Cascades(c)'
    BY <1>1, <2>1 DEF Swap, TypeOK, Cascades
  <2> QED
    BY <2>2 DEF Covered
<1>2. ASSUME CascadeStart(c) \/ CascadeNext(c), NEW v \in Tasks,
             status' = [status EXCEPT ![v] = "CANCELLED"], fatal' = fatal
      PROVE  Finished(u)' \/ Covered(t, u)'
  <2>1. v = t
    BY <1>2 DEF Doomed, TypeOK
  <2>2. InCascade(c)' /\ item'[c] = t
    <3>1. \E w, snap, queue, seen : CascadeCancel(c, w, snap, queue, seen)
      BY <1>2, <2>1 DEF CascadeStart, CascadeNext, CascadeLoop, plan, Doomed
    <3>2. PICK w, snap, queue, seen : CascadeCancel(c, w, snap, queue, seen)
      BY <3>1
    <3>3. w = t
      BY <1>2, <2>1, <3>2 DEF CascadeCancel, TypeOK, Doomed
    <3> QED
      BY <3>2, <3>3 DEF CascadeCancel, InCascade, TypeOK
  <2>3. CASE u \in live'[c] \ visited'[c]
    BY <2>2, <2>3 DEF Covered
  <2>4. CASE u \notin live'[c] \ visited'[c]
    BY <2>2, <2>4 DEF CascadeSound
  <2> QED
    BY <2>3, <2>4
<1>3. CASE status' = status /\ fatal' = fatal
  BY <1>3 DEF Doomed
<1> QED
  BY <1>1, <1>2, <1>3, StepKinds

\* Every step keeps the dependents of doomed tasks finished or covered.
LEMMA NoOrphanStep ==
  ASSUME TypeOK, CascadeSound, CascadeSound', FatalIsFinished, NoOrphan, [Next]_vars
  PROVE  NoOrphan'
<1>1. CASE UNCHANGED vars
  BY <1>1 DEF NoOrphan, vars, plan, sinks, cascade, Doomed, Finished, Covered, InCascade,
              Cascades
<1>2. ASSUME NEW c \in Callers, Step(c) PROVE NoOrphan'
  <2> SUFFICES ASSUME NEW t \in Tasks, NEW u \in Tasks, <<t, u>> \in Edges,
                      Doomed(t)', t \notin abandoned'
               PROVE  Finished(u)' \/ Covered(t, u)'
    BY DEF NoOrphan
  <2>1. t \notin abandoned
    BY <1>2 DEF Step, Mark, MarkTaskRunning, MarkTaskCompleted, MarkTaskFailed,
                MarkTaskBlocked, MarkTaskCancelled, MarkTaskNotNeeded, Swap,
                Resume, EmitTaskTransitioned, FinishCall, CascadeStart, CascadeNext,
                CascadeLoop, CascadeEmitTransitioned, CancelCaller
  <2>2. CASE ~Doomed(t)
    BY <1>2, <2>2, NewlyDoomed
  <2>3. CASE Finished(u)
    BY <2>3, FinishedStays
  <2>4. CASE Doomed(t) /\ ~Finished(u)
    <3>1. PICK x \in Callers :
            \/ pc[x] \in {"swapped", "announced"} /\ call[x].task = t /\ Cascades(x)
            \/ InCascade(x) /\ u \in todo[x] /\ t \in visited[x] \cup {call[x].task}
            \/ InCascade(x) /\ item[x] = t /\ u \in live[x] \ visited[x]
      BY <2>1, <2>4 DEF NoOrphan, Covered
    <3>2. CASE x = c
      BY <1>2, <3>1, <3>2, OwnCoverStep
    <3>3. CASE x # c
      <4>1. SameFrame(x)
        BY <1>2, <3>3, OtherFrames
      <4>2. \/ pc'[x] \in {"swapped", "announced"} /\ call'[x].task = t /\ Cascades(x)'
            \/ InCascade(x)' /\ u \in todo'[x] /\ t \in visited'[x] \cup {call'[x].task}
            \/ InCascade(x)' /\ item'[x] = t /\ u \in live'[x] \ visited'[x]
        BY <3>1, <4>1 DEF SameFrame, InCascade, Cascades
      <4> QED
        BY <4>2 DEF Covered
    <3> QED
      BY <3>2, <3>3
  <2> QED
    BY <2>2, <2>3, <2>4
<1> QED
  BY <1>1, <1>2, StepOfCaller

-----------------------------------------------------------------------------
(* The session's bookkeeping. *)

\* Every step keeps the dependents of a fatally failed task whose drift handler
\* was spawned finished.
LEMMA DriftStep ==
  ASSUME TypeOK, CascadeSound, DriftAfterCascade, [Next]_vars
  PROVE  DriftAfterCascade'
<1>0. \A t \in Tasks : Finished(t) => Finished(t)'
  BY FinishedStays
<1>1. CASE drifts' = drifts
  BY <1>0, <1>1 DEF DriftAfterCascade
<1>2. ASSUME NEW c \in Callers, Step(c), drifts' # drifts PROVE DriftAfterCascade'
  <2>1. Return(c) /\ (FinishCall(c) \/ CascadeStart(c) \/ CascadeNext(c))
    BY <1>2 DEF Step, Mark, MarkTaskRunning, MarkTaskCompleted, MarkTaskFailed,
                MarkTaskBlocked, MarkTaskCancelled, MarkTaskNotNeeded, Swap,
                Resume, EmitTaskTransitioned, FinishCall, CascadeStart, CascadeNext,
                CascadeLoop, CascadeCancel, CascadeEmitTransitioned, CancelCaller, sinks
  <2>2. drifts' = drifts \cup {call[c].task} /\ Cascades(c)
    BY <1>2, <2>1 DEF Return, Cascades
  <2>3. CASE CascadeStart(c)
    <3>1. Downstream(call[c].task) \cap Unfinished = {}
      BY <1>2, <2>3 DEF CascadeStart, CascadeLoop, CascadeCancel
    <3>2. \A u \in Downstream(call[c].task) : Finished(u)
      BY <3>1 DEF Unfinished, Downstream
    <3> QED
      BY <1>0, <2>2, <3>2 DEF DriftAfterCascade, Downstream
  <2>4. CASE CascadeNext(c)
    <3>1. todo[c] = {} /\ InCascade(c)
      BY <1>2, <2>4 DEF CascadeNext, CascadeLoop, CascadeCancel, InCascade
    <3>2. \A u \in Downstream(call[c].task) : Finished(u)
      BY <3>1 DEF CascadeSound
    <3> QED
      BY <1>0, <2>2, <3>2 DEF DriftAfterCascade, Downstream
  <2>5. CASE FinishCall(c)
    BY <2>2, <2>5 DEF FinishCall
  <2> QED
    BY <2>1, <2>3, <2>4, <2>5
<1>3. CASE UNCHANGED vars
  BY <1>1, <1>3 DEF vars, sinks
<1> QED
  BY <1>1, <1>2, <1>3, StepOfCaller

\* Every step keeps finished tasks out of the lineage map and strands the pin
\* only on a cancelled task.
LEMMA BookkeepingStep ==
  ASSUME TypeOK, LineageIsLive, PinStrandedOnlyByCascade, [Next]_vars
  PROVE  LineageIsLive' /\ PinStrandedOnlyByCascade'
<1>1. CASE UNCHANGED <<status, lineage, pin>>
  BY <1>1 DEF LineageIsLive, PinStrandedOnlyByCascade, Finished
<1>2. ASSUME NEW c \in Callers, NEW t \in Tasks, Mark(c, t)
      PROVE  LineageIsLive' /\ PinStrandedOnlyByCascade'
  BY <1>2, NoTaskAssumption
     DEF Mark, MarkTaskRunning, MarkTaskCompleted, MarkTaskFailed,
         MarkTaskBlocked, MarkTaskCancelled, MarkTaskNotNeeded, Swap, SyncCurrentTask,
         LineageIsLive, PinStrandedOnlyByCascade, Finished, Terminal, TypeOK
<1>3. ASSUME NEW c \in Callers, CascadeStart(c) \/ CascadeNext(c)
      PROVE  LineageIsLive' /\ PinStrandedOnlyByCascade'
  <2>1. CASE UNCHANGED plan
    BY <1>1, <2>1 DEF plan
  <2>2. ASSUME NEW u, status' = [status EXCEPT ![u] = "CANCELLED"],
               lineage' = lineage \ {u}, pin' = pin
        PROVE  LineageIsLive' /\ PinStrandedOnlyByCascade'
    BY <2>2, NoTaskAssumption
       DEF LineageIsLive, PinStrandedOnlyByCascade, Finished, Terminal, TypeOK
  <2> QED
    BY <1>3, <2>1, <2>2 DEF CascadeStart, CascadeNext, CascadeLoop, CascadeCancel
<1>4. ASSUME NEW c \in Callers,
             EmitTaskTransitioned(c) \/ FinishCall(c) \/ CascadeEmitTransitioned(c)
               \/ CancelCaller(c)
      PROVE  LineageIsLive' /\ PinStrandedOnlyByCascade'
  BY <1>1, <1>4 DEF EmitTaskTransitioned, FinishCall, CascadeEmitTransitioned,
                    CancelCaller, plan
<1>5. CASE UNCHANGED vars
  BY <1>1, <1>5 DEF vars, plan
<1> QED
  BY <1>2, <1>3, <1>4, <1>5 DEF Next, Resume

\* A caller that owes an event makes it, loses it by a cancellation, or still
\* owes it after its step.
LEMMA OwedStep ==
  ASSUME TypeOK, CascadeSound, NEW c \in Callers, Step(c), NEW t \in Tasks, Owes(c, t)
  PROVE  t \in announced' \cup abandoned' \/ Owes(c, t)'
<1>1. ASSUME NEW s \in Tasks, Mark(c, s) PROVE FALSE
  BY <1>1 DEF Mark, MarkTaskRunning, MarkTaskCompleted, MarkTaskFailed, MarkTaskBlocked,
              MarkTaskCancelled, MarkTaskNotNeeded, Swap, Owes
<1>2. CASE EmitTaskTransitioned(c)
  BY <1>2 DEF EmitTaskTransitioned, Owes
<1>3. CASE CascadeEmitTransitioned(c)
  BY <1>3 DEF CascadeEmitTransitioned, Owes
<1>4. CASE FinishCall(c) \/ CascadeStart(c) \/ CascadeNext(c)
  BY <1>4 DEF FinishCall, CascadeStart, CascadeNext, Owes
<1>5. CASE CancelCaller(c)
  BY <1>5 DEF CancelCaller, Owes, CascadeSound, InCascade
<1> QED
  BY <1>1, <1>2, <1>3, <1>4, <1>5 DEF Step, Resume

\* A step that finishes a task owes the event for it.
LEMMA NewlyFinished ==
  ASSUME TypeOK, NEW c \in Callers, Step(c), NEW t \in Tasks, ~Finished(t), Finished(t)'
  PROVE  Owes(c, t)'
<1>1. ASSUME NEW s \in Tasks, NEW to \in Status, NEW r \in BOOLEAN, NEW d \in BOOLEAN,
             Swap(c, s, to, r, d)
      PROVE  Owes(c, t)'
  BY <1>1 DEF Swap, Owes, Finished, TypeOK
<1>2. CASE (CascadeStart(c) \/ CascadeNext(c))
           /\ \E u \in Tasks : status' = [status EXCEPT ![u] = "CANCELLED"]
  <2>1. CASE UNCHANGED plan
    BY <2>1 DEF plan, Finished
  <2>2. ASSUME NEW u, NEW snap, NEW rest, NEW seen, CascadeCancel(c, u, snap, rest, seen)
        PROVE  Owes(c, t)'
    BY <2>2 DEF CascadeCancel, Owes, Finished, TypeOK
  <2> QED
    BY <1>2, <2>1, <2>2 DEF CascadeStart, CascadeNext, CascadeLoop
<1>3. CASE status' = status
  BY <1>3 DEF Finished
<1> QED
  BY <1>1, <1>2, <1>3, StepKinds

\* Nothing that was announced or abandoned is forgotten.
LEMMA AnnouncedGrows ==
  ASSUME TypeOK, NEW c \in Callers, Step(c)
  PROVE  announced \subseteq announced' /\ abandoned \subseteq abandoned'
  BY DEF Step, Mark, MarkTaskRunning, MarkTaskCompleted, MarkTaskFailed, MarkTaskBlocked,
         MarkTaskCancelled, MarkTaskNotNeeded, Swap, Resume, EmitTaskTransitioned,
         FinishCall, CascadeStart, CascadeNext, CascadeLoop, CascadeEmitTransitioned,
         CancelCaller, sinks

\* Every step keeps each finish announced, owed or abandoned.
LEMMA AnnouncedStep ==
  ASSUME TypeOK, CascadeSound, FinishAnnounced, [Next]_vars
  PROVE  FinishAnnounced'
<1>1. CASE UNCHANGED vars
  BY <1>1 DEF FinishAnnounced, Owes, Finished, vars, plan, sinks, cascade
<1>2. ASSUME NEW c \in Callers, Step(c), NEW t \in Tasks, Finished(t)'
      PROVE  t \in announced' \cup abandoned' \/ \E x \in Callers : Owes(x, t)'
  <2>1. CASE ~Finished(t)
    BY <1>2, <2>1, NewlyFinished
  <2>2. CASE t \in announced \cup abandoned
    BY <1>2, <2>2, AnnouncedGrows
  <2>3. ASSUME NEW x \in Callers, Owes(x, t)
        PROVE  t \in announced' \cup abandoned' \/ \E y \in Callers : Owes(y, t)'
    <3>1. CASE x = c
      BY <1>2, <2>3, <3>1, OwedStep
    <3>2. CASE x # c
      <4>1. SameFrame(x)
        BY <1>2, <3>2, OtherFrames
      <4> QED
        BY <2>3, <4>1 DEF SameFrame, Owes
    <3> QED
      BY <3>1, <3>2
  <2> QED
    BY <2>1, <2>2, <2>3 DEF FinishAnnounced
<1> QED
  BY <1>1, <1>2, StepOfCaller DEF FinishAnnounced

-----------------------------------------------------------------------------
(* The theorems. *)

\* The inductive invariant: the types, what a cascade in progress guarantees,
\* and the invariants that rest on it.
IInv ==
    /\ TypeOK /\ CascadeSound /\ FatalIsFinished /\ NoOrphan /\ DriftAfterCascade
    /\ LineageIsLive /\ PinStrandedOnlyByCascade /\ FinishAnnounced

\* The inductive invariant holds throughout every session.
LEMMA Inductive == Spec => []IInv
<1>1. Init => IInv
  BY TypeInit, NoTaskAssumption
     DEF Init, IInv, CascadeSound, FatalIsFinished, NoOrphan, DriftAfterCascade,
         LineageIsLive, PinStrandedOnlyByCascade, FinishAnnounced, InCascade, Doomed, Finished,
         Terminal
<1>2. IInv /\ [Next]_vars => IInv'
  BY TypeStep, CascadeStep, FatalStep, NoOrphanStep, DriftStep, BookkeepingStep,
     AnnouncedStep DEF IInv
<1> QED
  BY <1>1, <1>2, PTL DEF Spec

\* A dependent of a cancelled or fatally failed task is finished or about to be
\* cancelled by a cascade in progress, however the calls interleave.
THEOREM NoOrphanHolds == Spec => []NoOrphan
<1>1. IInv => NoOrphan
  BY DEF IInv
<1> QED
  BY <1>1, Inductive, PTL

\* What a cascade in progress has established about the plan.
THEOREM CascadeSoundHolds == Spec => []CascadeSound
<1>1. IInv => CascadeSound
  BY DEF IInv
<1> QED
  BY <1>1, Inductive, PTL

\* A fatal failure's drift handler starts after the cascade has dealt with every
\* direct dependent.
THEOREM DriftAfterCascadeHolds == Spec => []DriftAfterCascade
<1>1. IInv => DriftAfterCascade
  BY DEF IInv
<1> QED
  BY <1>1, Inductive, PTL

\* The lineage map holds live tasks only, and the pin is stranded by cascades
\* only.
THEOREM BookkeepingHolds == Spec => []Bookkeeping
<1>1. IInv => Bookkeeping
  BY DEF IInv, Bookkeeping
<1> QED
  BY <1>1, Inductive, PTL

\* Every finish is announced, or a call in progress owes the event, unless the
\* caller that owed it was cancelled.
THEOREM FinishAnnouncedHolds == Spec => []FinishAnnounced
<1>1. IInv => FinishAnnounced
  BY DEF IInv
<1> QED
  BY <1>1, Inductive, PTL

\* The status of a finished task changes only when a cascade that began before
\* the finish overwrites it with CANCELLED.
THEOREM FinishedIsFinalHolds == Spec => FinishedIsFinal
<1> DEFINE Final == \A t \in Tasks :
              Finished(t) /\ status'[t] # status[t] =>
                  /\ status'[t] = "CANCELLED"
                  /\ \E c \in Callers : InCascade(c) /\ t \in live[c] \ visited[c]
<1>1. IInv /\ [Next]_vars => [Final]_vars
  <2> SUFFICES ASSUME IInv, NEW t \in Tasks, Finished(t), status'[t] # status[t], Next
               PROVE  /\ status'[t] = "CANCELLED"
                      /\ \E c \in Callers : InCascade(c) /\ t \in live[c] \ visited[c]
    OBVIOUS
  <2>1. PICK c \in Callers : Step(c)
    BY StepOfCaller
  <2>2. TypeOK /\ CascadeSound
    BY DEF IInv
  <2>3. CascadeStart(c) \/ CascadeNext(c)
    BY <2>1, <2>2, StepKinds DEF Swap, Finished, TypeOK
  <2>4. CASE CascadeStart(c)
    <3>1. ASSUME NEW u \in Unfinished, status' = [status EXCEPT ![u] = "CANCELLED"]
          PROVE  FALSE
      BY <2>2, <3>1 DEF Unfinished, TypeOK
    <3> QED
      BY <2>4, <3>1 DEF CascadeStart, CascadeLoop, CascadeCancel, plan
  <2>5. CASE CascadeNext(c)
    <3>1. InCascade(c) /\ todo[c] \subseteq live[c] \ visited[c]
      BY <2>2, <2>5 DEF CascadeNext, InCascade, CascadeSound
    <3>2. PICK u \in live[c] \ visited[c] : status' = [status EXCEPT ![u] = "CANCELLED"]
      BY <2>5, <3>1 DEF CascadeNext, CascadeLoop, CascadeCancel, plan
    <3>3. u = t /\ status'[t] = "CANCELLED"
      BY <2>2, <3>2 DEF TypeOK
    <3> QED
      BY <3>1, <3>2, <3>3
  <2> QED
    BY <2>3, <2>4, <2>5
<1> QED
  BY <1>1, Inductive, PTL DEF Spec, FinishedIsFinal
=============================================================================
