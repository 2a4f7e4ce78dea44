---------------------------- MODULE DriftProofs -----------------------------
(***************************************************************************)
(* Drift: what finds it, and what becomes of it.  The proofs of            *)
(* DriftSignals' AttributionIsTrue, DrainedBeforeFinalize and              *)
(* SignalsArePaced, for any set of drifts and tasks, any windows and       *)
(* thresholds and any cap on the notes; and of the Detectors'              *)
(* StallEscalates, VerdictsAreFresh and LoopsToldApart, for any timeouts,  *)
(* plans, judges, tiers and windows.                                       *)
(*                                                                         *)
(* DriftSignals: the drain rests on a handler being started once: the one  *)
(* of a failed task is, because a task fails once and its failure is owed  *)
(* to the one handler that failed it.  Attribution and pacing rest on the  *)
(* queue knowing what it has shown, and when, as long as it has pruned     *)
(* nothing of the key.                                                     *)
(*                                                                         *)
(* Detectors: the watchdog's counters say what was announced, from the     *)
(* first poll that has seen the last sign of life; what the outcome judge  *)
(* is about to apply was compared with the deliverables, and edits since   *)
(* are on record; and the window of an agent is the end of its calls since *)
(* its last progress in the pass.                                          *)
(***************************************************************************)
EXTENDS DriftSignals, Detectors, FiniteSetTheorems, WellFoundedInduction, TLAPS

Places == {"none", "spawned", "emitting", "cancelling", "ladder", "refining", "revising",
           "failing", "killing", "settling", "repeating", "pausing", "escalating", "done"}
Levels == {"none", "suppressed", "promotion", "observe", "signal", "absorb", "cancel_reinvoke",
           "pause", "terminate", "nudge", "exhausted", "retired", "failed", "unusable"}
Channels == {"request_context", "pause_control", "steer_control"}
Results == {"open", "user_intervened", "escalated", "after_signal", "unaided",
            "invocation_ended"}

Frames == [pc : Places, level : Levels]
Notes == [drift : Drifts, key : Keys, severity : Severity, turn : Nat, level : Levels,
          state : {"pending", "shown", "dry", "pruned"}, at : Int]
Entries == [deliveries : SUBSET (Drifts \X Channels), outcome : Results]
Histories == [shown : SUBSET Keys, taken : [Keys -> Int], forgotten : SUBSET Keys,
              wronged : SUBSET Keys, late : SUBSET Drifts]

Shapes ==
    /\ turn \in Nat
    /\ h \in [Drifts -> Frames]
    /\ notes \in Seq(Notes)
    /\ entry \in [Keys -> Entries]
    /\ task \in [Tasks -> {"live", "finished", "failed", "settled"}]
    /\ drain \subseteq Drifts
    /\ hist \in Histories

\* The failure of a task has no handler before the task has failed, and not
\* before the one handler that failed it goes on.
FailsOnce ==
    /\ \A d \in Drifts : h[d].pc = "settling" =>
          /\ TaskOf(d) \in Tasks /\ task[TaskOf(d)] # "live"
          /\ FailureOf(TaskOf(d)) \in Drifts => h[FailureOf(TaskOf(d))].pc = "none"
    /\ \A d, e \in Drifts :
          h[d].pc = "settling" /\ h[e].pc = "settling" /\ TaskOf(d) = TaskOf(e) => d = e
    /\ \A t \in Tasks :
          FailureOf(t) \in Drifts /\ h[FailureOf(t)].pc # "none" => task[t] # "live"

\* The handlers the drain waits for were started before it and are done after it.
Drained ==
    /\ phase # "over" => hist.late = {}
    /\ phase = "running" => drain = {}
    /\ \A d \in drain : h[d].pc # "none" /\ (phase = "over" => h[d].pc = "done")
    /\ DrainedBeforeFinalize

\* The queue knows the keys it has shown, except for those it has pruned.
Shown ==
    /\ RenderedKeys \subseteq hist.shown
    /\ hist.shown \subseteq RenderedKeys \cup hist.forgotten
    /\ AttributionIsTrue

\* The queue knows when a note of a key was taken last, with the same exception.
Timed ==
    /\ \A k \in Keys : hist.taken[k] <= turn
    /\ \A i \in Taken(notes) : notes[i].at <= hist.taken[notes[i].key]
    /\ \A k \in Keys \ hist.forgotten : hist.taken[k] >= 0 =>
          \E i \in Taken(notes) : notes[i].key = k /\ notes[i].at = hist.taken[k]

SignalsInv == Shapes /\ FailsOnce /\ Drained /\ Shown /\ Timed

-----------------------------------------------------------------------------
(***************************************************************************)
(* What a step of a handler does to the others.                            *)
(***************************************************************************)

\* The handler d goes on, and neither starts nor begins to wait for the end of
\* its task.
Moves(d) ==
    /\ h[d].pc \notin {"none", "settling", "done"}
    /\ \E f \in Frames : f.pc \notin {"none", "settling"} /\ h' = [h EXCEPT ![d] = f]

\* The ledger keeps the deliveries it has.
SameDeliveries ==
    /\ entry' \in [Keys -> Entries]
    /\ \A k \in Keys : entry'[k].deliveries = entry[k].deliveries

\* The handler d says nothing, or sends a control, or queues a note.
SaysNothing == SameDeliveries /\ UNCHANGED <<notes, hist>>
Sends(d) ==
    /\ \E c \in Channels : Delivered(d, c)
    /\ hist' = [hist EXCEPT !.late = LateDelivery(d)]
    /\ UNCHANGED notes
Queues(d) ==
    /\ \E level \in Levels :
          LET q == Queued(d, level)
          IN  /\ notes' = Pruned(q)
              /\ hist' = [hist EXCEPT !.late = LateDelivery(d),
                                      !.forgotten = @ \cup {q[i].key : i \in Dropped(q)}]
    /\ Delivered(d, "request_context")
Speaks(d) == SaysNothing \/ Sends(d) \/ Queues(d)

Acts(d) == Moves(d) /\ Speaks(d)

\* An entry that does not change.
LEMMA SameEntry == ASSUME Shapes, UNCHANGED entry PROVE SameDeliveries
BY DEF Shapes, SameDeliveries

\* Going to a place in the handler.
LEMMA GotoMoves ==
    ASSUME Shapes, NEW d \in Drifts, h[d].pc \notin {"none", "settling", "done"},
           NEW pc \in Places, pc \notin {"none", "settling"}, Goto(d, pc)
    PROVE  Moves(d)
<1> DEFINE f == [h[d] EXCEPT !.pc = pc]
<1>1. f \in Frames /\ f.pc = pc
  BY DEF Shapes, Frames
<1>2. h' = [h EXCEPT ![d] = f]
  BY DEF Goto
<1> HIDE DEF f
<1> QED
  BY <1>1, <1>2 DEF Moves

\* The same with a level.
LEMMA GotoAsMoves ==
    ASSUME Shapes, NEW d \in Drifts, h[d].pc \notin {"none", "settling", "done"},
           NEW pc \in Places, pc \notin {"none", "settling"}, NEW level \in Levels,
           GotoAs(d, pc, level)
    PROVE  Moves(d)
BY DEF GotoAs, Moves, Frames

\* The ways a handler goes on.
LEMMA ActsOf ==
    ASSUME Shapes, NEW d \in Drifts, h[d].pc \notin {"none", "settling", "done"},
           NEW level \in Levels
    PROVE  /\ Finish(d) => Acts(d)
           /\ BeginPause(d, level) => Acts(d)
           /\ RouteNote(d, level) => Acts(d)
           /\ \A pc \in Places \ {"none", "settling"} : Await(d, pc, level) => Acts(d)
<1>1. ASSUME Finish(d) PROVE Acts(d)
  <2>1. Goto(d, "done") /\ SaysNothing
    BY <1>1, SameEntry DEF Finish, SaysNothing
  <2> QED
    BY <2>1, GotoMoves DEF Acts, Speaks, Places
<1>2. ASSUME BeginPause(d, level) PROVE Acts(d)
  <2>1. GotoAs(d, "pausing", level) /\ Sends(d)
    BY <1>2 DEF BeginPause, Sends, Channels
  <2> QED
    BY <2>1, GotoAsMoves DEF Acts, Speaks, Places
<1>3. ASSUME RouteNote(d, level) PROVE Acts(d)
  <2>1. Goto(d, "done") /\ Queues(d)
    BY <1>3 DEF RouteNote, Queues
  <2> QED
    BY <2>1, GotoMoves DEF Acts, Speaks, Places
<1>4. ASSUME NEW pc \in Places \ {"none", "settling"}, Await(d, pc, level) PROVE Acts(d)
  <2>1. GotoAs(d, pc, level) /\ SaysNothing
    BY <1>4, SameEntry DEF Await, SaysNothing
  <2> QED
    BY <2>1, GotoAsMoves DEF Acts, Speaks, Places
<1> QED
  BY <1>1, <1>2, <1>3, <1>4

\* The ladder has a level for every drift.
LEMMA LevelNamed ==
    ASSUME NEW d \in Drifts, NEW repeat \in BOOLEAN
    PROVE  Level(KindOf(d), SeverityOf(d), repeat) \in Levels
BY SignalAssumption DEF Levels, Level, WarningLevel, CriticalLevel, Severity

\* So does everything a handler decides.
LEMMA DecisionsAct ==
    ASSUME Shapes, NEW d \in Drifts, h[d].pc \notin {"none", "settling", "done"}
    PROVE  /\ Decide(d) => Acts(d)
           /\ RetireRefine(d) => Acts(d)
           /\ \A level \in Levels : BeginRefine(d, level) => Acts(d)
           /\ AfterFailure(d) => Acts(d)
<1>1. ASSUME RetireRefine(d) PROVE Acts(d)
  BY <1>1, ActsOf DEF RetireRefine, Places, Levels
<1>2. ASSUME NEW level \in Levels, BeginRefine(d, level) PROVE Acts(d)
  BY <1>2, ActsOf DEF BeginRefine, Places, Levels
<1>3. ASSUME AfterFailure(d) PROVE Acts(d)
  BY <1>3, ActsOf DEF AfterFailure, Levels
<1>4. ASSUME Decide(d) PROVE Acts(d)
  <2>1. Promote(d) => Acts(d)
    BY <1>1, <1>2 DEF Promote, Levels
  <2>2. StartLadder(d) => Acts(d)
    <3>1. Repeats(d) \in BOOLEAN
      BY DEF Repeats
    <3> QED
      BY <3>1, LevelNamed, ActsOf DEF StartLadder, Places
  <2>3. Paced(d, Pacing(d), Promote(d)) => Acts(d)
    BY <2>1, ActsOf DEF Paced, Levels
  <2> QED
    BY <1>4, <2>2, <2>3, ActsOf DEF Decide, Levels
<1> QED
  BY <1>1, <1>2, <1>3, <1>4

\* What the handlers leave alone while they go on.
Elsewhere == UNCHANGED <<mode, turn, task, phase, drain>>

\* Apart from its start and from what mark_task_failed does, a handler's step
\* goes on within the handler and speaks at most once.
LEMMA HandlerActs ==
    ASSUME Shapes, NEW d \in Drifts, Handler(d), ~Observe(d), ~Kill(d), ~SpawnFailure(d)
    PROVE  Acts(d) /\ Elsewhere
<1> USE DEF Places, Levels
<1> DEFINE Goal == Acts(d) /\ Elsewhere
<1>1. ASSUME Arrive(d) PROVE Goal
  <2>1. \E level \in Levels : GotoAs(d, "emitting", level)
    BY <1>1 DEF Arrive
  <2>2. h[d].pc \notin {"none", "settling", "done"} /\ SaysNothing /\ Elsewhere
    BY <1>1, SameEntry DEF Arrive, SaysNothing, Elsewhere, mode
  <2> QED
    BY <2>1, <2>2, GotoAsMoves DEF Acts, Speaks
<1>2. ASSUME Detected(d) PROVE Goal
  <2>1. h[d].pc = "emitting" /\ Elsewhere
    BY <1>2 DEF Detected, quiet, Elsewhere
  <2>2. CASE KindOf(d) \in UserAuthored \ {"user_pause"}
    <3>a. entry' = [k \in Keys |-> IF Resolvable(k)
                                  THEN [entry[k] EXCEPT !.outcome = "user_intervened"]
                                  ELSE entry[k]]
      BY <1>2, <2>2 DEF Detected, ResolvedAs
    <3>1. SameDeliveries
      BY <3>a DEF Shapes, Entries, Results, SameDeliveries
    <3>2. Goto(d, "cancelling") /\ UNCHANGED <<notes, hist>>
      BY <1>2, <2>2 DEF Detected
    <3> QED
      BY <2>1, <3>1, <3>2, GotoMoves DEF Acts, Speaks, SaysNothing
  <2>3. CASE ~(KindOf(d) \in UserAuthored \ {"user_pause"}) /\ RequestsCancel(d)
    <3>1. Await(d, "cancelling", h[d].level) /\ h[d].level \in Levels
      BY <1>2, <2>3 DEF Detected, Shapes, Frames
    <3> QED
      BY <2>1, <3>1, ActsOf
  <2>4. CASE ~(KindOf(d) \in UserAuthored \ {"user_pause"}) /\ ~RequestsCancel(d)
    BY <1>2, <2>1, <2>4, DecisionsAct DEF Detected
  <2> QED
    BY <2>2, <2>3, <2>4
<1>3. ASSUME CancelRequested(d) PROVE Goal
  BY <1>3, DecisionsAct DEF CancelRequested, quiet, Elsewhere
<1>4. ASSUME Climb(d) PROVE Goal
  <2>1. h[d].pc = "ladder" /\ Elsewhere
    BY <1>4 DEF Climb, quiet, Elsewhere
  <2>2. Paced(d, Pacing(d), RouteNote(d, "nudge")) => Acts(d)
    BY <2>1, ActsOf DEF Paced
  <2> QED
    BY <1>4, <2>1, <2>2, ActsOf, DecisionsAct DEF Climb
<1>5. ASSUME RefineInstalls(d) PROVE Goal
  <2>1. SaysNothing /\ Elsewhere
    BY <1>5, SameEntry DEF RefineInstalls, SaysNothing, Elsewhere, quiet
  <2>2. h[d].pc = "refining" /\ Goto(d, "revising")
    BY <1>5 DEF RefineInstalls
  <2> QED
    BY <2>1, <2>2, GotoMoves DEF Acts, Speaks
<1>6. ASSUME RefineFails(d) PROVE Goal
  <2>1. SaysNothing /\ Elsewhere
    BY <1>6, SameEntry DEF RefineFails, SaysNothing, Elsewhere, mode
  <2>2. h[d].pc = "refining" /\ GotoAs(d, "failing", "failed")
    BY <1>6 DEF RefineFails
  <2> QED
    BY <2>1, <2>2, GotoAsMoves DEF Acts, Speaks
<1>7. ASSUME RefineUnusable(d) \/ RefineDeclined(d) PROVE Goal
  BY <1>7, ActsOf DEF RefineUnusable, RefineDeclined, quiet, Elsewhere
<1>8. ASSUME Revised(d) PROVE Goal
  <2>1. h[d].pc = "revising" /\ Elsewhere
    BY <1>8 DEF Revised, quiet, Elsewhere
  <2>2. ASSUME Delivered(d, "steer_control"), Goto(d, "done"),
               hist' = [hist EXCEPT !.late = LateDelivery(d)], UNCHANGED notes
        PROVE  Acts(d)
    <3>1. Sends(d)
      BY <2>2 DEF Sends, Channels
    <3> QED
      BY <2>1, <2>2, <3>1, GotoMoves DEF Acts, Speaks
  <2> QED
    BY <1>8, <2>1, <2>2, ActsOf DEF Revised
<1>9. ASSUME RecordFailure(d) PROVE Goal
  <2>1. h[d].pc = "failing" /\ h[d].level \in Levels /\ Elsewhere
    BY <1>9 DEF RecordFailure, quiet, Elsewhere, Shapes, Frames
  <2>2. AfterFailure(d) \/ Await(d, "killing", h[d].level)
    BY <1>9 DEF RecordFailure
  <2> QED
    BY <2>1, <2>2, ActsOf, DecisionsAct
<1>10. ASSUME RepeatedAnnounced(d) PROVE Goal
  BY <1>10, DecisionsAct DEF RepeatedAnnounced, quiet, Elsewhere
<1>11. ASSUME PauseAnnounced(d) PROVE Goal
  <2>1. SameDeliveries
    BY <1>11 DEF PauseAnnounced, ResolvedAs, Shapes, Entries, Results, SameDeliveries
  <2>2. h[d].pc = "pausing" /\ Goto(d, "escalating") /\ UNCHANGED <<notes, hist>> /\ Elsewhere
    BY <1>11 DEF PauseAnnounced, quiet, Elsewhere
  <2> QED
    BY <2>1, <2>2, GotoMoves DEF Acts, Speaks, SaysNothing
<1>12. ASSUME Escalated(d) PROVE Goal
  <2>1. SaysNothing /\ Elsewhere
    BY <1>12, SameEntry DEF Escalated, SaysNothing, Elsewhere, quiet
  <2>2. h[d].pc = "escalating" /\ Goto(d, "done")
    BY <1>12 DEF Escalated
  <2> QED
    BY <2>1, <2>2, GotoMoves DEF Acts, Speaks
<1> QED
  BY <1>1, <1>2, <1>3, <1>4, <1>5, <1>6, <1>7, <1>8, <1>9, <1>10, <1>11, <1>12 DEF Handler

-----------------------------------------------------------------------------
(***************************************************************************)
(* The queue.                                                              *)
(***************************************************************************)

\* Pruning marks delivered notes and touches no other.
LEMMA PrunedNotes ==
    ASSUME NEW q \in Seq(Notes)
    PROVE  /\ Pruned(q) \in Seq(Notes)
           /\ Dropped(q) \subseteq Taken(q)
           /\ Taken(Pruned(q)) = Taken(q) \ Dropped(q)
           /\ \A i \in Taken(Pruned(q)) : Pruned(q)[i] = q[i]
<1>1. Dropped(q) \subseteq Taken(q) /\ Taken(q) \subseteq DOMAIN q
  BY DEF Dropped, Taken
<1>2. DOMAIN Pruned(q) = DOMAIN q
  BY DEF Pruned
<1>3. \A i \in DOMAIN q \ Dropped(q) : Pruned(q)[i] = q[i]
  BY DEF Pruned
<1>4. \A i \in Dropped(q) : Pruned(q)[i] \in Notes /\ Pruned(q)[i].state = "pruned"
  <2> SUFFICES ASSUME NEW i \in Dropped(q)
               PROVE  Pruned(q)[i] \in Notes /\ Pruned(q)[i].state = "pruned"
    OBVIOUS
  <2>1. i \in DOMAIN q /\ q[i] \in Notes
    BY <1>1
  <2>2. Pruned(q)[i] = [q[i] EXCEPT !.state = "pruned"]
    BY <2>1 DEF Pruned
  <2> QED
    BY <2>1, <2>2 DEF Notes
<1>5. Pruned(q) \in Seq(Notes)
  <2>1. DOMAIN q = 1 .. Len(q) /\ Len(q) \in Nat /\ \A i \in DOMAIN q : q[i] \in Notes
    OBVIOUS
  <2>2. \A i \in DOMAIN q : Pruned(q)[i] \in Notes
    BY <1>3, <1>4, <2>1
  <2>3. Pruned(q) = [i \in DOMAIN q |-> Pruned(q)[i]]
    BY DEF Pruned
  <2> HIDE DEF Pruned
  <2>4. [i \in 1 .. Len(q) |-> Pruned(q)[i]] \in Seq(Notes)
    BY <2>1, <2>2
  <2> QED
    BY <2>1, <2>3, <2>4
<1>6. Taken(Pruned(q)) = Taken(q) \ Dropped(q)
  <2>1. \A i \in DOMAIN q : i \in Taken(Pruned(q)) <=> i \in Taken(q) \ Dropped(q)
    BY <1>2, <1>3, <1>4 DEF Taken
  <2>2. Taken(Pruned(q)) \subseteq DOMAIN q
    BY <1>2 DEF Taken
  <2> QED
    BY <1>1, <2>1, <2>2
<1> QED
  BY <1>1, <1>3, <1>5, <1>6

\* A note that is queued is a pending one, behind the others.
LEMMA QueuedNotes ==
    ASSUME Shapes, NEW d \in Drifts, NEW level \in Levels
    PROVE  /\ Queued(d, level) \in Seq(Notes)
           /\ Taken(Queued(d, level)) = Taken(notes)
           /\ \A i \in Taken(notes) : Queued(d, level)[i] = notes[i]
<1> DEFINE n == [drift |-> d, key |-> KeyOf(d), severity |-> SeverityOf(d), turn |-> turn,
                 level |-> level, state |-> "pending", at |-> -1]
<1>1. n \in Notes /\ n.state = "pending"
  BY SignalAssumption DEF Notes, Keys, Shapes
<1>2. Queued(d, level) = notes \/ Queued(d, level) = Append(notes, n)
  BY DEF Queued
<1> HIDE DEF n
<1>3. notes \in Seq(Notes)
  BY DEF Shapes
<1>4. /\ Append(notes, n) \in Seq(Notes)
      /\ DOMAIN Append(notes, n) = DOMAIN notes \cup {Len(notes) + 1}
      /\ \A i \in DOMAIN notes : Append(notes, n)[i] = notes[i]
      /\ Append(notes, n)[Len(notes) + 1] = n
      /\ Len(notes) + 1 \notin DOMAIN notes
  BY <1>1, <1>3
<1>5. Taken(Append(notes, n)) = Taken(notes)
  BY <1>1, <1>4 DEF Taken
<1>6. Taken(notes) \subseteq DOMAIN notes
  BY DEF Taken
<1> QED
  BY <1>2, <1>3, <1>4, <1>5, <1>6

\* The notes D leave the queue, and are remembered as forgotten.
Forgets(D) ==
    /\ D \subseteq Taken(notes) /\ Taken(notes') = Taken(notes) \ D
    /\ \A i \in Taken(notes') : notes'[i] = notes[i]
    /\ hist'.forgotten = hist.forgotten \cup {notes[i].key : i \in D}

\* What routing a note does to the queue.
LEMMA QueuesForgets ==
    ASSUME Shapes, NEW d \in Drifts, Queues(d)
    PROVE  /\ notes' \in Seq(Notes)
           /\ \E D \in SUBSET Taken(notes) : Forgets(D)
           /\ hist' \in Histories
           /\ hist'.late = LateDelivery(d)
           /\ hist'.shown = hist.shown /\ hist'.taken = hist.taken
           /\ hist'.wronged = hist.wronged
<1>1. PICK level \in Levels :
         /\ notes' = Pruned(Queued(d, level))
         /\ hist' = [hist EXCEPT !.late = LateDelivery(d),
                                 !.forgotten = @ \cup {Queued(d, level)[i].key :
                                                         i \in Dropped(Queued(d, level))}]
  BY DEF Queues
<1> DEFINE q == Queued(d, level)
           D == Dropped(q)
<1>2. q \in Seq(Notes) /\ Taken(q) = Taken(notes) /\ \A i \in Taken(notes) : q[i] = notes[i]
  BY QueuedNotes
<1>3. /\ Pruned(q) \in Seq(Notes) /\ D \subseteq Taken(q)
      /\ Taken(Pruned(q)) = Taken(q) \ D /\ \A i \in Taken(Pruned(q)) : Pruned(q)[i] = q[i]
  BY <1>2, PrunedNotes
<1>4. {q[i].key : i \in D} = {notes[i].key : i \in D}
  BY <1>2, <1>3
<1>5. {notes[i].key : i \in D} \subseteq Keys
  <2>1. Taken(notes) \subseteq DOMAIN notes
    BY DEF Taken
  <2>2. \A i \in Taken(notes) : notes[i] \in Notes
    BY <2>1 DEF Shapes
  <2>3. \A i \in Taken(notes) : notes[i].key \in Keys
    BY <2>2 DEF Notes
  <2> QED
    BY <1>2, <1>3, <2>3
<1>6. LateDelivery(d) \in SUBSET Drifts
  BY DEF LateDelivery, Shapes, Histories
<1>7. hist' = [hist EXCEPT !.late = LateDelivery(d),
                           !.forgotten = @ \cup {notes[i].key : i \in D}]
  BY <1>1, <1>4
<1> HIDE DEF q, D
<1>8. /\ hist' \in Histories
      /\ hist'.late = LateDelivery(d)
      /\ hist'.shown = hist.shown /\ hist'.taken = hist.taken
      /\ hist'.wronged = hist.wronged
      /\ hist'.forgotten = hist.forgotten \cup {notes[i].key : i \in D}
  BY <1>5, <1>6, <1>7 DEF Shapes, Histories
<1>9. notes' = Pruned(q)
  BY <1>1 DEF q
<1>10. Forgets(D)
  BY <1>2, <1>3, <1>8, <1>9 DEF Forgets
<1> QED
  BY <1>2, <1>3, <1>8, <1>9, <1>10

\* What taking a note does to the queue.
LEMMA ConsumeTakes ==
    ASSUME Shapes, NEW kinds, Consume(kinds)
    PROVE  \E i \in DOMAIN notes : \E s \in {"shown", "dry"} :
             /\ notes[i].state = "pending"
             /\ notes' = [notes EXCEPT ![i] = [notes[i] EXCEPT !.state = s, !.at = turn]]
             /\ hist' = [hist EXCEPT !.taken = [@ EXCEPT ![notes[i].key] = turn],
                                     !.shown = IF s = "shown" THEN @ \cup {notes[i].key}
                                               ELSE @]
<1>1. PICK i \in Best(kinds) :
         /\ notes' = [notes EXCEPT ![i].state = IF active THEN "shown" ELSE "dry",
                                   ![i].at = turn]
         /\ hist' = [hist EXCEPT !.taken[notes[i].key] = turn,
                                 !.shown = IF active THEN @ \cup {notes[i].key} ELSE @]
  BY DEF Consume
<1>2. i \in DOMAIN notes /\ notes[i].state = "pending"
  BY DEF Best, Pending
<1>3. PICK s : s = IF active THEN "shown" ELSE "dry"
  OBVIOUS
<1>4. s \in {"shown", "dry"} /\ (s = "shown" <=> active)
  BY <1>3
<1>5. hist' = [hist EXCEPT !.taken = [@ EXCEPT ![notes[i].key] = turn],
                           !.shown = IF s = "shown" THEN @ \cup {notes[i].key} ELSE @]
  BY <1>1, <1>4
<1>6. notes' = [notes EXCEPT ![i] = [notes[i] EXCEPT !.state = s, !.at = turn]]
  BY <1>1, <1>2, <1>3 DEF Shapes, Notes
<1> QED
  BY <1>2, <1>4, <1>5, <1>6

-----------------------------------------------------------------------------
(***************************************************************************)
(* What every step keeps.                                                  *)
(***************************************************************************)

\* A delivery is added to the entry of its key.
LEMMA DeliveredEntry ==
    ASSUME Shapes, NEW d \in Drifts, NEW c \in Channels, Delivered(d, c)
    PROVE  /\ entry' \in [Keys -> Entries]
           /\ \A k \in Keys : \A x \in entry'[k].deliveries :
                 x \in entry[k].deliveries \/ x = <<d, c>>
<1>1. KeyOf(d) \in Keys
  BY DEF Keys
<1> DEFINE e == [entry[KeyOf(d)] EXCEPT !.deliveries = @ \cup {<<d, c>>}]
<1>2. e \in Entries /\ e.deliveries = entry[KeyOf(d)].deliveries \cup {<<d, c>>}
  BY <1>1 DEF Shapes, Entries
<1>3. entry' = [entry EXCEPT ![KeyOf(d)] = e]
  BY DEF Delivered
<1> HIDE DEF e
<1> QED
  BY <1>1, <1>2, <1>3 DEF Shapes

\* Whatever a handler says, the ledger and the queue keep their shapes, and no
\* delivery of another drift is added.
LEMMA SpeaksShapes ==
    ASSUME Shapes, NEW d \in Drifts, Speaks(d)
    PROVE  /\ notes' \in Seq(Notes) /\ entry' \in [Keys -> Entries] /\ hist' \in Histories
           /\ \A k \in Keys : \A x \in entry'[k].deliveries :
                 x \in entry[k].deliveries \/ x[1] = d
<1>1. CASE SaysNothing
  BY <1>1 DEF SaysNothing, SameDeliveries, Shapes
<1>2. CASE Sends(d)
  <2>1. PICK c \in Channels : Delivered(d, c)
    BY <1>2 DEF Sends
  <2>2. hist' \in Histories
    <3>1. hist \in Histories
      BY DEF Shapes
    <3>2. LateDelivery(d) \in SUBSET Drifts
      BY <3>1 DEF LateDelivery, Histories
    <3>3. hist' = [hist EXCEPT !.late = LateDelivery(d)]
      BY <1>2 DEF Sends
    <3>. QED BY <3>1, <3>2, <3>3 DEF Histories
  <2>3. notes' \in Seq(Notes)
    BY <1>2 DEF Sends, Shapes
  <2> QED
    BY <2>1, <2>2, <2>3, DeliveredEntry
<1>3. CASE Queues(d)
  <2>1. Delivered(d, "request_context") /\ "request_context" \in Channels
    BY <1>3 DEF Queues, Channels
  <2> QED
    BY <1>3, <2>1, QueuesForgets, DeliveredEntry
<1> QED
  BY <1>1, <1>2, <1>3 DEF Speaks

\* The steps that are not a handler's.
Others ==
    \/ \E t \in Tasks : FinishTask(t) \/ RecordOutcomes(t)
    \/ \E kinds : Consume(kinds)
    \/ Tick \/ EndRun \/ DrainTimesOut \/ Finalize

\* Every step is one of these.
LEMMA Steps ==
    ASSUME Shapes, Next
    PROVE  \/ \E d \in Drifts : Acts(d) /\ Elsewhere
           \/ \E d \in Drifts : Observe(d) \/ Kill(d) \/ SpawnFailure(d)
           \/ Others
<1>1. ASSUME NEW d \in Drifts, Handler(d)
      PROVE  (Acts(d) /\ Elsewhere) \/ Observe(d) \/ Kill(d) \/ SpawnFailure(d)
  BY <1>1, HandlerActs
<1>2. RenderInRequest \/ RenderOnToolResult => \E kinds : Consume(kinds)
  BY DEF RenderInRequest, RenderOnToolResult
<1> QED
  BY <1>1, <1>2 DEF Next, Others

\* Going on keeps the frames.
LEMMA MovesFrames ==
    ASSUME Shapes, NEW d \in Drifts, Moves(d)
    PROVE  /\ h' \in [Drifts -> Frames]
           /\ \A e \in Drifts \ {d} : h'[e] = h[e]
           /\ h'[d].pc \notin {"none", "settling"}
           /\ h[d].pc \notin {"none", "settling", "done"}
BY DEF Moves, Shapes

\* Steps keep the shapes.
LEMMA ShapesStep ==
    ASSUME Shapes, Next
    PROVE  Shapes'
<1>1. ASSUME NEW d \in Drifts, Acts(d), Elsewhere PROVE Shapes'
  BY <1>1, SpeaksShapes, MovesFrames DEF Acts, Elsewhere, Shapes
<1>2. ASSUME NEW d \in Drifts, Observe(d) PROVE Shapes'
  BY <1>2 DEF Observe, Goto, quiet, Shapes, Frames, Places
<1>3. ASSUME NEW d \in Drifts, Kill(d) PROVE Shapes'
  <2>1. h' \in [Drifts -> Frames]
    BY <1>3 DEF Kill, Fate, Goto, Shapes, Frames, Places
  <2>2. task' \in [Tasks -> {"live", "finished", "failed", "settled"}]
    BY <1>3 DEF Kill, Shapes
  <2> QED
    BY <1>3, <2>1, <2>2 DEF Kill, Shapes
<1>4. ASSUME NEW d \in Drifts, SpawnFailure(d) PROVE Shapes'
  BY <1>4 DEF SpawnFailure, Fate, Shapes, Frames, Places
<1>5. ASSUME NEW t \in Tasks, FinishTask(t) PROVE Shapes'
  BY <1>5 DEF FinishTask, Shapes
<1>6. ASSUME NEW t \in Tasks, RecordOutcomes(t) PROVE Shapes'
  <2>1. entry' \in [Keys -> Entries]
    BY <1>6 DEF RecordOutcomes, ResolvedAs, Shapes, Entries, Results
  <2>2. hist' \in Histories
    BY <1>6 DEF RecordOutcomes, TaskKeys, Shapes, Histories
  <2> QED
    BY <1>6, <2>1, <2>2 DEF RecordOutcomes, Shapes
<1>7. ASSUME NEW kinds, Consume(kinds) PROVE Shapes'
  <2>1. PICK i \in DOMAIN notes : \E s \in {"shown", "dry"} :
             /\ notes' = [notes EXCEPT ![i] = [notes[i] EXCEPT !.state = s, !.at = turn]]
             /\ hist' = [hist EXCEPT !.taken = [@ EXCEPT ![notes[i].key] = turn],
                                     !.shown = IF s = "shown" THEN @ \cup {notes[i].key}
                                               ELSE @]
    BY <1>7, ConsumeTakes
  <2>2. PICK s \in {"shown", "dry"} :
             /\ notes' = [notes EXCEPT ![i] = [notes[i] EXCEPT !.state = s, !.at = turn]]
             /\ hist' = [hist EXCEPT !.taken = [@ EXCEPT ![notes[i].key] = turn],
                                     !.shown = IF s = "shown" THEN @ \cup {notes[i].key}
                                               ELSE @]
    BY <2>1
  <2>3. notes[i] \in Notes /\ turn \in Int
    BY DEF Shapes
  <2>4. [notes[i] EXCEPT !.state = s, !.at = turn] \in Notes /\ notes[i].key \in Keys
    BY <2>3 DEF Notes
  <2>5. notes' \in Seq(Notes)
    BY <2>2, <2>4 DEF Shapes
  <2>6. hist' \in Histories
    BY <2>2, <2>3, <2>4 DEF Shapes, Histories
  <2> QED
    BY <1>7, <2>5, <2>6 DEF Consume, Shapes
<1>8. ASSUME Tick PROVE Shapes'
  BY <1>8 DEF Tick, Shapes
<1>9. ASSUME EndRun PROVE Shapes'
  BY <1>9 DEF EndRun, AtWork, Shapes
<1>10. ASSUME DrainTimesOut PROVE Shapes'
  BY <1>10 DEF DrainTimesOut, Shapes, Frames, Places
<1>11. ASSUME Finalize PROVE Shapes'
  BY <1>11 DEF Finalize, FinalizeAll, ResolvedAs, Shapes, Entries, Results
<1> QED
  BY <1>1, <1>2, <1>3, <1>4, <1>5, <1>6, <1>7, <1>8, <1>9, <1>10, <1>11, Steps DEF Others

\* A step in which no handler is started or begins to settle, and no task comes
\* back to life.
LEMMA SameFailures ==
    ASSUME Shapes, FailsOnce,
           \A e \in Drifts : /\ h[e].pc = "none" <=> h'[e].pc = "none"
                             /\ h'[e].pc = "settling" => h[e].pc = "settling",
           \A t \in Tasks : task'[t] = "live" => task[t] = "live"
    PROVE  FailsOnce'
BY DEF FailsOnce

\* Tasks fail once, and their failures are handled once.
LEMMA FailsOnceStep ==
    ASSUME Shapes, FailsOnce, Drained, Next
    PROVE  FailsOnce'
<1>1. ASSUME NEW d \in Drifts, Acts(d), Elsewhere PROVE FailsOnce'
  <2>1. \A e \in Drifts : /\ h[e].pc = "none" <=> h'[e].pc = "none"
                          /\ h'[e].pc = "settling" => h[e].pc = "settling"
    BY <1>1, MovesFrames DEF Acts
  <2> QED
    BY <1>1, <2>1, SameFailures DEF Elsewhere
<1>2. ASSUME NEW d \in Drifts, Observe(d) PROVE FailsOnce'
  <2>1. /\ h[d].pc = "none" /\ h'[d].pc = "spawned" /\ \A e \in Drifts \ {d} : h'[e] = h[e]
        /\ task' = task
    BY <1>2 DEF Observe, Goto, quiet, Shapes, Frames
  <2>2. \A t \in Tasks : FailureOf(t) # d
    BY <1>2 DEF Observe, Failures
  <2> QED
    BY <2>1, <2>2 DEF FailsOnce
<1>3. ASSUME NEW d \in Drifts, Kill(d) PROVE FailsOnce'
  <2>1. h[d].pc = "killing" /\ \A e \in Drifts \ {d} : h'[e] = h[e]
    BY <1>3 DEF Kill, Goto, Shapes
  <2>2. CASE TaskOf(d) \in Tasks /\ task[TaskOf(d)] = "live"
    <3>1. h'[d].pc = "settling" /\ task' = [task EXCEPT ![TaskOf(d)] = "failed"]
      BY <1>3, <2>2 DEF Kill, Goto, Shapes, Frames
    <3>2. \A t \in Tasks : task'[t] = IF t = TaskOf(d) THEN "failed" ELSE task[t]
      BY <3>1 DEF Shapes
    <3>3. FailureOf(TaskOf(d)) \in Drifts =>
             FailureOf(TaskOf(d)) # d /\ h[FailureOf(TaskOf(d))].pc = "none"
      BY <2>1, <2>2 DEF FailsOnce
    <3>4. \A e \in Drifts : h[e].pc = "settling" => TaskOf(e) # TaskOf(d)
      BY <2>2 DEF FailsOnce
    <3>5. \A t \in Tasks : FailureOf(t) \in Drifts =>
             (h'[FailureOf(t)].pc = "none" <=> h[FailureOf(t)].pc = "none")
      BY <2>1, <3>1
    <3>6. \A x \in Drifts : h'[x].pc = "settling" <=> h[x].pc = "settling" \/ x = d
      BY <2>1, <3>1
    <3> QED
      BY <2>1, <2>2, <3>2, <3>3, <3>4, <3>5, <3>6 DEF FailsOnce
  <2>3. CASE ~(TaskOf(d) \in Tasks /\ task[TaskOf(d)] = "live")
    <3>1. h'[d].pc \in {"done", "repeating"} /\ task' = task
      BY <1>3, <2>3 DEF Kill, Fate, Goto, Shapes, Frames
    <3> QED
      BY <2>1, <3>1, SameFailures
  <2> QED
    BY <2>2, <2>3
<1>4. ASSUME NEW d \in Drifts, SpawnFailure(d) PROVE FailsOnce'
  <2> DEFINE x == FailureOf(TaskOf(d))
  <2>1. h[d].pc = "settling" /\ task' = task
    BY <1>4 DEF SpawnFailure
  <2>2. TaskOf(d) \in Tasks /\ task[TaskOf(d)] # "live" /\ (x \in Drifts => h[x].pc = "none")
    BY <2>1 DEF FailsOnce
  <2>3. /\ h'[d].pc \in {"done", "repeating"}
        /\ \A e \in Drifts \ {d, x} : h'[e] = h[e]
        /\ x \in Drifts => h'[x].pc = "spawned"
    BY <1>4, <2>1, <2>2 DEF SpawnFailure, Fate, Shapes, Frames
  <2>4. \A t \in Tasks : FailureOf(t) = x /\ x \in Drifts => t = TaskOf(d)
    BY <2>2, SignalAssumption
  <2> HIDE DEF x
  <2>5. \A e \in Drifts : h'[e].pc = "settling" =>
           e # d /\ h[e].pc = "settling" /\ TaskOf(e) # TaskOf(d)
    BY <2>1, <2>3 DEF FailsOnce
  <2>6. \A e \in Drifts : h'[e].pc = "settling" =>
           /\ TaskOf(e) \in Tasks /\ task[TaskOf(e)] # "live"
           /\ FailureOf(TaskOf(e)) \in Drifts => h'[FailureOf(TaskOf(e))].pc = "none"
    BY <2>1, <2>3, <2>4, <2>5 DEF FailsOnce
  <2>7. \A t \in Tasks : FailureOf(t) \in Drifts /\ h'[FailureOf(t)].pc # "none" =>
           task[t] # "live"
    BY <2>1, <2>2, <2>3, <2>4 DEF FailsOnce
  <2> QED
    BY <2>1, <2>5, <2>6, <2>7 DEF FailsOnce
<1>5. ASSUME Others PROVE FailsOnce'
  <2>1. CASE DrainTimesOut
    <3>1. /\ \A e \in Drifts : h'[e].pc = IF e \in drain THEN "done" ELSE h[e].pc
          /\ task' = task
      BY <2>1 DEF DrainTimesOut, Shapes, Frames
    <3> QED
      BY <3>1, SameFailures DEF Drained
  <2>2. CASE ~DrainTimesOut
    <3>1. h' = h
      BY <1>5, <2>2 DEF Others, FinishTask, RecordOutcomes, Consume, Tick, EndRun, Finalize
    <3>2. \A t \in Tasks : task'[t] = "live" => task[t] = "live"
      BY <1>5, <2>2 DEF Others, FinishTask, RecordOutcomes, Consume, Tick, EndRun, Finalize,
                        Shapes
    <3> QED
      BY <3>1, <3>2, SameFailures
  <2> QED
    BY <2>1, <2>2
<1> QED
  BY <1>1, <1>2, <1>3, <1>4, <1>5, Steps

\* The handlers the drain waits for stay done, and what is late is no business
\* of theirs.
LEMMA DrainedStep ==
    ASSUME Shapes, FailsOnce, Drained, Next
    PROVE  Drained'
<1>1. ASSUME NEW d \in Drifts, Acts(d), Elsewhere PROVE Drained'
  <2>1. /\ \A e \in Drifts \ {d} : h'[e] = h[e]
        /\ h[d].pc # "done" /\ h'[d].pc # "none"
    BY <1>1, MovesFrames DEF Acts
  <2>2. hist'.late \in {hist.late, LateDelivery(d)}
    BY <1>1, QueuesForgets DEF Acts, Speaks, SaysNothing, Sends, Shapes, Histories
  <2>3. phase' = phase /\ drain' = drain
    BY <1>1 DEF Elsewhere
  <2> QED
    BY <2>1, <2>2, <2>3 DEF Drained, DrainedBeforeFinalize, LateDelivery, Shapes
<1>2. ASSUME NEW d \in Drifts, Observe(d) PROVE Drained'
  <2>1. /\ \A e \in Drifts \ {d} : h'[e] = h[e]
        /\ h'[d].pc = "spawned" /\ h[d].pc = "none"
        /\ phase' = phase /\ drain' = drain /\ hist' = hist
    BY <1>2 DEF Observe, Goto, quiet, Shapes, Frames
  <2> QED
    BY <2>1 DEF Drained, DrainedBeforeFinalize, Shapes
<1>3. ASSUME NEW d \in Drifts, Kill(d) PROVE Drained'
  <2>1. /\ \A e \in Drifts \ {d} : h'[e] = h[e]
        /\ h'[d].pc # "none" /\ h[d].pc = "killing"
        /\ phase' = phase /\ drain' = drain /\ hist' = hist
    BY <1>3 DEF Kill, Fate, Goto, Shapes, Frames
  <2> QED
    BY <2>1 DEF Drained, DrainedBeforeFinalize, Shapes
<1>4. ASSUME NEW d \in Drifts, SpawnFailure(d) PROVE Drained'
  <2> DEFINE x == FailureOf(TaskOf(d))
  <2>1. /\ \A e \in Drifts \ {d, x} : h'[e] = h[e]
        /\ h'[d].pc # "none" /\ h[d].pc = "settling"
        /\ phase' = phase /\ drain' = drain /\ hist' = hist
    BY <1>4 DEF SpawnFailure, Fate, Shapes, Frames
  <2>2. x \in Drifts => h[x].pc = "none"
    BY <2>1 DEF FailsOnce
  <2> HIDE DEF x
  <2> QED
    BY <2>1, <2>2 DEF Drained, DrainedBeforeFinalize, Shapes
<1>5. ASSUME Others PROVE Drained'
  <2>1. CASE DrainTimesOut
    <3>1. /\ \A e \in Drifts : h'[e].pc = IF e \in drain THEN "done" ELSE h[e].pc
          /\ phase' = phase /\ phase # "over" /\ drain' = drain /\ hist' = hist
      BY <2>1 DEF DrainTimesOut, Shapes, Frames
    <3> QED
      BY <3>1 DEF Drained, DrainedBeforeFinalize, Shapes
  <2>2. CASE EndRun
    BY <2>2 DEF EndRun, AtWork, Drained, DrainedBeforeFinalize
  <2>3. CASE Finalize
    BY <2>3 DEF Finalize, AtWork, Drained, DrainedBeforeFinalize, Shapes
  <2>4. CASE Tick \/ \E t \in Tasks : FinishTask(t)
    BY <2>4 DEF Tick, FinishTask, Drained, DrainedBeforeFinalize
  <2>5. CASE \E t \in Tasks : RecordOutcomes(t)
    <3>1. hist'.late = hist.late /\ UNCHANGED <<h, phase, drain>>
      BY <2>5 DEF RecordOutcomes, Shapes, Histories
    <3> QED
      BY <3>1 DEF Drained, DrainedBeforeFinalize
  <2>6. CASE \E kinds : Consume(kinds)
    <3>1. hist'.late = hist.late
      BY <2>6, ConsumeTakes DEF Shapes, Histories
    <3>2. UNCHANGED <<h, phase, drain>>
      BY <2>6 DEF Consume
    <3> QED
      BY <3>1, <3>2 DEF Drained, DrainedBeforeFinalize
  <2> QED
    BY <1>5, <2>1, <2>2, <2>3, <2>4, <2>5, <2>6 DEF Others
<1> QED
  BY <1>1, <1>2, <1>3, <1>4, <1>5, Steps

\* The keys of the notes that were shown and not pruned.
LEMMA RenderedOf ==
    ASSUME Shapes
    PROVE  /\ RenderedKeys = {notes[i].key : i \in {j \in Taken(notes) : notes[j].state = "shown"}}
           /\ \A i \in Taken(notes) : notes[i].key \in Keys
<1>1. {j \in DOMAIN notes : notes[j].state = "shown"} =
         {j \in Taken(notes) : notes[j].state = "shown"}
  BY DEF Taken
<1>2. \A i \in Taken(notes) : notes[i] \in Notes
  BY DEF Taken, Shapes
<1> QED
  BY <1>1, <1>2 DEF RenderedKeys, Notes

\* A step that leaves the queue and what it has shown and pruned alone.
LEMMA SameShown ==
    ASSUME Shapes, Shown, Timed, UNCHANGED notes, hist'.shown = hist.shown,
           hist'.taken = hist.taken, hist'.forgotten = hist.forgotten,
           hist'.wronged \subseteq hist.wronged \cup hist.forgotten,
           turn' \in Nat, turn' >= turn
    PROVE  Shown' /\ Timed'
<1>1. Taken(notes') = Taken(notes) /\ RenderedKeys' = RenderedKeys
  BY DEF RenderedKeys
<1>2. Shown'
  BY <1>1 DEF Shown, AttributionIsTrue
<1>3. \A k \in Keys : hist.taken[k] \in Int /\ turn \in Nat
  BY DEF Shapes, Histories
<1>4. \A k \in Keys : hist.taken[k] <= turn'
  BY <1>3 DEF Timed
<1>5. Timed'
  BY <1>1, <1>4 DEF Timed
<1> QED
  BY <1>2, <1>5

\* Pruning forgets what it drops.
LEMMA ForgetsShown ==
    ASSUME Shapes, Shapes', Shown, Timed, NEW D \in SUBSET Taken(notes), Forgets(D),
           hist'.shown = hist.shown, hist'.taken = hist.taken, hist'.wronged = hist.wronged,
           turn' = turn
    PROVE  Shown' /\ Timed'
<1> DEFINE R == {notes[i].key : i \in {j \in Taken(notes) : notes[j].state = "shown"}}
           N == {notes'[i].key : i \in {j \in Taken(notes') : notes'[j].state = "shown"}}
           F == {notes[i].key : i \in D}
<1>1. RenderedKeys = R /\ RenderedKeys' = N
  BY RenderedOf DEF RenderedKeys, Taken
<1>2. /\ Taken(notes') = Taken(notes) \ D
      /\ \A i \in Taken(notes') : notes'[i] = notes[i]
      /\ hist'.forgotten = hist.forgotten \cup F
  BY DEF Forgets
<1>3. N \subseteq R /\ R \subseteq N \cup F
  BY <1>2
<1>4. Shown'
  <2> HIDE DEF R, N, F
  <2> QED
    BY <1>1, <1>2, <1>3 DEF Shown, AttributionIsTrue
<1>5. \A i \in Taken(notes') : notes'[i].at <= hist.taken[notes'[i].key]
  BY <1>2 DEF Timed
<1>6. ASSUME NEW k \in Keys \ hist'.forgotten, hist.taken[k] >= 0
      PROVE  \E i \in Taken(notes') : notes'[i].key = k /\ notes'[i].at = hist.taken[k]
  <2>1. k \notin hist.forgotten /\ k \notin F
    BY <1>2
  <2>2. PICK i \in Taken(notes) : notes[i].key = k /\ notes[i].at = hist.taken[k]
    BY <1>6, <2>1 DEF Timed
  <2>3. i \notin D
    BY <2>1, <2>2
  <2> QED
    BY <1>2, <2>2, <2>3
<1>7. Timed'
  BY <1>5, <1>6 DEF Timed
<1> QED
  BY <1>4, <1>7

\* A note that is taken is shown, or only consumed, at the present turn.
LEMMA ConsumeShown ==
    ASSUME Shapes, Shown, Timed, NEW kinds, Consume(kinds)
    PROVE  Shown' /\ Timed'
<1>1. PICK i \in DOMAIN notes : \E s \in {"shown", "dry"} :
           /\ notes[i].state = "pending"
           /\ notes' = [notes EXCEPT ![i] = [notes[i] EXCEPT !.state = s, !.at = turn]]
           /\ hist' = [hist EXCEPT !.taken = [@ EXCEPT ![notes[i].key] = turn],
                                   !.shown = IF s = "shown" THEN @ \cup {notes[i].key} ELSE @]
  BY ConsumeTakes
<1>2. PICK s \in {"shown", "dry"} :
           /\ notes[i].state = "pending"
           /\ notes' = [notes EXCEPT ![i] = [notes[i] EXCEPT !.state = s, !.at = turn]]
           /\ hist' = [hist EXCEPT !.taken = [@ EXCEPT ![notes[i].key] = turn],
                                   !.shown = IF s = "shown" THEN @ \cup {notes[i].key} ELSE @]
  BY <1>1
<1>3. notes[i] \in Notes
  BY DEF Shapes
<1> DEFINE key == notes[i].key
<1>4. key \in Keys
  BY <1>3 DEF Notes
<1>5. /\ notes'[i].key = key /\ notes'[i].state = s /\ notes'[i].at = turn
      /\ \A j \in DOMAIN notes \ {i} : notes'[j] = notes[j]
      /\ DOMAIN notes' = DOMAIN notes
  BY <1>2, <1>3 DEF Notes, Shapes
<1>6. /\ hist'.forgotten = hist.forgotten /\ hist'.wronged = hist.wronged
      /\ hist'.shown = IF s = "shown" THEN hist.shown \cup {key} ELSE hist.shown
      /\ \A k \in Keys : hist'.taken[k] = IF k = key THEN turn ELSE hist.taken[k]
  BY <1>2, <1>4 DEF Shapes, Histories
<1>7. i \notin Taken(notes) /\ Taken(notes') = Taken(notes) \cup {i}
  BY <1>2, <1>5 DEF Taken
<1> HIDE DEF key
<1>8. RenderedKeys' = IF s = "shown" THEN RenderedKeys \cup {key} ELSE RenderedKeys
  <2>1. \A j \in DOMAIN notes : notes'[j].state = "shown" <=>
           (j = i /\ s = "shown") \/ (j # i /\ notes[j].state = "shown")
    BY <1>5
  <2>2. notes[i].state # "shown"
    BY <1>2
  <2> QED
    BY <1>5, <2>1, <2>2 DEF RenderedKeys
<1>9. Shown'
  BY <1>6, <1>8 DEF Shown, AttributionIsTrue
<1>10. turn' = turn /\ turn \in Nat /\ \A k \in Keys : hist.taken[k] \in Int
  BY DEF Consume, Shapes, Histories
<1>11. \A k \in Keys : hist'.taken[k] <= turn'
  BY <1>6, <1>10 DEF Timed
<1>12. \A j \in Taken(notes) : j # i /\ j \in DOMAIN notes /\ notes[j].key \in Keys
                               /\ notes[j].at \in Int
  <2>1. \A j \in Taken(notes) : j # i /\ j \in DOMAIN notes /\ notes[j] \in Notes
    BY <1>7 DEF Taken, Shapes
  <2> QED
    BY <2>1 DEF Notes
<1>13. \A j \in Taken(notes') : notes'[j].at <= hist'.taken[notes'[j].key]
  <2>1. ASSUME NEW j \in Taken(notes)
        PROVE  notes'[j].at <= hist'.taken[notes'[j].key]
    <3>1. notes'[j] = notes[j] /\ notes[j].key \in Keys /\ notes[j].at \in Int
      BY <1>5, <1>12
    <3>2. notes[j].at <= hist.taken[notes[j].key] /\ hist.taken[notes[j].key] <= turn
      BY <3>1 DEF Timed
    <3> QED
      BY <1>6, <1>10, <3>1, <3>2
  <2>2. notes'[i].at <= hist'.taken[notes'[i].key]
    BY <1>4, <1>5, <1>6, <1>10
  <2> QED
    BY <1>7, <2>1, <2>2
<1>14. ASSUME NEW k \in Keys \ hist'.forgotten, hist'.taken[k] >= 0
       PROVE  \E j \in Taken(notes') : notes'[j].key = k /\ notes'[j].at = hist'.taken[k]
  <2>1. CASE k = key
    BY <1>5, <1>6, <1>7, <2>1
  <2>2. CASE k # key
    <3>1. hist'.taken[k] = hist.taken[k] /\ k \notin hist.forgotten
      BY <1>6, <2>2
    <3>2. PICK j \in Taken(notes) : notes[j].key = k /\ notes[j].at = hist.taken[k]
      BY <1>14, <3>1 DEF Timed
    <3> QED
      BY <1>5, <1>7, <1>12, <3>1, <3>2
  <2> QED
    BY <2>1, <2>2
<1>15. Timed'
  BY <1>11, <1>13, <1>14 DEF Timed
<1> QED
  BY <1>9, <1>15

\* The queue keeps track.
LEMMA ShownStep ==
    ASSUME Shapes, Shapes', Shown, Timed, Next
    PROVE  Shown' /\ Timed'
<1>1. ASSUME NEW d \in Drifts, Acts(d), Elsewhere PROVE Shown' /\ Timed'
  <2>1. turn' = turn /\ turn \in Nat
    BY <1>1 DEF Elsewhere, Shapes
  <2>2. CASE SaysNothing
    BY <2>1, <2>2, SameShown DEF SaysNothing
  <2>3. CASE Sends(d)
    <3>1. /\ hist'.shown = hist.shown /\ hist'.taken = hist.taken
          /\ hist'.forgotten = hist.forgotten /\ hist'.wronged = hist.wronged
      BY <2>3 DEF Sends, Shapes, Histories
    <3> QED
      BY <2>1, <2>3, <3>1, SameShown DEF Sends
  <2>4. CASE Queues(d)
    BY <2>1, <2>4, QueuesForgets, ForgetsShown
  <2> QED
    BY <1>1, <2>2, <2>3, <2>4 DEF Acts, Speaks
<1>2. ASSUME NEW d \in Drifts, Observe(d) \/ Kill(d) \/ SpawnFailure(d)
      PROVE  Shown' /\ Timed'
  <2>1. UNCHANGED <<notes, hist, turn>> /\ turn \in Nat
    BY <1>2 DEF Observe, Kill, SpawnFailure, quiet, Shapes
  <2> QED
    BY <2>1, SameShown
<1>3. ASSUME Tick \/ EndRun \/ DrainTimesOut \/ Finalize \/ \E t \in Tasks : FinishTask(t)
      PROVE  Shown' /\ Timed'
  <2>1. UNCHANGED <<notes, hist>> /\ turn' \in Nat /\ turn' >= turn
    BY <1>3 DEF Tick, EndRun, DrainTimesOut, Finalize, FinishTask, Shapes
  <2> QED
    BY <2>1, SameShown
<1>4. ASSUME NEW t \in Tasks, RecordOutcomes(t) PROVE Shown' /\ Timed'
  <2> DEFINE W == {k \in TaskKeys(t) : Resolvable(k) /\ (k \in RenderedKeys) # (k \in hist.shown)}
  <2>1. W \subseteq hist.forgotten
    BY DEF Shown
  <2>2. hist' = [hist EXCEPT !.wronged = @ \cup W]
    BY <1>4 DEF RecordOutcomes
  <2> HIDE DEF W
  <2>3. /\ hist'.shown = hist.shown /\ hist'.taken = hist.taken
        /\ hist'.forgotten = hist.forgotten /\ hist'.wronged = hist.wronged \cup W
    BY <2>2 DEF Shapes, Histories
  <2>4. UNCHANGED <<notes, turn>> /\ turn \in Nat
    BY <1>4 DEF RecordOutcomes, Shapes
  <2> QED
    BY <2>1, <2>3, <2>4, SameShown
<1>5. ASSUME NEW kinds, Consume(kinds) PROVE Shown' /\ Timed'
  BY <1>5, ConsumeShown
<1> QED
  BY <1>1, <1>2, <1>3, <1>4, <1>5, Steps DEF Others

-----------------------------------------------------------------------------
(***************************************************************************)
(* The invariant, and what it is for.                                      *)
(***************************************************************************)

\* The first state satisfies the invariant.
LEMMA SignalsInit == Init => SignalsInv
<1> SUFFICES ASSUME Init PROVE SignalsInv
  OBVIOUS
<1>1. \A d \in Drifts : KeyOf(d) \in Keys
  BY DEF Keys
<1>2. /\ hist \in Histories /\ hist.shown = {} /\ hist.wronged = {} /\ hist.late = {}
      /\ \A k \in Keys : hist.taken[k] = -1
  BY DEF Init, Histories
<1>3. h \in [Drifts -> Frames] /\ \A d \in Drifts : h[d].pc = "none"
  BY DEF Init, Frames, Places, Levels
<1>4. entry \in [Keys -> Entries]
  BY DEF Init, Entries, Results
<1>5. notes \in Seq(Notes) /\ DOMAIN notes = {}
  BY DEF Init
<1>6. Shapes
  BY <1>2, <1>3, <1>4, <1>5 DEF Init, Shapes
<1>7. FailsOnce
  BY <1>3 DEF FailsOnce
<1>8. Drained
  BY <1>2 DEF Init, Drained, DrainedBeforeFinalize
<1>9. Taken(notes) = {} /\ RenderedKeys = {}
  BY <1>5 DEF Taken, RenderedKeys
<1>10. Shown
  BY <1>2, <1>9 DEF Shown, AttributionIsTrue
<1>11. Timed
  BY <1>2, <1>9 DEF Init, Timed
<1> QED
  BY <1>6, <1>7, <1>8, <1>10, <1>11 DEF SignalsInv

\* A state that does not change keeps the invariant.
LEMMA SignalsStutter == ASSUME SignalsInv, UNCHANGED vars PROVE SignalsInv'
<1>1. Shapes' /\ FailsOnce' /\ Drained'
  BY DEF SignalsInv, vars, Shapes, FailsOnce, Drained, DrainedBeforeFinalize
<1>2. UNCHANGED <<notes, hist, turn>> /\ turn \in Nat
  BY DEF SignalsInv, vars, Shapes
<1>3. Shown' /\ Timed'
  BY <1>2, SameShown DEF SignalsInv
<1> QED
  BY <1>1, <1>3 DEF SignalsInv

\* The invariant holds.
LEMMA SignalsInvHolds == Spec => []SignalsInv
<1>1. ASSUME SignalsInv, [Next]_vars PROVE SignalsInv'
  BY <1>1, SignalsStutter, ShapesStep, FailsOnceStep, DrainedStep, ShownStep DEF SignalsInv
<1> QED
  BY <1>1, SignalsInit, PTL DEF Spec

\* A handler that was at work when the run ended delivers nothing to a ledger
\* that is finalized: the list drain_session_background_tasks makes once is
\* enough, since no handler on it starts over.
THEOREM DrainedBeforeFinalizeHolds == Spec => []DrainedBeforeFinalize
<1>1. SignalsInv => DrainedBeforeFinalize
  BY DEF SignalsInv, Drained
<1> QED
  BY <1>1, SignalsInvHolds, PTL

\* The ledger credits a signal with the end of a task only if the agent was
\* shown a note of the key, and no signal only if it was shown none, except for
\* keys of which the bounded queue has pruned a note
\* (record_signal_outcomes_for_task, rendered_keys).
THEOREM AttributionIsTrueHolds == Spec => []AttributionIsTrue
<1>1. SignalsInv => AttributionIsTrue
  BY DEF SignalsInv, Shown
<1> QED
  BY <1>1, SignalsInvHolds, PTL

\* Where nothing of a key was pruned, the queue says when the agent was last
\* given a note of it (last_rendered_turn).
LEMMA LastRenderedIsTaken ==
    ASSUME SignalsInv, NEW k \in Keys \ hist.forgotten, hist.taken[k] >= 0
    PROVE  LastRendered(k) = hist.taken[k]
<1> DEFINE I == NoteIndices(k) \cap Taken(notes)
           seen == {notes[i].at : i \in I}
<1>1. I = {i \in Taken(notes) : notes[i].key = k}
  BY DEF NoteIndices, Queue, Taken
<1>2. hist.taken[k] \in seen /\ \A u \in seen : u <= hist.taken[k]
  BY <1>1 DEF SignalsInv, Timed
<1>3. hist.taken[k] \in Int /\ \A u \in seen : u \in Int
  <2>1. \A i \in Taken(notes) : notes[i] \in Notes
    BY DEF SignalsInv, Shapes, Taken
  <2> QED
    BY <1>1, <2>1 DEF SignalsInv, Shapes, Histories, Notes
<1>4. LastRendered(k) = IF seen = {} THEN -1 ELSE CHOOSE t \in seen : \A u \in seen : u <= t
  BY DEF LastRendered
<1> HIDE DEF seen
<1>5. \A t \in seen : (\A u \in seen : u <= t) => t = hist.taken[k]
  BY <1>2, <1>3
<1> QED
  BY <1>2, <1>4, <1>5

\* A drift at the signal level that is to be paced.
Early(d) ==
    /\ h[d].pc = "ladder" /\ h[d].level = "signal"
    /\ \/ UserSteerFresh
       \/ LET at == hist.taken[KeyOf(d)]
          IN  at >= 0 /\ turn - at < Window /\ KeyOf(d) \notin hist.forgotten

\* _signal_pacing_decision holds it back.
LEMMA EarlyIsSuppressed ==
    ASSUME SignalsInv, NEW d \in Drifts, Early(d)
    PROVE  Pacing(d) = "suppress"
<1>1. CASE UserSteerFresh
  BY <1>1 DEF Pacing
<1>2. CASE ~UserSteerFresh
  <2> DEFINE at == hist.taken[KeyOf(d)]
  <2>1. at >= 0 /\ turn - at < Window /\ KeyOf(d) \in Keys \ hist.forgotten
    BY <1>2 DEF Early, Keys
  <2>2. LastRendered(KeyOf(d)) = at
    BY <2>1, LastRenderedIsTaken
  <2>3. at \in Int /\ at <= turn /\ turn \in Nat
    BY <2>1 DEF SignalsInv, Shapes, Histories, Timed
  <2>4. Window > 0
    BY <2>1, <2>3, SignalAssumption
  <2> HIDE DEF at
  <2> QED
    BY <2>1, <2>2, <2>4 DEF Pacing
<1> QED
  BY <1>1, <1>2

\* No step sends such a signal.
LEMMA PacedStep ==
    ASSUME SignalsInv, Next, NEW d \in Drifts, Early(d)
    PROVE  h'[d].pc \in {"ladder", "done"} /\ NothingSent(d)
<1> DEFINE Goal == h'[d].pc \in {"ladder", "done"} /\ NothingSent(d)
<1>1. Shapes /\ FailsOnce /\ h[d].pc = "ladder" /\ h[d].level = "signal" /\ KeyOf(d) \in Keys
  BY DEF SignalsInv, Early, Keys
<1>2. SameDeliveries => NothingSent(d)
  BY <1>1 DEF SameDeliveries, NothingSent
<1>3. ASSUME NEW e \in Drifts, e # d, Acts(e), Elsewhere PROVE Goal
  <2>1. h'[d] = h[d]
    BY <1>1, <1>3, MovesFrames DEF Acts
  <2>2. \A x \in entry'[KeyOf(d)].deliveries : x \in entry[KeyOf(d)].deliveries \/ x[1] = e
    BY <1>1, <1>3, SpeaksShapes DEF Acts
  <2>3. NothingSent(d)
    BY <1>3, <2>2 DEF NothingSent
  <2> QED
    BY <1>1, <2>1, <2>3
<1>4. ASSUME Handler(d) PROVE Goal
  <2>1. Climb(d)
    BY <1>1, <1>4 DEF Handler, Observe, Arrive, Detected, CancelRequested, RefineInstalls,
                      RefineFails, RefineUnusable, RefineDeclined, Revised, RecordFailure, Kill,
                      SpawnFailure, RepeatedAnnounced, PauseAnnounced, Escalated
  <2>2. Finish(d)
    BY <1>1, <2>1, EarlyIsSuppressed DEF Climb, Paced
  <2>3. SameDeliveries /\ h'[d].pc = "done"
    BY <1>1, <2>2, SameEntry DEF Finish, Goto, Shapes, Frames
  <2> QED
    BY <1>2, <2>3
<1>5. ASSUME NEW e \in Drifts, e # d, Observe(e) \/ Kill(e) PROVE Goal
  <2>1. h'[d] = h[d] /\ entry' = entry
    BY <1>1, <1>5 DEF Observe, Kill, Goto, Shapes
  <2> QED
    BY <1>1, <1>2, <2>1, SameEntry
<1>6. ASSUME NEW e \in Drifts, e # d, SpawnFailure(e) PROVE Goal
  <2>1. FailureOf(TaskOf(e)) # d
    BY <1>1, <1>6 DEF SpawnFailure, FailsOnce
  <2>2. h'[d] = h[d] /\ entry' = entry
    BY <1>1, <1>6, <2>1 DEF SpawnFailure, Shapes
  <2> QED
    BY <1>1, <1>2, <2>2, SameEntry
<1>7. ASSUME Others PROVE Goal
  <2>1. h'[d].pc \in {"ladder", "done"}
    BY <1>1, <1>7 DEF Others, FinishTask, RecordOutcomes, Consume, Tick, EndRun, DrainTimesOut,
                      Finalize, Shapes, Frames
  <2>2. CASE entry' = entry
    BY <1>1, <1>2, <2>1, <2>2, SameEntry
  <2>3. CASE \E t \in Tasks : RecordOutcomes(t)
    <3>1. SameDeliveries
      BY <1>1, <2>3 DEF RecordOutcomes, ResolvedAs, Shapes, Entries, Results, SameDeliveries
    <3> QED
      BY <1>2, <2>1, <3>1
  <2>4. CASE Finalize
    <3>1. SameDeliveries
      BY <1>1, <2>4 DEF Finalize, FinalizeAll, ResolvedAs, Shapes, Entries, Results,
                        SameDeliveries
    <3> QED
      BY <1>2, <2>1, <3>1
  <2> QED
    BY <1>7, <2>2, <2>3, <2>4 DEF Others, FinishTask, Consume, Tick, EndRun, DrainTimesOut
<1>8. \A e \in Drifts : Observe(e) \/ Kill(e) \/ SpawnFailure(e) => Handler(e)
  BY DEF Handler
<1>9. CASE \E e \in Drifts : Handler(e)
  <2>1. PICK e \in Drifts : Handler(e)
    BY <1>9
  <2> QED
    BY <1>1, <1>3, <1>4, <1>5, <1>6, <2>1, HandlerActs
<1>10. CASE ~\E e \in Drifts : Handler(e)
  <2>1. RenderInRequest \/ RenderOnToolResult => \E kinds : Consume(kinds)
    BY DEF RenderInRequest, RenderOnToolResult
  <2>2. Others
    BY <1>10, <2>1 DEF Next, Others
  <2> QED
    BY <1>7, <2>2
<1> QED
  BY <1>9, <1>10

\* A drift on the signal level neither nudges nor escalates while a note of its
\* key is fresh or the user has just steered, whatever happens between the
\* announcement of the ladder's transition and the decision
\* (_signal_pacing_decision).
THEOREM SignalsArePacedHolds == Spec => SignalsArePaced
<1>1. SignalsInv /\ [Next]_vars =>
        [\A d \in Drifts :
            /\ h[d].pc = "ladder" /\ h[d].level = "signal"
            /\ \/ UserSteerFresh
               \/ LET at == hist.taken[KeyOf(d)]
                  IN  at >= 0 /\ turn - at < Window /\ KeyOf(d) \notin hist.forgotten
            => h'[d].pc \in {"ladder", "done"} /\ NothingSent(d)]_vars
  BY PacedStep DEF Early
<1> QED
  BY <1>1, SignalsInvHolds, PTL DEF Spec, SignalsArePaced

-----------------------------------------------------------------------------
(***************************************************************************)
(* The stall watchdog.                                                     *)
(***************************************************************************)

StallShapes ==
    /\ now \in Nat /\ lastSign \in Nat /\ watermark \in Nat
    /\ watermark <= lastSign /\ lastSign <= now
    /\ fires \in Nat /\ goalFired \in BOOLEAN /\ checks \in Nat
    /\ raised \in Nat \X Nat

\* After a sign of life that no poll has seen yet nothing is announced; after the
\* poll that saw it, fires and goal_judge_fired count what was.
Episode ==
    /\ Advanced => raised = <<0, 0>> /\ checks = 0
    /\ ~Advanced =>
          /\ raised = IF fires = 0 THEN <<0, 0>> ELSE <<1, fires - 1>>
          /\ checks = IF goalFired THEN 1 ELSE 0
          /\ StallTimeout * fires <= Idle /\ (goalFired => IdleGoal <= Idle)

StallInv == StallShapes /\ Episode

\* Numbers: a product is not negative, and is none only of nothing.
LEMMA Product ==
    ASSUME NEW m \in Nat, NEW n \in Nat
    PROVE  /\ m * n \in Nat /\ m * 0 = 0 /\ m * (n + 1) = m * n + m /\ m * n = n * m
OBVIOUS

\* Without silence nothing was announced.
LEMMA NoTimeNoFires == ASSUME StallInv, Idle = 0, ~Advanced PROVE fires = 0 /\ ~goalFired
<1> USE StallAssumption DEF StallInv, StallShapes, Episode
<1>1. ~goalFired
  OBVIOUS
<1>2. ASSUME fires # 0 PROVE FALSE
  <2>1. fires - 1 \in Nat /\ (fires - 1) + 1 = fires
    BY <1>2
  <2>2. StallTimeout * fires = StallTimeout * (fires - 1) + StallTimeout
    BY <2>1, Product
  <2>3. StallTimeout * (fires - 1) \in Nat
    BY <2>1, Product
  <2>. QED BY <2>2, <2>3
<1>. QED BY <1>1, <1>2

\* The watchdog starts with nothing announced.
LEMMA StallStart == StallInit => StallInv
<1>1. StallTimeout * 0 = 0
  BY Product, StallAssumption
<1> SUFFICES ASSUME StallInit PROVE StallInv
  OBVIOUS
<1>2. Idle = 0 /\ ~Advanced /\ StallTimeout * fires = 0 /\ ~goalFired
  BY <1>1 DEF StallInit, Idle, Advanced
<1>3. Episode
  BY <1>2 DEF StallInit, Episode
<1>4. StallShapes
  <2>1. raised \in Nat \X Nat
    BY DEF StallInit
  <2>2. goalFired \in BOOLEAN
    BY DEF StallInit
  <2>. QED BY <2>1, <2>2 DEF StallInit, StallShapes
<1>. QED BY <1>3, <1>4 DEF StallInv

\* Every step of the watchdog and of the counters keeps the invariant.
LEMMA StallStep == ASSUME StallInv, StallNext \/ UNCHANGED stall PROVE StallInv'
<1> USE StallAssumption DEF StallInv, StallShapes
<1>1. CASE UNCHANGED <<now, lastSign, watermark, fires, goalFired, raised, checks>>
  BY <1>1 DEF Episode, Advanced, Idle
<1>2. CASE TimePasses
  <2>1. StallTimeout * fires \in Nat
    BY Product
  <2>. QED BY <1>2, <2>1 DEF TimePasses, Episode, Advanced, Idle
<1>3. CASE SignOfLife
  BY <1>3 DEF SignOfLife, Episode, Advanced, Idle
<1>4. CASE StartWatchdog
  <2>1. StallTimeout * 0 = 0
    BY Product
  <2>2. Idle' = 0 /\ ~Advanced' /\ StallTimeout * fires' = 0 /\ ~goalFired'
    BY <1>4, <2>1 DEF StartWatchdog, Idle, Advanced
  <2>3. Episode'
    BY <1>4, <2>2 DEF StartWatchdog, Episode
  <2>4. StallShapes'
    <3>1. raised' \in Nat \X Nat
      BY <1>4 DEF StartWatchdog
    <3>2. goalFired' \in BOOLEAN
      BY <1>4 DEF StartWatchdog
    <3>. QED BY <1>4, <3>1, <3>2 DEF StartWatchdog
  <2>. QED BY <2>3, <2>4
<1>5. CASE TaskBoundary
  <2>1. CASE lastSign = now /\ ~Advanced
    <3>1. fires = 0 /\ ~goalFired
      BY <2>1, NoTimeNoFires DEF Idle
    <3>. QED BY <1>5, <2>1, <3>1, Product DEF TaskBoundary, Episode, Advanced, Idle
  <2>2. CASE ~(lastSign = now /\ ~Advanced)
    BY <1>5, <2>2 DEF TaskBoundary, Episode, Advanced, Idle
  <2>. QED BY <2>1, <2>2
<1>6. CASE Poll
  <2> DEFINE goal == (Advanced \/ ~goalFired) /\ Idle >= IdleGoal
             fire == Idle >= StallTimeout * (EpisodeFires + 1) /\ ~llmInFlight
  <2>1. /\ watermark' = lastSign /\ now' = now /\ lastSign' = lastSign
        /\ goalFired' = (goal \/ (goalFired /\ ~Advanced))
        /\ checks' = IF goal THEN checks + 1 ELSE checks
        /\ fires' = IF fire THEN EpisodeFires + 1 ELSE EpisodeFires
        /\ raised' = IF ~fire THEN raised
                     ELSE IF EpisodeFires = 0 THEN <<raised[1] + 1, raised[2]>>
                     ELSE <<raised[1], raised[2] + 1>>
    BY <1>6 DEF Poll, Advanced
  <2>2. /\ EpisodeFires \in Nat /\ Idle \in Nat
        /\ raised = IF EpisodeFires = 0 THEN <<0, 0>> ELSE <<1, EpisodeFires - 1>>
        /\ StallTimeout * EpisodeFires <= Idle
    BY Product DEF EpisodeFires, Episode, Advanced, Idle
  <2>3. Idle' = Idle /\ ~Advanced'
    BY <2>1 DEF Idle, Advanced
  <2>4. StallTimeout * fires' <= Idle
    BY <2>1, <2>2
  <2>5. fires' \in Nat /\ raised' = IF fires' = 0 THEN <<0, 0>> ELSE <<1, fires' - 1>>
    BY <2>1, <2>2
  <2>6. /\ goalFired' \in BOOLEAN /\ checks' = (IF goalFired' THEN 1 ELSE 0)
        /\ goalFired' => IdleGoal <= Idle
    <3>1. CASE goal
      <4>1. checks = 0
        BY <3>1 DEF Episode
      <4>2. goalFired' = TRUE /\ checks' = checks + 1 /\ Idle >= IdleGoal
        BY <2>1, <3>1
      <4>. QED BY <2>2, <4>1, <4>2
    <3>2. CASE ~goal /\ goalFired /\ ~Advanced
      BY <2>1, <3>2 DEF Episode
    <3>3. CASE ~goal /\ ~(goalFired /\ ~Advanced)
      <4>1. checks = 0
        BY <3>3 DEF Episode
      <4>. QED BY <2>1, <3>3, <4>1
    <3>. QED BY <3>1, <3>2, <3>3
  <2>7. raised' \in Nat \X Nat
    BY <2>5
  <2>8. checks' \in Nat
    BY <2>6
  <2>9. Episode'
    BY <2>3, <2>4, <2>5, <2>6 DEF Episode
  <2>. QED BY <2>1, <2>5, <2>6, <2>7, <2>8, <2>9
<1>. QED BY <1>1, <1>2, <1>3, <1>4, <1>5, <1>6
     DEF StallNext, stall, CancelWatchdog, LlmCall, StallHandled, NoteAgentTurn, counters

\* Hence it holds always, whichever detector is wired.
LEMMA StallInvHolds == DetectorsSpec => []StallInv
<1>1. DetectorsInit => StallInv
  BY StallStart DEF DetectorsInit
<1>2. StallInv /\ [DetectorsNext]_detectorVars => StallInv'
  BY StallStep DEF DetectorsNext, detectorVars
<1>. QED BY <1>1, <1>2, PTL DEF DetectorsSpec

\* What the invariant says of the announcements alone.
NotEarly ==
    /\ (raised[1] + raised[2]) * StallTimeout <= Idle
    /\ raised[1] <= 1 /\ (raised[2] > 0 => raised[1] = 1)
    /\ checks <= 1

LEMMA Announced ==
    ASSUME StallInv
    PROVE  NotEarly /\ raised[1] \in Nat /\ raised[2] \in Nat
<1> USE StallAssumption DEF StallInv, StallShapes, Episode
<1>1. Idle \in Nat /\ raised[1] \in Nat /\ raised[2] \in Nat
  BY DEF Idle
<1>2. CASE raised = <<0, 0>>
  <2>1. (raised[1] + raised[2]) * StallTimeout = 0
    BY <1>2, Product
  <2>. QED BY <1>1, <1>2, <2>1 DEF NotEarly
<1>3. CASE raised # <<0, 0>>
  <2>1. ~Advanced /\ fires # 0 /\ raised = <<1, fires - 1>>
    BY <1>3
  <2>2. raised[1] + raised[2] = fires
    BY <2>1
  <2>3. fires * StallTimeout <= Idle
    BY <2>1, Product
  <2>. QED BY <1>1, <2>1, <2>2, <2>3 DEF NotEarly
<1>. QED BY <1>2, <1>3

\* What a poll starts from is what was announced in this silence.
LEMMA FiresAnnounced ==
    ASSUME StallInv
    PROVE  /\ EpisodeFires = raised[1] + raised[2]
           /\ EpisodeFires # 0 => raised[1] = 1
           /\ checks = 0 => Advanced \/ ~goalFired
BY DEF StallInv, StallShapes, Episode, EpisodeFires

\* A poll announces what is due.
LEMMA PollAnnounces ==
    ASSUME StallInv, Poll
    PROVE  LET announced == raised[1] + raised[2]
           IN  /\ ~llmInFlight /\ Idle >= StallTimeout * (announced + 1) =>
                     raised' = IF announced = 0 THEN <<1, 0>> ELSE <<1, raised[2] + 1>>
               /\ checks = 0 /\ Idle >= IdleGoal => checks' = 1
<1> DEFINE announced == raised[1] + raised[2]
<1>1. /\ raised[1] \in Nat /\ raised[2] \in Nat
      /\ EpisodeFires = announced /\ (EpisodeFires # 0 => raised[1] = 1)
      /\ checks = 0 => Advanced \/ ~goalFired
  BY Announced, FiresAnnounced
<1>2. ASSUME ~llmInFlight, Idle >= StallTimeout * (announced + 1)
      PROVE  raised' = IF announced = 0 THEN <<1, 0>> ELSE <<1, raised[2] + 1>>
  <2>1. raised' = IF EpisodeFires = 0 THEN <<raised[1] + 1, raised[2]>>
                  ELSE <<raised[1], raised[2] + 1>>
    BY <1>1, <1>2 DEF Poll
  <2>. QED BY <1>1, <2>1
<1>3. ASSUME checks = 0, Idle >= IdleGoal PROVE checks' = 1
  BY <1>1, <1>3 DEF Poll
<1>. QED BY <1>2, <1>3

\* StallEscalates: every full timeout of silence that a poll finds is announced,
\* once, as one WARNING and then as CRITICAL, and the goal judge is asked once, for
\* any timeouts.
THEOREM StallEscalatesHolds == DetectorsSpec => StallEscalates
<1>1. StallInv => NotEarly
  BY Announced
<1>2. StallInv /\ NotEarly' =>
        [LET announced == raised[1] + raised[2]
         IN  /\ Poll /\ ~llmInFlight /\ Idle >= StallTimeout * (announced + 1) =>
                   raised' = IF announced = 0 THEN <<1, 0>> ELSE <<1, raised[2] + 1>>
             /\ Poll /\ checks = 0 /\ Idle >= IdleGoal => checks' = 1
             /\ (raised'[1] + raised'[2]) * StallTimeout <= Idle'
             /\ raised'[1] <= 1 /\ (raised'[2] > 0 => raised'[1] = 1)
             /\ checks' <= 1]_stall
  BY PollAnnounces DEF NotEarly
<1>. QED BY <1>1, <1>2, StallInvHolds, PTL DEF StallEscalates

-----------------------------------------------------------------------------
(***************************************************************************)
(* The outcome judge and the goal judge.                                   *)
(***************************************************************************)

AskPlaces == {"idle", "spawned", "asking", "applying", "ended"}
Settled == {"COMPLETED", "FAILED"}
Snaps == UNION {[S -> Titles] : S \in SUBSET Deliverables}
Todos == UNION {[S -> Settled] : S \in SUBSET Deliverables}
Asked == [pc : AskPlaces, snap : Snaps, todo : Todos]

OutcomeShapes ==
    /\ deliverable \in [Deliverables -> [status : OpenStatus \cup Settled \cup {"ABSENT"},
                                         title : Titles]]
    /\ asked \in [OutcomeJudges -> Asked]

\* What a judge is about to apply is about the deliverable as it is, unless the
\* deliverable was edited while the judge applies, or is finished or gone.
AppliesFresh ==
    \A p \in OutcomeJudges : asked[p].pc = "applying" =>
        \A d \in DOMAIN asked[p].todo :
            \/ d \in overtaken
            \/ deliverable[d].status \notin OpenStatus
            \/ asked[p].snap[d] = deliverable[d].title

OutcomeInv == OutcomeShapes /\ AppliesFresh

\* A judge at rest has nothing to apply.
LEMMA NothingAsked ==
    Nothing \in Asked /\ \A p : Resting(p) \in Asked /\ Resting(p).pc # "applying"
<1>1. Nothing.snap \in [{} -> Titles] /\ Nothing.todo \in [{} -> Settled]
  BY DEF Nothing
<1>2. {} \in SUBSET Deliverables
  OBVIOUS
<1>3. Nothing.snap \in Snaps /\ Nothing.todo \in Todos
  BY <1>1, <1>2 DEF Snaps, Todos
<1>4. Nothing = [pc |-> "idle", snap |-> Nothing.snap, todo |-> Nothing.todo]
  BY DEF Nothing
<1> HIDE DEF Nothing
<1>5. Nothing \in Asked
  BY <1>3, <1>4 DEF Asked, AskPlaces
<1>6. [Nothing EXCEPT !.pc = "ended"] \in Asked /\ [Nothing EXCEPT !.pc = "ended"].pc = "ended"
  BY <1>5 DEF Asked, AskPlaces
<1>7. Nothing.pc = "idle"
  BY <1>4
<1>. QED BY <1>5, <1>6, <1>7 DEF Resting

\* The outcome judges start at rest.
LEMMA OutcomeStart == OutcomeInit => OutcomeInv
<1> SUFFICES ASSUME OutcomeInit PROVE OutcomeInv
  OBVIOUS
<1>1. OutcomeShapes
  BY NothingAsked DEF OutcomeInit, OutcomeShapes, OpenStatus
<1>2. \A p \in OutcomeJudges : asked[p].pc = "idle"
  BY DEF OutcomeInit, Nothing
<1>. QED BY <1>1, <1>2 DEF OutcomeInv, AppliesFresh

\* A judge that goes on without answering has nothing to apply.
GoesOn(p) ==
    /\ \E r \in Asked : r.pc # "applying" /\ asked' = [asked EXCEPT ![p] = r]
    /\ UNCHANGED <<deliverable, overtaken>>

\* Asking, ending and failing are such steps.
LEMMA GoingOn ==
    ASSUME OutcomeInv, NEW p \in OutcomeJudges,
           AskOutcomes(p) \/ OutcomesApplied(p) \/ OutcomeJudgeFails(p)
    PROVE  GoesOn(p)
<1>1. CASE asked' = [asked EXCEPT ![p] = Resting(p)]
  BY <1>1, NothingAsked DEF GoesOn, AskOutcomes, OutcomesApplied, OutcomeJudgeFails
<1>2. CASE AskOutcomes(p)
           /\ asked' = [asked EXCEPT ![p] = [Nothing EXCEPT !.pc = "asking", !.snap = OpenOutcomes]]
  <2> DEFINE r == [Nothing EXCEPT !.pc = "asking", !.snap = OpenOutcomes]
  <2>1. OpenOutcomes \in Snaps
    <3> DEFINE S == {e \in Deliverables : deliverable[e].status \in OpenStatus}
    <3>1. OpenOutcomes \in [S -> Titles]
      BY DEF OpenOutcomes, OutcomeInv, OutcomeShapes
    <3>2. S \in SUBSET Deliverables
      OBVIOUS
    <3> HIDE DEF S
    <3>. QED BY <3>1, <3>2 DEF Snaps
  <2>2. r \in Asked /\ r.pc = "asking"
    BY <2>1, NothingAsked DEF Asked, AskPlaces
  <2>3. asked' = [asked EXCEPT ![p] = r] /\ r.pc # "applying"
    BY <1>2, <2>2
  <2>4. UNCHANGED <<deliverable, overtaken>>
    BY <1>2 DEF AskOutcomes
  <2> HIDE DEF r
  <2>. QED BY <2>2, <2>3, <2>4 DEF GoesOn
<1>. QED BY <1>1, <1>2 DEF AskOutcomes, OutcomesApplied, OutcomeJudgeFails

\* And such a step keeps the invariant.
LEMMA GoesOnFresh == ASSUME OutcomeInv, NEW p \in OutcomeJudges, GoesOn(p) PROVE OutcomeInv'
<1>1. PICK r \in Asked : r.pc # "applying" /\ asked' = [asked EXCEPT ![p] = r]
  BY DEF GoesOn
<1>2. /\ asked' \in [OutcomeJudges -> Asked] /\ asked'[p].pc # "applying"
      /\ \A q \in OutcomeJudges \ {p} : asked'[q] = asked[q]
  BY <1>1 DEF OutcomeInv, OutcomeShapes
<1>. QED BY <1>2 DEF GoesOn, OutcomeInv, OutcomeShapes, AppliesFresh

\* So is spawning a judge.
LEMMA SpawnGoesOn ==
    ASSUME OutcomeInv, NEW p \in OutcomeJudges,
           asked' = [asked EXCEPT ![p].pc = "spawned"], UNCHANGED <<deliverable, overtaken>>
    PROVE  GoesOn(p)
<1> DEFINE r == [asked[p] EXCEPT !.pc = "spawned"]
<1>1. r \in Asked /\ r.pc = "spawned"
  BY DEF OutcomeInv, OutcomeShapes, Asked, AskPlaces
<1>2. asked' = [asked EXCEPT ![p] = r]
  BY DEF OutcomeInv, OutcomeShapes
<1>. QED BY <1>1, <1>2 DEF GoesOn

\* The answer is compared with the deliverables as they are.
LEMMA AnsweredFresh ==
    ASSUME OutcomeInv, NEW p \in OutcomeJudges, OutcomesAnswered(p) PROVE OutcomeInv'
<1> USE DEF OutcomeInv, OutcomeShapes
<1>1. PICK v \in OutcomeTransitions(p) :
          asked' = [asked EXCEPT ![p].pc = "applying", ![p].todo = [d \in Fresh(p, v) |-> v[d]]]
  BY DEF OutcomesAnswered
<1> DEFINE T == [d \in Fresh(p, v) |-> v[d]]
<1>2. Fresh(p, v) \in SUBSET Deliverables
  BY DEF Fresh, OpenOutcomes
<1>3. T \in [Fresh(p, v) -> Settled]
  <2>1. \A d \in Fresh(p, v) : v[d] \in {"none", "COMPLETED", "FAILED"} /\ v[d] # "none"
    BY DEF Fresh, OutcomeTransitions
  <2>. QED BY <2>1 DEF Settled
<1>4. \A d \in Fresh(p, v) : asked[p].snap[d] = deliverable[d].title
  BY DEF Fresh, OpenOutcomes
<1>5. T \in Todos /\ DOMAIN T = Fresh(p, v)
  BY <1>2, <1>3 DEF Todos
<1>6. asked' = [asked EXCEPT ![p].pc = "applying", ![p].todo = T]
  BY <1>1
<1> HIDE DEF T
<1>7. /\ asked[p] \in Asked
      /\ asked[p] = [pc |-> asked[p].pc, snap |-> asked[p].snap, todo |-> asked[p].todo]
  BY DEF Asked
<1>8. asked'[p] = [pc |-> "applying", snap |-> asked[p].snap, todo |-> T]
  BY <1>6, <1>7
<1>9. asked'[p] \in Asked
  BY <1>5, <1>7, <1>8 DEF Asked, AskPlaces
<1>10. asked' \in [OutcomeJudges -> Asked] /\ \A q \in OutcomeJudges \ {p} : asked'[q] = asked[q]
  <2>1. asked' = [asked EXCEPT ![p] = asked'[p]]
    BY <1>6, <1>7, <1>8
  <2>. QED BY <1>9, <2>1
<1>11. AppliesFresh'
  <2> SUFFICES ASSUME NEW q \in OutcomeJudges, asked'[q].pc = "applying",
                      NEW d \in DOMAIN asked'[q].todo
               PROVE  \/ d \in overtaken'
                      \/ deliverable'[d].status \notin OpenStatus
                      \/ asked'[q].snap[d] = deliverable'[d].title
    BY DEF AppliesFresh
  <2>1. CASE q = p
    <3>1. d \in Fresh(p, v) /\ asked'[p].snap = asked[p].snap
      BY <1>5, <1>8, <2>1
    <3>2. deliverable' = deliverable
      BY DEF OutcomesAnswered
    <3>. QED BY <1>4, <2>1, <3>1, <3>2
  <2>2. CASE q # p
    <3>1. asked[q].pc = "applying" /\ asked'[q] = asked[q]
      BY <1>10, <2>2
    <3>2. overtaken' = overtaken
      BY <2>2, <3>1 DEF OutcomesAnswered
    <3>. QED BY <3>1, <3>2 DEF AppliesFresh, OutcomesAnswered
  <2>. QED BY <2>1, <2>2
<1>. QED BY <1>10, <1>11 DEF OutcomesAnswered

\* Applying one transition finishes a deliverable, and leaves the others to apply.
LEMMA AppliedFresh ==
    ASSUME OutcomeInv, NEW p \in OutcomeJudges, NEW d \in Deliverables, ApplyOutcome(p, d)
    PROVE  OutcomeInv'
<1> USE DEF OutcomeInv, OutcomeShapes
<1> DEFINE old == asked[p].todo
           T == [e \in DOMAIN old \ {d} |-> old[e]]
<1>1. /\ asked[p] \in Asked
      /\ asked[p] = [pc |-> asked[p].pc, snap |-> asked[p].snap, todo |-> asked[p].todo]
  BY DEF Asked
<1>2. old \in Todos
  BY <1>1 DEF Asked
<1>3. PICK S \in SUBSET Deliverables : old \in [S -> Settled]
  BY <1>2 DEF Todos
<1>4. T \in [S \ {d} -> Settled] /\ DOMAIN T = S \ {d} /\ d \in S
  BY <1>3 DEF ApplyOutcome
<1>5. S \ {d} \in SUBSET Deliverables
  OBVIOUS
<1>6. T \in Todos
  BY <1>4, <1>5 DEF Todos
<1>7. asked' = [asked EXCEPT ![p].todo = T]
  BY DEF ApplyOutcome
<1>8. old[d] \in Settled
  BY <1>3, <1>4
<1>9. DOMAIN T \subseteq DOMAIN old
  BY <1>3, <1>4
<1> HIDE DEF T
<1>10. asked'[p] = [pc |-> asked[p].pc, snap |-> asked[p].snap, todo |-> T]
  BY <1>1, <1>7
<1>11. asked'[p] \in Asked
  BY <1>1, <1>6, <1>10 DEF Asked
<1>12. asked' = [asked EXCEPT ![p] = asked'[p]]
  BY <1>1, <1>7, <1>10
<1>13. asked' \in [OutcomeJudges -> Asked] /\ \A q \in OutcomeJudges \ {p} : asked'[q] = asked[q]
  BY <1>11, <1>12
<1>14. deliverable' = deliverable
       \/ deliverable' = [deliverable EXCEPT ![d].status = old[d]]
  BY DEF ApplyOutcome
<1>15. /\ deliverable' \in [Deliverables -> [status : OpenStatus \cup Settled \cup {"ABSENT"},
                                              title : Titles]]
       /\ \A e \in Deliverables : deliverable'[e].title = deliverable[e].title
       /\ \A e \in Deliverables : deliverable[e].status \notin OpenStatus =>
                deliverable'[e].status \notin OpenStatus
  <2>1. CASE deliverable' = deliverable
    BY <2>1
  <2>2. CASE deliverable' = [deliverable EXCEPT ![d].status = old[d]]
    <3> HIDE DEF old
    <3>. QED BY <1>8, <2>2 DEF OpenStatus, Settled
  <2>. QED BY <1>14, <2>1, <2>2
<1>16. \A q \in OutcomeJudges : /\ asked'[q].pc = asked[q].pc /\ asked'[q].snap = asked[q].snap
                                /\ DOMAIN asked'[q].todo \subseteq DOMAIN asked[q].todo
  BY <1>9, <1>10, <1>13
<1>17. \A q \in OutcomeJudges : DOMAIN asked[q].todo \subseteq Deliverables
  BY DEF Asked, Todos
<1>. QED BY <1>13, <1>15, <1>16, <1>17 DEF AppliesFresh, ApplyOutcome

\* An edit while a judge applies is on record.
LEMMA EditedFresh ==
    ASSUME OutcomeInv, NEW d \in Deliverables, EditOutcome(d) PROVE OutcomeInv'
<1> USE DEF OutcomeInv, OutcomeShapes
<1>1. /\ deliverable' \in [Deliverables -> [status : OpenStatus \cup Settled \cup {"ABSENT"},
                                             title : Titles]]
      /\ \A e \in Deliverables \ {d} : deliverable'[e] = deliverable[e]
  BY DEF EditOutcome
<1>2. \A q \in OutcomeJudges : DOMAIN asked[q].todo \subseteq Deliverables
  BY DEF Asked, Todos
<1>3. asked' = asked
  BY DEF EditOutcome
<1>4. (\E p \in OutcomeJudges : asked[p].pc = "applying") => overtaken' = overtaken \cup {d}
  BY DEF EditOutcome
<1>. QED BY <1>1, <1>2, <1>3, <1>4 DEF AppliesFresh

\* Every step of the outcome judges and of the revisions keeps the invariant.
LEMMA OutcomeStepFresh == ASSUME OutcomeInv, OutcomeNext \/ UNCHANGED outcomeVars PROVE OutcomeInv'
<1>1. CASE UNCHANGED outcomeVars
  BY <1>1 DEF outcomeVars, OutcomeInv, OutcomeShapes, AppliesFresh
<1>2. CASE SpawnOutcomeJudge \/ FinalizeOutcomes
  <2>1. PICK p \in OutcomeJudges : asked' = [asked EXCEPT ![p].pc = "spawned"]
    BY <1>2 DEF SpawnOutcomeJudge, FinalizeOutcomes, OutcomeJudges
  <2>. QED BY <1>2, <2>1, SpawnGoesOn, GoesOnFresh DEF SpawnOutcomeJudge, FinalizeOutcomes
<1>3. ASSUME NEW p \in OutcomeJudges, OutcomeStep(p) PROVE OutcomeInv'
  BY <1>3, GoingOn, GoesOnFresh, AnsweredFresh, AppliedFresh DEF OutcomeStep
<1>. QED BY <1>1, <1>2, <1>3, EditedFresh DEF OutcomeNext

\* Hence it holds always.
LEMMA OutcomeInvHolds == DetectorsSpec => []OutcomeInv
<1>1. DetectorsInit => OutcomeInv
  BY OutcomeStart DEF DetectorsInit
<1>2. OutcomeInv /\ [DetectorsNext]_detectorVars => OutcomeInv'
  BY OutcomeStepFresh DEF DetectorsNext, detectorVars
<1>. QED BY <1>1, <1>2, PTL DEF DetectorsSpec

\* A drift of the goal judge names nothing that finished while the model thought.
LEMMA GoalStepFresh ==
    ASSUME GoalNext, goalDrift' # goalDrift
    PROVE  LET about == goalJudges[goalDrift'.judge].about
               done == {t \in PlanSteps : trajectory.status[t] = "COMPLETED"}
               doneThen == {t \in PlanSteps : about.status[t] = "COMPLETED"}
           IN  IF goalDrift'.names = NoStep THEN done = doneThen /\ about.rev = trajectory.rev
               ELSE goalDrift'.names \notin done \ doneThen
<1>1. PICK j \in DOMAIN goalJudges, names \in PlanSteps \cup {NoStep}, grade \in GoalSeverities :
          GoalNotProgressing(j, names, grade)
  BY DEF GoalNext, SpawnGoalJudge, PlanIsRevised, AskGoal, GoalNoDrift, StepFinishes
<1>2. goalDrift'.judge = j /\ goalDrift'.names = names /\ ~GoalVerdictStale(j, names)
  BY <1>1 DEF GoalNotProgressing
<1>. QED BY <1>2, GoalAssumption DEF GoalVerdictStale

\* VerdictsAreFresh: deliverables are settled under the title the model was asked
\* about, and a drift of the goal judge is about what has not moved since.
THEOREM VerdictsAreFreshHolds == DetectorsSpec => VerdictsAreFresh
<1> DEFINE Outcome == \A p \in OutcomeJudges, d \in Deliverables :
                ApplyOutcome(p, d) /\ deliverable'[d] # deliverable[d] =>
                    d \in overtaken \/ asked[p].snap[d] = deliverable[d].title
           Goal == goalDrift' # goalDrift =>
                LET about == goalJudges[goalDrift'.judge].about
                    done == {t \in PlanSteps : trajectory.status[t] = "COMPLETED"}
                    doneThen == {t \in PlanSteps : about.status[t] = "COMPLETED"}
                IN  IF goalDrift'.names = NoStep
                    THEN done = doneThen /\ about.rev = trajectory.rev
                    ELSE goalDrift'.names \notin done \ doneThen
<1>1. OutcomeInv /\ [DetectorsNext]_detectorVars => [Outcome]_outcomeVars
  <2> SUFFICES ASSUME OutcomeInv, NEW p \in OutcomeJudges, NEW d \in Deliverables,
                      ApplyOutcome(p, d), deliverable'[d] # deliverable[d]
               PROVE  d \in overtaken \/ asked[p].snap[d] = deliverable[d].title
    OBVIOUS
  <2>. QED BY DEF OutcomeInv, AppliesFresh, ApplyOutcome
<1>2. [DetectorsNext]_detectorVars => [Goal]_goals
  <2> SUFFICES ASSUME [DetectorsNext]_detectorVars, goalDrift' # goalDrift PROVE Goal
    BY DEF goals
  <2>1. GoalNext
    BY DEF DetectorsNext, detectorVars, goals, ReflectNext, NoteLlmCall,
           ReflectiveAnswer, FocusMoves
  <2>. QED BY <2>1, GoalStepFresh
<1>. QED BY <1>1, <1>2, OutcomeInvHolds, PTL
     DEF DetectorsSpec, VerdictsAreFresh, OutcomeIsFresh, GoalDriftIsFresh

-----------------------------------------------------------------------------
(***************************************************************************)
(* The tool loop tracker: of finite sets of numbers, and of its grades.    *)
(***************************************************************************)

\* A nonempty set of finite sets has a member that includes no other.
LEMMA Minimal ==
    ASSUME NEW T, T # {}, \A x \in T : IsFiniteSet(x)
    PROVE  \E x \in T : \A y \in T : y \subseteq x => y = x
<1> DEFINE U == UNION T
<1>1. T \subseteq FiniteSubsetsOf(U)
  BY DEF FiniteSubsetsOf
<1>2. PICK x \in T : \A y \in T : <<y, x>> \notin StrictSubsetOrdering(U)
  <2>1. IsWellFoundedOn(StrictSubsetOrdering(U), FiniteSubsetsOf(U))
    BY FS_StrictSubsetOrderingWellFounded
  <2> HIDE DEF U
  <2>. QED BY <1>1, <2>1, WFMin
<1>. QED BY <1>2 DEF StrictSubsetOrdering

\* A nonempty set of numbers has a least one.
LEMMA Least == ASSUME NEW S \in SUBSET Nat, S # {} PROVE \E n \in S : \A m \in S : n <= m
<1> DEFINE T == {0 .. n : n \in S}
<1>1. \A x \in T : IsFiniteSet(x)
  <2>1. \A n \in S : 0 \in Int /\ n \in Int
    OBVIOUS
  <2>. QED BY <2>1, FS_Interval
<1>2. T # {}
  OBVIOUS
<1>3. PICK x \in T : \A y \in T : y \subseteq x => y = x
  <2> HIDE DEF T
  <2>. QED BY <1>1, <1>2, Minimal
<1>4. PICK n \in S : x = 0 .. n
  BY <1>3
<1>5. ASSUME NEW m \in S, ~(n <= m) PROVE FALSE
  <2>1. 0 .. m \in T /\ 0 .. m \subseteq x /\ n \in x /\ n \notin 0 .. m
    BY <1>4, <1>5
  <2>. QED BY <2>1, <1>3
<1>. QED BY <1>5


Grades == {"critical", "warning", "info", "none"}

\* The ranks of the grades.
LEMMA Ranks ==
    /\ TierRank("critical") = 1 /\ TierRank("warning") = 2
    /\ TierRank("info") = 3 /\ TierRank("none") = 4
<1> DEFINE T == <<"critical", "warning", "info", "none">>
<1>1. T[1] = "critical" /\ T[2] = "warning" /\ T[3] = "info" /\ T[4] = "none"
  OBVIOUS
<1>2. 1 .. 4 = {1, 2, 3, 4}
  OBVIOUS
<1>3. \A s : TierRank(s) = CHOOSE i \in {1, 2, 3, 4} : T[i] = s
  BY <1>2 DEF TierRank
<1> HIDE DEF T
<1>. QED BY <1>1, <1>3

\* The tiers that are tried.
LEMMA TheTiers == ToSet(Tiers) = {"critical", "warning", "info"}
<1>1. DOMAIN Tiers = {1, 2, 3} /\ Tiers[1] = "critical" /\ Tiers[2] = "warning" /\ Tiers[3] = "info"
  BY DEF Tiers
<1>. QED BY <1>1 DEF ToSet

\* The most severe of some grades.
Worst(H) == CHOOSE s \in H : \A r \in H : TierRank(s) <= TierRank(r)

\* It is one of them, and critical if one is.
LEMMA WorstIs ==
    ASSUME NEW H \in SUBSET Grades, H # {}
    PROVE  Worst(H) \in H /\ ("critical" \in H => Worst(H) = "critical")
<1>1. \E s \in H : \A r \in H : TierRank(s) <= TierRank(r)
  <2>1. CASE "critical" \in H
    BY <2>1, Ranks DEF Grades
  <2>2. CASE "critical" \notin H /\ "warning" \in H
    BY <2>2, Ranks DEF Grades
  <2>3. CASE "critical" \notin H /\ "warning" \notin H /\ "info" \in H
    BY <2>3, Ranks DEF Grades
  <2>4. CASE "critical" \notin H /\ "warning" \notin H /\ "info" \notin H
    <3>1. H = {"none"}
      BY <2>4 DEF Grades
    <3>. QED BY <3>1, Ranks
  <2>. QED BY <2>1, <2>2, <2>3, <2>4
<1>2. Worst(H) \in H /\ \A r \in H : TierRank(Worst(H)) <= TierRank(r)
  BY <1>1 DEF Worst
<1>3. ASSUME "critical" \in H PROVE Worst(H) = "critical"
  <2>1. PICK w \in H : w = Worst(H)
    BY <1>2
  <2>2. TierRank(w) <= 1
    BY <1>2, <1>3, <2>1, Ranks
  <2>3. w \in {"critical", "warning", "info", "none"}
    BY DEF Grades
  <2>4. w = "critical"
    BY <2>2, <2>3, Ranks
  <2>. QED BY <2>1, <2>4
<1>. QED BY <1>2, <1>3

-----------------------------------------------------------------------------
(***************************************************************************)
(* Counts, and the choice among the tools of a window.                     *)
(***************************************************************************)

\* Positions in the window are finitely many, at most its length.
LEMMA CountsBounded ==
    ASSUME NEW buf \in Seq(ToolCalls), NEW S \in SUBSET DOMAIN buf
    PROVE  IsFiniteSet(S) /\ Cardinality(S) \in 0 .. Len(buf)
<1>1. DOMAIN buf = 1 .. Len(buf) /\ Len(buf) \in Nat
  OBVIOUS
<1>2. IsFiniteSet(1 .. Len(buf)) /\ Cardinality(1 .. Len(buf)) = Len(buf)
  <2>1. \A n \in Nat : IsFiniteSet(1 .. n) /\ Cardinality(1 .. n) = n
    BY FS_Interval
  <2>. QED BY <1>1, <2>1
<1>3. IsFiniteSet(S) /\ Cardinality(S) <= Cardinality(1 .. Len(buf))
  BY <1>1, <1>2, FS_Subset
<1>. QED BY <1>1, <1>2, <1>3, FS_CardinalityType

\* Of some numbers up to n there is a largest.
LEMMA Largest ==
    ASSUME NEW n \in Nat, NEW C \in SUBSET (0 .. n), C # {}
    PROVE  \E k \in C : \A m \in C : m <= k
<1> DEFINE S == {n - k : k \in C}
<1>1. S \in SUBSET Nat /\ S # {}
  <2>1. \A k \in C : n - k \in Nat
    OBVIOUS
  <2>. QED BY <2>1
<1>2. PICK l \in S : \A m \in S : l <= m
  BY <1>1, Least
<1>3. PICK k \in C : l = n - k
  BY <1>2
<1>4. \A m \in C : n - k <= n - m
  BY <1>2, <1>3
<1>. QED BY <1>3, <1>4

\* ExactCount is the count of a call of the tool, and no other is repeated more.
LEMMA ExactIs ==
    ASSUME NEW buf \in Seq(ToolCalls), NEW tool, Args # {}
    PROVE  /\ \E x \in Args : ExactCount(buf, tool) = CountOf(buf, <<tool, x>>)
           /\ \A x \in Args : CountOf(buf, <<tool, x>>) <= ExactCount(buf, tool)
           /\ ExactCount(buf, tool) \in Nat
<1> DEFINE C == {CountOf(buf, <<tool, x>>) : x \in Args}
<1>1. \A x : CountOf(buf, <<tool, x>>) \in 0 .. Len(buf)
  BY CountsBounded DEF CountOf
<1>2. C \in SUBSET (0 .. Len(buf)) /\ C # {} /\ Len(buf) \in Nat
  <2>1. C \in SUBSET (0 .. Len(buf))
    BY <1>1
  <2>2. Len(buf) \in Nat
    OBVIOUS
  <2>. QED BY <2>1, <2>2
<1>3. \E k \in C : \A m \in C : m <= k
  <2> HIDE DEF C
  <2>. QED BY <1>2, Largest
<1>4. ExactCount(buf, tool) = CHOOSE k \in C : \A m \in C : m <= k
  BY DEF ExactCount
<1>5. ExactCount(buf, tool) \in C /\ \A m \in C : m <= ExactCount(buf, tool)
  <2> HIDE DEF C
  <2>. QED BY <1>3, <1>4
<1>6. ExactCount(buf, tool) \in 0 .. Len(buf)
  <2> HIDE DEF C
  <2>. QED BY <1>2, <1>5
<1>7. ExactCount(buf, tool) \in Nat
  BY <1>2, <1>6
<1>. QED BY <1>5, <1>7

\* What a tool is classified as.
Hits(buf, tool) ==
    {Emitted(buf, tool, tier) : tier \in
        {t \in ToSet(Tiers) : HitExact(buf, tool, t) \/ HitName(buf, tool, t)}} \cup {"none"}

\* The severity of a tool is one of its hits, and critical if one is.
LEMMA SeverityIs ==
    ASSUME NEW buf, NEW tool
    PROVE  /\ ToolSeverity(buf, tool) \in Hits(buf, tool) /\ Hits(buf, tool) \subseteq Grades
           /\ "critical" \in Hits(buf, tool) => ToolSeverity(buf, tool) = "critical"
<1>1. Hits(buf, tool) \in SUBSET Grades /\ Hits(buf, tool) # {}
  BY TheTiers, LoopAssumption DEF Hits, Emitted, Grades
<1>2. ToolSeverity(buf, tool) = Worst(Hits(buf, tool))
  BY DEF ToolSeverity, Hits, Worst
<1>. QED BY <1>1, <1>2, WorstIs

\* A window is critical if one of its tools is; an alternation never makes it so.
LEMMA ClassifyIs ==
    ASSUME NEW buf \in Seq(ToolCalls), buf # <<>>
    PROVE  Classify(buf) = "critical" <=>
              \E i \in DOMAIN buf : ToolSeverity(buf, buf[i][1]) = "critical"
<1> DEFINE all == {ToolSeverity(buf, tool) : tool \in {buf[i][1] : i \in DOMAIN buf}}
<1>1. all \in SUBSET Grades
  BY SeverityIs
<1>2. all # {}
  <2>1. 1 \in DOMAIN buf
    OBVIOUS
  <2>. QED BY <2>1
<1>3. Worst(all) \in all /\ ("critical" \in all => Worst(all) = "critical")
  <2> HIDE DEF all
  <2>. QED BY <1>1, <1>2, WorstIs
<1>4. Classify(buf) = IF Worst(all) = "none" /\ Alternates(buf) THEN "info" ELSE Worst(all)
  BY DEF Classify, Worst
<1>5. Classify(buf) = "critical" <=> "critical" \in all
  <2> HIDE DEF all
  <2>. QED BY <1>3, <1>4
<1>. QED BY <1>5

-----------------------------------------------------------------------------
(***************************************************************************)
(* The window: the inductive invariant.                                    *)
(***************************************************************************)

\* What Append gives.
LEMMA AppendIs ==
    ASSUME NEW S, NEW s \in Seq(S), NEW e \in S
    PROVE  /\ Append(s, e) \in Seq(S) /\ Append(s, e) # <<>>
           /\ Len(s) \in Nat /\ Len(Append(s, e)) = Len(s) + 1
           /\ \A i \in 1 .. Len(s) : Append(s, e)[i] = s[i]
           /\ Append(s, e)[Len(s) + 1] = e
<1>1. Len(s) \in Nat /\ Append(s, e) \in Seq(S) /\ Len(Append(s, e)) = Len(s) + 1
  OBVIOUS
<1>2. Append(s, e) # <<>>
  BY <1>1
<1>3. \A i \in 1 .. Len(s) : Append(s, e)[i] = s[i]
  OBVIOUS
<1>4. Append(s, e)[Len(s) + 1] = e
  OBVIOUS
<1>. QED BY <1>1, <1>2, <1>3, <1>4

\* What Tail gives.
LEMMA TailIs ==
    ASSUME NEW S, NEW s \in Seq(S), s # <<>>
    PROVE  /\ Tail(s) \in Seq(S) /\ Len(s) \in Nat \ {0} /\ Len(Tail(s)) = Len(s) - 1
           /\ \A i \in 1 .. Len(s) - 1 : Tail(s)[i] = s[i + 1]
<1>1. Len(s) \in Nat \ {0} /\ Tail(s) \in Seq(S) /\ Len(Tail(s)) = Len(s) - 1
  OBVIOUS
<1>2. \A i \in 1 .. Len(s) - 1 : Tail(s)[i] = s[i + 1]
  OBVIOUS
<1>. QED BY <1>1, <1>2

\* The numbers from m + 1 to n.
LEMMA Segment ==
    ASSUME NEW m \in Nat, NEW n \in Nat, m <= n
    PROVE  IsFiniteSet(m + 1 .. n) /\ Cardinality(m + 1 .. n) = n - m
<1>1. m + 1 \in Int /\ n \in Int
  OBVIOUS
<1>2. Cardinality(m + 1 .. n) = IF m + 1 > n THEN 0 ELSE (n - (m + 1)) + 1
  BY <1>1, FS_Interval
<1>3. IsFiniteSet(m + 1 .. n)
  BY <1>1, FS_Interval
<1>4. m + 1 > n => m = n
  OBVIOUS
<1>. QED BY <1>1, <1>2, <1>3, <1>4

\* The window is the end of the calls of the pass since the last progress.
Suffix(buf, calls) ==
    /\ Len(buf) = IF Len(calls) < WindowSize THEN Len(calls) ELSE WindowSize
    /\ \A i \in 1 .. Len(buf) : buf[i] = calls[(Len(calls) - Len(buf)) + i]

LoopInv ==
    /\ buffer \in [LoopAgents -> Seq(ToolCalls)] /\ since \in [LoopAgents -> Seq(ToolCalls)]
    /\ severity \in [LoopAgents -> Grades]
    /\ \A b \in LoopAgents :
          /\ Suffix(buffer[b], since[b])
          /\ severity[b] = IF since[b] = <<>> THEN "none" ELSE Classify(buffer[b])

\* What a window and a sequence of calls have in numbers.
LEMMA WindowNumbers ==
    ASSUME NEW s \in Seq(ToolCalls) PROVE Len(s) \in Nat /\ WindowSize \in Nat \ {0}
<1>1. WindowSize \in Nat \ {0}
  BY LoopAssumption
<1>. QED BY <1>1

\* A call is appended to the calls, and the window stays the end of them.
LEMMA PushSuffix ==
    ASSUME NEW buf \in Seq(ToolCalls), NEW calls \in Seq(ToolCalls), Suffix(buf, calls),
           NEW made \in ToolCalls
    PROVE  /\ Push(buf, made) \in Seq(ToolCalls) /\ Append(calls, made) \in Seq(ToolCalls)
           /\ Push(buf, made) # <<>> /\ Append(calls, made) # <<>>
           /\ Suffix(Push(buf, made), Append(calls, made))
<1> DEFINE n == Len(calls)
           l == Len(buf)
           more == Append(calls, made)
           next == Push(buf, made)
<1>1. n \in Nat /\ l \in Nat /\ WindowSize \in Nat \ {0}
  BY WindowNumbers
<1>2. n = Len(calls) /\ l = Len(buf) /\ more = Append(calls, made) /\ next = Push(buf, made)
  OBVIOUS
<1> HIDE DEF n, l, more, next
<1>3. /\ l = IF n < WindowSize THEN n ELSE WindowSize
      /\ \A i \in 1 .. l : buf[i] = calls[(n - l) + i]
  BY <1>2 DEF Suffix
<1>6. /\ more \in Seq(ToolCalls) /\ more # <<>> /\ Len(more) = n + 1
      /\ \A i \in 1 .. n : more[i] = calls[i]
      /\ more[n + 1] = made
  BY <1>2, AppendIs
<1>7. CASE l < WindowSize
  <2>1. l = n
    BY <1>1, <1>3, <1>7
  <2>2. next = Append(buf, made)
    BY <1>2, <1>7 DEF Push
  <2>3. /\ next \in Seq(ToolCalls) /\ next # <<>> /\ Len(next) = n + 1
        /\ \A i \in 1 .. n : next[i] = buf[i]
        /\ next[n + 1] = made
    <3>1. /\ next \in Seq(ToolCalls) /\ next # <<>> /\ Len(next) = Len(buf) + 1
          /\ \A i \in 1 .. Len(buf) : next[i] = buf[i]
          /\ next[Len(buf) + 1] = made
      BY <2>2, AppendIs
    <3>2. Len(buf) = n
      BY <1>2, <2>1
    <3>. QED BY <3>1, <3>2
  <2>4. \A i \in 1 .. n : buf[i] = calls[i]
    <3>1. \A i \in 1 .. n : (n - l) + i = i
      BY <1>1, <2>1
    <3>. QED BY <1>3, <2>1, <3>1
  <2>5. \A i \in 1 .. n + 1 : next[i] = more[i]
    <3>1. \A i \in 1 .. n + 1 : i = n + 1 \/ i \in 1 .. n
      BY <1>1
    <3>. QED BY <1>6, <2>3, <2>4, <3>1
  <2>6. \A i \in 1 .. n + 1 : ((n + 1) - (n + 1)) + i = i
    BY <1>1
  <2>7. Suffix(next, more)
    BY <1>1, <1>6, <1>7, <2>1, <2>3, <2>5, <2>6 DEF Suffix
  <2>. QED BY <1>2, <1>6, <2>3, <2>7
<1>8. CASE ~(l < WindowSize)
  <2>1. l = WindowSize /\ n >= l /\ l >= 1
    BY <1>1, <1>3, <1>8
  <2>2. next = Append(Tail(buf), made)
    BY <1>2, <1>8 DEF Push
  <2>3. buf # <<>>
    BY <1>1, <1>2, <2>1
  <2>4. /\ Tail(buf) \in Seq(ToolCalls) /\ Len(Tail(buf)) = l - 1
        /\ \A i \in 1 .. l - 1 : Tail(buf)[i] = buf[i + 1]
    BY <1>2, <2>3, TailIs
  <2>5. /\ next \in Seq(ToolCalls) /\ next # <<>> /\ Len(next) = (l - 1) + 1
        /\ \A i \in 1 .. l - 1 : next[i] = Tail(buf)[i]
        /\ next[(l - 1) + 1] = made
    BY <2>2, <2>4, AppendIs
  <2>6. (l - 1) + 1 = l /\ l - 1 \in Nat
    BY <1>1, <2>1
  <2>7. \A i \in 1 .. l : next[i] = more[((n + 1) - l) + i]
    <3> SUFFICES ASSUME NEW i \in 1 .. l PROVE next[i] = more[((n + 1) - l) + i]
      OBVIOUS
    <3>1. CASE i = l
      <4>1. ((n + 1) - l) + i = n + 1
        BY <1>1, <3>1
      <4>. QED BY <1>6, <2>5, <2>6, <3>1, <4>1
    <3>2. CASE i # l
      <4>1. i \in 1 .. l - 1 /\ i + 1 \in 1 .. l
        BY <1>1, <3>2
      <4>2. (n - l) + (i + 1) \in 1 .. n /\ (n - l) + (i + 1) = ((n + 1) - l) + i
        BY <1>1, <2>1, <4>1
      <4>3. buf[i + 1] = calls[(n - l) + (i + 1)]
        BY <1>3, <4>1
      <4>. QED BY <1>6, <2>4, <2>5, <4>1, <4>2, <4>3
    <3>. QED BY <3>1, <3>2
  <2>8. Suffix(next, more)
    BY <1>1, <1>6, <2>1, <2>5, <2>6, <2>7 DEF Suffix
  <2>. QED BY <1>2, <1>6, <2>5, <2>8
<1>. QED BY <1>7, <1>8

\* The windows start empty.
LEMMA LoopStart == LoopInit => LoopInv
<1> SUFFICES ASSUME LoopInit PROVE LoopInv
  OBVIOUS
<1>1. Suffix(<<>>, <<>>)
  BY LoopAssumption DEF Suffix
<1>2. "none" \in Grades /\ <<>> \in Seq(ToolCalls)
  BY DEF Grades
<1>. QED BY <1>1, <1>2 DEF LoopInit, LoopInv

\* A window that is not empty is given a grade.
LEMMA ClassifyGrade ==
    ASSUME NEW buf \in Seq(ToolCalls), buf # <<>> PROVE Classify(buf) \in Grades
<1> DEFINE all == {ToolSeverity(buf, tool) : tool \in {buf[i][1] : i \in DOMAIN buf}}
<1>1. all \in SUBSET Grades
  BY SeverityIs
<1>2. all # {}
  <2>1. 1 \in DOMAIN buf
    OBVIOUS
  <2>. QED BY <2>1
<1>3. Worst(all) \in all
  <2> HIDE DEF all
  <2>. QED BY <1>1, <1>2, WorstIs
<1>4. Classify(buf) = IF Worst(all) = "none" /\ Alternates(buf) THEN "info" ELSE Worst(all)
  BY DEF Classify, Worst
<1> HIDE DEF all
<1>. QED BY <1>1, <1>3, <1>4 DEF Grades

\* Every observed call, every report of progress and every end of a pass keeps the
\* invariant.
LEMMA LoopStep == ASSUME LoopInv, LoopNext \/ UNCHANGED loops PROVE LoopInv'
<1>1. CASE UNCHANGED loops
  BY <1>1 DEF loops, LoopInv
<1>2. ASSUME NEW b \in LoopAgents, OnTaskProgress(b) PROVE LoopInv'
  <2>1. Suffix(<<>>, <<>>)
    BY LoopAssumption DEF Suffix
  <2>2. "none" \in Grades /\ <<>> \in Seq(ToolCalls)
    BY DEF Grades
  <2>. QED BY <1>2, <2>1, <2>2 DEF OnTaskProgress, LoopInv
<1>3. ASSUME NEW b \in LoopAgents, NEW made \in ToolCalls, ObserveToolCall(b, made) PROVE LoopInv'
  <2> DEFINE next == Push(buffer[b], made)
             more == Append(since[b], made)
  <2>1. /\ next \in Seq(ToolCalls) /\ more \in Seq(ToolCalls)
        /\ next # <<>> /\ more # <<>> /\ Suffix(next, more)
    BY PushSuffix DEF LoopInv
  <2>2. /\ buffer' = [buffer EXCEPT ![b] = next]
        /\ severity' = [severity EXCEPT ![b] = Classify(next)]
        /\ since' = [since EXCEPT ![b] = more]
    BY <1>3 DEF ObserveToolCall, LoopInv
  <2> HIDE DEF next, more
  <2>3. Classify(next) \in Grades
    BY <2>1, ClassifyGrade
  <2>. QED BY <2>1, <2>2, <2>3 DEF LoopInv
<1>4. CASE Clear
  <2>1. Suffix(<<>>, <<>>)
    BY LoopAssumption DEF Suffix
  <2>2. "none" \in Grades /\ <<>> \in Seq(ToolCalls)
    BY DEF Grades
  <2>. QED BY <1>4, <2>1, <2>2 DEF Clear, LoopInv
<1>. QED BY <1>1, <1>2, <1>3, <1>4 DEF LoopNext

\* Hence it holds always.
LEMMA LoopInvHolds == DetectorsSpec => []LoopInv
<1>1. DetectorsInit => LoopInv
  BY LoopStart DEF DetectorsInit
<1>2. LoopInv /\ [DetectorsNext]_detectorVars => LoopInv'
  BY LoopStep DEF DetectorsNext, detectorVars
<1>. QED BY <1>1, <1>2, PTL DEF DetectorsSpec

-----------------------------------------------------------------------------
(***************************************************************************)
(* A loop is called critical where it is one, and only there.              *)
(***************************************************************************)

\* A call of the window was made in the pass since the last progress, as often at
\* least.
LEMMA NoMoreInWindow ==
    ASSUME NEW buf \in Seq(ToolCalls), NEW calls \in Seq(ToolCalls), Suffix(buf, calls)
    PROVE  /\ \A c : CountOf(buf, c) <= CountOf(calls, c)
           /\ \A tool : NameCount(buf, tool) <= NameCount(calls, tool)
<1> DEFINE off == Len(calls) - Len(buf)
<1>1. /\ off \in Nat /\ Len(buf) \in Nat /\ Len(calls) = off + Len(buf)
      /\ DOMAIN buf = 1 .. Len(buf) /\ DOMAIN calls = 1 .. Len(calls)
      /\ \A i \in 1 .. Len(buf) : off + i \in 1 .. Len(calls) /\ buf[i] = calls[off + i]
  <2>1. WindowSize \in Nat
    BY WindowNumbers
  <2>2. Len(buf) \in Nat /\ Len(calls) \in Nat
    OBVIOUS
  <2>3. Len(buf) = IF Len(calls) < WindowSize THEN Len(calls) ELSE WindowSize
    BY DEF Suffix
  <2>4. Len(buf) <= Len(calls)
    BY <2>1, <2>2, <2>3
  <2>. QED BY <2>2, <2>4 DEF Suffix
<1> HIDE DEF off
<1>2. ASSUME NEW A \in SUBSET DOMAIN buf, NEW B \in SUBSET DOMAIN calls,
             \A i \in A : off + i \in B
      PROVE  Cardinality(A) <= Cardinality(B)
  <2>1. IsFiniteSet(B)
    BY CountsBounded
  <2> DEFINE f == [i \in A |-> off + i]
  <2>2. f \in [A -> B]
    BY <1>2
  <2>3. \A i, k \in A : f[i] = f[k] => i = k
    BY <1>1
  <2> HIDE DEF f
  <2>4. f \in Injection(A, B)
    BY <2>2, <2>3 DEF Injection, IsInjective
  <2>. QED BY <2>1, <2>4, FS_Injection
<1>3. ASSUME NEW c PROVE CountOf(buf, c) <= CountOf(calls, c)
  BY <1>1, <1>2 DEF CountOf
<1>4. ASSUME NEW tool PROVE NameCount(buf, tool) <= NameCount(calls, tool)
  BY <1>1, <1>2 DEF NameCount
<1>. QED BY <1>3, <1>4

\* The critical counts are numbers, and at least two for the exact axis.
LEMMA LimitsAre ==
    ASSUME NEW tool
    PROVE  /\ TiersOf(tool)["critical"].exact \in Nat /\ TiersOf(tool)["critical"].exact >= 2
           /\ TiersOf(tool)["critical"].name \in Nat
<1>1. 1 \in 1 .. 3 /\ Tiers[1] = "critical"
  BY DEF Tiers
<1>2. TiersOf(tool) \in {WorkTiers, MetaTiers}
  BY DEF TiersOf
<1>. QED BY <1>1, <1>2, LoopAssumption

\* A tool is critical only if it repeats itself exactly and hits a critical count.
LEMMA CriticalTool ==
    ASSUME NEW buf, NEW tool, ToolSeverity(buf, tool) = "critical", NameCap # "critical",
           ExactCount(buf, tool) \in Nat
    PROVE  /\ ExactCount(buf, tool) >= 2
           /\ HitExact(buf, tool, "critical") \/ HitName(buf, tool, "critical")
<1>1. "critical" \in Hits(buf, tool)
  BY SeverityIs
<1>2. PICK tier \in ToSet(Tiers) : /\ HitExact(buf, tool, tier) \/ HitName(buf, tool, tier)
                                   /\ Emitted(buf, tool, tier) = "critical"
  BY <1>1 DEF Hits
<1>3. tier = "critical"
  BY <1>2 DEF Emitted
<1>4. TierRank(NameCap) > 1
  BY LoopAssumption, Ranks
<1>5. HitExact(buf, tool, "critical") \/ ~(ExactCount(buf, tool) < 2)
  BY <1>2, <1>3, <1>4, Ranks DEF Emitted
<1>6. HitExact(buf, tool, "critical") => ExactCount(buf, tool) >= 2
  BY LimitsAre DEF HitExact
<1>. QED BY <1>2, <1>3, <1>5, <1>6

\* A critical loop is one in the calls of the pass since the last progress.
LEMMA CriticalIsRealHolds == LoopInv => CriticalIsReal
<1> SUFFICES ASSUME LoopInv, NEW b \in LoopAgents, severity[b] = "critical", NameCap # "critical"
             PROVE  \E c \in ToSet(since[b]) :
                       /\ CountOf(since[b], c) >= 2
                       /\ \/ CountOf(since[b], c) >= TiersOf(c[1])["critical"].exact
                          \/ /\ TiersOf(c[1])["critical"].name # 0
                             /\ NameCount(since[b], c[1]) >= TiersOf(c[1])["critical"].name
  BY DEF CriticalIsReal
<1>1. /\ buffer[b] \in Seq(ToolCalls) /\ since[b] \in Seq(ToolCalls) /\ since[b] # <<>>
      /\ Suffix(buffer[b], since[b]) /\ Classify(buffer[b]) = "critical"
  BY DEF LoopInv
<1>2. buffer[b] # <<>>
  <2>1. Len(since[b]) > 0
    BY <1>1
  <2>2. Len(buffer[b]) > 0
    BY <1>1, <2>1, LoopAssumption DEF Suffix
  <2>. QED BY <2>2
<1>3. PICK i \in DOMAIN buffer[b] : ToolSeverity(buffer[b], buffer[b][i][1]) = "critical"
  BY <1>1, <1>2, ClassifyIs
<1> DEFINE tool == buffer[b][i][1]
<1>4. buffer[b][i] \in ToolCalls
  BY <1>1
<1>5. Args # {}
  BY <1>4 DEF Args
<1>6. ExactCount(buffer[b], tool) \in Nat
  BY <1>1, <1>5, ExactIs
<1>7. /\ ExactCount(buffer[b], tool) >= 2
      /\ HitExact(buffer[b], tool, "critical") \/ HitName(buffer[b], tool, "critical")
  BY <1>3, <1>6, CriticalTool
<1>8. PICK x \in Args : ExactCount(buffer[b], tool) = CountOf(buffer[b], <<tool, x>>)
  BY <1>1, <1>5, ExactIs
<1> DEFINE c == <<tool, x>>
<1> HIDE DEF tool
<1>9. CountOf(since[b], c) \in Nat /\ NameCount(since[b], tool) \in Nat
      /\ NameCount(buffer[b], tool) \in Nat
  BY <1>1, CountsBounded DEF CountOf, NameCount
<1>10. CountOf(since[b], c) >= ExactCount(buffer[b], tool)
  BY <1>1, <1>6, <1>8, <1>9, NoMoreInWindow
<1>11. NameCount(since[b], tool) >= NameCount(buffer[b], tool)
  BY <1>1, <1>9, NoMoreInWindow
<1>12. CountOf(since[b], c) >= 2
  BY <1>6, <1>7, <1>9, <1>10
<1>13. c \in ToSet(since[b])
  <2>1. {k \in DOMAIN since[b] : since[b][k] = c} # {}
    BY <1>12, FS_EmptySet DEF CountOf
  <2>. QED BY <2>1 DEF ToSet
<1>14. c[1] = tool
  OBVIOUS
<1>15. \/ CountOf(since[b], c) >= TiersOf(tool)["critical"].exact
       \/ /\ TiersOf(tool)["critical"].name # 0
          /\ NameCount(since[b], tool) >= TiersOf(tool)["critical"].name
  BY <1>6, <1>7, <1>9, <1>10, <1>11, LimitsAre DEF HitExact, HitName
<1> HIDE DEF c
<1>. QED BY <1>12, <1>13, <1>14, <1>15

\* A streak of some length covers the end of the calls.
LEMMA StreakCovers ==
    ASSUME LoopInv, NEW b \in LoopAgents, NEW limit \in Nat, Streak(b) >= limit, limit > 0
    PROVE  LET n == Len(since[b])
           IN  limit <= n /\ \A m \in (n - limit) + 1 .. n : since[b][m] = since[b][n]
<1> DEFINE n == Len(since[b])
           St == {i \in 1 .. n : \A j \in i .. n : since[b][j] = since[b][n]}
<1>1. n \in Nat
  BY DEF LoopInv
<1>2. Streak(b) = Cardinality(St)
  BY DEF Streak
<1>3. IsFiniteSet(1 .. n) /\ Cardinality(1 .. n) = n
  <2>1. 0 + 1 = 1 /\ 0 <= n /\ n - 0 = n
    BY <1>1
  <2>. QED BY <1>1, <2>1, Segment
<1>4. Cardinality(St) \in Nat /\ Cardinality(St) <= n
  BY <1>1, <1>3, FS_Subset, FS_CardinalityType
<1>5. limit <= n
  BY <1>1, <1>2, <1>4
<1>6. ASSUME NEW m \in (n - limit) + 1 .. n, since[b][m] # since[b][n] PROVE FALSE
  <2>1. m \in 1 .. n
    BY <1>1, <1>5
  <2>2. \A i \in St : i \in m + 1 .. n
    <3> SUFFICES ASSUME NEW i \in St, i <= m PROVE FALSE
      BY <1>1, <2>1
    <3>1. m \in i .. n
      BY <2>1
    <3>. QED BY <1>6, <3>1
  <2>3. IsFiniteSet(m + 1 .. n) /\ Cardinality(m + 1 .. n) = n - m
    BY <1>1, <2>1, Segment
  <2>4. Cardinality(St) <= n - m
    <3> DEFINE J == m + 1 .. n
    <3>1. St \subseteq J /\ IsFiniteSet(J) /\ Cardinality(J) = n - m
      BY <2>2, <2>3
    <3> HIDE DEF St, n, J
    <3>2. Cardinality(St) <= Cardinality(J)
      BY <3>1, FS_Subset
    <3>. QED BY <3>1, <3>2
  <2>5. n - m < limit
    BY <1>1, <2>1
  <2> HIDE DEF St
  <2>. QED BY <1>1, <1>2, <1>4, <2>1, <2>4, <2>5
<1>. QED BY <1>5, <1>6

\* A streak that fits the window is called critical.
LEMMA LoopsCaughtHolds == LoopInv => LoopsCaught
<1> SUFFICES ASSUME LoopInv, NEW b \in LoopAgents, since[b] # <<>>,
                    NEW tool, tool = since[b][Len(since[b])][1],
                    NEW limit, limit = TiersOf(tool)["critical"].exact,
                    limit <= WindowSize, Streak(b) >= limit
             PROVE  severity[b] = "critical"
  BY DEF LoopsCaught
<1>1. limit \in Nat /\ limit >= 2
  BY LimitsAre
<1> DEFINE n == Len(since[b])
           buf == buffer[b]
           l == Len(buf)
           c == since[b][n]
<1>2. /\ buf \in Seq(ToolCalls) /\ since[b] \in Seq(ToolCalls) /\ n \in Nat /\ l \in Nat
      /\ Suffix(buf, since[b]) /\ severity[b] = Classify(buf) /\ DOMAIN buf = 1 .. l
  BY DEF LoopInv
<1>3. limit <= n /\ \A m \in (n - limit) + 1 .. n : since[b][m] = c
  BY <1>1, StreakCovers
<1>4. limit <= l /\ l <= n /\ \A i \in 1 .. l : buf[i] = since[b][(n - l) + i]
  <2>1. WindowSize \in Nat
    BY <1>2, WindowNumbers
  <2>2. /\ l = IF n < WindowSize THEN n ELSE WindowSize
        /\ \A i \in 1 .. l : buf[i] = since[b][(n - l) + i]
    BY <1>2 DEF Suffix
  <2> HIDE DEF n, l, buf
  <2>. QED BY <1>1, <1>2, <1>3, <2>1, <2>2
<1>5. \A i \in (l - limit) + 1 .. l : i \in 1 .. l /\ buf[i] = c
  <2> SUFFICES ASSUME NEW i \in (l - limit) + 1 .. l PROVE i \in 1 .. l /\ buf[i] = c
    OBVIOUS
  <2>1. i \in 1 .. l /\ (n - l) + i \in (n - limit) + 1 .. n
    <3>1. \A x, y, z \in Nat : x <= y /\ y <= z /\ x >= 1 /\ i \in (y - x) + 1 .. y =>
             i \in 1 .. y /\ (z - y) + i \in (z - x) + 1 .. z
      OBVIOUS
    <3> HIDE DEF l, n
    <3>2. limit >= 1 /\ limit <= l /\ l <= n /\ limit \in Nat /\ l \in Nat /\ n \in Nat
      BY <1>1, <1>2, <1>3, <1>4
    <3>. QED BY <3>1, <3>2
  <2>. QED BY <1>3, <1>4, <2>1
<1>6. buf[l] = c /\ l \in 1 .. l /\ c \in ToolCalls /\ buf # <<>>
  BY <1>1, <1>2, <1>4, <1>5
<1>7. c = <<tool, c[2]>> /\ c[2] \in Args
  BY <1>6, LoopAssumption DEF Args
<1>8. CountOf(buf, c) >= limit
  <2>1. (l - limit) + 1 .. l \subseteq {i \in DOMAIN buf : buf[i] = c}
    BY <1>2, <1>5
  <2>2. IsFiniteSet({i \in DOMAIN buf : buf[i] = c})
    BY <1>2, CountsBounded
  <2>3. Cardinality((l - limit) + 1 .. l) = limit
    <3>1. l - limit \in Nat /\ l - limit <= l /\ l - (l - limit) = limit
      BY <1>1, <1>2, <1>4
    <3> HIDE DEF l
    <3>. QED BY <1>2, <3>1, Segment
  <2> HIDE DEF l, buf, c
  <2>4. Cardinality((l - limit) + 1 .. l) <= CountOf(buf, c)
    BY <2>1, <2>2, FS_Subset DEF CountOf
  <2>5. CountOf(buf, c) \in Nat
    BY <2>2, FS_CardinalityType DEF CountOf
  <2>. QED BY <1>1, <2>3, <2>4, <2>5
<1>9. ExactCount(buf, tool) >= limit
  <2>1. CountOf(buf, c) <= ExactCount(buf, tool) /\ ExactCount(buf, tool) \in Nat
    BY <1>2, <1>7, ExactIs
  <2>2. CountOf(buf, c) \in Nat
    BY <1>2, CountsBounded DEF CountOf
  <2>. QED BY <1>1, <1>8, <2>1, <2>2
<1>10. HitExact(buf, tool, "critical")
  BY <1>1, <1>9 DEF HitExact
<1>11. Emitted(buf, tool, "critical") = "critical" /\ "critical" \in ToSet(Tiers)
  BY <1>10, TheTiers DEF Emitted
<1>12. ToolSeverity(buf, tool) = "critical"
  BY <1>10, <1>11, SeverityIs DEF Hits
<1>13. Classify(buf) = "critical"
  <2>1. l \in DOMAIN buf /\ buf[l][1] = tool
    BY <1>2, <1>6
  <2>. QED BY <1>2, <1>6, <1>12, <2>1, ClassifyIs
<1>. QED BY <1>2, <1>13

\* LoopsToldApart: for any tiers the code can have and any window, what is
\* called critical is a loop of this pass, and a loop of one pass that the window
\* can hold is called critical; across passes the tracker forgets.
THEOREM LoopsToldApartHolds == DetectorsSpec => []LoopsToldApart
BY LoopInvHolds, CriticalIsRealHolds, LoopsCaughtHolds, PTL DEF LoopsToldApart
=============================================================================
