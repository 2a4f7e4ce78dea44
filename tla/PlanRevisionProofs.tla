------------------------- MODULE PlanRevisionProofs -------------------------
(***************************************************************************)
(* Proofs about PlanRevision, for every set of tasks, keys and coroutines. *)
(***************************************************************************)
EXTENDS PlanRevision, TLAPS

-----------------------------------------------------------------------------
(***************************************************************************)
(* Types.                                                                  *)
(***************************************************************************)

\* The plan operators return plans.
LEMMA PlanType ==
    ASSUME NEW s \in Plans, NEW c \in Plans
    PROVE  /\ NoPlan \in Plans
           /\ Fold(c, s) \in Plans
           /\ Preserve(c, s) \in Plans
BY DEF Plans, NoPlan, Fold, Preserve, Status, Terminal

\* _apply_revision returns a plan.
LEMMA AppliedType ==
    ASSUME TypeOK, NEW c \in Plans
    PROVE  Applied(c) \in Plans
<1>1. st \in Plans BY DEF TypeOK
<1>2. Fold(c, st) \in Plans BY <1>1, PlanType
<1>. QED BY <1>1, <1>2, PlanType DEF Applied

\* The end of a coroutine's frame preserves the types of what it resets.
LEMMA LeaveType ==
    ASSUME TypeOK, NEW p \in Procs, Leave(p)
    PROVE  /\ pc' = [pc EXCEPT ![p] = "idle"]
           /\ inflight' \subseteq Stamped
           /\ key' \in [Procs -> Keys \cup {NoKey}]
           /\ key' = [key EXCEPT ![p] = NoKey]
           /\ obs' \in [Procs -> Nat]
           /\ hash' \in [Procs -> Hashes \cup {NoHash}]
           /\ hash' = [hash EXCEPT ![p] = NoHash]
           /\ base' \in [Procs -> Plans]
           /\ nrev' \in [Procs -> Nat]
           /\ nst' \in [Procs -> Plans]
           /\ dry' \in [Procs -> BOOLEAN]
<1>1. NoPlan \in Plans BY DEF Plans, NoPlan, Status
<1>2. dry' \in [Procs -> BOOLEAN] BY DEF TypeOK, Leave
<1>3. base' \in [Procs -> Plans] /\ nst' \in [Procs -> Plans]
  BY <1>1 DEF TypeOK, Leave
<1>. QED BY <1>2, <1>3 DEF TypeOK, Leave

\* Entering _emit_plan_revised, at once or by way of the queue, preserves the
\* types.
LEMMA EmitType ==
    ASSUME TypeOK, NEW p \in Procs \ Growers, NEW r \in Nat,
           NEW s \in Plans, NEW d \in BOOLEAN,
           EmitPlanRevised(p, r, s, d),
           inflight' = inflight, done' \subseteq Keys, fails' \in [Keys -> Nat]
    PROVE  TypeOK'
<1>1. CASE LockFree /\ Install(p, r, s, d) /\ UNCHANGED <<queue, nrev, nst, dry>>
  <2>1. /\ rev' \in Nat /\ st' \in Plans /\ addressed' \in [Keys -> Nat]
        /\ UNCHANGED <<used, key, obs, hash, base, nrev, nst, dry>>
        /\ holder' = p /\ pc' = [pc EXCEPT ![p] = "emitting"]
    BY <1>1 DEF TypeOK, Install
  <2>. QED BY <2>1 DEF TypeOK
<1>2. CASE /\ pc' = [pc EXCEPT ![p] = "waiting"]
           /\ nrev' = [nrev EXCEPT ![p] = r]
           /\ nst' = [nst EXCEPT ![p] = s]
           /\ dry' = [dry EXCEPT ![p] = d]
           /\ UNCHANGED <<plan, addressed, holder, key, obs, hash, base>>
  <2>1. dry' \in [Procs -> BOOLEAN] BY <1>2 DEF TypeOK
  <2>2. nst' \in [Procs -> Plans] BY <1>2 DEF TypeOK
  <2>. QED BY <1>2, <2>1, <2>2 DEF TypeOK, plan
<1>. QED BY <1>1, <1>2 DEF EmitPlanRevised

\* Descriptive growth preserves the types of the plan.
LEMMA GrowType ==
    ASSUME TypeOK, NEW h \in Hashes, Grow(h)
    PROVE  rev' \in Nat /\ st' \in Plans /\ used' \subseteq Discovered
<1>1. CASE UNCHANGED plan BY <1>1 DEF TypeOK, plan
<1>2. CASE rev' = rev + 1 /\ \E t \in Discovered \ used :
               st' = [st EXCEPT ![t] = "LIVE"] /\ used' = used \cup {t}
  <2>1. PICK t \in Discovered :
           st' = [st EXCEPT ![t] = "LIVE"] /\ used' = used \cup {t}
    BY <1>2
  <2>2. t \in Tasks BY DEF Tasks
  <2>3. st' \in Plans BY <2>1, <2>2 DEF TypeOK, Plans, Status
  <2>. QED BY <1>2, <2>1, <2>3 DEF TypeOK
<1>. QED BY <1>1, <1>2 DEF Grow

\* Initially the types are right.
LEMMA TypeInit == Init => TypeOK
<1>. SUFFICES ASSUME Init PROVE TypeOK
  OBVIOUS
<1>1. st \in Plans BY DEF Init, Plans, Status
<1>2. NoPlan \in Plans BY DEF Plans, NoPlan, Status
<1>3. base \in [Procs -> Plans] /\ nst \in [Procs -> Plans] BY <1>2 DEF Init
<1>4. dry \in [Procs -> BOOLEAN] BY DEF Init
<1>5. \A p \in Growers : pc[p] # "waiting" BY DEF Init, Procs
<1>. QED BY <1>1, <1>3, <1>4, <1>5 DEF Init, TypeOK

\* Every step preserves the types.
LEMMA TypeStep == TypeOK /\ [Next]_vars => TypeOK'
<1>. SUFFICES ASSUME TypeOK, [Next]_vars PROVE TypeOK'
  OBVIOUS
<1>. USE DEF plan, gates, lock, frame
<1>1. ASSUME NEW p \in Handlers, NEW k \in Keys, Observe(p, k) PROVE TypeOK'
  BY <1>1, KeyAssumption DEF Observe, TypeOK, Procs
<1>2. ASSUME NEW p \in Handlers, DropDrift(p) PROVE TypeOK'
  BY <1>2 DEF DropDrift, TypeOK, Procs
<1>3. ASSUME NEW p \in Handlers, HandleDrift(p) PROVE TypeOK'
  BY <1>3, KeyAssumption DEF HandleDrift, TypeOK, Procs
<1>4. ASSUME NEW p \in Handlers, RefineAttempted(p) \/ CallPlanner(p) PROVE TypeOK'
  BY <1>4 DEF RefineAttempted, CallPlanner, TypeOK, Procs
<1>5. ASSUME NEW p \in Procs, NoRevision(p) \/ TurnKeepsPlan(p) PROVE TypeOK'
  BY <1>5, LeaveType DEF NoRevision, TurnKeepsPlan, TypeOK, Procs
<1>6. ASSUME NEW p \in Handlers, RefineFails(p) PROVE TypeOK'
  <2>1. p \in Procs /\ Leave(p) BY <1>6 DEF RefineFails, Procs
  <2>2. key[p] \in Keys BY <1>6, <2>1 DEF RefineFails, TypeOK
  <2>3. st' \in Plans /\ done' \subseteq Keys /\ fails' \in [Keys -> Nat]
    <3>1. CASE key[p] \in Trajectory
      BY <1>6, <3>1 DEF RefineFails, TypeOK
    <3>2. CASE key[p] \notin Trajectory
      <4>1. done' \subseteq Keys BY <1>6, <3>2 DEF RefineFails, TypeOK
      <4>2. (IF key[p] \in done THEN 1 ELSE fails[key[p]] + 1) \in Nat
        BY <2>2 DEF TypeOK
      <4>3. fails' \in [Keys -> Nat] BY <1>6, <3>2, <4>2 DEF RefineFails, TypeOK
      <4>4. st' = st \/ st' = [st EXCEPT ![TaskOf[key[p]]] = "FAILED"]
        BY <1>6, <3>2 DEF RefineFails
      <4>5. st' \in Plans BY <4>4 DEF TypeOK, Plans, Status, Terminal
      <4>. QED BY <4>1, <4>3, <4>5
    <3>. QED BY <3>1, <3>2
  <2>. QED BY <1>6, <2>1, <2>3, LeaveType DEF RefineFails, TypeOK, Procs
<1>7. ASSUME NEW p \in Handlers, RefineReturns(p) PROVE TypeOK'
  <2>1. p \in Procs \ Growers BY ProcAssumption DEF Procs
  <2>2. key[p] \in Keys BY <1>7, <2>1 DEF RefineReturns, TypeOK
  <2>3. PICK c \in Candidates(base[p]) :
           EmitPlanRevised(p, rev + 1, Applied(c), ~Active /\ key[p] \notin UserKeys)
    BY <1>7 DEF RefineReturns
  <2>4. c \in Plans BY DEF Candidates
  <2>5. Applied(c) \in Plans BY <2>4, AppliedType
  <2>6. inflight' = inflight /\ done' \subseteq Keys /\ fails' \in [Keys -> Nat]
    BY <1>7, <2>2 DEF RefineReturns, TypeOK
  <2>7. rev + 1 \in Nat BY DEF TypeOK
  <2>8. (~Active /\ key[p] \notin UserKeys) \in BOOLEAN OBVIOUS
  <2>. HIDE DEF Applied
  <2>. DEFINE s == Applied(c)  d == (~Active /\ key[p] \notin UserKeys)  r == rev + 1
  <2>9. EmitPlanRevised(p, r, s, d) BY <2>3
  <2>10. r \in Nat /\ s \in Plans /\ d \in BOOLEAN BY <2>5, <2>7, <2>8
  <2>. HIDE DEF r, s, d
  <2>. QED BY <2>1, <2>6, <2>9, <2>10, EmitType
<1>8. ASSUME NEW p \in Turns, StartTurn(p) \/ TurnPlanned(p) PROVE TypeOK'
  <2>1. CASE StartTurn(p)
    BY <2>1 DEF StartTurn, TypeOK, Procs
  <2>2. CASE TurnPlanned(p)
    <3>1. PICK c \in Candidates(base[p]) : nst' = [nst EXCEPT ![p] = Fold(c, st)]
      BY <2>2 DEF TurnPlanned
    <3>2. Fold(c, st) \in Plans
      BY PlanType DEF TypeOK, Candidates
    <3>. QED BY <2>2, <3>1, <3>2 DEF TurnPlanned, TypeOK, Procs
  <2>. QED BY <1>8, <2>1, <2>2
<1>9. ASSUME NEW p \in Turns, TurnInstalls(p) PROVE TypeOK'
  <2>1. p \in Procs \ Growers BY ProcAssumption DEF Procs
  <2>. DEFINE s == Applied(nst[p])  r == rev + 1
  <2>2. EmitPlanRevised(p, r, s, FALSE) BY <1>9 DEF TurnInstalls
  <2>3. r \in Nat /\ s \in Plans
    BY <2>1, AppliedType DEF TypeOK
  <2>4. inflight' = inflight /\ done' \subseteq Keys /\ fails' \in [Keys -> Nat]
    BY <1>9 DEF TurnInstalls, TypeOK
  <2>. HIDE DEF r, s
  <2>. QED BY <2>1, <2>2, <2>3, <2>4, EmitType
<1>10. ASSUME NEW p \in Turns, TurnPivots(p) PROVE TypeOK'
  <2>1. p \in Procs \ Growers BY ProcAssumption DEF Procs
  <2>2. PICK new \in SUBSET Planned :
           EmitPlanRevised(p, rev + 1,
               Applied([t \in Tasks |-> IF t \in new THEN "LIVE" ELSE "ABSENT"]), FALSE)
    BY <1>10 DEF TurnPivots
  <2>. DEFINE c == [t \in Tasks |-> IF t \in new THEN "LIVE" ELSE "ABSENT"]
              s == Applied(c)  r == rev + 1
  <2>3. EmitPlanRevised(p, r, s, FALSE) BY <2>2
  <2>4. c \in Plans BY DEF Plans, Status
  <2>5. s \in Plans BY <2>4, AppliedType
  <2>6. r \in Nat BY DEF TypeOK
  <2>7. inflight' = inflight /\ done' \subseteq Keys /\ fails' \in [Keys -> Nat]
    BY <1>10 DEF TurnPivots, TypeOK
  <2>. HIDE DEF r, s
  <2>. QED BY <2>1, <2>3, <2>5, <2>6, <2>7, EmitType
<1>11. ASSUME NEW p \in Growers, NEW h \in Hashes, InstallGrowth(p, h) PROVE TypeOK'
  <2>1. CASE LockFree /\ Grow(h) /\ UNCHANGED <<queue, pc, hash>>
    BY <1>11, <2>1, GrowType DEF InstallGrowth, TypeOK
  <2>2. CASE /\ pc' = [pc EXCEPT ![p] = "waiting"]
             /\ hash' = [hash EXCEPT ![p] = h]
             /\ UNCHANGED plan
    BY <1>11, <2>2 DEF InstallGrowth, TypeOK, Procs
  <2>. QED BY <1>11, <2>1, <2>2 DEF InstallGrowth
<1>12. ASSUME NEW p \in Growers, GrowthGranted(p) PROVE TypeOK'
  <2>1. p \in Procs /\ Leave(p) /\ hash[p] \in Hashes
    BY <1>12 DEF GrowthGranted, TypeOK, Procs
  <2>2. rev' \in Nat /\ st' \in Plans /\ used' \subseteq Discovered
    BY <1>12, <2>1, GrowType DEF GrowthGranted
  <2>. QED BY <1>12, <2>1, <2>2, LeaveType DEF GrowthGranted, TypeOK, Procs
<1>13. ASSUME NEW p \in Procs, LockGranted(p) PROVE TypeOK'
  <2>1. /\ rev' \in Nat /\ st' \in Plans /\ addressed' \in [Keys -> Nat]
        /\ UNCHANGED <<used, key, obs, hash, base, nrev, nst, dry, inflight, done, fails>>
        /\ holder' = p /\ pc' = [pc EXCEPT ![p] = "emitting"]
    <3>1. nrev[p] \in Nat /\ nst[p] \in Plans BY DEF TypeOK
    <3>2. CASE dry[p] BY <1>13, <3>2 DEF LockGranted, Install, TypeOK
    <3>3. CASE ~dry[p]
      <4>1. rev' = nrev[p] /\ st' = nst[p] BY <1>13, <3>3 DEF LockGranted, Install
      <4>2. addressed' \in [Keys -> Nat]
        BY <1>13, <3>1, <3>3 DEF LockGranted, Install, TypeOK
      <4>. QED BY <1>13, <3>1, <4>1, <4>2 DEF LockGranted, Install
    <3>. QED BY <3>2, <3>3
  <2>. QED BY <2>1 DEF TypeOK, Procs
<1>14. ASSUME NEW p \in Procs, EmissionsDone(p) \/ Cancelled(p) PROVE TypeOK'
  BY <1>14, LeaveType DEF EmissionsDone, Cancelled, TypeOK, Procs
<1>15. ASSUME NEW t \in Tasks, NEW to \in Terminal, MarkTask(t, to) PROVE TypeOK'
  BY <1>15 DEF MarkTask, TypeOK, Plans, Status
<1>16. CASE UNCHANGED vars
  BY <1>16 DEF vars, TypeOK
<1>. QED
  BY <1>1, <1>2, <1>3, <1>4, <1>5, <1>6, <1>7, <1>8, <1>9, <1>10, <1>11, <1>12,
     <1>13, <1>14, <1>15, <1>16
  DEF Next, HandlerNext, TurnNext, Procs

\* Every reachable state of the plan, its gates and its writers is well typed.
THEOREM TypeCorrect == Spec => []TypeOK
BY TypeInit, TypeStep, PTL DEF Spec

-----------------------------------------------------------------------------
(***************************************************************************)
(* The gates of handle_drift.                                              *)
(*                                                                         *)
(* VerdictStaysFresh is not inductive by itself: another handler of the    *)
(* same key could advance the watermark.  That there is none is            *)
(* OneHandlerPerKey, which in turn needs that a coroutine at rest has no   *)
(* key.                                                                    *)
(***************************************************************************)

\* A coroutine at rest has no drift.
RestHasNoKey == \A p \in Procs : pc[p] = "idle" => key[p] = NoKey

\* The inductive invariant.
GateInv == TypeOK /\ RestHasNoKey /\ OneHandlerPerKey /\ VerdictStaysFresh

\* The four ways in which a step of p touches its frame and the gates: p
\* leaves, raises a drift, passes the gates, or goes on, possibly stamping the
\* watermark of its key when it installs.
Leaves(p) ==
    /\ pc' = [pc EXCEPT ![p] = "idle"]
    /\ key' = [key EXCEPT ![p] = NoKey]
    /\ inflight' = IF HoldsKey(p) THEN inflight \ {key[p]} ELSE inflight
    /\ obs' = [obs EXCEPT ![p] = 0]
    /\ addressed' = addressed
Raises(p) ==
    /\ pc[p] = "idle"
    /\ pc' = [pc EXCEPT ![p] = "observed"]
    /\ \E k \in Keys, r \in Nat : key' = [key EXCEPT ![p] = k] /\ obs' = [obs EXCEPT ![p] = r]
    /\ UNCHANGED <<inflight, addressed>>
GoesOn(p, at) ==
    /\ pc[p] \notin {"observed", "emitting"}
    /\ at \notin {"observed", "idle"}
    /\ pc' = [pc EXCEPT ![p] = at]
    /\ UNCHANGED <<key, obs, inflight>>
    /\ \/ addressed' = addressed
       \/ /\ at = "emitting"
          /\ key[p] \in Keys
          /\ \E r \in Nat : addressed' = [addressed EXCEPT ![key[p]] = r]

\* Every step is of one of these kinds or leaves frames and gates alone.
LEMMA StepKinds ==
    ASSUME TypeOK, [Next]_vars
    PROVE  \/ UNCHANGED <<pc, key, obs, inflight, addressed>>
           \/ \E p \in Procs :
                \/ Leaves(p) \/ Raises(p) \/ HandleDrift(p)
                \/ \E at \in {"dispatched", "attempted", "refining", "planning",
                              "announced", "waiting", "emitting"} : GoesOn(p, at)
<1>. DEFINE Goal == \/ UNCHANGED <<pc, key, obs, inflight, addressed>>
                    \/ \E p \in Procs :
                         \/ Leaves(p) \/ Raises(p) \/ HandleDrift(p)
                         \/ \E at \in {"dispatched", "attempted", "refining", "planning",
                                       "announced", "waiting", "emitting"} : GoesOn(p, at)
<1>. USE DEF plan, gates, lock, frame
<1>1. ASSUME NEW p \in Procs, NEW r \in Nat, NEW s, NEW d, Install(p, r, s, d),
             pc[p] \notin {"observed", "emitting"}, UNCHANGED inflight
      PROVE  GoesOn(p, "emitting")
  BY <1>1 DEF Install, GoesOn
<1>2. ASSUME NEW p \in Procs, NEW r \in Nat, NEW s, NEW d, EmitPlanRevised(p, r, s, d),
             pc[p] \notin {"observed", "emitting"}, UNCHANGED inflight
      PROVE  GoesOn(p, "emitting") \/ GoesOn(p, "waiting")
  <2>1. CASE Install(p, r, s, d) BY <1>1, <1>2, <2>1
  <2>2. CASE /\ pc' = [pc EXCEPT ![p] = "waiting"]
             /\ UNCHANGED <<plan, addressed, holder, key, obs, hash, base>>
    BY <1>2, <2>2 DEF GoesOn
  <2>. QED BY <1>2, <2>1, <2>2 DEF EmitPlanRevised
<1>3. ASSUME NEW p \in Procs, NEW k \in Keys, Observe(p, k) PROVE Raises(p)
  <2>1. (IF k \in Stamped THEN rev ELSE 0) \in Nat BY DEF TypeOK
  <2>. QED BY <1>3, <2>1 DEF Observe, Raises
<1>4. ASSUME NEW p \in Procs, DropDrift(p) PROVE Leaves(p)
  BY <1>4 DEF DropDrift, Leaves, HoldsKey
<1>5. ASSUME NEW p \in Procs, RefineAttempted(p) PROVE GoesOn(p, "attempted")
  BY <1>5 DEF RefineAttempted, GoesOn
<1>6. ASSUME NEW p \in Procs, CallPlanner(p) PROVE GoesOn(p, "refining")
  BY <1>6 DEF CallPlanner, GoesOn
<1>7. ASSUME NEW p \in Procs,
             \/ NoRevision(p) \/ RefineFails(p) \/ TurnKeepsPlan(p)
             \/ GrowthGranted(p) \/ EmissionsDone(p) \/ Cancelled(p)
      PROVE  Leaves(p)
  BY <1>7 DEF NoRevision, RefineFails, TurnKeepsPlan, GrowthGranted, EmissionsDone,
              Cancelled, Leave, Leaves
<1>8. ASSUME NEW p \in Procs, RefineReturns(p) \/ TurnInstalls(p) \/ TurnPivots(p)
      PROVE  GoesOn(p, "emitting") \/ GoesOn(p, "waiting")
  <2>1. /\ pc[p] \notin {"observed", "emitting"}
        /\ UNCHANGED inflight
        /\ \E s, d : EmitPlanRevised(p, rev + 1, s, d)
    BY <1>8 DEF RefineReturns, TurnInstalls, TurnPivots
  <2>2. rev + 1 \in Nat BY DEF TypeOK
  <2>. QED BY <1>2, <2>1, <2>2
<1>9. ASSUME NEW p \in Procs, StartTurn(p) PROVE GoesOn(p, "planning")
  BY <1>9 DEF StartTurn, GoesOn
<1>10. ASSUME NEW p \in Procs, TurnPlanned(p) PROVE GoesOn(p, "announced")
  BY <1>10 DEF TurnPlanned, GoesOn
<1>11. ASSUME NEW p \in Growers, NEW h \in Hashes, InstallGrowth(p, h)
       PROVE  UNCHANGED <<pc, key, obs, inflight, addressed>> \/ GoesOn(p, "waiting")
  BY <1>11 DEF InstallGrowth, GoesOn
<1>12. ASSUME NEW p \in Procs, LockGranted(p) PROVE GoesOn(p, "emitting")
  <2>1. nrev[p] \in Nat BY DEF TypeOK
  <2>. QED BY <1>1, <1>12, <2>1 DEF LockGranted
<1>13. ASSUME NEW t \in Tasks, NEW to \in Terminal, MarkTask(t, to)
       PROVE  UNCHANGED <<pc, key, obs, inflight, addressed>>
  BY <1>13 DEF MarkTask
<1>14. CASE UNCHANGED vars
  BY <1>14 DEF vars
<1>15. ASSUME NEW p \in Handlers, HandlerNext(p) PROVE Goal
  <2>. p \in Procs BY DEF Procs
  <2>. QED BY <1>15, <1>3, <1>4, <1>5, <1>6, <1>7, <1>8 DEF HandlerNext
<1>16. ASSUME NEW p \in Turns, TurnNext(p) PROVE Goal
  <2>. p \in Procs BY DEF Procs
  <2>. QED BY <1>16, <1>7, <1>8, <1>9, <1>10 DEF TurnNext
<1>17. ASSUME NEW p \in Growers, (\E h \in Hashes : InstallGrowth(p, h)) \/ GrowthGranted(p)
       PROVE  Goal
  <2>. p \in Procs BY DEF Procs
  <2>. QED BY <1>17, <1>7, <1>11
<1>18. ASSUME NEW p \in Procs, LockGranted(p) \/ EmissionsDone(p) \/ Cancelled(p)
       PROVE  Goal
  BY <1>18, <1>7, <1>12
<1>. QED
  BY <1>13, <1>14, <1>15, <1>16, <1>17, <1>18 DEF Next

\* The gates' invariant holds initially.
LEMMA GateInit == Init => RestHasNoKey /\ OneHandlerPerKey /\ VerdictStaysFresh
BY KeyAssumption DEF Init, RestHasNoKey, OneHandlerPerKey, VerdictStaysFresh, HoldsKey

\* Every step preserves the gates' invariant.
LEMMA GateStep ==
    ASSUME GateInv, [Next]_vars
    PROVE  (RestHasNoKey /\ OneHandlerPerKey /\ VerdictStaysFresh)'
<1>. TypeOK /\ RestHasNoKey /\ OneHandlerPerKey /\ VerdictStaysFresh
  BY DEF GateInv
<1>. NoKey \notin Stamped
  BY KeyAssumption
<1>1. CASE UNCHANGED <<pc, key, obs, inflight, addressed>>
  BY <1>1 DEF RestHasNoKey, OneHandlerPerKey, VerdictStaysFresh, HoldsKey
<1>2. ASSUME NEW p \in Procs, Leaves(p)
      PROVE  (RestHasNoKey /\ OneHandlerPerKey /\ VerdictStaysFresh)'
  <2>1. ~HoldsKey(p)' BY <1>2 DEF Leaves, HoldsKey, TypeOK
  <2>2. \A q \in Procs \ {p} : /\ HoldsKey(q)' <=> HoldsKey(q)
                               /\ pc'[q] = pc[q] /\ key'[q] = key[q] /\ obs'[q] = obs[q]
    BY <1>2 DEF Leaves, HoldsKey, TypeOK
  <2>3. RestHasNoKey' BY <1>2, <2>2 DEF Leaves, RestHasNoKey, TypeOK
  <2>4. VerdictStaysFresh' BY <1>2, <2>1, <2>2 DEF Leaves, VerdictStaysFresh
  <2>5. OneHandlerPerKey' BY <1>2, <2>1, <2>2 DEF Leaves, OneHandlerPerKey
  <2>. QED BY <2>3, <2>4, <2>5
<1>3. ASSUME NEW p \in Procs, Raises(p)
      PROVE  (RestHasNoKey /\ OneHandlerPerKey /\ VerdictStaysFresh)'
  <2>1. ~HoldsKey(p)' /\ ~HoldsKey(p)
    BY <1>3 DEF Raises, HoldsKey, TypeOK, RestHasNoKey
  <2>2. \A q \in Procs \ {p} : /\ HoldsKey(q)' <=> HoldsKey(q)
                               /\ pc'[q] = pc[q] /\ key'[q] = key[q] /\ obs'[q] = obs[q]
    BY <1>3 DEF Raises, HoldsKey, TypeOK
  <2>3. RestHasNoKey' BY <1>3, <2>2 DEF Raises, RestHasNoKey, TypeOK
  <2>4. VerdictStaysFresh' BY <1>3, <2>1, <2>2 DEF Raises, VerdictStaysFresh
  <2>5. OneHandlerPerKey' BY <1>3, <2>1, <2>2 DEF Raises, OneHandlerPerKey
  <2>. QED BY <2>3, <2>4, <2>5
<1>4. ASSUME NEW p \in Procs, HandleDrift(p)
      PROVE  (RestHasNoKey /\ OneHandlerPerKey /\ VerdictStaysFresh)'
  <2>1. /\ HoldsKey(p)' <=> key[p] \in Stamped
        /\ ~HoldsKey(p)
        /\ UNCHANGED <<key, obs, addressed>>
        /\ inflight' = IF key[p] \in Stamped THEN inflight \cup {key[p]} ELSE inflight
    BY <1>4 DEF HandleDrift, HoldsKey, TypeOK, frame
  <2>2. \A q \in Procs \ {p} : (HoldsKey(q)' <=> HoldsKey(q)) /\ pc'[q] = pc[q]
    BY <1>4 DEF HandleDrift, HoldsKey, TypeOK, frame
  <2>3. RestHasNoKey' BY <1>4, <2>1, <2>2 DEF HandleDrift, RestHasNoKey, TypeOK
  <2>4. key[p] \in Stamped => key[p] \notin inflight /\ addressed[key[p]] <= obs[p]
    <3>1. key[p] \in Stamped => addressed[key[p]] \in Nat /\ obs[p] \in Nat
      BY KeyAssumption DEF TypeOK
    <3>. QED BY <1>4, <3>1 DEF HandleDrift, Stale, Concurrent
  <2>5. VerdictStaysFresh' BY <2>1, <2>2, <2>4 DEF VerdictStaysFresh
  <2>6. OneHandlerPerKey' BY <2>1, <2>2, <2>4 DEF OneHandlerPerKey
  <2>. QED BY <2>3, <2>5, <2>6
<1>5. ASSUME NEW p \in Procs,
             NEW at \in {"dispatched", "attempted", "refining", "planning",
                         "announced", "waiting", "emitting"},
             GoesOn(p, at)
      PROVE  (RestHasNoKey /\ OneHandlerPerKey /\ VerdictStaysFresh)'
  <2>1. /\ HoldsKey(p)' <=> HoldsKey(p)
        /\ HoldsKey(p) <=> key[p] \in Stamped
        /\ UNCHANGED <<key, obs, inflight>>
    BY <1>5 DEF GoesOn, HoldsKey, TypeOK
  <2>2. \A q \in Procs \ {p} : (HoldsKey(q)' <=> HoldsKey(q)) /\ pc'[q] = pc[q]
    BY <1>5 DEF GoesOn, HoldsKey, TypeOK
  <2>3. RestHasNoKey' BY <1>5, <2>1, <2>2 DEF GoesOn, RestHasNoKey, TypeOK
  <2>4. OneHandlerPerKey' BY <2>1, <2>2 DEF OneHandlerPerKey
  <2>5. \A q \in Procs \ {p} : HoldsKey(q) => addressed'[key[q]] = addressed[key[q]]
    <3>1. \A q \in Procs \ {p} : HoldsKey(q) => key[q] # key[p] /\ key[q] \in Keys
      BY <2>1, KeyAssumption DEF OneHandlerPerKey, HoldsKey
    <3>. QED BY <1>5, <3>1 DEF GoesOn, TypeOK
  <2>6. VerdictStaysFresh'
    <3>1. ASSUME NEW q \in Procs \ {p}, HoldsKey(q)', pc'[q] # "emitting"
          PROVE  addressed'[key'[q]] <= obs'[q]
      BY <2>1, <2>2, <2>5, <3>1 DEF VerdictStaysFresh
    <3>2. ASSUME HoldsKey(p)', pc'[p] # "emitting"
          PROVE  addressed'[key'[p]] <= obs'[p]
      BY <1>5, <2>1, <3>2 DEF GoesOn, VerdictStaysFresh, TypeOK
    <3>. QED BY <3>1, <3>2 DEF VerdictStaysFresh
  <2>. QED BY <2>3, <2>4, <2>6
<1>. QED BY <1>1, <1>2, <1>3, <1>4, <1>5, StepKinds

\* The invariant is inductive, and so holds in every reachable state.
LEMMA GateInvHolds == Spec => []GateInv
<1>1. Init => GateInv BY TypeInit, GateInit DEF GateInv
<1>2. GateInv /\ [Next]_vars => GateInv' BY TypeStep, GateStep DEF GateInv
<1>. QED BY <1>1, <1>2, PTL DEF Spec

\* The answer of the freshness gate stays true until the revision is installed:
\* no revision is installed for a drift observed before its key was last
\* addressed.
THEOREM VerdictStaysFreshHolds == Spec => []VerdictStaysFresh
<1>1. GateInv => VerdictStaysFresh BY DEF GateInv
<1>. QED BY <1>1, GateInvHolds, PTL

\* The in-flight set holds exactly the keys being handled, each by one handler.
THEOREM OneHandlerPerKeyHolds == Spec => []OneHandlerPerKey
<1>1. GateInv => OneHandlerPerKey BY DEF GateInv
<1>. QED BY <1>1, GateInvHolds, PTL
-----------------------------------------------------------------------------
(***************************************************************************)
(* What is said of every plan.                                             *)
(*                                                                         *)
(* Besides session.plan there are the plans that coroutines carry across   *)
(* a suspension: the one the planner was given and the one to be           *)
(* installed.  A revision computed from an older plan may bring any of     *)
(* them back, so what holds of the plan has to hold of all of them.        *)
(***************************************************************************)

\* Plan s has none of the ids that growth has yet to hand out, u being those
\* it did, and one live task for each discovery: unless ledger mode adds the
\* live discoveries of the plan to those of a revision.
Sound(s, u) ==
    /\ s \in Plans
    /\ \A t \in Discovered \ u : s[t] = "ABSENT"
    /\ ~Ledger => \A t, v \in Discovered :
          s[t] = "LIVE" /\ s[v] = "LIVE" /\ Identity[t] = Identity[v] => t = v

\* The inductive invariant.
PlanInv ==
    /\ TypeOK
    /\ Sound(st, used)
    /\ \A p \in Procs : Sound(base[p], used) /\ Sound(nst[p], used)

\* The empty plan is sound.
LEMMA NoPlanSound == ASSUME NEW u PROVE Sound(NoPlan, u)
BY DEF Sound, NoPlan, Plans, Status, Terminal, Tasks

\* A planner hands out no discovered ids: what it returns for a sound plan is
\* sound.
LEMMA CandidateSound ==
    ASSUME NEW s, NEW u, Sound(s, u), NEW c \in Candidates(s)
    PROVE  Sound(c, u)
<1>1. s \in Plans /\ c \in Plans BY DEF Sound, Candidates
<1>2. \A t \in Discovered : /\ s[t] = "ABSENT" => c[t] = "ABSENT"
                            /\ c[t] = "LIVE" => s[t] = "LIVE"
  BY <1>1, TaskAssumption DEF Candidates, Plans, Status, Terminal, Tasks
<1>. QED BY <1>1, <1>2 DEF Sound

\* Folding the statuses of the plan in adds no task and brings none to life.
LEMMA FoldSound ==
    ASSUME NEW c, NEW u, Sound(c, u), NEW s \in Plans
    PROVE  Sound(Fold(c, s), u)
<1>1. c \in Plans BY DEF Sound
<1>2. Fold(c, s) \in Plans BY <1>1, PlanType
<1>3. \A t \in Discovered : /\ c[t] = "ABSENT" => Fold(c, s)[t] = "ABSENT"
                            /\ Fold(c, s)[t] = "LIVE" => c[t] = "LIVE"
  BY <1>1 DEF Fold, Plans, Status, Terminal, Tasks
<1>. QED BY <1>2, <1>3 DEF Sound

\* What ledger mode adds to a revision is in the plan.
LEMMA PreserveSound ==
    ASSUME NEW c, NEW s, NEW u, Sound(c, u), Sound(s, u)
    PROVE  Sound(Preserve(c, s), u)
<1>1. c \in Plans /\ s \in Plans BY DEF Sound
<1>2. Preserve(c, s) \in Plans BY <1>1, PlanType
<1>3. \A t \in Discovered :
         /\ c[t] = "ABSENT" /\ s[t] = "ABSENT" => Preserve(c, s)[t] = "ABSENT"
         /\ ~Ledger => Preserve(c, s)[t] = c[t]
  BY <1>1 DEF Preserve, Plans, Tasks
<1>. QED BY <1>2, <1>3 DEF Sound

\* _apply_revision returns a sound plan.
LEMMA AppliedSound ==
    ASSUME NEW c, Sound(c, used), Sound(st, used)
    PROVE  Sound(Applied(c), used)
<1>1. st \in Plans BY DEF Sound
<1>2. Sound(Fold(c, st), used) BY <1>1, FoldSound
<1>. QED BY <1>2, PreserveSound DEF Applied

\* A task that leaves the live ones leaves the plan sound.
LEMMA MarkSound ==
    ASSUME NEW s, NEW u, Sound(s, u), NEW t \in Tasks, NEW to \in Terminal, s[t] = "LIVE"
    PROVE  Sound([s EXCEPT ![t] = to], u)
BY DEF Sound, Plans, Status, Terminal, Tasks

\* A pivot has planned tasks only.
LEMMA PivotSound ==
    ASSUME NEW new \in SUBSET Planned, NEW u
    PROVE  Sound([t \in Tasks |-> IF t \in new THEN "LIVE" ELSE "ABSENT"], u)
BY TaskAssumption DEF Sound, Plans, Status, Terminal, Tasks

\* Growth hands out a fresh id for a discovery without a live task; the plans
\* carried across suspensions do not know the id.
LEMMA GrowSound ==
    ASSUME TypeOK, Sound(st, used), NEW h \in Hashes, Grow(h)
    PROVE  /\ Sound(st', used')
           /\ \A s : Sound(s, used) => Sound(s, used')
<1>1. CASE UNCHANGED plan BY <1>1 DEF plan
<1>2. CASE /\ \A t \in Discovered : Identity[t] = h => st[t] # "LIVE"
           /\ \E t \in Discovered \ used :
                /\ Identity[t] = h
                /\ st' = [st EXCEPT ![t] = "LIVE"]
                /\ used' = used \cup {t}
  <2>1. PICK t \in Discovered \ used :
           /\ Identity[t] = h
           /\ st' = [st EXCEPT ![t] = "LIVE"]
           /\ used' = used \cup {t}
    BY <1>2
  <2>2. st' \in Plans BY <2>1 DEF Sound, Plans, Status, Tasks
  <2>3. \A v \in Discovered \ used' : st'[v] = "ABSENT"
    BY <2>1 DEF Sound, Plans, Tasks
  <2>4. ASSUME ~Ledger, NEW v \in Discovered, NEW w \in Discovered,
               st'[v] = "LIVE", st'[w] = "LIVE", Identity[v] = Identity[w]
        PROVE  v = w
    BY <1>2, <2>1, <2>4 DEF Sound, Plans, Tasks
  <2>5. \A s : Sound(s, used) => Sound(s, used')
    BY <2>1 DEF Sound
  <2>. QED BY <2>2, <2>3, <2>4, <2>5 DEF Sound
<1>. QED BY <1>1, <1>2 DEF Grow

\* The frame of a coroutine that ends is empty.
LEMMA LeaveSound ==
    ASSUME TypeOK, NEW p \in Procs, Leave(p), NEW u,
           \A q \in Procs : Sound(base[q], u) /\ Sound(nst[q], u)
    PROVE  \A q \in Procs : Sound(base'[q], u) /\ Sound(nst'[q], u)
BY NoPlanSound DEF Leave, TypeOK

\* Whatever is installed or put into the queue is sound.
LEMMA EmitSound ==
    ASSUME PlanInv, NEW p \in Procs, NEW r, NEW s, NEW d,
           EmitPlanRevised(p, r, s, d), Sound(s, used)
    PROVE  /\ Sound(st', used')
           /\ \A q \in Procs : Sound(base'[q], used') /\ Sound(nst'[q], used')
<1>1. used' = used /\ base' = base
  BY DEF EmitPlanRevised, Install, plan
<1>2. st' = st \/ st' = s
  BY DEF EmitPlanRevised, Install, plan
<1>3. nst' = nst \/ nst' = [nst EXCEPT ![p] = s]
  BY DEF EmitPlanRevised
<1>4. \A q \in Procs : Sound(nst'[q], used)
  BY <1>3 DEF PlanInv, TypeOK
<1>. QED BY <1>1, <1>2, <1>4 DEF PlanInv

\* Initially every plan is sound.
LEMMA PlanInit == Init => PlanInv
<1>. SUFFICES ASSUME Init PROVE PlanInv
  OBVIOUS
<1>1. Sound(st, used) BY PivotSound, TaskAssumption DEF Init
<1>2. \A p \in Procs : base[p] = NoPlan /\ nst[p] = NoPlan BY DEF Init
<1>. QED BY <1>1, <1>2, NoPlanSound, TypeInit DEF PlanInv

\* Every step leaves every plan sound.
LEMMA PlanStep == PlanInv /\ [Next]_vars => PlanInv'
<1>. SUFFICES ASSUME PlanInv, [Next]_vars PROVE PlanInv'
  OBVIOUS
<1>. DEFINE Goal == /\ Sound(st', used')
                    /\ \A q \in Procs : Sound(base'[q], used') /\ Sound(nst'[q], used')
<1>. HIDE DEF Goal
<1>. USE DEF plan, gates, lock, frame
<1>0. /\ TypeOK /\ Sound(st, used) /\ st \in Plans
      /\ \A q \in Procs : Sound(base[q], used) /\ Sound(nst[q], used)
  BY DEF PlanInv, TypeOK
<1>1. ASSUME UNCHANGED <<st, used, base, nst>> PROVE Goal
  BY <1>0, <1>1 DEF Goal
<1>2. ASSUME NEW p \in Procs, CallPlanner(p) \/ StartTurn(p) PROVE Goal
  <2>1. base' = [base EXCEPT ![p] = st] /\ UNCHANGED <<st, used, nst>>
    BY <1>2 DEF CallPlanner, StartTurn
  <2>2. \A q \in Procs : base'[q] = st \/ base'[q] = base[q]
    BY <1>0, <2>1 DEF TypeOK
  <2>. QED BY <1>0, <2>1, <2>2 DEF Goal
<1>3. ASSUME NEW p \in Procs, Leave(p), UNCHANGED <<st, used>> PROVE Goal
  BY <1>0, <1>3, LeaveSound DEF Goal
<1>4. ASSUME NEW p \in Procs, RefineFails(p) PROVE Goal
  <2>1. pc[p] = "refining" /\ Leave(p) /\ used' = used BY <1>4 DEF RefineFails
  <2>2. \/ st' = st
        \/ st[TaskOf[key[p]]] = "LIVE" /\ st' = [st EXCEPT ![TaskOf[key[p]]] = "FAILED"]
    BY <1>4 DEF RefineFails
  <2>3. TaskOf[key[p]] \in Tasks BY <1>0, <2>1, TaskAssumption DEF TypeOK
  <2>4. Sound(st', used') BY <1>0, <2>1, <2>2, <2>3, MarkSound DEF Terminal
  <2>. QED BY <1>0, <2>1, <2>4, LeaveSound DEF Goal
<1>5. ASSUME NEW p \in Procs, RefineReturns(p) PROVE Goal
  <2>1. PICK c \in Candidates(base[p]) :
           EmitPlanRevised(p, rev + 1, Applied(c), ~Active /\ key[p] \notin UserKeys)
    BY <1>5 DEF RefineReturns
  <2>2. Sound(Applied(c), used) BY <1>0, CandidateSound, AppliedSound
  <2>. DEFINE s == Applied(c)  d == (~Active /\ key[p] \notin UserKeys)  r == rev + 1
  <2>3. EmitPlanRevised(p, r, s, d) /\ Sound(s, used) BY <2>1, <2>2
  <2>. HIDE DEF r, s, d
  <2>. QED BY <2>3, EmitSound DEF Goal
<1>6. ASSUME NEW p \in Procs, TurnPlanned(p) PROVE Goal
  <2>1. PICK c \in Candidates(base[p]) : nst' = [nst EXCEPT ![p] = Fold(c, st)]
    BY <1>6 DEF TurnPlanned
  <2>2. Sound(Fold(c, st), used) BY <1>0, CandidateSound, FoldSound
  <2>3. \A q \in Procs : nst'[q] = Fold(c, st) \/ nst'[q] = nst[q]
    BY <1>0, <2>1 DEF TypeOK
  <2>4. UNCHANGED <<st, used, base>> BY <1>6 DEF TurnPlanned
  <2>. QED BY <1>0, <2>2, <2>3, <2>4 DEF Goal
<1>7. ASSUME NEW p \in Procs, TurnInstalls(p) PROVE Goal
  <2>. DEFINE s == Applied(nst[p])  r == rev + 1
  <2>1. EmitPlanRevised(p, r, s, FALSE) BY <1>7 DEF TurnInstalls
  <2>2. Sound(s, used) BY <1>0, AppliedSound
  <2>. HIDE DEF r, s
  <2>. QED BY <2>1, <2>2, EmitSound DEF Goal
<1>8. ASSUME NEW p \in Procs, TurnPivots(p) PROVE Goal
  <2>1. PICK new \in SUBSET Planned :
           EmitPlanRevised(p, rev + 1,
               Applied([t \in Tasks |-> IF t \in new THEN "LIVE" ELSE "ABSENT"]), FALSE)
    BY <1>8 DEF TurnPivots
  <2>. DEFINE c == [t \in Tasks |-> IF t \in new THEN "LIVE" ELSE "ABSENT"]
              s == Applied(c)  r == rev + 1
  <2>2. EmitPlanRevised(p, r, s, FALSE) BY <2>1
  <2>3. Sound(s, used) BY <1>0, PivotSound, AppliedSound
  <2>. HIDE DEF r, s
  <2>. QED BY <2>2, <2>3, EmitSound DEF Goal
<1>9. ASSUME NEW p \in Growers, NEW h \in Hashes, InstallGrowth(p, h) PROVE Goal
  <2>1. Grow(h) \/ UNCHANGED <<st, used>> BY <1>9 DEF InstallGrowth
  <2>2. UNCHANGED <<base, nst>> BY <1>9 DEF InstallGrowth
  <2>. QED BY <1>0, <2>1, <2>2, GrowSound DEF Goal
<1>10. ASSUME NEW p \in Growers, GrowthGranted(p) PROVE Goal
  <2>1. p \in Procs /\ Leave(p) /\ hash[p] \in Hashes /\ Grow(hash[p])
    BY <1>0, <1>10 DEF GrowthGranted, TypeOK, Procs
  <2>2. Sound(st', used') /\ \A s : Sound(s, used) => Sound(s, used')
    BY <1>0, <2>1, GrowSound
  <2>3. \A q \in Procs : Sound(base[q], used') /\ Sound(nst[q], used')
    BY <1>0, <2>2
  <2>. QED BY <1>0, <2>1, <2>2, <2>3, LeaveSound DEF Goal
<1>11. ASSUME NEW p \in Procs, LockGranted(p) PROVE Goal
  <2>1. UNCHANGED <<used, base, nst>> /\ (st' = st \/ st' = nst[p])
    BY <1>11 DEF LockGranted, Install
  <2>. QED BY <1>0, <2>1 DEF Goal
<1>12. ASSUME NEW t \in Tasks, NEW to \in Terminal, MarkTask(t, to) PROVE Goal
  BY <1>0, <1>12, MarkSound DEF MarkTask, Goal
<1>13. ASSUME NEW p \in Handlers, HandlerNext(p) PROVE Goal
  <2>. p \in Procs BY DEF Procs
  <2>1. CASE \/ \E k \in Keys : Observe(p, k)
             \/ DropDrift(p) \/ HandleDrift(p) \/ RefineAttempted(p)
    BY <1>1, <2>1 DEF Observe, DropDrift, HandleDrift, RefineAttempted
  <2>2. CASE NoRevision(p) BY <1>3, <2>2 DEF NoRevision
  <2>. QED BY <1>2, <1>4, <1>5, <1>13, <2>1, <2>2 DEF HandlerNext
<1>14. ASSUME NEW p \in Turns, TurnNext(p) PROVE Goal
  <2>. p \in Procs BY DEF Procs
  <2>1. CASE TurnKeepsPlan(p) BY <1>3, <2>1 DEF TurnKeepsPlan
  <2>. QED BY <1>2, <1>6, <1>7, <1>8, <1>14, <2>1 DEF TurnNext
<1>15. ASSUME NEW p \in Procs, LockGranted(p) \/ EmissionsDone(p) \/ Cancelled(p)
       PROVE  Goal
  BY <1>3, <1>11, <1>15 DEF EmissionsDone, Cancelled
<1>16. ASSUME UNCHANGED vars PROVE Goal
  BY <1>1, <1>16 DEF vars
<1>17. Goal
  BY <1>9, <1>10, <1>12, <1>13, <1>14, <1>15, <1>16 DEF Next
<1>. QED BY <1>0, <1>17, TypeStep DEF PlanInv, Goal

\* Every plan is sound in every reachable state.
LEMMA PlanInvHolds == Spec => []PlanInv
BY PlanInit, PlanStep, PTL DEF Spec

\* Outside ledger mode two discoveries of the same work never both have a live
\* task, whatever revisions, pivots and growers write in whatever order.
THEOREM OneLiveDiscoveryHolds == Spec => []OneLiveDiscovery
<1>1. PlanInv => OneLiveDiscovery BY DEF PlanInv, Sound, OneLiveDiscovery
<1>. QED BY <1>1, PlanInvHolds, PTL

\* A candidate that passes validation keeps every finished task, and so does
\* the plan that is made of it.
LEMMA ValidKeepsFinished ==
    ASSUME NEW c \in Plans, st \in Plans, Valid(Fold(c, st), st),
           NEW t \in Tasks, st[t] \in Terminal
    PROVE  Applied(c)[t] = st[t]
<1>. DEFINE f == Fold(c, st)
<1>1. f[t] = st[t] BY DEF Valid
<1>. HIDE DEF f
<1>2. Preserve(f, st)[t] = f[t] BY <1>1 DEF Preserve, Terminal
<1>. QED BY <1>1, <1>2 DEF Applied, f

\* Growth touches no finished task: the ids it hands out are in no plan.
LEMMA GrowKeepsFinished ==
    ASSUME Sound(st, used), NEW h, Grow(h), NEW t \in Tasks, st[t] \in Terminal
    PROVE  st'[t] = st[t]
<1>1. CASE UNCHANGED plan BY <1>1 DEF plan
<1>2. CASE \E v \in Discovered \ used : st' = [st EXCEPT ![v] = "LIVE"]
  <2>1. PICK v \in Discovered \ used : st' = [st EXCEPT ![v] = "LIVE"] BY <1>2
  <2>2. st[v] = "ABSENT" BY DEF Sound
  <2>3. v # t BY <2>2 DEF Terminal
  <2>. QED BY <2>1, <2>3 DEF Sound, Plans
<1>. QED BY <1>1, <1>2 DEF Grow

\* A revision that enters _emit_plan_revised is installed, waits, or is only
\* announced.
LEMMA EmitOutcomes ==
    ASSUME TypeOK, NEW p \in Procs, NEW r, NEW s, NEW d, EmitPlanRevised(p, r, s, d)
    PROVE  st' = st \/ (st' = s /\ pc'[p] = "emitting")
BY DEF EmitPlanRevised, Install, plan, TypeOK

\* What a step may do to a finished task.
LEMMA FinishedStep ==
    ASSUME PlanInv, [Next]_vars, NEW t \in Tasks, st[t] \in Terminal
    PROVE  \/ st'[t] = st[t]
           \/ \E p \in Procs : Installs(p) /\ pc[p] \in {"waiting", "announced", "planning"}
<1>. DEFINE Goal == \/ st'[t] = st[t]
                    \/ \E p \in Procs : Installs(p)
                          /\ pc[p] \in {"waiting", "announced", "planning"}
<1>. HIDE DEF Goal
<1>. USE DEF plan, gates, lock, frame
<1>0. TypeOK /\ Sound(st, used) /\ st \in Plans
  BY DEF PlanInv, TypeOK
<1>1. ASSUME UNCHANGED st PROVE Goal BY <1>1 DEF Goal
<1>2. ASSUME NEW p \in Procs, RefineFails(p) PROVE Goal
  <2>1. \/ st' = st
        \/ st[TaskOf[key[p]]] = "LIVE" /\ st' = [st EXCEPT ![TaskOf[key[p]]] = "FAILED"]
    BY <1>2 DEF RefineFails
  <2>2. "LIVE" \notin Terminal BY DEF Terminal
  <2>. QED BY <1>0, <2>1, <2>2 DEF Goal, Plans
<1>3. ASSUME NEW p \in Procs, RefineReturns(p) PROVE Goal
  <2>1. PICK c \in Candidates(base[p]) :
           /\ Valid(Fold(c, st), st)
           /\ EmitPlanRevised(p, rev + 1, Applied(c), ~Active /\ key[p] \notin UserKeys)
    BY <1>3 DEF RefineReturns
  <2>2. Applied(c)[t] = st[t]
    BY <1>0, <2>1, ValidKeepsFinished DEF Candidates
  <2>. DEFINE s == Applied(c)  d == (~Active /\ key[p] \notin UserKeys)  r == rev + 1
  <2>3. EmitPlanRevised(p, r, s, d) /\ s[t] = st[t] BY <2>1, <2>2
  <2>. HIDE DEF r, s, d
  <2>. QED BY <1>0, <2>3, EmitOutcomes DEF Goal
<1>4. ASSUME NEW p \in Procs, TurnInstalls(p) \/ TurnPivots(p) PROVE Goal
  <2>1. pc[p] \in {"announced", "planning"}
        /\ \E s : EmitPlanRevised(p, rev + 1, s, FALSE)
    BY <1>4 DEF TurnInstalls, TurnPivots
  <2>2. st' = st \/ pc'[p] = "emitting" BY <1>0, <2>1, EmitOutcomes
  <2>. QED BY <2>1, <2>2 DEF Goal, Installs
<1>5. ASSUME NEW p \in Growers, NEW h \in Hashes, InstallGrowth(p, h) PROVE Goal
  <2>1. Grow(h) \/ UNCHANGED st BY <1>5 DEF InstallGrowth
  <2>. QED BY <1>0, <2>1, GrowKeepsFinished DEF Goal
<1>6. ASSUME NEW p \in Growers, GrowthGranted(p) PROVE Goal
  BY <1>0, <1>6, GrowKeepsFinished DEF Goal, GrowthGranted
<1>7. ASSUME NEW p \in Procs, LockGranted(p) PROVE Goal
  <2>1. pc[p] = "waiting" /\ pc'[p] = "emitting"
    BY <1>0, <1>7 DEF LockGranted, Install, TypeOK
  <2>. QED BY <2>1 DEF Goal, Installs
<1>8. ASSUME NEW v \in Tasks, NEW to \in Terminal, MarkTask(v, to) PROVE Goal
  <2>1. v # t BY <1>8 DEF MarkTask, Terminal
  <2>. QED BY <1>0, <1>8, <2>1 DEF Goal, MarkTask, Plans
<1>9. ASSUME NEW p \in Handlers, HandlerNext(p) PROVE Goal
  <2>. p \in Procs BY DEF Procs
  <2>1. CASE \/ \E k \in Keys : Observe(p, k)
             \/ DropDrift(p) \/ HandleDrift(p) \/ RefineAttempted(p)
             \/ NoRevision(p) \/ CallPlanner(p)
    BY <1>1, <2>1 DEF Observe, DropDrift, HandleDrift, RefineAttempted, NoRevision,
                      CallPlanner
  <2>. QED BY <1>2, <1>3, <1>9, <2>1 DEF HandlerNext
<1>10. ASSUME NEW p \in Turns, TurnNext(p) PROVE Goal
  <2>. p \in Procs BY DEF Procs
  <2>1. CASE StartTurn(p) \/ TurnPlanned(p) \/ TurnKeepsPlan(p)
    BY <1>1, <2>1 DEF StartTurn, TurnPlanned, TurnKeepsPlan
  <2>. QED BY <1>4, <1>10, <2>1 DEF TurnNext
<1>11. ASSUME NEW p \in Procs, LockGranted(p) \/ EmissionsDone(p) \/ Cancelled(p)
       PROVE  Goal
  BY <1>1, <1>7, <1>11 DEF EmissionsDone, Cancelled
<1>12. ASSUME UNCHANGED vars PROVE Goal BY <1>1, <1>12 DEF vars
<1>13. Goal
  BY <1>5, <1>6, <1>8, <1>9, <1>10, <1>11, <1>12 DEF Next
<1>. QED BY <1>13 DEF Goal

\* A task that is finished stays as it is, unless a pivot replaces the plan or a
\* revision is installed that was computed before a suspension.
THEOREM FinishedTasksSurviveHolds == Spec => FinishedTasksSurvive
<1>1. PlanInv /\ [Next]_vars =>
        [\A t \in Tasks :
            st[t] \in Terminal /\ st'[t] # st[t] =>
                \E p \in Procs : Installs(p)
                    /\ pc[p] \in {"waiting", "announced", "planning"}]_vars
  BY FinishedStep
<1>. QED BY <1>1, PlanInvHolds, PTL DEF Spec, FinishedTasksSurvive

\* In ledger mode _apply_revision keeps the live discovered tasks of the plan.
LEMMA AppliedKeepsDiscoveries ==
    ASSUME Ledger, NEW c, NEW t \in Discovered, st[t] = "LIVE"
    PROVE  Applied(c)[t] # "ABSENT"
<1>1. t \in Tasks BY DEF Tasks
<1>. DEFINE f == Fold(c, st)
<1>. HIDE DEF f
<1>2. Preserve(f, st)[t] # "ABSENT" BY <1>1 DEF Preserve
<1>. QED BY <1>2 DEF Applied, f

\* What a step may do to a live discovered task in ledger mode.
LEMMA DiscoveryStep ==
    ASSUME TypeOK, [Next]_vars, Ledger, NEW t \in Discovered, st[t] = "LIVE"
    PROVE  \/ st'[t] # "ABSENT"
           \/ \E p \in Procs : Installs(p) /\ pc[p] = "waiting"
<1>. DEFINE Goal == \/ st'[t] # "ABSENT"
                    \/ \E p \in Procs : Installs(p) /\ pc[p] = "waiting"
<1>. HIDE DEF Goal
<1>. USE DEF plan, gates, lock, frame
<1>0. st \in Plans /\ t \in Tasks
  BY DEF TypeOK, Tasks
<1>1. ASSUME UNCHANGED st PROVE Goal BY <1>1 DEF Goal
<1>2. ASSUME NEW v, NEW to \in Status \ {"ABSENT"}, st' = [st EXCEPT ![v] = to] PROVE Goal
  BY <1>0, <1>2 DEF Goal, Plans
<1>3. ASSUME NEW p \in Procs, NEW r, NEW c, NEW d, EmitPlanRevised(p, r, Applied(c), d)
      PROVE  Goal
  <2>. DEFINE s == Applied(c)
  <2>1. s[t] # "ABSENT" BY AppliedKeepsDiscoveries
  <2>2. EmitPlanRevised(p, r, s, d) BY <1>3
  <2>. HIDE DEF s
  <2>. QED BY <2>1, <2>2, EmitOutcomes DEF Goal
<1>4. ASSUME NEW h, Grow(h) PROVE Goal
  <2>1. UNCHANGED st \/ \E v \in Discovered \ used : st' = [st EXCEPT ![v] = "LIVE"]
    BY <1>4 DEF Grow
  <2>. QED BY <1>1, <1>2, <2>1 DEF Status
<1>5. ASSUME NEW p \in Procs, RefineFails(p) PROVE Goal
  <2>1. UNCHANGED st \/ st' = [st EXCEPT ![TaskOf[key[p]]] = "FAILED"]
    BY <1>5 DEF RefineFails
  <2>. QED BY <1>1, <1>2, <2>1 DEF Status, Terminal
<1>6. ASSUME NEW p \in Procs, RefineReturns(p) \/ TurnInstalls(p) \/ TurnPivots(p)
      PROVE  Goal
  <2>1. \E c, d : EmitPlanRevised(p, rev + 1, Applied(c), d)
    BY <1>6 DEF RefineReturns, TurnInstalls, TurnPivots
  <2>. QED BY <1>3, <2>1
<1>7. ASSUME NEW p \in Growers, NEW h, InstallGrowth(p, h) PROVE Goal
  BY <1>1, <1>4, <1>7 DEF InstallGrowth
<1>8. ASSUME NEW p \in Growers, GrowthGranted(p) PROVE Goal
  BY <1>4, <1>8 DEF GrowthGranted
<1>9. ASSUME NEW p \in Procs, LockGranted(p) PROVE Goal
  <2>1. pc[p] = "waiting" /\ pc'[p] = "emitting"
    BY <1>9 DEF LockGranted, Install, TypeOK
  <2>. QED BY <2>1 DEF Goal, Installs
<1>10. ASSUME NEW v \in Tasks, NEW to \in Terminal, MarkTask(v, to) PROVE Goal
  BY <1>2, <1>10 DEF MarkTask, Status, Terminal
<1>11. ASSUME NEW p \in Handlers, HandlerNext(p) PROVE Goal
  <2>. p \in Procs BY DEF Procs
  <2>1. CASE \/ \E k \in Keys : Observe(p, k)
             \/ DropDrift(p) \/ HandleDrift(p) \/ RefineAttempted(p)
             \/ NoRevision(p) \/ CallPlanner(p)
    BY <1>1, <2>1 DEF Observe, DropDrift, HandleDrift, RefineAttempted, NoRevision,
                      CallPlanner
  <2>. QED BY <1>5, <1>6, <1>11, <2>1 DEF HandlerNext
<1>12. ASSUME NEW p \in Turns, TurnNext(p) PROVE Goal
  <2>. p \in Procs BY DEF Procs
  <2>1. CASE StartTurn(p) \/ TurnPlanned(p) \/ TurnKeepsPlan(p)
    BY <1>1, <2>1 DEF StartTurn, TurnPlanned, TurnKeepsPlan
  <2>. QED BY <1>6, <1>12, <2>1 DEF TurnNext
<1>13. ASSUME NEW p \in Procs, LockGranted(p) \/ EmissionsDone(p) \/ Cancelled(p)
       PROVE  Goal
  BY <1>1, <1>9, <1>13 DEF EmissionsDone, Cancelled
<1>14. ASSUME UNCHANGED vars PROVE Goal BY <1>1, <1>14 DEF vars
<1>15. Goal
  BY <1>7, <1>8, <1>10, <1>11, <1>12, <1>13, <1>14 DEF Next
<1>. QED BY <1>15 DEF Goal

\* In ledger mode a live discovered task is dropped only by a revision that
\* waited for the plan lock; one that finds it free keeps them all.
THEOREM LedgerKeepsDiscoveriesHolds == Spec => LedgerKeepsDiscoveries
<1>1. TypeOK /\ [Next]_vars =>
        [\A t \in Discovered :
            Ledger /\ st[t] = "LIVE" /\ st'[t] = "ABSENT" =>
                \E p \in Procs : Installs(p) /\ pc[p] = "waiting"]_vars
  BY DiscoveryStep
<1>. QED BY <1>1, TypeCorrect, PTL DEF Spec, LedgerKeepsDiscoveries
=============================================================================
