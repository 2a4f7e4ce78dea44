-------------------------- MODULE TaskReportsProofs --------------------------
(***************************************************************************)
(* Reports land on the task they are about, and an approval is answered by *)
(* a decision: the proofs of TaskReports' DecisionWasMade and              *)
(* LandsOnLineage, for any plan, agents and calls, and any number of       *)
(* reports, revisions and decisions.                                       *)
(*                                                                         *)
(* Both rest on the same facts: the pin that all calls share names a task  *)
(* or nothing, whichever rung of the ladder, rotation or report wrote it   *)
(* last, so that a report in flight is about a task; and a plan has its    *)
(* links to superseded tasks from its tasks alone.                         *)
(***************************************************************************)
EXTENDS TaskReports, FiniteSetTheorems, TLAPS

MaybeTasks == Tasks \cup {NoTask}
Requests == [tool : Tools \cup {"none"}, task : MaybeTasks]
Answers == [decision : {"none", "approve", "reject", "timeout"}, made : BOOLEAN]

\* A plan whose links are those its tasks are planned with.
Sound(p) ==
    /\ p \in Plans
    /\ \A r \in Tasks : p.supersedes[r] \in {Supersedes[r], NoTask}

Shapes ==
    /\ Sound(plan)
    /\ rev \in Nat
    /\ pin \in [task : MaybeTasks, rev : Nat]
    /\ DOMAIN phase = Calls
    /\ req \in [Calls -> Requests]
    /\ landed \in [Calls -> Requests]
    /\ waiter \in [Tasks -> {"none", "open", "set"}]
    /\ meta \in [Tasks -> {"none", "approve", "reject"}]
    /\ deciding \subseteq Tasks
    /\ answer \in [Calls -> Answers]

\* A report in flight is about a task.
InFlight ==
    \A c \in Calls : phase[c] \in {"reporting", "asking", "waiting"} => req[c].task \in Tasks

\* The decision is written down before the waiter is set.
WrittenFirst ==
    \A t \in Tasks : waiter[t] = "set" \/ t \in deciding => meta[t] # "none"

ReportsInv == Shapes /\ InFlight /\ WrittenFirst /\ DecisionWasMade

-----------------------------------------------------------------------------
(***************************************************************************)
(* Plans.                                                                  *)
(***************************************************************************)

\* A plan made of statuses is sound.
LEMMA PlanOfSound == ASSUME NEW s \in [Tasks -> Status] PROVE Sound(PlanOf(s))
<1> USE ReportsAssumption
<1> DEFINE has == {t \in Tasks : s[t] # "ABSENT"}
           E == {e \in Edges : e[1] \in has /\ e[2] \in has}
           L == [t \in Tasks |-> IF t \in has THEN Supersedes[t] ELSE NoTask]
<1>1. PlanOf(s) = [status |-> s, edges |-> E, supersedes |-> L]
  BY DEF PlanOf
<1>2. E \in SUBSET (Tasks \X Tasks)
  OBVIOUS
<1>3. L \in [Tasks -> Tasks \cup {NoTask}] /\ \A r \in Tasks : L[r] \in {Supersedes[r], NoTask}
  OBVIOUS
<1> HIDE DEF E, L
<1> QED
  BY <1>1, <1>2, <1>3 DEF Sound, Plans

\* Growth adds a task to a sound plan.
LEMMA GrownSound == ASSUME NEW p, Sound(p), NEW t \in Tasks
                    PROVE  Sound(PlanOf([p.status EXCEPT ![t] = "PENDING"]))
<1>1. [p.status EXCEPT ![t] = "PENDING"] \in [Tasks -> Status]
  BY DEF Sound, Plans, Status, Live
<1> QED
  BY <1>1, PlanOfSound

\* A transition of one task keeps a plan sound.
LEMMA StatusSound == ASSUME NEW p, Sound(p), NEW t \in Tasks, NEW to \in Status
                     PROVE  Sound(WithStatus(p, t, to))
BY DEF Sound, Plans, WithStatus

\* So does one with its cascade.
LEMMA CascadeSound == ASSUME NEW p, Sound(p), NEW t \in Tasks, NEW to \in Status
                      PROVE  Sound(WithCascade(p, t, to))
<1> DEFINE s == [u \in Tasks |->
                   IF u = t THEN to
                   ELSE IF u \in LiveReach(p, {t}) THEN "CANCELLED" ELSE p.status[u]]
<1>1. s \in [Tasks -> Status]
  BY DEF Sound, Plans, Status, Terminal
<1>2. WithCascade(p, t, to) = [p EXCEPT !.status = s]
  BY DEF WithCascade
<1> HIDE DEF s
<1> QED
  BY <1>1, <1>2 DEF Sound, Plans

\* And so does a revision.
LEMMA RevisedSound == ASSUME Sound(plan), NEW drop, NEW add PROVE Sound(Revised(drop, add))
<1> DEFINE s == [t \in Tasks |-> IF t \in drop THEN "CANCELLED"
                                 ELSE IF t \in add THEN "PENDING" ELSE plan.status[t]]
           new == PlanOf(s)
           E == {e \in new.edges :
                   ~(new.status[e[1]] \in Dead /\ new.status[e[2]] = "PENDING")}
<1>1. s \in [Tasks -> Status]
  BY DEF Sound, Plans, Status, Terminal, Live
<1>2. Sound(new)
  BY <1>1, PlanOfSound
<1>3. Revised(drop, add) = [new EXCEPT !.edges = E]
  BY DEF Revised
<1> HIDE DEF new
<1>4. E \in SUBSET (Tasks \X Tasks)
  BY <1>2 DEF Sound, Plans
<1> HIDE DEF E
<1> QED
  BY <1>2, <1>3, <1>4 DEF Sound, Plans

-----------------------------------------------------------------------------
(***************************************************************************)
(* The pin: every rung yields tasks, or none.                              *)
(***************************************************************************)

\* A ladder of two rungs yields what its rungs yield.
LEMMA ElseTasks == ASSUME NEW r, NEW n, r \subseteq MaybeTasks, n \subseteq MaybeTasks
                   PROVE  Else(r, n) \subseteq MaybeTasks
BY DEF Else

\* The rungs of the ladder yield tasks.
LEMMA AssigneeTasks == ASSUME NEW p, NEW o, NEW a PROVE ByAssignee(p, o, a) \subseteq MaybeTasks
<1> DEFINE ready == DagReady(p, o, a)
           open == Candidates(p, o, a)
<1>1. ready \subseteq Tasks /\ open \subseteq Tasks
  BY DEF DagReady, Candidates, Ids
<1>2. ByAssignee(p, o, a) = Else(Only(ready), Else(Scored(ready), Else(Only(open), Scored(open))))
  BY DEF ByAssignee
<1> HIDE DEF ready, open
<1>3. /\ Only(ready) \subseteq MaybeTasks /\ Scored(ready) \subseteq MaybeTasks
      /\ Only(open) \subseteq MaybeTasks /\ Scored(open) \subseteq MaybeTasks
  BY <1>1 DEF Only, Scored, MaybeTasks
<1> QED
  BY <1>2, <1>3, ElseTasks

\* The whole ladder of a turn yields a task or none.
LEMMA LadderTasks ==
    ASSUME NEW p, NEW o, NEW a, NEW pinned, NEW parent
    PROVE  Ladder(p, o, a, pinned, parent) \subseteq MaybeTasks
<1>1. Candidates(p, o, a) \subseteq Tasks
  BY DEF Candidates, Ids
<1>2. FromDelegation(p, o, a, pinned) \subseteq MaybeTasks
  BY <1>1 DEF FromDelegation, MaybeTasks
<1>3. FromParent(p, o, a, parent) \subseteq MaybeTasks
  <2> DEFINE next == {t \in Candidates(p, o, a) : <<parent, t>> \in p.edges}
  <2>1. next \subseteq Tasks
    BY <1>1
  <2>2. FromParent(p, o, a, parent) = Else(Only(next), Scored(next))
    BY DEF FromParent
  <2> HIDE DEF next
  <2>3. Only(next) \subseteq MaybeTasks /\ Scored(next) \subseteq MaybeTasks
    BY <2>1 DEF Only, Scored, MaybeTasks
  <2> QED
    BY <2>2, <2>3, ElseTasks
<1>4. FromReasoning(p, a) \subseteq MaybeTasks
  BY DEF FromReasoning, MaybeTasks
<1>5. FromCorrection(p, a) \subseteq MaybeTasks
  BY DEF FromCorrection, MaybeTasks
<1>6. FromBareName(p, o, a) \subseteq MaybeTasks
  BY AssigneeTasks DEF FromBareName, MaybeTasks
<1>7. BestGuess(p, o, a) \subseteq MaybeTasks
  BY <1>1 DEF BestGuess, MaybeTasks
<1>8. ByAssignee(p, o, a) \subseteq MaybeTasks
  BY AssigneeTasks
<1> DEFINE e6 == Else(FromBareName(p, o, a), BestGuess(p, o, a))
           e5 == Else(FromCorrection(p, a), e6)
           e4 == Else(FromReasoning(p, a), e5)
           e3 == Else(FromParent(p, o, a, parent), e4)
           e2 == Else(ByAssignee(p, o, a), e3)
<1>9. Ladder(p, o, a, pinned, parent) = Else(FromDelegation(p, o, a, pinned), e2)
  BY DEF Ladder
<1>10. e6 \subseteq MaybeTasks
  BY <1>6, <1>7, ElseTasks
<1>11. e5 \subseteq MaybeTasks
  BY <1>5, <1>10, ElseTasks
<1>12. e4 \subseteq MaybeTasks
  BY <1>4, <1>11, ElseTasks
<1>13. e3 \subseteq MaybeTasks
  BY <1>3, <1>12, ElseTasks
<1>14. e2 \subseteq MaybeTasks
  BY <1>8, <1>13, ElseTasks
<1> QED
  BY <1>2, <1>9, <1>14, ElseTasks

\* A delegation pins a task or none, with growth and without.
LEMMA DelegationTasks ==
    ASSUME NEW p, NEW S
    PROVE  DelegationChoice(p) \subseteq MaybeTasks /\ GrowthChoice(p, S) \subseteq MaybeTasks
BY DEF DelegationChoice, GrowthChoice, Eligible, Scored, MaybeTasks

-----------------------------------------------------------------------------
(***************************************************************************)
(* Lineage.                                                                *)
(***************************************************************************)

\* What is reachable is a task.
LEMMA ReachTasks == ASSUME NEW E, NEW S PROVE Reach(E, S) \subseteq Tasks
BY DEF Reach

\* More edges reach more.
LEMMA ReachMonotone == ASSUME NEW E, NEW F, E \subseteq F, NEW S
                       PROVE  Reach(E, S) \subseteq Reach(F, S)
BY DEF Reach

\* The end of an edge is reachable from its start.
LEMMA ReachEdge == ASSUME NEW E, NEW t \in Tasks, NEW r \in Tasks, <<t, r>> \in E
                   PROVE  r \in Reach(E, {t})
<1> SUFFICES ASSUME NEW C \in SUBSET Tasks, {t} \subseteq C,
                    \A e \in E : e[1] \in C => e[2] \in C
             PROVE  r \in C
  BY DEF Reach
<1> QED
  OBVIOUS

LineageEdges ==
    {<<Supersedes[r], r>> : r \in {q \in Tasks \ Corrects : Supersedes[q] # NoTask}}

\* A report about a task goes to a task of its lineage, or is refused.
LEMMA RoutedOnLineage == ASSUME Sound(plan), NEW t \in Tasks
                         PROVE  Routed(t) \subseteq Lineage(t) \cup {NoTask}
<1> USE NoTaskAssumption
<1>1. Lineage(t) = Reach(LineageEdges, {t})
  BY DEF Lineage, LineageEdges
<1>2. ASSUME NEW r \in Ids(plan) \ Corrects, NEW u \in Tasks, plan.supersedes[r] = u
      PROVE  <<u, r>> \in LineageEdges /\ r \in Tasks
  <2>1. r \in Tasks /\ u # NoTask
    BY DEF Ids
  <2>2. Supersedes[r] = u
    BY <1>2, <2>1 DEF Sound
  <2> QED
    BY <2>1, <2>2 DEF LineageEdges
<1>3. Effective(t) \subseteq Lineage(t)
  <2>1. ASSUME NEW e \in Handovers PROVE e \in LineageEdges
    <3>1. e \in Tasks \X Tasks /\ e[2] \in Replacements(e[1])
      BY DEF Handovers
    <3>2. e = <<e[1], e[2]>> /\ e[1] \in Tasks
      BY <3>1
    <3>3. e[2] \in Ids(plan) \ Corrects /\ plan.supersedes[e[2]] = e[1]
      BY <3>1 DEF Replacements
    <3> QED
      BY <1>2, <3>2, <3>3
  <2>2. Reach(Handovers, {t}) \subseteq Reach(LineageEdges, {t})
    BY <2>1, ReachMonotone
  <2> QED
    BY <1>1, <2>2 DEF Effective
<1>4. ASSUME NEW r \in Successors(t), r \notin Corrects PROVE r \in Lineage(t)
  <2>1. r \in Ids(plan) \ Corrects /\ plan.supersedes[r] = t
    BY <1>4 DEF Successors
  <2>2. <<t, r>> \in LineageEdges /\ r \in Tasks
    BY <1>2, <2>1
  <2> QED
    BY <1>1, <2>2, ReachEdge
<1>5. CASE pin.rev >= rev
  BY <1>3, <1>5 DEF Routed
<1>6. CASE ~(pin.rev >= rev)
  BY <1>4, <1>6 DEF Routed
<1> QED
  BY <1>5, <1>6
-----------------------------------------------------------------------------
(***************************************************************************)
(* The invariant.                                                          *)
(***************************************************************************)

\* At the start there are no reports and no requests.
LEMMA ReportsInit == Init => ReportsInv
<1> SUFFICES ASSUME Init PROVE ReportsInv
  OBVIOUS
<1> USE ReportsAssumption
<1>1. Sound(plan)
  <2> DEFINE s == [t \in Tasks |-> IF t \in InitialPlan THEN "PENDING" ELSE "ABSENT"]
  <2>1. s \in [Tasks -> Status]
    BY DEF Status, Live
  <2> QED
    BY <2>1, PlanOfSound DEF Init
<1>2. Shapes
  BY <1>1 DEF Init, Shapes, NoPin, NoRev, NoReq, NoAnswer, MaybeTasks, Requests, Answers
<1>3. InFlight
  BY DEF Init, InFlight
<1>4. WrittenFirst
  BY DEF Init, WrittenFirst
<1>5. DecisionWasMade
  BY DEF Init, DecisionWasMade, NoAnswer
<1> QED
  BY <1>2, <1>3, <1>4, <1>5 DEF ReportsInv

\* A step that leaves the approvals alone keeps the invariant if it writes a
\* sound plan, a pin that names a task or nothing, and sends no call on with a
\* report that is about nothing.
LEMMA PlainStep ==
    ASSUME ReportsInv, UNCHANGED approvals,
           Sound(plan'), rev' \in Nat, pin' \in [task : MaybeTasks, rev : Nat],
           DOMAIN phase' = Calls, req' \in [Calls -> Requests], landed' \in [Calls -> Requests],
           \A c \in Calls : phase'[c] \in {"reporting", "asking", "waiting"} =>
                               \/ phase'[c] = phase[c] /\ req'[c] = req[c]
                               \/ req'[c].task \in Tasks
    PROVE  ReportsInv'
<1>1. Shapes'
  BY DEF ReportsInv, Shapes, approvals
<1>2. InFlight'
  BY DEF ReportsInv, InFlight
<1>3. WrittenFirst'
  BY DEF ReportsInv, WrittenFirst, approvals
<1>4. DecisionWasMade'
  BY DEF ReportsInv, DecisionWasMade, approvals
<1> QED
  BY <1>1, <1>2, <1>3, <1>4 DEF ReportsInv

\* A call moves on to a point where nothing is in flight.
LEMMA MovesOn ==
    ASSUME ReportsInv, NEW c \in Calls, NEW to, Goto(c, to)
    PROVE  /\ DOMAIN phase' = Calls
           /\ phase'[c] = to
           /\ \A d \in Calls \ {c} : phase'[d] = phase[d]
BY DEF ReportsInv, Shapes, Goto

\* The pin of a delegation or of a turn.
LEMMA StampTyped ==
    ASSUME ReportsInv, NEW t \in MaybeTasks, Stamp(t)
    PROVE  pin' \in [task : MaybeTasks, rev : Nat]
BY DEF ReportsInv, Shapes, Stamp

\* The pin after a transition: the revision is left as it was.
LEMMA SyncTyped ==
    ASSUME ReportsInv, NEW t \in Tasks, NEW to, pin' = Synced(t, to)
    PROVE  pin' \in [task : MaybeTasks, rev : Nat]
<1> USE ReportsAssumption
<1>1. NoPin \in [task : MaybeTasks, rev : Nat]
  BY DEF NoPin, NoRev, MaybeTasks
<1>2. pin \in [task : MaybeTasks, rev : Nat] /\ t \in MaybeTasks
  BY DEF ReportsInv, Shapes, MaybeTasks
<1>3. [pin EXCEPT !.task = t] \in [task : MaybeTasks, rev : Nat]
  BY <1>2
<1> QED
  BY <1>1, <1>2, <1>3 DEF Synced

\* A transition writes a sound plan and a pin that names a task or nothing.
LEMMA ApplySound ==
    ASSUME ReportsInv, NEW tool \in Tools, NEW t \in Tasks, Apply(tool, t)
    PROVE  Sound(plan') /\ pin' \in [task : MaybeTasks, rev : Nat]
<1>1. Target(tool) \in Status /\ "FAILED" \in Status
  BY DEF Target, Status, Terminal, Live, Tools
<1>2. Sound(plan)
  BY DEF ReportsInv, Shapes
<1>3. /\ Sound(WithStatus(plan, t, Target(tool)))
      /\ Sound(WithStatus(plan, t, "FAILED"))
      /\ Sound(WithCascade(plan, t, "FAILED"))
  BY <1>1, <1>2, StatusSound, CascadeSound
<1>4. Sound(plan')
  BY <1>3 DEF Apply
<1>5. pin' \in [task : MaybeTasks, rev : Nat]
  BY SyncTyped DEF Apply
<1> QED
  BY <1>4, <1>5

\* Every step keeps the invariant.
LEMMA ReportsStep == ReportsInv /\ [Next]_vars => ReportsInv'
<1> SUFFICES ASSUME ReportsInv, [Next]_vars PROVE ReportsInv'
  OBVIOUS
<1> USE ReportsAssumption
<1> DEFINE Goal == ReportsInv'
           Pins == [task : MaybeTasks, rev : Nat]
<1>a. /\ Sound(plan) /\ rev \in Nat /\ pin \in Pins /\ DOMAIN phase = Calls
      /\ req \in [Calls -> Requests] /\ landed \in [Calls -> Requests]
  BY DEF ReportsInv, Shapes
<1>b. NoReq \in Requests
  BY DEF NoReq, Requests, MaybeTasks
<1> HIDE DEF Goal, Pins
<1>1. ASSUME NEW c \in Calls, Delegate(c) PROVE Goal
  <2>1. ASSUME NEW t \in MaybeTasks, PinDelegation(c, t) PROVE pin' \in Pins
    BY <2>1, StampTyped DEF PinDelegation, Pins
  <2>2. ASSUME Grow(c) PROVE Sound(plan') /\ pin' \in Pins
    <3>1. CASE UNCHANGED <<plan, owner, pin>>
      BY <1>a, <3>1
    <3>2. ASSUME NEW t \in Spare \ Ids(plan),
                 plan' = PlanOf([plan.status EXCEPT ![t] = "PENDING"]), PinDelegation(c, t)
          PROVE  Sound(plan') /\ pin' \in Pins
      <4>1. t \in Tasks /\ t \in MaybeTasks
        BY DEF MaybeTasks
      <4>2. Sound(plan')
        BY <1>a, <3>2, <4>1, GrownSound
      <4> QED
        BY <2>1, <3>2, <4>1, <4>2
    <3> QED
      BY <2>2, <3>1, <3>2 DEF Grow
  <2>3. Sound(plan') /\ pin' \in Pins
    <3>1. CASE Growth
      <4>1. PICK t \in GrowthChoice(plan, Spare) :
                IF t = NoTask THEN Grow(c) ELSE PinDelegation(c, t) /\ UNCHANGED plan
        BY <1>1, <3>1 DEF Delegate
      <4>2. t \in MaybeTasks
        BY DelegationTasks
      <4> QED
        BY <1>a, <2>1, <2>2, <4>1, <4>2
    <3>2. CASE ~Growth
      <4>1. PICK t \in DelegationChoice(plan) : PinDelegation(c, t) /\ UNCHANGED plan
        BY <1>1, <3>2 DEF Delegate
      <4>2. t \in MaybeTasks
        BY DelegationTasks
      <4> QED
        BY <1>a, <2>1, <4>1, <4>2
    <3> QED
      BY <3>1, <3>2
  <2>4. Goto(c, "delegated") /\ UNCHANGED <<rev, req, landed, approvals>>
    BY <1>1 DEF Delegate
  <2> QED
    BY <1>a, <2>3, <2>4, MovesOn, PlainStep DEF Goal, Pins
<1>2. ASSUME NEW c \in Calls, Dispatch(c) PROVE Goal
  <2>1. PICK redirect : Goto(c, IF redirect /\ ~Passive THEN "ended" ELSE "dispatched")
    BY <1>2 DEF Dispatch
  <2>2. UNCHANGED <<plan, rev, pin, req, landed, approvals>>
    BY <1>2 DEF Dispatch
  <2> QED
    BY <1>a, <2>1, <2>2, MovesOn, PlainStep DEF Goal, Pins
<1>3. ASSUME NEW c \in Calls, BeginTurn(c) PROVE Goal
  <2>1. PICK t \in Ladder(plan, owner, Callee[c], {callPin[d] : d \in Calls}, pin.task) : Stamp(t)
    BY <1>3 DEF BeginTurn
  <2>2. t \in MaybeTasks
    BY LadderTasks
  <2>3. pin' \in Pins
    BY <2>1, <2>2, StampTyped DEF Pins
  <2>4. Goto(c, "turn") /\ UNCHANGED <<plan, rev, req, landed, approvals>>
    BY <1>3 DEF BeginTurn
  <2> QED
    BY <1>a, <2>3, <2>4, MovesOn, PlainStep DEF Goal, Pins
<1>4. ASSUME NEW c \in Calls, EndTurn(c) PROVE Goal
  <2>1. /\ DOMAIN phase' = Calls /\ phase'[c] = "ended"
        /\ \A d \in Calls \ {c} : phase'[d] = phase[d]
    BY <1>4, MovesOn DEF EndTurn
  <2>2. /\ req' = [req EXCEPT ![c] = NoReq] /\ landed' = [landed EXCEPT ![c] = NoReq]
        /\ answer' = [answer EXCEPT ![c] = NoAnswer]
        /\ UNCHANGED <<plan, rev, pin, waiter, meta, deciding>>
    BY <1>4 DEF EndTurn, pins
  <2>3. req' \in [Calls -> Requests] /\ landed' \in [Calls -> Requests]
    BY <1>a, <1>b, <2>2
  <2>4. NoAnswer \in Answers /\ NoAnswer.made
    BY DEF NoAnswer, Answers
  <2>5. answer \in [Calls -> Answers] /\ \A d \in Calls : answer[d].made
    BY DEF ReportsInv, Shapes, DecisionWasMade
  <2>6. answer' \in [Calls -> Answers] /\ \A d \in Calls : answer'[d].made
    BY <2>2, <2>4, <2>5
  <2>7. Shapes'
    BY <2>1, <2>2, <2>3, <2>6 DEF ReportsInv, Shapes
  <2>8. InFlight'
    BY <1>a, <2>1, <2>2 DEF ReportsInv, InFlight
  <2>9. WrittenFirst'
    BY <2>2 DEF ReportsInv, WrittenFirst
  <2> QED
    BY <2>6, <2>7, <2>8, <2>9 DEF ReportsInv, DecisionWasMade, Goal
<1>5. ASSUME NEW c \in Calls, NEW tool \in Reports, Report(c, tool) PROVE Goal
  <2>1. UNCHANGED <<plan, rev, pin, landed, approvals>>
    BY <1>5 DEF Report, pins
  <2>2. CASE Resolved = NoTask
    BY <1>5, <1>a, <2>1, <2>2, PlainStep DEF Report, Goal, Pins
  <2>3. CASE Resolved # NoTask
    <3> DEFINE r == [tool |-> tool, task |-> Resolved]
    <3>1. r \in Requests /\ r.task \in Tasks
      BY <1>a, <2>3 DEF Resolved, Pins, MaybeTasks, Requests
    <3>2. req' = [req EXCEPT ![c] = r]
      BY <1>5, <2>3 DEF Report
    <3> HIDE DEF r
    <3>3. /\ req' \in [Calls -> Requests] /\ req'[c].task \in Tasks
          /\ \A d \in Calls \ {c} : req'[d] = req[d]
      BY <1>a, <3>1, <3>2
    <3>4. PICK to : Goto(c, to)
      BY <1>5, <2>3 DEF Report
    <3> QED
      BY <1>a, <2>1, <3>3, <3>4, MovesOn, PlainStep DEF Goal, Pins
  <2> QED
    BY <2>2, <2>3
<1>6. ASSUME NEW c \in Calls, Land(c) PROVE Goal
  <2>1. req[c].task \in Tasks /\ req[c] \in Requests
    BY <1>6, <1>a DEF Land, ReportsInv, InFlight
  <2>2. UNCHANGED <<rev, req, approvals>>
    BY <1>6 DEF Land
  <2>3. PICK t \in Routed(req[c].task) :
          IF t # NoTask /\ Transitions(req[c].tool, t)
          THEN /\ Apply(req[c].tool, t)
               /\ landed' = [landed EXCEPT ![c] = [req[c] EXCEPT !.task = t]]
               /\ Goto(c, IF Target(req[c].tool) \in Terminal THEN "rotating" ELSE "turn")
          ELSE Goto(c, "turn") /\ UNCHANGED <<plan, pin, landed>>
    BY <1>6 DEF Land
  <2>4. CASE t # NoTask /\ Transitions(req[c].tool, t)
    <3>1. t \in Tasks
      BY <1>a, <2>1, <2>4, RoutedOnLineage, ReachTasks DEF Lineage
    <3>2. [req[c] EXCEPT !.task = t] \in Requests
      BY <2>1, <3>1 DEF Requests, MaybeTasks
    <3>3. landed' \in [Calls -> Requests]
      BY <1>a, <2>3, <2>4, <3>2
    <3>4. req[c].tool \in Tools \cup {"none"} /\ Apply(req[c].tool, t)
      BY <2>1, <2>3, <2>4 DEF Requests
    <3>5. Sound(plan') /\ pin' \in Pins
      <4>1. CASE req[c].tool \in Tools
        BY <3>1, <3>4, <4>1, ApplySound DEF Pins
      <4>2. CASE req[c].tool = "none"
        <5>1. plan' = WithStatus(plan, t, "BLOCKED") /\ pin' = Synced(t, "BLOCKED")
          BY <3>4, <4>2 DEF Apply, Target
        <5> QED
          BY <1>a, <3>1, <5>1, StatusSound, SyncTyped DEF Pins, Status, Live
      <4> QED
        BY <3>4, <4>1, <4>2
    <3>6. PICK to \in {"rotating", "turn"} : Goto(c, to)
      BY <2>3, <2>4
    <3> QED
      BY <1>a, <2>2, <3>3, <3>5, <3>6, MovesOn, PlainStep DEF Goal, Pins
  <2>5. CASE ~(t # NoTask /\ Transitions(req[c].tool, t))
    BY <1>a, <2>2, <2>3, <2>5, MovesOn, PlainStep DEF Goal, Pins
  <2> QED
    BY <2>4, <2>5
<1>7. ASSUME NEW c \in Calls, Rotate(c) PROVE Goal
  <2> DEFINE left == Candidates(plan, owner, owner[landed[c].task])
             next == CHOOSE u \in left : TRUE
  <2>1. left \subseteq Tasks
    BY DEF Candidates, Ids
  <2>2. Cardinality(left) = 1 => next \in Tasks
    <3>1. left = {} => Cardinality(left) = 0
      BY FS_EmptySet
    <3> QED
      BY <2>1, <3>1
  <2>3. pin' = IF pin.task \notin {NoTask, landed[c].task} THEN pin
               ELSE IF Cardinality(left) = 1 THEN [task |-> next, rev |-> rev] ELSE NoPin
    BY <1>7 DEF Rotate
  <2> HIDE DEF left, next
  <2>4. NoPin \in Pins
    BY DEF NoPin, NoRev, MaybeTasks, Pins
  <2>5. pin' \in Pins
    BY <1>a, <2>2, <2>3, <2>4 DEF MaybeTasks, Pins
  <2>6. Goto(c, "turn") /\ UNCHANGED <<plan, rev, req, landed, approvals>>
    BY <1>7 DEF Rotate
  <2> QED
    BY <1>a, <2>5, <2>6, MovesOn, PlainStep DEF Goal, Pins
<1>8. ASSUME NEW c \in Calls, AskApproval(c) PROVE Goal
  <2>1. req[c].task \in Tasks
    BY <1>8 DEF AskApproval, ReportsInv, InFlight
  <2>2. UNCHANGED <<rev, req, landed, meta, deciding>>
    BY <1>8 DEF AskApproval
  <2> DEFINE t == req[c].task
  <2>3. CASE plan.status[t] \in Terminal
    <3>1. Goto(c, "turn") /\ UNCHANGED <<plan, pin, waiter, answer, decisions>>
      BY <1>8, <2>3 DEF AskApproval
    <3> QED
      BY <1>a, <2>2, <3>1, MovesOn, PlainStep DEF Goal, Pins, approvals
  <2>4. CASE plan.status[t] \notin Terminal
    <3>1. /\ waiter' = [waiter EXCEPT ![t] = IF @ = "none" THEN "open" ELSE @]
          /\ answer' = [answer EXCEPT ![c] = NoAnswer]
          /\ Goto(c, "waiting")
          /\ Apply("blocked", t) \/ UNCHANGED <<plan, pin>>
      BY <1>8, <2>4 DEF AskApproval
    <3>2. Sound(plan') /\ pin' \in Pins
      BY <1>a, <2>1, <3>1, ApplySound DEF Pins, Tools
    <3>3. NoAnswer \in Answers /\ NoAnswer.made
      BY DEF NoAnswer, Answers
    <3>4. answer \in [Calls -> Answers] /\ \A d \in Calls : answer[d].made
      BY DEF ReportsInv, Shapes, DecisionWasMade
    <3>5. answer' \in [Calls -> Answers] /\ \A d \in Calls : answer'[d].made
      BY <3>1, <3>3, <3>4
    <3>6. waiter \in [Tasks -> {"none", "open", "set"}]
      BY DEF ReportsInv, Shapes
    <3>7. /\ waiter' \in [Tasks -> {"none", "open", "set"}]
          /\ \A u \in Tasks : waiter'[u] = "set" => waiter[u] = "set"
      BY <2>1, <3>1, <3>6
    <3>8. /\ DOMAIN phase' = Calls /\ phase'[c] = "waiting"
          /\ \A d \in Calls \ {c} : phase'[d] = phase[d]
      BY <3>1, MovesOn
    <3>9. Shapes'
      BY <1>a, <2>2, <3>2, <3>5, <3>7, <3>8 DEF ReportsInv, Shapes, Pins
    <3>10. InFlight'
      BY <2>1, <2>2, <3>8 DEF ReportsInv, InFlight
    <3>11. WrittenFirst'
      BY <2>2, <3>7 DEF ReportsInv, WrittenFirst
    <3> QED
      BY <3>5, <3>9, <3>10, <3>11 DEF ReportsInv, DecisionWasMade, Goal
  <2> QED
    BY <2>3, <2>4
<1>9. ASSUME NEW c \in Calls, Answered(c) PROVE Goal
  <2> DEFINE t == req[c].task
             d == IF meta[t] = "none" THEN "approve" ELSE meta[t]
             ok == meta[t] = d
  <2>1. t \in Tasks /\ waiter[t] = "set"
    BY <1>9 DEF Answered, ReportsInv, InFlight
  <2>2. meta[t] \in {"approve", "reject"}
    BY <2>1 DEF ReportsInv, Shapes, WrittenFirst
  <2>3. d \in {"approve", "reject"} /\ ok = TRUE
    BY <2>2
  <2>4. answer' = [answer EXCEPT ![c].decision = d, ![c].made = ok]
    BY <1>9 DEF Answered
  <2> HIDE DEF d, ok
  <2>5. answer \in [Calls -> Answers] /\ \A x \in Calls : answer[x].made
    BY DEF ReportsInv, Shapes, DecisionWasMade
  <2>6. answer' \in [Calls -> Answers] /\ \A x \in Calls : answer'[x].made
    BY <2>3, <2>4, <2>5 DEF Answers
  <2>7. /\ DOMAIN phase' = Calls /\ phase'[c] = "turn"
        /\ \A x \in Calls \ {c} : phase'[x] = phase[x]
    BY <1>9, MovesOn DEF Answered
  <2>8. UNCHANGED <<waiter, meta, deciding, plan, rev, pin, req, landed>>
    BY <1>9 DEF Answered, pins
  <2>9. Shapes'
    BY <2>6, <2>7, <2>8 DEF ReportsInv, Shapes
  <2>10. InFlight'
    BY <2>7, <2>8 DEF ReportsInv, InFlight
  <2>11. WrittenFirst'
    BY <2>8 DEF ReportsInv, WrittenFirst
  <2> QED
    BY <2>6, <2>9, <2>10, <2>11 DEF ReportsInv, DecisionWasMade, Goal
<1>10. ASSUME NEW c \in Calls, ApprovalTimesOut(c) PROVE Goal
  <2>1. answer' = [answer EXCEPT ![c].decision = "timeout"]
    BY <1>10 DEF ApprovalTimesOut
  <2>2. answer \in [Calls -> Answers] /\ \A x \in Calls : answer[x].made
    BY DEF ReportsInv, Shapes, DecisionWasMade
  <2>3. answer' \in [Calls -> Answers] /\ \A x \in Calls : answer'[x].made
    BY <2>1, <2>2 DEF Answers
  <2>4. /\ DOMAIN phase' = Calls /\ phase'[c] = "turn"
        /\ \A x \in Calls \ {c} : phase'[x] = phase[x]
    BY <1>10, MovesOn DEF ApprovalTimesOut
  <2>5. UNCHANGED <<waiter, meta, deciding, plan, rev, pin, req, landed>>
    BY <1>10 DEF ApprovalTimesOut, pins
  <2>6. Shapes'
    BY <2>3, <2>4, <2>5 DEF ReportsInv, Shapes
  <2>7. InFlight'
    BY <2>4, <2>5 DEF ReportsInv, InFlight
  <2>8. WrittenFirst'
    BY <2>5 DEF ReportsInv, WrittenFirst
  <2> QED
    BY <2>3, <2>6, <2>7, <2>8 DEF ReportsInv, DecisionWasMade, Goal
<1>11. ASSUME NEW t \in Tasks, Release(t) PROVE Goal
  <2>1. /\ t \in deciding /\ deciding' = deciding \ {t}
        /\ waiter' = [waiter EXCEPT ![t] = "set"]
        /\ UNCHANGED <<meta, answer, plan, rev, pin, phase, req, landed>>
    BY <1>11 DEF Release, pins
  <2>2. Shapes'
    BY <2>1 DEF ReportsInv, Shapes
  <2>3. WrittenFirst'
    BY <2>1 DEF ReportsInv, Shapes, WrittenFirst
  <2>4. InFlight' /\ DecisionWasMade'
    BY <2>1 DEF ReportsInv, InFlight, DecisionWasMade
  <2> QED
    BY <2>2, <2>3, <2>4 DEF ReportsInv, Goal
<1>12. ASSUME NEW t \in Tasks, NEW d \in {"approve", "reject"}, Decide(t, d) PROVE Goal
  <2>1. /\ deciding' = deciding \cup {t} /\ meta' = [meta EXCEPT ![t] = d]
        /\ UNCHANGED <<waiter, answer, plan, rev, pin, phase, req, landed>>
    BY <1>12 DEF Decide, pins
  <2>2. Shapes'
    BY <2>1 DEF ReportsInv, Shapes
  <2>3. WrittenFirst'
    BY <2>1 DEF ReportsInv, Shapes, WrittenFirst
  <2>4. InFlight' /\ DecisionWasMade'
    BY <2>1 DEF ReportsInv, InFlight, DecisionWasMade
  <2> QED
    BY <2>2, <2>3, <2>4 DEF ReportsInv, Goal
<1>13. ASSUME Revise PROVE Goal
  <2>1. PICK drop, add : plan' = Revised(drop, add)
    BY <1>13 DEF Revise
  <2>2. Sound(plan')
    BY <1>a, <2>1, RevisedSound
  <2>3. rev' = rev + 1 /\ UNCHANGED <<pin, phase, req, landed, approvals>>
    BY <1>13 DEF Revise, pins
  <2> QED
    BY <1>a, <2>2, <2>3, PlainStep DEF Goal, Pins
<1>14. ASSUME UNCHANGED vars PROVE Goal
  BY <1>14, <1>a, PlainStep DEF vars, pins, Goal, Pins
<1>15. Goal
  BY <1>1, <1>2, <1>3, <1>4, <1>5, <1>6, <1>7, <1>8, <1>9, <1>10, <1>11, <1>12, <1>13, <1>14
     DEF Next
<1> QED
  BY <1>15 DEF Goal

\* The invariant holds.
LEMMA ReportsInvHolds == Spec => []ReportsInv
BY ReportsInit, ReportsStep, PTL DEF Spec

\* The answer to a request for approval is a decision of the operator about that
\* task, or a timeout, for any interleaving of requests, decisions, releases
\* and timeouts: _handle_awaiting_approval's default "approve" is never what an
\* agent gets.
THEOREM DecisionWasMadeHolds == Spec => []DecisionWasMade
<1>1. ReportsInv => DecisionWasMade
  BY DEF ReportsInv
<1> QED
  BY <1>1, ReportsInvHolds, PTL

-----------------------------------------------------------------------------
\* A step lands a report on the lineage of the task it is about.
LEMMA LandsStep ==
    ASSUME ReportsInv, [Next]_vars
    PROVE  \A c \in Calls :
             landed'[c] \notin {landed[c], NoReq} => landed'[c].task \in Lineage(req[c].task)
<1> SUFFICES ASSUME NEW c \in Calls, landed'[c] \notin {landed[c], NoReq}
             PROVE  landed'[c].task \in Lineage(req[c].task)
  OBVIOUS
<1>a. /\ Sound(plan) /\ req \in [Calls -> Requests] /\ landed \in [Calls -> Requests]
  BY DEF ReportsInv, Shapes
<1>1. ~UNCHANGED landed
  OBVIOUS
<1>2. \A d \in Calls : ~EndTurn(d)
  BY <1>a DEF EndTurn
<1>3. PICK d \in Calls : Land(d)
  BY <1>1, <1>2 DEF Next, vars, Delegate, Dispatch, BeginTurn, Report, Rotate, AskApproval,
                    Answered, ApprovalTimesOut, Release, Decide, Revise
<1>4. req[d].task \in Tasks /\ req[d] \in Requests
  BY <1>3, <1>a DEF Land, ReportsInv, InFlight
<1>5. PICK t \in Routed(req[d].task) :
        t # NoTask /\ landed' = [landed EXCEPT ![d] = [req[d] EXCEPT !.task = t]]
  BY <1>1, <1>3 DEF Land
<1>6. c = d /\ landed'[c].task = t
  BY <1>a, <1>4, <1>5 DEF Requests
<1>7. t \in Lineage(req[d].task)
  BY <1>a, <1>4, <1>5, RoutedOnLineage
<1> QED
  BY <1>6, <1>7

\* A report changes the task it was sent for or one that replaced it, however
\* other calls move the shared pin and however the plan is revised meanwhile; a
\* correction never takes over reports (_classify_and_route_pin,
\* _resolve_effective_task_id).
THEOREM LandsOnLineageHolds == Spec => LandsOnLineage
<1>1. ReportsInv /\ [Next]_vars =>
        [\A c \in Calls :
          landed'[c] \notin {landed[c], NoReq} => landed'[c].task \in Lineage(req[c].task)]_vars
  BY LandsStep
<1> QED
  BY <1>1, ReportsInvHolds, PTL DEF Spec, LandsOnLineage
=============================================================================
