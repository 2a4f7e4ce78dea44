------------------------ MODULE OverlayExecutorProofs ------------------------
(***************************************************************************)
(* The overlay loop: the proofs of OverlayExecutor's ClaimsMatchTurns,     *)
(* NoOrphans and SupersedeIsTold, for any plan, tree of agents and control *)
(* messages, and any number of replays and revisions.                      *)
(*                                                                         *)
(* The claims need that an agent with two turns open, or with one left     *)
(* behind, is on record as overlapped until its last turn has ended, and   *)
(* that the plan never loses a task, since a host that is planned when its *)
(* turn starts has to be planned when it ends; the sweep, that the plugin  *)
(* is detached by then, that its cancellations cascade and that a revision *)
(* hangs no pending task on a dead one; the mark, that it is made with the *)
(* cancellation and cleared only together with what it explains.           *)
(***************************************************************************)
EXTENDS OverlayExecutor, FiniteSetTheorems, TLAPS

MaybeTasks == Tasks \cup {NoTask}

Turns == [Calls -> MaybeTasks \cup {Closed}]

Shapes ==
    /\ plan \in Plans
    /\ claim \in [Agents -> MaybeTasks]
    /\ turn \in [Flights -> Turns]
    /\ sweep \subseteq Tasks

\* Where the loop is tells whether there is an invocation, and turns belong to
\* it or to one left behind.
Phases ==
    /\ Alive => pc \in {"race", "grace"}
    /\ ~Alive => turn["own"] = NoTurns
    /\ ~stray => turn["left"] = NoTurns
    /\ pc \in {"finalize", "audit", "sweep"} => why = "result"

\* The plugin is detached when the invocation has ended by itself, and stays so
\* until the next one.
Detached ==
    /\ pc = "race" /\ ~Alive => ~attached
    /\ pc = "grace" => why # "result"
    /\ pc = "returned" /\ why = "result" => ~attached
    /\ pc \in {"finalize", "audit", "sweep", "completed"} => ~attached

\* An agent that is not overlapped has one turn open at most, and its claim is
\* that turn's.
Told ==
    \A a \in Agents \ overlapped :
        /\ \A i \in OpenOf(a) : claim[a] = turn["own"][i] /\ OpenOf(a) = {i}
        /\ OpenOf(a) = {} => claim[a] = NoTask

\* The host has a claim only if the plan has a task for it; the turns left behind
\* are on record; and an iteration starts with what Told says.
LeftNoted == \A i \in Calls : turn["left"][i] # Closed => NameOf[i] \in overlapped
Claimed ==
    /\ claim[Host] # NoTask => Planned(Host)
    /\ LeftNoted
    /\ attached \/ pc = "top" => Told

\* The mark is there as long as the cancellation it explains is not handled.
Marked ==
    /\ flag => stamped
    /\ pc \in {"race", "grace", "returned"} /\ "supersede" \in causes => flag

\* What is pending behind a task that can never complete is still to be swept.
Hopeless(p, t) == p.status[t] \in Dead /\ ~(p.status[t] = "FAILED" /\ Superseders(p, t) # {})
Sealed(p, W) ==
    \A e \in p.edges : p.status[e[2]] = "PENDING" /\ Hopeless(p, e[1]) => e[2] \in W
Swept ==
    /\ pc = "sweep" => Sealed(plan, sweep)
    /\ NoOrphans

OverlayInv == Shapes /\ Phases /\ Detached /\ Claimed /\ Marked /\ Swept

-----------------------------------------------------------------------------
(***************************************************************************)
(* Plans keep their tasks.                                                 *)
(***************************************************************************)

\* The plan q has all tasks of the plan p.
Keeps(p, q) == q \in Plans /\ Ids(p) \subseteq Ids(q)

\* A plan made of statuses.
LEMMA PlanOfTyped == ASSUME NEW s \in [Tasks -> Status]
                     PROVE  PlanOf(s) \in Plans /\ PlanOf(s).status = s
<1> USE OverlayAssumption
<1> DEFINE has == {t \in Tasks : s[t] # "ABSENT"}
           E == {e \in Edges : e[1] \in has /\ e[2] \in has}
           L == [t \in Tasks |-> IF t \in has THEN Supersedes[t] ELSE NoTask]
<1>1. PlanOf(s) = [status |-> s, edges |-> E, supersedes |-> L]
  BY DEF PlanOf
<1>2. E \in SUBSET (Tasks \X Tasks) /\ L \in [Tasks -> Tasks \cup {NoTask}]
  OBVIOUS
<1> HIDE DEF E, L
<1> QED
  BY <1>1, <1>2 DEF Plans

\* Statuses that are not ABSENT where they were not before.
LEMMA StatusKeeps ==
    ASSUME NEW p \in Plans, NEW s \in [Tasks -> Status],
           \A t \in Tasks : s[t] = "ABSENT" => p.status[t] = "ABSENT"
    PROVE  Keeps(p, [p EXCEPT !.status = s])
BY DEF Keeps, Plans, Ids

\* A transition of one task.
LEMMA SetKeeps == ASSUME NEW p \in Plans, NEW t \in Tasks, NEW to \in Status \ {"ABSENT"}
                  PROVE  Keeps(p, WithStatus(p, t, to))
<1> DEFINE s == [p.status EXCEPT ![t] = to]
<1>1. s \in [Tasks -> Status] /\ \A u \in Tasks : s[u] = "ABSENT" => p.status[u] = "ABSENT"
  BY DEF Plans
<1>2. WithStatus(p, t, to) = [p EXCEPT !.status = s]
  BY DEF WithStatus
<1> HIDE DEF s
<1> QED
  BY <1>1, <1>2, StatusKeeps

\* A transition with its cascade.
LEMMA CascadeKeeps == ASSUME NEW p \in Plans, NEW t \in Tasks, NEW to \in Status \ {"ABSENT"}
                      PROVE  Keeps(p, WithCascade(p, t, to))
<1> DEFINE s == [u \in Tasks |->
                   IF u = t THEN to
                   ELSE IF u \in LiveReach(p, {t}) THEN "CANCELLED" ELSE p.status[u]]
<1>1. s \in [Tasks -> Status] /\ \A u \in Tasks : s[u] = "ABSENT" => p.status[u] = "ABSENT"
  BY DEF Plans, Status, Terminal
<1>2. WithCascade(p, t, to) = [p EXCEPT !.status = s]
  BY DEF WithCascade
<1> HIDE DEF s
<1> QED
  BY <1>1, <1>2, StatusKeeps

\* A rewind.
LEMMA RewindKeeps == ASSUME plan \in Plans, NEW t PROVE Keeps(plan, Rewound(t))
<1> DEFINE s == [u \in Tasks |->
                   IF u \in Reach(plan.edges, {t}) THEN "PENDING" ELSE plan.status[u]]
<1>1. s \in [Tasks -> Status] /\ \A u \in Tasks : s[u] = "ABSENT" => plan.status[u] = "ABSENT"
  BY DEF Plans, Status, Live
<1>2. Rewound(t) = [plan EXCEPT !.status = s]
  BY DEF Rewound
<1> HIDE DEF s
<1> QED
  BY <1>1, <1>2, StatusKeeps

\* A revision, which moreover is valid and so hangs nothing on a dead task.
LEMMA RevisionKeeps == ASSUME plan \in Plans, NEW p \in Revisions
                       PROVE  Keeps(plan, p) /\ NoGraft(p)
<1>1. PICK drop \in SUBSET {t \in Tasks : plan.status[t] \in Live},
           add \in SUBSET {t \in Tasks : plan.status[t] = "ABSENT"} : p = Revised(drop, add)
  BY DEF Revisions
<1>2. NoGraft(p)
  BY DEF Revisions, ValidRevision
<1> DEFINE s == [t \in Tasks |-> IF t \in drop THEN "CANCELLED"
                                 ELSE IF t \in add THEN "PENDING" ELSE plan.status[t]]
           new == PlanOf(s)
           E == {e \in new.edges :
                   ~(new.status[e[1]] \in Dead /\ new.status[e[2]] = "PENDING")}
<1>3. s \in [Tasks -> Status] /\ \A t \in Tasks : s[t] = "ABSENT" => plan.status[t] = "ABSENT"
  BY DEF Plans, Status, Terminal, Live
<1>4. new \in Plans /\ new.status = s
  BY <1>3, PlanOfTyped
<1>5. p = [new EXCEPT !.edges = E]
  BY <1>1 DEF Revised
<1> HIDE DEF new, s
<1>6. E \in SUBSET (Tasks \X Tasks)
  BY <1>4 DEF Plans
<1> HIDE DEF E
<1>7. p \in Plans /\ p.status = s
  BY <1>4, <1>5, <1>6 DEF Plans
<1> QED
  BY <1>2, <1>3, <1>7 DEF Keeps, Ids

-----------------------------------------------------------------------------
(***************************************************************************)
(* The sweep.                                                              *)
(***************************************************************************)

\* A plan in which nothing pending hangs on a dead task is sealed.
LEMMA UngraftedSealed == ASSUME NEW p, NoGraft(p), NEW W PROVE Sealed(p, W)
BY DEF NoGraft, Sealed, Hopeless

\* The audit finds all that is pending behind a hopeless task.
LEMMA AuditSeals == ASSUME NEW p \in Plans PROVE Sealed(p, Unreachable(p))
<1> DEFINE broken == {t \in Ids(p) : p.status[t] \in Dead /\
                                     ~(p.status[t] = "FAILED" /\ Replaced(p, t))}
           E == {e \in p.edges : p.status[e[2]] = "PENDING"}
<1> SUFFICES ASSUME NEW e \in p.edges, p.status[e[2]] = "PENDING", Hopeless(p, e[1])
             PROVE  e[2] \in Unreachable(p)
  BY DEF Sealed
<1>1. e[1] \in Tasks /\ e[2] \in Tasks
  BY DEF Plans
<1>2. e[1] \in broken
  BY <1>1 DEF Hopeless, Replaced, Ids, Dead, Terminal
<1>3. e[2] \in Reach(E, broken)
  <2> SUFFICES ASSUME NEW C \in SUBSET Tasks, broken \subseteq C,
                      \A x \in E : x[1] \in C => x[2] \in C
               PROVE  e[2] \in C
    BY <1>1 DEF Reach
  <2> QED
    BY <1>2
<1>4. e[2] \notin broken
  BY DEF Dead, Terminal
<1>5. Unreachable(p) = Reach(E, broken) \ broken
  BY DEF Unreachable
<1> QED
  BY <1>3, <1>4, <1>5

\* A cascade goes through live tasks, and to all live tasks behind them.
LEMMA CascadeLive ==
    ASSUME NEW p \in Plans, NEW t \in Tasks, p.status[t] \in Live
    PROVE  /\ \A u \in LiveReach(p, {t}) : u \in Tasks /\ p.status[u] \in Live
           /\ \A e \in p.edges : /\ e[1] = t \/ e[1] \in LiveReach(p, {t})
                                 /\ p.status[e[2]] \in Live
                                 => e[2] \in LiveReach(p, {t})
<1> DEFINE E == {e \in p.edges : p.status[e[1]] \in Live /\ p.status[e[2]] \in Live}
           C == {u \in Tasks : p.status[u] \in Live}
<1>1. LiveReach(p, {t}) = Reach(E, {t})
  BY DEF LiveReach
<1>2. E \subseteq Tasks \X Tasks
  BY DEF Plans
<1>3. Reach(E, {t}) \subseteq C
  <2>1. C \in SUBSET Tasks /\ {t} \subseteq C /\ \A e \in E : e[1] \in C => e[2] \in C
    BY <1>2
  <2> QED
    BY <2>1 DEF Reach
<1>4. ASSUME NEW e \in p.edges, e[1] = t \/ e[1] \in Reach(E, {t}), p.status[e[2]] \in Live
      PROVE  e[2] \in Reach(E, {t})
  <2>1. e \in E /\ e[2] \in Tasks
    BY <1>3, <1>4 DEF Plans
  <2> SUFFICES ASSUME NEW D \in SUBSET Tasks, {t} \subseteq D,
                      \A x \in E : x[1] \in D => x[2] \in D
               PROVE  e[2] \in D
    BY <2>1 DEF Reach
  <2>2. e[1] \in D
    BY <1>4 DEF Reach
  <2> QED
    BY <2>1, <2>2
<1> QED
  BY <1>1, <1>3, <1>4

\* Cancelling a task with its cascade leaves nothing new to be swept.
LEMMA CancelSeals ==
    ASSUME NEW p \in Plans, NEW t \in Tasks, p.status[t] \in Live, NEW W, Sealed(p, W)
    PROVE  Sealed(WithCascade(p, t, "CANCELLED"), W \ {t})
<1> DEFINE R == LiveReach(p, {t})
           s == [u \in Tasks |-> IF u = t THEN "CANCELLED"
                                 ELSE IF u \in R THEN "CANCELLED" ELSE p.status[u]]
           q == [p EXCEPT !.status = s]
<1>1. WithCascade(p, t, "CANCELLED") = q
  BY DEF WithCascade
<1>2. /\ \A u \in R : u \in Tasks /\ p.status[u] \in Live
      /\ \A e \in p.edges : (e[1] = t \/ e[1] \in R) /\ p.status[e[2]] \in Live => e[2] \in R
  BY CascadeLive
<1> HIDE DEF R
<1>3. \A u \in Tasks : s[u] = p.status[u] \/ (s[u] = "CANCELLED" /\ (u = t \/ u \in R))
  OBVIOUS
<1>4. s[t] = "CANCELLED" /\ \A u \in R : s[u] = "CANCELLED"
  BY <1>2
<1>5. s \in [Tasks -> Status]
  BY DEF Plans, Status, Terminal
<1> HIDE DEF s
<1>6. /\ q.status = s /\ q.edges = p.edges /\ q.supersedes = p.supersedes
      /\ p.edges \subseteq Tasks \X Tasks
  BY DEF Plans
<1> HIDE DEF q
<1>7. Ids(q) = Ids(p)
  <2>1. \A u \in Tasks : s[u] = "ABSENT" <=> p.status[u] = "ABSENT"
    BY <1>2, <1>3 DEF Live
  <2> QED
    BY <1>6, <2>1 DEF Ids
<1>8. \A u : Superseders(q, u) = Superseders(p, u)
  BY <1>6, <1>7 DEF Superseders
<1> SUFFICES ASSUME NEW e \in p.edges, s[e[2]] = "PENDING", Hopeless(q, e[1])
             PROVE  e[2] \in W \ {t}
  BY <1>1, <1>6 DEF Sealed
<1>9. e[1] \in Tasks /\ e[2] \in Tasks /\ e[2] # t /\ e[2] \notin R
  BY <1>4, <1>6
<1>10. p.status[e[2]] = "PENDING"
  BY <1>3, <1>9
<1>11. e[1] # t /\ e[1] \notin R
  BY <1>2, <1>9, <1>10 DEF Live
<1>12. s[e[1]] = p.status[e[1]]
  BY <1>3, <1>9, <1>11
<1>13. Hopeless(p, e[1])
  BY <1>6, <1>8, <1>12 DEF Hopeless
<1> QED
  BY <1>9, <1>10, <1>13 DEF Sealed

\* A plan in which nothing is left to be swept has no orphans.
LEMMA SealedNoOrphans == ASSUME Sealed(plan, {}) PROVE NoOrphans
BY DEF Sealed, Hopeless, NoOrphans
-----------------------------------------------------------------------------
(***************************************************************************)
(* The invariant.                                                          *)
(***************************************************************************)

\* At the start there is no invocation, no claim and no mark.
LEMMA OverlayInit == Init => OverlayInv
<1> SUFFICES ASSUME Init PROVE OverlayInv
  OBVIOUS
<1>1. plan \in Plans
  <2> DEFINE s == [t \in Tasks |-> IF t \in InitialPlan THEN "PENDING" ELSE "ABSENT"]
  <2>1. s \in [Tasks -> Status]
    BY DEF Status, Live
  <2> QED
    BY <2>1, PlanOfTyped DEF Init
<1>2. Shapes
  BY <1>1 DEF Init, Shapes, Turns, NoClaims, NoTurns, MaybeTasks
<1>3. Phases /\ Detached
  BY DEF Init, Phases, Detached, Alive, Flights
<1>4. Claimed
  BY OverlayAssumption
  DEF Init, Claimed, LeftNoted, Told, OpenOf, NoClaims, NoTurns, Flights
<1>5. Marked
  BY DEF Init, Marked
<1>6. Swept
  BY DEF Init, Swept, NoOrphans
<1> QED
  BY <1>2, <1>3, <1>4, <1>5, <1>6 DEF OverlayInv

\* Nothing is swept, or the sweep goes on as it was.
LEMMA SweptLeft ==
    ASSUME OverlayInv, UNCHANGED <<plan, sweep>>,
           pc' = "sweep" => pc = "sweep",
           pc' = "completed" => pc = "completed" \/ (pc = "sweep" /\ sweep = {})
    PROVE  Swept'
<1>1. pc' = "sweep" => Sealed(plan', sweep')
  BY DEF OverlayInv, Swept
<1>2. NoOrphans'
  <2> SUFFICES ASSUME pc' = "completed",
                      NEW e \in plan.edges, plan.status[e[2]] = "PENDING",
                      plan.status[e[1]] \in Dead
               PROVE  plan.status[e[1]] = "FAILED" /\ Superseders(plan, e[1]) # {}
    BY DEF NoOrphans
  <2> QED
    BY DEF OverlayInv, Swept, NoOrphans, Sealed, Hopeless
<1> QED
  BY <1>1, <1>2 DEF Swept

\* A step outside of the sweep.
LEMMA SweptElsewhere == ASSUME pc' \notin {"sweep", "completed"} PROVE Swept'
BY DEF Swept, NoOrphans

\* A step that leaves the claims and the turns alone keeps the invariant, if it
\* ends no invocation, starts no iteration, and handles marks and sweep well.
LEMMA LoopStep ==
    ASSUME OverlayInv, UNCHANGED <<claim, turns>>,
           Keeps(plan, plan'), sweep' \subseteq Tasks,
           Alive' <=> Alive,
           Alive' => pc' \in {"race", "grace"},
           pc' \in {"finalize", "audit", "sweep"} => why' = "result",
           pc' = "top" => pc = "top",
           Detached', Marked', Swept'
    PROVE  OverlayInv'
<1>1. Shapes'
  BY DEF OverlayInv, Shapes, Keeps, turns
<1>2. Phases'
  BY DEF OverlayInv, Phases, turns
<1>3. Claimed'
  <2>1. claim[Host] # NoTask => \E t \in Ids(plan') : Assignee[t] = Host
    BY DEF OverlayInv, Claimed, Planned, Keeps
  <2>2. LeftNoted'
    BY DEF OverlayInv, Claimed, LeftNoted, turns
  <2>3. attached' \/ pc' = "top" => Told'
    BY DEF OverlayInv, Claimed, Told, OpenOf, turns
  <2> QED
    BY <2>1, <2>2, <2>3 DEF Claimed, Planned
<1> QED
  BY <1>1, <1>2, <1>3 DEF OverlayInv

\* A step that starts the loop over.
LEMMA RestartStep ==
    ASSUME OverlayInv, UNCHANGED sweep, Keeps(plan, plan'),
           ~Alive, ~Alive', StartsOver, flag' => stamped'
    PROVE  OverlayInv'
<1>1. Shapes'
  BY DEF OverlayInv, Shapes, Keeps, StartsOver, Reset, NoClaims, MaybeTasks
<1>2. Phases' /\ Detached'
  BY DEF OverlayInv, Phases, Detached, StartsOver
<1>3. Claimed'
  <2>1. (claim[Host] # NoTask => Planned(Host))'
    BY OverlayAssumption DEF StartsOver, Reset, NoClaims
  <2>2. LeftNoted'
    BY DEF StartsOver, LeftNoted
  <2>3. turn'["own"] = NoTurns
    BY DEF OverlayInv, Phases, StartsOver
  <2>4. Told'
    BY <2>3 DEF StartsOver, Reset, NoClaims, NoTurns, Told, OpenOf
  <2> QED
    BY <2>1, <2>2, <2>4 DEF Claimed
<1>4. Marked'
  BY DEF Marked, StartsOver
<1>5. Swept'
  BY SweptElsewhere DEF StartsOver
<1> QED
  BY <1>1, <1>2, <1>3, <1>4, <1>5 DEF OverlayInv

\* A plan keeps its own tasks.
LEMMA KeepsItself == ASSUME OverlayInv PROVE Keeps(plan, plan)
BY DEF OverlayInv, Shapes, Keeps

\* A step of the reconciler: a turn begins or ends.
LEMMA TurnStep ==
    ASSUME OverlayInv, Keeps(plan, plan'), ~attached => UNCHANGED plan,
           claim' \in [Agents -> MaybeTasks], turn' \in [Flights -> Turns],
           ~Alive => turn'["own"] = turn["own"], ~stray => turn'["left"] = turn["left"],
           claim'[Host] # NoTask => claim'[Host] = claim[Host] \/ Planned(Host),
           LeftNoted', attached \/ pc = "top" => Told',
           Reconciled
    PROVE  OverlayInv'
<1>1. Shapes'
  BY DEF OverlayInv, Shapes, Keeps, Reconciled
<1>2. Alive' <=> Alive
  BY DEF Alive, Reconciled
<1>3. Phases' /\ Detached'
  BY <1>2 DEF OverlayInv, Phases, Detached, Reconciled
<1>4. Claimed'
  <2>1. claim'[Host] # NoTask => Planned(Host)
    BY DEF OverlayInv, Claimed
  <2>2. claim'[Host] # NoTask => Planned(Host)'
    BY <2>1 DEF Planned, Keeps
  <2> QED
    BY <2>2 DEF Claimed, Reconciled
<1>5. Marked'
  BY DEF OverlayInv, Marked, Reconciled, history
<1>6. Swept'
  <2>1. pc \in {"sweep", "completed"} => UNCHANGED <<plan, sweep>>
    BY DEF OverlayInv, Detached, Reconciled
  <2>2. pc' = pc
    BY DEF Reconciled
  <2> QED
    BY <2>1, <2>2, SweptLeft, SweptElsewhere
<1> QED
  BY <1>1, <1>3, <1>4, <1>5, <1>6 DEF OverlayInv

\* on_before_agent claims a task or nothing.
LEMMA BeforeAgentKeeps ==
    ASSUME OverlayInv, NEW i \in Calls, NEW mine \in MaybeTasks, BeforeAgent(i, mine)
    PROVE  /\ Keeps(plan, plan')
           /\ claim' \in [Agents -> MaybeTasks]
           /\ mine = NoTask => claim' = claim
           /\ mine # NoTask => claim' = [claim EXCEPT ![NameOf[i]] = mine] /\ ~HostTurn(NameOf[i])
<1> USE OverlayAssumption, NoTaskAssumption
<1> DEFINE a == NameOf[i]
           picked == IF PendingFor(a) # {} THEN PendingFor(a) ELSE PendingAbove(i)
           grown == {t \in Tasks : plan.status[t] = "ABSENT" /\ Assignee[t] = a}
<1>1. picked \subseteq Tasks /\ grown \subseteq Tasks
  BY DEF PendingFor, PendingAbove
<1>2. \/ /\ mine \in picked \cup grown /\ ~HostTurn(a)
         /\ Claims(a, mine) /\ plan' = Set(mine, "RUNNING")
      \/ mine = NoTask /\ UNCHANGED <<claim, plan>>
  BY DEF BeforeAgent
<1>3. plan \in Plans /\ claim \in [Agents -> MaybeTasks]
  BY DEF OverlayInv, Shapes
<1> HIDE DEF picked, grown
<1>4. CASE mine = NoTask
  <2>1. UNCHANGED <<claim, plan>>
    BY <1>1, <1>2, <1>4
  <2> QED
    BY <1>3, <1>4, <2>1, KeepsItself
<1>5. CASE mine # NoTask
  <2>1. mine \in Tasks /\ ~HostTurn(a) /\ Claims(a, mine) /\ plan' = Set(mine, "RUNNING")
    BY <1>1, <1>2, <1>5
  <2>2. "RUNNING" \in Status \ {"ABSENT"}
    BY DEF Status, Live
  <2>3. Keeps(plan, plan')
    BY <1>3, <2>1, <2>2, SetKeeps DEF Set
  <2> QED
    BY <1>3, <1>5, <2>1, <2>3 DEF Claims, MaybeTasks
<1> QED
  BY <1>4, <1>5

\* An open turn of the agent of another turn is alongside it.
LEMMA OpenAlongside ==
    ASSUME NEW f, NEW i, NEW g \in Flights, NEW j \in Calls, <<g, j>> # <<f, i>>,
           NameOf[j] = NameOf[i], turn[g][j] # Closed
    PROVE  <<g, j>> \in Alongside(f, i)
<1> DEFINE x == <<g, j>>
<1>1. x \in (Flights \X Calls) \ {<<f, i>>} /\ x[1] = g /\ x[2] = j
  OBVIOUS
<1> HIDE DEF x
<1>2. x \in Alongside(f, i)
  BY <1>1 DEF Alongside
<1> QED
  BY <1>2 DEF x

\* A turn begins.  If its agent is not overlapped now, it had no turn and no claim.
LEMMA TurnBeginsStep ==
    ASSUME OverlayInv, NEW f \in Flights, NEW i \in Calls, TurnBegins(f, i)
    PROVE  OverlayInv'
<1> USE OverlayAssumption, NoTaskAssumption, ClosedAssumption
<1> DEFINE a == NameOf[i]
<1>1. PICK mine \in MaybeTasks :
         /\ IF attached THEN BeforeAgent(i, mine)
            ELSE mine = NoTask /\ UNCHANGED <<plan, reconciler>>
         /\ turn' = [turn EXCEPT ![f][i] = mine]
  BY DEF TurnBegins, MaybeTasks
<1>2. Going(f) /\ turn[f][i] = Closed /\ Reconciled
  BY DEF TurnBegins
<1>3. overlapped' = IF f = "left" \/ Alongside(f, i) # {} THEN overlapped \cup {a} ELSE overlapped
  BY DEF TurnBegins
<1>4. plan \in Plans /\ claim \in [Agents -> MaybeTasks] /\ turn \in [Flights -> Turns]
  BY DEF OverlayInv, Shapes
<1>5. /\ Keeps(plan, plan') /\ claim' \in [Agents -> MaybeTasks]
      /\ mine = NoTask => claim' = claim
      /\ mine # NoTask => claim' = [claim EXCEPT ![a] = mine] /\ ~HostTurn(a)
  <2>1. CASE attached
    BY <1>1, <2>1, BeforeAgentKeeps
  <2>2. CASE ~attached
    BY <1>1, <1>4, <2>2, KeepsItself DEF reconciler
  <2> QED
    BY <2>1, <2>2
<1>6. /\ turn' \in [Flights -> Turns]
      /\ \A g \in Flights, j \in Calls : <<g, j>> # <<f, i>> => turn'[g][j] = turn[g][j]
      /\ turn'[f][i] = mine
  BY <1>1, <1>4 DEF Turns
<1>7. /\ ~Alive => f # "own" /\ turn'["own"] = turn["own"]
      /\ ~stray => turn'["left"] = turn["left"]
  BY <1>1, <1>2, <1>4 DEF Going, Flights
<1>8. claim'[Host] # NoTask => claim'[Host] = claim[Host] \/ Planned(Host)
  BY <1>4, <1>5 DEF HostTurn
<1>9. LeftNoted'
  BY <1>3, <1>6 DEF OverlayInv, Claimed, LeftNoted, Flights
<1>10. ASSUME attached \/ pc = "top" PROVE Told'
  <2> SUFFICES ASSUME NEW b \in Agents, b \notin overlapped'
               PROVE  /\ \A j \in OpenOf(b)' : claim'[b] = turn'["own"][j] /\ OpenOf(b)' = {j}
                      /\ OpenOf(b)' = {} => claim'[b] = NoTask
    BY DEF Told
  <2>1. /\ b \notin overlapped
        /\ \A j \in OpenOf(b) : claim[b] = turn["own"][j] /\ OpenOf(b) = {j}
        /\ OpenOf(b) = {} => claim[b] = NoTask
    BY <1>3, <1>10 DEF OverlayInv, Claimed, Told
  <2>2. CASE b = a
    <3>1. f = "own" /\ Alongside(f, i) = {}
      BY <1>3, <2>2 DEF Flights
    <3>2. OpenOf(b) = {}
      BY <1>2, <2>2, <3>1, OpenAlongside DEF OpenOf, Flights
    <3>3. OpenOf(b)' = {i}
      BY <1>1, <1>6, <2>2, <3>1, <3>2 DEF OpenOf, Flights, MaybeTasks
    <3>4. claim'[b] = mine
      BY <1>1, <1>4, <1>5, <2>1, <2>2, <3>2
    <3> QED
      BY <1>6, <3>1, <3>3, <3>4
  <2>3. CASE b # a
    <3>1. OpenOf(b)' = OpenOf(b)
      BY <1>6, <2>3 DEF OpenOf, Flights
    <3>2. \A j \in OpenOf(b) : turn'["own"][j] = turn["own"][j]
      BY <1>6, <2>3 DEF OpenOf, Flights
    <3>3. claim'[b] = claim[b]
      BY <1>4, <1>5, <2>3
    <3> QED
      BY <2>1, <3>1, <3>2, <3>3
  <2> QED
    BY <2>2, <2>3
<1>11. ~attached => UNCHANGED plan
  BY <1>1
<1> HIDE DEF a
<1> QED
  BY <1>2, <1>5, <1>6, <1>7, <1>8, <1>9, <1>10, <1>11, TurnStep

\* on_after_agent leaves no claim of the agent, and those of the others alone.
LEMMA AfterAgentKeeps ==
    ASSUME OverlayInv, NEW a \in Agents, NEW failed \in BOOLEAN, AfterAgent(a, failed)
    PROVE  /\ Keeps(plan, plan')
           /\ claim' \in [Agents -> MaybeTasks]
           /\ claim'[a] = NoTask
           /\ \A b \in Agents \ {a} : claim'[b] = claim[b]
<1> USE OverlayAssumption, NoTaskAssumption
<1>1. plan \in Plans /\ claim \in [Agents -> MaybeTasks]
  BY DEF OverlayInv, Shapes
<1>2. Keeps(plan, plan')
  <2>1. CASE UNCHANGED plan
    BY <2>1, KeepsItself
  <2>2. CASE ~UNCHANGED plan
    <3>1. /\ claim[a] # NoTask
          /\ plan' = Set(claim[a], IF failed THEN "FAILED" ELSE "COMPLETED")
      BY <2>2 DEF AfterAgent
    <3>2. claim[a] \in Tasks
      BY <1>1, <3>1 DEF MaybeTasks
    <3>3. (IF failed THEN "FAILED" ELSE "COMPLETED") \in Status \ {"ABSENT"}
      BY DEF Status, Terminal
    <3> QED
      BY <1>1, <3>1, <3>2, <3>3, SetKeeps DEF Set
  <2> QED
    BY <2>1, <2>2
<1>3. HostTurn(a) => claim[a] = NoTask
  BY DEF HostTurn, OverlayInv, Claimed
<1>4. claim' = IF HostTurn(a) THEN claim ELSE [claim EXCEPT ![a] = NoTask]
  BY DEF AfterAgent
<1> QED
  BY <1>1, <1>2, <1>3, <1>4 DEF MaybeTasks

\* A turn ends.  If its agent is not overlapped now, no turn of it is open, and its
\* claim is gone.
LEMMA TurnEndsStep ==
    ASSUME OverlayInv, NEW f \in Flights, NEW i \in Calls, TurnEnds(f, i)
    PROVE  OverlayInv'
<1> USE OverlayAssumption, NoTaskAssumption, ClosedAssumption
<1> DEFINE a == NameOf[i]
<1>1. /\ Going(f) /\ turn[f][i] # Closed /\ Reconciled
      /\ turn' = [turn EXCEPT ![f][i] = Closed]
      /\ overlapped' = IF attached /\ Alongside(f, i) = {} THEN overlapped \ {a} ELSE overlapped
  BY DEF TurnEnds
<1>2. plan \in Plans /\ claim \in [Agents -> MaybeTasks] /\ turn \in [Flights -> Turns]
  BY DEF OverlayInv, Shapes
<1>3. /\ Keeps(plan, plan') /\ claim' \in [Agents -> MaybeTasks]
      /\ attached => claim'[a] = NoTask
      /\ \A b \in Agents \ {a} : claim'[b] = claim[b]
      /\ ~attached => UNCHANGED <<plan, claim>>
  <2>1. CASE attached
    <3>1. PICK failed \in BOOLEAN : AfterAgent(a, failed)
      BY <2>1 DEF TurnEnds
    <3> QED
      BY <2>1, <3>1, AfterAgentKeeps
  <2>2. CASE ~attached
    BY <1>2, <2>2, KeepsItself DEF TurnEnds, reconciler
  <2> QED
    BY <2>1, <2>2
<1>4. /\ turn' \in [Flights -> Turns]
      /\ \A g \in Flights, j \in Calls : <<g, j>> # <<f, i>> => turn'[g][j] = turn[g][j]
      /\ turn'[f][i] = Closed
  BY <1>1, <1>2 DEF Turns
<1>5. /\ ~Alive => f # "own" /\ turn'["own"] = turn["own"]
      /\ ~stray => turn'["left"] = turn["left"]
  BY <1>1, <1>2 DEF Going, Flights
<1>6. claim'[Host] # NoTask => claim'[Host] = claim[Host] \/ Planned(Host)
  BY <1>3
<1>7. LeftNoted'
  <2> SUFFICES ASSUME NEW j \in Calls, turn'["left"][j] # Closed
               PROVE  NameOf[j] \in overlapped'
    BY DEF LeftNoted
  <2>1. <<"left", j>> # <<f, i>>
    BY <1>4
  <2>2. turn["left"][j] # Closed
    BY <1>4, <2>1 DEF Flights
  <2>3. NameOf[j] \in overlapped
    BY <2>2 DEF OverlayInv, Claimed, LeftNoted
  <2>4. NameOf[j] = a => <<"left", j>> \in Alongside(f, i)
    BY <2>1, <2>2, OpenAlongside DEF Flights
  <2> QED
    BY <1>1, <2>3, <2>4
<1>8. ASSUME attached \/ pc = "top" PROVE Told'
  <2> SUFFICES ASSUME NEW b \in Agents, b \notin overlapped'
               PROVE  /\ \A j \in OpenOf(b)' : claim'[b] = turn'["own"][j] /\ OpenOf(b)' = {j}
                      /\ OpenOf(b)' = {} => claim'[b] = NoTask
    BY DEF Told
  <2>1. CASE b = a
    <3>1. CASE attached /\ Alongside(f, i) = {}
      <4>1. \A j \in Calls : NameOf[j] = b => turn'["own"][j] = Closed
        BY <1>4, <2>1, <3>1, OpenAlongside DEF Flights
      <4>2. OpenOf(b)' = {}
        BY <4>1 DEF OpenOf
      <4> QED
        BY <1>3, <2>1, <3>1, <4>2
    <3>2. CASE ~(attached /\ Alongside(f, i) = {})
      <4>1. b \notin overlapped
        BY <1>1, <3>2
      <4>2. \A j \in Calls : NameOf[j] = b => turn["left"][j] = Closed
        BY <4>1 DEF OverlayInv, Claimed, LeftNoted
      <4>3. f = "own" /\ i \in OpenOf(b)
        BY <1>1, <2>1, <4>2 DEF OpenOf, Flights
      <4>4. attached
        BY <1>1, <1>8, <4>3 DEF Going, OverlayInv, Phases
      <4>5. OpenOf(b) = {i}
        BY <1>8, <4>1, <4>3 DEF OverlayInv, Claimed, Told
      <4>6. Alongside(f, i) = {}
        BY <2>1, <4>2, <4>3, <4>5 DEF Alongside, OpenOf, Flights
      <4> QED
        BY <3>2, <4>4, <4>6
    <3> QED
      BY <3>1, <3>2
  <2>2. CASE b # a
    <3>1. /\ b \notin overlapped
          /\ \A j \in OpenOf(b) : claim[b] = turn["own"][j] /\ OpenOf(b) = {j}
          /\ OpenOf(b) = {} => claim[b] = NoTask
      BY <1>1, <1>8, <2>2 DEF OverlayInv, Claimed, Told
    <3>2. OpenOf(b)' = OpenOf(b)
      BY <1>4, <2>2 DEF OpenOf, Flights
    <3>3. \A j \in OpenOf(b) : turn'["own"][j] = turn["own"][j]
      BY <1>4, <2>2 DEF OpenOf, Flights
    <3>4. claim'[b] = claim[b]
      BY <1>3, <2>2
    <3> QED
      BY <3>1, <3>2, <3>3, <3>4
  <2> QED
    BY <2>1, <2>2
<1> HIDE DEF a
<1> QED
  BY <1>1, <1>3, <1>4, <1>5, <1>6, <1>7, <1>8, TurnStep

\* Every step keeps the invariant.
LEMMA OverlayStep == OverlayInv /\ [Next]_vars => OverlayInv'
<1> SUFFICES ASSUME OverlayInv, [Next]_vars PROVE OverlayInv'
  OBVIOUS
<1> USE OverlayAssumption, NoTaskAssumption, ClosedAssumption
<1> DEFINE Goal == OverlayInv'
<1>a. plan \in Plans /\ Keeps(plan, plan) /\ sweep \subseteq Tasks
  BY KeepsItself DEF OverlayInv, Shapes
<1>b. /\ Alive => pc \in {"race", "grace"}
      /\ pc \in {"finalize", "audit", "sweep"} => why = "result"
  BY DEF OverlayInv, Phases
<1>c. /\ flag => stamped
      /\ pc \in {"race", "grace", "returned"} /\ "supersede" \in causes => flag
  BY DEF OverlayInv, Marked
<1>d. /\ pc = "race" /\ ~Alive => ~attached
      /\ pc = "grace" => why # "result"
      /\ pc = "returned" /\ why = "result" => ~attached
      /\ pc \in {"finalize", "audit", "sweep", "completed"} => ~attached
  BY DEF OverlayInv, Detached
<1> HIDE DEF Goal
<1>1. ASSUME Iterate PROVE Goal
  <2>1. /\ pc = "top" /\ pc' = "race" /\ ~Alive /\ Alive' /\ flag' = FALSE /\ causes' = {}
        /\ UNCHANGED <<plan, claim, turn, stray, overlapped, sweep>>
    BY <1>1, <1>b DEF Iterate, ClearStaleSupersede, Alive, reconciler
  <2>2. Shapes'
    BY <2>1 DEF OverlayInv, Shapes
  <2>3. Phases' /\ Detached'
    BY <2>1 DEF OverlayInv, Phases, Detached
  <2>4. Claimed'
    BY <2>1 DEF OverlayInv, Claimed, LeftNoted, Told, OpenOf, Planned
  <2>5. Marked' /\ Swept'
    BY <2>1, SweptElsewhere DEF Marked
  <2> QED
    BY <2>2, <2>3, <2>4, <2>5 DEF OverlayInv, Goal
<1>2. ASSUME RaceWon PROVE Goal
  <2>1. /\ pc = "race" /\ pc' = "returned" /\ ~Alive /\ ~Alive'
        /\ UNCHANGED <<plan, claim, turns, sweep, flag, causes, stamped>>
    BY <1>2 DEF RaceWon, Alive, reconciler, history
  <2>2. Marked' /\ Detached'
    BY <1>c, <1>d, <2>1 DEF Marked, Detached, turns
  <2> QED
    BY <1>a, <2>1, <2>2, SweptElsewhere, LoopStep DEF Goal
<1>30. ASSUME RaceRaises PROVE Goal
  <2>1. /\ pc = "race" /\ pc' = "raised" /\ ~Alive /\ ~Alive'
        /\ UNCHANGED <<plan, claim, turns, sweep, flag, causes, stamped>>
    BY <1>30 DEF RaceRaises, Alive, reconciler, history
  <2>2. Marked' /\ Detached'
    BY <1>c, <2>1 DEF Marked, Detached
  <2> QED
    BY <1>a, <2>1, <2>2, SweptElsewhere, LoopStep DEF Goal
<1>3. ASSUME Receive PROVE Goal
  <2>1. UNCHANGED <<plan, pc, why, invoke, claim, sweep, turns, flag, causes, stamped>>
    BY <1>3 DEF Receive, reconciler, history
  <2>2. (Alive' <=> Alive) /\ pc = "race"
    BY <1>3, <2>1 DEF Receive, Alive
  <2>3. Marked' /\ Detached'
    BY <1>c, <1>d, <2>1, <2>2 DEF Marked, Detached, turns
  <2> QED
    BY <1>a, <2>1, <2>2, <2>3, SweptElsewhere, LoopStep DEF Goal
<1>4. ASSUME Dispatch PROVE Goal
  <2>1. Keeps(plan, plan')
    BY <1>4, <1>a, RewindKeeps DEF Dispatch
  <2>2. Alive /\ Alive'
    BY <1>4 DEF Dispatch, Cancelled, Alive
  <2>3. /\ pc = "race" /\ pc' \in {"race", "grace"}
        /\ UNCHANGED <<claim, turns, flag, stamped, sweep>>
    BY <1>4 DEF Dispatch, reconciler
  <2>4. "supersede" \in causes' => "supersede" \in causes
    BY <1>4 DEF Dispatch, Cancelled
  <2>5. Marked'
    BY <1>c, <2>3, <2>4 DEF Marked
  <2>6. pc' = "grace" => why' # "result"
    BY <1>4, <2>3 DEF Dispatch
  <2>7. Detached'
    BY <2>2, <2>3, <2>6 DEF Detached
  <2> QED
    BY <1>a, <2>1, <2>2, <2>3, <2>5, <2>7, SweptElsewhere, LoopStep DEF Goal
<1>5. ASSUME GraceOver PROVE Goal
  <2>1. /\ pc = "grace" /\ pc' = "returned" /\ ~Alive /\ ~Alive' /\ why' = why
        /\ UNCHANGED <<plan, claim, turns, sweep, flag, causes, stamped>>
    BY <1>5 DEF GraceOver, Alive, reconciler, history
  <2>2. Marked' /\ Detached'
    BY <1>c, <1>d, <2>1 DEF Marked, Detached
  <2> QED
    BY <1>a, <2>1, <2>2, SweptElsewhere, LoopStep DEF Goal
<1>6. ASSUME GraceExpires PROVE Goal
  <2> DEFINE opened == {NameOf[i] : i \in {j \in Calls : turn["own"][j] # Closed}}
  <2>1. /\ pc = "grace" /\ pc' = "returned" /\ ~Alive' /\ stray' /\ why' = why
        /\ turn' = [f \in Flights |-> IF f = "left" THEN turn["own"] ELSE NoTurns]
        /\ overlapped' = overlapped \cup opened
        /\ UNCHANGED <<plan, claim, sweep, flag, causes, stamped, attached>>
    BY <1>6 DEF GraceExpires, Alive, reconciler, history
  <2>2. /\ turn'["left"] = turn["own"] /\ turn'["own"] = NoTurns
        /\ turn' \in [Flights -> Turns]
    BY <2>1 DEF OverlayInv, Shapes, Flights, Turns, NoTurns
  <2>3. Shapes'
    BY <2>1, <2>2 DEF OverlayInv, Shapes
  <2>4. Phases' /\ Detached'
    BY <1>d, <2>1, <2>2 DEF Phases, Detached
  <2>5. LeftNoted'
    BY <2>1, <2>2 DEF LeftNoted
  <2>6. ASSUME attached' \/ pc' = "top" PROVE Told'
    <3> SUFFICES ASSUME NEW a \in Agents, a \notin overlapped'
                 PROVE  OpenOf(a)' = {} /\ claim[a] = NoTask
      BY <2>1 DEF Told
    <3>1. OpenOf(a)' = {}
      BY <2>2 DEF OpenOf, NoTurns
    <3>2. OpenOf(a) = {} /\ a \notin overlapped
      BY <2>1 DEF OpenOf
    <3> QED
      BY <2>1, <2>6, <3>1, <3>2 DEF OverlayInv, Claimed, Told
  <2>7. Claimed'
    BY <2>1, <2>5, <2>6 DEF OverlayInv, Claimed, Planned
  <2>8. Marked' /\ Swept'
    BY <1>c, <2>1, SweptElsewhere DEF Marked
  <2> QED
    BY <2>3, <2>4, <2>7, <2>8 DEF OverlayInv, Goal
<1>7. ASSUME SupersedeRestarts PROVE Goal
  <2>1. ~Alive /\ ~Alive'
    BY <1>7, <1>b DEF SupersedeRestarts, Alive
  <2> QED
    BY <1>7, <1>a, <2>1, RestartStep DEF SupersedeRestarts, Goal
<1>8. ASSUME CancelAborts PROVE Goal
  <2>1. /\ pc = "returned" /\ pc' = "aborted" /\ (Alive' <=> Alive) /\ ~Alive
        /\ UNCHANGED <<plan, claim, turns, sweep>>
        /\ flag' => stamped'
    BY <1>8, <1>b, <1>c DEF CancelAborts, Alive, reconciler, history
  <2>2. Marked' /\ Detached'
    BY <2>1 DEF Marked, Detached
  <2> QED
    BY <1>a, <2>1, <2>2, SweptElsewhere, LoopStep DEF Goal
<1>9. ASSUME ErrorAborts PROVE Goal
  <2>1. /\ pc = "returned" /\ pc' = "aborted" /\ (Alive' <=> Alive) /\ ~Alive
        /\ UNCHANGED <<plan, claim, turns, sweep>>
        /\ flag' => stamped'
    BY <1>9, <1>b, <1>c DEF ErrorAborts, Alive, reconciler, history
  <2>2. Marked' /\ Detached'
    BY <2>1 DEF Marked, Detached
  <2> QED
    BY <1>a, <2>1, <2>2, SweptElsewhere, LoopStep DEF Goal
<1>10. ASSUME SteerRestarts PROVE Goal
  <2>1. Keeps(plan, plan')
    BY <1>10, <1>a, RevisionKeeps DEF SteerRestarts
  <2>2. UNCHANGED invoke
    BY <1>10 DEF SteerRestarts, Supersede
  <2>3. ~Alive /\ ~Alive'
    BY <1>10, <1>b, <2>2 DEF SteerRestarts, Supersede, Alive
  <2>4. flag' => stamped'
    BY <1>10, <1>c DEF SteerRestarts, Supersede
  <2> QED
    BY <1>10, <2>1, <2>3, <2>4, RestartStep DEF SteerRestarts, Goal
<1>11. ASSUME GoldfiveSteerRestarts PROVE Goal
  <2>1. ~Alive /\ ~Alive'
    BY <1>11, <1>b DEF GoldfiveSteerRestarts, Alive
  <2> QED
    BY <1>11, <1>a, <1>c, <2>1, RestartStep DEF GoldfiveSteerRestarts, history, Goal
<1>12. ASSUME PauseEnds PROVE Goal
  <2>1. /\ pc = "returned" /\ pc' = "paused" /\ (Alive' <=> Alive) /\ ~Alive
        /\ UNCHANGED <<plan, claim, turns, sweep>>
        /\ flag' => stamped'
    BY <1>12, <1>b, <1>c DEF PauseEnds, Alive, reconciler, history
  <2>2. Marked' /\ Detached'
    BY <2>1 DEF Marked, Detached
  <2> QED
    BY <1>a, <2>1, <2>2, SweptElsewhere, LoopStep DEF Goal
<1>13. ASSUME Replay PROVE Goal
  <2>1. ~Alive /\ ~Alive'
    BY <1>13, <1>b DEF Replay, Alive
  <2> QED
    BY <1>13, <1>a, <1>c, <2>1, RestartStep DEF Replay, history, Goal
<1>14. ASSUME NoReplay PROVE Goal
  <2>1. /\ pc = "returned" /\ pc' = "finalize" /\ why' = "result" /\ (Alive' <=> Alive) /\ ~Alive
        /\ ~attached /\ UNCHANGED <<plan, claim, turns, sweep, flag, stamped>>
    BY <1>14, <1>b, <1>d DEF NoReplay, Alive, reconciler, history
  <2>2. Marked' /\ Detached'
    BY <1>c, <2>1 DEF Marked, Detached, turns
  <2> QED
    BY <1>a, <2>1, <2>2, SweptElsewhere, LoopStep DEF Goal
<1>15. ASSUME FinalizeOutcomes PROVE Goal
  <2>1. PICK v \in [{t \in Outcomes : plan.status[t] \in Live} -> {"COMPLETED", "FAILED", "open"}] :
          plan' = [plan EXCEPT !.status = [t \in Tasks |->
                      IF t \in DOMAIN v /\ v[t] # "open" THEN v[t] ELSE @[t]]]
    BY <1>15 DEF FinalizeOutcomes
  <2> DEFINE s == [t \in Tasks |->
                     IF t \in DOMAIN v /\ v[t] # "open" THEN v[t] ELSE plan.status[t]]
  <2>2. plan' = [plan EXCEPT !.status = s]
    BY <1>a, <2>1 DEF Plans
  <2>3. s \in [Tasks -> Status] /\ \A t \in Tasks : s[t] = "ABSENT" => plan.status[t] = "ABSENT"
    BY <1>a DEF Plans, Status, Terminal
  <2> HIDE DEF s
  <2>4. Keeps(plan, plan')
    BY <1>a, <2>2, <2>3, StatusKeeps
  <2>5. /\ pc = "finalize" /\ pc' = "audit" /\ why' = why /\ (Alive' <=> Alive) /\ ~Alive
        /\ UNCHANGED <<claim, turns, sweep, flag, stamped>>
    BY <1>15, <1>b DEF FinalizeOutcomes, Alive, reconciler, history
  <2>6. Marked' /\ Detached'
    BY <1>c, <1>d, <2>5 DEF Marked, Detached, turns
  <2> QED
    BY <1>a, <1>b, <2>4, <2>5, <2>6, SweptElsewhere, LoopStep DEF Goal
<1>16. ASSUME Audit PROVE Goal
  <2>1. /\ pc = "audit" /\ pc' = "sweep" /\ why' = why /\ (Alive' <=> Alive) /\ ~Alive
        /\ UNCHANGED <<plan, claim, turns, flag, stamped>> /\ sweep' = Unreachable(plan)
    BY <1>16, <1>b DEF Audit, Alive, reconciler, history
  <2>2. Marked' /\ Detached'
    BY <1>c, <1>d, <2>1 DEF Marked, Detached, turns
  <2>3. Sealed(plan, Unreachable(plan))
    BY <1>a, AuditSeals
  <2>4. Swept'
    BY <2>1, <2>3 DEF Swept, NoOrphans
  <2>5. sweep' \subseteq Tasks
    BY <2>1 DEF Unreachable, Reach
  <2> QED
    BY <1>a, <1>b, <2>1, <2>2, <2>4, <2>5, LoopStep DEF Goal
<1>17. ASSUME SweepOne PROVE Goal
  <2>1. /\ pc = "sweep" /\ pc' = "sweep" /\ why' = why /\ (Alive' <=> Alive) /\ ~Alive
        /\ UNCHANGED <<claim, turns, flag, stamped>>
    BY <1>17, <1>b DEF SweepOne, Alive, reconciler, history
  <2>2. Marked' /\ Detached'
    BY <1>c, <1>d, <2>1 DEF Marked, Detached, turns
  <2>3. PICK t \in sweep :
          /\ sweep' = sweep \ {t}
          /\ plan' = IF plan.status[t] \in Live THEN WithCascade(plan, t, "CANCELLED") ELSE plan
    BY <1>17 DEF SweepOne
  <2>4. t \in Tasks /\ Sealed(plan, sweep)
    BY <2>1 DEF OverlayInv, Shapes, Swept
  <2>5. Keeps(plan, plan') /\ Sealed(plan', sweep')
    <3>1. CASE plan.status[t] \in Live
      <4>1. plan' = WithCascade(plan, t, "CANCELLED")
        BY <2>3, <3>1
      <4> QED
        BY <1>a, <2>3, <2>4, <3>1, <4>1, CascadeKeeps, CancelSeals DEF Status, Terminal
    <3>2. CASE plan.status[t] \notin Live
      <4>1. plan' = plan
        BY <2>3, <3>2
      <4> QED
        BY <1>a, <2>3, <2>4, <3>2, <4>1 DEF Sealed, Live
    <3> QED
      BY <3>1, <3>2
  <2>6. Swept'
    BY <2>1, <2>5 DEF Swept, NoOrphans
  <2> QED
    BY <1>a, <1>b, <2>1, <2>2, <2>3, <2>5, <2>6, LoopStep DEF Goal
<1>18. ASSUME Classify PROVE Goal
  <2>1. /\ pc = "sweep" /\ pc' \in {"aborted", "completed"} /\ (Alive' <=> Alive) /\ ~Alive
        /\ UNCHANGED <<plan, claim, turns, sweep, flag, stamped>>
    BY <1>18, <1>b DEF Classify, Alive, reconciler, history
  <2>2. Marked' /\ Detached'
    BY <1>c, <1>d, <2>1 DEF Marked, Detached, turns
  <2>3. Swept'
    BY <1>18, SweptLeft DEF Classify
  <2> QED
    BY <1>a, <2>1, <2>2, <2>3, LoopStep DEF Goal
<1>19. ASSUME NEW how \in Endings, InvokeEnds(how) PROVE Goal
  <2>1. /\ Alive /\ ~Alive' /\ turn' = [turn EXCEPT !["own"] = NoTurns] /\ ~attached'
        /\ UNCHANGED <<plan, pc, why, claim, sweep, stray, overlapped, flag, stamped>>
    BY <1>19 DEF InvokeEnds, Alive, Endings, reconciler
  <2>2. "supersede" \in causes' => "supersede" \in causes
    BY <1>19 DEF InvokeEnds
  <2>3. /\ turn' \in [Flights -> Turns]
        /\ turn'["own"] = NoTurns /\ turn'["left"] = turn["left"]
    BY <2>1 DEF OverlayInv, Shapes, Flights, Turns, NoTurns
  <2>4. Shapes'
    BY <2>1, <2>3 DEF OverlayInv, Shapes
  <2>5. Phases' /\ Detached'
    BY <1>b, <1>d, <2>1, <2>3 DEF OverlayInv, Phases, Detached
  <2>6. Claimed'
    BY <1>b, <2>1, <2>3 DEF OverlayInv, Claimed, LeftNoted, Planned
  <2>7. Marked' /\ Swept'
    BY <1>b, <1>c, <2>1, <2>2, SweptElsewhere DEF Marked
  <2> QED
    BY <2>4, <2>5, <2>6, <2>7 DEF OverlayInv, Goal
<1>20. ASSUME StrayEnds PROVE Goal
  <2>1. /\ ~stray' /\ turn' = [turn EXCEPT !["left"] = NoTurns] /\ ~attached'
        /\ UNCHANGED <<plan, pc, why, invoke, flag, claim, sweep, overlapped, causes, stamped>>
    BY <1>20 DEF StrayEnds, reconciler, history
  <2>2. Alive' <=> Alive
    BY <2>1 DEF Alive
  <2>3. /\ turn' \in [Flights -> Turns]
        /\ turn'["left"] = NoTurns /\ turn'["own"] = turn["own"]
    BY <2>1 DEF OverlayInv, Shapes, Flights, Turns, NoTurns
  <2>4. Shapes'
    BY <2>1, <2>3 DEF OverlayInv, Shapes
  <2>5. Phases' /\ Detached'
    BY <1>d, <2>1, <2>2, <2>3 DEF OverlayInv, Phases, Detached
  <2>6. LeftNoted'
    BY <2>3 DEF LeftNoted, NoTurns
  <2>7. Claimed'
    BY <2>1, <2>3, <2>6 DEF OverlayInv, Claimed, Told, OpenOf, Planned
  <2>8. Marked' /\ Swept'
    BY <1>c, <2>1, SweptLeft DEF Marked
  <2> QED
    BY <2>4, <2>5, <2>7, <2>8 DEF OverlayInv, Goal
<1>21. ASSUME NEW f \in Flights, NEW i \in Calls, TurnBegins(f, i) PROVE Goal
  BY <1>21, TurnBeginsStep DEF Goal
<1>22. ASSUME NEW f \in Flights, NEW i \in Calls, TurnEnds(f, i) PROVE Goal
  BY <1>22, TurnEndsStep DEF Goal
<1>23. ASSUME NEW f \in Flights, NEW i \in Calls, AgentReports(f, i) PROVE Goal
  <2> DEFINE t == turn[f][i]
  <2>1. /\ Going(f) /\ attached /\ t \in Tasks /\ UNCHANGED <<claim, turn, overlapped>>
        /\ Reconciled
        /\ plan' \in {Set(t, "COMPLETED"), Set(t, "BLOCKED"), WithCascade(plan, t, "FAILED")}
    BY <1>23 DEF AgentReports, reconciler
  <2>2. {"COMPLETED", "BLOCKED", "FAILED"} \subseteq Status \ {"ABSENT"}
    BY DEF Status, Live, Terminal
  <2> HIDE DEF t
  <2>3. Keeps(plan, plan')
    BY <1>a, <2>1, <2>2, SetKeeps, CascadeKeeps DEF Set
  <2>4. turn \in [Flights -> Turns] /\ claim \in [Agents -> MaybeTasks]
    BY DEF OverlayInv, Shapes
  <2>5. LeftNoted'
    BY <2>1 DEF OverlayInv, Claimed, LeftNoted
  <2>6. attached => Told'
    BY <2>1 DEF OverlayInv, Claimed, Told, OpenOf
  <2> QED
    BY <2>1, <2>3, <2>4, <2>5, <2>6, TurnStep DEF Goal
<1>25. ASSUME DriftRevises PROVE Goal
  <2>1. UNCHANGED <<pc, why, claim, sweep, turns>>
    BY <1>25 DEF DriftRevises, reconciler
  <2>2. Alive' <=> Alive
    BY <1>25 DEF DriftRevises, Supersede, Cancelled, Alive
  <2>3. Marked' /\ Detached'
    BY <1>25, <1>c, <1>d, <2>1, <2>2 DEF DriftRevises, Supersede, Marked, Detached, turns
  <2>4. CASE plan' \in Revisions
    <3>1. Keeps(plan, plan') /\ NoGraft(plan')
      BY <1>a, <2>4, RevisionKeeps
    <3>2. pc # "completed"
      BY <1>25 DEF DriftRevises, Over
    <3>3. Sealed(plan', sweep')
      BY <3>1, UngraftedSealed
    <3>4. Swept'
      BY <2>1, <3>2, <3>3 DEF Swept, NoOrphans
    <3> QED
      BY <1>a, <1>b, <2>1, <2>2, <2>3, <3>1, <3>4, LoopStep DEF Goal
  <2>5. CASE UNCHANGED plan
    <3>1. Swept'
      BY <2>1, <2>5, SweptLeft
    <3> QED
      BY <1>a, <1>b, <2>1, <2>2, <2>3, <2>5, <3>1, LoopStep DEF Goal
  <2> QED
    BY <1>25, <2>4, <2>5 DEF DriftRevises
<1>26. ASSUME DriftNudges \/ (\E kind \in Kinds : Send(kind)) \/ UNCHANGED vars PROVE Goal
  <2>1. UNCHANGED <<plan, pc, why, invoke, claim, sweep, turns, flag, causes, stamped>>
    BY <1>26 DEF DriftNudges, Send, vars, reconciler, history
  <2>2. Marked' /\ (Alive' <=> Alive) /\ Swept'
    BY <1>c, <2>1, SweptLeft DEF Marked, Alive
  <2>3. Detached'
    BY <1>d, <2>1, <2>2 DEF Detached, turns
  <2> QED
    BY <1>a, <1>b, <2>1, <2>2, <2>3, LoopStep DEF Goal
<1>29. Goal
  BY <1>1, <1>2, <1>3, <1>4, <1>5, <1>6, <1>7, <1>8, <1>9, <1>10, <1>11, <1>12, <1>13, <1>14,
     <1>15, <1>16, <1>17, <1>18, <1>19, <1>20, <1>21, <1>22, <1>23, <1>25, <1>26, <1>30
  DEF Next, Executor, Reconciler
<1> QED
  BY <1>29 DEF Goal

\* The invariant holds.
LEMMA OverlayInvHolds == Spec => []OverlayInv
BY OverlayInit, OverlayStep, PTL DEF Spec

-----------------------------------------------------------------------------
\* As long as the plugin is attached, what the reconciler has noted for an agent
\* is what the agent's open turn has claimed, across restarts, revisions, rewinds
\* and invocations left behind: on_after_agent completes a task only for a turn
\* that worked on it.  Only an agent two of whose turns were open at once is told
\* wrong, and no longer than until the last of them has ended.
THEOREM ClaimsMatchTurnsHolds == Spec => []ClaimsMatchTurns
<1>1. OverlayInv => ClaimsMatchTurns
  BY DEF OverlayInv, Claimed, Told, ClaimsMatchTurns
<1> QED
  BY <1>1, OverlayInvHolds, PTL

\* When a run completes, no task is pending behind one that can never complete,
\* except behind a failed one that a task was meant to replace: the list
\* _sweep_unreachable_pending works through may be stale, but its cascades and
\* Plan.validate keep new orphans from appearing, and an invocation left behind
\* has lost the plugin.
THEOREM NoOrphansHolds == Spec => []NoOrphans
<1>1. OverlayInv => NoOrphans
  BY DEF OverlayInv, Swept
<1> QED
  BY <1>1, OverlayInvHolds, PTL

\* The steps that end the run.
LEMMA EndingSteps ==
    ASSUME [Next]_vars, Over', ~Over
    PROVE  CancelAborts \/ ErrorAborts \/ PauseEnds \/ Classify \/ RaceRaises
<1>1. ~UNCHANGED pc
  BY DEF Over
<1>2. ~Receive /\ ~StrayEnds /\ ~DriftRevises /\ ~DriftNudges /\ ~UNCHANGED vars
  BY <1>1 DEF Receive, StrayEnds, DriftRevises, DriftNudges, vars
<1>3. ~GraceExpires
  BY DEF GraceExpires, Over
<1>4. ~Reconciler
  BY <1>1 DEF Reconciler, TurnBegins, TurnEnds, AgentReports, Reconciled
<1>5. ~(\E how \in Endings : InvokeEnds(how)) /\ ~(\E kind \in Kinds : Send(kind))
  BY <1>1 DEF InvokeEnds, Send
<1>6. Executor
  BY <1>2, <1>3, <1>4, <1>5 DEF Next
<1>7. ~(Dispatch \/ SweepOne)
  BY DEF Dispatch, SweepOne, Over
<1>8. ~(SupersedeRestarts \/ SteerRestarts \/ GoldfiveSteerRestarts \/ Replay)
  BY DEF SupersedeRestarts, SteerRestarts, GoldfiveSteerRestarts, Replay, StartsOver, Over
<1>9. ~(Iterate \/ RaceWon \/ GraceOver \/ NoReplay \/ FinalizeOutcomes \/ Audit)
  BY DEF Iterate, RaceWon, GraceOver, NoReplay, FinalizeOutcomes, Audit, Over
<1> QED
  BY <1>6, <1>7, <1>8, <1>9 DEF Executor

\* A step of the loop takes a cancellation for what it is.
LEMMA ToldStep ==
    ASSUME OverlayInv, [Next]_vars
    PROVE  /\ SupersedeRestarts => stamped
           /\ Over' /\ ~Over /\ why' = "cancelled" /\ causes' = {"supersede"} /\ ~FailOnCancel =>
                 ~channel /\ pc' = "raised"
<1>1. SupersedeRestarts => stamped
  BY DEF SupersedeRestarts, OverlayInv, Marked
<1>2. ASSUME Over', ~Over, why' = "cancelled", causes' = {"supersede"}, ~FailOnCancel
      PROVE  ~channel /\ pc' = "raised"
  <2>1. CancelAborts \/ ErrorAborts \/ PauseEnds \/ Classify \/ RaceRaises
    BY <1>2, EndingSteps
  <2>2. ~CancelAborts
    <3>1. SUFFICES ASSUME CancelAborts PROVE FALSE
      OBVIOUS
    <3>2. ~flag /\ pc = "returned" /\ causes = {"supersede"}
      BY <1>2, <3>1 DEF CancelAborts, history
    <3> QED
      BY <3>2 DEF OverlayInv, Marked
  <2>3. ~ErrorAborts /\ ~PauseEnds
    BY <1>2 DEF ErrorAborts, PauseEnds
  <2>4. ~Classify
    BY <1>2 DEF Classify, OverlayInv, Phases
  <2>5. RaceRaises
    BY <2>1, <2>2, <2>3, <2>4
  <2> QED
    BY <2>5 DEF RaceRaises
<1> QED
  BY <1>1, <1>2

\* The loop takes a cancellation for a supersede only if a revision was stamped
\* since it last started over, and the run never ends for a cancellation that only
\* a revision has caused: _handle_invoke_cancelled finds the mark that
\* _cancel_inflight_for_revision has made, and no older one.  Only without a
\* control channel is it never asked, and the run ends by raising.
THEOREM SupersedeIsToldHolds == Spec => SupersedeIsTold
<1>1. OverlayInv /\ [Next]_vars =>
        [/\ SupersedeRestarts => stamped
         /\ Over' /\ ~Over /\ why' = "cancelled" /\ causes' = {"supersede"} /\ ~FailOnCancel =>
               ~channel /\ pc' = "raised"]_vars
  BY ToldStep
<1> QED
  BY <1>1, OverlayInvHolds, PTL DEF Spec, SupersedeIsTold
=============================================================================
