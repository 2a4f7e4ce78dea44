----------------------- MODULE RunnerAndPlannerProofs -----------------------
(***************************************************************************)
(* Proofs about RunnerAndPlanner, for every set of callers, keys and tasks *)
(* and whatever a model answers: the plans of a session keep to the        *)
(* topology of corrections, the handling of a loop stops it, the turns     *)
(* implement SerialTurns, and a conversation keeps their goals.            *)
(***************************************************************************)
EXTENDS RunnerAndPlanner, FiniteSetTheorems, WellFoundedInduction, TLAPS

-----------------------------------------------------------------------------
(***************************************************************************)
(* Induction over the numbers: NatInduction takes an operator, which no    *)
(* prover here can instantiate; the finite sets 0 .. n, ordered by         *)
(* inclusion, do as well.                                                  *)
(***************************************************************************)

\* A nonempty set of finite sets has a member that includes no other.
LEMMA Minimal ==
    ASSUME NEW T, T # {}, \A x \in T : IsFiniteSet(x)
    PROVE  \E x \in T : \A y \in T : y \subseteq x => y = x
<1> DEFINE U == UNION T
<1>1. T \subseteq FiniteSubsetsOf(U)
  BY DEF FiniteSubsetsOf
<1>2. PICK x \in T : \A y \in T : <<y, x>> \notin StrictSubsetOrdering(U)
  <2>1. IsWellFoundedOn(StrictSubsetOrdering(U), FiniteSubsetsOf(U))
    BY FS_StrictSubsetOrderingWellFounded
  <2> HIDE DEF U
  <2>. QED BY <1>1, <2>1, WFMin
<1>. QED BY <1>2 DEF StrictSubsetOrdering

\* A nonempty set of numbers has a least one.
LEMMA Least == ASSUME NEW S \in SUBSET Nat, S # {} PROVE \E n \in S : \A m \in S : n <= m
<1> DEFINE T == {0 .. n : n \in S}
<1>1. \A x \in T : IsFiniteSet(x)
  BY FS_Interval
<1>2. T # {}
  OBVIOUS
<1>3. PICK x \in T : \A y \in T : y \subseteq x => y = x
  <2> HIDE DEF T
  <2>. QED BY <1>1, <1>2, Minimal
<1>4. PICK n \in S : x = 0 .. n
  BY <1>3
<1>5. ASSUME NEW m \in S, ~(n <= m) PROVE FALSE
  <2>1. 0 .. m \in T /\ 0 .. m \subseteq x /\ n \in x /\ n \notin 0 .. m
    BY <1>4, <1>5
  <2>. QED BY <2>1, <1>3
<1>. QED BY <1>5

\* Induction: a set that has 0 and, with each number, the next one, has all.
LEMMA Induction ==
    ASSUME NEW S, 0 \in S, \A n \in Nat : n \in S => n + 1 \in S
    PROVE  Nat \subseteq S
<1> SUFFICES ASSUME Nat \ S # {} PROVE FALSE
  OBVIOUS
<1>1. PICK n \in Nat \ S : \A m \in Nat \ S : n <= m
  BY Least
<1>2. n - 1 \in Nat /\ n - 1 \notin Nat \ S
  BY <1>1
<1>. QED BY <1>1, <1>2

\* f runs from first, in n steps.
Runs(f, V, n, first, step) ==
    /\ f \in [0 .. n -> V] /\ f[0] = first
    /\ \A k \in 1 .. n : f[k] = step[k][f[k - 1]]

\* A function on 0 .. n that is given by its first value and by steps exists, and
\* stays where the steps stay.
LEMMA Recursion ==
    ASSUME NEW V, NEW first \in V, NEW n \in Nat, NEW step \in [1 .. n -> [V -> V]]
    PROVE  \E f : Runs(f, V, n, first, step)
<1> USE DEF Runs
<1> DEFINE Good(f, m) == Runs(f, V, m, first, step)
           S == {m \in Nat : m <= n => \E f : Good(f, m)}
<1>1. 0 \in S
  <2>1. Good([k \in 0 .. 0 |-> first], 0)
    OBVIOUS
  <2>. QED BY <2>1
<1>2. ASSUME NEW m \in Nat, m \in S PROVE m + 1 \in S
  <2> SUFFICES ASSUME m + 1 <= n PROVE \E f : Good(f, m + 1)
    OBVIOUS
  <2>1. PICK f : Good(f, m)
    BY <1>2
  <2> DEFINE last == step[m + 1][f[m]]
             g == [k \in 0 .. m + 1 |-> IF k = m + 1 THEN last ELSE f[k]]
  <2>2. last \in V
    <3>1. m + 1 \in 1 .. n /\ f[m] \in V
      BY <2>1
    <3>. QED BY <3>1
  <2>3. /\ \A k \in 0 .. m : g[k] = f[k] /\ k # m + 1
        /\ g[m + 1] = last
        /\ \A k \in 0 .. m + 1 : k = m + 1 \/ k \in 0 .. m
        /\ \A k \in 1 .. m + 1 : k - 1 \in 0 .. m /\ (k = m + 1 \/ k \in 1 .. m)
        /\ (m + 1) - 1 = m /\ 0 \in 0 .. m
    OBVIOUS
  <2>4. g \in [0 .. m + 1 -> V]
    <3>1. \A k \in 0 .. m + 1 : g[k] \in V
      <4> HIDE DEF last
      <4>. QED BY <2>1, <2>2, <2>3
    <3>. QED BY <3>1
  <2> HIDE DEF g
  <2>5. ASSUME NEW k \in 1 .. m + 1 PROVE g[k] = step[k][g[k - 1]]
    <3>1. g[k - 1] = f[k - 1]
      BY <2>3
    <3>2. CASE k = m + 1
      BY <2>3, <3>1, <3>2
    <3>3. CASE k \in 1 .. m
      <4>1. k \in 0 .. m
        BY <3>3
      <4>2. g[k] = f[k]
        BY <2>3, <4>1
      <4>3. f[k] = step[k][f[k - 1]]
        BY <2>1, <3>3
      <4>. QED BY <3>1, <4>2, <4>3
    <3>. QED BY <2>3, <3>2, <3>3
  <2>6. g[0] = first
    BY <2>1, <2>3
  <2>. QED BY <2>4, <2>5, <2>6
<1>3. n \in S
  <2> HIDE DEF S
  <2>. QED BY <1>1, <1>2, Induction
<1>. QED BY <1>3

-----------------------------------------------------------------------------
(***************************************************************************)
(* Corrections.                                                            *)
(***************************************************************************)

\* The equation of Integrated.
Links(p, order, f, n) ==
    f = [k \in 0 .. n |-> IF k = 0 THEN [edges |-> p.edges, existing |-> p.edges]
                          ELSE Corrected(p, f[k - 1], order[k])]

\* It has a solution up to every number.
LEMMA LinksExist == ASSUME NEW p, NEW order, NEW n \in Nat PROVE \E f : Links(p, order, f, n)
<1> DEFINE S == {m \in Nat : \E f : Links(p, order, f, m)}
           first == [edges |-> p.edges, existing |-> p.edges]
<1>1. 0 \in S
  <2>1. Links(p, order, [k \in 0 .. 0 |-> first], 0)
    BY DEF Links
  <2>. QED BY <2>1
<1>2. ASSUME NEW m \in Nat, m \in S PROVE m + 1 \in S
  <2>1. PICK f : Links(p, order, f, m)
    BY <1>2
  <2> DEFINE g == [k \in 0 .. m + 1 |->
                      IF k <= m THEN f[k] ELSE Corrected(p, f[m], order[m + 1])]
  <2>2. \A k \in 0 .. m + 1 : g[k] = IF k = 0 THEN first ELSE Corrected(p, g[k - 1], order[k])
    <3>1. \A k \in 0 .. m : f[k] = IF k = 0 THEN first ELSE Corrected(p, f[k - 1], order[k])
      BY <2>1 DEF Links
    <3>2. \A k \in 0 .. m : g[k] = f[k] /\ (k # 0 => g[k - 1] = f[k - 1])
      OBVIOUS
    <3>3. g[m + 1] = Corrected(p, g[m], order[m + 1]) /\ (m + 1) - 1 = m /\ m + 1 # 0
      OBVIOUS
    <3>4. \A k \in 0 .. m + 1 : k = m + 1 \/ k \in 0 .. m
      OBVIOUS
    <3> HIDE DEF g, first
    <3>. QED BY <3>1, <3>2, <3>3, <3>4
  <2>3. Links(p, order, g, m + 1)
    <3>1. g = [k \in 0 .. m + 1 |-> g[k]]
      OBVIOUS
    <3> HIDE DEF g
    <3>. QED BY <2>2, <3>1 DEF Links
  <2>. QED BY <2>3
<1>. QED BY <1>1, <1>2, Induction

\* Where what came after a task went, once the first n corrections are integrated.
RoutedUpTo(p, order, links, n) ==
    /\ links \in [edges : SUBSET (Tasks \X Tasks), existing : SUBSET (Tasks \X Tasks)]
    /\ \A k \in 1 .. n :
          LET old == p.supersedes[order[k]] IN
          old \notin Corrections(p) =>
              \A u \in Tasks : <<old, u>> \in links.edges =>
                  u \in Corrections(p) /\ p.supersedes[u] = old

\* One correction routes what comes after its task, and leaves what is routed.
LEMMA CorrectedRoutes ==
    ASSUME NEW p \in PlansWithKinds, NEW order, NEW n \in Nat, NEW links,
           \A k \in 1 .. n + 1 : order[k] \in Corrections(p),
           RoutedUpTo(p, order, links, n)
    PROVE  RoutedUpTo(p, order, Corrected(p, links, order[n + 1]), n + 1)
<1> DEFINE x == order[n + 1]
           old == p.supersedes[x]
           edges == links.edges \cup ({<<old, x>>} \ links.existing)
           moved == {e \in edges : e[1] = old /\ e[2] # x}
           fresh == {e \in moved : <<x, e[2]>> \notin links.existing}
           next == Corrected(p, links, x)
<1>1. n + 1 \in 1 .. n + 1 /\ \A k \in 1 .. n + 1 : k = n + 1 \/ k \in 1 .. n
  OBVIOUS
<1>2. x \in Corrections(p) /\ x \in Tasks /\ old \in Tasks
  BY <1>1 DEF Corrections, Ids
<1>3. links.edges \in SUBSET (Tasks \X Tasks) /\ links.existing \in SUBSET (Tasks \X Tasks)
  BY DEF RoutedUpTo
<1>4. edges \in SUBSET (Tasks \X Tasks)
  BY <1>2, <1>3
<1>5. /\ next.edges = (edges \ moved) \cup {<<x, e[2]>> : e \in moved}
      /\ next.existing = ((links.existing \cup {<<old, x>>}) \ fresh)
                             \cup {<<x, e[2]>> : e \in fresh}
      /\ next = [edges |-> next.edges, existing |-> next.existing]
  BY DEF Corrected
<1> HIDE DEF next
<1>6. next.edges \in SUBSET (Tasks \X Tasks) /\ next.existing \in SUBSET (Tasks \X Tasks)
  <2>1. \A e \in moved : <<x, e[2]>> \in Tasks \X Tasks
    BY <1>2, <1>4
  <2> HIDE DEF edges, old, x
  <2>2. next.edges \in SUBSET (Tasks \X Tasks)
    BY <1>4, <1>5, <2>1
  <2>3. \A e \in fresh : <<x, e[2]>> \in Tasks \X Tasks
    BY <2>1
  <2>4. <<old, x>> \in Tasks \X Tasks
    BY <1>2
  <2> HIDE DEF fresh, moved
  <2>5. next.existing \in SUBSET (Tasks \X Tasks)
    BY <1>3, <1>5, <2>3, <2>4
  <2>. QED BY <2>2, <2>5
<1>7. ASSUME NEW o \in Tasks \ Corrections(p), NEW u \in Tasks, <<o, u>> \in next.edges
      PROVE  \/ <<o, u>> \in links.edges /\ (o # old \/ u = x)
             \/ o = old /\ u = x
  <2>1. <<o, u>> \in edges \ moved \/ \E e \in moved : <<o, u>> = <<x, e[2]>>
    BY <1>5, <1>7
  <2>2. <<o, u>> \in edges \ moved
    BY <1>2, <2>1
  <2>. QED BY <2>2
<1>8. ASSUME NEW k \in 1 .. n + 1, p.supersedes[order[k]] \notin Corrections(p),
             NEW u \in Tasks, <<p.supersedes[order[k]], u>> \in next.edges
      PROVE  u \in Corrections(p) /\ p.supersedes[u] = p.supersedes[order[k]]
  <2> DEFINE o == p.supersedes[order[k]]
  <2>1. o \in Tasks \ Corrections(p)
    BY <1>8 DEF Corrections, Ids
  <2>2. \/ <<o, u>> \in links.edges /\ (o # old \/ u = x)
        \/ o = old /\ u = x
    BY <1>7, <1>8, <2>1
  <2>3. CASE k \in 1 .. n
    BY <1>2, <2>1, <2>2, <2>3 DEF RoutedUpTo
  <2>4. CASE k = n + 1
    BY <1>2, <2>2, <2>4
  <2>. QED BY <1>1, <2>3, <2>4
<1>. QED BY <1>5, <1>6, <1>8 DEF RoutedUpTo, next

\* Integration changes edges only, and routes what came after corrected tasks.
LEMMA IntegratedRoutes ==
    ASSUME NEW p \in PlansWithKinds, NEW order \in Orders(Corrections(p))
    PROVE  /\ Integrated(p, order) \in PlansWithKinds
           /\ Integrated(p, order).status = p.status
           /\ Routed(Integrated(p, order))
<1> DEFINE n == Cardinality(Corrections(p))
           f == CHOOSE f : Links(p, order, f, n)
           q == Integrated(p, order)
<1>1. n \in Nat
  <2>1. IsFiniteSet(Corrections(p))
    BY PlannerAssumption, FS_Subset DEF Corrections, Ids
  <2>. QED BY <2>1, FS_CardinalityType
<1>2. /\ \A k \in 1 .. n : order[k] \in Corrections(p)
      /\ \A x \in Corrections(p) : \E k \in 1 .. n : order[k] = x
  BY DEF Orders
<1>3. Links(p, order, f, n)
  BY <1>1, LinksExist
<1>4. q = [p EXCEPT !.edges = f[n].edges]
  BY DEF Integrated, Links
<1> HIDE DEF n, f, q
<1>5. \A k \in 0 .. n : f[k] = IF k = 0 THEN [edges |-> p.edges, existing |-> p.edges]
                               ELSE Corrected(p, f[k - 1], order[k])
  BY <1>3 DEF Links
<1> DEFINE S == {m \in Nat : m <= n => RoutedUpTo(p, order, f[m], m)}
<1>6. 0 \in S
  BY <1>1, <1>5 DEF RoutedUpTo, PlansWithKinds
<1>7. ASSUME NEW m \in Nat, m \in S PROVE m + 1 \in S
  <2> SUFFICES ASSUME m + 1 <= n PROVE RoutedUpTo(p, order, f[m + 1], m + 1)
    OBVIOUS
  <2>1. f[m + 1] = Corrected(p, f[m], order[m + 1])
    BY <1>1, <1>5
  <2>2. RoutedUpTo(p, order, f[m], m) /\ \A k \in 1 .. m + 1 : order[k] \in Corrections(p)
    BY <1>1, <1>2, <1>7
  <2>. QED BY <2>1, <2>2, CorrectedRoutes
<1>8. RoutedUpTo(p, order, f[n], n)
  <2>1. n \in S
    BY <1>1, <1>6, <1>7, Induction
  <2>. QED BY <1>1, <2>1
<1>9. /\ q \in PlansWithKinds /\ q.status = p.status /\ q.supersedes = p.supersedes
      /\ q.correct = p.correct /\ q.edges = f[n].edges
  <2>1. f[n].edges \in SUBSET (Tasks \X Tasks)
    BY <1>8 DEF RoutedUpTo
  <2>. QED BY <1>4, <2>1 DEF PlansWithKinds
<1>10. Corrections(q) = Corrections(p)
  BY <1>9 DEF Corrections, Ids
<1>11. Routed(q)
  <2> SUFFICES ASSUME NEW x \in Corrections(q), q.supersedes[x] \notin Corrections(q),
                      NEW u \in Dependents(q, q.supersedes[x])
               PROVE  u \in Corrections(q) /\ q.supersedes[u] = q.supersedes[x]
    BY DEF Routed
  <2>1. PICK k \in 1 .. n : order[k] = x
    BY <1>2, <1>10
  <2>2. u \in Tasks /\ <<q.supersedes[x], u>> \in f[n].edges
    <3>1. f[n].edges \in SUBSET (Tasks \X Tasks)
      BY <1>8 DEF RoutedUpTo
    <3>. QED BY <1>9, <3>1 DEF Dependents
  <2>. QED BY <1>8, <1>9, <1>10, <2>1, <2>2 DEF RoutedUpTo
<1>. QED BY <1>9, <1>11 DEF q

-----------------------------------------------------------------------------
(***************************************************************************)
(* What is done to the plan of an answer.                                  *)
(***************************************************************************)

\* The tasks, the edges and the links of a plan are those of another.
SameLinks(p, q) ==
    /\ q \in PlansWithKinds /\ Ids(q) = Ids(p)
    /\ q.edges = p.edges /\ q.supersedes = p.supersedes /\ q.correct = p.correct

\* Then so is their structure, and what is routed.
LEMMA SameRoutes ==
    ASSUME NEW p, NEW q, SameLinks(p, q)
    PROVE  /\ Structure(p) => Structure(q)
           /\ Routed(p) => Routed(q)
<1>1. Placed(q, LastStage) = Placed(p, LastStage)
  BY DEF SameLinks, Placed, Preds
<1>2. Corrections(q) = Corrections(p)
  BY DEF SameLinks, Corrections
<1>. QED BY <1>1, <1>2 DEF SameLinks, Structure, Acyclic, Routed, Dependents

\* A plan with other statuses for the same tasks.
LEMMA OtherStatuses ==
    ASSUME NEW p \in PlansWithKinds, NEW s \in [Tasks -> Status],
           \A u \in Tasks : s[u] = "ABSENT" <=> p.status[u] = "ABSENT"
    PROVE  SameLinks(p, [p EXCEPT !.status = s]) /\ [p EXCEPT !.status = s].status = s
BY DEF PlansWithKinds, SameLinks, Ids

\* One other status.
LEMMA OtherStatus ==
    ASSUME NEW p \in PlansWithKinds, NEW t \in Tasks, NEW to \in Status \ {"ABSENT"},
           p.status[t] # "ABSENT"
    PROVE  SameLinks(p, WithStatus(p, t, to)) /\ WithStatus(p, t, to).status[t] = to
           /\ \A u \in Tasks \ {t} : WithStatus(p, t, to).status[u] = p.status[u]
BY DEF PlansWithKinds, WithStatus, SameLinks, Ids

\* A cascade moves live tasks only, besides the one it starts from.
LEMMA CascadeLinks ==
    ASSUME NEW p \in PlansWithKinds, NEW t \in Tasks, NEW to \in Status \ {"ABSENT"},
           p.status[t] # "ABSENT"
    PROVE  SameLinks(p, WithCascade(p, t, to))
<1> DEFINE E == {e \in p.edges : p.status[e[1]] \in Live /\ p.status[e[2]] \in Live}
           C == {t} \cup {v \in Tasks : p.status[v] \in Live}
           s == [u \in Tasks |-> IF u = t THEN to
                                 ELSE IF u \in LiveReach(p, {t}) THEN "CANCELLED"
                                 ELSE p.status[u]]
<1>1. ASSUME NEW u \in LiveReach(p, {t}) PROVE u \in C
  <2>1. C \in SUBSET Tasks /\ {t} \subseteq C
    OBVIOUS
  <2>2. \A e \in E : e[2] \in C
    BY DEF PlansWithKinds
  <2>3. u \in Reach(E, {t})
    BY <1>1 DEF LiveReach
  <2>. QED BY <2>1, <2>2, <2>3 DEF Reach
<1>2. s \in [Tasks -> Status]
  BY DEF PlansWithKinds, Status, Terminal
<1>3. \A u \in Tasks : s[u] = "ABSENT" <=> p.status[u] = "ABSENT"
  BY <1>1 DEF Live
<1>4. WithCascade(p, t, to) = [p EXCEPT !.status = s]
  BY DEF WithCascade
<1> HIDE DEF s
<1>. QED BY <1>2, <1>3, <1>4, OtherStatuses

\* The repairs of an answer change links only.
LEMMA RepairsLinks ==
    ASSUME NEW p \in PlansWithKinds, NEW prior \in PlansWithKinds
    PROVE  /\ Backfilled(p, prior) \in PlansWithKinds /\ Backfilled(p, prior).status = p.status
           /\ Normalized(p, prior) \in PlansWithKinds /\ Normalized(p, prior).status = p.status
<1>1. Backfilled(p, prior) \in PlansWithKinds /\ Backfilled(p, prior).status = p.status
  BY PlannerAssumption DEF Backfilled, PlansWithKinds
<1>2. Normalized(p, prior) \in PlansWithKinds /\ Normalized(p, prior).status = p.status
  BY DEF Normalized, PlansWithKinds, Ids
<1>. QED BY <1>1, <1>2

\* An answer to a loop: whatever the model says of the looping task, it is finished.
LEMMA LooperFails ==
    ASSUME NEW p \in PlansWithKinds, NEW prior \in PlansWithKinds, NEW t \in Tasks \cup {NoTask}
    PROVE  /\ ForceLooperFailed(p, prior, t) \in PlansWithKinds
           /\ t \in Ids(prior) => ForceLooperFailed(p, prior, t).status[t] \in Terminal
<1>1. CASE t = NoTask
  BY <1>1, NoTaskAssumption DEF ForceLooperFailed, Ids
<1>2. CASE t \in Tasks
  <2> DEFINE q == WithStatus(p, t, "FAILED")
  <2>1. q \in PlansWithKinds /\ q.status[t] = "FAILED"
    BY <1>2 DEF WithStatus, PlansWithKinds, Status, Terminal
  <2> DEFINE r == [q EXCEPT !.supersedes[t] = prior.supersedes[t],
                            !.correct = @ \cup ({t} \cap prior.correct)]
  <2> HIDE DEF q
  <2>2. r \in PlansWithKinds /\ r.status[t] = "FAILED"
    BY <1>2, <2>1 DEF PlansWithKinds
  <2>3. p.status[t] \in Status
    BY <1>2 DEF PlansWithKinds
  <2>4. ForceLooperFailed(p, prior, t) \in {p, q, r}
    BY <1>2, NoTaskAssumption DEF ForceLooperFailed, q
  <2>5. t \in Ids(prior) => \/ ForceLooperFailed(p, prior, t) \in {q, r}
                            \/ p.status[t] \in Terminal /\ ForceLooperFailed(p, prior, t) = p
    BY <1>2, <2>3, NoTaskAssumption DEF ForceLooperFailed, q, Status
  <2> HIDE DEF r
  <2>. QED BY <2>1, <2>2, <2>4, <2>5 DEF Terminal
<1>. QED BY <1>1, <1>2

\* The merge of a steer.
LEMMA SteerMerges ==
    ASSUME NEW p \in PlansWithKinds, NEW prior \in PlansWithKinds
    PROVE  SteerMerge(p, prior) \in PlansWithKinds
BY DEF SteerMerge, PlansWithKinds

\* What is finished in the session's plan is folded into the new one.
LEMMA FoldedIs ==
    ASSUME NEW p \in PlansWithKinds, NEW prior \in PlansWithKinds
    PROVE  /\ Folded(p, prior) \in PlansWithKinds
           /\ \A t \in Tasks : p.status[t] \in Terminal =>
                 Folded(p, prior).status[t] = p.status[t]
           /\ KeepsTerminal(p, prior) => Folded(p, prior) = p
<1> DEFINE s == [t \in Tasks |-> IF p.status[t] \in Live /\ prior.status[t] \in Terminal
                                 THEN prior.status[t] ELSE p.status[t]]
<1>1. s \in [Tasks -> Status]
  BY DEF PlansWithKinds
<1>2. Folded(p, prior) = [p EXCEPT !.status = s]
  BY DEF Folded
<1>3. \A t \in Tasks : p.status[t] \in Terminal => s[t] = p.status[t]
  BY DEF Terminal, Live
<1>4. KeepsTerminal(p, prior) => s = p.status
  <2>1. p.status = [t \in Tasks |-> p.status[t]]
    BY DEF PlansWithKinds
  <2>. QED BY <2>1 DEF KeepsTerminal
<1> HIDE DEF s
<1>. QED BY <1>1, <1>2, <1>3, <1>4 DEF PlansWithKinds

\* The fallback for a loop is a valid revision, if the plan is one of itself and
\* nothing pending comes after the looping task.
LEMMA FallbackIsValid ==
    ASSUME NEW p \in PlansWithKinds, NEW t \in Tasks, p.status[t] \in Live,
           ValidRevision(p, p), \A u \in Dependents(p, t) : p.status[u] # "PENDING"
    PROVE  ValidRevision(WithStatus(p, t, "FAILED"), p)
<1> DEFINE q == WithStatus(p, t, "FAILED")
<1>1. SameLinks(p, q) /\ q.status[t] = "FAILED"
      /\ \A u \in Tasks \ {t} : q.status[u] = p.status[u]
  BY OtherStatus DEF Live, Status, Terminal
<1> HIDE DEF q
<1>2. Structure(q)
  BY <1>1, SameRoutes DEF ValidRevision
<1>3. KeepsTerminal(q, p)
  BY <1>1 DEF KeepsTerminal, SameLinks, Live, Terminal
<1>4. NoGraft(q)
  <2> SUFFICES ASSUME NEW e \in p.edges, q.status[e[1]] \in Dead PROVE q.status[e[2]] # "PENDING"
    BY <1>1 DEF NoGraft, SameLinks
  <2>1. e[1] \in Tasks /\ e[2] \in Tasks
    BY DEF PlansWithKinds
  <2>2. CASE e[2] = t
    BY <1>1, <2>2
  <2>3. CASE e[2] # t /\ e[1] = t
    BY <1>1, <2>1, <2>3 DEF Dependents
  <2>4. CASE e[2] # t /\ e[1] # t
    BY <1>1, <2>1, <2>4 DEF ValidRevision, NoGraft
  <2>. QED BY <2>2, <2>3, <2>4
<1>5. Corrective(q, p)
  <2> SUFFICES ASSUME NEW x \in Ids(p), p.supersedes[x] # NoTask
               PROVE  LET y == p.supersedes[x] IN
                      /\ y # x
                      /\ y \in Ids(p)
                      /\ y \in Ids(p) => p.supersedes[y] # x
                      /\ p.status[y] \in Live /\ q.status[y] \notin Terminal =>
                           \/ q.status[y] = "PENDING" /\ <<x, y>> \in p.edges
                           \/ \A e \in p.edges :
                                 e[1] = y /\ q.status[e[2]] \in Live => <<x, e[2]>> \in p.edges
    BY <1>1 DEF Corrective, SameLinks
  <2> DEFINE y == p.supersedes[x]
  <2>1. /\ y # x /\ y \in Ids(p) /\ p.supersedes[y] # x
        /\ p.status[y] \in Live /\ p.status[y] \notin Terminal =>
             \/ p.status[y] = "PENDING" /\ <<x, y>> \in p.edges
             \/ \A e \in p.edges :
                   e[1] = y /\ p.status[e[2]] \in Live => <<x, e[2]>> \in p.edges
    BY DEF ValidRevision, Corrective
  <2>2. \A e \in p.edges : e[2] \in Tasks
    BY DEF PlansWithKinds
  <2>3. \A u \in Tasks : q.status[u] \in Live => p.status[u] = q.status[u]
    BY <1>1 DEF Live
  <2>4. y \in Tasks /\ (p.status[y] \in Live => p.status[y] \notin Terminal)
    BY <2>1 DEF Ids, Live, Terminal
  <2>5. q.status[y] \notin Terminal => y # t /\ q.status[y] = p.status[y]
    BY <1>1, <2>4 DEF Terminal
  <2> HIDE DEF y
  <2>6. ASSUME p.status[y] \in Live, q.status[y] \notin Terminal
        PROVE  \/ q.status[y] = "PENDING" /\ <<x, y>> \in p.edges
               \/ \A e \in p.edges :
                     e[1] = y /\ q.status[e[2]] \in Live => <<x, e[2]>> \in p.edges
    BY <2>1, <2>2, <2>3, <2>4, <2>5, <2>6
  <2>. QED BY <2>1, <2>6 DEF y
<1>. QED BY <1>2, <1>3, <1>4, <1>5 DEF ValidRevision, q

-----------------------------------------------------------------------------
(***************************************************************************)
(* The invariant of the planner: the session's plan is routed, and what a  *)
(* call about a loop returns has the looping task finished, in a plan that *)
(* revises the one it was made for, unless it is the fallback.             *)
(***************************************************************************)

\* What a call can be.
Errors == {"none", "structure", "terminal_missing", "terminal_regressed", "edge_missing",
           "topology", "goals", "creation"}
Calls == [op : Operations \cup {"none"}, at : {"idle", "asking", "returned"},
          task : Tasks \cup {NoTask}, attempt : Nat, prior : PlansWithKinds,
          error : Errors, result : PlansWithKinds, flag : {"none", "twice", "pivot"}]

\* What is returned about a loop of t in the plan prior.
LoopGiven(prior, t, p, flag) ==
    \/ flag = "twice" /\ ListsTwice(prior, t)
    \/ /\ flag = "none"
       /\ t \in Ids(prior) => p.status[t] \in Terminal
       /\ ValidRevision(p, prior) \/ (t \in Ids(prior) => p = WithStatus(prior, t, "FAILED")
                                                         /\ prior.status[t] \in Live)

\* The plan is typed and routed, and what is returned about a loop is that.
PlannerInv ==
    /\ plan \in PlansWithKinds /\ Routed(plan)
    /\ call \in Calls
    /\ call.op = "none" <=> call = Idle
    /\ call.op = "loop" /\ call.at = "returned" =>
          LoopGiven(call.prior, call.task, call.result, call.flag)

\* No call, and a call that goes on.
LEMMA IdleCalls ==
    /\ NoTasks \in PlansWithKinds /\ Idle \in Calls /\ Idle.op = "none" /\ Idle.at = "idle"
<1>1. NoTasks \in PlansWithKinds
  BY DEF NoTasks, PlansWithKinds, Status
<1>. QED BY <1>1 DEF Idle, Calls, Errors

\* The call returns p.
LEMMA Giving ==
    ASSUME PlannerInv, call.at = "asking", NEW p \in PlansWithKinds,
           NEW flag \in {"none", "twice", "pivot"}, Gives(p, flag),
           call.op = "loop" => LoopGiven(call.prior, call.task, p, flag)
    PROVE  PlannerInv'
<1>1. call \in Calls /\ call # Idle
  BY IdleCalls DEF PlannerInv
<1>2. call' = [call EXCEPT !.at = "returned", !.result = p, !.flag = flag] /\ plan' = plan
  BY DEF Gives
<1>3. call' \in Calls /\ call'.op = call.op /\ call'.prior = call.prior /\ call'.task = call.task
      /\ call'.result = p /\ call'.flag = flag /\ call'.at = "returned"
  BY <1>1, <1>2 DEF Calls
<1>4. call' # Idle
  BY <1>3, IdleCalls
<1>5. call.op # "none"
  BY <1>1 DEF PlannerInv
<1>. QED BY <1>2, <1>3, <1>4, <1>5 DEF PlannerInv

\* The call ends without a plan, or with the fallback.
LEMMA GivingUp ==
    ASSUME PlannerInv, call.at = "asking", GivesUp PROVE PlannerInv'
<1>1. call \in Calls
  BY DEF PlannerInv
<1>2. CASE call.op # "loop"
  BY <1>2, IdleCalls DEF GivesUp, PlannerInv
<1>3. CASE call.op = "loop"
  <2> DEFINE prior == call.prior
             t == call.task
             p == FallbackFailLoop(prior, t)
             flag == IF ListsTwice(prior, t) THEN "twice" ELSE "none"
  <2>1. prior \in PlansWithKinds /\ t \in Tasks \cup {NoTask}
    BY <1>1 DEF Calls
  <2>2. Gives(p, flag)
    BY <1>3 DEF GivesUp
  <2>3. p \in PlansWithKinds
    BY <2>1 DEF FallbackFailLoop, Ids, WithStatus, PlansWithKinds, Status, Terminal
  <2>4. LoopGiven(prior, t, p, flag)
    <3>1. CASE ListsTwice(prior, t)
      BY <3>1 DEF LoopGiven
    <3>2. CASE ~ListsTwice(prior, t)
      <4> SUFFICES ASSUME t \in Ids(prior)
                   PROVE  /\ p = WithStatus(prior, t, "FAILED") /\ prior.status[t] \in Live
                          /\ p.status[t] \in Terminal
        BY <3>2 DEF LoopGiven
      <4>1. t \in Tasks /\ t # NoTask /\ prior.status[t] # "ABSENT"
        BY NoTaskAssumption DEF Ids
      <4>2. prior.status[t] \in Live
        BY <2>1, <3>2, <4>1 DEF ListsTwice, PlansWithKinds, Status
      <4>3. p = WithStatus(prior, t, "FAILED")
        BY <4>1, <4>2 DEF FallbackFailLoop
      <4> HIDE DEF p
      <4>4. p.status[t] = "FAILED"
        BY <2>1, <4>1, <4>3, OtherStatus DEF Status, Terminal
      <4>. QED BY <4>2, <4>3, <4>4 DEF Terminal
    <3>. QED BY <3>1, <3>2
  <2> HIDE DEF p
  <2>. QED BY <2>2, <2>3, <2>4, Giving
<1>. QED BY <1>2, <1>3

\* The model is asked again.
LEMMA Retrying ==
    ASSUME PlannerInv, call.at = "asking", NEW error \in Errors, Retry(error) PROVE PlannerInv'
<1>1. CASE GivesUp
  BY <1>1, GivingUp
<1>2. CASE call' = [call EXCEPT !.attempt = @ + 1, !.error = error] /\ UNCHANGED plan
  <2>1. call \in Calls /\ call.op # "none"
    BY IdleCalls DEF PlannerInv
  <2>2. call.attempt + 1 \in Nat
    BY <2>1 DEF Calls
  <2>3. call' \in Calls /\ call'.op = call.op /\ call'.at = "asking"
    <3> DEFINE n == call.attempt + 1
    <3>1. call' = [call EXCEPT !.attempt = n, !.error = error]
      BY <1>2, <2>1 DEF Calls
    <3> HIDE DEF n
    <3>2. n \in Nat
      BY <2>2 DEF n
    <3>. QED BY <2>1, <3>1, <3>2 DEF Calls
  <2>. QED BY <1>2, <2>1, <2>3, IdleCalls DEF PlannerInv
<1>. QED BY <1>1, <1>2 DEF Retry

\* A plan is considered, and used if it is no worse than its error says.
LEMMA Considering ==
    ASSUME PlannerInv, call.at = "asking", NEW p \in PlansWithKinds, NEW error \in Errors,
           Considered(p, error),
           call.op = "loop" /\ error = "none" => LoopGiven(call.prior, call.task, p, "none")
    PROVE  PlannerInv'
<1>1. CASE error = "none" /\ Gives(p, "none")
  BY <1>1, Giving
<1>2. CASE Retry(IF error = "none" THEN "goals" ELSE error)
  <2>1. (IF error = "none" THEN "goals" ELSE error) \in Errors
    BY DEF Errors
  <2>. QED BY <1>2, <2>1, Retrying
<1>. QED BY <1>1, <1>2 DEF Considered

\* What the validator reports, and that it reports nothing of a valid revision only.
LEMMA RejectionIs ==
    ASSUME NEW p, NEW prior
    PROVE  /\ Rejection(p, prior) \in Errors
           /\ Rejection(p, prior) = "none" => ValidRevision(p, prior)
BY DEF Rejection, Errors

\* Every answer.
LEMMA Answering ==
    ASSUME PlannerInv, NEW a \in Answers, Answer(a) PROVE PlannerInv'
<1>1. /\ call.at = "asking" /\ call \in Calls /\ call.prior \in PlansWithKinds
      /\ call.task \in Tasks \cup {NoTask}
      /\ a \in PlansWithKinds
  BY PlannerAssumption DEF Answer, PlannerInv, Calls
<1>2. CASE AnswerGenerate(a)
  <2>1. Considered(a, IF ValidCreation(a) THEN "none" ELSE "creation") /\ call.op = "generate"
    BY <1>2 DEF AnswerGenerate
  <2>2. (IF ValidCreation(a) THEN "none" ELSE "creation") \in Errors
    BY DEF Errors
  <2>. QED BY <1>1, <2>1, <2>2, Considering
<1>3. CASE AnswerRefine(a)
  <2> DEFINE p == Repaired(a, call.prior)
  <2>1. p \in PlansWithKinds
    BY <1>1, RepairsLinks DEF Repaired
  <2>2. Considered(p, Rejection(p, call.prior)) /\ call.op = "refine"
    BY <1>3 DEF AnswerRefine
  <2> HIDE DEF p
  <2>. QED BY <1>1, <2>1, <2>2, RejectionIs, Considering
<1>4. CASE AnswerLoop(a)
  <2> DEFINE f == ForceLooperFailed(a, call.prior, call.task)
             p == Repaired(f, call.prior)
  <2>1. f \in PlansWithKinds
        /\ (call.task \in Ids(call.prior) => f.status[call.task] \in Terminal)
    BY <1>1, LooperFails
  <2> HIDE DEF f
  <2>2. p \in PlansWithKinds /\ p.status = f.status
    BY <1>1, <2>1, RepairsLinks DEF Repaired
  <2>3. Considered(p, Rejection(p, call.prior))
    BY <1>4 DEF AnswerLoop, f
  <2> HIDE DEF p
  <2>4. Rejection(p, call.prior) = "none" => LoopGiven(call.prior, call.task, p, "none")
    BY <2>1, <2>2, RejectionIs DEF LoopGiven
  <2>. QED BY <1>1, <2>2, <2>3, <2>4, RejectionIs, Considering
<1>5. CASE AnswerSteer(a)
  <2> DEFINE p == Normalized(SteerMerge(Backfilled(a, call.prior), call.prior), call.prior)
  <2>1. p \in PlansWithKinds
    <3> DEFINE b == Backfilled(a, call.prior)
               m == SteerMerge(b, call.prior)
    <3>1. b \in PlansWithKinds
      BY <1>1, RepairsLinks
    <3> HIDE DEF b
    <3>2. m \in PlansWithKinds
      BY <1>1, <3>1, SteerMerges
    <3> HIDE DEF m
    <3>3. Normalized(m, call.prior) \in PlansWithKinds
      BY <1>1, <3>2, RepairsLinks
    <3>. QED BY <3>3 DEF m, b
  <2>2. Considered(p, Rejection(p, call.prior)) /\ call.op = "steer"
    BY <1>5 DEF AnswerSteer
  <2> HIDE DEF p
  <2>. QED BY <1>1, <2>1, <2>2, RejectionIs, Considering
<1>6. CASE AnswerTurn(a)
  <2>1. CASE \E flag \in {"none", "pivot"} : Gives(a, flag)
    <3>1. call.op = "turn"
      BY <1>6 DEF AnswerTurn
    <3>. QED BY <1>1, <2>1, <3>1, Giving
  <2>2. CASE call' = [call EXCEPT !.attempt = 2] /\ UNCHANGED plan
    <3>1. call' \in Calls /\ call'.op = "turn"
      BY <1>1, <1>6, <2>2 DEF Calls, AnswerTurn
    <3>. QED BY <2>2, <3>1, IdleCalls DEF PlannerInv
  <2>. QED BY <1>6, <2>1, <2>2 DEF AnswerTurn
<1>. QED BY <1>2, <1>3, <1>4, <1>5, <1>6 DEF Answer

\* Installation: what is installed is routed.
LEMMA Installing ==
    ASSUME PlannerInv, Install PROVE PlannerInv'
<1> DEFINE new == IF call.flag = "pivot" THEN call.result ELSE Folded(call.result, plan)
<1>1. call' = Idle
  BY DEF Install
<1>2. new \in PlansWithKinds
  BY FoldedIs DEF PlannerInv, Calls
<1>3. plan' = plan \/ \E order \in Orders(Corrections(new)) : plan' = Integrated(new, order)
  BY DEF Install
<1> HIDE DEF new
<1>4. plan' \in PlansWithKinds /\ Routed(plan')
  BY <1>2, <1>3, IntegratedRoutes DEF PlannerInv
<1>. QED BY <1>1, <1>4, IdleCalls DEF PlannerInv

\* The tasks move.
LEMMA Moving ==
    ASSUME PlannerInv, NEW t \in Tasks, Start(t) \/ Complete(t) \/ Fail(t) \/ CancelTask(t)
    PROVE  PlannerInv'
<1>1. plan \in PlansWithKinds /\ call' = call
  BY DEF PlannerInv, Start, Complete, Fail, CancelTask
<1>2. plan.status[t] # "ABSENT"
  BY DEF Start, Pickable, Complete, Fail, CancelTask, Live
<1>3. \/ \E to \in {"RUNNING", "COMPLETED", "FAILED"} : plan' = WithStatus(plan, t, to)
      \/ plan' = WithCascade(plan, t, "CANCELLED")
  BY DEF Start, Complete, Fail, CancelTask
<1>4. SameLinks(plan, plan')
  <2>1. {"RUNNING", "COMPLETED", "FAILED", "CANCELLED"} \subseteq Status \ {"ABSENT"}
    BY DEF Status, Live, Terminal
  <2>2. CASE \E to \in {"RUNNING", "COMPLETED", "FAILED"} : plan' = WithStatus(plan, t, to)
    BY <1>1, <1>2, <2>1, <2>2, OtherStatus
  <2>3. CASE plan' = WithCascade(plan, t, "CANCELLED")
    BY <1>1, <1>2, <2>1, <2>3, CascadeLinks
  <2>. QED BY <1>3, <2>2, <2>3
<1>5. Routed(plan') /\ plan' \in PlansWithKinds
  BY <1>4, SameRoutes DEF PlannerInv, SameLinks
<1>. QED BY <1>1, <1>5 DEF PlannerInv

\* The invariant is inductive.
LEMMA PlannerStep == PlannerInv /\ [PlannerNext]_plannerVars => PlannerInv'
<1> SUFFICES ASSUME PlannerInv, [PlannerNext]_plannerVars PROVE PlannerInv'
  OBVIOUS
<1>1. CASE UNCHANGED plannerVars
  BY <1>1 DEF plannerVars, PlannerInv
<1>2. ASSUME NEW op \in Operations, NEW t \in Tasks \cup {NoTask}, Ask(op, t) PROVE PlannerInv'
  <2>1. call' = [Idle EXCEPT !.op = op, !.at = "asking", !.task = t, !.attempt = 1, !.prior = plan]
        /\ plan' = plan
    BY <1>2 DEF Ask
  <2>2. call' \in Calls /\ call'.op = op /\ call'.at = "asking"
    BY <2>1, IdleCalls DEF PlannerInv, Calls
  <2>3. op # "none"
    BY DEF Operations
  <2>. QED BY <2>1, <2>2, <2>3, IdleCalls DEF PlannerInv
<1>3. CASE PromptFails \/ EmptyAnswer \/ RejectAnswer
  BY <1>3, GivingUp DEF PromptFails, EmptyAnswer, RejectAnswer
<1>4. CASE BadAnswer
  <2>1. "none" \in Errors
    BY DEF Errors
  <2>. QED BY <1>4, <2>1, GivingUp, Retrying DEF BadAnswer
<1>. QED BY <1>1, <1>2, <1>3, <1>4, Answering, Installing, Moving DEF PlannerNext

\* The handling of a loop stops the looping task.
LEMMA LoopIsStopped ==
    ASSUME PlannerInv, [PlannerNext]_plannerVars, LoopHandled, ValidRevision(plan, plan),
           \A u \in Dependents(plan, call.task) : plan.status[u] # "PENDING"
    PROVE  plan'.status[call.task] \notin Live
<1> DEFINE t == call.task
           p == call.result
<1>1. /\ call.op = "loop" /\ t \in Ids(plan) /\ call' = Idle /\ call.prior = plan /\ call # Idle
      /\ t \in Tasks /\ p \in PlansWithKinds /\ plan \in PlansWithKinds /\ call \in Calls
  BY IdleCalls DEF LoopHandled, PlannerInv, Calls, Ids
<1>2. Install
  <2>1. ~GivesUp
    <3>1. ASSUME NEW q, NEW flag, Gives(q, flag) PROVE call'.at = "returned"
      BY <1>1, <3>1 DEF Gives, Calls
    <3>. QED BY <1>1, <3>1, IdleCalls DEF GivesUp
  <2>2. \A error : ~Retry(error)
    <3>1. ASSUME NEW error, call' = [call EXCEPT !.attempt = @ + 1, !.error = error]
          PROVE  call'.op = "loop"
      BY <1>1, <3>1 DEF Calls
    <3>. QED BY <1>1, <2>1, <3>1, IdleCalls DEF Retry
  <2>3. ~PromptFails /\ ~BadAnswer /\ ~EmptyAnswer /\ ~RejectAnswer
    BY <2>1, <2>2 DEF PromptFails, BadAnswer, EmptyAnswer, RejectAnswer
  <2>4. \A q, flag : ~Gives(q, flag)
    <3>1. ASSUME NEW q, NEW flag, Gives(q, flag) PROVE call'.at = "returned"
      BY <1>1, <3>1 DEF Gives, Calls
    <3>. QED BY <1>1, <3>1, IdleCalls
  <2>5. \A q, error : ~Considered(q, error)
    BY <2>2, <2>4 DEF Considered
  <2>6. \A a \in Answers : ~Answer(a)
    BY <1>1, <2>5 DEF Answer, AnswerGenerate, AnswerRefine, AnswerLoop, AnswerSteer, AnswerTurn
  <2>7. \A u \in Tasks : ~(Start(u) \/ Complete(u) \/ Fail(u) \/ CancelTask(u))
    BY <1>1 DEF Start, Complete, Fail, CancelTask
  <2>8. \A op \in Operations, u \in Tasks \cup {NoTask} : ~Ask(op, u)
    BY <1>1 DEF Ask
  <2>9. ~UNCHANGED plannerVars
    BY <1>1 DEF plannerVars
  <2>. QED BY <2>3, <2>6, <2>7, <2>8, <2>9 DEF PlannerNext
<1>3. call.at = "returned" /\ LoopGiven(plan, t, p, call.flag)
  BY <1>1, <1>2 DEF Install, PlannerInv
<1>4. CASE call.flag = "twice"
  <2>1. plan' = plan /\ plan.status[t] \in Terminal
    BY <1>2, <1>3, <1>4 DEF Install, LoopGiven, ListsTwice
  <2>. QED BY <2>1 DEF Live, Terminal
<1>5. CASE call.flag # "twice"
  <2>1. call.flag = "none" /\ p.status[t] \in Terminal
    BY <1>1, <1>3, <1>5 DEF LoopGiven
  <2>2. ValidRevision(p, plan)
    BY <1>1, <1>3, <1>5, FallbackIsValid DEF LoopGiven
  <2>3. Folded(p, plan) = p
    BY <1>1, <2>2, FoldedIs DEF ValidRevision
  <2>4. \/ plan' = plan /\ SameShape(p, plan)
        \/ \E order \in Orders(Corrections(p)) : plan' = Integrated(p, order)
    BY <1>2, <2>1, <2>2, <2>3 DEF Install
  <2>5. plan'.status = p.status
    BY <1>1, <2>4, IntegratedRoutes DEF SameShape
  <2>. QED BY <2>1, <2>5 DEF Live, Terminal
<1>. QED BY <1>4, <1>5

\* The invariant of the planner holds in every reachable state: a behaviour that
\* follows the turns leaves the plan alone.
LEMMA PlannerInvHolds == Spec => []PlannerInv
<1>1. Init => PlannerInv
  BY IdleCalls, PlannerAssumption DEF Init, PlannerInit, PlannerInv, Idle
<1>2. [Next]_vars => [PlannerNext]_plannerVars
  BY DEF Next, vars, plannerVars
<1>. QED BY <1>1, <1>2, PlannerStep, PTL DEF Spec

\* What came after a task that was corrected comes after its corrections.
THEOREM CorrectionsRouteHolds == Spec => []CorrectionsRoute
<1>1. PlannerInv => CorrectionsRoute
  BY DEF PlannerInv, CorrectionsRoute
<1>. QED BY <1>1, PlannerInvHolds, PTL

\* The handling of a loop stops the looping task, whatever the model answered.
THEOREM LoopStopsHolds == Spec => LoopStops
<1>1. PlannerInv /\ [Next]_vars =>
         [LoopHandled /\ ValidRevision(plan, plan) /\
            (\A u \in Dependents(plan, call.task) : plan.status[u] # "PENDING")
          => plan'.status[call.task] \notin Live]_plannerVars
  BY LoopIsStopped DEF Next, vars, plannerVars
<1>. QED BY <1>1, PlannerInvHolds, PTL DEF Spec, LoopStops

-----------------------------------------------------------------------------
(***************************************************************************)
(* The inductive invariant of the turns.                                   *)
(*                                                                         *)
(* A turn that is past the lock is the first in the queue of its key, so   *)
(* there is one for each key; and no two keys ever share a conversation,   *)
(* also when new_conversation takes the conversation away from a turn      *)
(* under way.  What the goals are does not matter yet.                     *)
(***************************************************************************)

TurnPlans == [Callers -> {"ABSENT", "PENDING", "COMPLETED", "CANCELLED"}]
Stages == {"idle", "waiting", "announcing", "starting", "deriving", "planning",
           "generating", "evolving", "pivoting", "binding", "aborting"}
          \cup Executing \cup Ended

\* A turn is past the lock of its key.
Past(turn) == turn.at \notin {"idle", "waiting"} \cup Ended
Holds(t) == Past(turns[t])

\* Shapes of turns, conversations and what is kept for each key.
Shapes ==
    /\ turns = [t \in Callers |-> turns[t]]
    /\ \A t \in Callers :
          turns[t] \in [at : Stages, convo : Nat, goals : {turns[t].goals}, plan : TurnPlans]
    /\ \E S : convos \in Seq(S)
    /\ \A c \in DOMAIN convos :
          convos[c] \in [goals : {convos[c].goals}, lastPlan : TurnPlans,
                         turns : {convos[c].turns}]
    /\ queue \in [Keys -> Seq(Callers)]
    /\ current \in [Keys -> 0 .. Len(convos)]
    /\ announced \in [Keys -> BOOLEAN]
    /\ anchor \in [Keys -> Callers \cup {NoTurn}]
    /\ closing \subseteq Keys

\* The turns at a lock are those of its key that have called and not ended, each
\* once, and only the first is past it.
Queues ==
    /\ \A k \in Keys : \A i \in DOMAIN queue[k] :
          /\ KeyOf[queue[k][i]] = k
          /\ turns[queue[k][i]].at \notin {"idle"} \cup Ended
          /\ \A j \in DOMAIN queue[k] : queue[k][i] = queue[k][j] => i = j
          /\ Past(turns[queue[k][i]]) => i = 1
    /\ \A t \in Callers : turns[t].at \notin {"idle"} \cup Ended =>
          \E i \in DOMAIN queue[KeyOf[t]] : queue[KeyOf[t]][i] = t

\* No two keys share a conversation, nor do their turns.
Apart ==
    /\ \A k, l \in Keys : current[k] = current[l] /\ current[k] # 0 => k = l
    /\ \A t \in Callers : Holds(t) =>
          /\ turns[t].convo \in DOMAIN convos
          /\ \A k \in Keys : current[k] = turns[t].convo => k = KeyOf[t]
          /\ \A u \in Callers : Holds(u) /\ turns[u].convo = turns[t].convo => KeyOf[t] = KeyOf[u]

\* Bound: a conversation is left for each key without one.
Room == Len(convos) + Cardinality({k \in Keys : current[k] = 0}) <= MaxConversations

TurnsInv == Shapes /\ Queues /\ Apart /\ Room

-----------------------------------------------------------------------------
(***************************************************************************)
(* What the steps do to turns, queues and conversations.                   *)
(***************************************************************************)

Resting == {"idle", "waiting"} \cup Ended

\* Only t moves: to a, in conversation c, with plan p.
Becomes(t, a, c, p) ==
    /\ turns' = [u \in Callers |-> turns'[u]]
    /\ \A u \in Callers \ {t} : turns'[u] = turns[u]
    /\ turns'[t] = [at |-> a, convo |-> c, goals |-> turns'[t].goals, plan |-> p]

\* A step of a turn past the lock that does not end it, or a close that touches
\* the plan of a turn wherever it is.
GoesOn(t, a, p) ==
    /\ Becomes(t, a, turns[t].convo, p)
    /\ p \in TurnPlans
    /\ a = turns[t].at \/ (Holds(t) /\ a \in Stages \ Resting)
    /\ UNCHANGED <<queue, convos, current, anchor>>
    /\ announced' \in [Keys -> BOOLEAN]
    /\ closing' \subseteq Keys

\* Turn t ends; what reached the executor leaves its plan with the conversation.
Leaves(t) ==
    /\ turns[t].at \notin Unseeded
    /\ convos' = [convos EXCEPT ![turns[t].convo] = convos'[turns[t].convo]]
    /\ convos'[turns[t].convo] =
         [goals |-> convos'[turns[t].convo].goals,
          lastPlan |-> IF turns[t].plan = NoPlan THEN convos[turns[t].convo].lastPlan
                       ELSE turns[t].plan,
          turns |-> convos'[turns[t].convo].turns]
Ends(t, a) ==
    /\ turns[t].at \notin {"idle"} \cup Ended
    /\ a \in Ended
    /\ Becomes(t, a, turns[t].convo, NoPlan)
    /\ Release(t)
    /\ Leaves(t) \/ (turns[t].at \notin Executing /\ convos' = convos)
    /\ UNCHANGED <<current, announced, anchor, closing>>

\* The plans are plans.
LEMMA PlanShapes ==
    /\ NoPlan \in TurnPlans
    /\ \A p \in TurnPlans, t \in Callers :
          /\ Adding(p, t) \in TurnPlans
          /\ [p EXCEPT ![t] = "COMPLETED"] \in TurnPlans
    /\ \A p \in TurnPlans :
          [u \in Callers |-> IF p[u] = "PENDING" THEN "CANCELLED" ELSE p[u]] \in TurnPlans
BY DEF NoPlan, TurnPlans, Adding

\* An update of some fields of a turn.
LEMMA Updates ==
    ASSUME Shapes, NEW t \in Callers, NEW a, NEW p, NEW g
    PROVE  /\ turns' = [turns EXCEPT ![t].at = a] =>
                  Becomes(t, a, turns[t].convo, turns[t].plan)
           /\ turns' = [turns EXCEPT ![t].plan = p] =>
                  Becomes(t, turns[t].at, turns[t].convo, p)
           /\ turns' = [turns EXCEPT ![t].at = a, ![t].plan = p] =>
                  Becomes(t, a, turns[t].convo, p)
           /\ turns' = [turns EXCEPT ![t].at = a, ![t].goals = g] =>
                  Becomes(t, a, turns[t].convo, turns[t].plan)
           /\ turns' = [turns EXCEPT ![t].at = a, ![t].plan = p, ![t].goals = g] =>
                  Becomes(t, a, turns[t].convo, p)
<1>1. /\ turns = [u \in Callers |-> turns[u]]
      /\ turns[t] = [at |-> turns[t].at, convo |-> turns[t].convo,
                     goals |-> turns[t].goals, plan |-> turns[t].plan]
  BY DEF Shapes
<1>. QED BY <1>1 DEF Becomes

\* A step of a turn under way that does not take it past the seeding of its plan.
Works(t, a, p) ==
    /\ GoesOn(t, a, p)
    /\ a \in Unseeded <=> turns[t].at \in Unseeded
    /\ turns[t].at \in Executing => a \in Executing

\* A turn that waits for something else than the lock goes on with its plan.
LEMMA OnlyWorks ==
    ASSUME TurnsInv, NEW t \in Callers, NEW from \in Stages \ (Resting \cup Unseeded),
           NEW to \in Stages \ (Resting \cup Unseeded), Only(t, from, to),
           from \in Executing => to \in Executing
    PROVE  Works(t, to, turns[t].plan)
<1>1. Shapes BY DEF TurnsInv
<1>2. turns[t].at = from /\ turns' = [turns EXCEPT ![t].at = to]
      /\ UNCHANGED <<queue, convos, current, announced, anchor, closed, closing>>
  BY DEF Only, Moves
<1>3. Becomes(t, to, turns[t].convo, turns[t].plan) BY <1>1, <1>2, Updates
<1>4. announced' \in [Keys -> BOOLEAN] /\ closing' \subseteq Keys /\ turns[t].plan \in TurnPlans
  BY <1>1, <1>2 DEF Shapes
<1>5. Holds(t) BY <1>2 DEF Holds, Past, Resting
<1>. QED BY <1>2, <1>3, <1>4, <1>5 DEF Works, GoesOn

\* Every step of a turn past its opening is one of its work, seeds it or ends it.
LEMMA TurnKinds ==
    ASSUME TurnsInv, NEW t \in Callers, TurnStep(t)
    PROVE  \/ Open(t)
           \/ \E a, p : Works(t, a, p)
           \/ Seed(t) /\ GoesOn(t, "deriving", convos[turns[t].convo].lastPlan)
           \/ Ends(t, "done")
<1>. DEFINE Goal == \/ Open(t)
                    \/ \E a, p : Works(t, a, p)
                    \/ Seed(t) /\ GoesOn(t, "deriving", convos[turns[t].convo].lastPlan)
                    \/ Ends(t, "done")
<1>. HIDE DEF Goal
<1>. USE DEF Executing, Ended, Resting, Unseeded
<1>0. /\ Shapes /\ Apart
      /\ turns[t].at \in Stages /\ turns[t].plan \in TurnPlans
      /\ announced \in [Keys -> BOOLEAN] /\ closing \subseteq Keys
      /\ KeyOf[t] \in Keys
  BY CallerAssumption DEF TurnsInv, Shapes
<1>1. ASSUME NEW from \in Stages \ (Resting \cup Unseeded),
             NEW to \in Stages \ (Resting \cup Unseeded), Only(t, from, to),
             from \in Executing => to \in Executing
      PROVE  Goal
  BY <1>1, OnlyWorks DEF Goal
<1>2. ASSUME Announce(t) PROVE Goal
  <2>1. turns' = [turns EXCEPT ![t].at = "starting"] /\ turns[t].at = "announcing"
    BY <1>2 DEF Announce, Moves
  <2>2. Becomes(t, "starting", turns[t].convo, turns[t].plan) BY <1>0, <2>1, Updates
  <2>3. announced' \in [Keys -> BOOLEAN] BY <1>0, <1>2 DEF Announce
  <2>4. GoesOn(t, "starting", turns[t].plan)
    BY <1>0, <1>2, <2>1, <2>2, <2>3 DEF GoesOn, Announce, Holds, Past, Stages
  <2>. QED BY <2>1, <2>4 DEF Goal, Works
<1>3. ASSUME Seed(t) PROVE Goal
  <2>. DEFINE p == convos[turns[t].convo].lastPlan
  <2>1. turns' = [turns EXCEPT ![t].at = "deriving", ![t].plan = p]
        /\ turns[t].at = "starting"
        /\ UNCHANGED <<queue, convos, current, announced, anchor, closed, closing>>
    BY <1>3 DEF Seed
  <2>2. Holds(t) BY <2>1 DEF Holds, Past
  <2>3. p \in TurnPlans BY <1>0, <2>2 DEF Apart, Shapes
  <2>. HIDE DEF p
  <2>4. Becomes(t, "deriving", turns[t].convo, p) BY <1>0, <2>1, Updates
  <2>5. GoesOn(t, "deriving", p)
    BY <1>0, <2>1, <2>2, <2>3, <2>4 DEF GoesOn, Stages
  <2>. QED BY <1>3, <2>5 DEF Goal, p
<1>4. ASSUME Derive(t) PROVE Goal
  <2>. DEFINE g == WithGoals(turns[t].goals, StatedBy(t))
  <2>1. turns[t].at = "deriving"
        /\ turns' = [turns EXCEPT ![t].at = "planning", ![t].goals = g]
        /\ UNCHANGED <<queue, convos, current, announced, anchor, closed, closing>>
    BY <1>0, <1>4 DEF Derive, Shapes
  <2>. HIDE DEF g
  <2>2. Becomes(t, "planning", turns[t].convo, turns[t].plan) BY <1>0, <2>1, Updates
  <2>3. GoesOn(t, "planning", turns[t].plan)
    BY <1>0, <2>1, <2>2 DEF GoesOn, Holds, Past, Stages
  <2>. QED BY <2>1, <2>3 DEF Goal, Works
<1>5. ASSUME NEW to \in {"binding"}, NEW p \in TurnPlans,
             turns[t].at \in {"evolving", "pivoting"},
             turns' = [turns EXCEPT ![t].at = to, ![t].plan = p],
             UNCHANGED <<queue, convos, current, announced, anchor, closed, closing>>
      PROVE  Goal
  <2>1. Becomes(t, to, turns[t].convo, p) BY <1>0, <1>5, Updates
  <2>2. GoesOn(t, to, p) BY <1>0, <1>5, <2>1 DEF GoesOn, Holds, Past, Stages
  <2>. QED BY <1>5, <2>2 DEF Goal, Works
<1>6. ASSUME InstallPlan(t) PROVE Goal
  <2>. DEFINE p == Adding(IF turns[t].at = "pivoting" THEN NoPlan ELSE turns[t].plan, t)
  <2>1. turns' = [turns EXCEPT ![t].at = "binding", ![t].plan = p]
    BY <1>0, <1>6 DEF InstallPlan, Shapes
  <2>2. p \in TurnPlans BY <1>0, PlanShapes
  <2>. HIDE DEF p
  <2>. QED BY <1>5, <1>6, <2>1, <2>2 DEF InstallPlan
<1>7. ASSUME Execute(t) PROVE Goal
  <2>1. PICK u \in Pending(turns[t].plan) :
           /\ turns[t].at = "executing"
           /\ turns' = [turns EXCEPT ![t].plan[u] = "COMPLETED"]
           /\ UNCHANGED <<queue, convos, current, announced, anchor, closed, closing>>
    BY <1>7 DEF Execute
  <2>. DEFINE p == [turns[t].plan EXCEPT ![u] = "COMPLETED"]
  <2>2. turns' = [turns EXCEPT ![t].plan = p]
    BY <1>0, <2>1 DEF Shapes
  <2>3. p \in TurnPlans BY <1>0, PlanShapes DEF Pending
  <2>. HIDE DEF p
  <2>4. Becomes(t, "executing", turns[t].convo, p) BY <1>0, <2>1, <2>2, Updates
  <2>5. GoesOn(t, "executing", p)
    BY <1>0, <2>1, <2>3, <2>4 DEF GoesOn, Holds, Past, Stages
  <2>. QED BY <2>1, <2>5 DEF Goal, Works
<1>8. ASSUME Finish(t), turns[t].at \notin Unseeded PROVE Goal
  <2>. DEFINE c == turns[t].convo
              o == Stash(convos[c], t)
              g == Absorbed(o.goals, turns[t].goals)
              l == Append(o.turns, t)
              m == [o EXCEPT !.goals = g]
              n == [m EXCEPT !.turns = l]
  <2>1. c \in DOMAIN convos BY <1>0, <1>8 DEF Apart, Holds, Past
  <2>2. convos' = [convos EXCEPT ![c] = n]
    BY <1>8 DEF Finish
  <2>3. convos[c] = [goals |-> convos[c].goals, lastPlan |-> convos[c].lastPlan,
                     turns |-> convos[c].turns]
    BY <1>0, <2>1 DEF Shapes
  <2>. DEFINE last == IF turns[t].plan = NoPlan THEN convos[c].lastPlan ELSE turns[t].plan
  <2>4. o = [goals |-> convos[c].goals, lastPlan |-> last, turns |-> convos[c].turns]
    <3>1. CASE turns[t].plan = NoPlan BY <2>3, <3>1 DEF Stash
    <3>2. CASE turns[t].plan # NoPlan BY <2>3, <3>2 DEF Stash
    <3>. QED BY <3>1, <3>2
  <2>5. n = [goals |-> g, lastPlan |-> last, turns |-> l]
    <3>. HIDE DEF o, g, l, last
    <3>1. m = [goals |-> g, lastPlan |-> last, turns |-> convos[c].turns] BY <2>4
    <3>. HIDE DEF m
    <3>. QED BY <3>1
  <2>. HIDE DEF n, m, g, l, o
  <2>6. convos'[c] = n BY <2>1, <2>2
  <2>10. Leaves(t)
    <3>1. n.goals = g /\ n.turns = l BY <2>5
    <3>. HIDE DEF last
    <3>2. n = [goals |-> n.goals, lastPlan |-> last, turns |-> n.turns] BY <2>5, <3>1
    <3>. QED BY <1>8, <2>2, <2>6, <3>2 DEF Leaves, last
  <2>7. turns' = [turns EXCEPT ![t].at = "done", ![t].plan = NoPlan] BY <1>8 DEF Finish
  <2>8. Becomes(t, "done", turns[t].convo, NoPlan) BY <1>0, <2>7, Updates
  <2>9. Ends(t, "done") BY <1>8, <2>10, <2>8 DEF Ends, Finish
  <2>. QED BY <2>9 DEF Goal
<1>9. ASSUME Return(t) \/ Aborted(t) PROVE Goal
  BY <1>8, <1>9 DEF Return, Aborted
<1>10. ASSUME DeriveFails(t) \/ InstallFails(t) \/ Bind(t) \/ BindFails(t) \/ ExecutorRaises(t)
       PROVE  Goal
  BY <1>1, <1>10 DEF DeriveFails, InstallFails, Bind, BindFails, ExecutorRaises, Stages
<1>11. ASSUME NEW answer \in {"evolving", "pivoting", "none", "raises"}, Decide(t, answer)
       PROVE  Goal
  <2>1. PICK to \in {"generating", "binding", "evolving", "pivoting"} : Only(t, "planning", to)
    BY <1>11 DEF Decide
  <2>. QED BY <1>1, <2>1 DEF Stages
<1>12. ASSUME NEW answer \in {"plan", "none", "raises"}, Generate(t, answer) PROVE Goal
  <2>1. PICK to \in {"aborting", "binding", "evolving"} : Only(t, "generating", to)
    BY <1>12 DEF Generate
  <2>. QED BY <1>1, <2>1 DEF Stages
<1>13. Goal
  BY <1>2, <1>3, <1>4, <1>6, <1>7, <1>9, <1>10, <1>11, <1>12 DEF TurnStep, Goal
<1>. QED BY <1>13 DEF Goal

\* A cancellation ends the turn.
LEMMA CancelEnds ==
    ASSUME TurnsInv, NEW t \in Callers, Cancel(t)
    PROVE  Ends(t, "cancelled")
<1>1. Shapes /\ Apart BY DEF TurnsInv
<1>2. turns' = [turns EXCEPT ![t].at = "cancelled", ![t].plan = NoPlan, ![t].goals = <<>>]
  BY DEF Cancel
<1>3. Becomes(t, "cancelled", turns[t].convo, NoPlan) BY <1>1, <1>2, Updates
<1>4. CASE turns[t].at \notin Executing
  BY <1>3, <1>4 DEF Cancel, Ends, Ended
<1>5. CASE turns[t].at \in Executing
  <2>. DEFINE c == turns[t].convo
              n == Stash(convos[c], t)
              last == IF turns[t].plan = NoPlan THEN convos[c].lastPlan ELSE turns[t].plan
  <2>1. Holds(t) BY <1>5 DEF Holds, Past, Executing, Ended
  <2>2. c \in DOMAIN convos BY <1>1, <2>1 DEF Apart
  <2>3. convos' = [convos EXCEPT ![c] = n] BY <1>5 DEF Cancel
  <2>4. convos[c] = [goals |-> convos[c].goals, lastPlan |-> convos[c].lastPlan,
                     turns |-> convos[c].turns]
    BY <1>1, <2>2 DEF Shapes
  <2>5. n = [goals |-> convos[c].goals, lastPlan |-> last, turns |-> convos[c].turns]
    <3>1. CASE turns[t].plan = NoPlan BY <2>4, <3>1 DEF Stash
    <3>2. CASE turns[t].plan # NoPlan BY <2>4, <3>2 DEF Stash
    <3>. QED BY <3>1, <3>2
  <2>. HIDE DEF n, last
  <2>6. convos'[c] = n BY <2>2, <2>3
  <2>7. n = [goals |-> n.goals, lastPlan |-> last, turns |-> n.turns] BY <2>5
  <2>8. Leaves(t) BY <1>5, <2>3, <2>6, <2>7 DEF Leaves, last, Executing, Unseeded, Ended
  <2>. QED BY <1>3, <2>8 DEF Cancel, Ends, Ended
<1>. QED BY <1>4, <1>5

\* close cancels what is pending in the plan of a turn, wherever the turn is.
LEMMA CloseKeyWorks ==
    ASSUME TurnsInv, NEW k \in Keys, CloseKey(k)
    PROVE  \/ /\ UNCHANGED <<turns, queue, convos, current, announced, anchor>>
              /\ closing' \subseteq Keys
           \/ \E t \in Callers : \E a, p : Works(t, a, p)
<1>1. Shapes BY DEF TurnsInv
<1>2. closing' \subseteq Keys /\ UNCHANGED <<queue, convos, current, anchor>>
  BY <1>1 DEF CloseKey, Shapes
<1>3. CASE ~(announced[k] /\ anchor[k] # NoTurn)
  BY <1>2, <1>3 DEF CloseKey
<1>4. CASE announced[k] /\ anchor[k] # NoTurn
  <2>. DEFINE t == anchor[k]
              p == [u \in Callers |-> IF turns[t].plan[u] = "PENDING" THEN "CANCELLED"
                                      ELSE turns[t].plan[u]]
  <2>1. t \in Callers BY <1>1, <1>4 DEF Shapes
  <2>2. turns[t].plan \in TurnPlans BY <1>1, <2>1 DEF Shapes
  <2>3. p \in TurnPlans BY <2>2, PlanShapes
  <2>4. turns' = [turns EXCEPT ![t].plan = p] BY <1>4 DEF CloseKey
  <2>5. announced' \in [Keys -> BOOLEAN] BY <1>1, <1>4 DEF CloseKey, Shapes
  <2>. HIDE DEF p, t
  <2>6. Becomes(t, turns[t].at, turns[t].convo, p) BY <1>1, <2>1, <2>4, Updates
  <2>7. Works(t, turns[t].at, p) BY <1>2, <2>3, <2>5, <2>6 DEF Works, GoesOn
  <2>. QED BY <2>1, <2>7
<1>. QED BY <1>3, <1>4

\* The kinds of steps there are.
LEMMA StepKinds ==
    ASSUME TurnsInv, [Next]_vars
    PROVE  \/ /\ UNCHANGED <<turns, queue, convos, current, announced, anchor>>
              /\ closing' \subseteq Keys
           \/ StartOver
           \/ \E t \in Callers :
                \/ Call(t) \/ Open(t)
                \/ \E a, p : Works(t, a, p)
                \/ Seed(t) /\ GoesOn(t, "deriving", convos[turns[t].convo].lastPlan)
                \/ \E a \in Ended : Ends(t, a)
<1>. DEFINE Goal == \/ /\ UNCHANGED <<turns, queue, convos, current, announced, anchor>>
                       /\ closing' \subseteq Keys
                    \/ StartOver
                    \/ \E t \in Callers :
                         \/ Call(t) \/ Open(t)
                         \/ \E a, p : Works(t, a, p)
                         \/ Seed(t) /\ GoesOn(t, "deriving", convos[turns[t].convo].lastPlan)
                         \/ \E a \in Ended : Ends(t, a)
<1>. HIDE DEF Goal
<1>0. Shapes /\ closing \subseteq Keys BY DEF TurnsInv, Shapes
<1>1. ASSUME UNCHANGED vars PROVE Goal BY <1>0, <1>1 DEF vars, Goal
<1>2. ASSUME UNCHANGED turnVars PROVE Goal BY <1>0, <1>2 DEF turnVars, Goal
<1>3. ASSUME NEW t \in Callers, Call(t) \/ Cancel(t) \/ TurnStep(t) PROVE Goal
  BY <1>3, CancelEnds, TurnKinds DEF Goal, Ended
<1>4. ASSUME NEW k \in Keys, CloseKey(k) PROVE Goal
  BY <1>4, CloseKeyWorks DEF Goal
<1>5. ASSUME StartOver PROVE Goal BY <1>5 DEF Goal
<1>6. ASSUME Close PROVE Goal BY <1>6 DEF Close, Goal
<1>7. Goal BY <1>1, <1>2, <1>3, <1>4, <1>5, <1>6 DEF Next, TurnsNext
<1>. QED BY <1>7 DEF Goal

-----------------------------------------------------------------------------
(***************************************************************************)
(* Each kind of step preserves the invariant.                              *)
(***************************************************************************)

\* A turn that goes on stays on its side of the lock and in its conversation.
LEMMA GoesOnPreserves ==
    ASSUME TurnsInv, NEW t \in Callers, NEW a, NEW p, GoesOn(t, a, p)
    PROVE  TurnsInv'
<1>. Shapes /\ Queues /\ Apart /\ Room BY DEF TurnsInv
<1>. UNCHANGED <<queue, convos, current, anchor>> BY DEF GoesOn
<1>1. \A u \in Callers :
         turns'[u] \in [at : Stages, convo : Nat, goals : {turns'[u].goals}, plan : TurnPlans]
  <2>1. turns[t].convo \in Nat /\ turns[t].at \in Stages BY DEF Shapes
  <2>2. a \in Stages /\ p \in TurnPlans BY <2>1 DEF GoesOn
  <2>3. turns'[t] = [at |-> a, convo |-> turns[t].convo, goals |-> turns'[t].goals, plan |-> p]
    BY DEF GoesOn, Becomes
  <2>4. turns'[t] \in [at : Stages, convo : Nat, goals : {turns'[t].goals}, plan : TurnPlans]
    BY <2>1, <2>2, <2>3
  <2>5. \A u \in Callers \ {t} : turns'[u] = turns[u] BY DEF GoesOn, Becomes
  <2>. QED BY <2>4, <2>5 DEF Shapes
<1>2. Shapes'
  BY <1>1 DEF Shapes, GoesOn, Becomes
<1>3. \A u \in Callers : /\ Past(turns'[u]) <=> Past(turns[u])
                         /\ turns'[u].convo = turns[u].convo
                         /\ turns'[u].at \in {"idle"} \cup Ended
                            <=> turns[u].at \in {"idle"} \cup Ended
  BY DEF GoesOn, Becomes, Past, Holds, Ended, Resting
<1>4. Queues'
  <2>1. \A k \in Keys : \A i \in DOMAIN queue[k] : queue[k][i] \in Callers
    BY DEF Shapes
  <2>. QED BY <1>3, <2>1 DEF Queues
<1>5. Apart' BY <1>3 DEF Apart, Holds
<1>6. Room' BY DEF Room
<1>. QED BY <1>2, <1>4, <1>5, <1>6 DEF TurnsInv

\* A turn that is in the queue once is in it no more.
LEMMA WithoutOne ==
    ASSUME NEW s \in Seq(Callers), NEW i \in DOMAIN s, NEW t, s[i] = t,
           \A j \in DOMAIN s : s[j] = t => j = i
    PROVE  /\ Without(s, t) \in Seq(Callers)
           /\ DOMAIN Without(s, t) = 1 .. Len(s) - 1
           /\ \A j \in 1 .. Len(s) - 1 :
                 Without(s, t)[j] = IF j < i THEN s[j] ELSE s[j + 1]
<1>. DEFINE w == [j \in 1 .. Len(s) - 1 |-> IF j < i THEN s[j] ELSE s[j + 1]]
<1>1. i = CHOOSE j \in DOMAIN s : s[j] = t OBVIOUS
<1>2. Without(s, t) = w BY <1>1 DEF Without
<1>3. Len(s) \in Nat /\ DOMAIN s = 1 .. Len(s) /\ Len(s) - 1 \in Nat OBVIOUS
<1>4. \A j \in 1 .. Len(s) - 1 : w[j] \in Callers BY <1>3
<1>5. w \in [1 .. Len(s) - 1 -> Callers] BY <1>4
<1>6. w \in Seq(Callers) BY <1>3, <1>5
<1>. QED BY <1>2, <1>6

\* A call comes last in its queue and is not past the lock.
LEMMA CallPreserves ==
    ASSUME TurnsInv, NEW t \in Callers, Call(t)
    PROVE  TurnsInv'
<1>. Shapes /\ Queues /\ Apart /\ Room BY DEF TurnsInv
<1>. DEFINE k == KeyOf[t]
<1>0. k \in Keys /\ UNCHANGED <<convos, current, announced, anchor, closing>>
      /\ turns[t].at = "idle"
  BY CallerAssumption DEF Call
<1>1. Becomes(t, "waiting", turns[t].convo, turns[t].plan)
  BY Updates DEF Call, Moves
<1>2. \A u \in Callers \ {t} : turns'[u] = turns[u] BY <1>1 DEF Becomes
<1>3. turns'[t].at = "waiting" /\ turns'[t].convo = turns[t].convo BY <1>1 DEF Becomes
<1>4. queue'[k] = Append(queue[k], t) /\ \A l \in Keys \ {k} : queue'[l] = queue[l]
  BY <1>0 DEF Call, Shapes
<1>5. Shapes'
  <2>1. turns'[t] \in [at : Stages, convo : Nat, goals : {turns'[t].goals}, plan : TurnPlans]
    BY <1>1 DEF Shapes, Becomes, Stages
  <2>2. \A u \in Callers :
           turns'[u] \in [at : Stages, convo : Nat, goals : {turns'[u].goals}, plan : TurnPlans]
    BY <1>2, <2>1 DEF Shapes
  <2>3. queue' \in [Keys -> Seq(Callers)]
    <3>1. queue[k] \in Seq(Callers) BY <1>0 DEF Shapes
    <3>2. Append(queue[k], t) \in Seq(Callers) BY <3>1
    <3>. QED BY <3>2 DEF Call, Shapes
  <2>. QED BY <1>0, <1>1, <2>2, <2>3 DEF Shapes, Becomes
<1>6. \A u \in Callers : Past(turns'[u]) <=> Past(turns[u])
  BY <1>0, <1>2, <1>3 DEF Past, Ended
<1>7. Queues'
  <2>. DEFINE q == queue[k]  r == queue'[k]  n == Len(q)
  <2>1. /\ n \in Nat /\ DOMAIN q = 1 .. n /\ DOMAIN r = 1 .. n + 1
        /\ \A i \in 1 .. n : r[i] = q[i] /\ q[i] \in Callers
        /\ r[n + 1] = t
    <3>1. queue[k] \in Seq(Callers) BY <1>0 DEF Shapes
    <3>. HIDE DEF k
    <3>. QED BY <1>4, <3>1
  <2>2. \A l \in Keys : \A i \in DOMAIN queue[l] : queue[l][i] \in Callers
    BY DEF Shapes
  <2>3. ~Past(turns[t]) /\ \A l \in Keys : \A i \in DOMAIN queue[l] : queue[l][i] # t
    BY <1>0 DEF Queues, Past
  <2>4. \A i \in 1 .. n :
           /\ KeyOf[q[i]] = k /\ q[i] # t
           /\ turns[q[i]].at \notin {"idle"} \cup Ended
           /\ \A j \in 1 .. n : q[i] = q[j] => i = j
           /\ Past(turns[q[i]]) => i = 1
    BY <1>0, <2>1, <2>3 DEF Queues
  <2>5. ASSUME NEW l \in Keys \ {k}, NEW i \in DOMAIN queue'[l]
        PROVE  /\ KeyOf[queue'[l][i]] = l
               /\ turns'[queue'[l][i]].at \notin {"idle"} \cup Ended
               /\ \A j \in DOMAIN queue'[l] : queue'[l][i] = queue'[l][j] => i = j
               /\ Past(turns'[queue'[l][i]]) => i = 1
    <3>1. queue'[l] = queue[l] BY <1>4
    <3>2. queue[l][i] \in Callers \ {t} BY <2>2, <2>3, <3>1
    <3>. QED BY <1>2, <1>6, <3>1, <3>2 DEF Queues
  <2>6. ASSUME NEW i \in DOMAIN r
        PROVE  /\ KeyOf[r[i]] = k
               /\ turns'[r[i]].at \notin {"idle"} \cup Ended
               /\ \A j \in DOMAIN r : r[i] = r[j] => i = j
               /\ Past(turns'[r[i]]) => i = 1
    <3>. HIDE DEF q, r, n
    <3>1. CASE i = n + 1
      <4>1. r[i] = t BY <2>1, <3>1
      <4>2. \A j \in DOMAIN r : j # i => r[j] # t
        BY <2>1, <2>4, <3>1
      <4>3. ~Past(turns'[r[i]]) BY <1>6, <2>3, <4>1
      <4>. QED BY <1>3, <4>1, <4>2, <4>3 DEF Ended
    <3>2. CASE i # n + 1
      <4>1. i \in 1 .. n /\ r[i] = q[i] /\ q[i] \in Callers \ {t} BY <2>1, <2>4, <3>2
      <4>2. \A j \in DOMAIN r : r[i] = r[j] => i = j
        <5>0. \A j \in 1 .. n : q[i] = q[j] => i = j BY <2>4, <4>1
        <5>1. \A j \in 1 .. n : r[i] = r[j] => i = j BY <2>1, <4>1, <5>0
        <5>2. r[i] # r[n + 1] BY <2>1, <4>1
        <5>3. \A j \in 1 .. n + 1 : j \in 1 .. n \/ j = n + 1 BY <2>1
        <5>. QED BY <2>1, <5>1, <5>2, <5>3
      <4>3. turns'[r[i]].at \notin {"idle"} \cup Ended BY <1>2, <2>4, <4>1
      <4>4. Past(turns'[r[i]]) <=> Past(turns[q[i]]) BY <1>6, <4>1
      <4>. QED BY <2>4, <4>1, <4>2, <4>3, <4>4
    <3>. QED BY <3>1, <3>2
  <2>7. ASSUME NEW u \in Callers, turns'[u].at \notin {"idle"} \cup Ended
        PROVE  \E i \in DOMAIN queue'[KeyOf[u]] : queue'[KeyOf[u]][i] = u
    <3>1. KeyOf[u] \in Keys BY CallerAssumption
    <3>2. CASE u = t
      <4>1. n + 1 \in DOMAIN r BY <2>1
      <4>. QED BY <2>1, <3>2, <4>1
    <3>3. CASE u # t
      <4>1. PICK i \in DOMAIN queue[KeyOf[u]] : queue[KeyOf[u]][i] = u
        BY <1>2, <2>7, <3>3 DEF Queues
      <4>2. CASE KeyOf[u] = k
        <5>1. i \in 1 .. n /\ i \in DOMAIN r /\ r[i] = u BY <2>1, <4>1, <4>2
        <5>. QED BY <4>2, <5>1
      <4>3. CASE KeyOf[u] # k BY <1>4, <3>1, <4>1, <4>3
      <4>. QED BY <4>2, <4>3
    <3>. QED BY <3>2, <3>3
  <2>8. ASSUME NEW l \in Keys, NEW i \in DOMAIN queue'[l]
        PROVE  /\ KeyOf[queue'[l][i]] = l
               /\ turns'[queue'[l][i]].at \notin {"idle"} \cup Ended
               /\ \A j \in DOMAIN queue'[l] : queue'[l][i] = queue'[l][j] => i = j
               /\ Past(turns'[queue'[l][i]]) => i = 1
    <3>1. CASE l = k BY <2>6, <2>8, <3>1
    <3>2. CASE l # k BY <2>5, <2>8, <3>2
    <3>. QED BY <3>1, <3>2
  <2>. QED BY <2>7, <2>8 DEF Queues
<1>8. Apart' BY <1>0, <1>2, <1>3, <1>6 DEF Apart, Holds
<1>9. Room' BY <1>0 DEF Room
<1>. QED BY <1>5, <1>7, <1>8, <1>9 DEF TurnsInv

\* The end of a turn takes it out of the queue and leaves the others in order.
LEMMA EndsPreserves ==
    ASSUME TurnsInv, NEW t \in Callers, NEW a, Ends(t, a)
    PROVE  TurnsInv'
<1>. Shapes /\ Queues /\ Apart /\ Room BY DEF TurnsInv
<1>. DEFINE k == KeyOf[t]  q == queue[k]  r == queue'[k]  n == Len(q)
<1>0. /\ k \in Keys /\ a \in Ended
      /\ UNCHANGED <<current, announced, anchor, closing>>
      /\ turns[t].at \notin {"idle"} \cup Ended
  BY CallerAssumption DEF Ends
<1>1. Becomes(t, a, turns[t].convo, NoPlan) BY DEF Ends
<1>2. \A u \in Callers \ {t} : turns'[u] = turns[u] BY <1>1 DEF Becomes
<1>3. turns'[t].at = a /\ turns'[t].convo = turns[t].convo BY <1>1 DEF Becomes
<1>4. queue'[k] = Without(queue[k], t) /\ \A l \in Keys \ {k} : queue'[l] = queue[l]
  BY <1>0 DEF Ends, Release, Shapes
<1>5. ~Past(turns'[t]) BY <1>0, <1>3 DEF Past
<1>6. q \in Seq(Callers) /\ n \in Nat /\ DOMAIN q = 1 .. n /\ \A i \in 1 .. n : q[i] \in Callers
  <2>1. q \in Seq(Callers) BY <1>0 DEF Shapes
  <2>. HIDE DEF q
  <2>. QED BY <2>1
<1>7. PICK m \in 1 .. n : q[m] = t
  BY <1>0, <1>6 DEF Queues
<1>8. \A i \in 1 .. n : /\ KeyOf[q[i]] = k
                        /\ turns[q[i]].at \notin {"idle"} \cup Ended
                        /\ \A j \in 1 .. n : q[i] = q[j] => i = j
                        /\ Past(turns[q[i]]) => i = 1
  BY <1>0, <1>6 DEF Queues
<1>9. /\ r \in Seq(Callers) /\ DOMAIN r = 1 .. n - 1
      /\ \A i \in 1 .. n - 1 : r[i] = IF i < m THEN q[i] ELSE q[i + 1]
  <2>1. \A j \in DOMAIN q : q[j] = t => j = m BY <1>6, <1>7, <1>8
  <2>2. r = Without(q, t) /\ m \in DOMAIN q /\ n = Len(q) BY <1>4, <1>6
  <2>3. q \in Seq(Callers) /\ q[m] = t BY <1>6, <1>7
  <2>. HIDE DEF q, r, n
  <2>. QED BY <2>1, <2>2, <2>3, WithoutOne
<1>10. Shapes'
  <2>1. turns'[t] \in [at : Stages, convo : Nat, goals : {turns'[t].goals}, plan : TurnPlans]
    BY <1>0, <1>1, PlanShapes DEF Shapes, Becomes, Stages
  <2>2. \A u \in Callers :
           turns'[u] \in [at : Stages, convo : Nat, goals : {turns'[u].goals}, plan : TurnPlans]
    BY <1>2, <2>1 DEF Shapes
  <2>3. queue' \in [Keys -> Seq(Callers)]
    <3>1. queue' = [queue EXCEPT ![k] = r] BY <1>4 DEF Ends, Release
    <3>. HIDE DEF r
    <3>. QED BY <1>9, <3>1 DEF Shapes
  <2>4. /\ \E S : convos' \in Seq(S)
        /\ Len(convos') = Len(convos) /\ DOMAIN convos' = DOMAIN convos
        /\ \A c \in DOMAIN convos :
              convos'[c] \in [goals : {convos'[c].goals}, lastPlan : TurnPlans,
                              turns : {convos'[c].turns}]
    <3>1. CASE convos' = convos BY <3>1 DEF Shapes
    <3>2. CASE Leaves(t)
      <4>. DEFINE c == turns[t].convo  x == convos'[c]
      <4>1. c \in DOMAIN convos BY <3>2 DEF Leaves, Apart, Holds, Past, Unseeded
      <4>2. PICK S : convos \in Seq(S) BY DEF Shapes
      <4>3. convos' = [convos EXCEPT ![c] = x] BY <3>2 DEF Leaves
      <4>4. x = [goals |-> x.goals,
                 lastPlan |-> IF turns[t].plan = NoPlan THEN convos[c].lastPlan
                              ELSE turns[t].plan,
                 turns |-> x.turns]
        BY <3>2 DEF Leaves
      <4>5. convos[c].lastPlan \in TurnPlans /\ turns[t].plan \in TurnPlans
        BY <4>1 DEF Shapes
      <4>6. (IF turns[t].plan = NoPlan THEN convos[c].lastPlan ELSE turns[t].plan) \in TurnPlans
        BY <4>5
      <4>7. x \in [goals : {x.goals}, lastPlan : TurnPlans, turns : {x.turns}]
        BY <4>4, <4>6
      <4>. HIDE DEF x, c
      <4>8. convos' \in Seq(S \cup {x}) /\ Len(convos') = Len(convos)
            /\ DOMAIN convos' = DOMAIN convos
        BY <4>1, <4>2, <4>3
      <4>9. \A d \in DOMAIN convos : convos'[d] = IF d = c THEN x ELSE convos[d]
        BY <4>1, <4>3
      <4>10. ASSUME NEW d \in DOMAIN convos
             PROVE  convos'[d] \in [goals : {convos'[d].goals}, lastPlan : TurnPlans,
                                    turns : {convos'[d].turns}]
        <5>1. CASE d = c BY <4>7, <4>9, <5>1
        <5>2. CASE d # c
          <6>1. convos'[d] = convos[d] BY <4>9, <5>2
          <6>. QED BY <6>1 DEF Shapes
        <5>. QED BY <5>1, <5>2
      <4>. QED BY <4>8, <4>10
    <3>. QED BY <3>1, <3>2 DEF Ends
  <2>. QED BY <1>0, <1>1, <2>2, <2>3, <2>4 DEF Shapes, Becomes
<1>11. Len(convos') = Len(convos) /\ DOMAIN convos' = DOMAIN convos
  <2>1. PICK S : convos \in Seq(S) BY DEF Shapes
  <2>2. CASE convos' = convos BY <2>2
  <2>3. CASE Leaves(t)
    <3>. DEFINE x == convos'[turns[t].convo]
    <3>1. convos' = [convos EXCEPT ![turns[t].convo] = x] /\ turns[t].convo \in DOMAIN convos
      BY <2>3 DEF Leaves, Apart, Holds, Past, Unseeded
    <3>. HIDE DEF x
    <3>. QED BY <2>1, <3>1
  <2>. QED BY <2>2, <2>3 DEF Ends
<1>12. Queues'
  <2>1. \A l \in Keys : \A i \in DOMAIN queue[l] : queue[l][i] \in Callers
    BY DEF Shapes
  <2>2. ASSUME NEW i \in DOMAIN r
        PROVE  /\ KeyOf[r[i]] = k
               /\ turns'[r[i]].at \notin {"idle"} \cup Ended
               /\ \A j \in DOMAIN r : r[i] = r[j] => i = j
               /\ Past(turns'[r[i]]) => i = 1
    <3>. HIDE DEF q, r, n, k
    <3>1. i \in 1 .. n - 1 /\ i \in 1 .. n /\ i + 1 \in 1 .. n BY <1>6, <1>9
    <3>2. r[i] \in Callers \ {t} BY <1>6, <1>7, <1>8, <1>9, <3>1
    <3>3. turns'[r[i]] = turns[r[i]] BY <1>2, <3>2
    <3>4. \A j \in DOMAIN r : r[i] = r[j] => i = j
      <4>. SUFFICES ASSUME NEW j \in 1 .. n - 1, r[i] = r[j] PROVE i = j
        BY <1>9
      <4>1. j \in 1 .. n /\ j + 1 \in 1 .. n BY <1>6
      <4>. QED BY <1>6, <1>7, <1>8, <1>9, <3>1, <4>1
    <3>5. CASE i < m BY <1>8, <1>9, <3>1, <3>3, <3>4, <3>5
    <3>6. CASE ~(i < m)
      <4>1. r[i] = q[i + 1] /\ i + 1 # 1 BY <1>9, <3>1, <3>6
      <4>. QED BY <1>8, <3>1, <3>3, <3>4, <4>1
    <3>. QED BY <3>5, <3>6
  <2>3. ASSUME NEW l \in Keys \ {k}, NEW i \in DOMAIN queue'[l]
        PROVE  /\ KeyOf[queue'[l][i]] = l
               /\ turns'[queue'[l][i]].at \notin {"idle"} \cup Ended
               /\ \A j \in DOMAIN queue'[l] : queue'[l][i] = queue'[l][j] => i = j
               /\ Past(turns'[queue'[l][i]]) => i = 1
    <3>1. queue'[l] = queue[l] BY <1>4
    <3>2. KeyOf[queue[l][i]] = l BY <3>1 DEF Queues
    <3>3. queue[l][i] \in Callers \ {t} BY <2>1, <3>1, <3>2
    <3>. QED BY <1>2, <3>1, <3>3 DEF Queues
  <2>4. ASSUME NEW l \in Keys, NEW i \in DOMAIN queue'[l]
        PROVE  /\ KeyOf[queue'[l][i]] = l
               /\ turns'[queue'[l][i]].at \notin {"idle"} \cup Ended
               /\ \A j \in DOMAIN queue'[l] : queue'[l][i] = queue'[l][j] => i = j
               /\ Past(turns'[queue'[l][i]]) => i = 1
    <3>1. CASE l = k BY <2>2, <2>4, <3>1
    <3>2. CASE l # k BY <2>3, <2>4, <3>2
    <3>. QED BY <3>1, <3>2
  <2>5. ASSUME NEW u \in Callers, turns'[u].at \notin {"idle"} \cup Ended
        PROVE  \E i \in DOMAIN queue'[KeyOf[u]] : queue'[KeyOf[u]][i] = u
    <3>1. KeyOf[u] \in Keys BY CallerAssumption
    <3>2. u # t BY <1>0, <1>3, <2>5
    <3>3. PICK i \in DOMAIN queue[KeyOf[u]] : queue[KeyOf[u]][i] = u
      BY <1>2, <2>5, <3>2 DEF Queues
    <3>4. CASE KeyOf[u] = k
      <4>1. i \in 1 .. n /\ q[i] = u /\ i # m BY <1>6, <1>7, <3>2, <3>3, <3>4
      <4>. HIDE DEF q, n, r
      <4>2. CASE i < m
        <5>1. i \in 1 .. n - 1 BY <1>6, <1>7, <4>1, <4>2
        <5>2. i \in DOMAIN r /\ r[i] = u BY <1>9, <4>1, <4>2, <5>1
        <5>. QED BY <3>4, <5>2 DEF r
      <4>3. CASE i > m
        <5>1. i - 1 \in 1 .. n - 1 /\ ~(i - 1 < m) /\ (i - 1) + 1 = i BY <1>6, <1>7, <4>1, <4>3
        <5>2. i - 1 \in DOMAIN r /\ r[i - 1] = u BY <1>9, <4>1, <5>1
        <5>. QED BY <3>4, <5>2 DEF r
      <4>. QED BY <1>6, <1>7, <4>1, <4>2, <4>3
    <3>5. CASE KeyOf[u] # k BY <1>4, <3>1, <3>3, <3>5
    <3>. QED BY <3>4, <3>5
  <2>. QED BY <2>4, <2>5 DEF Queues
<1>13. Apart' BY <1>0, <1>2, <1>5, <1>11 DEF Apart, Holds
<1>14. Room' BY <1>0, <1>11 DEF Room
<1>. QED BY <1>10, <1>12, <1>13, <1>14 DEF TurnsInv

\* Room is kept: the key that gets a conversation had none.
LEMMA RoomForOne ==
    ASSUME TurnsInv, NEW k \in Keys, current[k] = 0
    PROVE  LET free == {l \in Keys : current[l] = 0} IN
           /\ Cardinality(free) \in Nat
           /\ Cardinality(free \ {k}) = Cardinality(free) - 1
<1>. DEFINE free == {l \in Keys : current[l] = 0}
<1>1. IsFiniteSet(free) BY FS_Subset, ConversationAssumption
<1>2. k \in free OBVIOUS
<1>. HIDE DEF free
<1>3. Cardinality(free) \in Nat BY <1>1, FS_CardinalityType
<1>4. Cardinality(free \ {k}) = Cardinality(free) - 1 BY <1>1, <1>2, FS_RemoveElement
<1>. QED BY <1>3, <1>4 DEF free

\* A new conversation is the last.
LEMMA OneMore ==
    ASSUME Shapes
    PROVE  LET more == Append(convos, NewConversation) IN
           /\ \E S : more \in Seq(S)
           /\ Len(convos) \in Nat /\ DOMAIN convos = 1 .. Len(convos)
           /\ Len(more) = Len(convos) + 1 /\ DOMAIN more = 1 .. Len(convos) + 1
           /\ \A c \in DOMAIN convos : more[c] = convos[c]
           /\ more[Len(convos) + 1] = NewConversation
           /\ \A c \in DOMAIN more : more[c] \in [goals : {more[c].goals},
                  lastPlan : TurnPlans, turns : {more[c].turns}]
<1>. DEFINE more == Append(convos, NewConversation)
<1>1. PICK S : convos \in Seq(S) BY DEF Shapes
<1>2. convos \in Seq(S \cup {NewConversation}) BY <1>1
<1>3. more \in Seq(S \cup {NewConversation}) BY <1>2
<1>4. /\ Len(convos) \in Nat /\ DOMAIN convos = 1 .. Len(convos)
      /\ Len(more) = Len(convos) + 1 /\ DOMAIN more = 1 .. Len(convos) + 1
      /\ \A c \in DOMAIN convos : more[c] = convos[c]
      /\ more[Len(convos) + 1] = NewConversation
  BY <1>2
<1>5. ASSUME NEW c \in DOMAIN more
      PROVE  more[c] \in [goals : {more[c].goals}, lastPlan : TurnPlans, turns : {more[c].turns}]
  <2>1. CASE c \in DOMAIN convos
    <3>1. more[c] = convos[c] BY <1>4, <2>1
    <3>. QED BY <2>1, <3>1 DEF Shapes
  <2>2. CASE c = Len(convos) + 1
    <3>1. more[c] = NewConversation BY <1>4, <2>2
    <3>. QED BY <3>1, PlanShapes DEF NewConversation
  <2>. QED BY <1>4, <1>5, <2>1, <2>2
<1>. HIDE DEF more
<1>. QED BY <1>3, <1>4, <1>5 DEF more

\* A turn opens as the first of its queue, in a conversation of its key alone.
LEMMA OpenPreserves ==
    ASSUME TurnsInv, NEW t \in Callers, Open(t)
    PROVE  TurnsInv'
<1>. Shapes /\ Queues /\ Apart /\ Room BY DEF TurnsInv
<1>. DEFINE k == KeyOf[t]
            new == current[k] = 0
            c == IF new THEN Len(convos) + 1 ELSE current[k]
            a == IF announced'[k] THEN "starting" ELSE "announcing"
<1>0. /\ k \in Keys
      /\ turns[t].at = "waiting" /\ Head(queue[k]) = t
      /\ convos' = IF new THEN Append(convos, NewConversation) ELSE convos
      /\ current' = [current EXCEPT ![k] = c]
      /\ announced' = [announced EXCEPT ![k] = ~new /\ announced[k]]
      /\ anchor' = [anchor EXCEPT ![k] = t]
      /\ UNCHANGED <<queue, closed, closing>>
  BY CallerAssumption DEF Open
<1>1. Becomes(t, a, c, turns[t].plan)
  <2>. DEFINE g == convos'[c].goals
  <2>1. turns' = [turns EXCEPT ![t].at = a, ![t].convo = c, ![t].goals = g]
    BY DEF Open
  <2>2. /\ turns = [u \in Callers |-> turns[u]]
        /\ turns[t] = [at |-> turns[t].at, convo |-> turns[t].convo,
                       goals |-> turns[t].goals, plan |-> turns[t].plan]
    BY DEF Shapes
  <2>. HIDE DEF a, c, g
  <2>. QED BY <2>1, <2>2 DEF Becomes
<1>2. \A u \in Callers \ {t} : turns'[u] = turns[u] BY <1>1 DEF Becomes
<1>3. turns'[t].at = a /\ turns'[t].convo = c BY <1>1 DEF Becomes
<1>4. a \in Stages /\ a \notin {"idle", "waiting"} \cup Ended BY DEF Stages, Ended
<1>5. /\ Len(convos) \in Nat /\ DOMAIN convos = 1 .. Len(convos)
      /\ Len(convos') = IF new THEN Len(convos) + 1 ELSE Len(convos)
      /\ DOMAIN convos' = 1 .. Len(convos')
      /\ \E S : convos' \in Seq(S)
      /\ \A d \in DOMAIN convos' : convos'[d] \in [goals : {convos'[d].goals},
             lastPlan : TurnPlans, turns : {convos'[d].turns}]
  <2>1. CASE new BY <1>0, <2>1, OneMore
  <2>2. CASE ~new BY <1>0, <2>2, OneMore DEF Shapes
  <2>. QED BY <2>1, <2>2
<1>6. /\ c \in 1 .. Len(convos') /\ c \in Nat
      /\ \A l \in Keys : current[l] \in 0 .. Len(convos)
      /\ \A l \in Keys : current'[l] = IF l = k THEN c ELSE current[l]
  BY <1>0, <1>5 DEF Shapes
<1>. HIDE DEF a, c, k, new
<1>7. Shapes'
  <2>1. turns'[t] \in [at : Stages, convo : Nat, goals : {turns'[t].goals}, plan : TurnPlans]
    BY <1>1, <1>4, <1>6 DEF Shapes, Becomes
  <2>2. \A u \in Callers :
           turns'[u] \in [at : Stages, convo : Nat, goals : {turns'[u].goals}, plan : TurnPlans]
    BY <1>2, <2>1 DEF Shapes
  <2>3. current' \in [Keys -> 0 .. Len(convos')]
    BY <1>0, <1>5, <1>6 DEF Shapes
  <2>4. announced' \in [Keys -> BOOLEAN]
    <3>1. (~new /\ announced[k]) \in BOOLEAN OBVIOUS
    <3>. QED BY <1>0, <3>1 DEF Shapes
  <2>5. anchor' \in [Keys -> Callers \cup {NoTurn}] BY <1>0 DEF Shapes
  <2>. QED BY <1>0, <1>1, <1>5, <2>2, <2>3, <2>4, <2>5 DEF Shapes, Becomes
<1>8. \A l \in Keys : \A i \in DOMAIN queue[l] : queue[l][i] = t => i = 1
  <2>1. queue[k] \in Seq(Callers) BY <1>0 DEF Shapes
  <2>2. \E i \in DOMAIN queue[k] : queue[k][i] = t BY <1>0 DEF Queues, k, Ended
  <2>3. 1 \in DOMAIN queue[k] /\ queue[k][1] = t BY <1>0, <2>1, <2>2
  <2>. QED BY <1>0, <2>3 DEF Queues, k
<1>9. Queues'
  <2>1. \A l \in Keys : \A i \in DOMAIN queue[l] : queue[l][i] \in Callers
    BY DEF Shapes
  <2>2. \A u \in Callers : turns'[u].at \in {"idle"} \cup Ended
                           <=> turns[u].at \in {"idle"} \cup Ended
    BY <1>0, <1>2, <1>3, <1>4 DEF Ended
  <2>3. \A u \in Callers \ {t} : Past(turns'[u]) <=> Past(turns[u]) BY <1>2
  <2>. QED BY <1>0, <1>8, <2>1, <2>2, <2>3 DEF Queues
<1>10. /\ \A u \in Callers \ {t} : turns[u].convo = c /\ Past(turns[u]) => KeyOf[u] = k
       /\ \A l \in Keys : current[l] = c => l = k
  <2>1. CASE new
    <3>1. c = Len(convos) + 1 BY <2>1 DEF c
    <3>. QED BY <1>5, <1>6, <3>1 DEF Apart, Holds
  <2>2. CASE ~new
    <3>1. c = current[k] /\ c # 0 BY <2>2 DEF c, new
    <3>. QED BY <1>0, <3>1 DEF Apart, Holds
  <2>. QED BY <2>1, <2>2
<1>11. Apart'
  <2>1. \A l, m \in Keys : current'[l] = current'[m] /\ current'[l] # 0 => l = m
    BY <1>6, <1>10 DEF Apart
  <2>2. \A u \in Callers \ {t} : Past(turns[u]) =>
           /\ turns[u].convo \in DOMAIN convos'
           /\ \A l \in Keys : current'[l] = turns[u].convo => l = KeyOf[u]
    <3>1. DOMAIN convos \subseteq DOMAIN convos' BY <1>5
    <3>. QED BY <1>6, <1>10, <3>1 DEF Apart, Holds
  <2>3. \A l \in Keys : current'[l] = c => l = k BY <1>6, <1>10
  <2>4. \A u, w \in Callers : Past(turns'[u]) /\ Past(turns'[w])
             /\ turns'[u].convo = turns'[w].convo => KeyOf[u] = KeyOf[w]
    <3>1. \A u \in Callers \ {t} : Past(turns'[u]) /\ turns'[u].convo = c => KeyOf[u] = k
      BY <1>2, <1>10
    <3>2. \A u, w \in Callers \ {t} : Past(turns'[u]) /\ Past(turns'[w])
             /\ turns'[u].convo = turns'[w].convo => KeyOf[u] = KeyOf[w]
      BY <1>2 DEF Apart, Holds
    <3>. QED BY <1>3, <3>1, <3>2 DEF k
  <2>5. \A u \in Callers : Past(turns'[u]) =>
           /\ turns'[u].convo \in DOMAIN convos'
           /\ \A l \in Keys : current'[l] = turns'[u].convo => l = KeyOf[u]
    BY <1>2, <1>3, <1>5, <1>6, <2>2, <2>3 DEF k
  <2>. QED BY <2>1, <2>4, <2>5 DEF Apart, Holds
<1>12. Room'
  <2>. DEFINE free == {l \in Keys : current[l] = 0}
  <2>1. CASE new
    <3>1. current[k] = 0 BY <2>1 DEF new
    <3>2. {l \in Keys : current'[l] = 0} = free \ {k} BY <1>5, <1>6
    <3>3. Cardinality(free) \in Nat /\ Cardinality(free \ {k}) = Cardinality(free) - 1
      BY <1>0, <3>1, RoomForOne
    <3>. HIDE DEF free
    <3>4. Len(convos) + Cardinality(free) <= MaxConversations BY DEF Room, free
    <3>5. Len(convos') + Cardinality(free \ {k}) <= MaxConversations
      BY <1>5, <2>1, <3>3, <3>4, ConversationAssumption
    <3>. QED BY <3>2, <3>5 DEF Room
  <2>2. CASE ~new
    <3>1. {l \in Keys : current'[l] = 0} = free BY <1>5, <1>6, <2>2 DEF new
    <3>. QED BY <1>5, <2>2, <3>1 DEF Room
  <2>. QED BY <2>1, <2>2
<1>. QED BY <1>7, <1>9, <1>11, <1>12 DEF TurnsInv

\* new_conversation gives every key a fresh start.
LEMMA StartOverPreserves ==
    ASSUME TurnsInv, StartOver
    PROVE  TurnsInv'
<1>. Shapes /\ Queues /\ Apart /\ Room BY DEF TurnsInv
<1>0. /\ Len(convos) + Cardinality(Keys) <= MaxConversations
      /\ convos' = Append(convos, NewConversation)
      /\ current' = [k \in Keys |-> IF k = Unpinned THEN Len(convos) + 1 ELSE 0]
      /\ announced' = [k \in Keys |-> FALSE]
      /\ anchor' = [k \in Keys |-> NoTurn]
      /\ UNCHANGED <<turns, queue, closed, closing>>
  BY DEF StartOver
<1>1. /\ Len(convos) \in Nat /\ DOMAIN convos = 1 .. Len(convos)
      /\ Len(convos') = Len(convos) + 1
      /\ DOMAIN convos' = 1 .. Len(convos')
      /\ \E S : convos' \in Seq(S)
      /\ \A d \in DOMAIN convos' : convos'[d] \in [goals : {convos'[d].goals},
             lastPlan : TurnPlans, turns : {convos'[d].turns}]
  BY <1>0, OneMore
<1>2. Shapes'
  <2>1. current' \in [Keys -> 0 .. Len(convos')] BY <1>0, <1>1
  <2>2. announced' \in [Keys -> BOOLEAN] BY <1>0
  <2>. QED BY <1>0, <1>1, <2>1, <2>2 DEF Shapes
<1>3. Queues' BY <1>0 DEF Queues
<1>4. Apart' BY <1>0, <1>1 DEF Apart, Holds
<1>5. Room'
  <2>1. {k \in Keys : current'[k] = 0} = Keys \ {Unpinned} BY <1>0, <1>1
  <2>2. Cardinality(Keys) \in Nat /\ Cardinality(Keys \ {Unpinned}) = Cardinality(Keys) - 1
    BY ConversationAssumption, CallerAssumption, FS_CardinalityType, FS_RemoveElement
  <2>3. Len(convos') + Cardinality(Keys \ {Unpinned}) <= MaxConversations
    BY <1>0, <1>1, <2>2, ConversationAssumption
  <2>. QED BY <2>1, <2>3 DEF Room
<1>. QED BY <1>2, <1>3, <1>4, <1>5 DEF TurnsInv

\* The invariant holds initially.
LEMMA TurnsInvInit == Init => TurnsInv
<1>. SUFFICES ASSUME Init PROVE TurnsInv
  OBVIOUS
<1>0. /\ turns = [t \in Callers |-> NewTurn]
      /\ queue = [k \in Keys |-> <<>>]
      /\ convos = <<NewConversation>>
      /\ current = [k \in Keys |-> IF k = Unpinned THEN 1 ELSE 0]
      /\ announced = [k \in Keys |-> FALSE]
      /\ anchor = [k \in Keys |-> NoTurn]
      /\ closing = {}
  BY DEF Init, TurnsInit
<1>1. convos \in Seq({NewConversation}) /\ Len(convos) = 1 /\ DOMAIN convos = {1}
      /\ convos[1] = NewConversation
  BY <1>0
<1>2. Shapes
  <2>1. NewTurn \in [at : Stages, convo : Nat, goals : {NewTurn.goals}, plan : TurnPlans]
    BY PlanShapes DEF NewTurn, Stages
  <2>2. NewConversation \in [goals : {NewConversation.goals}, lastPlan : TurnPlans,
                             turns : {NewConversation.turns}]
    BY PlanShapes DEF NewConversation
  <2>3. current \in [Keys -> 0 .. Len(convos)] BY <1>0, <1>1
  <2>4. announced \in [Keys -> BOOLEAN] BY <1>0
  <2>5. queue \in [Keys -> Seq(Callers)] BY <1>0
  <2>. QED BY <1>0, <1>1, <2>1, <2>2, <2>3, <2>4, <2>5 DEF Shapes
<1>3. \A t \in Callers : turns[t].at = "idle" BY <1>0 DEF NewTurn
<1>4. Queues BY <1>0, <1>3 DEF Queues
<1>5. Apart BY <1>0, <1>3 DEF Apart, Holds, Past
<1>6. Room
  <2>1. {k \in Keys : current[k] = 0} = Keys \ {Unpinned} BY <1>0
  <2>2. Cardinality(Keys) \in Nat /\ Cardinality(Keys \ {Unpinned}) = Cardinality(Keys) - 1
    BY ConversationAssumption, CallerAssumption, FS_CardinalityType, FS_RemoveElement
  <2>3. 1 + Cardinality(Keys \ {Unpinned}) <= MaxConversations
    BY <2>2, ConversationAssumption
  <2>. QED BY <1>1, <2>1, <2>3 DEF Room
<1>. QED BY <1>2, <1>4, <1>5, <1>6 DEF TurnsInv

\* Every step preserves the invariant.
LEMMA TurnsInvStep == TurnsInv /\ [Next]_vars => TurnsInv'
<1>. SUFFICES ASSUME TurnsInv, [Next]_vars PROVE TurnsInv'
  OBVIOUS
<1>1. CASE UNCHANGED <<turns, queue, convos, current, announced, anchor>>
           /\ closing' \subseteq Keys
  <2>1. Shapes' BY <1>1 DEF TurnsInv, Shapes
  <2>2. Queues' BY <1>1 DEF TurnsInv, Queues
  <2>3. Apart' BY <1>1 DEF TurnsInv, Apart, Holds
  <2>4. Room' BY <1>1 DEF TurnsInv, Room
  <2>. QED BY <2>1, <2>2, <2>3, <2>4 DEF TurnsInv
<1>2. ASSUME NEW t \in Callers, NEW a, NEW p, Works(t, a, p) PROVE TurnsInv'
  BY <1>2, GoesOnPreserves DEF Works
<1>. QED
  BY <1>1, <1>2, StepKinds, StartOverPreserves, CallPreserves, OpenPreserves,
     GoesOnPreserves, EndsPreserves

\* The invariant holds in every reachable state.
LEMMA TurnsInvHolds == Spec => []TurnsInv
BY TurnsInvInit, TurnsInvStep, PTL DEF Spec

-----------------------------------------------------------------------------
(***************************************************************************)
(* The refinement of SerialTurns: seeding begins the work of a turn, its   *)
(* end ends it, and everything else works on the plan or is not seen.      *)
(***************************************************************************)

\* What the refinement mapping makes of a turn and of a conversation.
Rest == [convo |-> 0, stage |-> "resting", plan |-> NoPlan]
StageOf(turn) == IF turn.at \in Executing THEN "executing" ELSE "planning"
WorkOf(turn) ==
    IF turn.at \in Unseeded THEN Rest
    ELSE [convo |-> turn.convo, stage |-> StageOf(turn), plan |-> turn.plan]
Work == [t \in Callers |-> WorkOf(turns[t])]
Carried == [c \in 1 .. MaxConversations |->
    IF c \in DOMAIN convos THEN convos[c].lastPlan ELSE NoPlan]

\* The actions of SerialTurns over the mapped variables.
Begins(t, c) ==
    /\ \A u \in Callers : Work[u].convo # c
    /\ Work[t] = Rest
    /\ Work' = [Work EXCEPT ![t] =
          [convo |-> c, stage |-> "planning", plan |-> Carried[c]]]
    /\ Carried' = Carried
WorksOn(t) ==
    /\ Work[t] # Rest
    /\ Work'[t].plan \in TurnPlans
    /\ Work'[t].stage \in {Work[t].stage, "executing"}
    /\ Work' = [Work EXCEPT ![t].plan = Work'[t].plan, ![t].stage = Work'[t].stage]
    /\ Carried' = Carried
Stops(t) ==
    /\ Work[t] # Rest
    /\ Work' = [Work EXCEPT ![t] = Rest]
    /\ \/ /\ Work[t].plan # NoPlan
          /\ Carried' = [Carried EXCEPT ![Work[t].convo] = Work[t].plan]
       \/ /\ Work[t].plan = NoPlan \/ Work[t].stage = "planning"
          /\ Carried' = Carried

\* They are those of SerialTurns.
LEMMA SerialActions ==
    ASSUME NEW t \in Callers
    PROVE  /\ \A c \in 1 .. MaxConversations : Begins(t, c) => Serial!Begin(t, c)
           /\ WorksOn(t) => Serial!Work(t)
           /\ Stops(t) => Serial!End(t)
<1>1. \A c \in 1 .. MaxConversations : Begins(t, c) => Serial!Begin(t, c)
  BY DEF Serial!Begin, Serial!Resting, Begins, Work, WorkOf, StageOf, Rest, Carried
<1>2. WorksOn(t) => Serial!Work(t)
  BY DEF Serial!Work, Serial!Resting, WorksOn, Work, WorkOf, StageOf, Rest, Carried, TurnPlans
<1>3. Stops(t) => Serial!End(t)
  BY DEF Serial!End, Serial!Leaves, Serial!Resting, Stops, Work, WorkOf, StageOf, Rest, Carried
<1>. QED BY <1>1, <1>2, <1>3

\* Initially nobody works and nothing is carried.
LEMMA SerialInit == Init => Serial!Init
<1>. SUFFICES ASSUME Init PROVE Serial!Init
  OBVIOUS
<1>1. turns = [t \in Callers |-> NewTurn] /\ convos = <<NewConversation>>
  BY DEF Init, TurnsInit
<1>2. \A t \in Callers : turns[t].at \in Unseeded BY <1>1 DEF NewTurn, Unseeded
<1>3. \A c \in DOMAIN convos : convos[c].lastPlan = NoPlan BY <1>1 DEF NewConversation
<1>. QED BY <1>2, <1>3 DEF Serial!Init, Serial!Resting

\* A turn that moves alone changes its own work alone.
LEMMA WorkMoves ==
    ASSUME NEW t \in Callers, NEW a, NEW c, NEW p, Becomes(t, a, c, p)
    PROVE  Work' = [Work EXCEPT ![t] = WorkOf(turns'[t])]
BY DEF Becomes, Work

\* A turn at work works in a conversation, which no other turn is in.
LEMMA WorksAlone ==
    ASSUME TurnsInv, NEW t \in Callers, Holds(t)
    PROVE  /\ turns[t].convo \in 1 .. Len(convos) /\ turns[t].convo \in 1 .. MaxConversations
           /\ DOMAIN convos = 1 .. Len(convos)
           /\ turns[t].convo # 0
           /\ \A u \in Callers \ {t} : Work[u].convo # turns[t].convo
<1>1. Shapes /\ Queues /\ Apart /\ Room BY DEF TurnsInv
<1>2. PICK S : convos \in Seq(S) BY <1>1 DEF Shapes
<1>3. Len(convos) \in Nat /\ DOMAIN convos = 1 .. Len(convos) BY <1>2
<1>4. Len(convos) <= MaxConversations
  <2>. DEFINE n == Cardinality({k \in Keys : current[k] = 0})
  <2>1. n \in Nat
    <3>1. {k \in Keys : current[k] = 0} \in SUBSET Keys OBVIOUS
    <3>. QED BY <3>1, FS_Subset, FS_CardinalityType, ConversationAssumption
  <2>2. Len(convos) + n <= MaxConversations BY <1>1 DEF Room
  <2>. HIDE DEF n
  <2>. QED BY <1>3, <2>1, <2>2, ConversationAssumption
<1>5. turns[t].convo \in 1 .. Len(convos) BY <1>1, <1>3 DEF Apart
<1>6. ASSUME NEW u \in Callers \ {t}, Work[u].convo = turns[t].convo PROVE FALSE
  <2>1. Work[u] = WorkOf(turns[u]) BY DEF Work
  <2>2. turns[u].at \notin Unseeded /\ turns[u].convo = turns[t].convo
    BY <1>3, <1>5, <1>6, <2>1 DEF WorkOf, Rest
  <2>3. Past(turns[u]) /\ Past(turns[t]) BY <2>2 DEF Past, Unseeded, Holds
  <2>4. KeyOf[u] = KeyOf[t] /\ KeyOf[t] \in Keys
    BY <1>1, <2>2, <2>3, CallerAssumption DEF Apart, Holds
  <2>5. PICK i \in DOMAIN queue[KeyOf[t]] : queue[KeyOf[t]][i] = t
    BY <1>1, <2>3 DEF Queues, Past
  <2>6. PICK j \in DOMAIN queue[KeyOf[t]] : queue[KeyOf[t]][j] = u
    BY <1>1, <2>3, <2>4 DEF Queues, Past
  <2>7. i = 1 /\ j = 1 BY <1>1, <2>3, <2>4, <2>5, <2>6 DEF Queues
  <2>. QED BY <2>5, <2>6, <2>7
<1>. QED BY <1>3, <1>4, <1>5, <1>6, ConversationAssumption

\* Seeding is the beginning of the turn's work, from the plan carried there.
LEMMA SeedBegins ==
    ASSUME TurnsInv, NEW t \in Callers, Seed(t), NEW c, c = turns[t].convo,
           GoesOn(t, "deriving", convos[c].lastPlan)
    PROVE  Begins(t, c)
<1>. DEFINE p == convos[c].lastPlan
<1>1. turns[t].at = "starting" BY DEF Seed
<1>2. Holds(t) BY <1>1 DEF Holds, Past, Ended
<1>3. /\ c \in 1 .. MaxConversations /\ c \in DOMAIN convos /\ c # 0
      /\ \A u \in Callers \ {t} : Work[u].convo # c
  BY <1>2, WorksAlone
<1>4. Work[t] = Rest BY <1>1 DEF Work, WorkOf, Unseeded
<1>5. Carried[c] = p BY <1>3 DEF Carried
<1>6. Carried' = Carried BY DEF GoesOn, Carried
<1>7. Becomes(t, "deriving", c, p) BY DEF GoesOn
<1>. HIDE DEF p
<1>8. turns'[t].at = "deriving" /\ turns'[t].convo = c /\ turns'[t].plan = p
  BY <1>7 DEF Becomes
<1>9. WorkOf(turns'[t]) = [convo |-> c, stage |-> "planning", plan |-> p]
  BY <1>8 DEF WorkOf, StageOf, Unseeded, Executing, Ended
<1>10. Work' = [Work EXCEPT ![t] = [convo |-> c, stage |-> "planning", plan |-> p]]
  BY <1>7, <1>9, WorkMoves
<1>11. \A u \in Callers : Work[u].convo # c BY <1>3, <1>4 DEF Rest
<1>. QED BY <1>4, <1>5, <1>6, <1>10, <1>11 DEF Begins

\* What a turn does meanwhile, or a close to it, is work on its plan.
LEMMA WorksWork ==
    ASSUME TurnsInv, NEW t \in Callers, NEW a, NEW p, Works(t, a, p)
    PROVE  WorksOn(t) \/ UNCHANGED <<Work, Carried>>
<1>. DEFINE c == turns[t].convo
<1>1. Becomes(t, a, c, p) /\ p \in TurnPlans BY DEF Works, GoesOn
<1>2. turns'[t].at = a /\ turns'[t].convo = c /\ turns'[t].plan = p BY <1>1 DEF Becomes
<1>3. Carried' = Carried BY DEF Works, GoesOn, Carried
<1>4. Work' = [Work EXCEPT ![t] = WorkOf(turns'[t])] BY <1>1, WorkMoves
<1>5. Work[t] = WorkOf(turns[t]) /\ Work'[t] = WorkOf(turns'[t]) BY <1>4 DEF Work
<1>6. CASE turns[t].at \in Unseeded
  <2>1. WorkOf(turns'[t]) = WorkOf(turns[t]) BY <1>2, <1>6 DEF Works, WorkOf
  <2>2. Work' = Work BY <1>4, <1>5, <2>1 DEF Work
  <2>. QED BY <1>3, <2>2
<1>7. CASE turns[t].at \notin Unseeded
  <2>1. Holds(t) BY <1>7 DEF Holds, Past, Unseeded
  <2>2. c # 0 BY <2>1, WorksAlone
  <2>. DEFINE s == StageOf(turns[t])  z == StageOf(turns'[t])
  <2>3. Work[t] = [convo |-> c, stage |-> s, plan |-> turns[t].plan]
    BY <1>5, <1>7 DEF WorkOf
  <2>4. Work'[t] = [convo |-> c, stage |-> z, plan |-> p]
    BY <1>2, <1>5, <1>7 DEF Works, WorkOf
  <2>5. z \in {s, "executing"} BY <1>2 DEF Works, StageOf
  <2>. HIDE DEF s, z, c
  <2>6. Work[t] # Rest BY <2>2, <2>3 DEF Rest
  <2>7. Work'[t].plan = p /\ Work'[t].stage = z /\ Work[t].stage = s BY <2>3, <2>4
  <2>8. Work' = [Work EXCEPT ![t].plan = Work'[t].plan, ![t].stage = Work'[t].stage]
    <3>1. Work' = [Work EXCEPT ![t] = Work'[t]] BY <1>4, <1>5
    <3>2. \A u \in Callers : Work'[u] = IF u = t THEN Work'[t] ELSE Work[u]
      BY <3>1 DEF Work
    <3>. DEFINE w == Work[t]  x == [w EXCEPT !.plan = p]  y == [x EXCEPT !.stage = z]
    <3>3. w = [convo |-> c, stage |-> s, plan |-> turns[t].plan] BY <2>3
    <3>. HIDE DEF w
    <3>4. x = [convo |-> c, stage |-> s, plan |-> p] BY <3>3
    <3>. HIDE DEF x
    <3>5. y = [convo |-> c, stage |-> z, plan |-> p] BY <3>4
    <3>. HIDE DEF y
    <3>6. y = Work'[t] BY <2>4, <3>5
    <3>7. Work' = [Work EXCEPT ![t].plan = p, ![t].stage = z]
      BY <3>1, <3>6 DEF Work, w, x, y
    <3>. QED BY <2>7, <3>7
  <2>. QED BY <1>1, <1>3, <2>5, <2>6, <2>7, <2>8 DEF WorksOn
<1>. QED BY <1>6, <1>7

\* The end of a turn that was seeded ends its work; one that reached its executor
\* leaves its plan.
LEMMA EndsStop ==
    ASSUME TurnsInv, NEW t \in Callers, NEW a, Ends(t, a)
    PROVE  Stops(t) \/ UNCHANGED <<Work, Carried>>
<1>. DEFINE c == turns[t].convo
<1>1. Becomes(t, a, c, NoPlan) /\ a \in Ended BY DEF Ends
<1>2. WorkOf(turns'[t]) = Rest BY <1>1 DEF Becomes, WorkOf, Unseeded
<1>3. Work' = [Work EXCEPT ![t] = Rest] BY <1>1, <1>2, WorkMoves
<1>4. Work[t] = WorkOf(turns[t]) BY DEF Work
<1>5. CASE turns[t].at \in Unseeded
  <2>1. Work[t] = Rest BY <1>4, <1>5 DEF WorkOf
  <2>2. Work' = Work BY <1>3, <2>1 DEF Work
  <2>3. convos' = convos BY <1>5 DEF Ends, Leaves
  <2>. QED BY <2>2, <2>3 DEF Carried
<1>6. CASE turns[t].at \notin Unseeded
  <2>1. Holds(t) BY <1>6 DEF Holds, Past, Unseeded
  <2>2. c # 0 /\ c \in DOMAIN convos /\ c \in 1 .. MaxConversations BY <2>1, WorksAlone
  <2>3. Work[t] = [convo |-> c, stage |-> StageOf(turns[t]), plan |-> turns[t].plan]
    BY <1>4, <1>6 DEF WorkOf
  <2>4. Work[t] # Rest BY <2>2, <2>3 DEF Rest
  <2>5. CASE convos' = convos /\ turns[t].at \notin Executing
    <3>1. Carried' = Carried BY <2>5 DEF Carried
    <3>2. Work[t].stage = "planning" BY <2>3, <2>5 DEF StageOf
    <3>. QED BY <1>3, <2>4, <3>1, <3>2 DEF Stops
  <2>6. CASE Leaves(t)
    <3>1. /\ DOMAIN convos' = DOMAIN convos
          /\ \A d \in DOMAIN convos \ {c} : convos'[d] = convos[d]
          /\ convos'[c].lastPlan =
                IF turns[t].plan = NoPlan THEN convos[c].lastPlan ELSE turns[t].plan
      BY <2>6 DEF Leaves
    <3>2. CASE turns[t].plan = NoPlan
      <4>1. \A d \in DOMAIN convos : convos'[d].lastPlan = convos[d].lastPlan
        BY <3>1, <3>2
      <4>2. Carried' = Carried BY <3>1, <4>1 DEF Carried
      <4>. QED BY <1>3, <2>3, <2>4, <3>2, <4>2 DEF Stops
    <3>3. CASE turns[t].plan # NoPlan
      <4>1. \A d \in DOMAIN convos : convos'[d].lastPlan =
                IF d = c THEN turns[t].plan ELSE convos[d].lastPlan
        BY <3>1, <3>3
      <4>2. Carried' = [Carried EXCEPT ![c] = turns[t].plan]
        BY <2>2, <3>1, <4>1 DEF Carried
      <4>. QED BY <1>3, <2>3, <2>4, <3>3, <4>2 DEF Stops
    <3>. QED BY <3>2, <3>3
  <2>. QED BY <2>5, <2>6 DEF Ends
<1>. QED BY <1>5, <1>6

\* A call, the opening of a turn and new_conversation are not seen: a new
\* conversation carries no plan.
LEMMA OthersUnseen ==
    ASSUME TurnsInv, StartOver \/ \E t \in Callers : Call(t) \/ Open(t)
    PROVE  UNCHANGED <<Work, Carried>>
<1>0. Shapes BY DEF TurnsInv
<1>1. ASSUME convos' = Append(convos, NewConversation) PROVE Carried' = Carried
  <2>1. /\ Len(convos) \in Nat /\ DOMAIN convos = 1 .. Len(convos)
        /\ DOMAIN convos' = 1 .. Len(convos) + 1
        /\ \A c \in DOMAIN convos : convos'[c] = convos[c]
        /\ convos'[Len(convos) + 1] = NewConversation
    BY <1>0, <1>1, OneMore
  <2>2. NewConversation.lastPlan = NoPlan BY DEF NewConversation
  <2>3. \A c \in 1 .. MaxConversations :
           (IF c \in DOMAIN convos' THEN convos'[c].lastPlan ELSE NoPlan)
           = (IF c \in DOMAIN convos THEN convos[c].lastPlan ELSE NoPlan)
    BY <2>1, <2>2
  <2>. QED BY <2>3 DEF Carried
<1>2. CASE StartOver
  BY <1>1, <1>2 DEF StartOver, Work
<1>3. ASSUME NEW t \in Callers, Call(t) PROVE UNCHANGED <<Work, Carried>>
  <2>1. Becomes(t, "waiting", turns[t].convo, turns[t].plan)
    BY <1>0, <1>3, Updates DEF Call, Moves
  <2>2. WorkOf(turns'[t]) = Rest /\ Work[t] = Rest
    BY <1>3, <2>1 DEF Call, Becomes, Work, WorkOf, Unseeded
  <2>3. Work' = [Work EXCEPT ![t] = Rest] BY <2>1, <2>2, WorkMoves
  <2>4. Work' = Work BY <2>2, <2>3 DEF Work
  <2>. QED BY <1>3, <2>4 DEF Call, Carried
<1>4. ASSUME NEW t \in Callers, Open(t) PROVE UNCHANGED <<Work, Carried>>
  <2>1. \A u \in Callers : WorkOf(turns'[u]) = WorkOf(turns[u])
    <3>1. turns[t].at = "waiting" BY <1>4 DEF Open
    <3>2. \A u \in Callers \ {t} : turns'[u] = turns[u] BY <1>0, <1>4 DEF Open, Shapes
    <3>3. turns'[t].at \in {"starting", "announcing"}
      <4>. DEFINE a == IF announced'[KeyOf[t]] THEN "starting" ELSE "announcing"
      <4>1. \E c, g : turns' = [turns EXCEPT ![t].at = a, ![t].convo = c, ![t].goals = g]
        BY <1>4 DEF Open
      <4>2. a \in {"starting", "announcing"} OBVIOUS
      <4>. HIDE DEF a
      <4>3. turns'[t].at = a BY <1>0, <4>1 DEF Shapes
      <4>. QED BY <4>2, <4>3
    <3>. QED BY <3>1, <3>2, <3>3 DEF WorkOf, Unseeded
  <2>2. Work' = Work BY <2>1 DEF Work
  <2>3. convos' = convos \/ convos' = Append(convos, NewConversation) BY <1>4 DEF Open
  <2>. QED BY <1>1, <2>2, <2>3 DEF Carried
<1>. QED BY <1>2, <1>3, <1>4

\* Every step is one of SerialTurns or is not seen.
LEMMA SerialStep ==
    ASSUME TurnsInv, [Next]_vars
    PROVE  Serial!Next \/ UNCHANGED <<Work, Carried>>
<1>1. CASE UNCHANGED <<turns, queue, convos, current, announced, anchor>>
  BY <1>1 DEF Work, Carried
<1>2. ASSUME NEW t \in Callers, Seed(t),
             GoesOn(t, "deriving", convos[turns[t].convo].lastPlan)
      PROVE  Serial!Next
  <2>1. Holds(t) BY <1>2 DEF Seed, Holds, Past, Ended
  <2>2. turns[t].convo \in 1 .. MaxConversations BY <2>1, WorksAlone
  <2>3. PICK c \in 1 .. MaxConversations : c = turns[t].convo BY <2>2
  <2>4. Begins(t, c) BY <1>2, <2>3, SeedBegins
  <2>5. Serial!Begin(t, c) BY <2>4, SerialActions
  <2>. QED BY <2>5 DEF Serial!Next
<1>3. ASSUME NEW t \in Callers, WorksOn(t) \/ Stops(t) PROVE Serial!Next
  BY <1>3, SerialActions DEF Serial!Next
<1>4. ASSUME NEW t \in Callers, NEW a, NEW p, Works(t, a, p)
      PROVE  Serial!Next \/ UNCHANGED <<Work, Carried>>
  BY <1>3, <1>4, WorksWork
<1>5. ASSUME NEW t \in Callers, NEW a, Ends(t, a)
      PROVE  Serial!Next \/ UNCHANGED <<Work, Carried>>
  BY <1>3, <1>5, EndsStop
<1>. QED BY <1>1, <1>2, <1>4, <1>5, StepKinds, OthersUnseen

\* The locks implement SerialTurns: in every behaviour the turns of a conversation
\* work one at a time, each from the plan the one before left, through errors,
\* cancellations, close and new_conversation.
THEOREM TurnsAreSerialHolds == Spec => TurnsAreSerial
<1>1. Init => Serial!Init BY SerialInit
<1>2. TurnsInv /\ [Next]_vars => [Serial!Next]_<<Work, Carried>> BY SerialStep
<1>. QED BY <1>1, <1>2, TurnsInvHolds, PTL
         DEF Spec, TurnsAreSerial, Serial!Spec, Work, WorkOf, StageOf, Rest, Carried

-----------------------------------------------------------------------------
(***************************************************************************)
(* Goals.                                                                  *)
(***************************************************************************)

TurnGoal == [id : Nat, from : Callers \X Nat]

\* No two goals under one id.
DistinctIds(goals) ==
    \A m, n \in DOMAIN goals : goals[m].id = goals[n].id /\ goals[m].id # 0 => m = n

\* The session's goals are those of the conversation and more.
Continues(session, goals) ==
    \A i \in DOMAIN goals : i \in DOMAIN session /\ session[i] = goals[i]

\* Each goal of the session is one of the conversation's.
Kept(session, goals) ==
    \A n \in DOMAIN session : \E m \in DOMAIN goals : goals[m].from = session[n].from

\* The ids of goals are numbers, finitely many.
LEMMA IdsFinite ==
    ASSUME NEW goals \in Seq(TurnGoal)
    PROVE  GoalIds(goals) \in SUBSET Nat /\ IsFiniteSet(GoalIds(goals))
<1>1. IsFiniteSet({goals[i].id : i \in DOMAIN goals})
  <2> DEFINE D == DOMAIN goals
             f == [i \in D |-> goals[i].id]
             T == {goals[i].id : i \in D}
  <2>1. IsFiniteSet(D)
    <3>1. D = 1 .. Len(goals) /\ Len(goals) \in Int /\ 1 \in Int
      OBVIOUS
    <3>. QED BY <3>1, FS_Interval
  <2>2. f \in Surjection(D, T)
    BY DEF Surjection
  <2> HIDE DEF D, f, T
  <2>3. IsFiniteSet(T)
    BY <2>1, <2>2, FS_Surjection
  <2>. QED BY <2>3 DEF T, D
<1>2. IsFiniteSet(GoalIds(goals))
  BY <1>1, FS_Subset DEF GoalIds
<1>3. \A i \in DOMAIN goals : goals[i].id \in Nat
  <2>1. \A i \in DOMAIN goals : goals[i] \in TurnGoal
    OBVIOUS
  <2>. QED BY <2>1 DEF TurnGoal
<1>4. GoalIds(goals) \in SUBSET Nat
  BY <1>3 DEF GoalIds
<1>. QED BY <1>2, <1>4

\* There is a free id among the first that can be.
LEMMA FreeIdIs ==
    ASSUME NEW n \in Nat, NEW taken \in SUBSET Nat, IsFiniteSet(taken)
    PROVE  FreeId(n, taken) \in Nat /\ FreeId(n, taken) >= n /\ FreeId(n, taken) \notin taken
<1> DEFINE c == Cardinality(taken)
           I == n .. n + c
<1>1. c \in Nat
  BY FS_CardinalityType
<1>2. ~(I \subseteq taken)
  <2>1. n \in Int /\ n + c \in Int /\ n + c >= n /\ (n + c) - n + 1 = c + 1
    BY <1>1
  <2>2. Cardinality(I) = c + 1
    BY <2>1, FS_Interval
  <2>3. I \subseteq taken => Cardinality(I) <= c
    BY FS_Subset
  <2> HIDE DEF I, c
  <2>. QED BY <1>1, <2>2, <2>3
<1>3. PICK k \in {i \in I : i \notin taken} : \A m \in {i \in I : i \notin taken} : k <= m
  <2>1. {i \in I : i \notin taken} \in SUBSET Nat
    BY <1>1
  <2>. QED BY <1>2, <2>1, Least
<1>4. \A j \in n .. k - 1 : j \in taken
  BY <1>1, <1>3
<1>5. \E i \in I : i \notin taken /\ \A j \in n .. i - 1 : j \in taken
  BY <1>3, <1>4
<1>6. FreeId(n, taken) \in I /\ FreeId(n, taken) \notin taken
  BY <1>5 DEF FreeId
<1>. QED BY <1>1, <1>6

\* A goal more: under an id of its own, or none.
LEMMA AppendGoal ==
    ASSUME NEW goals \in Seq(TurnGoal), NEW g \in TurnGoal, DistinctIds(goals),
           g.id = 0 \/ g.id \notin GoalIds(goals)
    PROVE  /\ Append(goals, g) \in Seq(TurnGoal) /\ DistinctIds(Append(goals, g))
           /\ Continues(Append(goals, g), goals)
           /\ \A m \in DOMAIN Append(goals, g) :
                 \/ m \in DOMAIN goals /\ Append(goals, g)[m] = goals[m]
                 \/ m = Len(goals) + 1 /\ Append(goals, g)[m] = g
           /\ Len(goals) + 1 \in DOMAIN Append(goals, g)
           /\ Append(goals, g)[Len(goals) + 1] = g
<1> DEFINE r == Append(goals, g)
           l == Len(goals)
<1>1. /\ r \in Seq(TurnGoal) /\ l \in Nat /\ DOMAIN r = 1 .. l + 1 /\ DOMAIN goals = 1 .. l
      /\ \A m \in 1 .. l : r[m] = goals[m]
      /\ r[l + 1] = g
  OBVIOUS
<1> HIDE DEF r, l
<1>2. \A m \in DOMAIN r : \/ m \in DOMAIN goals /\ r[m] = goals[m]
                          \/ m = l + 1 /\ r[m] = g
  BY <1>1
<1>3. \A m \in DOMAIN goals : goals[m].id # 0 => goals[m].id # g.id
  BY DEF GoalIds
<1>4. DistinctIds(r)
  BY <1>1, <1>2, <1>3 DEF DistinctIds
<1>5. Continues(r, goals)
  BY <1>1 DEF Continues
<1>6. l + 1 \in DOMAIN r
  BY <1>1
<1>. QED BY <1>1, <1>2, <1>4, <1>5, <1>6 DEF r, l

\* WithGoals on its way.
Gathered == [goals : Seq(TurnGoal), next : Nat \ {0}]

\* WithGoal gives the new goal a free id.
LEMMA WithGoalIs ==
    ASSUME NEW sofar \in Gathered, NEW goal \in TurnGoal
    PROVE  /\ WithGoal(sofar, goal) \in Gathered
           /\ DistinctIds(sofar.goals) => DistinctIds(WithGoal(sofar, goal).goals)
           /\ DistinctIds(sofar.goals) => Continues(WithGoal(sofar, goal).goals, sofar.goals)
<1> DEFINE taken == GoalIds(sofar.goals)
           id == IF goal.id \in taken THEN FreeId(sofar.next, taken) ELSE goal.id
           past == IF id # goal.id THEN id + 1 ELSE sofar.next
           count == Len(sofar.goals) + 2
           g == [goal EXCEPT !.id = id]
           next == IF id # 0 /\ count > past THEN count ELSE past
<1>1. sofar.goals \in Seq(TurnGoal) /\ sofar.next \in Nat \ {0} /\ goal.id \in Nat
  BY DEF Gathered, TurnGoal
<1>2. taken \in SUBSET Nat /\ IsFiniteSet(taken)
  BY <1>1, IdsFinite
<1> HIDE DEF taken
<1>3. id \in Nat /\ (id = 0 \/ id \notin taken)
  BY <1>1, <1>2, FreeIdIs
<1>4. WithGoal(sofar, goal) = [goals |-> Append(sofar.goals, g), next |-> next]
  BY DEF WithGoal, taken
<1> HIDE DEF id
<1>5. g \in TurnGoal /\ g.id = id
  BY <1>3 DEF TurnGoal
<1>6. next \in Nat \ {0}
  BY <1>1, <1>3
<1> HIDE DEF g, next
<1>7. Append(sofar.goals, g) \in Seq(TurnGoal)
  BY <1>1, <1>5
<1>8. WithGoal(sofar, goal) \in Gathered
  BY <1>4, <1>6, <1>7 DEF Gathered
<1>9. ASSUME DistinctIds(sofar.goals)
      PROVE  DistinctIds(Append(sofar.goals, g)) /\ Continues(Append(sofar.goals, g), sofar.goals)
  BY <1>1, <1>3, <1>5, <1>9, AppendGoal DEF taken
<1>. QED BY <1>4, <1>8, <1>9

\* WithGoals keeps the goals there are and gives each new one an id of its own.
LEMMA WithGoalsIs ==
    ASSUME NEW goals \in Seq(TurnGoal), NEW new \in Seq(TurnGoal), DistinctIds(goals)
    PROVE  /\ WithGoals(goals, new) \in Seq(TurnGoal) /\ DistinctIds(WithGoals(goals, new))
           /\ Continues(WithGoals(goals, new), goals)
<1> DEFINE l == Len(new)
           first == [goals |-> goals, next |-> Len(goals) + 1]
           step == [k \in 1 .. l |-> [v \in Gathered |-> WithGoal(v, new[k])]]
           Is(f) == f = [n \in 0 .. l |-> IF n = 0 THEN first ELSE WithGoal(f[n - 1], new[n])]
           f == CHOOSE f : Is(f)
<1>1. l \in Nat /\ first \in Gathered /\ \A k \in 1 .. l : new[k] \in TurnGoal
  BY DEF Gathered
<1>2. WithGoals(goals, new) = f[l].goals
  BY DEF WithGoals
<1> HIDE DEF l, first
<1>3. \A k \in 1 .. l, v \in Gathered : step[k][v] = WithGoal(v, new[k])
  OBVIOUS
<1>4. step \in [1 .. l -> [Gathered -> Gathered]]
  <2>1. \A k \in 1 .. l, v \in Gathered : WithGoal(v, new[k]) \in Gathered
    BY <1>1, WithGoalIs
  <2>. QED BY <2>1
<1> HIDE DEF step
<1>5. PICK h \in [0 .. l -> Gathered] :
         h[0] = first /\ \A k \in 1 .. l : h[k] = step[k][h[k - 1]]
  <2> DEFINE V == Gathered
  <2>1. first \in V
    BY <1>1
  <2>2. l \in Nat
    BY <1>1
  <2>3. step \in [1 .. l -> [V -> V]]
    BY <1>4
  <2> HIDE DEF V
  <2>4. \E h : Runs(h, V, l, first, step)
    BY <2>1, <2>2, <2>3, Recursion
  <2>. QED BY <2>4 DEF V, Runs
<1>6. Is(h)
  <2>1. \A k \in 1 .. l : k - 1 \in 0 .. l /\ h[k - 1] \in Gathered
    BY <1>1, <1>5
  <2>2. \A k \in 1 .. l : h[k] = WithGoal(h[k - 1], new[k])
    BY <1>3, <1>5, <2>1
  <2>3. \A k \in 0 .. l : h[k] = IF k = 0 THEN first ELSE WithGoal(h[k - 1], new[k])
    <3>1. h[0] = first /\ \A k \in 0 .. l : k = 0 \/ k \in 1 .. l
      BY <1>1, <1>5
    <3>. QED BY <2>2, <3>1
  <2>4. h = [k \in 0 .. l |-> h[k]]
    BY <1>5
  <2>. QED BY <2>3, <2>4
<1>7. Is(f)
  BY <1>6
<1> HIDE DEF f
<1> DEFINE Fine(v) == v \in Gathered /\ DistinctIds(v.goals) /\ Continues(v.goals, goals)
           S == {m \in Nat : m <= l => Fine(f[m])}
<1>8. 0 \in S
  <2>1. f[0] = first
    BY <1>1, <1>7
  <2>2. first.goals = goals
    BY DEF first
  <2>. QED BY <1>1, <2>1, <2>2 DEF Continues
<1>9. ASSUME NEW m \in Nat, m \in S PROVE m + 1 \in S
  <2> SUFFICES ASSUME m + 1 <= l PROVE Fine(f[m + 1])
    <3> HIDE DEF Fine
    <3>. QED OBVIOUS
  <2>1. Fine(f[m]) /\ new[m + 1] \in TurnGoal
    BY <1>1, <1>9
  <2>2. f[m + 1] = WithGoal(f[m], new[m + 1])
    BY <1>1, <1>7
  <2> HIDE DEF Is
  <2>3. /\ f[m + 1] \in Gathered /\ DistinctIds(f[m + 1].goals)
        /\ Continues(f[m + 1].goals, f[m].goals)
    BY <2>1, <2>2, WithGoalIs
  <2>. QED BY <2>1, <2>3 DEF Continues
<1>10. Fine(f[l])
  <2>1. l \in S
    <3> HIDE DEF S
    <3>. QED BY <1>1, <1>8, <1>9, Induction
  <2>. QED BY <1>1, <2>1
<1>. QED BY <1>2, <1>10 DEF Gathered

\* absorb_turn keeps every goal of a session that continues the conversation's.
LEMMA AbsorbedIs ==
    ASSUME NEW goals \in Seq(TurnGoal), NEW session \in Seq(TurnGoal), DistinctIds(goals),
           DistinctIds(session), Continues(session, goals)
    PROVE  /\ Absorbed(goals, session) \in Seq(TurnGoal) /\ DistinctIds(Absorbed(goals, session))
           /\ Continues(Absorbed(goals, session), goals)
           /\ Kept(session, Absorbed(goals, session))
<1> DEFINE l == Len(session)
           V == Seq(TurnGoal)
           step == [k \in 1 .. l |-> [v \in V |-> Absorb(v, session[k])]]
           Is(f) == f = [n \in 0 .. l |-> IF n = 0 THEN goals ELSE Absorb(f[n - 1], session[n])]
           f == CHOOSE f : Is(f)
<1>1. l \in Nat /\ DOMAIN session = 1 .. l /\ \A k \in 1 .. l : session[k] \in TurnGoal
  OBVIOUS
<1>2. Absorbed(goals, session) = f[l]
  BY DEF Absorbed
<1> HIDE DEF l
<1>3. \A k \in 1 .. l, v \in V : step[k][v] = Absorb(v, session[k])
  OBVIOUS
<1>4. step \in [1 .. l -> [V -> V]]
  <2>1. \A k \in 1 .. l, v \in V : Append(v, session[k]) \in V
    BY <1>1
  <2>2. \A k \in 1 .. l, v \in V : Absorb(v, session[k]) \in V
    BY <2>1 DEF Absorb
  <2>. QED BY <2>2
<1> HIDE DEF step
<1>5. PICK h \in [0 .. l -> V] : h[0] = goals /\ \A k \in 1 .. l : h[k] = step[k][h[k - 1]]
  <2>1. goals \in V
    OBVIOUS
  <2>2. l \in Nat
    BY <1>1
  <2> HIDE DEF V
  <2>3. \E h : Runs(h, V, l, goals, step)
    BY <1>4, <2>1, <2>2, Recursion
  <2>. QED BY <2>3 DEF Runs
<1>6. Is(h)
  <2>1. \A k \in 1 .. l : k - 1 \in 0 .. l /\ h[k - 1] \in V
    BY <1>1, <1>5
  <2>2. \A k \in 1 .. l : h[k] = Absorb(h[k - 1], session[k])
    BY <1>3, <1>5, <2>1
  <2>3. \A k \in 0 .. l : h[k] = IF k = 0 THEN goals ELSE Absorb(h[k - 1], session[k])
    <3>1. h[0] = goals /\ \A k \in 0 .. l : k = 0 \/ k \in 1 .. l
      BY <1>1, <1>5
    <3>. QED BY <2>2, <3>1
  <2>4. h = [k \in 0 .. l |-> h[k]]
    BY <1>5
  <2>. QED BY <2>3, <2>4
<1>7. Is(f)
  BY <1>6
<1> HIDE DEF f
<1> DEFINE Within(v) == \A m \in DOMAIN v : \E n \in DOMAIN session : v[m] = session[n]
           Fine(v, m) == /\ v \in V /\ DistinctIds(v) /\ Continues(v, goals) /\ Within(v)
                         /\ \A n \in 1 .. m : \E i \in DOMAIN v : v[i].from = session[n].from
           S == {m \in Nat : m <= l => Fine(f[m], m)}
<1>8. 0 \in S
  <2>1. f[0] = goals
    BY <1>1, <1>7
  <2>2. Within(goals) /\ Continues(goals, goals)
    BY DEF Continues
  <2>. QED BY <2>1, <2>2
<1>9. ASSUME NEW m \in Nat, m \in S PROVE m + 1 \in S
  <2> SUFFICES ASSUME m + 1 <= l PROVE Fine(f[m + 1], m + 1)
    <3> HIDE DEF Fine
    <3>. QED OBVIOUS
  <2> DEFINE v == f[m]
             w == f[m + 1]
             g == session[m + 1]
  <2>1. Fine(v, m) /\ g \in TurnGoal /\ m + 1 \in DOMAIN session
    BY <1>1, <1>9
  <2>2. w = Absorb(v, g)
    BY <1>1, <1>7
  <2> HIDE DEF v, w, Is
  <2>3. \A n \in 1 .. m + 1 : n \in 1 .. m \/ n = m + 1
    OBVIOUS
  <2>4. CASE g.id # 0 /\ g.id \in GoalIds(v)
    <3>1. w = v
      BY <2>2, <2>4 DEF Absorb
    <3>2. PICK i \in DOMAIN v : v[i].id = g.id
      BY <2>4 DEF GoalIds
    <3>3. PICK k \in DOMAIN session : v[i] = session[k]
      BY <2>1
    <3>4. k = m + 1
      BY <2>1, <2>4, <3>2, <3>3 DEF DistinctIds
    <3>5. v[i].from = g.from
      BY <3>3, <3>4
    <3>6. w \in V /\ DistinctIds(w) /\ Continues(w, goals) /\ Within(w)
      BY <2>1, <3>1
    <3>7. \A n \in 1 .. m + 1 : \E j \in DOMAIN w : w[j].from = session[n].from
      <4> HIDE DEF g
      <4>1. i \in DOMAIN w /\ w[i].from = session[m + 1].from
        BY <3>1, <3>5 DEF g
      <4>2. \A n \in 1 .. m : \E j \in DOMAIN w : w[j].from = session[n].from
        BY <2>1, <3>1
      <4>. QED BY <2>3, <4>1, <4>2
    <3>. QED BY <3>6, <3>7 DEF w
  <2>5. CASE ~(g.id # 0 /\ g.id \in GoalIds(v))
    <3>1. w = Append(v, g)
      BY <2>2, <2>5 DEF Absorb
    <3> HIDE DEF g
    <3>2. /\ w \in V /\ DistinctIds(w) /\ Continues(w, v)
          /\ \A k \in DOMAIN w : \/ k \in DOMAIN v /\ w[k] = v[k]
                                 \/ k = Len(v) + 1 /\ w[k] = g
          /\ Len(v) + 1 \in DOMAIN w /\ w[Len(v) + 1] = g
      BY <2>1, <2>5, <3>1, AppendGoal
    <3>3. Within(w)
      BY <2>1, <3>2 DEF g
    <3>4. Continues(w, goals)
      BY <2>1, <3>2 DEF Continues
    <3>5. ASSUME NEW n \in 1 .. m + 1 PROVE \E i \in DOMAIN w : w[i].from = session[n].from
      <4>1. CASE n = m + 1
        BY <3>2, <4>1 DEF g
      <4>2. CASE n \in 1 .. m
        <5>1. PICK i \in DOMAIN v : v[i].from = session[n].from
          BY <2>1, <4>2
        <5>2. i \in DOMAIN w /\ w[i] = v[i]
          BY <3>2 DEF Continues
        <5>. QED BY <5>1, <5>2
      <4>. QED BY <2>3, <4>1, <4>2
    <3>. QED BY <3>2, <3>3, <3>4, <3>5 DEF w
  <2>. QED BY <2>4, <2>5 DEF w
<1>10. Fine(f[l], l)
  <2>1. l \in S
    <3> HIDE DEF S
    <3>. QED BY <1>1, <1>8, <1>9, Induction
  <2>2. l <= l
    BY <1>1
  <2> HIDE DEF Fine
  <2>. QED BY <2>1, <2>2
<1>. QED BY <1>1, <1>2, <1>10 DEF Kept

-----------------------------------------------------------------------------
(***************************************************************************)
(* The goals of a conversation.                                            *)
(***************************************************************************)

\* The goals of a turn past the lock are those of its conversation and more, and
\* each turn that a conversation absorbed is over and has its goals there.
GoalsInv ==
    /\ \A t \in Callers : turns[t].goals \in Seq(TurnGoal) /\ DistinctIds(turns[t].goals)
    /\ \A t \in Callers : Holds(t) => Continues(turns[t].goals, convos[turns[t].convo].goals)
    /\ \A c \in DOMAIN convos :
          /\ convos[c].goals \in Seq(TurnGoal) /\ DistinctIds(convos[c].goals)
          /\ convos[c].turns \in Seq(Callers)
          /\ \A i \in DOMAIN convos[c].turns :
                /\ turns[convos[c].turns[i]].at = "done"
                /\ Kept(turns[convos[c].turns[i]].goals, convos[c].goals)

\* A step that touches no goals: no turn passes a lock, and none that was over
\* goes on.
Quiet ==
    /\ convos' = convos
    /\ \A u \in Callers :
          /\ turns'[u].goals = turns[u].goals /\ turns'[u].convo = turns[u].convo
          /\ turns[u].at = "done" => turns'[u].at = "done"
          /\ Past(turns'[u]) => Past(turns[u])

\* Every update of where a turn is or of its plan is quiet, once it is past the lock.
LEMMA UpdatesAreQuiet ==
    ASSUME Shapes, NEW t \in Callers, NEW a, NEW p, convos' = convos
    PROVE  /\ turns' = [turns EXCEPT ![t].plan = p] => Quiet
           /\ Holds(t) /\ turns' = [turns EXCEPT ![t].at = a] => Quiet
           /\ Holds(t) /\ turns' = [turns EXCEPT ![t].at = a, ![t].plan = p] => Quiet
<1>1. /\ turns = [u \in Callers |-> turns[u]]
      /\ turns[t] = [at |-> turns[t].at, convo |-> turns[t].convo,
                     goals |-> turns[t].goals, plan |-> turns[t].plan]
  BY DEF Shapes
<1>2. ASSUME turns' = [turns EXCEPT ![t].plan = p] PROVE Quiet
  <2>1. /\ \A u \in Callers \ {t} : turns'[u] = turns[u]
        /\ turns'[t].goals = turns[t].goals /\ turns'[t].convo = turns[t].convo
        /\ turns'[t].at = turns[t].at
    BY <1>1, <1>2
  <2>. QED BY <2>1 DEF Quiet, Past
<1>3. ASSUME Holds(t), turns' = [turns EXCEPT ![t].at = a] PROVE Quiet
  <2>1. /\ \A u \in Callers \ {t} : turns'[u] = turns[u]
        /\ turns'[t].goals = turns[t].goals /\ turns'[t].convo = turns[t].convo
    BY <1>1, <1>3
  <2>. QED BY <1>3, <2>1 DEF Quiet, Holds, Past, Ended
<1>4. ASSUME Holds(t), turns' = [turns EXCEPT ![t].at = a, ![t].plan = p] PROVE Quiet
  <2>1. /\ \A u \in Callers \ {t} : turns'[u] = turns[u]
        /\ turns'[t].goals = turns[t].goals /\ turns'[t].convo = turns[t].convo
    BY <1>1, <1>4
  <2>. QED BY <1>4, <2>1 DEF Quiet, Holds, Past, Ended
<1>. QED BY <1>2, <1>3, <1>4

\* The steps of a turn that are about goals are its opening, the deriving of its
\* goals and its end.
LEMMA GoalSteps ==
    ASSUME TurnsInv, NEW t \in Callers, TurnStep(t)
    PROVE  Quiet \/ Open(t) \/ Derive(t) \/ (Finish(t) /\ Holds(t))
<1>. USE DEF Executing, Ended
<1>0. Shapes /\ turns[t] = [at |-> turns[t].at, convo |-> turns[t].convo,
                            goals |-> turns[t].goals, plan |-> turns[t].plan]
      /\ turns = [u \in Callers |-> turns[u]]
  BY DEF TurnsInv, Shapes
<1>1. ASSUME NEW from \in {"deriving", "planning", "generating", "evolving", "pivoting", "binding",
                           "executing"},
             NEW to, Only(t, from, to)
      PROVE  Quiet
  <2>1. Holds(t) /\ convos' = convos /\ turns' = [turns EXCEPT ![t].at = to]
    BY <1>1 DEF Only, Moves, Holds, Past
  <2>. QED BY <1>0, <2>1, UpdatesAreQuiet
<1>2. ASSUME Announce(t) PROVE Quiet
  <2>1. Holds(t) /\ convos' = convos /\ turns' = [turns EXCEPT ![t].at = "starting"]
    BY <1>2 DEF Announce, Moves, Holds, Past
  <2>. QED BY <1>0, <2>1, UpdatesAreQuiet
<1>3. ASSUME Seed(t) PROVE Quiet
  <2>. DEFINE p == convos[turns[t].convo].lastPlan
  <2>1. /\ Holds(t) /\ convos' = convos
        /\ turns' = [turns EXCEPT ![t].at = "deriving", ![t].plan = p]
    BY <1>3 DEF Seed, Holds, Past
  <2>. HIDE DEF p
  <2>. QED BY <1>0, <2>1, UpdatesAreQuiet
<1>4. ASSUME InstallPlan(t) PROVE Quiet
  <2>. DEFINE p == Adding(IF turns[t].at = "pivoting" THEN NoPlan ELSE turns[t].plan, t)
  <2>1. /\ Holds(t) /\ convos' = convos
        /\ turns' = [turns EXCEPT ![t].at = "binding", ![t].plan = p]
    BY <1>0, <1>4 DEF InstallPlan, Holds, Past
  <2>. HIDE DEF p
  <2>. QED BY <1>0, <2>1, UpdatesAreQuiet
<1>5. ASSUME Execute(t) PROVE Quiet
  <2>1. PICK u \in Pending(turns[t].plan) :
           turns' = [turns EXCEPT ![t].plan[u] = "COMPLETED"] /\ convos' = convos
    BY <1>5 DEF Execute
  <2>. DEFINE p == [turns[t].plan EXCEPT ![u] = "COMPLETED"]
  <2>2. turns' = [turns EXCEPT ![t].plan = p]
    BY <1>0, <2>1
  <2>. HIDE DEF p
  <2>. QED BY <1>0, <2>1, <2>2, UpdatesAreQuiet
<1>6. ASSUME Return(t) \/ Aborted(t) PROVE Finish(t) /\ Holds(t)
  BY <1>6 DEF Return, Aborted, Holds, Past
<1>7. ASSUME DeriveFails(t) \/ InstallFails(t) \/ Bind(t) \/ BindFails(t) \/ ExecutorRaises(t)
      PROVE  Quiet
  BY <1>1, <1>7 DEF DeriveFails, InstallFails, Bind, BindFails, ExecutorRaises
<1>8. ASSUME NEW answer, Decide(t, answer) \/ Generate(t, answer) PROVE Quiet
  BY <1>1, <1>8 DEF Decide, Generate
<1>. QED BY <1>2, <1>3, <1>4, <1>5, <1>6, <1>7, <1>8 DEF TurnStep

\* A quiet step keeps the goals.
LEMMA QuietKeeps ==
    ASSUME TurnsInv, GoalsInv, Quiet
    PROVE  GoalsInv'
<1>1. \A c \in DOMAIN convos : \A i \in DOMAIN convos[c].turns :
          convos[c].turns[i] \in Callers
  BY DEF GoalsInv
<1>2. \A t \in Callers : turns'[t].goals \in Seq(TurnGoal) /\ DistinctIds(turns'[t].goals)
  BY DEF Quiet, GoalsInv
<1>3. ASSUME NEW t \in Callers, Past(turns'[t])
      PROVE  Continues(turns'[t].goals, convos'[turns'[t].convo].goals)
  BY <1>3 DEF Quiet, GoalsInv, Holds
<1>4. ASSUME NEW c \in DOMAIN convos, NEW i \in DOMAIN convos[c].turns
      PROVE  /\ turns'[convos[c].turns[i]].at = "done"
             /\ Kept(turns'[convos[c].turns[i]].goals, convos[c].goals)
  BY <1>1 DEF Quiet, GoalsInv
<1>5. convos' = convos
  BY DEF Quiet
<1>. QED BY <1>2, <1>3, <1>4, <1>5 DEF GoalsInv, Holds

\* Only t moves, which was not over, and the conversations keep their goals and
\* turns, whatever plan they carry and if there is a new one.
LEMMA MoveKeeps ==
    ASSUME TurnsInv, GoalsInv, NEW t \in Callers, turns[t].at # "done",
           \A u \in Callers \ {t} : turns'[u] = turns[u],
           turns'[t].goals \in Seq(TurnGoal), DistinctIds(turns'[t].goals),
           Past(turns'[t]) => Continues(turns'[t].goals, convos'[turns'[t].convo].goals),
           DOMAIN convos \subseteq DOMAIN convos',
           \A c \in DOMAIN convos :
              convos'[c].goals = convos[c].goals /\ convos'[c].turns = convos[c].turns,
           \A c \in DOMAIN convos' \ DOMAIN convos : convos'[c] = NewConversation
    PROVE  GoalsInv'
<1>1. \A u \in Callers : turns'[u].goals \in Seq(TurnGoal) /\ DistinctIds(turns'[u].goals)
  BY DEF GoalsInv
<1>2. ASSUME NEW u \in Callers, Past(turns'[u])
      PROVE  Continues(turns'[u].goals, convos'[turns'[u].convo].goals)
  <2>1. CASE u = t
    BY <1>2, <2>1
  <2>2. CASE u # t
    <3>1. turns'[u] = turns[u] /\ Holds(u)
      BY <1>2, <2>2 DEF Holds
    <3>2. turns[u].convo \in DOMAIN convos
      BY <3>1 DEF TurnsInv, Apart
    <3>. QED BY <3>1, <3>2 DEF GoalsInv
  <2>. QED BY <2>1, <2>2
<1>3. ASSUME NEW c \in DOMAIN convos'
      PROVE  /\ convos'[c].goals \in Seq(TurnGoal) /\ DistinctIds(convos'[c].goals)
             /\ convos'[c].turns \in Seq(Callers)
             /\ \A i \in DOMAIN convos'[c].turns :
                   /\ turns'[convos'[c].turns[i]].at = "done"
                   /\ Kept(turns'[convos'[c].turns[i]].goals, convos'[c].goals)
  <2>1. CASE c \in DOMAIN convos
    <3>1. convos'[c].goals = convos[c].goals /\ convos'[c].turns = convos[c].turns
      BY <2>1
    <3>2. \A i \in DOMAIN convos[c].turns :
             /\ convos[c].turns[i] \in Callers /\ turns[convos[c].turns[i]].at = "done"
             /\ Kept(turns[convos[c].turns[i]].goals, convos[c].goals)
      BY <2>1 DEF GoalsInv
    <3>3. \A i \in DOMAIN convos[c].turns : turns'[convos[c].turns[i]] = turns[convos[c].turns[i]]
      BY <3>2
    <3>. QED BY <2>1, <3>1, <3>2, <3>3 DEF GoalsInv
  <2>2. CASE c \notin DOMAIN convos
    <3>1. convos'[c].goals = <<>> /\ convos'[c].turns = <<>>
      BY <2>2 DEF NewConversation
    <3>. QED BY <3>1 DEF DistinctIds
  <2>. QED BY <2>1, <2>2
<1>. QED BY <1>1, <1>2, <1>3 DEF GoalsInv, Holds

\* A turn that opens starts with the goals of its conversation.
LEMMA OpenKeeps ==
    ASSUME TurnsInv, GoalsInv, NEW t \in Callers, Open(t)
    PROVE  GoalsInv'
<1>. DEFINE k == KeyOf[t]
            new == current[k] = 0
            c == IF new THEN Len(convos) + 1 ELSE current[k]
            a == IF announced'[k] THEN "starting" ELSE "announcing"
            g == convos'[c].goals
<1>1. /\ turns[t].at = "waiting" /\ k \in Keys
      /\ convos' = IF new THEN Append(convos, NewConversation) ELSE convos
      /\ turns' = [turns EXCEPT ![t].at = a, ![t].convo = c, ![t].goals = g]
  BY CallerAssumption DEF Open
<1>2. PICK S : convos \in Seq(S)
  BY DEF TurnsInv, Shapes
<1>3. current[k] \in 0 .. Len(convos)
  BY <1>1 DEF TurnsInv, Shapes
<1>4. /\ DOMAIN convos \subseteq DOMAIN convos' /\ c \in DOMAIN convos'
      /\ \A d \in DOMAIN convos : convos'[d] = convos[d]
      /\ \A d \in DOMAIN convos' \ DOMAIN convos : convos'[d] = NewConversation
  <2>1. CASE new
    <3>1. convos' = Append(convos, NewConversation) /\ c = Len(convos) + 1
      BY <1>1, <2>1
    <3>. QED BY <1>2, <3>1
  <2>2. CASE ~new
    <3>1. convos' = convos /\ c = current[k] /\ current[k] # 0
      BY <1>1, <2>2
    <3>. QED BY <1>2, <1>3, <3>1
  <2>. QED BY <2>1, <2>2
<1>5. g \in Seq(TurnGoal) /\ DistinctIds(g)
  <2>1. CASE c \in DOMAIN convos
    BY <1>4, <2>1 DEF GoalsInv
  <2>2. CASE c \notin DOMAIN convos
    <3>1. g = <<>>
      BY <1>4, <2>2 DEF NewConversation
    <3>. QED BY <3>1 DEF DistinctIds
  <2>. QED BY <2>1, <2>2
<1>. HIDE DEF g, c, a, k
<1>6. /\ \A u \in Callers \ {t} : turns'[u] = turns[u]
      /\ turns'[t].goals = g /\ turns'[t].convo = c
  <2>1. /\ turns = [u \in Callers |-> turns[u]]
        /\ turns[t] = [at |-> turns[t].at, convo |-> turns[t].convo,
                       goals |-> turns[t].goals, plan |-> turns[t].plan]
    BY DEF TurnsInv, Shapes
  <2>. QED BY <1>1, <2>1
<1>7. Continues(turns'[t].goals, convos'[turns'[t].convo].goals)
  BY <1>6 DEF Continues, g
<1>8. turns'[t].goals \in Seq(TurnGoal) /\ DistinctIds(turns'[t].goals) /\ turns[t].at # "done"
  BY <1>1, <1>5, <1>6
<1>. QED BY <1>4, <1>6, <1>7, <1>8, MoveKeeps

\* The goals a turn states are added to those of its conversation.
LEMMA DeriveKeeps ==
    ASSUME TurnsInv, GoalsInv, NEW t \in Callers, Derive(t)
    PROVE  GoalsInv'
<1>. DEFINE new == StatedBy(t)
            old == turns[t].goals
            g == WithGoals(old, new)
            goals == convos[turns[t].convo].goals
<1>1. /\ turns[t].at = "deriving" /\ convos' = convos
      /\ turns' = [turns EXCEPT ![t].at = "planning", ![t].goals = g]
  <2>1. turns[t].goals = old
    OBVIOUS
  <2>2. /\ turns = [u \in Callers |-> turns[u]]
        /\ turns[t] = [at |-> turns[t].at, convo |-> turns[t].convo,
                       goals |-> turns[t].goals, plan |-> turns[t].plan]
    BY DEF TurnsInv, Shapes
  <2>. QED BY <2>2 DEF Derive
<1>2. Holds(t) /\ old \in Seq(TurnGoal) /\ DistinctIds(old) /\ Continues(old, goals)
  BY <1>1 DEF GoalsInv, Holds, Past, Ended
<1>3. new \in Seq(TurnGoal)
  <2>1. Stated[t] \in Seq(Nat)
    BY CallerAssumption
  <2>2. \A i \in DOMAIN Stated[t] : i \in Nat /\ Stated[t][i] \in Nat
    BY <2>1
  <2>3. \A i \in DOMAIN Stated[t] : [id |-> Stated[t][i], from |-> <<t, i>>] \in TurnGoal
    BY <2>2 DEF TurnGoal
  <2>4. DOMAIN Stated[t] = 1 .. Len(Stated[t]) /\ Len(Stated[t]) \in Nat
    BY <2>1
  <2>. QED BY <2>3, <2>4 DEF StatedBy
<1>. HIDE DEF new, old, goals
<1>4. g \in Seq(TurnGoal) /\ DistinctIds(g) /\ Continues(g, old)
  BY <1>2, <1>3, WithGoalsIs
<1>. HIDE DEF g
<1>5. Continues(g, goals)
  BY <1>2, <1>4 DEF Continues
<1>6. /\ \A u \in Callers \ {t} : turns'[u] = turns[u]
      /\ turns'[t].goals = g /\ turns'[t].convo = turns[t].convo
  <2>1. /\ turns = [u \in Callers |-> turns[u]]
        /\ turns[t] = [at |-> turns[t].at, convo |-> turns[t].convo,
                       goals |-> turns[t].goals, plan |-> turns[t].plan]
    BY DEF TurnsInv, Shapes
  <2>. QED BY <1>1, <2>1
<1>7. Continues(turns'[t].goals, convos'[turns'[t].convo].goals)
  BY <1>1, <1>5, <1>6 DEF goals
<1>8. turns'[t].goals \in Seq(TurnGoal) /\ DistinctIds(turns'[t].goals) /\ turns[t].at # "done"
  BY <1>1, <1>4, <1>6
<1>. QED BY <1>1, <1>6, <1>7, <1>8, MoveKeeps

\* A turn that is cancelled leaves no goals, whatever plan it leaves.
LEMMA CancelKeeps ==
    ASSUME TurnsInv, GoalsInv, NEW t \in Callers, Cancel(t)
    PROVE  GoalsInv'
<1>1. /\ turns[t].at \notin {"idle"} \cup Ended
      /\ turns' = [turns EXCEPT ![t].at = "cancelled", ![t].plan = NoPlan, ![t].goals = <<>>]
      /\ convos' = IF turns[t].at \in Executing
                   THEN [convos EXCEPT ![turns[t].convo] = Stash(convos[turns[t].convo], t)]
                   ELSE convos
  BY DEF Cancel
<1>2. /\ \A u \in Callers \ {t} : turns'[u] = turns[u]
      /\ turns'[t].at = "cancelled" /\ turns'[t].goals = <<>>
  <2>1. /\ turns = [u \in Callers |-> turns[u]]
        /\ turns[t] = [at |-> turns[t].at, convo |-> turns[t].convo,
                       goals |-> turns[t].goals, plan |-> turns[t].plan]
    BY DEF TurnsInv, Shapes
  <2>. QED BY <1>1, <2>1
<1>3. /\ DOMAIN convos' = DOMAIN convos
      /\ \A c \in DOMAIN convos :
            convos'[c].goals = convos[c].goals /\ convos'[c].turns = convos[c].turns
  <2>1. PICK S : convos \in Seq(S)
    BY DEF TurnsInv, Shapes
  <2>2. CASE turns[t].at \notin Executing
    BY <1>1, <2>2
  <2>3. CASE turns[t].at \in Executing
    <3>. DEFINE c == turns[t].convo
                n == Stash(convos[c], t)
    <3>1. c \in DOMAIN convos
      BY <2>3 DEF TurnsInv, Apart, Holds, Past, Executing, Ended
    <3>2. convos[c] = [goals |-> convos[c].goals, lastPlan |-> convos[c].lastPlan,
                       turns |-> convos[c].turns]
      BY <3>1 DEF TurnsInv, Shapes
    <3>3. n.goals = convos[c].goals /\ n.turns = convos[c].turns
      BY <3>2 DEF Stash
    <3>4. convos' = [convos EXCEPT ![c] = n]
      BY <1>1, <2>3
    <3>. HIDE DEF n, c
    <3>. QED BY <2>1, <3>1, <3>3, <3>4
  <2>. QED BY <2>2, <2>3
<1>4. /\ turns'[t].goals \in Seq(TurnGoal) /\ DistinctIds(turns'[t].goals)
      /\ turns[t].at # "done" /\ ~Past(turns'[t])
  <2>1. <<>> \in Seq(TurnGoal) /\ DistinctIds(<<>>)
    BY DEF DistinctIds
  <2>2. turns[t].at # "done" /\ ~Past(turns'[t])
    BY <1>1, <1>2 DEF Past, Ended
  <2>. QED BY <1>2, <2>1, <2>2
<1>. QED BY <1>2, <1>3, <1>4, MoveKeeps

\* A conversation absorbs the goals of the turn that ends; nobody else works in it.
LEMMA FinishKeeps ==
    ASSUME TurnsInv, GoalsInv, NEW t \in Callers, Finish(t), Holds(t)
    PROVE  GoalsInv'
<1>. DEFINE c == turns[t].convo
            session == turns[t].goals
            old == convos[c]
            o == Stash(old, t)
            g == Absorbed(old.goals, session)
            l == Append(old.turns, t)
            m == [o EXCEPT !.goals = g]
            n == [m EXCEPT !.turns = l]
<1>1. c \in DOMAIN convos
  BY DEF TurnsInv, Apart
<1>2. old = [goals |-> old.goals, lastPlan |-> old.lastPlan, turns |-> old.turns]
  BY <1>1 DEF TurnsInv, Shapes
<1>3. /\ turns = [u \in Callers |-> turns[u]]
      /\ turns[t] = [at |-> turns[t].at, convo |-> turns[t].convo,
                     goals |-> turns[t].goals, plan |-> turns[t].plan]
  BY DEF TurnsInv, Shapes
<1>4. /\ old.goals \in Seq(TurnGoal) /\ DistinctIds(old.goals) /\ old.turns \in Seq(Callers)
      /\ session \in Seq(TurnGoal) /\ DistinctIds(session) /\ Continues(session, old.goals)
      /\ \A i \in DOMAIN old.turns :
            /\ turns[old.turns[i]].at = "done" /\ Kept(turns[old.turns[i]].goals, old.goals)
            /\ old.turns[i] \in Callers
  BY <1>1 DEF GoalsInv
<1>5. o.goals = old.goals /\ o.turns = old.turns /\ DOMAIN o = {"goals", "lastPlan", "turns"}
  <2>. HIDE DEF old
  <2>. QED BY <1>2 DEF Stash
<1>6. /\ convos' = [convos EXCEPT ![c] = n]
      /\ turns' = [turns EXCEPT ![t].at = "done", ![t].plan = NoPlan]
  BY <1>5 DEF Finish
<1>7. n.goals = g /\ n.turns = l
  <2>. HIDE DEF g, l, o
  <2>1. m.goals = g /\ DOMAIN m = {"goals", "lastPlan", "turns"}
    BY <1>5
  <2>. HIDE DEF m
  <2>. QED BY <2>1
<1>. HIDE DEF n, m, o
<1>8. /\ \A u \in Callers \ {t} : turns'[u] = turns[u]
      /\ turns'[t].at = "done" /\ turns'[t].goals = session
  BY <1>3, <1>6
<1>9. /\ DOMAIN convos' = DOMAIN convos /\ convos'[c] = n
      /\ \A d \in DOMAIN convos \ {c} : convos'[d] = convos[d]
  <2>1. PICK S : convos \in Seq(S)
    BY DEF TurnsInv, Shapes
  <2>. HIDE DEF c
  <2>. QED BY <1>1, <1>6, <2>1
<1>. HIDE DEF c, session, old
<1>10. g \in Seq(TurnGoal) /\ DistinctIds(g) /\ Continues(g, old.goals) /\ Kept(session, g)
  BY <1>4, AbsorbedIs
<1>. HIDE DEF g
<1>11. ASSUME NEW u \in Callers, Past(turns'[u])
       PROVE  Continues(turns'[u].goals, convos'[turns'[u].convo].goals)
  <2>1. u # t /\ turns'[u] = turns[u] /\ Holds(u)
    BY <1>8, <1>11 DEF Past, Ended, Holds
  <2>2. turns[u].convo \in DOMAIN convos /\ turns[u].convo # c
    <3>1. ASSUME turns[u].convo = c PROVE FALSE
      <4>1. KeyOf[t] = KeyOf[u]
        BY <2>1, <3>1 DEF TurnsInv, Apart, c
      <4>2. PICK i \in DOMAIN queue[KeyOf[t]] : queue[KeyOf[t]][i] = t
        BY DEF TurnsInv, Queues, Holds, Past
      <4>3. PICK j \in DOMAIN queue[KeyOf[t]] : queue[KeyOf[t]][j] = u
        BY <2>1, <4>1 DEF TurnsInv, Queues, Holds, Past
      <4>4. i = 1 /\ j = 1
        BY <2>1, <4>2, <4>3, CallerAssumption DEF TurnsInv, Queues, Holds
      <4>. QED BY <2>1, <4>2, <4>3, <4>4
    <3>. QED BY <2>1, <3>1 DEF TurnsInv, Apart
  <2>. QED BY <1>9, <2>1, <2>2 DEF GoalsInv
<1>12. ASSUME NEW i \in DOMAIN l
       PROVE  l[i] \in Callers /\ turns'[l[i]].at = "done" /\ Kept(turns'[l[i]].goals, g)
  <2>1. CASE i \in DOMAIN old.turns
    <3>1. l[i] = old.turns[i]
      BY <1>4, <2>1
    <3>2. turns[l[i]].at = "done" /\ Kept(turns[l[i]].goals, old.goals) /\ l[i] \in Callers
      BY <1>4, <2>1, <3>1
    <3>3. l[i] # t
      BY <3>2 DEF Holds, Past, Ended
    <3>4. turns'[l[i]] = turns[l[i]]
      BY <1>8, <3>2, <3>3
    <3>5. Kept(turns[l[i]].goals, g)
      <4>1. \A j \in DOMAIN old.goals : j \in DOMAIN g /\ g[j] = old.goals[j]
        BY <1>10 DEF Continues
      <4>. QED BY <3>2, <4>1 DEF Kept
    <3>. QED BY <3>2, <3>4, <3>5
  <2>2. CASE i \notin DOMAIN old.turns
    <3>1. l[i] = t
      BY <1>4, <2>2
    <3>. QED BY <1>8, <1>10, <3>1
  <2>. QED BY <2>1, <2>2
<1>13. l \in Seq(Callers)
  BY <1>4
<1>. HIDE DEF l
<1>14. ASSUME NEW d \in DOMAIN convos'
       PROVE  /\ convos'[d].goals \in Seq(TurnGoal) /\ DistinctIds(convos'[d].goals)
              /\ convos'[d].turns \in Seq(Callers)
              /\ \A i \in DOMAIN convos'[d].turns :
                    /\ turns'[convos'[d].turns[i]].at = "done"
                    /\ Kept(turns'[convos'[d].turns[i]].goals, convos'[d].goals)
  <2>1. CASE d = c
    BY <1>7, <1>9, <1>10, <1>12, <1>13, <2>1
  <2>2. CASE d # c
    <3>1. convos'[d] = convos[d] /\ d \in DOMAIN convos
      BY <1>9, <2>2
    <3>2. \A i \in DOMAIN convos[d].turns :
             /\ convos[d].turns[i] \in Callers /\ turns[convos[d].turns[i]].at = "done"
             /\ Kept(turns[convos[d].turns[i]].goals, convos[d].goals)
      BY <3>1 DEF GoalsInv
    <3>3. \A i \in DOMAIN convos[d].turns : turns'[convos[d].turns[i]] = turns[convos[d].turns[i]]
      BY <1>8, <3>2 DEF Holds, Past, Ended
    <3>. QED BY <3>1, <3>2, <3>3 DEF GoalsInv
  <2>. QED BY <2>1, <2>2
<1>15. \A u \in Callers : turns'[u].goals \in Seq(TurnGoal) /\ DistinctIds(turns'[u].goals)
  <2>1. turns'[t].goals \in Seq(TurnGoal) /\ DistinctIds(turns'[t].goals)
    BY <1>4, <1>8
  <2>2. \A u \in Callers \ {t} : turns'[u].goals \in Seq(TurnGoal) /\ DistinctIds(turns'[u].goals)
    BY <1>8 DEF GoalsInv
  <2>. QED BY <2>1, <2>2
<1>. QED BY <1>11, <1>14, <1>15 DEF GoalsInv, Holds

\* What the steps that are not a turn's own do to the goals: none is touched.
LEMMA RestKeeps ==
    ASSUME TurnsInv, GoalsInv
    PROVE  /\ \A t \in Callers : Call(t) => GoalsInv'
           /\ StartOver => GoalsInv'
           /\ \A k \in Keys : CloseKey(k) => GoalsInv'
           /\ UNCHANGED <<turns, convos>> => GoalsInv'
<1>1. ASSUME NEW t \in Callers, Call(t) PROVE Quiet
  <2>1. turns[t].at = "idle" /\ turns' = [turns EXCEPT ![t].at = "waiting"] /\ convos' = convos
    BY <1>1 DEF Call, Moves
  <2>2. /\ \A u \in Callers \ {t} : turns'[u] = turns[u]
        /\ turns'[t].goals = turns[t].goals /\ turns'[t].convo = turns[t].convo
        /\ turns'[t].at = "waiting"
    <3>1. /\ turns = [u \in Callers |-> turns[u]]
          /\ turns[t] = [at |-> turns[t].at, convo |-> turns[t].convo,
                         goals |-> turns[t].goals, plan |-> turns[t].plan]
      BY DEF TurnsInv, Shapes
    <3>. QED BY <2>1, <3>1
  <2>. QED BY <2>1, <2>2 DEF Quiet, Past
<1>2. ASSUME StartOver PROVE GoalsInv'
  <2>1. convos' = Append(convos, NewConversation) /\ turns' = turns
    BY <1>2 DEF StartOver
  <2>2. PICK S : convos \in Seq(S)
    BY DEF TurnsInv, Shapes
  <2>3. /\ DOMAIN convos \subseteq DOMAIN convos'
        /\ \A c \in DOMAIN convos : convos'[c] = convos[c]
        /\ \A c \in DOMAIN convos' \ DOMAIN convos : convos'[c] = NewConversation
    BY <2>1, <2>2
  <2>4. \A t \in Callers : Holds(t) => turns[t].convo \in DOMAIN convos
    BY DEF TurnsInv, Apart
  <2>5. ASSUME NEW c \in DOMAIN convos'
        PROVE  /\ convos'[c].goals \in Seq(TurnGoal) /\ DistinctIds(convos'[c].goals)
               /\ convos'[c].turns \in Seq(Callers)
               /\ \A i \in DOMAIN convos'[c].turns :
                     /\ turns[convos'[c].turns[i]].at = "done"
                     /\ Kept(turns[convos'[c].turns[i]].goals, convos'[c].goals)
    <3>1. CASE c \in DOMAIN convos
      BY <2>3, <3>1 DEF GoalsInv
    <3>2. CASE c \notin DOMAIN convos
      <4>1. convos'[c].goals = <<>> /\ convos'[c].turns = <<>>
        BY <2>3, <3>2 DEF NewConversation
      <4>. QED BY <4>1 DEF DistinctIds
    <3>. QED BY <3>1, <3>2
  <2>6. \A t \in Callers : Holds(t) => Continues(turns[t].goals, convos'[turns[t].convo].goals)
    BY <2>3, <2>4 DEF GoalsInv
  <2>7. \A t \in Callers : turns[t].goals \in Seq(TurnGoal) /\ DistinctIds(turns[t].goals)
    BY DEF GoalsInv
  <2>. QED BY <2>1, <2>5, <2>6, <2>7 DEF GoalsInv, Holds
<1>3. ASSUME NEW k \in Keys, CloseKey(k) PROVE GoalsInv'
  <2>1. convos' = convos
    BY <1>3 DEF CloseKey
  <2>2. CASE ~(announced[k] /\ anchor[k] # NoTurn)
    <3>1. turns' = turns
      BY <1>3, <2>2 DEF CloseKey
    <3>2. Quiet
      BY <2>1, <3>1 DEF Quiet
    <3>. QED BY <3>2, QuietKeeps
  <2>3. CASE announced[k] /\ anchor[k] # NoTurn
    <3>. DEFINE t == anchor[k]
                p == [u \in Callers |-> IF turns[t].plan[u] = "PENDING" THEN "CANCELLED"
                                        ELSE turns[t].plan[u]]
    <3>1. t \in Callers
      BY <2>3 DEF TurnsInv, Shapes
    <3>2. turns' = [turns EXCEPT ![t].plan = p]
      BY <1>3, <2>3 DEF CloseKey
    <3>. HIDE DEF p, t
    <3>3. Quiet
      BY <2>1, <3>1, <3>2, UpdatesAreQuiet DEF TurnsInv
    <3>. QED BY <3>3, QuietKeeps
  <2>. QED BY <2>2, <2>3
<1>4. ASSUME UNCHANGED <<turns, convos>> PROVE Quiet
  BY <1>4 DEF Quiet
<1>. QED BY <1>1, <1>2, <1>3, <1>4, QuietKeeps

\* Every step preserves the invariant of the goals.
LEMMA GoalsInvStep == TurnsInv /\ GoalsInv /\ [Next]_vars => GoalsInv'
<1>. SUFFICES ASSUME TurnsInv, GoalsInv, [Next]_vars PROVE GoalsInv'
  OBVIOUS
<1>1. ASSUME NEW t \in Callers, TurnStep(t) PROVE GoalsInv'
  BY <1>1, GoalSteps, QuietKeeps, OpenKeeps, DeriveKeeps, FinishKeeps
<1>2. ASSUME NEW t \in Callers, Call(t) \/ Cancel(t) PROVE GoalsInv'
  BY <1>2, RestKeeps, CancelKeeps
<1>3. CASE TurnsNext
  <2>1. ASSUME Close PROVE GoalsInv'
    BY <2>1, RestKeeps DEF Close
  <2>. QED BY <1>1, <1>2, <1>3, <2>1, RestKeeps DEF TurnsNext
<1>4. CASE UNCHANGED turnVars
  BY <1>4, RestKeeps DEF turnVars
<1>5. CASE UNCHANGED vars
  BY <1>5, RestKeeps DEF vars
<1>. QED BY <1>3, <1>4, <1>5 DEF Next

\* Nobody has a goal at first.
LEMMA GoalsInvInit == Init => GoalsInv
<1>. SUFFICES ASSUME Init PROVE GoalsInv
  OBVIOUS
<1>1. turns = [t \in Callers |-> NewTurn] /\ convos = <<NewConversation>>
  BY DEF Init, TurnsInit
<1>2. \A t \in Callers : turns[t].goals = <<>> /\ ~Holds(t)
  BY <1>1 DEF NewTurn, Holds, Past
<1>3. \A c \in DOMAIN convos : convos[c].goals = <<>> /\ convos[c].turns = <<>>
  BY <1>1 DEF NewConversation
<1>4. <<>> \in Seq(TurnGoal) /\ DistinctIds(<<>>) /\ <<>> \in Seq(Callers)
  BY DEF DistinctIds
<1>5. \A t \in Callers : /\ turns[t].goals \in Seq(TurnGoal) /\ DistinctIds(turns[t].goals)
                          /\ ~Holds(t)
  BY <1>2, <1>4
<1>6. ASSUME NEW c \in DOMAIN convos
      PROVE  /\ convos[c].goals \in Seq(TurnGoal) /\ DistinctIds(convos[c].goals)
             /\ convos[c].turns \in Seq(Callers) /\ DOMAIN convos[c].turns = {}
  <2>1. convos[c].goals = <<>> /\ convos[c].turns = <<>>
    BY <1>3
  <2>2. DOMAIN <<>> = {}
    OBVIOUS
  <2>. QED BY <1>4, <2>1, <2>2
<1>. QED BY <1>5, <1>6 DEF GoalsInv

\* No goal is lost when two turns use the same id for theirs.
THEOREM GoalsKeptHolds == Spec => []GoalsKept
<1>1. TurnsInv /\ GoalsInv => GoalsKept
  BY DEF GoalsInv, GoalsKept, Kept, DistinctIds
<1>. QED BY <1>1, GoalsInvInit, GoalsInvStep, TurnsInvInit, TurnsInvStep, PTL DEF Spec
=============================================================================
