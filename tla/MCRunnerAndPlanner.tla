------------------------- MODULE MCRunnerAndPlanner -------------------------
(* TLC instances of RunnerAndPlanner. *)
EXTENDS RunnerAndPlanner, TLC

CONSTANTS t1, t2, t3, key, a, b, r

TwoTurnsOfOne == t1 :> Unpinned @@ t2 :> Unpinned @@ t3 :> key
GoalsStated == t1 :> <<1, 2>> @@ t2 :> <<1, 2>> @@ t3 :> <<1>>

\* The two turns of one conversation are interchangeable.
SameTurns == Permutations({t1, t2})

\* The id of r says that it is a retry of a.
Names == a :> NoTask @@ b :> NoTask @@ r :> a

\* A plan of a, b and r in which r supersedes `of`.
P(sa, sb, sr, edges, of, correct) ==
    [status |-> a :> sa @@ b :> sb @@ r :> sr, edges |-> edges,
     supersedes |-> a :> NoTask @@ b :> NoTask @@ r :> of, correct |-> correct]

Chain == P("PENDING", "PENDING", "ABSENT", {<<a, b>>}, NoTask, {})
Seeds == {NoTasks, Chain}
Proposals ==
    {Chain,
     P("COMPLETED", "PENDING", "ABSENT", {<<a, b>>}, NoTask, {}),
     P("FAILED", "PENDING", "ABSENT", {}, NoTask, {}),
     P("PENDING", "PENDING", "PENDING", {<<a, b>>, <<b, a>>}, NoTask, {}),
     P("FAILED", "PENDING", "PENDING", {<<r, b>>}, r, {r}),
     P("ABSENT", "PENDING", "PENDING", {<<r, b>>}, a, {}),
     P("COMPLETED", "PENDING", "PENDING", {<<a, b>>}, a, {}),
     [P("COMPLETED", "PENDING", "PENDING", {<<a, b>>, <<a, r>>}, a, {b, r})
        EXCEPT !.supersedes[b] = a]}
=============================================================================
