------------------------------- MODULE Turns --------------------------------
(***************************************************************************)
(* Runner.run and the conversations it keeps (runner.py, conversation.py). *)
(* Each call of run is one turn of the conversation of its key: the id of  *)
(* the outer session, or Unpinned.  Turns of one key go through a lock in  *)
(* the order they came; turns of different keys interleave at every await, *)
(* and any of them may be cancelled while it waits.                        *)
(*                                                                         *)
(* A plan has one task for each turn that planned work: what matters is    *)
(* which turns' work a plan carries, and how far it is.                    *)
(***************************************************************************)
EXTENDS Naturals, Sequences, FiniteSets

CONSTANTS
    Callers,        \* the calls of run
    Keys,           \* outer session ids, and Unpinned
    Unpinned,       \* the key of unpinned calls
    KeyOf,          \* the key of each call
    Stated,         \* the ids of the goals each call states; 0 is no id
    MaxConversations,
    FailFast,       \* fail_fast_on_revision_rejection
    NoTurn

ASSUME CallerAssumption ==
    /\ KeyOf \in [Callers -> Keys] /\ Unpinned \in Keys
    /\ Stated \in [Callers -> Seq(Nat)]
    /\ NoTurn \notin Callers
\* Bound: each key can have a conversation.
ASSUME ConversationAssumption ==
    /\ IsFiniteSet(Keys)
    /\ MaxConversations \in Nat /\ Cardinality(Keys) <= MaxConversations

VARIABLES
    turns,          \* for each call where it is, and its session
    queue,          \* for each key the turns at its lock; the first holds it
    convos,         \* the conversations made so far
    current,        \* _conversations: for each key its conversation, 0 for none
    announced,      \* _conversation_announced
    anchor,         \* _last_session_by_key
    closed,         \* _closed
    closing         \* the keys close has still to end

turnVars == <<turns, queue, convos, current, announced, anchor, closed, closing>>

Ended == {"done", "cancelled"}
Executing == {"executing", "executor_aborting"}
Unseeded == {"idle", "waiting", "announcing", "starting"} \cup Ended

NoPlan == [t \in Callers |-> "ABSENT"]
Adding(p, t) == [p EXCEPT ![t] = "PENDING"]
Pending(p) == {t \in Callers : p[t] = "PENDING"}

NewConversation == [goals |-> <<>>, lastPlan |-> NoPlan, turns |-> <<>>]
NewTurn == [at |-> "idle", convo |-> 0, goals |-> <<>>, plan |-> NoPlan]

TurnsInit ==
    /\ turns = [t \in Callers |-> NewTurn]
    /\ queue = [k \in Keys |-> <<>>]
    /\ convos = <<NewConversation>>
    /\ current = [k \in Keys |-> IF k = Unpinned THEN 1 ELSE 0]
    /\ announced = [k \in Keys |-> FALSE]
    /\ anchor = [k \in Keys |-> NoTurn]
    /\ closed = FALSE
    /\ closing = {}

-----------------------------------------------------------------------------
(***************************************************************************)
(* Goals: those of the conversation come first, and a new one whose id is  *)
(* taken gets the next free one.                                           *)
(***************************************************************************)

GoalIds(goals) == {goals[i].id : i \in DOMAIN goals} \ {0}
StatedBy(t) == [i \in DOMAIN Stated[t] |-> [id |-> Stated[t][i], from |-> <<t, i>>]]

\* Mutant: the goals are appended under the ids they came with.
WithGoalsAsStated(goals, new) == goals \o new

\* The first free id from n on.
FreeId(n, taken) ==
    CHOOSE k \in n .. n + Cardinality(taken) : k \notin taken /\ \A j \in n .. k - 1 : j \in taken

\* One new goal, and where the search for a free id goes on.
WithGoal(sofar, goal) ==
    LET taken == GoalIds(sofar.goals)
        id == IF goal.id \in taken THEN FreeId(sofar.next, taken) ELSE goal.id
        past == IF id # goal.id THEN id + 1 ELSE sofar.next
        count == Len(sofar.goals) + 2
    IN  [goals |-> Append(sofar.goals, [goal EXCEPT !.id = id]),
         next |-> IF id # 0 /\ count > past THEN count ELSE past]

WithGoals(goals, new) ==
    LET upTo[n \in 0 .. Len(new)] ==
            IF n = 0 THEN [goals |-> goals, next |-> Len(goals) + 1]
            ELSE WithGoal(upTo[n - 1], new[n])
    IN  upTo[Len(new)].goals

\* absorb_turn: a goal is left out if there is one under its id by then.
Absorb(goals, goal) ==
    IF goal.id # 0 /\ goal.id \in GoalIds(goals) THEN goals ELSE Append(goals, goal)

Absorbed(goals, session) ==
    LET upTo[n \in 0 .. Len(session)] ==
            IF n = 0 THEN goals ELSE Absorb(upTo[n - 1], session[n])
    IN  upTo[Len(session)]

-----------------------------------------------------------------------------
(***************************************************************************)
(* The end of a turn.  What close still does to the plan of a session that *)
(* is over is not followed: no later turn reads it.                        *)
(***************************************************************************)

\* The queue without t, which is in it once.
Without(s, t) ==
    LET i == CHOOSE j \in DOMAIN s : s[j] = t
    IN  [j \in 1 .. Len(s) - 1 |-> IF j < i THEN s[j] ELSE s[j + 1]]
Release(t) == queue' = [queue EXCEPT ![KeyOf[t]] = Without(@, t)]

\* Mutant: the plan of a turn is not kept.
StashNothing(c, t) == c

\* stash_plan: a plan without tasks does not replace the one there is.
Stash(c, t) ==
    IF turns[t].plan = NoPlan THEN c ELSE [c EXCEPT !.lastPlan = turns[t].plan]

\* absorb_turn, which stashes the plan again, and the release of the lock.
Finish(t) ==
    LET c == turns[t].convo
        stashed == Stash(convos[c], t)
    IN  /\ convos' = [convos EXCEPT ![c] =
              [stashed EXCEPT !.goals = Absorbed(@, turns[t].goals), !.turns = Append(@, t)]]
        /\ turns' = [turns EXCEPT ![t].at = "done", ![t].plan = NoPlan]
        /\ Release(t)
        /\ UNCHANGED <<current, announced, anchor, closed, closing>>

\* _abort_turn after RunAborted was emitted.
Aborted(t) == turns[t].at \in {"aborting", "executor_aborting"} /\ Finish(t)

\* A cancellation at any await.  Only the executor's finally stashes the plan;
\* nothing absorbs the turn.  The lock is released, or its queue left.
Cancel(t) ==
    /\ turns[t].at \notin {"idle"} \cup Ended
    /\ Release(t)
    /\ turns' = [turns EXCEPT ![t].at = "cancelled", ![t].plan = NoPlan, ![t].goals = <<>>]
    /\ convos' = IF turns[t].at \in Executing
                  THEN [convos EXCEPT ![turns[t].convo] = Stash(@, t)] ELSE convos
    /\ UNCHANGED <<current, announced, anchor, closed, closing>>

-----------------------------------------------------------------------------
(***************************************************************************)
(* _run_locked, from one await to the next.                                *)
(***************************************************************************)

Moves(t, to) == turns' = [turns EXCEPT ![t].at = to]
Only(t, from, to) ==
    /\ turns[t].at = from /\ Moves(t, to)
    /\ UNCHANGED <<queue, convos, current, announced, anchor, closed, closing>>

\* run: the turn queues at the lock of its key.
Call(t) ==
    /\ turns[t].at = "idle"
    /\ Moves(t, "waiting")
    /\ queue' = [queue EXCEPT ![KeyOf[t]] = Append(@, t)]
    /\ UNCHANGED <<convos, current, announced, anchor, closed, closing>>

\* With the lock: _conversation_for and next_turn_session, and the session is
\* the key's last.
Open(t) ==
    LET k == KeyOf[t]
        new == current[k] = 0
        c == IF new THEN Len(convos) + 1 ELSE current[k]
    IN  /\ turns[t].at = "waiting" /\ Head(queue[k]) = t
        /\ convos' = IF new THEN Append(convos, NewConversation) ELSE convos
        /\ current' = [current EXCEPT ![k] = c]
        /\ announced' = [announced EXCEPT ![k] = ~new /\ @]
        /\ anchor' = [anchor EXCEPT ![k] = t]
        /\ turns' = [turns EXCEPT ![t].at = IF announced'[k] THEN "starting" ELSE "announcing",
                                  ![t].convo = c, ![t].goals = convos'[c].goals]
        /\ UNCHANGED <<queue, closed, closing>>

\* ConversationStarted was emitted; the key counts as announced, whatever
\* conversation it has by now.
Announce(t) ==
    /\ turns[t].at = "announcing"
    /\ announced' = [announced EXCEPT ![KeyOf[t]] = TRUE]
    /\ Moves(t, "starting")
    /\ UNCHANGED <<queue, convos, current, anchor, closed, closing>>

\* RunStarted was emitted; the session starts from the conversation's plan
\* (prior_plan_for: a conversation has one key, so its session ids agree).
Seed(t) ==
    LET p == convos[turns[t].convo].lastPlan IN
    /\ turns[t].at = "starting"
    /\ turns' = [turns EXCEPT ![t].at = "deriving", ![t].plan = p]
    /\ UNCHANGED <<queue, convos, current, announced, anchor, closed, closing>>

\* _resolve_goals and GoalDerived.
Derive(t) ==
    /\ turns[t].at = "deriving"
    /\ turns' = [turns EXCEPT ![t].at = "planning", ![t].goals = WithGoals(@, StatedBy(t))]
    /\ UNCHANGED <<queue, convos, current, announced, anchor, closed, closing>>
DeriveFails(t) == Only(t, "deriving", "aborting")

\* The planner's handle_turn decides: to evolve the plan, to start over, or to
\* leave the plan as it is, if there is one.  Without a gate, or when it raises,
\* and when it leaves an empty plan, generate is asked.
Decide(t, answer) ==
    Only(t, "planning",
         IF answer = "none" THEN IF turns[t].plan = NoPlan THEN "generating" ELSE "binding"
         ELSE IF answer = "raises" THEN "generating" ELSE answer)

\* generate answers with a plan, with nothing or with an error.
Generate(t, answer) ==
    Only(t, "generating",
         IF answer = "raises" THEN "aborting"
         ELSE IF answer = "plan" THEN "evolving"
         ELSE IF turns[t].plan = NoPlan THEN "aborting" ELSE "binding")

\* _install_revision: a first plan and a pivot replace the plan, a revision adds
\* to it.
InstallPlan(t) ==
    /\ turns[t].at \in {"evolving", "pivoting"}
    /\ turns' = [turns EXCEPT ![t].at = "binding",
                              ![t].plan = Adding(IF turns[t].at = "pivoting" THEN NoPlan ELSE @, t)]
    /\ UNCHANGED <<queue, convos, current, announced, anchor, closed, closing>>

\* The plan is rejected: the turn goes on with the one it has, even an empty one.
InstallFails(t) ==
    \E from \in {"evolving", "pivoting"} :
        Only(t, from, IF FailFast THEN "aborting" ELSE "binding")

Bind(t) == Only(t, "binding", "executing")
BindFails(t) == Only(t, "binding", "aborting")

\* The executor completes what is pending, in any order.
Execute(t) ==
    \E u \in Pending(turns[t].plan) :
        /\ turns[t].at = "executing"
        /\ turns' = [turns EXCEPT ![t].plan[u] = "COMPLETED"]
        /\ UNCHANGED <<queue, convos, current, announced, anchor, closed, closing>>

\* It returns, with tasks left or none; or it raises.
Return(t) == turns[t].at = "executing" /\ Finish(t)
ExecutorRaises(t) == Only(t, "executing", "executor_aborting")

TurnStep(t) ==
    \/ Open(t) \/ Announce(t) \/ Seed(t) \/ Derive(t) \/ DeriveFails(t)
    \/ \E answer \in {"evolving", "pivoting", "none", "raises"} : Decide(t, answer)
    \/ \E answer \in {"plan", "none", "raises"} : Generate(t, answer)
    \/ InstallPlan(t) \/ InstallFails(t) \/ Bind(t) \/ BindFails(t)
    \/ Execute(t) \/ Return(t) \/ ExecutorRaises(t) \/ Aborted(t)

-----------------------------------------------------------------------------
(***************************************************************************)
(* What takes no lock.                                                     *)
(***************************************************************************)

\* new_conversation, once ConversationEnded was emitted for each: all keys start
\* afresh, also those with a turn under way, which keeps its lock.
StartOver ==
    /\ Len(convos) + Cardinality(Keys) <= MaxConversations
    /\ convos' = Append(convos, NewConversation)
    /\ current' = [k \in Keys |-> IF k = Unpinned THEN Len(convos) + 1 ELSE 0]
    /\ announced' = [k \in Keys |-> FALSE]
    /\ anchor' = [k \in Keys |-> NoTurn]
    /\ UNCHANGED <<turns, queue, closed, closing>>

\* close, the first call only: for each conversation that was announced, what its
\* last session has pending is cancelled, even under a turn that works on it.
Close ==
    /\ ~closed
    /\ closed' = TRUE
    /\ closing' = {k \in Keys : current[k] # 0}
    /\ UNCHANGED <<turns, queue, convos, current, announced, anchor>>

CloseKey(k) ==
    /\ k \in closing
    /\ closing' = closing \ {k}
    /\ IF announced[k] /\ anchor[k] # NoTurn
       THEN /\ turns' = [turns EXCEPT ![anchor[k]].plan =
                  [u \in Callers |-> IF @[u] = "PENDING" THEN "CANCELLED" ELSE @[u]]]
            /\ announced' = [announced EXCEPT ![k] = FALSE]
       ELSE UNCHANGED <<turns, announced>>
    /\ UNCHANGED <<queue, convos, current, anchor, closed>>

TurnsNext ==
    \/ \E t \in Callers : Call(t) \/ Cancel(t) \/ TurnStep(t)
    \/ StartOver \/ Close \/ \E k \in Keys : CloseKey(k)

-----------------------------------------------------------------------------
(***************************************************************************)
(* Properties.                                                             *)
(***************************************************************************)

Serial == INSTANCE SerialTurns WITH
    Conversations <- 1 .. MaxConversations,
    Plans <- [Callers -> {"ABSENT", "PENDING", "COMPLETED", "CANCELLED"}],
    NoConversation <- 0,
    work <- [t \in Callers |->
        IF turns[t].at \in Unseeded
        THEN [convo |-> 0, stage |-> "resting", plan |-> NoPlan]
        ELSE [convo |-> turns[t].convo,
              stage |-> IF turns[t].at \in Executing THEN "executing" ELSE "planning",
              plan |-> turns[t].plan]],
    carried <- [c \in 1 .. MaxConversations |->
        IF c \in DOMAIN convos THEN convos[c].lastPlan ELSE NoPlan]

\* The lock of each key makes the turns of a conversation serial, through errors,
\* cancellations, close and new_conversation: a turn starts from the plan the
\* last one left, no other turn leaves a plan while it works, and a turn that
\* reached its executor leaves its plan however it ends: the comment on
\* self._convo_locks in Runner.__init__ and on the finally clause around
\* executor.run.
TurnsAreSerial == Serial!Spec

\* No goal is lost when two turns use the same id for theirs: the conversation
\* has each goal of a turn it absorbed, and no two under one id.
GoalsKept ==
    \A c \in DOMAIN convos :
        LET goals == convos[c].goals IN
        /\ \A i \in DOMAIN convos[c].turns :
              LET session == turns[convos[c].turns[i]].goals
              IN  \A n \in DOMAIN session : \E m \in DOMAIN goals : goals[m].from = session[n].from
        /\ \A m, n \in DOMAIN goals : goals[m].id = goals[n].id /\ goals[m].id # 0 => m = n
=============================================================================
