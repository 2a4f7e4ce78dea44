----------------------------- MODULE SerialTurns ----------------------------
(***************************************************************************)
(* What Runner.run promises to the callers of one conversation: its turns  *)
(* work one at a time, each from the plan the one before left, and a turn  *)
(* that reached its executor leaves its plan however it ends.  Turns of    *)
(* different conversations do not see each other.  There is no lock here,  *)
(* no key and no queue: Turns implements this with them.                   *)
(***************************************************************************)
CONSTANTS
    Callers,
    Conversations,
    Plans,
    NoPlan,         \* the plan without tasks
    NoConversation

VARIABLES
    work,           \* what each turn works on
    carried         \* the plan each conversation goes on from

Resting == [convo |-> NoConversation, stage |-> "resting", plan |-> NoPlan]

Init ==
    /\ work = [t \in Callers |-> Resting]
    /\ carried = [c \in Conversations |-> NoPlan]

Begin(t, c) ==
    /\ \A u \in Callers : work[u].convo # c
    /\ work[t] = Resting
    /\ work' = [work EXCEPT ![t] = [convo |-> c, stage |-> "planning", plan |-> carried[c]]]
    /\ UNCHANGED carried

\* The turn, or a close, changes the plan; the turn may reach its executor.
Work(t) ==
    /\ work[t] # Resting
    /\ work'[t].plan \in Plans
    /\ work'[t].stage \in {work[t].stage, "executing"}
    /\ work' = [work EXCEPT ![t].plan = work'[t].plan, ![t].stage = work'[t].stage]
    /\ UNCHANGED carried

Leaves(t) == carried' = [carried EXCEPT ![work[t].convo] = work[t].plan]

\* Only a turn that ends before its executor may leave its plan behind.
End(t) ==
    /\ work[t] # Resting
    /\ work' = [work EXCEPT ![t] = Resting]
    /\ \/ work[t].plan # NoPlan /\ Leaves(t)
       \/ (work[t].plan = NoPlan \/ work[t].stage = "planning") /\ UNCHANGED carried

Next == \E t \in Callers : (\E c \in Conversations : Begin(t, c)) \/ Work(t) \/ End(t)

Spec == Init /\ [][Next]_<<work, carried>>
=============================================================================
