------------------------------ MODULE ToolLoops -----------------------------
(***************************************************************************)
(* ToolLoopTracker of drift/tool_loops.py: the last calls of an agent, in  *)
(* a window of fixed size, are classified after every call.  A report of   *)
(* progress empties the window of its agent, and the end of a pass, which  *)
(* is one invocation of the tree, those of all agents.                     *)
(***************************************************************************)
EXTENDS Naturals, Sequences, FiniteSets, SequencesExt

CONSTANTS
    LoopAgents,       \* the agents whose calls are tracked
    WorkTools,        \* tools of the category "work"
    MetaTools,        \* tools of the category "meta"
    ToolCalls,        \* the calls that are made: a tool and the hash of its arguments
    WindowSize,       \* the size of the window
    WorkTiers,        \* WorkTiers[severity][axis]: a count, 0 for an axis that is off
    MetaTiers,        \* the same for the category "meta"
    NameCap,          \* name_axis_max_severity
    Alternating,      \* alternating_threshold
    MaxCalls          \* bound on the calls of all agents that are remembered

Tiers == <<"critical", "warning", "info">>       \* in the order they are tried
TierRank(s) == CHOOSE i \in 1 .. 4 : <<"critical", "warning", "info", "none">>[i] = s

\* The counts of the tiers are numbers; the critical ones are constants of the code,
\* and no single call is a loop.
ASSUME LoopAssumption ==
    /\ \A tiers \in {WorkTiers, MetaTiers} :
          /\ \A i \in 1 .. 3 : tiers[Tiers[i]].exact \in Nat /\ tiers[Tiers[i]].name \in Nat
          /\ tiers["critical"].exact >= 2
    /\ WindowSize \in Nat \ {0} /\ Alternating \in Nat \ {0} /\ MaxCalls \in Nat
    /\ WorkTools \cap MetaTools = {}
    /\ \A call \in ToolCalls : call = <<call[1], call[2]>> /\ call[1] \in WorkTools \cup MetaTools
    /\ NameCap \in {"critical", "warning", "info"}

VARIABLES
    buffer,     \* _buffers: the last calls of each agent
    severity,   \* what the last call of each agent was classified as
    since       \* history: all calls of each agent in this pass since its last progress

loops == <<buffer, severity, since>>

Args == {call[2] : call \in ToolCalls}

LoopInit ==
    /\ buffer = [a \in LoopAgents |-> <<>>]
    /\ severity = [a \in LoopAgents |-> "none"]
    /\ since = [a \in LoopAgents |-> <<>>]

-----------------------------------------------------------------------------
(***************************************************************************)
(* _classify.                                                              *)
(***************************************************************************)

CountOf(buf, call) == Cardinality({i \in DOMAIN buf : buf[i] = call})
NameCount(buf, tool) == Cardinality({i \in DOMAIN buf : buf[i][1] = tool})

\* The count of the call that is repeated most among those of the tool.
ExactCount(buf, tool) ==
    LET counts == {CountOf(buf, <<tool, x>>) : x \in Args}
    IN  CHOOSE n \in counts : \A k \in counts : k <= n

\* _thresholds_for_tool
TiersOf(tool) == IF tool \in MetaTools THEN MetaTiers ELSE WorkTiers

HitExact(buf, tool, tier) ==
    LET limit == TiersOf(tool)[tier].exact IN limit # 0 /\ ExactCount(buf, tool) >= limit
HitName(buf, tool, tier) ==
    LET limit == TiersOf(tool)[tier].name IN limit # 0 /\ NameCount(buf, tool) >= limit

\* A hit by name alone is capped, unless some call was repeated exactly.
Emitted(buf, tool, tier) ==
    IF /\ ~HitExact(buf, tool, tier)
       /\ ExactCount(buf, tool) < 2
       /\ TierRank(tier) < TierRank(NameCap)
    THEN NameCap ELSE tier

\* The most severe of the tiers a tool hits, after the cap.
ToolSeverity(buf, tool) ==
    LET hits == {Emitted(buf, tool, tier) : tier \in
                    {t \in ToSet(Tiers) : HitExact(buf, tool, t) \/ HitName(buf, tool, t)}}
                \cup {"none"}
    IN  CHOOSE s \in hits : \A r \in hits : TierRank(s) <= TierRank(r)

\* Two tools by turns, to the end of the window.
Alternates(buf) ==
    /\ Len(buf) >= Alternating
    /\ LET tail == SubSeq(buf, Len(buf) - Alternating + 1, Len(buf))
           names == [i \in 1 .. Alternating |-> tail[i][1]]
       IN  /\ Cardinality(Range(names)) = 2
           /\ \A i \in 1 .. Alternating - 1 : names[i] # names[i + 1]

\* One observation per call: the most severe over the tools in the window, and
\* the alternation only if there is none.
Classify(buf) ==
    LET all == {ToolSeverity(buf, tool) : tool \in {buf[i][1] : i \in DOMAIN buf}}
        worst == CHOOSE s \in all : \A r \in all : TierRank(s) <= TierRank(r)
    IN  IF worst = "none" /\ Alternates(buf) THEN "info" ELSE worst

-----------------------------------------------------------------------------

\* Mutant: the window loses one place.
PushShort(buf, call) ==
    IF Len(buf) < WindowSize - 1 THEN Append(buf, call) ELSE Append(Tail(buf), call)

\* deque(maxlen=window)
Push(buf, call) ==
    IF Len(buf) < WindowSize THEN Append(buf, call) ELSE Append(Tail(buf), call)

SumCalls == MapThenSumSet(LAMBDA b : Len(since[b]), LoopAgents)

ObserveToolCall(a, call) ==
    /\ SumCalls < MaxCalls
    /\ buffer' = [buffer EXCEPT ![a] = Push(@, call)]
    /\ severity' = [severity EXCEPT ![a] = Classify(Push(buffer[a], call))]
    /\ since' = [since EXCEPT ![a] = Append(@, call)]

\* on_task_progress: the window of this agent is emptied.
OnTaskProgress(a) ==
    /\ buffer' = [buffer EXCEPT ![a] = <<>>]
    /\ since' = [since EXCEPT ![a] = <<>>]
    /\ severity' = [severity EXCEPT ![a] = "none"]

\* clear, by clear_active_context in the finally of every pass: also when the run
\* goes on with another one.
Clear ==
    /\ buffer' = [a \in LoopAgents |-> <<>>]
    /\ since' = [a \in LoopAgents |-> <<>>]
    /\ severity' = [a \in LoopAgents |-> "none"]

LoopNext ==
    \/ \E a \in LoopAgents :
          OnTaskProgress(a) \/ \E call \in ToolCalls : ObserveToolCall(a, call)
    \/ Clear

-----------------------------------------------------------------------------
(***************************************************************************)
(* Properties.                                                             *)
(***************************************************************************)

\* How many times the agent's last call was made in a row.
Streak(a) ==
    LET calls == since[a]
        n == Len(calls)
    IN  Cardinality({i \in 1 .. n : \A j \in i .. n : calls[j] = calls[n]})

\* A call that is repeated without end and without progress, in one pass, is
\* critical by the time its count reaches the limit, whatever was in the window
\* before it: if the window can hold that many calls, neither it nor the choice
\* among tools hides it.  Calls of a pass that has ended are forgotten: a loop that
\* goes on over a restart or a replay is counted from one again.
LoopsCaught ==
    \A a \in LoopAgents : since[a] # <<>> =>
        LET tool == since[a][Len(since[a])][1]
            limit == TiersOf(tool)["critical"].exact
        IN  limit <= WindowSize /\ Streak(a) >= limit => severity[a] = "critical"

\* A critical loop is real: in this pass and since its last progress the agent has
\* called one tool that often, and it has repeated itself exactly at least once.
\* Calls with different arguments, calls of others and calls from before, also of
\* another pass, do not add up.
CriticalIsReal ==
    \A a \in LoopAgents : severity[a] = "critical" /\ NameCap # "critical" =>
        \E call \in ToSet(since[a]) :
            /\ CountOf(since[a], call) >= 2
            /\ \/ CountOf(since[a], call) >= TiersOf(call[1])["critical"].exact
               \/ /\ TiersOf(call[1])["critical"].name # 0
                  /\ NameCount(since[a], call[1]) >= TiersOf(call[1])["critical"].name

\* The tracker calls a loop critical where it is one, and only there.
LoopsToldApart == LoopsCaught /\ CriticalIsReal
=============================================================================
