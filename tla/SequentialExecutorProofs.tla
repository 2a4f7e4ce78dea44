---------------------- MODULE SequentialExecutorProofs ----------------------
(***************************************************************************)
(* No control message is forgotten by the per-task loop: the proof of      *)
(* SequentialExecutor's MessagesKept, for any plan, any kinds of messages, *)
(* and any number of messages, revisions and invocations.                  *)
(*                                                                         *)
(* The channel is first in, first out, and the loop and recv_task take     *)
(* from its head.  So the inbox always holds the latest messages, in a     *)
(* row, and a message that is taken comes after all that were taken        *)
(* before: that is why a new steer may overwrite the one to be applied.    *)
(***************************************************************************)
EXTENDS SequentialExecutor, FiniteSetTheorems, TLAPS

\* How many messages were taken from the inbox.
Taken == Len(sent) - Len(inbox)

Ending == {"end", "aborting", "aborted", "completing", "completed"}

Drains == [cancel : BOOLEAN, paused : BOOLEAN, deadline : BOOLEAN]

Shapes ==
    /\ \E S : sent \in Seq(S)
    /\ inbox \in Seq(Nat)
    /\ drained \in Drains

\* The inbox holds the messages that were not taken, in order.
InboxInOrder ==
    /\ Len(inbox) <= Len(sent)
    /\ \A i \in 1 .. Len(inbox) : inbox[i] = Taken + i

\* A message that was taken is held, acknowledged or lost; only the last one
\* taken is held, and only while the invocation and recv_task are awaited.
TakenAccounted ==
    /\ held \in {NoMsg, Taken}
    /\ acked \cup lost = (1 .. Taken) \ {held}
    /\ acked \cap lost = {}
    /\ held # NoMsg => pc = "invoking"

\* The drain collects a cancellation only between tasks, and an acknowledged
\* STEER is applied, about to be, overtaken by a later one, or too late.
SteersKept ==
    /\ drained.cancel => pc = "drain"
    /\ \A m \in acked : Kind(m) = "STEER" =>
          \/ drained.cancel
          \/ pc \in Ending
          \/ \E n \in applied \cup {steer} : n >= m

MessageInv == Shapes /\ InboxInOrder /\ TakenAccounted /\ SteersKept

-----------------------------------------------------------------------------
\* At the start nothing was sent.
LEMMA MessageInit == Init => MessageInv
<1> SUFFICES ASSUME Init PROVE MessageInv
  OBVIOUS
<1>1. sent \in Seq({}) /\ inbox \in Seq(Nat) /\ Len(sent) = 0 /\ Len(inbox) = 0
  BY DEF Init
<1>2. Shapes
  BY <1>1 DEF Init, Shapes, Drains, NothingDrained
<1>3. InboxInOrder
  BY <1>1 DEF InboxInOrder
<1>4. TakenAccounted
  BY <1>1 DEF TakenAccounted, Taken, Init, NoMsg
<1>5. SteersKept
  BY DEF SteersKept, Init, NothingDrained
<1> QED
  BY <1>2, <1>3, <1>4, <1>5 DEF MessageInv

\* What the invariant says of the numbers.
LEMMA TakenType ==
    ASSUME MessageInv
    PROVE  /\ Len(sent) \in Nat /\ Len(inbox) \in Nat /\ Taken \in Nat
           /\ Taken <= Len(sent)
           /\ acked \subseteq 1 .. Taken
<1>1. Len(sent) \in Nat
  BY DEF MessageInv, Shapes
<1>2. Len(inbox) \in Nat
  BY DEF MessageInv, Shapes
<1>3. Taken \in Nat /\ Taken <= Len(sent)
  BY <1>1, <1>2 DEF MessageInv, InboxInOrder, Taken
<1>4. acked \subseteq 1 .. Taken
  BY DEF MessageInv, TakenAccounted
<1> QED
  BY <1>1, <1>2, <1>3, <1>4

\* The head of the inbox is the first message that was not taken, and the rest
\* of the inbox is still in order.
LEMMA HeadOfInbox ==
    ASSUME MessageInv, inbox # <<>>, inbox' = Tail(inbox), sent' = sent
    PROVE  /\ Head(inbox) = Taken + 1
           /\ Taken' = Taken + 1
           /\ Taken + 1 <= Len(sent)
           /\ inbox' \in Seq(Nat)
           /\ InboxInOrder'
<1>1. inbox \in Seq(Nat) /\ Len(inbox) \in Nat
  BY DEF MessageInv, Shapes
<1>2. Len(sent) \in Nat
  BY DEF MessageInv, Shapes
<1>3. Len(inbox) # 0
  BY <1>1
<1>4. Head(inbox) = inbox[1] /\ 1 \in 1 .. Len(inbox)
  BY <1>1, <1>3
<1>5. Head(inbox) = Taken + 1
  BY <1>4 DEF MessageInv, InboxInOrder
<1>6. Tail(inbox) \in Seq(Nat) /\ Len(Tail(inbox)) = Len(inbox) - 1
  BY <1>1, <1>3
<1>7. Taken' = Taken + 1
  BY <1>1, <1>2, <1>6 DEF Taken
<1>8. Taken + 1 <= Len(sent)
  BY <1>1, <1>2, <1>3 DEF MessageInv, InboxInOrder, Taken
<1>9. \A i \in 1 .. Len(Tail(inbox)) : Tail(inbox)[i] = Taken + 1 + i
  <2> TAKE i \in 1 .. Len(Tail(inbox))
  <2>1. Tail(inbox)[i] = inbox[i + 1]
    BY <1>1, <1>3, <1>6
  <2>2. i + 1 \in 1 .. Len(inbox)
    BY <1>1, <1>6
  <2>3. inbox[i + 1] = Taken + (i + 1)
    BY <2>2 DEF MessageInv, InboxInOrder
  <2>4. Taken \in Nat
    BY TakenType
  <2> QED
    BY <2>1, <2>3, <2>4
<1>10. InboxInOrder'
  BY <1>1, <1>2, <1>6, <1>7, <1>9 DEF MessageInv, InboxInOrder
<1> QED
  BY <1>5, <1>6, <1>7, <1>8, <1>10

\* A step that leaves the messages alone keeps the invariant, provided it keeps
\* recv_task's message with the wait, does not leave the end of the run, and
\* drops what was drained only without a cancellation or at the end.
LEMMA QuietStep ==
    ASSUME MessageInv,
           UNCHANGED <<sent, inbox, held, acked, lost>>,
           drained' = drained \/ drained' = NothingDrained,
           held # NoMsg => pc' = "invoking",
           drained'.cancel => pc' = "drain",
           drained.cancel => drained'.cancel \/ pc' \in Ending,
           pc \in Ending => pc' \in Ending,
           applied \cup {steer} \subseteq applied' \cup {steer'}
    PROVE  MessageInv'
<1>1. Taken' = Taken /\ InboxInOrder'
  BY DEF MessageInv, InboxInOrder, Taken
<1>2. Shapes'
  <2>1. NothingDrained \in Drains
    BY DEF Drains, NothingDrained
  <2>2. drained' \in Drains
    BY <2>1 DEF MessageInv, Shapes
  <2> QED
    BY <2>2 DEF MessageInv, Shapes
<1>3. TakenAccounted'
  BY <1>1 DEF MessageInv, TakenAccounted
<1>4. SteersKept'
  BY DEF MessageInv, SteersKept, Kind
<1> QED
  BY <1>1, <1>2, <1>3, <1>4 DEF MessageInv

\* A message is taken from the inbox and acknowledged at once.
LEMMA TakeAndAck ==
    ASSUME MessageInv, held = NoMsg, inbox # <<>>,
           inbox' = Tail(inbox), sent' = sent, held' = held, lost' = lost,
           acked' = acked \cup {Head(inbox)},
           drained' \in Drains,
           drained'.cancel => pc' = "drain",
           pc \notin Ending,
           drained.cancel => drained'.cancel,
           applied' = applied,
           \/ drained'.cancel
           \/ pc' \in Ending
           \/ steer' = Head(inbox)
           \/ steer' = steer /\ Kind(Head(inbox)) # "STEER"
    PROVE  MessageInv'
<1>1. /\ Head(inbox) = Taken + 1 /\ Taken' = Taken + 1
      /\ inbox' \in Seq(Nat) /\ InboxInOrder'
  BY HeadOfInbox
<1>2. Taken \in Nat /\ acked \subseteq 1 .. Taken
  BY TakenType
<1>3. Shapes'
  BY <1>1 DEF MessageInv, Shapes
<1>4. TakenAccounted'
  <2>1. acked \cup lost = 1 .. Taken /\ acked \cap lost = {}
    BY <1>2 DEF MessageInv, TakenAccounted, NoMsg
  <2>2. 1 .. (Taken + 1) = (1 .. Taken) \cup {Taken + 1} /\ Taken + 1 \notin 1 .. Taken
    BY <1>2
  <2>3. acked' \cup lost' = (1 .. Taken') \ {NoMsg}
    BY <1>1, <1>2, <2>1, <2>2 DEF NoMsg
  <2>4. acked' \cap lost' = {}
    BY <1>1, <2>1, <2>2
  <2> QED
    BY <2>3, <2>4 DEF TakenAccounted
<1>5. SteersKept'
  <2>1. SUFFICES ASSUME NEW m \in acked', Kind(m) = "STEER",
                        ~drained'.cancel, pc' \notin Ending
                 PROVE  \E n \in applied' \cup {steer'} : n >= m
    BY DEF SteersKept, Kind
  <2>2. CASE steer' = Head(inbox)
    <3>1. m \in 1 .. Taken + 1
      BY <1>1, <1>2
    <3>2. Taken + 1 >= m
      BY <1>2, <3>1
    <3>3. steer' = Taken + 1
      BY <1>1, <2>2
    <3> QED
      BY <3>2, <3>3
  <2>3. CASE steer' = steer /\ Kind(Head(inbox)) # "STEER"
    <3>1. m \in acked
      BY <2>1, <2>3
    <3> QED
      BY <2>1, <2>3, <3>1 DEF MessageInv, SteersKept
  <2> QED
    BY <2>1, <2>2, <2>3
<1> QED
  BY <1>1, <1>3, <1>4, <1>5 DEF MessageInv
-----------------------------------------------------------------------------
\* Every step of the loop, of recv_task, the agent, the operator and the drift
\* handlers keeps the invariant.
LEMMA MessageStep == MessageInv /\ [Next]_vars => MessageInv'
<1> SUFFICES ASSUME MessageInv, [Next]_vars PROVE MessageInv'
  OBVIOUS
<1> DEFINE Goal == MessageInv'
<1>a. held # NoMsg => pc = "invoking"
  BY DEF MessageInv, TakenAccounted
<1>b. drained.cancel => pc = "drain"
  BY DEF MessageInv, SteersKept
<1>c. drained \in Drains
  BY DEF MessageInv, Shapes
<1>d. ~NothingDrained.cancel
  BY DEF NothingDrained
<1> HIDE DEF Goal
<1> USE DEF Ending
<1>1. ASSUME DrainOne PROVE Goal
  <2>1. drained' = Collect(drained, Kind(Head(inbox))) /\ drained' \in Drains
    BY <1>1, <1>c DEF DrainOne, Collect, Drains
  <2>2. drained.cancel => drained'.cancel
    BY <2>1 DEF Collect
  <2>3. \/ drained'.cancel
        \/ steer' = Head(inbox)
        \/ steer' = steer /\ Kind(Head(inbox)) # "STEER"
    BY <1>1, <2>2 DEF DrainOne, KeepSteer
  <2> QED
    BY <1>1, <1>a, <2>1, <2>2, <2>3, TakeAndAck DEF DrainOne, Dispatch, Goal
<1>2. ASSUME DrainDone PROVE Goal
  <2>1. /\ pc = "drain"
        /\ drained.cancel => pc' = "aborting" /\ drained' = NothingDrained
        /\ drained' = drained \/ drained' = NothingDrained
    BY <1>2 DEF DrainDone
  <2>2. ~drained'.cancel
    BY <2>1, <1>d
  <2> QED
    BY <1>2, <1>a, <2>1, <2>2, QuietStep DEF DrainDone, channel, deliveries, steers, Goal
<1>3. ASSUME PausedReceive PROVE Goal
  <2>1. pc = "paused" /\ ~drained.cancel
    BY <1>3, <1>b DEF PausedReceive
  <2>2. drained' \in Drains /\ ~drained'.cancel
    BY <1>3, <1>c, <2>1 DEF PausedReceive, Drains, NothingDrained
  <2>3. \/ steer' = Head(inbox)
        \/ steer' = steer /\ Kind(Head(inbox)) # "STEER"
    BY <1>3 DEF PausedReceive, KeepSteer
  <2> QED
    BY <1>3, <1>a, <2>1, <2>2, <2>3, TakeAndAck DEF PausedReceive, Dispatch, Goal
<1>4. ASSUME PauseExpires PROVE Goal
  BY <1>4, <1>a, <1>b, <1>d, QuietStep
     DEF PauseExpires, channel, deliveries, steers, Goal
<1>5. ASSUME ApplySteer PROVE Goal
  BY <1>5, <1>a, <1>b, QuietStep DEF ApplySteer, channel, deliveries, Goal
<1>6. ASSUME AnnounceRevision PROVE Goal
  BY <1>6, <1>a, <1>b, QuietStep DEF AnnounceRevision, channel, deliveries, steers, Goal
<1>7. ASSUME NEW t \in Tasks, StartTask(t) PROVE Goal
  BY <1>7, <1>a, <1>b, QuietStep DEF StartTask, Picking, channel, deliveries, steers, Goal
<1>8. ASSUME NEW t \in Tasks, SkipTask(t) PROVE Goal
  BY <1>8, <1>a, <1>b, QuietStep DEF SkipTask, Picking, channel, deliveries, steers, Goal
<1>9. ASSUME NEW t, NEW to, NEW r, AgentReports(t, to, r) PROVE Goal
  BY <1>9, <1>a, <1>b, QuietStep DEF AgentReports, channel, deliveries, steers, Goal
<1>10. ASSUME NEW how, AgentEnds(how) PROVE Goal
  BY <1>10, <1>a, <1>b, QuietStep DEF AgentEnds, channel, deliveries, steers, Goal
<1>11. ASSUME Receive PROVE Goal
  <2>1. /\ Head(inbox) = Taken + 1 /\ Taken' = Taken + 1
        /\ inbox' \in Seq(Nat) /\ InboxInOrder'
    BY <1>11, HeadOfInbox DEF Receive
  <2>2. Taken \in Nat /\ acked \cup lost = 1 .. Taken /\ acked \cap lost = {}
    BY <1>11, TakenType DEF Receive, MessageInv, TakenAccounted, NoMsg
  <2>3. Shapes'
    BY <1>11, <2>1 DEF Receive, MessageInv, Shapes
  <2>4. (1 .. Taken + 1) \ {Taken + 1} = 1 .. Taken
    BY <2>2
  <2>5. TakenAccounted'
    BY <1>11, <2>1, <2>2, <2>4 DEF Receive, TakenAccounted
  <2>6. SteersKept'
    BY <1>11 DEF Receive, steers, MessageInv, SteersKept, Kind
  <2> QED
    BY <2>1, <2>3, <2>5, <2>6 DEF MessageInv, Goal
<1>12. ASSUME InvocationDone PROVE Goal
  <2>1. Taken' = Taken /\ InboxInOrder' /\ Shapes'
    BY <1>12 DEF InvocationDone, channel, Taken, MessageInv, InboxInOrder, Shapes
  <2>2. Taken \in Nat
    BY TakenType
  <2>3. TakenAccounted'
    <3>1. CASE held = NoMsg
      BY <1>12, <2>1, <3>1 DEF InvocationDone, MessageInv, TakenAccounted
    <3>2. CASE held # NoMsg
      <4>1. held = Taken /\ Taken \in 1 .. Taken
        BY <2>2, <3>2 DEF MessageInv, TakenAccounted, NoMsg
      <4>2. acked \cup lost = (1 .. Taken) \ {held} /\ acked \cap lost = {}
        BY DEF MessageInv, TakenAccounted
      <4>3. acked \cup (lost \cup {held}) = (1 .. Taken) \ {NoMsg}
        BY <2>2, <4>1, <4>2 DEF NoMsg
      <4> QED
        BY <1>12, <2>1, <3>2, <4>2, <4>3 DEF InvocationDone, TakenAccounted
    <3> QED
      BY <3>1, <3>2
  <2>4. SteersKept'
    BY <1>12, <1>b DEF InvocationDone, channel, steers, MessageInv, SteersKept, Kind
  <2> QED
    BY <2>1, <2>3, <2>4 DEF MessageInv, Goal
<1>13. ASSUME MessageDone PROVE Goal
  <2>1. Taken' = Taken /\ InboxInOrder' /\ Shapes'
    BY <1>13 DEF MessageDone, channel, Taken, MessageInv, InboxInOrder, Shapes
  <2>2. Taken \in Nat /\ acked \subseteq 1 .. Taken
    BY TakenType
  <2>3. held = Taken /\ Taken \in 1 .. Taken
    BY <1>13, <2>2 DEF MessageDone, MessageInv, TakenAccounted, NoMsg
  <2>4. acked' = acked \cup {held} /\ lost' = lost /\ held' = NoMsg
    BY <1>13 DEF MessageDone, Dispatch
  <2>5. TakenAccounted'
    <3>1. acked \cup lost = (1 .. Taken) \ {held} /\ acked \cap lost = {}
      BY DEF MessageInv, TakenAccounted
    <3>2. (acked \cup {held}) \cup lost = (1 .. Taken) \ {NoMsg}
      BY <2>2, <2>3, <3>1 DEF NoMsg
    <3> QED
      BY <2>1, <2>3, <2>4, <3>1, <3>2 DEF TakenAccounted
  <2>6. SteersKept'
    <3>1. ~drained.cancel /\ drained' = drained /\ pc \notin Ending
      BY <1>13, <1>b DEF MessageDone
    <3>2. SUFFICES ASSUME NEW m \in acked', Kind(m) = "STEER"
                   PROVE  \E n \in applied' \cup {steer'} : n >= m
      BY <1>13, <3>1 DEF SteersKept, Kind, MessageDone, channel
    <3>3. CASE Kind(held) = "STEER"
      <4>1. steer' = Taken
        BY <1>13, <2>3, <3>3 DEF MessageDone, KeepSteer
      <4>2. Taken >= m
        BY <2>2, <2>3, <2>4
      <4> QED
        BY <4>1, <4>2
    <3>4. CASE Kind(held) # "STEER"
      <4>1. m \in acked /\ steer' = steer /\ applied' = applied
        BY <1>13, <2>4, <3>2, <3>4 DEF MessageDone, KeepSteer
      <4> QED
        BY <3>1, <3>2, <4>1 DEF MessageInv, SteersKept
    <3> QED
      BY <3>3, <3>4
  <2> QED
    BY <2>1, <2>5, <2>6 DEF MessageInv, Goal
<1>14. ASSUME InvocationCancelled PROVE Goal
  BY <1>14, <1>a, <1>b, QuietStep DEF InvocationCancelled, channel, deliveries, steers, Goal
<1>15. ASSUME Settle PROVE Goal
  BY <1>15, <1>a, <1>b, QuietStep DEF Settle, channel, deliveries, steers, Goal
<1>16. ASSUME EndAborts PROVE Goal
  BY <1>16, <1>a, <1>b, QuietStep
     DEF EndAborts, LoopExit, Picking, channel, deliveries, steers, Goal
<1>17. ASSUME EndCancelsOrphans PROVE Goal
  BY <1>17, <1>a, <1>b, QuietStep
     DEF EndCancelsOrphans, LoopExit, Picking, channel, deliveries, steers, Goal
<1>18. ASSUME NEW met, EndEvaluatesGoals(met) PROVE Goal
  BY <1>18, <1>a, <1>b, QuietStep
     DEF EndEvaluatesGoals, LoopExit, Picking, channel, deliveries, steers, Goal
<1>19. ASSUME RunEnds PROVE Goal
  BY <1>19, <1>a, <1>b, QuietStep DEF RunEnds, channel, deliveries, steers, Goal
<1>20. ASSUME NEW k, NEW t, Send(k, t) PROVE Goal
  <2> DEFINE msg == [kind |-> k, task |-> t]
  <2>1. PICK S : sent \in Seq(S)
    BY DEF MessageInv, Shapes
  <2>2. sent \in Seq(S \cup {msg}) /\ msg \in S \cup {msg}
    BY <2>1
  <2>3. sent' = Append(sent, msg) /\ inbox' = Append(inbox, Len(sent) + 1)
    BY <1>20 DEF Send
  <2> HIDE DEF msg
  <2>4. /\ sent' \in Seq(S \cup {msg}) /\ Len(sent') = Len(sent) + 1
        /\ \A m \in 1 .. Len(sent) : sent'[m] = sent[m]
    BY <2>2, <2>3
  <2>5. inbox \in Seq(Nat) /\ Len(sent) \in Nat /\ Len(inbox) \in Nat /\ Taken \in Nat
    BY TakenType DEF MessageInv, Shapes
  <2>6. /\ inbox' \in Seq(Nat) /\ Len(inbox') = Len(inbox) + 1
        /\ \A i \in 1 .. Len(inbox) : inbox'[i] = inbox[i]
        /\ inbox'[Len(inbox) + 1] = Len(sent) + 1
    BY <2>3, <2>5
  <2>7. Taken' = Taken
    BY <2>4, <2>5, <2>6 DEF Taken
  <2>8. Shapes'
    BY <1>20, <2>4, <2>6 DEF Send, MessageInv, Shapes
  <2>9. InboxInOrder'
    <3>1. Len(inbox') <= Len(sent')
      BY <2>4, <2>5, <2>6 DEF MessageInv, InboxInOrder
    <3>2. ASSUME NEW i \in 1 .. Len(inbox') PROVE inbox'[i] = Taken + i
      <4>1. CASE i = Len(inbox) + 1
        BY <2>5, <2>6, <4>1 DEF Taken
      <4>2. CASE i # Len(inbox) + 1
        <5>1. i \in 1 .. Len(inbox)
          BY <2>5, <2>6, <4>2
        <5> QED
          BY <2>6, <5>1 DEF MessageInv, InboxInOrder
      <4> QED
        BY <4>1, <4>2
    <3> QED
      BY <2>7, <3>1, <3>2 DEF InboxInOrder
  <2>10. TakenAccounted'
    BY <1>20, <2>7 DEF Send, deliveries, MessageInv, TakenAccounted
  <2>11. SteersKept'
    <3>1. \A m \in acked : m \in 1 .. Len(sent)
      BY <2>5, TakenType
    <3> QED
      BY <1>20, <2>4, <3>1 DEF Send, deliveries, steers, MessageInv, SteersKept, Kind
  <2> QED
    BY <2>8, <2>9, <2>10, <2>11 DEF MessageInv, Goal
<1>21. ASSUME Close PROVE Goal
  BY <1>21, <1>a, <1>b, QuietStep DEF Close, deliveries, steers, Goal
<1>22. ASSUME Revise PROVE Goal
  BY <1>22, <1>a, <1>b, QuietStep DEF Revise, channel, deliveries, steers, Goal
<1>23. ASSUME NEW t, RefineGivesUp(t) PROVE Goal
  BY <1>23, <1>a, <1>b, QuietStep DEF RefineGivesUp, channel, deliveries, steers, Goal
<1>24. ASSUME UNCHANGED vars PROVE Goal
  BY <1>24, <1>a, <1>b, QuietStep DEF vars, channel, deliveries, steers, Goal
<1>25. Goal
  BY <1>1, <1>2, <1>3, <1>4, <1>5, <1>6, <1>7, <1>8, <1>9, <1>10, <1>11, <1>12, <1>13,
     <1>14, <1>15, <1>16, <1>17, <1>18, <1>19, <1>20, <1>21, <1>22, <1>23, <1>24
     DEF Next, Executor, Agent, Operator, DriftHandlers
<1> QED
  BY <1>25 DEF Goal

-----------------------------------------------------------------------------
\* The invariant accounts for every message, once.
LEMMA InvKeepsMessages == MessageInv => MessagesKept
<1> SUFFICES ASSUME MessageInv PROVE MessagesKept
  OBVIOUS
<1>1. /\ Len(sent) \in Nat /\ Len(inbox) \in Nat /\ Taken \in Nat /\ Taken <= Len(sent)
      /\ acked \subseteq 1 .. Taken
  BY TakenType
<1>2. Taken + Len(inbox) = Len(sent)
  BY <1>1 DEF Taken
<1>3. /\ held \in {NoMsg, Taken}
      /\ held # NoMsg => pc = "invoking"
      /\ acked \cup lost = (1 .. Taken) \ {held} /\ acked \cap lost = {}
  BY DEF MessageInv, TakenAccounted
<1>4. \A i \in 1 .. Len(inbox) : inbox[i] = Taken + i
  BY DEF MessageInv, InboxInOrder
<1>5. Queued = (Taken + 1) .. Len(sent)
  <2>1. ASSUME NEW i \in 1 .. Len(inbox) PROVE inbox[i] \in (Taken + 1) .. Len(sent)
    BY <1>1, <1>2, <1>4
  <2>2. ASSUME NEW m \in (Taken + 1) .. Len(sent)
        PROVE  \E i \in 1 .. Len(inbox) : inbox[i] = m
    <3>1. m - Taken \in 1 .. Len(inbox) /\ Taken + (m - Taken) = m
      BY <1>1, <1>2
    <3>2. inbox[m - Taken] = Taken + (m - Taken)
      BY <1>4, <3>1
    <3> QED
      BY <3>1, <3>2
  <2> QED
    BY <2>1, <2>2 DEF Queued
<1>6. Queued \cup {held} \cup acked \cup lost = Messages \cup {held}
  BY <1>1, <1>3, <1>5 DEF Messages
<1>7. ASSUME NEW m \in Messages
      PROVE  Cardinality({i \in 1 .. Len(inbox) : inbox[i] = m})
               + (IF held = m THEN 1 ELSE 0) + (IF m \in acked THEN 1 ELSE 0)
               + (IF m \in lost THEN 1 ELSE 0) = 1
  <2> DEFINE at == {i \in 1 .. Len(inbox) : inbox[i] = m}
  <2>1. m \in 1 .. Len(sent)
    BY DEF Messages
  <2>2. CASE m > Taken
    <3>1. m - Taken \in 1 .. Len(inbox)
      BY <1>1, <1>2, <2>1, <2>2
    <3>2. at = {m - Taken}
      BY <1>1, <1>4, <2>1, <3>1
    <3>3. Cardinality(at) = 1
      BY <3>2, FS_Singleton
    <3>4. held # m
      BY <1>1, <1>3, <2>1, <2>2 DEF NoMsg
    <3>5. m \notin 1 .. Taken
      BY <1>1, <2>1, <2>2
    <3>6. m \notin acked /\ m \notin lost
      BY <1>3, <3>5
    <3> QED
      BY <3>3, <3>4, <3>6
  <2>3. CASE m <= Taken
    <3>1. at = {}
      BY <1>1, <1>4, <2>1, <2>3
    <3>2. Cardinality(at) = 0
      BY <3>1, FS_EmptySet
    <3>3. m \in 1 .. Taken
      BY <1>1, <2>1, <2>3
    <3>4. \/ held = m /\ m \notin acked /\ m \notin lost
          \/ held # m /\ m \in acked /\ m \notin lost
          \/ held # m /\ m \notin acked /\ m \in lost
      BY <1>3, <3>3
    <3> QED
      BY <3>2, <3>4
  <2> QED
    BY <1>1, <2>1, <2>2, <2>3
<1>8. \A m \in acked : Kind(m) = "STEER" =>
          \/ drained.cancel
          \/ pc \in {"end", "aborting", "aborted", "completing", "completed"}
          \/ \E n \in applied \cup {steer} : n >= m
  BY DEF MessageInv, SteersKept, Ending
<1>9. held # NoMsg => pc = "invoking"
  BY <1>3
<1> QED
  BY <1>6, <1>7, <1>8, <1>9, Zenon DEF MessagesKept

\* Every control message is in the inbox, held by recv_task, acknowledged or
\* lost with a finished invocation, in exactly one of them; and a STEER that
\* was acknowledged is applied, or a later steer is, unless the run ends
\* (drain_controls, _apply_pre_task_controls and _invoke_with_control).
THEOREM MessagesKeptHolds == Spec => []MessagesKept
<1>1. Init => MessageInv
  BY MessageInit
<1>2. MessageInv /\ [Next]_vars => MessageInv'
  BY MessageStep
<1>3. MessageInv => MessagesKept
  BY InvKeepsMessages
<1> QED
  BY <1>1, <1>2, <1>3, PTL DEF Spec
=============================================================================
