---------------------------- MODULE PlanRevision ----------------------------
(***************************************************************************)
(* How session.plan is replaced (goldfive/plan_reviser.py and the refine   *)
(* path of goldfive/drift_observer.py).                                    *)
(*                                                                         *)
(* Three kinds of coroutines write the plan: drift handlers, which ask the *)
(* planner for a revision; the turn in progress, which installs the plan   *)
(* made for the user's message; and the growers, which append a task for   *)
(* work an agent started on its own.  Status transitions go on meanwhile.  *)
(* A per-session asyncio.Lock orders the writes, but a revision is         *)
(* computed from the plan before the lock is asked for and is not looked   *)
(* at again once the lock is granted.                                      *)
(*                                                                         *)
(* Of a plan the model keeps its revision index and, for every task id,    *)
(* whether it is absent, live (pending, running or blocked) or terminal;   *)
(* two terminal statuses stand for the four.  Edges are left out: what     *)
(* validation says about them is one more reason for RefineFails.          *)
(***************************************************************************)
EXTENDS Naturals, Sequences, FiniteSets

CONSTANTS
    Planned,     \* ids of tasks that planners write
    InitialPlan, \* those of the first plan
    Discovered,  \* ids that descriptive growth hands out
    Identity,    \* the discovery identity hash of each of them
    Hashes,      \* the identity hashes
    Keys,        \* the (drift kind, task) pairs
    TaskOf,      \* the task of each key
    Stamped,     \* keys whose drifts carry the revision they were observed at
    Trajectory,  \* keys of user and trajectory kinds, exempt from the outcome gate
    UserKeys,    \* keys of the user's steering: never stamped, never passive
    Handlers,    \* coroutines that run handle_drift
    Turns,       \* coroutines that run Runner._install_revision
    Growers,     \* coroutines that run install_descriptive_growth
    Active,      \* steering is active: revisions for drifts are installed
    Ledger,      \* ledger mode: live discovered tasks survive a revision
    Threshold,   \* REFINE_FAILURE_THRESHOLD
    MaxRev,      \* bound: no revision is begun at this index
    NoProc, NoKey, NoHash

Tasks == Planned \cup Discovered
Procs == Handlers \cup Turns \cup Growers

ASSUME TaskAssumption ==
    /\ InitialPlan \subseteq Planned
    /\ Planned \cap Discovered = {}
    /\ Identity \in [Discovered -> Hashes]
    /\ TaskOf \in [Keys -> Tasks]
ASSUME KeyAssumption ==
    /\ Stamped \subseteq Keys /\ Trajectory \subseteq Keys
    /\ UserKeys \subseteq Trajectory \ Stamped
    /\ NoKey \notin Keys /\ NoHash \notin Hashes
ASSUME ProcAssumption ==
    /\ Handlers \cap Turns = {} /\ Handlers \cap Growers = {}
    /\ Turns \cap Growers = {}
    /\ NoProc \notin Procs
ASSUME ParameterAssumption ==
    /\ Active \in BOOLEAN /\ Ledger \in BOOLEAN
    /\ Threshold \in Nat \ {0} /\ MaxRev \in Nat \ {0}

Terminal == {"COMPLETED", "FAILED"}
Status == {"ABSENT", "LIVE"} \cup Terminal
Plans == [Tasks -> Status]
NoPlan == [t \in Tasks |-> "ABSENT"]

VARIABLES
    rev, st,    \* session.plan: its revision index, the status of each task
    used,       \* the discovered ids handed out so far
    addressed,  \* session.last_addressed_revision_by_drift_key
    inflight,   \* _inflight_refine_keys
    done,       \* refine_outcomes: keys whose last refine succeeded
    fails,      \* refine_outcomes: consecutive failures of the other keys
    holder,     \* the coroutine that holds the plan lock
    queue,      \* those that wait for it, in order
    pc,         \* where each coroutine is suspended
    key,        \* the drift's key
    obs,        \* the revision the drift was observed at, 0 if unstamped
    hash,       \* the identity hash of a grower's work
    base,       \* the plan the planner was given
    nrev, nst,  \* the revision to be installed
    dry         \* the passive gate: announce the revision, keep the plan

plan == <<rev, st, used>>
gates == <<addressed, inflight, done, fails>>
lock == <<holder, queue>>
frame == <<key, obs, hash, base, nrev, nst, dry>>
vars == <<plan, gates, lock, pc, frame>>

Init ==
    /\ rev = 1
    /\ st = [t \in Tasks |-> IF t \in InitialPlan THEN "LIVE" ELSE "ABSENT"]
    /\ used = {}
    /\ addressed = [k \in Keys |-> 0]
    /\ inflight = {}
    /\ done = {}
    /\ fails = [k \in Keys |-> 0]
    /\ holder = NoProc
    /\ queue = <<>>
    /\ pc = [p \in Procs |-> "idle"]
    /\ key = [p \in Procs |-> NoKey]
    /\ obs = [p \in Procs |-> 0]
    /\ hash = [p \in Procs |-> NoHash]
    /\ base = [p \in Procs |-> NoPlan]
    /\ nrev = [p \in Procs |-> 0]
    /\ nst = [p \in Procs |-> NoPlan]
    /\ dry = [p \in Procs |-> FALSE]

-----------------------------------------------------------------------------
(***************************************************************************)
(* Plans.                                                                  *)
(***************************************************************************)

\* The plans a planner can return for plan s: it is validated against s, so
\* the terminal tasks of s are kept; a live task may be kept, dropped or given
\* a terminal status; planned tasks may be added.
Candidates(s) ==
    {c \in Plans :
        \A t \in Tasks :
            /\ s[t] \in Terminal => c[t] = s[t]
            /\ s[t] = "ABSENT" => c[t] \in {"ABSENT", IF t \in Planned THEN "LIVE" ELSE "ABSENT"}}

\* _fold_runtime_terminal_statuses
Fold(c, s) ==
    [t \in Tasks |-> IF c[t] = "LIVE" /\ s[t] \in Terminal THEN s[t] ELSE c[t]]

\* Mutant: the terminal tasks of the plan replaced are not looked at.
ValidAnyTerminal(c, s) == TRUE

\* Plan.validate(for_revision=True, prior=s), the rules about terminal tasks
Valid(c, s) == \A t \in Tasks : s[t] \in Terminal => c[t] = s[t]

\* Mutant: the revision is taken as it is.
PreserveNothing(c, s) == c

\* _preserve_ledger_identity
Preserve(c, s) ==
    [t \in Tasks |->
        IF Ledger /\ t \in Discovered /\ c[t] = "ABSENT" /\ s[t] = "LIVE"
          THEN "LIVE" ELSE c[t]]

\* _apply_revision: the plan that is going to be installed.
Applied(c) == Preserve(Fold(c, st), st)

-----------------------------------------------------------------------------
(***************************************************************************)
(* The plan lock and the installation of a revision.                       *)
(***************************************************************************)

LockFree == holder = NoProc /\ queue = <<>>

\* p is inside the try of handle_drift that holds its key in flight.
HoldsKey(p) == key[p] \in Stamped /\ pc[p] # "observed"

\* The frame of p is gone; the finally clause of handle_drift has run.
Leave(p) ==
    /\ pc' = [pc EXCEPT ![p] = "idle"]
    /\ inflight' = IF HoldsKey(p) THEN inflight \ {key[p]} ELSE inflight
    /\ key' = [key EXCEPT ![p] = NoKey]
    /\ obs' = [obs EXCEPT ![p] = 0]
    /\ hash' = [hash EXCEPT ![p] = NoHash]
    /\ base' = [base EXCEPT ![p] = NoPlan]
    /\ nrev' = [nrev EXCEPT ![p] = 0]
    /\ nst' = [nst EXCEPT ![p] = NoPlan]
    /\ dry' = [dry EXCEPT ![p] = FALSE]

\* _emit_plan_revised with the lock held, up to its first await: the swap and
\* the watermark of the drift's key.  The lock is kept during the emissions.
Install(p, r, s, d) ==
    /\ holder' = p
    /\ pc' = [pc EXCEPT ![p] = "emitting"]
    /\ IF d
         THEN UNCHANGED <<rev, st, addressed>>
         ELSE /\ rev' = r
              /\ st' = s
              /\ addressed' = IF key[p] \in Keys \ UserKeys
                                THEN [addressed EXCEPT ![key[p]] = r] ELSE addressed
    /\ UNCHANGED <<used, key, obs, hash, base>>

\* Enter _emit_plan_revised with revision r, s.
EmitPlanRevised(p, r, s, d) ==
    \/ /\ LockFree
       /\ Install(p, r, s, d)
       /\ UNCHANGED <<queue, nrev, nst, dry>>
    \/ /\ ~LockFree
       /\ queue' = Append(queue, p)
       /\ pc' = [pc EXCEPT ![p] = "waiting"]
       /\ nrev' = [nrev EXCEPT ![p] = r]
       /\ nst' = [nst EXCEPT ![p] = s]
       /\ dry' = [dry EXCEPT ![p] = d]
       /\ UNCHANGED <<plan, addressed, holder, key, obs, hash, base>>

\* The lock is granted to the first waiter: the revision is installed as it
\* was computed before the wait.
LockGranted(p) ==
    /\ p \notin Growers
    /\ pc[p] = "waiting"
    /\ holder = NoProc
    /\ p = Head(queue)
    /\ queue' = Tail(queue)
    /\ Install(p, nrev[p], nst[p], dry[p])
    /\ UNCHANGED <<inflight, done, fails, nrev, nst, dry>>

\* Mutant: the lock is not released.
EmissionsKeepLock(p) ==
    /\ pc[p] = "emitting"
    /\ Leave(p)
    /\ UNCHANGED <<plan, addressed, done, fails, lock>>

\* The emissions are done and the lock is released.
EmissionsDone(p) ==
    /\ pc[p] = "emitting"
    /\ holder' = NoProc
    /\ Leave(p)
    /\ UNCHANGED <<plan, addressed, done, fails, queue>>

\* p is cancelled at whatever await it is in; the lock is released and p no
\* longer waits for it.
Cancelled(p) ==
    /\ pc[p] # "idle"
    /\ holder' = IF holder = p THEN NoProc ELSE holder
    /\ queue' = SelectSeq(queue, LAMBDA q : q # p)
    /\ Leave(p)
    /\ UNCHANGED <<plan, addressed, done, fails>>

-----------------------------------------------------------------------------
(***************************************************************************)
(* Drift handlers.                                                         *)
(***************************************************************************)

\* A detector reads the plan and raises a drift; its verdict (an LLM call, for
\* the judges) and handle_drift come later.
Observe(p, k) ==
    /\ pc[p] = "idle"
    /\ rev < MaxRev
    /\ pc' = [pc EXCEPT ![p] = "observed"]
    /\ key' = [key EXCEPT ![p] = k]
    /\ obs' = [obs EXCEPT ![p] = IF k \in Stamped THEN rev ELSE 0]
    /\ UNCHANGED <<plan, gates, lock, hash, base, nrev, nst, dry>>

\* Mutant: no in-flight gate.
NeverConcurrent(p) == FALSE

\* The freshness gate and the in-flight gate of handle_drift.
Stale(p) == key[p] \in Stamped /\ obs[p] < addressed[key[p]]
Concurrent(p) == key[p] \in Stamped /\ key[p] \in inflight

\* Mutant: the finally clause also covers the gates, and takes the key from the
\* handler that holds it.
DropReleasesKey(p) ==
    /\ pc[p] = "observed"
    /\ Stale(p) \/ Concurrent(p)
    /\ pc' = [pc EXCEPT ![p] = "idle"]
    /\ inflight' = inflight \ {key[p]}
    /\ key' = [key EXCEPT ![p] = NoKey]
    /\ obs' = [obs EXCEPT ![p] = 0]
    /\ UNCHANGED <<plan, addressed, done, fails, lock, hash, base, nrev, nst, dry>>

DropDrift(p) ==
    /\ pc[p] = "observed"
    /\ Stale(p) \/ Concurrent(p)
    /\ pc' = [pc EXCEPT ![p] = "idle"]
    /\ key' = [key EXCEPT ![p] = NoKey]
    /\ obs' = [obs EXCEPT ![p] = 0]
    /\ UNCHANGED <<plan, gates, lock, hash, base, nrev, nst, dry>>

HandleDrift(p) ==
    /\ pc[p] = "observed"
    /\ ~Stale(p) /\ ~Concurrent(p)
    /\ inflight' = IF key[p] \in Stamped THEN inflight \cup {key[p]} ELSE inflight
    /\ pc' = [pc EXCEPT ![p] = "dispatched"]
    /\ UNCHANGED <<plan, addressed, done, fails, lock, frame>>

\* The refine-outcome gate of _handle_drift_dispatch; in ledger mode only the
\* user's steering gets that far.
OutcomeAllows(k) ==
    k \in Trajectory \/ (k \notin done /\ fails[k] < Threshold)

RefineAttempted(p) ==
    /\ pc[p] = "dispatched"
    /\ Ledger => key[p] \in UserKeys
    /\ OutcomeAllows(key[p])
    /\ pc' = [pc EXCEPT ![p] = "attempted"]
    /\ UNCHANGED <<plan, gates, lock, frame>>

\* The ladder chose another intervention, a gate of it closed, or the planner
\* returned the plan unchanged or gave up.
NoRevision(p) ==
    /\ pc[p] \in {"dispatched", "refining"}
    /\ Leave(p)
    /\ UNCHANGED <<plan, addressed, done, fails, lock>>

CallPlanner(p) ==
    /\ pc[p] = "attempted"
    /\ pc' = [pc EXCEPT ![p] = "refining"]
    /\ base' = [base EXCEPT ![p] = st]
    /\ UNCHANGED <<plan, gates, lock, key, obs, hash, nrev, nst, dry>>

\* The planner raised, returned nothing, or its plan was rejected.  At the
\* threshold the drift's task is failed for good.
RefineFails(p) ==
    LET k == key[p]
        count == IF k \in done THEN 1 ELSE fails[k] + 1
    IN  /\ pc[p] = "refining"
        /\ IF k \in Trajectory
             THEN UNCHANGED <<st, done, fails>>
             ELSE /\ done' = done \ {k}
                  /\ fails' = [fails EXCEPT ![k] = count]
                  /\ st' = IF count >= Threshold /\ st[TaskOf[k]] = "LIVE"
                             THEN [st EXCEPT ![TaskOf[k]] = "FAILED"] ELSE st
        /\ Leave(p)
        /\ UNCHANGED <<rev, used, addressed, lock>>

\* The planner's plan passes validation against the plan of this moment: the
\* outcome is recorded and the revision computed, without a suspension.
RefineReturns(p) ==
    /\ pc[p] = "refining"
    /\ \E c \in Candidates(base[p]) :
        /\ Valid(Fold(c, st), st)
        /\ EmitPlanRevised(p, rev + 1, Applied(c), ~Active /\ key[p] \notin UserKeys)
    /\ done' = IF key[p] \in Trajectory THEN done ELSE done \cup {key[p]}
    /\ fails' = IF key[p] \in Trajectory THEN fails ELSE [fails EXCEPT ![key[p]] = 0]
    /\ UNCHANGED inflight

-----------------------------------------------------------------------------
(***************************************************************************)
(* The turn: Runner._run_locked resets the outcomes, asks the planner for  *)
(* the plan of the user's message and installs it.  Drift handlers of the  *)
(* turn before may still be at work: only the sequential executor drains   *)
(* them, and not those spawned while it drains the judges.                 *)
(***************************************************************************)

StartTurn(p) ==
    /\ pc[p] = "idle"
    /\ rev < MaxRev
    /\ done' = {}
    /\ fails' = [k \in Keys |-> 0]
    /\ pc' = [pc EXCEPT ![p] = "planning"]
    /\ base' = [base EXCEPT ![p] = st]
    /\ UNCHANGED <<plan, addressed, inflight, lock, key, obs, hash, nrev, nst, dry>>

\* _install_with_drift: fold and validate, then announce the attempt.
TurnPlanned(p) ==
    /\ pc[p] = "planning"
    /\ \E c \in Candidates(base[p]) :
        /\ Valid(Fold(c, st), st)
        /\ nst' = [nst EXCEPT ![p] = Fold(c, st)]
    /\ pc' = [pc EXCEPT ![p] = "announced"]
    /\ UNCHANGED <<plan, gates, lock, key, obs, hash, base, nrev, dry>>

TurnInstalls(p) ==
    /\ pc[p] = "announced"
    /\ EmitPlanRevised(p, rev + 1, Applied(nst[p]), FALSE)
    /\ UNCHANGED <<inflight, done, fails>>

\* A pivot: install_initial_plan, with no prior plan to be validated against.
TurnPivots(p) ==
    /\ pc[p] = "planning"
    /\ \E new \in SUBSET Planned :
        LET c == [t \in Tasks |-> IF t \in new THEN "LIVE" ELSE "ABSENT"]
        IN  EmitPlanRevised(p, rev + 1, Applied(c), FALSE)
    /\ UNCHANGED <<inflight, done, fails>>

\* The plan was rejected, or is the plan of the session already.
TurnKeepsPlan(p) ==
    /\ pc[p] = "planning"
    /\ Leave(p)
    /\ UNCHANGED <<plan, addressed, done, fails, lock>>

-----------------------------------------------------------------------------
(***************************************************************************)
(* Descriptive growth and status transitions.                              *)
(***************************************************************************)

\* Mutant: no look-up of the identity hash under the lock.
GrowAlways(h) ==
    /\ \E t \in Discovered \ used :
          /\ Identity[t] = h
          /\ st' = [st EXCEPT ![t] = "LIVE"]
          /\ used' = used \cup {t}
    /\ rev' = rev + 1

\* The body of install_descriptive_growth under the lock; it does not suspend.
Grow(h) ==
    \/ /\ \E t \in Discovered : Identity[t] = h /\ st[t] = "LIVE"
       /\ UNCHANGED plan
    \/ /\ \A t \in Discovered : Identity[t] = h => st[t] # "LIVE"
       /\ \E t \in Discovered \ used :
            /\ Identity[t] = h
            /\ st' = [st EXCEPT ![t] = "LIVE"]
            /\ used' = used \cup {t}
       /\ rev' = rev + 1

\* Bound: an id is left for every grower at work on h.
IdsLeft(h) ==
    Cardinality({t \in Discovered \ used : Identity[t] = h})
        > Cardinality({p \in Growers : hash[p] = h})

\* An agent started work that no task of the plan stands for.
InstallGrowth(p, h) ==
    /\ pc[p] = "idle"
    /\ IdsLeft(h)
    /\ \/ /\ LockFree
          /\ Grow(h)
          /\ UNCHANGED <<queue, pc, hash>>
       \/ /\ ~LockFree
          /\ queue' = Append(queue, p)
          /\ pc' = [pc EXCEPT ![p] = "waiting"]
          /\ hash' = [hash EXCEPT ![p] = h]
          /\ UNCHANGED plan
    /\ UNCHANGED <<gates, holder, key, obs, base, nrev, nst, dry>>

GrowthGranted(p) ==
    /\ p \in Growers
    /\ pc[p] = "waiting"
    /\ holder = NoProc
    /\ p = Head(queue)
    /\ queue' = Tail(queue)
    /\ Grow(hash[p])
    /\ Leave(p)
    /\ UNCHANGED <<addressed, done, fails, holder>>

\* TaskLifecycle: any status transition is one swap of the plan.
MarkTask(t, to) ==
    /\ st[t] = "LIVE"
    /\ st' = [st EXCEPT ![t] = to]
    /\ UNCHANGED <<rev, used, gates, lock, pc, frame>>

HandlerNext(p) ==
    \/ \E k \in Keys : Observe(p, k)
    \/ DropDrift(p)
    \/ HandleDrift(p)
    \/ RefineAttempted(p)
    \/ NoRevision(p)
    \/ CallPlanner(p)
    \/ RefineFails(p)
    \/ RefineReturns(p)

TurnNext(p) ==
    \/ StartTurn(p)
    \/ TurnPlanned(p)
    \/ TurnInstalls(p)
    \/ TurnPivots(p)
    \/ TurnKeepsPlan(p)

Next ==
    \/ \E p \in Handlers : HandlerNext(p)
    \/ \E p \in Turns : TurnNext(p)
    \/ \E p \in Growers : (\E h \in Hashes : InstallGrowth(p, h)) \/ GrowthGranted(p)
    \/ \E p \in Procs : LockGranted(p) \/ EmissionsDone(p) \/ Cancelled(p)
    \/ \E t \in Tasks, to \in Terminal : MarkTask(t, to)

Spec == Init /\ [][Next]_vars

\* The event loop resumes a coroutine whose emissions are done and one that
\* the lock was released to.  Nothing is assumed of the planner.
FairSpec ==
    /\ Spec
    /\ \A p \in Procs : WF_vars(EmissionsDone(p))
    /\ \A p \in Procs : WF_vars(LockGranted(p))
    /\ \A p \in Growers : WF_vars(GrowthGranted(p))

-----------------------------------------------------------------------------
(***************************************************************************)
(* Properties.                                                             *)
(***************************************************************************)

\* Types of the plan, the gates and the suspended coroutines.
TypeOK ==
    /\ rev \in Nat
    /\ st \in Plans
    /\ used \subseteq Discovered
    /\ addressed \in [Keys -> Nat]
    /\ inflight \subseteq Stamped
    /\ done \subseteq Keys
    /\ fails \in [Keys -> Nat]
    /\ holder \in Procs \cup {NoProc}
    /\ pc \in [Procs -> {"idle", "observed", "dispatched", "attempted", "refining",
                         "planning", "announced", "waiting", "emitting"}]
    /\ key \in [Procs -> Keys \cup {NoKey}]
    /\ \A p \in Procs :
          pc[p] \in {"observed", "dispatched", "attempted", "refining"} => key[p] \in Keys
    /\ obs \in [Procs -> Nat]
    /\ hash \in [Procs -> Hashes \cup {NoHash}]
    /\ \A p \in Growers : pc[p] = "waiting" => hash[p] \in Hashes
    /\ base \in [Procs -> Plans]
    /\ nrev \in [Procs -> Nat]
    /\ nst \in [Procs -> Plans]
    /\ dry \in [Procs -> BOOLEAN]

\* The freshness gate is evaluated when handle_drift starts and the revision is
\* installed many suspensions later; the in-flight key keeps the gate's answer
\* true until then: the drift being handled is never older than the revision
\* that last addressed its key.
VerdictStaysFresh ==
    \A p \in Procs :
        HoldsKey(p) /\ pc[p] # "emitting" => addressed[key[p]] <= obs[p]

\* One drift of a stamped key is handled at a time, and its key is in flight
\* exactly as long: neither a drop nor a cancellation leaks or steals it.
OneHandlerPerKey ==
    /\ inflight = {key[p] : p \in {q \in Procs : HoldsKey(q)}}
    /\ \A p, q \in Procs : HoldsKey(p) /\ HoldsKey(q) /\ key[p] = key[q] => p = q

\* Two discoveries of the same work yield one live task ("Dedup
\* linearisability", docs/design/PLAN-DESCRIPTIVE-GROWTH.md, section 11.6), also
\* when revisions computed from an older plan bring tasks back.  In ledger mode
\* such a revision keeps the newer of the two as well.
OneLiveDiscovery ==
    ~Ledger => \A t, u \in Discovered :
        st[t] = "LIVE" /\ st[u] = "LIVE" /\ Identity[t] = Identity[u] => t = u

\* p installs a revision in this step.
Installs(p) == pc[p] # "emitting" /\ pc'[p] = "emitting"

\* A finished task is changed or dropped only by a pivot, or by a revision that
\* was computed before a suspension: a refine that finds the lock free installs
\* exactly what was validated against the plan it replaces.
FinishedTasksSurvive ==
    [][\A t \in Tasks :
          st[t] \in Terminal /\ st'[t] # st[t] =>
              \E p \in Procs : Installs(p)
                  /\ pc[p] \in {"waiting", "announced", "planning"}]_vars

\* In ledger mode a live discovered task leaves the plan only with a revision
\* that comes out of the lock's queue, where it was computed without it.
LedgerKeepsDiscoveries ==
    [][\A t \in Discovered :
          Ledger /\ st[t] = "LIVE" /\ st'[t] = "ABSENT" =>
              \E p \in Procs : Installs(p) /\ pc[p] = "waiting"]_vars

\* Every coroutine that waits for the plan lock gets it, whatever the planner
\* does: no planner call is made with the lock held.
WaiterProceeds ==
    \A p \in Procs : pc[p] = "waiting" ~> pc[p] # "waiting"
=============================================================================
