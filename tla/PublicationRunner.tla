-------------------------- MODULE PublicationRunner --------------------------
(***************************************************************************)
(* The asynchronous publication of WxPosts in the Hermes controller: the   *)
(* SQLite table of publication operations (publication_store.py) and the   *)
(* background threads that run them (publication_runner.py).  The answers  *)
(* of the backend are inputs here; PublicationSystem.tla composes this     *)
(* module with the backend.                                                *)
(***************************************************************************)
EXTENDS Integers, Sequences

CONSTANTS
  Workspaces,   \* workspace identifiers
  Operations,   \* publish-<hex> operation identifiers
  Plans,        \* runner input plans (a plan and its fingerprint are one value)
  ItemCount,    \* ItemCount[p]: media items of plan p
  Faults,       \* faults the environment may cause, a subset of FaultKinds
  None          \* SQL NULL / absent row

FaultKinds == {"store", "spawn", "crash"}

ASSUME RunnerAssumption ==
  /\ ItemCount \in [Plans -> Nat]
  /\ Faults \subseteq FaultKinds

VARIABLES
  ops,      \* table publication_operations: operation -> row or None
  thread,   \* the wxpost-publication thread of each operation
  alive     \* is the controller process up

runnerVars == <<ops, thread, alive>>

-----------------------------------------------------------------------------
(* Rows and threads *)

\* The error codes an operation can fail with.
BackendCodes == {"rejected", "backend_unreachable"}
ErrorCodes   == BackendCodes \cup {"publication_runner_error",
                                   "controller_restarted"}
StepStates   == {"pending", "completed", "failed"}

\* One step per item and the finalize step.
StepCount(p) == ItemCount[p] + 1
InitialSteps(p) == [i \in 1..StepCount(p) |-> "pending"]

Row == [workspace : Workspaces,
        plan      : Plans,
        state     : {"running", "completed", "failed"},
        error     : ErrorCodes \cup {None},
        steps     : Seq(StepStates)]       \* <<>> is a NULL steps_json

ASSUME NullAssumption == None \notin Row \cup ErrorCodes

\* "admitted" is the gap between the commit and Thread.start(); "waiting"
\* is blocked in urlopen; "resting" is the sleep between two attempts.
LivePcs == {"admitted", "starting", "calling", "waiting", "resting",
            "failing", "completing", "crashing"}

Thread == [pc      : LivePcs \cup {"none"},
           index   : Nat,
           attempt : {1, 2},
           code    : BackendCodes \cup {None}]

Idle == [pc |-> "none", index |-> 0, attempt |-> 1, code |-> None]

Exists(op)   == ops[op] # None
Running(op)  == Exists(op) /\ ops[op].state = "running"
Settled(op)  == Exists(op) /\ ops[op].state # "running"
AtPc(op, pc) == alive /\ thread[op].pc = pc

RunningIn(ws) == {op \in Operations : Running(op) /\ ops[op].workspace = ws}

Init ==
  /\ ops = [op \in Operations |-> None]
  /\ thread = [op \in Operations |-> Idle]
  /\ alive = TRUE

-----------------------------------------------------------------------------
(* The store.  Every statement is guarded by state = 'running'. *)

\* Mutant: start_operation without its second SELECT.
StartUnchecked(ws, op, p) ==
  /\ ~Exists(op)
  /\ ops' = [ops EXCEPT ![op] = [workspace |-> ws, plan |-> p,
                                 state |-> "running", error |-> None,
                                 steps |-> <<>>]]

\* start_operation, inside BEGIN IMMEDIATE: the identifier must be new and no
\* operation may be running for the workspace.
StartOperation(ws, op, p) ==
  /\ ~Exists(op)
  /\ RunningIn(ws) = {}
  /\ ops' = [ops EXCEPT ![op] = [workspace |-> ws, plan |-> p,
                                 state |-> "running", error |-> None,
                                 steps |-> <<>>]]

SetSteps(op, steps) ==
  ops' = IF Running(op) THEN [ops EXCEPT ![op].steps = steps] ELSE ops

CompleteOperation(op) ==
  /\ Running(op)
  /\ ops' = [ops EXCEPT ![op].state = "completed"]

FailOperation(op, code) ==
  /\ Running(op)
  /\ ops' = [ops EXCEPT ![op].state = "failed", ![op].error = code]

\* Mutants: a state the table's CHECK does not allow; no WHERE clause.
FailInterruptedNewState ==
  ops' = [op \in Operations |->
            IF Running(op) THEN [ops[op] EXCEPT !.state = "interrupted"]
                           ELSE ops[op]]
FailInterruptedAll ==
  ops' = [op \in Operations |->
            IF Exists(op) THEN [ops[op] EXCEPT !.state = "failed"]
                          ELSE ops[op]]

\* fail_interrupted_operations at start-up.
FailInterrupted ==
  ops' = [op \in Operations |->
            IF Running(op)
            THEN [ops[op] EXCEPT !.state = "failed",
                                 !.error = "controller_restarted"]
            ELSE ops[op]]

-----------------------------------------------------------------------------
(* submit and the thread *)

Move(op, pc) == thread' = [thread EXCEPT ![op].pc = pc]
Stop(op)     == thread' = [thread EXCEPT ![op] = Idle]

\* submit: the row is committed before the thread exists.
Submit(ws, op, p) ==
  /\ alive
  /\ StartOperation(ws, op, p)
  /\ thread' = [thread EXCEPT ![op] = [Idle EXCEPT !.pc = "admitted"]]
  /\ UNCHANGED alive

Spawn(op) ==
  /\ AtPc(op, "admitted")
  /\ Move(op, "starting")
  /\ UNCHANGED <<ops, alive>>

\* Thread.start() raises RuntimeError in submit: nobody catches it.
SpawnFails(op) ==
  /\ "spawn" \in Faults
  /\ AtPc(op, "admitted")
  /\ Stop(op)
  /\ UNCHANGED <<ops, alive>>

\* _run_operation reads the plan and publishes the pending steps.
Begin(op) ==
  /\ AtPc(op, "starting")
  /\ SetSteps(op, InitialSteps(ops[op].plan))
  /\ thread' = [thread EXCEPT ![op].pc = "calling", ![op].index = 1]
  /\ UNCHANGED alive

\* _call_with_retry sends the request of the current step.
Call(op) ==
  /\ AtPc(op, "calling")
  /\ Move(op, "waiting")
  /\ UNCHANGED <<ops, alive>>

IsFinalize(op) == thread[op].index = StepCount(ops[op].plan)

\* _perform_step on success: the step is completed, the next one begins.
AnswerOk(op) ==
  /\ AtPc(op, "waiting")
  /\ SetSteps(op, [ops[op].steps EXCEPT ![thread[op].index] = "completed"])
  /\ thread' = [thread EXCEPT
                  ![op].pc = IF IsFinalize(op) THEN "completing" ELSE "calling",
                  ![op].index = IF IsFinalize(op) THEN @ ELSE @ + 1,
                  ![op].attempt = 1]
  /\ UNCHANGED alive

\* Mutant: _fail_step without set_steps.
FailStepUnrecorded(op, code) ==
  /\ thread' = [thread EXCEPT ![op].pc = "failing", ![op].code = code]
  /\ UNCHANGED <<ops, alive>>

\* _fail_step, first half: the failed step is persisted.
FailStep(op, code) ==
  /\ SetSteps(op, [ops[op].steps EXCEPT ![thread[op].index] = "failed"])
  /\ thread' = [thread EXCEPT ![op].pc = "failing", ![op].code = code]
  /\ UNCHANGED alive

\* PublicationBackendError is never retried.
AnswerRejected(op) ==
  /\ AtPc(op, "waiting")
  /\ FailStep(op, "rejected")

\* Mutant: every attempt is retried.
NetworkErrorRetried(op) ==
  /\ AtPc(op, "waiting")
  /\ Move(op, "resting")
  /\ UNCHANGED <<ops, alive>>

\* A connectivity failure or the 90 s timeout on the first attempt.
NetworkErrorFirst(op) ==
  /\ AtPc(op, "waiting")
  /\ thread[op].attempt = 1
  /\ Move(op, "resting")
  /\ UNCHANGED <<ops, alive>>

Retry(op) ==
  /\ AtPc(op, "resting")
  /\ thread' = [thread EXCEPT ![op].pc = "calling", ![op].attempt = 2]
  /\ UNCHANGED <<ops, alive>>

NetworkErrorAgain(op) ==
  /\ AtPc(op, "waiting")
  /\ thread[op].attempt = 2
  /\ FailStep(op, "backend_unreachable")

\* Any other exception of the call escapes to _run.
AnswerUnexpected(op) ==
  /\ AtPc(op, "waiting")
  /\ Move(op, "crashing")
  /\ UNCHANGED <<ops, alive>>

\* Mutant: _perform_step does not return False, and the loop goes on.
FinishFailedGoesOn(op) ==
  /\ AtPc(op, "failing")
  /\ FailOperation(op, thread[op].code)
  /\ Move(op, "calling")
  /\ UNCHANGED alive

\* _fail_step, second half.
FinishFailed(op) ==
  /\ AtPc(op, "failing")
  /\ FailOperation(op, thread[op].code)
  /\ Stop(op)
  /\ UNCHANGED alive

Complete(op) ==
  /\ AtPc(op, "completing")
  /\ CompleteOperation(op)
  /\ Stop(op)
  /\ UNCHANGED alive

\* A finalize response that _valid_operation_result refuses.
CompleteInvalid(op) ==
  /\ AtPc(op, "completing")
  /\ Move(op, "crashing")
  /\ UNCHANGED <<ops, alive>>

\* A store call of _run_operation raises; the exception reaches _run.
StoreFails(op) ==
  /\ "store" \in Faults
  /\ thread[op].pc \in {"starting", "waiting", "failing", "completing"}
  /\ alive
  /\ Move(op, "crashing")
  /\ UNCHANGED <<ops, alive>>

\* The except branch of _run.
RecordCrash(op) ==
  /\ AtPc(op, "crashing")
  /\ FailOperation(op, "publication_runner_error")
  /\ Stop(op)
  /\ UNCHANGED alive

\* fail_operation raises in the except branch: logged, and the thread ends.
RecordCrashFails(op) ==
  /\ "store" \in Faults
  /\ AtPc(op, "crashing")
  /\ Stop(op)
  /\ UNCHANGED <<ops, alive>>

-----------------------------------------------------------------------------
(* The controller process *)

Crash ==
  /\ "crash" \in Faults
  /\ alive
  /\ alive' = FALSE
  /\ thread' = [op \in Operations |-> Idle]
  /\ UNCHANGED ops

Restart ==
  /\ ~alive
  /\ alive' = TRUE
  /\ FailInterrupted
  /\ UNCHANGED thread

\* The steps of a thread that need no answer of the backend.
ThreadAlone(op) ==
  \/ Spawn(op)        \/ SpawnFails(op)   \/ Begin(op)
  \/ Retry(op)        \/ FinishFailed(op) \/ Complete(op)
  \/ CompleteInvalid(op) \/ StoreFails(op)
  \/ RecordCrash(op)  \/ RecordCrashFails(op)

Answer(op) ==
  \/ AnswerOk(op) \/ AnswerRejected(op) \/ AnswerUnexpected(op)
  \/ NetworkErrorFirst(op) \/ NetworkErrorAgain(op)

ThreadStep(op) == ThreadAlone(op) \/ Call(op) \/ Answer(op)

Next ==
  \/ \E ws \in Workspaces, op \in Operations, p \in Plans : Submit(ws, op, p)
  \/ \E op \in Operations : ThreadStep(op)
  \/ Crash
  \/ Restart

Spec == Init /\ [][Next]_runnerVars

\* Threads are scheduled, every call ends (urlopen has a timeout) and the
\* container is restarted by Compose; members submit when they please.
RunnerFairness ==
  /\ \A op \in Operations : WF_runnerVars(ThreadStep(op))
  /\ WF_runnerVars(Restart)

FairSpec == Spec /\ RunnerFairness

-----------------------------------------------------------------------------
(* Properties *)

\* Type invariant of the publication table, the threads and the process.
TypeOK ==
  /\ ops \in [Operations -> Row \cup {None}]
  /\ thread \in [Operations -> Thread]
  /\ alive \in BOOLEAN

\* Two members who press Publish at once: at most one operation of a workspace
\* is running, whatever the interleaving of submits, threads and restarts.
OneRunningPerWorkspace ==
  \A op1, op2 \in Operations :
    /\ Running(op1) /\ Running(op2)
    /\ ops[op1].workspace = ops[op2].workspace
    => op1 = op2

\* A live thread owns a running row: _finish_operation never answers
\* "Publication operation is not running" to the thread that runs it.
ThreadOwnsRunningRow ==
  \A op \in Operations : thread[op].pc # "none" => alive /\ Running(op)

\* Without store and thread start failures no row is left behind: while the
\* controller is up a running row has the thread that will settle it.
RunningRowHasThread ==
  Faults \subseteq {"crash"} =>
    \A op \in Operations : alive /\ Running(op) => thread[op].pc # "none"

\* What a poller is shown once the operation has settled agrees with its
\* outcome: every step of a completed operation is completed, and an operation
\* the backend failed shows exactly one failed step, the ones before it
\* completed and the ones after it pending.
CompletedSteps(p) == [i \in 1..StepCount(p) |-> "completed"]
FailedSteps(p, k) ==
  [i \in 1..StepCount(p) |-> IF i < k THEN "completed"
                             ELSE IF i = k THEN "failed" ELSE "pending"]

StepsTellTheOutcome ==
  \A op \in Operations : Settled(op) =>
    /\ ops[op].state = "completed" => ops[op].steps = CompletedSteps(ops[op].plan)
    /\ ops[op].error \in BackendCodes =>
         \E k \in 1..StepCount(ops[op].plan) :
           ops[op].steps = FailedSteps(ops[op].plan, k)

\* A settled operation never changes again: a late thread, a late answer or a
\* restart does not rewrite the result a member may already have read.
SettledIsFinal ==
  [][\A op \in Operations : Settled(op) => ops'[op] = ops[op]]_runnerVars

\* A submitted publication settles and frees its workspace, whatever crashes
\* happen, unless its thread could not start or could not record the outcome:
\* then the row stays, to be settled by the next start of the controller.
Stranded(op) == alive /\ Running(op) /\ thread[op].pc = "none"

OperationSettles(op) == Running(op) ~> Settled(op) \/ Stranded(op)

EveryOperationSettles == \A op \in Operations : OperationSettles(op)
=============================================================================
