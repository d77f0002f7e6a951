----------------------- MODULE PublicationRunnerProofs -----------------------
(***************************************************************************)
(* Proofs about PublicationRunner for every set of workspaces, operations, *)
(* plans and faults.                                                       *)
(***************************************************************************)
EXTENDS PublicationRunner, SequenceTheorems, TLAPS

\* The steps of an operation whose current step is number k.
ProgressSteps(p, k) ==
  [i \in 1..StepCount(p) |-> IF i < k THEN "completed" ELSE "pending"]

\* What a live thread knows of the steps it has persisted, and what a settled
\* row keeps of them.
StepsAgree(row, t) ==
  /\ t.pc \in {"calling", "waiting", "resting"} =>
       /\ t.index \in 1..StepCount(row.plan)
       /\ row.steps = ProgressSteps(row.plan, t.index)
  /\ t.pc = "failing" =>
       \E k \in 1..StepCount(row.plan) : row.steps = FailedSteps(row.plan, k)
  /\ t.pc = "completing" => row.steps = CompletedSteps(row.plan)
  /\ row.state = "completed" => row.steps = CompletedSteps(row.plan)
  /\ row.state = "running" => row.error = None
  /\ row.error \in BackendCodes =>
       \E k \in 1..StepCount(row.plan) : row.steps = FailedSteps(row.plan, k)

StepsInv ==
  \A op \in Operations : Exists(op) => StepsAgree(ops[op], thread[op])

\* _fail_step is left with a code only when it has been given one.
FailingThreadHasCode ==
  \A op \in Operations :
    thread[op].pc = "failing" => thread[op].code \in BackendCodes

\* Types alone are not inductive: a thread reads the plan of its row, which
\* exists because a live thread owns a running row.
BaseInv == TypeOK /\ ThreadOwnsRunningRow /\ FailingThreadHasCode

-----------------------------------------------------------------------------
(* Steps of a plan *)

\* A plan has at least the finalize step.
LEMMA StepCountType ==
  ASSUME NEW p \in Plans
  PROVE  StepCount(p) \in Nat /\ StepCount(p) >= 1
BY RunnerAssumption DEF StepCount

\* The three shapes of a step list are sequences of step states.
LEMMA StepListsType ==
  ASSUME NEW p \in Plans, NEW k
  PROVE  /\ InitialSteps(p) \in Seq(StepStates)
         /\ InitialSteps(p) = ProgressSteps(p, 1)
<1>1. StepCount(p) \in Nat
  BY StepCountType
<1>2. InitialSteps(p) \in Seq(StepStates)
  <2>1. \A i \in 1..StepCount(p) : "pending" \in StepStates
    BY DEF StepStates
  <2> QED BY <1>1, <2>1, IsASeq DEF InitialSteps
<1>3. InitialSteps(p) = ProgressSteps(p, 1)
  BY <1>1 DEF InitialSteps, ProgressSteps
<1> QED BY <1>2, <1>3

-----------------------------------------------------------------------------
(* Types, and which rows the live threads own *)

\* Marking a step keeps a step list a step list.
LEMMA ExceptStep ==
  ASSUME NEW steps \in Seq(StepStates), NEW i, NEW s \in StepStates
  PROVE  [steps EXCEPT ![i] = s] \in Seq(StepStates)
<1>1. CASE i \in 1..Len(steps)
  BY <1>1, ExceptSeq
<1>2. CASE i \notin 1..Len(steps)
  <2>1. [steps EXCEPT ![i] = s] = steps
    BY <1>2
  <2> QED BY <2>1
<1> QED BY <1>1, <1>2

\* A statement of the store rewrites one running row and keeps the table typed.
LEMMA UpdateRow ==
  ASSUME TypeOK, NEW op \in Operations, NEW row \in Row,
         ops' = [ops EXCEPT ![op] = row]
  PROVE  /\ ops' \in [Operations -> Row \cup {None}]
         /\ ops'[op] = row
         /\ Exists(op)'
         /\ \A o \in Operations \ {op} : ops'[o] = ops[o]
BY NullAssumption DEF TypeOK, Exists

LEMMA StoreStatement ==
  ASSUME TypeOK, NEW op \in Operations, Running(op)
  PROVE  /\ ops[op] \in Row
         /\ \A steps \in Seq(StepStates) : SetSteps(op, steps) =>
              LET row == [ops[op] EXCEPT !.steps = steps]
              IN  row \in Row /\ ops' = [ops EXCEPT ![op] = row]
         /\ CompleteOperation(op) =>
              LET row == [ops[op] EXCEPT !.state = "completed"]
              IN  row \in Row /\ ops' = [ops EXCEPT ![op] = row]
         /\ \A code \in ErrorCodes : FailOperation(op, code) =>
              LET row == [ops[op] EXCEPT !.state = "failed", !.error = code]
              IN  row \in Row /\ ops' = [ops EXCEPT ![op] = row]
<1>1. ops[op] \in Row
  BY DEF TypeOK, Running, Exists
<1>2. ASSUME NEW steps \in Seq(StepStates), SetSteps(op, steps)
      PROVE  LET row == [ops[op] EXCEPT !.steps = steps]
             IN  row \in Row /\ ops' = [ops EXCEPT ![op] = row]
  BY <1>1, <1>2 DEF Row, SetSteps
<1>3. ASSUME CompleteOperation(op)
      PROVE  LET row == [ops[op] EXCEPT !.state = "completed"]
             IN  row \in Row /\ ops' = [ops EXCEPT ![op] = row]
  BY <1>1, <1>3 DEF Row, CompleteOperation
<1>4. ASSUME NEW code \in ErrorCodes, FailOperation(op, code)
      PROVE  LET row == [ops[op] EXCEPT !.state = "failed", !.error = code]
             IN  row \in Row /\ ops' = [ops EXCEPT ![op] = row]
  BY <1>1, <1>4 DEF Row, FailOperation
<1> QED
  BY <1>1, <1>2, <1>3, <1>4

\* Every step of a live thread rewrites its own row, which is running, and its
\* own state, and lets go of the row when it settles it.
OwnStep(op, row, t) ==
  /\ Running(op)
  /\ alive /\ alive' = alive
  /\ ops' = [ops EXCEPT ![op] = row]
  /\ thread' = [thread EXCEPT ![op] = t]
  /\ row.workspace = ops[op].workspace
  /\ row.plan = ops[op].plan
  /\ t.pc # "none" => row.state = "running"
  /\ t.pc = "failing" => t.code \in BackendCodes
  /\ Faults \subseteq {"crash"} /\ row.state = "running" => t.pc # "none"

LEMMA ThreadStepIsOwnStep ==
  ASSUME BaseInv, NEW op \in Operations, ThreadStep(op)
  PROVE  \E row \in Row, t \in Thread : OwnStep(op, row, t)
<1> DEFINE row0 == ops[op]
           th == thread[op]
           stored == [ops EXCEPT ![op] = row0]
<1>1. /\ th \in Thread
      /\ alive \in BOOLEAN
      /\ th.pc # "none" => Running(op)
      /\ Running(op) => row0 \in Row /\ row0.state = "running"
  BY DEF BaseInv, TypeOK, ThreadOwnsRunningRow, Running, Exists
<1>2. ops = stored
  BY DEF BaseInv, TypeOK
<1>3. Idle \in Thread
  BY DEF Idle, Thread
<1>4. ASSUME NEW pc \in LivePcs \ {"failing"}, alive, th.pc # "none", Move(op, pc),
             ops' = ops, alive' = alive
      PROVE  \E row \in Row, t \in Thread : OwnStep(op, row, t)
  <2>1. [th EXCEPT !.pc = pc] \in Thread
    BY <1>1, <1>4 DEF Thread
  <2>2. OwnStep(op, row0, [th EXCEPT !.pc = pc])
    BY <1>1, <1>2, <1>4, <2>1 DEF OwnStep, Move, LivePcs
  <2> QED BY <1>1, <1>4, <2>1, <2>2
<1>5. ASSUME alive, th.pc # "none", Stop(op), ops' = ops, alive' = alive,
             ~(Faults \subseteq {"crash"})
      PROVE  \E row \in Row, t \in Thread : OwnStep(op, row, t)
  <2>1. OwnStep(op, row0, Idle)
    BY <1>1, <1>2, <1>5 DEF OwnStep, Stop, Idle
  <2> QED BY <1>1, <1>3, <1>5, <2>1
<1>6. ASSUME NEW code \in ErrorCodes, alive, th.pc # "none",
             FailOperation(op, code), Stop(op), alive' = alive
      PROVE  \E row \in Row, t \in Thread : OwnStep(op, row, t)
  <2> DEFINE row == [row0 EXCEPT !.state = "failed", !.error = code]
  <2>1. row \in Row /\ ops' = [ops EXCEPT ![op] = row]
    BY <1>1, <1>6, StoreStatement DEF BaseInv
  <2>2. row.workspace = row0.workspace /\ row.plan = row0.plan
        /\ row.state = "failed"
    BY <1>1, <1>6 DEF Row
  <2>3. OwnStep(op, row, Idle)
    BY <1>1, <1>6, <2>1, <2>2 DEF OwnStep, Stop, Idle
  <2> QED BY <1>3, <2>1, <2>3
<1>7. ASSUME NEW steps \in Seq(StepStates), NEW t \in Thread,
             alive, th.pc # "none", t.pc # "none", SetSteps(op, steps),
             t.pc = "failing" => t.code \in BackendCodes,
             thread' = [thread EXCEPT ![op] = t], alive' = alive
      PROVE  \E row \in Row, u \in Thread : OwnStep(op, row, u)
  <2> DEFINE row == [row0 EXCEPT !.steps = steps]
  <2>1. row \in Row /\ ops' = [ops EXCEPT ![op] = row]
    BY <1>1, <1>7, StoreStatement DEF BaseInv
  <2>2. row.workspace = row0.workspace /\ row.plan = row0.plan
        /\ row.state = "running"
    BY <1>1, <1>7 DEF Row
  <2>3. OwnStep(op, row, t)
    BY <1>1, <1>7, <2>1, <2>2 DEF OwnStep
  <2> QED BY <1>7, <2>1, <2>3
<1>8. ASSUME Running(op), NEW i, NEW s \in StepStates
      PROVE  [ops[op].steps EXCEPT ![i] = s] \in Seq(StepStates)
  BY <1>1, <1>8, ExceptStep DEF Row
<1>9. ASSUME NEW code \in BackendCodes, AtPc(op, "waiting"),
             FailStep(op, code)
      PROVE  \E row \in Row, t \in Thread : OwnStep(op, row, t)
  <2> DEFINE t == [th EXCEPT !.pc = "failing", !.code = code]
  <2>1. t \in Thread /\ t.pc = "failing" /\ t.code = code
    BY <1>1, <1>9 DEF Thread, LivePcs
  <2>2. thread' = [thread EXCEPT ![op] = t]
    BY <1>9 DEF FailStep, BaseInv, TypeOK
  <2>3. [ops[op].steps EXCEPT ![th.index] = "failed"] \in Seq(StepStates)
    BY <1>1, <1>8, <1>9 DEF AtPc, StepStates
  <2> QED BY <1>7, <1>9, <2>1, <2>2, <2>3 DEF FailStep, AtPc
<1> USE DEF AtPc
<1>10. CASE Spawn(op)
  BY <1>4, <1>10 DEF Spawn, LivePcs
<1>11. CASE SpawnFails(op)
  BY <1>5, <1>11 DEF SpawnFails
<1>12. CASE Begin(op)
  <2> DEFINE t == [th EXCEPT !.pc = "calling", !.index = 1]
  <2>1. t \in Thread /\ t.pc = "calling"
    BY <1>1 DEF Thread, LivePcs
  <2>2. thread' = [thread EXCEPT ![op] = t]
    BY <1>12 DEF Begin, BaseInv, TypeOK
  <2>3. InitialSteps(ops[op].plan) \in Seq(StepStates)
    BY <1>1, <1>12, StepListsType DEF Begin, Row
  <2> QED BY <1>7, <1>12, <2>1, <2>2, <2>3 DEF Begin
<1>13. CASE Call(op)
  BY <1>4, <1>13 DEF Call, LivePcs
<1>14. CASE AnswerOk(op)
  <2> DEFINE t == [th EXCEPT
                     !.pc = IF IsFinalize(op) THEN "completing" ELSE "calling",
                     !.index = IF IsFinalize(op) THEN @ ELSE @ + 1,
                     !.attempt = 1]
  <2>1. t \in Thread /\ t.pc \in {"completing", "calling"}
    <3>1. th.index + 1 \in Nat
      BY <1>1 DEF Thread
    <3>2. CASE IsFinalize(op)
      BY <1>1, <3>2 DEF Thread, LivePcs
    <3>3. CASE ~IsFinalize(op)
      BY <1>1, <3>1, <3>3 DEF Thread, LivePcs
    <3> QED BY <3>2, <3>3
  <2>2. thread' = [thread EXCEPT ![op] = t]
    BY <1>14 DEF AnswerOk, BaseInv, TypeOK
  <2>3. [ops[op].steps EXCEPT ![th.index] = "completed"] \in Seq(StepStates)
    BY <1>1, <1>8, <1>14 DEF AnswerOk, StepStates
  <2> QED BY <1>7, <1>14, <2>1, <2>2, <2>3 DEF AnswerOk
<1>15. CASE AnswerRejected(op)
  BY <1>9, <1>15 DEF AnswerRejected, BackendCodes
<1>16. CASE NetworkErrorFirst(op)
  BY <1>4, <1>16 DEF NetworkErrorFirst, LivePcs
<1>17. CASE Retry(op)
  <2> DEFINE t == [th EXCEPT !.pc = "calling", !.attempt = 2]
  <2>1. t \in Thread /\ t.pc = "calling"
    BY <1>1 DEF Thread, LivePcs
  <2>2. thread' = [thread EXCEPT ![op] = t]
    BY <1>17 DEF Retry, BaseInv, TypeOK
  <2>3. OwnStep(op, row0, t)
    BY <1>1, <1>2, <1>17, <2>1, <2>2 DEF OwnStep, Retry
  <2> QED BY <1>1, <1>17, <2>1, <2>3 DEF Retry
<1>18. CASE NetworkErrorAgain(op)
  BY <1>9, <1>18 DEF NetworkErrorAgain, BackendCodes
<1>19. CASE AnswerUnexpected(op)
  BY <1>4, <1>19 DEF AnswerUnexpected, LivePcs
<1>20. CASE FinishFailed(op)
  <2>1. th.code \in ErrorCodes
    BY <1>20 DEF FinishFailed, BaseInv, FailingThreadHasCode, ErrorCodes
  <2> QED BY <1>6, <1>20, <2>1 DEF FinishFailed
<1>21. CASE Complete(op)
  <2> DEFINE row == [row0 EXCEPT !.state = "completed"]
  <2>1. row \in Row /\ ops' = [ops EXCEPT ![op] = row]
    BY <1>1, <1>21, StoreStatement DEF BaseInv, Complete
  <2>2. row.workspace = row0.workspace /\ row.plan = row0.plan
        /\ row.state = "completed"
    BY <1>1, <1>21 DEF Row, Complete
  <2>3. OwnStep(op, row, Idle)
    BY <1>1, <1>21, <2>1, <2>2 DEF OwnStep, Stop, Idle, Complete
  <2> QED BY <1>3, <2>1, <2>3
<1>22. CASE CompleteInvalid(op)
  BY <1>4, <1>22 DEF CompleteInvalid, LivePcs
<1>23. CASE StoreFails(op)
  BY <1>4, <1>23 DEF StoreFails, LivePcs
<1>24. CASE RecordCrash(op)
  BY <1>6, <1>24 DEF RecordCrash, ErrorCodes
<1>25. CASE RecordCrashFails(op)
  BY <1>5, <1>25 DEF RecordCrashFails
<1> QED
  BY <1>10, <1>11, <1>12, <1>13, <1>14, <1>15, <1>16, <1>17, <1>18, <1>19,
     <1>20, <1>21, <1>22, <1>23, <1>24, <1>25
  DEF ThreadStep, ThreadAlone, Answer

\* The initial state and every step keep BaseInv.
LEMMA BaseInit == Init => BaseInv
BY DEF Init, BaseInv, TypeOK, ThreadOwnsRunningRow, FailingThreadHasCode, Idle,
       Thread

LEMMA BaseNext == BaseInv /\ [Next]_runnerVars => BaseInv'
<1> SUFFICES ASSUME BaseInv, [Next]_runnerVars
             PROVE  BaseInv'
  OBVIOUS
<1> USE DEF BaseInv
<1>1. ASSUME NEW ws \in Workspaces, NEW op \in Operations, NEW p \in Plans,
             Submit(ws, op, p)
      PROVE  BaseInv'
  <2> DEFINE row == [workspace |-> ws, plan |-> p, state |-> "running",
                     error |-> None, steps |-> <<>>]
             t == [Idle EXCEPT !.pc = "admitted"]
  <2>1. row \in Row
    BY DEF Row
  <2>2. t \in Thread /\ t.pc = "admitted"
    BY DEF Thread, Idle, LivePcs
  <2>3. ops' = [ops EXCEPT ![op] = row] /\ thread' = [thread EXCEPT ![op] = t]
        /\ alive /\ alive' = alive
    BY <1>1 DEF Submit, StartOperation
  <2>4. Running(op)' /\ \A o \in Operations \ {op} : ops'[o] = ops[o]
    BY <2>1, <2>3, UpdateRow DEF Running
  <2>5. TypeOK'
    BY <2>1, <2>2, <2>3, UpdateRow DEF TypeOK
  <2>6. ThreadOwnsRunningRow'
    BY <2>2, <2>3, <2>4 DEF TypeOK, ThreadOwnsRunningRow, Running, Exists
  <2>7. FailingThreadHasCode'
    BY <2>2, <2>3 DEF TypeOK, FailingThreadHasCode
  <2> QED BY <2>5, <2>6, <2>7
<1>2. ASSUME NEW op \in Operations, ThreadStep(op)
      PROVE  BaseInv'
  <2>1. PICK row \in Row, t \in Thread : OwnStep(op, row, t)
    BY <1>2, ThreadStepIsOwnStep
  <2>2. /\ ops' \in [Operations -> Row \cup {None}]
        /\ ops'[op] = row
        /\ Exists(op)'
        /\ \A o \in Operations \ {op} : ops'[o] = ops[o]
    BY <2>1, UpdateRow DEF OwnStep
  <2>3. /\ thread' \in [Operations -> Thread]
        /\ thread'[op] = t
        /\ \A o \in Operations \ {op} : thread'[o] = thread[o]
    BY <2>1 DEF OwnStep, TypeOK
  <2>4. TypeOK'
    BY <2>1, <2>2, <2>3 DEF TypeOK, OwnStep
  <2>5. ThreadOwnsRunningRow'
    BY <2>1, <2>2, <2>3 DEF OwnStep, ThreadOwnsRunningRow, Running, Exists
  <2>6. FailingThreadHasCode'
    BY <2>1, <2>3 DEF OwnStep, FailingThreadHasCode
  <2> QED BY <2>4, <2>5, <2>6
<1>3. CASE Crash
  BY <1>3 DEF Crash, TypeOK, ThreadOwnsRunningRow, FailingThreadHasCode, Idle,
              Thread
<1>4. CASE Restart
  <2>1. \A op \in Operations : Running(op) =>
          [ops[op] EXCEPT !.state = "failed", !.error = "controller_restarted"]
            \in Row
    BY DEF TypeOK, Running, Exists, Row, ErrorCodes
  <2>2. ops' \in [Operations -> Row \cup {None}]
    BY <1>4, <2>1 DEF Restart, FailInterrupted, TypeOK
  <2>3. \A op \in Operations : thread'[op].pc = "none"
    BY <1>4 DEF Restart, ThreadOwnsRunningRow
  <2> QED
    BY <1>4, <2>2, <2>3
    DEF Restart, TypeOK, ThreadOwnsRunningRow, FailingThreadHasCode
<1>5. CASE UNCHANGED runnerVars
  BY <1>5 DEF runnerVars, TypeOK, ThreadOwnsRunningRow, FailingThreadHasCode,
              Running, Exists
<1> QED
  BY <1>1, <1>2, <1>3, <1>4, <1>5 DEF Next

\* Types of the publication table, the threads and the process, for every
\* number of workspaces, operations and media items.
THEOREM TypeCorrect == Spec => []TypeOK
<1>1. BaseInv => TypeOK
  BY DEF BaseInv
<1> QED
  BY BaseInit, BaseNext, <1>1, PTL DEF Spec

\* A live thread always owns a running row, so that complete_operation and
\* fail_operation never answer "not running" to it.
THEOREM ThreadOwnership == Spec => []ThreadOwnsRunningRow
<1>1. BaseInv => ThreadOwnsRunningRow
  BY DEF BaseInv
<1> QED
  BY BaseInit, BaseNext, <1>1, PTL DEF Spec

-----------------------------------------------------------------------------
(* One running operation per workspace, and a thread for each *)

LEMMA OneRunningNext ==
  BaseInv /\ OneRunningPerWorkspace /\ [Next]_runnerVars
    => OneRunningPerWorkspace'
<1> SUFFICES ASSUME BaseInv, OneRunningPerWorkspace, [Next]_runnerVars
             PROVE  OneRunningPerWorkspace'
  OBVIOUS
<1> USE DEF BaseInv
<1>1. ASSUME NEW ws \in Workspaces, NEW op \in Operations, NEW p \in Plans,
             Submit(ws, op, p)
      PROVE  OneRunningPerWorkspace'
  <2>1. /\ \A o \in Operations \ {op} : ops'[o] = ops[o]
        /\ ops'[op].workspace = ws
    BY <1>1 DEF Submit, StartOperation, TypeOK
  <2>2. \A o \in Operations : Running(o) => ops[o].workspace # ws
    BY <1>1 DEF Submit, StartOperation, RunningIn
  <2> QED
    BY <2>1, <2>2 DEF OneRunningPerWorkspace, Running, Exists
<1>2. ASSUME NEW op \in Operations, ThreadStep(op)
      PROVE  OneRunningPerWorkspace'
  <2>1. PICK row \in Row, t \in Thread : OwnStep(op, row, t)
    BY <1>2, ThreadStepIsOwnStep
  <2>2. /\ \A o \in Operations \ {op} : ops'[o] = ops[o]
        /\ ops'[op].workspace = ops[op].workspace
        /\ Running(op)
    BY <2>1, UpdateRow DEF OwnStep
  <2> QED
    BY <2>2 DEF OneRunningPerWorkspace, Running, Exists
<1>3. CASE Restart
  <2>1. \A op \in Operations : ~Running(op)'
    BY <1>3 DEF Restart, FailInterrupted, Running, Exists, TypeOK, Row
  <2> QED BY <2>1 DEF OneRunningPerWorkspace
<1>4. CASE Crash \/ UNCHANGED runnerVars
  BY <1>4 DEF Crash, runnerVars, OneRunningPerWorkspace, Running, Exists
<1> QED
  BY <1>1, <1>2, <1>3, <1>4 DEF Next

\* However submits, threads, crashes and restarts interleave, the controller
\* runs at most one publication of a workspace at a time.
THEOREM MutualExclusion == Spec => []OneRunningPerWorkspace
<1>1. Init => OneRunningPerWorkspace
  BY DEF Init, OneRunningPerWorkspace, Running, Exists
<1> QED
  BY BaseInit, BaseNext, OneRunningNext, <1>1, PTL DEF Spec

LEMMA HasThreadNext ==
  BaseInv /\ RunningRowHasThread /\ [Next]_runnerVars => RunningRowHasThread'
<1> SUFFICES ASSUME BaseInv, RunningRowHasThread, [Next]_runnerVars,
                    Faults \subseteq {"crash"}, NEW o \in Operations,
                    alive', Running(o)'
             PROVE  thread'[o].pc # "none"
  BY DEF RunningRowHasThread
<1> USE DEF BaseInv
<1>1. alive /\ Running(o) => thread[o].pc # "none"
  BY DEF RunningRowHasThread
<1>2. ASSUME NEW ws \in Workspaces, NEW op \in Operations, NEW p \in Plans,
             Submit(ws, op, p)
      PROVE  thread'[o].pc # "none"
  <2>1. CASE o = op
    BY <1>2, <2>1 DEF Submit, Idle, TypeOK
  <2>2. CASE o # op
    BY <1>1, <1>2, <2>2 DEF Submit, StartOperation, TypeOK, Running, Exists
  <2> QED BY <2>1, <2>2
<1>3. ASSUME NEW op \in Operations, ThreadStep(op)
      PROVE  thread'[o].pc # "none"
  <2>1. PICK row \in Row, t \in Thread : OwnStep(op, row, t)
    BY <1>3, ThreadStepIsOwnStep
  <2>2. ops'[op] = row /\ \A x \in Operations \ {op} : ops'[x] = ops[x]
    BY <2>1, UpdateRow DEF OwnStep
  <2>3. thread'[op] = t /\ \A x \in Operations \ {op} : thread'[x] = thread[x]
    BY <2>1 DEF OwnStep, TypeOK
  <2> QED BY <1>1, <2>1, <2>2, <2>3 DEF OwnStep, Running, Exists
<1>4. CASE Restart
  BY <1>4 DEF Restart, FailInterrupted, Running, Exists, TypeOK, Row
<1>5. CASE Crash
  BY <1>5 DEF Crash
<1>6. CASE UNCHANGED runnerVars
  BY <1>1, <1>6 DEF runnerVars, Running, Exists
<1> QED
  BY <1>2, <1>3, <1>4, <1>5, <1>6 DEF Next

\* If stores and thread starts do not fail, every running row of a live
\* controller has the thread that will settle it: no crash strands a row.
THEOREM NoStrandedRow == Spec => []RunningRowHasThread
<1>1. Init => RunningRowHasThread
  BY DEF Init, RunningRowHasThread, Running, Exists
<1> QED
  BY BaseInit, BaseNext, HasThreadNext, <1>1, PTL DEF Spec

-----------------------------------------------------------------------------
(* Settled rows *)

\* A row that is not running is never written again.
LEMMA SettledNext ==
  BaseInv /\ [Next]_runnerVars
    => \A o \in Operations : Settled(o) => ops'[o] = ops[o]
<1> SUFFICES ASSUME BaseInv, [Next]_runnerVars, NEW o \in Operations, Settled(o)
             PROVE  ops'[o] = ops[o]
  OBVIOUS
<1> USE DEF BaseInv, Settled
<1>1. ASSUME NEW ws \in Workspaces, NEW op \in Operations, NEW p \in Plans,
             Submit(ws, op, p)
      PROVE  ops'[o] = ops[o]
  BY <1>1 DEF Submit, StartOperation, TypeOK
<1>2. ASSUME NEW op \in Operations, ThreadStep(op)
      PROVE  ops'[o] = ops[o]
  <2>1. PICK row \in Row, t \in Thread : OwnStep(op, row, t)
    BY <1>2, ThreadStepIsOwnStep
  <2>2. \A x \in Operations \ {op} : ops'[x] = ops[x]
    BY <2>1, UpdateRow DEF OwnStep
  <2> QED BY <2>1, <2>2 DEF OwnStep, Running
<1>3. CASE Restart
  BY <1>3 DEF Restart, FailInterrupted, Running
<1>4. CASE Crash \/ UNCHANGED runnerVars
  BY <1>4 DEF Crash, runnerVars
<1> QED
  BY <1>1, <1>2, <1>3, <1>4 DEF Next

\* A settled operation keeps its outcome for ever: the result a member has read
\* is never rewritten by a late thread, an answer or a restart.
THEOREM OutcomeIsFinal == Spec => SettledIsFinal
<1>1. BaseInv /\ [Next]_runnerVars
        => [\A op \in Operations : Settled(op) => ops'[op] = ops[op]]_runnerVars
  BY SettledNext
<1> QED
  BY BaseInit, BaseNext, <1>1, PTL DEF Spec, SettledIsFinal

-----------------------------------------------------------------------------
(* The steps a poller is shown *)

LEMMA MarkStep ==
  ASSUME NEW p \in Plans, NEW k \in 1..StepCount(p)
  PROVE  /\ [ProgressSteps(p, k) EXCEPT ![k] = "completed"]
               = ProgressSteps(p, k + 1)
         /\ [ProgressSteps(p, k) EXCEPT ![k] = "failed"] = FailedSteps(p, k)
         /\ ProgressSteps(p, StepCount(p) + 1) = CompletedSteps(p)
<1>1. StepCount(p) \in Nat
  BY StepCountType
<1> DEFINE f(s) == [ProgressSteps(p, k) EXCEPT ![k] = s]
<1>5. \A s : /\ f(s) = [i \in 1..StepCount(p) |-> f(s)[i]]
             /\ \A i \in 1..StepCount(p) :
                  f(s)[i] = IF i = k THEN s
                            ELSE IF i < k THEN "completed" ELSE "pending"
  BY <1>1 DEF ProgressSteps
<1> HIDE DEF f
<1>2. f("completed") = ProgressSteps(p, k + 1)
  <2>1. \A i \in 1..StepCount(p) :
          f("completed")[i] = IF i < k + 1 THEN "completed" ELSE "pending"
    BY <1>1, <1>5
  <2> QED BY <1>5, <2>1 DEF ProgressSteps
<1>3. f("failed") = FailedSteps(p, k)
  <2>1. \A i \in 1..StepCount(p) :
          f("failed")[i] = IF i < k THEN "completed"
                           ELSE IF i = k THEN "failed" ELSE "pending"
    BY <1>1, <1>5
  <2> QED BY <1>5, <2>1 DEF FailedSteps
<1>4. ProgressSteps(p, StepCount(p) + 1) = CompletedSteps(p)
  BY <1>1 DEF ProgressSteps, CompletedSteps
<1> QED
  BY <1>2, <1>3, <1>4 DEF f

LEMMA ThreadStepAgrees ==
  ASSUME BaseInv, NEW op \in Operations, ThreadStep(op),
         StepsAgree(ops[op], thread[op])
  PROVE  StepsAgree(ops'[op], thread'[op])
<1> DEFINE row0 == ops[op]
           th == thread[op]
<1>1. /\ th \in Thread
      /\ Running(op)
      /\ row0 \in Row /\ row0.state = "running"
      /\ ops \in [Operations -> Row \cup {None}]
      /\ thread \in [Operations -> Thread]
  <2>1. PICK row \in Row, t \in Thread : OwnStep(op, row, t)
    BY ThreadStepIsOwnStep
  <2> QED
    BY <2>1 DEF OwnStep, BaseInv, TypeOK, Running, Exists
<1>2. /\ row0.plan \in Plans
      /\ row0.error = None /\ None \notin BackendCodes
      /\ StepCount(row0.plan) \in Nat
      /\ StepCount(row0.plan) >= 1
  BY <1>1, StepCountType, NullAssumption DEF Row, StepsAgree, ErrorCodes
<1>3. ASSUME ops' = ops, thread'[op].pc \in {"none", "admitted", "starting", "crashing"}
      PROVE  StepsAgree(ops'[op], thread'[op])
  BY <1>1, <1>3 DEF StepsAgree
<1>4. ASSUME ops' = ops, thread'[op].index = th.index,
             th.pc \in {"calling", "waiting", "resting"},
             thread'[op].pc \in {"calling", "waiting", "resting"}
      PROVE  StepsAgree(ops'[op], thread'[op])
  BY <1>1, <1>4 DEF StepsAgree
<1>5. ASSUME NEW code \in BackendCodes, AtPc(op, "waiting"), FailStep(op, code)
      PROVE  StepsAgree(ops'[op], thread'[op])
  <2>1. /\ th.index \in 1..StepCount(row0.plan)
        /\ row0.steps = ProgressSteps(row0.plan, th.index)
    BY <1>5 DEF AtPc, StepsAgree
  <2>2. ops'[op] = [row0 EXCEPT !.steps = FailedSteps(row0.plan, th.index)]
    <3>1. ops'[op] = [row0 EXCEPT !.steps = [row0.steps EXCEPT ![th.index] = "failed"]]
      BY <1>1, <1>5 DEF FailStep, SetSteps
    <3>2. [row0.steps EXCEPT ![th.index] = "failed"]
            = FailedSteps(row0.plan, th.index)
      BY <1>2, <2>1, MarkStep
    <3> QED BY <3>1, <3>2
  <2>3. thread'[op].pc = "failing"
    BY <1>1, <1>5 DEF FailStep, Thread
  <2>4. /\ ops'[op].plan = row0.plan /\ ops'[op].state = "running"
        /\ ops'[op].error = row0.error
        /\ ops'[op].steps = FailedSteps(row0.plan, th.index)
    BY <1>1, <2>2 DEF Row
  <2> QED BY <1>2, <2>1, <2>3, <2>4 DEF StepsAgree
<1>6. CASE Begin(op)
  <2>1. ops'[op] = [row0 EXCEPT !.steps = InitialSteps(row0.plan)]
    BY <1>1, <1>6 DEF Begin, SetSteps
  <2>2. thread'[op].pc = "calling" /\ thread'[op].index = 1
    BY <1>1, <1>6 DEF Begin, Thread
  <2>3. /\ ops'[op].plan = row0.plan /\ ops'[op].state = "running"
        /\ ops'[op].error = row0.error
        /\ ops'[op].steps = ProgressSteps(row0.plan, 1)
    BY <1>1, <1>2, <2>1, StepListsType DEF Row
  <2> QED BY <1>2, <2>2, <2>3 DEF StepsAgree
<1>7. CASE AnswerOk(op)
  <2>1. /\ th.index \in 1..StepCount(row0.plan)
        /\ row0.steps = ProgressSteps(row0.plan, th.index)
    BY <1>7 DEF AnswerOk, AtPc, StepsAgree
  <2>2. ops'[op] = [row0 EXCEPT !.steps = ProgressSteps(row0.plan, th.index + 1)]
    <3>1. ops'[op] = [row0 EXCEPT !.steps = [row0.steps EXCEPT ![th.index] = "completed"]]
      BY <1>1, <1>7 DEF AnswerOk, SetSteps
    <3> QED BY <1>2, <2>1, <3>1, MarkStep
  <2>3. /\ ops'[op].plan = row0.plan /\ ops'[op].state = "running"
        /\ ops'[op].error = row0.error
        /\ ops'[op].steps = ProgressSteps(row0.plan, th.index + 1)
    BY <1>1, <2>2 DEF Row
  <2>4. CASE th.index = StepCount(row0.plan)
    <3>1. thread'[op].pc = "completing"
      BY <1>1, <1>7, <2>4 DEF AnswerOk, IsFinalize, Thread
    <3>2. ops'[op].steps = CompletedSteps(row0.plan)
      BY <1>2, <2>1, <2>3, <2>4, MarkStep
    <3> QED BY <1>2, <2>3, <3>1, <3>2 DEF StepsAgree
  <2>5. CASE th.index # StepCount(row0.plan)
    <3>1. thread'[op].pc = "calling" /\ thread'[op].index = th.index + 1
      BY <1>1, <1>7, <2>5 DEF AnswerOk, IsFinalize, Thread
    <3> QED BY <1>2, <2>1, <2>3, <2>5, <3>1 DEF StepsAgree
  <2> QED BY <2>4, <2>5
<1>8. CASE FinishFailed(op)
  <2>1. \E k \in 1..StepCount(row0.plan) : row0.steps = FailedSteps(row0.plan, k)
    BY <1>8 DEF FinishFailed, AtPc, StepsAgree
  <2>2. ops'[op] = [row0 EXCEPT !.state = "failed", !.error = th.code]
    BY <1>1, <1>8 DEF FinishFailed, FailOperation
  <2>3. thread'[op] = Idle
    BY <1>1, <1>8 DEF FinishFailed, Stop
  <2>4. /\ ops'[op].plan = row0.plan /\ ops'[op].state = "failed"
        /\ ops'[op].steps = row0.steps
    BY <1>1, <2>2 DEF Row
  <2>5. \E k \in 1..StepCount(ops'[op].plan) :
          ops'[op].steps = FailedSteps(ops'[op].plan, k)
    BY <2>1, <2>4
  <2> QED BY <2>3, <2>4, <2>5 DEF StepsAgree, Idle
<1>9. CASE Complete(op)
  <2>1. row0.steps = CompletedSteps(row0.plan)
    BY <1>9 DEF Complete, AtPc, StepsAgree
  <2>2. ops'[op] = [row0 EXCEPT !.state = "completed"]
    BY <1>1, <1>9 DEF Complete, CompleteOperation
  <2>3. thread'[op] = Idle
    BY <1>1, <1>9 DEF Complete, Stop
  <2>4. /\ ops'[op].plan = row0.plan /\ ops'[op].error = row0.error
        /\ ops'[op].steps = row0.steps
    BY <1>1, <2>2 DEF Row
  <2> QED BY <1>2, <2>1, <2>3, <2>4 DEF StepsAgree, Idle
<1>10. CASE RecordCrash(op)
  <2>1. ops'[op] = [row0 EXCEPT !.state = "failed",
                                !.error = "publication_runner_error"]
    BY <1>1, <1>10 DEF RecordCrash, FailOperation
  <2>2. thread'[op] = Idle
    BY <1>1, <1>10 DEF RecordCrash, Stop
  <2>3. ops'[op].state = "failed" /\ ops'[op].error \notin BackendCodes
    BY <1>1, <2>1 DEF Row, BackendCodes
  <2> QED BY <2>2, <2>3 DEF StepsAgree, Idle
<1>11. CASE Spawn(op) \/ CompleteInvalid(op) \/ StoreFails(op) \/ AnswerUnexpected(op)
  BY <1>1, <1>3, <1>11
  DEF Spawn, CompleteInvalid, StoreFails, AnswerUnexpected, Move, Thread
<1>12. CASE SpawnFails(op) \/ RecordCrashFails(op)
  BY <1>1, <1>3, <1>12 DEF SpawnFails, RecordCrashFails, Stop, Idle
<1>13. CASE Call(op) \/ NetworkErrorFirst(op)
  BY <1>1, <1>4, <1>13 DEF Call, NetworkErrorFirst, Move, AtPc, Thread
<1>14. CASE Retry(op)
  BY <1>1, <1>4, <1>14 DEF Retry, AtPc, Thread
<1>15. CASE AnswerRejected(op) \/ NetworkErrorAgain(op)
  BY <1>5, <1>15 DEF AnswerRejected, NetworkErrorAgain, BackendCodes
<1> QED
  BY <1>6, <1>7, <1>8, <1>9, <1>10, <1>11, <1>12, <1>13, <1>14, <1>15
  DEF ThreadStep, ThreadAlone, Answer

LEMMA StepsInit == Init => StepsInv
BY DEF Init, StepsInv, Exists

LEMMA StepsNext == BaseInv /\ StepsInv /\ [Next]_runnerVars => StepsInv'
<1> SUFFICES ASSUME BaseInv, StepsInv, [Next]_runnerVars,
                    NEW o \in Operations, Exists(o)'
             PROVE  StepsAgree(ops'[o], thread'[o])
  BY DEF StepsInv
<1> USE DEF BaseInv
<1>1. Exists(o) => StepsAgree(ops[o], thread[o])
  BY DEF StepsInv
<1>2. ASSUME NEW ws \in Workspaces, NEW op \in Operations, NEW p \in Plans,
             Submit(ws, op, p)
      PROVE  StepsAgree(ops'[o], thread'[o])
  <2>1. CASE o = op
    <3>1. /\ ops'[o].state = "running" /\ ops'[o].error = None
          /\ thread'[o].pc = "admitted"
      BY <1>2, <2>1 DEF Submit, StartOperation, TypeOK, Idle
    <3>2. None \notin BackendCodes
      BY NullAssumption DEF ErrorCodes
    <3> QED BY <3>1, <3>2 DEF StepsAgree
  <2>2. CASE o # op
    BY <1>1, <1>2, <2>2 DEF Submit, StartOperation, TypeOK, Exists
  <2> QED BY <2>1, <2>2
<1>3. ASSUME NEW op \in Operations, ThreadStep(op)
      PROVE  StepsAgree(ops'[o], thread'[o])
  <2>1. PICK row \in Row, t \in Thread : OwnStep(op, row, t)
    BY <1>3, ThreadStepIsOwnStep
  <2>2. /\ \A x \in Operations \ {op} : ops'[x] = ops[x]
        /\ \A x \in Operations \ {op} : thread'[x] = thread[x]
        /\ Exists(op)
    BY <2>1, UpdateRow DEF OwnStep, TypeOK, Running
  <2>3. CASE o = op
    BY <1>1, <1>3, <2>2, <2>3, ThreadStepAgrees
  <2>4. CASE o # op
    BY <1>1, <2>2, <2>4 DEF Exists
  <2> QED BY <2>3, <2>4
<1>4. CASE Restart
  <2>1. thread'[o].pc = "none"
    BY <1>4 DEF Restart, ThreadOwnsRunningRow
  <2>2. CASE Running(o)
    <3>1. ops'[o].state = "failed" /\ ops'[o].error = "controller_restarted"
      BY <1>4, <2>2 DEF Restart, FailInterrupted, TypeOK, Running, Exists, Row
    <3> QED BY <2>1, <3>1 DEF StepsAgree, BackendCodes
  <2>3. CASE ~Running(o)
    <3>1. ops'[o] = ops[o]
      BY <1>4, <2>3 DEF Restart, FailInterrupted
    <3> QED BY <1>1, <2>1, <3>1 DEF StepsAgree, Exists
  <2> QED BY <2>2, <2>3
<1>5. CASE Crash
  BY <1>1, <1>5 DEF Crash, Idle, StepsAgree, Exists
<1>6. CASE UNCHANGED runnerVars
  BY <1>1, <1>6 DEF runnerVars, Exists
<1> QED
  BY <1>2, <1>3, <1>4, <1>5, <1>6 DEF Next

\* What a poller sees of a settled operation tells its outcome: all steps of a
\* completed one are completed, one the backend failed shows where it stopped.
THEOREM StepsAreTruthful == Spec => []StepsTellTheOutcome
<1>1. StepsInv => StepsTellTheOutcome
  BY DEF StepsInv, StepsTellTheOutcome, StepsAgree, Settled
<1> QED
  BY BaseInit, BaseNext, StepsInit, StepsNext, <1>1, PTL DEF Spec

=============================================================================
