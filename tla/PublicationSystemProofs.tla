----------------------- MODULE PublicationSystemProofs -----------------------
(***************************************************************************)
(* What controller and backend promise together, for any number of drafts, *)
(* media, requests, operations, deletions and faults.  The two are proved  *)
(* about apart, in PublicationRunnerProofs and PublicWxPostProofs; every   *)
(* step of the composition is a step of each, or leaves it alone.          *)
(***************************************************************************)
EXTENDS PublicationSystem, PublicWxPostProofs

RP == INSTANCE PublicationRunnerProofs WITH
        Workspaces <- {"workspace"}, Plans <- Plan,
        ItemCount  <- [p \in Plan |-> Len(ItemsOf(p))],
        Faults     <- Faults \cap {"crash"}

-----------------------------------------------------------------------------
(* The runner in the composition *)

LEMMA RunnerAssumptions == RP!RunnerAssumption /\ RP!NullAssumption
<1>1. \A p \in Plan : Len(ItemsOf(p)) \in Nat
  BY SystemAssumption DEF ItemsOf
<1>2. RP!RunnerAssumption
  BY <1>1 DEF RP!RunnerAssumption, RP!FaultKinds
<1>3. RP!NullAssumption
  BY NoneAssumption DEF RP!NullAssumption, RP!Row, R!Row, RP!ErrorCodes, R!ErrorCodes,
     RP!BackendCodes, R!BackendCodes, RP!StepStates, R!StepStates
<1> QED BY <1>2, <1>3

\* The module of proofs speaks of the same steps as the composition.
LEMMA SameSteps == R!Next <=> RP!Next
BY DEF R!BackendCodes, RP!BackendCodes, R!ErrorCodes, RP!ErrorCodes, R!StepCount,
       RP!StepCount, R!InitialSteps, RP!InitialSteps, R!Idle, RP!Idle, R!Exists,
       RP!Exists, R!Running, RP!Running, R!AtPc, RP!AtPc, R!RunningIn, RP!RunningIn,
       R!StartOperation, RP!StartOperation, R!SetSteps, RP!SetSteps,
       R!CompleteOperation, RP!CompleteOperation, R!FailOperation, RP!FailOperation,
       R!FailInterrupted, RP!FailInterrupted, R!Move, RP!Move, R!Stop, RP!Stop,
       R!Submit, RP!Submit, R!Spawn, RP!Spawn, R!SpawnFails, RP!SpawnFails, R!Begin,
       RP!Begin, R!Call, RP!Call, R!IsFinalize, RP!IsFinalize, R!AnswerOk,
       RP!AnswerOk, R!FailStep, RP!FailStep, R!AnswerRejected, RP!AnswerRejected,
       R!NetworkErrorFirst, RP!NetworkErrorFirst, R!Retry, RP!Retry,
       R!NetworkErrorAgain, RP!NetworkErrorAgain, R!AnswerUnexpected,
       RP!AnswerUnexpected, R!FinishFailed, RP!FinishFailed, R!Complete, RP!Complete,
       R!CompleteInvalid, RP!CompleteInvalid, R!StoreFails, RP!StoreFails,
       R!RecordCrash, RP!RecordCrash, R!RecordCrashFails, RP!RecordCrashFails,
       R!Crash, RP!Crash, R!Restart, RP!Restart, R!ThreadAlone, RP!ThreadAlone,
       R!Answer, RP!Answer, R!ThreadStep, RP!ThreadStep, R!Next, RP!Next

-----------------------------------------------------------------------------
(* The plans a submit has returned *)

\* Where a submit is, and that an accepted one has its plan.
Submitted(r) ==
  r.op = "submit" =>
    /\ r.pc \in {"submit.read", "submit.create", "ok", "rejected"}
    /\ r.pc = "ok" => [shell |-> r.shell, draft |-> r.draft] \in plans

SubmitsInv == \A h \in Handlers : Submitted(handler[h])

LEMMA SubmitsInit == Init => SubmitsInv
BY DEF Init, SubmitsInv, Submitted, IdleRequest

LEMMA SubmitsKept == TypeInv /\ SubmitsInv /\ [Next]_publicVars => SubmitsInv'
<1> SUFFICES ASSUME TypeInv, SubmitsInv, [Next]_publicVars, NEW g \in Handlers
             PROVE  Submitted(handler[g])'
  BY DEF SubmitsInv
<1> USE DEF Submitted
<1>1. plans \subseteq plans' /\ Submitted(handler[g])
  BY PlansGrow DEF SubmitsInv
<1>2. CASE handler'[g] = handler[g]
  BY <1>1, <1>2
<1>3. ASSUME NEW h \in Handlers, HandlerStep(h), handler'[g] # handler[g]
      PROVE  Submitted(handler[g])'
  <2>1. g = h /\ handler'[h].op = handler[h].op
    BY <1>3, StepEffect DEF Effect, Moves, Apart, Refuses, Reads, Chooses, Abandons, Publishes,
                Confirms, Sweeps, Hides, Removes
  <2>2. handler[h] \in Request /\ handler \in [Handlers -> Request] /\ Prepared(handler[h])
    BY RequestType DEF TypeInv, RequestsInv
  <2>3. CASE \/ \E expected \in 1..MaxRevision \cup {None} : SubmitRead(h, expected)
             \/ SubmitCreate(h)
    <3>1. CASE \E s : Accept(h, s)
      BY <2>1, <2>2, <3>1 DEF Accept, Request
    <3>2. CASE Go(h, "submit.create") \/ Answers(h, "rejected")
      BY <2>1, <3>2, GoMoves, AnswersMove
    <3> QED BY <2>3, <3>1, <3>2 DEF SubmitRead, SubmitCreate
  <2>4. CASE HandlerDies(h)
    BY <2>1, <2>4, AnswersMove DEF HandlerDies
  <2>5. CASE \/ \E i \in Items : UploadsRow(h, i)
             \/ UploadsRetry(h) \/ UploadsDone(h) \/ ReadOwner(h) \/ EnsureRow(h)
             \/ CopyRow(h) \/ EnsureRetry(h) \/ Copy(h) \/ Verify(h) \/ MarkReady(h)
             \/ OssFails(h)
    BY <2>1, <2>2, <2>5
       DEF Prepared, At, UploadsRow, UploadsRetry, UploadsDone, ReadOwner, EnsureRow, CopyRow,
           EnsureRetry, Copy, Verify, MarkReady, OssFails
  <2>6. CASE \/ FinContext(h) \/ FinAssets(h) \/ FinPending(h) \/ FinUpdate(h)
             \/ FinConflict(h) \/ SweepSelect(h) \/ SweepAbandon(h) \/ SweepObjects(h)
             \/ SweepRows(h) \/ DelBegin(h) \/ DelRow(h)
    BY <2>1, <2>2, <2>6
       DEF Prepared, At, FinContext, FinAssets, FinPending, FinUpdate, FinConflict, SweepSelect,
           SweepAbandon, SweepObjects, SweepRows, DelBegin, DelRow
  <2> QED BY <1>3, <2>3, <2>4, <2>5, <2>6 DEF HandlerStep
<1>4. ASSUME NEW h \in Handlers, handler'[g] # handler[g],
             \/ \E op \in {"submit", "uploads"} : StartSubmit(h, op)
             \/ \E s \in 1..used.shells, r \in 1..MaxRevision : StartDelete(h, s, r)
             \/ \E p \in plans : StartFinalize(h, p)
             \/ \E p \in plans, i \in Items : StartEnsure(h, p, i)
             \/ Forget(h)
      PROVE  Submitted(handler[g])'
  <2>1. Begins(h)
    BY <1>4, BeginEffect
  <2>2. g = h /\ handler'[h].pc \in {"submit.read", "ensure.owner", "fin.context", "del.begin",
                                     "idle"}
    BY <1>4, <2>1 DEF Begins
  <2>3. TypeInv'
    BY NextKeepsTypes
  <2>4. Prepared(handler'[h])
    BY <2>3, RequestType DEF TypeInv, RequestsInv
  <2>5. CASE Forget(h)
    BY <2>2, <2>5 DEF Forget, IdleRequest, TypeInv, RequestsInv
  <2>6. CASE handler'[h].pc # "idle"
    BY <2>2, <2>4, <2>6 DEF Prepared
  <2> QED BY ZenonT(30), <1>4, <2>2, <2>5, <2>6
         DEF StartSubmit, StartDelete, StartFinalize, StartEnsure, Serve, IdleRequest, TypeInv,
             RequestsInv
<1>5. CASE (SaveDraft \/ \E k \in signed : Put(k)) \/ UNCHANGED publicVars
  BY <1>2, <1>5 DEF SaveDraft, Put, publicVars
<1> QED BY <1>2, <1>3, <1>4, <1>5 DEF Next, MemberStep

-----------------------------------------------------------------------------
(* Every step is one of the backend, and one of the runner, or a stutter *)

LEMMA BackendSteps ==
  ASSUME TypeInv, serving \in [Operations -> Handlers \cup {None}], [SystemNext]_systemVars
  PROVE  [Next]_publicVars
<1>1. CASE BackendStep
  BY <1>1 DEF BackendStep, Next
<1>2. ASSUME NEW op \in Operations, NEW h \in Handlers, Call(op, h) PROVE Next
  <2> DEFINE p == ops[op].plan
  <2>1. CASE StartFinalize(h, p)
    BY <2>1 DEF StartFinalize, Next
  <2>2. ASSUME NEW i, StartEnsure(h, p, i) PROVE Next
    <3>1. p \in plans /\ i \in Document[p.draft] /\ p.draft \in Drafts
      BY <2>2 DEF StartEnsure, TypeInv, DataOK, Plan
    <3>2. i \in Items
      BY <3>1, DocumentType
    <3> QED BY <2>2, <3>1, <3>2 DEF Next
  <2> QED BY <1>2, <2>1, <2>2 DEF Call
<1>3. ASSUME NEW h \in Handlers, Unheard(h) \/ \E op \in Operations : Admit(h, op)
      PROVE  Next
  BY <1>3 DEF Unheard, Admit, Next
<1>4. ASSUME NEW op \in Operations, Hear(op) PROVE [Next]_publicVars
  BY <1>4 DEF Hear, Next
<1>5. CASE \/ \E op \in Operations : CallUnreachable(op) \/ GiveUp(op) \/ ThreadAlone(op)
           \/ Crash \/ Restart
  BY <1>5 DEF CallUnreachable, GiveUp, ThreadAlone, Crash, Restart
<1>6. CASE UNCHANGED systemVars
  BY <1>6 DEF systemVars
<1> QED BY <1>1, <1>2, <1>3, <1>4, <1>5, <1>6 DEF SystemNext

LEMMA RunnerSteps ==
  ASSUME TypeInv, SubmitsInv, [SystemNext]_systemVars
  PROVE  [RP!Next]_RP!runnerVars
<1>1. ASSUME NEW h \in Handlers, NEW op \in Operations, Admit(h, op) PROVE R!Next
  <2>1. PlanOf(h) \in Plan
    BY <1>1 DEF Admit, At, SubmitsInv, Submitted, PlanOf, TypeInv, DataOK
  <2> QED BY <1>1, <2>1 DEF Admit, R!Next
<1>2. ASSUME NEW op \in Operations, R!ThreadStep(op) PROVE R!Next
  BY <1>2 DEF R!Next
<1>3. ASSUME NEW op \in Operations,
             \/ \E h \in Handlers : Call(op, h)
             \/ CallUnreachable(op) \/ Hear(op) \/ GiveUp(op) \/ ThreadAlone(op)
      PROVE  R!Next
  BY <1>2, <1>3 DEF Call, CallUnreachable, Hear, GiveUp, ThreadAlone, R!ThreadStep, R!Answer
<1>4. ASSUME Crash \/ Restart PROVE R!Next
  BY <1>4 DEF Crash, Restart, R!Next
<1>5. CASE UNCHANGED runnerVars
  BY <1>5 DEF runnerVars, RP!runnerVars
<1> QED BY <1>1, <1>3, <1>4, <1>5, SameSteps
        DEF SystemNext, BackendStep, Unheard, systemVars

\* The controller's table and threads are as if it were alone.
RunnerInv == RP!BaseInv /\ RP!OneRunningPerWorkspace

BackendInv == TypeInv /\ SubmitsInv /\ HistoryInv /\ OrderInv

LEMMA PartsInit == SystemInit => BackendInv /\ RunnerInv
<1> SUFFICES ASSUME SystemInit PROVE BackendInv /\ RunnerInv
  OBVIOUS
<1>1. BackendInv
  BY InitTypes, SubmitsInit
     DEF SystemInit, BackendInv, Init, HistoryInv, OrderInv, Public, Witnessed, IdleRequest,
         ReadPcs, SweepPcs
<1>2. RP!Init
  BY DEF SystemInit, R!Init, RP!Init, R!Idle, RP!Idle
<1>3. RP!BaseInv
  BY <1>2, RP!BaseInit, RunnerAssumptions
<1>4. RP!OneRunningPerWorkspace
  BY <1>2 DEF RP!Init, RP!OneRunningPerWorkspace, RP!Running, RP!Exists
<1> QED BY <1>1, <1>3, <1>4 DEF RunnerInv

LEMMA PartsKept ==
  ASSUME BackendInv, RunnerInv, serving \in [Operations -> Handlers \cup {None}],
         [SystemNext]_systemVars
  PROVE  BackendInv' /\ RunnerInv'
<1>1. [Next]_publicVars /\ [RP!Next]_RP!runnerVars
  BY BackendSteps, RunnerSteps DEF BackendInv
<1>2. BackendInv'
  BY <1>1, NextKeepsTypes, SubmitsKept, HistoryKept, OrderKept DEF BackendInv
<1>3. RunnerInv'
  BY <1>1, RP!BaseNext, RP!OneRunningNext, RunnerAssumptions DEF RunnerInv
<1> QED BY <1>2, <1>3

-----------------------------------------------------------------------------
(* The calls *)

\* The call an operation waits for is the request it is served by.
Matched(op) ==
  serving[op] # None =>
    LET request == handler[serving[op]] IN
    /\ alive /\ thread[op].pc = "waiting"
    /\ request.pc # "idle"
    /\ request.op = IF thread[op].index = R!StepCount(ops[op].plan) THEN "finalize"
                                                                 ELSE "ensure"
    /\ request.shell = ops[op].plan.shell
    /\ request.draft = ops[op].plan.draft

\* No two operations wait for one request, and unless one was left behind every
\* request of the controller has the operation that waits for it.
CallsInv ==
  /\ serving \in [Operations -> Handlers \cup {None}]
  /\ orphaned \in BOOLEAN
  /\ \A op \in Operations : Matched(op)
  /\ \A op, other \in Operations : serving[op] # None /\ serving[op] = serving[other]
                                  => op = other
  /\ ~orphaned => \A h \in Handlers : handler[h].op \in {"ensure", "finalize"}
                                       => \E op \in Operations : serving[op] = h

LEMMA StaysMatched ==
  ASSUME NEW op \in Operations, Matched(op), serving'[op] = serving[op],
         alive' = alive, thread'[op] = thread[op], ops'[op] = ops[op],
         serving[op] # None => \/ handler'[serving[op]] = handler[serving[op]]
                               \/ SameCall(serving[op])
  PROVE  Matched(op)'
BY DEF Matched, SameCall, R!StepCount

LEMMA CallGoesOn ==
  ASSUME TypeInv, NEW h \in Handlers, HandlerStep(h), handler[h].op \in {"ensure", "finalize"}
  PROVE  SameCall(h)
<1>1. Prepared(handler[h])
  BY RequestType DEF TypeInv
<1>2. ~Submits(h)
  BY <1>1 DEF Submits, SubmitRead, SubmitCreate, At, Prepared
<1> QED BY <1>2, RequestGoesOn

\* A step of the backend's own leaves the calls as they are.
LEMMA BackendKeepsCalls ==
  ASSUME TypeInv, CallsInv, BackendStep
  PROVE  CallsInv'
<1>1. UNCHANGED <<ops, thread, alive, serving, orphaned>>
  BY DEF BackendStep, runnerVars, callVars
<1>2. ASSUME NEW h \in Handlers, HandlerStep(h), NEW g \in Handlers
      PROVE  /\ g # h => handler'[g] = handler[g]
             /\ handler'[g].op = handler[g].op
             /\ handler[g].op \in {"ensure", "finalize"} =>
                  handler'[g] = handler[g] \/ SameCall(g)
  BY <1>2, CallGoesOn, StepEffect DEF Effect, Moves, Apart, Refuses, Reads, Chooses, Abandons,
     Publishes, Confirms, Sweeps, Hides, Removes
<1>3. ASSUME MemberStep, NEW g \in Handlers
      PROVE  \/ handler'[g] = handler[g]
             \/ /\ handler[g].pc = "idle"
                /\ handler'[g].op \notin {"ensure", "finalize"}
  <2>1. ASSUME NEW h \in Handlers, NEW r, Serve(h, r), r.op \notin {"ensure", "finalize"}
        PROVE  \/ handler'[g] = handler[g]
               \/ /\ handler[g].pc = "idle"
                  /\ handler'[g].op \notin {"ensure", "finalize"}
    BY <2>1 DEF Serve, Idle, At, TypeInv, RequestsInv
  <2>2. CASE SaveDraft \/ \E k \in signed : Put(k)
    BY <2>2 DEF SaveDraft, Put
  <2>3. CASE \E h \in Handlers, op \in {"submit", "uploads"} : StartSubmit(h, op)
    <3>1. PICK h \in Handlers, op \in {"submit", "uploads"} : StartSubmit(h, op)
      BY <2>3
    <3> DEFINE r == [IdleRequest EXCEPT !.pc = "submit.read", !.op = op, !.draft = draft]
    <3>2. Serve(h, r) /\ r.op = op
      BY <3>1 DEF StartSubmit, IdleRequest
    <3> HIDE DEF r
    <3> QED BY <2>1, <3>2
  <2>4. CASE \E h \in Handlers, s \in 1..used.shells, r \in 1..MaxRevision : StartDelete(h, s, r)
    <3>1. PICK h \in Handlers, s \in 1..used.shells, n \in 1..MaxRevision : StartDelete(h, s, n)
      BY <2>4
    <3> DEFINE r == [IdleRequest EXCEPT !.pc = "del.begin", !.op = "delete",
                                        !.shell = s, !.revision = n]
    <3>2. Serve(h, r) /\ r.op = "delete"
      BY <3>1 DEF StartDelete, IdleRequest
    <3> HIDE DEF r
    <3> QED BY <2>1, <3>2
  <2> QED BY <1>3, <2>2, <2>3, <2>4 DEF MemberStep
<1>4. ASSUME NEW op \in Operations PROVE Matched(op)'
  <2>1. CASE serving[op] # None
    <3>1. serving[op] \in Handlers /\ Matched(op)
      BY <2>1 DEF CallsInv
    <3>2. handler[serving[op]].op \in {"ensure", "finalize"} /\ handler[serving[op]].pc # "idle"
      BY <2>1, <3>1 DEF Matched
    <3>3. handler'[serving[op]] = handler[serving[op]] \/ SameCall(serving[op])
      BY <1>2, <1>3, <3>1, <3>2 DEF BackendStep
    <3> QED BY <1>1, <3>1, <3>3, StaysMatched
  <2>2. CASE serving[op] = None
    BY <1>1, <2>2 DEF Matched
  <2> QED BY <2>1, <2>2
<1>5. ASSUME NEW g \in Handlers, handler'[g].op \in {"ensure", "finalize"}
      PROVE  handler[g].op \in {"ensure", "finalize"}
  BY <1>2, <1>3, <1>5 DEF BackendStep
<1> QED BY <1>1, <1>4, <1>5 DEF CallsInv

\* What a step of one thread, outside of its call, leaves of the calls.
LEMMA ThreadKeepsCalls ==
  ASSUME CallsInv, NEW op \in Operations, serving[op] = None,
         \A o \in Operations \ {op} : ops'[o] = ops[o] /\ thread'[o] = thread[o],
         UNCHANGED <<alive, serving, orphaned>>,
         \A h \in Handlers : \/ handler'[h] = handler[h]
                             \/ /\ \A o \in Operations : serving[o] # h
                                /\ handler'[h].op \notin {"ensure", "finalize"}
  PROVE  CallsInv'
<1>1. ASSUME NEW o \in Operations PROVE Matched(o)'
  <2>1. CASE o = op
    BY <2>1 DEF Matched
  <2>2. CASE o # op
    BY <2>2, StaysMatched DEF CallsInv
  <2> QED BY <2>1, <2>2
<1> QED BY <1>1 DEF CallsInv

LEMMA WaitingOwnsRow ==
  ASSUME RunnerInv, CallsInv, NEW op \in Operations, serving[op] # None
  PROVE  /\ alive /\ thread[op].pc = "waiting"
         /\ RP!Running(op) /\ ops[op] \in RP!Row
<1>1. alive /\ thread[op].pc = "waiting"
  BY DEF CallsInv, Matched
<1>2. RP!Running(op)
  BY <1>1 DEF RunnerInv, RP!BaseInv, RP!ThreadOwnsRunningRow
<1> QED BY <1>1, <1>2 DEF RP!Running, RP!Exists, RunnerInv, RP!BaseInv, RP!TypeOK

\* One publication of the workspace runs, so one operation at most waits.
LEMMA OneWaits ==
  ASSUME RunnerInv, CallsInv, NEW op \in Operations, NEW other \in Operations,
         serving[op] # None, serving[other] # None
  PROVE  op = other
<1>1. /\ RP!Running(op) /\ RP!Running(other)
      /\ ops[op].workspace = ops[other].workspace
  BY WaitingOwnsRow DEF RP!Row
<1> QED BY <1>1 DEF RunnerInv, RP!OneRunningPerWorkspace

LEMMA CallKeepsCalls ==
  ASSUME TypeInv, RunnerInv, CallsInv, NEW op \in Operations, NEW h \in Handlers, Call(op, h)
  PROVE  CallsInv'
<1>1. /\ alive' = alive /\ alive /\ ops' = ops /\ orphaned' = orphaned
      /\ serving' = [serving EXCEPT ![op] = h]
      /\ thread' = [thread EXCEPT ![op].pc = "waiting"] /\ thread[op].pc = "calling"
  BY DEF Call, R!Call, R!AtPc, R!Move
<1>2. thread \in [Operations -> RP!Thread]
  BY DEF RunnerInv, RP!BaseInv, RP!TypeOK
<1>3. /\ thread'[op].pc = "waiting" /\ thread'[op].index = thread[op].index
      /\ \A o \in Operations \ {op} : thread'[o] = thread[o]
  BY <1>1, <1>2 DEF RP!Thread
<1>4. serving[op] = None
  BY <1>1 DEF CallsInv, Matched
<1> DEFINE p == ops[op].plan
<1>5. /\ handler[h].pc = "idle" /\ handler'[h].pc # "idle"
      /\ handler'[h].op = IF thread[op].index = R!StepCount(p) THEN "finalize" ELSE "ensure"
      /\ handler'[h].shell = p.shell /\ handler'[h].draft = p.draft
      /\ \A g \in Handlers \ {h} : handler'[g] = handler[g]
  BY ZenonT(30) DEF Call, R!IsFinalize, StartFinalize, StartEnsure, Serve, Idle, At, IdleRequest, TypeInv,
     RequestsInv
<1>6. \A o \in Operations : serving[o] # h
  BY <1>5, NoneAssumption DEF CallsInv, Matched
<1>7. ASSUME NEW o \in Operations PROVE Matched(o)'
  <2>1. CASE o = op
    BY <1>1, <1>3, <1>5, <2>1 DEF Matched, CallsInv, R!StepCount
  <2>2. CASE o # op
    <3>1. serving'[o] = serving[o]
      BY <1>1, <2>2 DEF CallsInv
    <3>2. serving[o] # None => handler'[serving[o]] = handler[serving[o]]
      BY <1>5, <1>6 DEF CallsInv
    <3> QED BY <1>1, <1>3, <2>2, <3>1, <3>2, StaysMatched DEF CallsInv
  <2> QED BY <2>1, <2>2
<1>8. serving' \in [Operations -> Handlers \cup {None}]
  BY <1>1 DEF CallsInv
<1>9. ASSUME NEW a \in Operations, NEW b \in Operations, serving'[a] # None,
             serving'[a] = serving'[b]
      PROVE  a = b
  BY <1>1, <1>6, <1>9 DEF CallsInv
<1>10. ASSUME ~orphaned', NEW g \in Handlers, handler'[g].op \in {"ensure", "finalize"}
       PROVE  \E o \in Operations : serving'[o] = g
  <2>1. CASE g = h
    BY <1>1, <2>1 DEF CallsInv
  <2>2. CASE g # h
    <3>1. PICK o \in Operations : serving[o] = g
      BY <1>1, <1>5, <1>10, <2>2 DEF CallsInv
    <3>2. serving'[o] = g
      BY <1>1, <1>4, <3>1, NoneAssumption DEF CallsInv
    <3> QED BY <3>2
  <2> QED BY <2>1, <2>2
<1> QED BY <1>1, <1>7, <1>8, <1>9, <1>10 DEF CallsInv

\* The call of an operation ends: it is answered, and the request forgotten, or the
\* operation waits no longer, and the request is left behind.
LEMMA EndOfCallKeepsCalls ==
  ASSUME RunnerInv, CallsInv, NEW op \in Operations,
         serving' = [serving EXCEPT ![op] = None], alive' = alive, orphaned' \in BOOLEAN,
         \A o \in Operations \ {op} : ops'[o] = ops[o] /\ thread'[o] = thread[o],
         \A h \in Handlers : \/ handler'[h] = handler[h]
                             \/ serving[op] = h /\ handler'[h].op \notin {"ensure", "finalize"},
         ~orphaned' => /\ ~orphaned
                       /\ serving[op] # None =>
                            handler'[serving[op]].op \notin {"ensure", "finalize"}
  PROVE  CallsInv'
<1>1. serving'[op] = None /\ \A o \in Operations \ {op} : serving'[o] = serving[o]
  BY DEF CallsInv
<1>2. ASSUME NEW o \in Operations PROVE Matched(o)'
  <2>1. CASE o = op
    BY <1>1, <2>1 DEF Matched
  <2>2. CASE o # op
    <3>1. serving[o] # None => handler'[serving[o]] = handler[serving[o]]
      BY <2>2 DEF CallsInv
    <3> QED BY <1>1, <2>2, <3>1, StaysMatched DEF CallsInv
  <2> QED BY <2>1, <2>2
<1>3. ASSUME NEW a \in Operations, NEW b \in Operations, serving'[a] # None,
             serving'[a] = serving'[b]
      PROVE  a = b
  BY <1>1, <1>3 DEF CallsInv
<1>4. ASSUME ~orphaned', NEW g \in Handlers, handler'[g].op \in {"ensure", "finalize"}
      PROVE  \E o \in Operations : serving'[o] = g
  <2>1. handler'[g] = handler[g] /\ serving[op] # g
    BY <1>4, NoneAssumption
  <2>2. PICK o \in Operations : serving[o] = g
    BY <1>4, <2>1 DEF CallsInv
  <2> QED BY <1>1, <2>1, <2>2
<1>5. serving' \in [Operations -> Handlers \cup {None}]
  BY DEF CallsInv
<1> QED BY <1>2, <1>3, <1>4, <1>5 DEF CallsInv

\* What the steps of a thread do to the other threads.
LEMMA ThreadsApart ==
  ASSUME RunnerInv, NEW op \in Operations, R!ThreadStep(op)
  PROVE  /\ alive /\ alive' = alive
         /\ \A o \in Operations \ {op} : ops'[o] = ops[o] /\ thread'[o] = thread[o]
<1>1. /\ ops \in [Operations -> RP!Row \cup {None}] /\ thread \in [Operations -> RP!Thread]
      /\ \A o \in Operations : thread[o].pc # "none" => alive
  BY DEF RunnerInv, RP!BaseInv, RP!TypeOK, RP!ThreadOwnsRunningRow
<1>2. CASE R!Spawn(op) \/ R!SpawnFails(op) \/ R!Begin(op) \/ R!Call(op) \/ R!Retry(op)
  BY <1>1, <1>2 DEF R!Spawn, R!SpawnFails, R!Begin, R!Call, R!Retry, R!AtPc, R!Move, R!Stop,
     R!SetSteps
<1>3. CASE R!AnswerOk(op) \/ R!AnswerRejected(op) \/ R!AnswerUnexpected(op)
           \/ R!NetworkErrorFirst(op) \/ R!NetworkErrorAgain(op)
  BY <1>1, <1>3 DEF R!AnswerOk, R!AnswerRejected, R!AnswerUnexpected, R!NetworkErrorFirst,
     R!NetworkErrorAgain, R!FailStep, R!AtPc, R!Move, R!SetSteps
<1>4. CASE R!FinishFailed(op) \/ R!Complete(op) \/ R!CompleteInvalid(op) \/ R!StoreFails(op)
           \/ R!RecordCrash(op) \/ R!RecordCrashFails(op)
  BY <1>1, <1>4 DEF R!FinishFailed, R!Complete, R!CompleteInvalid, R!StoreFails, R!RecordCrash,
     R!RecordCrashFails, R!FailOperation, R!CompleteOperation, R!AtPc, R!Move, R!Stop
<1> QED BY <1>2, <1>3, <1>4 DEF R!ThreadStep, R!ThreadAlone, R!Answer

LEMMA CallsInit == SystemInit => CallsInv
<1> SUFFICES ASSUME SystemInit PROVE CallsInv
  OBVIOUS
<1>1. /\ serving = [op \in Operations |-> None] /\ orphaned = FALSE
      /\ \A h \in Handlers : handler[h].op = "none"
  BY DEF SystemInit, Init, IdleRequest
<1>2. \A op \in Operations : serving[op] = None
  BY <1>1
<1>3. \A op \in Operations : Matched(op)
  BY <1>2 DEF Matched
<1> QED BY <1>1, <1>2, <1>3 DEF CallsInv

LEMMA CallsKept ==
  ASSUME BackendInv, RunnerInv, CallsInv, [SystemNext]_systemVars
  PROVE  CallsInv'
<1> USE DEF BackendInv
<1>1. CASE BackendStep
  BY <1>1, BackendKeepsCalls
<1>2. ASSUME NEW op \in Operations, NEW h \in Handlers, Call(op, h) PROVE CallsInv'
  BY <1>2, CallKeepsCalls
<1>3. ASSUME NEW h \in Handlers, Forget(h)
      PROVE  /\ handler'[h].op \notin {"ensure", "finalize"}
             /\ \A g \in Handlers \ {h} : handler'[g] = handler[g]
  BY <1>3 DEF Forget, IdleRequest, TypeInv, RequestsInv
<1>4. ASSUME NEW h \in Handlers, Unheard(h) PROVE CallsInv'
  <2>1. /\ UNCHANGED <<ops, thread, alive, serving, orphaned>> /\ Forget(h)
        /\ \A op \in Operations : serving[op] # h
    BY <1>4 DEF Unheard, runnerVars, callVars
  <2>2. ASSUME NEW op \in Operations PROVE Matched(op)'
    <3>1. serving[op] # None => handler'[serving[op]] = handler[serving[op]]
      BY <1>3, <2>1 DEF CallsInv
    <3> QED BY <2>1, <3>1, StaysMatched DEF CallsInv
  <2> QED BY <1>3, <2>1, <2>2 DEF CallsInv
<1>5. ASSUME NEW h \in Handlers, NEW op \in Operations, Admit(h, op) PROVE CallsInv'
  <2>1. /\ handler[h].op = "submit" /\ Forget(h) /\ UNCHANGED <<alive, serving, orphaned>>
        /\ ops[op] = None
        /\ \A o \in Operations \ {op} : ops'[o] = ops[o] /\ thread'[o] = thread[o]
    BY <1>5 DEF Admit, R!Submit, R!StartOperation, R!Exists, RunnerInv, RP!BaseInv, RP!TypeOK,
       callVars
  <2>2. serving[op] = None
    BY <2>1, WaitingOwnsRow DEF RP!Running, RP!Exists
  <2>3. \A o \in Operations : serving[o] # h
    BY <2>1, NoneAssumption DEF CallsInv, Matched
  <2> QED BY <1>3, <2>1, <2>2, <2>3, ThreadKeepsCalls
<1>6. ASSUME NEW op \in Operations, CallUnreachable(op) \/ ThreadAlone(op) PROVE CallsInv'
  <2>1. /\ R!ThreadStep(op) /\ thread[op].pc # "waiting"
        /\ UNCHANGED <<handler, serving, orphaned>>
    BY <1>6 DEF CallUnreachable, ThreadAlone, R!ThreadStep, R!ThreadAlone, R!Spawn, R!SpawnFails,
       R!Begin, R!Retry, R!FinishFailed, R!Complete, R!CompleteInvalid, R!StoreFails,
       R!RecordCrash, R!RecordCrashFails, R!Call, R!AtPc, publicVars, callVars
  <2>2. serving[op] = None
    BY <2>1 DEF CallsInv, Matched
  <2> QED BY <2>1, <2>2, ThreadsApart, ThreadKeepsCalls
<1>7. ASSUME NEW op \in Operations, Hear(op) PROVE CallsInv'
  <2>1. /\ R!ThreadStep(op) /\ serving' = [serving EXCEPT ![op] = None]
        /\ serving[op] # None /\ serving[op] \in Handlers /\ orphaned' = orphaned
        /\ Forget(serving[op])
    BY <1>7 DEF Hear, R!ThreadStep, R!Answer, CallsInv
  <2>2. /\ handler'[serving[op]].op \notin {"ensure", "finalize"}
        /\ \A g \in Handlers \ {serving[op]} : handler'[g] = handler[g]
    BY <1>3, <2>1
  <2>3. orphaned' \in BOOLEAN
    BY <2>1 DEF CallsInv
  <2> QED BY <2>1, <2>2, <2>3, ThreadsApart, EndOfCallKeepsCalls
<1>8. ASSUME NEW op \in Operations, GiveUp(op) PROVE CallsInv'
  <2>1. /\ R!ThreadStep(op) /\ serving' = [serving EXCEPT ![op] = None]
        /\ orphaned' = (orphaned \/ serving[op] # None) /\ handler' = handler
    BY <1>8 DEF GiveUp, R!ThreadStep, R!Answer, publicVars
  <2>2. orphaned' \in BOOLEAN
    BY <2>1
  <2> QED BY <2>1, <2>2, ThreadsApart, EndOfCallKeepsCalls
<1>9. CASE Crash
  <2>1. /\ serving' = [op \in Operations |-> None] /\ handler' = handler
        /\ orphaned' = (orphaned \/ \E op \in Operations : serving[op] # None)
    BY <1>9 DEF Crash, publicVars
  <2>2. \A op \in Operations : Matched(op)'
    BY <2>1 DEF Matched
  <2>3. ~orphaned' => \A h \in Handlers : handler'[h].op \notin {"ensure", "finalize"}
    BY <2>1, NoneAssumption DEF CallsInv
  <2>4. orphaned' \in BOOLEAN
    BY <2>1
  <2> QED BY <2>1, <2>2, <2>3, <2>4 DEF CallsInv
<1>10. CASE Restart
  <2>1. ~alive /\ UNCHANGED <<handler, serving, orphaned>>
    BY <1>10 DEF Restart, R!Restart, publicVars, callVars
  <2>2. \A op \in Operations : serving[op] = None
    BY <2>1 DEF CallsInv, Matched
  <2> QED BY <2>1, <2>2 DEF CallsInv, Matched
<1>11. CASE UNCHANGED systemVars
  BY <1>11 DEF systemVars, publicVars, runnerVars, callVars, CallsInv, Matched
<1> QED BY <1>1, <1>2, <1>4, <1>5, <1>6, <1>7, <1>8, <1>9, <1>10, <1>11 DEF SystemNext

SystemInv == BackendInv /\ RunnerInv /\ CallsInv

LEMMA SystemStarts == SystemInit => SystemInv
BY PartsInit, CallsInit DEF SystemInv

LEMMA SystemKept == SystemInv /\ [SystemNext]_systemVars => SystemInv' /\ [Next]_publicVars
<1> SUFFICES ASSUME SystemInv, [SystemNext]_systemVars
             PROVE  SystemInv' /\ [Next]_publicVars
  OBVIOUS
<1>1. serving \in [Operations -> Handlers \cup {None}] /\ TypeInv
  BY DEF SystemInv, CallsInv, BackendInv
<1> QED BY <1>1, PartsKept, CallsKept, BackendSteps DEF SystemInv

LEMMA SystemHolds == SystemSpec => []SystemInv
BY SystemStarts, SystemKept, PTL DEF SystemSpec

\* The answer an operation takes is that of its own request for its current step: no
\* retry, restart or late answer makes a thread hear what another one asked for.
THEOREM CallsAreAnsweredApart == SystemSpec => []CallsMatch
<1>1. SystemInv => CallsMatch
  BY DEF SystemInv, CallsInv, Matched, CallsMatch, R!AtPc, R!IsFinalize
<1> QED BY <1>1, SystemHolds, PTL

-----------------------------------------------------------------------------
(* What the controller reports as completed has been public *)

LEMMA HistoryGrows == ASSUME TypeInv, [Next]_publicVars PROVE published \subseteq published'
BY NextEffect DEF Still, Begins, Effect, Quiet, Apart, Refuses, Reads, Chooses, Abandons,
   Publishes, Confirms, Sweeps, Hides, Removes

Completed(op) ==
  \/ thread[op].pc = "completing"
  \/ R!Exists(op) /\ ops[op].state = "completed"

ShownFor(op) ==
  \E p \in published : /\ p.draft = ops[op].plan.draft
                       /\ p.bundle = Document[p.draft]

CompletedInv == \A op \in Operations : Completed(op) => ShownFor(op)

\* An operation completes with the answer to its finalize, and keeps its plan.
LEMMA Completes ==
  ASSUME RunnerInv, NEW op \in Operations, NEW o \in Operations, R!ThreadStep(o),
         Completed(op)'
  PROVE  /\ ops'[op].plan = ops[op].plan
         /\ \/ Completed(op)
            \/ /\ o = op /\ R!IsFinalize(op)
               /\ thread[op].pc = "waiting" /\ thread'[op].pc = "completing"
<1>1. /\ ops \in [Operations -> RP!Row \cup {None}] /\ thread \in [Operations -> RP!Thread]
      /\ thread[op].pc # "none" => ops[op] \in RP!Row /\ ops[op] # None
  BY DEF RunnerInv, RP!BaseInv, RP!TypeOK, RP!ThreadOwnsRunningRow, RP!Running, RP!Exists
<1>2. CASE o # op
  <2>1. ops'[op] = ops[op] /\ thread'[op] = thread[op]
    BY <1>2, ThreadsApart
  <2> QED BY <2>1 DEF Completed, R!Exists
<1>3. CASE o = op
  <2> USE DEF Completed, R!Exists
  <2>1. CASE R!Spawn(op) \/ R!SpawnFails(op) \/ R!Call(op) \/ R!Retry(op)
             \/ R!AnswerUnexpected(op) \/ R!NetworkErrorFirst(op)
    BY <1>1, <2>1 DEF R!Spawn, R!SpawnFails, R!Call, R!Retry, R!AnswerUnexpected,
       R!NetworkErrorFirst, R!Move, R!Stop, R!Idle, RP!Thread
  <2>2. ASSUME NEW steps, R!SetSteps(op, steps), thread[op].pc # "none"
        PROVE  /\ ops'[op].plan = ops[op].plan
               /\ R!Exists(op)' => ops'[op].state = ops[op].state
    BY <1>1, <2>2 DEF R!SetSteps, RP!Row
  <2>3. CASE R!Begin(op) \/ R!AnswerRejected(op) \/ R!NetworkErrorAgain(op)
    <3>1. thread[op].pc # "none" /\ thread'[op].pc \in {"calling", "failing"}
      BY <1>1, <2>3 DEF R!Begin, R!AnswerRejected, R!NetworkErrorAgain, R!FailStep, R!AtPc,
         RP!Thread
    <3>2. PICK steps : R!SetSteps(op, steps)
      BY <2>3 DEF R!Begin, R!AnswerRejected, R!NetworkErrorAgain, R!FailStep
    <3>3. /\ ops'[op].plan = ops[op].plan
          /\ R!Exists(op)' => ops'[op].state = ops[op].state
      BY <2>2, <3>1, <3>2
    <3> QED BY <1>1, <3>1, <3>3
  <2>4. CASE R!AnswerOk(op)
    BY <1>1, <1>3, <2>2, <2>4 DEF R!AnswerOk, R!AtPc, RP!Thread
  <2>5. CASE R!FinishFailed(op) \/ R!Complete(op) \/ R!RecordCrash(op)
    BY <1>1, <2>5 DEF R!FinishFailed, R!Complete, R!RecordCrash, R!FailOperation,
       R!CompleteOperation, R!AtPc, R!Stop, R!Idle, RP!Thread, RP!Row
  <2>6. CASE R!CompleteInvalid(op) \/ R!StoreFails(op) \/ R!RecordCrashFails(op)
    BY <1>1, <2>6 DEF R!CompleteInvalid, R!StoreFails, R!RecordCrashFails, R!Move, R!Stop,
       R!Idle, RP!Thread
  <2> QED BY <1>3, <2>1, <2>3, <2>4, <2>5, <2>6 DEF R!ThreadStep, R!ThreadAlone, R!Answer
<1> QED BY <1>2, <1>3

LEMMA CompletedKept ==
  SystemInv /\ CompletedInv /\ [SystemNext]_systemVars => CompletedInv'
<1> SUFFICES ASSUME SystemInv, CompletedInv, [SystemNext]_systemVars, NEW op \in Operations,
                    Completed(op)'
             PROVE  ShownFor(op)'
  BY DEF CompletedInv
<1>1. published \subseteq published'
  BY SystemKept, HistoryGrows DEF SystemInv, BackendInv
<1>2. CASE Completed(op) /\ ops'[op].plan = ops[op].plan
  BY <1>1, <1>2 DEF CompletedInv, ShownFor
<1>3. thread \in [Operations -> RP!Thread]
  BY DEF SystemInv, RunnerInv, RP!BaseInv, RP!TypeOK
<1>4. CASE UNCHANGED runnerVars
  BY <1>2, <1>4 DEF runnerVars, Completed, R!Exists
<1>5. ASSUME NEW o \in Operations, R!ThreadStep(o),
             ~(thread[op].pc = "waiting" /\ thread'[op].pc = "completing")
      PROVE  ShownFor(op)'
  BY <1>2, <1>5, Completes DEF SystemInv
<1>6. ASSUME NEW o \in Operations, Hear(o) PROVE ShownFor(op)'
  <2>1. R!ThreadStep(o)
    BY <1>6 DEF Hear, R!ThreadStep, R!Answer
  <2>2. CASE /\ o = op /\ R!IsFinalize(op)
             /\ thread[op].pc = "waiting" /\ thread'[op].pc = "completing"
    <3> DEFINE h == serving[op]
    <3>1. h \in Handlers /\ Matched(op)
      BY <1>6, <2>2 DEF Hear, SystemInv, CallsInv
    <3>2. At(h, "ok")
      BY <1>6, <1>3, <2>2 DEF Hear, R!AnswerRejected, R!FailStep, RP!Thread
    <3>3. handler[h].op = "finalize" /\ handler[h].draft = ops[op].plan.draft
      BY <1>6, <2>2, <3>1 DEF Hear, Matched, R!IsFinalize
    <3>4. Witnessed(handler[h], published)
      BY <3>1 DEF SystemInv, BackendInv, HistoryInv
    <3>5. ShownFor(op)
      BY <3>2, <3>3, <3>4 DEF Witnessed, ShownFor, At
    <3>6. ops'[op].plan = ops[op].plan
      BY <2>1, <2>2, Completes DEF SystemInv
    <3> QED BY <1>1, <3>5, <3>6 DEF ShownFor
  <2> QED BY <1>2, <2>1, <2>2, Completes DEF SystemInv
<1>7. ASSUME NEW o \in Operations,
             \/ \E h \in Handlers : Call(o, h)
             \/ CallUnreachable(o) \/ GiveUp(o) \/ ThreadAlone(o)
      PROVE  ShownFor(op)'
  <2>1. R!ThreadStep(o)
    BY <1>7 DEF Call, CallUnreachable, GiveUp, ThreadAlone, R!ThreadStep, R!Answer
  <2>2. ~(thread[o].pc = "waiting" /\ thread'[o].pc = "completing")
    BY <1>7, <1>3 DEF Call, CallUnreachable, GiveUp, ThreadAlone, R!ThreadAlone, R!Call, R!Spawn,
       R!SpawnFails, R!Begin, R!Retry, R!FinishFailed, R!Complete, R!CompleteInvalid,
       R!StoreFails, R!RecordCrash, R!RecordCrashFails, R!NetworkErrorFirst,
       R!NetworkErrorAgain, R!FailStep, R!AtPc, R!Move, R!Stop, R!Idle, RP!Thread
  <2>3. o # op => thread'[op] = thread[op]
    BY <2>1, ThreadsApart DEF SystemInv
  <2> QED BY <1>5, <2>1, <2>2, <2>3
<1>8. ASSUME NEW h \in Handlers, NEW o \in Operations, Admit(h, o) PROVE ShownFor(op)'
  <2>1. /\ ops \in [Operations -> RP!Row \cup {None}] /\ thread \in [Operations -> RP!Thread]
    BY DEF SystemInv, RunnerInv, RP!BaseInv, RP!TypeOK
  <2>2. o # op
    BY <1>8, <2>1 DEF Admit, R!Submit, R!StartOperation, R!Idle, Completed
  <2> QED BY <1>2, <1>8, <2>1, <2>2 DEF Admit, R!Submit, R!StartOperation, Completed, R!Exists
<1>9. CASE Crash \/ Restart
  <2>1. /\ ops \in [Operations -> RP!Row \cup {None}]
    BY DEF SystemInv, RunnerInv, RP!BaseInv, RP!TypeOK
  <2>2. CASE Crash
    BY <1>2, <2>2 DEF Crash, R!Crash, Completed, R!Exists, R!Idle
  <2>3. CASE Restart
    BY <1>2, <2>1, <2>3 DEF Restart, R!Restart, R!FailInterrupted, Completed, R!Exists,
       R!Running, RP!Row
  <2> QED BY <1>9, <2>2, <2>3
<1> QED BY <1>4, <1>6, <1>7, <1>8, <1>9 DEF SystemNext, BackendStep, Unheard, systemVars

\* A member who is told that a publication has completed finds its draft among the
\* revisions readers have been shown, whatever calls were retried or lost on the way.
THEOREM CompletedWasShown == SystemSpec => []CompletedMeansPublished
<1>1. SystemInit => CompletedInv
  BY DEF SystemInit, R!Init, R!Idle, CompletedInv, Completed, R!Exists
<1>2. CompletedInv => CompletedMeansPublished
  BY DEF CompletedInv, CompletedMeansPublished, Completed, R!Settled, ShownFor
<1> QED BY <1>1, <1>2, CompletedKept, SystemHolds, PTL DEF SystemSpec

-----------------------------------------------------------------------------
(* As long as no request was left behind *)

LEMMA Alone == SystemInv /\ ~orphaned => OneCall
<1> SUFFICES ASSUME SystemInv, ~orphaned, NEW g \in Handlers, NEW h \in Handlers,
                    handler[g].op \in {"ensure", "finalize"},
                    handler[h].op \in {"ensure", "finalize"}
             PROVE  g = h
  BY DEF OneCall
<1>1. PICK op \in Operations : serving[op] = g
  BY DEF SystemInv, CallsInv
<1>2. PICK other \in Operations : serving[other] = h
  BY DEF SystemInv, CallsInv
<1>3. serving[op] # None /\ serving[other] # None
  BY <1>1, <1>2, NoneAssumption
<1> QED BY <1>1, <1>2, <1>3, OneWaits DEF SystemInv

\* What the backend keeps while the controller makes one call at a time.
AloneInv ==
  /\ KnownInv
  /\ ~orphaned => /\ ReadInv /\ NumberInv
                  /\ used.deletes = 0 => MediaInv

LEMMA AloneStarts == SystemInit => AloneInv
<1> SUFFICES ASSUME SystemInit PROVE AloneInv
  OBVIOUS
<1>1. Init
  BY DEF SystemInit
<1>2. ReadInv /\ NumberInv
  BY <1>1 DEF Init, ReadInv, ReadOf, NumberInv
<1> QED BY <1>1, <1>2, KnownInit, MediaInit DEF AloneInv

LEMMA StaysOrphaned == SystemInv /\ [SystemNext]_systemVars => (orphaned => orphaned')
<1> SUFFICES ASSUME SystemInv, [SystemNext]_systemVars, orphaned PROVE orphaned'
  OBVIOUS
<1>1. CASE \E op \in Operations : GiveUp(op)
  BY <1>1 DEF GiveUp
<1>2. CASE Crash
  BY <1>2 DEF Crash
<1>3. CASE UNCHANGED orphaned
  BY <1>3
<1> QED BY <1>1, <1>2, <1>3
        DEF SystemNext, BackendStep, Unheard, Admit, Call, CallUnreachable, Hear, ThreadAlone,
            Restart, callVars, systemVars

LEMMA DeletionsStay ==
  ASSUME TypeInv, [Next]_publicVars, used'.deletes = 0
  PROVE  used.deletes = 0
<1>1. used.deletes \in Nat
  BY Bounds DEF TypeInv, DataOK
<1> QED BY <1>1, NextEffect
        DEF Still, Begins, Effect, Quiet, Apart, Refuses, Reads, Chooses, Abandons, Publishes,
            Confirms, Sweeps, Hides, Removes

LEMMA AloneKept == SystemInv /\ AloneInv /\ [SystemNext]_systemVars => AloneInv'
<1> SUFFICES ASSUME SystemInv, AloneInv, [SystemNext]_systemVars PROVE AloneInv'
  OBVIOUS
<1>1. [Next]_publicVars /\ TypeInv /\ OrderInv
  BY SystemKept DEF SystemInv, BackendInv
<1>2. KnownInv /\ KnownInv'
  BY <1>1, KnownKept DEF AloneInv
<1>3. ASSUME ~orphaned' PROVE ReadInv' /\ NumberInv' /\ (used'.deletes = 0 => MediaInv')
  <2>1. ~orphaned /\ OneCall
    BY <1>3, StaysOrphaned, Alone
  <2>2. ReadInv /\ NumberInv /\ (used.deletes = 0 => MediaInv)
    BY <2>1 DEF AloneInv
  <2>3. ReadInv' /\ NumberInv'
    BY <1>1, <1>2, <2>1, <2>2, ReadKept, NumberKept
  <2>4. used'.deletes = 0 => MediaInv'
    BY <1>1, <2>1, <2>2, DeletionsStay, MediaKept
  <2> QED BY <2>3, <2>4
<1> QED BY <1>2, <1>3 DEF AloneInv

LEMMA AloneHolds == SystemSpec => [](SystemInv /\ AloneInv)
BY SystemStarts, SystemKept, AloneStarts, AloneKept, PTL DEF SystemSpec

\* Readers never see an article whose media has gone: no publication, retry, sweep or
\* refused draft takes an object of the article on show.
THEOREM MediaStaysBacked == SystemSpec => []MediaBackedUntilDeleted
<1>1. SystemInv /\ AloneInv => MediaBackedUntilDeleted
  BY DEF AloneInv, MediaInv, ShownInv, MediaBackedUntilDeleted, PublicMediaBacked, Public
<1> QED BY <1>1, AloneHolds, PTL

\* An asset row that says ready has its object, so a publication can skip the copy.
THEOREM ReadyStaysTrue == SystemSpec => []StatusTrustedUntilDeleted
<1>1. SystemInv /\ AloneInv => StatusTrustedUntilDeleted
  BY DEF AloneInv, MediaInv, StatusTrustedUntilDeleted
<1> QED BY <1>1, AloneHolds, PTL

\* The drafts on show do not get older: a late or repeated finalize of an older draft is
\* refused while the controller waits for its calls.
THEOREM DraftsOnShowGetNewer == SystemSpec => NoDraftRegressionUnlessLate
<1>1. ASSUME SystemInv, AloneInv, [SystemNext]_systemVars
      PROVE  [~orphaned' /\ Public /\ Public' /\ wx'.id = wx.id
                => wx'.draft >= wx.draft]_systemVars
  <2> SUFFICES ASSUME ~orphaned', Public, Public', wx'.id = wx.id
               PROVE  wx'.draft >= wx.draft
    OBVIOUS
  <2>1. TypeInv /\ ReadInv /\ [Next]_publicVars
    BY <1>1, SystemKept, StaysOrphaned DEF SystemInv, BackendInv, AloneInv
  <2> QED BY <2>1, NoRegressionStep
<1> QED BY <1>1, AloneHolds, PTL DEF SystemSpec, NoDraftRegressionUnlessLate

\* Readers see what PublicArticle says they may: the revisions of one article after the
\* other, in order and whole, although members delete it or calls outlive their callers.
THEOREM SystemRefinesArticle == SystemSpec => RefinesUnlessBoth
<1>1. SystemInit => Article_!Init
  BY DEF SystemInit, Init, Article_!Init, OnShow, Public
<1>2. ASSUME SystemInv, AloneInv, [SystemNext]_systemVars
      PROVE  [~orphaned' \/ used'.deletes = 0
                => Article_!Next \/ UNCHANGED <<OnShow, published>>]_systemVars
  <2>1. TypeInv /\ OrderInv /\ [Next]_publicVars
    BY <1>2, SystemKept DEF SystemInv, BackendInv
  <2>2. ~orphaned' => ReadInv /\ NumberInv
    BY <1>2, StaysOrphaned DEF AloneInv
  <2> QED BY <2>1, <2>2, RefinesUntilDeletedStep, RefinesOneCallStep
<1> QED BY <1>1, <1>2, AloneHolds, PTL DEF SystemSpec, RefinesUnlessBoth
=============================================================================
