--------------------------- MODULE DraftTurnsProofs ---------------------------
(***************************************************************************)
(* The turns of a workspace exclude each other and their outcomes are      *)
(* final, and a turn that reports a change is credited with its own save,  *)
(* for every number of operations and sessions, whatever fails and in      *)
(* whatever order members, agents, Feishu and the controller move.  The    *)
(* last part is about the worker that deletes the sessions of removed and  *)
(* reset workspaces, for every number of sessions and of threads.          *)
(***************************************************************************)
EXTENDS DraftTurns, SessionCleanup, TLAPS

Pc == InTurn \cup {"idle", "lock", "over"}

\* What a statement of the thread needs to know of the variables it changes.
Shapes ==
  /\ row \in [Op -> RowStates]
  /\ DOMAIN after = Op
  /\ pc \in [Op -> Pc]
  /\ DOMAIN sess = Op

\* The lock is with the one thread that is in its turn, or with a reset or removal
\* on its way.
LockInv ==
  /\ \A o \in Op : pc[o] \in InTurn => lock = o
  /\ retire # "idle" => lock = "retire"

\* The registered live session belongs to the turn that holds the lock.
LiveInv == \A o \in Op : live = o => pc[o] \in {"submit", "wait"} /\ sess[o] = binding

TurnInv == Shapes /\ LockInv /\ LiveInv

\* The steps of a Stop, and those of a reset or a removal before it clears the
\* history.
StopStep == LookUpLive \/ SessionInterrupt \/ \E o \in Op : InterruptOperation(o)

RetireStep == BeginRetire \/ ScheduleDeletion \/ Unbind \/ FailRetire

LEMMA TurnsCases ==
  ASSUME [TurnsNext]_turnVars
  PROVE  \/ \E o \in Op : Generate(o) \/ Chat(o)
         \/ \E o \in Op : TurnStep(o)
         \/ \E o \in Op : LoseConnection(o)
         \/ \E o \in Op : AgentStep(o)
         \/ StopStep
         \/ OtherSave \/ EditMaterials \/ RetireStep \/ ControllerCrash
         \/ ClearHistory \/ ControllerRestart
         \/ \E s \in Session : DeleteSession(s)
         \/ UNCHANGED turnVars
BY DEF TurnsNext, ServiceStep, RetireStep, StopStep

-----------------------------------------------------------------------------
(* Rows *)

LEMMA OutcomeSettles == ASSUME NEW o \in Op PROVE Outcome(o) \in SettledStates
BY DEF Outcome, SettledStates, Completed, Failed

\* What a step may do to the rows and what they report: an operation is admitted
\* while none is running, a running one settles, a reset deletes.
RowsMove ==
  /\ row' \in [Op -> RowStates] /\ DOMAIN after' = Op
  /\ \A o \in Op :
       \/ UNCHANGED <<row[o], after[o]>>
       \/ row[o] = "running" /\ row'[o] \in SettledStates
       \/ row[o] # "none" /\ row'[o] = "deleted"
       \/ RunningOp = {} /\ row[o] = "none" /\ row'[o] = "running"
  /\ \A o, p \in Op : row'[o] = "running" /\ row'[p] = "running" =>
       o = p \/ row[o] = "running" \/ row[p] = "running"

\* The UPDATE of _finish_operation is guarded by the state of the row.
LEMMA FinishMoves ==
  ASSUME Shapes, NEW o \in Op, NEW outcome \in SettledStates, NEW version,
         Finish(o, outcome, version)
  PROVE  RowsMove
<1>1. row' \in [Op -> RowStates] /\ DOMAIN after' = Op
  BY DEF Shapes, Finish, RowStates
<1>2. \A p \in Op : p # o => UNCHANGED <<row[p], after[p]>>
  BY DEF Shapes, Finish
<1>3. \/ UNCHANGED <<row[o], after[o]>>
      \/ row[o] = "running" /\ row'[o] \in SettledStates
  BY DEF Shapes, Finish, SettledStates, Completed, Failed
<1>4. "running" \notin SettledStates
  BY DEF SettledStates, Completed, Failed
<1> QED BY <1>1, <1>2, <1>3, <1>4 DEF RowsMove

LEMMA SameRows ==
  ASSUME Shapes, UNCHANGED <<row, after>>
  PROVE  RowsMove
BY DEF Shapes, RowsMove

LEMMA SettleMoves ==
  ASSUME Shapes, NEW o \in Op, NEW outcome \in SettledStates, NEW version,
         Settle(o, outcome, version)
  PROVE  RowsMove
BY FinishMoves, SameRows DEF Settle

LEMMA StartMoves ==
  ASSUME Shapes, NEW o \in Op, NEW save, StartDraftOperation(o, save)
  PROVE  RowsMove
<1>1. /\ RunningOp = {} /\ row[o] = "none" /\ UNCHANGED after
      /\ row' = [row EXCEPT ![o] = "running"]
  BY DEF StartDraftOperation, Admissible
<1>2. \A p \in Op : row[p] # "running"
  BY <1>1 DEF RunningOp
<1>3. row' \in [Op -> RowStates]
  BY <1>1 DEF Shapes, RowStates
<1> QED BY <1>1, <1>2, <1>3 DEF Shapes, RowsMove

LEMMA ThreadMoves ==
  ASSUME Shapes, NEW o \in Op, TurnStep(o)
  PROVE  RowsMove
<1>0. "failed" \in SettledStates
  BY DEF SettledStates, Failed
<1>1. CASE TakeTurnLock(o)
  BY <1>1, SameRows DEF TakeTurnLock, opVars
<1>2. CASE Check(o)
  BY <1>0, <1>2, SettleMoves, SameRows DEF Check
<1>3. CASE Resolve(o)
  BY <1>0, <1>3, SettleMoves, SameRows DEF Resolve
<1>4. CASE SubmitPrompt(o)
  BY <1>0, <1>4, SettleMoves, SameRows DEF SubmitPrompt
<1>5. CASE Hear(o)
  BY <1>0, <1>5, SettleMoves, SameRows DEF Hear
<1>6. CASE Report(o)
  BY <1>6, OutcomeSettles, SettleMoves DEF Report
<1> QED BY <1>1, <1>2, <1>3, <1>4, <1>5, <1>6 DEF TurnStep

LEMMA ClearMoves ==
  ASSUME Shapes, ClearHistory
  PROVE  RowsMove
<1>1. /\ row' = [o \in Op |-> IF row[o] = "none" THEN "none" ELSE "deleted"]
      /\ UNCHANGED after
  BY DEF ClearHistory
<1> QED BY <1>1 DEF Shapes, RowsMove, RowStates

LEMMA RestartMoves ==
  ASSUME Shapes, ControllerRestart
  PROVE  RowsMove
<1>1. /\ row' = [o \in Op |-> IF row[o] = "running" THEN RecoveredOutcome(o) ELSE row[o]]
      /\ after' = [o \in Op |-> IF row[o] = "running" /\ Recovered(o) THEN Version ELSE after[o]]
  BY DEF ControllerRestart
<1>2. \A o \in Op : RecoveredOutcome(o) \in SettledStates
  BY DEF RecoveredOutcome, SettledStates, Completed, Failed
<1>3. "running" \notin SettledStates /\ SettledStates \subseteq RowStates
  BY DEF SettledStates, Completed, Failed, RowStates
<1> QED BY <1>1, <1>2, <1>3 DEF Shapes, RowsMove

LEMMA NextMoves ==
  ASSUME Shapes, [TurnsNext]_turnVars
  PROVE  RowsMove
<1>1. ASSUME NEW o \in Op, Generate(o) \/ Chat(o) PROVE RowsMove
  BY <1>1, StartMoves DEF Generate, Chat
<1>2. ASSUME NEW o \in Op, TurnStep(o) PROVE RowsMove
  BY <1>2, ThreadMoves
<1>3. ASSUME NEW o \in Op, LoseConnection(o) PROVE RowsMove
  BY <1>3, FinishMoves DEF LoseConnection, SettledStates, Failed
<1>4. ASSUME NEW o \in Op, AgentStep(o) PROVE RowsMove
  BY <1>4, SameRows DEF AgentStep, BindSave, AgentSave, AgentEnd, opVars
<1>5. CASE StopStep \/ OtherSave \/ EditMaterials \/ RetireStep \/ ControllerCrash
  BY <1>5, SameRows DEF OtherSave, EditMaterials, ControllerCrash,
     StopStep, InterruptOperation, LookUpLive, SessionInterrupt,
     RetireStep, BeginRetire, ScheduleDeletion, Unbind, FailRetire, opVars
<1>6. CASE ClearHistory \/ ControllerRestart
  BY <1>6, ClearMoves, RestartMoves
<1>7. ASSUME NEW s \in Session, DeleteSession(s) PROVE RowsMove
  BY <1>7, SameRows DEF DeleteSession, opVars
<1>8. CASE UNCHANGED turnVars
  BY <1>8, SameRows DEF turnVars, opVars
<1> QED BY <1>1, <1>2, <1>3, <1>4, <1>5, <1>6, <1>7, <1>8, TurnsCases

-----------------------------------------------------------------------------
(* Threads *)

\* While a thread has the lock, nothing else is in a turn or registered.
LEMMA Alone ==
  ASSUME TurnInv, NamesDiffer, NEW o \in Op, lock = o
  PROVE  /\ \A p \in Op : p # o => pc[p] \notin InTurn /\ live # p
         /\ retire = "idle"
<1>1. \A p \in Op : p # o => pc[p] \notin InTurn
  BY DEF TurnInv, LockInv
<1>2. \A p \in Op : live = p => pc[p] \in InTurn
  BY DEF TurnInv, LiveInv, InTurn
<1> QED BY <1>1, <1>2 DEF TurnInv, LockInv, NamesDiffer

\* And while no thread has it, nothing is.
LEMMA NoneInTurn ==
  ASSUME TurnInv, NEW o \in Op, lock \notin Op
  PROVE  pc[o] \notin InTurn /\ live # o
BY DEF TurnInv, LockInv, LiveInv, InTurn

LEMMA LeaveKeeps ==
  ASSUME TurnInv, NamesDiffer, NEW o \in Op, lock = o, LeaveTurn(o), RowsMove,
         UNCHANGED retire, DOMAIN sess' = Op
  PROVE  TurnInv'
<1>1. /\ pc' = [pc EXCEPT ![o] = "over"] /\ lock' = NoOne
      /\ live' = IF live = o THEN NoOne ELSE live
  BY DEF LeaveTurn
<1>2. Shapes'
  BY <1>1 DEF TurnInv, Shapes, Pc, RowsMove
<1>3. \A p \in Op : pc'[p] \notin InTurn /\ live' # p
  BY <1>1, Alone DEF TurnInv, Shapes, InTurn, NamesDiffer
<1>4. retire' = "idle"
  BY Alone
<1> QED BY <1>2, <1>3, <1>4 DEF TurnInv, LockInv, LiveInv

LEMMA GoOnKeeps ==
  ASSUME TurnInv, NamesDiffer, NEW o \in Op, lock = o, NEW next \in InTurn,
         pc' = [pc EXCEPT ![o] = next], RowsMove,
         UNCHANGED <<lock, retire>>, DOMAIN sess' = Op,
         live' \in {live, o, NoOne},
         live' = o => next \in {"submit", "wait"} /\ sess'[o] = binding'
  PROVE  TurnInv'
<1>1. Shapes'
  BY DEF TurnInv, Shapes, Pc, RowsMove
<1>2. \A p \in Op : p # o => pc'[p] \notin InTurn /\ live' # p
  BY Alone DEF TurnInv, Shapes, NamesDiffer
<1>3. pc'[o] = next
  BY DEF TurnInv, Shapes
<1>4. retire' = "idle"
  BY Alone
<1> QED BY <1>1, <1>2, <1>3, <1>4 DEF TurnInv, LockInv, LiveInv

\* Steps of others leave the threads and what they hold alone.
LEMMA ElsewhereKeeps ==
  ASSUME TurnInv, RowsMove, UNCHANGED <<pc, lock, live, retire, sess, binding>>
  PROVE  TurnInv'
BY DEF TurnInv, Shapes, RowsMove, LockInv, LiveInv

LEMMA SettleKeeps ==
  ASSUME TurnInv, NamesDiffer, NEW o \in Op, NEW outcome, NEW version, pc[o] \in InTurn,
         Settle(o, outcome, version), RowsMove, UNCHANGED <<retire, sess>>
  PROVE  TurnInv'
<1>1. lock = o
  BY DEF TurnInv, LockInv
<1>2. LeaveTurn(o)
  BY DEF Settle
<1>3. DOMAIN sess' = Op
  BY DEF TurnInv, Shapes
<1> QED BY <1>1, <1>2, <1>3, LeaveKeeps

LEMMA ThreadKeeps ==
  ASSUME TurnInv, NamesDiffer, NEW o \in Op, TurnStep(o), RowsMove
  PROVE  TurnInv'
<1>0. /\ pc[o] \in InTurn => lock = o
      /\ DOMAIN sess = Op
  BY DEF TurnInv, Shapes, LockInv
<1>1. CASE TakeTurnLock(o)
  <2>1. /\ lock = NoOne /\ lock' = o /\ pc' = [pc EXCEPT ![o] = "check"]
        /\ UNCHANGED <<live, retire, sess, binding>>
    BY <1>1 DEF TakeTurnLock, TurnLockFree, bindVars, hermesVars
  <2>2. \A p \in Op : pc[p] \notin InTurn /\ live # p
    BY <2>1, NoneInTurn DEF NamesDiffer
  <2>3. retire = "idle"
    BY <2>1 DEF TurnInv, LockInv, NamesDiffer
  <2>4. Shapes'
    BY <2>1 DEF TurnInv, Shapes, Pc, InTurn, RowsMove
  <2>5. \A p \in Op : p # o => pc'[p] = pc[p]
    BY <2>1 DEF TurnInv, Shapes
  <2> QED BY <2>1, <2>2, <2>3, <2>4, <2>5 DEF TurnInv, LockInv, LiveInv
<1>2. CASE Check(o)
  <2>1. pc[o] \in InTurn /\ lock = o /\ UNCHANGED <<retire, sess, binding>>
    BY <1>0, <1>2 DEF Check, InTurn, bindVars, hermesVars
  <2>2. CASE Settle(o, "failed", 0)
    BY <2>1, <2>2, SettleKeeps
  <2>3. CASE pc' = [pc EXCEPT ![o] = "resolve"] /\ UNCHANGED <<lock, live>>
    <3>1. live # o
      BY <1>2 DEF TurnInv, LiveInv, Check
    <3> QED BY <1>0, <2>1, <2>3, <3>1, GoOnKeeps DEF InTurn
  <2> QED BY <1>2, <2>2, <2>3 DEF Check
<1>3. CASE Resolve(o)
  <2>1. pc[o] \in InTurn /\ lock = o /\ UNCHANGED retire
    BY <1>0, <1>3 DEF Resolve, InTurn
  <2>2. CASE Settle(o, "failed", 0) /\ UNCHANGED sess
    BY <2>1, <2>2, SettleKeeps
  <2>3. ASSUME NEW s, sess' = [sess EXCEPT ![o] = s], binding' = s, live' = o,
               pc' = [pc EXCEPT ![o] = "submit"], UNCHANGED lock
        PROVE  TurnInv'
    <3>1. DOMAIN sess' = Op /\ sess'[o] = s
      BY <1>0, <2>3
    <3> QED BY <2>1, <2>3, <3>1, GoOnKeeps DEF InTurn
  <2> QED BY <1>3, <2>2, <2>3 DEF Resolve
<1>4. CASE SubmitPrompt(o)
  <2>1. pc[o] = "submit" /\ lock = o /\ UNCHANGED <<retire, sess, binding>>
    BY <1>0, <1>4 DEF SubmitPrompt, InTurn, bindVars
  <2>2. CASE Settle(o, "failed", 0)
    BY <2>1, <2>2, SettleKeeps DEF InTurn
  <2>3. CASE pc' = [pc EXCEPT ![o] = "wait"] /\ UNCHANGED <<lock, live>>
    <3>1. live' = o => sess'[o] = binding'
      BY <2>1, <2>3 DEF TurnInv, LiveInv
    <3> QED BY <1>0, <2>1, <2>3, <3>1, GoOnKeeps DEF InTurn
  <2> QED BY <1>4, <2>2, <2>3 DEF SubmitPrompt
<1>5. CASE Hear(o)
  <2>1. pc[o] = "wait" /\ lock = o /\ UNCHANGED <<retire, sess, binding>>
    BY <1>0, <1>5 DEF Hear, InTurn, bindVars, hermesVars
  <2>2. CASE Settle(o, "failed", 0)
    BY <2>1, <2>2, SettleKeeps DEF InTurn
  <2>3. CASE /\ pc' = [pc EXCEPT ![o] = "report"] /\ UNCHANGED lock
             /\ live' = IF live = o THEN NoOne ELSE live
    <3>1. live' \in {live, o, NoOne} /\ live' # o
      BY <2>3 DEF NamesDiffer
    <3> QED BY <1>0, <2>1, <2>3, <3>1, GoOnKeeps DEF InTurn
  <2> QED BY <1>5, <2>2, <2>3 DEF Hear
<1>6. CASE Report(o)
  <2>1. pc[o] \in InTurn /\ UNCHANGED <<retire, sess>>
    BY <1>6 DEF Report, InTurn, bindVars, hermesVars
  <2>2. PICK outcome, version : Settle(o, outcome, version)
    BY <1>6 DEF Report
  <2> QED BY <2>1, <2>2, SettleKeeps
<1> QED BY <1>1, <1>2, <1>3, <1>4, <1>5, <1>6 DEF TurnStep

\* A reset or removal takes the lock from no thread and gives it back at its end; the
\* binding that it removes is nobody's.
LEMMA RetireKeeps ==
  ASSUME TurnInv, NamesDiffer, RetireStep \/ ClearHistory, RowsMove
  PROVE  TurnInv'
<1>1. /\ lock \in {NoOne, "retire"} /\ UNCHANGED <<pc, live, sess>>
      /\ retire' # "idle" => lock' = "retire"
  BY DEF RetireStep, BeginRetire, ScheduleDeletion, Unbind, FailRetire, ClearHistory,
         TurnInv, LockInv, threadVars, hermesVars
<1>2. \A o \in Op : pc[o] \notin InTurn /\ live # o
  BY <1>1, NoneInTurn DEF NamesDiffer
<1> QED BY <1>1, <1>2 DEF TurnInv, Shapes, RowsMove, LockInv, LiveInv

LEMMA CrashKeeps ==
  ASSUME TurnInv, NamesDiffer, ControllerCrash, RowsMove
  PROVE  TurnInv'
<1>1. /\ pc' = [o \in Op |-> IF pc[o] = "idle" THEN "idle" ELSE "over"]
      /\ live' = NoOne /\ retire' = "idle" /\ UNCHANGED sess
  BY DEF ControllerCrash, hermesVars
<1>2. pc' \in [Op -> Pc] /\ \A o \in Op : pc'[o] \notin InTurn
  BY <1>1 DEF Pc, InTurn
<1> QED BY <1>1, <1>2 DEF TurnInv, Shapes, RowsMove, LockInv, LiveInv, NamesDiffer

LEMMA StartKeeps ==
  ASSUME TurnInv, NEW o \in Op, NEW save, StartDraftOperation(o, save), RowsMove
  PROVE  TurnInv'
<1>1. /\ pc[o] = "idle" /\ UNCHANGED <<lock, live, retire, sess, binding>>
      /\ \E next \in {"lock", "over"} : pc' = [pc EXCEPT ![o] = next]
  BY DEF StartDraftOperation, bindVars, hermesVars
<1>2. /\ pc' \in [Op -> Pc] /\ pc'[o] \notin InTurn
      /\ \A p \in Op : p # o => pc'[p] = pc[p]
  BY <1>1 DEF TurnInv, Shapes, Pc, InTurn
<1>3. live # o
  BY <1>1 DEF TurnInv, LiveInv
<1> QED BY <1>1, <1>2, <1>3 DEF TurnInv, Shapes, RowsMove, LockInv, LiveInv

LEMMA LoseKeeps ==
  ASSUME TurnInv, NamesDiffer, NEW o \in Op, LoseConnection(o), RowsMove
  PROVE  TurnInv'
<1>1. pc[o] \in InTurn /\ LeaveTurn(o) /\ UNCHANGED <<retire, sess>>
  BY DEF LoseConnection, InTurn, bindVars
<1>2. lock = o /\ DOMAIN sess' = Op
  BY <1>1 DEF TurnInv, LockInv, Shapes
<1> QED BY <1>1, <1>2, LeaveKeeps

LEMMA TurnInvInit == NamesDiffer /\ TurnsInit => TurnInv
BY DEF TurnsInit, TurnInv, Shapes, LockInv, LiveInv, Pc, InTurn, RowStates, NamesDiffer

LEMMA TurnInvNext == NamesDiffer /\ TurnInv /\ [TurnsNext]_turnVars => TurnInv'
<1> SUFFICES ASSUME NamesDiffer, TurnInv, [TurnsNext]_turnVars PROVE TurnInv'
  OBVIOUS
<1>0. RowsMove
  BY NextMoves DEF TurnInv
<1>1. ASSUME NEW o \in Op, Generate(o) \/ Chat(o) PROVE TurnInv'
  BY <1>0, <1>1, StartKeeps DEF Generate, Chat
<1>2. ASSUME NEW o \in Op, TurnStep(o) PROVE TurnInv'
  BY <1>0, <1>2, ThreadKeeps
<1>3. ASSUME NEW o \in Op, LoseConnection(o) PROVE TurnInv'
  BY <1>0, <1>3, LoseKeeps
<1>4. ASSUME NEW o \in Op, AgentStep(o) PROVE TurnInv'
  BY <1>0, <1>4, ElsewhereKeeps
     DEF AgentStep, BindSave, AgentSave, AgentEnd, threadVars, bindVars
<1>5. CASE StopStep \/ OtherSave \/ EditMaterials \/ ControllerRestart
  BY <1>0, <1>5, ElsewhereKeeps
     DEF StopStep, InterruptOperation, LookUpLive, SessionInterrupt,
         OtherSave, EditMaterials, ControllerRestart, threadVars, bindVars, hermesVars
<1>6. CASE RetireStep \/ ClearHistory
  BY <1>0, <1>6, RetireKeeps
<1>7. CASE ControllerCrash
  BY <1>0, <1>7, CrashKeeps
<1>8. ASSUME NEW s \in Session, DeleteSession(s) PROVE TurnInv'
  BY <1>0, <1>8, ElsewhereKeeps DEF DeleteSession, threadVars
<1>9. CASE UNCHANGED turnVars
  BY <1>0, <1>9, ElsewhereKeeps DEF turnVars, threadVars, bindVars, hermesVars
<1> QED BY <1>1, <1>2, <1>3, <1>4, <1>5, <1>6, <1>7, <1>8, <1>9, TurnsCases

-----------------------------------------------------------------------------
(* Stop *)

\* Where the thread of an operation may be once its session is resolved, and once
\* its agent runs.
Resolved == {"submit", "wait", "report", "over"}
Started  == {"wait", "report", "over"}

StopTypes == stopping \in Op \cup {NoOne} /\ aim \in Session \cup {NoOne}

\* A Stop aims at the session of the turn it was asked for; while that turn is on its
\* way, no other one runs in the session.
Aimed ==
  /\ aim # NoOne => stopping \in Op /\ sess[stopping] = aim /\ pc[stopping] \in Resolved
  /\ \A o \in Op : stop[o] # NoOne => pc[o] \in Resolved
  /\ \A o, p \in Op : stop[p] = o /\ o # p => pc[o] = "over" /\ sess[o] = sess[p]

Unrivalled ==
  /\ \A o \in Op : agent[o] # "none" => pc[o] \in Started
  /\ \A o, p \in Op : pc[o] \in {"submit", "wait", "report"} /\ agent[p] \in Busy
                        /\ sess[p] = sess[o] => o = p

StopInv ==
  /\ DOMAIN stop = Op /\ DOMAIN agent = Op /\ stopping \in Op \cup {NoOne}
  /\ Aimed /\ Unrivalled

\* Threads only go on; sessions are resolved once; agents start with a prompt, and
\* one whose session is being resolved finds no other one there.
Advance ==
  /\ DOMAIN agent' = Op
  /\ \A o \in Op : pc[o] \in Resolved => pc'[o] \in Resolved /\ sess'[o] = sess[o]
  /\ \A o \in Op : pc[o] \in Started => pc'[o] \in Started
  /\ \A o \in Op : pc[o] = "over" => pc'[o] = "over"
  /\ \A o \in Op : agent'[o] \in Busy => agent[o] \in Busy \/ pc[o] = "submit"
  /\ \A o \in Op : agent[o] = "none" /\ agent'[o] # "none" =>
       pc[o] = "submit" /\ pc'[o] \in Started
  /\ \A o \in Op : pc'[o] \in {"submit", "wait", "report"} =>
       \/ pc[o] \in {"submit", "wait", "report"}
       \/ pc[o] = "resolve" /\ pc'[o] = "submit" /\ ~BusySession(sess'[o])
          /\ agent' = agent /\ \A p \in Op : p # o => sess'[p] = sess[p]

LEMMA UnrivalledNext ==
  ASSUME TurnInv, StopInv, Advance
  PROVE  Unrivalled'
<1>0. \A o \in Op : agent[o] # "none" => pc[o] \in Resolved /\ sess'[o] = sess[o]
  BY DEF StopInv, Unrivalled, Advance, Started, Resolved
<1>1. \A o \in Op : agent'[o] # "none" => pc'[o] \in Started
  BY DEF StopInv, Unrivalled, Advance
<1>2. ASSUME NEW o \in Op, NEW p \in Op, pc'[o] \in {"submit", "wait", "report"},
             agent'[p] \in Busy, sess'[p] = sess'[o]
      PROVE  o = p
  <2>1. CASE pc[o] \in {"submit", "wait", "report"}
    <3>1. sess'[o] = sess[o]
      BY <2>1 DEF Advance, Resolved
    <3>2. CASE agent[p] \in Busy
      <4>1. sess'[p] = sess[p]
        BY <1>0, <3>2 DEF Busy
      <4> QED BY <1>2, <2>1, <3>1, <3>2, <4>1 DEF StopInv, Unrivalled
    <3>3. CASE pc[p] = "submit"
      BY <2>1, <3>3 DEF TurnInv, LockInv, InTurn
    <3> QED BY <1>2, <3>2, <3>3 DEF Advance
  <2>2. CASE /\ pc[o] = "resolve" /\ ~BusySession(sess'[o])
             /\ agent' = agent /\ \A q \in Op : q # o => sess'[q] = sess[q]
    BY <1>2, <2>2 DEF BusySession
  <2> QED BY <1>2, <2>1, <2>2 DEF Advance
<1> QED BY <1>1, <1>2 DEF Unrivalled

LEMMA AimedKeeps ==
  ASSUME NamesDiffer, StopInv, Advance, UNCHANGED stop,
         UNCHANGED <<stopping, aim>> \/ aim' = NoOne
  PROVE  Aimed'
<1>1. \A o \in Op : stop[o] # NoOne => pc[o] \in Resolved
  BY DEF StopInv, Aimed
<1>2. ASSUME NEW o \in Op, NEW p \in Op, stop[p] = o, o # p
      PROVE  pc'[o] = "over" /\ sess'[o] = sess'[p]
  <2>1. pc[o] = "over" /\ sess[o] = sess[p] /\ pc[p] \in Resolved
    BY <1>1, <1>2 DEF StopInv, Aimed, NamesDiffer
  <2> QED BY <2>1 DEF Advance, Resolved
<1>3. aim' # NoOne => stopping' \in Op /\ sess'[stopping'] = aim' /\ pc'[stopping'] \in Resolved
  BY DEF StopInv, Aimed, Advance
<1> QED BY <1>1, <1>2, <1>3 DEF Aimed, Advance

LEMMA StillAdvances ==
  ASSUME StopInv, UNCHANGED <<pc, sess>>, DOMAIN agent' = Op,
         \A o \in Op : agent'[o] = agent[o] \/ agent[o] \in Busy
  PROVE  Advance
BY DEF StopInv, Advance, Busy

\* A thread that leaves, before its prompt or after it.
LEMMA LeaveAdvances ==
  ASSUME TurnInv, StopInv, NEW o \in Op, LeaveTurn(o), UNCHANGED sess,
         \/ UNCHANGED agent
         \/ pc[o] = "submit" /\ Prompted(o)
  PROVE  Advance
<1>1. \A p \in Op : pc'[p] = IF p = o THEN "over" ELSE pc[p]
  BY DEF LeaveTurn, TurnInv, Shapes
<1>2. DOMAIN agent' = Op /\ \A p \in Op : agent'[p] = agent[p] \/ (p = o /\ pc[o] = "submit")
  BY DEF Prompted, StopInv
<1> QED BY <1>1, <1>2 DEF Advance, Resolved, Started, Busy

LEMMA ThreadAdvances ==
  ASSUME TurnInv, StopInv, NEW o \in Op, TurnStep(o)
  PROVE  Advance
<1>0. DOMAIN pc = Op /\ DOMAIN agent = Op
  BY DEF TurnInv, Shapes, StopInv
<1>1. CASE TakeTurnLock(o) \/ (Check(o) /\ pc' = [pc EXCEPT ![o] = "resolve"])
  <2>1. /\ UNCHANGED <<sess, agent>> /\ pc[o] \in {"lock", "check"}
        /\ \A p \in Op : pc'[p] = pc[p] \/ (p = o /\ pc'[o] \in {"check", "resolve"})
    BY <1>0, <1>1 DEF TakeTurnLock, Check, hermesVars
  <2> QED BY <1>0, <2>1 DEF Advance, Resolved, Started
<1>2. CASE Resolve(o) /\ pc' = [pc EXCEPT ![o] = "submit"]
  <2>1. PICK s : ~BusySession(s) /\ sess' = [sess EXCEPT ![o] = s]
    BY <1>0, <1>2 DEF Resolve, Settle, LeaveTurn
  <2>2. /\ UNCHANGED agent /\ pc[o] = "resolve" /\ sess'[o] = s
        /\ \A p \in Op : p # o => sess'[p] = sess[p]
    BY <1>2, <2>1 DEF Resolve, TurnInv, Shapes
  <2>3. \A p \in Op : pc'[p] = IF p = o THEN "submit" ELSE pc[p]
    BY <1>0, <1>2
  <2> QED BY <1>0, <2>1, <2>2, <2>3 DEF Advance, Resolved, Started
<1>3. CASE SubmitPrompt(o) /\ pc' = [pc EXCEPT ![o] = "wait"]
  <2>1. /\ UNCHANGED sess /\ pc[o] = "submit" /\ DOMAIN agent' = Op
        /\ \A p \in Op : p # o => agent'[p] = agent[p]
    BY <1>0, <1>3 DEF SubmitPrompt, Prompted
  <2>2. \A p \in Op : pc'[p] = IF p = o THEN "wait" ELSE pc[p]
    BY <1>0, <1>3
  <2> QED BY <2>1, <2>2 DEF Advance, Resolved, Started
<1>4. CASE Hear(o) /\ pc' = [pc EXCEPT ![o] = "report"]
  <2>1. UNCHANGED <<sess, agent>> /\ pc[o] = "wait"
    BY <1>4 DEF Hear, hermesVars
  <2>2. \A p \in Op : pc'[p] = IF p = o THEN "report" ELSE pc[p]
    BY <1>0, <1>4
  <2> QED BY <1>0, <2>1, <2>2 DEF Advance, Resolved, Started
<1>5. CASE LeaveTurn(o) /\ UNCHANGED <<sess, agent>>
  BY <1>5, LeaveAdvances
<1>6. \/ TakeTurnLock(o)
      \/ Check(o) /\ pc' = [pc EXCEPT ![o] = "resolve"]
      \/ Resolve(o) /\ pc' = [pc EXCEPT ![o] = "submit"]
      \/ SubmitPrompt(o) /\ pc' = [pc EXCEPT ![o] = "wait"]
      \/ Hear(o) /\ pc' = [pc EXCEPT ![o] = "report"]
      \/ LeaveTurn(o) /\ UNCHANGED <<sess, agent>>
  BY DEF TurnStep, Check, Resolve, SubmitPrompt, Hear, Report, Settle, hermesVars
<1> QED BY <1>1, <1>2, <1>3, <1>4, <1>5, <1>6

LEMMA AgentAdvances ==
  ASSUME StopInv, NEW o \in Op, AgentStep(o)
  PROVE  Advance
<1>1. /\ UNCHANGED <<pc, sess>> /\ agent[o] \in Busy
      /\ \E next : agent' = [agent EXCEPT ![o] = next]
  BY DEF AgentStep, BindSave, AgentSave, AgentEnd, threadVars, Busy
<1>2. DOMAIN agent' = Op /\ \A p \in Op : p # o => agent'[p] = agent[p]
  BY <1>1 DEF StopInv
<1> QED BY <1>1, <1>2, StillAdvances

LEMMA CrashAdvances ==
  ASSUME TurnInv, StopInv, ControllerCrash
  PROVE  Advance
<1>1. /\ \A o \in Op : pc'[o] = IF pc[o] = "idle" THEN "idle" ELSE "over"
      /\ UNCHANGED <<sess, agent>>
  BY DEF ControllerCrash, hermesVars
<1> QED BY <1>1 DEF StopInv, Advance, Resolved, Started

LEMMA StartAdvances ==
  ASSUME TurnInv, StopInv, NEW o \in Op, NEW save, StartDraftOperation(o, save)
  PROVE  Advance
<1>1. /\ pc[o] = "idle" /\ UNCHANGED <<sess, agent>>
      /\ \A p \in Op : pc'[p] = pc[p] \/ (p = o /\ pc'[o] \in {"lock", "over"})
  BY DEF StartDraftOperation, hermesVars, TurnInv, Shapes
<1> QED BY <1>1 DEF StopInv, Advance, Resolved, Started

LEMMA NextAdvances ==
  ASSUME TurnInv, StopInv, [TurnsNext]_turnVars
  PROVE  Advance
<1>1. ASSUME NEW o \in Op, Generate(o) \/ Chat(o) PROVE Advance
  BY <1>1, StartAdvances DEF Generate, Chat
<1>2. ASSUME NEW o \in Op, LoseConnection(o) PROVE Advance
  BY <1>2, LeaveAdvances DEF LoseConnection
<1>3. CASE \/ StopStep \/ OtherSave \/ EditMaterials \/ RetireStep \/ ClearHistory
           \/ ControllerRestart \/ \E s \in Session : DeleteSession(s)
           \/ UNCHANGED turnVars
  <2>1. UNCHANGED <<pc, sess, agent>>
    BY <1>3 DEF StopStep, InterruptOperation, LookUpLive, SessionInterrupt, OtherSave,
       EditMaterials, RetireStep, BeginRetire, ScheduleDeletion, Unbind, FailRetire,
       ClearHistory, ControllerRestart, DeleteSession, turnVars, threadVars, hermesVars
  <2> QED BY <2>1, StillAdvances DEF StopInv
<1> QED BY <1>1, <1>2, <1>3, ThreadAdvances, AgentAdvances, CrashAdvances, TurnsCases

\* What the other steps do to a Stop on its way.
LEMMA StopStays ==
  ASSUME [TurnsNext]_turnVars, ~StopStep
  PROVE  /\ UNCHANGED stop
         /\ UNCHANGED <<stopping, aim>> \/ (stopping' = NoOne /\ aim' = NoOne)
<1>1. ASSUME NEW o \in Op, Generate(o) \/ Chat(o) \/ TurnStep(o) \/ LoseConnection(o) \/ AgentStep(o)
      PROVE  UNCHANGED <<stop, stopping, aim>>
  BY <1>1 DEF Generate, Chat, StartDraftOperation, TurnStep, TakeTurnLock, Check, Resolve,
     SubmitPrompt, Hear, Report, LoseConnection, AgentStep, BindSave, AgentSave, AgentEnd,
     hermesVars, stopVars
<1>2. CASE OtherSave \/ EditMaterials \/ ClearHistory \/ ControllerRestart \/ UNCHANGED turnVars
  BY <1>2 DEF OtherSave, EditMaterials, ClearHistory, ControllerRestart, turnVars, hermesVars, stopVars
<1>3. CASE ControllerCrash
  BY <1>3 DEF ControllerCrash, hermesVars
<1>4. CASE RetireStep
  BY <1>4 DEF RetireStep, BeginRetire, ScheduleDeletion, Unbind, FailRetire, hermesVars, stopVars
<1>5. ASSUME NEW s \in Session, DeleteSession(s)
      PROVE  UNCHANGED <<stop, stopping, aim>>
  BY <1>5 DEF DeleteSession, stopVars
<1> QED BY <1>1, <1>2, <1>3, <1>4, <1>5, TurnsCases

\* The turn that a Stop looks up has the registered session.
LEMMA LookUpAims ==
  ASSUME TurnInv, StopInv, NamesDiffer, LookUpLive
  PROVE  Aimed'
<1>1. UNCHANGED <<pc, sess, stop>> /\ stopping \in Op
  BY DEF LookUpLive, StopInv, threadVars, hermesVars
<1>2. CASE live = stopping /\ aim' = sess[live] /\ UNCHANGED stopping
  <2>1. pc[stopping] \in Resolved
    BY <1>1, <1>2 DEF TurnInv, LiveInv, Resolved
  <2> QED BY <1>1, <1>2, <2>1 DEF StopInv, Aimed
<1>3. CASE stopping' = NoOne /\ UNCHANGED aim
  BY <1>1, <1>3 DEF StopInv, Aimed, LookUpLive
<1> QED BY <1>2, <1>3 DEF LookUpLive, LiveIsAsked

\* What it stops then is that turn, or one that came after it.
LEMMA InterruptAims ==
  ASSUME TurnInv, StopInv, NamesDiffer, SessionInterrupt
  PROVE  Aimed' /\ DOMAIN stop' = Op
<1>1. /\ UNCHANGED <<pc, sess>> /\ aim' = NoOne
      /\ stopping \in Op /\ sess[stopping] = aim /\ pc[stopping] \in Resolved
  BY DEF SessionInterrupt, StopInv, Aimed, threadVars
<1>2. CASE UNCHANGED stop
  BY <1>1, <1>2 DEF StopInv, Aimed
<1>3. CASE stop' = [o \in Op |-> IF sess[o] = aim /\ agent[o] \in Busy THEN stopping ELSE stop[o]]
  <2>1. ASSUME NEW o \in Op, sess[o] = aim, agent[o] \in Busy
        PROVE  pc[o] \in Resolved /\ (o # stopping => pc[stopping] = "over")
    <3>1. pc[o] \in Started
      BY <2>1 DEF StopInv, Unrivalled, Busy
    <3>2. pc[stopping] \in {"submit", "wait", "report"} => stopping = o
      BY <1>1, <2>1 DEF StopInv, Unrivalled
    <3> QED BY <1>1, <3>1, <3>2 DEF Started, Resolved
  <2>2. \A o \in Op : stop'[o] # NoOne => pc[o] \in Resolved
    BY <1>3, <2>1 DEF StopInv, Aimed
  <2>3. ASSUME NEW o \in Op, NEW p \in Op, stop'[p] = o, o # p
        PROVE  pc[o] = "over" /\ sess[o] = sess[p]
    BY <1>1, <1>3, <2>1, <2>3 DEF StopInv, Aimed
  <2> QED BY <1>1, <1>3, <2>2, <2>3 DEF Aimed
<1> QED BY <1>2, <1>3 DEF SessionInterrupt, StopInv

LEMMA StopInit == NamesDiffer /\ TurnsInit => StopInv
BY DEF TurnsInit, StopInv, Aimed, Unrivalled, Busy, NamesDiffer

LEMMA StopNext ==
  NamesDiffer /\ TurnInv /\ StopInv /\ [TurnsNext]_turnVars => StopInv'
<1> SUFFICES ASSUME NamesDiffer, TurnInv, StopInv, [TurnsNext]_turnVars PROVE StopInv'
  OBVIOUS
<1>1. Advance
  BY NextAdvances
<1>2. Unrivalled' /\ DOMAIN agent' = Op
  BY <1>1, UnrivalledNext DEF Advance
<1>3. CASE ~StopStep
  <2>1. /\ UNCHANGED stop
        /\ UNCHANGED <<stopping, aim>> \/ (stopping' = NoOne /\ aim' = NoOne)
    BY <1>3, StopStays
  <2>2. Aimed'
    BY <1>1, <2>1, AimedKeeps
  <2> QED BY <1>2, <2>1, <2>2 DEF StopInv
<1>4. ASSUME NEW o \in Op, InterruptOperation(o) PROVE StopInv'
  <2>1. /\ stopping = NoOne /\ stopping' = o /\ UNCHANGED <<aim, pc, sess, stop>>
    BY <1>4 DEF InterruptOperation, threadVars, hermesVars
  <2>2. aim = NoOne
    BY <2>1 DEF StopInv, Aimed, NamesDiffer
  <2>3. Aimed'
    BY <2>1, <2>2 DEF StopInv, Aimed
  <2> QED BY <1>2, <2>1, <2>3 DEF StopInv
<1>5. CASE LookUpLive
  <2>1. UNCHANGED stop /\ stopping' \in Op \cup {NoOne}
    BY <1>5 DEF LookUpLive, hermesVars, StopInv
  <2> QED BY <1>2, <1>5, <2>1, LookUpAims DEF StopInv
<1>6. CASE SessionInterrupt
  <2>1. stopping' = NoOne
    BY <1>6 DEF SessionInterrupt
  <2> QED BY <1>2, <1>6, <2>1, InterruptAims DEF StopInv
<1> QED BY <1>3, <1>4, <1>5, <1>6 DEF StopStep

LEMMA StopTypesNext ==
  ASSUME StopTypes, sess \in [Op -> Session \cup {NoOne}], [TurnsNext]_turnVars
  PROVE  StopTypes'
<1>1. CASE ~StopStep
  BY <1>1, StopStays DEF StopTypes
<1>2. ASSUME NEW o \in Op, InterruptOperation(o) PROVE StopTypes'
  BY <1>2 DEF InterruptOperation, StopTypes
<1>3. CASE LookUpLive
  BY <1>3 DEF LookUpLive, LiveIsAsked, StopTypes
<1>4. CASE SessionInterrupt
  BY <1>4 DEF SessionInterrupt, StopTypes
<1> QED BY <1>1, <1>2, <1>3, <1>4 DEF StopStep

-----------------------------------------------------------------------------
(* Theorems *)

LEMMA TurnsAlways == NamesDiffer => (TurnsSpec => []TurnInv)
<1> SUFFICES ASSUME NamesDiffer PROVE TurnsSpec => []TurnInv
  OBVIOUS
<1>1. TurnsInit => TurnInv
  BY TurnInvInit
<1>2. TurnInv /\ [TurnsNext]_turnVars => TurnInv'
  BY TurnInvNext
<1> QED BY <1>1, <1>2, PTL DEF TurnsSpec

\* One turn at a time talks to Hermes, whatever a reset, a removal, Stop, a lost
\* connection or a crash does.  A Stop stops the turn it was asked for, or comes late
\* and stops one of the same session, when the thread of the first has left; it never
\* stops another turn beside it or in another session (hermes_session.py, the turn
\* lock, _live_turns, and the three steps of interrupt_operation).
THEOREM TurnsExclude == NamesDiffer => (TurnsSpec => []OneTurn)
<1> SUFFICES ASSUME NamesDiffer PROVE TurnsSpec => []OneTurn
  OBVIOUS
<1>1. TurnsInit => StopInv
  BY StopInit
<1>2. TurnInv /\ StopInv /\ [TurnsNext]_turnVars => StopInv'
  BY StopNext
<1>3. TurnInv /\ StopInv => OneTurn
  BY DEF TurnInv, LockInv, LiveInv, StopInv, Aimed, OneTurn, NamesDiffer
<1> QED BY <1>1, <1>2, <1>3, TurnsAlways, PTL DEF TurnsSpec

LEMMA OneRunningNext ==
  Shapes /\ OneRunningOperation /\ [TurnsNext]_turnVars => OneRunningOperation'
<1> SUFFICES ASSUME Shapes, OneRunningOperation, [TurnsNext]_turnVars,
                    NEW o \in Op, NEW p \in Op, row'[o] = "running", row'[p] = "running"
             PROVE  o = p
  BY DEF OneRunningOperation
<1>1. RowsMove
  BY NextMoves
<1>2. \A q \in Op : row'[q] = "running" /\ row[q] # "running" => RunningOp = {}
  BY <1>1 DEF RowsMove
<1>3. RunningOp = {} => row[o] # "running" /\ row[p] # "running"
  BY DEF RunningOp
<1> QED BY <1>1, <1>2, <1>3 DEF RowsMove, OneRunningOperation

\* A workspace has at most one operation in flight
\* (draft_store.py, the second SELECT of start_operation).
THEOREM RunningExcludes == NamesDiffer => (TurnsSpec => []OneRunningOperation)
<1> SUFFICES ASSUME NamesDiffer PROVE TurnsSpec => []OneRunningOperation
  OBVIOUS
<1>1. TurnsInit => OneRunningOperation
  BY DEF TurnsInit, OneRunningOperation
<1>2. TurnInv /\ OneRunningOperation /\ [TurnsNext]_turnVars => OneRunningOperation'
  BY OneRunningNext DEF TurnInv
<1> QED BY <1>1, <1>2, TurnsAlways, PTL DEF TurnsSpec

\* What a member was told of an operation never changes but by a reset
\* (draft_store.py, UPDATE ... WHERE state = 'running').
THEOREM AnswersAreFinal == NamesDiffer => (TurnsSpec => OutcomeIsFinal)
<1> SUFFICES ASSUME NamesDiffer PROVE TurnsSpec => OutcomeIsFinal
  OBVIOUS
<1> DEFINE Final == \A o \in Op : row[o] \in SettledStates \cup {"deleted"} =>
                      Answered(o)' = Answered(o) \/ row'[o] = "deleted"
<1>1. TurnInv /\ [TurnsNext]_turnVars => [Final]_turnVars
  <2> SUFFICES ASSUME TurnInv, [TurnsNext]_turnVars PROVE Final
    OBVIOUS
  <2>1. RowsMove
    BY NextMoves DEF TurnInv
  <2> QED BY <2>1 DEF RowsMove, Answered, SettledStates, Completed, Failed
<1> QED BY <1>1, TurnsAlways, PTL DEF TurnsSpec, OutcomeIsFinal

-----------------------------------------------------------------------------
(* Saves and the operations they are credited to *)


Writer   == [by : Op \cup {"member", "feishu"}, stamp : Op \cup {NoOne}]
Agents   == Busy \cup {"none", "over", "broken"}
Versions == 1..Version

\* Someone saved under the operation's id.
Stamped(o) == \E k \in Versions : draft[k].stamp = o

FilesInv ==
  /\ draft \in Seq(Writer)
  /\ \A o \in Op : req[o].d \in Nat
  /\ DOMAIN req = Op
  /\ agent \in [Op -> Agents]
  /\ bound \in [Op -> Op \cup {NoOne}]

\* Threads work for operations that have not been told an outcome, agents for ones
\* that were admitted.
AdmittedInv ==
  /\ ~up => \A o \in Op : pc[o] \in {"idle", "over"}
  /\ \A o \in Op : pc[o] \in InTurn \cup {"lock"} => row[o] \in {"running", "deleted"}
  /\ \A o \in Op : row[o] = "none" => agent[o] = "none" /\ \A p \in Op : bound[p] # o

\* A version stamped with an operation is later than the one its request names, so
\* that its agent can no longer save.
StampInv ==
  /\ \A o \in Op : row[o] # "none" => req[o].d <= Version
  /\ \A k \in Versions : \A o \in Op :
       draft[k].stamp = o => row[o] # "none" /\ req[o].d < k

\* An operation completes when its agent is over, or at a restart when its id was
\* stamped; in either case its agent saves no more.
CompletedInv ==
  /\ \A o \in Op : pc[o] = "report" => agent[o] = "over"
  /\ \A o \in Op : row[o] \in Completed => agent[o] = "over" \/ Stamped(o)

\* Who saves under another operation's id had failed or was reset before.
Lost(o) == row[o] \in Failed \cup {"deleted"}

ForeignAgents ==
  \A o, p \in Op : agent[p] = "saving" /\ bound[p] = o /\ o # p =>
    row[p] \notin {"none", "running"}

ForeignVersions ==
  /\ \A k \in Versions : \A o, p \in Op :
       draft[k].by = p /\ draft[k].stamp = o /\ o # p => Lost(p)
  /\ \A k \in Versions : draft[k].by = "member" => draft[k].stamp = NoOne

\* A change that is reported is a version stamped with the operation.
ReportedInv ==
  \A o \in Op : row[o] = "changed" => after[o] \in Versions /\ draft[after[o]].stamp = o

CreditInv ==
  FilesInv /\ AdmittedInv /\ StampInv /\ CompletedInv
  /\ ForeignAgents /\ ForeignVersions /\ ReportedInv

-----------------------------------------------------------------------------
(* Rows and saves move apart *)

RowFacts == /\ Completed \cap (Failed \cup {"deleted", "none", "running"}) = {}
            /\ Failed \cap {"deleted", "none", "running"} = {}
            /\ SettledStates = Completed \cup Failed

LEMMA RowsApart == RowFacts
BY DEF RowFacts, Completed, Failed, SettledStates

\* A reset or an outcome takes a lost row nowhere else.
LEMMA LostStays ==
  ASSUME RowsMove, NEW o \in Op, Lost(o)
  PROVE  Lost(o)'
BY RowsApart DEF RowFacts, RowsMove, Lost

\* An operation completes with what it saved last, or without a save in its report.
Justified ==
  \A o \in Op : row'[o] \in Completed /\ row[o] \notin Completed =>
    /\ UNCHANGED <<draft, agent>>
    /\ \/ row'[o] = "unchanged" /\ pc[o] = "report"
       \/ row'[o] = "changed" /\ Version \in Nat \ {0} /\ Stamp = o /\ after'[o] = Version

LEMMA SameRowsJustified ==
  ASSUME UNCHANGED row PROVE Justified
BY DEF Justified

LEMMA FailedJustified ==
  ASSUME Shapes, NEW o \in Op, NEW version, Finish(o, "failed", version)
  PROVE  Justified
<1>1. \A p \in Op : row'[p] = row[p] \/ row'[p] = "failed"
  BY DEF Shapes, Finish
<1>2. "failed" \notin Completed
  BY DEF Completed
<1> QED BY <1>1, <1>2 DEF Justified

LEMMA SettleFailed ==
  ASSUME Shapes, NEW o \in Op, NEW version, Settle(o, "failed", version)
  PROVE  Justified
BY FailedJustified, SameRowsJustified DEF Settle

LEMMA OutcomeMeans ==
  ASSUME NEW o \in Op
  PROVE  /\ Outcome(o) = "changed" => DraftChanged(o)
         /\ Outcome(o) \in Completed => Outcome(o) \in {"changed", "unchanged"}
BY DEF Outcome, Completed

LEMMA VersionType == ASSUME FilesInv PROVE Version \in Nat
BY DEF FilesInv, Version

LEMMA ReportJustified ==
  ASSUME Shapes, FilesInv, NEW o \in Op, Report(o)
  PROVE  Justified
<1>1. CASE UNCHANGED row
  BY <1>1, SameRowsJustified
<1>2. CASE Finish(o, Outcome(o), IF Outcome(o) \in Completed THEN Version ELSE 0)
  <2>1. /\ \A p \in Op : p # o => row'[p] = row[p]
        /\ row'[o] = row[o] \/ row'[o] = Outcome(o)
        /\ row'[o] # row[o] => after'[o] = IF Outcome(o) \in Completed THEN Version ELSE 0
    BY <1>2 DEF Finish, Shapes
  <2>2. UNCHANGED <<draft, agent>> /\ pc[o] = "report"
    BY DEF Report, fileVars, hermesVars
  <2>3. DraftChanged(o) => Version \in Nat \ {0} /\ Stamp = o
    BY VersionType DEF DraftChanged, FilesInv
  <2> QED BY <2>1, <2>2, <2>3, OutcomeMeans DEF Justified, Completed
<1> QED BY <1>1, <1>2 DEF Report, Settle

LEMMA RestartJustified ==
  ASSUME Shapes, FilesInv, ControllerRestart
  PROVE  Justified
<1>1. /\ \A o \in Op : row'[o] = IF row[o] = "running" THEN RecoveredOutcome(o) ELSE row[o]
      /\ \A o \in Op : row[o] = "running" /\ Recovered(o) => after'[o] = Version
      /\ UNCHANGED <<draft, agent>>
  BY DEF ControllerRestart, fileVars, hermesVars
<1>2. \A o \in Op : Recovered(o) => Version \in Nat \ {0} /\ Stamp = o
  BY DEF Recovered, Version, FilesInv
<1>3. \A o \in Op : RecoveredOutcome(o) \in Completed => Recovered(o)
  BY DEF RecoveredOutcome, Completed
<1>4. \A o \in Op : Recovered(o) => RecoveredOutcome(o) = "changed"
  BY DEF RecoveredOutcome
<1> QED BY <1>1, <1>2, <1>3, <1>4 DEF Justified

LEMMA NextJustified ==
  ASSUME Shapes, FilesInv, [TurnsNext]_turnVars
  PROVE  Justified
<1>0. Completed \cap {"running", "deleted", "none"} = {}
  BY DEF Completed
<1>1. ASSUME NEW o \in Op, Generate(o) \/ Chat(o) PROVE Justified
  <2>1. row' = [row EXCEPT ![o] = "running"]
    BY <1>1 DEF Generate, Chat, StartDraftOperation
  <2> QED BY <1>0, <2>1 DEF Justified, Shapes
<1>2. ASSUME NEW o \in Op, TurnStep(o) PROVE Justified
  <2>1. CASE TakeTurnLock(o)
    BY <2>1, SameRowsJustified DEF TakeTurnLock, opVars
  <2>2. CASE Check(o) \/ Resolve(o) \/ SubmitPrompt(o) \/ Hear(o)
    BY <2>2, SettleFailed, SameRowsJustified DEF Check, Resolve, SubmitPrompt, Hear
  <2> QED BY <1>2, <2>1, <2>2, ReportJustified DEF TurnStep
<1>3. ASSUME NEW o \in Op, LoseConnection(o) PROVE Justified
  BY <1>3, FailedJustified DEF LoseConnection
<1>4. ASSUME NEW o \in Op, AgentStep(o) PROVE Justified
  BY <1>4, SameRowsJustified DEF AgentStep, BindSave, AgentSave, AgentEnd, opVars
<1>5. CASE StopStep \/ OtherSave \/ EditMaterials \/ RetireStep \/ ControllerCrash
  BY <1>5, SameRowsJustified DEF OtherSave, EditMaterials, ControllerCrash,
     StopStep, InterruptOperation, LookUpLive, SessionInterrupt,
     RetireStep, BeginRetire, ScheduleDeletion, Unbind, FailRetire, opVars
<1>6. CASE ClearHistory
  BY <1>0, <1>6 DEF ClearHistory, Justified
<1>7. CASE ControllerRestart
  BY <1>7, RestartJustified
<1>8. ASSUME NEW s \in Session, DeleteSession(s) PROVE Justified
  BY <1>8, SameRowsJustified DEF DeleteSession, opVars
<1>9. CASE UNCHANGED turnVars
  BY <1>9, SameRowsJustified DEF turnVars, opVars
<1> QED BY <1>1, <1>2, <1>3, <1>4, <1>5, <1>6, <1>7, <1>8, <1>9, TurnsCases

-----------------------------------------------------------------------------
(* Saves *)

\* A save appends a version; it is stamped with an operation that was admitted, and
\* who uses the id of another has lost its own row.
NewSave(v) ==
  /\ v \in Writer /\ draft' = Append(draft, v) /\ UNCHANGED <<row, after, req>>
  /\ v.by = "member" => v.stamp = NoOne
  /\ \A o \in Op : v.stamp = o => row[o] # "none"
  /\ \A o, p \in Op : v.by = p /\ v.stamp = o /\ o # p => Lost(p)

SaveMoves == UNCHANGED draft \/ \E v : NewSave(v)

\* The versions of a request are read when it is admitted.
RequestsMove ==
  /\ DOMAIN req' = Op
  /\ \A o \in Op : req'[o].d \in Nat
  /\ \A o \in Op : row[o] # "none" => req'[o] = req[o]
  /\ \A o \in Op : row[o] = "none" /\ row'[o] # "none" => req'[o].d = Version

LEMMA SaveFacts ==
  ASSUME FilesInv, NEW v, NewSave(v)
  PROVE  /\ Version \in Nat /\ Version' = Version + 1
         /\ \A k \in Versions : draft'[k] = draft[k]
         /\ draft'[Version + 1] = v
         /\ draft' \in Seq(Writer)
BY DEF FilesInv, NewSave, Version, Versions

\* A version after the step is one of before, or the one just saved.
LEMMA VersionsGrow ==
  ASSUME FilesInv, SaveMoves
  PROVE  /\ Version \in Nat /\ Version' \in Nat /\ Version <= Version'
         /\ \A k \in Versions : k \in Versions' /\ draft'[k] = draft[k]
         /\ \A k \in Versions' : \/ k \in Versions
                                 \/ k = Version + 1 /\ NewSave(draft'[k])
<1>1. Version \in Nat
  BY VersionType
<1>2. CASE UNCHANGED draft
  BY <1>1, <1>2 DEF Version, Versions
<1>3. ASSUME NEW v, NewSave(v)
      PROVE  /\ Version' \in Nat /\ Version <= Version'
             /\ \A k \in Versions : k \in Versions' /\ draft'[k] = draft[k]
             /\ \A k \in Versions' : \/ k \in Versions
                                     \/ k = Version + 1 /\ NewSave(draft'[k])
  <2>1. /\ Version' = Version + 1 /\ \A k \in Versions : draft'[k] = draft[k]
        /\ draft'[Version + 1] = v
    BY <1>3, SaveFacts
  <2>2. Versions' = 1..(Version + 1)
    BY <2>1 DEF Versions
  <2> QED BY <1>1, <1>3, <2>1, <2>2 DEF Versions
<1> QED BY <1>1, <1>2, <1>3 DEF SaveMoves

LEMMA StampNext ==
  ASSUME FilesInv, StampInv, RowsMove, SaveMoves, RequestsMove
  PROVE  StampInv'
<1>0. Version \in Nat /\ Version' \in Nat /\ Version <= Version'
  BY VersionsGrow
<1>1. \A o \in Op : row'[o] # "none" => req'[o].d <= Version'
  <2> SUFFICES ASSUME NEW o \in Op, row'[o] # "none" PROVE req'[o].d <= Version'
    OBVIOUS
  <2>1. CASE row[o] # "none"
    BY <1>0, <2>1 DEF StampInv, FilesInv, RequestsMove
  <2>2. CASE row[o] = "none"
    BY <1>0, <2>2 DEF RequestsMove
  <2> QED BY <2>1, <2>2
<1>2. \A o \in Op : row[o] # "none" => row'[o] # "none" /\ req'[o] = req[o]
  BY RowsApart DEF RowsMove, RequestsMove, RowFacts
<1>3. \A k \in Versions' : \A o \in Op :
        draft'[k].stamp = o => row'[o] # "none" /\ req'[o].d < k
  <2> SUFFICES ASSUME NEW k \in Versions', NEW o \in Op, draft'[k].stamp = o
               PROVE  row'[o] # "none" /\ req'[o].d < k
    OBVIOUS
  <2>1. CASE k \in Versions
    <3>1. draft[k].stamp = o
      BY <2>1, VersionsGrow
    <3> QED BY <1>2, <2>1, <3>1 DEF StampInv
  <2>2. CASE k = Version + 1 /\ NewSave(draft'[k])
    <3>1. row[o] # "none"
      BY <2>2 DEF NewSave
    <3>2. req[o].d <= Version /\ req[o].d \in Nat
      BY <3>1 DEF StampInv, FilesInv
    <3> QED BY <1>0, <1>2, <2>2, <3>1, <3>2
  <2> QED BY <2>1, <2>2, VersionsGrow
<1> QED BY <1>1, <1>3 DEF StampInv

LEMMA ForeignNext ==
  ASSUME FilesInv, ForeignVersions, RowsMove, SaveMoves
  PROVE  ForeignVersions'
<1>1. ASSUME NEW k \in Versions', NEW o \in Op, NEW p \in Op,
             draft'[k].by = p, draft'[k].stamp = o, o # p
      PROVE  Lost(p)'
  <2>1. CASE k \in Versions
    <3>1. draft'[k] = draft[k]
      BY <2>1, VersionsGrow
    <3>2. Lost(p)
      BY <1>1, <2>1, <3>1 DEF ForeignVersions
    <3> QED BY <3>2, LostStays
  <2>2. CASE NewSave(draft'[k])
    <3>1. Lost(p)
      BY <1>1, <2>2 DEF NewSave
    <3> QED BY <3>1, LostStays
  <2> QED BY <2>1, <2>2, VersionsGrow
<1>2. ASSUME NEW k \in Versions', draft'[k].by = "member"
      PROVE  draft'[k].stamp = NoOne
  <2>1. CASE k \in Versions
    BY <1>2, <2>1, VersionsGrow DEF ForeignVersions
  <2>2. CASE NewSave(draft'[k])
    BY <1>2, <2>2 DEF NewSave
  <2> QED BY <2>1, <2>2, VersionsGrow
<1> QED BY <1>1, <1>2 DEF ForeignVersions

LEMMA ReportedNext ==
  ASSUME FilesInv, ReportedInv, RowsMove, SaveMoves, Justified
  PROVE  ReportedInv'
<1> SUFFICES ASSUME NEW o \in Op, row'[o] = "changed"
             PROVE  after'[o] \in Versions' /\ draft'[after'[o]].stamp = o
  BY DEF ReportedInv
<1>0. "changed" \in Completed /\ "changed" \notin {"none", "running", "deleted", "unchanged"}
  BY DEF Completed
<1>1. CASE row[o] = "changed"
  <2>1. UNCHANGED after[o]
    BY <1>0, <1>1, RowsApart DEF RowsMove, RowFacts
  <2>2. after[o] \in Versions /\ draft[after[o]].stamp = o
    BY <1>1 DEF ReportedInv
  <2> QED BY <2>1, <2>2, VersionsGrow
<1>2. CASE row[o] # "changed"
  <2>1. row[o] = "running"
    BY <1>0, <1>2 DEF RowsMove
  <2>2. /\ UNCHANGED draft /\ Version \in Nat \ {0} /\ Stamp = o /\ after'[o] = Version
    BY <1>0, <2>1, RowsApart DEF Justified, RowFacts
  <2>3. Stamp = draft[Version].stamp
    BY <2>2 DEF Stamp, Version, FilesInv
  <2>4. Versions' = Versions /\ Version \in Versions
    BY <2>2 DEF Versions, Version
  <2> QED BY <2>2, <2>3, <2>4
<1> QED BY <1>1, <1>2

\* What is reported is the turn's own save, Feishu's, or that of a turn that was lost.
LEMMA CreditFollows ==
  ASSUME NamesDiffer, FilesInv, ForeignVersions, ReportedInv
  PROVE  ChangeIsItsOwn
<1> SUFFICES ASSUME NEW o \in Op, row[o] = "changed"
             PROVE  /\ after[o] \in 1..Version
                    /\ draft[after[o]].stamp = o
                    /\ \/ draft[after[o]].by = o \/ draft[after[o]].by = "feishu"
                       \/ draft[after[o]].by \in Op /\ row[draft[after[o]].by] \notin Completed
  BY DEF ChangeIsItsOwn
<1>1. after[o] \in Versions /\ draft[after[o]].stamp = o
  BY DEF ReportedInv
<1>2. draft[after[o]].by \in Op \cup {"member", "feishu"}
  <2>1. draft[after[o]] \in Writer
    BY <1>1 DEF FilesInv, Versions, Version
  <2> QED BY <2>1 DEF Writer
<1>3. draft[after[o]].by # "member"
  BY <1>1 DEF ForeignVersions, NamesDiffer
<1>4. ASSUME NEW p \in Op, draft[after[o]].by = p, p # o PROVE row[p] \notin Completed
  BY <1>1, <1>4, RowsApart DEF ForeignVersions, Lost, RowFacts
<1> QED BY <1>1, <1>2, <1>3, <1>4 DEF Versions

-----------------------------------------------------------------------------
(* Agents *)

\* An agent moves for an operation that was admitted, and one that is over starts
\* again only with a prompt; it works under the id of an admitted operation.
AgentsMove ==
  /\ agent' \in [Op -> Agents]
  /\ bound' \in [Op -> Op \cup {NoOne}]
  /\ \A o \in Op : agent'[o] # agent[o] =>
       row[o] # "none" /\ (agent[o] = "over" => pc[o] = "submit")
  /\ \A o, p \in Op : bound'[p] = o => bound[p] = o \/ row[o] # "none"
  /\ \A o, p \in Op : agent'[p] = "saving" /\ bound'[p] = o /\ o # p =>
       \/ agent[p] = "saving" /\ bound[p] = o
       \/ row[p] \notin {"none", "running"}

\* Threads stay in step with their rows and agents.
ThreadsMove ==
  /\ ~up' => \A o \in Op : pc'[o] \in {"idle", "over"}
  /\ \A o \in Op : pc'[o] \in InTurn \cup {"lock"} => row'[o] \in {"running", "deleted"}
  /\ \A o \in Op : pc'[o] = "report" => agent'[o] = "over"

LEMMA StampedStays ==
  ASSUME FilesInv, SaveMoves, NEW o \in Op, Stamped(o)
  PROVE  Stamped(o)'
BY VersionsGrow DEF Stamped

LEMMA MovesKeep ==
  ASSUME FilesInv, AdmittedInv, CompletedInv, ForeignAgents,
         RowsMove, SaveMoves, RequestsMove, Justified, AgentsMove, ThreadsMove
  PROVE  (FilesInv /\ AdmittedInv /\ CompletedInv /\ ForeignAgents)'
<1>1. FilesInv'
  <2>1. draft' \in Seq(Writer)
    BY SaveFacts DEF SaveMoves, FilesInv
  <2> QED BY <2>1 DEF FilesInv, AgentsMove, RequestsMove, Agents, Busy
<1>2. AdmittedInv'
  <2>1. \A o \in Op : row'[o] = "none" => row[o] = "none"
    BY RowsApart DEF RowsMove, RowFacts
  <2> QED BY <2>1 DEF AdmittedInv, AgentsMove, ThreadsMove
<1>3. CompletedInv'
  <2> SUFFICES ASSUME NEW o \in Op, row'[o] \in Completed
               PROVE  agent'[o] = "over" \/ Stamped(o)'
    BY DEF CompletedInv, ThreadsMove
  <2>1. CASE row[o] \in Completed
    <3>1. CASE agent[o] = "over"
      BY <2>1, <3>1, RowsApart DEF AgentsMove, AdmittedInv, InTurn, RowFacts
    <3>2. CASE Stamped(o)
      BY <3>2, StampedStays
    <3> QED BY <2>1, <3>1, <3>2 DEF CompletedInv
  <2>2. CASE row[o] \notin Completed
    <3>1. CASE pc[o] = "report" /\ UNCHANGED agent
      BY <3>1 DEF CompletedInv
    <3>2. CASE UNCHANGED draft /\ Version \in Nat \ {0} /\ Stamp = o
      <4>1. Version \in Versions /\ draft[Version].stamp = o
        BY <3>2 DEF Stamp, Version, Versions, FilesInv
      <4> QED BY <4>1, StampedStays DEF Stamped
    <3> QED BY <2>2, <3>1, <3>2 DEF Justified
  <2> QED BY <2>1, <2>2
<1>4. ForeignAgents'
  <2>1. \A p \in Op : row[p] \notin {"none", "running"} => row'[p] \notin {"none", "running"}
    BY RowsApart DEF RowsMove, RowFacts
  <2> QED BY <2>1 DEF ForeignAgents, AgentsMove
<1> QED BY <1>1, <1>2, <1>3, <1>4

Base == Shapes /\ FilesInv /\ AdmittedInv /\ StampInv /\ CompletedInv /\ ForeignAgents

Moves == SaveMoves /\ RequestsMove /\ AgentsMove /\ ThreadsMove

LEMMA QuietAgents ==
  ASSUME FilesInv, UNCHANGED <<agent, bound>>
  PROVE  AgentsMove
BY DEF FilesInv, AgentsMove

LEMMA SameRequests ==
  ASSUME FilesInv, RowsMove, UNCHANGED req, \A o \in Op : row[o] = "none" => row'[o] = "none"
  PROVE  RequestsMove
BY DEF FilesInv, RequestsMove

\* A thread goes on while its row waits for it, or leaves.
LEMMA ThreadGoes ==
  ASSUME Base, NEW o \in Op, NEW next, up, up', pc' = [pc EXCEPT ![o] = next],
         \A p \in Op : p # o => row'[p] = row[p] /\ agent'[p] = agent[p],
         \/ next = "over"
         \/ /\ row[o] \in {"running", "deleted"} /\ row'[o] = row[o]
            /\ next = "report" => agent'[o] = "over"
  PROVE  ThreadsMove
<1>1. \A p \in Op : pc'[p] = IF p = o THEN next ELSE pc[p]
  BY DEF Base, Shapes
<1>2. "over" \notin InTurn \cup {"lock"} /\ "over" # "report"
  BY DEF InTurn
<1> QED BY <1>1, <1>2 DEF ThreadsMove, Base, AdmittedInv, CompletedInv

\* The thread settles and leaves; its agent, if it has one, goes on.
LEMMA SettleSaves ==
  ASSUME Base, NEW o \in Op, NEW outcome \in SettledStates, NEW version,
         Settle(o, outcome, version), RowsMove, up,
         UNCHANGED <<req, up, draft, agent, bound>>
  PROVE  Moves
<1>1. /\ pc' = [pc EXCEPT ![o] = "over"]
      /\ \A p \in Op : p # o => row'[p] = row[p]
      /\ row[o] = "none" => row'[o] = "none"
  BY DEF Settle, LeaveTurn, Finish, Base, Shapes
<1>2. ThreadsMove
  BY <1>1, ThreadGoes
<1>3. RequestsMove /\ AgentsMove
  BY <1>1, SameRequests, QuietAgents DEF Base
<1> QED BY <1>2, <1>3 DEF Moves, SaveMoves

\* The thread goes on; its row and everything of the agents stay.
LEMMA GoOnSaves ==
  ASSUME Base, NEW o \in Op, NEW next, RowsMove, up, pc' = [pc EXCEPT ![o] = next],
         pc[o] \in InTurn \cup {"lock"}, next = "report" => agent[o] = "over",
         UNCHANGED <<row, req, up, draft, agent, bound>>
  PROVE  Moves
<1>1. row[o] \in {"running", "deleted"}
  BY DEF Base, AdmittedInv
<1>2. ThreadsMove
  BY <1>1, ThreadGoes
<1>3. RequestsMove /\ AgentsMove
  BY SameRequests, QuietAgents DEF Base
<1> QED BY <1>2, <1>3 DEF Moves, SaveMoves

\* A prompt starts the agent of an operation whose thread is about to wait.
LEMMA PromptSaves ==
  ASSUME Base, NEW o \in Op, Prompted(o), pc[o] = "submit"
  PROVE  /\ UNCHANGED bound => AgentsMove
         /\ \A p \in Op : p # o => agent'[p] = agent[p]
<1>1. row[o] \in {"running", "deleted"}
  BY DEF Base, AdmittedInv, InTurn
<1>2. /\ agent' \in [Op -> Agents]
      /\ \A p \in Op : agent'[p] = IF p = o THEN "working" ELSE agent[p]
  BY DEF Prompted, Base, FilesInv, Agents, Busy
<1> QED BY <1>1, <1>2 DEF AgentsMove, Base, FilesInv

LEMMA StartSaves ==
  ASSUME Base, NEW o \in Op, NEW save, StartDraftOperation(o, save)
  PROVE  Moves
<1>1. /\ row[o] = "none" /\ row' = [row EXCEPT ![o] = "running"]
      /\ req' = [req EXCEPT ![o] = [m |-> mv, d |-> Version, save |-> save]]
      /\ UNCHANGED <<draft, agent, bound, up>> /\ up
      /\ \E next \in {"lock", "over"} : pc' = [pc EXCEPT ![o] = next]
  BY DEF StartDraftOperation, fileVars, hermesVars
<1>2. Version \in Nat
  BY VersionType DEF Base
<1>3. SaveMoves
  BY <1>1 DEF SaveMoves
<1>4. RequestsMove
  BY <1>1, <1>2 DEF RequestsMove, Base, FilesInv, Shapes
<1>5. AgentsMove
  BY <1>1, QuietAgents DEF Base
<1>6. ThreadsMove
  <2>1. \A p \in Op : p # o => pc'[p] = pc[p] /\ row'[p] = row[p]
    BY <1>1 DEF Base, Shapes
  <2>2. row'[o] = "running" /\ pc'[o] \in {"lock", "over"}
    BY <1>1 DEF Base, Shapes
  <2> QED BY <1>1, <2>1, <2>2 DEF ThreadsMove, Base, AdmittedInv, CompletedInv
<1> QED BY <1>3, <1>4, <1>5, <1>6 DEF Moves

LEMMA ThreadSaves ==
  ASSUME Base, NEW o \in Op, TurnStep(o), RowsMove
  PROVE  Moves
<1>0. "failed" \in SettledStates /\ {"check", "resolve", "submit", "wait", "report"} \subseteq InTurn
  BY DEF SettledStates, Failed, InTurn
<1>1. CASE TakeTurnLock(o)
  <2>1. /\ up /\ pc[o] = "lock" /\ pc' = [pc EXCEPT ![o] = "check"]
        /\ UNCHANGED <<row, req, up, draft, agent, bound>>
    BY <1>1 DEF TakeTurnLock, opVars, hermesVars, fileVars
  <2> QED BY <2>1, GoOnSaves
<1>2. CASE Check(o)
  <2>1. up /\ pc[o] = "check" /\ UNCHANGED <<req, up, draft, agent, bound>>
    BY <1>2 DEF Check, hermesVars, fileVars
  <2>2. CASE Settle(o, "failed", 0)
    BY <1>0, <2>1, <2>2, SettleSaves
  <2>3. CASE pc' = [pc EXCEPT ![o] = "resolve"] /\ UNCHANGED row
    BY <1>0, <2>1, <2>3, GoOnSaves
  <2> QED BY <1>2, <2>2, <2>3 DEF Check
<1>3. CASE Resolve(o)
  <2>1. up /\ pc[o] = "resolve" /\ UNCHANGED <<req, up, draft, agent, bound>>
    BY <1>3 DEF Resolve, fileVars
  <2>2. CASE Settle(o, "failed", 0)
    BY <1>0, <2>1, <2>2, SettleSaves
  <2>3. CASE pc' = [pc EXCEPT ![o] = "submit"] /\ UNCHANGED row
    BY <1>0, <2>1, <2>3, GoOnSaves
  <2> QED BY <1>3, <2>2, <2>3 DEF Resolve
<1>4. CASE SubmitPrompt(o)
  <2>1. up /\ pc[o] = "submit" /\ UNCHANGED <<req, up, draft, bound>>
    BY <1>4 DEF SubmitPrompt, fileVars
  <2>2. CASE Settle(o, "failed", 0) /\ UNCHANGED agent
    BY <1>0, <2>1, <2>2, SettleSaves
  <2>3. CASE Prompted(o) /\ pc' = [pc EXCEPT ![o] = "wait"] /\ UNCHANGED row
    <3>1. AgentsMove /\ \A p \in Op : p # o => agent'[p] = agent[p]
      BY <2>1, <2>3, PromptSaves
    <3>2. row[o] \in {"running", "deleted"}
      BY <1>0, <2>1 DEF Base, AdmittedInv
    <3>3. ThreadsMove
      BY <2>1, <2>3, <3>1, <3>2, ThreadGoes
    <3>4. RequestsMove
      BY <2>1, <2>3, SameRequests DEF Base
    <3> QED BY <2>1, <3>1, <3>3, <3>4 DEF Moves, SaveMoves
  <2> QED BY <1>4, <2>2, <2>3 DEF SubmitPrompt
<1>5. CASE Hear(o)
  <2>1. up /\ pc[o] = "wait" /\ UNCHANGED <<req, up, draft, agent, bound>>
    BY <1>5 DEF Hear, hermesVars, fileVars
  <2>2. CASE Settle(o, "failed", 0)
    BY <1>0, <2>1, <2>2, SettleSaves
  <2>3. CASE pc' = [pc EXCEPT ![o] = "report"] /\ agent[o] # "broken" /\ UNCHANGED row
    <3>1. agent[o] = "over"
      BY <1>5, <2>3 DEF Hear
    <3> QED BY <1>0, <2>1, <2>3, <3>1, GoOnSaves
  <2> QED BY <1>5, <2>2, <2>3 DEF Hear
<1>6. CASE Report(o)
  <2>1. up /\ UNCHANGED <<req, up, draft, agent, bound>>
    BY <1>6 DEF Report, hermesVars, fileVars
  <2>2. PICK version : Settle(o, Outcome(o), version)
    BY <1>6 DEF Report
  <2> QED BY <2>1, <2>2, OutcomeSettles, SettleSaves
<1> QED BY <1>1, <1>2, <1>3, <1>4, <1>5, <1>6 DEF TurnStep

LEMMA LoseSaves ==
  ASSUME Base, NEW o \in Op, LoseConnection(o), RowsMove
  PROVE  Moves
<1>1. /\ up /\ UNCHANGED <<req, up, draft, bound>> /\ pc' = [pc EXCEPT ![o] = "over"]
      /\ (pc[o] = "submit" /\ Prompted(o)) \/ UNCHANGED agent
  BY DEF LoseConnection, LeaveTurn, fileVars
<1>2. /\ \A p \in Op : p # o => row'[p] = row[p]
      /\ row[o] = "none" => row'[o] = "none"
  BY DEF LoseConnection, Finish, Base, Shapes
<1>3. AgentsMove /\ \A p \in Op : p # o => agent'[p] = agent[p]
  BY <1>1, PromptSaves, QuietAgents DEF Base
<1>4. ThreadsMove
  BY <1>1, <1>2, <1>3, ThreadGoes
<1>5. RequestsMove
  BY <1>1, <1>2, SameRequests DEF Base
<1> QED BY <1>1, <1>3, <1>4, <1>5 DEF Moves, SaveMoves

\* Where threads and rows stand still.
LEMMA StillThreads ==
  ASSUME Base, UNCHANGED <<row, pc, up>>, \A o \in Op : agent[o] = "over" => agent'[o] = "over"
  PROVE  ThreadsMove
BY DEF ThreadsMove, Base, AdmittedInv, CompletedInv

\* A tool reads the id it will save under while that operation is running; its own
\* turn, if it is another one, is not.
LEMMA BindSaves ==
  ASSUME Base, OneRunningOperation, NamesDiffer, NEW o \in Op, BindSave(o), RowsMove
  PROVE  Moves
<1>1. /\ agent[o] \in {"working", "said"} /\ UNCHANGED <<row, req, pc, up, draft>>
  BY DEF BindSave, opVars, threadVars, fileVars
<1>2. row[o] # "none"
  BY <1>1 DEF Base, AdmittedInv
<1>3. ThreadsMove
  BY <1>1, StillThreads DEF BindSave, Base, FilesInv
<1>4. AgentsMove
  <2>1. CASE agent' = [agent EXCEPT ![o] = "said"] /\ UNCHANGED bound
    BY <1>1, <1>2, <2>1 DEF AgentsMove, Base, FilesInv, Agents, Busy
  <2>2. ASSUME NEW p \in RunningOp, bound' = [bound EXCEPT ![o] = p],
               agent' = [agent EXCEPT ![o] = "saving"]
        PROVE  AgentsMove
    <3>1. p \in Op /\ row[p] = "running" /\ (p # o => row[o] # "running")
      BY <2>2 DEF RunningOp, OneRunningOperation
    <3> QED BY <1>1, <1>2, <2>2, <3>1 DEF AgentsMove, Base, FilesInv, Agents, Busy
  <2> QED BY <2>1, <2>2 DEF BindSave
<1>5. RequestsMove
  BY <1>1, SameRequests DEF Base
<1> QED BY <1>1, <1>3, <1>4, <1>5 DEF Moves, SaveMoves

\* An agent saves over the version its request names, so that nothing was stamped with
\* its id before.
LEMMA AgentSaves ==
  ASSUME Base, NamesDiffer, NEW o \in Op, AgentSave(o), RowsMove
  PROVE  Moves
<1>1. /\ agent[o] = "saving" /\ agent' = [agent EXCEPT ![o] = "said"]
      /\ UNCHANGED <<row, after, req, pc, up, bound>>
  BY DEF AgentSave, opVars, threadVars
<1>2. row[o] # "none"
  BY <1>1 DEF Base, AdmittedInv
<1>3. ThreadsMove
  BY <1>1, StillThreads DEF Base, FilesInv
<1>4. AgentsMove
  BY <1>1, <1>2 DEF AgentsMove, Base, FilesInv, Agents, Busy
<1>5. RequestsMove
  BY <1>1, SameRequests DEF Base
<1>6. SaveMoves
  <2>1. CASE UNCHANGED draft
    BY <2>1 DEF SaveMoves
  <2>2. CASE Version = req[o].d /\ Save(o, bound[o])
    <3> DEFINE v == [by |-> o, stamp |-> bound[o]]
    <3>1. v \in Writer /\ draft' = Append(draft, v)
      BY <2>2 DEF Save, Writer, Base, FilesInv
    <3>2. v.by # "member"
      BY DEF NamesDiffer
    <3>3. \A q \in Op : v.stamp = q => row[q] # "none"
      BY DEF Base, AdmittedInv
    <3>4. ~Stamped(o)
      <4>1. Version \in Nat
        BY VersionType DEF Base
      <4>2. \A k \in Versions : draft[k].stamp = o => Version < k
        BY <2>2 DEF Base, StampInv
      <4> QED BY <4>1, <4>2 DEF Stamped, Versions
    <3>5. row[o] \notin Completed
      BY <1>1, <3>4 DEF Base, CompletedInv
    <3>6. \A q \in Op : v.stamp = q /\ q # o => Lost(o)
      <4>1. ASSUME NEW q \in Op, bound[o] = q, q # o PROVE row[o] \notin {"none", "running"}
        BY <1>1, <4>1 DEF Base, ForeignAgents
      <4> QED BY <3>5, <4>1 DEF Lost, Base, Shapes, RowStates, SettledStates
    <3>7. NewSave(v)
      BY <1>1, <3>1, <3>2, <3>3, <3>6 DEF NewSave
    <3> QED BY <3>7 DEF SaveMoves
  <2> QED BY <2>1, <2>2 DEF AgentSave
<1> QED BY <1>3, <1>4, <1>5, <1>6 DEF Moves

\* Members save without an id, Feishu with that of a running operation.
LEMMA OtherSaves ==
  ASSUME Base, NamesDiffer, OtherSave, RowsMove
  PROVE  Moves
<1>1. UNCHANGED <<row, after, req, pc, up, agent, bound>>
  BY DEF OtherSave, opVars, threadVars, hermesVars
<1>2. ThreadsMove
  BY <1>1, StillThreads
<1>3. AgentsMove /\ RequestsMove
  BY <1>1, QuietAgents, SameRequests DEF Base
<1>4. SaveMoves
  <2>1. CASE Save("member", NoOne)
    <3> DEFINE v == [by |-> "member", stamp |-> NoOne]
    <3>1. v \in Writer /\ draft' = Append(draft, v)
      BY <2>1 DEF Save, Writer
    <3>2. v.stamp \notin Op
      BY DEF NamesDiffer
    <3>3. NewSave(v)
      BY <1>1, <3>1, <3>2 DEF NewSave
    <3> QED BY <3>3 DEF SaveMoves
  <2>2. ASSUME NEW p \in {NoOne} \cup RunningOp, Save("feishu", p) PROVE SaveMoves
    <3> DEFINE v == [by |-> "feishu", stamp |-> p]
    <3>1. v \in Writer /\ draft' = Append(draft, v)
      BY <2>2 DEF Save, Writer, RunningOp
    <3>2. v.by \notin Op /\ v.by # "member"
      BY DEF NamesDiffer
    <3>3. \A q \in Op : v.stamp = q => row[q] # "none"
      BY DEF NamesDiffer, RunningOp
    <3>4. NewSave(v)
      BY <1>1, <3>1, <3>2, <3>3 DEF NewSave
    <3> QED BY <3>4 DEF SaveMoves
  <2> QED BY <2>1, <2>2 DEF OtherSave
<1> QED BY <1>2, <1>3, <1>4 DEF Moves

\* No thread is left when the controller dies, and none before it serves again; a reset
\* deletes what threads still work for.
LEMMA ProcessSaves ==
  ASSUME Base, ControllerCrash \/ ControllerRestart \/ ClearHistory, RowsMove
  PROVE  Moves
<1>1. /\ UNCHANGED <<req, draft, agent, bound>>
      /\ \A o \in Op : row[o] = "none" => row'[o] = "none"
  BY DEF ControllerCrash, ControllerRestart, ClearHistory, opVars, hermesVars, fileVars
<1>2. AgentsMove /\ RequestsMove
  BY <1>1, QuietAgents, SameRequests DEF Base
<1>3. ThreadsMove
  <2>0. {"idle", "over"} \cap (InTurn \cup {"lock", "report"}) = {}
    BY DEF InTurn
  <2>1. CASE ControllerCrash
    <3>1. \A o \in Op : pc'[o] \in {"idle", "over"}
      BY <2>1 DEF ControllerCrash
    <3> QED BY <2>0, <3>1 DEF ThreadsMove
  <2>2. CASE ControllerRestart
    <3>1. \A o \in Op : pc'[o] \in {"idle", "over"}
      BY <2>2 DEF ControllerRestart, threadVars, Base, AdmittedInv
    <3> QED BY <2>0, <3>1 DEF ThreadsMove
  <2>3. CASE ClearHistory
    <3>1. /\ UNCHANGED <<pc, up>>
          /\ \A o \in Op : row[o] # "none" => row'[o] = "deleted"
      BY <2>3 DEF ClearHistory
    <3> QED BY <1>1, <3>1 DEF ThreadsMove, Base, AdmittedInv, CompletedInv
  <2> QED BY <2>1, <2>2, <2>3
<1> QED BY <1>1, <1>2, <1>3 DEF Moves, SaveMoves

LEMMA StillSaves ==
  ASSUME Base, UNCHANGED <<row, req, pc, up, draft, agent, bound>>, RowsMove
  PROVE  Moves
<1>1. ThreadsMove
  BY StillThreads
<1>2. AgentsMove /\ RequestsMove
  BY QuietAgents, SameRequests DEF Base
<1> QED BY <1>1, <1>2 DEF Moves, SaveMoves

LEMMA EndSaves ==
  ASSUME Base, NEW o \in Op, AgentEnd(o), RowsMove
  PROVE  Moves
<1>1. /\ agent[o] \in {"working", "said"} /\ UNCHANGED <<row, req, pc, up, draft, bound>>
      /\ \E end \in {"over", "broken"} : agent' = [agent EXCEPT ![o] = end]
  BY DEF AgentEnd, opVars, threadVars, fileVars
<1>2. row[o] # "none"
  BY <1>1 DEF Base, AdmittedInv
<1>3. ThreadsMove
  BY <1>1, StillThreads DEF Base, FilesInv
<1>4. AgentsMove
  BY <1>1, <1>2 DEF AgentsMove, Base, FilesInv, Agents, Busy
<1>5. RequestsMove
  BY <1>1, SameRequests DEF Base
<1> QED BY <1>1, <1>3, <1>4, <1>5 DEF Moves, SaveMoves

LEMMA NextSaves ==
  ASSUME Base, OneRunningOperation, NamesDiffer, [TurnsNext]_turnVars
  PROVE  Moves
<1>0. RowsMove
  BY NextMoves DEF Base
<1>1. ASSUME NEW o \in Op, Generate(o) \/ Chat(o) PROVE Moves
  BY <1>1, StartSaves DEF Generate, Chat
<1>2. ASSUME NEW o \in Op, TurnStep(o) PROVE Moves
  BY <1>0, <1>2, ThreadSaves
<1>3. ASSUME NEW o \in Op, LoseConnection(o) PROVE Moves
  BY <1>0, <1>3, LoseSaves
<1>4. ASSUME NEW o \in Op, AgentStep(o) PROVE Moves
  BY <1>0, <1>4, BindSaves, AgentSaves, EndSaves DEF AgentStep
<1>5. CASE StopStep
  BY <1>0, <1>5, StillSaves
     DEF StopStep, InterruptOperation, LookUpLive, SessionInterrupt,
         opVars, threadVars, hermesVars, fileVars
<1>6. CASE OtherSave
  BY <1>0, <1>6, OtherSaves
<1>7. CASE EditMaterials \/ RetireStep
  BY <1>0, <1>7, StillSaves
     DEF EditMaterials, RetireStep, BeginRetire, ScheduleDeletion, Unbind, FailRetire, opVars, threadVars, hermesVars, fileVars
<1>8. CASE ControllerCrash \/ ClearHistory \/ ControllerRestart
  BY <1>0, <1>8, ProcessSaves
<1>9. ASSUME NEW s \in Session, DeleteSession(s) PROVE Moves
  BY <1>0, <1>9, StillSaves DEF DeleteSession, opVars, threadVars, fileVars
<1>10. CASE UNCHANGED turnVars
  BY <1>0, <1>10, StillSaves DEF turnVars, opVars, threadVars, hermesVars, fileVars
<1> QED BY <1>1, <1>2, <1>3, <1>4, <1>5, <1>6, <1>7, <1>8, <1>9, <1>10, TurnsCases

-----------------------------------------------------------------------------
(* Theorem *)

LEMMA CreditInit == NamesDiffer /\ TurnsInit => CreditInv
<1> SUFFICES ASSUME NamesDiffer, TurnsInit PROVE CreditInv
  OBVIOUS
<1>1. Versions = {}
  BY DEF TurnsInit, Versions, Version
<1>2. FilesInv
  BY DEF TurnsInit, FilesInv, Agents
<1>3. AdmittedInv
  BY DEF TurnsInit, AdmittedInv, InTurn, NamesDiffer
<1>4. CompletedInv
  BY DEF TurnsInit, CompletedInv, Completed
<1> QED
  BY <1>1, <1>2, <1>3, <1>4
     DEF TurnsInit, CreditInv, StampInv, ForeignAgents, ForeignVersions, ReportedInv

LEMMA CreditNext ==
  NamesDiffer /\ Shapes /\ OneRunningOperation /\ CreditInv /\ [TurnsNext]_turnVars => CreditInv'
<1> SUFFICES ASSUME NamesDiffer, Shapes, OneRunningOperation, CreditInv, [TurnsNext]_turnVars
             PROVE  CreditInv'
  OBVIOUS
<1>1. RowsMove /\ Justified
  BY NextMoves, NextJustified DEF CreditInv
<1>2. Moves
  BY NextSaves DEF CreditInv, Base
<1> QED
  BY <1>1, <1>2, MovesKeep, StampNext, ForeignNext, ReportedNext DEF CreditInv, Moves

\* An operation that reports a change reports a saved version with its id, made by its
\* own turn, by Feishu, or by a turn that failed or was reset (hermes_session.py,
\* draft_changed and _settle_interrupted_operations; core.py, the stamps of saves).
THEOREM ChangesAreCredited == NamesDiffer => (TurnsSpec => []ChangeIsItsOwn)
<1> SUFFICES ASSUME NamesDiffer PROVE TurnsSpec => []ChangeIsItsOwn
  OBVIOUS
<1>1. TurnsInit => CreditInv
  BY CreditInit
<1>2. TurnInv /\ OneRunningOperation /\ CreditInv /\ [TurnsNext]_turnVars => CreditInv'
  BY CreditNext DEF TurnInv
<1>3. CreditInv => ChangeIsItsOwn
  BY CreditFollows DEF CreditInv
<1> QED BY <1>1, <1>2, <1>3, TurnsAlways, RunningExcludes, PTL DEF TurnsSpec

-----------------------------------------------------------------------------
(* Types                                                                   *)

RowTypes ==
  /\ row \in [Op -> RowStates] /\ after \in [Op -> 0..MaxVersion]
  /\ req \in [Op -> [m : Nat, d : 0..MaxVersion, save : BOOLEAN]]

ThreadTypes ==
  /\ pc \in [Op -> InTurn \cup {"idle", "lock", "over"}]
  /\ lock \in Op \cup {NoOne, "retire"} /\ live \in Op \cup {NoOne}

BindTypes ==
  /\ retire \in {"idle", "schedule", "unbind", "clear"} /\ binding \in Session \cup {NoOne}
  /\ queue \subseteq Session /\ resets \in Nat /\ epoch \in [Op -> Nat]

HermesTypes ==
  /\ known \subseteq Session /\ sess \in [Op -> Session \cup {NoOne}]
  /\ agent \in [Op -> Busy \cup {"none", "over", "broken"}]
  /\ bound \in [Op -> Op \cup {NoOne}]
  /\ heard \in [Op -> {"nothing", "started", "saved"}]
  /\ stop \in [Op -> Op \cup {NoOne}] /\ told \in [Session -> SUBSET Op]

\* A version that is reported or expected is one of the draft, whose bound every save
\* keeps.
FileTypes ==
  /\ draft \in Seq([by : Op \cup {"member", "feishu"}, stamp : Op \cup {NoOne}])
  /\ Len(draft) <= MaxVersion /\ mv \in Nat /\ gone \in BOOLEAN

TypesInv ==
  /\ RowTypes /\ ThreadTypes /\ BindTypes /\ HermesTypes /\ FileTypes
  /\ up \in BOOLEAN /\ spent \subseteq Events

LEMMA VersionTyped ==
  ASSUME MaxVersion \in Nat, FileTypes
  PROVE  Version \in 0..MaxVersion /\ Stamp \in Op \cup {NoOne}
<1>1. Len(draft) \in Nat /\ Len(draft) <= MaxVersion
  BY DEF FileTypes
<1>2. Version \in 0..MaxVersion
  BY <1>1 DEF Version
<1>3. Stamp \in Op \cup {NoOne}
  <2>1. CASE draft = <<>>
    BY <2>1 DEF Stamp
  <2>2. CASE draft # <<>>
    <3>1. PICK S : S = [by : Op \cup {"member", "feishu"}, stamp : Op \cup {NoOne}]
      OBVIOUS
    <3>2. draft \in Seq(S)
      BY <3>1 DEF FileTypes
    <3>3. draft[Len(draft)] \in S
      BY <2>2, <3>2
    <3>4. draft[Len(draft)].stamp \in Op \cup {NoOne}
      BY <3>1, <3>3
    <3> QED BY <2>2, <3>4 DEF Stamp, Version
  <2> QED BY <2>1, <2>2
<1> QED BY <1>2, <1>3

LEMMA OnceTyped ==
  ASSUME spent \subseteq Events, NEW e, Once(e)
  PROVE  spent' \subseteq Events
BY DEF Once

LEMMA FinishTyped ==
  ASSUME RowTypes, NEW o \in Op, NEW outcome \in SettledStates, NEW v \in 0..MaxVersion,
         Finish(o, outcome, v), UNCHANGED req
  PROVE  RowTypes'
BY DEF RowTypes, Finish, RowStates

LEMMA LeaveTyped ==
  ASSUME ThreadTypes, NEW o \in Op, LeaveTurn(o)
  PROVE  ThreadTypes'
BY DEF ThreadTypes, LeaveTurn

LEMMA SettleTyped ==
  ASSUME RowTypes, ThreadTypes, spent \subseteq Events, NEW o \in Op, NEW outcome \in SettledStates,
         NEW v \in 0..MaxVersion, Settle(o, outcome, v), UNCHANGED req
  PROVE  RowTypes' /\ ThreadTypes' /\ spent' \subseteq Events
<1>1. ThreadTypes'
  BY LeaveTyped DEF Settle
<1>2. CASE Finish(o, outcome, v) /\ UNCHANGED spent
  BY <1>1, <1>2, FinishTyped
<1>3. CASE UNCHANGED <<row, after>> /\ Once("store")
  BY <1>1, <1>3, OnceTyped DEF RowTypes
<1> QED BY <1>2, <1>3 DEF Settle

LEMMA GoesTo ==
  ASSUME ThreadTypes, NEW o \in Op, NEW step \in InTurn \cup {"idle", "lock", "over"},
         pc' = [pc EXCEPT ![o] = step], lock' \in {lock, o, NoOne}, live' \in {live, o, NoOne}
  PROVE  ThreadTypes'
BY DEF ThreadTypes

LEMMA StartTyped ==
  ASSUME MaxVersion \in Nat, TypesInv, NEW o \in Op, NEW save \in BOOLEAN, StartDraftOperation(o, save)
  PROVE  TypesInv'
<1>1. [m |-> mv, d |-> Version, save |-> save] \in [m : Nat, d : 0..MaxVersion, save : BOOLEAN]
  BY VersionTyped DEF TypesInv, FileTypes
<1>2. RowTypes'
  BY <1>1 DEF StartDraftOperation, TypesInv, RowTypes, RowStates
<1>3. PICK step \in {"lock", "over"} : pc' = [pc EXCEPT ![o] = step] /\ (UNCHANGED spent \/ Once("thread"))
  BY DEF StartDraftOperation
<1>4. ThreadTypes'
  BY <1>3, GoesTo DEF StartDraftOperation, TypesInv
<1>5. spent' \subseteq Events
  BY <1>3, OnceTyped DEF TypesInv
<1> QED BY <1>2, <1>4, <1>5 DEF StartDraftOperation, TypesInv, bindVars, hermesVars, fileVars,
           BindTypes, HermesTypes, FileTypes

LEMMA FailedSettles == "failed" \in SettledStates
BY DEF SettledStates, Failed

LEMMA PromptedTyped ==
  ASSUME HermesTypes, NEW o \in Op, Prompted(o), UNCHANGED <<sess, bound, heard, stop, known>>
  PROVE  HermesTypes'
<1>1. PICK s : s = sess[o] /\ s \in Session
  BY DEF Prompted, HermesTypes
<1>2. told' = [told EXCEPT ![s] = @ \cup {o}]
  BY <1>1 DEF Prompted
<1>3. told' \in [Session -> SUBSET Op]
  BY <1>1, <1>2 DEF HermesTypes
<1> QED BY <1>3 DEF Prompted, HermesTypes, Busy

LEMMA ThreadTyped ==
  ASSUME MaxVersion \in Nat, TypesInv, NEW o \in Op, TurnStep(o) \/ LoseConnection(o)
  PROVE  TypesInv'
<1>0. RowTypes /\ ThreadTypes /\ BindTypes /\ HermesTypes /\ FileTypes /\ spent \subseteq Events /\ up \in BOOLEAN
  BY DEF TypesInv
<1>1. CASE TakeTurnLock(o)
  <2>1. pc' = [pc EXCEPT ![o] = "check"] /\ lock' = o /\ live' = live
    BY <1>1 DEF TakeTurnLock
  <2>2. ThreadTypes'
    BY <1>0, <2>1, GoesTo DEF InTurn
  <2> QED BY <1>0, <1>1, <2>2 DEF TakeTurnLock, TypesInv, opVars, bindVars, hermesVars, fileVars,
             RowTypes, BindTypes, HermesTypes, FileTypes
<1>2. CASE Check(o)
  <2>1. RowTypes' /\ ThreadTypes' /\ spent' \subseteq Events
    <3>1. CASE Settle(o, "failed", 0)
      BY <1>0, <1>2, <3>1, SettleTyped, FailedSettles DEF Check
    <3>2. CASE pc' = [pc EXCEPT ![o] = "resolve"] /\ UNCHANGED <<row, after, lock, live, spent>>
      BY <1>0, <1>2, <3>2, GoesTo DEF Check, InTurn, RowTypes
    <3> QED BY <1>2, <3>1, <3>2 DEF Check
  <2> QED BY <1>0, <1>2, <2>1 DEF Check, TypesInv, bindVars, hermesVars, fileVars,
             BindTypes, HermesTypes, FileTypes
<1>3. CASE Resolve(o)
  <2>1. PICK s \in Session :
           \/ /\ sess' = [sess EXCEPT ![o] = s] /\ known' = known \cup {s} /\ binding' = s
              /\ live' = o /\ epoch' = [epoch EXCEPT ![o] = resets]
              /\ pc' = [pc EXCEPT ![o] = "submit"] /\ UNCHANGED <<row, after, lock, spent>>
           \/ Settle(o, "failed", 0) /\ UNCHANGED <<sess, known, binding, epoch>>
    <3>1. PICK s \in IF Resumable = {} THEN {CHOOSE s \in Fresh : TRUE} ELSE Resumable :
           \/ /\ sess' = [sess EXCEPT ![o] = s] /\ known' = known \cup {s} /\ binding' = s
              /\ live' = o /\ epoch' = [epoch EXCEPT ![o] = resets]
              /\ pc' = [pc EXCEPT ![o] = "submit"] /\ UNCHANGED <<row, after, lock, spent>>
           \/ Settle(o, "failed", 0) /\ UNCHANGED <<sess, known, binding, epoch>>
      BY <1>3 DEF Resolve
    <3>2. Resumable \subseteq Session /\ Fresh \subseteq Session
      BY <1>0 DEF Resumable, Fresh, HermesTypes
    <3>3. Resumable = {} => (CHOOSE x \in Fresh : TRUE) \in Fresh
      BY <1>3 DEF Resolve
    <3>4. s \in Session
      BY <3>1, <3>2, <3>3
    <3> QED BY <3>1, <3>4
  <2>2. UNCHANGED <<req, queue, retire, resets, agent, bound, heard, stop, told, fileVars, up>>
    BY <1>3 DEF Resolve
  <2>3. CASE /\ sess' = [sess EXCEPT ![o] = s] /\ known' = known \cup {s} /\ binding' = s
             /\ live' = o /\ epoch' = [epoch EXCEPT ![o] = resets]
             /\ pc' = [pc EXCEPT ![o] = "submit"] /\ UNCHANGED <<row, after, lock, spent>>
    <3>1. ThreadTypes'
      BY <1>0, <2>3, GoesTo DEF InTurn
    <3>2. RowTypes' /\ BindTypes'
      BY <1>0, <2>2, <2>3 DEF RowTypes, BindTypes
    <3>3. HermesTypes' /\ FileTypes'
      BY <1>0, <2>2, <2>3 DEF HermesTypes, FileTypes, fileVars
    <3> QED BY <1>0, <2>2, <2>3, <3>1, <3>2, <3>3 DEF TypesInv
  <2>4. CASE Settle(o, "failed", 0) /\ UNCHANGED <<sess, known, binding, epoch>>
    <3>1. RowTypes' /\ ThreadTypes' /\ spent' \subseteq Events
      BY <1>0, <2>2, <2>4, SettleTyped, FailedSettles
    <3> QED BY <1>0, <2>2, <2>4, <3>1 DEF TypesInv, BindTypes, HermesTypes, FileTypes, fileVars
  <2> QED BY <2>1, <2>3, <2>4
<1>4. CASE SubmitPrompt(o)
  <2>1. UNCHANGED <<req, bindVars, sess, bound, heard, stop, known, fileVars, up, epoch>>
    BY <1>4 DEF SubmitPrompt
  <2>2. CASE Prompted(o) /\ pc' = [pc EXCEPT ![o] = "wait"] /\ UNCHANGED <<row, after, lock, live, spent>>
    <3>1. ThreadTypes'
      BY <1>0, <2>2, GoesTo DEF InTurn
    <3>2. HermesTypes'
      BY <1>0, <2>1, <2>2, PromptedTyped
    <3> QED BY <1>0, <2>1, <2>2, <3>1, <3>2 DEF TypesInv, RowTypes, BindTypes, FileTypes, bindVars, fileVars
  <2>3. CASE Settle(o, "failed", 0) /\ UNCHANGED <<agent, told>>
    <3>1. RowTypes' /\ ThreadTypes' /\ spent' \subseteq Events
      BY <1>0, <2>1, <2>3, SettleTyped, FailedSettles
    <3> QED BY <1>0, <2>1, <2>3, <3>1 DEF TypesInv, BindTypes, HermesTypes, FileTypes, bindVars, fileVars
  <2> QED BY <1>4, <2>2, <2>3 DEF SubmitPrompt
<1>5. CASE Hear(o)
  <2>1. RowTypes' /\ ThreadTypes' /\ spent' \subseteq Events
    <3>1. CASE Settle(o, "failed", 0)
      BY <1>0, <1>5, <3>1, SettleTyped, FailedSettles DEF Hear
    <3>2. CASE /\ pc' = [pc EXCEPT ![o] = "report"] /\ live' = (IF live = o THEN NoOne ELSE live)
               /\ UNCHANGED <<row, after, lock, spent>>
      <4>1. live' \in {live, o, NoOne} /\ lock' \in {lock, o, NoOne}
        BY <3>2
      <4>2. ThreadTypes'
        BY <1>0, <3>2, <4>1, GoesTo DEF InTurn
      <4> QED BY <1>0, <1>5, <3>2, <4>2 DEF Hear, RowTypes
    <3> QED BY <1>5, <3>1, <3>2 DEF Hear
  <2> QED BY <1>0, <1>5, <2>1 DEF Hear, TypesInv, bindVars, hermesVars, fileVars,
             BindTypes, HermesTypes, FileTypes
<1>6. CASE Report(o)
  <2>1. PICK outcome, v : /\ outcome = Outcome(o) /\ v = (IF outcome \in Completed THEN Version ELSE 0)
                          /\ Settle(o, outcome, v)
    BY <1>6 DEF Report
  <2>2. v \in 0..MaxVersion
    BY <1>0, <2>1, VersionTyped
  <2>3. outcome \in SettledStates
    BY <2>1, OutcomeSettles
  <2>4. RowTypes' /\ ThreadTypes' /\ spent' \subseteq Events
    BY <1>0, <1>6, <2>1, <2>2, <2>3, SettleTyped DEF Report
  <2> QED BY <1>0, <1>6, <2>4 DEF Report, TypesInv, bindVars, hermesVars, fileVars,
             BindTypes, HermesTypes, FileTypes
<1>7. CASE LoseConnection(o)
  <2>1. UNCHANGED <<req, bindVars, sess, bound, heard, stop, known, fileVars, up, epoch>>
    BY <1>7 DEF LoseConnection
  <2>2. RowTypes' /\ ThreadTypes' /\ spent' \subseteq Events
    BY <1>0, <1>7, <2>1, FinishTyped, LeaveTyped, OnceTyped, FailedSettles DEF LoseConnection
  <2>3. HermesTypes'
    <3>1. CASE Prompted(o)
      BY <1>0, <2>1, <3>1, PromptedTyped
    <3>2. CASE UNCHANGED <<agent, told>>
      BY <1>0, <2>1, <3>2 DEF HermesTypes
    <3> QED BY <1>7, <3>1, <3>2 DEF LoseConnection
  <2> QED BY <1>0, <2>1, <2>2, <2>3 DEF TypesInv, BindTypes, FileTypes, bindVars, fileVars
<1> QED BY <1>1, <1>2, <1>3, <1>4, <1>5, <1>6, <1>7 DEF TurnStep

LEMMA SaveTyped ==
  ASSUME MaxVersion \in Nat, FileTypes, NEW by \in Op \cup {"member", "feishu"},
         NEW stamp \in Op \cup {NoOne}, Save(by, stamp), UNCHANGED <<mv, gone>>
  PROVE  FileTypes'
<1>1. PICK e : e = [by |-> by, stamp |-> stamp]
  OBVIOUS
<1>2. e \in [by : Op \cup {"member", "feishu"}, stamp : Op \cup {NoOne}]
  BY <1>1
<1>3. draft' = Append(draft, e) /\ Len(draft) < MaxVersion
  BY <1>1 DEF Save, Version
<1>4. /\ draft' \in Seq([by : Op \cup {"member", "feishu"}, stamp : Op \cup {NoOne}])
      /\ Len(draft') = Len(draft) + 1 /\ Len(draft) \in Nat
  BY <1>2, <1>3 DEF FileTypes
<1> QED BY <1>3, <1>4 DEF FileTypes

LEMMA AgentTyped ==
  ASSUME MaxVersion \in Nat, TypesInv, NEW o \in Op, AgentStep(o)
  PROVE  TypesInv'
<1>0. RowTypes /\ ThreadTypes /\ BindTypes /\ HermesTypes /\ FileTypes /\ spent \subseteq Events /\ up \in BOOLEAN
  BY DEF TypesInv
<1> USE DEF opVars, threadVars, bindVars, fileVars
<1>1. CASE BindSave(o)
  <2>1. HermesTypes'
    <3>1. CASE RunningOp = {}
      BY <1>0, <1>1, <3>1 DEF BindSave, HearSave, HermesTypes, Busy
    <3>2. CASE RunningOp # {}
      <4>1. PICK p \in RunningOp : bound' = [bound EXCEPT ![o] = p]
        BY <1>1, <3>2 DEF BindSave
      <4>2. p \in Op
        BY <4>1 DEF RunningOp
      <4> QED BY <1>0, <1>1, <3>2, <4>1, <4>2 DEF BindSave, HermesTypes, Busy
    <3> QED BY <3>1, <3>2
  <2>2. spent' \subseteq Events
    BY <1>0, <1>1, OnceTyped DEF BindSave
  <2> QED BY <1>0, <1>1, <2>1, <2>2 DEF BindSave, TypesInv, RowTypes, ThreadTypes, BindTypes, FileTypes
<1>2. CASE AgentSave(o)
  <2>1. HermesTypes'
    BY <1>0, <1>2 DEF AgentSave, HearSave, HermesTypes, Busy
  <2>2. FileTypes'
    <3>1. CASE UNCHANGED draft
      BY <1>0, <1>2, <3>1 DEF AgentSave, FileTypes
    <3>2. CASE Save(o, bound[o])
      <4>1. bound[o] \in Op \cup {NoOne}
        BY <1>0 DEF HermesTypes
      <4> QED BY <1>0, <1>2, <3>2, <4>1, SaveTyped DEF AgentSave
    <3> QED BY <1>2, <3>1, <3>2 DEF AgentSave
  <2> QED BY <1>0, <1>2, <2>1, <2>2 DEF AgentSave, TypesInv, RowTypes, ThreadTypes, BindTypes
<1>3. CASE AgentEnd(o)
  <2>1. HermesTypes'
    BY <1>0, <1>3 DEF AgentEnd, HermesTypes, Busy
  <2> QED BY <1>0, <1>3, <2>1 DEF AgentEnd, TypesInv, RowTypes, ThreadTypes, BindTypes, FileTypes
<1> QED BY <1>1, <1>2, <1>3 DEF AgentStep

LEMMA StopTyped ==
  ASSUME TypesInv, StopTypes, StopStep
  PROVE  TypesInv'
<1>0. RowTypes /\ ThreadTypes /\ BindTypes /\ HermesTypes /\ FileTypes /\ spent \subseteq Events /\ up \in BOOLEAN
  BY DEF TypesInv
<1> USE DEF opVars, threadVars, bindVars, hermesVars, fileVars
<1>1. ASSUME NEW o \in Op, InterruptOperation(o) PROVE TypesInv'
  BY <1>0, <1>1, OnceTyped
     DEF InterruptOperation, TypesInv, RowTypes, ThreadTypes, BindTypes, HermesTypes, FileTypes
<1>2. CASE LookUpLive
  BY <1>0, <1>2
     DEF LookUpLive, TypesInv, RowTypes, ThreadTypes, BindTypes, HermesTypes, FileTypes
<1>3. CASE SessionInterrupt
  <2>1. HermesTypes'
    BY <1>0, <1>3 DEF SessionInterrupt, HermesTypes, StopTypes
  <2> QED BY <1>0, <1>3, <2>1
          DEF SessionInterrupt, TypesInv, RowTypes, ThreadTypes, BindTypes, FileTypes
<1> QED BY <1>1, <1>2, <1>3 DEF StopStep

LEMMA ServiceTyped ==
  ASSUME MaxVersion \in Nat, TypesInv,
         \/ OtherSave \/ EditMaterials \/ RetireStep \/ ClearHistory
         \/ ControllerRestart \/ ControllerCrash
         \/ \E s \in Session : DeleteSession(s)
  PROVE  TypesInv'
<1>0. RowTypes /\ ThreadTypes /\ BindTypes /\ HermesTypes /\ FileTypes /\ spent \subseteq Events /\ up \in BOOLEAN
  BY DEF TypesInv
<1> USE DEF opVars, threadVars, bindVars, hermesVars, fileVars
<1>1. CASE OtherSave
  <2>1. PICK by \in {"member", "feishu"}, stamp \in Op \cup {NoOne} :
          Save(by, stamp) /\ (Once("member") \/ Once("feishu"))
    <3>1. CASE Once("member") /\ Save("member", NoOne)
      BY <3>1
    <3>2. CASE Once("feishu") /\ \E p \in IF RunningOp = {} THEN {NoOne} ELSE RunningOp : Save("feishu", p)
      BY <3>2 DEF RunningOp
    <3> QED BY <1>1, <3>1, <3>2 DEF OtherSave
  <2>2. FileTypes' /\ spent' \subseteq Events
    BY <1>0, <1>1, <2>1, SaveTyped, OnceTyped DEF OtherSave
  <2> QED BY <1>0, <1>1, <2>2 DEF OtherSave, TypesInv, RowTypes, ThreadTypes, BindTypes, HermesTypes
<1>2. CASE EditMaterials
  <2>1. FileTypes' /\ spent' \subseteq Events
    BY <1>0, <1>2, OnceTyped DEF EditMaterials, FileTypes
  <2> QED BY <1>0, <1>2, <2>1 DEF EditMaterials, TypesInv, RowTypes, ThreadTypes, BindTypes, HermesTypes
<1>3. CASE BeginRetire
  <2>1. ThreadTypes' /\ BindTypes'
    BY <1>0, <1>3 DEF BeginRetire, ThreadTypes, BindTypes
  <2>2. FileTypes' /\ spent' \subseteq Events
    BY <1>0, <1>3, OnceTyped DEF BeginRetire, FileTypes
  <2> QED BY <1>0, <1>3, <2>1, <2>2 DEF BeginRetire, TypesInv, RowTypes, HermesTypes
<1>4. CASE Unbind
  <2>1. BindTypes'
    BY <1>0, <1>4 DEF Unbind, BindTypes
  <2> QED BY <1>0, <1>4, <2>1 DEF Unbind, TypesInv, RowTypes, ThreadTypes, HermesTypes, FileTypes
<1>5. CASE ClearHistory
  <2>1. RowTypes'
    BY <1>0, <1>5 DEF ClearHistory, RowTypes, RowStates
  <2>2. ThreadTypes' /\ BindTypes'
    BY <1>0, <1>5 DEF ClearHistory, ThreadTypes, BindTypes
  <2> QED BY <1>0, <1>5, <2>1, <2>2 DEF ClearHistory, TypesInv, HermesTypes, FileTypes
<1>6. CASE ControllerRestart
  <2>1. Version \in 0..MaxVersion
    BY <1>0, VersionTyped
  <2>2. row' \in [Op -> RowStates]
    BY <1>0, <1>6 DEF ControllerRestart, RowTypes, RowStates, RecoveredOutcome, SettledStates, Completed, Failed
  <2>3. after' \in [Op -> 0..MaxVersion]
    BY <1>0, <1>6, <2>1 DEF ControllerRestart, RowTypes
  <2> QED BY <1>0, <1>6, <2>2, <2>3 DEF ControllerRestart, TypesInv, RowTypes, ThreadTypes, BindTypes,
             HermesTypes, FileTypes
<1>7. CASE ControllerCrash
  <2>1. ThreadTypes' /\ BindTypes' /\ spent' \subseteq Events
    BY <1>0, <1>7, OnceTyped DEF ControllerCrash, ThreadTypes, BindTypes
  <2> QED BY <1>0, <1>7, <2>1 DEF ControllerCrash, TypesInv, RowTypes, HermesTypes, FileTypes
<1>8. ASSUME NEW s \in Session, DeleteSession(s)
      PROVE  TypesInv'
  <2>1. BindTypes' /\ HermesTypes' /\ spent' \subseteq Events
    BY <1>0, <1>8, OnceTyped DEF DeleteSession, BindTypes, HermesTypes
  <2> QED BY <1>0, <1>8, <2>1 DEF DeleteSession, TypesInv, RowTypes, ThreadTypes, FileTypes
<1>9. CASE ScheduleDeletion
  <2>1. BindTypes'
    BY <1>0, <1>9 DEF ScheduleDeletion, BindTypes
  <2> QED BY <1>0, <1>9, <2>1
          DEF ScheduleDeletion, TypesInv, RowTypes, ThreadTypes, HermesTypes, FileTypes
<1>10. CASE FailRetire
  <2>1. ThreadTypes' /\ BindTypes' /\ spent' \subseteq Events
    BY <1>0, <1>10, OnceTyped DEF FailRetire, ThreadTypes, BindTypes
  <2> QED BY <1>0, <1>10, <2>1 DEF FailRetire, TypesInv, RowTypes, HermesTypes, FileTypes
<1> QED BY <1>1, <1>2, <1>3, <1>4, <1>5, <1>6, <1>7, <1>8, <1>9, <1>10 DEF RetireStep

LEMMA TypesInit == MaxVersion \in Nat /\ TurnsInit => TypesInv
<1> SUFFICES ASSUME MaxVersion \in Nat, TurnsInit PROVE TypesInv
  OBVIOUS
<1>1. RowTypes /\ ThreadTypes
  BY DEF TurnsInit, RowTypes, ThreadTypes, RowStates
<1>2. BindTypes /\ HermesTypes
  BY DEF TurnsInit, BindTypes, HermesTypes
<1>3. FileTypes
  <2>1. draft = <<>> /\ Len(<<>>) = 0 /\ mv = 1 /\ gone = FALSE
    BY DEF TurnsInit
  <2>2. draft \in Seq([by : Op \cup {"member", "feishu"}, stamp : Op \cup {NoOne}])
    BY <2>1
  <2>3. Len(draft) <= MaxVersion
    BY <2>1
  <2> QED BY <2>1, <2>2, <2>3 DEF FileTypes
<1> QED BY <1>1, <1>2, <1>3 DEF TurnsInit, TypesInv

LEMMA TypesNext ==
  ASSUME MaxVersion \in Nat, TypesInv, StopTypes, [TurnsNext]_turnVars
  PROVE  TypesInv'
<1>1. CASE UNCHANGED turnVars
  BY <1>1 DEF turnVars, opVars, threadVars, bindVars, hermesVars, fileVars, TypesInv,
     RowTypes, ThreadTypes, BindTypes, HermesTypes, FileTypes
<1>2. ASSUME NEW o \in Op, Generate(o) \/ Chat(o)
      PROVE  TypesInv'
  BY <1>2, StartTyped DEF Generate, Chat
<1> QED BY <1>1, <1>2, ThreadTyped, AgentTyped, StopTyped, ServiceTyped, TurnsCases

\* The rows, the threads, the sessions and what Hermes runs keep their types, and an
\* operation reports and expects versions that the draft has had: no step of
\* draft_store.py or hermes_session.py reads what another one left in another form.
THEOREM TurnsAreTyped == MaxVersion \in Nat => (TurnsSpec => []TurnsTypeOK)
<1>1. MaxVersion \in Nat /\ TurnsInit => TypesInv /\ StopTypes
  BY TypesInit DEF TurnsInit, StopTypes
<1>2. MaxVersion \in Nat /\ TypesInv /\ StopTypes /\ [TurnsNext]_turnVars =>
        TypesInv' /\ StopTypes'
  BY TypesNext, StopTypesNext DEF TypesInv, HermesTypes
<1>3. TypesInv /\ StopTypes => TurnsTypeOK
  BY DEF TypesInv, StopTypes, RowTypes, ThreadTypes, BindTypes, HermesTypes, FileTypes, TurnsTypeOK
<1>4. CASE MaxVersion \in Nat
  BY <1>1, <1>2, <1>3, <1>4, PTL DEF TurnsSpec
<1> QED BY <1>4

-----------------------------------------------------------------------------
(* The cleanup of Hermes sessions                                          *)

Steps == Draining \cup {"off", "recheck"}

\* The lock alone is not inductive: a thread is dispatched into a worker that is
\* off, and leaves the drain only by giving the lock back.
WorkerInv == worker \in [Worker -> Steps] /\ held \in BOOLEAN /\ OneWorker

LEMMA WorkerInit == CleanupInit => WorkerInv
BY DEF CleanupInit, WorkerInv, OneWorker, Steps, Draining

\* Who takes the lock starts one worker; who finds it taken starts none.
LEMMA DispatchOne ==
  ASSUME NEW new \in NextWorkers, Dispatch(new)
  PROVE  \/ held' = held /\ new = {}
         \/ ~held /\ held' = TRUE /\ \E w \in Worker : new = {w} /\ worker[w] = "off"
BY DEF Dispatch, NextWorkers, Off, Trouble

\* A worker that goes on draining, or that is not draining, changes nothing for
\* the others.
LEMMA OwnStep ==
  ASSUME WorkerInv, NEW w \in Worker, NEW step \in Steps,
         worker' = [worker EXCEPT ![w] = step], UNCHANGED held,
         worker[w] \in Draining <=> step \in Draining
  PROVE  WorkerInv'
<1>1. worker' \in [Worker -> Steps]
  BY DEF WorkerInv
<1>2. \A v \in Worker : worker'[v] \in Draining <=> worker[v] \in Draining
  BY DEF WorkerInv
<1> QED
  BY <1>1, <1>2 DEF WorkerInv, OneWorker

LEMMA DispatchKeeps ==
  ASSUME WorkerInv, NEW r \in Requester, DispatchCleanup(r)
  PROVE  WorkerInv'
<1>1. PICK new \in NextWorkers :
        /\ Dispatch(new)
        /\ worker' = [w \in Worker |-> IF w \in new THEN "loop" ELSE worker[w]]
  BY DEF DispatchCleanup
<1>2. CASE held' = held /\ new = {}
  <2>1. worker' = worker
    BY <1>1, <1>2 DEF WorkerInv
  <2> QED BY <1>2, <2>1 DEF WorkerInv, OneWorker
<1>3. ASSUME ~held, held' = TRUE, NEW w \in Worker, new = {w}, worker[w] = "off"
      PROVE  WorkerInv'
  <2>1. \A v \in Worker : worker[v] \notin Draining
    BY <1>3 DEF WorkerInv, OneWorker
  <2>2. \A v \in Worker : worker'[v] = IF v = w THEN "loop" ELSE worker[v]
    BY <1>1, <1>3
  <2>3. worker' \in [Worker -> Steps]
    BY <1>1, <1>3 DEF WorkerInv, Steps, Draining
  <2>4. \A v \in Worker : worker'[v] \in Draining <=> v = w
    BY <2>1, <2>2 DEF Draining
  <2> QED BY <1>3, <2>3, <2>4 DEF WorkerInv, OneWorker
<1> QED BY <1>1, <1>2, <1>3, DispatchOne

LEMMA RecheckKeeps ==
  ASSUME WorkerInv, NEW w \in Worker, Recheck(w)
  PROVE  WorkerInv'
<1>1. worker[w] = "recheck" /\ worker[w] \notin Draining
  BY DEF Recheck, Draining
<1>2. CASE Seen(w)
  <2>1. PICK new \in NextWorkers :
          /\ Dispatch(new)
          /\ worker' = [v \in Worker |-> IF v = w THEN "off"
                                         ELSE IF v \in new THEN "loop" ELSE worker[v]]
    BY <1>2 DEF Recheck
  <2>2. worker' \in [Worker -> Steps]
    BY <2>1 DEF WorkerInv, Steps, Draining
  <2>3. CASE held' = held /\ new = {}
    <3>1. \A v \in Worker : worker'[v] \in Draining <=> worker[v] \in Draining
      BY <1>1, <2>1, <2>3 DEF Draining
    <3> QED BY <2>2, <2>3, <3>1 DEF WorkerInv, OneWorker
  <2>4. ASSUME ~held, held' = TRUE, NEW u \in Worker, new = {u}, worker[u] = "off"
        PROVE  WorkerInv'
    <3>1. \A v \in Worker : worker[v] \notin Draining
      BY <2>4 DEF WorkerInv, OneWorker
    <3>2. u # w
      BY <1>1, <2>4
    <3>3. \A v \in Worker : worker'[v] \in Draining <=> v = u
      BY <2>1, <2>4, <3>1, <3>2 DEF Draining
    <3> QED BY <2>2, <2>4, <3>3 DEF WorkerInv, OneWorker
  <2> QED BY <2>1, <2>3, <2>4, DispatchOne
<1>3. CASE ~Seen(w)
  <2>1. worker' = [worker EXCEPT ![w] = "off"] /\ UNCHANGED held
    BY <1>3 DEF Recheck
  <2> QED BY <1>1, <2>1, OwnStep DEF Steps, Draining
<1> QED BY <1>2, <1>3

\* The worker that gives the lock back is the one that drains.
LEMMA ReleaseKeeps ==
  ASSUME WorkerInv, NEW w \in Worker, Release(w)
  PROVE  WorkerInv'
<1>1. worker' = [worker EXCEPT ![w] = "recheck"] /\ held' = FALSE
  BY DEF Release
<1>2. worker' \in [Worker -> Steps]
  BY <1>1 DEF WorkerInv, Steps
<1>3. \A v \in Worker : worker[v] \in Draining => v = w
  BY DEF WorkerInv, OneWorker, Release, Draining
<1>4. \A v \in Worker : worker'[v] \notin Draining
  BY <1>1, <1>3 DEF WorkerInv, Draining
<1> QED BY <1>1, <1>2, <1>4 DEF WorkerInv, OneWorker

LEMMA WorkerStepKeeps ==
  ASSUME WorkerInv, NEW w \in Worker, WorkerStep(w)
  PROVE  WorkerInv'
<1>1. CASE Loop(w)
  <2>1. worker[w] = "loop" /\ UNCHANGED held
    BY <1>1 DEF Loop
  <2>2. PICK step \in {"read", "release"} : worker' = [worker EXCEPT ![w] = step]
    BY <1>1 DEF Loop
  <2> QED BY <2>1, <2>2, OwnStep DEF Steps, Draining
<1>2. CASE ReadRows(w)
  <2>1. worker[w] = "read" /\ UNCHANGED held
    BY <1>2 DEF ReadRows
  <2>2. PICK step \in {"drain", "release"} : worker' = [worker EXCEPT ![w] = step]
    BY <1>2 DEF ReadRows
  <2> QED BY <2>1, <2>2, OwnStep DEF Steps, Draining
<1>3. CASE \E s \in RetiredSession : Delete(w, s)
  <2>1. PICK step \in {"drain", "release"} : worker' = [worker EXCEPT ![w] = step]
    BY <1>3 DEF Delete, WorkerInv
  <2>2. worker[w] = "drain" /\ UNCHANGED held
    BY <1>3 DEF Delete
  <2> QED BY <2>1, <2>2, OwnStep DEF Steps, Draining
<1>4. CASE Drained(w)
  <2>1. worker[w] = "drain" /\ worker' = [worker EXCEPT ![w] = "loop"] /\ UNCHANGED held
    BY <1>4 DEF Drained
  <2> QED BY <2>1, OwnStep DEF Steps, Draining
<1>5. CASE Release(w)
  BY <1>5, ReleaseKeeps
<1>6. CASE Recheck(w)
  BY <1>6, RecheckKeeps
<1> QED BY <1>1, <1>2, <1>3, <1>4, <1>5, <1>6 DEF WorkerStep

LEMMA WorkerNext == WorkerInv /\ [CleanupNext]_cleanupVars => WorkerInv'
<1> SUFFICES ASSUME WorkerInv, [CleanupNext]_cleanupVars PROVE WorkerInv'
  OBVIOUS
<1>1. ASSUME NEW r \in Requester, NEW s \in RetiredSession, Retire(r, s) PROVE WorkerInv'
  BY <1>1 DEF Retire, WorkerInv, OneWorker
<1>2. ASSUME NEW r \in Requester, RequesterStep(r) PROVE WorkerInv'
  <2>1. CASE RequestCleanup(r)
    BY <2>1 DEF RequestCleanup, WorkerInv, OneWorker
  <2> QED BY <1>2, <2>1, DispatchKeeps DEF RequesterStep
<1>3. ASSUME NEW w \in Worker, WorkerStep(w) PROVE WorkerInv'
  BY <1>3, WorkerStepKeeps
<1>4. CASE CrashAndRestart
  BY <1>4 DEF CrashAndRestart, WorkerInv, OneWorker, Steps, Draining
<1>5. CASE UNCHANGED cleanupVars
  BY <1>5 DEF cleanupVars, WorkerInv, OneWorker
<1> QED BY <1>1, <1>2, <1>3, <1>4, <1>5 DEF CleanupNext

\* No session is deleted by two threads at once, and the lock is never left behind
\* (hermes_session.py, _dispatch_session_cleanup and _run_session_cleanup).
THEOREM OneWorkerDrains == CleanupSpec => []OneWorker
<1>1. WorkerInv => OneWorker
  BY DEF WorkerInv
<1> QED BY <1>1, WorkerInit, WorkerNext, PTL DEF CleanupSpec

\* A retired session that no worker has tried yet is on its way to one: its request
\* is to come, or is wanted while a thread is there to look, or a worker has read the
\* row or is about to.
Remembered(s) ==
  \/ trouble \cap {"spawn", "store"} # {}
  \/ \E r \in Requester : requester[r] = "queued"
  \/ /\ wanted
     /\ \/ \E r \in Requester : requester[r] = "requested"
        \/ \E w \in Worker : worker[w] \in Draining \cup {"recheck"}
  \/ \E w \in Worker : worker[w] = "read" \/ (worker[w] = "drain" /\ s \in todo[w])

NothingForgotten == \A s \in pending \ tried : Remembered(s)

CleanupInv == CleanupTypeOK /\ WorkerInv /\ NothingForgotten

LEMMA CleanupTyped == CleanupTypeOK /\ [CleanupNext]_cleanupVars => CleanupTypeOK'
<1> SUFFICES ASSUME CleanupTypeOK, [CleanupNext]_cleanupVars PROVE CleanupTypeOK'
  OBVIOUS
<1>1. ASSUME NEW r \in Requester, NEW s \in RetiredSession, Retire(r, s) PROVE CleanupTypeOK'
  BY <1>1 DEF Retire, CleanupTypeOK
<1>2. ASSUME NEW r \in Requester, RequestCleanup(r) PROVE CleanupTypeOK'
  BY <1>2 DEF RequestCleanup, CleanupTypeOK
<1>3. ASSUME NEW new \in NextWorkers, Dispatch(new)
      PROVE  held' \in BOOLEAN /\ trouble' \subseteq Troubles
  BY <1>3 DEF Dispatch, Trouble, CleanupTypeOK
<1>4. ASSUME NEW r \in Requester, DispatchCleanup(r) PROVE CleanupTypeOK'
  BY <1>3, <1>4 DEF DispatchCleanup, CleanupTypeOK, Draining
<1>5. ASSUME NEW w \in Worker, Loop(w) \/ ReadRows(w) \/ Drained(w) \/ Release(w)
      PROVE  CleanupTypeOK'
  BY <1>5 DEF Loop, ReadRows, Drained, Release, Trouble, CleanupTypeOK, Draining
<1>6. ASSUME NEW w \in Worker, Recheck(w) PROVE CleanupTypeOK'
  BY <1>3, <1>6 DEF Recheck, CleanupTypeOK, Draining
<1>7. ASSUME NEW w \in Worker, NEW s \in RetiredSession, Delete(w, s) PROVE CleanupTypeOK'
  BY <1>7 DEF Delete, Trouble, CleanupTypeOK, Draining
<1>8. CASE CrashAndRestart
  BY <1>8 DEF CrashAndRestart, Trouble, CleanupTypeOK, Draining
<1>9. CASE UNCHANGED cleanupVars
  BY <1>9 DEF cleanupVars, CleanupTypeOK
<1> QED BY <1>1, <1>2, <1>4, <1>5, <1>6, <1>7, <1>8, <1>9
        DEF CleanupNext, RequesterStep, WorkerStep

\* Whoever finds the event set, and the lock free or taken, leaves a thread that will
\* look at it, or fails to start one.
LEMMA DispatchRemembers ==
  ASSUME CleanupTypeOK, WorkerInv, NEW new \in NextWorkers, Dispatch(new)
  PROVE  \/ trouble' \cap {"spawn", "store"} # {}
         \/ \E w \in Worker : worker[w] \in Draining
         \/ \E w \in Worker : w \in new
<1>1. CASE held /\ UNCHANGED <<held, trouble>> /\ new = {}
  BY <1>1 DEF WorkerInv, OneWorker
<1>2. CASE new # {}
  BY <1>2 DEF NextWorkers, Off
<1>3. CASE Trouble("spawn")
  BY <1>3 DEF Trouble
<1> QED BY <1>1, <1>2, <1>3 DEF Dispatch

LEMMA Remembers ==
  ASSUME CleanupInv, [CleanupNext]_cleanupVars
  PROVE  NothingForgotten'
<1> SUFFICES ASSUME NEW s \in (pending \ tried)' PROVE Remembered(s)'
  BY DEF NothingForgotten
<1>0. CleanupTypeOK /\ WorkerInv /\ (s \in pending \ tried => Remembered(s))
  BY DEF CleanupInv, NothingForgotten
<1>1. ASSUME NEW r \in Requester, NEW t \in RetiredSession, Retire(r, t) PROVE Remembered(s)'
  BY <1>0, <1>1 DEF Retire, Remembered, CleanupTypeOK
<1>2. ASSUME NEW r \in Requester, RequestCleanup(r) PROVE Remembered(s)'
  BY <1>0, <1>2 DEF RequestCleanup, Remembered, CleanupTypeOK
<1>3. ASSUME NEW r \in Requester, DispatchCleanup(r) PROVE Remembered(s)'
  <2>1. PICK new \in NextWorkers :
          /\ Dispatch(new)
          /\ worker' = [w \in Worker |-> IF w \in new THEN "loop" ELSE worker[w]]
    BY <1>3 DEF DispatchCleanup
  <2>2. /\ requester[r] = "requested" /\ requester' = [requester EXCEPT ![r] = "idle"]
        /\ UNCHANGED <<pending, wanted, todo, tried>> /\ Remembered(s)
    BY <1>0, <1>3 DEF DispatchCleanup
  <2>3. \A w \in Worker : worker'[w] = worker[w] \/ (w \in new /\ worker'[w] = "loop" /\ worker[w] = "off")
    BY <2>1 DEF NextWorkers, Off
  <2>4. trouble \subseteq trouble'
    BY <2>1 DEF Dispatch, Trouble
  <2>5. CASE wanted
    <3>1. \/ trouble' \cap {"spawn", "store"} # {}
          \/ \E w \in Worker : worker[w] \in Draining
          \/ \E w \in Worker : w \in new
      BY <1>0, <2>1, DispatchRemembers
    <3> QED BY <2>1, <2>2, <2>3, <2>5, <3>1 DEF Remembered, Draining
  <2>6. CASE ~wanted
    BY <1>0, <2>2, <2>3, <2>4, <2>6 DEF Remembered, CleanupTypeOK
  <2> QED BY <2>5, <2>6
<1>4. ASSUME NEW w \in Worker, Loop(w) PROVE Remembered(s)'
  BY <1>0, <1>4 DEF Loop, Remembered, CleanupTypeOK, Draining
<1>5. ASSUME NEW w \in Worker, ReadRows(w) PROVE Remembered(s)'
  BY <1>0, <1>5 DEF ReadRows, Remembered, CleanupTypeOK, Draining, Trouble
<1>6. ASSUME NEW w \in Worker, Drained(w) \/ Release(w) PROVE Remembered(s)'
  BY <1>0, <1>6 DEF Drained, Release, Remembered, CleanupTypeOK, Draining
<1>7. ASSUME NEW w \in Worker, Recheck(w) PROVE Remembered(s)'
  <2>1. CASE ~wanted
    BY <1>0, <1>7, <2>1 DEF Recheck, Seen, Remembered, CleanupTypeOK
  <2>2. CASE wanted
    <3>1. PICK new \in NextWorkers :
            /\ Dispatch(new)
            /\ worker' = [v \in Worker |-> IF v = w THEN "off"
                                           ELSE IF v \in new THEN "loop" ELSE worker[v]]
      BY <1>7, <2>2 DEF Recheck, Seen
    <3>2. \/ trouble' \cap {"spawn", "store"} # {}
          \/ \E v \in Worker : worker[v] \in Draining
          \/ \E v \in Worker : v \in new
      BY <1>0, <3>1, DispatchRemembers
    <3>3. worker[w] = "recheck" /\ w \notin new /\ wanted'
      BY <1>7, <2>2, <3>1 DEF Recheck, NextWorkers, Off
    <3>4. \A v \in Worker : worker[v] \in Draining => worker'[v] \in Draining
      BY <3>1, <3>3 DEF Draining
    <3>5. \A v \in Worker : v \in new => worker'[v] \in Draining
      BY <3>1, <3>3 DEF Draining
    <3> QED BY <3>2, <3>3, <3>4, <3>5 DEF Remembered
  <2> QED BY <2>1, <2>2
<1>8. ASSUME NEW w \in Worker, NEW t \in RetiredSession, Delete(w, t) PROVE Remembered(s)'
  BY <1>0, <1>8 DEF Delete, Remembered, CleanupTypeOK, Draining, Trouble
<1>9. CASE CrashAndRestart
  BY <1>9 DEF CrashAndRestart, Remembered
<1>10. CASE UNCHANGED cleanupVars
  BY <1>0, <1>10 DEF cleanupVars, Remembered
<1> QED BY <1>1, <1>2, <1>3, <1>4, <1>5, <1>6, <1>7, <1>8, <1>9, <1>10
        DEF CleanupNext, RequesterStep, WorkerStep

LEMMA CleanupAlways == CleanupSpec => []CleanupInv
<1>1. CleanupInit => CleanupInv
  <2>1. CleanupInit => CleanupTypeOK /\ NothingForgotten
    BY DEF CleanupInit, CleanupTypeOK, NothingForgotten, Draining
  <2> QED BY <2>1, WorkerInit DEF CleanupInv
<1>2. CleanupInv /\ [CleanupNext]_cleanupVars => CleanupInv'
  BY CleanupTyped, WorkerNext, Remembers DEF CleanupInv
<1> QED BY <1>1, <1>2, PTL DEF CleanupSpec

\* The pending, the event, the lock and the threads of the cleanup keep their types.
THEOREM CleanupIsTyped == CleanupSpec => []CleanupTypeOK
<1>1. CleanupInv => CleanupTypeOK
  BY DEF CleanupInv
<1> QED BY <1>1, CleanupAlways, PTL

\* No wake-up is lost: at whatever moment a session is retired, also while the last
\* worker gives the lock back, something is left that leads a worker to it, unless a
\* thread could not be started or the store failed (hermes_session.py,
\* _run_session_cleanup, the second look at the event).  With the fairness of the
\* threads this is why every session is tried.
THEOREM NoWakeUpIsLost == CleanupSpec => []NothingForgotten
<1>1. CleanupInv => NothingForgotten
  BY DEF CleanupInv
<1> QED BY <1>1, CleanupAlways, PTL
=============================================================================
