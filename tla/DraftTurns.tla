----------------------------- MODULE DraftTurns -----------------------------
(***************************************************************************)
(* The Draft Assistant of one workspace: HermesDraftService and its store. *)
(* A request admits an operation (a 'running' row of draft_operations), a  *)
(* background thread takes the workspace's turn lock, resolves the Hermes  *)
(* session, submits the prompt and waits; the agent, in another process,   *)
(* saves the draft through a tool that stamps the save with the operation  *)
(* id it finds running; the thread then compares the manifest with what it *)
(* heard and settles the row.  Around it: Stop, reset, removal, a lost     *)
(* connection, a crash of the controller and its start-up recovery, and    *)
(* saves by members of the web editor and by Feishu conversations.         *)
(*                                                                         *)
(* Workspaces share nothing here but the cleanup worker (SessionCleanup),  *)
(* so one is modelled.  A client sends each operation id once.             *)
(***************************************************************************)
EXTENDS Naturals, FiniteSets, Sequences

CONSTANTS Op,          \* operation ids
          Session,     \* stored Hermes session ids
          NoOne,       \* no operation, no session, no holder of the lock
          MaxVersion,  \* bound: versions of the draft; large enough never to be met
          Events,      \* what may happen: see Once
          MaxEvents    \* bound: how many of the Events happen in a behaviour

VARIABLES
  row,      \* draft_operations: state and, when settled, the outcome
  after,    \* the draft version a completed operation reports, or 0
  req,      \* expected versions of the request, and whether a save is required
  pc,       \* the thread of each operation
  lock,     \* holder of the turn lock: an operation, "retire" or NoOne
  live,     \* _live_turns: the operation whose live session is registered
  retire,   \* progress of a reset or of a removal
  binding,  \* draft_sessions: the bound session or NoOne
  queue,    \* pending_session_deletions
  stopping, \* the operation that a Stop on its way was asked for, or NoOne
  aim,      \* the session that this Stop will interrupt, once it has been looked up
  up,       \* the controller process runs
  sess,     \* the session an operation's turn runs in
  agent,    \* the turn as Hermes runs it
  bound,    \* the operation id a save tool has read
  heard,    \* save events that reached the thread (save_started, save_succeeded)
  stop,     \* the operation whose Stop interrupted this turn, or NoOne
  known,    \* the sessions Hermes has stored
  told,     \* the operations whose prompts a session's context holds
  draft,    \* versions of the draft: who wrote each and its stamp
  mv,       \* manifest version
  gone,     \* the workspace directory has been removed
  epoch,    \* resets done when an operation's session was resolved
  resets,   \* resets done so far
  spent     \* the Events that have happened

opVars     == <<row, after, req>>
threadVars == <<pc, lock, live>>
bindVars   == <<binding, queue, retire, resets>>
stopVars   == <<stopping, aim>>
hermesVars == <<sess, agent, bound, heard, stop, known, told>>
fileVars   == <<draft, mv, gone>>
turnVars == <<opVars, threadVars, bindVars, stopVars, hermesVars, fileVars, up, epoch, spent>>

Completed     == {"changed", "unchanged"}
Failed        == {"stopped", "failed", "restarted"}
SettledStates == Completed \cup Failed
InTurn        == {"check", "resolve", "submit", "wait", "report"}
Busy          == {"working", "saving", "said"}

\* The saved draft: its version and the operation id stamped into the manifest.
Version == Len(draft)
Stamp   == IF draft = <<>> THEN NoOne ELSE draft[Version].stamp

\* What read_running_operation_id and running_operation answer.
RunningOp == {o \in Op : row[o] = "running"}

\* The holders of the lock and the writers of a version are told apart.
NamesDiffer == NoOne # "retire" /\ {NoOne, "retire", "member", "feishu"} \cap Op = {}

TurnsInit ==
  /\ row = [o \in Op |-> "none"]
  /\ after = [o \in Op |-> 0]
  /\ req = [o \in Op |-> [m |-> 1, d |-> 0, save |-> FALSE]]
  /\ pc = [o \in Op |-> "idle"]
  /\ lock = NoOne /\ live = NoOne /\ retire = "idle"
  /\ binding = NoOne /\ queue = {} /\ up = TRUE
  /\ stopping = NoOne /\ aim = NoOne
  /\ sess = [o \in Op |-> NoOne]
  /\ agent = [o \in Op |-> "none"]
  /\ bound = [o \in Op |-> NoOne]
  /\ heard = [o \in Op |-> "nothing"]
  /\ stop = [o \in Op |-> NoOne]
  /\ known = {} /\ told = [s \in Session |-> {}]
  /\ draft = <<>> /\ mv = 1 /\ gone = FALSE
  /\ epoch = [o \in Op |-> 0] /\ resets = 0
  /\ spent = {}

\* Bounds: each of the Events happens at most once, MaxEvents of them in all.
Once(e) ==
  /\ e \in Events \ spent
  /\ Cardinality(spent) < MaxEvents
  /\ spent' = spent \cup {e}

-----------------------------------------------------------------------------
(* Admission and the thread of an operation                                *)

\* Mutant: start_operation without its second SELECT.
AdmissibleAlways == TRUE

\* One in-flight turn per workspace.
Admissible == RunningOp = {}

\* The row is inserted in one IMMEDIATE transaction that refuses a second
\* running row, then the thread starts; if it cannot start, the row stays.  A
\* request with versions that are already stale behaves like one overtaken
\* right after its admission.
StartDraftOperation(o, save) ==
  /\ up /\ row[o] = "none" /\ pc[o] = "idle"
  /\ Admissible
  /\ row' = [row EXCEPT ![o] = "running"]
  /\ req' = [req EXCEPT ![o] = [m |-> mv, d |-> Version, save |-> save]]
  /\ \/ pc' = [pc EXCEPT ![o] = "lock"] /\ UNCHANGED spent
     \/ pc' = [pc EXCEPT ![o] = "over"] /\ Once("thread")
  /\ UNCHANGED <<after, lock, live, bindVars, hermesVars, fileVars, stopVars, up, epoch>>

\* Generate and Regenerate must end with a save; a chat turn may only answer.
Generate(o) == StartDraftOperation(o, TRUE)
Chat(o)     == StartDraftOperation(o, FALSE)

\* Mutant: the operations of a workspace do not wait for each other.
TurnLockOpen(o) == lock # "retire"

TurnLockFree(o) == lock = NoOne

TakeTurnLock(o) ==
  /\ up /\ pc[o] = "lock" /\ TurnLockFree(o)
  /\ lock' = o
  /\ pc' = [pc EXCEPT ![o] = "check"]
  /\ UNCHANGED <<opVars, live, bindVars, hermesVars, fileVars, stopVars, up, epoch, spent>>

\* Mutant: the row is written whatever its state, or inserted again.
FinishUpserts(o, outcome, version) ==
  /\ row' = [row EXCEPT ![o] = outcome]
  /\ after' = [after EXCEPT ![o] = version]

\* _finish_operation: UPDATE ... WHERE state = 'running'.  A row that a reset
\* deleted stays deleted.
Finish(o, outcome, version) ==
  /\ row' = [row EXCEPT ![o] = IF @ = "running" THEN outcome ELSE @]
  /\ after' = [after EXCEPT ![o] = IF row[o] = "running" THEN version ELSE @]

\* The thread leaves the turn: the registration of the live session and the
\* turn lock go with it.
LeaveTurn(o) ==
  /\ pc' = [pc EXCEPT ![o] = "over"]
  /\ lock' = NoOne
  /\ live' = IF live = o THEN NoOne ELSE live

\* Mutant: an error leaves the turn without being recorded.
SettleCompleted(o, outcome, version) ==
  /\ IF outcome \in Completed THEN Finish(o, outcome, version) ELSE UNCHANGED <<row, after>>
  /\ UNCHANGED spent
  /\ LeaveTurn(o)

\* _record_draft_operation: an error is recorded as the outcome; if the store
\* is out of reach the row is left as it is.
Settle(o, outcome, version) ==
  /\ \/ Finish(o, outcome, version) /\ UNCHANGED spent
     \/ UNCHANGED <<row, after>> /\ Once("store")
  /\ LeaveTurn(o)

\* _check_versions_if_required, for a turn that must save.
Check(o) ==
  /\ up /\ pc[o] = "check"
  /\ IF req[o].save /\ (gone \/ mv # req[o].m \/ Version # req[o].d)
     THEN Settle(o, "failed", 0)
     ELSE /\ pc' = [pc EXCEPT ![o] = "resolve"]
          /\ UNCHANGED <<row, after, lock, live, spent>>
  /\ UNCHANGED <<req, bindVars, hermesVars, fileVars, stopVars, up, epoch>>

BusySession(s) == \E p \in Op : sess[p] = s /\ agent[p] \in Busy

\* session.resume answers the bound session or, when none is bound, one with
\* the workspace's title; when it finds none, session.create makes a new one.
Fresh == {s \in Session : s \notin known \cup queue \cup {binding} /\ told[s] = {}}

Resumable == IF binding = NoOne THEN known ELSE known \cap {binding}

\* The session is resolved, bound and registered as live.  One in which a turn
\* still runs cannot be resumed.
Resolve(o) ==
  /\ up /\ pc[o] = "resolve"
  /\ Resumable # {} \/ Fresh # {}   \* bound: there are sessions enough
  /\ \E s \in IF Resumable = {} THEN {CHOOSE s \in Fresh : TRUE} ELSE Resumable :
       \/ /\ ~BusySession(s)
          /\ sess' = [sess EXCEPT ![o] = s]
          /\ known' = known \cup {s}
          /\ binding' = s
          /\ live' = o
          /\ epoch' = [epoch EXCEPT ![o] = resets]
          /\ pc' = [pc EXCEPT ![o] = "submit"]
          /\ UNCHANGED <<row, after, lock, spent>>
       \/ /\ BusySession(s)
          /\ Settle(o, "failed", 0)
          /\ UNCHANGED <<sess, known, binding, epoch>>
  /\ UNCHANGED <<req, queue, retire, resets, agent, bound, heard, stop, told, fileVars, stopVars, up>>

\* The prompt reaches Hermes: from here the agent runs on its own.
Prompted(o) ==
  /\ sess[o] \in known
  /\ agent' = [agent EXCEPT ![o] = "working"]
  /\ told' = [told EXCEPT ![sess[o]] = @ \cup {o}]

\* prompt.submit fails when the session was deleted after it was resolved.
SubmitPrompt(o) ==
  /\ up /\ pc[o] = "submit"
  /\ \/ /\ Prompted(o)
        /\ pc' = [pc EXCEPT ![o] = "wait"]
        /\ UNCHANGED <<row, after, lock, live, spent>>
     \/ /\ sess[o] \notin known
        /\ Settle(o, "failed", 0)
        /\ UNCHANGED <<agent, told>>
  /\ UNCHANGED <<req, bindVars, sess, bound, heard, stop, known, fileVars, stopVars, up, epoch>>

\* Hermes is out of reach, or says nothing for turn_timeout: the turn is
\* recorded as failed; an agent that was started goes on.
LoseConnection(o) ==
  /\ up /\ pc[o] \in {"resolve", "submit", "wait"}
  /\ Once("timeout")
  /\ Finish(o, "failed", 0)
  /\ LeaveTurn(o)
  /\ \/ pc[o] = "submit" /\ Prompted(o)
     \/ UNCHANGED <<agent, told>>
  /\ UNCHANGED <<req, bindVars, sess, bound, heard, stop, known, fileVars, stopVars, up, epoch>>

\* message.complete, or an error event, ends the wait.
Hear(o) ==
  /\ up /\ pc[o] = "wait" /\ agent[o] \in {"over", "broken"}
  /\ IF agent[o] = "broken"
     THEN Settle(o, "failed", 0)
     ELSE /\ pc' = [pc EXCEPT ![o] = "report"]
          /\ live' = IF live = o THEN NoOne ELSE live
          /\ UNCHANGED <<row, after, lock, spent>>
  /\ UNCHANGED <<req, bindVars, hermesVars, fileVars, stopVars, up, epoch>>

\* Mutant: any save since the request counts.
DraftChangedAny(o) == heard[o] # "nothing" /\ Version > req[o].d

\* draft_changed: this turn's save, and nothing since.
DraftChanged(o) ==
  heard[o] = "saved" /\ Version = req[o].d + 1 /\ Stamp = o

\* A turn that had to save, or heard of a save, has to show the change.
Expected(o) ==
  \/ req[o].save \/ heard[o] = "saved"
  \/ heard[o] = "started" /\ Version # req[o].d

Outcome(o) ==
  LET changed == DraftChanged(o) IN
  CASE gone -> "failed"
    [] ~gone /\ changed -> "changed"
    [] ~gone /\ ~changed /\ stop[o] # NoOne -> "stopped"
    [] ~gone /\ ~changed /\ stop[o] = NoOne /\ Expected(o) -> "failed"
    [] OTHER -> "unchanged"

\* The thread reads the context, decides and settles its row.
Report(o) ==
  /\ up /\ pc[o] = "report"
  /\ LET outcome == Outcome(o)
     IN Settle(o, outcome, IF outcome \in Completed THEN Version ELSE 0)
  /\ UNCHANGED <<req, bindVars, hermesVars, fileVars, stopVars, up, epoch>>

-----------------------------------------------------------------------------
(* The agent in Hermes                                                     *)

\* The lifecycle events of save tools: a start is remembered, and a completion
\* without an error; a later error takes neither back.  A thread that has left
\* its turn no longer looks.
HearSave(o, event) == heard' = [heard EXCEPT ![o] = IF @ = "saved" THEN @ ELSE event]

\* An agent calls a save tool in its turn, and may call one again.  The tool
\* first reads the running operation: without one it is refused, whoever the
\* agent works for.
BindSave(o) ==
  /\ stop[o] = NoOne
  /\ \/ agent[o] = "working" /\ UNCHANGED spent
     \/ agent[o] = "said" /\ Once("again")
  /\ IF RunningOp = {}
     THEN /\ agent' = [agent EXCEPT ![o] = "said"]
          /\ HearSave(o, "started")
          /\ UNCHANGED bound
     ELSE \E p \in RunningOp :
            /\ bound' = [bound EXCEPT ![o] = p]
            /\ agent' = [agent EXCEPT ![o] = "saving"]
            /\ UNCHANGED heard
  /\ UNCHANGED <<opVars, threadVars, bindVars, sess, stop, known, told, fileVars, stopVars, up, epoch>>

\* save_draft appends a version made from version d of the draft.
Save(by, stamp) ==
  /\ Version < MaxVersion
  /\ draft' = Append(draft, [by |-> by, stamp |-> stamp])

\* An edit whose operation already stamped the next version is taken for a
\* repetition and answered with what is saved.
Replay(o) == Version = req[o].d + 1 /\ Stamp = bound[o] /\ Version > 1

\* The save itself, under the workspace lock and with the versions the prompt
\* named; an edit needs a saved draft.
AgentSave(o) ==
  /\ agent[o] = "saving"
  /\ agent' = [agent EXCEPT ![o] = "said"]
  /\ \/ /\ ~gone /\ mv = req[o].m /\ Version = req[o].d
        /\ Save(o, bound[o])
        /\ HearSave(o, "saved")
     \/ /\ ~gone /\ Replay(o)
        /\ HearSave(o, "saved")
        /\ UNCHANGED draft
     \/ /\ (gone \/ mv # req[o].m \/ Version # req[o].d)
        /\ HearSave(o, "started")
        /\ UNCHANGED draft
  /\ UNCHANGED <<opVars, threadVars, bindVars, sess, bound, stop, known, told, mv, gone,
                 stopVars, up, epoch, spent>>

\* The turn ends with a reply or with an error.
AgentEnd(o) ==
  /\ agent[o] \in {"working", "said"}
  /\ \E end \in {"over", "broken"} : agent' = [agent EXCEPT ![o] = end]
  /\ UNCHANGED <<opVars, threadVars, bindVars, sess, bound, heard, stop, known, told,
                 fileVars, stopVars, up, epoch, spent>>

-----------------------------------------------------------------------------
(* Members, Feishu and other writers                                       *)

\* interrupt_operation answers at once unless the row is running.
InterruptOperation(o) ==
  /\ up /\ row[o] = "running" /\ stopping = NoOne
  /\ Once("stop")
  /\ stopping' = o
  /\ UNCHANGED <<opVars, threadVars, bindVars, aim, hermesVars, fileVars, up, epoch>>

\* Mutant: the operation that is registered is not compared.
AnyLive == live # NoOne

LiveIsAsked == live = stopping

\* Then it reads _live_turns, and asks the member to try again if the turn of the
\* operation is not the one registered there.
LookUpLive ==
  /\ up /\ stopping # NoOne /\ aim = NoOne
  /\ IF LiveIsAsked
     THEN aim' = sess[live] /\ UNCHANGED stopping
     ELSE stopping' = NoOne /\ UNCHANGED aim
  /\ UNCHANGED <<opVars, threadVars, bindVars, hermesVars, fileVars, up, epoch, spent>>

\* Then it connects and sends session.interrupt, which stops whatever turn runs in
\* that session by now; or the session is not live any more, or out of reach.
SessionInterrupt ==
  /\ up /\ aim # NoOne
  /\ stopping' = NoOne /\ aim' = NoOne
  /\ \/ stop' = [o \in Op |-> IF sess[o] = aim /\ agent[o] \in Busy THEN stopping ELSE stop[o]]
     \/ UNCHANGED stop
  /\ UNCHANGED <<opVars, threadVars, bindVars, sess, agent, bound, heard, known, told,
                 fileVars, up, epoch, spent>>

\* A save from the web editor carries no operation id; one from Feishu takes
\* the id of a running operation for its own.
OtherSave ==
  /\ ~gone
  /\ \/ Once("member") /\ Save("member", NoOne)
     \/ /\ Once("feishu")
        /\ \E p \in IF RunningOp = {} THEN {NoOne} ELSE RunningOp : Save("feishu", p)
  /\ UNCHANGED <<opVars, threadVars, bindVars, hermesVars, mv, gone, stopVars, up, epoch>>

\* Materials are edited: the manifest gets its next version.
EditMaterials ==
  /\ ~gone /\ Once("materials")
  /\ mv' = mv + 1
  /\ UNCHANGED <<opVars, threadVars, bindVars, hermesVars, draft, gone, stopVars, up, epoch>>

\* reset and delete_workspace take the turn lock; the removal first removes
\* the directory.
BeginRetire ==
  /\ up /\ ~gone /\ lock = NoOne /\ retire = "idle"
  /\ \/ Once("reset") /\ UNCHANGED gone
     \/ Once("remove") /\ gone' = TRUE
  /\ lock' = "retire" /\ retire' = "schedule"
  /\ UNCHANGED <<opVars, pc, live, binding, queue, resets, hermesVars, draft, mv, stopVars,
                 up, epoch>>

\* The intent to delete the session is recorded before the binding goes.
ScheduleDeletion ==
  /\ up /\ retire = "schedule"
  /\ IF binding = NoOne
     THEN retire' = "clear" /\ UNCHANGED queue
     ELSE retire' = "unbind" /\ queue' = queue \cup {binding}
  /\ UNCHANGED <<opVars, threadVars, binding, resets, hermesVars, fileVars, stopVars, up,
                 epoch, spent>>

Unbind ==
  /\ up /\ retire = "unbind"
  /\ binding' = NoOne
  /\ retire' = "clear"
  /\ UNCHANGED <<opVars, threadVars, queue, resets, hermesVars, fileVars, stopVars, up, epoch, spent>>

\* reset_history deletes every row of the workspace, running ones included.
ClearHistory ==
  /\ up /\ retire = "clear"
  /\ row' = [o \in Op |-> IF row[o] = "none" THEN "none" ELSE "deleted"]
  /\ resets' = resets + 1
  /\ retire' = "idle" /\ lock' = NoOne
  /\ UNCHANGED <<after, req, pc, live, binding, queue, hermesVars, fileVars, stopVars, up, epoch, spent>>

\* A store out of reach ends a reset or a removal where it stands.
FailRetire ==
  /\ up /\ retire # "idle" /\ Once("store")
  /\ retire' = "idle" /\ lock' = NoOne
  /\ UNCHANGED <<opVars, pc, live, binding, queue, resets, hermesVars, fileVars, stopVars,
                 up, epoch>>

\* The cleanup worker deletes a session that has no running turn; its row goes
\* after it, unless the store is out of reach.
DeleteSession(s) ==
  /\ up /\ s \in queue /\ ~BusySession(s)
  /\ known' = known \ {s}
  /\ \/ queue' = queue \ {s} /\ UNCHANGED spent
     \/ Once("store") /\ UNCHANGED queue
  /\ UNCHANGED <<opVars, threadVars, binding, retire, resets, sess, agent, bound, heard,
                 stop, told, fileVars, stopVars, up, epoch>>

-----------------------------------------------------------------------------
(* The controller process                                                  *)

\* The threads die; Hermes, the store and the files go on.
ControllerCrash ==
  /\ up /\ Once("crash")
  /\ up' = FALSE
  /\ pc' = [o \in Op |-> IF pc[o] = "idle" THEN "idle" ELSE "over"]
  /\ lock' = NoOne /\ live' = NoOne /\ retire' = "idle"
  /\ stopping' = NoOne /\ aim' = NoOne
  /\ UNCHANGED <<opVars, binding, queue, resets, hermesVars, fileVars, epoch>>

\* Mutant: any saved draft of the workspace will do.
RecoveredAny(o) == ~gone /\ draft # <<>>

\* _settle_interrupted_operations: a running row whose id is stamped on the
\* saved draft is completed, the others failed; only then are requests served.
Recovered(o) == ~gone /\ draft # <<>> /\ Stamp = o

\* Mutant: a state the table's CHECK does not allow.
RecoveredState(o) == IF Recovered(o) THEN "changed" ELSE "interrupted"

RecoveredOutcome(o) == IF Recovered(o) THEN "changed" ELSE "restarted"

ControllerRestart ==
  /\ ~up
  /\ up' = TRUE
  /\ row' = [o \in Op |-> IF row[o] = "running" THEN RecoveredOutcome(o) ELSE row[o]]
  /\ after' = [o \in Op |-> IF row[o] = "running" /\ Recovered(o) THEN Version ELSE after[o]]
  /\ UNCHANGED <<req, threadVars, bindVars, stopVars, hermesVars, fileVars, epoch, spent>>

TurnStep(o) ==
  \/ TakeTurnLock(o) \/ Check(o) \/ Resolve(o) \/ SubmitPrompt(o) \/ Hear(o) \/ Report(o)

AgentStep(o) == BindSave(o) \/ AgentSave(o) \/ AgentEnd(o)

ServiceStep ==
  \/ ScheduleDeletion \/ Unbind \/ ClearHistory \/ ControllerRestart

TurnsNext ==
  \/ \E o \in Op : Generate(o) \/ Chat(o) \/ TurnStep(o) \/ LoseConnection(o)
  \/ \E o \in Op : AgentStep(o) \/ InterruptOperation(o)
  \/ LookUpLive \/ SessionInterrupt
  \/ OtherSave \/ EditMaterials \/ BeginRetire \/ FailRetire \/ ServiceStep
  \/ \E s \in Session : DeleteSession(s)
  \/ ControllerCrash

TurnsSpec == TurnsInit /\ [][TurnsNext]_turnVars

\* Threads run, a stopped controller is started again, and Hermes ends a turn
\* or falls silent, which the thread notices after turn_timeout.
FairTurnsSpec ==
  /\ TurnsSpec
  /\ \A o \in Op : WF_turnVars(TurnStep(o)) /\ WF_turnVars(AgentStep(o))
  /\ WF_turnVars(ServiceStep)

-----------------------------------------------------------------------------
(* Properties *)

\* What operation and history answer a client that polls or reconnects.
Answered(o) == <<row[o], after[o]>>

RowStates == {"none", "running", "deleted"} \cup SettledStates

TurnsTypeOK ==
  /\ row \in [Op -> RowStates]
  /\ after \in [Op -> 0..MaxVersion]
  /\ req \in [Op -> [m : Nat, d : 0..MaxVersion, save : BOOLEAN]]
  /\ pc \in [Op -> InTurn \cup {"idle", "lock", "over"}]
  /\ lock \in Op \cup {NoOne, "retire"}
  /\ live \in Op \cup {NoOne}
  /\ retire \in {"idle", "schedule", "unbind", "clear"}
  /\ stopping \in Op \cup {NoOne} /\ aim \in Session \cup {NoOne}
  /\ binding \in Session \cup {NoOne}
  /\ queue \subseteq Session /\ known \subseteq Session
  /\ up \in BOOLEAN /\ gone \in BOOLEAN
  /\ sess \in [Op -> Session \cup {NoOne}]
  /\ agent \in [Op -> Busy \cup {"none", "over", "broken"}]
  /\ bound \in [Op -> Op \cup {NoOne}]
  /\ heard \in [Op -> {"nothing", "started", "saved"}]
  /\ stop \in [Op -> Op \cup {NoOne}]
  /\ told \in [Session -> SUBSET Op]
  /\ draft \in Seq([by : Op \cup {"member", "feishu"}, stamp : Op \cup {NoOne}])
  /\ mv \in Nat /\ resets \in Nat /\ epoch \in [Op -> Nat]
  /\ spent \subseteq Events

\* One turn at a time talks to Hermes for the workspace, also when a reset has
\* deleted the row of an operation whose thread has not yet begun, and the
\* next operation has been admitted; the registered live session is the one
\* of that turn.  A Stop looks the session up and interrupts it in another
\* request, so that it may come late: it stops the turn it was asked for or, when
\* the thread of that one has left, a turn of the same session that runs by then.
\* It never stops a turn while the one it was asked for is on its way, nor one of
\* another session.
OneTurn ==
  /\ \A o, p \in Op : pc[o] \in InTurn /\ pc[p] \in InTurn => o = p
  /\ \A o \in Op : live = o => pc[o] \in {"submit", "wait"} /\ sess[o] = binding
  /\ \A o, p \in Op : stop[p] = o /\ o # p => pc[o] = "over" /\ sess[o] = sess[p]

\* At most one operation of the workspace is running, so that a save is
\* attributed to one operation and a member sees one turn in flight.
OneRunningOperation ==
  \A o, p \in Op : row[o] = "running" /\ row[p] = "running" => o = p

\* An operation that reports a change reports a saved version that carries its
\* id, and is credited with its own turn's save.  The exceptions are Feishu,
\* which saves under the running operation's id, and a turn that failed, or was
\* reset, while its agent went on; a completed turn never gives its work away,
\* and neither does a member.
ChangeIsItsOwn ==
  \A o \in Op : row[o] = "changed" =>
    /\ after[o] \in 1..Version
    /\ LET save == draft[after[o]] IN
         /\ save.stamp = o
         /\ \/ save.by = o \/ save.by = "feishu"
            \/ save.by \in Op /\ row[save.by] \notin Completed

\* What a member was told of an operation is never told differently later;
\* only a reset takes it away.
OutcomeIsFinal ==
  [][\A o \in Op : row[o] \in SettledStates \cup {"deleted"} =>
       Answered(o)' = Answered(o) \/ row'[o] = "deleted"]_turnVars

\* Every admitted operation is settled, or deleted by a reset, or left for the
\* next start of the controller by a store or a thread that failed.
LeftForRestart(o) ==
  row[o] = "running" /\ pc[o] = "over" /\ spent \cap {"store", "thread"} # {}

TurnSettles(o) == row[o] = "running" ~> row[o] # "running" \/ LeftForRestart(o)

EveryTurnSettles == \A o \in Op : TurnSettles(o)

\* "A reset starts a genuinely new conversation ... so the model cannot recall
\* pre-reset context": no session holds prompts of before and after a reset.
ResetForgets ==
  \A s \in Session : \A o, p \in told[s] : epoch[o] = epoch[p]
=============================================================================
