-------------------------- MODULE PublicationSystem --------------------------
(***************************************************************************)
(* The publication of one workspace end to end: the members, browsers and  *)
(* backend of PublicWxPost and the controller of PublicationRunner, whose  *)
(* calls are the backend's ensure and finalize requests.                   *)
(***************************************************************************)
EXTENDS PublicWxPost

CONSTANTS
  Operations,   \* publication operations
  Order,        \* the items in the order of media.order
  Faults        \* subset of {"unreachable", "timeout", "crash"}

VARIABLES
  ops, thread, alive,   \* see PublicationRunner
  serving,      \* the request whose answer an operation's thread awaits
  orphaned      \* history: has a request ever been left without its caller

ASSUME SystemAssumption ==
  /\ Order \in Seq(Items)
  /\ Faults \subseteq {"unreachable", "timeout", "crash"}

\* One sync of the workspace per saved draft and article row.
ItemsOf(p) == SelectSeq(Order, LAMBDA i : i \in Document[p.draft])

R == INSTANCE PublicationRunner WITH
       Workspaces <- {"workspace"}, Plans <- Plan,
       ItemCount  <- [p \in Plan |-> Len(ItemsOf(p))],
       Faults     <- Faults \cap {"crash"}

ASSUME NoneAssumption == None \notin Handlers \cup R!Row \cup R!ErrorCodes

runnerVars == <<ops, thread, alive>>
callVars   == <<serving, orphaned>>
systemVars == <<publicVars, runnerVars, callVars>>

SystemInit ==
  /\ Init
  /\ R!Init
  /\ serving = [op \in Operations |-> None]
  /\ orphaned = FALSE

-----------------------------------------------------------------------------
(* The sync route hands the plan to the controller *)

PlanOf(h) == [shell |-> handler[h].shell, draft |-> handler[h].draft]

Admit(h, op) ==
  /\ At(h, "ok") /\ handler[h].op = "submit"
  /\ R!Submit("workspace", op, PlanOf(h))
  /\ Forget(h)
  /\ UNCHANGED callVars

\* An answer nobody waits for: to a member, or to a thread that has gone.
Unheard(h) ==
  /\ \A op \in Operations : serving[op] # h
  /\ Forget(h)
  /\ UNCHANGED <<runnerVars, callVars>>

-----------------------------------------------------------------------------
(* The calls of a thread *)

Call(op, h) ==
  /\ R!Call(op)
  /\ LET p == ops[op].plan IN
     IF R!IsFinalize(op) THEN StartFinalize(h, p)
                         ELSE StartEnsure(h, p, ItemsOf(p)[thread[op].index])
  /\ serving' = [serving EXCEPT ![op] = h]
  /\ UNCHANGED orphaned

\* The connection fails before the backend sees the request.
CallUnreachable(op) ==
  /\ "unreachable" \in Faults
  /\ R!Call(op)
  /\ UNCHANGED <<publicVars, callVars>>

\* The answer reaches the thread that waits for it.
Hear(op) ==
  /\ serving[op] # None
  /\ \/ At(serving[op], "ok") /\ R!AnswerOk(op)
     \/ At(serving[op], "rejected") /\ R!AnswerRejected(op)
  /\ Forget(serving[op])
  /\ serving' = [serving EXCEPT ![op] = None]
  /\ UNCHANGED orphaned

\* Mutant: the call is retried while its first request can still be answered.
GiveUpListening(op) ==
  /\ serving[op] # None => "timeout" \in Faults
  /\ R!NetworkErrorFirst(op) \/ R!NetworkErrorAgain(op)
  /\ UNCHANGED <<publicVars, callVars>>

\* urlopen gives up, at once or after 90 s; a request that had reached the
\* backend goes on without anybody waiting for it.
GiveUp(op) ==
  /\ serving[op] # None => "timeout" \in Faults
  /\ R!NetworkErrorFirst(op) \/ R!NetworkErrorAgain(op)
  /\ serving' = [serving EXCEPT ![op] = None]
  /\ orphaned' = (orphaned \/ serving[op] # None)
  /\ UNCHANGED publicVars

ThreadAlone(op) == R!ThreadAlone(op) /\ UNCHANGED <<publicVars, callVars>>

\* A stopped controller awaits nothing; the backend does not notice.
Crash ==
  /\ R!Crash
  /\ serving' = [op \in Operations |-> None]
  /\ orphaned' = (orphaned \/ \E op \in Operations : serving[op] # None)
  /\ UNCHANGED publicVars

Restart == R!Restart /\ UNCHANGED <<publicVars, callVars>>

BackendStep ==
  /\ MemberStep \/ \E h \in Handlers : HandlerStep(h)
  /\ UNCHANGED <<runnerVars, callVars>>

SystemNext ==
  \/ BackendStep
  \/ \E h \in Handlers : Unheard(h) \/ \E op \in Operations : Admit(h, op)
  \/ \E op \in Operations, h \in Handlers : Call(op, h)
  \/ \E op \in Operations :
       CallUnreachable(op) \/ Hear(op) \/ GiveUp(op) \/ ThreadAlone(op)
  \/ Crash
  \/ Restart

SystemSpec == SystemInit /\ [][SystemNext]_systemVars

-----------------------------------------------------------------------------
(* Properties *)

\* Types; and the request an operation awaits is its own, for its current step:
\* the answer to a call that was given up is never taken for another one's.
CallsMatch ==
  /\ serving \in [Operations -> Handlers \cup {None}]
  /\ orphaned \in BOOLEAN
  /\ \A op \in Operations : serving[op] # None =>
       LET request == handler[serving[op]] IN
       /\ R!AtPc(op, "waiting")
       /\ request.op = IF R!IsFinalize(op) THEN "finalize" ELSE "ensure"
       /\ request.shell = ops[op].plan.shell
       /\ request.draft = ops[op].plan.draft
       /\ \A other \in Operations \ {op} : serving[other] # serving[op]

\* An operation the controller reports as completed has put its draft on show.
CompletedMeansPublished ==
  \A op \in Operations :
    R!Settled(op) /\ ops[op].state = "completed" =>
      \E p \in published : /\ p.draft = ops[op].plan.draft
                           /\ p.bundle = Document[p.draft]

\* Until the article is deleted, and as long as no request outlives its caller,
\* readers never see an article whose media has gone,
MediaBackedUntilDeleted ==
  used.deletes = 0 /\ ~orphaned => PublicMediaBacked

\* and the next publication can trust the status of an asset row.
StatusTrustedUntilDeleted ==
  used.deletes = 0 /\ ~orphaned => ReadyAssetBacked

\* As long as no request outlives its caller, a publication never takes readers
\* back to an older draft, deletions or not.
NoDraftRegressionUnlessLate ==
  [][~orphaned' /\ Public /\ Public' /\ wx'.id = wx.id
     => wx'.draft >= wx.draft]_systemVars

\* Readers see the revisions of an article in order, whole, although members
\* delete it or calls outlive their callers; of both together a finalize can
\* take the row a deletion hides for the one it read before it was ever shown.
RefinesUnlessBoth ==
  /\ Article_!Init
  /\ [][~orphaned' \/ used'.deletes = 0
        => Article_!Next \/ UNCHANGED <<OnShow, published>>]_systemVars
=============================================================================
