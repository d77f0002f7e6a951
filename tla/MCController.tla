---------------------------- MODULE MCController ----------------------------
(* Small instances, for TLC, of the parts of the Controller that promise   *)
(* something eventually: the publication runner, the Draft Assistant's     *)
(* turns and its cleanup worker.  They share nothing, so one run checks    *)
(* one after the other: the first state chooses a part, and only that part *)
(* moves.                                                                  *)
EXTENDS PublicationRunner, DraftTurns, SessionCleanup, TLC

CONSTANTS w1, o1, o2, o3, text, photos, s1, s2, s3, r1, r2, k1, k2, k3

\* A plan without media and one with MaxItems of them.
CONSTANT MaxItems
MCItemCount == (text :> 0) @@ (photos :> MaxItems)

ASSUME TurnAssumption == NamesDiffer

VARIABLE part   \* the part that moves

Publications == part = "publications"
Turns        == part = "turns"
Sessions     == part = "cleanup"

MCInit ==
  /\ Init /\ TurnsInit /\ CleanupInit
  /\ part \in {"publications", "turns", "cleanup"}

MCNext ==
  \/ Publications /\ Next /\ UNCHANGED <<turnVars, cleanupVars, part>>
  \/ Turns /\ TurnsNext /\ UNCHANGED <<runnerVars, cleanupVars, part>>
  \/ Sessions /\ CleanupNext /\ UNCHANGED <<runnerVars, turnVars, part>>

\* The fairness of each part, which is owed only while that part moves.
MCFairSpec ==
  /\ MCInit /\ [][MCNext]_<<runnerVars, turnVars, cleanupVars, part>>
  /\ \A op \in Operations : WF_runnerVars(Publications /\ ThreadStep(op))
  /\ WF_runnerVars(Publications /\ Restart)
  /\ \A o \in Op :
       /\ WF_turnVars(Turns /\ TurnStep(o))
       /\ WF_turnVars(Turns /\ AgentStep(o))
  /\ WF_turnVars(Turns /\ ServiceStep)
  /\ \A r \in Requester : WF_cleanupVars(Sessions /\ RequesterStep(r))
  /\ \A k \in Worker : WF_cleanupVars(Sessions /\ WorkerStep(k))

-----------------------------------------------------------------------------
(* The properties of the parts together                                    *)

TypesOK == TypeOK /\ TurnsTypeOK /\ CleanupTypeOK

\* Every publication and every turn settles, unless a store or a thread that
\* failed leaves it to the next restart, and every retired session is tried.
\* Operations, turns and sessions are interchangeable, so each part promises
\* every one of them what it promises this one.
EverythingSettles ==
  /\ OperationSettles(o1)
  /\ TurnSettles(o1)
  /\ SessionIsTried(s1)
=============================================================================
