------------------------------ MODULE MCSystem ------------------------------
(* Small instances of PublicationSystem for TLC, one after the other: the  *)
(* instance of the configuration, in which nobody deletes the article, one *)
(* in which a member does, and two in which the backend goes on with a     *)
(* request that its caller gave up, or died on.  The first state chooses   *)
(* between them.                                                           *)
EXTENDS MCPublicationSystem

VARIABLE part   \* the instance that moves

Deleting == INSTANCE PublicationSystem WITH
  Uploads <- {}, MaxKeys <- 2, MaxDeletes <- 1, BackendFaults <- {}, Faults <- {}

Late(Fault) == INSTANCE PublicationSystem WITH
  Uploads <- {}, MaxKeys <- 2, MaxRevision <- 2, BackendFaults <- {}, Faults <- Fault

MCInit == SystemInit /\ part \in {"publish", "delete", "timeout", "crash"}

MCNext ==
  /\ \/ part = "publish" /\ SystemNext
     \/ part = "delete" /\ Deleting!SystemNext
     \/ part = "timeout" /\ Late({"timeout"})!SystemNext
     \/ part = "crash" /\ Late({"crash"})!SystemNext
  /\ UNCHANGED part

MCSpec == MCInit /\ [][MCNext]_<<systemVars, part>>
=============================================================================
