----------------------------- MODULE MCWorkspace -----------------------------
(* Small instances of Workspace for TLC. *)
EXTENDS Workspace, TLC

MCSymmetry == Permutations(Procs) \cup Permutations(Texts)
              \cup Permutations(Keys) \cup Permutations(Attachments)
=============================================================================
