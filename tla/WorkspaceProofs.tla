-------------------------- MODULE WorkspaceProofs --------------------------
(***************************************************************************)
(* Proofs about Workspace for every number of processes, materials, texts  *)
(* and faults.  What the files hold, each by itself, is proved for every   *)
(* request, removals included.  What rests on the lock is proved as long   *)
(* as the workspace is not removed: a removal takes the lock file away     *)
(* under its holder.                                                       *)
(***************************************************************************)
EXTENDS Workspace, FiniteSetTheorems, SequenceTheorems, TLAPS

-----------------------------------------------------------------------------
(* The lock *)

\* The lock file is never replaced, and a process that opened it has its inode.
KeepsLock(r) ==
  /\ DOMAIN r = DOMAIN Idle
  /\ r.kind # "remove"
  /\ r.pc # "removing"
  /\ r.pc \in HoldingPcs \cup {"lock"} => r.at = 0

LockFile ==
  /\ "root" \in dirs
  /\ lock = 0
  /\ DOMAIN proc = Procs
  /\ \A p \in Procs : KeepsLock(proc[p])

\* Exclusion alone is not inductive: it rests on the one inode.
LockInv == LockFile /\ LockExcludes

LEMMA LockInit == Init => LockInv
BY DEF Init, LockInv, LockFile, LockExcludes, KeepsLock, Holds, HoldingPcs, Idle

\* A step that changes one process, takes no lock and leaves the lock file
\* alone keeps the invariant.
LEMMA OwnStep ==
  ASSUME LockInv, NEW p \in Procs, NEW r, Become(p, r), KeepsLock(r),
         lock' = lock, "root" \in dirs',
         r.pc \in HoldingPcs => Holds(p)
  PROVE  LockInv'
<1>1. proc' = [proc EXCEPT ![p] = r] /\ DOMAIN proc = Procs
  BY DEF Become, LockInv, LockFile
<1>2. LockFile'
  BY <1>1 DEF LockInv, LockFile
<1>3. \A q \in Procs : Holds(q)' => Holds(q)
  BY <1>1 DEF Holds
<1>4. LockExcludes'
  BY <1>3 DEF LockInv, LockExcludes
<1> QED
  BY <1>2, <1>4 DEF LockInv

\* The end of a request.
LEMMA LeaveStep ==
  ASSUME LockInv, NEW p \in Procs, Leave(p), lock' = lock, "root" \in dirs'
  PROVE  LockInv'
<1>1. KeepsLock(Idle) /\ Idle.pc \notin HoldingPcs
  BY DEF KeepsLock, Idle, HoldingPcs
<1> QED
  BY <1>1, OwnStep DEF Leave

\* A step of a process that holds the lock and goes on holding it.
LEMMA HoldingStep ==
  ASSUME LockInv, NEW p \in Procs, NEW r, Become(p, r), Holds(p),
         lock' = lock, "root" \in dirs',
         DOMAIN r = DOMAIN Idle, r.kind \in {proc[p].kind, "read"},
         r.at = proc[p].at, r.pc \in HoldingPcs \ {"removing"}
  PROVE  LockInv'
<1>1. KeepsLock(proc[p])
  BY DEF LockInv, LockFile
<1>2. KeepsLock(r)
  BY <1>1 DEF KeepsLock, Holds, HoldingPcs
<1> QED
  BY <1>2, OwnStep

\* One step of a request, action by action.
LEMMA ServeKeepsLock ==
  ASSUME LockInv, NEW p \in Procs, Serve(p)
  PROVE  LockInv'
<1> DEFINE me == proc[p]
<1>0. /\ "root" \in dirs /\ lock = 0 /\ 0 # None
      /\ KeepsLock(me) /\ DOMAIN me = DOMAIN Idle
  BY NullAssumption DEF LockInv, LockFile, KeepsLock
<1>1. CASE OpenLock(p)
  <2>1. lock' = lock /\ Become(p, [me EXCEPT !.pc = "lock", !.at = 0])
    BY <1>0, <1>1 DEF OpenLock
  <2>2. KeepsLock([me EXCEPT !.pc = "lock", !.at = 0])
    BY <1>0 DEF KeepsLock, Idle, HoldingPcs
  <2>3. [me EXCEPT !.pc = "lock", !.at = 0].pc \notin HoldingPcs
    BY <1>0 DEF Idle, HoldingPcs
  <2> QED
    BY <1>0, <1>1, <2>1, <2>2, <2>3, OwnStep DEF OpenLock
<1>2. CASE Acquire(p)
  <2>1. /\ proc' = [proc EXCEPT ![p] = [me EXCEPT !.pc = "read"]]
        /\ DOMAIN proc = Procs /\ lock' = lock /\ dirs' = dirs
    BY <1>2 DEF Acquire, Become, disk, LockInv, LockFile
  <2>2. me.at = 0
    BY <1>0, <1>2 DEF Acquire, KeepsLock
  <2>3. \A q \in Procs \ {p} : ~Holds(q)
    <3> SUFFICES ASSUME NEW q \in Procs \ {p}, Holds(q) PROVE FALSE
      OBVIOUS
    <3>1. proc[q].at = 0
      BY DEF LockInv, LockFile, KeepsLock, Holds
    <3> QED
      BY <1>2, <2>2, <3>1 DEF Acquire
  <2>4. KeepsLock([me EXCEPT !.pc = "read"])
    BY <1>0, <2>2 DEF KeepsLock, Idle
  <2>5. LockFile'
    BY <2>1, <2>4 DEF LockInv, LockFile
  <2>6. LockExcludes'
    BY <2>1, <2>3 DEF LockExcludes, Holds
  <2> QED
    BY <2>5, <2>6 DEF LockInv
<1>3. CASE OpenFails(p) \/ ReadFails(p) \/ DraftFails(p) \/ Reject(p)
  BY <1>0, <1>3, LeaveStep DEF OpenFails, ReadFails, DraftFails, Reject, disk
<1>4. CASE ReadManifest(p)
  <2>1. PICK pc \in {"draft", "plan"} :
          Become(p, [me EXCEPT !.pc = pc, !.man = manifest])
    BY <1>4 DEF ReadManifest
  <2> QED
    BY <1>0, <1>4, <2>1, HoldingStep DEF ReadManifest, disk, Idle, Holds, HoldingPcs
<1>5. CASE Recover(p)
  BY <1>0, <1>5, HoldingStep DEF Recover, disk, Idle, Holds, HoldingPcs
<1>6. CASE Recovered(p)
  <2>1. CASE me.kind = "read"
    BY <1>0, <1>6, <2>1, LeaveStep DEF Recovered, disk
  <2>2. CASE me.kind # "read"
    BY <1>0, <1>6, <2>2, HoldingStep DEF Recovered, disk, Idle, Holds, HoldingPcs
  <2> QED
    BY <2>1, <2>2
<1>7. ASSUME NEW todo, NEW ds, me.pc = "plan", Work(p, todo, ds)
      PROVE  LockInv'
  BY <1>0, <1>7, HoldingStep DEF Work, Idle, Holds, HoldingPcs
<1>8. CASE SaveDraft(p) \/ Upload(p) \/ Collect(p) \/ Import(p) \/ Update(p)
           \/ Discard(p)
  BY <1>7, <1>8 DEF SaveDraft, Upload, Collect, Import, Update, Discard
<1>9. CASE Revise(p)
  <2>1. PICK r : /\ Become(p, r) /\ KeepsLock(r) /\ r.pc \notin HoldingPcs
                 /\ UNCHANGED <<disk, library>>
    BY <1>0, <1>9 DEF Revise, KeepsLock, Idle, HoldingPcs
  <2> QED
    BY <1>0, <2>1, OwnStep DEF disk
<1>10. CASE Sync(p)
  <2>1. CASE \E todo : Work(p, todo, {})
    BY <1>7, <1>10, <2>1 DEF Sync
  <2>2. CASE /\ Become(p, [me EXCEPT !.pc = "draft", !.kind = "read"])
             /\ UNCHANGED <<disk, library>>
    BY <1>0, <1>10, <2>2, HoldingStep DEF Sync, disk, Idle, Holds, HoldingPcs
  <2> QED
    BY <1>10, <2>1, <2>2 DEF Sync
<1>11. CASE Remove(p)
  BY <1>0, <1>11 DEF Remove, KeepsLock
<1>12. CASE Write(p)
  BY <1>0, <1>12, HoldingStep
     DEF Write, Writing, WritingPcs, Idle, Holds, HoldingPcs
<1>13. CASE WriteFails(p)
  <2>1. Holds(p) /\ lock' = lock /\ dirs' = dirs /\ me.pc \in HoldingPcs \ {"removing"}
    BY <1>13 DEF WriteFails, Writing, WritingPcs, Holds, HoldingPcs
  <2>2. CASE Leave(p)
    BY <1>0, <2>1, <2>2, LeaveStep
  <2>3. CASE Become(p, [me EXCEPT !.todo = Tail(@)])
    BY <1>0, <2>1, <2>3, HoldingStep DEF Idle
  <2>4. CASE Become(p, [me EXCEPT !.pc = "undo"])
    BY <1>0, <2>1, <2>4, HoldingStep DEF Idle, HoldingPcs
  <2> QED
    BY <1>13, <2>2, <2>3, <2>4 DEF WriteFails
<1>14. CASE Undo(p)
  <2>1. Holds(p) /\ lock' = lock /\ dirs' = dirs
    BY <1>14 DEF Undo, UndoSave, UndoMaterials, disk, Holds, HoldingPcs
  <2>2. CASE Leave(p)
    BY <1>0, <2>1, <2>2, LeaveStep
  <2>3. ASSUME NEW pc \in {"rollback", "cleanup"}, NEW todo,
               Become(p, [me EXCEPT !.pc = pc, !.todo = todo])
        PROVE  LockInv'
    BY <1>0, <2>1, <2>3, HoldingStep DEF Idle, HoldingPcs
  <2> QED
    BY <1>14, <2>2, <2>3 DEF Undo, UndoSave, UndoMaterials
<1>15. CASE Finish(p)
  <2>1. Holds(p) /\ lock' = lock /\ dirs' = dirs
    BY <1>15 DEF Finish, WritingPcs, disk, Holds, HoldingPcs
  <2>2. CASE Leave(p)
    BY <1>0, <2>1, <2>2, LeaveStep
  <2>3. CASE Become(p, [Idle EXCEPT !.pc = "draft", !.at = me.at, !.man = me.man])
    BY <1>0, <2>1, <2>3, HoldingStep DEF Idle, HoldingPcs
  <2> QED
    BY <1>15, <2>2, <2>3 DEF Finish
<1>16. CASE RemoveEntry(p) \/ RemoveDirectory(p) \/ RemoveFails(p)
  BY <1>0, <1>16 DEF RemoveEntry, RemoveDirectory, RemoveFails, KeepsLock
<1> QED
  BY <1>1, <1>2, <1>3, <1>4, <1>5, <1>6, <1>8, <1>9, <1>10, <1>11, <1>12,
     <1>13, <1>14, <1>15, <1>16 DEF Serve

LEMMA LockNext ==
  ASSUME "remove" \notin Kinds
  PROVE  LockInv /\ [Next]_vars => LockInv'
<1> SUFFICES ASSUME LockInv, [Next]_vars PROVE LockInv'
  OBVIOUS
<1>1. ASSUME NEW p \in Procs, NEW kind \in AllKinds, Request(p, kind)
      PROVE  LockInv'
  <2>1. PICK r : /\ Become(p, r) /\ KeepsLock(r) /\ r.pc \notin HoldingPcs
                 /\ UNCHANGED <<disk, library>>
    BY <1>1 DEF Request, KeepsLock, Idle, HoldingPcs
  <2> QED
    BY <2>1, OwnStep DEF disk, LockInv, LockFile
<1>2. ASSUME NEW p \in Procs, Crash(p) PROVE LockInv'
  BY <1>2, LeaveStep DEF Crash, disk, LockInv, LockFile
<1>3. CASE LibraryChange \/ UNCHANGED vars
  BY <1>3 DEF LibraryChange, vars, disk, LockInv, LockFile, LockExcludes, Holds
<1> QED
  BY <1>1, <1>2, <1>3, ServeKeepsLock DEF Next

\* No two requests of a workspace are past its lock at a time, however many
\* processes share the directory, as long as nobody removes the workspace.
THEOREM LockHolds ==
  ASSUME "remove" \notin Kinds
  PROVE  Spec => []LockExcludes
<1>1. LockInv => LockExcludes
  BY DEF LockInv
<1> QED
  BY LockInit, LockNext, <1>1, PTL DEF Spec
-----------------------------------------------------------------------------
(* What the disk and each request's plan look like between two writes *)

\* One write of a plan.
Places == [place : {"pending", "article", "manifest", "file"}, id : Nat,
           value : Documents \cup Saved \cup Manifests \cup Origins \cup {None}]

\* The numbers given so far are below the next one.
Numbered(m) == \A id \in DOMAIN m.sources : id < m.next

Clean ==
  /\ manifest \in Manifests
  /\ Numbered(manifest)
  /\ article \in Documents \cup {None}
  /\ pending \in Saved \cup {None}
  /\ files \in [Ids -> Origins \cup {None}]
  /\ Readable

\* What is left of a recovery puts the manifest's document back, and the record
\* goes last.
DocumentOf(m) == IF m.draft = None THEN None ELSE m.draft.doc

RecoveryTodo(T) ==
  \/ T = <<>>
  \/ T = <<Put("pending", None)>> /\ DraftReadable(manifest)
  \/ /\ T = <<Put("article", DocumentOf(manifest)), Put("pending", None)>>
     /\ pending # None

\* What is left of a save after each of its writes.
SavedManifest(doc) ==
  [manifest EXCEPT !.draft = [version |-> DraftVersion(manifest) + 1, doc |-> doc]]
SavedRecord == [previous |-> DocumentOf(manifest)]

SaveTodo(T) ==
  \/ T = <<>>
  \/ T = <<Put("pending", None)>> /\ DraftReadable(manifest)
  \/ \E doc \in Documents :
       \/ /\ T = <<Put("pending", SavedRecord), Put("article", doc),
                   Put("manifest", SavedManifest(doc)), Put("pending", None)>>
          /\ DraftReadable(manifest)
       \/ /\ T = <<Put("article", doc),
                   Put("manifest", SavedManifest(doc)), Put("pending", None)>>
          /\ pending = SavedRecord
       \/ /\ T = <<Put("manifest", SavedManifest(doc)), Put("pending", None)>>
          /\ pending = SavedRecord
          /\ article = doc

\* A change of materials: a file the manifest on disk claims is not touched
\* before a manifest that does not claim it, and a manifest is not written
\* before the files it claims.
FileStep(T, i) ==
  /\ T[i].place = "file"
  /\ T[i].id \in Ids
  /\ T[i].value \in Origins \cup {None}
  /\ (\A j \in 1..(i - 1) : T[j].place = "file") => T[i].id \notin Ready(manifest)

ManifestStep(T, i) ==
  /\ T[i].place = "manifest"
  /\ T[i].value \in Manifests
  /\ Numbered(T[i].value)
  /\ T[i].value.draft = manifest.draft
  /\ \A j \in 1..Len(T) : j # i => T[j].place = "file"
  /\ \A j \in (i + 1)..Len(T) : T[j].id \notin Ready(T[i].value)
  /\ \A id \in Ready(T[i].value) :
       /\ \A j \in 1..(i - 1) :
            T[j].id = id => T[j].value = T[i].value.sources[id].origin
       /\ \/ files[id] = T[i].value.sources[id].origin
          \/ \E j \in 1..(i - 1) : T[j].id = id

MaterialTodo(T) == \A i \in 1..Len(T) : FileStep(T, i) \/ ManifestStep(T, i)

LEMMA RecoveryWrite ==
  ASSUME Clean, NEW T, T # <<>>, RecoveryTodo(T), Apply(Head(T))
  PROVE  Clean' /\ RecoveryTodo(Tail(T))'
<1>1. manifest' = manifest /\ files' = files
  BY DEF RecoveryTodo, Apply, Put
<1>2. CASE T = <<Put("pending", None)>> /\ DraftReadable(manifest)
  <2>1. pending' = None /\ article' = article /\ Tail(T) = <<>>
    BY <1>2 DEF Apply, Put
  <2> QED
    BY <1>1, <1>2, <2>1 DEF Clean, RecoveryTodo, Readable, FilesPresent,
       Recoverable, DraftReadable
<1>3. CASE /\ T = <<Put("article", DocumentOf(manifest)), Put("pending", None)>>
           /\ pending # None
  <2>1. /\ pending' = pending /\ article' = DocumentOf(manifest)
        /\ Tail(T) = <<Put("pending", None)>>
    BY <1>3 DEF Apply, Put
  <2>2. DraftReadable(manifest)'
    BY <1>1, <2>1 DEF DraftReadable, DocumentOf
  <2>3. DocumentOf(manifest) \in Documents \cup {None}
    BY DEF Clean, Manifests, Drafts, DocumentOf
  <2> QED
    BY <1>1, <2>1, <2>2, <2>3 DEF Clean, RecoveryTodo, Readable, FilesPresent,
       Recoverable, DraftReadable
<1> QED
  BY <1>2, <1>3 DEF RecoveryTodo

LEMMA SaveWrite ==
  ASSUME Clean, NEW T, T # <<>>, SaveTodo(T), Apply(Head(T))
  PROVE  Clean' /\ SaveTodo(Tail(T))'
<1>1. files' = files
  BY DEF SaveTodo, Apply, Put
<1>2. CASE T = <<Put("pending", None)>> /\ DraftReadable(manifest)
  <2>1. pending' = None /\ article' = article /\ Tail(T) = <<>> /\ manifest' = manifest
    BY <1>2 DEF Apply, Put
  <2> QED
    BY <1>1, <1>2, <2>1 DEF Clean, SaveTodo, Readable, FilesPresent,
       Recoverable, DraftReadable
<1>3. ASSUME NEW doc \in Documents,
             T = <<Put("pending", SavedRecord), Put("article", doc),
                   Put("manifest", SavedManifest(doc)), Put("pending", None)>>,
             DraftReadable(manifest)
      PROVE  Clean' /\ SaveTodo(Tail(T))'
  <2>1. /\ pending' = SavedRecord /\ article' = article /\ manifest' = manifest
        /\ Tail(T) = <<Put("article", doc),
                       Put("manifest", SavedManifest(doc)), Put("pending", None)>>
    BY <1>3 DEF Apply, Put
  <2>2. SavedRecord \in Saved
    BY DEF Clean, Manifests, Drafts, DocumentOf, SavedRecord, Saved
  <2>3. SavedRecord' = SavedRecord /\ SavedManifest(doc)' = SavedManifest(doc)
    BY <2>1 DEF SavedRecord, SavedManifest, DocumentOf, DraftVersion
  <2>4. SaveTodo(Tail(T))'
    BY <2>1, <2>3 DEF SaveTodo
  <2>5. Readable'
    BY <1>1, <1>3, <2>1, <2>2, NullAssumption DEF Readable, Clean, FilesPresent,
       Recoverable, DraftReadable, Ready
  <2> QED
    BY <1>1, <2>1, <2>2, <2>4, <2>5 DEF Clean
<1>4. ASSUME NEW doc \in Documents,
             T = <<Put("article", doc), Put("manifest", SavedManifest(doc)),
                   Put("pending", None)>>,
             pending = SavedRecord
      PROVE  Clean' /\ SaveTodo(Tail(T))'
  <2>1. /\ pending' = SavedRecord /\ article' = doc /\ manifest' = manifest
        /\ Tail(T) = <<Put("manifest", SavedManifest(doc)), Put("pending", None)>>
    BY <1>4 DEF Apply, Put
  <2>2. SavedRecord \in Saved
    BY DEF Clean, Manifests, Drafts, DocumentOf, SavedRecord, Saved
  <2>3. SavedRecord' = SavedRecord /\ SavedManifest(doc)' = SavedManifest(doc)
    BY <2>1 DEF SavedRecord, SavedManifest, DocumentOf, DraftVersion
  <2>4. SaveTodo(Tail(T))'
    BY <2>1, <2>3 DEF SaveTodo
  <2>5. Readable'
    BY <1>1, <2>1, <2>2, NullAssumption DEF Readable, Clean, FilesPresent,
       Recoverable, DraftReadable, Ready, SavedRecord, DocumentOf
  <2> QED
    BY <1>1, <2>1, <2>2, <2>4, <2>5 DEF Clean
<1>5. ASSUME NEW doc \in Documents,
             T = <<Put("manifest", SavedManifest(doc)), Put("pending", None)>>,
             pending = SavedRecord, article = doc
      PROVE  Clean' /\ SaveTodo(Tail(T))'
  <2>1. /\ pending' = pending /\ article' = doc /\ manifest' = SavedManifest(doc)
        /\ Tail(T) = <<Put("pending", None)>>
    BY <1>5 DEF Apply, Put
  <2>2. SavedManifest(doc) \in Manifests
    BY DEF Clean, SavedManifest, Manifests, Drafts, DraftVersion
  <2>3. /\ SavedManifest(doc).sources = manifest.sources
        /\ SavedManifest(doc).next = manifest.next
        /\ SavedManifest(doc).draft = [version |-> DraftVersion(manifest) + 1,
                                       doc |-> doc]
    BY DEF Clean, SavedManifest, Manifests
  <2>4. [version |-> DraftVersion(manifest) + 1, doc |-> doc] # None
    <3>1. DraftVersion(manifest) \in Nat
      BY DEF Clean, Manifests, Drafts, DraftVersion
    <3> QED
      BY <3>1, NullAssumption DEF Drafts
  <2>5. DraftReadable(manifest)'
    BY <2>1, <2>3, <2>4 DEF DraftReadable
  <2>6. Readable'
    BY <1>1, <2>1, <2>2, <2>3, <2>5, NullAssumption DEF Clean, Readable, FilesPresent,
       Recoverable, DraftReadable, Ready
  <2>7. Numbered(manifest)'
    BY <2>1, <2>3 DEF Clean, Numbered
  <2> QED
    BY <1>1, <2>1, <2>2, <2>5, <2>6, <2>7 DEF Clean, SaveTodo
<1> QED
  BY <1>2, <1>3, <1>4, <1>5 DEF SaveTodo

\* Facts about the rest of a plan, used by the next two lemmas.
LEMMA TailFacts ==
  ASSUME NEW T \in Seq(Places), T # <<>>
  PROVE  /\ Len(T) \in Nat /\ Len(T) >= 1 /\ Head(T) = T[1]
         /\ Tail(T) \in Seq(Places) /\ Len(Tail(T)) = Len(T) - 1
         /\ \A i \in 1..Len(Tail(T)) : i + 1 \in 1..Len(T) /\ Tail(T)[i] = T[i + 1]
OBVIOUS

\* A file step or the rest of the plan stays one when an earlier file step is
\* dropped and the manifest on disk is the same.
LEMMA FileStepShifts ==
  ASSUME NEW T \in Seq(Places), T # <<>>, T[1].place = "file", manifest' = manifest,
         NEW i \in 1..Len(Tail(T)), FileStep(T, i + 1)
  PROVE  FileStep(Tail(T), i)'
<1>1. (\A j \in 1..(i - 1) : Tail(T)[j].place = "file")
        => \A j \in 1..i : T[j].place = "file"
  <2> SUFFICES ASSUME \A j \in 1..(i - 1) : Tail(T)[j].place = "file",
                      NEW j \in 1..i, j # 1
               PROVE  T[j].place = "file"
    OBVIOUS
  <2>1. j - 1 \in 1..(i - 1) /\ j - 1 \in 1..Len(Tail(T)) /\ (j - 1) + 1 = j
    BY TailFacts
  <2>2. Tail(T)[j - 1] = T[j]
    BY <2>1, TailFacts
  <2> QED
    BY <2>1, <2>2
<1>2. Tail(T)[i] = T[i + 1] /\ (i + 1) - 1 = i
  BY TailFacts
<1> QED
  BY <1>1, <1>2 DEF FileStep, Ready

\* The same of the manifest's step, when the dropped one left the files the
\* manifest claims as it found them or gave them their content.
LEMMA ManifestStepShifts ==
  ASSUME NEW T \in Seq(Places), T # <<>>, T[1].place = "file", manifest' = manifest,
         NEW i \in 1..Len(Tail(T)), ManifestStep(T, i + 1),
         \A id \in Ready(T[i + 1].value) :
           \/ T[1].id # id /\ files'[id] = files[id]
           \/ T[1].id = id /\ files'[id] = T[1].value
  PROVE  ManifestStep(Tail(T), i)'
<1> DEFINE m == T[i + 1].value
           Shifted(j) == Tail(T)[j] = T[j + 1]
<1>1. /\ i \in Nat /\ i >= 1 /\ i + 1 \in 1..Len(T) /\ Len(T) \in Nat
      /\ Len(Tail(T)) = Len(T) - 1 /\ (i + 1) - 1 = i
      /\ \A j \in 1..Len(Tail(T)) : Shifted(j)
  BY TailFacts
<1>2. \A j \in 1..Len(Tail(T)) : j # i => Tail(T)[j].place = "file"
  BY <1>1 DEF ManifestStep
<1>3. \A j \in (i + 1)..Len(Tail(T)) : Tail(T)[j].id \notin Ready(m)
  <2> SUFFICES ASSUME NEW j \in (i + 1)..Len(Tail(T)) PROVE Tail(T)[j].id \notin Ready(m)
    OBVIOUS
  <2>1. Shifted(j) /\ j + 1 \in ((i + 1) + 1)..Len(T)
    BY <1>1
  <2> QED
    BY <2>1 DEF ManifestStep
<1>4. ASSUME NEW id \in Ready(m)
      PROVE  /\ \A j \in 1..(i - 1) :
                  Tail(T)[j].id = id => Tail(T)[j].value = m.sources[id].origin
             /\ \/ files'[id] = m.sources[id].origin
                \/ \E j \in 1..(i - 1) : Tail(T)[j].id = id
  <2>1. /\ \A j \in 1..i : T[j].id = id => T[j].value = m.sources[id].origin
        /\ files[id] = m.sources[id].origin \/ \E j \in 1..i : T[j].id = id
    BY <1>1 DEF ManifestStep
  <2>2. \A j \in 1..(i - 1) : Shifted(j) /\ j + 1 \in 1..i
    BY <1>1
  <2>3. CASE T[1].id = id
    <3>1. 1 \in 1..i
      BY <1>1
    <3> QED
      BY <2>1, <2>2, <2>3, <3>1
  <2>4. CASE T[1].id # id
    <3>1. ASSUME NEW j \in 1..i, T[j].id = id
          PROVE  \E k \in 1..(i - 1) : Tail(T)[k].id = id
      <4>1. j - 1 \in 1..(i - 1) /\ (j - 1) + 1 = j
        BY <1>1, <2>4, <3>1
      <4> QED
        BY <2>2, <3>1, <4>1
    <3> QED
      BY <2>1, <2>2, <2>4, <3>1
  <2> QED
    BY <2>3, <2>4
<1>5. Tail(T)[i] = T[i + 1]
  BY <1>1
<1> QED
  BY <1>1, <1>2, <1>3, <1>4, <1>5 DEF ManifestStep, Ready

LEMMA MaterialWrite ==
  ASSUME Clean, NEW T \in Seq(Places), T # <<>>, MaterialTodo(T), Apply(Head(T))
  PROVE  Clean' /\ MaterialTodo(Tail(T))'
<1>1. 1 \in 1..Len(T) /\ Head(T) = T[1] /\ Len(Tail(T)) = Len(T) - 1
  BY TailFacts
<1>2. CASE FileStep(T, 1)
  <2>1. /\ manifest' = manifest /\ article' = article /\ pending' = pending
        /\ files' = [files EXCEPT ![T[1].id] = T[1].value]
    BY <1>1, <1>2 DEF Apply, FileStep
  <2>2. T[1].id \notin Ready(manifest)
    BY <1>2 DEF FileStep
  <2>3. files' \in [Ids -> Origins \cup {None}]
    BY <1>2, <2>1 DEF Clean, FileStep
  <2>4. FilesPresent(manifest)'
    <3> SUFFICES ASSUME NEW id \in Ready(manifest)
                 PROVE  files'[id] = manifest.sources[id].origin
      BY <2>1 DEF FilesPresent, Ready
    <3>1. files[id] = manifest.sources[id].origin
      BY NullAssumption DEF Clean, Readable, FilesPresent
    <3> QED
      BY <2>1, <2>2, <3>1 DEF Clean
  <2>5. Clean'
    BY <2>1, <2>3, <2>4 DEF Clean, Readable, Recoverable, DraftReadable, FilesPresent
  <2>6. ASSUME NEW i \in 1..Len(Tail(T))
        PROVE  FileStep(Tail(T), i)' \/ ManifestStep(Tail(T), i)'
    <3>1. i + 1 \in 1..Len(T)
      BY TailFacts
    <3>2. CASE FileStep(T, i + 1)
      BY <1>2, <2>1, <3>2, FileStepShifts DEF FileStep
    <3>3. CASE ManifestStep(T, i + 1)
      <4>1. \A id \in Ready(T[i + 1].value) :
              \/ T[1].id # id /\ files'[id] = files[id]
              \/ T[1].id = id /\ files'[id] = T[1].value
        BY <1>2, <2>1 DEF Clean, FileStep
      <4>2. ManifestStep(Tail(T), i)'
        BY <1>2, <2>1, <3>3, <4>1, ManifestStepShifts DEF FileStep
      <4> QED
        BY <4>2
    <3> QED
      BY <3>1, <3>2, <3>3 DEF MaterialTodo
  <2> QED
    BY <2>5, <2>6 DEF MaterialTodo
<1>3. CASE ManifestStep(T, 1)
  <2>1. /\ manifest' = T[1].value /\ article' = article /\ pending' = pending
        /\ files' = files
    BY <1>1, <1>3 DEF Apply, ManifestStep
  <2>2. FilesPresent(manifest)'
    BY <1>3, <2>1 DEF ManifestStep, FilesPresent, Ready
  <2>3. manifest'.draft = manifest.draft
    BY <1>3, <2>1 DEF ManifestStep
  <2>4. Readable'
    BY <2>1, <2>2, <2>3, NullAssumption DEF Clean, Readable, Recoverable, DraftReadable
  <2>5. Clean'
    BY <1>3, <2>1, <2>4 DEF Clean, ManifestStep, Numbered
  <2>6. ASSUME NEW i \in 1..Len(Tail(T)) PROVE FileStep(Tail(T), i)'
    <3>1. i + 1 \in 2..Len(T) /\ Tail(T)[i] = T[i + 1]
      BY <1>1, TailFacts
    <3>2. T[i + 1].place = "file" /\ T[i + 1].id \notin Ready(T[1].value)
      BY <1>3, <3>1 DEF ManifestStep
    <3>3. FileStep(T, i + 1)
      BY <3>1, <3>2 DEF MaterialTodo, ManifestStep
    <3> QED
      BY <2>1, <3>1, <3>2, <3>3 DEF FileStep, Ready
  <2> QED
    BY <2>5, <2>6 DEF MaterialTodo
<1> QED
  BY <1>1, <1>2, <1>3 DEF MaterialTodo

\* A removal that fails is passed over.
LEMMA MaterialSkip ==
  ASSUME Clean, NEW T \in Seq(Places), T # <<>>, MaterialTodo(T),
         Head(T).value = None, UNCHANGED <<pending, article, manifest, files>>
  PROVE  MaterialTodo(Tail(T))'
<1>1. 1 \in 1..Len(T) /\ Head(T) = T[1]
  BY TailFacts
<1>2. ~ManifestStep(T, 1)
  BY <1>1, NullAssumption DEF ManifestStep
<1>3. FileStep(T, 1)
  BY <1>1, <1>2 DEF MaterialTodo
<1> SUFFICES ASSUME NEW i \in 1..Len(Tail(T))
             PROVE  FileStep(Tail(T), i)' \/ ManifestStep(Tail(T), i)'
  BY DEF MaterialTodo
<1>4. i + 1 \in 1..Len(T) /\ i >= 1
  BY TailFacts
<1>5. CASE FileStep(T, i + 1)
  BY <1>3, <1>5, FileStepShifts DEF FileStep
<1>6. CASE ManifestStep(T, i + 1)
  <2>1. \A id \in Ready(T[i + 1].value) : T[1].id # id
    <3> SUFFICES ASSUME NEW id \in Ready(T[i + 1].value), T[1].id = id PROVE FALSE
      OBVIOUS
    <3>1. T[1].value = T[i + 1].value.sources[id].origin
      BY <1>4, <1>6 DEF ManifestStep
    <3>2. T[i + 1].value.sources[id].origin \in Origins
      BY <1>6 DEF ManifestStep, Manifests, Sources, Ready
    <3> QED
      BY <1>1, <3>1, <3>2, NullAssumption
  <2>2. ManifestStep(Tail(T), i)'
    BY <1>3, <1>6, <2>1, ManifestStepShifts DEF FileStep
  <2> QED
    BY <2>2
<1> QED
  BY <1>4, <1>5, <1>6 DEF MaterialTodo

LEMMA SaveSkip ==
  ASSUME Clean, NEW T, T # <<>>, SaveTodo(T), Tolerated(Head(T)),
         UNCHANGED <<pending, article, manifest, files>>
  PROVE  SaveTodo(Tail(T))'
<1>1. SavedRecord # None
  BY NullAssumption DEF Clean, Manifests, Drafts, DocumentOf, SavedRecord, Saved
<1>2. ASSUME NEW doc \in Documents PROVE SavedManifest(doc) # None
  <2>1. SavedManifest(doc) \in Manifests
    BY DEF Clean, SavedManifest, Manifests, Drafts, DraftVersion
  <2> QED
    BY <2>1, NullAssumption
<1>3. T = <<Put("pending", None)>>
  BY <1>1, <1>2 DEF SaveTodo, Tolerated, Put
<1> QED
  BY <1>3 DEF SaveTodo

LEMMA RecoverySkip ==
  ASSUME NEW T, T # <<>>, RecoveryTodo(T), Tolerated(Head(T))
  PROVE  RecoveryTodo(Tail(T))'
<1>1. T = <<Put("pending", None)>>
  BY DEF RecoveryTodo, Tolerated, Put
<1> QED
  BY <1>1 DEF RecoveryTodo

-----------------------------------------------------------------------------
(* What each request knows while it holds the lock *)

ProcType(r) ==
  /\ DOMAIN r = DOMAIN Idle
  /\ r.doc \in Documents \cup {None}
  /\ r.made \subseteq Ids
  /\ r.seen \subseteq Keys
  /\ r.todo \in Seq(Places)

\* A sync writes one manifest, and goes on with the one it has written.
SyncTodo(r) ==
  \/ r.todo = <<>> /\ r.man = manifest
  \/ \E v \in Manifests : r.todo = <<Put("manifest", v)>>

Believes(r) ==
  /\ r.pc \in {"draft", "recover", "plan"} => r.man = manifest
  /\ r.pc = "work" /\ r.kind = "sync" => SyncTodo(r)
  /\ r.pc = "plan" /\ r.kind = "save" => DraftReadable(manifest)
  /\ r.pc \in {"recover", "rollback"} => RecoveryTodo(r.todo)
  /\ r.pc = "work" /\ r.kind = "save" => SaveTodo(r.todo)
  /\ r.pc = "cleanup" \/ (r.pc = "work" /\ r.kind # "save") => MaterialTodo(r.todo)

DiskInv ==
  /\ Clean
  /\ library \subseteq Keys
  /\ \A p \in Procs : ProcType(proc[p]) /\ Believes(proc[p])

\* Readability is not inductive: it rests on the lock and on what is left of
\* the plan of its holder.
ReadableInv == LockInv /\ DiskInv

\* What a request knows survives while the disk is the same.
LEMMA SameDisk ==
  ASSUME UNCHANGED <<manifest, article, pending, files>>
  PROVE  /\ Clean => Clean'
         /\ \A r : Believes(r) => Believes(r)'
<1>1. \A m : Ready(m)' = Ready(m)
  BY DEF Ready
<1>2. Clean => Clean'
  BY DEF Clean, Readable, FilesPresent, Recoverable, DraftReadable, Numbered, Ready
<1>3. \A T : RecoveryTodo(T) => RecoveryTodo(T)'
  BY DEF RecoveryTodo, DraftReadable, DocumentOf
<1>4. \A T : SaveTodo(T) => SaveTodo(T)'
  BY DEF SaveTodo, DraftReadable, DocumentOf, SavedManifest, SavedRecord, DraftVersion
<1>5. \A T : MaterialTodo(T) => MaterialTodo(T)'
  BY DEF MaterialTodo, FileStep, ManifestStep, Ready, Numbered
<1> QED
  BY <1>2, <1>3, <1>4, <1>5 DEF Believes, DraftReadable, SyncTodo

\* A step of one process: the others either see the same disk or are not past
\* the lock.
LEMMA DiskStep ==
  ASSUME ReadableInv, NEW p \in Procs, NEW r, Become(p, r), ProcType(r),
         library' = library,
         Clean', Believes(r)',
         Holds(p) \/ UNCHANGED <<manifest, article, pending, files>>
  PROVE  DiskInv'
<1>1. proc' = [proc EXCEPT ![p] = r] /\ DOMAIN proc = Procs
  BY DEF Become, ReadableInv, LockInv, LockFile
<1>2. ASSUME NEW q \in Procs, q # p, NEW s, s = proc[q]
      PROVE  ProcType(s) /\ Believes(s)'
  <2>1. ProcType(s) /\ Believes(s)
    BY <1>2 DEF ReadableInv, DiskInv
  <2>2. CASE Holds(p)
    <3>1. s.pc \notin HoldingPcs
      BY <1>2, <2>2 DEF ReadableInv, LockInv, LockExcludes, Holds
    <3> QED
      BY <2>1, <3>1 DEF Believes, HoldingPcs
  <2>3. CASE UNCHANGED <<manifest, article, pending, files>>
    BY <2>1, <2>3, SameDisk
  <2> QED
    BY <2>2, <2>3
<1>3. ASSUME NEW q \in Procs PROVE ProcType(proc[q])' /\ Believes(proc[q])'
  <2>1. PICK s : s = IF q = p THEN r ELSE proc[q]
    OBVIOUS
  <2>2. proc'[q] = s
    BY <1>1, <2>1
  <2>3. ProcType(s) /\ Believes(s)'
    BY <1>2, <2>1
  <2> QED
    BY <2>2, <2>3 DEF ProcType, Believes
<1> QED
  BY <1>3 DEF DiskInv, ReadableInv

\* A step that leaves the disk alone.
LEMMA QuietStep ==
  ASSUME ReadableInv, NEW p \in Procs, NEW r, Become(p, r), ProcType(r),
         library' = library,
         Believes(r), UNCHANGED <<manifest, article, pending, files>>
  PROVE  DiskInv'
<1>1. Clean' /\ Believes(r)'
  BY SameDisk DEF ReadableInv, DiskInv
<1> QED
  BY <1>1, DiskStep

LEMMA IdleFacts == ProcType(Idle) /\ Believes(Idle)
<1>1. <<>> \in Seq(Places)
  OBVIOUS
<1> QED
  BY <1>1 DEF ProcType, Believes, Idle

\* The end of a request, on whatever disk its last write left.
LEMMA DiskLeave ==
  ASSUME ReadableInv, NEW p \in Procs, Leave(p), Clean', library' = library,
         Holds(p) \/ UNCHANGED <<manifest, article, pending, files>>
  PROVE  DiskInv'
<1>1. ProcType(Idle)
  BY IdleFacts
<1>2. Believes(Idle)'
  BY DEF Believes, Idle
<1>3. PICK r : r = Idle
  OBVIOUS
<1> QED
  BY <1>1, <1>2, <1>3, DiskStep DEF Leave, Believes, Idle

LEMMA QuietLeave ==
  ASSUME ReadableInv, NEW p \in Procs, Leave(p), library' = library,
         UNCHANGED <<manifest, article, pending, files>>
  PROVE  DiskInv'
<1>1. Clean'
  BY SameDisk DEF ReadableInv, DiskInv
<1> QED
  BY <1>1, DiskLeave

-----------------------------------------------------------------------------
(* The plans of the requests *)

LEMMA ManifestFacts ==
  ASSUME NEW m \in Manifests
  PROVE  /\ MaxMaterial \in Nat /\ m.version \in Nat
         /\ m.next \in Nat /\ 1 <= m.next /\ m.next <= MaxMaterial + 1
         /\ DOMAIN m.sources \subseteq Ids
         /\ m.sources \in [DOMAIN m.sources -> Sources]
         /\ m.draft \in Drafts \cup {None}
         /\ DraftVersion(m) \in Nat
         /\ DocumentOf(m) \in Documents \cup {None}
<1>1. PICK S \in SUBSET Ids : m.sources \in [S -> Sources]
  BY DEF Manifests
<1> QED
  BY <1>1, WorkspaceAssumption DEF Manifests, DraftVersion, DocumentOf, Drafts

LEMMA ChangedFacts ==
  ASSUME NEW m \in Manifests, NEW S \in SUBSET Ids, NEW f \in [S -> Sources],
         NEW n \in 1..(MaxMaterial + 1)
  PROVE  /\ Changed(m, f, n) \in Manifests
         /\ Changed(m, f, n).sources = f
         /\ Changed(m, f, n).next = n
         /\ Changed(m, f, n).draft = m.draft
<1>1. f \in UNION {[T -> Sources] : T \in SUBSET Ids}
  OBVIOUS
<1>2. m.version + 1 \in Nat
  BY DEF Manifests
<1> QED
  BY <1>1, <1>2 DEF Changed, Manifests

LEMMA PutFacts ==
  /\ Put("pending", None) \in Places
  /\ \A d \in Documents \cup {None} : Put("article", d) \in Places
  /\ \A s \in Saved : Put("pending", s) \in Places
  /\ \A m \in Manifests : Put("manifest", m) \in Places
  /\ \A id \in Ids, o \in Origins \cup {None} : PutFile(id, o) \in Places
BY DEF Put, PutFile, Places, Ids

LEMMA RecoveryPlan ==
  ASSUME Clean
  PROVE  RecoveryTodo(Recovery(manifest)) /\ Recovery(manifest) \in Seq(Places)
<1>1. DocumentOf(manifest) \in Documents \cup {None}
  BY ManifestFacts DEF Clean
<1>2. \/ Recovery(manifest) = <<>>
      \/ Recovery(manifest) = <<Put("pending", None)>> /\ DraftReadable(manifest)
      \/ /\ Recovery(manifest) = <<Put("article", DocumentOf(manifest)),
                                   Put("pending", None)>>
         /\ pending # None
  <2>1. Recoverable(manifest)
    BY NullAssumption DEF Clean, Readable
  <2> QED
    BY <2>1 DEF Recovery, Recoverable, DocumentOf, DraftReadable
<1>3. Recovery(manifest) \in Seq(Places)
  <2>1. /\ <<>> \in Seq(Places) /\ <<Put("pending", None)>> \in Seq(Places)
        /\ <<Put("article", DocumentOf(manifest)), Put("pending", None)>> \in Seq(Places)
    BY <1>1, PutFacts
  <2> QED
    BY <1>2, <2>1
<1> QED
  BY <1>2, <1>3 DEF RecoveryTodo

LEMMA SavePlanSafe ==
  ASSUME Clean, NEW doc \in Documents, DraftReadable(manifest)
  PROVE  SaveTodo(SavePlan(manifest, doc)) /\ SavePlan(manifest, doc) \in Seq(Places)
<1>1. SavedRecord \in Saved
  BY ManifestFacts DEF Clean, SavedRecord, Saved
<1>2. SavedManifest(doc) \in Manifests
  BY ManifestFacts DEF Clean, SavedManifest, Manifests, Drafts
<1>3. SavePlan(manifest, doc) =
        <<Put("pending", SavedRecord), Put("article", doc),
          Put("manifest", SavedManifest(doc)), Put("pending", None)>>
  BY DEF SavePlan, SavedRecord, SavedManifest, DocumentOf
<1>4. SavePlan(manifest, doc) \in Seq(Places)
  BY <1>1, <1>2, <1>3, PutFacts
<1> QED
  BY <1>3, <1>4 DEF SaveTodo

\* The conditions on the manifest a change of materials writes.
Claims(v, o, S) ==
  /\ v \in Manifests
  /\ Numbered(v)
  /\ v.draft = manifest.draft
  /\ \A id \in Ready(v) :
       v.sources[id].origin = IF id \in S THEN o[id] ELSE files[id]

LEMMA OneManifest ==
  ASSUME Clean, NEW v, Claims(v, <<>>, {})
  PROVE  /\ MaterialTodo(<<Put("manifest", v)>>)
         /\ <<Put("manifest", v)>> \in Seq(Places)
<1> DEFINE T == <<Put("manifest", v)>>
<1>1. T \in Seq(Places) /\ Len(T) = 1 /\ T[1].place = "manifest" /\ T[1].value = v
  BY PutFacts DEF Claims, Put
<1>2. ManifestStep(T, 1)
  BY <1>1 DEF Claims, ManifestStep
<1> QED
  BY <1>1, <1>2 DEF MaterialTodo

LEMMA ManifestThenFile ==
  ASSUME Clean, NEW v, Claims(v, <<>>, {}), NEW id \in Ids, id \notin Ready(v)
  PROVE  /\ MaterialTodo(<<Put("manifest", v), PutFile(id, None)>>)
         /\ <<Put("manifest", v), PutFile(id, None)>> \in Seq(Places)
<1> DEFINE T == <<Put("manifest", v), PutFile(id, None)>>
<1>1. T \in Seq(Places)
  BY PutFacts DEF Claims
<1>2. /\ Len(T) = 2 /\ T[1].place = "manifest" /\ T[1].value = v
      /\ T[2].place = "file" /\ T[2].id = id /\ T[2].value = None
  BY DEF Put, PutFile
<1>3. ManifestStep(T, 1)
  BY <1>2 DEF Claims, ManifestStep
<1>4. FileStep(T, 2)
  BY <1>2 DEF FileStep
<1>5. 1..Len(T) = {1, 2}
  BY <1>2
<1> QED
  BY <1>1, <1>3, <1>4, <1>5 DEF MaterialTodo

\* Files of numbers n .. n+c-1 that the manifest on disk does not claim, then
\* the manifest that claims them.
LEMMA FilesThenManifest ==
  ASSUME Clean, NEW n \in Nat \ {0}, NEW c \in Nat, n + c - 1 <= MaxMaterial,
         NEW o \in [n..(n + c - 1) -> Origins],
         \A id \in n..(n + c - 1) : id \notin Ready(manifest),
         NEW v, Claims(v, o, n..(n + c - 1)),
         NEW T, T = [i \in 1..c |-> PutFile(n + i - 1, o[n + i - 1])]
                      \o <<Put("manifest", v)>>
  PROVE  MaterialTodo(T) /\ T \in Seq(Places)
<1> DEFINE F == [i \in 1..c |-> PutFile(n + i - 1, o[n + i - 1])]
<1>0. \A i \in 1..c : n + i - 1 \in n..(n + c - 1) /\ n + i - 1 \in Ids
  BY WorkspaceAssumption DEF Ids
<1>1. F \in Seq(Places) /\ Len(F) = c
  <2>1. \A i \in 1..c : F[i] \in Places
    BY <1>0, PutFacts
  <2> QED
    BY <2>1, IsASeq
<1>2. <<Put("manifest", v)>> \in Seq(Places)
  BY PutFacts DEF Claims
<1>3. /\ T \in Seq(Places) /\ Len(T) = c + 1
      /\ T[c + 1] = Put("manifest", v)
      /\ \A i \in 1..c : T[i] = F[i]
  BY <1>1, <1>2
<1>4. \A i \in 1..c : /\ T[i].place = "file" /\ T[i].id = n + i - 1
                      /\ T[i].value = o[n + i - 1]
  BY <1>3 DEF PutFile
<1>5. \A i \in 1..c : FileStep(T, i)
  BY <1>0, <1>4 DEF FileStep
<1>6. ASSUME NEW id \in Ready(v)
      PROVE  /\ \A j \in 1..c : T[j].id = id => T[j].value = v.sources[id].origin
             /\ files[id] = v.sources[id].origin \/ \E j \in 1..c : T[j].id = id
  <2>1. CASE id \in n..(n + c - 1)
    <3>1. v.sources[id].origin = o[id]
      BY <2>1 DEF Claims
    <3>2. id - n + 1 \in 1..c /\ n + (id - n + 1) - 1 = id
      BY <2>1
    <3> QED
      BY <1>4, <3>1, <3>2
  <2>2. CASE id \notin n..(n + c - 1)
    <3>1. v.sources[id].origin = files[id]
      BY <2>2 DEF Claims
    <3> QED
      BY <1>0, <1>4, <2>2, <3>1
  <2> QED
    BY <2>1, <2>2
<1>7. ManifestStep(T, c + 1)
  <2> SUFFICES ASSUME NEW k, k = c + 1 PROVE ManifestStep(T, k)
    OBVIOUS
  <2>1. T[k].place = "manifest" /\ T[k].value = v
    BY <1>3 DEF Put
  <2>2. \A j \in 1..Len(T) : j # k => j \in 1..c
    BY <1>3
  <2>3. k - 1 = c /\ (k + 1)..Len(T) = {}
    BY <1>3
  <2>4. /\ v \in Manifests /\ Numbered(v) /\ v.draft = manifest.draft
        /\ \A j \in 1..Len(T) : j # k => T[j].place = "file"
        /\ \A j \in (k + 1)..Len(T) : T[j].id \notin Ready(v)
    BY <1>4, <2>2, <2>3 DEF Claims
  <2>5. \A id \in Ready(v) :
          /\ \A j \in 1..(k - 1) :
               T[j].id = id => T[j].value = v.sources[id].origin
          /\ \/ files[id] = v.sources[id].origin
             \/ \E j \in 1..(k - 1) : T[j].id = id
    BY <1>6, <2>3
  <2> DEFINE Claimed(w) ==
        /\ w \in Manifests /\ Numbered(w) /\ w.draft = manifest.draft
        /\ \A j \in (k + 1)..Len(T) : T[j].id \notin Ready(w)
        /\ \A id \in Ready(w) :
             /\ \A j \in 1..(k - 1) :
                  T[j].id = id => T[j].value = w.sources[id].origin
             /\ \/ files[id] = w.sources[id].origin
                \/ \E j \in 1..(k - 1) : T[j].id = id
  <2>6. Claimed(v)
    BY <2>4, <2>5
  <2>7. Claimed(T[k].value)
    <3> HIDE DEF Claimed
    <3> QED BY <2>1, <2>6
  <2> QED
    BY <2>1, <2>4, <2>7 DEF ManifestStep
<1>8. \A i \in 1..Len(T) : i = c + 1 \/ i \in 1..c
  BY <1>3
<1> QED
  BY <1>3, <1>5, <1>7, <1>8 DEF MaterialTodo

LEMMA FileThenManifest ==
  ASSUME Clean, NEW v, NEW id \in Ids, NEW origin \in Origins,
         Claims(v, [x \in {id} |-> origin], {id}), id \notin Ready(manifest)
  PROVE  /\ MaterialTodo(<<PutFile(id, origin), Put("manifest", v)>>)
         /\ <<PutFile(id, origin), Put("manifest", v)>> \in Seq(Places)
<1> DEFINE T == <<PutFile(id, origin), Put("manifest", v)>>
<1>1. T \in Seq(Places)
  BY PutFacts DEF Claims
<1>2. /\ Len(T) = 2 /\ T[2].place = "manifest" /\ T[2].value = v
      /\ T[1].place = "file" /\ T[1].id = id /\ T[1].value = origin
  BY DEF Put, PutFile
<1>3. FileStep(T, 1)
  BY <1>2 DEF FileStep
<1>4. ManifestStep(T, 2)
  BY <1>2 DEF Claims, ManifestStep
<1>5. 1..Len(T) = {1, 2}
  BY <1>2
<1> QED
  BY <1>1, <1>3, <1>4, <1>5 DEF MaterialTodo

\* What a readable disk says of the materials of its manifest.
LEMMA ReadyFacts ==
  ASSUME Clean
  PROVE  /\ manifest \in Manifests /\ manifest # None
         /\ \A id \in DOMAIN manifest.sources :
              id \in Ids /\ id < manifest.next /\ manifest.sources[id] \in Sources
         /\ \A id \in Ready(manifest) :
              files[id] = manifest.sources[id].origin
BY ManifestFacts, NullAssumption DEF Clean, Numbered, Readable, FilesPresent

LEMMA CollectSafe ==
  ASSUME Clean, NEW c \in Nat, manifest.next + c - 1 <= MaxMaterial,
         NEW new \in [manifest.next..(manifest.next + c - 1) -> Origins],
         NEW included \in BOOLEAN
  PROVE  /\ MaterialTodo(CollectPlan(manifest, new, included))
         /\ CollectPlan(manifest, new, included) \in Seq(Places)
<1> DEFINE n == manifest.next
           D == n..(n + c - 1)
           added == [id \in DOMAIN new |-> Material(new[id], TRUE, included)]
           sources == Extend(manifest.sources, added)
           S == DOMAIN manifest.sources \cup D
           v == Changed(manifest, sources, n + c)
<1>1. /\ MaxMaterial \in Nat /\ n \in Nat \ {0} /\ DOMAIN new = D
      /\ n + c \in 1..(MaxMaterial + 1) /\ D \subseteq Ids
      /\ S \subseteq Ids
  BY ManifestFacts, ReadyFacts DEF Ids
<1>2. Cardinality(DOMAIN new) = c
  <2>1. n \in Int /\ n + c - 1 \in Int
    BY <1>1
  <2>2. Cardinality(n..(n + c - 1)) =
          IF n > n + c - 1 THEN 0 ELSE (n + c - 1) - n + 1
    BY <2>1, FS_Interval
  <2>3. \A a, b \in Int : (IF a > a + b - 1 THEN 0 ELSE (a + b - 1) - a + 1) =
                           IF b < 1 THEN 0 ELSE b
    OBVIOUS
  <2>4. Cardinality(n..(n + c - 1)) = IF c < 1 THEN 0 ELSE c
    <3> HIDE DEF n
    <3> QED
      BY <2>2, <2>3, <1>1
  <2>5. c < 1 => c = 0
    OBVIOUS
  <2> QED
    BY <1>1, <2>4, <2>5
<1>3. /\ \A id \in D : /\ sources[id] = Material(new[id], TRUE, included)
                       /\ sources[id] \in Sources
      /\ \A id \in DOMAIN manifest.sources :
           sources[id] = manifest.sources[id] /\ id \notin D
      /\ DOMAIN sources = S
  <2>1. \A id \in DOMAIN manifest.sources : id \notin D
    BY <1>1, ReadyFacts DEF Ids
  <2> QED
    BY <1>1, <2>1 DEF Extend, Material, Sources
<1>4. sources \in [S -> Sources]
  <2>1. \A id \in S : sources[id] \in Sources
    BY <1>3, ReadyFacts
  <2> QED
    BY <1>3, <2>1 DEF Extend
<1>5. /\ v \in Manifests /\ v.sources = sources /\ v.next = n + c
      /\ v.draft = manifest.draft
  <2>1. manifest \in Manifests /\ S \in SUBSET Ids
    BY <1>1, ReadyFacts
  <2>2. \A g \in [S -> Sources], k \in 1..(MaxMaterial + 1) :
          /\ Changed(manifest, g, k) \in Manifests
          /\ Changed(manifest, g, k).sources = g
          /\ Changed(manifest, g, k).next = k
          /\ Changed(manifest, g, k).draft = manifest.draft
    <3> HIDE DEF S
    <3> QED
      BY <2>1, ChangedFacts
  <2> HIDE DEF sources, S
  <2> QED
    BY <1>1, <1>4, <2>2
<1>6. Claims(v, new, D)
  <2>1. Numbered(v)
    BY SMTT(30), <1>1, <1>3, <1>5, ReadyFacts DEF Numbered, Ids
  <2>2. ASSUME NEW id \in Ready(v)
        PROVE  v.sources[id].origin = IF id \in D THEN new[id] ELSE files[id]
    <3>1. CASE id \in D
      BY <1>3, <1>5, <3>1 DEF Material
    <3>2. CASE id \notin D
      <4>1. id \in Ready(manifest) /\ v.sources[id] = manifest.sources[id]
        BY <1>3, <1>5, <3>2 DEF Ready
      <4> QED
        BY <3>2, <4>1, ReadyFacts
    <3> QED
      BY <3>1, <3>2
  <2> QED
    BY <1>5, <2>1, <2>2 DEF Claims
<1>7. \A id \in D : id \notin Ready(manifest)
  BY <1>1, ReadyFacts DEF Ready, Ids
<1>8. CollectPlan(manifest, new, included) =
        [i \in 1..c |-> PutFile(n + i - 1, new[n + i - 1])] \o <<Put("manifest", v)>>
  BY <1>2 DEF CollectPlan
<1> QED
  BY <1>1, <1>6, <1>7, <1>8, FilesThenManifest

\* The materials whose files and readiness the new manifest leaves alone.
LEMMA SourcesSafe ==
  ASSUME Clean, NEW S \in SUBSET Ids, NEW f \in [S -> Sources],
         NEW n \in 1..(MaxMaterial + 1), \A id \in S : id < n,
         NEW o, NEW D,
         \A id \in S : f[id].ready =>
           f[id].origin = IF id \in D THEN o[id] ELSE files[id]
  PROVE  Claims(Changed(manifest, f, n), o, D)
<1>1. /\ Changed(manifest, f, n) \in Manifests
      /\ Changed(manifest, f, n).sources = f
      /\ Changed(manifest, f, n).next = n
      /\ Changed(manifest, f, n).draft = manifest.draft
  BY ChangedFacts, ReadyFacts
<1> HIDE DEF Changed
<1> QED
  BY <1>1 DEF Claims, Numbered, Ready

-----------------------------------------------------------------------------
(* The steps of a request *)

\* The next write of a plan leaves the disk readable, and the rest of the plan
\* is one to go on with.
LEMMA WriteKeeps ==
  ASSUME Clean, NEW r, ProcType(r), Believes(r), r.pc \in WritingPcs,
         r.todo # <<>>, Apply(Head(r.todo)),
         NEW s, s.pc = r.pc, s.kind = r.kind, s.todo = Tail(r.todo),
         s.man = IF Head(r.todo).place = "manifest" THEN Head(r.todo).value ELSE r.man
  PROVE  /\ Clean' /\ Believes(s)'
         /\ Head(r.todo).place = "file" => Head(r.todo).id \in Ids
<1>1. CASE r.pc \in {"recover", "rollback"}
  <2>1. Clean' /\ RecoveryTodo(s.todo)'
    BY <1>1, RecoveryWrite DEF Believes
  <2>2. Head(r.todo).place \notin {"file", "manifest"} /\ manifest' = manifest
    BY <1>1 DEF Believes, RecoveryTodo, Put, Apply
  <2> QED
    BY <1>1, <2>1, <2>2 DEF Believes
<1>2. CASE r.pc = "work" /\ r.kind = "save"
  <2>1. Clean' /\ SaveTodo(s.todo)'
    BY <1>2, SaveWrite DEF Believes
  <2>2. Head(r.todo).place # "file"
    <3>1. SaveTodo(r.todo)
      BY <1>2 DEF Believes
    <3>2. CASE r.todo = <<Put("pending", None)>>
      BY <3>2 DEF Put
    <3>3. CASE \E doc : r.todo = <<Put("pending", SavedRecord), Put("article", doc),
                     Put("manifest", SavedManifest(doc)), Put("pending", None)>>
      BY <3>3 DEF Put
    <3>4. CASE \E doc : r.todo = <<Put("article", doc),
                     Put("manifest", SavedManifest(doc)), Put("pending", None)>>
      BY <3>4 DEF Put
    <3>5. CASE \E doc : r.todo = <<Put("manifest", SavedManifest(doc)),
                                  Put("pending", None)>>
      BY <3>5 DEF Put
    <3> QED
      BY <3>1, <3>2, <3>3, <3>4, <3>5 DEF SaveTodo
  <2> QED
    BY <1>2, <2>1, <2>2 DEF Believes
<1>3. CASE r.pc = "cleanup" \/ (r.pc = "work" /\ r.kind # "save")
  <2>1. r.todo \in Seq(Places) /\ MaterialTodo(r.todo)
    BY <1>3 DEF Believes, ProcType
  <2>2. Clean' /\ MaterialTodo(s.todo)'
    BY <2>1, MaterialWrite
  <2>3. 1 \in 1..Len(r.todo) /\ Head(r.todo) = r.todo[1]
    BY <2>1, TailFacts
  <2>4. Head(r.todo).place = "file" => Head(r.todo).id \in Ids
    BY <2>1, <2>3 DEF MaterialTodo, FileStep, ManifestStep
  <2>5. CASE s.pc = "work" /\ s.kind = "sync"
    <3>1. PICK v \in Manifests : r.todo = <<Put("manifest", v)>>
      BY <2>5 DEF Believes, SyncTodo
    <3>2. s.todo = <<>> /\ s.man = v /\ manifest' = v
      BY <3>1 DEF Apply, Put
    <3> QED
      BY <2>2, <2>4, <2>5, <3>2 DEF Believes, SyncTodo
  <2>6. CASE ~(s.pc = "work" /\ s.kind = "sync")
    BY <1>3, <2>2, <2>4, <2>6 DEF Believes
  <2> QED
    BY <2>5, <2>6
<1>4. \/ r.pc \in {"recover", "rollback"}
      \/ r.pc = "work" /\ r.kind = "save"
      \/ r.pc = "cleanup" \/ (r.pc = "work" /\ r.kind # "save")
  BY DEF WritingPcs
<1> QED
  BY <1>1, <1>2, <1>3, <1>4

\* A manifest to write is one: no plan unlinks it.
LEMMA ManifestHead ==
  ASSUME Clean, NEW r, ProcType(r), Believes(r), r.pc \in WritingPcs,
         r.todo # <<>>, Head(r.todo).place = "manifest"
  PROVE  Head(r.todo).value \in Manifests
<1>1. r.pc \notin {"recover", "rollback"}
  BY DEF Believes, RecoveryTodo, Put
<1>2. CASE r.pc = "work" /\ r.kind = "save"
  <2>1. PICK doc \in Documents : Head(r.todo).value = SavedManifest(doc)
    <3>1. SaveTodo(r.todo)
      BY <1>2 DEF Believes
    <3>2. r.todo # <<Put("pending", None)>>
      BY DEF Put
    <3>3. \A doc : r.todo # <<Put("pending", SavedRecord), Put("article", doc),
                     Put("manifest", SavedManifest(doc)), Put("pending", None)>>
      BY DEF Put
    <3>4. \A doc : r.todo # <<Put("article", doc),
                     Put("manifest", SavedManifest(doc)), Put("pending", None)>>
      BY DEF Put
    <3>5. \E doc \in Documents : r.todo = <<Put("manifest", SavedManifest(doc)),
                                            Put("pending", None)>>
      BY <3>1, <3>2, <3>3, <3>4 DEF SaveTodo
    <3> QED
      BY <3>5 DEF Put
  <2>2. SavedManifest(doc) \in Manifests
    BY ManifestFacts DEF Clean, SavedManifest, Manifests, Drafts
  <2> QED
    BY <2>1, <2>2
<1>3. CASE r.pc = "cleanup" \/ (r.pc = "work" /\ r.kind # "save")
  <2>1. r.todo \in Seq(Places) /\ MaterialTodo(r.todo)
    BY <1>3 DEF Believes, ProcType
  <2>2. 1 \in 1..Len(r.todo) /\ Head(r.todo) = r.todo[1]
    BY <2>1, TailFacts
  <2> QED
    BY <2>1, <2>2 DEF MaterialTodo, FileStep, ManifestStep
<1> QED
  BY <1>1, <1>2, <1>3 DEF WritingPcs

\* So does a tolerated failure without effect.
LEMMA SkipKeeps ==
  ASSUME Clean, NEW r, ProcType(r), Believes(r), r.pc \in WritingPcs,
         r.todo # <<>>, Tolerated(Head(r.todo)),
         UNCHANGED <<pending, article, manifest, files>>,
         NEW s, s.pc = r.pc, s.kind = r.kind, s.man = r.man, s.todo = Tail(r.todo)
  PROVE  Clean' /\ Believes(s)'
<1>0. Clean'
  BY SameDisk
<1>1. CASE r.pc \in {"recover", "rollback"}
  BY <1>0, <1>1, RecoverySkip DEF Believes
<1>2. CASE r.pc = "work" /\ r.kind = "save"
  BY <1>0, <1>2, SaveSkip DEF Believes
<1>3. CASE r.pc = "cleanup" \/ (r.pc = "work" /\ r.kind # "save")
  <2>1. MaterialTodo(s.todo)'
    BY <1>3, MaterialSkip DEF Believes, ProcType, Tolerated
  <2>2. ~(r.pc = "work" /\ r.kind = "sync")
    <3> SUFFICES ASSUME r.pc = "work", r.kind = "sync" PROVE FALSE
      OBVIOUS
    <3>1. PICK v \in Manifests : r.todo = <<Put("manifest", v)>>
      BY DEF Believes, SyncTodo
    <3>2. Head(r.todo).value = v
      BY <3>1 DEF Put
    <3> QED
      BY <3>2, NullAssumption DEF Tolerated
  <2> QED
    BY <1>0, <1>3, <2>1, <2>2 DEF Believes
<1>4. \/ r.pc \in {"recover", "rollback"}
      \/ r.pc = "work" /\ r.kind = "save"
      \/ r.pc = "cleanup" \/ (r.pc = "work" /\ r.kind # "save")
  BY DEF WritingPcs
<1> QED
  BY <1>1, <1>2, <1>3, <1>4

\* A request starts to work its plan off.
LEMMA WorkStep ==
  ASSUME ReadableInv, NEW p \in Procs, NEW todo \in Seq(Places), NEW ds,
         Work(p, todo, ds),
         IF proc[p].kind = "save" THEN SaveTodo(todo) ELSE MaterialTodo(todo),
         proc[p].kind = "sync" => \E v \in Manifests : todo = <<Put("manifest", v)>>
  PROVE  DiskInv'
<1>1. PICK r : r = [proc[p] EXCEPT !.pc = "work", !.todo = todo]
  OBVIOUS
<1>2. DOMAIN proc[p] = DOMAIN Idle /\ ProcType(proc[p])
  BY DEF ReadableInv, DiskInv, ProcType
<1>3. /\ DOMAIN r = DOMAIN Idle /\ r.pc = "work" /\ r.todo = todo
      /\ r.kind = proc[p].kind /\ r.doc = proc[p].doc /\ r.made = proc[p].made
      /\ r.seen = proc[p].seen
  BY <1>1, <1>2 DEF Idle
<1>4. ProcType(r) /\ Believes(r)
  BY <1>2, <1>3 DEF ProcType, Believes, SyncTodo
<1> QED
  BY <1>1, <1>4, QuietStep DEF Work

LEMMA Planning ==
  ASSUME ReadableInv, NEW p \in Procs, proc[p].pc = "plan"
  PROVE  /\ Clean /\ proc[p].man = manifest /\ ProcType(proc[p])
         /\ proc[p].kind = "save" => DraftReadable(manifest)
BY DEF ReadableInv, DiskInv, Believes

LEMMA SaveStep ==
  ASSUME ReadableInv, NEW p \in Procs, SaveDraft(p)
  PROVE  DiskInv'
<1>1. /\ Clean /\ proc[p].man = manifest /\ DraftReadable(manifest)
      /\ proc[p].doc \in Documents \cup {None}
  BY Planning DEF SaveDraft, ProcType
<1>2. PICK doc \in Documents : Work(p, SavePlan(manifest, doc), {"draft"})
  BY <1>1 DEF SaveDraft
<1>3. SaveTodo(SavePlan(manifest, doc)) /\ SavePlan(manifest, doc) \in Seq(Places)
  BY <1>1, SavePlanSafe
<1> QED
  BY <1>2, <1>3, WorkStep DEF SaveDraft

LEMMA CollectStep ==
  ASSUME ReadableInv, NEW p \in Procs, Upload(p) \/ Collect(p)
  PROVE  DiskInv'
<1>1. /\ Clean /\ proc[p].man = manifest /\ proc[p].kind \notin {"save", "sync"}
      /\ manifest.next \in Nat
  BY Planning, ManifestFacts, ReadyFacts DEF Upload, Collect
<1>2. CASE Upload(p)
  <2>1. PICK new : /\ new = [id \in {manifest.next} |-> Web]
                   /\ Work(p, CollectPlan(manifest, new, FALSE), {"sources"})
    BY <1>1, <1>2 DEF Upload
  <2>2. /\ manifest.next..(manifest.next + 1 - 1) = {manifest.next}
        /\ manifest.next + 1 - 1 <= MaxMaterial
    BY <1>1, <1>2 DEF Upload
  <2>3. new \in [manifest.next..(manifest.next + 1 - 1) -> Origins]
    BY <2>1, <2>2 DEF Origins
  <2> QED
    BY <1>1, <2>1, <2>2, <2>3, CollectSafe, WorkStep
<1>3. CASE Collect(p)
  <2> DEFINE fresh == Collectable(manifest)
  <2>1. PICK order \in Numberings(fresh, manifest.next), included \in BOOLEAN :
          Work(p, CollectPlan(manifest, order, included), {"sources"})
    BY <1>1, <1>3 DEF Collect
  <2>2. IsFiniteSet(fresh) /\ fresh \subseteq Origins
    BY WorkspaceAssumption, FS_Subset DEF Collectable, Origins
  <2>3. Cardinality(fresh) \in Nat
    BY <2>2, FS_CardinalityType
  <2>4. manifest.next + Cardinality(fresh) - 1 <= MaxMaterial
    BY <1>1, <1>3 DEF Collect
  <2>5. order \in [manifest.next..(manifest.next + Cardinality(fresh) - 1) -> Origins]
    BY <2>1, <2>2 DEF Numberings, Bijection, Injection
  <2> QED
    BY <1>1, <2>1, <2>3, <2>4, <2>5, CollectSafe, WorkStep
<1> QED
  BY <1>2, <1>3

LEMMA ImportStep ==
  ASSUME ReadableInv, NEW p \in Procs, Import(p)
  PROVE  DiskInv'
<1>1. Clean /\ proc[p].man = manifest /\ proc[p].kind \notin {"save", "sync"}
  BY Planning DEF Import
<1>2. PICK id \in DOMAIN manifest.sources \ Ready(manifest), included \in BOOLEAN :
        Work(p, <<PutFile(id, manifest.sources[id].origin),
                  Put("manifest", Changed(manifest,
                    [manifest.sources EXCEPT ![id].ready = TRUE,
                                             ![id].included = included],
                    manifest.next))>>, {"sources"})
  BY <1>1 DEF Import
<1> DEFINE f == [manifest.sources EXCEPT ![id].ready = TRUE, ![id].included = included]
           origin == manifest.sources[id].origin
           S == DOMAIN manifest.sources
<1>3. /\ S \subseteq Ids /\ f \in [S -> Sources] /\ origin \in Origins
      /\ manifest.next \in 1..(MaxMaterial + 1) /\ \A x \in S : x < manifest.next
      /\ manifest.sources \in [S -> Sources] /\ id \in Ids
  <2>1. manifest.sources \in [S -> Sources]
    BY <1>1, ReadyFacts, ManifestFacts
  <2>2. f \in [S -> Sources] /\ origin \in Origins
    BY <2>1 DEF Sources
  <2> QED
    BY <1>1, <2>1, <2>2, ReadyFacts, ManifestFacts
<1>4. \A x \in S : f[x].ready =>
        f[x].origin = IF x \in {id} THEN [y \in {id} |-> origin][x] ELSE files[x]
  <2> SUFFICES ASSUME NEW x \in S, f[x].ready
               PROVE  f[x].origin = IF x \in {id} THEN [y \in {id} |-> origin][x]
                                                  ELSE files[x]
    OBVIOUS
  <2>1. CASE x = id
    BY <1>3, <2>1 DEF Sources
  <2>2. CASE x # id
    <3>1. f[x] = manifest.sources[x] /\ x \in Ready(manifest)
      BY <1>3, <2>2 DEF Ready
    <3> QED
      BY <1>1, <2>2, <3>1, ReadyFacts
  <2> QED
    BY <2>1, <2>2
<1>5. Claims(Changed(manifest, f, manifest.next), [y \in {id} |-> origin], {id})
  <2> HIDE DEF f, origin, S
  <2> QED
    BY <1>1, <1>3, <1>4, SourcesSafe
<1> QED
  BY <1>1, <1>2, <1>3, <1>5, FileThenManifest, WorkStep

LEMMA UpdateStep ==
  ASSUME ReadableInv, NEW p \in Procs, Update(p)
  PROVE  DiskInv'
<1>1. Clean /\ proc[p].man = manifest /\ proc[p].kind \notin {"save", "sync"}
  BY Planning DEF Update
<1> DEFINE D == DOMAIN manifest.sources
           f(S) == [id \in D |-> [manifest.sources[id] EXCEPT !.included = (id \in S)]]
<1>2. PICK S \in SUBSET Ready(manifest) :
        Work(p, <<Put("manifest", Changed(manifest, f(S), manifest.next))>>, {})
  BY <1>1 DEF Update
<1>3. /\ D \subseteq Ids /\ manifest.next \in 1..(MaxMaterial + 1)
      /\ \A x \in D : x < manifest.next /\ manifest.sources[x] \in Sources
  BY <1>1, ReadyFacts, ManifestFacts
<1>4. f(S) \in [D -> Sources]
  <2>1. ASSUME NEW x \in D, NEW b \in BOOLEAN
        PROVE  [manifest.sources[x] EXCEPT !.included = b] \in Sources
    BY <1>3, <2>1 DEF Sources
  <2>2. \A x \in D : (x \in S) \in BOOLEAN
    OBVIOUS
  <2>3. \A x \in D : [manifest.sources[x] EXCEPT !.included = (x \in S)] \in Sources
    BY <2>1, <2>2, Zenon
  <2> QED
    BY <2>3
<1>5. \A x \in D : f(S)[x].ready =>
        f(S)[x].origin = IF x \in {} THEN <<>>[x] ELSE files[x]
  BY <1>1, <1>3, ReadyFacts DEF Ready, Sources
<1>6. Claims(Changed(manifest, f(S), manifest.next), <<>>, {})
  <2> HIDE DEF f, D
  <2> QED
    BY <1>1, <1>3, <1>4, <1>5, SourcesSafe
<1> QED
  BY <1>1, <1>2, <1>6, OneManifest, WorkStep

LEMMA DiscardStep ==
  ASSUME ReadableInv, NEW p \in Procs, Discard(p)
  PROVE  DiskInv'
<1>1. Clean /\ proc[p].man = manifest /\ proc[p].kind \notin {"save", "sync"}
  BY Planning DEF Discard
<1> DEFINE D == DOMAIN manifest.sources
           kept(id) == [manifest.sources EXCEPT ![id].ready = FALSE,
                                                ![id].included = FALSE]
           f(id) == IF manifest.sources[id].origin \in Keys
                    THEN kept(id) ELSE Without(manifest.sources, {id})
<1>2. PICK id \in Ready(manifest) :
        Work(p, <<Put("manifest", Changed(manifest, f(id), manifest.next)),
                  PutFile(id, None)>>, {})
  BY <1>1 DEF Discard
<1>3. /\ D \subseteq Ids /\ manifest.next \in 1..(MaxMaterial + 1)
      /\ \A x \in D : x < manifest.next /\ manifest.sources[x] \in Sources
      /\ manifest.sources \in [D -> Sources] /\ id \in D
  BY <1>1, ReadyFacts, ManifestFacts DEF Ready
<1>4. PICK S \in SUBSET D :
        /\ f(id) \in [S -> Sources]
        /\ \A x \in S : f(id)[x].ready => x # id /\ f(id)[x] = manifest.sources[x]
  <2>1. CASE manifest.sources[id].origin \in Keys
    <3>1. f(id) = kept(id)
      BY <2>1
    <3>2. kept(id) \in [D -> Sources]
      BY <1>3 DEF Sources
    <3>3. \A x \in D : kept(id)[x].ready => x # id /\ kept(id)[x] = manifest.sources[x]
      BY <1>3 DEF Sources
    <3> QED
      BY <3>1, <3>2, <3>3
  <2>2. CASE manifest.sources[id].origin \notin Keys
    <3>1. f(id) = [x \in D \ {id} |-> manifest.sources[x]]
      BY <2>2 DEF Without, Restrict
    <3> QED
      BY <1>3, <3>1
  <2> QED
    BY <2>1, <2>2
<1>5. \A x \in S : f(id)[x].ready =>
        f(id)[x].origin = IF x \in {} THEN <<>>[x] ELSE files[x]
  BY <1>1, <1>3, <1>4, ReadyFacts DEF Ready
<1> HIDE DEF f
<1>6. Claims(Changed(manifest, f(id), manifest.next), <<>>, {})
  <2>1. S \in SUBSET Ids /\ \A x \in S : x < manifest.next
    BY <1>3
  <2> HIDE DEF D
  <2> QED
    BY <1>1, <1>3, <1>4, <1>5, <2>1, SourcesSafe
<1>7. id \notin Ready(Changed(manifest, f(id), manifest.next))
  <2>1. Changed(manifest, f(id), manifest.next).sources = f(id)
    BY <1>1, <1>3, <1>4, ChangedFacts, ReadyFacts
  <2> QED
    BY <1>4, <2>1 DEF Ready
<1> QED
  BY <1>1, <1>2, <1>3, <1>6, <1>7, ManifestThenFile, WorkStep


LEMMA SyncStep ==
  ASSUME ReadableInv, NEW p \in Procs, Sync(p)
  PROVE  DiskInv'
<1>1. /\ Clean /\ proc[p].man = manifest /\ proc[p].kind # "save"
      /\ proc[p].pc = "plan" /\ ProcType(proc[p])
  BY Planning DEF Sync
<1> DEFINE new  == proc[p].seen \ Known(manifest)
           gone == Gone(manifest, proc[p].seen)
           c    == Cardinality(new)
           D    == manifest.next..(manifest.next + c - 1)
           kept == DOMAIN manifest.sources \ gone
           f(g) == Extend(Without(manifest.sources, gone),
                          [id \in DOMAIN g |-> Material(g[id], FALSE, FALSE)])
<1>2. CASE /\ Become(p, [proc[p] EXCEPT !.pc = "draft", !.kind = "read"])
           /\ UNCHANGED <<disk, library>>
  <2>1. PICK r : r = [proc[p] EXCEPT !.pc = "draft", !.kind = "read"]
    OBVIOUS
  <2>2. ProcType(r) /\ Believes(r)
    BY <1>1, <2>1 DEF ProcType, Believes, Idle
  <2> QED
    BY <1>2, <2>1, <2>2, QuietStep DEF disk
<1>3. CASE /\ manifest.next + c - 1 <= MaxMaterial
           /\ \E g \in Numberings(new, manifest.next) :
                Work(p, <<Put("manifest", Changed(manifest, f(g),
                                                  manifest.next + c))>>, {})
  <2>1. PICK g \in Numberings(new, manifest.next) :
          Work(p, <<Put("manifest", Changed(manifest, f(g), manifest.next + c))>>, {})
    BY <1>3
  <2>2. IsFiniteSet(new) /\ new \subseteq Keys
    BY <1>1, WorkspaceAssumption, FS_Subset DEF ProcType
  <2>3. /\ c \in Nat /\ manifest.next \in Nat \ {0} /\ MaxMaterial \in Nat
        /\ manifest.next + c \in 1..(MaxMaterial + 1)
        /\ D \subseteq Ids /\ kept \cup D \subseteq Ids
        /\ \A id \in kept \cup D : id < manifest.next + c
    <3>1. c \in Nat
      BY <2>2, FS_CardinalityType
    <3> HIDE DEF c, gone
    <3> QED
      BY <1>1, <1>3, <3>1, ManifestFacts, ReadyFacts DEF Ids
  <2>4. g \in [D -> Keys]
    BY <2>1, <2>2 DEF Numberings, Bijection, Injection
  <2>5. /\ DOMAIN f(g) = kept \cup D
        /\ \A id \in D : f(g)[id] = Material(g[id], FALSE, FALSE)
        /\ \A id \in kept \ D : f(g)[id] = manifest.sources[id]
    BY <2>4 DEF Extend, Without, Restrict
  <2>6. f(g) \in [kept \cup D -> Sources]
    <3>1. \A id \in D : Material(g[id], FALSE, FALSE) \in Sources
      BY <2>4 DEF Material, Sources, Origins
    <3>2. \A id \in kept : manifest.sources[id] \in Sources
      BY <1>1, ReadyFacts
    <3>3. \A id \in kept \cup D : f(g)[id] \in Sources
      <4> HIDE DEF f, kept, D
      <4> QED
        BY <2>5, <3>1, <3>2
    <3> QED
      BY <2>5, <3>3 DEF Extend
  <2>7. \A id \in kept \cup D : f(g)[id].ready =>
          f(g)[id].origin = IF id \in {} THEN <<>>[id] ELSE files[id]
    <3>1. \A id \in D : f(g)[id].ready = FALSE
      <4>1. \A id : Material(g[id], FALSE, FALSE).ready = FALSE
        BY DEF Material
      <4> HIDE DEF f, kept, D
      <4> QED
        BY <2>5, <4>1
    <3>2. ASSUME NEW id \in kept, manifest.sources[id].ready
          PROVE  manifest.sources[id].origin = files[id]
      BY <1>1, <3>2, ReadyFacts DEF Ready
    <3> HIDE DEF f, kept, D
    <3> QED
      BY <2>5, <3>1, <3>2
  <2>8. Claims(Changed(manifest, f(g), manifest.next + c), <<>>, {})
    <3> HIDE DEF f, kept, D, c
    <3> QED
      BY <1>1, <2>3, <2>6, <2>7, SourcesSafe
  <2>9. Changed(manifest, f(g), manifest.next + c) \in Manifests
    BY <2>8 DEF Claims
  <2> HIDE DEF f, c
  <2> QED
    BY <1>1, <2>1, <2>8, <2>9, OneManifest, WorkStep
<1> QED
  BY <1>1, <1>2, <1>3 DEF Sync

LEMMA ReviseStep ==
  ASSUME ReadableInv, NEW p \in Procs, Revise(p)
  PROVE  DiskInv'
<1>1. ProcType(proc[p])
  BY DEF ReadableInv, DiskInv
<1>2. PICK doc \in Documents :
        Become(p, [proc[p] EXCEPT !.pc = "open", !.kind = "save", !.at = None,
                     !.doc = doc, !.base = DraftVersion(proc[p].man), !.man = None])
  BY DEF Revise
<1>3. PICK r : r = [proc[p] EXCEPT !.pc = "open", !.kind = "save", !.at = None,
                     !.doc = doc, !.base = DraftVersion(proc[p].man), !.man = None]
  OBVIOUS
<1>4. ProcType(r) /\ Believes(r)
  BY <1>1, <1>3 DEF ProcType, Believes, Idle
<1> QED
  BY <1>2, <1>3, <1>4, QuietStep DEF Revise, disk

\* Taking the lock and reading.
LEMMA ReadStep ==
  ASSUME ReadableInv, NEW p \in Procs,
         \/ OpenLock(p) \/ Acquire(p) \/ ReadManifest(p) \/ Recover(p) \/ Recovered(p)
  PROVE  DiskInv'
<1>1. ProcType(proc[p]) /\ Believes(proc[p]) /\ Clean
  BY DEF ReadableInv, DiskInv
<1>2. CASE OpenLock(p)
  <2>1. PICK inode : Become(p, [proc[p] EXCEPT !.pc = "lock", !.at = inode])
    BY <1>2 DEF OpenLock
  <2>2. PICK r : r = [proc[p] EXCEPT !.pc = "lock", !.at = inode]
    OBVIOUS
  <2>3. ProcType(r) /\ Believes(r)
    BY <1>1, <2>2 DEF ProcType, Believes, Idle
  <2> QED
    BY <1>2, <2>1, <2>2, <2>3, QuietStep DEF OpenLock
<1>3. CASE Acquire(p)
  <2>1. PICK r : r = [proc[p] EXCEPT !.pc = "read"]
    OBVIOUS
  <2>2. ProcType(r) /\ Believes(r)
    BY <1>1, <2>1 DEF ProcType, Believes, Idle
  <2> QED
    BY <1>3, <2>1, <2>2, QuietStep DEF Acquire, disk
<1>4. CASE ReadManifest(p)
  <2>1. PICK pc \in {"draft", "plan"} :
          /\ proc[p].kind \in IF pc = "draft" THEN ReadsDraft ELSE SkipsDraft
          /\ Become(p, [proc[p] EXCEPT !.pc = pc, !.man = manifest])
    BY <1>4 DEF ReadManifest
  <2>2. PICK r : r = [proc[p] EXCEPT !.pc = pc, !.man = manifest]
    OBVIOUS
  <2>3. pc = "plan" => proc[p].kind # "save"
    BY <2>1 DEF SkipsDraft
  <2>4. ProcType(r) /\ Believes(r)
    BY <1>1, <2>2, <2>3 DEF ProcType, Believes, Idle
  <2> QED
    BY <1>4, <2>1, <2>2, <2>4, QuietStep DEF ReadManifest, disk
<1>5. CASE Recover(p)
  <2>1. PICK r : r = [proc[p] EXCEPT !.pc = "recover", !.todo = Recovery(manifest)]
    OBVIOUS
  <2>2. proc[p].man = manifest
    BY <1>1, <1>5 DEF Recover, Believes
  <2>3. RecoveryTodo(Recovery(manifest)) /\ Recovery(manifest) \in Seq(Places)
    BY <1>1, RecoveryPlan
  <2>4. ProcType(r) /\ Believes(r)
    BY <1>1, <2>1, <2>2, <2>3 DEF ProcType, Believes, Idle
  <2> QED
    BY <1>5, <2>1, <2>2, <2>4, QuietStep DEF Recover, disk
<1>6. CASE Recovered(p)
  <2>1. CASE proc[p].kind = "read"
    BY <1>6, <2>1, QuietLeave DEF Recovered, disk
  <2>2. CASE proc[p].kind # "read"
    <3>1. PICK r : r = [proc[p] EXCEPT !.pc = "plan"]
      OBVIOUS
    <3>2. proc[p].man = manifest /\ DraftReadable(manifest)
      BY <1>1, <1>6 DEF Recovered, Believes
    <3>3. ProcType(r) /\ Believes(r)
      BY <1>1, <3>1, <3>2 DEF ProcType, Believes, Idle
    <3> QED
      BY <1>6, <2>2, <3>1, <3>3, QuietStep DEF Recovered, disk
  <2> QED
    BY <2>1, <2>2
<1> QED
  BY <1>2, <1>3, <1>4, <1>5, <1>6

\* Writing, failing to write, undoing and finishing.
LEMMA WriteStep ==
  ASSUME ReadableInv, NEW p \in Procs, Write(p)
  PROVE  DiskInv'
<1>1. ProcType(proc[p]) /\ Believes(proc[p]) /\ Clean
  BY DEF ReadableInv, DiskInv
<1>2. /\ proc[p].pc \in WritingPcs /\ proc[p].todo # <<>> /\ Holds(p)
      /\ Apply(Head(proc[p].todo)) /\ library' = library
  BY DEF Write, Writing, Holds, HoldingPcs, WritingPcs
<1>3. PICK s : s = [proc[p] EXCEPT
               !.todo = Tail(@), !.made = Made(p, Head(proc[p].todo)),
               !.man = IF Head(proc[p].todo).place = "manifest"
                       THEN Head(proc[p].todo).value ELSE @]
  OBVIOUS
<1>4. /\ DOMAIN s = DOMAIN Idle /\ s.pc = proc[p].pc /\ s.kind = proc[p].kind
      /\ s.man = (IF Head(proc[p].todo).place = "manifest"
                  THEN Head(proc[p].todo).value ELSE proc[p].man)
      /\ s.todo = Tail(proc[p].todo)
      /\ s.doc = proc[p].doc /\ s.seen = proc[p].seen
      /\ s.made = Made(p, Head(proc[p].todo))
  BY <1>1, <1>3 DEF ProcType, Idle
<1>5. PICK r : r = proc[p]
  OBVIOUS
<1>6. /\ Clean' /\ Believes(s)'
      /\ Head(r.todo).place = "file" => Head(r.todo).id \in Ids
  BY <1>1, <1>2, <1>4, <1>5, WriteKeeps
<1>7. ProcType(s)
  <2>1. s.made \subseteq Ids
    BY <1>1, <1>4, <1>5, <1>6 DEF Made, ProcType
  <2>2. s.todo \in Seq(Places)
    BY <1>1, <1>2, <1>4, TailFacts DEF ProcType
  <2> QED
    BY <1>1, <1>4, <2>1, <2>2 DEF ProcType
<1> QED
  BY <1>2, <1>3, <1>6, <1>7, DiskStep DEF Write

LEMMA FailStep ==
  ASSUME ReadableInv, NEW p \in Procs, WriteFails(p)
  PROVE  DiskInv'
<1>1. ProcType(proc[p]) /\ Believes(proc[p]) /\ Clean
  BY DEF ReadableInv, DiskInv
<1>2. /\ proc[p].pc \in WritingPcs /\ proc[p].todo # <<>> /\ Holds(p)
      /\ library' = library
  BY DEF WriteFails, Writing, Holds, HoldingPcs, WritingPcs
<1>3. PICK r : r = proc[p]
  OBVIOUS
<1>4. PICK s : s = [proc[p] EXCEPT !.todo = Tail(@)]
  OBVIOUS
<1>5. /\ DOMAIN s = DOMAIN Idle /\ s.pc = r.pc /\ s.kind = r.kind
      /\ s.man = r.man /\ s.todo = Tail(r.todo)
      /\ s.doc = r.doc /\ s.seen = r.seen /\ s.made = r.made
  BY <1>1, <1>3, <1>4 DEF ProcType, Idle
<1>6. Clean' /\ (Tolerated(Head(r.todo)) => Believes(s)')
  <2>1. CASE UNCHANGED <<pending, article, manifest, files>>
    <3>1. Clean'
      BY <1>1, <2>1, SameDisk
    <3>2. Tolerated(Head(r.todo)) => Believes(s)'
      BY <1>1, <1>2, <1>3, <1>5, <2>1, SkipKeeps
    <3> QED
      BY <3>1, <3>2
  <2>2. CASE Apply(Head(proc[p].todo))
    <3>1. PICK t : t = [proc[p] EXCEPT
                 !.todo = Tail(@),
                 !.man = IF Head(proc[p].todo).place = "manifest"
                         THEN Head(proc[p].todo).value ELSE @]
      OBVIOUS
    <3>2. /\ t.pc = r.pc /\ t.kind = r.kind /\ t.todo = Tail(r.todo)
          /\ t.man = IF Head(r.todo).place = "manifest" THEN Head(r.todo).value ELSE r.man
      BY <1>1, <1>3, <3>1 DEF ProcType, Idle
    <3>3. Clean' /\ Believes(t)'
      BY <1>1, <1>2, <1>3, <2>2, <3>2, WriteKeeps
    <3>4. Tolerated(Head(r.todo)) => t.man = s.man
      BY <1>1, <1>2, <1>3, <1>5, <3>2, ManifestHead, NullAssumption DEF Tolerated
    <3> QED
      BY <1>5, <3>2, <3>3, <3>4 DEF Believes, SyncTodo
  <2> QED
    BY <2>1, <2>2 DEF WriteFails
<1>7. CASE Tolerated(Head(r.todo)) /\ Become(p, s)
  <2>1. ProcType(s)
    BY <1>1, <1>2, <1>3, <1>5, TailFacts DEF ProcType
  <2> QED
    BY <1>2, <1>6, <1>7, <2>1, DiskStep
<1>8. CASE Become(p, [proc[p] EXCEPT !.pc = "undo"])
  <2>1. PICK u : u = [proc[p] EXCEPT !.pc = "undo"]
    OBVIOUS
  <2>2. ProcType(u)
    BY <1>1, <2>1 DEF ProcType, Idle
  <2>3. u.pc = "undo"
    BY <1>1, <2>1 DEF ProcType, Idle
  <2>4. Believes(u)'
    BY <2>3 DEF Believes
  <2> QED
    BY <1>2, <1>6, <1>8, <2>1, <2>2, <2>4, DiskStep
<1>9. CASE Leave(p)
  BY <1>2, <1>6, <1>9, DiskLeave
<1> QED
  BY <1>3, <1>4, <1>7, <1>8, <1>9 DEF WriteFails

LEMMA UndoStep ==
  ASSUME ReadableInv, NEW p \in Procs, Undo(p)
  PROVE  DiskInv'
<1>1. ProcType(proc[p]) /\ Clean /\ library' = library
  BY DEF ReadableInv, DiskInv, Undo, UndoSave, UndoMaterials
<1>2. UNCHANGED <<manifest, article, pending, files>>
  BY DEF Undo, UndoSave, UndoMaterials, disk
<1>3. CASE Leave(p)
  BY <1>1, <1>2, <1>3, QuietLeave
<1>4. CASE Become(p, [proc[p] EXCEPT !.pc = "rollback", !.todo = Recovery(manifest)])
  <2>1. PICK r : r = [proc[p] EXCEPT !.pc = "rollback", !.todo = Recovery(manifest)]
    OBVIOUS
  <2>2. RecoveryTodo(Recovery(manifest)) /\ Recovery(manifest) \in Seq(Places)
    BY <1>1, RecoveryPlan
  <2>3. ProcType(r) /\ Believes(r)
    BY <1>1, <2>1, <2>2 DEF ProcType, Believes, Idle
  <2> QED
    BY <1>1, <1>2, <1>4, <2>1, <2>3, QuietStep
<1>5. CASE UndoMaterials(p)
  <2> DEFINE S == Unclaimed(proc[p].made)
  <2>0. PICK order \in Numberings(S, 1) :
          Become(p, [proc[p] EXCEPT !.pc = "cleanup",
                       !.todo = [i \in DOMAIN order |-> PutFile(order[i], None)]])
    BY <1>5 DEF UndoMaterials
  <2>1. PICK todo : /\ todo = [i \in DOMAIN order |-> PutFile(order[i], None)]
                    /\ Become(p, [proc[p] EXCEPT !.pc = "cleanup", !.todo = todo])
    BY <2>0
  <2>2. /\ S \subseteq Ids /\ \A id \in S : id \notin Ready(manifest)
        /\ IsFiniteSet(S) /\ Cardinality(S) \in Nat
    <3>1. S \subseteq Ids /\ \A id \in S : id \notin Ready(manifest)
      BY <1>1 DEF Unclaimed, ProcType
    <3>2. IsFiniteSet(S)
      <4>1. IsFiniteSet(Ids)
        BY WorkspaceAssumption, FS_Interval DEF Ids
      <4> QED
        BY <3>1, <4>1, FS_Subset
    <3> QED
      BY <3>1, <3>2, FS_CardinalityType
  <2>3. order \in [1..Cardinality(S) -> S]
    <3> HIDE DEF S
    <3>1. 1 + Cardinality(S) - 1 = Cardinality(S)
      BY <2>2
    <3> QED
      BY <2>0, <3>1 DEF Numberings, Bijection, Injection
  <2>4. /\ todo = [i \in 1..Cardinality(S) |-> PutFile(order[i], None)]
        /\ \A i \in 1..Cardinality(S) : order[i] \in S /\ PutFile(order[i], None) \in Places
    BY <2>1, <2>2, <2>3, PutFacts
  <2>5. todo \in Seq(Places) /\ Len(todo) = Cardinality(S)
    <3> HIDE DEF S
    <3> QED
      BY <2>2, <2>4, IsASeq
  <2>6. MaterialTodo(todo)
    <3>1. ASSUME NEW i \in 1..Len(todo) PROVE FileStep(todo, i)
      <4>1. todo[i] = PutFile(order[i], None) /\ order[i] \in S
        BY <2>4, <2>5
      <4> QED
        BY <2>2, <4>1 DEF FileStep, PutFile
    <3> QED
      BY <3>1 DEF MaterialTodo
  <2>7. PICK r : r = [proc[p] EXCEPT !.pc = "cleanup", !.todo = todo]
    OBVIOUS
  <2>8. ProcType(r) /\ Believes(r)
    BY <1>1, <2>5, <2>6, <2>7 DEF ProcType, Believes, Idle
  <2> QED
    BY <1>1, <1>2, <2>1, <2>7, <2>8, QuietStep
<1> QED
  BY <1>3, <1>4, <1>5 DEF Undo, UndoSave

LEMMA FinishStep ==
  ASSUME ReadableInv, NEW p \in Procs, Finish(p)
  PROVE  DiskInv'
<1>1. /\ library' = library /\ UNCHANGED <<manifest, article, pending, files>>
  BY DEF Finish, disk
<1>2. CASE Leave(p)
  BY <1>1, <1>2, QuietLeave
<1>3. CASE /\ proc[p].pc = "work" /\ proc[p].kind = "sync" /\ proc[p].todo = <<>>
           /\ Become(p, [Idle EXCEPT !.pc = "draft", !.at = proc[p].at,
                                      !.man = proc[p].man])
  <2>0. proc[p].man = manifest
    <3>1. SyncTodo(proc[p])
      BY <1>3 DEF ReadableInv, DiskInv, Believes
    <3>2. \A v : proc[p].todo # <<Put("manifest", v)>>
      BY <1>3
    <3> QED
      BY <3>1, <3>2 DEF SyncTodo
  <2>1. PICK r : r = [Idle EXCEPT !.pc = "draft", !.at = proc[p].at, !.man = manifest]
    OBVIOUS
  <2>2. ProcType(r) /\ Believes(r)
    BY <2>1, IdleFacts DEF ProcType, Believes, Idle
  <2> QED
    BY <1>1, <1>3, <2>0, <2>1, <2>2, QuietStep
<1> QED
  BY <1>2, <1>3 DEF Finish

-----------------------------------------------------------------------------
(* The invariant and the theorem *)

LEMMA ReadableInit == Init => ReadableInv
<1> SUFFICES ASSUME Init PROVE ReadableInv
  OBVIOUS
<1>1. LockInv
  BY LockInit
<1>2. PICK f \in Numberings(library, 1) :
        manifest = [version |-> 1, next |-> Cardinality(library) + 1, draft |-> None,
                    sources |-> [id \in DOMAIN f |->
                      [origin |-> f[id], ready |-> FALSE, included |-> FALSE]]]
  BY DEF Init
<1>3. /\ library \subseteq Keys /\ Cardinality(library) \in Nat
      /\ Cardinality(library) <= MaxMaterial /\ MaxMaterial \in Nat
  <2>1. library \subseteq Keys
    BY DEF Init
  <2>2. IsFiniteSet(library)
    BY <2>1, WorkspaceAssumption, FS_Subset
  <2> QED
    BY <2>1, <2>2, WorkspaceAssumption, FS_CardinalityType DEF Init
<1>4. f \in [1..Cardinality(library) -> library]
  <2>1. 1 + Cardinality(library) - 1 = Cardinality(library)
    BY <1>3
  <2> QED
    BY <2>1 DEF Numberings, Bijection, Injection
<1>5. manifest \in Manifests /\ Numbered(manifest) /\ Ready(manifest) = {}
  <2> DEFINE sources == [id \in 1..Cardinality(library) |->
                           [origin |-> f[id], ready |-> FALSE, included |-> FALSE]]
  <2>1. manifest = [version |-> 1, next |-> Cardinality(library) + 1, draft |-> None,
                    sources |-> sources]
    BY <1>2, <1>4
  <2>2. sources \in [1..Cardinality(library) -> Sources]
    BY <1>3, <1>4 DEF Sources, Origins
  <2>3. 1..Cardinality(library) \in SUBSET Ids
    BY <1>3 DEF Ids
  <2>4. sources \in UNION {[S -> Sources] : S \in SUBSET Ids}
    BY <2>2, <2>3
  <2>5. manifest \in Manifests
    <3> HIDE DEF sources
    <3> QED
      BY <1>3, <2>1, <2>4 DEF Manifests
  <2> QED
    BY <1>3, <2>1, <2>5 DEF Numbered, Ready
<1>6. Clean
  BY <1>2, <1>5 DEF Clean, Init, Readable, FilesPresent, Recoverable, DraftReadable
<1>7. \A p \in Procs : ProcType(proc[p]) /\ Believes(proc[p])
  BY IdleFacts DEF Init
<1> QED
  BY <1>1, <1>3, <1>6, <1>7 DEF ReadableInv, DiskInv

LEMMA ReadableNext ==
  ASSUME "remove" \notin Kinds
  PROVE  ReadableInv /\ [Next]_vars => ReadableInv'
<1> SUFFICES ASSUME ReadableInv, [Next]_vars PROVE ReadableInv'
  OBVIOUS
<1>1. LockInv'
  BY LockNext DEF ReadableInv
<1>2. ASSUME NEW p \in Procs, NEW kind \in AllKinds, Request(p, kind)
      PROVE  DiskInv'
  <2>1. PICK refresh, r :
          /\ r = [Idle EXCEPT
               !.pc = "open", !.kind = kind, !.refresh = refresh,
               !.mver = IF kind = "read" THEN 0 ELSE manifest.version,
               !.dver = IF kind \in {"save", "revise"} THEN DraftVersion(manifest) ELSE 0,
               !.seen = IF kind = "sync" THEN library ELSE {}]
          /\ Become(p, r)
    BY <1>2 DEF Request
  <2>2. ProcType(r) /\ Believes(r)
    BY <2>1, IdleFacts DEF ProcType, Believes, Idle, ReadableInv, DiskInv
  <2> QED
    BY <1>2, <2>1, <2>2, QuietStep DEF Request, disk
<1>3. ASSUME NEW p \in Procs, Serve(p) PROVE DiskInv'
  <2>1. KeepsLock(proc[p])
    BY DEF ReadableInv, LockInv, LockFile
  <2>2. CASE \/ OpenLock(p) \/ Acquire(p) \/ ReadManifest(p) \/ Recover(p)
             \/ Recovered(p)
    BY <2>2, ReadStep
  <2>3. CASE OpenFails(p) \/ ReadFails(p) \/ DraftFails(p) \/ Reject(p)
    BY <2>3, QuietLeave DEF OpenFails, ReadFails, DraftFails, Reject, disk
  <2>4. CASE Remove(p) \/ RemoveEntry(p) \/ RemoveDirectory(p) \/ RemoveFails(p)
    BY <2>1, <2>4 DEF KeepsLock, Remove, RemoveEntry, RemoveDirectory, RemoveFails
  <2> QED
    BY <1>3, <2>2, <2>3, <2>4, SaveStep, ReviseStep, CollectStep, ImportStep,
       UpdateStep, SyncStep, DiscardStep, WriteStep, FailStep, UndoStep, FinishStep
       DEF Serve
<1>4. ASSUME NEW p \in Procs, Crash(p) PROVE DiskInv'
  BY <1>4, QuietLeave DEF Crash, disk
<1>5. CASE LibraryChange \/ UNCHANGED vars
  <2>1. UNCHANGED <<manifest, article, pending, files>> /\ proc' = proc
    BY <1>5 DEF LibraryChange, vars, disk
  <2>2. library' \subseteq Keys
    BY <1>5 DEF LibraryChange, vars, ReadableInv, DiskInv
  <2>3. Clean'
    BY <2>1, SameDisk DEF ReadableInv, DiskInv
  <2>4. ASSUME NEW p \in Procs PROVE (ProcType(proc[p]) /\ Believes(proc[p]))'
    <3>1. PICK r : r = proc[p]
      OBVIOUS
    <3>2. ProcType(r) /\ Believes(r)'
      BY <2>1, <3>1, SameDisk DEF ReadableInv, DiskInv
    <3> QED
      BY <2>1, <3>1, <3>2 DEF ProcType, Believes
  <2>5. (\A p \in Procs : ProcType(proc[p]) /\ Believes(proc[p]))'
    BY <2>4
  <2> QED
    BY <1>1, <2>2, <2>3, <2>5 DEF DiskInv, ReadableInv
<1> QED
  BY <1>1, <1>2, <1>3, <1>4, <1>5 DEF Next, ReadableInv

\* Whatever write of whatever request failed, and whichever processes were
\* killed, the manifest on disk has its files and its draft, or a record from
\* which the next reader restores the draft: _read_manifest, _read_draft and
\* _recover_pending_draft never meet a workspace they must refuse.
THEOREM AlwaysReadable ==
  ASSUME "remove" \notin Kinds
  PROVE  Spec => []Readable
<1>1. ReadableInv => Readable
  BY DEF ReadableInv, DiskInv, Clean
<1> QED
  BY ReadableInit, ReadableNext, <1>1, PTL DEF Spec

-----------------------------------------------------------------------------
(* What the files hold, removals included *)

\* A manifest a reader accepts whatever the other files hold.
Good(m) == m \in Manifests /\ Store!Consistent(m)

\* A write whose value fits its place.
Fits(x) ==
  /\ x.place = "manifest" => Good(x.value)
  /\ x.place = "article"  => x.value \in Documents \cup {None}
  /\ x.place = "pending"  => x.value \in Saved \cup {None}
  /\ x.place = "file"     => x.id \in Ids /\ x.value \in Origins \cup {None}

Writes == {x \in Places : Fits(x)}

\* What a save and what a change of the materials make of manifest m.
Saves(m, v) ==
  \E doc \in Documents :
    v = [m EXCEPT !.draft = [version |-> DraftVersion(m) + 1, doc |-> doc]]

Changes(m, v) ==
  /\ v.version = m.version + 1
  /\ v.draft = m.draft
  /\ v.next >= m.next
  /\ \A id \in DOMAIN v.sources :
       IF id \in DOMAIN m.sources
       THEN v.sources[id].origin = m.sources[id].origin
       ELSE id >= m.next

Becomes(kind, m, v) == IF kind = "save" THEN Saves(m, v) ELSE Changes(m, v)

\* A plan of a request of this kind that has read m writes at most one manifest.
Plan(kind, m, T) ==
  /\ T \in Seq(Writes)
  /\ \A i \in 1..Len(T) : T[i].place = "manifest" =>
       /\ Becomes(kind, m, T[i].value)
       /\ \A j \in 1..Len(T) : T[j].place = "manifest" => j = i

\* The writes of a request that writes no manifest.
NoManifest(T) == T \in Seq(Writes) /\ \A i \in 1..Len(T) : T[i].place # "manifest"

ProcOK(r) ==
  /\ DOMAIN r = DOMAIN Idle
  /\ r.pc \in Pcs /\ r.kind \in AllKinds
  /\ r.at \in Inodes \cup {None}
  /\ r.pc \in HoldingPcs \cup {"lock"} => r.at # None
  /\ r.doc \in Documents \cup {None}
  /\ r.made \subseteq Ids
  /\ r.seen \subseteq Keys
  /\ r.left \subseteq {"manifest", "lock", "draft", "sources"}
  /\ r.man = None \/ Good(r.man)
  /\ r.pc \in {"draft", "recover", "plan", "work"} => Good(r.man)
  /\ IF r.pc \in {"work", "undo"} THEN Plan(r.kind, r.man, r.todo)
                                  ELSE NoManifest(r.todo)

DiskOK ==
  /\ manifest = None \/ Good(manifest)
  /\ article \in Documents \cup {None}
  /\ pending \in Saved \cup {None}
  /\ files \in [Ids -> Origins \cup {None}]
  /\ dirs \subseteq {"root", "draft", "sources"}
  /\ lock \in Inodes \cup {None}
  /\ library \subseteq Keys

\* Consistency on disk rests on what every process has read and means to write,
\* and not on the lock.
ContentInv == DiskOK /\ DOMAIN proc = Procs /\ \A p \in Procs : ProcOK(proc[p])

LEMMA ContentGives == ContentInv => TypeOK /\ ManifestConsistent
BY NullAssumption DEF ContentInv, DiskOK, ProcOK, TypeOK, ManifestConsistent, Good, Holds

LEMMA WritesFacts ==
  /\ Put("pending", None) \in Writes
  /\ \A d \in Documents \cup {None} : Put("article", d) \in Writes
  /\ \A s \in Saved : Put("pending", s) \in Writes
  /\ \A m : Good(m) => Put("manifest", m) \in Writes
  /\ \A id \in Ids, o \in Origins \cup {None} : PutFile(id, o) \in Writes
BY PutFacts DEF Writes, Fits, Put, PutFile, Good

LEMMA WritesTail ==
  ASSUME NEW T \in Seq(Writes), T # <<>>
  PROVE  /\ Len(T) \in Nat /\ 1 \in 1..Len(T) /\ Head(T) = T[1] /\ Head(T) \in Writes
         /\ Tail(T) \in Seq(Writes) /\ Len(Tail(T)) = Len(T) - 1
         /\ \A i \in 1..Len(Tail(T)) : i + 1 \in 1..Len(T) /\ Tail(T)[i] = T[i + 1]
OBVIOUS

\* What is left of a plan after its first write.
LEMMA PlanTail ==
  ASSUME NEW T, T # <<>>
  PROVE  /\ NoManifest(T) => NoManifest(Tail(T)) /\ Head(T).place # "manifest"
         /\ \A kind, m : Plan(kind, m, T) => Plan(kind, m, Tail(T))
         /\ \A kind, m, n : Plan(kind, m, T) /\ Head(T).place = "manifest" =>
              Plan(kind, n, Tail(T)) /\ NoManifest(Tail(T))
<1>1. ASSUME NoManifest(T) PROVE NoManifest(Tail(T)) /\ Head(T).place # "manifest"
  BY <1>1, WritesTail DEF NoManifest
<1>2. ASSUME NEW kind, NEW m, Plan(kind, m, T) PROVE Plan(kind, m, Tail(T))
  <2>0. T \in Seq(Writes)
    BY <1>2 DEF Plan
  <2> SUFFICES ASSUME NEW i \in 1..Len(Tail(T)), Tail(T)[i].place = "manifest"
               PROVE  /\ Becomes(kind, m, Tail(T)[i].value)
                      /\ \A j \in 1..Len(Tail(T)) : Tail(T)[j].place = "manifest" => j = i
    BY <2>0, WritesTail DEF Plan
  <2>1. i + 1 \in 1..Len(T) /\ Tail(T)[i] = T[i + 1]
    BY <2>0, WritesTail
  <2>2. Becomes(kind, m, Tail(T)[i].value)
    BY <1>2, <2>1 DEF Plan
  <2>3. ASSUME NEW j \in 1..Len(Tail(T)), Tail(T)[j].place = "manifest" PROVE j = i
    <3>1. j + 1 \in 1..Len(T) /\ Tail(T)[j] = T[j + 1]
      BY <2>0, WritesTail
    <3>2. j + 1 = i + 1
      BY <1>2, <2>1, <2>3, <3>1 DEF Plan
    <3> QED BY <3>2
  <2> QED BY <2>2, <2>3
<1>3. ASSUME NEW kind, NEW m, NEW n, Plan(kind, m, T), Head(T).place = "manifest"
      PROVE  Plan(kind, n, Tail(T)) /\ NoManifest(Tail(T))
  <2>0. T \in Seq(Writes)
    BY <1>3 DEF Plan
  <2>1. ASSUME NEW i \in 1..Len(Tail(T)) PROVE Tail(T)[i].place # "manifest"
    <3>1. /\ i + 1 \in 1..Len(T) /\ Tail(T)[i] = T[i + 1] /\ 1 \in 1..Len(T)
          /\ T[1].place = "manifest" /\ i + 1 # 1
      BY <1>3, <2>0, WritesTail
    <3> QED BY <1>3, <3>1 DEF Plan
  <2> QED BY <2>0, <2>1, WritesTail DEF Plan, NoManifest
<1> QED BY <1>1, <1>2, <1>3

\* A step of one process.
LEMMA ContentStep ==
  ASSUME ContentInv, NEW p \in Procs, NEW r, Become(p, r), ProcOK(r), DiskOK'
  PROVE  ContentInv'
<1>1. proc' = [proc EXCEPT ![p] = r] /\ DOMAIN proc = Procs
  BY DEF Become, ContentInv
<1>2. \A q \in Procs : ProcOK(proc'[q])
  <2>1. \A q \in Procs : proc'[q] = IF q = p THEN r ELSE proc[q]
    BY <1>1
  <2> QED BY <2>1 DEF ContentInv
<1>3. (\A q \in Procs : ProcOK(proc[q]))'
  BY <1>2 DEF ProcOK
<1> QED BY <1>1, <1>3 DEF ContentInv

LEMMA IdleOK == ProcOK(Idle)
<1>1. <<>> \in Seq(Writes) /\ Len(<<>>) = 0
  OBVIOUS
<1> QED BY <1>1 DEF ProcOK, Idle, NoManifest, Pcs, HoldingPcs, AllKinds

LEMMA ContentLeave ==
  ASSUME ContentInv, NEW p \in Procs, Leave(p), DiskOK'
  PROVE  ContentInv'
BY IdleOK, ContentStep DEF Leave

LEMMA SameDiskOK ==
  ASSUME DiskOK, UNCHANGED <<disk, library>>
  PROVE  DiskOK'
BY DEF DiskOK, disk, Good, Store!Consistent

-----------------------------------------------------------------------------
(* Consistent manifests *)

DraftMedia(m) == IF m.draft = None THEN {} ELSE m.draft.doc.media

LEMMA GoodFacts ==
  ASSUME NEW m, Good(m)
  PROVE  /\ m \in Manifests
         /\ m.next \in Nat /\ 1 <= m.next /\ m.next <= MaxMaterial + 1
         /\ DOMAIN m.sources \subseteq Ids
         /\ m.sources \in [DOMAIN m.sources -> Sources]
         /\ DraftMedia(m) \subseteq Ready(m)
         /\ \A id \in DOMAIN m.sources :
              /\ id \in Nat /\ id < m.next
              /\ m.sources[id] \in Sources
              /\ m.sources[id].included => m.sources[id].ready
         /\ \A i, j \in DOMAIN m.sources :
              m.sources[i].origin = m.sources[j].origin =>
                i = j \/ m.sources[i].origin = Web
<1>1. m \in Manifests
  BY DEF Good
<1>2. Store!Consistent(m) /\ Store!Ready(m.sources) = Ready(m)
  BY DEF Good, Store!Ready, Ready
<1>3. DOMAIN m.sources \subseteq Nat
  BY <1>1, ManifestFacts DEF Ids
<1> QED BY <1>1, <1>2, <1>3, ManifestFacts DEF Store!Consistent, DraftMedia

\* A change of the materials that keeps what is known of them.
LEMMA ChangedGood ==
  ASSUME NEW m, Good(m), NEW S \in SUBSET Ids, NEW f \in [S -> Sources],
         NEW n \in 1..(MaxMaterial + 1), n >= m.next,
         \A id \in S :
           /\ id < n
           /\ f[id].included => f[id].ready
           /\ IF id \in DOMAIN m.sources THEN f[id].origin = m.sources[id].origin
                                         ELSE id >= m.next,
         \A i, j \in S : f[i].origin = f[j].origin => i = j \/ f[i].origin = Web,
         \A id \in DraftMedia(m) : id \in S /\ f[id].ready
  PROVE  Good(Changed(m, f, n)) /\ Changes(m, Changed(m, f, n))
<1>1. /\ Changed(m, f, n) \in Manifests
      /\ Changed(m, f, n).sources = f
      /\ Changed(m, f, n).next = n
      /\ Changed(m, f, n).draft = m.draft
  BY GoodFacts, ChangedFacts
<1>2. Changed(m, f, n).version = m.version + 1
  BY DEF Changed, Good, Manifests
<1>3. \A id \in S : f[id].origin \in Origins
  BY DEF Sources
<1>4. m.draft # None => m.draft.doc.media \subseteq Store!Ready(f)
  BY DEF Store!Ready, DraftMedia
<1> HIDE DEF Changed
<1>5. Store!Consistent(Changed(m, f, n))
  BY <1>1, <1>3, <1>4 DEF Store!Consistent
<1> QED BY <1>1, <1>2, <1>5 DEF Good, Changes

\* New materials with the next numbers, beside some or all of the known ones.
LEMMA AddedGood ==
  ASSUME NEW m, Good(m), NEW c \in Nat, m.next + c - 1 <= MaxMaterial,
         NEW new \in [m.next..(m.next + c - 1) -> Origins],
         \A i, j \in DOMAIN new : new[i] = new[j] => i = j \/ new[i] = Web,
         \A i \in DOMAIN new : new[i] \in OriginsOf(m) => new[i] = Web,
         NEW ready \in BOOLEAN, NEW included \in BOOLEAN, included => ready,
         NEW kept \in SUBSET DOMAIN m.sources, DraftMedia(m) \subseteq kept,
         NEW f, f = [id \in DOMAIN f |-> f[id]],
         DOMAIN f = kept \cup DOMAIN new,
         \A id \in kept : f[id] = m.sources[id],
         \A id \in DOMAIN new : f[id] = Material(new[id], ready, included)
  PROVE  Good(Changed(m, f, m.next + c)) /\ Changes(m, Changed(m, f, m.next + c))
<1> DEFINE n == m.next
           D == n..(n + c - 1)
           S == kept \cup D
<1>1. /\ MaxMaterial \in Nat /\ n \in Nat /\ n >= 1 /\ DOMAIN new = D
      /\ n + c \in 1..(MaxMaterial + 1) /\ n + c >= n /\ S \subseteq Ids
      /\ \A id \in D : id \in Nat /\ id >= n /\ id < n + c /\ id \notin DOMAIN m.sources
      /\ \A id \in kept : id \in Nat /\ id < n + c
  BY GoodFacts, WorkspaceAssumption DEF Ids
<1>2. \A id \in kept : f[id] \in Sources /\ f[id] = m.sources[id]
  BY GoodFacts
<1>3. \A id \in D : /\ f[id] \in Sources /\ f[id].origin = new[id]
                    /\ f[id].ready = ready /\ f[id].included = included
  <2>1. ASSUME NEW o \in Origins
        PROVE  /\ Material(o, ready, included) \in Sources
               /\ Material(o, ready, included).origin = o
               /\ Material(o, ready, included).ready = ready
               /\ Material(o, ready, included).included = included
    BY DEF Material, Sources
  <2>2. \A id \in D : f[id] = Material(new[id], ready, included) /\ new[id] \in Origins
    BY <1>1
  <2> HIDE DEF D
  <2> QED BY <2>1, <2>2
<1>4. f \in [S -> Sources]
  BY <1>1, <1>2, <1>3
<1>5. \A i, j \in S : f[i].origin = f[j].origin => i = j \/ f[i].origin = Web
  <2>1. ASSUME NEW i \in kept, NEW j \in D, f[i].origin = f[j].origin
        PROVE  f[i].origin = Web
    <3>1. new[j] \in OriginsOf(m)
      BY <1>2, <1>3, <2>1 DEF OriginsOf
    <3> QED BY <1>1, <1>3, <2>1, <3>1
  <2>2. ASSUME NEW i \in kept, NEW j \in kept, f[i].origin = f[j].origin
        PROVE  i = j \/ f[i].origin = Web
    BY <1>2, <2>2, GoodFacts
  <2>3. ASSUME NEW i \in D, NEW j \in D, f[i].origin = f[j].origin
        PROVE  i = j \/ f[i].origin = Web
    BY <1>1, <1>3, <2>3
  <2> HIDE DEF D
  <2> QED BY <2>1, <2>2, <2>3
<1>6. \A id \in S :
        /\ id < n + c
        /\ f[id].included => f[id].ready
        /\ IF id \in DOMAIN m.sources THEN f[id].origin = m.sources[id].origin
                                      ELSE id >= n
  BY <1>1, <1>2, <1>3, GoodFacts
<1>7. \A id \in DraftMedia(m) : id \in S /\ f[id].ready
  BY <1>2, GoodFacts DEF Ready
<1> HIDE DEF S, D
<1> QED BY <1>1, <1>4, <1>5, <1>6, <1>7, ChangedGood

\* A save: the new draft shows materials that are ready.
LEMMA SavedGood ==
  ASSUME NEW m, Good(m), NEW doc \in Documents, NEW refresh, Saveable(doc, m, refresh),
         NEW v, v = [m EXCEPT !.draft = [version |-> DraftVersion(m) + 1, doc |-> doc]]
  PROVE  Good(v) /\ Saves(m, v)
<1>1. /\ v \in Manifests /\ v.sources = m.sources /\ v.next = m.next
      /\ v.draft.doc = doc
  BY GoodFacts, ManifestFacts DEF Manifests, Drafts
<1>2. doc.media \subseteq Ready(m)
  BY GoodFacts DEF Saveable, Included, Ready, DraftMedia
<1>3. Store!Consistent(v)
  BY <1>1, <1>2 DEF Good, Store!Consistent, Store!Ready, Ready
<1> QED BY <1>1, <1>3 DEF Good, Saves

-----------------------------------------------------------------------------
(* The plans *)

\* Plans with one write, with a file before or after its manifest, and with
\* several files before it.
LEMMA ManifestPlan ==
  ASSUME NEW kind, NEW m, NEW v, Good(v), Becomes(kind, m, v)
  PROVE  Plan(kind, m, <<Put("manifest", v)>>)
<1> DEFINE T == <<Put("manifest", v)>>
<1>1. T \in Seq(Writes) /\ Len(T) = 1 /\ T[1].value = v
  BY WritesFacts DEF Put
<1> QED BY <1>1 DEF Plan

LEMMA FilesPlan ==
  ASSUME NEW kind, NEW m, NEW v, Good(v), Becomes(kind, m, v),
         NEW F \in Seq(Writes), \A i \in 1..Len(F) : F[i].place = "file"
  PROVE  Plan(kind, m, F \o <<Put("manifest", v)>>)
<1> DEFINE M == <<Put("manifest", v)>>
           T == F \o M
<1>1. M \in Seq(Writes) /\ Len(M) = 1 /\ M[1] = Put("manifest", v)
  BY WritesFacts
<1>2. /\ T \in Seq(Writes) /\ Len(F) \in Nat /\ Len(T) = Len(F) + 1
      /\ T[Len(F) + 1] = Put("manifest", v)
      /\ \A i \in 1..Len(F) : T[i] = F[i]
  BY <1>1
<1>3. \A i \in 1..Len(T) : i = Len(F) + 1 \/ i \in 1..Len(F)
  BY <1>2
<1>4. \A i \in 1..Len(T) : T[i].place = "manifest" => i = Len(F) + 1
  BY <1>2, <1>3
<1>5. T[Len(F) + 1].value = v
  BY <1>2 DEF Put
<1> HIDE DEF T
<1> QED BY <1>2, <1>4, <1>5 DEF Plan

LEMMA FileAndManifestPlan ==
  ASSUME NEW kind, NEW m, NEW v, Good(v), Becomes(kind, m, v),
         NEW id \in Ids, NEW o \in Origins \cup {None}
  PROVE  /\ Plan(kind, m, <<Put("manifest", v), PutFile(id, o)>>)
         /\ Plan(kind, m, <<PutFile(id, o), Put("manifest", v)>>)
<1>1. /\ Put("manifest", v) \in Writes /\ PutFile(id, o) \in Writes
      /\ Put("manifest", v).value = v /\ PutFile(id, o).place = "file"
  BY WritesFacts DEF Put, PutFile
<1>2. ASSUME NEW a, NEW b, a \in Writes, b \in Writes, b.place = "file",
             Becomes(kind, m, a.value)
      PROVE  Plan(kind, m, <<a, b>>) /\ Plan(kind, m, <<b, a>>)
  <2>1. ASSUME NEW T \in Seq(Writes), Len(T) = 2, NEW n \in {1, 2},
               Becomes(kind, m, T[n].value),
               \A i \in {1, 2} : i # n => T[i].place = "file"
        PROVE  Plan(kind, m, T)
    <3>1. 1..Len(T) = {1, 2}
      BY <2>1
    <3>2. \A i \in 1..Len(T) : T[i].place = "manifest" => i = n
      BY <2>1, <3>1
    <3> QED BY <2>1, <3>2 DEF Plan
  <2>2. /\ <<a, b>> \in Seq(Writes) /\ Len(<<a, b>>) = 2
        /\ <<a, b>>[1] = a /\ <<a, b>>[2] = b
        /\ <<b, a>> \in Seq(Writes) /\ Len(<<b, a>>) = 2
        /\ <<b, a>>[1] = b /\ <<b, a>>[2] = a
    BY <1>2
  <2>3. Plan(kind, m, <<a, b>>)
    BY <1>2, <2>1, <2>2
  <2>4. Plan(kind, m, <<b, a>>)
    BY <1>2, <2>1, <2>2
  <2> QED BY <2>3, <2>4
<1> QED BY <1>1, <1>2

LEMMA SavePlanned ==
  ASSUME NEW m, Good(m), NEW doc \in Documents, NEW refresh, Saveable(doc, m, refresh)
  PROVE  Plan("save", m, SavePlan(m, doc))
<1> DEFINE v == [m EXCEPT !.draft = [version |-> DraftVersion(m) + 1, doc |-> doc]]
           record == [previous |-> IF m.draft = None THEN None ELSE m.draft.doc]
           T == <<Put("pending", record), Put("article", doc),
                  Put("manifest", v), Put("pending", None)>>
<1>1. Good(v) /\ Saves(m, v)
  BY SavedGood
<1>2. record \in Saved
  BY GoodFacts, ManifestFacts DEF Saved, DocumentOf
<1>3. T \in Seq(Writes)
  <2> HIDE DEF v, record
  <2> QED BY <1>1, <1>2, WritesFacts
<1>4. /\ T[1].place = "pending" /\ T[2].place = "article"
      /\ T[3].value = v /\ T[4].place = "pending"
  BY DEF Put
<1>5. SavePlan(m, doc) = T
  BY DEF SavePlan
<1>6. 1..Len(T) = {1, 2, 3, 4}
  OBVIOUS
<1> HIDE DEF T, v
<1>7. \A i \in 1..Len(T) : T[i].place = "manifest" => i = 3
  BY <1>4, <1>6
<1> QED BY <1>1, <1>3, <1>4, <1>5, <1>7 DEF Plan, Becomes

\* A request with its checks done starts to write.
LEMMA PlannedStep ==
  ASSUME ContentInv, NEW p \in Procs, proc[p].pc = "plan", NEW todo,
         NEW ds \in SUBSET {"draft", "sources"}, Work(p, todo, ds),
         Plan(proc[p].kind, proc[p].man, todo)
  PROVE  ContentInv'
<1>1. PICK r : r = [proc[p] EXCEPT !.pc = "work", !.todo = todo]
  OBVIOUS
<1>2. ProcOK(proc[p])
  BY DEF ContentInv
<1>3. /\ DOMAIN r = DOMAIN Idle /\ r.pc = "work" /\ r.todo = todo
      /\ r.kind = proc[p].kind /\ r.doc = proc[p].doc /\ r.made = proc[p].made
      /\ r.seen = proc[p].seen /\ r.at = proc[p].at /\ r.man = proc[p].man
      /\ r.left = proc[p].left
  BY <1>1, <1>2 DEF ProcOK, Idle
<1>4. ProcOK(r)
  BY <1>2, <1>3 DEF ProcOK, Pcs, HoldingPcs
<1>5. DiskOK'
  BY DEF Work, DiskOK, ContentInv
<1> QED BY <1>1, <1>4, <1>5, ContentStep DEF Work

LEMMA ReadBy ==
  ASSUME ContentInv, NEW p \in Procs, proc[p].pc = "plan"
  PROVE  Good(proc[p].man) /\ ProcOK(proc[p])
BY DEF ContentInv, ProcOK

LEMMA SaveContent ==
  ASSUME ContentInv, NEW p \in Procs, SaveDraft(p)
  PROVE  ContentInv'
<1>1. /\ Good(proc[p].man) /\ proc[p].doc \in Documents \cup {None}
      /\ proc[p].kind = "save" /\ proc[p].pc = "plan"
  BY ReadBy DEF SaveDraft, ProcOK
<1>2. PICK doc \in Documents : /\ Saveable(doc, proc[p].man, proc[p].refresh)
                               /\ Work(p, SavePlan(proc[p].man, doc), {"draft"})
  BY <1>1 DEF SaveDraft
<1>3. Plan("save", proc[p].man, SavePlan(proc[p].man, doc))
  BY <1>1, <1>2, SavePlanned
<1> QED BY <1>1, <1>2, <1>3, PlannedStep

\* What the plan of an upload or a collection amounts to.
LEMMA CollectPlanned ==
  ASSUME NEW m, Good(m), NEW c \in Nat, m.next + c - 1 <= MaxMaterial,
         NEW new \in [m.next..(m.next + c - 1) -> Origins],
         \A i, j \in DOMAIN new : new[i] = new[j] => i = j \/ new[i] = Web,
         \A i \in DOMAIN new : new[i] \in OriginsOf(m) => new[i] = Web,
         NEW included \in BOOLEAN, NEW kind, kind # "save"
  PROVE  Plan(kind, m, CollectPlan(m, new, included))
<1> DEFINE added == [id \in DOMAIN new |-> Material(new[id], TRUE, included)]
           f == Extend(m.sources, added)
           v == Changed(m, f, m.next + c)
           F == [i \in 1..c |-> PutFile(m.next + i - 1, new[m.next + i - 1])]
           D == m.next..(m.next + c - 1)
<1>1. /\ MaxMaterial \in Nat /\ m.next \in Nat /\ m.next >= 1 /\ DOMAIN new = D
      /\ \A i \in 1..c : m.next + i - 1 \in D /\ m.next + i - 1 \in Ids
      /\ \A id \in D : id \notin DOMAIN m.sources
  BY GoodFacts, WorkspaceAssumption DEF Ids
<1>2. Cardinality(D) = c
  <2>1. m.next \in Int /\ m.next + c - 1 \in Int
    BY <1>1
  <2>2. Cardinality(D) = IF m.next > m.next + c - 1 THEN 0 ELSE (m.next + c - 1) - m.next + 1
    BY <2>1, FS_Interval
  <2> HIDE DEF D
  <2> QED BY <1>1, <2>2
<1>3. /\ f = [id \in DOMAIN f |-> f[id]]
      /\ DOMAIN f = DOMAIN m.sources \cup DOMAIN new
      /\ \A id \in DOMAIN m.sources : f[id] = m.sources[id]
      /\ \A id \in DOMAIN new : f[id] = Material(new[id], TRUE, included)
  <2>1. DOMAIN added = D /\ \A id \in D : added[id] = Material(new[id], TRUE, included)
    BY <1>1
  <2> HIDE DEF added, D
  <2> QED BY <1>1, <2>1 DEF Extend
<1>4. DraftMedia(m) \subseteq DOMAIN m.sources
  BY GoodFacts DEF Ready
<1>5. Good(v) /\ Changes(m, v)
  <2> HIDE DEF f
  <2> QED BY ZenonT(30), <1>3, <1>4, AddedGood
<1>6. F \in Seq(Writes) /\ Len(F) = c /\ \A i \in 1..Len(F) : F[i].place = "file"
  <2>1. \A i \in 1..c : F[i] \in Writes /\ F[i].place = "file"
    <3>1. ASSUME NEW i \in 1..c
          PROVE  F[i] = PutFile(m.next + i - 1, new[m.next + i - 1])
                 /\ m.next + i - 1 \in Ids /\ new[m.next + i - 1] \in Origins
      BY <1>1
    <3> QED BY <3>1, WritesFacts DEF PutFile
  <2> QED BY <2>1, IsASeq
<1>7. CollectPlan(m, new, included) = F \o <<Put("manifest", v)>>
  BY <1>1, <1>2 DEF CollectPlan
<1> HIDE DEF F, v
<1> QED BY <1>5, <1>6, <1>7, FilesPlan DEF Becomes

LEMMA CollectContent ==
  ASSUME ContentInv, NEW p \in Procs, Upload(p) \/ Collect(p)
  PROVE  ContentInv'
<1> DEFINE m == proc[p].man
<1>1. /\ Good(m) /\ proc[p].kind # "save" /\ proc[p].pc = "plan"
      /\ m.next \in Nat /\ MaxMaterial \in Nat
  BY ReadBy, GoodFacts, WorkspaceAssumption DEF Upload, Collect
<1>2. CASE Upload(p)
  <2>1. PICK new : /\ new = [id \in {m.next} |-> Web]
                   /\ Work(p, CollectPlan(m, new, FALSE), {"sources"})
    BY <1>2 DEF Upload
  <2>2. m.next..(m.next + 1 - 1) = {m.next} /\ m.next + 1 - 1 <= MaxMaterial
    BY <1>1, <1>2 DEF Upload
  <2>3. new \in [m.next..(m.next + 1 - 1) -> Origins]
    BY <2>1, <2>2 DEF Origins
  <2>4. Plan(proc[p].kind, m, CollectPlan(m, new, FALSE))
    <3> HIDE DEF m
    <3> QED BY <1>1, <2>1, <2>2, <2>3, CollectPlanned
  <2> QED BY <1>1, <2>1, <2>4, PlannedStep
<1>3. CASE Collect(p)
  <2> DEFINE fresh == Collectable(m)
  <2>1. PICK order \in Numberings(fresh, m.next), included \in BOOLEAN :
          Work(p, CollectPlan(m, order, included), {"sources"})
    BY <1>3 DEF Collect
  <2>2. /\ IsFiniteSet(fresh) /\ fresh \subseteq Origins
        /\ \A o \in fresh : o \notin OriginsOf(m)
    BY WorkspaceAssumption, FS_Subset DEF Collectable, Origins
  <2>3. Cardinality(fresh) \in Nat
    BY <2>2, FS_CardinalityType
  <2>4. m.next + Cardinality(fresh) - 1 <= MaxMaterial
    BY <1>3 DEF Collect
  <2>5. /\ order \in [m.next..(m.next + Cardinality(fresh) - 1) -> fresh]
        /\ \A i, j \in DOMAIN order : order[i] = order[j] => i = j
    <3> HIDE DEF m, fresh
    <3> QED BY <2>1 DEF Numberings, Bijection, Injection, IsInjective
  <2>6. Plan(proc[p].kind, m, CollectPlan(m, order, included))
    <3> HIDE DEF m, fresh
    <3>1. order \in [m.next..(m.next + Cardinality(fresh) - 1) -> Origins]
      BY <2>2, <2>5
    <3>2. \A i \in DOMAIN order : order[i] \notin OriginsOf(m)
      BY <2>2, <2>5
    <3> QED BY <1>1, <2>3, <2>4, <2>5, <3>1, <3>2, CollectPlanned
  <2> QED BY <1>1, <2>1, <2>6, PlannedStep
<1> QED BY <1>2, <1>3

LEMMA ImportContent ==
  ASSUME ContentInv, NEW p \in Procs, Import(p)
  PROVE  ContentInv'
<1> DEFINE m == proc[p].man
           S == DOMAIN m.sources
           origin(id) == m.sources[id].origin
           f(id, inc) == [m.sources EXCEPT ![id].ready = TRUE, ![id].included = inc]
<1>1. Good(m) /\ proc[p].kind = "import" /\ proc[p].pc = "plan"
  BY ReadBy DEF Import
<1>2. PICK id \in S \ Ready(m), inc \in BOOLEAN :
        Work(p, <<PutFile(id, origin(id)),
                  Put("manifest", Changed(m, f(id, inc), m.next))>>, {"sources"})
  BY DEF Import
<1>3. /\ S \subseteq Ids /\ m.sources \in [S -> Sources]
      /\ m.next \in 1..(MaxMaterial + 1) /\ m.next >= m.next
      /\ origin(id) \in Origins
  BY <1>1, GoodFacts, WorkspaceAssumption DEF Sources
<1>4. /\ f(id, inc) \in [S -> Sources]
      /\ \A x \in S : /\ f(id, inc)[x].origin = m.sources[x].origin
                      /\ m.sources[x].ready => f(id, inc)[x].ready
                      /\ f(id, inc)[x].included =>
                           f(id, inc)[x].ready \/ m.sources[x].included
                      /\ x # id => f(id, inc)[x] = m.sources[x]
                      /\ f(id, inc)[id].ready
  <2> HIDE DEF m
  <2> QED BY <1>3 DEF Sources
<1>5. Good(Changed(m, f(id, inc), m.next)) /\ Changes(m, Changed(m, f(id, inc), m.next))
  <2>1. \A x \in S :
          /\ x < m.next
          /\ f(id, inc)[x].included => f(id, inc)[x].ready
          /\ IF x \in DOMAIN m.sources THEN f(id, inc)[x].origin = m.sources[x].origin
                                        ELSE x >= m.next
    <3> HIDE DEF f, m
    <3> QED BY <1>1, <1>4, GoodFacts
  <2>2. \A x, y \in S : f(id, inc)[x].origin = f(id, inc)[y].origin =>
                          x = y \/ f(id, inc)[x].origin = Web
    <3> HIDE DEF f, m
    <3> QED BY <1>1, <1>4, GoodFacts
  <2>3. \A x \in DraftMedia(m) : x \in S /\ f(id, inc)[x].ready
    <3> HIDE DEF f, m
    <3> QED BY <1>1, <1>4, GoodFacts DEF Ready
  <2> HIDE DEF f, m
  <2> QED BY <1>1, <1>3, <1>4, <2>1, <2>2, <2>3, ChangedGood
<1>6. Plan("import", m, <<PutFile(id, origin(id)),
                          Put("manifest", Changed(m, f(id, inc), m.next))>>)
  <2>1. id \in Ids
    BY <1>3
  <2> HIDE DEF f, m, origin
  <2> QED BY <1>3, <1>5, <2>1, FileAndManifestPlan DEF Becomes
<1> QED BY <1>1, <1>2, <1>6, PlannedStep

LEMMA UpdateContent ==
  ASSUME ContentInv, NEW p \in Procs, Update(p)
  PROVE  ContentInv'
<1> DEFINE m == proc[p].man
           D == DOMAIN m.sources
           f(S) == [id \in D |-> [m.sources[id] EXCEPT !.included = (id \in S)]]
<1>1. Good(m) /\ proc[p].kind = "update" /\ proc[p].pc = "plan"
  BY ReadBy DEF Update
<1>2. PICK S \in SUBSET Ready(m) :
        Work(p, <<Put("manifest", Changed(m, f(S), m.next))>>, {})
  BY DEF Update
<1>3. D \subseteq Ids /\ m.next \in 1..(MaxMaterial + 1) /\ m.next >= m.next
  BY <1>1, GoodFacts, WorkspaceAssumption
<1>4. ASSUME NEW x \in D
      PROVE  /\ f(S)[x] \in Sources
             /\ f(S)[x].origin = m.sources[x].origin
             /\ f(S)[x].ready = m.sources[x].ready
             /\ f(S)[x].included = (x \in S)
  <2>1. ASSUME NEW s \in Sources, NEW b \in BOOLEAN
        PROVE  /\ [s EXCEPT !.included = b] \in Sources
               /\ [s EXCEPT !.included = b].origin = s.origin
               /\ [s EXCEPT !.included = b].ready = s.ready
               /\ [s EXCEPT !.included = b].included = b
    BY DEF Sources
  <2>2. m.sources[x] \in Sources /\ (x \in S) \in BOOLEAN
    BY <1>1, GoodFacts
  <2>3. f(S)[x] = [m.sources[x] EXCEPT !.included = (x \in S)]
    OBVIOUS
  <2> HIDE DEF f, m
  <2>4. PICK b \in BOOLEAN : b = (x \in S)
    BY <2>2
  <2>5. PICK s \in Sources : s = m.sources[x]
    BY <2>2
  <2>6. f(S)[x] = [s EXCEPT !.included = b]
    BY <2>3, <2>4, <2>5, Zenon
  <2>7. /\ f(S)[x] \in Sources /\ f(S)[x].origin = s.origin
        /\ f(S)[x].ready = s.ready /\ f(S)[x].included = b
    BY <2>1, <2>6
  <2> QED BY <2>4, <2>5, <2>7, Zenon
<1>5. f(S) \in [D -> Sources]
  BY <1>4
<1>6. Good(Changed(m, f(S), m.next)) /\ Changes(m, Changed(m, f(S), m.next))
  <2> HIDE DEF f
  <2>1. \A x \in D :
          /\ x < m.next
          /\ f(S)[x].included => f(S)[x].ready
          /\ IF x \in DOMAIN m.sources THEN f(S)[x].origin = m.sources[x].origin
                                        ELSE x >= m.next
    <3>1. \A x \in D : x < m.next
      BY <1>1, GoodFacts
    <3>2. \A x \in D : f(S)[x].included => f(S)[x].ready
      BY <1>4 DEF Ready
    <3> QED BY <1>4, <3>1, <3>2
  <2>2. \A x, y \in D : f(S)[x].origin = f(S)[y].origin =>
                          x = y \/ f(S)[x].origin = Web
    <3> HIDE DEF m
    <3> QED BY <1>1, <1>4, GoodFacts
  <2>3. \A x \in DraftMedia(m) : x \in D /\ f(S)[x].ready
    <3> HIDE DEF m
    <3> QED BY <1>1, <1>4, GoodFacts DEF Ready
  <2> HIDE DEF m
  <2> QED BY <1>1, <1>3, <1>5, <2>1, <2>2, <2>3, ChangedGood
<1>7. Plan("update", m, <<Put("manifest", Changed(m, f(S), m.next))>>)
  <2> HIDE DEF f, m
  <2> QED BY <1>6, ManifestPlan DEF Becomes
<1> QED BY <1>1, <1>2, <1>7, PlannedStep

LEMMA DiscardContent ==
  ASSUME ContentInv, NEW p \in Procs, Discard(p)
  PROVE  ContentInv'
<1> DEFINE m == proc[p].man
           D == DOMAIN m.sources
           kept(id) == [m.sources EXCEPT ![id].ready = FALSE, ![id].included = FALSE]
           f(id) == IF m.sources[id].origin \in Keys
                    THEN kept(id) ELSE Without(m.sources, {id})
<1>1. Good(m) /\ proc[p].kind = "discard" /\ proc[p].pc = "plan"
  BY ReadBy DEF Discard
<1>2. PICK id \in Ready(m) :
        /\ Unreferenced(m, id)
        /\ Work(p, <<Put("manifest", Changed(m, f(id), m.next)), PutFile(id, None)>>, {})
  BY DEF Discard
<1>3. /\ D \subseteq Ids /\ m.next \in 1..(MaxMaterial + 1) /\ m.next >= m.next
      /\ m.sources \in [D -> Sources] /\ id \in D
  BY <1>1, GoodFacts, WorkspaceAssumption DEF Ready
<1>4. PICK S \in SUBSET D :
        /\ f(id) \in [S -> Sources]
        /\ D \ {id} \subseteq S
        /\ \A x \in S : /\ x # id => f(id)[x] = m.sources[x]
                        /\ f(id)[x].origin = m.sources[x].origin
                        /\ x = id => ~f(id)[x].included
  <2>1. CASE m.sources[id].origin \in Keys
    <3>1. f(id) = kept(id)
      BY <2>1
    <3>2. /\ kept(id) \in [D -> Sources]
          /\ \A x \in D : /\ x # id => kept(id)[x] = m.sources[x]
                          /\ kept(id)[x].origin = m.sources[x].origin
                          /\ x = id => ~kept(id)[x].included
      <4> HIDE DEF m
      <4> QED BY <1>3 DEF Sources
    <3> HIDE DEF kept, f, m
    <3> QED BY <3>1, <3>2
  <2>2. CASE m.sources[id].origin \notin Keys
    <3>1. f(id) = [x \in D \ {id} |-> m.sources[x]]
      BY <2>2 DEF Without, Restrict
    <3> HIDE DEF kept, f, m
    <3> QED BY <1>3, <3>1
  <2> QED BY <2>1, <2>2
<1>5. id \notin DraftMedia(m)
  BY <1>2 DEF Unreferenced, DraftMedia
<1>6. Good(Changed(m, f(id), m.next)) /\ Changes(m, Changed(m, f(id), m.next))
  <2> HIDE DEF f, m
  <2>1. \A x \in S :
          /\ x < m.next
          /\ f(id)[x].included => f(id)[x].ready
          /\ IF x \in DOMAIN m.sources THEN f(id)[x].origin = m.sources[x].origin
                                        ELSE x >= m.next
    BY <1>1, <1>4, GoodFacts
  <2>2. \A x, y \in S : f(id)[x].origin = f(id)[y].origin =>
                          x = y \/ f(id)[x].origin = Web
    BY <1>1, <1>4, GoodFacts
  <2>3. \A x \in DraftMedia(m) : x \in S /\ f(id)[x].ready
    BY <1>1, <1>4, <1>5, GoodFacts DEF Ready
  <2>4. S \in SUBSET Ids
    BY <1>3
  <2> QED BY <1>1, <1>3, <1>4, <2>1, <2>2, <2>3, <2>4, ChangedGood
<1>7. Plan("discard", m, <<Put("manifest", Changed(m, f(id), m.next)), PutFile(id, None)>>)
  <2>1. id \in Ids
    BY <1>3
  <2> HIDE DEF f, m
  <2> QED BY <1>6, <2>1, FileAndManifestPlan DEF Becomes
<1> QED BY <1>1, <1>2, <1>7, PlannedStep

LEMMA SyncContent ==
  ASSUME ContentInv, NEW p \in Procs, Sync(p)
  PROVE  ContentInv'
<1> DEFINE m    == proc[p].man
           new  == proc[p].seen \ Known(m)
           gone == Gone(m, proc[p].seen)
           c    == Cardinality(new)
           kept == DOMAIN m.sources \ gone
           f(g) == Extend(Without(m.sources, gone),
                          [id \in DOMAIN g |-> Material(g[id], FALSE, FALSE)])
<1>1. Good(m) /\ proc[p].kind = "sync" /\ proc[p].pc = "plan" /\ ProcOK(proc[p])
  BY ReadBy DEF Sync
<1>2. CASE /\ Become(p, [proc[p] EXCEPT !.pc = "draft", !.kind = "read"])
           /\ UNCHANGED <<disk, library>>
  <2>1. PICK r : r = [proc[p] EXCEPT !.pc = "draft", !.kind = "read"]
    OBVIOUS
  <2>2. /\ DOMAIN r = DOMAIN Idle /\ r.pc = "draft" /\ r.kind = "read"
        /\ r.todo = proc[p].todo /\ r.doc = proc[p].doc /\ r.made = proc[p].made
        /\ r.seen = proc[p].seen /\ r.at = proc[p].at /\ r.man = proc[p].man
        /\ r.left = proc[p].left
    BY <1>1, <2>1 DEF ProcOK, Idle
  <2>3. ProcOK(r)
    BY <1>1, <2>2 DEF ProcOK, Pcs, HoldingPcs, AllKinds
  <2>4. DiskOK'
    BY <1>2, SameDiskOK DEF ContentInv
  <2> QED BY <1>2, <2>1, <2>3, <2>4, ContentStep
<1>3. CASE /\ m.next + c - 1 <= MaxMaterial
           /\ \E g \in Numberings(new, m.next) :
                Work(p, <<Put("manifest", Changed(m, f(g), m.next + c))>>, {})
  <2>1. PICK g \in Numberings(new, m.next) :
          Work(p, <<Put("manifest", Changed(m, f(g), m.next + c))>>, {})
    BY <1>3
  <2>2. IsFiniteSet(new) /\ new \subseteq Keys /\ \A o \in new : o \notin OriginsOf(m)
    BY <1>1, WorkspaceAssumption, FS_Subset DEF ProcOK, Known
  <2>3. c \in Nat
    BY <2>2, FS_CardinalityType
  <2>4. /\ g \in [m.next..(m.next + c - 1) -> new]
        /\ \A i, j \in DOMAIN g : g[i] = g[j] => i = j
    <3> HIDE DEF m, new
    <3> QED BY <2>1 DEF Numberings, Bijection, Injection, IsInjective
  <2>5. /\ f(g) = [id \in DOMAIN f(g) |-> f(g)[id]]
        /\ DOMAIN f(g) = kept \cup DOMAIN g
        /\ \A id \in kept : id \notin DOMAIN g => f(g)[id] = m.sources[id]
        /\ \A id \in DOMAIN g : f(g)[id] = Material(g[id], FALSE, FALSE)
    <3> HIDE DEF m, gone
    <3> QED BY DEF Extend, Without, Restrict
  <2>6. \A id \in kept : id \notin DOMAIN g
    <3> HIDE DEF m, c, new, gone
    <3> QED BY <1>1, <2>3, <2>4, GoodFacts
  <2>7. DraftMedia(m) \subseteq kept
    <3>1. DraftMedia(m) \subseteq Ready(m)
      BY <1>1, GoodFacts
    <3> HIDE DEF m
    <3> QED BY <3>1 DEF Gone, Ready
  <2>8. /\ g \in [m.next..(m.next + c - 1) -> Origins]
        /\ \A i \in DOMAIN g : g[i] \notin OriginsOf(m)
    <3> HIDE DEF m, c, new
    <3> QED BY <2>2, <2>4 DEF Origins
  <2>9. /\ Good(Changed(m, f(g), m.next + c))
        /\ Changes(m, Changed(m, f(g), m.next + c))
    <3>1. m.next + c - 1 <= MaxMaterial
      BY <1>3
    <3>2. kept \in SUBSET DOMAIN m.sources
      OBVIOUS
    <3> HIDE DEF m, f, c, new, gone, kept
    <3> QED BY <1>1, <2>3, <2>4, <2>5, <2>6, <2>7, <2>8, <3>1, <3>2, AddedGood
  <2>10. Plan("sync", m, <<Put("manifest", Changed(m, f(g), m.next + c))>>)
    <3> HIDE DEF f, m, c
    <3> QED BY <2>9, ManifestPlan DEF Becomes
  <2> QED BY <1>1, <2>1, <2>10, PlannedStep
<1> QED BY <1>2, <1>3 DEF Sync

-----------------------------------------------------------------------------
(* The other steps of a request *)

LEMMA RecoveryWrites ==
  ASSUME DiskOK, NEW m
  PROVE  NoManifest(Recovery(m))
<1> DEFINE A(d) == <<Put("article", d), Put("pending", None)>>
<1>1. ASSUME NEW d \in Documents \cup {None} PROVE NoManifest(A(d))
  <2>1. A(d) \in Seq(Writes) /\ 1..Len(A(d)) = {1, 2}
    BY WritesFacts
  <2>2. A(d)[1].place # "manifest" /\ A(d)[2].place # "manifest"
    BY DEF Put
  <2> HIDE DEF A
  <2> QED BY <2>1, <2>2 DEF NoManifest
<1>2. NoManifest(<<>>) /\ NoManifest(<<Put("pending", None)>>)
  <2>1. /\ <<>> \in Seq(Writes) /\ 1..Len(<<>>) = {}
        /\ <<Put("pending", None)>> \in Seq(Writes)
        /\ 1..Len(<<Put("pending", None)>>) = {1}
    BY WritesFacts
  <2>2. <<Put("pending", None)>>[1].place # "manifest"
    BY DEF Put
  <2> QED BY <2>1, <2>2 DEF NoManifest
<1>3. pending # None => pending.previous \in Documents \cup {None}
  BY DEF DiskOK, Saved
<1>4. \/ Recovery(m) = <<>> \/ Recovery(m) = <<Put("pending", None)>>
      \/ Recovery(m) = A(None) \/ (pending # None /\ Recovery(m) = A(pending.previous))
  BY DEF Recovery
<1> HIDE DEF A
<1> QED BY <1>1, <1>2, <1>3, <1>4

\* Some inode is free: there is one more than processes.
LEMMA FreeInode ==
  ASSUME DOMAIN proc = Procs
  PROVE  \E i \in Inodes : \A q \in Procs : proc[q].at # i
<1> SUFFICES ASSUME \A i \in Inodes : \E q \in Procs : proc[q].at = i PROVE FALSE
  OBVIOUS
<1> DEFINE n == Cardinality(Procs)
           user == [i \in Inodes |-> CHOOSE q \in Procs : proc[q].at = i]
<1>1. IsFiniteSet(Procs) /\ n \in Nat
  BY WorkspaceAssumption, FS_CardinalityType
<1>2. IsFiniteSet(Inodes) /\ Cardinality(Inodes) = n + 1
  <2>1. 0 \in Int /\ n \in Int
    BY <1>1
  <2>2. IsFiniteSet(0..n) /\ Cardinality(0..n) = IF 0 > n THEN 0 ELSE n - 0 + 1
    BY <2>1, FS_Interval
  <2> QED BY <1>1, <2>2 DEF Inodes
<1>3. user \in [Inodes -> Procs] /\ \A i \in Inodes : proc[user[i]].at = i
  OBVIOUS
<1>4. n < n + 1
  BY <1>1
<1>5. \E i, j \in Inodes : i # j /\ user[i] = user[j]
  <2> HIDE DEF n, user
  <2>1. n < Cardinality(Inodes) /\ n = Cardinality(Procs)
    BY <1>2, <1>4 DEF n
  <2> QED BY <1>1, <1>2, <1>3, <2>1, FS_PigeonHole
<1> HIDE DEF user
<1> QED BY <1>3, <1>5

LEMMA OpenContent ==
  ASSUME ContentInv, NEW p \in Procs, OpenLock(p) \/ Acquire(p)
  PROVE  ContentInv'
<1>1. ProcOK(proc[p]) /\ DiskOK /\ DOMAIN proc = Procs
  BY DEF ContentInv
<1>2. CASE OpenLock(p)
  <2>1. \/ lock # None /\ lock' = lock
        \/ lock = None /\ lock' = CHOOSE i \in Inodes : \A q \in Procs : proc[q].at # i
    BY <1>2 DEF OpenLock
  <2>2. lock' \in Inodes
    BY <1>1, <2>1, FreeInode DEF DiskOK
  <2>3. lock' # None
    <3>1. Cardinality(Procs) \in Nat
      BY WorkspaceAssumption, FS_CardinalityType
    <3>2. Inodes \subseteq Nat
      BY <3>1 DEF Inodes
    <3> QED BY <2>2, <3>2, NullAssumption
  <2>4. PICK r : r = [proc[p] EXCEPT !.pc = "lock", !.at = lock']
    OBVIOUS
  <2>5. /\ DOMAIN r = DOMAIN Idle /\ r.pc = "lock" /\ r.at = lock'
        /\ r.kind = proc[p].kind /\ r.todo = proc[p].todo /\ r.doc = proc[p].doc
        /\ r.made = proc[p].made /\ r.seen = proc[p].seen /\ r.man = proc[p].man
        /\ r.left = proc[p].left
    BY <1>1, <2>4 DEF ProcOK, Idle
  <2>6. proc[p].pc = "open"
    BY <1>2 DEF OpenLock
  <2>7. ProcOK(r)
    BY <1>1, <2>2, <2>3, <2>5, <2>6 DEF ProcOK, Pcs, HoldingPcs
  <2>8. DiskOK'
    BY <1>1, <1>2, <2>2 DEF OpenLock, DiskOK, Good, Store!Consistent
  <2>9. Become(p, r)
    BY <1>2, <2>4 DEF OpenLock
  <2> QED BY <2>7, <2>8, <2>9, ContentStep
<1>3. CASE Acquire(p)
  <2>1. PICK r : r = [proc[p] EXCEPT !.pc = "read"]
    OBVIOUS
  <2>2. /\ DOMAIN r = DOMAIN Idle /\ r.pc = "read" /\ r.at = proc[p].at
        /\ r.kind = proc[p].kind /\ r.todo = proc[p].todo /\ r.doc = proc[p].doc
        /\ r.made = proc[p].made /\ r.seen = proc[p].seen /\ r.man = proc[p].man
        /\ r.left = proc[p].left
    BY <1>1, <2>1 DEF ProcOK, Idle
  <2>3. proc[p].pc = "lock"
    BY <1>3 DEF Acquire
  <2>4. ProcOK(r)
    BY <1>1, <2>2, <2>3 DEF ProcOK, Pcs, HoldingPcs
  <2> QED BY <1>1, <1>3, <2>1, <2>4, SameDiskOK, ContentStep DEF Acquire
<1> QED BY <1>2, <1>3

LEMMA ReadContent ==
  ASSUME ContentInv, NEW p \in Procs,
         ReadManifest(p) \/ Recover(p) \/ Recovered(p) \/ Revise(p) \/ Remove(p)
  PROVE  ContentInv'
<1>1. ProcOK(proc[p]) /\ DiskOK /\ DiskOK'
  BY SameDiskOK DEF ContentInv, ReadManifest, Recover, Recovered, Revise, Remove
<1>2. CASE ReadManifest(p)
  <2>1. PICK pc \in {"draft", "plan"} :
          Become(p, [proc[p] EXCEPT !.pc = pc, !.man = manifest])
    BY <1>2 DEF ReadManifest
  <2>2. PICK r : r = [proc[p] EXCEPT !.pc = pc, !.man = manifest]
    OBVIOUS
  <2>3. /\ DOMAIN r = DOMAIN Idle /\ r.pc = pc /\ r.at = proc[p].at
        /\ r.kind = proc[p].kind /\ r.todo = proc[p].todo /\ r.doc = proc[p].doc
        /\ r.made = proc[p].made /\ r.seen = proc[p].seen /\ r.man = manifest
        /\ r.left = proc[p].left
    BY <1>1, <2>2 DEF ProcOK, Idle
  <2>4. proc[p].pc = "read" /\ Good(manifest)
    BY <1>1, <1>2 DEF ReadManifest, DiskOK
  <2>5. ProcOK(r)
    BY <1>1, <2>3, <2>4 DEF ProcOK, Pcs, HoldingPcs
  <2> QED BY <1>1, <2>1, <2>2, <2>5, ContentStep
<1>3. CASE Recover(p)
  <2>1. PICK r : r = [proc[p] EXCEPT !.pc = "recover", !.todo = Recovery(proc[p].man)]
    OBVIOUS
  <2>2. /\ DOMAIN r = DOMAIN Idle /\ r.pc = "recover" /\ r.at = proc[p].at
        /\ r.kind = proc[p].kind /\ r.todo = Recovery(proc[p].man)
        /\ r.doc = proc[p].doc /\ r.made = proc[p].made /\ r.seen = proc[p].seen
        /\ r.man = proc[p].man /\ r.left = proc[p].left
    BY <1>1, <2>1 DEF ProcOK, Idle
  <2>3. proc[p].pc = "draft" /\ NoManifest(Recovery(proc[p].man))
    BY <1>1, <1>3, RecoveryWrites DEF Recover
  <2>4. ProcOK(r)
    BY <1>1, <2>2, <2>3 DEF ProcOK, Pcs, HoldingPcs
  <2> QED BY <1>1, <1>3, <2>1, <2>4, ContentStep DEF Recover
<1>4. CASE Recovered(p)
  <2>1. CASE Leave(p)
    BY <1>1, <2>1, ContentLeave
  <2>2. CASE Become(p, [proc[p] EXCEPT !.pc = "plan"])
    <3>1. PICK r : r = [proc[p] EXCEPT !.pc = "plan"]
      OBVIOUS
    <3>2. /\ DOMAIN r = DOMAIN Idle /\ r.pc = "plan" /\ r.at = proc[p].at
          /\ r.kind = proc[p].kind /\ r.todo = proc[p].todo
          /\ r.doc = proc[p].doc /\ r.made = proc[p].made /\ r.seen = proc[p].seen
          /\ r.man = proc[p].man /\ r.left = proc[p].left
      BY <1>1, <3>1 DEF ProcOK, Idle
    <3>3. proc[p].pc = "recover"
      BY <1>4 DEF Recovered
    <3>4. ProcOK(r)
      BY <1>1, <3>2, <3>3 DEF ProcOK, Pcs, HoldingPcs
    <3> QED BY <1>1, <2>2, <3>1, <3>4, ContentStep
  <2> QED BY <1>4, <2>1, <2>2 DEF Recovered
<1>5. CASE Revise(p)
  <2>1. PICK doc \in Documents :
          Become(p, [proc[p] EXCEPT !.pc = "open", !.kind = "save", !.at = None,
                       !.doc = doc, !.base = DraftVersion(proc[p].man), !.man = None])
    BY <1>5 DEF Revise
  <2>2. PICK r : r = [proc[p] EXCEPT !.pc = "open", !.kind = "save", !.at = None,
                       !.doc = doc, !.base = DraftVersion(proc[p].man), !.man = None]
    OBVIOUS
  <2>3. /\ DOMAIN r = DOMAIN Idle /\ r.pc = "open" /\ r.at = None
        /\ r.kind = "save" /\ r.todo = proc[p].todo
        /\ r.doc = doc /\ r.made = proc[p].made /\ r.seen = proc[p].seen
        /\ r.man = None /\ r.left = proc[p].left
    BY <1>1, <2>2 DEF ProcOK, Idle
  <2>4. proc[p].pc = "plan"
    BY <1>5 DEF Revise
  <2>5. ProcOK(r)
    BY <1>1, <2>3, <2>4 DEF ProcOK, Pcs, HoldingPcs, AllKinds
  <2> QED BY <1>1, <2>1, <2>2, <2>5, ContentStep
<1>6. CASE Remove(p)
  <2>1. PICK left : /\ left = (dirs \ {"root"}) \cup {"manifest"}
                                 \cup IF lock = None THEN {} ELSE {"lock"}
                    /\ Become(p, [proc[p] EXCEPT !.pc = "removing", !.left = left])
    BY <1>6 DEF Remove
  <2>2. left \subseteq {"manifest", "lock", "draft", "sources"}
    BY <1>1, <2>1 DEF DiskOK
  <2>3. PICK r : r = [proc[p] EXCEPT !.pc = "removing", !.left = left]
    OBVIOUS
  <2>4. /\ DOMAIN r = DOMAIN Idle /\ r.pc = "removing" /\ r.at = proc[p].at
        /\ r.kind = proc[p].kind /\ r.todo = proc[p].todo
        /\ r.doc = proc[p].doc /\ r.made = proc[p].made /\ r.seen = proc[p].seen
        /\ r.man = proc[p].man /\ r.left = left
    BY <1>1, <2>3 DEF ProcOK, Idle
  <2>5. proc[p].pc = "plan"
    BY <1>6 DEF Remove
  <2>6. ProcOK(r)
    BY <1>1, <2>2, <2>4, <2>5 DEF ProcOK, Pcs, HoldingPcs
  <2> QED BY <1>1, <2>1, <2>3, <2>6, ContentStep
<1> QED BY <1>2, <1>3, <1>4, <1>5, <1>6

\* Writing keeps the disk's types whatever the other processes do meanwhile.
LEMMA ApplyOK ==
  ASSUME DiskOK, NEW item \in Writes, Apply(item), UNCHANGED <<dirs, lock, library>>
  PROVE  DiskOK'
<1>1. Fits(item) /\ item.place \in {"pending", "article", "manifest", "file"}
  BY DEF Writes, Places
<1>2. CASE item.place = "file"
  BY <1>1, <1>2 DEF Apply, Fits, DiskOK, Good, Store!Consistent
<1>3. CASE item.place = "manifest"
  <2>1. Good(manifest')
    BY <1>1, <1>3 DEF Apply, Fits
  <2>2. Good(manifest)'
    BY <2>1 DEF Good
  <2> QED BY <1>3, <2>2 DEF Apply, DiskOK
<1>4. CASE item.place \in {"pending", "article"}
  BY <1>1, <1>4 DEF Apply, Fits, DiskOK, Good, Store!Consistent
<1> QED BY <1>1, <1>2, <1>3, <1>4

LEMMA WriteContent ==
  ASSUME ContentInv, NEW p \in Procs, Write(p) \/ WriteFails(p)
  PROVE  ContentInv'
<1> DEFINE me == proc[p]
           item == Head(me.todo)
<1>1. ProcOK(me) /\ DiskOK /\ me.pc \in WritingPcs /\ me.todo # <<>>
  BY DEF ContentInv, Write, WriteFails, Writing
<1>2. me.todo \in Seq(Writes)
  BY <1>1 DEF ProcOK, Plan, NoManifest
<1>3. item \in Writes /\ Fits(item) /\ Tail(me.todo) \in Seq(Writes)
  <2>1. \A T \in Seq(Writes) : T # <<>> =>
          Head(T) \in Writes /\ Tail(T) \in Seq(Writes)
    BY WritesTail
  <2>2. item \in Writes /\ Tail(me.todo) \in Seq(Writes)
    BY <1>1, <1>2, <2>1
  <2> QED BY <2>2 DEF Writes
<1>4. DiskOK'
  <2>1. CASE Apply(item) /\ UNCHANGED <<dirs, lock, library>>
    BY <1>1, <1>3, <2>1, ApplyOK
  <2>2. CASE UNCHANGED <<pending, article, manifest, files, dirs, lock, library>>
    BY <1>1, <2>2, SameDiskOK DEF disk
  <2> QED BY <2>1, <2>2 DEF Write, WriteFails
<1>5. \/ me.pc = "work" /\ Plan(me.kind, me.man, me.todo)
      \/ me.pc \in {"recover", "rollback", "cleanup"} /\ NoManifest(me.todo)
  BY <1>1 DEF ProcOK, WritingPcs
<1>6. ASSUME NEW r, r.todo = Tail(me.todo), DOMAIN r = DOMAIN Idle,
             r.pc = me.pc, r.kind = me.kind, r.at = me.at, r.doc = me.doc,
             r.seen = me.seen, r.left = me.left, r.made \subseteq Ids,
             \/ r.man = me.man
             \/ item.place = "manifest" /\ r.man = item.value
      PROVE  ProcOK(r)
  <2>1. CASE r.man = me.man
    BY <1>1, <1>5, <1>6, <2>1, PlanTail DEF ProcOK
  <2>2. CASE item.place = "manifest" /\ r.man = item.value
    <3>1. me.pc = "work" /\ Plan(me.kind, me.man, me.todo)
      BY <1>1, <1>5, <2>2, PlanTail
    <3>2. Plan(r.kind, r.man, r.todo)
      BY <1>1, <1>6, <2>2, <3>1, PlanTail
    <3>3. Good(r.man)
      BY <1>3, <2>2 DEF Fits
    <3> QED BY <1>1, <1>6, <3>1, <3>2, <3>3 DEF ProcOK
  <2> QED BY <1>6, <2>1, <2>2
<1>7. CASE Write(p)
  <2>1. PICK r : r = [proc[p] EXCEPT
                  !.todo = Tail(@), !.made = Made(p, Head(proc[p].todo)),
                  !.man = IF Head(proc[p].todo).place = "manifest"
                          THEN Head(proc[p].todo).value ELSE @]
    OBVIOUS
  <2>2. /\ r.todo = Tail(me.todo) /\ DOMAIN r = DOMAIN Idle
        /\ r.pc = me.pc /\ r.kind = me.kind /\ r.at = me.at /\ r.doc = me.doc
        /\ r.seen = me.seen /\ r.left = me.left /\ r.made = Made(p, item)
        /\ r.man = (IF item.place = "manifest" THEN item.value ELSE me.man)
    BY <1>1, <2>1 DEF ProcOK, Idle
  <2>3. Made(p, item) \subseteq Ids
    BY <1>1, <1>3 DEF Made, ProcOK, Fits
  <2>4. ProcOK(r)
    BY <1>6, <2>2, <2>3
  <2> QED BY <1>4, <1>7, <2>1, <2>4, ContentStep DEF Write
<1>8. CASE WriteFails(p)
  <2>1. CASE Leave(p)
    BY <1>4, <2>1, ContentLeave
  <2>2. CASE Become(p, [proc[p] EXCEPT !.todo = Tail(@)])
    <3>1. PICK r : r = [proc[p] EXCEPT !.todo = Tail(@)]
      OBVIOUS
    <3>2. /\ r.todo = Tail(me.todo) /\ DOMAIN r = DOMAIN Idle
          /\ r.pc = me.pc /\ r.kind = me.kind /\ r.at = me.at /\ r.doc = me.doc
          /\ r.seen = me.seen /\ r.left = me.left /\ r.made = me.made
          /\ r.man = me.man
      BY <1>1, <3>1 DEF ProcOK, Idle
    <3>3. me.made \subseteq Ids
      BY <1>1 DEF ProcOK
    <3>4. ProcOK(r)
      BY <1>6, <3>2, <3>3
    <3> QED BY <1>4, <2>2, <3>1, <3>4, ContentStep
  <2>3. CASE me.pc = "work" /\ Become(p, [proc[p] EXCEPT !.pc = "undo"])
    <3>1. PICK r : r = [proc[p] EXCEPT !.pc = "undo"]
      OBVIOUS
    <3>2. /\ DOMAIN r = DOMAIN Idle /\ r.pc = "undo" /\ r.at = me.at
          /\ r.kind = me.kind /\ r.todo = me.todo /\ r.doc = me.doc
          /\ r.made = me.made /\ r.seen = me.seen /\ r.man = me.man
          /\ r.left = me.left
      BY <1>1, <3>1 DEF ProcOK, Idle
    <3>3. ProcOK(r)
      BY <1>1, <2>3, <3>2 DEF ProcOK, Pcs, HoldingPcs
    <3> QED BY <1>4, <2>3, <3>1, <3>3, ContentStep
  <2> QED BY <1>8, <2>1, <2>2, <2>3 DEF WriteFails
<1> QED BY <1>7, <1>8

LEMMA UndoContent ==
  ASSUME ContentInv, NEW p \in Procs, Undo(p) \/ Finish(p)
  PROVE  ContentInv'
<1>1. ProcOK(proc[p]) /\ DiskOK /\ DiskOK'
  BY SameDiskOK DEF ContentInv, Undo, UndoSave, UndoMaterials, Finish
<1>2. CASE Leave(p)
  BY <1>1, <1>2, ContentLeave
<1>3. ASSUME NEW pc \in {"rollback", "cleanup"}, NEW todo, NoManifest(todo),
             proc[p].pc = "undo",
             Become(p, [proc[p] EXCEPT !.pc = pc, !.todo = todo])
      PROVE  ContentInv'
  <2>1. PICK r : r = [proc[p] EXCEPT !.pc = pc, !.todo = todo]
    OBVIOUS
  <2>2. /\ DOMAIN r = DOMAIN Idle /\ r.pc = pc /\ r.at = proc[p].at
        /\ r.kind = proc[p].kind /\ r.todo = todo /\ r.doc = proc[p].doc
        /\ r.made = proc[p].made /\ r.seen = proc[p].seen /\ r.man = proc[p].man
        /\ r.left = proc[p].left
    BY <1>1, <2>1 DEF ProcOK, Idle
  <2>3. ProcOK(r)
    BY <1>1, <1>3, <2>2 DEF ProcOK, Pcs, HoldingPcs
  <2> QED BY <1>1, <1>3, <2>1, <2>3, ContentStep
<1>4. CASE /\ proc[p].pc = "undo"
           /\ Become(p, [proc[p] EXCEPT !.pc = "rollback", !.todo = Recovery(manifest)])
  <2>1. NoManifest(Recovery(manifest))
    BY <1>1, RecoveryWrites
  <2> QED BY <1>3, <1>4, <2>1
<1>5. CASE proc[p].pc = "undo" /\ UndoMaterials(p)
  <2> DEFINE S == Unclaimed(proc[p].made)
  <2>1. PICK order \in Numberings(S, 1) :
          Become(p, [proc[p] EXCEPT !.pc = "cleanup",
                       !.todo = [i \in DOMAIN order |-> PutFile(order[i], None)]])
    BY <1>5 DEF UndoMaterials
  <2>2. S \subseteq Ids /\ IsFiniteSet(S) /\ Cardinality(S) \in Nat
    <3>1. S \subseteq Ids
      BY <1>1 DEF Unclaimed, ProcOK
    <3>2. IsFiniteSet(S)
      <4>1. IsFiniteSet(Ids)
        BY WorkspaceAssumption, FS_Interval DEF Ids
      <4> QED BY <3>1, <4>1, FS_Subset
    <3> QED BY <3>1, <3>2, FS_CardinalityType
  <2>3. order \in [1..Cardinality(S) -> S]
    <3> HIDE DEF S
    <3>1. 1 + Cardinality(S) - 1 = Cardinality(S)
      BY <2>2
    <3> QED BY <2>1, <3>1 DEF Numberings, Bijection, Injection
  <2> DEFINE todo == [i \in DOMAIN order |-> PutFile(order[i], None)]
  <2>4. NoManifest(todo)
    <3>1. /\ todo = [i \in 1..Cardinality(S) |-> todo[i]]
          /\ \A i \in 1..Cardinality(S) :
               todo[i] \in Writes /\ todo[i].place # "manifest"
      <4>1. DOMAIN order = 1..Cardinality(S)
        BY <2>3
      <4>2. \A i \in 1..Cardinality(S) : order[i] \in Ids
        BY <2>2, <2>3
      <4>3. \A i \in 1..Cardinality(S) : todo[i] = PutFile(order[i], None)
        BY <4>1
      <4>4. DOMAIN todo = 1..Cardinality(S)
        BY <4>1
      <4>5. \A id : PutFile(id, None).place # "manifest"
        BY DEF PutFile
      <4> HIDE DEF S
      <4> QED BY <4>1, <4>2, <4>3, <4>5, WritesFacts
    <3>2. todo \in Seq(Writes) /\ Len(todo) = Cardinality(S)
      <4> HIDE DEF S, todo
      <4> QED BY <2>2, <3>1, IsASeq
    <3> HIDE DEF S, todo
    <3> QED BY <3>1, <3>2 DEF NoManifest
  <2> QED BY <1>3, <1>5, <2>1, <2>4
<1>6. CASE /\ proc[p].pc = "work"
           /\ Become(p, [Idle EXCEPT !.pc = "draft", !.at = proc[p].at,
                                     !.man = proc[p].man])
           /\ proc[p].kind = "sync" /\ proc[p].todo = <<>>
  <2>1. PICK r : r = [Idle EXCEPT !.pc = "draft", !.at = proc[p].at, !.man = proc[p].man]
    OBVIOUS
  <2>2. /\ DOMAIN r = DOMAIN Idle /\ r.pc = "draft" /\ r.at = proc[p].at
        /\ r.kind = "read" /\ r.todo = <<>> /\ r.doc = None /\ r.made = {}
        /\ r.seen = {} /\ r.man = proc[p].man /\ r.left = {}
    BY <2>1 DEF Idle
  <2>3. Good(proc[p].man)
    BY <1>1, <1>6 DEF ProcOK
  <2>4. NoManifest(<<>>)
    BY IdleOK DEF ProcOK, Idle
  <2>5. ProcOK(r)
    BY <1>1, <1>6, <2>2, <2>3, <2>4 DEF ProcOK, Pcs, HoldingPcs, AllKinds
  <2> QED BY <1>1, <1>6, <2>1, <2>5, ContentStep
<1> QED BY <1>2, <1>4, <1>5, <1>6 DEF Undo, UndoSave, Finish

LEMMA RemoveContent ==
  ASSUME ContentInv, NEW p \in Procs,
         RemoveEntry(p) \/ RemoveDirectory(p) \/ RemoveFails(p)
  PROVE  ContentInv'
<1>1. ProcOK(proc[p]) /\ DiskOK
  BY DEF ContentInv
<1>2. CASE RemoveEntry(p)
  <2>1. PICK entry \in proc[p].left :
          /\ Become(p, [proc[p] EXCEPT !.left = @ \ {entry}])
          /\ manifest' = IF entry = "manifest" THEN None ELSE manifest
          /\ lock'     = IF entry = "lock" THEN None ELSE lock
          /\ dirs'     = dirs \ {entry}
          /\ IF entry = "draft" THEN article' = None /\ pending' = None
                                ELSE UNCHANGED <<article, pending>>
          /\ files'    = IF entry = "sources" THEN [id \in Ids |-> None] ELSE files
    BY <1>2 DEF RemoveEntry
  <2>2. PICK r : r = [proc[p] EXCEPT !.left = @ \ {entry}]
    OBVIOUS
  <2>3. /\ DOMAIN r = DOMAIN Idle /\ r.pc = proc[p].pc /\ r.at = proc[p].at
        /\ r.kind = proc[p].kind /\ r.todo = proc[p].todo /\ r.doc = proc[p].doc
        /\ r.made = proc[p].made /\ r.seen = proc[p].seen /\ r.man = proc[p].man
        /\ r.left = proc[p].left \ {entry}
    BY <1>1, <2>2 DEF ProcOK, Idle
  <2>4. ProcOK(r)
    BY <1>1, <2>3 DEF ProcOK
  <2>5. DiskOK'
    <3>1. (manifest = None \/ Good(manifest))'
      BY <1>1, <2>1 DEF DiskOK, Good, Store!Consistent
    <3>2. article' \in Documents \cup {None} /\ pending' \in Saved \cup {None}
      BY <1>1, <2>1 DEF DiskOK
    <3>3. files' \in [Ids -> Origins \cup {None}]
      BY <1>1, <2>1 DEF DiskOK
    <3>4. /\ dirs' \subseteq {"root", "draft", "sources"}
          /\ lock' \in Inodes \cup {None} /\ library' \subseteq Keys
      BY <1>1, <1>2, <2>1 DEF DiskOK, RemoveEntry
    <3> QED BY <3>1, <3>2, <3>3, <3>4 DEF DiskOK
  <2> QED BY <2>1, <2>2, <2>4, <2>5, ContentStep
<1>3. CASE RemoveDirectory(p)
  BY <1>1, <1>3, ContentLeave DEF RemoveDirectory, DiskOK, Good, Store!Consistent
<1>4. CASE RemoveFails(p)
  BY <1>1, <1>4, SameDiskOK, ContentLeave DEF RemoveFails
<1> QED BY <1>2, <1>3, <1>4

LEMMA ContentInit == Init => ContentInv
<1> SUFFICES ASSUME Init PROVE ContentInv
  OBVIOUS
<1>1. /\ manifest \in Manifests /\ library \subseteq Keys
  BY ReadableInit, NullAssumption DEF ReadableInv, DiskInv, Clean
<1>2. PICK f \in Numberings(library, 1) :
        manifest = [version |-> 1, next |-> Cardinality(library) + 1, draft |-> None,
                    sources |-> [id \in DOMAIN f |->
                      [origin |-> f[id], ready |-> FALSE, included |-> FALSE]]]
  BY DEF Init
<1>3. /\ IsFiniteSet(library) /\ Cardinality(library) \in Nat
  <2>1. IsFiniteSet(library)
    BY <1>1, WorkspaceAssumption, FS_Subset
  <2> QED BY <2>1, FS_CardinalityType
<1>4. /\ f \in [1..Cardinality(library) -> library]
      /\ \A i, j \in DOMAIN f : f[i] = f[j] => i = j
  <2>1. 1 + Cardinality(library) - 1 = Cardinality(library)
    BY <1>3
  <2> QED BY <2>1 DEF Numberings, Bijection, Injection, IsInjective
<1>5. /\ DOMAIN manifest.sources = 1..Cardinality(library)
      /\ manifest.next = Cardinality(library) + 1 /\ manifest.draft = None
      /\ \A id \in DOMAIN manifest.sources :
           /\ manifest.sources[id].origin = f[id]
           /\ manifest.sources[id].included = FALSE
  BY <1>2, <1>4
<1>6. Store!Consistent(manifest)
  <2>1. \A id \in DOMAIN manifest.sources : f[id] \in Origins
    BY <1>1, <1>4, <1>5 DEF Origins
  <2> QED BY <1>3, <1>4, <1>5, <2>1 DEF Store!Consistent
<1>7. DiskOK
  <2>1. 0 \in Inodes
    BY WorkspaceAssumption, FS_CardinalityType DEF Inodes
  <2> QED BY <1>1, <1>6, <2>1 DEF DiskOK, Good, Init
<1> QED BY <1>7, IdleOK DEF ContentInv, Init

LEMMA ContentNext == ContentInv /\ [Next]_vars => ContentInv'
<1> SUFFICES ASSUME ContentInv, [Next]_vars PROVE ContentInv'
  OBVIOUS
<1>1. ASSUME NEW p \in Procs, NEW kind \in AllKinds, Request(p, kind)
      PROVE  ContentInv'
  <2>1. PICK refresh, mver, dver, seen :
          /\ seen \subseteq Keys
          /\ Become(p, [Idle EXCEPT
               !.pc = "open", !.kind = kind, !.refresh = refresh,
               !.mver = mver, !.dver = dver, !.seen = seen])
    <3>1. library \subseteq Keys
      BY DEF ContentInv, DiskOK
    <3> QED BY <1>1, <3>1 DEF Request
  <2>2. PICK r : r = [Idle EXCEPT
               !.pc = "open", !.kind = kind, !.refresh = refresh,
               !.mver = mver, !.dver = dver, !.seen = seen]
    OBVIOUS
  <2>3. /\ DOMAIN r = DOMAIN Idle /\ r.pc = "open" /\ r.at = None
        /\ r.kind = kind /\ r.todo = <<>> /\ r.doc = None /\ r.made = {}
        /\ r.seen = seen /\ r.man = None /\ r.left = {}
    BY <2>2 DEF Idle
  <2>4. NoManifest(<<>>)
    BY IdleOK DEF ProcOK, Idle
  <2>5. ProcOK(r)
    BY <2>1, <2>3, <2>4 DEF ProcOK, Pcs, HoldingPcs
  <2>6. DiskOK'
    BY <1>1, SameDiskOK DEF ContentInv, Request
  <2> QED BY <2>1, <2>2, <2>5, <2>6, ContentStep
<1>2. ASSUME NEW p \in Procs,
             OpenFails(p) \/ ReadFails(p) \/ DraftFails(p) \/ Reject(p) \/ Crash(p)
      PROVE  ContentInv'
  <2>1. Leave(p) /\ DiskOK'
    BY <1>2, SameDiskOK
       DEF ContentInv, OpenFails, ReadFails, DraftFails, Reject, Crash
  <2> QED BY <2>1, ContentLeave
<1>3. ASSUME NEW p \in Procs, Serve(p) PROVE ContentInv'
  BY <1>2, <1>3, OpenContent, ReadContent, SaveContent, CollectContent, ImportContent,
     UpdateContent, SyncContent, DiscardContent, WriteContent, UndoContent,
     RemoveContent DEF Serve
<1>4. CASE LibraryChange
  <2>1. library' \subseteq Keys /\ UNCHANGED disk /\ proc' = proc
    BY <1>4 DEF LibraryChange, ContentInv, DiskOK
  <2>2. DiskOK'
    BY <2>1 DEF ContentInv, DiskOK, disk, Good, Store!Consistent
  <2>3. (\A p \in Procs : ProcOK(proc[p]))'
    BY <2>1 DEF ContentInv, ProcOK
  <2> QED BY <2>1, <2>2, <2>3 DEF ContentInv
<1>5. CASE UNCHANGED vars
  <2>1. UNCHANGED <<disk, library>> /\ proc' = proc
    BY <1>5 DEF vars, disk
  <2>2. DiskOK'
    BY <2>1, SameDiskOK DEF ContentInv
  <2>3. (\A p \in Procs : ProcOK(proc[p]))'
    BY <2>1 DEF ContentInv, ProcOK
  <2> QED BY <2>1, <2>2, <2>3 DEF ContentInv
<1> QED BY <1>1, <1>2, <1>3, <1>4, <1>5 DEF Next

\* Every file of the workspace holds what the code can have put there, and a
\* process that has the lock knows its inode, removals included.
THEOREM FilesAreTyped == Spec => []TypeOK
<1>1. ContentInv => TypeOK
  BY ContentGives
<1> QED BY ContentInit, ContentNext, <1>1, PTL DEF Spec

\* Even where a removal takes the lock file away under its holder and two
\* requests overwrite each other, a manifest on disk is consistent in itself:
\* known origins have one record each, what is included is ready, and the draft
\* shows ready materials only.
THEOREM ManifestStaysConsistent == Spec => []ManifestConsistent
<1>1. ContentInv => ManifestConsistent
  BY ContentGives
<1> QED BY ContentInit, ContentNext, <1>1, PTL DEF Spec

-----------------------------------------------------------------------------
(* What a request compares with the manifest when it writes *)

\* The version a request was sent with is not from the future, the document of
\* an edit was made from a draft between that one and the one on disk, and a
\* manifest about to be written comes from the one on disk.
Knows(r) ==
  /\ r.dver \in Nat /\ r.base \in Nat
  /\ r.dver <= DraftVersion(manifest)
  /\ r.doc # None => /\ r.kind = "save"
                     /\ r.dver <= r.base
                     /\ r.base <= DraftVersion(manifest)
  /\ r.pc = "work" /\ ~NoManifest(r.todo) =>
       /\ r.man = manifest
       /\ r.kind = "save" => r.dver = DraftVersion(manifest)

AllKnow == \A p \in Procs : Knows(proc[p])

KnownInv == ReadableInv /\ ContentInv /\ AllKnow

LEMMA BecomesFacts ==
  ASSUME NEW m, Good(m), NEW kind, NEW v, Becomes(kind, m, v)
  PROVE  /\ DraftVersion(m) \in Nat /\ DraftVersion(v) \in Nat
         /\ DraftVersion(m) <= DraftVersion(v)
         /\ v.draft # m.draft => kind = "save"
<1>1. DraftVersion(m) \in Nat /\ m \in Manifests
  BY GoodFacts, ManifestFacts
<1>2. CASE kind = "save"
  <2>1. PICK doc \in Documents :
          v = [m EXCEPT !.draft = [version |-> DraftVersion(m) + 1, doc |-> doc]]
    BY <1>2 DEF Becomes, Saves
  <2>2. v.draft = [version |-> DraftVersion(m) + 1, doc |-> doc]
    BY <1>1, <2>1 DEF Manifests
  <2>3. [version |-> DraftVersion(m) + 1, doc |-> doc] # None
    BY <1>1, NullAssumption DEF Drafts
  <2>4. DraftVersion(v) = DraftVersion(m) + 1
    <3>1. v.draft # None /\ v.draft.version = DraftVersion(m) + 1
      BY <2>2, <2>3
    <3> QED BY <3>1 DEF DraftVersion
  <2> QED BY <1>1, <1>2, <2>4
<1>3. CASE kind # "save"
  BY <1>1, <1>3 DEF Becomes, Changes, DraftVersion
<1> QED BY <1>2, <1>3

\* A step of one process.
LEMMA KnownStep ==
  ASSUME KnownInv, NEW p \in Procs, NEW r, Become(p, r), Knows(r)',
         DraftVersion(manifest) <= DraftVersion(manifest)', DraftVersion(manifest)' \in Nat,
         Holds(p) \/ manifest' = manifest
  PROVE  AllKnow'
<1>1. proc' = [proc EXCEPT ![p] = r] /\ DOMAIN proc = Procs
  BY DEF Become, KnownInv, ContentInv
<1>2. DraftVersion(manifest) \in Nat
  BY ManifestFacts DEF KnownInv, ReadableInv, DiskInv, Clean
<1>3. ASSUME NEW q \in Procs, q # p, NEW s, s = proc[q] PROVE Knows(s)'
  <2>1. Knows(s)
    BY <1>3 DEF KnownInv, AllKnow
  <2>2. manifest' = manifest \/ s.pc # "work"
    BY <1>3 DEF KnownInv, ReadableInv, LockInv, LockExcludes, Holds, HoldingPcs
  <2> QED BY <1>2, <2>1, <2>2 DEF Knows
<1>4. ASSUME NEW q \in Procs PROVE Knows(proc[q])'
  <2>1. PICK s : s = IF q = p THEN r ELSE proc[q]
    OBVIOUS
  <2>2. proc'[q] = s /\ Knows(s)'
    BY <1>1, <1>3, <2>1
  <2> QED BY <2>2 DEF Knows
<1> QED BY <1>4 DEF AllKnow

LEMMA KnownQuiet ==
  ASSUME KnownInv, NEW p \in Procs, NEW r, Become(p, r), Knows(r), manifest' = manifest
  PROVE  AllKnow'
<1>1. DraftVersion(manifest)' = DraftVersion(manifest) /\ DraftVersion(manifest) \in Nat
  BY ManifestFacts DEF KnownInv, ReadableInv, DiskInv, Clean, DraftVersion
<1>2. Knows(r)'
  BY <1>1 DEF Knows
<1> QED BY <1>1, <1>2, KnownStep

LEMMA NoWrites == NoManifest(<<>>)
BY IdleOK DEF ProcOK, Idle

LEMMA KnownLeave ==
  ASSUME KnownInv, NEW p \in Procs, Leave(p),
         DraftVersion(manifest) <= DraftVersion(manifest)', DraftVersion(manifest)' \in Nat,
         Holds(p) \/ manifest' = manifest
  PROVE  AllKnow'
<1>1. Knows(Idle)'
  BY NoWrites DEF Knows, Idle
<1> QED BY <1>1, KnownStep DEF Leave

\* A step that changes neither the manifest nor the versions of the request.
LEMMA KnownSame ==
  ASSUME KnownInv, NEW p \in Procs, NEW r, Become(p, r), manifest' = manifest,
         r.dver = proc[p].dver, r.base = proc[p].base, r.doc = proc[p].doc,
         r.kind = proc[p].kind \/ proc[p].kind # "save",
         r.pc # "work" \/ (proc[p].pc = "work" /\ r.kind = proc[p].kind
                             /\ r.man = proc[p].man
                             /\ (NoManifest(proc[p].todo) => NoManifest(r.todo)))
  PROVE  AllKnow'
<1>1. Knows(proc[p])
  BY DEF KnownInv, AllKnow
<1>2. Knows(r)
  BY <1>1 DEF Knows
<1> QED BY <1>2, KnownQuiet

\* A write of a request is a write of its plan, in the manifest too.
LEMMA ManifestWrite ==
  ASSUME KnownInv, NEW p \in Procs, Write(p) \/ WriteFails(p)
  PROVE  /\ Holds(p)
         /\ \/ manifest' = manifest
            \/ /\ proc[p].pc = "work" /\ Head(proc[p].todo).place = "manifest"
               /\ manifest' = Head(proc[p].todo).value
               /\ proc[p].todo # <<>> /\ ~NoManifest(proc[p].todo)
               /\ Plan(proc[p].kind, proc[p].man, proc[p].todo)
               /\ Good(manifest) /\ proc[p].man = manifest
               /\ Good(manifest') /\ Becomes(proc[p].kind, manifest, manifest')
<1> DEFINE me == proc[p]
<1>1. /\ ProcOK(me) /\ Knows(me) /\ me.pc \in WritingPcs /\ me.todo # <<>>
      /\ manifest \in Manifests /\ manifest # None /\ Good(manifest)
  BY NullAssumption DEF KnownInv, AllKnow, ContentInv, DiskOK, ReadableInv, DiskInv, Clean,
     Write, WriteFails, Writing
<1>2. Holds(p)
  BY <1>1 DEF Holds, HoldingPcs, WritingPcs
<1>3. manifest' = manifest \/ (/\ Head(me.todo).place = "manifest"
                              /\ manifest' = Head(me.todo).value)
  BY DEF Write, WriteFails, Apply
<1>4. ASSUME Head(me.todo).place = "manifest", manifest' = Head(me.todo).value
      PROVE  /\ me.pc = "work" /\ ~NoManifest(me.todo) /\ me.man = manifest
             /\ Plan(me.kind, me.man, me.todo)
             /\ Good(manifest') /\ Becomes(me.kind, manifest, manifest')
  <2>1. ~NoManifest(me.todo)
    BY <1>1, <1>4, PlanTail
  <2>2. me.pc = "work" /\ Plan(me.kind, me.man, me.todo)
    BY <1>1, <2>1 DEF ProcOK, WritingPcs
  <2>3. me.man = manifest
    BY <1>1, <2>1, <2>2 DEF Knows
  <2>4. /\ 1 \in 1..Len(me.todo) /\ Head(me.todo) = me.todo[1]
        /\ Head(me.todo) \in Writes
    <3>1. me.todo \in Seq(Writes)
      BY <2>2 DEF Plan
    <3> HIDE DEF me
    <3> QED BY <1>1, <3>1, WritesTail
  <2>5. Good(manifest') /\ Becomes(me.kind, manifest, manifest')
    BY <1>4, <2>2, <2>3, <2>4 DEF Plan, Writes, Fits
  <2> QED BY <2>1, <2>2, <2>3, <2>5
<1> QED BY <1>1, <1>2, <1>3, <1>4

LEMMA KnownWrite ==
  ASSUME KnownInv, NEW p \in Procs, Write(p) \/ WriteFails(p)
  PROVE  AllKnow'
<1> DEFINE me == proc[p]
           item == Head(me.todo)
<1>1. /\ ProcOK(me) /\ Knows(me) /\ me.todo # <<>> /\ me.pc \in WritingPcs
      /\ DraftVersion(manifest) \in Nat
  BY ManifestFacts DEF KnownInv, AllKnow, ContentInv, ReadableInv, DiskInv, Clean,
     Write, WriteFails, Writing
<1>2. /\ Holds(p)
      /\ DraftVersion(manifest) <= DraftVersion(manifest)'
      /\ DraftVersion(manifest)' \in Nat
  <2>1. DraftVersion(manifest)' = DraftVersion(manifest')
    BY DEF DraftVersion
  <2> QED BY <1>1, <2>1, ManifestWrite, BecomesFacts
<1>3. ASSUME NEW r, r.todo = Tail(me.todo), r.pc = me.pc, r.kind = me.kind,
             r.doc = me.doc, r.dver = me.dver, r.base = me.base,
             item.place # "manifest" => r.man = me.man
      PROVE  Knows(r)'
  <2>1. /\ r.dver \in Nat /\ r.base \in Nat
        /\ r.dver <= DraftVersion(manifest)'
        /\ r.doc # None => /\ r.kind = "save"
                           /\ r.dver <= r.base
                           /\ r.base <= DraftVersion(manifest)'
    BY <1>1, <1>2, <1>3 DEF Knows
  <2>2. ASSUME r.pc = "work", ~NoManifest(r.todo)
        PROVE  r.man = manifest' /\ (r.kind = "save" => r.dver = DraftVersion(manifest)')
    <3>1. Plan(me.kind, me.man, me.todo) /\ ~NoManifest(me.todo)
      BY <1>1, <1>3, <2>2, PlanTail DEF ProcOK
    <3>2. item.place # "manifest"
      BY <1>1, <1>3, <2>2, <3>1, PlanTail
    <3>3. manifest' = manifest
      BY <3>2, ManifestWrite
    <3> QED BY <1>1, <1>3, <2>2, <3>1, <3>2, <3>3 DEF Knows, DraftVersion
  <2>3. (r.pc = "work" /\ ~NoManifest(r.todo) =>
           r.man = manifest /\ (r.kind = "save" => r.dver = DraftVersion(manifest)))'
    BY <2>2 DEF NoManifest
  <2> QED BY <2>1, <2>3 DEF Knows
<1>4. CASE Write(p)
  <2>1. PICK r : r = [proc[p] EXCEPT
                  !.todo = Tail(@), !.made = Made(p, Head(proc[p].todo)),
                  !.man = IF Head(proc[p].todo).place = "manifest"
                          THEN Head(proc[p].todo).value ELSE @]
    OBVIOUS
  <2>2. /\ r.todo = Tail(me.todo) /\ r.pc = me.pc /\ r.kind = me.kind
        /\ r.doc = me.doc /\ r.dver = me.dver /\ r.base = me.base
        /\ item.place # "manifest" => r.man = me.man
    BY <1>1, <2>1 DEF ProcOK, Idle
  <2>3. Become(p, r)
    BY <1>4, <2>1 DEF Write
  <2> QED BY <1>2, <1>3, <2>2, <2>3, KnownStep
<1>5. CASE WriteFails(p)
  <2>1. CASE Leave(p)
    BY <1>2, <2>1, KnownLeave
  <2>2. CASE Become(p, [proc[p] EXCEPT !.todo = Tail(@)])
    <3>1. PICK r : r = [proc[p] EXCEPT !.todo = Tail(@)]
      OBVIOUS
    <3>2. /\ r.todo = Tail(me.todo) /\ r.pc = me.pc /\ r.kind = me.kind
          /\ r.doc = me.doc /\ r.dver = me.dver /\ r.base = me.base /\ r.man = me.man
      BY <1>1, <3>1 DEF ProcOK, Idle
    <3> QED BY <1>2, <1>3, <2>2, <3>1, <3>2, KnownStep
  <2>3. CASE Become(p, [proc[p] EXCEPT !.pc = "undo"])
    <3>1. PICK r : r = [proc[p] EXCEPT !.pc = "undo"]
      OBVIOUS
    <3>2. /\ r.pc = "undo" /\ r.kind = me.kind
          /\ r.doc = me.doc /\ r.dver = me.dver /\ r.base = me.base
      BY <1>1, <3>1 DEF ProcOK, Idle
    <3>3. Knows(r)'
      BY <1>1, <1>2, <3>2 DEF Knows
    <3> QED BY <1>2, <2>3, <3>1, <3>3, KnownStep
  <2> QED BY <1>5, <2>1, <2>2, <2>3 DEF WriteFails
<1> QED BY <1>4, <1>5

\* A plan starts from the manifest on disk, a save's from the draft it expects.
LEMMA KnownPlanned ==
  ASSUME KnownInv, NEW p \in Procs, proc[p].pc = "plan", NEW todo, NEW ds,
         Work(p, todo, ds),
         proc[p].kind = "save" => Current(p, proc[p].man)
  PROVE  AllKnow'
<1>1. /\ ProcOK(proc[p]) /\ Knows(proc[p]) /\ proc[p].man = manifest
  BY DEF KnownInv, AllKnow, ContentInv, ReadableInv, DiskInv, Believes
<1>2. PICK r : r = [proc[p] EXCEPT !.pc = "work", !.todo = todo]
  OBVIOUS
<1>3. /\ r.pc = "work" /\ r.kind = proc[p].kind /\ r.man = proc[p].man
      /\ r.doc = proc[p].doc /\ r.dver = proc[p].dver /\ r.base = proc[p].base
  BY <1>1, <1>2 DEF ProcOK, Idle
<1>4. r.kind = "save" => r.dver = DraftVersion(manifest)
  BY <1>1, <1>3 DEF Current
<1>5. Knows(r)
  BY <1>1, <1>3, <1>4 DEF Knows
<1> QED BY <1>2, <1>5, KnownQuiet DEF Work

LEMMA KnownNext ==
  ASSUME "remove" \notin Kinds
  PROVE  KnownInv /\ [Next]_vars => KnownInv'
<1> SUFFICES ASSUME KnownInv, [Next]_vars PROVE KnownInv'
  OBVIOUS
<1>1. ReadableInv' /\ ContentInv'
  BY ReadableNext, ContentNext DEF KnownInv
<1>2. ASSUME NEW p \in Procs, NEW kind \in AllKinds, Request(p, kind) PROVE AllKnow'
  <2>1. PICK refresh :
          Become(p, [Idle EXCEPT
            !.pc = "open", !.kind = kind, !.refresh = refresh,
            !.mver = IF kind = "read" THEN 0 ELSE manifest.version,
            !.dver = IF kind \in {"save", "revise"} THEN DraftVersion(manifest) ELSE 0,
            !.seen = IF kind = "sync" THEN library ELSE {}])
    BY <1>2 DEF Request
  <2>2. PICK r : r = [Idle EXCEPT
            !.pc = "open", !.kind = kind, !.refresh = refresh,
            !.mver = IF kind = "read" THEN 0 ELSE manifest.version,
            !.dver = IF kind \in {"save", "revise"} THEN DraftVersion(manifest) ELSE 0,
            !.seen = IF kind = "sync" THEN library ELSE {}]
    OBVIOUS
  <2>3. /\ r.pc = "open" /\ r.doc = None /\ r.dver \in {0, DraftVersion(manifest)}
        /\ r.base = 0
    BY <2>2 DEF Idle
  <2>4. DraftVersion(manifest) \in Nat
    BY ManifestFacts DEF KnownInv, ReadableInv, DiskInv, Clean
  <2>5. Knows(r)
    BY <2>1, <2>3, <2>4 DEF Knows
  <2>6. manifest' = manifest
    BY <1>2 DEF Request, disk
  <2> QED BY <2>1, <2>2, <2>5, <2>6, KnownQuiet
<1>3. ASSUME NEW p \in Procs, Leave(p), UNCHANGED disk PROVE AllKnow'
  <2>1. /\ DraftVersion(manifest)' = DraftVersion(manifest) /\ manifest' = manifest
        /\ DraftVersion(manifest) \in Nat
    BY <1>3, ManifestFacts DEF disk, DraftVersion, KnownInv, ReadableInv, DiskInv, Clean
  <2> QED BY <1>3, <2>1, KnownLeave
<1>4. ASSUME NEW p \in Procs, Serve(p) PROVE AllKnow'
  <2>1. /\ ProcOK(proc[p]) /\ Knows(proc[p]) /\ KeepsLock(proc[p])
        /\ proc[p].pc \in {"draft", "recover", "plan"} => proc[p].man = manifest
    BY DEF KnownInv, AllKnow, ContentInv, ReadableInv, LockInv, LockFile, DiskInv, Believes
  <2>2. CASE OpenFails(p) \/ ReadFails(p) \/ DraftFails(p) \/ Reject(p)
    BY <1>3, <2>2 DEF OpenFails, ReadFails, DraftFails, Reject
  <2>3. ASSUME NEW r, Become(p, r), manifest' = manifest, r.dver = proc[p].dver,
               r.base = proc[p].base, r.doc = proc[p].doc, r.pc # "work",
               r.kind = proc[p].kind \/ proc[p].kind # "save"
        PROVE  AllKnow'
    BY <2>3, KnownSame
  <2>4. CASE OpenLock(p)
    <3>1. PICK i : Become(p, [proc[p] EXCEPT !.pc = "lock", !.at = i])
      BY <2>4 DEF OpenLock
    <3>2. PICK r : r = [proc[p] EXCEPT !.pc = "lock", !.at = i]
      OBVIOUS
    <3>3. /\ r.pc = "lock" /\ r.dver = proc[p].dver /\ r.base = proc[p].base
          /\ r.doc = proc[p].doc /\ r.kind = proc[p].kind
      BY <2>1, <3>2 DEF ProcOK, Idle
    <3> QED BY <2>3, <2>4, <3>1, <3>2, <3>3 DEF OpenLock
  <2>5. CASE Acquire(p)
    <3>1. PICK r : r = [proc[p] EXCEPT !.pc = "read"]
      OBVIOUS
    <3>2. /\ r.pc = "read" /\ r.dver = proc[p].dver /\ r.base = proc[p].base
          /\ r.doc = proc[p].doc /\ r.kind = proc[p].kind
      BY <2>1, <3>1 DEF ProcOK, Idle
    <3> QED BY <2>3, <2>5, <3>1, <3>2 DEF Acquire, disk
  <2>6. CASE ReadManifest(p)
    <3>1. PICK pc \in {"draft", "plan"} :
            Become(p, [proc[p] EXCEPT !.pc = pc, !.man = manifest])
      BY <2>6 DEF ReadManifest
    <3>2. PICK r : r = [proc[p] EXCEPT !.pc = pc, !.man = manifest]
      OBVIOUS
    <3>3. /\ r.pc # "work" /\ r.dver = proc[p].dver /\ r.base = proc[p].base
          /\ r.doc = proc[p].doc /\ r.kind = proc[p].kind
      BY <2>1, <3>2 DEF ProcOK, Idle
    <3> QED BY <2>3, <2>6, <3>1, <3>2, <3>3 DEF ReadManifest, disk
  <2>7. CASE Recover(p)
    <3>1. PICK r : r = [proc[p] EXCEPT !.pc = "recover", !.todo = Recovery(proc[p].man)]
      OBVIOUS
    <3>2. /\ r.pc # "work" /\ r.dver = proc[p].dver /\ r.base = proc[p].base
          /\ r.doc = proc[p].doc /\ r.kind = proc[p].kind
      BY <2>1, <3>1 DEF ProcOK, Idle
    <3> QED BY <2>3, <2>7, <3>1, <3>2 DEF Recover, disk
  <2>8. CASE Recovered(p)
    <3>1. PICK r : r = [proc[p] EXCEPT !.pc = "plan"]
      OBVIOUS
    <3>2. /\ r.pc # "work" /\ r.dver = proc[p].dver /\ r.base = proc[p].base
          /\ r.doc = proc[p].doc /\ r.kind = proc[p].kind
      BY <2>1, <3>1 DEF ProcOK, Idle
    <3> QED BY <1>3, <2>3, <2>8, <3>1, <3>2 DEF Recovered, disk
  <2>9. CASE SaveDraft(p)
    BY <2>1, <2>9, KnownPlanned DEF SaveDraft
  <2>10. CASE Upload(p) \/ Collect(p) \/ Import(p) \/ Update(p) \/ Discard(p)
    <3>1. proc[p].pc = "plan" /\ proc[p].kind # "save" /\ \E todo, ds : Work(p, todo, ds)
      BY <2>10 DEF Upload, Collect, Import, Update, Discard
    <3> QED BY <3>1, KnownPlanned
  <2>11. CASE Sync(p)
    <3>1. CASE \E todo : Work(p, todo, {})
      BY <2>11, <3>1, KnownPlanned DEF Sync
    <3>2. CASE /\ Become(p, [proc[p] EXCEPT !.pc = "draft", !.kind = "read"])
               /\ UNCHANGED <<disk, library>>
      <4>1. PICK r : r = [proc[p] EXCEPT !.pc = "draft", !.kind = "read"]
        OBVIOUS
      <4>2. /\ r.pc # "work" /\ r.dver = proc[p].dver /\ r.base = proc[p].base
            /\ r.doc = proc[p].doc
        BY <2>1, <4>1 DEF ProcOK, Idle
      <4> QED BY <2>3, <2>11, <3>2, <4>1, <4>2 DEF Sync, disk
    <3> QED BY <2>11, <3>1, <3>2 DEF Sync
  <2>12. CASE Revise(p)
    <3>1. PICK doc \in Documents :
            Become(p, [proc[p] EXCEPT !.pc = "open", !.kind = "save", !.at = None,
                         !.doc = doc, !.base = DraftVersion(proc[p].man), !.man = None])
      BY <2>12 DEF Revise
    <3>2. PICK r : r = [proc[p] EXCEPT !.pc = "open", !.kind = "save", !.at = None,
                         !.doc = doc, !.base = DraftVersion(proc[p].man), !.man = None]
      OBVIOUS
    <3>3. /\ r.pc = "open" /\ r.dver = proc[p].dver /\ r.kind = "save"
          /\ r.base = DraftVersion(proc[p].man)
      BY <2>1, <3>2 DEF ProcOK, Idle
    <3>4. DraftVersion(manifest) \in Nat /\ proc[p].man = manifest
      BY <2>1, <2>12, ManifestFacts
         DEF Revise, KnownInv, ReadableInv, DiskInv, Clean
    <3>5. Knows(r)
      BY <2>1, <3>3, <3>4 DEF Knows
    <3> QED BY <2>12, <3>1, <3>2, <3>5, KnownQuiet DEF Revise, disk
  <2>13. CASE Write(p) \/ WriteFails(p)
    BY <2>13, KnownWrite
  <2>14. CASE Undo(p)
    <3>1. ASSUME NEW pc \in {"rollback", "cleanup"}, NEW todo,
                 Become(p, [proc[p] EXCEPT !.pc = pc, !.todo = todo]), manifest' = manifest
          PROVE  AllKnow'
      <4>1. PICK r : r = [proc[p] EXCEPT !.pc = pc, !.todo = todo]
        OBVIOUS
      <4>2. /\ r.pc # "work" /\ r.dver = proc[p].dver /\ r.base = proc[p].base
            /\ r.doc = proc[p].doc /\ r.kind = proc[p].kind
        BY <2>1, <4>1 DEF ProcOK, Idle
      <4> QED BY <2>3, <3>1, <4>1, <4>2
    <3>2. manifest' = manifest
      BY <2>14 DEF Undo, UndoSave, UndoMaterials, disk
    <3>3. CASE Leave(p)
      BY <1>3, <2>14, <3>3 DEF Undo, UndoSave, UndoMaterials
    <3> QED BY <2>14, <3>1, <3>2, <3>3 DEF Undo, UndoSave, UndoMaterials
  <2>15. CASE Finish(p)
    <3>1. CASE Leave(p)
      BY <1>3, <2>15, <3>1 DEF Finish
    <3>2. CASE Become(p, [Idle EXCEPT !.pc = "draft", !.at = proc[p].at,
                                      !.man = proc[p].man])
      <4>1. PICK r : r = [Idle EXCEPT !.pc = "draft", !.at = proc[p].at,
                                      !.man = proc[p].man]
        OBVIOUS
      <4>2. r.pc = "draft" /\ r.dver = 0 /\ r.base = 0 /\ r.doc = None
        BY <4>1 DEF Idle
      <4>3. DraftVersion(manifest) \in Nat
        BY ManifestFacts DEF KnownInv, ReadableInv, DiskInv, Clean
      <4>4. Knows(r)
        BY <4>2, <4>3 DEF Knows
      <4> QED BY <2>15, <3>2, <4>1, <4>4, KnownQuiet DEF Finish, disk
    <3> QED BY <2>15, <3>1, <3>2 DEF Finish
  <2>16. CASE Remove(p) \/ RemoveEntry(p) \/ RemoveDirectory(p) \/ RemoveFails(p)
    BY <2>1, <2>16 DEF KeepsLock, Remove, RemoveEntry, RemoveDirectory, RemoveFails
  <2> QED BY <1>4, <2>2, <2>4, <2>5, <2>6, <2>7, <2>8, <2>9, <2>10, <2>11, <2>12, <2>13,
             <2>14, <2>15, <2>16 DEF Serve
<1>5. ASSUME NEW p \in Procs, Crash(p) PROVE AllKnow'
  BY <1>3, <1>5 DEF Crash
<1>6. CASE LibraryChange \/ UNCHANGED vars
  <2>1. manifest' = manifest /\ proc' = proc
    BY <1>6 DEF LibraryChange, vars, disk
  <2>2. DraftVersion(manifest)' = DraftVersion(manifest)
    BY <2>1 DEF DraftVersion
  <2>3. ASSUME NEW p \in Procs PROVE Knows(proc[p])'
    <3>1. Knows(proc[p])
      BY DEF KnownInv, AllKnow
    <3> QED BY <2>1, <2>2, <3>1 DEF Knows, NoManifest
  <2> QED BY <1>1, <2>3 DEF KnownInv, AllKnow
<1> QED BY <1>1, <1>2, <1>4, <1>5, <1>6 DEF Next, KnownInv

LEMMA KnownInit == Init => KnownInv
<1> SUFFICES ASSUME Init PROVE KnownInv
  OBVIOUS
<1>1. ReadableInv /\ ContentInv
  BY ReadableInit, ContentInit
<1>2. DraftVersion(manifest) \in Nat
  BY <1>1, ManifestFacts DEF ReadableInv, DiskInv, Clean
<1>3. Knows(Idle)
  BY <1>2 DEF Knows, Idle
<1> QED BY <1>1, <1>3 DEF KnownInv, AllKnow, Init

-----------------------------------------------------------------------------
(* The workspace as one atomic store, and the base of an edit *)

\* Only a write of a plan changes the manifest.
LEMMA ManifestSteps ==
  ASSUME "remove" \notin Kinds, KnownInv, [Next]_vars, manifest' # manifest
  PROVE  \E p \in Procs :
           /\ Write(p) \/ WriteFails(p)
           /\ \A q \in Procs \ {p} : proc'[q] = proc[q]
<1>1. ASSUME NEW p \in Procs, Serve(p) PROVE Write(p) \/ WriteFails(p)
  <2>1. KeepsLock(proc[p])
    BY DEF KnownInv, ReadableInv, LockInv, LockFile
  <2>2. ~(RemoveEntry(p) \/ RemoveDirectory(p) \/ RemoveFails(p) \/ Remove(p))
    BY <2>1 DEF KeepsLock, Remove, RemoveEntry, RemoveDirectory, RemoveFails
  <2>3. ~(\/ OpenLock(p) \/ OpenFails(p) \/ Acquire(p)
          \/ ReadManifest(p) \/ ReadFails(p)
          \/ Recover(p) \/ Recovered(p) \/ DraftFails(p))
    BY DEF OpenLock, OpenFails, Acquire, ReadManifest, ReadFails, Recover, Recovered,
       DraftFails, disk
  <2>4. \A todo, ds : ~Work(p, todo, ds)
    BY DEF Work
  <2>5. ~(\/ SaveDraft(p) \/ Revise(p) \/ Upload(p) \/ Collect(p) \/ Import(p)
          \/ Update(p) \/ Sync(p) \/ Discard(p) \/ Reject(p))
    BY <2>4 DEF SaveDraft, Revise, Upload, Collect, Import, Update, Sync, Discard,
       Reject, disk
  <2>6. ~(Undo(p) \/ Finish(p))
    BY DEF Undo, UndoSave, UndoMaterials, Finish, disk
  <2> QED BY <1>1, <2>2, <2>3, <2>5, <2>6 DEF Serve
<1>2. PICK p \in Procs : Serve(p)
  BY DEF Next, Request, Crash, LibraryChange, vars, disk
<1>3. \E r : Become(p, r)
  BY <1>1, <1>2 DEF Write, WriteFails, Leave
<1> QED BY <1>1, <1>2, <1>3 DEF Become, KnownInv, ContentInv

\* The record or the draft on disk is the manifest's document.
LEMMA ServedIsManifest == ReadableInv => Served = manifest
<1> SUFFICES ASSUME ReadableInv PROVE Served = manifest
  OBVIOUS
<1>1. manifest \in Manifests /\ manifest # None /\ Readable
  BY NullAssumption DEF ReadableInv, DiskInv, Clean
<1>2. CASE manifest.draft = None
  BY <1>2 DEF Served
<1>3. CASE manifest.draft # None
  <2>1. PICK doc : doc = IF article = manifest.draft.doc THEN article
                         ELSE IF pending = None THEN None ELSE pending.previous
    OBVIOUS
  <2>2. doc = manifest.draft.doc
    BY <1>1, <1>3, <2>1 DEF Readable, Recoverable, DraftReadable
  <2>3. manifest.draft \in Drafts
    BY <1>1, <1>3 DEF Manifests
  <2>4. [manifest.draft EXCEPT !.doc = doc] = manifest.draft
    BY <2>2, <2>3 DEF Drafts
  <2>5. [manifest EXCEPT !.draft.doc = doc] = manifest
    BY <1>1, <2>4 DEF Manifests
  <2>6. Served = [manifest EXCEPT !.draft.doc = doc]
    BY <1>1, <1>3, <2>1 DEF Served
  <2> QED BY <2>5, <2>6
<1> QED BY <1>2, <1>3

LEMMA StoreStep ==
  ASSUME "remove" \notin Kinds, KnownInv, KnownInv', [Next]_vars
  PROVE  [Store!Next]_Served
<1>1. Served = manifest /\ Served' = manifest'
  <2>1. ReadableInv /\ ReadableInv'
    BY DEF KnownInv
  <2>2. ReadableInv' => (Served = manifest)'
    BY ServedIsManifest, PTL
  <2> QED BY <2>1, <2>2, ServedIsManifest
<1>2. CASE manifest' # manifest
  <2>1. PICK p \in Procs : Write(p) \/ WriteFails(p)
    BY <1>2, ManifestSteps
  <2>2. Good(manifest) /\ Good(manifest') /\ Becomes(proc[p].kind, manifest, manifest')
    BY <1>2, <2>1, ManifestWrite
  <2>3. CASE Saves(manifest, manifest')
    <3>1. PICK doc \in Documents :
            manifest' = [manifest EXCEPT
                           !.draft = [version |-> DraftVersion(manifest) + 1, doc |-> doc]]
      BY <2>3 DEF Saves
    <3>2. manifest \in Manifests /\ DraftVersion(manifest) \in Nat
      BY <2>2, GoodFacts, ManifestFacts
    <3>3. PICK draft : draft = [version |-> DraftVersion(manifest) + 1, doc |-> doc]
      OBVIOUS
    <3>4. draft # None
      BY <3>2, <3>3, NullAssumption DEF Drafts
    <3>5. manifest' = [manifest EXCEPT !.draft = draft] /\ manifest'.draft = draft
      BY <3>1, <3>2, <3>3 DEF Manifests
    <3>6. manifest'.draft.version = Store!DraftVersion(manifest) + 1
      BY <3>3, <3>5 DEF Store!DraftVersion, DraftVersion
    <3> QED BY <1>1, <2>2, <3>4, <3>5, <3>6 DEF Store!Next, Store!SaveDraft, Good
  <2>4. CASE Changes(manifest, manifest')
    BY <1>1, <2>2, <2>4 DEF Store!Next, Store!ChangeMaterials, Changes, Good
  <2> QED BY <2>2, <2>3, <2>4 DEF Becomes
<1> QED BY <1>1, <1>2

\* For a reader the workspace is one atomic store: whichever write of whichever
\* request fails or is the last of a killed process, every step is a whole save,
\* a whole change of the materials, or invisible (_recover_pending_draft, and
\* the order of the replacements in save_draft, delete_source and the uploads).
THEOREM WorkspaceRefinesStore ==
  ASSUME "remove" \notin Kinds
  PROVE  Spec => RefinesStore
<1>1. Init => Store!Init
  <2> SUFFICES ASSUME Init PROVE Store!Init
    OBVIOUS
  <2>1. Good(manifest) /\ Served = manifest
    BY ReadableInit, ContentInit, ServedIsManifest, NullAssumption
       DEF ContentInv, DiskOK, ReadableInv, DiskInv, Clean
  <2>2. manifest.version = 1 /\ manifest.draft = None
    BY DEF Init
  <2> QED BY <2>1, <2>2 DEF Store!Init, Good
<1>2. KnownInv /\ KnownInv' /\ [Next]_vars => [Store!Next]_Served
  BY StoreStep
<1> QED BY KnownInit, KnownNext, <1>1, <1>2, PTL DEF Spec, RefinesStore, Store!Spec

\* edit_draft and save_draft_proposal give the lock back between the draft they
\* read and the save of what they made of it; the draft such a save replaces is
\* still the one its document was made from.
THEOREM RevisionsReplaceTheirBase ==
  ASSUME "remove" \notin Kinds
  PROVE  Spec => RevisionsKeepTheirBase
<1> DEFINE Kept == \A p \in Procs :
                     /\ Writing(p) /\ proc[p].pc = "work" /\ proc[p].doc # None
                     /\ manifest # None /\ manifest' # None
                     /\ manifest'.draft # manifest.draft
                     /\ proc'[p] # proc[p]
                     => DraftVersion(manifest) = proc[p].base
<1>1. ASSUME KnownInv, [Next]_vars PROVE Kept
  <2> SUFFICES ASSUME NEW p \in Procs, proc[p].doc # None,
                      manifest'.draft # manifest.draft, proc'[p] # proc[p]
               PROVE  DraftVersion(manifest) = proc[p].base
    OBVIOUS
  <2>1. Write(p) \/ WriteFails(p)
    BY <1>1, ManifestSteps
  <2>2. /\ Good(manifest) /\ Becomes(proc[p].kind, manifest, manifest')
        /\ proc[p].pc = "work" /\ ~NoManifest(proc[p].todo)
    BY <1>1, <2>1, ManifestWrite
  <2>3. proc[p].kind = "save"
    BY <2>2, BecomesFacts
  <2>4. Knows(proc[p]) /\ DraftVersion(manifest) \in Nat
    BY <1>1, <2>2, BecomesFacts DEF KnownInv, AllKnow
  <2> QED BY <2>2, <2>3, <2>4 DEF Knows
<1>2. KnownInv /\ [Next]_vars => [Kept]_vars
  BY <1>1
<1> QED BY KnownInit, KnownNext, <1>2, PTL DEF Spec, RevisionsKeepTheirBase

\* As long as the workspace is not removed, a material number once persisted
\* names one material: _material_id never hands out a number of the manifest it
\* replaces, nor one that was discarded or pruned before.
THEOREM NumbersStayTaken ==
  ASSUME "remove" \notin Kinds
  PROVE  Spec => NumbersAreNotReused
<1> DEFINE Kept == \A id \in DOMAIN manifest'.sources :
                     IF id \in DOMAIN manifest.sources
                     THEN manifest'.sources[id].origin = manifest.sources[id].origin
                     ELSE id >= manifest.next
<1>1. ASSUME KnownInv, [Next]_vars PROVE Kept
  <2>1. CASE manifest' = manifest
    BY <2>1
  <2>2. CASE manifest' # manifest
    <3>1. PICK kind : Good(manifest) /\ Becomes(kind, manifest, manifest')
      BY <1>1, <2>2, ManifestSteps, ManifestWrite
    <3>2. CASE Saves(manifest, manifest')
      <4>1. manifest \in Manifests
        BY <3>1 DEF Good
      <4>2. manifest'.sources = manifest.sources
        BY <3>2, <4>1 DEF Saves, Manifests
      <4> QED BY <4>2
    <3>3. CASE Changes(manifest, manifest')
      BY <3>3 DEF Changes
    <3> QED BY <3>1, <3>2, <3>3 DEF Becomes
  <2> QED BY <2>1, <2>2
<1>2. KnownInv /\ [Next]_vars => [manifest # None /\ manifest' # None => Kept]_vars
  BY <1>1
<1> QED BY KnownInit, KnownNext, <1>2, PTL DEF Spec, NumbersAreNotReused
=============================================================================
