------------------------------ MODULE Workspace ------------------------------
(***************************************************************************)
(* The files of one WxPost workspace and the controller core that changes  *)
(* them (core.py).  HTTP threads and MCP processes share the directory;    *)
(* each request takes an flock on a file of the directory, reads the       *)
(* manifest and the draft, and replaces single files atomically.  Nothing  *)
(* makes two replacements atomic, any of them may fail before or after its *)
(* effect, and a process may die between them; the next reader repairs.    *)
(***************************************************************************)
EXTENDS Integers, Sequences, FiniteSets, Functions

CONSTANTS
  Procs,        \* threads and processes that serve requests
  Keys,         \* fileKeys of media in the meeting's library
  Attachments,  \* attachments of one Feishu message, by content hash
  Texts,        \* wordings of a draft
  Kinds,        \* requests that members and agents make
  Faults,       \* subset of {"write", "crash"}
  MaxVersion,   \* bound: no request once the manifest reached this version
  MaxDraft,     \* bound: nor a save after this draft version
  MaxMaterial,  \* bound: no material gets a number above this one
  None

AllKinds == {"save", "revise", "upload", "collect", "import", "update",
             "sync", "discard", "read", "remove"}

Web     == "web-upload"
Origins == Keys \cup Attachments \cup {Web}

ASSUME WorkspaceAssumption ==
  /\ Kinds \subseteq AllKinds
  /\ Faults \subseteq {"write", "crash"}
  /\ {MaxVersion, MaxDraft, MaxMaterial} \subseteq Nat
  /\ IsFiniteSet(Keys) /\ IsFiniteSet(Attachments) /\ IsFiniteSet(Procs)

VARIABLES
  manifest,  \* source-manifest.json
  article,   \* draft/article.json
  pending,   \* draft/.article-save-pending.json
  files,     \* sources/: material number -> the origin whose bytes it holds
  dirs,      \* which of the directories exist
  lock,      \* inode of .source-manifest.lock, or None
  library,   \* external: fileKeys the backend lists for the meeting
  proc       \* what each process is doing

disk == <<manifest, article, pending, files, dirs, lock>>
vars == <<manifest, article, pending, files, dirs, lock, library, proc>>

-----------------------------------------------------------------------------
(* Manifests, documents, processes *)

Ids    == 1..MaxMaterial
Inodes == 0..Cardinality(Procs)

\* A hash identifies its document, so the manifest holds the document itself.
Documents == [text : Texts, media : SUBSET Ids]
Drafts    == [version : Nat, doc : Documents]
Sources   == [origin : Origins, ready : BOOLEAN, included : BOOLEAN]
Saved     == [previous : Documents \cup {None}]
Manifests == [version : Nat, next : 1..(MaxMaterial + 1),
              draft   : Drafts \cup {None},
              sources : UNION {[S -> Sources] : S \in SUBSET Ids}]

ASSUME NullAssumption ==
  None \notin Nat \cup Origins \cup Documents \cup Drafts \cup Saved \cup Manifests

Ready(m)        == {id \in DOMAIN m.sources : m.sources[id].ready}
Included(m)     == {id \in DOMAIN m.sources : m.sources[id].included}
OriginsOf(m)    == {m.sources[id].origin : id \in DOMAIN m.sources}
DraftVersion(m) == IF m.draft = None THEN 0 ELSE m.draft.version

\* The manifest after the materials changed: _write_changed_manifest.
Changed(m, sources, next) ==
  [m EXCEPT !.version = @ + 1, !.sources = sources, !.next = next]

\* The ways to give the members of S the numbers n, n+1, ...
Numberings(S, n) == Bijection(n..(n + Cardinality(S) - 1), S)

Extend(f, g) == [x \in DOMAIN f \cup DOMAIN g |-> IF x \in DOMAIN g THEN g[x] ELSE f[x]]
Without(f, S) == Restrict(f, DOMAIN f \ S)

\* One atomic write or unlink: a place and its value, None to unlink.
Put(place, value)  == [place |-> place, id |-> 0, value |-> value]
PutFile(id, value) == [place |-> "file", id |-> id, value |-> value]

\* A process that holds the lock reads, recovers, plans, works its plan off;
\* a failed write leads to "undo", then to "rollback" or "cleanup".
HoldingPcs == {"read", "draft", "recover", "plan", "work", "undo", "rollback",
               "cleanup", "removing"}
Pcs == HoldingPcs \cup {"idle", "open", "lock"}

Idle == [pc |-> "idle", kind |-> "read", at |-> None, mver |-> 0, dver |-> 0,
         doc |-> None, base |-> 0, refresh |-> FALSE, seen |-> {},
         man |-> None, todo |-> <<>>, made |-> {}, left |-> {}]

Init ==
  /\ library \in SUBSET Keys
  /\ Cardinality(library) <= MaxMaterial
  /\ \E f \in Numberings(library, 1) :
       manifest = [version |-> 1, next |-> Cardinality(library) + 1, draft |-> None,
                   sources |-> [id \in DOMAIN f |->
                     [origin |-> f[id], ready |-> FALSE, included |-> FALSE]]]
  /\ article = None
  /\ pending = None
  /\ files = [id \in Ids |-> None]
  /\ dirs = {"root"}
  /\ lock = 0
  /\ proc = [p \in Procs |-> Idle]

-----------------------------------------------------------------------------
(* Requests and the lock *)

Become(p, changes) == proc' = [proc EXCEPT ![p] = changes]
Holds(p)           == proc[p].pc \in HoldingPcs

\* Whatever ends a request closes the lock file, which releases the flock.
Leave(p) == Become(p, Idle)

\* A client sends what it last read; sync has loaded the library before it
\* takes the lock.
Request(p, kind) ==
  /\ proc[p].pc = "idle"
  /\ kind \in Kinds
  /\ "root" \in dirs
  /\ kind # "read" => manifest # None /\ manifest.version < MaxVersion
  /\ kind \in {"save", "revise"} => DraftVersion(manifest) < MaxDraft
  /\ \E refresh \in IF kind = "revise" THEN BOOLEAN ELSE {FALSE} :
       Become(p, [Idle EXCEPT
         !.pc = "open", !.kind = kind, !.refresh = refresh,
         !.mver = IF kind = "read" THEN 0 ELSE manifest.version,
         !.dver = IF kind \in {"save", "revise"} THEN DraftVersion(manifest) ELSE 0,
         !.seen = IF kind = "sync" THEN library ELSE {}])
  /\ UNCHANGED <<disk, library>>

\* open("a+") creates the lock file when it is missing.
OpenLock(p) ==
  LET inode == IF lock # None THEN lock
               ELSE CHOOSE i \in Inodes : \A q \in Procs : proc[q].at # i
  IN /\ proc[p].pc = "open"
     /\ "root" \in dirs
     /\ lock' = inode
     /\ Become(p, [proc[p] EXCEPT !.pc = "lock", !.at = inode])
     /\ UNCHANGED <<manifest, article, pending, files, dirs, library>>

OpenFails(p) ==
  /\ proc[p].pc = "open"
  /\ "root" \notin dirs
  /\ Leave(p)
  /\ UNCHANGED <<disk, library>>

\* Mutant: the lock file is opened and not locked.
AcquireUnlocked(p) ==
  /\ proc[p].pc = "lock"
  /\ Become(p, [proc[p] EXCEPT !.pc = "read"])
  /\ UNCHANGED <<disk, library>>

\* The flock excludes the holders of the same inode.
Acquire(p) ==
  /\ proc[p].pc = "lock"
  /\ \A q \in Procs \ {p} : Holds(q) => proc[q].at # proc[p].at
  /\ Become(p, [proc[p] EXCEPT !.pc = "read"])
  /\ UNCHANGED <<disk, library>>

-----------------------------------------------------------------------------
(* Reading *)

FilesPresent(m) == \A id \in Ready(m) : files[id] = m.sources[id].origin

\* Requests that compare the manifest's version before anything else, and the
\* requests that read the draft (update_workspace does, update_sources not).
ChecksFirst  == {"upload", "collect", "import", "update", "discard", "remove"}
ReadsDraft   == {"save", "revise", "update", "discard", "read"}
SkipsDraft   == {"upload", "collect", "import", "update", "sync", "remove"}

Fresh(p, m) == proc[p].mver = m.version

\* _read_manifest and the version check.
ReadManifest(p) ==
  /\ proc[p].pc = "read"
  /\ manifest # None
  /\ FilesPresent(manifest)
  /\ proc[p].kind \in ChecksFirst => Fresh(p, manifest)
  /\ \E pc \in {"draft", "plan"} :
       /\ proc[p].kind \in IF pc = "draft" THEN ReadsDraft ELSE SkipsDraft
       /\ Become(p, [proc[p] EXCEPT !.pc = pc, !.man = manifest])
  /\ UNCHANGED <<disk, library>>

ReadFails(p) ==
  /\ proc[p].pc = "read"
  /\ \/ manifest = None
     \/ manifest # None /\ ~FilesPresent(manifest)
     \/ manifest # None /\ proc[p].kind \in ChecksFirst /\ ~Fresh(p, manifest)
  /\ Leave(p)
  /\ UNCHANGED <<disk, library>>

\* Mutant: the record is restored, not the document in it.
RecoveryRecord(m) ==
  IF pending = None THEN <<>>
  ELSE IF m.draft = None THEN <<Put("article", None), Put("pending", None)>>
  ELSE IF article = m.draft.doc THEN <<Put("pending", None)>>
  ELSE <<Put("article", pending), Put("pending", None)>>

\* _recover_pending_draft: what it writes for manifest m.
Recovery(m) ==
  IF pending = None THEN <<>>
  ELSE IF m.draft = None THEN <<Put("article", None), Put("pending", None)>>
  ELSE IF article = m.draft.doc THEN <<Put("pending", None)>>
  ELSE <<Put("article", pending.previous), Put("pending", None)>>

Recoverable(m) ==
  pending # None /\ m.draft # None =>
    article = m.draft.doc \/ pending.previous = m.draft.doc

\* The recovery in _read_draft, and the one after a failed save.
Recover(p) ==
  /\ proc[p].pc = "draft"
  /\ Recoverable(proc[p].man)
  /\ Become(p, [proc[p] EXCEPT !.pc = "recover", !.todo = Recovery(proc[p].man)])
  /\ UNCHANGED <<disk, library>>

\* _read_draft after the recovery.
DraftReadable(m) == article = IF m.draft = None THEN None ELSE m.draft.doc

Recovered(p) ==
  /\ proc[p].pc = "recover"
  /\ proc[p].todo = <<>>
  /\ DraftReadable(proc[p].man)
  /\ IF proc[p].kind = "read" THEN Leave(p)
     ELSE Become(p, [proc[p] EXCEPT !.pc = "plan"])
  /\ UNCHANGED <<disk, library>>

DraftFails(p) ==
  /\ \/ proc[p].pc = "draft" /\ ~Recoverable(proc[p].man)
     \/ proc[p].pc = "recover" /\ proc[p].todo = <<>> /\ ~DraftReadable(proc[p].man)
  /\ Leave(p)
  /\ UNCHANGED <<disk, library>>

-----------------------------------------------------------------------------
(* Plans: what each request writes once it has read the workspace *)

Work(p, todo, ds) ==
  /\ Become(p, [proc[p] EXCEPT !.pc = "work", !.todo = todo])
  /\ dirs' = dirs \cup ds
  /\ UNCHANGED <<manifest, article, pending, files, lock, library>>

\* Mutant: media of the previous draft need no check, nor do new ones.
SaveableUnchecked(doc, m, refresh) == TRUE

\* _validate_draft_source_snapshot: a generated or first draft shows exactly
\* the included materials, a revision what the draft had or what is ready.
Saveable(doc, m, refresh) ==
  IF m.draft # None /\ ~refresh
  THEN doc.media \subseteq m.draft.doc.media \cup Ready(m)
  ELSE doc.media = Included(m)

\* Mutant: the expected draft version is not compared.
CurrentManifestOnly(p, m) == proc[p].mver = m.version

Current(p, m) == proc[p].mver = m.version /\ proc[p].dver = DraftVersion(m)

\* Mutant: no pending record.
SavePlanUnrecorded(m, doc) ==
  <<Put("article", doc),
    Put("manifest", [m EXCEPT !.draft = [version |-> DraftVersion(m) + 1, doc |-> doc]])>>

\* The replacements of save_draft, in their order.
SavePlan(m, doc) ==
  <<Put("pending", [previous |-> IF m.draft = None THEN None ELSE m.draft.doc]),
    Put("article", doc),
    Put("manifest", [m EXCEPT !.draft = [version |-> DraftVersion(m) + 1, doc |-> doc]]),
    Put("pending", None)>>

\* save_draft, with a document of the request or one assembled before.
SaveDraft(p) ==
  /\ proc[p].pc = "plan" /\ proc[p].kind = "save"
  /\ Current(p, proc[p].man)
  /\ \E doc \in IF proc[p].doc = None THEN Documents ELSE {proc[p].doc} :
       /\ Saveable(doc, proc[p].man, proc[p].refresh)
       /\ Work(p, SavePlan(proc[p].man, doc), {"draft"})

\* The first critical section of save_draft_proposal, and of edit_draft, which
\* compares the draft's version as well: a document is assembled from what was
\* read, and the lock given back before save_draft takes it again.
Revise(p) ==
  LET m == proc[p].man IN
  /\ proc[p].pc = "plan" /\ proc[p].kind = "revise"
  /\ Fresh(p, m)
  /\ m.draft = None => proc[p].refresh
  /\ \E doc \in Documents :
       /\ doc.media \subseteq IF proc[p].refresh THEN Included(m)
                              ELSE m.draft.doc.media \cup Ready(m)
       /\ Become(p, [proc[p] EXCEPT !.pc = "open", !.kind = "save", !.at = None,
                       !.doc = doc, !.base = DraftVersion(m), !.man = None])
  /\ UNCHANGED <<disk, library>>

Material(origin, ready, included) ==
  [origin |-> origin, ready |-> ready, included |-> included]

\* Mutant: an attachment collected before is collected again.
CollectableAll(m) == Attachments

\* Attachments of the message that are not materials yet.
Collectable(m) == Attachments \ OriginsOf(m)

\* Files first, then the manifest that claims them.
CollectPlan(m, new, included) ==
  LET added == [id \in DOMAIN new |-> Material(new[id], TRUE, included)]
      n     == Cardinality(DOMAIN new)
  IN [i \in 1..n |-> PutFile(m.next + i - 1, new[m.next + i - 1])]
     \o <<Put("manifest", Changed(m, Extend(m.sources, added), m.next + n))>>

\* upload_source takes one file, upload_sources_from_paths a message's.
Upload(p) ==
  LET m == proc[p].man IN
  /\ proc[p].pc = "plan" /\ proc[p].kind = "upload"
  /\ m.next <= MaxMaterial
  /\ Work(p, CollectPlan(m, [id \in {m.next} |-> Web], FALSE), {"sources"})

Collect(p) ==
  LET m   == proc[p].man
      new == Collectable(m)
  IN
  /\ proc[p].pc = "plan" /\ proc[p].kind = "collect"
  /\ new # {}
  /\ m.next + Cardinality(new) - 1 <= MaxMaterial
  /\ \E order \in Numberings(new, m.next), included \in BOOLEAN :
       Work(p, CollectPlan(m, order, included), {"sources"})

\* _materialize_meeting_source, for import_source and for the inclusion of a
\* candidate: the medium must still be in the library.
Import(p) ==
  LET m == proc[p].man IN
  /\ proc[p].pc = "plan" /\ proc[p].kind = "import"
  /\ \E id \in DOMAIN m.sources \ Ready(m), included \in BOOLEAN :
       /\ m.sources[id].origin \in library
       /\ Work(p, <<PutFile(id, m.sources[id].origin),
                    Put("manifest", Changed(m,
                      [m.sources EXCEPT ![id].ready = TRUE, ![id].included = included],
                      m.next))>>, {"sources"})

\* update_sources, set_source_included, update_workspace: inclusion of ready
\* materials changes, or wording and order, which the model leaves out.
Update(p) ==
  LET m == proc[p].man IN
  /\ proc[p].pc = "plan" /\ proc[p].kind = "update"
  /\ \E S \in SUBSET Ready(m) :
       Work(p, <<Put("manifest", Changed(m,
                   [id \in DOMAIN m.sources |->
                      [m.sources[id] EXCEPT !.included = (id \in S)]], m.next))>>, {})

\* Mutant: candidates do not count as known.
KnownReady(m) == {m.sources[id].origin : id \in Ready(m)}

\* _reconcile_meeting_sources: keys that have a record, pruned or not.
Known(m) == Keys \cap OriginsOf(m)

Gone(m, seen) ==
  {id \in DOMAIN m.sources \ Ready(m) : m.sources[id].origin \in Keys \ seen}

\* sync_meeting_media, by a library list read before the lock; it goes on to
\* read the draft, as get_context does.
Sync(p) ==
  LET m    == proc[p].man
      new  == proc[p].seen \ Known(m)
      gone == Gone(m, proc[p].seen)
  IN
  /\ proc[p].pc = "plan" /\ proc[p].kind = "sync"
  /\ IF new \cup gone = {}
     THEN /\ Become(p, [proc[p] EXCEPT !.pc = "draft", !.kind = "read"])
          /\ UNCHANGED <<disk, library>>
     ELSE /\ m.next + Cardinality(new) - 1 <= MaxMaterial
          /\ \E f \in Numberings(new, m.next) :
               Work(p, <<Put("manifest", Changed(m,
                 Extend(Without(m.sources, gone),
                        [id \in DOMAIN f |-> Material(f[id], FALSE, FALSE)]),
                 m.next + Cardinality(new)))>>, {})

\* Mutant: the references of the draft are not looked at.
UnreferencedAny(m, id) == TRUE

Unreferenced(m, id) == m.draft # None => id \notin m.draft.doc.media

\* delete_source: the manifest first, then the file.
Discard(p) ==
  LET m == proc[p].man IN
  /\ proc[p].pc = "plan" /\ proc[p].kind = "discard"
  /\ \E id \in Ready(m) :
       /\ Unreferenced(m, id)
       /\ LET sources == IF m.sources[id].origin \in Keys
                         THEN [m.sources EXCEPT ![id].ready = FALSE, ![id].included = FALSE]
                         ELSE Without(m.sources, {id})
          IN Work(p, <<Put("manifest", Changed(m, sources, m.next)), PutFile(id, None)>>, {})

\* delete_workspace: rmtree lists the directory before it removes entries.
Remove(p) ==
  /\ proc[p].pc = "plan" /\ proc[p].kind = "remove"
  /\ Become(p, [proc[p] EXCEPT !.pc = "removing",
       !.left = (dirs \ {"root"}) \cup {"manifest"} \cup IF lock = None THEN {} ELSE {"lock"}])
  /\ UNCHANGED <<disk, library>>

\* Any other outcome of the checks, or of the download: an error answer.
Reject(p) ==
  /\ proc[p].pc = "plan"
  /\ proc[p].kind # "remove"
  /\ Leave(p)
  /\ UNCHANGED <<disk, library>>

-----------------------------------------------------------------------------
(* Working a plan off: _atomic_write and _remove_regular_file *)

WritingPcs == {"work", "recover", "rollback", "cleanup"}
Writing(p) == proc[p].pc \in WritingPcs /\ proc[p].todo # <<>>

Directory(item) ==
  CASE item.place \in {"pending", "article"} -> "draft"
    [] item.place = "file"                   -> "sources"
    [] item.place = "manifest"               -> "root"

Apply(item) ==
  /\ pending'  = IF item.place = "pending"  THEN item.value ELSE pending
  /\ article'  = IF item.place = "article"  THEN item.value ELSE article
  /\ manifest' = IF item.place = "manifest" THEN item.value ELSE manifest
  /\ files'    = IF item.place = "file" THEN [files EXCEPT ![item.id] = item.value]
                                        ELSE files

\* unlink with tolerate_failure: every unlink but the article's.
Tolerated(item) == item.value = None /\ item.place # "article"

\* The source files this request has written.
Made(p, item) ==
  IF item.place = "file" /\ item.value # None THEN proc[p].made \cup {item.id}
                                              ELSE proc[p].made

Write(p) ==
  LET item == Head(proc[p].todo) IN
  /\ Writing(p)
  /\ Directory(item) \in dirs
  /\ Apply(item)
  /\ Become(p, [proc[p] EXCEPT !.todo = Tail(@), !.made = Made(p, item),
                  !.man = IF item.place = "manifest" THEN item.value ELSE @])
  /\ UNCHANGED <<dirs, lock, library>>

\* A write fails before its effect, or after it when the directory cannot be
\* synced.  A tolerated failure is passed over; in a plan another is handled
\* by the request; in a recovery it is the answer.
WriteFails(p) ==
  LET item == Head(proc[p].todo) IN
  /\ Writing(p)
  /\ "write" \in Faults \/ Directory(item) \notin dirs
  /\ \/ UNCHANGED <<pending, article, manifest, files>>
     \/ Directory(item) \in dirs /\ Apply(item)
  /\ IF Tolerated(item) THEN Become(p, [proc[p] EXCEPT !.todo = Tail(@)])
     ELSE IF proc[p].pc = "work" THEN Become(p, [proc[p] EXCEPT !.pc = "undo"])
     ELSE Leave(p)
  /\ UNCHANGED <<dirs, lock, library>>

\* Mutant: what was written is removed without a look at the manifest.
UnclaimedAll(ids) == ids

\* _remove_source_file_unless_claimed keeps a file the manifest on disk claims
\* after all, and every file when it cannot read the manifest.
Unclaimed(ids) ==
  {id \in ids : manifest # None /\ id \notin Ready(manifest)}

\* A save whose article or manifest failed re-reads the manifest and recovers;
\* if that cannot be read, or the pending record failed, it only answers.
UndoSave(p) ==
  /\ proc[p].kind = "save"
  /\ IF /\ Head(proc[p].todo).place # "pending"
        /\ manifest # None /\ FilesPresent(manifest) /\ Recoverable(manifest)
     THEN Become(p, [proc[p] EXCEPT !.pc = "rollback", !.todo = Recovery(manifest)])
     ELSE Leave(p)
  /\ UNCHANGED <<disk, library>>

\* Uploads and imports remove the files they wrote, unless claimed.
UndoMaterials(p) ==
  /\ proc[p].kind # "save"
  /\ \E order \in Numberings(Unclaimed(proc[p].made), 1) :
       Become(p, [proc[p] EXCEPT !.pc = "cleanup",
                    !.todo = [i \in DOMAIN order |-> PutFile(order[i], None)]])
  /\ UNCHANGED <<disk, library>>

Undo(p) == proc[p].pc = "undo" /\ (UndoSave(p) \/ UndoMaterials(p))

\* The plan is done.  A sync reads the draft of the manifest it has written
\* before it answers.
Finish(p) ==
  /\ proc[p].pc \in WritingPcs \ {"recover"}
  /\ proc[p].todo = <<>>
  /\ IF proc[p].pc = "work" /\ proc[p].kind = "sync"
     THEN Become(p, [Idle EXCEPT !.pc = "draft", !.at = proc[p].at, !.man = proc[p].man])
     ELSE Leave(p)
  /\ UNCHANGED <<disk, library>>

\* shutil.rmtree, entry by entry in any order; a subdirectory in one step.
RemoveEntry(p) ==
  /\ proc[p].pc = "removing"
  /\ \E entry \in proc[p].left :
       /\ Become(p, [proc[p] EXCEPT !.left = @ \ {entry}])
       /\ manifest' = IF entry = "manifest" THEN None ELSE manifest
       /\ lock'     = IF entry = "lock" THEN None ELSE lock
       /\ dirs'     = dirs \ {entry}
       /\ IF entry = "draft" THEN article' = None /\ pending' = None
                             ELSE UNCHANGED <<article, pending>>
       /\ files'    = IF entry = "sources" THEN [id \in Ids |-> None] ELSE files
  /\ UNCHANGED library

\* rmdir refuses a directory that is not empty; the request fails.
RemoveDirectory(p) ==
  /\ proc[p].pc = "removing"
  /\ proc[p].left = {}
  /\ dirs' = IF manifest = None /\ lock = None THEN dirs \ {"root"} ELSE dirs
  /\ Leave(p)
  /\ UNCHANGED <<manifest, article, pending, files, lock, library>>

RemoveFails(p) ==
  /\ proc[p].pc = "removing"
  /\ "write" \in Faults
  /\ Leave(p)
  /\ UNCHANGED <<disk, library>>

-----------------------------------------------------------------------------
(* The environment *)

\* A process is killed; the kernel releases its flock.
Crash(p) ==
  /\ "crash" \in Faults
  /\ proc[p].pc # "idle"
  /\ Leave(p)
  /\ UNCHANGED <<disk, library>>

\* Members upload to and delete from the meeting's library.
LibraryChange ==
  /\ \E k \in Keys : library' = (library \cup {k}) \ (library \cap {k})
  /\ UNCHANGED <<disk, proc>>

Serve(p) ==
  \/ OpenLock(p) \/ OpenFails(p) \/ Acquire(p)
  \/ ReadManifest(p) \/ ReadFails(p)
  \/ Recover(p) \/ Recovered(p) \/ DraftFails(p)
  \/ SaveDraft(p) \/ Revise(p) \/ Upload(p) \/ Collect(p) \/ Import(p)
  \/ Update(p) \/ Sync(p) \/ Discard(p) \/ Remove(p) \/ Reject(p)
  \/ Write(p) \/ WriteFails(p) \/ Undo(p) \/ Finish(p)
  \/ RemoveEntry(p) \/ RemoveDirectory(p) \/ RemoveFails(p)

Next ==
  \/ \E p \in Procs : (\E kind \in AllKinds : Request(p, kind)) \/ Serve(p) \/ Crash(p)
  \/ LibraryChange

Spec == Init /\ [][Next]_vars

-----------------------------------------------------------------------------
(* Properties *)

\* Every file holds what the code can have put there, and a process that has
\* the lock knows its inode.
TypeOK ==
  /\ manifest \in Manifests \cup {None}
  /\ article \in Documents \cup {None}
  /\ pending \in Saved \cup {None}
  /\ files \in [Ids -> Origins \cup {None}]
  /\ dirs \subseteq {"root", "draft", "sources"}
  /\ lock \in Inodes \cup {None}
  /\ library \subseteq Keys
  /\ \A p \in Procs : /\ proc[p].pc \in Pcs
                      /\ proc[p].at \in Inodes \cup {None}
                      /\ Holds(p) => proc[p].at # None

\* What the next reader finds: the manifest on disk can always be served,
\* whatever request was killed or failed at whatever write (_read_manifest,
\* _read_draft and _recover_pending_draft accept it).
Readable ==
  manifest # None =>
    /\ FilesPresent(manifest)
    /\ Recoverable(manifest)
    /\ pending = None => DraftReadable(manifest)

\* The flock of the workspace: no two requests are past it at a time.
LockExcludes ==
  \A p, q \in Procs : Holds(p) /\ Holds(q) => p = q

\* The document of an edit or a proposal replaces the draft it was made from,
\* although the lock was given back in between.
RevisionsKeepTheirBase ==
  [][\A p \in Procs :
       /\ Writing(p) /\ proc[p].pc = "work" /\ proc[p].doc # None
       /\ manifest # None /\ manifest' # None
       /\ manifest'.draft # manifest.draft
       /\ proc'[p] # proc[p]
       => DraftVersion(manifest) = proc[p].base]_vars

\* What a reader gets after the recovery.
Served ==
  IF manifest = None \/ manifest.draft = None THEN manifest
  ELSE [manifest EXCEPT !.draft.doc = IF article = manifest.draft.doc THEN article
                                      ELSE IF pending = None THEN None
                                      ELSE pending.previous]

Store == INSTANCE WorkspaceStore
           WITH store <- Served, Anonymous <- {Web}

\* Even where a removal lets two requests past the lock: a manifest on disk is
\* consistent in itself, its draft shows materials it calls ready.
ManifestConsistent == manifest # None => Store!Consistent(manifest)

\* A material number, once persisted, names one material (_material_id).
NumbersAreNotReused ==
  [][manifest # None /\ manifest' # None =>
       \A id \in DOMAIN manifest'.sources :
         IF id \in DOMAIN manifest.sources
         THEN manifest'.sources[id].origin = manifest.sources[id].origin
         ELSE id >= manifest.next]_vars

\* For a reader the workspace is one atomic store: every step of every request
\* is a whole save, a whole change of the materials, or invisible.
RefinesStore == Store!Spec
=============================================================================
