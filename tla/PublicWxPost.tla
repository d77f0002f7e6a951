---------------------------- MODULE PublicWxPost ----------------------------
(***************************************************************************)
(* The public article of one workspace in the SoarHigh backend             *)
(* (services/wxpost_publication.py over db/wxpost.py): its row in wxposts,  *)
(* the rows of its media in wxpost_assets and the media objects in OSS.    *)
(*                                                                         *)
(* The backend runs as serverless functions, so two requests share nothing *)
(* but the database and the object store: every SQL statement and every    *)
(* OSS call of a handler is a step of its own.  WeChat variants, rendering *)
(* and the text of the article are left out; a rendering or variant that   *)
(* fails ends the handler as HandlerDies does.                             *)
(***************************************************************************)
EXTENDS Naturals, Sequences

CONSTANTS
  Items,       \* media sources of the workspace
  Uploads,     \* the items uploaded by a browser; the others are copied from
               \* the meeting library
  Sha,         \* Sha[i]: content hash of item i
  Document,    \* Document[d]: media of the d-th saved draft.  Two drafts with
               \* the same media are the same document saved twice, so the set
               \* is also what bundle_sha256 tells apart
  Handlers,    \* requests the backend serves at once
  MaxShells,   \* bound: article rows ever created
  MaxKeys,     \* bound: asset rows ever created
  MaxRevision, \* bound: public revisions
  MaxDeletes,  \* bound: deletions members ask for
  BackendFaults, \* subset of {"die", "oss"}
  None

Drafts == DOMAIN Document
Shells == 1..MaxShells
Keys   == 1..MaxKeys
Shas   == {Sha[i] : i \in Items}

ASSUME PublicAssumption ==
  /\ Uploads \subseteq Items
  /\ Document \in Seq(SUBSET Items)
  /\ {MaxShells, MaxKeys, MaxDeletes} \subseteq Nat /\ MaxRevision \in Nat \ {0}
  /\ None \notin Nat
  /\ BackendFaults \subseteq {"die", "oss"}

VARIABLES
  draft,     \* draftVersion the controller serves, 0 before the first save
  wx,        \* the wxposts row of the workspace, or None
  assets,    \* its wxpost_assets rows, one per item by the idempotency key
  objects,   \* keys of the media objects in OSS
  signed,    \* keys a browser holds a signed PUT URL for
  plans,     \* plans prepare_publication_submit has returned
  used,      \* shells, keys and deletions so far: uuid4 never repeats one
  handler,   \* the requests being served
  published  \* history: every revision the row has shown

publicVars ==
  <<draft, wx, assets, objects, signed, plans, used, handler, published>>

-----------------------------------------------------------------------------
(* Rows and requests *)

Article == [id : Shells, status : {"assembling", "ready"},
            revision  : 1..MaxRevision,
            finalized : BOOLEAN,             \* finalize_request_hash is set
            draft     : Drafts, bundle : SUBSET Items,
            media     : SUBSET Keys]         \* objects the document links to

\* The part of a row that a reader of the article sees.
Revision == [shell : Shells, revision : 1..MaxRevision,
             draft : Drafts, bundle : SUBSET Items]
Shown(row) == [shell |-> row.id, revision |-> row.revision,
               draft |-> row.draft, bundle |-> row.bundle]

ASSUME NullAssumption == None \notin Article \cup Revision

AssetStates == {"pending", "ready", "failed", "abandoned"}
Asset == [key : Keys, status : AssetStates]

Plan == [shell : Shells, draft : Drafts]

Pcs == {"idle", "ok", "rejected",
        "submit.read", "submit.create", "uploads.row", "uploads.retry",
        "ensure.owner", "ensure.row", "copy.row", "ensure.retry",
        "copy", "verify", "mark",
        "fin.context", "fin.owner", "fin.assets", "fin.pending", "fin.update",
        "fin.conflict",
        "sweep.select", "sweep.abandon", "sweep.objects", "sweep.rows",
        "del.begin", "del.row"}

Request == [pc    : Pcs,
            op    : {"none", "submit", "uploads", "ensure", "finalize", "delete"},
            shell : Shells \cup {None}, draft : Drafts \cup {None},
            item  : Items \cup {None},  key   : Keys \cup {None},
            revision : 1..MaxRevision \cup {None},   \* expected by a delete
            owner : Article \cup {None},             \* row as it was read
            todo  : SUBSET Items,                    \* uploads left to sign
            media : SUBSET Keys, keep : SUBSET Shas,
            stale : SUBSET Keys, live : SUBSET Keys] \* rows the sweep selected

IdleRequest ==
  [pc |-> "idle", op |-> "none", shell |-> None, draft |-> None,
   item |-> None, key |-> None, revision |-> None, owner |-> None,
   todo |-> {}, media |-> {}, keep |-> {}, stale |-> {}, live |-> {}]

Init ==
  /\ draft = 0
  /\ wx = None
  /\ assets = [i \in Items |-> None]
  /\ objects = {}
  /\ signed = {}
  /\ plans = {}
  /\ used = [shells |-> 0, keys |-> 0, deletes |-> 0]
  /\ handler = [h \in Handlers |-> IdleRequest]
  /\ published = {}

At(h, pc) == handler[h].pc = pc
Idle(h)   == At(h, "idle")

\* The request goes on at pc; it ends with an answer, forgetting what it read.
Go(h, pc)         == handler' = [handler EXCEPT ![h].pc = pc]
Answers(h, answer) ==
  handler' = [handler EXCEPT
    ![h] = [IdleRequest EXCEPT !.pc = answer, !.op = handler[h].op,
                               !.shell = handler[h].shell,
                               !.draft = handler[h].draft]]
Serve(h, request) == Idle(h) /\ handler' = [handler EXCEPT ![h] = request]

Owned(h) == wx # None /\ wx.id = handler[h].shell
Public   == wx # None /\ wx.status = "ready"

\* The asset rows a handler reaches through its own wxpost_id and item.
Row(h, i) == IF Owned(h) THEN assets[i] ELSE None
RowIs(h, states) ==
  LET row == Row(h, handler[h].item)
  IN  row # None /\ row.key = handler[h].key /\ row.status \in states

SetStatus(keys, states, status) ==
  [i \in Items |-> IF assets[i] # None /\ assets[i].key \in keys
                                       /\ assets[i].status \in states
                   THEN [assets[i] EXCEPT !.status = status] ELSE assets[i]]

-----------------------------------------------------------------------------
(* The controller saves a draft; a browser uploads to a URL it was given *)

SaveDraft ==
  /\ draft + 1 \in Drafts
  /\ draft' = draft + 1
  /\ UNCHANGED <<wx, assets, objects, signed, plans, used, handler, published>>

Put(k) ==
  /\ k \in signed \ objects
  /\ objects' = objects \cup {k}
  /\ UNCHANGED <<draft, wx, assets, signed, plans, used, handler, published>>

-----------------------------------------------------------------------------
(* prepare_publication_submit and prepare_publication_uploads *)

\* The context is loaded and its versions are those the member asked for.
StartSubmit(h, op) ==
  /\ op \in {"submit", "uploads"}
  /\ draft # 0
  /\ Serve(h, [IdleRequest EXCEPT !.pc = "submit.read", !.op = op,
                                  !.draft = draft])
  /\ UNCHANGED <<draft, wx, assets, objects, signed, plans, used, published>>

\* A retry of a publication that went public and then failed in its sweep may
\* still name the revision before it.
RetryingCompleted(d, expected) ==
  /\ expected # None
  /\ wx.revision = expected + 1
  /\ wx.draft = d
  /\ wx.bundle = Document[d]
  /\ \E i \in Items : assets[i] # None /\ assets[i].status = "abandoned"

MaySubmit(d, expected) ==
  IF Public THEN expected = wx.revision \/ RetryingCompleted(d, expected)
            ELSE expected = None

\* The plan is returned, or the uploads of the plan are prepared.
Accept(h, shell) ==
  IF handler[h].op = "submit"
  THEN /\ plans' = plans \cup {[shell |-> shell, draft |-> handler[h].draft]}
       /\ handler' = [handler EXCEPT ![h].pc = "ok", ![h].shell = shell]
  ELSE /\ handler' = [handler EXCEPT
                        ![h].pc = "uploads.row", ![h].shell = shell,
                        ![h].todo = Document[handler[h].draft] \cap Uploads]
       /\ UNCHANGED plans

SubmitRead(h, expected) ==
  /\ At(h, "submit.read")
  /\ \/ /\ ~MaySubmit(handler[h].draft, expected)
        /\ Answers(h, "rejected")
        /\ UNCHANGED plans
     \/ /\ MaySubmit(handler[h].draft, expected)
        /\ wx = None
        /\ Go(h, "submit.create")
        /\ UNCHANGED plans
     \/ /\ MaySubmit(handler[h].draft, expected)
        /\ wx # None
        /\ Accept(h, wx.id)
  /\ UNCHANGED <<draft, wx, assets, objects, signed, used, published>>

\* Mutant: a shell is created at public_revision 0.
NewShellUnnumbered(d) ==
  [id |-> used.shells + 1, status |-> "assembling", revision |-> 0,
   finalized |-> FALSE, draft |-> d, bundle |-> Document[d], media |-> {}]

NewShell(d) ==
  [id |-> used.shells + 1, status |-> "assembling", revision |-> 1,
   finalized |-> FALSE, draft |-> d, bundle |-> Document[d], media |-> {}]

\* create_publication_shell, which adopts the row of a concurrent request.
SubmitCreate(h) ==
  /\ At(h, "submit.create")
  /\ LET d == handler[h].draft IN
     \/ /\ wx = None
        /\ used.shells < MaxShells
        /\ wx' = NewShell(d)
        /\ used' = [used EXCEPT !.shells = @ + 1]
        /\ Accept(h, used.shells + 1)
     \/ /\ wx # None
        /\ wx.draft = d /\ wx.bundle = Document[d]
        /\ Accept(h, wx.id)
        /\ UNCHANGED <<wx, used>>
     \/ /\ wx # None
        /\ ~(wx.draft = d /\ wx.bundle = Document[d])
        /\ Answers(h, "rejected")
        /\ UNCHANGED <<wx, used, plans>>
  /\ UNCHANGED <<draft, assets, objects, signed, published>>

\* create_pending_wxpost_asset where the idempotency key is free.
Insert(h, i) ==
  /\ Owned(h)
  /\ assets[i] = None
  /\ used.keys < MaxKeys
  /\ assets' = [assets EXCEPT ![i] = [key |-> used.keys + 1,
                                      status |-> "pending"]]
  /\ used' = [used EXCEPT !.keys = @ + 1]

\* _prepare_upload_asset_row for one item: its row is created or recovered and
\* its key is signed, unless it is ready or must be revived first.
UploadsRow(h, i) ==
  /\ At(h, "uploads.row")
  /\ i \in handler[h].todo
  /\ LET row == assets[i]
         done == [handler EXCEPT ![h].todo = @ \ {i}]
     IN
     \/ /\ ~Owned(h)                          \* foreign key violation
        /\ Answers(h, "rejected")
        /\ UNCHANGED <<assets, used, signed>>
     \/ /\ Insert(h, i)
        /\ signed' = signed \cup {used.keys + 1}
        /\ handler' = done
     \/ /\ Owned(h) /\ row # None /\ row.status \in {"pending", "ready"}
        /\ signed' = IF row.status = "pending" THEN signed \cup {row.key}
                                               ELSE signed
        /\ handler' = done
        /\ UNCHANGED <<assets, used>>
     \/ /\ Owned(h) /\ row # None /\ row.status \in {"failed", "abandoned"}
        /\ handler' = [handler EXCEPT ![h].pc = "uploads.retry",
                                      ![h].item = i, ![h].key = row.key]
        /\ UNCHANGED <<assets, used, signed>>
  /\ UNCHANGED <<draft, wx, objects, plans, published>>

UploadsRetry(h) ==
  /\ At(h, "uploads.retry")
  /\ \/ /\ RowIs(h, {"failed", "abandoned"})
        /\ assets' = [assets EXCEPT ![handler[h].item].status = "pending"]
        /\ signed' = signed \cup {handler[h].key}
        /\ handler' = [handler EXCEPT ![h].pc = "uploads.row",
                                      ![h].todo = @ \ {handler[h].item},
                                      ![h].item = None, ![h].key = None]
     \/ /\ ~RowIs(h, {"failed", "abandoned"})
        /\ Answers(h, "rejected")
        /\ UNCHANGED <<assets, signed>>
  /\ UNCHANGED <<draft, wx, objects, plans, used, published>>

UploadsDone(h) ==
  /\ At(h, "uploads.row")
  /\ handler[h].todo = {}
  /\ Answers(h, "ok")
  /\ UNCHANGED <<draft, wx, assets, objects, signed, plans, used, published>>

-----------------------------------------------------------------------------
(* ensure_publication_asset *)

StartEnsure(h, p, i) ==
  /\ p \in plans
  /\ i \in Document[p.draft]
  /\ Serve(h, [IdleRequest EXCEPT !.pc = "ensure.owner", !.op = "ensure",
                                  !.shell = p.shell, !.draft = p.draft,
                                  !.item = i])
  /\ UNCHANGED <<draft, wx, assets, objects, signed, plans, used, published>>

\* get_wxpost_by_id, for ensure and for finalize.
ReadOwner(h) ==
  /\ \/ /\ ~Owned(h)
        /\ At(h, "ensure.owner") \/ At(h, "fin.owner")
        /\ Answers(h, "rejected")
     \/ /\ Owned(h)
        /\ At(h, "ensure.owner")
        /\ Go(h, "ensure.row")
     \/ /\ Owned(h)
        /\ At(h, "fin.owner")
        /\ handler' = [handler EXCEPT ![h].pc = "fin.assets", ![h].owner = wx]
  /\ UNCHANGED <<draft, wx, assets, objects, signed, plans, used, published>>

\* What a recovered row means to ensure: done, revive it, or fill it.
Resume(h, row, fill) ==
  \/ /\ row.status = "ready"
     /\ Answers(h, "ok")
  \/ /\ row.status \in {"failed", "abandoned"}
     /\ handler' = [handler EXCEPT ![h].pc = "ensure.retry", ![h].key = row.key]
  \/ /\ row.status = "pending"
     /\ handler' = [handler EXCEPT ![h].pc = fill, ![h].key = row.key]

\* An uploaded item resolves through its own row only; a library item takes
\* any ready asset with its content.
EnsureRow(h) ==
  /\ At(h, "ensure.row")
  /\ LET i   == handler[h].item
         row == Row(h, i)
     IN
     \/ /\ i \in Uploads /\ row = None
        /\ Answers(h, "rejected")
     \/ /\ i \in Uploads /\ row # None
        /\ Resume(h, row, "verify")
     \/ /\ i \notin Uploads
        /\ IF \E j \in Items : /\ Sha[j] = Sha[i] /\ Row(h, j) # None
                               /\ Row(h, j).status = "ready"
           THEN Answers(h, "ok")
           ELSE Go(h, "copy.row")
  /\ UNCHANGED <<draft, wx, assets, objects, signed, plans, used, published>>

CopyRow(h) ==
  /\ At(h, "copy.row")
  /\ LET i == handler[h].item IN
     \/ /\ ~Owned(h)
        /\ Answers(h, "rejected")
        /\ UNCHANGED <<assets, used>>
     \/ /\ Insert(h, i)
        /\ handler' = [handler EXCEPT ![h].pc = "copy",
                                      ![h].key = used.keys + 1]
     \/ /\ Owned(h) /\ assets[i] # None
        /\ Resume(h, assets[i], "copy")
        /\ UNCHANGED <<assets, used>>
  /\ UNCHANGED <<draft, wx, objects, signed, plans, published>>

\* retry_inactive_wxpost_asset
EnsureRetry(h) ==
  /\ At(h, "ensure.retry")
  /\ \/ /\ RowIs(h, {"failed", "abandoned"})
        /\ assets' = [assets EXCEPT ![handler[h].item].status = "pending"]
        /\ Go(h, IF handler[h].item \in Uploads THEN "verify" ELSE "copy")
     \/ /\ ~RowIs(h, {"failed", "abandoned"})
        /\ Answers(h, "rejected")
        /\ UNCHANGED assets
  /\ UNCHANGED <<draft, wx, objects, signed, plans, used, published>>

Copy(h) ==
  /\ At(h, "copy")
  /\ objects' = objects \cup {handler[h].key}
  /\ Go(h, "mark")
  /\ UNCHANGED <<draft, wx, assets, signed, plans, used, published>>

\* Mutant: the row is marked ready without a HEAD of its object.
VerifyUnseen(h) ==
  /\ At(h, "verify")
  /\ Go(h, "mark")
  /\ UNCHANGED <<draft, wx, assets, objects, signed, plans, used, published>>

\* _verify_uploaded_asset: the object must be there.
Verify(h) ==
  /\ At(h, "verify")
  /\ IF handler[h].key \in objects THEN Go(h, "mark") ELSE Answers(h, "rejected")
  /\ UNCHANGED <<draft, wx, assets, objects, signed, plans, used, published>>

\* mark_wxpost_asset_ready; a row it cannot make ready is not pending, and
\* mark_wxpost_asset_failed leaves it alone.
MarkReady(h) ==
  /\ At(h, "mark")
  /\ \/ /\ RowIs(h, {"pending"})
        /\ assets' = [assets EXCEPT ![handler[h].item].status = "ready"]
        /\ Answers(h, "ok")
     \/ /\ ~RowIs(h, {"pending"})
        /\ Answers(h, IF RowIs(h, {"ready"}) THEN "ok" ELSE "rejected")
        /\ UNCHANGED assets
  /\ UNCHANGED <<draft, wx, objects, signed, plans, used, published>>

\* The copy fails, or the object is not the expected one.
OssFails(h) ==
  /\ "oss" \in BackendFaults
  /\ At(h, "copy") \/ At(h, "verify")
  /\ assets' = IF RowIs(h, {"pending"})
               THEN [assets EXCEPT ![handler[h].item].status = "failed"]
               ELSE assets
  /\ Answers(h, "rejected")
  /\ UNCHANGED <<draft, wx, objects, signed, plans, used, published>>

-----------------------------------------------------------------------------
(* finalize_publication *)

StartFinalize(h, p) ==
  /\ p \in plans
  /\ Serve(h, [IdleRequest EXCEPT !.pc = "fin.context", !.op = "finalize",
                                  !.shell = p.shell, !.draft = p.draft])
  /\ UNCHANGED <<draft, wx, assets, objects, signed, plans, used, published>>

\* Mutant: the versions of the context are not compared with the plan's.
FinContextUnchecked(h) ==
  /\ At(h, "fin.context")
  /\ Go(h, "fin.owner")
  /\ UNCHANGED <<draft, wx, assets, objects, signed, plans, used, published>>

\* _load_workspace_context and the version checks of finalize_publication.
FinContext(h) ==
  /\ At(h, "fin.context")
  /\ IF draft = handler[h].draft THEN Go(h, "fin.owner")
                                 ELSE Answers(h, "rejected")
  /\ UNCHANGED <<draft, wx, assets, objects, signed, plans, used, published>>

ReadyRows(h) ==
  {i \in Items : Row(h, i) # None /\ Row(h, i).status = "ready"}

Bundle(h) == Document[handler[h].draft]

\* Mutant: a repeated finalize is not recognised.
AlreadyPublicNever(h) == FALSE

\* The row, as it was read, already shows what is to be published.
AlreadyPublic(h) ==
  LET owner == handler[h].owner IN
  /\ owner.status = "ready"
  /\ owner.bundle = Bundle(h) /\ owner.draft = handler[h].draft

\* Every media item must have a ready asset; its URL goes into the document.
\* Which of two assets of equal content serves is the database's choice.
FinAssets(h) ==
  /\ At(h, "fin.assets")
  /\ LET owner == handler[h].owner
         same  == AlreadyPublic(h)
         keep  == {Sha[i] : i \in Bundle(h)}
     IN
     \/ /\ ~ \A i \in Bundle(h) : \E j \in ReadyRows(h) : Sha[j] = Sha[i]
        /\ Answers(h, "rejected")
     \/ \E serves \in [keep -> ReadyRows(h)] :
          /\ \A c \in keep : Sha[serves[c]] = c
          /\ handler' = [handler EXCEPT
               ![h].pc = IF same THEN "sweep.select"
                         ELSE IF owner.status = "assembling" THEN "fin.pending"
                         ELSE "fin.update",
               ![h].keep = keep,
               ![h].media = IF same THEN {} ELSE {assets[serves[c]].key : c \in keep}]
  /\ UNCHANGED <<draft, wx, assets, objects, signed, plans, used, published>>

\* abandon_pending_wxpost_assets
FinPending(h) ==
  /\ At(h, "fin.pending")
  /\ assets' = IF Owned(h) THEN SetStatus(Keys, {"pending"}, "abandoned")
                           ELSE assets
  /\ Go(h, "fin.update")
  /\ UNCHANGED <<draft, wx, objects, signed, plans, used, published>>

\* The guards of finalize_workspace_publication's UPDATE, and of the trigger
\* block_wxpost_finalize_with_pending_assets.
RowUnchanged(h) ==
  /\ Owned(h)
  /\ wx.revision = handler[h].owner.revision
  /\ wx.status = handler[h].owner.status

Blocked ==
  /\ wx.status = "assembling"
  /\ \E i \in Items : assets[i] # None /\ assets[i].status = "pending"

\* Mutant: public_revision is not incremented.
NextRevisionKept(owner) == owner.revision

\* Mutant: a hidden row counts as one that was never public.
NextRevisionByStatus(owner) ==
  IF owner.status = "assembling" THEN owner.revision ELSE owner.revision + 1

\* The first publication keeps the revision of its shell.
NextRevision(owner) ==
  IF owner.status = "assembling" /\ ~owner.finalized THEN owner.revision
                                                     ELSE owner.revision + 1

FinUpdate(h) ==
  /\ At(h, "fin.update")
  /\ LET revision == NextRevision(handler[h].owner) IN
     \/ /\ RowUnchanged(h) /\ ~Blocked
        /\ revision <= MaxRevision
        /\ wx' = [wx EXCEPT !.status = "ready", !.finalized = TRUE,
                            !.revision = revision,
                            !.draft = handler[h].draft,
                            !.bundle = Bundle(h), !.media = handler[h].media]
        /\ published' = published \cup {Shown(wx')}
        /\ Go(h, "sweep.select")
     \/ /\ RowUnchanged(h) /\ Blocked
        /\ Answers(h, "rejected")
        /\ UNCHANGED <<wx, published>>
     \/ /\ ~RowUnchanged(h)
        /\ Go(h, "fin.conflict")
        /\ UNCHANGED <<wx, published>>
  /\ UNCHANGED <<draft, assets, objects, signed, plans, used>>

\* Mutant: any public row will do.
FinConflictAny(h) ==
  /\ At(h, "fin.conflict")
  /\ Answers(h, IF Public THEN "ok" ELSE "rejected")
  /\ UNCHANGED <<draft, wx, assets, objects, signed, plans, used, published>>

\* Somebody else changed the row: fine if it shows what was to be published.
FinConflict(h) ==
  /\ At(h, "fin.conflict")
  /\ IF Public /\ wx.draft = handler[h].draft /\ wx.bundle = Bundle(h)
     THEN Answers(h, "ok") ELSE Answers(h, "rejected")
  /\ UNCHANGED <<draft, wx, assets, objects, signed, plans, used, published>>

-----------------------------------------------------------------------------
(* _remove_unreferenced_assets, at the end of a finalize and of a deletion *)

\* Mutant: the hashes to keep are not passed on.
UnreferencedAll(h) == {i \in Items : Row(h, i) # None}

\* abandon_unreferenced_wxpost_assets: rows whose content the document lacks.
Unreferenced(h) ==
  {i \in Items : Row(h, i) # None /\ Sha[i] \notin handler[h].keep}

SweepSelect(h) ==
  /\ At(h, "sweep.select")
  /\ LET stale == Unreferenced(h)
         live  == {i \in stale : assets[i].status # "abandoned"}
     IN  handler' = [handler EXCEPT
           ![h].pc = IF live = {} THEN "sweep.objects" ELSE "sweep.abandon",
           ![h].stale = {assets[i].key : i \in stale},
           ![h].live  = {assets[i].key : i \in live}]
  /\ UNCHANGED <<draft, wx, assets, objects, signed, plans, used, published>>

\* The second statement goes by the ids the first one selected.
SweepAbandon(h) ==
  /\ At(h, "sweep.abandon")
  /\ assets' = SetStatus(handler[h].live, AssetStates, "abandoned")
  /\ Go(h, "sweep.objects")
  /\ UNCHANGED <<draft, wx, objects, signed, plans, used, published>>

SweepObjects(h) ==
  /\ At(h, "sweep.objects")
  /\ objects' = objects \ handler[h].stale
  /\ Go(h, "sweep.rows")
  /\ UNCHANGED <<draft, wx, assets, signed, plans, used, published>>

SweepRows(h) ==
  /\ At(h, "sweep.rows")
  /\ assets' = [i \in Items |->
                  IF assets[i] # None /\ assets[i].key \in handler[h].stale
                  THEN None ELSE assets[i]]
  /\ IF handler[h].op = "delete" THEN Go(h, "del.row") ELSE Answers(h, "ok")
  /\ UNCHANGED <<draft, wx, objects, signed, plans, used, published>>

-----------------------------------------------------------------------------
(* delete_public_wxpost *)

StartDelete(h, shell, revision) ==
  /\ used.deletes < MaxDeletes
  /\ used' = [used EXCEPT !.deletes = @ + 1]
  /\ Serve(h, [IdleRequest EXCEPT !.pc = "del.begin", !.op = "delete",
                                  !.shell = shell, !.revision = revision])
  /\ UNCHANGED <<draft, wx, assets, objects, signed, plans, published>>

\* begin_wxpost_deletion: the row is hidden, or has been already.
DelBegin(h) ==
  /\ At(h, "del.begin")
  /\ LET found == Owned(h) /\ wx.revision = handler[h].revision IN
     \/ /\ found
        /\ wx' = [wx EXCEPT !.status = "assembling"]
        /\ Go(h, "sweep.select")
     \/ /\ ~found
        /\ Answers(h, "rejected")
        /\ UNCHANGED wx
  /\ UNCHANGED <<draft, assets, objects, signed, plans, used, published>>

\* Mutant: a refused removal is not reported.
DelRowUnreported(h) ==
  /\ At(h, "del.row")
  /\ Answers(h, "ok")
  /\ IF Owned(h) /\ ~Public /\ wx.revision = handler[h].revision
     THEN wx' = None /\ assets' = [i \in Items |-> None]
     ELSE UNCHANGED <<wx, assets>>
  /\ UNCHANGED <<draft, objects, signed, plans, used, published>>

\* delete_hidden_wxpost; the asset rows cascade.
DelRow(h) ==
  /\ At(h, "del.row")
  /\ \/ /\ Owned(h) /\ ~Public /\ wx.revision = handler[h].revision
        /\ wx' = None
        /\ assets' = [i \in Items |-> None]
        /\ Answers(h, "ok")
     \/ /\ ~Owned(h)
        /\ Answers(h, "ok")
        /\ UNCHANGED <<wx, assets>>
     \/ /\ Owned(h)
        /\ Public \/ wx.revision # handler[h].revision
        /\ Answers(h, "rejected")
        /\ UNCHANGED <<wx, assets>>
  /\ UNCHANGED <<draft, objects, signed, plans, used, published>>

-----------------------------------------------------------------------------
(* The requests together *)

\* The function is stopped, or an error that changes no state ends it.
HandlerDies(h) ==
  /\ "die" \in BackendFaults
  /\ handler[h].pc \notin {"idle", "ok", "rejected"}
  /\ Answers(h, "rejected")
  /\ UNCHANGED <<draft, wx, assets, objects, signed, plans, used, published>>

Forget(h) ==
  /\ handler[h].pc \in {"ok", "rejected"}
  /\ handler' = [handler EXCEPT ![h] = IdleRequest]
  /\ UNCHANGED <<draft, wx, assets, objects, signed, plans, used, published>>

HandlerStep(h) ==
  \/ \E expected \in 1..MaxRevision \cup {None} : SubmitRead(h, expected)
  \/ SubmitCreate(h)
  \/ \E i \in Items : UploadsRow(h, i)
  \/ UploadsRetry(h) \/ UploadsDone(h)
  \/ ReadOwner(h) \/ EnsureRow(h) \/ CopyRow(h) \/ EnsureRetry(h)
  \/ Copy(h) \/ Verify(h) \/ MarkReady(h) \/ OssFails(h)
  \/ FinContext(h) \/ FinAssets(h) \/ FinPending(h) \/ FinUpdate(h)
  \/ FinConflict(h)
  \/ SweepSelect(h) \/ SweepAbandon(h) \/ SweepObjects(h) \/ SweepRows(h)
  \/ DelBegin(h) \/ DelRow(h)
  \/ HandlerDies(h)

\* What members and their browsers do.
MemberStep ==
  \/ SaveDraft
  \/ \E k \in signed : Put(k)
  \/ \E h \in Handlers, op \in {"submit", "uploads"} : StartSubmit(h, op)
  \/ \E h \in Handlers, s \in 1..used.shells, r \in 1..MaxRevision :
       StartDelete(h, s, r)

Next ==
  \/ MemberStep
  \/ \E h \in Handlers : HandlerStep(h) \/ Forget(h)
  \/ \E h \in Handlers, p \in plans : StartFinalize(h, p)
  \/ \E h \in Handlers, p \in plans, i \in Items : StartEnsure(h, p, i)

Spec == Init /\ [][Next]_publicVars

-----------------------------------------------------------------------------
(* Properties *)

\* Type invariant of the rows, the objects and the requests.
TypeOK ==
  /\ draft \in {0} \cup Drafts
  /\ wx \in Article \cup {None}
  /\ assets \in [Items -> Asset \cup {None}]
  /\ objects \subseteq Keys
  /\ signed \subseteq Keys
  /\ plans \subseteq Plan
  /\ used \in [shells : 0..MaxShells, keys : 0..MaxKeys,
             deletes : 0..MaxDeletes]
  /\ handler \in [Handlers -> Request]
  /\ published \subseteq Revision

\* The update of the row is guarded well enough that readers see the revisions
\* of an article in order, each the same saved draft whenever it is seen,
\* whatever publications and deletions overlap.
OnShow == IF Public THEN Shown(wx) ELSE None

Article_ == INSTANCE PublicArticle WITH shown <- OnShow, history <- published

RefinesPublicArticle == Article_!Spec

\* The same of any two overlapping publications, as long as nobody deletes the
\* article between them: two finalizes can outlast a deletion and publish what
\* they read before it.
RefinesUntilDeleted ==
  /\ Article_!Init
  /\ [][used'.deletes = 0 => Article_!Next \/ UNCHANGED <<OnShow, published>>]_publicVars

\* A retried or repeated finalize does not publish the same draft again under
\* a new revision, as long as nobody deletes the article: after that a finalize can
\* take a revision for the one that had the same number before.
NoEmptyRevision ==
  [][/\ Public /\ Public' /\ used'.deletes = 0
     /\ wx'.id = wx.id /\ wx'.revision # wx.revision
     => <<wx'.draft, wx'.bundle>> # <<wx.draft, wx.bundle>>]_publicVars

\* A finalize that answers ok has seen its draft public, by its own update, by
\* that of a request it lost the row to, or by another article row after its
\* own was deleted.
OkMeansPublished ==
  \A h \in Handlers : At(h, "ok") /\ handler[h].op = "finalize" =>
    \E p \in published : /\ p.draft = handler[h].draft
                         /\ p.bundle = Document[handler[h].draft]

\* A deletion that answers ok has removed its article for good, whatever a
\* publication did to the row while its objects were being deleted.
DeletedIsGone ==
  \A h \in Handlers : At(h, "ok") /\ handler[h].op = "delete" => ~Owned(h)

\* What readers are shown has its media: no object a public article links to
\* has been removed from the store.
PublicMediaBacked == Public => wx.media \subseteq objects

\* Finalize and the library shortcut trust status = 'ready' alone: a row with
\* that status has its object in the store.
ReadyAssetBacked ==
  \A i \in Items :
    assets[i] # None /\ assets[i].status = "ready" => assets[i].key \in objects

\* Once a deletion has hidden the article it stays hidden until its row is gone.
DeletionStaysHidden ==
  \A h \in Handlers :
    /\ handler[h].op = "delete"
    /\ handler[h].pc \in {"sweep.select", "sweep.abandon", "sweep.objects",
                         "sweep.rows", "del.row"}
    => ~(Public /\ Owned(h))

\* While an article stays public it never falls back to an older draft.
NoDraftRegression ==
  [][/\ Public /\ Public' /\ wx'.id = wx.id
     => wx'.draft >= wx.draft]_publicVars

=============================================================================
