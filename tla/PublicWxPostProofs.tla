------------------------- MODULE PublicWxPostProofs -------------------------
(***************************************************************************)
(* What the backend promises of a public article, for every number of      *)
(* drafts, media, requests, deletions and faults.  In three parts: the     *)
(* types of rows and requests; what readers have seen and what callers are *)
(* told about it, whatever requests overlap (from "What a step of a        *)
(* handler does" on); and what holds as long as the controller makes one   *)
(* call at a time, as its runner does until it leaves a request behind     *)
(* (from "The call a request was made for" on): the drafts on show never   *)
(* get older, their revisions go up although the article is deleted, and   *)
(* until that happens their media is there.                                *)
(***************************************************************************)
EXTENDS PublicWxPost, TLAPS

-----------------------------------------------------------------------------
(* Types *)

\* What a request knows at each place of its handler.
Prepared(r) ==
  /\ r.pc \in {"submit.read", "submit.create", "uploads.row", "uploads.retry"} =>
       r.op \in {"submit", "uploads"} /\ r.draft \in Drafts
  /\ r.pc \in {"uploads.row", "uploads.retry"} => r.op = "uploads"
  /\ r.pc \in {"ensure.owner", "ensure.row", "copy.row", "ensure.retry", "copy", "verify",
               "mark"} => r.op = "ensure" /\ r.item \in Items
  /\ r.pc \in {"uploads.retry", "copy", "verify", "mark", "ensure.retry"} => r.key \in Keys
  /\ r.pc \in {"fin.context", "fin.owner", "fin.assets", "fin.pending", "fin.update",
               "fin.conflict"} => r.op = "finalize"
  /\ r.pc \in {"fin.assets", "fin.pending", "fin.update"} => r.owner \in Article
  /\ r.op = "finalize" => r.draft \in Drafts
  /\ r.pc \in {"sweep.select", "sweep.abandon", "sweep.objects", "sweep.rows"} =>
       r.op \in {"finalize", "delete"}
  /\ r.pc \in {"del.begin", "del.row"} => r.op = "delete"

RequestsInv == handler \in [Handlers -> {r \in Request : Prepared(r)}]

DataOK ==
  /\ draft \in {0} \cup Drafts
  /\ wx \in Article \cup {None}
  /\ assets \in [Items -> Asset \cup {None}]
  /\ objects \subseteq Keys
  /\ signed \subseteq Keys
  /\ plans \subseteq Plan
  /\ used \in [shells : 0..MaxShells, keys : 0..MaxKeys,
             deletes : 0..MaxDeletes]
  /\ published \subseteq Revision

TypeInv == DataOK /\ RequestsInv

LEMMA Bounds ==
  /\ MaxShells \in Nat /\ MaxKeys \in Nat /\ MaxDeletes \in Nat
  /\ MaxRevision \in Nat /\ 1 \in 1..MaxRevision
BY PublicAssumption

LEMMA DocumentType == \A d \in Drafts : Document[d] \in SUBSET Items
BY PublicAssumption DEF Drafts

LEMMA RequestType ==
  ASSUME RequestsInv, NEW h \in Handlers
  PROVE  handler[h] \in Request /\ Prepared(handler[h])
BY DEF RequestsInv

\* A step changes its own request only.
LEMMA OwnRequest ==
  ASSUME RequestsInv, NEW h \in Handlers, NEW r \in Request, Prepared(r),
         handler' = [handler EXCEPT ![h] = r]
  PROVE  RequestsInv'
BY DEF RequestsInv, Prepared, Request, Article

\* Where a request can go with what it knows.
LEMMA GoKeeps ==
  ASSUME RequestsInv, NEW h \in Handlers, NEW pc \in Pcs, Go(h, pc),
         Prepared([handler[h] EXCEPT !.pc = pc])
  PROVE  RequestsInv'
<1>1. [handler[h] EXCEPT !.pc = pc] \in Request
  BY RequestType DEF Request
<1>2. handler' = [handler EXCEPT ![h] = [handler[h] EXCEPT !.pc = pc]]
  BY DEF Go
<1> QED BY <1>1, <1>2, OwnRequest

LEMMA IdleType == IdleRequest \in Request /\ Prepared(IdleRequest)
BY DEF IdleRequest, Request, Prepared, Pcs

LEMMA AnswersKeep ==
  ASSUME RequestsInv, NEW h \in Handlers, NEW answer \in {"ok", "rejected"},
         Answers(h, answer)
  PROVE  RequestsInv'
<1> DEFINE r == [IdleRequest EXCEPT !.pc = answer, !.op = handler[h].op,
                                    !.shell = handler[h].shell,
                                    !.draft = handler[h].draft]
<1>1. handler[h] \in Request /\ Prepared(handler[h])
  BY RequestType
<1>2. r \in Request
  BY ZenonT(30), <1>1, IdleType DEF Request, IdleRequest, Pcs
<1>3. Prepared(r)
  BY <1>1, IdleType DEF Prepared, Request, IdleRequest
<1>4. handler' = [handler EXCEPT ![h] = r]
  BY DEF Answers
<1> QED BY <1>2, <1>3, <1>4, OwnRequest

\* A request that begins.
LEMMA ServeKeeps ==
  ASSUME RequestsInv, NEW h \in Handlers, NEW r \in Request, Prepared(r), Serve(h, r)
  PROVE  RequestsInv'
BY OwnRequest DEF Serve

-----------------------------------------------------------------------------
(* Steps outside of the handlers *)

LEMMA SaveKeeps == ASSUME TypeInv, SaveDraft PROVE TypeInv'
<1>1. RequestsInv'
  BY DEF TypeInv, RequestsInv, SaveDraft, Prepared, Request, Article
<1>2. DataOK'
  BY DEF TypeInv, DataOK, SaveDraft
<1> QED BY <1>1, <1>2 DEF TypeInv

LEMMA PutKeeps == ASSUME TypeInv, NEW k \in signed, Put(k) PROVE TypeInv'
<1>1. RequestsInv'
  BY DEF TypeInv, RequestsInv, Put
<1>2. DataOK'
  BY DEF TypeInv, DataOK, Put
<1> QED BY <1>1, <1>2 DEF TypeInv

\* What the data are when a step leaves them alone.
LEMMA SameData ==
  ASSUME DataOK, UNCHANGED <<draft, wx, assets, objects, signed, plans, used, published>>
  PROVE  DataOK'
BY DEF DataOK

LEMMA StartSubmitKeeps ==
  ASSUME TypeInv, NEW h \in Handlers, NEW op, StartSubmit(h, op)
  PROVE  TypeInv'
<1> DEFINE r == [IdleRequest EXCEPT !.pc = "submit.read", !.op = op, !.draft = draft]
<1>1. draft \in Drafts /\ op \in {"submit", "uploads"}
  BY DEF TypeInv, DataOK, StartSubmit
<1>2. r \in Request
  BY <1>1, IdleType DEF Request, IdleRequest, Pcs
<1>3. Prepared(r)
  BY <1>1 DEF Prepared, IdleRequest
<1>4. Serve(h, r)
  BY DEF StartSubmit
<1>5. RequestsInv'
  BY <1>2, <1>3, <1>4, ServeKeeps DEF TypeInv
<1>6. DataOK'
  BY SameData DEF StartSubmit, TypeInv
<1> QED BY <1>5, <1>6 DEF TypeInv

LEMMA StartEnsureKeeps ==
  ASSUME TypeInv, NEW h \in Handlers, NEW p \in plans, NEW i \in Items, StartEnsure(h, p, i)
  PROVE  TypeInv'
<1> DEFINE r == [IdleRequest EXCEPT !.pc = "ensure.owner", !.op = "ensure",
                                    !.shell = p.shell, !.draft = p.draft, !.item = i]
<1>1. p \in Plan
  BY DEF TypeInv, DataOK
<1>2. r \in Request
  BY <1>1, IdleType DEF Request, IdleRequest, Pcs, Plan
<1>3. Prepared(r)
  BY <1>1 DEF Prepared, IdleRequest
<1>4. Serve(h, r)
  BY DEF StartEnsure
<1>5. RequestsInv'
  BY <1>2, <1>3, <1>4, ServeKeeps DEF TypeInv
<1>6. DataOK'
  BY SameData DEF StartEnsure, TypeInv
<1> QED BY <1>5, <1>6 DEF TypeInv

LEMMA StartFinalizeKeeps ==
  ASSUME TypeInv, NEW h \in Handlers, NEW p \in plans, StartFinalize(h, p)
  PROVE  TypeInv'
<1> DEFINE r == [IdleRequest EXCEPT !.pc = "fin.context", !.op = "finalize",
                                    !.shell = p.shell, !.draft = p.draft]
<1>1. p \in Plan
  BY DEF TypeInv, DataOK
<1>2. r \in Request
  BY <1>1, IdleType DEF Request, IdleRequest, Pcs, Plan
<1>3. Prepared(r)
  BY <1>1 DEF Prepared, IdleRequest, Plan
<1>4. Serve(h, r)
  BY DEF StartFinalize
<1>5. RequestsInv'
  BY <1>2, <1>3, <1>4, ServeKeeps DEF TypeInv
<1>6. DataOK'
  BY SameData DEF StartFinalize, TypeInv
<1> QED BY <1>5, <1>6 DEF TypeInv

LEMMA StartDeleteKeeps ==
  ASSUME TypeInv, NEW h \in Handlers, NEW s \in 1..used.shells, NEW n \in 1..MaxRevision,
         StartDelete(h, s, n)
  PROVE  TypeInv'
<1> DEFINE r == [IdleRequest EXCEPT !.pc = "del.begin", !.op = "delete",
                                    !.shell = s, !.revision = n]
<1>1. s \in Shells
  BY Bounds DEF TypeInv, DataOK, Shells
<1>2. r \in Request
  BY <1>1, IdleType DEF Request, IdleRequest, Pcs
<1>3. Prepared(r)
  BY DEF Prepared, IdleRequest
<1>4. Serve(h, r)
  BY DEF StartDelete
<1>5. RequestsInv'
  BY <1>2, <1>3, <1>4, ServeKeeps DEF TypeInv
<1>6. DataOK'
  BY Bounds DEF StartDelete, TypeInv, DataOK
<1> QED BY <1>5, <1>6 DEF TypeInv

LEMMA ForgetKeeps ==
  ASSUME TypeInv, NEW h \in Handlers, Forget(h)
  PROVE  TypeInv'
<1>1. RequestsInv'
  BY IdleType, OwnRequest DEF Forget, TypeInv
<1>2. DataOK'
  BY SameData DEF Forget, TypeInv
<1> QED BY <1>1, <1>2 DEF TypeInv

-----------------------------------------------------------------------------
(* Steps of the handlers *)

\* The asset rows a handler reaches are those of the workspace.
LEMMA RowType ==
  ASSUME TypeInv, NEW h \in Handlers, NEW i \in Items, Row(h, i) # None
  PROVE  Owned(h) /\ Row(h, i) = assets[i] /\ assets[i] \in Asset
BY DEF Row, TypeInv, DataOK

LEMMA StatusType ==
  ASSUME TypeInv, NEW keys, NEW states, NEW status \in AssetStates
  PROVE  SetStatus(keys, states, status) \in [Items -> Asset \cup {None}]
BY DEF SetStatus, TypeInv, DataOK, Asset

\* The status of one row, when it has one.
LEMMA OneStatusType ==
  ASSUME TypeInv, NEW h \in Handlers, NEW states, RowIs(h, states), NEW status \in AssetStates
  PROVE  [assets EXCEPT ![handler[h].item].status = status] \in [Items -> Asset \cup {None}]
<1>1. CASE handler[h].item \in Items
  BY <1>1, RowType DEF RowIs, TypeInv, DataOK, Asset
<1>2. CASE handler[h].item \notin Items
  BY <1>2 DEF TypeInv, DataOK
<1> QED BY <1>1, <1>2

LEMMA AcceptKeeps ==
  ASSUME TypeInv, NEW h \in Handlers, At(h, "submit.read") \/ At(h, "submit.create"),
         NEW s \in Shells, Accept(h, s)
  PROVE  RequestsInv' /\ plans' \subseteq Plan
<1>1. /\ handler[h] \in Request /\ Prepared(handler[h])
      /\ handler[h].op \in {"submit", "uploads"} /\ handler[h].draft \in Drafts
  BY RequestType DEF TypeInv, At, Prepared
<1>2. CASE handler[h].op = "submit"
  <2> DEFINE r == [handler[h] EXCEPT !.pc = "ok", !.shell = s]
  <2>1. r \in Request
    BY <1>1 DEF Request, Pcs
  <2>2. Prepared(r)
    BY <1>1, <1>2 DEF Request, Prepared
  <2>3. handler' = [handler EXCEPT ![h] = r]
    BY <1>2 DEF Accept
  <2>4. plans' \subseteq Plan
    BY <1>1, <1>2 DEF Accept, Plan, TypeInv, DataOK
  <2> QED BY <2>1, <2>2, <2>3, <2>4, OwnRequest DEF TypeInv
<1>3. CASE handler[h].op # "submit"
  <2> DEFINE r == [handler[h] EXCEPT !.pc = "uploads.row", !.shell = s,
                                     !.todo = Document[handler[h].draft] \cap Uploads]
  <2>1. Document[handler[h].draft] \cap Uploads \subseteq Items
    BY <1>1, DocumentType
  <2>2. r \in Request /\ Prepared(r)
    BY ZenonT(30), <1>1, <1>3, <2>1 DEF Request, Prepared, Pcs
  <2>3. handler' = [handler EXCEPT ![h] = r]
    BY <1>3 DEF Accept
  <2>4. plans' \subseteq Plan
    BY <1>3 DEF Accept, TypeInv, DataOK
  <2> QED BY <2>2, <2>3, <2>4, OwnRequest DEF TypeInv
<1> QED BY <1>2, <1>3

LEMMA SubmitReadKeeps ==
  ASSUME TypeInv, NEW h \in Handlers, NEW expected, SubmitRead(h, expected)
  PROVE  TypeInv'
<1>1. CASE Answers(h, "rejected") /\ UNCHANGED plans
  <2>1. RequestsInv'
    BY <1>1, AnswersKeep DEF TypeInv
  <2>2. DataOK'
    BY <1>1, SameData DEF TypeInv, SubmitRead
  <2> QED BY <2>1, <2>2 DEF TypeInv
<1>2. CASE Go(h, "submit.create") /\ UNCHANGED plans
  <2>1. Prepared([handler[h] EXCEPT !.pc = "submit.create"])
    BY RequestType DEF TypeInv, SubmitRead, At, Prepared, Request
  <2>2. RequestsInv'
    BY <1>2, <2>1, GoKeeps DEF TypeInv, Pcs
  <2>3. DataOK'
    BY <1>2, SameData DEF TypeInv, SubmitRead
  <2> QED BY <2>2, <2>3 DEF TypeInv
<1>3. CASE wx # None /\ Accept(h, wx.id)
  <2>1. wx.id \in Shells
    BY <1>3 DEF TypeInv, DataOK, Article
  <2>2. RequestsInv' /\ plans' \subseteq Plan
    BY <1>3, <2>1, AcceptKeeps DEF SubmitRead
  <2>3. DataOK'
    BY <2>2 DEF TypeInv, DataOK, SubmitRead
  <2> QED BY <2>2, <2>3 DEF TypeInv
<1> QED BY <1>1, <1>2, <1>3 DEF SubmitRead

LEMMA SubmitCreateKeeps ==
  ASSUME TypeInv, NEW h \in Handlers, SubmitCreate(h)
  PROVE  TypeInv'
<1> DEFINE d == handler[h].draft
<1>1. d \in Drafts /\ Document[d] \in SUBSET Items
  BY RequestType, DocumentType DEF TypeInv, SubmitCreate, At, Prepared
<1>2. CASE /\ used.shells < MaxShells /\ wx' = NewShell(d)
           /\ used' = [used EXCEPT !.shells = @ + 1]
           /\ Accept(h, used.shells + 1)
  <2>1. used.shells + 1 \in Shells /\ used'.shells \in 0..MaxShells
    BY <1>2, Bounds DEF TypeInv, DataOK, Shells
  <2>2. NewShell(d) \in Article
    BY <1>1, <2>1, Bounds DEF NewShell, Article
  <2>3. RequestsInv' /\ plans' \subseteq Plan
    BY <1>2, <2>1, AcceptKeeps DEF SubmitCreate
  <2>4. used' \in [shells : 0..MaxShells, keys : 0..MaxKeys, deletes : 0..MaxDeletes]
    BY <1>2, <2>1 DEF TypeInv, DataOK
  <2>5. DataOK'
    BY <1>2, <2>2, <2>3, <2>4 DEF TypeInv, DataOK, SubmitCreate
  <2> QED BY <2>3, <2>5 DEF TypeInv
<1>3. CASE wx # None /\ Accept(h, wx.id) /\ UNCHANGED <<wx, used>>
  <2>1. wx.id \in Shells
    BY <1>3 DEF TypeInv, DataOK, Article
  <2>2. RequestsInv' /\ plans' \subseteq Plan
    BY <1>3, <2>1, AcceptKeeps DEF SubmitCreate
  <2>3. DataOK'
    BY <1>3, <2>2 DEF TypeInv, DataOK, SubmitCreate
  <2> QED BY <2>2, <2>3 DEF TypeInv
<1>4. CASE Answers(h, "rejected") /\ UNCHANGED <<wx, used, plans>>
  <2>1. RequestsInv'
    BY <1>4, AnswersKeep DEF TypeInv
  <2>2. DataOK'
    BY <1>4, SameData DEF TypeInv, SubmitCreate
  <2> QED BY <2>1, <2>2 DEF TypeInv
<1> QED BY <1>2, <1>3, <1>4 DEF SubmitCreate

LEMMA InsertType ==
  ASSUME TypeInv, NEW h \in Handlers, NEW i \in Items, Insert(h, i)
  PROVE  /\ used.keys + 1 \in Keys
         /\ assets' \in [Items -> Asset \cup {None}]
         /\ used' \in [shells : 0..MaxShells, keys : 0..MaxKeys, deletes : 0..MaxDeletes]
<1>1. used.keys + 1 \in Keys /\ used.keys + 1 \in 0..MaxKeys
  BY Bounds DEF Insert, TypeInv, DataOK, Keys
<1>2. [key |-> used.keys + 1, status |-> "pending"] \in Asset
  BY <1>1 DEF Asset, AssetStates
<1>3. assets' \in [Items -> Asset \cup {None}]
  BY <1>2 DEF Insert, TypeInv, DataOK
<1> QED BY <1>1, <1>3 DEF Insert, TypeInv, DataOK

LEMMA UploadsRowKeeps ==
  ASSUME TypeInv, NEW h \in Handlers, NEW i \in Items, UploadsRow(h, i)
  PROVE  TypeInv'
<1> DEFINE row  == assets[i]
           done == [handler[h] EXCEPT !.todo = @ \ {i}]
<1>1. handler[h] \in Request /\ Prepared(handler[h])
  BY RequestType DEF TypeInv
<1>2. done \in Request /\ Prepared(done)
  BY <1>1 DEF Request, Prepared
<1>3. row # None => row \in Asset
  BY DEF TypeInv, DataOK
<1>4. CASE Answers(h, "rejected") /\ UNCHANGED <<assets, used, signed>>
  <2>1. RequestsInv'
    BY <1>4, AnswersKeep DEF TypeInv
  <2>2. DataOK'
    BY <1>4, SameData DEF TypeInv, UploadsRow
  <2> QED BY <2>1, <2>2 DEF TypeInv
<1>5. CASE /\ Insert(h, i) /\ signed' = signed \cup {used.keys + 1}
           /\ handler' = [handler EXCEPT ![h] = done]
  <2>1. RequestsInv'
    BY <1>2, <1>5, OwnRequest DEF TypeInv
  <2>2. DataOK'
    BY <1>5, InsertType DEF TypeInv, DataOK, UploadsRow
  <2> QED BY <2>1, <2>2 DEF TypeInv
<1>6. CASE /\ row # None
           /\ signed' = IF row.status = "pending" THEN signed \cup {row.key} ELSE signed
           /\ handler' = [handler EXCEPT ![h] = done] /\ UNCHANGED <<assets, used>>
  <2>1. RequestsInv'
    BY <1>2, <1>6, OwnRequest DEF TypeInv
  <2>2. row.key \in Keys
    BY <1>3, <1>6 DEF Asset
  <2>3. DataOK'
    BY <1>6, <2>2 DEF TypeInv, DataOK, UploadsRow
  <2> QED BY <2>1, <2>3 DEF TypeInv
<1>7. CASE /\ row # None /\ UNCHANGED <<assets, used, signed>>
           /\ handler' = [handler EXCEPT ![h].pc = "uploads.retry",
                                         ![h].item = i, ![h].key = row.key]
  <2> DEFINE r == [handler[h] EXCEPT !.pc = "uploads.retry", !.item = i, !.key = row.key]
  <2>1. row.key \in Keys
    BY <1>3, <1>7 DEF Asset
  <2>2. r \in Request /\ Prepared(r)
    BY ZenonT(30), <1>1, <2>1 DEF Request, Prepared, Pcs, UploadsRow, At
  <2>3. RequestsInv'
    BY <1>7, <2>2, OwnRequest DEF TypeInv
  <2>4. DataOK'
    BY <1>7, SameData DEF TypeInv, UploadsRow
  <2> QED BY <2>3, <2>4 DEF TypeInv
<1> QED BY <1>4, <1>5, <1>6, <1>7 DEF UploadsRow

LEMMA UploadsRetryKeeps ==
  ASSUME TypeInv, NEW h \in Handlers, UploadsRetry(h)
  PROVE  TypeInv'
<1>1. handler[h] \in Request /\ Prepared(handler[h]) /\ handler[h].key \in Keys
  BY RequestType DEF TypeInv, UploadsRetry, At, Prepared
<1>2. CASE RowIs(h, {"failed", "abandoned"})
  <2> DEFINE r == [handler[h] EXCEPT !.pc = "uploads.row", !.todo = @ \ {handler[h].item},
                                     !.item = None, !.key = None]
  <2>1. r \in Request /\ Prepared(r)
    BY <1>1 DEF Request, Prepared, Pcs, UploadsRetry, At
  <2>2. handler' = [handler EXCEPT ![h] = r]
    BY <1>2 DEF UploadsRetry
  <2>3. RequestsInv'
    BY <2>1, <2>2, OwnRequest DEF TypeInv
  <2>4. assets' \in [Items -> Asset \cup {None}]
    <3>1. "pending" \in AssetStates
      BY DEF AssetStates
    <3>2. [assets EXCEPT ![handler[h].item].status = "pending"]
            \in [Items -> Asset \cup {None}]
      BY <1>2, <3>1, OneStatusType
    <3> QED BY <1>2, <3>2 DEF UploadsRetry
  <2>5. DataOK'
    BY <1>1, <1>2, <2>4 DEF TypeInv, DataOK, UploadsRetry
  <2> QED BY <2>3, <2>5 DEF TypeInv
<1>3. CASE ~RowIs(h, {"failed", "abandoned"})
  <2>1. RequestsInv'
    BY <1>3, AnswersKeep DEF TypeInv, UploadsRetry
  <2>2. DataOK'
    BY <1>3, SameData DEF TypeInv, UploadsRetry
  <2> QED BY <2>1, <2>2 DEF TypeInv
<1> QED BY <1>2, <1>3

LEMMA UploadsDoneKeeps ==
  ASSUME TypeInv, NEW h \in Handlers, UploadsDone(h)
  PROVE  TypeInv'
BY AnswersKeep, SameData DEF TypeInv, UploadsDone

\* A request that answers, or goes on knowing what it knew, and leaves the data alone.
LEMMA QuietAnswer ==
  ASSUME TypeInv, NEW h \in Handlers, NEW answer \in {"ok", "rejected"}, Answers(h, answer),
         UNCHANGED <<draft, wx, assets, objects, signed, plans, used, published>>
  PROVE  TypeInv'
BY AnswersKeep, SameData DEF TypeInv

LEMMA QuietGo ==
  ASSUME TypeInv, NEW h \in Handlers, NEW pc \in Pcs, Go(h, pc),
         Prepared([handler[h] EXCEPT !.pc = pc]),
         UNCHANGED <<draft, wx, assets, objects, signed, plans, used, published>>
  PROVE  TypeInv'
BY GoKeeps, SameData DEF TypeInv

LEMMA QuietStep ==
  ASSUME TypeInv, NEW h \in Handlers, NEW r \in Request, Prepared(r),
         handler' = [handler EXCEPT ![h] = r],
         UNCHANGED <<draft, wx, assets, objects, signed, plans, used, published>>
  PROVE  TypeInv'
BY OwnRequest, SameData DEF TypeInv

\* The same when only the asset rows change.
LEMMA AssetsChange ==
  ASSUME TypeInv, RequestsInv', assets' \in [Items -> Asset \cup {None}],
         UNCHANGED <<draft, wx, objects, signed, plans, used, published>>
  PROVE  TypeInv'
BY DEF TypeInv, DataOK

LEMMA ReadOwnerKeeps ==
  ASSUME TypeInv, NEW h \in Handlers, ReadOwner(h)
  PROVE  TypeInv'
<1>1. handler[h] \in Request /\ Prepared(handler[h])
  BY RequestType DEF TypeInv
<1>2. CASE Answers(h, "rejected")
  BY <1>2, QuietAnswer DEF ReadOwner
<1>3. CASE At(h, "ensure.owner") /\ Go(h, "ensure.row")
  <2>1. Prepared([handler[h] EXCEPT !.pc = "ensure.row"])
    BY <1>1, <1>3 DEF Prepared, Request, At
  <2> QED BY <1>3, <2>1, QuietGo DEF ReadOwner, Pcs
<1>4. CASE /\ Owned(h) /\ At(h, "fin.owner")
           /\ handler' = [handler EXCEPT ![h].pc = "fin.assets", ![h].owner = wx]
  <2> DEFINE r == [handler[h] EXCEPT !.pc = "fin.assets", !.owner = wx]
  <2>1. wx \in Article
    BY <1>4 DEF TypeInv, DataOK, Owned
  <2>2. r \in Request
    BY <1>1, <2>1 DEF Request, Pcs
  <2>3. Prepared(r)
    BY <1>1, <1>4, <2>1 DEF Prepared, Request, At
  <2>4. handler' = [handler EXCEPT ![h] = r]
    BY <1>4
  <2> QED BY <2>2, <2>3, <2>4, QuietStep DEF ReadOwner
<1> QED BY <1>2, <1>3, <1>4 DEF ReadOwner

LEMMA ResumeKeeps ==
  ASSUME TypeInv, NEW h \in Handlers, At(h, "ensure.row") \/ At(h, "copy.row"),
         NEW row \in Asset, NEW fill \in {"verify", "copy"}, Resume(h, row, fill),
         UNCHANGED <<draft, wx, assets, objects, signed, plans, used, published>>
  PROVE  TypeInv'
<1>1. handler[h] \in Request /\ Prepared(handler[h]) /\ row.key \in Keys
  BY RequestType DEF TypeInv, Asset
<1>2. ASSUME NEW pc \in {"ensure.retry", "verify", "copy"},
             handler' = [handler EXCEPT ![h].pc = pc, ![h].key = row.key]
      PROVE  TypeInv'
  <2> DEFINE r == [handler[h] EXCEPT !.pc = pc, !.key = row.key]
  <2>1. r \in Request
    BY <1>1 DEF Request, Pcs
  <2>2. Prepared(r)
    BY <1>1 DEF Prepared, Request, At
  <2>3. handler' = [handler EXCEPT ![h] = r]
    BY <1>2
  <2> QED BY <2>1, <2>2, <2>3, QuietStep
<1> QED BY <1>2, QuietAnswer DEF Resume

LEMMA EnsureRowKeeps ==
  ASSUME TypeInv, NEW h \in Handlers, EnsureRow(h)
  PROVE  TypeInv'
<1> DEFINE i == handler[h].item
<1>1. handler[h] \in Request /\ Prepared(handler[h]) /\ i \in Items
  BY RequestType DEF TypeInv, EnsureRow, At, Prepared
<1>2. CASE \E answer \in {"ok", "rejected"} : Answers(h, answer)
  BY <1>2, QuietAnswer DEF EnsureRow
<1>3. CASE Row(h, i) # None /\ Resume(h, Row(h, i), "verify")
  BY <1>1, <1>3, RowType, ResumeKeeps DEF EnsureRow
<1>4. CASE Go(h, "copy.row")
  <2>1. Prepared([handler[h] EXCEPT !.pc = "copy.row"])
    BY <1>1 DEF Prepared, Request, At, EnsureRow
  <2> QED BY <1>4, <2>1, QuietGo DEF EnsureRow, Pcs
<1> QED BY <1>2, <1>3, <1>4 DEF EnsureRow

LEMMA CopyRowKeeps ==
  ASSUME TypeInv, NEW h \in Handlers, CopyRow(h)
  PROVE  TypeInv'
<1> DEFINE i == handler[h].item
<1>1. handler[h] \in Request /\ Prepared(handler[h]) /\ i \in Items
  BY RequestType DEF TypeInv, CopyRow, At, Prepared
<1>2. CASE Answers(h, "rejected") /\ UNCHANGED <<assets, used>>
  BY <1>2, QuietAnswer DEF CopyRow
<1>3. CASE /\ Insert(h, i)
           /\ handler' = [handler EXCEPT ![h].pc = "copy", ![h].key = used.keys + 1]
  <2> DEFINE r == [handler[h] EXCEPT !.pc = "copy", !.key = used.keys + 1]
  <2>1. /\ used.keys + 1 \in Keys /\ assets' \in [Items -> Asset \cup {None}]
        /\ used' \in [shells : 0..MaxShells, keys : 0..MaxKeys, deletes : 0..MaxDeletes]
    BY <1>1, <1>3, InsertType
  <2>2. r \in Request
    BY <1>1, <2>1 DEF Request, Pcs
  <2>3. Prepared(r)
    BY <1>1, <2>1 DEF Prepared, Request, At, CopyRow
  <2>4. handler' = [handler EXCEPT ![h] = r]
    BY <1>3
  <2>5. RequestsInv'
    BY <2>2, <2>3, <2>4, OwnRequest DEF TypeInv
  <2> QED BY <2>1, <2>5 DEF TypeInv, DataOK, CopyRow
<1>4. CASE assets[i] # None /\ Resume(h, assets[i], "copy") /\ UNCHANGED <<assets, used>>
  <2>1. assets[i] \in Asset
    BY <1>1, <1>4 DEF TypeInv, DataOK
  <2> QED BY <1>4, <2>1, ResumeKeeps DEF CopyRow
<1> QED BY <1>2, <1>3, <1>4 DEF CopyRow

LEMMA EnsureRetryKeeps ==
  ASSUME TypeInv, NEW h \in Handlers, EnsureRetry(h)
  PROVE  TypeInv'
<1>1. handler[h] \in Request /\ Prepared(handler[h])
  BY RequestType DEF TypeInv
<1>2. CASE RowIs(h, {"failed", "abandoned"})
  <2> DEFINE pc == IF handler[h].item \in Uploads THEN "verify" ELSE "copy"
  <2>1. Prepared([handler[h] EXCEPT !.pc = pc])
    BY <1>1 DEF Prepared, Request, At, EnsureRetry
  <2>2. Go(h, pc) /\ pc \in Pcs
    BY <1>2 DEF EnsureRetry, Pcs
  <2>3. RequestsInv'
    BY <2>1, <2>2, GoKeeps DEF TypeInv
  <2>4. "pending" \in AssetStates
    BY DEF AssetStates
  <2>5. [assets EXCEPT ![handler[h].item].status = "pending"]
          \in [Items -> Asset \cup {None}]
    BY <1>2, <2>4, OneStatusType
  <2> QED BY <1>2, <2>3, <2>5, AssetsChange DEF EnsureRetry
<1>3. CASE ~RowIs(h, {"failed", "abandoned"})
  BY <1>3, QuietAnswer DEF EnsureRetry
<1> QED BY <1>2, <1>3

LEMMA CopyKeeps ==
  ASSUME TypeInv, NEW h \in Handlers, Copy(h)
  PROVE  TypeInv'
<1>1. handler[h] \in Request /\ Prepared(handler[h]) /\ handler[h].key \in Keys
  BY RequestType DEF TypeInv, Copy, At, Prepared
<1>2. Prepared([handler[h] EXCEPT !.pc = "mark"])
  BY <1>1 DEF Prepared, Request, At, Copy
<1>3. RequestsInv'
  BY <1>2, GoKeeps DEF TypeInv, Copy, Pcs
<1>4. DataOK'
  BY <1>1 DEF TypeInv, DataOK, Copy
<1> QED BY <1>3, <1>4 DEF TypeInv

LEMMA VerifyKeeps ==
  ASSUME TypeInv, NEW h \in Handlers, Verify(h)
  PROVE  TypeInv'
<1>1. Prepared([handler[h] EXCEPT !.pc = "mark"])
  BY RequestType DEF TypeInv, Prepared, Request, At, Verify
<1> QED BY <1>1, QuietGo, QuietAnswer DEF Verify, Pcs

LEMMA MarkReadyKeeps ==
  ASSUME TypeInv, NEW h \in Handlers, MarkReady(h)
  PROVE  TypeInv'
<1>1. CASE RowIs(h, {"pending"})
  <2>1. "ready" \in AssetStates
    BY DEF AssetStates
  <2>2. [assets EXCEPT ![handler[h].item].status = "ready"] \in [Items -> Asset \cup {None}]
    BY <1>1, <2>1, OneStatusType
  <2>3. RequestsInv'
    BY <1>1, AnswersKeep DEF TypeInv, MarkReady
  <2> QED BY <1>1, <2>2, <2>3, AssetsChange DEF MarkReady
<1>2. CASE ~RowIs(h, {"pending"})
  BY <1>2, QuietAnswer DEF MarkReady
<1> QED BY <1>1, <1>2

LEMMA OssFailsKeeps ==
  ASSUME TypeInv, NEW h \in Handlers, OssFails(h)
  PROVE  TypeInv'
<1>1. RequestsInv'
  BY AnswersKeep DEF TypeInv, OssFails
<1>2. assets' \in [Items -> Asset \cup {None}]
  <2>1. CASE RowIs(h, {"pending"})
    <3>1. "failed" \in AssetStates
      BY DEF AssetStates
    <3>2. [assets EXCEPT ![handler[h].item].status = "failed"] \in [Items -> Asset \cup {None}]
      BY <2>1, <3>1, OneStatusType
    <3> QED BY <2>1, <3>2 DEF OssFails
  <2>2. CASE ~RowIs(h, {"pending"})
    BY <2>2 DEF OssFails, TypeInv, DataOK
  <2> QED BY <2>1, <2>2
<1> QED BY <1>1, <1>2, AssetsChange DEF OssFails

LEMMA FinContextKeeps ==
  ASSUME TypeInv, NEW h \in Handlers, FinContext(h)
  PROVE  TypeInv'
<1>1. Prepared([handler[h] EXCEPT !.pc = "fin.owner"])
  BY RequestType DEF TypeInv, Prepared, Request, At, FinContext
<1> QED BY <1>1, QuietGo, QuietAnswer DEF FinContext, Pcs

\* A request that has chosen its assets.
LEMMA ChosenType ==
  ASSUME TypeInv, NEW h \in Handlers, At(h, "fin.assets"), NEW keep \in SUBSET Shas,
         NEW media \in SUBSET Keys, NEW pc \in {"sweep.select", "fin.pending", "fin.update"}
  PROVE  /\ [handler[h] EXCEPT !.pc = pc, !.keep = keep, !.media = media] \in Request
         /\ Prepared([handler[h] EXCEPT !.pc = pc, !.keep = keep, !.media = media])
<1> DEFINE r == [handler[h] EXCEPT !.pc = pc, !.keep = keep, !.media = media]
<1>1. handler[h] \in Request /\ Prepared(handler[h]) /\ handler[h].pc = "fin.assets"
  BY RequestType DEF TypeInv, At
<1>2. r \in Request
  BY <1>1 DEF Request, Pcs
<1>3. /\ r.pc = pc /\ r.op = handler[h].op /\ r.owner = handler[h].owner
      /\ r.draft = handler[h].draft
  BY <1>1 DEF Request
<1>4. /\ handler[h].op = "finalize" /\ handler[h].owner \in Article
      /\ handler[h].draft \in Drafts
  BY <1>1 DEF Prepared
<1>5. Prepared(r)
  <2> HIDE DEF r
  <2> QED BY <1>3, <1>4 DEF Prepared
<1> QED BY <1>2, <1>5

LEMMA BundleType ==
  ASSUME TypeInv, NEW h \in Handlers, handler[h].op = "finalize"
  PROVE  handler[h].draft \in Drafts /\ Bundle(h) \in SUBSET Items
BY RequestType, DocumentType DEF TypeInv, Prepared, Bundle

LEMMA FinAssetsKeeps ==
  ASSUME TypeInv, NEW h \in Handlers, FinAssets(h)
  PROVE  TypeInv'
<1> DEFINE owner == handler[h].owner
           same  == AlreadyPublic(h)
           keep  == {Sha[i] : i \in Bundle(h)}
           pc    == IF same THEN "sweep.select"
                    ELSE IF owner.status = "assembling" THEN "fin.pending"
                    ELSE "fin.update"
           media(serves) == IF same THEN {} ELSE {assets[serves[c]].key : c \in keep}
<1>1. handler[h].op = "finalize"
  BY RequestType DEF TypeInv, FinAssets, At, Prepared
<1>2. keep \in SUBSET Shas
  BY <1>1, BundleType DEF Shas
<1>3. CASE Answers(h, "rejected")
  BY <1>3, QuietAnswer DEF FinAssets
<1>4. ASSUME NEW serves \in [keep -> ReadyRows(h)],
             handler' = [handler EXCEPT ![h].pc = pc, ![h].keep = keep,
                                        ![h].media = media(serves)]
      PROVE  TypeInv'
  <2> DEFINE m == media(serves)
             r == [handler[h] EXCEPT !.pc = pc, !.keep = keep, !.media = m]
  <2>1. ASSUME NEW c \in keep PROVE assets[serves[c]].key \in Keys
    <3>1. serves[c] \in Items /\ Row(h, serves[c]) # None
      BY DEF ReadyRows
    <3>2. assets[serves[c]] \in Asset
      BY <3>1, RowType
    <3> QED BY <3>2 DEF Asset
  <2>2. m \in SUBSET Keys
    BY <2>1
  <2>3. pc \in {"sweep.select", "fin.pending", "fin.update"}
    OBVIOUS
  <2>4. At(h, "fin.assets")
    BY DEF FinAssets
  <2>5. handler' = [handler EXCEPT ![h] = r]
    BY <1>4
  <2> HIDE DEF m, pc, keep
  <2>6. r \in Request /\ Prepared(r)
    BY <1>2, <2>2, <2>3, <2>4, ChosenType
  <2> HIDE DEF r
  <2> QED BY <2>5, <2>6, QuietStep DEF FinAssets
<1> QED BY <1>3, <1>4 DEF FinAssets

LEMMA FinPendingKeeps ==
  ASSUME TypeInv, NEW h \in Handlers, FinPending(h)
  PROVE  TypeInv'
<1>1. Prepared([handler[h] EXCEPT !.pc = "fin.update"])
  BY RequestType DEF TypeInv, Prepared, Request, At, FinPending
<1>2. RequestsInv'
  BY <1>1, GoKeeps DEF TypeInv, FinPending, Pcs
<1>3. assets' \in [Items -> Asset \cup {None}]
  BY StatusType DEF AssetStates, FinPending, TypeInv, DataOK
<1> QED BY <1>2, <1>3, AssetsChange DEF FinPending

LEMMA NextRevisionType ==
  ASSUME NEW owner \in Article
  PROVE  NextRevision(owner) \in Nat \ {0} /\ NextRevision(owner) >= owner.revision
BY Bounds DEF NextRevision, Article

\* The row a finalize writes.
LEMMA UpdatedType ==
  ASSUME TypeInv, NEW h \in Handlers, At(h, "fin.update"), RowUnchanged(h),
         NextRevision(handler[h].owner) <= MaxRevision
  PROVE  [wx EXCEPT !.status = "ready", !.finalized = TRUE,
                    !.revision = NextRevision(handler[h].owner),
                    !.draft = handler[h].draft,
                    !.bundle = Bundle(h), !.media = handler[h].media] \in Article
<1> DEFINE n == NextRevision(handler[h].owner)
<1>1. /\ handler[h] \in Request /\ handler[h].op = "finalize"
      /\ handler[h].owner \in Article
  BY RequestType DEF TypeInv, At, Prepared
<1>2. n \in 1..MaxRevision
  BY <1>1, NextRevisionType, Bounds
<1>3. wx \in Article
  BY DEF RowUnchanged, Owned, TypeInv, DataOK
<1>4. handler[h].media \in SUBSET Keys
  BY <1>1 DEF Request
<1>5. handler[h].draft \in Drafts /\ Bundle(h) \in SUBSET Items
  BY <1>1, BundleType
<1> HIDE DEF n
<1> QED BY <1>2, <1>3, <1>4, <1>5 DEF Article, n

LEMMA FinUpdateKeeps ==
  ASSUME TypeInv, NEW h \in Handlers, FinUpdate(h)
  PROVE  TypeInv'
<1> DEFINE n == NextRevision(handler[h].owner)
<1>1. /\ handler[h] \in Request /\ Prepared(handler[h]) /\ handler[h].pc = "fin.update"
      /\ handler[h].op = "finalize" /\ handler[h].owner \in Article
  BY RequestType DEF TypeInv, FinUpdate, At, Prepared
<1>2. CASE /\ RowUnchanged(h) /\ n <= MaxRevision
           /\ wx' = [wx EXCEPT !.status = "ready", !.finalized = TRUE,
                               !.revision = n, !.draft = handler[h].draft,
                               !.bundle = Bundle(h), !.media = handler[h].media]
           /\ published' = published \cup {Shown(wx')}
           /\ Go(h, "sweep.select")
  <2>1. wx' \in Article
    BY <1>2, UpdatedType DEF FinUpdate
  <2>2. Shown(wx') \in Revision
    BY <2>1 DEF Shown, Article, Revision
  <2>3. Prepared([handler[h] EXCEPT !.pc = "sweep.select"])
    BY <1>1 DEF Prepared, Request
  <2>4. RequestsInv'
    BY <1>2, <2>3, GoKeeps DEF TypeInv, Pcs
  <2>5. DataOK'
    BY <1>2, <2>1, <2>2 DEF TypeInv, DataOK, FinUpdate
  <2> QED BY <2>4, <2>5 DEF TypeInv
<1>3. CASE Answers(h, "rejected") /\ UNCHANGED <<wx, published>>
  BY <1>3, QuietAnswer DEF FinUpdate
<1>4. CASE Go(h, "fin.conflict") /\ UNCHANGED <<wx, published>>
  <2>1. Prepared([handler[h] EXCEPT !.pc = "fin.conflict"])
    BY <1>1 DEF Prepared, Request
  <2> QED BY <1>4, <2>1, QuietGo DEF FinUpdate, Pcs
<1> QED BY <1>2, <1>3, <1>4 DEF FinUpdate

LEMMA FinConflictKeeps ==
  ASSUME TypeInv, NEW h \in Handlers, FinConflict(h)
  PROVE  TypeInv'
BY QuietAnswer DEF FinConflict

LEMMA SweepSelectKeeps ==
  ASSUME TypeInv, NEW h \in Handlers, SweepSelect(h)
  PROVE  TypeInv'
<1> DEFINE stale == Unreferenced(h)
           live  == {i \in stale : assets[i].status # "abandoned"}
           pc    == IF live = {} THEN "sweep.objects" ELSE "sweep.abandon"
           sk    == {assets[i].key : i \in stale}
           lk    == {assets[i].key : i \in live}
           r     == [handler[h] EXCEPT !.pc = pc, !.stale = sk, !.live = lk]
<1>1. handler[h] \in Request /\ Prepared(handler[h]) /\ handler[h].pc = "sweep.select"
  BY RequestType DEF TypeInv, SweepSelect, At
<1>2. ASSUME NEW i \in stale PROVE assets[i].key \in Keys
  <2>1. assets[i] \in Asset
    BY RowType DEF Unreferenced
  <2> QED BY <2>1 DEF Asset
<1>3. sk \in SUBSET Keys /\ lk \in SUBSET Keys
  BY <1>2
<1>4. pc \in {"sweep.objects", "sweep.abandon"}
  OBVIOUS
<1>5. handler' = [handler EXCEPT ![h] = r]
  BY DEF SweepSelect
<1> HIDE DEF sk, lk, pc
<1>6. r \in Request
  BY <1>1, <1>3, <1>4 DEF Request, Pcs
<1>7. Prepared(r)
  BY <1>1, <1>4 DEF Prepared, Request
<1> HIDE DEF r
<1> QED BY <1>5, <1>6, <1>7, QuietStep DEF SweepSelect

LEMMA SweepAbandonKeeps ==
  ASSUME TypeInv, NEW h \in Handlers, SweepAbandon(h)
  PROVE  TypeInv'
<1>1. Prepared([handler[h] EXCEPT !.pc = "sweep.objects"])
  BY RequestType DEF TypeInv, Prepared, Request, At, SweepAbandon
<1>2. RequestsInv'
  BY <1>1, GoKeeps DEF TypeInv, SweepAbandon, Pcs
<1>3. assets' \in [Items -> Asset \cup {None}]
  BY StatusType DEF AssetStates, SweepAbandon
<1> QED BY <1>2, <1>3, AssetsChange DEF SweepAbandon

LEMMA SweepObjectsKeeps ==
  ASSUME TypeInv, NEW h \in Handlers, SweepObjects(h)
  PROVE  TypeInv'
<1>1. Prepared([handler[h] EXCEPT !.pc = "sweep.rows"])
  BY RequestType DEF TypeInv, Prepared, Request, At, SweepObjects
<1>2. RequestsInv'
  BY <1>1, GoKeeps DEF TypeInv, SweepObjects, Pcs
<1>3. DataOK'
  BY DEF TypeInv, DataOK, SweepObjects
<1> QED BY <1>2, <1>3 DEF TypeInv

LEMMA SweepRowsKeeps ==
  ASSUME TypeInv, NEW h \in Handlers, SweepRows(h)
  PROVE  TypeInv'
<1>1. assets' \in [Items -> Asset \cup {None}]
  BY DEF SweepRows, TypeInv, DataOK
<1>2. RequestsInv'
  <2>1. CASE handler[h].op = "delete"
    <3>1. Prepared([handler[h] EXCEPT !.pc = "del.row"])
      BY <2>1, RequestType DEF TypeInv, Prepared, Request
    <3> QED BY <2>1, <3>1, GoKeeps DEF TypeInv, SweepRows, Pcs
  <2>2. CASE handler[h].op # "delete"
    BY <2>2, AnswersKeep DEF TypeInv, SweepRows
  <2> QED BY <2>1, <2>2
<1> QED BY <1>1, <1>2, AssetsChange DEF SweepRows

LEMMA DelBeginKeeps ==
  ASSUME TypeInv, NEW h \in Handlers, DelBegin(h)
  PROVE  TypeInv'
<1>1. CASE /\ Owned(h) /\ wx' = [wx EXCEPT !.status = "assembling"]
           /\ Go(h, "sweep.select")
  <2>1. Prepared([handler[h] EXCEPT !.pc = "sweep.select"])
    BY RequestType DEF TypeInv, Prepared, Request, At, DelBegin
  <2>2. RequestsInv'
    BY <1>1, <2>1, GoKeeps DEF TypeInv, Pcs
  <2>3. wx' \in Article
    BY <1>1 DEF TypeInv, DataOK, Owned, Article
  <2>4. DataOK'
    BY <2>3 DEF TypeInv, DataOK, DelBegin
  <2> QED BY <2>2, <2>4 DEF TypeInv
<1>2. CASE Answers(h, "rejected") /\ UNCHANGED wx
  BY <1>2, QuietAnswer DEF DelBegin
<1> QED BY <1>1, <1>2 DEF DelBegin

LEMMA DelRowKeeps ==
  ASSUME TypeInv, NEW h \in Handlers, DelRow(h)
  PROVE  TypeInv'
<1>1. RequestsInv'
  BY AnswersKeep DEF TypeInv, DelRow
<1>2. DataOK'
  BY DEF TypeInv, DataOK, DelRow
<1> QED BY <1>1, <1>2 DEF TypeInv

LEMMA HandlerDiesKeeps ==
  ASSUME TypeInv, NEW h \in Handlers, HandlerDies(h)
  PROVE  TypeInv'
BY QuietAnswer DEF HandlerDies

LEMMA HandlerStepKeeps ==
  ASSUME TypeInv, NEW h \in Handlers, HandlerStep(h)
  PROVE  TypeInv'
BY SubmitReadKeeps, SubmitCreateKeeps, UploadsRowKeeps, UploadsRetryKeeps, UploadsDoneKeeps,
   ReadOwnerKeeps, EnsureRowKeeps, CopyRowKeeps, EnsureRetryKeeps, CopyKeeps, VerifyKeeps,
   MarkReadyKeeps, OssFailsKeeps, FinContextKeeps, FinAssetsKeeps, FinPendingKeeps,
   FinUpdateKeeps, FinConflictKeeps, SweepSelectKeeps, SweepAbandonKeeps, SweepObjectsKeeps,
   SweepRowsKeeps, DelBeginKeeps, DelRowKeeps, HandlerDiesKeeps
   DEF HandlerStep

LEMMA MemberStepKeeps ==
  ASSUME TypeInv, MemberStep
  PROVE  TypeInv'
BY SaveKeeps, PutKeeps, StartSubmitKeeps, StartDeleteKeeps DEF MemberStep

LEMMA InitTypes == Init => TypeInv
<1> SUFFICES ASSUME Init PROVE TypeInv
  OBVIOUS
<1>1. RequestsInv
  BY IdleType DEF Init, RequestsInv
<1>2. DataOK
  BY Bounds DEF Init, DataOK
<1> QED BY <1>1, <1>2 DEF TypeInv

LEMMA NextKeepsTypes == TypeInv /\ [Next]_publicVars => TypeInv'
<1> SUFFICES ASSUME TypeInv, [Next]_publicVars PROVE TypeInv'
  OBVIOUS
<1>1. CASE Next
  BY <1>1, MemberStepKeeps, HandlerStepKeeps, ForgetKeeps, StartFinalizeKeeps,
     StartEnsureKeeps DEF Next
<1>2. CASE UNCHANGED publicVars
  BY <1>2 DEF publicVars, TypeInv, DataOK, RequestsInv
<1> QED BY <1>1, <1>2

LEMMA TypesHold == Spec => []TypeInv
BY InitTypes, NextKeepsTypes, PTL DEF Spec

\* The rows, the objects and the requests have their types, whatever requests
\* overlap and wherever they die.
THEOREM TypeCorrect == Spec => []TypeOK
<1>1. TypeInv => TypeOK
  BY DEF TypeInv, DataOK, RequestsInv, TypeOK
<1> QED BY <1>1, TypesHold, PTL

-----------------------------------------------------------------------------
(* What a step of a handler does to its request, to the row and to history *)

ReadPcs  == {"fin.assets", "fin.pending", "fin.update"}
SweepPcs == {"sweep.select", "sweep.abandon", "sweep.objects", "sweep.rows"}

\* The request stays the one it was, and no other moves.
Moves(h) ==
  /\ \A g \in Handlers \ {h} : handler'[g] = handler[g]
  /\ handler'[h].op = handler[h].op
  /\ handler[h].op \in {"finalize", "delete"} =>
       handler'[h].shell = handler[h].shell /\ handler'[h].draft = handler[h].draft

Quiet == UNCHANGED <<wx, used, published>>

\* A step of another request than a finalize or a deletion: it may create the row.
Apart(h) ==
  /\ Moves(h)
  /\ handler[h].op \notin {"finalize", "delete"}
  /\ handler'[h].pc \notin ReadPcs
  /\ UNCHANGED published
  /\ used'.deletes = used.deletes
  /\ \/ UNCHANGED wx /\ used'.shells = used.shells
     \/ /\ wx = None /\ wx' # None
        /\ wx'.id = used.shells + 1 /\ wx'.status = "assembling"
        /\ wx'.draft = handler[h].draft
        /\ used'.shells = used.shells + 1

\* A refusal, or a step before the row is read.
Refuses(h) ==
  /\ Moves(h)
  /\ Quiet
  /\ handler'[h].pc \in {"rejected", "fin.owner", "fin.conflict"}
  /\ handler'[h].pc = "fin.owner" => draft = handler[h].draft

Reads(h) ==
  /\ Moves(h)
  /\ Quiet
  /\ wx # None
  /\ handler[h].op = "finalize" /\ handler[h].pc = "fin.owner"
  /\ handler'[h].pc = "fin.assets" /\ handler'[h].owner = wx

Chooses(h) ==
  /\ Moves(h)
  /\ Quiet
  /\ handler[h].pc = "fin.assets" /\ handler'[h].owner = handler[h].owner
  /\ \/ handler'[h].pc = "sweep.select" /\ AlreadyPublic(h)
     \/ handler'[h].pc = "fin.pending" /\ handler[h].owner.status = "assembling"
     \/ handler'[h].pc = "fin.update" /\ ~AlreadyPublic(h)

Abandons(h) ==
  /\ Moves(h)
  /\ Quiet
  /\ handler[h].pc = "fin.pending"
  /\ handler'[h].pc = "fin.update" /\ handler'[h].owner = handler[h].owner

Publishes(h) ==
  /\ Moves(h)
  /\ handler[h].pc = "fin.update" /\ handler'[h].pc = "sweep.select"
  /\ RowUnchanged(h)
  /\ UNCHANGED used
  /\ wx' \in Article
  /\ wx'.id = wx.id /\ wx'.status = "ready" /\ wx'.finalized
  /\ wx'.revision = NextRevision(handler[h].owner)
  /\ wx'.draft = handler[h].draft /\ wx'.bundle = Bundle(h)
  /\ published' = published \cup {Shown(wx')}

Confirms(h) ==
  /\ Moves(h)
  /\ Quiet
  /\ handler[h].op = "finalize" /\ handler'[h].pc = "ok"
  /\ Public /\ wx.draft = handler[h].draft /\ wx.bundle = Bundle(h)

Sweeps(h) ==
  /\ Moves(h)
  /\ Quiet
  /\ handler[h].pc \in SweepPcs
  /\ \/ handler'[h].pc \in SweepPcs
     \/ handler[h].op = "finalize" /\ handler'[h].pc = "ok"
     \/ handler[h].op = "delete" /\ handler'[h].pc = "del.row"

Hides(h) ==
  /\ Moves(h)
  /\ UNCHANGED <<used, published>>
  /\ handler[h].op = "delete" /\ handler'[h].pc = "sweep.select"
  /\ wx # None /\ wx' # None /\ wx'.id = wx.id /\ wx'.status = "assembling"
  /\ wx'.revision = wx.revision /\ wx'.finalized = wx.finalized /\ wx'.draft = wx.draft

Removes(h) ==
  /\ Moves(h)
  /\ UNCHANGED <<used, published>>
  /\ handler[h].op = "delete" /\ handler'[h].pc = "ok"
  /\ wx' = None \/ (UNCHANGED wx /\ ~Owned(h))

Effect(h) ==
  \/ Apart(h) \/ Refuses(h) \/ Reads(h) \/ Chooses(h) \/ Abandons(h) \/ Publishes(h)
  \/ Confirms(h) \/ Sweeps(h) \/ Hides(h) \/ Removes(h)

LEMMA GoMoves ==
  ASSUME TypeInv, NEW h \in Handlers, NEW pc, Go(h, pc)
  PROVE  Moves(h) /\ handler'[h].pc = pc /\ handler'[h].owner = handler[h].owner
<1>1. handler[h] \in Request /\ handler \in [Handlers -> Request]
  BY RequestType DEF TypeInv, RequestsInv
<1> QED BY <1>1 DEF Go, Moves, Request

LEMMA AnswersMove ==
  ASSUME TypeInv, NEW h \in Handlers, NEW answer, Answers(h, answer)
  PROVE  Moves(h) /\ handler'[h].pc = answer
<1>1. handler \in [Handlers -> Request] /\ IdleRequest \in Request
  BY IdleType DEF TypeInv, RequestsInv
<1> QED BY <1>1 DEF Answers, Moves, IdleRequest

LEMMA SubmitEffect ==
  ASSUME TypeInv, NEW h \in Handlers,
         \/ \E expected \in 1..MaxRevision \cup {None} : SubmitRead(h, expected)
         \/ SubmitCreate(h)
  PROVE  Apart(h)
<1>1. /\ handler[h] \in Request /\ handler \in [Handlers -> Request]
      /\ handler[h].op \in {"submit", "uploads"}
  BY RequestType DEF TypeInv, RequestsInv, Prepared, SubmitRead, SubmitCreate, At
<1>2. ASSUME NEW s, Accept(h, s) PROVE Moves(h) /\ handler'[h].pc \in {"ok", "uploads.row"}
  BY <1>1, <1>2 DEF Accept, Moves, Request
<1>3. CASE \E expected \in 1..MaxRevision \cup {None} : SubmitRead(h, expected)
  BY <1>1, <1>2, <1>3, GoMoves, AnswersMove DEF SubmitRead, Apart, ReadPcs
<1>4. CASE SubmitCreate(h)
  <2>1. CASE /\ wx = None /\ wx' = NewShell(handler[h].draft)
             /\ used' = [used EXCEPT !.shells = @ + 1] /\ Accept(h, used.shells + 1)
    <3>1. TypeInv'
      BY <1>4, SubmitCreateKeeps
    <3>2. /\ wx'.id = used.shells + 1 /\ wx'.status = "assembling"
          /\ wx'.draft = handler[h].draft
      BY <2>1 DEF NewShell
    <3>3. wx' # None
      <4>1. NewShell(handler[h].draft) \in Article
        BY <1>1, <2>1, <1>4, <3>1, DocumentType, RequestType, Bounds
           DEF TypeInv, DataOK, NewShell, Article, Shells, SubmitCreate, At, Prepared
      <4> QED BY <2>1, <4>1, NullAssumption
    <3>4. used'.shells = used.shells + 1 /\ used'.deletes = used.deletes
      BY <2>1 DEF TypeInv, DataOK
    <3> QED BY <1>1, <1>2, <1>4, <2>1, <3>2, <3>3, <3>4 DEF Apart, SubmitCreate, ReadPcs
  <2>2. CASE Accept(h, wx.id) /\ UNCHANGED <<wx, used>>
    BY <1>1, <1>2, <1>4, <2>2 DEF Apart, SubmitCreate, ReadPcs
  <2>3. CASE Answers(h, "rejected") /\ UNCHANGED <<wx, used, plans>>
    BY <1>1, <1>4, <2>3, AnswersMove DEF Apart, SubmitCreate, ReadPcs
  <2> QED BY <1>4, <2>1, <2>2, <2>3 DEF SubmitCreate
<1> QED BY <1>3, <1>4

\* The steps that write rows and objects of the media.
LEMMA MediaEffect ==
  ASSUME TypeInv, NEW h \in Handlers,
         \/ \E i \in Items : UploadsRow(h, i)
         \/ UploadsRetry(h) \/ UploadsDone(h) \/ EnsureRow(h) \/ CopyRow(h)
         \/ EnsureRetry(h) \/ Copy(h) \/ Verify(h) \/ MarkReady(h) \/ OssFails(h)
  PROVE  Apart(h)
<1>1. /\ handler[h] \in Request /\ handler \in [Handlers -> Request]
      /\ handler[h].op \notin {"finalize", "delete"}
  BY RequestType DEF TypeInv, RequestsInv, Prepared, UploadsRow, UploadsRetry, UploadsDone,
     EnsureRow, CopyRow, EnsureRetry, Copy, Verify, MarkReady, OssFails, At
<1>2. ASSUME NEW i \in Items, Insert(h, i)
      PROVE  used'.shells = used.shells /\ used'.deletes = used.deletes
  BY <1>2 DEF Insert, TypeInv, DataOK
<1>3. ASSUME NEW i \in Items, UploadsRow(h, i) PROVE Apart(h)
  <2> DEFINE done == [handler EXCEPT ![h].todo = @ \ {i}]
  <2>1. ASSUME handler' = done PROVE Moves(h) /\ handler'[h].pc \notin ReadPcs
    BY <1>1, <1>3, <2>1 DEF Moves, Request, UploadsRow, At, ReadPcs
  <2>2. ASSUME NEW k, handler' = [handler EXCEPT ![h].pc = "uploads.retry", ![h].item = i,
                                                 ![h].key = k]
        PROVE  Moves(h) /\ handler'[h].pc \notin ReadPcs
    BY <1>1, <2>2 DEF Moves, Request, ReadPcs
  <2>3. Moves(h) /\ handler'[h].pc \notin ReadPcs
    <3>1. CASE Answers(h, "rejected")
      BY <3>1, AnswersMove DEF ReadPcs
    <3> QED BY <1>3, <2>1, <2>2, <3>1 DEF UploadsRow
  <2>4. used'.shells = used.shells /\ used'.deletes = used.deletes
    BY <1>2, <1>3 DEF UploadsRow
  <2> QED BY <1>1, <1>3, <2>3, <2>4 DEF UploadsRow, Apart
<1>4. CASE UploadsRetry(h)
  BY <1>1, <1>4, AnswersMove DEF UploadsRetry, Apart, ReadPcs, Moves, Request
<1>5. CASE UploadsDone(h)
  BY <1>1, <1>5, AnswersMove DEF UploadsDone, Apart, ReadPcs
<1>6. ASSUME NEW row, NEW fill \in {"verify", "copy"}, Resume(h, row, fill)
      PROVE  Moves(h) /\ handler'[h].pc \notin ReadPcs
  BY <1>1, <1>6, AnswersMove DEF Resume, ReadPcs, Moves, Request
<1>7. CASE EnsureRow(h)
  BY <1>1, <1>6, <1>7, AnswersMove, GoMoves DEF EnsureRow, Apart, ReadPcs
<1>8. CASE CopyRow(h)
  <2>1. CASE /\ Insert(h, handler[h].item)
             /\ handler' = [handler EXCEPT ![h].pc = "copy", ![h].key = used.keys + 1]
    <3>1. handler[h].item \in Items
      BY <1>8, RequestType DEF TypeInv, CopyRow, At, Prepared
    <3>2. Moves(h) /\ handler'[h].pc \notin ReadPcs
      BY <1>1, <2>1 DEF Moves, ReadPcs, Request
    <3> QED BY <1>1, <1>2, <1>8, <2>1, <3>1, <3>2 DEF CopyRow, Apart
  <2>2. CASE /\ UNCHANGED used
             /\ \/ Answers(h, "rejected")
                \/ \E row : Resume(h, row, "copy")
    BY <1>1, <1>6, <1>8, <2>2, AnswersMove DEF CopyRow, Apart, ReadPcs
  <2> QED BY <1>8, <2>1, <2>2 DEF CopyRow
<1>9. CASE EnsureRetry(h) \/ Copy(h) \/ Verify(h) \/ MarkReady(h) \/ OssFails(h)
  <2>1. Moves(h) /\ handler'[h].pc \notin ReadPcs
    BY <1>9, AnswersMove, GoMoves
       DEF EnsureRetry, Copy, Verify, MarkReady, OssFails, ReadPcs
  <2>2. UNCHANGED <<wx, used, published>>
    BY <1>9 DEF EnsureRetry, Copy, Verify, MarkReady, OssFails
  <2> QED BY <1>1, <2>1, <2>2 DEF Apart
<1> QED BY <1>3, <1>4, <1>5, <1>7, <1>8, <1>9

LEMMA FinalizeEffect ==
  ASSUME TypeInv, NEW h \in Handlers,
         \/ ReadOwner(h) \/ FinContext(h) \/ FinAssets(h) \/ FinPending(h) \/ FinUpdate(h)
         \/ FinConflict(h)
  PROVE  Effect(h)
<1>1. /\ handler[h] \in Request /\ handler \in [Handlers -> Request] /\ Prepared(handler[h])
  BY RequestType DEF TypeInv, RequestsInv
<1>2. CASE ReadOwner(h)
  <2>1. CASE Answers(h, "rejected")
    BY <1>2, <2>1, AnswersMove DEF Effect, Refuses, Quiet, ReadOwner
  <2>2. CASE At(h, "ensure.owner") /\ Go(h, "ensure.row")
    <3>1. handler[h].op = "ensure"
      BY <1>1, <2>2 DEF Prepared, At
    <3>2. Moves(h) /\ handler'[h].pc \notin ReadPcs
      BY <2>2, GoMoves DEF ReadPcs
    <3>3. Apart(h)
      BY <1>2, <3>1, <3>2 DEF Apart, ReadOwner
    <3> QED BY <3>3 DEF Effect
  <2>3. CASE /\ Owned(h) /\ At(h, "fin.owner")
             /\ handler' = [handler EXCEPT ![h].pc = "fin.assets", ![h].owner = wx]
    <3>1. handler[h].op = "finalize"
      BY <1>1, <2>3 DEF Prepared, At
    <3>2. Moves(h) /\ handler'[h].pc = "fin.assets" /\ handler'[h].owner = wx
      BY <1>1, <2>3 DEF Moves, Request
    <3> QED BY <1>2, <2>3, <3>1, <3>2 DEF Effect, Reads, Quiet, ReadOwner, Owned, At
  <2> QED BY <1>2, <2>1, <2>2, <2>3 DEF ReadOwner
<1>3. CASE FinContext(h)
  <2>1. Refuses(h)
    BY <1>3, AnswersMove, GoMoves DEF Refuses, Quiet, FinContext
  <2> QED BY <2>1 DEF Effect
<1>4. CASE FinAssets(h)
  <2>1. CASE Answers(h, "rejected")
    <3>1. Quiet
      BY <1>4 DEF Quiet, FinAssets
    <3>2. Moves(h) /\ handler'[h].pc = "rejected"
      BY <2>1, AnswersMove
    <3>3. Refuses(h)
      BY <3>1, <3>2 DEF Refuses
    <3> QED BY <3>3 DEF Effect
  <2>2. ASSUME NEW keep, NEW media,
               handler' = [handler EXCEPT
                 ![h].pc = IF AlreadyPublic(h) THEN "sweep.select"
                           ELSE IF handler[h].owner.status = "assembling" THEN "fin.pending"
                           ELSE "fin.update",
                 ![h].keep = keep, ![h].media = media]
        PROVE  Chooses(h)
    <3>1. Moves(h) /\ handler'[h].owner = handler[h].owner
      BY <1>1, <2>2 DEF Moves, Request
    <3>2. handler'[h].pc = IF AlreadyPublic(h) THEN "sweep.select"
                           ELSE IF handler[h].owner.status = "assembling" THEN "fin.pending"
                           ELSE "fin.update"
      BY <1>1, <2>2 DEF Request
    <3> QED BY <1>4, <3>1, <3>2 DEF Chooses, Quiet, FinAssets, At
  <2>3. \/ Answers(h, "rejected")
        \/ \E keep, media :
             handler' = [handler EXCEPT
                 ![h].pc = IF AlreadyPublic(h) THEN "sweep.select"
                           ELSE IF handler[h].owner.status = "assembling" THEN "fin.pending"
                           ELSE "fin.update",
                 ![h].keep = keep, ![h].media = media]
    BY <1>4 DEF FinAssets
  <2>4. ASSUME Chooses(h) PROVE Effect(h)
    BY <2>4 DEF Effect
  <2> QED BY <2>1, <2>2, <2>3, <2>4
<1>5. CASE FinPending(h)
  BY <1>5, GoMoves DEF Effect, Abandons, Quiet, FinPending, At
<1>6. CASE FinUpdate(h)
  <2>1. CASE /\ RowUnchanged(h) /\ NextRevision(handler[h].owner) <= MaxRevision
             /\ wx' = [wx EXCEPT !.status = "ready", !.finalized = TRUE,
                                 !.revision = NextRevision(handler[h].owner),
                                 !.draft = handler[h].draft,
                                 !.bundle = Bundle(h), !.media = handler[h].media]
             /\ published' = published \cup {Shown(wx')}
             /\ Go(h, "sweep.select")
    <3>1. wx \in Article
      BY <2>1 DEF RowUnchanged, Owned, TypeInv, DataOK
    <3>2. /\ wx'.id = wx.id /\ wx'.status = "ready" /\ wx'.finalized
          /\ wx'.revision = NextRevision(handler[h].owner)
          /\ wx'.draft = handler[h].draft /\ wx'.bundle = Bundle(h)
      BY <2>1, <3>1 DEF Article
    <3>3. wx' \in Article
      BY <1>6, <2>1, UpdatedType DEF FinUpdate
    <3> QED BY <1>6, <2>1, <3>2, <3>3, GoMoves DEF Effect, Publishes, FinUpdate, At
  <2>2. CASE Answers(h, "rejected") /\ UNCHANGED <<wx, published>>
    BY <1>6, <2>2, AnswersMove DEF Effect, Refuses, Quiet, FinUpdate
  <2>3. CASE Go(h, "fin.conflict") /\ UNCHANGED <<wx, published>>
    BY <1>6, <2>3, GoMoves DEF Effect, Refuses, Quiet, FinUpdate
  <2> QED BY <1>6, <2>1, <2>2, <2>3 DEF FinUpdate
<1>7. CASE FinConflict(h)
  <2>1. handler[h].op = "finalize"
    BY <1>1, <1>7 DEF Prepared, FinConflict, At
  <2> QED BY <1>7, <2>1, AnswersMove DEF Effect, Refuses, Confirms, Quiet, FinConflict
<1> QED BY <1>2, <1>3, <1>4, <1>5, <1>6, <1>7

LEMMA DeletionEffect ==
  ASSUME TypeInv, NEW h \in Handlers,
         \/ SweepSelect(h) \/ SweepAbandon(h) \/ SweepObjects(h) \/ SweepRows(h)
         \/ DelBegin(h) \/ DelRow(h) \/ HandlerDies(h)
  PROVE  Effect(h)
<1>1. /\ handler[h] \in Request /\ handler \in [Handlers -> Request] /\ Prepared(handler[h])
  BY RequestType DEF TypeInv, RequestsInv
<1>2. CASE SweepSelect(h)
  <2>1. Moves(h) /\ handler'[h].pc \in SweepPcs
    BY <1>1, <1>2 DEF Moves, Request, SweepSelect, SweepPcs
  <2> QED BY <1>2, <2>1 DEF Effect, Sweeps, Quiet, SweepSelect, At, SweepPcs
<1>3. CASE SweepAbandon(h) \/ SweepObjects(h)
  BY <1>3, GoMoves DEF Effect, Sweeps, Quiet, SweepAbandon, SweepObjects, At, SweepPcs
<1>4. CASE SweepRows(h)
  <2>1. handler[h].op \in {"finalize", "delete"}
    BY <1>1, <1>4 DEF Prepared, SweepRows, At
  <2> QED BY <1>4, <2>1, GoMoves, AnswersMove
          DEF Effect, Sweeps, Quiet, SweepRows, At, SweepPcs
<1>5. CASE DelBegin(h)
  <2>1. CASE Owned(h) /\ wx' = [wx EXCEPT !.status = "assembling"] /\ Go(h, "sweep.select")
    <3>1. wx \in Article /\ wx' \in Article
      BY <2>1 DEF Owned, TypeInv, DataOK, Article
    <3>2. /\ wx # None /\ wx' # None /\ wx'.id = wx.id /\ wx'.status = "assembling"
          /\ wx'.revision = wx.revision /\ wx'.finalized = wx.finalized /\ wx'.draft = wx.draft
      BY <2>1, <3>1, NullAssumption DEF Article, Owned
    <3>3. handler[h].op = "delete"
      BY <1>1, <1>5 DEF Prepared, DelBegin, At
    <3> QED BY <1>5, <2>1, <3>2, <3>3, GoMoves DEF Effect, Hides, DelBegin
  <2>2. CASE Answers(h, "rejected") /\ UNCHANGED wx
    BY <1>5, <2>2, AnswersMove DEF Effect, Refuses, Quiet, DelBegin
  <2> QED BY <1>5, <2>1, <2>2 DEF DelBegin
<1>6. CASE DelRow(h)
  <2>1. handler[h].op = "delete"
    BY <1>1, <1>6 DEF Prepared, DelRow, At
  <2> QED BY <1>6, <2>1, AnswersMove DEF Effect, Removes, Refuses, Quiet, DelRow
<1>7. CASE HandlerDies(h)
  BY <1>7, AnswersMove DEF Effect, Refuses, Quiet, HandlerDies
<1> QED BY <1>2, <1>3, <1>4, <1>5, <1>6, <1>7

LEMMA StepEffect ==
  ASSUME TypeInv, NEW h \in Handlers, HandlerStep(h)
  PROVE  Effect(h)
BY SubmitEffect, MediaEffect, FinalizeEffect, DeletionEffect DEF HandlerStep, Effect

\* A request that begins or is forgotten.
Begins(h) ==
  /\ \A g \in Handlers \ {h} : handler'[g] = handler[g]
  /\ handler'[h].pc \in {"submit.read", "ensure.owner", "fin.context", "del.begin", "idle"}
  /\ UNCHANGED <<wx, published>>
  /\ used'.shells = used.shells
  /\ used'.deletes \in Nat /\ used'.deletes >= used.deletes
  /\ handler'[h].op = "delete" =>
       used'.deletes # 0 /\ handler'[h].shell \in 1..used.shells

Still == UNCHANGED <<handler, wx, used, published>>

LEMMA BeginEffect ==
  ASSUME TypeInv, NEW h \in Handlers,
         \/ \E op \in {"submit", "uploads"} : StartSubmit(h, op)
         \/ \E s \in 1..used.shells, r \in 1..MaxRevision : StartDelete(h, s, r)
         \/ \E p \in plans : StartFinalize(h, p)
         \/ \E p \in plans, i \in Items : StartEnsure(h, p, i)
         \/ Forget(h)
  PROVE  Begins(h)
<1>1. handler \in [Handlers -> Request] /\ IdleRequest \in Request
  BY IdleType DEF TypeInv, RequestsInv
<1>2. used.deletes \in Nat
  BY Bounds DEF TypeInv, DataOK
<1>3. ASSUME NEW r, Serve(h, r), r.op # "delete", UNCHANGED <<wx, published, used>>,
             r.pc \in {"submit.read", "ensure.owner", "fin.context"}
      PROVE  Begins(h)
  BY <1>1, <1>2, <1>3 DEF Serve, Begins
<1>4. CASE \/ \E op \in {"submit", "uploads"} : StartSubmit(h, op)
           \/ \E p \in plans : StartFinalize(h, p)
  BY <1>3, <1>4 DEF StartSubmit, StartFinalize, IdleRequest
<1>5. ASSUME NEW p \in plans, NEW i \in Items, StartEnsure(h, p, i) PROVE Begins(h)
  <2> DEFINE r == [IdleRequest EXCEPT !.pc = "ensure.owner", !.op = "ensure",
                                      !.shell = p.shell, !.draft = p.draft, !.item = i]
  <2>1. r.pc = "ensure.owner" /\ r.op = "ensure"
    BY DEF IdleRequest
  <2>2. Serve(h, r) /\ UNCHANGED <<wx, published, used>>
    BY <1>5 DEF StartEnsure
  <2> HIDE DEF r
  <2> QED BY <1>3, <2>1, <2>2
<1>6. ASSUME NEW s \in 1..used.shells, NEW n \in 1..MaxRevision, StartDelete(h, s, n)
      PROVE  Begins(h)
  <2> DEFINE r == [IdleRequest EXCEPT !.pc = "del.begin", !.op = "delete",
                                      !.shell = s, !.revision = n]
  <2>1. r.pc = "del.begin" /\ r.op = "delete" /\ r.shell = s
    BY DEF IdleRequest
  <2>2. Serve(h, r) /\ UNCHANGED <<wx, published>>
    BY <1>6 DEF StartDelete
  <2>3. used'.shells = used.shells /\ used'.deletes = used.deletes + 1
    BY <1>6 DEF StartDelete, TypeInv, DataOK
  <2> HIDE DEF r
  <2> QED BY <1>1, <1>2, <2>1, <2>2, <2>3 DEF Serve, Begins
<1>7. CASE Forget(h)
  BY <1>1, <1>2, <1>7 DEF Forget, Begins, IdleRequest
<1> QED BY <1>4, <1>5, <1>6, <1>7

LEMMA NextEffect ==
  ASSUME TypeInv, [Next]_publicVars
  PROVE  Still \/ \E h \in Handlers : Begins(h) \/ Effect(h)
<1>1. CASE SaveDraft \/ (\E k \in signed : Put(k)) \/ UNCHANGED publicVars
  BY <1>1 DEF SaveDraft, Put, publicVars, Still
<1>2. CASE \E h \in Handlers : HandlerStep(h)
  BY <1>2, StepEffect
<1>3. CASE \E h \in Handlers :
             \/ \E op \in {"submit", "uploads"} : StartSubmit(h, op)
             \/ \E s \in 1..used.shells, r \in 1..MaxRevision : StartDelete(h, s, r)
             \/ \E p \in plans : StartFinalize(h, p)
             \/ \E p \in plans, i \in Items : StartEnsure(h, p, i)
             \/ Forget(h)
  BY <1>3, BeginEffect
<1> QED BY <1>1, <1>2, <1>3 DEF Next, MemberStep

-----------------------------------------------------------------------------
(* What was public is in the history, and an ok rests on it *)

\* What a finalize knows of the revisions P that have been public.
Witnessed(r, P) ==
  /\ r.pc \in ReadPcs /\ r.owner.status = "ready" => Shown(r.owner) \in P
  /\ r.pc = "fin.pending" => r.owner.status = "assembling"
  /\ r.pc = "fin.update" /\ r.owner.status = "ready" =>
       r.owner.draft # r.draft \/ r.owner.bundle # Document[r.draft]
  /\ r.op = "finalize" /\ r.pc \in SweepPcs \cup {"ok"} =>
       \E p \in P : p.draft = r.draft /\ p.bundle = Document[r.draft]

HistoryInv ==
  /\ Public => Shown(wx) \in published
  /\ \A h \in Handlers : Witnessed(handler[h], published)

\* A longer history is as good a witness.
LEMMA WitnessedStays ==
  ASSUME NEW r, NEW P, NEW Q, P \subseteq Q, Witnessed(r, P)
  PROVE  Witnessed(r, Q)
BY DEF Witnessed

LEMMA HistoryStep ==
  ASSUME TypeInv, HistoryInv, NEW h \in Handlers,
         \A g \in Handlers \ {h} : handler'[g] = handler[g],
         published \subseteq published', Witnessed(handler'[h], published'),
         Public' => Shown(wx)' \in published'
  PROVE  HistoryInv'
<1>1. ASSUME NEW g \in Handlers PROVE Witnessed(handler'[g], published')
  <2>1. CASE g = h
    BY <2>1
  <2>2. CASE g # h
    <3>1. handler'[g] = handler[g] /\ Witnessed(handler[g], published)
      BY <2>2 DEF HistoryInv
    <3> QED BY <3>1, WitnessedStays
  <2> QED BY <2>1, <2>2
<1>2. HistoryInv' <=> /\ Public' => Shown(wx)' \in published'
                      /\ \A g \in Handlers : Witnessed(handler'[g], published')
  BY DEF HistoryInv, Witnessed, Shown
<1> QED BY <1>1, <1>2

LEMMA HistoryKept == TypeInv /\ HistoryInv /\ [Next]_publicVars => HistoryInv'
<1> SUFFICES ASSUME TypeInv, HistoryInv, [Next]_publicVars PROVE HistoryInv'
  OBVIOUS
<1>1. CASE Still
  BY <1>1 DEF Still, HistoryInv, Witnessed, Public, Shown
<1>2. ASSUME NEW h \in Handlers, Begins(h) \/ Effect(h) PROVE HistoryInv'
  <2> DEFINE r == handler[h]
             s == handler'[h]
  <2>1. Witnessed(r, published) /\ (Public => Shown(wx) \in published)
    BY DEF HistoryInv
  <2>2. Prepared(r) /\ (r.pc \in ReadPcs => r.owner \in Article /\ r.op = "finalize")
    BY RequestType DEF TypeInv, Prepared, ReadPcs
  <2>3. \A g \in Handlers \ {h} : handler'[g] = handler[g]
    BY <1>2 DEF Begins, Effect, Moves, Apart, Refuses, Reads, Chooses, Abandons, Publishes,
                Confirms, Sweeps, Hides, Removes
  <2>4. published \subseteq published'
    BY <1>2 DEF Begins, Effect, Quiet, Apart, Refuses, Reads, Chooses, Abandons, Publishes,
                Confirms, Sweeps, Hides, Removes
  <2>5. Public' => Shown(wx)' \in published'
    <3>1. CASE UNCHANGED <<wx, published>>
      BY <2>1, <3>1 DEF Public, Shown
    <3>2. CASE Publishes(h)
      BY <3>2 DEF Publishes, Shown
    <3>3. CASE wx' = None \/ wx'.status = "assembling"
      BY <3>3 DEF Public
    <3> QED BY <1>2, <3>1, <3>2, <3>3
            DEF Begins, Effect, Quiet, Apart, Refuses, Reads, Chooses, Abandons, Confirms,
                Sweeps, Hides, Removes
  <2>6. Witnessed(s, published')
    <3>1. CASE Begins(h) \/ Refuses(h)
      BY <3>1 DEF Begins, Refuses, Witnessed, ReadPcs, SweepPcs
    <3>2. CASE Apart(h) \/ Hides(h) \/ Removes(h)
      BY <3>2 DEF Apart, Hides, Removes, Moves, Witnessed, ReadPcs, SweepPcs
    <3>3. CASE Reads(h)
      BY <3>3, <2>1 DEF Reads, Quiet, Public, Witnessed, ReadPcs, SweepPcs
    <3>4. CASE Chooses(h)
      <4>1. /\ r.pc = "fin.assets" /\ s.owner = r.owner /\ r.op = "finalize"
            /\ s.op = r.op /\ s.draft = r.draft /\ published' = published
        BY <2>2, <3>4 DEF Chooses, Moves, Quiet, ReadPcs
      <4>2. CASE s.pc = "sweep.select" /\ AlreadyPublic(h)
        <5>1. /\ Shown(r.owner) \in published
              /\ r.owner.draft = r.draft /\ r.owner.bundle = Document[r.draft]
          BY <2>1, <4>1, <4>2 DEF AlreadyPublic, Bundle, Witnessed, ReadPcs
        <5> QED BY <4>1, <4>2, <5>1 DEF Witnessed, Shown, ReadPcs
      <4>3. CASE s.pc = "fin.pending" /\ r.owner.status = "assembling"
        BY <4>1, <4>3 DEF Witnessed, ReadPcs, SweepPcs
      <4>4. CASE s.pc = "fin.update" /\ ~AlreadyPublic(h)
        BY <2>1, <4>1, <4>4 DEF Witnessed, ReadPcs, SweepPcs, AlreadyPublic, Bundle
      <4> QED BY <3>4, <4>2, <4>3, <4>4 DEF Chooses
    <3>5. CASE Abandons(h)
      BY <3>5, <2>1 DEF Abandons, Witnessed, ReadPcs, SweepPcs
    <3>6. CASE Publishes(h)
      <4>1. /\ s.pc = "sweep.select" /\ s.draft = r.draft
            /\ Shown(wx') \in published'
            /\ Shown(wx').draft = r.draft /\ Shown(wx').bundle = Document[r.draft]
        BY <2>2, <3>6 DEF Publishes, Moves, Shown, Bundle, ReadPcs
      <4> QED BY <4>1 DEF Witnessed, ReadPcs
    <3>7. CASE Confirms(h)
      <4>1. /\ s.draft = r.draft /\ s.pc = "ok" /\ Shown(wx) \in published'
            /\ Shown(wx).draft = r.draft /\ Shown(wx).bundle = Document[r.draft]
        BY <2>1, <3>7 DEF Confirms, Quiet, Moves, Shown, Bundle
      <4> QED BY <4>1 DEF Witnessed, ReadPcs
    <3>8. CASE Sweeps(h)
      BY <2>1, <3>8 DEF Sweeps, Quiet, Moves, Witnessed, ReadPcs, SweepPcs
    <3> QED BY <1>2, <3>1, <3>2, <3>3, <3>4, <3>5, <3>6, <3>7, <3>8 DEF Effect
  <2> QED BY <2>3, <2>4, <2>5, <2>6, HistoryStep
<1> QED BY <1>1, <1>2, NextEffect

LEMMA HistoryHolds == Spec => []HistoryInv
<1>1. Init => HistoryInv
  BY DEF Init, HistoryInv, Public, Witnessed, IdleRequest, ReadPcs, SweepPcs
<1> QED BY <1>1, HistoryKept, TypesHold, PTL DEF Spec

\* A finalize answers ok only when its draft has been public, by its own update, by
\* that of another request, or because it already was when the row was read.
THEOREM OkRestsOnHistory == Spec => []OkMeansPublished
<1>1. HistoryInv => OkMeansPublished
  BY DEF HistoryInv, Witnessed, OkMeansPublished, At
<1> QED BY <1>1, HistoryHolds, PTL

-----------------------------------------------------------------------------
(* A deleted article does not come back *)

\* A row never has the id of one a deletion has named.
GoneInv ==
  \A h \in Handlers : handler[h].op = "delete" =>
    /\ handler[h].shell \in 1..used.shells
    /\ handler[h].pc = "ok" => ~Owned(h)

LEMMA GoneKept == TypeInv /\ GoneInv /\ [Next]_publicVars => GoneInv'
<1> SUFFICES ASSUME TypeInv, GoneInv, [Next]_publicVars, NEW g \in Handlers,
                    handler'[g].op = "delete"
             PROVE  /\ handler'[g].shell \in 1..used'.shells
                    /\ handler'[g].pc = "ok" => ~(wx' # None /\ wx'.id = handler'[g].shell)
  BY DEF GoneInv, Owned
<1>1. used.shells \in Nat
  BY Bounds DEF TypeInv, DataOK
<1>2. CASE Still
  BY <1>2 DEF Still, GoneInv, Owned
<1>3. ASSUME NEW h \in Handlers, Begins(h) \/ Effect(h), g # h
      PROVE  /\ handler'[g].shell \in 1..used'.shells
             /\ handler'[g].pc = "ok" => ~(wx' # None /\ wx'.id = handler'[g].shell)
  <2>1. handler'[g] = handler[g]
    BY <1>3 DEF Begins, Effect, Moves, Apart, Refuses, Reads, Chooses, Abandons, Publishes,
                Confirms, Sweeps, Hides, Removes
  <2>2. /\ handler[g].shell \in 1..used.shells
        /\ handler[g].pc = "ok" => ~(wx # None /\ wx.id = handler[g].shell)
    BY <2>1 DEF GoneInv, Owned
  <2>3. \/ used'.shells = used.shells
           /\ (wx' = wx \/ wx' = None \/ (wx # None /\ wx'.id = wx.id))
        \/ used'.shells = used.shells + 1 /\ wx'.id = used.shells + 1
    BY <1>3 DEF Begins, Effect, Quiet, Apart, Refuses, Reads, Chooses, Abandons, Publishes,
                Confirms, Sweeps, Hides, Removes, RowUnchanged, Owned
  <2> QED BY <1>1, <2>1, <2>2, <2>3
<1>4. ASSUME Begins(g)
      PROVE  handler'[g].shell \in 1..used'.shells /\ handler'[g].pc # "ok"
  BY <1>4 DEF Begins
<1>5. ASSUME Effect(g)
      PROVE  /\ handler'[g].shell \in 1..used'.shells
             /\ handler'[g].pc = "ok" => ~(wx' # None /\ wx'.id = handler'[g].shell)
  <2>1. handler[g].op = "delete" /\ handler'[g].shell = handler[g].shell
    BY <1>5 DEF Effect, Moves, Apart, Refuses, Reads, Chooses, Abandons, Publishes,
                Confirms, Sweeps, Hides, Removes
  <2>2. handler[g].shell \in 1..used.shells
    BY <2>1 DEF GoneInv
  <2>3. used'.shells = used.shells
    BY <1>5, <2>1 DEF Effect, Quiet, Apart, Refuses, Reads, Chooses, Abandons, Publishes,
                      Confirms, Sweeps, Hides, Removes
  <2>4. ~Confirms(g)
    BY <2>1 DEF Confirms
  <2>5. handler'[g].pc = "ok" => Removes(g)
    BY <1>5, <2>1, <2>4 DEF Effect, Apart, Refuses, Reads, Chooses, Abandons, Publishes,
                            Sweeps, Hides, SweepPcs
  <2>6. Removes(g) => ~(wx' # None /\ wx'.id = handler'[g].shell)
    BY <2>1 DEF Removes, Owned
  <2> QED BY <2>1, <2>2, <2>3, <2>5, <2>6
<1> QED BY <1>2, <1>3, <1>4, <1>5, NextEffect

\* A deletion answers ok only when its article is gone, and no publication brings
\* it back: the id of a row is never used again.
THEOREM DeletedStaysGone == Spec => []DeletedIsGone
<1>1. Init => GoneInv
  BY DEF Init, GoneInv, IdleRequest
<1>2. GoneInv => DeletedIsGone
  BY DEF GoneInv, DeletedIsGone, At
<1> QED BY <1>1, <1>2, GoneKept, TypesHold, PTL DEF Spec

-----------------------------------------------------------------------------
(* Until a deletion begins, revisions are shown in order *)

OrderInv ==
  used.deletes = 0 =>
    /\ \A h \in Handlers : handler[h].op # "delete"
    /\ wx = None \/ wx.status = "assembling" => published = {}
    /\ \A p \in published : p.shell = wx.id /\ p.revision <= wx.revision
    /\ \A p, q \in published : p.revision = q.revision => p = q

\* A publication gets a revision above all that were shown.
LEMMA PublishesNewer ==
  ASSUME TypeInv, OrderInv, used.deletes = 0, NEW h \in Handlers, Publishes(h)
  PROVE  /\ wx # None /\ wx \in Article
         /\ \A p \in published : p.shell = wx'.id /\ p.revision < wx'.revision
<1>1. /\ wx # None /\ wx \in Article
      /\ wx.revision = handler[h].owner.revision /\ wx.status = handler[h].owner.status
  BY DEF Publishes, RowUnchanged, Owned, TypeInv, DataOK
<1>2. ASSUME NEW p \in published PROVE p.shell = wx'.id /\ p.revision < wx'.revision
  <2>1. p \in Revision /\ p.shell = wx.id /\ p.revision <= wx.revision
    BY DEF OrderInv, TypeInv, DataOK
  <2>2. wx.status # "assembling"
    BY <1>1 DEF OrderInv
  <2>3. wx'.revision = wx.revision + 1
    BY <1>1, <2>2 DEF Publishes, NextRevision
  <2>4. p.revision \in Nat /\ wx.revision \in Nat
    BY <1>1, <2>1, Bounds DEF Revision, Article
  <2> QED BY <2>1, <2>3, <2>4 DEF Publishes
<1> QED BY <1>1, <1>2

\* No deletion is at work before the first one was asked for.
LEMMA NoDeletionYet ==
  ASSUME TypeInv, OrderInv, NEW h \in Handlers, Begins(h) \/ Effect(h), used'.deletes = 0
  PROVE  used.deletes = 0 /\ ~Hides(h) /\ ~Removes(h) /\ handler'[h].op # "delete"
<1>1. used.deletes \in Nat
  BY Bounds DEF TypeInv, DataOK
<1>2. used.deletes = 0
  BY <1>1 DEF Begins, Effect, Quiet, Apart, Refuses, Reads, Chooses, Abandons, Publishes,
              Confirms, Sweeps, Hides, Removes
<1>3. handler[h].op # "delete"
  BY <1>2 DEF OrderInv
<1>4. handler'[h].op # "delete"
  BY <1>3 DEF Begins, Effect, Moves, Apart, Refuses, Reads, Chooses, Abandons, Publishes,
              Confirms, Sweeps, Hides, Removes
<1> QED BY <1>2, <1>3, <1>4 DEF Hides, Removes

\* What a step then does to the row and to the history.
LEMMA RowBefore ==
  ASSUME TypeInv, OrderInv, NEW h \in Handlers, Begins(h) \/ Effect(h), used'.deletes = 0
  PROVE  \/ UNCHANGED <<wx, published>>
         \/ wx = None /\ wx' # None /\ wx'.status = "assembling" /\ UNCHANGED published
         \/ Publishes(h)
BY NoDeletionYet DEF Begins, Effect, Quiet, Apart, Refuses, Reads, Chooses, Abandons,
                     Confirms, Sweeps

LEMMA OrderKept == TypeInv /\ OrderInv /\ [Next]_publicVars => OrderInv'
<1> SUFFICES ASSUME TypeInv, OrderInv, [Next]_publicVars, used'.deletes = 0
             PROVE  /\ \A h \in Handlers : handler'[h].op # "delete"
                    /\ wx' = None \/ wx'.status = "assembling" => published' = {}
                    /\ \A p \in published' : p.shell = wx'.id /\ p.revision <= wx'.revision
                    /\ \A p, q \in published' : p.revision = q.revision => p = q
  BY DEF OrderInv
<1>1. CASE Still
  BY <1>1 DEF Still, OrderInv
<1>2. ASSUME NEW h \in Handlers, Begins(h) \/ Effect(h)
      PROVE  /\ \A g \in Handlers : handler'[g].op # "delete"
             /\ wx' = None \/ wx'.status = "assembling" => published' = {}
             /\ \A p \in published' : p.shell = wx'.id /\ p.revision <= wx'.revision
             /\ \A p, q \in published' : p.revision = q.revision => p = q
  <2>1. used.deletes = 0 /\ handler'[h].op # "delete"
    BY <1>2, NoDeletionYet
  <2>2. \A g \in Handlers : handler'[g].op # "delete"
    <3>1. \A g \in Handlers \ {h} : handler'[g] = handler[g]
      BY <1>2 DEF Begins, Effect, Moves, Apart, Refuses, Reads, Chooses, Abandons, Publishes,
                  Confirms, Sweeps, Hides, Removes
    <3> QED BY <2>1, <3>1 DEF OrderInv
  <2>3. CASE UNCHANGED <<wx, published>>
    BY <2>1, <2>2, <2>3 DEF OrderInv
  <2>4. CASE wx = None /\ wx' # None /\ wx'.status = "assembling" /\ UNCHANGED published
    BY <2>1, <2>2, <2>4 DEF OrderInv
  <2>5. CASE Publishes(h)
    <3>1. \A p \in published : p.shell = wx'.id /\ p.revision < wx'.revision
      BY <2>1, <2>5, PublishesNewer
    <3>2. /\ wx' \in Article /\ wx'.status = "ready"
          /\ published' = published \cup {Shown(wx')}
      BY <2>5 DEF Publishes
    <3>3. /\ Shown(wx').shell = wx'.id /\ Shown(wx').revision = wx'.revision
          /\ wx'.revision \in Nat
      BY <3>2, Bounds DEF Shown, Article
    <3>4. \A p \in published : p.revision \in Nat
      BY Bounds DEF TypeInv, DataOK, Revision
    <3>5. wx' # None
      BY <3>2, NullAssumption
    <3>6. \A p \in published' : p.shell = wx'.id /\ p.revision <= wx'.revision
      BY <3>1, <3>2, <3>3, <3>4
    <3>7. \A p, q \in published' : p.revision = q.revision => p = q
      BY <2>1, <3>1, <3>2, <3>3, <3>4 DEF OrderInv
    <3> QED BY <2>2, <3>2, <3>5, <3>6, <3>7
  <2> QED BY <1>2, <2>3, <2>4, <2>5, RowBefore
<1> QED BY <1>1, <1>2, NextEffect

LEMMA OrderHolds == Spec => []OrderInv
<1>1. Init => OrderInv
  BY DEF Init, OrderInv, IdleRequest
<1> QED BY <1>1, OrderKept, TypesHold, PTL DEF Spec

\* A publication under a revision newer than all that were shown.
LEMMA PublishRefines ==
  ASSUME TypeInv, NEW h \in Handlers, Publishes(h),
         \A p \in published : Article_!Older(p, Shown(wx'))
  PROVE  Article_!Next
<1>1. /\ wx' \in Article /\ wx'.status = "ready"
      /\ wx'.draft = handler[h].draft /\ wx'.bundle = Document[handler[h].draft]
      /\ published' = published \cup {Shown(wx')}
  BY DEF Publishes, Bundle
<1>2. handler[h].draft \in DOMAIN Document
  BY RequestType DEF TypeInv, Prepared, Publishes, Drafts
<1>3. OnShow' = Shown(wx')
  BY <1>1, NullAssumption DEF OnShow, Public, Shown
<1>4. Shown(wx') # None
  <2>1. Shown(wx') \in Revision
    BY <1>1 DEF Shown, Article, Revision
  <2> QED BY <2>1, NullAssumption
<1>5. Shown(wx').draft = handler[h].draft /\ Shown(wx').bundle = Document[handler[h].draft]
  BY <1>1 DEF Shown
<1>6. Article_!Publish
  BY <1>1, <1>2, <1>3, <1>4, <1>5 DEF Article_!Publish, Article_!Drafts
<1> QED BY <1>6 DEF Article_!Next

LEMMA RefinesUntilDeletedStep ==
  ASSUME TypeInv, OrderInv, [Next]_publicVars, used'.deletes = 0
  PROVE  Article_!Next \/ UNCHANGED <<OnShow, published>>
<1>1. CASE UNCHANGED <<wx, published>>
  BY <1>1 DEF OnShow, Public, Shown
<1>2. ASSUME NEW h \in Handlers, Begins(h) \/ Effect(h)
      PROVE  Article_!Next \/ UNCHANGED <<OnShow, published>>
  <2>1. CASE wx = None /\ wx' # None /\ wx'.status = "assembling" /\ UNCHANGED published
    BY <2>1 DEF OnShow, Public
  <2>2. CASE Publishes(h)
    <3>1. used.deletes = 0
      BY <1>2, NoDeletionYet
    <3>2. \A p \in published : p.shell = wx'.id /\ p.revision < wx'.revision
      BY <2>2, <3>1, PublishesNewer
    <3>3. \A p \in published : Article_!Older(p, Shown(wx'))
      BY <3>2 DEF Shown, Article_!Older
    <3> QED BY <2>2, <3>3, PublishRefines
  <2> QED BY <1>1, <1>2, <2>1, <2>2, RowBefore
<1> QED BY <1>1, <1>2, NextEffect DEF Still

\* Whatever publications overlap and wherever they die, a reader sees nothing or one
\* saved draft, whole, under a revision above all that were shown before, until a
\* deletion is asked for: the guards of the row's update are enough.
THEOREM PublicationsRefine == Spec => RefinesUntilDeleted
<1>1. Init => Article_!Init
  BY DEF Init, Article_!Init, OnShow, Public
<1>2. TypeInv /\ OrderInv /\ [Next]_publicVars
        => [used'.deletes = 0
              => Article_!Next \/ UNCHANGED <<OnShow, published>>]_publicVars
  BY RefinesUntilDeletedStep
<1> QED BY <1>1, <1>2, TypesHold, OrderHolds, PTL DEF Spec, RefinesUntilDeleted

\* A retried or repeated finalize takes no second revision for the draft on show.
THEOREM RevisionsDiffer == Spec => NoEmptyRevision
<1>1. TypeInv /\ HistoryInv /\ OrderInv /\ [Next]_publicVars
        => [/\ Public /\ Public' /\ used'.deletes = 0
            /\ wx'.id = wx.id /\ wx'.revision # wx.revision
            => <<wx'.draft, wx'.bundle>> # <<wx.draft, wx.bundle>>]_publicVars
  <2> SUFFICES ASSUME TypeInv, HistoryInv, OrderInv, [Next]_publicVars,
                      Public, used'.deletes = 0, wx'.revision # wx.revision
               PROVE  <<wx'.draft, wx'.bundle>> # <<wx.draft, wx.bundle>>
    OBVIOUS
  <2>1. PICK h \in Handlers : Begins(h) \/ Effect(h)
    BY NextEffect DEF Still
  <2>2. Publishes(h) /\ used.deletes = 0
    BY <2>1, RowBefore, NoDeletionYet DEF Public
  <2> DEFINE owner == handler[h].owner
  <2>3. /\ owner.status = "ready" /\ owner.revision = wx.revision
        /\ handler[h].pc = "fin.update"
    BY <2>2 DEF Publishes, RowUnchanged, Public
  <2>4. Shown(owner) \in published /\ Shown(wx) \in published
    BY <2>3 DEF HistoryInv, Witnessed, ReadPcs
  <2>5. Shown(owner) = Shown(wx)
    BY <2>2, <2>3, <2>4 DEF OrderInv, Shown
  <2>6. owner.draft = wx.draft /\ owner.bundle = wx.bundle
    BY <2>5 DEF Shown
  <2>7. owner.draft # handler[h].draft \/ owner.bundle # Document[handler[h].draft]
    BY <2>3 DEF HistoryInv, Witnessed
  <2> QED BY <2>2, <2>6, <2>7 DEF Publishes, Bundle
<1> QED BY <1>1, TypesHold, HistoryHolds, OrderHolds, PTL DEF Spec, NoEmptyRevision

-----------------------------------------------------------------------------
(* The call a request was made for *)

\* A request goes on with the call it was made for, unless it is a submit that finds its
\* article row.
SameCall(h) ==
  /\ handler'[h].pc # "idle"
  /\ handler'[h].op = handler[h].op
  /\ handler'[h].shell = handler[h].shell
  /\ handler'[h].draft = handler[h].draft

Submits(h) ==
  \/ \E expected \in 1..MaxRevision \cup {None} : SubmitRead(h, expected)
  \/ SubmitCreate(h)

LEMMA RequestGoesOn ==
  ASSUME TypeInv, NEW h \in Handlers, HandlerStep(h)
  PROVE  Submits(h) \/ SameCall(h)
<1>1. handler[h] \in Request /\ handler \in [Handlers -> Request] /\ Prepared(handler[h])
  BY RequestType DEF TypeInv, RequestsInv
<1>2. ASSUME NEW pc \in Pcs \ {"idle"}, Go(h, pc) PROVE SameCall(h)
  BY <1>1, <1>2 DEF Go, SameCall, Request
<1>3. ASSUME NEW answer \in {"ok", "rejected"}, Answers(h, answer) PROVE SameCall(h)
  BY <1>1, <1>3 DEF Answers, SameCall, IdleRequest
<1> USE DEF Pcs
<1>4. ASSUME NEW row, NEW fill \in {"verify", "copy"}, Resume(h, row, fill)
      PROVE  SameCall(h)
  BY <1>1, <1>3, <1>4 DEF Resume, SameCall, Request
<1>5. CASE UploadsRetry(h) \/ UploadsDone(h) \/ \E i \in Items : UploadsRow(h, i)
  <2>1. ASSUME NEW i \in Items, UploadsRow(h, i) PROVE SameCall(h)
    <3>1. CASE handler' = [handler EXCEPT ![h].todo = @ \ {i}]
      BY <1>1, <2>1, <3>1 DEF SameCall, Request, UploadsRow, At
    <3>2. CASE handler' = [handler EXCEPT ![h].pc = "uploads.retry", ![h].item = i,
                                          ![h].key = assets[i].key]
      BY <1>1, <3>2 DEF SameCall, Request
    <3> QED BY <1>3, <2>1, <3>1, <3>2 DEF UploadsRow
  <2>2. CASE UploadsRetry(h)
    <3>1. CASE handler' = [handler EXCEPT ![h].pc = "uploads.row",
                                          ![h].todo = @ \ {handler[h].item},
                                          ![h].item = None, ![h].key = None]
      BY <1>1, <3>1 DEF SameCall, Request
    <3> QED BY <1>3, <2>2, <3>1 DEF UploadsRetry
  <2> QED BY <1>3, <1>5, <2>1, <2>2 DEF UploadsDone
<1>6. CASE ReadOwner(h)
  <2>1. CASE handler' = [handler EXCEPT ![h].pc = "fin.assets", ![h].owner = wx]
    BY <1>1, <2>1 DEF SameCall, Request
  <2> QED BY <1>2, <1>3, <1>6, <2>1 DEF ReadOwner
<1>7. CASE CopyRow(h)
  <2>1. CASE handler' = [handler EXCEPT ![h].pc = "copy", ![h].key = used.keys + 1]
    BY <1>1, <2>1 DEF SameCall, Request
  <2> QED BY <1>3, <1>4, <1>7, <2>1 DEF CopyRow
<1>8. CASE EnsureRow(h)
  BY <1>2, <1>3, <1>4, <1>8 DEF EnsureRow
<1>9. CASE EnsureRetry(h) \/ Copy(h) \/ Verify(h) \/ MarkReady(h) \/ OssFails(h)
  BY <1>2, <1>3, <1>9 DEF EnsureRetry, Copy, Verify, MarkReady, OssFails
<1>10. CASE FinAssets(h)
  <2>1. ASSUME NEW pc \in Pcs \ {"idle"}, NEW keep, NEW media,
               handler' = [handler EXCEPT ![h].pc = pc, ![h].keep = keep, ![h].media = media]
        PROVE  SameCall(h)
    BY <1>1, <2>1 DEF SameCall, Request
  <2> DEFINE pc == IF AlreadyPublic(h) THEN "sweep.select"
                   ELSE IF handler[h].owner.status = "assembling" THEN "fin.pending"
                   ELSE "fin.update"
  <2>2. pc \in Pcs \ {"idle"}
    OBVIOUS
  <2>3. \/ Answers(h, "rejected")
        \/ \E keep, media : handler' = [handler EXCEPT ![h].pc = pc, ![h].keep = keep,
                                                      ![h].media = media]
    BY <1>10 DEF FinAssets
  <2> HIDE DEF pc
  <2> QED BY <1>3, <2>1, <2>2, <2>3
<1>11. CASE FinContext(h) \/ FinPending(h) \/ FinUpdate(h) \/ FinConflict(h)
  BY <1>2, <1>3, <1>11 DEF FinContext, FinPending, FinUpdate, FinConflict
<1>12. CASE SweepSelect(h)
  BY <1>1, <1>12 DEF SweepSelect, SameCall, Request
<1>13. CASE SweepAbandon(h) \/ SweepObjects(h) \/ SweepRows(h)
  BY <1>2, <1>3, <1>13 DEF SweepAbandon, SweepObjects, SweepRows
<1>14. CASE DelBegin(h) \/ DelRow(h)
  BY <1>2, <1>3, <1>14 DEF DelBegin, DelRow
<1>15. CASE HandlerDies(h)
  BY <1>3, <1>15 DEF HandlerDies
<1> QED BY <1>5, <1>6, <1>7, <1>8, <1>9, <1>10, <1>11, <1>12, <1>13, <1>14, <1>15
        DEF HandlerStep, Submits


\* Only a submit returns a plan, and no handler saves a draft.
LEMMA PlansStay ==
  ASSUME NEW h \in Handlers, HandlerStep(h)
  PROVE  draft' = draft /\ (Submits(h) \/ plans' = plans)
<1>1. CASE Submits(h)
  BY <1>1 DEF Submits, SubmitRead, SubmitCreate
<1>2. CASE \/ \E i \in Items : UploadsRow(h, i)
           \/ UploadsRetry(h) \/ UploadsDone(h) \/ ReadOwner(h) \/ EnsureRow(h)
           \/ CopyRow(h) \/ EnsureRetry(h) \/ Copy(h) \/ Verify(h) \/ MarkReady(h)
           \/ OssFails(h)
  BY <1>2 DEF UploadsRow, UploadsRetry, UploadsDone, ReadOwner, EnsureRow, CopyRow,
              EnsureRetry, Copy, Verify, MarkReady, OssFails
<1>3. CASE \/ FinContext(h) \/ FinAssets(h) \/ FinPending(h) \/ FinUpdate(h)
           \/ FinConflict(h) \/ SweepSelect(h) \/ SweepAbandon(h) \/ SweepObjects(h)
           \/ SweepRows(h) \/ DelBegin(h) \/ DelRow(h) \/ HandlerDies(h)
  BY <1>3 DEF FinContext, FinAssets, FinPending, FinUpdate, FinConflict, SweepSelect,
              SweepAbandon, SweepObjects, SweepRows, DelBegin, DelRow, HandlerDies, Answers
<1> QED BY <1>1, <1>2, <1>3 DEF HandlerStep, Submits

LEMMA PlansGrow == ASSUME [Next]_publicVars PROVE plans \subseteq plans'
<1>1. ASSUME NEW h \in Handlers, HandlerStep(h) PROVE plans \subseteq plans'
  <2>1. CASE Submits(h)
    BY <2>1 DEF Submits, SubmitRead, SubmitCreate, Accept
  <2> QED BY <1>1, <2>1, PlansStay
<1>2. CASE MemberStep
  BY <1>2 DEF MemberStep, SaveDraft, Put, StartSubmit, StartDelete
<1>3. CASE \E h \in Handlers : \/ Forget(h)
                               \/ \E p \in plans : StartFinalize(h, p)
                               \/ \E p \in plans, i \in Items : StartEnsure(h, p, i)
  BY <1>3 DEF Forget, StartFinalize, StartEnsure
<1>4. CASE UNCHANGED publicVars
  BY <1>4 DEF publicVars
<1> QED BY <1>1, <1>2, <1>3, <1>4 DEF Next

-----------------------------------------------------------------------------
(* Rows, plans and requests name articles and drafts there have been *)

\* There have been n articles and m drafts.
Known(s, d, n, m) ==
  /\ s # None => s \in 1..n
  /\ d # None => d \in 1..m

KnownInv ==
  /\ wx # None => Known(wx.id, wx.draft, used.shells, draft)
  /\ \A p \in plans \cup published : Known(p.shell, p.draft, used.shells, draft)
  /\ \A h \in Handlers : Known(handler[h].shell, handler[h].draft, used.shells, draft)

\* Articles and drafts become more.
LEMMA StaysKnown ==
  ASSUME TypeInv, used'.shells \in {used.shells, used.shells + 1}, draft' \in {draft, draft + 1},
         NEW s, NEW d, Known(s, d, used.shells, draft)
  PROVE  Known(s, d, used'.shells, draft')
<1>1. used.shells \in Nat /\ draft \in Nat
  BY Bounds, PublicAssumption DEF TypeInv, DataOK, Drafts
<1> QED BY <1>1 DEF Known

LEMMA SubmitNames ==
  ASSUME TypeInv, KnownInv, NEW h \in Handlers, Submits(h), NEW g \in Handlers
  PROVE  /\ Known(handler'[g].shell, handler'[g].draft, used'.shells, draft')
         /\ \A p \in plans' : Known(p.shell, p.draft, used'.shells, draft')
<1>1. /\ handler[h] \in Request /\ handler \in [Handlers -> Request]
      /\ used.shells \in Nat /\ draft' = draft
  BY RequestType, Bounds DEF TypeInv, RequestsInv, DataOK, Submits, SubmitRead, SubmitCreate
<1>2. Apart(h)
  BY SubmitEffect DEF Submits
<1>3. used'.shells \in {used.shells, used.shells + 1}
  BY <1>2 DEF Apart
<1>4. \A s, d : Known(s, d, used.shells, draft)
           => Known(s, d, used'.shells, draft')
  BY <1>1, <1>3, StaysKnown
<1>5. ASSUME g # h
      PROVE  Known(handler'[g].shell, handler'[g].draft, used'.shells, draft')
  BY <1>2, <1>4, <1>5 DEF Apart, Moves, KnownInv
<1>6. ASSUME NEW answer, Go(h, answer) \/ Answers(h, answer)
      PROVE  Known(handler'[h].shell, handler'[h].draft, used'.shells, draft')
  <2>1. handler'[h].shell = handler[h].shell /\ handler'[h].draft = handler[h].draft
    BY ZenonT(30), <1>1, <1>6 DEF Go, Answers, IdleRequest, Request
  <2> QED BY <1>4, <2>1 DEF KnownInv
<1>7. ASSUME NEW s, Known(s, None, used'.shells, draft'), Accept(h, s)
      PROVE  /\ Known(handler'[h].shell, handler'[h].draft, used'.shells, draft')
             /\ \A p \in plans' : Known(p.shell, p.draft, used'.shells, draft')
  <2>1. Known(s, handler[h].draft, used'.shells, draft')
    BY <1>1, <1>7 DEF Known, KnownInv
  <2>2. handler'[h].shell = s /\ handler'[h].draft = handler[h].draft
    BY <1>1, <1>7 DEF Accept, Request
  <2>3. plans' \subseteq plans \cup {[shell |-> s, draft |-> handler[h].draft]}
    BY <1>7 DEF Accept
  <2> QED BY <1>4, <2>1, <2>2, <2>3 DEF KnownInv
<1>8. CASE plans' = plans /\ \E answer : Go(h, answer) \/ Answers(h, answer)
  BY <1>4, <1>5, <1>6, <1>8 DEF KnownInv
<1>9. CASE wx # None /\ wx' = wx /\ Accept(h, wx.id)
  <2>1. Known(wx'.id, None, used'.shells, draft')
    BY <1>4, <1>9 DEF KnownInv, Known
  <2> QED BY <1>5, <1>7, <1>9, <2>1, <1>4 DEF KnownInv
<1>10. CASE used' = [used EXCEPT !.shells = @ + 1] /\ Accept(h, used.shells + 1)
  <2>1. used'.shells = used.shells + 1
    BY <1>10 DEF TypeInv, DataOK
  <2>2. Known(used.shells + 1, None, used'.shells, draft')
    BY <1>1, <2>1 DEF Known
  <2> QED BY <1>5, <1>7, <1>10, <2>2
<1> QED BY <1>8, <1>9, <1>10 DEF Submits, SubmitRead, SubmitCreate

LEMMA KnownKept == TypeInv /\ KnownInv /\ [Next]_publicVars => KnownInv'
<1> SUFFICES ASSUME TypeInv, KnownInv, [Next]_publicVars PROVE KnownInv'
  OBVIOUS
<1>1. /\ handler \in [Handlers -> Request] /\ draft \in Nat /\ used.shells \in Nat
  BY Bounds, PublicAssumption DEF TypeInv, RequestsInv, DataOK, Drafts
<1>2. CASE SaveDraft \/ (\E k \in signed : Put(k)) \/ UNCHANGED publicVars
  <2>1. UNCHANGED <<handler, wx, used, plans, published>> /\ draft' \in {draft, draft + 1}
    BY <1>2 DEF SaveDraft, Put, publicVars
  <2>2. \A s, d : Known(s, d, used.shells, draft)
           => Known(s, d, used'.shells, draft')
    BY <2>1, StaysKnown
  <2> QED BY <2>1, <2>2 DEF KnownInv
<1>3. ASSUME NEW h \in Handlers,
             \/ \E op \in {"submit", "uploads"} : StartSubmit(h, op)
             \/ \E s \in 1..used.shells, r \in 1..MaxRevision : StartDelete(h, s, r)
             \/ \E p \in plans : StartFinalize(h, p)
             \/ \E p \in plans, i \in Items : StartEnsure(h, p, i)
             \/ Forget(h)
      PROVE  KnownInv'
  <2>1. Begins(h)
    BY <1>3, BeginEffect
  <2>2. UNCHANGED <<draft, wx, plans, published>> /\ used'.shells = used.shells
    BY <1>3, <2>1 DEF Begins, StartSubmit, StartDelete, StartFinalize, StartEnsure, Forget
  <2>3. \A s, d : Known(s, d, used.shells, draft)
           => Known(s, d, used'.shells, draft')
    BY <2>2 DEF Known
  <2>4. Known(handler'[h].shell, handler'[h].draft, used'.shells, draft')
    <3>1. CASE \E op \in {"submit", "uploads"} : StartSubmit(h, op)
      BY <1>1, <3>1 DEF StartSubmit, Serve, IdleRequest, Known
    <3>2. CASE \E s \in 1..used.shells, r \in 1..MaxRevision : StartDelete(h, s, r)
      BY <1>1, <3>2 DEF StartDelete, Serve, IdleRequest, Known
    <3>3. CASE \E p \in plans : StartFinalize(h, p)
      BY <1>1, <3>3 DEF StartFinalize, Serve, IdleRequest, KnownInv
    <3>4. ASSUME NEW p \in plans, NEW i \in Items, StartEnsure(h, p, i)
          PROVE  Known(handler'[h].shell, handler'[h].draft, used'.shells, draft')
      <4>1. handler'[h].shell = p.shell /\ handler'[h].draft = p.draft
        BY <1>1, <3>4 DEF StartEnsure, Serve, IdleRequest
      <4> QED BY <2>2, <4>1 DEF KnownInv
    <3>5. CASE Forget(h)
      BY <1>1, <3>5 DEF Forget, IdleRequest, Known
    <3> QED BY <1>3, <3>1, <3>2, <3>3, <3>4, <3>5
  <2> QED BY <2>1, <2>2, <2>3, <2>4 DEF KnownInv, Begins
<1>4. ASSUME NEW h \in Handlers, HandlerStep(h) PROVE KnownInv'
  <2>1. Effect(h) /\ draft' = draft /\ (Submits(h) \/ plans' = plans)
    BY <1>4, StepEffect, PlansStay
  <2>2. used'.shells \in {used.shells, used.shells + 1}
    BY <2>1 DEF Effect, Quiet, Apart, Refuses, Reads, Chooses, Abandons, Publishes, Confirms,
                Sweeps, Hides, Removes
  <2>3. \A s, d : Known(s, d, used.shells, draft)
           => Known(s, d, used'.shells, draft')
    BY <2>1, <2>2, StaysKnown
  <2>4. \A g \in Handlers \ {h} : handler'[g] = handler[g]
    BY <2>1 DEF Effect, Moves, Apart, Refuses, Reads, Chooses, Abandons, Publishes, Confirms,
                Sweeps, Hides, Removes
  <2>5. /\ \A g \in Handlers : Known(handler'[g].shell, handler'[g].draft, used'.shells, draft')
        /\ \A p \in plans' : Known(p.shell, p.draft, used'.shells, draft')
    <3>1. CASE Submits(h)
      BY <3>1, SubmitNames
    <3>2. CASE SameCall(h) /\ plans' = plans
      BY <2>3, <2>4, <3>2 DEF SameCall, KnownInv
    <3> QED BY <1>4, <2>1, <3>1, <3>2, RequestGoesOn
  <2>6. wx' # None => Known(wx'.id, wx'.draft, used'.shells, draft')
    <3>1. CASE wx' = wx
      BY <2>3, <3>1 DEF KnownInv
    <3>2. CASE /\ wx'.id = used.shells + 1 /\ used'.shells = used.shells + 1
               /\ wx'.draft = handler[h].draft
      <4>1. Known(handler[h].shell, handler[h].draft, used'.shells, draft')
        BY <2>3, <2>5 DEF KnownInv
      <4>2. Known(None, handler[h].draft, used'.shells, draft')
        BY <2>3 DEF KnownInv, Known
      <4> QED BY <1>1, <3>2, <4>2 DEF Known
    <3>3. CASE wx # None /\ wx'.id = wx.id /\ wx'.draft \in {wx.draft, handler[h].draft}
      <4>1. /\ Known(wx.id, wx.draft, used'.shells, draft')
            /\ Known(handler[h].shell, handler[h].draft, used'.shells, draft')
        BY <2>3, <3>3 DEF KnownInv
      <4> QED BY <3>3, <2>3 DEF Known, KnownInv
    <3>4. CASE wx' = None
      BY <3>4
    <3> QED BY <2>1, <3>1, <3>2, <3>3, <3>4
            DEF Effect, Quiet, Apart, Refuses, Reads, Chooses, Abandons, Publishes, Confirms,
                Sweeps, Hides, Removes, RowUnchanged, Owned
  <2>7. published' \subseteq published \cup {Shown(wx')} /\ (wx' = None => published' = published)
    BY <2>1, NullAssumption
       DEF Effect, Quiet, Apart, Refuses, Reads, Chooses, Abandons, Publishes, Confirms,
           Sweeps, Hides, Removes
  <2>8. \A p \in published' : Known(p.shell, p.draft, used'.shells, draft')
    BY <2>3, <2>6, <2>7 DEF KnownInv, Shown
  <2> QED BY <2>5, <2>6, <2>8 DEF KnownInv
<1> QED BY <1>2, <1>3, <1>4 DEF Next, MemberStep

LEMMA KnownInit == Init => KnownInv
BY DEF Init, KnownInv, Known, IdleRequest

-----------------------------------------------------------------------------
(* One call at a time *)

OneCall ==
  \A g, h \in Handlers :
    handler[g].op \in {"ensure", "finalize"} /\ handler[h].op \in {"ensure", "finalize"}
    => g = h

\* What a finalize r has read of the row w still holds while the row is its own.
ReadOf(r, w) ==
  w # None /\ w.id = r.shell /\ r.op = "finalize" =>
    /\ r.pc \in ReadPcs => r.owner.finalized = w.finalized
    /\ r.pc \in {"fin.owner"} \cup ReadPcs => w.draft <= r.draft

ReadInv == \A h \in Handlers : ReadOf(handler[h], wx)

\* The revision of the row is above those of its own and of earlier articles.
NumberInv ==
  wx # None => \A p \in published :
    \/ p.shell < wx.id
    \/ p.shell = wx.id /\ wx.finalized /\ p.revision <= wx.revision

LEMMA ReadKept ==
  ASSUME TypeInv, KnownInv, OneCall, ReadInv, [Next]_publicVars PROVE ReadInv'
<1> SUFFICES ASSUME NEW g \in Handlers PROVE ReadOf(handler'[g], wx')
  BY DEF ReadInv
<1> DEFINE r == handler[g]
           s == handler'[g]
<1>1. /\ r \in Request /\ Prepared(r) /\ ReadOf(r, wx)
      /\ used.shells \in Nat /\ None \notin Nat
  BY RequestType, Bounds, PublicAssumption DEF TypeInv, ReadInv, DataOK
<1>2. ASSUME s = r, wx' = wx PROVE ReadOf(s, wx')
  BY <1>1, <1>2
<1>3. CASE Still
  BY <1>2, <1>3 DEF Still
<1>4. ASSUME NEW h \in Handlers, Begins(h) PROVE ReadOf(s, wx')
  BY <1>2, <1>4 DEF Begins, ReadOf, ReadPcs
<1>5. ASSUME NEW h \in Handlers, Effect(h), g # h PROVE ReadOf(s, wx')
  <2>1. s = r
    BY <1>5 DEF Effect, Moves, Apart, Refuses, Reads, Chooses, Abandons, Publishes, Confirms,
                Sweeps, Hides, Removes
  <2>2. CASE wx' = wx \/ wx' = None
    BY <1>1, <2>1, <2>2 DEF ReadOf
  <2>3. CASE wx'.id = used.shells + 1
    <3>1. r.shell = None \/ r.shell \in 1..used.shells
      BY DEF KnownInv, Known
    <3> QED BY <1>1, <2>1, <2>3, <3>1 DEF ReadOf
  <2>4. CASE Publishes(h)
    <3>1. handler[h].op = "finalize"
      BY <2>4, RequestType DEF TypeInv, Prepared, Publishes
    <3>2. r.op # "finalize"
      BY <1>5, <3>1 DEF OneCall
    <3> QED BY <2>1, <3>2 DEF ReadOf
  <2>5. CASE Hides(h)
    BY <1>1, <2>1, <2>5 DEF Hides, ReadOf
  <2> QED BY <1>5, <2>2, <2>3, <2>4, <2>5 DEF Effect, Quiet, Apart, Refuses, Reads, Chooses,
          Abandons, Confirms, Sweeps, Removes
<1>6. ASSUME Effect(g), r.op = "finalize", s.pc \in {"fin.owner"} \cup ReadPcs
      PROVE  ReadOf(s, wx')
  <2>1. wx' = wx /\ s.shell = r.shell /\ s.draft = r.draft /\ s.op = r.op
    BY <1>6 DEF Effect, Quiet, Moves, Apart, Refuses, Reads, Chooses, Abandons, Publishes,
                Confirms, Sweeps, Hides, Removes, ReadPcs, SweepPcs
  <2>2. CASE Refuses(g)
    <3>1. s.pc = "fin.owner" /\ draft = r.draft
      BY <1>6, <2>2 DEF Refuses, ReadPcs
    <3>2. wx # None => wx.draft \in 1..draft
      BY PublicAssumption DEF KnownInv, Known, TypeInv, DataOK, Article, Drafts
    <3> QED BY <2>1, <3>1, <3>2 DEF ReadOf, ReadPcs
  <2>3. CASE Reads(g)
    BY <1>1, <2>1, <2>3 DEF Reads, ReadOf
  <2>4. CASE Chooses(g) \/ Abandons(g)
    <3>1. s.pc \in ReadPcs /\ r.pc \in ReadPcs /\ s.owner = r.owner
      BY <1>6, <2>4 DEF Chooses, Abandons, ReadPcs
    <3> QED BY <1>1, <2>1, <3>1 DEF ReadOf
  <2> QED BY <1>6, <2>2, <2>3, <2>4 DEF Effect, Apart, Publishes, Confirms, Sweeps, Hides, Removes,
          ReadPcs, SweepPcs
<1>7. CASE Effect(g)
  <2>1. s.op = r.op
    BY <1>7 DEF Effect, Moves, Apart, Refuses, Reads, Chooses, Abandons, Publishes, Confirms,
                Sweeps, Hides, Removes
  <2> QED BY <1>6, <1>7, <2>1 DEF ReadOf
<1> QED BY <1>3, <1>4, <1>5, <1>7, NextEffect

\* A publication gets a revision above all that were shown.
LEMMA PublishesAbove ==
  ASSUME TypeInv, ReadInv, NumberInv, NEW h \in Handlers, Publishes(h)
  PROVE  \A p \in published : Article_!Older(p, Shown(wx'))
<1> DEFINE owner == handler[h].owner
<1>1. /\ wx # None /\ wx \in Article
      /\ wx.revision = owner.revision /\ wx.status = owner.status
  BY DEF Publishes, RowUnchanged, Owned, TypeInv, DataOK
<1>2. handler[h].op = "finalize"
  BY RequestType DEF TypeInv, Prepared, Publishes
<1>3. owner.finalized = wx.finalized
  BY <1>1, <1>2 DEF ReadInv, ReadOf, Publishes, RowUnchanged, Owned, ReadPcs
<1>4. wx.revision \in Nat /\ \A p \in published : p.revision \in Nat
  BY <1>1, Bounds DEF TypeInv, DataOK, Article, Revision
<1>5. wx.finalized => wx'.revision = wx.revision + 1
  BY <1>1, <1>3 DEF Publishes, NextRevision
<1> QED BY <1>1, <1>4, <1>5 DEF NumberInv, Publishes, Shown, Article_!Older

LEMMA NumberKept ==
  ASSUME TypeInv, KnownInv, ReadInv, NumberInv, [Next]_publicVars PROVE NumberInv'
<1>1. CASE Still
  BY <1>1 DEF Still, NumberInv
<1>2. ASSUME NEW h \in Handlers, Begins(h) \/ Effect(h) PROVE NumberInv'
  <2>1. CASE UNCHANGED <<wx, published>>
    BY <2>1 DEF NumberInv
  <2>2. CASE wx' = None
    BY <2>2 DEF NumberInv
  <2>3. CASE wx'.id = used.shells + 1 /\ UNCHANGED published
    <3>1. \A p \in published : p.shell \in 1..used.shells
      BY PublicAssumption DEF KnownInv, Known, TypeInv, DataOK, Revision, Shells
    <3>2. used.shells \in Nat
      BY Bounds DEF TypeInv, DataOK
    <3> QED BY <2>3, <3>1, <3>2 DEF NumberInv
  <2>4. CASE Publishes(h)
    <3>1. \A p \in published : Article_!Older(p, Shown(wx'))
      BY <2>4, PublishesAbove
    <3>2. \A p \in published :
            p.shell < wx'.id \/ (p.shell = wx'.id /\ p.revision < wx'.revision)
      BY <3>1 DEF Article_!Older, Shown
    <3>3. /\ published' = published \cup {Shown(wx')} /\ wx'.finalized
          /\ Shown(wx').shell = wx'.id /\ Shown(wx').revision = wx'.revision
      BY <2>4 DEF Publishes, Shown
    <3>4. wx'.revision \in Nat /\ \A p \in published : p.revision \in Nat
      BY <2>4, Bounds DEF Publishes, Article, TypeInv, DataOK, Revision
    <3> QED BY <3>2, <3>3, <3>4 DEF NumberInv
  <2>5. CASE Hides(h)
    BY <2>5 DEF Hides, NumberInv
  <2> QED BY <1>2, <2>1, <2>2, <2>3, <2>4, <2>5 DEF Begins, Effect, Quiet, Apart, Refuses, Reads,
          Chooses, Abandons, Confirms, Sweeps, Removes
<1> QED BY <1>1, <1>2, NextEffect

\* The drafts on show do not get older.
LEMMA NoRegressionStep ==
  ASSUME TypeInv, ReadInv, [Next]_publicVars, Public, Public', wx'.id = wx.id
  PROVE  wx'.draft >= wx.draft
<1>1. wx.draft \in Nat
  BY PublicAssumption DEF Public, TypeInv, DataOK, Article, Drafts
<1>2. CASE wx' = wx
  BY <1>1, <1>2
<1>3. ASSUME NEW h \in Handlers, Publishes(h) PROVE wx'.draft >= wx.draft
  <2>1. handler[h].op = "finalize"
    BY <1>3, RequestType DEF TypeInv, Prepared, Publishes
  <2>2. wx.draft <= handler[h].draft
    BY <1>3, <2>1 DEF ReadInv, ReadOf, Publishes, RowUnchanged, Owned, ReadPcs
  <2> QED BY <1>3, <2>2 DEF Publishes
<1> QED BY <1>2, <1>3, NextEffect
        DEF Public, Still, Begins, Effect, Quiet, Apart, Refuses, Reads, Chooses, Abandons,
            Confirms, Sweeps, Hides, Removes

\* The revisions on show are those of PublicArticle.
LEMMA RefinesOneCallStep ==
  ASSUME TypeInv, ReadInv, NumberInv, [Next]_publicVars
  PROVE  Article_!Next \/ UNCHANGED <<OnShow, published>>
<1>1. CASE UNCHANGED <<wx, published>>
  BY <1>1 DEF OnShow, Public, Shown
<1>2. CASE ~Public' /\ UNCHANGED published
  <2>1. OnShow' = None
    BY <1>2 DEF OnShow, Public
  <2>2. CASE OnShow = None
    BY <1>2, <2>1, <2>2
  <2>3. CASE OnShow # None
    BY <1>2, <2>1, <2>3 DEF Article_!Next, Article_!Hide
  <2> QED BY <2>2, <2>3
<1>3. ASSUME NEW h \in Handlers, Publishes(h)
      PROVE  Article_!Next \/ UNCHANGED <<OnShow, published>>
  BY <1>3, PublishesAbove, PublishRefines
<1> QED BY <1>1, <1>2, <1>3, NextEffect
        DEF Public, Still, Begins, Effect, Quiet, Apart, Refuses, Reads, Chooses, Abandons,
            Confirms, Sweeps, Hides, Removes

-----------------------------------------------------------------------------
(* The media of the article on show *)

Hashes(items) == {Sha[i] : i \in items}

\* The rows of these objects have content with these hashes.
Linked(rows, media, shas) ==
  \A i \in Items : rows[i] # None /\ rows[i].key \in media => Sha[i] \in shas

NotReady(rows, keys) ==
  \A i \in Items : rows[i] # None /\ rows[i].key \in keys => rows[i].status # "ready"

\* What a request r relies on of the row w, the asset rows and the stored objects; n
\* asset rows have been created.
Holds(r, w, rows, stored, n) ==
  /\ r.media \cup r.stale \subseteq 1..n
  /\ r.pc \in ReadPcs => r.owner = w
  /\ r.pc = "mark" => r.key \in stored
  /\ r.pc \in {"fin.pending", "fin.update"} =>
       /\ r.media \subseteq stored
       /\ Linked(rows, r.media, r.keep)
       /\ r.keep = Hashes(Document[r.draft])
  /\ r.pc = "sweep.select" => w # None /\ Linked(rows, w.media, r.keep)
  /\ r.pc = "sweep.abandon" => NotReady(rows, r.stale \ r.live)
  /\ r.pc = "sweep.objects" => NotReady(rows, r.stale)
  /\ r.pc \in {"sweep.abandon", "sweep.objects"} => w # None /\ r.stale \cap w.media = {}

RowsInv ==
  \A i, j \in Items : assets[i] # None /\ assets[j] # None =>
    /\ assets[i].key \in 1..used.keys
    /\ assets[i].key = assets[j].key => i = j

ShownInv ==
  /\ wx # None => wx.media \subseteq 1..used.keys
  /\ Public => wx.media \subseteq objects /\ Linked(assets, wx.media, Hashes(wx.bundle))

MediaInv ==
  /\ RowsInv
  /\ ReadyAssetBacked
  /\ ShownInv
  /\ \A h \in Handlers : Holds(handler[h], wx, assets, objects, used.keys)

NoDelete == \A h \in Handlers : handler[h].op # "delete"

\* No object goes, no row becomes ready, and a new row has a new key.
OldRow(i) ==
  /\ assets[i] # None /\ assets'[i].key = assets[i].key
  /\ assets'[i].status = "ready" => assets[i].status = "ready"

NewRow(i) ==
  /\ assets'[i].key = used.keys + 1 /\ assets'[i].status = "pending"
  /\ used'.keys = used.keys + 1

Calm ==
  /\ objects \subseteq objects'
  /\ used'.keys \in {used.keys, used.keys + 1}
  /\ \A i \in Items : assets'[i] # None => OldRow(i) \/ NewRow(i)
  /\ \A i, j \in Items : NewRow(i) /\ NewRow(j) /\ assets'[i] # None /\ assets'[j] # None
                        => i = j

\* The row stays or is created.
SameArticle == wx' = wx \/ (wx = None /\ wx' # None /\ wx'.media = {} /\ wx'.status = "assembling")

Others(h) == \A g \in Handlers \ {h} : handler'[g] = handler[g]

LEMMA CalmHolds ==
  ASSUME TypeInv, ShownInv, Calm, SameArticle, NEW r \in Request, Prepared(r),
         Holds(r, wx, assets, objects, used.keys)
  PROVE  Holds(r, wx', assets', objects', used'.keys)
<1>1. used.keys \in Nat /\ objects \subseteq objects' /\ 1..used.keys \subseteq 1..used'.keys
  BY Bounds DEF Calm, TypeInv, DataOK
<1>2. ASSUME NEW media, NEW shas, media \subseteq 1..used.keys, Linked(assets, media, shas)
      PROVE  Linked(assets', media, shas)
  BY <1>1, <1>2 DEF Linked, Calm, OldRow, NewRow
<1>3. ASSUME NEW keys, keys \subseteq 1..used.keys, NotReady(assets, keys)
      PROVE  NotReady(assets', keys)
  BY <1>1, <1>3 DEF NotReady, Calm, OldRow, NewRow
<1>4. r.media \subseteq 1..used.keys /\ r.stale \subseteq 1..used.keys
  BY DEF Holds
<1>5. r.media \cup r.stale \subseteq 1..used'.keys
  BY <1>1, <1>4
<1>6. r.pc \in ReadPcs => r.owner = wx'
  BY NullAssumption DEF Holds, SameArticle, Prepared, ReadPcs
<1>7. r.pc \in {"sweep.select", "sweep.abandon", "sweep.objects"} => wx' = wx /\ wx # None
  BY DEF Holds, SameArticle
<1>8. r.pc \in {"fin.pending", "fin.update"} =>
       /\ r.media \subseteq objects'
       /\ Linked(assets', r.media, r.keep)
       /\ r.keep = Hashes(Document[r.draft])
  BY <1>1, <1>2, <1>4 DEF Holds
<1>9. r.pc = "sweep.select" => Linked(assets', wx.media, r.keep)
  BY <1>2, <1>7 DEF Holds, ShownInv
<1>10. /\ r.pc = "sweep.abandon" => NotReady(assets', r.stale \ r.live)
       /\ r.pc = "sweep.objects" => NotReady(assets', r.stale)
  <2>1. r.stale \ r.live \subseteq 1..used.keys
    BY <1>4
  <2> QED BY <1>3, <1>4, <2>1 DEF Holds
<1>11. r.pc = "mark" => r.key \in objects'
  BY <1>1 DEF Holds
<1>12. r.pc \in {"sweep.abandon", "sweep.objects"} => r.stale \cap wx.media = {}
  BY DEF Holds
<1> QED BY <1>5, <1>6, <1>7, <1>8, <1>9, <1>10, <1>11, <1>12 DEF Holds

LEMMA CalmKeeps ==
  ASSUME TypeInv, MediaInv, Calm, SameArticle, NEW h \in Handlers, Others(h),
         Holds(handler'[h], wx', assets', objects', used'.keys)
  PROVE  MediaInv'
<1>1. /\ used.keys \in Nat /\ 1..used.keys \subseteq 1..used'.keys
      /\ used'.keys \in 1..used'.keys \/ used'.keys = used.keys
  BY Bounds DEF Calm, TypeInv, DataOK
<1>2. RowsInv'
  <2> SUFFICES ASSUME NEW i \in Items, NEW j \in Items, assets'[i] # None, assets'[j] # None
               PROVE  /\ assets'[i].key \in 1..used'.keys
                      /\ assets'[i].key = assets'[j].key => i = j
    BY DEF RowsInv
  <2>1. (OldRow(i) \/ NewRow(i)) /\ (OldRow(j) \/ NewRow(j))
    BY DEF Calm
  <2>2. ASSUME NEW k \in Items, OldRow(k)
        PROVE  assets[k] # None /\ assets'[k].key = assets[k].key /\ assets[k].key \in 1..used.keys
    BY <2>2 DEF OldRow, MediaInv, RowsInv
  <2>3. NewRow(i) /\ NewRow(j) => i = j
    BY DEF Calm
  <2>4. assets'[i].key \in 1..used'.keys
    BY <1>1, <2>1, <2>2 DEF NewRow
  <2>5. CASE OldRow(i) /\ OldRow(j)
    BY <2>2, <2>4, <2>5 DEF MediaInv, RowsInv
  <2>6. CASE OldRow(i) /\ NewRow(j)
    BY <1>1, <2>2, <2>4, <2>6 DEF NewRow
  <2>7. CASE NewRow(i) /\ OldRow(j)
    BY <1>1, <2>2, <2>4, <2>7 DEF NewRow
  <2> QED BY <2>1, <2>3, <2>4, <2>5, <2>6, <2>7
<1>3. ReadyAssetBacked'
  BY DEF MediaInv, ReadyAssetBacked, Calm, OldRow, NewRow
<1>4. ShownInv'
  <2>1. CASE wx' = wx
    <3>1. wx # None => wx.media \subseteq 1..used.keys
      BY DEF MediaInv, ShownInv
    <3>2. Public => Linked(assets', wx.media, Hashes(wx.bundle))
      <4> SUFFICES ASSUME Public, NEW i \in Items, assets'[i] # None, assets'[i].key \in wx.media
                   PROVE  Sha[i] \in Hashes(wx.bundle)
        BY DEF Linked
      <4>1. OldRow(i)
        BY <1>1, <3>1 DEF Calm, NewRow, Public
      <4> QED BY <4>1 DEF OldRow, MediaInv, ShownInv, Linked
    <3>3. Public => wx.media \subseteq objects'
      BY DEF MediaInv, ShownInv, Calm
    <3> QED BY <1>1, <2>1, <3>1, <3>2, <3>3 DEF ShownInv, Public
  <2>2. CASE wx' # None /\ wx'.media = {} /\ wx'.status = "assembling"
    BY <2>2 DEF ShownInv, Public
  <2> QED BY <2>1, <2>2 DEF SameArticle
<1>5. ASSUME NEW g \in Handlers
      PROVE  Holds(handler'[g], wx', assets', objects', used'.keys)
  <2>1. CASE g = h
    BY <2>1
  <2>2. CASE g # h
    <3>1. handler[g] \in Request /\ Prepared(handler[g])
      BY RequestType DEF TypeInv
    <3>2. Holds(handler[g], wx, assets, objects, used.keys) /\ ShownInv
      BY DEF MediaInv
    <3>3. handler'[g] = handler[g]
      BY <2>2 DEF Others
    <3> QED BY <3>1, <3>2, <3>3, CalmHolds
  <2> QED BY <2>1, <2>2
<1> QED BY <1>2, <1>3, <1>4, <1>5 DEF MediaInv

\* A request that relies on nothing of the media.
Plain(h) ==
  /\ Others(h)
  /\ handler'[h].pc \notin ReadPcs \cup {"mark", "sweep.select", "sweep.abandon", "sweep.objects"}
  /\ handler'[h].media \in {handler[h].media, {}}
  /\ handler'[h].stale \in {handler[h].stale, {}}

LEMMA PlainKeeps ==
  ASSUME TypeInv, MediaInv, Calm, SameArticle, NEW h \in Handlers, Plain(h)
  PROVE  MediaInv'
<1>1. used.keys \in Nat /\ 1..used.keys \subseteq 1..used'.keys
  BY Bounds DEF Calm, TypeInv, DataOK
<1>2. handler[h].media \cup handler[h].stale \subseteq 1..used.keys
  BY DEF MediaInv, Holds
<1>3. handler'[h].media \cup handler'[h].stale \subseteq 1..used'.keys
  BY <1>1, <1>2 DEF Plain
<1>4. Holds(handler'[h], wx', assets', objects', used'.keys)
  BY <1>3 DEF Plain, Holds, ReadPcs
<1> QED BY <1>4, CalmKeeps DEF Plain

LEMMA AnswersPlain ==
  ASSUME TypeInv, NEW h \in Handlers, NEW answer \in {"ok", "rejected"}, Answers(h, answer)
  PROVE  Plain(h)
<1>1. handler \in [Handlers -> Request]
  BY DEF TypeInv, RequestsInv
<1> QED BY <1>1 DEF Answers, Plain, Others, IdleRequest, ReadPcs

LEMMA GoPlain ==
  ASSUME TypeInv, NEW h \in Handlers, NEW pc, Go(h, pc),
         pc \notin ReadPcs \cup {"mark", "sweep.select", "sweep.abandon", "sweep.objects"}
  PROVE  Plain(h)
<1>1. handler \in [Handlers -> Request] /\ handler[h] \in Request
  BY DEF TypeInv, RequestsInv
<1> QED BY <1>1 DEF Go, Plain, Others, Request

\* What leaves rows and objects alone, and what takes the rows only further from ready.
LEMMA SameCalm ==
  ASSUME TypeInv, UNCHANGED assets, objects \subseteq objects', used'.keys = used.keys
  PROVE  Calm
<1>1. used.keys \in Nat
  BY Bounds DEF TypeInv, DataOK
<1> QED BY <1>1 DEF Calm, OldRow, NewRow

LEMMA StatusCalm ==
  ASSUME TypeInv, NEW keys, NEW states, NEW status, status # "ready",
         assets' = SetStatus(keys, states, status), UNCHANGED <<objects, used>>
  PROVE  Calm
<1>1. used.keys \in Nat
  BY Bounds DEF TypeInv, DataOK
<1>2. ASSUME NEW i \in Items, assets'[i] # None PROVE OldRow(i)
  BY <1>2 DEF SetStatus, OldRow, TypeInv, DataOK, Asset
<1> QED BY <1>1, <1>2 DEF Calm, OldRow, NewRow

LEMMA OneStatusCalm ==
  ASSUME TypeInv, NEW h \in Handlers, NEW states, RowIs(h, states), NEW status, status # "ready",
         assets' = [assets EXCEPT ![handler[h].item].status = status], UNCHANGED <<objects, used>>
  PROVE  Calm
<1>1. used.keys \in Nat
  BY Bounds DEF TypeInv, DataOK
<1>2. ASSUME NEW i \in Items, assets'[i] # None PROVE OldRow(i)
  BY <1>2, RowType DEF RowIs, OldRow, TypeInv, DataOK, Asset
<1> QED BY <1>1, <1>2 DEF Calm, OldRow, NewRow

LEMMA InsertCalm ==
  ASSUME TypeInv, RowsInv, NEW h \in Handlers, NEW i \in Items, Insert(h, i), UNCHANGED objects
  PROVE  Calm
<1>1. used.keys \in Nat /\ used'.keys = used.keys + 1
  BY Bounds DEF TypeInv, DataOK, Insert
<1>2. assets'[i].key = used.keys + 1 /\ assets'[i].status = "pending"
  BY DEF Insert, TypeInv, DataOK
<1>3. \A j \in Items \ {i} : assets'[j] = assets[j]
  BY DEF Insert, TypeInv, DataOK
<1>4. \A j \in Items \ {i} : assets'[j] # None => OldRow(j) /\ ~NewRow(j)
  BY <1>1, <1>3 DEF OldRow, NewRow, RowsInv
<1> QED BY <1>1, <1>2, <1>4 DEF Calm, NewRow

\* The steps of members, of submits and of uploads.
LEMMA BeginMedia ==
  ASSUME TypeInv, MediaInv, NEW h \in Handlers,
         \/ \E op \in {"submit", "uploads"} : StartSubmit(h, op)
         \/ \E p \in plans : StartFinalize(h, p)
         \/ \E p \in plans, i \in Items : StartEnsure(h, p, i)
         \/ Forget(h)
  PROVE  MediaInv'
<1>1. handler \in [Handlers -> Request]
  BY DEF TypeInv, RequestsInv
<1>2. ASSUME NEW r, handler' = [handler EXCEPT ![h] = r], r.media = {}, r.stale = {},
             r.pc \in {"submit.read", "ensure.owner", "fin.context", "idle"}
      PROVE  Plain(h)
  BY <1>1, <1>2 DEF Plain, Others, ReadPcs
<1>3. CASE \E op \in {"submit", "uploads"} : StartSubmit(h, op)
  <2>1. PICK op \in {"submit", "uploads"} : StartSubmit(h, op)
    BY <1>3
  <2> DEFINE r == [IdleRequest EXCEPT !.pc = "submit.read", !.op = op, !.draft = draft]
  <2>2. r.media = {} /\ r.stale = {} /\ r.pc = "submit.read"
    BY DEF IdleRequest
  <2>3. handler' = [handler EXCEPT ![h] = r] /\ UNCHANGED <<wx, assets, objects, used>>
    BY <2>1 DEF StartSubmit, Serve
  <2> HIDE DEF r
  <2>4. Plain(h)
    BY <1>2, <2>2, <2>3
  <2> QED BY <2>3, <2>4, SameCalm, PlainKeeps DEF SameArticle
<1>4. CASE \E p \in plans : StartFinalize(h, p)
  <2>1. PICK p \in plans : StartFinalize(h, p)
    BY <1>4
  <2> DEFINE r == [IdleRequest EXCEPT !.pc = "fin.context", !.op = "finalize",
                                      !.shell = p.shell, !.draft = p.draft]
  <2>2. r.media = {} /\ r.stale = {} /\ r.pc = "fin.context"
    BY DEF IdleRequest
  <2>3. handler' = [handler EXCEPT ![h] = r] /\ UNCHANGED <<wx, assets, objects, used>>
    BY <2>1 DEF StartFinalize, Serve
  <2> HIDE DEF r
  <2>4. Plain(h)
    BY <1>2, <2>2, <2>3
  <2> QED BY <2>3, <2>4, SameCalm, PlainKeeps DEF SameArticle
<1>5. CASE \E p \in plans, i \in Items : StartEnsure(h, p, i)
  <2>1. PICK p \in plans, i \in Items : StartEnsure(h, p, i)
    BY <1>5
  <2> DEFINE r == [IdleRequest EXCEPT !.pc = "ensure.owner", !.op = "ensure",
                                      !.shell = p.shell, !.draft = p.draft, !.item = i]
  <2>2. r.media = {} /\ r.stale = {} /\ r.pc = "ensure.owner"
    BY DEF IdleRequest
  <2>3. handler' = [handler EXCEPT ![h] = r] /\ UNCHANGED <<wx, assets, objects, used>>
    BY <2>1 DEF StartEnsure, Serve
  <2> HIDE DEF r
  <2>4. Plain(h)
    BY <1>2, <2>2, <2>3
  <2> QED BY <2>3, <2>4, SameCalm, PlainKeeps DEF SameArticle
<1>6. CASE Forget(h)
  <2>1. Plain(h)
    BY <1>1, <1>6 DEF Forget, IdleRequest, Plain, Others, ReadPcs
  <2> QED BY <1>6, <2>1, SameCalm, PlainKeeps DEF SameArticle, Forget
<1> QED BY <1>3, <1>4, <1>5, <1>6

LEMMA SubmitMedia ==
  ASSUME TypeInv, MediaInv, NEW h \in Handlers, Submits(h)
  PROVE  MediaInv'
<1>1. handler \in [Handlers -> Request] /\ handler[h] \in Request
  BY DEF TypeInv, RequestsInv
<1>2. ASSUME NEW s, Accept(h, s) PROVE Plain(h)
  BY <1>1, <1>2 DEF Accept, Plain, Others, Request, ReadPcs
<1>3. Plain(h)
  BY <1>2, AnswersPlain, GoPlain DEF Submits, SubmitRead, SubmitCreate, ReadPcs
<1>4. UNCHANGED <<assets, objects>> /\ used'.keys = used.keys
  BY DEF Submits, SubmitRead, SubmitCreate, TypeInv, DataOK
<1>5. SameArticle
  <2>1. CASE wx' = wx
    BY <2>1 DEF SameArticle
  <2>2. CASE wx = None /\ wx' = NewShell(handler[h].draft)
    <3>1. Apart(h)
      BY SubmitEffect DEF Submits
    <3> QED BY <2>1, <2>2, <3>1 DEF Apart, SameArticle, NewShell
  <2> QED BY <2>1, <2>2 DEF Submits, SubmitRead, SubmitCreate
<1> QED BY <1>3, <1>4, <1>5, SameCalm, PlainKeeps

LEMMA UploadsMedia ==
  ASSUME TypeInv, MediaInv, NEW h \in Handlers,
         \/ \E i \in Items : UploadsRow(h, i)
         \/ UploadsRetry(h) \/ UploadsDone(h)
  PROVE  MediaInv'
<1>1. handler \in [Handlers -> Request] /\ handler[h] \in Request
  BY DEF TypeInv, RequestsInv
<1>2. ASSUME NEW i \in Items, UploadsRow(h, i) PROVE MediaInv'
  <2>1. Plain(h)
    <3>1. CASE handler' = [handler EXCEPT ![h].todo = @ \ {i}]
      BY <1>1, <1>2, <3>1 DEF Plain, Others, Request, UploadsRow, At, ReadPcs
    <3>2. CASE handler' = [handler EXCEPT ![h].pc = "uploads.retry", ![h].item = i,
                                          ![h].key = assets[i].key]
      BY <1>1, <3>2 DEF Plain, Others, Request, ReadPcs
    <3> QED BY <1>2, <3>1, <3>2, AnswersPlain DEF UploadsRow
  <2>2. Calm
    BY <1>2, SameCalm, InsertCalm DEF UploadsRow, MediaInv
  <2> QED BY <1>2, <2>1, <2>2, PlainKeeps DEF UploadsRow, SameArticle
<1>3. CASE UploadsRetry(h)
  <2>1. Plain(h)
    <3>1. CASE handler' = [handler EXCEPT ![h].pc = "uploads.row",
                                          ![h].todo = @ \ {handler[h].item},
                                          ![h].item = None, ![h].key = None]
      BY <1>1, <3>1 DEF Plain, Others, Request, ReadPcs
    <3> QED BY <1>3, <3>1, AnswersPlain DEF UploadsRetry
  <2>2. Calm
    BY <1>3, SameCalm, OneStatusCalm DEF UploadsRetry
  <2> QED BY <1>3, <2>1, <2>2, PlainKeeps DEF UploadsRetry, SameArticle
<1>4. CASE UploadsDone(h)
  BY <1>4, AnswersPlain, SameCalm, PlainKeeps DEF UploadsDone, SameArticle
<1> QED BY <1>2, <1>3, <1>4

\* The steps of ensure_publication_asset.
LEMMA EnsureMedia ==
  ASSUME TypeInv, MediaInv, NEW h \in Handlers,
         \/ At(h, "ensure.owner") /\ ReadOwner(h)
         \/ EnsureRow(h) \/ CopyRow(h) \/ EnsureRetry(h) \/ Copy(h) \/ Verify(h) \/ OssFails(h)
  PROVE  MediaInv'
<1>1. handler \in [Handlers -> Request] /\ handler[h] \in Request
  BY DEF TypeInv, RequestsInv
<1>2. ASSUME NEW row, NEW fill \in {"verify", "copy"}, Resume(h, row, fill)
      PROVE  Plain(h)
  <2>1. ASSUME NEW pc \in {"ensure.retry", "verify", "copy"},
               handler' = [handler EXCEPT ![h].pc = pc, ![h].key = row.key]
        PROVE  Plain(h)
    BY <1>1, <2>1 DEF Plain, Others, Request, ReadPcs
  <2> QED BY <1>2, <2>1, AnswersPlain DEF Resume
<1>3. CASE At(h, "ensure.owner") /\ ReadOwner(h)
  <2>1. Plain(h)
    BY <1>3, AnswersPlain, GoPlain DEF ReadOwner, At, ReadPcs
  <2> QED BY <1>3, <2>1, SameCalm, PlainKeeps DEF ReadOwner, SameArticle
<1>4. CASE EnsureRow(h)
  <2>1. Plain(h)
    BY <1>2, <1>4, AnswersPlain, GoPlain DEF EnsureRow, ReadPcs
  <2> QED BY <1>4, <2>1, SameCalm, PlainKeeps DEF EnsureRow, SameArticle
<1>5. CASE CopyRow(h)
  <2>1. CASE /\ Insert(h, handler[h].item)
             /\ handler' = [handler EXCEPT ![h].pc = "copy", ![h].key = used.keys + 1]
    <3>1. handler[h].item \in Items
      BY <1>5, RequestType DEF TypeInv, CopyRow, At, Prepared
    <3>2. Plain(h)
      BY <1>1, <2>1 DEF Plain, Others, Request, ReadPcs
    <3>3. Calm
      BY <1>5, <2>1, <3>1, InsertCalm DEF CopyRow, MediaInv
    <3> QED BY <1>5, <3>2, <3>3, PlainKeeps DEF CopyRow, SameArticle
  <2>2. CASE UNCHANGED <<assets, used>> /\ (Answers(h, "rejected") \/ \E row : Resume(h, row, "copy"))
    <3>1. Plain(h)
      BY <1>2, <2>2, AnswersPlain
    <3> QED BY <1>5, <2>2, <3>1, SameCalm, PlainKeeps DEF CopyRow, SameArticle
  <2> QED BY <1>5, <2>1, <2>2 DEF CopyRow
<1>6. CASE EnsureRetry(h)
  <2>1. Plain(h)
    BY <1>6, AnswersPlain, GoPlain DEF EnsureRetry, ReadPcs
  <2>2. Calm
    BY <1>6, SameCalm, OneStatusCalm DEF EnsureRetry
  <2> QED BY <1>6, <2>1, <2>2, PlainKeeps DEF EnsureRetry, SameArticle
<1>7. ASSUME Go(h, "mark"), UNCHANGED <<wx, assets, used>>, objects \subseteq objects',
             handler[h].key \in objects'
      PROVE  MediaInv'
  <2>1. /\ Others(h) /\ handler'[h].pc = "mark" /\ handler'[h].key = handler[h].key
        /\ handler'[h].media = handler[h].media /\ handler'[h].stale = handler[h].stale
    BY <1>1, <1>7 DEF Go, Others, Request
  <2>2. Holds(handler[h], wx, assets, objects, used.keys)
    BY DEF MediaInv
  <2>3. Holds(handler'[h], wx', assets', objects', used'.keys)
    BY <1>7, <2>1, <2>2 DEF Holds, ReadPcs
  <2> QED BY <1>7, <2>1, <2>3, SameCalm, CalmKeeps DEF SameArticle
<1>8. CASE Copy(h)
  BY <1>7, <1>8 DEF Copy
<1>9. CASE Verify(h)
  <2>1. CASE handler[h].key \in objects /\ Go(h, "mark")
    BY <1>7, <1>9, <2>1 DEF Verify
  <2>2. CASE Answers(h, "rejected")
    BY <1>9, <2>2, AnswersPlain, SameCalm, PlainKeeps DEF Verify, SameArticle
  <2> QED BY <1>9, <2>1, <2>2 DEF Verify
<1>10. CASE OssFails(h)
  <2>1. Plain(h)
    BY <1>10, AnswersPlain DEF OssFails
  <2>2. Calm
    BY <1>10, SameCalm, OneStatusCalm DEF OssFails
  <2> QED BY <1>10, <2>1, <2>2, PlainKeeps DEF OssFails, SameArticle
<1> QED BY <1>3, <1>4, <1>5, <1>6, <1>8, <1>9, <1>10

\* A row is marked ready: its object is there, and nobody sweeps meanwhile.
LEMMA MarkMedia ==
  ASSUME TypeInv, MediaInv, OneCall, NoDelete, NEW h \in Handlers, MarkReady(h)
  PROVE  MediaInv'
<1>1. /\ handler \in [Handlers -> Request] /\ Prepared(handler[h]) /\ used.keys \in Nat
      /\ assets \in [Items -> Asset \cup {None}]
  BY RequestType, Bounds DEF TypeInv, RequestsInv, DataOK
<1>2. Plain(h) /\ UNCHANGED <<wx, objects, used>>
  BY AnswersPlain DEF MarkReady
<1>3. CASE UNCHANGED assets
  BY <1>2, <1>3, SameCalm, PlainKeeps DEF SameArticle
<1>4. CASE RowIs(h, {"pending"}) /\ assets' = [assets EXCEPT ![handler[h].item].status = "ready"]
  <2> DEFINE i == handler[h].item
  <2>1. i \in Items /\ handler[h].op = "ensure" /\ handler[h].pc = "mark"
    BY <1>1 DEF Prepared, MarkReady, At
  <2>2. assets[i] # None /\ assets[i].key = handler[h].key
    BY <1>4, <2>1, RowType DEF RowIs
  <2>3. assets[i].key \in objects
    BY <2>1, <2>2 DEF MediaInv, Holds
  <2>4. \A j \in Items : /\ assets'[j] # None => assets[j] # None /\ assets'[j].key = assets[j].key
                         /\ j # i => assets'[j] = assets[j]
    BY <1>1, <1>4, <2>1, <2>2 DEF Asset
  <2>5. RowsInv'
    BY <1>2, <2>4 DEF MediaInv, RowsInv
  <2>6. ReadyAssetBacked'
    BY <1>2, <2>2, <2>3, <2>4 DEF MediaInv, ReadyAssetBacked
  <2>7. \A media, shas : Linked(assets, media, shas) => Linked(assets', media, shas)
    BY <2>4 DEF Linked
  <2>8. ShownInv'
    BY <1>2, <2>7 DEF MediaInv, ShownInv, Public
  <2>9. ASSUME NEW g \in Handlers PROVE Holds(handler'[g], wx, assets', objects, used.keys)
    <3>1. CASE g = h
      <4>1. handler[h].media \cup handler[h].stale \subseteq 1..used.keys
        BY DEF MediaInv, Holds
      <4>2. handler'[h].media \cup handler'[h].stale \subseteq 1..used.keys
        BY <1>2, <4>1 DEF Plain
      <4> QED BY <1>2, <3>1, <4>2 DEF Plain, Holds, ReadPcs
    <3>2. CASE g # h
      <4>1. handler'[g] = handler[g] /\ Holds(handler[g], wx, assets, objects, used.keys)
        BY <1>2, <3>2 DEF Plain, Others, MediaInv
      <4>2. Prepared(handler[g]) /\ handler[g].op \notin {"ensure", "finalize", "delete"}
        BY <2>1, <3>2, RequestType DEF TypeInv, OneCall, NoDelete
      <4>3. handler[g].pc \notin {"sweep.abandon", "sweep.objects"}
        BY <4>2 DEF Prepared
      <4> QED BY <2>7, <4>1, <4>3 DEF Holds
    <3> QED BY <3>1, <3>2
  <2> QED BY <1>2, <2>5, <2>6, <2>8, <2>9 DEF MediaInv
<1> QED BY <1>3, <1>4 DEF MarkReady

\* The steps of finalize_publication up to the update of the row.
LEMMA ReadMedia ==
  ASSUME TypeInv, MediaInv, NEW h \in Handlers,
         \/ At(h, "fin.owner") /\ ReadOwner(h)
         \/ FinContext(h) \/ FinConflict(h) \/ HandlerDies(h)
  PROVE  MediaInv'
<1>1. handler \in [Handlers -> Request] /\ handler[h] \in Request
  BY DEF TypeInv, RequestsInv
<1>2. CASE FinContext(h) \/ FinConflict(h) \/ HandlerDies(h)
  <2>1. Plain(h)
    BY <1>2, AnswersPlain, GoPlain DEF FinContext, FinConflict, HandlerDies, ReadPcs
  <2> QED BY <1>2, <2>1, SameCalm, PlainKeeps DEF FinContext, FinConflict, HandlerDies, SameArticle
<1>3. CASE At(h, "fin.owner") /\ ReadOwner(h)
  <2>1. UNCHANGED <<wx, assets, objects, used>>
    BY <1>3 DEF ReadOwner
  <2>2. CASE Answers(h, "rejected")
    BY <2>1, <2>2, AnswersPlain, SameCalm, PlainKeeps DEF SameArticle
  <2>3. CASE handler' = [handler EXCEPT ![h].pc = "fin.assets", ![h].owner = wx]
    <3>1. /\ Others(h) /\ handler'[h].pc = "fin.assets" /\ handler'[h].owner = wx
          /\ handler'[h].media = handler[h].media /\ handler'[h].stale = handler[h].stale
      BY <1>1, <2>3 DEF Others, Request
    <3>2. handler[h].media \cup handler[h].stale \subseteq 1..used.keys
      BY DEF MediaInv, Holds
    <3>3. Holds(handler'[h], wx', assets', objects', used'.keys)
      BY <2>1, <3>1, <3>2 DEF Holds
    <3> QED BY <2>1, <3>1, <3>3, SameCalm, CalmKeeps DEF SameArticle
  <2> QED BY <1>3, <2>2, <2>3 DEF ReadOwner, At
<1> QED BY <1>2, <1>3

\* The assets a finalize chooses are in the store, with the content it keeps.
LEMMA ChooseMedia ==
  ASSUME TypeInv, MediaInv, NEW h \in Handlers, FinAssets(h)
  PROVE  MediaInv'
<1> DEFINE owner == handler[h].owner
           same  == AlreadyPublic(h)
           keep  == {Sha[i] : i \in Bundle(h)}
           pc    == IF same THEN "sweep.select"
                    ELSE IF owner.status = "assembling" THEN "fin.pending" ELSE "fin.update"
<1>1. /\ handler \in [Handlers -> Request] /\ handler[h] \in Request /\ Prepared(handler[h])
      /\ handler[h].pc = "fin.assets"
  BY RequestType DEF TypeInv, RequestsInv, FinAssets, At
<1>2. UNCHANGED <<wx, assets, objects, used>>
  BY DEF FinAssets
<1>3. CASE Answers(h, "rejected")
  BY <1>2, <1>3, AnswersPlain, SameCalm, PlainKeeps DEF SameArticle
<1>4. owner = wx /\ wx \in Article /\ wx # None
  <2>1. owner = wx
    BY <1>1 DEF MediaInv, Holds, ReadPcs
  <2>2. owner \in Article
    BY <1>1 DEF Prepared
  <2> QED BY <2>1, <2>2, NullAssumption
<1>5. ASSUME NEW serves \in [keep -> ReadyRows(h)], \A c \in keep : Sha[serves[c]] = c,
             NEW media, media = IF same THEN {} ELSE {assets[serves[c]].key : c \in keep},
             handler' = [handler EXCEPT ![h].pc = pc, ![h].keep = keep, ![h].media = media]
      PROVE  MediaInv'
  <2>1. /\ handler'[h].pc = pc /\ handler'[h].keep = keep /\ handler'[h].media = media
        /\ handler'[h].stale = handler[h].stale /\ handler'[h].draft = handler[h].draft /\ Others(h)
    BY <1>1, <1>5 DEF Request, Others
  <2>2. \A c \in keep : /\ serves[c] \in Items /\ assets[serves[c]] # None
                        /\ assets[serves[c]].status = "ready"
    BY <1>5, RowType DEF ReadyRows
  <2>3. media \subseteq objects /\ media \subseteq 1..used.keys
    <3>1. \A c \in keep : assets[serves[c]].key \in objects /\ assets[serves[c]].key \in 1..used.keys
      BY <2>2 DEF MediaInv, ReadyAssetBacked, RowsInv
    <3>2. media = {} \/ media = {assets[serves[c]].key : c \in keep}
      BY <1>5
    <3> HIDE DEF keep
    <3> QED BY <3>1, <3>2
  <2>4. Linked(assets, media, keep)
    <3> SUFFICES ASSUME NEW i \in Items, assets[i] # None, assets[i].key \in media
                 PROVE  Sha[i] \in keep
      BY DEF Linked
    <3>1. PICK c \in keep : assets[i].key = assets[serves[c]].key
      BY <1>5
    <3>2. i = serves[c]
      BY <2>2, <3>1 DEF MediaInv, RowsInv
    <3> QED BY <1>5, <3>1, <3>2
  <2>5. keep = Hashes(Document[handler'[h].draft])
    BY <2>1 DEF Hashes, Bundle
  <2>6. same => Linked(assets, wx.media, keep)
    <3>1. same => Public /\ Hashes(wx.bundle) = keep
      BY <1>4 DEF AlreadyPublic, Public, Hashes
    <3> QED BY <3>1 DEF MediaInv, ShownInv
  <2>7. handler[h].stale \subseteq 1..used.keys
    BY DEF MediaInv, Holds
  <2>8. /\ pc \in {"sweep.select", "fin.pending", "fin.update"}
        /\ pc = "sweep.select" => same
    OBVIOUS
  <2>9. pc \in ReadPcs => handler'[h].owner = wx
    BY <1>1, <1>4, <1>5 DEF Request
  <2> HIDE DEF pc, keep, same
  <2>10. Holds(handler'[h], wx, assets, objects, used.keys)
    BY <1>4, <2>1, <2>3, <2>4, <2>5, <2>6, <2>7, <2>8, <2>9 DEF Holds
  <2> QED BY <1>2, <2>1, <2>10, SameCalm, CalmKeeps DEF SameArticle
<1>6. \/ Answers(h, "rejected")
      \/ \E serves \in [keep -> ReadyRows(h)] :
           /\ \A c \in keep : Sha[serves[c]] = c
           /\ handler' = [handler EXCEPT
                ![h].pc = pc, ![h].keep = keep,
                ![h].media = IF same THEN {} ELSE {assets[serves[c]].key : c \in keep}]
  BY DEF FinAssets
<1> HIDE DEF pc, keep, same
<1> QED BY <1>3, <1>5, <1>6

LEMMA PendingMedia ==
  ASSUME TypeInv, MediaInv, NEW h \in Handlers, FinPending(h)
  PROVE  MediaInv'
<1>1. /\ handler \in [Handlers -> Request] /\ handler[h] \in Request
      /\ used.keys \in Nat
  BY Bounds DEF TypeInv, RequestsInv, DataOK
<1>2. UNCHANGED <<wx, objects, used>> /\ Go(h, "fin.update") /\ handler[h].pc = "fin.pending"
  BY DEF FinPending, At
<1>3. Calm
  BY SameCalm, StatusCalm DEF FinPending
<1>4. /\ Others(h) /\ handler'[h] = [handler[h] EXCEPT !.pc = "fin.update"]
  BY <1>1, <1>2 DEF Go, Others
<1>5. Holds(handler[h], wx, assets, objects, used.keys)
  BY DEF MediaInv
<1>6. Linked(assets', handler[h].media, handler[h].keep)
  <2>1. handler[h].media \subseteq 1..used.keys /\ Linked(assets, handler[h].media, handler[h].keep)
    BY <1>2, <1>5 DEF Holds
  <2> QED BY <1>1, <1>3, <2>1 DEF Linked, Calm, OldRow, NewRow
<1>7. Holds(handler'[h], wx', assets', objects', used'.keys)
  <2> DEFINE s == handler'[h]
  <2>1. /\ s.pc = "fin.update" /\ s.owner = handler[h].owner /\ s.media = handler[h].media
        /\ s.keep = handler[h].keep /\ s.stale = handler[h].stale /\ s.draft = handler[h].draft
    BY <1>1, <1>4 DEF Request
  <2> HIDE DEF s
  <2>2. Holds(s, wx', assets', objects', used'.keys)
    BY <1>2, <1>5, <1>6, <2>1 DEF Holds, ReadPcs
  <2> QED BY <2>2 DEF s
<1> QED BY <1>2, <1>3, <1>4, <1>7, CalmKeeps DEF SameArticle

\* The row links to the chosen objects, and nobody else has read or sweeps it.
LEMMA UpdateMedia ==
  ASSUME TypeInv, MediaInv, OneCall, NoDelete, NEW h \in Handlers, FinUpdate(h)
  PROVE  MediaInv'
<1>1. /\ handler \in [Handlers -> Request] /\ handler[h] \in Request /\ Prepared(handler[h])
      /\ handler[h].pc = "fin.update"
  BY RequestType DEF TypeInv, RequestsInv, FinUpdate, At
<1>2. UNCHANGED <<assets, objects, used>>
  BY DEF FinUpdate
<1>3. CASE UNCHANGED wx /\ (Answers(h, "rejected") \/ Go(h, "fin.conflict"))
  <2>1. Plain(h)
    BY <1>3, AnswersPlain, GoPlain DEF ReadPcs
  <2> QED BY <1>2, <1>3, <2>1, SameCalm, PlainKeeps DEF SameArticle
<1>4. CASE /\ RowUnchanged(h) /\ NextRevision(handler[h].owner) <= MaxRevision
           /\ wx' = [wx EXCEPT !.status = "ready", !.finalized = TRUE,
                               !.revision = NextRevision(handler[h].owner),
                               !.draft = handler[h].draft,
                               !.bundle = Bundle(h), !.media = handler[h].media]
           /\ Go(h, "sweep.select")
  <2>1. /\ Others(h) /\ handler'[h].pc = "sweep.select" /\ handler'[h].keep = handler[h].keep
        /\ handler'[h].media = handler[h].media /\ handler'[h].stale = handler[h].stale
    BY <1>1, <1>4 DEF Go, Others, Request
  <2>2. /\ handler[h].media \subseteq objects /\ handler[h].media \subseteq 1..used.keys
        /\ Linked(assets, handler[h].media, handler[h].keep)
        /\ handler[h].keep = Hashes(Bundle(h)) /\ handler[h].stale \subseteq 1..used.keys
    BY <1>1 DEF MediaInv, Holds, Bundle
  <2>3. wx # None /\ wx \in Article
    BY <1>4 DEF RowUnchanged, Owned, TypeInv, DataOK
  <2>4. wx'.media = handler[h].media /\ wx'.bundle = Bundle(h)
    BY <1>4, <2>3 DEF Article
  <2>5. wx' # None
    BY <1>1, <1>4, UpdatedType, NullAssumption DEF At
  <2>6. ShownInv'
    BY <1>2, <2>2, <2>4 DEF ShownInv
  <2>7. Holds(handler'[h], wx', assets', objects', used'.keys)
    BY <1>2, <2>1, <2>2, <2>4, <2>5 DEF Holds, ReadPcs
  <2>8. ASSUME NEW g \in Handlers, g # h
        PROVE  Holds(handler'[g], wx', assets', objects', used'.keys)
    <3>1. handler'[g] = handler[g] /\ Holds(handler[g], wx, assets, objects, used.keys)
      BY <2>1, <2>8 DEF Others, MediaInv
    <3>2. handler[h].op = "finalize"
      BY <1>1 DEF Prepared
    <3>3. Prepared(handler[g]) /\ handler[g].op \notin {"ensure", "finalize", "delete"}
      BY <2>8, <3>2, RequestType DEF TypeInv, OneCall, NoDelete
    <3>4. handler[g].pc \notin ReadPcs \cup SweepPcs
      BY <3>3 DEF Prepared, ReadPcs, SweepPcs
    <3> QED BY <1>2, <3>1, <3>4 DEF Holds, ReadPcs, SweepPcs
  <2>9. RowsInv' /\ ReadyAssetBacked'
    BY <1>2 DEF MediaInv, RowsInv, ReadyAssetBacked
  <2> QED BY <2>6, <2>7, <2>8, <2>9 DEF MediaInv
<1> QED BY <1>3, <1>4 DEF FinUpdate

\* The sweep selects no object of the article on show, and removes none whose row
\* is ready.
LEMMA SelectMedia ==
  ASSUME TypeInv, MediaInv, NEW h \in Handlers, SweepSelect(h)
  PROVE  MediaInv'
<1> DEFINE stale == Unreferenced(h)
           live  == {i \in stale : assets[i].status # "abandoned"}
           pc    == IF live = {} THEN "sweep.objects" ELSE "sweep.abandon"
           staleKeys == {assets[i].key : i \in stale}
           liveKeys  == {assets[i].key : i \in live}
<1>1. handler \in [Handlers -> Request] /\ handler[h] \in Request /\ handler[h].pc = "sweep.select"
  BY DEF TypeInv, RequestsInv, SweepSelect, At
<1>2. UNCHANGED <<wx, assets, objects, used>>
  BY DEF SweepSelect
<1>3. handler' = [handler EXCEPT ![h].pc = pc, ![h].stale = staleKeys, ![h].live = liveKeys]
  BY DEF SweepSelect
<1>4. \A i \in stale : i \in Items /\ assets[i] # None /\ Sha[i] \notin handler[h].keep
  BY RowType DEF Unreferenced
<1>5. staleKeys \subseteq 1..used.keys
  BY <1>4 DEF MediaInv, RowsInv
<1>6. wx # None /\ Linked(assets, wx.media, handler[h].keep) /\ handler[h].media \subseteq 1..used.keys
  BY <1>1 DEF MediaInv, Holds
<1>7. staleKeys \cap wx.media = {}
  BY <1>4, <1>6 DEF Linked
<1>8. ASSUME NEW i \in Items, assets[i] # None, assets[i].key \in staleKeys,
             assets[i].key \notin liveKeys
      PROVE  assets[i].status # "ready"
  <2>1. PICK j \in stale : assets[j].key = assets[i].key
    BY <1>8
  <2>2. i = j
    BY <1>4, <1>8, <2>1 DEF MediaInv, RowsInv
  <2> QED BY <1>8, <2>1, <2>2
<1>9. NotReady(assets, staleKeys \ liveKeys)
  BY <1>8 DEF NotReady
<1>10. pc = "sweep.objects" => NotReady(assets, staleKeys)
  BY <1>8 DEF NotReady
<1> HIDE DEF pc, staleKeys, liveKeys
<1>11. /\ Others(h) /\ handler'[h].pc = pc /\ handler'[h].media = handler[h].media
       /\ handler'[h].stale = staleKeys /\ handler'[h].live = liveKeys
  BY <1>1, <1>3 DEF Others, Request
<1>12. pc \in {"sweep.objects", "sweep.abandon"}
  BY DEF pc
<1>13. Holds(handler'[h], wx, assets, objects, used.keys)
  BY <1>5, <1>6, <1>7, <1>9, <1>10, <1>11, <1>12 DEF Holds, ReadPcs
<1> QED BY <1>2, <1>11, <1>13, SameCalm, CalmKeeps DEF SameArticle

LEMMA AbandonMedia ==
  ASSUME TypeInv, MediaInv, NEW h \in Handlers, SweepAbandon(h)
  PROVE  MediaInv'
<1> DEFINE r == handler[h]
           s == handler'[h]
<1>1. handler \in [Handlers -> Request] /\ r \in Request /\ r.pc = "sweep.abandon"
  BY DEF TypeInv, RequestsInv, SweepAbandon, At
<1>2. UNCHANGED <<wx, objects, used>> /\ assets' = SetStatus(r.live, AssetStates, "abandoned")
  BY DEF SweepAbandon
<1>3. Calm
  BY <1>2, StatusCalm
<1>4. Others(h) /\ s.pc = "sweep.objects" /\ s.media = r.media /\ s.stale = r.stale
  BY <1>1 DEF SweepAbandon, Go, Others, Request
<1>5. /\ r.media \cup r.stale \subseteq 1..used.keys /\ NotReady(assets, r.stale \ r.live)
      /\ wx # None /\ r.stale \cap wx.media = {}
  BY <1>1 DEF MediaInv, Holds
<1>6. NotReady(assets', r.stale)
  <2> SUFFICES ASSUME NEW i \in Items, assets'[i] # None, assets'[i].key \in r.stale
               PROVE  assets'[i].status # "ready"
    BY DEF NotReady
  <2>1. assets[i] \in Asset
    BY <1>2 DEF SetStatus, TypeInv, DataOK
  <2>2. assets'[i].key = assets[i].key /\ assets[i] # None
    BY <1>2, <2>1 DEF SetStatus, Asset
  <2>3. CASE assets[i].key \in r.live
    BY <1>2, <2>1, <2>2, <2>3 DEF SetStatus, Asset
  <2>4. CASE assets[i].key \notin r.live
    BY <1>2, <1>5, <2>2, <2>4 DEF SetStatus, NotReady
  <2> QED BY <2>3, <2>4
<1> HIDE DEF r, s
<1>7. Holds(s, wx, assets', objects, used.keys)
  BY <1>4, <1>5, <1>6 DEF Holds, ReadPcs
<1>8. Holds(s, wx', assets', objects', used'.keys)
  BY <1>2, <1>7
<1> QED BY <1>2, <1>3, <1>4, <1>8, CalmKeeps DEF SameArticle, s

LEMMA RemoveMedia ==
  ASSUME TypeInv, MediaInv, OneCall, NoDelete, NEW h \in Handlers, SweepObjects(h)
  PROVE  MediaInv'
<1> DEFINE r == handler[h]
           s == handler'[h]
<1>1. /\ handler \in [Handlers -> Request] /\ r \in Request /\ r.pc = "sweep.objects"
      /\ r.op = "finalize"
  BY RequestType DEF TypeInv, RequestsInv, SweepObjects, At, Prepared, NoDelete
<1>2. UNCHANGED <<wx, assets, used>> /\ objects' = objects \ r.stale
  BY DEF SweepObjects
<1>3. Others(h) /\ s.pc = "sweep.rows" /\ s.media = r.media /\ s.stale = r.stale
  BY <1>1 DEF SweepObjects, Go, Others, Request
<1>4. /\ r.media \cup r.stale \subseteq 1..used.keys /\ NotReady(assets, r.stale)
      /\ r.stale \cap wx.media = {}
  BY <1>1 DEF MediaInv, Holds
<1>5. RowsInv' /\ ReadyAssetBacked'
  BY <1>2, <1>4 DEF MediaInv, RowsInv, ReadyAssetBacked, NotReady
<1>6. ShownInv'
  BY <1>2, <1>4 DEF MediaInv, ShownInv, Public
<1>7. Holds(s, wx, assets, objects', used.keys)
  BY <1>3, <1>4 DEF Holds, ReadPcs
<1>8. ASSUME NEW g \in Handlers, g # h
      PROVE  Holds(handler'[g], wx, assets, objects', used.keys)
  <2>1. handler'[g] = handler[g] /\ Holds(handler[g], wx, assets, objects, used.keys)
    BY <1>3, <1>8 DEF Others, MediaInv
  <2>2. Prepared(handler[g]) /\ handler[g].op \notin {"ensure", "finalize", "delete"}
    BY <1>1, <1>8, RequestType DEF TypeInv, OneCall, NoDelete
  <2>3. handler[g].pc \notin {"mark", "fin.pending", "fin.update"}
    BY <2>2 DEF Prepared
  <2> QED BY <2>1, <2>3 DEF Holds
<1> QED BY <1>2, <1>5, <1>6, <1>7, <1>8 DEF MediaInv

LEMMA SweepMedia ==
  ASSUME TypeInv, MediaInv, NEW h \in Handlers, SweepRows(h)
  PROVE  MediaInv'
<1>1. used.keys \in Nat
  BY Bounds DEF TypeInv, DataOK
<1>2. Plain(h)
  BY AnswersPlain, GoPlain DEF SweepRows, ReadPcs
<1>3. ASSUME NEW i \in Items, assets'[i] # None PROVE OldRow(i)
  BY <1>3 DEF SweepRows, OldRow
<1>4. Calm
  BY <1>1, <1>3 DEF SweepRows, Calm, NewRow
<1> QED BY <1>2, <1>4, PlainKeeps DEF SweepRows, SameArticle

\* Until a deletion is asked for.
LEMMA MediaKept ==
  ASSUME TypeInv, OrderInv, OneCall, MediaInv, [Next]_publicVars, used'.deletes = 0
  PROVE  MediaInv'
<1>1. used.deletes \in Nat /\ \A h \in Handlers : Begins(h) \/ Effect(h) => used.deletes = 0
  BY NoDeletionYet, Bounds DEF TypeInv, DataOK
<1>2. CASE SaveDraft \/ UNCHANGED publicVars
  BY <1>2 DEF SaveDraft, publicVars, MediaInv, RowsInv, ReadyAssetBacked, ShownInv, Public
<1>3. ASSUME NEW k \in signed, Put(k) PROVE MediaInv'
  BY <1>3 DEF Put, MediaInv, RowsInv, ReadyAssetBacked, ShownInv, Public, Holds
<1>4. ASSUME NEW h \in Handlers,
             \/ \E op \in {"submit", "uploads"} : StartSubmit(h, op)
             \/ \E p \in plans : StartFinalize(h, p)
             \/ \E p \in plans, i \in Items : StartEnsure(h, p, i)
             \/ Forget(h)
      PROVE  MediaInv'
  BY <1>4, BeginMedia
<1>5. ASSUME NEW h \in Handlers, NEW s \in 1..used.shells, NEW r \in 1..MaxRevision,
             StartDelete(h, s, r)
      PROVE  FALSE
  BY <1>1, <1>5 DEF StartDelete, TypeInv, DataOK
<1>6. ASSUME NEW h \in Handlers, HandlerStep(h) PROVE MediaInv'
  <2>1. used.deletes = 0
    BY <1>1, <1>6, StepEffect
  <2>2. NoDelete
    BY <2>1 DEF OrderInv, NoDelete
  <2>3. ~DelBegin(h) /\ ~DelRow(h)
    BY <2>2, RequestType DEF TypeInv, Prepared, NoDelete, DelBegin, DelRow, At
  <2>4. CASE ReadOwner(h)
    BY <2>4, EnsureMedia, ReadMedia DEF ReadOwner
  <2>5. CASE \/ \E i \in Items : UploadsRow(h, i)
             \/ UploadsRetry(h) \/ UploadsDone(h)
    BY <2>5, UploadsMedia
  <2>6. CASE EnsureRow(h) \/ CopyRow(h) \/ EnsureRetry(h) \/ Copy(h) \/ Verify(h) \/ OssFails(h)
    BY <2>6, EnsureMedia
  <2> QED BY <1>6, <2>2, <2>3, <2>4, <2>5, <2>6, SubmitMedia, MarkMedia, ReadMedia, ChooseMedia,
             PendingMedia, UpdateMedia, SelectMedia, AbandonMedia, RemoveMedia, SweepMedia
          DEF HandlerStep, Submits
<1> QED BY <1>2, <1>3, <1>4, <1>5, <1>6 DEF Next, MemberStep

LEMMA MediaInit == Init => MediaInv
BY DEF Init, MediaInv, RowsInv, ReadyAssetBacked, ShownInv, Public, Holds, IdleRequest, ReadPcs

=============================================================================
