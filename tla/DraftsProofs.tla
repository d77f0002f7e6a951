---------------------------- MODULE DraftsProofs ----------------------------
(***************************************************************************)
(* Proofs about what becomes of an article's draft.  WechatDraft, for      *)
(* every number of requests, projections, drafts and events: the box holds *)
(* one draft of a workspace, and a ready row names a draft that shows what *)
(* the row says.  DraftEdits, for bodies and requests of every length:     *)
(* edits change what they name and nothing else.                           *)
(***************************************************************************)
EXTENDS WechatDraft, DraftEdits, FiniteSetTheorems, SequenceTheorems, WellFoundedInduction, TLAPS
-----------------------------------------------------------------------------
(* The row, and where a request is *)

\* Where a request is once it has taken the row.
OwnerPcs ==
  {"upload", "mark", "add", "update", "record", "ready", "failed", "unknown",
   "mark failed", "mark unknown", "over"}

\* Where a request compares the draft it has read of a ready row.
ReaderPcs == {"check", "confirm"}

Pcs == OwnerPcs \cup ReaderPcs \cup
       {"idle", "claim", "replace", "search", "recover", "preview", "unlink"}

Rows == [state : {"idle", "creating", "ready", "uncertain"},
         p : Projection \cup {None}, media : Draft \cup {None},
         op : Request \cup {None}, adding : BOOLEAN]

\* A row that is claimed has a projection, one that is not is empty.
RowOK ==
  /\ row \in Rows
  /\ row.state = "ready" => row.media # None /\ ~row.adding
  /\ IF row.op = None THEN row.state = "idle" /\ row.media = None ELSE row.p # None

\* A request's place, projection, draft, operation read, and call at WeChat.
Types(x, w, s, o, c) ==
  /\ x \in Pcs /\ w \in Projection \cup {None} /\ s \in Draft \cup {None}
  /\ o \in Request \cup {None} /\ c \in {"none", "sent", "done", "missing"}

HasRead(x, w, s) ==
  /\ x # "idle" => w # None
  /\ x \in ReaderPcs \cup {"update", "record", "ready", "replace", "unlink", "recover",
                           "preview"} => s # None

\* The call outlives its request; while it is on its way the request waits for
\* it, has given up or is dead.
Calls(x, s, c) ==
  /\ c = "sent" => x \in {"add", "update", "failed", "unknown", "mark failed",
                          "mark unknown", "over"}
  /\ c = "sent" /\ s = None => x \in {"add", "unknown", "mark unknown", "over"}
  /\ c = "sent" /\ x = "add" => s = None
  /\ c = "done" => s # None
  /\ x \notin OwnerPcs \ {"upload"} => c = "none"

\* What a request has seen was in the box, and what WeChat said is missing is
\* gone for good.
Found(x, s, c) ==
  s # None =>
    /\ box[s] # None
    /\ x \in {"replace", "unlink", "mark"} \/ c = "missing" => box[s] = "deleted"

\* The row as long as it names the request.
OwnRow(r, x, w, s) ==
  row.op = r =>
    /\ x \in OwnerPcs /\ row.p = w
    /\ x \in {"upload", "mark", "update"} => row.state = "creating" /\ ~row.adding
    /\ x \in {"failed", "mark failed"} /\ s # None => ~row.adding

\* A request that has read a ready row has read an operation that writes no
\* more as long as the row names it.
ReadRow(x, o) ==
  x \in ReaderPcs =>
    /\ o # None /\ pc[o] \in OwnerPcs
    /\ o = row.op => row.state # "creating" /\ ~row.adding

Local(r, x, w, s, o, c) ==
  /\ Types(x, w, s, o, c) /\ HasRead(x, w, s) /\ Calls(x, s, c)
  /\ Found(x, s, c) /\ OwnRow(r, x, w, s) /\ ReadRow(x, o)

BoxOK == box \in [Draft -> Projection \cup {None, "deleted"}]

PlaceInv ==
  /\ RowOK /\ BoxOK
  /\ mapped \subseteq Projection /\ late \subseteq {"update", "recovery"}
  /\ row.media # None => box[row.media] # None
  /\ pc \in [Request -> Pcs] /\ want \in [Request -> Projection \cup {None}]
  /\ seen \in [Request -> Draft \cup {None}] /\ op \in [Request -> Request \cup {None}]
  /\ call \in [Request -> {"none", "sent", "done", "missing"}]
  /\ \A r \in Request : Local(r, pc[r], want[r], seen[r], op[r], call[r])

-----------------------------------------------------------------------------
(* One draft, and what it shows *)

\* The row says that a draft may have been added, and not which.
MayHaveAdded ==
  row.adding /\ row.media = None /\ row.state \in {"creating", "uncertain"}

\* WeChat has been asked to add a draft and has not done it.
Create(s, c) == c = "sent" /\ s = None

\* No member has declared a draft lost, no recovery has linked a deleted one.
Undisturbed == "reset" \notin spent /\ "recovery" \notin late

\* The draft in the box is the one the row's operation has seen, and unless the
\* row says that one may have been added it names it.
OneInv ==
  Undisturbed =>
    /\ \A r \in Request : Create(seen[r], call[r]) => row.op = r /\ MayHaveAdded
    /\ \A d \in Draft : Live(d) =>
         /\ row.op # None /\ d = seen[row.op]
         /\ row.media = d \/ MayHaveAdded
         /\ \A r \in Request : pc[r] \in ReaderPcs /\ op[r] = row.op => d = seen[r]

Shows(d, p) == d # None => box[d] \in {p, "deleted"}

\* The owner of the row has written the draft it has seen.
HasWritten(x, c) ==
  \/ row.adding \/ row.state = "uncertain"
  \/ x \in {"record", "ready", "unknown", "mark unknown"}
  \/ x \in {"add", "update"} /\ c = "done"

InTime == late = {} /\ "reset" \notin spent

ShownInv ==
  InTime =>
    /\ row.state = "ready" => Shows(row.media, row.p)
    /\ \A r \in Request :
         /\ row.op = r /\ HasWritten(pc[r], call[r]) => Shows(seen[r], want[r])
         /\ pc[r] \in ReaderPcs /\ op[r] = row.op => Shows(seen[r], row.p)

\* What is inductive.
DraftInv == PlaceInv /\ OneInv /\ ShownInv

-----------------------------------------------------------------------------
(* A step of one request *)

Moves(r, x, w, s, o, c) ==
  /\ pc' = [pc EXCEPT ![r] = x] /\ want' = [want EXCEPT ![r] = w]
  /\ seen' = [seen EXCEPT ![r] = s] /\ op' = [op EXCEPT ![r] = o]
  /\ call' = [call EXCEPT ![r] = c]

RowIs(state, p, media, o, adding) ==
  /\ row' \in Rows
  /\ row'.state = state /\ row'.p = p /\ row'.media = media
  /\ row'.op = o /\ row'.adding = adding

\* What a draft shows stays, unless it is deleted or its owner updates it.
BoxKeeps ==
  \A d \in Draft : /\ box[d] # None => box'[d] # None
                   /\ box[d] = "deleted" => box'[d] = "deleted"

\* Request r changes the row under its own name or keeps what the row means to
\* the request it names.
RowKeeps(r) ==
  /\ row'.op # row.op => row'.op = None \/ (row'.op = r /\ pc[r] = "claim")
  /\ row'.op = row.op =>
       /\ row'.op # None => row'.p = row.p
       /\ row.state # "creating" => row'.state # "creating"
       /\ row'.adding => row.adding \/ (row.op = r /\ row.state = "creating")
       /\ row.op # r /\ row.state = "creating" /\ ~row.adding => row'.state = "creating"

LEMMA PlaceStep ==
  ASSUME NamesDiffer, PlaceInv, NEW r \in Request,
         NEW x, NEW w, NEW s, NEW o, NEW c,
         Moves(r, x, w, s, o, c), RowOK', BoxOK', BoxKeeps, RowKeeps(r),
         mapped' \subseteq Projection, late' \subseteq {"update", "recovery"},
         row'.media # None => box'[row'.media] # None,
         pc[r] \in OwnerPcs => x \in OwnerPcs,
         Local(r, x, w, s, o, c)'
  PROVE  PlaceInv'
<1>1. ASSUME NEW q \in Request
      PROVE  Local(q, pc[q], want[q], seen[q], op[q], call[q])'
  <2>1. CASE q = r
    BY <2>1 DEF Moves, PlaceInv
  <2>2. CASE q # r
    <3>1. PICK x1, w1, s1, o1, c1 :
            x1 = pc[q] /\ w1 = want[q] /\ s1 = seen[q] /\ o1 = op[q] /\ c1 = call[q]
      OBVIOUS
    <3>2. Local(q, x1, w1, s1, o1, c1)
      BY <3>1 DEF PlaceInv
    <3>3. x1 = pc'[q] /\ w1 = want'[q] /\ s1 = seen'[q] /\ o1 = op'[q] /\ c1 = call'[q]
      BY <2>2, <3>1 DEF Moves, PlaceInv
    <3>4. Types(x1, w1, s1, o1, c1) /\ HasRead(x1, w1, s1) /\ Calls(x1, s1, c1)
      BY <3>2 DEF Local
    <3>5. Found(x1, s1, c1)'
      BY <3>2, <3>4 DEF Local, Found, BoxKeeps, Types
    <3>6. OwnRow(q, x1, w1, s1)'
      <4>1. ASSUME row'.op = q
            PROVE  /\ row.op = q /\ row'.p = row.p
                   /\ row'.adding => row.adding
                   /\ row.state = "creating" /\ ~row.adding => row'.state = "creating"
        BY <2>2, <4>1 DEF RowKeeps, NamesDiffer
      <4>2. OwnRow(q, x1, w1, s1)
        BY <3>2 DEF Local
      <4>3. row.adding \in BOOLEAN /\ row'.adding \in BOOLEAN
        BY DEF PlaceInv, RowOK, Rows
      <4> QED BY <4>1, <4>2, <4>3 DEF OwnRow
    <3>7. ReadRow(x1, o1)'
      BY <2>2, <3>2, <3>4 DEF Local, ReadRow, RowKeeps, Moves, PlaceInv, Types, OwnerPcs
    <3> QED BY ZenonT(30), <3>3, <3>4, <3>5, <3>6, <3>7 DEF Local, Types, HasRead, Calls, Found, OwnRow, ReadRow
  <2> QED BY <2>1, <2>2
<1>2. Types(x, w, s, o, c)
  BY DEF Local, Types
<1>3. /\ pc' \in [Request -> Pcs] /\ want' \in [Request -> Projection \cup {None}]
      /\ seen' \in [Request -> Draft \cup {None}] /\ op' \in [Request -> Request \cup {None}]
      /\ call' \in [Request -> {"none", "sent", "done", "missing"}]
  BY <1>2 DEF Moves, PlaceInv, Types
<1> QED BY <1>1, <1>3 DEF PlaceInv

\* The same for the one draft.  What the step does to the row does not matter to
\* the call of another owner, and no draft comes to life.
LEMMA OneStep ==
  ASSUME NamesDiffer, PlaceInv, OneInv, NEW r \in Request,
         NEW x, NEW w, NEW s, NEW o, NEW c, Moves(r, x, w, s, o, c), RowKeeps(r),
         spent \subseteq spent', late \subseteq late',
         \A d \in Draft : Live(d)' => Live(d),
         Undisturbed' =>
           /\ row'.op # None \/ row'.op = row.op
           /\ MayHaveAdded /\ row.op # r /\ (\A d \in Draft : ~Live(d)) =>
                row'.op = row.op /\ MayHaveAdded'
           /\ Create(s, c) => row'.op = r /\ MayHaveAdded'
           /\ \A d \in Draft : Live(d)' =>
                /\ row'.op = r => d = s
                /\ row'.media = d \/ MayHaveAdded'
                /\ x \in ReaderPcs /\ o = row'.op => d = s
  PROVE  OneInv'
<1> SUFFICES ASSUME Undisturbed' PROVE
      /\ \A q \in Request : Create(seen[q], call[q])' => row'.op = q /\ MayHaveAdded'
      /\ \A d \in Draft : Live(d)' =>
           /\ row'.op # None /\ d = seen'[row'.op]
           /\ row'.media = d \/ MayHaveAdded'
           /\ \A q \in Request : pc'[q] \in ReaderPcs /\ op'[q] = row'.op => d = seen'[q]
  BY DEF OneInv
<1>1. Undisturbed
  BY DEF Undisturbed
<1>2. /\ pc'[r] = x /\ seen'[r] = s /\ op'[r] = o /\ call'[r] = c
      /\ \A q \in Request \ {r} : /\ pc'[q] = pc[q] /\ seen'[q] = seen[q]
                                   /\ op'[q] = op[q] /\ call'[q] = call[q]
  BY DEF Moves, PlaceInv
<1>3. row.op \in Request \cup {None} /\ None \notin Request /\ None \notin Draft
  BY DEF PlaceInv, RowOK, Rows, NamesDiffer
<1>4. ASSUME NEW q \in Request, Create(seen'[q], call'[q])
      PROVE  row'.op = q /\ MayHaveAdded'
  <2>1. CASE q = r
    BY <1>2, <1>4, <2>1
  <2>2. CASE q # r
    <3>1. Create(seen[q], call[q])
      BY <1>2, <1>4, <2>2 DEF Create
    <3>2. row.op = q /\ MayHaveAdded
      BY <1>1, <3>1 DEF OneInv
    <3>3. \A d \in Draft : ~Live(d)
      BY <1>1, <1>3, <3>1, <3>2 DEF OneInv, Create
    <3> QED BY <2>2, <3>2, <3>3
  <2> QED BY <2>1, <2>2
<1>5. ASSUME NEW d \in Draft, Live(d)'
      PROVE  /\ row'.op # None /\ d = seen'[row'.op]
             /\ row'.media = d \/ MayHaveAdded'
             /\ \A q \in Request : pc'[q] \in ReaderPcs /\ op'[q] = row'.op => d = seen'[q]
  <2>1. /\ row.op # None /\ d = seen[row.op]
        /\ \A q \in Request : pc[q] \in ReaderPcs /\ op[q] = row.op => d = seen[q]
    BY <1>1, <1>5 DEF OneInv
  <2>2. row'.op # None /\ (row'.op # row.op => row'.op = r)
    BY <2>1 DEF RowKeeps
  <2>3. d = seen'[row'.op]
    BY <1>2, <1>3, <1>5, <2>1, <2>2
  <2>4. ASSUME NEW q \in Request, pc'[q] \in ReaderPcs, op'[q] = row'.op
        PROVE  d = seen'[q]
    <3>1. CASE q = r
      BY <1>2, <1>5, <2>4, <3>1
    <3>2. CASE q # r
      <4>1. pc[q] \in ReaderPcs /\ op[q] = row'.op /\ seen'[q] = seen[q]
        BY <1>2, <2>4, <3>2
      <4>2. pc[op[q]] \in OwnerPcs
        BY <4>1 DEF PlaceInv, Local, ReadRow
      <4>3. row'.op = row.op
        BY <2>2, <4>1, <4>2 DEF RowKeeps, OwnerPcs
      <4> QED BY <2>1, <4>1, <4>3
    <3> QED BY <3>1, <3>2
  <2> QED BY <1>5, <2>2, <2>3, <2>4
<1> QED BY <1>4, <1>5

LEMMA ShownStep ==
  ASSUME NamesDiffer, PlaceInv, ShownInv, NEW r \in Request,
         NEW x, NEW w, NEW s, NEW o, NEW c, Moves(r, x, w, s, o, c), RowKeeps(r),
         spent \subseteq spent', late \subseteq late',
         InTime' =>
           /\ \A d \in Draft, p \in Projection \cup {None} :
                box[d] # None /\ Shows(d, p) => Shows(d, p)'
           /\ row'.state = "ready" => Shows(row.media, row.p)'
           /\ row'.op = row.op /\ row.op # r /\ row'.state = "uncertain" =>
                row.state = "uncertain" \/ row.adding
           /\ row'.op = r /\ HasWritten(x, c)' => Shows(s, w)'
           /\ x \in ReaderPcs /\ o = row'.op => Shows(s, row.p)' /\ row'.p = row.p
  PROVE  ShownInv'
<1> SUFFICES ASSUME InTime' PROVE
      \A q \in Request :
        /\ row'.op = q /\ HasWritten(pc[q], call[q])' => Shows(seen[q], want[q])'
        /\ pc'[q] \in ReaderPcs /\ op'[q] = row'.op => Shows(seen[q], row.p)'
  BY DEF ShownInv
<1> SUFFICES ASSUME NEW q \in Request PROVE
        /\ row'.op = q /\ HasWritten(pc[q], call[q])' => Shows(seen[q], want[q])'
        /\ pc'[q] \in ReaderPcs /\ op'[q] = row'.op => Shows(seen[q], row.p)'
  OBVIOUS
<1>1. InTime
  BY DEF InTime
<1>2. CASE q = r
  BY <1>2 DEF Moves, PlaceInv, Shows, HasWritten
<1>3. CASE q # r
  <2>1. /\ pc'[q] = pc[q] /\ seen'[q] = seen[q] /\ want'[q] = want[q]
        /\ op'[q] = op[q] /\ call'[q] = call[q]
    BY <1>3 DEF Moves, PlaceInv
  <2>2. /\ Types(pc[q], want[q], seen[q], op[q], call[q]) /\ ReadRow(pc[q], op[q])
        /\ seen[q] # None => box[seen[q]] # None
    BY DEF PlaceInv, Local, Found
  <2>3. ASSUME row'.op = q, HasWritten(pc[q], call[q])' PROVE Shows(seen[q], want[q])'
    <3>1. row.op = q /\ row'.op = row.op
      BY <1>3, <2>3 DEF RowKeeps, NamesDiffer
    <3>2. HasWritten(pc[q], call[q])
      BY <1>3, <2>1, <2>3, <3>1 DEF HasWritten, RowKeeps
    <3>3. Shows(seen[q], want[q])
      BY <1>1, <3>1, <3>2 DEF ShownInv
    <3> QED BY <2>1, <2>2, <3>3 DEF Shows, Types
  <2>4. ASSUME pc'[q] \in ReaderPcs, op'[q] = row'.op PROVE Shows(seen[q], row.p)'
    <3>1. pc[q] \in ReaderPcs /\ op[q] = row'.op
      BY <2>1, <2>4
    <3>2. op[q] # None /\ pc[op[q]] \in OwnerPcs
      BY <2>2, <3>1 DEF ReadRow
    <3>3. row'.op = row.op
      BY <3>1, <3>2 DEF RowKeeps, OwnerPcs
    <3>4. row'.p = row.p
      BY <3>1, <3>2, <3>3 DEF RowKeeps
    <3>5. Shows(seen[q], row.p) /\ row.p \in Projection \cup {None}
      BY <1>1, <3>1, <3>3 DEF ShownInv, PlaceInv, RowOK, Rows
    <3> QED BY <2>1, <2>2, <3>4, <3>5 DEF Shows, Types
  <2> QED BY <2>3, <2>4
<1> QED BY <1>2, <1>3

\* A step that changes neither the row nor the box.
LEMMA QuietStep ==
  ASSUME NamesDiffer, DraftInv, NEW r \in Request,
         NEW x, NEW w, NEW s, NEW o, NEW c, Moves(r, x, w, s, o, c),
         UNCHANGED <<row, box, late>>, spent \subseteq spent', mapped' \subseteq Projection,
         pc[r] \in OwnerPcs => x \in OwnerPcs,
         Types(x, w, s, o, c), HasRead(x, w, s), Calls(x, s, c), Found(x, s, c),
         OwnRow(r, x, w, s),
         x \in ReaderPcs => pc[r] \in ReaderPcs /\ s = seen[r] /\ o = op[r],
         Create(s, c) => Create(seen[r], call[r]),
         row.op = r => /\ s = seen[r] /\ w = want[r]
                       /\ HasWritten(x, c) => HasWritten(pc[r], call[r]) \/ s = None
  PROVE  DraftInv'
<1>1. /\ RowOK' /\ BoxOK' /\ BoxKeeps /\ RowKeeps(r)
      /\ (row.media # None => box[row.media] # None)'
  BY DEF DraftInv, PlaceInv, RowOK, BoxOK, BoxKeeps, RowKeeps
<1>2. Found(x, s, c)' /\ OwnRow(r, x, w, s)'
  BY DEF Found, OwnRow
<1>3. ReadRow(x, o)'
  <2>1. x \in ReaderPcs => o # None /\ pc[o] \in OwnerPcs /\
                           (o = row.op => row.state # "creating" /\ ~row.adding)
    BY DEF DraftInv, PlaceInv, Local, ReadRow
  <2> QED BY <2>1 DEF ReadRow, Moves, DraftInv, PlaceInv
<1>4. Local(r, x, w, s, o, c)'
  BY <1>2, <1>3 DEF Local, Types, HasRead, Calls
<1>5. PlaceInv'
  BY <1>1, <1>4, PlaceStep DEF DraftInv, PlaceInv
<1>6. OneInv'
  <2>1. \A d \in Draft : Live(d)' => Live(d)
    BY DEF Live
  <2>2. MayHaveAdded' = MayHaveAdded /\ (Undisturbed' => Undisturbed)
    BY DEF MayHaveAdded, Undisturbed
  <2>3. Undisturbed /\ Create(s, c) => row.op = r /\ MayHaveAdded
    BY DEF DraftInv, OneInv
  <2>4. ASSUME Undisturbed, NEW d \in Draft, Live(d)
        PROVE  /\ row.op = r => d = s
               /\ row.media = d \/ MayHaveAdded
               /\ x \in ReaderPcs /\ o = row.op => d = s
    BY <2>4 DEF DraftInv, OneInv
  <2> QED BY <1>1, <2>1, <2>2, <2>3, <2>4, OneStep DEF DraftInv
<1>7. ShownInv'
  <2>1. \A d, p : Shows(d, p)' = Shows(d, p)
    BY DEF Shows
  <2>2. InTime' => InTime
    BY DEF InTime
  <2>3. InTime => (row.state = "ready" => Shows(row.media, row.p))
    BY DEF DraftInv, ShownInv
  <2>4. HasWritten(x, c)' = HasWritten(x, c)
    BY DEF HasWritten
  <2>5. InTime /\ row.op = r /\ HasWritten(x, c) => Shows(s, w)
    BY DEF DraftInv, ShownInv, Shows
  <2>6. InTime /\ x \in ReaderPcs /\ o = row.op => Shows(s, row.p)
    BY DEF DraftInv, ShownInv
  <2>7. InTime' => Shows(row.media, row.p)' = Shows(row.media, row.p)
    BY <2>1
  <2>8. Shows(s, w)' = Shows(s, w) /\ Shows(s, row.p)' = Shows(s, row.p)
    BY <2>1
  <2> QED BY <1>1, <2>1, <2>2, <2>3, <2>4, <2>5, <2>6, <2>7, <2>8, ShownStep DEF DraftInv
<1> QED BY <1>5, <1>6, <1>7 DEF DraftInv

\* What a request relies on where it is.
LEMMA Here ==
  ASSUME DraftInv, NEW r \in Request
  PROVE  /\ Types(pc[r], want[r], seen[r], op[r], call[r]) /\ HasRead(pc[r], want[r], seen[r])
         /\ Calls(pc[r], seen[r], call[r]) /\ Found(pc[r], seen[r], call[r])
         /\ OwnRow(r, pc[r], want[r], seen[r]) /\ ReadRow(pc[r], op[r])
BY DEF DraftInv, PlaceInv, Local

\* A request goes on, with what it has read.
LEMMA MovesOn ==
  ASSUME DraftInv, NEW r \in Request, NEW x, GoTo(r, x), UNCHANGED <<want, seen, op>>
  PROVE  /\ UNCHANGED call => Moves(r, x, want[r], seen[r], op[r], call[r])
         /\ \A c : call' = [call EXCEPT ![r] = c] => Moves(r, x, want[r], seen[r], op[r], c)
<1>1. /\ want' = [want EXCEPT ![r] = want[r]] /\ seen' = [seen EXCEPT ![r] = seen[r]]
      /\ op' = [op EXCEPT ![r] = op[r]] /\ call = [call EXCEPT ![r] = call[r]]
  BY DEF DraftInv, PlaceInv
<1> QED BY <1>1 DEF Moves, GoTo

LEMMA HearStep ==
  ASSUME NamesDiffer, DraftInv, NEW r \in Request, HearAdd(r) \/ HearUpdate(r)
  PROVE  DraftInv'
<1>1. PICK x : x = IF pc[r] = "add" THEN "record" ELSE IF call[r] = "done" THEN "ready" ELSE "mark"
  OBVIOUS
<1>2. GoTo(r, x) /\ UNCHANGED <<row, box, late, mapped, spent, want, seen, op, call>>
  BY <1>1 DEF HearAdd, HearUpdate
<1>3. \/ pc[r] = "add" /\ call[r] = "done" /\ x = "record"
      \/ pc[r] = "update" /\ call[r] = "done" /\ x = "ready"
      \/ pc[r] = "update" /\ call[r] = "missing" /\ x = "mark"
  BY <1>1 DEF HearAdd, HearUpdate
<1>4. /\ Types(x, want[r], seen[r], op[r], call[r]) /\ HasRead(x, want[r], seen[r])
      /\ Calls(x, seen[r], call[r]) /\ Found(x, seen[r], call[r]) /\ OwnRow(r, x, want[r], seen[r])
      /\ x \in OwnerPcs /\ x \notin ReaderPcs
      /\ row.op = r => (HasWritten(x, call[r]) => HasWritten(pc[r], call[r]))
  BY <1>3, Here DEF Types, HasRead, Calls, Found, OwnRow, HasWritten, OwnerPcs, ReaderPcs, Pcs
<1> QED BY <1>2, <1>4, MovesOn, QuietStep DEF DraftInv, PlaceInv

\* WeChat refuses, does not answer, or the cover has expired.
LEMMA CallFails ==
  ASSUME NamesDiffer, DraftInv, NEW r \in Request, Rejected(r) \/ Lost(r) \/ CoverExpired(r)
  PROVE  DraftInv'
<1>1. PICK x, c :
        /\ GoTo(r, x) /\ call' = [call EXCEPT ![r] = c]
        /\ UNCHANGED <<row, box, late, mapped, want, seen, op>> /\ spent \subseteq spent'
        /\ \/ pc[r] \in {"add", "update"} /\ call[r] = "sent" /\ c = "none" /\ x \in {"failed", "over"}
           \/ pc[r] = "add" /\ call[r] \in {"sent", "done"} /\ c \in {call[r], "none"} /\ x = "unknown"
              /\ (c = "none" => call[r] = "sent")
           \/ pc[r] = "update" /\ call[r] \in {"sent", "done"} /\ c \in {call[r], "none"} /\ x = "failed"
           \/ x = pc[r] /\ c = call[r]
  <2>1. call = [call EXCEPT ![r] = call[r]] /\ pc = [pc EXCEPT ![r] = pc[r]]
    BY DEF DraftInv, PlaceInv
  <2>2. CASE Rejected(r)
    BY <2>2 DEF Rejected, Once
  <2>3. CASE CoverExpired(r)
    BY <2>1, <2>3 DEF CoverExpired, Once, GoTo
  <2>4. CASE Lost(r)
    BY <2>1, <2>4 DEF Lost, Once
  <2> QED BY <2>2, <2>3, <2>4
<1>2. /\ Types(x, want[r], seen[r], op[r], c) /\ HasRead(x, want[r], seen[r])
      /\ Calls(x, seen[r], c) /\ Found(x, seen[r], c) /\ OwnRow(r, x, want[r], seen[r])
      /\ pc[r] \in OwnerPcs => x \in OwnerPcs
      /\ x \in ReaderPcs => x = pc[r]
      /\ Create(seen[r], c) => Create(seen[r], call[r])
      /\ row.op = r => (HasWritten(x, c) => HasWritten(pc[r], call[r]) \/ seen[r] = None)
  BY <1>1, Here DEF Types, HasRead, Calls, Found, OwnRow, HasWritten, OwnerPcs, ReaderPcs, Pcs, Create
<1> QED BY <1>1, <1>2, MovesOn, QuietStep DEF DraftInv, PlaceInv

LEMMA GoOn ==
  ASSUME NamesDiffer, DraftInv, NEW r \in Request, LookBeforeFailing(r) \/ ReadDraft(r) \/ Die(r)
  PROVE  DraftInv'
<1>1. PICK x :
        /\ GoTo(r, x)
        /\ UNCHANGED <<row, box, late, mapped, want, seen, op, call>> /\ spent \subseteq spent'
        /\ \/ x = "over" /\ pc[r] # "idle"
           \/ pc[r] = "unknown" /\ x = "mark unknown"
           \/ pc[r] = "failed" /\ x = "mark failed"
           \/ pc[r] = "check" /\ x = "confirm"
           \/ pc[r] = "check" /\ x = "replace" /\ ~Live(seen[r])
           \/ pc[r] = "preview" /\ x = "unlink" /\ ~Live(seen[r])
  <2>1. CASE LookBeforeFailing(r)
    BY <2>1 DEF LookBeforeFailing
  <2>2. CASE ReadDraft(r)
    BY <2>2 DEF ReadDraft
  <2>3. CASE Die(r)
    BY <2>3 DEF Die, Once
  <2> QED BY <2>1, <2>2, <2>3
<1>2. x \in {"replace", "unlink"} => box[seen[r]] = "deleted"
  <2>1. CASE x \notin {"replace", "unlink"}
    BY <2>1
  <2>2. CASE x \in {"replace", "unlink"}
    <3>1. pc[r] \in {"check", "preview"} /\ ~Live(seen[r])
      BY <1>1, <2>2
    <3>2. seen[r] \in Draft /\ box[seen[r]] # None
      BY <3>1, Here DEF Types, HasRead, Found, ReaderPcs
    <3>3. box[seen[r]] \in Projection \cup {None, "deleted"}
      BY <3>2 DEF DraftInv, PlaceInv, BoxOK
    <3> QED BY <3>1, <3>2, <3>3 DEF Live
  <2> QED BY <2>1, <2>2
<1>3. /\ Types(x, want[r], seen[r], op[r], call[r]) /\ HasRead(x, want[r], seen[r])
      /\ Calls(x, seen[r], call[r]) /\ Found(x, seen[r], call[r]) /\ OwnRow(r, x, want[r], seen[r])
      /\ pc[r] \in OwnerPcs => x \in OwnerPcs
      /\ x \in ReaderPcs => pc[r] \in ReaderPcs
      /\ row.op = r => (HasWritten(x, call[r]) => HasWritten(pc[r], call[r]))
  BY <1>1, <1>2, Here DEF Types, HasRead, Calls, Found, OwnRow, HasWritten, OwnerPcs, ReaderPcs, Pcs
<1> QED BY <1>1, <1>3, MovesOn, QuietStep DEF DraftInv, PlaceInv

\* A request begins, or what it wants is searched for in the box.
LEMMA Begins ==
  ASSUME NamesDiffer, DraftInv, NEW r \in Request,
         (\E p \in Projection : Publish(r, p)) \/ Preview(r) \/ Search(r)
  PROVE  DraftInv'
<1>1. PICK x, w, s :
        /\ pc' = [pc EXCEPT ![r] = x] /\ want' = [want EXCEPT ![r] = w]
        /\ seen' = [seen EXCEPT ![r] = s] /\ op' = [op EXCEPT ![r] = op[r]]
        /\ call' = [call EXCEPT ![r] = call[r]]
        /\ UNCHANGED <<row, box, late, mapped, spent>>
        /\ \/ pc[r] = "idle" /\ x = "claim" /\ w \in Projection /\ s = seen[r]
           \/ pc[r] = "idle" /\ x = "preview" /\ w = row.p /\ s = row.media /\ s # None
           \/ pc[r] = "search" /\ x = "over" /\ w = want[r] /\ s = seen[r]
           \/ /\ pc[r] = "search" /\ x = "recover" /\ w = want[r] /\ s \in Draft
              /\ box[s] = want[r]
  <2>1. /\ op = [op EXCEPT ![r] = op[r]] /\ call = [call EXCEPT ![r] = call[r]]
        /\ want = [want EXCEPT ![r] = want[r]] /\ seen = [seen EXCEPT ![r] = seen[r]]
    BY DEF DraftInv, PlaceInv
  <2>2. CASE \E p \in Projection : Publish(r, p)
    BY <2>1, <2>2 DEF Publish, GoTo
  <2>3. CASE Preview(r)
    BY <2>1, <2>3 DEF Preview, GoTo
  <2>4. CASE Search(r)
    <3>1. PICK found : found = {d \in Draft : box[d] = want[r]}
      OBVIOUS
    <3>2. CASE Cardinality(found) = 1
      <4>1. \E d \in found : TRUE
        BY <3>2, FS_EmptySet
      <4>2. PICK s : s = CHOOSE d \in found : TRUE
        OBVIOUS
      <4>3. s \in Draft /\ box[s] = want[r]
        BY <3>1, <4>1, <4>2
      <4> QED BY <2>1, <2>4, <3>1, <3>2, <4>2, <4>3 DEF Search, GoTo
    <3>3. CASE Cardinality(found) # 1
      BY <2>1, <2>4, <3>1, <3>3 DEF Search, GoTo
    <3> QED BY <3>2, <3>3
  <2> QED BY <2>2, <2>3, <2>4
<1>2. /\ row.op # r /\ call[r] = "none"
      /\ pc[r] = "search" => want[r] # None
  BY <1>1, Here DEF OwnRow, Calls, HasRead, OwnerPcs
<1>3. /\ row.media # None => /\ row.media \in Draft /\ box[row.media] # None
                             /\ row.p \in Projection
  BY DEF DraftInv, PlaceInv, RowOK, Rows, NamesDiffer
<1>4. /\ Types(x, w, s, op[r], call[r]) /\ HasRead(x, w, s)
      /\ Calls(x, s, call[r]) /\ Found(x, s, call[r])
      /\ pc[r] \notin OwnerPcs /\ x \notin ReaderPcs /\ ~Create(s, call[r])
  BY <1>1, <1>2, <1>3, Here
     DEF Types, HasRead, Calls, Found, OwnerPcs, ReaderPcs, Pcs, Create, NamesDiffer
<1>5. OwnRow(r, x, w, s)
  BY <1>2 DEF OwnRow
<1>6. Moves(r, x, w, s, op[r], call[r])
  BY <1>1 DEF Moves
<1> QED BY <1>1, <1>2, <1>4, <1>5, <1>6, QuietStep DEF DraftInv, PlaceInv

LEMMA UploadStep ==
  ASSUME NamesDiffer, DraftInv, NEW r \in Request, Upload(r)
  PROVE  DraftInv'
<1>1. PICK x, c :
        /\ GoTo(r, x) /\ call' = [call EXCEPT ![r] = c]
        /\ UNCHANGED <<row, box, late, want, seen, op>> /\ spent \subseteq spent'
        /\ pc[r] = "upload" /\ mapped' \subseteq mapped \cup {want[r]}
        /\ \/ x = "update" /\ seen[r] # None /\ c = "sent"
           \/ x = "mark" /\ seen[r] = None /\ c = call[r]
           \/ x \in {"over", "failed"} /\ c = call[r]
  <2>1. PICK x :
        /\ GoTo(r, x)
        /\ UNCHANGED <<row, box, late, want, seen, op>> /\ spent \subseteq spent'
        /\ pc[r] = "upload" /\ mapped' \subseteq mapped \cup {want[r]}
        /\ call' = [call EXCEPT ![r] = IF pc'[r] = "update" THEN "sent" ELSE @]
        /\ \/ x = "update" /\ seen[r] # None
           \/ x = "mark" /\ seen[r] = None
           \/ x \in {"over", "failed"}
    BY DEF Upload, Once
  <2>2. pc'[r] = x
    BY <2>1 DEF GoTo, DraftInv, PlaceInv
  <2> QED BY <2>1, <2>2
<1>2. /\ Types(x, want[r], seen[r], op[r], c) /\ HasRead(x, want[r], seen[r])
      /\ Calls(x, seen[r], c) /\ Found(x, seen[r], c) /\ OwnRow(r, x, want[r], seen[r])
      /\ x \in OwnerPcs /\ x \notin ReaderPcs /\ ~Create(seen[r], c)
      /\ row.op = r => (HasWritten(x, c) => HasWritten(pc[r], call[r]))
  BY <1>1, Here DEF Types, HasRead, Calls, Found, OwnRow, HasWritten, OwnerPcs, ReaderPcs, Pcs, Create
<1>3. mapped' \subseteq Projection
  <2>1. want[r] \in Projection
    BY <1>1, Here DEF Types, HasRead
  <2> QED BY <1>1, <2>1 DEF DraftInv, PlaceInv
<1> QED BY <1>1, <1>2, <1>3, MovesOn, QuietStep DEF DraftInv, PlaceInv

\* The lease runs out: no request depends on it.
LEMMA LeaseStep ==
  ASSUME DraftInv, UNCHANGED <<row, mapped, local, call, box, late>>, spent \subseteq spent'
  PROVE  DraftInv'
<1>1. PlaceInv'
  BY DEF DraftInv, PlaceInv, local, RowOK, BoxOK, Local, Found, OwnRow, ReadRow
<1>2. OneInv'
  BY DEF DraftInv, OneInv, Undisturbed, MayHaveAdded, Live, local
<1>3. ShownInv'
  BY DEF DraftInv, ShownInv, InTime, Shows, HasWritten, local
<1> QED BY <1>1, <1>2, <1>3 DEF DraftInv

\* A request finds that it may not write the row, or that there is nothing to
\* do, and is over; a publish request may go and look for what was lost.
LEMMA LeavesStep ==
  ASSUME NamesDiffer, DraftInv, NEW r \in Request, NEW x \in {"over", "search"}, NEW s, NEW o,
         pc[r] # "idle", x = "search" => pc[r] = "claim",
         Moves(r, x, want[r], s, o, call[r]), UNCHANGED <<row, box, late, mapped, spent>>,
         \/ s = seen[r] /\ o = op[r]
         \/ pc[r] = "claim" /\ s = row.media /\ o = row.op /\ o # None
  PROVE  DraftInv'
<1>1. pc[r] = "claim" => row.op # r /\ call[r] = "none"
  BY Here DEF OwnRow, Calls, OwnerPcs
<1>2. /\ row.media # None => row.media \in Draft /\ box[row.media] # None
      /\ row.media \in Draft \cup {None} /\ row.op \in Request \cup {None}
  BY DEF DraftInv, PlaceInv, RowOK, Rows, NamesDiffer
<1>3. Types(x, want[r], s, o, call[r]) /\ HasRead(x, want[r], s)
  BY <1>2, Here DEF Types, HasRead, OwnerPcs, ReaderPcs, Pcs
<1>4. Calls(x, s, call[r]) /\ (Create(s, call[r]) => Create(seen[r], call[r]))
  BY <1>1, Here DEF Calls, OwnerPcs, Create
<1>5. Found(x, s, call[r]) /\ OwnRow(r, x, want[r], s)
  BY <1>1, <1>2, Here DEF Found, OwnRow, OwnerPcs
<1>6. row.op = r => s = seen[r] /\ (HasWritten(x, call[r]) => HasWritten(pc[r], call[r]))
  BY <1>1 DEF HasWritten
<1>7. x \in OwnerPcs \/ pc[r] \notin OwnerPcs
  BY DEF OwnerPcs
<1>8. x \notin ReaderPcs
  BY DEF ReaderPcs
<1> QED BY <1>3, <1>4, <1>5, <1>6, <1>7, <1>8, QuietStep DEF DraftInv, PlaceInv

\* A step that changes the row and not the box.
LEMMA RowStep ==
  ASSUME NamesDiffer, DraftInv, NEW r \in Request,
         NEW x, NEW w, NEW s, NEW o, NEW c, Moves(r, x, w, s, o, c), RowKeeps(r),
         UNCHANGED <<box, spent>>, late \subseteq late', late' \subseteq {"update", "recovery"},
         mapped' \subseteq mapped, RowOK', row'.op # None,
         row'.media # None => box[row'.media] # None,
         pc[r] \in OwnerPcs => x \in OwnerPcs,
         Types(x, w, s, o, c), HasRead(x, w, s), Calls(x, s, c), Found(x, s, c),
         OwnRow(r, x, w, s)', ReadRow(x, o)',
         Undisturbed' /\ Undisturbed =>
           /\ MayHaveAdded /\ row.op # r /\ (\A d \in Draft : ~Live(d)) =>
                row'.op = row.op /\ MayHaveAdded'
           /\ Create(s, c) => row'.op = r /\ MayHaveAdded'
           /\ \A d \in Draft : Live(d) =>
                /\ row'.op = r => d = s
                /\ row'.media = d \/ MayHaveAdded'
                /\ x \in ReaderPcs /\ o = row'.op => d = s,
         InTime' /\ InTime =>
           /\ row'.state = "ready" => Shows(row'.media, row'.p)
           /\ row'.op = row.op /\ row.op # r /\ row'.state = "uncertain" =>
                row.state = "uncertain" \/ row.adding
           /\ row'.op = r /\ HasWritten(x, c)' => Shows(s, w)
           /\ x \in ReaderPcs /\ o = row'.op => Shows(s, row'.p) /\ row'.p = row.p
  PROVE  DraftInv'
<1>1. BoxOK' /\ BoxKeeps /\ (\A d : Live(d)' = Live(d))
  BY DEF DraftInv, PlaceInv, BoxOK, BoxKeeps, Live
<1>2. /\ InTime' => InTime
      /\ Undisturbed' => Undisturbed
  BY DEF InTime, Undisturbed
<1>3. PlaceInv'
  <2>1. Found(x, s, c)'
    BY DEF Found
  <2>2. Local(r, x, w, s, o, c)'
    BY <2>1 DEF Local, Types, HasRead, Calls
  <2> QED BY <1>1, <2>2, PlaceStep DEF DraftInv, PlaceInv
<1>4. OneInv'
  BY <1>1, <1>2, OneStep DEF DraftInv
<1>5. ShownInv'
  <2>1. /\ \A d, p : Shows(d, p)' = Shows(d, p)
        /\ Shows(row.media, row.p)' = Shows(row'.media, row'.p)
        /\ Shows(s, row.p)' = Shows(s, row'.p)
    BY DEF Shows
  <2> QED BY <1>2, <2>1, ShownStep DEF DraftInv
<1> QED BY <1>3, <1>4, <1>5 DEF DraftInv

\* The row a request holds, and the one live draft.
LEMMA Held ==
  ASSUME NamesDiffer, DraftInv
  PROVE  /\ row \in Rows
         /\ row.state = "ready" => row.media # None /\ ~row.adding
         /\ row.op = None => row.state = "idle" /\ row.media = None
         /\ row.op # None => row.op \in Request /\ row.p \in Projection
         /\ row.media # None => row.media \in Draft /\ box[row.media] # None
         /\ mapped \subseteq Projection /\ late \subseteq {"update", "recovery"}
         /\ \A r \in Request : pc[r] \notin OwnerPcs => row.op # r
BY DEF DraftInv, PlaceInv, RowOK, Rows, NamesDiffer, Local, OwnRow

LEMMA TakesStep ==
  ASSUME NamesDiffer, DraftInv, NEW r \in Request, pc[r] = "claim",
         NEW w, w = want[r], NEW s, s = row.media,
         row' = [row EXCEPT !.state = "creating", !.p = want[r], !.op = r, !.adding = FALSE],
         Moves(r, "upload", w, s, r, "none"),
         UNCHANGED <<mapped, box, late, spent>>,
         row.state # "uncertain", row.state = "creating" => ~row.adding \/ row.media # None
  PROVE  DraftInv'
<1>1. /\ row.op # r /\ w \in Projection /\ r # None
      /\ s \in Draft \cup {None}
  BY Here, Held DEF OwnerPcs, Calls, HasRead, Types, NamesDiffer, Rows
<1>2. RowIs("creating", w, s, r, FALSE)
  BY <1>1, Held DEF RowIs, Rows
<1>3. RowOK' /\ RowKeeps(r)
  BY <1>1, <1>2, Held DEF RowIs, RowOK, RowKeeps, NamesDiffer
<1>4. /\ Types("upload", w, s, r, "none") /\ HasRead("upload", w, s)
      /\ Calls("upload", s, "none") /\ Found("upload", s, "none")
  BY <1>1, Held DEF Types, HasRead, Calls, Found, OwnerPcs, ReaderPcs, Pcs, NamesDiffer
<1>5. OwnRow(r, "upload", w, s)' /\ ReadRow("upload", r)'
  BY <1>2 DEF OwnRow, ReadRow, ReaderPcs, RowIs, OwnerPcs
<1>6. ~MayHaveAdded
  BY DEF MayHaveAdded
<1>7. Undisturbed => \A d \in Draft : Live(d) => d = s
  BY <1>6 DEF DraftInv, OneInv
<1>8. ~HasWritten("upload", "none")'
  BY <1>1, <1>2 DEF HasWritten, RowIs
<1>9. ~Create(s, "none")
  BY <1>1 DEF Create
<1> QED
  BY <1>1, <1>2, <1>3, <1>4, <1>5, <1>6, <1>7, <1>8, <1>9, Held, RowStep
     DEF RowIs, OwnerPcs, ReaderPcs

LEMMA SuspectsStep ==
  ASSUME NamesDiffer, DraftInv, NEW r \in Request, pc[r] = "claim", NEW x \in {"search", "over"},
         row' = [row EXCEPT !.state = "uncertain"],
         NEW w, w = want[r], NEW s, s = seen[r], NEW o, o = op[r],
         Moves(r, x, w, s, o, "none"),
         UNCHANGED <<mapped, box, late, spent>>,
         row.state = "creating", row.adding, row.media = None
  PROVE  DraftInv'
<1>1. /\ row.op # r /\ row.op # None /\ Types(x, w, s, o, "none") /\ HasRead(x, w, s)
      /\ Found(x, s, "none")
  BY Here, Held DEF OwnerPcs, HasRead, Types, Found, Pcs, ReaderPcs
<1>2. RowIs("uncertain", row.p, row.media, row.op, row.adding)
  BY Held DEF RowIs, Rows
<1>3. RowOK' /\ RowKeeps(r) /\ MayHaveAdded'
  BY <1>1, <1>2, Held DEF RowIs, RowOK, RowKeeps, MayHaveAdded, NamesDiffer
<1>4. Calls(x, s, "none") /\ OwnRow(r, x, w, s)' /\ ReadRow(x, o)' /\ ~Create(s, "none")
  BY <1>1, <1>2 DEF Calls, OwnRow, ReadRow, ReaderPcs, RowIs, Create
<1> QED BY <1>1, <1>2, <1>3, <1>4, Held, RowStep DEF RowIs, OwnerPcs, ReaderPcs

LEMMA MarkStep ==
  ASSUME NamesDiffer, DraftInv, NEW r \in Request, pc[r] = "mark", row.op = r,
         row' = [row EXCEPT !.media = None, !.adding = TRUE],
         NEW w, w = want[r], NEW o, o = op[r], Moves(r, "add", w, None, o, "sent"),
         UNCHANGED <<mapped, box, late, spent>>
  PROVE  DraftInv'
<1>1. /\ row.state = "creating" /\ row.p = w /\ r # None
      /\ seen[r] # None => box[seen[r]] = "deleted"
  BY Here DEF OwnRow, Found, NamesDiffer
<1>2. RowIs("creating", w, None, r, TRUE)
  BY <1>1, Held DEF RowIs, Rows
<1>3. RowOK' /\ RowKeeps(r) /\ MayHaveAdded'
  BY <1>1, <1>2, Held DEF RowIs, RowOK, RowKeeps, MayHaveAdded, NamesDiffer
<1>4. Types("add", w, None, o, "sent") /\ HasRead("add", w, None)
  BY Here DEF Types, HasRead, Pcs, OwnerPcs, ReaderPcs
<1>5. /\ Calls("add", None, "sent") /\ Found("add", None, "sent")
      /\ OwnRow(r, "add", w, None)' /\ ReadRow("add", o)'
  BY <1>2 DEF Calls, Found, OwnRow, ReadRow, ReaderPcs, OwnerPcs, RowIs
<1>6. Undisturbed => \A d \in Draft : ~Live(d)
  BY <1>1 DEF DraftInv, OneInv, Live, NamesDiffer
<1>7. Shows(None, w)
  BY DEF Shows
<1> QED
  BY <1>1, <1>2, <1>3, <1>4, <1>5, <1>6, <1>7, Held, RowStep DEF RowIs, OwnerPcs, ReaderPcs

LEMMA RecordStep ==
  ASSUME NamesDiffer, DraftInv, NEW r \in Request, pc[r] = "record", row.op = r,
         row' = [row EXCEPT !.media = seen[r]],
         NEW w, w = want[r], NEW s, s = seen[r], NEW o, o = op[r], NEW c, c = call[r],
         Moves(r, "ready", w, s, o, c),
         UNCHANGED <<mapped, box, late, spent>>
  PROVE  DraftInv'
<1>1. row.p = w /\ r # None /\ s \in Draft /\ s # None /\ box[s] # None
  BY Here DEF OwnRow, Found, HasRead, Types, NamesDiffer
<1>2. RowIs(row.state, w, s, r, row.adding)
  BY <1>1, Held DEF RowIs, Rows
<1>3. RowOK' /\ RowKeeps(r)
  BY <1>1, <1>2, Held DEF RowIs, RowOK, RowKeeps, NamesDiffer
<1>4. /\ Types("ready", w, s, o, c) /\ HasRead("ready", w, s)
      /\ Calls("ready", s, c) /\ Found("ready", s, c)
  BY Here DEF Types, HasRead, Calls, Found, Pcs, OwnerPcs, ReaderPcs
<1>5. OwnRow(r, "ready", w, s)' /\ ReadRow("ready", o)'
  BY <1>2 DEF OwnRow, ReadRow, ReaderPcs, OwnerPcs, RowIs
<1>6. Undisturbed => \A d \in Draft : Live(d) => d = s
  BY <1>1 DEF DraftInv, OneInv
<1>7. InTime => Shows(s, w)
  BY DEF DraftInv, ShownInv, HasWritten
<1>8. ~Create(s, c)
  BY <1>1 DEF Create
<1> QED
  BY ZenonT(30), <1>1, <1>2, <1>3, <1>4, <1>5, <1>6, <1>7, <1>8, Held, RowStep DEF RowIs, OwnerPcs, ReaderPcs

LEMMA ReadyStep ==
  ASSUME NamesDiffer, DraftInv, NEW r \in Request, pc[r] = "ready", row.op = r,
         row' = [row EXCEPT !.state = "ready", !.media = seen[r], !.adding = FALSE],
         NEW w, w = want[r], NEW s, s = seen[r], NEW o, o = op[r], NEW c, c = call[r],
         Moves(r, "over", w, s, o, c),
         UNCHANGED <<mapped, box, late, spent>>
  PROVE  DraftInv'
<1>1. row.p = w /\ r # None /\ s \in Draft /\ s # None /\ box[s] # None
  BY Here DEF OwnRow, Found, HasRead, Types, NamesDiffer
<1>2. RowIs("ready", w, s, r, FALSE)
  BY <1>1, Held DEF RowIs, Rows
<1>3. RowOK' /\ RowKeeps(r)
  BY <1>1, <1>2, Held DEF RowIs, RowOK, RowKeeps, NamesDiffer
<1>4. /\ Types("over", w, s, o, c) /\ HasRead("over", w, s)
      /\ Calls("over", s, c) /\ Found("over", s, c)
  BY Here DEF Types, HasRead, Calls, Found, Pcs, OwnerPcs, ReaderPcs
<1>5. OwnRow(r, "over", w, s)' /\ ReadRow("over", o)'
  BY <1>2 DEF OwnRow, ReadRow, ReaderPcs, OwnerPcs, RowIs
<1>6. Undisturbed => \A d \in Draft : Live(d) => d = s
  BY <1>1 DEF DraftInv, OneInv
<1>7. InTime => Shows(s, w)
  BY DEF DraftInv, ShownInv, HasWritten
<1>8. ~Create(s, c)
  BY <1>1 DEF Create
<1> QED
  BY <1>1, <1>2, <1>3, <1>4, <1>5, <1>6, <1>7, <1>8, Held, RowStep DEF RowIs, OwnerPcs, ReaderPcs

LEMMA FailedStep ==
  ASSUME NamesDiffer, DraftInv, NEW r \in Request, pc[r] \in {"mark failed", "mark unknown"},
         row.op = r, row' = [row EXCEPT !.state = NextState(r)],
         NEW w, w = want[r], NEW s, s = seen[r], NEW o, o = op[r], NEW c, c = call[r],
         Moves(r, "over", w, s, o, c),
         UNCHANGED <<mapped, box, late, spent>>
  PROVE  DraftInv'
<1>1. row.p = w /\ r # None /\ (pc[r] = "mark failed" /\ s # None => ~row.adding)
  BY Here DEF OwnRow, NamesDiffer
<1>2. /\ RowIs(NextState(r), w, row.media, r, row.adding)
      /\ NextState(r) = IF pc[r] = "mark unknown" THEN "uncertain" ELSE "idle"
  BY <1>1, Held DEF RowIs, Rows, NextState
<1>3. RowOK' /\ RowKeeps(r)
  BY <1>1, <1>2, Held DEF RowIs, RowOK, RowKeeps, NamesDiffer
<1>4. /\ Types("over", w, s, o, c) /\ HasRead("over", w, s)
      /\ Calls("over", s, c) /\ Found("over", s, c)
  BY Here DEF Types, HasRead, Calls, Found, Pcs, OwnerPcs, ReaderPcs
<1>5. OwnRow(r, "over", w, s)' /\ ReadRow("over", o)'
  BY <1>2 DEF OwnRow, ReadRow, ReaderPcs, OwnerPcs, RowIs
<1>6. MayHaveAdded /\ pc[r] = "mark unknown" => MayHaveAdded'
  BY <1>2 DEF MayHaveAdded, RowIs
<1>7. Undisturbed => \A d \in Draft : Live(d) =>
        d = s /\ (row.media = d \/ MayHaveAdded')
  <2>1. Undisturbed => \A d \in Draft : Live(d) => d = s /\ (row.media = d \/ MayHaveAdded)
    BY DEF DraftInv, OneInv
  <2>2. \A d \in Draft : d = s /\ MayHaveAdded => pc[r] = "mark unknown"
    BY <1>1 DEF MayHaveAdded, NamesDiffer
  <2> QED BY <1>6, <2>1, <2>2
<1>8. Undisturbed => (Create(s, c) => MayHaveAdded')
  <2>1. Create(s, c) => pc[r] = "mark unknown"
    BY Here DEF Create, Calls
  <2> QED BY <1>6, <2>1 DEF DraftInv, OneInv
<1>9. InTime /\ HasWritten("over", c)' => Shows(s, w)
  <2>1. HasWritten("over", c)' => HasWritten(pc[r], c)
    BY <1>2 DEF HasWritten, RowIs
  <2> QED BY <2>1 DEF DraftInv, ShownInv
<1> QED
  BY ZenonT(30), <1>1, <1>2, <1>3, <1>4, <1>5, <1>7, <1>8, <1>9, Held, RowStep DEF RowIs, OwnerPcs, ReaderPcs

\* A publish request finds its projection ready and goes on to compare it.
LEMMA CheckStep ==
  ASSUME NamesDiffer, DraftInv, NEW r \in Request, pc[r] = "claim", row.state = "ready",
         row.p = want[r],
         NEW w, w = want[r], NEW s, s = row.media, NEW o, o = row.op,
         Moves(r, "check", w, s, o, "none"),
         UNCHANGED <<row, mapped, box, late, spent>>
  PROVE  DraftInv'
<1>1. /\ row.op # r /\ o # None /\ o \in Request /\ w \in Projection
      /\ s \in Draft /\ s # None /\ box[s] # None /\ ~row.adding
  BY Here, Held DEF OwnerPcs, HasRead, Types, NamesDiffer
<1>2. RowOK' /\ RowKeeps(r) /\ ~MayHaveAdded
  BY <1>1 DEF DraftInv, PlaceInv, RowOK, RowKeeps, MayHaveAdded
<1>3. /\ Types("check", w, s, o, "none") /\ HasRead("check", w, s)
      /\ Calls("check", s, "none") /\ Found("check", s, "none")
      /\ OwnRow(r, "check", w, s)'
  BY <1>1 DEF Types, HasRead, Calls, Found, OwnRow, Pcs, OwnerPcs, ReaderPcs, NamesDiffer
<1>4. ReadRow("check", o)'
  <2>1. pc'[o] \in OwnerPcs
    BY <1>1, Here DEF Moves, DraftInv, PlaceInv, OwnRow
  <2> QED BY <1>1, <2>1 DEF ReadRow
<1>5. Undisturbed => \A d \in Draft : Live(d) => d = s
  BY <1>2 DEF DraftInv, OneInv
<1>6. InTime => Shows(s, row.p)
  BY DEF DraftInv, ShownInv
<1>7. ~Create(s, "none")
  BY DEF Create
<1> QED BY <1>1, <1>2, <1>3, <1>4, <1>5, <1>6, <1>7, Held, RowStep DEF OwnerPcs

LEMMA ConfirmStep ==
  ASSUME NamesDiffer, DraftInv, NEW r \in Request, pc[r] = "confirm", row.op = op[r],
         row' = [row EXCEPT !.state = "ready", !.media = seen[r], !.adding = FALSE],
         NEW w, w = want[r], NEW s, s = seen[r], NEW o, o = op[r],
         Moves(r, "over", w, s, o, "none"),
         UNCHANGED <<mapped, box, late, spent>>
  PROVE  DraftInv'
<1>1. /\ row.op # r /\ row.op # None /\ s \in Draft /\ s # None /\ box[s] # None
      /\ row.state # "creating" /\ ~row.adding
  BY Here, Held DEF Found, HasRead, Types, ReadRow, OwnerPcs, ReaderPcs
<1>2. RowIs("ready", row.p, s, row.op, FALSE)
  BY <1>1, Held DEF RowIs, Rows
<1>3. RowOK' /\ RowKeeps(r) /\ ~MayHaveAdded
  BY <1>1, <1>2, Held DEF RowIs, RowOK, RowKeeps, MayHaveAdded, NamesDiffer
<1>4. /\ Types("over", w, s, o, "none") /\ HasRead("over", w, s)
      /\ Calls("over", s, "none") /\ Found("over", s, "none")
  BY <1>1, Here DEF Types, HasRead, Calls, Found, Pcs, OwnerPcs, ReaderPcs
<1>5. OwnRow(r, "over", w, s)' /\ ReadRow("over", o)'
  BY <1>1, <1>2 DEF OwnRow, ReadRow, ReaderPcs, OwnerPcs, RowIs
<1>6. Undisturbed => \A d \in Draft : Live(d) => d = s
  BY DEF DraftInv, OneInv, ReaderPcs
<1>7. InTime => Shows(s, row.p)
  BY DEF DraftInv, ShownInv, ReaderPcs
<1>8. ~Create(s, "none")
  BY DEF Create
<1> QED
  BY <1>1, <1>2, <1>3, <1>4, <1>5, <1>6, <1>7, <1>8, Held, RowStep DEF RowIs, OwnerPcs, ReaderPcs

LEMMA ClearStep ==
  ASSUME NamesDiffer, DraftInv, NEW r \in Request, pc[r] \in {"replace", "unlink"}, StillLinked(r),
         row' = [row EXCEPT !.state = "idle", !.media = None, !.adding = FALSE],
         NEW x \in {"claim", "over"},
         NEW w, w = want[r], NEW s, s = seen[r], NEW o, o = op[r],
         Moves(r, x, w, s, o, "none"),
         mapped' = {}, UNCHANGED <<box, late, spent>>
  PROVE  DraftInv'
<1>1. /\ row.op # r /\ row.op # None /\ s \in Draft /\ box[s] = "deleted"
      /\ row.state \in {"idle", "ready"} /\ row.media = s
  BY Here, Held DEF Found, HasRead, Types, OwnerPcs, ReaderPcs, StillLinked
<1>2. RowIs("idle", row.p, None, row.op, FALSE)
  BY <1>1, Held DEF RowIs, Rows
<1>3. RowOK' /\ RowKeeps(r) /\ ~MayHaveAdded
  BY <1>1, <1>2, Held DEF RowIs, RowOK, RowKeeps, MayHaveAdded, NamesDiffer
<1>4. /\ Types(x, w, s, o, "none") /\ HasRead(x, w, s)
      /\ Calls(x, s, "none") /\ Found(x, s, "none")
  BY <1>1, Here DEF Types, HasRead, Calls, Found, Pcs, OwnerPcs, ReaderPcs, NamesDiffer
<1>5. OwnRow(r, x, w, s)' /\ ReadRow(x, o)'
  BY <1>1, <1>2 DEF OwnRow, ReadRow, ReaderPcs, OwnerPcs, RowIs
<1>6. Undisturbed => \A d \in Draft : ~Live(d)
  BY <1>1, <1>3 DEF DraftInv, OneInv, Live, NamesDiffer
<1>7. ~Create(s, "none")
  BY DEF Create
<1> QED
  BY <1>1, <1>2, <1>3, <1>4, <1>5, <1>6, <1>7, Held, RowStep DEF RowIs, OwnerPcs, ReaderPcs

LEMMA RecoverStep ==
  ASSUME NamesDiffer, DraftInv, NEW r \in Request, pc[r] = "recover", row.state = "uncertain",
         row' = [row EXCEPT !.state = "ready", !.media = seen[r], !.adding = FALSE],
         NEW w, w = want[r], NEW s, s = seen[r], NEW o, o = op[r],
         Moves(r, "over", w, s, o, "none"),
         late' = IF Live(s) THEN late ELSE late \cup {"recovery"},
         UNCHANGED <<mapped, box, spent>>
  PROVE  DraftInv'
<1>1. /\ row.op # r /\ row.op # None /\ row.op \in Request
      /\ s \in Draft /\ s # None /\ box[s] # None
  BY Here, Held DEF Found, HasRead, Types, OwnerPcs, ReaderPcs
<1>2. RowIs("ready", row.p, s, row.op, FALSE)
  BY <1>1, Held DEF RowIs, Rows
<1>3. RowOK' /\ RowKeeps(r)
  BY <1>1, <1>2, Held DEF RowIs, RowOK, RowKeeps, NamesDiffer
<1>4. /\ Types("over", w, s, o, "none") /\ HasRead("over", w, s)
      /\ Calls("over", s, "none") /\ Found("over", s, "none")
  BY <1>1, Here DEF Types, HasRead, Calls, Found, Pcs, OwnerPcs, ReaderPcs
<1>5. OwnRow(r, "over", w, s)' /\ ReadRow("over", o)'
  BY <1>1, <1>2 DEF OwnRow, ReadRow, ReaderPcs, OwnerPcs, RowIs
<1>6. Undisturbed' \/ InTime' => Live(s)
  BY DEF Undisturbed, InTime
<1>7. Undisturbed /\ Live(s) => s = seen[row.op]
  BY <1>1 DEF DraftInv, OneInv
<1>8. Undisturbed /\ Live(s) => \A d \in Draft : Live(d) => d = s
  BY <1>7 DEF DraftInv, OneInv
<1>9. InTime /\ Live(s) => Shows(s, row.p)
  <2>1. InTime => Undisturbed
    BY DEF InTime, Undisturbed
  <2>2. InTime => Shows(seen[row.op], want[row.op])
    BY <1>1 DEF DraftInv, ShownInv, HasWritten
  <2>3. row.p = want[row.op]
    BY <1>1, Here DEF OwnRow
  <2> QED BY <1>7, <2>1, <2>2, <2>3
<1>10. ~Create(s, "none")
  BY DEF Create
<1>11. late \subseteq late' /\ late' \subseteq {"update", "recovery"}
  BY Held
<1> QED
  BY <1>1, <1>2, <1>3, <1>4, <1>5, <1>6, <1>8, <1>9, <1>10, <1>11, Held, RowStep
     DEF RowIs, OwnerPcs, ReaderPcs

-----------------------------------------------------------------------------
(* WeChat and its editors *)

LEMMA WechatAddsStep ==
  ASSUME NamesDiffer, DraftInv, NEW r \in Request, WechatAdds(r)
  PROVE  DraftInv'
<1>1. PICK d \in Draft :
        box[d] = None /\ box' = [box EXCEPT ![d] = want[r]] /\ seen' = [seen EXCEPT ![r] = d]
  BY DEF WechatAdds
<1>2. /\ call[r] = "sent" /\ seen[r] = None /\ call' = [call EXCEPT ![r] = "done"]
      /\ UNCHANGED <<row, mapped, pc, want, op, late, spent>>
  BY DEF WechatAdds
<1>3. PICK x, w, o : x = pc[r] /\ w = want[r] /\ o = op[r]
  OBVIOUS
<1>4. Moves(r, x, w, d, o, "done")
  BY <1>1, <1>2, <1>3 DEF Moves, DraftInv, PlaceInv
<1>5. /\ x \in {"add", "unknown", "mark unknown", "over"} /\ w \in Projection /\ d # None
      /\ Types(x, w, d, o, "done") /\ HasRead(x, w, d) /\ Calls(x, d, "done")
  BY <1>2, <1>3, Here DEF Types, HasRead, Calls, Pcs, OwnerPcs, ReaderPcs, NamesDiffer
<1>6. /\ RowOK' /\ RowKeeps(r) /\ BoxOK' /\ BoxKeeps
      /\ row.media # None => box'[row.media] # None
  BY <1>1, <1>2, <1>5, Held
     DEF DraftInv, PlaceInv, RowOK, RowKeeps, BoxOK, BoxKeeps, NamesDiffer
<1>7. box'[d] = w /\ \A e \in Draft \ {d} : box'[e] = box[e]
  BY <1>1, <1>3 DEF DraftInv, PlaceInv, BoxOK
<1>8. Local(r, x, w, d, o, "done")'
  <2>1. Found(x, d, "done")'
    BY <1>5, <1>7 DEF Found, NamesDiffer
  <2>2. OwnRow(r, x, w, d)' /\ ReadRow(x, o)'
    BY <1>2, <1>3, <1>5, Here DEF OwnRow, ReadRow, ReaderPcs, OwnerPcs
  <2> QED BY <1>5, <2>1, <2>2 DEF Local, Types, HasRead, Calls
<1>9. PlaceInv'
  <2>1. mapped' \subseteq Projection /\ late' \subseteq {"update", "recovery"}
        /\ (row'.media # None => box'[row'.media] # None)
    BY <1>2, <1>6, Held
  <2>2. pc[r] \in OwnerPcs => x \in OwnerPcs
    BY <1>3
  <2> QED BY <1>4, <1>6, <1>8, <2>1, <2>2, PlaceStep DEF DraftInv
<1>10. Undisturbed => row.op = r /\ MayHaveAdded /\ \A e \in Draft : ~Live(e)
  BY <1>2 DEF DraftInv, OneInv, Create, NamesDiffer
<1>11. OneInv'
  <2> SUFFICES ASSUME Undisturbed PROVE
      /\ \A q \in Request : Create(seen[q], call[q])' => row'.op = q /\ MayHaveAdded'
      /\ \A e \in Draft : Live(e)' =>
           /\ row'.op # None /\ e = seen'[row'.op]
           /\ row'.media = e \/ MayHaveAdded'
           /\ \A q \in Request : pc'[q] \in ReaderPcs /\ op'[q] = row'.op => e = seen'[q]
    BY <1>2 DEF OneInv, Undisturbed
  <2>1. ASSUME NEW q \in Request PROVE ~Create(seen'[q], call'[q])
    BY <1>1, <1>2, <1>10 DEF Create, DraftInv, PlaceInv, OneInv
  <2>2. ASSUME NEW e \in Draft, Live(e)' PROVE e = d
    BY <1>7, <1>10, <2>2 DEF Live
  <2>3. row'.op = r /\ r # None /\ seen'[r] = d /\ MayHaveAdded'
    BY <1>1, <1>2, <1>10 DEF MayHaveAdded, NamesDiffer, DraftInv, PlaceInv
  <2>4. ASSUME NEW q \in Request, pc[q] \in ReaderPcs PROVE op[q] # r
    BY <1>10, <2>4, Here DEF ReadRow, MayHaveAdded
  <2> QED BY <1>2, <2>1, <2>2, <2>3, <2>4
<1>12. ShownInv'
  <2>1. ASSUME NEW e \in Draft, NEW p \in Projection \cup {None}, box[e] # None, Shows(e, p)
        PROVE  Shows(e, p)'
    BY <1>1, <1>7, <2>1 DEF Shows
  <2>2. InTime' => InTime /\ Undisturbed
    BY <1>2 DEF InTime, Undisturbed
  <2>3. InTime => row.state # "ready"
    BY <1>10 DEF MayHaveAdded, InTime, Undisturbed
  <2>4. Shows(d, w)'
    BY <1>7 DEF Shows
  <2>5. x \notin ReaderPcs
    BY <1>5 DEF ReaderPcs
  <2> QED BY <1>2, <1>4, <1>6, <2>1, <2>2, <2>3, <2>4, <2>5, ShownStep DEF DraftInv
<1> QED BY <1>9, <1>11, <1>12 DEF DraftInv

LEMMA WechatUpdatesStep ==
  ASSUME NamesDiffer, DraftInv, NEW r \in Request, WechatUpdates(r)
  PROVE  DraftInv'
<1>1. PICK x, w, s, o : x = pc[r] /\ w = want[r] /\ s = seen[r] /\ o = op[r]
  OBVIOUS
<1>2. PICK c : /\ Moves(r, x, w, s, o, c)
               /\ \/ c = "done" /\ Live(s) /\ box' = [box EXCEPT ![s] = w]
                  \/ c = "missing" /\ ~Live(s) /\ box' = box
  BY <1>1 DEF WechatUpdates, local, Moves, DraftInv, PlaceInv
<1>3. /\ call[r] = "sent" /\ s # None /\ UNCHANGED <<row, mapped, pc, want, seen, op, spent>>
      /\ late' = IF Owns(r) /\ x = "update" THEN late ELSE late \cup {"update"}
  BY <1>1 DEF WechatUpdates, local
<1>4. /\ s \in Draft /\ box[s] # None /\ w \in Projection
      /\ x \in {"update", "failed", "mark failed", "over", "add", "unknown", "mark unknown"}
      /\ x # "add"
      /\ Types(x, w, s, o, c) /\ HasRead(x, w, s) /\ Calls(x, s, c)
  BY <1>1, <1>2, <1>3, Here DEF Types, HasRead, Calls, Found, Pcs, OwnerPcs, ReaderPcs, NamesDiffer
<1>5. /\ c = "missing" => box[s] = "deleted" /\ box' = box
      /\ c = "done" => box'[s] = w /\ box[s] \in Projection
      /\ \A d \in Draft \ {s} : box'[d] = box[d]
  BY <1>2, <1>4 DEF Live, DraftInv, PlaceInv, BoxOK
<1>6. /\ RowOK' /\ RowKeeps(r) /\ BoxOK' /\ BoxKeeps /\ mapped' \subseteq Projection
      /\ late \subseteq late' /\ late' \subseteq {"update", "recovery"}
  <2>1. BoxOK' /\ BoxKeeps
    BY ZenonT(30), <1>2, <1>4, <1>5 DEF DraftInv, PlaceInv, BoxOK, BoxKeeps, NamesDiffer
  <2> QED BY <1>3, <2>1, Held DEF DraftInv, PlaceInv, RowOK, RowKeeps
<1>7. PlaceInv'
  <2>1. Found(x, s, c)'
    BY <1>2, <1>4, <1>5 DEF Found, NamesDiffer
  <2>2. OwnRow(r, x, w, s)' /\ ReadRow(x, o)'
    BY <1>1, <1>3, <1>4, Here DEF OwnRow, ReadRow, ReaderPcs
  <2>3. Local(r, x, w, s, o, c)'
    BY <1>4, <2>1, <2>2 DEF Local, Types, HasRead, Calls
  <2>4. row'.media # None => box'[row'.media] # None
    BY <1>3, <1>6, Held DEF BoxKeeps
  <2> QED BY <1>1, <1>2, <1>6, <2>3, <2>4, PlaceStep DEF DraftInv
<1>8. OneInv'
  <2>1. ASSUME NEW d \in Draft, Live(d)' PROVE Live(d)
    BY <1>2, <1>4, <1>5, <2>1 DEF Live, NamesDiffer
  <2>2. /\ Undisturbed' => Undisturbed
        /\ MayHaveAdded' = MayHaveAdded
    BY <1>3, <1>6 DEF Undisturbed, MayHaveAdded
  <2>3. ~Create(s, c) /\ x \notin ReaderPcs
    BY <1>3, <1>4 DEF Create, ReaderPcs
  <2>4. Undisturbed => \A d \in Draft : Live(d) =>
          (row.op = r => d = s) /\ (row.media = d \/ MayHaveAdded)
    BY <1>1 DEF DraftInv, OneInv
  <2> QED BY <1>2, <1>3, <1>6, <2>1, <2>2, <2>3, <2>4, OneStep DEF DraftInv
<1>9. ShownInv'
  <2> SUFFICES ASSUME InTime' PROVE
      /\ row'.state = "ready" => Shows(row.media, row.p)'
      /\ \A q \in Request :
          /\ row'.op = q /\ HasWritten(pc[q], call[q])' => Shows(seen[q], want[q])'
          /\ pc'[q] \in ReaderPcs /\ op'[q] = row'.op => Shows(seen[q], row.p)'
    BY DEF ShownInv
  <2>1. row.op = r /\ x = "update"
    BY <1>3 DEF InTime, Owns
  <2>2. row.state = "creating" /\ row'.state = "creating"
    BY <1>1, <1>3, <2>1, Here DEF OwnRow
  <2>3. ASSUME NEW q \in Request, row'.op = q PROVE Shows(seen[q], want[q])'
    <3>1. q = r /\ seen'[q] = s /\ want'[q] = w
      BY <1>1, <1>3, <2>1, <2>3
    <3>2. box'[s] \in {w, "deleted"}
      BY <1>2, <1>5
    <3> QED BY <3>1, <3>2 DEF Shows
  <2>4. ASSUME NEW q \in Request, pc'[q] \in ReaderPcs PROVE op'[q] # row'.op
    BY <1>3, <2>2, <2>4, Here DEF ReadRow
  <2> QED BY <2>2, <2>3, <2>4
<1> QED BY <1>7, <1>8, <1>9 DEF DraftInv

LEMMA DeleteStep ==
  ASSUME NamesDiffer, DraftInv, NEW d \in Draft, DeleteByHand(d)
  PROVE  DraftInv'
<1>1. /\ Live(d) /\ box' = [box EXCEPT ![d] = "deleted"] /\ spent \subseteq spent'
      /\ UNCHANGED <<row, mapped, pc, want, seen, op, call, late>>
  BY DEF DeleteByHand, Once, local
<1>2. /\ BoxOK' /\ box[d] \in Projection /\ box'[d] = "deleted"
      /\ \A e \in Draft \ {d} : box'[e] = box[e]
  BY <1>1 DEF DraftInv, PlaceInv, BoxOK, Live
<1>3. BoxKeeps /\ (\A e \in Draft : Live(e)' => Live(e))
  BY <1>2 DEF BoxKeeps, Live, NamesDiffer
<1>4. PlaceInv'
  <2>1. ASSUME NEW r \in Request
        PROVE  Local(r, pc[r], want[r], seen[r], op[r], call[r])'
    <3>1. Found(pc[r], seen[r], call[r])'
      BY <1>1, <1>3, Here DEF Found, BoxKeeps, Types
    <3> QED BY <1>1, <3>1, Here DEF Local, Types, HasRead, Calls, OwnRow, ReadRow
  <2>2. RowOK'
    BY <1>1 DEF DraftInv, PlaceInv, RowOK
  <2>3. (row.media # None => box[row.media] # None)'
    BY <1>1, <1>3, Held DEF BoxKeeps
  <2> QED BY <1>1, <1>2, <2>1, <2>2, <2>3 DEF DraftInv, PlaceInv
<1>5. OneInv'
  BY <1>1, <1>3 DEF DraftInv, OneInv, Undisturbed, MayHaveAdded
<1>6. ShownInv'
  <2>1. ASSUME NEW e \in Draft \cup {None}, NEW p, Shows(e, p) PROVE Shows(e, p)'
    BY <1>2, <2>1 DEF Shows
  <2> SUFFICES ASSUME InTime' PROVE
      /\ row'.state = "ready" => Shows(row.media, row.p)'
      /\ \A q \in Request :
          /\ row'.op = q /\ HasWritten(pc[q], call[q])' => Shows(seen[q], want[q])'
          /\ pc'[q] \in ReaderPcs /\ op'[q] = row'.op => Shows(seen[q], row.p)'
    BY DEF ShownInv
  <2>2. InTime
    BY <1>1 DEF InTime
  <2>3. row.media \in Draft \cup {None}
    BY Held DEF Rows
  <2>4. row'.state = "ready" => Shows(row.media, row.p)'
    <3>1. PICK p, m : p = row.p /\ m = row.media
      OBVIOUS
    <3>2. row.state = "ready" => Shows(m, p)
      BY <2>2, <3>1 DEF DraftInv, ShownInv
    <3>3. row.state = "ready" => Shows(m, p)'
      BY <2>1, <2>3, <3>1, <3>2
    <3> QED BY <1>1, <3>1, <3>3 DEF Shows
  <2>5. ASSUME NEW q \in Request
        PROVE  /\ row'.op = q /\ HasWritten(pc[q], call[q])' => Shows(seen[q], want[q])'
               /\ pc'[q] \in ReaderPcs /\ op'[q] = row'.op => Shows(seen[q], row.p)'
    <3>1. PICK p, w, s : p = row.p /\ w = want[q] /\ s = seen[q]
      OBVIOUS
    <3>2. s \in Draft \cup {None}
      BY <3>1, Here DEF Types
    <3>3. /\ row.op = q /\ HasWritten(pc[q], call[q]) => Shows(s, w)
          /\ pc[q] \in ReaderPcs /\ op[q] = row.op => Shows(s, p)
      BY <2>2, <3>1 DEF DraftInv, ShownInv
    <3>4. HasWritten(pc[q], call[q])' => HasWritten(pc[q], call[q])
      BY <1>1 DEF HasWritten
    <3>5. (Shows(s, w) => Shows(s, w)') /\ (Shows(s, p) => Shows(s, p)')
      BY <2>1, <3>2
    <3> QED BY <1>1, <3>1, <3>3, <3>4, <3>5 DEF Shows
  <2> QED BY <2>4, <2>5
<1> QED BY <1>4, <1>5, <1>6 DEF DraftInv

LEMMA ResetStep ==
  ASSUME NamesDiffer, DraftInv, Reset
  PROVE  DraftInv'
<1>1. /\ row' = [row EXCEPT !.state = "idle", !.p = None, !.op = None, !.adding = FALSE]
      /\ row.media = None /\ "reset" \in spent'
      /\ UNCHANGED <<mapped, box, pc, want, seen, op, call, late>>
  BY DEF Reset, Once, local
<1>2. RowIs("idle", None, None, None, FALSE)
  BY <1>1, Held DEF RowIs, Rows
<1>3. PlaceInv'
  <2>1. RowOK'
    BY <1>2 DEF RowIs, RowOK
  <2>2. ASSUME NEW r \in Request
        PROVE  Local(r, pc[r], want[r], seen[r], op[r], call[r])'
    <3>1. Types(pc[r], want[r], seen[r], op[r], call[r])' /\ HasRead(pc[r], want[r], seen[r])'
      BY <1>1, Here DEF Types, HasRead
    <3>2. Calls(pc[r], seen[r], call[r])' /\ Found(pc[r], seen[r], call[r])'
      BY <1>1, Here DEF Calls, Found
    <3>3. OwnRow(r, pc[r], want[r], seen[r])'
      BY <1>2 DEF OwnRow, RowIs, NamesDiffer
    <3>4. ReadRow(pc[r], op[r])'
      BY <1>1, <1>2, Here DEF ReadRow, RowIs
    <3> QED BY <3>1, <3>2, <3>3, <3>4 DEF Local
  <2> QED BY <1>1, <1>2, <2>1, <2>2 DEF DraftInv, PlaceInv, BoxOK, RowIs
<1>4. OneInv' /\ ShownInv'
  BY <1>1 DEF OneInv, ShownInv, Undisturbed, InTime
<1> QED BY <1>3, <1>4 DEF DraftInv

-----------------------------------------------------------------------------
(* Every step *)

\* A request goes on with the draft, the operation and the call it has.
LEMMA Stays ==
  ASSUME DraftInv, NEW r \in Request
  PROVE  /\ want = [want EXCEPT ![r] = want[r]] /\ seen = [seen EXCEPT ![r] = seen[r]]
         /\ op = [op EXCEPT ![r] = op[r]] /\ call = [call EXCEPT ![r] = call[r]]
         /\ pc[r] \notin OwnerPcs => call[r] = "none"
BY Here DEF DraftInv, PlaceInv, Calls

LEMMA ClaimStep ==
  ASSUME NamesDiffer, DraftInv, NEW r \in Request, Claim(r)
  PROVE  DraftInv'
<1>1. PICK expired : expired = (row.state = "creating" /\ ~fresh)
  OBVIOUS
<1>2. PICK w, s, o : w = want[r] /\ s = seen[r] /\ o = op[r]
  OBVIOUS
<1>3. PICK m, q : m = row.media /\ q = row.op
  OBVIOUS
<1>4. /\ pc[r] = "claim" /\ UNCHANGED <<mapped, want, call, box, late, spent>>
      /\ call[r] = "none"
  BY Stays DEF Claim, OwnerPcs
<1>5. CASE row.state = "ready" /\ row.p = want[r]
  <2>1. PICK x :
          /\ GoTo(r, x) /\ x = IF want[r] \in mapped THEN "check" ELSE "over"
          /\ seen' = [seen EXCEPT ![r] = row.media] /\ op' = [op EXCEPT ![r] = row.op]
          /\ UNCHANGED row
    BY <1>5 DEF Claim
  <2>2. Moves(r, x, w, m, q, "none") /\ q # None
    BY <1>2, <1>3, <1>4, <1>5, <2>1, Stays, Held DEF Moves, GoTo
  <2>3. CASE x = "check"
    BY <1>2, <1>3, <1>4, <1>5, <2>1, <2>2, <2>3, CheckStep
  <2>4. CASE x = "over"
    BY <1>2, <1>3, <1>4, <2>1, <2>2, <2>4, LeavesStep
  <2> QED BY <2>1, <2>3, <2>4
<1>6. CASE row.state = "creating" /\ fresh
  <2>1. Moves(r, "over", w, s, o, "none") /\ UNCHANGED row
    BY <1>2, <1>4, <1>6, Stays DEF Moves, GoTo, Claim
  <2> QED BY <1>2, <1>4, <2>1, LeavesStep
<1>7. CASE row.state = "uncertain" \/ (row.state = "creating" /\ ~fresh /\ ~Reclaimable)
  <2>1. PICK x \in {"search", "over"} :
          GoTo(r, x) /\ UNCHANGED <<seen, op>> /\ row' = [row EXCEPT !.state = "uncertain"]
    BY <1>7 DEF Claim
  <2>2. Moves(r, x, w, s, o, "none")
    BY <1>2, <1>4, <2>1, Stays DEF Moves, GoTo
  <2>3. CASE row.state = "uncertain"
    <3>1. row' = row
      BY <2>1, <2>3, Held DEF Rows
    <3> QED BY <1>2, <1>4, <2>2, <3>1, LeavesStep
  <2>4. CASE row.state = "creating" /\ row.adding /\ row.media = None
    BY <1>2, <1>4, <2>1, <2>2, <2>4, SuspectsStep
  <2> QED BY <1>7, <2>3, <2>4 DEF Reclaimable
<1>8. CASE /\ ~(row.state = "ready" /\ row.p = want[r]) /\ ~(row.state = "creating" /\ fresh)
           /\ row.state # "uncertain" /\ (row.state = "creating" /\ ~fresh => Reclaimable)
  <2>1. /\ row' = [row EXCEPT !.state = "creating", !.p = want[r], !.op = r, !.adding = FALSE]
        /\ GoTo(r, "upload")
        /\ seen' = [seen EXCEPT ![r] = row.media] /\ op' = [op EXCEPT ![r] = r]
    BY <1>8 DEF Claim, Update
  <2>2. Moves(r, "upload", w, m, r, "none")
    BY <1>2, <1>3, <1>4, <2>1, Stays DEF Moves, GoTo
  <2> QED BY <1>2, <1>3, <1>4, <1>8, <2>1, <2>2, TakesStep DEF Reclaimable
<1> QED BY <1>5, <1>6, <1>7, <1>8

LEMMA OwnerStep ==
  ASSUME NamesDiffer, DraftInv, NEW r \in Request,
         MarkAddStarted(r) \/ Record(r) \/ MarkReady(r) \/ MarkFailed(r)
  PROVE  DraftInv'
<1>1. PICK w, s, o, c : w = want[r] /\ s = seen[r] /\ o = op[r] /\ c = call[r]
  OBVIOUS
<1>2. UNCHANGED <<mapped, want, op, box, late, spent>> /\ pc[r] # "idle"
  BY DEF MarkAddStarted, Record, MarkReady, MarkFailed
<1>3. CASE ~Owns(r)
  <2>1. GoTo(r, "over") /\ UNCHANGED <<row, seen, call>>
    BY <1>3 DEF MarkAddStarted, Record, MarkReady, MarkFailed
  <2>2. Moves(r, "over", w, s, o, c)
    BY <1>1, <1>2, <2>1, Stays DEF Moves, GoTo
  <2> QED BY <1>1, <1>2, <2>1, <2>2, LeavesStep
<1>4. CASE Owns(r) /\ MarkAddStarted(r)
  <2>1. /\ pc[r] = "mark" /\ row.op = r /\ row' = [row EXCEPT !.media = None, !.adding = TRUE]
        /\ Moves(r, "add", w, None, o, "sent")
    BY <1>1, <1>4, Stays DEF MarkAddStarted, Owns, Update, Moves, GoTo
  <2> QED BY <1>1, <1>2, <2>1, MarkStep
<1>5. CASE Owns(r) /\ Record(r)
  <2>1. /\ pc[r] = "record" /\ row.op = r /\ row' = [row EXCEPT !.media = seen[r]]
        /\ Moves(r, "ready", w, s, o, c)
    BY <1>1, <1>5, Stays DEF Record, Owns, Update, Moves, GoTo
  <2> QED BY <1>1, <1>2, <2>1, RecordStep
<1>6. CASE Owns(r) /\ MarkReady(r)
  <2>1. /\ pc[r] = "ready" /\ row.op = r
        /\ row' = [row EXCEPT !.state = "ready", !.media = seen[r], !.adding = FALSE]
        /\ Moves(r, "over", w, s, o, c)
    BY <1>1, <1>6, Stays DEF MarkReady, Owns, Update, Moves, GoTo
  <2> QED BY <1>1, <1>2, <2>1, ReadyStep
<1>7. CASE Owns(r) /\ MarkFailed(r)
  <2>1. /\ pc[r] \in {"mark failed", "mark unknown"} /\ row.op = r
        /\ row' = [row EXCEPT !.state = NextState(r)] /\ Moves(r, "over", w, s, o, c)
    BY <1>1, <1>7, Stays DEF MarkFailed, Owns, Update, Moves, GoTo
  <2> QED BY <1>1, <1>2, <2>1, FailedStep
<1> QED BY <1>3, <1>4, <1>5, <1>6, <1>7

LEMMA ReaderStep ==
  ASSUME NamesDiffer, DraftInv, NEW r \in Request,
         Confirm(r) \/ ClearMissing(r) \/ Recover(r)
  PROVE  DraftInv'
<1>1. PICK w, s, o : w = want[r] /\ s = seen[r] /\ o = op[r]
  OBVIOUS
<1>2. /\ UNCHANGED <<want, seen, op, call, box, spent>> /\ call[r] = "none"
      /\ pc[r] \in {"confirm", "replace", "unlink", "recover"}
  BY Stays DEF Confirm, ClearMissing, Recover, OwnerPcs
<1>3. \A x : GoTo(r, x) => Moves(r, x, w, s, o, "none")
  BY <1>1, <1>2, Stays DEF Moves, GoTo
<1>4. CASE GoTo(r, "over") /\ UNCHANGED <<row, late, mapped>>
  BY <1>1, <1>2, <1>3, <1>4, LeavesStep
<1>5. CASE Confirm(r)
  <2>1. CASE row.op = op[r] /\ Update([row EXCEPT !.state = "ready", !.media = seen[r], !.adding = FALSE])
    <3>1. pc[r] = "confirm" /\ Moves(r, "over", w, s, o, "none") /\ UNCHANGED <<mapped, late>>
      BY <1>3, <1>5 DEF Confirm
    <3> QED BY <1>1, <1>2, <2>1, <3>1, ConfirmStep DEF Update
  <2> QED BY <1>4, <1>5, <2>1 DEF Confirm
<1>6. CASE ClearMissing(r)
  <2>1. CASE StillLinked(r)
    <3>1. PICK x \in {"claim", "over"} : Moves(r, x, w, s, o, "none")
      BY <1>3, <1>6, <2>1 DEF ClearMissing
    <3>2. /\ pc[r] \in {"replace", "unlink"} /\ UNCHANGED late /\ mapped' = {}
          /\ row' = [row EXCEPT !.state = "idle", !.media = None, !.adding = FALSE]
      BY <1>6, <2>1 DEF ClearMissing, Update
    <3> QED BY <1>1, <1>2, <2>1, <3>1, <3>2, ClearStep
  <2> QED BY <1>4, <1>6, <2>1 DEF ClearMissing
<1>7. CASE Recover(r)
  <2>1. CASE row.state = "uncertain"
    <3>1. /\ pc[r] = "recover" /\ UNCHANGED mapped /\ Moves(r, "over", w, s, o, "none")
          /\ row' = [row EXCEPT !.state = "ready", !.media = seen[r], !.adding = FALSE]
          /\ late' = IF Live(s) THEN late ELSE late \cup {"recovery"}
      BY <1>1, <1>3, <1>7, <2>1 DEF Recover, Update
    <3> QED BY <1>1, <1>2, <2>1, <3>1, RecoverStep
  <2> QED BY <1>4, <1>7, <2>1 DEF Recover
<1> QED BY <1>5, <1>6, <1>7

LEMMA DraftInit ==
  ASSUME NamesDiffer, Init
  PROVE  DraftInv
<1>1. PlaceInv
  <2>1. RowOK /\ BoxOK
    BY DEF Init, RowOK, Rows, BoxOK
  <2>2. ASSUME NEW r \in Request PROVE Local(r, "idle", None, None, None, "none")
    BY DEF Init, Local, Types, HasRead, Calls, Found, OwnRow, ReadRow, Pcs, OwnerPcs, ReaderPcs,
           NamesDiffer
  <2> QED BY <2>1, <2>2 DEF Init, PlaceInv, Pcs
<1>2. OneInv
  BY DEF Init, OneInv, Create, Live, NamesDiffer
<1>3. ShownInv
  BY DEF Init, ShownInv, Shows, NamesDiffer
<1> QED BY <1>1, <1>2, <1>3 DEF DraftInv

LEMMA DraftNext ==
  ASSUME NamesDiffer, DraftInv, [Next]_vars
  PROVE  DraftInv'
<1>1. CASE \E r \in Request : (\E p \in Projection : Publish(r, p)) \/ Preview(r)
  BY <1>1, Begins
<1>2. ASSUME NEW r \in Request, Operate(r)
      PROVE  DraftInv'
  BY <1>2, Begins, ClaimStep, UploadStep, OwnerStep, ReaderStep, HearStep, GoOn DEF Operate
<1>3. CASE \E r \in Request : WechatAdds(r) \/ WechatUpdates(r)
  BY <1>3, WechatAddsStep, WechatUpdatesStep
<1>4. CASE \E r \in Request : CoverExpired(r) \/ Rejected(r) \/ Lost(r) \/ Die(r)
  BY <1>4, CallFails, GoOn
<1>5. CASE LeaseExpires
  <2>1. UNCHANGED <<row, mapped, local, call, box, late>> /\ spent \subseteq spent'
    BY <1>5 DEF LeaseExpires, Once
  <2> QED BY <2>1, LeaseStep
<1>6. CASE Reset
  BY <1>6, ResetStep
<1>7. CASE \E d \in Draft : DeleteByHand(d)
  BY <1>7, DeleteStep
<1>8. CASE UNCHANGED vars
  <2>1. UNCHANGED <<row, mapped, local, call, box, late>> /\ spent \subseteq spent'
    BY <1>8 DEF vars
  <2> QED BY <2>1, LeaseStep
<1> QED BY <1>1, <1>2, <1>3, <1>4, <1>5, <1>6, <1>7, <1>8 DEF Next

LEMMA DraftAlways ==
  ASSUME NamesDiffer
  PROVE  Spec => []DraftInv
<1>1. Init => DraftInv
  BY DraftInit
<1>2. DraftInv /\ [Next]_vars => DraftInv'
  BY DraftNext
<1> QED BY <1>1, <1>2, PTL DEF Spec

\* The states, drafts and operations of the row, the images mapped, the calls at
\* WeChat and the history stay what the columns of wxpost_wechat_drafts may hold;
\* a ready row has a draft and a projection.
THEOREM RowIsTyped ==
  ASSUME NamesDiffer
  PROVE  Spec => []TypeOK
<1>1. DraftInv => TypeOK
  BY DEF DraftInv, PlaceInv, RowOK, Rows, TypeOK
<1> QED BY <1>1, DraftAlways, PTL

\* The draft box holds at most one draft of a workspace, for any number of
\* requests that publish it: whatever is lost, dies, expires or is taken over,
\* claim_wxpost_wechat_draft gives the row to another operation only when no
\* addition may be on its way, and an addition goes out only from the row.
THEOREM BoxHoldsOneDraft ==
  ASSUME NamesDiffer
  PROVE  Spec => []OneDraft
<1>1. ASSUME OneInv PROVE OneDraft
  <2>1. CASE Undisturbed
    <3>1. {d \in Draft : Live(d)} \subseteq {seen[row.op]}
      BY <1>1, <2>1 DEF OneInv
    <3>2. IsFiniteSet({seen[row.op]}) /\ Cardinality({seen[row.op]}) = 1
      BY FS_Singleton
    <3>3. /\ Cardinality({d \in Draft : Live(d)}) <= 1
      BY <3>1, <3>2, FS_Subset
    <3> QED BY <3>3 DEF OneDraft
  <2>2. CASE ~Undisturbed
    BY <2>2 DEF Undisturbed, OneDraft
  <2> QED BY <2>1, <2>2
<1>2. DraftInv => OneDraft
  BY <1>1 DEF DraftInv
<1> QED BY <1>2, DraftAlways, PTL

\* A ready row names a draft that shows the row's projection or was deleted by
\* hand: mark_projection_ready and a readback are recorded only under the
\* operation that wrote the draft, and a recovery links the draft it found.
THEOREM ReadyRowsShowTheirDraft ==
  ASSUME NamesDiffer
  PROVE  Spec => []ReadyIsShown
<1>1. ASSUME PlaceInv, ShownInv PROVE ReadyIsShown
  BY <1>1 DEF PlaceInv, RowOK, ShownInv, Shows, InTime, ReadyIsShown
<1>2. DraftInv => ReadyIsShown
  BY <1>1 DEF DraftInv
<1> QED BY <1>2, DraftAlways, PTL

\* Both together.
THEOREM DraftsAreShown ==
  ASSUME NamesDiffer
  PROVE  Spec => []DraftIsShown
<1> QED BY BoxHoldsOneDraft, ReadyRowsShowTheirDraft, PTL DEF DraftIsShown

-----------------------------------------------------------------------------
(* An article's edits                                                      *)

\* Sets of numbers have a first one: what is defined step by step is proved by it.
LEMMA FirstOf ==
  ASSUME NEW S \in SUBSET Nat, S # {}
  PROVE  \E n \in S : \A k \in S : n <= k
<1> DEFINE R == OpToRel(<, Nat)
<1>1. IsWellFoundedOn(R, Nat)
  BY NatLessThanWellFounded
<1>2. \A x, y \in Nat : <<x, y>> \in R <=> x < y
  BY DEF OpToRel
<1> HIDE DEF R
<1>3. PICK n \in S : \A k \in S : ~ (<<k, n>> \in R)
  BY <1>1, WFMin
<1>4. \A k \in S : k \in Nat /\ n \in Nat /\ ~ (k < n)
  BY <1>2, <1>3
<1> QED BY <1>3, <1>4

\* What holds of 0, and of each number when it holds of the one before.
LEMMA StepByStep ==
  ASSUME NEW n \in Nat, NEW Good, 0 \in Good, \A k \in 1..n : k - 1 \in Good => k \in Good
  PROVE  \A k \in 0..n : k \in Good
<1> DEFINE Bad == {k \in 0..n : k \notin Good}
<1>1. SUFFICES ASSUME Bad # {} PROVE FALSE
  OBVIOUS
<1>2. PICK k \in Bad : \A j \in Bad : k <= j
  <2>1. Bad \in SUBSET Nat
    OBVIOUS
  <2> HIDE DEF Bad
  <2> QED BY <1>1, <2>1, FirstOf
<1>3. k \in 1..n /\ k \notin Good
  BY <1>2
<1>4. k - 1 \in Good
  <2>1. k - 1 \notin Bad /\ k - 1 \in 0..n
    <3> HIDE DEF Bad
    <3> QED BY <1>2, <1>3
  <2> QED BY <2>1
<1> QED BY <1>3, <1>4

\* What is done n times, each time to the result of the time before.
Rounds(g, n, a, step) == g[0] = a /\ \A k \in 1..n : g[k] = step[<<g[k - 1], k>>]

LEMMA RoundsExist ==
  ASSUME NEW S, NEW n \in Nat, NEW a \in S, NEW step \in [S \X (1..n) -> S]
  PROVE  \E g \in [0..n -> S] : Rounds(g, n, a, step)
<1> DEFINE Bad == {k \in 0..n : ~\E g \in [0..k -> S] : Rounds(g, k, a, step)}
<1>1. SUFFICES ASSUME Bad # {} PROVE FALSE
  OBVIOUS
<1>2. PICK k \in Bad : \A j \in Bad : k <= j
  <2>1. Bad \in SUBSET Nat
    OBVIOUS
  <2> HIDE DEF Bad
  <2> QED BY <1>1, <2>1, FirstOf
<1>3. k # 0
  <2>1. [i \in 0..0 |-> a] \in [0..0 -> S] /\ Rounds([i \in 0..0 |-> a], 0, a, step)
    BY DEF Rounds
  <2> QED BY <2>1, <1>2
<1>4. PICK g \in [0..(k - 1) -> S] : Rounds(g, k - 1, a, step)
  <2>1. k \in 1..n
    BY <1>2, <1>3
  <2>2. k - 1 \notin Bad /\ k - 1 \in 0..n
    <3> HIDE DEF Bad
    <3> QED BY <1>2, <2>1
  <2> QED BY <2>2
<1>5. k \in 1..n
  BY <1>2, <1>3
<1> DEFINE new == step[<<g[k - 1], k>>]
           h == [i \in 0..k |-> IF i = k THEN new ELSE g[i]]
<1>6. new \in S
  <2>1. g[k - 1] \in S
    BY <1>4, <1>5
  <2>2. <<g[k - 1], k>> \in S \X (1..n)
    BY <2>1, <1>5
  <2> QED BY <2>2
<1> HIDE DEF new
<1>7. h \in [0..k -> S]
  BY <1>4, <1>5, <1>6
<1>8. Rounds(h, k, a, step)
  <2>1. h[0] = a
    BY <1>4, <1>5 DEF Rounds
  <2>2. ASSUME NEW i \in 1..k PROVE h[i] = step[<<h[i - 1], i>>]
    <3>1. CASE i = k
      <4>1. h[k - 1] = g[k - 1] /\ h[k] = new
        BY <1>5
      <4> QED BY <3>1, <4>1 DEF new
    <3>2. CASE i # k
      <4>1. i \in 1..(k - 1) /\ h[i] = g[i] /\ h[i - 1] = g[i - 1]
        BY <1>5, <3>2
      <4> QED BY <1>4, <4>1 DEF Rounds
    <3> QED BY <3>1, <3>2
  <2> QED BY <2>1, <2>2 DEF Rounds
<1> QED BY <1>2, <1>7, <1>8

\* The lines of a draft.
Plain == {l \in Lines : /\ l.name = "blank" => l = Blank
                        /\ IsText(l) => l.media = <<>>}

Said == Words \cup {"", "heading", "new", "more"}

Covers == Image \cup {NoCover}

LEMMA PlainIs ==
  ASSUME NEW l \in Plain
  PROVE  /\ l.name \in {"blank", "text", "image", "gallery", "person", "section"}
         /\ l.words \in Said /\ l.media \in Seq(Image)
         /\ l = [name |-> l.name, words |-> l.words, media |-> l.media]
         /\ ~IsDirective(l) => l.media = <<>>
         /\ l = Blank <=> l.name = "blank"
         /\ IsDirective(l) <=> ~IsText(l) /\ l # Blank
<1>1. l \in Lines /\ (l.name = "blank" => l = Blank) /\ (IsText(l) => l.media = <<>>)
  BY DEF Plain
<1>2. Blank.name = "blank" /\ Blank.media = <<>>
  BY DEF Blank
<1>3. /\ l.name \in {"blank", "text", "image", "gallery", "person", "section"}
      /\ l.words \in Said /\ l.media \in Seq(Image)
      /\ l = [name |-> l.name, words |-> l.words, media |-> l.media]
  BY <1>1 DEF Lines, Said
<1> QED BY <1>1, <1>2, <1>3 DEF IsDirective, IsText

\* A line with such parts is one.
LEMMA LineIs ==
  ASSUME NEW n \in {"image", "gallery", "person", "section"}, NEW w \in Said, NEW m \in Seq(Image)
  PROVE  LET l == [name |-> n, words |-> w, media |-> m]
         IN l \in Plain /\ IsDirective(l) /\ Images(l) = {m[k] : k \in DOMAIN m}
<1> DEFINE l == [name |-> n, words |-> w, media |-> m]
<1>1. l \in Lines
  BY DEF Lines, Said
<1>2. l.name = n /\ l.media = m /\ n # "blank" /\ n # "text"
  OBVIOUS
<1> HIDE DEF l
<1>3. IsDirective(l) /\ ~IsText(l)
  BY <1>2 DEF IsDirective, IsText
<1>4. l \in Plain
  BY <1>1, <1>2, <1>3 DEF Plain
<1>5. Images(l) = {m[k] : k \in DOMAIN m}
  BY <1>2 DEF Images
<1> QED BY <1>3, <1>4, <1>5 DEF l

LEMMA TextIs ==
  ASSUME NEW w \in Said
  PROVE  Paragraph(w) \in Plain /\ IsText(Paragraph(w)) /\ Paragraph(w) # Blank
<1> DEFINE l == Paragraph(w)
<1>1. l.name = "text" /\ l.words = w /\ l.media = <<>>
  BY DEF Paragraph
<1>2. l \in Lines
  <2>1. <<>> \in Seq(Image)
    OBVIOUS
  <2> QED BY <2>1 DEF Paragraph, Lines, Said
<1>3. Blank.name = "blank"
  BY DEF Blank
<1> HIDE DEF l
<1> QED BY <1>1, <1>2, <1>3 DEF Plain, IsText, l

LEMMA BlankIs == Blank \in Plain /\ ~IsText(Blank) /\ ~IsDirective(Blank)
<1> DEFINE l == Blank
<1>1. l.name = "blank" /\ l.media = <<>>
  BY DEF Blank
<1>2. l \in Lines
  <2>1. <<>> \in Seq(Image) /\ "" \in Said
    BY DEF Said
  <2> QED BY <2>1 DEF Blank, Lines, Said
<1> HIDE DEF l
<1> QED BY <1>1, <1>2 DEF Plain, IsText, IsDirective, l

\* Texts have a blank line after them, unless they come last.
Apart(s) == \A k \in 1..(Len(s) - 1) : IsText(s[k]) => s[k + 1] = Blank

\* What is put in is a text, or an image.
LEMMA SourcesAre ==
  ASSUME NEW s \in Sources
  PROVE  s \in Seq(Plain) /\ Apart(s) /\ s # <<>>
<1> DEFINE a == Paragraph("new")
           b == Paragraph("heading")
           c == Paragraph("more")
           z == Blank
<1>1. a \in Plain /\ b \in Plain /\ c \in Plain /\ z \in Plain /\ ~IsText(z)
  <2>1. "new" \in Said /\ "heading" \in Said /\ "more" \in Said
    BY DEF Said
  <2> QED BY <2>1, TextIs, BlankIs
<1>2. s = <<a>> \/ s = <<b, z, c>>
  BY DEF Sources
<1> HIDE DEF a, b, c, z
<1>3. CASE s = <<a>>
  <2>1. Len(s) = 1
    BY <1>3
  <2> QED BY <1>1, <1>3, <2>1 DEF Apart
<1>4. CASE s = <<b, z, c>>
  <2>1. Len(s) = 3 /\ s[1] = b /\ s[2] = z /\ s[3] = c /\ s \in Seq(Plain) /\ s # <<>>
    BY <1>1, <1>4
  <2>2. \A k \in 1..2 : k = 1 \/ k = 2
    OBVIOUS
  <2>3. ASSUME NEW k \in 1..2, IsText(s[k]) PROVE s[k + 1] = z
    <3>1. CASE k = 1
      BY <2>1, <3>1
    <3>2. CASE k = 2
      BY <1>1, <2>1, <2>3, <3>2
    <3> QED BY <2>2, <3>1, <3>2
  <2> QED BY <2>1, <2>3 DEF Apart, z
<1> QED BY <1>2, <1>3, <1>4

\* The lines that are parsed: a blank one at the end is none.
LEMMA SplitIs ==
  ASSUME NEW b \in Seq(Plain)
  PROVE  /\ Split(b) \in Seq(Plain) /\ \A k \in 1..Len(Split(b)) : Split(b)[k] = b[k]
         /\ \/ Len(Split(b)) = Len(b) /\ (b # <<>> => b[Len(b)] # Blank)
            \/ Len(Split(b)) = Len(b) - 1 /\ b[Len(b)] = Blank
<1>1. Len(b) \in Nat /\ \A k \in 1..Len(b) : b[k] \in Plain
  BY LenProperties, ElementOfSeq
<1>2. CASE b # <<>> /\ Last(b) = Blank
  <2>1. Split(b) = SubSeq(b, 1, Len(b) - 1)
    BY <1>2 DEF Split, Front
  <2>2. Len(b) # 0
    BY <1>2, EmptySeq
  <2>3. Len(b) - 1 \in Int /\ 1 \in Int /\ \A k \in 1..(Len(b) - 1) : b[k] \in Plain
    BY <1>1
  <2> DEFINE s == SubSeq(b, 1, Len(b) - 1)
  <2>4. /\ s \in Seq(Plain)
        /\ Len(s) = IF 1 <= Len(b) - 1 THEN (Len(b) - 1) - 1 + 1 ELSE 0
        /\ \A k \in 1..((Len(b) - 1) - 1 + 1) : s[k] = b[1 + k - 1]
    BY <2>3, SubSeqProperties
  <2> HIDE DEF s
  <2>5. Len(s) = Len(b) - 1
    <3>1. Len(s) = IF 1 <= Len(b) - 1 THEN (Len(b) - 1) - 1 + 1 ELSE 0
      BY <2>4
    <3> DEFINE m == Len(b)
               l == Len(s)
    <3>2. m \in Nat /\ m # 0 /\ l = IF 1 <= m - 1 THEN (m - 1) - 1 + 1 ELSE 0
      BY <1>1, <2>2, <3>1
    <3>3. l = m - 1
      <4> HIDE DEF m, l
      <4> QED BY <3>2
    <3> QED BY <3>3
  <2>6. ASSUME NEW k \in 1..Len(s) PROVE s[k] = b[k]
    <3>1. k \in 1..((Len(b) - 1) - 1 + 1) /\ 1 + k - 1 = k
      BY <1>1, <2>5
    <3> QED BY <2>4, <3>1
  <2> QED BY <1>2, <2>1, <2>4, <2>5, <2>6 DEF s, Last
<1>3. CASE ~(b # <<>> /\ Last(b) = Blank)
  <2>1. Split(b) = b
    BY <1>3 DEF Split
  <2>2. b # <<>> => b[Len(b)] # Blank
    BY <1>3 DEF Last
  <2> QED BY <2>1, <2>2
<1> QED BY <1>2, <1>3

\* The least of a set is one of it.
LEMMA MinIs ==
  ASSUME NEW S \in SUBSET Nat, S # {}
  PROVE  Min(S) \in S /\ \A k \in S : Min(S) <= k
<1>1. \E x \in S : \A y \in S : x <= y
  BY FirstOf
<1> QED BY <1>1 DEF Min

\* The parse of a body has the directives, and between them what has a text.
Marks(b) == {k \in DOMAIN Split(b) : IsDirective(Split(b)[k])}
Fences(b)  == Marks(b) \cup {Len(Split(b)) + 1}
Runs(b)  == {<<k + 1, Min({j \in Fences(b) : j > k}) - 1>> : k \in Marks(b) \cup {0}}
Texts(b) == {r \in Runs(b) : \E k \in r[1]..r[2] : IsText(Split(b)[k])}
NodeSet(b) == Texts(b) \cup {<<k, k>> : k \in Marks(b)}

\* A node: a directive, or all lines up to the next ones.
IsNode(b, r) ==
  /\ r = <<r[1], r[2]>> /\ r[1] \in 1..Len(Split(b)) /\ r[2] \in r[1]..Len(Split(b))
  /\ \/ r[2] = r[1] /\ IsDirective(b[r[1]])
     \/ /\ \A k \in r[1]..r[2] : ~IsDirective(b[k])
        /\ r[1] = 1 \/ IsDirective(b[r[1] - 1])
        /\ r[2] = Len(Split(b)) \/ IsDirective(b[r[2] + 1])
        /\ \E k \in r[1]..r[2] : IsText(b[k])

LEMMA InNodeSet ==
  ASSUME NEW b \in Seq(Plain), NEW r \in NodeSet(b)
  PROVE  IsNode(b, r)
<1> DEFINE n == Len(Split(b))
           marks == Marks(b)
<1>1. n \in Nat /\ DOMAIN Split(b) = 1..n /\ \A k \in 1..n : Split(b)[k] = b[k]
  BY SplitIs, LenProperties
<1>2. marks = {k \in 1..n : IsDirective(b[k])}
  BY <1>1 DEF Marks
<1>3. CASE r \in {<<k, k>> : k \in marks}
  <2>1. PICK k \in marks : r = <<k, k>>
    BY <1>3
  <2>2. r[1] = k /\ r[2] = k /\ k \in 1..n /\ IsDirective(b[k])
    BY <1>2, <2>1
  <2> HIDE DEF n
  <2>3. r = <<r[1], r[2]>> /\ r[1] \in 1..n /\ r[2] \in r[1]..n /\ r[2] = r[1] /\ IsDirective(b[r[1]])
    BY <1>1, <2>1, <2>2
  <2> QED BY <2>3 DEF IsNode, n
<1>4. CASE r \in Texts(b)
  <2>1. r \in Runs(b) /\ \E j \in r[1]..r[2] : IsText(Split(b)[j])
    BY <1>4 DEF Texts
  <2>2. PICK k \in marks \cup {0} : r = <<k + 1, Min({j \in Fences(b) : j > k}) - 1>>
    BY <2>1 DEF Runs
  <2> DEFINE later == {j \in Fences(b) : j > k}
             end == Min(later)
  <2>3. Fences(b) = marks \cup {n + 1} /\ marks \subseteq 1..n /\ k \in 0..n
    BY <1>1, <1>2 DEF Fences
  <2>4. later \in SUBSET Nat /\ n + 1 \in later
    <3>1. Fences(b) \subseteq Nat /\ n + 1 \in Fences(b) /\ n + 1 > k
      <4> HIDE DEF n, marks
      <4> QED BY <1>1, <2>3
    <3> QED BY <3>1
  <2>5. end \in later /\ \A j \in later : end <= j
    <3> HIDE DEF later
    <3> QED BY <2>4, MinIs
  <2>6. r[1] = k + 1 /\ r[2] = end - 1 /\ r = <<r[1], r[2]>>
    BY <2>2
  <2> HIDE DEF end
  <2>7. end \in Fences(b) /\ end > k /\ \A j \in Fences(b) : j > k => end <= j
    BY <2>5
  <2> HIDE DEF later, n, marks
  <2>8. end \in 1..(n + 1) /\ (end = n + 1 \/ IsDirective(b[end])) /\ k < end
    BY <1>1, <1>2, <2>3, <2>7
  <2>9. \A j \in (k + 1)..(end - 1) : j \in 1..n /\ ~IsDirective(b[j])
    <3> TAKE j \in (k + 1)..(end - 1)
    <3>1. j \in 1..n /\ j > k /\ ~(end <= j)
      BY <1>1, <2>3, <2>8
    <3> QED BY <1>2, <2>3, <2>7, <3>1
  <2>10. PICK i \in r[1]..r[2] : IsText(Split(b)[i])
    BY <2>1
  <2>11. i \in (k + 1)..(end - 1) /\ i \in 1..n /\ IsText(b[i])
    BY <1>1, <2>6, <2>9, <2>10
  <2>12. r[1] \in 1..n /\ r[2] \in r[1]..n
    BY <1>1, <2>3, <2>6, <2>8, <2>11
  <2>13. r[1] = 1 \/ IsDirective(b[r[1] - 1])
    BY <1>2, <2>3, <2>6
  <2>14. r[2] = n \/ IsDirective(b[r[2] + 1])
    BY <1>1, <2>6, <2>8
  <2>15. \A j \in r[1]..r[2] : ~IsDirective(b[j])
    BY <2>6, <2>9
  <2>16. \E j \in r[1]..r[2] : IsText(b[j])
    BY <2>10, <2>11
  <2> QED BY <2>6, <2>12, <2>13, <2>14, <2>15, <2>16 DEF IsNode, n
<1> QED BY <1>3, <1>4 DEF NodeSet

\* Two nodes that share a line are one.
LEMMA NodesDiffer ==
  ASSUME NEW b \in Seq(Plain), NEW r, NEW q, IsNode(b, r), IsNode(b, q), q[1] \in r[1]..r[2]
  PROVE  q[1] = r[1] /\ r = q
<1> DEFINE n == Len(Split(b))
<1>1. n \in Nat /\ \A k \in 1..n : b[k] \in Plain
  BY SplitIs, LenProperties, ElementOfSeq
<1>2. \A x \in {r, q} : /\ x = <<x[1], x[2]>> /\ x[1] \in 1..n /\ x[2] \in x[1]..n
                        /\ \/ x[2] = x[1] /\ IsDirective(b[x[1]])
                           \/ /\ \A k \in x[1]..x[2] : ~IsDirective(b[k])
                              /\ x[1] = 1 \/ IsDirective(b[x[1] - 1])
                              /\ x[2] = n \/ IsDirective(b[x[2] + 1])
  BY DEF IsNode
<1> DEFINE r1 == r[1]
           r2 == r[2]
           q1 == q[1]
           q2 == q[2]
<1>3. /\ r1 \in 1..n /\ r2 \in r1..n /\ q1 \in 1..n /\ q2 \in q1..n /\ q1 \in r1..r2
      /\ \/ r2 = r1 /\ IsDirective(b[r1])
         \/ /\ \A k \in r1..r2 : ~IsDirective(b[k])
            /\ r2 = n \/ IsDirective(b[r2 + 1])
      /\ \/ q2 = q1 /\ IsDirective(b[q1])
         \/ /\ \A k \in q1..q2 : ~IsDirective(b[k])
            /\ q1 = 1 \/ IsDirective(b[q1 - 1])
            /\ q2 = n \/ IsDirective(b[q2 + 1])
  BY <1>2
<1>4. r = <<r1, r2>> /\ q = <<q1, q2>>
  BY <1>2
<1> HIDE DEF r1, r2, q1, q2, n
<1>5. q1 = r1
  <2> SUFFICES ASSUME q1 # r1 PROVE FALSE
    OBVIOUS
  <2>1. q1 - 1 \in r1..r2 /\ q1 # 1 /\ r2 # r1
    BY <1>1, <1>3
  <2>2. \A k \in r1..r2 : ~IsDirective(b[k])
    BY <1>3, <2>1
  <2> QED BY <1>3, <2>1, <2>2
<1>6. q2 = r2
  <2>1. CASE q2 < r2
    <3>1. q2 + 1 \in r1..r2 /\ q1 \in r1..r2 /\ q2 # n /\ r2 # r1
      BY <1>1, <1>3, <1>5, <2>1
    <3> QED BY <1>3, <3>1
  <2>2. CASE r2 < q2
    <3>1. r2 + 1 \in q1..q2 /\ r1 \in q1..q2 /\ r2 # n /\ q2 # q1
      BY <1>1, <1>3, <1>5, <2>2
    <3> QED BY <1>3, <1>5, <3>1
  <2> QED BY <1>1, <1>3, <2>1, <2>2
<1> QED BY <1>4, <1>5, <1>6 DEF r1, q1

\* Pairs with different first parts are ranked by them.
Below(S, r) == {q \in S : q[1] < r[1]}

LEMMA RanksExist ==
  ASSUME NEW S, IsFiniteSet(S), \A r \in S : r[1] \in Nat,
         \A r, q \in S : r[1] = q[1] => r = q, NEW n \in 1..Cardinality(S)
  PROVE  \E r \in S : Cardinality(Below(S, r)) = n - 1
<1> DEFINE Ranks == {Cardinality(Below(S, r)) : r \in S}
           top == Cardinality(S) - 1
<1>1. Cardinality(S) \in Nat /\ n - 1 \in 0..top /\ top \in Nat /\ S # {}
  BY FS_CardinalityType, FS_EmptySet
<1>2. ASSUME NEW A \in SUBSET S, A # {}
      PROVE  \E r \in A : \A q \in A : r[1] <= q[1]
  <2> DEFINE firsts == {r[1] : r \in A}
  <2>1. firsts \in SUBSET Nat /\ firsts # {}
    BY <1>2
  <2>2. PICK m \in firsts : \A k \in firsts : m <= k
    <3> HIDE DEF firsts
    <3> QED BY <2>1, FirstOf
  <2> QED BY <2>2
<1>3. 0 \in Ranks
  <2>1. PICK r \in S : \A q \in S : r[1] <= q[1]
    BY <1>1, <1>2
  <2>2. Below(S, r) = {}
    BY <2>1 DEF Below
  <2>3. Cardinality(Below(S, r)) = 0
    BY <2>2, FS_EmptySet
  <2> QED BY <2>3
<1>4. ASSUME NEW k \in 1..top, k - 1 \in Ranks
      PROVE  k \in Ranks
  <2>1. PICK r \in S : Cardinality(Below(S, r)) = k - 1
    BY <1>4
  <2> DEFINE above == {q \in S : r[1] < q[1]}
             upto  == Below(S, r) \cup {r}
  <2>2. r \notin Below(S, r) /\ Below(S, r) \in SUBSET S
    BY DEF Below
  <2>3. IsFiniteSet(Below(S, r)) /\ IsFiniteSet(upto) /\ Cardinality(upto) = k
    <3>1. IsFiniteSet(Below(S, r))
      BY <2>2, FS_Subset
    <3>2. IsFiniteSet(upto) /\ Cardinality(upto) = k - 1 + 1
      BY <2>1, <2>2, <3>1, FS_AddElement
    <3> QED BY <3>1, <3>2
  <2>4. above # {}
    <3> SUFFICES ASSUME above = {} PROVE FALSE
      OBVIOUS
    <3>1. \A q \in S : q \in upto
      BY DEF Below
    <3>2. upto = S
      BY <3>1, <2>2
    <3>3. Cardinality(S) = k
      BY <2>3, <3>2
    <3> HIDE DEF upto, above
    <3> QED BY <1>1, <3>3
  <2>5. PICK q \in above : \A p \in above : q[1] <= p[1]
    BY <1>2, <2>4
  <2>6. Below(S, q) = upto
    <3>1. q \in S /\ r[1] < q[1] /\ r[1] \in Nat /\ q[1] \in Nat
      BY <2>5
    <3>2. \A p \in S : p[1] < q[1] <=> p[1] <= r[1]
      <4> TAKE p \in S
      <4>1. p[1] \in Nat /\ (r[1] < p[1] => q[1] <= p[1])
        BY <2>5
      <4> QED BY <3>1, <4>1
    <3>3. \A p \in S : p[1] <= r[1] <=> p \in upto
      BY DEF Below
    <3> QED BY <2>2, <3>2, <3>3 DEF Below
  <2>7. Cardinality(Below(S, q)) = k /\ q \in S
    BY <2>3, <2>5, <2>6
  <2> QED BY <2>7
<1>5. \A k \in 0..top : k \in Ranks
  <2> HIDE DEF Ranks, top
  <2> QED BY <1>1, <1>3, <1>4, StepByStep
<1> QED BY <1>1, <1>5

\* The nodes of a body are those, in the order of their lines.
LEMMA RanksAre ==
  ASSUME NEW b \in Seq(Plain)
  PROVE  /\ IsFiniteSet(NodeSet(b)) /\ Len(Nodes(b)) = Cardinality(NodeSet(b))
         /\ DOMAIN Nodes(b) = 1..Len(Nodes(b)) /\ Len(Nodes(b)) \in Nat
         /\ \A n \in 1..Len(Nodes(b)) :
              Nodes(b)[n] \in NodeSet(b) /\ Cardinality(Below(NodeSet(b), Nodes(b)[n])) = n - 1
<1> DEFINE nodes == NodeSet(b)
           len == Len(Split(b))
           c == Cardinality(nodes)
<1>1. len \in Nat
  BY SplitIs, LenProperties
<1>2. \A r \in nodes : IsNode(b, r)
  BY InNodeSet
<1>3. nodes \in SUBSET ((1..len) \X (1..len))
  <2>1. ASSUME NEW r \in nodes PROVE r \in (1..len) \X (1..len)
    <3>1. r = <<r[1], r[2]>> /\ r[1] \in 1..len /\ r[2] \in r[1]..len
      BY <1>2 DEF IsNode
    <3> DEFINE r1 == r[1]
               r2 == r[2]
    <3> HIDE DEF r1, r2, len, nodes
    <3>2. r = <<r1, r2>> /\ r1 \in 1..len /\ r2 \in r1..len
      BY <3>1 DEF r1, r2
    <3>3. r2 \in 1..len
      BY <1>1, <3>2
    <3> QED BY <3>2, <3>3
  <2> QED BY <2>1
<1>4. IsFiniteSet(nodes)
  <2>1. IsFiniteSet(1..len)
    BY <1>1, FS_Interval
  <2>2. IsFiniteSet((1..len) \X (1..len))
    BY <2>1, FS_Product
  <2> QED BY <1>3, <2>2, FS_Subset
<1>5. c \in Nat
  BY <1>4, FS_CardinalityType
<1>6. ASSUME NEW n \in 1..c PROVE \E r \in nodes : Cardinality(Below(nodes, r)) = n - 1
  <2>1. \A r \in nodes : r[1] \in Nat
    BY <1>1, <1>2 DEF IsNode
  <2>2. ASSUME NEW r \in nodes, NEW q \in nodes, r[1] = q[1] PROVE r = q
    <3>1. q[1] \in r[1]..r[2]
      BY <1>1, <1>2, <2>2 DEF IsNode
    <3> QED BY <1>2, <3>1, NodesDiffer
  <2> HIDE DEF nodes
  <2> QED BY <1>4, <2>1, <2>2, RanksExist
<1>7. Nodes(b) = [n \in 1..c |-> CHOOSE r \in nodes : Cardinality(Below(nodes, r)) = n - 1]
  <2>1. Nodes(b) = [n \in 1..Cardinality(nodes) |->
                      CHOOSE r \in nodes : Cardinality(Below(nodes, r)) = n - 1]
    BY Zenon DEF Nodes, NodeSet, Texts, Runs, Fences, Marks, Below
  <2> HIDE DEF nodes
  <2> QED BY <2>1, Zenon
<1> HIDE DEF nodes
<1>8. Len(Nodes(b)) = c /\ DOMAIN Nodes(b) = 1..c
  BY <1>5, <1>7
<1>9. ASSUME NEW n \in 1..c
      PROVE  Nodes(b)[n] \in nodes /\ Cardinality(Below(nodes, Nodes(b)[n])) = n - 1
  <2> HIDE DEF c
  <2>1. PICK p \in nodes : Cardinality(Below(nodes, p)) = n - 1
    BY <1>6
  <2> DEFINE q == CHOOSE r \in nodes : Cardinality(Below(nodes, r)) = n - 1
  <2>2. q \in nodes /\ Cardinality(Below(nodes, q)) = n - 1
    BY <2>1
  <2>3. Nodes(b)[n] = q
    BY <1>7
  <2> HIDE DEF q
  <2> QED BY <2>2, <2>3
<1> QED BY <1>4, <1>5, <1>8, <1>9 DEF nodes

LEMMA NodesAre ==
  ASSUME NEW b \in Seq(Plain)
  PROVE  /\ Len(Nodes(b)) \in Nat /\ DOMAIN Nodes(b) = 1..Len(Nodes(b))
         /\ \A n \in 1..Len(Nodes(b)) : IsNode(b, Nodes(b)[n])
BY RanksAre, InNodeSet

\* Edits.
NeedImage == {"media", "occurrence", "first", "cover", "describe"}

IsEdit(e) ==
  /\ e.type \in InBody \cup {"cover", "nocover", "describe"}
  /\ e.lines \in Seq(Plain) /\ Apart(e.lines)
  /\ e.type \in NeedImage => e.media \in Image
  /\ e.type = "nocover" => e.media = NoCover

LEMMA EditIs ==
  ASSUME NEW type \in InBody \cup {"cover", "nocover", "describe"}, NEW at, NEW item, NEW m,
         NEW lines \in Seq(Plain), Apart(lines),
         type \in NeedImage => m \in Image, type = "nocover" => m = NoCover
  PROVE  IsEdit(Edit(type, at, item, lines, m))
<1> DEFINE e == Edit(type, at, item, lines, m)
<1>1. e.type = type /\ e.lines = lines /\ e.media = m
  BY DEF Edit
<1> HIDE DEF e
<1>2. IsEdit(e)
  BY <1>1 DEF IsEdit
<1> QED BY <1>2 DEF e

LEMMA ShownIs ==
  ASSUME NEW m \in Image
  PROVE  <<Shown(m)>> \in Seq(Plain) /\ Apart(<<Shown(m)>>)
<1>1. Shown(m) \in Plain
  <2>1. "image" \in {"image", "gallery", "person", "section"} /\ "" \in Said /\ <<m>> \in Seq(Image)
    BY DEF Said
  <2> QED BY <2>1, LineIs DEF Shown
<1> QED BY <1>1 DEF Apart

LEMMA EditsAre ==
  ASSUME NEW d, NEW e \in Edits(d)
  PROVE  IsEdit(e)
<1> DEFINE n == Len(Nodes(d.body))
<1>0. <<>> \in Seq(Plain) /\ Apart(<<>>)
  BY DEF Apart
<1>1. CASE e \in {Edit("replace", k, 0, s, NoCover) : k \in 1..n, s \in Sources}
  <2>1. PICK k \in 1..n, s \in Sources : e = Edit("replace", k, 0, s, NoCover)
    BY <1>1
  <2>2. "replace" \in InBody /\ "replace" \notin NeedImage
    BY DEF InBody, NeedImage
  <2> QED BY <2>1, <2>2, SourcesAre, EditIs
<1>2. CASE e \in {Edit("insert", k, 0, s, NoCover) : k \in 1..(n + 1),
                  s \in Sources \cup {<<Shown(m)>> : m \in Image}}
  <2>1. PICK k \in 1..(n + 1), s \in Sources \cup {<<Shown(m)>> : m \in Image} :
          e = Edit("insert", k, 0, s, NoCover)
    BY <1>2
  <2>2. "insert" \in InBody /\ "insert" \notin NeedImage
    BY DEF InBody, NeedImage
  <2>3. s \in Seq(Plain) /\ Apart(s)
    BY SourcesAre, ShownIs
  <2> QED BY <2>1, <2>2, <2>3, EditIs
<1>3. CASE e \in {Edit(type, k, 0, <<>>, NoCover) : type \in {"delete", "caption"}, k \in 1..n}
  <2>1. PICK type \in {"delete", "caption"}, k \in 1..n : e = Edit(type, k, 0, <<>>, NoCover)
    BY <1>3
  <2>2. type \in InBody /\ type \notin NeedImage /\ type # "nocover"
    BY DEF InBody, NeedImage
  <2> QED BY <1>0, <2>1, <2>2, EditIs
<1>4. CASE e \in {Edit("media", k, i, <<>>, m) : k \in 1..n, i \in {1, 2}, m \in Image}
  <2>1. PICK k \in 1..n, i \in {1, 2}, m \in Image : e = Edit("media", k, i, <<>>, m)
    BY <1>4
  <2>2. "media" \in InBody
    BY DEF InBody
  <2> QED BY <1>0, <2>1, <2>2, EditIs
<1>5. CASE e \in {Edit("item", k, i, <<>>, NoCover) : k \in 1..n, i \in {1, 2}}
  <2>1. PICK k \in 1..n, i \in {1, 2} : e = Edit("item", k, i, <<>>, NoCover)
    BY <1>5
  <2>2. "item" \in InBody /\ "item" \notin NeedImage
    BY DEF InBody, NeedImage
  <2> QED BY <1>0, <2>1, <2>2, EditIs
<1>6. CASE e \in {Edit("occurrence", k, 0, <<>>, m) : k \in 1..n, m \in Image}
  <2>1. PICK k \in 1..n, m \in Image : e = Edit("occurrence", k, 0, <<>>, m)
    BY <1>6
  <2>2. "occurrence" \in InBody
    BY DEF InBody
  <2> QED BY <1>0, <2>1, <2>2, EditIs
<1>7. CASE e \in {Edit(type, 0, 0, <<>>, m) : type \in {"first", "cover", "describe"}, m \in Image}
  <2>1. PICK type \in {"first", "cover", "describe"}, m \in Image : e = Edit(type, 0, 0, <<>>, m)
    BY <1>7
  <2>2. type \in InBody \cup {"cover", "nocover", "describe"} /\ type # "nocover"
    BY DEF InBody
  <2> QED BY <1>0, <2>1, <2>2, EditIs
<1>8. CASE e = Edit("nocover", 0, 0, <<>>, NoCover)
  <2>1. "nocover" \notin NeedImage
    BY DEF NeedImage
  <2> QED BY <1>0, <1>8, <2>1, EditIs
<1> QED
  <2>1. \/ e \in {Edit("replace", k, 0, s, NoCover) : k \in 1..n, s \in Sources}
        \/ e \in {Edit("insert", k, 0, s, NoCover) : k \in 1..(n + 1),
                  s \in Sources \cup {<<Shown(m)>> : m \in Image}}
        \/ e \in {Edit(type, k, 0, <<>>, NoCover) : type \in {"delete", "caption"}, k \in 1..n}
        \/ e \in {Edit("media", k, i, <<>>, m) : k \in 1..n, i \in {1, 2}, m \in Image}
        \/ e \in {Edit("item", k, i, <<>>, NoCover) : k \in 1..n, i \in {1, 2}}
        \/ e \in {Edit("occurrence", k, 0, <<>>, m) : k \in 1..n, m \in Image}
        \/ e \in {Edit(type, 0, 0, <<>>, m) : type \in {"first", "cover", "describe"}, m \in Image}
        \/ e \in {Edit("nocover", 0, 0, <<>>, NoCover)}
    BY SMT DEF Edits, n
  <2> QED BY <1>1, <1>2, <1>3, <1>4, <1>5, <1>6, <1>7, <1>8, <2>1

LEMMA Listed ==
  ASSUME NEW d, NEW n \in Nat, NEW es \in [1..n -> Compiled(d)]
  PROVE  /\ Len(es) = n /\ DOMAIN es = 1..n
         /\ \A k \in 1..n : IsEdit(es[k]) /\ (es[k].type \in InBody => Applies(d.body, es[k]))
<1>1. \A k \in 1..n : es[k] \in Compiled(d)
  OBVIOUS
<1>2. \A k \in 1..n : es[k] \in Edits(d) /\ (es[k].type \in InBody => Applies(d.body, es[k]))
  BY <1>1 DEF Compiled
<1> QED BY <1>2, EditsAre

\* The cover is the one of the last edit that sets or clears it, if there is one.
LEMMA CoverIs ==
  ASSUME NEW n \in Nat, NEW es, Len(es) = n, \A k \in 1..n : IsEdit(es[k]), NEW c \in Covers
  PROVE  /\ Cover(c, es) \in Covers
         /\ Cover(c, es) # c => \E k \in 1..n : es[k].type \in {"cover", "nocover"}
<1> DEFINE step == [x \in Covers \X (1..n) |-> CoverAfter(x[1], es[x[2]])]
           Sets(f) == f = [k \in 0..n |-> IF k = 0 THEN c ELSE CoverAfter(f[k - 1], es[k])]
           after == CHOOSE f : Sets(f)
<1>1. ASSUME NEW x \in Covers, NEW k \in 1..n
      PROVE  /\ CoverAfter(x, es[k]) \in Covers
             /\ CoverAfter(x, es[k]) # x => es[k].type \in {"cover", "nocover"}
  <2>1. IsEdit(es[k]) /\ "cover" \in NeedImage
    BY DEF NeedImage
  <2> QED BY <2>1 DEF CoverAfter, IsEdit, Covers
<1>2. step \in [Covers \X (1..n) -> Covers]
  BY <1>1
<1>3. PICK g \in [0..n -> Covers] : Rounds(g, n, c, step)
  <2> HIDE DEF step
  <2> QED BY <1>2, RoundsExist
<1>4. g[0] = c /\ \A k \in 1..n : g[k - 1] \in Covers /\ g[k] = CoverAfter(g[k - 1], es[k])
  <2>1. g[0] = c
    BY <1>3 DEF Rounds
  <2>2. ASSUME NEW k \in 1..n PROVE g[k - 1] \in Covers /\ g[k] = CoverAfter(g[k - 1], es[k])
    <3>1. k - 1 \in 0..n
      OBVIOUS
    <3>2. g[k - 1] \in Covers
      BY <3>1
    <3>3. g[k] = step[<<g[k - 1], k>>]
      BY <1>3 DEF Rounds
    <3> QED BY <3>2, <3>3
  <2> QED BY <2>1, <2>2
<1> HIDE DEF step
<1>5. Sets(g)
  <2>1. \A k \in 0..n : g[k] = IF k = 0 THEN c ELSE CoverAfter(g[k - 1], es[k])
    BY <1>4
  <2> QED BY <1>3, <2>1
<1>6. Sets(after)
  BY <1>5
<1>7. Cover(c, es) = after[n]
  BY Zenon DEF Cover
<1> HIDE DEF after
<1>8. after[0] = c /\ \A k \in 1..n : after[k] = CoverAfter(after[k - 1], es[k])
  BY <1>6
<1> HIDE DEF Sets
<1>9. after[n] = g[n]
  <2> DEFINE same == {k \in 0..n : after[k] = g[k]}
  <2>1. 0 \in same /\ \A k \in 1..n : k - 1 \in same => k \in same
    BY <1>4, <1>8
  <2>2. \A k \in 0..n : k \in same
    <3> HIDE DEF same
    <3> QED BY <2>1, StepByStep
  <2> QED BY <2>2
<1>10. g[n] # c => \E k \in 1..n : es[k].type \in {"cover", "nocover"}
  <2> SUFFICES ASSUME \A k \in 1..n : es[k].type \notin {"cover", "nocover"} PROVE g[n] = c
    OBVIOUS
  <2> DEFINE same == {k \in 0..n : g[k] = c}
  <2>1. 0 \in same /\ \A k \in 1..n : k - 1 \in same => k \in same
    BY <1>1, <1>4
  <2>2. \A k \in 0..n : k \in same
    <3> HIDE DEF same
    <3> QED BY <2>1, StepByStep
  <2> QED BY <2>2
<1> QED BY <1>3, <1>7, <1>9, <1>10

\* What takes the place of a directive is a directive, or nothing.
Directives(s) == s \in Seq(Plain) /\ \A k \in 1..Len(s) : IsDirective(s[k])

LEMMA DirectivesAre ==
  /\ Directives(<<>>) /\ Apart(<<>>)
  /\ \A l \in Plain : IsDirective(l) => Directives(<<l>>) /\ Apart(<<l>>) /\ <<l>>[1] = l
  BY DEF Directives, Apart

LEMMA ShowingIs ==
  ASSUME NEW l \in Plain, IsDirective(l), NEW rest \in Seq(Image)
  PROVE  /\ [l EXCEPT !.media = rest] \in Plain /\ IsDirective([l EXCEPT !.media = rest])
         /\ l.name # "person" => /\ [l EXCEPT !.name = "image", !.media = rest] \in Plain
                                 /\ IsDirective([l EXCEPT !.name = "image", !.media = rest])
         /\ [l EXCEPT !.words = ""] \in Plain /\ IsDirective([l EXCEPT !.words = ""])
         /\ Images([l EXCEPT !.words = ""]) = Images(l)
<1> DEFINE n == l.name
           w == l.words
           m == l.media
<1>1. /\ l = [name |-> n, words |-> w, media |-> m]
      /\ n \in {"image", "gallery", "person", "section"} /\ w \in Said /\ m \in Seq(Image)
  BY PlainIs DEF IsDirective
<1>2. "" \in Said /\ "image" \in {"image", "gallery", "person", "section"}
  BY DEF Said
<1> DEFINE none == ""
           one  == "image"
<1>3. ASSUME NEW x \in {"image", "gallery", "person", "section"}, NEW y \in Said, NEW z \in Seq(Image)
      PROVE  LET c == [name |-> x, words |-> y, media |-> z]
             IN c \in Plain /\ IsDirective(c) /\ Images(c) = {z[k] : k \in DOMAIN z}
  BY LineIs
<1>4. Images(l) = {m[k] : k \in DOMAIN m}
  BY DEF Images
<1> HIDE DEF n, w, m, none, one
<1>5. [l EXCEPT !.media = rest] = [name |-> n, words |-> w, media |-> rest]
  BY <1>1
<1>6. [l EXCEPT !.name = one, !.media = rest] = [name |-> one, words |-> w, media |-> rest]
  <2> DEFINE x == [name |-> n, words |-> w, media |-> m]
             y == [x EXCEPT !.name = one]
  <2>1. [x EXCEPT !.name = one, !.media = rest] = [y EXCEPT !.media = rest]
    OBVIOUS
  <2>2. y = [name |-> one, words |-> w, media |-> m]
    OBVIOUS
  <2>3. [y EXCEPT !.media = rest] = [name |-> one, words |-> w, media |-> rest]
    <3> HIDE DEF y
    <3> QED BY <2>2
  <2> QED BY <1>1, <2>1, <2>3
<1>7. [l EXCEPT !.words = none] = [name |-> n, words |-> none, media |-> m]
  BY <1>1
<1>8. none \in Said /\ one \in {"image", "gallery", "person", "section"}
  BY <1>2 DEF none, one
<1>9. [l EXCEPT !.media = rest] \in Plain /\ IsDirective([l EXCEPT !.media = rest])
  BY <1>1, <1>3, <1>5
<1>10. /\ [l EXCEPT !.name = one, !.media = rest] \in Plain
       /\ IsDirective([l EXCEPT !.name = one, !.media = rest])
  BY <1>1, <1>3, <1>6, <1>8
<1>11. /\ [l EXCEPT !.words = none] \in Plain /\ IsDirective([l EXCEPT !.words = none])
       /\ Images([l EXCEPT !.words = none]) = Images(l)
  <2> DEFINE c == [name |-> n, words |-> none, media |-> m]
  <2>1. c \in Plain /\ IsDirective(c) /\ Images(c) = {m[k] : k \in DOMAIN m}
    BY <1>1, <1>3, <1>8
  <2> HIDE DEF c
  <2>2. [l EXCEPT !.words = none] = c
    BY <1>7 DEF c
  <2> QED BY <1>4, <2>1, <2>2
<1> QED BY <1>9, <1>10, <1>11 DEF none, one

LEMMA LessIs ==
  ASSUME NEW l \in Plain, IsDirective(l), NEW rest \in Seq(Image)
  PROVE  Directives(Less(l, rest)) /\ Apart(Less(l, rest))
<1> DEFINE a == [l EXCEPT !.media = rest]
           c == [l EXCEPT !.name = "image", !.media = rest]
<1>1. \/ Less(l, rest) = <<>> \/ Less(l, rest) = <<a>>
      \/ Less(l, rest) = <<c>> /\ l.name # "person"
  BY DEF Less
<1>2. a \in Plain /\ IsDirective(a) /\ (l.name # "person" => c \in Plain /\ IsDirective(c))
  BY ShowingIs
<1> HIDE DEF a, c
<1> QED BY <1>1, <1>2, DirectivesAre

LEMMA RemovedIs ==
  ASSUME NEW S, NEW s \in Seq(S), NEW i \in 1..Len(s)
  PROVE  RemoveAt(s, i) \in Seq(S)
<1>1. Len(s) \in Nat /\ \A k \in 1..Len(s) : s[k] \in S
  BY LenProperties, ElementOfSeq
<1>2. SubSeq(s, 1, i - 1) \in Seq(S)
  <2>1. i - 1 \in Int /\ 1 \in Int /\ \A k \in 1..(i - 1) : s[k] \in S
    BY <1>1
  <2> QED BY <2>1, SubSeqProperties
<1>3. SubSeq(s, i + 1, Len(s)) \in Seq(S)
  <2>1. i + 1 \in Int /\ Len(s) \in Int /\ \A k \in (i + 1)..Len(s) : s[k] \in S
    BY <1>1
  <2> QED BY <2>1, SubSeqProperties
<1> QED BY <1>2, <1>3, ConcatProperties DEF RemoveAt

\* The node that an edit is about.
LEMMA AboutIs ==
  ASSUME NEW b \in Seq(Plain), NEW e, IsEdit(e), e.type \in InBody \ {"insert"}, Applies(b, e)
  PROVE  /\ IsNode(b, Nodes(b)[At(b, e)])
         /\ At(b, e) \in 1..Len(Nodes(b))
         /\ Nodes(b)[At(b, e)][1] \in 1..Len(b)
         /\ Line(b, e) \in Plain
         /\ e.type \notin {"replace", "delete"} => IsDirective(Line(b, e))
         /\ e.type = "media" => e.item \in 1..Len(Line(b, e).media)
         /\ e.type = "item" => e.item \in 1..Len(Line(b, e).media)
         /\ e.type \in {"occurrence", "first"} => e.media \in Images(Line(b, e))
<1> DEFINE at == At(b, e)
           r == Nodes(b)[at]
           l == Line(b, e)
<1>1. Len(Nodes(b)) \in Nat /\ DOMAIN Nodes(b) = 1..Len(Nodes(b))
  BY NodesAre
<1>2. at \in 1..Len(Nodes(b))
  <2>1. at \in 1..(Len(Nodes(b)) + 0)
    BY DEF Applies
  <2> QED BY <1>1, <2>1
<1>3. IsNode(b, r)
  BY <1>2, NodesAre
<1>4. Len(b) \in Nat /\ \A k \in 1..Len(b) : b[k] \in Plain
  BY LenProperties, ElementOfSeq
<1>5. r[1] \in 1..Len(b)
  <2>1. r[1] \in 1..Len(Split(b))
    BY <1>3 DEF IsNode
  <2>2. Len(Split(b)) \in Nat /\ Len(Split(b)) <= Len(b)
    BY <1>4, SplitIs, LenProperties
  <2> HIDE DEF r
  <2> QED BY <1>4, <2>1, <2>2
<1>6. l \in Plain
  BY <1>4, <1>5 DEF Line
<1>7. l.media \in Seq(Image) /\ DOMAIN l.media = 1..Len(l.media)
  BY <1>6, PlainIs, LenProperties
<1>8. e.type = "first" => e.media \in Images(l)
  <2> SUFFICES ASSUME e.type = "first" PROVE e.media \in Images(l)
    OBVIOUS
  <2> DEFINE found == {n \in DOMAIN Nodes(b) : e.media \in Images(b[Nodes(b)[n][1]])}
  <2>1. at = IF found = {} THEN 0 ELSE Min(found)
    BY DEF At, Occurrence
  <2>2. found \in SUBSET Nat
    BY <1>1
  <2>3. at \in found
    <3> HIDE DEF found
    <3>1. found # {}
      BY <1>1, <1>2, <2>1
    <3> QED BY <2>1, <2>2, <3>1, MinIs
  <2> QED BY <2>3 DEF Line
<1>9. e.type = "occurrence" => e.media \in Images(l)
  BY DEF Applies
<1>10. e.type \notin {"replace", "delete"} => IsDirective(l)
  <2>1. CASE e.type \in {"caption", "media", "item", "occurrence"}
    BY <2>1 DEF Applies
  <2>2. CASE e.type = "first"
    <3>1. l.media # <<>>
      <4>1. PICK k \in DOMAIN l.media : l.media[k] = e.media
        BY <1>8, <2>2 DEF Images
      <4> QED BY <4>1
    <3> QED BY <1>6, <3>1, PlainIs
  <2> QED BY <2>1, <2>2 DEF InBody
<1>11. /\ e.type = "media" => e.item \in DOMAIN l.media
       /\ e.type = "item" => e.item \in DOMAIN l.media
  BY DEF Applies
<1> QED BY <1>2, <1>3, <1>5, <1>6, <1>7, <1>8, <1>9, <1>10, <1>11

\* What an edit puts in the place of its node.
LEMMA InsteadIs ==
  ASSUME NEW b \in Seq(Plain), NEW e, IsEdit(e), e.type \in InBody \ {"insert"}, Applies(b, e)
  PROVE  /\ Instead(b, e) \in Seq(Plain) /\ Apart(Instead(b, e))
         /\ e.type # "replace" => Directives(Instead(b, e))
         /\ e.type = "caption" => /\ Len(Instead(b, e)) = 1
                                  /\ Images(Instead(b, e)[1]) = Images(Line(b, e))
<1> DEFINE l == Line(b, e)
           w == Instead(b, e)
<1>1. /\ l \in Plain /\ (e.type \notin {"replace", "delete"} => IsDirective(l))
      /\ l.media \in Seq(Image) /\ DOMAIN l.media = 1..Len(l.media)
  BY AboutIs, PlainIs, LenProperties
<1>2. CASE e.type = "replace"
  BY <1>2 DEF Instead, IsEdit
<1>3. CASE e.type = "delete"
  <2>1. w = <<>>
    BY <1>3 DEF Instead
  <2> QED BY <1>3, <2>1, DirectivesAre DEF Directives
<1>4. CASE e.type = "caption"
  <2> DEFINE c == [l EXCEPT !.words = ""]
  <2>1. w = <<c>>
    BY <1>4 DEF Instead
  <2>2. c \in Plain /\ IsDirective(c) /\ Images(c) = Images(l)
    BY <1>1, <1>4, ShowingIs
  <2> HIDE DEF c
  <2>3. Len(w) = 1 /\ w[1] = c
    BY <2>1
  <2> QED BY <1>4, <2>1, <2>2, <2>3, DirectivesAre DEF Directives
<1>5. CASE e.type = "media"
  <2> DEFINE rest == [l.media EXCEPT ![e.item] = e.media]
             c == [l EXCEPT !.media[e.item] = e.media]
  <2>1. w = <<c>>
    BY <1>5 DEF Instead
  <2>2. e.item \in 1..Len(l.media) /\ e.media \in Image
    <3>1. "media" \in NeedImage
      BY DEF NeedImage
    <3> QED BY <1>5, <3>1, AboutIs DEF IsEdit
  <2>3. rest \in Seq(Image)
    BY <1>1, <2>2, ExceptSeq
  <2>4. c = [l EXCEPT !.media = rest]
    OBVIOUS
  <2> HIDE DEF rest, c
  <2>5. c \in Plain /\ IsDirective(c)
    BY <1>1, <1>5, <2>3, <2>4, ShowingIs
  <2> QED BY <1>5, <2>1, <2>5, DirectivesAre DEF Directives
<1>6. CASE e.type = "item"
  <2> DEFINE rest == RemoveAt(l.media, e.item)
  <2>1. w = Less(l, rest)
    BY <1>6 DEF Instead
  <2>2. rest \in Seq(Image)
    BY <1>1, <1>6, AboutIs, RemovedIs
  <2> HIDE DEF rest
  <2> QED BY <1>1, <1>6, <2>1, <2>2, LessIs DEF Directives
<1>7. CASE e.type \in {"occurrence", "first"}
  <2> DEFINE rest == RemoveFirst(l.media, e.media)
  <2>1. w = Less(l, rest)
    BY <1>7 DEF Instead
  <2>2. rest \in Seq(Image)
    <3> DEFINE m == l.media
               found == {k \in 1..Len(m) : m[k] = e.media}
    <3>1. CASE found = {}
      BY <1>1, <3>1 DEF RemoveFirst
    <3>2. CASE found # {}
      <4>1. rest = RemoveAt(m, SelectInSeq(m, LAMBDA v : v = e.media))
        BY <3>2 DEF RemoveFirst
      <4>2. SelectInSeq(m, LAMBDA v : v = e.media) = Min(found)
        BY <3>2 DEF SelectInSeq
      <4>3. found \in SUBSET Nat
        OBVIOUS
      <4>4. Min(found) \in found
        <5> HIDE DEF found
        <5> QED BY <3>2, <4>3, MinIs
      <4> QED BY <1>1, <4>1, <4>2, <4>4, RemovedIs
    <3> QED BY <3>1, <3>2
  <2> HIDE DEF rest
  <2> QED BY <1>1, <1>7, <2>1, <2>2, LessIs DEF Directives
<1> QED BY <1>2, <1>3, <1>4, <1>5, <1>6, <1>7 DEF InBody

\* Lines in the place of others.
LEMMA ReplacedIs ==
  ASSUME NEW s \in Seq(Plain), NEW p, p.start \in 0..Len(s), p.end \in p.start..Len(s),
         p.with \in Seq(Plain)
  PROVE  LET r == Replaced(s, p)
             w == Len(p.with)
         IN /\ r \in Seq(Plain) /\ Len(r) = p.start + w + (Len(s) - p.end)
            /\ \A k \in 1..p.start : r[k] = s[k]
            /\ \A k \in 1..w : r[p.start + k] = p.with[k]
            /\ \A k \in (p.end + 1)..Len(s) : r[p.start + w + (k - p.end)] = s[k]
<1> DEFINE a == p.start
           e == p.end
           w == p.with
           n == Len(s)
           m == Len(w)
           s1 == SubSeq(s, 1, a)
           s2 == SubSeq(s, e + 1, n)
           sw == s1 \o w
           r == sw \o s2
<1>1. n \in Nat /\ m \in Nat /\ \A k \in 1..n : s[k] \in Plain
  BY LenProperties, ElementOfSeq
<1>2. a \in 0..n /\ e \in a..n /\ w \in Seq(Plain)
  OBVIOUS
<1>3. Replaced(s, p) = r
  BY DEF Replaced
<1> HIDE DEF a, e, w, n, m
<1>4. s1 \in Seq(Plain) /\ Len(s1) = a /\ \A k \in 1..a : s1[k] = s[k]
  <2>1. a \in Int /\ 1 \in Int /\ \A k \in 1..a : s[k] \in Plain
    BY <1>1, <1>2
  <2>2. /\ s1 \in Seq(Plain) /\ Len(s1) = (IF 1 <= a THEN a - 1 + 1 ELSE 0)
        /\ \A k \in 1..(a - 1 + 1) : s1[k] = s[1 + k - 1]
    BY <2>1, SubSeqProperties
  <2> HIDE DEF s1
  <2>3. Len(s1) = a
    BY <1>1, <1>2, <2>2
  <2>4. ASSUME NEW k \in 1..a PROVE s1[k] = s[k]
    <3>1. k \in 1..(a - 1 + 1) /\ 1 + k - 1 = k
      BY <1>1, <1>2
    <3> QED BY <2>2, <3>1
  <2> QED BY <2>2, <2>3, <2>4
<1>5. s2 \in Seq(Plain) /\ Len(s2) = n - e /\ \A k \in 1..(n - e) : s2[k] = s[e + k]
  <2>1. e + 1 \in Int /\ n \in Int /\ \A k \in (e + 1)..n : s[k] \in Plain
    BY <1>1, <1>2
  <2>2. /\ s2 \in Seq(Plain) /\ Len(s2) = (IF e + 1 <= n THEN n - (e + 1) + 1 ELSE 0)
        /\ \A k \in 1..(n - (e + 1) + 1) : s2[k] = s[(e + 1) + k - 1]
    BY <2>1, SubSeqProperties
  <2> HIDE DEF s2
  <2>3. Len(s2) = n - e
    BY <1>1, <1>2, <2>2
  <2>4. ASSUME NEW k \in 1..(n - e) PROVE s2[k] = s[e + k]
    <3>1. k \in 1..(n - (e + 1) + 1) /\ (e + 1) + k - 1 = e + k
      BY <1>1, <1>2
    <3> QED BY <2>2, <3>1
  <2> QED BY <2>2, <2>3, <2>4
<1> HIDE DEF s1, s2
<1>6. sw \in Seq(Plain) /\ Len(sw) = a + m
      /\ \A k \in 1..(a + m) : sw[k] = IF k <= a THEN s1[k] ELSE w[k - a]
  <2>1. Len(s1) = a /\ Len(w) = m
    BY <1>4 DEF m
  <2>2. /\ sw \in Seq(Plain) /\ Len(sw) = Len(s1) + Len(w)
        /\ \A k \in 1..(Len(s1) + Len(w)) : sw[k] = IF k <= Len(s1) THEN s1[k] ELSE w[k - Len(s1)]
    BY <1>2, <1>4, ConcatProperties
  <2> HIDE DEF sw
  <2> QED BY <2>1, <2>2
<1> HIDE DEF sw
<1>7. r \in Seq(Plain) /\ Len(r) = (a + m) + (n - e)
      /\ \A k \in 1..((a + m) + (n - e)) : r[k] = IF k <= a + m THEN sw[k] ELSE s2[k - (a + m)]
  <2>1. /\ r \in Seq(Plain) /\ Len(r) = Len(sw) + Len(s2)
        /\ \A k \in 1..(Len(sw) + Len(s2)) : r[k] = IF k <= Len(sw) THEN sw[k] ELSE s2[k - Len(sw)]
    BY <1>5, <1>6, ConcatProperties
  <2> HIDE DEF r
  <2> QED BY <1>5, <1>6, <2>1
<1> HIDE DEF r
<1>8. ASSUME NEW k \in 1..a PROVE r[k] = s[k]
  <2>1. k \in 1..((a + m) + (n - e)) /\ k <= a + m /\ k \in 1..(a + m) /\ k <= a
    BY <1>1, <1>2
  <2> QED BY <1>4, <1>6, <1>7, <2>1
<1>9. ASSUME NEW k \in 1..m PROVE r[a + k] = w[k]
  <2>1. a + k \in 1..((a + m) + (n - e)) /\ a + k <= a + m /\ a + k \in 1..(a + m) /\ ~(a + k <= a)
        /\ (a + k) - a = k
    BY <1>1, <1>2
  <2> QED BY <1>6, <1>7, <2>1
<1>10. ASSUME NEW k \in (e + 1)..n PROVE r[a + m + (k - e)] = s[k]
  <2>1. a + m + (k - e) \in 1..((a + m) + (n - e)) /\ ~(a + m + (k - e) <= a + m)
        /\ (a + m + (k - e)) - (a + m) = k - e /\ k - e \in 1..(n - e) /\ e + (k - e) = k
    BY <1>1, <1>2
  <2> QED BY <1>5, <1>7, <2>1
<1>11. Len(r) = a + m + (n - e)
  BY <1>7
<1> QED BY <1>3, <1>7, <1>8, <1>9, <1>10, <1>11 DEF a, e, w, n, m

\* Patches of a body that follow each other, and what they are applied to in turn.
InOrder(b, n, ps) ==
  /\ Len(ps) = n
  /\ \A k \in 1..n : /\ ps[k].start \in 0..Len(b) /\ ps[k].end \in ps[k].start..Len(b)
                     /\ ps[k].with \in Seq(Plain)
  /\ \A k \in 1..(n - 1) : ps[k].end <= ps[k + 1].start

From(b, n, ps, k) == IF k = 0 THEN Len(b) ELSE ps[n + 1 - k].start

\* The body after each patch, the last first: up to where it is, nothing has changed.
Turning(b, n, ps, g) ==
  /\ g[0] = b
  /\ \A k \in 1..n : g[k] = Replaced(g[k - 1], ps[n + 1 - k])
  /\ \A k \in 0..n : /\ g[k] \in Seq(Plain)
                     /\ From(b, n, ps, k) \in 0..Len(b) /\ From(b, n, ps, k) <= Len(g[k])
                     /\ \A i \in 1..From(b, n, ps, k) : g[k][i] = b[i]

LEMMA NextPatch ==
  ASSUME NEW b \in Seq(Plain), NEW n \in Nat, NEW ps, InOrder(b, n, ps), NEW k \in 1..n
  PROVE  LET p == ps[n + 1 - k]
         IN /\ p.start \in 0..Len(b) /\ p.end \in p.start..Len(b) /\ p.with \in Seq(Plain)
            /\ p.end <= From(b, n, ps, k - 1) /\ From(b, n, ps, k) = p.start
<1> DEFINE i == n + 1 - k
           p == ps[i]
           len == Len(b)
<1>1. i \in 1..n /\ len \in Nat
  BY LenProperties
<1>2. p.start \in 0..len /\ p.end \in p.start..len /\ p.with \in Seq(Plain)
  BY <1>1 DEF InOrder
<1>3. From(b, n, ps, k) = p.start
  <2>1. k # 0
    OBVIOUS
  <2> QED BY <2>1 DEF From
<1>4. p.end <= From(b, n, ps, k - 1)
  <2>1. CASE k = 1
    <3>1. From(b, n, ps, k - 1) = len
      BY <2>1 DEF From
    <3> DEFINE s == p.start
               e == p.end
    <3>2. e \in s..len /\ s \in 0..len
      BY <1>2
    <3> HIDE DEF s, e, len
    <3>3. e <= len
      BY <1>1, <3>2
    <3> QED BY <3>1, <3>3 DEF e
  <2>2. CASE k # 1
    <3>1. i \in 1..(n - 1) /\ n + 1 - (k - 1) = i + 1 /\ k - 1 # 0
      BY <2>2
    <3>2. From(b, n, ps, k - 1) = ps[i + 1].start
      BY <3>1 DEF From
    <3> QED BY <3>1, <3>2 DEF InOrder
  <2> QED BY <2>1, <2>2
<1> QED BY <1>2, <1>3, <1>4

LEMMA TurningIs ==
  ASSUME NEW b \in Seq(Plain), NEW n \in Nat, NEW ps, InOrder(b, n, ps)
  PROVE  \E g : Turning(b, n, ps, g) /\ Applied(b, ps) = g[n]
<1> DEFINE S == Seq(Plain)
           fold(s, k) == Replaced(s, ps[n + 1 - k])
           step == [x \in S \X (1..n) |-> IF fold(x[1], x[2]) \in S THEN fold(x[1], x[2]) ELSE <<>>]
           Sets(f) == f = [k \in 0..n |-> IF k = 0 THEN b ELSE Replaced(f[k - 1], ps[n + 1 - k])]
           after == CHOOSE f : Sets(f)
           Holds(s, k) == /\ s \in Seq(Plain)
                          /\ From(b, n, ps, k) \in 0..Len(b) /\ From(b, n, ps, k) <= Len(s)
                          /\ \A i \in 1..From(b, n, ps, k) : s[i] = b[i]
<1>1. step \in [S \X (1..n) -> S]
  <2>1. \A x \in S \X (1..n) : (IF fold(x[1], x[2]) \in S THEN fold(x[1], x[2]) ELSE <<>>) \in S
    OBVIOUS
  <2> HIDE DEF fold, S
  <2> QED BY <2>1
<1>2. PICK g \in [0..n -> S] : Rounds(g, n, b, step)
  <2> HIDE DEF step, S
  <2>1. b \in S
    BY DEF S
  <2> QED BY <1>1, <2>1, RoundsExist
<1>3. g[0] = b
  BY <1>2 DEF Rounds
<1>4. ASSUME NEW k \in 1..n, Holds(g[k - 1], k - 1)
      PROVE  Holds(g[k], k) /\ g[k] = Replaced(g[k - 1], ps[n + 1 - k])
  <2> DEFINE p == ps[n + 1 - k]
             s == g[k - 1]
             r == Replaced(s, p)
             a == p.start
             e == p.end
             f == From(b, n, ps, k - 1)
  <2>1. a \in 0..Len(b) /\ e \in a..Len(b) /\ p.with \in Seq(Plain) /\ e <= f
        /\ From(b, n, ps, k) = a
    BY NextPatch
  <2>2. s \in Seq(Plain) /\ f \in 0..Len(b) /\ f <= Len(s) /\ \A i \in 1..f : s[i] = b[i]
    BY <1>4
  <2>3. Len(b) \in Nat /\ Len(s) \in Nat
    BY <2>2, LenProperties
  <2> DEFINE lb == Len(b)
             ls == Len(s)
  <2>4. a \in 0..ls /\ e \in a..ls /\ a <= f
    <3>1. a \in 0..lb /\ e \in a..lb /\ e <= f /\ f \in 0..lb /\ f <= ls /\ lb \in Nat /\ ls \in Nat
      BY <2>1, <2>2, <2>3
    <3> HIDE DEF a, e, f, lb, ls
    <3> QED BY <3>1
  <2>5. r \in Seq(Plain) /\ Len(r) = a + Len(p.with) + (Len(s) - e) /\ \A i \in 1..a : r[i] = s[i]
    <3> HIDE DEF s, p
    <3> QED BY <2>1, <2>2, <2>4, ReplacedIs DEF a, e, ls
  <2>6. g[k] = r
    <3>1. <<s, k>> \in S \X (1..n) /\ fold(s, k) = r
      BY <2>2
    <3>2. g[k] = step[<<s, k>>]
      BY <1>2 DEF Rounds
    <3>3. step[<<s, k>>] = IF fold(s, k) \in S THEN fold(s, k) ELSE <<>>
      <4> HIDE DEF fold, S
      <4> QED BY <3>1
    <3> QED BY <2>5, <3>1, <3>2, <3>3
  <2> DEFINE lw == Len(p.with)
             lr == Len(r)
  <2>7. a <= lr /\ \A i \in 1..a : i \in 1..f
    <3>1. lw \in Nat /\ lr = a + lw + (ls - e) /\ a \in 0..ls /\ e \in a..ls /\ a <= f /\ ls \in Nat
          /\ f \in 0..lb /\ lb \in Nat
      BY <2>1, <2>2, <2>3, <2>4, <2>5, LenProperties
    <3> HIDE DEF a, e, f, lb, ls, lw, lr
    <3> QED BY <3>1
  <2>8. \A i \in 1..a : r[i] = b[i]
    <3> HIDE DEF a, r, s, f
    <3> QED BY <2>2, <2>5, <2>7
  <2>9. g[k] = Replaced(g[k - 1], ps[n + 1 - k])
    BY <2>6
  <2>10. Holds(r, k)
    <3> HIDE DEF r, s
    <3>1. a = From(b, n, ps, k) /\ a \in 0..Len(b) /\ a <= Len(r)
      BY <2>1, <2>7
    <3> HIDE DEF a
    <3> QED BY <2>5, <2>8, <3>1
  <2> HIDE DEF r, Holds
  <2> QED BY <2>6, <2>9, <2>10
<1>5. Holds(g[0], 0)
  <2>1. Len(b) \in Nat /\ From(b, n, ps, 0) = Len(b)
    BY LenProperties DEF From
  <2> QED BY <1>3, <2>1
<1>6. \A k \in 0..n : Holds(g[k], k)
  <2> DEFINE Good == {k \in 0..n : Holds(g[k], k)}
  <2>1. 0 \in Good
    <3> HIDE DEF Holds
    <3> QED BY <1>5
  <2>2. ASSUME NEW k \in 1..n, k - 1 \in Good PROVE k \in Good
    <3> HIDE DEF Holds
    <3>1. Holds(g[k - 1], k - 1)
      BY <2>2
    <3> QED BY <1>4, <3>1
  <2>3. \A k \in 0..n : k \in Good
    <3> HIDE DEF Good
    <3> QED BY <2>1, <2>2, StepByStep
  <2> HIDE DEF Holds
  <2> QED BY <2>3
<1>7. \A k \in 1..n : g[k] = Replaced(g[k - 1], ps[n + 1 - k])
  <2> TAKE k \in 1..n
  <2>1. k - 1 \in 0..n
    OBVIOUS
  <2> HIDE DEF Holds
  <2> QED BY <1>4, <1>6, <2>1
<1>8. Turning(b, n, ps, g)
  BY <1>3, <1>6, <1>7 DEF Turning
<1> HIDE DEF step, S, Holds
<1>9. Sets(g)
  <2>1. \A k \in 0..n : g[k] = IF k = 0 THEN b ELSE Replaced(g[k - 1], ps[n + 1 - k])
    BY <1>3, <1>7
  <2> QED BY <1>2, <2>1
<1>10. Sets(after)
  BY <1>9
<1>11. Applied(b, ps) = after[n]
  <2>1. Len(ps) = n
    BY DEF InOrder
  <2> QED BY <2>1, Zenon DEF Applied
<1> HIDE DEF after
<1>12. after[0] = b /\ \A k \in 1..n : after[k] = Replaced(after[k - 1], ps[n + 1 - k])
  BY <1>10
<1> HIDE DEF Sets
<1>13. after[n] = g[n]
  <2> DEFINE same == {k \in 0..n : after[k] = g[k]}
  <2>1. 0 \in same /\ \A k \in 1..n : k - 1 \in same => k \in same
    BY <1>3, <1>7, <1>12
  <2>2. \A k \in 0..n : k \in same
    <3> HIDE DEF same
    <3> QED BY <2>1, StepByStep
  <2> QED BY <2>2
<1> QED BY <1>8, <1>11, <1>13

\* A line stays, unless it is one of those that a patch replaces; what patches put in
\* stays.
Covered(ps, n, i) == \E j \in 1..n : ps[j].start < i /\ i <= ps[j].end

Late(s, f) == {s[x] : x \in (f + 1)..Len(s)}

LinesAreKept(b, n, ps, g, k) ==
  LET f == From(b, n, ps, k) IN
  /\ \A i \in (f + 1)..Len(b) : Covered(ps, n, i) \/ b[i] \in Late(g[k], f)
  /\ \A j \in (n + 1 - k)..n : \A l \in 1..Len(ps[j].with) : ps[j].with[l] \in Late(g[k], f)

\* One of the bodies and the next, by the patch between them.
LEMMA Turns ==
  ASSUME NEW b \in Seq(Plain), NEW n \in Nat, NEW ps, InOrder(b, n, ps), NEW g,
         Turning(b, n, ps, g), NEW k \in 1..n
  PROVE  LET p == ps[n + 1 - k]
             s == g[k - 1]
             r == g[k]
             f == From(b, n, ps, k - 1)
             w == Len(p.with)
         IN /\ n + 1 - k \in 1..n
            /\ p.start \in 0..Len(s) /\ p.end \in p.start..Len(s) /\ p.with \in Seq(Plain)
            /\ From(b, n, ps, k) = p.start /\ p.end <= f /\ f \in 0..Len(b) /\ f <= Len(s)
            /\ \A i \in 1..f : s[i] = b[i]
            /\ s \in Seq(Plain) /\ r \in Seq(Plain) /\ Len(r) = p.start + w + (Len(s) - p.end)
            /\ \A i \in 1..p.start : r[i] = s[i]
            /\ \A i \in 1..w : r[p.start + i] = p.with[i]
            /\ \A i \in (p.end + 1)..Len(s) : r[p.start + w + (i - p.end)] = s[i]
            /\ Len(s) \in Nat /\ Len(b) \in Nat /\ w \in Nat
<1> DEFINE p == ps[n + 1 - k]
           s == g[k - 1]
           a == p.start
           e == p.end
           f == From(b, n, ps, k - 1)
           lb == Len(b)
           ls == Len(s)
<1>1. a \in 0..lb /\ e \in a..lb /\ p.with \in Seq(Plain) /\ e <= f /\ From(b, n, ps, k) = a
  BY NextPatch
<1>2. /\ k - 1 \in 0..n /\ n + 1 - k \in 1..n
      /\ s \in Seq(Plain) /\ f \in 0..lb /\ f <= ls /\ \A i \in 1..f : s[i] = b[i]
  BY DEF Turning
<1>3. lb \in Nat /\ ls \in Nat /\ Len(p.with) \in Nat
  BY <1>1, <1>2, LenProperties
<1>4. a \in 0..ls /\ e \in a..ls
  <2> HIDE DEF a, e, f, lb, ls
  <2> QED BY <1>1, <1>2, <1>3
<1>5. g[k] = Replaced(s, p)
  BY DEF Turning
<1> HIDE DEF s, p, f
<1>6. /\ g[k] \in Seq(Plain) /\ Len(g[k]) = a + Len(p.with) + (ls - e)
      /\ \A i \in 1..a : g[k][i] = s[i]
      /\ \A i \in 1..Len(p.with) : g[k][a + i] = p.with[i]
      /\ \A i \in (e + 1)..ls : g[k][a + Len(p.with) + (i - e)] = s[i]
  BY <1>1, <1>2, <1>4, <1>5, ReplacedIs
<1> QED BY <1>1, <1>2, <1>3, <1>4, <1>6 DEF s, p, f

LEMMA LateIs ==
  ASSUME NEW b \in Seq(Plain), NEW n \in Nat, NEW ps, InOrder(b, n, ps), NEW g,
         Turning(b, n, ps, g), NEW k \in 1..n
  PROVE  LET p == ps[n + 1 - k]
             s == g[k - 1]
         IN /\ \A i \in 1..Len(p.with) : p.with[i] \in Late(g[k], From(b, n, ps, k))
            /\ \A i \in (p.end + 1)..Len(s) : s[i] \in Late(g[k], From(b, n, ps, k))
<1> DEFINE p == ps[n + 1 - k]
           a == p.start
           e == p.end
           w == Len(p.with)
           s == g[k - 1]
           ls == Len(s)
           r == g[k]
           lr == Len(r)
<1>1. /\ a \in 0..ls /\ e \in a..ls /\ From(b, n, ps, k) = a /\ ls \in Nat /\ w \in Nat
      /\ lr = a + w + (ls - e)
      /\ \A i \in 1..w : r[a + i] = p.with[i]
      /\ \A i \in (e + 1)..ls : r[a + w + (i - e)] = s[i]
  BY Turns
<1> HIDE DEF p, a, e, w, s, ls, r, lr
<1>2. ASSUME NEW i \in 1..w PROVE p.with[i] \in {r[x] : x \in (a + 1)..lr}
  <2>1. a + i \in (a + 1)..lr
    BY <1>1
  <2> QED BY <1>1, <2>1
<1>3. ASSUME NEW i \in (e + 1)..ls PROVE s[i] \in {r[x] : x \in (a + 1)..lr}
  <2>1. a + w + (i - e) \in (a + 1)..lr
    BY <1>1
  <2> QED BY <1>1, <2>1
<1> QED BY <1>1, <1>2, <1>3 DEF Late, p, a, e, w, s, ls, r, lr

LEMMA NextStays ==
  ASSUME NEW b \in Seq(Plain), NEW n \in Nat, NEW ps, InOrder(b, n, ps), NEW g,
         Turning(b, n, ps, g), NEW k \in 1..n, LinesAreKept(b, n, ps, g, k - 1)
  PROVE  LinesAreKept(b, n, ps, g, k)
<1> DEFINE p == ps[n + 1 - k]
           a == p.start
           e == p.end
           s == g[k - 1]
           ls == Len(s)
           lb == Len(b)
           f == From(b, n, ps, k - 1)
           after == Late(g[k], From(b, n, ps, k))
<1>1. /\ n + 1 - k \in 1..n /\ From(b, n, ps, k) = a /\ e <= f /\ f \in 0..lb /\ f <= ls
      /\ a \in 0..ls /\ e \in a..ls /\ ls \in Nat /\ lb \in Nat
      /\ \A i \in 1..f : s[i] = b[i]
  <2>0. n + 1 - k \in 1..n /\ From(b, n, ps, k) = a /\ e <= f
    <3>1. n + 1 - k \in 1..n
      OBVIOUS
    <3>2. From(b, n, ps, k) = a /\ e <= f
      BY NextPatch
    <3> QED BY <3>1, <3>2
  <2>1. f \in 0..lb /\ f <= ls
    BY Turns
  <2>2. a \in 0..ls /\ e \in a..ls /\ ls \in Nat /\ lb \in Nat
    BY Turns
  <2>3. \A i \in 1..f : s[i] = b[i]
    <3>1. k - 1 \in 0..n
      OBVIOUS
    <3> QED BY <3>1 DEF Turning
  <2> QED BY <2>0, <2>1, <2>2, <2>3
<1>2. \A i \in 1..Len(p.with) : p.with[i] \in after
  BY LateIs
<1>3. \A i \in (e + 1)..ls : s[i] \in after
  BY LateIs
<1>4. /\ \A i \in (f + 1)..lb : Covered(ps, n, i) \/ b[i] \in Late(s, f)
      /\ \A j \in (n + 1 - (k - 1))..n : \A l \in 1..Len(ps[j].with) : ps[j].with[l] \in Late(s, f)
  BY DEF LinesAreKept
<1> HIDE DEF f, after, s
<1>5. \A y \in Late(s, f) : y \in after
  <2>1. Late(s, f) = {s[x] : x \in (f + 1)..ls}
    BY DEF Late
  <2> HIDE DEF ls, e, a
  <2>2. \A x \in (f + 1)..ls : x \in (e + 1)..ls
    BY <1>1
  <2> QED BY <1>3, <2>1, <2>2
<1>6. ASSUME NEW i \in (a + 1)..lb PROVE Covered(ps, n, i) \/ b[i] \in after
  <2>1. CASE i <= e
    <3>1. a < i
      <4> HIDE DEF a, lb
      <4> QED BY <1>1
    <3> QED BY <1>1, <2>1, <3>1 DEF Covered
  <2>2. CASE e < i /\ i <= f
    <3>1. i \in 1..f /\ i \in (e + 1)..ls
      <4> HIDE DEF a, e, lb, ls
      <4> QED BY <1>1, <2>2
    <3> QED BY <1>1, <1>3, <3>1
  <2>3. CASE f < i
    <3>1. i \in (f + 1)..lb
      <4> HIDE DEF a, e, lb, ls
      <4> QED BY <1>1, <2>3
    <3> QED BY <1>4, <1>5, <3>1
  <2>4. i <= e \/ (e < i /\ i <= f) \/ f < i
    <3> HIDE DEF a, e, lb, ls
    <3> QED BY <1>1
  <2> QED BY <2>1, <2>2, <2>3, <2>4
<1>7. ASSUME NEW j \in (n + 1 - k)..n, NEW l \in 1..Len(ps[j].with) PROVE ps[j].with[l] \in after
  <2>1. CASE j = n + 1 - k
    BY <1>2, <2>1
  <2>2. CASE j # n + 1 - k
    <3>1. j \in (n + 1 - (k - 1))..n
      BY <2>2
    <3> QED BY <1>4, <1>5, <3>1
  <2> QED BY <2>1, <2>2
<1> QED BY <1>1, <1>6, <1>7 DEF LinesAreKept, after

\* In the end a line is still there, or a patch replaced it.
InTheEnd(b, n, ps, r) ==
  /\ \A i \in 1..Len(b) : Covered(ps, n, i) \/ \E x \in 1..Len(r) : r[x] = b[i]
  /\ \A j \in 1..n : \A l \in 1..Len(ps[j].with) : \E x \in 1..Len(r) : r[x] = ps[j].with[l]

LEMMA LinesStay ==
  ASSUME NEW b \in Seq(Plain), NEW n \in Nat, NEW ps, InOrder(b, n, ps), NEW g,
         Turning(b, n, ps, g)
  PROVE  InTheEnd(b, n, ps, g[n])
<1> DEFINE Good == {k \in 0..n : LinesAreKept(b, n, ps, g, k)}
           f == From(b, n, ps, n)
           r == g[n]
<1>1. Len(b) \in Nat
  BY LenProperties
<1>2. 0 \in Good
  <2>1. From(b, n, ps, 0) = Len(b)
    BY DEF From
  <2>2. \A i \in (Len(b) + 1)..Len(b) : FALSE
    BY <1>1
  <2>3. \A j \in (n + 1 - 0)..n : FALSE
    OBVIOUS
  <2>4. LinesAreKept(b, n, ps, g, 0)
    BY <2>1, <2>2, <2>3 DEF LinesAreKept
  <2> QED BY <2>4
<1>3. \A k \in 1..n : k - 1 \in Good => k \in Good
  BY NextStays
<1>4. LinesAreKept(b, n, ps, g, n)
  <2>1. \A k \in 0..n : k \in Good
    <3> HIDE DEF Good
    <3> QED BY <1>2, <1>3, StepByStep
  <2> QED BY <2>1
<1>5. /\ r \in Seq(Plain) /\ f \in 0..Len(b) /\ f <= Len(r) /\ \A i \in 1..f : r[i] = b[i]
  <2>1. n \in 0..n
    OBVIOUS
  <2>2. r \in Seq(Plain) /\ f \in 0..Len(b) /\ f <= Len(r)
    BY <2>1 DEF Turning
  <2>3. \A i \in 1..f : r[i] = b[i]
    BY <2>1 DEF Turning
  <2> QED BY <2>2, <2>3
<1>6. /\ \A i \in (f + 1)..Len(b) : Covered(ps, n, i) \/ b[i] \in Late(r, f)
      /\ \A j \in (n + 1 - n)..n : \A l \in 1..Len(ps[j].with) : ps[j].with[l] \in Late(r, f)
  BY <1>4 DEF LinesAreKept
<1>7. \A y \in Late(r, f) : \E x \in 1..Len(r) : r[x] = y
  <2>1. Late(r, f) = {r[x] : x \in (f + 1)..Len(r)}
    BY DEF Late
  <2>2. Len(r) \in Nat
    BY <1>5, LenProperties
  <2> DEFINE lr == Len(r)
             lb == Len(b)
  <2>3. \A x \in (f + 1)..lr : x \in 1..lr
    <3>1. lr \in Nat /\ lb \in Nat /\ f \in 0..lb
      BY <1>1, <1>5, <2>2
    <3> HIDE DEF lr, lb, f
    <3> QED BY <3>1
  <2> HIDE DEF f, r
  <2> QED BY <2>1, <2>3
<1>8. ASSUME NEW i \in 1..Len(b) PROVE Covered(ps, n, i) \/ \E x \in 1..Len(r) : r[x] = b[i]
  <2> DEFINE lr == Len(r)
             lb == Len(b)
  <2>1. lr \in Nat /\ lb \in Nat /\ f \in 0..lb /\ f <= lr /\ i \in 1..lb
    BY <1>1, <1>5, LenProperties
  <2> HIDE DEF lr, lb, f, r
  <2>2. (i \in 1..f /\ i \in 1..lr) \/ i \in (f + 1)..lb
    BY <2>1
  <2> QED BY <1>5, <1>6, <1>7, <2>2 DEF lr, lb
<1>9. n + 1 - n = 1
  OBVIOUS
<1> HIDE DEF f, r
<1> QED BY <1>6, <1>7, <1>8, <1>9 DEF r, InTheEnd

\* What keeps texts apart: a patch begins with a blank line after a text, and one that
\* ends with a text has a blank line after it, in the body or in the next patch.
EndsText(p) == Len(p.with) # 0 /\ IsText(p.with[Len(p.with)])

Fits(b, p) ==
  /\ Apart(p.with)
  /\ p.start > 0 /\ IsText(b[p.start]) => Len(p.with) # 0 /\ p.with[1] = Blank
  /\ EndsText(p) => p.end = Len(b) \/ b[p.end + 1] = Blank

Joins(p, q) == EndsText(p) /\ q.start = p.end => Len(q.with) # 0 /\ q.with[1] = Blank

LEMMA NextApart ==
  ASSUME NEW b \in Seq(Plain), NEW n \in Nat, NEW ps, InOrder(b, n, ps), NEW g,
         Turning(b, n, ps, g), \A j \in 1..n : Fits(b, ps[j]),
         \A j \in 1..(n - 1) : Joins(ps[j], ps[j + 1]),
         NEW k \in 1..n, Apart(g[k - 1])
  PROVE  Apart(g[k])
<1> DEFINE p == ps[n + 1 - k]
           a == p.start
           e == p.end
           w == p.with
           m == Len(w)
           s == g[k - 1]
           ls == Len(s)
           lb == Len(b)
           f == From(b, n, ps, k - 1)
           r == g[k]
           lr == Len(r)
<1>1. a \in 0..ls /\ e \in a..ls /\ ls \in Nat /\ lb \in Nat /\ m \in Nat
  BY Turns
<1>2. f \in 0..lb /\ f <= ls
  BY Turns
<1>3. e <= f
  BY NextPatch
<1>4. \A i \in 1..f : s[i] = b[i]
  <2>1. k - 1 \in 0..n
    OBVIOUS
  <2> QED BY <2>1 DEF Turning
<1>5. lr = a + m + (ls - e)
  BY Turns
<1>6. \A i \in 1..a : r[i] = s[i]
  BY Turns
<1>7. \A i \in 1..m : r[a + i] = w[i]
  BY Turns
<1>8. \A i \in (e + 1)..ls : r[a + m + (i - e)] = s[i]
  BY Turns
<1>9. Fits(b, p)
  <2>1. n + 1 - k \in 1..n
    OBVIOUS
  <2> QED BY <2>1
<1>10. \A i \in 1..(m - 1) : IsText(w[i]) => w[i + 1] = Blank
  BY <1>9 DEF Fits, Apart
<1>11. a > 0 /\ IsText(b[a]) => m # 0 /\ w[1] = Blank
  BY <1>9 DEF Fits
<1>12. m # 0 /\ IsText(w[m]) => e = lb \/ b[e + 1] = Blank
  BY <1>9 DEF Fits, EndsText
<1>13. \A i \in 1..(ls - 1) : IsText(s[i]) => s[i + 1] = Blank
  BY DEF Apart
<1>14. m # 0 /\ IsText(w[m]) /\ e = f /\ e < ls => s[e + 1] = Blank
  <2> SUFFICES ASSUME m # 0 /\ IsText(w[m]) /\ e = f /\ e < ls PROVE s[e + 1] = Blank
    OBVIOUS
  <2>1. CASE k = 1
    <3>1. f = lb /\ s = b
      BY <2>1 DEF From, Turning
    <3> QED BY <1>1, <3>1
  <2>2. CASE k # 1
    <3> DEFINE j == k - 1
               i == n + 1 - k
               q == ps[n + 1 - j]
               aq == q.start
               sq == g[j - 1]
    <3>1. j \in 1..n /\ i \in 1..(n - 1) /\ n + 1 - j = i + 1
      BY <2>2
    <3>2. f = aq
      BY <3>1, NextPatch
    <3>3. EndsText(p) /\ q.start = p.end
      BY <3>2 DEF EndsText
    <3>4. Len(q.with) # 0 /\ q.with[1] = Blank
      BY <3>1, <3>3 DEF Joins
    <3>5. \A x \in 1..Len(q.with) : s[aq + x] = q.with[x]
      BY <3>1, Turns
    <3>6. 1 \in 1..Len(q.with)
      <4>1. Len(q.with) \in Nat
        BY <3>1, Turns
      <4> QED BY <3>4, <4>1
    <3>7. s[aq + 1] = Blank
      BY <3>4, <3>5, <3>6
    <3> HIDE DEF aq, f, s
    <3> QED BY <3>2, <3>7
  <2> QED BY <2>1, <2>2
<1> HIDE DEF p, a, e, w, m, s, ls, lb, f, r, lr
<1>15. ASSUME NEW x \in 1..(lr - 1), IsText(r[x]) PROVE r[x + 1] = Blank
  <2>1. CASE x < a
    <3>1. x \in 1..a /\ x + 1 \in 1..a /\ x \in 1..(ls - 1)
      BY <1>1, <2>1
    <3> QED BY <1>6, <1>13, <1>15, <3>1
  <2>2. CASE x = a
    <3>1. a \in 1..a /\ a \in 1..f /\ a > 0
      BY <1>1, <1>2, <1>3, <2>2
    <3>2. IsText(b[a])
      BY <1>4, <1>6, <1>15, <2>2, <3>1
    <3>3. m # 0 /\ w[1] = Blank
      BY <1>11, <3>1, <3>2
    <3>4. 1 \in 1..m
      BY <1>1, <3>3
    <3> QED BY <1>7, <2>2, <3>3, <3>4
  <2>3. CASE a < x /\ x < a + m
    <3>1. x - a \in 1..m /\ (x - a) + 1 \in 1..m /\ x - a \in 1..(m - 1)
          /\ a + (x - a) = x /\ a + ((x - a) + 1) = x + 1
      BY <1>1, <2>3
    <3>2. r[x] = w[x - a] /\ r[x + 1] = w[(x - a) + 1]
      BY <1>7, <3>1
    <3> QED BY <1>10, <1>15, <3>1, <3>2
  <2>4. CASE m # 0 /\ x = a + m
    <3>1. m \in 1..m /\ e < ls /\ e + 1 \in (e + 1)..ls /\ a + m + ((e + 1) - e) = x + 1
      BY <1>1, <1>5, <2>4
    <3>2. IsText(w[m]) /\ r[x + 1] = s[e + 1]
      BY <1>7, <1>8, <1>15, <2>4, <3>1
    <3>3. CASE e = f
      BY <1>14, <2>4, <3>1, <3>2, <3>3
    <3>4. CASE e # f
      <4>1. e + 1 \in 1..f /\ e # lb
        BY <1>1, <1>2, <1>3, <3>4
      <4> QED BY <1>4, <1>12, <2>4, <3>2, <4>1
    <3> QED BY <3>3, <3>4
  <2>5. CASE a + m < x
    <3> DEFINE y == e + (x - (a + m))
    <3>1. y \in (e + 1)..ls /\ y + 1 \in (e + 1)..ls /\ y \in 1..(ls - 1)
          /\ a + m + (y - e) = x /\ a + m + ((y + 1) - e) = x + 1
      BY <1>1, <1>5, <2>5
    <3> HIDE DEF y
    <3>2. r[x] = s[y] /\ r[x + 1] = s[y + 1]
      BY <1>8, <3>1
    <3> QED BY <1>13, <1>15, <3>1, <3>2
  <2>6. x < a \/ x = a \/ (a < x /\ x < a + m) \/ (m # 0 /\ x = a + m) \/ a + m < x
    BY <1>1
  <2> QED BY <2>1, <2>2, <2>3, <2>4, <2>5, <2>6
<1> QED BY <1>15 DEF Apart, r, lr

LEMMA TextsStayApart ==
  ASSUME NEW b \in Seq(Plain), NEW n \in Nat, NEW ps, InOrder(b, n, ps), NEW g,
         Turning(b, n, ps, g), \A j \in 1..n : Fits(b, ps[j]),
         \A j \in 1..(n - 1) : Joins(ps[j], ps[j + 1]), Apart(b)
  PROVE  Apart(g[n])
<1> DEFINE Good == {k \in 0..n : Apart(g[k])}
<1>1. 0 \in Good
  BY DEF Turning
<1>2. \A k \in 1..n : k - 1 \in Good => k \in Good
  BY NextApart
<1>3. \A k \in 0..n : k \in Good
  <2> HIDE DEF Good
  <2> QED BY <1>1, <1>2, StepByStep
<1> QED BY <1>3

\* A finite set of numbered things can be put in order.
Sorts(f, n, s, t) ==
  /\ IsInjective(f)
  /\ \A k \in 1..(n - 1) : \/ s[f[k]] < s[f[k + 1]]
                           \/ s[f[k]] = s[f[k + 1]] /\ t[f[k]] <= t[f[k + 1]]

Bounded(K, s, t) ==
  /\ s \in [K -> Nat] /\ t \in [K -> Nat]
  /\ \E top \in Nat : \A x \in K : s[x] <= top /\ t[x] <= top

IsLast(A, s, t, x) == \A y \in A : s[y] < s[x] \/ (s[y] = s[x] /\ t[y] <= t[x])

LEMMA LastIs ==
  ASSUME NEW K, NEW s, NEW t, Bounded(K, s, t), NEW A \in SUBSET K, A # {}
  PROVE  \E x \in A : IsLast(A, s, t, x)
<1>0. PICK top \in Nat : \A x \in K : s[x] <= top /\ t[x] <= top
  BY DEF Bounded
<1>. s \in [K -> Nat] /\ t \in [K -> Nat]
  BY DEF Bounded
<1> DEFINE S == {top - s[x] : x \in A}
<1>1. S \in SUBSET Nat /\ S # {}
  <2>1. \A x \in A : s[x] \in Nat /\ top - s[x] \in Nat
    BY <1>0
  <2> QED BY <2>1
<1>2. PICK m \in S : \A k \in S : m <= k
  <2> HIDE DEF S
  <2> QED BY <1>1, FirstOf
<1>3. PICK x1 \in A : m = top - s[x1]
  BY <1>2
<1>4. \A y \in A : s[y] <= s[x1]
  <2> TAKE y \in A
  <2>1. m <= top - s[y] /\ s[y] \in Nat /\ s[x1] \in Nat
    BY <1>2
  <2> QED BY <1>3, <2>1
<1> DEFINE B == {x \in A : s[x] = s[x1]}
           R == {top - t[x] : x \in B}
<1>5. R \in SUBSET Nat /\ R # {}
  <2>1. \A x \in A : t[x] \in Nat /\ top - t[x] \in Nat
    BY <1>0
  <2>2. x1 \in B
    OBVIOUS
  <2> QED BY <2>1, <2>2
<1>6. PICK l \in R : \A k \in R : l <= k
  <2> HIDE DEF R
  <2> QED BY <1>5, FirstOf
<1>7. PICK x \in B : l = top - t[x]
  BY <1>6
<1>8. ASSUME NEW y \in A PROVE s[y] < s[x] \/ (s[y] = s[x] /\ t[y] <= t[x])
  <2>1. x \in A /\ s[x] = s[x1] /\ s[y] <= s[x1] /\ s[y] \in Nat /\ s[x1] \in Nat
    BY <1>4, <1>7
  <2>2. CASE s[y] = s[x1]
    <3>1. l <= top - t[y] /\ t[y] \in Nat /\ t[x] \in Nat
      BY <1>6, <2>1, <2>2
    <3>2. t[y] <= t[x]
      BY <1>7, <3>1
    <3> QED BY <2>1, <2>2, <3>2
  <2>3. CASE s[y] # s[x1]
    BY <2>1, <2>3
  <2> QED BY <2>2, <2>3
<1> QED BY <1>7, <1>8 DEF IsLast

LEMMA SortsExist ==
  ASSUME NEW n \in Nat, NEW K \in SUBSET (1..n), NEW s, NEW t, Bounded(K, s, t)
  PROVE  /\ IsFiniteSet(K) /\ Cardinality(K) \in Nat
         /\ \E f \in [1..Cardinality(K) -> K] : Sorts(f, Cardinality(K), s, t)
<1>1. \A A \in SUBSET K : IsFiniteSet(A) /\ Cardinality(A) \in Nat
  <2>1. IsFiniteSet(1..n)
    BY FS_Interval
  <2> QED BY <2>1, FS_Subset, FS_CardinalityType
<1> DEFINE Sortable(c) == \A A \in SUBSET K : Cardinality(A) = c =>
                            \E f \in [1..c -> A] : Sorts(f, c, s, t)
           m == Cardinality(K)
           Good == {c \in 0..m : Sortable(c)}
<1>2. m \in Nat
  BY <1>1
<1>3. 0 \in Good
  <2>1. ASSUME NEW A \in SUBSET K PROVE \E f \in [1..0 -> A] : Sorts(f, 0, s, t)
    <3> DEFINE f == [k \in 1..0 |-> n]
    <3>1. f \in [1..0 -> A] /\ DOMAIN f = {}
      OBVIOUS
    <3>2. Sorts(f, 0, s, t)
      BY <3>1 DEF Sorts, IsInjective
    <3> QED BY <3>1, <3>2
  <2> QED BY <1>2, <2>1
<1>4. ASSUME NEW c \in 1..m, c - 1 \in Good PROVE c \in Good
  <2> SUFFICES ASSUME NEW A \in SUBSET K, Cardinality(A) = c
               PROVE  \E f \in [1..c -> A] : Sorts(f, c, s, t)
    BY <1>2
  <2>1. IsFiniteSet(A) /\ A # {} /\ c \in Nat /\ c # 0
    BY <1>1, <1>2, FS_EmptySet
  <2>2. PICK x \in A : IsLast(A, s, t, x)
    BY <2>1, LastIs
  <2>3. Cardinality(A \ {x}) = c - 1 /\ A \ {x} \in SUBSET K
    BY <2>1, <2>2, FS_RemoveElement
  <2>4. PICK f \in [1..(c - 1) -> A \ {x}] : Sorts(f, c - 1, s, t)
    BY <1>4, <2>3
  <2> DEFINE h == [k \in 1..c |-> IF k = c THEN x ELSE f[k]]
  <2>5. h \in [1..c -> A] /\ h[c] = x /\ DOMAIN h = 1..c
        /\ \A k \in 1..(c - 1) : h[k] = f[k] /\ f[k] \in A \ {x}
    <3>1. \A k \in 1..c : k = c \/ k \in 1..(c - 1)
      BY <2>1
    <3>2. \A k \in 1..(c - 1) : f[k] \in A \ {x} /\ k \in 1..c /\ k # c
      BY <2>1
    <3>3. c \in 1..c
      BY <2>1
    <3> QED BY <2>2, <3>1, <3>2, <3>3
  <2> HIDE DEF h
  <2>6. IsInjective(h)
    <3>1. \A i, j \in 1..(c - 1) : f[i] = f[j] => i = j
      BY <2>4 DEF Sorts, IsInjective
    <3>2. \A i \in 1..c : i = c \/ i \in 1..(c - 1)
      BY <2>1
    <3>3. \A i, j \in 1..c : h[i] = h[j] => i = j
      BY <2>5, <3>1, <3>2
    <3> QED BY <2>5, <3>3 DEF IsInjective
  <2>7. ASSUME NEW k \in 1..(c - 1)
        PROVE  s[h[k]] < s[h[k + 1]] \/ (s[h[k]] = s[h[k + 1]] /\ t[h[k]] <= t[h[k + 1]])
    <3>1. CASE k = c - 1
      <4>1. h[k] \in A /\ h[k + 1] = x
        BY <2>1, <2>5, <3>1
      <4> QED BY <2>2, <4>1 DEF IsLast
    <3>2. CASE k # c - 1
      <4>1. k \in 1..((c - 1) - 1) /\ k + 1 \in 1..(c - 1)
        BY <2>1, <3>2
      <4>2. h[k] = f[k] /\ h[k + 1] = f[k + 1]
        BY <2>5, <4>1
      <4> QED BY <2>4, <4>1, <4>2 DEF Sorts
    <3> QED BY <3>1, <3>2
  <2> QED BY <2>5, <2>6, <2>7 DEF Sorts
<1>5. \A c \in 0..m : c \in Good
  <2> HIDE DEF Good, m
  <2> QED BY <1>2, <1>3, <1>4, StepByStep
<1>6. Sortable(m)
  <2>1. m \in Good
    <3> HIDE DEF Good, m
    <3> QED BY <1>2, <1>5
  <2> QED BY <2>1
<1> QED BY <1>1, <1>6

\* Where a patch of an edit is: at a node, or in front of it, or behind all lines.
OfNode(b, r, p) ==
  /\ IsNode(b, r) /\ p.start = r[1] - 1
  /\ \/ p.end = p.start
     \/ p.end = IF b[r[2]] = Blank THEN r[2] - 1 ELSE r[2]

AtEnd(b, p) ==
  /\ p.start = Len(b) /\ p.end = Len(b)
  /\ b[Len(b)] = Blank \/ (Len(p.with) # 0 /\ p.with[1] = Blank)

IsPatch(b, p) ==
  /\ p.start \in 0..Len(b) /\ p.end \in p.start..Len(b) /\ p.with \in Seq(Plain) /\ Apart(p.with)

LEMMA NodeIs ==
  ASSUME NEW b \in Seq(Plain), NEW r, IsNode(b, r)
  PROVE  /\ Len(b) \in Nat /\ Len(Split(b)) \in Nat
         /\ Len(Split(b)) = Len(b) \/ Len(Split(b)) = Len(b) - 1
         /\ Len(Split(b)) = Len(b) => b[Len(b)] # Blank
         /\ Len(Split(b)) = Len(b) - 1 => b[Len(b)] = Blank
         /\ r[1] \in 1..Len(Split(b)) /\ r[2] \in r[1]..Len(Split(b))
         /\ r[1] \in 1..Len(b) /\ r[2] \in r[1]..Len(b)
         /\ \A k \in 1..Len(b) : b[k] \in Plain
<1> DEFINE lb == Len(b)
           ls == Len(Split(b))
           r1 == r[1]
           r2 == r[2]
<1>1. lb \in Nat /\ ls \in Nat
  BY SplitIs, LenProperties
<1>2. \/ ls = lb /\ (b # <<>> => b[lb] # Blank)
      \/ ls = lb - 1 /\ b[lb] = Blank
  BY SplitIs
<1>3. r1 \in 1..ls /\ r2 \in r1..ls
  BY DEF IsNode
<1>4. \A k \in 1..lb : b[k] \in Plain
  BY ElementOfSeq
<1>5. b # <<>>
  <2> SUFFICES ASSUME b = <<>> PROVE FALSE
    OBVIOUS
  <2>1. lb = 0
    OBVIOUS
  <2> HIDE DEF lb, ls, r1
  <2> QED BY <1>1, <1>2, <1>3, <2>1
<1> HIDE DEF lb, ls, r1, r2
<1>6. r1 \in 1..lb /\ r2 \in r1..lb
  BY <1>1, <1>2, <1>3
<1>7. ls = lb => b[lb] # Blank
  BY <1>1, <1>2, <1>5
<1>8. ls = lb - 1 => b[lb] = Blank
  BY <1>1, <1>2
<1> QED BY <1>1, <1>2, <1>3, <1>4, <1>6, <1>7, <1>8 DEF lb, ls, r1, r2

LEMMA InsertedIs ==
  ASSUME NEW w \in Seq(Plain), Apart(w)
  PROVE  /\ Append(w, Blank) \in Seq(Plain) /\ Apart(Append(w, Blank))
         /\ Len(Append(w, Blank)) = Len(w) + 1 /\ Append(w, Blank)[Len(w) + 1] = Blank
         /\ <<Blank>> \o w \in Seq(Plain) /\ Apart(<<Blank>> \o w)
         /\ Len(<<Blank>> \o w) = Len(w) + 1 /\ (<<Blank>> \o w)[1] = Blank
<1> DEFINE z == Blank
           n == Len(w)
           x == Append(w, z)
           y == <<z>> \o w
<1>1. z \in Plain /\ ~IsText(z) /\ n \in Nat
  BY BlankIs, LenProperties
<1>2. \A k \in 1..(n - 1) : IsText(w[k]) => w[k + 1] = z
  BY DEF Apart
<1> HIDE DEF z
<1>3. x \in Seq(Plain) /\ Len(x) = n + 1 /\ (\A k \in 1..n : x[k] = w[k]) /\ x[n + 1] = z
  BY <1>1, AppendProperties
<1>4. y \in Seq(Plain) /\ Len(y) = n + 1 /\ y[1] = z /\ \A k \in 1..n : y[k + 1] = w[k]
  <2>1. <<z>> \in Seq(Plain) /\ Len(<<z>>) = 1 /\ <<z>>[1] = z
    BY <1>1
  <2> DEFINE u == <<z>>
  <2> HIDE DEF u
  <2>2. u \o w \in Seq(Plain) /\ Len(u \o w) = Len(u) + Len(w)
        /\ \A i \in 1..(Len(u) + Len(w)) : (u \o w)[i] = IF i <= Len(u) THEN u[i] ELSE w[i - Len(u)]
    BY <2>1, ConcatProperties DEF u
  <2>3. Len(u) = 1 /\ u[1] = z
    BY <2>1 DEF u
  <2>4. y = u \o w
    BY DEF u
  <2> HIDE DEF y, n
  <2>5. \A i \in 1..(1 + n) : y[i] = IF i <= 1 THEN u[i] ELSE w[i - 1]
    BY <2>2, <2>3, <2>4 DEF n
  <2>6. Len(y) = n + 1 /\ y \in Seq(Plain)
    BY <1>1, <2>2, <2>3, <2>4 DEF n
  <2>7. y[1] = z
    BY <1>1, <2>3, <2>5
  <2>8. \A k \in 1..n : y[k + 1] = w[k]
    <3> TAKE k \in 1..n
    <3>1. k + 1 \in 1..(1 + n) /\ ~(k + 1 <= 1) /\ (k + 1) - 1 = k
      BY <1>1
    <3> QED BY <2>5, <3>1
  <2> QED BY <2>6, <2>7, <2>8
<1> HIDE DEF x, y, n
<1>5. ASSUME NEW k \in 1..((n + 1) - 1), IsText(x[k]) PROVE x[k + 1] = z
  <2>1. CASE k = n
    BY <1>1, <1>3, <2>1
  <2>2. CASE k # n
    <3>1. k \in 1..(n - 1) /\ k \in 1..n /\ k + 1 \in 1..n
      BY <1>1, <2>2
    <3> QED BY <1>2, <1>3, <1>5, <3>1
  <2> QED BY <2>1, <2>2
<1>6. ASSUME NEW k \in 1..((n + 1) - 1), IsText(y[k]) PROVE y[k + 1] = z
  <2>1. CASE k = 1
    BY <1>1, <1>4, <1>6, <2>1
  <2>2. CASE k # 1
    <3>1. k - 1 \in 1..(n - 1) /\ k - 1 \in 1..n /\ k \in 1..n /\ (k - 1) + 1 = k
      BY <1>1, <2>2
    <3>2. y[k] = w[k - 1] /\ y[k + 1] = w[k]
      BY <1>4, <3>1
    <3> QED BY <1>2, <1>6, <3>1, <3>2
  <2> QED BY <2>1, <2>2
<1>7. Apart(x) /\ Apart(y)
  BY <1>3, <1>4, <1>5, <1>6 DEF Apart, z
<1> QED BY <1>3, <1>4, <1>7 DEF x, y, n, z

\* The patch of an edit of a node.
LEMMA PatchIs ==
  ASSUME NEW b \in Seq(Plain), NEW e, IsEdit(e), e.type \in InBody \ {"insert"}, Applies(b, e)
  PROVE  LET p == PatchOf(b, e)
             r == Nodes(b)[At(b, e)]
         IN /\ p.start = r[1] - 1 /\ p.end = (IF b[r[2]] = Blank THEN r[2] - 1 ELSE r[2])
            /\ p.with = Instead(b, e)
            /\ IsPatch(b, p)
<1> DEFINE p == PatchOf(b, e)
           r == Nodes(b)[At(b, e)]
           range == NodeRange(b, At(b, e))
<1>1. IsNode(b, r)
  BY AboutIs
<1>2. p = Patch(range, Instead(b, e))
  BY DEF PatchOf
<1>3. range.start = r[1] - 1 /\ range.end = IF b[r[2]] = Blank THEN r[2] - 1 ELSE r[2]
  BY DEF NodeRange
<1>4. p.start = range.start /\ p.end = range.end /\ p.with = Instead(b, e)
  BY <1>2 DEF Patch
<1>5. r[1] \in 1..Len(b) /\ r[2] \in r[1]..Len(b) /\ Len(b) \in Nat
  BY <1>1, NodeIs
<1>6. p.start \in 0..Len(b) /\ p.end \in p.start..Len(b)
  <2> DEFINE r1 == r[1]
             r2 == r[2]
             lb == Len(b)
             a == p.start
             e1 == p.end
  <2>1. r1 \in 1..lb /\ r2 \in r1..lb /\ lb \in Nat /\ a = r1 - 1 /\ (e1 = r2 - 1 \/ e1 = r2)
    BY <1>3, <1>4, <1>5
  <2> HIDE DEF r1, r2, lb, a, e1
  <2>2. a \in 0..lb /\ e1 \in a..lb
    BY <2>1
  <2> QED BY <2>2 DEF a, e1, lb
<1>7. p.with \in Seq(Plain) /\ Apart(p.with)
  BY <1>4, InsteadIs
<1> HIDE DEF p
<1> QED BY <1>3, <1>4, <1>6, <1>7 DEF IsPatch, p

\* The patch of an insertion.
LEMMA InsertIs ==
  ASSUME NEW b \in Seq(Plain), NEW e, IsEdit(e), e.type = "insert", Applies(b, e)
  PROVE  LET p == PatchOf(b, e)
         IN /\ IsPatch(b, p) /\ p.end = p.start
            /\ \/ (\E r : OfNode(b, r, p)) /\ ~EndsText(p)
               \/ AtEnd(b, p)
<1> DEFINE p == PatchOf(b, e)
           z == Blank
<1>1. Len(b) \in Nat /\ e.lines \in Seq(Plain) /\ Apart(e.lines)
  BY LenProperties DEF IsEdit
<1>2. p = InsertLines(b, e)
  BY DEF PatchOf
<1>3. CASE e.at <= Len(Nodes(b))
  <2> DEFINE r == Nodes(b)[e.at]
             start == NodeRange(b, e.at).start
             w == Append(e.lines, z)
  <2>1. e.at \in 1..Len(Nodes(b))
    <3>1. e.at \in 1..(Len(Nodes(b)) + 1)
      BY DEF Applies, At
    <3>2. Len(Nodes(b)) \in Nat
      BY NodesAre
    <3> QED BY <1>3, <3>1, <3>2
  <2>2. IsNode(b, r)
    BY <2>1, NodesAre
  <2>3. p = Patch([start |-> start, end |-> start], w)
    BY <1>2, <1>3 DEF InsertLines
  <2>4. p.start = start /\ p.end = start /\ p.with = w
    BY <2>3 DEF Patch
  <2>5. start = r[1] - 1
    BY DEF NodeRange
  <2>6. r[1] \in 1..Len(b)
    BY <2>2, NodeIs
  <2> HIDE DEF start, p
  <2>7. start \in 0..Len(b) /\ start \in start..Len(b)
    BY <1>1, <2>5, <2>6
  <2>8. w \in Seq(Plain) /\ Apart(w) /\ Len(w) = Len(e.lines) + 1 /\ w[Len(w)] = z
    BY <1>1, InsertedIs
  <2>9. ~IsText(z)
    BY BlankIs
  <2> HIDE DEF w
  <2>10. IsPatch(b, p) /\ ~EndsText(p)
    BY <2>4, <2>7, <2>8, <2>9 DEF IsPatch, EndsText
  <2>11. OfNode(b, r, p)
    BY <2>2, <2>4, <2>5 DEF OfNode
  <2> QED BY <2>4, <2>10, <2>11 DEF p
<1>4. CASE ~(e.at <= Len(Nodes(b)))
  <2> DEFINE w == (IF Last(b) = z THEN <<>> ELSE <<z>>) \o e.lines
  <2>1. p = Patch([start |-> Len(b), end |-> Len(b)], w)
    BY <1>2, <1>4 DEF InsertLines
  <2>2. p.start = Len(b) /\ p.end = Len(b) /\ p.with = w
    <3> HIDE DEF p, w
    <3> QED BY <2>1 DEF Patch
  <2> HIDE DEF p
  <2>3. CASE Last(b) = z
    <3>1. w = e.lines
      <4>1. <<>> \o e.lines = e.lines
        BY <1>1, ConcatEmptySeq
      <4> QED BY <2>3, <4>1
    <3>2. b[Len(b)] = z
      BY <2>3 DEF Last
    <3> HIDE DEF w
    <3>3. IsPatch(b, p)
      BY <1>1, <2>2, <3>1 DEF IsPatch
    <3>4. AtEnd(b, p)
      BY <2>2, <3>2 DEF AtEnd
    <3> QED BY <2>2, <3>3, <3>4 DEF p
  <2>4. CASE Last(b) # z
    <3>1. w = <<z>> \o e.lines
      BY <2>4
    <3>2. w \in Seq(Plain) /\ Apart(w) /\ Len(w) = Len(e.lines) + 1 /\ w[1] = z
      BY <1>1, <3>1, InsertedIs
    <3>3. Len(w) # 0
      <4>1. Len(e.lines) \in Nat
        BY <1>1, LenProperties
      <4> HIDE DEF w
      <4> QED BY <3>2, <4>1
    <3> HIDE DEF w
    <3>4. IsPatch(b, p)
      BY <1>1, <2>2, <3>2 DEF IsPatch
    <3>5. AtEnd(b, p)
      BY <2>2, <3>2, <3>3 DEF AtEnd
    <3> QED BY <2>2, <3>4, <3>5 DEF p
  <2> QED BY <2>3, <2>4
<1> QED BY <1>3, <1>4

\* A text that is put in takes the place of one.
TextNode(b, r, p) ==
  /\ IsNode(b, r) /\ ~IsDirective(b[r[1]]) /\ p.start = r[1] - 1
  /\ p.end = IF b[r[2]] = Blank THEN r[2] - 1 ELSE r[2]

LEMMA TextsAre ==
  ASSUME NEW b \in Seq(Plain), NEW r, IsNode(b, r), ~IsDirective(b[r[1]])
  PROVE  /\ \A k \in r[1]..r[2] : ~IsDirective(b[k])
         /\ r[1] = 1 \/ IsDirective(b[r[1] - 1])
         /\ r[2] = Len(Split(b)) \/ IsDirective(b[r[2] + 1])
         /\ \E k \in r[1]..r[2] : IsText(b[k])
  BY DEF IsNode

LEMMA KindIs ==
  ASSUME NEW b \in Seq(Plain), NEW e, IsEdit(e), e.type \in InBody, Applies(b, e)
  PROVE  LET p == PatchOf(b, e)
         IN /\ IsPatch(b, p)
            /\ (\E r : OfNode(b, r, p)) \/ AtEnd(b, p)
            /\ EndsText(p) /\ ~Glues(b, e) => (\E r : TextNode(b, r, p)) \/ AtEnd(b, p)
<1> DEFINE p == PatchOf(b, e)
<1>1. CASE e.type = "insert"
  BY <1>1, InsertIs
<1>2. CASE e.type # "insert"
  <2> DEFINE r == Nodes(b)[At(b, e)]
  <2>1. /\ IsPatch(b, p) /\ p.with = Instead(b, e)
        /\ p.start = r[1] - 1 /\ p.end = IF b[r[2]] = Blank THEN r[2] - 1 ELSE r[2]
    BY <1>2, PatchIs
  <2>2. IsNode(b, r)
    BY <1>2, AboutIs
  <2> HIDE DEF p, r
  <2>3. OfNode(b, r, p)
    BY <2>1, <2>2 DEF OfNode
  <2>4. ASSUME EndsText(p), ~Glues(b, e) PROVE TextNode(b, r, p)
    <3>1. e.type = "replace"
      <4> SUFFICES ASSUME e.type # "replace" PROVE FALSE
        OBVIOUS
      <4>1. Directives(p.with)
        BY <1>2, <2>1, InsteadIs
      <4>2. Len(p.with) \in Nat /\ Len(p.with) # 0 /\ IsText(p.with[Len(p.with)])
        BY <2>1, <2>4, LenProperties DEF EndsText, IsPatch
      <4>3. IsDirective(p.with[Len(p.with)])
        BY <4>1, <4>2 DEF Directives
      <4> QED BY <4>2, <4>3 DEF IsDirective, IsText
    <3>2. ~IsDirective(b[r[1]])
      BY <2>4, <3>1 DEF Glues, Line, r
    <3> QED BY <2>1, <2>2, <3>2 DEF TextNode
  <2> QED BY <2>1, <2>3, <2>4 DEF p
<1> QED BY <1>1, <1>2

LEMMA SeamsFit ==
  ASSUME NEW b \in Seq(Plain), Apart(b), NEW p, IsPatch(b, p),
         (\E r : OfNode(b, r, p)) \/ AtEnd(b, p),
         EndsText(p) => (\E r : TextNode(b, r, p)) \/ AtEnd(b, p)
  PROVE  Fits(b, p)
<1> DEFINE lb == Len(b)
<1>1. lb \in Nat /\ \A k \in 1..lb : b[k] \in Plain
  BY LenProperties, ElementOfSeq
<1>2. \A k \in 1..(lb - 1) : IsText(b[k]) => b[k + 1] = Blank
  BY DEF Apart
<1>3. ASSUME p.start > 0, IsText(b[p.start]) PROVE Len(p.with) # 0 /\ p.with[1] = Blank
  <2>1. CASE AtEnd(b, p)
    BY <1>3, <2>1, BlankIs DEF AtEnd
  <2>2. ASSUME NEW r, OfNode(b, r, p) PROVE FALSE
    <3> DEFINE r1 == r[1]
               a == p.start
    <3>1. r1 \in 1..lb /\ a = r1 - 1 /\ IsNode(b, r)
      BY <2>2, NodeIs DEF OfNode
    <3>2. a \in 1..(lb - 1) /\ a + 1 = r1 /\ r1 # 1
      <4>1. a > 0
        BY <1>3
      <4> HIDE DEF r1, a, lb
      <4> QED BY <1>1, <3>1, <4>1
    <3>3. b[r1] = Blank
      BY <1>2, <1>3, <3>2
    <3>4. ~IsDirective(b[r1])
      BY <3>3, BlankIs
    <3>5. IsDirective(b[a])
      BY <3>1, <3>2, <3>4, TextsAre
    <3> QED BY <1>3, <3>5 DEF IsDirective, IsText
  <2> QED BY <2>1, <2>2
<1>4. ASSUME EndsText(p) PROVE p.end = lb \/ b[p.end + 1] = Blank
  <2>1. CASE AtEnd(b, p)
    BY <2>1 DEF AtEnd
  <2>2. ASSUME NEW r, TextNode(b, r, p) PROVE p.end = lb \/ b[p.end + 1] = Blank
    <3> DEFINE r1 == r[1]
               r2 == r[2]
               e == p.end
    <3>1. r1 \in 1..lb /\ r2 \in r1..lb /\ IsNode(b, r) /\ ~IsDirective(b[r1])
          /\ e = IF b[r2] = Blank THEN r2 - 1 ELSE r2
      BY <2>2, NodeIs DEF TextNode
    <3>2. ~IsDirective(b[r2])
      <4>1. \A k \in r1..r2 : ~IsDirective(b[k])
        BY <3>1, TextsAre
      <4>2. r2 \in r1..r2
        <5> HIDE DEF r1, r2, lb
        <5> QED BY <1>1, <3>1
      <4> QED BY <4>1, <4>2
    <3> HIDE DEF r1, r2, e, lb
    <3>3. CASE b[r2] = Blank
      <4>1. e + 1 = r2
        BY <1>1, <3>1, <3>3
      <4> QED BY <3>3, <4>1 DEF e
    <3>4. CASE b[r2] # Blank
      <4>1. r2 \in 1..lb /\ e = r2
        BY <1>1, <3>1, <3>4
      <4>2. IsText(b[r2])
        BY <1>1, <3>2, <3>4, <4>1, PlainIs
      <4>3. CASE r2 = lb
        BY <4>1, <4>3 DEF e
      <4>4. CASE r2 # lb
        <5>1. r2 \in 1..(lb - 1)
          BY <1>1, <4>1, <4>4
        <5> QED BY <1>2, <4>1, <4>2, <5>1 DEF e
      <4> QED BY <4>3, <4>4
    <3> QED BY <3>3, <3>4
  <2> QED BY <1>4, <2>1, <2>2
<1> QED BY <1>3, <1>4 DEF Fits, IsPatch

LEMMA NeighboursJoin ==
  ASSUME NEW b \in Seq(Plain), Apart(b), NEW p, NEW q, ~Overlap(p, q),
         (\E r : OfNode(b, r, q)) \/ AtEnd(b, q),
         EndsText(p) => (\E r : TextNode(b, r, p)) \/ AtEnd(b, p)
  PROVE  Joins(p, q)
<1> SUFFICES ASSUME EndsText(p), q.start = p.end PROVE Len(q.with) # 0 /\ q.with[1] = Blank
  BY DEF Joins
<1> DEFINE lb == Len(b)
<1>1. ~AtEnd(b, p)
  BY DEF AtEnd, Overlap
<1>2. PICK r : TextNode(b, r, p)
  BY <1>1
<1> DEFINE r1 == r[1]
           r2 == r[2]
           e == p.end
           ls == Len(Split(b))
<1>3. /\ IsNode(b, r) /\ ~IsDirective(b[r1]) /\ r1 \in 1..lb /\ r2 \in r1..lb
      /\ e = (IF b[r2] = Blank THEN r2 - 1 ELSE r2)
      /\ lb \in Nat /\ ls \in Nat /\ r1 \in 1..ls /\ r2 \in r1..ls /\ (ls = lb \/ ls = lb - 1)
      /\ \A k \in 1..lb : b[k] \in Plain
  BY <1>2, NodeIs DEF TextNode
<1>4. /\ \A k \in r1..r2 : ~IsDirective(b[k])
      /\ r2 = ls \/ IsDirective(b[r2 + 1])
      /\ \E k \in r1..r2 : IsText(b[k])
  BY <1>3, TextsAre
<1>5. CASE AtEnd(b, q)
  <2>1. q.start = lb /\ (b[lb] = Blank \/ (Len(q.with) # 0 /\ q.with[1] = Blank))
    BY <1>5 DEF AtEnd
  <2>2. e = lb
    BY <2>1
  <2> HIDE DEF lb, r1, r2, e, ls
  <2>3. b[lb] # Blank
    BY <1>3, <2>2
  <2> QED BY <2>1, <2>3
<1>6. ASSUME NEW s, OfNode(b, s, q) PROVE FALSE
  <2> DEFINE s1 == s[1]
             s2 == s[2]
  <2>1. IsNode(b, s) /\ q.start = s1 - 1
    BY <1>6 DEF OfNode
  <2>2. s1 \in 1..lb /\ s1 \in 1..ls /\ s2 \in s1..ls
    BY <2>1, NodeIs
  <2>3. e = s1 - 1
    BY <2>1
  <2>4. CASE b[r2] = Blank
    <3>1. s1 = r2 /\ r2 \in r1..r2
      <4> HIDE DEF r1, r2, e, lb, ls, s1, s2
      <4> QED BY <1>3, <2>2, <2>3, <2>4
    <3>2. s1 = r1
      BY <1>3, <2>1, <3>1, NodesDiffer
    <3>3. PICK k \in r1..r2 : IsText(b[k])
      BY <1>4
    <3>4. k = r2
      <4> HIDE DEF r1, r2, e, lb, ls, s1, s2
      <4> QED BY <1>3, <3>1, <3>2
    <3> QED BY <2>4, <3>3, <3>4, BlankIs
  <2>5. CASE b[r2] # Blank
    <3>1. e = r2 /\ r2 \in 1..lb /\ r2 # ls /\ r2 \in r1..r2 /\ r2 \in 1..(lb - 1)
      <4> HIDE DEF r1, r2, e, lb, ls, s1, s2
      <4> QED BY <1>3, <2>2, <2>3, <2>5
    <3>2. IsText(b[r2])
      BY <1>3, <1>4, <2>5, <3>1, PlainIs
    <3>3. b[r2 + 1] = Blank
      BY <3>1, <3>2 DEF Apart
    <3>4. IsDirective(b[r2 + 1])
      BY <1>4, <3>1
    <3> QED BY <3>3, <3>4, BlankIs
  <2> QED BY <2>4, <2>5
<1> QED BY <1>5, <1>6

\* The patches of a request: one per edit of the body, in order.
\* The edits of the body, in the order of their patches, and all of them.
Lists(b, n, es, m, f) ==
  /\ Ordered(b, es) = [k \in 1..m |-> PatchOf(b, es[f[k]])]
  /\ \A k \in 1..m : f[k] \in 1..n /\ es[f[k]].type \in InBody
  /\ \A k \in 1..(m - 1) : Before(PatchOf(b, es[f[k]]), PatchOf(b, es[f[k + 1]]))
  /\ \A k \in 1..n : es[k].type \in InBody => \E j \in 1..m : f[j] = k

LEMMA OrderedIs ==
  ASSUME NEW b \in Seq(Plain), NEW n \in Nat, NEW es, DOMAIN es = 1..n,
         \A k \in 1..n : IsEdit(es[k]) /\ (es[k].type \in InBody => Applies(b, es[k]))
  PROVE  \E m \in Nat : \E f : Lists(b, n, es, m, f)
<1> DEFINE K == {k \in 1..n : es[k].type \in InBody}
           m == Cardinality(K)
           s == [k \in K |-> PatchOf(b, es[k]).start]
           t == [k \in K |-> PatchOf(b, es[k]).end]
           Right(f) == /\ IsInjective(f)
                       /\ \A k \in 1..(m - 1) : Before(PatchOf(b, es[f[k]]), PatchOf(b, es[f[k + 1]]))
           order == CHOOSE f \in [1..m -> K] : Right(f)
<1>1. Bounded(K, s, t)
  <2>1. ASSUME NEW k \in K
        PROVE  /\ PatchOf(b, es[k]).start \in Nat /\ PatchOf(b, es[k]).start <= Len(b)
               /\ PatchOf(b, es[k]).end \in Nat /\ PatchOf(b, es[k]).end <= Len(b)
    <3> DEFINE p == PatchOf(b, es[k])
               a == p.start
               e == p.end
               lb == Len(b)
    <3>1. IsPatch(b, p)
      BY KindIs
    <3>2. a \in 0..lb /\ e \in a..lb /\ lb \in Nat
      BY <3>1, LenProperties DEF IsPatch
    <3> HIDE DEF a, e, lb
    <3>3. a \in Nat /\ a <= lb /\ e \in Nat /\ e <= lb
      BY <3>2
    <3> QED BY <3>3 DEF a, e, lb
  <2>2. Len(b) \in Nat
    BY LenProperties
  <2>3. s \in [K -> Nat] /\ t \in [K -> Nat]
    BY <2>1
  <2>4. \A k \in K : s[k] <= Len(b) /\ t[k] <= Len(b)
    BY <2>1
  <2> HIDE DEF s, t, K
  <2> QED BY <2>2, <2>3, <2>4 DEF Bounded
<1>2. m \in Nat /\ \E f \in [1..m -> K] : Sorts(f, m, s, t)
  <2>1. K \in SUBSET (1..n)
    OBVIOUS
  <2> HIDE DEF K, s, t
  <2> QED BY <1>1, <2>1, SortsExist
<1>3. \E f \in [1..m -> K] : Right(f)
  <2>1. PICK f \in [1..m -> K] : Sorts(f, m, s, t)
    BY <1>2
  <2>2. ASSUME NEW k \in 1..(m - 1)
        PROVE  Before(PatchOf(b, es[f[k]]), PatchOf(b, es[f[k + 1]]))
    <3>1. k \in 1..m /\ k + 1 \in 1..m
      <4> HIDE DEF m
      <4> QED BY <1>2
    <3>2. f[k] \in K /\ f[k + 1] \in K
      <4> HIDE DEF m, K
      <4> QED BY <2>1, <3>1
    <3>3. s[f[k]] < s[f[k + 1]] \/ (s[f[k]] = s[f[k + 1]] /\ t[f[k]] <= t[f[k + 1]])
      BY <2>1 DEF Sorts
    <3>4. \A i \in K : s[i] = PatchOf(b, es[i]).start /\ t[i] = PatchOf(b, es[i]).end
      OBVIOUS
    <3> HIDE DEF s, t, K
    <3> QED BY <3>2, <3>3, <3>4 DEF Before
  <2>3. Right(f)
    BY <2>1, <2>2 DEF Sorts
  <2> HIDE DEF Right
  <2> QED BY <2>1, <2>3
<1>4. order \in [1..m -> K] /\ Right(order)
  <2> HIDE DEF Right, m, K
  <2> QED BY <1>3
<1>5. Ordered(b, es) = [k \in DOMAIN order |-> PatchOf(b, es[order[k]])]
  <2>1. {k \in DOMAIN es : es[k].type \in InBody} = K
    OBVIOUS
  <2>2. Cardinality(K) = m
    OBVIOUS
  <2> HIDE DEF K, m
  <2> DEFINE A == {k \in DOMAIN es : es[k].type \in InBody}
  <2>3. Ordered(b, es) =
        LET f1 == CHOOSE f \in [1..Cardinality(A) -> A] :
                      /\ IsInjective(f)
                      /\ \A k \in 1..(Cardinality(A) - 1) :
                           Before(PatchOf(b, es[f[k]]), PatchOf(b, es[f[k + 1]]))
        IN [k \in DOMAIN f1 |-> PatchOf(b, es[f1[k]])]
    BY Zenon DEF Ordered
  <2> HIDE DEF A
  <2>4. A = K
    BY <2>1 DEF A
  <2> QED BY <2>2, <2>3, <2>4, Zenon
<1>6. IsFiniteSet(K)
  <2>1. IsFiniteSet(1..n) /\ K \in SUBSET (1..n)
    BY FS_Interval
  <2> HIDE DEF K
  <2> QED BY <2>1, FS_Subset
<1>7. \A k \in K : \E j \in 1..m : order[j] = k
  <2>1. IsFiniteSet(1..m) /\ Cardinality(1..m) = m
    BY <1>2, FS_Interval
  <2>2. order \in Injection(1..m, K)
    <3> HIDE DEF order, m, K
    <3> QED BY <1>4 DEF Injection
  <2>3. order \in Surjection(1..m, K)
    <3>1. Cardinality(1..m) = Cardinality(K) <=> order \in Surjection(1..m, K)
      <4> HIDE DEF order, m, K
      <4> QED BY <1>6, <2>2, FS_Injection
    <3>2. Cardinality(K) = m
      OBVIOUS
    <3> HIDE DEF order, m, K
    <3> QED BY <2>1, <3>1, <3>2
  <2> HIDE DEF order, m, K
  <2> QED BY <2>3 DEF Surjection
<1>8. \A k \in 1..(m - 1) : Before(PatchOf(b, es[order[k]]), PatchOf(b, es[order[k + 1]]))
  <2> HIDE DEF order, m
  <2> QED BY <1>4
<1> HIDE DEF order, m, Right
<1>9. DOMAIN order = 1..m /\ \A k \in 1..m : order[k] \in K
  BY <1>4
<1>10. Ordered(b, es) = [k \in 1..m |-> PatchOf(b, es[order[k]])]
  BY <1>5, <1>9
<1>11. \A k \in 1..m : order[k] \in 1..n /\ es[order[k]].type \in InBody
  BY <1>9
<1>12. \A k \in 1..n : es[k].type \in InBody => \E j \in 1..m : order[j] = k
  BY <1>7
<1> HIDE DEF K
<1>13. Lists(b, n, es, m, order)
  BY <1>8, <1>10, <1>11, <1>12 DEF Lists
<1> QED BY <1>2, <1>13

\* A line of a body that a patch replaces, if it shows something, is the node of its edit.
LEMMA ShownIsNamed ==
  ASSUME NEW b \in Seq(Plain), NEW e, IsEdit(e), e.type \in InBody, Applies(b, e),
         NEW i \in 1..Len(b), IsDirective(b[i]),
         PatchOf(b, e).start < i, i <= PatchOf(b, e).end
  PROVE  e.type # "insert" /\ b[i] = Line(b, e)
<1> DEFINE p == PatchOf(b, e)
           r == Nodes(b)[At(b, e)]
           a == p.start
           z == p.end
           r1 == r[1]
           r2 == r[2]
           lb == Len(b)
<1>1. lb \in Nat
  BY LenProperties
<1>2. e.type # "insert"
  <2> SUFFICES ASSUME e.type = "insert" PROVE FALSE
    OBVIOUS
  <2>1. z = a /\ a \in 0..lb
    BY InsertIs DEF IsPatch
  <2> HIDE DEF a, z, lb
  <2>2. a < i /\ i <= z /\ i \in 1..lb
    BY DEF a, z, lb
  <2> QED BY <1>1, <2>1, <2>2
<1>3. IsNode(b, r) /\ a = r1 - 1 /\ z = IF b[r2] = Blank THEN r2 - 1 ELSE r2
  BY <1>2, PatchIs, AboutIs
<1>4. r1 \in 1..lb /\ r2 \in r1..lb
  BY <1>3, NodeIs
<1>5. i \in r1..r2
  <2>1. a < i /\ i <= z /\ i \in 1..lb
    OBVIOUS
  <2> HIDE DEF a, z, lb, r1, r2
  <2> QED BY <1>1, <1>3, <1>4, <2>1
<1>6. i = r1
  <2>1. CASE IsDirective(b[r1])
    <3>1. r2 = r1
      <4>1. r1 \in r1..r2
        <5> HIDE DEF r1, r2, lb
        <5> QED BY <1>1, <1>4
      <4> QED BY <1>3, <2>1, <4>1 DEF IsNode
    <3> HIDE DEF r1, r2, lb
    <3> QED BY <1>1, <1>4, <1>5, <3>1
  <2>2. CASE ~IsDirective(b[r1])
    BY <1>3, <1>5, <2>2, TextsAre
  <2> QED BY <2>1, <2>2
<1> QED BY <1>2, <1>6 DEF Line

\* What a request makes of a body: an image that is shown no more was shown by a node
\* that an edit is about, and texts stay apart.
LEMMA BodyIs ==
  ASSUME NEW b \in Seq(Plain), NEW n \in Nat, NEW es, DOMAIN es = 1..n,
         \A k \in 1..n : IsEdit(es[k]) /\ (es[k].type \in InBody => Applies(b, es[k])),
         LET ps == Ordered(b, es) IN \A k \in 1..(Len(ps) - 1) : ~Overlap(ps[k], ps[k + 1])
  PROVE  LET after == Applied(b, Ordered(b, es)) IN
         /\ after \in Seq(Plain)
         /\ \A i \in 1..Len(b) : \A m \in Images(b[i]) :
              \/ \E x \in 1..Len(after) : m \in Images(after[x])
              \/ \E k \in 1..n : /\ es[k].type \in InBody \ {"insert", "caption"}
                                 /\ m \in Images(Line(b, es[k]))
         /\ Apart(b) /\ (\A k \in 1..n : ~Glues(b, es[k])) => Apart(after)
<1> DEFINE ps == Ordered(b, es)
<1>0. PICK m \in Nat : \E f : Lists(b, n, es, m, f)
  BY OrderedIs
<1>1. PICK f : /\ ps = [k \in 1..m |-> PatchOf(b, es[f[k]])]
               /\ \A k \in 1..m : f[k] \in 1..n /\ es[f[k]].type \in InBody
  BY <1>0 DEF Lists
<1> HIDE DEF ps
<1>2. Len(ps) = m /\ \A k \in 1..m : ps[k] = PatchOf(b, es[f[k]])
  BY <1>1
<1>3. \A k \in 1..(m - 1) : ~Overlap(ps[k], ps[k + 1])
  BY <1>2 DEF ps
<1>4. \A k \in 1..m : /\ f[k] \in 1..n /\ IsEdit(es[f[k]]) /\ es[f[k]].type \in InBody
                      /\ Applies(b, es[f[k]])
  BY <1>1
<1>5. \A k \in 1..m : IsPatch(b, ps[k])
  BY <1>2, <1>4, KindIs
<1>6. InOrder(b, m, ps)
  <2>1. ASSUME NEW k \in 1..(m - 1) PROVE ps[k].end <= ps[k + 1].start
    <3> DEFINE p == ps[k]
               q == ps[k + 1]
               a == p.start
               z == p.end
               c == q.start
               lb == Len(b)
    <3>1. k \in 1..m /\ k + 1 \in 1..m
      BY <1>1
    <3>2. a \in 0..lb /\ z \in a..lb /\ c \in 0..lb /\ lb \in Nat
      BY <1>5, <3>1, LenProperties DEF IsPatch
    <3>3. ~(c < z)
      BY <1>3 DEF Overlap
    <3> HIDE DEF a, z, c, lb
    <3>4. z <= c
      BY <3>2, <3>3
    <3> QED BY <3>4 DEF z, c
  <2> QED BY <1>2, <1>5, <2>1 DEF InOrder, IsPatch
<1>7. PICK g : Turning(b, m, ps, g) /\ Applied(b, ps) = g[m]
  BY <1>6, TurningIs
<1>8. g[m] \in Seq(Plain)
  BY <1>7 DEF Turning
<1>9. /\ \A i \in 1..Len(b) : Covered(ps, m, i) \/ \E x \in 1..Len(g[m]) : g[m][x] = b[i]
      /\ \A j \in 1..m : \A l \in 1..Len(ps[j].with) : \E x \in 1..Len(g[m]) : g[m][x] = ps[j].with[l]
  <2>1. InTheEnd(b, m, ps, g[m])
    BY <1>6, <1>7, LinesStay
  <2> QED BY <2>1 DEF InTheEnd
<1>10. ASSUME NEW i \in 1..Len(b), NEW image \in Images(b[i])
       PROVE  \/ \E x \in 1..Len(g[m]) : image \in Images(g[m][x])
              \/ \E k \in 1..n : /\ es[k].type \in InBody \ {"insert", "caption"}
                                 /\ image \in Images(Line(b, es[k]))
  <2>1. CASE Covered(ps, m, i)
    <3>1. PICK j \in 1..m : ps[j].start < i /\ i <= ps[j].end
      BY <2>1 DEF Covered
    <3> DEFINE e == es[f[j]]
    <3>2. IsEdit(e) /\ e.type \in InBody /\ Applies(b, e) /\ ps[j] = PatchOf(b, e)
          /\ f[j] \in 1..n
      BY <1>2, <1>4
    <3> HIDE DEF e
    <3>3. IsDirective(b[i])
      <4>1. b[i] \in Plain
        BY ElementOfSeq
      <4>2. b[i].media # <<>>
        <5>1. PICK k \in DOMAIN b[i].media : TRUE
          BY DEF Images
        <5> QED BY <5>1
      <4> QED BY <4>1, <4>2, PlainIs
    <3>4. e.type # "insert" /\ b[i] = Line(b, e)
      BY <3>1, <3>2, <3>3, ShownIsNamed
    <3>5. CASE e.type = "caption"
      <4>1. ps[j].with = Instead(b, e)
        BY <3>2, <3>4, PatchIs
      <4>2. Len(ps[j].with) = 1 /\ Images(ps[j].with[1]) = Images(b[i])
        BY <3>2, <3>4, <3>5, <4>1, InsteadIs
      <4>3. 1 \in 1..Len(ps[j].with)
        BY <4>2
      <4>4. PICK x \in 1..Len(g[m]) : g[m][x] = ps[j].with[1]
        BY <1>9, <4>3
      <4> QED BY <4>2, <4>4
    <3>6. CASE e.type # "caption"
      BY <3>2, <3>4, <3>6 DEF e
    <3> QED BY <3>5, <3>6
  <2>2. CASE ~Covered(ps, m, i)
    BY <1>9, <2>2
  <2> QED BY <2>1, <2>2
<1>11. ASSUME Apart(b), \A k \in 1..n : ~Glues(b, es[k]) PROVE Apart(g[m])
  <2>1. ASSUME NEW k \in 1..m
        PROVE  /\ IsPatch(b, ps[k]) /\ ((\E r : OfNode(b, r, ps[k])) \/ AtEnd(b, ps[k]))
               /\ EndsText(ps[k]) => (\E r : TextNode(b, r, ps[k])) \/ AtEnd(b, ps[k])
    <3>1. ~Glues(b, es[f[k]])
      BY <1>4, <1>11
    <3> QED BY <1>2, <1>4, <3>1, KindIs
  <2>2. \A k \in 1..m : Fits(b, ps[k])
    BY <1>11, <2>1, SeamsFit
  <2>3. ASSUME NEW k \in 1..(m - 1) PROVE Joins(ps[k], ps[k + 1])
    <3>1. k \in 1..m /\ k + 1 \in 1..m
      BY <1>1
    <3> QED BY <1>3, <1>11, <2>1, <3>1, NeighboursJoin
  <2> QED BY <1>6, <1>7, <1>11, <2>2, <2>3, TextsStayApart
<1> QED BY <1>7, <1>8, <1>10, <1>11 DEF ps

-----------------------------------------------------------------------------
(* What a request means                                                    *)

\* What a body shows, line by line.
Grown(x, l) == IF l = Blank THEN x ELSE Append(x, l)

\* Sequences of lines are joined in any order of the joins.
Associates(i, j, k) == (i \o j) \o k = i \o (j \o k)

LEMMA PlainAssociates ==
  ASSUME NEW i \in Seq(Plain), NEW j \in Seq(Plain), NEW k \in Seq(Plain)
  PROVE  Associates(i, j, k)
<1>1. (i \o j) \o k = i \o (j \o k)
  BY ConcatAssociative
<1> QED BY <1>1 DEF Associates

LEMMA GrownIs ==
  ASSUME NEW x \in Seq(Plain), NEW l \in Plain
  PROVE  /\ Grown(x, l) \in Seq(Plain) /\ Grown(x, Blank) = x
         /\ \A y \in Seq(Plain) : Grown(y \o x, l) = y \o Grown(x, l)
<1>1. Append(x, l) \in Seq(Plain)
  BY AppendProperties
<1>2. ASSUME NEW y \in Seq(Plain) PROVE Append(y \o x, l) = y \o Append(x, l)
  <2>1. y \o x \in Seq(Plain) /\ <<l>> \in Seq(Plain)
    BY ConcatProperties
  <2>2. Append(y \o x, l) = (y \o x) \o <<l>> /\ Append(x, l) = x \o <<l>>
    BY <2>1, AppendIsConcat
  <2>3. (y \o x) \o <<l>> = y \o (x \o <<l>>)
    BY <2>1, PlainAssociates DEF Associates
  <2> QED BY <2>2, <2>3
<1> QED BY <1>1, <1>2 DEF Grown

Keeps(s, g) ==
  /\ g[0] = <<>>
  /\ \A k \in 1..Len(s) : g[k] = Grown(g[k - 1], s[k])
  /\ \A k \in 0..Len(s) : g[k] \in Seq(Plain)

LEMMA ContentIs ==
  ASSUME NEW s \in Seq(Plain)
  PROVE  \E g : Keeps(s, g) /\ Content(s) = g[Len(s)]
<1> DEFINE n == Len(s)
           S == Seq(Plain)
           next(x, k) == Grown(x, s[k])
           step == [x \in S \X (1..n) |-> next(x[1], x[2])]
           Sets(f) == f = [k \in 0..n |-> IF k = 0 THEN <<>> ELSE Grown(f[k - 1], s[k])]
           kept == CHOOSE f : Sets(f)
<1>1. Content(s) = kept[n]
  BY Zenon DEF Content, Grown
<1>2. n \in Nat /\ \A k \in 1..n : s[k] \in Plain
  BY LenProperties, ElementOfSeq
<1> HIDE DEF n
<1>3. ASSUME NEW x \in S, NEW k \in 1..n PROVE next(x, k) \in S
  BY <1>2, <1>3, GrownIs
<1>4. step \in [S \X (1..n) -> S]
  <2> HIDE DEF S, next
  <2> QED BY <1>3
<1>5. PICK g \in [0..n -> S] : Rounds(g, n, <<>>, step)
  <2>1. <<>> \in S
    OBVIOUS
  <2> HIDE DEF step, S
  <2> QED BY <1>2, <1>4, <2>1, RoundsExist
<1>6. g[0] = <<>> /\ \A k \in 1..n : g[k] = next(g[k - 1], k)
  <2>1. g[0] = <<>>
    BY <1>5 DEF Rounds
  <2>2. ASSUME NEW k \in 1..n PROVE g[k] = next(g[k - 1], k)
    <3>1. k - 1 \in 0..n
      BY <1>2
    <3>2. g[k - 1] \in S
      <4> HIDE DEF S
      <4> QED BY <3>1
    <3>3. g[k] = step[<<g[k - 1], k>>]
      BY <1>5 DEF Rounds
    <3> HIDE DEF S, next
    <3> QED BY <3>2, <3>3
  <2> QED BY <2>1, <2>2
<1> HIDE DEF step
<1>7. Sets(g)
  <2>1. \A k \in 0..n : g[k] = IF k = 0 THEN <<>> ELSE Grown(g[k - 1], s[k])
    BY <1>2, <1>6
  <2> QED BY <1>5, <2>1
<1>8. Sets(kept)
  BY <1>7
<1> HIDE DEF kept
<1>9. kept[0] = <<>> /\ \A k \in 1..n : kept[k] = Grown(kept[k - 1], s[k])
  BY <1>2, <1>8
<1> HIDE DEF Sets
<1>10. kept[n] = g[n]
  <2> DEFINE same == {k \in 0..n : kept[k] = g[k]}
  <2>1. 0 \in same
    BY <1>2, <1>6, <1>9
  <2>2. ASSUME NEW k \in 1..n, k - 1 \in same PROVE k \in same
    BY <1>2, <1>6, <1>9, <2>2
  <2>3. \A k \in 0..n : k \in same
    <3> HIDE DEF same
    <3> QED BY <1>2, <2>1, <2>2, StepByStep
  <2> QED BY <1>2, <2>3
<1>11. Keeps(s, g)
  <2>1. n = Len(s)
    BY DEF n
  <2> QED BY <1>5, <1>6, <2>1 DEF Keeps
<1>12. n = Len(s)
  BY DEF n
<1> QED BY <1>1, <1>10, <1>11, <1>12

LEMMA ContentIsPlain ==
  ASSUME NEW s \in Seq(Plain)
  PROVE  /\ Content(s) \in Seq(Plain) /\ Content(<<>>) = <<>>
         /\ (\A k \in 1..Len(s) : s[k] = Blank) => Content(s) = <<>>
<1>1. PICK g : Keeps(s, g) /\ Content(s) = g[Len(s)]
  BY ContentIs
<1> DEFINE n == Len(s)
<1>2. n \in Nat
  BY LenProperties
<1>3. g[n] \in Seq(Plain)
  BY <1>1, <1>2 DEF Keeps
<1>4. Content(<<>>) = <<>>
  <2>1. <<>> \in Seq(Plain)
    OBVIOUS
  <2>2. PICK h : Keeps(<<>>, h) /\ Content(<<>>) = h[Len(<<>>)]
    BY <2>1, ContentIs
  <2>3. Len(<<>>) = 0
    OBVIOUS
  <2> QED BY <2>2, <2>3 DEF Keeps
<1>5. ASSUME \A k \in 1..n : s[k] = Blank PROVE g[n] = <<>>
  <2> DEFINE none == {k \in 0..n : g[k] = <<>>}
  <2>1. 0 \in none /\ \A k \in 1..n : k - 1 \in none => k \in none
    BY <1>1, <1>2, <1>5 DEF Keeps, Grown
  <2>2. \A k \in 0..n : k \in none
    <3> HIDE DEF none, n
    <3> QED BY <1>2, <2>1, StepByStep
  <2> QED BY <1>2, <2>2
<1> QED BY <1>1, <1>3, <1>4, <1>5

\* One body after another.
LEMMA ContentAdds ==
  ASSUME NEW s \in Seq(Plain), NEW t \in Seq(Plain)
  PROVE  s \o t \in Seq(Plain) /\ Content(s \o t) = Content(s) \o Content(t)
<1> DEFINE ls == Len(s)
           lt == Len(t)
           u == s \o t
<1>1. /\ u \in Seq(Plain) /\ Len(u) = ls + lt
      /\ \A i \in 1..(ls + lt) : u[i] = IF i <= ls THEN s[i] ELSE t[i - ls]
  BY ConcatProperties
<1>2. ls \in Nat /\ lt \in Nat
  BY LenProperties
<1>3. PICK gs : Keeps(s, gs) /\ Content(s) = gs[ls]
  BY ContentIs
<1>4. PICK gt : Keeps(t, gt) /\ Content(t) = gt[lt]
  BY ContentIs
<1>5. PICK gu : Keeps(u, gu) /\ Content(u) = gu[ls + lt]
  <2> HIDE DEF u
  <2> QED BY <1>1, ContentIs
<1>6. /\ gs[0] = <<>> /\ gt[0] = <<>> /\ gu[0] = <<>>
      /\ \A k \in 1..ls : gs[k] = Grown(gs[k - 1], s[k])
      /\ \A k \in 1..lt : gt[k] = Grown(gt[k - 1], t[k])
      /\ \A k \in 1..(ls + lt) : gu[k] = Grown(gu[k - 1], u[k])
      /\ \A k \in 0..ls : gs[k] \in Seq(Plain)
      /\ \A k \in 0..lt : gt[k] \in Seq(Plain)
  BY <1>1, <1>3, <1>4, <1>5 DEF Keeps
<1>7. (\A i \in 1..ls : u[i] = s[i]) /\ (\A i \in 1..lt : u[ls + i] = t[i])
  <2> HIDE DEF u, ls, lt
  <2> QED BY <1>1, <1>2
<1>8. \A i \in 1..lt : t[i] \in Plain
  BY ElementOfSeq
<1> HIDE DEF ls, lt, u
<1>9. \A k \in 0..ls : gu[k] = gs[k]
  <2> DEFINE same == {k \in 0..ls : gu[k] = gs[k]}
  <2>1. 0 \in same
    BY <1>2, <1>6
  <2>2. ASSUME NEW k \in 1..ls, k - 1 \in same PROVE k \in same
    <3>1. k \in 1..(ls + lt) /\ gu[k - 1] = gs[k - 1] /\ u[k] = s[k]
      BY <1>2, <1>7, <2>2
    <3> QED BY <1>2, <1>6, <3>1
  <2>3. \A k \in 0..ls : k \in same
    <3> HIDE DEF same
    <3> QED BY <1>2, <2>1, <2>2, StepByStep
  <2> QED BY <2>3
<1> DEFINE h == gs[ls]
           add(y) == h \o y
<1>10. h \in Seq(Plain) /\ gu[ls] = h
  BY <1>2, <1>6, <1>9
<1> HIDE DEF h
<1>11. /\ add(<<>>) = h
       /\ \A y \in Seq(Plain), l \in Plain : Grown(add(y), l) = add(Grown(y, l))
  BY <1>10, GrownIs, ConcatEmptySeq
<1> HIDE DEF add
<1>12. \A k \in 0..lt : gu[ls + k] = add(gt[k])
  <2> DEFINE good == {k \in 0..lt : gu[ls + k] = add(gt[k])}
  <2>1. 0 \in good
    <3>1. gu[ls + 0] = h
      BY <1>2, <1>10
    <3> QED BY <1>2, <1>6, <1>11, <3>1
  <2>2. ASSUME NEW k \in 1..lt, k - 1 \in good PROVE k \in good
    <3>1. gu[ls + (k - 1)] = add(gt[k - 1])
      BY <2>2
    <3> DEFINE i == ls + k
    <3>2. i \in 1..(ls + lt) /\ ls + (k - 1) = i - 1 /\ u[i] = t[k] /\ k - 1 \in 0..lt
      BY <1>2, <1>7
    <3>3. gu[ls + k] = Grown(gu[ls + (k - 1)], t[k])
      <4> HIDE DEF i
      <4>1. gu[i] = Grown(gu[i - 1], u[i])
        BY <1>6, <3>2
      <4>2. gu[i] = Grown(gu[ls + (k - 1)], t[k])
        BY <3>2, <4>1
      <4> QED BY <4>2 DEF i
    <3>4. gt[k - 1] \in Seq(Plain) /\ t[k] \in Plain /\ gt[k] = Grown(gt[k - 1], t[k])
      BY <1>6, <1>8, <3>2
    <3>5. gu[ls + k] = add(gt[k])
      BY <1>11, <3>1, <3>3, <3>4
    <3> QED BY <3>5
  <2>3. \A k \in 0..lt : k \in good
    <3> HIDE DEF good
    <3> QED BY <1>2, <2>1, <2>2, StepByStep
  <2> QED BY <2>3
<1>13. gu[ls + lt] = add(gt[lt])
  BY <1>2, <1>12
<1>14. Content(u) = Content(s) \o Content(t)
  BY <1>3, <1>4, <1>5, <1>13 DEF add, h
<1> QED BY <1>1, <1>14 DEF u

\* What is shown after a number of lines, up to another.
Between(b, i, j) == Content(SubSeq(b, i + 1, j))

LEMMA BetweenIs ==
  ASSUME NEW b \in Seq(Plain), NEW i \in 0..Len(b), NEW j \in i..Len(b)
  PROVE  /\ Between(b, i, j) \in Seq(Plain) /\ SubSeq(b, i + 1, j) \in Seq(Plain)
         /\ i = j => Between(b, i, j) = <<>>
         /\ (\A k \in (i + 1)..j : b[k] = Blank) => Between(b, i, j) = <<>>
<1> DEFINE n == Len(b)
           s == SubSeq(b, i + 1, j)
<1>1. n \in Nat /\ \A k \in 1..n : b[k] \in Plain
  BY LenProperties, ElementOfSeq
<1>2. i \in 0..n /\ j \in i..n
  OBVIOUS
<1> HIDE DEF n
<1>3. i + 1 \in Int /\ j \in Int /\ \A k \in (i + 1)..j : b[k] \in Plain
  BY <1>1, <1>2
<1>4. /\ s \in Seq(Plain) /\ Len(s) = IF i + 1 <= j THEN j - (i + 1) + 1 ELSE 0
      /\ \A k \in 1..(j - (i + 1) + 1) : s[k] = b[i + 1 + k - 1]
  BY <1>3, SubSeqProperties
<1>5. ASSUME i = j PROVE s = <<>>
  <2>1. j < i + 1
    BY <1>1, <1>2, <1>5
  <2> QED BY <1>3, <2>1, SubSeqEmpty
<1> HIDE DEF s
<1>6. ASSUME \A k \in (i + 1)..j : b[k] = Blank
      PROVE  \A k \in 1..Len(s) : s[k] = Blank
  <2> TAKE k \in 1..Len(s)
  <2>1. k \in 1..(j - (i + 1) + 1) /\ i + 1 + k - 1 \in (i + 1)..j
    BY <1>1, <1>2, <1>4
  <2> QED BY <1>4, <1>6, <2>1
<1>7. Content(s) \in Seq(Plain) /\ Content(<<>>) = <<>>
      /\ ((\A k \in 1..Len(s) : s[k] = Blank) => Content(s) = <<>>)
  BY <1>4, ContentIsPlain
<1>8. Between(b, i, j) = Content(s)
  BY DEF Between, s
<1> QED BY <1>4, <1>5, <1>6, <1>7, <1>8 DEF s

LEMMA BetweenAdds ==
  ASSUME NEW b \in Seq(Plain), NEW i \in 0..Len(b), NEW j \in i..Len(b), NEW k \in j..Len(b)
  PROVE  Between(b, i, k) = Between(b, i, j) \o Between(b, j, k)
<1> DEFINE n == Len(b)
<1>1. n \in Nat
  BY LenProperties
<1>2. i \in 0..n /\ j \in i..n /\ k \in j..n
  OBVIOUS
<1>3. i + 1 \in 1..(n + 1) /\ j \in ((i + 1) - 1)..n /\ k \in j..n
  <2> HIDE DEF n
  <2> QED BY <1>1, <1>2
<1>4. SubSeq(b, i + 1, j) \o SubSeq(b, j + 1, k) = SubSeq(b, i + 1, k)
  BY <1>3, ConcatAdjacentSubSeq
<1>5. SubSeq(b, i + 1, j) \in Seq(Plain) /\ SubSeq(b, j + 1, k) \in Seq(Plain)
  <2>1. j \in 0..n /\ k \in i..n
    <3> HIDE DEF n
    <3> QED BY <1>1, <1>2
  <2> QED BY <2>1, BetweenIs
<1> QED BY <1>4, <1>5, ContentAdds DEF Between

LEMMA WholeIs ==
  ASSUME NEW b \in Seq(Plain)
  PROVE  Content(b) = Between(b, 0, Len(b))
<1>1. SubSeq(b, 1, Len(b)) = b /\ 0 + 1 = 1
  BY SubSeqFull
<1>2. SubSeq(b, 0 + 1, Len(b)) = b
  BY <1>1
<1> QED BY <1>2 DEF Between

\* Pairs with another first part have another rank.
LEMMA RanksDiffer ==
  ASSUME NEW S, IsFiniteSet(S), \A r \in S : r[1] \in Nat, NEW r \in S
  PROVE  /\ Cardinality(Below(S, r)) + 1 \in 1..Cardinality(S)
         /\ \A q \in S : r[1] < q[1] => Cardinality(Below(S, r)) < Cardinality(Below(S, q))
<1> DEFINE low == Below(S, r)
           c == Cardinality(low)
<1>1. low \in SUBSET S /\ r \notin low /\ IsFiniteSet(low)
  <2>1. low \in SUBSET S /\ r \notin low
    BY DEF Below
  <2> QED BY <2>1, FS_Subset
<1>2. IsFiniteSet(low \cup {r}) /\ Cardinality(low \cup {r}) = c + 1 /\ c \in Nat
  BY <1>1, FS_AddElement, FS_CardinalityType
<1>3. c + 1 <= Cardinality(S) /\ Cardinality(S) \in Nat
  <2>1. low \cup {r} \subseteq S
    BY <1>1
  <2> HIDE DEF c, low
  <2> QED BY <1>2, <2>1, FS_Subset, FS_CardinalityType
<1>4. ASSUME NEW q \in S, r[1] < q[1] PROVE c < Cardinality(Below(S, q))
  <2>1. low \cup {r} \subseteq Below(S, q)
    BY <1>4 DEF Below
  <2>2. IsFiniteSet(Below(S, q)) /\ Cardinality(Below(S, q)) \in Nat
    <3>1. Below(S, q) \subseteq S
      BY DEF Below
    <3> QED BY <3>1, FS_Subset, FS_CardinalityType
  <2>3. c + 1 <= Cardinality(Below(S, q))
    <3> HIDE DEF c, low
    <3> QED BY <1>2, <2>1, <2>2, FS_Subset
  <2> HIDE DEF c, low
  <2> QED BY <1>2, <2>2, <2>3
<1> HIDE DEF c, low
<1> QED BY <1>2, <1>3, <1>4 DEF c, low

\* The nodes come in the order of their lines, and all of them.
LEMMA NodesInOrder ==
  ASSUME NEW b \in Seq(Plain)
  PROVE  /\ \A n, k \in 1..Len(Nodes(b)) : n < k => Nodes(b)[n][2] < Nodes(b)[k][1]
         /\ \A r \in NodeSet(b) : \E n \in 1..Len(Nodes(b)) : Nodes(b)[n] = r
<1> DEFINE S == NodeSet(b)
           rank(r) == Cardinality(Below(S, r))
           c == Len(Nodes(b))
           node(n) == Nodes(b)[n]
<1>1. /\ IsFiniteSet(S) /\ c = Cardinality(S) /\ c \in Nat
      /\ \A n \in 1..c : node(n) \in S /\ rank(node(n)) = n - 1
  BY RanksAre
<1>2. \A r \in S : r[1] \in Nat /\ r[2] \in Nat
  <2> TAKE r \in S
  <2>1. IsNode(b, r) /\ Len(Split(b)) \in Nat
    BY InNodeSet, SplitIs, LenProperties
  <2> QED BY <2>1 DEF IsNode
<1>3. ASSUME NEW r \in S, NEW q \in S, q[1] >= r[1], q[1] <= r[2] PROVE r = q
  <2>1. IsNode(b, r) /\ IsNode(b, q)
    BY InNodeSet
  <2>2. q[1] \in r[1]..r[2]
    BY <1>2, <1>3
  <2> QED BY <2>1, <2>2, NodesDiffer
<1>4. \A r \in S : r[1] <= r[2]
  <2> TAKE r \in S
  <2>1. IsNode(b, r) /\ Len(Split(b)) \in Nat
    BY InNodeSet, SplitIs, LenProperties
  <2> QED BY <2>1 DEF IsNode
<1>5. \A r, q \in S : r[1] < q[1] => rank(r) < rank(q)
  BY <1>1, <1>2, RanksDiffer
<1>6. \A r \in S : rank(r) + 1 \in 1..c
  BY <1>1, <1>2, RanksDiffer
<1> HIDE DEF S, rank, c, node
<1>7. ASSUME NEW n \in 1..c, NEW k \in 1..c, n < k PROVE node(n)[2] < node(k)[1]
  <2> DEFINE r == node(n)
             q == node(k)
  <2>1. r \in S /\ q \in S /\ rank(r) = n - 1 /\ rank(q) = k - 1 /\ n \in Nat /\ k \in Nat
    BY <1>1
  <2> HIDE DEF r, q
  <2>2. r[1] \in Nat /\ q[1] \in Nat /\ r[2] \in Nat /\ ~(rank(q) < rank(r)) /\ r # q
    BY <1>2, <1>7, <2>1
  <2>3. ~(q[1] < r[1])
    BY <1>5, <2>1, <2>2
  <2>4. ~(q[1] >= r[1] /\ q[1] <= r[2])
    BY <1>3, <2>1, <2>2
  <2>5. r[2] < q[1]
    BY <2>2, <2>3, <2>4
  <2> QED BY <2>5 DEF r, q
<1>8. ASSUME NEW r \in S PROVE \E n \in 1..c : node(n) = r
  <2> DEFINE n == rank(r) + 1
             q == node(n)
  <2>1. n \in 1..c /\ rank(r) = n - 1
    <3>1. rank(r) \in Nat
      <4>1. IsFiniteSet(Below(S, r))
        <5>1. Below(S, r) \subseteq S
          BY DEF Below
        <5> QED BY <1>1, <5>1, FS_Subset
      <4> QED BY <4>1, FS_CardinalityType DEF rank
    <3> QED BY <1>6, <3>1
  <2> HIDE DEF n
  <2>2. q \in S /\ rank(q) = rank(r)
    BY <1>1, <2>1
  <2> HIDE DEF q
  <2>3. q[1] \in Nat /\ r[1] \in Nat /\ ~(rank(q) < rank(r)) /\ ~(rank(r) < rank(q)) /\ r[1] <= r[2]
    <3>1. rank(r) \in Nat
      BY <1>1, <2>1
    <3> QED BY <1>2, <1>4, <2>2, <3>1
  <2>4. q[1] = r[1]
    BY <1>5, <2>2, <2>3
  <2>5. r = q
    BY <1>3, <2>2, <2>3, <2>4
  <2> QED BY <2>1, <2>5 DEF q
<1> QED BY <1>7, <1>8 DEF S, c, node

\* The greatest of a set of numbers up to a bound.
LEMMA LastOf ==
  ASSUME NEW n \in Nat, NEW S \in SUBSET (0..n), S # {}
  PROVE  \E k \in S : \A j \in S : j <= k
<1> DEFINE back == {n - k : k \in S}
<1>1. back \in SUBSET Nat /\ back # {}
  <2>1. \A k \in S : n - k \in Nat
    OBVIOUS
  <2> QED BY <2>1
<1>2. PICK i \in back : \A j \in back : i <= j
  <2> HIDE DEF back
  <2> QED BY <1>1, FirstOf
<1>3. PICK k \in S : i = n - k
  BY <1>2
<1>4. \A j \in S : n - k <= n - j /\ j \in Nat /\ k \in Nat
  BY <1>2, <1>3
<1> QED BY <1>4

\* What is no blank line is part of a node.
LEMMA LineInNode ==
  ASSUME NEW b \in Seq(Plain), NEW i \in 1..Len(b), b[i] # Blank
  PROVE  \E r \in NodeSet(b) : r[1] <= i /\ i <= r[2]
<1> DEFINE n == Len(Split(b))
           marks == Marks(b)
<1>1. /\ n \in Nat /\ DOMAIN Split(b) = 1..n /\ \A k \in 1..n : Split(b)[k] = b[k] /\ b[k] \in Plain
  BY SplitIs, LenProperties, ElementOfSeq
<1>2. i \in 1..n
  <2> DEFINE lb == Len(b)
  <2>1. lb \in Nat /\ i \in 1..lb /\ (n = lb \/ (n = lb - 1 /\ b[lb] = Blank))
    BY SplitIs, LenProperties
  <2> HIDE DEF lb, n
  <2>2. i # lb \/ n = lb
    BY <2>1
  <2> QED BY <1>1, <2>1, <2>2
<1>3. marks = {k \in 1..n : IsDirective(b[k])}
  BY <1>1 DEF Marks
<1>4. CASE i \in marks
  <2>1. <<i, i>> \in NodeSet(b)
    BY <1>4 DEF NodeSet
  <2>2. <<i, i>>[1] <= i /\ i <= <<i, i>>[2]
    BY <1>2
  <2> QED BY <2>1, <2>2
<1>5. CASE i \notin marks
  <2>1. IsText(b[i])
    <3>1. b[i] \in Plain /\ ~IsDirective(b[i])
      BY <1>1, <1>2, <1>3, <1>5
    <3> QED BY <3>1, PlainIs
  <2> DEFINE earlier == {k \in marks \cup {0} : k < i}
  <2> HIDE DEF n, marks
  <2>2. PICK k \in earlier : \A j \in earlier : j <= k
    <3>1. earlier \in SUBSET (0..n) /\ 0 \in earlier
      BY <1>1, <1>2, <1>3
    <3> HIDE DEF earlier
    <3> QED BY <1>1, <3>1, LastOf
  <2> DEFINE later == {j \in Fences(b) : j > k}
             end == Min(later)
             r == <<k + 1, end - 1>>
  <2>3. Fences(b) = marks \cup {n + 1} /\ k \in 0..n /\ k < i
    <3>1. Fences(b) = marks \cup {n + 1}
      BY DEF Fences, n, marks
    <3> QED BY <1>1, <1>3, <2>2, <3>1
  <2>4. later \in SUBSET Nat /\ n + 1 \in later
    BY <1>1, <1>3, <2>3
  <2>5. end \in later
    <3> HIDE DEF later
    <3> QED BY <2>4, MinIs
  <2>6. end \in Nat /\ i < end /\ k + 1 <= i
    <3>1. end \in marks \cup {n + 1} /\ end > k /\ end \in Nat
      BY <2>3, <2>4, <2>5
    <3> HIDE DEF end, later
    <3>2. end # i
      BY <1>1, <1>2, <1>5, <3>1
    <3>3. ~(end < i)
      <4> SUFFICES ASSUME end < i PROVE FALSE
        OBVIOUS
      <4>1. end \in earlier
        BY <1>1, <1>2, <3>1
      <4> HIDE DEF earlier
      <4> QED BY <2>2, <2>3, <3>1, <4>1
    <3> QED BY <1>1, <1>2, <2>3, <3>1, <3>2, <3>3
  <2>7. k \in marks \cup {0}
    BY <2>2
  <2>8. r \in Runs(b)
    <3> HIDE DEF r
    <3> QED BY <2>7 DEF Runs, marks, r
  <2> HIDE DEF end
  <2>9. r[1] = k + 1 /\ r[2] = end - 1
    OBVIOUS
  <2>10. i \in r[1]..r[2]
    BY <1>1, <1>2, <2>3, <2>6, <2>9
  <2>11. IsText(Split(b)[i])
    BY <1>1, <1>2, <2>1 DEF n
  <2> HIDE DEF r
  <2>12. r \in NodeSet(b)
    BY <2>8, <2>10, <2>11 DEF Texts, NodeSet
  <2>13. r[1] <= i /\ i <= r[2]
    BY <1>2, <1>1, <2>3, <2>6, <2>9
  <2> QED BY <2>12, <2>13
<1> QED BY <1>4, <1>5

\* The number of lines before a node; what comes after all nodes comes after all lines.
Pos(b, n) == IF n <= Len(Nodes(b)) THEN Nodes(b)[n][1] - 1 ELSE Len(b)

\* Between two nodes, and before and after them, nothing is shown.
LEMMA PosIs ==
  ASSUME NEW b \in Seq(Plain), NEW n \in 1..(Len(Nodes(b)) + 1)
  PROVE  /\ Pos(b, n) \in 0..Len(b) /\ Pos(b, n + 1) \in Pos(b, n)..Len(b)
         /\ n <= Len(Nodes(b)) =>
              LET e == Nodes(b)[n][2]
              IN /\ Pos(b, n) = Nodes(b)[n][1] - 1 /\ e \in Pos(b, n)..Pos(b, n + 1)
                 /\ \A i \in (e + 1)..Pos(b, n + 1) : b[i] = Blank
         /\ n > Len(Nodes(b)) => Pos(b, n) = Len(b) /\ Pos(b, n + 1) = Len(b)
<1> DEFINE c == Len(Nodes(b))
           lb == Len(b)
           node(k) == Nodes(b)[k]
<1>1. /\ c \in Nat /\ lb \in Nat
      /\ \A k \in 1..c : /\ node(k)[1] \in 1..lb /\ node(k)[2] \in node(k)[1]..lb
  <2>1. c \in Nat /\ \A k \in 1..c : IsNode(b, node(k))
    BY NodesAre
  <2> QED BY <2>1, NodeIs, LenProperties
<1>2. \A k, l \in 1..c : k < l => node(k)[2] < node(l)[1]
  BY NodesInOrder
<1>3. \A r \in NodeSet(b) : \E k \in 1..c : node(k) = r
  BY NodesInOrder
<1>4. n \in 1..(c + 1)
  OBVIOUS
<1>5. \A k : Pos(b, k) = IF k <= c THEN node(k)[1] - 1 ELSE lb
  BY DEF Pos
<1> HIDE DEF c, lb, node
<1>6. CASE n <= c
  <2> DEFINE a == node(n)[1]
             e == node(n)[2]
             q == Pos(b, n + 1)
  <2>1. n \in 1..c /\ Pos(b, n) = a - 1 /\ a \in 1..lb /\ e \in a..lb
    BY <1>1, <1>4, <1>5, <1>6
  <2>2. q \in e..lb
    <3>1. CASE n + 1 <= c
      <4>1. n + 1 \in 1..c /\ n < n + 1
        BY <1>1, <1>4, <3>1
      <4>2. e < node(n + 1)[1] /\ node(n + 1)[1] \in 1..lb /\ q = node(n + 1)[1] - 1
        BY <1>1, <1>2, <1>5, <2>1, <3>1, <4>1
      <4> HIDE DEF a, e, q
      <4> QED BY <1>1, <2>1, <4>2
    <3>2. CASE ~(n + 1 <= c)
      <4>1. q = lb
        BY <1>5, <3>2
      <4> HIDE DEF a, e, q
      <4> QED BY <1>1, <2>1, <4>1
    <3> QED BY <3>1, <3>2
  <2>3. ASSUME NEW i \in (e + 1)..q PROVE b[i] = Blank
    <3> SUFFICES ASSUME b[i] # Blank PROVE FALSE
      OBVIOUS
    <3>1. i \in 1..lb /\ i > e /\ i <= q /\ i \in Nat
      <4> HIDE DEF a, e, q
      <4> QED BY <1>1, <2>1, <2>2
    <3>2. PICK r \in NodeSet(b) : r[1] <= i /\ i <= r[2]
      <4> HIDE DEF e, q
      <4> QED BY <3>1, LineInNode DEF lb
    <3>3. PICK k \in 1..c : node(k) = r
      BY <1>3
    <3>4. node(k)[1] <= i /\ i <= node(k)[2]
      BY <3>2, <3>3
    <3>5. /\ k \in Nat /\ n \in Nat /\ node(k)[1] \in 1..lb /\ node(k)[2] \in 1..lb
      <4>1. node(k)[1] \in 1..lb /\ node(k)[2] \in node(k)[1]..lb
        BY <1>1
      <4> QED BY <1>1, <1>4, <4>1
    <3>6. CASE k = n
      BY <1>1, <2>1, <3>1, <3>4, <3>6
    <3>7. CASE k < n
      <4>1. node(k)[2] < a
        BY <1>2, <2>1, <3>7
      <4> HIDE DEF a, e, q
      <4> QED BY <1>1, <2>1, <3>1, <3>4, <3>5, <4>1
    <3>8. CASE k > n
      <4>1. n + 1 \in 1..c /\ q = node(n + 1)[1] - 1
        BY <1>1, <1>4, <1>5, <3>5, <3>8
      <4>2. node(n + 1)[1] <= node(k)[1]
        <5>1. CASE k = n + 1
          BY <1>1, <4>1, <5>1
        <5>2. CASE k # n + 1
          <6>1. node(n + 1)[2] < node(k)[1]
            BY <1>2, <3>5, <3>8, <4>1, <5>2
          <6>2. node(n + 1)[1] \in 1..lb /\ node(n + 1)[2] \in node(n + 1)[1]..lb
            BY <1>1, <4>1
          <6> QED BY <1>1, <3>5, <6>1, <6>2
        <5> QED BY <5>1, <5>2
      <4>3. node(n + 1)[1] \in 1..lb
        BY <1>1, <4>1
      <4> HIDE DEF a, e, q
      <4> QED BY <1>1, <3>1, <3>4, <3>5, <4>1, <4>2, <4>3
    <3> QED BY <3>5, <3>6, <3>7, <3>8
  <2> HIDE DEF a, q
  <2>4. Pos(b, n) \in 0..lb /\ q \in Pos(b, n)..lb /\ e \in Pos(b, n)..q
    <3> HIDE DEF e
    <3> QED BY <1>1, <2>1, <2>2
  <2> QED BY <1>4, <1>6, <2>1, <2>3, <2>4 DEF a, c, lb, node, q
<1>7. CASE n > c
  <2>1. Pos(b, n) = lb /\ Pos(b, n + 1) = lb
    BY <1>1, <1>4, <1>5, <1>7
  <2> QED BY <1>1, <1>4, <1>7, <2>1 DEF lb, c
<1> QED BY <1>1, <1>4, <1>6, <1>7

LEMMA FirstPos ==
  ASSUME NEW b \in Seq(Plain)
  PROVE  Between(b, 0, Pos(b, 1)) = <<>>
<1> DEFINE c == Len(Nodes(b))
           q == Pos(b, 1)
<1>1. c \in Nat /\ 1 \in 1..(c + 1)
  BY NodesAre
<1>2. q \in 0..Len(b)
  BY <1>1, PosIs
<1>3. ASSUME NEW i \in 1..q, b[i] # Blank PROVE FALSE
  <2> DEFINE lb == Len(b)
  <2>1. i \in 1..lb /\ lb \in Nat /\ i <= q /\ q \in Nat
    <3>1. lb \in Nat
      BY LenProperties
    <3> HIDE DEF q, lb
    <3>2. q \in 0..lb
      BY <1>2 DEF lb
    <3> QED BY <1>3, <3>1, <3>2
  <2>2. PICK r \in NodeSet(b) : r[1] <= i /\ i <= r[2]
    BY <1>3, <2>1, LineInNode
  <2>3. PICK k \in 1..c : Nodes(b)[k] = r
    BY NodesInOrder
  <2>4. Nodes(b)[1][1] <= Nodes(b)[k][1] /\ Nodes(b)[1][1] \in Nat /\ Nodes(b)[k][1] \in Nat /\ 1 \in 1..c
    <3>1. 1 \in 1..c /\ k \in Nat
      <4> HIDE DEF c
      <4> QED BY <1>1
    <3>2. IsNode(b, Nodes(b)[1]) /\ IsNode(b, Nodes(b)[k])
      BY <3>1, NodesAre
    <3> DEFINE a1 == Nodes(b)[1][1]
               a2 == Nodes(b)[1][2]
               ak == Nodes(b)[k][1]
    <3>3. a1 \in 1..lb /\ a2 \in a1..lb /\ ak \in 1..lb
      BY <3>2, NodeIs
    <3>4. 1 < k => a2 < ak
      BY <3>1, NodesInOrder
    <3>5. 1 = k => a1 = ak
      OBVIOUS
    <3> HIDE DEF a1, a2, ak, lb
    <3>6. 1 = k \/ 1 < k
      <4> HIDE DEF c
      <4> QED BY <1>1
    <3>7. a1 <= ak /\ a1 \in Nat /\ ak \in Nat
      BY <2>1, <3>3, <3>4, <3>5, <3>6
    <3> QED BY <3>1, <3>7 DEF a1, ak
  <2>5. q = Nodes(b)[1][1] - 1
    <3>1. 1 <= c
      <4> HIDE DEF c
      <4> QED BY <1>1, <2>4
    <3> QED BY <3>1 DEF Pos
  <2>6. Nodes(b)[k][1] <= i
    BY <2>2, <2>3
  <2> HIDE DEF q
  <2> QED BY <2>1, <2>4, <2>5, <2>6
<1>4. \A i \in (0 + 1)..q : b[i] = Blank
  <2> HIDE DEF q
  <2> QED BY <1>3
<1>5. Len(b) \in Nat
  BY LenProperties
<1>6. 0 \in 0..Len(b) /\ q \in 0..Len(b)
  BY <1>2, <1>5
<1> HIDE DEF q
<1>7. Between(b, 0, q) = <<>>
  BY <1>4, <1>6, BetweenIs
<1> QED BY <1>7 DEF q

-----------------------------------------------------------------------------
(* What patches make of what is shown                                      *)

LEMMA SameLines ==
  ASSUME NEW s \in Seq(Plain), NEW b \in Seq(Plain), NEW f \in 0..Len(b), f <= Len(s),
         \A x \in 1..f : s[x] = b[x], NEW i \in 0..f, NEW j \in i..f
  PROVE  Between(s, i, j) = Between(b, i, j)
<1> DEFINE ls == Len(s)
           lb == Len(b)
           u == SubSeq(s, i + 1, j)
           v == SubSeq(b, i + 1, j)
<1>1. ls \in Nat /\ lb \in Nat /\ (\A x \in 1..ls : s[x] \in Plain) /\ \A x \in 1..lb : b[x] \in Plain
  BY LenProperties, ElementOfSeq
<1>2. f \in 0..lb /\ f <= ls
  OBVIOUS
<1> HIDE DEF ls, lb
<1>3. i + 1 \in Int /\ j \in Int
      /\ (\A x \in (i + 1)..j : x \in 1..f /\ s[x] \in Plain /\ b[x] \in Plain)
  BY <1>1, <1>2
<1>4. /\ u \in Seq(Plain) /\ v \in Seq(Plain) /\ Len(u) = Len(v)
      /\ Len(u) = IF i + 1 <= j THEN j - (i + 1) + 1 ELSE 0
      /\ \A x \in 1..(j - (i + 1) + 1) : u[x] = s[i + 1 + x - 1] /\ v[x] = b[i + 1 + x - 1]
  BY <1>3, SubSeqProperties
<1> HIDE DEF u, v
<1>5. ASSUME NEW x \in 1..Len(u) PROVE u[x] = v[x]
  <2>1. x \in 1..(j - (i + 1) + 1) /\ i + 1 + x - 1 \in 1..f
    BY <1>1, <1>2, <1>4
  <2> QED BY <1>4, <2>1
<1>6. u = v
  BY <1>4, <1>5, SeqEqual
<1> QED BY <1>6 DEF u, v, Between

\* What comes after a number of lines.
LEMMA AfterIs ==
  ASSUME NEW s \in Seq(Plain), NEW t \in Seq(Plain)
  PROVE  Between(s \o t, Len(s), Len(s \o t)) = Content(t)
<1> DEFINE u == s \o t
           ls == Len(s)
           lt == Len(t)
           v == SubSeq(u, ls + 1, ls + lt)
<1>1. /\ u \in Seq(Plain) /\ Len(u) = ls + lt
      /\ \A x \in 1..(ls + lt) : u[x] = IF x <= ls THEN s[x] ELSE t[x - ls]
  BY ConcatProperties
<1>2. ls \in Nat /\ lt \in Nat /\ \A x \in 1..lt : t[x] \in Plain
  BY LenProperties, ElementOfSeq
<1>3. \A x \in 1..lt : u[ls + x] = t[x]
  <2> HIDE DEF u, ls, lt
  <2> QED BY <1>1, <1>2
<1>4. \A x \in (ls + 1)..(ls + lt) : u[x] \in Plain
  <2> TAKE x \in (ls + 1)..(ls + lt)
  <2> HIDE DEF u, ls, lt
  <2>1. x - ls \in 1..lt /\ x \in 1..(ls + lt) /\ ~(x <= ls)
    BY <1>2
  <2> QED BY <1>1, <1>2, <2>1
<1>5. /\ v \in Seq(Plain) /\ Len(v) = IF ls + 1 <= ls + lt THEN ls + lt - (ls + 1) + 1 ELSE 0
      /\ \A x \in 1..(ls + lt - (ls + 1) + 1) : v[x] = u[ls + 1 + x - 1]
  <2> DEFINE from == ls + 1
             to == ls + lt
  <2>1. from \in Int /\ to \in Int /\ \A x \in from..to : u[x] \in Plain
    BY <1>2, <1>4
  <2> HIDE DEF u, from, to
  <2>2. /\ SubSeq(u, from, to) \in Seq(Plain)
        /\ Len(SubSeq(u, from, to)) = IF from <= to THEN to - from + 1 ELSE 0
        /\ \A x \in 1..(to - from + 1) : SubSeq(u, from, to)[x] = u[from + x - 1]
    BY <2>1, SubSeqProperties
  <2> QED BY <2>2 DEF from, to
<1>6. v = t
  <2> HIDE DEF u, v
  <2>1. Len(v) = Len(t)
    <3>1. Len(v) = lt
      <4> HIDE DEF ls, lt
      <4> QED BY <1>2, <1>5
    <3> QED BY <3>1
  <2>2. \A x \in 1..Len(v) : v[x] = t[x]
    <3>1. \A x \in 1..lt : v[x] = t[x]
      <4> HIDE DEF ls, lt
      <4> TAKE x \in 1..lt
      <4>1. x \in 1..(ls + lt - (ls + 1) + 1) /\ ls + 1 + x - 1 = ls + x
        BY <1>2
      <4> QED BY <1>3, <1>5, <4>1
    <3> QED BY <2>1, <3>1
  <2> QED BY <1>5, <2>1, <2>2, SeqEqual
<1> QED BY <1>1, <1>6 DEF Between

Regroups(u, w, x, y, t) == u \o (w \o ((x \o y) \o t)) = (u \o (w \o x)) \o (y \o t)

LEMMA Regroup ==
  ASSUME NEW u \in Seq(Plain), NEW w \in Seq(Plain), NEW x \in Seq(Plain), NEW y \in Seq(Plain),
         NEW t \in Seq(Plain)
  PROVE  Regroups(u, w, x, y, t)
<1> DEFINE z == y \o t
           v == w \o x
<1>1. z \in Seq(Plain) /\ v \in Seq(Plain)
  BY ConcatProperties
<1> HIDE DEF z, v
<1>2. Associates(x, y, t) /\ Associates(w, x, z) /\ Associates(u, v, z)
  BY <1>1, PlainAssociates
<1> QED BY <1>2, Zenon DEF Associates, Regroups, z, v

\* What is shown after the lines that have not changed yet.
Rest(b, n, ps, g, k) == Between(g[k], From(b, n, ps, k), Len(g[k]))

LEMMA NextRest ==
  ASSUME NEW b \in Seq(Plain), NEW n \in Nat, NEW ps, InOrder(b, n, ps), NEW g,
         Turning(b, n, ps, g), NEW k \in 1..n
  PROVE  LET p == ps[n + 1 - k]
             f == From(b, n, ps, k - 1)
         IN /\ Content(p.with) \in Seq(Plain) /\ p.start \in 0..Len(b) /\ p.end \in p.start..f
            /\ f \in 0..Len(b) /\ From(b, n, ps, k) = p.start
            /\ Between(b, p.end, f) \in Seq(Plain)
            /\ Rest(b, n, ps, g, k)
                 = Content(p.with) \o (Between(b, p.end, f) \o Rest(b, n, ps, g, k - 1))
<1> DEFINE p == ps[n + 1 - k]
           s == g[k - 1]
           r == g[k]
           f == From(b, n, ps, k - 1)
           a == p.start
           e == p.end
           w == p.with
           lb == Len(b)
           ls == Len(s)
           A == SubSeq(s, 1, a)
           B == SubSeq(s, e + 1, ls)
<1>1. /\ a \in 0..ls /\ e \in a..ls /\ w \in Seq(Plain)
      /\ From(b, n, ps, k) = a /\ e <= f /\ f \in 0..lb /\ f <= ls
      /\ \A i \in 1..f : s[i] = b[i]
      /\ s \in Seq(Plain) /\ r \in Seq(Plain) /\ ls \in Nat /\ lb \in Nat
  <2>1. /\ a \in 0..ls /\ e \in a..ls /\ p.with \in Seq(Plain)
        /\ From(b, n, ps, k) = a /\ e <= f /\ f \in 0..lb /\ f <= ls
        /\ s \in Seq(Plain) /\ r \in Seq(Plain) /\ ls \in Nat /\ lb \in Nat
    BY Turns
  <2>2. \A i \in 1..f : s[i] = b[i]
    <3>1. k - 1 \in 0..n
      OBVIOUS
    <3> QED BY <3>1 DEF Turning
  <2> QED BY <2>1, <2>2
<1>2. r = Replaced(s, p)
  BY DEF Turning
<1>3. r = (A \o w) \o B
  BY <1>2 DEF Replaced
<1> HIDE DEF p, s, r, f
<1> HIDE DEF a, e, w, lb, ls
<1>4. A \in Seq(Plain) /\ Len(A) = a
  <2>1. \A i \in 1..ls : s[i] \in Plain
    BY <1>1, ElementOfSeq DEF ls
  <2>2. 1 \in Int /\ a \in Int /\ \A i \in 1..a : s[i] \in Plain
    BY <1>1, <2>1
  <2>3. A \in Seq(Plain) /\ Len(A) = IF 1 <= a THEN a - 1 + 1 ELSE 0
    BY <2>2, SubSeqProperties
  <2> HIDE DEF A
  <2> QED BY <1>1, <2>3
<1>5. B \in Seq(Plain) /\ Content(B) = Between(s, e, ls)
  <2>1. e \in 0..Len(s) /\ ls \in e..Len(s)
    BY <1>1 DEF ls
  <2>2. SubSeq(s, e + 1, ls) \in Seq(Plain)
    BY <1>1, <2>1, BetweenIs
  <2> QED BY <2>2 DEF Between
<1> HIDE DEF A, B
<1>6. w \o B \in Seq(Plain) /\ Content(w \o B) = Content(w) \o Content(B)
  BY <1>1, <1>5, ContentAdds
<1>7. r = A \o (w \o B)
  <2>1. A \in Seq(Plain) /\ w \in Seq(Plain) /\ B \in Seq(Plain)
    BY <1>1, <1>4, <1>5
  <2>2. Associates(A, w, B)
    BY <2>1, PlainAssociates
  <2> QED BY <1>3, <2>2, Zenon DEF Associates
<1>8. Between(r, a, Len(r)) = Content(w) \o Content(B)
  <2>1. Between(A \o (w \o B), Len(A), Len(A \o (w \o B))) = Content(w \o B)
    BY <1>4, <1>6, AfterIs
  <2> QED BY <1>4, <1>6, <1>7, <2>1
<1>9. Between(s, e, ls) = Between(s, e, f) \o Between(s, f, ls)
  <2>1. e \in 0..Len(s) /\ f \in e..Len(s) /\ ls \in f..Len(s)
    BY <1>1 DEF ls
  <2> QED BY <1>1, <2>1, BetweenAdds
<1>10. Between(s, e, f) = Between(b, e, f) /\ Between(b, e, f) \in Seq(Plain)
  <2>1. e \in 0..f /\ f \in e..f /\ f \in 0..Len(b) /\ f <= Len(s)
    BY <1>1 DEF lb, ls
  <2>2. e \in 0..Len(b) /\ f \in e..Len(b)
    BY <1>1 DEF lb
  <2>3. Between(b, e, f) \in Seq(Plain)
    BY <2>2, BetweenIs
  <2> QED BY <1>1, <2>1, <2>3, SameLines
<1>11. Between(r, a, Len(r)) = Content(w) \o (Between(b, e, f) \o Between(s, f, ls))
  BY <1>5, <1>8, <1>9, <1>10
<1>12. Content(w) \in Seq(Plain)
  BY <1>1, ContentIsPlain
<1>13. a \in 0..lb /\ e \in a..f
  BY <1>1
<1>14. Rest(b, n, ps, g, k) = Between(r, a, Len(r)) /\ Rest(b, n, ps, g, k - 1) = Between(s, f, ls)
  BY <1>1 DEF Rest, r, s, f, ls
<1> QED BY <1>1, <1>10, <1>11, <1>12, <1>13, <1>14 DEF p, s, f, a, e, w, lb

LEMMA RestsAre ==
  ASSUME NEW b \in Seq(Plain), NEW n \in Nat, NEW ps, InOrder(b, n, ps), NEW g,
         Turning(b, n, ps, g)
  PROVE  /\ \A k \in 0..n : Rest(b, n, ps, g, k) \in Seq(Plain) /\ From(b, n, ps, k) \in 0..Len(b)
         /\ Rest(b, n, ps, g, 0) = <<>>
         /\ Content(g[n]) = Between(b, 0, From(b, n, ps, n)) \o Rest(b, n, ps, g, n)
<1>1. ASSUME NEW k \in 0..n
      PROVE  /\ g[k] \in Seq(Plain) /\ Len(g[k]) \in Nat /\ From(b, n, ps, k) \in 0..Len(b)
             /\ From(b, n, ps, k) \in 0..Len(g[k]) /\ Rest(b, n, ps, g, k) \in Seq(Plain)
             /\ \A i \in 1..From(b, n, ps, k) : g[k][i] = b[i]
  <2> DEFINE f == From(b, n, ps, k)
             lb == Len(b)
             lg == Len(g[k])
  <2>1. g[k] \in Seq(Plain) /\ f \in 0..lb /\ f <= lg /\ \A i \in 1..f : g[k][i] = b[i]
    BY DEF Turning
  <2>2. lb \in Nat /\ lg \in Nat
    BY <2>1, LenProperties
  <2> HIDE DEF f, lb
  <2>3. f \in 0..lg /\ lg \in f..lg
    <3> HIDE DEF lg
    <3> QED BY <2>1, <2>2
  <2>4. Between(g[k], f, lg) \in Seq(Plain)
    BY <2>1, <2>3, BetweenIs
  <2> QED BY <2>1, <2>2, <2>3, <2>4 DEF Rest, f, lb
<1>2. Rest(b, n, ps, g, 0) = <<>>
  <2>1. From(b, n, ps, 0) = Len(b) /\ g[0] = b
    BY DEF From, Turning
  <2>2. Len(b) \in 0..Len(b) /\ Len(b) \in Len(b)..Len(b)
    BY LenProperties
  <2>3. Between(b, Len(b), Len(b)) = <<>>
    BY <2>2, BetweenIs
  <2> QED BY <2>1, <2>3 DEF Rest
<1>3. Content(g[n]) = Between(b, 0, From(b, n, ps, n)) \o Rest(b, n, ps, g, n)
  <2> DEFINE f == From(b, n, ps, n)
             r == g[n]
             lr == Len(r)
  <2>1. r \in Seq(Plain) /\ lr \in Nat /\ f \in 0..lr /\ f \in 0..Len(b) /\ \A i \in 1..f : r[i] = b[i]
    BY <1>1
  <2>2. 0 \in 0..lr /\ f \in 0..lr /\ lr \in f..lr /\ f <= lr /\ 0 \in 0..f /\ f \in 0..f
    <3> HIDE DEF f, r, lr
    <3> QED BY <2>1
  <2> HIDE DEF f, r
  <2>3. Content(r) = Between(r, 0, f) \o Between(r, f, lr)
    <3>1. Between(r, 0, lr) = Between(r, 0, f) \o Between(r, f, lr)
      BY <2>1, <2>2, BetweenAdds
    <3> QED BY <2>1, <3>1, WholeIs
  <2>4. Between(r, 0, f) = Between(b, 0, f)
    BY <2>1, <2>2, SameLines
  <2> QED BY <2>3, <2>4 DEF Rest, f, r
<1> QED BY <1>1, <1>2, <1>3

LEMMA PosMono ==
  ASSUME NEW b \in Seq(Plain), NEW n \in 1..(Len(Nodes(b)) + 2), NEW k \in n..(Len(Nodes(b)) + 2)
  PROVE  /\ Pos(b, n) \in 0..Len(b) /\ Pos(b, k) \in 0..Len(b) /\ Pos(b, n) <= Pos(b, k)
         /\ Len(Nodes(b)) \in Nat /\ Len(b) \in Nat
<1> DEFINE c == Len(Nodes(b))
           lb == Len(b)
           node(i) == Nodes(b)[i]
<1>1. /\ c \in Nat /\ lb \in Nat
      /\ \A i \in 1..c : /\ node(i)[1] \in 1..lb /\ node(i)[2] \in node(i)[1]..lb
  <2>1. c \in Nat /\ \A i \in 1..c : IsNode(b, node(i))
    BY NodesAre
  <2> QED BY <2>1, NodeIs, LenProperties
<1>2. \A i, j \in 1..c : i < j => node(i)[2] < node(j)[1]
  BY NodesInOrder
<1>3. n \in 1..(c + 2) /\ k \in n..(c + 2)
  OBVIOUS
<1>4. \A i : Pos(b, i) = IF i <= c THEN node(i)[1] - 1 ELSE lb
  BY DEF Pos
<1> HIDE DEF c, lb, node
<1>5. \A i \in 1..(c + 2) : Pos(b, i) \in 0..lb
  <2> TAKE i \in 1..(c + 2)
  <2>1. CASE i <= c
    <3>1. i \in 1..c
      BY <1>1, <2>1
    <3>2. node(i)[1] \in 1..lb
      BY <1>1, <3>1
    <3> QED BY <1>1, <1>4, <2>1, <3>2
  <2>2. CASE ~(i <= c)
    BY <1>1, <1>4, <2>2
  <2> QED BY <2>1, <2>2
<1>6. Pos(b, n) <= Pos(b, k)
  <2>1. CASE k <= c /\ n < k
    <3>1. n \in 1..c /\ k \in 1..c /\ node(n)[2] < node(k)[1]
      BY <1>1, <1>2, <1>3, <2>1
    <3> QED BY <1>1, <1>4, <3>1
  <2>2. CASE n = k
    BY <1>1, <1>3, <1>5, <2>2
  <2>3. CASE k > c
    BY <1>1, <1>3, <1>4, <1>5, <2>3
  <2> QED BY <1>1, <1>3, <2>1, <2>2, <2>3
<1>7. k \in 1..(c + 2)
  BY <1>1, <1>3
<1> QED BY <1>1, <1>3, <1>5, <1>6, <1>7 DEF c, lb

\* Numbers of which each is greater than the one before it, and how many are left.
Climbs(m, nd, c) ==
  (\A j \in 1..m : nd[j] \in 1..c) /\ \A j \in 1..(m - 1) : nd[j] < nd[j + 1]
Left(m, nd, n, k) == \A j \in 1..m : nd[j] > n <=> j > m - k

\* Patches of which each is about a node, no two about the same, and what becomes of the
\* nodes, with what comes before each.
PerNode(b, m, ps, nd) ==
  /\ Climbs(m, nd, Len(Nodes(b)) + 1)
  /\ \A j \in 1..m : ps[j].start = Pos(b, nd[j]) /\ ps[j].end <= Pos(b, nd[j] + 1)

IsPiece(b, m, ps, nd, k, x) ==
  /\ x \in Seq(Plain)
  /\ (\A j \in 1..m : nd[j] # k) => x = Between(b, Pos(b, k), Pos(b, k + 1))
  /\ \A j \in 1..m :
       nd[j] = k => x = Content(ps[j].with) \o Between(b, ps[j].end, Pos(b, k + 1))

Pieces(b, m, ps, nd, piece) ==
  \A k \in 1..(Len(Nodes(b)) + 1) : IsPiece(b, m, ps, nd, k, piece[k])

\* What is shown is what the nodes up to one have become, the lines up to where the next
\* change is, and what the changes from there have left.
UpTo(b, m, ps, nd, g, total, x, n) ==
  \E k \in 0..m :
    /\ Left(m, nd, n, k) /\ Pos(b, n + 1) <= From(b, m, ps, k)
    /\ total = x \o (Between(b, Pos(b, n + 1), From(b, m, ps, k)) \o Rest(b, m, ps, g, k))

LEMMA FirstUpTo ==
  ASSUME NEW b \in Seq(Plain), NEW m \in Nat, NEW ps, InOrder(b, m, ps), NEW nd,
         PerNode(b, m, ps, nd), NEW g, Turning(b, m, ps, g)
  PROVE  UpTo(b, m, ps, nd, g, Content(g[m]), <<>>, 0)
<1> DEFINE c == Len(Nodes(b)) + 1
           q == Pos(b, 1)
           f == From(b, m, ps, m)
           r == Rest(b, m, ps, g, m)
           lb == Len(b)
<1>1. c \in Nat /\ lb \in Nat /\ q \in 0..lb
  BY PosMono
<1>2. \A j \in 1..m : nd[j] \in 1..c
  BY DEF PerNode, Climbs
<1>3. f \in 0..lb /\ r \in Seq(Plain) /\ Content(g[m]) = Between(b, 0, f) \o r
  BY RestsAre
<1>4. q <= f
  <2>1. CASE m = 0
    <3>1. f = lb
      BY <2>1 DEF From
    <3> HIDE DEF q, f, lb
    <3> QED BY <1>1, <3>1
  <2>2. CASE m # 0
    <3>1. 1 \in 1..m /\ m + 1 - m = 1
      BY <2>2
    <3>2. f = ps[1].start /\ ps[1].start = Pos(b, nd[1])
      BY <2>2, <3>1 DEF From, PerNode
    <3>3. nd[1] \in 1..c
      BY <1>2, <3>1
    <3>4. 1 \in 1..(Len(Nodes(b)) + 2) /\ nd[1] \in 1..(Len(Nodes(b)) + 2)
      BY <1>1, <3>3
    <3>5. Pos(b, 1) <= Pos(b, nd[1])
      BY <3>4, PosMono
    <3> QED BY <3>2, <3>5
  <2> QED BY <2>1, <2>2
<1>5. Between(b, 0, f) = Between(b, q, f)
  <2>1. 0 \in 0..lb /\ q \in 0..lb /\ f \in q..lb /\ q \in 0..f
    <3> HIDE DEF q, f, lb
    <3> QED BY <1>1, <1>3, <1>4
  <2>2. Between(b, 0, f) = Between(b, 0, q) \o Between(b, q, f)
    BY <2>1, BetweenAdds
  <2>3. Between(b, q, f) \in Seq(Plain)
    BY <2>1, BetweenIs
  <2>4. Between(b, 0, q) = <<>>
    BY FirstPos
  <2> HIDE DEF q, f
  <2>5. <<>> \o Between(b, q, f) = Between(b, q, f)
    BY <2>3, ConcatEmptySeq
  <2> QED BY <2>2, <2>4, <2>5
<1>6. <<>> \o (Between(b, q, f) \o r) = Between(b, q, f) \o r
  <2>1. Between(b, q, f) \in Seq(Plain)
    <3>1. q \in 0..lb /\ f \in q..lb
      <4> HIDE DEF q, f, lb
      <4> QED BY <1>1, <1>3, <1>4
    <3> QED BY <3>1, BetweenIs
  <2>2. Between(b, q, f) \o r \in Seq(Plain)
    BY <1>3, <2>1, ConcatProperties
  <2> HIDE DEF q, f, r
  <2> QED BY <2>2, ConcatEmptySeq
<1>7. Left(m, nd, 0, m)
  <2> HIDE DEF c
  <2> QED BY <1>1, <1>2 DEF Left
<1>8. m \in 0..m /\ 0 + 1 = 1
  OBVIOUS
<1>9. Content(g[m]) = <<>> \o (Between(b, q, f) \o r)
  BY <1>3, <1>5, <1>6
<1> QED BY <1>4, <1>7, <1>8, <1>9 DEF UpTo

\* The patch of a node, if any, is the first of those that are left.
LEMMA NextIsFirst ==
  ASSUME NEW m \in Nat, NEW nd, NEW c \in Nat, Climbs(m, nd, c), NEW n \in 0..(c - 1),
         NEW k \in 0..m, Left(m, nd, n, k)
  PROVE  /\ \A j \in 1..m : nd[j] = n + 1 =>
              k \in 1..m /\ j = m + 1 - k /\ Left(m, nd, n + 1, k - 1)
         /\ (\A j \in 1..m : nd[j] # n + 1) => Left(m, nd, n + 1, k)
<1>0. /\ \A j \in 1..m : nd[j] \in 1..c
      /\ \A j \in 1..(m - 1) : nd[j] < nd[j + 1]
      /\ \A j \in 1..m : nd[j] > n <=> j > m - k
  BY DEF Climbs, Left
<1>1. ASSUME NEW j \in 1..m, nd[j] = n + 1
      PROVE  /\ k \in 1..m /\ j = m + 1 - k
             /\ \A i \in 1..m : nd[i] > n + 1 <=> i > m - (k - 1)
  <2>1. j > m - k
    BY <1>0, <1>1
  <2>2. j = m + 1 - k
    <3>1. SUFFICES ASSUME j # m + 1 - k PROVE FALSE
      OBVIOUS
    <3>2. j - 1 > m - k /\ j - 1 \in 1..(m - 1) /\ j - 1 \in 1..m /\ j - 1 + 1 = j
      BY <2>1, <3>1
    <3>3. nd[j - 1] > n /\ nd[j - 1] < nd[j] /\ nd[j - 1] \in 1..c
      BY <1>0, <3>2
    <3> DEFINE v == nd[j - 1]
    <3>4. v > n /\ v < n + 1 /\ v \in Nat
      BY <1>1, <3>3
    <3> HIDE DEF v
    <3> QED BY <3>4
  <2>3. k \in 1..m
    BY <2>2
  <2>4. ASSUME NEW i \in 1..m, i > m - (k - 1) PROVE nd[i] > n + 1
    <3>1. i - 1 > m - k /\ i - 1 \in 1..(m - 1) /\ i - 1 \in 1..m /\ i - 1 + 1 = i
      BY <2>3, <2>4
    <3>2. nd[i - 1] > n /\ nd[i - 1] < nd[i] /\ nd[i - 1] \in 1..c /\ nd[i] \in 1..c
      BY <1>0, <3>1
    <3> DEFINE v == nd[i - 1]
               w == nd[i]
    <3>3. v > n /\ v < w /\ v \in Nat /\ w \in Nat
      BY <3>2
    <3> HIDE DEF v
    <3>4. w > n + 1
      <4> HIDE DEF w
      <4> QED BY <3>3
    <3> QED BY <3>4
  <2>5. ASSUME NEW i \in 1..m, nd[i] > n + 1 PROVE i > m - (k - 1)
    <3>1. nd[i] > n /\ nd[i] # n + 1
      <4> DEFINE w == nd[i]
      <4>1. w \in Nat /\ w > n + 1
        BY <1>0, <2>5
      <4> HIDE DEF w
      <4>2. w > n /\ w # n + 1
        BY <4>1
      <4> QED BY <4>2 DEF w
    <3>2. i > m - k /\ i # j
      BY <1>0, <1>1, <3>1
    <3> QED BY <2>2, <2>3, <3>2
  <2> QED BY <2>2, <2>3, <2>4, <2>5
<1>2. ASSUME \A j \in 1..m : nd[j] # n + 1, NEW i \in 1..m PROVE nd[i] > n + 1 <=> i > m - k
  <2> DEFINE w == nd[i]
  <2>1. w \in Nat /\ w # n + 1 /\ (w > n <=> i > m - k)
    BY <1>0, <1>2
  <2> HIDE DEF w
  <2>2. w > n + 1 <=> w > n
    BY <2>1
  <2> QED BY <2>1, <2>2 DEF w
<1>3. ASSUME NEW j \in 1..m, nd[j] = n + 1
      PROVE  k \in 1..m /\ j = m + 1 - k /\ Left(m, nd, n + 1, k - 1)
  BY <1>1, <1>3 DEF Left
<1>4. ASSUME \A j \in 1..m : nd[j] # n + 1 PROVE Left(m, nd, n + 1, k)
  BY <1>2, <1>4 DEF Left
<1> QED BY <1>3, <1>4

LEMMA NextUpTo ==
  ASSUME NEW b \in Seq(Plain), NEW m \in Nat, NEW ps, InOrder(b, m, ps), NEW nd,
         PerNode(b, m, ps, nd), NEW piece, Pieces(b, m, ps, nd, piece), NEW g,
         Turning(b, m, ps, g), NEW total, NEW x \in Seq(Plain), NEW n \in 0..Len(Nodes(b)),
         UpTo(b, m, ps, nd, g, total, x, n)
  PROVE  UpTo(b, m, ps, nd, g, total, x \o piece[n + 1], n + 1)
<1> DEFINE c == Len(Nodes(b)) + 1
           lb == Len(b)
           q == Pos(b, n + 1)
           t == Pos(b, n + 2)
<1>1. /\ c \in Nat /\ lb \in Nat /\ n + 1 \in 1..c /\ n \in 0..(c - 1) /\ n \in Nat
      /\ q \in 0..lb /\ t \in q..lb
  <2>1. Len(Nodes(b)) \in Nat /\ lb \in Nat
    BY NodesAre, LenProperties
  <2>2. n + 1 \in 1..(Len(Nodes(b)) + 1) /\ n + 1 + 1 = n + 2
    BY <2>1
  <2>3. q \in 0..lb /\ t \in q..lb
    BY <2>2, PosIs
  <2> QED BY <2>1, <2>2, <2>3
<1>2. /\ Climbs(m, nd, c)
      /\ \A j \in 1..m : /\ nd[j] \in 1..c
                         /\ ps[j].start = Pos(b, nd[j]) /\ ps[j].end <= Pos(b, nd[j] + 1)
  BY DEF PerNode, Climbs
<1>3. PICK k \in 0..m :
        /\ Left(m, nd, n, k) /\ Pos(b, n + 1) <= From(b, m, ps, k)
        /\ total = x \o (Between(b, Pos(b, n + 1), From(b, m, ps, k)) \o Rest(b, m, ps, g, k))
  BY DEF UpTo
<1>4. /\ \A j \in 1..m : nd[j] = n + 1 =>
           k \in 1..m /\ j = m + 1 - k /\ Left(m, nd, n + 1, k - 1)
      /\ (\A j \in 1..m : nd[j] # n + 1) => Left(m, nd, n + 1, k)
  <2> HIDE DEF c
  <2> QED BY <1>1, <1>2, <1>3, NextIsFirst
<1>5. ASSUME NEW i \in 0..m, Left(m, nd, n + 1, i)
      PROVE  t <= From(b, m, ps, i) /\ From(b, m, ps, i) \in 0..lb
  <2>1. From(b, m, ps, i) \in 0..lb
    BY RestsAre
  <2>2. CASE i = 0
    <3>1. From(b, m, ps, i) = lb
      BY <2>2 DEF From
    <3> QED BY <1>1, <2>1, <3>1
  <2>3. CASE i # 0
    <3> DEFINE j == m + 1 - i
    <3>1. j \in 1..m /\ j > m - i
      BY <2>3
    <3>2. From(b, m, ps, i) = ps[j].start
      BY <2>3 DEF From
    <3> HIDE DEF j
    <3>3. nd[j] > n + 1 /\ nd[j] \in 1..c /\ ps[j].start = Pos(b, nd[j])
      BY <1>2, <1>5, <3>1 DEF Left
    <3>4. n + 2 \in 1..(Len(Nodes(b)) + 2) /\ nd[j] \in (n + 2)..(Len(Nodes(b)) + 2)
      <4> DEFINE v == nd[j]
      <4>1. Len(Nodes(b)) \in Nat
        BY NodesAre
      <4>2. v > n + 1 /\ v \in 1..c
        BY <3>3
      <4> HIDE DEF v
      <4>3. n + 2 \in 1..(Len(Nodes(b)) + 2) /\ v \in (n + 2)..(Len(Nodes(b)) + 2)
        BY <1>1, <4>1, <4>2
      <4> QED BY <4>3 DEF v
    <3>5. Pos(b, n + 2) <= Pos(b, nd[j])
      BY <3>4, PosMono
    <3> QED BY <2>1, <3>2, <3>3, <3>5
  <2> QED BY <2>2, <2>3
<1>6. CASE \A j \in 1..m : nd[j] # n + 1
  <2> DEFINE f == From(b, m, ps, k)
             r == Rest(b, m, ps, g, k)
             w == Between(b, q, t)
             z == Between(b, t, f)
  <2>1. Left(m, nd, n + 1, k)
    BY <1>4, <1>6
  <2>2. t <= f /\ f \in 0..lb
    BY <1>5, <2>1
  <2>3. /\ q \in 0..lb /\ t \in q..lb /\ f \in t..lb /\ t \in 0..lb
    <3> HIDE DEF f, lb, q, t
    <3> QED BY <1>1, <2>2
  <2>4. Between(b, q, f) = w \o z /\ w \in Seq(Plain) /\ z \in Seq(Plain)
    <3>1. Between(b, q, f) = w \o z
      BY <2>3, BetweenAdds
    <3> QED BY <2>3, <3>1, BetweenIs
  <2>5. piece[n + 1] = w
    <3>1. n + 1 + 1 = n + 2 /\ n + 1 \in 1..(Len(Nodes(b)) + 1)
      BY <1>1
    <3> QED BY <1>6, <3>1 DEF Pieces, IsPiece
  <2>6. r \in Seq(Plain)
    BY RestsAre
  <2>7. total = x \o (Between(b, q, f) \o r)
    BY <1>3
  <2> HIDE DEF f, r, w, z
  <2>8. total = (x \o w) \o (z \o r)
    <3> DEFINE y == z \o r
    <3>1. w \in Seq(Plain) /\ z \in Seq(Plain) /\ y \in Seq(Plain)
      BY <2>4, <2>6, ConcatProperties
    <3> HIDE DEF y
    <3>2. Associates(w, z, r) /\ Associates(x, w, y)
      BY <2>4, <2>6, <3>1, PlainAssociates
    <3> QED BY <2>4, <2>7, <3>2, Zenon DEF Associates, y
  <2>9. n + 1 + 1 = n + 2
    BY <1>1
  <2> QED BY <2>1, <2>2, <2>5, <2>8, <2>9 DEF UpTo, f, r, z
<1>7. ASSUME NEW j \in 1..m, nd[j] = n + 1
      PROVE  UpTo(b, m, ps, nd, g, total, x \o piece[n + 1], n + 1)
  <2>1. k \in 1..m /\ j = m + 1 - k /\ Left(m, nd, n + 1, k - 1)
    BY <1>4, <1>7
  <2> DEFINE p == ps[j]
             f == From(b, m, ps, k - 1)
             r == Rest(b, m, ps, g, k - 1)
             C == Content(p.with)
             w == Between(b, p.end, t)
             z == Between(b, t, f)
             s == p.start
             e == p.end
  <2>2. k - 1 \in 0..m
    BY <2>1
  <2>3. t <= f /\ f \in 0..lb
    BY <1>5, <2>1, <2>2
  <2>4. /\ C \in Seq(Plain) /\ s \in 0..lb /\ e \in s..f
        /\ From(b, m, ps, k) = s /\ Rest(b, m, ps, g, k) = C \o (Between(b, e, f) \o r)
    <3> DEFINE o == ps[m + 1 - k]
    <3>1. k \in 1..m /\ o = p
      BY <2>1
    <3>2. /\ Content(o.with) \in Seq(Plain) /\ o.start \in 0..lb /\ o.end \in o.start..f
          /\ From(b, m, ps, k) = o.start
      BY <3>1, NextRest
    <3>3. Rest(b, m, ps, g, k) = Content(o.with) \o (Between(b, o.end, f) \o r)
      BY <3>1, NextRest
    <3> HIDE DEF o, p, f, r
    <3> QED BY <3>1, <3>2, <3>3
  <2>5. s = q /\ e <= t
    <3>1. n + 1 + 1 = n + 2
      BY <1>1
    <3> QED BY <1>2, <1>7, <3>1
  <2>6. e \in 0..lb /\ t \in e..lb /\ f \in t..lb /\ q \in 0..lb
    <3> HIDE DEF s, e, f, lb, q, t
    <3> QED BY <1>1, <2>3, <2>4, <2>5
  <2>7. Between(b, e, f) = w \o z /\ w \in Seq(Plain) /\ z \in Seq(Plain)
    <3>1. Between(b, e, f) = w \o z
      BY <2>6, BetweenAdds
    <3>2. w \in Seq(Plain)
      BY <2>6, BetweenIs
    <3>3. z \in Seq(Plain)
      <4>1. t \in 0..lb
        <5> HIDE DEF q, t, lb
        <5> QED BY <1>1
      <4> QED BY <2>6, <4>1, BetweenIs
    <3> QED BY <3>1, <3>2, <3>3
  <2>8. piece[n + 1] = C \o w
    <3>1. n + 1 + 1 = n + 2 /\ n + 1 \in 1..(Len(Nodes(b)) + 1)
      BY <1>1
    <3> QED BY <1>7, <3>1 DEF Pieces, IsPiece
  <2>9. r \in Seq(Plain)
    BY <2>2, RestsAre
  <2>10. Between(b, q, q) = <<>>
    BY <2>6, BetweenIs
  <2>11. total = x \o (<<>> \o (C \o ((w \o z) \o r)))
    BY <1>3, <2>4, <2>5, <2>7, <2>10
  <2> HIDE DEF p, f, r, C, w, z, s, e
  <2>12. total = x \o (C \o ((w \o z) \o r))
    <3> DEFINE y == C \o ((w \o z) \o r)
    <3>1. w \o z \in Seq(Plain)
      BY <2>7, ConcatProperties
    <3> DEFINE v == w \o z
    <3>2. v \o r \in Seq(Plain)
      <4>1. v \in Seq(Plain)
        BY <3>1
      <4> HIDE DEF v
      <4> QED BY <2>9, <4>1, ConcatProperties
    <3> DEFINE u == v \o r
    <3>3. y = C \o u /\ u \in Seq(Plain)
      BY <3>2
    <3>4. C \o u \in Seq(Plain)
      <4>1. u \in Seq(Plain)
        BY <3>2
      <4> HIDE DEF u
      <4> QED BY <2>4, <4>1, ConcatProperties
    <3>5. y \in Seq(Plain)
      BY <3>3, <3>4
    <3>6. total = x \o (<<>> \o y)
      BY <2>11
    <3> HIDE DEF y
    <3>7. <<>> \o y = y
      BY <3>5, ConcatEmptySeq
    <3>8. total = x \o y
      BY <3>6, <3>7
    <3> QED BY <3>8 DEF y
  <2>13. x \o (C \o ((w \o z) \o r)) = (x \o (C \o w)) \o (z \o r)
    <3>1. C \in Seq(Plain) /\ w \in Seq(Plain) /\ z \in Seq(Plain)
      BY <2>4, <2>7
    <3>2. x \in Seq(Plain)
      OBVIOUS
    <3>3. Regroups(x, C, w, z, r)
      BY <2>9, <3>1, <3>2, Regroup
    <3> QED BY <3>3, Zenon DEF Regroups
  <2>14. total = (x \o piece[n + 1]) \o (Between(b, t, f) \o r)
    BY <2>8, <2>12, <2>13 DEF z
  <2>15. n + 1 + 1 = n + 2
    BY <1>1
  <2> QED BY <2>1, <2>2, <2>3, <2>14, <2>15 DEF UpTo, f, r
<1> QED BY <1>6, <1>7

AddsUp(b, piece, upto) ==
  /\ upto[0] = <<>>
  /\ \A k \in 1..(Len(Nodes(b)) + 1) : upto[k] = upto[k - 1] \o piece[k]

LEMMA PiecesAdd ==
  ASSUME NEW b \in Seq(Plain), NEW m \in Nat, NEW ps, InOrder(b, m, ps), NEW nd,
         PerNode(b, m, ps, nd), NEW piece, Pieces(b, m, ps, nd, piece), NEW upto,
         AddsUp(b, piece, upto)
  PROVE  Content(Applied(b, ps)) = upto[Len(Nodes(b)) + 1]
<1>1. PICK g : Turning(b, m, ps, g) /\ Applied(b, ps) = g[m]
  BY TurningIs
<1> DEFINE c == Len(Nodes(b)) + 1
           total == Content(g[m])
           Good == {n \in 0..c : upto[n] \in Seq(Plain) /\ UpTo(b, m, ps, nd, g, total, upto[n], n)}
<1>2. c \in Nat /\ c \in 0..c /\ Len(Nodes(b)) = c - 1
  BY NodesAre
<1> HIDE DEF total
<1>3. 0 \in Good
  <2>1. <<>> \in Seq(Plain)
    BY EmptySeq
  <2>2. UpTo(b, m, ps, nd, g, total, <<>>, 0)
    BY <1>1, FirstUpTo DEF total
  <2>3. 0 \in 0..c
    BY <1>2
  <2> QED BY <2>1, <2>2, <2>3 DEF AddsUp
<1>4. ASSUME NEW k \in 1..c, k - 1 \in Good PROVE k \in Good
  <2> DEFINE n == k - 1
             x == upto[n]
  <2>1. n \in 0..Len(Nodes(b)) /\ n + 1 = k /\ k \in 0..c
    BY <1>2
  <2>2. x \in Seq(Plain) /\ UpTo(b, m, ps, nd, g, total, x, n)
    BY <1>4
  <2>3. upto[k] = x \o piece[k] /\ piece[k] \in Seq(Plain)
    BY DEF Pieces, IsPiece, AddsUp
  <2> HIDE DEF n, x
  <2>4. UpTo(b, m, ps, nd, g, total, x \o piece[n + 1], n + 1)
    BY <1>1, <2>1, <2>2, NextUpTo
  <2>5. UpTo(b, m, ps, nd, g, total, upto[k], k)
    BY <2>1, <2>3, <2>4
  <2>6. upto[k] \in Seq(Plain)
    BY <2>2, <2>3, ConcatProperties
  <2> QED BY <2>1, <2>5, <2>6
<1>5. c \in Good
  <2> HIDE DEF Good, c
  <2> QED BY <1>2, <1>3, <1>4, StepByStep
<1>6. PICK k \in 0..m :
        /\ Left(m, nd, c, k) /\ Pos(b, c + 1) <= From(b, m, ps, k)
        /\ total = upto[c] \o (Between(b, Pos(b, c + 1), From(b, m, ps, k)) \o Rest(b, m, ps, g, k))
  BY <1>5 DEF UpTo
<1>7. k = 0
  <2>1. SUFFICES ASSUME k # 0 PROVE FALSE
    OBVIOUS
  <2>2. m \in 1..m /\ m > m - k
    BY <2>1
  <2>3. nd[m] > c /\ nd[m] \in 1..c
    BY <1>6, <2>2 DEF PerNode, Climbs, Left
  <2> DEFINE v == nd[m]
  <2>4. v > c /\ v \in 1..c
    BY <2>3
  <2> HIDE DEF v, c
  <2> QED BY <1>2, <2>4
<1>8. total = upto[c]
  <2> DEFINE q == Pos(b, c + 1)
             lb == Len(b)
  <2>1. From(b, m, ps, k) = lb /\ Rest(b, m, ps, g, k) = <<>>
    BY <1>1, <1>7, RestsAre DEF From
  <2>2. q = lb /\ lb \in Nat
    <3>1. c + 1 > Len(Nodes(b))
      BY <1>2
    <3> QED BY <3>1, LenProperties DEF Pos
  <2>3. Between(b, q, lb) = <<>>
    <3>1. q \in 0..lb /\ lb \in q..lb
      <4> HIDE DEF q, lb
      <4> QED BY <2>2
    <3> QED BY <2>2, <3>1, BetweenIs
  <2>4. total = upto[c] \o (<<>> \o <<>>)
    BY <1>6, <2>1, <2>3
  <2>5. upto[c] \in Seq(Plain)
    BY <1>5
  <2>6. <<>> \o <<>> = <<>>
    OBVIOUS
  <2> DEFINE x == upto[c]
  <2>7. total = x \o <<>> /\ x \in Seq(Plain)
    BY <2>4, <2>5, <2>6
  <2> HIDE DEF x
  <2>8. x \o <<>> = x
    BY <2>7, ConcatEmptySeq
  <2> QED BY <2>7, <2>8 DEF x
<1> QED BY <1>1, <1>8 DEF total

\* Where an edit puts its lines, and what that shows.
SpotIs(b, e, p, n) ==
  /\ n \in 1..(Len(Nodes(b)) + 1) /\ IsPatch(b, p)
  /\ p.start = Pos(b, n) /\ p.end \in p.start..Pos(b, n + 1)
  /\ e.type = "insert" => p.end = p.start /\ Content(p.with) = Content(e.lines)
  /\ e.type # "insert" => p.with = Instead(b, e) /\ Between(b, p.end, Pos(b, n + 1)) = <<>>

LEMMA BlankShowsNothing ==
  ASSUME NEW w \in Seq(Plain)
  PROVE  Content(Append(w, Blank)) = Content(w) /\ Content(<<Blank>> \o w) = Content(w)
<1> DEFINE z == <<Blank>>
<1>1. z \in Seq(Plain) /\ Len(z) = 1 /\ z[1] = Blank
  BY BlankIs
<1> HIDE DEF z
<1>2. Content(z) = <<>>
  <2>1. \A k \in 1..Len(z) : z[k] = Blank
    BY <1>1
  <2> QED BY <1>1, <2>1, ContentIsPlain
<1>3. Content(w \o z) = Content(w) \o <<>> /\ Content(z \o w) = <<>> \o Content(w)
  BY <1>1, <1>2, ContentAdds
<1> DEFINE c == Content(w)
<1>4. c \in Seq(Plain)
  BY ContentIsPlain
<1>5. Append(w, Blank) = w \o z
  BY BlankIs, AppendIsConcat DEF z
<1>6. c \o <<>> = c /\ <<>> \o c = c
  <2> HIDE DEF c
  <2> QED BY <1>4, ConcatEmptySeq
<1>7. Content(w \o z) = Content(w) /\ Content(z \o w) = Content(w)
  BY <1>3, <1>6
<1> QED BY <1>5, <1>7 DEF z

LEMMA InsertSpot ==
  ASSUME NEW b \in Seq(Plain), NEW e, IsEdit(e), e.type = "insert", Applies(b, e)
  PROVE  SpotIs(b, e, PatchOf(b, e), At(b, e)) /\ At(b, e) = e.at
<1> DEFINE p == PatchOf(b, e)
           n == e.at
           c == Len(Nodes(b))
           lb == Len(b)
           z == Blank
<1>1. /\ IsPatch(b, p) /\ p.end = p.start /\ e.lines \in Seq(Plain)
      /\ lb \in Nat /\ c \in Nat
  BY InsertIs, NodesAre, LenProperties DEF IsEdit
<1>2. At(b, e) = n /\ n \in 1..(c + 1)
  BY DEF At, Applies
<1>3. p = InsertLines(b, e)
  BY DEF PatchOf
<1>4. p.start = Pos(b, n) /\ Content(p.with) = Content(e.lines)
  <2>1. CASE n <= c
    <3> DEFINE start == NodeRange(b, n).start
    <3>1. p = Patch([start |-> start, end |-> start], Append(e.lines, z))
      BY <1>3, <2>1 DEF InsertLines
    <3>2. p.start = start /\ p.with = Append(e.lines, z)
      BY <3>1 DEF Patch
    <3>3. start = Nodes(b)[n][1] - 1
      BY DEF NodeRange
    <3>4. Pos(b, n) = Nodes(b)[n][1] - 1
      BY <2>1 DEF Pos
    <3> HIDE DEF p, start
    <3> QED BY <1>1, <3>2, <3>3, <3>4, BlankShowsNothing
  <2>2. CASE ~(n <= c)
    <3>1. p = Patch([start |-> lb, end |-> lb], (IF Last(b) = z THEN <<>> ELSE <<z>>) \o e.lines)
      BY <1>3, <2>2 DEF InsertLines
    <3>2. p.start = lb /\ p.with = (IF Last(b) = z THEN <<>> ELSE <<z>>) \o e.lines
      <4> DEFINE w == (IF Last(b) = z THEN <<>> ELSE <<z>>) \o e.lines
      <4>1. p = Patch([start |-> lb, end |-> lb], w)
        BY <3>1
      <4> HIDE DEF p, w
      <4>2. p.start = lb /\ p.with = w
        BY <4>1 DEF Patch
      <4> QED BY <4>2 DEF w
    <3>3. Pos(b, n) = lb
      BY <2>2 DEF Pos
    <3>4. <<>> \o e.lines = e.lines
      BY <1>1, ConcatEmptySeq
    <3>5. p.with = e.lines \/ p.with = <<z>> \o e.lines
      <4> HIDE DEF p
      <4> QED BY <3>2, <3>4
    <3>6. Content(<<z>> \o e.lines) = Content(e.lines)
      BY <1>1, BlankShowsNothing
    <3> HIDE DEF p
    <3> QED BY <3>2, <3>3, <3>5, <3>6
  <2> QED BY <2>1, <2>2
<1>5. p.end \in p.start..Pos(b, n + 1)
  <2> DEFINE q == Pos(b, n)
             t == Pos(b, n + 1)
             s == p.start
             f == p.end
  <2>1. q \in 0..lb /\ t \in q..lb /\ s = q /\ f = s
    BY <1>1, <1>2, <1>4, PosIs
  <2> HIDE DEF q, t, s, f
  <2>2. f \in s..t
    BY <1>1, <2>1
  <2> QED BY <2>2 DEF s, f, t
<1> QED BY <1>1, <1>2, <1>4, <1>5 DEF SpotIs

LEMMA ChangeSpot ==
  ASSUME NEW b \in Seq(Plain), NEW e, IsEdit(e), e.type \in InBody \ {"insert"}, Applies(b, e)
  PROVE  SpotIs(b, e, PatchOf(b, e), At(b, e)) /\ At(b, e) \in 1..Len(Nodes(b))
<1> DEFINE p == PatchOf(b, e)
           n == At(b, e)
           c == Len(Nodes(b))
           lb == Len(b)
           r1 == Nodes(b)[n][1]
           r2 == Nodes(b)[n][2]
           q == Pos(b, n)
           t == Pos(b, n + 1)
           s == p.start
           f == p.end
<1>1. /\ s = r1 - 1 /\ f = (IF b[r2] = Blank THEN r2 - 1 ELSE r2)
      /\ p.with = Instead(b, e) /\ IsPatch(b, p)
  BY PatchIs
<1>2. n \in 1..c /\ c \in Nat /\ lb \in Nat
  BY AboutIs, NodesAre, LenProperties
<1>3. n \in 1..(Len(Nodes(b)) + 1) /\ n <= Len(Nodes(b))
  <2> HIDE DEF n
  <2> QED BY <1>2
<1>4. /\ q \in 0..lb /\ t \in q..lb /\ q = r1 - 1 /\ r2 \in q..t
      /\ \A i \in (r2 + 1)..t : b[i] = Blank
  BY <1>3, PosIs
<1>5. r1 \in 1..lb /\ r2 \in r1..lb
  BY <1>2, NodesAre, NodeIs
<1> HIDE DEF r1, r2, q, t, s, f, lb
<1>6. f \in s..t /\ s = q /\ f \in 0..lb /\ t \in f..lb
  BY <1>1, <1>2, <1>4, <1>5
<1>7. \A i \in (f + 1)..t : b[i] = Blank
  <2>1. CASE b[r2] = Blank
    <3>1. f + 1 = r2
      BY <1>1, <1>5, <1>2, <2>1
    <3>2. \A i \in (f + 1)..t : i = r2 \/ i \in (r2 + 1)..t
      BY <1>2, <1>4, <1>5, <3>1
    <3> QED BY <1>4, <2>1, <3>2
  <2>2. CASE b[r2] # Blank
    BY <1>1, <1>4, <2>2
  <2> QED BY <2>1, <2>2
<1>8. Between(b, f, t) = <<>>
  BY <1>6, <1>7, BetweenIs DEF lb
<1>9. e.type # "insert"
  OBVIOUS
<1> HIDE DEF n, p
<1>10. p.start = Pos(b, n) /\ p.end \in p.start..Pos(b, n + 1)
       /\ Between(b, p.end, Pos(b, n + 1)) = <<>>
  BY <1>6, <1>8 DEF q, t, s, f
<1>11. SpotIs(b, e, p, n)
  BY <1>1, <1>3, <1>9, <1>10 DEF SpotIs
<1>12. n \in 1..Len(Nodes(b))
  BY <1>2
<1> QED BY <1>11, <1>12 DEF p, n

\* What a node shows, and what comes after all nodes shows nothing.
LEMMA NodeShows ==
  ASSUME NEW b \in Seq(Plain), NEW n \in 1..(Len(Nodes(b)) + 1), NEW es, Changing(b, es, n) = {}
  PROVE  Content(Changed(b, es, n)) = Between(b, Pos(b, n), Pos(b, n + 1))
<1> DEFINE c == Len(Nodes(b))
           lb == Len(b)
           q == Pos(b, n)
           t == Pos(b, n + 1)
<1>1. c \in Nat /\ DOMAIN Nodes(b) = 1..c /\ lb \in Nat /\ n \in 1..(c + 1)
  BY NodesAre, LenProperties
<1>2. q \in 0..lb /\ t \in q..lb
  BY PosIs
<1>3. CASE n <= c
  <2> DEFINE r1 == Nodes(b)[n][1]
             r2 == Nodes(b)[n][2]
  <2>1. n \in DOMAIN Nodes(b)
    <3>1. n \in 1..c
      <4> HIDE DEF c
      <4> QED BY <1>1, <1>3
    <3> QED BY <1>1, <3>1
  <2>2. Changed(b, es, n) = SubSeq(b, r1, r2)
    BY <2>1 DEF Changed
  <2>3. q = r1 - 1 /\ r2 \in q..t /\ \A i \in (r2 + 1)..t : b[i] = Blank
    BY <1>3, PosIs
  <2>4. r1 \in 1..lb
    BY <1>1, <2>1, NodesAre, NodeIs
  <2> DEFINE w == Between(b, q, r2)
  <2>5. Content(Changed(b, es, n)) = w
    <3>1. q + 1 = r1
      <4> HIDE DEF r1, q, lb
      <4> QED BY <1>1, <2>3, <2>4
    <3> QED BY <2>2, <3>1 DEF Between
  <2>6. q \in 0..lb /\ r2 \in q..lb /\ t \in r2..lb /\ r2 \in 0..lb
    <3> HIDE DEF q, r2, t, lb
    <3> QED BY <1>1, <1>2, <2>3
  <2>7. Between(b, q, t) = w \o Between(b, r2, t) /\ w \in Seq(Plain)
    BY <2>6, BetweenAdds, BetweenIs
  <2>8. Between(b, r2, t) = <<>>
    BY <2>3, <2>6, BetweenIs
  <2> HIDE DEF w, q, t, r2
  <2>9. w \o <<>> = w
    BY <2>7, ConcatEmptySeq
  <2> QED BY <2>5, <2>7, <2>8, <2>9 DEF q, t
<1>4. CASE ~(n <= c)
  <2>1. n \notin DOMAIN Nodes(b)
    <3>1. n \notin 1..c
      BY <1>4
    <3> QED BY <1>1, <3>1
  <2>2. Changed(b, es, n) = <<>>
    BY <2>1 DEF Changed
  <2>3. q = lb /\ t = lb
    <3>1. n > Len(Nodes(b))
      <4> HIDE DEF c
      <4> QED BY <1>1, <1>4 DEF c
    <3> QED BY <3>1, PosIs
  <2>4. Between(b, q, t) = <<>>
    BY <1>2, <2>3, BetweenIs
  <2>5. Content(<<>>) = <<>>
    BY ContentIsPlain, EmptySeq
  <2> QED BY <2>2, <2>4, <2>5
<1> QED BY <1>3, <1>4

\* The edits of a request that is not refused, in the order of the nodes they are about.
Asked(b, n, es) ==
  /\ DOMAIN es = 1..n
  /\ \A k \in 1..n : IsEdit(es[k]) /\ (es[k].type \in InBody => Applies(b, es[k]))

Goes(b, n, es, m, f, ps, nd) ==
  /\ Lists(b, n, es, m, f) /\ Len(ps) = m
  /\ \A j \in 1..m : ps[j] = PatchOf(b, es[f[j]]) /\ nd[j] = At(b, es[f[j]])
  /\ \A j \in 1..(m - 1) : ~Overlap(ps[j], ps[j + 1])

LEMMA SpotsAre ==
  ASSUME NEW b \in Seq(Plain), NEW n \in Nat, NEW es, Asked(b, n, es), NEW m \in Nat, NEW f,
         NEW ps, NEW nd, Goes(b, n, es, m, f, ps, nd), NEW j \in 1..m
  PROVE  LET e == es[f[j]]
         IN /\ f[j] \in 1..n /\ IsEdit(e) /\ e.type \in InBody /\ Applies(b, e)
            /\ SpotIs(b, e, ps[j], nd[j]) /\ nd[j] = At(b, e) /\ ps[j] = PatchOf(b, e)
            /\ e.type = "insert" => nd[j] = e.at
            /\ e.type # "insert" => nd[j] \in 1..Len(Nodes(b))
<1> DEFINE e == es[f[j]]
<1>1. f[j] \in 1..n /\ e.type \in InBody /\ ps[j] = PatchOf(b, e) /\ nd[j] = At(b, e)
  BY DEF Goes, Lists
<1>2. IsEdit(e) /\ Applies(b, e)
  BY <1>1 DEF Asked
<1> HIDE DEF e
<1>3. CASE e.type = "insert"
  BY <1>1, <1>2, <1>3, InsertSpot DEF e
<1>4. CASE e.type # "insert"
  BY <1>1, <1>2, <1>4, ChangeSpot DEF e
<1> QED BY <1>3, <1>4

LEMMA PatchesClimb ==
  ASSUME NEW b \in Seq(Plain), NEW n \in Nat, NEW es, Asked(b, n, es), NEW m \in Nat, NEW f,
         NEW ps, NEW nd, Goes(b, n, es, m, f, ps, nd)
  PROVE  InOrder(b, m, ps) /\ PerNode(b, m, ps, nd)
<1> DEFINE c == Len(Nodes(b)) + 1
           lb == Len(b)
<1>1. c \in Nat /\ lb \in Nat
  BY NodesAre, LenProperties
<1>2. \A j \in 1..m : /\ nd[j] \in 1..c /\ IsPatch(b, ps[j]) /\ ps[j].start = Pos(b, nd[j])
                      /\ ps[j].end \in ps[j].start..Pos(b, nd[j] + 1)
  BY SpotsAre DEF SpotIs
<1>3. \A j \in 1..m : /\ ps[j].start \in 0..lb /\ ps[j].end \in ps[j].start..lb
                      /\ ps[j].with \in Seq(Plain)
  BY <1>2 DEF IsPatch
<1>4. ASSUME NEW j \in 1..m PROVE ps[j].end <= Pos(b, nd[j] + 1)
  <2> DEFINE s == ps[j].start
             e == ps[j].end
             t == Pos(b, nd[j] + 1)
  <2>1. s \in 0..lb /\ e \in s..lb /\ e \in s..t
    BY <1>2, <1>3
  <2>2. t \in 0..lb
    <3> DEFINE k == nd[j]
    <3>1. k \in 1..(Len(Nodes(b)) + 1)
      BY <1>2
    <3> HIDE DEF k
    <3>2. Pos(b, k) \in 0..lb /\ Pos(b, k + 1) \in Pos(b, k)..lb
      BY <3>1, PosIs
    <3> DEFINE q == Pos(b, k)
               u == Pos(b, k + 1)
    <3>3. u \in 0..lb
      <4>1. q \in 0..lb /\ u \in q..lb
        BY <3>2
      <4> HIDE DEF q, u, lb
      <4> QED BY <1>1, <4>1
    <3> QED BY <3>3 DEF k
  <2> HIDE DEF s, e, t, lb
  <2>3. e <= t
    BY <1>1, <2>1, <2>2
  <2> QED BY <2>3 DEF e, t
<1>5. ASSUME NEW j \in 1..(m - 1) PROVE ps[j].end <= ps[j + 1].start /\ nd[j] < nd[j + 1]
  <2> DEFINE p == ps[j]
             q == ps[j + 1]
             s == p.start
             e == p.end
             v == q.start
             w == q.end
             x == nd[j]
             y == nd[j + 1]
  <2>1. j \in 1..m /\ j + 1 \in 1..m
    OBVIOUS
  <2>2. /\ s \in 0..lb /\ e \in s..lb /\ v \in 0..lb /\ w \in v..lb /\ x \in 1..c /\ y \in 1..c
        /\ s = Pos(b, x) /\ v = Pos(b, y)
    BY <1>2, <1>3, <2>1
  <2>3. s < v \/ (s = v /\ e <= w)
    <3>1. Before(p, q)
      BY <2>1 DEF Goes, Lists
    <3> QED BY <3>1 DEF Before
  <2>4. ~(v < e) /\ (v = s => v # w /\ s # e)
    <3>1. ~Overlap(p, q)
      BY DEF Goes
    <3> QED BY <3>1 DEF Overlap
  <2> HIDE DEF p, q, s, e, v, w, lb
  <2>5. e <= v /\ s < v
    BY <1>1, <2>2, <2>3, <2>4
  <2>6. x < y
    <3> SUFFICES ASSUME ~(x < y) PROVE FALSE
      OBVIOUS
    <3> HIDE DEF x, y
    <3>1. y \in 1..(Len(Nodes(b)) + 2) /\ x \in y..(Len(Nodes(b)) + 2)
      <4> DEFINE d == Len(Nodes(b))
      <4>1. d \in Nat /\ x \in 1..(d + 1) /\ y \in 1..(d + 1) /\ ~(x < y)
        BY <2>2, NodesAre DEF x, y
      <4> HIDE DEF d
      <4>2. y \in 1..(d + 2) /\ x \in y..(d + 2)
        BY <4>1
      <4> QED BY <4>2 DEF d
    <3>2. Pos(b, y) <= Pos(b, x)
      BY <3>1, PosMono
    <3>3. v <= s
      BY <2>2, <3>2
    <3> QED BY <1>1, <2>2, <2>5, <3>3
  <2> QED BY <2>5, <2>6 DEF p, q, e, v
<1>6. InOrder(b, m, ps)
  <2>1. Len(ps) = m
    BY DEF Goes
  <2> QED BY <1>3, <1>5, <2>1 DEF InOrder
<1>7. Climbs(m, nd, Len(Nodes(b)) + 1)
  BY <1>2, <1>5 DEF Climbs
<1> QED BY <1>2, <1>4, <1>6, <1>7 DEF PerNode

\* So no two edits are about the same.
LEMMA OneEach ==
  ASSUME NEW m \in Nat, NEW nd, NEW c \in Nat, Climbs(m, nd, c), NEW i \in 1..m, NEW j \in i..m
  PROVE  j \in 1..m /\ nd[i] <= nd[j] /\ (nd[i] = nd[j] => i = j)
<1>1. /\ \A k \in 1..m : nd[k] \in 1..c
      /\ \A k \in 1..(m - 1) : nd[k] < nd[k + 1]
  BY DEF Climbs
<1> DEFINE Good == {k \in 0..(m - i) : nd[i] + k <= nd[i + k]}
<1>2. 0 \in Good
  <2>1. i + 0 = i /\ nd[i] \in 1..c /\ 0 \in 0..(m - i)
    BY <1>1
  <2> DEFINE v == nd[i]
  <2>2. v \in 1..c
    BY <2>1
  <2> HIDE DEF v
  <2>3. v + 0 <= v
    BY <2>2
  <2> QED BY <2>1, <2>3 DEF v
<1>3. ASSUME NEW k \in 1..(m - i), k - 1 \in Good PROVE k \in Good
  <2> DEFINE l == i + (k - 1)
             v == nd[i]
             x == nd[l]
             y == nd[l + 1]
  <2>1. l \in 1..(m - 1) /\ l \in 1..m /\ l + 1 \in 1..m /\ l + 1 = i + k /\ k \in 0..(m - i)
    OBVIOUS
  <2> HIDE DEF l
  <2>2. x < y /\ x \in 1..c /\ y \in 1..c /\ v \in 1..c
    BY <1>1, <2>1
  <2>3. v + (k - 1) <= x
    BY <1>3 DEF l
  <2> HIDE DEF v, x, y
  <2>4. v + k <= y
    BY <2>2, <2>3
  <2> QED BY <2>1, <2>4 DEF v, y
<1>4. \A k \in 0..(m - i) : k \in Good
  <2>1. m - i \in Nat
    OBVIOUS
  <2> HIDE DEF Good
  <2> QED BY <1>2, <1>3, <2>1, StepByStep
<1>5. j - i \in Good /\ i + (j - i) = j
  <2>1. j - i \in 0..(m - i) /\ i + (j - i) = j
    OBVIOUS
  <2> HIDE DEF Good
  <2> QED BY <1>4, <2>1
<1> DEFINE v == nd[i]
           w == nd[j]
<1>6. v + (j - i) <= w /\ v \in 1..c
  BY <1>1, <1>5
<1>7. w \in 1..c
  <2>1. j \in 1..m
    OBVIOUS
  <2> QED BY <1>1, <2>1
<1> HIDE DEF v, w
<1>8. v <= w /\ (v = w => i = j)
  BY <1>6, <1>7
<1> QED BY <1>8 DEF v, w

\* At most one edit changes a node or puts something before it, and its piece is what
\* that edit makes of it.
LEMMA NodeIsMeant ==
  ASSUME NEW b \in Seq(Plain), NEW n \in Nat, NEW es, Asked(b, n, es), NEW m \in Nat, NEW f,
         NEW ps, NEW nd, Goes(b, n, es, m, f, ps, nd), NEW k \in 1..(Len(Nodes(b)) + 1)
  PROVE  /\ \A i, j \in Changing(b, es, k) : i = j
         /\ \A i, j \in Adding(es, k) : i = j
         /\ IsPiece(b, m, ps, nd, k, Content(Added(es, k)) \o Content(Changed(b, es, k)))
<1> DEFINE C == Changing(b, es, k)
           A == Adding(es, k)
           plain == Between(b, Pos(b, k), Pos(b, k + 1))
           added == Content(Added(es, k))
           changed == Content(Changed(b, es, k))
<1>1. DOMAIN es = 1..n /\ "insert" \in InBody
  BY DEF Asked, InBody
<1>2. ASSUME NEW i \in C \cup A
      PROVE  /\ i \in 1..n /\ es[i].type \in InBody /\ At(b, es[i]) = k
             /\ i \in C <=> es[i].type # "insert"
             /\ i \in A <=> es[i].type = "insert"
  BY <1>1 DEF Changing, Adding, At
<1>3. ASSUME NEW i \in C \cup A PROVE \E j \in 1..m : f[j] = i /\ nd[j] = k
  <2>1. PICK j \in 1..m : f[j] = i
    BY <1>2 DEF Goes, Lists
  <2>2. nd[j] = At(b, es[f[j]])
    BY DEF Goes
  <2> QED BY <1>2, <2>1, <2>2
<1>4. ASSUME NEW i \in 1..m, NEW j \in 1..m, nd[i] = nd[j] PROVE i = j
  <2>1. Climbs(m, nd, Len(Nodes(b)) + 1) /\ Len(Nodes(b)) + 1 \in Nat
    BY PatchesClimb, NodesAre DEF PerNode
  <2>2. CASE j \in i..m
    BY <1>4, <2>1, <2>2, OneEach
  <2>3. CASE i \in j..m
    BY <1>4, <2>1, <2>3, OneEach
  <2> QED BY <2>2, <2>3
<1>5. \A i, j \in C \cup A : i = j
  <2> TAKE i, j \in C \cup A
  <2>1. PICK x \in 1..m : f[x] = i /\ nd[x] = k
    BY <1>3
  <2>2. PICK y \in 1..m : f[y] = j /\ nd[y] = k
    BY <1>3
  <2> QED BY <1>4, <2>1, <2>2
<1>6. /\ Between(b, Pos(b, k), Pos(b, k + 1)) \in Seq(Plain)
      /\ Pos(b, k) \in 0..Len(b) /\ Pos(b, k + 1) \in Pos(b, k)..Len(b)
  BY PosIs, BetweenIs
<1>7. Content(<<>>) = <<>> /\ <<>> \in Seq(Plain)
  BY ContentIsPlain, EmptySeq
<1>8. C = {} => changed = plain
  BY NodeShows
<1>9. A = {} => added = <<>>
  BY <1>7 DEF Added
<1>10. plain \in Seq(Plain) /\ <<>> \o plain = plain
  <2>1. plain \in Seq(Plain)
    BY <1>6
  <2> HIDE DEF plain
  <2> QED BY <2>1, ConcatEmptySeq
<1>11. ASSUME \A j \in 1..m : nd[j] # k
       PROVE  added \in Seq(Plain) /\ changed \in Seq(Plain) /\ added \o changed = plain
  <2>1. C \cup A = {}
    BY <1>3, <1>11
  <2>2. changed = plain /\ added = <<>>
    BY <1>8, <1>9, <2>1
  <2> HIDE DEF changed, added, plain, C, A
  <2> QED BY <1>7, <1>10, <2>2
<1>12. ASSUME NEW j \in 1..m, nd[j] = k
       PROVE  /\ added \in Seq(Plain) /\ changed \in Seq(Plain)
              /\ added \o changed = Content(ps[j].with) \o Between(b, ps[j].end, Pos(b, k + 1))
  <2> DEFINE i == f[j]
             e == es[i]
             p == ps[j]
             w == Content(p.with)
             r == Between(b, p.end, Pos(b, k + 1))
  <2>1. /\ i \in 1..n /\ IsEdit(e) /\ e.type \in InBody /\ Applies(b, e)
        /\ SpotIs(b, e, p, k) /\ At(b, e) = k
        /\ e.type = "insert" => k = e.at
    <3>1. /\ i \in 1..n /\ IsEdit(e) /\ e.type \in InBody /\ Applies(b, e)
          /\ SpotIs(b, e, p, nd[j]) /\ nd[j] = At(b, e)
      BY SpotsAre
    <3>2. e.type = "insert" => nd[j] = e.at
      BY SpotsAre
    <3> HIDE DEF i, p
    <3> QED BY <1>12, <3>1, <3>2
  <2>2. w \in Seq(Plain)
    BY <2>1, ContentIsPlain DEF SpotIs, IsPatch
  <2> HIDE DEF i
  <2>3. CASE e.type = "insert"
    <3>1. i \in A
      BY <1>1, <2>1, <2>3 DEF Adding
    <3>2. A = {i} /\ C = {}
      <4>1. i \notin C
        BY <1>2, <2>3, <3>1
      <4> HIDE DEF A, C
      <4> QED BY <1>5, <3>1, <4>1
    <3>3. Added(es, k) = e.lines
      <4>1. (CHOOSE x \in A : TRUE) = i
        <5> HIDE DEF A
        <5> QED BY <3>2
      <4>2. A # {}
        BY <3>2
      <4> QED BY <4>1, <4>2 DEF Added
    <3>4. added = w
      BY <2>1, <2>3, <3>3 DEF SpotIs
    <3>5. changed = plain /\ r = plain
      <4>1. p.end = Pos(b, k)
        BY <2>1, <2>3 DEF SpotIs
      <4> QED BY <1>8, <3>2, <4>1
    <3> HIDE DEF added, changed, plain, w, r, A, C
    <3>6. added \in Seq(Plain) /\ changed \in Seq(Plain) /\ added \o changed = w \o r
      BY <1>10, <2>2, <3>4, <3>5
    <3> QED BY <3>6 DEF w, r
  <2>4. CASE e.type # "insert"
    <3>1. i \in C
      BY <1>1, <2>1, <2>4 DEF Changing
    <3>2. C = {i} /\ A = {}
      <4>1. i \notin A
        BY <1>2, <2>4, <3>1
      <4> HIDE DEF A, C
      <4> QED BY <1>5, <3>1, <4>1
    <3>3. Changed(b, es, k) = Instead(b, e)
      <4>1. (CHOOSE x \in C : TRUE) = i
        <5> HIDE DEF C
        <5> QED BY <3>2
      <4>2. C # {}
        BY <3>2
      <4> QED BY <4>1, <4>2 DEF Changed
    <3>4. changed = w /\ r = <<>>
      BY <2>1, <2>4, <3>3 DEF SpotIs
    <3>5. added = <<>>
      BY <1>9, <3>2
    <3> HIDE DEF added, changed, w, r, A, C
    <3>6. <<>> \o w = w /\ w \o <<>> = w
      BY <2>2, ConcatEmptySeq
    <3>7. added \in Seq(Plain) /\ changed \in Seq(Plain) /\ added \o changed = w \o r
      BY <1>7, <2>2, <3>4, <3>5, <3>6
    <3> QED BY <3>7 DEF w, r
  <2> QED BY <2>3, <2>4
<1>13. added \in Seq(Plain) /\ changed \in Seq(Plain)
  BY <1>11, <1>12
<1>14. added \o changed \in Seq(Plain)
  <2> HIDE DEF added, changed
  <2> QED BY <1>13, ConcatProperties
<1>15. IsPiece(b, m, ps, nd, k, added \o changed)
  <2> HIDE DEF added, changed
  <2> QED BY <1>11, <1>12, <1>14, Zenon DEF IsPiece
<1> QED BY <1>5, <1>15

\* What a request means is made of those pieces.
MeansPieces(b, es, piece) ==
  \A k \in 1..(Len(Nodes(b)) + 1) :
    /\ piece[k] = Content(Added(es, k)) \o Content(Changed(b, es, k))
    /\ piece[k] \in Seq(Plain)

LEMMA MeantIs ==
  ASSUME NEW b \in Seq(Plain), NEW es, NEW piece, MeansPieces(b, es, piece)
  PROVE  \E upto : AddsUp(b, piece, upto) /\ Meant(b, es) = upto[Len(Nodes(b)) + 1]
<1> DEFINE n == Len(Nodes(b)) + 1
           S == Seq(Plain)
           next(x, k) == x \o piece[k]
           step == [x \in S \X (1..n) |-> next(x[1], x[2])]
           Sets(f) == f = [k \in 0..n |->
                             IF k = 0 THEN <<>>
                             ELSE f[k - 1] \o (Content(Added(es, k)) \o Content(Changed(b, es, k)))]
           upto == CHOOSE f : Sets(f)
<1>1. Meant(b, es) = upto[n]
  BY Zenon DEF Meant
<1>2. n \in Nat
  BY NodesAre
<1>3. \A k \in 1..n : /\ piece[k] \in S
                      /\ piece[k] = Content(Added(es, k)) \o Content(Changed(b, es, k))
  BY DEF MeansPieces
<1> HIDE DEF n
<1>4. ASSUME NEW x \in S, NEW k \in 1..n PROVE next(x, k) \in S
  BY <1>3, ConcatProperties
<1>5. step \in [S \X (1..n) -> S]
  <2> HIDE DEF next, S
  <2> QED BY <1>4
<1>6. PICK g \in [0..n -> S] : Rounds(g, n, <<>>, step)
  <2>1. <<>> \in S
    BY EmptySeq
  <2> HIDE DEF step, S
  <2> QED BY <1>2, <1>5, <2>1, RoundsExist
<1>7. g[0] = <<>> /\ \A k \in 1..n : g[k - 1] \in S /\ g[k] = next(g[k - 1], k)
  <2>1. g[0] = <<>>
    BY <1>6 DEF Rounds
  <2>2. ASSUME NEW k \in 1..n PROVE g[k - 1] \in S /\ g[k] = next(g[k - 1], k)
    <3>1. k - 1 \in 0..n
      BY <1>2
    <3>2. g[k - 1] \in S
      BY <3>1
    <3>3. g[k] = step[<<g[k - 1], k>>]
      BY <1>6 DEF Rounds
    <3> HIDE DEF next, S
    <3> QED BY <3>2, <3>3
  <2> HIDE DEF next, S
  <2> QED BY <2>1, <2>2
<1> HIDE DEF step
<1>8. Sets(g)
  <2>1. \A k \in 1..n : g[k] = g[k - 1] \o (Content(Added(es, k)) \o Content(Changed(b, es, k)))
    BY <1>3, <1>7, Zenon
  <2>2. \A k \in 0..n : k = 0 \/ k \in 1..n
    BY <1>2
  <2>3. g = [k \in 0..n |-> g[k]]
    OBVIOUS
  <2>4. \A k \in 0..n : g[k] = IF k = 0 THEN <<>>
                               ELSE g[k - 1] \o (Content(Added(es, k)) \o Content(Changed(b, es, k)))
    BY <1>7, <2>1, <2>2, Zenon
  <2> QED BY <2>3, <2>4, Zenon
<1>9. Sets(upto)
  BY <1>8, Zenon
<1> HIDE DEF upto
<1>10. upto[0] = <<>> /\ \A k \in 1..n : upto[k] = upto[k - 1] \o piece[k]
  <2>1. \A k \in 1..n : k \in 0..n /\ k # 0
    BY <1>2
  <2>2. 0 \in 0..n
    BY <1>2
  <2>3. \A k \in 0..n : upto[k] = IF k = 0 THEN <<>>
                               ELSE upto[k - 1] \o (Content(Added(es, k)) \o Content(Changed(b, es, k)))
    BY <1>9, Zenon
  <2> QED BY <1>3, <2>1, <2>2, <2>3, Zenon
<1>11. AddsUp(b, piece, upto)
  BY <1>10 DEF n, AddsUp
<1> QED BY <1>1, <1>11 DEF n

\* What is shown after a request that is not refused is what the request means.
LEMMA RequestsAreMeant ==
  ASSUME NEW b \in Seq(Plain), NEW n \in Nat, NEW es, Asked(b, n, es),
         LET ps == Ordered(b, es) IN \A k \in 1..(Len(ps) - 1) : ~Overlap(ps[k], ps[k + 1])
  PROVE  /\ Content(Applied(b, Ordered(b, es))) = Meant(b, es)
         /\ \A k \in 1..(Len(Nodes(b)) + 1) :
              /\ \A i, j \in Changing(b, es, k) : i = j
              /\ \A i, j \in Adding(es, k) : i = j
<1> DEFINE ps == Ordered(b, es)
           c == Len(Nodes(b)) + 1
<1>1. PICK m \in Nat : \E f : Lists(b, n, es, m, f)
  BY OrderedIs DEF Asked
<1>2. PICK f : Lists(b, n, es, m, f)
  BY <1>1
<1> DEFINE nd == [j \in 1..m |-> At(b, es[f[j]])]
           piece == [k \in 1..c |-> Content(Added(es, k)) \o Content(Changed(b, es, k))]
<1>3. ps = [k \in 1..m |-> PatchOf(b, es[f[k]])]
  BY <1>2 DEF Lists
<1> HIDE DEF ps
<1>4. Len(ps) = m /\ \A j \in 1..m : ps[j] = PatchOf(b, es[f[j]]) /\ nd[j] = At(b, es[f[j]])
  BY <1>3
<1>5. \A j \in 1..(m - 1) : ~Overlap(ps[j], ps[j + 1])
  BY <1>4 DEF ps
<1> HIDE DEF nd
<1>6. Goes(b, n, es, m, f, ps, nd)
  BY <1>2, <1>4, <1>5 DEF Goes
<1>7. InOrder(b, m, ps) /\ PerNode(b, m, ps, nd)
  BY <1>6, PatchesClimb
<1>8. ASSUME NEW k \in 1..c
      PROVE  /\ \A i, j \in Changing(b, es, k) : i = j
             /\ \A i, j \in Adding(es, k) : i = j
             /\ piece[k] = Content(Added(es, k)) \o Content(Changed(b, es, k))
             /\ IsPiece(b, m, ps, nd, k, piece[k]) /\ piece[k] \in Seq(Plain)
  <2> DEFINE x == Content(Added(es, k)) \o Content(Changed(b, es, k))
  <2>1. piece[k] = x
    OBVIOUS
  <2> HIDE DEF piece
  <2>2. IsPiece(b, m, ps, nd, k, x)
    BY <1>6, NodeIsMeant
  <2>3. /\ \A i, j \in Changing(b, es, k) : i = j
        /\ \A i, j \in Adding(es, k) : i = j
    BY <1>6, NodeIsMeant
  <2>4. piece[k] \in Seq(Plain)
    BY <2>1, <2>2 DEF IsPiece
  <2> HIDE DEF x
  <2>5. IsPiece(b, m, ps, nd, k, piece[k])
    BY <2>1, <2>2
  <2> QED BY <2>1, <2>3, <2>4, <2>5 DEF x
<1> HIDE DEF piece
<1>9. Pieces(b, m, ps, nd, piece)
  BY <1>8 DEF Pieces
<1>10. MeansPieces(b, es, piece)
  BY <1>8 DEF MeansPieces
<1>11. PICK upto : AddsUp(b, piece, upto) /\ Meant(b, es) = upto[Len(Nodes(b)) + 1]
  BY <1>10, MeantIs
<1>12. Content(Applied(b, ps)) = upto[Len(Nodes(b)) + 1]
  BY <1>7, <1>9, <1>11, PiecesAdd
<1> QED BY <1>8, <1>11, <1>12 DEF ps

-----------------------------------------------------------------------------
(* Requests                                                                *)

\* What holds of the draft between any two requests.
EditsInv ==
  /\ doc.body \in Seq(Plain) /\ doc.cover \in Covers
  /\ DOMAIN doc.media = Used(doc.body, doc.cover)
  /\ changes \in 0..MaxChanges /\ glued \in BOOLEAN
  /\ glued \/ Apart(doc.body)
  /\ MediaFollow /\ OnlyWhatWasAsked /\ EditsAreExact

LEMMA UsedIs ==
  ASSUME NEW b \in Seq(Plain), NEW c \in Covers
  PROVE  Used(b, c) \subseteq Image
<1>1. ASSUME NEW k \in DOMAIN b PROVE Images(b[k]) \subseteq Image
  <2>1. b[k] \in Plain
    BY LenProperties, ElementOfSeq
  <2>2. b[k].media \in Seq(Image)
    BY <2>1, PlainIs
  <2>3. ASSUME NEW i \in DOMAIN b[k].media PROVE b[k].media[i] \in Image
    BY <2>2, LenProperties, ElementOfSeq
  <2> QED BY <2>3 DEF Images
<1>2. Referenced(b) \subseteq Image
  BY <1>1 DEF Referenced
<1>3. {c} \ {NoCover} \subseteq Image
  BY DEF Covers
<1> QED BY <1>2, <1>3 DEF Used

LEMMA FirstIsFine ==
  ASSUME Setting, EditsInit
  PROVE  EditsInv
<1>1. PICK b \in Bodies : doc = FirstDraft(b, NoCover)
  BY DEF EditsInit
<1>2. doc.body = b /\ doc.cover = NoCover /\ DOMAIN doc.media = Used(b, NoCover)
  BY <1>1 DEF FirstDraft
<1>3. b \in Seq(Lines) /\ DOMAIN b = 1..Len(b) /\ Len(b) \in Nat
  BY LenProperties DEF Setting
<1>4. \A k \in 1..Len(b) :
        /\ b[k] \in Lines /\ (b[k].name = "blank" => b[k] = Blank)
        /\ IsText(b[k]) => b[k].media = <<>> /\ (k = Len(b) \/ b[k + 1] = Blank)
  <2>1. \A k \in DOMAIN b : /\ b[k].name = "blank" => b[k] = Blank
                            /\ IsText(b[k]) => b[k].media = <<>> /\ (k = Len(b) \/ b[k + 1] = Blank)
    BY DEF Setting
  <2>2. \A k \in 1..Len(b) : b[k] \in Lines
    BY <1>3, ElementOfSeq
  <2>3. DOMAIN b = 1..Len(b)
    BY <1>3
  <2> QED BY <2>1, <2>2, <2>3, Zenon
<1>5. b \in Seq(Plain)
  <2>1. \A k \in 1..Len(b) : b[k] \in Plain
    BY <1>4 DEF Plain
  <2> QED BY <1>3, <2>1
<1>6. Apart(b)
  <2> DEFINE l == Len(b)
  <2>1. \A k \in 1..(l - 1) : k \in 1..l /\ k # l
    <3>1. l \in Nat
      BY <1>3
    <3> HIDE DEF l
    <3> QED BY <3>1
  <2> QED BY <1>4, <2>1 DEF Apart
<1>7. before = doc /\ asked = <<>> /\ changes = 0 /\ glued = FALSE
  BY DEF EditsInit
<1>8. MediaFollow
  BY <1>2, <1>7 DEF MediaFollow
<1>9. OnlyWhatWasAsked /\ EditsAreExact
  BY <1>7 DEF OnlyWhatWasAsked, EditsAreExact
<1>10. MaxChanges \in Nat
  BY DEF Setting
<1>11. changes \in 0..MaxChanges /\ glued \in BOOLEAN
  <2>1. changes \in 0..MaxChanges
    BY <1>7, <1>10
  <2>2. glued \in BOOLEAN
    BY <1>7, Zenon
  <2> QED BY <2>1, <2>2
<1>12. /\ doc.body \in Seq(Plain) /\ doc.cover \in Covers /\ Apart(doc.body)
       /\ DOMAIN doc.media = Used(doc.body, doc.cover)
  BY <1>2, <1>5, <1>6 DEF Covers
<1> QED BY <1>8, <1>9, <1>11, <1>12 DEF EditsInv

LEMMA ApplyKeeps ==
  ASSUME Setting, EditsInv, NEW n \in Nat, NEW es \in [1..n -> Compiled(doc)], ApplyEdits(es)
  PROVE  EditsInv'
<1> DEFINE b == doc.body
           ps == Ordered(b, es)
           after == Applied(b, ps)
           cover == Cover(doc.cover, es)
<1>1. b \in Seq(Plain) /\ doc.cover \in Covers /\ (glued \/ Apart(b)) /\ glued \in BOOLEAN
      /\ changes \in 0..MaxChanges
  BY DEF EditsInv
<1>2. /\ Len(es) = n /\ DOMAIN es = 1..n
      /\ \A k \in 1..n : IsEdit(es[k]) /\ (es[k].type \in InBody => Applies(b, es[k]))
  BY Listed
<1>3. /\ changes + n <= MaxChanges /\ changes' = changes + n
      /\ Possible(doc, es, ps, after) /\ doc' = Result(doc, es, after) /\ before' = doc /\ asked' = es
      /\ glued' = (glued \/ \E k \in 1..n : Glues(b, es[k]))
  BY <1>2 DEF ApplyEdits
<1>4. doc'.body = after /\ doc'.cover = cover /\ doc'.media = Media(doc, after, cover, es)
  BY <1>3 DEF Result
<1>5. \A k \in 1..(Len(ps) - 1) : ~Overlap(ps[k], ps[k + 1])
  BY <1>3 DEF Possible
<1>6. /\ after \in Seq(Plain)
      /\ \A i \in 1..Len(b) : \A m \in Images(b[i]) :
           \/ \E x \in 1..Len(after) : m \in Images(after[x])
           \/ \E k \in 1..n : /\ es[k].type \in InBody \ {"insert", "caption"}
                              /\ m \in Images(Line(b, es[k]))
      /\ Apart(b) /\ (\A k \in 1..n : ~Glues(b, es[k])) => Apart(after)
  BY <1>1, <1>2, <1>5, BodyIs
<1>7. cover \in Covers /\ (cover # doc.cover => \E k \in 1..n : es[k].type \in {"cover", "nocover"})
  BY <1>1, <1>2, CoverIs
<1>15. /\ Content(after) = Meant(b, es)
       /\ \A k \in 1..(Len(Nodes(b)) + 1) :
            /\ \A x, y \in Changing(b, es, k) : x = y
            /\ \A x, y \in Adding(es, k) : x = y
  <2>1. Asked(b, n, es)
    BY <1>2 DEF Asked
  <2> HIDE DEF b
  <2> QED BY <1>1, <1>5, <2>1, RequestsAreMeant
<1> HIDE DEF b, ps, after, cover
<1>8. DOMAIN doc'.media = Used(after, cover)
  BY <1>4 DEF Media
<1>9. ASSUME NEW m \in DOMAIN doc'.media \cap DOMAIN doc.media, doc'.media[m] # doc.media[m]
      PROVE  \E k \in 1..n : es[k].type = "describe" /\ es[k].media = m
  <2>1. m \in Described(es)
    <3> SUFFICES ASSUME m \notin Described(es) PROVE FALSE
      OBVIOUS
    <3>1. Kept(doc, m) /\ m \in Used(after, cover)
      BY <1>8 DEF Kept
    <3>2. Media(doc, after, cover, es)[m] = doc.media[m]
      BY <3>1, Zenon DEF Media
    <3> QED BY <1>4, <1>9, <3>2
  <2> QED BY <1>2, <2>1 DEF Described
<1>10. MediaFollow'
  <2>1. asked' = es /\ before' = doc
    BY <1>3
  <2> QED BY <1>2, <1>4, <1>8, <1>9, <2>1 DEF MediaFollow
<1>11. ASSUME NEW m \in Referenced(b) \ Referenced(after)
       PROVE  \E k \in 1..n : /\ es[k].type \in InBody \ {"insert", "caption"}
                              /\ m \in Images(Line(b, es[k]))
  <2>1. PICK i \in 1..Len(b) : m \in Images(b[i])
    BY <1>1, LenProperties DEF Referenced, b
  <2>2. ~\E x \in 1..Len(after) : m \in Images(after[x])
    BY <1>6, LenProperties DEF Referenced
  <2> QED BY <1>6, <2>1, <2>2
<1>12. OnlyWhatWasAsked'
  <2>1. asked' = es /\ before' = doc /\ DOMAIN es = 1..n
    BY <1>2, <1>3
  <2> QED BY <1>4, <1>7, <1>11, <2>1 DEF OnlyWhatWasAsked, b
<1>13. changes' \in 0..MaxChanges
  <2>1. MaxChanges \in Nat
    BY DEF Setting
  <2> QED BY <1>1, <1>3, <2>1
<1>14. glued' \in BOOLEAN /\ (glued' \/ Apart(doc'.body))
  <2>1. glued' \in BOOLEAN
    BY <1>1, <1>3
  <2>2. ASSUME ~glued' PROVE Apart(after)
    BY <1>1, <1>3, <1>6, <2>2
  <2> QED BY <1>4, <2>1, <2>2
<1>16. EditsAreExact'
  <2>1. asked' = es /\ before' = doc
    BY <1>3
  <2>2. Content(doc'.body) = Meant(doc.body, es)
    BY <1>4, <1>15 DEF b
  <2>3. \A k \in 1..(Len(Nodes(doc.body)) + 1) :
          /\ \A x, y \in Changing(doc.body, es, k) : x = y
          /\ \A x, y \in Adding(es, k) : x = y
    BY <1>15 DEF b
  <2> QED BY <2>1, <2>2, <2>3, Zenon DEF EditsAreExact
<1> QED BY <1>4, <1>6, <1>7, <1>8, <1>10, <1>12, <1>13, <1>14, <1>16 DEF EditsInv

LEMMA EditsKeep ==
  ASSUME Setting, EditsInv, [EditsNext]_editVars
  PROVE  EditsInv'
<1>1. CASE EditsNext
  <2>1. PICK n \in 1..MaxEdits : \E es \in [1..n -> Compiled(doc)] : ApplyEdits(es)
    BY <1>1 DEF EditsNext
  <2>2. n \in Nat
    OBVIOUS
  <2> QED BY <2>1, <2>2, ApplyKeeps
<1>2. CASE UNCHANGED editVars
  <2>1. doc' = doc /\ before' = before /\ asked' = asked /\ changes' = changes /\ glued' = glued
    BY <1>2 DEF editVars
  <2>2. EditsAreExact'
    <3>1. EditsAreExact
      BY DEF EditsInv
    <3> QED BY <2>1, <3>1, Zenon DEF EditsAreExact
  <2> QED BY <2>1, <2>2 DEF EditsInv, MediaFollow, OnlyWhatWasAsked, Apart
<1> QED BY <1>1, <1>2

\* apply_draft_edits, for bodies and requests of any length: what the draft shows is what
\* its edits make of the nodes that they name, by their numbers before the request, and
\* no two of a request are about the same; paragraphs stay apart unless a directive became
\* text; the draft lists what it shows and keeps descriptions; and an image leaves the
\* body, or the cover changes, only by an edit about it.
THEOREM EditsDoWhatTheyMean ==
  ASSUME Setting
  PROVE  EditsSpec => [](EditsTypeOK /\ EditsApply)
<1>1. EditsInit => EditsInv
  BY FirstIsFine
<1>2. EditsInv /\ [EditsNext]_editVars => EditsInv'
  BY EditsKeep
<1>3. EditsInv => EditsTypeOK /\ EditsApply
  <2> SUFFICES ASSUME EditsInv PROVE EditsTypeOK /\ EditsApply
    OBVIOUS
  <2>1. \A k \in DOMAIN doc.body : doc.body[k] \in Plain
    BY LenProperties, ElementOfSeq DEF EditsInv
  <2>2. \A k \in DOMAIN doc.body : doc.body[k] \in Lines
    BY <2>1 DEF Plain
  <2>3. DOMAIN doc.media \subseteq Image
    BY UsedIs DEF EditsInv
  <2>4. EditsTypeOK
    BY <2>2, <2>3 DEF EditsTypeOK, EditsInv, Covers
  <2>5. ParagraphsStayApart
    <3>1. ~IsText(Blank)
      BY BlankIs
    <3> QED BY <3>1 DEF ParagraphsStayApart, EditsInv, Apart
  <2> QED BY <2>4, <2>5 DEF EditsInv, EditsApply
<1> QED BY <1>1, <1>2, <1>3, PTL DEF EditsSpec
=============================================================================
