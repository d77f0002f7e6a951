------------------------------ MODULE Meetings ------------------------------
(***************************************************************************)
(* One meeting and its segments, as members save them.  A save compares    *)
(* the form with what it reads, then writes the row of the meeting and the *)
(* segments that are gone, changed or new in statements of their own; the  *)
(* form comes from a page that may have been loaded long ago.  Functions   *)
(* that serve two members overlap between any two statements.              *)
(***************************************************************************)
EXTENDS Naturals, FiniteSets, Functions

CONSTANTS Request,     \* requests being served at a time
          Text,        \* what a member may have typed
          None,        \* no text yet
          MaxRows,     \* bound: segment ids ever made
          MaxSegments, \* bound: segments of a form
          MaxRequests  \* bound: requests served

\* What the proofs assume: requests are finite, the bounds are numbers, and no text is none.
Setting == /\ IsFiniteSet(Request) /\ None \notin Text
           /\ MaxRows \in Nat /\ MaxSegments \in Nat /\ MaxRequests \in Nat

VARIABLES
  meeting,   \* its row: "none", "there" or "gone", and its text
  segments,  \* rows by id: text, related ids
  awards,    \* the saves whose rows are in the table of awards
  guests,    \* rows of attendees that have the one guest's name
  req,       \* progress of each request and what it has read
  made,      \* segment ids made so far
  begun,     \* requests begun so far
  saved,     \* history: what the last save that ran alone has left
  lapse,     \* history: since then a request stopped half-way or overlapped another
  alive,     \* history: segments added, and dropped by no form whose save had read them
  raced      \* history: two requests looked for the guest, or deleted the awards,
             \* before either inserted

vars == <<meeting, segments, awards, guests, req, made, begun, saved, lapse, alive, raced>>

Idle      == [pc |-> "idle"]
At(r, pc) == req[r].pc = pc
Stored    == DOMAIN segments
NoRows    == [i \in {} |-> None]

\* There is no meeting yet, or one with two segments, of which the first refers to
\* the second.
Init ==
  /\ \/ saved = [text |-> None, rows |-> NoRows]
     \/ \E text \in Text : /\ \A other \in Text : text <= other
                          /\ saved = [text |-> text, rows |-> [id \in 1..2 |->
                               [text |-> text, related |-> IF id = 1 THEN {2} ELSE {}]]]
  /\ meeting = [row |-> IF saved.text = None THEN "none" ELSE "there", text |-> saved.text]
  /\ segments = saved.rows /\ alive = Stored /\ made = Cardinality(Stored)
  /\ awards = {} /\ guests = 0
  /\ req = [r \in Request |-> Idle] /\ begun = 0
  /\ lapse = FALSE /\ raced = FALSE

GoTo(r, state) == req' = [req EXCEPT ![r] = state]
Done(r)        == GoTo(r, Idle)
Turn(r, pc)   == GoTo(r, [req[r] EXCEPT !.pc = pc])

\* The requests that write the meeting or its segments.
Writing == {r \in Request : req[r].pc \notin {"idle", "awards", "award"}}

MayBegin(r) == At(r, "idle") /\ begun < MaxRequests

\* A writer is alone from its beginning to its end.
BeginWriting(r, state) ==
  /\ MayBegin(r)
  /\ begun' = begun + 1
  /\ req' = [q \in Request |->
       IF q = r THEN state
       ELSE IF q \in Writing THEN [req[q] EXCEPT !.alone = FALSE]
       ELSE req[q]]

-----------------------------------------------------------------------------
(* Segments of a form: by id, a set of related ids; at most one segment of *)
(* a form has one, and all have the form's text.  The ids are stored ones, *)
(* old ones, or the page's own: the first few beyond MaxRows.              *)

Known == 1..made
Temp  == (MaxRows + 1)..(MaxRows + MaxSegments)

FormIds == {ids \in SUBSET (Known \cup Temp) :
              /\ Cardinality(ids) <= MaxSegments
              /\ \A i \in ids \cap Temp, j \in Temp : j < i => j \in ids}
Forms ==
  UNION {{[id \in ids |-> {}]} \cup
         {[id \in ids |-> IF id = i THEN {j} \ {i} ELSE {}] : i \in ids, j \in Known \cup ids} :
           ids \in FormIds}

\* Mutant: a reference to a segment that is not in the form is kept.
RemapRelatedAll(related, new, valid) ==
  {IF i \in DOMAIN new THEN new[i] ELSE i : i \in related}

\* _remap_related_segment_ids
RemapRelated(related, new, valid) ==
  {IF i \in DOMAIN new THEN new[i] ELSE i : i \in related} \cap valid

\* _assign_segment_ids_and_remap_related_ids: an id that is not of an existing
\* segment is replaced by a new one, in the references too.
Assigned(form, new, text) ==
  [id \in Range(new) |->
     [text    |-> text,
      related |-> RemapRelated(form[CHOOSE i \in DOMAIN new : new[i] = id], new, Range(new))]]

\* The ids under which the segments of a form are stored.
NewIds(form, existing) ==
  LET fresh == DOMAIN form \ existing IN
  [i \in DOMAIN form |-> IF i \in existing THEN i ELSE made + Cardinality({j \in fresh : j <= i})]

\* Mutant: the references of a segment are not compared.
ChangedText(rows, seen) ==
  {id \in DOMAIN rows \cap DOMAIN seen : rows[id].text # seen[id].text}

Changed(rows, seen) == {id \in DOMAIN rows \cap DOMAIN seen : rows[id] # seen[id]}

-----------------------------------------------------------------------------
(* Creating and saving                                                     *)

\* Mutant: whatever the form does not have.
ToDeleteAny(state) == Stored \ DOMAIN state.rows

ToDelete(state) == DOMAIN state.seen \ DOMAIN state.rows
ToUpdate(state) == Changed(state.rows, state.seen)
ToAdd(state)    == DOMAIN state.rows \ DOMAIN state.seen

\* The statements of a save, which are left out when there is nothing to do.
Statements == <<"row", "delete", "guest?", "guest!", "update", "insert", "answer">>

Needed(state, pc) ==
  CASE pc = "row"    -> state.text # state.old
    [] pc = "delete" -> ToDelete(state) # {}
    [] pc = "guest?" -> ToUpdate(state) \cup ToAdd(state) # {}
    [] pc = "guest!" -> FALSE
    [] pc = "update" -> ToUpdate(state) # {}
    [] pc = "insert" -> ToAdd(state) # {}
    [] OTHER         -> TRUE

\* The first statement needed after this one.
After(r, pc, state) ==
  LET at(p) == CHOOSE i \in DOMAIN Statements : Statements[i] = p
      later == {i \in DOMAIN Statements : i > at(pc) /\ Needed(state, Statements[i])}
  IN GoTo(r, [state EXCEPT !.pc = Statements[CHOOSE i \in later : \A j \in later : i <= j]])

Proceed(r) == After(r, req[r].pc, req[r])

\* What a save is about to store, once the rows it compares with are known.
Prepare(r, seen) ==
  LET form  == req[r].form
      rows  == Assigned(form, NewIds(form, DOMAIN seen), req[r].text)
      state == [req[r] EXCEPT !.form = NoRows, !.seen = seen, !.rows = rows]
  IN /\ made' = made + Cardinality(DOMAIN form \ DOMAIN seen) /\ made' <= MaxRows
     /\ alive' = alive \ (DOMAIN seen \ DOMAIN rows)
     /\ IF At(r, "read") /\ Needed(state, "row") THEN GoTo(r, [state EXCEPT !.pc = "row"])
                                               ELSE After(r, "row", state)

Asked(form, text, pc) ==
  [pc |-> pc, alone |-> Writing = {}, form |-> form, text |-> text, old |-> meeting.text,
   seen |-> NoRows, rows |-> NoRows]

\* create_meeting: the row, whose type and number are unique, ...
Create(r, form, text) ==
  /\ BeginWriting(r, Asked(form, text, "create"))
  /\ UNCHANGED <<meeting, segments, awards, guests, made, saved, lapse, alive, raced>>

InsertRow(r) ==
  /\ At(r, "create")
  /\ IF meeting.row = "none"
       THEN /\ meeting' = [row |-> "there", text |-> req[r].text]
            /\ Prepare(r, NoRows)
            /\ UNCHANGED lapse
       ELSE Done(r) /\ UNCHANGED <<meeting, made, lapse, alive>>
  /\ UNCHANGED <<segments, awards, guests, begun, saved, raced>>

\* update_meeting reads the row, ...
Save(r, form, text) ==
  /\ meeting.row = "there"
  /\ BeginWriting(r, Asked(form, text, "read"))
  /\ UNCHANGED <<meeting, segments, awards, guests, made, saved, lapse, alive, raced>>

\* ... and the segments, and prepares the form for them, ...
ReadSegments(r) ==
  /\ At(r, "read")
  /\ Prepare(r, segments)
  /\ UNCHANGED <<meeting, segments, awards, guests, begun, saved, lapse, raced>>

\* ... updates the row, if the form has another text, ...
UpdateRow(r) ==
  /\ At(r, "row")
  /\ meeting' = IF meeting.row = "there" THEN [meeting EXCEPT !.text = req[r].text] ELSE meeting
  /\ Proceed(r)
  /\ UNCHANGED <<segments, awards, guests, made, begun, saved, lapse, alive, raced>>

\* ... deletes the segments that the form no longer has, ...
DeleteSegments(r) ==
  /\ At(r, "delete")
  /\ segments' = Restrict(segments, Stored \ ToDelete(req[r]))
  /\ Proceed(r)
  /\ UNCHANGED <<meeting, awards, guests, made, begun, saved, lapse, alive, raced>>

\* resolve_attendee_id, for the guest who takes the roles (a member's row is looked for
\* and inserted in the same way): found, ...
FindGuest(r) ==
  /\ At(r, "guest?")
  /\ IF guests = 0 THEN GoTo(r, [req[r] EXCEPT !.pc = "guest!"]) ELSE Proceed(r)
  /\ UNCHANGED <<meeting, segments, awards, guests, made, begun, saved, lapse, alive, raced>>

\* ... or inserted.
AddGuest(r) ==
  /\ At(r, "guest!")
  /\ guests' = guests + 1
  /\ raced' = (raced \/ \E q \in Request \ {r} : At(q, "guest!"))
  /\ Proceed(r)
  /\ UNCHANGED <<meeting, segments, awards, made, begun, saved, lapse, alive>>

\* Rows are written over what is there or inserted, as long as the meeting exists.
Put(r, ids) ==
  IF meeting.row = "there"
    THEN /\ segments' = [id \in Stored \cup ids |-> IF id \in ids THEN req[r].rows[id] ELSE segments[id]]
         /\ Proceed(r) /\ UNCHANGED lapse
    ELSE Done(r) /\ lapse' = TRUE /\ UNCHANGED segments

\* ... writes the changed segments, also those deleted meanwhile, ...
UpdateSegments(r) ==
  /\ At(r, "update") /\ Put(r, ToUpdate(req[r])) /\ UNCHANGED alive
  /\ UNCHANGED <<meeting, awards, guests, made, begun, saved, raced>>

\* ... inserts the new ones, ...
InsertSegments(r) ==
  /\ At(r, "insert") /\ Put(r, ToAdd(req[r]))
  /\ alive' = IF meeting.row = "there" THEN alive \cup ToAdd(req[r]) ELSE alive
  /\ UNCHANGED <<meeting, awards, guests, made, begun, saved, raced>>

\* ... and answers with the form, whether or not the meeting is still there.
Answer(r) ==
  /\ At(r, "answer")
  /\ saved' = [text |-> req[r].text, rows |-> req[r].rows]
  /\ lapse' = (~req[r].alone)
  /\ Done(r)
  /\ UNCHANGED <<meeting, segments, awards, guests, made, begun, alive, raced>>

\* A statement fails, or the function dies: the rest is not done.
Fail(r) ==
  /\ req[r].pc \in {"delete", "guest?", "guest!", "update", "insert", "segments", "meeting"}
  /\ Done(r) /\ lapse' = TRUE
  /\ UNCHANGED <<meeting, segments, awards, guests, made, begun, saved, alive, raced>>

-----------------------------------------------------------------------------
(* Awards, and deleting the meeting                                        *)

\* save_meeting_awards: the old ones go, then the new ones come.
SaveAwards(r) ==
  /\ meeting.row = "there"
  /\ MayBegin(r)
  /\ begun' = begun + 1
  /\ GoTo(r, [pc |-> "awards", by |-> begun'])
  /\ UNCHANGED <<meeting, segments, awards, guests, made, saved, lapse, alive, raced>>

\* Mutant: none goes.
OldAwardsNone == {}

OldAwards == awards

DeleteAwards(r) ==
  /\ At(r, "awards")
  /\ awards' = awards \ OldAwards
  /\ Turn(r, "award")
  /\ UNCHANGED <<meeting, segments, guests, made, begun, saved, lapse, alive, raced>>

InsertAwards(r) ==
  /\ At(r, "award")
  /\ awards' = IF meeting.row = "there" THEN awards \cup {req[r].by} ELSE awards
  /\ raced' = (raced \/ \E q \in Request \ {r} : At(q, "award"))
  /\ Done(r)
  /\ UNCHANGED <<meeting, segments, guests, made, begun, saved, lapse, alive>>

\* delete_meeting: what hangs on the meeting goes first, table by table, ...
DeleteMeeting(r) ==
  /\ meeting.row = "there"
  /\ BeginWriting(r, [pc |-> "segments", alone |-> Writing = {}])
  /\ awards' = {}
  /\ UNCHANGED <<meeting, segments, guests, made, saved, lapse, alive, raced>>

DeleteAllSegments(r) ==
  /\ At(r, "segments")
  /\ segments' = NoRows /\ alive' = {}
  /\ Turn(r, "meeting")
  /\ UNCHANGED <<meeting, awards, guests, made, begun, saved, lapse, raced>>

\* ... then its row, and with it what others have added since.
DeleteRow(r) ==
  /\ At(r, "meeting")
  /\ meeting' = [row |-> "gone", text |-> None]
  /\ segments' = NoRows /\ awards' = {} /\ alive' = {}
  /\ saved' = [text |-> None, rows |-> NoRows]
  /\ lapse' = (~req[r].alone)
  /\ Done(r)
  /\ UNCHANGED <<guests, made, begun, raced>>

Step(r) ==
  \/ MayBegin(r) /\ \E form \in Forms, text \in Text : Create(r, form, text) \/ Save(r, form, text)
  \/ InsertRow(r) \/ ReadSegments(r) \/ UpdateRow(r) \/ DeleteSegments(r)
  \/ FindGuest(r) \/ AddGuest(r) \/ UpdateSegments(r) \/ InsertSegments(r)
  \/ Answer(r) \/ Fail(r)
  \/ SaveAwards(r) \/ DeleteAwards(r) \/ InsertAwards(r)
  \/ DeleteMeeting(r) \/ DeleteAllSegments(r) \/ DeleteRow(r)

Next == \E r \in Request : Step(r)

Spec == Init /\ [][Next]_vars

-----------------------------------------------------------------------------
(* Properties                                                              *)

TypeOK ==
  /\ meeting.row \in {"none", "there", "gone"} /\ meeting.text \in Text \cup {None}
  /\ Stored \subseteq Known /\ guests \in 0..MaxRequests
  /\ \A id \in Stored : segments[id].text \in Text /\ segments[id].related \subseteq Known
  /\ awards \subseteq 1..begun
  /\ \A r \in Request : req[r].pc \in {"idle", "create", "read", "row", "delete", "guest?", "guest!",
       "update", "insert", "answer", "awards", "award", "segments", "meeting"}

\* A save that ran alone leaves the meeting as the form says, and nothing but another
\* save or a deletion changes that.
SavedIsStored ==
  Writing = {} /\ ~lapse => meeting.text = saved.text /\ segments = saved.rows

\* core.py:19-22: no reference to a segment that is not in the saved meeting.
NoDanglingTags ==
  Writing = {} /\ ~lapse => \A id \in Stored : segments[id].related \subseteq Stored

\* However saves overlap or stop half-way, a segment that was added stays until the
\* meeting is deleted, or until a form drops it whose save has read it.
AddedIsKept == alive \subseteq Stored

\* The awards come from one save and a guest has one row, unless two requests
\* looked or deleted before either inserted.
InsertedOnce == ~raced => Cardinality(awards) <= 1 /\ guests <= 1

MeetingHolds == SavedIsStored /\ NoDanglingTags /\ AddedIsKept /\ InsertedOnce
=============================================================================
