--------------------------- MODULE MeetingEditing ---------------------------
(***************************************************************************)
(* The meeting agent's tools on the agenda of a draft page.  In a turn the *)
(* model calls tools one after the other; each changes the agenda, which   *)
(* the page shows at once, or refuses.  A turn that ends is stored with    *)
(* the tools it called and the agenda before and after it: that is what an *)
(* undo, a save and a bubble's revert go by.  Between turns the member     *)
(* edits the page.  A segment is named by a prefix of its UUID, which is   *)
(* the segment or is refused: here its position, or 0 for one that is gone.*)
(***************************************************************************)
EXTENDS Integers, Sequences, FiniteSets, SequencesExt

CONSTANTS Tools,        \* the tools the model calls
          Says,         \* what a message may say: sets of "save" and "yes"
          Role,         \* role takers
          Gone,         \* {0}, or {} when the model names no segment that is gone
          Duration,     \* minutes the model gives, 0 to be refused
          Minute,       \* times of day in a source and in set_meta
          NoOne, None,  \* no role taker, no value
          MaxSegments,  \* bound: segments of an agenda that is added to
          MaxTurns,     \* bound: turns stored
          MaxCalls,     \* bound: tool calls of a turn
          MaxEdits      \* bound: edits of the page, turns that fail, reverts, turns of others

VARIABLES
  form,     \* the agenda of the page, which the tools work on
  turns,    \* agent_turns
  turn,     \* the turn that runs, or NoTurn
  row,      \* the meeting of that number in the database
  touched,  \* history: since a preview the agenda changed outside of a stored turn
  saved,    \* history: the last agenda saved, the one shown before, and whether they may differ
  edits

vars == <<form, turns, turn, row, touched, saved, edits>>

Day           == 24 * 60
DefaultAnchor == 19 * 60 + 15

\* What the proofs assume: minutes are numbers, times are of a day, and none is no number.
Setting == Duration \subseteq Nat /\ Minute \subseteq 0..(Day - 1) /\ None \notin Int

NoTurn        == [says |-> {}, called |-> {}, done |-> {}, n |-> 0, preview |-> FALSE,
                  before |-> None, edited |-> FALSE]
NoAgenda      == None
Nothing       == [what |-> None, shown |-> None, excused |-> TRUE]

Segment(type, start, duration) ==
  [type |-> type, start |-> start, duration |-> duration, buffer |-> 0,
   role |-> NoOne, title |-> "", content |-> ""]

-----------------------------------------------------------------------------
(* Times: segments follow each other; buffers are gaps before a segment.   *)

Anchor(a) == IF a.start = None THEN DefaultAnchor ELSE a.start

\* recompute_start_times: cumulative from the anchor; the buffer of the first
\* segment does not count.  given: the times are not the tools' own.
Recompute(a) ==
  LET s == a.segments
      at[i \in DOMAIN s] ==
        IF i = 1 THEN Anchor(a) ELSE at[i - 1] + s[i - 1].duration + s[i].buffer
  IN [a EXCEPT !.segments = [i \in DOMAIN s |-> [s[i] EXCEPT !.start = at[i] % Day]],
               !.given = FALSE]

\* Each segment begins when the one before it and the gap are over.
Chained(a) ==
  \A i \in DOMAIN a.segments :
    a.segments[i].start =
      IF i = 1 THEN Anchor(a) % Day
      ELSE (a.segments[i - 1].start + a.segments[i - 1].duration + a.segments[i].buffer) % Day

\* A meeting from a text, an image or the club's history: rows with their times.
Sources == [start : Minute, end : {None},
            rows : UNION {[1..n -> {"speech"} \X Minute \X Duration] : n \in 1..2}]

\* The end of the last row that takes time.
EndBefore(m, i) ==
  LET e[k \in 0..i] == IF k = 0 THEN m.start
                       ELSE IF m.rows[k][3] > 0 THEN m.rows[k][2] + m.rows[k][3] ELSE e[k - 1]
  IN e[i - 1]

Gap(from, to) == IF to > from THEN to - from ELSE 0

\* meeting_to_agenda: a buffer is what the clock leaves between two rows.
MeetingToAgenda(m, no, when) ==
  [no |-> no, when |-> when, start |-> m.start, end |-> m.end, given |-> TRUE,
   segments |-> [i \in DOMAIN m.rows |->
     [Segment(m.rows[i][1], m.rows[i][2], m.rows[i][3])
        EXCEPT !.buffer = Gap(EndBefore(m, i), m.rows[i][2])]]]

\* Rows that begin with the meeting, do not overlap, and take time: their buffers
\* lead to their times.
Orderly(m) ==
  /\ m.rows[1][2] = m.start
  /\ \A i \in DOMAIN m.rows : m.rows[i][3] > 0 /\ m.rows[i][2] >= EndBefore(m, i)

Templates == {"regular_2ps", "custom"}

\* The rows of a template with the times it gives them; neighbours that no tool
\* tells apart are put together.
Rows(name) ==
  IF name = "custom" THEN << <<"custom", 1155, 15>> >>
  ELSE << <<"fixed", 1155, 35>>, <<"session", 1190, 20>>, <<"speech", 1210, 7>>,
          <<"speech", 1217, 7>>, <<"fixed", 1224, 51>> >>

Template(name) ==
  LET rows == Rows(name) IN
  [no |-> 0, when |-> "unset", start |-> DefaultAnchor, end |-> None, given |-> FALSE,
   segments |-> [i \in DOMAIN rows |-> Segment(rows[i][1], rows[i][2], rows[i][3])]]

\* A page as it opens, or one the member has filled in, of a new meeting or of one
\* that is stored.
Init ==
  /\ \/ form = Template("custom") /\ row = "none"
     \/ /\ "save_draft" \in Tools
        /\ form = [Template("custom") EXCEPT !.no = 1, !.when = "ahead"]
        /\ row \in {"none", "ahead"}
  /\ turns = <<>> /\ turn = NoTurn
  /\ touched = FALSE /\ saved = Nothing /\ edits = 0

-----------------------------------------------------------------------------
(* The tools                                                               *)

InTurn == turn # NoTurn

\* A tool is called: it does its work, or refuses and changes nothing.
Call(tool, allowed, agenda) ==
  /\ tool \in Tools /\ InTurn /\ turn.n < MaxCalls
  /\ form' = IF allowed THEN agenda ELSE form
  /\ turn' = [turn EXCEPT !.n = @ + 1, !.called = @ \cup {tool},
                          !.done = IF allowed THEN @ \cup {tool} ELSE @]
  /\ UNCHANGED <<turns, row, touched, saved, edits>>

Named == Gone \cup DOMAIN form.segments
Known(i) == i \in DOMAIN form.segments
With(i, field, value) == [form EXCEPT !.segments[i][field] = value]
WithSegments(s) == [form EXCEPT !.segments = s]

CanEditTitle(type)   == type \in {"speech", "custom"}
CanEditContent(type) == type \in {"speech", "custom", "session"}

SetRole(i, r)    == Call("set_role", Known(i), With(i, "role", r))
SetType(i, type) == Call("set_type", Known(i), With(i, "type", type))
SetTitle(i) ==
  Call("set_title", Known(i) /\ CanEditTitle(form.segments[i].type), With(i, "title", "new"))
SetContent(i) ==
  Call("set_content", Known(i) /\ CanEditContent(form.segments[i].type),
       With(i, "content", "new"))

SetDuration(i, d) ==
  Call("set_duration", d > 0 /\ Known(i), Recompute(With(i, "duration", d)))

SetBuffer(i, b) ==
  Call("set_buffer", b >= 0 /\ Known(i), Recompute(With(i, "buffer", b)))

SetStart(m)   == Call("set_start", TRUE, Recompute([form EXCEPT !.start = m]))
SetEnd(m)     == Call("set_end", TRUE, [form EXCEPT !.end = m])
SetNo(n)      == Call("set_no", TRUE, [form EXCEPT !.no = n])
SetDate(when) == Call("set_date", TRUE, [form EXCEPT !.when = when])

AddSegment(i, after, d, r) ==
  /\ Len(form.segments) < MaxSegments
  /\ Call("add_segment", d > 0 /\ Known(i),
          Recompute(WithSegments(InsertAt(form.segments, IF after THEN i + 1 ELSE i,
                                          [Segment("custom", 0, d) EXCEPT !.role = r]))))

RemoveSegment(i) ==
  Call("remove_segment", Known(i), Recompute(WithSegments(RemoveAt(form.segments, i))))

\* The anchor is looked up again: taking the segment out may have shifted it.
Moved(i, anchor, after) ==
  LET rest == RemoveAt(form.segments, i)
      at   == IF anchor > i THEN anchor - 1 ELSE anchor
  IN InsertAt(rest, IF after THEN at + 1 ELSE at, form.segments[i])

MoveSegment(i, anchor, after) ==
  Call("move_segment", Known(i) /\ Known(anchor) /\ i # anchor,
       Recompute(WithSegments(Moved(i, anchor, after))))

SwapRoles(i, j) ==
  Call("swap_roles", Known(i) /\ Known(j) /\ i # j,
       [form EXCEPT !.segments[i].role = form.segments[j].role,
                    !.segments[j].role = form.segments[i].role])

\* The segments change places; the gaps stay where they are.
Swapped(i, j) ==
  LET s == form.segments IN
  [s EXCEPT ![i] = [s[j] EXCEPT !.buffer = s[i].buffer],
            ![j] = [s[i] EXCEPT !.buffer = s[j].buffer]]

\* Mutant: the segments change places, and their times go with them.
SwapTimeOnly(i, j) ==
  Call("swap_time", Known(i) /\ Known(j) /\ i # j, WithSegments(Swapped(i, j)))

SwapTime(i, j) ==
  Call("swap_time", Known(i) /\ Known(j) /\ i # j, Recompute(WithSegments(Swapped(i, j))))

\* Later by a larger gap before it, earlier by as much of it as there is.
ShiftSegmentTime(i, delta) ==
  Call("shift_segment_time",
       /\ Known(i)
       /\ delta < 0 => i # 1 /\ -delta <= form.segments[i].buffer,
       IF delta = 0 THEN form
       ELSE Recompute(With(i, "buffer", form.segments[i].buffer + delta)))

-----------------------------------------------------------------------------
(* Whole agendas                                                           *)

\* create_from_text trusts the planner's times, and clears what the text does
\* not mention.
CreateFromText(m, mentioned) ==
  LET a == MeetingToAgenda(m, 1, "ahead") IN
  Call("create_from_text", TRUE,
       [a EXCEPT !.no    = IF "no" \in mentioned THEN @ ELSE 0,
                 !.when  = IF "date" \in mentioned THEN @ ELSE "unset",
                 !.start = IF "start" \in mentioned THEN @ ELSE None,
                 !.given = ~(Orderly(m) /\ ("start" \in mentioned \/ m.start = DefaultAnchor))])

\* create_from_image, when there is an image.
CreateFromImage(m, image) ==
  Call("create_from_image", image,
       [MeetingToAgenda(m, 1, "ahead") EXCEPT !.given = ~Orderly(m)])

\* A message either asks to save, or says yes without doing so; a "no" does neither.
AsksToSave == "save" \in turn.says
SaysYes    == "yes" \in turn.says

\* The meeting was on a card of one of the last three turns.
RecentlyLookedUp == \E s \in DOMAIN turns : s > Len(turns) - 3 /\ "lookup_meeting" \in turns[s].done

\* clone_from_meeting: one that a lookup of the last turns showed, when the
\* message confirms it; without its number, its date, its people and its texts.
CloneFromMeeting(m) ==
  Call("clone_from_meeting", SaysYes /\ RecentlyLookedUp,
       [MeetingToAgenda(m, 0, "unset") EXCEPT !.given = ~Orderly(m)])

CreateFromTemplate(name) == Call("create_from_template", name \in Templates, Template(name))

\* lookup_meeting, preview_meeting, show_current_agenda, validate_agenda.
Read(tool) == Call(tool, TRUE, form)

-----------------------------------------------------------------------------
(* Saving                                                                  *)

\* classify_save
Mode ==
  IF form.no = 0 THEN "refuse"
  ELSE CASE row = "none"  -> IF form.when = "ahead" /\ form.start # None THEN "create" ELSE "refuse"
         [] row = "past"  -> "refuse"
         [] row = "ahead" -> "update"

\* Mutant: some turn of the conversation was a preview.
SomePreview == \E s \in DOMAIN turns : turns[s].preview

\* _immediately_prior_turn_was_save_preview
PriorPreview == turns # <<>> /\ Last(turns).preview

\* The agenda the member saw with the last preview.
Previews == {s \in DOMAIN turns : turns[s].preview}
Shown    == IF Previews = {} THEN NoAgenda ELSE turns[Max(Previews)].after

\* save_draft: a preview when the message asks to save, the save itself when it
\* confirms the preview of the turn before.  The look at the meeting of that number, at
\* the turn before and the write are one step: the turn's tools run one after the other,
\* so that only the row could change in between, which the saved agenda does not tell.
SaveDraft(confirmed) ==
  LET allowed == /\ confirmed \/ AsksToSave
                 /\ Mode # "refuse"
                 /\ confirmed => SaysYes /\ PriorPreview
  IN /\ InTurn /\ "save_draft" \in Tools /\ turn.n < MaxCalls
     /\ turn' = [turn EXCEPT !.n = @ + 1, !.called = @ \cup {"save_draft"},
                             !.done = IF allowed THEN @ \cup {"save_draft"} ELSE @,
                             !.preview = @ \/ (allowed /\ ~confirmed)]
     /\ IF allowed /\ confirmed
          THEN /\ row' = "ahead"
               /\ saved' = [what |-> form, shown |-> Shown,
                            excused |-> touched \/ form # turn.before]
          ELSE UNCHANGED <<row, saved>>
     /\ UNCHANGED <<form, turns, touched, edits>>

-----------------------------------------------------------------------------
(* Undoing                                                                 *)

EditTools ==
  {"set_role", "set_type", "set_duration", "set_buffer",
   "set_start", "set_end", "set_no", "set_date",     \* set_meta
   "add_segment", "remove_segment", "move_segment", "swap_roles", "swap_time",
   "shift_segment_time", "create_from_text", "create_from_image", "clone_from_meeting"}
RevertTools == {"revert_last_turn", "revert_to_turn"}

\* Mutant: an edit in the turn comes first.
KindEditFirst(t) ==
  IF t.called \cap EditTools # {} \/ t.called \cap RevertTools # {} THEN "edit" ELSE "chit-chat"

\* _classify_turn, by the tools called
Kind(t) ==
  IF t.called \cap RevertTools # {} THEN "revert"
  ELSE IF t.called \cap EditTools # {} THEN "edit" ELSE "chit-chat"

\* _walk_back_to_meaningful_turn
Meaningful == {s \in DOMAIN turns : Kind(turns[s]) # "chit-chat"}

\* Mutant: what the turn left.
RevertLastTurnAfter ==
  LET s == Max(Meaningful) IN
  Call("revert_last_turn", Meaningful # {} /\ Kind(turns[s]) = "edit", turns[s].after)

RevertLastTurn ==
  LET s == Max(Meaningful) IN
  Call("revert_last_turn", Meaningful # {} /\ Kind(turns[s]) = "edit", turns[s].before)

\* The state after turn n, or before the first one; a turn without an agenda is
\* refused.
RevertToTurn(n) ==
  LET state == IF n = 0 THEN turns[1].before ELSE turns[n].after IN
  Call("revert_to_turn", turns # <<>> /\ n <= Len(turns) /\ state # NoAgenda, state)

-----------------------------------------------------------------------------
(* Turns, and what happens between them                                    *)

Begin(says) ==
  /\ ~InTurn /\ Len(turns) < MaxTurns
  /\ turn' = [NoTurn EXCEPT !.says = says, !.before = form, !.edited = touched]
  /\ UNCHANGED <<form, turns, row, touched, saved, edits>>

\* The turn is stored; a preview is shown as the turn leaves the agenda.
End ==
  /\ InTurn
  /\ turns' = Append(turns, [called |-> turn.called, done |-> turn.done, preview |-> turn.preview,
                             before |-> turn.before, after |-> form, edited |-> turn.edited])
  /\ turn' = NoTurn
  /\ touched' = (touched /\ ~turn.preview)
  /\ UNCHANGED <<form, row, saved, edits>>

MayHappen == edits < MaxEdits /\ edits' = edits + 1

\* The turn fails and is not stored; what its tools did stays on the page.
Fail ==
  /\ InTurn /\ MayHappen
  /\ turn' = NoTurn
  /\ touched' = (touched \/ form # turn.before)
  /\ UNCHANGED <<form, turns, row, saved>>

\* A turn of the router or of an agent without an agenda.
OtherTurn ==
  /\ ~InTurn /\ Len(turns) < MaxTurns /\ MayHappen
  /\ turns' = Append(turns, [called |-> {}, done |-> {}, preview |-> FALSE,
                             before |-> NoAgenda, after |-> NoAgenda, edited |-> touched])
  /\ UNCHANGED <<form, turn, row, touched, saved>>

\* The member edits the page.
EditPage(i, r) ==
  /\ ~InTurn /\ MayHappen /\ Known(i)
  /\ form' = With(i, "role", r) /\ form' # form
  /\ touched' = TRUE
  /\ UNCHANGED <<turns, turn, row, saved>>

\* The revert of a bubble: the turn and the later ones are deleted.
RevertBubble(s) ==
  /\ ~InTurn /\ MayHappen
  /\ turns[s].before # NoAgenda
  /\ turns' = SubSeq(turns, 1, s - 1)
  /\ form' = turns[s].before
  /\ touched' = turns[s].edited
  /\ UNCHANGED <<turn, row, saved>>

\* The meeting is created by someone else, or is over.
Elsewhere ==
  /\ "save_draft" \in Tools /\ MayHappen
  /\ \/ row = "none" /\ row' = "ahead"
     \/ row = "ahead" /\ row' = "past"
  /\ UNCHANGED <<form, turns, turn, touched, saved>>

SegmentTool(i) ==
  \/ \E r \in Role \cup {NoOne} : SetRole(i, r)
  \/ \E type \in {"speech", "session"} : SetType(i, type)
  \/ SetTitle(i) \/ SetContent(i) \/ RemoveSegment(i)
  \/ \E d \in Duration : \/ SetDuration(i, d) \/ SetBuffer(i, d)
                         \/ ShiftSegmentTime(i, d) \/ ShiftSegmentTime(i, -d)
  \/ \E after \in BOOLEAN, d \in Duration : AddSegment(i, after, d, NoOne)
  \/ \E j \in Named : \/ SwapRoles(i, j) \/ SwapTime(i, j)
                      \/ \E after \in BOOLEAN : MoveSegment(i, j, after)

MetaTool ==
  \/ \E m \in Minute \cup {None} : SetStart(m) \/ SetEnd(m)
  \/ \E n \in 0..1 : SetNo(n)
  \/ \E when \in {"unset", "ahead", "past"} : SetDate(when)

WholeTool ==
  \/ \E m \in Sources : \/ \E mentioned \in {{}, {"no", "date", "start"}} :
                             CreateFromText(m, mentioned)
                        \/ \E image \in BOOLEAN : CreateFromImage(m, image)
                        \/ CloneFromMeeting(m)
  \/ \E name \in Templates : CreateFromTemplate(name)
  \/ \E tool \in {"lookup_meeting", "validate_agenda"} : Read(tool)
  \/ \E confirmed \in BOOLEAN : SaveDraft(confirmed)
  \/ RevertLastTurn
  \/ \E n \in 0..Len(turns) : RevertToTurn(n)

Next ==
  \/ \E says \in Says : Begin(says)
  \/ InTurn /\ (MetaTool \/ WholeTool \/ \E i \in Named : SegmentTool(i))
  \/ End \/ Fail \/ OtherTurn \/ Elsewhere
  \/ \E i \in Named, r \in Role : EditPage(i, r)
  \/ \E s \in DOMAIN turns : RevertBubble(s)

Spec == Init /\ [][Next]_vars

-----------------------------------------------------------------------------
(* What the validators say                                                 *)

\* Mutant: the gap before the first segment counts.
TotalOfAll(a) ==
  LET t[i \in 0..Len(a.segments)] ==
        IF i = 0 THEN 0 ELSE t[i - 1] + a.segments[i].duration + a.segments[i].buffer
  IN t[Len(a.segments)]

Total(a) ==
  LET t[i \in 0..Len(a.segments)] ==
        IF i = 0 THEN 0
        ELSE t[i - 1] + a.segments[i].duration + IF i > 1 THEN a.segments[i].buffer ELSE 0
  IN t[Len(a.segments)]

\* By the last segment's own time,
Overflow(a) ==
  /\ a.end # None /\ a.segments # <<>>
  /\ Last(a.segments).start + Last(a.segments).duration > a.end

\* and by the meeting's and the sum.
Underflow(a) == a.start # None /\ a.end # None /\ (a.end - a.start) - Total(a) > 10

-----------------------------------------------------------------------------
(* Properties                                                              *)

Agendas == ({form} \cup {turns[s].after : s \in DOMAIN turns}) \ {NoAgenda}

TypeOK ==
  /\ \A a \in Agendas : /\ a.no \in 0..1 /\ a.when \in {"unset", "ahead", "past"}
                        /\ {a.start, a.end} \subseteq 0..(Day - 1) \cup {None}
                        /\ \A i \in DOMAIN a.segments :
                             /\ a.segments[i].start \in 0..(Day - 1)
                             /\ a.segments[i].duration >= 0 /\ a.segments[i].buffer >= 0
                             /\ a.segments[i].role \in Role \cup {NoOne}
  /\ turn.done \subseteq turn.called
  /\ \A s \in DOMAIN turns : turns[s].done \subseteq turns[s].called
  /\ row \in {"none", "ahead", "past"} /\ touched \in BOOLEAN

\* timing.py: the chain of start times "stays consistent".  Whatever the tools do
\* in whatever order, each segment begins when the one before it is over, from the
\* anchor on, in every agenda that can be shown or restored; times taken over from
\* a text, an image or an old meeting that do not do so are left alone until the
\* first tool computes them.
TimesFollow == \A a \in Agendas : a.given \/ Chained(a)

\* Two validators judge the end of the meeting by different sums.  On times that
\* follow each other, within a day, they agree: too long is when the parts take
\* more than there is, and it is never too long and too short at once.
IssuesAgree ==
  \A a \in Agendas :
    ~a.given /\ a.start # None /\ a.end # None /\ a.segments # <<>> /\ a.start + Total(a) < Day =>
      /\ Overflow(a) <=> Total(a) > a.end - a.start
      /\ ~(Overflow(a) /\ Underflow(a))

Changed(s) == turns[s].before # turns[s].after
Undo(s)    == turns[s].called = {"revert_last_turn"} /\ turns[s].done = turns[s].called

\* The turn the member means by undo: the last one that changed the agenda.
LastChange(s) == {j \in 1..(s - 1) : Changed(j) /\ \A k \in (j + 1)..(s - 1) : ~Changed(k)}

\* An undo restores the agenda with which the last turn that changed it began, however
\* much was talked since.  So it takes back all that this turn did, and also what was
\* done since the turn began without a stored turn: edits of the page, and what turns
\* that failed left.  When there was none of that, the turn's change is all that goes.
\* The exception is a conversation in which that turn is no edit to the walk, by the
\* tools it called, or a later one is and changed nothing.
UndoRestoresTheLastChange ==
  \A s \in DOMAIN turns : Undo(s) =>
    \A j \in LastChange(s) :
      (\A k \in j..(s - 1) : Kind(turns[k]) = "edit" <=> Changed(k))
        => turns[s].after = turns[j].before

\* Two undos never follow each other without an edit between: the second would
\* bring back what the first took away.
EditBetweenUndos ==
  \A s, u \in DOMAIN turns : s < u /\ Undo(s) /\ Undo(u) =>
    \E k \in (s + 1)..(u - 1) : turns[k].called \cap EditTools # {}

\* tools.py:1357-1360: "Walks backward past chit-chat turns ..., so 'undo' always
\* targets an actual state change", the most recent one.
UndoTargetsTheLastChange ==
  \A s \in DOMAIN turns : Undo(s) =>
    \A j \in LastChange(s) : turns[s].after = turns[j].before

\* What is saved is the agenda the member was shown with the preview, unless the
\* member changed it on the page since then, a turn that failed did, or the
\* confirming turn itself did before it saved.
SavedIsWhatWasShown == saved.excused \/ saved.what = saved.shown
=============================================================================
