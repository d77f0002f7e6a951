------------------------------- MODULE Timings ------------------------------
(***************************************************************************)
(* The timer's records of a meeting.  A segment has one record, replaced   *)
(* by deleting and inserting; a Table Topics session has one per speaker,  *)
(* told apart by name.  The functions that serve the requests overlap      *)
(* between any two statements, and no constraint of the table backs the    *)
(* checks they make before.                                                *)
(***************************************************************************)
EXTENDS Naturals, Sequences, FiniteSets, Functions

CONSTANTS Request,     \* requests being served at a time
          Topics,      \* the Table Topics segment
          Regular,     \* the other segments
          Name,        \* speakers' names, case ignored
          Minute,      \* HH:MM at which a speaker started
          NoName,      \* a record without a name, or a name without suffix
          MaxRequests  \* bound: requests served

VARIABLES
  timings,  \* rows: id, segment, name with its suffix; by: the save that inserted it
  req,      \* progress of each request and what it has read
  made,     \* rows inserted so far, which gives them their ids
  begun,    \* requests begun so far
  raced     \* history: segments of which two saves had both read or deleted before
            \* either wrote

vars == <<timings, req, made, begun, raced>>

\* What the proofs assume: names, starts and segments are told apart.
Setting == /\ NoName \notin Name \cup Minute
           /\ Topics \notin Regular

Idle       == [pc |-> "idle"]
At(r, pc)  == req[r].pc = pc
On(s)      == {t \in timings : t.segment = s}
Segment    == Regular \cup {Topics}
Plain(n)   == [base |-> n, at |-> NoName]
Names(s)   == {t.name : t \in On(s)}

Init ==
  /\ timings = {} /\ req = [r \in Request |-> Idle]
  /\ made = 0 /\ begun = 0 /\ raced = {}

GoTo(r, state) == req' = [req EXCEPT ![r] = state]
Done(r)        == GoTo(r, Idle)

MayBegin(r) == At(r, "idle") /\ begun < MaxRequests

Begin(r, state) ==
  /\ MayBegin(r)
  /\ begun' = begun + 1
  /\ GoTo(r, state)
  /\ UNCHANGED <<timings, made, raced>>

-----------------------------------------------------------------------------
(* Saving records                                                          *)

\* A record is a name and a start.  Names matter in Table Topics only.
Record(s) == [name : IF s = Topics THEN Name ELSE {NoName}, at : Minute]
Batch(s)  == {<<>>} \cup {<<t>> : t \in Record(s)} \cup {<<t, u>> : t, u \in Record(s)}

\* One record, refused if the speaker has one; a batch for a segment; batches for
\* several segments, saved one after the other.
Plan(r, strict, todo) ==
  Begin(r, [pc |-> "first", strict |-> strict, seen |-> {}, by |-> begun + 1, todo |-> todo])

Create(r, s, t)      == Plan(r, TRUE, <<[on |-> s, new |-> <<t>>]>>)
CreateBatch(r, s, b) == Plan(r, FALSE, <<[on |-> s, new |-> b]>>)

CreateBatchAll(r, s, b, t) ==
  Plan(r, FALSE, <<[on |-> s, new |-> b], [on |-> Topics, new |-> <<t>>]>>)

Job(r) == Head(req[r].todo)

\* The next segment of a batch, or the end of the request.
Continue(r) ==
  IF Len(req[r].todo) > 1 THEN GoTo(r, [req[r] EXCEPT !.pc = "first", !.todo = Tail(@)])
                          ELSE Done(r)

\* Mutant: names that this batch has used are not looked at.
UniqueNameNever(t, taken) == Plain(t.name)

\* make_unique_timing_name: a name that is taken gets its start as a suffix.
UniqueName(t, taken) ==
  IF t.name # NoName /\ Plain(t.name) \in taken THEN [base |-> t.name, at |-> t.at]
                                                 ELSE Plain(t.name)

\* The names of a batch, one after the other.
UniqueNames(batch, taken) ==
  LET names[n \in 0..Len(batch)] ==
        IF n = 0 THEN <<>>
        ELSE Append(names[n - 1], UniqueName(batch[n], taken \cup Range(names[n - 1])))
  IN names[Len(batch)]

\* A speaker who has a record is refused one more.
Refused(r) ==
  /\ req[r].strict /\ Job(r).on = Topics
  /\ \E t \in Range(Job(r).new) : t.name # NoName /\ Plain(t.name) \in Names(Topics)

\* Mutant: the old records stay.
ReplacedNone(s) == {}

\* A segment has one record; Table Topics keep theirs.
Replaced(s) == IF s = Topics THEN {} ELSE On(s)

\* The records of a segment are deleted; of Table Topics, the names are read.
DeleteOrRead(r) ==
  /\ At(r, "first")
  /\ timings' = timings \ Replaced(Job(r).on)
  /\ IF Refused(r) THEN Done(r)
     ELSE IF Job(r).new = <<>> THEN Continue(r)
     ELSE GoTo(r, [req[r] EXCEPT !.pc = "insert",
                     !.seen = IF Job(r).on = Topics THEN Names(Topics) ELSE {}])
  /\ UNCHANGED <<made, begun, raced>>

\* Others that have read or deleted and not written yet.
OtherPending(r, s) ==
  \E q \in Request \ {r} : \/ At(q, "insert") /\ Job(q).on = s
                           \/ At(q, "rename") /\ s = Topics

\* The new records, in one statement.
Insert(r) ==
  /\ At(r, "insert")
  /\ LET s == Job(r).on
         new == Job(r).new
         names == IF s = Topics /\ ~req[r].strict THEN UniqueNames(new, req[r].seen)
                  ELSE [i \in DOMAIN new |-> Plain(new[i].name)]
     IN /\ timings' = timings \cup {[id |-> made + i, segment |-> s, name |-> names[i],
                                     by |-> req[r].by] : i \in DOMAIN new}
        /\ made' = made + Len(new)
        /\ raced' = IF OtherPending(r, s) THEN raced \cup {s} ELSE raced
  /\ Continue(r)
  /\ UNCHANGED begun

\* A statement fails, or the function dies: the segments that follow are not saved.
Fail(r) ==
  /\ At(r, "insert") /\ Done(r)
  /\ UNCHANGED <<timings, made, begun, raced>>

-----------------------------------------------------------------------------
(* Changing a record                                                       *)

\* update_timing: another speaker's name is refused, ...
Rename(r, t, n) ==
  /\ t.segment = Topics => Plain(n) \notin {u.name : u \in On(Topics) \ {t}}
  /\ Begin(r, [pc |-> "rename", id |-> t.id, name |-> n, topics |-> t.segment = Topics])

\* ... and the record, if it is still there, gets the name.
WriteName(r) ==
  /\ At(r, "rename")
  /\ timings' = {IF t.id = req[r].id THEN [t EXCEPT !.name = Plain(req[r].name)] ELSE t : t \in timings}
  /\ raced' = IF req[r].topics /\ OtherPending(r, Topics) THEN raced \cup {Topics} ELSE raced
  /\ Done(r)
  /\ UNCHANGED <<made, begun>>

\* delete_timing
Remove(r, t) ==
  /\ MayBegin(r)
  /\ begun' = begun + 1
  /\ timings' = timings \ {t}
  /\ UNCHANGED <<req, made, raced>>

Step(r) ==
  \/ MayBegin(r) /\ \/ \E s \in Segment : \E t \in Record(s) : Create(r, s, t)
                    \/ \E s \in Segment : \E b \in Batch(s) : CreateBatch(r, s, b)
                    \/ \E s \in Regular : \E b \in Batch(s), t \in Record(Topics) :
                         CreateBatchAll(r, s, b, t)
                    \/ \E t \in timings, n \in Name : Rename(r, t, n)
                    \/ \E t \in timings : Remove(r, t)
  \/ DeleteOrRead(r) \/ Insert(r) \/ WriteName(r) \/ Fail(r)

Next == \E r \in Request : Step(r)

Spec == Init /\ [][Next]_vars

-----------------------------------------------------------------------------
(* Properties                                                              *)

TypeOK ==
  /\ \A t \in timings : /\ t.id \in 1..made /\ t.segment \in Segment
                        /\ t.name.base \in Name \cup {NoName} /\ t.by \in 1..begun
  /\ \A r \in Request : req[r].pc \in {"idle", "first", "insert", "rename"}
  /\ raced \subseteq Segment

\* The records of a segment other than Table Topics come from one save, and two
\* speakers of Table Topics never share a name without a suffix, unless two saves
\* overlapped between what they read or deleted and what they wrote.
OneSavePerSegment ==
  \A s \in Regular \ raced : \A t, u \in On(s) : t.by = u.by

SpeakersKeepApart ==
  Topics \notin raced =>
    \A t, u \in On(Topics) : t.name = u.name /\ t.name \in {Plain(n) : n \in Name} => t = u

TimingsHold == OneSavePerSegment /\ SpeakersKeepApart
=============================================================================
