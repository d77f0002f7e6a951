----------------------------- MODULE Attendance -----------------------------
(***************************************************************************)
(* Who is at a meeting and in which role.  A check-in replaces all rows of *)
(* the person, a reset takes one role away and keeps the person present.   *)
(* Both are several statements, and the functions that serve them overlap  *)
(* between any two; the timer's role goes to the first who asks.           *)
(***************************************************************************)
EXTENDS Naturals, FiniteSets

CONSTANTS Request,     \* requests being served at a time
          Person,      \* wxid
          Role,        \* segments of the meeting that have a role
          Timer,       \* the one of type Timer
          NoRole,      \* present without a role
          MaxRequests  \* bound: requests served

\* What the constants are in the code: a meeting has so many segments, the timer's
\* is one, and no role is none of them.
Setting == IsFiniteSet(Role) /\ Timer \in Role /\ NoRole \notin Role

VARIABLES
  checkins,  \* rows: id, who, role
  req,       \* progress of each request and what it has read
  made,      \* rows inserted so far, which gives them their ids
  begun,     \* requests begun so far
  present,   \* history: whose last check-in was answered and not taken back
  torn,      \* history: whose check-in stopped half-way, or had two roles reset at once
  raced      \* history: two check-ins for the timer's role both found it free

vars == <<checkins, req, made, begun, present, torn, raced>>

Idle      == [pc |-> "idle"]
At(r, pc) == req[r].pc = pc
Of(w)     == {c \in checkins : c.who = w}
In(role)  == {c \in checkins : c.role = role}

Init ==
  /\ checkins = {} /\ req = [r \in Request |-> Idle]
  /\ made = 0 /\ begun = 0
  /\ present = {} /\ torn = {} /\ raced = FALSE

GoTo(r, state) == req' = [req EXCEPT ![r] = state]
Done(r)        == GoTo(r, Idle)

MayBegin(r) == At(r, "idle") /\ begun < MaxRequests

Begin(r, state) ==
  /\ MayBegin(r)
  /\ begun' = begun + 1
  /\ GoTo(r, state)

-----------------------------------------------------------------------------
(* Checking in                                                             *)

\* No segments: present in general; an empty list: not present after all.
Wanted == {{NoRole}, {}} \cup SUBSET Role

CheckIn(r, w, roles) ==
  /\ Begin(r, [pc |-> IF Timer \in roles THEN "timer?" ELSE "delete", who |-> w, roles |-> roles])
  /\ UNCHANGED <<checkins, made, present, torn, raced>>

\* Mutant: whoever asks last has the role.
TimerTakenNever(w, c) == FALSE

TimerTaken(w, c) == c.who # w

\* Any row of the timer's segment tells whose it is.
ReadTimer(r) ==
  /\ At(r, "timer?")
  /\ \/ /\ \E c \in In(Timer) : TimerTaken(req[r].who, c)
        /\ Done(r)
     \/ /\ In(Timer) # {} => \E c \in In(Timer) : ~TimerTaken(req[r].who, c)
        /\ GoTo(r, [req[r] EXCEPT !.pc = "delete"])
  /\ UNCHANGED <<checkins, made, begun, present, torn, raced>>

\* create_checkins removes what the person has, ...
DeleteOld(r) ==
  /\ At(r, "delete")
  /\ LET w == req[r].who IN
       /\ checkins' = checkins \ Of(w)
       /\ IF req[r].roles = {} THEN Done(r) /\ present' = present \ {w}
                               ELSE GoTo(r, [req[r] EXCEPT !.pc = "insert"]) /\ UNCHANGED present
  /\ UNCHANGED <<made, begun, torn, raced>>

\* The others who have passed the check for the timer's role.
OtherTimer(r) ==
  \E q \in Request : /\ At(q, "delete") \/ At(q, "insert")
                     /\ Timer \in req[q].roles /\ req[q].who # req[r].who

\* ... and inserts the rows wanted, all of them or, if the person has one of these
\* roles by now, none.
InsertNew(r) ==
  /\ At(r, "insert")
  /\ LET w == req[r].who
         roles == req[r].roles
     IN IF \E c \in Of(w) : c.role \in roles \ {NoRole}
          THEN UNCHANGED <<checkins, made, present, raced>>
          ELSE /\ made' = made + Cardinality(roles)
               /\ \E id \in [roles -> (made + 1)..made'] :
                    /\ \A a, b \in roles : id[a] = id[b] => a = b
                    /\ checkins' = checkins \cup {[id |-> id[a], who |-> w, role |-> a] : a \in roles}
               /\ present' = present \cup {w}
               /\ raced' = (raced \/ (Timer \in roles /\ OtherTimer(r)))
  /\ Done(r)
  /\ UNCHANGED <<begun, torn>>

\* The insert fails, or the function dies before it.
FailInsert(r) ==
  /\ At(r, "insert")
  /\ torn' = torn \cup {req[r].who}
  /\ Done(r)
  /\ UNCHANGED <<checkins, made, begun, present, raced>>

-----------------------------------------------------------------------------
(* Taking a role away                                                      *)

\* reset_segment_checkin finds a row of the segment, ...
Reset(r, role) ==
  /\ \E c \in In(role) : Begin(r, [pc |-> "count", id |-> c.id, who |-> c.who])
  /\ UNCHANGED <<checkins, made, present, torn, raced>>

\* Mutant: off by one.
HasOthersOrThis(n) == n > 0

HasOthers(n) == n > 1

\* ... counts the rows of its person, ...
CountRows(r) ==
  /\ At(r, "count")
  /\ GoTo(r, [req[r] EXCEPT
       !.pc = IF HasOthers(Cardinality(Of(req[r].who))) THEN "remove" ELSE "nullify"])
  /\ UNCHANGED <<checkins, made, begun, present, torn, raced>>

\* Another reset of the same person has counted and will delete.
OtherRemove(r) == \E q \in Request \ {r} : At(q, "remove") /\ req[q].who = req[r].who

\* ... and deletes the row, if the person has others, or takes the role out of it.
Release(r) ==
  /\ At(r, "remove") \/ At(r, "nullify")
  /\ LET row == {c \in checkins : c.id = req[r].id} IN
       checkins' = (checkins \ row) \cup
                   IF At(r, "remove") THEN {} ELSE {[c EXCEPT !.role = NoRole] : c \in row}
  /\ torn' = IF At(r, "remove") /\ OtherRemove(r) THEN torn \cup {req[r].who} ELSE torn
  /\ Done(r)
  /\ UNCHANGED <<made, begun, present, raced>>

Step(r) ==
  \/ MayBegin(r) /\ \/ \E w \in Person, roles \in Wanted : CheckIn(r, w, roles)
                    \/ \E role \in Role : Reset(r, role)
  \/ ReadTimer(r) \/ DeleteOld(r) \/ InsertNew(r) \/ FailInsert(r)
  \/ CountRows(r) \/ Release(r)

Next == \E r \in Request : Step(r)

Spec == Init /\ [][Next]_vars

-----------------------------------------------------------------------------
(* Properties                                                              *)

TypeOK ==
  /\ \A c \in checkins : c.id \in 1..made /\ c.who \in Person /\ c.role \in Role \cup {NoRole}
  /\ \A c, d \in checkins : c.id = d.id => c = d
  /\ \A r \in Request : req[r].pc \in {"idle", "timer?", "delete", "insert", "count",
                                       "remove", "nullify"}
  /\ present \cup torn \subseteq Person /\ raced \in BOOLEAN

\* Who has checked in stays present, whatever roles are reset and however often the
\* person checks in again, except while a check-in is being replaced, after one that
\* stopped half-way, and after two of the person's roles were reset at once.
AttendanceIsKept ==
  \A w \in present \ torn :
    Of(w) # {} \/ \E r \in Request : At(r, "insert") /\ req[r].who = w

\* One person has the timer's role, unless two asked for it at the same time.
OneTimer == ~raced => \A c, d \in In(Timer) : c.who = d.who

CheckinsHold == AttendanceIsKept /\ OneTimer
=============================================================================
