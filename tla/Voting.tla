------------------------------- MODULE Voting -------------------------------
(***************************************************************************)
(* The vote of a meeting: a form names the candidates, a switch opens and  *)
(* closes the vote, and anyone casts votes while it is open.  Every        *)
(* request is a few statements, and the functions that serve them overlap  *)
(* between any two.  Only the counting itself is one statement; a member   *)
(* who moves a candidate to another segment writes back the whole row.     *)
(***************************************************************************)
EXTENDS Naturals, FiniteSets

CONSTANTS Request,     \* requests being served at a time
          Candidate,   \* category and name
          Segment,     \* what a candidate may be linked to
          NoOne,       \* no row
          MaxRows,     \* bound: rows ever inserted
          MaxRequests  \* bound: requests served

\* A row of the votes table, without its category and name.
Row == [id : Nat, segment : Segment, count : Nat]

\* What the constants are in the code: there are so many candidates, and no row
\* is none.
Setting == IsFiniteSet(Candidate) /\ MaxRows \in Nat /\ NoOne \notin Row

VARIABLES
  votes,    \* candidate -> row of the votes table, or NoOne
  status,   \* votes_status.open: "unset", "open", "closed"
  over,     \* the meeting has ended
  req,      \* progress of each request and what it has read
  made,     \* rows inserted so far, which gives them their ids
  begun,    \* requests begun so far
  acked,    \* history: votes answered as counted, by the id of the row
  risky,    \* history: ids of rows voted for while a form was being saved
  stray     \* history: a vote was counted that was never cast in the open

vars == <<votes, status, over, req, made, begun, acked, risky, stray>>

Idle  == [pc |-> "idle"]
At(r, pc) == req[r].pc = pc
Rows  == {c \in Candidate : votes[c] # NoOne}

Init ==
  /\ votes = [c \in Candidate |-> NoOne]
  /\ status = "unset" /\ over = FALSE
  /\ req = [r \in Request |-> Idle]
  /\ made = 0 /\ begun = 0
  /\ acked = [i \in 1..MaxRows |-> 0] /\ risky = {} /\ stray = FALSE

GoTo(r, state) == req' = [req EXCEPT ![r] = state]
Done(r)        == GoTo(r, Idle)

Casting(r)     == req[r].pc \in {"open?", "valid?", "count"}

MayBegin(r) == At(r, "idle") /\ begun < MaxRequests

Begin(r, state) ==
  /\ MayBegin(r)
  /\ begun' = begun + 1
  /\ GoTo(r, state)

\* The meeting's end time passes.
End ==
  /\ ~over /\ over' = TRUE
  /\ UNCHANGED <<votes, status, req, made, begun, acked, risky, stray>>

-----------------------------------------------------------------------------
(* Casting votes                                                           *)

\* cast_votes looks at the meeting's end, ...
Cast(r, chosen) ==
  /\ ~over
  /\ Begin(r, [pc |-> "open?", chosen |-> chosen, open |-> status = "open"])
  /\ UNCHANGED <<votes, status, over, made, acked, risky, stray>>

\* Mutant: the switch is not looked at.
ReadOpenNever(r) ==
  /\ At(r, "open?")
  /\ GoTo(r, [req[r] EXCEPT !.pc = "valid?"])
  /\ UNCHANGED <<votes, status, over, made, begun, acked, risky, stray>>
\* ... at the switch, ...
ReadOpen(r) ==
  /\ At(r, "open?")
  /\ IF status = "open" THEN GoTo(r, [req[r] EXCEPT !.pc = "valid?"]) ELSE Done(r)
  /\ UNCHANGED <<votes, status, over, made, begun, acked, risky, stray>>

\* ... and at the candidates there are.
Validate(r) ==
  /\ At(r, "valid?")
  /\ LET valid == req[r].chosen \cap Rows IN
     IF valid # {} THEN GoTo(r, [req[r] EXCEPT !.pc = "count", !.chosen = valid])
                   ELSE Done(r)
  /\ UNCHANGED <<votes, status, over, made, begun, acked, risky, stray>>

\* A form that has read the rows and has not written them back yet.
FormPending == \E f \in Request : At(f, "upsert")

\* increment_votes: one statement for every candidate, in one transaction.  The
\* rows it returns are the answer.
Count(r) ==
  /\ At(r, "count")
  /\ LET hit == req[r].chosen \cap Rows
         ids == {votes[c].id : c \in hit}
     IN
       /\ votes' = [c \in Candidate |-> IF c \in hit THEN [votes[c] EXCEPT !.count = @ + 1]
                                                     ELSE votes[c]]
       /\ acked' = [i \in 1..MaxRows |-> IF i \in ids THEN acked[i] + 1 ELSE acked[i]]
       /\ risky' = IF FormPending THEN risky \cup ids ELSE risky
       /\ stray' = (stray \/ (hit # {} /\ ~req[r].open))
  /\ Done(r)
  /\ UNCHANGED <<status, over, made, begun>>

-----------------------------------------------------------------------------
(* The form                                                                *)

Form == UNION {[chosen -> Segment] : chosen \in SUBSET Candidate}

\* save_vote_form reads all rows, ...
Save(r, form) ==
  /\ Begin(r, [pc |-> "upsert", form |-> form, seen |-> votes])
  /\ UNCHANGED <<votes, status, over, made, acked, risky, stray>>

Seen(r)    == {c \in Candidate : req[r].seen[c] # NoOne}
Named(r)   == DOMAIN req[r].form
Moved(r)   == {c \in Named(r) \cap Seen(r) : req[r].seen[c].segment # req[r].form[c]}
New(r)     == Named(r) \ Seen(r)
Dropped(r) == IF Named(r) = {} THEN {} ELSE Seen(r) \ Named(r)

\* Mutant: the row is built like a new one.
MovedRowAfresh(row, segment) == [row EXCEPT !.segment = segment, !.count = 0]

\* The whole row as it was read, with another segment.
MovedRow(row, segment) == [row EXCEPT !.segment = segment]

\* ... then writes the rows of moved candidates under their ids: a row deleted
\* meanwhile is inserted again, unless its candidate has a new row by now, ...
Upsert(r) ==
  /\ At(r, "upsert")
  /\ IF \E c \in Moved(r) : votes[c] # NoOne /\ votes[c].id # req[r].seen[c].id
       THEN Done(r) /\ UNCHANGED votes
       ELSE /\ votes' = [c \in Candidate |->
                          IF c \in Moved(r) THEN MovedRow(req[r].seen[c], req[r].form[c])
                                            ELSE votes[c]]
            /\ GoTo(r, [req[r] EXCEPT !.pc = "insert"])
  /\ UNCHANGED <<status, over, made, begun, acked, risky, stray>>

\* ... inserts the new candidates, all of them or, if one has a row, none, ...
Insert(r) ==
  /\ At(r, "insert")
  /\ IF New(r) \cap Rows # {}
       THEN Done(r) /\ UNCHANGED <<votes, made>>
       ELSE /\ made + Cardinality(New(r)) <= MaxRows
            /\ made' = made + Cardinality(New(r))
            /\ \E id \in [New(r) -> (made + 1)..made'] :
                 /\ \A c, d \in New(r) : id[c] = id[d] => c = d
                 /\ votes' = [c \in Candidate |->
                      IF c \in New(r)
                        THEN [id |-> id[c], segment |-> req[r].form[c], count |-> 0]
                        ELSE votes[c]]
            /\ GoTo(r, [req[r] EXCEPT !.pc = "delete"])
  /\ UNCHANGED <<status, over, begun, acked, risky, stray>>

\* ... and deletes, by id, the rows that the form does not name.
Delete(r) ==
  /\ At(r, "delete")
  /\ votes' = [c \in Candidate |->
                IF c \in Dropped(r) /\ votes[c] # NoOne /\ votes[c].id = req[r].seen[c].id
                  THEN NoOne ELSE votes[c]]
  /\ Done(r)
  /\ UNCHANGED <<status, over, made, begun, acked, risky, stray>>

\* A statement fails, or the function dies: the rest is not done.
Fail(r) ==
  /\ req[r].pc \in {"upsert", "insert", "delete"} /\ Done(r)
  /\ UNCHANGED <<votes, status, over, made, begun, acked, risky, stray>>

-----------------------------------------------------------------------------
(* The switch                                                              *)

\* A vote without candidates cannot be opened.
Switch(r, to) ==
  /\ to = "open" => Rows # {}
  /\ Begin(r, [pc |-> "status?", to |-> to])
  /\ UNCHANGED <<votes, status, over, made, acked, risky, stray>>

ReadStatus(r) ==
  /\ At(r, "status?")
  /\ GoTo(r, [req[r] EXCEPT !.pc = IF status = "unset" THEN "create" ELSE "update"])
  /\ UNCHANGED <<votes, status, over, made, begun, acked, risky, stray>>

\* The row of the switch is updated, or inserted if there was none; there is one
\* per meeting, and a second insert fails.
SetStatus(r) ==
  /\ At(r, "update") \/ At(r, "create")
  /\ LET fails == At(r, "create") /\ status # "unset" IN
       /\ status' = IF fails THEN status ELSE req[r].to
       /\ req' = [q \in Request |->
            IF q = r THEN Idle
            ELSE IF Casting(q) /\ status' = "open" THEN [req[q] EXCEPT !.open = TRUE]
            ELSE req[q]]
  /\ UNCHANGED <<votes, over, made, begun, acked, risky, stray>>

Step(r) ==
  \/ MayBegin(r) /\ \/ \E chosen \in SUBSET Candidate \ {{}} : Cast(r, chosen)
                    \/ \E form \in Form : Save(r, form)
                    \/ \E to \in {"open", "closed"} : Switch(r, to)
  \/ ReadOpen(r) \/ Validate(r) \/ Count(r)
  \/ Upsert(r) \/ Insert(r) \/ Delete(r) \/ Fail(r)
  \/ ReadStatus(r) \/ SetStatus(r)

Next == End \/ \E r \in Request : Step(r)

Spec == Init /\ [][Next]_vars

-----------------------------------------------------------------------------
(* Properties                                                              *)

TypeOK ==
  /\ \A c \in Rows : /\ votes[c].id \in 1..made /\ votes[c].segment \in Segment
                      /\ votes[c].count \in Nat
  /\ status \in {"unset", "open", "closed"} /\ over \in BOOLEAN
  /\ \A r \in Request : req[r].pc \in {"idle", "open?", "valid?", "count", "upsert",
                                       "insert", "delete", "status?", "update", "create"}
  /\ risky \subseteq 1..made

\* Every vote that was answered as counted for a row is in its count, and no other,
\* however requests overlap, forms stop half-way and deleted rows return; a vote
\* cast while a form was being saved is the exception.  Nothing is counted for a
\* request during which the vote was never open.
VotesAreCounted ==
  /\ \A c \in Rows : votes[c].id \in risky \/ votes[c].count = acked[votes[c].id]
  /\ ~stray
=============================================================================
