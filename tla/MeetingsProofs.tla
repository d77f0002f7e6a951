---------------------------- MODULE MeetingsProofs ----------------------------
(***************************************************************************)
(* What members keep of a meeting, each table with the requests that use   *)
(* it: the votes, the check-ins, the timer's records, and the meeting with *)
(* its agenda; and the draft page on which the meeting agent prepares one. *)
(* The theorems hold for any number of requests, and of turns.  The names  *)
(* are those of Services, where a variable that two parts have stands for  *)
(* that of the part in question.                                           *)
(***************************************************************************)
EXTENDS Services, FiniteSetTheorems, SequenceTheorems, WellFoundedInduction, TLAPS

-----------------------------------------------------------------------------
(* The vote of a meeting                                                   *)

\* An instance counts as its module does.
LEMMA VotesCount ==
  \A S : (V!IsFiniteSet(S) <=> IsFiniteSet(S)) /\ V!Cardinality(S) = Cardinality(S)
<1>1. \A S : V!IsFiniteSet(S) <=> IsFiniteSet(S)
  BY DEF IsFiniteSet, V!IsFiniteSet
<1>2. \A S : V!Cardinality(S) = Cardinality(S)
  BY Zenon DEF Cardinality, V!Cardinality, IsFiniteSet, V!IsFiniteSet
<1> QED BY <1>1, <1>2

\* The table, and what a form has read of it.
Rowed == [Candidate -> V!Row \cup {NoOne}]

\* What a request carries: a cast vote, a form, or the switch.
Reqs ==
  {V!Idle} \cup [pc : {"open?", "valid?", "count"}, chosen : SUBSET Candidate, open : BOOLEAN]
           \cup [pc : {"upsert", "insert", "delete"}, form : V!Form, seen : Rowed]
           \cup [pc : {"status?", "create", "update"}, to : {"open", "closed"}]

VoteTypes ==
  /\ votes \in Rowed /\ req \in [Handler -> Reqs]
  /\ status \in {"unset", "open", "closed"} /\ over \in BOOLEAN
  /\ made \in 0..MaxVotes /\ begun \in Nat
  /\ acked \in [1..MaxVotes -> Nat] /\ risky \subseteq 1..made

\* What a form has read.
Saving(r) == req[r].pc \in {"upsert", "insert", "delete"}

\* An id is one candidate's, in the table and in what the forms have read.
BooksOK ==
  /\ \A c \in V!Rows : votes[c].id \in 1..made
  /\ \A c, d \in V!Rows : votes[c].id = votes[d].id => c = d
  /\ \A r \in Handler : Saving(r) => \A c \in V!Seen(r) :
       /\ req[r].seen[c].id \in 1..made
       /\ \A d \in V!Rows : req[r].seen[c].id = votes[d].id => c = d
       /\ \A q \in Handler : Saving(q) => \A d \in V!Seen(q) :
            req[r].seen[c].id = req[q].seen[d].id => c = d

\* What is counted, in the table and in what a form is about to write back.
CountsOK ==
  /\ \A c \in V!Rows : votes[c].id \in risky \/ votes[c].count = acked[votes[c].id]
  /\ \A r \in Handler : V!At(r, "upsert") => \A c \in V!Seen(r) :
       req[r].seen[c].id \in risky \/ req[r].seen[c].count = acked[req[r].seen[c].id]
  /\ \A i \in 1..MaxVotes : i > made => acked[i] = 0

\* Who may still count has seen the vote open.
CastsOK ==
  /\ ~stray
  /\ \A r \in Handler : /\ V!At(r, "open?") /\ status = "open" => req[r].open
                        /\ req[r].pc \in {"valid?", "count"} => req[r].open

VoteInv == VoteTypes /\ BooksOK /\ CountsOK /\ CastsOK

-----------------------------------------------------------------------------
\* A request whose next state reads no rows that it had not read: only its own
\* record changes.
LEMMA RequestStep ==
  ASSUME VoteInv, NEW r \in Handler, NEW q \in Reqs, V!GoTo(r, q),
         UNCHANGED <<votes, status, over, made, acked, risky, stray>>, begun' \in Nat,
         q.pc \in {"upsert", "insert", "delete"} =>
            (/\ q.seen = votes \/ (Saving(r) /\ q.seen = req[r].seen)
             /\ q.pc = "upsert" => q.seen = votes),
         q.pc = "open?" /\ status = "open" => q.open,
         q.pc \in {"valid?", "count"} => q.open
  PROVE  VoteInv'
<1>1. req' = [req EXCEPT ![r] = q] /\ req \in [Handler -> Reqs]
  BY DEF V!GoTo, VoteInv, VoteTypes
<1>2. \A p \in Handler : req'[p] = IF p = r THEN q ELSE req[p]
  BY <1>1
<1>3. VoteTypes'
  BY <1>1 DEF VoteInv, VoteTypes
<1>4. BooksOK'
  BY <1>2 DEF VoteInv, BooksOK, V!Rows, Saving, V!Seen
<1>5. CountsOK'
  BY <1>2 DEF VoteInv, CountsOK, V!Rows, V!At, V!Seen
<1>6. CastsOK'
  BY <1>2 DEF VoteInv, CastsOK, V!At
<1> QED BY <1>3, <1>4, <1>5, <1>6 DEF VoteInv

LEMMA CastStep ==
  ASSUME VoteInv, NEW r \in Handler,
         \/ \E chosen \in SUBSET Candidate \ {{}} : V!Cast(r, chosen)
         \/ V!ReadOpen(r) \/ V!Validate(r)
  PROVE  VoteInv'
<1>1. req[r] \in Reqs /\ begun \in Nat
  BY DEF VoteInv, VoteTypes
<1>2. V!Idle \in Reqs /\ V!Idle.pc = "idle"
  BY DEF Reqs, V!Idle
<1>3. ASSUME NEW chosen \in SUBSET Candidate \ {{}}, V!Cast(r, chosen) PROVE VoteInv'
  <2>1. PICK q : q = [pc |-> "open?", chosen |-> chosen, open |-> status = "open"]
    OBVIOUS
  <2>2. (status = "open") \in BOOLEAN
    OBVIOUS
  <2>3. q \in Reqs /\ q.pc = "open?" /\ (status = "open" => q.open)
    BY <2>1, <2>2 DEF Reqs
  <2> QED BY <1>1, <1>3, <2>1, <2>3, RequestStep DEF V!Cast, V!Begin
<1>4. ASSUME V!ReadOpen(r) PROVE VoteInv'
  <2>1. req[r] \in [pc : {"open?", "valid?", "count"}, chosen : SUBSET Candidate, open : BOOLEAN]
    BY <1>1, <1>4 DEF V!ReadOpen, V!At, Reqs, V!Idle
  <2>2. PICK q : q = IF status = "open" THEN [req[r] EXCEPT !.pc = "valid?"] ELSE V!Idle
    OBVIOUS
  <2>3. q \in Reqs /\ q.pc \in {"idle", "valid?"} /\ (q.pc = "valid?" => q.open)
    BY <1>2, <1>4, <2>1, <2>2 DEF Reqs, VoteInv, CastsOK, V!ReadOpen, V!At
  <2>4. V!GoTo(r, q)
    BY <1>4, <2>2 DEF V!ReadOpen, V!Done
  <2>5. UNCHANGED <<votes, status, over, made, begun, acked, risky, stray>>
    BY <1>4 DEF V!ReadOpen
  <2> QED BY <1>1, <2>3, <2>4, <2>5, RequestStep
<1>5. ASSUME V!Validate(r) PROVE VoteInv'
  <2>1. req[r] \in [pc : {"open?", "valid?", "count"}, chosen : SUBSET Candidate, open : BOOLEAN]
    BY <1>1, <1>5 DEF V!Validate, V!At, Reqs, V!Idle
  <2>2. PICK q : q = IF req[r].chosen \cap V!Rows # {}
                         THEN [req[r] EXCEPT !.pc = "count", !.chosen = req[r].chosen \cap V!Rows]
                         ELSE V!Idle
    OBVIOUS
  <2>3. q \in Reqs /\ q.pc \in {"idle", "count"} /\ (q.pc = "count" => q.open)
    BY <1>2, <1>5, <2>1, <2>2 DEF Reqs, VoteInv, CastsOK, V!Validate, V!At
  <2>4. V!GoTo(r, q)
    BY <1>5, <2>2 DEF V!Validate, V!Done
  <2>5. UNCHANGED <<votes, status, over, made, begun, acked, risky, stray>>
    BY <1>5 DEF V!Validate
  <2> QED BY <1>1, <2>3, <2>4, <2>5, RequestStep
<1> QED BY <1>3, <1>4, <1>5

\* The votes of one request are counted.
LEMMA CountStep ==
  ASSUME V!Setting, VoteInv, NEW r \in Handler, V!Count(r)
  PROVE  VoteInv'
<1>1. PICK hit, ids :
        /\ hit = req[r].chosen \cap V!Rows /\ ids = {votes[c].id : c \in hit}
        /\ votes' = [c \in Candidate |-> IF c \in hit THEN [votes[c] EXCEPT !.count = @ + 1]
                                                      ELSE votes[c]]
        /\ acked' = [i \in 1..MaxVotes |-> IF i \in ids THEN acked[i] + 1 ELSE acked[i]]
        /\ risky' = IF V!FormPending THEN risky \cup ids ELSE risky
        /\ stray' = (stray \/ (hit # {} /\ ~req[r].open))
  BY DEF V!Count
<1>2. req' = [req EXCEPT ![r] = V!Idle] /\ UNCHANGED <<status, over, made, begun>> /\ V!At(r, "count")
  BY DEF V!Count, V!Done, V!GoTo
<1>3. /\ votes \in Rowed /\ req \in [Handler -> Reqs] /\ V!Idle \in Reqs
      /\ V!Rows \subseteq Candidate /\ hit \subseteq V!Rows
      /\ made \in Nat /\ MaxVotes \in Nat /\ made <= MaxVotes
  BY <1>1 DEF VoteInv, VoteTypes, Reqs, V!Rows, V!Setting
<1>4. \A c \in V!Rows : votes[c] \in V!Row /\ votes[c].id \in 1..made
  BY <1>3 DEF Rowed, V!Rows, VoteInv, BooksOK
<1>5. \A c \in Candidate :
        /\ c \notin hit => votes'[c] = votes[c]
        /\ c \in hit => /\ votes'[c] = [votes[c] EXCEPT !.count = @ + 1]
                        /\ votes'[c] \in V!Row /\ votes'[c].id = votes[c].id
                        /\ votes'[c].count = votes[c].count + 1
  BY <1>1, <1>3, <1>4 DEF V!Row
<1>6. votes' \in Rowed /\ V!Rows' = V!Rows
  <2>1. votes' \in Rowed
    BY <1>1, <1>3, <1>5 DEF Rowed
  <2>2. \A c \in Candidate : votes'[c] = NoOne <=> votes[c] = NoOne
    BY <1>3, <1>4, <1>5 DEF V!Setting, V!Rows
  <2> QED BY <2>1, <2>2 DEF V!Rows
<1>7. ids \subseteq 1..made
  BY <1>1, <1>3, <1>4
<1>8. \A c \in V!Rows : votes'[c].id = votes[c].id /\ (votes[c].id \in ids <=> c \in hit)
  BY <1>1, <1>3, <1>5 DEF VoteInv, BooksOK
<1>9. \A p \in Handler : req'[p] = IF p = r THEN V!Idle ELSE req[p]
  BY <1>2, <1>3
<1>10. VoteTypes'
  BY <1>1, <1>2, <1>3, <1>6, <1>7 DEF VoteInv, VoteTypes
<1>11. BooksOK'
  BY <1>2, <1>6, <1>8, <1>9 DEF VoteInv, BooksOK, Saving, V!Seen, V!Idle
<1>12. CountsOK'
  <2>1. \A c \in V!Rows : votes'[c].id \in risky' \/ votes'[c].count = acked'[votes'[c].id]
    <3>1. ASSUME NEW c \in V!Rows, votes[c].id \notin risky'
          PROVE  votes'[c].count = acked'[votes[c].id]
      <4>1. votes[c].count = acked[votes[c].id]
        BY <1>1, <3>1 DEF VoteInv, CountsOK
      <4>2. votes[c].id \in 1..MaxVotes
        BY <1>3, <1>4
      <4> QED BY <1>1, <1>3, <1>5, <1>8, <3>1, <4>1, <4>2
    <3> QED BY <1>8, <3>1
  <2>2. ASSUME NEW f \in Handler, V!At(f, "upsert")', NEW c \in V!Seen(f)', req'[f].seen[c].id \notin risky'
        PROVE  req'[f].seen[c].count = acked'[req'[f].seen[c].id]
    <3>1. f # r /\ req'[f] = req[f]
      BY <1>9, <2>2 DEF V!At, V!Idle
    <3>2. V!At(f, "upsert") /\ c \in V!Seen(f) /\ V!FormPending
      BY <2>2, <3>1 DEF V!At, V!Seen, V!FormPending
    <3>3. req[f].seen[c].count = acked[req[f].seen[c].id] /\ req[f].seen[c].id \notin ids
      BY <1>1, <2>2, <3>1, <3>2 DEF VoteInv, CountsOK
    <3>4. req[f].seen[c].id \in 1..MaxVotes
      BY <1>3, <3>2 DEF VoteInv, BooksOK, Saving, V!At
    <3> QED BY <1>1, <3>1, <3>3, <3>4
  <2>3. \A i \in 1..MaxVotes : i > made' => acked'[i] = 0
    BY <1>1, <1>2, <1>3, <1>7 DEF VoteInv, CountsOK
  <2> QED BY <1>6, <2>1, <2>2, <2>3 DEF CountsOK
<1>13. CastsOK'
  <2>1. req[r].open /\ ~stray'
    BY <1>1, <1>2 DEF VoteInv, CastsOK, V!At
  <2> QED BY <1>2, <1>9, <2>1 DEF VoteInv, CastsOK, V!At, V!Idle
<1> QED BY <1>10, <1>11, <1>12, <1>13 DEF VoteInv

-----------------------------------------------------------------------------
\* A request in one of the three statements of a form.
FormReqs == [pc : {"upsert", "insert", "delete"}, form : V!Form, seen : Rowed]

\* A form links candidates to segments.
LEMMA FormNames ==
  ASSUME NEW form \in V!Form
  PROVE  /\ DOMAIN form \subseteq Candidate
         /\ \A c \in DOMAIN form : form[c] \in Section
BY DEF V!Form

\* The table changes under the ids it has had: a row that a form has read returns,
\* or rows go.
LEMMA TableStep ==
  ASSUME V!Setting, VoteInv, NEW r \in Handler, NEW q \in Reqs, V!GoTo(r, q),
         req[r] \in FormReqs, votes' \in Rowed,
         UNCHANGED <<status, over, made, begun, acked, risky, stray>>,
         q = V!Idle \/ (q.pc \in {"insert", "delete"} /\ q.seen = req[r].seen),
         \A c \in V!Rows' : \/ c \in V!Rows /\ votes'[c] = votes[c]
                            \/ /\ c \in V!Seen(r) /\ V!At(r, "upsert")
                               /\ votes'[c].id = req[r].seen[c].id
                               /\ votes'[c].count = req[r].seen[c].count
  PROVE  VoteInv'
<1>1. req' = [req EXCEPT ![r] = q] /\ req \in [Handler -> Reqs] /\ V!Idle.pc = "idle"
  BY DEF V!GoTo, VoteInv, VoteTypes, V!Idle
<1>2. \A p \in Handler : req'[p] = IF p = r THEN q ELSE req[p]
  BY <1>1
<1>3. VoteTypes'
  BY <1>1 DEF VoteInv, VoteTypes
<1>4. Saving(r)
  BY DEF FormReqs, Saving
<1>5. \A p \in Handler : Saving(p)' => Saving(p) /\ V!Seen(p)' = V!Seen(p) /\ req'[p].seen = req[p].seen
  BY <1>1, <1>2, <1>4 DEF Saving, V!Seen
<1>6. \A c \in V!Rows' : /\ c \in Candidate
                         /\ \/ c \in V!Rows /\ votes'[c].id = votes[c].id
                            \/ c \in V!Seen(r) /\ votes'[c].id = req[r].seen[c].id
  BY DEF V!Rows
<1>7. BooksOK'
  <2>1. \A c \in V!Rows' : votes'[c].id \in 1..made'
    BY <1>4, <1>6 DEF VoteInv, BooksOK
  <2>2. \A c, d \in V!Rows' : votes'[c].id = votes'[d].id => c = d
    BY <1>4, <1>6 DEF VoteInv, BooksOK
  <2>3. ASSUME NEW p \in Handler, Saving(p)', NEW c \in V!Seen(p)'
        PROVE  /\ req'[p].seen[c].id \in 1..made'
               /\ \A d \in V!Rows' : req'[p].seen[c].id = votes'[d].id => c = d
               /\ \A o \in Handler : Saving(o)' => \A d \in V!Seen(o)' :
                    req'[p].seen[c].id = req'[o].seen[d].id => c = d
    <3>1. Saving(p) /\ c \in V!Seen(p) /\ req'[p].seen = req[p].seen
      BY <1>5, <2>3
    <3>2. \A d \in V!Rows' : req[p].seen[c].id = votes'[d].id => c = d
      BY <1>4, <1>6, <3>1 DEF VoteInv, BooksOK
    <3>3. \A o \in Handler : Saving(o) => \A d \in V!Seen(o) :
            req[p].seen[c].id = req[o].seen[d].id => c = d
      BY <3>1 DEF VoteInv, BooksOK
    <3> QED BY <1>5, <3>1, <3>2, <3>3 DEF VoteInv, BooksOK
  <2> QED BY <2>1, <2>2, <2>3 DEF BooksOK
<1>8. CountsOK'
  <2>1. \A c \in V!Rows' : votes'[c].id \in risky \/ votes'[c].count = acked[votes'[c].id]
    BY DEF VoteInv, CountsOK
  <2>2. \A p \in Handler : V!At(p, "upsert")' => V!At(p, "upsert") /\ req'[p] = req[p]
    BY <1>1, <1>2 DEF V!At
  <2> QED BY <2>1, <2>2 DEF VoteInv, CountsOK, V!Seen
<1>9. CastsOK'
  BY <1>1, <1>2 DEF VoteInv, CastsOK, V!At
<1> QED BY <1>3, <1>7, <1>8, <1>9 DEF VoteInv

LEMMA UpsertStep ==
  ASSUME V!Setting, VoteInv, NEW r \in Handler, V!Upsert(r)
  PROVE  VoteInv'
<1>1. /\ V!At(r, "upsert") /\ req[r] \in FormReqs /\ V!Idle \in Reqs
      /\ UNCHANGED <<status, over, made, begun, acked, risky, stray>>
      /\ votes \in Rowed /\ req[r] \in Reqs
  BY DEF V!Upsert, V!At, VoteInv, VoteTypes, Reqs, FormReqs, V!Idle
<1>2. CASE V!GoTo(r, V!Idle) /\ votes' = votes
  BY <1>1, <1>2, TableStep DEF V!Rows
<1>3. CASE ~(V!GoTo(r, V!Idle) /\ votes' = votes)
  <2>1. PICK q, seen, form :
          q = [req[r] EXCEPT !.pc = "insert"] /\ seen = req[r].seen /\ form = req[r].form
    OBVIOUS
  <2>2. /\ V!GoTo(r, q)
        /\ votes' = [c \in Candidate |-> IF c \in V!Moved(r) THEN V!MovedRow(seen[c], form[c])
                                                             ELSE votes[c]]
    BY <1>3, <2>1 DEF V!Upsert, V!Done
  <2>3. /\ q \in Reqs /\ q.pc = "insert" /\ q.seen = seen /\ seen \in Rowed /\ form \in V!Form
    BY <1>1, <2>1 DEF FormReqs, Reqs
  <2>4. \A c \in V!Moved(r) : c \in V!Seen(r) /\ c \in DOMAIN form /\ seen[c] # NoOne
    BY <2>1 DEF V!Moved, V!Seen, V!Named
  <2>5. \A c \in V!Moved(r) : /\ V!MovedRow(seen[c], form[c]) \in V!Row
                              /\ V!MovedRow(seen[c], form[c]).id = seen[c].id
                              /\ V!MovedRow(seen[c], form[c]).count = seen[c].count
    <3>1. ASSUME NEW c \in V!Moved(r) PROVE seen[c] \in V!Row /\ form[c] \in Section
      BY <2>3, <2>4, FormNames DEF Rowed, V!Seen
    <3> QED BY <3>1 DEF V!MovedRow, V!Row
  <2>6. votes' \in Rowed
    BY <1>1, <2>2, <2>5 DEF Rowed
  <2>7. \A c \in V!Rows' : \/ c \in V!Rows /\ votes'[c] = votes[c]
                           \/ c \in V!Seen(r) /\ votes'[c].id = seen[c].id /\ votes'[c].count = seen[c].count
    BY <2>2, <2>4, <2>5 DEF V!Rows
  <2> QED BY ZenonT(30), <1>1, <2>1, <2>2, <2>3, <2>6, <2>7, TableStep
<1> QED BY <1>2, <1>3

\* The rows inserted have ids that nothing had before.
LEMMA InsertStep ==
  ASSUME V!Setting, VoteInv, NEW r \in Handler, V!Insert(r)
  PROVE  VoteInv'
<1>1. /\ V!At(r, "insert") /\ req[r] \in FormReqs /\ V!Idle \in Reqs
      /\ UNCHANGED <<status, over, begun, acked, risky, stray>>
      /\ votes \in Rowed /\ req[r] \in Reqs /\ req \in [Handler -> Reqs]
      /\ made \in 0..MaxVotes /\ MaxVotes \in Nat
  BY DEF V!Insert, V!At, VoteInv, VoteTypes, Reqs, FormReqs, V!Idle, V!Setting
<1>2. CASE V!GoTo(r, V!Idle) /\ votes' = votes /\ made' = made
  BY <1>1, <1>2, TableStep DEF V!Rows
<1>3. CASE ~(V!GoTo(r, V!Idle) /\ votes' = votes /\ made' = made)
  <2>1. PICK q, seen, new, form :
          /\ q = [req[r] EXCEPT !.pc = "delete"] /\ seen = req[r].seen
          /\ new = V!New(r) /\ form = req[r].form
    OBVIOUS
  <2>2. PICK id \in [new -> (made + 1)..made'] :
          /\ \A c, d \in new : id[c] = id[d] => c = d
          /\ votes' = [c \in Candidate |->
                         IF c \in new THEN [id |-> id[c], segment |-> form[c], count |-> 0]
                                      ELSE votes[c]]
    BY <1>3, <2>1 DEF V!Insert, V!Done
  <2>3. /\ made + Cardinality(new) <= MaxVotes /\ made' = made + Cardinality(new)
        /\ V!GoTo(r, q) /\ new \cap V!Rows = {}
    BY <1>3, <2>1, VotesCount DEF V!Insert, V!Done
  <2>4. /\ q \in Reqs /\ q.pc = "delete" /\ q.seen = seen /\ seen \in Rowed /\ form \in V!Form
    BY <1>1, <2>1 DEF FormReqs, Reqs
  <2>5. new \subseteq DOMAIN form /\ new \subseteq Candidate /\ \A c \in new : form[c] \in Section
    BY <2>1, <2>4, FormNames DEF V!New, V!Named
  <2>6. IsFiniteSet(new) /\ Cardinality(new) \in Nat
    BY <2>5, FS_Subset, FS_CardinalityType, VotesCount DEF V!Setting
  <2>7. made' \in 0..MaxVotes /\ made <= made'
    BY <1>1, <2>3, <2>6
  <2>8. \A c \in new : [id |-> id[c], segment |-> form[c], count |-> 0] \in V!Row
    BY <1>1, <2>2, <2>5, <2>7 DEF V!Row
  <2>9. votes' \in Rowed
    BY <1>1, <2>2, <2>8 DEF Rowed
  <2>10. \A c \in Candidate :
           /\ c \in new => /\ votes'[c].id = id[c] /\ votes'[c].id \in (made + 1)..made'
                           /\ votes'[c].count = 0
           /\ c \notin new => votes'[c] = votes[c]
    BY <2>2
  <2>11. \A p \in Handler : req'[p] = IF p = r THEN q ELSE req[p]
    BY <1>1, <2>3 DEF V!GoTo
  <2>12. \A p \in Handler : Saving(p)' => Saving(p) /\ V!Seen(p)' = V!Seen(p) /\ req'[p].seen = req[p].seen
    BY <1>1, <2>1, <2>4, <2>11 DEF Saving, V!Seen, V!At
  <2>13. VoteTypes'
    BY <1>1, <2>3, <2>4, <2>7, <2>9 DEF VoteInv, VoteTypes, V!GoTo
  <2>14. \A c \in V!Rows' : c \in new \/ (c \in V!Rows /\ votes'[c] = votes[c])
    BY <2>10 DEF V!Rows
  <2>15. BooksOK'
    <3>1. \A c \in V!Rows' : votes'[c].id \in 1..made'
      BY <1>1, <2>5, <2>7, <2>10, <2>14 DEF VoteInv, BooksOK
    <3>2. \A c, d \in V!Rows' : votes'[c].id = votes'[d].id => c = d
      <4>1. \A c \in V!Rows : votes[c].id \in 1..made
        BY DEF VoteInv, BooksOK
      <4>2. \A c, d \in V!Rows : votes[c].id = votes[d].id => c = d
        BY DEF VoteInv, BooksOK
      <4>3. \A c \in new, d \in V!Rows : id[c] # votes[d].id
        BY <1>1, <2>2, <2>7, <4>1
      <4>4. \A c \in new : votes'[c].id = id[c]
        BY <2>5, <2>10
      <4> SUFFICES ASSUME NEW c \in V!Rows', NEW d \in V!Rows', votes'[c].id = votes'[d].id
                   PROVE  c = d
        OBVIOUS
      <4>5. CASE c \in new /\ d \in new
        BY <2>2, <4>4, <4>5
      <4>6. CASE c \notin new /\ d \notin new
        BY <2>14, <4>2, <4>6
      <4>7. CASE c \in new <=> d \notin new
        BY <2>14, <4>3, <4>4, <4>7
      <4> QED BY <4>5, <4>6, <4>7
    <3>3. ASSUME NEW p \in Handler, Saving(p)', NEW c \in V!Seen(p)'
          PROVE  /\ req'[p].seen[c].id \in 1..made'
                 /\ \A d \in V!Rows' : req'[p].seen[c].id = votes'[d].id => c = d
                 /\ \A o \in Handler : Saving(o)' => \A d \in V!Seen(o)' :
                      req'[p].seen[c].id = req'[o].seen[d].id => c = d
      <4>1. Saving(p) /\ c \in V!Seen(p) /\ req'[p].seen = req[p].seen
        BY <2>12, <3>3
      <4>2. req[p].seen[c].id \in 1..made
        BY <4>1 DEF VoteInv, BooksOK
      <4>3. \A d \in V!Rows' : req[p].seen[c].id = votes'[d].id => c = d
        BY <1>1, <2>5, <2>10, <2>14, <4>1, <4>2 DEF VoteInv, BooksOK
      <4>4. \A o \in Handler : Saving(o) => \A d \in V!Seen(o) :
              req[p].seen[c].id = req[o].seen[d].id => c = d
        BY <4>1 DEF VoteInv, BooksOK
      <4> QED BY <1>1, <2>7, <2>12, <4>1, <4>2, <4>3, <4>4
    <3> QED BY <3>1, <3>2, <3>3 DEF BooksOK
  <2>16. CountsOK'
    <3>1. \A c \in V!Rows' : votes'[c].id \in risky \/ votes'[c].count = acked[votes'[c].id]
      <4>1. ASSUME NEW c \in new PROVE votes'[c].count = acked[votes'[c].id]
        BY <1>1, <2>5, <2>7, <2>10 DEF VoteInv, CountsOK
      <4> QED BY <2>14, <4>1 DEF VoteInv, CountsOK
    <3>2. \A p \in Handler : V!At(p, "upsert")' => V!At(p, "upsert") /\ req'[p] = req[p]
      BY <2>4, <2>11 DEF V!At
    <3>3. \A i \in 1..MaxVotes : i > made' => acked[i] = 0
      BY <1>1, <2>7 DEF VoteInv, CountsOK
    <3> QED BY <1>1, <3>1, <3>2, <3>3 DEF VoteInv, CountsOK, V!Seen
  <2>17. CastsOK'
    BY <1>1, <2>4, <2>11 DEF VoteInv, CastsOK, V!At
  <2> QED BY <2>13, <2>15, <2>16, <2>17 DEF VoteInv
<1> QED BY <1>2, <1>3

LEMMA DeleteStep ==
  ASSUME V!Setting, VoteInv, NEW r \in Handler, V!Delete(r) \/ V!Fail(r)
  PROVE  VoteInv'
<1>1. /\ req[r].pc \in {"upsert", "insert", "delete"} /\ req[r] \in FormReqs /\ V!Idle \in Reqs
      /\ UNCHANGED <<status, over, made, begun, acked, risky, stray>>
      /\ votes \in Rowed /\ V!GoTo(r, V!Idle)
  BY DEF V!Delete, V!Fail, V!Done, V!At, VoteInv, VoteTypes, Reqs, FormReqs, V!Idle
<1>2. \A c \in Candidate : votes'[c] \in {votes[c], NoOne}
  BY <1>1 DEF V!Delete, V!Fail, Rowed
<1>3. votes' \in Rowed
  BY <1>1, <1>2 DEF V!Delete, V!Fail, Rowed
<1>4. \A c \in V!Rows' : c \in V!Rows /\ votes'[c] = votes[c]
  BY <1>2 DEF V!Rows
<1> QED BY <1>1, <1>3, <1>4, TableStep

-----------------------------------------------------------------------------
\* The switch.
LEMMA SwitchStep ==
  ASSUME VoteInv, NEW r \in Handler,
         (\E to \in {"open", "closed"} : V!Switch(r, to)) \/ V!ReadStatus(r)
  PROVE  VoteInv'
<1>1. req[r] \in Reqs /\ begun \in Nat /\ status \in {"unset", "open", "closed"}
  BY DEF VoteInv, VoteTypes
<1>2. PICK q : /\ V!GoTo(r, q) /\ q \in [pc : {"status?", "create", "update"}, to : {"open", "closed"}]
               /\ begun' \in {begun, begun + 1}
               /\ UNCHANGED <<votes, status, over, made, acked, risky, stray>>
  <2>1. ASSUME NEW to \in {"open", "closed"}, V!Switch(r, to)
        PROVE  \E q : /\ V!GoTo(r, q) /\ q \in [pc : {"status?", "create", "update"}, to : {"open", "closed"}]
                     /\ begun' = begun + 1
                     /\ UNCHANGED <<votes, status, over, made, acked, risky, stray>>
    BY <2>1 DEF V!Switch, V!Begin
  <2>2. ASSUME V!ReadStatus(r)
        PROVE  \E q : /\ V!GoTo(r, q) /\ q \in [pc : {"status?", "create", "update"}, to : {"open", "closed"}]
                     /\ begun' = begun
                     /\ UNCHANGED <<votes, status, over, made, acked, risky, stray>>
    <3>1. req[r] \in [pc : {"status?", "create", "update"}, to : {"open", "closed"}]
      BY <1>1, <2>2 DEF V!ReadStatus, V!At, Reqs, V!Idle
    <3>2. PICK q : q = [req[r] EXCEPT !.pc = IF status = "unset" THEN "create" ELSE "update"]
      OBVIOUS
    <3>3. q \in [pc : {"status?", "create", "update"}, to : {"open", "closed"}]
      BY <3>1, <3>2
    <3> QED BY <2>2, <3>2, <3>3 DEF V!ReadStatus
  <2> QED BY <2>1, <2>2
<1>3. q \in Reqs /\ q.pc \in {"status?", "create", "update"}
  BY <1>2 DEF Reqs
<1> QED BY <1>1, <1>2, <1>3, RequestStep

LEMMA SetStatusStep ==
  ASSUME VoteInv, NEW r \in Handler, V!SetStatus(r)
  PROVE  VoteInv'
<1>1. /\ UNCHANGED <<votes, over, made, begun, acked, risky, stray>>
      /\ req' = [q \in Handler |->
                   IF q = r THEN V!Idle
                   ELSE IF V!Casting(q) /\ status' = "open" THEN [req[q] EXCEPT !.open = TRUE]
                   ELSE req[q]]
      /\ req[r] \in Reqs /\ req[r].pc \in {"update", "create"}
      /\ req \in [Handler -> Reqs] /\ V!Idle \in Reqs
      /\ status' = status \/ status' = req[r].to
  BY DEF V!SetStatus, V!At, VoteInv, VoteTypes, Reqs
<1>2. status' \in {"unset", "open", "closed"}
  BY <1>1 DEF VoteInv, VoteTypes, Reqs, V!Idle
<1>3. \A q \in Handler : V!Casting(q) =>
        /\ req[q] \in [pc : {"open?", "valid?", "count"}, chosen : SUBSET Candidate, open : BOOLEAN]
        /\ [req[q] EXCEPT !.open = TRUE] \in Reqs
        /\ [req[q] EXCEPT !.open = TRUE].pc = req[q].pc
        /\ [req[q] EXCEPT !.open = TRUE].open
  <2>1. ASSUME NEW q \in Handler, V!Casting(q)
        PROVE  req[q] \in [pc : {"open?", "valid?", "count"}, chosen : SUBSET Candidate, open : BOOLEAN]
    BY <1>1, <2>1 DEF V!Casting, Reqs, V!Idle
  <2> QED BY <2>1 DEF Reqs
<1>4. req' \in [Handler -> Reqs]
  BY <1>1, <1>3
<1>5. VoteTypes'
  BY <1>1, <1>2, <1>4 DEF VoteInv, VoteTypes
<1>6. \A q \in Handler :
        /\ q # r /\ ~V!Casting(q) => req'[q] = req[q]
        /\ q # r /\ V!Casting(q) => req'[q].pc = req[q].pc
        /\ q # r /\ V!Casting(q) /\ status' = "open" => req'[q].open
        /\ q # r /\ V!Casting(q) /\ req[q].open => req'[q].open
        /\ q = r => req'[q].pc = "idle"
  BY <1>1, <1>3 DEF V!Idle
<1>7. \A q \in Handler : Saving(q)' => Saving(q) /\ req'[q] = req[q]
  BY <1>6 DEF Saving, V!Casting
<1>8. BooksOK'
  BY <1>1, <1>7 DEF VoteInv, BooksOK, V!Rows, V!Seen
<1>9. \A q \in Handler : V!At(q, "upsert")' => V!At(q, "upsert") /\ req'[q] = req[q]
  BY <1>6 DEF V!At, V!Casting
<1>10. CountsOK'
  BY <1>1, <1>9 DEF VoteInv, CountsOK, V!Rows, V!Seen
<1>11. CastsOK'
  BY <1>1, <1>6 DEF VoteInv, CastsOK, V!At, V!Casting
<1> QED BY <1>5, <1>8, <1>10, <1>11 DEF VoteInv

LEMMA SaveStep ==
  ASSUME VoteInv, NEW r \in Handler, NEW form \in V!Form, V!Save(r, form)
  PROVE  VoteInv'
<1>1. PICK q : q = [pc |-> "upsert", form |-> form, seen |-> votes]
  OBVIOUS
<1>2. q \in Reqs /\ q.pc = "upsert" /\ q.seen = votes
  BY <1>1 DEF Reqs, VoteInv, VoteTypes
<1>3. /\ V!GoTo(r, q) /\ begun' \in Nat
      /\ UNCHANGED <<votes, status, over, made, acked, risky, stray>>
  BY <1>1 DEF V!Save, V!Begin, VoteInv, VoteTypes
<1> QED BY <1>2, <1>3, RequestStep

-----------------------------------------------------------------------------
LEMMA VoteInit ==
  ASSUME V!Setting, V!Init
  PROVE  VoteInv
<1>1. votes \in Rowed /\ V!Rows = {}
  BY DEF V!Init, Rowed, V!Rows
<1>2. req \in [Handler -> Reqs] /\ \A r \in Handler : req[r].pc = "idle"
  BY DEF V!Init, Reqs, V!Idle
<1>3. VoteTypes
  <2>1. made \in 0..MaxVotes /\ begun \in Nat
    BY DEF V!Setting, V!Init
  <2>2. acked \in [1..MaxVotes -> Nat] /\ risky \subseteq 1..made
    BY DEF V!Init
  <2>3. status \in {"unset", "open", "closed"} /\ over \in BOOLEAN
    BY DEF V!Init
  <2> QED BY <1>1, <1>2, <2>1, <2>2, <2>3 DEF VoteTypes
<1>4. BooksOK
  BY <1>1, <1>2 DEF BooksOK, Saving
<1>5. CountsOK
  BY <1>1, <1>2 DEF V!Init, CountsOK, V!At
<1>6. CastsOK
  BY <1>2 DEF V!Init, CastsOK, V!At
<1> QED BY <1>3, <1>4, <1>5, <1>6 DEF VoteInv

LEMMA VoteNext ==
  ASSUME V!Setting, VoteInv, [V!Next]_(V!vars)
  PROVE  VoteInv'
<1>1. CASE UNCHANGED V!vars
  BY <1>1 DEF V!vars, VoteInv, VoteTypes, BooksOK, CountsOK, CastsOK, V!Rows, Saving, V!Seen, V!At
<1>2. CASE V!End
  BY <1>2 DEF V!End, VoteInv, VoteTypes, BooksOK, CountsOK, CastsOK, V!Rows, Saving, V!Seen, V!At
<1>3. ASSUME NEW r \in Handler, V!Step(r) PROVE VoteInv'
  BY <1>3, CastStep, CountStep, SaveStep, UpsertStep, InsertStep, DeleteStep, SwitchStep,
     SetStatusStep DEF V!Step
<1> QED BY <1>1, <1>2, <1>3 DEF V!Next

LEMMA VoteAlways ==
  ASSUME V!Setting
  PROVE  V!Spec => []VoteInv
<1>1. V!Init => VoteInv
  BY VoteInit
<1>2. VoteInv /\ [V!Next]_(V!vars) => VoteInv'
  BY VoteNext
<1> QED BY <1>1, <1>2, PTL DEF V!Spec

\* The rows of the vote hold what their columns may, and have the ids they were
\* inserted with.
THEOREM VotesAreTyped ==
  ASSUME V!Setting
  PROVE  V!Spec => []V!TypeOK
<1>1. ASSUME VoteInv PROVE V!TypeOK
  <2>1. \A c \in V!Rows : /\ votes[c].id \in 1..made /\ votes[c].segment \in Section
                          /\ votes[c].count \in Nat
    BY <1>1 DEF VoteInv, VoteTypes, BooksOK, Rowed, V!Rows, V!Row
  <2>2. \A r \in Handler : req[r].pc \in {"idle", "open?", "valid?", "count", "upsert",
                                           "insert", "delete", "status?", "update", "create"}
    BY <1>1 DEF VoteInv, VoteTypes, Reqs, V!Idle
  <2> QED BY <1>1, <2>1, <2>2 DEF VoteInv, VoteTypes, V!TypeOK
<1> QED BY <1>1, VoteAlways, PTL

\* A vote that was answered as counted for a row is in its count, and no other, but
\* for votes cast while a form was being saved; and none is counted for a request
\* during which the vote was never open (db/core.py, cast_votes, increment_votes and
\* save_vote_form).
THEOREM CountedIsCounted ==
  ASSUME V!Setting
  PROVE  V!Spec => []VotesAreCounted
<1>1. VoteInv => VotesAreCounted
  BY DEF VoteInv, CountsOK, CastsOK, VotesAreCounted, V!VotesAreCounted
<1> QED BY <1>1, VoteAlways, PTL

-----------------------------------------------------------------------------
(* The check-ins of a meeting                                              *)

\* A row of the table, and what a request carries: a check-in, or a reset.
Checkin  == [id : Nat, who : Person, role : Role \cup {NoRole}]
Entering == [pc : {"timer?", "delete", "insert"}, who : Person, roles : A!Wanted]
Leaving  == [pc : {"count", "remove", "nullify"}, id : Nat, who : Person]

CheckinTypes ==
  /\ checkins \subseteq Checkin /\ IsFiniteSet(checkins)
  /\ req \in [Handler -> {A!Idle} \cup Entering \cup Leaving]
  /\ made \in Nat /\ begun \in Nat
  /\ present \subseteq Person /\ torn \subseteq Person /\ raced \in BOOLEAN

Resetting(r) == req[r].pc \in {"count", "remove", "nullify"}

\* An id is one row's, for as long as a reset knows it.
IdsOK ==
  /\ \A c \in checkins : c.id \in 1..made
  /\ \A c, d \in checkins : c.id = d.id => c = d
  /\ \A r \in Handler : Resetting(r) =>
       /\ req[r].id \in 1..made
       /\ \A c \in checkins : c.id = req[r].id => c.who = req[r].who

\* What a reset is about to delete is not all that the person has.
HasAnother(r) ==
  \/ req[r].who \in torn
  \/ \A c \in checkins : c.id # req[r].id
  \/ \E c \in A!Of(req[r].who) : c.id # req[r].id

KeptOK ==
  /\ \A r \in Handler : A!At(r, "insert") => req[r].roles # {}
  /\ \A r \in Handler : A!At(r, "remove") => HasAnother(r)
  /\ A!AttendanceIsKept

\* Who has passed the check for the timer's role finds nobody else in it.
TimerOK ==
  /\ A!OneTimer
  /\ ~raced => \A r \in Handler : (A!At(r, "delete") \/ A!At(r, "insert")) /\ Timer \in req[r].roles =>
                 \A c \in A!In(Timer) : c.who = req[r].who

CheckinInv == CheckinTypes /\ IdsOK /\ KeptOK /\ TimerOK

-----------------------------------------------------------------------------
LEMMA CheckinsCount ==
  \A S : (A!IsFiniteSet(S) <=> IsFiniteSet(S)) /\ A!Cardinality(S) = Cardinality(S)
<1>1. \A S : A!IsFiniteSet(S) <=> IsFiniteSet(S)
  BY DEF IsFiniteSet, A!IsFiniteSet
<1>2. \A S : A!Cardinality(S) = Cardinality(S)
  BY Zenon DEF Cardinality, A!Cardinality, IsFiniteSet, A!IsFiniteSet
<1> QED BY <1>1, <1>2

LEMMA ImageIsFinite ==
  ASSUME NEW S, IsFiniteSet(S), NEW f, DOMAIN f = S
  PROVE  IsFiniteSet({f[x] : x \in S})
<1>1. PICK g, I : g = [x \in S |-> f[x]] /\ I = {f[x] : x \in S}
  OBVIOUS
<1>2. g \in Surjection(S, I)
  BY <1>1 DEF Surjection
<1> QED BY <1>1, <1>2, FS_Surjection

LEMMA CheckinReads ==
  ASSUME CheckinInv, NEW r \in Handler
  PROVE  /\ req \in [Handler -> {A!Idle} \cup Entering \cup Leaving]
         /\ req[r].pc \in {"timer?", "delete", "insert"} => req[r] \in Entering
         /\ req[r].pc \in {"count", "remove", "nullify"} => req[r] \in Leaving
         /\ A!Idle.pc = "idle"
         /\ checkins \subseteq Checkin /\ IsFiniteSet(checkins)
BY DEF CheckinInv, CheckinTypes, A!Idle, Entering, Leaving

\* A request goes on and the table stays.
LEMMA CheckinStep ==
  ASSUME CheckinInv, NEW r \in Handler, NEW q \in {A!Idle} \cup Entering \cup Leaving, A!GoTo(r, q),
         UNCHANGED <<checkins, made, present, torn, raced>>, begun' \in Nat,
         A!At(r, "insert") => A!Of(req[r].who) # {},
         q.pc # "insert",
         q.pc \in {"count", "remove", "nullify"} =>
            /\ q.id \in 1..made
            /\ \A c \in checkins : c.id = q.id => c.who = q.who,
         q.pc = "remove" =>
            \/ \A c \in checkins : c.id # q.id
            \/ \E c \in A!Of(q.who) : c.id # q.id,
         q.pc = "delete" /\ Timer \in q.roles => raced \/ \A c \in A!In(Timer) : c.who = q.who
  PROVE  CheckinInv'
<1>1. req' = [req EXCEPT ![r] = q] /\ req \in [Handler -> {A!Idle} \cup Entering \cup Leaving]
  BY CheckinReads DEF A!GoTo
<1>2. \A p \in Handler : req'[p] = IF p = r THEN q ELSE req[p]
  BY <1>1
<1>3. CheckinTypes'
  BY <1>1 DEF CheckinInv, CheckinTypes
<1>4. IdsOK'
  BY <1>2 DEF CheckinInv, IdsOK, Resetting
<1>5. A!AttendanceIsKept'
  BY <1>2 DEF CheckinInv, KeptOK, A!AttendanceIsKept, A!Of, A!At
<1>6. KeptOK'
  BY <1>2, <1>5 DEF CheckinInv, KeptOK, HasAnother, A!Of, A!At
<1>7. TimerOK'
  BY <1>2 DEF CheckinInv, TimerOK, A!OneTimer, A!In, A!At
<1> QED BY <1>3, <1>4, <1>6, <1>7 DEF CheckinInv

LEMMA EnterStep ==
  ASSUME CheckinInv, NEW r \in Handler, NEW w \in Person, NEW roles \in A!Wanted, A!CheckIn(r, w, roles)
  PROVE  CheckinInv'
<1>1. PICK q : q = [pc |-> IF Timer \in roles THEN "timer?" ELSE "delete", who |-> w, roles |-> roles]
  OBVIOUS
<1>2. q \in Entering /\ q.pc \in {"timer?", "delete"} /\ (q.pc = "delete" => Timer \notin q.roles)
  BY <1>1 DEF Entering
<1>3. /\ A!GoTo(r, q) /\ begun' \in Nat /\ A!At(r, "idle")
      /\ UNCHANGED <<checkins, made, present, torn, raced>>
  BY <1>1 DEF A!CheckIn, A!Begin, A!MayBegin, CheckinInv, CheckinTypes
<1> QED BY <1>2, <1>3, CheckinStep DEF A!At

LEMMA ReadTimerStep ==
  ASSUME CheckinInv, NEW r \in Handler, A!ReadTimer(r)
  PROVE  CheckinInv'
<1>1. /\ req[r] \in Entering /\ A!At(r, "timer?") /\ begun' = begun /\ begun \in Nat
      /\ UNCHANGED <<checkins, made, present, torn, raced>> /\ A!Idle.pc = "idle"
  BY CheckinReads DEF A!ReadTimer, A!At, CheckinInv, CheckinTypes
<1>2. CASE A!Done(r)
  BY <1>1, <1>2, CheckinStep DEF A!Done, A!At
<1>3. CASE ~A!Done(r)
  <2>1. PICK q : q = [req[r] EXCEPT !.pc = "delete"]
    OBVIOUS
  <2>2. q \in Entering /\ q.pc = "delete" /\ q.who = req[r].who
    BY <1>1, <2>1 DEF Entering
  <2>3. A!GoTo(r, q) /\ (A!In(Timer) # {} => \E c \in A!In(Timer) : c.who = q.who)
    BY <1>3, <2>1, <2>2 DEF A!ReadTimer, A!TimerTaken
  <2>4. raced \/ \A c \in A!In(Timer) : c.who = q.who
    BY <2>3 DEF CheckinInv, TimerOK, A!OneTimer
  <2> QED BY <1>1, <2>2, <2>3, <2>4, CheckinStep DEF A!At
<1> QED BY <1>2, <1>3

\* A row that a reset finds.
LEMMA ResetStep ==
  ASSUME CheckinInv, NEW r \in Handler, NEW role \in Role, A!Reset(r, role)
  PROVE  CheckinInv'
<1>1. PICK c \in A!In(role) : A!Begin(r, [pc |-> "count", id |-> c.id, who |-> c.who])
  BY DEF A!Reset
<1>2. PICK q : q = [pc |-> "count", id |-> c.id, who |-> c.who]
  OBVIOUS
<1>3. c \in checkins /\ c \in Checkin
  BY <1>1, CheckinReads DEF A!In
<1>4. q \in Leaving /\ q.pc = "count" /\ q.id = c.id /\ q.who = c.who
  BY <1>2, <1>3 DEF Leaving, Checkin
<1>5. q.id \in 1..made /\ \A d \in checkins : d.id = q.id => d.who = q.who
  BY <1>3, <1>4 DEF CheckinInv, IdsOK
<1>6. /\ A!GoTo(r, q) /\ begun' \in Nat /\ A!At(r, "idle")
      /\ UNCHANGED <<checkins, made, present, torn, raced>>
  BY <1>1, <1>2 DEF A!Reset, A!Begin, A!MayBegin, CheckinInv, CheckinTypes
<1> QED BY <1>4, <1>5, <1>6, CheckinStep DEF A!At

\* Who has more than one row has one besides the one to be taken away.
LEMMA CountRowsStep ==
  ASSUME CheckinInv, NEW r \in Handler, A!CountRows(r)
  PROVE  CheckinInv'
<1>1. /\ req[r] \in Leaving /\ A!At(r, "count") /\ begun' = begun /\ begun \in Nat
      /\ UNCHANGED <<checkins, made, present, torn, raced>>
  BY CheckinReads DEF A!CountRows, A!At, CheckinInv, CheckinTypes
<1>2. PICK q, w : /\ q = [req[r] EXCEPT !.pc = IF A!HasOthers(Cardinality(A!Of(req[r].who)))
                                                    THEN "remove" ELSE "nullify"]
                  /\ w = req[r].who
  OBVIOUS
<1>3. q \in Leaving /\ q.pc \in {"remove", "nullify"} /\ q.id = req[r].id /\ q.who = w
  BY <1>1, <1>2 DEF Leaving
<1>4. A!GoTo(r, q)
  BY <1>2, CheckinsCount DEF A!CountRows
<1>5. q.id \in 1..made /\ \A c \in checkins : c.id = q.id => c.who = q.who
  BY <1>1, <1>2, <1>3 DEF CheckinInv, IdsOK, Resetting, A!At
<1>6. ASSUME q.pc = "remove", NEW c \in checkins, c.id = q.id
      PROVE  \E d \in A!Of(w) : d.id # q.id
  <2>1. IsFiniteSet(A!Of(w)) /\ Cardinality(A!Of(w)) > 1
    <3>1. IsFiniteSet(A!Of(w))
      BY CheckinReads, FS_Subset DEF A!Of
    <3>2. A!HasOthers(Cardinality(A!Of(w)))
      BY <1>2, <1>6, <1>1 DEF Leaving
    <3> QED BY <3>1, <3>2 DEF A!HasOthers
  <2>2. A!Of(w) # {c}
    BY <2>1, FS_Singleton
  <2>3. c \in A!Of(w)
    BY <1>3, <1>5, <1>6 DEF A!Of
  <2>4. PICK d \in A!Of(w) : d # c
    BY <2>2, <2>3
  <2> QED BY <1>6, <2>4 DEF CheckinInv, IdsOK, A!Of
<1> QED BY <1>1, <1>3, <1>4, <1>5, <1>6, CheckinStep DEF A!At

\* A request that has passed the check for the timer's role, and is not served now,
\* keeps it.
LEMMA TimerStays ==
  ASSUME CheckinInv, NEW r \in Handler, NEW q \in {A!Idle} \cup Entering \cup Leaving, A!GoTo(r, q),
         raced => raced',
         ~raced' => \A c \in A!In(Timer)' :
                      \/ \E d \in A!In(Timer) : d.who = c.who
                      \/ /\ \A d \in A!In(Timer) : d.who = c.who
                         /\ \A d \in A!In(Timer)' : d.who = c.who \/ d \in A!In(Timer)
                         /\ \A p \in Handler \ {r} :
                              (A!At(p, "delete") \/ A!At(p, "insert")) /\ Timer \in req[p].roles =>
                                  c.who = req[p].who,
         q.pc \notin {"delete", "insert"} \/ (q.who = req[r].who /\ q.roles = req[r].roles
                                              /\ (A!At(r, "delete") \/ A!At(r, "insert"))
                                              /\ A!In(Timer)' \subseteq A!In(Timer))
  PROVE  TimerOK'
<1>1. \A p \in Handler : req'[p] = IF p = r THEN q ELSE req[p]
  BY CheckinReads DEF A!GoTo
<1>2. A!OneTimer'
  BY DEF A!OneTimer, CheckinInv, TimerOK
<1>3. ASSUME ~raced', NEW p \in Handler, (A!At(p, "delete") \/ A!At(p, "insert"))', Timer \in req'[p].roles,
             NEW c \in A!In(Timer)'
      PROVE  c.who = req'[p].who
  BY <1>1, <1>3 DEF CheckinInv, TimerOK, A!At
<1> QED BY <1>2, <1>3 DEF TimerOK

LEMMA DeleteOldStep ==
  ASSUME CheckinInv, NEW r \in Handler, A!DeleteOld(r)
  PROVE  CheckinInv'
<1>1. PICK w, q : /\ w = req[r].who
                  /\ q = IF req[r].roles = {} THEN A!Idle ELSE [req[r] EXCEPT !.pc = "insert"]
  OBVIOUS
<1>2. req[r] \in Entering /\ A!Idle.pc = "idle" /\ checkins \subseteq Checkin /\ IsFiniteSet(checkins)
  BY CheckinReads DEF A!DeleteOld, A!At
<1>3. /\ q \in {A!Idle} \cup Entering /\ q.pc \in {"idle", "insert"}
      /\ q.pc = "idle" <=> req[r].roles = {}
      /\ q.pc = "insert" => q.who = w /\ q.roles = req[r].roles /\ q.roles # {}
  BY <1>1, <1>2 DEF Entering
<1>4. /\ A!GoTo(r, q) /\ A!At(r, "delete") /\ checkins' = checkins \ A!Of(w)
      /\ present' = IF req[r].roles = {} THEN present \ {w} ELSE present
      /\ UNCHANGED <<made, begun, torn, raced>>
  BY <1>1 DEF A!DeleteOld, A!Done
<1>5. req' = [req EXCEPT ![r] = q] /\ \A p \in Handler : req'[p] = IF p = r THEN q ELSE req[p]
  BY <1>4, CheckinReads DEF A!GoTo
<1>6. IsFiniteSet(checkins')
  BY <1>2, <1>4, FS_Subset
<1>7. CheckinTypes'
  BY <1>3, <1>4, <1>5, <1>6 DEF CheckinInv, CheckinTypes
<1>8. IdsOK'
  BY <1>3, <1>4, <1>5 DEF CheckinInv, IdsOK, Resetting
<1>9. A!AttendanceIsKept'
  <2>1. ASSUME NEW v \in present' \ torn', v # w
        PROVE  A!Of(v)' # {} \/ \E p \in Handler : A!At(p, "insert")' /\ req'[p].who = v
    <3>1. v \in present \ torn /\ A!Of(v)' = A!Of(v)
      BY <1>4, <2>1 DEF A!Of
    <3>2. CASE A!Of(v) # {}
      BY <3>1, <3>2
    <3>3. CASE \E p \in Handler : A!At(p, "insert") /\ req[p].who = v
      BY <1>4, <1>5, <3>3 DEF A!At
    <3> QED BY <3>1, <3>2, <3>3 DEF CheckinInv, KeptOK, A!AttendanceIsKept
  <2>2. w \in present' \ torn' => A!At(r, "insert")' /\ req'[r].who = w
    BY <1>3, <1>4, <1>5 DEF A!At
  <2> QED BY <2>1, <2>2 DEF A!AttendanceIsKept
<1>10. KeptOK'
  <2>1. \A p \in Handler : A!At(p, "insert")' => req'[p].roles # {}
    BY <1>3, <1>5 DEF CheckinInv, KeptOK, A!At
  <2>2. ASSUME NEW p \in Handler, A!At(p, "remove")'
        PROVE  HasAnother(p)'
    <3>1. p # r /\ req'[p] = req[p] /\ A!At(p, "remove")
      BY <1>3, <1>5, <2>2 DEF A!At
    <3>2. CASE req[p].who = w
      BY <1>4, <3>1, <3>2 DEF CheckinInv, IdsOK, Resetting, A!At, A!Of, HasAnother
    <3>3. CASE req[p].who # w
      BY <1>4, <3>1, <3>3 DEF CheckinInv, KeptOK, HasAnother, A!At, A!Of
    <3> QED BY <3>2, <3>3
  <2> QED BY <1>9, <2>1, <2>2 DEF KeptOK
<1>11. TimerOK'
  <2>1. A!In(Timer)' \subseteq A!In(Timer)
    BY <1>4 DEF A!In
  <2> QED BY <1>1, <1>3, <1>4, <2>1, TimerStays
<1> QED BY <1>7, <1>8, <1>10, <1>11 DEF CheckinInv

LEMMA InsertNewStep ==
  ASSUME A!Setting, CheckinInv, NEW r \in Handler, A!InsertNew(r)
  PROVE  CheckinInv'
<1>1. PICK w, roles : w = req[r].who /\ roles = req[r].roles
  OBVIOUS
<1>2. /\ req[r] \in Entering /\ A!Idle.pc = "idle" /\ checkins \subseteq Checkin /\ IsFiniteSet(checkins)
      /\ A!At(r, "insert") /\ A!GoTo(r, A!Idle) /\ UNCHANGED <<begun, torn>> /\ made \in Nat /\ begun \in Nat
      /\ w \in Person /\ roles \in A!Wanted /\ roles # {}
  BY <1>1, CheckinReads DEF A!InsertNew, A!At, A!Done, Entering, CheckinInv, CheckinTypes, KeptOK
<1>3. CASE \E c \in A!Of(w) : c.role \in roles \ {NoRole}
  <2>1. UNCHANGED <<checkins, made, present, torn, raced>> /\ A!Of(w) # {}
    BY <1>1, <1>2, <1>3 DEF A!InsertNew
  <2> QED BY <1>1, <1>2, <2>1, CheckinStep
<1>4. CASE ~\E c \in A!Of(w) : c.role \in roles \ {NoRole}
  <2>1. PICK id \in [roles -> (made + 1)..made'] :
          /\ \A a, b \in roles : id[a] = id[b] => a = b
          /\ checkins' = checkins \cup {[id |-> id[a], who |-> w, role |-> a] : a \in roles}
    BY <1>1, <1>4 DEF A!InsertNew
  <2>2. /\ made' = made + Cardinality(roles) /\ present' = present \cup {w}
        /\ raced' = (raced \/ (Timer \in roles /\ A!OtherTimer(r)))
    BY <1>1, <1>4, CheckinsCount DEF A!InsertNew
  <2>3. IsFiniteSet(roles) /\ roles \subseteq Role \cup {NoRole}
    <3>1. IsFiniteSet(Role \cup {NoRole})
      BY FS_Singleton, FS_Union, CheckinsCount DEF A!Setting
    <3> QED BY <1>2, <3>1, FS_Subset DEF A!Wanted
  <2>4. made' \in Nat /\ made <= made'
    BY <1>2, <2>2, <2>3, FS_CardinalityType
  <2>5. PICK new : new = {[id |-> id[a], who |-> w, role |-> a] : a \in roles}
    OBVIOUS
  <2>6. IsFiniteSet(checkins') /\ checkins' = checkins \cup new
    <3>1. PICK f : f = [a \in roles |-> [id |-> id[a], who |-> w, role |-> a]]
      OBVIOUS
    <3>2. new = {f[a] : a \in roles} /\ DOMAIN f = roles
      BY <2>5, <3>1
    <3>3. IsFiniteSet(new)
      BY <2>3, <3>2, ImageIsFinite
    <3> QED BY <1>2, <2>1, <2>5, <3>3, FS_Union
  <2>7. \A c \in new : /\ c \in Checkin /\ c.id \in (made + 1)..made' /\ c.who = w /\ c.role \in roles
                       /\ id[c.role] = c.id
    BY <1>2, <2>1, <2>3, <2>4, <2>5 DEF Checkin
  <2>8. \A c, d \in new : c.id = d.id => c = d
    <3>1. \A c \in new : c = [id |-> id[c.role], who |-> w, role |-> c.role]
      BY <2>5
    <3>2. \A c, d \in new : c.id = d.id => c.role = d.role
      BY <2>1, <2>7
    <3> QED BY <3>1, <3>2
  <2>9. req' = [req EXCEPT ![r] = A!Idle] /\ \A p \in Handler : req'[p] = IF p = r THEN A!Idle ELSE req[p]
    BY <1>2, CheckinReads DEF A!GoTo
  <2>10. CheckinTypes'
    <3>1. present' \subseteq Person /\ raced' \in BOOLEAN
      BY <1>2, <2>2 DEF CheckinInv, CheckinTypes
    <3> QED BY <1>2, <2>4, <2>6, <2>7, <2>9, <3>1 DEF CheckinInv, CheckinTypes
  <2>11. IdsOK'
    <3>1. \A c \in checkins' : c.id \in 1..made'
      BY <1>2, <2>4, <2>6, <2>7 DEF CheckinInv, IdsOK
    <3>2. \A c, d \in checkins' : c.id = d.id => c = d
      BY <1>2, <2>4, <2>6, <2>7, <2>8 DEF CheckinInv, IdsOK
    <3>3. ASSUME NEW p \in Handler, Resetting(p)'
          PROVE  req'[p].id \in 1..made' /\ \A c \in checkins' : c.id = req'[p].id => c.who = req'[p].who
      <4>1. Resetting(p) /\ req'[p] = req[p]
        BY <1>2, <2>9, <3>3 DEF Resetting
      <4>2. req[p].id \in 1..made /\ \A c \in checkins : c.id = req[p].id => c.who = req[p].who
        BY <4>1 DEF CheckinInv, IdsOK
      <4> QED BY <1>2, <2>4, <2>6, <2>7, <4>1, <4>2
    <3> QED BY <3>1, <3>2, <3>3 DEF IdsOK
  <2>12. new # {} /\ \A v : A!Of(v) \subseteq A!Of(v)'
    BY <1>2, <2>5, <2>6 DEF A!Of
  <2>13. A!AttendanceIsKept'
    <3>1. new \subseteq A!Of(w)'
      BY <2>6, <2>7 DEF A!Of
    <3>2. ASSUME NEW v \in present' \ torn', v # w
          PROVE  A!Of(v)' # {} \/ \E p \in Handler : A!At(p, "insert")' /\ req'[p].who = v
      <4>1. v \in present \ torn
        BY <1>2, <2>2, <3>2
      <4>2. CASE A!Of(v) # {}
        BY <2>12, <4>2
      <4>3. CASE \E p \in Handler : A!At(p, "insert") /\ req[p].who = v
        BY <1>1, <2>9, <3>2, <4>3 DEF A!At
      <4> QED BY <4>1, <4>2, <4>3 DEF CheckinInv, KeptOK, A!AttendanceIsKept
    <3> QED BY <2>12, <3>1, <3>2 DEF A!AttendanceIsKept
  <2>14. KeptOK'
    <3>1. \A p \in Handler : A!At(p, "insert")' => req'[p].roles # {}
      BY <1>2, <2>9 DEF CheckinInv, KeptOK, A!At
    <3>2. ASSUME NEW p \in Handler, A!At(p, "remove")'
          PROVE  HasAnother(p)'
      <4>1. req'[p] = req[p] /\ A!At(p, "remove") /\ req[p].id \in 1..made
        BY <1>2, <2>9, <3>2 DEF CheckinInv, IdsOK, Resetting, A!At
      <4>2. \A c \in new : c.id # req[p].id
        BY <1>2, <2>7, <4>1
      <4> QED BY <1>2, <2>6, <2>12, <4>1, <4>2 DEF CheckinInv, KeptOK, A!At, HasAnother
    <3> QED BY <2>13, <3>1, <3>2 DEF KeptOK
  <2>15. TimerOK'
    <3>1. \A c \in A!In(Timer)' : c \in A!In(Timer) \/ (c.who = w /\ Timer \in roles)
      BY <2>6, <2>7 DEF A!In
    <3>2. Timer \in roles /\ ~raced' =>
            /\ \A d \in A!In(Timer) : d.who = w
            /\ \A p \in Handler \ {r} :
                 (A!At(p, "delete") \/ A!At(p, "insert")) /\ Timer \in req[p].roles => w = req[p].who
      BY <1>1, <1>2, <2>2 DEF CheckinInv, TimerOK, A!OtherTimer
    <3> QED BY <1>2, <2>2, <3>1, <3>2, TimerStays
  <2> QED BY <2>10, <2>11, <2>14, <2>15 DEF CheckinInv
<1> QED BY <1>3, <1>4

LEMMA FailInsertStep ==
  ASSUME CheckinInv, NEW r \in Handler, A!FailInsert(r)
  PROVE  CheckinInv'
<1>1. /\ req[r] \in Entering /\ A!Idle.pc = "idle" /\ A!GoTo(r, A!Idle) /\ A!At(r, "insert")
      /\ UNCHANGED <<checkins, made, begun, present, raced>> /\ torn' = torn \cup {req[r].who}
  BY CheckinReads DEF A!FailInsert, A!Done, A!At
<1>2. req' = [req EXCEPT ![r] = A!Idle] /\ \A p \in Handler : req'[p] = IF p = r THEN A!Idle ELSE req[p]
  BY <1>1, CheckinReads DEF A!GoTo
<1>3. CheckinTypes'
  BY <1>1, <1>2 DEF CheckinInv, CheckinTypes, Entering
<1>4. IdsOK'
  BY <1>1, <1>2 DEF CheckinInv, IdsOK, Resetting
<1>5. A!AttendanceIsKept'
  BY <1>1, <1>2 DEF CheckinInv, KeptOK, A!AttendanceIsKept, A!Of, A!At
<1>6. KeptOK'
  BY <1>1, <1>2, <1>5 DEF CheckinInv, KeptOK, HasAnother, A!Of, A!At
<1>7. TimerOK'
  BY <1>1, <1>2 DEF CheckinInv, TimerOK, A!OneTimer, A!In, A!At
<1> QED BY <1>3, <1>4, <1>6, <1>7 DEF CheckinInv

LEMMA ReleaseStep ==
  ASSUME A!Setting, CheckinInv, NEW r \in Handler, A!Release(r)
  PROVE  CheckinInv'
<1>1. PICK w, row : w = req[r].who /\ row = {c \in checkins : c.id = req[r].id}
  OBVIOUS
<1>2. /\ req[r] \in Leaving /\ A!Idle.pc = "idle" /\ checkins \subseteq Checkin /\ IsFiniteSet(checkins)
      /\ A!GoTo(r, A!Idle) /\ (A!At(r, "remove") \/ A!At(r, "nullify")) /\ Resetting(r)
      /\ UNCHANGED <<made, begun, present, raced>>
      /\ torn' = IF A!At(r, "remove") /\ A!OtherRemove(r) THEN torn \cup {w} ELSE torn
      /\ w \in Person
  BY <1>1, CheckinReads DEF A!Release, A!Done, A!At, Leaving, Resetting
<1>3. PICK kept : /\ kept = IF A!At(r, "remove") THEN {} ELSE {[c EXCEPT !.role = NoRole] : c \in row}
                  /\ checkins' = (checkins \ row) \cup kept
  BY <1>1 DEF A!Release
<1>4. \A c \in kept : /\ c \in Checkin /\ c.role = NoRole /\ A!At(r, "nullify")
                      /\ c.id = req[r].id /\ c.who = w
                      /\ \E d \in row : c = [d EXCEPT !.role = NoRole]
  <2>1. \A d \in row : d \in Checkin /\ d.id = req[r].id /\ d.who = w
    BY <1>1, <1>2 DEF CheckinInv, IdsOK
  <2> QED BY <1>2, <1>3, <2>1 DEF Checkin
<1>5. req' = [req EXCEPT ![r] = A!Idle] /\ \A p \in Handler : req'[p] = IF p = r THEN A!Idle ELSE req[p]
  BY <1>2, CheckinReads DEF A!GoTo
<1>6. IsFiniteSet(checkins')
  <2>1. \A c, d \in row : c = d
    BY <1>1 DEF CheckinInv, IdsOK
  <2>2. kept = {} \/ \E c \in kept : kept = {c}
    BY <1>4, <2>1
  <2>3. IsFiniteSet(kept)
    <3>1. ASSUME NEW c, kept = {c} PROVE IsFiniteSet(kept)
      BY <3>1, FS_Singleton
    <3> QED BY <2>2, <3>1, FS_EmptySet
  <2>4. IsFiniteSet(checkins \ row)
    BY <1>2, FS_Subset
  <2> QED BY <1>3, <2>3, <2>4, FS_Union
<1>7. CheckinTypes'
  BY <1>2, <1>3, <1>4, <1>5, <1>6 DEF CheckinInv, CheckinTypes
<1>8. \A c, d \in row : c = d
  BY <1>1 DEF CheckinInv, IdsOK
<1>9. \A c, d \in kept : c = d
  BY <1>4, <1>8
<1>10. \A c \in checkins' : (c \in checkins /\ c.id # req[r].id) \/ (c \in kept /\ c.id = req[r].id)
  BY <1>1, <1>3, <1>4
<1>11. IdsOK'
  <2>1. \A c \in checkins' : c.id \in 1..made
    BY <1>2, <1>10 DEF CheckinInv, IdsOK
  <2>2. \A c, d \in checkins' : c.id = d.id => c = d
    BY <1>9, <1>10 DEF CheckinInv, IdsOK
  <2>3. \A p \in Handler : Resetting(p)' => Resetting(p) /\ req'[p] = req[p]
    BY <1>2, <1>5 DEF Resetting
  <2>4. ASSUME NEW p \in Handler, Resetting(p)
        PROVE  /\ req[p].id \in 1..made
               /\ \A c \in checkins' : c.id = req[p].id => c.who = req[p].who
    <3>1. req[p].id = req[r].id /\ kept # {} => req[p].who = w
      BY <1>2, <1>4, <1>1, <2>4 DEF CheckinInv, IdsOK
    <3> QED BY <1>4, <1>10, <2>4, <3>1 DEF CheckinInv, IdsOK
  <2> QED BY <1>2, <2>1, <2>2, <2>3, <2>4 DEF IdsOK
<1>12. \A v : v # w => A!Of(v)' = A!Of(v)
  <2>1. \A c \in row : c.who = w
    BY <1>1, <1>2 DEF CheckinInv, IdsOK
  <2> QED BY <1>3, <1>4, <2>1 DEF A!Of
<1>13. \A c \in A!Of(w) : (A!At(r, "nullify") \/ c.id # req[r].id) => \E d \in A!Of(w)' : d.id = c.id
  <2>1. ASSUME NEW c \in A!Of(w), c.id # req[r].id PROVE c \in A!Of(w)'
    BY <1>1, <1>3, <2>1 DEF A!Of
  <2>2. ASSUME NEW c \in A!Of(w), c.id = req[r].id, A!At(r, "nullify") PROVE \E d \in A!Of(w)' : d.id = c.id
    <3>1. PICK d : d = [c EXCEPT !.role = NoRole]
      OBVIOUS
    <3>2. c \in row /\ d \in kept
      BY <1>1, <1>3, <2>2, <3>1 DEF A!Of, A!At
    <3> QED BY <1>3, <1>4, <2>2, <3>2 DEF A!Of
  <2> QED BY <2>1, <2>2
<1>14. A!AttendanceIsKept'
  <2>1. ASSUME NEW v \in present' \ torn'
        PROVE  A!Of(v)' # {} \/ \E p \in Handler : A!At(p, "insert")' /\ req'[p].who = v
    <3>1. v \in present \ torn
      BY <1>2, <2>1
    <3>2. CASE \E p \in Handler : A!At(p, "insert") /\ req[p].who = v
      BY <1>2, <1>5, <3>2 DEF A!At
    <3>3. CASE A!Of(v) # {} /\ v # w
      BY <1>12, <3>3
    <3>4. CASE A!Of(v) # {} /\ v = w /\ A!At(r, "nullify")
      BY <1>13, <3>4
    <3>5. CASE A!Of(v) # {} /\ v = w /\ A!At(r, "remove")
      <4>1. \E c \in A!Of(w) : c.id # req[r].id
        BY <1>1, <3>1, <3>5 DEF CheckinInv, KeptOK, A!Of, HasAnother
      <4> QED BY <1>13, <3>5, <4>1
    <3> QED BY <1>2, <3>1, <3>2, <3>3, <3>4, <3>5 DEF CheckinInv, KeptOK, A!AttendanceIsKept
  <2> QED BY <2>1 DEF A!AttendanceIsKept
<1>15. KeptOK'
  <2>1. \A p \in Handler : A!At(p, "insert")' => req'[p].roles # {}
    BY <1>2, <1>5 DEF CheckinInv, KeptOK, A!At
  <2>2. ASSUME NEW p \in Handler, A!At(p, "remove")'
        PROVE  HasAnother(p)'
    <3>1. p # r /\ req'[p] = req[p] /\ A!At(p, "remove")
      BY <1>2, <1>5, <2>2 DEF A!At
    <3>2. CASE req[p].who \in torn
      BY <1>2, <3>1, <3>2 DEF HasAnother
    <3>3. CASE \A c \in checkins : c.id # req[p].id
      BY <1>3, <1>4, <1>1, <3>1, <3>3 DEF HasAnother
    <3>4. CASE req[p].who # w /\ \E c \in A!Of(req[p].who) : c.id # req[p].id
      BY <1>12, <3>1, <3>4 DEF HasAnother
    <3>5. CASE req[p].who = w /\ A!At(r, "remove")
      BY <1>1, <1>2, <3>1, <3>5 DEF A!OtherRemove, HasAnother
    <3>6. CASE req[p].who = w /\ A!At(r, "nullify") /\ \E c \in A!Of(w) : c.id # req[p].id
      <4>1. \E d \in A!Of(w)' : d.id # req[p].id
        BY <1>13, <3>6
      <4> QED BY <1>5, <3>1, <3>6, <4>1 DEF HasAnother, A!Of
    <3> QED BY <1>2, <3>1, <3>2, <3>3, <3>4, <3>5, <3>6 DEF CheckinInv, KeptOK, HasAnother
  <2> QED BY <1>14, <2>1, <2>2 DEF KeptOK
<1>16. TimerOK'
  <2>1. A!In(Timer)' \subseteq A!In(Timer)
    BY <1>3, <1>4 DEF A!In, A!Setting
  <2> QED BY <1>2, <2>1, TimerStays
<1> QED BY <1>7, <1>11, <1>15, <1>16 DEF CheckinInv

-----------------------------------------------------------------------------
LEMMA CheckinAlways ==
  ASSUME A!Setting
  PROVE  A!Spec => []CheckinInv
<1>1. ASSUME A!Init PROVE CheckinInv
  <2>1. CheckinTypes
    BY <1>1, FS_EmptySet DEF A!Init, CheckinTypes
  <2>2. \A r \in Handler : req[r].pc = "idle"
    BY <1>1 DEF A!Init, A!Idle
  <2>3. IdsOK /\ KeptOK /\ TimerOK
    BY <1>1, <2>2 DEF A!Init, IdsOK, KeptOK, TimerOK, Resetting, A!At, A!AttendanceIsKept, A!OneTimer, A!In
  <2> QED BY <2>1, <2>3 DEF CheckinInv
<1>2. ASSUME CheckinInv, [A!Next]_(A!vars) PROVE CheckinInv'
  <2>1. CASE UNCHANGED A!vars
    BY <1>2, <2>1 DEF A!vars, CheckinInv, CheckinTypes, IdsOK, KeptOK, TimerOK, Resetting, A!At, A!In, A!Of, HasAnother,
                      A!AttendanceIsKept, A!OneTimer
  <2>2. ASSUME NEW r \in Handler, A!Step(r) PROVE CheckinInv'
    BY <1>2, <2>2, EnterStep, ReadTimerStep, ResetStep, CountRowsStep, DeleteOldStep, InsertNewStep,
       FailInsertStep, ReleaseStep DEF A!Step
  <2> QED BY <1>2, <2>1, <2>2 DEF A!Next
<1> QED BY <1>1, <1>2, PTL DEF A!Spec

\* The rows of the check-ins hold what their columns may, and an id is one row's.
THEOREM CheckinsAreTyped ==
  ASSUME A!Setting
  PROVE  A!Spec => []A!TypeOK
<1>1. ASSUME CheckinInv PROVE A!TypeOK
  <2>1. \A c \in checkins : c.id \in 1..made /\ c.who \in Person /\ c.role \in Role \cup {NoRole}
    BY <1>1 DEF CheckinInv, CheckinTypes, IdsOK, Checkin
  <2>2. \A r \in Handler : req[r].pc \in {"idle", "timer?", "delete", "insert", "count",
                                           "remove", "nullify"}
    BY <1>1 DEF CheckinInv, CheckinTypes, A!Idle, Entering, Leaving
  <2> QED BY <1>1, <2>1, <2>2 DEF A!TypeOK, CheckinInv, CheckinTypes, IdsOK
<1> QED BY <1>1, CheckinAlways, PTL

\* Who has checked in stays present, whatever roles are reset and however requests
\* overlap, but for the exceptions the property names, and one person has the timer's
\* role (db/core.py, create_checkins and reset_segment_checkin).
THEOREM PresenceIsKept ==
  ASSUME A!Setting
  PROVE  A!Spec => []A!CheckinsHold
<1>1. CheckinInv => A!CheckinsHold
  BY DEF CheckinInv, KeptOK, TimerOK, A!CheckinsHold
<1> QED BY <1>1, CheckinAlways, PTL

-----------------------------------------------------------------------------
(* The timer: the names of a batch                                         *)

\* The names of a batch of one or two records, without the recursion.
FewRecords(batch) == Len(batch) \in {1, 2}

NamesOf(batch, taken) ==
  IF Len(batch) = 1 THEN <<K!UniqueName(batch[1], taken)>>
  ELSE <<K!UniqueName(batch[1], taken),
         K!UniqueName(batch[2], taken \cup {K!UniqueName(batch[1], taken)})>>

LEMMA NamesOfTwo ==
  ASSUME NEW batch, NEW taken, FewRecords(batch)
  PROVE  K!UniqueNames(batch, taken) = NamesOf(batch, taken)
<1> USE DEF FewRecords
<1>0. \A k \in 0..Len(batch) : k \in 0..2
  OBVIOUS
<1> DEFINE one == K!UniqueName(batch[1], taken)
           two == K!UniqueName(batch[2], taken \cup {one})
           Grow(s, n) == Append(s, K!UniqueName(batch[n], taken \cup K!Range(s)))
           Fn(g) == [n \in 0..Len(batch) |-> IF n = 0 THEN <<>> ELSE Grow(g[n - 1], n)]
           f == [n \in 0..Len(batch) |-> IF n = 0 THEN <<>>
                                         ELSE IF n = 1 THEN <<one>> ELSE <<one, two>>]
           names == CHOOSE names : names = Fn(names)
<1>1. \A x, y : Append(<<>>, x) = <<x>> /\ Append(<<x>>, y) = <<x, y>>
  <2> SUFFICES ASSUME NEW x, NEW y
               PROVE  Append(<<>>, x) = <<x>> /\ Append(<<x>>, y) = <<x, y>>
    OBVIOUS
  <2>1. <<>> \in Seq({x, y}) /\ <<x>> \in Seq({x, y}) /\ x \in {x, y} /\ y \in {x, y}
    OBVIOUS
  <2>2. Append(<<>>, x) = <<x>>
    BY <2>1
  <2>3. Append(<<x>>, y) = <<x, y>>
    <3>1. /\ Append(<<x>>, y) \in Seq({x, y}) /\ Len(Append(<<x>>, y)) = 2
          /\ Append(<<x>>, y)[1] = x /\ Append(<<x>>, y)[2] = y
      BY <2>1, AppendProperties
    <3>2. <<x, y>> \in Seq({x, y}) /\ Len(<<x, y>>) = 2
      OBVIOUS
    <3>3. \A i \in 1..2 : Append(<<x>>, y)[i] = <<x, y>>[i]
      BY <3>1
    <3> QED BY <3>1, <3>2, <3>3, SeqEqual
  <2> QED BY <2>2, <2>3
<1>2. K!Range(<<>>) = {} /\ \A x : K!Range(<<x>>) = {x}
  BY DEF K!Range
<1>3. Grow(<<>>, 1) = <<one>> /\ Grow(<<one>>, 2) = <<one, two>>
  <2>1. taken \cup K!Range(<<>>) = taken /\ taken \cup K!Range(<<one>>) = taken \cup {one}
    BY <1>2
  <2>2. Grow(<<>>, 1) = Append(<<>>, one) /\ Grow(<<one>>, 2) = Append(<<one>>, two)
    BY <2>1
  <2> HIDE DEF Grow, one, two
  <2> QED BY <2>2, <1>1
<1>4. K!UniqueNames(batch, taken) = names[Len(batch)]
  BY DEF K!UniqueNames
<1> HIDE DEF Grow, one, two
<1>5. f = Fn(f)
  <2>1. ASSUME NEW n \in 0..Len(batch)
        PROVE  f[n] = IF n = 0 THEN <<>> ELSE Grow(f[n - 1], n)
    <3>1. CASE n = 0
      BY <3>1
    <3>2. CASE n = 1
      BY <3>2, <1>3
    <3>3. CASE n = 2
      <4>1. f[1] = <<one>> /\ f[2] = <<one, two>> /\ n - 1 = 1
        BY <3>3
      <4> HIDE DEF f
      <4> QED BY <3>3, <4>1, <1>3
    <3>4. n \in 0..2
      BY <2>1, <1>0
    <3> HIDE DEF f
    <3> QED BY <3>1, <3>2, <3>3, <3>4
  <2> QED BY <2>1
<1>6. names = Fn(names)
  <2> HIDE DEF f, Fn
  <2> QED BY <1>5
<1> HIDE DEF names
<1>7. Len(batch) \in {1, 2} => names[1] = <<one>>
  BY <1>6, <1>3
<1>8. Len(batch) = 2 => names[2] = <<one, two>>
  BY <1>6, <1>3, <1>7
<1>9. /\ Len(batch) = 1 => K!UniqueNames(batch, taken) = <<one>>
      /\ Len(batch) = 2 => K!UniqueNames(batch, taken) = <<one, two>>
  BY <1>4, <1>7, <1>8
<1> QED BY <1>9 DEF one, two, NamesOf

LEMMA NamesOfOne ==
  ASSUME NEW t, NEW taken
  PROVE  K!UniqueNames(<<t>>, taken) = <<K!UniqueName(t, taken)>>
<1> DEFINE b == <<t>>
<1>1. Len(b) = 1 /\ b[1] = t
  OBVIOUS
<1>2. FewRecords(b)
  BY DEF FewRecords
<1>3. K!UniqueNames(b, taken) = NamesOf(b, taken)
  <2> HIDE DEF b
  <2> QED BY <1>2, NamesOfTwo
<1> HIDE DEF b
<1>4. K!UniqueNames(b, taken) = <<K!UniqueName(b[1], taken)>>
  BY <1>1, <1>3 DEF NamesOf
<1> QED BY <1>1, <1>4 DEF b

LEMMA NamesOfPair ==
  ASSUME NEW t, NEW u, NEW taken
  PROVE  K!UniqueNames(<<t, u>>, taken) =
             <<K!UniqueName(t, taken), K!UniqueName(u, taken \cup {K!UniqueName(t, taken)})>>
<1> DEFINE b == <<t, u>>
<1>1. Len(b) = 2 /\ b[1] = t /\ b[2] = u
  OBVIOUS
<1>2. FewRecords(b)
  BY DEF FewRecords
<1>3. K!UniqueNames(b, taken) = NamesOf(b, taken)
  <2> HIDE DEF b
  <2> QED BY <1>2, NamesOfTwo
<1> HIDE DEF b
<1>4. K!UniqueNames(b, taken) =
          <<K!UniqueName(b[1], taken), K!UniqueName(b[2], taken \cup {K!UniqueName(b[1], taken)})>>
  BY <1>1, <1>3 DEF NamesOf
<1> QED BY <1>1, <1>4 DEF b

TimerNames == [base : Name \cup {NoName}, at : Minute \cup {NoName}]

\* A batch is a sequence of two records or fewer.
LEMMA BatchIs ==
  ASSUME NEW s, NEW b \in K!Batch(s)
  PROVE  /\ Len(b) \in {0, 1, 2} /\ DOMAIN b = 1..Len(b)
         /\ \A i \in DOMAIN b : b[i] \in K!Record(s)
         /\ b # <<>> => Len(b) \in {1, 2}
<1>1. CASE b = <<>>
  BY <1>1
<1>2. CASE \E t \in K!Record(s) : b = <<t>>
  BY <1>2
<1>3. CASE \E t, u \in K!Record(s) : b = <<t, u>>
  BY <1>3
<1> QED BY <1>1, <1>2, <1>3 DEF K!Batch

\* A name that is left without a suffix is used once in the batch, and is none of those
\* that were taken.
KeptApart(names, b, taken) ==
  \A i \in DOMAIN b :
    /\ names[i] \in TimerNames
    /\ names[i].at = NoName => /\ names[i] \notin taken
                               /\ \A j \in DOMAIN b : names[i] = names[j] => i = j

LEMMA BatchKeepsApart ==
  ASSUME K!Setting, NEW b \in K!Batch(Topics), b # <<>>, NEW taken
  PROVE  KeptApart(K!UniqueNames(b, taken), b, taken)
<1> DEFINE names == K!UniqueNames(b, taken)
<1> SUFFICES KeptApart(names, b, taken)
  OBVIOUS
<1>1. (\E t \in K!Record(Topics) : b = <<t>>) \/ (\E t, u \in K!Record(Topics) : b = <<t, u>>)
  BY DEF K!Batch
<1>2. \A t \in K!Record(Topics) : t.name \in Name /\ t.at \in Minute
  BY DEF K!Record
<1>3. ASSUME NEW t \in K!Record(Topics), NEW used
      PROVE  /\ K!UniqueName(t, used) \in TimerNames
             /\ K!UniqueName(t, used).at = NoName => K!UniqueName(t, used) \notin used
  <2>1. t.name # NoName /\ t.at # NoName
    BY <1>2 DEF K!Setting
  <2>2. K!Plain(t.name) \in TimerNames /\ [base |-> t.name, at |-> t.at] \in TimerNames
    BY <1>2 DEF K!Plain, TimerNames
  <2>3. CASE K!Plain(t.name) \in used
    <3>1. K!UniqueName(t, used) = [base |-> t.name, at |-> t.at]
      BY <2>1, <2>3 DEF K!UniqueName
    <3> QED BY <2>1, <2>2, <3>1
  <2>4. CASE K!Plain(t.name) \notin used
    <3>1. K!UniqueName(t, used) = K!Plain(t.name)
      BY <2>4 DEF K!UniqueName
    <3> QED BY <2>2, <2>4, <3>1
  <2> QED BY <2>3, <2>4
<1>4. CASE \E t \in K!Record(Topics) : b = <<t>>
  <2> PICK t \in K!Record(Topics) : b = <<t>>
    BY <1>4
  <2>1. names = <<K!UniqueName(t, taken)>>
    BY NamesOfOne
  <2>2. names[1] = K!UniqueName(t, taken) /\ DOMAIN b = {1}
    BY <2>1
  <2>3. K!UniqueName(t, taken).at = NoName => K!UniqueName(t, taken) \notin taken
    BY <1>3
  <2>4. K!UniqueName(t, taken) \in TimerNames
    BY <1>3
  <2> HIDE DEF names
  <2> QED BY <2>2, <2>3, <2>4 DEF KeptApart
<1>5. CASE \E t, u \in K!Record(Topics) : b = <<t, u>>
  <2> PICK t \in K!Record(Topics), u \in K!Record(Topics) : b = <<t, u>>
    BY <1>5
  <2> DEFINE one == K!UniqueName(t, taken)
             two == K!UniqueName(u, taken \cup {one})
  <2>1. names = <<one, two>>
    BY NamesOfPair
  <2>2. names[1] = one /\ names[2] = two /\ DOMAIN b = {1, 2}
    BY <2>1
  <2>3. one \in TimerNames /\ (one.at = NoName => one \notin taken)
    BY <1>3
  <2>4. two \in TimerNames /\ (two.at = NoName => two \notin taken \cup {one})
    BY <1>3
  <2> HIDE DEF names, one, two
  <2> QED BY <2>2, <2>3, <2>4 DEF KeptApart
<1> QED BY <1>1, <1>4, <1>5

-----------------------------------------------------------------------------
(* The timer: types                                                        *)

Batches == UNION {K!Batch(s) : s \in K!Segment}
Jobs    == [on : K!Segment, new : Batches]
Plans   == {<<j>> : j \in Jobs} \cup {<<j, k>> : j, k \in Jobs}

SaveStates ==
  [pc : {"first", "insert"}, strict : BOOLEAN, seen : SUBSET TimerNames, by : Nat, todo : Plans]
RenameStates == [pc : {"rename"}, id : Nat, name : Name, topics : BOOLEAN]

TimerSaving(r) == K!At(r, "first") \/ K!At(r, "insert")

\* What a save may hold: a record of its own plan, for the segment the plan names.
PlanIsSane(q) ==
  /\ q.by \in 1..begun
  /\ \A i \in DOMAIN q.todo : q.todo[i].new \in K!Batch(q.todo[i].on)
  /\ q.strict => \E j \in Jobs : \E t \in K!Record(j.on) : q.todo = <<j>> /\ j.new = <<t>>
  /\ q.pc = "insert" => Head(q.todo).new # <<>>

TimesTypes ==
  /\ req \in [Handler -> {K!Idle} \cup SaveStates \cup RenameStates]
  /\ timings \subseteq [id : 1..made, segment : K!Segment, name : TimerNames, by : 1..begun]
  /\ made \in Nat /\ begun \in Nat /\ raced \subseteq K!Segment
  /\ \A r \in Handler : /\ TimerSaving(r) => PlanIsSane(req[r])
                        /\ K!At(r, "rename") => req[r].id \in 1..made

LEMMA TimesTypesInit == K!Init => TimesTypes
BY DEF K!Init, TimesTypes, TimerSaving, K!At, K!Idle

\* What a request's state is, by its progress.
LEMMA TimerStateIs ==
  ASSUME TimesTypes, NEW r \in Handler
  PROVE  /\ TimerSaving(r) => req[r] \in SaveStates
         /\ K!At(r, "rename") => req[r] \in RenameStates
         /\ req[r].pc \in {"idle", "first", "insert", "rename"}
BY DEF TimesTypes, TimerSaving, K!At, K!Idle, SaveStates, RenameStates

\* The job at hand, and what is left after it.
LEMMA JobIs ==
  ASSUME TimesTypes, NEW r \in Handler, TimerSaving(r)
  PROVE  /\ K!Job(r) \in Jobs /\ K!Job(r).new \in K!Batch(K!Job(r).on)
         /\ Len(req[r].todo) > 1 =>
              /\ ~req[r].strict
              /\ \E k \in Jobs : Tail(req[r].todo) = <<k>> /\ k.new \in K!Batch(k.on)
         /\ req[r].strict => \E t \in K!Record(K!Job(r).on) : K!Job(r).new = <<t>>
<1>1. req[r].todo \in Plans /\ PlanIsSane(req[r])
  BY TimerStateIs DEF TimesTypes, SaveStates
<1>2. CASE \E j \in Jobs : req[r].todo = <<j>>
  <2> PICK j \in Jobs : req[r].todo = <<j>>
    BY <1>2
  <2>1. /\ Head(req[r].todo) = j /\ Len(req[r].todo) = 1
        /\ 1 \in DOMAIN req[r].todo /\ req[r].todo[1] = j
    OBVIOUS
  <2>2. \A i : <<j>> = <<i>> => i = j
    OBVIOUS
  <2> QED BY <1>1, <2>1, <2>2 DEF PlanIsSane, K!Job
<1>3. CASE \E j, k \in Jobs : req[r].todo = <<j, k>>
  <2> PICK j \in Jobs, k \in Jobs : req[r].todo = <<j, k>>
    BY <1>3
  <2>1. /\ Head(req[r].todo) = j /\ Len(req[r].todo) = 2 /\ Tail(req[r].todo) = <<k>>
        /\ 1 \in DOMAIN req[r].todo /\ 2 \in DOMAIN req[r].todo
        /\ req[r].todo[1] = j /\ req[r].todo[2] = k
    OBVIOUS
  <2>2. ~req[r].strict
    <3>1. \A i : <<j, k>> # <<i>>
      OBVIOUS
    <3> QED BY <1>1, <3>1 DEF PlanIsSane
  <2> QED BY <1>1, <2>1, <2>2 DEF PlanIsSane, K!Job
<1> QED BY <1>1, <1>2, <1>3 DEF Plans

LEMMA TimesTypesKept ==
  ASSUME TimesTypes, NEW r \in Handler, NEW q \in {K!Idle} \cup SaveStates \cup RenameStates,
         req' = [req EXCEPT ![r] = q],
         made' \in Nat, begun' \in Nat, made' >= made, begun' >= begun, raced' \subseteq K!Segment,
         timings' \subseteq [id : 1..made', segment : K!Segment, name : TimerNames, by : 1..begun'],
         q.pc \in {"first", "insert"} => PlanIsSane(q)',
         q.pc = "rename" => q.id \in 1..made'
  PROVE  TimesTypes'
<1>1. req' \in [Handler -> {K!Idle} \cup SaveStates \cup RenameStates]
  BY DEF TimesTypes
<1>2. \A o \in Handler : o # r => req'[o] = req[o]
  BY DEF TimesTypes
<1>3. req'[r] = q
  BY DEF TimesTypes
<1>4. ASSUME NEW o \in Handler
      PROVE  /\ TimerSaving(o)' => PlanIsSane(req[o])'
             /\ K!At(o, "rename")' => req'[o].id \in 1..made'
  <2>1. CASE o = r
    BY <2>1, <1>3 DEF TimerSaving, K!At, PlanIsSane
  <2>2. CASE o # r
    <3>1. req'[o] = req[o]
      BY <2>2, <1>2
    <3>2. 1..begun \subseteq 1..begun' /\ 1..made \subseteq 1..made'
      BY DEF TimesTypes
    <3> QED BY <3>1, <3>2 DEF TimesTypes, TimerSaving, K!At, PlanIsSane
  <2> QED BY <2>1, <2>2
<1> QED BY <1>1, <1>4 DEF TimesTypes

\* The rest of a batch, or nothing: the state after a segment is done.
LEMMA ContinueIs ==
  ASSUME TimesTypes, NEW r \in Handler, TimerSaving(r), K!Continue(r)
  PROVE  \E q \in {K!Idle} \cup SaveStates :
           /\ req' = [req EXCEPT ![r] = q]
           /\ q.pc \in {"idle", "first"}
           /\ q.pc = "first" => PlanIsSane(q)
<1>1. CASE Len(req[r].todo) > 1
  <2> PICK k \in Jobs : Tail(req[r].todo) = <<k>> /\ k.new \in K!Batch(k.on)
    BY <1>1, JobIs
  <2> DEFINE q == [req[r] EXCEPT !.pc = "first", !.todo = Tail(@)]
  <2>1. req[r] \in SaveStates /\ PlanIsSane(req[r]) /\ ~req[r].strict
    BY <1>1, JobIs, TimerStateIs DEF TimesTypes
  <2>2. q.pc = "first" /\ q.by = req[r].by /\ q.todo = <<k>> /\ q.strict = req[r].strict
    BY <2>1 DEF SaveStates
  <2>3. <<k>> \in Plans
    BY DEF Plans
  <2>4. q \in SaveStates
    BY <2>1, <2>3 DEF SaveStates
  <2>5. PlanIsSane(q)
    <3>1. \A i \in DOMAIN <<k>> : <<k>>[i].new \in K!Batch(<<k>>[i].on)
      OBVIOUS
    <3> HIDE DEF q
    <3> QED BY <2>1, <2>2, <3>1 DEF PlanIsSane
  <2>6. req' = [req EXCEPT ![r] = q]
    BY <1>1 DEF K!Continue, K!GoTo
  <2> HIDE DEF q
  <2> QED BY <2>2, <2>4, <2>5, <2>6
<1>2. CASE ~(Len(req[r].todo) > 1)
  <2>1. req' = [req EXCEPT ![r] = K!Idle] /\ K!Idle.pc = "idle"
    BY <1>2 DEF K!Continue, K!Done, K!GoTo, K!Idle
  <2> QED BY <2>1
<1> QED BY <1>1, <1>2

\* A request that is done, or goes on to its next segment, and nothing inserted.
LEMMA TimesTypesOnward ==
  ASSUME TimesTypes, NEW r \in Handler, K!Done(r) \/ (TimerSaving(r) /\ K!Continue(r)),
         timings' \subseteq timings, UNCHANGED <<made, begun, raced>>
  PROVE  TimesTypes'
<1>1. \E q \in {K!Idle} \cup SaveStates : /\ req' = [req EXCEPT ![r] = q]
                                          /\ q.pc \in {"idle", "first"}
                                          /\ q.pc = "first" => PlanIsSane(q)
  <2>1. CASE K!Done(r)
    <3>1. req' = [req EXCEPT ![r] = K!Idle] /\ K!Idle.pc = "idle"
      BY <2>1 DEF K!Done, K!GoTo, K!Idle
    <3> QED BY <3>1
  <2> QED BY <2>1, ContinueIs
<1> PICK q \in {K!Idle} \cup SaveStates : /\ req' = [req EXCEPT ![r] = q]
                                          /\ q.pc \in {"idle", "first"}
                                          /\ q.pc = "first" => PlanIsSane(q)
  BY <1>1
<1>2. PlanIsSane(q) => PlanIsSane(q)'
  BY DEF PlanIsSane
<1>3. /\ made' \in Nat /\ begun' \in Nat /\ made' >= made /\ begun' >= begun
      /\ raced' \subseteq K!Segment
      /\ timings' \subseteq [id : 1..made', segment : K!Segment, name : TimerNames, by : 1..begun']
  BY DEF TimesTypes
<1> QED BY <1>2, <1>3, TimesTypesKept

\* A save begins with a plan of one job, or with one of two that is not strict.
LEMMA TimesTypesPlan ==
  ASSUME TimesTypes, NEW r \in Handler, NEW strict \in BOOLEAN, NEW jobs, K!Plan(r, strict, jobs),
         \/ \E j \in Jobs : /\ jobs = <<j>> /\ j.new \in K!Batch(j.on)
                            /\ strict => \E t \in K!Record(j.on) : j.new = <<t>>
         \/ \E j, k \in Jobs : /\ jobs = <<j, k>> /\ ~strict
                               /\ j.new \in K!Batch(j.on) /\ k.new \in K!Batch(k.on)
  PROVE  TimesTypes'
<1> PICK q : q = [pc |-> "first", strict |-> strict, seen |-> {}, by |-> begun + 1, todo |-> jobs]
  OBVIOUS
<1>1. jobs \in Plans /\ \A i \in DOMAIN jobs : jobs[i].new \in K!Batch(jobs[i].on)
  <2>1. CASE \E j \in Jobs : jobs = <<j>> /\ j.new \in K!Batch(j.on)
    <3> PICK j \in Jobs : jobs = <<j>> /\ j.new \in K!Batch(j.on)
      BY <2>1
    <3>1. <<j>> \in Plans
      BY DEF Plans
    <3>2. \A i \in DOMAIN <<j>> : <<j>>[i] = j
      OBVIOUS
    <3> QED BY <3>1, <3>2
  <2>2. CASE \E j, k \in Jobs : jobs = <<j, k>> /\ j.new \in K!Batch(j.on) /\ k.new \in K!Batch(k.on)
    <3> PICK j \in Jobs, k \in Jobs :
               jobs = <<j, k>> /\ j.new \in K!Batch(j.on) /\ k.new \in K!Batch(k.on)
      BY <2>2
    <3>1. <<j, k>> \in Plans
      BY DEF Plans
    <3>2. \A i \in DOMAIN <<j, k>> : <<j, k>>[i] \in {j, k}
      OBVIOUS
    <3> QED BY <3>1, <3>2
  <2> QED BY <2>1, <2>2
<1>2. begun \in Nat /\ begun' = begun + 1 /\ UNCHANGED <<timings, made, raced>>
  BY DEF TimesTypes, K!Plan, K!Begin
<1>3. q \in SaveStates
  BY <1>1, <1>2 DEF SaveStates
<1>4. PlanIsSane(q)'
  <2>1. strict => \E j \in Jobs : \E t \in K!Record(j.on) : jobs = <<j>> /\ j.new = <<t>>
    OBVIOUS
  <2> QED BY <1>1, <1>2, <2>1 DEF PlanIsSane
<1>5. req' = [req EXCEPT ![r] = q] /\ q.pc = "first"
  BY DEF K!Plan, K!Begin, K!GoTo
<1>6. timings' \subseteq [id : 1..made', segment : K!Segment, name : TimerNames, by : 1..begun']
  BY <1>2 DEF TimesTypes
<1>7. made' \in Nat /\ begun' \in Nat /\ made' >= made /\ begun' >= begun /\ raced' \subseteq K!Segment
  BY <1>2 DEF TimesTypes
<1> QED BY <1>3, <1>4, <1>5, <1>6, <1>7, TimesTypesKept

LEMMA TimesTypesCreate ==
  ASSUME TimesTypes, NEW r \in Handler, NEW s \in K!Segment
  PROVE  /\ \A t \in K!Record(s) : K!Create(r, s, t) => TimesTypes'
         /\ \A b \in K!Batch(s) : K!CreateBatch(r, s, b) => TimesTypes'
         /\ \A b \in K!Batch(s) : \A t \in K!Record(Topics) : K!CreateBatchAll(r, s, b, t) => TimesTypes'
<1> DEFINE job(u, b) == [on |-> u, new |-> b]
<1>1. ASSUME NEW u \in K!Segment, NEW b \in K!Batch(u)
      PROVE  job(u, b) \in Jobs /\ job(u, b).on = u /\ job(u, b).new = b
  BY DEF Jobs, Batches
<1>2. \A u \in K!Segment : \A t \in K!Record(u) : <<t>> \in K!Batch(u)
  BY DEF K!Batch
<1>3. Topics \in K!Segment
  BY DEF K!Segment
<1>4. ASSUME NEW t \in K!Record(s), K!Create(r, s, t) PROVE TimesTypes'
  <2>1. /\ K!Plan(r, TRUE, <<job(s, <<t>>)>>) /\ job(s, <<t>>) \in Jobs /\ <<t>> \in K!Batch(s)
        /\ job(s, <<t>>).on = s /\ job(s, <<t>>).new = <<t>>
    BY <1>1, <1>2, <1>4 DEF K!Create
  <2> HIDE DEF job
  <2> QED BY <2>1, TimesTypesPlan
<1>5. ASSUME NEW b \in K!Batch(s), K!CreateBatch(r, s, b) PROVE TimesTypes'
  <2>1. /\ K!Plan(r, FALSE, <<job(s, b)>>) /\ job(s, b) \in Jobs
        /\ job(s, b).on = s /\ job(s, b).new = b
    BY <1>1, <1>5 DEF K!CreateBatch
  <2> HIDE DEF job
  <2> QED BY <2>1, TimesTypesPlan
<1>6. ASSUME NEW b \in K!Batch(s), NEW t \in K!Record(Topics), K!CreateBatchAll(r, s, b, t)
      PROVE  TimesTypes'
  <2>1. /\ K!Plan(r, FALSE, <<job(s, b), job(Topics, <<t>>)>>)
        /\ job(s, b) \in Jobs /\ job(s, b).on = s /\ job(s, b).new = b
        /\ job(Topics, <<t>>) \in Jobs /\ job(Topics, <<t>>).on = Topics
        /\ job(Topics, <<t>>).new = <<t>> /\ <<t>> \in K!Batch(Topics)
    BY <1>1, <1>2, <1>3, <1>6 DEF K!CreateBatchAll
  <2> HIDE DEF job
  <2> QED BY <2>1, TimesTypesPlan
<1> QED BY <1>4, <1>5, <1>6

LEMMA TimesTypesDeleteOrRead == ASSUME TimesTypes, NEW r \in Handler, K!DeleteOrRead(r) PROVE TimesTypes'
<1>1. TimerSaving(r) /\ req[r] \in SaveStates /\ PlanIsSane(req[r])
  BY TimerStateIs DEF K!DeleteOrRead, TimerSaving, TimesTypes
<1>2. timings' \subseteq timings /\ UNCHANGED <<made, begun, raced>>
  BY DEF K!DeleteOrRead
<1>3. CASE K!Done(r) \/ K!Continue(r)
  BY <1>1, <1>2, <1>3, TimesTypesOnward
<1>4. CASE /\ K!Job(r).new # <<>>
           /\ K!GoTo(r, [req[r] EXCEPT !.pc = "insert",
                           !.seen = IF K!Job(r).on = Topics THEN K!Names(Topics) ELSE {}])
  <2> PICK q : q = [req[r] EXCEPT !.pc = "insert",
                      !.seen = IF K!Job(r).on = Topics THEN K!Names(Topics) ELSE {}]
    OBVIOUS
  <2>1. K!Names(Topics) \subseteq TimerNames
    BY DEF TimesTypes, K!Names, K!On
  <2>2. q \in SaveStates /\ q.todo = req[r].todo /\ q.by = req[r].by /\ q.strict = req[r].strict
    BY <1>1, <2>1 DEF SaveStates
  <2>3. PlanIsSane(q)'
    BY <1>1, <1>2, <1>4, <2>2 DEF PlanIsSane, K!Job
  <2>4. req' = [req EXCEPT ![r] = q] /\ q.pc = "insert"
    BY <1>1, <1>4 DEF K!GoTo, SaveStates
  <2>5. timings' \subseteq [id : 1..made', segment : K!Segment, name : TimerNames, by : 1..begun']
    BY <1>2 DEF TimesTypes
  <2>6. made' \in Nat /\ begun' \in Nat /\ made' >= made /\ begun' >= begun /\ raced' \subseteq K!Segment
    BY <1>2 DEF TimesTypes
  <2> QED BY <2>2, <2>3, <2>4, <2>5, <2>6, TimesTypesKept
<1> QED BY <1>3, <1>4 DEF K!DeleteOrRead

\* The names that an insert gives its records, and the rows it adds.
GivenNames(r) ==
  IF K!Job(r).on = Topics /\ ~req[r].strict THEN K!UniqueNames(K!Job(r).new, req[r].seen)
  ELSE [i \in DOMAIN K!Job(r).new |-> K!Plain(K!Job(r).new[i].name)]

NewRows(r) ==
  {[id |-> made + i, segment |-> K!Job(r).on, name |-> GivenNames(r)[i], by |-> req[r].by] :
     i \in DOMAIN K!Job(r).new}

LEMMA InsertDoes ==
  ASSUME NEW r \in Handler, K!Insert(r)
  PROVE  /\ timings' = timings \cup NewRows(r) /\ made' = made + Len(K!Job(r).new)
         /\ raced' = IF K!OtherPending(r, K!Job(r).on) THEN raced \cup {K!Job(r).on} ELSE raced
         /\ begun' = begun /\ K!Continue(r) /\ K!At(r, "insert")
BY DEF K!Insert, NewRows, GivenNames

LEMMA GivenNamesAre ==
  ASSUME K!Setting, TimesTypes, NEW r \in Handler, K!At(r, "insert"), NEW i \in DOMAIN K!Job(r).new
  PROVE  GivenNames(r)[i] \in TimerNames
<1>1. TimerSaving(r) /\ K!Job(r) \in Jobs /\ K!Job(r).new \in K!Batch(K!Job(r).on)
  BY JobIs DEF TimerSaving
<1>2. K!Job(r).new # <<>>
  BY <1>1 DEF TimesTypes, PlanIsSane, K!Job, K!At
<1>3. CASE K!Job(r).on = Topics /\ ~req[r].strict
  <2>1. KeptApart(K!UniqueNames(K!Job(r).new, req[r].seen), K!Job(r).new, req[r].seen)
    BY <1>1, <1>2, <1>3, BatchKeepsApart
  <2> QED BY <1>3, <2>1 DEF KeptApart, GivenNames
<1>4. CASE ~(K!Job(r).on = Topics /\ ~req[r].strict)
  <2>1. K!Job(r).new[i] \in K!Record(K!Job(r).on)
    BY <1>1, BatchIs
  <2>2. K!Job(r).new[i].name \in Name \cup {NoName}
    BY <2>1 DEF K!Record
  <2>3. GivenNames(r)[i] = K!Plain(K!Job(r).new[i].name)
    BY <1>4 DEF GivenNames
  <2> QED BY <2>2, <2>3 DEF K!Plain, TimerNames
<1> QED BY <1>3, <1>4

\* The rows of an insert have ids of their own, and the save's segment and number.
LEMMA NewRowsAre ==
  ASSUME K!Setting, TimesTypes, NEW r \in Handler, K!Insert(r)
  PROVE  /\ made' \in Nat /\ made' >= made
         /\ NewRows(r) \subseteq [id : 1..made', segment : K!Segment, name : TimerNames, by : 1..begun]
         /\ \A t \in NewRows(r) : t.id > made /\ t.segment = K!Job(r).on /\ t.by = req[r].by
         /\ \A t, u \in NewRows(r) : t.id = u.id => t = u
<1>1. TimerSaving(r) /\ K!Job(r) \in Jobs /\ K!Job(r).new \in K!Batch(K!Job(r).on) /\ PlanIsSane(req[r])
  BY JobIs, InsertDoes DEF TimerSaving, TimesTypes
<1>2. /\ Len(K!Job(r).new) \in {0, 1, 2} /\ DOMAIN K!Job(r).new = 1..Len(K!Job(r).new)
      /\ made \in Nat /\ made' = made + Len(K!Job(r).new)
  BY <1>1, BatchIs, InsertDoes DEF TimesTypes
<1>3. ASSUME NEW t \in NewRows(r)
      PROVE  /\ t \in [id : 1..made', segment : K!Segment, name : TimerNames, by : 1..begun]
             /\ t.id > made /\ t.segment = K!Job(r).on /\ t.by = req[r].by
  <2> PICK i \in DOMAIN K!Job(r).new :
             t = [id |-> made + i, segment |-> K!Job(r).on, name |-> GivenNames(r)[i], by |-> req[r].by]
    BY DEF NewRows
  <2>1. GivenNames(r)[i] \in TimerNames
    BY InsertDoes, GivenNamesAre
  <2>2. made + i \in 1..made' /\ made + i > made
    BY <1>2
  <2>3. K!Job(r).on \in K!Segment /\ req[r].by \in 1..begun
    BY <1>1 DEF Jobs, PlanIsSane
  <2> QED BY <2>1, <2>2, <2>3
<1>4. ASSUME NEW t \in NewRows(r), NEW u \in NewRows(r), t.id = u.id PROVE t = u
  <2> PICK i \in DOMAIN K!Job(r).new :
             t = [id |-> made + i, segment |-> K!Job(r).on, name |-> GivenNames(r)[i], by |-> req[r].by]
    BY DEF NewRows
  <2> PICK j \in DOMAIN K!Job(r).new :
             u = [id |-> made + j, segment |-> K!Job(r).on, name |-> GivenNames(r)[j], by |-> req[r].by]
    BY DEF NewRows
  <2>1. i = j
    BY <1>2, <1>4
  <2> QED BY <2>1
<1> QED BY <1>2, <1>3, <1>4

LEMMA TimesTypesInsert ==
  ASSUME K!Setting, TimesTypes, NEW r \in Handler, K!Insert(r) PROVE TimesTypes'
<1>1. TimerSaving(r) /\ K!Continue(r) /\ K!Job(r) \in Jobs
  BY JobIs, InsertDoes DEF TimerSaving
<1> PICK q \in {K!Idle} \cup SaveStates : /\ req' = [req EXCEPT ![r] = q]
                                          /\ q.pc \in {"idle", "first"}
                                          /\ q.pc = "first" => PlanIsSane(q)
  BY <1>1, ContinueIs
<1>2. made' \in Nat /\ made' >= made /\ begun' = begun /\ begun' \in Nat /\ begun' >= begun
  BY NewRowsAre, InsertDoes DEF TimesTypes
<1>3. PlanIsSane(q) => PlanIsSane(q)'
  BY <1>2 DEF PlanIsSane
<1>4. raced' \subseteq K!Segment
  BY <1>1, InsertDoes DEF TimesTypes, Jobs
<1>5. timings' \subseteq [id : 1..made', segment : K!Segment, name : TimerNames, by : 1..begun']
  <2>1. timings \subseteq [id : 1..made', segment : K!Segment, name : TimerNames, by : 1..begun]
    BY <1>2 DEF TimesTypes
  <2> QED BY <1>2, <2>1, NewRowsAre, InsertDoes
<1> QED BY <1>2, <1>3, <1>4, <1>5, TimesTypesKept

LEMMA TimesTypesRename ==
  ASSUME TimesTypes, NEW r \in Handler, NEW t \in timings, NEW n \in Name, K!Rename(r, t, n)
  PROVE  TimesTypes'
<1> PICK q : q = [pc |-> "rename", id |-> t.id, name |-> n, topics |-> t.segment = Topics]
  OBVIOUS
<1>1. q \in RenameStates /\ q.id \in 1..made /\ q.pc = "rename"
  BY DEF TimesTypes, RenameStates
<1>2. begun \in Nat /\ begun' = begun + 1 /\ UNCHANGED <<timings, made, raced>>
  BY DEF TimesTypes, K!Rename, K!Begin
<1>3. req' = [req EXCEPT ![r] = q]
  BY DEF K!Rename, K!Begin, K!GoTo
<1>4. timings' \subseteq [id : 1..made', segment : K!Segment, name : TimerNames, by : 1..begun']
  BY <1>2 DEF TimesTypes
<1>5. made' \in Nat /\ begun' \in Nat /\ made' >= made /\ begun' >= begun /\ raced' \subseteq K!Segment
  BY <1>2 DEF TimesTypes
<1> QED BY <1>1, <1>2, <1>3, <1>4, <1>5, TimesTypesKept

\* The row that is renamed, and the others, keep all but that name.
LEMMA WriteNameDoes ==
  ASSUME TimesTypes, NEW r \in Handler, K!WriteName(r)
  PROVE  /\ req[r] \in RenameStates
         /\ \A t \in timings' :
              \/ t \in timings /\ t.id # req[r].id
              \/ \E u \in timings : /\ u.id = req[r].id /\ t.id = u.id /\ t.segment = u.segment
                                    /\ t.by = u.by /\ t.name = K!Plain(req[r].name)
                                    /\ t = [u EXCEPT !.name = K!Plain(req[r].name)]
<1>1. req[r] \in RenameStates
  BY TimerStateIs DEF K!WriteName
<1>2. \A u \in timings : u \in [id : 1..made, segment : K!Segment, name : TimerNames, by : 1..begun]
  BY DEF TimesTypes
<1> QED BY <1>1, <1>2 DEF K!WriteName

LEMMA TimesTypesWriteName == ASSUME TimesTypes, NEW r \in Handler, K!WriteName(r) PROVE TimesTypes'
<1>1. UNCHANGED <<made, begun>> /\ req' = [req EXCEPT ![r] = K!Idle] /\ K!Idle.pc = "idle"
  BY DEF K!WriteName, K!Done, K!GoTo, K!Idle
<1>2. raced' \subseteq K!Segment
  BY DEF K!WriteName, TimesTypes, K!Segment
<1>3. K!Plain(req[r].name) \in TimerNames
  BY WriteNameDoes DEF K!Plain, TimerNames, RenameStates
<1>4. timings' \subseteq [id : 1..made', segment : K!Segment, name : TimerNames, by : 1..begun']
  <2> SUFFICES ASSUME NEW t \in timings'
               PROVE  t \in [id : 1..made, segment : K!Segment, name : TimerNames, by : 1..begun]
    BY <1>1
  <2>1. \A u \in timings : u \in [id : 1..made, segment : K!Segment, name : TimerNames, by : 1..begun]
    BY DEF TimesTypes
  <2> QED BY <1>3, <2>1, WriteNameDoes
<1>5. made' \in Nat /\ begun' \in Nat /\ made' >= made /\ begun' >= begun
  BY <1>1 DEF TimesTypes
<1> QED BY <1>1, <1>2, <1>4, <1>5, TimesTypesKept

LEMMA TimesTypesRemove ==
  ASSUME TimesTypes, NEW r \in Handler, NEW t \in timings, K!Remove(r, t)
  PROVE  TimesTypes'
<1>1. begun \in Nat /\ begun' = begun + 1 /\ UNCHANGED <<req, made, raced>> /\ timings' \subseteq timings
  BY DEF TimesTypes, K!Remove
<1>2. 1..begun \subseteq 1..begun'
  BY <1>1
<1>3. \A o \in Handler : PlanIsSane(req[o]) => PlanIsSane(req[o])'
  BY <1>1, <1>2 DEF PlanIsSane
<1>4. timings' \subseteq [id : 1..made', segment : K!Segment, name : TimerNames, by : 1..begun']
  BY <1>1, <1>2 DEF TimesTypes
<1> QED BY <1>1, <1>3, <1>4 DEF TimesTypes, TimerSaving, K!At

LEMMA TimesTypesNext == K!Setting /\ TimesTypes /\ [K!Next]_(K!vars) => TimesTypes'
<1> SUFFICES ASSUME K!Setting, TimesTypes, [K!Next]_(K!vars) PROVE TimesTypes'
  OBVIOUS
<1>1. CASE UNCHANGED K!vars
  BY <1>1 DEF K!vars, TimesTypes, TimerSaving, K!At, PlanIsSane
<1>2. CASE K!Next
  <2> PICK r \in Handler : K!Step(r)
    BY <1>2 DEF K!Next
  <2>1. Regular \subseteq K!Segment
    BY DEF K!Segment
  <2>2. CASE K!Fail(r)
    BY <2>2, TimesTypesOnward DEF K!Fail
  <2> QED BY <2>1, <2>2, TimesTypesCreate, TimesTypesDeleteOrRead, TimesTypesInsert,
             TimesTypesRename, TimesTypesWriteName, TimesTypesRemove DEF K!Step
<1> QED BY <1>1, <1>2

-----------------------------------------------------------------------------
(* The timer: what a request has read                                      *)

\* What a request has read or deleted holds until it writes, unless another that had
\* read or deleted too has written: the segment is empty, or the names on show are among
\* those it has seen, and it adds none of them.
InsertIsFresh(r) ==
  K!At(r, "insert") /\ K!Job(r).on \notin raced =>
      \A u \in K!On(K!Job(r).on) :
      /\ K!Job(r).on = Topics
      /\ IF req[r].strict THEN u.name # K!Plain(K!Job(r).new[1].name) ELSE u.name \in req[r].seen

\* Ids are never given twice, so the record a request means to rename stays where it is.
RenameIsFresh(r) ==
  K!At(r, "rename") =>
    /\ \A t \in timings : t.id = req[r].id => (t.segment = Topics <=> req[r].topics)
    /\ req[r].topics /\ Topics \notin raced =>
         \A u \in K!On(Topics) : u.id # req[r].id => u.name # K!Plain(req[r].name)

IdsDiffer == \A t, u \in timings : t.id = u.id => t = u

FreshInv == IdsDiffer /\ \A r \in Handler : InsertIsFresh(r) /\ RenameIsFresh(r)

TimesInv == TimesTypes /\ FreshInv /\ K!TimingsHold

LEMMA FreshInit == K!Init => FreshInv /\ K!TimingsHold
BY DEF K!Init, FreshInv, IdsDiffer, InsertIsFresh, RenameIsFresh, K!At, K!Idle, K!TimingsHold,
       K!OneSavePerSegment, K!SpeakersKeepApart, K!On

\* A step is of one request, and what the others are doing stays.
LEMMA OthersStay ==
  ASSUME TimesTypes, NEW r \in Handler, K!Step(r)
  PROVE  \A o \in Handler : o # r => req'[o] = req[o]
<1>1. UNCHANGED req \/ \E q : req' = [req EXCEPT ![r] = q]
  BY DEF K!Step, K!Create, K!CreateBatch, K!CreateBatchAll, K!Plan, K!Begin, K!DeleteOrRead, K!Insert, K!Fail,
         K!Continue, K!Done, K!GoTo, K!Remove, K!Rename, K!WriteName
<1> QED BY <1>1 DEF TimesTypes

\* Where nothing is written a request's reading keeps its worth.
LEMMA FreshShrinks ==
  ASSUME NEW o \in Handler, req'[o] = req[o], timings' \subseteq timings, raced \subseteq raced',
         InsertIsFresh(o), RenameIsFresh(o)
  PROVE  InsertIsFresh(o)' /\ RenameIsFresh(o)'
<1>1. \A s : K!On(s)' \subseteq K!On(s)
  BY DEF K!On
<1>2. InsertIsFresh(o)'
  BY <1>1 DEF InsertIsFresh, K!At, K!Job
<1>3. RenameIsFresh(o)'
  BY <1>1 DEF RenameIsFresh, K!At
<1> QED BY <1>2, <1>3

LEMMA HoldShrinks ==
  ASSUME timings' \subseteq timings, raced' = raced, IdsDiffer, K!TimingsHold
  PROVE  IdsDiffer' /\ K!TimingsHold'
<1>1. \A s : K!On(s)' \subseteq K!On(s)
  BY DEF K!On
<1>2. K!OneSavePerSegment'
  BY <1>1 DEF K!TimingsHold, K!OneSavePerSegment
<1>3. K!SpeakersKeepApart'
  BY <1>1 DEF K!TimingsHold, K!SpeakersKeepApart
<1> QED BY <1>2, <1>3 DEF IdsDiffer, K!TimingsHold

\* A request that neither waits to insert nor to rename has nothing to keep.
LEMMA NothingRead ==
  ASSUME NEW r \in Handler, req'[r].pc \in {"idle", "first"}
  PROVE  InsertIsFresh(r)' /\ RenameIsFresh(r)'
BY DEF InsertIsFresh, RenameIsFresh, K!At

\* After a save's segment, and after any step that ends a request, nothing is read.
LEMMA EndsRead ==
  ASSUME TimesTypes, NEW r \in Handler, K!Done(r) \/ (TimerSaving(r) /\ K!Continue(r))
  PROVE  req'[r].pc \in {"idle", "first"}
<1>1. CASE K!Done(r)
  BY <1>1 DEF K!Done, K!GoTo, TimesTypes, K!Idle
<1>2. CASE TimerSaving(r) /\ K!Continue(r)
  <2> PICK q \in {K!Idle} \cup SaveStates : /\ req' = [req EXCEPT ![r] = q]
                                            /\ q.pc \in {"idle", "first"}
    BY <1>2, ContinueIs
  <2> QED BY DEF TimesTypes
<1> QED BY <1>1, <1>2

\* What is left after a step that only removes, or writes nothing.
LEMMA QuietStep ==
  ASSUME TimesInv, NEW r \in Handler, K!Step(r), timings' \subseteq timings, raced' = raced,
         InsertIsFresh(r)' /\ RenameIsFresh(r)'
  PROVE  FreshInv' /\ K!TimingsHold'
<1>1. ASSUME NEW o \in Handler PROVE InsertIsFresh(o)' /\ RenameIsFresh(o)'
  BY OthersStay, FreshShrinks DEF TimesInv, FreshInv
<1> QED BY <1>1, HoldShrinks DEF TimesInv, FreshInv

LEMMA FreshPlan ==
  ASSUME TimesInv, NEW r \in Handler, K!Step(r), NEW strict, NEW jobs, K!Plan(r, strict, jobs)
  PROVE  FreshInv' /\ K!TimingsHold'
<1>1. timings' = timings /\ raced' = raced /\ req'[r].pc = "first"
  BY DEF K!Plan, K!Begin, K!GoTo, TimesInv, TimesTypes
<1> QED BY <1>1, NothingRead, QuietStep

LEMMA FreshDeleteOrRead ==
  ASSUME K!Setting, TimesInv, NEW r \in Handler, K!Step(r), K!DeleteOrRead(r)
  PROVE  FreshInv' /\ K!TimingsHold'
<1>1. timings' \subseteq timings /\ raced' = raced
  BY DEF K!DeleteOrRead
<1>2. TimerSaving(r) /\ req[r] \in SaveStates /\ TimesTypes
  BY TimerStateIs DEF K!DeleteOrRead, TimerSaving, TimesInv
<1>3. CASE K!Done(r) \/ K!Continue(r)
  BY <1>1, <1>2, <1>3, EndsRead, NothingRead, QuietStep
<1>4. CASE /\ ~K!Refused(r)
           /\ K!GoTo(r, [req[r] EXCEPT !.pc = "insert",
                           !.seen = IF K!Job(r).on = Topics THEN K!Names(Topics) ELSE {}])
  <2>1. /\ req'[r].pc = "insert" /\ req'[r].todo = req[r].todo /\ req'[r].strict = req[r].strict
        /\ K!Job(r).on = Topics => req'[r].seen = K!Names(Topics)
    BY <1>2, <1>4 DEF K!GoTo, SaveStates, TimesTypes
  <2>2. K!Job(r)' = K!Job(r)
    BY <2>1 DEF K!Job
  <2>3. RenameIsFresh(r)'
    BY <2>1 DEF RenameIsFresh, K!At
  <2>4. CASE K!Job(r).on # Topics
    <3>1. timings' = timings \ K!On(K!Job(r).on)
      BY <2>4 DEF K!DeleteOrRead, K!Replaced
    <3>2. K!On(K!Job(r).on)' = {}
      BY <2>2, <3>1 DEF K!On
    <3>3. InsertIsFresh(r)'
      BY <3>2 DEF InsertIsFresh
    <3> QED BY <1>1, <2>3, <3>3, QuietStep
  <2>5. CASE K!Job(r).on = Topics
    <3>1. timings' = timings
      BY <2>5 DEF K!DeleteOrRead, K!Replaced
    <3>2. \A u \in K!On(Topics) : u.name \in K!Names(Topics)
      BY DEF K!Names
    <3>3. req[r].strict => \A u \in K!On(Topics) : u.name # K!Plain(K!Job(r).new[1].name)
      <4> SUFFICES ASSUME req[r].strict
                   PROVE  K!Plain(K!Job(r).new[1].name) \notin K!Names(Topics)
        BY <3>2
      <4> PICK t \in K!Record(Topics) : K!Job(r).new = <<t>>
        BY <1>2, <2>5, JobIs
      <4>1. t.name \in Name /\ t.name # NoName
        BY DEF K!Record, K!Setting
      <4>2. t \in K!Range(K!Job(r).new) /\ K!Job(r).new[1] = t
        BY DEF K!Range
      <4> QED BY <1>4, <2>5, <4>1, <4>2 DEF K!Refused
    <3>4. InsertIsFresh(r)'
      <4>1. K!On(K!Job(r).on)' = K!On(Topics)
        BY <2>2, <2>5, <3>1 DEF K!On
      <4> QED BY <2>1, <2>2, <2>5, <3>2, <3>3, <4>1 DEF InsertIsFresh
    <3> QED BY <1>1, <2>3, <3>4, QuietStep
  <2> QED BY <2>4, <2>5
<1> QED BY <1>3, <1>4 DEF K!DeleteOrRead

LEMMA FreshRename ==
  ASSUME TimesInv, NEW r \in Handler, K!Step(r), NEW t \in timings, NEW n \in Name, K!Rename(r, t, n)
  PROVE  FreshInv' /\ K!TimingsHold'
<1>1. timings' = timings /\ raced' = raced
  BY DEF K!Rename, K!Begin
<1>2. /\ req'[r].pc = "rename" /\ req'[r].id = t.id /\ req'[r].name = n
      /\ req'[r].topics = (t.segment = Topics)
  BY DEF K!Rename, K!Begin, K!GoTo, TimesInv, TimesTypes
<1>3. \A u \in timings : u.id = t.id => u = t
  BY DEF TimesInv, FreshInv, IdsDiffer
<1>4. t.segment = Topics => \A u \in K!On(Topics) : u.id # t.id => u.name # K!Plain(n)
  BY DEF K!Rename, K!On
<1>5. K!On(Topics)' = K!On(Topics)
  BY <1>1 DEF K!On
<1>6. RenameIsFresh(r)'
  BY <1>1, <1>2, <1>3, <1>4, <1>5 DEF RenameIsFresh, K!Plain
<1>7. InsertIsFresh(r)'
  BY <1>2 DEF InsertIsFresh, K!At
<1> QED BY <1>1, <1>6, <1>7, QuietStep

LEMMA FreshRemove ==
  ASSUME TimesInv, NEW r \in Handler, K!Step(r), NEW t \in timings, K!Remove(r, t)
  PROVE  FreshInv' /\ K!TimingsHold'
<1>1. timings' \subseteq timings /\ raced' = raced /\ req' = req
  BY DEF K!Remove
<1>2. InsertIsFresh(r)' /\ RenameIsFresh(r)'
  BY <1>1, FreshShrinks DEF TimesInv, FreshInv
<1> QED BY <1>1, <1>2, QuietStep

LEMMA FreshFail ==
  ASSUME TimesInv, NEW r \in Handler, K!Step(r), K!Fail(r)
  PROVE  FreshInv' /\ K!TimingsHold'
<1>1. timings' = timings /\ raced' = raced /\ K!Done(r) /\ TimesTypes
  BY DEF K!Fail, TimesInv
<1> QED BY <1>1, EndsRead, NothingRead, QuietStep

\* The rows of a segment that nobody else has read or deleted: those of the insert
\* alone, or names beside those on show.
LEMMA InsertKeepsApart ==
  ASSUME K!Setting, TimesInv, NEW r \in Handler, K!Insert(r), K!Job(r).on \notin raced'
  PROVE  /\ K!Job(r).on # Topics => K!On(K!Job(r).on) = {}
         /\ K!Job(r).on = Topics =>
                \A t \in NewRows(r) : t.name.at = NoName =>
                /\ \A u \in K!On(Topics) : u.name # t.name
                /\ \A u \in NewRows(r) : u.name = t.name => u = t
<1>1. TimerSaving(r) /\ K!Job(r).new \in K!Batch(K!Job(r).on) /\ K!At(r, "insert") /\ TimesTypes
  BY JobIs, InsertDoes DEF TimerSaving, TimesInv
<1>2. K!Job(r).new # <<>>
  BY <1>1 DEF TimesTypes, PlanIsSane, K!Job, K!At
<1>3. K!Job(r).on \notin raced
  BY InsertDoes
<1>4. \A u \in K!On(K!Job(r).on) :
        /\ K!Job(r).on = Topics
        /\ IF req[r].strict THEN u.name # K!Plain(K!Job(r).new[1].name) ELSE u.name \in req[r].seen
  BY <1>1, <1>3 DEF TimesInv, FreshInv, InsertIsFresh
<1>5. ASSUME K!Job(r).on = Topics, NEW i \in DOMAIN K!Job(r).new, GivenNames(r)[i].at = NoName
      PROVE  /\ \A u \in K!On(Topics) : u.name # GivenNames(r)[i]
             /\ \A j \in DOMAIN K!Job(r).new : GivenNames(r)[i] = GivenNames(r)[j] => i = j
  <2>1. CASE req[r].strict
    <3> PICK t \in K!Record(Topics) : K!Job(r).new = <<t>>
      BY <1>1, <1>5, <2>1, JobIs
    <3>1. DOMAIN K!Job(r).new = {1} /\ i = 1
      OBVIOUS
    <3>2. GivenNames(r)[1] = K!Plain(K!Job(r).new[1].name)
      BY <2>1, <3>1 DEF GivenNames
    <3> QED BY <1>4, <1>5, <2>1, <3>1, <3>2
  <2>2. CASE ~req[r].strict
    <3>1. KeptApart(K!UniqueNames(K!Job(r).new, req[r].seen), K!Job(r).new, req[r].seen)
      BY <1>1, <1>2, <1>5, BatchKeepsApart
    <3>2. GivenNames(r) = K!UniqueNames(K!Job(r).new, req[r].seen)
      BY <1>5, <2>2 DEF GivenNames
    <3>3. KeptApart(GivenNames(r), K!Job(r).new, req[r].seen)
      BY <3>1, <3>2
    <3> QED BY <1>4, <1>5, <2>2, <3>3 DEF KeptApart
  <2> QED BY <2>1, <2>2
<1>6. ASSUME K!Job(r).on = Topics, NEW t \in NewRows(r), t.name.at = NoName
      PROVE  /\ \A u \in K!On(Topics) : u.name # t.name
             /\ \A u \in NewRows(r) : u.name = t.name => u = t
  <2> PICK i \in DOMAIN K!Job(r).new :
             t = [id |-> made + i, segment |-> K!Job(r).on, name |-> GivenNames(r)[i], by |-> req[r].by]
    BY DEF NewRows
  <2>1. t.name = GivenNames(r)[i]
    OBVIOUS
  <2>2. ASSUME NEW u \in NewRows(r), u.name = t.name PROVE u = t
    <3> PICK j \in DOMAIN K!Job(r).new :
               u = [id |-> made + j, segment |-> K!Job(r).on, name |-> GivenNames(r)[j], by |-> req[r].by]
      BY DEF NewRows
    <3>1. i = j
      BY <1>5, <1>6, <2>1, <2>2
    <3> QED BY <3>1
  <2> QED BY <1>5, <1>6, <2>1, <2>2
<1> QED BY <1>4, <1>6

LEMMA FreshInsert ==
  ASSUME K!Setting, TimesInv, NEW r \in Handler, K!Step(r), K!Insert(r)
  PROVE  FreshInv' /\ K!TimingsHold'
<1> USE DEF TimesInv
<1> PICK s \in K!Segment : s = K!Job(r).on
  BY JobIs, InsertDoes DEF TimerSaving, Jobs
<1>1. /\ timings' = timings \cup NewRows(r) /\ raced \subseteq raced' /\ K!At(r, "insert")
      /\ K!OtherPending(r, s) => s \in raced'
  BY InsertDoes
<1>2. /\ \A t \in NewRows(r) : t.id > made /\ t.segment = s /\ t.by = req[r].by
      /\ \A t, u \in NewRows(r) : t.id = u.id => t = u
  BY NewRowsAre
<1>3. \A t \in timings : t.id \in 1..made
  BY DEF TimesTypes
<1>4. made \in Nat
  BY DEF TimesTypes
<1>5. NewRows(r) \subseteq [id : 1..made', segment : K!Segment, name : TimerNames, by : 1..begun]
      /\ made' \in Nat
  BY NewRowsAre
<1>6. \A t \in timings, u \in NewRows(r) : t.id # u.id
  BY <1>2, <1>3, <1>4, <1>5
<1>7. IdsDiffer'
  BY <1>1, <1>2, <1>6 DEF FreshInv, IdsDiffer
<1>8. /\ \A z : z # s => K!On(z)' = K!On(z)
      /\ K!On(s)' = K!On(s) \cup NewRows(r)
  BY <1>1, <1>2 DEF K!On
<1>9. ASSUME NEW o \in Handler, o # r PROVE InsertIsFresh(o)' /\ RenameIsFresh(o)'
  <2>1. req'[o] = req[o] /\ InsertIsFresh(o) /\ RenameIsFresh(o)
    BY <1>9, OthersStay DEF FreshInv
  <2>2. K!Job(o)' = K!Job(o)
    BY <2>1 DEF K!Job
  <2>3. InsertIsFresh(o)'
    <3> PICK z : z = K!Job(o).on
      OBVIOUS
    <3>1. K!On(K!Job(o).on)' = K!On(z)'
      BY <2>2 DEF K!On
    <3>2. K!At(o, "insert") /\ z \notin raced' => z # s
      BY <1>1, <1>9 DEF K!OtherPending
    <3>3. K!At(o, "insert") /\ z \notin raced' => K!On(z)' = K!On(z)
      BY <1>8, <3>2
    <3> QED BY <1>1, <2>1, <2>2, <3>1, <3>3 DEF InsertIsFresh, K!At
  <2>4. RenameIsFresh(o)'
    <3> SUFFICES ASSUME K!At(o, "rename") PROVE RenameIsFresh(o)'
      BY <2>1 DEF RenameIsFresh, K!At
    <3>1. req[o].id \in 1..made
      BY DEF TimesTypes
    <3>2. \A t \in NewRows(r) : t.id # req[o].id
      BY <1>2, <1>4, <1>5, <3>1
    <3>3. \A t \in timings' : t.id = req[o].id => t \in timings
      BY <1>1, <3>2
    <3>4. Topics \notin raced' => K!On(Topics)' = K!On(Topics)
      BY <1>1, <1>8, <1>9 DEF K!OtherPending
    <3> QED BY <1>1, <2>1, <3>3, <3>4 DEF RenameIsFresh, K!At
  <2> QED BY <2>3, <2>4
<1>10. InsertIsFresh(r)' /\ RenameIsFresh(r)'
  BY InsertDoes, EndsRead, NothingRead DEF TimerSaving
<1>11. K!OneSavePerSegment'
  <2> SUFFICES ASSUME NEW z \in Regular, z \notin raced', NEW t \in K!On(z)', NEW u \in K!On(z)'
               PROVE  t.by = u.by
    BY DEF K!OneSavePerSegment
  <2>1. CASE z # s
    BY <1>1, <1>8, <2>1 DEF K!TimingsHold, K!OneSavePerSegment
  <2>2. CASE z = s
    <3>1. K!On(s) = {}
      BY <2>2, InsertKeepsApart DEF K!Setting
    <3> QED BY <1>2, <1>8, <2>2, <3>1
  <2> QED BY <2>1, <2>2
<1>12. K!SpeakersKeepApart'
  <2> SUFFICES ASSUME Topics \notin raced', NEW t \in K!On(Topics)', NEW u \in K!On(Topics)',
                      t.name = u.name, t.name \in {K!Plain(n) : n \in Name}
               PROVE  t = u
    BY DEF K!SpeakersKeepApart
  <2>1. t.name.at = NoName /\ u.name.at = NoName
    BY DEF K!Plain
  <2>2. Topics \notin raced
    BY <1>1
  <2>3. t \in K!On(Topics) /\ u \in K!On(Topics) => t = u
    BY <2>2 DEF K!TimingsHold, K!SpeakersKeepApart
  <2>4. CASE s # Topics
    BY <1>8, <2>3, <2>4
  <2>5. CASE s = Topics
    <3>1. \A x \in NewRows(r) : x.name.at = NoName =>
            /\ \A y \in K!On(Topics) : y.name # x.name
            /\ \A y \in NewRows(r) : y.name = x.name => y = x
      BY <2>5, InsertKeepsApart
    <3> QED BY <1>8, <2>1, <2>3, <2>5, <3>1
  <2> QED BY <2>4, <2>5
<1> QED BY <1>7, <1>9, <1>10, <1>11, <1>12 DEF FreshInv, K!TimingsHold

LEMMA FreshWriteName ==
  ASSUME TimesInv, NEW r \in Handler, K!Step(r), K!WriteName(r)
  PROVE  FreshInv' /\ K!TimingsHold'
<1> USE DEF TimesInv
<1>1. /\ raced \subseteq raced' /\ K!Done(r) /\ K!At(r, "rename")
      /\ req[r].topics /\ K!OtherPending(r, Topics) => Topics \in raced'
  BY DEF K!WriteName
<1>2. IdsDiffer /\ RenameIsFresh(r)
  BY DEF FreshInv
<1>3. ASSUME NEW t \in timings'
      PROVE  \E u \in timings : /\ t.id = u.id /\ t.segment = u.segment /\ t.by = u.by
                                /\ t = u \/ (u.id = req[r].id /\ t.name = K!Plain(req[r].name)
                                             /\ t = [u EXCEPT !.name = K!Plain(req[r].name)])
  BY WriteNameDoes
<1>4. \A t \in timings' : t.id # req[r].id => t \in timings
  BY WriteNameDoes
<1>5. IdsDiffer'
  <2> SUFFICES ASSUME NEW t \in timings', NEW u \in timings', t.id = u.id PROVE t = u
    BY DEF IdsDiffer
  <2>1. CASE t.id # req[r].id
    BY <1>2, <1>4, <2>1 DEF IdsDiffer
  <2>2. CASE t.id = req[r].id
    <3> PICK v \in timings : v.id = req[r].id /\ t = [v EXCEPT !.name = K!Plain(req[r].name)]
      BY <2>2, WriteNameDoes
    <3> PICK w \in timings : w.id = req[r].id /\ u = [w EXCEPT !.name = K!Plain(req[r].name)]
      BY <2>2, WriteNameDoes
    <3>1. v = w
      BY <1>2 DEF IdsDiffer
    <3> QED BY <3>1
  <2> QED BY <2>1, <2>2
<1>6. \A z : K!On(z) = {} => K!On(z)' = {}
  BY <1>3 DEF K!On
<1>7. ~req[r].topics => K!On(Topics)' \subseteq K!On(Topics)
  <2> SUFFICES ASSUME ~req[r].topics, NEW t \in timings', t.segment = Topics PROVE t \in timings
    BY DEF K!On
  <2> PICK u \in timings : t.id = u.id /\ t.segment = u.segment
    BY <1>3
  <2>1. u.id # req[r].id
    BY <1>1, <1>2 DEF RenameIsFresh
  <2> QED BY <1>4, <2>1
<1>8. \A t \in K!On(Topics)' : t \in K!On(Topics) \/ t.id = req[r].id
  BY <1>4 DEF K!On
<1>9. ASSUME NEW o \in Handler, o # r PROVE InsertIsFresh(o)' /\ RenameIsFresh(o)'
  <2>1. req'[o] = req[o] /\ InsertIsFresh(o) /\ RenameIsFresh(o)
    BY <1>9, OthersStay DEF FreshInv
  <2>2. K!Job(o)' = K!Job(o)
    BY <2>1 DEF K!Job
  <2>3. InsertIsFresh(o)'
    <3> PICK z : z = K!Job(o).on
      OBVIOUS
    <3>1. K!On(K!Job(o).on)' = K!On(z)'
      BY <2>2 DEF K!On
    <3>2. ASSUME K!At(o, "insert"), z \notin raced' PROVE K!On(z)' \subseteq K!On(z)
      <4>1. CASE z = Topics
        <5>1. ~req[r].topics
          BY <1>1, <1>9, <3>2, <4>1 DEF K!OtherPending
        <5> QED BY <1>7, <4>1, <5>1
      <4>2. CASE z # Topics
        <5>1. K!On(z) = {}
          BY <1>1, <2>1, <3>2, <4>2 DEF InsertIsFresh
        <5> QED BY <1>6, <5>1
      <4> QED BY <4>1, <4>2
    <3> QED BY <1>1, <2>1, <2>2, <3>1, <3>2 DEF InsertIsFresh, K!At
  <2>4. RenameIsFresh(o)'
    <3> SUFFICES ASSUME K!At(o, "rename") PROVE RenameIsFresh(o)'
      BY <2>1 DEF RenameIsFresh, K!At
    <3>1. \A t \in timings' : t.id = req[o].id => (t.segment = Topics <=> req[o].topics)
      BY <1>3, <2>1 DEF RenameIsFresh
    <3>2. Topics \notin raced' => ~req[r].topics
      BY <1>1, <1>9 DEF K!OtherPending
    <3> QED BY <1>1, <1>7, <2>1, <3>1, <3>2 DEF RenameIsFresh, K!At
  <2> QED BY <2>3, <2>4
<1>10. InsertIsFresh(r)' /\ RenameIsFresh(r)'
  BY <1>1, EndsRead, NothingRead
<1>11. K!OneSavePerSegment'
  <2>1. ASSUME NEW z, NEW t \in K!On(z)' PROVE \E u \in K!On(z) : t.by = u.by
    BY <1>3 DEF K!On
  <2> QED BY <1>1, <2>1 DEF K!TimingsHold, K!OneSavePerSegment
<1>12. K!SpeakersKeepApart'
  <2> SUFFICES ASSUME Topics \notin raced', NEW t \in K!On(Topics)', NEW u \in K!On(Topics)',
                      t.name = u.name, t.name \in {K!Plain(n) : n \in Name}
               PROVE  t = u
    BY DEF K!SpeakersKeepApart
  <2>1. Topics \notin raced
    BY <1>1
  <2>2. t \in K!On(Topics) /\ u \in K!On(Topics) => t = u
    BY <2>1 DEF K!TimingsHold, K!SpeakersKeepApart
  <2>3. CASE ~req[r].topics
    BY <1>7, <2>2, <2>3
  <2>4. CASE req[r].topics
    <3>1. \A x \in K!On(Topics) : x.id # req[r].id => x.name # K!Plain(req[r].name)
      BY <1>1, <1>2, <2>1, <2>4 DEF RenameIsFresh
    <3>2. \A x \in K!On(Topics)' : x.id = req[r].id => x.name = K!Plain(req[r].name)
      BY WriteNameDoes DEF K!On
    <3>3. t.id = req[r].id /\ u.id = req[r].id => t = u
      BY <1>5 DEF IdsDiffer, K!On
    <3>4. \A x \in K!On(Topics)' : x.id # req[r].id => x \in K!On(Topics)
      BY <1>8
    <3> QED BY <2>2, <3>1, <3>2, <3>3, <3>4
  <2> QED BY <2>3, <2>4
<1> QED BY <1>5, <1>9, <1>10, <1>11, <1>12 DEF FreshInv, K!TimingsHold

LEMMA TimesNext == K!Setting /\ TimesInv /\ [K!Next]_(K!vars) => TimesInv'
<1> SUFFICES ASSUME K!Setting, TimesInv, [K!Next]_(K!vars) PROVE TimesInv'
  OBVIOUS
<1>1. TimesTypes'
  BY TimesTypesNext DEF TimesInv
<1>2. CASE UNCHANGED K!vars
  BY <1>1, <1>2 DEF TimesInv, K!vars, FreshInv, IdsDiffer, InsertIsFresh, RenameIsFresh, K!At, K!Job,
     K!On, K!TimingsHold, K!OneSavePerSegment, K!SpeakersKeepApart
<1>3. CASE K!Next
  <2> PICK r \in Handler : K!Step(r)
    BY <1>3 DEF K!Next
  <2>1. CASE \E strict, jobs : K!Plan(r, strict, jobs)
    BY <1>1, <2>1, FreshPlan DEF TimesInv
  <2> QED BY <1>1, <2>1, FreshDeleteOrRead, FreshInsert, FreshFail, FreshRename,
             FreshWriteName, FreshRemove DEF K!Step, K!Create, K!CreateBatch, K!CreateBatchAll, TimesInv
<1> QED BY <1>2, <1>3

\* The records and the requests keep their types: a row is of a segment of the meeting,
\* with an id and a save that there have been (db/core.py, the timings).
THEOREM TimesAreTyped == K!Setting => (K!Spec => []K!TypeOK)
<1>1. K!Setting /\ K!Init => TimesTypes
  BY TimesTypesInit
<1>2. K!Setting /\ TimesTypes /\ [K!Next]_(K!vars) => TimesTypes'
  BY TimesTypesNext
<1>3. TimesTypes => K!TypeOK
  BY TimerStateIs DEF TimesTypes, K!TypeOK, TimerNames
<1>4. CASE K!Setting
  BY <1>1, <1>2, <1>3, <1>4, PTL DEF K!Spec
<1> QED BY <1>4

\* Unless two saves overlapped, the records of a segment come from one of them, and two
\* speakers of Table Topics have a name each: what create_timing, its batches and
\* update_timing check before they write holds when they do.
THEOREM TimesAreKept == K!Setting => (K!Spec => []K!TimingsHold)
<1>1. K!Setting /\ K!Init => TimesInv
  BY TimesTypesInit, FreshInit DEF TimesInv
<1>2. K!Setting /\ TimesInv /\ [K!Next]_(K!vars) => TimesInv'
  BY TimesNext
<1>3. TimesInv => K!TimingsHold
  BY DEF TimesInv
<1>4. CASE K!Setting
  BY <1>1, <1>2, <1>3, <1>4, PTL DEF K!Spec
<1> QED BY <1>4

\* The records of a meeting, each while it is what is served: the check-ins and
\* the roles taken (create_checkins, reset_segment_checkin), and the batches of the timer
\* (create_timings_batch_all).
THEOREM RecordsAreKept ==
  ASSUME A!Setting, K!Setting
  PROVE  /\ A!Spec /\ [](part = "checkins") => []RecordsHold
         /\ K!Spec /\ [](part = "timings") => []RecordsHold
<1>1. A!CheckinsHold /\ part = "checkins" => RecordsHold
  BY DEF RecordsHold
<1>2. K!TimingsHold /\ part = "timings" => RecordsHold
  BY DEF RecordsHold
<1>3. K!Spec => []K!TimingsHold
  BY TimesAreKept
<1> QED BY <1>1, <1>2, <1>3, PresenceIsKept, PTL

-----------------------------------------------------------------------------
(* Meetings: what a request holds                                          *)

AgendaRow  == [text : Text, related : SUBSET Nat]
AgendaRows == UNION {[ids -> AgendaRow] : ids \in SUBSET Nat}
AgendaForm == UNION {[ids -> SUBSET Nat] : ids \in SUBSET Nat}

\* A save that has prepared its rows, with statements left, and one that has done them.
PendingPcs  == {"row", "delete", "guest?", "guest!", "update", "insert"}
PreparedPcs == PendingPcs \cup {"answer"}
SavePcs     == PreparedPcs \cup {"create", "read"}

AgendaSaves ==
  [pc : SavePcs, alone : BOOLEAN, form : AgendaForm, text : Text, old : Text \cup {Absent},
   seen : AgendaRows, rows : AgendaRows]
AgendaDeletions == [pc : {"segments", "meeting"}, alone : BOOLEAN]
AgendaAwards    == [pc : {"awards", "award"}, by : Nat]
AgendaReqs      == {M!Idle} \cup AgendaSaves \cup AgendaDeletions \cup AgendaAwards

SavesAgenda(r) == req[r].pc \in SavePcs
IsPending(r)   == req[r].pc \in PendingPcs
IsPrepared(r)  == req[r].pc \in PreparedPcs
Awarding(r)    == req[r].pc \in {"awards", "award"}

\* The rows a save is about to store have ids that were made, and refer to each other.
RowsFit(q, m) ==
  /\ DOMAIN q.rows \subseteq 1..m /\ DOMAIN q.seen \subseteq 1..m
  /\ \A id \in DOMAIN q.rows : q.rows[id].related \subseteq DOMAIN q.rows

ReqFits(q, m, b) ==
  /\ q.pc \in {"create", "read"} => IsFiniteSet(DOMAIN q.form)
  /\ q.pc \in PreparedPcs => RowsFit(q, m)
  /\ q.pc \in {"awards", "award"} => q.by \in 1..b

\* The saves that may still add the guest.
MayAdd == {r \in Handler : req[r].pc \in {"create", "read", "row", "delete", "guest?", "guest!"}}

AgendaState ==
  /\ meeting \in [row : {"none", "there", "gone"}, text : Text \cup {Absent}]
  /\ segments \in AgendaRows /\ M!Stored \subseteq M!Known
  /\ \A id \in M!Stored : segments[id].related \subseteq M!Known
  /\ meeting.row # "there" => M!Stored = {}
  /\ saved \in [text : Text \cup {Absent}, rows : AgendaRows]
  /\ \A id \in DOMAIN saved.rows : saved.rows[id].related \subseteq DOMAIN saved.rows
  /\ made \in Nat /\ begun \in 0..MaxSaves /\ guests \in Nat
  /\ awards \subseteq 1..begun
  /\ lapse \in BOOLEAN /\ raced \in BOOLEAN

AgendaTypes ==
  /\ AgendaState
  /\ req \in [Handler -> AgendaReqs]
  /\ \A r \in Handler : ReqFits(req[r], made, begun)

GuestsCounted == guests + Cardinality(MayAdd) <= begun

\* What a step of a request may do to the others: another writer is no longer alone.
Untouched(q) ==
  /\ req'[q].pc = req[q].pc
  /\ SavesAgenda(q) => /\ req'[q].form = req[q].form /\ req'[q].text = req[q].text
                       /\ req'[q].old = req[q].old
                       /\ req'[q].seen = req[q].seen /\ req'[q].rows = req[q].rows
  /\ Awarding(q) => req'[q].by = req[q].by

Turns(r, s) ==
  /\ s \in AgendaReqs /\ req' \in [Handler -> AgendaReqs]
  /\ req'[r] = s
  /\ \A q \in Handler \ {r} : Untouched(q)

\* What a request's state is, by its progress.
LEMMA AgendaReqIs ==
  ASSUME NEW q \in AgendaReqs
  PROVE  /\ q.pc \in SavePcs <=> q \in AgendaSaves
         /\ q.pc \in {"segments", "meeting"} <=> q \in AgendaDeletions
         /\ q.pc \in {"awards", "award"} <=> q \in AgendaAwards
         /\ q.pc = "idle" <=> q = M!Idle
         /\ q.pc \in SavePcs \cup {"segments", "meeting", "awards", "award", "idle"}
<1>1. /\ \A p \in AgendaSaves : p.pc \in SavePcs
      /\ \A p \in AgendaDeletions : p.pc \in {"segments", "meeting"}
      /\ \A p \in AgendaAwards : p.pc \in {"awards", "award"}
      /\ M!Idle.pc = "idle"
  BY DEF AgendaSaves, AgendaDeletions, AgendaAwards, M!Idle
<1>2. /\ SavePcs \cap {"segments", "meeting", "awards", "award", "idle"} = {}
  BY DEF SavePcs, PreparedPcs, PendingPcs
<1> QED BY <1>1, <1>2 DEF AgendaReqs

\* One request's turn leaves the others as they are.
LEMMA TurnsGoTo ==
  ASSUME AgendaTypes, NEW r \in Handler, NEW s \in AgendaReqs, M!GoTo(r, s)
  PROVE  /\ Turns(r, s) /\ \A q \in Handler \ {r} : req'[q] = req[q]
BY DEF AgendaTypes, M!GoTo, Turns, Untouched

LEMMA TurnsBegin ==
  ASSUME AgendaTypes, NEW r \in Handler, NEW s \in AgendaReqs, M!BeginWriting(r, s)
  PROVE  /\ Turns(r, s)
         /\ \A q \in Handler \ {r} : q \in M!Writing => ~req'[q].alone
<1>1. /\ req'[r] = s /\ req' = [q \in Handler |-> req'[q]]
      /\ \A q \in Handler \ {r} :
           req'[q] = IF q \in M!Writing THEN [req[q] EXCEPT !.alone = FALSE] ELSE req[q]
  BY DEF M!BeginWriting
<1>2. ASSUME NEW q \in Handler \ {r}
      PROVE  req'[q] \in AgendaReqs /\ Untouched(q) /\ (q \in M!Writing => ~req'[q].alone)
  <2>1. req[q] \in AgendaReqs
    BY DEF AgendaTypes
  <2>2. CASE q \notin M!Writing
    BY <1>1, <2>1, <2>2 DEF Untouched
  <2>3. CASE q \in M!Writing
    <3>1. req'[q] = [req[q] EXCEPT !.alone = FALSE]
      BY <1>1, <2>3
    <3>2. req[q].pc \notin {"idle", "awards", "award"}
      BY <2>3 DEF M!Writing
    <3>3. CASE req[q] \in AgendaSaves
      <4>1. /\ req'[q] \in AgendaSaves /\ req'[q].pc = req[q].pc /\ req'[q].alone = FALSE
            /\ req'[q].form = req[q].form /\ req'[q].text = req[q].text
            /\ req'[q].old = req[q].old
            /\ req'[q].seen = req[q].seen /\ req'[q].rows = req[q].rows
        BY <3>1, <3>3 DEF AgendaSaves
      <4> QED BY <4>1, <3>2 DEF Untouched, AgendaReqs, Awarding
    <3>4. CASE req[q] \in AgendaDeletions
      <4>1. /\ req'[q] \in AgendaDeletions /\ req'[q].pc = req[q].pc /\ req'[q].alone = FALSE
        BY <3>1, <3>4 DEF AgendaDeletions
      <4>2. ~SavesAgenda(q)
        BY <3>4 DEF AgendaDeletions, SavesAgenda, SavePcs, PreparedPcs, PendingPcs
      <4> QED BY <4>1, <4>2, <3>2 DEF Untouched, AgendaReqs, Awarding
    <3> QED BY <2>1, <3>2, <3>3, <3>4, AgendaReqIs
  <2> QED BY <2>2, <2>3
<1> QED BY <1>1, <1>2 DEF Turns

-----------------------------------------------------------------------------
(* Meetings: the statement after                                           *)

\* Between a statement and the next that is needed there is none that is.
Skips(q, from, p) ==
  \E k \in 1..7, n \in 1..7 :
    /\ k < n /\ M!Statements[k] = from /\ M!Statements[n] = p
    /\ M!Needed(q, p)
    /\ \A i \in 1..7 : k < i /\ i < n => ~M!Needed(q, M!Statements[i])

LEMMA StatementsAre ==
  /\ DOMAIN M!Statements = 1..7
  /\ M!Statements[1] = "row" /\ M!Statements[2] = "delete" /\ M!Statements[3] = "guest?"
  /\ M!Statements[4] = "guest!" /\ M!Statements[5] = "update" /\ M!Statements[6] = "insert"
  /\ M!Statements[7] = "answer"
BY DEF M!Statements

LEMMA AfterIs ==
  ASSUME NEW r \in Handler, NEW from \in PendingPcs, NEW q, M!After(r, from, q)
  PROVE  \E p \in PreparedPcs : /\ req' = [req EXCEPT ![r] = [q EXCEPT !.pc = p]]
                                /\ Skips(q, from, p)
<1> DEFINE at == CHOOSE i \in DOMAIN M!Statements : M!Statements[i] = from
           later == {i \in DOMAIN M!Statements : i > at /\ M!Needed(q, M!Statements[i])}
           n == CHOOSE i \in later : \A j \in later : i <= j
<1>1. at \in 1..6 /\ M!Statements[at] = from
  <2>1. \E i \in 1..6 : M!Statements[i] = from
    BY StatementsAre DEF PendingPcs
  <2>2. at \in 1..7 /\ M!Statements[at] = from
    BY <2>1, StatementsAre
  <2>3. from # M!Statements[7]
    BY StatementsAre DEF PendingPcs
  <2> HIDE DEF at
  <2> QED BY <2>2, <2>3
<1>2. 7 \in later
  <2>1. M!Needed(q, M!Statements[7])
    BY StatementsAre DEF M!Needed
  <2> HIDE DEF at
  <2> QED BY <1>1, <2>1, StatementsAre
<1>3. later \subseteq 1..7
  BY StatementsAre
<1>4. n \in later /\ \A j \in later : n <= j
  <2> HIDE DEF later
  <2>1. \E i \in later : \A j \in later : i <= j
    <3> DEFINE low(i) == i \in later /\ \A j \in later : i <= j
    <3>1. CASE 1 \in later
      BY <3>1, <1>3
    <3>2. CASE 1 \notin later /\ 2 \in later
      BY <3>2, <1>3
    <3>3. CASE 1 \notin later /\ 2 \notin later /\ 3 \in later
      BY <3>3, <1>3
    <3>4. CASE 1 \notin later /\ 2 \notin later /\ 3 \notin later /\ 4 \in later
      BY <3>4, <1>3
    <3>5. CASE /\ 1 \notin later /\ 2 \notin later /\ 3 \notin later /\ 4 \notin later
               /\ 5 \in later
      BY <3>5, <1>3
    <3>6. CASE /\ 1 \notin later /\ 2 \notin later /\ 3 \notin later /\ 4 \notin later
               /\ 5 \notin later
      BY <3>6, <1>2, <1>3
    <3> QED BY <3>1, <3>2, <3>3, <3>4, <3>5, <3>6
  <2> QED BY <2>1
<1>5. req' = [req EXCEPT ![r] = [q EXCEPT !.pc = M!Statements[n]]]
  BY DEF M!After, M!GoTo
<1>6. n \in 1..7 /\ at < n /\ M!Needed(q, M!Statements[n])
  BY <1>3, <1>4
<1>7. \A i \in 1..7 : at < i /\ i < n => ~M!Needed(q, M!Statements[i])
  <2> SUFFICES ASSUME NEW i \in 1..7, at < i, i < n, M!Needed(q, M!Statements[i]) PROVE FALSE
    OBVIOUS
  <2>1. i \in later
    BY <1>1, StatementsAre
  <2> HIDE DEF later, n
  <2> QED BY <2>1, <1>4, <1>6
<1>8. M!Statements[n] \in PreparedPcs
  <2> HIDE DEF n
  <2> QED BY <1>6, StatementsAre DEF PreparedPcs, PendingPcs
<1> HIDE DEF at, n, later
<1>9. Skips(q, from, M!Statements[n])
  BY <1>1, <1>6, <1>7 DEF Skips
<1> QED BY <1>5, <1>8, <1>9

LEMMA NeededIs ==
  ASSUME NEW q
  PROVE  /\ M!Needed(q, "row") <=> q.text # q.old
         /\ M!Needed(q, "delete") <=> M!ToDelete(q) # {}
         /\ M!Needed(q, "guest?") <=> M!ToUpdate(q) \cup M!ToAdd(q) # {}
         /\ ~M!Needed(q, "guest!")
         /\ M!Needed(q, "update") <=> M!ToUpdate(q) # {}
         /\ M!Needed(q, "insert") <=> M!ToAdd(q) # {}
         /\ M!Needed(q, "answer")
<1>1. M!Needed(q, "row") <=> q.text # q.old
  BY DEF M!Needed
<1>2. M!Needed(q, "delete") <=> M!ToDelete(q) # {}
  BY DEF M!Needed
<1>3. M!Needed(q, "guest?") <=> M!ToUpdate(q) \cup M!ToAdd(q) # {}
  BY DEF M!Needed
<1>4. ~M!Needed(q, "guest!")
  BY DEF M!Needed
<1>5. M!Needed(q, "update") <=> M!ToUpdate(q) # {}
  BY DEF M!Needed
<1>6. M!Needed(q, "insert") <=> M!ToAdd(q) # {}
  BY DEF M!Needed
<1>7. M!Needed(q, "answer")
  BY DEF M!Needed
<1> QED BY <1>1, <1>2, <1>3, <1>4, <1>5, <1>6, <1>7

\* What is needed depends on the texts and the rows only.
SameWork(q, s) == q.text = s.text /\ q.old = s.old /\ q.seen = s.seen /\ q.rows = s.rows

LEMMA SkipsSame ==
  ASSUME NEW q, NEW s, SameWork(q, s), NEW from, NEW p, Skips(q, from, p)
  PROVE  Skips(s, from, p)
<1>1. M!ToDelete(q) = M!ToDelete(s) /\ M!ToUpdate(q) = M!ToUpdate(s) /\ M!ToAdd(q) = M!ToAdd(s)
  BY DEF SameWork, M!ToDelete, M!ToUpdate, M!ToAdd
<1>2. \A i \in 1..7 : M!Needed(q, M!Statements[i]) <=> M!Needed(s, M!Statements[i])
  <2>1. \A x \in PreparedPcs : M!Needed(q, x) <=> M!Needed(s, x)
    BY <1>1, NeededIs DEF SameWork, PreparedPcs, PendingPcs
  <2>2. \A i \in 1..7 : M!Statements[i] \in PreparedPcs
    BY StatementsAre DEF PreparedPcs, PendingPcs
  <2> QED BY <2>1, <2>2
<1> QED BY <1>2 DEF Skips

\* A save goes on to its next statement with what it has.
SaveGoes(r, s) ==
  /\ s \in AgendaSaves /\ Turns(r, s) /\ \A q \in Handler \ {r} : req'[q] = req[q]
  /\ s.pc \in PreparedPcs
  /\ s.alone = req[r].alone /\ SameWork(req[r], s)

LEMMA ProceedIs ==
  ASSUME AgendaTypes, NEW r \in Handler, IsPending(r), M!Proceed(r)
  PROVE  \E s : SaveGoes(r, s) /\ Skips(s, req[r].pc, s.pc)
<1> PICK p \in PreparedPcs : /\ req' = [req EXCEPT ![r] = [req[r] EXCEPT !.pc = p]]
                             /\ Skips(req[r], req[r].pc, p)
  BY AfterIs DEF IsPending, M!Proceed
<1> DEFINE s == [req[r] EXCEPT !.pc = p]
<1>1. req[r] \in AgendaSaves
  BY AgendaReqIs DEF IsPending, SavePcs, PreparedPcs, AgendaTypes
<1>2. /\ s \in AgendaSaves /\ s.pc = p /\ s.alone = req[r].alone
      /\ SameWork(req[r], s)
  BY <1>1 DEF AgendaSaves, SameWork, SavePcs
<1> HIDE DEF s
<1>3. s \in AgendaReqs /\ M!GoTo(r, s)
  BY <1>2 DEF AgendaReqs, M!GoTo, s
<1>4. Skips(s, req[r].pc, s.pc)
  BY <1>2, SkipsSame
<1> QED BY <1>2, <1>3, <1>4, TurnsGoTo DEF SaveGoes

\* The same at FindGuest, which has a statement of its own.
LEMMA MissesGuest ==
  ASSUME AgendaTypes, NEW r \in Handler, M!At(r, "guest?"), M!GoTo(r, [req[r] EXCEPT !.pc = "guest!"])
  PROVE  \E s : SaveGoes(r, s) /\ s.pc = "guest!"
<1> DEFINE s == [req[r] EXCEPT !.pc = "guest!"]
<1>1. req[r] \in AgendaSaves
  BY AgendaReqIs DEF M!At, SavePcs, PreparedPcs, PendingPcs, AgendaTypes
<1>2. /\ s \in AgendaSaves /\ s.pc = "guest!" /\ s.alone = req[r].alone
      /\ SameWork(req[r], s)
  BY <1>1 DEF AgendaSaves, SameWork, SavePcs, PreparedPcs, PendingPcs
<1> HIDE DEF s
<1>3. s \in AgendaReqs /\ M!GoTo(r, s)
  BY <1>2 DEF AgendaReqs, M!GoTo, s
<1>4. s.pc \in PreparedPcs
  BY <1>2 DEF PreparedPcs, PendingPcs
<1> QED BY <1>2, <1>3, <1>4, TurnsGoTo DEF SaveGoes

-----------------------------------------------------------------------------
(* Meetings: the rows of a form                                            *)

LEMMA AgendaCount ==
  \A S : (M!IsFiniteSet(S) <=> IsFiniteSet(S)) /\ M!Cardinality(S) = Cardinality(S)
<1>1. \A S : M!IsFiniteSet(S) <=> IsFiniteSet(S)
  BY DEF IsFiniteSet, M!IsFiniteSet
<1>2. \A S : M!Cardinality(S) = Cardinality(S)
  BY Zenon DEF Cardinality, M!Cardinality, IsFiniteSet, M!IsFiniteSet
<1> QED BY <1>1, <1>2

LEMMA NewIdsAre ==
  ASSUME NEW form \in AgendaForm, IsFiniteSet(DOMAIN form), NEW existing, made \in Nat
  PROVE  LET n == Cardinality(DOMAIN form \ existing) IN
         /\ n \in Nat
         /\ DOMAIN M!NewIds(form, existing) = DOMAIN form
         /\ \A i \in DOMAIN form : M!NewIds(form, existing)[i] \in existing \cup ((made + 1)..(made + n))
<1> DEFINE unseen == DOMAIN form \ existing
           n == Cardinality(unseen)
           upTo(i) == {j \in unseen : j <= i}
           ids == M!NewIds(form, existing)
<1>1. IsFiniteSet(unseen) /\ n \in Nat
  BY FS_Subset, FS_CardinalityType
<1>2. DOMAIN form \subseteq Nat
  BY DEF AgendaForm
<1>3. /\ DOMAIN ids = DOMAIN form
      /\ \A i \in DOMAIN form : ids[i] = IF i \in existing THEN i ELSE made + Cardinality(upTo(i))
  <2>1. /\ DOMAIN ids = DOMAIN form
        /\ \A i \in DOMAIN form : ids[i] = IF i \in existing THEN i ELSE made + M!Cardinality(upTo(i))
    BY DEF M!NewIds
  <2> HIDE DEF ids, upTo
  <2> QED BY <2>1, AgendaCount
<1>4. ASSUME NEW i \in DOMAIN form, i \notin existing
      PROVE  Cardinality(upTo(i)) \in 1..n
  <2>1. i \in upTo(i) /\ upTo(i) \subseteq unseen
    BY <1>2, <1>4
  <2> HIDE DEF upTo, unseen
  <2>2. IsFiniteSet(upTo(i)) /\ Cardinality(upTo(i)) \in Nat /\ Cardinality(upTo(i)) <= n
    BY <1>1, <2>1, FS_Subset, FS_CardinalityType
  <2>3. Cardinality(upTo(i)) # 0
    BY <2>1, <2>2, FS_EmptySet
  <2> QED BY <1>1, <2>2, <2>3
<1> HIDE DEF upTo, ids, unseen
<1>5. ASSUME NEW i \in DOMAIN form
      PROVE  ids[i] \in existing \cup ((made + 1)..(made + n))
  <2>1. CASE i \in existing
    BY <1>3, <2>1
  <2>2. CASE i \notin existing
    <3> PICK c \in 1..n : c = Cardinality(upTo(i))
      BY <1>4, <2>2
    <3> QED BY <1>1, <1>3, <2>2
  <2> QED BY <2>1, <2>2
<1> QED BY <1>1, <1>3, <1>5 DEF ids, unseen

LEMMA AssignedAre ==
  ASSUME NEW form, NEW new, NEW text \in Text, M!Range(new) \subseteq Nat
  PROVE  LET stored == M!Assigned(form, new, text) IN
         /\ stored \in AgendaRows /\ DOMAIN stored = M!Range(new)
         /\ \A id \in DOMAIN stored : stored[id].related \subseteq DOMAIN stored
<1> DEFINE stored == M!Assigned(form, new, text)
           rel(id) == M!RemapRelated(form[CHOOSE i \in DOMAIN new : new[i] = id], new, M!Range(new))
<1>1. /\ DOMAIN stored = M!Range(new)
      /\ stored = [id \in M!Range(new) |-> [text |-> text, related |-> rel(id)]]
  BY DEF M!Assigned
<1>2. \A id \in M!Range(new) : rel(id) \subseteq M!Range(new)
  BY DEF M!RemapRelated
<1> HIDE DEF rel, stored
<1>3. \A id \in M!Range(new) : [text |-> text, related |-> rel(id)] \in AgendaRow
  BY <1>2 DEF AgendaRow
<1>4. stored \in [M!Range(new) -> AgendaRow]
  BY <1>1, <1>3
<1>5. \A id \in DOMAIN stored : stored[id].related = rel(id)
  BY <1>1
<1> QED BY <1>1, <1>2, <1>4, <1>5 DEF AgendaRows, stored

\* What is prepared: rows of the ones that were read, and new ones.
Prepares(r, s, seen) ==
  /\ s \in AgendaSaves /\ Turns(r, s) /\ \A q \in Handler \ {r} : req'[q] = req[q]
  /\ s.alone = req[r].alone /\ s.text = req[r].text /\ s.old = req[r].old
  /\ s.seen = seen
  /\ made' \in Nat /\ made' >= made
  /\ DOMAIN s.rows \subseteq DOMAIN seen \cup ((made + 1)..made')
  /\ \A id \in DOMAIN s.rows : s.rows[id].related \subseteq DOMAIN s.rows
  /\ alive' = alive \ M!ToDelete(s)
  /\ s.pc \in PreparedPcs
  /\ s.pc # "row" => Skips(s, "row", s.pc)
  /\ s.pc # "row" /\ M!At(r, "read") => s.text = s.old
  /\ s.pc = "row" => M!At(r, "read")

LEMMA PrepareIs ==
  ASSUME M!Setting, AgendaTypes, NEW r \in Handler, M!At(r, "create") \/ M!At(r, "read"),
         NEW seen \in AgendaRows, M!Prepare(r, seen)
  PROVE  \E s : Prepares(r, s, seen)
<1> DEFINE form == req[r].form
           new == M!NewIds(form, DOMAIN seen)
           stored == M!Assigned(form, new, req[r].text)
           n == Cardinality(DOMAIN form \ DOMAIN seen)
           state == [req[r] EXCEPT !.form = M!NoRows, !.seen = seen, !.rows = stored]
           final(p) == [state EXCEPT !.pc = p]
<1>1. req[r] \in AgendaSaves /\ IsFiniteSet(DOMAIN form) /\ form \in AgendaForm /\ made \in Nat
      /\ req[r].text \in Text
  <2>1. req[r] \in AgendaSaves
    BY AgendaReqIs DEF M!At, SavePcs, AgendaTypes
  <2> QED BY <2>1 DEF AgendaSaves, AgendaTypes, AgendaState, ReqFits, M!At
<1>2. n \in Nat /\ DOMAIN new = DOMAIN form
      /\ \A i \in DOMAIN form : new[i] \in DOMAIN seen \cup ((made + 1)..(made + n))
  BY <1>1, NewIdsAre
<1>3. made' = made + n /\ alive' = alive \ (DOMAIN seen \ DOMAIN stored)
  BY AgendaCount DEF M!Prepare
<1> HIDE DEF new, n
<1>4. M!Range(new) \subseteq DOMAIN seen \cup ((made + 1)..(made + n)) /\ DOMAIN seen \subseteq Nat
  BY <1>2 DEF M!Range, AgendaRows
<1>5. M!Range(new) \subseteq Nat
  BY <1>1, <1>2, <1>4
<1>6. /\ stored \in AgendaRows /\ DOMAIN stored = M!Range(new)
      /\ \A id \in DOMAIN stored : stored[id].related \subseteq DOMAIN stored
  BY <1>1, <1>5, AssignedAre
<1>7. IF M!At(r, "read") /\ M!Needed(state, "row") THEN M!GoTo(r, [state EXCEPT !.pc = "row"])
                                                   ELSE M!After(r, "row", state)
  BY DEF M!Prepare, new
<1> HIDE DEF stored
<1>8. M!NoRows \in AgendaForm
  BY DEF M!NoRows, AgendaForm
<1>9. /\ state \in AgendaSaves
      /\ state.alone = req[r].alone /\ state.text = req[r].text /\ state.old = req[r].old
      /\ state.seen = seen /\ state.rows = stored
  BY <1>1, <1>6, <1>8 DEF AgendaSaves
<1> HIDE DEF state
<1>10. ASSUME NEW p \in PreparedPcs
       PROVE  /\ final(p) \in AgendaSaves /\ final(p).pc = p
              /\ final(p).alone = req[r].alone /\ final(p).text = req[r].text
              /\ final(p).old = req[r].old
              /\ final(p).seen = seen /\ final(p).rows = stored
              /\ SameWork(state, final(p))
  BY <1>9 DEF AgendaSaves, SavePcs, SameWork
<1>11. \E p \in PreparedPcs :
         /\ req' = [req EXCEPT ![r] = final(p)]
         /\ p # "row" => Skips(state, "row", p) /\ (M!At(r, "read") => req[r].text = req[r].old)
         /\ p = "row" => M!At(r, "read")
  <2>1. CASE M!At(r, "read") /\ M!Needed(state, "row")
    BY <1>7, <2>1 DEF M!GoTo, PreparedPcs, PendingPcs
  <2>2. CASE ~(M!At(r, "read") /\ M!Needed(state, "row"))
    <3>1. M!After(r, "row", state) /\ "row" \in PendingPcs
      BY <1>7, <2>2 DEF PendingPcs
    <3> PICK p \in PreparedPcs : req' = [req EXCEPT ![r] = final(p)] /\ Skips(state, "row", p)
      BY <3>1, AfterIs
    <3>2. p # "row"
      BY StatementsAre DEF Skips
    <3>3. M!At(r, "read") => req[r].text = req[r].old
      BY <2>2, <1>9, NeededIs
    <3> HIDE DEF final
    <3> QED BY <3>2, <3>3
  <2> QED BY <2>1, <2>2
<1> PICK p \in PreparedPcs :
         /\ req' = [req EXCEPT ![r] = final(p)]
         /\ p # "row" => Skips(state, "row", p) /\ (M!At(r, "read") => req[r].text = req[r].old)
         /\ p = "row" => M!At(r, "read")
  BY <1>11
<1> PICK s : s = final(p)
  OBVIOUS
<1>12. /\ s \in AgendaSaves /\ s.pc = p
       /\ s.alone = req[r].alone /\ s.text = req[r].text /\ s.old = req[r].old
       /\ s.seen = seen /\ s.rows = stored /\ SameWork(state, s)
  BY <1>10
<1>13. M!GoTo(r, s) /\ s \in AgendaReqs
  BY <1>12 DEF M!GoTo, AgendaReqs
<1> HIDE DEF final
<1>14. s.pc # "row" => Skips(s, "row", s.pc)
  BY <1>12, SkipsSame
<1>15. Turns(r, s) /\ \A q \in Handler \ {r} : req'[q] = req[q]
  BY <1>13, TurnsGoTo
<1>16. alive' = alive \ M!ToDelete(s)
  BY <1>3, <1>12 DEF M!ToDelete
<1>17. made' \in Nat /\ made' >= made /\ DOMAIN s.rows \subseteq DOMAIN seen \cup ((made + 1)..made')
  BY <1>1, <1>2, <1>3, <1>4, <1>6, <1>12
<1>18. \A id \in DOMAIN s.rows : s.rows[id].related \subseteq DOMAIN s.rows
  BY <1>6, <1>12
<1> QED BY <1>12, <1>14, <1>15, <1>16, <1>17, <1>18 DEF Prepares

-----------------------------------------------------------------------------
(* Meetings: types                                                         *)

\* A request that is done has nothing to fit.
LEMMA IdleFits ==
  ASSUME NEW m, NEW b
  PROVE  M!Idle \in AgendaReqs /\ M!Idle.pc = "idle" /\ ReqFits(M!Idle, m, b)
BY DEF M!Idle, AgendaReqs, ReqFits, PreparedPcs, PendingPcs

LEMMA TypesTurn ==
  ASSUME AgendaTypes, AgendaState', NEW r \in Handler, NEW s, Turns(r, s),
         ReqFits(s, made', begun'), made' >= made, begun' >= begun
  PROVE  AgendaTypes'
<1>1. 1..made \subseteq 1..made' /\ 1..begun \subseteq 1..begun'
  BY DEF AgendaTypes, AgendaState
<1>2. ASSUME NEW q \in Handler
      PROVE  ReqFits(req'[q], made', begun')
  <2>1. CASE q = r
    BY <2>1 DEF Turns
  <2>2. CASE q # r
    <3>1. Untouched(q) /\ ReqFits(req[q], made, begun)
      BY <2>2 DEF Turns, AgendaTypes
    <3>2. /\ req[q].pc \in {"create", "read"} \cup PreparedPcs => SavesAgenda(q)
      BY DEF SavesAgenda, SavePcs
    <3>3. req[q].pc \in {"create", "read"} => IsFiniteSet(DOMAIN req'[q].form)
      BY <3>1, <3>2 DEF Untouched, ReqFits
    <3>4. req[q].pc \in PreparedPcs => RowsFit(req'[q], made')
      BY <3>1, <3>2, <1>1 DEF Untouched, ReqFits, RowsFit
    <3>5. Awarding(q) => req'[q].by \in 1..begun'
      BY <3>1, <1>1 DEF Untouched, ReqFits, Awarding
    <3> QED BY <3>1, <3>3, <3>4, <3>5 DEF Untouched, ReqFits, Awarding
  <2> QED BY <2>1, <2>2
<1>3. req' \in [Handler -> AgendaReqs]
  BY DEF Turns
<1> QED BY <1>2, <1>3 DEF AgendaTypes

LEMMA DoneTurns ==
  ASSUME AgendaTypes, NEW r \in Handler, M!Done(r)
  PROVE  /\ Turns(r, M!Idle) /\ req'[r].pc = "idle" /\ \A q \in Handler \ {r} : req'[q] = req[q]
         /\ ReqFits(M!Idle, made', begun')
BY IdleFits, TurnsGoTo DEF M!Done, Turns

\* A save that goes on holds the rows it has prepared.
LEMMA GoesFits ==
  ASSUME AgendaTypes, NEW r \in Handler, IsPending(r), NEW s, SaveGoes(r, s)
  PROVE  ReqFits(s, made, begun)
<1>1. RowsFit(req[r], made)
  BY DEF AgendaTypes, ReqFits, IsPending, PreparedPcs
<1>2. RowsFit(s, made)
  BY <1>1 DEF SaveGoes, SameWork, RowsFit
<1> QED BY <1>2 DEF SaveGoes, ReqFits, PreparedPcs, PendingPcs

LEMMA PreparesFits ==
  ASSUME AgendaTypes, NEW r \in Handler, NEW s, NEW seen, DOMAIN seen \subseteq M!Known,
         Prepares(r, s, seen)
  PROVE  ReqFits(s, made', begun)
<1>1. RowsFit(s, made')
  <2>1. /\ made \in Nat /\ made' \in Nat /\ made' >= made
        /\ DOMAIN s.rows \subseteq DOMAIN seen \cup ((made + 1)..made') /\ s.seen = seen
        /\ \A id \in DOMAIN s.rows : s.rows[id].related \subseteq DOMAIN s.rows
    BY DEF Prepares, AgendaTypes, AgendaState
  <2>2. 1..made \subseteq 1..made' /\ (made + 1)..made' \subseteq 1..made'
    BY <2>1
  <2> QED BY <2>1, <2>2 DEF RowsFit, M!Known
<1> QED BY <1>1 DEF Prepares, ReqFits, PreparedPcs, PendingPcs

\* What a page may send.
LEMMA FormsAre ==
  ASSUME M!Setting, made \in Nat, NEW form \in M!Forms
  PROVE  form \in AgendaForm /\ IsFiniteSet(DOMAIN form)
<1>1. PICK ids \in M!FormIds : /\ DOMAIN form = ids
                               /\ form \in [ids -> SUBSET (M!Known \cup M!Temp \cup ids)]
  BY DEF M!Forms
<1>2. ids \subseteq M!Known \cup M!Temp /\ M!Known \cup M!Temp \subseteq Nat
  BY DEF M!FormIds, M!Known, M!Temp, M!Setting
<1>3. IsFiniteSet(M!Known) /\ IsFiniteSet(M!Temp)
  BY FS_Interval DEF M!Known, M!Temp, M!Setting
<1>4. IsFiniteSet(ids)
  BY <1>2, <1>3, FS_Union, FS_Subset
<1> QED BY <1>1, <1>2, <1>4 DEF AgendaForm

LEMMA AskedIs ==
  ASSUME M!Setting, AgendaTypes, NEW form \in M!Forms, NEW text \in Text, NEW from \in {"create", "read"},
         NEW s, s = M!Asked(form, text, from)
  PROVE  /\ s \in AgendaSaves /\ s.pc = from /\ s.alone = (M!Writing = {}) /\ s.old = meeting.text
         /\ ReqFits(s, made, begun')
<1>1. form \in AgendaForm /\ IsFiniteSet(DOMAIN form)
  BY FormsAre DEF AgendaTypes, AgendaState
<1>2. M!NoRows \in AgendaRows
  BY SMTT(30) DEF M!NoRows, AgendaRows
<1>3. meeting.text \in Text \cup {Absent}
  BY DEF AgendaTypes, AgendaState
<1>4. s \in AgendaSaves /\ s.form = form /\ s.pc = from /\ s.alone = (M!Writing = {}) /\ s.old = meeting.text
  BY <1>1, <1>2, <1>3 DEF M!Asked, AgendaSaves, SavePcs
<1> QED BY <1>1, <1>4 DEF ReqFits, PreparedPcs, PendingPcs

\* The statements of a save, from the row of the meeting to the answer.
Statement(r) == \/ M!UpdateRow(r) \/ M!DeleteSegments(r) \/ M!FindGuest(r) \/ M!AddGuest(r)
                \/ M!UpdateSegments(r) \/ M!InsertSegments(r)

LEMMA StatementGoes ==
  ASSUME AgendaTypes, NEW r \in Handler, Statement(r)
  PROVE  /\ IsPending(r)
         /\ \/ \E s : /\ SaveGoes(r, s)
                      /\ Skips(s, req[r].pc, s.pc) \/ (M!At(r, "guest?") /\ s.pc = "guest!" /\ guests = 0)
            \/ M!Done(r) /\ lapse' /\ meeting.row # "there" /\ UNCHANGED segments
                         /\ (M!UpdateSegments(r) \/ M!InsertSegments(r))
<1>1. CASE M!UpdateRow(r) \/ M!DeleteSegments(r) \/ M!AddGuest(r)
  <2>1. IsPending(r) /\ M!Proceed(r)
    BY <1>1 DEF M!UpdateRow, M!DeleteSegments, M!AddGuest, M!At, IsPending, PendingPcs
  <2> QED BY <2>1, ProceedIs
<1>2. CASE M!FindGuest(r)
  <2>1. IsPending(r)
    BY <1>2 DEF M!FindGuest, M!At, IsPending, PendingPcs
  <2>2. CASE guests = 0
    <3>1. M!At(r, "guest?") /\ M!GoTo(r, [req[r] EXCEPT !.pc = "guest!"])
      BY <1>2, <2>2 DEF M!FindGuest
    <3> QED BY <2>1, <2>2, <3>1, MissesGuest
  <2>3. CASE guests # 0
    BY <1>2, <2>1, <2>3, ProceedIs DEF M!FindGuest
  <2> QED BY <2>1, <2>2, <2>3
<1>3. CASE M!UpdateSegments(r) \/ M!InsertSegments(r)
  <2>1. IsPending(r)
    BY <1>3 DEF M!UpdateSegments, M!InsertSegments, M!At, IsPending, PendingPcs
  <2>2. CASE meeting.row = "there"
    <3>1. M!Proceed(r)
      BY <1>3, <2>2 DEF M!UpdateSegments, M!InsertSegments, M!Put
    <3> QED BY <2>1, <3>1, ProceedIs
  <2>3. CASE meeting.row # "there"
    BY <1>3, <2>1, <2>3 DEF M!UpdateSegments, M!InsertSegments, M!Put
  <2> QED BY <2>1, <2>2, <2>3
<1> QED BY <1>1, <1>2, <1>3 DEF Statement

LEMMA AgendaInit == M!Setting /\ M!Init => AgendaTypes /\ GuestsCounted
<1> SUFFICES ASSUME M!Setting, M!Init PROVE AgendaTypes /\ GuestsCounted
  OBVIOUS
<1> DEFINE first(text) == [text |-> text, rows |-> [id \in 1..2 |->
                             [text |-> text, related |-> IF id = 1 THEN {2} ELSE {}]]]
<1>1. /\ saved \in [text : Text \cup {Absent}, rows : AgendaRows]
      /\ \A id \in DOMAIN saved.rows : saved.rows[id].related \subseteq DOMAIN saved.rows
      /\ made \in Nat /\ DOMAIN saved.rows = 1..made
      /\ saved.text = Absent => DOMAIN saved.rows = {}
  <2>1. CASE saved = [text |-> Absent, rows |-> M!NoRows]
    <3>1. M!NoRows \in AgendaRows /\ DOMAIN M!NoRows = {}
      BY DEF M!NoRows, AgendaRows
    <3>2. saved.text = Absent /\ saved.rows = M!NoRows
      BY <2>1
    <3>3. made = Cardinality(DOMAIN saved.rows)
      BY AgendaCount DEF M!Init, M!Stored
    <3>4. made = 0
      BY <3>1, <3>2, <3>3, FS_EmptySet
    <3> QED BY <2>1, <3>1, <3>2, <3>4
  <2>2. CASE \E text \in Text : saved = first(text)
    <3> PICK text \in Text : saved = first(text)
      BY <2>2
    <3>1. /\ saved.text = text /\ DOMAIN saved.rows = 1..2
          /\ saved.rows \in [1..2 -> AgendaRow]
          /\ \A id \in 1..2 : saved.rows[id].related \subseteq 1..2
      BY DEF AgendaRow
    <3>2. made = Cardinality(1..2)
      BY <3>1, AgendaCount DEF M!Init, M!Stored
    <3>3. made = 2
      <4>1. \A b \in Nat : b >= 1 => Cardinality(1..b) = b
        BY FS_Interval
      <4>2. 2 \in Nat /\ 2 >= 1
        OBVIOUS
      <4>3. Cardinality(1..2) = 2
        BY <4>1, <4>2
      <4> QED BY <3>2, <4>3
    <3>4. saved.rows \in AgendaRows
      <4> PICK ids \in SUBSET Nat : ids = 1..2
        OBVIOUS
      <4>1. saved.rows \in [ids -> AgendaRow]
        BY <3>1
      <4> QED BY <4>1 DEF AgendaRows
    <3>5. saved \in [text : Text \cup {Absent}, rows : AgendaRows]
      BY <3>1, <3>4
    <3> HIDE DEF first
    <3> QED BY <3>1, <3>3, <3>4, <3>5 DEF M!Setting
  <2> QED BY <2>1, <2>2 DEF M!Init
<1>2. /\ segments = saved.rows /\ begun = 0 /\ guests = 0 /\ awards = {}
      /\ lapse = FALSE /\ raced = FALSE /\ req = [r \in Handler |-> M!Idle]
      /\ meeting = [row |-> IF saved.text = Absent THEN "none" ELSE "there", text |-> saved.text]
  BY DEF M!Init
<1>3. /\ meeting \in [row : {"none", "there", "gone"}, text : Text \cup {Absent}]
      /\ meeting.row # "there" => saved.text = Absent
  BY <1>1, <1>2
<1>4. AgendaState
  <2>1. M!Stored = M!Known /\ segments \in AgendaRows
    BY <1>1, <1>2 DEF M!Stored, M!Known
  <2>2. \A id \in M!Stored : segments[id].related \subseteq M!Known
    BY <1>1, <1>2, <2>1 DEF M!Known
  <2>3. meeting.row # "there" => M!Stored = {}
    BY <1>1, <1>2, <1>3 DEF M!Stored
  <2>4. begun \in 0..MaxSaves /\ guests \in Nat /\ awards \subseteq 1..begun
    <3>1. begun = 0 /\ guests = 0 /\ awards = {} /\ MaxSaves \in Nat
      BY <1>2 DEF M!Setting
    <3> QED BY <3>1
  <2>5. lapse \in BOOLEAN /\ raced \in BOOLEAN
    BY <1>2
  <2> QED BY <1>1, <1>3, <2>1, <2>2, <2>3, <2>4, <2>5 DEF AgendaState
<1>5. AgendaTypes
  BY <1>2, <1>4, IdleFits DEF AgendaTypes
<1>6. MayAdd = {}
  BY <1>2, IdleFits DEF MayAdd
<1> QED BY <1>2, <1>5, <1>6, FS_EmptySet DEF GuestsCounted

\* Rows that are written over what is there have ids that were made.
LEMMA PutRows ==
  ASSUME AgendaTypes, NEW r \in Handler, IsPending(r), NEW ids, ids \subseteq DOMAIN req[r].rows,
         NEW segs, segs = [id \in M!Stored \cup ids |-> IF id \in ids THEN req[r].rows[id] ELSE segments[id]]
  PROVE  /\ segs \in AgendaRows /\ DOMAIN segs \subseteq M!Known
         /\ \A id \in DOMAIN segs : segs[id].related \subseteq M!Known
<1>1. /\ RowsFit(req[r], made) /\ req[r].rows \in AgendaRows
  <2>1. req[r] \in AgendaSaves
    BY AgendaReqIs DEF IsPending, SavePcs, PreparedPcs, AgendaTypes
  <2> QED BY <2>1 DEF AgendaSaves, AgendaTypes, ReqFits, IsPending, PreparedPcs
<1>2. DOMAIN req[r].rows \subseteq M!Known /\ M!Stored \subseteq M!Known /\ M!Known \subseteq Nat
  BY <1>1 DEF AgendaTypes, AgendaState, RowsFit, M!Known
<1>3. /\ \A id \in DOMAIN req[r].rows : req[r].rows[id] \in AgendaRow
      /\ \A id \in M!Stored : segments[id] \in AgendaRow
  <2>1. \A f \in AgendaRows : \A id \in DOMAIN f : f[id] \in AgendaRow
    BY DEF AgendaRows
  <2> QED BY <1>1, <2>1 DEF AgendaTypes, AgendaState, M!Stored
<1>4. /\ \A id \in DOMAIN req[r].rows : req[r].rows[id].related \subseteq M!Known
      /\ \A id \in M!Stored : segments[id].related \subseteq M!Known
  BY <1>1, <1>2 DEF RowsFit, AgendaTypes, AgendaState
<1>5. DOMAIN segs = M!Stored \cup ids /\ segs \in [M!Stored \cup ids -> AgendaRow]
  BY <1>3
<1>6. segs \in AgendaRows
  BY <1>2, <1>5 DEF AgendaRows
<1>7. \A id \in DOMAIN segs : segs[id].related \subseteq M!Known
  BY <1>4, <1>5
<1> QED BY <1>2, <1>5, <1>6, <1>7

LEMMA NoAgendaRows == M!NoRows \in AgendaRows /\ DOMAIN M!NoRows = {}
BY DEF M!NoRows, AgendaRows

\* Each step leaves the state typed.
LEMMA AgendaBeginTypes ==
  ASSUME M!Setting, AgendaTypes, NEW r \in Handler,
         \/ \E form \in M!Forms, text \in Text : M!Create(r, form, text) \/ M!Save(r, form, text)
         \/ M!SaveAwards(r) \/ M!DeleteMeeting(r)
  PROVE  AgendaTypes'
<1>1. AgendaState' /\ begun' >= begun /\ made' = made /\ begun' = begun + 1
  BY DEF M!Create, M!Save, M!SaveAwards, M!DeleteMeeting, M!BeginWriting, M!MayBegin,
         AgendaTypes, AgendaState, M!Stored, M!Known, M!Setting
<1>2. CASE \E form \in M!Forms, text \in Text : M!Create(r, form, text) \/ M!Save(r, form, text)
  <2> PICK form \in M!Forms, text \in Text, from \in {"create", "read"} :
             M!BeginWriting(r, M!Asked(form, text, from))
    BY <1>2 DEF M!Create, M!Save
  <2> PICK s : s = M!Asked(form, text, from)
    OBVIOUS
  <2>1. s \in AgendaSaves /\ ReqFits(s, made, begun')
    BY AskedIs
  <2>2. Turns(r, s)
    BY <2>1, TurnsBegin DEF AgendaReqs
  <2> QED BY <1>1, <2>1, <2>2, TypesTurn DEF AgendaTypes, AgendaState
<1>3. CASE M!SaveAwards(r)
  <2> PICK s : s = [pc |-> "awards", by |-> begun']
    OBVIOUS
  <2>1. s \in AgendaAwards /\ s.pc = "awards" /\ s.by = begun' /\ begun' \in 1..begun'
    BY <1>1 DEF AgendaAwards, AgendaTypes, AgendaState
  <2>2. s \in AgendaReqs /\ M!GoTo(r, s)
    BY <1>3, <2>1 DEF AgendaReqs, M!SaveAwards
  <2>3. ReqFits(s, made, begun')
    BY <2>1 DEF ReqFits, PreparedPcs, PendingPcs
  <2> QED BY <1>1, <2>2, <2>3, TurnsGoTo, TypesTurn DEF AgendaTypes, AgendaState
<1>4. CASE M!DeleteMeeting(r)
  <2> PICK s : s = [pc |-> "segments", alone |-> M!Writing = {}]
    OBVIOUS
  <2>1. s \in AgendaDeletions /\ s.pc = "segments"
    BY DEF AgendaDeletions
  <2>2. ReqFits(s, made, begun')
    BY <2>1 DEF ReqFits, PreparedPcs, PendingPcs
  <2>3. Turns(r, s)
    BY <1>4, <2>1, TurnsBegin DEF AgendaReqs, M!DeleteMeeting
  <2> QED BY <1>1, <2>2, <2>3, TypesTurn DEF AgendaTypes, AgendaState
<1> QED BY <1>2, <1>3, <1>4

LEMMA AgendaPrepareTypes ==
  ASSUME M!Setting, AgendaTypes, NEW r \in Handler, M!InsertRow(r) \/ M!ReadSegments(r)
  PROVE  AgendaTypes'
<1>1. req[r] \in AgendaReqs
  BY DEF AgendaTypes
<1>2. CASE M!InsertRow(r) /\ meeting.row # "none"
  <2>1. M!Done(r) /\ AgendaState' /\ made' >= made /\ begun' >= begun
    BY <1>2 DEF M!InsertRow, AgendaTypes, AgendaState, M!Stored, M!Known
  <2> QED BY <2>1, DoneTurns, TypesTurn
<1>3. CASE M!InsertRow(r) /\ meeting.row = "none"
  <2>1. M!At(r, "create") /\ M!Prepare(r, M!NoRows)
    BY <1>3 DEF M!InsertRow
  <2> PICK s : Prepares(r, s, M!NoRows)
    BY <2>1, NoAgendaRows, PrepareIs
  <2>2. req[r].text \in Text
    BY <1>1, <2>1, AgendaReqIs DEF M!At, SavePcs, AgendaSaves
  <2>3. AgendaState' /\ made' >= made /\ begun' = begun
    <3>1. made' \in Nat /\ made' >= made /\ UNCHANGED <<segments, awards, guests, begun, saved, raced, lapse>>
      BY <1>3 DEF M!InsertRow, Prepares
    <3>2. M!Known \subseteq M!Known'
      BY <3>1 DEF M!Known, AgendaTypes, AgendaState
    <3>3. meeting' \in [row : {"none", "there", "gone"}, text : Text \cup {Absent}] /\ meeting'.row = "there"
      BY <1>3, <2>2 DEF M!InsertRow
    <3> QED BY <3>1, <3>2, <3>3 DEF AgendaTypes, AgendaState, M!Stored
  <2>4. ReqFits(s, made', begun')
    BY <2>3, NoAgendaRows, PreparesFits
  <2>5. Turns(r, s)
    BY DEF Prepares
  <2>6. begun' >= begun
    BY <2>3 DEF AgendaTypes, AgendaState
  <2> QED BY <2>3, <2>4, <2>5, <2>6, TypesTurn
<1>4. CASE M!ReadSegments(r)
  <2>1. M!At(r, "read") /\ M!Prepare(r, segments) /\ segments \in AgendaRows /\ DOMAIN segments \subseteq M!Known
    BY <1>4 DEF M!ReadSegments, AgendaTypes, AgendaState, M!Stored
  <2> PICK s : Prepares(r, s, segments)
    BY <2>1, PrepareIs
  <2>3. AgendaState' /\ made' >= made /\ begun' = begun
    <3>1. made' \in Nat /\ made' >= made
          /\ UNCHANGED <<meeting, segments, awards, guests, begun, saved, raced, lapse>>
      BY <1>4 DEF M!ReadSegments, Prepares
    <3>2. M!Known \subseteq M!Known'
      BY <3>1 DEF M!Known, AgendaTypes, AgendaState
    <3> QED BY <3>1, <3>2 DEF AgendaTypes, AgendaState, M!Stored
  <2>4. ReqFits(s, made', begun')
    BY <2>1, <2>3, PreparesFits
  <2>5. Turns(r, s)
    BY DEF Prepares
  <2>6. begun' >= begun
    BY <2>3 DEF AgendaTypes, AgendaState
  <2> QED BY <2>3, <2>4, <2>5, <2>6, TypesTurn
<1> QED BY <1>2, <1>3, <1>4

\* The statement is done, or the request: the state, with its counters as they were.
LEMMA AgendaStatementTypes ==
  ASSUME M!Setting, AgendaTypes, NEW r \in Handler, Statement(r)
  PROVE  AgendaTypes'
<1>1. IsPending(r)
  BY StatementGoes
<1>2. UNCHANGED <<awards, made, begun, saved>>
  BY DEF Statement, M!UpdateRow, M!DeleteSegments, M!FindGuest, M!AddGuest, M!UpdateSegments, M!InsertSegments
<1>3. lapse' \in BOOLEAN /\ raced' \in BOOLEAN /\ guests' \in Nat
  <2>1. lapse \in BOOLEAN /\ raced \in BOOLEAN /\ guests \in Nat
    BY DEF AgendaTypes, AgendaState
  <2>2. M!UpdateRow(r) \/ M!DeleteSegments(r) \/ M!FindGuest(r) => UNCHANGED <<lapse, raced, guests>>
    BY DEF M!UpdateRow, M!DeleteSegments, M!FindGuest
  <2>3. M!AddGuest(r) => lapse' = lapse /\ raced' \in BOOLEAN /\ guests' = guests + 1
    BY <2>1 DEF M!AddGuest
  <2>4. M!UpdateSegments(r) \/ M!InsertSegments(r) =>
            (lapse' = lapse \/ lapse' = TRUE) /\ UNCHANGED <<raced, guests>>
    BY DEF M!UpdateSegments, M!InsertSegments, M!Put
  <2>5. guests' \in Nat
    BY <2>1, <2>2, <2>3, <2>4 DEF Statement
  <2>6. raced' \in BOOLEAN
    BY <2>1, <2>2, <2>3, <2>4, Zenon DEF Statement
  <2>7. lapse' \in BOOLEAN
    BY <2>1, <2>2, <2>3, <2>4, Zenon DEF Statement
  <2> QED BY <2>5, <2>6, <2>7
<1>4. /\ meeting' \in [row : {"none", "there", "gone"}, text : Text \cup {Absent}]
      /\ meeting'.row = meeting.row
  <2>1. req[r].text \in Text
    BY <1>1, AgendaReqIs DEF IsPending, AgendaTypes, SavePcs, PreparedPcs, AgendaSaves
  <2>2. CASE M!UpdateRow(r)
    BY <2>1, <2>2 DEF M!UpdateRow, AgendaTypes, AgendaState
  <2>3. CASE ~M!UpdateRow(r)
    BY <2>3 DEF Statement, M!DeleteSegments, M!FindGuest, M!AddGuest, M!UpdateSegments, M!InsertSegments,
                AgendaTypes, AgendaState
  <2> QED BY <2>2, <2>3
<1>5. /\ segments' \in AgendaRows /\ M!Stored' \subseteq M!Known
      /\ \A id \in M!Stored' : segments'[id].related \subseteq M!Known
      /\ meeting.row # "there" => M!Stored' = {}
  <2>1. CASE UNCHANGED segments
    BY <2>1 DEF AgendaTypes, AgendaState, M!Stored
  <2>2. CASE M!DeleteSegments(r)
    <3>1. /\ DOMAIN segments' \subseteq M!Stored
          /\ \A id \in DOMAIN segments' : segments'[id] = segments[id]
          /\ segments' = [id \in DOMAIN segments' |-> segments[id]]
      BY <2>2 DEF M!DeleteSegments, M!Restrict
    <3>2. segments \in [M!Stored -> AgendaRow] /\ M!Stored \subseteq Nat
      BY DEF AgendaTypes, AgendaState, AgendaRows, M!Stored
    <3>3. segments' \in [DOMAIN segments' -> AgendaRow] /\ DOMAIN segments' \subseteq Nat
      BY <3>1, <3>2
    <3>4. segments' \in AgendaRows
      BY <3>3 DEF AgendaRows
    <3> QED BY <3>1, <3>4 DEF AgendaTypes, AgendaState, M!Stored
  <2>3. CASE (M!UpdateSegments(r) \/ M!InsertSegments(r)) /\ meeting.row = "there"
    <3> PICK ids \in {M!ToUpdate(req[r]), M!ToAdd(req[r])} :
          segments' = [id \in M!Stored \cup ids |-> IF id \in ids THEN req[r].rows[id] ELSE segments[id]]
      BY <2>3 DEF M!UpdateSegments, M!InsertSegments, M!Put
    <3>1. ids \subseteq DOMAIN req[r].rows
      BY DEF M!ToUpdate, M!ToAdd, M!Changed
    <3> QED BY <1>1, <2>3, <3>1, PutRows DEF M!Stored
  <2>4. CASE (M!UpdateSegments(r) \/ M!InsertSegments(r)) /\ meeting.row # "there"
    BY <2>4, <2>1 DEF M!UpdateSegments, M!InsertSegments, M!Put
  <2>5. M!UpdateRow(r) \/ M!FindGuest(r) \/ M!AddGuest(r) => UNCHANGED segments
    BY DEF M!UpdateRow, M!FindGuest, M!AddGuest
  <2> QED BY <2>1, <2>2, <2>3, <2>4, <2>5 DEF Statement
<1>6. AgendaState'
  <2>1. M!Known' = M!Known
    BY <1>2 DEF M!Known
  <2> QED BY <1>2, <1>3, <1>4, <1>5, <2>1 DEF AgendaTypes, AgendaState
<1>7. \E s : Turns(r, s) /\ ReqFits(s, made', begun')
  <2>1. CASE M!Done(r)
    BY <2>1, DoneTurns
  <2>2. ASSUME NEW s, SaveGoes(r, s)
        PROVE  Turns(r, s) /\ ReqFits(s, made', begun')
    <3>1. ReqFits(s, made, begun)
      BY <1>1, <2>2, GoesFits
    <3> QED BY <1>2, <2>2, <3>1 DEF SaveGoes
  <2> QED BY <2>1, <2>2, StatementGoes
<1>8. made' >= made /\ begun' >= begun
  BY <1>2 DEF AgendaTypes, AgendaState
<1> QED BY <1>6, <1>7, <1>8, TypesTurn

LEMMA AgendaDoneTypes ==
  ASSUME M!Setting, AgendaTypes, NEW r \in Handler,
         M!Answer(r) \/ M!Fail(r) \/ M!InsertAwards(r) \/ M!DeleteRow(r)
  PROVE  AgendaTypes'
<1>1. M!Done(r) /\ UNCHANGED <<made, begun>>
  BY DEF M!Answer, M!Fail, M!InsertAwards, M!DeleteRow
<1>2. AgendaState'
  <2>1. CASE M!Answer(r)
    <3>1. req[r] \in AgendaSaves /\ RowsFit(req[r], made)
      BY <2>1, AgendaReqIs DEF M!Answer, M!At, SavePcs, PreparedPcs, AgendaTypes, ReqFits
    <3>2. /\ saved' \in [text : Text \cup {Absent}, rows : AgendaRows]
          /\ saved'.rows = req[r].rows
      BY <2>1, <3>1 DEF M!Answer, AgendaSaves
    <3>3. \A id \in DOMAIN saved'.rows : saved'.rows[id].related \subseteq DOMAIN saved'.rows
      BY <3>1, <3>2 DEF RowsFit
    <3>4. UNCHANGED <<meeting, segments, awards, guests, made, begun, raced>> /\ lapse' \in BOOLEAN
      BY <2>1 DEF M!Answer
    <3> QED BY <3>2, <3>3, <3>4 DEF AgendaTypes, AgendaState, M!Stored, M!Known
  <2>2. CASE M!Fail(r)
    BY <2>2 DEF M!Fail, AgendaTypes, AgendaState, M!Stored, M!Known
  <2>3. CASE M!InsertAwards(r)
    <3>1. req[r].by \in 1..begun
      BY <2>3 DEF M!InsertAwards, M!At, AgendaTypes, ReqFits
    <3>2. awards' \subseteq 1..begun /\ raced' \in BOOLEAN
      BY <2>3, <3>1 DEF M!InsertAwards, AgendaTypes, AgendaState
    <3> QED BY <2>3, <3>2 DEF M!InsertAwards, AgendaTypes, AgendaState, M!Stored, M!Known
  <2>4. CASE M!DeleteRow(r)
    <3>1. /\ meeting' \in [row : {"none", "there", "gone"}, text : Text \cup {Absent}]
          /\ saved' \in [text : Text \cup {Absent}, rows : AgendaRows] /\ saved'.rows = M!NoRows
          /\ segments' = M!NoRows /\ awards' = {} /\ lapse' \in BOOLEAN
          /\ UNCHANGED <<guests, made, begun, raced>>
      BY <2>4, NoAgendaRows DEF M!DeleteRow
    <3> QED BY <3>1, NoAgendaRows DEF AgendaTypes, AgendaState, M!Stored, M!Known
  <2> QED BY <2>1, <2>2, <2>3, <2>4
<1>3. made' >= made /\ begun' >= begun
  BY <1>1 DEF AgendaTypes, AgendaState
<1> QED BY <1>1, <1>2, <1>3, DoneTurns, TypesTurn

\* The two steps in the middle: the old awards are gone, or the segments are.
LEMMA MiddleTurns ==
  ASSUME AgendaTypes, NEW r \in Handler, M!DeleteAwards(r) \/ M!DeleteAllSegments(r)
  PROVE  \E s : /\ Turns(r, s) /\ ReqFits(s, made, begun)
                /\ \A q \in Handler \ {r} : req'[q] = req[q]
                /\ M!At(r, "awards") => s.pc = "award"
                /\ M!At(r, "segments") => s.pc = "meeting" /\ s.alone = req[r].alone
<1>1. CASE M!DeleteAwards(r)
  <2> PICK s : s = [req[r] EXCEPT !.pc = "award"]
    OBVIOUS
  <2>1. req[r] \in AgendaAwards /\ req[r].by \in 1..begun /\ M!At(r, "awards")
    BY <1>1, AgendaReqIs DEF M!DeleteAwards, M!At, AgendaTypes, ReqFits
  <2>2. s \in AgendaAwards /\ s.pc = "award" /\ s.by = req[r].by
    BY <2>1 DEF AgendaAwards
  <2>3. M!GoTo(r, s) /\ s \in AgendaReqs
    BY <1>1, <2>2 DEF M!DeleteAwards, M!Turn, AgendaReqs
  <2>4. ReqFits(s, made, begun)
    BY <2>1, <2>2 DEF ReqFits, PreparedPcs, PendingPcs
  <2> QED BY <2>1, <2>2, <2>3, <2>4, TurnsGoTo DEF M!At
<1>2. CASE M!DeleteAllSegments(r)
  <2> PICK s : s = [req[r] EXCEPT !.pc = "meeting"]
    OBVIOUS
  <2>1. req[r] \in AgendaDeletions /\ M!At(r, "segments")
    BY <1>2, AgendaReqIs DEF M!DeleteAllSegments, M!At, AgendaTypes
  <2>2. s \in AgendaDeletions /\ s.pc = "meeting" /\ s.alone = req[r].alone
    BY <2>1 DEF AgendaDeletions
  <2>3. M!GoTo(r, s) /\ s \in AgendaReqs
    BY <1>2, <2>2 DEF M!DeleteAllSegments, M!Turn, AgendaReqs
  <2>4. ReqFits(s, made, begun)
    BY <2>2 DEF ReqFits, PreparedPcs, PendingPcs
  <2> QED BY <2>1, <2>2, <2>3, <2>4, TurnsGoTo DEF M!At
<1> QED BY <1>1, <1>2

LEMMA AgendaMiddleTypes ==
  ASSUME M!Setting, AgendaTypes, NEW r \in Handler, M!DeleteAwards(r) \/ M!DeleteAllSegments(r)
  PROVE  AgendaTypes'
<1> PICK s : Turns(r, s) /\ ReqFits(s, made, begun)
  BY MiddleTurns
<1>1. UNCHANGED <<made, begun>>
  BY DEF M!DeleteAwards, M!DeleteAllSegments
<1>2. AgendaState'
  BY NoAgendaRows DEF M!DeleteAwards, M!DeleteAllSegments, AgendaTypes, AgendaState, M!Stored, M!Known
<1>3. made' >= made /\ begun' >= begun
  BY <1>1 DEF AgendaTypes, AgendaState
<1> QED BY <1>1, <1>2, <1>3, TypesTurn

LEMMA AgendaTypesNext == M!Setting /\ AgendaTypes /\ [M!Next]_(M!vars) => AgendaTypes'
<1> SUFFICES ASSUME M!Setting, AgendaTypes, [M!Next]_(M!vars) PROVE AgendaTypes'
  OBVIOUS
<1>1. CASE UNCHANGED M!vars
  BY <1>1 DEF M!vars, AgendaTypes, AgendaState, M!Stored, M!Known
<1>2. ASSUME NEW r \in Handler, M!Step(r) PROVE AgendaTypes'
  BY <1>2, AgendaBeginTypes, AgendaPrepareTypes, AgendaStatementTypes, AgendaDoneTypes,
     AgendaMiddleTypes DEF M!Step, Statement
<1> QED BY <1>1, <1>2 DEF M!Next

-----------------------------------------------------------------------------
(* Meetings: the kinds of steps                                            *)

\* A request begins: one that writes, and may be alone, or one that saves awards.
Opens(r, s) ==
  /\ Turns(r, s) /\ M!At(r, "idle") /\ begun' = begun + 1
  /\ UNCHANGED <<meeting, segments, guests, made, saved, lapse, alive, raced>>
  /\ awards' = awards \/ awards' = {}
  /\ \/ /\ s.pc \in {"create", "read", "segments"} /\ s.alone = (M!Writing = {})
        /\ \A q \in Handler \ {r} : q \in M!Writing => ~req'[q].alone
        /\ s.pc = "read" => meeting.row = "there" /\ s.old = meeting.text
     \/ s.pc = "awards" /\ \A q \in Handler \ {r} : req'[q] = req[q]

\* A request ends with nothing of the meeting changed.
AgendaEnds(r) ==
  /\ UNCHANGED <<meeting, segments, awards, guests, made, begun, saved, alive, raced>>
  /\ lapse' \/ (M!At(r, "create") /\ lapse' = lapse)

LEMMA OpensIs ==
  ASSUME M!Setting, AgendaTypes, NEW r \in Handler,
         \/ \E form \in M!Forms, text \in Text : M!Create(r, form, text) \/ M!Save(r, form, text)
         \/ M!SaveAwards(r) \/ M!DeleteMeeting(r)
  PROVE  \E s : Opens(r, s)
<1>1. CASE \E form \in M!Forms, text \in Text : M!Create(r, form, text)
  <2> PICK form \in M!Forms, text \in Text : M!Create(r, form, text)
    BY <1>1
  <2> PICK s : s = M!Asked(form, text, "create")
    OBVIOUS
  <2>1. s \in AgendaSaves /\ s.pc = "create" /\ s.alone = (M!Writing = {})
    BY AskedIs
  <2>2. Turns(r, s) /\ \A q \in Handler \ {r} : q \in M!Writing => ~req'[q].alone
    BY <2>1, TurnsBegin DEF AgendaReqs, M!Create
  <2> QED BY <2>1, <2>2 DEF Opens, M!Create, M!BeginWriting, M!MayBegin
<1>2. CASE \E form \in M!Forms, text \in Text : M!Save(r, form, text)
  <2> PICK form \in M!Forms, text \in Text : M!Save(r, form, text)
    BY <1>2
  <2> PICK s : s = M!Asked(form, text, "read")
    OBVIOUS
  <2>1. s \in AgendaSaves /\ s.pc = "read" /\ s.alone = (M!Writing = {}) /\ s.old = meeting.text
    BY AskedIs
  <2>2. Turns(r, s) /\ \A q \in Handler \ {r} : q \in M!Writing => ~req'[q].alone
    BY <2>1, TurnsBegin DEF AgendaReqs, M!Save
  <2> QED BY <2>1, <2>2 DEF Opens, M!Save, M!BeginWriting, M!MayBegin
<1>3. CASE M!SaveAwards(r)
  <2> PICK s : s = [pc |-> "awards", by |-> begun']
    OBVIOUS
  <2>1. s \in AgendaReqs /\ s.pc = "awards"
    BY <1>3 DEF AgendaAwards, AgendaReqs, M!SaveAwards, AgendaTypes, AgendaState, M!Setting
  <2>2. Turns(r, s) /\ \A q \in Handler \ {r} : req'[q] = req[q]
    BY <1>3, <2>1, TurnsGoTo DEF M!SaveAwards
  <2> QED BY <1>3, <2>1, <2>2 DEF Opens, M!SaveAwards, M!MayBegin
<1>4. CASE M!DeleteMeeting(r)
  <2> PICK s : s = [pc |-> "segments", alone |-> M!Writing = {}]
    OBVIOUS
  <2>1. s \in AgendaReqs /\ s.pc = "segments" /\ s.alone = (M!Writing = {})
    BY DEF AgendaDeletions, AgendaReqs
  <2>2. Turns(r, s) /\ \A q \in Handler \ {r} : q \in M!Writing => ~req'[q].alone
    BY <1>4, <2>1, TurnsBegin DEF M!DeleteMeeting
  <2> QED BY <1>4, <2>1, <2>2 DEF Opens, M!DeleteMeeting, M!BeginWriting, M!MayBegin
<1> QED BY <1>1, <1>2, <1>3, <1>4

LEMMA AgendaStepIs ==
  ASSUME M!Setting, AgendaTypes, NEW r \in Handler, M!Step(r)
  PROVE  \/ \E s : Opens(r, s)
         \/ \E s : Prepares(r, s, M!NoRows) /\ M!InsertRow(r) /\ meeting.row = "none"
         \/ \E s : Prepares(r, s, segments) /\ M!ReadSegments(r)
         \/ \E s : /\ SaveGoes(r, s) /\ Statement(r)
                   /\ Skips(s, req[r].pc, s.pc) \/ (M!At(r, "guest?") /\ s.pc = "guest!" /\ guests = 0)
         \/ M!Done(r) /\ AgendaEnds(r) /\ r \in M!Writing
         \/ M!Done(r) /\ (M!Answer(r) \/ M!InsertAwards(r) \/ M!DeleteRow(r))
         \/ M!DeleteAwards(r) \/ M!DeleteAllSegments(r)
<1>1. CASE \/ \E form \in M!Forms, text \in Text : M!Create(r, form, text) \/ M!Save(r, form, text)
           \/ M!SaveAwards(r) \/ M!DeleteMeeting(r)
  BY <1>1, OpensIs
<1>2. CASE M!InsertRow(r)
  <2>1. CASE meeting.row = "none"
    BY <1>2, <2>1, PrepareIs, NoAgendaRows DEF M!InsertRow
  <2>2. CASE meeting.row # "none"
    BY <1>2, <2>2 DEF M!InsertRow, AgendaEnds, M!Writing, M!At
  <2> QED BY <2>1, <2>2
<1>3. CASE M!ReadSegments(r)
  BY <1>3, PrepareIs DEF M!ReadSegments, AgendaTypes, AgendaState
<1>4. CASE Statement(r)
  <2>1. CASE /\ M!Done(r) /\ lapse' /\ UNCHANGED segments /\ meeting.row # "there"
             /\ M!UpdateSegments(r) \/ M!InsertSegments(r)
    <3>1. UNCHANGED <<meeting, awards, guests, made, begun, saved, raced, alive>>
      BY <2>1 DEF M!UpdateSegments, M!InsertSegments
    <3> QED BY <1>4, <2>1, <3>1, StatementGoes DEF AgendaEnds, IsPending, PendingPcs, M!Writing
  <2> QED BY <1>4, <2>1, StatementGoes
<1>5. CASE M!Fail(r)
  BY <1>5 DEF M!Fail, AgendaEnds, M!Writing
<1>6. CASE M!Answer(r) \/ M!InsertAwards(r) \/ M!DeleteRow(r)
  BY <1>6 DEF M!Answer, M!InsertAwards, M!DeleteRow
<1> QED BY <1>1, <1>2, <1>3, <1>4, <1>5, <1>6 DEF M!Step, Statement

-----------------------------------------------------------------------------
(* Meetings: the guest                                                     *)

\* Statements come in their order.
LEMMA SkipsForward ==
  ASSUME NEW q, NEW from, NEW p, Skips(q, from, p)
  PROVE  /\ p \notin {"row", "guest!"}
         /\ from \in {"delete", "guest?", "guest!", "update", "insert"} => p # "delete"
         /\ from \in {"guest?", "guest!", "update", "insert"} => p # "guest?"
         /\ from = "insert" => p = "answer"
<1> PICK k \in 1..7, n \in 1..7 : k < n /\ M!Statements[k] = from /\ M!Statements[n] = p /\ M!Needed(q, p)
  BY DEF Skips
<1>1. p # "guest!"
  BY NeededIs
<1>2. p # "row"
  BY StatementsAre
<1>3. from \in {"delete", "guest?", "guest!", "update", "insert"} => p # "delete"
  BY StatementsAre
<1>4. from \in {"guest?", "guest!", "update", "insert"} => p # "guest?"
  BY StatementsAre
<1>5. from = "insert" => p = "answer"
  BY StatementsAre
<1> QED BY <1>1, <1>2, <1>3, <1>4, <1>5

AddPcs == {"create", "read", "row", "delete", "guest?", "guest!"}

\* No request becomes one that may add the guest but the one that begins.
LEMMA GuestsTurn ==
  ASSUME M!Setting, AgendaTypes, AgendaTypes', GuestsCounted, NEW r \in Handler, NEW s, Turns(r, s),
         \/ (s.pc \in AddPcs => req[r].pc \in AddPcs) /\ guests' = guests /\ begun' >= begun
         \/ guests' = guests /\ begun' = begun + 1
         \/ req[r].pc \in AddPcs /\ s.pc \notin AddPcs /\ guests' = guests + 1 /\ begun' = begun
  PROVE  GuestsCounted'
<1>1. IsFiniteSet(MayAdd) /\ Cardinality(MayAdd) \in Nat /\ MayAdd \subseteq Handler
  BY FS_Subset, FS_CardinalityType, AgendaCount DEF M!Setting, MayAdd
<1>2. \A q \in Handler \ {r} : q \in MayAdd' <=> q \in MayAdd
  BY DEF Turns, Untouched, MayAdd
<1>3. (r \in MayAdd' <=> s.pc \in AddPcs) /\ (r \in MayAdd <=> req[r].pc \in AddPcs)
  BY DEF Turns, MayAdd, AddPcs
<1>4. MayAdd' \subseteq Handler
  BY DEF MayAdd
<1>5. guests \in Nat /\ guests' \in Nat /\ begun \in Nat /\ begun' \in Nat
  BY DEF AgendaTypes, AgendaState, M!Setting
<1>6. CASE (s.pc \in AddPcs => req[r].pc \in AddPcs) /\ guests' = guests /\ begun' >= begun
  <2>1. MayAdd' \subseteq MayAdd
    BY <1>2, <1>3, <1>4, <1>6
  <2>2. Cardinality(MayAdd') <= Cardinality(MayAdd) /\ Cardinality(MayAdd') \in Nat
    BY <1>1, <2>1, FS_Subset, FS_CardinalityType
  <2> QED BY <1>1, <1>5, <1>6, <2>2 DEF GuestsCounted
<1>7. CASE guests' = guests /\ begun' = begun + 1
  <2>1. MayAdd' \subseteq MayAdd \cup {r}
    BY <1>2, <1>4
  <2> PICK c : c = MayAdd \cup {r}
    OBVIOUS
  <2>2. IsFiniteSet(c) /\ Cardinality(c) <= Cardinality(MayAdd) + 1 /\ Cardinality(c) \in Nat
    <3>1. IsFiniteSet(c) /\ Cardinality(c) \in Nat
      BY <1>1, FS_AddElement, FS_CardinalityType
    <3>2. Cardinality(c) = IF r \in MayAdd THEN Cardinality(MayAdd) ELSE Cardinality(MayAdd) + 1
      BY <1>1, FS_AddElement
    <3> QED BY <1>1, <3>1, <3>2
  <2>3. Cardinality(MayAdd') <= Cardinality(c) /\ Cardinality(MayAdd') \in Nat
    BY <2>1, <2>2, FS_Subset, FS_CardinalityType
  <2> QED BY <1>1, <1>5, <1>7, <2>2, <2>3 DEF GuestsCounted
<1>8. CASE req[r].pc \in AddPcs /\ s.pc \notin AddPcs /\ guests' = guests + 1 /\ begun' = begun
  <2>1. MayAdd' = MayAdd \ {r} /\ r \in MayAdd
    BY <1>1, <1>2, <1>3, <1>4, <1>8
  <2>2. Cardinality(MayAdd') = Cardinality(MayAdd) - 1
    BY <1>1, <2>1, FS_RemoveElement
  <2> QED BY <1>1, <1>5, <1>8, <2>2 DEF GuestsCounted
<1> QED BY <1>6, <1>7, <1>8

LEMMA GuestsNext ==
  ASSUME M!Setting, AgendaTypes, AgendaTypes', GuestsCounted, [M!Next]_(M!vars)
  PROVE  GuestsCounted'
<1>0. begun \in Nat
  BY DEF AgendaTypes, AgendaState, M!Setting
<1>1. CASE UNCHANGED M!vars
  BY <1>1 DEF M!vars, GuestsCounted, MayAdd
<1>2. ASSUME NEW r \in Handler, M!Step(r) PROVE GuestsCounted'
  <2>1. CASE \E s : Opens(r, s)
    BY <2>1, GuestsTurn DEF Opens
  <2>2. CASE M!Done(r) /\ UNCHANGED <<guests, begun>>
    BY <1>0, <2>2, DoneTurns, GuestsTurn DEF AddPcs, Turns
  <2>3. CASE \E s : \/ Prepares(r, s, M!NoRows) /\ M!InsertRow(r)
                    \/ Prepares(r, s, segments) /\ M!ReadSegments(r)
    <3>1. UNCHANGED <<guests, begun>> /\ req[r].pc \in AddPcs
      BY <2>3 DEF M!InsertRow, M!ReadSegments, M!At, AddPcs
    <3> QED BY <1>0, <2>3, <3>1, GuestsTurn DEF Prepares
  <2>4. ASSUME NEW s, SaveGoes(r, s), Statement(r),
               Skips(s, req[r].pc, s.pc) \/ (M!At(r, "guest?") /\ s.pc = "guest!" /\ guests = 0)
        PROVE  GuestsCounted'
    <3>1. s.pc \notin {"create", "read"} /\ Turns(r, s)
      BY <2>4 DEF SaveGoes, PreparedPcs, PendingPcs
    <3>2. CASE M!AddGuest(r)
      <4>1. M!At(r, "guest!") /\ guests' = guests + 1 /\ begun' = begun
        BY <3>2 DEF M!AddGuest
      <4>2. s.pc \notin {"row", "guest!", "delete", "guest?"}
        BY <2>4, <4>1, SkipsForward DEF M!At
      <4>3. req[r].pc \in AddPcs /\ s.pc \notin AddPcs
        BY <3>1, <4>1, <4>2 DEF M!At, AddPcs
      <4> QED BY <3>1, <4>1, <4>3, GuestsTurn
    <3>3. CASE ~M!AddGuest(r)
      <4>1. UNCHANGED <<guests, begun>>
        BY <2>4, <3>3 DEF Statement, M!UpdateRow, M!DeleteSegments, M!FindGuest, M!UpdateSegments, M!InsertSegments
      <4>2. CASE req[r].pc \in {"update", "insert"}
        <5>1. s.pc \notin {"row", "guest!", "delete", "guest?"}
          BY <2>4, <4>2, SkipsForward DEF M!At
        <5> QED BY <1>0, <3>1, <4>1, <5>1, GuestsTurn DEF AddPcs
      <4>3. CASE req[r].pc \notin {"update", "insert"}
        <5>1. req[r].pc \in AddPcs
          BY <2>4, <4>3, StatementGoes DEF IsPending, PendingPcs, AddPcs
        <5> QED BY <1>0, <3>1, <4>1, <5>1, GuestsTurn
      <4> QED BY <4>2, <4>3
    <3> QED BY <3>2, <3>3
  <2>5. CASE M!DeleteAwards(r) \/ M!DeleteAllSegments(r)
    <3> PICK s : /\ Turns(r, s)
                 /\ M!At(r, "awards") => s.pc = "award"
                 /\ M!At(r, "segments") => s.pc = "meeting"
      BY <2>5, MiddleTurns
    <3>1. s.pc \notin AddPcs
      BY <2>5 DEF M!DeleteAwards, M!DeleteAllSegments, M!At, AddPcs
    <3>2. UNCHANGED <<guests, begun>>
      BY <2>5 DEF M!DeleteAwards, M!DeleteAllSegments
    <3> QED BY <1>0, <3>1, <3>2, GuestsTurn
  <2>6. AgendaEnds(r) \/ M!Answer(r) \/ M!InsertAwards(r) \/ M!DeleteRow(r) => UNCHANGED <<guests, begun>>
    BY DEF AgendaEnds, M!Answer, M!InsertAwards, M!DeleteRow
  <2> QED BY <1>2, <2>1, <2>2, <2>3, <2>4, <2>5, <2>6, AgendaStepIs
<1> QED BY <1>1, <1>2 DEF M!Next

-----------------------------------------------------------------------------
(* Meetings: nothing twice                                                 *)

\* Unless two requests have looked before either inserted, one that is about to insert
\* finds what it saw.
AtMostOnce ==
  /\ guests <= 1 /\ (awards = {} \/ \E by \in 1..begun : awards = {by})
  /\ \A r \in Handler : /\ M!At(r, "guest!") => guests = 0
                        /\ M!At(r, "award") => awards = {}

OnceInv == ~raced => AtMostOnce

LEMMA OnceTurn ==
  ASSUME AgendaTypes, AgendaTypes', OnceInv, NEW r \in Handler, NEW s, Turns(r, s),
         UNCHANGED <<raced, guests>>, awards' = awards \/ awards' = {}, begun' >= begun,
         s.pc = "guest!" => guests = 0, s.pc = "award" => awards' = {}
  PROVE  OnceInv'
<1> SUFFICES ASSUME ~raced' PROVE AtMostOnce'
  BY DEF OnceInv
<1>1. ~raced
  OBVIOUS
<1>2. guests' <= 1
  BY <1>1 DEF OnceInv, AtMostOnce
<1>3. awards' = {} \/ \E by \in 1..begun' : awards' = {by}
  <2>1. 1..begun \subseteq 1..begun'
    BY DEF AgendaTypes, AgendaState
  <2> QED BY <1>1, <2>1 DEF OnceInv, AtMostOnce
<1>4. ASSUME NEW q \in Handler
      PROVE  /\ M!At(q, "guest!")' => guests' = 0
             /\ M!At(q, "award")' => awards' = {}
  <2>1. CASE q = r
    BY <2>1 DEF Turns, M!At
  <2>2. CASE q # r
    <3>1. req'[q].pc = req[q].pc
      BY <2>2 DEF Turns, Untouched
    <3> QED BY <1>1, <3>1 DEF OnceInv, AtMostOnce, M!At
  <2> QED BY <2>1, <2>2
<1> QED BY <1>2, <1>3, <1>4 DEF AtMostOnce

LEMMA OnceNext ==
  ASSUME M!Setting, AgendaTypes, AgendaTypes', OnceInv, [M!Next]_(M!vars)
  PROVE  OnceInv'
<1>0. begun \in Nat /\ begun' \in Nat
  BY DEF AgendaTypes, AgendaState, M!Setting
<1>1. CASE UNCHANGED M!vars
  BY <1>1 DEF M!vars, OnceInv, AtMostOnce, M!At
<1>2. ASSUME NEW r \in Handler, M!Step(r) PROVE OnceInv'
  <2>1. CASE \E s : Opens(r, s)
    <3> PICK s : Opens(r, s)
      BY <2>1
    <3>1. s.pc \notin {"guest!", "award"}
      BY DEF Opens
    <3> QED BY <1>0, <3>1, OnceTurn DEF Opens
  <2>2. CASE M!Done(r) /\ UNCHANGED <<guests, begun, raced>> /\ (awards' = awards \/ awards' = {})
    <3>1. Turns(r, M!Idle) /\ M!Idle.pc = "idle"
      BY <2>2, DoneTurns DEF Turns
    <3> QED BY <1>0, <2>2, <3>1, OnceTurn
  <2>3. CASE \E s : \/ Prepares(r, s, M!NoRows) /\ M!InsertRow(r)
                    \/ Prepares(r, s, segments) /\ M!ReadSegments(r)
    <3> PICK s : \/ Prepares(r, s, M!NoRows) /\ M!InsertRow(r)
                 \/ Prepares(r, s, segments) /\ M!ReadSegments(r)
      BY <2>3
    <3>1. UNCHANGED <<guests, begun, raced, awards>>
      BY DEF M!InsertRow, M!ReadSegments
    <3>2. s.pc # "guest!" /\ s.pc # "award" /\ Turns(r, s)
      BY SkipsForward DEF Prepares, PreparedPcs, PendingPcs
    <3> QED BY <1>0, <3>1, <3>2, OnceTurn
  <2>4. ASSUME NEW s, SaveGoes(r, s), Statement(r),
               Skips(s, req[r].pc, s.pc) \/ (M!At(r, "guest?") /\ s.pc = "guest!" /\ guests = 0)
        PROVE  OnceInv'
    <3>1. s.pc # "award" /\ Turns(r, s) /\ \A q \in Handler \ {r} : req'[q] = req[q]
      BY <2>4 DEF SaveGoes, PreparedPcs, PendingPcs
    <3>2. s.pc = "guest!" => guests = 0
      BY <2>4, SkipsForward
    <3>3. UNCHANGED <<begun, awards>>
      BY <2>4 DEF Statement, M!UpdateRow, M!DeleteSegments, M!FindGuest, M!AddGuest, M!UpdateSegments, M!InsertSegments
    <3>4. CASE M!AddGuest(r)
      <4> SUFFICES ASSUME ~raced' PROVE AtMostOnce'
        BY DEF OnceInv
      <4>1. M!At(r, "guest!") /\ guests' = guests + 1 /\ ~raced
            /\ \A q \in Handler \ {r} : ~M!At(q, "guest!")
        BY <3>4 DEF M!AddGuest
      <4>2. s.pc # "guest!"
        BY <2>4, <4>1, SkipsForward DEF M!At
      <4>3. guests = 0 /\ AtMostOnce
        BY <4>1 DEF OnceInv, AtMostOnce
      <4>4. ASSUME NEW q \in Handler
            PROVE  ~M!At(q, "guest!")' /\ (M!At(q, "award")' => M!At(q, "award"))
        <5>1. CASE q = r
          BY <3>1, <4>2, <5>1 DEF Turns, M!At
        <5>2. CASE q # r
          BY <3>1, <4>1, <5>2 DEF M!At
        <5> QED BY <5>1, <5>2
      <4> QED BY <3>3, <4>1, <4>3, <4>4 DEF AtMostOnce
    <3>5. CASE ~M!AddGuest(r)
      <4>1. UNCHANGED <<guests, raced>>
        BY <2>4, <3>5 DEF Statement, M!UpdateRow, M!DeleteSegments, M!FindGuest, M!UpdateSegments, M!InsertSegments
      <4> QED BY <1>0, <3>1, <3>2, <3>3, <4>1, OnceTurn
    <3> QED BY <3>4, <3>5
  <2>5. CASE M!DeleteAwards(r) \/ M!DeleteAllSegments(r)
    <3> PICK s : /\ Turns(r, s)
                 /\ M!At(r, "awards") => s.pc = "award"
                 /\ M!At(r, "segments") => s.pc = "meeting"
      BY <2>5, MiddleTurns
    <3>1. UNCHANGED <<guests, begun, raced>>
      BY <2>5 DEF M!DeleteAwards, M!DeleteAllSegments
    <3>2. CASE M!DeleteAwards(r)
      <4>1. awards' = {} /\ s.pc = "award"
        BY <3>2 DEF M!DeleteAwards, M!OldAwards
      <4> QED BY <1>0, <3>1, <4>1, OnceTurn
    <3>3. CASE M!DeleteAllSegments(r)
      <4>1. awards' = awards /\ s.pc = "meeting"
        BY <3>3 DEF M!DeleteAllSegments
      <4> QED BY <1>0, <3>1, <4>1, OnceTurn
    <3> QED BY <2>5, <3>2, <3>3
  <2>6. CASE M!InsertAwards(r)
    <3> SUFFICES ASSUME ~raced' PROVE AtMostOnce'
      BY DEF OnceInv
    <3>1. /\ M!At(r, "award") /\ ~raced /\ UNCHANGED <<guests, begun>> /\ M!Done(r)
          /\ \A q \in Handler \ {r} : ~M!At(q, "award")
          /\ awards' \in {awards, awards \cup {req[r].by}}
      BY <2>6 DEF M!InsertAwards
    <3>2. awards = {} /\ AtMostOnce
      BY <3>1 DEF OnceInv, AtMostOnce
    <3>3. req[r].by \in 1..begun'
      BY <3>1 DEF M!At, AgendaTypes, ReqFits
    <3>4. req'[r].pc = "idle" /\ \A q \in Handler \ {r} : req'[q] = req[q]
      BY <3>1, DoneTurns
    <3>5. ASSUME NEW q \in Handler
          PROVE  ~M!At(q, "award")' /\ (M!At(q, "guest!")' => M!At(q, "guest!"))
      BY <3>1, <3>4 DEF M!At
    <3>6. awards' = {} \/ \E by \in 1..begun' : awards' = {by}
      BY <3>1, <3>2, <3>3
    <3> QED BY <3>1, <3>2, <3>5, <3>6 DEF AtMostOnce
  <2>7. AgendaEnds(r) \/ M!Answer(r) \/ M!DeleteRow(r) =>
          UNCHANGED <<guests, begun, raced>> /\ (awards' = awards \/ awards' = {})
    BY DEF AgendaEnds, M!Answer, M!DeleteRow
  <2> QED BY <1>2, <2>1, <2>2, <2>3, <2>4, <2>5, <2>6, <2>7, AgendaStepIs
<1> QED BY <1>1, <1>2 DEF M!Next

LEMMA OnceInit == M!Setting /\ M!Init => OnceInv
BY DEF M!Init, OnceInv, AtMostOnce, M!At, M!Idle

LEMMA OnceIsHeld == OnceInv => M!InsertedOnce
<1> SUFFICES ASSUME OnceInv, ~raced PROVE Cardinality(awards) <= 1 /\ guests <= 1
  BY AgendaCount DEF M!InsertedOnce
<1>1. guests <= 1 /\ (awards = {} \/ \E by \in 1..begun : awards = {by})
  BY DEF OnceInv, AtMostOnce
<1>2. Cardinality({}) = 0 /\ \A by : Cardinality({by}) = 1
  BY FS_EmptySet, FS_Singleton
<1>3. Cardinality(awards) \in {0, 1}
  BY <1>1, <1>2
<1> QED BY <1>1, <1>3

-----------------------------------------------------------------------------
(* Meetings: the segments that were added                                  *)

\* The ids a save knows of.
IdsOf(q) == DOMAIN q.seen \cup DOMAIN q.rows

\* The segments a save is about to insert are nowhere yet, and what has been added is
\* not what a save is about to delete.
AddedInv ==
  /\ alive \subseteq M!Stored
  /\ \A r \in Handler : /\ IsPending(r) => M!ToAdd(req[r]) \cap M!Stored = {}
                        /\ req[r].pc \in {"row", "delete"} => alive \cap M!ToDelete(req[r]) = {}
  /\ \A q, r \in Handler : q # r /\ IsPending(q) /\ IsPrepared(r) => M!ToAdd(req[q]) \cap IdsOf(req[r]) = {}

\* The sets of a save that is not touched.
LEMMA UntouchedIds ==
  ASSUME NEW q, IsPrepared(q), Untouched(q)
  PROVE  /\ M!ToAdd(req'[q]) = M!ToAdd(req[q]) /\ M!ToDelete(req'[q]) = M!ToDelete(req[q])
         /\ IdsOf(req'[q]) = IdsOf(req[q])
BY DEF Untouched, SavesAgenda, IsPrepared, SavePcs, M!ToAdd, M!ToDelete, IdsOf

LEMMA AddedTurn ==
  ASSUME AddedInv, NEW r \in Handler, NEW s, Turns(r, s),
         s.pc \notin PreparedPcs \/ (IsPending(r) /\ SameWork(req[r], s)),
         alive' \subseteq M!Stored',
         M!Stored' \subseteq M!Stored \/ (IsPending(r) /\ M!Stored' \subseteq M!Stored \cup IdsOf(req[r])),
         alive' \subseteq alive \/ (IsPending(r) /\ alive' \subseteq alive \cup M!ToAdd(req[r])),
         s.pc \in PendingPcs => M!ToAdd(s) \cap M!Stored' = {},
         s.pc \in {"row", "delete"} => alive' \cap M!ToDelete(s) = {}
  PROVE  AddedInv'
<1>1. \A q \in Handler \ {r} : Untouched(q)
  BY DEF Turns
<1>2. \A q \in Handler : IsPending(q) => IsPrepared(q)
  BY DEF IsPending, IsPrepared, PreparedPcs
<1>3. IsPrepared(r)' => /\ IsPending(r) /\ M!ToAdd(req'[r]) = M!ToAdd(req[r])
                        /\ IdsOf(req'[r]) = IdsOf(req[r])
  BY DEF Turns, IsPrepared, SameWork, M!ToAdd, IdsOf
<1>4. ASSUME NEW q \in Handler
      PROVE  /\ IsPending(q)' => M!ToAdd(req'[q]) \cap M!Stored' = {}
             /\ req'[q].pc \in {"row", "delete"} => alive' \cap M!ToDelete(req'[q]) = {}
  <2>1. CASE q = r
    BY <2>1 DEF Turns, IsPending
  <2>2. CASE q # r
    <3>1. req'[q].pc = req[q].pc
      BY <1>1, <2>2 DEF Untouched
    <3>2. CASE IsPending(q)
      <4>1. M!ToAdd(req'[q]) = M!ToAdd(req[q]) /\ M!ToDelete(req'[q]) = M!ToDelete(req[q])
        BY <1>1, <1>2, <2>2, <3>2, UntouchedIds
      <4>2. M!ToAdd(req[q]) \cap M!Stored' = {}
        <5>1. M!ToAdd(req[q]) \cap M!Stored = {}
          BY <3>2 DEF AddedInv
        <5>2. IsPending(r) => M!ToAdd(req[q]) \cap IdsOf(req[r]) = {}
          BY <1>2, <2>2, <3>2 DEF AddedInv
        <5> QED BY <5>1, <5>2
      <4>3. req[q].pc \in {"row", "delete"} => alive' \cap M!ToDelete(req[q]) = {}
        <5>1. req[q].pc \in {"row", "delete"} => alive \cap M!ToDelete(req[q]) = {}
          BY DEF AddedInv
        <5>2. IsPending(r) => M!ToAdd(req[r]) \cap IdsOf(req[q]) = {}
          BY <1>2, <2>2, <3>2 DEF AddedInv
        <5>3. M!ToDelete(req[q]) \subseteq IdsOf(req[q])
          BY DEF M!ToDelete, IdsOf
        <5> QED BY <5>1, <5>2, <5>3
      <4> QED BY <3>1, <4>1, <4>2, <4>3
    <3>3. CASE ~IsPending(q)
      BY <3>1, <3>3 DEF IsPending, PendingPcs
    <3> QED BY <3>2, <3>3
  <2> QED BY <2>1, <2>2
<1>5. ASSUME NEW q \in Handler, NEW p \in Handler, q # p, IsPending(q)', IsPrepared(p)'
      PROVE  M!ToAdd(req'[q]) \cap IdsOf(req'[p]) = {}
  <2>1. IsPending(q) /\ IsPrepared(p)
    BY <1>1, <1>2, <1>3, <1>5 DEF Untouched, IsPending, IsPrepared, PreparedPcs
  <2>2. M!ToAdd(req'[q]) = M!ToAdd(req[q]) /\ IdsOf(req'[p]) = IdsOf(req[p])
    <3>1. M!ToAdd(req'[q]) = M!ToAdd(req[q])
      <4>1. CASE q = r
        BY <1>2, <1>3, <1>5, <4>1 DEF IsPending, IsPrepared, PreparedPcs
      <4>2. CASE q # r
        BY <1>1, <1>2, <2>1, <4>2, UntouchedIds
      <4> QED BY <4>1, <4>2
    <3>2. IdsOf(req'[p]) = IdsOf(req[p])
      <4>1. CASE p = r
        BY <1>3, <1>5, <4>1
      <4>2. CASE p # r
        BY <1>1, <2>1, <4>2, UntouchedIds
      <4> QED BY <4>1, <4>2
    <3> QED BY <3>1, <3>2
  <2> QED BY <1>5, <2>1, <2>2 DEF AddedInv
<1> QED BY <1>4, <1>5 DEF AddedInv

\* New ids are new.
LEMMA AddedPrepares ==
  ASSUME AgendaTypes, AddedInv, NEW r \in Handler, NEW s, NEW seen, DOMAIN seen \subseteq M!Stored,
         Prepares(r, s, seen), UNCHANGED segments
  PROVE  AddedInv'
<1>1. /\ made \in Nat /\ made' \in Nat /\ M!Stored \subseteq 1..made /\ M!Stored' = M!Stored
      /\ \A q \in Handler \ {r} : req'[q] = req[q]
      /\ req'[r] = s /\ s.seen = seen /\ alive' = alive \ M!ToDelete(s)
  BY DEF AgendaTypes, AgendaState, M!Known, Prepares, Turns, M!Stored
<1>2. DOMAIN s.rows \subseteq DOMAIN seen \cup ((made + 1)..made')
  BY DEF Prepares
<1>3. M!ToAdd(s) \cap (1..made) = {} /\ IdsOf(s) \cap (1..made) \subseteq M!Stored
  <2>1. ((made + 1)..made') \cap (1..made) = {}
    BY <1>1
  <2> QED BY <1>1, <1>2, <2>1 DEF M!ToAdd, IdsOf
<1>4. ASSUME NEW q \in Handler, IsPrepared(q)
      PROVE  IdsOf(req[q]) \subseteq 1..made /\ M!ToAdd(req[q]) \subseteq IdsOf(req[q])
  BY <1>4 DEF AgendaTypes, ReqFits, IsPrepared, RowsFit, IdsOf, M!ToAdd
<1>5. \A q \in Handler : IsPending(q) => IsPrepared(q)
  BY DEF IsPending, IsPrepared, PreparedPcs
<1>6. alive' \subseteq M!Stored'
  BY <1>1 DEF AddedInv
<1>7. ASSUME NEW q \in Handler
      PROVE  /\ IsPending(q)' => M!ToAdd(req'[q]) \cap M!Stored' = {}
             /\ req'[q].pc \in {"row", "delete"} => alive' \cap M!ToDelete(req'[q]) = {}
  <2>1. CASE q = r
    BY <1>1, <1>3, <2>1
  <2>2. CASE q # r
    <3>1. req'[q] = req[q]
      BY <1>1, <2>2
    <3> QED BY <1>1, <3>1 DEF AddedInv, IsPending
  <2> QED BY <2>1, <2>2
<1>8. ASSUME NEW q \in Handler, NEW p \in Handler, q # p, IsPending(q)', IsPrepared(p)'
      PROVE  M!ToAdd(req'[q]) \cap IdsOf(req'[p]) = {}
  <2>1. CASE q = r
    <3>1. req'[p] = req[p] /\ IsPrepared(p)
      BY <1>1, <1>8, <2>1 DEF IsPrepared
    <3> QED BY <1>1, <1>3, <1>4, <2>1, <3>1
  <2>2. CASE q # r
    <3>1. req'[q] = req[q] /\ IsPending(q)
      BY <1>1, <1>8, <2>2 DEF IsPending
    <3>2. CASE p = r
      <4>1. M!ToAdd(req[q]) \subseteq 1..made /\ M!ToAdd(req[q]) \cap M!Stored = {}
        BY <1>4, <1>5, <3>1 DEF AddedInv
      <4> QED BY <1>1, <1>3, <3>1, <3>2, <4>1
    <3>3. CASE p # r
      <4>1. req'[p] = req[p] /\ IsPrepared(p)
        BY <1>1, <1>8, <3>3 DEF IsPrepared
      <4> QED BY <1>8, <3>1, <4>1 DEF AddedInv
    <3> QED BY <3>2, <3>3
  <2> QED BY <2>1, <2>2
<1> QED BY <1>6, <1>7, <1>8 DEF AddedInv

LEMMA AddedStatement ==
  ASSUME AgendaTypes, AddedInv, NEW r \in Handler, NEW s, SaveGoes(r, s), Statement(r),
         Skips(s, req[r].pc, s.pc) \/ (M!At(r, "guest?") /\ s.pc = "guest!" /\ guests = 0)
  PROVE  AddedInv'
<1>1. IsPending(r) /\ Turns(r, s) /\ SameWork(req[r], s)
  BY StatementGoes DEF SaveGoes
<1>2. /\ M!ToAdd(s) = M!ToAdd(req[r]) /\ M!ToDelete(s) = M!ToDelete(req[r])
      /\ M!ToAdd(req[r]) \cap M!Stored = {} /\ alive \subseteq M!Stored
      /\ s.pc \in {"row", "delete"} => alive \cap M!ToDelete(s) = {}
  <2>1. M!ToAdd(s) = M!ToAdd(req[r]) /\ M!ToDelete(s) = M!ToDelete(req[r])
    BY <1>1 DEF SameWork, M!ToAdd, M!ToDelete
  <2>2. s.pc \in {"row", "delete"} => req[r].pc \in {"row", "delete"}
    <3>1. s.pc = "row" => FALSE
      BY SkipsForward
    <3>2. s.pc = "delete" => req[r].pc \notin {"delete", "guest?", "guest!", "update", "insert"}
      BY SkipsForward DEF M!At
    <3> QED BY <1>1, <3>1, <3>2 DEF IsPending, PendingPcs
  <2> QED BY <1>1, <2>1, <2>2 DEF AddedInv
<1>3. CASE M!UpdateRow(r) \/ M!FindGuest(r) \/ M!AddGuest(r)
  <2>1. UNCHANGED <<segments, alive>>
    BY <1>3 DEF M!UpdateRow, M!FindGuest, M!AddGuest
  <2>2. M!Stored' = M!Stored
    BY <2>1 DEF M!Stored
  <2> QED BY <1>1, <1>2, <2>1, <2>2, AddedTurn
<1>4. CASE M!DeleteSegments(r)
  <2>1. alive' = alive /\ M!Stored' = M!Stored \ M!ToDelete(req[r]) /\ req[r].pc = "delete"
    BY <1>4 DEF M!DeleteSegments, M!Restrict, M!Stored, M!At
  <2>2. alive \cap M!ToDelete(req[r]) = {}
    BY <2>1 DEF AddedInv
  <2> QED BY <1>1, <1>2, <2>1, <2>2, AddedTurn
<1>5. CASE M!UpdateSegments(r)
  <2>1. M!At(r, "update") /\ alive' = alive
    BY <1>5 DEF M!UpdateSegments
  <2>2. M!Stored' = M!Stored \cup M!ToUpdate(req[r]) \/ M!Stored' = M!Stored
    BY <1>5 DEF M!UpdateSegments, M!Put, M!Stored
  <2>3. M!ToUpdate(req[r]) \subseteq IdsOf(req[r]) /\ M!ToUpdate(req[r]) \cap M!ToAdd(req[r]) = {}
    BY DEF M!ToUpdate, M!ToAdd, M!Changed, IdsOf
  <2> QED BY <1>1, <1>2, <2>1, <2>2, <2>3, AddedTurn
<1>6. CASE M!InsertSegments(r)
  <2>1. M!At(r, "insert") /\ s.pc = "answer"
    BY <1>6, SkipsForward DEF M!InsertSegments, M!At
  <2>2. \/ M!Stored' = M!Stored \cup M!ToAdd(req[r]) /\ alive' = alive \cup M!ToAdd(req[r])
        \/ M!Stored' = M!Stored /\ alive' = alive
    BY <1>6 DEF M!InsertSegments, M!Put, M!Stored
  <2>3. M!ToAdd(req[r]) \subseteq IdsOf(req[r]) /\ s.pc \notin PendingPcs /\ s.pc \notin {"row", "delete"}
    BY <2>1 DEF M!ToAdd, IdsOf, PendingPcs
  <2> QED BY <1>1, <1>2, <2>1, <2>2, <2>3, AddedTurn
<1> QED BY <1>3, <1>4, <1>5, <1>6 DEF Statement

LEMMA AddedNext ==
  ASSUME M!Setting, AgendaTypes, AddedInv, [M!Next]_(M!vars)
  PROVE  AddedInv'
<1>1. CASE UNCHANGED M!vars
  BY <1>1 DEF M!vars, AddedInv, M!Stored, IsPending, IsPrepared
<1>2. ASSUME NEW r \in Handler, M!Step(r) PROVE AddedInv'
  <2>0. alive \subseteq M!Stored
    BY DEF AddedInv
  <2>1. ASSUME NEW s, Turns(r, s), s.pc \notin PreparedPcs,
               UNCHANGED <<segments, alive>> \/ (segments' = M!NoRows /\ alive' = {})
        PROVE  AddedInv'
    <3>1. alive' \subseteq M!Stored' /\ M!Stored' \subseteq M!Stored /\ alive' \subseteq alive
      BY <2>0, <2>1, NoAgendaRows DEF M!Stored
    <3>2. s.pc \notin PendingPcs /\ s.pc \notin {"row", "delete"}
      BY <2>1 DEF PreparedPcs, PendingPcs
    <3> QED BY <2>1, <3>1, <3>2, AddedTurn
  <2>2. CASE \E s : Opens(r, s)
    <3> PICK s : Opens(r, s)
      BY <2>2
    <3>1. s.pc \notin PreparedPcs
      BY DEF Opens, PreparedPcs, PendingPcs
    <3> QED BY <2>1, <3>1 DEF Opens
  <2>3. CASE \E s : Prepares(r, s, M!NoRows) /\ M!InsertRow(r)
    <3>1. UNCHANGED segments
      BY <2>3 DEF M!InsertRow
    <3> QED BY <2>3, <3>1, NoAgendaRows, AddedPrepares
  <2>4. CASE \E s : Prepares(r, s, segments) /\ M!ReadSegments(r)
    <3>1. UNCHANGED segments
      BY <2>4 DEF M!ReadSegments
    <3> QED BY <2>4, <3>1, AddedPrepares DEF M!Stored
  <2>5. CASE M!Done(r) /\ (UNCHANGED <<segments, alive>> \/ (segments' = M!NoRows /\ alive' = {}))
    <3>1. Turns(r, M!Idle) /\ M!Idle.pc \notin PreparedPcs
      BY <2>5, DoneTurns, IdleFits DEF PreparedPcs, PendingPcs
    <3> QED BY <2>1, <2>5, <3>1
  <2>6. CASE M!DeleteAwards(r) \/ M!DeleteAllSegments(r)
    <3> PICK s : /\ Turns(r, s)
                 /\ M!At(r, "awards") => s.pc = "award"
                 /\ M!At(r, "segments") => s.pc = "meeting"
      BY <2>6, MiddleTurns
    <3>1. s.pc \notin PreparedPcs
      BY <2>6 DEF M!DeleteAwards, M!DeleteAllSegments, M!At, PreparedPcs, PendingPcs
    <3>2. UNCHANGED <<segments, alive>> \/ (segments' = M!NoRows /\ alive' = {})
      BY <2>6 DEF M!DeleteAwards, M!DeleteAllSegments
    <3> QED BY <2>1, <3>1, <3>2
  <2>7. AgendaEnds(r) \/ M!Answer(r) \/ M!InsertAwards(r) \/ M!DeleteRow(r) =>
          UNCHANGED <<segments, alive>> \/ (segments' = M!NoRows /\ alive' = {})
    BY DEF AgendaEnds, M!Answer, M!InsertAwards, M!DeleteRow
  <2> QED BY <1>2, <2>2, <2>3, <2>4, <2>5, <2>6, <2>7, AgendaStepIs, AddedStatement
<1> QED BY <1>1, <1>2 DEF M!Next

LEMMA AddedInit == M!Setting /\ M!Init => AddedInv
BY DEF M!Init, AddedInv, IsPending, IsPrepared, PendingPcs, PreparedPcs, M!Idle, M!Stored

-----------------------------------------------------------------------------
(* Meetings: a save that runs alone                                        *)

\* What the table holds before each statement, when nobody else writes.
SegsAt(segs, q, from) ==
  LET both == DOMAIN q.seen \cap DOMAIN q.rows IN
  /\ from \in {"row", "delete"} => segs = q.seen
  /\ from \in {"guest?", "guest!", "update"} => segs = [id \in both |-> q.seen[id]]
  /\ from = "insert" => segs = [id \in both |-> q.rows[id]]
  /\ from = "answer" => segs = q.rows

LEMMA SegsSkip ==
  ASSUME NEW q, q.seen \in AgendaRows, q.rows \in AgendaRows, NEW segs, NEW p,
         NEW k \in 1..6, Skips(q, M!Statements[k], p), SegsAt(segs, q, M!Statements[k + 1])
  PROVE  SegsAt(segs, q, p)
<1> DEFINE both == DOMAIN q.seen \cap DOMAIN q.rows
           S(i) == SegsAt(segs, q, M!Statements[i])
<1>0. /\ q.seen = [id \in DOMAIN q.seen |-> q.seen[id]]
      /\ q.rows = [id \in DOMAIN q.rows |-> q.rows[id]]
  BY DEF AgendaRows
<1>1. ~M!Needed(q, M!Statements[2]) /\ S(2) => S(3)
  <2> SUFFICES ASSUME M!ToDelete(q) = {}, segs = q.seen PROVE S(3)
    BY NeededIs, StatementsAre DEF SegsAt
  <2>1. DOMAIN q.seen = both
    BY DEF M!ToDelete
  <2>2. segs = [id \in both |-> q.seen[id]]
    BY <1>0, <2>1
  <2> QED BY <2>2, StatementsAre DEF SegsAt
<1>2. (S(3) => S(4)) /\ (S(4) => S(5))
  BY StatementsAre DEF SegsAt
<1>3. ~M!Needed(q, M!Statements[5]) /\ S(5) => S(6)
  <2> SUFFICES ASSUME M!ToUpdate(q) = {}, segs = [id \in both |-> q.seen[id]] PROVE S(6)
    BY NeededIs, StatementsAre DEF SegsAt
  <2>1. \A id \in both : q.rows[id] = q.seen[id]
    BY DEF M!ToUpdate, M!Changed
  <2>2. segs = [id \in both |-> q.rows[id]]
    BY <2>1
  <2> QED BY <2>2, StatementsAre DEF SegsAt
<1>4. ~M!Needed(q, M!Statements[6]) /\ S(6) => S(7)
  <2> SUFFICES ASSUME M!ToAdd(q) = {}, segs = [id \in both |-> q.rows[id]] PROVE S(7)
    BY NeededIs, StatementsAre DEF SegsAt
  <2>1. DOMAIN q.rows = both
    BY DEF M!ToAdd
  <2>2. segs = q.rows
    BY <1>0, <2>1
  <2> QED BY <2>2, StatementsAre DEF SegsAt
<1> PICK j \in 1..7, n \in 1..7 :
           /\ j < n /\ M!Statements[j] = M!Statements[k] /\ M!Statements[n] = p
           /\ \A i \in 1..7 : j < i /\ i < n => ~M!Needed(q, M!Statements[i])
  BY DEF Skips
<1>5. j = k
  BY StatementsAre
<1>6. ~M!Needed(q, M!Statements[4])
  BY NeededIs, StatementsAre
<1>7. S(k + 1)
  OBVIOUS
<1> HIDE DEF S
<1>8. \A i \in 2..6 : k < i /\ i < n /\ S(i) => S(i + 1)
  <2> TAKE i \in 2..6
  <2>1. i \in {2, 3, 4, 5, 6} /\ (k < i /\ i < n => ~M!Needed(q, M!Statements[i]))
    BY <1>5
  <2>2. CASE i = 2
    BY <1>1, <2>1, <2>2
  <2>3. CASE i = 3
    BY <1>2, <2>3
  <2>4. CASE i = 4
    BY <1>2, <2>4
  <2>5. CASE i = 5
    BY <1>3, <2>1, <2>5
  <2>6. CASE i = 6
    BY <1>4, <2>1, <2>6
  <2> QED BY <2>1, <2>2, <2>3, <2>4, <2>5, <2>6
<1>9. S(n)
  <2>1. k \in {1, 2, 3, 4, 5, 6} /\ n \in {2, 3, 4, 5, 6, 7} /\ k < n
    BY <1>5
  <2>2. CASE n = k + 1
    BY <1>7, <2>2
  <2>3. CASE n = k + 2
    BY <1>7, <1>8, <2>1, <2>3
  <2>4. CASE n = k + 3
    BY <1>7, <1>8, <2>1, <2>4
  <2>5. CASE n = k + 4
    BY <1>7, <1>8, <2>1, <2>5
  <2>6. CASE n = k + 5
    BY <1>7, <1>8, <2>1, <2>6
  <2>7. CASE n = k + 6
    BY <1>7, <1>8, <2>1, <2>7
  <2> QED BY <2>1, <2>2, <2>3, <2>4, <2>5, <2>6, <2>7
<1> QED BY <1>9 DEF S

\* How far a save has come, when nobody else writes.
AloneFits(q, m, segs) ==
  /\ q.pc \in SavePcs /\ q.pc # "create" => m.row = "there"
  /\ q.pc \in {"read", "row"} => m.text = q.old
  /\ q.pc \in PreparedPcs /\ q.pc # "row" => m.text = q.text
  /\ q.pc \in PreparedPcs => SegsAt(segs, q, q.pc)

\* Requests that have changed nothing yet.
Untried == \A r \in M!Writing : req[r].pc \in {"create", "read"}

AloneInv ==
  /\ \A r \in M!Writing : req[r].alone => M!Writing = {r} /\ AloneFits(req[r], meeting, segments)
  /\ ~lapse /\ Untried => meeting.text = saved.text /\ segments = saved.rows

LEMMA AloneInit == M!Setting /\ M!Init => AloneInv
<1> SUFFICES ASSUME M!Setting, M!Init PROVE AloneInv
  OBVIOUS
<1>1. M!Writing = {} /\ segments = saved.rows /\ meeting.text = saved.text
  BY DEF M!Init, M!Writing, M!Idle
<1> QED BY <1>1 DEF AloneInv

\* One that writes goes on, and the others have no word in it.
LEMMA AloneTurn ==
  ASSUME AgendaTypes, AloneInv, NEW r \in M!Writing, NEW s, Turns(r, s),
         \A q \in Handler \ {r} : req'[q] = req[q],
         s.pc \notin {"idle", "awards", "award", "create", "read"},
         s.alone => req[r].alone,
         s.alone => AloneFits(s, meeting', segments')
  PROVE  AloneInv'
<1>1. M!Writing' = M!Writing /\ req'[r] = s /\ r \in Handler
  <2>1. \A q \in Handler : q \in M!Writing' <=> q \in M!Writing
    <3> TAKE q \in Handler
    <3>1. CASE q = r
      BY <3>1 DEF Turns, M!Writing
    <3>2. CASE q # r
      BY <3>2 DEF M!Writing
    <3> QED BY <3>1, <3>2
  <2> QED BY <2>1 DEF M!Writing, Turns
<1>2. ASSUME NEW q \in M!Writing', req'[q].alone
      PROVE  M!Writing' = {q} /\ AloneFits(req'[q], meeting', segments')
  <2>1. CASE q = r
    BY <1>1, <1>2, <2>1 DEF AloneInv
  <2>2. CASE q # r
    <3>1. q \in M!Writing /\ req[q].alone
      BY <1>1, <1>2, <2>2 DEF M!Writing
    <3> QED BY <2>2, <3>1 DEF AloneInv
  <2> QED BY <2>1, <2>2
<1>3. ~Untried'
  BY <1>1 DEF Untried
<1> QED BY <1>2, <1>3 DEF AloneInv

\* One that writes ends: nobody was alone but itself.
LEMMA AloneDone ==
  ASSUME AgendaTypes, AloneInv, NEW r \in M!Writing, M!Done(r),
         \/ lapse'
         \/ meeting'.text = saved'.text /\ segments' = saved'.rows
         \/ UNCHANGED <<lapse, meeting, segments, saved>> /\ req[r].pc = "create"
  PROVE  AloneInv'
<1>1. r \in Handler /\ req'[r].pc = "idle" /\ \A q \in Handler \ {r} : req'[q] = req[q]
  BY DoneTurns DEF M!Writing
<1>2. M!Writing' = M!Writing \ {r} /\ \A q \in M!Writing' : req'[q] = req[q]
  <2>1. \A q \in Handler : q \in M!Writing' <=> q \in M!Writing /\ q # r
    <3> TAKE q \in Handler
    <3>1. CASE q = r
      BY <1>1, <3>1 DEF M!Writing
    <3>2. CASE q # r
      BY <1>1, <3>2 DEF M!Writing
    <3> QED BY <3>1, <3>2
  <2>2. M!Writing' = M!Writing \ {r}
    BY <2>1 DEF M!Writing
  <2> QED BY <1>1, <2>2 DEF M!Writing
<1>3. \A q \in M!Writing' : ~req'[q].alone
  BY <1>2 DEF AloneInv
<1>4. Untried' /\ req[r].pc = "create" => Untried
  <2> SUFFICES ASSUME Untried', req[r].pc = "create", NEW q \in M!Writing
               PROVE  req[q].pc \in {"create", "read"}
    BY DEF Untried
  <2>1. CASE q = r
    BY <2>1
  <2>2. CASE q # r
    BY <1>2, <2>2 DEF Untried
  <2> QED BY <2>1, <2>2
<1>5. ~lapse' /\ Untried' => meeting'.text = saved'.text /\ segments' = saved'.rows
  BY <1>4 DEF AloneInv
<1> QED BY <1>3, <1>5 DEF AloneInv

LEMMA AloneOpens ==
  ASSUME AgendaTypes, AloneInv, NEW r \in Handler, NEW s, Opens(r, s)
  PROVE  AloneInv'
<1>1. /\ UNCHANGED <<meeting, segments, saved, lapse>> /\ req'[r] = s /\ r \notin M!Writing
      /\ \A q \in Handler \ {r} : req'[q].pc = req[q].pc
  BY DEF Opens, Turns, Untouched, M!Writing, M!At
<1>2. CASE s.pc = "awards"
  <2>1. M!Writing' = M!Writing /\ \A q \in M!Writing : req'[q] = req[q]
    <3>1. \A q \in Handler \ {r} : req'[q] = req[q]
      BY <1>2 DEF Opens
    <3>2. \A q \in Handler : q \in M!Writing' <=> q \in M!Writing
      <4> TAKE q \in Handler
      <4>1. CASE q = r
        BY <1>1, <1>2, <4>1 DEF M!Writing
      <4>2. CASE q # r
        BY <3>1, <4>2 DEF M!Writing
      <4> QED BY <4>1, <4>2
    <3>3. M!Writing' = M!Writing
      BY <3>2 DEF M!Writing
    <3> QED BY <1>1, <3>1, <3>3 DEF M!Writing
  <2>2. Untried' <=> Untried
    BY <2>1 DEF Untried
  <2> QED BY <1>1, <2>1, <2>2 DEF AloneInv
<1>3. CASE s.pc # "awards"
  <2>1. /\ s.pc \in {"create", "read", "segments"} /\ s.alone = (M!Writing = {})
        /\ \A q \in Handler \ {r} : q \in M!Writing => ~req'[q].alone
        /\ s.pc = "read" => meeting.row = "there" /\ s.old = meeting.text
    BY <1>3 DEF Opens
  <2>2. M!Writing' = M!Writing \cup {r}
    <3>1. \A q \in Handler : q \in M!Writing' <=> q \in M!Writing \cup {r}
      <4> TAKE q \in Handler
      <4>1. CASE q = r
        BY <1>1, <2>1, <4>1 DEF M!Writing
      <4>2. CASE q # r
        BY <1>1, <4>2 DEF M!Writing
      <4> QED BY <4>1, <4>2
    <3> QED BY <3>1 DEF M!Writing
  <2>3. s.alone => AloneFits(s, meeting, segments)
    BY <2>1 DEF AloneFits, SavePcs, PreparedPcs, PendingPcs
  <2>4. ASSUME NEW q \in M!Writing', req'[q].alone
        PROVE  M!Writing' = {q} /\ AloneFits(req'[q], meeting', segments')
    <3>1. q = r
      BY <2>1, <2>2, <2>4 DEF M!Writing
    <3> QED BY <1>1, <2>1, <2>2, <2>3, <2>4, <3>1
  <2>5. Untried' => Untried
    <3> SUFFICES ASSUME Untried', NEW q \in M!Writing PROVE req[q].pc \in {"create", "read"}
      BY DEF Untried
    <3>1. q \in M!Writing' /\ q \in Handler \ {r}
      BY <1>1, <2>2 DEF M!Writing
    <3> QED BY <1>1, <3>1 DEF Untried
  <2> QED BY <1>1, <2>4, <2>5 DEF AloneInv
<1> QED BY <1>2, <1>3

LEMMA AlonePrepares ==
  ASSUME AgendaTypes, AloneInv, NEW r \in Handler, NEW s,
         \/ Prepares(r, s, M!NoRows) /\ M!InsertRow(r) /\ meeting.row = "none"
         \/ Prepares(r, s, segments) /\ M!ReadSegments(r)
  PROVE  AloneInv'
<1>1. /\ r \in M!Writing /\ Turns(r, s) /\ s.alone = req[r].alone /\ segments' = segments
      /\ \A q \in Handler \ {r} : req'[q] = req[q]
      /\ s.pc \in PreparedPcs /\ s \in AgendaSaves
  BY DEF Prepares, M!InsertRow, M!ReadSegments, M!At, M!Writing
<1>2. s.pc \notin {"idle", "awards", "award", "create", "read"}
  BY <1>1 DEF PreparedPcs, PendingPcs
<1>3. ASSUME s.alone
      PROVE  AloneFits(s, meeting', segments')
  <2>1. s.seen \in AgendaRows /\ s.rows \in AgendaRows
    BY <1>1 DEF AgendaSaves
  <2>2. ASSUME segments = s.seen
        PROVE  SegsAt(segments, s, s.pc)
    <3>1. CASE s.pc = "row"
      BY <2>2, <3>1 DEF SegsAt
    <3>2. CASE s.pc # "row"
      <4>1. Skips(s, M!Statements[1], s.pc)
        BY <3>2, StatementsAre DEF Prepares
      <4>2. SegsAt(segments, s, M!Statements[1 + 1])
        BY <2>2, StatementsAre DEF SegsAt
      <4> QED BY <2>1, <4>1, <4>2, SegsSkip
    <3> QED BY <3>1, <3>2
  <2>3. CASE Prepares(r, s, M!NoRows) /\ M!InsertRow(r) /\ meeting.row = "none"
    <3>1. meeting'.row = "there" /\ meeting'.text = s.text /\ s.pc # "row" /\ s.seen = M!NoRows
      BY <2>3 DEF M!InsertRow, Prepares, M!At
    <3>2. segments = s.seen
      <4>1. M!Stored = {} /\ segments \in AgendaRows
        BY <2>3 DEF AgendaTypes, AgendaState
      <4>2. segments = [id \in {} |-> segments[id]]
        BY <4>1 DEF AgendaRows, M!Stored
      <4>3. [id \in {} |-> segments[id]] = [id \in {} |-> Absent]
        OBVIOUS
      <4> QED BY <3>1, <4>2, <4>3 DEF M!NoRows
    <3> QED BY <1>1, <1>2, <2>2, <3>1, <3>2 DEF AloneFits
  <2>4. CASE Prepares(r, s, segments) /\ M!ReadSegments(r)
    <3>1. /\ M!At(r, "read") /\ meeting' = meeting /\ s.seen = segments
          /\ s.text = req[r].text /\ s.old = req[r].old /\ (s.pc # "row" => s.text = s.old)
      BY <2>4 DEF M!ReadSegments, Prepares
    <3>2. AloneFits(req[r], meeting, segments) /\ req[r].pc = "read"
      BY <1>1, <1>3, <3>1 DEF AloneInv, M!At
    <3>3. meeting.row = "there" /\ meeting.text = s.old
      BY <3>1, <3>2 DEF AloneFits, SavePcs
    <3> QED BY <1>1, <1>2, <2>2, <3>1, <3>3 DEF AloneFits
  <2> QED BY <2>3, <2>4
<1> QED BY <1>1, <1>2, <1>3, AloneTurn

LEMMA AloneStatement ==
  ASSUME AgendaTypes, AloneInv, NEW r \in Handler, NEW s, SaveGoes(r, s), Statement(r),
         Skips(s, req[r].pc, s.pc) \/ (M!At(r, "guest?") /\ s.pc = "guest!" /\ guests = 0)
  PROVE  AloneInv'
<1>1. /\ r \in M!Writing /\ Turns(r, s) /\ s.alone = req[r].alone /\ IsPending(r)
      /\ \A q \in Handler \ {r} : req'[q] = req[q]
      /\ s.pc \in PreparedPcs /\ s \in AgendaSaves /\ SameWork(req[r], s)
  BY StatementGoes DEF SaveGoes, IsPending, PendingPcs, M!Writing
<1>2. s.pc \notin {"idle", "awards", "award", "create", "read"} /\ s.pc # "row"
  BY <1>1, SkipsForward DEF PreparedPcs, PendingPcs
<1>3. ASSUME s.alone
      PROVE  AloneFits(s, meeting', segments')
  <2> DEFINE both == DOMAIN s.seen \cap DOMAIN s.rows
  <2>1. s.seen \in AgendaRows /\ s.rows \in AgendaRows
    BY <1>1 DEF AgendaSaves
  <2>2. AloneFits(req[r], meeting, segments)
    BY <1>1, <1>3 DEF AloneInv
  <2>3. meeting.row = "there" /\ SegsAt(segments, req[r], req[r].pc)
    BY <1>1, <2>2 DEF AloneFits, IsPending, PreparedPcs, PendingPcs, SavePcs
  <2>4. SegsAt(segments, s, req[r].pc)
    BY <1>1, <2>3 DEF SegsAt, SameWork
  <2>5. meeting'.row = "there" /\ meeting'.text = s.text
    <3>1. CASE M!UpdateRow(r)
      BY <1>1, <2>3, <3>1 DEF M!UpdateRow, SameWork, AgendaTypes, AgendaState
    <3>2. CASE ~M!UpdateRow(r)
      <4>1. meeting' = meeting /\ req[r].pc # "row"
        BY <3>2 DEF Statement, M!DeleteSegments, M!FindGuest, M!AddGuest, M!UpdateSegments, M!InsertSegments, M!At
      <4> QED BY <1>1, <2>2, <2>3, <4>1 DEF AloneFits, IsPending, PreparedPcs, SameWork
    <3> QED BY <3>1, <3>2
  <2>6. ASSUME NEW k \in 1..6, M!Statements[k] = req[r].pc, SegsAt(segments', s, M!Statements[k + 1])
        PROVE  SegsAt(segments', s, s.pc)
    <3>1. CASE Skips(s, req[r].pc, s.pc)
      BY <2>1, <2>6, <3>1, SegsSkip
    <3>2. CASE M!At(r, "guest?") /\ s.pc = "guest!"
      <4>1. k = 3
        BY <2>6, <3>2, StatementsAre DEF M!At
      <4> QED BY <2>6, <3>2, <4>1, StatementsAre
    <3> QED BY <3>1, <3>2
  <2>7. M!ToDelete(s) = M!ToDelete(req[r]) /\ M!ToUpdate(s) = M!ToUpdate(req[r]) /\ M!ToAdd(s) = M!ToAdd(req[r])
    BY <1>1 DEF SameWork, M!ToDelete, M!ToUpdate, M!ToAdd
  <2>8. SegsAt(segments', s, s.pc)
    <3>1. CASE M!UpdateRow(r)
      <4>1. segments' = segments /\ req[r].pc = "row"
        BY <3>1 DEF M!UpdateRow, M!At
      <4>2. SegsAt(segments', s, M!Statements[1 + 1]) /\ M!Statements[1] = req[r].pc
        BY <2>4, <4>1, StatementsAre DEF SegsAt
      <4> QED BY <2>6, <4>2
    <3>2. CASE M!DeleteSegments(r)
      <4>1. segments' = [id \in M!Stored \ M!ToDelete(s) |-> segments[id]] /\ req[r].pc = "delete"
        BY <2>7, <3>2 DEF M!DeleteSegments, M!At, M!Restrict
      <4>2. segments = s.seen
        BY <2>4, <4>1 DEF SegsAt
      <4>3. M!Stored \ M!ToDelete(s) = both
        BY <4>2 DEF M!Stored, M!ToDelete
      <4>4. segments' = [id \in both |-> s.seen[id]]
        BY <4>1, <4>2, <4>3
      <4>5. SegsAt(segments', s, M!Statements[2 + 1]) /\ M!Statements[2] = req[r].pc
        BY <4>1, <4>4, StatementsAre DEF SegsAt
      <4> QED BY <2>6, <4>5
    <3>3. CASE M!FindGuest(r)
      <4>1. segments' = segments /\ req[r].pc = "guest?"
        BY <3>3 DEF M!FindGuest, M!At
      <4>2. SegsAt(segments', s, M!Statements[3 + 1]) /\ M!Statements[3] = req[r].pc
        BY <2>4, <4>1, StatementsAre DEF SegsAt
      <4> QED BY <2>6, <4>2
    <3>4. CASE M!AddGuest(r)
      <4>1. segments' = segments /\ req[r].pc = "guest!"
        BY <3>4 DEF M!AddGuest, M!At
      <4>2. SegsAt(segments', s, M!Statements[4 + 1]) /\ M!Statements[4] = req[r].pc
        BY <2>4, <4>1, StatementsAre DEF SegsAt
      <4> QED BY <2>6, <4>2
    <3>5. CASE M!UpdateSegments(r)
      <4>1. /\ segments' = [id \in M!Stored \cup M!ToUpdate(s) |->
                                IF id \in M!ToUpdate(s) THEN s.rows[id] ELSE segments[id]]
            /\ req[r].pc = "update"
        BY <1>1, <2>3, <2>7, <3>5 DEF M!UpdateSegments, M!Put, M!At, SameWork
      <4>2. segments = [id \in both |-> s.seen[id]]
        BY <2>4, <4>1 DEF SegsAt
      <4>3. /\ M!Stored \cup M!ToUpdate(s) = both
            /\ \A id \in both : id \notin M!ToUpdate(s) => s.rows[id] = s.seen[id]
        BY <4>2 DEF M!Stored, M!ToUpdate, M!Changed
      <4>4. segments' = [id \in both |-> s.rows[id]]
        BY <4>1, <4>2, <4>3
      <4>5. SegsAt(segments', s, M!Statements[5 + 1]) /\ M!Statements[5] = req[r].pc
        BY <4>1, <4>4, StatementsAre DEF SegsAt
      <4> QED BY <2>6, <4>5
    <3>6. CASE M!InsertSegments(r)
      <4>1. /\ segments' = [id \in M!Stored \cup M!ToAdd(s) |->
                                IF id \in M!ToAdd(s) THEN s.rows[id] ELSE segments[id]]
            /\ req[r].pc = "insert"
        BY <1>1, <2>3, <2>7, <3>6 DEF M!InsertSegments, M!Put, M!At, SameWork
      <4>2. segments = [id \in both |-> s.rows[id]]
        BY <2>4, <4>1 DEF SegsAt
      <4>3. /\ M!Stored \cup M!ToAdd(s) = DOMAIN s.rows
            /\ \A id \in DOMAIN s.rows : id \notin M!ToAdd(s) => segments[id] = s.rows[id]
        BY <4>2 DEF M!Stored, M!ToAdd
      <4>4. segments' = [id \in DOMAIN s.rows |-> s.rows[id]]
        BY <4>1, <4>3
      <4>5. segments' = s.rows
        BY <2>1, <4>4 DEF AgendaRows
      <4>6. SegsAt(segments', s, M!Statements[6 + 1]) /\ M!Statements[6] = req[r].pc
        BY <4>1, <4>5, StatementsAre DEF SegsAt
      <4> QED BY <2>6, <4>6
    <3> QED BY <3>1, <3>2, <3>3, <3>4, <3>5, <3>6 DEF Statement
  <2> QED BY <1>2, <2>5, <2>8 DEF AloneFits
<1> QED BY <1>1, <1>2, <1>3, AloneTurn

LEMMA AloneNext ==
  ASSUME M!Setting, AgendaTypes, AloneInv, [M!Next]_(M!vars)
  PROVE  AloneInv'
<1>1. CASE UNCHANGED M!vars
  BY <1>1 DEF M!vars, AloneInv, M!Writing, Untried
<1>2. ASSUME NEW r \in Handler, M!Step(r) PROVE AloneInv'
  <2>1. CASE M!Done(r) /\ AgendaEnds(r) /\ r \in M!Writing
    <3>1. lapse' \/ (UNCHANGED <<lapse, meeting, segments, saved>> /\ req[r].pc = "create")
      BY <2>1 DEF AgendaEnds, M!At
    <3> QED BY <2>1, <3>1, AloneDone
  <2>2. CASE M!Answer(r)
    <3>1. /\ r \in M!Writing /\ M!Done(r) /\ lapse' = ~req[r].alone /\ req[r].pc = "answer"
          /\ saved' = [text |-> req[r].text, rows |-> req[r].rows]
          /\ UNCHANGED <<meeting, segments>>
      BY <2>2 DEF M!Answer, M!At, M!Writing
    <3>2. req[r].alone => meeting.text = req[r].text /\ segments = req[r].rows
      <4>1. req[r].alone => AloneFits(req[r], meeting, segments)
        BY <3>1 DEF AloneInv
      <4> QED BY <3>1, <4>1 DEF AloneFits, SegsAt, PreparedPcs
    <3> QED BY <3>1, <3>2, AloneDone
  <2>3. CASE M!DeleteRow(r)
    <3>1. r \in M!Writing /\ M!Done(r) /\ meeting'.text = saved'.text /\ segments' = saved'.rows
      BY <2>3 DEF M!DeleteRow, M!At, M!Writing
    <3> QED BY <3>1, AloneDone
  <2>4. CASE M!InsertAwards(r) \/ M!DeleteAwards(r)
    <3>1. /\ UNCHANGED <<meeting, segments, saved, lapse>> /\ r \notin M!Writing
          /\ req'[r].pc \in {"idle", "award"} /\ \A q \in Handler \ {r} : req'[q] = req[q]
      <4>1. CASE M!InsertAwards(r)
        BY <4>1, DoneTurns DEF M!InsertAwards, M!Writing, M!At
      <4>2. CASE M!DeleteAwards(r)
        <5>1. \E s : /\ Turns(r, s) /\ s.pc = "award" /\ \A q \in Handler \ {r} : req'[q] = req[q]
          BY <4>2, MiddleTurns DEF M!DeleteAwards
        <5> QED BY <4>2, <5>1 DEF M!DeleteAwards, M!Writing, M!At, Turns
      <4> QED BY <2>4, <4>1, <4>2
    <3>2. \A q \in Handler : q \in M!Writing' <=> q \in M!Writing
      <4> TAKE q \in Handler
      <4>1. CASE q = r
        BY <3>1, <4>1 DEF M!Writing
      <4>2. CASE q # r
        BY <3>1, <4>2 DEF M!Writing
      <4> QED BY <4>1, <4>2
    <3>3. M!Writing' = M!Writing /\ \A q \in M!Writing : req'[q] = req[q]
      <4>1. M!Writing' = M!Writing
        BY <3>2 DEF M!Writing
      <4> QED BY <3>1, <4>1 DEF M!Writing
    <3>4. Untried' <=> Untried
      BY <3>3 DEF Untried
    <3> QED BY <3>1, <3>3, <3>4 DEF AloneInv
  <2>5. CASE M!DeleteAllSegments(r)
    <3> PICK s : /\ Turns(r, s) /\ \A q \in Handler \ {r} : req'[q] = req[q]
                 /\ M!At(r, "segments") => s.pc = "meeting" /\ s.alone = req[r].alone
      BY <2>5, MiddleTurns
    <3>1. r \in M!Writing /\ s.pc = "meeting" /\ s.alone = req[r].alone
      BY <2>5 DEF M!DeleteAllSegments, M!At, M!Writing
    <3>2. AloneFits(s, meeting', segments')
      BY <3>1 DEF AloneFits, SavePcs, PreparedPcs, PendingPcs
    <3> QED BY <3>1, <3>2, AloneTurn
  <2> QED BY <1>2, <2>1, <2>2, <2>3, <2>4, <2>5, AgendaStepIs, AloneOpens, AlonePrepares, AloneStatement
<1> QED BY <1>1, <1>2 DEF M!Next

-----------------------------------------------------------------------------
(* Meetings: the theorems                                                  *)

\* The tables and the requests keep their types, and a guest is inserted once a request
\* at most.
THEOREM MeetingsAreTyped == M!Setting => (M!Spec => []M!TypeOK)
<1>1. M!Setting /\ M!Init => AgendaTypes /\ GuestsCounted
  BY AgendaInit
<1>2. M!Setting /\ AgendaTypes /\ GuestsCounted /\ [M!Next]_(M!vars) => AgendaTypes' /\ GuestsCounted'
  BY AgendaTypesNext, GuestsNext
<1>3. M!Setting /\ AgendaTypes /\ GuestsCounted => M!TypeOK
  <2> SUFFICES ASSUME M!Setting, AgendaTypes, GuestsCounted PROVE M!TypeOK
    OBVIOUS
  <2>1. guests \in 0..MaxSaves
    <3>1. IsFiniteSet(MayAdd) /\ Cardinality(MayAdd) \in Nat
      BY FS_Subset, FS_CardinalityType, AgendaCount DEF M!Setting, MayAdd
    <3> QED BY <3>1 DEF GuestsCounted, AgendaTypes, AgendaState, M!Setting
  <2>2. \A id \in M!Stored : segments[id].text \in Text
    <3>1. \A f \in AgendaRows : \A id \in DOMAIN f : f[id].text \in Text
      BY DEF AgendaRows, AgendaRow
    <3> QED BY <3>1 DEF AgendaTypes, AgendaState, M!Stored
  <2>3. \A r \in Handler : req[r].pc \in SavePcs \cup {"segments", "meeting", "awards", "award", "idle"}
    BY AgendaReqIs DEF AgendaTypes
  <2>4. meeting.row \in {"none", "there", "gone"} /\ meeting.text \in Text \cup {Absent}
    BY DEF AgendaTypes, AgendaState
  <2> QED BY <2>1, <2>2, <2>3, <2>4 DEF M!TypeOK, AgendaTypes, AgendaState, SavePcs, PreparedPcs, PendingPcs
<1>4. CASE M!Setting
  <2>1. M!Spec => [](AgendaTypes /\ GuestsCounted)
    BY <1>1, <1>2, <1>4, PTL DEF M!Spec
  <2> QED BY <1>3, <1>4, <2>1, PTL
<1> QED BY <1>4

\* A save that ran alone leaves the meeting as its form says, and its segments refer to
\* each other only; however saves overlap or stop half-way, an added segment stays until
\* a form drops it whose save has read it; and awards and the guest are inserted once
\* unless two requests looked before either inserted.
THEOREM MeetingIsSaved == M!Setting => (M!Spec => []MeetingHolds)
<1> DEFINE Inv == AgendaTypes /\ GuestsCounted /\ OnceInv /\ AddedInv /\ AloneInv
<1>1. M!Setting /\ M!Init => Inv
  BY AgendaInit, OnceInit, AddedInit, AloneInit
<1>2. M!Setting /\ Inv /\ [M!Next]_(M!vars) => Inv'
  BY AgendaTypesNext, GuestsNext, OnceNext, AddedNext, AloneNext
<1>3. M!Setting /\ Inv => MeetingHolds
  <2> SUFFICES ASSUME M!Setting, Inv PROVE MeetingHolds
    OBVIOUS
  <2>1. M!SavedIsStored
    BY DEF M!SavedIsStored, AloneInv, Untried
  <2>2. M!NoDanglingTags
    <3>1. M!Writing = {} /\ ~lapse => segments = saved.rows
      BY <2>1 DEF M!SavedIsStored
    <3>2. \A id \in DOMAIN saved.rows : saved.rows[id].related \subseteq DOMAIN saved.rows
      BY DEF AgendaTypes, AgendaState
    <3> QED BY <3>1, <3>2 DEF M!NoDanglingTags, M!Stored
  <2>3. M!AddedIsKept
    BY DEF M!AddedIsKept, AddedInv
  <2>4. M!InsertedOnce
    BY OnceIsHeld
  <2> QED BY <2>1, <2>2, <2>3, <2>4 DEF MeetingHolds, M!MeetingHolds
<1>4. CASE M!Setting
  <2> HIDE DEF Inv
  <2>1. M!Spec => []Inv
    BY <1>1, <1>2, <1>4, PTL DEF M!Spec
  <2> QED BY <1>3, <1>4, <2>1, PTL
<1> QED BY <1>4

-----------------------------------------------------------------------------
(* A draft page: start times                                               *)

\* Sets of numbers have a first one: what is defined step by step is proved by it.
LEMMA FirstOf ==
  ASSUME NEW S \in SUBSET Nat, S # {}
  PROVE  \E n \in S : \A k \in S : n <= k
<1> DEFINE R == OpToRel(<, Nat)
<1>1. IsWellFoundedOn(R, Nat)
  BY NatLessThanWellFounded
<1>2. \A x, y \in Nat : <<x, y>> \in R <=> x < y
  BY DEF OpToRel
<1> HIDE DEF R
<1>3. PICK n \in S : \A k \in S : ~ (<<k, n>> \in R)
  BY <1>1, WFMin
<1>4. \A k \in S : k \in Nat /\ n \in Nat /\ ~ (k < n)
  BY <1>2, <1>3
<1> QED BY <1>3, <1>4

\* So there are sums that start at a, each the one before it and what comes then.
Sums(g, n, a, d) == g = [i \in 1..n |-> IF i = 1 THEN a ELSE g[i - 1] + d[i]]

LEMMA SumsExist ==
  ASSUME NEW n \in Nat, NEW a \in Int, NEW d \in [1..n -> Int]
  PROVE  \E g \in [1..n -> Int] : Sums(g, n, a, d)
<1> DEFINE Bad == {k \in 0..n : ~\E g \in [1..k -> Int] : Sums(g, k, a, d)}
<1>1. SUFFICES Bad = {}
  BY <1>1
<1>2. SUFFICES ASSUME Bad # {} PROVE FALSE
  OBVIOUS
<1>3. PICK k \in Bad : \A j \in Bad : k <= j
  <2>1. Bad \in SUBSET Nat
    OBVIOUS
  <2> HIDE DEF Bad
  <2> QED BY <1>2, <2>1, FirstOf
<1>4. k # 0
  <2>1. [i \in 1..0 |-> 0] \in [1..0 -> Int] /\ Sums([i \in 1..0 |-> 0], 0, a, d)
    BY DEF Sums
  <2> QED BY <2>1, <1>3
<1>5. PICK g \in [1..(k - 1) -> Int] : Sums(g, k - 1, a, d)
  <2>1. k \in 1..n
    BY <1>3, <1>4
  <2>2. k - 1 \notin Bad /\ k - 1 \in 0..n
    <3> HIDE DEF Bad
    <3> QED BY <1>3, <2>1
  <2> QED BY <2>2
<1> DEFINE h == [i \in 1..k |-> IF i = k THEN (IF k = 1 THEN a ELSE g[k - 1] + d[k]) ELSE g[i]]
<1>6. h \in [1..k -> Int] /\ Sums(h, k, a, d)
  <2>1. k \in 1..n
    BY <1>3, <1>4
  <2> QED BY <1>5, <2>1 DEF Sums
<1> QED BY <1>3, <1>6

\* Segments and agendas.
Kinds == {"speech", "session", "fixed", "custom"}
Words == {"", "new"}
Dates == {"unset", "ahead", "past"}
Moments == 0..1439
Clock == Moments \cup {Absent}

Parts == [type : Kinds, start : Moments, duration : Nat, buffer : Nat, role : RoleTaker \cup {NoOne},
          title : Words, content : Words]

Pages == [no : 0..1, when : Dates, start : Clock, end : Clock, given : BOOLEAN, segments : Seq(Parts)]

LEMMA DayIs == E!Day = 1440 /\ E!DefaultAnchor = 1155
BY DEF E!Day, E!DefaultAnchor

LEMMA AnchorIs ==
  ASSUME E!Setting, NEW a \in Pages
  PROVE  E!Anchor(a) \in Moments /\ E!Anchor(a) % E!Day = E!Anchor(a)
<1>1. E!Anchor(a) \in Moments
  BY DayIs, SMTT(20) DEF E!Anchor, Pages, Clock, Moments
<1> QED BY <1>1, DayIs DEF Moments

\* recompute_start_times, for agendas of any length: the times are cumulative sums.
LEMMA RecomputeIs ==
  ASSUME E!Setting, NEW a \in Pages
  PROVE  \E at \in [1..Len(a.segments) -> Int] :
           /\ \A i \in 1..Len(a.segments) : at[i] = IF i = 1 THEN E!Anchor(a)
                ELSE at[i - 1] + a.segments[i - 1].duration + a.segments[i].buffer
           /\ E!Recompute(a) = [a EXCEPT
                !.segments = [i \in 1..Len(a.segments) |-> [a.segments[i] EXCEPT !.start = at[i] % E!Day]],
                !.given = FALSE]
<1> DEFINE s == a.segments
           n == Len(s)
           d == [i \in 1..n |-> IF i = 1 THEN 0 ELSE s[i - 1].duration + s[i].buffer]
<1>1. s \in Seq(Parts) /\ n \in Nat /\ DOMAIN s = 1..n /\ \A i \in 1..n : s[i] \in Parts
  BY DEF Pages
<1>2. \A i \in 1..n : s[i].duration \in Nat /\ s[i].buffer \in Nat
  <2> HIDE DEF s, n
  <2> QED BY <1>1 DEF Parts
<1>3. d \in [1..n -> Int]
  BY <1>1, <1>2
<1>4. PICK g \in [1..n -> Int] : Sums(g, n, E!Anchor(a), d)
  <2>1. E!Anchor(a) \in Int
    BY AnchorIs DEF Moments
  <2> HIDE DEF d, n, s
  <2> QED BY <1>1, <1>3, <2>1, SumsExist
<1> DEFINE Times(f) == f = [i \in DOMAIN s |-> IF i = 1 THEN E!Anchor(a)
                                    ELSE f[i - 1] + s[i - 1].duration + s[i].buffer]
           at == CHOOSE f : Times(f)
<1>5. Times(g)
  <2>1. \A i \in 1..n : g[i] = IF i = 1 THEN E!Anchor(a) ELSE g[i - 1] + d[i]
    <3> HIDE DEF d, n, s
    <3> QED BY <1>4 DEF Sums
  <2>2. \A i \in 2..n : g[i - 1] \in Int /\ g[i - 1] + d[i] = g[i - 1] + s[i - 1].duration + s[i].buffer
    <3> TAKE i \in 2..n
    <3>1. i - 1 \in 1..n /\ i \in 1..n /\ g[i - 1] \in Int
      BY <1>1, <1>4
    <3>2. d[i] = s[i - 1].duration + s[i].buffer
      BY <3>1
    <3>3. s[i - 1].duration \in Nat /\ s[i].buffer \in Nat
      BY <1>2, <3>1
    <3> HIDE DEF d, n, s
    <3> QED BY <3>1, <3>2, <3>3
  <2> HIDE DEF d, n, s
  <2>3. g = [i \in 1..n |-> IF i = 1 THEN E!Anchor(a) ELSE g[i - 1] + s[i - 1].duration + s[i].buffer]
    BY <1>1, <1>4, <2>1, <2>2
  <2> QED BY <1>1, <2>3
<1>6. Times(at)
  BY <1>5
<1>7. at \in [1..n -> Int]
  <2> SUFFICES at = g
    OBVIOUS
  <2> DEFINE Bad == {i \in 1..n : at[i] # g[i]}
  <2>1. Bad = {} => at = g
    <3> HIDE DEF d
    <3> QED BY <1>1, <1>5, <1>6
  <2>2. SUFFICES ASSUME Bad # {} PROVE FALSE
    BY <2>1
  <2>3. PICK k \in Bad : \A j \in Bad : k <= j
    <3>1. Bad \in SUBSET Nat
      BY <1>1
    <3> HIDE DEF Bad
    <3> QED BY <2>2, <3>1, FirstOf
  <2>4. k \in 1..n /\ at[k] # g[k] /\ (k # 1 => k - 1 \in 1..n /\ at[k - 1] = g[k - 1])
    <3>1. k \in 1..n
      OBVIOUS
    <3>2. k # 1 => k - 1 \in 1..n /\ k - 1 \notin Bad
      <4> HIDE DEF Bad
      <4> QED BY <1>1, <2>3, <3>1
    <3> QED BY <3>1, <3>2
  <2> HIDE DEF Bad, at
  <2> QED BY <1>1, <1>5, <1>6, <2>4, ZenonT(40)
<1>8. E!Recompute(a) = [a EXCEPT !.segments = [i \in 1..n |-> [s[i] EXCEPT !.start = at[i] % E!Day]],
                                 !.given = FALSE]
  BY <1>1 DEF E!Recompute
<1> QED
  <2> HIDE DEF d, at
  <2>1. \A i \in 1..n : at[i] = IF i = 1 THEN E!Anchor(a) ELSE at[i - 1] + s[i - 1].duration + s[i].buffer
    BY <1>1, <1>6
  <2> QED BY <1>7, <1>8, <2>1

\* What the first conjunct of TimesFollow says of one agenda.
Follows(a) == a.given \/ E!Chained(a)

LEMMA ClockAdds == \A x \in Int, y \in Nat, z \in Nat : ((x % E!Day) + y + z) % E!Day = (x + y + z) % E!Day
BY DayIs

LEMMA TimeOfDay == \A x \in Int : x % E!Day \in Moments
BY DayIs DEF Moments

LEMMA MomentsAre == \A x \in Moments : x \in Nat
BY DEF Moments

LEMMA MomentIsItsOwn == \A x \in Moments : x % 1440 = x /\ x % E!Day = x
BY DayIs DEF Moments

LEMMA PartKeeps ==
  ASSUME NEW p \in Parts, NEW t \in Moments
  PROVE  [p EXCEPT !.start = t] \in Parts
BY DEF Parts

LEMMA PageKeeps ==
  ASSUME NEW a \in Pages, NEW q \in Seq(Parts), NEW g \in BOOLEAN
  PROVE  [a EXCEPT !.segments = q, !.given = g] \in Pages
BY DEF Pages

\* Whatever agenda is recomputed: its segments follow each other, and nothing else
\* changes.
LEMMA RecomputeFollows ==
  ASSUME E!Setting, NEW a \in Pages
  PROVE  E!Recompute(a) \in Pages /\ Follows(E!Recompute(a))
<1> DEFINE s == a.segments
           n == Len(s)
           r == E!Recompute(a)
<1>1. s \in Seq(Parts) /\ n \in Nat /\ DOMAIN s = 1..n /\ \A i \in 1..n : s[i] \in Parts
  BY DEF Pages
<1>2. PICK at \in [1..n -> Int] :
         /\ \A i \in 1..n : at[i] = IF i = 1 THEN E!Anchor(a) ELSE at[i - 1] + s[i - 1].duration + s[i].buffer
         /\ r = [a EXCEPT !.segments = [i \in 1..n |-> [s[i] EXCEPT !.start = at[i] % E!Day]],
                          !.given = FALSE]
  BY RecomputeIs
<1>3. r.segments = [i \in 1..n |-> [s[i] EXCEPT !.start = at[i] % E!Day]]
  BY <1>2 DEF Pages
<1>4. r.segments \in Seq(Parts) /\ DOMAIN r.segments = 1..n
  <2>1. \A i \in 1..n : [s[i] EXCEPT !.start = at[i] % E!Day] \in Parts
    <3> HIDE DEF r, n, s
    <3>1. \A i \in 1..n : at[i] % E!Day \in Moments
      <4>1. \A i \in 1..n : at[i] \in Int
        BY <1>2
      <4> QED BY <4>1, TimeOfDay
    <3> TAKE i \in 1..n
    <3>2. s[i] \in Parts
      BY <1>1
    <3>3. at[i] % E!Day \in Moments
      BY <3>1
    <3> QED BY <3>2, <3>3, PartKeeps
  <2>2. r.segments \in [1..n -> Parts]
    <3> HIDE DEF r, n, s
    <3> QED BY <1>3, <2>1
  <2> HIDE DEF r, n, s
  <2> QED BY <1>1, <2>2, SeqDef
<1>5. r \in Pages
  <2>1. r = [a EXCEPT !.segments = r.segments, !.given = FALSE]
    BY <1>2, <1>3
  <2> HIDE DEF r, n, s
  <2> QED BY <1>4, <2>1, PageKeeps
<1>6. E!Anchor(r) = E!Anchor(a)
  BY <1>2 DEF E!Anchor, Pages
<1>7. ASSUME NEW i \in 1..n
      PROVE  r.segments[i].start = IF i = 1 THEN E!Anchor(r) % E!Day
               ELSE (r.segments[i - 1].start + r.segments[i - 1].duration + r.segments[i].buffer) % E!Day
  <2> HIDE DEF r, n, s
  <2>1. \A k \in 1..n : /\ r.segments[k].start = at[k] % E!Day
                        /\ r.segments[k].duration = s[k].duration /\ r.segments[k].buffer = s[k].buffer
                        /\ s[k].duration \in Nat /\ s[k].buffer \in Nat
    <3> TAKE k \in 1..n
    <3>1. s[k] \in Parts /\ r.segments[k] = [s[k] EXCEPT !.start = at[k] % E!Day]
      BY <1>1, <1>3
    <3> QED BY <3>1 DEF Parts
  <2>2. CASE i = 1
    BY <1>2, <1>6, <2>1, <2>2
  <2>3. CASE i # 1
    <3>1. i - 1 \in 1..n /\ at[i] = at[i - 1] + s[i - 1].duration + s[i].buffer /\ at[i - 1] \in Int
      BY <1>1, <1>2, <2>3
    <3>2. i \in 1..n /\ s[i - 1].duration \in Nat /\ s[i].buffer \in Nat
      BY <2>1, <3>1
    <3>3. at[i] % E!Day = ((at[i - 1] % E!Day) + s[i - 1].duration + s[i].buffer) % E!Day
      BY <3>1, <3>2, ClockAdds
    <3> QED BY <2>1, <2>3, <3>1, <3>3
  <2> QED BY <2>2, <2>3
<1> HIDE DEF r, n, s
<1>8. E!Chained(r)
  BY <1>4, <1>7 DEF E!Chained
<1> QED BY <1>5, <1>8 DEF r, Follows

-----------------------------------------------------------------------------
(* A draft page: the sum of its parts                                      *)

\* _total_minutes, for agendas of any length.
LEMMA TotalIs ==
  ASSUME NEW a \in Pages
  PROVE  \E t \in [0..Len(a.segments) -> Int] :
           /\ t[0] = 0 /\ E!Total(a) = t[Len(a.segments)]
           /\ \A i \in 1..Len(a.segments) :
                t[i] = t[i - 1] + a.segments[i].duration + IF i > 1 THEN a.segments[i].buffer ELSE 0
<1> DEFINE s == a.segments
           n == Len(s)
           chunk == [i \in 1..n |-> s[i].duration + IF i > 1 THEN s[i].buffer ELSE 0]
           d == [i \in 1..(n + 1) |-> IF i = 1 THEN 0 ELSE chunk[i - 1]]
<1>1. s \in Seq(Parts) /\ n \in Nat /\ \A i \in 1..n : s[i] \in Parts
  BY DEF Pages
<1>2. \A i \in 1..n : s[i].duration \in Nat /\ s[i].buffer \in Nat
  <2> HIDE DEF s, n
  <2> QED BY <1>1 DEF Parts
<1>3. chunk \in [1..n -> Int]
  BY <1>1, <1>2
<1>4. d \in [1..(n + 1) -> Int] /\ n + 1 \in Nat
  <2> HIDE DEF chunk, n, s
  <2> QED BY <1>1, <1>3
<1>5. PICK g \in [1..(n + 1) -> Int] : Sums(g, n + 1, 0, d)
  <2> HIDE DEF d, n, s
  <2> QED BY <1>4, SumsExist
<1> DEFINE t0 == [i \in 0..n |-> g[i + 1]]
           Adds(f) == f = [i \in 0..n |-> IF i = 0 THEN 0
                             ELSE f[i - 1] + s[i].duration + IF i > 1 THEN s[i].buffer ELSE 0]
           t == CHOOSE f : Adds(f)
<1>6. t0 \in [0..n -> Int] /\ \A i \in 0..n : t0[i] = IF i = 0 THEN 0 ELSE t0[i - 1] + chunk[i]
  <2>1. t0 \in [0..n -> Int]
    <3> HIDE DEF d, n, s
    <3> QED BY <1>1, <1>5
  <2>2. \A i \in 1..(n + 1) : g[i] = IF i = 1 THEN 0 ELSE g[i - 1] + d[i]
    <3> HIDE DEF d, n, s
    <3> QED BY <1>5 DEF Sums
  <2>3. ASSUME NEW i \in 0..n PROVE t0[i] = IF i = 0 THEN 0 ELSE t0[i - 1] + chunk[i]
    <3> HIDE DEF chunk, n, s
    <3>1. i + 1 \in 1..(n + 1) /\ t0[i] = g[i + 1]
      BY <1>1
    <3>2. CASE i = 0
      BY <2>2, <3>1, <3>2
    <3>3. CASE i # 0
      <4>1. t0[i - 1] = g[i] /\ d[i + 1] = chunk[i] /\ g[i + 1] = g[i] + d[i + 1]
        BY <1>1, <2>2, <3>1, <3>3
      <4> QED BY <3>1, <3>3, <4>1
    <3> QED BY <3>2, <3>3
  <2> QED BY <2>1, <2>3
<1>7. ASSUME NEW x \in Int, NEW i \in 1..n
      PROVE  x + chunk[i] = x + s[i].duration + IF i > 1 THEN s[i].buffer ELSE 0
  BY <1>1, <1>2
<1> HIDE DEF d, t0, chunk
<1>8. Adds(t0)
  <2>1. \A i \in 0..n : t0[i] = IF i = 0 THEN 0
            ELSE t0[i - 1] + s[i].duration + IF i > 1 THEN s[i].buffer ELSE 0
    <3> TAKE i \in 0..n
    <3>1. i # 0 => i \in 1..n /\ t0[i - 1] \in Int
      BY <1>1, <1>6, SMTT(20)
    <3> HIDE DEF n, s
    <3> QED BY <1>6, <1>7, <3>1
  <2> HIDE DEF n, s
  <2> QED BY <1>6, <2>1
<1>9. Adds(t)
  BY <1>8
<1>10. t = t0
  <2> DEFINE Bad == {i \in 0..n : t[i] # t0[i]}
  <2>1. SUFFICES Bad = {}
    <3> SUFFICES ASSUME Bad = {} PROVE t = t0
      OBVIOUS
    <3>1. \A i \in 0..n : t[i] = t0[i]
      <4> HIDE DEF t, n, s
      <4> QED OBVIOUS
    <3>2. t0 = [i \in 0..n |-> t0[i]]
      <4> HIDE DEF t, n, s
      <4> QED BY <1>8
    <3>3. t = [i \in 0..n |-> t[i]]
      <4> HIDE DEF t, n, s, Bad
      <4> QED BY <1>9
    <3> HIDE DEF t, n, s, Bad, Adds
    <3> QED BY <3>1, <3>2, <3>3, Zenon
  <2>2. SUFFICES ASSUME Bad # {} PROVE FALSE
    OBVIOUS
  <2>3. PICK k \in Bad : \A j \in Bad : k <= j
    <3>1. Bad \in SUBSET Nat
      BY <1>1
    <3> HIDE DEF Bad
    <3> QED BY <2>2, <3>1, FirstOf
  <2>4. k \in 0..n /\ t[k] # t0[k] /\ (k # 0 => k - 1 \in 0..n /\ t[k - 1] = t0[k - 1])
    <3>1. k \in 0..n
      OBVIOUS
    <3>2. k # 0 => k - 1 \in 0..n /\ k - 1 \notin Bad
      <4> HIDE DEF Bad
      <4> QED BY <1>1, <2>3, <3>1
    <3> QED BY <3>1, <3>2
  <2> HIDE DEF Bad, t
  <2> QED BY <1>1, <1>8, <1>9, <2>4
<1>11. E!Total(a) = t[n]
  BY DEF E!Total
<1> HIDE DEF t, n, s
<1>12. /\ t0 \in [0..n -> Int] /\ t0[0] = 0 /\ E!Total(a) = t0[n]
       /\ \A i \in 1..n : t0[i] = t0[i - 1] + s[i].duration + IF i > 1 THEN s[i].buffer ELSE 0
  <2>1. 0 \in 0..n /\ \A i \in 1..n : i \in 0..n /\ i # 0
    BY <1>1
  <2> QED BY <1>6, <1>8, <1>10, <1>11, <2>1
<1> QED BY <1>12 DEF n, s

LEMMA NextEnds ==
  ASSUME NEW from \in Nat, NEW u \in Int, NEW v \in Int, NEW p \in Nat, NEW long \in Nat, NEW b \in Nat,
         NEW d \in Nat, NEW at, p + long = from + u, v = u + d + b, from + v < 1440,
         at = (p + long + b) % 1440
  PROVE  at + d = from + v
<1>1. p + long + b \in 0..1439
  OBVIOUS
<1>2. at = p + long + b
  BY <1>1
<1> QED BY <1>2

LEMMA EndsCompare ==
  ASSUME NEW from \in Int, NEW to \in Int, NEW sum \in Int
  PROVE  /\ from + sum > to <=> sum > to - from
         /\ from + sum > to => ~((to - from) - sum > 10)
<1>1. from + sum > to <=> sum > to - from
  OBVIOUS
<1>2. from + sum > to => ~((to - from) - sum > 10)
  OBVIOUS
<1> QED BY <1>1, <1>2

\* Overflow judges by the last segment's time, Underflow by the sum.  In an agenda of
\* any length whose segments follow each other, within a day, they agree.
Judged(a) ==
  /\ E!Overflow(a) <=> E!Total(a) > a.end - a.start
  /\ ~(E!Overflow(a) /\ E!Underflow(a))

LEMMA ChainedIsJudged ==
  ASSUME E!Setting, NEW a \in Pages, E!Chained(a), a.start # Absent, a.end # Absent, a.segments # <<>>,
         a.start + E!Total(a) < E!Day
  PROVE  Judged(a)
<1> DEFINE s == a.segments
           n == Len(s)
           st == a.start
           en == a.end
<1>1. s \in Seq(Parts) /\ n \in Nat /\ n # 0 /\ DOMAIN s = 1..n /\ \A i \in 1..n : s[i] \in Parts
  BY DEF Pages
<1>2. st \in Moments /\ en \in Moments /\ st + E!Total(a) < 1440
  BY DayIs DEF Pages, Clock, Moments
<1>3. PICK t \in [0..n -> Int] :
        /\ t[0] = 0 /\ E!Total(a) = t[n]
        /\ \A i \in 1..n : t[i] = t[i - 1] + s[i].duration + IF i > 1 THEN s[i].buffer ELSE 0
  BY TotalIs
<1> HIDE DEF s, n, st, en
<1>4. \A i \in 1..n : s[i].duration \in Nat /\ s[i].buffer \in Nat /\ s[i].start \in Nat
  <2> TAKE i \in 1..n
  <2>1. s[i] \in Parts
    BY <1>1
  <2>2. s[i].duration \in Nat /\ s[i].buffer \in Nat /\ s[i].start \in Moments
    BY <2>1 DEF Parts
  <2>4. s[i].start \in Nat
    BY <2>2, MomentsAre, Zenon
  <2> QED BY <2>2, <2>4
<1>11. \A i \in 1..n : s[i].start = IF i = 1 THEN E!Anchor(a) % E!Day
                        ELSE (s[i - 1].start + s[i - 1].duration + s[i].buffer) % E!Day
  BY <1>1 DEF E!Chained, s
<1>5. \A i \in 0..n : t[i] <= t[n]
  <2> DEFINE Bad == {k \in 0..n : t[n - k] > t[n]}
  <2>1. SUFFICES Bad = {}
    <3> TAKE i \in 0..n
    <3>1. n - i \in 0..n /\ n - (n - i) = i /\ n - i \notin Bad
      BY <1>1, <2>1
    <3> QED BY <1>1, <1>3, <3>1
  <2>2. SUFFICES ASSUME Bad # {} PROVE FALSE
    OBVIOUS
  <2>3. PICK k \in Bad : \A j \in Bad : k <= j
    <3>1. Bad \in SUBSET Nat
      BY <1>1
    <3> HIDE DEF Bad
    <3> QED BY <2>2, <3>1, FirstOf
  <2>4. k \in 0..n /\ t[n - k] > t[n] /\ k # 0
    BY <1>1, <1>3
  <2>5. k - 1 \in 0..n /\ k - 1 \notin Bad
    <3> HIDE DEF Bad
    <3> QED BY <1>1, <2>3, <2>4
  <2>6. n - k + 1 \in 1..n /\ n - (k - 1) = n - k + 1 /\ (n - k + 1) - 1 = n - k
    BY <1>1, <2>4
  <2>7. t[n - k + 1] <= t[n]
    BY <1>1, <1>3, <2>5, <2>6
  <2> HIDE DEF Bad
  <2>9. t[n - k] \in Int /\ t[n - k + 1] \in Int /\ t[n] \in Int
    BY <1>1, <1>3, <2>4, <2>6
  <2>8. t[n - k] <= t[n - k + 1]
    <3> DEFINE m == n - k + 1
    <3>1. m \in 1..n /\ t[m] = t[m - 1] + s[m].duration + IF m > 1 THEN s[m].buffer ELSE 0
      BY <1>3, <2>6
    <3>2. s[m].duration \in Nat /\ s[m].buffer \in Nat /\ t[m - 1] \in Int /\ t[m] \in Int
      BY <1>4, <2>6, <2>9, <3>1
    <3>3. t[m - 1] = t[n - k]
      BY <2>6
    <3> HIDE DEF m
    <3>4. t[m - 1] <= t[m]
      BY <3>1, <3>2
    <3> QED BY <3>3, <3>4 DEF m
  <2> QED BY <2>4, <2>7, <2>8, <2>9
<1>6. \A i \in 1..n : s[i].start + s[i].duration = st + t[i]
  <2> DEFINE Bad == {i \in 1..n : s[i].start + s[i].duration # st + t[i]}
  <2>1. SUFFICES ASSUME Bad # {} PROVE FALSE
    OBVIOUS
  <2>2. PICK k \in Bad : \A j \in Bad : k <= j
    <3>1. Bad \in SUBSET Nat
      BY <1>1
    <3> HIDE DEF Bad
    <3> QED BY <2>1, <3>1, FirstOf
  <2>3. k \in 1..n /\ s[k].start + s[k].duration # st + t[k]
    OBVIOUS
  <2>4. k # 1 => k - 1 \in 1..n /\ s[k - 1].start + s[k - 1].duration = st + t[k - 1]
    <3>1. k # 1 => k - 1 \in 1..n /\ k - 1 \notin Bad
      <4> HIDE DEF Bad
      <4> QED BY <1>1, <2>2, <2>3
    <3> QED BY <3>1
  <2> HIDE DEF Bad
  <2>5. t[k] \in Int /\ t[k] <= t[n] /\ t[k - 1] \in Int /\ st + t[k] < 1440
    <3>1. k \in 0..n /\ k - 1 \in 0..n /\ n \in 0..n
      BY <1>1, <2>3
    <3>2. t[k] \in Int /\ t[n] \in Int /\ t[k - 1] \in Int /\ t[k] <= t[n]
      BY <1>3, <1>5, <3>1
    <3>3. st + t[n] < 1440
      BY <1>2, <1>3
    <3>4. st \in Nat
      BY <1>2, MomentsAre
    <3> QED BY <3>2, <3>3, <3>4
  <2>6. s[k].start = IF k = 1 THEN st % 1440
                     ELSE (s[k - 1].start + s[k - 1].duration + s[k].buffer) % 1440
    BY <1>11, <2>3, DayIs DEF E!Anchor, st
  <2>7. t[k] = t[k - 1] + s[k].duration + IF k > 1 THEN s[k].buffer ELSE 0
    BY <1>3, <2>3
  <2>8. CASE k = 1
    <3>1. s[k].start = st /\ t[k] = s[k].duration
      <4>1. t[k] = t[0] + s[k].duration + 0 /\ s[k].duration \in Nat
        BY <1>4, <2>3, <2>7, <2>8
      <4>2. st % 1440 = st
        BY <1>2, MomentIsItsOwn
      <4> QED BY <1>3, <2>6, <2>8, <4>1, <4>2
    <3> QED BY <2>3, <3>1
  <2>9. CASE k # 1
    <3>1. s[k].start = (s[k - 1].start + s[k - 1].duration + s[k].buffer) % 1440
      BY <2>6, <2>9
    <3>2. k > 1 /\ t[k] = t[k - 1] + s[k].duration + s[k].buffer
      BY <2>3, <2>7, <2>9
    <3>3. s[k].duration \in Nat /\ s[k].buffer \in Nat
      BY <1>4, <2>3
    <3>4. k - 1 \in 1..n
      BY <2>4, <2>9
    <3>5. s[k - 1].start \in Nat /\ s[k - 1].duration \in Nat /\ st \in Nat
      <4> QED BY <1>2, <1>4, <3>4, MomentsAre, Zenon
    <3>6. s[k - 1].start + s[k - 1].duration = st + t[k - 1]
      BY <2>4, <2>9
    <3>7. t[k] \in Int /\ t[k - 1] \in Int /\ st + t[k] < 1440
      BY <2>5
    <3> DEFINE p == s[k - 1].start
               q == s[k - 1].duration
               b == s[k].buffer
               d == s[k].duration
               x == s[k].start
               u == t[k - 1]
               v == t[k]
    <3>8. /\ p \in Nat /\ q \in Nat /\ b \in Nat /\ d \in Nat /\ u \in Int /\ v \in Int
          /\ p + q = st + u /\ v = u + d + b /\ st + v < 1440 /\ x = (p + q + b) % 1440
      BY <3>1, <3>2, <3>3, <3>4, <3>5, <3>6, <3>7
    <3>9. x + d = st + v
      <4>1. st \in Nat
        BY <3>5
      <4> HIDE DEF p, q, b, d, x, u, v, st, s, n
      <4> QED BY <3>8, <4>1, NextEnds
    <3> QED BY <2>3, <3>9
  <2> QED BY <2>8, <2>9
<1>7. E!Last(s).start + E!Last(s).duration = st + E!Total(a) /\ E!Total(a) \in Int
  <2>1. E!Last(s) = s[n] /\ n \in 1..n
    BY <1>1 DEF E!Last, n
  <2> QED BY <1>3, <1>6, <2>1
<1>8. E!Overflow(a) <=> st + E!Total(a) > en
  BY <1>7 DEF E!Overflow, s, st, en
<1>9. E!Underflow(a) <=> (en - st) - E!Total(a) > 10
  BY DEF E!Underflow, st, en
<1>10. /\ st + E!Total(a) > en <=> E!Total(a) > en - st
       /\ st + E!Total(a) > en => ~((en - st) - E!Total(a) > 10)
  <2>1. st \in Int /\ en \in Int
    BY <1>2, MomentsAre
  <2> QED BY <1>7, <2>1, EndsCompare
<1> QED BY <1>8, <1>9, <1>10 DEF Judged, st, en

-----------------------------------------------------------------------------
(* A draft page: agendas that come whole                                   *)

LEMMA ChainedAlike ==
  ASSUME NEW a, NEW b, b.segments = a.segments, E!Anchor(b) = E!Anchor(a), E!Chained(a)
  PROVE  E!Chained(b)
BY DEF E!Chained

LEMMA PageIs ==
  ASSUME NEW no \in 0..1, NEW when \in Dates, NEW from \in Clock, NEW to \in Clock, NEW g \in BOOLEAN,
         NEW q \in Seq(Parts)
  PROVE  [no |-> no, when |-> when, start |-> from, end |-> to, given |-> g, segments |-> q] \in Pages
BY DEF Pages

LEMMA SourceIs ==
  ASSUME E!Setting, NEW m \in E!Sources
  PROVE  /\ m.start \in Moments /\ m.end = Absent /\ m.rows \in Seq({"speech"} \X DayTime \X Duration)
         /\ Len(m.rows) \in 1..2 /\ DOMAIN m.rows = 1..Len(m.rows)
         /\ \A i \in DOMAIN m.rows : /\ m.rows[i][1] = "speech" /\ m.rows[i][2] \in Moments
                                     /\ m.rows[i][3] \in Nat
<1>1. m.start \in DayTime /\ m.end = Absent
  BY DEF E!Sources
<1>2. PICK n \in 1..2 : m.rows \in [1..n -> {"speech"} \X DayTime \X Duration]
  BY DEF E!Sources
<1>3. \A i \in 1..n : m.rows[i] \in {"speech"} \X DayTime \X Duration
  BY <1>2
<1>4. \A i \in 1..n : m.rows[i][1] = "speech" /\ m.rows[i][2] \in DayTime /\ m.rows[i][3] \in Duration
  BY <1>3
<1>5. DayTime \subseteq Moments /\ Duration \subseteq Nat
  BY DayIs DEF E!Setting, Moments
<1>6. m.rows \in Seq({"speech"} \X DayTime \X Duration) /\ Len(m.rows) = n /\ DOMAIN m.rows = 1..n
  BY <1>2, SeqDef
<1>7. \A x \in DayTime : x \in Moments
  BY <1>5
<1>8. \A x \in Duration : x \in Nat
  BY <1>5
<1>9. \A i \in 1..n : m.rows[i][1] = "speech" /\ m.rows[i][2] \in Moments /\ m.rows[i][3] \in Nat
  BY <1>4, <1>7, <1>8, Zenon
<1>10. m.start \in Moments
  BY <1>1, <1>7, Zenon
<1> QED BY <1>1, <1>6, <1>9, <1>10, Zenon

\* The end of the row before: of two rows, the function itself.
LEMMA EndBeforeIs ==
  ASSUME E!Setting, NEW m \in E!Sources, NEW i \in DOMAIN m.rows
  PROVE  E!EndBefore(m, i) = IF i = 1 THEN m.start
                             ELSE IF m.rows[1][3] > 0 THEN m.rows[1][2] + m.rows[1][3] ELSE m.start
<1> DEFINE Ends(f) == f = [k \in 0..i |-> IF k = 0 THEN m.start
                             ELSE IF m.rows[k][3] > 0 THEN m.rows[k][2] + m.rows[k][3] ELSE f[k - 1]]
           end == CHOOSE f : Ends(f)
           one == IF m.rows[1][3] > 0 THEN m.rows[1][2] + m.rows[1][3] ELSE m.start
           two == IF m.rows[2][3] > 0 THEN m.rows[2][2] + m.rows[2][3] ELSE one
           g == [k \in 0..i |-> IF k = 0 THEN m.start ELSE IF k = 1 THEN one ELSE two]
<1>1. i \in 1..2
  BY SourceIs
<1>2. Ends(g)
  BY <1>1
<1>3. Ends(end)
  BY <1>2
<1>4. E!EndBefore(m, i) = end[i - 1]
  BY DEF E!EndBefore
<1> HIDE DEF end, g, two
<1>5. CASE i = 1
  BY <1>3, <1>4, <1>5
<1>6. CASE i = 2
  <2>1. end[0] = m.start /\ end[1] = IF m.rows[1][3] > 0 THEN m.rows[1][2] + m.rows[1][3] ELSE end[0]
    BY <1>3, <1>6
  <2> QED BY <1>4, <1>6, <2>1
<1> QED BY <1>1, <1>5, <1>6

Piece(type, from, long, b) == [E!Segment(type, from, long) EXCEPT !.buffer = b]

LEMMA SegmentIs ==
  ASSUME NEW type \in Kinds, NEW from \in Moments, NEW long \in Nat, NEW b \in Nat
  PROVE  /\ E!Segment(type, from, long) \in Parts
         /\ Piece(type, from, long, b) \in Parts
         /\ Piece(type, from, long, b).start = from
         /\ Piece(type, from, long, b).duration = long
         /\ Piece(type, from, long, b).buffer = b
<1> DEFINE Roles == RoleTaker \cup {NoOne}
           w == ""
<1>1. w \in Words /\ NoOne \in Roles /\ 0 \in Nat
  BY DEF Words
<1>2. E!Segment(type, from, long) = [type |-> type, start |-> from, duration |-> long, buffer |-> 0,
                                     role |-> NoOne, title |-> w, content |-> w]
  BY DEF E!Segment
<1>3. Parts = [type : Kinds, start : Moments, duration : Nat, buffer : Nat, role : Roles,
               title : Words, content : Words]
  BY DEF Parts
<1> HIDE DEF Roles, w
<1> DEFINE p == [type |-> type, start |-> from, duration |-> long, buffer |-> 0,
                 role |-> NoOne, title |-> w, content |-> w]
<1>4. p \in Parts
  BY <1>1, <1>3
<1>5. [p EXCEPT !.buffer = b] = [type |-> type, start |-> from, duration |-> long, buffer |-> b,
                                 role |-> NoOne, title |-> w, content |-> w]
  OBVIOUS
<1>6. [p EXCEPT !.buffer = b] \in Parts
  BY <1>1, <1>3, <1>5
<1>7. /\ [p EXCEPT !.buffer = b].start = from /\ [p EXCEPT !.buffer = b].duration = long
      /\ [p EXCEPT !.buffer = b].buffer = b
  BY <1>5
<1> HIDE DEF p
<1>9. E!Segment(type, from, long) = p
  BY <1>2 DEF p
<1>10. Piece(type, from, long, b) = [p EXCEPT !.buffer = b]
  BY <1>9, Zenon DEF Piece
<1> QED BY <1>4, <1>6, <1>7, <1>9, <1>10, Zenon

LEMMA PartRole ==
  ASSUME NEW p \in Parts, NEW r \in RoleTaker \cup {NoOne}
  PROVE  [p EXCEPT !.role = r] \in Parts
BY DEF Parts

\* meeting_to_agenda: if the rows are orderly, the buffers lead to their times.
LEMMA OldMeetingFollows ==
  ASSUME E!Setting, NEW m \in E!Sources, NEW no \in 0..1, NEW when \in Dates
  PROVE  LET a == E!MeetingToAgenda(m, no, when) IN
         /\ a \in Pages /\ a.given /\ a.start = m.start /\ (E!Orderly(m) => E!Chained(a))
<1> DEFINE a == E!MeetingToAgenda(m, no, when)
           n == Len(m.rows)
           gap(i) == E!Gap(E!EndBefore(m, i), m.rows[i][2])
           u == m.rows[1][2]
           d == m.rows[1][3]
           v == m.rows[2][2]
           from == m.start
<1>1. /\ from \in Moments /\ m.end = Absent /\ n \in 1..2 /\ DOMAIN m.rows = 1..n
      /\ \A i \in 1..n : m.rows[i][1] = "speech" /\ m.rows[i][2] \in Moments /\ m.rows[i][3] \in Nat
  BY SourceIs
<1>2. \A i \in 1..n : E!EndBefore(m, i) = IF i = 1 THEN from ELSE IF d > 0 THEN u + d ELSE from
  BY <1>1, EndBeforeIs
<1>3. u \in Moments /\ d \in Nat /\ from \in Nat
  <2>1. 1 \in 1..n
    <3>1. \A k \in 1..2 : 1 \in 1..k
      OBVIOUS
    <3> QED BY <1>1, <3>1, Zenon
  <2>2. \A x \in Moments : x \in Nat
    BY MomentsAre
  <2> QED BY <1>1, <2>1, <2>2, Zenon
<1>4. \A x \in Nat, y \in Nat : E!Gap(x, y) \in Nat
  BY DEF E!Gap
<1>5. \A i \in 1..n : gap(i) \in Nat
  <2> TAKE i \in 1..n
  <2>1. m.rows[i][2] \in Nat
    <3> QED BY <1>1, MomentsAre, Zenon
  <2> HIDE DEF from, d, u
  <2>2. E!EndBefore(m, i) \in Nat
    <3>1. u + d \in Nat
      <4>1. \A x \in Moments, y \in Nat : x + y \in Nat
        BY MomentsAre
      <4> QED BY <1>3, <4>1, Zenon
    <3> QED BY <1>2, <1>3, <3>1, Zenon
  <2> QED BY <1>4, <2>1, <2>2, Zenon
<1>6. a = [no |-> no, when |-> when, start |-> from, end |-> m.end, given |-> TRUE,
           segments |-> [i \in 1..n |->
             Piece(m.rows[i][1], m.rows[i][2], m.rows[i][3], gap(i))]]
  BY <1>1 DEF E!MeetingToAgenda, Piece
<1> HIDE DEF a, gap
<1>7. /\ a.no = no /\ a.when = when /\ a.start = from /\ a.end = m.end /\ a.given = TRUE
      /\ a.segments = [i \in 1..n |->
             Piece(m.rows[i][1], m.rows[i][2], m.rows[i][3], gap(i))]
  BY <1>6, Zenon
<1>8. \A i \in 1..n : /\ a.segments[i] \in Parts /\ a.segments[i].start = m.rows[i][2]
                      /\ a.segments[i].duration = m.rows[i][3] /\ a.segments[i].buffer = gap(i)
  <2> TAKE i \in 1..n
  <2>1. a.segments[i] = Piece(m.rows[i][1], m.rows[i][2], m.rows[i][3], gap(i))
    BY <1>7, Zenon
  <2>2. m.rows[i][1] \in Kinds /\ NoOne \in RoleTaker \cup {NoOne}
    BY <1>1, Zenon DEF Kinds
  <2>3. m.rows[i][2] \in Moments /\ m.rows[i][3] \in Nat /\ gap(i) \in Nat
    BY <1>1, <1>5, Zenon
  <2> DEFINE t == m.rows[i][1]
             x == m.rows[i][2]
             y == m.rows[i][3]
             z == gap(i)
  <2>4. t \in Kinds /\ x \in Moments /\ y \in Nat /\ z \in Nat
    BY <2>2, <2>3, Zenon
  <2> HIDE DEF t, x, y, z
  <2>5. /\ Piece(t, x, y, z) \in Parts
        /\ Piece(t, x, y, z).start = x
        /\ Piece(t, x, y, z).duration = y
        /\ Piece(t, x, y, z).buffer = z
    BY <2>4, SegmentIs, SMTT(30)
  <2> QED BY <2>1, <2>5, Zenon DEF t, x, y, z
<1>9. a.segments \in Seq(Parts) /\ DOMAIN a.segments = 1..n
  <2>1. DOMAIN a.segments = 1..n /\ a.segments = [i \in 1..n |-> a.segments[i]]
    BY <1>7, Zenon
  <2>2. a.segments \in [1..n -> Parts]
    BY <1>8, <2>1, Zenon
  <2>3. n \in Nat
    BY <1>1
  <2> HIDE DEF n
  <2> QED BY <2>1, <2>2, <2>3, SeqDef, Zenon
<1>10. a \in Pages
  <2>1. from \in Clock /\ m.end \in Clock
    BY <1>1, Zenon DEF Clock
  <2>2. a = [no |-> no, when |-> when, start |-> from, end |-> m.end, given |-> TRUE, segments |-> a.segments]
    BY <1>6, <1>7, Zenon
  <2>3. [no |-> no, when |-> when, start |-> from, end |-> m.end, given |-> TRUE, segments |-> a.segments] \in Pages
    <3>1. TRUE \in BOOLEAN
      OBVIOUS
    <3> HIDE DEF from
    <3> QED BY <1>9, <2>1, <3>1, PageIs, Zenon
  <2> QED BY <2>2, <2>3, Zenon
<1>11. ASSUME E!Orderly(m) PROVE E!Chained(a)
  <2>1. m.rows[1][2] = from /\ \A i \in 1..n : m.rows[i][3] > 0 /\ m.rows[i][2] >= E!EndBefore(m, i)
    BY <1>1, <1>11 DEF E!Orderly
  <2>2. E!Anchor(a) = from
    <3>1. from # Absent
      BY <1>3 DEF E!Setting
    <3> HIDE DEF from
    <3> QED BY <1>7, <3>1, Zenon DEF E!Anchor
  <2> SUFFICES ASSUME NEW i \in 1..n
               PROVE  a.segments[i].start = IF i = 1 THEN E!Anchor(a) % E!Day
                        ELSE (a.segments[i - 1].start + a.segments[i - 1].duration + a.segments[i].buffer) % E!Day
    BY <1>9, Zenon DEF E!Chained
  <2>3. CASE i = 1
    <3>1. a.segments[i].start = from
      BY <1>8, <2>1, <2>3, Zenon
    <3> HIDE DEF from
    <3>2. from % E!Day = from
      BY <1>1, MomentIsItsOwn
    <3>3. E!Anchor(a) % E!Day = from
      BY <2>2, <3>2, Zenon
    <3> QED BY <2>3, <3>1, <3>3, Zenon
  <2>4. CASE i = 2
    <3>1. 1 \in 1..n /\ 2 \in 1..n
      BY <1>1, <2>4
    <3>2. v \in Moments
      BY <1>1, <3>1, Zenon
    <3>3. d > 0
      BY <2>1, <3>1, Zenon
    <3>4. v >= E!EndBefore(m, 2) /\ E!EndBefore(m, 2) = IF 2 = 1 THEN from ELSE IF d > 0 THEN u + d ELSE from
      BY <1>2, <2>1, <3>1, Zenon
    <3>5. E!EndBefore(m, 2) = u + d
      <4> HIDE DEF u, d, from
      <4> QED BY <3>3, <3>4
    <3>6. /\ a.segments[1].start = u /\ a.segments[1].duration = d /\ a.segments[2].start = v
          /\ a.segments[2].buffer = E!Gap(u + d, v)
      BY <1>8, <3>1, <3>5, Zenon DEF gap
    <3> HIDE DEF u, d, v, from
    <3>7. u + d + E!Gap(u + d, v) = v
      BY <1>3, <3>2, <3>4, <3>5, MomentsAre DEF E!Gap
    <3>8. v = (u + d + E!Gap(u + d, v)) % E!Day
      BY <3>2, <3>7, MomentIsItsOwn
    <3>9. i - 1 = 1 /\ i # 1
      BY <2>4
    <3> QED BY <2>4, <3>6, <3>8, <3>9, Zenon
  <2> QED BY <1>1, <2>3, <2>4
<1> QED BY <1>7, <1>10, <1>11 DEF a

\* The agendas that may be shown, and those a turn is stored with.
Fines == {a \in Pages : Follows(a)}
Kepts == Fines \cup {Absent}

\* The rows of a template follow each other.
LEMMA RowsChain ==
  ASSUME NEW name \in E!Templates
  PROVE  /\ E!Rows(name) \in Seq(Kinds \X Moments \X Nat) /\ E!Rows(name)[1][2] = E!DefaultAnchor
         /\ \A i \in DOMAIN E!Rows(name) : i # 1 =>
              E!Rows(name)[i][2] = E!Rows(name)[i - 1][2] + E!Rows(name)[i - 1][3]
<1>1. CASE name = "custom"
  <2> DEFINE lines == << <<"custom", 1155, 15>> >>
  <2>1. E!Rows(name) = lines
    BY <1>1 DEF E!Rows
  <2>2. lines \in Seq(Kinds \X Moments \X Nat)
    BY DEF Kinds, Moments
  <2>3. lines[1][2] = 1155 /\ DOMAIN lines = {1}
    OBVIOUS
  <2> HIDE DEF lines
  <2> QED BY <2>1, <2>2, <2>3, DayIs
<1>2. CASE name # "custom"
  <2> DEFINE lines == << <<"fixed", 1155, 35>>, <<"session", 1190, 20>>, <<"speech", 1210, 7>>,
                        <<"speech", 1217, 7>>, <<"fixed", 1224, 51>> >>
  <2>1. E!Rows(name) = lines
    BY <1>2 DEF E!Rows
  <2>2. lines \in Seq(Kinds \X Moments \X Nat)
    BY DEF Kinds, Moments
  <2>3. lines[1][2] = 1155 /\ DOMAIN lines = 1..5
    OBVIOUS
  <2>4. /\ lines[2][2] = lines[1][2] + lines[1][3] /\ lines[3][2] = lines[2][2] + lines[2][3]
        /\ lines[4][2] = lines[3][2] + lines[3][3] /\ lines[5][2] = lines[4][2] + lines[4][3]
    OBVIOUS
  <2> HIDE DEF lines
  <2>5. \A i \in 1..5 : i # 1 => lines[i][2] = lines[i - 1][2] + lines[i - 1][3]
    <3> TAKE i \in 1..5
    <3>1. i \in {1, 2, 3, 4, 5}
      OBVIOUS
    <3> QED BY <2>4, <3>1
  <2> QED BY <2>1, <2>2, <2>3, <2>5, DayIs
<1> QED BY <1>1, <1>2

LEMMA PlainIs ==
  ASSUME NEW type \in Kinds, NEW from \in Moments, NEW long \in Nat
  PROVE  /\ E!Segment(type, from, long) \in Parts /\ E!Segment(type, from, long).start = from
         /\ E!Segment(type, from, long).duration = long /\ E!Segment(type, from, long).buffer = 0
<1> DEFINE Roles == RoleTaker \cup {NoOne}
           w == ""
           p == [type |-> type, start |-> from, duration |-> long, buffer |-> 0,
                 role |-> NoOne, title |-> w, content |-> w]
<1>1. E!Segment(type, from, long) = p
  BY DEF E!Segment
<1>2. w \in Words /\ NoOne \in Roles /\ 0 \in Nat
  BY DEF Words
<1>3. Parts = [type : Kinds, start : Moments, duration : Nat, buffer : Nat, role : Roles,
               title : Words, content : Words]
  BY DEF Parts
<1> HIDE DEF Roles, w
<1>4. p \in Parts /\ p.start = from /\ p.duration = long /\ p.buffer = 0
  BY <1>2, <1>3
<1> HIDE DEF p
<1> QED BY <1>1, <1>4

\* A template follows, with any number and date.
LEMMA TemplateFollows ==
  ASSUME E!Setting, NEW name \in E!Templates
  PROVE  E!Template(name) \in Fines
<1> DEFINE a == E!Template(name)
           lines == E!Rows(name)
           n == Len(lines)
<1>1. lines \in Seq(Kinds \X Moments \X Nat) /\ DOMAIN lines = 1..n /\ n \in Nat
  BY RowsChain
<1>2. \A i \in 1..n : lines[i] \in Kinds \X Moments \X Nat
  <2> HIDE DEF lines, n
  <2> QED BY <1>1
<1> HIDE DEF n
<1>3. \A i \in 1..n : lines[i][1] \in Kinds /\ lines[i][2] \in Moments /\ lines[i][3] \in Nat
  <2> HIDE DEF lines
  <2> QED BY <1>2
<1>4. lines[1][2] = 1155
  <2>1. lines[1][2] = E!DefaultAnchor
    BY RowsChain, Zenon
  <2> HIDE DEF lines
  <2> QED BY <2>1, DayIs
<1>11. \A i \in 1..n : i # 1 => lines[i][2] = lines[i - 1][2] + lines[i - 1][3]
  BY <1>1, RowsChain, Zenon
<1>5. a = [no |-> 0, when |-> "unset", start |-> E!DefaultAnchor, end |-> Absent, given |-> FALSE,
           segments |-> [i \in 1..n |-> E!Segment(lines[i][1], lines[i][2], lines[i][3])]]
  BY <1>1 DEF E!Template
<1> HIDE DEF a, lines
<1>6. /\ a.no = 0 /\ a.when = "unset" /\ a.start = E!DefaultAnchor /\ a.end = Absent /\ a.given = FALSE
      /\ a.segments = [i \in 1..n |-> E!Segment(lines[i][1], lines[i][2], lines[i][3])]
  BY <1>5, Zenon
<1>7. \A i \in 1..n : /\ a.segments[i] \in Parts /\ a.segments[i].start = lines[i][2]
                      /\ a.segments[i].duration = lines[i][3] /\ a.segments[i].buffer = 0
  <2> TAKE i \in 1..n
  <2>1. a.segments[i] = E!Segment(lines[i][1], lines[i][2], lines[i][3])
    BY <1>6, Zenon
  <2>2. lines[i][1] \in Kinds /\ lines[i][2] \in Moments /\ lines[i][3] \in Nat
    BY <1>3, Zenon
  <2> QED BY <2>1, <2>2, PlainIs
<1>8. a.segments \in Seq(Parts) /\ DOMAIN a.segments = 1..n
  <2>1. DOMAIN a.segments = 1..n /\ a.segments = [i \in 1..n |-> a.segments[i]]
    BY <1>6, Zenon
  <2>2. a.segments \in [1..n -> Parts]
    BY <1>7, <2>1, Zenon
  <2>3. n \in Nat
    BY <1>1, Zenon
  <2> QED BY <2>1, <2>2, <2>3, SeqDef
<1>9. a \in Pages
  <2>1. /\ 0 \in 0..1 /\ "unset" \in Dates /\ E!DefaultAnchor \in Clock /\ Absent \in Clock /\ FALSE \in BOOLEAN
    BY DayIs DEF Dates, Clock, Moments
  <2>2. a = [no |-> 0, when |-> "unset", start |-> E!DefaultAnchor, end |-> Absent, given |-> FALSE,
             segments |-> a.segments]
    BY <1>5, <1>6, Zenon
  <2>3. [no |-> 0, when |-> "unset", start |-> E!DefaultAnchor, end |-> Absent, given |-> FALSE,
         segments |-> a.segments] \in Pages
    BY <1>8, <2>1, PageIs, Zenon
  <2> QED BY <2>2, <2>3, Zenon
<1>10. E!Chained(a)
  <2>1. E!Anchor(a) = 1155
    BY <1>6, DayIs DEF E!Anchor, E!Setting
  <2> SUFFICES ASSUME NEW i \in 1..n
               PROVE  a.segments[i].start = IF i = 1 THEN E!Anchor(a) % E!Day
                        ELSE (a.segments[i - 1].start + a.segments[i - 1].duration + a.segments[i].buffer) % E!Day
    BY <1>8, Zenon DEF E!Chained
  <2>2. CASE i = 1
    <3>1. E!Anchor(a) % E!Day = 1155
      BY <2>1, DayIs
    <3> QED BY <1>4, <1>7, <2>2, <3>1
  <2>3. CASE i # 1
    <3>1. i - 1 \in 1..n
      BY <1>1, <2>3
    <3> DEFINE x == lines[i][2]
               y == lines[i - 1][2]
               z == lines[i - 1][3]
    <3>2. x = y + z /\ x \in Moments /\ y \in Nat /\ z \in Nat
      <4>1. x = y + z
        BY <1>11, <2>3, Zenon
      <4>2. x \in Moments /\ y \in Moments /\ z \in Nat
        BY <1>3, <3>1, Zenon
      <4> QED BY <4>1, <4>2, MomentsAre, Zenon
    <3>3. /\ a.segments[i].start = x /\ a.segments[i - 1].start = y /\ a.segments[i - 1].duration = z
          /\ a.segments[i].buffer = 0
      BY <1>7, <3>1, Zenon
    <3> HIDE DEF x, y, z
    <3>4. x = (y + z + 0) % E!Day
      BY <3>2, MomentIsItsOwn
    <3> QED BY <2>3, <3>3, <3>4, Zenon
  <2> QED BY <2>2, <2>3
<1> QED BY <1>6, <1>9, <1>10 DEF Fines, Follows, a

-----------------------------------------------------------------------------
(* A draft page: tools on a segment                                        *)

LEMMA PageSegments ==
  ASSUME NEW a \in Pages, NEW q \in Seq(Parts)
  PROVE  LET b == [a EXCEPT !.segments = q] IN
         b \in Pages /\ b.segments = q /\ b.given = a.given /\ b.start = a.start /\ b.end = a.end
BY DEF Pages

LEMMA OneReplaced ==
  ASSUME NEW s \in Seq(Parts), NEW i \in DOMAIN s, NEW p \in Parts
  PROVE  LET q == [s EXCEPT ![i] = p] IN
         q \in Seq(Parts) /\ DOMAIN q = DOMAIN s /\ q[i] = p /\ \A k \in DOMAIN s : k # i => q[k] = s[k]
<1> DEFINE q == [s EXCEPT ![i] = p]
<1>1. s \in [1..Len(s) -> Parts] /\ Len(s) \in Nat /\ DOMAIN s = 1..Len(s)
  BY SeqDef
<1>2. q \in [1..Len(s) -> Parts]
  BY <1>1
<1>3. q \in Seq(Parts)
  <2> HIDE DEF q
  <2> QED BY <1>1, <1>2, SeqDef
<1> QED BY <1>3

\* Whatever replaces a segment and keeps its time, duration and gap keeps the chain.
LEMMA SameTimes ==
  ASSUME NEW a \in Fines, NEW i \in DOMAIN a.segments, NEW p \in Parts,
         p.start = a.segments[i].start, p.duration = a.segments[i].duration,
         p.buffer = a.segments[i].buffer
  PROVE  [a EXCEPT !.segments = [a.segments EXCEPT ![i] = p]] \in Fines
<1> DEFINE s == a.segments
           q == [s EXCEPT ![i] = p]
           b == [a EXCEPT !.segments = q]
<1>1. a \in Pages /\ s \in Seq(Parts) /\ i \in DOMAIN s
  BY DEF Fines, Pages
<1>2. q \in Seq(Parts) /\ DOMAIN q = DOMAIN s /\ q[i] = p /\ \A k \in DOMAIN s : k # i => q[k] = s[k]
  <2> HIDE DEF s
  <2> QED BY <1>1, OneReplaced
<1>3. b \in Pages /\ b.segments = q /\ b.given = a.given /\ b.start = a.start
  <2> HIDE DEF q
  <2> QED BY <1>1, <1>2, PageSegments
<1>4. E!Anchor(b) = E!Anchor(a)
  BY <1>3, Zenon DEF E!Anchor
<1> HIDE DEF b, q, s
<1>5. \A k \in DOMAIN s : q[k].start = s[k].start /\ q[k].duration = s[k].duration /\ q[k].buffer = s[k].buffer
  BY <1>2, Zenon DEF s
<1>6. ASSUME E!Chained(a) PROVE E!Chained(b)
  <2> SUFFICES ASSUME NEW k \in DOMAIN s
               PROVE  q[k].start = IF k = 1 THEN E!Anchor(b) % E!Day
                        ELSE (q[k - 1].start + q[k - 1].duration + q[k].buffer) % E!Day
    BY <1>2, <1>3, Zenon DEF E!Chained
  <2>1. s[k].start = IF k = 1 THEN E!Anchor(a) % E!Day
                        ELSE (s[k - 1].start + s[k - 1].duration + s[k].buffer) % E!Day
    BY <1>6, Zenon DEF E!Chained, s
  <2>2. k # 1 => k - 1 \in DOMAIN s
    BY <1>1
  <2> QED BY <1>4, <1>5, <2>1, <2>2, Zenon
<1>7. Follows(a)
  BY DEF Fines
<1>8. Follows(b)
  BY <1>3, <1>6, <1>7, Zenon DEF Follows
<1>9. b \in Fines
  BY <1>3, <1>8, Zenon DEF Fines
<1> QED BY <1>9 DEF b, q, s

\* What With writes.
LEMMA WithIs ==
  ASSUME page \in Pages, NEW i \in DOMAIN page.segments, NEW v
  PROVE  LET Put(p) == [page EXCEPT !.segments = [page.segments EXCEPT ![i] = p]]
             p == page.segments[i] IN
         /\ E!With(i, "role", v) = Put([p EXCEPT !.role = v])
         /\ E!With(i, "type", v) = Put([p EXCEPT !.type = v])
         /\ E!With(i, "title", v) = Put([p EXCEPT !.title = v])
         /\ E!With(i, "content", v) = Put([p EXCEPT !.content = v])
         /\ E!With(i, "duration", v) = Put([p EXCEPT !.duration = v])
         /\ E!With(i, "buffer", v) = Put([p EXCEPT !.buffer = v])
BY DEF E!With

Roles == RoleTaker \cup {NoOne}

LEMMA PartFields ==
  ASSUME NEW p \in Parts
  PROVE  /\ \A r \in Roles : LET q == [p EXCEPT !.role = r] IN
              q \in Parts /\ q.start = p.start /\ q.duration = p.duration /\ q.buffer = p.buffer
         /\ \A k \in Kinds : LET q == [p EXCEPT !.type = k] IN
              q \in Parts /\ q.start = p.start /\ q.duration = p.duration /\ q.buffer = p.buffer
         /\ \A w \in Words : LET q == [p EXCEPT !.title = w] IN
              q \in Parts /\ q.start = p.start /\ q.duration = p.duration /\ q.buffer = p.buffer
         /\ \A w \in Words : LET q == [p EXCEPT !.content = w] IN
              q \in Parts /\ q.start = p.start /\ q.duration = p.duration /\ q.buffer = p.buffer
         /\ \A n \in Nat : [p EXCEPT !.duration = n] \in Parts /\ [p EXCEPT !.buffer = n] \in Parts
<1>1. Parts = [type : Kinds, start : Moments, duration : Nat, buffer : Nat, role : Roles,
               title : Words, content : Words]
  BY DEF Parts, Roles
<1> QED BY <1>1

\* A tool does its work, or refuses; which tool, and the page it leaves.
Called(tool) ==
  /\ E!InTurn /\ tool \in PageTools
  /\ \E ok \in BOOLEAN :
       turn' = [turn EXCEPT !.n = @ + 1, !.called = @ \cup {tool},
                            !.done = IF ok THEN @ \cup {tool} ELSE @]
  /\ UNCHANGED <<turns, listed, touched, saved, edits>>

EditCalled == \E tool : tool # "revert_last_turn" /\ Called(tool) /\ page' \in Fines

LEMMA CallEdits ==
  ASSUME page \in Fines, NEW tool, tool # "revert_last_turn", NEW allowed, NEW agenda,
         E!Call(tool, allowed, agenda), allowed => agenda \in Fines
  PROVE  EditCalled
<1>1. page' \in Fines
  BY DEF E!Call
<1> DEFINE ok == IF allowed THEN TRUE ELSE FALSE
<1>2. ok \in BOOLEAN
  OBVIOUS
<1>3. turn' = [turn EXCEPT !.n = @ + 1, !.called = @ \cup {tool},
                           !.done = IF ok THEN @ \cup {tool} ELSE @]
  BY DEF E!Call
<1> HIDE DEF ok
<1>4. Called(tool)
  BY <1>2, <1>3 DEF Called, E!Call
<1> QED BY <1>1, <1>4 DEF EditCalled

LEMMA SetRoleEdits ==
  ASSUME page \in Fines, NEW i, NEW r \in Roles, E!SetRole(i, r)
  PROVE  EditCalled
<1>1. E!Call("set_role", E!Known(i), E!With(i, "role", r))
  BY DEF E!SetRole
<1>2. ASSUME E!Known(i) PROVE E!With(i, "role", r) \in Fines
  <2> DEFINE p == page.segments[i]
             q == [p EXCEPT !.role = r]
  <2>1. i \in DOMAIN page.segments /\ page \in Pages /\ p \in Parts
    BY <1>2 DEF E!Known, Fines, Pages
  <2>2. q \in Parts /\ q.start = p.start /\ q.duration = p.duration /\ q.buffer = p.buffer
    <3> HIDE DEF p
    <3> QED BY <2>1, PartFields
  <2>3. E!With(i, "role", r) = [page EXCEPT !.segments = [page.segments EXCEPT ![i] = q]]
    BY <2>1, WithIs
  <2> HIDE DEF q
  <2> QED BY <2>1, <2>2, <2>3, SameTimes
<1> QED BY <1>1, <1>2, CallEdits

LEMMA SetTypeEdits ==
  ASSUME page \in Fines, NEW i, NEW type \in {"speech", "session"}, E!SetType(i, type)
  PROVE  EditCalled
<1>1. E!Call("set_type", E!Known(i), E!With(i, "type", type))
  BY DEF E!SetType
<1>2. ASSUME E!Known(i) PROVE E!With(i, "type", type) \in Fines
  <2> DEFINE p == page.segments[i]
             q == [p EXCEPT !.type = type]
  <2>1. i \in DOMAIN page.segments /\ page \in Pages /\ p \in Parts /\ type \in Kinds
    BY <1>2 DEF E!Known, Fines, Pages, Kinds
  <2>2. q \in Parts /\ q.start = p.start /\ q.duration = p.duration /\ q.buffer = p.buffer
    <3> HIDE DEF p
    <3> QED BY <2>1, PartFields
  <2>3. E!With(i, "type", type) = [page EXCEPT !.segments = [page.segments EXCEPT ![i] = q]]
    BY <2>1, WithIs
  <2> HIDE DEF q
  <2> QED BY <2>1, <2>2, <2>3, SameTimes
<1> QED BY <1>1, <1>2, CallEdits

LEMMA SetTextEdits ==
  ASSUME page \in Fines, NEW i, E!SetTitle(i) \/ E!SetContent(i)
  PROVE  EditCalled
<1> DEFINE p == page.segments[i]
           w == "new"
           q == [p EXCEPT !.title = w]
           c == [p EXCEPT !.content = w]
<1>1. ASSUME E!Known(i) PROVE E!With(i, "title", w) \in Fines /\ E!With(i, "content", w) \in Fines
  <2>1. i \in DOMAIN page.segments /\ page \in Pages /\ p \in Parts /\ w \in Words
    BY <1>1 DEF E!Known, Fines, Pages, Words
  <2> HIDE DEF w
  <2>2. /\ q \in Parts /\ q.start = p.start /\ q.duration = p.duration /\ q.buffer = p.buffer
        /\ c \in Parts /\ c.start = p.start /\ c.duration = p.duration /\ c.buffer = p.buffer
    <3> HIDE DEF p
    <3> QED BY <2>1, PartFields
  <2>3. /\ E!With(i, "title", w) = [page EXCEPT !.segments = [page.segments EXCEPT ![i] = q]]
        /\ E!With(i, "content", w) = [page EXCEPT !.segments = [page.segments EXCEPT ![i] = c]]
    BY <2>1, WithIs
  <2> HIDE DEF q, c
  <2> QED BY <2>1, <2>2, <2>3, SameTimes
<1>2. CASE E!SetTitle(i)
  <2>1. E!Call("set_title", E!Known(i) /\ E!CanEditTitle(page.segments[i].type), E!With(i, "title", w))
    BY <1>2 DEF E!SetTitle
  <2> HIDE DEF w
  <2> QED BY <1>1, <2>1, CallEdits
<1>3. CASE E!SetContent(i)
  <2>1. E!Call("set_content", E!Known(i) /\ E!CanEditContent(page.segments[i].type), E!With(i, "content", w))
    BY <1>3 DEF E!SetContent
  <2> HIDE DEF w
  <2> QED BY <1>1, <2>1, CallEdits
<1> QED BY <1>2, <1>3

-----------------------------------------------------------------------------
(* A draft page: tools that compute the times                              *)

LEMMA Recomputed ==
  ASSUME E!Setting, NEW a \in Pages
  PROVE  E!Recompute(a) \in Fines
BY RecomputeFollows DEF Fines

LEMMA NumberSet ==
  ASSUME E!Setting, page \in Fines, NEW i \in DOMAIN page.segments, NEW n \in Nat
  PROVE  E!Recompute(E!With(i, "duration", n)) \in Fines /\ E!Recompute(E!With(i, "buffer", n)) \in Fines
<1> DEFINE s == page.segments
           p == s[i]
           q == [p EXCEPT !.duration = n]
           b == [p EXCEPT !.buffer = n]
<1>1. s \in Seq(Parts) /\ i \in DOMAIN s /\ page \in Pages /\ p \in Parts
  BY DEF Fines, Pages
<1>2. q \in Parts /\ b \in Parts
  <2> HIDE DEF p
  <2> QED BY <1>1, PartFields
<1>3. [s EXCEPT ![i] = q] \in Seq(Parts) /\ [s EXCEPT ![i] = b] \in Seq(Parts)
  <2> HIDE DEF q, b, s
  <2> QED BY <1>1, <1>2, OneReplaced
<1>4. /\ E!With(i, "duration", n) = [page EXCEPT !.segments = [s EXCEPT ![i] = q]]
      /\ E!With(i, "buffer", n) = [page EXCEPT !.segments = [s EXCEPT ![i] = b]]
  BY <1>1, WithIs
<1> DEFINE qs == [s EXCEPT ![i] = q]
           bs == [s EXCEPT ![i] = b]
<1>5. [page EXCEPT !.segments = qs] \in Pages /\ [page EXCEPT !.segments = bs] \in Pages
  <2> HIDE DEF qs, bs
  <2> QED BY <1>1, <1>3, PageSegments DEF qs, bs
<1>6. E!With(i, "duration", n) \in Pages /\ E!With(i, "buffer", n) \in Pages
  BY <1>4, <1>5, Zenon
<1> QED BY <1>6, Recomputed

LEMMA SetNumberEdits ==
  ASSUME E!Setting, page \in Fines, NEW i, NEW d \in Duration,
         E!SetDuration(i, d) \/ E!SetBuffer(i, d)
  PROVE  EditCalled
<1>1. d \in Nat
  BY DEF E!Setting
<1>2. ASSUME E!Known(i)
      PROVE  E!Recompute(E!With(i, "duration", d)) \in Fines /\ E!Recompute(E!With(i, "buffer", d)) \in Fines
  BY <1>1, <1>2, NumberSet DEF E!Known
<1>3. CASE E!SetDuration(i, d)
  <2>1. E!Call("set_duration", d > 0 /\ E!Known(i), E!Recompute(E!With(i, "duration", d)))
    BY <1>3 DEF E!SetDuration
  <2> QED BY <1>2, <2>1, CallEdits
<1>4. CASE E!SetBuffer(i, d)
  <2>1. E!Call("set_buffer", d >= 0 /\ E!Known(i), E!Recompute(E!With(i, "buffer", d)))
    BY <1>4 DEF E!SetBuffer
  <2> QED BY <1>2, <2>1, CallEdits
<1> QED BY <1>3, <1>4

\* Earlier by no more than the gap there is.
LEMMA ShiftEdits ==
  ASSUME E!Setting, page \in Fines, NEW i, NEW delta \in Int, E!ShiftSegmentTime(i, delta)
  PROVE  EditCalled
<1> DEFINE b == page.segments[i].buffer
           ok == E!Known(i) /\ (delta < 0 => i # 1 /\ -delta <= b)
           a == IF delta = 0 THEN page ELSE E!Recompute(E!With(i, "buffer", b + delta))
<1>1. E!Call("shift_segment_time", ok, a)
  BY DEF E!ShiftSegmentTime
<1>2. ASSUME ok PROVE a \in Fines
  <2>1. i \in DOMAIN page.segments /\ page.segments[i] \in Parts
    BY <1>2 DEF E!Known, Fines, Pages
  <2>2. b \in Nat
    <3> DEFINE p == page.segments[i]
    <3>1. p \in Parts
      BY <2>1
    <3> HIDE DEF p
    <3>2. p.buffer \in Nat
      BY <3>1 DEF Parts
    <3> QED BY <3>2 DEF p
  <2>3. delta < 0 => -delta <= b
    BY <1>2
  <2> HIDE DEF b
  <2>4. b + delta \in Nat
    BY <2>2, <2>3
  <2>5. E!Recompute(E!With(i, "buffer", b + delta)) \in Fines
    BY <2>1, <2>4, NumberSet
  <2> QED BY <2>5
<1> HIDE DEF ok, a
<1> QED BY <1>1, <1>2, CallEdits

LEMMA SegmentsSet ==
  ASSUME E!Setting, page \in Fines, NEW q \in Seq(Parts)
  PROVE  E!Recompute(E!WithSegments(q)) \in Fines
<1>1. page \in Pages
  BY DEF Fines
<1>2. E!WithSegments(q) \in Pages
  BY <1>1, PageSegments DEF E!WithSegments
<1> QED BY <1>2, Recomputed

LEMMA Inserted ==
  ASSUME NEW s \in Seq(Parts), NEW i \in 1..(Len(s) + 1), NEW p \in Parts
  PROVE  E!InsertAt(s, i, p) \in Seq(Parts)
<1>1. Len(s) \in Nat /\ \A k \in 1..Len(s) : s[k] \in Parts
  BY LenProperties, ElementOfSeq
<1>2. SubSeq(s, 1, i - 1) \in Seq(Parts)
  <2>1. i - 1 \in Int /\ \A k \in 1..(i - 1) : s[k] \in Parts
    BY <1>1
  <2> QED BY <2>1, SubSeqProperties
<1>3. SubSeq(s, i, Len(s)) \in Seq(Parts)
  <2>1. i \in Int /\ Len(s) \in Int /\ \A k \in i..Len(s) : s[k] \in Parts
    BY <1>1
  <2> QED BY <2>1, SubSeqProperties
<1>4. <<p>> \in Seq(Parts)
  OBVIOUS
<1>5. SubSeq(s, 1, i - 1) \o <<p>> \in Seq(Parts)
  BY <1>2, <1>4, ConcatProperties
<1>6. (SubSeq(s, 1, i - 1) \o <<p>>) \o SubSeq(s, i, Len(s)) \in Seq(Parts)
  BY <1>3, <1>5, ConcatProperties
<1> QED BY <1>6 DEF E!InsertAt

LEMMA Removed ==
  ASSUME NEW s \in Seq(Parts), NEW i \in 1..Len(s)
  PROVE  E!RemoveAt(s, i) \in Seq(Parts) /\ Len(E!RemoveAt(s, i)) = Len(s) - 1
<1>1. Len(s) \in Nat /\ \A k \in 1..Len(s) : s[k] \in Parts
  BY LenProperties, ElementOfSeq
<1> DEFINE x == SubSeq(s, 1, i - 1)
           y == SubSeq(s, i + 1, Len(s))
<1>2. x \in Seq(Parts) /\ Len(x) = i - 1
  <2>1. i - 1 \in Int /\ 1 \in Int /\ \A k \in 1..(i - 1) : s[k] \in Parts
    BY <1>1
  <2>2. x \in Seq(Parts) /\ Len(x) = IF 1 <= i - 1 THEN (i - 1) - 1 + 1 ELSE 0
    BY <2>1, SubSeqProperties
  <2> HIDE DEF x
  <2> QED BY <2>1, <2>2, <1>1
<1>3. y \in Seq(Parts) /\ Len(y) = Len(s) - i
  <2>1. i + 1 \in Int /\ Len(s) \in Int /\ \A k \in (i + 1)..Len(s) : s[k] \in Parts
    BY <1>1
  <2>2. y \in Seq(Parts) /\ Len(y) = IF i + 1 <= Len(s) THEN Len(s) - (i + 1) + 1 ELSE 0
    BY <2>1, SubSeqProperties
  <2> HIDE DEF y
  <2> QED BY <2>1, <2>2, <1>1
<1>4. E!RemoveAt(s, i) = x \o y
  BY DEF E!RemoveAt
<1> HIDE DEF x, y
<1>5. x \o y \in Seq(Parts) /\ Len(x \o y) = Len(x) + Len(y)
  BY <1>2, <1>3, ConcatProperties
<1> QED BY <1>1, <1>2, <1>3, <1>4, <1>5

LEMMA AddSegmentEdits ==
  ASSUME E!Setting, page \in Fines, NEW i, NEW after \in BOOLEAN, NEW d \in Duration, E!AddSegment(i, after, d, NoOne)
  PROVE  EditCalled
<1> DEFINE s == page.segments
           at == IF after THEN i + 1 ELSE i
           p == [E!Segment("custom", 0, d) EXCEPT !.role = NoOne]
<1>1. E!Call("add_segment", d > 0 /\ E!Known(i), E!Recompute(E!WithSegments(E!InsertAt(s, at, p))))
  BY DEF E!AddSegment
<1>2. s \in Seq(Parts)
  BY DEF Fines, Pages
<1>3. p \in Parts
  <2> DEFINE z == 0
             k == "custom"
  <2>1. k \in Kinds /\ z \in Moments /\ d \in Nat /\ NoOne \in RoleTaker \cup {NoOne}
    BY DEF Kinds, Moments, E!Setting
  <2> HIDE DEF z, k
  <2>2. E!Segment(k, z, d) \in Parts
    BY <2>1, PlainIs
  <2>3. [E!Segment(k, z, d) EXCEPT !.role = NoOne] \in Parts
    BY <2>1, <2>2, PartRole
  <2> QED BY <2>3 DEF z, k
<1>4. ASSUME E!Known(i) PROVE E!Recompute(E!WithSegments(E!InsertAt(s, at, p))) \in Fines
  <2>1. i \in 1..Len(s) /\ Len(s) \in Nat
    BY <1>2, <1>4 DEF E!Known
  <2>2. at \in 1..(Len(s) + 1)
    BY <2>1
  <2>3. E!InsertAt(s, at, p) \in Seq(Parts)
    <3> HIDE DEF p, s, at
    <3> QED BY <1>2, <1>3, <2>2, Inserted
  <2> QED BY <2>3, SegmentsSet
<1> HIDE DEF p, at
<1> QED BY <1>1, <1>4, CallEdits

LEMMA RemoveSegmentEdits ==
  ASSUME E!Setting, page \in Fines, NEW i, E!RemoveSegment(i)
  PROVE  EditCalled
<1> DEFINE s == page.segments
<1>1. E!Call("remove_segment", E!Known(i), E!Recompute(E!WithSegments(E!RemoveAt(s, i))))
  BY DEF E!RemoveSegment
<1>2. s \in Seq(Parts)
  BY DEF Fines, Pages
<1>3. ASSUME E!Known(i) PROVE E!Recompute(E!WithSegments(E!RemoveAt(s, i))) \in Fines
  <2>1. i \in 1..Len(s)
    BY <1>2, <1>3 DEF E!Known
  <2>2. E!RemoveAt(s, i) \in Seq(Parts)
    <3> HIDE DEF s
    <3> QED BY <1>2, <2>1, Removed
  <2> QED BY <2>2, SegmentsSet
<1> QED BY <1>1, <1>3, CallEdits

LEMMA MoveSegmentEdits ==
  ASSUME E!Setting, page \in Fines, NEW i, NEW anchor, NEW after \in BOOLEAN, E!MoveSegment(i, anchor, after)
  PROVE  EditCalled
<1> DEFINE s == page.segments
           ok == E!Known(i) /\ E!Known(anchor) /\ i # anchor
           a == E!Recompute(E!WithSegments(E!Moved(i, anchor, after)))
<1>1. E!Call("move_segment", ok, a)
  BY DEF E!MoveSegment
<1>2. s \in Seq(Parts)
  BY DEF Fines, Pages
<1>3. ASSUME ok PROVE a \in Fines
  <2>1. i \in 1..Len(s) /\ anchor \in 1..Len(s) /\ i # anchor /\ Len(s) \in Nat
    BY <1>2, <1>3 DEF E!Known
  <2> DEFINE rest == E!RemoveAt(s, i)
             at == IF anchor > i THEN anchor - 1 ELSE anchor
             to == IF after THEN at + 1 ELSE at
             p == s[i]
  <2>2. rest \in Seq(Parts) /\ Len(rest) = Len(s) - 1 /\ p \in Parts
    <3> HIDE DEF s
    <3> QED BY <1>2, <2>1, Removed, ElementOfSeq
  <2>3. E!Moved(i, anchor, after) = E!InsertAt(rest, to, p)
    BY DEF E!Moved
  <2>4. to \in 1..(Len(rest) + 1)
    <3> HIDE DEF rest, s
    <3>1. at \in 1..Len(rest)
      BY <2>1, <2>2
    <3> QED BY <2>1, <2>2, <3>1
  <2>5. E!InsertAt(rest, to, p) \in Seq(Parts)
    <3> HIDE DEF rest, to, p
    <3> QED BY <2>2, <2>4, Inserted
  <2> HIDE DEF rest, to, p
  <2> QED BY <2>3, <2>5, SegmentsSet
<1> HIDE DEF ok, a
<1> QED BY <1>1, <1>3, CallEdits

LEMMA SwapEdits ==
  ASSUME E!Setting, page \in Fines, NEW i, NEW j, E!SwapRoles(i, j) \/ E!SwapTime(i, j)
  PROVE  EditCalled
<1> DEFINE s == page.segments
           ok == E!Known(i) /\ E!Known(j) /\ i # j
<1>1. s \in Seq(Parts) /\ page \in Pages
  BY DEF Fines, Pages
<1>2. ok => i \in DOMAIN s /\ j \in DOMAIN s /\ i # j /\ s[i] \in Parts /\ s[j] \in Parts
  BY <1>1 DEF E!Known
<1>3. CASE E!SwapTime(i, j)
  <2> DEFINE p == [s[j] EXCEPT !.buffer = s[i].buffer]
             q == [s[i] EXCEPT !.buffer = s[j].buffer]
  <2>1. E!Call("swap_time", ok, E!Recompute(E!WithSegments(E!Swapped(i, j))))
    BY <1>3 DEF E!SwapTime
  <2>2. ASSUME ok PROVE E!Recompute(E!WithSegments(E!Swapped(i, j))) \in Fines
    <3>1. s[i].buffer \in Nat /\ s[j].buffer \in Nat
      <4>1. \A x \in Parts : x.buffer \in Nat
        BY DEF Parts
      <4> HIDE DEF s
      <4> QED BY <1>2, <2>2, <4>1, Zenon
    <3>2. p \in Parts /\ q \in Parts
      <4> HIDE DEF s
      <4> QED BY <1>2, <2>2, <3>1, PartFields
    <3>3. E!Swapped(i, j) = [[s EXCEPT ![i] = p] EXCEPT ![j] = q]
      BY DEF E!Swapped
    <3> DEFINE t == [s EXCEPT ![i] = p]
    <3> HIDE DEF p, q, s
    <3>4. t \in Seq(Parts) /\ DOMAIN t = DOMAIN s
      BY <1>1, <1>2, <2>2, <3>2, OneReplaced
    <3> HIDE DEF t
    <3>5. [t EXCEPT ![j] = q] \in Seq(Parts)
      BY <1>2, <2>2, <3>2, <3>4, OneReplaced
    <3>6. E!Swapped(i, j) \in Seq(Parts)
      BY <3>3, <3>5, Zenon DEF t
    <3> QED BY <3>6, SegmentsSet
  <2> HIDE DEF ok
  <2> QED BY <2>1, <2>2, CallEdits
<1>4. CASE E!SwapRoles(i, j)
  <2> DEFINE p == [s[i] EXCEPT !.role = s[j].role]
             q == [s[j] EXCEPT !.role = s[i].role]
             a == [page EXCEPT !.segments[i].role = s[j].role, !.segments[j].role = s[i].role]
  <2>1. E!Call("swap_roles", ok, a)
    BY <1>4 DEF E!SwapRoles
  <2>2. ASSUME ok PROVE a \in Fines
    <3>1. s[i].role \in Roles /\ s[j].role \in Roles
      <4>1. \A x \in Parts : x.role \in Roles
        BY DEF Parts, Roles
      <4> HIDE DEF s
      <4> QED BY <1>2, <2>2, <4>1, Zenon
    <3>2. /\ p \in Parts /\ p.start = s[i].start /\ p.duration = s[i].duration /\ p.buffer = s[i].buffer
          /\ q \in Parts /\ q.start = s[j].start /\ q.duration = s[j].duration /\ q.buffer = s[j].buffer
      <4> HIDE DEF s
      <4> QED BY <1>2, <2>2, <3>1, PartFields
    <3> DEFINE t == [s EXCEPT ![i] = p]
               b == [page EXCEPT !.segments = t]
    <3>3. t \in Seq(Parts) /\ DOMAIN t = DOMAIN s /\ t[j] = s[j]
      <4> HIDE DEF p, s
      <4> QED BY <1>1, <1>2, <2>2, <3>2, OneReplaced
    <3>4. b \in Fines
      <4> HIDE DEF p
      <4> QED BY <1>2, <2>2, <3>2, SameTimes
    <3>5. b.segments = t
      <4> HIDE DEF t
      <4> QED BY <1>1, <3>3, PageSegments
    <3>6. [b EXCEPT !.segments = [b.segments EXCEPT ![j] = q]] \in Fines
      <4> HIDE DEF b, q, s, t
      <4> QED BY <1>2, <2>2, <3>2, <3>3, <3>4, <3>5, SameTimes
    <3>7. a = [page EXCEPT !.segments = [t EXCEPT ![j] = q]]
      BY <1>1, <1>2, <2>2, <3>3
    <3>8. [b EXCEPT !.segments = [b.segments EXCEPT ![j] = q]] = [page EXCEPT !.segments = [t EXCEPT ![j] = q]]
      <4> HIDE DEF q, t
      <4> QED BY <1>1, <3>5
    <3> QED BY <3>6, <3>7, <3>8, Zenon
  <2> HIDE DEF ok, a
  <2> QED BY <2>1, <2>2, CallEdits
<1> QED BY <1>3, <1>4

-----------------------------------------------------------------------------
(* A draft page: tools on the whole agenda                                 *)

LEMMA MetaEdits ==
  ASSUME E!Setting, page \in Fines, E!MetaTool
  PROVE  EditCalled
<1>1. page \in Pages /\ Follows(page)
  BY DEF Fines
<1>2. ASSUME NEW m \in DayTime \cup {Absent}, E!SetStart(m) \/ E!SetEnd(m)
      PROVE  EditCalled
  <2>1. m \in Clock
    BY DayIs DEF E!Setting, Clock, Moments
  <2>2. CASE E!SetStart(m)
    <3>1. [page EXCEPT !.start = m] \in Pages
      BY <1>1, <2>1 DEF Pages
    <3>2. E!Recompute([page EXCEPT !.start = m]) \in Fines
      BY <3>1, Recomputed
    <3>3. E!Call("set_start", TRUE, E!Recompute([page EXCEPT !.start = m]))
      BY <2>2 DEF E!SetStart
    <3> QED BY <3>2, <3>3, CallEdits
  <2>3. CASE E!SetEnd(m)
    <3> DEFINE b == [page EXCEPT !.end = m]
    <3>1. b \in Pages /\ b.segments = page.segments /\ b.start = page.start /\ b.given = page.given
      BY <1>1, <2>1 DEF Pages
    <3>2. E!Call("set_end", TRUE, b)
      BY <2>3 DEF E!SetEnd
    <3> HIDE DEF b
    <3>3. E!Anchor(b) = E!Anchor(page)
      BY <3>1, Zenon DEF E!Anchor
    <3>4. b \in Fines
      BY <1>1, <3>1, <3>3, ChainedAlike DEF Fines, Follows
    <3> QED BY <3>2, <3>4, CallEdits
  <2> QED BY <1>2, <2>2, <2>3
<1>3. ASSUME NEW n \in 0..1, E!SetNo(n) PROVE EditCalled
  <2> DEFINE b == [page EXCEPT !.no = n]
  <2>1. b \in Pages /\ b.segments = page.segments /\ b.start = page.start /\ b.given = page.given
    BY <1>1 DEF Pages
  <2>2. E!Call("set_no", TRUE, b)
    BY <1>3 DEF E!SetNo
  <2> HIDE DEF b
  <2>3. E!Anchor(b) = E!Anchor(page)
    BY <2>1, Zenon DEF E!Anchor
  <2>4. b \in Fines
    BY <1>1, <2>1, <2>3, ChainedAlike DEF Fines, Follows
  <2> QED BY <2>2, <2>4, CallEdits
<1>4. ASSUME NEW when \in Dates, E!SetDate(when) PROVE EditCalled
  <2> DEFINE b == [page EXCEPT !.when = when]
  <2>1. b \in Pages /\ b.segments = page.segments /\ b.start = page.start /\ b.given = page.given
    BY <1>1 DEF Pages
  <2>2. E!Call("set_date", TRUE, b)
    BY <1>4 DEF E!SetDate
  <2> HIDE DEF b
  <2>3. E!Anchor(b) = E!Anchor(page)
    BY <2>1, Zenon DEF E!Anchor
  <2>4. b \in Fines
    BY <1>1, <2>1, <2>3, ChainedAlike DEF Fines, Follows
  <2> QED BY <2>2, <2>4, CallEdits
<1> QED BY <1>2, <1>3, <1>4 DEF E!MetaTool, Dates

\* An agenda that comes whole, with any number and date, whose times the page trusts
\* only if they follow.
LEMMA WholeFollows ==
  ASSUME E!Setting, NEW m \in E!Sources, NEW no \in 0..1, NEW when \in Dates
  PROVE  [E!MeetingToAgenda(m, no, when) EXCEPT !.given = ~E!Orderly(m)] \in Fines
<1> DEFINE a == E!MeetingToAgenda(m, no, when)
           g == ~E!Orderly(m)
           b == [a EXCEPT !.given = g]
<1>1. a \in Pages /\ (E!Orderly(m) => E!Chained(a))
  BY OldMeetingFollows
<1>2. g \in BOOLEAN
  BY DEF E!Orderly
<1> HIDE DEF a, g
<1>3. b \in Pages /\ b.segments = a.segments /\ b.start = a.start /\ b.given = g
  BY <1>1, <1>2 DEF Pages
<1> HIDE DEF b
<1>4. E!Anchor(b) = E!Anchor(a)
  BY <1>3, Zenon DEF E!Anchor
<1>5. E!Chained(a) => E!Chained(b)
  BY <1>3, <1>4, ChainedAlike
<1>6. b \in Fines
  BY <1>1, <1>3, <1>5, Zenon DEF Fines, Follows, g
<1> QED BY <1>6 DEF b, a, g

LEMMA TextFollows ==
  ASSUME E!Setting, NEW m \in E!Sources, NEW mentioned
  PROVE  [E!MeetingToAgenda(m, 1, "ahead") EXCEPT
            !.no    = IF "no" \in mentioned THEN @ ELSE 0,
            !.when  = IF "date" \in mentioned THEN @ ELSE "unset",
            !.start = IF "start" \in mentioned THEN @ ELSE Absent,
            !.given = ~(E!Orderly(m) /\ ("start" \in mentioned \/ m.start = E!DefaultAnchor))] \in Fines
<1> DEFINE a == E!MeetingToAgenda(m, 1, "ahead")
           has(x) == x \in mentioned
           g == ~(E!Orderly(m) /\ (has("start") \/ m.start = E!DefaultAnchor))
           no == IF has("no") THEN a.no ELSE 0
           when == IF has("date") THEN a.when ELSE "unset"
           from == IF has("start") THEN a.start ELSE Absent
           b == [a EXCEPT !.no = no, !.when = when, !.start = from, !.given = g]
<1>1. a \in Pages /\ a.start = m.start /\ (E!Orderly(m) => E!Chained(a))
  <2>1. 1 \in 0..1 /\ "ahead" \in Dates
    BY DEF Dates
  <2> QED BY <2>1, OldMeetingFollows
<1>2. g \in BOOLEAN
  BY DEF E!Orderly
<1>3. a.no \in 0..1 /\ a.when \in Dates /\ a.start \in Clock
  <2> HIDE DEF a
  <2> QED BY <1>1 DEF Pages
<1>4. no \in 0..1 /\ when \in Dates /\ from \in Clock
  <2> HIDE DEF a
  <2>1. "unset" \in Dates /\ Absent \in Clock /\ 0 \in 0..1
    BY DEF Dates, Clock
  <2> QED BY <1>3, <2>1
<1>5. [a EXCEPT !.no    = IF "no" \in mentioned THEN @ ELSE 0,
                !.when  = IF "date" \in mentioned THEN @ ELSE "unset",
                !.start = IF "start" \in mentioned THEN @ ELSE Absent,
                !.given = ~(E!Orderly(m) /\ ("start" \in mentioned \/ m.start = E!DefaultAnchor))] = b
  <2> HIDE DEF a
  <2> QED BY <1>1 DEF Pages
<1> HIDE DEF a, g, no, when
<1>6. b \in Pages /\ b.segments = a.segments /\ b.start = from /\ b.given = g
  <2> HIDE DEF from
  <2> QED BY <1>1, <1>2, <1>4 DEF Pages
<1> HIDE DEF b
<1>7. ~g => E!Orderly(m) /\ (has("start") \/ m.start = E!DefaultAnchor)
  BY Zenon DEF g
<1>8. ~g => E!Anchor(b) = E!Anchor(a)
  <2>1. m.start # Absent
    <3>1. m.start \in Nat
      BY SourceIs, MomentsAre, Zenon
    <3> QED BY <3>1 DEF E!Setting
  <2>2. E!Anchor(a) = m.start
    BY <1>1, <2>1, Zenon DEF E!Anchor
  <2>3. ASSUME has("start") PROVE E!Anchor(b) = m.start
    BY <1>1, <1>6, <2>1, <2>3, Zenon DEF E!Anchor
  <2>4. ASSUME ~has("start"), m.start = E!DefaultAnchor PROVE E!Anchor(b) = m.start
    BY <1>6, <2>4, Zenon DEF E!Anchor
  <2> HIDE DEF has
  <2> QED BY <1>7, <2>2, <2>3, <2>4, Zenon
<1>9. ~g => E!Chained(b)
  BY <1>1, <1>6, <1>7, <1>8, ChainedAlike
<1>10. b \in Fines
  BY <1>6, <1>9, Zenon DEF Fines, Follows
<1> QED BY <1>5, <1>10 DEF a

LEMMA CreateEdits ==
  ASSUME E!Setting, page \in Fines, NEW m \in E!Sources, NEW mentioned, NEW image \in BOOLEAN,
         E!CreateFromText(m, mentioned) \/ E!CreateFromImage(m, image) \/ E!CloneFromMeeting(m)
  PROVE  EditCalled
<1>1. 1 \in 0..1 /\ 0 \in 0..1 /\ "ahead" \in Dates /\ "unset" \in Dates
  BY DEF Dates
<1>2. CASE E!CreateFromText(m, mentioned)
  <2> DEFINE b == [E!MeetingToAgenda(m, 1, "ahead") EXCEPT
                     !.no    = IF "no" \in mentioned THEN @ ELSE 0,
                     !.when  = IF "date" \in mentioned THEN @ ELSE "unset",
                     !.start = IF "start" \in mentioned THEN @ ELSE Absent,
                     !.given = ~(E!Orderly(m) /\ ("start" \in mentioned \/ m.start = E!DefaultAnchor))]
  <2>1. b \in Fines
    BY TextFollows
  <2>2. E!Call("create_from_text", TRUE, b)
    BY <1>2 DEF E!CreateFromText
  <2> HIDE DEF b
  <2> QED BY <2>1, <2>2, CallEdits
<1>3. CASE E!CreateFromImage(m, image)
  <2> DEFINE b == [E!MeetingToAgenda(m, 1, "ahead") EXCEPT !.given = ~E!Orderly(m)]
  <2>1. b \in Fines
    BY <1>1, WholeFollows
  <2>2. E!Call("create_from_image", image, b)
    BY <1>3 DEF E!CreateFromImage
  <2> HIDE DEF b
  <2> QED BY <2>1, <2>2, CallEdits
<1>4. CASE E!CloneFromMeeting(m)
  <2> DEFINE b == [E!MeetingToAgenda(m, 0, "unset") EXCEPT !.given = ~E!Orderly(m)]
  <2>1. b \in Fines
    BY <1>1, WholeFollows
  <2>2. E!Call("clone_from_meeting", E!SaysYes /\ E!RecentlyLookedUp, b)
    BY <1>4 DEF E!CloneFromMeeting
  <2> HIDE DEF b
  <2> QED BY <2>1, <2>2, CallEdits
<1> QED BY <1>2, <1>3, <1>4

LEMMA TemplateEdits ==
  ASSUME E!Setting, page \in Fines, NEW name \in E!Templates, E!CreateFromTemplate(name)
  PROVE  EditCalled
<1>1. E!Call("create_from_template", name \in E!Templates, E!Template(name))
  BY DEF E!CreateFromTemplate
<1>2. E!Template(name) \in Fines
  BY TemplateFollows
<1> QED BY <1>1, <1>2, CallEdits

LEMMA ReadEdits ==
  ASSUME page \in Fines, NEW tool \in {"lookup_meeting", "validate_agenda"}, E!Read(tool)
  PROVE  EditCalled
<1>1. E!Call(tool, TRUE, page) /\ tool # "revert_last_turn"
  BY DEF E!Read
<1> QED BY <1>1, CallEdits

LEMMA SegmentEdits ==
  ASSUME E!Setting, page \in Fines, NEW i, E!SegmentTool(i)
  PROVE  EditCalled
<1>1. CASE \E r \in RoleTaker \cup {NoOne} : E!SetRole(i, r)
  BY <1>1, SetRoleEdits DEF Roles
<1>2. CASE \E type \in {"speech", "session"} : E!SetType(i, type)
  BY <1>2, SetTypeEdits
<1>3. CASE E!SetTitle(i) \/ E!SetContent(i)
  BY <1>3, SetTextEdits
<1>4. CASE E!RemoveSegment(i)
  BY <1>4, RemoveSegmentEdits
<1>5. ASSUME NEW d \in Duration,
             \/ E!SetDuration(i, d) \/ E!SetBuffer(i, d)
             \/ E!ShiftSegmentTime(i, d) \/ E!ShiftSegmentTime(i, -d)
      PROVE  EditCalled
  <2>1. d \in Int /\ -d \in Int
    BY DEF E!Setting
  <2> QED BY <1>5, <2>1, SetNumberEdits, ShiftEdits
<1>6. ASSUME NEW after \in BOOLEAN, NEW d \in Duration, E!AddSegment(i, after, d, NoOne)
      PROVE  EditCalled
  BY <1>6, AddSegmentEdits
<1>7. ASSUME NEW j, \/ E!SwapRoles(i, j) \/ E!SwapTime(i, j)
                    \/ \E after \in BOOLEAN : E!MoveSegment(i, j, after)
      PROVE  EditCalled
  BY <1>7, SwapEdits, MoveSegmentEdits
<1> QED BY <1>1, <1>2, <1>3, <1>4, <1>5, <1>6, <1>7 DEF E!SegmentTool

-----------------------------------------------------------------------------
(* A draft page: its conversation                                          *)

\* A turn as it is stored, and the one that runs.
Stored  == [called : SUBSET PageTools, done : SUBSET PageTools, preview : BOOLEAN,
            before : Kepts, after : Kepts, edited : BOOLEAN]
Running == [says : Says \cup {{}}, called : SUBSET PageTools, done : SUBSET PageTools, n : Nat,
            preview : BOOLEAN, before : Kepts, edited : BOOLEAN]

\* The undo went by the last turn that meant something: what it left is the agenda
\* before that turn, an edit.
TakesBack(q, m, n, a) ==
  /\ m \in 1..n /\ E!Kind(q[m]) = "edit" /\ a = q[m].before
  /\ \A k \in (m + 1)..n : E!Kind(q[k]) = "chit-chat"

OnlyUndo(t) == t.called = {"revert_last_turn"} /\ t.done = t.called

\* Types, and the agendas of the page and of the turns.
PageTypes ==
  /\ page \in Fines /\ turns \in Seq(Stored) /\ turn \in Running
  /\ listed \in {"none", "ahead", "past"} /\ touched \in BOOLEAN
  /\ turn.done \subseteq turn.called
  /\ E!InTurn => turn.before \in Fines /\ turn.edited = touched
  /\ \A s \in 1..Len(turns) : /\ turns[s].done \subseteq turns[s].called
                              /\ turns[s].called # {} => turns[s].before \in Fines

UndosTakeBack ==
  /\ OnlyUndo(turn) => \E m \in 1..Len(turns) : TakesBack(turns, m, Len(turns), page)
  /\ \A s \in 1..Len(turns) : OnlyUndo(turns[s]) =>
       \E m \in 1..(s - 1) : TakesBack(turns, m, s - 1, turns[s].after)

\* What the turn that runs, or the next one, began with.
Began == IF E!InTurn THEN turn.before ELSE page

\* An agenda that was shown is still there, unless something is known to have changed it.
ShownRemains ==
  /\ ~touched /\ turns # <<>> /\ turns[Len(turns)].preview => turns[Len(turns)].after = Began
  /\ \A s \in 2..Len(turns) :
       turns[s - 1].preview /\ ~turns[s].edited /\ turns[s].before # Absent =>
         turns[s].before = turns[s - 1].after

PageInv == PageTypes /\ UndosTakeBack /\ ShownRemains /\ E!SavedIsWhatWasShown

LEMMA NoTurnIs ==
  /\ E!NoTurn.called = {} /\ E!NoTurn.done = {} /\ E!NoTurn.n = 0 /\ E!NoTurn \in Running
<1>1. Absent \in Kepts /\ {} \in Says \cup {{}} /\ 0 \in Nat
  BY DEF Kepts
<1> QED BY <1>1 DEF E!NoTurn, Running

LEMMA PageInit ==
  ASSUME E!Setting, E!Init
  PROVE  PageInv
<1>1. page \in Fines
  <2>1. E!Template("custom") \in Fines /\ "custom" \in E!Templates
    BY TemplateFollows DEF E!Templates
  <2>2. CASE page = E!Template("custom")
    BY <2>1, <2>2
  <2>3. CASE page = [E!Template("custom") EXCEPT !.no = 1, !.when = "ahead"]
    <3> DEFINE a == E!Template("custom")
               w == "ahead"
               n == 1
               b == [a EXCEPT !.no = n, !.when = w]
    <3>1. a \in Pages /\ Follows(a) /\ w \in Dates /\ n \in 0..1
      BY <2>1 DEF Fines, Dates
    <3> HIDE DEF a, w, n
    <3>2. b \in Pages /\ b.segments = a.segments /\ b.start = a.start /\ b.given = a.given
      BY <3>1 DEF Pages
    <3> HIDE DEF b
    <3>3. E!Anchor(b) = E!Anchor(a)
      BY <3>2, Zenon DEF E!Anchor
    <3>4. b \in Fines
      BY <3>1, <3>2, <3>3, ChainedAlike DEF Fines, Follows
    <3> QED BY <2>3, <3>4 DEF b, a, w, n
  <2> QED BY <2>2, <2>3 DEF E!Init
<1>2. /\ turns = <<>> /\ turn = E!NoTurn /\ listed \in {"none", "ahead", "past"} /\ touched = FALSE
      /\ saved = E!Nothing
  BY DEF E!Init
<1>3. turns \in Seq(Stored) /\ Len(turns) = 0
  BY <1>2
<1>4. PageTypes
  <2>1. \A s \in 1..Len(turns) : FALSE
    BY <1>3
  <2>2. touched \in BOOLEAN /\ ~E!InTurn
    BY <1>2 DEF E!InTurn
  <2>3. turn \in Running /\ turn.done \subseteq turn.called
    BY <1>2, NoTurnIs
  <2> QED BY <1>1, <1>2, <1>3, <2>1, <2>2, <2>3, Zenon DEF PageTypes
<1>5. UndosTakeBack
  BY <1>2, <1>3, NoTurnIs DEF UndosTakeBack, OnlyUndo
<1>6. ShownRemains
  BY <1>2, <1>3 DEF ShownRemains
<1>7. E!SavedIsWhatWasShown
  BY <1>2 DEF E!SavedIsWhatWasShown, E!Nothing
<1> QED BY <1>4, <1>5, <1>6, <1>7 DEF PageInv

\* What a call leaves of the turn that runs.
LEMMA CalledTurn ==
  ASSUME PageTypes, NEW tool, Called(tool)
  PROVE  /\ turn' \in Running /\ turn'.done \subseteq turn'.called /\ E!InTurn /\ E!InTurn'
         /\ turn'.called = turn.called \cup {tool} /\ turn'.before = turn.before
         /\ turn'.edited = turn.edited /\ turn'.preview = turn.preview
         /\ turn'.done \in {turn.done, turn.done \cup {tool}}
<1>1. turn \in Running /\ turn.done \subseteq turn.called /\ tool \in PageTools
  BY DEF PageTypes, Called
<1>2. PICK ok \in BOOLEAN : turn' = [turn EXCEPT !.n = @ + 1, !.called = @ \cup {tool},
                                                 !.done = IF ok THEN @ \cup {tool} ELSE @]
  BY DEF Called
<1>3. turn'.n = turn.n + 1 /\ turn.n \in Nat
  BY <1>1, <1>2 DEF Running
<1>4. turn' # E!NoTurn
  BY <1>3, NoTurnIs
<1>5. turn' \in Running
  <2> DEFINE Sets == SUBSET PageTools
             Saids == Says \cup {{}}
             next == turn.n + 1
             c == turn.called \cup {tool}
             d == IF ok THEN turn.done \cup {tool} ELSE turn.done
  <2>1. Running = [says : Saids, called : Sets, done : Sets, n : Nat, preview : BOOLEAN,
                   before : Kepts, edited : BOOLEAN]
    BY DEF Running
  <2>2. turn.called \subseteq PageTools /\ turn.done \subseteq PageTools
    BY <1>1 DEF Running
  <2>3. c \in Sets /\ d \in Sets
    BY <1>1, <2>2
  <2>5. next \in Nat
    BY <1>3
  <2>4. turn' = [turn EXCEPT !.n = next, !.called = c, !.done = d]
    BY <1>2
  <2> HIDE DEF Sets, Saids, c, d, next
  <2>6. turn \in Running
    BY <1>1
  <2>7. [turn EXCEPT !.n = next, !.called = c, !.done = d] \in Running
    BY <2>1, <2>3, <2>5, <2>6
  <2> QED BY <2>4, <2>7
<1>6. /\ turn'.called = turn.called \cup {tool} /\ turn'.before = turn.before
      /\ turn'.edited = turn.edited /\ turn'.preview = turn.preview
      /\ turn'.done = IF ok THEN turn.done \cup {tool} ELSE turn.done
  BY <1>1, <1>2 DEF Running
<1>7. E!InTurn
  BY DEF Called
<1> QED BY <1>1, <1>4, <1>5, <1>6, <1>7 DEF E!InTurn

\* Most tools: the agenda they leave may be shown, and the turn is no undo.
LEMMA EditCalledKeeps ==
  ASSUME PageInv, EditCalled
  PROVE  PageInv'
<1>1. PICK tool : tool # "revert_last_turn" /\ Called(tool) /\ page' \in Fines
  BY DEF EditCalled
<1>2. PageTypes
  BY DEF PageInv
<1>3. UNCHANGED <<turns, listed, touched, saved, edits>>
  BY <1>1 DEF Called
<1>4. /\ turn' \in Running /\ turn'.done \subseteq turn'.called /\ E!InTurn /\ E!InTurn'
      /\ turn'.called = turn.called \cup {tool} /\ turn'.before = turn.before
      /\ turn'.edited = turn.edited
  BY <1>1, <1>2, CalledTurn
<1>5. PageTypes'
  BY <1>1, <1>2, <1>3, <1>4 DEF PageTypes
<1>6. UndosTakeBack'
  <2>1. ~OnlyUndo(turn)'
    BY <1>1, <1>4 DEF OnlyUndo
  <2>2. ASSUME NEW s \in 1..Len(turns), OnlyUndo(turns[s])
        PROVE  \E m \in 1..(s - 1) : TakesBack(turns, m, s - 1, turns[s].after)
    BY <2>2 DEF PageInv, UndosTakeBack
  <2> QED BY <1>3, <2>1, <2>2 DEF UndosTakeBack, TakesBack, OnlyUndo
<1>7. ShownRemains'
  BY <1>3, <1>4 DEF PageInv, ShownRemains, Began
<1>8. E!SavedIsWhatWasShown'
  BY <1>3 DEF PageInv, E!SavedIsWhatWasShown
<1> QED BY <1>5, <1>6, <1>7, <1>8 DEF PageInv

\* The last turn that meant something.
LEMMA LastMeaningful ==
  ASSUME PageTypes, E!Meaningful # {}
  PROVE  /\ E!Max(E!Meaningful) \in 1..Len(turns)
         /\ E!Max(E!Meaningful) \in E!Meaningful
         /\ \A k \in (E!Max(E!Meaningful) + 1)..Len(turns) : E!Kind(turns[k]) = "chit-chat"
<1> DEFINE S == E!Meaningful
           n == Len(turns)
           m == E!Max(S)
<1>1. S \subseteq 1..n /\ n \in Nat /\ DOMAIN turns = 1..n /\ S # {}
  BY DEF PageTypes, E!Meaningful
<1> HIDE DEF S, n
<1>2. \E x \in S : \A y \in S : x >= y
  <2> DEFINE D == {n - x : x \in S}
  <2>1. D \in SUBSET Nat /\ D # {}
    <3>1. \A x \in 1..n : n - x \in Nat
      BY <1>1
    <3>2. \A x \in S : n - x \in Nat
      BY <1>1, <3>1, Zenon
    <3>3. D \subseteq Nat
      BY <3>2
    <3>4. D # {}
      BY <1>1
    <3> QED BY <3>3, <3>4
  <2> HIDE DEF D
  <2>2. PICK d \in D : \A e \in D : d <= e
    BY <2>1, FirstOf
  <2>3. PICK x \in S : d = n - x
    BY <2>2 DEF D
  <2>4. ASSUME NEW y \in S PROVE x >= y
    <3>1. n - y \in D
      BY DEF D
    <3>2. n - x <= n - y
      BY <2>2, <2>3, <3>1
    <3>3. x \in 1..n /\ y \in 1..n
      BY <1>1
    <3> QED BY <1>1, <3>2, <3>3
  <2> QED BY <2>4
<1>3. m \in S /\ \A y \in S : m >= y
  BY <1>2 DEF E!Max
<1> HIDE DEF m
<1>4. ASSUME NEW k \in (m + 1)..n PROVE E!Kind(turns[k]) = "chit-chat"
  <2>1. k \in 1..n /\ ~(m >= k)
    BY <1>1, <1>3
  <2>2. k \notin S
    BY <1>3, <2>1
  <2> QED BY <1>1, <2>1, <2>2 DEF S, E!Meaningful
<1> QED BY <1>1, <1>3, <1>4 DEF S, m, n

LEMMA KindIs == \A t : E!Kind(t) = "edit" => t.called # {}
BY DEF E!Kind

\* The undo: it goes by the last turn that meant something, if that was an edit.
LEMMA RevertLastKeeps ==
  ASSUME PageInv, E!RevertLastTurn
  PROVE  PageInv'
<1> DEFINE m == E!Max(E!Meaningful)
           n == Len(turns)
           ok == E!Meaningful # {} /\ E!Kind(turns[m]) = "edit"
           u == "revert_last_turn"
<1>1. E!Call(u, ok, turns[m].before)
  BY DEF E!RevertLastTurn
<1> HIDE DEF ok, u
<1>2. PageTypes
  BY DEF PageInv
<1>3. page' = IF ok THEN turns[m].before ELSE page
  BY <1>1, Zenon DEF E!Call
<1>4. Called(u)
  <2> DEFINE good == IF ok THEN TRUE ELSE FALSE
  <2>1. good \in BOOLEAN
    OBVIOUS
  <2>2. turn' = [turn EXCEPT !.n = @ + 1, !.called = @ \cup {u},
                             !.done = IF good THEN @ \cup {u} ELSE @]
    BY <1>1 DEF E!Call
  <2> HIDE DEF good
  <2> QED BY <1>1, <2>1, <2>2 DEF Called, E!Call
<1>5. UNCHANGED <<turns, listed, touched, saved, edits>>
  BY <1>4 DEF Called
<1>6. /\ turn' \in Running /\ turn'.done \subseteq turn'.called /\ E!InTurn /\ E!InTurn'
      /\ turn'.called = turn.called \cup {u} /\ turn'.before = turn.before
      /\ turn'.edited = turn.edited /\ turn'.done \in {turn.done, turn.done \cup {u}}
  BY <1>2, <1>4, CalledTurn
<1>7. ASSUME ok PROVE m \in 1..n /\ TakesBack(turns, m, n, turns[m].before) /\ turns[m].before \in Fines
  <2>1. E!Meaningful # {} /\ E!Kind(turns[m]) = "edit"
    BY <1>7 DEF ok
  <2>2. m \in 1..n /\ \A k \in (m + 1)..n : E!Kind(turns[k]) = "chit-chat"
    BY <1>2, <2>1, LastMeaningful
  <2>3. turns[m].called # {}
    BY <2>1, KindIs
  <2> QED BY <1>2, <2>1, <2>2, <2>3 DEF TakesBack, PageTypes
<1> HIDE DEF m, n
<1>8. page' \in Fines
  BY <1>2, <1>3, <1>7 DEF PageTypes
<1>9. PageTypes'
  BY <1>2, <1>5, <1>6, <1>8 DEF PageTypes
<1>10. UndosTakeBack'
  <2>1. ASSUME OnlyUndo(turn)' PROVE \E j \in 1..n : TakesBack(turns, j, n, page')
    <3>1. CASE ok
      BY <1>3, <1>7, <3>1
    <3>2. CASE ~ok
      <4>1. turn' = [turn EXCEPT !.n = @ + 1, !.called = @ \cup {u}, !.done = @]
        BY <1>1, <3>2 DEF E!Call
      <4>2. turn'.done = turn.done
        BY <1>2, <4>1 DEF PageTypes, Running
      <4>3. turn'.called = {u} /\ turn'.done = {u}
        BY <2>1 DEF OnlyUndo, u
      <4>4. turn.done \subseteq turn.called /\ turn.called \subseteq turn'.called
        BY <1>2, <1>6 DEF PageTypes
      <4>5. OnlyUndo(turn)
        BY <4>2, <4>3, <4>4 DEF OnlyUndo, u
      <4>6. page' = page
        BY <1>3, <3>2
      <4> QED BY <4>5, <4>6 DEF PageInv, UndosTakeBack, n
    <3> QED BY <3>1, <3>2
  <2>2. ASSUME NEW s \in 1..Len(turns), OnlyUndo(turns[s])
        PROVE  \E j \in 1..(s - 1) : TakesBack(turns, j, s - 1, turns[s].after)
    BY <2>2 DEF PageInv, UndosTakeBack
  <2> QED BY <1>5, <2>1, <2>2 DEF UndosTakeBack, TakesBack, OnlyUndo, n
<1>11. ShownRemains'
  BY <1>5, <1>6 DEF PageInv, ShownRemains, Began
<1>12. E!SavedIsWhatWasShown'
  BY <1>5 DEF PageInv, E!SavedIsWhatWasShown
<1> QED BY <1>9, <1>10, <1>11, <1>12 DEF PageInv

LEMMA RevertToEdits ==
  ASSUME PageInv, NEW n \in 0..Len(turns), E!RevertToTurn(n)
  PROVE  EditCalled
<1> DEFINE state == IF n = 0 THEN turns[1].before ELSE turns[n].after
           ok == turns # <<>> /\ n <= Len(turns) /\ state # Absent
           u == "revert_to_turn"
<1>1. E!Call(u, ok, state) /\ u # "revert_last_turn"
  BY DEF E!RevertToTurn, E!NoAgenda
<1>2. page \in Fines /\ turns \in Seq(Stored)
  BY DEF PageInv, PageTypes
<1>3. ASSUME ok PROVE state \in Fines
  <2>1. Len(turns) \in Nat /\ Len(turns) # 0
    BY <1>2, <1>3
  <2>2. (IF n = 0 THEN 1 ELSE n) \in 1..Len(turns)
    BY <2>1
  <2>3. \A k \in 1..Len(turns) : turns[k] \in Stored
    BY <1>2
  <2>4. \A t \in Stored : t.before \in Kepts /\ t.after \in Kepts
    BY DEF Stored
  <2>5. state \in Kepts
    BY <2>1, <2>2, <2>3, <2>4
  <2>6. state # Absent
    BY <1>3
  <2> QED BY <2>5, <2>6 DEF Kepts
<1> HIDE DEF state, ok, u
<1> QED BY <1>1, <1>2, <1>3, CallEdits

\* save_draft: what it saves is what the member was shown.
LEMMA SaveDraftKeeps ==
  ASSUME PageInv, NEW confirmed \in BOOLEAN, E!SaveDraft(confirmed)
  PROVE  PageInv'
<1> DEFINE u == "save_draft"
           ok == /\ confirmed \/ E!AsksToSave
                 /\ E!Mode # "refuse"
                 /\ confirmed => E!SaysYes /\ E!PriorPreview
<1>1. /\ E!InTurn /\ u \in PageTools /\ u # "revert_last_turn"
      /\ turn' = [turn EXCEPT !.n = @ + 1, !.called = @ \cup {u},
                              !.done = IF ok THEN @ \cup {u} ELSE @,
                              !.preview = @ \/ (ok /\ ~confirmed)]
      /\ UNCHANGED <<page, turns, touched, edits>>
  BY DEF E!SaveDraft
<1>2. IF ok /\ confirmed
        THEN /\ listed' = "ahead"
             /\ saved' = [what |-> page, shown |-> E!Shown, excused |-> touched \/ page # turn.before]
        ELSE UNCHANGED <<listed, saved>>
  BY DEF E!SaveDraft
<1>3. confirmed /\ ok => E!PriorPreview
  OBVIOUS
<1> HIDE DEF ok, u
<1>4. PageTypes
  BY DEF PageInv
<1>5. /\ turn'.called = turn.called \cup {u} /\ turn'.before = turn.before
      /\ turn'.edited = turn.edited /\ turn'.done = IF ok THEN turn.done \cup {u} ELSE turn.done
      /\ turn'.n = turn.n + 1 /\ turn.n \in Nat
  BY <1>1, <1>4 DEF PageTypes, Running
<1>6. turn' \in Running
  <2> DEFINE Sets == SUBSET PageTools
             Saids == Says \cup {{}}
             next == turn.n + 1
             c == turn.called \cup {u}
             d == IF ok THEN turn.done \cup {u} ELSE turn.done
             v == turn.preview \/ (ok /\ ~confirmed)
  <2>1. Running = [says : Saids, called : Sets, done : Sets, n : Nat, preview : BOOLEAN,
                   before : Kepts, edited : BOOLEAN]
    BY DEF Running
  <2>2. turn.called \subseteq PageTools /\ turn.done \subseteq PageTools /\ turn \in Running
    BY <1>4 DEF PageTypes, Running
  <2>3. c \in Sets /\ d \in Sets
    BY <1>1, <2>2
  <2>4. turn' = [turn EXCEPT !.n = next, !.called = c, !.done = d, !.preview = v]
    BY <1>1
  <2>5. next \in Nat
    BY <1>5
  <2>6. v \in BOOLEAN
    OBVIOUS
  <2> HIDE DEF Sets, Saids, next, c, d, v
  <2>7. [turn EXCEPT !.n = next, !.called = c, !.done = d, !.preview = v] \in Running
    BY <2>1, <2>2, <2>3, <2>5, <2>6
  <2> QED BY <2>4, <2>7
<1>7. E!InTurn'
  BY <1>5, NoTurnIs DEF E!InTurn
<1>8. turn'.done \subseteq turn'.called
  BY <1>4, <1>5 DEF PageTypes
<1>9. listed' \in {"none", "ahead", "past"}
  <2>1. listed \in {"none", "ahead", "past"}
    BY <1>4 DEF PageTypes
  <2> QED BY <1>2, <2>1
<1>10. PageTypes'
  BY <1>1, <1>4, <1>5, <1>6, <1>7, <1>8, <1>9 DEF PageTypes
<1>11. UndosTakeBack'
  <2>1. ~OnlyUndo(turn)'
    BY <1>1, <1>5 DEF OnlyUndo
  <2>2. ASSUME NEW s \in 1..Len(turns), OnlyUndo(turns[s])
        PROVE  \E m \in 1..(s - 1) : TakesBack(turns, m, s - 1, turns[s].after)
    BY <2>2 DEF PageInv, UndosTakeBack
  <2> QED BY <1>1, <2>1, <2>2 DEF UndosTakeBack, TakesBack, OnlyUndo
<1>12. ShownRemains'
  BY <1>1, <1>5, <1>7 DEF PageInv, ShownRemains, Began
<1>13. E!SavedIsWhatWasShown'
  <2>1. CASE ok /\ confirmed
    <3>1. turns # <<>> /\ turns[Len(turns)].preview
      BY <1>3, <2>1 DEF E!PriorPreview, E!Last
    <3>2. turns \in Seq(Stored) /\ Len(turns) \in Nat /\ DOMAIN turns = 1..Len(turns) /\ Len(turns) # 0
      BY <1>4, <3>1 DEF PageTypes
    <3>3. Len(turns) \in E!Previews /\ \A s \in E!Previews : Len(turns) >= s
      BY <3>1, <3>2 DEF E!Previews
    <3>4. E!Max(E!Previews) = Len(turns)
      <4>1. E!Previews \subseteq 1..Len(turns)
        BY <3>2 DEF E!Previews
      <4> DEFINE m == CHOOSE x \in E!Previews : \A y \in E!Previews : x >= y
      <4>2. m \in E!Previews /\ \A y \in E!Previews : m >= y
        BY <3>3
      <4> HIDE DEF m
      <4>3. m >= Len(turns) /\ Len(turns) >= m /\ m \in 1..Len(turns)
        BY <3>3, <4>1, <4>2
      <4>4. m = Len(turns)
        <5> DEFINE l == Len(turns)
        <5>1. l \in Nat /\ m >= l /\ l >= m /\ m \in 1..l
          BY <3>2, <4>3
        <5> HIDE DEF l
        <5>2. m = l
          BY <5>1
        <5> QED BY <5>2 DEF l
      <4> QED BY <4>4 DEF E!Max, m
    <3>5. E!Shown = turns[Len(turns)].after
      BY <3>3, <3>4 DEF E!Shown
    <3>6. saved'.what = page /\ saved'.shown = E!Shown /\ saved'.excused = (touched \/ page # turn.before)
      BY <1>2, <2>1
    <3>7. ~touched => turns[Len(turns)].after = turn.before
      BY <1>1, <3>1 DEF PageInv, ShownRemains, Began
    <3> QED BY <3>5, <3>6, <3>7 DEF E!SavedIsWhatWasShown
  <2>2. CASE ~(ok /\ confirmed)
    BY <1>2, <2>2 DEF PageInv, E!SavedIsWhatWasShown
  <2> QED BY <2>1, <2>2
<1> QED BY <1>10, <1>11, <1>12, <1>13 DEF PageInv

LEMMA BeginKeeps ==
  ASSUME PageInv, NEW says \in Says, E!Begin(says)
  PROVE  PageInv'
<1>1. ~E!InTurn /\ turn = E!NoTurn
  BY DEF E!Begin, E!InTurn
<1>2. turn' = [E!NoTurn EXCEPT !.says = says, !.before = page, !.edited = touched]
  BY DEF E!Begin
<1>3. UNCHANGED <<page, turns, listed, touched, saved, edits>>
  BY DEF E!Begin
<1>4. PageTypes
  BY DEF PageInv
<1>5. /\ turn' \in Running /\ turn'.called = {} /\ turn'.done = {} /\ turn'.before = page
      /\ turn'.edited = touched
  <2> DEFINE Sets == SUBSET PageTools
             Saids == Says \cup {{}}
             t == E!NoTurn
  <2>1. Running = [says : Saids, called : Sets, done : Sets, n : Nat, preview : BOOLEAN,
                   before : Kepts, edited : BOOLEAN]
    BY DEF Running
  <2>2. says \in Saids /\ t \in Running /\ t.called = {} /\ t.done = {}
    BY NoTurnIs
  <2>3. page \in Kepts /\ touched \in BOOLEAN
    BY <1>4 DEF PageTypes, Kepts
  <2> HIDE DEF Sets, Saids, t
  <2>4. turn' = [t EXCEPT !.says = says, !.before = page, !.edited = touched]
    BY <1>2 DEF t
  <2> QED BY <2>1, <2>2, <2>3, <2>4
<1>6. PageTypes'
  BY <1>3, <1>4, <1>5 DEF PageTypes
<1>7. UndosTakeBack'
  <2>1. ~OnlyUndo(turn)'
    BY <1>5 DEF OnlyUndo
  <2>2. ASSUME NEW s \in 1..Len(turns), OnlyUndo(turns[s])
        PROVE  \E m \in 1..(s - 1) : TakesBack(turns, m, s - 1, turns[s].after)
    BY <2>2 DEF PageInv, UndosTakeBack
  <2> QED BY <1>3, <2>1, <2>2 DEF UndosTakeBack, TakesBack, OnlyUndo
<1>8. ShownRemains'
  <2>1. Began = page
    BY <1>1 DEF Began
  <2>2. Began' = page
    BY <1>3, <1>5 DEF Began
  <2> QED BY <1>3, <2>1, <2>2 DEF PageInv, ShownRemains
<1>9. E!SavedIsWhatWasShown'
  BY <1>3 DEF PageInv, E!SavedIsWhatWasShown
<1> QED BY <1>6, <1>7, <1>8, <1>9 DEF PageInv

\* A turn is added: those before it stay what they are.
LEMMA Appended ==
  ASSUME turns \in Seq(Stored), NEW t \in Stored, turns' = Append(turns, t)
  PROVE  /\ turns' \in Seq(Stored) /\ Len(turns') = Len(turns) + 1 /\ Len(turns) \in Nat
         /\ turns'[Len(turns')] = t /\ turns' # <<>>
         /\ \A s \in 1..Len(turns) : turns'[s] = turns[s]
<1>1. /\ turns' \in Seq(Stored) /\ Len(turns') = Len(turns) + 1 /\ Len(turns) \in Nat
      /\ turns'[Len(turns) + 1] = t /\ \A s \in 1..Len(turns) : turns'[s] = turns[s]
  BY AppendProperties, LenProperties
<1>2. turns' # <<>>
  BY <1>1, EmptySeq
<1> QED BY <1>1, <1>2

LEMMA SameTurns ==
  ASSUME NEW q, NEW r, NEW n \in Nat, \A k \in 1..n : q[k] = r[k], NEW m, NEW a, TakesBack(r, m, n, a)
  PROVE  TakesBack(q, m, n, a)
<1>1. m \in 1..n /\ \A k \in (m + 1)..n : k \in 1..n
  BY DEF TakesBack
<1>2. q[m] = r[m] /\ \A k \in (m + 1)..n : q[k] = r[k]
  BY <1>1
<1> QED BY <1>1, <1>2 DEF TakesBack

\* Undos among the first n turns are judged by those turns.
LEMMA UndosStay ==
  ASSUME UndosTakeBack, NEW n \in 0..Len(turns), Len(turns) \in Nat, NEW q, \A k \in 1..n : q[k] = turns[k]
  PROVE  \A s \in 1..n : OnlyUndo(q[s]) => \E m \in 1..(s - 1) : TakesBack(q, m, s - 1, q[s].after)
<1> SUFFICES ASSUME NEW s \in 1..n, OnlyUndo(q[s])
             PROVE  \E m \in 1..(s - 1) : TakesBack(q, m, s - 1, q[s].after)
  OBVIOUS
<1>1. s \in 1..Len(turns) /\ q[s] = turns[s] /\ s - 1 \in Nat
  OBVIOUS
<1>2. OnlyUndo(turns[s])
  BY <1>1
<1>3. PICK m \in 1..(s - 1) : TakesBack(turns, m, s - 1, turns[s].after)
  BY <1>1, <1>2 DEF UndosTakeBack
<1>4. TakesBack(q, m, s - 1, q[s].after)
  BY <1>1, <1>3, SameTurns
<1> QED BY <1>4

LEMMA EndKeeps ==
  ASSUME PageInv, E!End
  PROVE  PageInv'
<1> DEFINE t == [called |-> turn.called, done |-> turn.done, preview |-> turn.preview,
                 before |-> turn.before, after |-> page, edited |-> turn.edited]
           n == Len(turns)
<1>1. /\ E!InTurn /\ turns' = Append(turns, t) /\ turn' = E!NoTurn
      /\ touched' = (touched /\ ~turn.preview) /\ UNCHANGED <<page, listed, saved, edits>>
  BY DEF E!End
<1>2. PageTypes
  BY DEF PageInv
<1>3. t \in Stored
  <2> DEFINE Sets == SUBSET PageTools
  <2>1. /\ turn.called \in Sets /\ turn.done \in Sets /\ turn.preview \in BOOLEAN /\ turn.before \in Kepts
        /\ turn.edited \in BOOLEAN
    BY <1>2 DEF PageTypes, Running
  <2>2. page \in Kepts
    BY <1>2 DEF PageTypes, Kepts
  <2>3. Stored = [called : Sets, done : Sets, preview : BOOLEAN, before : Kepts, after : Kepts, edited : BOOLEAN]
    BY DEF Stored
  <2> HIDE DEF Sets
  <2> QED BY <2>1, <2>2, <2>3
<1>4. /\ t.called = turn.called /\ t.done = turn.done /\ t.preview = turn.preview
      /\ t.before = turn.before /\ t.after = page /\ t.edited = turn.edited
  OBVIOUS
<1> HIDE DEF t
<1>5. /\ turns' \in Seq(Stored) /\ Len(turns') = n + 1 /\ n \in Nat
      /\ turns'[Len(turns')] = t /\ turns' # <<>>
      /\ \A s \in 1..n : turns'[s] = turns[s]
  BY <1>1, <1>2, <1>3, Appended DEF PageTypes
<1>6. turn.before \in Fines /\ turn.edited = touched /\ turn.done \subseteq turn.called
  BY <1>1, <1>2 DEF PageTypes
<1>7. ~E!InTurn'
  BY <1>1 DEF E!InTurn
<1> HIDE DEF n
<1>8. \A s \in 1..Len(turns') : s \in 1..n \/ s = n + 1
  BY <1>5
<1>9. PageTypes'
  <2>1. touched' \in BOOLEAN
    BY <1>1, <1>2 DEF PageTypes
  <2>2. ASSUME NEW s \in 1..Len(turns')
        PROVE  turns'[s].done \subseteq turns'[s].called /\ (turns'[s].called # {} => turns'[s].before \in Fines)
    <3>1. CASE s \in 1..n
      BY <1>2, <1>5, <3>1 DEF PageTypes, n
    <3>2. CASE s = n + 1
      BY <1>4, <1>5, <1>6, <3>2
    <3> QED BY <1>8, <3>1, <3>2
  <2>3. turn' \in Running /\ turn'.done \subseteq turn'.called
    BY <1>1, NoTurnIs
  <2> QED BY <1>1, <1>2, <1>5, <1>7, <2>1, <2>2, <2>3 DEF PageTypes
<1>10. UndosTakeBack'
  <2>1. ~OnlyUndo(turn)'
    BY <1>1, NoTurnIs DEF OnlyUndo
  <2>2. n \in 0..Len(turns) /\ Len(turns) \in Nat
    BY <1>5 DEF n
  <2>3. \A s \in 1..n : OnlyUndo(turns'[s]) => \E m \in 1..(s - 1) : TakesBack(turns', m, s - 1, turns'[s].after)
    BY <1>5, <2>2, UndosStay DEF PageInv
  <2>4. ASSUME OnlyUndo(t) PROVE \E m \in 1..n : TakesBack(turns', m, n, t.after)
    <3>1. OnlyUndo(turn)
      BY <1>4, <2>4 DEF OnlyUndo
    <3>2. PICK m \in 1..n : TakesBack(turns, m, n, page)
      BY <3>1 DEF PageInv, UndosTakeBack, n
    <3>3. TakesBack(turns', m, n, t.after)
      BY <1>4, <1>5, <3>2, SameTurns
    <3> QED BY <3>3
  <2>5. (n + 1) - 1 = n
    BY <1>5
  <2>6. \A s \in 1..Len(turns') : OnlyUndo(turns'[s]) =>
           \E m \in 1..(s - 1) : TakesBack(turns', m, s - 1, turns'[s].after)
    <3> SUFFICES ASSUME NEW s \in 1..Len(turns'), OnlyUndo(turns'[s])
                 PROVE  \E m \in 1..(s - 1) : TakesBack(turns', m, s - 1, turns'[s].after)
      OBVIOUS
    <3>1. CASE s \in 1..n
      BY <2>3, <3>1
    <3>2. CASE s = n + 1
      <4>1. turns'[s] = t
        BY <1>5, <3>2
      <4>2. s - 1 = n
        BY <2>5, <3>2
      <4> QED BY <2>4, <4>1, <4>2
    <3> QED BY <1>8, <3>1, <3>2
  <2> QED BY <2>1, <2>6 DEF UndosTakeBack
<1>11. ShownRemains'
  <2>1. Began' = page
    BY <1>1, <1>7 DEF Began
  <2>2. Began = turn.before
    BY <1>1 DEF Began
  <2>3. turns'[Len(turns')].after = page
    BY <1>4, <1>5
  <2>4. ASSUME NEW s \in 2..Len(turns'), turns'[s - 1].preview, ~turns'[s].edited, turns'[s].before # Absent
        PROVE  turns'[s].before = turns'[s - 1].after
    <3>1. s - 1 \in 1..n /\ turns'[s - 1] = turns[s - 1]
      BY <1>5
    <3>2. CASE s \in 1..n
      <4>1. s \in 2..n /\ turns'[s] = turns[s]
        BY <1>5, <3>2
      <4> QED BY <2>4, <3>1, <4>1 DEF PageInv, ShownRemains, n
    <3>3. CASE s = n + 1
      <4>1. turns'[s] = t /\ s - 1 = n /\ n # 0
        BY <1>5, <3>1, <3>3
      <4>2. turns # <<>>
        BY <4>1 DEF n
      <4>3. ~touched /\ turns[Len(turns)].preview
        BY <1>4, <1>6, <2>4, <3>1, <4>1 DEF n
      <4>4. turns[n].after = turn.before
        BY <2>2, <4>2, <4>3 DEF PageInv, ShownRemains, n
      <4> QED BY <1>4, <3>1, <4>1, <4>4
    <3>4. s \in 1..n \/ s = n + 1
      BY <1>5
    <3> QED BY <3>2, <3>3, <3>4
  <2> QED BY <2>1, <2>3, <2>4 DEF ShownRemains
<1>12. E!SavedIsWhatWasShown'
  BY <1>1 DEF PageInv, E!SavedIsWhatWasShown
<1> QED BY <1>9, <1>10, <1>11, <1>12 DEF PageInv

LEMMA FailKeeps ==
  ASSUME PageInv, E!Fail
  PROVE  PageInv'
<1>1. /\ E!InTurn /\ turn' = E!NoTurn /\ touched' = (touched \/ page # turn.before)
      /\ UNCHANGED <<page, turns, listed, saved>>
  BY DEF E!Fail
<1>2. PageTypes
  BY DEF PageInv
<1>3. ~E!InTurn' /\ touched' \in BOOLEAN
  BY <1>1 DEF E!InTurn
<1>4. PageTypes'
  BY <1>1, <1>2, <1>3, NoTurnIs DEF PageTypes
<1>5. UndosTakeBack'
  <2>1. ~OnlyUndo(turn)'
    BY <1>1, NoTurnIs DEF OnlyUndo
  <2>2. ASSUME NEW s \in 1..Len(turns), OnlyUndo(turns[s])
        PROVE  \E m \in 1..(s - 1) : TakesBack(turns, m, s - 1, turns[s].after)
    BY <2>2 DEF PageInv, UndosTakeBack
  <2> QED BY <1>1, <2>1, <2>2 DEF UndosTakeBack, OnlyUndo
<1>6. ShownRemains'
  <2>1. Began' = page /\ Began = turn.before
    BY <1>1, <1>3 DEF Began
  <2>2. ~touched' => ~touched /\ page = turn.before
    BY <1>1
  <2> QED BY <1>1, <2>1, <2>2 DEF PageInv, ShownRemains
<1>7. E!SavedIsWhatWasShown'
  BY <1>1 DEF PageInv, E!SavedIsWhatWasShown
<1> QED BY <1>4, <1>5, <1>6, <1>7 DEF PageInv

LEMMA OtherTurnKeeps ==
  ASSUME PageInv, E!OtherTurn
  PROVE  PageInv'
<1> DEFINE t == [called |-> {}, done |-> {}, preview |-> FALSE, before |-> Absent, after |-> Absent,
                 edited |-> touched]
           n == Len(turns)
<1>1. ~E!InTurn /\ turns' = Append(turns, t) /\ UNCHANGED <<page, turn, listed, touched, saved>>
  BY DEF E!OtherTurn, E!NoAgenda
<1>2. PageTypes
  BY DEF PageInv
<1>3. t \in Stored
  <2> DEFINE Sets == SUBSET PageTools
             none == {}
  <2>1. none \in Sets /\ FALSE \in BOOLEAN /\ Absent \in Kepts /\ touched \in BOOLEAN
    BY <1>2 DEF PageTypes, Kepts
  <2>2. Stored = [called : Sets, done : Sets, preview : BOOLEAN, before : Kepts, after : Kepts, edited : BOOLEAN]
    BY DEF Stored
  <2>3. t = [called |-> none, done |-> none, preview |-> FALSE, before |-> Absent, after |-> Absent, edited |-> touched]
    OBVIOUS
  <2> HIDE DEF Sets, none, t
  <2> QED BY <2>1, <2>2, <2>3
<1>4. t.called = {} /\ t.done = {} /\ t.preview = FALSE /\ t.before = Absent
  OBVIOUS
<1> HIDE DEF t
<1>5. /\ turns' \in Seq(Stored) /\ Len(turns') = n + 1 /\ n \in Nat
      /\ turns'[Len(turns')] = t /\ turns' # <<>>
      /\ \A s \in 1..n : turns'[s] = turns[s]
  BY <1>1, <1>2, <1>3, Appended DEF PageTypes
<1>6. turn = E!NoTurn /\ ~E!InTurn'
  BY <1>1 DEF E!InTurn
<1> HIDE DEF n
<1>7. \A s \in 1..Len(turns') : s \in 1..n \/ s = n + 1
  BY <1>5
<1>8. PageTypes'
  <2>1. ASSUME NEW s \in 1..Len(turns')
        PROVE  turns'[s].done \subseteq turns'[s].called /\ (turns'[s].called # {} => turns'[s].before \in Fines)
    <3>1. CASE s \in 1..n
      BY <1>2, <1>5, <3>1 DEF PageTypes, n
    <3>2. CASE s = n + 1
      BY <1>4, <1>5, <3>2
    <3> QED BY <1>7, <3>1, <3>2
  <2> QED BY <1>1, <1>2, <1>5, <1>6, <2>1 DEF PageTypes
<1>9. UndosTakeBack'
  <2>1. ~OnlyUndo(turn)' /\ ~OnlyUndo(t)
    BY <1>1, <1>4, <1>6, NoTurnIs DEF OnlyUndo
  <2>2. n \in 0..Len(turns) /\ Len(turns) \in Nat
    BY <1>5 DEF n
  <2>3. \A s \in 1..n : OnlyUndo(turns'[s]) => \E m \in 1..(s - 1) : TakesBack(turns', m, s - 1, turns'[s].after)
    BY <1>5, <2>2, UndosStay DEF PageInv
  <2>4. \A s \in 1..Len(turns') : OnlyUndo(turns'[s]) => s \in 1..n
    BY <1>5, <1>7, <2>1
  <2> QED BY <2>1, <2>3, <2>4 DEF UndosTakeBack
<1>10. ShownRemains'
  <2>1. ~turns'[Len(turns')].preview
    BY <1>4, <1>5
  <2>2. ASSUME NEW s \in 2..Len(turns'), turns'[s - 1].preview, ~turns'[s].edited, turns'[s].before # Absent
        PROVE  turns'[s].before = turns'[s - 1].after
    <3>1. s # n + 1
      BY <1>4, <1>5, <2>2
    <3>2. s \in 2..n /\ s \in 1..n /\ s - 1 \in 1..n
      BY <1>5, <3>1
    <3>3. turns'[s] = turns[s] /\ turns'[s - 1] = turns[s - 1]
      BY <1>5, <3>2
    <3> QED BY <2>2, <3>2, <3>3 DEF PageInv, ShownRemains, n
  <2> QED BY <2>1, <2>2 DEF ShownRemains
<1>11. E!SavedIsWhatWasShown'
  BY <1>1 DEF PageInv, E!SavedIsWhatWasShown
<1> QED BY <1>8, <1>9, <1>10, <1>11 DEF PageInv

LEMMA EditPageKeeps ==
  ASSUME PageInv, NEW i, NEW r \in RoleTaker, E!EditPage(i, r)
  PROVE  PageInv'
<1>1. /\ ~E!InTurn /\ E!Known(i) /\ page' = E!With(i, "role", r) /\ touched' = TRUE
      /\ UNCHANGED <<turns, turn, listed, saved>>
  BY DEF E!EditPage
<1>2. PageTypes
  BY DEF PageInv
<1>3. page' \in Fines
  <2> DEFINE p == page.segments[i]
             q == [p EXCEPT !.role = r]
  <2>1. i \in DOMAIN page.segments /\ page \in Pages /\ page \in Fines /\ p \in Parts /\ r \in Roles
    BY <1>1, <1>2 DEF E!Known, Fines, Pages, PageTypes, Roles
  <2>2. q \in Parts /\ q.start = p.start /\ q.duration = p.duration /\ q.buffer = p.buffer
    <3> HIDE DEF p
    <3> QED BY <2>1, PartFields
  <2>3. E!With(i, "role", r) = [page EXCEPT !.segments = [page.segments EXCEPT ![i] = q]]
    BY <2>1, WithIs
  <2> HIDE DEF q
  <2>4. E!With(i, "role", r) \in Fines
    BY <2>1, <2>2, <2>3, SameTimes
  <2> QED BY <1>1, <2>4, Zenon
<1>4. turn = E!NoTurn /\ ~E!InTurn'
  BY <1>1 DEF E!InTurn
<1>5. PageTypes'
  BY <1>1, <1>2, <1>3, <1>4 DEF PageTypes
<1>6. UndosTakeBack'
  <2>1. ~OnlyUndo(turn)'
    BY <1>1, <1>4, NoTurnIs DEF OnlyUndo
  <2>2. ASSUME NEW s \in 1..Len(turns), OnlyUndo(turns[s])
        PROVE  \E m \in 1..(s - 1) : TakesBack(turns, m, s - 1, turns[s].after)
    BY <2>2 DEF PageInv, UndosTakeBack
  <2> QED BY <1>1, <2>1, <2>2 DEF UndosTakeBack, OnlyUndo
<1>7. ShownRemains'
  BY <1>1 DEF PageInv, ShownRemains
<1>8. E!SavedIsWhatWasShown'
  BY <1>1 DEF PageInv, E!SavedIsWhatWasShown
<1> QED BY <1>5, <1>6, <1>7, <1>8 DEF PageInv

\* A bubble's revert: the turn goes with all later ones, the agenda before it is back,
\* and so is what was known of the page when it began.
LEMMA RevertBubbleKeeps ==
  ASSUME PageInv, NEW s \in DOMAIN turns, E!RevertBubble(s)
  PROVE  PageInv'
<1> DEFINE n == s - 1
           q == SubSeq(turns, 1, n)
<1>1. /\ ~E!InTurn /\ turns[s].before # Absent /\ turns' = q /\ page' = turns[s].before
      /\ touched' = turns[s].edited /\ UNCHANGED <<turn, listed, saved>>
  BY DEF E!RevertBubble, E!NoAgenda
<1>2. PageTypes
  BY DEF PageInv
<1>3. turns \in Seq(Stored) /\ Len(turns) \in Nat /\ s \in 1..Len(turns) /\ turns[s] \in Stored
  BY <1>2 DEF PageTypes
<1>4. n \in 0..Len(turns) /\ n \in Nat /\ s = n + 1
  BY <1>3
<1>5. q \in Seq(Stored) /\ Len(q) = n /\ \A k \in 1..n : q[k] = turns[k]
  <2>1. 1 \in Int /\ n \in Int /\ \A k \in 1..n : turns[k] \in Stored
    BY <1>3, <1>4
  <2> HIDE DEF n
  <2>2. /\ q \in Seq(Stored) /\ Len(q) = IF 1 <= n THEN n - 1 + 1 ELSE 0
        /\ \A k \in 1..(n - 1 + 1) : q[k] = turns[1 + k - 1]
    BY <2>1, SubSeqProperties
  <2> HIDE DEF q
  <2> QED BY <1>4, <2>2
<1> HIDE DEF n, q
<1>6. turns[s].before \in Kepts /\ turns[s].edited \in BOOLEAN
  <2>1. \A t \in Stored : t.before \in Kepts /\ t.edited \in BOOLEAN
    BY DEF Stored
  <2> QED BY <1>3, <2>1
<1>7. page' \in Fines /\ touched' \in BOOLEAN
  BY <1>1, <1>6 DEF Kepts
<1>8. turn = E!NoTurn /\ ~E!InTurn' /\ turn' = turn
  BY <1>1 DEF E!InTurn
<1>9. \A k \in 1..n : k \in 1..Len(turns)
  BY <1>3, <1>4
<1>10. PageTypes'
  <2>1. \A k \in 1..n : q[k].done \subseteq q[k].called /\ (q[k].called # {} => q[k].before \in Fines)
    BY <1>2, <1>5, <1>9 DEF PageTypes
  <2> QED BY <1>1, <1>2, <1>5, <1>7, <1>8, <2>1 DEF PageTypes
<1>11. UndosTakeBack'
  <2>1. ~OnlyUndo(turn)'
    BY <1>8, NoTurnIs DEF OnlyUndo
  <2>2. \A k \in 1..n : OnlyUndo(q[k]) => \E m \in 1..(k - 1) : TakesBack(q, m, k - 1, q[k].after)
    BY <1>3, <1>4, <1>5, UndosStay DEF PageInv
  <2> QED BY <1>1, <1>5, <2>1, <2>2 DEF UndosTakeBack
<1>12. ShownRemains'
  <2>1. Began' = turns[s].before
    BY <1>1, <1>8 DEF Began
  <2>2. ASSUME ~turns[s].edited, n # 0, q[n].preview PROVE q[n].after = turns[s].before
    <3>1. s \in 2..Len(turns) /\ s - 1 = n /\ n \in 1..n
      BY <1>3, <1>4, <2>2
    <3>2. q[n] = turns[s - 1]
      BY <1>5, <3>1
    <3> QED BY <1>1, <2>2, <3>1, <3>2 DEF PageInv, ShownRemains
  <2>3. ASSUME NEW k \in 2..n, q[k - 1].preview, ~q[k].edited, q[k].before # Absent
        PROVE  q[k].before = q[k - 1].after
    <3>1. k \in 2..Len(turns) /\ k \in 1..n /\ k - 1 \in 1..n
      BY <1>3, <1>4
    <3>2. q[k] = turns[k] /\ q[k - 1] = turns[k - 1]
      BY <1>5, <3>1
    <3> QED BY <2>3, <3>1, <3>2 DEF PageInv, ShownRemains
  <2>4. q # <<>> => n # 0
    BY <1>5, EmptySeq
  <2> QED BY <1>1, <1>5, <2>1, <2>2, <2>3, <2>4 DEF ShownRemains
<1>13. E!SavedIsWhatWasShown'
  BY <1>1 DEF PageInv, E!SavedIsWhatWasShown
<1> QED BY <1>10, <1>11, <1>12, <1>13 DEF PageInv

LEMMA PageSame ==
  ASSUME PageInv, UNCHANGED <<page, turns, turn, touched, saved>>, listed' \in {"none", "ahead", "past"}
  PROVE  PageInv'
<1>1. PageTypes'
  BY DEF PageInv, PageTypes, E!InTurn
<1>2. UndosTakeBack'
  BY DEF PageInv, UndosTakeBack
<1>3. ShownRemains'
  BY DEF PageInv, ShownRemains, Began, E!InTurn
<1>4. E!SavedIsWhatWasShown'
  BY DEF PageInv, E!SavedIsWhatWasShown
<1> QED BY <1>1, <1>2, <1>3, <1>4 DEF PageInv

LEMMA PageStep ==
  ASSUME E!Setting, PageInv, [E!Next]_E!vars
  PROVE  PageInv'
<1>1. page \in Fines /\ listed \in {"none", "ahead", "past"}
  BY DEF PageInv, PageTypes
<1>2. ASSUME NEW says \in Says, E!Begin(says) PROVE PageInv'
  BY <1>2, BeginKeeps
<1>3. ASSUME NEW i, E!SegmentTool(i) PROVE PageInv'
  BY <1>1, <1>3, SegmentEdits, EditCalledKeeps
<1>4. ASSUME E!MetaTool PROVE PageInv'
  BY <1>1, <1>4, MetaEdits, EditCalledKeeps
<1>5. ASSUME E!WholeTool PROVE PageInv'
  <2>1. ASSUME NEW m \in E!Sources, NEW mentioned, E!CreateFromText(m, mentioned) PROVE PageInv'
    <3>1. FALSE \in BOOLEAN
      OBVIOUS
    <3> QED BY <1>1, <2>1, <3>1, CreateEdits, EditCalledKeeps
  <2>2. ASSUME NEW m \in E!Sources, NEW image \in BOOLEAN, E!CreateFromImage(m, image) PROVE PageInv'
    BY <1>1, <2>2, CreateEdits, EditCalledKeeps
  <2>3. ASSUME NEW m \in E!Sources, E!CloneFromMeeting(m) PROVE PageInv'
    <3>1. FALSE \in BOOLEAN
      OBVIOUS
    <3> QED BY <1>1, <2>3, <3>1, CreateEdits, EditCalledKeeps
  <2>4. ASSUME NEW name \in E!Templates, E!CreateFromTemplate(name) PROVE PageInv'
    BY <1>1, <2>4, TemplateEdits, EditCalledKeeps
  <2>5. ASSUME NEW tool \in {"lookup_meeting", "validate_agenda"}, E!Read(tool) PROVE PageInv'
    BY <1>1, <2>5, ReadEdits, EditCalledKeeps
  <2>6. ASSUME NEW confirmed \in BOOLEAN, E!SaveDraft(confirmed) PROVE PageInv'
    BY <2>6, SaveDraftKeeps
  <2>7. CASE E!RevertLastTurn
    BY <2>7, RevertLastKeeps
  <2>8. ASSUME NEW n \in 0..Len(turns), E!RevertToTurn(n) PROVE PageInv'
    BY <2>8, RevertToEdits, EditCalledKeeps
  <2> QED BY <1>5, <2>1, <2>2, <2>3, <2>4, <2>5, <2>6, <2>7, <2>8 DEF E!WholeTool
<1>6. CASE E!End
  BY <1>6, EndKeeps
<1>7. CASE E!Fail
  BY <1>7, FailKeeps
<1>8. CASE E!OtherTurn
  BY <1>8, OtherTurnKeeps
<1>9. CASE E!Elsewhere
  <2>1. listed' \in {"none", "ahead", "past"} /\ UNCHANGED <<page, turns, turn, touched, saved>>
    BY <1>9 DEF E!Elsewhere
  <2> QED BY <2>1, PageSame
<1>10. ASSUME NEW i, NEW r \in RoleTaker, E!EditPage(i, r) PROVE PageInv'
  BY <1>10, EditPageKeeps
<1>11. ASSUME NEW s \in DOMAIN turns, E!RevertBubble(s) PROVE PageInv'
  BY <1>11, RevertBubbleKeeps
<1>12. CASE UNCHANGED E!vars
  <2>1. UNCHANGED <<page, turns, turn, touched, saved>> /\ listed' = listed
    BY <1>12 DEF E!vars
  <2> QED BY <1>1, <2>1, PageSame
<1> QED BY <1>2, <1>3, <1>4, <1>5, <1>6, <1>7, <1>8, <1>9, <1>10, <1>11, <1>12 DEF E!Next

\* Every agenda that can be shown or restored may be shown.
LEMMA AgendasFine ==
  ASSUME PageInv
  PROVE  \A a \in E!Agendas : a \in Fines
<1>1. page \in Fines /\ turns \in Seq(Stored)
  BY DEF PageInv, PageTypes
<1>2. \A s \in DOMAIN turns : turns[s].after \in Kepts
  <2>1. \A t \in Stored : t.after \in Kepts
    BY DEF Stored
  <2>2. \A s \in DOMAIN turns : turns[s] \in Stored
    BY <1>1
  <2> QED BY <2>1, <2>2
<1> QED BY <1>1, <1>2 DEF E!Agendas, E!NoAgenda, Kepts

LEMMA PageTypesHold ==
  ASSUME PageInv
  PROVE  E!TypeOK
<1>1. ASSUME NEW a \in E!Agendas
      PROVE  /\ a.no \in 0..1 /\ a.when \in {"unset", "ahead", "past"}
             /\ {a.start, a.end} \subseteq 0..(E!Day - 1) \cup {Absent}
             /\ \A i \in DOMAIN a.segments :
                  /\ a.segments[i].start \in 0..(E!Day - 1)
                  /\ a.segments[i].duration >= 0 /\ a.segments[i].buffer >= 0
                  /\ a.segments[i].role \in RoleTaker \cup {NoOne}
  <2>1. a \in Pages
    BY AgendasFine DEF Fines
  <2>2. Moments = 0..(E!Day - 1)
    BY DayIs DEF Moments
  <2>3. a.no \in 0..1 /\ a.when \in Dates /\ a.start \in Clock /\ a.end \in Clock /\ a.segments \in Seq(Parts)
    BY <2>1 DEF Pages
  <2>4. \A i \in DOMAIN a.segments : a.segments[i] \in Parts
    BY <2>3
  <2>5. \A p \in Parts : /\ p.start \in Moments /\ p.duration \in Nat /\ p.buffer \in Nat
                         /\ p.role \in RoleTaker \cup {NoOne}
    BY DEF Parts
  <2>6. \A x \in Nat : x >= 0
    OBVIOUS
  <2>7. \A i \in DOMAIN a.segments : /\ a.segments[i].start \in 0..(E!Day - 1)
                                     /\ a.segments[i].duration >= 0 /\ a.segments[i].buffer >= 0
                                     /\ a.segments[i].role \in RoleTaker \cup {NoOne}
    BY <2>2, <2>4, <2>5, <2>6, Zenon
  <2>8. {a.start, a.end} \subseteq 0..(E!Day - 1) \cup {Absent}
    BY <2>2, <2>3, Zenon DEF Clock
  <2> QED BY <2>3, <2>7, <2>8, Zenon DEF Dates
<1>2. /\ turn.done \subseteq turn.called
      /\ \A s \in DOMAIN turns : turns[s].done \subseteq turns[s].called
      /\ listed \in {"none", "ahead", "past"} /\ touched \in BOOLEAN
  BY DEF PageInv, PageTypes
<1> QED BY <1>1, <1>2, Zenon DEF E!TypeOK

LEMMA TimesAreTrue ==
  ASSUME E!Setting, PageInv
  PROVE  E!TimesFollow /\ E!IssuesAgree
<1>1. \A a \in E!Agendas : a \in Pages /\ Follows(a)
  BY AgendasFine DEF Fines
<1>2. E!TimesFollow
  BY <1>1 DEF E!TimesFollow, Follows
<1>3. ASSUME NEW a \in E!Agendas, ~a.given, a.start # Absent, a.end # Absent, a.segments # <<>>,
             a.start + E!Total(a) < E!Day
      PROVE  Judged(a)
  BY <1>1, <1>3, ChainedIsJudged DEF Follows
<1> QED BY <1>2, <1>3 DEF E!IssuesAgree, Judged

LEMMA UndosHold ==
  ASSUME PageInv
  PROVE  E!UndoRestoresTheLastChange /\ E!EditBetweenUndos
<1>1. /\ Len(turns) \in Nat /\ DOMAIN turns = 1..Len(turns)
  BY DEF PageInv, PageTypes
<1>2. ASSUME NEW s \in DOMAIN turns, E!Undo(s)
      PROVE  \E m \in 1..(s - 1) : TakesBack(turns, m, s - 1, turns[s].after)
  BY <1>1, <1>2 DEF PageInv, UndosTakeBack, E!Undo, OnlyUndo
<1>3. E!UndoRestoresTheLastChange
  <2> SUFFICES ASSUME NEW s \in DOMAIN turns, E!Undo(s), NEW j \in E!LastChange(s),
                      \A k \in j..(s - 1) : E!Kind(turns[k]) = "edit" <=> E!Changed(k)
               PROVE  turns[s].after = turns[j].before
    BY DEF E!UndoRestoresTheLastChange
  <2>1. PICK m \in 1..(s - 1) : TakesBack(turns, m, s - 1, turns[s].after)
    BY <1>2
  <2>2. j \in 1..(s - 1) /\ E!Changed(j) /\ \A k \in (j + 1)..(s - 1) : ~E!Changed(k)
    BY DEF E!LastChange
  <2>3. E!Kind(turns[j]) = "edit"
    BY <1>1, <2>2
  <2>4. ~(j \in (m + 1)..(s - 1))
    BY <2>1, <2>3 DEF TakesBack
  <2>5. m \in j..(s - 1)
    BY <1>1, <2>1, <2>2, <2>4
  <2>6. E!Changed(m)
    BY <2>1, <2>5 DEF TakesBack
  <2>7. ~(m \in (j + 1)..(s - 1))
    BY <2>2, <2>6
  <2>8. m = j
    BY <1>1, <2>2, <2>5, <2>7
  <2> QED BY <2>1, <2>8 DEF TakesBack
<1>4. E!EditBetweenUndos
  <2> SUFFICES ASSUME NEW s \in DOMAIN turns, NEW u \in DOMAIN turns, s < u, E!Undo(s), E!Undo(u)
               PROVE  \E k \in (s + 1)..(u - 1) : turns[k].called \cap E!EditTools # {}
    BY DEF E!EditBetweenUndos
  <2>1. PICK m \in 1..(u - 1) : TakesBack(turns, m, u - 1, turns[u].after)
    BY <1>2
  <2>2. E!Kind(turns[s]) = "revert"
    BY DEF E!Undo, E!Kind, E!RevertTools
  <2>3. s # m /\ ~(s \in (m + 1)..(u - 1))
    BY <2>1, <2>2 DEF TakesBack
  <2>4. m \in (s + 1)..(u - 1)
    BY <1>1, <2>1, <2>3
  <2>5. turns[m].called \cap E!EditTools # {}
    BY <2>1 DEF TakesBack, E!Kind
  <2> QED BY <2>4, <2>5
<1> QED BY <1>3, <1>4

\* The meeting agent's tools, for agendas of any length and turns of any number: the
\* tools in whatever order leave agendas whose segments follow each other, as
\* recompute_start_times sums them up, or whose times came with a text, an image or
\* an old meeting; and on those that follow, the two validators of the end agree.
THEOREM TimesAlwaysFollow ==
  ASSUME E!Setting
  PROVE  E!Spec => []E!TypeOK /\ []TimesHold
<1>1. E!Init => PageInv
  BY PageInit
<1>2. PageInv /\ [E!Next]_E!vars => PageInv'
  BY PageStep
<1>3. PageInv => E!TypeOK /\ TimesHold
  BY PageTypesHold, TimesAreTrue DEF TimesHold
<1> QED BY <1>1, <1>2, <1>3, PTL DEF E!Spec

\* An undo restores the agenda with which the last turn that changed it began, so that
\* edits of the page and what failed turns left since then go with its change, if that
\* turn is an edit to the walk and no later one is an edit that changed nothing; two
\* undos have an edit between them; and a save stores what the preview showed, unless the
\* page, a failed turn or the confirming turn changed it in between (tools.py,
\* apply_revert_last_turn and apply_save_draft).
THEOREM UndosAndSavesAreTrue ==
  ASSUME E!Setting
  PROVE  E!Spec => []EditingHolds
<1>1. E!Init => PageInv
  BY PageInit
<1>2. PageInv /\ [E!Next]_E!vars => PageInv'
  BY PageStep
<1>3. PageInv => EditingHolds
  BY UndosHold DEF PageInv, EditingHolds
<1> QED BY <1>1, <1>2, <1>3, PTL DEF E!Spec
=============================================================================
