---------------------------- MODULE PublicTurns ----------------------------
(***************************************************************************)
(* One conversation of a visitor with the public agent.  A session belongs *)
(* to the visitor whose turn was saved first, an instance of the backend   *)
(* serves one turn of it at a time, and every visitor has so many turns a  *)
(* minute and a day.  The guard is a set in the memory of an instance, the *)
(* counters and the turns are rows that all instances share.  As with the  *)
(* member's agents, a save goes on in its thread when the visitor leaves.  *)
(***************************************************************************)
EXTENDS Naturals, Sequences, FiniteSets

CONSTANTS Visitor,       \* channel and visitor_key
          Instance,      \* instances of the backend
          PerMinute, PerDay,
          MaxTurnsKept,  \* MAX_TURNS_KEPT
          NoOne,         \* nobody owns the session
          MaxRequests,   \* bound: turns asked for
          MaxMinutes,    \* bound: minutes that pass, all of one day
          Events,        \* what may happen, each once: "leave", "die", "db", "model"
          MaxEvents      \* bound: how many of the Events happen in a behaviour

\* What the constants are in the code: the limits are numbers, and nobody is not a
\* visitor.
Setting ==
  /\ {PerMinute, PerDay, MaxTurnsKept, MaxRequests, MaxMinutes} \subseteq Nat
  /\ NoOne \notin Visitor

VARIABLES
  owner, tail,  \* agent_sessions_public
  rows,         \* agent_turns_public by seq: whose turn it is and its history_cursor
  inflight,     \* instances that have the session in _inflight
  counts,       \* agent_rate_limits_public: of each visitor, by minute, and of the day
  req,          \* the requests so far, what each has read and does
  now,          \* the minute
  lapse,        \* history: a turn was saved by half, or had begun beside another
  mixed,        \* history: two visitors had turns of the session at the same time
  spent

vars == <<owner, tail, rows, inflight, counts, req, now, lapse, mixed, spent>>
session == <<owner, tail, rows>>
history == <<lapse, mixed>>

NoRow    == [by |-> 0, cursor |-> <<>>]
Requests == DOMAIN req
Day      == MaxMinutes + 1
Buckets  == 0..MaxMinutes \cup {Day}

At(r, where) == r \in Requests /\ req[r].pc \in where
GoTo(r, pc)  == req' = [req EXCEPT ![r].pc = pc]
Working      == {r \in Requests : ~At(r, {"over", "refused", "told", "unstarted"})}
Admitted     == {r \in Working : ~At(r, {"guard"})}

Once(e) ==
  /\ e \in Events \ spent /\ Cardinality(spent) < MaxEvents
  /\ spent' = spent \cup {e}

Init ==
  /\ owner = NoOne /\ tail = 0 /\ rows = [s \in 1..MaxRequests |-> NoRow]
  /\ inflight = {} /\ counts = [v \in Visitor |-> [b \in Buckets |-> 0]]
  /\ req = <<>> /\ now = 0 /\ lapse = FALSE /\ mixed = FALSE /\ spent = {}

Tick ==
  /\ now < MaxMinutes /\ now' = now + 1
  /\ UNCHANGED <<session, inflight, counts, req, history, spent>>

-----------------------------------------------------------------------------
(* Admission                                                               *)

\* A session that nobody owns yet is everybody's.
Matches(v) == owner \in {NoOne, v}

\* verify_session_access
Ask(v, i) ==
  /\ Len(req) < MaxRequests
  /\ req' = Append(req, [visitor |-> v, instance |-> i, minute |-> 0, base |-> 0,
                         history |-> <<>>, held |-> FALSE,
                         pc |-> IF Matches(v) THEN "guard" ELSE "refused",
                         calm |-> FALSE])
  /\ mixed' = (mixed \/ \E r \in Working : req[r].visitor # v)
  /\ UNCHANGED <<session, inflight, counts, now, lapse, spent>>

\* The session is let go, once, by the request that took it.
Free(r) ==
  inflight' = IF req[r].held THEN inflight \ {req[r].instance} ELSE inflight

EndAs(r, pc) ==
  /\ req' = [req EXCEPT ![r].pc = pc, ![r].held = FALSE]
  /\ Free(r)

\* Mutant: a request that is refused lets the session go, too.
GuardReleases(r) ==
  /\ At(r, {"guard"})
  /\ IF req[r].instance \in inflight
       THEN GoTo(r, "refused") /\ inflight' = inflight \ {req[r].instance}
       ELSE /\ inflight' = inflight \cup {req[r].instance}
            /\ req' = [req EXCEPT ![r].pc = "minute", ![r].minute = now, ![r].held = TRUE,
                                  ![r].calm = Admitted \ {r} = {}]
  /\ UNCHANGED <<session, counts, now, history, spent>>

\* check: refused while this instance serves a turn of the session,
Guard(r) ==
  /\ At(r, {"guard"})
  /\ IF req[r].instance \in inflight
       THEN GoTo(r, "refused") /\ UNCHANGED inflight
       ELSE /\ inflight' = inflight \cup {req[r].instance}
            /\ req' = [req EXCEPT ![r].pc = "minute", ![r].minute = now, ![r].held = TRUE,
                                  ![r].calm = Admitted \ {r} = {}]
  /\ UNCHANGED <<session, counts, now, history, spent>>

\* Mutant: what was counted before is compared.
AllowedBefore(count, limit) == count - 1 <= limit

Allowed(count, limit) == count <= limit

\* increment_agent_rate_limit_public: counts, and then compares.
Increment(r, bucket, limit, next) ==
  LET v     == req[r].visitor
      count == counts[v][bucket] + 1
  IN /\ counts' = [counts EXCEPT ![v][bucket] = count]
     /\ IF Allowed(count, limit) THEN GoTo(r, next) /\ UNCHANGED inflight
                                 ELSE EndAs(r, "refused")
     /\ UNCHANGED <<session, now, history, spent>>

\* the minute that check began in, then the day.
Count(r) ==
  \/ At(r, {"minute"}) /\ Increment(r, req[r].minute, PerMinute, "day")
  \/ At(r, {"day"})    /\ Increment(r, Day, PerDay, "tail")

-----------------------------------------------------------------------------
(* The turn                                                                *)

\* load: nothing of a session that is another's.
ReadTail(r) ==
  /\ At(r, {"tail"})
  /\ LET base == IF owner = req[r].visitor THEN tail ELSE 0 IN
     req' = [req EXCEPT ![r].base = base, ![r].pc = IF base = 0 THEN "run" ELSE "row"]
  /\ UNCHANGED <<session, inflight, counts, now, history, spent>>

ReadRow(r) ==
  /\ At(r, {"row"})
  /\ req' = [req EXCEPT ![r].history = rows[req[r].base].cursor, ![r].pc = "run"]
  /\ UNCHANGED <<session, inflight, counts, now, history, spent>>

Number(r) == req[r].base + 1

\* truncate_to_last_turns of the history, and this turn.
Cursor(r) ==
  LET h == req[r].history IN
  Append(IF Len(h) <= MaxTurnsKept THEN h ELSE SubSeq(h, Len(h) - MaxTurnsKept + 1, Len(h)), r)

\* The model answers.
Run(r) ==
  /\ At(r, {"run"}) /\ GoTo(r, "claim")
  /\ UNCHANGED <<session, inflight, counts, now, history, spent>>

\* save_turn: silently nothing for a session that has become another's.
Claim(r) ==
  /\ At(r, {"claim"})
  /\ GoTo(r, IF Matches(req[r].visitor) THEN "upsert" ELSE "tell")
  /\ UNCHANGED <<session, inflight, counts, now, history, spent>>

\* A write of a turn that was admitted while another ran.
Beside(r) == ~req[r].calm

Upsert(r) ==
  /\ At(r, {"upsert"})
  /\ owner' = req[r].visitor /\ tail' = Number(r)
  /\ GoTo(r, "insert")
  /\ lapse' = (lapse \/ Beside(r))
  /\ UNCHANGED <<rows, inflight, counts, now, mixed, spent>>

\* Mutant: the row of a turn with the same number is replaced.
InsertUpserts(r) ==
  /\ At(r, {"insert"})
  /\ rows' = [rows EXCEPT ![Number(r)] = [by |-> r, cursor |-> Cursor(r)]]
  /\ lapse' = (lapse \/ Beside(r))
  /\ GoTo(r, "tell")
  /\ UNCHANGED <<owner, tail, inflight, counts, now, mixed, spent>>

\* A number that is taken is an error.
Insert(r) ==
  /\ At(r, {"insert"})
  /\ IF rows[Number(r)] = NoRow
       THEN /\ rows' = [rows EXCEPT ![Number(r)] = [by |-> r, cursor |-> Cursor(r)]]
            /\ lapse' = (lapse \/ Beside(r))
            /\ GoTo(r, "tell") /\ UNCHANGED inflight
       ELSE EndAs(r, "over") /\ lapse' = TRUE /\ UNCHANGED rows
  /\ UNCHANGED <<owner, tail, counts, now, mixed, spent>>

\* "done", to a visitor who is still there.
Tell(r) ==
  /\ At(r, {"tell"})
  /\ EndAs(r, IF req[r].held THEN "told" ELSE "over")
  /\ UNCHANGED <<session, counts, now, history, spent>>

\* The model or a statement fails: the turn ends with an error.
Fail(r) ==
  /\ \/ At(r, {"run"}) /\ Once("model")
     \/ At(r, {"minute", "day", "tail", "row", "claim", "upsert", "insert"}) /\ Once("db")
  /\ lapse' = (lapse \/ At(r, {"insert"}))
  /\ EndAs(r, "over")
  /\ UNCHANGED <<session, counts, now, mixed>>

\* The visitor leaves: the stream is cancelled where it waits and lets the session
\* go; a save that has begun goes on in its thread, one that is still queued may.
Leave(r) ==
  /\ At(r, {"tail", "row", "run", "claim", "upsert", "insert", "tell"}) /\ req[r].held
  /\ Once("leave")
  /\ \/ ~At(r, {"upsert", "insert"}) /\ EndAs(r, "over")
     \/ At(r, {"claim", "upsert", "insert"}) /\ EndAs(r, req[r].pc)
  /\ UNCHANGED <<session, counts, now, history>>

\* The visitor leaves before the stream has begun, and what would let the session go
\* is in the stream: the instance keeps a session that it does not serve.
Strand(r) ==
  /\ At(r, {"tail"}) /\ req[r].held
  /\ Once("leave")
  /\ GoTo(r, "unstarted")
  /\ UNCHANGED <<session, inflight, counts, now, history>>

\* The requests of an instance that it still serves or keeps the session for.
Of(i) == {r \in Requests : req[r].instance = i /\ (r \in Working \/ req[r].held)}

\* An instance ends, with what it was doing.
Die(i) ==
  /\ i \in inflight /\ Once("die")
  /\ LET gone == Of(i) IN
     /\ req' = [r \in Requests |-> IF r \in gone THEN [req[r] EXCEPT !.pc = "over", !.held = FALSE]
                                                 ELSE req[r]]
     /\ lapse' = (lapse \/ \E r \in gone : At(r, {"insert"}))
  /\ inflight' = inflight \ {i}
  /\ UNCHANGED <<session, counts, now, mixed>>

Step(r) ==
  \/ Guard(r) \/ Count(r) \/ ReadTail(r) \/ ReadRow(r) \/ Run(r)
  \/ Claim(r) \/ Upsert(r) \/ Insert(r) \/ Tell(r) \/ Fail(r) \/ Leave(r)
  \/ Strand(r)

Next ==
  \/ Tick
  \/ \E v \in Visitor, i \in Instance : Ask(v, i)
  \/ \E r \in Requests : Step(r)
  \/ \E i \in Instance : Die(i)

Spec == Init /\ [][Next]_vars

-----------------------------------------------------------------------------
(* Properties                                                              *)

Pcs == {"guard", "minute", "day", "tail", "row", "run", "claim", "upsert", "insert", "tell",
        "refused", "over", "told", "unstarted"}

TypeOK ==
  /\ owner \in Visitor \cup {NoOne} /\ tail \in 0..MaxRequests
  /\ \A s \in DOMAIN rows : rows[s].by \in 0..Len(req)
  /\ inflight \subseteq Instance
  /\ counts \in [Visitor -> [Buckets -> Nat]]
  /\ \A r \in Requests : /\ req[r].visitor \in Visitor /\ req[r].instance \in Instance
                         /\ req[r].minute \in 0..MaxMinutes /\ req[r].base \in 0..MaxRequests
                         /\ req[r].pc \in Pcs /\ req[r].held \in BOOLEAN
  /\ now \in 0..MaxMinutes /\ lapse \in BOOLEAN /\ mixed \in BOOLEAN

\* "Another turn is already running for this session": on one instance two turns
\* never run at once, and the next one is kept out only by a turn that runs there, or
\* by one that was admitted and whose stream never began, until the instance ends.
GuardHolds ==
  \A i \in Instance :
    LET holders == {r \in Requests : req[r].instance = i /\ req[r].held} IN
    /\ Cardinality(holders) = IF i \in inflight THEN 1 ELSE 0
    /\ \A r \in holders : r \in Working \/ At(r, {"unstarted"})

\* The model runs at most so often a minute and a day for a visitor, on all
\* instances together.
Ran(v) == {r \in Requests : req[r].visitor = v /\ req[r].pc \in
             {"tail", "row", "run", "claim", "upsert", "insert", "tell", "told"}}

LimitsHold ==
  \A v \in Visitor :
    /\ Cardinality(Ran(v)) <= PerDay
    /\ \A m \in 0..MaxMinutes : Cardinality({r \in Ran(v) : req[r].minute = m}) <= PerMinute

\* A turn that the visitor saw done stays stored under its number, whatever other
\* instances do, and the next one goes on from it; unless two visitors began the
\* session at the same time, when it may be nobody's.
DoneIsStored ==
  ~mixed => \A r \in Requests : At(r, {"told"}) => rows[Number(r)].by = r

\* Nobody goes on from a turn of someone else, with the same exception.
HistoryIsOwn ==
  ~mixed => \A r \in Requests, k \in 1..MaxRequests :
              k \in DOMAIN req[r].history => req[req[r].history[k]].visitor = req[r].visitor

\* The history that a stored turn hands on is what is stored before it, all of it or
\* at least the last MaxTurnsKept turns, unless a turn admitted beside another was
\* saved, or one by half.
HistoryIsWhatIsStored ==
  ~lapse => \A s \in DOMAIN rows : rows[s] # NoRow =>
    LET h == rows[s].cursor
        first == s - Len(h)
    IN /\ Len(h) <= s /\ (Len(h) = s \/ Len(h) >= MaxTurnsKept)
       /\ \A k \in DOMAIN h : h[k] = rows[first + k].by
=============================================================================
