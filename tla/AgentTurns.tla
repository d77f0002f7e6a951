----------------------------- MODULE AgentTurns -----------------------------
(***************************************************************************)
(* One conversation with the club's agents.  A turn is answered by the     *)
(* router alone or by a specialist; it reads the stored history, runs the  *)
(* model on a view of it, and is saved in two statements: the session's    *)
(* tail, then the row of the turn, whose history_cursor is the history for *)
(* the next one.  A save runs in a thread that outlives its caller, so a   *)
(* turn the member stopped can land later, and so can the router's, which  *)
(* answers before it saves; a revert removes turns again.                  *)
(***************************************************************************)
EXTENDS Naturals, Sequences, FiniteSets

CONSTANTS Specialist,     \* the agents with tools; one of them is the meeting agent
          MaxTurnsKept,   \* MAX_TURNS_KEPT
          MaxTurns,       \* bound: turns the member asks for
          MaxReverts,     \* bound: reverts
          Events,         \* what may happen, each once: "stop", "die", "db", "model"
          MaxEvents       \* bound: how many of the Events happen in a behaviour

\* What the constants are in the code: so many turns are kept.
Setting == MaxTurnsKept \in Nat /\ MaxTurns \in Nat

VARIABLES
  tail,     \* agent_sessions.tail_seq
  rows,     \* agent_turns by seq: whose turn it is and its history_cursor
  agent,    \* who answers each turn asked for so far
  turn,     \* progress of each turn and what it has read
  client,   \* the turn the member waits for, or 0
  undo,     \* the seq a revert goes back to, or 0
  shown,    \* history: specialists' turns the member saw done and has not reverted
  lapse,    \* history: a save or a revert was done by half, or the write of a turn
            \* overlapped another turn or a revert
  reverts, spent

vars == <<tail, rows, agent, turn, client, undo, shown, lapse, reverts, spent>>

Router  == "router"
Meeting == "meeting"
Asked   == DOMAIN agent
NoRow   == [by |-> 0, cursor |-> <<>>]

Once(e) ==
  /\ e \in Events \ spent /\ Cardinality(spent) < MaxEvents
  /\ spent' = spent \cup {e}

Init ==
  /\ tail = 0 /\ rows = [s \in 1..MaxTurns |-> NoRow]
  /\ agent = <<>> /\ turn = <<>>
  /\ client = 0 /\ undo = 0
  /\ shown = {} /\ lapse = FALSE /\ reverts = 0 /\ spent = {}

GoTo(t, pc)  == turn' = [turn EXCEPT ![t].pc = pc]
At(t, where) == t \in Asked /\ turn[t].pc \in where

-----------------------------------------------------------------------------
(* Histories: sequences of turns, oldest first.  Of a turn only this is    *)
(* kept: whose it is, whether its tool calls are there, and the agent      *)
(* whose system prompt stands before it.                                   *)

\* replace_system_prompt: one prompt, before the first message.
ReplaceSystemPrompt(h, a) ==
  [i \in DOMAIN h |-> [h[i] EXCEPT !.prompt = IF i = 1 THEN a ELSE "none"]]

\* truncate_to_last_turns
Truncate(h) ==
  IF Len(h) <= MaxTurnsKept THEN h ELSE SubSeq(h, Len(h) - MaxTurnsKept + 1, Len(h))

\* strip_foreign_agent_tool_calls: the agents share no tool.
StripForeign(h, a) ==
  [i \in DOMAIN h |-> [h[i] EXCEPT !.tools = @ /\ agent[h[i].by] = a]]

\* prepare_history_for_agent: what the model sees, and what is saved.
ModelView(h, a)    == Truncate(ReplaceSystemPrompt(StripForeign(h, a), a))
StoragePrior(h, a) == Truncate(ReplaceSystemPrompt(h, a))

\* A specialist brings its own prompt only when it starts with no history.
NewTurn(t, h) ==
  [by     |-> t,
   tools  |-> agent[t] # Router,
   prompt |-> IF agent[t] # Router /\ h = <<>> THEN agent[t] ELSE "none"]

\* Mutant: the view of the model is saved.
CursorOfView(t, h) ==
  Append(IF agent[t] = Router THEN h ELSE ModelView(h, agent[t]), NewTurn(t, h))

\* A specialist saves its unfiltered prior; the router appends its exchange to
\* the history as it was loaded.
Cursor(t, h) ==
  Append(IF agent[t] = Router THEN h ELSE StoragePrior(h, agent[t]), NewTurn(t, h))

-----------------------------------------------------------------------------
(* A turn                                                                  *)

\* The route the model chose: a specialist, of which the meeting agent needs
\* the agenda of a draft page, or an answer of the router's own.
Decision(choice, agenda) ==
  IF choice \in Specialist /\ (choice = Meeting => agenda) THEN choice ELSE Router

\* The member waits for the end of a turn before the next one, but not for the
\* end of a revert.
Ask(choice, agenda) ==
  /\ client = 0 /\ Len(agent) < MaxTurns
  /\ agent' = Append(agent, Decision(choice, agenda))
  /\ turn' = Append(turn, [pc |-> "tail", base |-> 0, history |-> <<>>,
                           calm |-> undo = 0 /\ \A t \in Asked : At(t, {"over"}),
                           reverts |-> reverts])
  /\ client' = Len(agent')
  /\ UNCHANGED <<tail, rows, undo, shown, lapse, reverts, spent>>

\* load: the tail, then the row it names; a row that is missing is no history.
ReadTail(t) ==
  /\ At(t, {"tail"})
  /\ turn' = [turn EXCEPT ![t].base = tail, ![t].pc = IF tail = 0 THEN "run" ELSE "row"]
  /\ UNCHANGED <<tail, rows, agent, client, undo, shown, lapse, reverts, spent>>

ReadRow(t) ==
  /\ At(t, {"row"})
  /\ turn' = [turn EXCEPT ![t].history = rows[turn[t].base].cursor, ![t].pc = "run"]
  /\ UNCHANGED <<tail, rows, agent, client, undo, shown, lapse, reverts, spent>>

\* The next turn takes the number after the tail that it read.
Number(t) == turn[t].base + 1

\* The answer or the error that ends the wait.
Told(t) == client' = IF client = t THEN 0 ELSE client

\* The model has answered.  The router's answer is sent before it is saved.
Run(t) ==
  /\ At(t, {"run"})
  /\ GoTo(t, "upsert")
  /\ IF agent[t] = Router THEN Told(t) ELSE UNCHANGED client
  /\ UNCHANGED <<tail, rows, agent, undo, shown, lapse, reverts, spent>>

\* A write of a turn that overlaps another turn or a revert.
Late(t) == t # Len(agent) \/ ~turn[t].calm \/ turn[t].reverts # reverts

\* save_turn: the session's tail, whatever it is by now,
Upsert(t) ==
  /\ At(t, {"upsert"})
  /\ tail' = Number(t)
  /\ lapse' = (lapse \/ Late(t))
  /\ GoTo(t, "insert")
  /\ UNCHANGED <<rows, agent, client, undo, shown, reverts, spent>>

\* Mutant: the row of a turn with the same number is replaced.
InsertUpserts(t) ==
  /\ At(t, {"insert"})
  /\ rows' = [rows EXCEPT ![Number(t)] = [by |-> t, cursor |-> Cursor(t, turn[t].history)]]
  /\ lapse' = (lapse \/ Late(t))
  /\ GoTo(t, IF agent[t] = Router THEN "over" ELSE "tell")
  /\ UNCHANGED <<tail, agent, client, undo, shown, reverts, spent>>

\* then the row.  A number that is taken is an error, which the router only logs.
Insert(t) ==
  /\ At(t, {"insert"})
  /\ LET n == Number(t) IN
     IF rows[n] = NoRow
       THEN /\ rows' = [rows EXCEPT ![n] = [by |-> t, cursor |-> Cursor(t, turn[t].history)]]
            /\ GoTo(t, IF agent[t] = Router THEN "over" ELSE "tell")
            /\ lapse' = (lapse \/ Late(t))
            /\ UNCHANGED client
       ELSE /\ GoTo(t, "over") /\ Told(t)
            /\ lapse' = TRUE /\ UNCHANGED rows
  /\ UNCHANGED <<tail, agent, undo, shown, reverts, spent>>

\* "done", to a member who still waits for it.
Tell(t) ==
  /\ At(t, {"tell"})
  /\ shown' = IF client = t THEN shown \cup {t} ELSE shown
  /\ Told(t) /\ GoTo(t, "over")
  /\ UNCHANGED <<tail, rows, agent, undo, lapse, reverts, spent>>

\* The model or a statement fails: the turn ends with an error.
Fail(t) ==
  /\ \/ At(t, {"run"}) /\ Once("model")
     \/ At(t, {"tail", "row", "upsert", "insert"}) /\ Once("db")
  /\ lapse' = (lapse \/ At(t, {"insert"}))
  /\ GoTo(t, "over") /\ Told(t)
  /\ UNCHANGED <<tail, rows, agent, undo, shown, reverts>>

\* Stop: the stream is cancelled where it waits; a save that has begun goes on
\* in its thread, one that is still queued may.
Stop ==
  /\ client # 0 /\ Once("stop")
  /\ \/ ~At(client, {"insert"}) /\ GoTo(client, "over")
     \/ At(client, {"upsert", "insert"}) /\ UNCHANGED turn
  /\ client' = 0
  /\ UNCHANGED <<tail, rows, agent, undo, shown, lapse, reverts>>

-----------------------------------------------------------------------------
(* Reverting, and the end of the process                                   *)

\* /revert of a meeting turn, between turns: its row and the later ones go,
Revert(t) ==
  /\ client = 0 /\ undo = 0 /\ reverts < MaxReverts
  /\ t \in shown /\ agent[t] = Meeting
  /\ LET n == Number(t) IN
       /\ rows[n] # NoRow
       /\ rows' = [s \in DOMAIN rows |-> IF s >= n THEN NoRow ELSE rows[s]]
       /\ undo' = n
       /\ shown' = {u \in shown : Number(u) < n}
  /\ reverts' = reverts + 1
  /\ UNCHANGED <<tail, agent, turn, client, lapse, spent>>

\* then the tail moves back, unless that statement fails.
RevertTail ==
  /\ undo # 0
  /\ \/ tail' = undo - 1 /\ UNCHANGED <<lapse, spent>>
     \/ Once("db") /\ lapse' = TRUE /\ UNCHANGED tail
  /\ undo' = 0
  /\ UNCHANGED <<rows, agent, turn, client, shown, reverts>>

\* The process dies; what its turns were doing is over.
Die ==
  /\ Once("die")
  /\ turn' = [t \in Asked |-> [turn[t] EXCEPT !.pc = "over"]]
  /\ lapse' = (lapse \/ undo # 0 \/ \E t \in Asked : At(t, {"insert"}))
  /\ client' = 0 /\ undo' = 0
  /\ UNCHANGED <<tail, rows, agent, shown, reverts>>

TurnStep(t) ==
  \/ ReadTail(t) \/ ReadRow(t) \/ Run(t) \/ Upsert(t) \/ Insert(t) \/ Tell(t) \/ Fail(t)

Next ==
  \/ \E choice \in Specialist \cup {Router}, agenda \in BOOLEAN : Ask(choice, agenda)
  \/ \E t \in Asked : TurnStep(t) \/ Revert(t)
  \/ Stop \/ RevertTail \/ Die

Spec == Init /\ [][Next]_vars

-----------------------------------------------------------------------------
(* Properties                                                              *)

Numbers == 0..MaxTurns
Pcs     == {"tail", "row", "run", "upsert", "insert", "tell", "over"}
History(h) ==
  \A i \in DOMAIN h : h[i].by \in Asked /\ h[i].prompt \in Specialist \cup {"none"}

TypeOK ==
  /\ tail \in Numbers /\ client \in Numbers /\ undo \in Numbers
  /\ \A s \in DOMAIN rows : rows[s].by \in Numbers /\ History(rows[s].cursor)
  /\ \A t \in Asked : /\ agent[t] \in Specialist \cup {Router}
                      /\ turn[t].pc \in Pcs /\ turn[t].base \in Numbers
                      /\ History(turn[t].history)
  /\ shown \subseteq Asked /\ lapse \in BOOLEAN

\* A specialist's turn that the member saw done is stored under its number until
\* the member reverts it, whatever other turns do late.
DoneIsStored == \A t \in shown : rows[Number(t)].by = t

\* The history a stored turn hands on is what is stored: the turns up to it, all
\* of them or at least the last MaxTurnsKept, with every agent's tool calls.
\* Writes that overlap or were done by half are the exception.
HistoryIsWhatIsStored ==
  ~lapse => \A s \in DOMAIN rows : rows[s] # NoRow =>
    LET h == rows[s].cursor
        first == s - Len(h)
    IN /\ Len(h) <= s /\ (Len(h) = s \/ Len(h) >= MaxTurnsKept)
       /\ \A i \in DOMAIN h : /\ h[i].by = rows[first + i].by
                              /\ h[i].tools = (agent[h[i].by] # Router)

\* history.py:85-92: a history that is not empty and has no system prompt leaves
\* "the agent prompt-less", so its own is put before the first message.
KeepsItsPrompt ==
  \A t \in Asked : At(t, {"run"}) /\ agent[t] # Router =>
    LET view == ModelView(turn[t].history, agent[t]) IN
    view # <<>> => \E i \in DOMAIN view : view[i].prompt = agent[t]
=============================================================================
