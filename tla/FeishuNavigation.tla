-------------------------- MODULE FeishuNavigation --------------------------
(***************************************************************************)
(* One Feishu conversation: the workspace it has selected, its interaction *)
(* mode and its one pending confirmation, each a row of the Controller's   *)
(* SQLite file and each changed in a transaction of its own.  Message      *)
(* hooks run when a message arrives, tool calls of the agent run beside    *)
(* them and beside each other, and what a confirmed call asks for is done  *)
(* by the Controller, which may answer after the caller has given up.      *)
(***************************************************************************)
EXTENDS Naturals, FiniteSets, Sequences

CONSTANTS Call,         \* tool calls
          Member,       \* members of the conversation
          Workspace,    \* workspace ids, those still to be created included
          Initial,      \* the workspaces that exist at first
          NoOne,        \* no workspace, call or confirmation
          Tools,        \* the tools that are called: see Tool
          MaxMessages,  \* bound: messages the members send
          MaxCommands,  \* bound: /new, /readonly and /editing
          Events,       \* what else may happen, each once: see Once
          MaxEvents     \* bound: how many of the Events happen in a behaviour

Tool == {"create", "delete", "suggest", "describe", "select", "import", "write"}

\* What the constants are in the code: the tools that are called are tools of
\* this module, and the workspaces that exist at first are workspaces.
Setting == Tools \subseteq Tool /\ Initial \subseteq Workspace

VARIABLES
  binding,   \* feishu_workspace_bindings
  mode,      \* feishu_interaction_modes
  pending,   \* feishu_pending_confirmations
  hook,      \* the hook that handles a command
  from,      \* the member who sent each message
  call,      \* tool calls: progress and what they have read
  exists,    \* workspaces in the inbox
  mv,        \* manifest versions, 0 before a workspace is created
  request,   \* requests the Controller has: "none", "sent", "at work", "ok" or "error"
  editFor,   \* history: the workspace selected when editing began
  asked,     \* history: confirmations staged
  done,      \* history: what confirmed calls have done
  commands,  \* bound: commands so far
  spent      \* the Events that have happened

store  == <<binding, mode, pending>>
inbox  == <<exists, mv, request>>
history == <<editFor, asked, done>>
vars == <<store, hook, from, call, inbox, history, commands, spent>>

Idle == [pc |-> "idle", tool |-> NoOne, yes |-> FALSE, msg |-> 0, ws |-> NoOne, mv |-> 0]

\* A conversation that was last read-only, with or without a workspace.
Init ==
  /\ binding \in Initial \cup {NoOne} /\ mode = "readonly" /\ pending = NoOne
  /\ hook = "idle" /\ from = <<>>
  /\ call = [c \in Call |-> Idle]
  /\ exists = Initial /\ mv = [w \in Workspace |-> IF w \in Initial THEN 1 ELSE 0]
  /\ request = [c \in Call |-> "none"]
  /\ editFor = NoOne /\ asked = {} /\ done = {}
  /\ commands = 0 /\ spent = {}

Once(e) ==
  /\ e \in Events \ spent /\ Cardinality(spent) < MaxEvents
  /\ spent' = spent \cup {e}

GoTo(c, pc) == call' = [call EXCEPT ![c].pc = pc]
At(c, pc)   == call[c].pc = pc
Asker(c)    == from[call[c].msg]

-----------------------------------------------------------------------------
(* Messages of the members                                                 *)

Message(m) ==
  /\ Len(from) < MaxMessages
  /\ from' = Append(from, m)
  /\ UNCHANGED <<store, hook, call, inbox, history, commands, spent>>

\* /new and /readonly, as set_read_only: the mode, then the confirmation.
ReadOnlyCommand ==
  /\ hook = "idle" /\ commands < MaxCommands
  /\ commands' = commands + 1
  /\ mode' = "readonly" /\ hook' = "clear"
  /\ UNCHANGED <<binding, pending, from, call, inbox, history, spent>>

HookClears ==
  /\ hook = "clear"
  /\ pending' = NoOne /\ hook' = "idle"
  /\ UNCHANGED <<binding, mode, from, call, inbox, history, commands, spent>>

EditingCommand ==
  /\ hook = "idle" /\ commands < MaxCommands /\ mode = "readonly"
  /\ commands' = commands + 1
  /\ mode' = "editing" /\ editFor' = binding
  /\ UNCHANGED <<binding, pending, hook, from, call, inbox, asked, done, spent>>

-----------------------------------------------------------------------------
(* A tool call: the guard, the mode, the selected workspace                *)

\* The tools guard_feishu_writes looks at before the call; a suggestion is a
\* description that is not confirmed, and selecting is navigation.
Guarded == {"create", "delete", "describe", "import", "write"}

\* The agent calls a tool in the turn of a message.  What it puts into "yes"
\* and into the workspace argument is its own decision; select_workspace reads
\* the workspace before it binds it.
StartCall(c, t, yes, w) ==
  /\ At(c, "idle") /\ from # <<>>
  /\ t \in Guarded => mode = "editing"
  /\ yes => t \in {"create", "delete", "describe"}
  /\ t = "describe" => yes
  /\ w # NoOne <=> t \in {"select", "write"}
  /\ \E n \in 1..Len(from) :
       call' = [call EXCEPT ![c] =
         [pc |-> CASE t \in {"create", "delete"}     -> "editing"
                   [] t \in {"suggest", "describe"}  -> "active"
                   [] t = "import"                   -> "active"
                   [] t = "select"                   -> IF w \in exists THEN "bind" ELSE "over"
                   [] t = "write"                    -> "selected",
          tool |-> t, yes |-> yes, msg |-> n, ws |-> w, mv |-> 0]]
  /\ UNCHANGED <<store, hook, from, inbox, history, commands, spent>>

\* The guard of a raw write compares its argument with the selected workspace;
\* the agent passes the manifest version it knows.
GuardWrite(c) ==
  /\ At(c, "selected")
  /\ call' = [call EXCEPT ![c].pc = IF binding = call[c].ws THEN "write" ELSE "over",
                          ![c].mv = mv[call[c].ws]]
  /\ UNCHANGED <<store, hook, from, inbox, history, commands, spent>>

\* After require_editing.
AfterEditing(t, yes) ==
  CASE t = "create" -> IF yes THEN "consume" ELSE "stage"
    [] t = "delete" -> "active"
    [] t = "describe" -> "consume"
    [] t = "import" -> "write"

RequireEditing(c) ==
  /\ At(c, "editing")
  /\ GoTo(c, IF mode = "editing" THEN AfterEditing(call[c].tool, call[c].yes) ELSE "over")
  /\ UNCHANGED <<store, hook, from, inbox, history, commands, spent>>

\* After _active_workspace.
AfterActive(t, yes) ==
  CASE t = "delete"  -> IF yes THEN "consume" ELSE "stage"
    [] t = "suggest" -> "suggesting"
    [] t \in {"describe", "import"} -> "editing"

ActiveWorkspace(c) ==
  /\ At(c, "active")
  /\ call' = [call EXCEPT ![c].ws = binding,
                          ![c].pc = IF binding = NoOne THEN "over" ELSE "context"]
  /\ UNCHANGED <<store, hook, from, inbox, history, commands, spent>>

ClearWorkspace(w) == binding' = IF binding = w THEN NoOne ELSE binding

\* get_context: a workspace that has vanished is forgotten.  A suggestion is
\* then asked for at the Controller.
GetContext(c) ==
  /\ At(c, "context")
  /\ LET w == call[c].ws IN
     IF w \in exists
     THEN /\ call' = [call EXCEPT ![c].mv = mv[w],
                                  ![c].pc = AfterActive(call[c].tool, call[c].yes)]
          /\ request' = [request EXCEPT ![c] = IF call[c].tool = "suggest" THEN "sent" ELSE @]
          /\ UNCHANGED binding
     ELSE GoTo(c, "over") /\ ClearWorkspace(w) /\ UNCHANGED request
  /\ UNCHANGED <<mode, pending, hook, from, exists, mv, history, commands, spent>>

-----------------------------------------------------------------------------
(* Confirmations                                                           *)

\* What is confirmed: a deletion names its workspace, a description the
\* workspace and the manifest it was made for, a creation its setup.
Payload(c) ==
  [action |-> call[c].tool,
   ws |-> IF call[c].tool = "create" THEN NoOne ELSE call[c].ws,
   mv |-> IF call[c].tool = "suggest" THEN call[c].mv ELSE 0]

\* stage_confirmation replaces whatever was pending.  A suggestion is staged
\* as the action "describe" that will save it.
Stage(c) ==
  /\ At(c, "stage")
  /\ LET payload == [Payload(c) EXCEPT !.action = IF @ = "suggest" THEN "describe" ELSE @]
     IN /\ pending' = [what |-> payload, msg |-> call[c].msg, by |-> Asker(c), late |-> FALSE]
        /\ asked' = asked \cup {[what |-> payload, msg |-> call[c].msg, by |-> Asker(c)]}
  /\ GoTo(c, "over")
  /\ UNCHANGED <<binding, mode, hook, from, inbox, editFor, done, commands, spent>>

\* Ten minutes pass.
Expire ==
  /\ pending # NoOne /\ Once("expire")
  /\ pending' = [pending EXCEPT !.late = TRUE]
  /\ UNCHANGED <<binding, mode, hook, from, call, inbox, history, commands>>

\* Mutant: the payload is not compared.
MatchesAction(c) ==
  /\ pending # NoOne
  /\ pending.what.action = call[c].tool
  /\ pending.msg # call[c].msg /\ pending.by = Asker(c)

\* The SELECT and the comparisons of _consume_confirmation.  A description is
\* consumed whatever it is for.
Matches(c) ==
  /\ pending # NoOne
  /\ pending.what.action = call[c].tool
  /\ call[c].tool = "describe" \/ pending.what = Payload(c)
  /\ pending.msg # call[c].msg /\ pending.by = Asker(c)

\* The SELECT does not open a transaction: the DELETE is a step of its own, so
\* two calls may both find the confirmation.  A mismatch stages the request
\* again, except for a description.
Consume(c) ==
  /\ At(c, "consume")
  /\ IF Matches(c)
     THEN call' = [call EXCEPT
            ![c].pc = IF pending.late THEN "expired" ELSE "consumed",
            ![c].ws = IF call[c].tool = "describe" /\ pending.what.ws # @ THEN NoOne ELSE @,
            ![c].mv = IF call[c].tool = "describe" THEN pending.what.mv ELSE @]
     ELSE GoTo(c, IF call[c].tool = "describe" THEN "over" ELSE "stage")
  /\ UNCHANGED <<store, hook, from, inbox, history, commands, spent>>

\* After the DELETE: create the workspace, send its deletion to the Controller
\* with the manifest version the call read, or save the description if it is
\* for the workspace that is selected.
AfterConfirmation(c) ==
  CASE call[c].tool = "create" -> "create"
    [] call[c].tool = "delete" -> "deleting"
    [] call[c].tool = "describe" -> IF call[c].ws = NoOne THEN "over" ELSE "write"

DeleteConfirmation(c) ==
  /\ call[c].pc \in {"consumed", "expired"}
  /\ pending' = NoOne
  /\ GoTo(c, IF At(c, "consumed") THEN AfterConfirmation(c)
             ELSE IF call[c].tool = "describe" THEN "over" ELSE "stage")
  /\ request' = [request EXCEPT ![c] =
                   IF At(c, "consumed") /\ call[c].tool = "delete" THEN "sent" ELSE @]
  /\ UNCHANGED <<binding, mode, hook, from, exists, mv, history, commands, spent>>

-----------------------------------------------------------------------------
(* What the calls do                                                       *)

Performed(c, w) ==
  done' = done \cup {[what |-> call[c].tool, ws |-> w, by |-> Asker(c), msg |-> call[c].msg,
                      for |-> call[c].mv, at |-> mv[w]]}

CreateWorkspace(c) ==
  /\ At(c, "create")
  /\ \E w \in Workspace :
       /\ mv[w] = 0
       /\ exists' = exists \cup {w} /\ mv' = [mv EXCEPT ![w] = 1]
       /\ call' = [call EXCEPT ![c].ws = w, ![c].pc = "bind"]
       /\ Performed(c, w)
  /\ UNCHANGED <<store, hook, from, request, editFor, asked, commands, spent>>

\* Mutant: a switch keeps the mode.
BindKeepsMode(c) ==
  /\ At(c, "bind")
  /\ binding' = call[c].ws
  /\ GoTo(c, "clear")
  /\ UNCHANGED <<mode, pending, hook, from, inbox, history, commands, spent>>

Bind(c) ==
  /\ At(c, "bind")
  /\ binding' = call[c].ws
  /\ GoTo(c, "mode")
  /\ UNCHANGED <<mode, pending, hook, from, inbox, history, commands, spent>>

\* set_read_only; when the store is out of reach the switch stays half done.
SetReadOnly(c) ==
  /\ At(c, "mode")
  /\ \/ mode' = "readonly" /\ GoTo(c, "clear") /\ UNCHANGED spent
     \/ Once("store") /\ GoTo(c, "torn") /\ UNCHANGED mode
  /\ UNCHANGED <<binding, pending, hook, from, inbox, history, commands>>

ClearConfirmation(c) ==
  /\ At(c, "clear")
  /\ pending' = NoOne
  /\ GoTo(c, "over")
  /\ UNCHANGED <<binding, mode, hook, from, inbox, history, commands, spent>>

\* The Controller removes the workspace, perhaps long after the call gave up.
PerformDelete(c) ==
  /\ call[c].tool = "delete" /\ request[c] = "sent"
  /\ LET w == call[c].ws IN
     IF w \in exists /\ mv[w] = call[c].mv
     THEN /\ exists' = exists \ {w}
          /\ request' = [request EXCEPT ![c] = "ok"]
          /\ Performed(c, w)
     ELSE /\ request' = [request EXCEPT ![c] = "error"]
          /\ UNCHANGED <<exists, done>>
  /\ UNCHANGED <<store, hook, from, call, mv, editFor, asked, commands, spent>>

HearDelete(c) ==
  /\ At(c, "deleting") /\ request[c] \in {"ok", "error"}
  /\ IF request[c] = "ok" THEN ClearWorkspace(call[c].ws) ELSE UNCHANGED binding
  /\ GoTo(c, "over")
  /\ UNCHANGED <<mode, pending, hook, from, inbox, history, commands, spent>>

\* Mutant: the description is saved on the manifest of the moment.
WriteCurrent(c) == call[c].ws \in exists

\* Every write names the manifest version it is for.
WriteAllowed(c) == call[c].ws \in exists /\ mv[call[c].ws] = call[c].mv

\* update_sources, upload_sources_from_paths or a raw write.
Write(c) ==
  /\ At(c, "write")
  /\ IF WriteAllowed(c)
     THEN mv' = [mv EXCEPT ![call[c].ws] = @ + 1] /\ Performed(c, call[c].ws)
     ELSE UNCHANGED <<mv, done>>
  /\ GoTo(c, "over")
  /\ UNCHANGED <<store, hook, from, exists, request, editFor, asked, commands, spent>>

-----------------------------------------------------------------------------
(* The description service of the Controller                               *)

Fits(c) == call[c].ws \in exists /\ mv[call[c].ws] = call[c].mv

\* One suggestion per source at a time, without waiting, for the manifest the
\* caller has seen; the context is read before the turn.
BeginSuggest(c) ==
  /\ call[c].tool = "suggest" /\ request[c] = "sent"
  /\ LET free == \A d \in Call : request[d] = "at work" => call[d].ws # call[c].ws
     IN request' = [request EXCEPT ![c] = IF free /\ Fits(c) THEN "at work" ELSE "error"]
  /\ UNCHANGED <<store, hook, from, call, exists, mv, history, commands, spent>>

\* After the turn the target is looked at again; the turn itself may fail.
EndSuggest(c) ==
  /\ request[c] = "at work"
  /\ \/ Fits(c) /\ request' = [request EXCEPT ![c] = "ok"]
     \/ request' = [request EXCEPT ![c] = "error"]
  /\ UNCHANGED <<store, hook, from, call, exists, mv, history, commands, spent>>

\* The suggestion is staged without a second look at the mode.
HearSuggest(c) ==
  /\ At(c, "suggesting") /\ request[c] \in {"ok", "error"}
  /\ GoTo(c, IF request[c] = "ok" THEN "stage" ELSE "over")
  /\ UNCHANGED <<store, hook, from, inbox, history, commands, spent>>

\* 30 s for a deletion, 330 s for a suggestion: the caller is told it failed.
GiveUp(c) ==
  /\ call[c].pc \in {"deleting", "suggesting"} /\ Once("timeout")
  /\ GoTo(c, "over")
  /\ UNCHANGED <<store, hook, from, inbox, history, commands>>

-----------------------------------------------------------------------------
(* The web editor and other conversations                                  *)

OtherWrite(w) ==
  /\ w \in exists /\ Once("member")
  /\ mv' = [mv EXCEPT ![w] = @ + 1]
  /\ UNCHANGED <<store, hook, from, call, exists, request, history, commands>>

\* Another conversation deletes a workspace, which clears every binding to it;
\* the web editor deletes it and leaves the bindings.
OtherDelete(w) ==
  /\ w \in exists /\ Once("elsewhere")
  /\ exists' = exists \ {w}
  /\ \/ ClearWorkspace(w)
     \/ UNCHANGED binding
  /\ UNCHANGED <<mode, pending, hook, from, call, mv, request, history, commands>>

-----------------------------------------------------------------------------
CallStep(c) ==
  \/ GuardWrite(c) \/ RequireEditing(c) \/ ActiveWorkspace(c) \/ GetContext(c)
  \/ Stage(c) \/ Consume(c) \/ DeleteConfirmation(c)
  \/ CreateWorkspace(c) \/ Bind(c) \/ SetReadOnly(c)
  \/ ClearConfirmation(c) \/ HearDelete(c) \/ Write(c)
  \/ HearSuggest(c) \/ GiveUp(c)

ControllerStep(c) == PerformDelete(c) \/ BeginSuggest(c) \/ EndSuggest(c)

Next ==
  \/ \E m \in Member : Message(m)
  \/ ReadOnlyCommand \/ HookClears \/ EditingCommand \/ Expire
  \/ \E c \in Call :
       At(c, "idle") /\ \E t \in Tools, yes \in BOOLEAN, w \in Workspace \cup {NoOne} :
                         StartCall(c, t, yes, w)
  \/ \E c \in Call : CallStep(c) \/ ControllerStep(c)
  \/ \E w \in Workspace : OtherWrite(w) \/ OtherDelete(w)

Spec == Init /\ [][Next]_vars

-----------------------------------------------------------------------------
(* Properties *)

Waiting == {"deleting", "suggesting"}

TypeOK ==
  /\ binding \in Workspace \cup {NoOne}
  /\ mode \in {"readonly", "editing"}
  /\ pending = NoOne \/ [what |-> pending.what, msg |-> pending.msg, by |-> pending.by] \in asked
  /\ hook \in {"idle", "clear"}
  /\ exists \subseteq {w \in Workspace : mv[w] > 0}
  /\ \A c \in Call : call[c].pc \in Waiting => request[c] # "none"
  /\ \A c \in Call : call[c].pc # "idle" => call[c].msg \in DOMAIN from

\* A workspace is created or deleted for a conversation only after the same
\* member asked for exactly that in another message, however calls, commands
\* and switches of the workspace overlap.
ConfirmedTwice ==
  \A d \in done : d.what \in {"create", "delete"} =>
    \E a \in asked :
      /\ a.what.action = d.what /\ a.by = d.by /\ a.msg # d.msg
      /\ d.what = "delete" => a.what.ws = d.ws

\* A description is saved only on the manifest its image was looked at in, and
\* one the member was shown for that workspace.
DescriptionFits ==
  \A d \in done : d.what = "describe" =>
    /\ d.for = d.at
    /\ \E a \in asked : a.what = [action |-> "describe", ws |-> d.ws, mv |-> d.at]

\* Editing was allowed for the workspace that was selected then.  A switch to
\* another workspace takes it back, in a second transaction that may fail.
EditingIsForThisWorkspace ==
  mode = "editing" /\ (\A c \in Call : call[c].pc \notin {"mode", "torn"})
    => binding \in {editFor, NoOne}
=============================================================================
