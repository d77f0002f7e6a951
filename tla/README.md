# SoarHigh: formal models

SoarHigh is the web site of a Toastmasters club.  Members plan meetings on it,
with an assistant that edits the agenda; visitors vote, check in and ask a public
agent; and members write articles ("WxPosts") together with a Draft Assistant,
from the web or from Feishu, and publish them as public pages of the site and as
drafts in a WeChat Official Account.  These TLA+ modules model the parts of it
that keep state and serve overlapping requests.

## The system

| Part | Where | State it keeps | Operations |
|---|---|---|---|
| Publication runner | `claws/hermes/wxpost_controller/publication_{store,runner}.py` | SQLite table `publication_operations`; one thread per running operation | submit, run (ensure each item, finalize), poll, recover at start-up |
| Public article | `backend/app/services/wxpost_publication.py`, `db/wxpost.py`, `supabase.sql` | rows in `wxposts` and `wxpost_assets`, media objects in OSS | submit, upload URLs, ensure, finalize, sweep, delete |
| Workspace files | `wxpost_controller/core.py` | a directory per workspace: manifest, draft, pending draft, sources, proposals | save and edit drafts, upload/import/delete sources, sync meeting media, create, update, delete |
| Draft Assistant turns | `draft_store.py`, `hermes_session.py`, `mcp_factory.py`, `wxpost_profile/navigation_tools.py` | SQLite tables of operations, session bindings, pending session deletions | submit a turn, stop, settle, reset, remove, recover, clean up sessions |
| WeChat draft publishing | `services/wxpost_wechat.py`, `db/wxpost_wechat.py`, migrations `20260806*` | one row per workspace that is claimed, written and released | publish, preview, recover, reset |
| WeChat gateway | `claws/hermes/wechat_gateway/` | the access token in memory | calls, with one refresh of a refused token |
| Feishu navigation | `feishu_navigation.py`, `feishu_state_store.py`, `wxpost_profile/hermes_hooks.py` | SQLite rows per conversation: workspace, mode, pending confirmation | commands, select, create, delete, describe, import, write |
| Agent runtime and router | `backend/app/agents/runtime/`, `agents/router/`, `api/routes/agents/` | rows of sessions and turns; for visitors also counters, and a guard in memory | ask, stop, save, revert, limit |
| Meeting agent | `backend/app/agents/meeting/` | the agenda of a draft page, kept in the turns | some twenty tools, undo, save, clone |
| Meetings, votes, check-ins, timings | `backend/app/db/core.py`, `api/routes/` | database rows | save, delete, cast, open and close, check in, reset, time |
| Article documents | `services/wxpost_document.py`, `wxpost_editing.py`, `wxpost_directives.py` | none | typed edits of a draft |
| Frontend | `frontend/` | none that outlives a page | calls the backend |

How the parts of a publication interact.  A member saves a draft in the
controller's workspace and presses Publish in the browser.  The browser asks the
backend for signed upload URLs (`prepare_publication_uploads`), puts the files
into OSS, and asks for the synchronization.  The backend validates the draft,
creates or adopts the article row ("shell") and hands a plan to the controller.
The controller admits the plan as an operation and starts a thread, which calls
back into the backend: one `ensure` per media item, then `finalize`.  Finalize
reads the row, updates it under a guard on revision and status, and sweeps the
asset rows and objects the new document no longer uses.  A member can delete the
public article at any time: the row is hidden, its objects and asset rows are
removed, the row is deleted.  A published article is sent on to WeChat: the
backend claims the workspace's row, uploads the images and calls `draft/add` or
`draft/update` through the gateway.

How the parts of a draft interact.  A request admits an operation in the
controller's SQLite file, a thread takes the workspace's turn lock and runs a
Hermes session, and the agent in that session saves the draft through tools that
write the workspace's files and stamp the save with the operation they find
running.  A Feishu conversation calls the same tools, after its own guards.

How the parts of a meeting interact.  The meeting agent changes the agenda of a
draft page turn by turn; only its `save_draft`, or the member's own Save, writes
the meeting's rows, which votes, check-ins and timings refer to.

What makes it hard.  The backend runs as serverless functions, so no lock spans
two statements, and what one instance keeps in memory another does not see.  A
call can time out while the callee goes on with it, and some are sent again.  The
controller can be restarted at any step.  Database and object store have no
common transaction, and most handlers are five to ten separate calls that can
die between any two.  A language model decides which tools are called, in which
order, and whether twice.

PROJECT.json lists the components, the hazards at the lines where they bite and
the properties that watch them.

## What makes each part correct

| Part | Correct means |
|---|---|
| Publication runner | at most one running operation per workspace; every admitted operation settles, once and for good; the steps a poller sees agree with the outcome |
| Public article | readers see revisions in order, each one saved draft whole; what is on show has its media; `ok` is only answered when the article shows the draft, or is gone |
| Both together | an operation reported completed has put its draft on show, whatever timed out or crashed |
| Workspace files | whatever write failed and whichever process died, the next reader finds one atomic record; requests do not overlap; numbers of materials are not used twice |
| Draft Assistant turns | one turn per workspace; Stop stops no other turn beside the one it was asked for, and none in another session; what a turn saves is credited to that turn; an outcome is told once; every turn settles |
| WeChat draft | at most one draft in WeChat, also when `draft/add` times out; a row that says ready names a draft that shows the article |
| Gateway | a token rotated elsewhere fails no call |
| Feishu | what is created, deleted or described was confirmed in an earlier message by the same member, for the same thing; editing is allowed per workspace |
| Agents | a turn seen done stays stored under its number; what a turn hands on is what is stored; visitors keep to their own session and limits |
| Meeting agent | start times follow each other; an undo restores what the last turn with a change began with; what is saved is what was shown |
| Meetings and votes | what a save left stays until the next; a vote answered as counted is counted; who is present stays present; one record per segment |
| Article edits | edits of one request do exactly what each asks and do not disturb each other; the media list follows the body |

## Modules

| | Modules | Checked by | Proved |
|---|---|---|---|
| 1 | `PublicationRunner` | `controller` | safety: `PublicationRunnerProofs` |
| 2 | `PublicArticle` (abstract), `PublicWxPost` | `public_article` | safety and refinement: `PublicWxPostProofs` |
| 3 | `PublicationSystem`, composing 1 and 2 | `system`, two violations | all properties: `PublicationSystemProofs` |
| 4 | `WorkspaceStore` (abstract), `Workspace` | `workspace_*` | safety and refinement: `WorkspaceProofs` |
| 5 | `DraftTurns`, `SessionCleanup` | `controller`, `draft_reset` | safety: `DraftTurnsProofs` |
| 6 | `WechatDraft`, `WechatToken` | `services` | safety: `DraftsProofs`, `ServicesProofs` |
| 7 | `FeishuNavigation` | `services` | safety: `ServicesProofs` |
| 8 | `AgentTurns`, `PublicTurns` | `services`, `agent_prompt` | safety: `ServicesProofs` |
| 9 | `Meetings`, `Voting`, `Attendance`, `Timings` | `services` | safety: `MeetingsProofs` |
| 10 | `MeetingEditing` | `services`, `undo_titles` | safety: `MeetingsProofs` |
| 11 | `DraftEdits` | `services` | safety: `DraftsProofs` |

`MCController`, `MCServices` and `MCSystem` each check several instances, one
after the other: the first state chooses the variable `part`, and afterwards only
the actions of that part are taken.  Each part is explored as exhaustively as in a
run of its own, and the number of states is the sum, not the product.  Their
properties say which part they are about.  `MCController` extends the modules of its
three parts.  `MCServices` extends `WechatDraft`, `DraftEdits` and `Services`, which has
an instance of each of the other nine modules, under the names that are free, and their
properties; the proofs about the nine extend `Services` too, so that what TLC checks and
what is proved are the same formulas.  A variable of a part that does not move is `None`.

Where nothing else is said, an action is one transaction, statement, file
operation or call to another process, named after the function that makes it, and
a process's `pc` (or a field of its record) is its place in that function.

### PublicationRunner

`ops` is the table `publication_operations`, `thread` the daemon thread of each
operation, `alive` whether the controller process is up.  One action is one
transaction of the store or one step of a thread between two of them:

| Action | Code |
|---|---|
| `Submit` | `submit`: `start_operation` inside `BEGIN IMMEDIATE`, committed before the thread exists |
| `Spawn`, `SpawnFails` | `Thread.start()`, which may raise |
| `Begin`, `Call`, `AnswerOk` | `_run_operation` and `_perform_step` |
| `AnswerRejected`, `FinishFailed` | `_fail_step`, whose `set_steps` and `fail_operation` are two transactions |
| `NetworkErrorFirst`, `Retry`, `NetworkErrorAgain` | `_call_with_retry`: one retry, of connectivity errors only |
| `AnswerUnexpected`, `CompleteInvalid`, `StoreFails`, `RecordCrash`, `RecordCrashFails` | exceptions that reach `_run`, and its except branch |
| `Crash`, `Restart` | the process; `fail_interrupted_operations` at start-up |

A plan and its fingerprint are one value; of a plan only the number of its media
items matters.

### PublicWxPost and PublicArticle

`wx` is the workspace's row in `wxposts`, `assets` its rows in `wxpost_assets`
(one per item, by the idempotency key), `objects` the keys in OSS, `signed` the
upload URLs handed out, `handler` the requests being served.  Every SQL
statement and every OSS call is a step.  `draft` is the version the controller
would serve, `published` a history variable.  `PublicArticle` promises that the
article is hidden or shows one saved draft, whole, newer than all before;
`PublicWxPost` is shown to implement it with `shown` mapped to what a reader gets
of a ready row.

### PublicationSystem

The composition: the actions of the runner that call are joined with the start
of a backend request, those that hear an answer with its end.  `serving` says
whose answer a thread awaits.  `GiveUp` is the 90 s timeout: the request goes on
in the backend, unheard.  From then on `orphaned` is true: what holds only while
every request has its caller is stated under `~orphaned`, since nothing tells the
controller when the backend is done.

### Workspace and WorkspaceStore

`manifest`, `article`, `pending` and `files` are the files of one workspace
directory, `dirs` the directories that exist, `lock` the inode of the lock file.
`proc` is a request: it opens the lock file (`OpenLock`), takes the `flock`
(`Acquire`, exclusive per inode, not per name), reads and checks the manifest
(`ReadManifest`), reads the draft and repairs it (`Recover`, `Recovered`),
decides what to write (`SaveDraft`, `Revise`, `Upload`, `Collect`, `Import`,
`Update`, `Sync`, `Discard`, `Remove`) and writes it one file at a time
(`Write`).  A write may fail before its effect or after it, because
`_atomic_write` syncs the directory after `os.replace` (`WriteFails`); then the
request undoes what it did (`UndoSave`, `UndoMaterials`).  `Revise` gives the
lock back between reading and saving, as `edit_draft` and `save_draft_proposal`
do.  `WorkspaceStore` is what a client may believe: one record, changed by whole
saves and whole changes of materials.  `Served` is the refinement mapping: what
a reader gets after the recovery of what is on disk.

### DraftTurns and SessionCleanup

`row` and `after` are `draft_operations`, `pc` the thread of each operation,
`lock` and `live` the workspace's turn lock and `_live_turns`, `binding` and
`queue` the tables of sessions and of sessions to delete.  `agent`, `bound`,
`heard` are the turn as Hermes runs it, in another process: it works, reads which
operation is running, and saves with that operation's stamp; it goes on when the
connection that waits for it is lost.  `draft` is the sequence of saved versions,
by whom and with which stamp, so that the thread's comparison of manifests before
and after (`DraftChanged`) and the start-up recovery (`Recovered`) can be wrong
about whose save it was.  An agent calls a save tool once, or again in the same turn
(the event `again`); the second call is refused, or an edit is taken for a repetition of
the first and answered with what is saved (`Replay`).

Stop is three steps, as in `interrupt_operation`: the row is found running
(`InterruptOperation`); `_live_turns` has the operation's session, or the member is to
try again (`LookUpLive`); and another connection interrupts that session
(`SessionInterrupt`), whose turn may be another by then.  `stopping` and `aim` are the
Stop on its way, `stop` says of a turn whose Stop interrupted it.  A reset takes the
lock, and a removal then removes the directory (`BeginRetire`); the session is queued
(`ScheduleDeletion`), unbound (`Unbind`) and the rows go (`ClearHistory`); a store that
fails at any of these ends it there (`FailRetire`).

`SessionCleanup` is the worker that deletes queued
sessions: the row first, then the event, then a lock that is taken without
waiting; and the worker looks at the event again after it has let the lock go.  A session
stays queued when Hermes fails to delete it, and the worker ends when the store fails to
mark it deleted.

### WechatDraft and WechatToken

`row` is the workspace's row with its claim, `fresh` whether the claim is younger
than fifteen minutes, `box` the draft box of the Official Account, `call` the
request WeChat has: it takes effect in an action of its own (`WechatAdds`,
`WechatUpdates`), perhaps after its caller gave up (`Lost`) or died (`Die`).  The
projection of an article (HTML, cover, images) is one value, and finding a draft
by its content (`Search`) compares these values.  `WechatToken` is the gateway's
token, numbered in order of issue, with the tokens WeChat accepts at the moment.

### FeishuNavigation

`binding`, `mode` and `pending` are the three rows of a conversation, `from` the
messages so far, `call` the tool calls with what they have read, `request` the
ones the controller has.  A call goes through the guard on writes, the mode, the
selected workspace, the confirmation's two transactions (find it, delete it) and
then the controller, which can answer after the caller has given up.  A model is
free to call any tool at any time with any confirmation flag, also several beside
each other: the properties must hold for every such choice.

### AgentTurns and PublicTurns

A history is a sequence of turns; of each turn there remains whose it is, whether
its tool calls are there and which prompt stands before it.  `Upsert` and
`Insert` are the two statements of a save, which goes on in its thread when the
member presses Stop.  `PublicTurns` adds what only visitors have: the owner of a
session, the guard in the memory of each of two instances, and counters by minute
and day in the database.  A stream that its visitor leaves before it begins (`Strand`)
never lets the session go: the instance keeps it until it ends (`Die`).

### Meetings, Voting, Attendance, Timings

Each handler's statements are its steps, with what it has read in its record.
Rows are numbered by insertion, so that a deletion by an id that was read earlier
misses a row that was inserted since.  The history variables mark the overlaps
that the code does not exclude (`risky`, `torn`, `raced`, `lapse`); the properties
then say that there are no others.

### MeetingEditing

The agenda of a page, with one action per tool that changes it and the chain of
start times computed as in `timing.py`.  `turns` are the stored turns with the
names of the tools called, called with success (`done`), and the agenda before and
after: what both undos, the confirmation of a save and the revert of a bubble go
by.  A segment's UUID prefix is its position.

### DraftEdits

A draft's body is a sequence of lines; `Nodes` is the parse the edits refer to,
`PatchOf` the patch of one edit, `Applied` their application from the last to the
first, `Result` the draft with the media list derived again, `ApplyEdits` the whole
request.  The reference it is checked against (`Meant`) is what every edit asks of its
node by itself.

## What is checked

Every run is exhaustive over its instance.  A run's `.cfg` has the bounds;
PROJECT.json has, for each property, a mutation of the model that a bug could
cause and that makes the run fail.

| Run | States | What it shows |
|---|---|---|
| `controller` | 1 001 972 | publications, turns and session cleanup with every fault: exclusion, truthful and final outcomes, saves credited to the turn that made them; everything settles |
| `services` | 1 651 281 | the parts below |
| `public_article` | 4 025 301 | two backend requests overlap at every statement while functions die, OSS fails and the article is deleted, perhaps published again before its row is gone: revisions in order and whole until a deletion, `ok` means published, or gone for good |
| `system` | 2 036 852 | controller and backend: functions that die (`publish`), a deletion and a new article (`delete`), calls that outlive their caller (`timeout`) and a controller that crashes (`crash`); a thread hears its own answers, completed means published, media and revisions in order |
| `workspace_crash` | 2 450 188 | any write fails, any process dies: the files refine one atomic store, and revisions keep their base |
| `workspace_remove` | 5 729 689 | a removal that stops half-way lets two requests past the lock: what remains true of the manifest |
| `draft_reset`, `agent_prompt`, `undo_titles`, `workspace_remove_race`, `system_late_sweep`, `system_delete_race` | violated | findings 1 to 6 |

The parts of `services`:

| `part` | Module | Instance | Property |
|---|---|---|---|
| `switching`, `describing`, `choosing`, `writing` | `FeishuNavigation` | three calls of the tools of one theme, two at a time beside what the controller still does for one that timed out, two messages, a command; timeouts, a failing store, an expiring confirmation, a member at the web editor, another conversation | `ConfirmationsHold` |
| `wechat` | `WechatDraft` | three requests, two projections, three drafts, four of seven events | `DraftIsShown` |
| `token` | `WechatToken` | three threads, three rotations, ageings or failures | `OneRotationIsSurvived` |
| `agents` | `AgentTurns` | three turns of three agents, a revert, two of four events | `ConversationsHold` |
| `visitor`, `leaving` | `PublicTurns` | two instances, two minutes, one visitor: three turns, two at a time, with one of four mishaps, or two turns with two | `VisitsHold` |
| `regular`, `visitors` | `PublicTurns` | two instances, two minutes, no mishaps: four requests of one visitor or three of two, two at a time | `VisitsHold` |
| `votes` | `Voting` | two candidates, two segments, four requests, two at a time | `VotesAreCounted` |
| `checkins` | `Attendance` | two persons, two roles, four requests | `RecordsHold` |
| `timings` | `Timings` | a speech and a Table Topics session, two names, three requests | `RecordsHold` |
| `agenda` | `Meetings` | forms of two segments, two requests and those that save awards | `MeetingHolds` |
| `editing`, `arranging`, `undoing`, `saving`, `cloning` | `MeetingEditing` | one to four turns of the tools of one theme | `TimesHold`, `EditingHolds` |
| `article` | `DraftEdits` | three bodies, three images, requests of one or two edits | `EditsApply` |

Bounds and why they suffice:

- `MaxItems = 2` (runner): a plan has a first, a middle and a finalize step, so a
  failure has completed steps before it and pending ones after it.  Three
  operations in one workspace give a running, a settled and a new one; workspaces
  do not share anything but the table, and the proofs are for any number.
- Turns: two operations are the one whose save is late and the one it is
  credited to; the three sessions are more than two operations and a reset can
  bind; two of eleven events give every pair of them in every order.  `MaxVersion`
  is never met, and a turn always finds a session to bind.  The exclusion and the
  crediting are proved for any number.
- Cleanup: two requesters so that one comes while the other's worker ends, three
  workers so that a second and a third run can be started.
- Two backend `Handlers`: every pair of requests overlaps at every statement.
  What three can do that two cannot needs a deletion between two publications
  (the exceptions below); up to the first deletion the proofs are for any
  number.  `photo` comes from the library and `clip` from a
  browser, so both ways to fill an asset occur; the drafts add and drop the clip,
  so sweeps have something to remove.
- `MaxShells`, `MaxKeys`, `MaxRevision`, `MaxDeletes` bound rows, keys, public
  revisions and deletions.  In `public_article` an article can be published again
  while it is deleted, but not once its row is gone (`MaxShells = 1`); a deletion and then
  a new article is the `delete` part of `system` (`MaxShells = 2`); `MaxKeys = 3` is a swept asset row made anew; where
  an instance has less, a step at the bound is not taken.
- `MaxVersion = 3`, `MaxDraft = 2`, `MaxMaterial = 2` (workspace): a first save
  and a later one, over changes of two materials.  Requests stop once the
  manifest reaches `MaxVersion`, but those already admitted go on.  Two processes
  are enough for one to be in every step of the other.
- Visitors: two turns a minute and three a day.  The minute's limit refuses the third
  turn of a minute, the day's the fourth of two minutes, and the third stored turn is the
  first to cut the history to `MaxTurnsKept = 1` turn and its own.  Two mishaps are, for
  example, a stream that never begins and the end of its instance.
- Services: of interchangeable requests there are two at a time, or three where
  a third can profit from what two have left (a claim, a token, a confirmation).
  A member's second message is the one that confirms.  The meeting agent's tools
  are divided by theme, since each reads only what its own theme writes: times
  (`editing`, `arranging`), undo, save, clone; four turns are a change, talk, an
  undo and another undo.  An agenda has up to four segments, so that one moves
  between two others.  Two edits of one request are every pair of edits.
- `CHECK_DEADLOCK FALSE` is set where the system may stop: members need not act,
  the bounded counters run out, and a removed workspace gets no requests.  In
  `workspace_crash` the library can always change, so the check says nothing there.

Symmetry is declared only over requests, processes and names that no definition
tells apart, and in no run with a liveness property.

Fairness.  Only `controller` assumes any, for each part while it is the one that
moves.  A thread of a live process is scheduled (each of its calls ends, because
`urlopen` has a timeout and a turn has `turn_timeout`), and a stopped controller
is restarted (`restart: unless-stopped` in Compose).  An agent in Hermes ends its
turn or falls silent, which the waiting thread notices.  Cleanup threads and the
threads that start them are scheduled.  Weak fairness is enough: a thread's step
stays enabled until it is taken or the process dies, but for the turn lock, which
every holder gives back and for which only finitely many compete.  Crashes,
failing stores and threads that do not start are never obliged and never excluded:
what they leave running is left to the next restart, which is what
`EverythingSettles` says.  Members are never obliged to act.

### Findings

1. `draft_reset`: *a reset can be remembered.*  Reset removes the binding and
   queues the session for deletion.  Until the worker has deleted it, the next
   turn finds no binding, resumes by title, and gets the old session.
2. `agent_prompt`: *a long conversation loses its prompt.*  A specialist's system
   prompt is put before the first turn of the history, which is then cut to the
   last ten turns.
3. `undo_titles`: *an undo takes back too much.*  `set_title`, `set_content` and
   `create_from_template` are missing from the list of tools by which the undo
   tells an edit from talk.
4. `workspace_remove_race`: *a removal breaks its own lock.*  `delete_workspace`
   removes the lock file with the directory.  If it stops half-way, a request
   waiting on the removed file and one that creates a new file are both past the
   lock, and two materials get one number.  `workspace_remove` shows that even
   then the manifest stays consistent in itself, since `_atomic_write` is atomic
   and a manifest is written as a whole from what one request read.
5. `system_late_sweep`: *a late sweep deletes published media.*  A finalize times
   out in the controller and goes on in the backend.  The next publication makes
   an asset ready and links to it; the old finalize then sweeps by its own, older
   keep set and deletes that row and object.
6. `system_delete_race`: *a deletion is overtaken.*  A finalize that reads the
   hidden row takes `assembling` for its expected status and makes the article
   public again while the deletion removes its media; the row's removal is then
   refused.

Some properties name an exception: an overlap the code does not exclude and no
document denies.  These are not findings, but a reader should know them:

- With a deletion and a call that outlives its caller together, a finalize can
  find the row that the deletion hides with the revision and status it read before
  the row was first shown, and republish revision 1 with other content, or take a revision for the one that had its number before
  and publish the same draft once more (`RefinesUntilDeleted`, `NoEmptyRevision`).
- A save by a turn that failed or was reset is credited to the turn that runs
  when it arrives, and so is a save from Feishu (`ChangeIsItsOwn`).
- An update of the WeChat draft that takes effect late replaces a newer one; and a
  recovery can link a draft that was deleted by hand while it looked, after which the
  next recovery may find the draft of another projection, or none and add a second
  (`DraftIsShown`).
- A vote cast while the form is saved can be lost (`VotesAreCounted`); a check-in
  whose second statement fails has removed its person (`RecordsHold`); two saves
  of awards, timings or guests can both insert (`MeetingHolds`, `RecordsHold`).
- A turn's save that overlaps another turn's leaves a history with gaps
  (`ConversationsHold`, `VisitsHold`).
- A Stop that has looked up its session when the turn ends, interrupts the next turn of
  that session (`OneTurn`); only then, and the member of that turn sees it stopped.
- A stream of the public agent that never begins keeps its session on the instance until
  that ends (`GuardHolds` of `VisitsHold`).
- An undo restores the agenda that the undone turn began with (`agenda_before`), whole.
  What was done since then without a stored turn goes with it: edits of the page, and
  what a turn that failed left there.  What was edited on the page before that turn began
  stays; the docstring (`tools.py:1363-1367`) calls the restored state the `agenda_after`
  of the turn before, which is the same only if nothing changed between the two turns.
  After a turn that called an edit tool in vain an undo takes back nothing, or the wrong
  turn, and so it does when the last change is by a tool that the walk does not know,
  finding 3 (`UndoRestoresTheLastChange`).  A confirmed save writes what the member
  has changed on the page since the preview (`SavedIsWhatWasShown`).
- Replacing a directive by text can merge it with the next paragraph
  (`EditsApply`).

## What is proved

`PublicationRunnerProofs`, for any workspaces, operations, plans and faults.
The assumptions are `RunnerAssumption` (every plan has a number of items,
`Faults` names known faults) and `NullAssumption` (`None` is no row and no error
code).

- `TypeCorrect`, `ThreadOwnership`: types are not inductive alone, because a
  thread reads the plan of its row.  `BaseInv` adds that a live thread owns a
  running row and that a failing thread has a code; this is inductive.
- `MutualExclusion`: `Submit` is the only action that makes a row run, and its
  guard looks at all rows.
- `NoStrandedRow`: without store and start failures a running row of a live
  process has its thread.
- `OutcomeIsFinal`: every statement is guarded by `state = 'running'`.
- `StepsAreTruthful`: `StepsInv` relates a row's steps to where its thread is:
  `k - 1` completed steps while the thread works on step `k`, exactly one failed
  step once it is failing.  The lemma `ThreadStepIsOwnStep` reduces a step of a
  thread to its own row, so the cases are about one row and one thread.

`PublicWxPostProofs`, for any drafts, media, requests,
bounds and faults.  The assumptions are `PublicAssumption` (uploads are items, a
draft is a set of items, the bounds are numbers) and `NullAssumption` (`None` is no
row and no revision).

- `TypeCorrect` (`TypeOK`): a step uses what its request learned earlier, so
  `Prepared` says for each place of a handler what the request knows there: its
  item and key, the row it has read, the operation it serves.
- The other theorems do not look at actions.  `StepEffect` sums up each of them as
  one of ten effects on its request, the row and the history (`Apart`, `Refuses`,
  `Reads`, `Chooses`, `Abandons`, `Publishes`, `Confirms`, `Sweeps`, `Hides`,
  `Removes`); a request that begins is an eleventh.
- `OkRestsOnHistory` (`OkMeansPublished`): an answer is given long after the row was
  read, so `HistoryInv` carries the evidence along: what was read as public is in the
  history, and a request in its sweep has its draft there.
- `DeletedStaysGone` (`DeletedIsGone`): `GoneInv`, the row a deletion names was
  created before it, and a new row gets a new id.
- `PublicationsRefine` (`RefinesUntilDeleted`): the `UPDATE` compares only revision and
  status with what was read.  `OrderInv` says why that is enough until a deletion is
  asked for: a hidden row has never been shown, and no revision in the history is
  above the row's.  Every step is then `Publish` of `PublicArticle` or invisible.
- `RevisionsDiffer` (`NoEmptyRevision`): the row read and the row updated are the same
  revision, hence the same content (`OrderInv`, `HistoryInv`), and the request
  compared that content with its own before it went on to the update.

`PublicationSystemProofs`, for any drafts, media, requests, operations, deletions and
faults: every property of `system`.  Controller and backend are proved about apart
and then together.  The assumptions are those of both, for the composition:
`SystemAssumption` (the order is one of items) and `NoneAssumption` (`None` is no
request, row or error code) imply the runner's, with the number of steps of a plan
what `ItemsOf` makes it.

- Every step is a step of the backend, or leaves it alone (`BackendSteps`), and the
  same for the runner (`RunnerSteps`), so that what was proved of each holds of both
  (`PartsKept`); `SubmitsInv`, that an accepted submit has a plan of the backend's, is
  why a plan the controller is given is one it can run.
- `CallsAreAnsweredApart` (`CallsMatch`): `CallsInv` adds what makes it inductive: no
  two operations are served by one request, and unless one was left behind, every
  ensure and finalize has the operation that waits for it.
- `CompletedWasShown` (`CompletedMeansPublished`): an operation completes with the `ok`
  of its own finalize (`CallsInv`), which rests on the history (`HistoryInv`), and the
  history only grows.
- The other four rest on `Alone`: while no request is left behind, at most one
  operation of the workspace runs (`RP!OneRunningPerWorkspace`), at most one request of
  the controller is in flight.  The last part of
  `PublicWxPostProofs` says what the backend keeps then.
- `DraftsOnShowGetNewer` (`NoDraftRegressionUnlessLate`) and `SystemRefinesArticle`
  (`RefinesUnlessBoth`): `ReadInv`, what a finalize has read of the row is still so while
  the row is its own; `NumberInv`, the row's revision is above those of the history, by
  article and number; `KnownInv`, whatever names an article or a draft names one there
  has been.  Until a deletion the refinement holds without `Alone`, by `OrderInv`.
- `MediaStaysBacked` (`MediaBackedUntilDeleted`), `ReadyStaysTrue`
  (`StatusTrustedUntilDeleted`): `MediaInv` says what each place of a request relies on:
  an object to be marked ready is stored; the media to be put on show are stored, their
  rows have the hashes of the draft; rows to be swept are of no object on show; rows
  to be removed with their objects are not ready.  The steps of other requests either
  keep all of this (`Calm`), or are those of the one finalize.

`DraftTurnsProofs`, for any operations, sessions, versions
and events.  The hypothesis of the exclusion and the crediting is `NamesDiffer`:
operations, the absence of one, a reset and the other writers have different
names.  `MCController` has TLC evaluate it for the instance of the run.

- `TurnsAreTyped` (`TurnsTypeOK`), from `MaxVersion \in Nat` alone.  A version that is reported
  or expected is one of the draft's, whose bound every save keeps (`FileTypes`).
- `TurnsExclude` (`OneTurn`): the lock is a variable, so exclusion needs
  `LockInv`, that whoever is in a turn holds it, and a reset or removal on its way
  does.  `LiveInv` says whose session is registered.  `StopInv`:
  a Stop aims at the session of the turn it was asked for, and while that turn is on its
  way no other runs in the session (`Aimed`, `Unrivalled`).
- `RunningExcludes` (`OneRunningOperation`), `AnswersAreFinal` (`OutcomeIsFinal`):
  the lemma `RowsMove` sums up what any step may do to the rows (admit while none
  runs, settle one that runs, delete), and both follow from it alone.
- `ChangesAreCredited` (`ChangeIsItsOwn`): that a reported change is the turn's own
  save cannot be seen from the row that reports it.  `CreditInv` follows a save
  from the agent that reads which operation runs to the version it leaves: an
  operation's stamp is only on versions later than the one its request names
  (`StampInv`), a completed operation's agent saves no more (`CompletedInv`), and
  who holds or has used another operation's stamp was settled as failed, or reset
  (`ForeignAgents`, `ForeignVersions`).
- The cleanup needs no assumption.  `OneWorkerDrains` (`OneWorker`): the lock is held
  exactly while one worker drains.  `NoWakeUpIsLost` is the safety that
  `EverythingSettles` rests on: a retired session that waits while nobody holds the lock
  is about to be seen, by a worker that will look again or a request that will dispatch.
  `CleanupIsTyped` (`CleanupTypeOK`).

`WorkspaceProofs`, for any processes, library, attachments, texts and faults.  What
rests on the lock is proved as long as no request removes the workspace (`"remove"
\notin Kinds`; finding 4 is why that is needed), what the files hold each by itself
with removals too.  The assumptions are `WorkspaceAssumption` (known kinds and
faults, finite `Keys`, `Attachments` and `Procs`) and `NullAssumption` (`None` is no
value of the files).

- `FilesAreTyped` (`TypeOK`), `ManifestStaysConsistent` (`ManifestConsistent`), removals
  included: `ContentInv` speaks of what each process has read and means to write, and
  never of the lock.  Whatever manifest a request has read was consistent, every plan
  made from it writes one that is (`Plan`), and so it does not matter over which
  manifest it is written.
- `LockHolds`: exclusion is per inode, so `LockInv` adds that the lock file is
  never replaced and that whoever opened it has its inode.
- `AlwaysReadable`: the manifest on disk has the files it calls ready and the
  draft it names, or a record of the draft to go back to.  That holds between any
  two writes only because of their order, so `ReadableInv` relates the disk to
  what is left of the plan of the request that holds the lock: a recovery
  (`RecoveryTodo`) or an undone save only restores what the record has; a save
  (`SaveTodo`) records before it replaces the document and forgets after it has
  written the manifest; a change of materials (`MaterialTodo`) adds files before
  the manifest that claims them and takes them away after the one that does not.
  Each plan is shown to be safe when it is made (`CollectSafe` and the lemmas like
  it), and to stay safe for its rest after each write, failure or undoing.
- `WorkspaceRefinesStore` (`RefinesStore`): by `ReadableInv` what a reader is served is
  the manifest, whatever is left of a plan; so only a write of the manifest is visible
  (`ManifestSteps`).  `KnownInv` adds that a manifest about to be written was made from
  the one on disk, and `Plan` that it is a whole save or a whole change of materials.
- `RevisionsReplaceTheirBase` (`RevisionsKeepTheirBase`): `Knows` orders what a request
  was sent with, the draft its document was made from and the one on disk; draft
  versions only grow, and `Current` finds the first equal to the last before the plan
  is made.  `NumbersStayTaken` (`NumbersAreNotReused`) follows in the same way.

`DraftsProofs`, about what becomes of an article's draft.  At WeChat, for any requests,
projections, drafts and events, the assumption is `NamesDiffer`: the absence of a value,
and the mark of a deleted draft, are none of them.  Of the edits, for bodies and requests
of any length, it is `Setting`: the first drafts are valid ones and consist of lines.

- `RowIsTyped` (`TypeOK`), `BoxHoldsOneDraft` (`OneDraft`), `ReadyRowsShowTheirDraft`
  (`ReadyIsShown`) and `DraftsAreShown` (`DraftIsShown`, both) follow from one invariant.
  `PlaceInv` says what a request knows at its place, and what the row is as long as it
  names the request.  `OneInv` is about
  the box: an addition that WeChat may still carry out is one the row admits to
  (`adding`), and then no draft is live; a live draft is the one that the row's
  operation has seen.  `ShownInv` says who has written what the draft shows.
- The difficulty is that a call outlives its request, and the row can name another
  operation by then.  `OwnRow` is therefore about the request the row names, `Calls`
  about a call by itself, and a step is shown to keep first what the row means to the
  request it names, then what the box means to the calls.
- `EditsDoWhatTheyMean` (`EditsTypeOK`, `EditsApply`).  The patches of a request that is
  not refused are in order and do not overlap, and the last is applied first; so of the
  body that is being changed, all up to where a patch ends is still as it was sent, and
  what `Turning` says of it holds after every patch.  A line is therefore in the result or
  was covered by a patch (`LinesStay`), and a covered line that shows an image is the node
  that the patch's edit names (`ShownIsNamed`), because a directive is a node by itself.
  Texts are kept apart by what is on either side of a seam (`Fits`, `Joins`): a patch ends
  before the blank line of its node, or after a directive.
- That the result is what the edits mean (`EditsAreExact`) compares what the patches leave
  of the body, piece by piece, with what `Meant` makes of its nodes, one by one.  Nothing
  is shown between two nodes (`Pos`, `Between`).  Patches that follow each other are about
  different nodes, because `Overlap` refuses two with the same start (`PatchesClimb`,
  `OneEach`), so a node is changed by one edit or by none; its piece is then what that edit
  makes of it, or what it was (`NodeIsMeant`).  Both sides are folds over the nodes, taken
  from the community modules: `UpTo` and `PiecesAdd` add up the pieces to any node,
  by induction on its position (from the well-foundedness of `<`), and `MeantIs` is the sum.

`ServicesProofs`, about four services, for any number of whoever uses them.  What is
assumed is the `Setting` of each module (the bounds are numbers, the absence of a row is
no row, the tools tried are tools); the token needs nothing.  Module and theorems have the
names of `Services`, so a variable such as `from` of `FeishuNavigation` is `sender` here.

- Token.  `RotationIsSurvived` (`OneRotationIsSurvived`): what the gateway has cached and
  what WeChat accepts can be in one of a few situations before, during and after the
  one rotation, and in each a thread's next call is accepted or refreshes.
- Visitors.  `OneTurnAtATime`, `LimitsAreKept`: a guard is set by the turn it is for, and
  held by it while it is served, or when its stream never began; and a counter is at most the number of turns admitted in its minute or day.
  `DoneTurnsStay`, `HistoriesAreOwn`, `StoredIsHandedOn` follow the turn from the tail
  it reads to the row it writes; what the owner of a session may rely on ends where two
  visitors had turns of it at once (`mixed`), or a turn was saved by half or beside
  another (`lapse`).  `VisitsAlwaysHold` (`VisitsHold`) is all five of them.
- A member's agents.  `DoneStaysStored` (`DoneIsStored`): rows are inserted, never
  replaced, so a number that is taken stays its turn's; and a revert comes only when
  the member waits for no turn.  `StoredIsTheHistory` (`HistoryIsWhatIsStored`):
  `CalmTurns` says that a turn asked for when all was quiet is, until another comes, the
  only one that is not over and that no revert is under way; `RowsInv`, that the rows
  are those up to the tail, but for the one row of a turn that has moved the tail and
  not inserted yet, or those from which a revert has yet to move it back.  So what such
  a turn has read is what the last row holds, and `ChainGrows` adds its own turn.
  `TalksAlwaysHold` (`ConversationsHold`) is the two of them.
- A Feishu conversation.  `ConversationIsTyped` (`TypeOK`), `DoneWasAskedTwice`
  (`ConfirmedTwice`), `SavedDescriptionsFit` (`DescriptionFits`), `EditingWasAllowedHere`
  (`EditingIsForThisWorkspace`), for any calls, members, workspaces, messages and events: a
  confirmation is consumed long before the controller acts.  `Confirmed` says, for every
  place of a call from there on, that what it holds was asked for earlier, in which
  message and by whom; nothing that other calls, commands or switches do takes that back,
  because `sender` and `requested` only grow.  `ConfirmationsAlwaysHold`
  (`ConfirmationsHold`) is the last three of them.

`MeetingsProofs`, about what members keep of a meeting and about a draft page of it, for
any number of requests and turns, under the `Setting` of each module (requests, roles and
candidates are finite, the bounds are numbers, the absence of a row or a text is none,
that of a name is no name).

- Votes.  `CountedIsCounted` (`VotesAreCounted`): a row's count is the number of votes
  answered for it; each such vote was cast by the id of the row it found, and only a
  save of the form changes ids.
- Check-ins.  `PresenceIsKept` (`CheckinsHold`): a row is deleted only by a request that
  has seen another one of the same person, and the timer's role is given after a look
  at who has it.
- The timer.  `TimesAreKept` (`TimingsHold`): `FreshInv` says what a request's reading is
  worth while it waits to write.  Unless somebody else who had read or deleted has written
  since, the segment it is to fill is empty, the names on show are among those it has seen,
  and the row it is to rename, whose id nobody else ever gets, is the only one that may
  have the new name (`InsertIsFresh`, `RenameIsFresh`).  `UniqueNames` is a recursive
  function; a batch of the model has one or two records, so `NamesOfTwo` gives the function
  itself and needs no induction, and `BatchKeepsApart` says what the names are worth.
  `TimesAreTyped` (`TypeOK`).  `RecordsAreKept` (`RecordsHold`) is the check-ins while
  they are what is served, and the timer while it is.
- The agenda.  `MeetingIsSaved` (`MeetingHolds`), with `MeetingsAreTyped` (`TypeOK`),
  from four invariants beside the types.  `AddedInv`: an id that a save is to insert is in
  no row yet, and no save is about to delete a row added since it read, so what was added
  stays.  `AloneInv` says for every place of a save that runs alone what the two tables
  hold there, from what it read to what its form says (`SegsAt`): the rows to be deleted
  gone, those to be updated as they were or as they are to be, those to be added not
  there or there.  As long as nothing has lapsed and no save is on its way, the tables
  are then what the last save was to leave, and tags of related segments refer to
  segments of the same form (`AssignedAre`).  `OnceInv` and `GuestsCounted` count the
  awards and guests by the requests that may yet insert one.
- A draft page.  `TimesAlwaysFollow` (`TypeOK`, and `TimesHold`: `TimesFollow` and
  `IssuesAgree`) and `UndosAndSavesAreTrue` (`EditingHolds`: `UndoRestoresTheLastChange`,
  `EditBetweenUndos`, `SavedIsWhatWasShown`), by `PageInv`.
  Its first part, `PageTypes`, is that not only the page's agenda but every
  agenda a turn has stored is typed and has start times that follow each other (`Fines`),
  since an undo brings one of them back.  `UndosTakeBack` says of an undo that runs, and
  of every stored one, that it has restored what the last turn with an edit began with
  (`TakesBack`); `ShownRemains`, that an agenda that was previewed is still there unless
  the page was touched since.  Start times and totals are recursive functions: they are
  compared at the first position where they would differ (`FirstOf`, from the
  well-foundedness of `<`).

Only model-checked: liveness (`EverythingSettles`), which is out of the prover's reach.
`TypesOK` and `PartsTypeOK` of the runs put together the type invariants of several
modules, each of which has a theorem of its own.

## What the models leave out

- Public article: WeChat variants of assets, rendering, the text of articles, the
  direct create and update of articles without a workspace.  A rendering that
  fails ends a handler as `HandlerDies` does.  The query for abandoned rows is
  one step with the read of the article row.  Documents are sets of media; two
  saved drafts with the same media are the same document.
- Workspace: creation is the initial state.  Names, descriptions, order, file
  suffixes, `sourceManifestVersion` of a draft, operation identifiers and the
  replay of an edit are left out.  A hash stands for what it identifies.  A
  subdirectory is removed in one step.  Temporary files of killed writes stay on
  disk unread.  A crash is one of a process, not of the machine.  `Reject`
  stands for every other error answer.  A client sends the versions it last read,
  taken when the request is made.
- Draft Assistant: a client sends each operation id once, so the answer to a
  repetition is left out, and so are prompts, progress events and the text of
  replies.  An agent saves with the versions its prompt names, as the prompt demands
  (`hermes_session.py:711-718`), once or twice in a turn.
- WeChat: the HTML of a draft, its cover and its images are one projection; the
  gateway's encoding, uploads and routing.
- Feishu: collecting attachments and delivering previews.
- Agents: what a turn says; the events of a stream; days that pass.  The tools
  of one response run one after the other, though the framework can run tools that
  do not await beside each other; `save_draft`, with its look at the meeting, at the turn
  before and its write, is therefore one step.  The router's
  decision and the tools a specialist calls are the model's choice.
- Meeting agent: lookups and previews of other meetings only read.  Role takers
  are named, not matched.  The planner's reading of a text or an image is a choice
  of rows.  Two validators that only give advice, on Table Topics and on the
  pattern of buffers, are not modelled.
- Meetings: status, posts, feedback, experiences and media are updates of single
  rows.
- Article edits: a directive is one line, a text one paragraph per line; drafts
  start with a blank line between a text and the directive after it; line ends
  other than `\n`, links, lists of facts, videos, titles and metadata are left
  out.  Of the fields of a directive there are the media and the caption.
- Not modelled at all: the statistics and general agents and the meeting
  statistics (they read and aggregate), the HTTP servers (routing and
  authentication), OSS operations (their effect is in `PublicWxPost`), and the
  frontend, which keeps no state beyond a page; its requests are the members'
  steps in the models.

Hazards that are known and that no property watches: a publication that asks for
upload URLs while the deletion runs leaves asset rows that go with the article
(`wxpost_publication.py:655`), and their objects stay in OSS unknown to any row; and a removal of a
workspace whose `rmdir` fails leaves a directory without a manifest
(`core.py:447`), which listings skip with a warning.

## Running

    tlc -config controller.cfg MCController
    tlc -config services.cfg MCServices
    tlapm PublicationSystemProofs.tla

PROJECT.json pairs every `.cfg` with its module: `controller` with
`MCController`, `services` with `MCServices`, `public_article` with
`MCPublicWxPost`, `system` with `MCSystem`, `system_late_sweep` and
`system_delete_race` with `MCPublicationSystem`, `workspace_*` with
`MCWorkspace`, and `draft_reset`, `agent_prompt` and `undo_titles` with
`DraftTurns`, `AgentTurns` and `MeetingEditing` themselves.  The slowest runs take
two to four minutes with two workers, `WorkspaceProofs` about five minutes,
`MeetingsProofs` and `ServicesProofs` about ten each, `DraftsProofs` about five, the
other proofs about one each.
