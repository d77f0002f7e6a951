------------------------------ MODULE Services ------------------------------
(***************************************************************************)
(* Parts of the system that share nothing, side by side: the token of the  *)
(* WeChat gateway, the conversations of a visitor and of a member with     *)
(* the agents, one of members with the agent in Feishu, and what members   *)
(* keep of one meeting: votes, check-ins, timings, segments, and the draft *)
(* page on which the meeting agent prepares it.  Each part is an instance  *)
(* of its module, with the names of the module unless two parts, or a part *)
(* and the modules checked beside them, use a name for different things.   *)
(* The variable `part` says which part moves, and a variable that several  *)
(* parts have is that one's.                                               *)
(***************************************************************************)
EXTENDS Naturals, Sequences, FiniteSets

CONSTANTS
  NoOne, Absent,    \* nobody, no row, no name; and no value
  \* WechatToken
  Thread, MaxTokenEvents,
  \* PublicTurns and AgentTurns
  Visitor, Instance, PerMinute, PerDay, MaxVisits, MaxMinutes, VisitEvents, MaxVisitEvents,
  Specialist, MaxTurns, MaxReverts, AgentEvents, MaxAgentEvents, MaxTurnsKept,
  \* FeishuNavigation
  ToolCall, Member, Workspace, Initial, Tools, MaxMessages, MaxCommands, FeishuEvents,
  MaxFeishuEvents,
  \* Voting, Attendance, Timings and Meetings
  Handler,          \* requests being served at a time
  Candidate, Section, MaxVotes, MaxVotings,
  Person, Role, Timer, NoRole, MaxCheckins,
  Topics, Regular, Name, Minute, NoName, MaxTimings,
  Text, MaxIds, MaxSegments, MaxSaves,
  \* MeetingEditing
  PageTools, Says, Gone, RoleTaker, Duration, DayTime, MaxPageSegments, MaxPageTurns,
  MaxCalls, MaxPageEdits

VARIABLES
  part,   \* the part that moves
  cached, lasting, newest, usable, stage, token, events,
  owner, inflight, counts, now, mixed,
  agent, client, undo, shown, reverts,
  tail, rows, req, turn, lapse, happened,
  binding, mode, pending, hook, sender, calls, exists, mv, request, editFor, requested, done,
  commands,
  votes, status, over, acked, risky, stray,
  checkins, present, torn,
  timings,
  meeting, segments, awards, guests, alive,
  made, begun, raced, saved,
  page, turns, listed, touched, edits

T == INSTANCE WechatToken WITH
  MaxEvents <- MaxTokenEvents, fresh <- lasting, pc <- stage

P == INSTANCE PublicTurns WITH
  MaxRequests <- MaxVisits, Events <- VisitEvents, MaxEvents <- MaxVisitEvents, spent <- happened

G == INSTANCE AgentTurns WITH
  Events <- AgentEvents, MaxEvents <- MaxAgentEvents, spent <- happened

F == INSTANCE FeishuNavigation WITH
  Call <- ToolCall, Events <- FeishuEvents, MaxEvents <- MaxFeishuEvents,
  from <- sender, call <- calls, asked <- requested, spent <- happened

V == INSTANCE Voting WITH
  Request <- Handler, Segment <- Section, MaxRows <- MaxVotes, MaxRequests <- MaxVotings

A == INSTANCE Attendance WITH Request <- Handler, MaxRequests <- MaxCheckins

K == INSTANCE Timings WITH Request <- Handler, MaxRequests <- MaxTimings

M == INSTANCE Meetings WITH
  Request <- Handler, None <- Absent, MaxRows <- MaxIds, MaxRequests <- MaxSaves

E == INSTANCE MeetingEditing WITH
  Tools <- PageTools, Role <- RoleTaker, Minute <- DayTime, None <- Absent,
  MaxSegments <- MaxPageSegments, MaxTurns <- MaxPageTurns, MaxEdits <- MaxPageEdits,
  form <- page, row <- listed

FeishuParts == {"switching", "describing", "choosing", "writing"}   \* with the agent in Feishu
VisitParts  == {"visitor", "regular", "leaving", "visitors"}
PageParts   == {"editing", "arranging", "undoing", "saving", "cloning"}

-----------------------------------------------------------------------------
(* Properties, each of the part that moves                                 *)

\* A token that is rotated elsewhere fails no call of the gateway (WechatToken).
OneRotationIsSurvived == part = "token" => T!OneRotationIsSurvived

\* A visitor's turns are one at a time on an instance, which keeps the next one out only
\* for one that runs or whose stream never began, and are not too many; one that was
\* seen done stays stored, and the next goes on from it (PublicTurns).
VisitsHold ==
  part \in VisitParts =>
    /\ P!GuardHolds /\ P!LimitsHold
    /\ P!DoneIsStored /\ P!HistoryIsOwn /\ P!HistoryIsWhatIsStored

\* The same of a member's turns with the club's agents (AgentTurns).
ConversationsHold == part = "agents" => G!DoneIsStored /\ G!HistoryIsWhatIsStored

\* What is deleted or described was confirmed, twice, for the workspace that it
\* happens to, and editing was allowed for this workspace (FeishuNavigation).
ConfirmationsHold ==
  part \in FeishuParts =>
    F!ConfirmedTwice /\ F!DescriptionFits /\ F!EditingIsForThisWorkspace

\* Votes that were answered as counted are counted (Voting).
VotesAreCounted == part = "votes" => V!VotesAreCounted

\* People stay checked in and roles are taken once (Attendance); there is one
\* timing of a segment, or one of every speaker (Timings).
RecordsHold ==
  /\ part = "checkins" => A!CheckinsHold
  /\ part = "timings" => K!TimingsHold

\* A meeting is what was saved (Meetings).
MeetingHolds == part = "agenda" => M!MeetingHolds

\* The times of a draft follow each other and are judged alike (MeetingEditing).
TimesHold == part \in PageParts => E!TimesFollow /\ E!IssuesAgree

\* An undo restores what the last turn that changed the agenda began with, two undos
\* have an edit between them, and what is saved is what was shown, with the exceptions
\* of the three (MeetingEditing).
EditingHolds ==
  part \in PageParts =>
    E!UndoRestoresTheLastChange /\ E!EditBetweenUndos /\ E!SavedIsWhatWasShown
=============================================================================
