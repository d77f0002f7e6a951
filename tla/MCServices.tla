----------------------------- MODULE MCServices -----------------------------
(* Small instances, for TLC, of parts that promise safety only: the       *)
(* WeChat draft of a workspace, the edits of an article, a Feishu          *)
(* conversation with four sets of tools, the token of the WeChat gateway,  *)
(* a conversation with the club's agents, one with the public agent, the   *)
(* votes, check-ins, timings and segments of one meeting, and a draft page *)
(* with five sets of the meeting agent's tools.  They share nothing, so    *)
(* one run checks one after the other: the first state chooses a part, and *)
(* only that part moves.                                                   *)
EXTENDS WechatDraft, DraftEdits, Services, TLC

CONSTANTS x1, x2, x3, y1, y2, z1, z2

\* The requests, calls and threads of a part are interchangeable, and so are
\* the two things they are about.
Interchangeable ==
  Permutations({x1, x2, x3}) \cup Permutations({y1, y2}) \cup Permutations({z1, z2})

\* First drafts.
ArticleBodies ==
  {<<Paragraph("one"), Blank,
     [name |-> "gallery", words |-> "caption", media |-> <<"M1", "M2">>],
     Blank, Paragraph("two"), Blank>>,
   <<[name |-> "section", words |-> "", media |-> <<>>], Paragraph("heading"), Blank,
     Paragraph("one"), Blank, [name |-> "person", words |-> "", media |-> <<"M1">>]>>,
   <<Paragraph("two")>>}

ASSUME WechatAssumption  == NamesDiffer
ASSUME ArticleAssumption == Setting
ASSUME PartsAssumption   == /\ P!Setting /\ G!Setting /\ F!Setting /\ V!Setting /\ A!Setting
                            /\ K!Setting /\ M!Setting /\ E!Setting

-----------------------------------------------------------------------------
(* The sets of tools, and what may happen beside them *)

Feishu(tools, workspaces, happens) == INSTANCE FeishuNavigation WITH
  Call <- ToolCall, Tools <- tools, Workspace <- workspaces,
  Events <- happens, MaxEvents <- MaxFeishuEvents,
  from <- sender, call <- calls, asked <- requested, spent <- happened

\* The controller may still be at the request of a third that timed out.
TwoCallsAtATime ==
  Cardinality({c \in ToolCall : calls'[c].pc \notin {"idle", "torn", "over"}}) <= 2

FeishuNext ==
  /\ \/ /\ part = "switching"
        /\ Feishu({"create", "delete", "select"}, Workspace, {"store", "timeout", "expire"})!Next
     \/ part = "describing" /\ Feishu({"suggest", "describe"}, Initial, {"member"})!Next
     \/ part = "choosing" /\ Feishu({"suggest", "describe", "select"}, Initial, {})!Next
     \/ part = "writing" /\ Feishu({"write", "delete", "import"}, Initial, {"elsewhere"})!Next
  /\ TwoCallsAtATime

Visits(happens, most) == INSTANCE PublicTurns WITH
  MaxRequests <- MaxVisits, Events <- happens, MaxEvents <- most, spent <- happened

OneVisitor == \A r \in DOMAIN req' : req'[r].visitor = req'[1].visitor
TwoTurnsAtATime == Cardinality(P!Working') <= 2

\* Of one visitor: two turns and two mishaps, three turns and one, and four turns, so
\* that the day's limit refuses one and a third cuts its history; and three turns of
\* two visitors.
VisitsNext ==
  /\ \/ part = "leaving" /\ Visits(VisitEvents, 2)!Next /\ OneVisitor /\ Len(req') <= 2
     \/ part = "visitor" /\ P!Next /\ OneVisitor /\ Len(req') <= 3
     \/ part = "regular" /\ Visits({}, 0)!Next /\ OneVisitor
     \/ part = "visitors" /\ Visits({}, 0)!Next /\ Len(req') <= 3
  /\ TwoTurnsAtATime

Page(k) == INSTANCE MeetingEditing WITH
  Tools <- k.tools, Says <- k.says, Gone <- k.gone,
  MaxTurns <- k.turns, MaxCalls <- k.calls, MaxEdits <- k.edits,
  Role <- RoleTaker, Minute <- DayTime, None <- Absent, MaxSegments <- MaxPageSegments,
  form <- page, row <- listed

Editing == [tools |-> {"set_duration", "set_buffer", "set_start", "set_end", "set_no", "set_date",
                       "add_segment", "remove_segment", "move_segment", "swap_time",
                       "shift_segment_time", "create_from_text", "create_from_image",
                       "create_from_template"},
            says |-> {{}}, gone |-> {0}, turns |-> 1, calls |-> 2, edits |-> 0]
Arranging == [tools |-> {"add_segment", "set_duration", "set_buffer", "set_end", "swap_time",
                          "move_segment"},
            says |-> {{}}, gone |-> {}, turns |-> 1, calls |-> 4, edits |-> 0]
Undoing == [tools |-> {"set_role", "set_title", "revert_last_turn", "revert_to_turn"},
            says |-> {{}}, gone |-> {}, turns |-> 4, calls |-> 1, edits |-> 1]
Saving  == [tools |-> {"save_draft", "set_role"},
            says |-> {{}, {"save"}, {"yes"}}, gone |-> {}, turns |-> 3, calls |-> 2, edits |-> 1]
Cloning == [tools |-> {"lookup_meeting", "clone_from_meeting", "revert_last_turn", "set_type",
                       "set_content", "swap_roles"},
            says |-> {{}, {"yes"}}, gone |-> {0}, turns |-> 3, calls |-> 1, edits |-> 0]

PageNext ==
  \/ part = "editing"   /\ Page(Editing)!Next
  \/ part = "arranging" /\ Page(Arranging)!Next
  \/ part = "undoing"   /\ Page(Undoing)!Next
  \/ part = "saving"    /\ Page(Saving)!Next
  \/ part = "cloning"   /\ Page(Cloning)!Next

-----------------------------------------------------------------------------
(* The variables of the parts that do not move *)

tokenOnly   == <<cached, lasting, newest, usable, stage, token, events>>
visitsOnly  == <<owner, inflight, counts, now, mixed>>
agentsOnly  == <<agent, client, undo, shown, reverts>>
feishuOnly  == <<binding, mode, pending, hook, sender, calls, exists, mv, request, editFor,
                 requested, done, commands>>
votesOnly   == <<votes, status, over, acked, risky, stray>>
checksOnly  == <<checkins, present, torn>>
agendaOnly  == <<meeting, segments, awards, guests, alive>>
pageOnly    == <<page, turns, listed, touched, edits>>
stored      == <<tail, rows>>
served      == <<made, begun>>

NoToken  == /\ cached = None /\ lasting = None /\ newest = None /\ usable = None
            /\ stage = None /\ token = None /\ events = None
NoVisits == owner = None /\ inflight = None /\ counts = None /\ now = None /\ mixed = None
NoAgents == agent = None /\ client = None /\ undo = None /\ shown = None /\ reverts = None
NoFeishu == /\ binding = None /\ mode = None /\ pending = None /\ hook = None /\ sender = None
            /\ calls = None /\ exists = None /\ mv = None /\ request = None /\ editFor = None
            /\ requested = None /\ done = None /\ commands = None
NoVotes  == /\ votes = None /\ status = None /\ over = None /\ acked = None /\ risky = None
            /\ stray = None
NoChecks == checkins = None /\ present = None /\ torn = None
NoAgenda == /\ meeting = None /\ segments = None /\ awards = None /\ guests = None
            /\ alive = None
NoPage   == page = None /\ turns = None /\ listed = None /\ touched = None /\ edits = None
NoStored == tail = None /\ rows = None
NoServed == made = None /\ begun = None

\* The invariants of the drafts hold of these, so they need no part of their own.
NoDraft == /\ row = [state |-> "idle"] /\ box = [d \in Draft |-> None] /\ late = {} /\ spent = {}
           /\ mapped = None /\ fresh = None /\ pc = None /\ want = None /\ seen = None
           /\ op = None /\ call = None
NoArticle ==
  /\ doc = [body |-> <<>>, cover |-> NoCover, media |-> <<>>] /\ before = doc
  /\ asked = <<>> /\ changes = None /\ glued = FALSE

-----------------------------------------------------------------------------
MCInit ==
  /\ \/ /\ part \in {"wechat", "article"}
        /\ NoToken /\ NoVisits /\ NoAgents /\ NoFeishu /\ NoVotes /\ NoChecks /\ NoAgenda
        /\ NoPage /\ NoStored /\ NoServed /\ timings = None /\ req = None /\ turn = None
        /\ lapse = None /\ happened = None /\ raced = None /\ saved = None
     \/ /\ part = "token" /\ T!Init
        /\ NoVisits /\ NoAgents /\ NoFeishu /\ NoVotes /\ NoChecks /\ NoAgenda /\ NoPage
        /\ NoStored /\ NoServed /\ timings = None /\ req = None /\ turn = None /\ lapse = None
        /\ happened = None /\ raced = None /\ saved = None
     \/ /\ part \in VisitParts /\ P!Init
        /\ NoToken /\ NoAgents /\ NoFeishu /\ NoVotes /\ NoChecks /\ NoAgenda /\ NoPage
        /\ NoServed /\ timings = None /\ turn = None /\ raced = None /\ saved = None
     \/ /\ part = "agents" /\ G!Init
        /\ NoToken /\ NoVisits /\ NoFeishu /\ NoVotes /\ NoChecks /\ NoAgenda /\ NoPage
        /\ NoServed /\ timings = None /\ req = None /\ raced = None /\ saved = None
     \/ /\ part \in FeishuParts /\ F!Init
        /\ NoToken /\ NoVisits /\ NoAgents /\ NoVotes /\ NoChecks /\ NoAgenda /\ NoPage
        /\ NoStored /\ NoServed /\ timings = None /\ req = None /\ turn = None /\ lapse = None
        /\ raced = None /\ saved = None
     \/ /\ part = "votes" /\ V!Init
        /\ NoToken /\ NoVisits /\ NoAgents /\ NoFeishu /\ NoChecks /\ NoAgenda /\ NoPage
        /\ NoStored /\ timings = None /\ turn = None /\ lapse = None /\ happened = None
        /\ raced = None /\ saved = None
     \/ /\ part = "checkins" /\ A!Init
        /\ NoToken /\ NoVisits /\ NoAgents /\ NoFeishu /\ NoVotes /\ NoAgenda /\ NoPage
        /\ NoStored /\ timings = None /\ turn = None /\ lapse = None /\ happened = None
        /\ saved = None
     \/ /\ part = "timings" /\ K!Init
        /\ NoToken /\ NoVisits /\ NoAgents /\ NoFeishu /\ NoVotes /\ NoChecks /\ NoAgenda
        /\ NoPage /\ NoStored /\ turn = None /\ lapse = None /\ happened = None /\ saved = None
     \/ /\ part = "agenda" /\ M!Init
        /\ NoToken /\ NoVisits /\ NoAgents /\ NoFeishu /\ NoVotes /\ NoChecks /\ NoPage
        /\ NoStored /\ timings = None /\ turn = None /\ happened = None
     \/ /\ \/ part = "saving" /\ Page(Saving)!Init
           \/ part \in PageParts \ {"saving"} /\ E!Init
        /\ NoToken /\ NoVisits /\ NoAgents /\ NoFeishu /\ NoVotes /\ NoChecks /\ NoAgenda
        /\ NoStored /\ NoServed /\ timings = None /\ req = None /\ lapse = None
        /\ happened = None /\ raced = None
  /\ IF part = "wechat" THEN Init ELSE NoDraft
  /\ IF part = "article" THEN EditsInit ELSE NoArticle

OtherNext ==
  \/ /\ part = "token" /\ T!Next
     /\ UNCHANGED <<visitsOnly, agentsOnly, feishuOnly, votesOnly, checksOnly, agendaOnly,
                    pageOnly, stored, served, timings, req, turn, lapse, happened, raced, saved>>
  \/ /\ part \in VisitParts /\ VisitsNext
     /\ UNCHANGED <<tokenOnly, agentsOnly, feishuOnly, votesOnly, checksOnly, agendaOnly,
                    pageOnly, served, timings, turn, raced, saved>>
  \/ /\ part = "agents" /\ G!Next
     /\ UNCHANGED <<tokenOnly, visitsOnly, feishuOnly, votesOnly, checksOnly, agendaOnly,
                    pageOnly, served, timings, req, raced, saved>>
  \/ /\ part \in FeishuParts /\ FeishuNext
     /\ UNCHANGED <<tokenOnly, visitsOnly, agentsOnly, votesOnly, checksOnly, agendaOnly,
                    pageOnly, stored, served, timings, req, turn, lapse, raced, saved>>
  \/ /\ part = "votes" /\ V!Next
     /\ UNCHANGED <<tokenOnly, visitsOnly, agentsOnly, feishuOnly, checksOnly, agendaOnly,
                    pageOnly, stored, timings, turn, lapse, happened, raced, saved>>
  \/ /\ part = "checkins" /\ A!Next
     /\ UNCHANGED <<tokenOnly, visitsOnly, agentsOnly, feishuOnly, votesOnly, agendaOnly,
                    pageOnly, stored, timings, turn, lapse, happened, saved>>
  \/ /\ part = "timings" /\ K!Next
     /\ UNCHANGED <<tokenOnly, visitsOnly, agentsOnly, feishuOnly, votesOnly, checksOnly,
                    agendaOnly, pageOnly, stored, turn, lapse, happened, saved>>
  \/ /\ part = "agenda" /\ M!Next
     /\ UNCHANGED <<tokenOnly, visitsOnly, agentsOnly, feishuOnly, votesOnly, checksOnly,
                    pageOnly, stored, timings, turn, happened>>
  \/ /\ part \in PageParts /\ PageNext
     /\ UNCHANGED <<tokenOnly, visitsOnly, agentsOnly, feishuOnly, votesOnly, checksOnly,
                    agendaOnly, stored, served, timings, req, lapse, happened, raced>>

partVars == <<tokenOnly, visitsOnly, agentsOnly, feishuOnly, votesOnly, checksOnly, agendaOnly,
              pageOnly, stored, served, timings, req, turn, lapse, happened, raced, saved>>

MCNext ==
  /\ \/ part = "wechat"  /\ Next      /\ UNCHANGED <<editVars, partVars>>
     \/ part = "article" /\ EditsNext /\ UNCHANGED <<vars, partVars>>
     \/ OtherNext /\ UNCHANGED <<vars, editVars>>
  /\ UNCHANGED part

MCSpec == MCInit /\ [][MCNext]_<<vars, editVars, partVars, part>>

-----------------------------------------------------------------------------
\* The variables of a part have their types.
PartsTypeOK ==
  /\ part \in FeishuParts => F!TypeOK
  /\ part = "wechat"  => TypeOK
  /\ part = "token"   => T!TypeOK
  /\ part = "agents"  => G!TypeOK
  /\ part \in VisitParts => P!TypeOK
  /\ part = "votes"   => V!TypeOK
  /\ part = "checkins" => A!TypeOK
  /\ part = "timings" => K!TypeOK
  /\ part = "agenda"  => M!TypeOK
  /\ part = "article" => EditsTypeOK
  /\ part \in PageParts => E!TypeOK
=============================================================================
