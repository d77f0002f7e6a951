---------------------------- MODULE WechatDraft ----------------------------
(***************************************************************************)
(* The WeChat draft of one workspace: a row of wxpost_wechat_drafts that   *)
(* is claimed, written and released by concurrent publish requests, and    *)
(* the draft box of the Official Account behind the gateway.  A request    *)
(* runs in the backend and can die at any step, a call to WeChat can be    *)
(* lost before or after its effect, or take effect after its caller gave   *)
(* up, and a claim older than 15 minutes can be taken over.                *)
(***************************************************************************)
EXTENDS Naturals, FiniteSets

CONSTANTS Request,     \* publish and preview requests
          Projection,  \* what may be published: a revision, presentation, mode
          Draft,       \* WeChat draft ids, numbered in the order they are given
          None,        \* no projection, draft or operation
          Events,      \* what may happen: see Once
          MaxEvents    \* bound: how many of the Events happen in a behaviour

\* The names of the model are told apart.
NamesDiffer ==
  /\ None \notin Request \cup Projection \cup Draft
  /\ "deleted" \notin Projection \cup {None}

VARIABLES
  row,     \* the row: state, projection, media id, operation, add_started_at
  mapped,  \* the projections whose images have WeChat ids in asset_mappings
  fresh,   \* the row was updated less than 15 minutes ago
  pc,      \* progress of each request
  want,    \* the projection a request publishes
  seen,    \* the draft id a request has read, found or created
  op,      \* the operation_id of the row a request has read
  call,    \* the call a request has at WeChat
  box,     \* the draft box: the projection each draft shows
  late,    \* history: "update" when one took effect after its request had lost
           \* the row, "recovery" when one linked a draft that was deleted by hand
  spent    \* the Events that have happened

local == <<pc, want, seen, op>>
vars == <<row, mapped, fresh, local, call, box, late, spent>>

Once(e) ==
  /\ e \in Events \ spent /\ Cardinality(spent) < MaxEvents
  /\ spent' = spent \cup {e}

Init ==
  /\ row = [state |-> "idle", p |-> None, media |-> None, op |-> None, adding |-> FALSE]
  /\ mapped = {} /\ fresh = TRUE
  /\ pc = [r \in Request |-> "idle"]
  /\ want = [r \in Request |-> None]
  /\ seen = [r \in Request |-> None]
  /\ op = [r \in Request |-> None]
  /\ call = [r \in Request |-> "none"]
  /\ box = [d \in Draft |-> None]
  /\ late = {} /\ spent = {}

\* A draft that was created and that nobody has deleted from the box.
Live(d) == d \in Draft /\ box[d] \in Projection

GoTo(r, step) == pc' = [pc EXCEPT ![r] = step]

\* Mutant: update_projection without its operation_id.
OwnsAny(r) == TRUE

\* update_projection: an operation that no longer owns the row fails, and
\* leaves the row as it is.  Every update renews the lease.
Owns(r) == row.op = r

Update(new) == row' = new /\ fresh' = TRUE

-----------------------------------------------------------------------------
(* The claim                                                               *)

\* Mutant: a claim that has expired is taken over whatever it was doing.
TakenOver == TRUE

\* An expired claim may be taken over unless it may have added a draft.
Reclaimable == ~row.adding \/ row.media # None

\* claim_wxpost_wechat_draft, one transaction on the locked row.  A request
\* that finds an uncertain row looks for its own projection in the box, if all
\* its images are mapped.
Claim(r) ==
  /\ pc[r] = "claim"
  /\ LET expired == row.state = "creating" /\ ~fresh IN
     CASE row.state = "ready" /\ row.p = want[r] ->
            /\ GoTo(r, IF want[r] \in mapped THEN "check" ELSE "over")
            /\ seen' = [seen EXCEPT ![r] = row.media] /\ op' = [op EXCEPT ![r] = row.op]
            /\ UNCHANGED <<row, fresh>>
       [] row.state = "creating" /\ fresh ->
            GoTo(r, "over") /\ UNCHANGED <<row, fresh, seen, op>>
       [] row.state = "uncertain" \/ (expired /\ ~Reclaimable) ->
            /\ row' = [row EXCEPT !.state = "uncertain"]
            /\ fresh' = (fresh \/ expired)
            /\ GoTo(r, IF row.p = want[r] /\ want[r] \in mapped THEN "search" ELSE "over")
            /\ UNCHANGED <<seen, op>>
       [] OTHER ->
            /\ Update([row EXCEPT !.state = "creating", !.p = want[r], !.op = r, !.adding = FALSE])
            /\ GoTo(r, "upload")
            /\ seen' = [seen EXCEPT ![r] = row.media] /\ op' = [op EXCEPT ![r] = r]
  /\ UNCHANGED <<mapped, want, call, box, late, spent>>

\* A member asks for a revision, a presentation and a render mode.
Publish(r, p) ==
  /\ pc[r] = "idle"
  /\ want' = [want EXCEPT ![r] = p]
  /\ GoTo(r, "claim")
  /\ UNCHANGED <<row, mapped, fresh, seen, op, call, box, late, spent>>

\* The preview reads the link before it asks WeChat.
Preview(r) ==
  /\ pc[r] = "idle" /\ row.media # None
  /\ want' = [want EXCEPT ![r] = row.p]
  /\ seen' = [seen EXCEPT ![r] = row.media]
  /\ GoTo(r, "preview")
  /\ UNCHANGED <<row, mapped, fresh, op, call, box, late, spent>>

LeaseExpires ==
  /\ row.state = "creating" /\ fresh /\ Once("lease")
  /\ fresh' = FALSE
  /\ UNCHANGED <<row, mapped, local, call, box, late>>

\* reset-uncertain: a member declares that the box holds no draft of ours.
Reset ==
  /\ row.state = "uncertain" /\ row.media = None /\ Once("reset")
  /\ row' = [row EXCEPT !.state = "idle", !.p = None, !.op = None, !.adding = FALSE]
  /\ fresh' = TRUE
  /\ UNCHANGED <<mapped, local, call, box, late>>

-----------------------------------------------------------------------------
(* An operation that holds the claim                                       *)

\* The images are uploaded and their ids saved one by one.
Upload(r) ==
  /\ pc[r] = "upload"
  /\ \/ /\ Owns(r) \/ want[r] \in mapped
        /\ mapped' = mapped \cup {want[r]}
        /\ fresh' = (fresh \/ want[r] \notin mapped)
        /\ GoTo(r, IF seen[r] # None THEN "update" ELSE "mark")
        /\ UNCHANGED spent
     \/ /\ ~Owns(r) /\ want[r] \notin mapped
        /\ GoTo(r, "over") /\ UNCHANGED <<mapped, fresh, spent>>
     \/ /\ Once("rejected")
        /\ GoTo(r, "failed") /\ UNCHANGED <<mapped, fresh>>
  /\ call' = [call EXCEPT ![r] = IF pc'[r] = "update" THEN "sent" ELSE @]
  /\ UNCHANGED <<row, want, seen, op, box, late>>

\* mark_add_started, and mark_replacement_add_started for a draft that WeChat
\* has confirmed missing; then the request to add goes out.
MarkAddStarted(r) ==
  /\ pc[r] = "mark"
  /\ IF Owns(r)
     THEN /\ Update([row EXCEPT !.media = None, !.adding = TRUE])
          /\ GoTo(r, "add") /\ call' = [call EXCEPT ![r] = "sent"]
          /\ seen' = [seen EXCEPT ![r] = None]
     ELSE GoTo(r, "over") /\ UNCHANGED <<row, fresh, seen, call>>
  /\ UNCHANGED <<mapped, want, op, box, late, spent>>

\* WeChat adds the draft, also after its caller has gone.
WechatAdds(r) ==
  /\ call[r] = "sent" /\ seen[r] = None
  /\ \E d \in Draft :
       /\ box[d] = None /\ \A e \in Draft : e < d => box[e] # None
       /\ box' = [box EXCEPT ![d] = want[r]]
       /\ seen' = [seen EXCEPT ![r] = d]
  /\ call' = [call EXCEPT ![r] = "done"]
  /\ UNCHANGED <<row, mapped, fresh, pc, want, op, late, spent>>

\* WeChat updates the draft if it still exists.
WechatUpdates(r) ==
  /\ call[r] = "sent" /\ seen[r] # None
  /\ late' = IF Owns(r) /\ pc[r] = "update" THEN late ELSE late \cup {"update"}
  /\ IF Live(seen[r])
     THEN box' = [box EXCEPT ![seen[r]] = want[r]] /\ call' = [call EXCEPT ![r] = "done"]
     ELSE call' = [call EXCEPT ![r] = "missing"] /\ UNCHANGED box
  /\ UNCHANGED <<row, mapped, fresh, local, spent>>

\* The cover has expired (40007): it is uploaded and mapped again, and the call
\* repeated; a repeated call fails for good.
CoverExpired(r) ==
  /\ pc[r] \in {"add", "update"} /\ call[r] = "sent" /\ Once("cover")
  /\ IF Owns(r) THEN fresh' = TRUE /\ UNCHANGED <<pc, call>>
     ELSE /\ GoTo(r, "over") /\ call' = [call EXCEPT ![r] = "none"] /\ UNCHANGED fresh
  /\ UNCHANGED <<row, mapped, want, seen, op, box, late>>

HearAdd(r) ==
  /\ pc[r] = "add" /\ call[r] = "done"
  /\ GoTo(r, "record")
  /\ UNCHANGED <<row, mapped, fresh, want, seen, op, call, box, late, spent>>

HearUpdate(r) ==
  /\ pc[r] = "update" /\ call[r] \in {"done", "missing"}
  /\ GoTo(r, IF call[r] = "done" THEN "ready" ELSE "mark")
  /\ UNCHANGED <<row, mapped, fresh, want, seen, op, call, box, late, spent>>

\* WeChat refuses: nothing has happened.
Rejected(r) ==
  /\ pc[r] \in {"add", "update"} /\ call[r] = "sent" /\ Once("rejected")
  /\ call' = [call EXCEPT ![r] = "none"]
  /\ GoTo(r, "failed")
  /\ UNCHANGED <<row, mapped, fresh, want, seen, op, box, late>>

\* No answer: for an addition the outcome is uncertain, for an update it counts
\* as failed.  The call may have been carried out, be carried out later, or
\* never.
Lost(r) ==
  /\ pc[r] \in {"add", "update"} /\ call[r] \in {"sent", "done"} /\ Once("lost")
  /\ \/ UNCHANGED call
     \/ call[r] = "sent" /\ call' = [call EXCEPT ![r] = "none"]
  /\ GoTo(r, IF pc[r] = "add" THEN "unknown" ELSE "failed")
  /\ UNCHANGED <<row, mapped, fresh, want, seen, op, box, late>>

Record(r) ==
  /\ pc[r] = "record"
  /\ IF Owns(r)
     THEN Update([row EXCEPT !.media = seen[r]]) /\ GoTo(r, "ready")
     ELSE GoTo(r, "over") /\ UNCHANGED <<row, fresh>>
  /\ UNCHANGED <<mapped, want, seen, op, call, box, late, spent>>

\* mark_projection_ready, whether the draft could be read back or not.
MarkReady(r) ==
  /\ pc[r] = "ready"
  /\ IF Owns(r)
     THEN Update([row EXCEPT !.state = "ready", !.media = seen[r], !.adding = FALSE])
     ELSE UNCHANGED <<row, fresh>>
  /\ GoTo(r, "over")
  /\ UNCHANGED <<mapped, want, seen, op, call, box, late, spent>>

\* mark_projection_failed
NextState(r) == IF pc[r] \in {"unknown", "mark unknown"} THEN "uncertain" ELSE "idle"

\* The error handler looks at the row first, then writes the outcome.
LookBeforeFailing(r) ==
  /\ pc[r] \in {"failed", "unknown"}
  /\ GoTo(r, IF row.state = "ready" THEN "over"
             ELSE IF pc[r] = "unknown" THEN "mark unknown" ELSE "mark failed")
  /\ UNCHANGED <<row, mapped, fresh, want, seen, op, call, box, late, spent>>

MarkFailed(r) ==
  /\ pc[r] \in {"mark failed", "mark unknown"}
  /\ IF Owns(r) THEN Update([row EXCEPT !.state = NextState(r)]) ELSE UNCHANGED <<row, fresh>>
  /\ GoTo(r, "over")
  /\ UNCHANGED <<mapped, want, seen, op, call, box, late, spent>>

-----------------------------------------------------------------------------
(* A ready draft, an uncertain one, and the preview                        *)

\* get_draft answers that the draft exists, or that it does not.
ReadDraft(r) ==
  /\ pc[r] \in {"check", "preview"}
  /\ GoTo(r, IF ~Live(seen[r]) THEN (IF pc[r] = "check" THEN "replace" ELSE "unlink")
             ELSE IF pc[r] = "check" THEN "confirm" ELSE "over")
  /\ UNCHANGED <<row, mapped, fresh, want, seen, op, call, box, late, spent>>

\* A readback that differs from the one stored is recorded under the operation
\* of the row that was read.
Confirm(r) ==
  /\ pc[r] = "confirm"
  /\ \/ row.op = op[r] /\ Update([row EXCEPT !.state = "ready", !.media = seen[r], !.adding = FALSE])
     \/ UNCHANGED <<row, fresh>>
  /\ GoTo(r, "over")
  /\ UNCHANGED <<mapped, want, seen, op, call, box, late, spent>>

StillLinked(r) ==
  row.state \in {"idle", "ready"} /\ row.media = seen[r] /\ row.p = want[r]

\* clear_confirmed_missing_projection keeps the body images but not the covers.
\* A publish request then starts over.
ClearMissing(r) ==
  /\ pc[r] \in {"replace", "unlink"}
  /\ IF StillLinked(r)
     THEN /\ Update([row EXCEPT !.state = "idle", !.media = None, !.adding = FALSE])
          /\ mapped' = {}
          /\ GoTo(r, IF pc[r] = "replace" THEN "claim" ELSE "over")
     ELSE GoTo(r, "over") /\ UNCHANGED <<row, mapped, fresh>>
  /\ UNCHANGED <<want, seen, op, call, box, late, spent>>

\* Exactly one draft of the box has the title, author, digest, cover and
\* content that the lost request sent.
Search(r) ==
  /\ pc[r] = "search"
  /\ LET found == {d \in Draft : box[d] = want[r]} IN
     IF Cardinality(found) = 1
     THEN GoTo(r, "recover") /\ seen' = [seen EXCEPT ![r] = CHOOSE d \in found : TRUE]
     ELSE GoTo(r, "over") /\ UNCHANGED seen
  /\ UNCHANGED <<row, mapped, fresh, want, op, call, box, late, spent>>

\* recover_uncertain_projection looks at the state only.
Recover(r) ==
  /\ pc[r] = "recover"
  /\ IF row.state = "uncertain"
     THEN /\ Update([row EXCEPT !.state = "ready", !.media = seen[r], !.adding = FALSE])
          /\ late' = IF Live(seen[r]) THEN late ELSE late \cup {"recovery"}
     ELSE UNCHANGED <<row, fresh, late>>
  /\ GoTo(r, "over")
  /\ UNCHANGED <<mapped, want, seen, op, call, box, spent>>

-----------------------------------------------------------------------------
(* The backend's process and the Official Account's editors                *)

Die(r) ==
  /\ pc[r] \notin {"idle", "over"} /\ Once("die")
  /\ GoTo(r, "over")
  /\ UNCHANGED <<row, mapped, fresh, want, seen, op, call, box, late>>

\* Somebody deletes the draft by hand.
DeleteByHand(d) ==
  /\ Live(d) /\ Once("deleted")
  /\ box' = [box EXCEPT ![d] = "deleted"]
  /\ UNCHANGED <<row, mapped, fresh, local, call, late>>

Operate(r) ==
  \/ Claim(r) \/ Upload(r) \/ MarkAddStarted(r) \/ HearAdd(r) \/ HearUpdate(r)
  \/ Record(r) \/ MarkReady(r) \/ LookBeforeFailing(r) \/ MarkFailed(r)
  \/ ReadDraft(r) \/ Confirm(r) \/ ClearMissing(r) \/ Search(r) \/ Recover(r)

Next ==
  \/ \E r \in Request : (\E p \in Projection : Publish(r, p)) \/ Preview(r)
  \/ \E r \in Request : Operate(r) \/ WechatAdds(r) \/ WechatUpdates(r)
  \/ \E r \in Request : CoverExpired(r) \/ Rejected(r) \/ Lost(r) \/ Die(r)
  \/ LeaseExpires \/ Reset
  \/ \E d \in Draft : DeleteByHand(d)

Spec == Init /\ [][Next]_vars

-----------------------------------------------------------------------------
(* Properties *)

TypeOK ==
  /\ row.state \in {"idle", "creating", "ready", "uncertain"}
  /\ row.p \in Projection \cup {None} /\ row.media \in Draft \cup {None}
  /\ row.op \in Request \cup {None} /\ row.adding \in BOOLEAN
  /\ row.state = "ready" => row.media # None /\ row.p # None
  /\ mapped \subseteq Projection
  /\ call \in [Request -> {"none", "sent", "done", "missing"}]
  /\ late \subseteq {"update", "recovery"}

\* "Once it starts, retry must recover the remote result instead of blindly
\* adding": the box never holds two drafts of the workspace, whatever was lost,
\* died or expired.  The exceptions are a member who declares the first one not
\* to exist, and a recovery that links a draft deleted while it looked.
OneDraft == "reset" \notin spent /\ "recovery" \notin late => Cardinality({d \in Draft : Live(d)}) <= 1

\* A ready row names a draft that shows its projection, or that was deleted by
\* hand.  The exceptions are an update that takes effect after its request has
\* given up or lost the row, a member who declares a draft lost while it is
\* being recovered, and a recovery that links a draft deleted while it looked:
\* the next one may then be recovered under the projection of another request.
ReadyIsShown ==
  row.state = "ready" /\ late = {} /\ "reset" \notin spent
    => box[row.media] \in {row.p, "deleted"}

\* One draft per workspace, and a ready row shows it.
DraftIsShown == OneDraft /\ ReadyIsShown
=============================================================================
