---------------------------- MODULE WechatToken ----------------------------
(***************************************************************************)
(* The access token that the WeChat gateway's request threads share: read  *)
(* under a lock before each call, refreshed under the lock when WeChat     *)
(* refuses it, and replaced behind the gateway's back when somebody else   *)
(* asks WeChat for a new one.                                              *)
(***************************************************************************)
EXTENDS Naturals

CONSTANTS Thread,     \* requests to the gateway
          MaxEvents   \* bound: rotations elsewhere, ageings and failed fetches

VARIABLES
  cached,   \* the gateway's token, numbered in the order of issue, or 0
  fresh,    \* it has more than five minutes left
  newest,   \* the last token WeChat issued
  usable,   \* the tokens WeChat accepts
  pc,       \* progress of each request
  token,    \* the token a request has read
  events    \* how many rotations, ageings and failures there were

vars == <<cached, fresh, newest, usable, pc, token, events>>

Init ==
  /\ cached = 0 /\ fresh = FALSE /\ newest = 0 /\ usable = {}
  /\ pc = [r \in Thread |-> "get"]
  /\ token = [r \in Thread |-> 0]
  /\ events = 0

Event == events < MaxEvents /\ events' = events + 1

Take(r, t) ==
  /\ token' = [token EXCEPT ![r] = t]
  /\ pc' = [pc EXCEPT ![r] = IF @ = "get" THEN "send" ELSE "resend"]

\* stable_token: a forced refresh invalidates what was issued before; without
\* force WeChat repeats a token that is good for some time.
Issue(force) ==
  IF force THEN newest' = newest + 1 /\ usable' = {newest'}
  ELSE IF newest \in usable /\ (fresh \/ cached # newest) THEN UNCHANGED <<newest, usable>>
  ELSE newest' = newest + 1 /\ usable' = usable \cup {newest'}

\* Mutant: the token is dropped and its expiry time is not.
DropToken == cached' = 0 /\ UNCHANGED fresh

\* A refused token and its expiry time are dropped before a new one is fetched.
Drop == cached' = 0 /\ fresh' = FALSE

\* _fetch_access_token_locked; the whole call holds the token lock.
Fetch(r, force) ==
  \/ /\ Issue(force)
     /\ cached' = newest' /\ fresh' = TRUE
     /\ Take(r, newest')
     /\ UNCHANGED events
  \/ /\ Event
     /\ pc' = [pc EXCEPT ![r] = "failed"]
     /\ IF force THEN Drop ELSE UNCHANGED <<cached, fresh>>
     /\ UNCHANGED <<newest, usable, token>>

AccessToken(r) ==
  /\ pc[r] = "get"
  /\ IF cached # 0 /\ fresh
     THEN Take(r, cached) /\ UNCHANGED <<cached, fresh, newest, usable, events>>
     ELSE Fetch(r, FALSE)

\* Mutant: every refused request asks for a token of its own.
ReplacedNever(r) == FALSE

\* Another request has replaced the refused token already.
Replaced(r) == cached # 0 /\ cached # token[r] /\ fresh

RefreshStaleToken(r) ==
  /\ pc[r] = "refresh"
  /\ IF Replaced(r)
     THEN Take(r, cached) /\ UNCHANGED <<cached, fresh, newest, usable, events>>
     ELSE Fetch(r, TRUE)

\* _wechat_request: a refused token is refreshed and the call repeated once.
Send(r) ==
  /\ pc[r] \in {"send", "resend"}
  /\ pc' = [pc EXCEPT ![r] = IF token[r] \in usable THEN "ok"
                             ELSE IF @ = "send" THEN "refresh" ELSE "refused"]
  /\ UNCHANGED <<cached, fresh, newest, usable, token, events>>

\* Somebody else forces a new token.
Rotate ==
  /\ Event
  /\ newest' = newest + 1 /\ usable' = {newest'}
  /\ UNCHANGED <<cached, fresh, pc, token>>

Age ==
  /\ fresh /\ Event
  /\ fresh' = FALSE
  /\ UNCHANGED <<cached, newest, usable, pc, token>>

Next ==
  \/ \E r \in Thread : AccessToken(r) \/ Send(r) \/ RefreshStaleToken(r)
  \/ Rotate \/ Age

Spec == Init /\ [][Next]_vars

TypeOK ==
  /\ cached <= newest /\ usable \subseteq 1..newest
  /\ \A r \in Thread : pc[r] \in {"send", "resend", "refresh", "ok", "refused"} => token[r] > 0
  /\ fresh => cached # 0

\* However many requests meet a token that was replaced elsewhere, their
\* refreshes do not take each other's new token away: no request is refused
\* for good unless there was a second rotation, an ageing or a failure.
OneRotationIsSurvived == (\E r \in Thread : pc[r] = "refused") => events >= 2
=============================================================================
