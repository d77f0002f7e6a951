---------------------------- MODULE ServicesProofs ----------------------------
(***************************************************************************)
(* Services that many threads or requests share: the token of the WeChat   *)
(* gateway, the session of a visitor with the public agent, a member's     *)
(* conversation with the club's agents, and one of members with the agent  *)
(* in Feishu.  They have nothing in common but the shape of the proof:     *)
(* something that several requests use in a few steps.  The theorems hold  *)
(* for any number of them.  The names are those of Services, where a       *)
(* variable that two parts have stands for that of the part in question.   *)
(***************************************************************************)
EXTENDS Services, FiniteSetTheorems, SequenceTheorems, TLAPS

-----------------------------------------------------------------------------
(* The token of the WeChat gateway                                         *)

\* Numbers of tokens, and who has one.
TokenTypes ==
  /\ cached \in Nat /\ newest \in Nat /\ events \in Nat /\ lasting \in BOOLEAN
  /\ cached <= newest /\ usable \subseteq 1..newest
  /\ (lasting => cached # 0)
  /\ stage \in [Thread -> {"get", "send", "resend", "refresh", "ok", "refused", "failed"}]
  /\ token \in [Thread -> Nat]
  /\ \A r \in Thread : stage[r] \in {"send", "resend", "refresh", "ok", "refused"} => token[r] > 0

\* The three situations while there has been one event at most: nothing refuses
\* what the threads have; the token they share has been replaced elsewhere; and
\* one of them has replaced it in turn.
Quiet ==
  /\ cached \in usable \cup {0}
  /\ \A r \in Thread : /\ stage[r] \notin {"refresh", "resend", "refused"}
                       /\ stage[r] = "send" => token[r] \in usable

Stale ==
  /\ lasting /\ cached \notin usable
  /\ \A r \in Thread : /\ stage[r] \notin {"resend", "refused"}
                       /\ stage[r] \in {"send", "refresh"} => token[r] = cached

Recovered ==
  /\ lasting /\ cached \in usable
  /\ \A r \in Thread : /\ stage[r] # "refused"
                       /\ stage[r] = "refresh" => token[r] # cached
                       /\ stage[r] = "resend" => token[r] \in usable

\* Before the first event all threads have the same token.
Undisturbed ==
  /\ Quiet /\ (cached # 0 => lasting)
  /\ \A r \in Thread : stage[r] = "send" => token[r] = cached

TokenInv ==
  /\ TokenTypes
  /\ events = 0 => Undisturbed
  /\ events = 1 => Quiet \/ Stale \/ Recovered

-----------------------------------------------------------------------------
LEMMA TypesKept ==
  ASSUME TokenTypes, T!Next
  PROVE  TokenTypes' /\ events <= events'
<1>1. ASSUME NEW r \in Thread, NEW t \in Nat, t > 0, T!Take(r, t)
      PROVE  /\ stage' \in [Thread -> {"get", "send", "resend", "refresh", "ok", "refused", "failed"}]
             /\ token' \in [Thread -> Nat]
             /\ \A p \in Thread : stage'[p] \in {"send", "resend", "refresh", "ok", "refused"} => token'[p] > 0
  BY <1>1 DEF T!Take, TokenTypes
<1>2. ASSUME NEW r \in Thread, NEW force \in BOOLEAN, T!Fetch(r, force), stage[r] \in {"get", "refresh"}
      PROVE  TokenTypes' /\ events <= events'
  <2>1. CASE T!Issue(force) /\ cached' = newest' /\ lasting' = TRUE /\ T!Take(r, newest') /\ UNCHANGED events
    <3>1. newest' \in Nat /\ newest' > 0 /\ usable' \subseteq 1..newest'
      <4>1. newest \in Nat /\ usable \subseteq 1..newest
        BY DEF TokenTypes
      <4>2. CASE newest' = newest + 1 /\ usable' \subseteq usable \cup {newest'}
        BY <4>1, <4>2
      <4>3. CASE UNCHANGED <<newest, usable>> /\ newest \in usable
        BY <4>1, <4>3
      <4> QED BY <2>1, <4>2, <4>3 DEF T!Issue
    <3>2. PICK t : t = newest'
      OBVIOUS
    <3> QED BY <1>1, <2>1, <3>1, <3>2 DEF TokenTypes
  <2>2. CASE /\ T!Event /\ stage' = [stage EXCEPT ![r] = "failed"]
             /\ IF force THEN T!Drop ELSE UNCHANGED <<cached, lasting>>
             /\ UNCHANGED <<newest, usable, token>>
    <3>1. events' = events + 1 /\ events \in Nat
      BY <2>2 DEF T!Event, TokenTypes
    <3>2. /\ cached' \in {cached, 0} /\ lasting' \in BOOLEAN /\ (lasting' => cached' # 0)
      BY <2>2 DEF T!Drop, TokenTypes
    <3>3. cached' <= newest'
      BY <2>2, <3>2 DEF TokenTypes
    <3> QED BY <2>2, <3>1, <3>2, <3>3 DEF TokenTypes
  <2> QED BY <1>2, <2>1, <2>2 DEF T!Fetch
<1>3. ASSUME NEW r \in Thread, T!AccessToken(r) PROVE TokenTypes' /\ events <= events'
  <2>1. CASE cached # 0 /\ lasting
    <3>1. T!Take(r, cached) /\ UNCHANGED <<cached, lasting, newest, usable, events>>
      BY <1>3, <2>1 DEF T!AccessToken
    <3>2. cached \in Nat /\ cached > 0 /\ events <= events'
      BY <2>1, <3>1 DEF TokenTypes
    <3> QED BY <1>1, <3>1, <3>2 DEF TokenTypes
  <2>2. CASE ~(cached # 0 /\ lasting)
    BY <1>2, <1>3, <2>2 DEF T!AccessToken
  <2> QED BY <2>1, <2>2
<1>4. ASSUME NEW r \in Thread, T!RefreshStaleToken(r) PROVE TokenTypes' /\ events <= events'
  <2>1. CASE T!Replaced(r)
    <3>1. T!Take(r, cached) /\ UNCHANGED <<cached, lasting, newest, usable, events>> /\ cached # 0
      BY <1>4, <2>1 DEF T!RefreshStaleToken, T!Replaced
    <3>2. cached \in Nat /\ cached > 0 /\ events <= events'
      BY <3>1 DEF TokenTypes
    <3> QED BY <1>1, <3>1, <3>2 DEF TokenTypes
  <2>2. CASE ~T!Replaced(r)
    BY <1>2, <1>4, <2>2 DEF T!RefreshStaleToken
  <2> QED BY <2>1, <2>2
<1>5. ASSUME NEW r \in Thread, T!Send(r) PROVE TokenTypes' /\ events <= events'
  BY <1>5 DEF T!Send, TokenTypes
<1>6. CASE T!Rotate
  <2>1. newest' = newest + 1 /\ usable' = {newest + 1} /\ events' = events + 1
    BY <1>6 DEF T!Rotate, T!Event
  <2>2. newest' \in Nat /\ events' \in Nat /\ events <= events' /\ cached <= newest'
        /\ usable' \subseteq 1..newest'
    BY <2>1 DEF TokenTypes
  <2> QED BY <1>6, <2>2 DEF T!Rotate, TokenTypes
<1>7. CASE T!Age
  <2>1. /\ UNCHANGED <<cached, newest, usable, stage, token>> /\ lasting' = FALSE
        /\ events' = events + 1 /\ events \in Nat
    BY <1>7 DEF T!Age, T!Event, TokenTypes
  <2>2. events' \in Nat /\ events <= events'
    BY <2>1
  <2> QED BY <2>1, <2>2 DEF TokenTypes
<1> QED BY <1>3, <1>4, <1>5, <1>6, <1>7 DEF T!Next

\* A request that takes the token of the gateway, when it may go by it.
LEMMA TakeStep ==
  ASSUME TokenInv, NEW r \in Thread, T!Take(r, cached), lasting, cached # 0,
         UNCHANGED <<cached, lasting, newest, usable, events>>,
         stage[r] = "get" \/ (stage[r] = "refresh" /\ token[r] # cached)
  PROVE  /\ events' = 0 => Undisturbed'
         /\ events' = 1 => (Quiet \/ Stale \/ Recovered)'
<1>1. \A p \in Thread :
        /\ p # r => stage'[p] = stage[p] /\ token'[p] = token[p]
        /\ token'[r] = cached
        /\ stage'[r] = IF stage[r] = "get" THEN "send" ELSE "resend"
  BY DEF T!Take, TokenInv, TokenTypes
<1>2. CASE Undisturbed
  BY <1>1, <1>2 DEF Undisturbed, Quiet
<1>3. CASE events # 0 /\ Quiet
  BY <1>1, <1>3 DEF Quiet
<1>4. CASE events # 0 /\ Stale
  BY <1>1, <1>4 DEF Stale
<1>5. CASE events # 0 /\ Recovered
  BY <1>1, <1>5 DEF Recovered
<1> QED BY <1>2, <1>3, <1>4, <1>5 DEF TokenInv

\* A token is issued, or the fetch fails.
LEMMA FetchStep ==
  ASSUME TokenInv, NEW r \in Thread, NEW force \in BOOLEAN, T!Fetch(r, force),
         IF force THEN stage[r] = "refresh" /\ ~T!Replaced(r) ELSE stage[r] = "get" /\ ~(cached # 0 /\ lasting)
  PROVE  /\ events' = 0 => Undisturbed'
         /\ events' = 1 => (Quiet \/ Stale \/ Recovered)'
<1>1. CASE T!Issue(force) /\ cached' = newest' /\ lasting' = TRUE /\ T!Take(r, newest') /\ UNCHANGED events
  <2>1. \A p \in Thread :
          /\ p # r => stage'[p] = stage[p] /\ token'[p] = token[p]
          /\ token'[r] = newest'
          /\ stage'[r] = IF stage[r] = "get" THEN "send" ELSE "resend"
    BY <1>1 DEF T!Take, TokenInv, TokenTypes
  <2>2. newest' \in usable'
    BY <1>1 DEF T!Issue
  <2>3. ~force => usable \subseteq usable'
    BY <1>1 DEF T!Issue
  <2>4. CASE Undisturbed
    <3>1. ~force /\ cached = 0
      BY <2>4 DEF Undisturbed, Quiet
    <3> QED BY <1>1, <2>1, <2>2, <2>3, <2>4, <3>1 DEF Undisturbed, Quiet, TokenInv, TokenTypes
  <2>5. CASE events # 0 /\ Quiet
    <3>1. ~force
      BY <2>5 DEF Quiet
    <3> QED BY <1>1, <2>1, <2>2, <2>3, <2>5, <3>1 DEF Quiet
  <2>6. CASE events # 0 /\ Stale
    <3>1. force
      BY <2>6 DEF Stale, TokenInv, TokenTypes
    <3>2. newest' = newest + 1 /\ cached <= newest /\ newest \in Nat /\ cached \in Nat
      BY <1>1, <3>1 DEF T!Issue, TokenInv, TokenTypes
    <3>3. \A p \in Thread : stage'[p] = "refresh" => token'[p] # cached'
      BY <1>1, <2>1, <2>6, <3>2 DEF Stale
    <3> QED BY <1>1, <2>1, <2>2, <2>6, <3>1, <3>3 DEF Stale, Recovered
  <2>7. CASE events # 0 /\ Recovered
    BY <2>7 DEF Recovered, T!Replaced, TokenInv, TokenTypes
  <2> QED BY <1>1, <2>4, <2>5, <2>6, <2>7 DEF TokenInv, Undisturbed
<1>2. CASE /\ T!Event /\ stage' = [stage EXCEPT ![r] = "failed"]
           /\ IF force THEN T!Drop ELSE UNCHANGED <<cached, lasting>>
           /\ UNCHANGED <<newest, usable, token>>
  <2>1. CASE events = 0
    <3>1. ~force
      BY <2>1 DEF TokenInv, Undisturbed, Quiet
    <3> QED BY <1>2, <2>1, <3>1 DEF TokenInv, TokenTypes, Undisturbed, Quiet, T!Event
  <2>2. CASE events # 0
    BY <1>2, <2>2 DEF TokenInv, TokenTypes, T!Event
  <2> QED BY <2>1, <2>2
<1> QED BY <1>1, <1>2 DEF T!Fetch

LEMMA SendStep ==
  ASSUME TokenInv, NEW r \in Thread, T!Send(r)
  PROVE  /\ events' = 0 => Undisturbed'
         /\ events' = 1 => (Quiet \/ Stale \/ Recovered)'
<1>1. /\ UNCHANGED <<cached, lasting, newest, usable, token, events>> /\ stage[r] \in {"send", "resend"}
      /\ \A p \in Thread : stage'[p] = IF p # r THEN stage[p]
                                       ELSE IF token[r] \in usable THEN "ok"
                                       ELSE IF stage[r] = "send" THEN "refresh" ELSE "refused"
  BY DEF T!Send, TokenInv, TokenTypes
<1>2. CASE Undisturbed
  BY <1>1, <1>2 DEF Undisturbed, Quiet
<1>3. CASE events # 0 /\ Quiet
  BY <1>1, <1>3 DEF Quiet
<1>4. CASE events # 0 /\ Stale
  BY <1>1, <1>4 DEF Stale
<1>5. CASE events # 0 /\ Recovered
  BY <1>1, <1>5 DEF Recovered
<1> QED BY <1>1, <1>2, <1>3, <1>4, <1>5 DEF TokenInv

\* The token is replaced elsewhere, or comes to its end.
LEMMA EventStep ==
  ASSUME TokenInv, T!Rotate \/ T!Age
  PROVE  /\ events' = 0 => Undisturbed'
         /\ events' = 1 => (Quiet \/ Stale \/ Recovered)'
<1>1. UNCHANGED <<cached, stage, token>> /\ events' = events + 1 /\ events \in Nat
  BY DEF T!Rotate, T!Age, T!Event, TokenInv, TokenTypes
<1>2. CASE events = 0 /\ T!Rotate
  <2>1. newest' = newest + 1 /\ usable' = {newest + 1} /\ lasting' = lasting /\ Undisturbed
    BY <1>2 DEF T!Rotate, TokenInv
  <2>2. cached \notin usable'
    BY <2>1 DEF TokenInv, TokenTypes
  <2>3. CASE cached = 0
    <3>1. \A r \in Thread : stage[r] # "send"
      BY <2>1, <2>3 DEF Undisturbed, TokenInv, TokenTypes
    <3> QED BY <1>1, <1>2, <2>1, <2>3, <3>1 DEF Undisturbed, Quiet
  <2>4. CASE cached # 0
    BY <1>1, <1>2, <2>1, <2>2, <2>4 DEF Undisturbed, Quiet, Stale
  <2> QED BY <2>3, <2>4
<1>3. CASE events = 0 /\ T!Age
  BY <1>1, <1>3 DEF T!Age, TokenInv, Undisturbed, Quiet
<1>4. CASE events # 0
  BY <1>1, <1>4
<1> QED BY <1>2, <1>3, <1>4

LEMMA TokenNext ==
  ASSUME TokenInv, [T!Next]_(T!vars)
  PROVE  TokenInv'
<1>1. CASE UNCHANGED T!vars
  BY <1>1 DEF T!vars, TokenInv, TokenTypes, Undisturbed, Quiet, Stale, Recovered
<1>2. CASE T!Next
  <2>1. TokenTypes'
    BY <1>2, TypesKept DEF TokenInv
  <2>2. ASSUME NEW r \in Thread, T!AccessToken(r)
        PROVE  /\ events' = 0 => Undisturbed'
               /\ events' = 1 => (Quiet \/ Stale \/ Recovered)'
    <3>1. CASE cached # 0 /\ lasting
      BY <2>2, <3>1, TakeStep DEF T!AccessToken
    <3>2. CASE ~(cached # 0 /\ lasting)
      <4>1. T!Fetch(r, FALSE) /\ stage[r] = "get"
        BY <2>2, <3>2 DEF T!AccessToken
      <4> QED BY <3>2, <4>1, FetchStep
    <3> QED BY <3>1, <3>2
  <2>3. ASSUME NEW r \in Thread, T!RefreshStaleToken(r)
        PROVE  /\ events' = 0 => Undisturbed'
               /\ events' = 1 => (Quiet \/ Stale \/ Recovered)'
    <3>1. CASE T!Replaced(r)
      BY <2>3, <3>1, TakeStep DEF T!RefreshStaleToken, T!Replaced
    <3>2. CASE ~T!Replaced(r)
      <4>1. T!Fetch(r, TRUE) /\ stage[r] = "refresh"
        BY <2>3, <3>2 DEF T!RefreshStaleToken
      <4> QED BY <3>2, <4>1, FetchStep
    <3> QED BY <3>1, <3>2
  <2> QED BY <1>2, <2>1, <2>2, <2>3, SendStep, EventStep DEF T!Next, TokenInv
<1> QED BY <1>1, <1>2

LEMMA TokenAlways == T!Spec => []TokenInv
<1>1. ASSUME T!Init PROVE TokenInv
  <2>1. TokenTypes
    <3>1. /\ stage \in [Thread -> {"get", "send", "resend", "refresh", "ok", "refused", "failed"}]
          /\ \A r \in Thread : stage[r] = "get"
      BY <1>1 DEF T!Init
    <3>2. token \in [Thread -> Nat]
      BY <1>1 DEF T!Init
    <3>3. cached = 0 /\ newest = 0 /\ events = 0 /\ usable = {}
      BY <1>1 DEF T!Init
    <3>4. lasting \in BOOLEAN /\ ~lasting
      BY <1>1 DEF T!Init
    <3> QED BY <3>1, <3>2, <3>3, <3>4 DEF TokenTypes
  <2>2. Undisturbed /\ events = 0
    BY <1>1 DEF T!Init, Undisturbed, Quiet
  <2> QED BY <2>1, <2>2 DEF TokenInv
<1>2. TokenInv /\ [T!Next]_(T!vars) => TokenInv'
  BY TokenNext
<1> QED BY <1>1, <1>2, PTL DEF T!Spec

\* However many threads meet a token that was rotated elsewhere, none is refused
\* for good, unless a second event follows (wechat_gateway/core.py,
\* _refresh_stale_token).
THEOREM RotationIsSurvived == T!Spec => []OneRotationIsSurvived
<1>1. ASSUME TokenInv PROVE OneRotationIsSurvived
  <2>1. events \in Nat
    BY <1>1 DEF TokenInv, TokenTypes
  <2>2. events < 2 => events = 0 \/ events = 1
    BY <2>1
  <2>3. events = 0 \/ events = 1 => \A r \in Thread : stage[r] # "refused"
    BY <1>1 DEF TokenInv, Undisturbed, Quiet, Stale, Recovered
  <2> QED BY <2>1, <2>2, <2>3 DEF OneRotationIsSurvived, T!OneRotationIsSurvived
<1> QED BY <1>1, TokenAlways, PTL

\* The gateway's token is one that WeChat issued, and a thread past its first step
\* has one.
THEOREM TokensAreTyped == T!Spec => []T!TypeOK
<1>1. TokenInv => T!TypeOK
  BY DEF TokenInv, TokenTypes, T!TypeOK
<1> QED BY <1>1, TokenAlways, PTL

-----------------------------------------------------------------------------
(* The visitors of the public agent                                        *)

\* A turn, and a stored one.
Turn == [visitor : Visitor, instance : Instance, minute : 0..MaxMinutes, base : Nat,
         history : Seq(Nat), held : BOOLEAN, pc : P!Pcs, calm : BOOLEAN]

Stored == [by : Nat, cursor : Seq(Nat)]

PublicTypes ==
  /\ owner \in Visitor \cup {NoOne} /\ tail \in Nat
  /\ rows \in [1..MaxVisits -> Stored]
  /\ inflight \subseteq Instance /\ counts \in [Visitor -> [P!Buckets -> Nat]]
  /\ req \in Seq(Turn) /\ Len(req) <= MaxVisits
  /\ now \in 0..MaxMinutes /\ lapse \in BOOLEAN /\ mixed \in BOOLEAN

\* Where a turn is.  One whose stream never began has ended and still holds the
\* session.
Ended == {"refused", "over", "told", "unstarted"}
Early == {"guard", "minute", "day", "tail", "row", "run", "claim", "upsert"}
Past  == {u \in P!Requests : req[u].pc \notin Early}

\* Whoever holds the session is served, by the instance that has it.
GuardInv ==
  /\ \A r \in P!Requests : req[r].held => /\ req[r].pc \notin (Ended \ {"unstarted"}) \cup {"guard"}
                                          /\ req[r].instance \in inflight
  /\ \A r, u \in P!Requests :
       req[r].held /\ req[u].held /\ req[r].instance = req[u].instance => r = u
  /\ \A i \in inflight : \E r \in P!Requests : req[r].held /\ req[r].instance = i

\* A turn's number is at most that of the turns that have come so far as to save, and
\* what it goes on from are turns.
NumberInv ==
  /\ tail <= Cardinality(Past)
  /\ \A r \in P!Requests : /\ req[r].base <= Cardinality(Past)
                           /\ req[r].pc = "insert" => P!Number(r) <= Cardinality(Past)
                           /\ req[r].pc = "row" => req[r].base > 0
                           /\ \A k \in 1..Len(req[r].history) : req[r].history[k] \in P!Requests
  /\ \A s \in 1..MaxVisits : /\ rows[s].by \in 0..Len(req)
                             /\ \A k \in 1..Len(rows[s].cursor) : rows[s].cursor[k] \in P!Requests

TurnInv == PublicTypes /\ GuardInv /\ NumberInv

-----------------------------------------------------------------------------
LEMMA Setup ==
  ASSUME P!Setting
  PROVE  /\ PerMinute \in Nat /\ PerDay \in Nat /\ MaxTurnsKept \in Nat /\ MaxVisits \in Nat
         /\ MaxMinutes \in Nat /\ NoOne \notin Visitor
BY DEF P!Setting

LEMMA RequestSet ==
  ASSUME PublicTypes
  PROVE  /\ P!Requests = 1..Len(req) /\ Len(req) \in Nat
         /\ \A r \in P!Requests : req[r] \in Turn
BY DEF PublicTypes, P!Requests

LEMMA TurnsCount ==
  \A S : P!Cardinality(S) = Cardinality(S)
BY Zenon DEF Cardinality, P!Cardinality, IsFiniteSet, P!IsFiniteSet

\* Sets of turns are finite.
LEMMA SomeRequests ==
  ASSUME PublicTypes, NEW S \in SUBSET P!Requests
  PROVE  IsFiniteSet(S) /\ Cardinality(S) \in Nat /\ Cardinality(S) <= Len(req)
<1>1. Len(req) \in Nat /\ P!Requests = 1..Len(req)
  BY RequestSet
<1>2. 1 \in Int /\ Len(req) \in Int
  BY <1>1
<1>3. IsFiniteSet(1..Len(req))
  BY <1>2, FS_Interval
<1>4. Cardinality(1..Len(req)) = Len(req)
  <2>1. Cardinality(1..Len(req)) = IF 1 > Len(req) THEN 0 ELSE Len(req) - 1 + 1
    BY <1>2, FS_Interval
  <2> QED BY <1>1, <2>1
<1>5. IsFiniteSet(S) /\ Cardinality(S) <= Cardinality(1..Len(req))
  BY <1>1, <1>3, FS_Subset
<1> QED BY <1>4, <1>5, FS_CardinalityType

\* A set that grows by one turn at most.
LEMMA OneMore ==
  ASSUME NEW S, NEW U, NEW r, IsFiniteSet(S), U \subseteq S \cup {r}
  PROVE  /\ IsFiniteSet(U) /\ Cardinality(U) \in Nat /\ Cardinality(S) \in Nat
         /\ Cardinality(U) <= Cardinality(S) + 1
         /\ (r \notin U \/ r \in S) => Cardinality(U) <= Cardinality(S)
<1>1. /\ IsFiniteSet(S \cup {r})
      /\ Cardinality(S \cup {r}) = IF r \in S THEN Cardinality(S) ELSE Cardinality(S) + 1
  BY FS_AddElement
<1>2. IsFiniteSet(U) /\ Cardinality(U) <= Cardinality(S \cup {r})
  BY <1>1, FS_Subset
<1>3. Cardinality(U) \in Nat /\ Cardinality(S) \in Nat
  BY <1>2, FS_CardinalityType
<1>4. ASSUME r \notin U \/ r \in S PROVE Cardinality(U) <= Cardinality(S)
  <2>1. U \subseteq S
    BY <1>4
  <2> QED BY <2>1, FS_Subset
<1> QED BY <1>1, <1>2, <1>3, <1>4

\* Turn r becomes k.
Own(r, k) ==
  /\ k \in Turn /\ req' = [req EXCEPT ![r] = k]
  /\ now' = now /\ mixed' = mixed
  /\ k.visitor = req[r].visitor /\ k.instance = req[r].instance

LEMMA Others ==
  ASSUME PublicTypes, NEW r \in P!Requests, NEW k, Own(r, k)
  PROVE  /\ req' \in Seq(Turn) /\ Len(req') = Len(req) /\ P!Requests' = P!Requests
         /\ \A p \in P!Requests : req'[p] = IF p = r THEN k ELSE req[p]
<1>1. req \in Seq(Turn) /\ k \in Turn /\ req' = [req EXCEPT ![r] = k] /\ P!Requests = 1..Len(req)
  BY RequestSet DEF PublicTypes, Own
<1> QED BY <1>1 DEF P!Requests

-----------------------------------------------------------------------------
(* What a step of a turn does, by what it may disturb                      *)

Same(r, k)  == /\ k.minute = req[r].minute /\ k.base = req[r].base
               /\ k.history = req[r].history /\ k.calm = req[r].calm
Kept(r, k)  == k.held = req[r].held /\ inflight' = inflight
LetGo(r, k) == /\ ~k.held
               /\ inflight' = IF req[r].held THEN inflight \ {req[r].instance} ELSE inflight
CountsGrow  == /\ counts' \in [Visitor -> [P!Buckets -> Nat]]
               /\ \A v \in Visitor, b \in P!Buckets : counts[v][b] <= counts'[v][b]

Ends(r, k) ==
  /\ req[r].pc \notin Ended /\ k.pc \in Ended /\ (k.pc = "told" => req[r].pc = "tell")
  /\ Same(r, k) /\ (LetGo(r, k) \/ (k.pc = "unstarted" /\ Kept(r, k)))
  /\ CountsGrow /\ UNCHANGED <<owner, tail, rows>>
  /\ lapse' \in BOOLEAN /\ (lapse => lapse') /\ (req[r].pc = "insert" => lapse')

Stays(r, k) ==
  /\ req[r].pc \in {"claim", "upsert", "insert"} /\ k.pc = req[r].pc
  /\ Same(r, k) /\ LetGo(r, k) /\ UNCHANGED <<owner, tail, rows, counts, lapse>>

Starts(r, k) ==
  /\ req[r].pc = "guard" /\ k.pc = "minute" /\ k.minute = now
  /\ k.base = req[r].base /\ k.history = req[r].history /\ k.calm = (P!Admitted \ {r} = {})
  /\ k.held /\ req[r].instance \notin inflight /\ inflight' = inflight \cup {req[r].instance}
  /\ UNCHANGED <<owner, tail, rows, counts, lapse>>

Passes(r, k, bucket, limit) ==
  /\ counts[req[r].visitor][bucket] + 1 <= limit
  /\ counts' = [counts EXCEPT ![req[r].visitor][bucket] = counts[req[r].visitor][bucket] + 1]
  /\ Same(r, k) /\ Kept(r, k) /\ UNCHANGED <<owner, tail, rows, lapse>>

PassesMinute(r, k) ==
  req[r].pc = "minute" /\ k.pc = "day" /\ Passes(r, k, req[r].minute, PerMinute)
PassesDay(r, k) ==
  req[r].pc = "day" /\ k.pc = "tail" /\ Passes(r, k, P!Day, PerDay)

ReadsTail(r, k) ==
  /\ req[r].pc = "tail" /\ k.pc = (IF k.base = 0 THEN "run" ELSE "row")
  /\ k.base = IF owner = req[r].visitor THEN tail ELSE 0
  /\ k.minute = req[r].minute /\ k.history = req[r].history /\ k.calm = req[r].calm
  /\ Kept(r, k) /\ UNCHANGED <<owner, tail, rows, counts, lapse>>

ReadsRow(r, k) ==
  /\ req[r].pc = "row" /\ k.pc = "run" /\ k.history = rows[req[r].base].cursor
  /\ k.minute = req[r].minute /\ k.base = req[r].base /\ k.calm = req[r].calm
  /\ Kept(r, k) /\ UNCHANGED <<owner, tail, rows, counts, lapse>>

Goes(r, k) ==
  /\ \/ req[r].pc = "run" /\ k.pc = "claim"
     \/ req[r].pc = "claim" /\ k.pc = (IF P!Matches(req[r].visitor) THEN "upsert" ELSE "tell")
  /\ Same(r, k) /\ Kept(r, k) /\ UNCHANGED <<owner, tail, rows, counts, lapse>>

Claims(r, k) ==
  /\ req[r].pc = "upsert" /\ k.pc = "insert"
  /\ owner' = req[r].visitor /\ tail' = P!Number(r) /\ lapse' = (lapse \/ ~req[r].calm)
  /\ Same(r, k) /\ Kept(r, k) /\ UNCHANGED <<rows, counts>>

Stores(r, k) ==
  /\ req[r].pc = "insert" /\ k.pc = "tell" /\ rows[P!Number(r)] = P!NoRow
  /\ rows' = [rows EXCEPT ![P!Number(r)] = [by |-> r, cursor |-> P!Cursor(r)]]
  /\ lapse' = (lapse \/ ~req[r].calm)
  /\ Same(r, k) /\ Kept(r, k) /\ UNCHANGED <<owner, tail, counts>>

Form(r, k) ==
  \/ Ends(r, k) \/ Stays(r, k) \/ Starts(r, k) \/ PassesMinute(r, k) \/ PassesDay(r, k)
  \/ ReadsTail(r, k) \/ ReadsRow(r, k) \/ Goes(r, k) \/ Claims(r, k) \/ Stores(r, k)

\* A step that only goes on to x, and one that ends there.
LEMMA GoesTo ==
  ASSUME PublicTypes, NEW r \in P!Requests, NEW x \in P!Pcs, P!GoTo(r, x), UNCHANGED <<now, mixed>>
  PROVE  \E k : Own(r, k) /\ Same(r, k) /\ k.pc = x /\ k.held = req[r].held
<1>1. req[r] \in Turn /\ req \in Seq(Turn) /\ P!Requests = 1..Len(req)
  BY RequestSet DEF PublicTypes
<1>2. PICK k : k = [req[r] EXCEPT !.pc = x]
  OBVIOUS
<1>3. req' = [req EXCEPT ![r] = k]
  BY <1>1, <1>2 DEF P!GoTo
<1>4. k \in Turn /\ k.pc = x /\ k.held = req[r].held /\ Same(r, k)
      /\ k.visitor = req[r].visitor /\ k.instance = req[r].instance
  BY <1>1, <1>2 DEF Turn, Same
<1> QED BY <1>3, <1>4 DEF Own

LEMMA EndsAs ==
  ASSUME PublicTypes, NEW r \in P!Requests, NEW x \in P!Pcs, P!EndAs(r, x), UNCHANGED <<now, mixed>>
  PROVE  \E k : Own(r, k) /\ Same(r, k) /\ k.pc = x /\ LetGo(r, k)
<1>1. req[r] \in Turn /\ req \in Seq(Turn) /\ P!Requests = 1..Len(req)
  BY RequestSet DEF PublicTypes
<1>2. PICK k : k = [req[r] EXCEPT !.pc = x, !.held = FALSE]
  OBVIOUS
<1>3. req' = [req EXCEPT ![r] = k]
  BY <1>1, <1>2 DEF P!EndAs
<1>4. k \in Turn /\ k.pc = x /\ ~k.held /\ Same(r, k)
      /\ k.visitor = req[r].visitor /\ k.instance = req[r].instance
  BY <1>1, <1>2 DEF Turn, Same
<1> QED BY <1>3, <1>4 DEF Own, LetGo, P!EndAs, P!Free

LEMMA CountsStay ==
  ASSUME PublicTypes, counts' = counts
  PROVE  CountsGrow
<1>1. \A v \in Visitor, b \in P!Buckets : counts[v][b] \in Nat
  BY DEF PublicTypes
<1> QED BY <1>1 DEF PublicTypes, CountsGrow

LEMMA GuardForm ==
  ASSUME PublicTypes, GuardInv, NEW r \in P!Requests, P!Guard(r)
  PROVE  \E k : Own(r, k) /\ Form(r, k)
<1>1. req[r].pc = "guard" /\ ~req[r].held /\ UNCHANGED <<owner, tail, rows, counts, now, lapse, mixed>>
      /\ req[r] \in Turn /\ req \in Seq(Turn) /\ P!Requests = 1..Len(req) /\ now \in 0..MaxMinutes
  BY RequestSet DEF P!Guard, P!At, GuardInv, P!session, P!history, PublicTypes
<1>2. CASE req[r].instance \in inflight
  <2>1. P!GoTo(r, "refused") /\ inflight' = inflight /\ "refused" \in P!Pcs
    BY <1>2 DEF P!Guard, P!Pcs
  <2>2. PICK k : Own(r, k) /\ Same(r, k) /\ k.pc = "refused" /\ k.held = req[r].held
    BY <1>1, <2>1, GoesTo
  <2>3. Ends(r, k)
    BY <1>1, <2>1, <2>2, CountsStay DEF Ends, LetGo, Ended, PublicTypes
  <2> QED BY <2>2, <2>3 DEF Form
<1>3. CASE req[r].instance \notin inflight
  <2>1. PICK k : k = [req[r] EXCEPT !.pc = "minute", !.minute = now, !.held = TRUE,
                                    !.calm = (P!Admitted \ {r} = {})]
    OBVIOUS
  <2>2. inflight' = inflight \cup {req[r].instance} /\ req' = [req EXCEPT ![r] = k]
    BY <1>1, <1>3, <2>1 DEF P!Guard
  <2>3. (P!Admitted \ {r} = {}) \in BOOLEAN
    OBVIOUS
  <2>4. k \in Turn /\ k.visitor = req[r].visitor /\ k.instance = req[r].instance /\ k.pc = "minute"
        /\ k.minute = now /\ k.base = req[r].base /\ k.history = req[r].history /\ k.held
        /\ k.calm = (P!Admitted \ {r} = {})
    BY <1>1, <2>1, <2>3 DEF Turn, P!Pcs
  <2>5. Own(r, k)
    BY <1>1, <2>2, <2>4 DEF Own
  <2>6. Starts(r, k)
    BY <1>1, <1>3, <2>2, <2>4 DEF Starts
  <2> QED BY <2>5, <2>6 DEF Form
<1> QED BY <1>2, <1>3

LEMMA IncrementForm ==
  ASSUME PublicTypes, NEW r \in P!Requests, NEW bucket \in P!Buckets, NEW limit, NEW next \in P!Pcs,
         P!Increment(r, bucket, limit, next), req[r].pc \in {"minute", "day"}
  PROVE  \E k : Own(r, k) /\ (Ends(r, k) \/ (k.pc = next /\ Passes(r, k, bucket, limit)))
<1>1. PICK v, count : v = req[r].visitor /\ count = counts[v][bucket] + 1
  OBVIOUS
<1>2. /\ counts' = [counts EXCEPT ![v][bucket] = count]
      /\ UNCHANGED <<owner, tail, rows, now, lapse, mixed>> /\ lapse \in BOOLEAN
      /\ IF count <= limit THEN P!GoTo(r, next) /\ inflight' = inflight ELSE P!EndAs(r, "refused")
  BY <1>1 DEF P!Increment, P!Allowed, P!session, P!history, PublicTypes
<1>3. v \in Visitor /\ counts \in [Visitor -> [P!Buckets -> Nat]]
  BY <1>1, RequestSet DEF Turn, PublicTypes
<1>4. CountsGrow
  BY <1>1, <1>2, <1>3 DEF CountsGrow
<1>5. CASE count <= limit
  <2>1. PICK k : Own(r, k) /\ Same(r, k) /\ k.pc = next /\ k.held = req[r].held
    BY <1>2, <1>5, GoesTo
  <2>2. Passes(r, k, bucket, limit)
    BY <1>1, <1>2, <1>5, <2>1 DEF Passes, Kept
  <2> QED BY <2>1, <2>2
<1>6. CASE ~(count <= limit)
  <2>1. PICK k : Own(r, k) /\ Same(r, k) /\ k.pc = "refused" /\ LetGo(r, k)
    BY <1>2, <1>6, EndsAs DEF P!Pcs
  <2>2. Ends(r, k)
    BY <1>2, <1>4, <2>1 DEF Ends, Ended
  <2> QED BY <2>1, <2>2
<1> QED BY <1>5, <1>6

LEMMA CountForm ==
  ASSUME P!Setting, PublicTypes, NEW r \in P!Requests, P!Count(r)
  PROVE  \E k : Own(r, k) /\ Form(r, k)
<1>1. req[r].minute \in P!Buckets /\ P!Day \in P!Buckets /\ {"day", "tail"} \subseteq P!Pcs
  BY RequestSet DEF Turn, P!Buckets, P!Pcs
<1>2. CASE P!At(r, {"minute"}) /\ P!Increment(r, req[r].minute, PerMinute, "day")
  <2>1. req[r].pc = "minute"
    BY <1>2 DEF P!At
  <2>2. PICK k : Own(r, k) /\ (Ends(r, k) \/ (k.pc = "day" /\ Passes(r, k, req[r].minute, PerMinute)))
    BY <1>1, <1>2, <2>1, IncrementForm
  <2> QED BY <2>1, <2>2 DEF Form, PassesMinute
<1>3. CASE P!At(r, {"day"}) /\ P!Increment(r, P!Day, PerDay, "tail")
  <2>1. req[r].pc = "day"
    BY <1>3 DEF P!At
  <2>2. PICK k : Own(r, k) /\ (Ends(r, k) \/ (k.pc = "tail" /\ Passes(r, k, P!Day, PerDay)))
    BY <1>1, <1>3, <2>1, IncrementForm
  <2> QED BY <2>1, <2>2 DEF Form, PassesDay
<1> QED BY <1>2, <1>3 DEF P!Count

LEMMA ReadForm ==
  ASSUME P!Setting, TurnInv, NEW r \in P!Requests, P!ReadTail(r) \/ P!ReadRow(r)
  PROVE  \E k : Own(r, k) /\ Form(r, k)
<1>1. /\ UNCHANGED <<owner, tail, rows, inflight, counts, now, lapse, mixed>>
      /\ req[r] \in Turn /\ req \in Seq(Turn) /\ P!Requests = 1..Len(req) /\ PublicTypes
      /\ tail \in Nat
  BY RequestSet DEF P!ReadTail, P!ReadRow, P!session, P!history, PublicTypes, TurnInv
<1>2. ASSUME P!ReadTail(r) PROVE \E k : Own(r, k) /\ Form(r, k)
  <2>1. PICK base, k : /\ base = (IF owner = req[r].visitor THEN tail ELSE 0)
                       /\ k = [req[r] EXCEPT !.base = base, !.pc = IF base = 0 THEN "run" ELSE "row"]
    OBVIOUS
  <2>2. req' = [req EXCEPT ![r] = k] /\ req[r].pc = "tail" /\ base \in Nat
    BY <1>1, <1>2, <2>1 DEF P!ReadTail, P!At
  <2>3. /\ k \in Turn /\ k.visitor = req[r].visitor /\ k.instance = req[r].instance
        /\ k.base = base /\ k.pc = (IF base = 0 THEN "run" ELSE "row") /\ k.held = req[r].held
        /\ k.minute = req[r].minute /\ k.history = req[r].history /\ k.calm = req[r].calm
    BY <1>1, <2>1, <2>2 DEF Turn, P!Pcs
  <2>4. Own(r, k) /\ ReadsTail(r, k)
    BY <1>1, <2>1, <2>2, <2>3 DEF Own, ReadsTail, Kept
  <2> QED BY <2>4 DEF Form
<1>3. ASSUME P!ReadRow(r) PROVE \E k : Own(r, k) /\ Form(r, k)
  <2>1. PICK k : k = [req[r] EXCEPT !.history = rows[req[r].base].cursor, !.pc = "run"]
    OBVIOUS
  <2>2. req' = [req EXCEPT ![r] = k] /\ req[r].pc = "row"
    BY <1>1, <1>3, <2>1 DEF P!ReadRow, P!At
  <2>3. rows[req[r].base].cursor \in Seq(Nat)
    <3>1. req[r].base \in Nat /\ req[r].base > 0 /\ req[r].base <= Cardinality(Past)
      BY <1>1, <2>2 DEF TurnInv, NumberInv, Turn
    <3>2. Cardinality(Past) \in Nat /\ Cardinality(Past) <= Len(req)
      BY <1>1, SomeRequests DEF Past
    <3>3. Len(req) \in Nat /\ Len(req) <= MaxVisits /\ rows \in [1..MaxVisits -> Stored]
      BY <1>1 DEF PublicTypes
    <3>4. req[r].base <= Len(req)
      BY <3>1, <3>2, <3>3
    <3>5. req[r].base \in 1..MaxVisits
      BY <3>1, <3>3, <3>4, Setup
    <3> QED BY <3>3, <3>5 DEF Stored
  <2>4. /\ k \in Turn /\ k.visitor = req[r].visitor /\ k.instance = req[r].instance
        /\ k.history = rows[req[r].base].cursor /\ k.pc = "run" /\ k.held = req[r].held
        /\ k.minute = req[r].minute /\ k.base = req[r].base /\ k.calm = req[r].calm
    BY <1>1, <2>1, <2>3 DEF Turn, P!Pcs
  <2>5. Own(r, k) /\ ReadsRow(r, k)
    BY <1>1, <2>1, <2>2, <2>4 DEF Own, ReadsRow, Kept
  <2> QED BY <2>5 DEF Form
<1> QED BY <1>2, <1>3

LEMMA GoForm ==
  ASSUME PublicTypes, NEW r \in P!Requests, P!Run(r) \/ P!Claim(r)
  PROVE  \E k : Own(r, k) /\ Form(r, k)
<1>1. UNCHANGED <<owner, tail, rows, inflight, counts, now, lapse, mixed>>
  BY DEF P!Run, P!Claim, P!session, P!history
<1>2. PICK x \in P!Pcs : /\ P!GoTo(r, x)
                         /\ \/ req[r].pc = "run" /\ x = "claim"
                            \/ req[r].pc = "claim" /\ x = (IF P!Matches(req[r].visitor) THEN "upsert" ELSE "tell")
  BY DEF P!Run, P!Claim, P!At, P!Pcs
<1>3. PICK k : Own(r, k) /\ Same(r, k) /\ k.pc = x /\ k.held = req[r].held
  BY <1>1, <1>2, GoesTo
<1>4. Goes(r, k)
  BY <1>1, <1>2, <1>3 DEF Goes, Kept
<1> QED BY <1>3, <1>4 DEF Form

LEMMA SaveForm ==
  ASSUME PublicTypes, NEW r \in P!Requests, P!Upsert(r) \/ P!Insert(r)
  PROVE  \E k : Own(r, k) /\ Form(r, k)
<1>0. {"insert", "tell", "over"} \subseteq P!Pcs /\ lapse \in BOOLEAN /\ req[r].calm \in BOOLEAN
  BY RequestSet DEF P!Pcs, PublicTypes, Turn
<1>1. ASSUME P!Upsert(r) PROVE \E k : Own(r, k) /\ Form(r, k)
  <2>1. /\ req[r].pc = "upsert" /\ P!GoTo(r, "insert") /\ owner' = req[r].visitor /\ tail' = P!Number(r)
        /\ lapse' = (lapse \/ ~req[r].calm) /\ UNCHANGED <<rows, inflight, counts, now, mixed>>
    BY <1>1 DEF P!Upsert, P!At, P!Beside
  <2>2. PICK k : Own(r, k) /\ Same(r, k) /\ k.pc = "insert" /\ k.held = req[r].held
    BY <1>0, <2>1, GoesTo
  <2>3. Claims(r, k)
    BY <2>1, <2>2 DEF Claims, Kept
  <2> QED BY <2>2, <2>3 DEF Form
<1>2. ASSUME P!Insert(r), rows[P!Number(r)] = P!NoRow PROVE \E k : Own(r, k) /\ Form(r, k)
  <2>1. /\ req[r].pc = "insert" /\ P!GoTo(r, "tell")
        /\ rows' = [rows EXCEPT ![P!Number(r)] = [by |-> r, cursor |-> P!Cursor(r)]]
        /\ lapse' = (lapse \/ ~req[r].calm) /\ UNCHANGED <<owner, tail, inflight, counts, now, mixed>>
    BY <1>2 DEF P!Insert, P!At, P!Beside
  <2>2. PICK k : Own(r, k) /\ Same(r, k) /\ k.pc = "tell" /\ k.held = req[r].held
    BY <1>0, <2>1, GoesTo
  <2>3. Stores(r, k)
    BY <1>2, <2>1, <2>2 DEF Stores, Kept
  <2> QED BY <2>2, <2>3 DEF Form
<1>3. ASSUME P!Insert(r), rows[P!Number(r)] # P!NoRow PROVE \E k : Own(r, k) /\ Form(r, k)
  <2>1. /\ req[r].pc = "insert" /\ P!EndAs(r, "over") /\ lapse'
        /\ UNCHANGED <<owner, tail, rows, counts, now, mixed>> /\ lapse' \in BOOLEAN
    BY <1>3 DEF P!Insert, P!At
  <2>2. PICK k : Own(r, k) /\ Same(r, k) /\ k.pc = "over" /\ LetGo(r, k)
    BY <1>0, <2>1, EndsAs
  <2>3. Ends(r, k)
    BY <2>1, <2>2, CountsStay DEF Ends, Ended
  <2> QED BY <2>2, <2>3 DEF Form
<1> QED BY <1>1, <1>2, <1>3

LEMMA EndForm ==
  ASSUME PublicTypes, NEW r \in P!Requests, P!Tell(r) \/ P!Fail(r) \/ P!Leave(r)
  PROVE  \E k : Own(r, k) /\ Form(r, k)
<1>0. {"told", "over", "claim", "upsert", "insert"} \subseteq P!Pcs /\ lapse \in BOOLEAN
  BY RequestSet DEF P!Pcs, PublicTypes
<1>1. UNCHANGED <<owner, tail, rows, counts, now, mixed>>
  BY DEF P!Tell, P!Fail, P!Leave, P!session, P!history
<1>2. ASSUME NEW x \in {"told", "over"}, P!EndAs(r, x), x = "told" => req[r].pc = "tell",
             req[r].pc \notin Ended, lapse' \in BOOLEAN, lapse => lapse', req[r].pc = "insert" => lapse'
      PROVE  \E k : Own(r, k) /\ Form(r, k)
  <2>1. PICK k : Own(r, k) /\ Same(r, k) /\ k.pc = x /\ LetGo(r, k)
    BY <1>0, <1>1, <1>2, EndsAs
  <2>2. Ends(r, k)
    BY <1>1, <1>2, <2>1, CountsStay DEF Ends, Ended
  <2> QED BY <2>1, <2>2 DEF Form
<1>3. ASSUME P!Tell(r) PROVE \E k : Own(r, k) /\ Form(r, k)
  <2>1. /\ req[r].pc = "tell" /\ lapse' = lapse
        /\ \E x \in {"told", "over"} : P!EndAs(r, x)
    BY <1>3 DEF P!Tell, P!At, P!history
  <2> QED BY <1>0, <1>2, <2>1 DEF Ended
<1>4. ASSUME P!Fail(r) PROVE \E k : Own(r, k) /\ Form(r, k)
  <2>1. /\ P!EndAs(r, "over") /\ req[r].pc \notin Ended
        /\ lapse' = (lapse \/ P!At(r, {"insert"})) /\ (req[r].pc = "insert" => P!At(r, {"insert"}))
    BY <1>4 DEF P!Fail, P!At, Ended
  <2> QED BY <1>0, <1>2, <2>1
<1>5. ASSUME P!Leave(r) PROVE \E k : Own(r, k) /\ Form(r, k)
  <2>1. lapse' = lapse /\ req[r].pc \notin Ended
    BY <1>5 DEF P!Leave, P!At, Ended, P!history
  <2>2. CASE ~P!At(r, {"upsert", "insert"}) /\ P!EndAs(r, "over")
    <3>1. req[r].pc # "insert"
      BY <2>2 DEF P!At
    <3> QED BY <1>0, <1>2, <2>1, <2>2, <3>1
  <2>3. CASE P!At(r, {"claim", "upsert", "insert"}) /\ P!EndAs(r, req[r].pc)
    <3>1. req[r].pc \in {"claim", "upsert", "insert"}
      BY <2>3 DEF P!At
    <3>2. PICK k : Own(r, k) /\ Same(r, k) /\ k.pc = req[r].pc /\ LetGo(r, k)
      BY <1>0, <1>1, <2>3, <3>1, EndsAs
    <3>3. Stays(r, k)
      BY <1>1, <2>1, <3>1, <3>2 DEF Stays
    <3> QED BY <3>2, <3>3 DEF Form
  <2> QED BY <1>5, <2>2, <2>3 DEF P!Leave
<1> QED BY <1>3, <1>4, <1>5

LEMMA StrandForm ==
  ASSUME PublicTypes, NEW r \in P!Requests, P!Strand(r)
  PROVE  \E k : Own(r, k) /\ Form(r, k)
<1>1. /\ req[r].pc = "tail" /\ P!GoTo(r, "unstarted") /\ "unstarted" \in P!Pcs /\ lapse \in BOOLEAN
      /\ UNCHANGED <<owner, tail, rows, inflight, counts, now, lapse, mixed>>
  BY DEF P!Strand, P!At, P!Pcs, P!session, P!history, PublicTypes
<1>2. PICK k : Own(r, k) /\ Same(r, k) /\ k.pc = "unstarted" /\ k.held = req[r].held
  BY <1>1, GoesTo
<1>3. Ends(r, k)
  BY <1>1, <1>2, CountsStay DEF Ends, Kept, Ended
<1> QED BY <1>2, <1>3 DEF Form

LEMMA StepForm ==
  ASSUME P!Setting, TurnInv, NEW r \in P!Requests, P!Step(r)
  PROVE  \E k : Own(r, k) /\ Form(r, k)
BY GuardForm, CountForm, ReadForm, GoForm, SaveForm, EndForm, StrandForm DEF P!Step, TurnInv

-----------------------------------------------------------------------------
(* Types, the guard and the numbers                                        *)

\* What a turn hands on: itself after the last n of what it has read.
HandsOver(h, c, r, n) ==
  /\ n \in 0..Len(h) /\ (n = Len(h) \/ (n = MaxTurnsKept /\ n < Len(h)))
  /\ c \in Seq(Nat) /\ Len(c) = n + 1 /\ c[n + 1] = r
  /\ \A k \in 1..n : c[k] = h[Len(h) - n + k]

LEMMA HandsOn ==
  ASSUME P!Setting, NEW r \in Nat, NEW h \in Seq(Nat), h = req[r].history, NEW c, c = P!Cursor(r)
  PROVE  \E n \in 0..Len(h) : HandsOver(h, c, r, n)
<1>1. Len(h) \in Nat /\ MaxTurnsKept \in Nat
  BY Setup
<1>2. ASSUME NEW t \in Seq(Nat), c = Append(t, r), Len(t) = Len(h) \/ (Len(t) = MaxTurnsKept /\ Len(t) < Len(h)),
             \A k \in 1..Len(t) : t[k] = h[Len(h) - Len(t) + k]
      PROVE  HandsOver(h, c, r, Len(t)) /\ Len(t) \in 0..Len(h)
  <2>1. Len(t) \in 0..Len(h)
    BY <1>1, <1>2
  <2>2. c \in Seq(Nat) /\ Len(c) = Len(t) + 1 /\ c[Len(t) + 1] = r
    BY <1>2
  <2>3. \A k \in 1..Len(t) : c[k] = t[k]
    BY <1>2
  <2> QED BY <1>2, <2>1, <2>2, <2>3 DEF HandsOver
<1>3. CASE Len(h) <= MaxTurnsKept
  <2>1. c = Append(h, r)
    BY <1>3 DEF P!Cursor
  <2>2. \A k \in 1..Len(h) : Len(h) - Len(h) + k = k
    BY <1>1
  <2> QED BY <1>2, <2>1, <2>2
<1>4. CASE ~(Len(h) <= MaxTurnsKept)
  <2>1. PICK a, b : a = Len(h) - MaxTurnsKept + 1 /\ b = Len(h)
    OBVIOUS
  <2>2. PICK t : t = SubSeq(h, a, b)
    OBVIOUS
  <2>3. c = Append(t, r)
    BY <1>4, <2>1, <2>2 DEF P!Cursor
  <2>4. a \in Int /\ b \in Int /\ b - a + 1 = MaxTurnsKept /\ \A i \in a..b : i \in 1..Len(h)
    <3> DEFINE l == Len(h)
    <3>1. l \in Nat /\ a = l - MaxTurnsKept + 1 /\ b = l /\ ~(l <= MaxTurnsKept)
      BY <1>1, <1>4, <2>1
    <3> HIDE DEF l
    <3>2. a \in Int /\ b \in Int /\ b - a + 1 = MaxTurnsKept /\ \A i \in a..b : i \in 1..l
      BY <1>1, <3>1
    <3> QED BY <3>2 DEF l
  <2>5. \A i \in a..b : h[i] \in Nat
    BY <2>4
  <2>6. /\ t \in Seq(Nat) /\ Len(t) = (IF a <= b THEN b - a + 1 ELSE 0)
        /\ \A k \in 1..b - a + 1 : t[k] = h[a + k - 1]
    BY <2>2, <2>4, <2>5, SubSeqProperties
  <2>7. Len(t) = MaxTurnsKept /\ \A k \in 1..MaxTurnsKept : t[k] = h[a + k - 1]
    BY <1>1, <2>4, <2>6
  <2>8. \A k \in 1..MaxTurnsKept : Len(h) - MaxTurnsKept + k = a + k - 1
    BY <1>1, <2>1
  <2>9. \A k \in 1..Len(t) : t[k] = h[Len(h) - Len(t) + k]
    BY <2>7, <2>8
  <2>10. Len(t) < Len(h)
    BY <1>1, <1>4, <2>7
  <2> QED BY <1>2, <2>3, <2>6, <2>7, <2>9, <2>10
<1> QED BY <1>3, <1>4

LEMMA Few ==
  ASSUME NEW n \in Nat, NEW S \in SUBSET (1..n)
  PROVE  IsFiniteSet(S) /\ Cardinality(S) \in Nat /\ Cardinality(S) <= n
<1>1. IsFiniteSet(1..n) /\ Cardinality(1..n) = n
  <2>1. Cardinality(1..n) = IF 1 > n THEN 0 ELSE n - 1 + 1
    BY FS_Interval
  <2> QED BY <2>1, FS_Interval
<1>2. IsFiniteSet(S) /\ Cardinality(S) <= Cardinality(1..n)
  BY <1>1, FS_Subset
<1> QED BY <1>1, <1>2, FS_CardinalityType

LEMMA StepTypes ==
  ASSUME P!Setting, TurnInv, NEW r \in P!Requests, NEW k, Own(r, k), Form(r, k)
  PROVE  PublicTypes'
<1>1. PublicTypes /\ req[r] \in Turn /\ r \in Nat /\ k \in Turn /\ P!Requests = 1..Len(req)
  BY RequestSet DEF TurnInv, Own
<1>2. req' \in Seq(Turn) /\ Len(req') <= MaxVisits /\ now' \in 0..MaxMinutes /\ mixed' \in BOOLEAN
  BY <1>1, Others DEF PublicTypes, Own
<1>3. req[r].visitor \in Visitor /\ req[r].instance \in Instance /\ req[r].base \in Nat
      /\ req[r].history \in Seq(Nat) /\ req[r].minute \in P!Buckets /\ P!Day \in P!Buckets
  BY <1>1 DEF Turn, P!Buckets
<1>4. inflight' \subseteq Instance
  BY <1>1, <1>3 DEF PublicTypes, Form, Ends, Stays, Starts, PassesMinute, PassesDay, Passes, ReadsTail,
     ReadsRow, Goes, Claims, Stores, Kept, LetGo
<1>5. counts' \in [Visitor -> [P!Buckets -> Nat]]
  <2>1. ASSUME NEW b \in P!Buckets, NEW l, Passes(r, k, b, l) PROVE counts' \in [Visitor -> [P!Buckets -> Nat]]
    BY <1>1, <1>3, <2>1 DEF Passes, PublicTypes
  <2>2. CASE PassesMinute(r, k) \/ PassesDay(r, k)
    BY <1>3, <2>1, <2>2 DEF PassesMinute, PassesDay
  <2>3. CASE ~(PassesMinute(r, k) \/ PassesDay(r, k))
    BY <1>1, <2>3 DEF PublicTypes, Form, Ends, Stays, Starts, ReadsTail, ReadsRow, Goes, Claims, Stores,
       CountsGrow
  <2> QED BY <2>2, <2>3
<1>6. rows' \in [1..MaxVisits -> Stored]
  <2>1. CASE Stores(r, k)
    <3>1. P!Cursor(r) \in Seq(Nat)
      BY <1>1, <1>3, HandsOn DEF HandsOver
    <3>2. [by |-> r, cursor |-> P!Cursor(r)] \in Stored
      BY <1>1, <3>1 DEF Stored
    <3> QED BY <1>1, <2>1, <3>2 DEF Stores, PublicTypes
  <2>2. CASE ~Stores(r, k)
    BY <1>1, <2>2 DEF PublicTypes, Form, Ends, Stays, Starts, PassesMinute, PassesDay, Passes, ReadsTail,
     ReadsRow, Goes, Claims
  <2> QED BY <2>1, <2>2
<1>7. owner' \in Visitor \cup {NoOne} /\ tail' \in Nat
  BY <1>1, <1>3 DEF PublicTypes, Form, Ends, Stays, Starts, PassesMinute, PassesDay, Passes, ReadsTail,
     ReadsRow, Goes, Claims, Stores, P!Number
<1>8. lapse' \in BOOLEAN
  BY <1>1 DEF PublicTypes, Form, Ends, Stays, Starts, PassesMinute, PassesDay, Passes, ReadsTail,
     ReadsRow, Goes, Claims, Stores, Turn
<1> QED BY <1>2, <1>4, <1>5, <1>6, <1>7, <1>8 DEF PublicTypes

LEMMA StepGuard ==
  ASSUME TurnInv, NEW r \in P!Requests, NEW k, Own(r, k), Form(r, k)
  PROVE  GuardInv'
<1>1. PublicTypes /\ GuardInv /\ k.instance = req[r].instance
  BY DEF TurnInv, Own
<1>2. P!Requests' = P!Requests /\ \A p \in P!Requests : req'[p] = IF p = r THEN k ELSE req[p]
  BY <1>1, Others
<1>3. CASE Kept(r, k)
  <2>1. k.pc \notin (Ended \ {"unstarted"}) \cup {"guard"} \/ ~k.held
    BY <1>1, <1>3 DEF GuardInv, Form, Ends, Stays, Starts, PassesMinute, PassesDay, Passes, ReadsTail,
       ReadsRow, Goes, Claims, Stores, Ended, LetGo
  <2>2. k.held = req[r].held /\ inflight' = inflight
    BY <1>3 DEF Kept
  <2> QED BY <1>1, <1>2, <2>1, <2>2 DEF GuardInv
<1>4. CASE LetGo(r, k)
  BY <1>1, <1>2, <1>4 DEF GuardInv, LetGo
<1>5. CASE Starts(r, k)
  BY <1>1, <1>2, <1>5 DEF GuardInv, Starts, Ended
<1> QED BY <1>3, <1>4, <1>5 DEF Form, Ends, Stays, Starts, PassesMinute, PassesDay, Passes, ReadsTail,
        ReadsRow, Goes, Claims, Stores

LEMMA StepPast ==
  ASSUME TurnInv, NEW r \in P!Requests, NEW k, Own(r, k), Form(r, k)
  PROVE  /\ Cardinality(Past) \in Nat /\ Cardinality(Past') \in Nat
         /\ Cardinality(Past) <= Cardinality(Past')
         /\ Claims(r, k) => Cardinality(Past) + 1 <= Cardinality(Past')
<1>1. PublicTypes /\ Len(req) \in Nat /\ P!Requests = 1..Len(req)
  BY RequestSet DEF TurnInv
<1>2. P!Requests' = P!Requests /\ \A p \in P!Requests : req'[p] = IF p = r THEN k ELSE req[p]
  BY <1>1, Others
<1>3. k.pc \in Early => req[r].pc \in Early
  BY DEF Form, Ends, Stays, Starts, PassesMinute, PassesDay, Passes, ReadsTail,
     ReadsRow, Goes, Claims, Stores, Early, Ended
<1>4. Past \subseteq Past' /\ Past' \subseteq P!Requests
  BY <1>2, <1>3 DEF Past
<1>5. IsFiniteSet(Past) /\ IsFiniteSet(Past') /\ Cardinality(Past) \in Nat /\ Cardinality(Past') \in Nat
  BY <1>1, <1>4, Few DEF Past
<1>6. Cardinality(Past) <= Cardinality(Past')
  BY <1>4, <1>5, FS_Subset
<1>7. ASSUME Claims(r, k) PROVE Cardinality(Past) + 1 <= Cardinality(Past')
  <2>1. r \notin Past /\ r \in Past'
    BY <1>2, <1>7 DEF Past, Claims, Early
  <2>2. Past \cup {r} \subseteq Past'
    BY <1>4, <2>1
  <2>3. IsFiniteSet(Past \cup {r}) /\ Cardinality(Past \cup {r}) = Cardinality(Past) + 1
    BY <1>5, <2>1, FS_AddElement
  <2>4. Cardinality(Past \cup {r}) <= Cardinality(Past')
    BY <1>5, <2>2, FS_Subset
  <2> QED BY <2>3, <2>4
<1> QED BY <1>5, <1>6, <1>7

LEMMA StepNumbers ==
  ASSUME P!Setting, TurnInv, NEW r \in P!Requests, NEW k, Own(r, k), Form(r, k)
  PROVE  NumberInv'
<1>1. PublicTypes /\ NumberInv /\ req[r] \in Turn /\ r \in Nat /\ Len(req) \in Nat /\ P!Requests = 1..Len(req)
      /\ k \in Turn /\ tail \in Nat
  BY RequestSet DEF TurnInv, Own, PublicTypes
<1>2. P!Requests' = P!Requests /\ Len(req') = Len(req) /\ \A p \in P!Requests : req'[p] = IF p = r THEN k ELSE req[p]
  BY <1>1, Others
<1>3. PICK n, m : n = Cardinality(Past) /\ m = Cardinality(Past')
  OBVIOUS
<1>4. n \in Nat /\ m \in Nat /\ n <= m /\ (Claims(r, k) => n + 1 <= m)
  BY <1>3, StepPast
<1>5. req[r].base \in Nat /\ k.base \in Nat /\ req[r].history \in Seq(Nat) /\ k.history \in Seq(Nat)
  BY <1>1 DEF Turn
<1>6. tail <= n /\ req[r].base <= n /\ (req[r].pc = "insert" => req[r].base + 1 <= n)
      /\ (req[r].pc = "row" => req[r].base > 0)
  BY <1>1, <1>3 DEF NumberInv, P!Number
<1>7. tail' <= m
  BY <1>1, <1>4, <1>5, <1>6 DEF Form, Ends, Stays, Starts, PassesMinute, PassesDay, Passes, ReadsTail,
     ReadsRow, Goes, Claims, Stores, P!Number
<1>8. k.base <= m /\ (k.pc = "insert" => k.base + 1 <= m) /\ (k.pc = "row" => k.base > 0)
  BY <1>1, <1>4, <1>5, <1>6 DEF Form, Ends, Stays, Starts, PassesMinute, PassesDay, Passes, ReadsTail,
     ReadsRow, Goes, Claims, Stores, Same, Ended
<1>9. \A p \in P!Requests \ {r} : req[p] \in Turn /\ req[p].base <= m
        /\ (req[p].pc = "insert" => req[p].base + 1 <= m) /\ (req[p].pc = "row" => req[p].base > 0)
  <2> SUFFICES ASSUME NEW p \in P!Requests \ {r}
               PROVE  req[p] \in Turn /\ req[p].base <= m
        /\ (req[p].pc = "insert" => req[p].base + 1 <= m) /\ (req[p].pc = "row" => req[p].base > 0)
    OBVIOUS
  <2>1. req[p] \in Turn /\ req[p].base \in Nat
    BY <1>1, RequestSet DEF Turn
  <2>2. req[p].base <= n /\ (req[p].pc = "insert" => req[p].base + 1 <= n) /\ (req[p].pc = "row" => req[p].base > 0)
    BY <1>1, <1>3 DEF NumberInv, P!Number
  <2> QED BY <1>4, <2>1, <2>2
<1>10. rows' \in [1..MaxVisits -> Stored] /\ rows \in [1..MaxVisits -> Stored]
  BY <1>1, StepTypes DEF PublicTypes
<1>11. \A i \in 1..Len(k.history) : k.history[i] \in P!Requests
  <2>1. CASE ReadsRow(r, k)
    <3>1. req[r].base \in 1..MaxVisits
      <4>1. n <= Len(req)
        BY <1>1, <1>3, Few DEF Past
      <4>2. Len(req) <= MaxVisits /\ MaxVisits \in Nat
        BY <1>1, Setup DEF PublicTypes
      <4>3. req[r].base > 0
        BY <1>6, <2>1 DEF ReadsRow
      <4>4. req[r].base <= MaxVisits
        BY <1>1, <1>4, <1>5, <1>6, <4>1, <4>2
      <4> QED BY <1>5, <4>2, <4>3, <4>4
    <3> QED BY <1>1, <2>1, <3>1 DEF ReadsRow, NumberInv
  <2>2. CASE ~ReadsRow(r, k)
    <3>1. k.history = req[r].history
      BY <2>2 DEF Form, Ends, Stays, Starts, PassesMinute, PassesDay, Passes, ReadsTail,
     ReadsRow, Goes, Claims, Stores, Same
    <3> QED BY <1>1, <3>1 DEF NumberInv
  <2> QED BY <2>1, <2>2
<1>12. \A s \in 1..MaxVisits : /\ rows'[s].by \in 0..Len(req)
                               /\ \A i \in 1..Len(rows'[s].cursor) : rows'[s].cursor[i] \in P!Requests
  <2>1. CASE Stores(r, k)
    <3>1. PICK c : c = P!Cursor(r)
      OBVIOUS
    <3>2. c \in Seq(Nat) /\ \A i \in 1..Len(c) : c[i] \in P!Requests
      <4>1. PICK h : h = req[r].history
        OBVIOUS
      <4>2. PICK q \in 0..Len(h) : HandsOver(h, c, r, q)
        BY <1>1, <1>5, <3>1, <4>1, HandsOn
      <4>3. h \in Seq(Nat) /\ \A i \in 1..Len(h) : h[i] \in P!Requests
        BY <1>1, <1>5, <4>1 DEF NumberInv
      <4>4. \A i \in 1..q : Len(h) - q + i \in 1..Len(h)
        <5>1. Len(h) \in Nat /\ q \in 0..Len(h)
          BY <4>2, <4>3
        <5> QED BY <5>1
      <4>5. /\ c \in Seq(Nat) /\ Len(c) = q + 1 /\ c[q + 1] = r /\ q \in Nat
            /\ \A i \in 1..q : c[i] \in P!Requests
        <5>1. /\ c \in Seq(Nat) /\ Len(c) = q + 1 /\ c[q + 1] = r /\ q \in Nat
              /\ \A i \in 1..q : c[i] = h[Len(h) - q + i]
          BY <4>2 DEF HandsOver
        <5>2. ASSUME NEW i \in 1..q PROVE c[i] \in P!Requests
          <6>1. PICK j : j = Len(h) - q + i
            OBVIOUS
          <6>2. j \in 1..Len(h) /\ c[i] = h[j]
            BY <4>4, <5>1, <6>1
          <6> QED BY <4>3, <6>2
        <5> QED BY <5>1, <5>2
      <4>6. \A i \in 1..q + 1 : i \in 1..q \/ i = q + 1
        BY <4>5
      <4> QED BY <1>1, <4>5, <4>6
    <3>3. PICK w : w = [by |-> r, cursor |-> c]
      OBVIOUS
    <3>4. \A s \in 1..MaxVisits : rows'[s] = w \/ rows'[s] = rows[s]
      BY <1>10, <2>1, <3>1, <3>3 DEF Stores
    <3>5. w.by \in 0..Len(req) /\ \A i \in 1..Len(w.cursor) : w.cursor[i] \in P!Requests
      <4>1. w.by = r /\ w.cursor = c
        BY <3>3
      <4> QED BY <1>1, <3>2, <4>1
    <3>6. \A s \in 1..MaxVisits : /\ rows[s].by \in 0..Len(req)
                                  /\ \A i \in 1..Len(rows[s].cursor) : rows[s].cursor[i] \in P!Requests
      BY <1>1 DEF NumberInv
    <3> QED BY Zenon, <3>4, <3>5, <3>6
  <2>2. CASE ~Stores(r, k)
    <3>1. rows' = rows
      BY <2>2 DEF Form, Ends, Stays, Starts, PassesMinute, PassesDay, Passes, ReadsTail,
     ReadsRow, Goes, Claims
    <3> QED BY <1>1, <3>1 DEF NumberInv
  <2> QED BY <2>1, <2>2
<1>13. \A p \in P!Requests : /\ req'[p].base <= m /\ (req'[p].pc = "insert" => req'[p].base + 1 <= m)
                             /\ (req'[p].pc = "row" => req'[p].base > 0)
                             /\ \A i \in 1..Len(req'[p].history) : req'[p].history[i] \in P!Requests
  BY <1>1, <1>2, <1>8, <1>9, <1>11 DEF NumberInv
<1> QED BY <1>2, <1>3, <1>7, <1>12, <1>13 DEF NumberInv, P!Number

\* A new turn, and what the end of an instance leaves.
Fresh(k, v, i) ==
  /\ k \in Turn /\ k.visitor = v /\ k.instance = i /\ k.base = 0 /\ k.history = <<>>
  /\ ~k.held /\ ~k.calm /\ k.pc = (IF P!Matches(v) THEN "guard" ELSE "refused")

Comes(k) ==
  /\ Len(req) < MaxVisits /\ req' = Append(req, k)
  /\ mixed' = (mixed \/ \E r \in P!Working : req[r].visitor # k.visitor)
  /\ UNCHANGED <<owner, tail, rows, inflight, counts, now, lapse>>

Departed(i) == {r \in P!Requests : req[r].instance = i /\ (req[r].pc \notin Ended \/ req[r].held)}

Falls(i) ==
  /\ i \in inflight /\ inflight' = inflight \ {i}
  /\ req' \in Seq(Turn) /\ Len(req') = Len(req) /\ P!Requests' = P!Requests
  /\ \A r \in P!Requests : /\ req'[r].visitor = req[r].visitor /\ req'[r].instance = req[r].instance
                           /\ req'[r].minute = req[r].minute /\ req'[r].base = req[r].base
                           /\ req'[r].history = req[r].history /\ req'[r].calm = req[r].calm
                           /\ r \notin Departed(i) => req'[r].pc = req[r].pc /\ req'[r].held = req[r].held
                           /\ r \in Departed(i) => req'[r].pc = "over" /\ ~req'[r].held
  /\ lapse' \in BOOLEAN /\ (lapse => lapse')
  /\ \A r \in Departed(i) : req[r].pc = "insert" => lapse'
  /\ UNCHANGED <<owner, tail, rows, counts, now, mixed>>

LEMMA AskForm ==
  ASSUME P!Setting, PublicTypes, NEW v \in Visitor, NEW i \in Instance, P!Ask(v, i)
  PROVE  \E k : Fresh(k, v, i) /\ Comes(k)
<1>1. PICK k : k = [visitor |-> v, instance |-> i, minute |-> 0, base |-> 0,
                    history |-> <<>>, held |-> FALSE,
                    pc |-> IF P!Matches(v) THEN "guard" ELSE "refused", calm |-> FALSE]
  OBVIOUS
<1>2. 0 \in 0..MaxMinutes /\ <<>> \in Seq(Nat) /\ {"guard", "refused"} \subseteq P!Pcs
  BY Setup DEF P!Pcs
<1>3. Fresh(k, v, i)
  BY <1>1, <1>2 DEF Fresh, Turn
<1>4. k.visitor = v
  BY <1>1
<1>5. req' = Append(req, k) /\ Len(req) < MaxVisits
  BY <1>1 DEF P!Ask
<1>6. mixed' = (mixed \/ \E r \in P!Working : req[r].visitor # v)
  BY DEF P!Ask
<1>7. UNCHANGED <<owner, tail, rows, inflight, counts, now, lapse>>
  BY DEF P!Ask, P!session
<1>8. Comes(k)
  BY <1>4, <1>5, <1>6, <1>7 DEF Comes
<1> QED BY <1>3, <1>8

LEMMA DieForm ==
  ASSUME PublicTypes, NEW i \in Instance, P!Die(i)
  PROVE  Falls(i)
<1>1. PICK gone : gone = P!Of(i)
  OBVIOUS
<1>2. gone = Departed(i)
  BY <1>1 DEF Departed, P!Of, P!Working, P!At, Ended
<1>3. /\ req' = [r \in P!Requests |-> IF r \in gone THEN [req[r] EXCEPT !.pc = "over", !.held = FALSE]
                                                  ELSE req[r]]
      /\ lapse' = (lapse \/ \E r \in gone : P!At(r, {"insert"}))
      /\ i \in inflight /\ inflight' = inflight \ {i} /\ UNCHANGED <<owner, tail, rows, counts, now, mixed>>
  BY <1>1 DEF P!Die, P!session
<1>4. P!Requests = 1..Len(req) /\ Len(req) \in Nat /\ \A r \in P!Requests : req[r] \in Turn
  BY RequestSet
<1>5. \A r \in P!Requests : [req[r] EXCEPT !.pc = "over", !.held = FALSE] \in Turn
  BY <1>4 DEF Turn, P!Pcs
<1>6. req' \in [1..Len(req) -> Turn]
  BY <1>3, <1>4, <1>5
<1>7. req' \in Seq(Turn) /\ Len(req') = Len(req) /\ P!Requests' = P!Requests
  BY <1>4, <1>6, SeqDef, LenProperties DEF P!Requests
<1>8. \A r \in P!Requests : req'[r] = IF r \in gone THEN [req[r] EXCEPT !.pc = "over", !.held = FALSE] ELSE req[r]
  BY <1>3
<1>9. \A r \in P!Requests : /\ req'[r].visitor = req[r].visitor /\ req'[r].instance = req[r].instance
                            /\ req'[r].minute = req[r].minute /\ req'[r].base = req[r].base
                            /\ req'[r].history = req[r].history /\ req'[r].calm = req[r].calm
                            /\ r \notin gone => req'[r].pc = req[r].pc /\ req'[r].held = req[r].held
                            /\ r \in gone => req'[r].pc = "over" /\ ~req'[r].held
  BY ZenonT(30), <1>4, <1>8 DEF Turn
<1>10. /\ lapse' \in BOOLEAN /\ (lapse => lapse')
       /\ \A r \in gone : req[r].pc = "insert" => lapse'
  <2>1. \A r \in gone : r \in P!Requests
    BY <1>2 DEF Departed
  <2> QED BY <1>3, <2>1 DEF PublicTypes, P!At
<1> QED BY <1>2, <1>3, <1>7, <1>9, <1>10 DEF Falls

LEMMA ComesMore ==
  ASSUME PublicTypes, NEW v, NEW i, NEW k, Fresh(k, v, i), Comes(k)
  PROVE  /\ req' \in Seq(Turn) /\ Len(req') = Len(req) + 1 /\ P!Requests' = P!Requests \cup {Len(req) + 1}
         /\ Len(req) + 1 \notin P!Requests /\ req'[Len(req) + 1] = k
         /\ \A p \in P!Requests : req'[p] = req[p]
<1>1. req \in Seq(Turn) /\ Len(req) \in Nat /\ P!Requests = 1..Len(req) /\ k \in Turn
  BY RequestSet DEF PublicTypes, Fresh
<1>2. req' = Append(req, k)
  BY DEF Comes
<1>3. req' \in Seq(Turn) /\ Len(req') = Len(req) + 1
  BY <1>1, <1>2
<1>4. P!Requests' = 1..Len(req) + 1
  BY <1>3 DEF P!Requests
<1> QED BY <1>1, <1>2, <1>3, <1>4

LEMMA AskKeepsTurns ==
  ASSUME P!Setting, TurnInv, NEW v \in Visitor, NEW i \in Instance, NEW k, Fresh(k, v, i), Comes(k)
  PROVE  TurnInv'
<1>1. PublicTypes /\ GuardInv /\ NumberInv /\ P!Requests = 1..Len(req) /\ Len(req) \in Nat
  BY RequestSet DEF TurnInv
<1>2. PICK n : n = Len(req) + 1
  OBVIOUS
<1>3. /\ req' \in Seq(Turn) /\ Len(req') = n /\ P!Requests' = P!Requests \cup {n}
      /\ n \notin P!Requests /\ req'[n] = k /\ \A p \in P!Requests : req'[p] = req[p]
  BY <1>1, <1>2, ComesMore
<1>4. UNCHANGED <<owner, tail, rows, inflight, counts, now, lapse>> /\ Len(req) < MaxVisits
  BY DEF Comes
<1>5. PublicTypes'
  <2>1. mixed' \in BOOLEAN
    BY DEF Comes, TurnInv, PublicTypes
  <2> QED BY <1>1, <1>2, <1>3, <1>4, <2>1, Setup DEF PublicTypes
<1>6. GuardInv'
  BY <1>1, <1>3, <1>4 DEF GuardInv, Fresh
<1>7. NumberInv'
  <2>1. Past \subseteq Past' /\ Past \subseteq 1..Len(req) /\ Past' \subseteq 1..n
    BY <1>1, <1>2, <1>3 DEF Past
  <2>2. /\ IsFiniteSet(Past') /\ Cardinality(Past) \in Nat /\ Cardinality(Past') \in Nat
        /\ Cardinality(Past) <= Cardinality(Past')
    <3>1. n \in Nat
      BY <1>1, <1>2
    <3>2. IsFiniteSet(Past') /\ Cardinality(Past') \in Nat
      BY <2>1, <3>1, Few
    <3> QED BY <1>1, <2>1, <3>2, Few, FS_Subset
  <2>3. PICK a, b : a = Cardinality(Past) /\ b = Cardinality(Past')
    OBVIOUS
  <2>4. a \in Nat /\ b \in Nat /\ a <= b
    BY <2>2, <2>3
  <2>5. tail \in Nat /\ tail <= a
    BY <1>1, <2>3 DEF NumberInv, PublicTypes
  <2>6. \A p \in P!Requests : req[p].base \in Nat /\ req[p].base <= a /\ (req[p].pc = "insert" => req[p].base + 1 <= a)
          /\ (req[p].pc = "row" => req[p].base > 0) /\ \A j \in 1..Len(req[p].history) : req[p].history[j] \in P!Requests
    BY <1>1, <2>3, RequestSet DEF NumberInv, P!Number, Turn
  <2>7. \A p \in P!Requests' : req'[p].base <= b /\ (req'[p].pc = "insert" => req'[p].base + 1 <= b)
          /\ (req'[p].pc = "row" => req'[p].base > 0) /\ \A j \in 1..Len(req'[p].history) : req'[p].history[j] \in P!Requests'
    <3> SUFFICES ASSUME NEW p \in P!Requests'
                 PROVE  req'[p].base <= b /\ (req'[p].pc = "insert" => req'[p].base + 1 <= b)
          /\ (req'[p].pc = "row" => req'[p].base > 0) /\ \A j \in 1..Len(req'[p].history) : req'[p].history[j] \in P!Requests'
      OBVIOUS
    <3>1. CASE p = n
      <4>1. req'[p].base = 0 /\ req'[p].history = <<>> /\ req'[p].pc \notin {"insert", "row"}
        BY <1>3, <3>1 DEF Fresh
      <4>2. Len(req'[p].history) = 0
        BY <4>1
      <4>3. \A j \in 1..Len(req'[p].history) : FALSE
        BY <4>2
      <4> QED BY <2>4, <4>1, <4>3
    <3>2. CASE p # n
      <4>1. p \in P!Requests /\ req'[p] = req[p]
        BY <1>3, <3>2
      <4> QED BY <1>3, <2>4, <2>6, <4>1
    <3> QED BY <3>1, <3>2
  <2>8. \A s \in 1..MaxVisits : rows[s].by \in 0..n /\ \A j \in 1..Len(rows[s].cursor) : rows[s].cursor[j] \in P!Requests'
    BY <1>1, <1>2, <1>3 DEF NumberInv
  <2> QED BY <1>3, <1>4, <2>3, <2>4, <2>5, <2>7, <2>8 DEF NumberInv, P!Number
<1> QED BY <1>5, <1>6, <1>7 DEF TurnInv

LEMMA DieKeepsTurns ==
  ASSUME P!Setting, TurnInv, NEW i \in Instance, Falls(i)
  PROVE  TurnInv'
<1>1. PublicTypes /\ GuardInv /\ NumberInv /\ P!Requests = 1..Len(req) /\ Len(req) \in Nat
  BY RequestSet DEF TurnInv
<1>2. PublicTypes'
  BY <1>1 DEF PublicTypes, Falls
<1>3. GuardInv'
  <2>1. \A r \in P!Requests : req'[r].held => /\ req[r].held /\ req'[r].pc = req[r].pc /\ r \notin Departed(i)
                                              /\ req'[r].instance = req[r].instance /\ req[r].instance # i
    BY DEF Falls, Departed
  <2>2. \A r \in P!Requests : req[r].held /\ req[r].instance # i => req'[r].held /\ req'[r].instance = req[r].instance
    BY DEF Falls, Departed
  <2>3. inflight' = inflight \ {i} /\ P!Requests' = P!Requests
    BY DEF Falls
  <2> QED BY <1>1, <2>1, <2>2, <2>3 DEF GuardInv
<1>4. NumberInv'
  <2>1. P!Requests' = P!Requests /\ UNCHANGED <<tail, rows>> /\ Len(req') = Len(req)
        /\ \A r \in P!Requests : /\ req'[r].base = req[r].base /\ req'[r].history = req[r].history
                                 /\ req'[r].pc = req[r].pc \/ req'[r].pc = "over"
    BY DEF Falls
  <2>2. Past \subseteq Past' /\ Past \subseteq 1..Len(req) /\ Past' \subseteq 1..Len(req)
    BY <1>1, <2>1 DEF Past, Early
  <2>3. /\ IsFiniteSet(Past') /\ Cardinality(Past) \in Nat /\ Cardinality(Past') \in Nat
        /\ Cardinality(Past) <= Cardinality(Past')
    BY <1>1, <2>2, Few, FS_Subset
  <2>4. PICK a, b : a = Cardinality(Past) /\ b = Cardinality(Past')
    OBVIOUS
  <2>5. a \in Nat /\ b \in Nat /\ a <= b
    BY <2>3, <2>4
  <2>6. tail \in Nat /\ tail <= a
    BY <1>1, <2>4 DEF NumberInv, PublicTypes
  <2>7. \A p \in P!Requests : req[p].base \in Nat /\ req[p].base <= a /\ (req[p].pc = "insert" => req[p].base + 1 <= a)
          /\ (req[p].pc = "row" => req[p].base > 0) /\ \A j \in 1..Len(req[p].history) : req[p].history[j] \in P!Requests
    BY <1>1, <2>4, RequestSet DEF NumberInv, P!Number, Turn
  <2>8. \A p \in P!Requests : req'[p].base <= b /\ (req'[p].pc = "insert" => req'[p].base + 1 <= b)
          /\ (req'[p].pc = "row" => req'[p].base > 0) /\ \A j \in 1..Len(req'[p].history) : req'[p].history[j] \in P!Requests
    BY <2>1, <2>5, <2>7
  <2>9. \A s \in 1..MaxVisits : rows'[s].by \in 0..Len(req) /\ \A j \in 1..Len(rows'[s].cursor) : rows'[s].cursor[j] \in P!Requests
    BY <1>1, <2>1 DEF NumberInv
  <2> QED BY <2>1, <2>4, <2>5, <2>6, <2>8, <2>9 DEF NumberInv, P!Number
<1> QED BY <1>2, <1>3, <1>4 DEF TurnInv

LEMMA StartsTurns ==
  ASSUME P!Setting, P!Init
  PROVE  TurnInv
<1>1. req = <<>> /\ P!Requests = {} /\ Len(req) = 0 /\ req \in Seq(Turn)
  BY DEF P!Init, P!Requests
<1>2. PublicTypes
  <2>1. rows \in [1..MaxVisits -> Stored]
    BY DEF P!Init, P!NoRow, Stored
  <2>2. 0 \in Nat /\ 0 \in 0..MaxMinutes /\ 0 <= MaxVisits
    BY Setup
  <2> QED BY <1>1, <2>1, <2>2 DEF PublicTypes, P!Init
<1>3. NumberInv
  <2>1. Past = {} /\ Cardinality({}) = 0
    BY <1>1, FS_EmptySet DEF Past
  <2>2. tail <= 0 /\ \A s \in 1..MaxVisits : rows[s].by = 0 /\ rows[s].cursor = <<>>
    BY DEF P!Init, P!NoRow
  <2>3. \A s \in 1..MaxVisits : Len(rows[s].cursor) = 0
    BY <2>2
  <2>4. \A s \in 1..MaxVisits : rows[s].by \in 0..Len(req) /\ \A j \in 1..Len(rows[s].cursor) : rows[s].cursor[j] \in P!Requests
    BY <1>1, <2>2, <2>3
  <2> QED BY <1>1, <2>1, <2>2, <2>4 DEF NumberInv
<1>4. GuardInv
  BY <1>1 DEF GuardInv, P!Init
<1> QED BY <1>2, <1>3, <1>4 DEF TurnInv

LEMMA TicksTurns ==
  ASSUME P!Setting, TurnInv, P!Tick \/ UNCHANGED P!vars
  PROVE  TurnInv'
<1>1. UNCHANGED <<owner, tail, rows, inflight, counts, req, lapse, mixed>> /\ now' \in 0..MaxMinutes
  BY Setup DEF P!Tick, P!vars, P!session, P!history, TurnInv, PublicTypes
<1>2. PublicTypes'
  BY <1>1 DEF TurnInv, PublicTypes
<1>3. P!Requests' = P!Requests /\ Past' = Past
  BY <1>1 DEF P!Requests, Past
<1>4. GuardInv'
  BY <1>1, <1>3 DEF TurnInv, GuardInv
<1>5. NumberInv'
  BY <1>1, <1>3 DEF TurnInv, NumberInv, P!Number
<1> QED BY <1>2, <1>4, <1>5 DEF TurnInv

LEMMA NextKeepsTurns ==
  ASSUME P!Setting, TurnInv, [P!Next]_(P!vars)
  PROVE  TurnInv'
<1>1. ASSUME NEW r \in P!Requests, P!Step(r) PROVE TurnInv'
  BY <1>1, StepForm, StepTypes, StepGuard, StepNumbers DEF TurnInv
<1>2. ASSUME NEW v \in Visitor, NEW i \in Instance, P!Ask(v, i) PROVE TurnInv'
  BY <1>2, AskForm, AskKeepsTurns DEF TurnInv
<1>3. ASSUME NEW i \in Instance, P!Die(i) PROVE TurnInv'
  BY <1>3, DieForm, DieKeepsTurns DEF TurnInv
<1> QED BY <1>1, <1>2, <1>3, TicksTurns DEF P!Next

LEMMA TurnsAlways ==
  ASSUME P!Setting
  PROVE  P!Spec => []TurnInv
<1>1. P!Init => TurnInv
  BY StartsTurns
<1>2. TurnInv /\ [P!Next]_(P!vars) => TurnInv'
  BY NextKeepsTurns
<1> QED BY <1>1, <1>2, PTL DEF P!Spec

-----------------------------------------------------------------------------
(* The limits                                                              *)

\* The turns that a visitor had in a minute.
RanPcs == {"tail", "row", "run", "claim", "upsert", "insert", "tell", "told"}
Through(v, m) == {r \in P!Requests : /\ req[r].visitor = v /\ req[r].minute = m
                                     /\ req[r].pc \in RanPcs \cup {"day"}}

\* Whoever is let through has been counted.
LimitInv ==
  /\ \A v \in Visitor : /\ Cardinality(P!Ran(v)) <= counts[v][P!Day]
                        /\ Cardinality(P!Ran(v)) <= PerDay
  /\ \A v \in Visitor, m \in 0..MaxMinutes : /\ Cardinality(Through(v, m)) <= counts[v][m]
                                             /\ Cardinality(Through(v, m)) <= PerMinute

\* A step that lets nobody through.
LEMMA Fewer ==
  ASSUME P!Setting, PublicTypes, PublicTypes', LimitInv, CountsGrow,
         \A v \in Visitor : P!Ran(v)' \subseteq P!Ran(v),
         \A v \in Visitor, m \in 0..MaxMinutes : Through(v, m)' \subseteq Through(v, m)
  PROVE  LimitInv'
<1>1. PerDay \in Nat /\ PerMinute \in Nat /\ P!Day \in P!Buckets /\ 0..MaxMinutes \subseteq P!Buckets
  BY Setup DEF P!Buckets
<1>2. ASSUME NEW S \in SUBSET P!Requests, NEW U, U \subseteq S, NEW v \in Visitor, NEW b \in P!Buckets, NEW l \in Nat,
             Cardinality(S) <= counts[v][b], Cardinality(S) <= l
      PROVE  Cardinality(U) <= counts'[v][b] /\ Cardinality(U) <= l
  <2>1. IsFiniteSet(S) /\ Cardinality(S) \in Nat
    BY SomeRequests
  <2>2. Cardinality(U) \in Nat /\ Cardinality(U) <= Cardinality(S)
    BY <1>2, <2>1, FS_Subset, FS_CardinalityType
  <2>3. counts[v][b] \in Nat /\ counts'[v][b] \in Nat /\ counts[v][b] <= counts'[v][b]
    BY DEF CountsGrow, PublicTypes
  <2> QED BY <1>2, <2>1, <2>2, <2>3
<1>3. ASSUME NEW v \in Visitor
      PROVE  Cardinality(P!Ran(v)') <= counts'[v][P!Day] /\ Cardinality(P!Ran(v)') <= PerDay
  <2>1. P!Ran(v) \in SUBSET P!Requests /\ Cardinality(P!Ran(v)) <= counts[v][P!Day] /\ Cardinality(P!Ran(v)) <= PerDay
    BY DEF P!Ran, LimitInv
  <2> QED BY <1>1, <1>2, <2>1
<1>4. ASSUME NEW v \in Visitor, NEW m \in 0..MaxMinutes
      PROVE  Cardinality(Through(v, m)') <= counts'[v][m] /\ Cardinality(Through(v, m)') <= PerMinute
  <2>1. Through(v, m) \in SUBSET P!Requests /\ Cardinality(Through(v, m)) <= counts[v][m]
        /\ Cardinality(Through(v, m)) <= PerMinute /\ m \in P!Buckets
    BY <1>1 DEF Through, LimitInv
  <2> QED BY <1>1, <1>2, <2>1
<1> QED BY <1>3, <1>4 DEF LimitInv, P!Day

\* One that lets a turn past a limit.
LEMMA Counted ==
  ASSUME P!Setting, PublicTypes, PublicTypes', NEW r \in P!Requests, NEW k, NEW b \in P!Buckets, NEW l \in Nat, Passes(r, k, b, l),
         NEW S \in SUBSET P!Requests, NEW U, U \subseteq S \cup {r},
         Cardinality(S) <= counts[req[r].visitor][b], Cardinality(S) <= l
  PROVE  Cardinality(U) <= counts'[req[r].visitor][b] /\ Cardinality(U) <= l
<1>1. PICK n : n = counts[req[r].visitor][b]
  OBVIOUS
<1>2. req[r].visitor \in Visitor
  BY RequestSet DEF Turn
<1>3. n \in Nat /\ counts'[req[r].visitor][b] = n + 1 /\ n + 1 <= l
  BY <1>1, <1>2 DEF Passes, PublicTypes
<1>4. IsFiniteSet(S) /\ Cardinality(S) \in Nat
  BY SomeRequests
<1>5. Cardinality(U) \in Nat /\ Cardinality(U) <= Cardinality(S) + 1
  BY <1>4, OneMore
<1> QED BY <1>1, <1>3, <1>4, <1>5

LEMMA StepLimits ==
  ASSUME P!Setting, TurnInv, PublicTypes', LimitInv, NEW r \in P!Requests, NEW k, Own(r, k), Form(r, k)
  PROVE  LimitInv'
<1>1. PublicTypes /\ req[r] \in Turn /\ req[r].visitor \in Visitor /\ req[r].minute \in 0..MaxMinutes
  BY RequestSet DEF TurnInv, Turn
<1>2. /\ P!Requests' = P!Requests /\ \A p \in P!Requests : req'[p] = IF p = r THEN k ELSE req[p]
      /\ k.visitor = req[r].visitor
  BY <1>1, Others DEF Own
<1>3. PerDay \in Nat /\ PerMinute \in Nat /\ P!Day \in P!Buckets /\ 0..MaxMinutes \subseteq P!Buckets
      /\ P!Day \notin 0..MaxMinutes
  BY Setup DEF P!Buckets, P!Day
<1>4. ASSUME NEW b \in P!Buckets, NEW l, Passes(r, k, b, l)
      PROVE  CountsGrow /\ \A v \in Visitor, c \in P!Buckets : v # req[r].visitor \/ c # b => counts'[v][c] = counts[v][c]
  <2>1. counts \in [Visitor -> [P!Buckets -> Nat]]
        /\ counts' = [counts EXCEPT ![req[r].visitor][b] = counts[req[r].visitor][b] + 1]
    BY <1>1, <1>4 DEF Passes, PublicTypes
  <2> QED BY <1>1, <2>1 DEF CountsGrow
<1>5. CountsGrow
  <2>1. CASE PassesMinute(r, k) \/ PassesDay(r, k)
    BY <1>1, <1>3, <1>4, <2>1 DEF PassesMinute, PassesDay
  <2>2. CASE ~(PassesMinute(r, k) \/ PassesDay(r, k))
    BY <1>1, <2>2, CountsStay DEF Form, Ends, Stays, Starts, ReadsTail, ReadsRow, Goes, Claims, Stores
  <2> QED BY <2>1, <2>2
<1>6. CASE PassesDay(r, k)
  <2>1. Passes(r, k, P!Day, PerDay) /\ req[r].pc = "day" /\ k.pc = "tail" /\ k.minute = req[r].minute
    BY <1>6 DEF PassesDay, Passes, Same
  <2>2. \A v \in Visitor, m \in 0..MaxMinutes : Through(v, m)' \subseteq Through(v, m)
    BY <1>2, <2>1 DEF Through
  <2>3. \A v \in Visitor : P!Ran(v)' \subseteq P!Ran(v) \cup {r} /\ (v # req[r].visitor => P!Ran(v)' \subseteq P!Ran(v))
    BY <1>2, <2>1 DEF P!Ran
  <2>4. ASSUME NEW v \in Visitor PROVE Cardinality(P!Ran(v)') <= counts'[v][P!Day] /\ Cardinality(P!Ran(v)') <= PerDay
    <3>1. PICK S, U : S = P!Ran(v) /\ U = P!Ran(v)'
      OBVIOUS
    <3>2. S \in SUBSET P!Requests /\ U \subseteq S \cup {r} /\ (v # req[r].visitor => U \subseteq S)
          /\ Cardinality(S) <= counts[v][P!Day] /\ Cardinality(S) <= PerDay
      BY <2>3, <3>1 DEF P!Ran, LimitInv
    <3>3. CASE v = req[r].visitor
      BY <1>1, <1>3, <2>1, <3>1, <3>2, <3>3, Counted
    <3>4. CASE v # req[r].visitor
      <4>1. IsFiniteSet(S) /\ Cardinality(S) \in Nat /\ U \subseteq S
        BY <1>1, <3>2, <3>4, SomeRequests
      <4>2. Cardinality(U) <= Cardinality(S) /\ Cardinality(U) \in Nat
        BY <4>1, FS_Subset, FS_CardinalityType
      <4>3. counts'[v][P!Day] = counts[v][P!Day] /\ counts[v][P!Day] \in Nat
        BY <1>1, <1>3, <1>4, <2>1, <3>4 DEF PublicTypes
      <4> QED BY <1>3, <3>1, <3>2, <4>1, <4>2, <4>3
    <3> QED BY <3>3, <3>4
  <2>5. ASSUME NEW v \in Visitor, NEW m \in 0..MaxMinutes
        PROVE  Cardinality(Through(v, m)') <= counts'[v][m] /\ Cardinality(Through(v, m)') <= PerMinute
    <3>1. PICK S, U : S = Through(v, m) /\ U = Through(v, m)'
      OBVIOUS
    <3>2. S \in SUBSET P!Requests /\ U \subseteq S /\ Cardinality(S) <= counts[v][m] /\ Cardinality(S) <= PerMinute
      BY <2>2, <3>1 DEF Through, LimitInv
    <3>3. Cardinality(U) <= Cardinality(S) /\ Cardinality(U) \in Nat /\ Cardinality(S) \in Nat
      BY <1>1, <3>2, SomeRequests, FS_Subset, FS_CardinalityType
    <3>4. counts'[v][m] = counts[v][m] /\ counts[v][m] \in Nat
      BY <1>1, <1>3, <1>4, <2>1 DEF PublicTypes
    <3> QED BY <1>3, <3>1, <3>2, <3>3, <3>4
  <2> QED BY <2>4, <2>5 DEF LimitInv, P!Day
<1>7. CASE PassesMinute(r, k)
  <2>1. PICK b : b = req[r].minute
    OBVIOUS
  <2>2. /\ Passes(r, k, b, PerMinute) /\ req[r].pc = "minute" /\ k.pc = "day" /\ k.minute = b /\ b \in 0..MaxMinutes
    BY <1>1, <1>7, <2>1 DEF PassesMinute, Passes, Same
  <2>0. \A v \in Visitor, c \in P!Buckets : v # req[r].visitor \/ c # b => counts'[v][c] = counts[v][c]
    BY <1>3, <1>4, <2>2
  <2>3. \A v \in Visitor : P!Ran(v)' \subseteq P!Ran(v)
    BY <1>2, <2>2 DEF P!Ran
  <2>4. \A v \in Visitor, m \in 0..MaxMinutes :
          Through(v, m)' \subseteq Through(v, m) \cup {r} /\ (v # req[r].visitor \/ m # b => Through(v, m)' \subseteq Through(v, m))
    BY <1>2, <2>1, <2>2 DEF Through
  <2>5. ASSUME NEW v \in Visitor PROVE Cardinality(P!Ran(v)') <= counts'[v][P!Day] /\ Cardinality(P!Ran(v)') <= PerDay
    <3>1. PICK S, U : S = P!Ran(v) /\ U = P!Ran(v)'
      OBVIOUS
    <3>2. S \in SUBSET P!Requests /\ U \subseteq S /\ Cardinality(S) <= counts[v][P!Day] /\ Cardinality(S) <= PerDay
      BY <2>3, <3>1 DEF P!Ran, LimitInv
    <3>3. Cardinality(U) <= Cardinality(S) /\ Cardinality(U) \in Nat /\ Cardinality(S) \in Nat
      BY <1>1, <3>2, SomeRequests, FS_Subset, FS_CardinalityType
    <3>4. counts'[v][P!Day] = counts[v][P!Day] /\ counts[v][P!Day] \in Nat
      BY <1>1, <1>3, <2>0, <2>2 DEF PublicTypes
    <3> QED BY <1>3, <3>1, <3>2, <3>3, <3>4
  <2>6. ASSUME NEW v \in Visitor, NEW m \in 0..MaxMinutes
        PROVE  Cardinality(Through(v, m)') <= counts'[v][m] /\ Cardinality(Through(v, m)') <= PerMinute
    <3>1. PICK S, U : S = Through(v, m) /\ U = Through(v, m)'
      OBVIOUS
    <3>2. S \in SUBSET P!Requests /\ U \subseteq S \cup {r} /\ (v # req[r].visitor \/ m # b => U \subseteq S)
          /\ Cardinality(S) <= counts[v][m] /\ Cardinality(S) <= PerMinute
      <4>1. U \subseteq S \cup {r} /\ (v # req[r].visitor \/ m # b => U \subseteq S)
        BY <2>4, <3>1
      <4>2. Cardinality(S) <= counts[v][m] /\ Cardinality(S) <= PerMinute
        BY <3>1 DEF LimitInv
      <4> QED BY <3>1, <4>1, <4>2 DEF Through
    <3>3. CASE v = req[r].visitor /\ m = b
      BY <1>1, <1>3, <2>2, <3>1, <3>2, <3>3, Counted
    <3>4. CASE v # req[r].visitor \/ m # b
      <4>1. Cardinality(U) <= Cardinality(S) /\ Cardinality(U) \in Nat /\ Cardinality(S) \in Nat
        BY <1>1, <3>2, <3>4, SomeRequests, FS_Subset, FS_CardinalityType
      <4>2. counts'[v][m] = counts[v][m] /\ counts[v][m] \in Nat
        BY <1>1, <1>3, <2>0, <2>2, <3>4 DEF PublicTypes
      <4> QED BY <1>3, <3>1, <3>2, <4>1, <4>2
    <3> QED BY <3>3, <3>4
  <2> QED BY <2>5, <2>6 DEF LimitInv, P!Day
<1>8. CASE ~(PassesDay(r, k) \/ PassesMinute(r, k))
  <2>1. /\ k.pc \in RanPcs => req[r].pc \in RanPcs
        /\ k.pc \in RanPcs \cup {"day"} => req[r].pc \in RanPcs \cup {"day"} /\ k.minute = req[r].minute
    BY <1>8 DEF Form, Ends, Stays, Starts, ReadsTail, ReadsRow, Goes, Claims, Stores, RanPcs, Ended, Same
  <2>2. \A v \in Visitor : P!Ran(v)' \subseteq P!Ran(v)
    BY <1>2, <2>1 DEF P!Ran, RanPcs
  <2>3. \A v \in Visitor, m \in 0..MaxMinutes : Through(v, m)' \subseteq Through(v, m)
    BY <1>2, <2>1 DEF Through
  <2> QED BY <1>1, <1>5, <2>2, <2>3, Fewer
<1> QED BY <1>6, <1>7, <1>8

LEMMA NextKeepsLimits ==
  ASSUME P!Setting, TurnInv, LimitInv, [P!Next]_(P!vars)
  PROVE  LimitInv'
<1>1. PublicTypes /\ PublicTypes'
  BY NextKeepsTurns DEF TurnInv
<1>2. ASSUME NEW r \in P!Requests, P!Step(r) PROVE LimitInv'
  BY <1>1, <1>2, StepForm, StepLimits
<1>3. ASSUME NEW v \in Visitor, NEW i \in Instance, P!Ask(v, i) PROVE LimitInv'
  <2>1. PICK k : Fresh(k, v, i) /\ Comes(k)
    BY <1>1, <1>3, AskForm
  <2>2. PICK n : n = Len(req) + 1
    OBVIOUS
  <2>3. P!Requests' = P!Requests \cup {n} /\ req'[n] = k /\ \A p \in P!Requests : req'[p] = req[p]
    BY <1>1, <2>1, <2>2, ComesMore
  <2>4. k.pc \notin RanPcs \cup {"day"} /\ counts' = counts
    BY <2>1 DEF Fresh, RanPcs, Comes
  <2>5. \A u \in Visitor : P!Ran(u)' \subseteq P!Ran(u)
    BY <2>3, <2>4 DEF P!Ran, RanPcs
  <2>6. \A u \in Visitor, m \in 0..MaxMinutes : Through(u, m)' \subseteq Through(u, m)
    BY <2>3, <2>4 DEF Through
  <2> QED BY <1>1, <2>4, <2>5, <2>6, Fewer, CountsStay
<1>4. ASSUME NEW i \in Instance, P!Die(i) PROVE LimitInv'
  <2>1. /\ P!Requests' = P!Requests /\ counts' = counts
        /\ \A r \in P!Requests : /\ req'[r].visitor = req[r].visitor /\ req'[r].minute = req[r].minute
                                 /\ req'[r].pc = req[r].pc \/ req'[r].pc = "over"
    BY <1>1, <1>4, DieForm DEF Falls
  <2>2. \A u \in Visitor : P!Ran(u)' \subseteq P!Ran(u)
    BY <2>1 DEF P!Ran
  <2>3. \A u \in Visitor, m \in 0..MaxMinutes : Through(u, m)' \subseteq Through(u, m)
    BY <2>1 DEF Through, RanPcs
  <2> QED BY <1>1, <2>1, <2>2, <2>3, Fewer, CountsStay
<1>5. ASSUME P!Tick \/ UNCHANGED P!vars PROVE LimitInv'
  <2>1. counts' = counts /\ req' = req
    BY <1>5 DEF P!Tick, P!vars
  <2>2. \A u \in Visitor : P!Ran(u)' \subseteq P!Ran(u)
    BY <2>1 DEF P!Ran, P!Requests
  <2>3. \A u \in Visitor, m \in 0..MaxMinutes : Through(u, m)' \subseteq Through(u, m)
    BY <2>1 DEF Through, P!Requests
  <2> QED BY <1>1, <2>1, <2>2, <2>3, Fewer, CountsStay
<1> QED BY <1>2, <1>3, <1>4, <1>5 DEF P!Next

LEMMA LimitsAlways ==
  ASSUME P!Setting
  PROVE  P!Spec => [](TurnInv /\ LimitInv)
<1>1. ASSUME P!Init PROVE TurnInv /\ LimitInv
  <2>1. TurnInv /\ P!Requests = {} /\ PerDay \in Nat /\ PerMinute \in Nat
    <3>1. req = <<>>
      BY <1>1 DEF P!Init
    <3> QED BY <1>1, <3>1, StartsTurns, Setup DEF P!Requests
  <2>2. \A v \in Visitor : P!Ran(v) = {} /\ \A m \in 0..MaxMinutes : Through(v, m) = {}
    BY <2>1 DEF P!Ran, Through
  <2>3. \A v \in Visitor, b \in P!Buckets : counts[v][b] = 0
    BY <1>1 DEF P!Init
  <2>4. P!Day \in P!Buckets /\ 0..MaxMinutes \subseteq P!Buckets
    BY DEF P!Buckets
  <2> QED BY <2>1, <2>2, <2>3, <2>4, FS_EmptySet DEF LimitInv
<1>2. TurnInv /\ LimitInv /\ [P!Next]_(P!vars) => (TurnInv /\ LimitInv)'
  BY NextKeepsTurns, NextKeepsLimits
<1> QED BY <1>1, <1>2, PTL DEF P!Spec

\* The session, its turns and the counters keep their types, and no turn has a number
\* beyond the turns asked for (store_public.py, save_turn).
THEOREM VisitsAreTyped ==
  ASSUME P!Setting
  PROVE  P!Spec => []P!TypeOK
<1>1. TurnInv => P!TypeOK
  <2> SUFFICES ASSUME TurnInv PROVE P!TypeOK
    OBVIOUS
  <2>1. PublicTypes /\ P!Requests = 1..Len(req) /\ Len(req) \in Nat /\ MaxVisits \in Nat /\ \A r \in P!Requests : req[r] \in Turn
    BY RequestSet, Setup DEF TurnInv
  <2>2. Cardinality(Past) \in Nat /\ Cardinality(Past) <= Len(req)
    BY <2>1, Few DEF Past
  <2>3. Len(req) <= MaxVisits /\ tail \in Nat /\ tail <= Cardinality(Past)
    BY <2>1 DEF TurnInv, NumberInv, PublicTypes
  <2>4. tail \in 0..MaxVisits
    BY <2>1, <2>2, <2>3
  <2>5. \A r \in P!Requests : req[r].base \in 0..MaxVisits
    <3> SUFFICES ASSUME NEW r \in P!Requests PROVE req[r].base \in 0..MaxVisits
      OBVIOUS
    <3>1. req[r].base \in Nat /\ req[r].base <= Cardinality(Past)
      BY <2>1 DEF TurnInv, NumberInv, Turn
    <3> QED BY <2>1, <2>2, <2>3, <3>1
  <2>6. \A s \in DOMAIN rows : rows[s].by \in 0..Len(req)
    BY <2>1 DEF PublicTypes, TurnInv, NumberInv
  <2>7. \A r \in P!Requests : /\ req[r].visitor \in Visitor /\ req[r].instance \in Instance
                              /\ req[r].minute \in 0..MaxMinutes
                              /\ req[r].pc \in P!Pcs /\ req[r].held \in BOOLEAN
    BY <2>1 DEF Turn
  <2> QED BY <2>1, <2>4, <2>5, <2>6, <2>7 DEF P!TypeOK, PublicTypes
<1> QED BY <1>1, TurnsAlways, PTL

\* An instance serves one turn of the session at a time, and keeps the next one out
\* only while it serves one, or for one whose stream never began
\* (rate_limit_public.py, check and release; agent_public.py, agent_turn_public).
THEOREM OneTurnAtATime ==
  ASSUME P!Setting
  PROVE  P!Spec => []P!GuardHolds
<1>1. TurnInv => P!GuardHolds
  <2> SUFFICES ASSUME TurnInv, NEW i \in Instance, NEW H, H = {r \in P!Requests : req[r].instance = i /\ req[r].held}
               PROVE  /\ Cardinality(H) = (IF i \in inflight THEN 1 ELSE 0)
                      /\ \A r \in H : r \in P!Working \/ P!At(r, {"unstarted"})
    BY TurnsCount DEF P!GuardHolds
  <2>1. GuardInv
    BY DEF TurnInv
  <2>2. \A r \in H : r \in P!Working \/ P!At(r, {"unstarted"})
    BY <2>1 DEF GuardInv, P!Working, P!At, Ended
  <2>3. CASE i \in inflight
    <3>1. PICK r \in P!Requests : req[r].held /\ req[r].instance = i
      BY <2>1, <2>3 DEF GuardInv
    <3>2. H = {r}
      BY <2>1, <3>1 DEF GuardInv
    <3> QED BY <2>2, <2>3, <3>2, FS_Singleton
  <2>4. CASE i \notin inflight
    <3>1. H = {}
      BY <2>1, <2>4 DEF GuardInv
    <3> QED BY <2>2, <2>4, <3>1, FS_EmptySet
  <2> QED BY <2>3, <2>4
<1> QED BY <1>1, TurnsAlways, PTL

\* A visitor has at most so many turns a minute and a day on all instances together,
\* however their requests overlap (increment_agent_rate_limit_public).
THEOREM LimitsAreKept ==
  ASSUME P!Setting
  PROVE  P!Spec => []P!LimitsHold
<1>1. TurnInv /\ LimitInv => P!LimitsHold
  <2> SUFFICES ASSUME TurnInv, LimitInv, NEW v \in Visitor
               PROVE  /\ Cardinality(P!Ran(v)) <= PerDay
                      /\ \A m \in 0..MaxMinutes : Cardinality({r \in P!Ran(v) : req[r].minute = m}) <= PerMinute
    BY TurnsCount DEF P!LimitsHold
  <2>1. ASSUME NEW m \in 0..MaxMinutes PROVE Cardinality({r \in P!Ran(v) : req[r].minute = m}) <= PerMinute
    <3>1. PICK S, U : S = Through(v, m) /\ U = {r \in P!Ran(v) : req[r].minute = m}
      OBVIOUS
    <3>2. U \subseteq S /\ S \subseteq P!Requests /\ Cardinality(S) <= PerMinute
      BY <3>1 DEF Through, P!Ran, RanPcs, LimitInv
    <3>3. Cardinality(U) <= Cardinality(S) /\ Cardinality(U) \in Nat /\ Cardinality(S) \in Nat
      BY <3>2, SomeRequests, FS_Subset, FS_CardinalityType DEF TurnInv
    <3> QED BY <3>1, <3>2, <3>3, Setup
  <2> QED BY <2>1 DEF LimitInv
<1> QED BY <1>1, LimitsAlways, PTL

-----------------------------------------------------------------------------
(* The session and its visitor                                             *)

\* Unless two visitors had turns of it at the same time: whoever has one owns the
\* session or finds it free, nothing takes it from him, and its turns are his own.
OneVisitor ==
  /\ \A r, u \in P!Working : req[r].visitor = req[u].visitor
  /\ \A r \in P!Working : owner \in {NoOne, req[r].visitor}
  /\ \A r \in P!Requests : req[r].pc \in {"row", "insert"} => owner = req[r].visitor

DoneStays ==
  \A r \in P!Requests : req[r].pc \in {"tell", "told"} => /\ P!Number(r) \in 1..MaxVisits
                                                          /\ rows[P!Number(r)].by = r

OwnTurns ==
  /\ \A s \in 1..MaxVisits : \A i \in 1..Len(rows[s].cursor) : req[rows[s].cursor[i]].visitor = owner
  /\ \A r \in P!Requests : \A i \in 1..Len(req[r].history) : req[req[r].history[i]].visitor = req[r].visitor

OwnInv == ~mixed => OneVisitor /\ DoneStays /\ OwnTurns

\* Where a turn works, and the number it saves under.
LEMMA WorkingIs ==
  P!Working = {r \in P!Requests : req[r].pc \notin Ended}
BY DEF P!Working, P!At, Ended

LEMMA NumbersFit ==
  ASSUME P!Setting, TurnInv, NEW r \in P!Requests
  PROVE  /\ req[r].base \in Nat /\ req[r].base <= MaxVisits /\ MaxVisits \in Nat
         /\ req[r].pc = "row" => req[r].base \in 1..MaxVisits
         /\ req[r].pc = "insert" => P!Number(r) \in 1..MaxVisits
<1>1. PublicTypes /\ P!Requests = 1..Len(req) /\ Len(req) \in Nat /\ MaxVisits \in Nat /\ req[r] \in Turn
  BY RequestSet, Setup DEF TurnInv
<1>2. Cardinality(Past) \in Nat /\ Cardinality(Past) <= Len(req)
  BY <1>1, Few DEF Past
<1>3. Len(req) <= MaxVisits /\ req[r].base \in Nat /\ req[r].base <= Cardinality(Past)
      /\ (req[r].pc = "row" => req[r].base > 0)
      /\ (req[r].pc = "insert" => req[r].base + 1 <= Cardinality(Past))
  BY <1>1 DEF TurnInv, NumberInv, PublicTypes, Turn, P!Number
<1> QED BY <1>1, <1>2, <1>3 DEF P!Number

LEMMA StepOwn ==
  ASSUME P!Setting, TurnInv, OwnInv, NEW r \in P!Requests, NEW k, Own(r, k), Form(r, k)
  PROVE  OwnInv'
<1> SUFFICES ASSUME ~mixed'
             PROVE  OneVisitor' /\ DoneStays' /\ OwnTurns'
  BY DEF OwnInv
<1>1. OneVisitor /\ DoneStays /\ OwnTurns
  BY DEF OwnInv, Own
<1>2. /\ PublicTypes /\ req[r] \in Turn /\ k \in Turn /\ k.visitor = req[r].visitor /\ req[r].visitor \in Visitor
      /\ r \in Nat /\ r > 0
  BY RequestSet DEF TurnInv, Own, Turn
<1>3. P!Requests' = P!Requests /\ \A p \in P!Requests : req'[p] = IF p = r THEN k ELSE req[p]
  BY <1>2, Others
<1>4. \A p \in P!Requests : req'[p].visitor = req[p].visitor
  BY <1>2, <1>3
<1>5. k.pc \notin Ended => req[r].pc \notin Ended
  BY DEF Form, Ends, Stays, Starts, PassesMinute, PassesDay, Passes, ReadsTail,
     ReadsRow, Goes, Claims, Stores, Ended
<1>6. P!Working' \subseteq P!Working
  <2>1. P!Working' = {p \in P!Requests' : req'[p].pc \notin Ended}
    BY DEF P!Working, P!At, Ended
  <2> QED BY <1>3, <1>5, <2>1, WorkingIs
<1>7. owner' = owner \/ (owner' = req[r].visitor /\ r \in P!Working /\ Claims(r, k))
  BY WorkingIs DEF Form, Ends, Stays, Starts, PassesMinute, PassesDay, Passes, ReadsTail,
     ReadsRow, Goes, Claims, Stores, Ended
<1>8. OneVisitor'
  <2>1. \A p, u \in P!Working' : req'[p].visitor = req'[u].visitor
    BY <1>1, <1>3, <1>4, <1>6 DEF OneVisitor, P!Working
  <2>2. \A p \in P!Working' : owner' \in {NoOne, req'[p].visitor}
    BY <1>1, <1>3, <1>4, <1>6, <1>7 DEF OneVisitor, P!Working
  <2>3. \A p \in P!Requests' : req'[p].pc \in {"row", "insert"} => owner' = req'[p].visitor
    <3> SUFFICES ASSUME NEW p \in P!Requests', req'[p].pc \in {"row", "insert"}
                 PROVE  owner' = req'[p].visitor
      OBVIOUS
    <3>1. CASE p = r
      <4>1. k.pc \in {"row", "insert"}
        BY <1>3, <3>1
      <4>2. owner' = req[r].visitor
        <5>1. req[r].pc \in {"row", "insert"} => owner = req[r].visitor
          BY <1>1 DEF OneVisitor
        <5> QED BY <4>1, <5>1 DEF Form, Ends, Stays, Starts, PassesMinute, PassesDay, Passes, ReadsTail,
              ReadsRow, Goes, Claims, Stores, Ended
      <4> QED BY <1>3, <1>4, <3>1, <4>2
    <3>2. CASE p # r
      <4>1. req[p].pc \in {"row", "insert"} /\ p \in P!Requests /\ req'[p].visitor = req[p].visitor
        BY <1>3, <1>4, <3>2
      <4>2. owner = req[p].visitor /\ p \in P!Working
        BY <1>1, <4>1, WorkingIs DEF OneVisitor, Ended
      <4> QED BY <1>1, <1>7, <4>1, <4>2 DEF OneVisitor
    <3> QED BY <3>1, <3>2
  <2> QED BY <2>1, <2>2, <2>3 DEF OneVisitor
<1>9. rows \in [1..MaxVisits -> Stored]
  BY <1>2 DEF PublicTypes
<1>10. CASE Stores(r, k)
  <2>1. PICK n, c, h : n = P!Number(r) /\ c = P!Cursor(r) /\ h = req[r].history
    OBVIOUS
  <2>2. n \in 1..MaxVisits /\ rows[n] = P!NoRow /\ req[r].pc = "insert" /\ k.pc = "tell" /\ k.base = req[r].base
        /\ k.history = h /\ owner' = owner /\ owner = req[r].visitor
    BY <1>1, <1>10, <2>1, NumbersFit DEF Stores, Same, OneVisitor
  <2>3. PICK w : w = [by |-> r, cursor |-> c]
    OBVIOUS
  <2>4. rows' = [rows EXCEPT ![n] = w] /\ w.by = r /\ w.cursor = c
    BY <1>10, <2>1, <2>3 DEF Stores
  <2>5. \A s \in 1..MaxVisits : rows'[s] = IF s = n THEN w ELSE rows[s]
    BY <1>9, <2>4
  <2>6. DoneStays'
    <3>1. \A p \in P!Requests \ {r} : req[p].pc \in {"tell", "told"} => P!Number(p) # n
      <4>1. rows[n].by = 0
        BY <2>2 DEF P!NoRow
      <4>2. \A p \in P!Requests : p > 0
        BY <1>2, RequestSet
      <4> QED BY <1>1, <4>1, <4>2 DEF DoneStays
    <3>2. \A p \in P!Requests \ {r} : req'[p] = req[p] /\ P!Number(p)' = P!Number(p)
      BY <1>3 DEF P!Number
    <3>3. req'[r].pc = "tell" /\ P!Number(r)' = n
      BY <1>3, <2>1, <2>2 DEF P!Number
    <3> QED BY <1>1, <1>3, <2>2, <2>4, <2>5, <3>1, <3>2, <3>3 DEF DoneStays
  <2>7. \A i \in 1..Len(c) : req[c[i]].visitor = owner /\ c[i] \in P!Requests
    <3>1. h \in Seq(Nat) /\ \A i \in 1..Len(h) : req[h[i]].visitor = req[r].visitor /\ h[i] \in P!Requests
      BY <1>1, <1>2, <2>1 DEF OwnTurns, TurnInv, NumberInv, Turn
    <3>2. PICK q \in 0..Len(h) : HandsOver(h, c, r, q)
      BY <1>2, <2>1, <3>1, HandsOn
    <3>3. /\ c \in Seq(Nat) /\ Len(c) = q + 1 /\ c[q + 1] = r /\ q \in Nat
          /\ \A i \in 1..q : c[i] = h[Len(h) - q + i]
      BY <3>2 DEF HandsOver
    <3>4. \A i \in 1..q : Len(h) - q + i \in 1..Len(h)
      <4>1. Len(h) \in Nat /\ q \in 0..Len(h)
        BY <3>1
      <4> QED BY <4>1
    <3>5. \A i \in 1..q + 1 : i \in 1..q \/ i = q + 1
      BY <3>3
    <3>6. \A i \in 1..q : c[i] \in P!Requests /\ req[c[i]].visitor = req[r].visitor
      BY <3>1, <3>3, <3>4
    <3> QED BY <2>2, <3>3, <3>5, <3>6
  <2>8. OwnTurns'
    <3>1. \A s \in 1..MaxVisits : \A i \in 1..Len(rows'[s].cursor) : req'[rows'[s].cursor[i]].visitor = owner'
      <4> SUFFICES ASSUME NEW s \in 1..MaxVisits, NEW i \in 1..Len(rows'[s].cursor)
                   PROVE  req'[rows'[s].cursor[i]].visitor = owner'
        OBVIOUS
      <4>1. CASE s = n
        BY <1>4, <2>2, <2>4, <2>5, <2>7, <4>1
      <4>2. CASE s # n
        <5>1. rows'[s] = rows[s] /\ rows[s].cursor[i] \in P!Requests /\ req[rows[s].cursor[i]].visitor = owner
          BY <1>1, <2>5, <4>2 DEF OwnTurns, TurnInv, NumberInv
        <5> QED BY <1>4, <2>2, <5>1
      <4> QED BY <4>1, <4>2
    <3>2. \A p \in P!Requests : req'[p].history = req[p].history
      BY <1>3, <2>1, <2>2
    <3>3. \A p \in P!Requests : \A i \in 1..Len(req[p].history) : req[p].history[i] \in P!Requests
      BY DEF TurnInv, NumberInv
    <3> QED BY <1>1, <1>3, <1>4, <3>1, <3>2, <3>3 DEF OwnTurns
  <2> QED BY <1>8, <2>6, <2>8
<1>11. CASE ~Stores(r, k)
  <2>1. rows' = rows
    BY <1>11 DEF Form, Ends, Stays, Starts, PassesMinute, PassesDay, Passes, ReadsTail,
     ReadsRow, Goes, Claims
  <2>2. k.pc \in {"tell", "told"} => req[r].pc \in {"tell", "told"} /\ k.base = req[r].base
    <3>1. req[r].pc = "claim" => P!Matches(req[r].visitor)
      BY <1>1, WorkingIs DEF OneVisitor, P!Matches, Ended
    <3> QED BY <1>11, <3>1 DEF Form, Ends, Stays, Starts, PassesMinute, PassesDay, Passes, ReadsTail,
     ReadsRow, Goes, Claims, Ended, Same
  <2>3. DoneStays'
    <3>1. \A p \in P!Requests : req'[p].pc \in {"tell", "told"} => req[p].pc \in {"tell", "told"} /\ P!Number(p)' = P!Number(p)
      BY <1>3, <2>2 DEF P!Number
    <3> QED BY <1>1, <1>3, <2>1, <3>1 DEF DoneStays
  <2>4. \A s \in 1..MaxVisits : \A i \in 1..Len(rows[s].cursor) :
          rows[s].cursor[i] \in P!Requests /\ req[rows[s].cursor[i]].visitor = owner'
    <3> SUFFICES ASSUME NEW s \in 1..MaxVisits, NEW i \in 1..Len(rows[s].cursor)
                 PROVE  rows[s].cursor[i] \in P!Requests /\ req[rows[s].cursor[i]].visitor = owner'
      OBVIOUS
    <3>1. PICK u : u = rows[s].cursor[i]
      OBVIOUS
    <3>2. u \in P!Requests /\ req[u].visitor = owner
      BY <1>1, <3>1 DEF OwnTurns, TurnInv, NumberInv
    <3>3. owner # NoOne
      BY <1>2, <3>2, RequestSet, Setup DEF Turn
    <3>4. owner' = owner
      BY <1>1, <1>7, <3>3 DEF OneVisitor
    <3> QED BY <3>1, <3>2, <3>4
  <2>5. \A i \in 1..Len(k.history) : k.history[i] \in P!Requests /\ req[k.history[i]].visitor = req[r].visitor
    <3>1. CASE ReadsRow(r, k)
      <4>1. k.history = rows[req[r].base].cursor /\ owner' = owner /\ owner = req[r].visitor /\ req[r].base \in 1..MaxVisits
        BY <1>1, <3>1, NumbersFit DEF ReadsRow, OneVisitor
      <4> QED BY <2>4, <4>1
    <3>2. CASE ~ReadsRow(r, k)
      <4>1. k.history = req[r].history
        BY <1>11, <3>2 DEF Form, Ends, Stays, Starts, PassesMinute, PassesDay, Passes, ReadsTail,
          Goes, Claims, Same
      <4> QED BY <1>1, <4>1 DEF OwnTurns, TurnInv, NumberInv
    <3> QED BY <3>1, <3>2
  <2>6. \A p \in P!Requests : \A i \in 1..Len(req'[p].history) :
          req'[p].history[i] \in P!Requests /\ req[req'[p].history[i]].visitor = req[p].visitor
    <3> SUFFICES ASSUME NEW p \in P!Requests, NEW i \in 1..Len(req'[p].history)
                 PROVE  req'[p].history[i] \in P!Requests /\ req[req'[p].history[i]].visitor = req[p].visitor
      OBVIOUS
    <3>1. CASE p = r
      BY <1>3, <2>5, <3>1
    <3>2. CASE p # r
      BY <1>1, <1>3, <3>2 DEF OwnTurns, TurnInv, NumberInv
    <3> QED BY <3>1, <3>2
  <2>7. OwnTurns'
    BY <1>3, <1>4, <2>1, <2>4, <2>6 DEF OwnTurns
  <2> QED BY <1>8, <2>3, <2>7
<1> QED BY <1>10, <1>11

LEMMA NextKeepsOwn ==
  ASSUME P!Setting, TurnInv, OwnInv, [P!Next]_(P!vars)
  PROVE  OwnInv'
<1>0. PublicTypes /\ NumberInv
  BY DEF TurnInv
<1>1. ASSUME NEW r \in P!Requests, P!Step(r) PROVE OwnInv'
  BY <1>1, StepForm, StepOwn
<1>2. ASSUME NEW v \in Visitor, NEW i \in Instance, P!Ask(v, i), ~mixed' PROVE OneVisitor' /\ DoneStays' /\ OwnTurns'
  <2>1. PICK k : Fresh(k, v, i) /\ Comes(k)
    BY <1>0, <1>2, AskForm
  <2>2. PICK n : n = Len(req) + 1
    OBVIOUS
  <2>3. P!Requests' = P!Requests \cup {n} /\ n \notin P!Requests /\ req'[n] = k /\ \A p \in P!Requests : req'[p] = req[p]
    BY <1>0, <2>1, <2>2, ComesMore
  <2>4. /\ UNCHANGED <<owner, rows>> /\ ~mixed /\ \A p \in P!Working : req[p].visitor = v
        /\ k.visitor = v /\ k.history = <<>> /\ k.pc = (IF P!Matches(v) THEN "guard" ELSE "refused")
    BY <1>2, <2>1 DEF Comes, Fresh
  <2>5. OneVisitor /\ DoneStays /\ OwnTurns
    BY <2>4 DEF OwnInv
  <2>6. P!Working' = P!Working \cup (IF P!Matches(v) THEN {n} ELSE {})
    <3>1. P!Working' = {p \in P!Requests' : req'[p].pc \notin Ended}
      BY DEF P!Working, P!At, Ended
    <3> QED BY <2>3, <2>4, <3>1, WorkingIs DEF Ended
  <2>7. OneVisitor'
    BY <2>3, <2>4, <2>5, <2>6 DEF OneVisitor, P!Matches, P!Working
  <2>8. DoneStays'
    <3>1. \A p \in P!Requests : P!Number(p)' = P!Number(p)
      BY <2>3 DEF P!Number
    <3> QED BY <2>3, <2>4, <2>5, <3>1 DEF DoneStays
  <2>9. OwnTurns'
    <3>1. \A s \in 1..MaxVisits : \A j \in 1..Len(rows[s].cursor) :
            rows[s].cursor[j] \in P!Requests /\ req[rows[s].cursor[j]].visitor = owner
      BY <1>0, <2>5 DEF OwnTurns, NumberInv
    <3>2. \A p \in P!Requests : \A j \in 1..Len(req[p].history) :
            req[p].history[j] \in P!Requests /\ req[req[p].history[j]].visitor = req[p].visitor
      BY <1>0, <2>5 DEF OwnTurns, NumberInv
    <3>3. Len(k.history) = 0
      BY <2>4
    <3>4. \A j \in 1..Len(k.history) : FALSE
      BY <3>3
    <3>5. \A p \in P!Requests' : \A j \in 1..Len(req'[p].history) : req'[req'[p].history[j]].visitor = req'[p].visitor
      BY <2>3, <3>2, <3>4
    <3> QED BY <2>3, <2>4, <3>1, <3>5 DEF OwnTurns
  <2> QED BY <2>7, <2>8, <2>9
<1>3. ASSUME NEW i \in Instance, P!Die(i), ~mixed' PROVE OneVisitor' /\ DoneStays' /\ OwnTurns'
  <2>1. /\ P!Requests' = P!Requests /\ UNCHANGED <<owner, rows, mixed>>
        /\ \A r \in P!Requests : /\ req'[r].visitor = req[r].visitor /\ req'[r].base = req[r].base
                                 /\ req'[r].history = req[r].history
                                 /\ req'[r].pc = req[r].pc \/ req'[r].pc = "over"
    BY <1>0, <1>3, DieForm DEF Falls
  <2>2. OneVisitor /\ DoneStays /\ OwnTurns
    BY <1>3, <2>1 DEF OwnInv
  <2>3. P!Working' \subseteq P!Working
    <3>1. P!Working' = {p \in P!Requests' : req'[p].pc \notin Ended}
      BY DEF P!Working, P!At, Ended
    <3> QED BY <2>1, <3>1, WorkingIs DEF Ended
  <2>4. OneVisitor'
    BY <2>1, <2>2, <2>3 DEF OneVisitor, P!Working
  <2>5. DoneStays'
    <3>1. \A p \in P!Requests : P!Number(p)' = P!Number(p)
      BY <2>1 DEF P!Number
    <3> QED BY <2>1, <2>2, <3>1 DEF DoneStays
  <2>6. OwnTurns'
    <3>1. \A s \in 1..MaxVisits : \A j \in 1..Len(rows[s].cursor) :
            rows[s].cursor[j] \in P!Requests /\ req[rows[s].cursor[j]].visitor = owner
      BY <1>0, <2>2 DEF OwnTurns, NumberInv
    <3>2. \A p \in P!Requests : \A j \in 1..Len(req[p].history) :
            req[p].history[j] \in P!Requests /\ req[req[p].history[j]].visitor = req[p].visitor
      BY <1>0, <2>2 DEF OwnTurns, NumberInv
    <3> QED BY <2>1, <3>1, <3>2 DEF OwnTurns
  <2> QED BY <2>4, <2>5, <2>6
<1>4. ASSUME P!Tick \/ UNCHANGED P!vars PROVE OwnInv'
  <2>1. UNCHANGED <<owner, rows, req, mixed>>
    BY <1>4 DEF P!Tick, P!vars, P!session, P!history
  <2>2. P!Requests' = P!Requests /\ P!Working' = P!Working
    BY <2>1 DEF P!Requests, P!Working, P!At
  <2>3. \A r \in P!Requests : P!Number(r)' = P!Number(r)
    BY <2>1 DEF P!Number
  <2>4. OneVisitor' <=> OneVisitor
    BY <2>1, <2>2 DEF OneVisitor
  <2>5. DoneStays' <=> DoneStays
    BY <2>1, <2>2, <2>3 DEF DoneStays
  <2>6. OwnTurns' <=> OwnTurns
    BY <2>1, <2>2 DEF OwnTurns
  <2> QED BY <2>1, <2>4, <2>5, <2>6 DEF OwnInv
<1> QED BY <1>1, <1>2, <1>3, <1>4 DEF P!Next, OwnInv

LEMMA OwnAlways ==
  ASSUME P!Setting
  PROVE  P!Spec => [](TurnInv /\ OwnInv)
<1>1. ASSUME P!Init PROVE TurnInv /\ OwnInv
  <2>1. req = <<>>
    BY <1>1 DEF P!Init
  <2>2. P!Requests = {} /\ P!Working = {}
    BY <2>1 DEF P!Requests, P!Working
  <2>3. \A s \in 1..MaxVisits : rows[s].cursor = <<>>
    BY <1>1 DEF P!Init, P!NoRow
  <2>4. \A s \in 1..MaxVisits : Len(rows[s].cursor) = 0
    BY <2>3
  <2>5. \A s \in 1..MaxVisits : \A i \in 1..Len(rows[s].cursor) : FALSE
    BY <2>4
  <2> QED BY <1>1, <2>2, <2>5, StartsTurns DEF OwnInv, OneVisitor, DoneStays, OwnTurns
<1>2. TurnInv /\ OwnInv /\ [P!Next]_(P!vars) => (TurnInv /\ OwnInv)'
  BY NextKeepsTurns, NextKeepsOwn
<1> QED BY <1>1, <1>2, PTL DEF P!Spec

\* A turn that the visitor saw done stays stored under its number, unless two visitors
\* had turns of the session at the same time (store_public.py, save_turn).
THEOREM DoneTurnsStay ==
  ASSUME P!Setting
  PROVE  P!Spec => []P!DoneIsStored
<1>1. OwnInv => P!DoneIsStored
  BY DEF OwnInv, DoneStays, P!DoneIsStored, P!At
<1> QED BY <1>1, OwnAlways, PTL

\* Nobody goes on from a turn of someone else, with the same exception
\* (store_public.py, load and verify_session_access).
THEOREM HistoriesAreOwn ==
  ASSUME P!Setting
  PROVE  P!Spec => []P!HistoryIsOwn
<1>1. TurnInv /\ OwnInv => P!HistoryIsOwn
  <2> SUFFICES ASSUME TurnInv, OwnInv, ~mixed, NEW r \in P!Requests, NEW i \in 1..MaxVisits, i \in DOMAIN req[r].history
               PROVE  req[req[r].history[i]].visitor = req[r].visitor
    BY DEF P!HistoryIsOwn
  <2>1. PICK h : h = req[r].history
    OBVIOUS
  <2>2. h \in Seq(Nat)
    BY <2>1, RequestSet DEF TurnInv, Turn
  <2>3. i \in 1..Len(h)
    BY <2>1, <2>2
  <2> QED BY <2>1, <2>3 DEF OwnInv, OwnTurns
<1> QED BY <1>1, OwnAlways, PTL

-----------------------------------------------------------------------------
(* What is handed on                                                       *)

\* Two turns that began alone are not served at the same time, and nothing is read
\* before its turn.
BeganAlone(r) == req[r].calm /\ req[r].pc \notin Ended

CalmInv ==
  /\ \A r \in P!Requests : req[r].pc = "guard" => ~req[r].calm
  /\ \A r, u \in P!Requests : BeganAlone(r) /\ BeganAlone(u) => r = u
  /\ \A r \in P!Requests : req[r].pc \in {"guard", "minute", "day", "tail", "row"} => req[r].history = <<>>

\* What is handed on by the turn stored under b.
Chain(h, b) ==
  /\ Len(h) <= b /\ (Len(h) = b \/ Len(h) >= MaxTurnsKept)
  /\ \A i \in 1..Len(h) : h[i] = rows[b - Len(h) + i].by

\* Unless a turn admitted beside another was saved, or one by half: the turns are
\* stored from the first to the last, but for the one that is just being saved, and
\* a turn that began alone goes on from the last.
Storing == \E r \in P!Requests : req[r].pc = "insert"

Filled ==
  /\ owner = NoOne => tail = 0
  /\ \A s \in 1..MaxVisits : rows[s] # P!NoRow <=> s <= tail /\ (s = tail => ~Storing)
  /\ \A s \in 1..MaxVisits : rows[s] # P!NoRow => Chain(rows[s].cursor, s)

GoesOn(r) ==
  /\ req[r].pc = "insert" => req[r].calm /\ P!Number(r) = tail
  /\ req[r].calm =>
       /\ req[r].pc \in {"row", "run", "claim", "upsert"} =>
            req[r].base = IF owner = req[r].visitor THEN tail ELSE 0
       /\ req[r].pc = "upsert" => owner \in {NoOne, req[r].visitor}
       /\ req[r].pc \in {"run", "claim", "upsert", "insert"} =>
            req[r].history = IF req[r].base = 0 THEN <<>> ELSE rows[req[r].base].cursor

StoreInv == ~lapse => Filled /\ \A r \in P!Requests : GoesOn(r)

LEMMA StepCalm ==
  ASSUME TurnInv, CalmInv, NEW r \in P!Requests, NEW k, Own(r, k), Form(r, k)
  PROVE  CalmInv'
<1>1. PublicTypes /\ P!Requests' = P!Requests /\ \A p \in P!Requests : req'[p] = IF p = r THEN k ELSE req[p]
  BY Others DEF TurnInv
<1>2. /\ k.pc = "guard" => FALSE
      /\ k.pc \in {"guard", "minute", "day", "tail", "row"} => k.history = <<>>
  BY DEF CalmInv, BeganAlone, Form, Ends, Stays, Starts, PassesMinute, PassesDay, Passes, ReadsTail,
     ReadsRow, Goes, Claims, Stores, Ended, Same
<1>3. CASE Starts(r, k)
  <2>1. k.calm => \A u \in P!Requests \ {r} : ~(req[u].calm /\ req[u].pc \notin Ended)
    <3> SUFFICES ASSUME k.calm, NEW u \in P!Requests \ {r}, req[u].calm, req[u].pc \notin Ended PROVE FALSE
      OBVIOUS
    <3>1. u \in P!Admitted \ {r}
      BY DEF CalmInv, BeganAlone, P!Admitted, P!Working, P!At, Ended
    <3> QED BY <1>3, <3>1 DEF Starts
  <2>2. \A p, u \in P!Requests : BeganAlone(p)' /\ BeganAlone(u)' => p = u
    <3> SUFFICES ASSUME NEW p \in P!Requests, NEW u \in P!Requests, BeganAlone(p)', BeganAlone(u)', p # u
                 PROVE  FALSE
      BY Zenon
    <3>1. CASE p = r
      BY <1>1, <2>1, <3>1 DEF BeganAlone
    <3>2. CASE u = r
      BY <1>1, <2>1, <3>2 DEF BeganAlone
    <3>3. CASE p # r /\ u # r
      BY <1>1, <3>3 DEF CalmInv, BeganAlone
    <3> QED BY <3>1, <3>2, <3>3
  <2> QED BY <1>1, <1>2, <2>2 DEF CalmInv, BeganAlone
<1>4. CASE ~Starts(r, k)
  <2>1. k.calm = req[r].calm /\ (k.pc \notin Ended => req[r].pc \notin Ended)
    BY <1>4 DEF Form, Ends, Stays, PassesMinute, PassesDay, Passes, ReadsTail,
     ReadsRow, Goes, Claims, Stores, Ended, Same
  <2> QED BY <1>1, <1>2, <2>1 DEF CalmInv, BeganAlone
<1> QED BY <1>3, <1>4

\* Cursor keeps the chain: what turn r hands on under n.
Extended(c, r, n) ==
  /\ c \in Seq(Nat) /\ Len(c) <= n /\ (Len(c) = n \/ Len(c) >= MaxTurnsKept)
  /\ \A i \in 1..Len(c) : \/ i < Len(c) /\ n - Len(c) + i \in 1..n - 1 /\ c[i] = rows[n - Len(c) + i].by
                          \/ i = Len(c) /\ n - Len(c) + i = n /\ c[i] = r

LEMMA ChainGoesOn ==
  ASSUME P!Setting, NEW r \in Nat, NEW b \in Nat, NEW n, n = b + 1, NEW h \in Seq(Nat), h = req[r].history, NEW c, c = P!Cursor(r),
         Chain(h, b)
  PROVE  Extended(c, r, n)
<1>1. PICK q \in 0..Len(h) : HandsOver(h, c, r, q)
  BY HandsOn
<1>2. PICK l, t : l = Len(h) /\ t = MaxTurnsKept
  OBVIOUS
<1>3. l \in Nat /\ q \in 0..l /\ l <= b /\ (l = b \/ l >= t) /\ (q = l \/ (q = t /\ q < l)) /\ t \in Nat
      /\ \A i \in 1..l : h[i] = rows[b - l + i].by
  <2>1. t \in Nat /\ l \in Nat /\ q \in 0..l
    BY <1>1, <1>2, Setup
  <2>2. q = l \/ (q = t /\ q < l)
    BY <1>1, <1>2 DEF HandsOver
  <2>3. l <= b /\ (l = b \/ l >= t) /\ \A i \in 1..l : h[i] = rows[b - l + i].by
    BY <1>2 DEF Chain
  <2> QED BY <2>1, <2>2, <2>3
<1>4. c \in Seq(Nat) /\ Len(c) = q + 1 /\ c[q + 1] = r /\ \A i \in 1..q : c[i] = h[l - q + i]
  BY <1>1, <1>2 DEF HandsOver
<1>5. Len(c) <= n /\ (Len(c) = n \/ Len(c) >= t)
  BY <1>3, <1>4
<1>6. ASSUME NEW i \in 1..q + 1
      PROVE  \/ i < q + 1 /\ b - q + i \in 1..b /\ c[i] = rows[b - q + i].by
             \/ i = q + 1 /\ b - q + i = n /\ c[i] = r
  <2>1. CASE i = q + 1
    BY <1>3, <1>4, <2>1
  <2>2. CASE i # q + 1
    <3>1. i \in 1..q /\ i < q + 1 /\ l - q + i \in 1..l /\ b - l + (l - q + i) = b - q + i /\ b - q + i \in 1..b
      BY <1>3, <2>2
    <3>2. c[i] = h[l - q + i]
      BY <1>4, <3>1
    <3>3. h[l - q + i] = rows[b - q + i].by
      BY <1>3, <3>1
    <3> QED BY <3>1, <3>2, <3>3
  <2> QED BY <2>1, <2>2
<1>7. n - Len(c) = b - q
  BY <1>3, <1>4
<1>8. b = n - 1 /\ Len(c) = q + 1
  BY <1>4
<1> QED BY <1>2, <1>4, <1>5, <1>6, <1>7, <1>8 DEF Extended

LEMMA StepStore ==
  ASSUME P!Setting, TurnInv, CalmInv, StoreInv, NEW r \in P!Requests, NEW k, Own(r, k), Form(r, k)
  PROVE  StoreInv'
<1> SUFFICES ASSUME ~lapse' PROVE Filled' /\ \A p \in P!Requests' : GoesOn(p)'
  BY DEF StoreInv
<1>1. /\ PublicTypes /\ req[r] \in Turn /\ k \in Turn /\ k.visitor = req[r].visitor /\ req[r].visitor \in Visitor
      /\ r \in Nat /\ r > 0 /\ tail \in Nat /\ rows \in [1..MaxVisits -> Stored] /\ NoOne \notin Visitor
      /\ MaxVisits \in Nat
  <2>1. PublicTypes /\ NoOne \notin Visitor /\ MaxVisits \in Nat /\ P!Requests = 1..Len(req) /\ req[r] \in Turn
    BY RequestSet, Setup DEF TurnInv
  <2>2. r \in Nat /\ r > 0 /\ req[r].visitor \in Visitor
    BY <2>1 DEF Turn
  <2>3. k \in Turn /\ k.visitor = req[r].visitor
    BY DEF Own
  <2> QED BY <2>1, <2>2, <2>3 DEF PublicTypes
<1>2. P!Requests' = P!Requests /\ \A p \in P!Requests : req'[p] = IF p = r THEN k ELSE req[p]
  BY <1>1, Others
<1>3. ~lapse
  BY DEF Form, Ends, Stays, Starts, PassesMinute, PassesDay, Passes, ReadsTail, ReadsRow, Goes, Claims, Stores
<1>4. Filled /\ \A p \in P!Requests : GoesOn(p)
  BY <1>3 DEF StoreInv
<1>5. \A p \in P!Requests \ {r} : req'[p] = req[p] /\ P!Number(p)' = P!Number(p)
  BY <1>2 DEF P!Number
<1>6. req'[r] = k /\ P!Number(r)' = k.base + 1 /\ req[r].base \in Nat
  BY <1>1, <1>2 DEF P!Number, Turn
<1>7. CASE Claims(r, k)
  <2>1. /\ req[r].pc = "upsert" /\ k.pc = "insert" /\ req[r].calm /\ owner' = req[r].visitor
        /\ tail' = req[r].base + 1 /\ rows' = rows /\ Same(r, k)
    BY <1>7 DEF Claims, P!Number
  <2>2. req[r].base = tail
    BY <1>4, <2>1 DEF GoesOn, Filled
  <2>3. \A u \in P!Requests \ {r} : ~(req[u].calm /\ req[u].pc \notin Ended)
    BY <2>1 DEF CalmInv, BeganAlone, Ended
  <2>4. ~Storing
    <3>1. \A u \in P!Requests : req[u].pc = "insert" => req[u].calm /\ u # r
      BY <1>4, <2>1 DEF GoesOn
    <3> QED BY <2>3, <3>1 DEF Storing, Ended
  <2>5. Storing'
    BY <1>2, <2>1 DEF Storing
  <2>6. Filled'
    <3>1. owner' # NoOne
      BY <1>1, <2>1
    <3>2. \A s \in 1..MaxVisits : rows[s] # P!NoRow <=> s <= tail
      BY <1>4, <2>4 DEF Filled
    <3>3. \A s \in 1..MaxVisits : s <= tail <=> (s <= tail + 1 /\ s # tail + 1)
      BY <1>1
    <3>4. \A s \in 1..MaxVisits : rows'[s] # P!NoRow <=> s <= tail' /\ (s = tail' => ~Storing')
      BY <2>1, <2>2, <2>5, <3>2, <3>3
    <3>5. \A s \in 1..MaxVisits : Chain(rows[s].cursor, s)' <=> Chain(rows[s].cursor, s)
      BY <2>1 DEF Chain
    <3> QED BY <1>4, <2>1, <3>1, <3>4, <3>5 DEF Filled
  <2>7. \A p \in P!Requests \ {r} : GoesOn(p)'
    <3> SUFFICES ASSUME NEW p \in P!Requests \ {r} PROVE GoesOn(p)'
      OBVIOUS
    <3>1. req'[p] = req[p] /\ ~(req[p].calm /\ req[p].pc \notin Ended) /\ GoesOn(p)
      BY <1>4, <1>5, <2>3
    <3> QED BY <3>1 DEF GoesOn, Ended
  <2>8. GoesOn(r)'
    <3>1. req[r].history = IF req[r].base = 0 THEN <<>> ELSE rows[req[r].base].cursor
      BY <1>4, <2>1 DEF GoesOn
    <3> QED BY <1>6, <2>1, <3>1 DEF GoesOn, Same
  <2> QED BY <1>2, <2>6, <2>7, <2>8
<1>8. CASE Stores(r, k)
  <2>1. PICK n, c, h, b : n = P!Number(r) /\ c = P!Cursor(r) /\ h = req[r].history /\ b = req[r].base
    OBVIOUS
  <2>2. /\ req[r].pc = "insert" /\ k.pc = "tell" /\ req[r].calm /\ UNCHANGED <<owner, tail>>
        /\ Same(r, k) /\ rows[n] = P!NoRow /\ rows' = [rows EXCEPT ![n] = [by |-> r, cursor |-> c]]
    BY <1>8, <2>1 DEF Stores
  <2>3. n = tail /\ n = b + 1 /\ n \in 1..MaxVisits /\ b \in Nat /\ h \in Seq(Nat)
    BY <1>1, <1>4, <1>6, <2>1, <2>2, NumbersFit DEF GoesOn, P!Number, Turn
  <2>4. \A u \in P!Requests \ {r} : ~(req[u].calm /\ req[u].pc \notin Ended)
    BY <2>2 DEF CalmInv, BeganAlone, Ended
  <2>5. PICK w : w = [by |-> r, cursor |-> c]
    OBVIOUS
  <2>6. w.by = r /\ w.cursor = c /\ w # P!NoRow /\ \A s \in 1..MaxVisits : rows'[s] = IF s = n THEN w ELSE rows[s]
    <3>1. w.by = r /\ w.cursor = c /\ rows' = [rows EXCEPT ![n] = w]
      BY <2>2, <2>5
    <3>2. P!NoRow.by = 0
      BY DEF P!NoRow
    <3> QED BY <1>1, <3>1, <3>2
  <2>7. \A u \in P!Requests \ {r} : req[u].pc # "insert"
    BY <1>4, <2>4 DEF GoesOn, Ended
  <2>8. Storing /\ ~Storing'
    BY <1>2, <2>2, <2>7 DEF Storing
  <2>9. \A s \in 1..MaxVisits : rows[s] # P!NoRow <=> s < n
    BY <1>1, <1>4, <2>3, <2>8 DEF Filled
  <2>10. \A s \in 1..MaxVisits : rows'[s] # P!NoRow <=> s <= tail' /\ (s = tail' => ~Storing')
    BY <1>1, <2>2, <2>3, <2>6, <2>8, <2>9
  <2>11. Chain(h, b)
    <3>1. h = IF b = 0 THEN <<>> ELSE rows[b].cursor
      BY <1>4, <2>1, <2>2 DEF GoesOn
    <3>2. CASE b = 0
      <4>1. h = <<>> /\ Len(h) = 0
        BY <3>1, <3>2
      <4>2. \A i \in 1..Len(h) : FALSE
        BY <4>1
      <4> QED BY <3>2, <4>1, <4>2 DEF Chain
    <3>3. CASE b # 0
      <4>1. b \in 1..MaxVisits /\ b < n
        BY <1>1, <2>3, <3>3
      <4> QED BY <1>4, <2>9, <3>1, <3>3, <4>1 DEF Filled
    <3> QED BY <3>2, <3>3
  <2>12. Extended(c, r, n)
    BY <1>1, <2>1, <2>3, <2>11, ChainGoesOn
  <2>13. \A i \in 1..Len(c) : c[i] = rows'[n - Len(c) + i].by
    <3> SUFFICES ASSUME NEW i \in 1..Len(c) PROVE c[i] = rows'[n - Len(c) + i].by
      OBVIOUS
    <3>1. CASE i < Len(c) /\ n - Len(c) + i \in 1..n - 1 /\ c[i] = rows[n - Len(c) + i].by
      <4>1. n - Len(c) + i \in 1..MaxVisits /\ n - Len(c) + i # n
        BY <1>1, <2>3, <3>1
      <4> QED BY <2>6, <3>1, <4>1
    <3>2. CASE i = Len(c) /\ n - Len(c) + i = n /\ c[i] = r
      BY <2>3, <2>6, <3>2
    <3> QED BY <2>12, <3>1, <3>2 DEF Extended
  <2>14. \A s \in 1..MaxVisits : rows'[s] # P!NoRow => Chain(rows[s].cursor, s)'
    <3> SUFFICES ASSUME NEW s \in 1..MaxVisits, rows'[s] # P!NoRow
                 PROVE  Chain(rows[s].cursor, s)'
      OBVIOUS
    <3>1. CASE s = n
      <4>1. rows'[s].cursor = c
        BY <2>6, <3>1
      <4> QED BY <2>12, <2>13, <3>1, <4>1 DEF Chain, Extended
    <3>2. CASE s # n
      <4>1. PICK g : g = rows[s].cursor
        OBVIOUS
      <4>2. rows'[s].cursor = g /\ rows[s] # P!NoRow /\ s < n /\ g \in Seq(Nat)
        BY <1>1, <2>6, <2>9, <3>2, <4>1 DEF Stored
      <4>3. Len(g) <= s /\ (Len(g) = s \/ Len(g) >= MaxTurnsKept) /\ \A i \in 1..Len(g) : g[i] = rows[s - Len(g) + i].by
        BY <1>4, <4>1, <4>2 DEF Filled, Chain
      <4>4. \A i \in 1..Len(g) : s - Len(g) + i \in 1..MaxVisits /\ s - Len(g) + i # n
        <5>1. PICK l : l = Len(g)
          OBVIOUS
        <5>2. l \in Nat /\ l <= s /\ s < n /\ n \in 1..MaxVisits /\ s \in 1..MaxVisits
          BY <2>3, <4>2, <4>3, <5>1
        <5> QED BY <1>1, <5>1, <5>2
      <4>5. \A i \in 1..Len(g) : g[i] = rows'[s - Len(g) + i].by
        BY <2>6, <4>3, <4>4
      <4> QED BY <4>2, <4>3, <4>5 DEF Chain
    <3> QED BY <3>1, <3>2
  <2>15. Filled'
    BY <1>4, <2>2, <2>10, <2>14 DEF Filled
  <2>16. \A p \in P!Requests \ {r} : GoesOn(p)'
    <3> SUFFICES ASSUME NEW p \in P!Requests \ {r} PROVE GoesOn(p)'
      OBVIOUS
    <3>1. req'[p] = req[p] /\ ~(req[p].calm /\ req[p].pc \notin Ended) /\ GoesOn(p)
      BY <1>4, <1>5, <2>4
    <3> QED BY <3>1 DEF GoesOn, Ended
  <2>17. GoesOn(r)'
    BY <1>6, <2>2 DEF GoesOn
  <2> QED BY <1>2, <2>15, <2>16, <2>17
<1>9. CASE ~Claims(r, k) /\ ~Stores(r, k)
  <2>1. UNCHANGED <<owner, tail, rows>> /\ (k.pc = "insert" <=> req[r].pc = "insert")
    BY <1>9 DEF Form, Ends, Stays, Starts, PassesMinute, PassesDay, Passes, ReadsTail, ReadsRow, Goes, Ended
  <2>2. Storing' <=> Storing
    BY <1>2, <2>1 DEF Storing
  <2>3. \A s \in 1..MaxVisits : Chain(rows[s].cursor, s)' <=> Chain(rows[s].cursor, s)
    BY <2>1 DEF Chain
  <2>4. Filled'
    BY <1>4, <2>1, <2>2, <2>3 DEF Filled
  <2>5. \A p \in P!Requests \ {r} : GoesOn(p)'
    BY <1>4, <1>5, <2>1 DEF GoesOn
  <2>6. GoesOn(r)'
    <3>1. GoesOn(r)
      BY <1>4
    <3>2. k.calm = req[r].calm \/ k.pc = "minute"
      BY <1>9 DEF Form, Ends, Stays, Starts, PassesMinute, PassesDay, Passes, ReadsTail, ReadsRow, Goes, Same
    <3>3. k.pc = "insert" => k.calm /\ k.base + 1 = tail
      BY <1>9, <3>1 DEF Form, Ends, Stays, Starts, PassesMinute, PassesDay, Passes, ReadsTail, ReadsRow, Goes, Same, Ended,
         GoesOn, P!Number
    <3>4. k.calm /\ k.pc \in {"row", "run", "claim", "upsert"} => k.base = IF owner = k.visitor THEN tail ELSE 0
      BY <1>1, <1>9, <3>1 DEF Form, Ends, Stays, Starts, PassesMinute, PassesDay, Passes, ReadsTail, ReadsRow, Goes, Same, Ended,
         GoesOn
    <3>5. k.calm /\ k.pc = "upsert" => owner \in {NoOne, k.visitor}
      BY <1>1, <1>9, <3>1 DEF Form, Ends, Stays, Starts, PassesMinute, PassesDay, Passes, ReadsTail, ReadsRow, Goes, Same, Ended,
         GoesOn, P!Matches
    <3>6. k.calm /\ k.pc \in {"run", "claim", "upsert", "insert"} =>
            k.history = IF k.base = 0 THEN <<>> ELSE rows[k.base].cursor
      <4>1. CASE ReadsTail(r, k)
        <5>1. k.pc = "run" => k.base = 0
          BY <4>1 DEF ReadsTail
        <5>2. k.history = <<>> /\ k.pc \in {"run", "row"}
          BY <4>1 DEF ReadsTail, CalmInv, BeganAlone
        <5> QED BY <5>1, <5>2
      <4>2. CASE ReadsRow(r, k)
        <5>1. req[r].base \in 1..MaxVisits
          BY <4>2, NumbersFit DEF ReadsRow
        <5>2. k.base = req[r].base /\ k.base # 0
          BY <1>1, <4>2, <5>1 DEF ReadsRow
        <5> QED BY <4>2, <5>2 DEF ReadsRow
      <4>3. CASE ~ReadsTail(r, k) /\ ~ReadsRow(r, k)
        BY <1>9, <3>1, <4>3 DEF Form, Ends, Stays, Starts, PassesMinute, PassesDay, Passes, Goes, Same, Ended, GoesOn
      <4> QED BY <4>1, <4>2, <4>3
    <3> QED BY <1>6, <2>1, <3>3, <3>4, <3>5, <3>6 DEF GoesOn
  <2> QED BY <1>2, <2>4, <2>5, <2>6
<1> QED BY <1>7, <1>8, <1>9

LEMMA NextKeepsStore ==
  ASSUME P!Setting, TurnInv, CalmInv, StoreInv, [P!Next]_(P!vars)
  PROVE  CalmInv' /\ StoreInv'
<1>0. PublicTypes
  BY DEF TurnInv
<1>1. ASSUME NEW r \in P!Requests, P!Step(r) PROVE CalmInv' /\ StoreInv'
  BY <1>1, StepForm, StepCalm, StepStore
<1>2. ASSUME NEW v \in Visitor, NEW i \in Instance, P!Ask(v, i) PROVE CalmInv' /\ StoreInv'
  <2>1. PICK k : Fresh(k, v, i) /\ Comes(k)
    BY <1>0, <1>2, AskForm
  <2>2. PICK n : n = Len(req) + 1
    OBVIOUS
  <2>3. P!Requests' = P!Requests \cup {n} /\ n \notin P!Requests /\ req'[n] = k /\ \A p \in P!Requests : req'[p] = req[p]
    BY <1>0, <2>1, <2>2, ComesMore
  <2>4. /\ UNCHANGED <<owner, tail, rows, lapse>> /\ ~k.calm /\ k.pc \in {"guard", "refused"} /\ k.history = <<>>
    BY <2>1 DEF Comes, Fresh
  <2>5. CalmInv'
    <3>1. \A r \in P!Requests' : req'[r].pc = "guard" => ~req'[r].calm
      BY <2>3, <2>4 DEF CalmInv, BeganAlone
    <3>2. \A r \in P!Requests' : req'[r].calm => r \in P!Requests /\ req'[r] = req[r]
      BY <2>3, <2>4
    <3>3. \A r, u \in P!Requests' : BeganAlone(r)' /\ BeganAlone(u)' => r = u
      BY <3>2, Zenon DEF CalmInv, BeganAlone
    <3>4. \A r \in P!Requests' : req'[r].pc \in {"guard", "minute", "day", "tail", "row"} => req'[r].history = <<>>
      BY <2>3, <2>4 DEF CalmInv, BeganAlone
    <3> QED BY <3>1, <3>3, <3>4 DEF CalmInv, BeganAlone
  <2>6. Storing' <=> Storing
    BY <2>3, <2>4 DEF Storing
  <2>7. \A s \in 1..MaxVisits : Chain(rows[s].cursor, s)' <=> Chain(rows[s].cursor, s)
    BY <2>4 DEF Chain
  <2>8. Filled => Filled'
    BY <2>4, <2>6, <2>7 DEF Filled
  <2>9. \A p \in P!Requests : GoesOn(p) => GoesOn(p)'
    BY <2>3, <2>4 DEF GoesOn, P!Number
  <2>10. GoesOn(n)'
    BY <2>3, <2>4 DEF GoesOn
  <2> QED BY <2>3, <2>4, <2>5, <2>8, <2>9, <2>10 DEF StoreInv
<1>3. ASSUME NEW i \in Instance, P!Die(i) PROVE CalmInv' /\ StoreInv'
  <2>1. /\ P!Requests' = P!Requests /\ UNCHANGED <<owner, tail, rows>> /\ (lapse => lapse') /\ lapse' \in BOOLEAN
        /\ \A r \in P!Requests : /\ req'[r].visitor = req[r].visitor /\ req'[r].base = req[r].base
                                 /\ req'[r].history = req[r].history /\ req'[r].calm = req[r].calm
                                 /\ \/ req'[r].pc = req[r].pc
                                    \/ req'[r].pc = "over" /\ (req[r].pc = "insert" => lapse')
    BY <1>0, <1>3, DieForm DEF Falls
  <2>2. CalmInv'
    BY <2>1 DEF CalmInv, BeganAlone, Ended
  <2>3. ~lapse' => (Storing' <=> Storing)
    BY <2>1 DEF Storing
  <2>4. \A s \in 1..MaxVisits : Chain(rows[s].cursor, s)' <=> Chain(rows[s].cursor, s)
    BY <2>1 DEF Chain
  <2>5. Filled /\ ~lapse' => Filled'
    BY <2>1, <2>3, <2>4 DEF Filled
  <2>6. \A p \in P!Requests : GoesOn(p) => GoesOn(p)'
    BY <2>1 DEF GoesOn, P!Number
  <2> QED BY <2>1, <2>2, <2>5, <2>6 DEF StoreInv
<1>4. ASSUME P!Tick \/ UNCHANGED P!vars PROVE CalmInv' /\ StoreInv'
  <2>1. UNCHANGED <<owner, tail, rows, req, lapse>>
    BY <1>4 DEF P!Tick, P!vars, P!session, P!history
  <2>2. P!Requests' = P!Requests /\ (Storing' <=> Storing)
    BY <2>1 DEF P!Requests, Storing
  <2>3. CalmInv'
    BY <2>1, <2>2 DEF CalmInv, BeganAlone
  <2>4. \A s \in 1..MaxVisits : Chain(rows[s].cursor, s)' <=> Chain(rows[s].cursor, s)
    BY <2>1 DEF Chain
  <2>5. Filled => Filled'
    BY <2>1, <2>2, <2>4 DEF Filled
  <2>6. \A p \in P!Requests : GoesOn(p) => GoesOn(p)'
    BY <2>1 DEF GoesOn, P!Number
  <2> QED BY <2>1, <2>2, <2>3, <2>5, <2>6 DEF StoreInv
<1> QED BY <1>1, <1>2, <1>3, <1>4 DEF P!Next

LEMMA StoreAlways ==
  ASSUME P!Setting
  PROVE  P!Spec => [](TurnInv /\ CalmInv /\ StoreInv)
<1>1. ASSUME P!Init PROVE TurnInv /\ CalmInv /\ StoreInv
  <2>1. req = <<>> /\ tail = 0
    BY <1>1 DEF P!Init
  <2>2. P!Requests = {}
    BY <2>1 DEF P!Requests
  <2>3. \A s \in 1..MaxVisits : rows[s] = P!NoRow /\ ~(s <= tail)
    BY <1>1, <2>1, Setup DEF P!Init
  <2> QED BY <1>1, <2>1, <2>2, <2>3, StartsTurns DEF CalmInv, BeganAlone, StoreInv, Filled
<1>2. TurnInv /\ CalmInv /\ StoreInv /\ [P!Next]_(P!vars) => (TurnInv /\ CalmInv /\ StoreInv)'
  BY NextKeepsTurns, NextKeepsStore
<1> QED BY <1>1, <1>2, PTL DEF P!Spec

\* A stored turn hands on what is stored before it, all of it or the last turns, unless
\* a turn admitted beside another was saved, or one by half (truncate_to_last_turns).
THEOREM StoredIsHandedOn ==
  ASSUME P!Setting
  PROVE  P!Spec => []P!HistoryIsWhatIsStored
<1>1. TurnInv /\ StoreInv => P!HistoryIsWhatIsStored
  <2> SUFFICES ASSUME TurnInv, StoreInv, ~lapse, NEW s \in DOMAIN rows, rows[s] # P!NoRow,
                      NEW h, h = rows[s].cursor
               PROVE  /\ Len(h) <= s /\ (Len(h) = s \/ Len(h) >= MaxTurnsKept)
                      /\ \A i \in DOMAIN h : h[i] = rows[s - Len(h) + i].by
    BY DEF P!HistoryIsWhatIsStored
  <2>1. s \in 1..MaxVisits /\ h \in Seq(Nat)
    BY DEF TurnInv, PublicTypes, Stored
  <2>2. Chain(h, s)
    <3>1. Filled
      BY DEF StoreInv
    <3> QED BY <2>1, <3>1 DEF Filled
  <2>3. DOMAIN h = 1..Len(h)
    BY <2>1
  <2>4. Len(h) <= s /\ (Len(h) = s \/ Len(h) >= MaxTurnsKept) /\ \A i \in 1..Len(h) : h[i] = rows[s - Len(h) + i].by
    BY <2>2 DEF Chain
  <2> QED BY <2>3, <2>4
<1> QED BY <1>1, StoreAlways, PTL

\* All of it at once, for the session of a visitor (rate_limit_public.py and
\* store_public.py): the guard, the limits, the turns that were seen done, and what is
\* handed on.
THEOREM VisitsAlwaysHold ==
  ASSUME P!Setting
  PROVE  P!Spec => []VisitsHold
<1>1. P!Spec => [](P!GuardHolds /\ P!LimitsHold)
  BY OneTurnAtATime, LimitsAreKept, PTL
<1>2. P!Spec => [](P!DoneIsStored /\ P!HistoryIsOwn /\ P!HistoryIsWhatIsStored)
  BY DoneTurnsStay, HistoriesAreOwn, StoredIsHandedOn, PTL
<1>3. ASSUME P!GuardHolds, P!LimitsHold, P!DoneIsStored, P!HistoryIsOwn, P!HistoryIsWhatIsStored
      PROVE  VisitsHold
  BY <1>3 DEF VisitsHold
<1> QED BY <1>1, <1>2, <1>3, PTL

-----------------------------------------------------------------------------
(* A member's conversation                                                 *)

\* A turn of a history, a stored turn, and one that is served.
Exchange == [by : Nat, tools : BOOLEAN, prompt : Specialist \cup {"none"}]
Entry    == [by : Nat, cursor : Seq(Exchange)]
Progress == [pc : G!Pcs, base : Nat, history : Seq(Exchange), calm : BOOLEAN, reverts : Nat]

TalkTypes ==
  /\ tail \in Nat /\ rows \in [1..MaxTurns -> Entry]
  /\ agent \in Seq(Specialist \cup {G!Router}) /\ turn \in Seq(Progress) /\ Len(turn) = Len(agent)
  /\ Len(agent) <= MaxTurns /\ client \in 0..Len(agent) /\ undo \in Nat
  /\ shown \subseteq G!Asked /\ lapse \in BOOLEAN /\ reverts \in Nat

\* The turns that have come so far as to save bound the numbers, and those that the
\* member saw done are over.
Before == {"tail", "row", "run", "upsert"}
Beyond == {u \in G!Asked : turn[u].pc \notin Before}

TalkNumbers ==
  /\ tail <= Cardinality(Beyond) /\ undo <= Cardinality(Beyond)
  /\ \A t \in G!Asked : /\ turn[t].base <= Cardinality(Beyond)
                        /\ turn[t].pc \in {"insert", "tell"} \/ t \in shown => G!Number(t) <= Cardinality(Beyond)
                        /\ turn[t].pc = "row" => turn[t].base > 0
                        /\ t \in shown => turn[t].pc = "over"
                        /\ \A i \in 1..Len(turn[t].history) : turn[t].history[i].by \in G!Asked
  /\ \A s \in 1..MaxTurns : /\ rows[s].by \in 0..Len(agent)
                            /\ \A i \in 1..Len(rows[s].cursor) : rows[s].cursor[i].by \in G!Asked

\* A turn that the member saw done, or waits to be told of, has its row.
TalkDone ==
  \A t \in G!Asked : t \in shown \/ (client = t /\ turn[t].pc = "tell") => rows[G!Number(t)].by = t

TalkInv == TalkTypes /\ TalkNumbers /\ TalkDone

-----------------------------------------------------------------------------
LEMMA TalkSetup ==
  ASSUME G!Setting, TalkTypes
  PROVE  /\ MaxTurnsKept \in Nat /\ MaxTurns \in Nat
         /\ Len(agent) \in Nat /\ G!Asked = 1..Len(agent) /\ DOMAIN turn = G!Asked
         /\ \A t \in G!Asked : turn[t] \in Progress /\ agent[t] \in Specialist \cup {G!Router}
<1>1. agent \in Seq(Specialist \cup {G!Router}) /\ turn \in Seq(Progress) /\ Len(turn) = Len(agent)
  BY DEF TalkTypes
<1> QED BY <1>1 DEF G!Setting, G!Asked

\* Numbers are those of rows.
LEMMA TalkFits ==
  ASSUME G!Setting, TalkInv, NEW t \in G!Asked
  PROVE  /\ turn[t].base \in Nat /\ turn[t].base <= MaxTurns /\ tail <= MaxTurns /\ undo <= MaxTurns
         /\ turn[t].pc = "row" => turn[t].base \in 1..MaxTurns
         /\ turn[t].pc \in {"insert", "tell"} \/ t \in shown => G!Number(t) \in 1..MaxTurns
<1>1. TalkTypes /\ Len(agent) \in Nat /\ G!Asked = 1..Len(agent) /\ MaxTurns \in Nat /\ turn[t] \in Progress
  BY TalkSetup DEF TalkInv
<1>2. Cardinality(Beyond) \in Nat /\ Cardinality(Beyond) <= Len(agent)
  BY <1>1, Few DEF Beyond
<1>3. Len(agent) <= MaxTurns /\ tail \in Nat /\ undo \in Nat /\ turn[t].base \in Nat
  BY <1>1 DEF TalkTypes, Progress
<1>4. /\ tail <= Cardinality(Beyond) /\ undo <= Cardinality(Beyond) /\ turn[t].base <= Cardinality(Beyond)
      /\ turn[t].pc = "row" => turn[t].base > 0
      /\ turn[t].pc \in {"insert", "tell"} \/ t \in shown => turn[t].base + 1 <= Cardinality(Beyond)
  BY DEF TalkInv, TalkNumbers, G!Number
<1> QED BY <1>1, <1>2, <1>3, <1>4 DEF G!Number

\* What a turn hands on: itself after the last n turns that it has read.
Hands(h, c, t, n) ==
  /\ n \in 0..Len(h) /\ (n = Len(h) \/ (n = MaxTurnsKept /\ n < Len(h)))
  /\ c \in Seq(Exchange) /\ Len(c) = n + 1 /\ c[n + 1].by = t /\ c[n + 1].tools = (agent[t] # G!Router)
  /\ \A i \in 1..n : c[i].by = h[Len(h) - n + i].by /\ c[i].tools = h[Len(h) - n + i].tools

LEMMA Replaces ==
  ASSUME NEW h \in Seq(Exchange), NEW a \in Specialist, NEW g, g = G!ReplaceSystemPrompt(h, a)
  PROVE  /\ g \in Seq(Exchange) /\ Len(g) = Len(h)
         /\ \A i \in 1..Len(h) : g[i].by = h[i].by /\ g[i].tools = h[i].tools
<1>1. DOMAIN h = 1..Len(h) /\ Len(h) \in Nat /\ \A i \in 1..Len(h) : h[i] \in Exchange
  OBVIOUS
<1>2. g = [i \in 1..Len(h) |-> [h[i] EXCEPT !.prompt = IF i = 1 THEN a ELSE "none"]]
  BY <1>1 DEF G!ReplaceSystemPrompt
<1>3. \A i \in 1..Len(h) : [h[i] EXCEPT !.prompt = IF i = 1 THEN a ELSE "none"] \in Exchange
  BY <1>1 DEF Exchange
<1>4. g \in [1..Len(h) -> Exchange]
  BY <1>2, <1>3
<1>5. g \in Seq(Exchange) /\ Len(g) = Len(h)
  BY <1>1, <1>4, SeqDef, LenProperties
<1>6. \A i \in 1..Len(h) : g[i].by = h[i].by /\ g[i].tools = h[i].tools
  BY <1>1, <1>2 DEF Exchange
<1> QED BY <1>5, <1>6

LEMMA Truncates ==
  ASSUME G!Setting, NEW h \in Seq(Exchange), NEW g, g = G!Truncate(h)
  PROVE  /\ g \in Seq(Exchange) /\ Len(g) \in 0..Len(h)
         /\ Len(g) = Len(h) \/ (Len(g) = MaxTurnsKept /\ Len(g) < Len(h))
         /\ \A i \in 1..Len(g) : g[i] = h[Len(h) - Len(g) + i]
<1>1. PICK l, m : l = Len(h) /\ m = MaxTurnsKept
  OBVIOUS
<1>2. l \in Nat /\ m \in Nat
  BY <1>1 DEF G!Setting
<1>3. CASE l <= m
  <2>1. g = h
    BY <1>1, <1>3 DEF G!Truncate
  <2>2. \A i \in 1..l : l - l + i = i
    BY <1>2
  <2> QED BY <1>1, <1>2, <2>1, <2>2
<1>4. CASE ~(l <= m)
  <2>1. PICK a : a = l - m + 1
    OBVIOUS
  <2>2. g = SubSeq(h, a, l)
    BY <1>1, <1>4, <2>1 DEF G!Truncate
  <2>3. a \in Int /\ l \in Int /\ l - a + 1 = m /\ \A i \in a..l : i \in 1..l
    BY <1>2, <1>4, <2>1
  <2>4. \A i \in a..l : h[i] \in Exchange
    BY <1>1, <2>3
  <2>5. /\ g \in Seq(Exchange) /\ Len(g) = (IF a <= l THEN l - a + 1 ELSE 0)
        /\ \A i \in 1..l - a + 1 : g[i] = h[a + i - 1]
    BY <2>2, <2>3, <2>4, SubSeqProperties
  <2>6. Len(g) = m /\ \A i \in 1..m : g[i] = h[a + i - 1]
    <3>1. (IF a <= l THEN l - a + 1 ELSE 0) = m
      BY <1>2, <1>4, <2>1
    <3>2. Len(g) = m
      BY <2>5, <3>1
    <3>3. \A i \in 1..l - a + 1 : g[i] = h[a + i - 1]
      BY <2>5
    <3>4. \A i \in 1..m : g[i] = h[a + i - 1]
      BY <2>3, <3>3
    <3> QED BY <3>2, <3>4
  <2>7. \A i \in 1..m : l - m + i = a + i - 1
    BY <1>2, <2>1
  <2>8. \A i \in 1..m : g[i] = h[l - m + i]
    BY <2>6, <2>7
  <2>9. m < l /\ m \in 0..l
    BY <1>2, <1>4
  <2> QED BY <1>1, <2>5, <2>6, <2>8, <2>9
<1> QED BY <1>3, <1>4

LEMMA Handing ==
  ASSUME G!Setting, TalkTypes, NEW t \in G!Asked, NEW h \in Seq(Exchange), NEW c, c = G!Cursor(t, h)
  PROVE  \E n \in 0..Len(h) : Hands(h, c, t, n)
<1>1. agent[t] \in Specialist \cup {G!Router} /\ t \in Nat
  BY TalkSetup
<1>2. PICK e : e = G!NewTurn(t, h)
  OBVIOUS
<1>3. e \in Exchange /\ e.by = t /\ e.tools = (agent[t] # G!Router)
  <2>1. e = [by |-> t, tools |-> agent[t] # G!Router,
             prompt |-> IF agent[t] # G!Router /\ h = <<>> THEN agent[t] ELSE "none"]
    BY <1>2 DEF G!NewTurn
  <2>2. (agent[t] # G!Router) \in BOOLEAN
    OBVIOUS
  <2> QED BY <1>1, <2>1, <2>2 DEF Exchange
<1>4. ASSUME NEW g \in Seq(Exchange), c = Append(g, e), Len(g) \in 0..Len(h),
             Len(g) = Len(h) \/ (Len(g) = MaxTurnsKept /\ Len(g) < Len(h)),
             \A i \in 1..Len(g) : g[i].by = h[Len(h) - Len(g) + i].by /\ g[i].tools = h[Len(h) - Len(g) + i].tools
      PROVE  Hands(h, c, t, Len(g))
  <2>1. c \in Seq(Exchange) /\ Len(c) = Len(g) + 1 /\ c[Len(g) + 1] = e /\ \A i \in 1..Len(g) : c[i] = g[i]
    BY <1>3, <1>4
  <2> QED BY <1>3, <1>4, <2>1 DEF Hands
<1>5. CASE agent[t] = G!Router
  <2>1. c = Append(h, e)
    BY <1>2, <1>5 DEF G!Cursor
  <2>2. Len(h) \in Nat
    OBVIOUS
  <2>3. \A i \in 1..Len(h) : Len(h) - Len(h) + i = i
    BY <2>2
  <2> QED BY <1>4, <2>1, <2>2, <2>3
<1>6. CASE agent[t] # G!Router
  <2>1. PICK f, g : f = G!ReplaceSystemPrompt(h, agent[t]) /\ g = G!Truncate(f)
    OBVIOUS
  <2>2. c = Append(g, e)
    BY <1>2, <1>6, <2>1 DEF G!Cursor, G!StoragePrior
  <2>3. f \in Seq(Exchange) /\ Len(f) = Len(h) /\ \A i \in 1..Len(h) : f[i].by = h[i].by /\ f[i].tools = h[i].tools
    BY <1>1, <1>6, <2>1, Replaces
  <2>4. /\ g \in Seq(Exchange) /\ Len(g) \in 0..Len(f)
        /\ Len(g) = Len(f) \/ (Len(g) = MaxTurnsKept /\ Len(g) < Len(f))
        /\ \A i \in 1..Len(g) : g[i] = f[Len(f) - Len(g) + i]
    BY <2>1, <2>3, Truncates
  <2>5. \A i \in 1..Len(g) : Len(h) - Len(g) + i \in 1..Len(h)
    <3>1. PICK l, m : l = Len(h) /\ m = Len(g)
      OBVIOUS
    <3>2. l \in Nat /\ m \in 0..l
      BY <2>3, <2>4, <3>1
    <3>3. \A i \in 1..m : l - m + i \in 1..l
      BY <3>2
    <3> QED BY <3>1, <3>3
  <2>6. \A i \in 1..Len(g) : g[i].by = h[Len(h) - Len(g) + i].by /\ g[i].tools = h[Len(h) - Len(g) + i].tools
    BY <2>3, <2>4, <2>5
  <2> QED BY <1>4, <2>2, <2>3, <2>4, <2>6
<1> QED BY <1>5, <1>6

-----------------------------------------------------------------------------
\* What the row b holds for the turn that comes after it.
Carried(b) == IF b = 0 THEN <<>> ELSE rows[b].cursor

\* What a turn that nothing overlaps has read.
Reads(k) ==
  /\ k.pc = "tail" => k.history = <<>>
  /\ k.pc \in {"row", "run", "upsert"} => k.base = tail
  /\ k.pc \in {"run", "upsert"} => k.history = Carried(k.base)

\* A turn reads on, runs or ends.
Advances(t, k) ==
  /\ turn' = [turn EXCEPT ![t] = k] /\ k \in Progress
  /\ k.calm = turn[t].calm /\ k.reverts = turn[t].reverts
  /\ UNCHANGED <<tail, rows, agent, undo, shown, reverts>>
  /\ client' = client \/ client' = 0
  /\ (lapse => lapse') /\ lapse' \in BOOLEAN
  /\ turn[t].pc = "insert" => lapse'
  /\ k.pc \in {"row", "run", "upsert", "over"}
  /\ turn[t].pc \in Before \/ k.pc = "over"
  /\ k.pc = "over" => k.base = turn[t].base
  /\ k.base \in {turn[t].base, tail}
  /\ k.pc = "row" => k.base > 0
  /\ k.history = turn[t].history \/ (turn[t].pc = "row" /\ k.history = rows[turn[t].base].cursor)
  /\ Reads(turn[t]) => Reads(k)

\* It stores its row, or the member who waits for it sees it done.
Keeps(t) ==
  /\ G!At(t, {"insert"}) /\ rows[G!Number(t)] = G!NoRow
  /\ rows' = [rows EXCEPT ![G!Number(t)] = [by |-> t, cursor |-> G!Cursor(t, turn[t].history)]]
  /\ \E to \in {"over", "tell"} : turn' = [turn EXCEPT ![t].pc = to]
  /\ lapse' = (lapse \/ G!Late(t))
  /\ UNCHANGED <<tail, agent, client, undo, shown, reverts>>

Sees(t) ==
  /\ G!At(t, {"tell"}) /\ client = t /\ client' = 0
  /\ turn' = [turn EXCEPT ![t].pc = "over"] /\ shown' = shown \cup {t}
  /\ UNCHANGED <<tail, rows, agent, undo, lapse, reverts>>

\* The member stops waiting, or the tail moves back.
Resets ==
  /\ UNCHANGED <<rows, agent, turn, shown, reverts>>
  /\ client' = client \/ client' = 0
  /\ (lapse => lapse') /\ lapse' \in BOOLEAN
  /\ \/ UNCHANGED <<tail, undo>>
     \/ undo # 0 /\ undo' = 0 /\ (tail' = undo - 1 \/ (tail' = tail /\ lapse'))

Moves(t) == \E k : Advances(t, k)
Step(t)  == Moves(t) \/ G!Upsert(t) \/ Keeps(t) \/ Sees(t)

LEMMA EndsMoves ==
  ASSUME G!Setting, TalkInv, NEW t \in G!Asked, G!GoTo(t, "over"),
         UNCHANGED <<tail, rows, agent, undo, shown, reverts>>,
         client' = client \/ client' = 0, lapse => lapse', lapse' \in BOOLEAN,
         turn[t].pc = "insert" => lapse'
  PROVE  Moves(t)
<1>1. turn[t] \in Progress
  BY TalkSetup DEF TalkInv
<1>2. PICK k : k = [turn[t] EXCEPT !.pc = "over"]
  OBVIOUS
<1>3. /\ k \in Progress /\ k.pc = "over" /\ k.base = turn[t].base /\ k.history = turn[t].history
      /\ k.calm = turn[t].calm /\ k.reverts = turn[t].reverts
  BY <1>1, <1>2 DEF Progress, G!Pcs
<1>4. turn' = [turn EXCEPT ![t] = k]
  BY <1>2 DEF G!GoTo
<1>5. Reads(k)
  BY <1>3 DEF Reads
<1>6. Advances(t, k)
  BY <1>3, <1>4, <1>5 DEF Advances
<1> QED BY <1>6 DEF Moves

LEMMA StepIs ==
  ASSUME G!Setting, TalkInv, NEW t \in G!Asked, G!TurnStep(t)
  PROVE  Step(t)
<1>1. turn[t] \in Progress /\ TalkTypes /\ tail \in Nat /\ lapse \in BOOLEAN /\ MaxTurns \in Nat
  BY TalkSetup DEF TalkInv, TalkTypes
<1>2. CASE G!ReadTail(t)
  <2>1. PICK k : k = [turn[t] EXCEPT !.base = tail, !.pc = IF tail = 0 THEN "run" ELSE "row"]
    OBVIOUS
  <2>2. /\ k \in Progress /\ k.pc = (IF tail = 0 THEN "run" ELSE "row") /\ k.base = tail
        /\ k.history = turn[t].history /\ k.calm = turn[t].calm /\ k.reverts = turn[t].reverts
    BY <1>1, <2>1 DEF Progress, G!Pcs
  <2>3. turn' = [turn EXCEPT ![t] = k] /\ turn[t].pc = "tail"
    BY <1>2, <2>1 DEF G!ReadTail, G!At
  <2>4. Reads(turn[t]) => Reads(k)
    BY <2>2, <2>3 DEF Reads, Carried
  <2>5. k.pc \in {"row", "run"} /\ (k.pc = "row" => k.base > 0)
    BY <1>1, <2>2
  <2>6. Advances(t, k)
    BY <1>1, <1>2, <2>2, <2>3, <2>4, <2>5 DEF G!ReadTail, Advances, Before
  <2> QED BY <2>6 DEF Moves, Step
<1>3. CASE G!ReadRow(t)
  <2>1. PICK k : k = [turn[t] EXCEPT !.history = rows[turn[t].base].cursor, !.pc = "run"]
    OBVIOUS
  <2>2. turn[t].pc = "row" /\ turn[t].base \in 1..MaxTurns
    BY <1>3, TalkFits DEF G!ReadRow, G!At
  <2>3. rows[turn[t].base].cursor \in Seq(Exchange)
    BY <1>1, <2>2 DEF TalkTypes, Entry
  <2>4. /\ k \in Progress /\ k.pc = "run" /\ k.base = turn[t].base
        /\ k.history = rows[turn[t].base].cursor /\ k.calm = turn[t].calm /\ k.reverts = turn[t].reverts
    BY <1>1, <2>1, <2>3 DEF Progress, G!Pcs
  <2>5. turn' = [turn EXCEPT ![t] = k]
    BY <1>3, <2>1 DEF G!ReadRow
  <2>6. Reads(turn[t]) => Reads(k)
    BY <2>2, <2>4, <1>1 DEF Reads, Carried
  <2>7. Advances(t, k)
    BY <1>1, <1>3, <2>2, <2>4, <2>5, <2>6 DEF G!ReadRow, Advances, Before
  <2> QED BY <2>7 DEF Moves, Step
<1>4. CASE G!Run(t)
  <2>1. PICK k : k = [turn[t] EXCEPT !.pc = "upsert"]
    OBVIOUS
  <2>2. /\ k \in Progress /\ k.pc = "upsert" /\ k.base = turn[t].base
        /\ k.history = turn[t].history /\ k.calm = turn[t].calm /\ k.reverts = turn[t].reverts
    BY <1>1, <2>1 DEF Progress, G!Pcs
  <2>3. turn' = [turn EXCEPT ![t] = k] /\ turn[t].pc = "run"
    BY <1>4, <2>1 DEF G!Run, G!GoTo, G!At
  <2>4. Reads(turn[t]) => Reads(k)
    BY <2>2, <2>3 DEF Reads, Carried
  <2>5. client' = client \/ client' = 0
    BY <1>4 DEF G!Run, G!Told
  <2>6. Advances(t, k)
    BY <1>1, <1>4, <2>2, <2>3, <2>4, <2>5 DEF G!Run, Advances, Before
  <2> QED BY <2>6 DEF Moves, Step
<1>5. CASE G!Upsert(t)
  BY <1>5 DEF Step
<1>6. CASE G!Insert(t)
  <2>1. CASE rows[G!Number(t)] = G!NoRow
    <3>1. PICK to : to \in {"over", "tell"} /\ turn' = [turn EXCEPT ![t].pc = to]
      BY <1>6, <2>1 DEF G!Insert, G!GoTo
    <3> QED BY <1>6, <2>1, <3>1 DEF G!Insert, Keeps, Step
  <2>2. CASE rows[G!Number(t)] # G!NoRow
    <3>1. G!GoTo(t, "over") /\ G!Told(t) /\ lapse' = TRUE /\ UNCHANGED <<tail, rows, agent, undo, shown, reverts>>
      BY <1>6, <2>2 DEF G!Insert
    <3>2. client' = client \/ client' = 0
      BY <3>1 DEF G!Told
    <3> QED BY <3>1, <3>2, EndsMoves DEF Step
  <2> QED BY <2>1, <2>2
<1>7. CASE G!Tell(t)
  <2>1. CASE client = t
    BY <1>7, <2>1 DEF G!Tell, G!Told, G!GoTo, Sees, Step
  <2>2. CASE client # t
    BY <1>1, <1>7, <2>2, EndsMoves DEF G!Tell, G!Told, G!At, Step
  <2> QED BY <2>1, <2>2
<1>8. CASE G!Fail(t)
  <2>1. client' = client \/ client' = 0
    BY <1>8 DEF G!Fail, G!Told
  <2>2. lapse' = (lapse \/ turn[t].pc = "insert") /\ G!GoTo(t, "over")
    BY <1>8 DEF G!Fail, G!At
  <2>3. (lapse => lapse') /\ lapse' \in BOOLEAN /\ (turn[t].pc = "insert" => lapse')
    BY <1>1, <2>2
  <2>4. UNCHANGED <<tail, rows, agent, undo, shown, reverts>>
    BY <1>8 DEF G!Fail
  <2>5. Moves(t)
    BY <2>1, <2>2, <2>3, <2>4, EndsMoves
  <2> QED BY <2>5 DEF Step
<1> QED BY <1>2, <1>3, <1>4, <1>5, <1>6, <1>7, <1>8 DEF G!TurnStep

LEMMA StopIs ==
  ASSUME G!Setting, TalkInv, G!Stop
  PROVE  Resets \/ \E t \in G!Asked : Step(t)
<1>1. TalkTypes /\ client \in G!Asked /\ lapse \in BOOLEAN
  <2>1. client # 0 /\ client \in 0..Len(agent) /\ G!Asked = 1..Len(agent) /\ Len(agent) \in Nat /\ TalkTypes
    BY TalkSetup DEF G!Stop, TalkInv, TalkTypes
  <2> QED BY <2>1 DEF TalkTypes
<1>2. CASE UNCHANGED turn
  BY <1>1, <1>2 DEF G!Stop, Resets
<1>3. CASE ~G!At(client, {"insert"}) /\ G!GoTo(client, "over")
  <2>1. turn[client].pc # "insert" /\ client' = 0 /\ UNCHANGED <<tail, rows, agent, undo, shown, lapse, reverts>>
    BY <1>1, <1>3 DEF G!Stop, G!At
  <2>2. Moves(client)
    BY <1>1, <1>3, <2>1, EndsMoves
  <2> QED BY <1>1, <2>2 DEF Step
<1> QED BY <1>2, <1>3 DEF G!Stop

LEMMA RevertTailIs ==
  ASSUME TalkInv, G!RevertTail
  PROVE  Resets
<1>1. lapse \in BOOLEAN
  BY DEF TalkInv, TalkTypes
<1>2. UNCHANGED <<rows, agent, turn, client, shown, reverts>> /\ undo # 0 /\ undo' = 0
  BY DEF G!RevertTail
<1>3. CASE tail' = undo - 1 /\ UNCHANGED <<lapse, happened>>
  BY <1>1, <1>2, <1>3 DEF Resets
<1>4. CASE lapse' = TRUE /\ UNCHANGED tail
  BY <1>2, <1>4 DEF Resets
<1> QED BY <1>3, <1>4 DEF G!RevertTail
-----------------------------------------------------------------------------
\* When a turn goes on, the others stay, and none goes back before its number.
LEMMA Moved ==
  ASSUME G!Setting, TalkInv, NEW t \in G!Asked, NEW k \in Progress, turn' = [turn EXCEPT ![t] = k],
         UNCHANGED agent, turn[t].pc \in Before \/ k.pc \notin Before
  PROVE  /\ turn' \in Seq(Progress) /\ Len(turn') = Len(turn) /\ G!Asked' = G!Asked
         /\ turn'[t] = k /\ \A u \in G!Asked : u # t => turn'[u] = turn[u]
         /\ Cardinality(Beyond) \in Nat /\ Cardinality(Beyond') \in Nat
         /\ Cardinality(Beyond) <= Cardinality(Beyond')
         /\ (turn[t].pc \in Before /\ k.pc \notin Before) => Cardinality(Beyond) < Cardinality(Beyond')
<1>1. turn \in Seq(Progress) /\ G!Asked = 1..Len(turn) /\ G!Asked = 1..Len(agent) /\ Len(agent) \in Nat
  BY TalkSetup DEF TalkInv, TalkTypes
<1>2. turn' \in Seq(Progress) /\ Len(turn') = Len(turn) /\ turn'[t] = k
      /\ \A u \in G!Asked : u # t => turn'[u] = turn[u]
  BY <1>1, ExceptSeq
<1>3. G!Asked' = G!Asked
  BY DEF G!Asked
<1>4. Beyond \subseteq G!Asked /\ Beyond' \subseteq G!Asked
  BY <1>3 DEF Beyond
<1>5. Beyond \subseteq Beyond'
  BY <1>2, <1>3 DEF Beyond
<1>6. PICK c, d : c = Cardinality(Beyond) /\ d = Cardinality(Beyond')
  OBVIOUS
<1>7. PICK B, D : B = Beyond /\ D = Beyond'
  OBVIOUS
<1>8. IsFiniteSet(B) /\ IsFiniteSet(D) /\ c = Cardinality(B) /\ d = Cardinality(D) /\ c \in Nat /\ d \in Nat
  BY <1>1, <1>4, <1>6, <1>7, Few
<1>9. c <= d
  BY <1>5, <1>7, <1>8, FS_Subset
<1>10. ASSUME turn[t].pc \in Before, k.pc \notin Before
       PROVE  c < d
  <2>1. t \in D /\ t \notin B
    BY <1>2, <1>3, <1>7, <1>10 DEF Beyond
  <2>2. B # D
    BY <2>1
  <2>3. Cardinality(B) # Cardinality(D)
    BY <1>5, <1>7, <1>8, <2>2, FS_Subset
  <2> QED BY <1>8, <1>9, <2>3
<1> QED BY <1>2, <1>3, <1>6, <1>8, <1>9, <1>10

LEMMA MovesTalk ==
  ASSUME G!Setting, TalkInv, NEW t \in G!Asked, Moves(t)
  PROVE  TalkInv'
<1>1. PICK k : Advances(t, k)
  BY DEF Moves
<1>2. /\ k \in Progress /\ turn' = [turn EXCEPT ![t] = k]
      /\ turn[t].pc \in Before \/ k.pc = "over"
      /\ UNCHANGED <<tail, rows, agent, undo, shown, reverts>>
      /\ client' = client \/ client' = 0
      /\ lapse' \in BOOLEAN /\ k.pc \in {"row", "run", "upsert", "over"}
      /\ k.pc = "over" => k.base = turn[t].base
      /\ k.base \in {turn[t].base, tail}
      /\ k.pc = "row" => k.base > 0
      /\ k.history = turn[t].history \/ (turn[t].pc = "row" /\ k.history = rows[turn[t].base].cursor)
  BY <1>1 DEF Advances
<1>3. turn[t].pc \in Before \/ k.pc \notin Before
  BY <1>2 DEF Before
<1>4. /\ turn' \in Seq(Progress) /\ Len(turn') = Len(turn) /\ G!Asked' = G!Asked
      /\ turn'[t] = k /\ \A u \in G!Asked : u # t => turn'[u] = turn[u]
      /\ Cardinality(Beyond) \in Nat /\ Cardinality(Beyond') \in Nat
      /\ Cardinality(Beyond) <= Cardinality(Beyond')
  BY <1>2, <1>3, Moved
<1>5. TalkTypes /\ TalkNumbers /\ TalkDone /\ Len(agent) \in Nat
  BY TalkSetup DEF TalkInv
<1>6. TalkTypes'
  BY <1>2, <1>4, <1>5 DEF TalkTypes
<1>7. PICK c, d : c = Cardinality(Beyond) /\ d = Cardinality(Beyond') /\ c \in Nat /\ d \in Nat /\ c <= d
  BY <1>4
<1>8. tail \in Nat /\ undo \in Nat /\ \A u \in G!Asked : turn[u] \in Progress /\ turn[u].base \in Nat
  BY <1>5, TalkSetup DEF TalkTypes, Progress
<1>9. tail <= d /\ undo <= d /\ tail' = tail /\ undo' = undo
  BY <1>2, <1>5, <1>7, <1>8 DEF TalkNumbers
<1>10. ASSUME NEW u \in G!Asked
       PROVE  /\ turn'[u].base <= d
              /\ turn'[u].pc \in {"insert", "tell"} \/ u \in shown => turn'[u].base + 1 <= d
              /\ turn'[u].pc = "row" => turn'[u].base > 0
              /\ u \in shown => turn'[u].pc = "over"
              /\ \A i \in 1..Len(turn'[u].history) : turn'[u].history[i].by \in G!Asked
  <2>1. /\ turn[u].base <= c
        /\ turn[u].pc \in {"insert", "tell"} \/ u \in shown => turn[u].base + 1 <= c
        /\ turn[u].pc = "row" => turn[u].base > 0
        /\ u \in shown => turn[u].pc = "over"
        /\ \A i \in 1..Len(turn[u].history) : turn[u].history[i].by \in G!Asked
    BY <1>5, <1>7 DEF TalkNumbers, G!Number
  <2>2. CASE u # t
    <3>1. turn'[u] = turn[u]
      BY <1>4, <2>2
    <3>2. turn[u].base \in Nat /\ turn[u].base <= d
      BY <1>7, <1>8, <2>1
    <3>3. turn[u].pc \in {"insert", "tell"} \/ u \in shown => turn[u].base + 1 <= d
      <4>1. turn[u].pc \in {"insert", "tell"} \/ u \in shown => turn[u].base + 1 <= c
        BY <2>1
      <4> QED BY <1>7, <3>2, <4>1
    <3> QED BY <2>1, <3>1, <3>2, <3>3
  <2>3. CASE u = t
    <3>0. turn[u].base \in Nat /\ turn[u].base <= d
      BY <1>7, <1>8, <2>1
    <3>1. turn'[u] = k /\ k.base <= d
      BY <1>2, <1>4, <1>9, <2>3, <3>0
    <3>2. u \in shown => k.pc = "over" /\ k.base = turn[u].base
      BY <1>2, <2>1, <2>3 DEF Before
    <3>3. \A i \in 1..Len(k.history) : k.history[i].by \in G!Asked
      <4>1. CASE k.history = turn[t].history
        BY <4>1, <2>1, <2>3
      <4>2. CASE turn[t].pc = "row" /\ k.history = rows[turn[t].base].cursor
        <5>1. turn[t].base \in 1..MaxTurns
          BY <4>2, TalkFits
        <5> QED BY <4>2, <5>1, <1>5 DEF TalkNumbers
      <4> QED BY <1>2, <4>1, <4>2
    <3>4. u \in shown => k.base + 1 <= d
      <4>1. u \in shown => turn[u].base + 1 <= c
        BY <2>1
      <4> QED BY <1>7, <3>0, <3>2, <4>1
    <3>5. k.pc \notin {"insert", "tell"} /\ (k.pc = "row" => k.base > 0)
      BY <1>2
    <3> QED BY <3>1, <3>2, <3>3, <3>4, <3>5
  <2> QED BY <2>2, <2>3
<1>11. \A s \in 1..MaxTurns : /\ rows[s].by \in 0..Len(agent)
                              /\ \A i \in 1..Len(rows[s].cursor) : rows[s].cursor[i].by \in G!Asked
  BY <1>5 DEF TalkNumbers
<1>12. TalkNumbers'
  BY <1>2, <1>4, <1>7, <1>9, <1>10, <1>11 DEF TalkNumbers, G!Number
<1>13. ASSUME NEW u \in G!Asked, u \in shown' \/ (client' = u /\ turn'[u].pc = "tell")
       PROVE  rows'[turn'[u].base + 1].by = u
  <2>1. u \in Nat /\ u # 0
    BY TalkSetup DEF TalkInv
  <2>2. u \in shown \/ (client = u /\ turn'[u].pc = "tell" /\ u # t)
    BY <1>2, <1>4, <1>13, <2>1
  <2>3. turn'[u].base = turn[u].base
    BY <1>2, <1>4, <1>5, <2>2 DEF TalkNumbers, Before
  <2>4. u \in shown \/ (client = u /\ turn[u].pc = "tell")
    BY <1>4, <2>2
  <2> QED BY <1>2, <1>5, <2>3, <2>4 DEF TalkDone, G!Number
<1>14. TalkDone'
  BY <1>4, <1>13 DEF TalkDone, G!Number
<1> QED BY <1>6, <1>12, <1>14 DEF TalkInv

\* What the numbers of a turn are.
Numbered(u, d) ==
  /\ turn[u].base <= d
  /\ turn[u].pc \in {"insert", "tell"} \/ u \in shown => turn[u].base + 1 <= d
  /\ turn[u].pc = "row" => turn[u].base > 0
  /\ u \in shown => turn[u].pc = "over"
  /\ \A i \in 1..Len(turn[u].history) : turn[u].history[i].by \in G!Asked

Named(s) ==
  /\ rows[s].by \in 0..Len(agent)
  /\ \A i \in 1..Len(rows[s].cursor) : rows[s].cursor[i].by \in G!Asked

LEMMA NumbersAre ==
  TalkNumbers <=> /\ tail <= Cardinality(Beyond) /\ undo <= Cardinality(Beyond)
                  /\ \A u \in G!Asked : Numbered(u, Cardinality(Beyond))
                  /\ \A s \in 1..MaxTurns : Named(s)
BY DEF TalkNumbers, Numbered, Named, G!Number

LEMMA Rises ==
  ASSUME G!Setting, TalkTypes, NEW u \in G!Asked, NEW c \in Nat, NEW d \in Nat, c <= d, Numbered(u, c)
  PROVE  Numbered(u, d)
<1>1. turn[u].base \in Nat
  BY TalkSetup DEF Progress
<1> QED BY <1>1 DEF Numbered

LEMMA UpsertTalk ==
  ASSUME G!Setting, TalkInv, NEW t \in G!Asked, G!Upsert(t)
  PROVE  TalkInv'
<1>1. PICK k : k = [turn[t] EXCEPT !.pc = "insert"]
  OBVIOUS
<1>2. /\ turn[t] \in Progress /\ turn[t].pc = "upsert" /\ tail' = turn[t].base + 1
      /\ turn' = [turn EXCEPT ![t] = k] /\ lapse' = (lapse \/ G!Late(t))
      /\ UNCHANGED <<rows, agent, client, undo, shown, reverts>>
  BY <1>1, TalkSetup DEF TalkInv, G!Upsert, G!GoTo, G!Number, G!At
<1>3. k \in Progress /\ k.pc = "insert" /\ k.base = turn[t].base /\ k.history = turn[t].history
  BY <1>1, <1>2 DEF Progress, G!Pcs
<1>4. /\ turn' \in Seq(Progress) /\ Len(turn') = Len(turn) /\ G!Asked' = G!Asked
      /\ turn'[t] = k /\ \A u \in G!Asked : u # t => turn'[u] = turn[u]
      /\ Cardinality(Beyond) \in Nat /\ Cardinality(Beyond') \in Nat
      /\ Cardinality(Beyond) < Cardinality(Beyond')
  <2>1. turn[t].pc \in Before /\ k.pc \notin Before
    BY <1>2, <1>3 DEF Before
  <2> QED BY <1>2, <1>3, <2>1, Moved
<1>5. TalkTypes /\ TalkNumbers /\ TalkDone
  BY DEF TalkInv
<1>6. PICK c, d : c = Cardinality(Beyond) /\ d = Cardinality(Beyond') /\ c \in Nat /\ d \in Nat /\ c < d
  BY <1>4
<1>7. turn[t].base \in Nat /\ undo \in Nat /\ turn[t].base <= c /\ undo <= c
  BY <1>2, <1>5, <1>6 DEF TalkTypes, Progress, TalkNumbers
<1>8. TalkTypes'
  <2>1. lapse' \in BOOLEAN
    BY <1>2, <1>5 DEF TalkTypes, G!Late
  <2> QED BY <1>2, <1>4, <1>5, <1>7, <2>1 DEF TalkTypes
<1>9. tail' <= d /\ undo' <= d
  BY <1>2, <1>6, <1>7
<1>10. ASSUME NEW u \in G!Asked
       PROVE  Numbered(u, d)'
  <2>1. Numbered(u, c) /\ Numbered(u, d)
    <3>1. Numbered(u, c)
      BY <1>5, <1>6, NumbersAre
    <3>2. c <= d
      BY <1>6
    <3> QED BY <1>5, <1>6, <3>1, <3>2, Rises
  <2>2. CASE u # t
    BY <1>2, <1>4, <2>1, <2>2 DEF Numbered
  <2>3. CASE u = t
    <3>1. turn'[u] = k /\ k.base + 1 <= d /\ k.base <= d /\ u \notin shown
      <4>1. u \notin shown
        BY <1>2, <2>1, <2>3 DEF Numbered
      <4> QED BY <1>3, <1>4, <1>6, <1>7, <2>3, <4>1
    <3> QED BY <1>2, <1>3, <1>4, <2>1, <2>3, <3>1 DEF Numbered
  <2> QED BY <2>2, <2>3
<1>11. \A s \in 1..MaxTurns : Named(s)'
  BY <1>2, <1>4, <1>5, NumbersAre DEF Named
<1>12. TalkNumbers'
  BY <1>4, <1>6, <1>9, <1>10, <1>11 DEF TalkNumbers, Numbered, Named, G!Number
<1>13. ASSUME NEW u \in G!Asked, u \in shown' \/ (client' = u /\ turn'[u].pc = "tell")
       PROVE  rows'[turn'[u].base + 1].by = u
  <2>1. turn'[u].base = turn[u].base /\ (u \in shown \/ (client = u /\ turn[u].pc = "tell"))
    BY <1>2, <1>3, <1>4, <1>13
  <2> QED BY <1>2, <1>5, <2>1 DEF TalkDone, G!Number
<1>14. TalkDone'
  BY <1>4, <1>13 DEF TalkDone, G!Number
<1> QED BY <1>8, <1>12, <1>14 DEF TalkInv

LEMMA KeepsTalk ==
  ASSUME G!Setting, TalkInv, NEW t \in G!Asked, Keeps(t)
  PROVE  TalkInv'
<1>1. PICK to \in {"over", "tell"} : turn' = [turn EXCEPT ![t].pc = to]
  BY DEF Keeps
<1>2. PICK k, n, h, e : /\ k = [turn[t] EXCEPT !.pc = to] /\ n = G!Number(t)
                        /\ h = G!Cursor(t, turn[t].history) /\ e = [by |-> t, cursor |-> h]
  OBVIOUS
<1>3. /\ turn[t] \in Progress /\ turn[t].pc = "insert" /\ n = turn[t].base + 1 /\ n \in 1..MaxTurns
      /\ rows[n] = G!NoRow /\ rows' = [rows EXCEPT ![n] = e]
      /\ turn' = [turn EXCEPT ![t] = k] /\ lapse' = (lapse \/ G!Late(t))
      /\ UNCHANGED <<tail, agent, client, undo, shown, reverts>>
  BY <1>1, <1>2, TalkSetup, TalkFits DEF TalkInv, Keeps, G!GoTo, G!Number, G!At
<1>4. k \in Progress /\ k.pc = to /\ k.base = turn[t].base /\ k.history = turn[t].history
  BY <1>1, <1>2, <1>3 DEF Progress, G!Pcs
<1>5. /\ turn' \in Seq(Progress) /\ Len(turn') = Len(turn) /\ G!Asked' = G!Asked
      /\ turn'[t] = k /\ \A u \in G!Asked : u # t => turn'[u] = turn[u]
      /\ Cardinality(Beyond) \in Nat /\ Cardinality(Beyond') \in Nat
      /\ Cardinality(Beyond) <= Cardinality(Beyond')
  <2>1. k.pc \notin Before
    BY <1>1, <1>4 DEF Before
  <2> QED BY <1>3, <1>4, <2>1, Moved
<1>6. TalkTypes /\ TalkNumbers /\ TalkDone /\ G!Asked = 1..Len(agent) /\ Len(agent) \in Nat
  BY TalkSetup DEF TalkInv
<1>7. PICK c, d : c = Cardinality(Beyond) /\ d = Cardinality(Beyond') /\ c \in Nat /\ d \in Nat /\ c <= d
  BY <1>5
<1>8. PICK m \in 0..Len(turn[t].history) : Hands(turn[t].history, h, t, m)
  <2>1. turn[t].history \in Seq(Exchange)
    BY <1>3 DEF Progress
  <2> QED BY <1>2, <1>6, <2>1, Handing
<1>9. e \in Entry /\ e.by = t /\ e.cursor = h /\ e # G!NoRow
  BY <1>2, <1>6, <1>8 DEF Hands, Entry, G!NoRow
<1>10. /\ rows \in [1..MaxTurns -> Entry] /\ rows' \in [1..MaxTurns -> Entry] /\ rows'[n] = e
       /\ \A s \in 1..MaxTurns : s # n => rows'[s] = rows[s]
  BY <1>3, <1>6, <1>9 DEF TalkTypes
<1>11. TalkTypes'
  <2>1. lapse' \in BOOLEAN
    BY <1>3, <1>6 DEF TalkTypes, G!Late
  <2> QED BY <1>3, <1>5, <1>6, <1>10, <2>1 DEF TalkTypes
<1>12. tail' <= d /\ undo' <= d
  <2>1. tail \in Nat /\ undo \in Nat /\ tail <= c /\ undo <= c
    BY <1>6, <1>7 DEF TalkTypes, TalkNumbers
  <2> QED BY <1>3, <1>7, <2>1
<1>13. ASSUME NEW u \in G!Asked
       PROVE  Numbered(u, d)'
  <2>1. Numbered(u, d)
    <3>1. Numbered(u, c)
      BY <1>6, <1>7, NumbersAre
    <3> QED BY <1>6, <1>7, <3>1, Rises
  <2>2. CASE u # t
    BY <1>3, <1>5, <2>1, <2>2 DEF Numbered
  <2>3. CASE u = t
    <3>1. u \notin shown
      BY <1>3, <2>1, <2>3 DEF Numbered
    <3> QED BY <1>1, <1>3, <1>4, <1>5, <2>1, <2>3, <3>1 DEF Numbered
  <2> QED BY <2>2, <2>3
<1>14. ASSUME NEW s \in 1..MaxTurns
       PROVE  Named(s)'
  <2>1. Named(s)
    BY <1>6, NumbersAre
  <2>2. CASE s # n
    BY <1>3, <1>5, <1>10, <2>1, <2>2 DEF Named
  <2>3. CASE s = n
    <3>1. t \in 0..Len(agent)
      BY <1>6
    <3>2. \A i \in 1..Len(h) : h[i].by \in G!Asked
      <4>1. PICK g, l : g = turn[t].history /\ l = Len(g)
        OBVIOUS
      <4>2. /\ m \in 0..l /\ l \in Nat /\ Len(h) = m + 1 /\ h[m + 1].by = t
            /\ \A i \in 1..m : h[i].by = g[l - m + i].by
        <5>1. g \in Seq(Exchange)
          BY <1>3, <4>1 DEF Progress
        <5> QED BY <1>8, <4>1, <5>1 DEF Hands
      <4>3. \A i \in 1..l : g[i].by \in G!Asked
        BY <1>6, <4>1 DEF TalkNumbers
      <4>4. \A i \in 1..m : l - m + i \in 1..l
        BY <4>2
      <4>5. \A i \in 1..m + 1 : i \in 1..m \/ i = m + 1
        BY <4>2
      <4> QED BY <4>2, <4>3, <4>4, <4>5
    <3> QED BY <1>3, <1>5, <1>9, <1>10, <2>3, <3>1, <3>2 DEF Named
  <2> QED BY <2>2, <2>3
<1>15. TalkNumbers'
  BY <1>5, <1>7, <1>12, <1>13, <1>14 DEF TalkNumbers, Numbered, Named, G!Number
<1>16. ASSUME NEW u \in G!Asked, u \in shown' \/ (client' = u /\ turn'[u].pc = "tell")
       PROVE  rows'[turn'[u].base + 1].by = u
  <2>1. turn'[u].base = turn[u].base
    BY <1>4, <1>5
  <2>2. CASE u = t
    BY <1>3, <1>9, <1>10, <2>1, <2>2
  <2>3. CASE u # t
    <3>1. u \in shown \/ (client = u /\ turn[u].pc = "tell")
      BY <1>3, <1>5, <1>16, <2>3
    <3>2. rows[turn[u].base + 1].by = u /\ turn[u].base + 1 \in 1..MaxTurns
      BY <1>6, <3>1, TalkFits DEF TalkDone, G!Number
    <3>3. turn[u].base + 1 # n
      BY <1>3, <1>6, <3>2 DEF G!NoRow
    <3> QED BY <1>10, <2>1, <3>2, <3>3
  <2> QED BY <2>2, <2>3
<1>17. TalkDone'
  BY <1>5, <1>16 DEF TalkDone, G!Number
<1> QED BY <1>11, <1>15, <1>17 DEF TalkInv

LEMMA SeesTalk ==
  ASSUME G!Setting, TalkInv, NEW t \in G!Asked, Sees(t)
  PROVE  TalkInv'
<1>1. PICK k : k = [turn[t] EXCEPT !.pc = "over"]
  OBVIOUS
<1>2. /\ turn[t] \in Progress /\ turn[t].pc = "tell" /\ client = t /\ client' = 0
      /\ turn' = [turn EXCEPT ![t] = k] /\ shown' = shown \cup {t}
      /\ UNCHANGED <<tail, rows, agent, undo, lapse, reverts>>
  BY <1>1, TalkSetup DEF TalkInv, Sees, G!At
<1>3. k \in Progress /\ k.pc = "over" /\ k.base = turn[t].base /\ k.history = turn[t].history
  BY <1>1, <1>2 DEF Progress, G!Pcs
<1>4. /\ turn' \in Seq(Progress) /\ Len(turn') = Len(turn) /\ G!Asked' = G!Asked
      /\ turn'[t] = k /\ \A u \in G!Asked : u # t => turn'[u] = turn[u]
      /\ Cardinality(Beyond) \in Nat /\ Cardinality(Beyond') \in Nat
      /\ Cardinality(Beyond) <= Cardinality(Beyond')
  <2>1. k.pc \notin Before
    BY <1>3 DEF Before
  <2> QED BY <1>2, <1>3, <2>1, Moved
<1>5. TalkTypes /\ TalkNumbers /\ TalkDone /\ G!Asked = 1..Len(agent) /\ Len(agent) \in Nat
  BY TalkSetup DEF TalkInv
<1>6. PICK c, d : c = Cardinality(Beyond) /\ d = Cardinality(Beyond') /\ c \in Nat /\ d \in Nat /\ c <= d
  BY <1>4
<1>7. TalkTypes'
  BY <1>2, <1>4, <1>5 DEF TalkTypes
<1>8. tail' <= d /\ undo' <= d
  <2>1. tail \in Nat /\ undo \in Nat /\ tail <= c /\ undo <= c
    BY <1>5, <1>6 DEF TalkTypes, TalkNumbers
  <2> QED BY <1>2, <1>6, <2>1
<1>9. ASSUME NEW u \in G!Asked
      PROVE  Numbered(u, d)'
  <2>1. Numbered(u, d)
    <3>1. Numbered(u, c)
      BY <1>5, <1>6, NumbersAre
    <3> QED BY <1>5, <1>6, <3>1, Rises
  <2>2. CASE u # t
    <3>1. u \in shown' <=> u \in shown
      BY <1>2, <2>2
    <3> QED BY <1>4, <2>1, <2>2, <3>1 DEF Numbered
  <2>3. CASE u = t
    BY <1>2, <1>3, <1>4, <2>1, <2>3 DEF Numbered
  <2> QED BY <2>2, <2>3
<1>10. \A s \in 1..MaxTurns : Named(s)'
  BY <1>2, <1>4, <1>5, NumbersAre DEF Named
<1>11. TalkNumbers'
  BY <1>4, <1>6, <1>8, <1>9, <1>10 DEF TalkNumbers, Numbered, Named, G!Number
<1>12. ASSUME NEW u \in G!Asked, u \in shown' \/ (client' = u /\ turn'[u].pc = "tell")
       PROVE  rows'[turn'[u].base + 1].by = u
  <2>1. turn'[u].base = turn[u].base
    BY <1>3, <1>4
  <2>2. u \in shown \/ u = t
    BY <1>2, <1>5, <1>12
  <2> QED BY <1>2, <1>5, <2>1, <2>2 DEF TalkDone, G!Number
<1>13. TalkDone'
  BY <1>4, <1>12 DEF TalkDone, G!Number
<1> QED BY <1>7, <1>11, <1>13 DEF TalkInv

\* A turn more, and the end of the process.
LEMMA Asks ==
  ASSUME G!Setting, TalkTypes, NEW choice \in Specialist \cup {G!Router}, NEW agenda \in BOOLEAN, G!Ask(choice, agenda)
  PROVE  \E l \in Nat, a \in Specialist \cup {G!Router}, k \in Progress :
           /\ l = Len(agent) /\ l < MaxTurns /\ client = 0 /\ client' = l + 1
           /\ agent' \in Seq(Specialist \cup {G!Router}) /\ Len(agent') = l + 1 /\ G!Asked' = 1..l + 1
           /\ turn' \in Seq(Progress) /\ Len(turn') = l + 1 /\ turn'[l + 1] = k
           /\ \A u \in 1..l : turn'[u] = turn[u] /\ agent'[u] = agent[u]
           /\ k.pc = "tail" /\ k.base = 0 /\ k.history = <<>> /\ k.reverts = reverts
           /\ k.calm <=> undo = 0 /\ \A u \in G!Asked : turn[u].pc = "over"
           /\ UNCHANGED <<tail, rows, undo, shown, lapse, reverts>>
<1>1. /\ agent \in Seq(Specialist \cup {G!Router}) /\ turn \in Seq(Progress) /\ Len(turn) = Len(agent)
      /\ reverts \in Nat /\ G!Asked = 1..Len(agent) /\ MaxTurns \in Nat
  BY TalkSetup DEF TalkTypes
<1>2. PICK l, a, k : /\ l = Len(agent) /\ a = G!Decision(choice, agenda)
                     /\ k = [pc |-> "tail", base |-> 0, history |-> <<>>,
                             calm |-> undo = 0 /\ \A t \in G!Asked : G!At(t, {"over"}),
                             reverts |-> reverts]
  OBVIOUS
<1>3. l \in Nat /\ a \in Specialist \cup {G!Router}
  BY <1>1, <1>2 DEF G!Decision
<1>4. PICK calm \in BOOLEAN : calm <=> undo = 0 /\ \A t \in G!Asked : G!At(t, {"over"})
  OBVIOUS
<1>5. k = [pc |-> "tail", base |-> 0, history |-> <<>>, calm |-> calm, reverts |-> reverts]
  BY <1>2, <1>4
<1>6. k \in Progress /\ k.pc = "tail" /\ k.base = 0 /\ k.history = <<>> /\ k.reverts = reverts
  BY <1>1, <1>5 DEF Progress, G!Pcs
<1>7. k.calm <=> undo = 0 /\ \A u \in G!Asked : turn[u].pc = "over"
  BY <1>4, <1>5 DEF G!At
<1>8. agent' = Append(agent, a) /\ turn' = Append(turn, k) /\ client = 0 /\ l < MaxTurns
      /\ client' = Len(agent') /\ UNCHANGED <<tail, rows, undo, shown, lapse, reverts>>
  BY <1>2 DEF G!Ask
<1>9. agent' \in Seq(Specialist \cup {G!Router}) /\ Len(agent') = l + 1
      /\ \A u \in 1..l : agent'[u] = agent[u]
  BY <1>1, <1>2, <1>3, <1>8, AppendProperties
<1>10. turn' \in Seq(Progress) /\ Len(turn') = l + 1 /\ turn'[l + 1] = k /\ \A u \in 1..l : turn'[u] = turn[u]
  BY <1>1, <1>2, <1>6, <1>8, AppendProperties
<1>11. G!Asked' = 1..l + 1
  BY <1>9 DEF G!Asked
<1> QED BY <1>2, <1>3, <1>6, <1>7, <1>8, <1>9, <1>10, <1>11

LEMMA AskTalk ==
  ASSUME G!Setting, TalkInv, NEW choice \in Specialist \cup {G!Router}, NEW agenda \in BOOLEAN, G!Ask(choice, agenda)
  PROVE  TalkInv'
<1>1. TalkTypes /\ TalkNumbers /\ TalkDone /\ G!Asked = 1..Len(agent) /\ MaxTurns \in Nat
  BY TalkSetup DEF TalkInv
<1>2. PICK l \in Nat, a \in Specialist \cup {G!Router}, k \in Progress :
           /\ l = Len(agent) /\ l < MaxTurns /\ client = 0 /\ client' = l + 1
           /\ agent' \in Seq(Specialist \cup {G!Router}) /\ Len(agent') = l + 1 /\ G!Asked' = 1..l + 1
           /\ turn' \in Seq(Progress) /\ Len(turn') = l + 1 /\ turn'[l + 1] = k
           /\ \A u \in 1..l : turn'[u] = turn[u] /\ agent'[u] = agent[u]
           /\ k.pc = "tail" /\ k.base = 0 /\ k.history = <<>> /\ k.reverts = reverts
           /\ UNCHANGED <<tail, rows, undo, shown, lapse, reverts>>
  BY <1>1, Asks
<1>3. shown \subseteq 1..l
  BY <1>1, <1>2 DEF TalkTypes
<1>4. TalkTypes'
  BY <1>1, <1>2, <1>3 DEF TalkTypes
<1>5. Beyond' = Beyond
  <2>1. \A u \in 1..l + 1 : u \in 1..l \/ u = l + 1
    BY <1>2
  <2>2. 1..l \subseteq 1..l + 1
    BY <1>2
  <2>3. turn'[l + 1].pc \in Before
    BY <1>2 DEF Before
  <2>4. \A u : u \in Beyond' <=> u \in Beyond
    BY <1>1, <1>2, <2>1, <2>2, <2>3 DEF Beyond
  <2> QED BY <2>4 DEF Beyond
<1>6. PICK c : c = Cardinality(Beyond) /\ c = Cardinality(Beyond') /\ c \in Nat
  <2>1. Beyond \subseteq 1..l
    BY <1>1, <1>2 DEF Beyond
  <2> QED BY <1>5, <2>1, Few
<1>7. ASSUME NEW u \in G!Asked'
      PROVE  Numbered(u, c)'
  <2>1. CASE u \in 1..l
    <3>1. Numbered(u, c) /\ turn'[u] = turn[u] /\ G!Asked \subseteq G!Asked'
      BY <1>1, <1>2, <1>6, <2>1, NumbersAre
    <3> QED BY <1>2, <3>1 DEF Numbered
  <2>2. CASE u = l + 1
    <3>1. u \notin shown /\ turn'[u] = k /\ Len(<<>>) = 0
      BY <1>2, <1>3, <2>2
    <3> QED BY <1>2, <1>6, <3>1 DEF Numbered
  <2> QED BY <1>2, <2>1, <2>2
<1>8. ASSUME NEW s \in 1..MaxTurns
      PROVE  Named(s)'
  <2>1. Named(s) /\ G!Asked \subseteq G!Asked'
    BY <1>1, <1>2, NumbersAre
  <2>2. 0..Len(agent) \subseteq 0..Len(agent')
    BY <1>2
  <2> QED BY <1>2, <2>1, <2>2 DEF Named
<1>9. tail' <= c /\ undo' <= c
  BY <1>1, <1>2, <1>6 DEF TalkNumbers
<1>10. TalkNumbers'
  BY <1>6, <1>7, <1>8, <1>9 DEF TalkNumbers, Numbered, Named, G!Number
<1>11. ASSUME NEW u \in G!Asked', u \in shown' \/ (client' = u /\ turn'[u].pc = "tell")
       PROVE  rows'[turn'[u].base + 1].by = u
  <2>1. u \in shown
    BY <1>2, <1>11
  <2> QED BY <1>1, <1>2, <1>3, <2>1 DEF TalkDone, G!Number
<1>12. TalkDone'
  BY <1>11 DEF TalkDone, G!Number
<1> QED BY <1>4, <1>10, <1>12 DEF TalkInv

\* What a revert leaves: the rows before its number.
LEMMA Reverts ==
  ASSUME G!Setting, TalkInv, NEW t \in G!Asked, G!Revert(t)
  PROVE  \E n \in 1..MaxTurns :
           /\ client = 0 /\ undo = 0 /\ undo' = n /\ n = G!Number(t) /\ t \in shown /\ rows[n] # G!NoRow
           /\ rows' \in [1..MaxTurns -> Entry]
           /\ \A s \in 1..MaxTurns : rows'[s] = IF s >= n THEN G!NoRow ELSE rows[s]
           /\ shown' = {u \in shown : G!Number(u) < n} /\ reverts' = reverts + 1
           /\ UNCHANGED <<tail, agent, turn, client, lapse>>
<1>1. PICK n : n = G!Number(t)
  OBVIOUS
<1>2. /\ client = 0 /\ undo = 0 /\ undo' = n /\ t \in shown /\ rows[n] # G!NoRow
      /\ rows' = [s \in DOMAIN rows |-> IF s >= n THEN G!NoRow ELSE rows[s]]
      /\ shown' = {u \in shown : G!Number(u) < n} /\ reverts' = reverts + 1
      /\ UNCHANGED <<tail, agent, turn, client, lapse>>
  BY <1>1 DEF G!Revert
<1>3. n \in 1..MaxTurns /\ rows \in [1..MaxTurns -> Entry]
  BY <1>1, <1>2, TalkFits DEF TalkInv, TalkTypes
<1>4. G!NoRow \in Entry
  BY DEF G!NoRow, Entry
<1>5. rows' \in [1..MaxTurns -> Entry] /\ \A s \in 1..MaxTurns : rows'[s] = IF s >= n THEN G!NoRow ELSE rows[s]
  BY <1>2, <1>3, <1>4
<1> QED BY <1>1, <1>2, <1>3, <1>5

LEMMA RevertTalk ==
  ASSUME G!Setting, TalkInv, NEW t \in G!Asked, G!Revert(t)
  PROVE  TalkInv'
<1>1. PICK n \in 1..MaxTurns :
           /\ client = 0 /\ undo' = n /\ n = G!Number(t) /\ t \in shown
           /\ rows' \in [1..MaxTurns -> Entry]
           /\ \A s \in 1..MaxTurns : rows'[s] = IF s >= n THEN G!NoRow ELSE rows[s]
           /\ shown' = {u \in shown : G!Number(u) < n} /\ reverts' = reverts + 1
           /\ UNCHANGED <<tail, agent, turn, client, lapse>>
  BY Reverts
<1>2. TalkTypes /\ TalkNumbers /\ TalkDone /\ G!Asked' = G!Asked /\ G!Asked = 1..Len(agent) /\ Len(agent) \in Nat
  BY <1>1, TalkSetup DEF TalkInv, G!Asked
<1>3. TalkTypes'
  <2>1. MaxTurns \in Nat
    BY DEF G!Setting
  <2>2. undo' \in Nat /\ reverts' \in Nat
    BY <1>1, <1>2, <2>1 DEF TalkTypes
  <2>3. shown' \subseteq G!Asked
    BY <1>1, <1>2 DEF TalkTypes
  <2> QED BY <1>1, <1>2, <2>2, <2>3 DEF TalkTypes
<1>4. Beyond' = Beyond
  BY <1>1, <1>2 DEF Beyond
<1>5. \A u \in G!Asked : Numbered(u, Cardinality(Beyond))'
  <2>1. \A u \in G!Asked : Numbered(u, Cardinality(Beyond))
    BY <1>2, NumbersAre
  <2> QED BY <1>1, <1>2, <1>4, <2>1 DEF Numbered
<1>6. ASSUME NEW s \in 1..MaxTurns
      PROVE  Named(s)'
  <2>1. Named(s)
    BY <1>2, NumbersAre
  <2>2. CASE rows'[s] = rows[s]
    BY <1>1, <1>2, <2>1, <2>2 DEF Named
  <2>3. CASE rows'[s] = G!NoRow
    <3>1. Len(<<>>) = 0 /\ G!NoRow.by = 0 /\ G!NoRow.cursor = <<>>
      BY DEF G!NoRow
    <3> QED BY <1>1, <1>2, <2>3, <3>1 DEF Named
  <2> QED BY <1>1, <2>2, <2>3
<1>7. undo' <= Cardinality(Beyond) /\ tail' <= Cardinality(Beyond)
  BY <1>1, <1>2 DEF TalkNumbers
<1>8. TalkNumbers'
  BY <1>2, <1>4, <1>5, <1>6, <1>7 DEF TalkNumbers, Numbered, Named, G!Number
<1>9. ASSUME NEW u \in G!Asked, u \in shown' \/ (client' = u /\ turn'[u].pc = "tell")
      PROVE  rows'[turn'[u].base + 1].by = u
  <2>1. u \in shown /\ G!Number(u) < n /\ G!Number(u) \in 1..MaxTurns
    BY <1>1, <1>2, <1>9, TalkFits
  <2>2. rows'[G!Number(u)] = rows[G!Number(u)]
    BY <1>1, <2>1
  <2> QED BY <1>1, <1>2, <2>1, <2>2 DEF TalkDone, G!Number
<1>10. TalkDone'
  BY <1>2, <1>9 DEF TalkDone, G!Number
<1> QED BY <1>3, <1>8, <1>10 DEF TalkInv

LEMMA ResetsTalk ==
  ASSUME G!Setting, TalkInv, Resets
  PROVE  TalkInv'
<1>1. /\ TalkTypes /\ TalkNumbers /\ TalkDone /\ G!Asked' = G!Asked
      /\ UNCHANGED <<rows, agent, turn, shown, reverts>> /\ lapse' \in BOOLEAN
      /\ client' = client \/ client' = 0
  BY DEF TalkInv, G!Asked, Resets
<1>2. Beyond' = Beyond /\ Len(agent) \in Nat /\ G!Asked = 1..Len(agent)
  BY <1>1, TalkSetup DEF Beyond
<1>3. PICK c : c = Cardinality(Beyond) /\ c \in Nat
  BY <1>2, Few DEF Beyond
<1>4. tail \in Nat /\ undo \in Nat /\ tail <= c /\ undo <= c
  BY <1>1, <1>3 DEF TalkTypes, TalkNumbers
<1>5. (tail' = tail \/ (undo # 0 /\ tail' = undo - 1)) /\ (undo' = undo \/ undo' = 0)
  BY DEF Resets
<1>6. tail' \in Nat /\ undo' \in Nat /\ tail' <= c /\ undo' <= c
  BY <1>3, <1>4, <1>5
<1>7. TalkTypes'
  BY <1>1, <1>2, <1>6 DEF TalkTypes
<1>8. TalkNumbers'
  BY <1>1, <1>2, <1>3, <1>6 DEF TalkNumbers, G!Number
<1>9. \A u \in G!Asked : u # 0
  BY <1>2
<1>10. TalkDone'
  BY <1>1, <1>9 DEF TalkDone, G!Number
<1> QED BY <1>7, <1>8, <1>10 DEF TalkInv

\* The process dies: every turn is over.
LEMMA DieTalk ==
  ASSUME G!Setting, TalkInv, G!Die
  PROVE  TalkInv' /\ \A u \in G!Asked : turn'[u] = [turn[u] EXCEPT !.pc = "over"]
<1>1. /\ TalkTypes /\ TalkNumbers /\ TalkDone /\ G!Asked' = G!Asked /\ G!Asked = 1..Len(agent)
      /\ Len(agent) \in Nat /\ \A u \in G!Asked : turn[u] \in Progress
  BY TalkSetup DEF TalkInv, G!Asked, G!Die
<1>2. /\ turn' = [t \in G!Asked |-> [turn[t] EXCEPT !.pc = "over"]]
      /\ client' = 0 /\ undo' = 0 /\ UNCHANGED <<tail, rows, agent, shown, reverts>>
  BY DEF G!Die
<1>3. \A u \in G!Asked : /\ turn'[u] \in Progress /\ turn'[u].pc = "over"
                         /\ turn'[u].base = turn[u].base /\ turn'[u].history = turn[u].history
  BY <1>1, <1>2 DEF Progress, G!Pcs
<1>4. turn' \in [1..Len(agent) -> Progress]
  BY <1>1, <1>2, <1>3
<1>5. turn' \in Seq(Progress) /\ Len(turn') = Len(agent)
  BY <1>1, <1>4, SeqDef, LenProperties
<1>6. lapse' \in BOOLEAN
  BY <1>1 DEF G!Die, TalkTypes
<1>7. TalkTypes'
  BY <1>1, <1>2, <1>5, <1>6 DEF TalkTypes
<1>8. PICK c, d : c = Cardinality(Beyond) /\ d = Cardinality(Beyond') /\ c \in Nat /\ d \in Nat /\ c <= d
  <2>1. Beyond \subseteq G!Asked /\ Beyond' \subseteq G!Asked /\ Beyond \subseteq Beyond'
    BY <1>1, <1>3 DEF Beyond, Before
  <2>2. PICK B, D : B = Beyond /\ D = Beyond'
    OBVIOUS
  <2>3. IsFiniteSet(D) /\ Cardinality(B) \in Nat /\ Cardinality(D) \in Nat /\ B \subseteq D
    BY <1>1, <2>1, <2>2, Few
  <2> QED BY <2>2, <2>3, FS_Subset
<1>9. ASSUME NEW u \in G!Asked
      PROVE  Numbered(u, d)'
  <2>1. Numbered(u, d)
    <3>1. Numbered(u, c)
      BY <1>1, <1>8, NumbersAre
    <3> QED BY <1>1, <1>8, <3>1, Rises
  <2> QED BY <1>1, <1>2, <1>3, <2>1 DEF Numbered
<1>10. \A s \in 1..MaxTurns : Named(s)'
  BY <1>1, <1>2, NumbersAre DEF Named
<1>11. tail' <= d /\ undo' <= d
  <2>1. tail \in Nat /\ tail <= c
    BY <1>1, <1>8 DEF TalkTypes, TalkNumbers
  <2> QED BY <1>2, <1>8, <2>1
<1>12. TalkNumbers'
  BY <1>1, <1>8, <1>9, <1>10, <1>11 DEF TalkNumbers, Numbered, Named, G!Number
<1>13. \A u \in G!Asked : u # 0
  BY <1>1
<1>14. TalkDone'
  BY <1>1, <1>2, <1>3, <1>13 DEF TalkDone, G!Number
<1> QED BY <1>2, <1>7, <1>12, <1>14 DEF TalkInv

LEMMA TalkInit == G!Setting /\ G!Init => TalkInv
<1> SUFFICES ASSUME G!Setting, G!Init PROVE TalkInv
  OBVIOUS
<1>1. agent = <<>> /\ turn = <<>> /\ G!Asked = {} /\ Len(agent) = 0 /\ Len(turn) = 0
  BY DEF G!Init, G!Asked
<1>2. G!NoRow \in Entry /\ G!NoRow.by = 0 /\ Len(G!NoRow.cursor) = 0
  BY DEF G!NoRow, Entry
<1>3. rows \in [1..MaxTurns -> Entry] /\ \A s \in 1..MaxTurns : rows[s] = G!NoRow
  BY <1>2 DEF G!Init
<1>4. TalkTypes
  <2>1. agent \in Seq(Specialist \cup {G!Router}) /\ turn \in Seq(Progress)
    BY <1>1
  <2>2. tail = 0 /\ client = 0 /\ undo = 0 /\ shown = {} /\ lapse = FALSE /\ reverts = 0 /\ MaxTurns \in Nat
    BY DEF G!Init, G!Setting
  <2>3. Len(turn) = Len(agent) /\ Len(agent) <= MaxTurns /\ client \in 0..Len(agent)
    BY <1>1, <2>2
  <2>4. tail \in Nat /\ undo \in Nat /\ shown \subseteq G!Asked /\ lapse \in BOOLEAN /\ reverts \in Nat
    BY <2>2
  <2> QED BY <1>3, <2>1, <2>3, <2>4 DEF TalkTypes
<1>5. Beyond = {} /\ Cardinality(Beyond) = 0
  BY <1>1, FS_EmptySet DEF Beyond
<1>6. TalkNumbers
  BY <1>1, <1>2, <1>3, <1>5 DEF TalkNumbers, G!Init
<1>7. TalkDone
  BY <1>1 DEF TalkDone
<1> QED BY <1>4, <1>6, <1>7 DEF TalkInv

LEMMA TalkNext ==
  ASSUME G!Setting, TalkInv, [G!Next]_(G!vars)
  PROVE  TalkInv'
<1>1. CASE UNCHANGED G!vars
  BY <1>1 DEF G!vars, TalkInv, TalkTypes, TalkNumbers, TalkDone, Beyond, G!Asked, G!Number
<1>2. ASSUME NEW t \in G!Asked, Step(t)
      PROVE  TalkInv'
  BY <1>2, MovesTalk, UpsertTalk, KeepsTalk, SeesTalk DEF Step
<1>3. CASE G!Stop
  BY <1>2, <1>3, StopIs, ResetsTalk
<1>4. CASE G!RevertTail
  BY <1>4, RevertTailIs, ResetsTalk
<1> QED BY <1>1, <1>2, <1>3, <1>4, StepIs, AskTalk, RevertTalk, DieTalk DEF G!Next

-----------------------------------------------------------------------------
\* A turn that was calm when it was asked for came after all the others were over and
\* between the reverts; nothing that comes later changes that.
Calm(t) ==
  /\ turn[t].reverts <= reverts
  /\ turn[t].calm => \A u \in G!Asked : u < t => turn[u].pc = "over"
  /\ turn[t].calm /\ undo # 0 => turn[t].reverts < reverts

CalmTurns == \A t \in G!Asked : Calm(t)

LEMMA StepKeeps ==
  ASSUME G!Setting, TalkInv, NEW t \in G!Asked, Step(t)
  PROVE  /\ G!Asked' = G!Asked /\ UNCHANGED <<agent, undo, reverts>> /\ (lapse => lapse')
         /\ \A u \in G!Asked : u # t => turn'[u] = turn[u]
         /\ turn'[t].calm = turn[t].calm /\ turn'[t].reverts = turn[t].reverts
         /\ turn[t].pc = "over" => turn'[t].pc = "over"
<1>1. turn[t] \in Progress /\ G!Asked = DOMAIN turn
  BY TalkSetup DEF TalkInv
<1>2. CASE Moves(t)
  <2>1. PICK k : Advances(t, k)
    BY <1>2 DEF Moves
  <2> QED BY <1>1, <2>1 DEF Advances, G!Asked, Before
<1>3. CASE G!Upsert(t)
  BY <1>1, <1>3 DEF G!Upsert, G!GoTo, G!At, Progress, G!Asked
<1>4. CASE Keeps(t)
  <2>1. PICK to \in {"over", "tell"} : turn' = [turn EXCEPT ![t].pc = to]
    BY <1>4 DEF Keeps
  <2> QED BY <1>1, <1>4, <2>1 DEF Keeps, G!At, Progress, G!Asked
<1>5. CASE Sees(t)
  BY <1>1, <1>5 DEF Sees, G!GoTo, G!At, Progress, G!Asked
<1> QED BY <1>2, <1>3, <1>4, <1>5 DEF Step

LEMMA CalmNext ==
  ASSUME G!Setting, TalkInv, CalmTurns, [G!Next]_(G!vars)
  PROVE  CalmTurns'
<1>1. G!Asked = 1..Len(agent) /\ Len(agent) \in Nat /\ reverts \in Nat /\ \A u \in G!Asked : turn[u].reverts \in Nat
  BY TalkSetup DEF TalkInv, TalkTypes, Progress
<1>2. CASE UNCHANGED G!vars
  BY <1>2 DEF G!vars, CalmTurns, Calm, G!Asked
<1>3. ASSUME NEW t \in G!Asked, Step(t)
      PROVE  CalmTurns'
  BY <1>3, StepKeeps DEF CalmTurns, Calm
<1>4. CASE Resets
  <2>1. UNCHANGED <<turn, agent, reverts>> /\ (undo' = undo \/ undo' = 0)
    BY <1>4 DEF Resets
  <2> QED BY <2>1 DEF CalmTurns, Calm, G!Asked
<1>5. ASSUME NEW choice \in Specialist \cup {G!Router}, NEW agenda \in BOOLEAN, G!Ask(choice, agenda)
      PROVE  CalmTurns'
  <2>1. PICK l \in Nat, a \in Specialist \cup {G!Router}, k \in Progress :
           /\ l = Len(agent) /\ G!Asked' = 1..l + 1 /\ turn'[l + 1] = k
           /\ \A u \in 1..l : turn'[u] = turn[u] /\ agent'[u] = agent[u]
           /\ k.reverts = reverts
           /\ k.calm <=> undo = 0 /\ \A u \in G!Asked : turn[u].pc = "over"
           /\ UNCHANGED <<undo, reverts>>
    BY <1>5, Asks DEF TalkInv
  <2>2. ASSUME NEW t \in G!Asked'
        PROVE  Calm(t)'
    <3>1. CASE t \in 1..l
      <4>1. Calm(t) /\ turn'[t] = turn[t] /\ \A u \in G!Asked' : u < t => u \in G!Asked /\ turn'[u] = turn[u]
        BY <1>1, <2>1, <3>1 DEF CalmTurns
      <4> QED BY <2>1, <4>1 DEF Calm
    <3>2. CASE t = l + 1
      <4>1. \A u \in G!Asked' : u < t => u \in G!Asked /\ turn'[u] = turn[u]
        BY <1>1, <2>1, <3>2
      <4> QED BY <1>1, <2>1, <3>2, <4>1 DEF Calm
    <3> QED BY <2>1, <2>2, <3>1, <3>2
  <2> QED BY <2>2 DEF CalmTurns
<1>6. ASSUME NEW t \in G!Asked, G!Revert(t)
      PROVE  CalmTurns'
  <2>1. reverts' = reverts + 1 /\ UNCHANGED <<agent, turn>>
    BY <1>6 DEF G!Revert
  <2>2. \A u \in G!Asked : turn[u].reverts <= reverts /\ turn[u].reverts < reverts + 1
    BY <1>1 DEF CalmTurns, Calm
  <2>3. \A u \in G!Asked : turn[u].reverts <= reverts + 1
    BY <1>1, <2>2
  <2> QED BY <2>1, <2>2, <2>3 DEF CalmTurns, Calm, G!Asked
<1>7. CASE G!Die
  <2>1. /\ \A u \in G!Asked : turn'[u] = [turn[u] EXCEPT !.pc = "over"] /\ turn[u] \in Progress
        /\ undo' = 0 /\ UNCHANGED <<agent, reverts>>
    BY <1>7, DieTalk, TalkSetup DEF TalkInv, G!Die
  <2>2. \A u \in G!Asked : turn'[u].pc = "over" /\ turn'[u].reverts = turn[u].reverts
    BY <2>1 DEF Progress
  <2> QED BY <2>1, <2>2 DEF CalmTurns, Calm, G!Asked
<1>8. CASE G!Stop
  BY <1>3, <1>4, <1>8, StopIs
<1>9. CASE G!RevertTail
  BY <1>4, <1>9, RevertTailIs
<1> QED BY <1>2, <1>3, <1>5, <1>6, <1>7, <1>8, <1>9, StepIs DEF G!Next

LEMMA CalmInit == G!Init => CalmTurns
BY DEF G!Init, CalmTurns, G!Asked

-----------------------------------------------------------------------------
\* The turn that has moved the tail and whose row no revert has overtaken, and how far
\* the rows go.
Pending == {t \in G!Asked : turn[t].pc = "insert" /\ turn[t].reverts = reverts}
Highest == IF undo # 0 THEN undo - 1 ELSE IF Pending # {} THEN tail - 1 ELSE tail

\* What the row s hands on is what the rows up to it hold.
Follows(h, s) ==
  /\ Len(h) <= s /\ (Len(h) = s \/ Len(h) >= MaxTurnsKept)
  /\ \A i \in DOMAIN h : /\ h[i].by = rows[s - Len(h) + i].by
                         /\ h[i].tools = (agent[h[i].by] # G!Router)

Chained(s) == Follows(rows[s].cursor, s)

Sits(t) ==
  /\ turn[t].pc = "insert" => turn[t].calm
  /\ turn[t].pc = "insert" /\ turn[t].reverts = reverts => G!Number(t) = tail
  /\ ~G!Late(t) => Reads(turn[t])
  /\ ~G!Late(t) /\ turn[t].pc = "insert" => turn[t].history = Carried(turn[t].base)

Row(s) ==
  /\ rows[s] # G!NoRow <=> s <= Highest
  /\ rows[s] # G!NoRow => Chained(s)

RowsInv == ~lapse => (\A t \in G!Asked : Sits(t)) /\ \A s \in 1..MaxTurns : Row(s)

\* A turn that nothing overlaps is the last, and the only one that is not over.
LEMMA AloneIs ==
  ASSUME G!Setting, TalkInv, CalmTurns, NEW t \in G!Asked, ~G!Late(t)
  PROVE  /\ t = Len(agent) /\ turn[t].calm /\ turn[t].reverts = reverts /\ undo = 0
         /\ \A u \in G!Asked : u # t => G!Late(u) /\ turn[u].pc = "over"
<1>1. G!Asked = 1..Len(agent) /\ Len(agent) \in Nat /\ turn[t] \in Progress /\ reverts \in Nat /\ undo \in Nat
  BY TalkSetup DEF TalkInv, TalkTypes
<1>2. t = Len(agent) /\ turn[t].calm /\ turn[t].reverts = reverts
  BY DEF G!Late
<1>3. undo = 0
  <2>1. turn[t].calm /\ undo # 0 => turn[t].reverts < reverts
    BY DEF CalmTurns, Calm
  <2> QED BY <1>1, <1>2, <2>1
<1>4. ASSUME NEW u \in G!Asked, u # t
      PROVE  G!Late(u) /\ turn[u].pc = "over"
  <2>1. u < t
    BY <1>1, <1>2, <1>4
  <2> QED BY <1>2, <1>4, <2>1 DEF G!Late, CalmTurns, Calm
<1> QED BY <1>2, <1>3, <1>4

\* What comes after the row s does not change what it hands on.
LEMMA ChainStays ==
  ASSUME G!Setting, TalkInv, NEW s \in 1..MaxTurns, Chained(s),
         \A r \in 1..s : rows'[r] = rows[r], \A u \in G!Asked : agent'[u] = agent[u]
  PROVE  Chained(s)'
<1>1. s \in Nat /\ s \in 1..s /\ rows[s] \in Entry
  <2>1. MaxTurns \in Nat
    BY DEF G!Setting
  <2> QED BY <2>1 DEF TalkInv, TalkTypes
<1>2. PICK h, l : h = rows[s].cursor /\ l = Len(h)
  OBVIOUS
<1>3. h \in Seq(Exchange) /\ l \in Nat /\ DOMAIN h = 1..l /\ rows'[s].cursor = h
  BY <1>1, <1>2 DEF Entry
<1>4. /\ l <= s /\ (l = s \/ l >= MaxTurnsKept)
      /\ \A i \in 1..l : h[i].by = rows[s - l + i].by /\ h[i].tools = (agent[h[i].by] # G!Router)
  BY <1>2, <1>3 DEF Chained, Follows
<1>5. \A i \in 1..l : s - l + i \in 1..s
  BY <1>1, <1>3, <1>4
<1>6. \A i \in 1..l : h[i].by \in G!Asked
  BY <1>2 DEF TalkInv, TalkNumbers
<1>7. \A i \in 1..l : h[i].by = rows'[s - l + i].by /\ h[i].tools = (agent'[h[i].by] # G!Router)
  BY <1>4, <1>5, <1>6
<1>8. Follows(h, s)'
  BY <1>2, <1>3, <1>4, <1>7 DEF Follows
<1> QED BY <1>3, <1>8 DEF Chained

\* The row after b hands on what b does, and its own turn.
LEMMA ChainGrows ==
  ASSUME G!Setting, TalkInv, NEW t \in G!Asked, NEW b \in Nat, b + 1 \in 1..MaxTurns,
         NEW h, h = Carried(b), b # 0 => Chained(b), NEW c, NEW m, Hands(h, c, t, m), UNCHANGED agent,
         rows' = [rows EXCEPT ![b + 1] = [by |-> t, cursor |-> c]]
  PROVE  Chained(b + 1)'
<1>1. rows \in [1..MaxTurns -> Entry] /\ MaxTurns \in Nat /\ MaxTurnsKept \in Nat
  BY DEF G!Setting, TalkInv, TalkTypes
<1>2. PICK l : l = Len(h)
  OBVIOUS
<1>3. /\ h \in Seq(Exchange) /\ l \in Nat /\ l <= b /\ (l = b \/ l >= MaxTurnsKept)
      /\ \A i \in 1..l : h[i].by = rows[b - l + i].by /\ h[i].tools = (agent[h[i].by] # G!Router)
  <2>1. CASE b = 0
    BY <1>1, <1>2, <2>1 DEF Carried
  <2>2. CASE b # 0
    <3>1. b \in 1..MaxTurns /\ h = rows[b].cursor
      BY <1>1, <2>2 DEF Carried
    <3>2. h \in Seq(Exchange) /\ DOMAIN h = 1..l /\ l \in Nat
      BY <1>1, <1>2, <3>1 DEF Entry
    <3> QED BY <1>2, <2>2, <3>1, <3>2 DEF Chained, Follows
  <2> QED BY <2>1, <2>2
<1>4. /\ m \in 0..l /\ (m = l \/ (m = MaxTurnsKept /\ m < l))
      /\ c \in Seq(Exchange) /\ Len(c) = m + 1 /\ c[m + 1].by = t /\ c[m + 1].tools = (agent[t] # G!Router)
      /\ \A i \in 1..m : c[i].by = h[l - m + i].by /\ c[i].tools = h[l - m + i].tools
  BY <1>2 DEF Hands
<1>5. /\ rows'[b + 1].cursor = c /\ rows'[b + 1].by = t
      /\ \A r \in 1..MaxTurns : r # b + 1 => rows'[r] = rows[r]
  BY <1>1
<1>6. m + 1 <= b + 1 /\ (m + 1 = b + 1 \/ m + 1 >= MaxTurnsKept)
  BY <1>1, <1>3, <1>4
<1>7. ASSUME NEW i \in 1..m + 1
      PROVE  c[i].by = rows'[b + 1 - (m + 1) + i].by /\ c[i].tools = (agent'[c[i].by] # G!Router)
  <2>1. CASE i = m + 1
    <3>1. b + 1 - (m + 1) + i = b + 1
      BY <1>4, <2>1
    <3> QED BY <1>4, <1>5, <2>1, <3>1
  <2>2. CASE i # m + 1
    <3>1. i \in 1..m /\ l - m + i \in 1..l
      BY <1>3, <1>4, <1>7, <2>2
    <3>2. PICK j, r : j = l - m + i /\ r = b + 1 - (m + 1) + i
      OBVIOUS
    <3>3. r = b - l + j /\ r \in 1..MaxTurns /\ r # b + 1
      <4>1. /\ l \in Nat /\ m \in Nat /\ i \in Nat /\ MaxTurns \in Nat
            /\ m <= l /\ l <= b /\ 1 <= i /\ i <= m /\ b + 1 <= MaxTurns
        BY <1>1, <1>3, <1>4, <3>1
      <4> QED BY <3>2, <4>1
    <3>4. h[j].by = rows[b - l + j].by /\ h[j].tools = (agent[h[j].by] # G!Router)
      BY <1>3, <3>1, <3>2
    <3>5. c[i].by = h[j].by /\ c[i].tools = h[j].tools
      BY <1>4, <3>1, <3>2
    <3>6. rows'[r] = rows[r]
      BY <1>5, <3>3
    <3> QED BY <3>2, <3>3, <3>4, <3>5, <3>6
  <2> QED BY <2>1, <2>2
<1>8. DOMAIN c = 1..m + 1
  BY <1>4
<1>9. Follows(c, b + 1)'
  <2>1. Len(c) <= b + 1 /\ (Len(c) = b + 1 \/ Len(c) >= MaxTurnsKept)
    BY <1>4, <1>6
  <2>2. \A i \in DOMAIN c : c[i].by = rows'[b + 1 - Len(c) + i].by /\ c[i].tools = (agent'[c[i].by] # G!Router)
    BY <1>4, <1>7, <1>8
  <2> QED BY <2>1, <2>2 DEF Follows
<1> QED BY <1>5, <1>9 DEF Chained

LEMMA MovesRows ==
  ASSUME G!Setting, TalkInv, CalmTurns, RowsInv, NEW t \in G!Asked, Moves(t)
  PROVE  RowsInv'
<1> SUFFICES ASSUME ~lapse' PROVE (\A u \in G!Asked' : Sits(u)') /\ \A s \in 1..MaxTurns : Row(s)'
  BY DEF RowsInv
<1>1. PICK k : Advances(t, k)
  BY DEF Moves
<1>2. /\ k.pc \in {"row", "run", "upsert", "over"} /\ turn[t].pc # "insert" /\ ~lapse
      /\ k.calm = turn[t].calm /\ k.reverts = turn[t].reverts
      /\ UNCHANGED <<tail, rows, agent, undo, shown, reverts>>
      /\ Reads(turn[t]) => Reads(k)
  BY <1>1 DEF Advances
<1>3. turn'[t] = k /\ G!Asked' = G!Asked /\ \A u \in G!Asked : u # t => turn'[u] = turn[u]
  BY <1>1, TalkSetup DEF Advances, TalkInv, G!Asked
<1>4. (\A u \in G!Asked : Sits(u)) /\ \A s \in 1..MaxTurns : Row(s)
  BY <1>2 DEF RowsInv
<1>5. ASSUME NEW u \in G!Asked
      PROVE  Sits(u)'
  <2>1. CASE u # t
    BY <1>2, <1>3, <1>4, <2>1 DEF Sits, G!Late, Reads, Carried, G!Number
  <2>2. CASE u = t
    <3>1. ~G!Late(t)' => ~G!Late(t)
      BY <1>2, <1>3 DEF G!Late
    <3>2. ~G!Late(t)' => Reads(k)
      BY <1>2, <1>4, <3>1 DEF Sits
    <3>3. Reads(k) => Reads(turn[t])'
      BY <1>2, <1>3 DEF Reads, Carried
    <3> QED BY <1>2, <1>3, <2>2, <3>2, <3>3 DEF Sits
  <2> QED BY <2>1, <2>2
<1>6. Pending' = Pending
  BY <1>2, <1>3 DEF Pending
<1>7. Highest' = Highest
  BY <1>2, <1>6 DEF Highest
<1>8. \A s \in 1..MaxTurns : Row(s)'
  BY <1>2, <1>4, <1>7 DEF Row, Chained, Follows
<1> QED BY <1>3, <1>5, <1>8

LEMMA UpsertRows ==
  ASSUME G!Setting, TalkInv, CalmTurns, RowsInv, NEW t \in G!Asked, G!Upsert(t)
  PROVE  RowsInv'
<1> SUFFICES ASSUME ~lapse' PROVE (\A u \in G!Asked' : Sits(u)') /\ \A s \in 1..MaxTurns : Row(s)'
  BY DEF RowsInv
<1>1. /\ turn[t].pc = "upsert" /\ tail' = G!Number(t) /\ ~lapse /\ ~G!Late(t)
      /\ turn' = [turn EXCEPT ![t].pc = "insert"] /\ turn[t] \in Progress /\ DOMAIN turn = G!Asked
      /\ UNCHANGED <<rows, agent, client, undo, shown, reverts>>
  BY TalkSetup DEF TalkInv, TalkTypes, G!Upsert, G!GoTo, G!At
<1>2. /\ G!Asked' = G!Asked /\ turn'[t].pc = "insert" /\ turn'[t].calm = turn[t].calm
      /\ turn'[t].reverts = turn[t].reverts /\ turn'[t].base = turn[t].base
      /\ turn'[t].history = turn[t].history /\ \A u \in G!Asked : u # t => turn'[u] = turn[u]
  BY <1>1 DEF Progress, G!Asked
<1>3. /\ t = Len(agent) /\ turn[t].calm /\ turn[t].reverts = reverts /\ undo = 0
      /\ \A u \in G!Asked : u # t => G!Late(u) /\ turn[u].pc = "over"
  BY <1>1, AloneIs
<1>4. (\A u \in G!Asked : Sits(u)) /\ \A s \in 1..MaxTurns : Row(s)
  BY <1>1 DEF RowsInv
<1>5. turn[t].base = tail /\ turn[t].history = Carried(tail)
  BY <1>1, <1>4 DEF Sits, Reads
<1>6. ASSUME NEW u \in G!Asked
      PROVE  Sits(u)'
  <2>1. CASE u # t
    BY <1>1, <1>2, <1>3, <2>1 DEF Sits, G!Late
  <2>2. CASE u = t
    <3>1. G!Number(t)' = tail'
      BY <1>1, <1>2 DEF G!Number
    <3>2. Reads(turn[t])' /\ turn'[t].history = Carried(turn[t].base)'
      BY <1>1, <1>2, <1>5 DEF Reads, Carried
    <3> QED BY <1>2, <1>3, <2>2, <3>1, <3>2 DEF Sits
  <2> QED BY <2>1, <2>2
<1>7. Pending = {} /\ Pending' # {}
  <2>1. Pending = {}
    BY <1>1, <1>3 DEF Pending
  <2>2. t \in Pending'
    BY <1>1, <1>2, <1>3 DEF Pending
  <2> QED BY <2>1, <2>2
<1>8. Highest' = Highest
  <2>1. tail \in Nat /\ tail' = tail + 1
    BY <1>1, <1>5 DEF G!Number, TalkInv, TalkTypes
  <2> QED BY <1>1, <1>3, <1>7, <2>1 DEF Highest
<1>9. \A s \in 1..MaxTurns : Row(s)'
  BY <1>1, <1>4, <1>8 DEF Row, Chained, Follows
<1> QED BY <1>2, <1>6, <1>9

LEMMA KeepsRows ==
  ASSUME G!Setting, TalkInv, CalmTurns, RowsInv, NEW t \in G!Asked, Keeps(t)
  PROVE  RowsInv'
<1> SUFFICES ASSUME ~lapse' PROVE (\A u \in G!Asked' : Sits(u)') /\ \A s \in 1..MaxTurns : Row(s)'
  BY DEF RowsInv
<1>1. PICK to \in {"over", "tell"} : turn' = [turn EXCEPT ![t].pc = to]
  BY DEF Keeps
<1>2. PICK n, b, h, c, e : /\ b = turn[t].base /\ n = b + 1 /\ h = turn[t].history
                           /\ c = G!Cursor(t, h) /\ e = [by |-> t, cursor |-> c]
  OBVIOUS
<1>3. /\ turn[t].pc = "insert" /\ n = G!Number(t) /\ ~lapse /\ ~G!Late(t)
      /\ rows[n] = G!NoRow /\ rows' = [rows EXCEPT ![n] = e]
      /\ turn[t] \in Progress /\ DOMAIN turn = G!Asked
      /\ UNCHANGED <<tail, agent, client, undo, shown, reverts>>
  BY <1>2, TalkSetup DEF TalkInv, TalkTypes, Keeps, G!At, G!Number
<1>4. G!Asked' = G!Asked /\ turn'[t].pc = to /\ \A u \in G!Asked : u # t => turn'[u] = turn[u]
  BY <1>1, <1>3 DEF Progress, G!Asked
<1>5. /\ turn[t].reverts = reverts /\ undo = 0
      /\ \A u \in G!Asked : u # t => G!Late(u) /\ turn[u].pc = "over"
  BY <1>3, AloneIs
<1>6. (\A u \in G!Asked : Sits(u)) /\ \A s \in 1..MaxTurns : Row(s)
  BY <1>3 DEF RowsInv
<1>7. n = tail /\ h = Carried(b) /\ n \in 1..MaxTurns /\ b \in Nat /\ tail \in Nat /\ MaxTurns \in Nat
  BY <1>2, <1>3, <1>5, <1>6, TalkFits DEF Sits, TalkInv, TalkTypes, G!Setting
<1>8. ASSUME NEW u \in G!Asked
      PROVE  Sits(u)'
  <2>1. CASE u # t
    BY <1>3, <1>4, <1>5, <2>1 DEF Sits, G!Late
  <2>2. CASE u = t
    BY <1>1, <1>4, <2>2 DEF Sits, Reads
  <2> QED BY <2>1, <2>2
<1>9. Pending' = {} /\ Pending # {}
  <2>1. Pending' = {}
    BY <1>1, <1>4, <1>5 DEF Pending
  <2>2. t \in Pending
    BY <1>3, <1>5 DEF Pending
  <2> QED BY <2>1, <2>2
<1>10. Highest = tail - 1 /\ Highest' = tail
  BY <1>3, <1>5, <1>9 DEF Highest
<1>11. /\ rows'[n] = e /\ \A s \in 1..MaxTurns : s # n => rows'[s] = rows[s]
  BY <1>3, <1>7 DEF TalkInv, TalkTypes
<1>12. PICK m \in 0..Len(h) : Hands(h, c, t, m)
  <2>1. h \in Seq(Exchange)
    BY <1>2, <1>3 DEF Progress
  <2> QED BY <1>2, <2>1, Handing DEF TalkInv
<1>13. Chained(n)'
  <2>1. b # 0 => Chained(b)
    <3> SUFFICES ASSUME b # 0 PROVE Chained(b)
      OBVIOUS
    <3>1. b \in 1..MaxTurns /\ b <= Highest
      BY <1>2, <1>7, <1>10
    <3> QED BY <1>6, <3>1 DEF Row
  <2> QED BY <1>2, <1>3, <1>7, <1>12, <2>1, ChainGrows
<1>14. ASSUME NEW s \in 1..MaxTurns
       PROVE  Row(s)'
  <2>1. Row(s) /\ s \in Nat
    BY <1>6, <1>7
  <2>2. CASE s = n
    <3>1. e # G!NoRow
      <4>1. t # 0
        BY TalkSetup DEF TalkInv
      <4> QED BY <1>2, <4>1 DEF G!NoRow
    <3> QED BY <1>7, <1>10, <1>11, <1>13, <2>1, <2>2, <3>1 DEF Row
  <2>3. CASE s # n
    <3>1. rows'[s] = rows[s] /\ (s <= Highest <=> s <= Highest')
      BY <1>7, <1>10, <1>11, <2>1, <2>3
    <3>2. rows[s] # G!NoRow => s < n
      BY <1>7, <1>10, <2>1, <2>3 DEF Row
    <3>3. s < n => \A r \in 1..s : rows'[r] = rows[r]
      BY <1>7, <1>11, <2>1
    <3>4. rows[s] # G!NoRow => Chained(s)'
      BY <1>3, <2>1, <3>2, <3>3, ChainStays DEF Row
    <3> QED BY <2>1, <3>1, <3>4 DEF Row
  <2> QED BY <2>2, <2>3
<1> QED BY <1>4, <1>8, <1>14

LEMMA SeesRows ==
  ASSUME G!Setting, TalkInv, CalmTurns, RowsInv, NEW t \in G!Asked, Sees(t)
  PROVE  RowsInv'
<1> SUFFICES ASSUME ~lapse' PROVE (\A u \in G!Asked' : Sits(u)') /\ \A s \in 1..MaxTurns : Row(s)'
  BY DEF RowsInv
<1>1. /\ turn[t].pc = "tell" /\ turn' = [turn EXCEPT ![t].pc = "over"] /\ ~lapse
      /\ UNCHANGED <<tail, rows, agent, undo, lapse, reverts>>
      /\ turn[t] \in Progress /\ DOMAIN turn = G!Asked
  BY TalkSetup DEF TalkInv, Sees, G!At
<1>2. G!Asked' = G!Asked /\ turn'[t].pc = "over" /\ \A u \in G!Asked : u # t => turn'[u] = turn[u]
  BY <1>1 DEF Progress, G!Asked
<1>3. (\A u \in G!Asked : Sits(u)) /\ \A s \in 1..MaxTurns : Row(s)
  BY <1>1 DEF RowsInv
<1>4. ASSUME NEW u \in G!Asked
      PROVE  Sits(u)'
  <2>1. CASE u # t
    BY <1>1, <1>2, <1>3, <2>1 DEF Sits, G!Late, Reads, Carried, G!Number
  <2>2. CASE u = t
    BY <1>2, <2>2 DEF Sits, Reads
  <2> QED BY <2>1, <2>2
<1>5. Pending' = Pending
  BY <1>1, <1>2 DEF Pending
<1>6. Highest' = Highest
  BY <1>1, <1>5 DEF Highest
<1>7. \A s \in 1..MaxTurns : Row(s)'
  BY <1>1, <1>3, <1>6 DEF Row, Chained, Follows
<1> QED BY <1>2, <1>4, <1>7

LEMMA ResetsRows ==
  ASSUME G!Setting, TalkInv, CalmTurns, RowsInv, Resets
  PROVE  RowsInv'
<1> SUFFICES ASSUME ~lapse' PROVE (\A u \in G!Asked' : Sits(u)') /\ \A s \in 1..MaxTurns : Row(s)'
  BY DEF RowsInv
<1>1. UNCHANGED <<rows, agent, turn, reverts>> /\ ~lapse /\ G!Asked' = G!Asked
  BY DEF Resets, G!Asked
<1>2. (\A u \in G!Asked : Sits(u)) /\ \A s \in 1..MaxTurns : Row(s)
  BY <1>1 DEF RowsInv
<1>3. Pending' = Pending
  BY <1>1 DEF Pending
<1>4. CASE UNCHANGED <<tail, undo>>
  <2>1. Highest' = Highest
    BY <1>1, <1>3, <1>4 DEF Highest
  <2>2. \A u \in G!Asked : Sits(u)'
    BY <1>1, <1>2, <1>4 DEF Sits, G!Late, Reads, Carried, G!Number
  <2>3. \A s \in 1..MaxTurns : Row(s)'
    BY <1>1, <1>2, <2>1 DEF Row, Chained, Follows
  <2> QED BY <1>1, <2>2, <2>3
<1>5. CASE undo # 0 /\ undo' = 0 /\ tail' = undo - 1
  <2>1. ASSUME NEW u \in G!Asked, turn[u].calm
        PROVE  turn[u].reverts # reverts
    <3>1. turn[u].reverts < reverts /\ reverts \in Nat /\ turn[u] \in Progress
      BY <1>5, <2>1, TalkSetup DEF CalmTurns, Calm, TalkInv, TalkTypes
    <3> QED BY <3>1 DEF Progress
  <2>2. Pending = {}
    BY <1>2, <2>1 DEF Pending, Sits
  <2>3. Highest' = Highest
    BY <1>3, <1>5, <2>2 DEF Highest
  <2>4. \A u \in G!Asked : Sits(u)'
    BY <1>1, <1>2, <2>1 DEF Sits, G!Late
  <2>5. \A s \in 1..MaxTurns : Row(s)'
    BY <1>1, <1>2, <2>3 DEF Row, Chained, Follows
  <2> QED BY <1>1, <2>4, <2>5
<1> QED BY <1>4, <1>5 DEF Resets

LEMMA AskRows ==
  ASSUME G!Setting, TalkInv, CalmTurns, RowsInv,
         NEW choice \in Specialist \cup {G!Router}, NEW agenda \in BOOLEAN, G!Ask(choice, agenda)
  PROVE  RowsInv'
<1> SUFFICES ASSUME ~lapse' PROVE (\A u \in G!Asked' : Sits(u)') /\ \A s \in 1..MaxTurns : Row(s)'
  BY DEF RowsInv
<1>1. PICK l \in Nat, a \in Specialist \cup {G!Router}, k \in Progress :
           /\ l = Len(agent) /\ Len(agent') = l + 1 /\ G!Asked' = 1..l + 1 /\ turn'[l + 1] = k
           /\ \A u \in 1..l : turn'[u] = turn[u] /\ agent'[u] = agent[u]
           /\ k.pc = "tail" /\ k.history = <<>>
           /\ UNCHANGED <<tail, rows, undo, lapse, reverts>>
  BY Asks DEF TalkInv
<1>2. ~lapse /\ G!Asked = 1..l /\ \A u \in G!Asked' : u \in G!Asked \/ u = l + 1
  BY <1>1, TalkSetup DEF TalkInv
<1>3. (\A u \in G!Asked : Sits(u)) /\ \A s \in 1..MaxTurns : Row(s)
  BY <1>2 DEF RowsInv
<1>4. ASSUME NEW u \in G!Asked'
      PROVE  Sits(u)'
  <2>1. CASE u \in G!Asked
    <3>1. G!Late(u)'
      BY <1>1, <1>2, <2>1 DEF G!Late
    <3> QED BY <1>1, <1>2, <1>3, <2>1, <3>1 DEF Sits, G!Number
  <2>2. CASE u = l + 1
    BY <1>1, <2>2 DEF Sits, Reads
  <2> QED BY <1>2, <2>1, <2>2
<1>5. Pending' = Pending
  <2>1. turn'[l + 1].pc # "insert" /\ \A u \in G!Asked : u \in G!Asked' /\ turn'[u] = turn[u]
    BY <1>1, <1>2
  <2>2. \A u : u \in Pending' <=> u \in Pending
    BY <1>1, <1>2, <2>1 DEF Pending
  <2> QED BY <2>2 DEF Pending
<1>6. Highest' = Highest
  BY <1>1, <1>5 DEF Highest
<1>7. ASSUME NEW s \in 1..MaxTurns
      PROVE  Row(s)'
  <2>1. rows[s] # G!NoRow => Chained(s)'
    BY <1>1, <1>2, <1>3, ChainStays DEF Row
  <2> QED BY <1>1, <1>3, <1>6, <2>1 DEF Row
<1> QED BY <1>4, <1>7

LEMMA RevertRows ==
  ASSUME G!Setting, TalkInv, CalmTurns, RowsInv, NEW t \in G!Asked, G!Revert(t)
  PROVE  RowsInv'
<1> SUFFICES ASSUME ~lapse' PROVE (\A u \in G!Asked' : Sits(u)') /\ \A s \in 1..MaxTurns : Row(s)'
  BY DEF RowsInv
<1>1. PICK n \in 1..MaxTurns :
           /\ undo' = n /\ rows[n] # G!NoRow
           /\ \A s \in 1..MaxTurns : rows'[s] = IF s >= n THEN G!NoRow ELSE rows[s]
           /\ reverts' = reverts + 1 /\ UNCHANGED <<tail, agent, turn, lapse>>
  BY Reverts
<1>2. ~lapse /\ G!Asked' = G!Asked /\ MaxTurns \in Nat /\ n \in Nat /\ n # 0
  BY <1>1 DEF G!Asked, G!Setting
<1>3. (\A u \in G!Asked : Sits(u)) /\ \A s \in 1..MaxTurns : Row(s)
  BY <1>2 DEF RowsInv
<1>4. \A u \in G!Asked : turn[u].reverts # reverts'
  <2>1. \A u \in G!Asked : turn[u].reverts <= reverts /\ turn[u].reverts \in Nat /\ reverts \in Nat
    BY TalkSetup DEF CalmTurns, Calm, TalkInv, TalkTypes, Progress
  <2> QED BY <1>1, <2>1
<1>5. \A u \in G!Asked : Sits(u)'
  BY <1>1, <1>3, <1>4 DEF Sits, G!Late
<1>6. Highest' = n - 1
  BY <1>1, <1>2 DEF Highest
<1>7. n <= Highest
  BY <1>1, <1>3 DEF Row
<1>8. Highest \in Int
  BY DEF Highest, TalkInv, TalkTypes
<1>9. ASSUME NEW s \in 1..MaxTurns
      PROVE  Row(s)'
  <2>1. s \in Nat
    BY <1>2
  <2>2. CASE s >= n
    <3>1. rows'[s] = G!NoRow /\ ~(s <= n - 1)
      BY <1>1, <1>2, <2>1, <2>2
    <3> QED BY <1>6, <3>1 DEF Row
  <2>3. CASE ~(s >= n)
    <3>1. \A r \in 1..s : r \in 1..MaxTurns /\ ~(r >= n)
      BY <1>2, <2>1, <2>3
    <3>2. \A r \in 1..s : rows'[r] = rows[r]
      BY <1>1, <3>1
    <3>3. rows'[s] = rows[s] /\ s <= Highest /\ s <= n - 1
      BY <1>1, <1>2, <1>7, <1>8, <2>1, <2>3
    <3>4. Chained(s)'
      BY <1>1, <1>3, <3>2, <3>3, ChainStays DEF Row
    <3> QED BY <1>3, <1>6, <3>3, <3>4 DEF Row
  <2> QED BY <2>2, <2>3
<1> QED BY <1>2, <1>5, <1>9

LEMMA DieRows ==
  ASSUME G!Setting, TalkInv, CalmTurns, RowsInv, G!Die
  PROVE  RowsInv'
<1> SUFFICES ASSUME ~lapse' PROVE (\A u \in G!Asked' : Sits(u)') /\ \A s \in 1..MaxTurns : Row(s)'
  BY DEF RowsInv
<1>1. /\ ~lapse /\ undo = 0 /\ undo' = 0 /\ \A u \in G!Asked : turn[u].pc # "insert"
      /\ UNCHANGED <<tail, rows, agent, reverts>> /\ G!Asked' = G!Asked
  BY DEF G!Die, G!At, G!Asked
<1>2. \A u \in G!Asked : turn'[u].pc = "over"
  <2>1. \A u \in G!Asked : turn'[u] = [turn[u] EXCEPT !.pc = "over"] /\ turn[u] \in Progress
    BY DieTalk, TalkSetup DEF TalkInv
  <2> QED BY <2>1 DEF Progress
<1>3. \A s \in 1..MaxTurns : Row(s)
  BY <1>1 DEF RowsInv
<1>4. \A u \in G!Asked : Sits(u)'
  BY <1>2 DEF Sits, Reads
<1>5. Pending = {} /\ Pending' = {}
  BY <1>1, <1>2 DEF Pending
<1>6. Highest' = Highest
  BY <1>1, <1>5 DEF Highest
<1>7. \A s \in 1..MaxTurns : Row(s)'
  BY <1>1, <1>3, <1>6 DEF Row, Chained, Follows
<1> QED BY <1>1, <1>4, <1>7

LEMMA RowsNext ==
  ASSUME G!Setting, TalkInv, CalmTurns, RowsInv, [G!Next]_(G!vars)
  PROVE  RowsInv'
<1>1. CASE UNCHANGED G!vars
  <2>1. UNCHANGED <<tail, rows, agent, turn, undo, lapse, reverts>>
    BY <1>1 DEF G!vars
  <2>2. G!Asked' = G!Asked /\ Pending' = Pending
    BY <2>1 DEF G!Asked, Pending
  <2>3. Highest' = Highest
    BY <2>1, <2>2 DEF Highest
  <2> QED BY <2>1, <2>2, <2>3 DEF RowsInv, Sits, Row, G!Late, Reads, Carried, G!Number, Chained, Follows
<1>2. ASSUME NEW t \in G!Asked, Step(t)
      PROVE  RowsInv'
  BY <1>2, MovesRows, UpsertRows, KeepsRows, SeesRows DEF Step
<1>3. CASE G!Stop
  BY <1>2, <1>3, StopIs, ResetsRows
<1>4. CASE G!RevertTail
  BY <1>4, RevertTailIs, ResetsRows
<1> QED BY <1>1, <1>2, <1>3, <1>4, StepIs, AskRows, RevertRows, DieRows DEF G!Next

LEMMA RowsInit == G!Setting /\ G!Init => RowsInv
<1> SUFFICES ASSUME G!Setting, G!Init PROVE RowsInv
  OBVIOUS
<1>1. G!Asked = {} /\ undo = 0 /\ tail = 0 /\ MaxTurns \in Nat /\ \A s \in 1..MaxTurns : rows[s] = G!NoRow
  BY DEF G!Init, G!Asked, G!Setting
<1>2. Highest = 0
  BY <1>1 DEF Highest, Pending
<1>3. \A s \in 1..MaxTurns : ~(s <= 0)
  BY <1>1
<1> QED BY <1>1, <1>2, <1>3 DEF RowsInv, Row

-----------------------------------------------------------------------------
LEMMA TalkIsTyped ==
  ASSUME G!Setting, TalkInv
  PROVE  G!TypeOK
<1>1. TalkTypes /\ TalkNumbers /\ G!Asked = 1..Len(agent) /\ Len(agent) \in Nat /\ MaxTurns \in Nat
  BY TalkSetup DEF TalkInv
<1>2. PICK c : c = Cardinality(Beyond) /\ c \in Nat /\ c <= Len(agent)
  BY <1>1, Few DEF Beyond
<1>3. tail \in G!Numbers /\ client \in G!Numbers /\ undo \in G!Numbers
  BY <1>1, <1>2 DEF TalkTypes, TalkNumbers, G!Numbers
<1>4. ASSUME NEW h \in Seq(Exchange), \A i \in 1..Len(h) : h[i].by \in G!Asked
      PROVE  G!History(h)
  <2>1. DOMAIN h = 1..Len(h) /\ \A i \in 1..Len(h) : h[i] \in Exchange
    BY <1>4
  <2> QED BY <1>4, <2>1 DEF G!History, Exchange
<1>5. ASSUME NEW s \in DOMAIN rows
      PROVE  rows[s].by \in G!Numbers /\ G!History(rows[s].cursor)
  <2>1. s \in 1..MaxTurns /\ rows[s] \in Entry
    BY <1>1, <1>5 DEF TalkTypes
  <2>2. rows[s].by \in 0..Len(agent) /\ \A i \in 1..Len(rows[s].cursor) : rows[s].cursor[i].by \in G!Asked
    BY <1>1, <2>1 DEF TalkNumbers
  <2>3. rows[s].by \in G!Numbers
    BY <1>1, <2>2 DEF TalkTypes, G!Numbers
  <2> QED BY <1>4, <2>1, <2>2, <2>3 DEF Entry
<1>6. ASSUME NEW t \in G!Asked
      PROVE  /\ agent[t] \in Specialist \cup {G!Router}
             /\ turn[t].pc \in G!Pcs /\ turn[t].base \in G!Numbers
             /\ G!History(turn[t].history)
  <2>1. turn[t] \in Progress /\ agent[t] \in Specialist \cup {G!Router}
    BY <1>1, TalkSetup
  <2>2. turn[t].base \in G!Numbers
    BY <1>1, TalkFits DEF G!Numbers
  <2>3. \A i \in 1..Len(turn[t].history) : turn[t].history[i].by \in G!Asked
    BY <1>1 DEF TalkNumbers
  <2> QED BY <1>4, <2>1, <2>2, <2>3 DEF Progress
<1>7. shown \subseteq G!Asked /\ lapse \in BOOLEAN
  BY <1>1 DEF TalkTypes
<1> QED BY <1>3, <1>5, <1>6, <1>7 DEF G!TypeOK

LEMMA RowsHandOn ==
  ASSUME G!Setting, TalkInv, RowsInv
  PROVE  G!HistoryIsWhatIsStored
<1> SUFFICES ASSUME ~lapse, NEW s \in DOMAIN rows, rows[s] # G!NoRow
             PROVE  LET h == rows[s].cursor
                        first == s - Len(h)
                    IN /\ Len(h) <= s /\ (Len(h) = s \/ Len(h) >= MaxTurnsKept)
                       /\ \A i \in DOMAIN h : /\ h[i].by = rows[first + i].by
                                              /\ h[i].tools = (agent[h[i].by] # G!Router)
  BY DEF G!HistoryIsWhatIsStored
<1>1. s \in 1..MaxTurns
  BY DEF TalkInv, TalkTypes
<1>2. Chained(s)
  BY <1>1 DEF RowsInv, Row
<1> QED BY <1>2 DEF Chained, Follows

\* The tail and the numbers of the turns stay those of rows, and a history names turns
\* of the conversation only: runtime/store.py and history.py keep their types.
THEOREM TalksAreTyped == G!Setting /\ G!Spec => []G!TypeOK
<1>1. G!Setting /\ G!Init => TalkInv
  BY TalkInit
<1>2. G!Setting /\ TalkInv /\ [G!Next]_(G!vars) => TalkInv'
  BY TalkNext
<1>3. G!Setting /\ TalkInv => G!TypeOK
  BY TalkIsTyped
<1>4. CASE G!Setting
  BY <1>1, <1>2, <1>3, <1>4, PTL DEF G!Spec
<1> QED BY <1>4

\* A specialist's turn that the member saw done stays in its row until the member
\* reverts it: a save that lands late never replaces the row of another turn.
THEOREM DoneStaysStored == G!Setting /\ G!Spec => []G!DoneIsStored
<1>1. G!Setting /\ G!Init => TalkInv
  BY TalkInit
<1>2. G!Setting /\ TalkInv /\ [G!Next]_(G!vars) => TalkInv'
  BY TalkNext
<1>3. G!Setting /\ TalkInv => G!DoneIsStored
  <2> SUFFICES ASSUME G!Setting, TalkInv PROVE G!DoneIsStored
    OBVIOUS
  <2>1. TalkDone /\ shown \subseteq G!Asked
    BY DEF TalkInv, TalkTypes
  <2> QED BY <2>1 DEF TalkDone, G!DoneIsStored
<1>4. CASE G!Setting
  BY <1>1, <1>2, <1>3, <1>4, PTL DEF G!Spec
<1> QED BY <1>4

\* The history that a stored turn hands on is that of the turns stored up to it, except
\* where writes overlapped or were done by half: save_turn and the revert leave no gap
\* between the rows and the tail.
THEOREM StoredIsTheHistory == G!Setting /\ G!Spec => []G!HistoryIsWhatIsStored
<1>1. G!Setting /\ G!Init => TalkInv /\ CalmTurns /\ RowsInv
  BY TalkInit, CalmInit, RowsInit
<1>2. G!Setting /\ TalkInv /\ CalmTurns /\ RowsInv /\ [G!Next]_(G!vars) => TalkInv' /\ CalmTurns' /\ RowsInv'
  BY TalkNext, CalmNext, RowsNext
<1>3. G!Setting /\ TalkInv /\ RowsInv => G!HistoryIsWhatIsStored
  BY RowsHandOn
<1>4. CASE G!Setting
  BY <1>1, <1>2, <1>3, <1>4, PTL DEF G!Spec
<1> QED BY <1>4

\* Both of them: a member's conversation keeps what was seen done, and hands it on
\* (runtime/store.py, save_turn and delete_turns_at_or_after).
THEOREM TalksAlwaysHold == G!Setting /\ G!Spec => []ConversationsHold
<1>1. G!DoneIsStored /\ G!HistoryIsWhatIsStored => ConversationsHold
  BY DEF ConversationsHold
<1>2. G!Setting => (G!Spec => []G!DoneIsStored /\ []G!HistoryIsWhatIsStored)
  BY DoneStaysStored, StoredIsTheHistory
<1> QED BY <1>1, <1>2, PTL

-----------------------------------------------------------------------------
(* Feishu: the state                                                       *)

Pcs == {"idle", "editing", "active", "context", "selected", "stage", "consume", "consumed",
        "expired", "create", "bind", "mode", "torn", "clear", "deleting", "suggesting", "write",
        "over"}

Calls == [pc : Pcs, tool : F!Tool \cup {NoOne}, yes : BOOLEAN, msg : Nat,
          ws : Workspace \cup {NoOne}, mv : Nat]

Requests == {"none", "sent", "at work", "ok", "error"}

Payloads == [action : F!Tool, ws : Workspace \cup {NoOne}, mv : Nat]

Staged == [what : Payloads, msg : Nat, by : Member]

StoreOK ==
  /\ binding \in Workspace \cup {NoOne} /\ mode \in {"readonly", "editing"}
  /\ hook \in {"idle", "clear"}
  /\ pending # NoOne =>
       /\ pending \in [what : Payloads, msg : Nat, by : Member, late : BOOLEAN]
       /\ [what |-> pending.what, msg |-> pending.msg, by |-> pending.by] \in requested

InboxOK ==
  /\ sender \in Seq(Member) /\ mv \in [Workspace -> Nat]
  /\ exists \subseteq {w \in Workspace : mv[w] > 0}

\* Which tools come by a step.
ToolOf(k) ==
  /\ k.pc # "idle" => k.tool \in F!Tool
  /\ k.pc = "editing" => k.tool \in {"create", "delete", "describe", "import"}
  /\ k.pc \in {"active", "context"} => k.tool \in {"delete", "suggest", "describe", "import"}
  /\ k.pc = "stage" => k.tool \in {"create", "delete", "suggest"}
  /\ k.pc \in {"consume", "consumed", "expired"} => k.tool \in {"create", "delete", "describe"}
  /\ k.pc = "create" => k.tool = "create"
  /\ k.pc \in {"bind", "mode", "torn", "clear"} => k.tool \in {"create", "select"}
  /\ k.pc = "deleting" => k.tool = "delete"
  /\ k.pc = "suggesting" => k.tool = "suggest"
  /\ k.pc = "selected" => k.tool = "write" /\ k.ws # NoOne
  /\ k.pc = "write" => k.tool \in {"describe", "import", "write"}

\* A call that has been confirmed was asked for before: a creation and a deletion
\* in another message of the same member, a deletion for its workspace, a
\* description for its workspace and manifest.
Confirmed(k, q) ==
  /\ k.tool = "create" /\ k.pc \in {"consumed", "create"} =>
       \E a \in requested : a.what.action = "create" /\ a.by = sender[k.msg] /\ a.msg # k.msg
  /\ k.tool = "delete" /\ (k.pc = "consumed" \/ q # "none") =>
       \E a \in requested : /\ a.what.action = "delete" /\ a.by = sender[k.msg] /\ a.msg # k.msg
                            /\ a.what.ws = k.ws
  /\ k.tool = "describe" /\ k.pc \in {"consumed", "write"} /\ k.ws # NoOne =>
       \E a \in requested : a.what = [action |-> "describe", ws |-> k.ws, mv |-> k.mv]
  /\ k.tool = "describe" /\ k.pc = "write" => k.ws # NoOne

CallOK(k, q) ==
  /\ k \in Calls /\ q \in Requests
  /\ k.pc # "idle" => k.msg \in 1..Len(sender)
  /\ k.pc \in F!Waiting => q # "none"
  /\ q # "none" => k.pc \in F!Waiting \cup {"stage", "over"}
  /\ ToolOf(k) /\ Confirmed(k, q)

CallsOK ==
  /\ requested \subseteq Staged
  /\ calls \in [ToolCall -> Calls] /\ request \in [ToolCall -> Requests]
  /\ \A c \in ToolCall : CallOK(calls[c], request[c])

\* What is inductive.
ChatInv ==
  /\ StoreOK /\ InboxOK /\ CallsOK
  /\ F!ConfirmedTwice /\ F!DescriptionFits /\ F!EditingIsForThisWorkspace

-----------------------------------------------------------------------------
(* Feishu: a step of one call                                              *)

\* Call c becomes k, its request q, and nothing else of the calls changes.
Becomes(c, k, q) ==
  /\ calls' = [calls EXCEPT ![c] = k] /\ request' = [request EXCEPT ![c] = q]

LEMMA OthersKeep ==
  ASSUME ChatInv, NEW c \in ToolCall, NEW k, NEW q, Becomes(c, k, q), sender' = sender,
         requested \subseteq requested', requested' \subseteq Staged, CallOK(k, q)'
  PROVE  CallsOK'
<1>1. k \in Calls /\ q \in Requests
  BY DEF CallOK
<1>2. ASSUME NEW d \in ToolCall PROVE CallOK(calls[d], request[d])'
  <2>1. CASE d = c
    BY <2>1 DEF Becomes, ChatInv, CallsOK
  <2>2. CASE d # c
    <3>1. calls'[d] = calls[d] /\ request'[d] = request[d]
      BY <2>2 DEF Becomes, ChatInv, CallsOK
    <3>2. CallOK(calls[d], request[d])
      BY DEF ChatInv, CallsOK
    <3>3. Confirmed(calls[d], request[d])'
      BY <3>1, <3>2 DEF CallOK, Confirmed
    <3> QED BY <3>1, <3>2, <3>3 DEF CallOK
  <2> QED BY <2>1, <2>2
<1> QED BY <1>1, <1>2 DEF CallsOK, Becomes, ChatInv

\* A call goes on: it may forget a workspace or drop a confirmation, and leaves
\* what has been done as it is.
LEMMA CallGoesOn ==
  ASSUME ChatInv, NEW c \in ToolCall, NEW k, NEW q, Becomes(c, k, q), CallOK(k, q),
         UNCHANGED <<mode, hook, sender, mv, editFor, requested, done>>,
         binding' \in {binding, NoOne}, pending' \in {pending, NoOne}, exists' = exists,
         calls[c].pc \in {"mode", "torn"} => k.pc \in {"mode", "torn"}
  PROVE  ChatInv'
<1>1. CallOK(k, q)'
  BY DEF CallOK, Confirmed
<1>2. CallsOK'
  BY <1>1, OthersKeep DEF ChatInv, CallsOK
<1>3. StoreOK'
  BY DEF ChatInv, StoreOK
<1>4. InboxOK'
  BY DEF ChatInv, InboxOK
<1>5. F!ConfirmedTwice' /\ F!DescriptionFits'
  BY DEF ChatInv, F!ConfirmedTwice, F!DescriptionFits
<1>6. F!EditingIsForThisWorkspace'
  <2>1. \A d \in ToolCall : calls'[d].pc \notin {"mode", "torn"} => calls[d].pc \notin {"mode", "torn"}
    BY DEF Becomes, ChatInv, CallsOK
  <2> QED BY <2>1 DEF ChatInv, F!EditingIsForThisWorkspace
<1> QED BY <1>2, <1>3, <1>4, <1>5, <1>6 DEF ChatInv

\* A step beside the calls.
LEMMA Besides ==
  ASSUME ChatInv, UNCHANGED <<calls, request, requested, done>>, StoreOK', InboxOK',
         F!EditingIsForThisWorkspace',
         Len(sender') >= Len(sender), \A n \in 1..Len(sender) : sender'[n] = sender[n]
  PROVE  ChatInv'
<1>1. ASSUME NEW c \in ToolCall PROVE CallOK(calls[c], request[c])'
  <2>1. CallOK(calls[c], request[c])
    BY DEF ChatInv, CallsOK
  <2>2. Len(sender) \in Nat /\ Len(sender') \in Nat
    BY DEF ChatInv, InboxOK
  <2>3. calls[c].pc # "idle" => calls[c].msg \in 1..Len(sender')
    BY <2>1, <2>2 DEF CallOK
  <2>4. Confirmed(calls[c], request[c])'
    <3>1. ASSUME calls[c].pc # "idle" PROVE sender'[calls[c].msg] = sender[calls[c].msg]
      BY <2>1, <3>1 DEF CallOK
    <3>2. calls[c].pc = "idle" => request[c] = "none"
      BY <2>1 DEF CallOK, F!Waiting
    <3> QED BY <2>1, <3>1, <3>2 DEF CallOK, Confirmed
  <2> QED BY <2>1, <2>3, <2>4 DEF CallOK
<1>2. CallsOK'
  BY <1>1 DEF ChatInv, CallsOK
<1>3. F!ConfirmedTwice' /\ F!DescriptionFits'
  BY DEF ChatInv, F!ConfirmedTwice, F!DescriptionFits
<1> QED BY <1>2, <1>3 DEF ChatInv

\* What a call relies on where it is.
LEMMA Here ==
  ASSUME ChatInv, NEW c \in ToolCall
  PROVE  /\ CallOK(calls[c], request[c]) /\ calls[c] \in Calls /\ request[c] \in Requests
         /\ binding \in Workspace \cup {NoOne}
         /\ request = [request EXCEPT ![c] = request[c]]
         /\ calls = [calls EXCEPT ![c] = calls[c]]
         /\ \A x : F!GoTo(c, x) <=> calls' = [calls EXCEPT ![c] = [calls[c] EXCEPT !.pc = x]]
BY DEF ChatInv, CallsOK, StoreOK, F!GoTo

\* Call c goes to another step with a workspace and a manifest version.
With(k, x, w, m) == [k EXCEPT !.pc = x, !.ws = w, !.mv = m]

LEMMA MovesTo ==
  ASSUME ChatInv, NEW c \in ToolCall, NEW x, F!GoTo(c, x)
  PROVE  calls' = [calls EXCEPT ![c] = With(calls[c], x, calls[c].ws, calls[c].mv)]
<1>1. calls \in [ToolCall -> Calls] /\ calls[c] \in Calls
  BY DEF ChatInv, CallsOK
<1>2. [calls[c] EXCEPT !.pc = x] = With(calls[c], x, calls[c].ws, calls[c].mv)
  BY <1>1 DEF With, Calls
<1> QED BY <1>1, <1>2 DEF F!GoTo

LEMMA TakesWorkspace ==
  ASSUME ChatInv, NEW c \in ToolCall, NEW x, NEW w, calls' = [calls EXCEPT ![c].ws = w, ![c].pc = x]
  PROVE  calls' = [calls EXCEPT ![c] = With(calls[c], x, w, calls[c].mv)]
<1>1. calls \in [ToolCall -> Calls] /\ calls[c] \in Calls
  BY DEF ChatInv, CallsOK
<1>2. [calls[c] EXCEPT !.ws = w, !.pc = x] = With(calls[c], x, w, calls[c].mv)
  BY <1>1 DEF With, Calls
<1>3. calls' = [calls EXCEPT ![c] = [calls[c] EXCEPT !.ws = w, !.pc = x]]
  BY <1>1
<1> QED BY <1>2, <1>3

LEMMA TakesVersion ==
  ASSUME ChatInv, NEW c \in ToolCall, NEW x, NEW m, calls' = [calls EXCEPT ![c].mv = m, ![c].pc = x]
  PROVE  calls' = [calls EXCEPT ![c] = With(calls[c], x, calls[c].ws, m)]
<1>1. calls \in [ToolCall -> Calls] /\ calls[c] \in Calls
  BY DEF ChatInv, CallsOK
<1>2. [calls[c] EXCEPT !.mv = m, !.pc = x] = With(calls[c], x, calls[c].ws, m)
  BY <1>1 DEF With, Calls
<1>3. calls' = [calls EXCEPT ![c] = [calls[c] EXCEPT !.mv = m, !.pc = x]]
  BY <1>1
<1> QED BY <1>2, <1>3

LEMMA GoesWithVersion ==
  ASSUME ChatInv, NEW c \in ToolCall, NEW x, NEW m, calls' = [calls EXCEPT ![c].pc = x, ![c].mv = m]
  PROVE  calls' = [calls EXCEPT ![c] = With(calls[c], x, calls[c].ws, m)]
<1>1. calls \in [ToolCall -> Calls] /\ calls[c] \in Calls
  BY DEF ChatInv, CallsOK
<1>2. [calls[c] EXCEPT !.pc = x, !.mv = m] = With(calls[c], x, calls[c].ws, m)
  BY <1>1 DEF With, Calls
<1>3. calls' = [calls EXCEPT ![c] = [calls[c] EXCEPT !.pc = x, !.mv = m]]
  BY <1>1
<1> QED BY <1>2, <1>3

LEMMA StartStep ==
  ASSUME F!Setting, ChatInv, NEW c \in ToolCall, NEW t \in Tools, NEW yes \in BOOLEAN,
         NEW w \in Workspace \cup {NoOne}, F!StartCall(c, t, yes, w)
  PROVE  ChatInv'
<1>1. PICK n \in 1..Len(sender) :
        calls' = [calls EXCEPT ![c] =
         [pc |-> CASE t \in {"create", "delete"}     -> "editing"
                   [] t \in {"suggest", "describe"}  -> "active"
                   [] t = "import"                   -> "active"
                   [] t = "select"                   -> IF w \in exists THEN "bind" ELSE "over"
                   [] t = "write"                    -> "selected",
          tool |-> t, yes |-> yes, msg |-> n, ws |-> w, mv |-> 0]]
  BY DEF F!StartCall
<1>2. PICK x :
        /\ \/ t \in {"create", "delete"} /\ x = "editing"
           \/ t \in {"suggest", "describe", "import"} /\ x = "active"
           \/ t = "select" /\ x \in {"bind", "over"}
           \/ t = "write" /\ x = "selected"
        /\ calls' = [calls EXCEPT ![c] =
             [pc |-> x, tool |-> t, yes |-> yes, msg |-> n, ws |-> w, mv |-> 0]]
  <2>1. t \in F!Tool
    BY DEF F!Setting
  <2> QED BY <1>1, <2>1 DEF F!Tool
<1>3. PICK k : k = [pc |-> x, tool |-> t, yes |-> yes, msg |-> n, ws |-> w, mv |-> 0]
  OBVIOUS
<1>4. PICK q : q = request[c]
  OBVIOUS
<1>5. q = "none" /\ calls[c].pc = "idle" /\ (t = "write" => w # NoOne)
  BY <1>4, Here DEF F!StartCall, F!At, CallOK, F!Waiting
<1>6. n \in Nat /\ t \in F!Tool /\ x \in Pcs
  <2>1. Len(sender) \in Nat
    BY DEF ChatInv, InboxOK
  <2> QED BY <1>2, <2>1 DEF F!Setting, Pcs
<1>7. CallOK(k, q)
  BY <1>2, <1>3, <1>5, <1>6 DEF CallOK, Calls, Requests, F!Waiting, ToolOf, Confirmed
<1>8. Becomes(c, k, q) /\ UNCHANGED <<F!store, hook, sender, F!inbox, F!history>>
  BY <1>2, <1>3, <1>4, Here DEF F!StartCall, Becomes, F!inbox
<1> QED BY <1>5, <1>7, <1>8, CallGoesOn DEF F!store, F!inbox, F!history

\* The call reads the mode, the workspace and its context.
LEMMA ReadStep ==
  ASSUME ChatInv, NEW c \in ToolCall,
         F!GuardWrite(c) \/ F!RequireEditing(c) \/ F!ActiveWorkspace(c) \/ F!GetContext(c)
  PROVE  ChatInv'
<1>1. PICK t, b, v : t = calls[c].tool /\ b = binding /\ v = mv[calls[c].ws]
  OBVIOUS
<1>2. /\ UNCHANGED <<mode, pending, hook, sender, exists, mv, F!history>>
      /\ binding' \in {binding, NoOne}
  BY DEF F!GuardWrite, F!RequireEditing, F!ActiveWorkspace, F!GetContext, F!store, F!inbox, F!ClearWorkspace
<1>3. /\ calls[c].pc \in {"selected", "editing", "active", "context"}
      /\ request[c] = "none" /\ calls[c] \in Calls /\ calls[c].msg \in 1..Len(sender)
      /\ ToolOf(calls[c])
  BY Here DEF F!GuardWrite, F!RequireEditing, F!ActiveWorkspace, F!GetContext, F!At, CallOK, F!Waiting
<1>4. PICK x, w, m, q :
        /\ Becomes(c, With(calls[c], x, w, m), q)
        /\ w \in Workspace \cup {NoOne} /\ m \in Nat
        /\ \/ x = "over" /\ q = "none"
           \/ t = "write" /\ x = "write" /\ q = "none"
           \/ t = "create" /\ x \in {"consume", "stage"} /\ q = "none"
           \/ t = "delete" /\ x \in {"active", "context", "consume", "stage"} /\ q = "none"
           \/ t = "describe" /\ x \in {"context", "editing", "consume"} /\ q = "none"
           \/ t = "import" /\ x \in {"context", "editing", "write"} /\ q = "none"
           \/ t = "suggest" /\ x = "context" /\ q = "none"
           \/ t = "suggest" /\ x = "suggesting" /\ q = "sent"
  <2>1. /\ calls[c].ws \in Workspace \cup {NoOne} /\ calls[c].mv \in Nat
    BY <1>3 DEF Calls
  <2>2. CASE F!GuardWrite(c)
    <3>1. /\ calls' = [calls EXCEPT ![c].pc = IF binding = calls[c].ws THEN "write" ELSE "over",
                                    ![c].mv = v]
          /\ t = "write" /\ request' = request
      BY <1>1, <1>3, <2>2 DEF F!GuardWrite, F!inbox, F!At, ToolOf
    <3>2. v \in Nat
      BY <1>1, <1>3, <2>2 DEF F!GuardWrite, F!At, ToolOf, Calls, ChatInv, InboxOK
    <3>3. PICK x \in {"write", "over"} : calls' = [calls EXCEPT ![c].pc = x, ![c].mv = v]
      BY <3>1
    <3>4. Becomes(c, With(calls[c], x, calls[c].ws, v), "none")
      <4>1. calls' = [calls EXCEPT ![c] = With(calls[c], x, calls[c].ws, v)]
        <5>1. \A m : calls' = [calls EXCEPT ![c].pc = x, ![c].mv = m] =>
                      calls' = [calls EXCEPT ![c] = With(calls[c], x, calls[c].ws, m)]
          BY GoesWithVersion
        <5> QED BY <3>3, <5>1
      <4>2. request' = [request EXCEPT ![c] = "none"]
        BY <1>3, <3>1, Here
      <4> QED BY <4>1, <4>2 DEF Becomes
    <3> QED BY <2>1, <3>1, <3>2, <3>3, <3>4
  <2>3. CASE F!RequireEditing(c)
    <3>1. PICK x : /\ F!GoTo(c, x) /\ UNCHANGED request
                   /\ \/ x = "over"
                      \/ t = "create" /\ x \in {"consume", "stage"}
                      \/ t = "delete" /\ x = "active"
                      \/ t = "describe" /\ x = "consume"
                      \/ t = "import" /\ x = "write"
      BY <1>1, <1>3, <2>3 DEF F!RequireEditing, F!AfterEditing, F!At, ToolOf, F!inbox
    <3>2. Becomes(c, With(calls[c], x, calls[c].ws, calls[c].mv), "none")
      BY <1>3, <2>1, <3>1, Here, MovesTo, TakesWorkspace, TakesVersion DEF Becomes
    <3> QED BY <2>1, <3>1, <3>2
  <2>4. CASE F!ActiveWorkspace(c)
    <3>1. PICK x : /\ x \in {"over", "context"} /\ UNCHANGED request
                   /\ calls' = [calls EXCEPT ![c].ws = b, ![c].pc = x]
      BY <1>1, <2>4 DEF F!ActiveWorkspace, F!inbox
    <3>2. Becomes(c, With(calls[c], x, b, calls[c].mv), "none")
      BY ZenonT(30), <1>3, <3>1, Here, MovesTo, TakesWorkspace, TakesVersion DEF Becomes
    <3>3. t \in {"delete", "suggest", "describe", "import"}
      BY <1>1, <1>3, <2>4 DEF F!ActiveWorkspace, F!At, ToolOf
    <3> QED BY <1>1, <2>1, <3>1, <3>2, <3>3, Here
  <2>5. CASE F!GetContext(c)
    <3>1. t \in {"delete", "suggest", "describe", "import"}
      BY <1>1, <1>3, <2>5 DEF F!GetContext, F!At, ToolOf
    <3>2. CASE calls[c].ws \in exists
      <4>1. PICK x, q :
              /\ calls' = [calls EXCEPT ![c].mv = v, ![c].pc = x]
              /\ request' = [request EXCEPT ![c] = q]
              /\ \/ t = "delete" /\ x \in {"consume", "stage"} /\ q = "none"
                 \/ t = "suggest" /\ x = "suggesting" /\ q = "sent"
                 \/ t \in {"describe", "import"} /\ x = "editing" /\ q = "none"
        BY <1>1, <1>3, <2>5, <3>1, <3>2 DEF F!GetContext, F!AfterActive
      <4>2. v \in Nat
        BY <1>1, <3>2 DEF ChatInv, InboxOK
      <4>3. Becomes(c, With(calls[c], x, calls[c].ws, v), q)
        <5>1. \A m : calls' = [calls EXCEPT ![c].mv = m, ![c].pc = x] =>
                      calls' = [calls EXCEPT ![c] = With(calls[c], x, calls[c].ws, m)]
          BY TakesVersion
        <5> QED BY <4>1, <5>1 DEF Becomes
      <4> QED BY <2>1, <4>1, <4>2, <4>3
    <3>3. CASE calls[c].ws \notin exists
      <4>1. F!GoTo(c, "over") /\ UNCHANGED request
        BY <2>5, <3>3 DEF F!GetContext
      <4>2. Becomes(c, With(calls[c], "over", calls[c].ws, calls[c].mv), "none")
        BY <1>3, <2>1, <4>1, Here, MovesTo, TakesWorkspace, TakesVersion DEF Becomes
      <4> QED BY <2>1, <4>2
    <3> QED BY <3>2, <3>3
  <2> QED BY <2>2, <2>3, <2>4, <2>5
<1>5. PICK k : k = With(calls[c], x, w, m)
  OBVIOUS
<1>6. k \in Calls /\ k.pc = x /\ k.tool = t /\ k.msg = calls[c].msg /\ t \in F!Tool
  BY <1>1, <1>3, <1>4, <1>5 DEF Calls, Pcs, ToolOf, With
<1>7. CallOK(k, q)
  BY <1>3, <1>4, <1>6 DEF CallOK, Requests, F!Waiting, ToolOf, Confirmed
<1> QED BY <1>2, <1>3, <1>4, <1>5, <1>7, CallGoesOn DEF F!history

\* A call that goes to another step with what it has.
LEMMA StepsTo ==
  ASSUME ChatInv, NEW c \in ToolCall, NEW x, NEW q, F!GoTo(c, x), request' = [request EXCEPT ![c] = q],
         x \in Pcs, q \in Requests, calls[c].pc # "idle",
         x \in F!Waiting => q # "none", q # "none" => x \in F!Waiting \cup {"stage", "over"},
         ToolOf(With(calls[c], x, calls[c].ws, calls[c].mv)),
         Confirmed(With(calls[c], x, calls[c].ws, calls[c].mv), q),
         UNCHANGED <<mode, hook, sender, mv, F!history>>,
         binding' \in {binding, NoOne}, pending' \in {pending, NoOne}, exists' = exists,
         calls[c].pc \notin {"mode", "torn"}
  PROVE  ChatInv'
<1>1. PICK k : k = With(calls[c], x, calls[c].ws, calls[c].mv)
  OBVIOUS
<1>2. k \in Calls /\ k.pc = x /\ k.msg = calls[c].msg
  BY <1>1, Here DEF With, Calls
<1>3. CallOK(k, q)
  BY <1>1, <1>2, Here DEF CallOK
<1>4. Becomes(c, k, q)
  BY <1>1, MovesTo DEF Becomes
<1> QED BY <1>3, <1>4, CallGoesOn DEF F!history

LEMMA ConsumeStep ==
  ASSUME ChatInv, NEW c \in ToolCall, F!Consume(c)
  PROVE  ChatInv'
<1>1. /\ calls[c].pc = "consume" /\ request[c] = "none" /\ calls[c] \in Calls
      /\ calls[c].tool \in {"create", "delete", "describe"} /\ calls[c].msg \in 1..Len(sender)
      /\ UNCHANGED <<F!store, hook, sender, F!inbox, F!history>>
  BY Here DEF F!Consume, F!At, CallOK, ToolOf, F!Waiting
<1>2. CASE F!Matches(c)
  <2>1. PICK x, w, m :
          /\ x = IF pending.late THEN "expired" ELSE "consumed"
          /\ w = IF calls[c].tool = "describe" /\ pending.what.ws # calls[c].ws
                 THEN NoOne ELSE calls[c].ws
          /\ m = IF calls[c].tool = "describe" THEN pending.what.mv ELSE calls[c].mv
    OBVIOUS
  <2>2. calls' = [calls EXCEPT ![c].pc = x, ![c].ws = w, ![c].mv = m]
    BY <1>1, <1>2, <2>1 DEF F!Consume, ChatInv, CallsOK
  <2>3. PICK k : k = With(calls[c], x, w, m)
    OBVIOUS
  <2>4. calls \in [ToolCall -> Calls]
    BY DEF ChatInv, CallsOK
  <2>5. calls' = [calls EXCEPT ![c] = k]
    <3>1. calls' = [calls EXCEPT ![c] = With(calls[c], x, w, m)]
      BY <2>2, <2>4 DEF With
    <3> QED BY <2>3, <3>1
  <2>6. Becomes(c, k, "none")
    BY <1>1, <2>5, Here DEF Becomes, F!inbox
  <2>7. PICK a : a = [what |-> pending.what, msg |-> pending.msg, by |-> pending.by]
    OBVIOUS
  <2>8. /\ a \in requested /\ pending.what \in Payloads /\ a.what = pending.what
        /\ a.by = sender[calls[c].msg] /\ a.msg # calls[c].msg /\ a.what.action = calls[c].tool
        /\ calls[c].tool = "describe" \/ pending.what = F!Payload(c)
    BY <1>2, <2>7 DEF F!Matches, F!Asker, ChatInv, StoreOK
  <2>9. /\ k \in Calls /\ k.pc = x /\ k.tool = calls[c].tool /\ k.msg = calls[c].msg
        /\ k.ws = w /\ k.mv = m
    BY ZenonT(30), <1>1, <2>1, <2>3, <2>8 DEF With, Calls, Pcs, Payloads
  <2>10. Confirmed(k, "none")
    <3>1. ASSUME k.tool = "create"
          PROVE  a.what.action = "create" /\ a.by = sender[k.msg] /\ a.msg # k.msg
      BY <2>8, <2>9, <3>1
    <3>2. ASSUME k.tool = "delete"
          PROVE  a.what.action = "delete" /\ a.by = sender[k.msg] /\ a.msg # k.msg /\ a.what.ws = k.ws
      <4>1. pending.what = F!Payload(c) /\ w = calls[c].ws
        BY <2>1, <2>8, <2>9, <3>2
      <4>2. F!Payload(c).ws = calls[c].ws
        BY <2>9, <3>2 DEF F!Payload
      <4> QED BY <2>8, <2>9, <3>2, <4>1, <4>2
    <3>3. ASSUME k.tool = "describe", k.ws # NoOne
          PROVE  a.what = [action |-> "describe", ws |-> k.ws, mv |-> k.mv]
      BY <2>1, <2>8, <2>9, <3>3 DEF Payloads
    <3>4. k.pc \in {"consumed", "expired"}
      BY <2>1, <2>9
    <3> QED BY <2>8, <3>1, <3>2, <3>3, <3>4 DEF Confirmed
  <2>11. ToolOf(k)
    BY <1>1, <2>1, <2>9 DEF ToolOf, F!Tool
  <2>12. CallOK(k, "none")
    BY <1>1, <2>1, <2>9, <2>10, <2>11 DEF CallOK, Requests, F!Waiting
  <2> QED BY <1>1, <2>6, <2>12, CallGoesOn DEF F!store, F!inbox, F!history
<1>3. CASE ~F!Matches(c)
  <2>1. PICK x : /\ F!GoTo(c, x) /\ x \in Pcs
                 /\ x = IF calls[c].tool = "describe" THEN "over" ELSE "stage"
    BY <1>3 DEF F!Consume, Pcs
  <2>2. PICK k : k = With(calls[c], x, calls[c].ws, calls[c].mv)
    OBVIOUS
  <2>3. k.pc = x /\ k.tool = calls[c].tool
    BY <1>1, <2>2 DEF With, Calls
  <2>4. ToolOf(k) /\ Confirmed(k, "none")
    BY <1>1, <2>1, <2>3 DEF ToolOf, Confirmed, F!Tool
  <2>5. request' = [request EXCEPT ![c] = "none"] /\ "none" \in Requests
    BY <1>1, Here DEF F!inbox, Requests
  <2>6. x \notin F!Waiting
    BY <2>1 DEF F!Waiting
  <2> QED BY <1>1, <2>1, <2>2, <2>4, <2>5, <2>6, StepsTo DEF F!store, F!inbox, F!history
<1> QED BY <1>2, <1>3

LEMMA DeleteConfirmationStep ==
  ASSUME ChatInv, NEW c \in ToolCall, F!DeleteConfirmation(c)
  PROVE  ChatInv'
<1>1. /\ calls[c].pc \in {"consumed", "expired"} /\ request[c] = "none" /\ calls[c] \in Calls
      /\ calls[c].tool \in {"create", "delete", "describe"} /\ Confirmed(calls[c], "none")
      /\ UNCHANGED <<binding, mode, hook, sender, exists, mv, F!history>> /\ pending' = NoOne
  BY Here DEF F!DeleteConfirmation, CallOK, ToolOf, F!Waiting
<1>2. PICK x, q :
        /\ F!GoTo(c, x) /\ request' = [request EXCEPT ![c] = q]
        /\ \/ calls[c].pc = "consumed" /\ calls[c].tool = "create" /\ x = "create" /\ q = "none"
           \/ calls[c].pc = "consumed" /\ calls[c].tool = "delete" /\ x = "deleting" /\ q = "sent"
           \/ /\ calls[c].pc = "consumed" /\ calls[c].tool = "describe" /\ calls[c].ws # NoOne
              /\ x = "write" /\ q = "none"
           \/ calls[c].tool = "describe" /\ x = "over" /\ q = "none"
           \/ calls[c].tool \in {"create", "delete"} /\ x = "stage" /\ q = "none"
  <2>1. PICK x : x = IF F!At(c, "consumed") THEN F!AfterConfirmation(c)
                     ELSE IF calls[c].tool = "describe" THEN "over" ELSE "stage"
    OBVIOUS
  <2>2. PICK q : q = IF F!At(c, "consumed") /\ calls[c].tool = "delete" THEN "sent" ELSE "none"
    OBVIOUS
  <2>3. F!GoTo(c, x) /\ request' = [request EXCEPT ![c] = q]
    BY <1>1, <2>1, <2>2, Here DEF F!DeleteConfirmation
  <2> QED BY <1>1, <2>1, <2>2, <2>3 DEF F!AfterConfirmation, F!At
<1>3. PICK k : k = With(calls[c], x, calls[c].ws, calls[c].mv)
  OBVIOUS
<1>4. k.pc = x /\ k.tool = calls[c].tool /\ k.msg = calls[c].msg /\ k.ws = calls[c].ws /\ k.mv = calls[c].mv
  BY <1>1, <1>3 DEF With, Calls
<1>5. ToolOf(k) /\ x \in Pcs /\ q \in Requests
  BY <1>1, <1>2, <1>4 DEF ToolOf, F!Tool, Pcs, Requests
<1>6. Confirmed(k, q)
  BY <1>1, <1>2, <1>4 DEF Confirmed
<1> QED BY <1>1, <1>2, <1>3, <1>5, <1>6, StepsTo DEF F!Waiting

\* A call hears an answer, gives up, or ends a switch.
LEMMA EndsStep ==
  ASSUME ChatInv, NEW c \in ToolCall,
         F!ClearConfirmation(c) \/ F!HearDelete(c) \/ F!HearSuggest(c) \/ F!GiveUp(c)
  PROVE  ChatInv'
<1>1. PICK x : /\ F!GoTo(c, x) /\ UNCHANGED request
               /\ x = "over" \/ (x = "stage" /\ calls[c].pc = "suggesting")
  <2>1. CASE F!HearSuggest(c)
    <3>1. PICK x : F!GoTo(c, x) /\ x = IF request[c] = "ok" THEN "stage" ELSE "over"
      BY <2>1 DEF F!HearSuggest
    <3> QED BY <2>1, <3>1 DEF F!HearSuggest, F!At, F!inbox
  <2>2. CASE F!ClearConfirmation(c) \/ F!HearDelete(c) \/ F!GiveUp(c)
    BY <2>2 DEF F!ClearConfirmation, F!HearDelete, F!GiveUp, F!inbox
  <2> QED BY <2>1, <2>2
<1>2. /\ UNCHANGED <<mode, hook, sender, exists, mv, F!history>>
      /\ binding' \in {binding, NoOne} /\ pending' \in {pending, NoOne}
      /\ calls[c].pc \in {"clear", "deleting", "suggesting"}
  BY DEF F!ClearConfirmation, F!HearDelete, F!HearSuggest, F!GiveUp, F!inbox, F!store, F!At, F!ClearWorkspace
<1>3. PICK k, q : k = With(calls[c], x, calls[c].ws, calls[c].mv) /\ q = request[c]
  OBVIOUS
<1>4. /\ k.pc = x /\ k.tool = calls[c].tool /\ k.msg = calls[c].msg /\ k.ws = calls[c].ws
      /\ CallOK(calls[c], q)
  BY <1>3, Here DEF With, Calls
<1>5. ToolOf(k) /\ x \in Pcs /\ q \in Requests
  BY <1>1, <1>2, <1>4 DEF CallOK, ToolOf, F!Tool, Pcs
<1>6. Confirmed(k, q)
  BY <1>1, <1>2, <1>4 DEF CallOK, Confirmed
<1> QED BY <1>1, <1>2, <1>3, <1>5, <1>6, Here, StepsTo DEF F!Waiting

\* The description service takes a suggestion, refuses it or answers it.
LEMMA SuggestStep ==
  ASSUME ChatInv, NEW c \in ToolCall, F!BeginSuggest(c) \/ F!EndSuggest(c)
  PROVE  ChatInv'
<1>1. PICK q \in Requests \ {"none"} : request' = [request EXCEPT ![c] = q]
  BY DEF F!BeginSuggest, F!EndSuggest, Requests
<1>2. PICK k : k = calls[c]
  OBVIOUS
<1>3. /\ UNCHANGED <<F!store, hook, sender, calls, exists, mv, F!history>>
      /\ request[c] # "none" /\ CallOK(k, request[c])
  BY <1>2, Here DEF F!BeginSuggest, F!EndSuggest
<1>4. CallOK(k, q)
  BY <1>1, <1>3 DEF CallOK, Confirmed
<1>5. Becomes(c, k, q)
  BY <1>1, <1>2, <1>3, Here DEF Becomes
<1> QED BY <1>2, <1>3, <1>4, <1>5, CallGoesOn DEF F!store, F!history

-----------------------------------------------------------------------------
(* Feishu: what is staged, done, or selected                               *)

LEMMA StageStep ==
  ASSUME ChatInv, NEW c \in ToolCall, F!Stage(c)
  PROVE  ChatInv'
<1>1. PICK p, b, n :
        /\ p = [F!Payload(c) EXCEPT !.action = IF @ = "suggest" THEN "describe" ELSE @]
        /\ b = F!Asker(c) /\ n = calls[c].msg
  OBVIOUS
<1>2. /\ pending' = [what |-> p, msg |-> n, by |-> b, late |-> FALSE]
      /\ requested' = requested \cup {[what |-> p, msg |-> n, by |-> b]}
      /\ F!GoTo(c, "over") /\ UNCHANGED <<binding, mode, hook, sender, F!inbox, editFor, done>>
      /\ calls[c].pc = "stage"
  BY <1>1 DEF F!Stage, F!At
<1>3. /\ calls[c] \in Calls /\ calls[c].msg \in 1..Len(sender) /\ CallOK(calls[c], request[c])
      /\ calls[c].tool \in {"create", "delete", "suggest"}
  BY <1>2, Here DEF CallOK, ToolOf
<1>4. p \in Payloads /\ b \in Member /\ n \in Nat
  <2>1. F!Payload(c) \in [action : {"create", "delete", "suggest"}, ws : Workspace \cup {NoOne}, mv : Nat]
    BY <1>3 DEF F!Payload, Calls
  <2>2. p \in Payloads
    BY <1>1, <2>1 DEF Payloads, F!Tool
  <2>3. sender \in Seq(Member)
    BY DEF ChatInv, InboxOK
  <2> QED BY <1>1, <1>3, <2>2, <2>3 DEF F!Asker
<1>5. PICK k, q : k = With(calls[c], "over", calls[c].ws, calls[c].mv) /\ q = request[c]
  OBVIOUS
<1>6. k \in Calls /\ k.pc = "over" /\ k.tool = calls[c].tool /\ k.msg = calls[c].msg /\ k.ws = calls[c].ws
  BY <1>3, <1>5 DEF With, Calls, Pcs
<1>7. CallOK(k, q)'
  <2>1. ToolOf(k)
    BY <1>3, <1>6 DEF ToolOf, F!Tool
  <2>2. Confirmed(k, q)'
    BY <1>2, <1>3, <1>5, <1>6 DEF CallOK, Confirmed
  <2> QED BY <1>2, <1>3, <1>5, <1>6, <2>1, <2>2 DEF CallOK, F!Waiting
<1>8. Becomes(c, k, q)
  BY <1>2, <1>5, MovesTo, Here DEF Becomes, F!inbox
<1>9. requested \subseteq requested' /\ requested' \subseteq Staged
  BY <1>2, <1>4 DEF ChatInv, CallsOK, Staged
<1>10. CallsOK'
  BY <1>2, <1>7, <1>8, <1>9, OthersKeep
<1>11. StoreOK'
  <2>1. [what |-> pending'.what, msg |-> pending'.msg, by |-> pending'.by] =
        [what |-> p, msg |-> n, by |-> b]
    BY <1>2
  <2>2. pending' \in [what : Payloads, msg : Nat, by : Member, late : BOOLEAN]
    BY <1>2, <1>4
  <2> QED BY <1>2, <2>1, <2>2 DEF ChatInv, StoreOK
<1>12. InboxOK'
  BY <1>2 DEF ChatInv, InboxOK, F!inbox
<1>13. F!ConfirmedTwice' /\ F!DescriptionFits'
  BY <1>2, <1>9 DEF ChatInv, F!ConfirmedTwice, F!DescriptionFits
<1>14. F!EditingIsForThisWorkspace'
  <2>1. \A d \in ToolCall : calls'[d].pc \notin {"mode", "torn"} => calls[d].pc \notin {"mode", "torn"}
    BY <1>2, <1>8 DEF Becomes, ChatInv, CallsOK
  <2> QED BY <1>2, <2>1 DEF ChatInv, F!EditingIsForThisWorkspace
<1> QED BY <1>10, <1>11, <1>12, <1>13, <1>14 DEF ChatInv

\* The workspace is created by a confirmed call.
LEMMA CreateStep ==
  ASSUME ChatInv, NEW c \in ToolCall, F!CreateWorkspace(c)
  PROVE  ChatInv'
<1>1. PICK w \in Workspace :
        /\ mv[w] = 0 /\ exists' = exists \cup {w} /\ mv' = [mv EXCEPT ![w] = 1]
        /\ calls' = [calls EXCEPT ![c].ws = w, ![c].pc = "bind"]
        /\ F!Performed(c, w)
  BY DEF F!CreateWorkspace
<1>2. /\ calls[c].pc = "create" /\ UNCHANGED <<F!store, hook, sender, request, editFor, requested>>
      /\ request[c] = "none" /\ calls[c].tool = "create" /\ calls[c] \in Calls
      /\ calls[c].msg \in 1..Len(sender) /\ Confirmed(calls[c], "none")
  BY Here DEF F!CreateWorkspace, F!At, CallOK, ToolOf, F!Waiting
<1>3. PICK k : k = With(calls[c], "bind", w, calls[c].mv)
  OBVIOUS
<1>4. k \in Calls /\ k.pc = "bind" /\ k.tool = "create" /\ k.msg = calls[c].msg
  BY <1>2, <1>3 DEF With, Calls, Pcs
<1>5. CallOK(k, "none")'
  BY <1>2, <1>4 DEF CallOK, Requests, F!Waiting, ToolOf, F!Tool, Confirmed
<1>6. Becomes(c, k, "none")
  <2>1. \A x : calls' = [calls EXCEPT ![c].ws = x, ![c].pc = "bind"] =>
               calls' = [calls EXCEPT ![c] = With(calls[c], "bind", x, calls[c].mv)]
    BY TakesWorkspace
  <2>2. request' = [request EXCEPT ![c] = "none"]
    BY <1>2, Here
  <2> QED BY <1>1, <1>3, <2>1, <2>2 DEF Becomes
<1>7. CallsOK'
  BY <1>2, <1>5, <1>6, OthersKeep DEF ChatInv, CallsOK
<1>8. StoreOK'
  BY <1>2 DEF ChatInv, StoreOK, F!store
<1>9. InboxOK'
  BY <1>1, <1>2 DEF ChatInv, InboxOK
<1>10. PICK e :
        e = [what |-> calls[c].tool, ws |-> w, by |-> F!Asker(c), msg |-> calls[c].msg,
             for |-> calls[c].mv, at |-> mv[w]]
  OBVIOUS
<1>11. done' = done \cup {e} /\ e.what = "create" /\ e.by = sender[calls[c].msg] /\ e.msg = calls[c].msg
  BY <1>1, <1>2, <1>10 DEF F!Performed, F!Asker
<1>12. F!ConfirmedTwice'
  <2>1. PICK a \in requested : a.what.action = "create" /\ a.by = e.by /\ a.msg # e.msg
    BY <1>2, <1>11 DEF Confirmed
  <2> QED BY <1>2, <1>11, <2>1 DEF ChatInv, F!ConfirmedTwice
<1>13. F!DescriptionFits'
  BY <1>2, <1>11 DEF ChatInv, F!DescriptionFits
<1>14. F!EditingIsForThisWorkspace'
  <2>1. \A d \in ToolCall : calls'[d].pc \notin {"mode", "torn"} => calls[d].pc \notin {"mode", "torn"}
    BY <1>2, <1>6 DEF Becomes, ChatInv, CallsOK
  <2> QED BY <1>2, <2>1 DEF ChatInv, F!EditingIsForThisWorkspace, F!store
<1> QED BY <1>7, <1>8, <1>9, <1>12, <1>13, <1>14 DEF ChatInv

LEMMA SwitchStep ==
  ASSUME ChatInv, NEW c \in ToolCall, F!Bind(c) \/ F!SetReadOnly(c)
  PROVE  ChatInv'
<1>1. PICK x : /\ F!GoTo(c, x) /\ UNCHANGED <<hook, sender, F!inbox, F!history, pending>>
               /\ \/ /\ calls[c].pc = "bind" /\ x = "mode"
                     /\ binding' = calls[c].ws /\ mode' = mode
                  \/ /\ calls[c].pc = "mode" /\ binding' = binding
                     /\ (x = "clear" /\ mode' = "readonly") \/ (x = "torn" /\ mode' = mode)
  BY DEF F!Bind, F!SetReadOnly, F!At
<1>2. PICK k, q : k = With(calls[c], x, calls[c].ws, calls[c].mv) /\ q = request[c]
  OBVIOUS
<1>3. /\ calls[c].pc \in {"bind", "mode"} /\ x \in {"mode", "clear", "torn"}
      /\ CallOK(calls[c], q) /\ calls[c] \in Calls /\ q = "none"
  BY <1>1, <1>2, Here DEF CallOK, F!Waiting
<1>4. k \in Calls /\ k.pc = x /\ k.tool = calls[c].tool /\ k.msg = calls[c].msg
  BY <1>2, <1>3 DEF With, Calls, Pcs
<1>5. CallOK(k, q)'
  BY <1>1, <1>3, <1>4 DEF CallOK, F!Waiting, ToolOf, Confirmed
<1>6. Becomes(c, k, q)
  BY <1>1, <1>2, MovesTo, Here DEF Becomes, F!inbox
<1>7. CallsOK'
  BY <1>1, <1>5, <1>6, OthersKeep DEF ChatInv, CallsOK, F!history
<1>8. StoreOK'
  BY <1>1, <1>3 DEF ChatInv, StoreOK, F!history, Calls
<1>9. InboxOK'
  BY <1>1 DEF ChatInv, InboxOK, F!inbox
<1>10. F!ConfirmedTwice' /\ F!DescriptionFits'
  BY <1>1 DEF ChatInv, F!ConfirmedTwice, F!DescriptionFits, F!history
<1>11. F!EditingIsForThisWorkspace'
  <2>1. calls'[c].pc = x
    BY <1>4, <1>6 DEF Becomes, ChatInv, CallsOK
  <2>2. CASE x \in {"mode", "torn"}
    BY <2>1, <2>2 DEF F!EditingIsForThisWorkspace
  <2>3. CASE x = "clear"
    BY <1>1, <2>3 DEF F!EditingIsForThisWorkspace
  <2> QED BY <1>3, <2>2, <2>3
<1> QED BY <1>7, <1>8, <1>9, <1>10, <1>11 DEF ChatInv

\* The Controller carries a deletion out, or refuses it.
LEMMA PerformDeleteStep ==
  ASSUME ChatInv, NEW c \in ToolCall, F!PerformDelete(c)
  PROVE  ChatInv'
<1>1. PICK k, w, q : k = calls[c] /\ w = calls[c].ws /\ q = request'[c]
  OBVIOUS
<1>2. /\ calls[c].tool = "delete" /\ request[c] = "sent"
      /\ UNCHANGED <<F!store, hook, sender, calls, mv, editFor, requested>>
      /\ request' = [request EXCEPT ![c] = q] /\ q \in Requests \ {"none"}
      /\ exists' \subseteq exists /\ (UNCHANGED done \/ F!Performed(c, w))
  BY <1>1, Here DEF F!PerformDelete, Requests, ChatInv, CallsOK
<1>3. CallOK(k, request[c])
  BY <1>1, Here
<1>4. CallOK(k, q)'
  BY <1>2, <1>3 DEF CallOK, Confirmed
<1>5. Becomes(c, k, q)
  BY <1>1, <1>2, Here DEF Becomes
<1>6. CallsOK'
  BY <1>2, <1>4, <1>5, OthersKeep DEF ChatInv, CallsOK
<1>7. StoreOK'
  BY <1>2 DEF ChatInv, StoreOK, F!store
<1>8. InboxOK'
  BY <1>2 DEF ChatInv, InboxOK
<1>9. PICK e :
        e = [what |-> calls[c].tool, ws |-> w, by |-> F!Asker(c), msg |-> calls[c].msg,
             for |-> calls[c].mv, at |-> mv[w]]
  OBVIOUS
<1>10. /\ done' \subseteq done \cup {e} /\ e.what = "delete" /\ e.by = sender[k.msg] /\ e.msg = k.msg
       /\ e.ws = k.ws
  BY <1>1, <1>2, <1>9 DEF F!Performed, F!Asker
<1>11. F!ConfirmedTwice'
  <2>1. PICK a \in requested : a.what.action = "delete" /\ a.by = e.by /\ a.msg # e.msg /\ a.what.ws = e.ws
    BY <1>1, <1>2, <1>3, <1>10 DEF CallOK, Confirmed
  <2> QED BY <1>2, <1>10, <2>1 DEF ChatInv, F!ConfirmedTwice
<1>12. F!DescriptionFits'
  BY <1>2, <1>10 DEF ChatInv, F!DescriptionFits
<1>13. F!EditingIsForThisWorkspace'
  BY <1>2 DEF ChatInv, F!EditingIsForThisWorkspace, F!store
<1> QED BY <1>6, <1>7, <1>8, <1>11, <1>12, <1>13 DEF ChatInv

LEMMA WriteStep ==
  ASSUME ChatInv, NEW c \in ToolCall, F!Write(c)
  PROVE  ChatInv'
<1>1. PICK k, w, q : k = With(calls[c], "over", calls[c].ws, calls[c].mv) /\ w = calls[c].ws /\ q = request[c]
  OBVIOUS
<1>2. /\ calls[c].pc = "write" /\ F!GoTo(c, "over")
      /\ UNCHANGED <<F!store, hook, sender, exists, request, editFor, requested>>
      /\ CallOK(calls[c], q) /\ calls[c] \in Calls /\ q = "none"
  BY <1>1, Here DEF F!Write, F!At, CallOK, F!Waiting
<1>3. k \in Calls /\ k.pc = "over" /\ k.tool = calls[c].tool /\ k.msg = calls[c].msg
  BY <1>1, <1>2 DEF With, Calls, Pcs
<1>4. CallOK(k, q)'
  BY <1>2, <1>3 DEF CallOK, F!Waiting, ToolOf, F!Tool, Confirmed
<1>5. Becomes(c, k, q)
  BY <1>1, <1>2, MovesTo, Here DEF Becomes
<1>6. CallsOK'
  BY <1>2, <1>4, <1>5, OthersKeep DEF ChatInv, CallsOK
<1>7. StoreOK'
  BY <1>2 DEF ChatInv, StoreOK, F!store
<1>8. F!EditingIsForThisWorkspace'
  <2>1. \A d \in ToolCall : calls'[d].pc \notin {"mode", "torn"} => calls[d].pc \notin {"mode", "torn"}
    BY <1>2, <1>5 DEF Becomes, ChatInv, CallsOK
  <2> QED BY <1>2, <2>1 DEF ChatInv, F!EditingIsForThisWorkspace, F!store
<1>9. CASE F!WriteAllowed(c)
  <2>1. w \in exists /\ mv[w] = calls[c].mv /\ mv' = [mv EXCEPT ![w] = @ + 1] /\ F!Performed(c, w)
    BY <1>1, <1>9 DEF F!Write, F!WriteAllowed
  <2>2. InboxOK'
    BY <1>2, <2>1 DEF ChatInv, InboxOK
  <2>3. PICK e :
          e = [what |-> calls[c].tool, ws |-> w, by |-> F!Asker(c), msg |-> calls[c].msg,
               for |-> calls[c].mv, at |-> mv[w]]
    OBVIOUS
  <2>4. /\ done' = done \cup {e} /\ e.what = calls[c].tool /\ e.ws = calls[c].ws
        /\ e.for = calls[c].mv /\ e.at = calls[c].mv
        /\ calls[c].tool \in {"describe", "import", "write"}
    BY <1>1, <1>2, <2>1, <2>3 DEF F!Performed, CallOK, ToolOf
  <2>5. F!ConfirmedTwice'
    BY <1>2, <2>4 DEF ChatInv, F!ConfirmedTwice
  <2>6. e.what = "describe" =>
          \E a \in requested : a.what = [action |-> "describe", ws |-> e.ws, mv |-> e.at]
    BY <1>2, <2>4 DEF CallOK, Confirmed
  <2>7. F!DescriptionFits'
    BY <1>2, <2>4, <2>6 DEF ChatInv, F!DescriptionFits
  <2> QED BY <1>6, <1>7, <1>8, <2>2, <2>5, <2>7 DEF ChatInv
<1>10. CASE ~F!WriteAllowed(c)
  <2>1. UNCHANGED <<mv, done>>
    BY <1>10 DEF F!Write
  <2> QED
    BY <1>2, <1>6, <1>7, <1>8, <2>1 DEF ChatInv, InboxOK, F!ConfirmedTwice, F!DescriptionFits
<1> QED BY <1>9, <1>10

-----------------------------------------------------------------------------
(* Feishu: steps beside the calls                                          *)

LEMMA MessageStep ==
  ASSUME ChatInv, NEW m \in Member, F!Message(m)
  PROVE  ChatInv'
<1>1. /\ sender' = Append(sender, m) /\ sender \in Seq(Member)
      /\ UNCHANGED <<F!store, hook, calls, F!inbox, F!history>>
  BY DEF F!Message, ChatInv, InboxOK
<1>2. sender' \in Seq(Member) /\ Len(sender') = Len(sender) + 1 /\ \A n \in 1..Len(sender) : sender'[n] = sender[n]
  BY <1>1
<1>3. StoreOK'
  BY <1>1 DEF ChatInv, StoreOK, F!store, F!history
<1>4. InboxOK'
  BY <1>1, <1>2 DEF ChatInv, InboxOK, F!inbox
<1>5. F!EditingIsForThisWorkspace'
  BY <1>1 DEF ChatInv, F!EditingIsForThisWorkspace, F!store, F!history
<1>6. Len(sender') >= Len(sender)
  BY <1>1, <1>2
<1>7. UNCHANGED <<calls, request, requested, done>>
  BY <1>1 DEF F!inbox, F!history
<1> QED BY <1>2, <1>3, <1>4, <1>5, <1>6, <1>7, Besides

\* The hooks, the ten minutes, the web editor and the other conversations.
LEMMA ElsewhereStep ==
  ASSUME ChatInv,
         \/ F!ReadOnlyCommand \/ F!HookClears \/ F!EditingCommand \/ F!Expire
         \/ \E w \in Workspace : F!OtherWrite(w) \/ F!OtherDelete(w)
  PROVE  ChatInv'
<1>1. UNCHANGED <<calls, request, requested, done, sender>>
  BY DEF F!ReadOnlyCommand, F!HookClears, F!EditingCommand, F!Expire, F!OtherWrite, F!OtherDelete, F!inbox, F!history
<1>2. StoreOK'
  <2>1. CASE F!ReadOnlyCommand \/ F!HookClears \/ F!EditingCommand
    BY <2>1 DEF F!ReadOnlyCommand, F!HookClears, F!EditingCommand, ChatInv, StoreOK, F!history
  <2>2. CASE F!Expire
    <3>1. /\ pending # NoOne /\ pending' = [pending EXCEPT !.late = TRUE]
          /\ UNCHANGED <<binding, mode, hook, requested>>
      BY <2>2 DEF F!Expire, F!history
    <3>2. pending \in [what : Payloads, msg : Nat, by : Member, late : BOOLEAN]
      BY <3>1 DEF ChatInv, StoreOK
    <3> QED BY <3>1, <3>2 DEF ChatInv, StoreOK
  <2>3. CASE \E w \in Workspace : F!OtherWrite(w) \/ F!OtherDelete(w)
    BY <2>3 DEF F!OtherWrite, F!OtherDelete, F!ClearWorkspace, ChatInv, StoreOK, F!store, F!history
  <2> QED BY <2>1, <2>2, <2>3
<1>3. InboxOK'
  <2>1. CASE F!ReadOnlyCommand \/ F!HookClears \/ F!EditingCommand \/ F!Expire
    BY <2>1 DEF F!ReadOnlyCommand, F!HookClears, F!EditingCommand, F!Expire, ChatInv, InboxOK, F!inbox
  <2>2. ASSUME NEW w \in Workspace, F!OtherWrite(w) PROVE InboxOK'
    BY <2>2 DEF F!OtherWrite, ChatInv, InboxOK
  <2>3. ASSUME NEW w \in Workspace, F!OtherDelete(w) PROVE InboxOK'
    BY <2>3 DEF F!OtherDelete, ChatInv, InboxOK
  <2> QED BY <2>1, <2>2, <2>3
<1>4. F!EditingIsForThisWorkspace'
  <2>1. CASE F!ReadOnlyCommand
    BY <2>1 DEF F!ReadOnlyCommand, F!EditingIsForThisWorkspace
  <2>2. CASE F!EditingCommand
    BY <2>2 DEF F!EditingCommand, F!EditingIsForThisWorkspace
  <2>3. CASE F!HookClears \/ F!Expire
    BY <2>3 DEF F!HookClears, F!Expire, ChatInv, F!EditingIsForThisWorkspace, F!history
  <2>4. CASE \E w \in Workspace : F!OtherWrite(w) \/ F!OtherDelete(w)
    BY <2>4 DEF F!OtherWrite, F!OtherDelete, F!ClearWorkspace, ChatInv, F!EditingIsForThisWorkspace, F!store, F!history
  <2> QED BY <2>1, <2>2, <2>3, <2>4
<1>5. Len(sender') >= Len(sender) /\ \A n \in 1..Len(sender) : sender'[n] = sender[n]
  BY <1>1 DEF ChatInv, InboxOK
<1> QED BY <1>1, <1>2, <1>3, <1>4, <1>5, Besides

-----------------------------------------------------------------------------
(* Feishu: the whole conversation                                          *)

LEMMA ChatInit ==
  ASSUME F!Setting, F!Init
  PROVE  ChatInv
<1>1. Initial \subseteq Workspace
  BY DEF F!Setting
<1>2. StoreOK
  BY <1>1 DEF F!Init, StoreOK
<1>3. InboxOK
  BY <1>1 DEF F!Init, InboxOK
<1>4. F!Idle \in Calls /\ F!Idle.pc = "idle"
  BY DEF F!Idle, Calls, Pcs
<1>5. CallOK(F!Idle, "none")
  BY <1>4 DEF CallOK, Requests, F!Waiting, ToolOf, Confirmed
<1>6. calls = [c \in ToolCall |-> F!Idle] /\ request = [c \in ToolCall |-> "none"] /\ requested = {}
  BY DEF F!Init
<1>7. CallsOK
  BY <1>4, <1>5, <1>6 DEF CallsOK, Requests
<1>8. F!ConfirmedTwice /\ F!DescriptionFits /\ F!EditingIsForThisWorkspace
  BY DEF F!Init, F!ConfirmedTwice, F!DescriptionFits, F!EditingIsForThisWorkspace
<1> QED BY <1>2, <1>3, <1>7, <1>8 DEF ChatInv

LEMMA ChatNext ==
  ASSUME F!Setting, ChatInv, [F!Next]_(F!vars)
  PROVE  ChatInv'
<1>1. CASE \E m \in Member : F!Message(m)
  BY <1>1, MessageStep
<1>2. CASE \/ F!ReadOnlyCommand \/ F!HookClears \/ F!EditingCommand \/ F!Expire
           \/ \E w \in Workspace : F!OtherWrite(w) \/ F!OtherDelete(w)
  BY <1>2, ElsewhereStep
<1>3. CASE \E c \in ToolCall, t \in Tools, yes \in BOOLEAN, w \in Workspace \cup {NoOne} :
             F!StartCall(c, t, yes, w)
  BY <1>3, StartStep
<1>4. ASSUME NEW c \in ToolCall, F!CallStep(c) PROVE ChatInv'
  BY <1>4, ReadStep, StageStep, ConsumeStep, DeleteConfirmationStep, CreateStep, SwitchStep,
     EndsStep, WriteStep DEF F!CallStep
<1>5. ASSUME NEW c \in ToolCall, F!ControllerStep(c) PROVE ChatInv'
  BY <1>5, PerformDeleteStep, SuggestStep DEF F!ControllerStep
<1>6. CASE UNCHANGED F!vars
  <2>1. StoreOK'
    BY <1>6 DEF ChatInv, StoreOK, F!vars, F!store, F!history
  <2>2. InboxOK'
    BY <1>6 DEF ChatInv, InboxOK, F!vars, F!inbox
  <2>3. F!EditingIsForThisWorkspace'
    BY <1>6 DEF ChatInv, F!EditingIsForThisWorkspace, F!vars, F!store, F!history
  <2>4. UNCHANGED <<calls, request, requested, done, sender>>
    BY <1>6 DEF F!vars, F!inbox, F!history
  <2>5. Len(sender') >= Len(sender) /\ \A n \in 1..Len(sender) : sender'[n] = sender[n]
    BY <2>4 DEF ChatInv, InboxOK
  <2> QED BY <2>1, <2>2, <2>3, <2>4, <2>5, Besides
<1> QED BY <1>1, <1>2, <1>3, <1>4, <1>5, <1>6 DEF F!Next

LEMMA ChatAlways ==
  ASSUME F!Setting
  PROVE  F!Spec => []ChatInv
<1>1. F!Init => ChatInv
  BY ChatInit
<1>2. ChatInv /\ [F!Next]_(F!vars) => ChatInv'
  BY ChatNext
<1> QED BY <1>1, <1>2, PTL DEF F!Spec

\* The rows of the conversation hold what their columns may, a pending
\* confirmation is one that was staged, and a call that waits has a request at
\* the Controller.
THEOREM ConversationIsTyped ==
  ASSUME F!Setting
  PROVE  F!Spec => []F!TypeOK
<1>1. ASSUME ChatInv PROVE F!TypeOK
  <2>1. /\ binding \in Workspace \cup {NoOne} /\ mode \in {"readonly", "editing"}
        /\ hook \in {"idle", "clear"}
        /\ pending # NoOne =>
             [what |-> pending.what, msg |-> pending.msg, by |-> pending.by] \in requested
    BY <1>1 DEF ChatInv, StoreOK
  <2>2. exists \subseteq {w \in Workspace : mv[w] > 0} /\ DOMAIN sender = 1..Len(sender)
    BY <1>1 DEF ChatInv, InboxOK
  <2>3. \A c \in ToolCall : /\ calls[c].pc \in F!Waiting => request[c] # "none"
                            /\ calls[c].pc # "idle" => calls[c].msg \in 1..Len(sender)
    BY <1>1 DEF ChatInv, CallsOK, CallOK
  <2> QED BY <2>1, <2>2, <2>3 DEF F!TypeOK
<1> QED BY <1>1, ChatAlways, PTL

\* However many calls overlap, a workspace is created or deleted for a member
\* only after the same member asked for it in another message: what
\* _consume_confirmation has matched is never changed by what other calls,
\* commands and switches do before the Controller acts.
THEOREM DoneWasAskedTwice ==
  ASSUME F!Setting
  PROVE  F!Spec => []F!ConfirmedTwice
<1>1. ChatInv => F!ConfirmedTwice
  BY DEF ChatInv
<1> QED BY <1>1, ChatAlways, PTL

\* A description is saved only on the manifest its image was looked at in and a
\* member was shown for that workspace, although save_image_description saves in
\* another call than the one that suggested it.
THEOREM SavedDescriptionsFit ==
  ASSUME F!Setting
  PROVE  F!Spec => []F!DescriptionFits
<1>1. ChatInv => F!DescriptionFits
  BY DEF ChatInv
<1> QED BY <1>1, ChatAlways, PTL

\* Outside a switch that is under way or half done, editing is on only for the
\* workspace it was allowed for: select_workspace and create_workspace take it
\* back, and only a workspace that is gone is forgotten without that.
THEOREM EditingWasAllowedHere ==
  ASSUME F!Setting
  PROVE  F!Spec => []F!EditingIsForThisWorkspace
<1>1. ChatInv => F!EditingIsForThisWorkspace
  BY DEF ChatInv
<1> QED BY <1>1, ChatAlways, PTL

\* All of it at once: what members confirm, what they are shown and what they allow in
\* Feishu is for the workspace that it happens to (_consume_confirmation,
\* save_image_description, select_workspace).
THEOREM ConfirmationsAlwaysHold ==
  ASSUME F!Setting
  PROVE  F!Spec => []ConfirmationsHold
<1>1. ChatInv => ConfirmationsHold
  BY DEF ChatInv, ConfirmationsHold
<1> QED BY <1>1, ChatAlways, PTL
=============================================================================
