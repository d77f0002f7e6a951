--------------------------- MODULE SessionCleanup ---------------------------
(***************************************************************************)
(* The worker of HermesDraftService that deletes retired Hermes sessions:  *)
(* the durable queue pending_session_deletions, the event that asks for a  *)
(* run, the lock that admits one worker, and the second look at the event  *)
(* after the lock is released.  DraftTurns sees of it only that queued     *)
(* sessions go one by one.                                                 *)
(***************************************************************************)
EXTENDS Naturals, FiniteSets

CONSTANTS RetiredSession,  \* retired sessions
          Requester,       \* threads that retire a session, and the start-up code
          Worker,          \* cleanup threads
          Troubles         \* faults that may happen, each once: see Trouble

VARIABLES
  pending,    \* pending_session_deletions
  wanted,     \* the event _cleanup_requested
  held,       \* _cleanup_worker_lock
  requester,  \* progress of each call of _schedule_session_cleanup
  worker,     \* progress of each cleanup thread
  todo,       \* the rows a worker has read
  tried,      \* history: sessions a worker has tried to delete
  trouble     \* the Troubles that have happened

cleanupVars == <<pending, wanted, held, requester, worker, todo, tried, trouble>>

CleanupInit ==
  /\ pending = {} /\ wanted = FALSE /\ held = FALSE
  /\ requester = [r \in Requester |-> "idle"]
  /\ worker = [w \in Worker |-> "off"]
  /\ todo = [w \in Worker |-> {}]
  /\ tried = {} /\ trouble = {}

Trouble(t) == t \in Troubles \ trouble /\ trouble' = trouble \cup {t}

\* schedule_cleanup: the row comes first.
Retire(r, s) ==
  /\ requester[r] = "idle" /\ s \notin pending \cup tried
  /\ pending' = pending \cup {s}
  /\ requester' = [requester EXCEPT ![r] = "queued"]
  /\ UNCHANGED <<wanted, held, worker, todo, tried, trouble>>

RequestCleanup(r) ==
  /\ requester[r] = "queued"
  /\ wanted' = TRUE
  /\ requester' = [requester EXCEPT ![r] = "requested"]
  /\ UNCHANGED <<pending, held, worker, todo, tried, trouble>>

\* Mutant: a worker is started without looking at the lock.
DispatchUnlocked(new) == held' = TRUE /\ new # {} /\ UNCHANGED trouble

\* The lock is taken without waiting; whoever gets it starts a worker, or
\* gives the lock back when no thread can be started.
Dispatch(new) ==
  \/ held /\ UNCHANGED <<held, trouble>> /\ new = {}
  \/ ~held /\ held' = TRUE /\ new # {} /\ UNCHANGED trouble
  \/ ~held /\ Trouble("spawn") /\ UNCHANGED held /\ new = {}

Off == {w \in Worker : worker[w] = "off"}
NextWorkers == {{}} \cup {{w} : w \in Off}

DispatchCleanup(r) ==
  /\ requester[r] = "requested"
  /\ \E new \in NextWorkers :
       /\ Dispatch(new)
       /\ worker' = [w \in Worker |-> IF w \in new THEN "loop" ELSE worker[w]]
  /\ requester' = [requester EXCEPT ![r] = "idle"]
  /\ UNCHANGED <<pending, wanted, todo, tried>>

\* while requested: clear the event, then drain.
Loop(w) ==
  /\ worker[w] = "loop"
  /\ worker' = [worker EXCEPT ![w] = IF wanted THEN "read" ELSE "release"]
  /\ wanted' = FALSE
  /\ UNCHANGED <<pending, held, requester, todo, tried, trouble>>

ReadRows(w) ==
  /\ worker[w] = "read"
  /\ \/ /\ todo' = [todo EXCEPT ![w] = pending]
        /\ worker' = [worker EXCEPT ![w] = "drain"]
        /\ UNCHANGED trouble
     \/ /\ Trouble("store")
        /\ worker' = [worker EXCEPT ![w] = "release"]
        /\ UNCHANGED todo
  /\ UNCHANGED <<pending, wanted, held, requester, tried>>

\* Hermes deletes the session and its row is deleted; or Hermes fails and the row
\* stays for a later run; or the session is gone, the store fails to delete the
\* row, and the worker gives up.
Delete(w, s) ==
  /\ worker[w] = "drain" /\ s \in todo[w]
  /\ todo' = [todo EXCEPT ![w] = @ \ {s}]
  /\ tried' = tried \cup {s}
  /\ \/ pending' = pending \ {s} /\ UNCHANGED <<worker, trouble>>
     \/ Trouble("hermes") /\ UNCHANGED <<pending, worker>>
     \/ /\ Trouble("store")
        /\ worker' = [worker EXCEPT ![w] = "release"]
        /\ UNCHANGED pending
  /\ UNCHANGED <<wanted, held, requester>>

Drained(w) ==
  /\ worker[w] = "drain" /\ todo[w] = {}
  /\ worker' = [worker EXCEPT ![w] = "loop"]
  /\ UNCHANGED <<pending, wanted, held, requester, todo, tried, trouble>>

Release(w) ==
  /\ worker[w] = "release"
  /\ held' = FALSE
  /\ worker' = [worker EXCEPT ![w] = "recheck"]
  /\ UNCHANGED <<pending, wanted, requester, todo, tried, trouble>>

\* Mutant: a request that came after the last look at the event is not seen.
SeenNever(w) == FALSE

Seen(w) == wanted

\* After the release the event is looked at again; a request found there is
\* dispatched by this thread, which then ends.
Recheck(w) ==
  /\ worker[w] = "recheck"
  /\ IF Seen(w)
     THEN \E new \in NextWorkers :
            /\ Dispatch(new)
            /\ worker' = [v \in Worker |-> IF v = w THEN "off"
                                           ELSE IF v \in new THEN "loop" ELSE worker[v]]
     ELSE /\ worker' = [worker EXCEPT ![w] = "off"]
          /\ UNCHANGED <<held, trouble>>
  /\ UNCHANGED <<pending, wanted, requester, todo, tried>>

\* The process dies and is started again: only the queue survives, and the
\* start-up code asks for a run.
CrashAndRestart ==
  /\ Trouble("crash")
  /\ wanted' = FALSE /\ held' = FALSE
  /\ \E r \in Requester : requester' = [q \in Requester |-> IF q = r THEN "queued" ELSE "idle"]
  /\ worker' = [w \in Worker |-> "off"]
  /\ todo' = [w \in Worker |-> {}]
  /\ UNCHANGED <<pending, tried>>

RequesterStep(r) == RequestCleanup(r) \/ DispatchCleanup(r)

WorkerStep(w) ==
  \/ Loop(w) \/ ReadRows(w) \/ Drained(w) \/ Release(w) \/ Recheck(w)
  \/ \E s \in RetiredSession : Delete(w, s)

CleanupNext ==
  \/ \E r \in Requester, s \in RetiredSession : Retire(r, s)
  \/ \E r \in Requester : RequesterStep(r)
  \/ \E w \in Worker : WorkerStep(w)
  \/ CrashAndRestart

CleanupSpec == CleanupInit /\ [][CleanupNext]_cleanupVars

FairCleanupSpec ==
  /\ CleanupSpec
  /\ \A r \in Requester : WF_cleanupVars(RequesterStep(r))
  /\ \A w \in Worker : WF_cleanupVars(WorkerStep(w))

-----------------------------------------------------------------------------
(* Properties *)

Draining == {"loop", "read", "drain", "release"}

CleanupTypeOK ==
  /\ pending \subseteq RetiredSession /\ tried \subseteq RetiredSession
  /\ wanted \in BOOLEAN /\ held \in BOOLEAN
  /\ requester \in [Requester -> {"idle", "queued", "requested"}]
  /\ worker \in [Worker -> Draining \cup {"off", "recheck"}]
  /\ todo \in [Worker -> SUBSET RetiredSession]
  /\ trouble \subseteq Troubles

\* The lock is held exactly while one worker drains: no session is deleted by
\* two threads at once, and the lock is never left behind.
OneWorker ==
  /\ \A v, w \in Worker : worker[v] \in Draining /\ worker[w] \in Draining => v = w
  /\ held <=> \E w \in Worker : worker[w] \in Draining

\* A retired session is tried by a worker, whatever the moment its request
\* arrives at, unless no thread could be started or the store was unavailable;
\* then it waits for the next request.
SessionIsTried(s) ==
  s \in pending ~> s \in tried \/ trouble \cap {"spawn", "store"} # {}

EverySessionIsTried == \A s \in RetiredSession : SessionIsTried(s)
=============================================================================
