---------------------------- MODULE WorkerPool ----------------------------
(* The supervisor's pool of headless workers:                              *)
(* infrastructure/process/worker_pool.py, with the scratch directories of  *)
(* scratch_copy.py.                                                        *)
(*                                                                         *)
(* Every call of open_session is an element of Opens and stands for the    *)
(* WorkerSession record ("placeholder") it reserves: the pool compares     *)
(* records by identity but pops them, and removes their directories, by    *)
(* session id, so two opens of one id must be told apart.  A step is one   *)
(* critical section of the pool's lock or one effect made outside it.      *)
EXTENDS Integers, FiniteSets

CONSTANTS
    Ids,         \* session ids
    Opens,       \* calls of open_session; each is made at most once (a bound)
    Closers,     \* threads that call close_session or close_all
    MaxWorkers,  \* the cap on registered sessions; 0 means no cap
    NoOpen,      \* no record
    NoId         \* the caller expresses no preference for an id

ASSUME PoolAssumption ==
    /\ MaxWorkers \in Nat
    /\ IsFiniteSet(Ids)
    /\ NoOpen \notin Opens
    /\ NoId \notin Ids

VARIABLES
    sessions,   \* self._sessions: the record registered under each id
    call,       \* how far each open_session call has got
    sid,        \* the session id an open reserved
    proc,       \* the worker process of an open
    announced,  \* opens whose worker has written its readiness line
    scratch,    \* the open whose copy fills <scratch_root>/<id>, if it exists
    victims,    \* records a closer popped and has not terminated yet
    cleaning    \* the record whose directory a closer is about to remove

vars == <<sessions, call, sid, proc, announced, scratch, victims, cleaning>>

Stages == {"new", "shared", "refused", "reserved", "copied", "spawned", "ready",
           "open", "failed", "discarded", "cancelled", "killed", "raised"}

(* The stages in which an open's thread is between its reservation and its *)
(* return.                                                                 *)
InFlight == {"reserved", "copied", "spawned", "ready", "failed", "discarded",
             "cancelled", "killed"}

TypeOK ==
    /\ sessions \in [Ids -> Opens \cup {NoOpen}]
    /\ call \in [Opens -> Stages]
    /\ sid \in [Opens -> Ids \cup {NoId}]
    /\ proc \in [Opens -> {"none", "starting", "serving", "exited"}]
    /\ announced \in SUBSET Opens
    /\ scratch \in [Ids -> Opens \cup {NoOpen}]
    /\ victims \in [Closers -> SUBSET Opens]
    /\ cleaning \in [Closers -> Opens \cup {NoOpen}]
    /\ \A o \in Opens : call[o] \in InFlight \cup {"open"} => sid[o] \in Ids

Init ==
    /\ sessions = [x \in Ids |-> NoOpen]
    /\ call = [o \in Opens |-> "new"]
    /\ sid = [o \in Opens |-> NoId]
    /\ proc = [o \in Opens |-> "none"]
    /\ announced = {}
    /\ scratch = [x \in Ids |-> NoOpen]
    /\ victims = [c \in Closers |-> {}]
    /\ cleaning = [c \in Closers |-> NoOpen]

Running(o) == proc[o] \in {"starting", "serving"}

Registered(o) == \E x \in Ids : sessions[x] = o

RegisteredIds == {x \in Ids : sessions[x] # NoOpen}

(* _is_alive on a record whose port is set.                                *)
IsAlive(o) == proc[o] # "exited"

-----------------------------------------------------------------------------
(* _reap_locked: the ids whose process has exited, ready or not; the       *)
(* registration and the directory of each go.                              *)
DeadIds == {x \in Ids : sessions[x] # NoOpen /\ proc[sessions[x]] = "exited"}

ReapedSessions == [x \in Ids |-> IF x \in DeadIds THEN NoOpen ELSE sessions[x]]

ReapedScratch == [x \in Ids |-> IF x \in DeadIds THEN NoOpen ELSE scratch[x]]

(* The port of a record is 0 until the open that made it publishes it.     *)
Ready(o) == call[o] = "open"

(* The first critical section refuses a preferred id that is still opening.*)
OpenBusy(o, want) ==
    /\ call[o] = "new"
    /\ want \in Ids
    /\ sessions[want] # NoOpen
    /\ ~ Ready(sessions[want])
    /\ call' = [call EXCEPT ![o] = "refused"]
    /\ UNCHANGED <<sessions, sid, proc, announced, scratch, victims, cleaning>>

(* A live ready session under the preferred id is shared.                  *)
OpenShared(o, want) ==
    /\ call[o] = "new"
    /\ want \in Ids
    /\ sessions[want] # NoOpen
    /\ Ready(sessions[want])
    /\ IsAlive(sessions[want])
    /\ call' = [call EXCEPT ![o] = "shared"]
    /\ sid' = [sid EXCEPT ![o] = want]
    /\ UNCHANGED <<sessions, proc, announced, scratch, victims, cleaning>>

(* Faulty: the preferred id is not looked up before it is reserved.        *)
MutReserveBlindly(o, want) == call[o] = "new" /\ want \in Ids \cup {NoId}

(* Neither of the two early exits applies.                                 *)
MustReserve(o, want) ==
    /\ call[o] = "new"
    /\ want \in Ids /\ sessions[want] # NoOpen =>
           Ready(sessions[want]) /\ ~ IsAlive(sessions[want])

(* Faulty: off by one.                                                     *)
MutCapOffByOne == MaxWorkers # 0
            /\ Cardinality({x \in Ids : ReapedSessions[x] # NoOpen}) > MaxWorkers

AtCap == MaxWorkers # 0
            /\ Cardinality({x \in Ids : ReapedSessions[x] # NoOpen}) >= MaxWorkers

(* The cap check comes after the reap, whose effect stays when it refuses. *)
OpenLimit(o, want) ==
    /\ MustReserve(o, want)
    /\ AtCap
    /\ sessions' = ReapedSessions
    /\ scratch' = ReapedScratch
    /\ call' = [call EXCEPT ![o] = "refused"]
    /\ UNCHANGED <<sid, proc, announced, victims, cleaning>>

(* Faulty: no id is minted when the caller prefers none.                   *)
MutNeverMints(want) == {want}

(* The preferred id, or a minted one: eight random hex digits, taken to be *)
(* an id no call has used or asked for.                                    *)
ReservableIds(want) ==
    IF want = NoId THEN {x \in Ids : \A o \in Opens : sid[o] # x} ELSE {want}

OpenReserve(o, want) ==
    /\ MustReserve(o, want)
    /\ ~ AtCap
    /\ \E x \in ReservableIds(want) :
          /\ sessions' = [ReapedSessions EXCEPT ![x] = o]
          /\ sid' = [sid EXCEPT ![o] = x]
    /\ scratch' = ReapedScratch
    /\ call' = [call EXCEPT ![o] = "reserved"]
    /\ UNCHANGED <<proc, announced, victims, cleaning>>

-----------------------------------------------------------------------------
(* The heavy work of an open, outside the lock.                            *)

(* _materialize_private_copy overwrites whatever the directory holds.      *)
Materialize(o) ==
    /\ call[o] = "reserved"
    /\ scratch' = [scratch EXCEPT ![sid[o]] = o]
    /\ call' = [call EXCEPT ![o] = "copied"]
    /\ UNCHANGED <<sessions, sid, proc, announced, victims, cleaning>>

(* A missing input fails before the directory is made, a failed copy after.*)
MaterializeFails(o) ==
    /\ call[o] = "reserved"
    /\ \/ UNCHANGED scratch
       \/ scratch' = [scratch EXCEPT ![sid[o]] = o]
    /\ call' = [call EXCEPT ![o] = "failed"]
    /\ UNCHANGED <<sessions, sid, proc, announced, victims, cleaning>>

(* Popen, and the handle stored in the record at once.                     *)
Spawn(o) ==
    /\ call[o] = "copied"
    /\ proc' = [proc EXCEPT ![o] = "starting"]
    /\ call' = [call EXCEPT ![o] = "spawned"]
    /\ UNCHANGED <<sessions, sid, announced, scratch, victims, cleaning>>

SpawnFails(o) ==
    /\ call[o] = "copied"
    /\ call' = [call EXCEPT ![o] = "failed"]
    /\ UNCHANGED <<sessions, sid, proc, announced, scratch, victims, cleaning>>

(* _await_handshake returns the port: the line may outlive its writer.     *)
HandshakeOk(o) ==
    /\ call[o] = "spawned"
    /\ o \in announced
    /\ call' = [call EXCEPT ![o] = "ready"]
    /\ UNCHANGED <<sessions, sid, proc, announced, scratch, victims, cleaning>>

(* The worker exited without a line: the reader sees the end of the pipe.  *)
HandshakeEof(o) ==
    /\ call[o] = "spawned"
    /\ proc[o] = "exited"
    /\ o \notin announced
    /\ call' = [call EXCEPT ![o] = "failed"]
    /\ UNCHANGED <<sessions, sid, proc, announced, scratch, victims, cleaning>>

(* Faulty: the wait for the line has no timeout.                           *)
MutNoTimeout(o) ==
    /\ call[o] = "spawned"
    /\ o \notin announced
    /\ proc[o] = "exited"
    /\ call' = [call EXCEPT ![o] = "failed"]
    /\ UNCHANGED <<sessions, sid, proc, announced, scratch, victims, cleaning>>

(* No line in time, or an invalid one: the process is killed before the    *)
(* error leaves _spawn_worker.                                             *)
HandshakeTimeout(o) ==
    /\ call[o] = "spawned"
    /\ o \notin announced
    /\ proc' = [proc EXCEPT ![o] = "exited"]
    /\ call' = [call EXCEPT ![o] = "failed"]
    /\ UNCHANGED <<sessions, sid, announced, scratch, victims, cleaning>>

-----------------------------------------------------------------------------
(* The exception handler of open_session: _discard pops whatever record    *)
(* the id names now, terminates it and removes the directory, in one       *)
(* critical section.                                                       *)
DiscardId(x) ==
    /\ sessions' = [sessions EXCEPT ![x] = NoOpen]
    /\ proc' = [o \in Opens |->
                  IF o = sessions[x] /\ Running(o) THEN "exited" ELSE proc[o]]
    /\ scratch' = IF sessions[x] = NoOpen THEN scratch
                                          ELSE [scratch EXCEPT ![x] = NoOpen]

Discard(o) ==
    /\ call[o] = "failed"
    /\ DiscardId(sid[o])
    /\ call' = [call EXCEPT ![o] = "discarded"]
    /\ UNCHANGED <<sid, announced, victims, cleaning>>

(* Faulty: the cancelled open leaves its directory behind.                 *)
MutCancelKeepsDir(o) ==
    /\ call[o] \in {"discarded", "killed"}
    /\ scratch' = IF call[o] = "killed" THEN scratch
                                        ELSE [scratch EXCEPT ![sid[o]] = NoOpen]
    /\ call' = [call EXCEPT ![o] = "raised"]
    /\ UNCHANGED <<sessions, sid, proc, announced, victims, cleaning>>

(* The handler's, or the cancelled open's, own _cleanup_scratch and raise. *)
CleanupAndRaise(o) ==
    /\ call[o] \in {"discarded", "killed"}
    /\ scratch' = [scratch EXCEPT ![sid[o]] = NoOpen]
    /\ call' = [call EXCEPT ![o] = "raised"]
    /\ UNCHANGED <<sessions, sid, proc, announced, victims, cleaning>>

(* Faulty: the check compares ids instead of records.                      *)
MutSameIdIsEnough(o) == sessions[sid[o]] # NoOpen

(* The second critical section: the port is set only if the id still names *)
(* this very record.                                                       *)
StillRegistered(o) == sessions[sid[o]] = o

(* Faulty: the open registers its record again instead of checking.        *)
MutPublishAgain(o) ==
    /\ call[o] = "ready"
    /\ sessions' = [sessions EXCEPT ![sid[o]] = o]
    /\ call' = [call EXCEPT ![o] = "open"]
    /\ UNCHANGED <<sid, proc, announced, scratch, victims, cleaning>>

Publish(o) ==
    /\ call[o] = "ready"
    /\ call' = [call EXCEPT ![o] = IF StillRegistered(o) THEN "open" ELSE "cancelled"]
    /\ UNCHANGED <<sessions, sid, proc, announced, scratch, victims, cleaning>>

(* Faulty: the cancelled open forgets its worker.                          *)
MutForgetCancelled(o) ==
    /\ call[o] = "cancelled"
    /\ call' = [call EXCEPT ![o] = "killed"]
    /\ UNCHANGED <<sessions, sid, proc, announced, scratch, victims, cleaning>>

(* A cancelled open kills the worker it just brought up.                   *)
KillCancelled(o) ==
    /\ call[o] = "cancelled"
    /\ proc' = [proc EXCEPT ![o] = "exited"]
    /\ call' = [call EXCEPT ![o] = "killed"]
    /\ UNCHANGED <<sessions, sid, announced, scratch, victims, cleaning>>

-----------------------------------------------------------------------------
(* reap and list_sessions drop the dead; get drops a dead ready session.   *)
Reap ==
    /\ DeadIds # {}
    /\ sessions' = ReapedSessions
    /\ scratch' = ReapedScratch
    /\ UNCHANGED <<call, sid, proc, announced, victims, cleaning>>

GetDead(x) ==
    /\ sessions[x] # NoOpen
    /\ Ready(sessions[x])
    /\ ~ IsAlive(sessions[x])
    /\ DiscardId(x)
    /\ UNCHANGED <<call, sid, announced, victims, cleaning>>

CloserIdle(c) == victims[c] = {} /\ cleaning[c] = NoOpen

(* close_session pops under the lock and does the rest outside it.         *)
ClosePop(c, x) ==
    /\ CloserIdle(c)
    /\ sessions[x] # NoOpen
    /\ sessions' = [sessions EXCEPT ![x] = NoOpen]
    /\ victims' = [victims EXCEPT ![c] = {sessions[x]}]
    /\ UNCHANGED <<call, sid, proc, announced, scratch, cleaning>>

(* close_all takes every record; the order in which it visits them is left *)
(* open.                                                                   *)
CloseAllPop(c) ==
    /\ CloserIdle(c)
    /\ RegisteredIds # {}
    /\ sessions' = [x \in Ids |-> NoOpen]
    /\ victims' = [victims EXCEPT ![c] = {sessions[x] : x \in RegisteredIds}]
    /\ UNCHANGED <<call, sid, proc, announced, scratch, cleaning>>

(* _terminate: a record without a process is passed over.                  *)
CloserTerminate(c, o) ==
    /\ o \in victims[c]
    /\ cleaning[c] = NoOpen
    /\ proc' = [proc EXCEPT ![o] = IF Running(o) THEN "exited" ELSE proc[o]]
    /\ victims' = [victims EXCEPT ![c] = @ \ {o}]
    /\ cleaning' = [cleaning EXCEPT ![c] = o]
    /\ UNCHANGED <<sessions, call, sid, announced, scratch>>

CloserCleanup(c) ==
    /\ cleaning[c] # NoOpen
    /\ scratch' = [scratch EXCEPT ![sid[cleaning[c]]] = NoOpen]
    /\ cleaning' = [cleaning EXCEPT ![c] = NoOpen]
    /\ UNCHANGED <<sessions, call, sid, proc, announced, victims>>

-----------------------------------------------------------------------------
(* The worker: it opens its copy, analyses it and writes its readiness     *)
(* line; it may exit at any time.                                          *)
WorkerReady(o) ==
    /\ proc[o] = "starting"
    /\ scratch[sid[o]] # NoOpen
    /\ proc' = [proc EXCEPT ![o] = "serving"]
    /\ announced' = announced \cup {o}
    /\ UNCHANGED <<sessions, call, sid, scratch, victims, cleaning>>

WorkerExits(o) ==
    /\ Running(o)
    /\ proc' = [proc EXCEPT ![o] = "exited"]
    /\ UNCHANGED <<sessions, call, sid, announced, scratch, victims, cleaning>>

-----------------------------------------------------------------------------
OpenCall(o) == \E want \in Ids \cup {NoId} :
    \/ OpenBusy(o, want)
    \/ OpenShared(o, want)
    \/ OpenLimit(o, want)
    \/ OpenReserve(o, want)

(* What an open's thread does by itself once it holds a reservation.       *)
OpenStep(o) ==
    \/ Materialize(o)
    \/ MaterializeFails(o)
    \/ Spawn(o)
    \/ SpawnFails(o)
    \/ HandshakeOk(o)
    \/ HandshakeEof(o)
    \/ HandshakeTimeout(o)
    \/ Discard(o)
    \/ CleanupAndRaise(o)
    \/ Publish(o)
    \/ KillCancelled(o)

CloserCall(c) == CloseAllPop(c) \/ \E x \in Ids : ClosePop(c, x)

CloserStep(c) == CloserCleanup(c) \/ \E o \in Opens : CloserTerminate(c, o)

WorkerStep(o) == WorkerReady(o) \/ WorkerExits(o)

Next ==
    \/ \E o \in Opens : OpenCall(o) \/ OpenStep(o) \/ WorkerStep(o)
    \/ \E c \in Closers : CloserCall(c) \/ CloserStep(c)
    \/ \E x \in Ids : GetDead(x)
    \/ Reap

(* Each call runs on a thread of its own and every wait it makes is        *)
(* bounded (the handshake timeout, terminate then kill), so it keeps       *)
(* taking steps; nothing makes a caller call or a worker become ready.     *)
Fairness ==
    /\ \A o \in Opens : WF_vars(OpenStep(o))
    /\ \A c \in Closers : WF_vars(CloserStep(c))

Spec == Init /\ [][Next]_vars /\ Fairness

-----------------------------------------------------------------------------
(* Properties.                                                             *)

(* The cap of open_session: reaping first, reserving after, never lets     *)
(* more than max_workers records be registered, whatever calls interleave. *)
CapRespected == MaxWorkers # 0 => Cardinality(RegisteredIds) <= MaxWorkers

(* No orphan: a running worker process is always one that the map, the     *)
(* open that launched it or a closer that popped it still answers for.     *)
NoOrphan == \A o \in Opens : Running(o) =>
    \/ Registered(o)
    \/ call[o] \in {"spawned", "ready", "cancelled"}
    \/ \E c \in Closers : o \in victims[c]

(* No leaked directory: a scratch directory that exists belongs to an id   *)
(* that is registered, or that an open or a closer has yet to clean up.    *)
NoScratchLeak == \A x \in Ids : scratch[x] # NoOpen =>
    \/ sessions[x] # NoOpen
    \/ \E o \in Opens : sid[o] = x /\ call[o] \in InFlight
    \/ \E c \in Closers : \E o \in victims[c] \cup {cleaning[c]} :
          o \in Opens /\ sid[o] = x

(* The copy of a session that is open and not being torn down stays in its *)
(* directory as long as no other open reused its id.                       *)
CopyStaysUnlessReused == \A o \in Opens :
    /\ Ready(o)
    /\ Registered(o)
    /\ \A p \in Opens \ {o} : sid[p] # sid[o] \/ call[p] = "shared"
    => scratch[sid[o]] = o

(* A directory is nobody's litter, and no session's copy goes missing.     *)
ScratchIsHeld == NoScratchLeak /\ CopyStaysUnlessReused

(* idb_close wins over an open in flight: a record that left the map is    *)
(* never registered again and its open never reports success.              *)
ClosedStaysClosed == [][\A o \in Opens :
    call[o] \in InFlight \cup {"open"} /\ ~ Registered(o) =>
        /\ ~ Registered(o)'
        /\ call[o] # "open" => call'[o] # "open"]_vars

(* An id changes hands only through a free slot: while a session is alive  *)
(* and registered, no step replaces it by another record directly.         *)
NoTakeover == [][\A x \in Ids :
    sessions[x] # NoOpen /\ sessions'[x] \notin {NoOpen, sessions[x]} =>
        proc[sessions[x]] = "exited"]_vars

-----------------------------------------------------------------------------
(* The refinement: what the callers of the pool can tell apart.            *)
Outcome(o) == IF call[o] \in InFlight THEN "opening" ELSE call[o]

Worker(o) == IF Running(o) THEN "running" ELSE proc[o]

Pool == INSTANCE SessionPool WITH
    holder <- sessions,
    outcome <- [o \in Opens |-> Outcome(o)],
    worker <- [o \in Opens |-> Worker(o)]

(* Whatever opens, closes, crashes and reaps interleave, the pool is a     *)
(* SessionPool: no live session is replaced, none that was closed is       *)
(* handed out, a refusal has a reason, and an error leaves nothing behind. *)
ImplementsSessionPool == Pool!Spec

-----------------------------------------------------------------------------
(* Every open that reserved an id comes back, with a session or an error.  *)
OpenReturns == \A o \in Opens :
    call[o] = "reserved" ~> call[o] \in {"open", "raised"}

(* A worker nobody can reach through the map any more is killed in the end.*)
UnreachableDies == \A o \in Opens :
    (Running(o) /\ ~ Registered(o)) ~> ~ Running(o)

(* Each worker has a private copy in a per-session directory, removed when *)
(* that session closes (scratch_copy.py:3-8): the directory of a ready     *)
(* session whose worker is alive has not been removed under it.            *)
ReadyHasItsCopy == \A x \in Ids :
    sessions[x] # NoOpen /\ Ready(sessions[x]) /\ IsAlive(sessions[x]) =>
        scratch[x] # NoOpen
=============================================================================
