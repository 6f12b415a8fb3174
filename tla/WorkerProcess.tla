--------------------------- MODULE WorkerProcess ---------------------------
(* One headless worker over HTTP: its main thread, which owns the database *)
(* and pumps jobs (bootstrap/worker_main.py), the threads of the transport *)
(* that dispatch requests (infrastructure/rpc/router.py), the cancellation *)
(* registry (infrastructure/rpc/context.py) and the watchdog of the        *)
(* supervisor's pid (infrastructure/process/parent_watchdog.py).           *)
EXTENDS Sequences, SequencesExt

CONSTANTS
    Requests,   \* id-bearing calls of tools, each made at most once (a bound)
    Clients,
    ClientOf,   \* the client of a request
    RpcIds,
    IdOf,       \* its JSON-RPC id, unique within its client only
    NoRequest

ASSUME WorkerAssumption ==
    /\ ClientOf \in [Requests -> Clients]
    /\ IdOf \in [Requests -> RpcIds]
    /\ NoRequest \notin Requests

VARIABLES
    parent,     \* whether the supervisor lives
    main,       \* where the main thread is
    stopped,    \* _MainThreadPump._stop
    jobs,       \* _MainThreadPump._jobs
    watch,      \* where the watchdog's thread is
    cancelWatch,\* ParentWatchdog._stop
    stage,      \* where the thread of a request is
    tokens,     \* CancellationRegistry._tokens
    tripped,    \* requests whose token was cancelled
    outcome,    \* what a request's job came to
    wanted      \* history: live requests that their clients cancelled

process == <<main, stopped, jobs, watch, cancelWatch>>
registry == <<tokens, tripped>>
vars == <<parent, process, stage, registry, outcome, wanted>>

MainStages == {"opening", "listening", "pumping", "waiting", "running", "unwatch", "joining",
               "unlisten", "closing", "exited"}
WatchStages == {"off", "polling", "parent gone", "firing", "ended"}
Stages == {"none", "accepted", "dispatched", "queued", "done", "closed", "replied", "lost"}
Outcomes == {"none", "result", "error", "thrown"}

TypeOK ==
    /\ parent \in BOOLEAN /\ stopped \in BOOLEAN /\ cancelWatch \in BOOLEAN
    /\ main \in MainStages
    /\ watch \in WatchStages
    /\ ToSet(jobs) \subseteq Requests /\ IsInjective(jobs)
    /\ stage \in [Requests -> Stages]
    /\ tokens \in [RpcIds -> Requests \cup {NoRequest}]
    /\ tripped \in SUBSET Requests
    /\ outcome \in [Requests -> Outcomes]
    /\ wanted \in SUBSET Requests

Init ==
    /\ parent = TRUE
    /\ main = "opening"
    /\ stopped = FALSE
    /\ jobs = <<>>
    /\ watch = "off"
    /\ cancelWatch = FALSE
    /\ stage = [r \in Requests |-> "none"]
    /\ tokens = [i \in RpcIds |-> NoRequest]
    /\ tripped = {}
    /\ outcome = [r \in Requests |-> "none"]
    /\ wanted = {}

(* A token is registered for it.                                           *)
Live(r) == stage[r] \in {"dispatched", "queued", "done"}

(* The server is bound and accepts connections.                            *)
Serving == main \notin {"opening", "closing", "exited"}

---------------------------------------------------------------------------
(* The main thread.                                                        *)

MainGoes(from, to) == main = from /\ main' = to

(* open_database, and serve(block=False).                                  *)
Listen ==
    /\ MainGoes("opening", "listening")
    /\ UNCHANGED <<parent, stopped, jobs, watch, cancelWatch, stage, registry,
                   outcome, wanted>>

(* No database, or no free port.                                           *)
OpenFails ==
    /\ MainGoes("opening", "exited")
    /\ UNCHANGED <<parent, stopped, jobs, watch, cancelWatch, stage, registry,
                   outcome, wanted>>

(* The watchdog is started and the readiness line written.                 *)
Ready ==
    /\ MainGoes("listening", "pumping")
    /\ watch' = "polling"
    /\ UNCHANGED <<parent, stopped, jobs, cancelWatch, stage, registry, outcome, wanted>>

(* The head of pump_forever's loop.                                        *)
Pump ==
    /\ MainGoes("pumping", IF stopped THEN "unwatch" ELSE "waiting")
    /\ UNCHANGED <<parent, stopped, jobs, watch, cancelWatch, stage, registry,
                   outcome, wanted>>

(* The queue stayed empty for the time-out.                                *)
Empty ==
    /\ MainGoes("waiting", "pumping")
    /\ jobs = <<>>
    /\ UNCHANGED <<parent, stopped, jobs, watch, cancelWatch, stage, registry,
                   outcome, wanted>>

(* The oldest job is taken; here it heads the queue until it has run.      *)
Take ==
    /\ MainGoes("waiting", "running")
    /\ jobs # <<>>
    /\ UNCHANGED <<parent, stopped, jobs, watch, cancelWatch, stage, registry,
                   outcome, wanted>>

(* A job that fails is an error; one that raises no Exception (a script's  *)
(* sys.exit, Ctrl-C) is thrown on the thread that waits for it.            *)
Run ==
    /\ MainGoes("running", "pumping")
    /\ \E how \in {"result", "error", "thrown"} :
          outcome' = [outcome EXCEPT ![Head(jobs)] = how]
    /\ stage' = [stage EXCEPT ![Head(jobs)] = "done"]
    /\ jobs' = Tail(jobs)
    /\ UNCHANGED <<parent, stopped, watch, cancelWatch, registry, wanted>>

(* Ctrl-C outside a job.                                                   *)
Interrupt ==
    /\ MainGoes("pumping", "unwatch") \/ MainGoes("waiting", "unwatch")
    /\ UNCHANGED <<parent, stopped, jobs, watch, cancelWatch, stage, registry,
                   outcome, wanted>>

(* ParentWatchdog.stop ...                                                 *)
Unwatch ==
    /\ MainGoes("unwatch", "joining")
    /\ cancelWatch' = TRUE
    /\ UNCHANGED <<parent, stopped, jobs, watch, stage, registry, outcome, wanted>>

(* ... waits for its thread, but not for ever.                             *)
Join ==
    /\ MainGoes("joining", "unlisten")
    /\ UNCHANGED <<parent, stopped, jobs, watch, cancelWatch, stage, registry,
                   outcome, wanted>>

Unlisten ==
    /\ MainGoes("unlisten", "closing")
    /\ UNCHANGED <<parent, stopped, jobs, watch, cancelWatch, stage, registry,
                   outcome, wanted>>

(* The process goes, and every thread it has with it.                      *)
Lose == stage' = [r \in Requests |-> IF stage[r] \in {"none", "replied"}
                                     THEN stage[r] ELSE "lost"]

(* Faulty: the threads of requests are not daemons.                        *)
MutExit ==
    /\ MainGoes("closing", "exited")
    /\ \A r \in Requests : stage[r] \in {"none", "replied", "lost"}
    /\ Lose
    /\ UNCHANGED <<parent, stopped, jobs, watch, cancelWatch, registry, outcome, wanted>>

(* close_database, and out.                                                *)
Exit ==
    /\ MainGoes("closing", "exited")
    /\ Lose
    /\ UNCHANGED <<parent, stopped, jobs, watch, cancelWatch, registry, outcome, wanted>>

MainStep ==
    Listen \/ Ready \/ Pump \/ Empty \/ Take \/ Run \/ Unwatch \/ Join \/ Unlisten \/ Exit

---------------------------------------------------------------------------
(* The watchdog.                                                           *)

ParentDies ==
    /\ parent
    /\ parent' = FALSE
    /\ UNCHANGED <<process, stage, registry, outcome, wanted>>

(* A poll finds the parent gone, or stop interrupts the wait.              *)
Poll ==
    /\ watch = "polling"
    /\ \/ ~parent /\ watch' = "parent gone"
       \/ cancelWatch /\ watch' = "ended"
    /\ UNCHANGED <<parent, main, stopped, jobs, cancelWatch, stage, registry, outcome, wanted>>

(* Faulty: fires only if it was cancelled.                                 *)
MutRecheck ==
    /\ watch = "parent gone"
    /\ watch' = IF cancelWatch THEN "firing" ELSE "ended"
    /\ UNCHANGED <<parent, main, stopped, jobs, cancelWatch, stage, registry, outcome, wanted>>

Recheck ==
    /\ watch = "parent gone"
    /\ watch' = IF cancelWatch THEN "ended" ELSE "firing"
    /\ UNCHANGED <<parent, main, stopped, jobs, cancelWatch, stage, registry, outcome, wanted>>

(* on_parent_dead is the pump's stop.                                      *)
Fire ==
    /\ watch = "firing"
    /\ stopped' = TRUE
    /\ watch' = "ended"
    /\ UNCHANGED <<parent, main, jobs, cancelWatch, stage, registry, outcome, wanted>>

WatchStep == main # "exited" /\ (Poll \/ Recheck \/ Fire)

---------------------------------------------------------------------------
(* A thread of the transport, for one request.                             *)

Accept(r) ==
    /\ Serving
    /\ stage[r] = "none"
    /\ stage' = [stage EXCEPT ![r] = "accepted"]
    /\ UNCHANGED <<parent, process, registry, outcome, wanted>>

(* dispatch_one registers a token under the id.                            *)
Dispatch(r) ==
    /\ stage[r] = "accepted"
    /\ stage' = [stage EXCEPT ![r] = "dispatched"]
    /\ tokens' = [tokens EXCEPT ![IdOf[r]] = r]
    /\ UNCHANGED <<parent, process, tripped, outcome, wanted>>

(* The tool hands its use case to the pump and waits.                      *)
Enqueue(r) ==
    /\ stage[r] = "dispatched"
    /\ stage' = [stage EXCEPT ![r] = "queued"]
    /\ jobs' = Append(jobs, r)
    /\ UNCHANGED <<parent, main, stopped, watch, cancelWatch, registry, outcome, wanted>>

(* Bad arguments, an unknown tool, no lifecycle.                           *)
Refuse(r) ==
    /\ stage[r] = "dispatched"
    /\ stage' = [stage EXCEPT ![r] = "done"]
    /\ outcome' = [outcome EXCEPT ![r] = "error"]
    /\ UNCHANGED <<parent, process, registry, wanted>>

(* Faulty: the token is dropped only if the call was answered.             *)
MutClose(r) ==
    /\ stage[r] = "done"
    /\ stage' = [stage EXCEPT ![r] = "closed"]
    /\ tokens' = IF outcome[r] = "thrown" THEN tokens
                                          ELSE [tokens EXCEPT ![IdOf[r]] = NoRequest]
    /\ UNCHANGED <<parent, process, tripped, outcome, wanted>>

(* The finally clause drops whatever token the id has by now.              *)
Close(r) ==
    /\ stage[r] = "done"
    /\ stage' = [stage EXCEPT ![r] = "closed"]
    /\ tokens' = [tokens EXCEPT ![IdOf[r]] = NoRequest]
    /\ UNCHANGED <<parent, process, tripped, outcome, wanted>>

(* What was thrown ends the thread and its connection without a reply.     *)
Reply(r) ==
    /\ stage[r] = "closed"
    /\ stage' = [stage EXCEPT ![r] = IF outcome[r] = "thrown" THEN "lost" ELSE "replied"]
    /\ UNCHANGED <<parent, process, registry, outcome, wanted>>

RequestStep(r) ==
    main # "exited" /\ (Dispatch(r) \/ Enqueue(r) \/ Refuse(r) \/ Close(r) \/ Reply(r))

(* trip: a token is there to be cancelled.                                 *)
Trip(i) == tokens[i] # NoRequest

(* notifications/cancelled, on a thread of its own, for a request that its *)
(* client has made; it may have ended.                                     *)
Cancel(c, i) ==
    /\ Serving
    /\ \E r \in Requests : ClientOf[r] = c /\ IdOf[r] = i /\ stage[r] # "none"
    /\ tripped' = IF Trip(i) THEN tripped \cup {tokens[i]} ELSE tripped
    /\ wanted' = wanted \cup {r \in Requests : Live(r) /\ ClientOf[r] = c /\ IdOf[r] = i}
    /\ UNCHANGED <<parent, process, stage, tokens, outcome>>

Next ==
    \/ MainStep \/ OpenFails \/ Interrupt
    \/ ParentDies \/ WatchStep
    \/ \E r \in Requests : Accept(r) \/ RequestStep(r)
    \/ \E c \in Clients, i \in RpcIds : Cancel(c, i)

(* Threads run on, jobs end and waits have time-outs; nobody has to ask    *)
(* for anything, and the parent need not die.                              *)
Spec ==
    /\ Init /\ [][Next]_vars
    /\ WF_vars(MainStep) /\ WF_vars(WatchStep)
    /\ \A r \in Requests : WF_vars(RequestStep(r))

---------------------------------------------------------------------------
(* A worker does not outlive its supervisor (parent_watchdog.py:8-12),     *)
(* whatever it is asked meanwhile.                                         *)
OrphanExits == ~parent ~> main = "exited"

(* No thread waits for ever on a job that nobody runs, shutdown included   *)
(* (worker_main.py:41-43): every call is answered or ends with the worker. *)
EveryCallEnds ==
    \A r \in Requests : stage[r] = "accepted" ~> stage[r] \in {"replied", "lost"}

Alone(r) == \A q \in Requests \ {r} : IdOf[q] = IdOf[r] => stage[q] = "none"

(* A cancellation trips the token of the live request it names and no      *)
(* other (context.py:5-7), until another client uses the same id: the      *)
(* registry is keyed by the id alone.                                      *)
CancelHitsItsRequest ==
    \A r \in Requests : Alone(r) => (r \in tripped <=> r \in wanted)
===========================================================================
