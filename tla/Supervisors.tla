---------------------------- MODULE Supervisors ----------------------------
(* Several supervisors on one host: the auto-launch of bootstrap/          *)
(* plugin_main.py that starts them, the scratch root they share and the    *)
(* sweep of infrastructure/process/scratch_copy.py that each one runs in   *)
(* the constructor of its pool, before it listens.                         *)
(*                                                                         *)
(* A session of a pool is the stage its directory has reached: the rest of *)
(* the pool is in WorkerPool.  Ids may be chosen by clients, so two pools  *)
(* may use one.  Whoever runs parent_alive on a pid sees some process      *)
(* with that pid.                                                          *)
EXTENDS Integers, FiniteSets

CONSTANTS
    Sups,      \* runs of the supervisor, each started at most once
    Guis,      \* IDA windows with the auto-launch on, each started once
    Pids,      \* process ids
    Ids,       \* session ids, the names of scratch directories
    Nothing    \* no directory, no owner file, no pid

VARIABLES
    stage,     \* how far each supervisor has got
    pid,       \* its process id
    gui,       \* what each window knows of the supervisor's port
    dir,       \* the directory of each id, as [owner, copies]
    held,      \* held[s][x]: how far the session x of s has got
    sweep,     \* the locals of each sweep
    used,      \* history: the supervisors that ever made the directory of an id
    doomed,    \* history: directories a sweep found with an owner dead since
    stuck      \* history: directories that a sweep could not remove

vars == <<stage, pid, gui, dir, held, sweep, used, doomed, stuck>>

procs == <<stage, pid, gui>>

Directory == [owner : Pids \cup {Nothing}, copies : SUBSET Sups]

TypeOK ==
    /\ stage \in [Sups -> {"off", "launched", "sweeping", "serving", "leaving", "dead"}]
    /\ pid \in [Sups -> Pids \cup {Nothing}]
    /\ gui \in [Guis -> {"off", "unanswered", "done"}]
    /\ dir \in [Ids -> Directory \cup {Nothing}]
    /\ held \in [Sups -> [Ids -> {"no", "made", "owned", "copied"}]]
    /\ \A s \in Sups :
          /\ sweep[s].todo \subseteq Ids
          /\ sweep[s].name \in Ids \cup {Nothing}
          /\ sweep[s].judged \in Pids \cup {Nothing}
    /\ used \in [Ids -> SUBSET Sups]
    /\ doomed \in [Sups -> SUBSET Ids]
    /\ stuck \in [Sups -> SUBSET Ids]

NoSweep == [todo |-> {}, name |-> Nothing, judged |-> Nothing]

Init ==
    /\ stage = [s \in Sups |-> "off"]
    /\ pid = [s \in Sups |-> Nothing]
    /\ gui = [g \in Guis |-> "off"]
    /\ dir = [x \in Ids |-> Nothing]
    /\ held = [s \in Sups |-> [x \in Ids |-> "no"]]
    /\ sweep = [s \in Sups |-> NoSweep]
    /\ used = [x \in Ids |-> {}]
    /\ doomed = [s \in Sups |-> {}]
    /\ stuck = [s \in Sups |-> {}]

Up(s) == stage[s] \notin {"off", "dead"}

(* Faulty: a pid that cannot be checked counts as dead.                    *)
MutParentAlive(n) == \E s \in Sups : Up(s) /\ pid[s] = n

(* parent_alive: an unreadable owner is nobody's, and left alone.          *)
ParentAlive(n) == n = Nothing \/ \E s \in Sups : Up(s) /\ pid[s] = n

(* transport.serve scans upward for a free port: with room in the range,   *)
(* which port it gets matters to the probe only.                           *)
Answers == \E s \in Sups : stage[s] = "serving"

Dead(n) == n \in Pids /\ ~ ParentAlive(n)

-----------------------------------------------------------------------------
(* Starting and ending.                                                    *)

Start(s) ==
    /\ stage[s] = "off"
    /\ \E n \in Pids : /\ \A t \in Sups : Up(t) => pid[t] # n
                       /\ pid' = [pid EXCEPT ![s] = n]
    /\ stage' = [stage EXCEPT ![s] = "launched"]

StartByHand(s) ==
    /\ Start(s)
    /\ UNCHANGED <<gui, dir, held, sweep, used, stuck>>

(* _maybe_autolaunch, once the plugin is registered: a window that finds   *)
(* the port answering leaves it at that.                                   *)
ProbeSupervisor(g) ==
    /\ gui[g] = "off"
    /\ gui' = [gui EXCEPT ![g] = IF Answers THEN "done" ELSE "unanswered"]
    /\ UNCHANGED <<stage, pid, dir, held, sweep, used, stuck>>

SpawnSupervisor(g) ==
    /\ gui[g] = "unanswered"
    /\ \E s \in Sups : Start(s)
    /\ gui' = [gui EXCEPT ![g] = "done"]
    /\ UNCHANGED <<dir, held, sweep, used, stuck>>

(* SIGKILL or a crash.                                                     *)
Die(s) ==
    /\ Up(s)
    /\ stage' = [stage EXCEPT ![s] = "dead"]
    /\ held' = [held EXCEPT ![s] = [x \in Ids |-> "no"]]
    /\ sweep' = [sweep EXCEPT ![s] = NoSweep]
    /\ UNCHANGED <<pid, gui, dir, used, stuck>>

(* Ctrl-C: the transport stops first, the sessions are closed then.        *)
Interrupt(s) ==
    /\ stage[s] = "serving"
    /\ stage' = [stage EXCEPT ![s] = "leaving"]
    /\ UNCHANGED <<pid, gui, dir, held, sweep, used, stuck>>

Leave(s) ==
    /\ stage[s] = "leaving"
    /\ \A x \in Ids : held[s][x] = "no"
    /\ stage' = [stage EXCEPT ![s] = "dead"]
    /\ UNCHANGED <<pid, gui, dir, held, sweep, used, stuck>>

-----------------------------------------------------------------------------
(* sweep_stale_session_dirs.                                               *)

BeginSweep(s) ==
    /\ stage[s] = "launched"
    /\ stage' = [stage EXCEPT ![s] = "sweeping"]
    /\ sweep' = [sweep EXCEPT ![s].todo = {x \in Ids : dir[x] # Nothing}]
    /\ UNCHANGED <<pid, gui, dir, held, used, stuck>>

(* Faulty: the sweep gives up at the first directory without an owner.     *)
MutRest(todo, x) ==
    IF dir[x] # Nothing /\ dir[x].owner = Nothing THEN {} ELSE todo \ {x}

Rest(todo, x) == todo \ {x}

(* Faulty: the owner is read but not looked up.                            *)
MutJudge(s) ==
    /\ stage[s] = "sweeping"
    /\ sweep[s].name = Nothing
    /\ \E x \in sweep[s].todo :
          LET owner == IF dir[x] = Nothing THEN Nothing ELSE dir[x].owner
          IN sweep' = [sweep EXCEPT ![s] =
                [todo   |-> Rest(@.todo, x),
                 name   |-> IF owner = Nothing THEN Nothing ELSE x,
                 judged |-> owner]]
    /\ UNCHANGED <<procs, dir, held, used, stuck>>

(* One directory: its owner file is read, and the pid in it looked up.     *)
Judge(s) ==
    /\ stage[s] = "sweeping"
    /\ sweep[s].name = Nothing
    /\ \E x \in sweep[s].todo :
          LET owner == IF dir[x] = Nothing THEN Nothing ELSE dir[x].owner
          IN sweep' = [sweep EXCEPT ![s] =
                [todo   |-> Rest(@.todo, x),
                 name   |-> IF ParentAlive(owner) THEN Nothing ELSE x,
                 judged |-> IF ParentAlive(owner) THEN Nothing ELSE owner]]
    /\ UNCHANGED <<procs, dir, held, used, stuck>>

(* cleanup_session_dir, by name, whatever is there by now.  rmtree ignores *)
(* errors: a worker that has not noticed its supervisor's death may hold   *)
(* the files.                                                              *)
Remove(s) ==
    /\ sweep[s].name # Nothing
    /\ \/ dir' = [dir EXCEPT ![sweep[s].name] = Nothing] /\ UNCHANGED stuck
       \/ stuck' = [stuck EXCEPT ![s] = @ \cup {sweep[s].name}] /\ UNCHANGED dir
    /\ sweep' = [sweep EXCEPT ![s].name = Nothing, ![s].judged = Nothing]
    /\ UNCHANGED <<procs, held, used>>

(* The pool exists and the transport listens.                              *)
Serve(s) ==
    /\ stage[s] = "sweeping"
    /\ sweep[s] = NoSweep
    /\ stage' = [stage EXCEPT ![s] = "serving"]
    /\ UNCHANGED <<pid, gui, dir, held, sweep, used, stuck>>

-----------------------------------------------------------------------------
(* materialize_private_copy and cleanup_session_dir of a pool's session.   *)

MakeDir(s, x) ==
    /\ stage[s] = "serving"
    /\ held[s][x] = "no"
    /\ dir' = [dir EXCEPT ![x] =
          IF @ = Nothing THEN [owner |-> Nothing, copies |-> {}] ELSE @]
    /\ held' = [held EXCEPT ![s][x] = "made"]
    /\ used' = [used EXCEPT ![x] = @ \cup {s}]
    /\ UNCHANGED <<procs, sweep, stuck>>

WriteOwner(s, x) ==
    /\ held[s][x] = "made"
    /\ dir[x] # Nothing
    /\ dir' = [dir EXCEPT ![x].owner = pid[s]]
    /\ held' = [held EXCEPT ![s][x] = "owned"]
    /\ UNCHANGED <<procs, sweep, used, stuck>>

Copy(s, x) ==
    /\ held[s][x] = "owned"
    /\ dir[x] # Nothing
    /\ dir' = [dir EXCEPT ![x].copies = @ \cup {s}]
    /\ held' = [held EXCEPT ![s][x] = "copied"]
    /\ UNCHANGED <<procs, sweep, used, stuck>>

(* The session is closed, or its open failed, also because the directory   *)
(* has gone.                                                               *)
Cleanup(s, x) ==
    /\ Up(s)
    /\ held[s][x] # "no"
    /\ held' = [held EXCEPT ![s][x] = "no"]
    /\ dir' = [dir EXCEPT ![x] = Nothing]
    /\ UNCHANGED <<procs, sweep, used, stuck>>

-----------------------------------------------------------------------------
SweepStep(s) == BeginSweep(s) \/ Judge(s) \/ Remove(s) \/ Serve(s)

SessionStep(s) == \E x \in Ids :
    MakeDir(s, x) \/ WriteOwner(s, x) \/ Copy(s, x) \/ Cleanup(s, x)

LifeStep(s) == Die(s) \/ Interrupt(s) \/ Leave(s)

(* What a sweep has to remove: what had a dead owner when it began, and    *)
(* has had ever since.                                                     *)
Watch == doomed' = [s \in Sups |->
    CASE stage'[s] = "sweeping" /\ stage[s] = "launched" ->
            {x \in Ids : dir[x] # Nothing /\ Dead(dir[x].owner)}
      [] stage'[s] = "sweeping" /\ stage[s] = "sweeping" ->
            {x \in doomed[s] : dir'[x] = dir[x] /\ ~ ParentAlive(dir[x].owner)'}
      [] stage'[s] = "serving" /\ stage[s] = "sweeping" -> doomed[s]
      [] OTHER -> {}]

Next ==
    \/ \E s \in Sups :
          (StartByHand(s) \/ SweepStep(s) \/ SessionStep(s) \/ LifeStep(s)) /\ Watch
    \/ \E g \in Guis : (ProbeSupervisor(g) \/ SpawnSupervisor(g)) /\ Watch

Spec == Init /\ [][Next]_vars

-----------------------------------------------------------------------------
(* Properties.                                                             *)

(* A directory under a session of a running supervisor is removed by that  *)
(* session, by another pool's session with the same id, or by a sweep that *)
(* read an owner file in it when nobody had the pid in there, and came too *)
(* late: never because the owner file was not there yet                    *)
(* (scratch_copy.py:195-200).                                              *)
SweptForAReason == \A s \in Sups, x \in Ids :
    held[s][x] # "no" /\ held'[s][x] # "no" /\ dir[x] # Nothing /\ dir'[x] = Nothing =>
        \/ \E t \in Sups \ {s} : held[t][x] # "no" /\ held'[t][x] = "no"
        \/ \E t \in Sups : sweep[t].name = x /\ sweep[t].judged \in Pids

(* The copy of a session stays, whatever is swept, if its id was never     *)
(* used by another supervisor.                                             *)
CopyStays == \A s \in Sups, x \in Ids :
    held[s][x] = "copied" /\ used[x] = {s} => dir[x] # Nothing /\ s \in dir[x].copies

(* A sweep is thorough: what a crashed supervisor left is gone when the    *)
(* next one listens, unless the system refused.                            *)
SweepIsThorough == \A s \in Sups : stage[s] = "serving" => doomed[s] \subseteq stuck[s]
=============================================================================
