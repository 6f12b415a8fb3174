---------------------------- MODULE SessionPool ----------------------------
(* What the pool promises the router, with no threads, locks, directories  *)
(* or closers in it: an id names one session at a time, goes to another    *)
(* only through a free or dead place and never beyond the cap; a caller is *)
(* given a session that is the id's own, a share in a live one, a refusal  *)
(* there is a reason for, or an error that leaves nothing behind.          *)
(* WorkerPool implements it.                                               *)
EXTENDS Naturals, FiniteSets

CONSTANTS Ids, Opens, MaxWorkers, NoOpen

VARIABLES
    holder,   \* the open whose session an id names
    outcome,  \* what the caller of an open has been told
    worker    \* the worker process of an open

vars == <<holder, outcome, worker>>

TypeOK ==
    /\ holder \in [Ids -> Opens \cup {NoOpen}]
    /\ outcome \in [Opens -> {"new", "opening", "open", "shared", "refused", "raised"}]
    /\ worker \in [Opens -> {"none", "running", "exited"}]

Init ==
    /\ holder = [x \in Ids |-> NoOpen]
    /\ outcome = [o \in Opens |-> "new"]
    /\ worker = [o \in Opens |-> "none"]

Holds(o) == \E x \in Ids : holder[x] = o

Dead == {x \in Ids : holder[x] # NoOpen /\ worker[holder[x]] = "exited"}

Without(S) == [x \in Ids |-> IF x \in S THEN NoOpen ELSE holder[x]]

Taken(places) == Cardinality({x \in Ids : places[x] # NoOpen})

Tell(o, what) == outcome' = [outcome EXCEPT ![o] = what]

(* The dead make room; a live session keeps its place.                     *)
Claim(o) ==
    /\ outcome[o] = "new"
    /\ \E x \in Ids :
          /\ Without(Dead)[x] = NoOpen
          /\ holder' = [Without(Dead) EXCEPT ![x] = o]
    /\ MaxWorkers # 0 => Taken(holder') <= MaxWorkers
    /\ Tell(o, "opening")
    /\ UNCHANGED worker

Share(o) ==
    /\ outcome[o] = "new"
    /\ \E x \in Ids :
          /\ holder[x] # NoOpen
          /\ outcome[holder[x]] = "open"
          /\ worker[holder[x]] = "running"
    /\ Tell(o, "shared")
    /\ UNCHANGED <<holder, worker>>

(* A session of that id is being opened, or every place is taken by one    *)
(* that has not died.                                                      *)
RefuseBusy(o) ==
    /\ outcome[o] = "new"
    /\ \E x \in Ids : holder[x] # NoOpen /\ outcome[holder[x]] = "opening"
    /\ Tell(o, "refused")
    /\ UNCHANGED <<holder, worker>>

RefuseFull(o) ==
    /\ outcome[o] = "new"
    /\ MaxWorkers # 0
    /\ holder' = Without(Dead)
    /\ Taken(holder') >= MaxWorkers
    /\ Tell(o, "refused")
    /\ UNCHANGED worker

Start(o) ==
    /\ outcome[o] = "opening"
    /\ worker[o] = "none"
    /\ worker' = [worker EXCEPT ![o] = "running"]
    /\ UNCHANGED <<holder, outcome>>

(* Only a session that still has its place is handed out.                  *)
Publish(o) ==
    /\ outcome[o] = "opening"
    /\ Holds(o)
    /\ worker[o] # "none"
    /\ Tell(o, "open")
    /\ UNCHANGED <<holder, worker>>

(* An error leaves neither a place taken nor a worker running.             *)
Raise(o) ==
    /\ outcome[o] = "opening"
    /\ ~ Holds(o)
    /\ worker[o] # "running"
    /\ Tell(o, "raised")
    /\ UNCHANGED <<holder, worker>>

(* Sessions are closed, found dead or given up; their workers may end with *)
(* them.                                                                   *)
Leave(S, K) ==
    /\ holder' = Without(S)
    /\ K \subseteq {holder[x] : x \in S}
    /\ worker' = [o \in Opens |->
                    IF o \in K /\ worker[o] = "running" THEN "exited" ELSE worker[o]]
    /\ UNCHANGED outcome

(* A worker may die at any time, and is killed when nobody can reach it.   *)
Exit(o) ==
    /\ worker[o] = "running"
    /\ worker' = [worker EXCEPT ![o] = "exited"]
    /\ UNCHANGED <<holder, outcome>>

Next ==
    \/ \E o \in Opens : \/ Claim(o) \/ Share(o) \/ RefuseBusy(o) \/ RefuseFull(o)
                        \/ Start(o) \/ Publish(o) \/ Raise(o) \/ Exit(o)
    \/ \E S \in SUBSET Ids : \E K \in SUBSET {holder[x] : x \in S} : Leave(S, K)

Spec == Init /\ [][Next]_vars
=============================================================================
