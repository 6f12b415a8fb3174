-------------------------- MODULE OverflowRouting --------------------------
(* References to truncated results: a worker parks an oversized result     *)
(* under its content hash (interface/mcp/overflow.py, middleware.py), the  *)
(* supervisor remembers which session parked it and routes a read of the   *)
(* reference back (interface/router/supervisor.py).                        *)
(*                                                                         *)
(* Calls are requests of agents, each on its own thread; what a thread     *)
(* learnt about a session may be outdated when it goes on.                 *)
EXTENDS Integers, FiniteSets, Sequences, SequencesExt

CONSTANTS
    Workers,     \* worker processes; each is opened at most once (a bound)
    Ids,         \* session ids
    IdOf,        \* the id a worker is opened under
    Uris,        \* references, that is, contents
    Parks,       \* the oversized results the database of a worker yields
    Calls,       \* tool calls and reads; each is made at most once (a bound)
    MaxEntries,  \* OverflowStore._max_entries
    MaxOwners,   \* _MAX_OVERFLOW_OWNERS_PER_SESSION
    NoWorker, NoUri, NoOwner

ASSUME RoutingAssumption ==
    /\ MaxEntries \in Nat \ {0} /\ MaxOwners \in Nat \ {0}
    /\ IdOf \in [Workers -> Ids]
    /\ Parks \in [Workers -> SUBSET Uris]
    /\ NoWorker \notin Workers /\ NoUri \notin Uris /\ NoOwner \notin Ids

VARIABLES
    pool,      \* the worker registered under each id
    opened,    \* workers that were opened
    purging,   \* closed workers whose owners have still to be forgotten
    store,     \* OverflowStore._store of each worker, oldest first
    owners,    \* _overflow_owners: the references of each session id,
               \* oldest first (their order across ids is not looked at)
    stage,     \* where the thread of a call is
    at,        \* the session it resolved
    owner,     \* the owner it looked up
    ref,       \* the reference it reads, or was given
    returned,  \* history: <<worker, uri>> of the results that were returned
               \* and not purged since
    after,     \* history: references used in that session since the result
    touched    \* history: the same, for a result that has not returned yet

vars == <<pool, opened, purging, store, owners, stage, at, owner, ref, returned, after, touched>>
history == <<returned, after, touched>>

Stages == {"idle", "called", "routing", "reading", "parked", "done", "failed"}

(* Also that no session fills the map of owners (supervisor.py:58-60).     *)
TypeOK ==
    /\ pool \in [Ids -> Workers \cup {NoWorker}]
    /\ opened \in SUBSET Workers
    /\ purging \in SUBSET opened
    /\ \A w \in Workers :
          /\ ToSet(store[w]) \subseteq Uris
          /\ IsInjective(store[w])
          /\ Len(store[w]) <= MaxEntries
    /\ \A i \in Ids :
          /\ ToSet(owners[i]) \subseteq Uris
          /\ IsInjective(owners[i])
          /\ Len(owners[i]) <= MaxOwners
          /\ \A j \in Ids \ {i} : ToSet(owners[i]) \cap ToSet(owners[j]) = {}
    /\ stage \in [Calls -> Stages]
    /\ at \in [Calls -> Workers \cup {NoWorker}]
    /\ owner \in [Calls -> Ids \cup {NoOwner}]
    /\ ref \in [Calls -> Uris \cup {NoUri}]
    /\ returned \in SUBSET (Workers \X Uris)
    /\ after \in [Workers \X Uris -> SUBSET Uris]
    /\ touched \in [Calls -> SUBSET Uris]

Init ==
    /\ pool = [i \in Ids |-> NoWorker]
    /\ opened = {}
    /\ purging = {}
    /\ store = [w \in Workers |-> <<>>]
    /\ owners = [i \in Ids |-> <<>>]
    /\ stage = [c \in Calls |-> "idle"]
    /\ at = [c \in Calls |-> NoWorker]
    /\ owner = [c \in Calls |-> NoOwner]
    /\ ref = [c \in Calls |-> NoUri]
    /\ returned = {}
    /\ after = [p \in Workers \X Uris |-> {}]
    /\ touched = [c \in Calls |-> {}]

Serving(w) == pool[IdOf[w]] = w

(* u is used in the session of w: it gets newer than the references there. *)
Touch(w, u) ==
    /\ after' = [p \in Workers \X Uris |->
                    IF p \in returned /\ p[1] = w /\ p[2] # u THEN after[p] \cup {u}
                                                           ELSE after[p]]
    /\ touched' = [c \in Calls |-> IF at[c] = w /\ stage[c] = "parked" /\ ref[c] # u
                                   THEN touched[c] \cup {u} ELSE touched[c]]

---------------------------------------------------------------------------
(* The pool, as far as references are concerned.                           *)

Open(w) ==
    /\ w \notin opened
    /\ pool[IdOf[w]] = NoWorker
    /\ pool' = [pool EXCEPT ![IdOf[w]] = w]
    /\ opened' = opened \cup {w}
    /\ UNCHANGED <<purging, store, owners, stage, at, owner, ref, history>>

(* _tool_idb_close: the pool forgets the session first, the owners are     *)
(* forgotten by id afterwards.                                             *)
Close(w) ==
    /\ Serving(w)
    /\ pool' = [pool EXCEPT ![IdOf[w]] = NoWorker]
    /\ purging' = purging \cup {w}
    /\ UNCHANGED <<opened, store, owners, stage, at, owner, ref, history>>

Purge(w) ==
    /\ w \in purging
    /\ owners' = [owners EXCEPT ![IdOf[w]] = <<>>]
    /\ purging' = purging \ {w}
    /\ returned' = {p \in returned : IdOf[p[1]] # IdOf[w]}
    /\ UNCHANGED <<pool, opened, store, stage, at, owner, ref, after, touched>>

(* A worker that died is reaped by the pool; its owners stay.              *)
Reap(w) ==
    /\ Serving(w)
    /\ pool' = [pool EXCEPT ![IdOf[w]] = NoWorker]
    /\ UNCHANGED <<opened, purging, store, owners, stage, at, owner, ref, history>>

---------------------------------------------------------------------------
(* The worker's store.                                                     *)

Without(s, u) ==
    IF Contains(s, u) THEN RemoveAt(s, CHOOSE i \in 1 .. Len(s) : s[i] = u) ELSE s

(* The last n of s: the oldest beyond the cap go.                          *)
Newest(s, n) == IF Len(s) <= n THEN s ELSE SubSeq(s, Len(s) - n + 1, Len(s))

Refresh(s, u, n) == Newest(Append(Without(s, u), u), n)

(* Faulty: what is parked again is not refreshed.                          *)
MutPut(s, u) == IF Contains(s, u) THEN s ELSE Refresh(s, u, MaxEntries)

Put(s, u) == Refresh(s, u, MaxEntries)

(* get refreshes the entry.                                                *)
Get(s, u) == IF Contains(s, u) THEN Append(Without(s, u), u) ELSE s

---------------------------------------------------------------------------
(* Tool calls.                                                             *)

(* _resolve_session: by id, or the only one.  An adopted instance differs  *)
(* from a worker only in that nobody closes it here.                       *)
Resolve(c, w) ==
    /\ stage[c] = "idle"
    /\ Serving(w)
    /\ at' = [at EXCEPT ![c] = w]
    /\ stage' = [stage EXCEPT ![c] = "called"]
    /\ UNCHANGED <<pool, opened, purging, store, owners, owner, ref, history>>

(* The worker runs the tool and its output guard parks the result.         *)
Park(c, u) ==
    /\ stage[c] = "called"
    /\ Serving(at[c])
    /\ u \in Parks[at[c]]
    /\ store' = [store EXCEPT ![at[c]] = Put(@, u)]
    /\ ref' = [ref EXCEPT ![c] = u]
    /\ stage' = [stage EXCEPT ![c] = "parked"]
    /\ Touch(at[c], u)
    /\ UNCHANGED <<pool, opened, purging, owners, at, owner, returned>>

(* The frame or its reply is lost: the session closed, the worker died or  *)
(* the client stopped waiting.                                             *)
Lost(c) ==
    /\ stage[c] \in {"called", "reading", "parked"}
    /\ stage' = [stage EXCEPT ![c] = "failed"]
    /\ UNCHANGED <<pool, opened, purging, store, owners, at, owner, ref, history>>

(* u moves to the end of the references of i, and out of any other's.      *)
Remembered(u, i) ==
    [j \in Ids |-> IF j = i THEN Refresh(owners[j], u, MaxOwners) ELSE Without(owners[j], u)]

(* The reply arrives: _remember_overflow, and the agent has the reference. *)
Remember(c) ==
    /\ stage[c] = "parked"
    /\ owners' = Remembered(ref[c], IdOf[at[c]])
    /\ stage' = [stage EXCEPT ![c] = "done"]
    /\ returned' = returned \cup {<<at[c], ref[c]>>}
    /\ after' = [p \in Workers \X Uris |->
                    CASE p = <<at[c], ref[c]>> -> touched[c]
                      [] p \in returned /\ IdOf[p[1]] = IdOf[at[c]] /\ p[2] # ref[c]
                            -> after[p] \cup {ref[c]}
                      [] OTHER -> after[p]]
    /\ touched' = [touched EXCEPT ![c] = {}]
    /\ UNCHANGED <<pool, opened, purging, store, at, owner, ref>>

(* A merge, or a client of the instance itself, parks a result there or    *)
(* reads it back, without the supervisor's owners taking part: the read    *)
(* refreshes the entry like a park does.                                   *)
ParkAside(w, u) ==
    /\ Serving(w)
    /\ u \in Parks[w]
    /\ store' = [store EXCEPT ![w] = Put(@, u)]
    /\ Touch(w, u)
    /\ UNCHANGED <<pool, opened, purging, owners, stage, at, owner, ref, returned>>

---------------------------------------------------------------------------
(* resources/read.                                                         *)

OwnersOf(u) == {i \in Ids : Contains(owners[i], u)}

(* The owner is looked up under the lock of the owners ...                 *)
LookUp(c, u) ==
    /\ stage[c] = "idle"
    /\ ref' = [ref EXCEPT ![c] = u]
    /\ \/ \E i \in OwnersOf(u) :
             /\ owner' = [owner EXCEPT ![c] = i]
             /\ stage' = [stage EXCEPT ![c] = "routing"]
       \/ /\ OwnersOf(u) = {}
          /\ stage' = [stage EXCEPT ![c] = "failed"]
          /\ UNCHANGED owner
    /\ UNCHANGED <<pool, opened, purging, store, owners, at, history>>

(* ... and the pool is asked for it after that.                            *)
Route(c) ==
    /\ stage[c] = "routing"
    /\ IF pool[owner[c]] = NoWorker
       THEN stage' = [stage EXCEPT ![c] = "failed"] /\ UNCHANGED at
       ELSE /\ at' = [at EXCEPT ![c] = pool[owner[c]]]
            /\ stage' = [stage EXCEPT ![c] = "reading"]
    /\ UNCHANGED <<pool, opened, purging, store, owners, owner, ref, history>>

Read(c) ==
    /\ stage[c] = "reading"
    /\ Serving(at[c])
    /\ store' = [store EXCEPT ![at[c]] = Get(@, ref[c])]
    /\ stage' = [stage EXCEPT
                    ![c] = IF Contains(store[at[c]], ref[c]) THEN "done" ELSE "failed"]
    /\ Touch(at[c], ref[c])
    /\ UNCHANGED <<pool, opened, purging, owners, at, owner, ref, returned>>

Next ==
    \/ \E w \in Workers : Open(w) \/ Close(w) \/ Purge(w) \/ Reap(w)
    \/ \E c \in Calls, w \in Workers : Resolve(c, w)
    \/ \E c \in Calls, u \in Uris : Park(c, u) \/ LookUp(c, u)
    \/ \E c \in Calls : Lost(c) \/ Remember(c) \/ Route(c) \/ Read(c)
    \/ \E w \in Workers, u \in Uris : ParkAside(w, u)

Spec == Init /\ [][Next]_vars

---------------------------------------------------------------------------
(* A read of u reaches a worker that still holds it.                       *)
Readable(u) ==
    \E i \in OwnersOf(u) : pool[i] # NoWorker /\ Contains(store[pool[i]], u)

(* No other worker yields the same content.                                *)
Own(w, u) == \A v \in Workers \ {w} : u \notin Parks[v]

(* "Route an overflow ref back to the session that parked it"              *)
(* (supervisor.py:420): while that session is open, and until as many      *)
(* other references were used in it as fit its store or its owners, the    *)
(* agent that was given a reference can read it, whatever other sessions,  *)
(* other agents and merges do.  Two exceptions, because owners are kept    *)
(* one per content and forgotten by id: content that another session       *)
(* parked as well, and a late purge for an earlier session of the id.      *)
ReturnedRefIsReadable ==
    \A p \in returned :
        (/\ Serving(p[1])
         /\ Own(p[1], p[2])
         /\ \A n \in {MaxEntries, MaxOwners} : Cardinality(after[p]) < n)
        => Readable(p[2])

(* That, and no session takes more than its share of owners or entries.    *)
RefsAreKept == TypeOK /\ ReturnedRefIsReadable
===========================================================================
