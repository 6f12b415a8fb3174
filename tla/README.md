# A verification development for idamesh

idamesh lets several agents work on the same binary in IDA at once.  A
*supervisor* process owns a pool of *worker* processes, one per open database;
each worker runs IDA's library on a private copy of the binary and serves MCP
over loopback HTTP.  IDA windows that run the idamesh plugin are *adopted* next
to the pool.  The supervisor opens and closes sessions, forwards tool calls to
them and merges what the agents did back into one database.

This directory models the program, model-checks it with TLC and proves the
central facts with TLAPS.  Paths below are relative to `src/src/idamesh/`.

## The system

| part | code | state | operations | what is hard | what makes it correct |
|---|---|---|---|---|---|
| worker pool | `infrastructure/process/worker_pool.py`, `session.py`, `handshake.py` | table of sessions, their processes | open (reuse, reserve, copy, spawn, handshake, publish), get, close, close_all, reap | threads of the HTTP transport interleave between the lock's critical sections; workers die; a handshake may never come | no worker runs that nobody can reach; the cap; a closed session stays closed |
| scratch copies | `infrastructure/process/scratch_copy.py` | directories on disk | materialize, remove, startup sweep | removal by name after the lock was released; two supervisors sweeping; crashes | a live session has its files, a dead one leaves none |
| supervisor router | `interface/router/supervisor.py`, `management.py`, `ports.py` | owners of overflow references | management tools, forwarding of calls and reads, listings | a session closes between resolution and forwarding; cached owners go stale | a call reaches the database it names or fails |
| merge | `interface/router/merge.py` | pristine baselines on the sessions | capture, export, reconcile, verify, apply, snapshot | agents edit while the merge runs; sessions vanish; calls time out half done | no edit lost in silence; never across binaries |
| reconciliation | `domain/services/reconciliation.py` | none | subtract, plan, resolve | the combination of policies, baselines and repeated sessions | only edits are planned, every edit is accounted for |
| annotations | `infrastructure/ida/annotation_adapter.py`, `application/annotation_wire.py` | the IDA database | export, apply | per-item refusals, comment slots, malformed rows | an apply is additive; what was exported is what is applied |
| worker client | `infrastructure/rpc/worker_client.py` | cached HTTP session ids | forward, ping, invalidate | stale ids, retries, restarts on one port | a frame is executed at most once |
| worker process | `bootstrap/worker_main.py`, `infrastructure/process/parent_watchdog.py` | main-thread queue | serve, pump, watch the parent | shutdown with calls queued | every call is answered, no orphan |
| transports | `infrastructure/transport/http.py`, `stdio.py` | HTTP sessions | initialize, post, delete | deletion under use, requests of any shape | sessions are created by initialize only |
| rpc router | `infrastructure/rpc/router.py`, `context.py` | cancellation registry | dispatch, batches, cancel | ids shared between clients | one answer for every id; a cancel reaches its request |
| MCP engine | `interface/mcp/*.py` | ready sessions, overflow store | initialize, list, call, read | bounded store, previews, coercion of arguments | a truncated result can be read back; what is announced is meant |
| discovery | `infrastructure/discovery/*.py` | records in a shared directory | register, read, probe, clean | crashes leave records; ports and pids are reused; two writers | a live instance stays visible, a dead one is not returned |
| plugin | `bootstrap/plugin_main.py`, `infrastructure/ida/execute_sync.py` | server inside IDA, its record | start, stop, launch a supervisor | two windows start at once | one supervisor for all windows |
| strings cache | `infrastructure/ida/cache/strings_cache.py` | cached list | get, invalidate | invalidated by two adapters only | no stale listing after a write |
| domain services | `domain/services/*.py`, `domain/query`, `domain/values` | none | call graph, component, data flow, taint, stack strings, vulnerability rules, survey, numbers, predicates | work limits, cycles, boundaries | agree with their definition, say when they stop short |
| use cases | `application/contexts/*.py`, `application/dto/*.py` | none | one per tool | sequences of changes, budgets over pages | a failed call leaves no trace; a walk is complete or says it is not |
| IDA adapters | `infrastructure/ida/*.py` | none of their own | SDK calls | several steps of which one fails | |
| catalog, schema | `interface/catalog/*.py`, `interface/mcp/schema.py` | none | declarations, schemas, coercion, hints | types inside each other; the supervisor's extra argument | a call that follows the listing is accepted as it was meant |
| executors | `infrastructure/ida/execute_sync.py`, `infrastructure/execution/inline.py` | none | run a job on the thread of the kernel | | |
| installer | `cli/install.py` | client config files | write config | | |

The parts meet like this.  A client speaks to the supervisor's *transport*; the
*rpc router* dispatches to the *supervisor router*, which either runs a
management tool on the *pool* and the *merge*, or forwards the frame with the
*worker client* to a worker's transport.  There the same rpc router and the
*engine* bind the arguments and run a tool, on the thread the *pump* (or IDA's UI
queue) provides; the *use case* of the tool calls *domain services* and
*adapters*.  The worker's *overflow store* keeps what is too long to return.

## The modules

| module | models | state |
|---|---|---|
| `SessionPool` | abstract: an id names one session at a time, and the five things a caller may be told of its open | `holder`, `outcome`, `worker` |
| `WorkerPool` | the pool with its lock, the processes and the scratch directories; every open is a thread that walks through the stages of `open_session`; implements `SessionPool` | `sessions`, `call`, `sid`, `proc`, `announced`, `scratch`, `victims`, `cleaning` |
| `Reconciliation` | the pure operators of `reconcile` and the promises of a plan | |
| `IdbMerge` | one `idb_merge` and the baseline captures before it, with agents editing, closes and failing calls | `open`, `db`, `prov`, `capturing`, `baseline`, and the locals of the merge |
| `RemoteCall` | abstract: a call that runs at most once and whose outcome is reported honestly | `phase`, `runs` |
| `WorkerClient` | `forward` and `ping` over the MCP lifecycle, with the worker's POST handler and gate, on a port that workers come and go on; implements `RemoteCall` | `cached`, the locals of each call's thread, its `request`; `known` and `ready` of the worker |
| `Protocol` | a server from the socket to the method that answers: HTTP and stdio, JSON-RPC, the lifecycle, for a worker or the supervisor | `sessions`, `ready`, per request `stage`, `req`, `key`, `done`, `responses`, `status` |
| `WorkerProcess` | one worker over HTTP: the main thread with its job pump, the watchdog of the supervisor, the threads of requests, the cancellation registry | `main`, `jobs`, `stopped`, `watch`, `cancelWatch`, `stage`, `tokens`, `tripped`, `outcome` |
| `OverflowRouting` | references to truncated results: the workers' stores, the supervisor's map of owners, tool calls and reads | `store`, `owners`, `pool`, the locals of each call's thread |
| `Discovery` | the registry of IDA windows: registering, refreshing, leaving, crashing, reading | `stage`, `port`, `pid`, `minted`, `file`, `reader` |
| `Supervisors` | several supervisors on a host: auto-launch, start, scratch directories, sweep | `stage`, `pid`, `gui`, `dir`, `held`, `sweep` |
| `CallGraph` | the bounded breadth-first walk, the component's roll-up | `nodes`, `edges`, `scheduled`, `queue`, `current`, `rest`, `truncated` |
| `Sweeps` | the tools that walk a whole repository in pages under a budget | `source`, `offset`, `page`, `pages`, `scanned`, `rest`, `found`, `truncated` |
| `Database` | an open database under the tools that change it, and the cache of its strings | `items`, `funcs`, `text`, `names`, `types`, `locals`, `marks`, `notes`, `cache` |
| `DataFlow` | the def-use tracers and the source-to-sink tracer | |
| `Operands` | decoding operands, stack slots and stack strings | |
| `Findings` | the vulnerability rules, the danger table, the survey, `analyze_function` | |
| `Lookups` | predicates and filters of the queries, and the bounds of listings | |
| `Readings` | selectors, reads of memory and structures, `int_convert` | |
| `Wire` | the document of an annotation record | |
| `Schema` | type hints to JSON Schema and coercers, binding, shape of results | |
| `Catalog` | every tool and resource as declared, its hints, its listing by the supervisor; extends `Schema` | |

`WorkerPoolProofs`, `IdbMergeProofs`, `WorkerClientProofs`, `RpcProofs`,
`OverflowProofs`, `WorkerProcessProofs`, `HostProofs` and `ServicesProofs` hold the
theorems.  The `MC...` modules
choose small instances: `MCHost` puts `Discovery` and `Supervisors` side by side,
`MCRpc` `WorkerClient` and `Protocol`, `MCServices` everything that one request
computes or does to its database: the three with steps, `CallGraph`, `Sweeps` and
`Database`, which `Services` puts together with their constants and properties so
that they can be proved about, and those that are functions (its samples for the five modules about
reports and readings are in `MCReports`).  In these three a behaviour is of one
part, and the others keep still; a variable `part` says which.  `IdbMerge`
extends `Reconciliation`: its request is the argument of `Plan`, `Conflicts` and
`Unresolved`.  Operators named `Mut...` are faulty variants of the definition
after them; they take part in no specification and show that the properties can
fail.

### WorkerPool

An action is a critical section of the pool's lock or one slow step between two
of them (copying the input, launching the process, waiting for the readiness
line), because any other thread may run there.  A worker may announce itself,
exit or crash on its own.  `Opens` are calls of `open_session`, each with its
own record, so a session object and its process are identified by the call.
`victims` and `cleaning` are the sessions a closing thread has popped and still
has to terminate and clean up.

`SessionPool` is what the router may rely on, with no threads, locks or
directories in it: a place is claimed only if it is free or its worker is dead,
and never beyond the cap; a share is one in a live session; a call is refused
because its id is being opened or because every place is taken; only a session
that still has its place is handed out; an error leaves neither a place taken nor
a worker running.  The mapping is `Outcome` (the stages between the reservation
and the return are *opening*) and `Worker` (a process that has not exited is
running, announced or not); `holder` is the table `sessions` itself.

### Reconciliation and IdbMerge

A record maps fields and keys to signatures; an absent key and an empty
signature are both `NoValue`.  In `IdbMerge` a signature is a pair of slots, as
comments have, because `apply` writes the slots one by one and skips empty
ones; names and prototypes use the first slot.  One action is one worker call
or one piece of local work between two calls.  A call may fail at any time; one
that times out may have been executed.  `Requests` is a constant: the model is
the same for every argument of the tool, and each run chooses the arguments its
question needs.  The order of the items within the apply calls is left open.
The names a database refuses (`SN_CHECK`) are a free choice of each item.
`edited` and `late` are history: which keys agents edited, and which of these
while the merge ran.  The model stops when the merge returns.

### WorkerClient

The client caches session ids by (host, port), so a cached id may belong to a
process that is gone.  The model is of one port; an *incarnation* is a worker
bound to it and a call carries the token of the incarnation it was addressed
to.  An action is a critical section of the client's lock, a connect, a reply
read, or the handling of one request by the worker.  A request whose sender
gave up stays in `request` and may still be served.  The transports are built
without `require_session` everywhere in the program, so that a stale id is told
by the engine's gate and not by a 404.  The spent connect retries are one
action, `Refused`.

`RemoteCall` is what callers rely on: a frame runs at most once, an answer comes
from a run, a refusal from none, and what is lost is reported as unknown.
`Phase` is the refinement mapping.

### Protocol

A request is its verb, the checks it would pass (path, origin, token, size,
protocol version), the session its header names and a body; an element of the
body is whether it is an object of JSON-RPC 2.0, its method, its id, and which
of the method's cases its parameters are.  Every HTTP request is a thread whose
steps are the check of its session, its routing, one dispatch for each element,
and the answer.  The transport's set of sessions and the engine's set of ready ones
have a lock each, which is not held in between.  `announced`, `opened`, `ended`,
`late` and `served` are history.

### WorkerProcess

The main thread opens the database, serves, pumps jobs and shuts down in the
order of `main()`; every `finally` is a stage of its own, since the watchdog and
the threads of requests run on meanwhile.  A request walks through accept,
dispatch (its token is registered), the wait for its job, the `finally` that
drops the token, and the reply.  A job that raises an `Exception` becomes an
error result; one that raises anything else (`sys.exit` in a script, Ctrl-C) is
re-raised on the waiting thread and ends the connection without a reply
(`thrown`).  `wanted` is history: what clients cancelled while it was live.

### OverflowRouting

A `store` is a sequence, oldest first, as Python's ordered dictionary is.  The
supervisor's map of owners is one such dictionary from references to session
ids; the code only ever looks at the entries of one id (the cap is per id, a
purge is by id) or at the owner of one reference, so `owners` has a sequence for
each id, and a reference that gets another owner leaves the sequence of the
first.  A call is a thread with the session it resolved, the
reference it got or reads, and the owner it looked up: between any two of these
the session may close and its id be used again.  `after` and `touched` are
history: which references were used in a session after a given one, on which
the caches' eviction depends.

### Discovery and Supervisors

A step is one file operation, one probe of a pid or port, or one bind.  A crash
leaves the record or the directory behind, and the system gives its pid and
port out again; whoever asks whether a pid lives then sees the new process.  A
read of the registry is a loop over the files with a step for the read, the two
probes and the removal of each, so that a record may be replaced in between.  A
sweep is such a loop over the directories.  In `Supervisors` a session of a
pool is how far its directory has got, the rest being in `WorkerPool`; the
windows of IDA probe the port of a supervisor and launch one when they find
none.

### CallGraph and Sweeps

In `CallGraph` the program is a function from addresses to what they call; a
step takes a function off the queue or a callee off the current function's
list.  In `Sweeps` the tools are one nest of loops, over sources, pages, items
and the hits of an item; `Kinds` differ in where they stop and in what they
then say.  A hit has a place, its source, item and number (`Places`): a walk is in
order when the hits it found are those of the first places within reach, and a
query reaches the beginning of every source (`Reach`), going on to the next one
when it has scanned its `MAX_*_QUERY_SCAN` items.

### Database

One action is one tool call with everything its use case and its adapter do,
failures included.  The kernel is external: an item is a span of one kind, a
function is its entry, the strings are the addresses with text outside of any
instruction.  `stale` and `last` are history.

### Pure services

They have no state: an operator returns the result for an argument, and a
property compares it with a definition of what was asked for, written apart
from the algorithm.  Addresses, numbers and texts are small sets or sequences of
letters; widths are small powers of two and kept (`% 2^w`).

## The runs

| run | question | bounds |
|---|---|---|
| `pool` | does any interleaving lose a process or a directory or revive a closed session; is the pool a `SessionPool`, so that none replaces a live one | three opens, two closers, two ids, one thread that reaps |
| `pool_live` | does the cap hold, does every open return, does what became unreachable die | cap 1, two opens |
| `pool_copy` (violation) | a ready session without its private copy | |
| `merge` | is an edit lost from a merge that says ok; is an uncontested edit of the target overwritten | two workers and an adopted IDA, one key, two edits, three policies |
| `merge_gate` | can a merge write across binaries; is everything that is reported as applied in the target; does the tool return, whatever it is called with | two sha256 values and unknown, image base known or not; no, closed, repeated, adopted sources; three items, two per call |
| `merge_baseline` (violation) | can a baseline contain an edit | |
| `merge_snapshot` (violation) | can a worker be taken for an adopted instance | |
| `client` | is a frame executed twice or answered falsely; can a late handshake open the next worker's gate; is a stale id recovered from; does every id get one answer; is anything served outside a session | two forwards and a ping, a worker and its successor; three requests to a server, at most one of them not about sessions or in one that was made up, two sessions, four configurations |
| `overflow` | can an agent read the reference it was given | two sessions with a content in common and one under the id of the first, three contents, three calls, caps of two |
| `worker_process` | can a call wait for ever, a worker outlive its supervisor, a cancellation miss its request | two clients, one call each, with the same id |
| `host` | is a read of the registry complete and without ghosts; is a sweep thorough; is anything removed that is in use | three windows, two ports, two pids, one reader; three starts of a supervisor, two ids |
| `services` | do the tools agree with their definitions, and is the database left sound by any sequence of calls | see below |

`services` takes: every call graph of three functions with up to two callees
each, depths -1, 1 and 3, ceilings 1 to 3; every sweep over up to five items of up to
two hits in pages of two, over one or two sources, the first
of which may be larger than the reach of a query, budgets 0 to 2; every
sequence of three changing calls on a database of three addresses, one of them
not mapped, with enums of two members; every request for a plan with up to three records over two sessions
and one key; every program of up to three instructions out of thirteen, every
start, seed and cap; a type of every kind and what is built of two of those,
with JSON values up to two levels deep; every tool with its arguments left out,
replaced, added or given by position; every path of up to three segments of a
resource; and the samples of `MCReports`: 64 addresses and bytes of four values
for stack strings, memories of bytes of two bits, expressions nested two deep,
programs and lists of up to three or four elements.

Why the bounds suffice: three opens are the least number in which one call can
fail, a second reuse its id and a third observe the result; two closers are the
least that can race for one session.  Keys of a plan are computed independently
of each other, and a conflict needs two sources; a third record lets a session
appear twice.  Two edits make a conflict or an edit and a baseline that
contains one.  Two forwards race for the cached id, a ping stores ids without
having looked, and one replacement of the worker makes an id stale.  Three
requests of a session are enough to end it, to open another one and to use the
ended one at the same time; requests that fail a check touch nothing that
another could see.  Caps of two are the least at which the oldest of several
entries is told from the newest; three contents of one session overflow them,
the second session is there to be trimmed or forgotten by mistake, and the third
takes the id of the first.  In `worker_process` two calls are the least of which
one waits in the queue while the other runs, and that can use one id at the same
time.  In `host` a crashed process, the one that inherits its pid or port and a
third that reads or sweeps are the least that can be mistaken for each other.
Three functions make a cycle, a diamond and a frontier behind a ceiling; two
pages and the rest of one reach every way a sweep ends; three changes make,
change and read an item.

Fairness.  In `WorkerPool` only the threads of calls already made are fair: a
thread that runs Python and is not blocked makes progress, and every wait has a
time-out (`HandshakeTimeout`, `_terminate`).  No worker has to answer, no call
has to be made, no session has to be closed.  In `IdbMerge` the merging thread
is fair, because each of its worker calls has a time-out (`merge_gate`).  In
`WorkerProcess` the main thread, the watchdog and the threads of accepted
requests are fair: the waits of the pump and of the shutdown have time-outs and
the watchdog polls.  This assumes that jobs end; one that never does keeps the
main thread, and with it an orphaned worker.  No client, Ctrl-C or death of the
supervisor is assumed.  The other runs check safety only.

What the properties of `services` and `client` say, where a name is not enough:
`WalksAreHonest` is that what a sweep returns is a prefix of what there is, all of
it unless it says otherwise.  `TracesAgree` is that a capped trace is a prefix
of the whole one, and that a forward one says it is cut if and only if it is;
that without calls and zeroing idioms forward reach and the forward tracer follow
a value to the same places, and backward the places a value came from are those
from which it is found to arrive; and that for a sink that is reported an
argument was written since the last call, or is in a register that calls keep.
`AnnouncedIsMeant` is that what a schema admits
is accepted and reaches the tool as it was written, what comes back has the
shape announced, also through the supervisor, and no path has two resources.
`HintsAreTrue` is that no call of a tool listed as read-only changes the database.
`ReportsAreTrue` is that operands name the slots they address, stack strings are
what the frame holds in the end, findings are the calls of the text, and the
survey accounts for all it looked at.  `LookupsAgree` is that a filter only
narrows, a listing that is cut says so, and two tools that read one place say the
same.  `AnsweredOnce` is that the answers of a request are those of its elements
that have an id, in their order; `ServedInSession` that only what is said in a
session that was opened passes the gate.

### What the code does against its own words

* `pool_copy`: a private directory is removed by id after the lock was
  released, and may by then belong to a new session.
* `merge_baseline`: a session is listed before its baseline is captured; an
  edit made in between becomes part of the baseline and is subtracted from
  every later merge, although the comments promise that nobody has edited yet.
* `merge_snapshot`: *adopted* is decided by `pool.get` returning `None` at
  snapshot time.  A worker that was closed or died after the last apply call is
  taken for an adopted IDA: the merge answers `ok` and asks the operator to save
  in an instance that does not exist, and no snapshot is written.

Observed on the way, without a run of their own; each is an exception that a
property names, or a limit of what it says.

Sessions and processes.

* The error path of `open_session` discards by session id, so when its own
  record was closed or reaped meanwhile it takes away the reservation a later
  open made under the same id (`CleanupAndRaise`).
* Two windows that find no supervisor launch one each (the probe and the launch
  in `bootstrap/plugin_main.py` are apart), although the plugin counts on one
  shared singleton; both sweep one scratch root and may use one session id
  (`CopyStays` and `OnlyStaleVerdictsRemove` except what follows from that).
* Whether a registry record or a directory is dead is decided before it is
  removed; a process that took the port or the id in between loses its own.
* `forward` reads whether an id is cached (`was_cached`) apart from the id
  itself, so an id that another thread stores in between is rejected without the
  replay (`Look` and `Ensure`; `StaleOnlyWhenDisturbed` bounds the damage).
* Cancellation does little in a worker.  No tool polls its token, and a job that
  fails reaches the engine as a `ToolError` whether it was cancelled or not, so
  that `notifications/cancelled` never changes what a call returns.  The registry
  is keyed by the request id alone and shared by all clients of the process, and
  the supervisor's merge counts its own ids from one on the same worker: a second
  call with an id takes the token over, and the first one to end drops it
  (`CancelHitsItsRequest` holds while an id is used by one client).
* A reference is a content hash with a single owner: when two sessions parked the
  same content, closing one forgets it although the other still holds it; a reply
  that is handled after the close makes the closed session the owner; and replies
  may be handled in another order than the store saw the results, so that at its
  cap the map of owners forgets a reference the worker still holds.

Protocol.

* No entry point sets `require_session`.  Clients without a header share one
  key, and a tool runs after `notifications/initialized` without any
  `initialize`, against the docstring of `_require_initialized`
  (`interface/mcp/engine.py:211`); a session that is deleted stays ready in the
  engine.
* A request with an id to a notification's method gets no answer.  A malformed
  frame that names `initialize` allocates a session, and one refused for its
  protocol version leaves a session that nobody is told.
* Parameters given as an array to `initialize`, `tools/list` or the supervisor's
  `resources/read` are an internal error.
* The supervisor replaces `arguments` that are no object by none
  (`interface/router/supervisor.py:225`), where a worker would bind an array by
  position or refuse.
* Integral floats (`1.0`) are integers of JSON Schema and are rejected
  (`interface/mcp/schema.py:137`); a return type that mixes an object with
  something else is announced wrapped and sent unwrapped (no tool has one); a
  type without a rule is announced as an object and lets anything through.

Merging.

* An unknown merge field raises `ValueError` in `reconcile`, which `merge` does
  not turn into a report.
* A malformed row of a document is skipped without a word, and of two rows for
  one key the later wins.  A comment whose regular form was written and whose
  repeatable form was refused counts as a failure although its text is there.
* Deliberate in the code: a key that was *deleted* in a copy is not exported, so
  deletions are never merged; comment slots are overlaid, so after policy `last`
  a target may hold one slot of each side; a target that is not a source
  contributes no edits and is not protected from being overwritten.

Listings and reports.

* The cached strings are not dropped by `undefine`, `define_code`, `define_func`,
  `exec_python`, nor by a `make_data` that fails after it cleared the span; the
  options of IDA's string list are not restored when building it raises.
  `BaseStaysSound` holds until one of these has run.
* A failed `make_data` has cleared its span and a failed declaration has
  installed the types before the error; `FailureLeavesNoTrace` names them.
  `_require_mapped` looks at the ends of a span only, and `patch_bytes` counts
  bytes at addresses that are not mapped.
* `find_dangerous_callers` promises `truncated` at the page ceiling (docstring,
  71 to 73) and does not set it; the scan ceilings of the queries leave items out
  silently.  `detect_stack_strings`, `disasm`, `find_bytes` and `search_text` say
  truncated at an exactly full budget, `trace_source_to_sink` when only functions
  without a path remain.  The first page of a sweep (1000) is larger than the
  cap of functions (400).  A listing whose database is edited between two pages may
  skip or repeat; a cursor ignores the count asked for.
* The survey's shortlist of imports is cut at 40 without being reported, and a
  function count that failed hides that its page was cut.  A string of
  superscript digits passes for an IPv4 octet and fails the whole survey
  (`domain/services/survey.py:296`).
* `_forward` takes neither the clobbering of a call nor a zeroing `xor` into
  account, where `forward_reach` does; a stack slot is known by its displacement,
  whatever its base register.
* `[rbp+var_8]` is read as base and index, so the slot is lost, and
  `[rsp+rax+58h+var_18]` loses its index, so an indexed access is taken for one
  slot, against the comment at `instruction_decode_adapter.py:177`
  (`Operands.Misread`).
* The vulnerability rules find names of calls inside string literals, and a
  literal `'"'` throws the splitting of literals off.
* `int_convert` reads `--5` as 5; a selector of bare hex digits is a symbol; the
  needle of `func_query` and `entity_query` is not stripped where that of
  `insn_query` is; `read_struct` raises for a structure of no size; `xref_query`
  from a place looks at calls only.

## The proofs

All theorems hold for every value of the constants, under the `ASSUME`s of the
modules (disjoint id sets, a positive chunk size, well-formed requests, values
closed under the overlay of slots).

* `WorkerPoolProofs`: type, `NoOrphan`, `CapRespected`, `NoTakeover`,
  `ClosedStaysClosed`, `ScratchIsHeld`, and that `WorkerPool` implements
  `SessionPool`.  The inductive invariant adds that a
  registered record carries its own id and has not passed the stage that gives
  the registration up (`RegisteredBySid`), and which process states go with
  which stage (`ProcessByStage`): without them a failing open could unregister a
  record whose process still runs.  The refinement needs both: a call that finds a
  record in the table is told it is busy or gets a share only if the stage of the
  record says that it is being opened or that its worker runs, and an error is
  raised after the record has lost its place and its process.  `NoTakeover`, which
  no run checks by itself, is a consequence of the refinement.
* `IdbMergeProofs`, about the plan: for every request, planned values are genuine
  edits, no edit vanishes, manual takes no side; first and last mirror each
  other, and under the other policies the order of distinct sessions decides
  nothing; whichever source the plan was applied to, the plan of the repeated
  merge writes what is there already.  They rest on the existence of an earliest
  and a latest contributor, that is, of a least element of a non-empty set of
  naturals.  The order result compares the request with its mirror position by
  position (`IsMirror`); the repetition result looks at each key by itself: the
  target has become a contributor with the planned value, or with its baseline's
  and then it is none (`RepeatOfKey`).
* `IdbMergeProofs`, about the run: type; `NoCrossBinaryWrite`; that the
  plan of every reachable request is sound in all these ways (`MergesPlanSoundly`);
  and the three promises of its result,
  `OkMergeKeepsEveryEdit`, `TargetKeepsItsEdits` and `ReportedAsAppliedIsThere`.
  The inductive invariant (`IInv`) says that the records are those of the
  sources, in order and complete once the exports have ended, and that the
  provenance gate has been passed from then on.  For the promises it is
  strengthened (`KeptInv`) by what an exported record still has to do with the
  copy it was read from: the value is there, unless an agent edited it since or
  the merge replaced it by another value of the plan (`SourcesKept`); by the
  baselines of the request being the captured ones, which change no more; and by
  an item that was sent and not refused being in the target, unless an agent
  edited it while the merge ran (`SentIsThere`).
* `WorkerClientProofs`: type; that `WorkerClient` implements `RemoteCall` for any
  number of calls and workers; `ReadyWasAssigned` and `StaleOnlyWhenDisturbed`.
  The inductive invariant relates the stage of a call to the kind of its request
  and to its `runs`: a frame that has run is either answered `ok` or behind a
  thread that gave up, never behind one that will send it again.
  `ReadyWasAssigned` needs that no two processes have a token in common
  (`OwnTokens`, which `worker_pool.py:355` mints at random), and `GateInv`: an id
  that a call holds between the two halves of its handshake was given to it by
  the process it is addressed to, so that only that process can be told it.
* `RpcProofs`, for any number of requests of any shape and of sessions:
  `ServedInSession`, whose invariant says that a session was given out before it
  is in the transport's set or the engine's, that what is ended stays ended, and
  that a request beyond the check of its session is in one that was there when it
  was checked; and `AnsweredOnce`, whose invariant says, at every stage of a
  request, which of its elements' answers have been collected and at which place.
* `OverflowProofs`, for any number of workers, ids, references and calls and caps
  of any size: `RefsAreKept`.  The invariant is that what is newer than a
  reference in a store or among the owners of its session was used there since
  the reference was returned (`StoreIsFresh`, `OwnersAreFresh`); it rests on lemmas
  about such lists: refreshing an entry moves it behind all others and changes no
  other order, and an entry goes only when as many newer ones fill the cap
  (`RefreshIs`, `NewestIs`).
* `WorkerProcessProofs`, for any number of requests and ids: `CancelHitsItsRequest`,
  and that the queue holds exactly the jobs whose threads wait for them
  (`ProcessQueueIsWaiting`).  The invariant says that the token of an id belongs
  to a request that bears the id, and that a request that shares its id with no
  other has one exactly while it is live (`TokenIsLive`).
* `HostProofs`, for any number of windows, supervisors, ports and pids:
  `ReadIsTrue` (a read of the registry misses no record that was there all
  along, and returns no ghost), `CopyStays` and `SweepIsThorough` (a scratch
  directory in use is never removed, an abandoned one is), and the action property
  `OnlyStaleVerdictsRemove`.  The invariants (`RegistryInv`, `ScratchInv`) say what
  a reader and a sweep know, at each step of their loops, about the file or
  directory in hand, and that whoever is still to be listed or removed is in
  hand or ahead of them (`NobodyIsPassedOver`, `DoomedAreInSight`).
* `ServicesProofs`, the call graph: for every program and every bound, a graph keeps its ceiling
  and only has edges that are calls between its nodes (`AlwaysConsistent`), and a
  finished one says that it is truncated exactly when a call of one of its nodes
  is missing (`TruncatedIsExact`).  The invariant says where a call is that is
  not an edge: its function is still queued, or is being expanded and the call
  is in `rest` (`NothingElided`); once the flag is set, some call is missing for
  good, because its function stands at the depth bound or the ceiling is reached
  (`SomethingElided`).  A finished graph is also whole (`GraphIsWhole`): while the
  ceiling leaves room it has exactly the functions within the depth by the
  shortest way.  That invariant goes by layers (`LayersInv`): what waits in the
  queue stands at its own distance, nearer functions first, the layer being
  expanded is complete, and no callee is dropped while there is room.  That a
  layer is finite, and that all of them are collected at the end, is by the least
  layer of which it is false.
* `ServicesProofs`, the sweeps: for every repository, budget and use case,
  `WalksAreHonest`.  A walk has a cursor, the place of the next hit it would look
  at, and what it has found is what there was before the cursor (`FoundUpTo`): as
  many hits as there are due places behind it, each at its number.  `WalkInv` adds
  what a page and an item still hold of their source, and that a sweep over the
  functions has not used up its budget before its only page ends.  So a walk that
  ends in silence has nothing ahead of its cursor, and one that says it is
  truncated stands at a hit it did not take.
* `ServicesProofs`, the database: for any addresses, names, types, members and
  slots and any number of calls, `BaseStaysSound` and, of each call,
  `FailureLeavesNoTrace`.  The property is inductive once the tables have their
  types (`BaseInv`).  Of the cache every tool does one of four things
  (`CacheFollows`): it touches neither strings nor cache, it drops the cache, it
  goes past it and leaves it marked `stale`, or it fills it.  The members of an
  enum stay apart because those of a request come from a mapping, and only those
  that the enum has not are appended (`MergedApart`).
* `ServicesProofs`, the tracing of data flow: for every program of decoded
  instructions, every start, operand, cap and place, `TracesAgree`.  The tracers
  are recursive functions of an index, and what is known of them is proved by
  induction over an interval (`Upwards`, from the well-foundedness of the
  naturals).  A trace that may keep so many steps is compared with the one that
  keeps them all after each instruction: they are equal until the first is cut,
  which is when the second has reached the cap (`CutOf`), and what is left of the
  program has something more exactly when the second goes on (`TellsOfMore`).  The
  two forward tracers are equal instruction by instruction (`StepPropagates`).  A
  backward step inverts a forward one in both directions: from a place it names
  one leads to a place named after it (`BackLeadsOn`), and from the others, if
  only copies are there, none does (`BackMissesNothing`).  What is tainted and
  was not has been written to in between (`TaintIsWritten`), so an argument
  register that calls clobber was written to since the last of them.

The assumptions, beside those above: an annotation value is a pair of slots
(`ValuesArePairs`, `IdbMerge`); the ports, pids, ids and files of `Discovery` and
`Supervisors` are different kinds of things, and a crashed window can be told
from none (`DiscoveryAssumption`, `HostAssumption`); the element of a body is a
record with an id of one of the six kinds that JSON has, and the absence of an id
is none of the ids (`RpcAssumption`, `OffersAssumption`); a page holds more items
than a sweep decodes functions (1000 of `MAX_COUNT`, 400 of
`MAX_SCAN_FUNCTIONS`), and the page and scan ceilings are not zero
(`SweepsAssumption`); the slots of bookmarks are counted (`DatabaseAssumption`);
a move writes to its first operand only, as IDA's `CF_CHG1` says of the mnemonics
of `_MOVE` (`instruction_decode_adapter.py:212`), the register of a call's result
passes no argument, and what is absent is neither a name in the tables of
`taint.py` nor a place (`FlowAssumption`).  TLC evaluates each of them on the
instances of the runs.

Only model-checked: liveness (`OpenReturns`, `UnreachableDies`, `MergeEnds`,
`EveryCallEnds`, `OrphanExits`), because fairness and `ENABLED` are beyond the
prover; and the other properties of `services`, which compare functions with
their definitions on samples: those of signatures reach the `RECURSIVE` operators of
`Schema`, and those of decoding and reading are about folds over strings and
listings.  Of
`MergePlansAreSound` the part about plans is `PlansAreSound` of `IdbMergeProofs`;
what the wire keeps of a record is only checked.

## Not modelled

* IDA and its SDK; what an adapter does is modelled by the calls it makes, as
  the other code relies on it.  The adapters that only translate a list of the
  SDK into entities (types, xrefs, globals, basic blocks, decompiler) have no
  control of their own.
* The projection of results to wire shapes in the catalog, the DTOs and the
  entities, which hold values, and the container, which builds objects.
* The crypto signatures, a table of constants that IDA's search is given; how
  `find_crypto` walks over it is in `Sweeps`.
* Which of the files beside a binary a pool copies, and the fallback when the
  copy of its database fails (`scratch_copy.py:164`).
* The queue of IDA's interface thread (`execute_sync`): the worker's pump stands
  for it.
* The installer, which merges an entry into configuration files.

## The plan

1. *(done)* `WorkerPool`, `Reconciliation`, `IdbMerge` with their proofs.
2. *(done)* `RemoteCall`, `WorkerClient` with the worker's lifecycle gate, and
   the refinement proof.
3. *(done)* `OverflowRouting`: forwarding, owners, stores.
4. *(done)* `WorkerProcess`: the pump, the watchdog, shutdown with calls in
   flight, and cancellation.
5. *(done)* `Discovery` and `Supervisors`: records and directories left by
   crashes, two supervisors.
6. *(done)* `Protocol`: the transports' sessions, batches and errors.
7. *(done)* The services, the changes to a database and what is announced of the
   tools, in one run; `CallGraph` proved.
8. *(done)* Proofs: the three promises of a merge, the server's answers and
   sessions, references to truncated results, cancellation, the registry of
   windows, the sweep of scratch directories, and the layers of a call graph.
9. *(done)* Proofs: prefix and completeness of `Sweeps`, which found that the
   property was wrong for a query over several sources of which one is larger
   than its reach, and the bounds too small to show it; both are mended.  The
   string cache and the tables of `Database`.
10. *(done)* Proofs about the plan of a merge: first and last mirror each other,
   and a plan that has been applied changes nothing.
11. *(done)* `SessionPool`, the abstract pool that `WorkerPool` implements, with
   the refinement proof.
12. *(done)* Proofs about `DataFlow`: what its tracers say of each other, for
   every program.
