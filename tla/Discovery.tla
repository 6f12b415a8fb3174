----------------------------- MODULE Discovery -----------------------------
(* The registry of running IDA windows: infrastructure/discovery/          *)
(* registry.py and adoption.py, written by the plugin of                   *)
(* bootstrap/plugin_main.py and read by supervisors.                       *)
(*                                                                         *)
(* An instance is one run of IDA with the plugin in it.  A record is a     *)
(* file named after the instance's port; it holds the instance, whose pid  *)
(* is a function of it, and the session id the plugin minted.  A step is   *)
(* one file operation, one probe or one bind.  Records of one pid or port  *)
(* may be left over by an instance that crashed: the system gives both out *)
(* again.                                                                  *)
EXTENDS Integers, FiniteSets

CONSTANTS
    Instances,    \* runs of IDA
    Ports,        \* the numbers _bind scans, upward from the configured one
    Pids,         \* process ids
    Readers,      \* threads of supervisors that read the registry
    MaxMints,     \* session ids an instance mints (a bound on database loads)
    Nothing,      \* no file, no port, no pid
    Junk          \* a file that is not a valid record

Record == [owner : Instances, port : Ports, pid : Pids, id : 1..MaxMints]

ASSUME DiscoveryAssumption ==
    /\ Ports \subseteq Nat
    /\ Nothing \notin Pids \cup Ports \cup {Junk}
    /\ {Nothing, Junk} \cap Record = {}
    /\ MaxMints \in Nat \ {0}

VARIABLES
    stage,    \* how far each instance has got
    port,     \* the port it bound
    pid,      \* its process id
    minted,   \* how many session ids it has minted
    file,     \* the content of instance_<port>.json
    reader,   \* the locals of each read_all
    gone,     \* history: instances that were dead when the read began
    steady,   \* history: instances on record ever since the read began
    missed    \* history: instances a transient fault hid from the read

vars == <<stage, port, pid, minted, file, reader, gone, steady, missed>>

Idle == [at |-> "idle", todo |-> {}, path |-> Nothing, entry |-> Nothing, found |-> {}]

Listening == {i \in Instances : stage[i] \in {"bound", "running", "leaving"}}

TypeOK ==
    /\ stage \in [Instances -> {"off", "bound", "running", "leaving", "silent", "dead"}]
    /\ port \in [Instances -> Ports \cup {Nothing}]
    /\ pid \in [Instances -> Pids \cup {Nothing}]
    /\ minted \in [Instances -> 0..MaxMints]
    /\ file \in [Ports -> Record \cup {Nothing, Junk}]
    /\ \A r \in Readers :
          /\ reader[r].at \in {"idle", "scan", "alive", "probe", "unlink", "done"}
          /\ reader[r].todo \subseteq Ports
          /\ reader[r].path \in Ports \cup {Nothing}
          /\ reader[r].entry \in Record \cup {Nothing, Junk}
          /\ reader[r].found \subseteq Record
          /\ reader[r].at = "probe" => reader[r].entry \in Record
    /\ gone \in [Readers -> SUBSET Instances]
    /\ steady \in [Readers -> SUBSET Instances]
    /\ missed \in [Readers -> SUBSET Instances]
    /\ \A i, j \in Listening : port[i] = port[j] => i = j

(* Files of other versions may be there already.                           *)
Init ==
    /\ stage = [i \in Instances |-> "off"]
    /\ port = [i \in Instances |-> Nothing]
    /\ pid = [i \in Instances |-> Nothing]
    /\ minted = [i \in Instances |-> 0]
    /\ file \in [Ports -> {Nothing, Junk}]
    /\ reader = [r \in Readers |-> Idle]
    /\ gone = [r \in Readers |-> {}]
    /\ steady = [r \in Readers |-> {}]
    /\ missed = [r \in Readers |-> {}]

UsedPids == {pid[i] : i \in {j \in Instances : stage[j] # "dead"}}

ListeningPorts == {port[i] : i \in Listening}

(* The record an instance writes now.                                      *)
Entry(i, n) == [owner |-> i, port |-> port[i], pid |-> pid[i], id |-> n]

OnRecord(i) ==
    /\ stage[i] = "running"
    /\ file[port[i]] \notin {Nothing, Junk}
    /\ file[port[i]].owner = i

(* The history of every read under way.                                    *)
Watch ==
    /\ steady' = [r \in Readers |-> IF reader'[r].at = "done" THEN steady[r]
                                    ELSE {i \in steady[r] : OnRecord(i)'}]
    /\ UNCHANGED gone

-----------------------------------------------------------------------------
(* The plugin.  All of it runs on IDA's UI thread.                         *)

(* transport.serve: the least free port of the range.                      *)
FreePorts == Ports \ ListeningPorts

Bind(i) ==
    /\ stage[i] = "off"
    /\ \E p \in FreePorts, n \in Pids \ UsedPids :
          /\ \A q \in FreePorts : p <= q
          /\ port' = [port EXCEPT ![i] = p]
          /\ pid' = [pid EXCEPT ![i] = n]
    /\ stage' = [stage EXCEPT ![i] = "bound"]
    /\ UNCHANGED <<minted, file, reader, missed>>

(* _register: the session id is minted, the record replaced atomically.    *)
Register(i) ==
    /\ stage[i] = "bound"
    /\ minted' = [minted EXCEPT ![i] = 1]
    /\ file' = [file EXCEPT ![Entry(i, 1).port] = Entry(i, 1)]
    /\ stage' = [stage EXCEPT ![i] = "running"]
    /\ UNCHANGED <<port, pid, reader, missed>>

(* The write failed: start() runs stop() and raises, and IDA goes on       *)
(* without the plugin.                                                     *)
RegisterFails(i) ==
    /\ stage[i] = "bound"
    /\ file' = [file EXCEPT ![port[i]] = Nothing]
    /\ minted' = [minted EXCEPT ![i] = 1]
    /\ stage' = [stage EXCEPT ![i] = "leaving"]
    /\ UNCHANGED <<port, pid, reader, missed>>

(* refresh_identity, when a database was loaded: a new id, which stays     *)
(* even when the rewrite fails.                                            *)
Refresh(i) ==
    /\ stage[i] = "running"
    /\ minted[i] < MaxMints
    /\ minted' = [minted EXCEPT ![i] = @ + 1]
    /\ \/ file' = [file EXCEPT ![Entry(i, minted[i] + 1).port] = Entry(i, minted[i] + 1)]
       \/ UNCHANGED file
    /\ UNCHANGED <<stage, port, pid, reader, missed>>

(* stop: the record goes while the port is still held, ...                 *)
Stop(i) ==
    /\ \/ /\ stage[i] = "running"
          /\ file' = [file EXCEPT ![port[i]] = Nothing]
          /\ stage' = [stage EXCEPT ![i] = "leaving"]
       \* ... and then the port; IDA itself may live on.
       \/ /\ stage[i] = "leaving"
          /\ stage' = [stage EXCEPT ![i] = "silent"]
          /\ UNCHANGED file
    /\ UNCHANGED <<port, pid, minted, reader, missed>>

(* IDA exits or crashes: the system takes back pid and port, the file      *)
(* stays.                                                                  *)
Die(i) ==
    /\ stage[i] \notin {"off", "dead"}
    /\ stage' = [stage EXCEPT ![i] = "dead"]
    /\ UNCHANGED <<port, pid, minted, file, reader, missed>>

-----------------------------------------------------------------------------
(* read_all, with the file handling of _read_valid.                        *)

Begin(r) ==
    /\ reader[r].at = "idle"
    /\ reader' = [reader EXCEPT ![r] =
          [Idle EXCEPT !.at = "scan", !.todo = {p \in Ports : file[p] # Nothing}]]
    /\ missed' = [missed EXCEPT ![r] = {}]
    /\ gone' = [gone EXCEPT ![r] = {i \in Instances : stage[i] = "dead"}]
    /\ steady' = [steady EXCEPT ![r] = {i \in Instances : OnRecord(i)}]
    /\ UNCHANGED <<stage, port, pid, minted, file>>

Lowest(r, p) == p \in reader[r].todo /\ \A q \in reader[r].todo : p <= q

(* The next path.  One that is gone is passed over, and so is one the      *)
(* system refuses to read for a moment; what does not parse is dropped.    *)
Load(r) ==
    /\ reader[r].at = "scan"
    /\ \E p \in Ports :
          /\ Lowest(r, p)
          /\ LET rest == [reader[r] EXCEPT !.todo = @ \ {p}]
                 held == [rest EXCEPT !.path = p, !.entry = file[p]]
             IN \/ /\ reader' = [reader EXCEPT ![r] =
                         CASE file[p] = Nothing -> rest
                           [] file[p] = Junk    -> [held EXCEPT !.at = "unlink"]
                           [] OTHER             -> [held EXCEPT !.at = "alive"]]
                   /\ UNCHANGED missed
                \/ /\ reader' = [reader EXCEPT ![r] = rest]
                   /\ missed' = [missed EXCEPT ![r] =
                         @ \cup {i \in Instances : OnRecord(i) /\ port[i] = p}]
    /\ UNCHANGED <<stage, port, pid, minted, file>>

(* alive_check: some process has this pid, not necessarily the writer.     *)
PidAlive(n) == n \in UsedPids

CheckAlive(r) ==
    /\ reader[r].at = "alive"
    /\ reader' = [reader EXCEPT ![r].at =
                    IF PidAlive(reader[r].entry.pid) THEN "probe" ELSE "unlink"]
    /\ UNCHANGED <<stage, port, pid, minted, file, missed>>

(* Faulty: a scan ends at the first record that fails its probe.           *)
MutProbeEndsScan(r) ==
    /\ reader[r].at = "probe"
    /\ reader' = [reader EXCEPT ![r] =
          [@ EXCEPT !.at = "scan",
             !.todo = IF reader[r].path \in ListeningPorts THEN @ ELSE {},
             !.found = IF reader[r].path \in ListeningPorts
                       THEN @ \cup {reader[r].entry} ELSE @]]
    /\ UNCHANGED <<stage, port, pid, minted, file, missed>>

(* port_check: a connect to the port.  A record that fails it keeps its    *)
(* file; the connect may fail although somebody listens.                   *)
Probe(r) ==
    /\ reader[r].at = "probe"
    /\ LET next == [reader[r] EXCEPT !.at = "scan", !.path = Nothing, !.entry = Nothing]
       IN \/ /\ reader[r].path \in ListeningPorts
             /\ reader' = [reader EXCEPT ![r] =
                              [next EXCEPT !.found = @ \cup {reader[r].entry}]]
             /\ UNCHANGED missed
          \/ /\ reader' = [reader EXCEPT ![r] = next]
             /\ missed' = [missed EXCEPT ![r] = @ \cup {reader[r].entry.owner}]
    /\ UNCHANGED <<stage, port, pid, minted, file>>

(* _silent_unlink: by path, whatever the file holds by now; an error is    *)
(* swallowed.                                                              *)
Unlink(r) ==
    /\ reader[r].at = "unlink"
    /\ \/ file' = [file EXCEPT ![reader[r].path] = Nothing]
       \/ UNCHANGED file
    /\ reader' = [reader EXCEPT ![r] =
          [@ EXCEPT !.at = "scan", !.path = Nothing, !.entry = Nothing]]
    /\ UNCHANGED <<stage, port, pid, minted, missed>>

Return(r) ==
    /\ reader[r].at = "scan"
    /\ reader[r].todo = {}
    /\ reader' = [reader EXCEPT ![r].at = "done"]
    /\ UNCHANGED <<stage, port, pid, minted, file, missed>>

(* The next call.                                                          *)
Again(r) ==
    /\ reader[r].at = "done"
    /\ reader' = [reader EXCEPT ![r] = Idle]
    /\ missed' = [missed EXCEPT ![r] = {}]
    /\ gone' = [gone EXCEPT ![r] = {}]
    /\ steady' = [steady EXCEPT ![r] = {}]
    /\ UNCHANGED <<stage, port, pid, minted, file>>

(* GuiDiscoveryReader.list_sessions: the instances a finished read adopts. *)
Listed(r) == {e.owner : e \in reader[r].found}

-----------------------------------------------------------------------------
PluginStep(i) == Bind(i) \/ Register(i) \/ RegisterFails(i) \/ Refresh(i)
                 \/ Stop(i) \/ Die(i)

ReadStep(r) == Load(r) \/ CheckAlive(r) \/ Probe(r) \/ Unlink(r) \/ Return(r)

Next ==
    \/ (\E i \in Instances : PluginStep(i)) /\ Watch
    \/ (\E r \in Readers : ReadStep(r)) /\ Watch
    \/ \E r \in Readers : Begin(r) \/ Again(r)

Spec == Init /\ [][Next]_vars

-----------------------------------------------------------------------------
(* Properties.                                                             *)

(* read_all misses nobody: an instance that was listening and on record    *)
(* for as long as the read took is in its result, whatever other records   *)
(* were written, dropped or found dead meanwhile, unless the system        *)
(* refused the read of its file or the connect to it.                      *)
ReadIsComplete == \A r \in Readers :
    reader[r].at = "done" => steady[r] \subseteq Listed(r) \cup missed[r]

(* No ghosts: an instance that was dead before the read began is in the    *)
(* result only if another process was given its pid and another one its    *)
(* port.  The token in the record is then refused by whoever answers.      *)
NoGhosts == \A r \in Readers : \A e \in reader[r].found :
    e.owner \in gone[r] => \E j, k \in Instances \ gone[r] :
                               pid[j] = e.pid /\ port[k] = e.port

(* A running instance loses its record in one way only: a reader that      *)
(* judged the file's earlier content, a dead predecessor's or junk,        *)
(* unlinks what the instance wrote since (registry.py:26-28 says that a    *)
(* live instance must not be evicted).                                     *)
EvictedForAReason == \A i \in Instances :
    OnRecord(i) /\ stage'[i] = "running" /\ ~ OnRecord(i)' =>
        \E r \in Readers :
            /\ reader[r].at = "unlink"
            /\ reader[r].path = port[i]
            /\ reader[r].entry # file[port[i]]
=============================================================================
