----------------------------- MODULE HostProofs -----------------------------
(* Theorems about what processes on one host share, for any number of IDA  *)
(* windows, supervisors, readers, ports, pids and session ids.             *)
EXTENDS MCHost, TLAPS

-----------------------------------------------------------------------------
(* The registry.                                                           *)

ReaderState ==
    [at : {"idle", "scan", "alive", "probe", "unlink", "done"}, todo : SUBSET Ports,
     path : Ports \cup {Nothing}, entry : Record \cup {Nothing, Junk}, found : SUBSET Record]

Shapes == TypeOK /\ reader \in [Readers -> ReaderState]

(* An instance has its port and its pid from its bind on, dead or alive.   *)
Given == \A i \in Instances :
    IF stage[i] = "off" THEN port[i] = Nothing /\ pid[i] = Nothing
    ELSE port[i] \in Ports /\ pid[i] \in Pids

(* A record tells the truth about the instance that wrote it.              *)
Written(e) ==
    /\ e \in Record
    /\ stage[e.owner] # "off"
    /\ e.port = port[e.owner]
    /\ e.pid = pid[e.owner]

FilesAreTrue == \A p \in Ports :
    file[p] \notin {Nothing, Junk} => Written(file[p]) /\ file[p].port = p

(* What a reader holds was in the file it names, and is about to be        *)
(* unlinked only if it is junk or its instance has died.                   *)
HeldIsTrue == \A r \in Readers :
    /\ reader[r].at \in {"alive", "probe"} =>
          Written(reader[r].entry) /\ reader[r].path = reader[r].entry.port
    /\ reader[r].at = "unlink" =>
          \/ reader[r].entry = Junk
          \/ Written(reader[r].entry) /\ stage[reader[r].entry.owner] = "dead"

PidGivenAgain(r, e) == e.owner \in gone[r] =>
    \E j \in Instances \ gone[r] : pid[j] = e.pid

PortGivenAgain(r, e) == e.owner \in gone[r] =>
    \E k \in Instances \ gone[r] : port[k] = e.port

(* Who was dead when a read began still is; who passed a check of the read *)
(* has a successor with the same number.                                   *)
NoGhostPasses == \A r \in Readers :
    /\ \A i \in gone[r] : stage[i] = "dead"
    /\ \A e \in reader[r].found :
          Written(e) /\ PidGivenAgain(r, e) /\ PortGivenAgain(r, e)
    /\ reader[r].at = "probe" => PidGivenAgain(r, reader[r].entry)

(* An instance that has been on record since the read began is in the      *)
(* result, or its file is still to be read, or its record is in hand.      *)
NobodyIsPassedOver == \A r \in Readers : \A i \in steady[r] :
    /\ reader[r].at # "idle"
    /\ reader[r].at # "done" => OnRecord(i)
    /\ \/ i \in Listed(r) \cup missed[r]
       \/ reader[r].at # "done" /\ port[i] \in reader[r].todo
       \/ reader[r].at \in {"alive", "probe"} /\ reader[r].entry.owner = i

RegistryInv ==
    /\ Shapes /\ Given /\ FilesAreTrue
    /\ HeldIsTrue /\ NoGhostPasses /\ NobodyIsPassedOver

LEMMA RegistryBegins == Init => RegistryInv
<1> SUFFICES ASSUME Init PROVE RegistryInv
    OBVIOUS
<1> USE DiscoveryAssumption DEF Init, Idle
<1>1. Shapes
    BY DEF Shapes, TypeOK, ReaderState, Listening
<1>2. Given /\ FilesAreTrue /\ HeldIsTrue
    BY DEF Given, FilesAreTrue, HeldIsTrue
<1>3. NoGhostPasses /\ NobodyIsPassedOver
    BY DEF NoGhostPasses, NobodyIsPassedOver
<1> QED BY <1>1, <1>2, <1>3 DEF RegistryInv

(* The kinds of steps.                                                     *)
LEMMA RegistryKinds ==
    ASSUME [Next]_vars
    PROVE  \/ UNCHANGED vars
           \/ \E i \in Instances : PluginStep(i) /\ UNCHANGED <<reader, missed>> /\ Watch
           \/ \E r \in Readers : ReadStep(r) /\ UNCHANGED <<stage, port, pid, minted>> /\ Watch
           \/ \E r \in Readers : (Begin(r) \/ Again(r)) /\ UNCHANGED <<stage, port, pid, minted, file>>
<1>1. ASSUME NEW i \in Instances, PluginStep(i) PROVE UNCHANGED <<reader, missed>>
    BY <1>1 DEF PluginStep, Bind, Register, RegisterFails, Refresh, Stop, Die
<1>2. ASSUME NEW r \in Readers, ReadStep(r) PROVE UNCHANGED <<stage, port, pid, minted>>
    BY <1>2 DEF ReadStep, Load, CheckAlive, Probe, Unlink, Return
<1>3. ASSUME NEW r \in Readers, Begin(r) \/ Again(r)
      PROVE  UNCHANGED <<stage, port, pid, minted, file>>
    BY <1>3 DEF Begin, Again
<1> QED BY <1>1, <1>2, <1>3 DEF Next

(* The dead stay dead, and port and pid are given once.                    *)
LEMMA LivesGoOn ==
    ASSUME Shapes, [Next]_vars, NEW i \in Instances
    PROVE  /\ stage[i] = "dead" => stage'[i] = "dead"
           /\ stage[i] # "off" => stage'[i] # "off" /\ port'[i] = port[i] /\ pid'[i] = pid[i]
           /\ stage'[i] # "dead" => stage[i] # "dead"
<1>1. ASSUME NEW j \in Instances, PluginStep(j)
      PROVE  /\ stage[i] = "dead" => stage'[i] = "dead"
             /\ stage[i] # "off" => stage'[i] # "off" /\ port'[i] = port[i] /\ pid'[i] = pid[i]
    <2> stage \in [Instances -> {"off", "bound", "running", "leaving", "silent", "dead"}]
        /\ port \in [Instances -> Ports \cup {Nothing}] /\ pid \in [Instances -> Pids \cup {Nothing}]
        BY DEF Shapes, TypeOK
    <2> QED BY <1>1 DEF PluginStep, Bind, Register, RegisterFails, Refresh, Stop, Die
<1> QED BY <1>1, RegistryKinds DEF vars

LEMMA WrittenStays ==
    ASSUME Shapes, [Next]_vars, NEW e, Written(e)
    PROVE  Written(e)'
BY LivesGoOn DEF Written, Record

LEMMA GivenStays ==
    ASSUME Shapes, Given, [Next]_vars
    PROVE  Given'
<1> SUFFICES ASSUME NEW i \in Instances
             PROVE  IF stage'[i] = "off" THEN port'[i] = Nothing /\ pid'[i] = Nothing
                    ELSE port'[i] \in Ports /\ pid'[i] \in Pids
    BY DEF Given
<1>1. CASE stage[i] # "off"
    BY <1>1, LivesGoOn DEF Given
<1>2. CASE UNCHANGED <<stage, port, pid>>
    BY <1>2 DEF Given
<1>3. ASSUME NEW j \in Instances, PluginStep(j), stage[i] = "off"
      PROVE  \/ stage'[i] = "off" /\ port'[i] = port[i] /\ pid'[i] = pid[i]
             \/ stage'[i] = "bound" /\ port'[i] \in Ports /\ pid'[i] \in Pids
    <2> stage \in [Instances -> {"off", "bound", "running", "leaving", "silent", "dead"}]
        /\ port \in [Instances -> Ports \cup {Nothing}] /\ pid \in [Instances -> Pids \cup {Nothing}]
        BY DEF Shapes, TypeOK
    <2> QED BY <1>3 DEF PluginStep, Bind, Register, RegisterFails, Refresh, Stop, Die, FreePorts
<1> QED BY <1>1, <1>2, <1>3, RegistryKinds DEF Given, vars

(* What a step leaves in a file is what was there, nothing, or a record    *)
(* that a listening instance writes for its own port.                      *)
LEMMA FileSteps ==
    ASSUME RegistryInv, [Next]_vars, NEW p \in Ports
    PROVE  \/ file'[p] = file[p]
           \/ /\ file'[p] = Nothing
              /\ \/ \E j \in Listening : port[j] = p /\ stage'[j] = "leaving"
                 \/ \E r \in Readers : reader[r].at = "unlink" /\ reader[r].path = p
           \/ \E j \in Listening, n \in 1 .. MaxMints :
                 port[j] = p /\ file'[p] = Entry(j, n) /\ stage[j] # "leaving" /\ stage'[j] = "running"
<1> stage \in [Instances -> {"off", "bound", "running", "leaving", "silent", "dead"}]
    /\ file \in [Ports -> Record \cup {Nothing, Junk}] /\ minted \in [Instances -> 0 .. MaxMints]
    BY DEF RegistryInv, Shapes, TypeOK
<1>1. ASSUME NEW j \in Instances, Register(j), file'[p] # file[p]
      PROVE  port[j] = p /\ file'[p] = Entry(j, 1) /\ stage[j] = "bound" /\ stage'[j] = "running"
    BY <1>1 DEF Register, Entry
<1>2. ASSUME NEW j \in Instances, Refresh(j), file'[p] # file[p]
      PROVE  /\ port[j] = p /\ file'[p] = Entry(j, minted[j] + 1)
             /\ stage[j] = "running" /\ stage'[j] = "running" /\ minted[j] + 1 \in 1 .. MaxMints
    BY <1>2, DiscoveryAssumption DEF Refresh, Entry
<1>3. ASSUME NEW j \in Instances, RegisterFails(j) \/ Stop(j), file'[p] # file[p]
      PROVE  port[j] = p /\ file'[p] = Nothing /\ stage[j] \in {"bound", "running"} /\ stage'[j] = "leaving"
    BY <1>3 DEF RegisterFails, Stop
<1>4. ASSUME NEW j \in Instances, Bind(j) \/ Die(j) PROVE file' = file
    BY <1>4 DEF Bind, Die
<1>5. ASSUME NEW r \in Readers, ReadStep(r), file'[p] # file[p]
      PROVE  reader[r].at = "unlink" /\ reader[r].path = p /\ file'[p] = Nothing
    BY <1>5 DEF ReadStep, Load, CheckAlive, Probe, Unlink, Return
<1>6. 1 \in 1 .. MaxMints
    BY DiscoveryAssumption
<1> QED
    BY <1>1, <1>2, <1>3, <1>4, <1>5, <1>6, RegistryKinds DEF PluginStep, Listening, vars

LEMMA FilesStay ==
    ASSUME RegistryInv, [Next]_vars
    PROVE  FilesAreTrue'
<1> SUFFICES ASSUME NEW p \in Ports, file'[p] \notin {Nothing, Junk}
             PROVE  Written(file[p])' /\ file'[p].port = p
    BY DEF FilesAreTrue
<1> USE DEF RegistryInv
<1>1. CASE file'[p] = file[p]
    <2>1. Written(file[p]) /\ file[p].port = p
        BY <1>1 DEF FilesAreTrue
    <2>2. PICK e : e = file[p]
        OBVIOUS
    <2>3. Written(e)'
        BY <2>1, <2>2, WrittenStays
    <2> QED BY <1>1, <2>1, <2>2, <2>3 DEF Written
<1>2. ASSUME NEW j \in Listening, NEW n \in 1 .. MaxMints, port[j] = p, file'[p] = Entry(j, n)
      PROVE  Written(file[p])' /\ file'[p].port = p
    <2>1. j \in Instances /\ stage[j] # "off" /\ pid[j] \in Pids /\ port[j] \in Ports
        BY DEF Listening, Given
    <2>2. stage'[j] # "off" /\ port'[j] = port[j] /\ pid'[j] = pid[j]
        BY <2>1, LivesGoOn
    <2> QED BY <1>2, <2>1, <2>2 DEF Written, Entry, Record
<1> QED BY <1>1, <1>2, FileSteps

(* Each step of a reader, field by field.                                  *)
LEMMA LoadMoves ==
    ASSUME Shapes, NEW r \in Readers, Load(r)
    PROVE  \E p \in Ports, v \in ReaderState :
              /\ reader[r].at = "scan" /\ p \in reader[r].todo
              /\ reader' = [reader EXCEPT ![r] = v]
              /\ v.todo = reader[r].todo \ {p} /\ v.found = reader[r].found
              /\ \/ /\ v.at = "scan" /\ v.path = reader[r].path /\ v.entry = reader[r].entry
                    /\ \/ file[p] = Nothing /\ missed' = missed
                       \/ missed' = [missed EXCEPT ![r] =
                             @ \cup {i \in Instances : OnRecord(i) /\ port[i] = p}]
                 \/ /\ v.path = p /\ v.entry = file[p] /\ file[p] # Nothing /\ missed' = missed
                    /\ v.at = IF file[p] = Junk THEN "unlink" ELSE "alive"
<1>s. reader[r] \in ReaderState /\ file \in [Ports -> Record \cup {Nothing, Junk}]
    BY DEF Shapes, TypeOK
<1>1. PICK p \in Ports :
        /\ Lowest(r, p)
        /\ LET rest == [reader[r] EXCEPT !.todo = @ \ {p}]
               inHand == [rest EXCEPT !.path = p, !.entry = file[p]]
           IN \/ /\ reader' = [reader EXCEPT ![r] =
                       CASE file[p] = Nothing -> rest
                         [] file[p] = Junk    -> [inHand EXCEPT !.at = "unlink"]
                         [] OTHER             -> [inHand EXCEPT !.at = "alive"]]
                 /\ UNCHANGED missed
              \/ /\ reader' = [reader EXCEPT ![r] = rest]
                 /\ missed' = [missed EXCEPT ![r] =
                       @ \cup {i \in Instances : OnRecord(i) /\ port[i] = p}]
    BY DEF Load
<1> DEFINE rest == [reader[r] EXCEPT !.todo = @ \ {p}]
           inHand(at) == [[rest EXCEPT !.path = p, !.entry = file[p]] EXCEPT !.at = at]
<1>2. /\ rest \in ReaderState /\ rest.todo = reader[r].todo \ {p} /\ rest.found = reader[r].found
      /\ rest.at = reader[r].at /\ rest.path = reader[r].path /\ rest.entry = reader[r].entry
    BY <1>s DEF ReaderState
<1>3. ASSUME NEW at \in {"unlink", "alive"}
      PROVE  /\ inHand(at) \in ReaderState /\ inHand(at).todo = rest.todo
             /\ inHand(at).found = rest.found /\ inHand(at).at = at
             /\ inHand(at).path = p /\ inHand(at).entry = file[p]
    <2> HIDE DEF rest
    <2> QED BY <1>s, <1>2, <1>3 DEF ReaderState
<1>4. reader[r].at = "scan" /\ p \in reader[r].todo
    BY <1>1 DEF Load, Lowest
<1>5. \/ /\ reader' = [reader EXCEPT ![r] = rest]
         /\ \/ file[p] = Nothing /\ missed' = missed
            \/ missed' = [missed EXCEPT ![r] =
                  @ \cup {i \in Instances : OnRecord(i) /\ port[i] = p}]
      \/ /\ file[p] # Nothing /\ missed' = missed
         /\ \/ file[p] = Junk /\ reader' = [reader EXCEPT ![r] = inHand("unlink")]
            \/ file[p] # Junk /\ reader' = [reader EXCEPT ![r] = inHand("alive")]
    <2> Nothing # Junk
        BY DiscoveryAssumption
    <2>1. CASE file[p] = Nothing
        BY <1>1, <2>1
    <2>2. CASE file[p] = Junk
        BY <1>1, <2>2
    <2>3. CASE file[p] # Nothing /\ file[p] # Junk
        BY <1>1, <2>3
    <2> QED BY <2>1, <2>2, <2>3
<1> HIDE DEF rest, inHand
<1> QED BY <1>2, <1>3, <1>4, <1>5

LEMMA CheckMoves ==
    ASSUME Shapes, NEW r \in Readers, CheckAlive(r)
    PROVE  \E v \in ReaderState :
              /\ reader[r].at = "alive"
              /\ reader' = [reader EXCEPT ![r] = v] /\ missed' = missed
              /\ v.todo = reader[r].todo /\ v.found = reader[r].found
              /\ v.path = reader[r].path /\ v.entry = reader[r].entry
              /\ v.at = IF PidAlive(reader[r].entry.pid) THEN "probe" ELSE "unlink"
<1>s. reader \in [Readers -> ReaderState]
    BY DEF Shapes
<1> DEFINE v == [reader[r] EXCEPT !.at = IF PidAlive(reader[r].entry.pid) THEN "probe" ELSE "unlink"]
<1>1. /\ v \in ReaderState /\ v.todo = reader[r].todo /\ v.found = reader[r].found
      /\ v.path = reader[r].path /\ v.entry = reader[r].entry
      /\ v.at = IF PidAlive(reader[r].entry.pid) THEN "probe" ELSE "unlink"
    BY <1>s DEF ReaderState
<1>2. reader[r].at = "alive" /\ reader' = [reader EXCEPT ![r] = v] /\ missed' = missed
    BY DEF CheckAlive
<1> HIDE DEF v
<1> QED BY <1>1, <1>2

LEMMA ProbeMoves ==
    ASSUME Shapes, NEW r \in Readers, Probe(r)
    PROVE  \E v \in ReaderState :
              /\ reader[r].at = "probe"
              /\ reader' = [reader EXCEPT ![r] = v]
              /\ v.at = "scan" /\ v.todo = reader[r].todo
              /\ \/ /\ v.found = reader[r].found \cup {reader[r].entry} /\ missed' = missed
                    /\ reader[r].path \in ListeningPorts
                 \/ /\ v.found = reader[r].found
                    /\ missed' = [missed EXCEPT ![r] = @ \cup {reader[r].entry.owner}]
<1>s. /\ reader[r] \in ReaderState
      /\ reader[r].at = "probe" /\ reader[r].entry \in Record
    BY DEF Shapes, TypeOK, Probe
<1> DEFINE next == [reader[r] EXCEPT !.at = "scan", !.path = Nothing, !.entry = Nothing]
           more == [next EXCEPT !.found = @ \cup {reader[r].entry}]
<1>1. /\ next \in ReaderState /\ next.at = "scan" /\ next.todo = reader[r].todo
      /\ next.found = reader[r].found
    BY <1>s DEF ReaderState
<1>2. /\ more \in ReaderState /\ more.at = "scan" /\ more.todo = reader[r].todo
      /\ more.found = reader[r].found \cup {reader[r].entry}
    <2> HIDE DEF next
    <2> QED BY <1>s, <1>1 DEF ReaderState
<1>3. \/ /\ reader' = [reader EXCEPT ![r] = more] /\ missed' = missed
         /\ reader[r].path \in ListeningPorts
      \/ /\ reader' = [reader EXCEPT ![r] = next]
         /\ missed' = [missed EXCEPT ![r] = @ \cup {reader[r].entry.owner}]
    BY DEF Probe
<1> HIDE DEF next, more
<1> QED BY <1>s, <1>1, <1>2, <1>3

LEMMA OtherMoves ==
    ASSUME Shapes, NEW r \in Readers, Unlink(r) \/ Return(r)
    PROVE  \E v \in ReaderState :
              /\ reader' = [reader EXCEPT ![r] = v] /\ missed' = missed
              /\ v.todo = reader[r].todo /\ v.found = reader[r].found
              /\ \/ reader[r].at = "unlink" /\ v.at = "scan"
                 \/ reader[r].at = "scan" /\ v.at = "done" /\ v.todo = {}
<1>s. reader[r] \in ReaderState
    BY DEF Shapes
<1>1. CASE Unlink(r)
    <2> DEFINE v == [reader[r] EXCEPT !.at = "scan", !.path = Nothing, !.entry = Nothing]
    <2>1. /\ v \in ReaderState /\ v.at = "scan" /\ v.todo = reader[r].todo
          /\ v.found = reader[r].found
        BY <1>s DEF ReaderState
    <2>2. reader' = [reader EXCEPT ![r] = v] /\ missed' = missed /\ reader[r].at = "unlink"
        BY <1>1 DEF Unlink
    <2> HIDE DEF v
    <2> QED BY <2>1, <2>2
<1>2. CASE Return(r)
    <2> DEFINE v == [reader[r] EXCEPT !.at = "done"]
    <2>1. /\ v \in ReaderState /\ v.at = "done" /\ v.todo = reader[r].todo
          /\ v.found = reader[r].found
        BY <1>s DEF ReaderState
    <2>2. /\ reader' = [reader EXCEPT ![r] = v] /\ missed' = missed
          /\ reader[r].at = "scan" /\ reader[r].todo = {}
        BY <1>2 DEF Return
    <2> HIDE DEF v
    <2> QED BY <2>1, <2>2
<1> QED BY <1>1, <1>2

LEMMA CallMoves ==
    ASSUME Shapes, NEW r \in Readers, Begin(r) \/ Again(r)
    PROVE  \E v \in ReaderState :
              /\ reader' = [reader EXCEPT ![r] = v] /\ v.found = {}
              /\ missed' = [missed EXCEPT ![r] = {}]
              /\ \/ /\ v.at = "scan" /\ v.todo = {p \in Ports : file[p] # Nothing}
                    /\ gone' = [gone EXCEPT ![r] = {i \in Instances : stage[i] = "dead"}]
                    /\ steady' = [steady EXCEPT ![r] = {i \in Instances : OnRecord(i)}]
                 \/ /\ v.at = "idle" /\ gone' = [gone EXCEPT ![r] = {}]
                    /\ steady' = [steady EXCEPT ![r] = {}]
<1>1. CASE Begin(r)
    <2> DEFINE v == [Idle EXCEPT !.at = "scan", !.todo = {p \in Ports : file[p] # Nothing}]
    <2>1. /\ v \in ReaderState /\ v.at = "scan" /\ v.todo = {p \in Ports : file[p] # Nothing}
          /\ v.found = {}
        BY DEF ReaderState, Idle
    <2>2. /\ reader' = [reader EXCEPT ![r] = v] /\ missed' = [missed EXCEPT ![r] = {}]
          /\ gone' = [gone EXCEPT ![r] = {i \in Instances : stage[i] = "dead"}]
          /\ steady' = [steady EXCEPT ![r] = {i \in Instances : OnRecord(i)}]
        BY <1>1 DEF Begin
    <2> HIDE DEF v
    <2> QED BY <2>1, <2>2
<1>2. CASE Again(r)
    <2>1. Idle \in ReaderState /\ Idle.at = "idle" /\ Idle.found = {}
        BY DEF ReaderState, Idle
    <2>2. /\ reader' = [reader EXCEPT ![r] = Idle] /\ missed' = [missed EXCEPT ![r] = {}]
          /\ gone' = [gone EXCEPT ![r] = {}] /\ steady' = [steady EXCEPT ![r] = {}]
        BY <1>2 DEF Again
    <2> QED BY <2>1, <2>2
<1> QED BY <1>1, <1>2

LEMMA ReadersStay ==
    ASSUME Shapes, [Next]_vars
    PROVE  reader' \in [Readers -> ReaderState]
<1>1. ASSUME NEW r \in Readers, ReadStep(r) \/ Begin(r) \/ Again(r)
      PROVE  \E v \in ReaderState : reader' = [reader EXCEPT ![r] = v]
    BY <1>1, LoadMoves, CheckMoves, ProbeMoves, OtherMoves, CallMoves DEF ReadStep
<1> QED BY <1>1, RegistryKinds DEF Shapes, vars

LEMMA HistoryStays ==
    ASSUME Shapes, [Next]_vars
    PROVE  /\ gone' \in [Readers -> SUBSET Instances]
           /\ steady' \in [Readers -> SUBSET Instances]
           /\ missed' \in [Readers -> SUBSET Instances]
<1>s. /\ gone \in [Readers -> SUBSET Instances]
      /\ steady \in [Readers -> SUBSET Instances]
      /\ missed \in [Readers -> SUBSET Instances]
      /\ \A r \in Readers : reader[r].at = "probe" => reader[r].entry \in Record
    BY DEF Shapes, TypeOK
<1>1. CASE Watch /\ UNCHANGED missed
    BY <1>s, <1>1 DEF Watch
<1>2. ASSUME NEW r \in Readers, Begin(r) \/ Again(r)
      PROVE  /\ gone' \in [Readers -> SUBSET Instances]
             /\ steady' \in [Readers -> SUBSET Instances]
             /\ missed' \in [Readers -> SUBSET Instances]
    BY <1>s, <1>2 DEF Begin, Again
<1>3. ASSUME NEW r \in Readers, ReadStep(r), Watch
      PROVE  /\ gone' \in [Readers -> SUBSET Instances]
             /\ steady' \in [Readers -> SUBSET Instances]
             /\ missed' \in [Readers -> SUBSET Instances]
    <2>1. CASE Load(r)
        BY <1>s, <1>3, <2>1, LoadMoves DEF Watch
    <2>2. CASE Probe(r)
        <3>1. reader[r].entry.owner \in Instances
            BY <1>s, <2>2 DEF Probe, Record
        <3> QED BY <1>s, <1>3, <2>2, <3>1, ProbeMoves DEF Watch
    <2>3. CASE CheckAlive(r) \/ Unlink(r) \/ Return(r)
        BY <1>1, <1>3, <2>3 DEF CheckAlive, Unlink, Return
    <2> QED BY <1>3, <2>1, <2>2, <2>3 DEF ReadStep
<1> QED BY <1>s, <1>1, <1>2, <1>3, RegistryKinds DEF vars

LEMMA PortsStayTheirOwn ==
    ASSUME Shapes, Given, [Next]_vars,
           NEW i \in Listening', NEW j \in Listening', port'[i] = port'[j]
    PROVE  i = j
<1>s. /\ stage \in [Instances -> {"off", "bound", "running", "leaving", "silent", "dead"}]
      /\ port \in [Instances -> Ports \cup {Nothing}]
      /\ \A a, b \in Listening : port[a] = port[b] => a = b
    BY DEF Shapes, TypeOK
<1>1. ASSUME NEW k \in Listening'
      PROVE  \/ k \in Listening /\ port'[k] = port[k]
             \/ k \in Instances /\ Bind(k)
    BY <1>s, <1>1, RegistryKinds DEF Listening, PluginStep, Bind, Register, RegisterFails,
        Refresh, Stop, Die, vars
<1>2. ASSUME NEW k \in Instances, Bind(k), NEW o \in Instances, Bind(o) PROVE k = o
    BY <1>s, <1>2 DEF Bind
<1>3. ASSUME NEW k \in Instances, Bind(k), NEW o \in Listening
      PROVE  port'[k] # port[o]
    BY <1>s, <1>3 DEF Bind, FreePorts, ListeningPorts
<1> QED BY <1>s, <1>1, <1>2, <1>3

(* A step of one reader leaves the others alone.                           *)
LEMMA OneReader ==
    ASSUME Shapes, NEW r \in Readers, NEW q \in Readers, q # r,
           ReadStep(r) \/ Begin(r) \/ Again(r)
    PROVE  reader'[q] = reader[q] /\ missed'[q] = missed[q]
BY DEF Shapes, TypeOK, ReadStep, Begin, Again, Load, CheckAlive, Probe, Unlink, Return

(* What a reader holds after a step is what it held, or what it loaded.    *)
LEMMA HeldSteps ==
    ASSUME Shapes, [Next]_vars, NEW r \in Readers,
           reader'[r].at \in {"alive", "probe", "unlink"}
    PROVE  \/ reader'[r] = reader[r]
           \/ /\ Load(r) /\ reader'[r].path \in Ports
              /\ reader'[r].entry = file[reader'[r].path] /\ file[reader'[r].path] # Nothing
              /\ reader'[r].at = IF file[reader'[r].path] = Junk THEN "unlink" ELSE "alive"
           \/ /\ CheckAlive(r) /\ reader[r].at = "alive"
              /\ reader'[r].path = reader[r].path /\ reader'[r].entry = reader[r].entry
              /\ reader'[r].at = IF PidAlive(reader[r].entry.pid) THEN "probe" ELSE "unlink"
<1>s. reader \in [Readers -> ReaderState]
    BY DEF Shapes
<1>1. CASE Load(r)
    BY <1>s, <1>1, LoadMoves
<1>2. CASE CheckAlive(r)
    BY <1>s, <1>2, CheckMoves
<1>3. CASE Begin(r) \/ Again(r) \/ Probe(r) \/ Unlink(r) \/ Return(r)
    BY <1>s, <1>3, ProbeMoves, OtherMoves, CallMoves
<1> QED BY <1>1, <1>2, <1>3, RegistryKinds, OneReader DEF ReadStep, vars

LEMMA ShapesStay ==
    ASSUME RegistryInv, [Next]_vars
    PROVE  Shapes'
<1> USE DEF RegistryInv
<1>s. /\ stage \in [Instances -> {"off", "bound", "running", "leaving", "silent", "dead"}]
      /\ port \in [Instances -> Ports \cup {Nothing}]
      /\ pid \in [Instances -> Pids \cup {Nothing}]
      /\ minted \in [Instances -> 0 .. MaxMints]
      /\ file \in [Ports -> Record \cup {Nothing, Junk}]
    BY DEF Shapes, TypeOK
<1>1. /\ stage' \in [Instances -> {"off", "bound", "running", "leaving", "silent", "dead"}]
      /\ port' \in [Instances -> Ports \cup {Nothing}]
      /\ pid' \in [Instances -> Pids \cup {Nothing}]
    <2>1. ASSUME NEW i \in Instances, PluginStep(i)
          PROVE  /\ stage' \in [Instances -> {"off", "bound", "running", "leaving", "silent", "dead"}]
                 /\ port' \in [Instances -> Ports \cup {Nothing}]
                 /\ pid' \in [Instances -> Pids \cup {Nothing}]
        BY <1>s, <2>1 DEF PluginStep, Bind, Register, RegisterFails, Refresh, Stop, Die, FreePorts
    <2> QED BY <1>s, <2>1, RegistryKinds DEF vars
<1>2. minted' \in [Instances -> 0 .. MaxMints]
    <2>1. ASSUME NEW i \in Instances, PluginStep(i) PROVE minted' \in [Instances -> 0 .. MaxMints]
        BY <1>s, <2>1, DiscoveryAssumption DEF PluginStep, Bind, Register, RegisterFails, Refresh, Stop, Die
    <2> QED BY <1>s, <2>1, RegistryKinds DEF vars
<1>3. file' \in [Ports -> Record \cup {Nothing, Junk}]
    <2>1. file' = [p \in Ports |-> file'[p]]
        BY <1>s, RegistryKinds DEF PluginStep, Bind, Register, RegisterFails, Refresh, Stop, Die,
            ReadStep, Load, CheckAlive, Probe, Unlink, Return, vars
    <2>2. ASSUME NEW p \in Ports PROVE file'[p] \in Record \cup {Nothing, Junk}
        <3>1. CASE file'[p] = file[p] \/ file'[p] = Nothing
            BY <1>s, <3>1
        <3>2. ASSUME NEW j \in Listening, NEW n \in 1 .. MaxMints, file'[p] = Entry(j, n)
              PROVE  file'[p] \in Record
            BY <3>2 DEF Listening, Given, Entry, Record
        <3> QED BY <3>1, <3>2, FileSteps
    <2> QED BY <2>1, <2>2
<1>4. \A i, j \in Listening' : port'[i] = port'[j] => i = j
    BY PortsStayTheirOwn
<1>5. reader' \in [Readers -> ReaderState]
    BY ReadersStay
<1>6. ASSUME NEW r \in Readers, reader'[r].at = "probe" PROVE reader'[r].entry \in Record
    BY <1>6, HeldSteps DEF HeldIsTrue, Written
<1>7. \A r \in Readers :
          /\ reader'[r].at \in {"idle", "scan", "alive", "probe", "unlink", "done"}
          /\ reader'[r].todo \subseteq Ports
          /\ reader'[r].path \in Ports \cup {Nothing}
          /\ reader'[r].entry \in Record \cup {Nothing, Junk}
          /\ reader'[r].found \subseteq Record
    BY <1>5 DEF ReaderState
<1> QED BY <1>1, <1>2, <1>3, <1>4, <1>5, <1>6, <1>7, HistoryStays DEF Shapes, TypeOK

LEMMA HeldStays ==
    ASSUME RegistryInv, [Next]_vars
    PROVE  HeldIsTrue'
<1> USE DEF RegistryInv
<1> SUFFICES ASSUME NEW r \in Readers, reader'[r].at \in {"alive", "probe", "unlink"}
             PROVE  /\ reader'[r].at \in {"alive", "probe"} =>
                          /\ Written(reader[r].entry)'
                          /\ reader'[r].path = reader'[r].entry.port
                    /\ reader'[r].at = "unlink" =>
                          \/ reader'[r].entry = Junk
                          \/ /\ Written(reader[r].entry)'
                             /\ stage'[reader'[r].entry.owner] = "dead"
    BY DEF HeldIsTrue
<1>1. PICK e : e = reader'[r].entry
    OBVIOUS
<1>2. Written(e) => Written(e)' /\ e.owner \in Instances
    BY WrittenStays DEF Written, Record
<1>3. Written(e) /\ stage[e.owner] = "dead" => stage'[e.owner] = "dead"
    BY <1>2, LivesGoOn
<1>4. Written(e)' <=> Written(reader[r].entry)'
    BY <1>1 DEF Written
<1>5. CASE reader'[r] = reader[r]
    BY <1>1, <1>2, <1>3, <1>4, <1>5 DEF HeldIsTrue
<1>6. CASE /\ Load(r) /\ reader'[r].path \in Ports
           /\ reader'[r].entry = file[reader'[r].path] /\ file[reader'[r].path] # Nothing
           /\ reader'[r].at = IF file[reader'[r].path] = Junk THEN "unlink" ELSE "alive"
    BY <1>1, <1>2, <1>4, <1>6 DEF FilesAreTrue
<1>7. CASE /\ CheckAlive(r) /\ reader[r].at = "alive"
           /\ reader'[r].path = reader[r].path /\ reader'[r].entry = reader[r].entry
           /\ reader'[r].at = IF PidAlive(reader[r].entry.pid) THEN "probe" ELSE "unlink"
    <2>1. Written(e) /\ reader'[r].path = e.port
        BY <1>1, <1>7 DEF HeldIsTrue
    <2>2. ~ PidAlive(e.pid) => stage[e.owner] = "dead"
        BY <2>1 DEF Written, Record, PidAlive, UsedPids
    <2> QED BY <1>1, <1>2, <1>3, <1>4, <1>7, <2>1, <2>2
<1> QED BY <1>5, <1>6, <1>7, HeldSteps

(* Numbers given to the living when they are checked stay given.           *)
LEMMA GivenAgainStays ==
    ASSUME RegistryInv, [Next]_vars, NEW r \in Readers, gone'[r] = gone[r],
           NEW e \in Record
    PROVE  /\ PidGivenAgain(r, e) => PidGivenAgain(r, e)'
           /\ PortGivenAgain(r, e) => PortGivenAgain(r, e)'
<1> USE DEF RegistryInv
<1>1. ASSUME NEW j \in Instances
      PROVE  /\ pid[j] \in Pids => pid'[j] = pid[j]
             /\ port[j] \in Ports => port'[j] = port[j]
    <2>1. pid[j] \in Pids \/ port[j] \in Ports => stage[j] # "off"
        BY DiscoveryAssumption DEF Given
    <2> QED BY <2>1, LivesGoOn
<1>2. e.pid \in Pids /\ e.port \in Ports
    BY DEF Record
<1>3. PidGivenAgain(r, e) => PidGivenAgain(r, e)'
    BY <1>1, <1>2 DEF PidGivenAgain
<1>4. PortGivenAgain(r, e) => PortGivenAgain(r, e)'
    BY <1>1, <1>2 DEF PortGivenAgain
<1> QED BY <1>3, <1>4

LEMMA NoGhostStep ==
    ASSUME RegistryInv, [Next]_vars
    PROVE  NoGhostPasses'
<1> USE DEF RegistryInv
<1> SUFFICES ASSUME NEW r \in Readers
             PROVE  /\ \A i \in gone'[r] : stage'[i] = "dead"
                    /\ \A e \in reader'[r].found :
                          Written(e)' /\ PidGivenAgain(r, e)' /\ PortGivenAgain(r, e)'
                    /\ reader'[r].at = "probe" => PidGivenAgain(r, reader[r].entry)'
    BY DEF NoGhostPasses
<1>s. /\ reader \in [Readers -> ReaderState] /\ gone \in [Readers -> SUBSET Instances]
    BY DEF Shapes, TypeOK
<1>1. CASE Begin(r) \/ Again(r)
    <2>1. PICK v \in ReaderState :
              /\ reader' = [reader EXCEPT ![r] = v] /\ v.found = {} /\ v.at # "probe"
              /\ \/ gone' = [gone EXCEPT ![r] = {i \in Instances : stage[i] = "dead"}]
                 \/ gone' = [gone EXCEPT ![r] = {}]
        BY <1>1, CallMoves
    <2>2. reader'[r].found = {} /\ reader'[r].at # "probe"
        BY <1>s, <2>1
    <2>3. \A i \in gone'[r] : i \in Instances /\ stage[i] = "dead"
        BY <1>s, <2>1
    <2> QED BY <2>2, <2>3, LivesGoOn
<1>2. CASE ~ (Begin(r) \/ Again(r))
    <2>1. gone'[r] = gone[r]
        BY <1>s, <1>2, RegistryKinds DEF Begin, Again, Watch, vars
    <2>2. \A i \in gone'[r] : stage'[i] = "dead"
        BY <1>s, <2>1, LivesGoOn DEF NoGhostPasses
    <2>3. ASSUME NEW e \in reader[r].found
          PROVE  Written(e)' /\ PidGivenAgain(r, e)' /\ PortGivenAgain(r, e)'
        <3>1. Written(e) /\ PidGivenAgain(r, e) /\ PortGivenAgain(r, e)
            BY DEF NoGhostPasses
        <3>2. Written(e)'
            BY <3>1, WrittenStays
        <3>3. e \in Record
            BY <3>1 DEF Written
        <3> QED BY <2>1, <3>1, <3>2, <3>3, GivenAgainStays
    <2>4. ASSUME NEW e \in reader'[r].found, e \notin reader[r].found
          PROVE  Written(e)' /\ PidGivenAgain(r, e)' /\ PortGivenAgain(r, e)'
        <3>1. Probe(r) /\ e = reader[r].entry /\ reader[r].path \in ListeningPorts
            BY <1>s, <1>2, <2>4, RegistryKinds, OneReader, LoadMoves, CheckMoves, ProbeMoves,
                OtherMoves DEF ReadStep, vars
        <3>2. Written(e) /\ e.port \in ListeningPorts /\ PidGivenAgain(r, e)
            BY <3>1 DEF Probe, HeldIsTrue, NoGhostPasses
        <3>3. PortGivenAgain(r, e)
            BY <3>2 DEF PortGivenAgain, ListeningPorts, Listening, NoGhostPasses
        <3>4. Written(e)'
            BY <3>2, WrittenStays
        <3>5. e \in Record
            BY <3>2 DEF Written
        <3> QED BY <2>1, <3>2, <3>3, <3>4, <3>5, GivenAgainStays
    <2>5. ASSUME reader'[r].at = "probe" PROVE PidGivenAgain(r, reader[r].entry)'
        <3>1. PICK e : e = reader[r].entry
            OBVIOUS
        <3>2. reader'[r].entry = e /\ Written(e) /\ PidGivenAgain(r, e)
            <4>1. CASE reader'[r] = reader[r]
                BY <2>5, <3>1, <4>1 DEF HeldIsTrue, NoGhostPasses
            <4>2. CASE /\ CheckAlive(r) /\ reader[r].at = "alive"
                       /\ reader'[r].entry = reader[r].entry /\ PidAlive(reader[r].entry.pid)
                BY <3>1, <4>2 DEF HeldIsTrue, NoGhostPasses, PidGivenAgain, PidAlive, UsedPids
            <4> QED BY <2>5, <4>1, <4>2, HeldSteps
        <3>3. e \in Record
            BY <3>2 DEF Written
        <3>4. PidGivenAgain(r, e)'
            BY <2>1, <3>2, <3>3, GivenAgainStays
        <3> QED BY <3>2, <3>4 DEF PidGivenAgain
    <2> QED BY <2>2, <2>3, <2>4, <2>5
<1> QED BY <1>1, <1>2

-----------------------------------------------------------------------------
(* Whom a step leaves in the history of a read.                            *)
LEMMA SteadySteps ==
    ASSUME RegistryInv, [Next]_vars, NEW r \in Readers, ~ (Begin(r) \/ Again(r)),
           NEW i \in steady'[r]
    PROVE  i \in steady[r] /\ (reader'[r].at # "done" => OnRecord(i)')
<1>s. steady \in [Readers -> SUBSET Instances]
    BY DEF RegistryInv, Shapes, TypeOK
<1>1. CASE Watch
    <2>1. steady'[r] = IF reader'[r].at = "done" THEN steady[r]
                       ELSE {k \in steady[r] : OnRecord(k)'}
        BY <1>1 DEF Watch
    <2> QED BY <2>1
<1>2. CASE UNCHANGED vars
    BY <1>2 DEF vars, OnRecord, RegistryInv, NobodyIsPassedOver
<1>3. CASE \E q \in Readers : (Begin(q) \/ Again(q)) /\ UNCHANGED <<stage, port, pid, minted, file>>
    <2>1. PICK q \in Readers : Begin(q) \/ Again(q)
        BY <1>3
    <2>2. steady'[r] = steady[r] /\ reader'[r] = reader[r]
        BY <1>s, <2>1, OneReader, CallMoves DEF RegistryInv
    <2> QED BY <1>3, <2>2 DEF OnRecord, RegistryInv, NobodyIsPassedOver
<1> QED BY <1>1, <1>2, <1>3, RegistryKinds

LEMMA NobodyIsPassedOverStays ==
    ASSUME RegistryInv, [Next]_vars
    PROVE  NobodyIsPassedOver'
<1> USE DEF RegistryInv
<1> SUFFICES ASSUME NEW r \in Readers, NEW i \in steady'[r]
             PROVE  /\ reader'[r].at # "idle"
                    /\ reader'[r].at # "done" => OnRecord(i)'
                    /\ \/ i \in Listed(r)' \cup missed'[r]
                       \/ reader'[r].at # "done" /\ port'[i] \in reader'[r].todo
                       \/ reader'[r].at \in {"alive", "probe"} /\ reader'[r].entry.owner = i
    BY DEF NobodyIsPassedOver
<1>s. /\ reader \in [Readers -> ReaderState]
      /\ file \in [Ports -> Record \cup {Nothing, Junk}]
      /\ gone \in [Readers -> SUBSET Instances]
      /\ steady \in [Readers -> SUBSET Instances]
      /\ missed \in [Readers -> SUBSET Instances]
      /\ steady' \in [Readers -> SUBSET Instances]
    BY HistoryStays DEF Shapes, TypeOK
<1>i. i \in Instances
    BY <1>s
<1>1. CASE Begin(r) \/ Again(r)
    <2>1. PICK v \in ReaderState :
              /\ reader' = [reader EXCEPT ![r] = v]
              /\ \/ /\ v.at = "scan" /\ v.todo = {p \in Ports : file[p] # Nothing}
                    /\ steady' = [steady EXCEPT ![r] = {k \in Instances : OnRecord(k)}]
                 \/ steady' = [steady EXCEPT ![r] = {}]
        BY <1>1, CallMoves
    <2>2. /\ reader'[r].at = "scan" /\ reader'[r].todo = {p \in Ports : file[p] # Nothing}
          /\ OnRecord(i)
        BY <1>s, <2>1
    <2>3. UNCHANGED <<stage, port, file>>
        BY <1>1 DEF Begin, Again
    <2>4. port[i] \in Ports /\ file[port[i]] # Nothing
        BY <1>i, <2>2 DEF OnRecord, Given
    <2>5. OnRecord(i)'
        BY <2>2, <2>3 DEF OnRecord
    <2> QED BY <2>2, <2>3, <2>4, <2>5
<1>2. CASE ~ (Begin(r) \/ Again(r))
    <2>1. i \in steady[r] /\ (reader'[r].at # "done" => OnRecord(i)')
        BY <1>2, SteadySteps
    <2>2. /\ reader[r].at # "idle"
          /\ reader[r].at # "done" => OnRecord(i)
          /\ \/ i \in Listed(r) \cup missed[r]
             \/ reader[r].at # "done" /\ port[i] \in reader[r].todo
             \/ reader[r].at \in {"alive", "probe"} /\ reader[r].entry.owner = i
        BY <2>1 DEF NobodyIsPassedOver
    <2>3. reader[r].at # "done" =>
              /\ port'[i] = port[i] /\ port[i] \in Ports /\ stage[i] = "running"
              /\ file[port[i]] \notin {Nothing, Junk} /\ file[port[i]].owner = i
        <3>1. OnRecord(i) => stage[i] # "off"
            BY DEF OnRecord
        <3> QED BY <1>i, <2>2, <3>1, LivesGoOn DEF OnRecord, Given
    <2>4. CASE reader'[r] = reader[r] /\ missed'[r] = missed[r]
        BY <2>1, <2>2, <2>3, <2>4 DEF Listed
    <2>5. CASE Load(r)
        <3>1. PICK p \in Ports, v \in ReaderState :
                  /\ reader[r].at = "scan" /\ reader' = [reader EXCEPT ![r] = v]
                  /\ v.todo = reader[r].todo \ {p} /\ v.found = reader[r].found
                  /\ \/ /\ v.at = "scan"
                        /\ \/ file[p] = Nothing /\ missed' = missed
                           \/ missed' = [missed EXCEPT ![r] =
                                 @ \cup {k \in Instances : OnRecord(k) /\ port[k] = p}]
                     \/ /\ v.entry = file[p] /\ missed' = missed
                        /\ v.at = IF file[p] = Junk THEN "unlink" ELSE "alive"
            BY <2>5, LoadMoves
        <3>2. reader'[r] = v /\ Listed(r)' = Listed(r)
            BY <1>s, <3>1 DEF Listed
        <3>3. missed[r] \subseteq missed'[r]
            BY <1>s, <3>1
        <3>4. CASE i \in Listed(r) \cup missed[r]
            BY <2>1, <3>1, <3>2, <3>3, <3>4
        <3>5. CASE port[i] \in reader[r].todo /\ port[i] # p
            BY <2>1, <2>3, <3>1, <3>2, <3>5
        <3>6. CASE port[i] = p
            <4>1. OnRecord(i) /\ file[p] \notin {Nothing, Junk} /\ file[p].owner = i
                BY <2>2, <2>3, <3>1, <3>6
            <4>2. CASE v.at = "scan"
                BY <1>s, <1>i, <2>1, <3>1, <3>2, <3>6, <4>1, <4>2
            <4>3. CASE v.at # "scan"
                BY <2>1, <3>1, <3>2, <4>1, <4>3
            <4> QED BY <4>2, <4>3
        <3> QED BY <2>2, <3>1, <3>4, <3>5, <3>6
    <2>6. CASE CheckAlive(r)
        <3>1. PICK v \in ReaderState :
                  /\ reader[r].at = "alive" /\ reader' = [reader EXCEPT ![r] = v] /\ missed' = missed
                  /\ v.todo = reader[r].todo /\ v.found = reader[r].found
                  /\ v.entry = reader[r].entry
                  /\ v.at = IF PidAlive(reader[r].entry.pid) THEN "probe" ELSE "unlink"
            BY <2>6, CheckMoves
        <3>2. reader'[r] = v /\ Listed(r)' = Listed(r)
            BY <1>s, <3>1 DEF Listed
        <3>3. reader[r].entry.owner = i => PidAlive(reader[r].entry.pid)
            BY <1>i, <2>3, <3>1 DEF HeldIsTrue, Written, PidAlive, UsedPids
        <3> QED BY <2>1, <2>2, <2>3, <3>1, <3>2, <3>3
    <2>7. CASE Probe(r)
        <3>1. PICK v \in ReaderState :
                  /\ reader[r].at = "probe" /\ reader' = [reader EXCEPT ![r] = v]
                  /\ v.at = "scan" /\ v.todo = reader[r].todo
                  /\ \/ v.found = reader[r].found \cup {reader[r].entry} /\ missed' = missed
                     \/ /\ v.found = reader[r].found
                        /\ missed' = [missed EXCEPT ![r] = @ \cup {reader[r].entry.owner}]
            BY <2>7, ProbeMoves
        <3>2. reader'[r] = v
            BY <1>s, <3>1
        <3>3. Listed(r) \cup missed[r] \cup {reader[r].entry.owner} \subseteq Listed(r)' \cup missed'[r]
            BY <1>s, <3>1, <3>2 DEF Listed
        <3> QED BY <2>1, <2>2, <2>3, <3>1, <3>2, <3>3
    <2>8. CASE Unlink(r) \/ Return(r)
        <3>1. PICK v \in ReaderState :
                  /\ reader' = [reader EXCEPT ![r] = v] /\ missed' = missed
                  /\ v.todo = reader[r].todo /\ v.found = reader[r].found
                  /\ \/ reader[r].at = "unlink" /\ v.at = "scan"
                     \/ reader[r].at = "scan" /\ v.at = "done" /\ v.todo = {}
            BY <2>8, OtherMoves
        <3>2. reader'[r] = v /\ Listed(r)' = Listed(r)
            BY <1>s, <3>1 DEF Listed
        <3> QED BY <2>1, <2>2, <2>3, <3>1, <3>2
    <2> QED
        BY <1>2, <2>4, <2>5, <2>6, <2>7, <2>8, RegistryKinds, OneReader DEF ReadStep, vars
<1> QED BY <1>1, <1>2

LEMMA RegistryStays == RegistryInv /\ [Next]_vars => RegistryInv'
BY ShapesStay, GivenStays, FilesStay, HeldStays, NoGhostStep, NobodyIsPassedOverStays
    DEF RegistryInv

LEMMA RegistryIsTrue == RegistryInv => TypeOK /\ ReadIsComplete /\ NoGhosts
<1> SUFFICES ASSUME RegistryInv PROVE TypeOK /\ ReadIsComplete /\ NoGhosts
    OBVIOUS
<1> USE DEF RegistryInv
<1>1. TypeOK
    BY DEF Shapes
<1>2. ReadIsComplete
    BY DEF ReadIsComplete, NobodyIsPassedOver
<1>3. NoGhosts
    <2> SUFFICES ASSUME NEW r \in Readers, NEW e \in reader[r].found, e.owner \in gone[r]
                 PROVE  \E j, k \in Instances \ gone[r] : pid[j] = e.pid /\ port[k] = e.port
        BY DEF NoGhosts
    <2>1. PidGivenAgain(r, e) /\ PortGivenAgain(r, e)
        BY DEF NoGhostPasses
    <2> QED BY <2>1 DEF PidGivenAgain, PortGivenAgain
<1> QED BY <1>1, <1>2, <1>3

(* Whoever unlinks the record of a running instance holds another.         *)
LEMMA Evictions ==
    ASSUME RegistryInv, [Next]_vars
    PROVE  EvictedForAReason
<1> SUFFICES ASSUME NEW i \in Instances, OnRecord(i), stage'[i] = "running", ~ OnRecord(i)'
             PROVE  \E r \in Readers :
                        /\ reader[r].at = "unlink" /\ reader[r].path = port[i]
                        /\ reader[r].entry # file[port[i]]
    BY DEF EvictedForAReason
<1> USE DEF RegistryInv
<1>1. /\ stage[i] = "running" /\ i \in Listening /\ port[i] \in Ports /\ port'[i] = port[i]
      /\ file[port[i]] \notin {Nothing, Junk} /\ file[port[i]].owner = i
    BY LivesGoOn DEF OnRecord, Listening, Given
<1>2. \A j \in Listening : port[j] = port[i] => j = i
    BY <1>1 DEF Shapes, TypeOK
<1>3. CASE file'[port[i]] = file[port[i]]
    BY <1>1, <1>3 DEF OnRecord
<1>4. ASSUME NEW r \in Readers, reader[r].at = "unlink", reader[r].path = port[i]
      PROVE  reader[r].entry # file[port[i]]
    BY <1>1, <1>4 DEF HeldIsTrue
<1>5. ASSUME NEW j \in Listening, port[j] = port[i], stage'[j] = "leaving" PROVE FALSE
    BY <1>2, <1>5
<1>6. ASSUME NEW j \in Listening, NEW n \in 1 .. MaxMints, port[j] = port[i],
             file'[port[i]] = Entry(j, n)
      PROVE  FALSE
    <2>1. j = i
        BY <1>2, <1>6
    <2>2. file'[port'[i]].owner = i
        BY <1>1, <1>6, <2>1 DEF Entry
    <2>3. Entry(i, n) \in Record
        BY <1>1 DEF Entry, Record, Given
    <2>4. file'[port'[i]] \notin {Nothing, Junk}
        BY <1>1, <1>6, <2>1, <2>3, DiscoveryAssumption
    <2> QED BY <2>2, <2>4 DEF OnRecord
<1> QED BY <1>1, <1>3, <1>4, <1>5, <1>6, FileSteps

-----------------------------------------------------------------------------
(* The scratch root.                                                       *)

SweepState ==
    [todo : SUBSET Ids, name : Ids \cup {Nothing}, judged : Pids \cup {Nothing}]

ScratchShapes == S!TypeOK /\ sweep \in [Instances -> SweepState]

(* A supervisor has a pid from its start on; only one that listened has    *)
(* sessions, or had them.                                                  *)
Lives == \A s \in Instances :
    /\ supStage[s] # "off" => supPid[s] \in Pids
    /\ \A x \in Ids :
          /\ s \in used[x] => supStage[s] \in {"serving", "leaving", "dead"}
          /\ held[s][x] # "no" => s \in used[x] /\ supStage[s] # "dead"

(* A directory is that of supervisors that made it, and so is its owner.   *)
OwnersMadeIt == \A x \in Ids : dir[x] # Nothing =>
    /\ used[x] # {}
    /\ dir[x].owner # Nothing => \E s \in used[x] : dir[x].owner = supPid[s]

(* A sweep has condemned a directory only if one that made it has died.    *)
CondemnedForADeath == \A t \in Instances : sweep[t].name # Nothing =>
    /\ sweep[t].judged \in Pids
    /\ \E s \in used[sweep[t].name] : supStage[s] = "dead"

(* A directory stays under a session that shares its id with nobody.       *)
SessionKeepsItsDirectory == \A s \in Instances, x \in Ids :
    held[s][x] # "no" /\ used[x] = {s} =>
        dir[x] # Nothing /\ (held[s][x] = "copied" => s \in dir[x].copies)

(* What a sweep has to remove it has yet to look at, or has condemned, or  *)
(* could not remove.                                                       *)
DoomedAreInSight == \A s \in Instances : \A x \in doomed[s] :
    \/ x \in stuck[s]
    \/ /\ supStage[s] = "sweeping"
       /\ dir[x] # Nothing /\ ~ S!ParentAlive(dir[x].owner)
       /\ x \in sweep[s].todo \/ x = sweep[s].name

ScratchInv ==
    /\ ScratchShapes /\ Lives /\ OwnersMadeIt /\ CondemnedForADeath
    /\ SessionKeepsItsDirectory /\ DoomedAreInSight

LEMMA ScratchBegins == S!Init => ScratchInv
<1> SUFFICES ASSUME S!Init PROVE ScratchInv
    OBVIOUS
<1> USE DEF S!Init, S!NoSweep
<1>1. ScratchShapes
    BY DEF ScratchShapes, S!TypeOK, SweepState
<1>2. Lives /\ OwnersMadeIt /\ CondemnedForADeath
    BY DEF Lives, OwnersMadeIt, CondemnedForADeath
<1>3. SessionKeepsItsDirectory /\ DoomedAreInSight
    BY DEF SessionKeepsItsDirectory, DoomedAreInSight
<1> QED BY <1>1, <1>2, <1>3 DEF ScratchInv

(* The steps of processes, those of sweeps and those of sessions.          *)
LEMMA ScratchKinds ==
    ASSUME [S!Next]_supVars
    PROVE  \/ UNCHANGED supVars
           \/ S!Watch /\ UNCHANGED <<dir, held, sweep, used, stuck>>
           \/ /\ S!Watch
              /\ \/ \E s \in Instances : S!Die(s) \/ S!SweepStep(s)
                 \/ \E s \in Instances, x \in Ids :
                       \/ S!MakeDir(s, x) \/ S!WriteOwner(s, x)
                       \/ S!Copy(s, x) \/ S!Cleanup(s, x)
BY DEF S!Next, supVars, S!LifeStep, S!SessionStep, S!StartByHand, S!Interrupt, S!Leave,
    S!ProbeSupervisor, S!SpawnSupervisor

LEMMA SupervisorMoves ==
    ASSUME [S!Next]_supVars
    PROVE  \/ UNCHANGED <<supStage, supPid>>
           \/ \E t \in Instances, n \in Pids :
                 /\ supStage[t] = "off" /\ supStage' = [supStage EXCEPT ![t] = "launched"]
                 /\ supPid' = [supPid EXCEPT ![t] = n]
           \/ /\ supPid' = supPid
              /\ \E t \in Instances :
                    \/ supStage[t] = "launched" /\ supStage' = [supStage EXCEPT ![t] = "sweeping"]
                    \/ supStage[t] = "sweeping" /\ supStage' = [supStage EXCEPT ![t] = "serving"]
                    \/ supStage[t] = "serving" /\ supStage' = [supStage EXCEPT ![t] = "leaving"]
                    \/ supStage[t] # "off" /\ supStage' = [supStage EXCEPT ![t] = "dead"]
<1>1. ASSUME NEW t \in Instances, S!Start(t)
      PROVE  /\ supStage[t] = "off" /\ supStage' = [supStage EXCEPT ![t] = "launched"]
             /\ \E n \in Pids : supPid' = [supPid EXCEPT ![t] = n]
    BY <1>1 DEF S!Start
<1>2. ASSUME NEW t \in Instances, S!BeginSweep(t) \/ S!Serve(t) \/ S!LifeStep(t)
      PROVE  /\ supPid' = supPid
             /\ \/ supStage[t] = "launched" /\ supStage' = [supStage EXCEPT ![t] = "sweeping"]
                \/ supStage[t] = "sweeping" /\ supStage' = [supStage EXCEPT ![t] = "serving"]
                \/ supStage[t] = "serving" /\ supStage' = [supStage EXCEPT ![t] = "leaving"]
                \/ supStage[t] # "off" /\ supStage' = [supStage EXCEPT ![t] = "dead"]
    BY <1>2 DEF S!BeginSweep, S!Serve, S!LifeStep, S!Die, S!Interrupt, S!Leave, S!Up
<1>3. ASSUME NEW t \in Instances, S!Judge(t) \/ S!Remove(t) \/ S!SessionStep(t)
      PROVE  UNCHANGED <<supStage, supPid>>
    BY <1>3 DEF S!Judge, S!Remove, S!SessionStep, S!MakeDir, S!WriteOwner, S!Copy, S!Cleanup, S!procs
<1>4. ASSUME NEW g \in Guis, S!ProbeSupervisor(g) \/ S!SpawnSupervisor(g)
      PROVE  UNCHANGED <<supStage, supPid>> \/ \E t \in Instances : S!Start(t)
    BY <1>4 DEF S!ProbeSupervisor, S!SpawnSupervisor
<1> QED BY <1>1, <1>2, <1>3, <1>4 DEF S!Next, S!StartByHand, S!SweepStep, supVars

LEMMA SupervisorsGoOn ==
    ASSUME ScratchShapes, [S!Next]_supVars, NEW s \in Instances
    PROVE  /\ supStage[s] = "dead" => supStage'[s] = "dead"
           /\ supStage[s] \in {"serving", "leaving", "dead"} =>
                 supStage'[s] \in {"serving", "leaving", "dead"}
           /\ supStage[s] # "off" => supStage'[s] # "off" /\ supPid'[s] = supPid[s]
           /\ supStage[s] = "off" /\ supStage'[s] # "off" => supPid'[s] \in Pids
BY SupervisorMoves DEF ScratchShapes, S!TypeOK

LEMMA SupervisorDies ==
    ASSUME ScratchShapes, [S!Next]_supVars, NEW s \in Instances,
           supStage[s] # "dead", supStage'[s] = "dead"
    PROVE  S!Die(s) \/ S!Leave(s)
<1>s. supStage \in [Instances -> {"off", "launched", "sweeping", "serving", "leaving", "dead"}]
    BY DEF ScratchShapes, S!TypeOK
<1>1. ASSUME NEW t \in Instances, S!Die(t) \/ S!Leave(t) PROVE t = s
    <2>1. supStage' = [supStage EXCEPT ![t] = "dead"]
        BY <1>1 DEF S!Die, S!Leave
    <2> QED BY <1>s, <2>1
<1>2. ASSUME NEW t \in Instances,
             S!Start(t) \/ S!BeginSweep(t) \/ S!Serve(t) \/ S!Interrupt(t)
      PROVE  FALSE
    BY <1>s, <1>2 DEF S!Start, S!BeginSweep, S!Serve, S!Interrupt
<1>3. ASSUME NEW t \in Instances, S!Judge(t) \/ S!Remove(t) \/ S!SessionStep(t)
      PROVE  FALSE
    BY <1>3 DEF S!Judge, S!Remove, S!SessionStep, S!MakeDir, S!WriteOwner, S!Copy, S!Cleanup, S!procs
<1>4. ASSUME NEW g \in Guis, S!ProbeSupervisor(g) \/ S!SpawnSupervisor(g)
      PROVE  \E t \in Instances : S!Start(t)
    BY <1>4 DEF S!ProbeSupervisor, S!SpawnSupervisor
<1> QED BY <1>1, <1>2, <1>3, <1>4 DEF S!Next, S!StartByHand, S!SweepStep, S!LifeStep, supVars

LEMMA SweepTurns ==
    ASSUME ScratchShapes, [S!Next]_supVars, NEW s \in Instances
    PROVE  /\ supStage[s] = "launched" /\ supStage'[s] = "sweeping" =>
                 S!BeginSweep(s) /\ supStage' = [supStage EXCEPT ![s] = "sweeping"]
           /\ supStage[s] = "sweeping" /\ supStage'[s] = "serving" => S!Serve(s)
<1>s. supStage \in [Instances -> {"off", "launched", "sweeping", "serving", "leaving", "dead"}]
    BY DEF ScratchShapes, S!TypeOK
<1> SUFFICES ASSUME supStage[s] \in {"launched", "sweeping"}, supStage'[s] \in {"sweeping", "serving"},
                    supStage'[s] # supStage[s]
             PROVE  \/ S!BeginSweep(s) /\ supStage' = [supStage EXCEPT ![s] = "sweeping"]
                    \/ S!Serve(s) /\ supStage'[s] = "serving"
    BY <1>s DEF S!Serve, S!BeginSweep
<1>1. ASSUME NEW t \in Instances, NEW v, supStage' = [supStage EXCEPT ![t] = v]
      PROVE  t = s /\ v \in {"sweeping", "serving"}
    BY <1>s, <1>1
<1>2. ASSUME NEW t \in Instances, S!Start(t) \/ S!LifeStep(t) PROVE FALSE
    BY <1>1, <1>2 DEF S!Start, S!LifeStep, S!Die, S!Leave, S!Interrupt
<1>3. ASSUME NEW t \in Instances, S!Judge(t) \/ S!Remove(t) \/ S!SessionStep(t)
      PROVE  FALSE
    BY <1>3 DEF S!Judge, S!Remove, S!SessionStep, S!MakeDir, S!WriteOwner, S!Copy, S!Cleanup, S!procs
<1>4. ASSUME NEW g \in Guis, S!ProbeSupervisor(g) \/ S!SpawnSupervisor(g)
      PROVE  FALSE
    BY <1>2, <1>4 DEF S!ProbeSupervisor, S!SpawnSupervisor
<1>5. ASSUME NEW t \in Instances, S!BeginSweep(t)
      PROVE  t = s /\ supStage' = [supStage EXCEPT ![t] = "sweeping"]
    <2>1. supStage' = [supStage EXCEPT ![t] = "sweeping"]
        BY <1>5 DEF S!BeginSweep
    <2> QED BY <1>1, <2>1
<1>6. ASSUME NEW t \in Instances, S!Serve(t)
      PROVE  t = s /\ supStage'[s] = "serving"
    <2>1. supStage' = [supStage EXCEPT ![t] = "serving"]
        BY <1>6 DEF S!Serve
    <2> QED BY <1>s, <1>1, <2>1
<1> QED BY <1>2, <1>3, <1>4, <1>5, <1>6 DEF S!Next, S!StartByHand, S!SweepStep, supVars

LEMMA SweepsStay ==
    ASSUME ScratchShapes, [S!Next]_supVars
    PROVE  sweep' \in [Instances -> SweepState]
<1>s. /\ sweep \in [Instances -> SweepState]
      /\ dir \in [Ids -> S!Directory \cup {Nothing}]
    BY DEF ScratchShapes, S!TypeOK
<1>n. S!NoSweep \in SweepState
    BY DEF S!NoSweep, SweepState
<1>1. ASSUME NEW s \in Instances, S!Die(s) PROVE sweep' \in [Instances -> SweepState]
    BY <1>s, <1>n, <1>1 DEF S!Die
<1>2. ASSUME NEW s \in Instances, S!BeginSweep(s) PROVE sweep' \in [Instances -> SweepState]
    BY <1>s, <1>2 DEF S!BeginSweep, SweepState
<1>3. ASSUME NEW s \in Instances, S!Judge(s) PROVE sweep' \in [Instances -> SweepState]
    <2>1. PICK x \in sweep[s].todo :
             \/ sweep' = [sweep EXCEPT ![s] =
                   [todo |-> sweep[s].todo \ {x}, name |-> Nothing, judged |-> Nothing]]
             \/ /\ dir[x] # Nothing
                /\ sweep' = [sweep EXCEPT ![s] =
                      [todo |-> sweep[s].todo \ {x}, name |-> x, judged |-> dir[x].owner]]
        BY <1>3 DEF S!Judge, S!Rest, S!ParentAlive
    <2>2. /\ sweep[s].todo \ {x} \in SUBSET Ids /\ x \in Ids
          /\ dir[x] # Nothing => dir[x].owner \in Pids \cup {Nothing}
        BY <1>s DEF SweepState, S!Directory
    <2> QED BY <1>s, <2>1, <2>2 DEF SweepState
<1>4. ASSUME NEW s \in Instances, S!Remove(s) PROVE sweep' \in [Instances -> SweepState]
    BY <1>s, <1>4 DEF S!Remove, SweepState
<1>5. ASSUME NEW s \in Instances, NEW x \in Ids,
             S!MakeDir(s, x) \/ S!WriteOwner(s, x) \/ S!Copy(s, x) \/ S!Cleanup(s, x)
      PROVE  sweep' = sweep
    BY <1>5 DEF S!MakeDir, S!WriteOwner, S!Copy, S!Cleanup
<1>6. ASSUME NEW s \in Instances, S!Serve(s) PROVE sweep' = sweep
    BY <1>6 DEF S!Serve
<1> QED BY <1>s, <1>1, <1>2, <1>3, <1>4, <1>5, <1>6, ScratchKinds DEF S!SweepStep, supVars

LEMMA DirectoriesStay ==
    ASSUME ScratchShapes, [S!Next]_supVars
    PROVE  dir' \in [Ids -> S!Directory \cup {Nothing}]
<1> USE DEF S!Directory
<1>s. /\ dir \in [Ids -> S!Directory \cup {Nothing}]
      /\ supPid \in [Instances -> Pids \cup {Nothing}]
    BY DEF ScratchShapes, S!TypeOK
<1>1. ASSUME NEW s \in Instances, S!Die(s) \/ S!SweepStep(s)
      PROVE  dir' \in [Ids -> S!Directory \cup {Nothing}]
    BY <1>s, <1>1 DEF S!Die, S!SweepStep, S!BeginSweep, S!Judge, S!Remove, S!Serve
<1>2. ASSUME NEW s \in Instances, NEW x \in Ids, S!MakeDir(s, x) \/ S!Cleanup(s, x)
      PROVE  dir' \in [Ids -> S!Directory \cup {Nothing}]
    BY <1>s, <1>2 DEF S!MakeDir, S!Cleanup
<1>3. ASSUME NEW s \in Instances, NEW x \in Ids, S!WriteOwner(s, x) \/ S!Copy(s, x)
      PROVE  dir' \in [Ids -> S!Directory \cup {Nothing}]
    BY <1>s, <1>3 DEF S!WriteOwner, S!Copy
<1> QED BY <1>s, <1>1, <1>2, <1>3, ScratchKinds DEF supVars

LEMMA ScratchShapesStay ==
    ASSUME ScratchShapes, [S!Next]_supVars
    PROVE  ScratchShapes'
<1>s. /\ supStage \in [Instances -> {"off", "launched", "sweeping", "serving", "leaving", "dead"}]
      /\ supPid \in [Instances -> Pids \cup {Nothing}]
      /\ gui \in [Guis -> {"off", "unanswered", "done"}]
      /\ held \in [Instances -> [Ids -> {"no", "made", "owned", "copied"}]]
      /\ used \in [Ids -> SUBSET Instances]
      /\ doomed \in [Instances -> SUBSET Ids]
      /\ stuck \in [Instances -> SUBSET Ids]
      /\ sweep \in [Instances -> SweepState]
    BY DEF ScratchShapes, S!TypeOK
<1> USE <1>s
<1>1. /\ supStage' \in [Instances -> {"off", "launched", "sweeping", "serving", "leaving", "dead"}]
      /\ supPid' \in [Instances -> Pids \cup {Nothing}]
    BY SupervisorMoves
<1>2. gui' \in [Guis -> {"off", "unanswered", "done"}]
    <2>1. gui' = gui \/ \E g \in Guis, v \in {"unanswered", "done"} : gui' = [gui EXCEPT ![g] = v]
        BY DEF S!Next, supVars, S!StartByHand, S!SweepStep, S!SessionStep, S!LifeStep, S!Die,
            S!Interrupt, S!Leave, S!ProbeSupervisor, S!SpawnSupervisor, S!BeginSweep, S!Judge,
            S!Remove, S!Serve, S!MakeDir, S!WriteOwner, S!Copy, S!Cleanup, S!procs
    <2> QED BY <2>1
<1>3. held' \in [Instances -> [Ids -> {"no", "made", "owned", "copied"}]]
    <2>1. \/ held' = held
          \/ \E s \in Instances : held' = [held EXCEPT ![s] = [x \in Ids |-> "no"]]
          \/ \E s \in Instances, x \in Ids, v \in {"no", "made", "owned", "copied"} :
                held' = [held EXCEPT ![s][x] = v]
        BY ScratchKinds DEF supVars, S!Die, S!SweepStep, S!BeginSweep, S!Judge, S!Remove, S!Serve,
            S!MakeDir, S!WriteOwner, S!Copy, S!Cleanup
    <2>2. ASSUME NEW s \in Instances, NEW x \in Ids, NEW v \in {"no", "made", "owned", "copied"},
                 held' = [held EXCEPT ![s][x] = v]
          PROVE  held' \in [Instances -> [Ids -> {"no", "made", "owned", "copied"}]]
        <3>1. [held[s] EXCEPT ![x] = v] \in [Ids -> {"no", "made", "owned", "copied"}]
            OBVIOUS
        <3>2. held' = [held EXCEPT ![s] = [held[s] EXCEPT ![x] = v]]
            BY <2>2
        <3> QED BY <3>1, <3>2
    <2>3. ASSUME NEW s \in Instances, held' = [held EXCEPT ![s] = [x \in Ids |-> "no"]]
          PROVE  held' \in [Instances -> [Ids -> {"no", "made", "owned", "copied"}]]
        BY <2>3
    <2> QED BY <2>1, <2>2, <2>3
<1>4. used' \in [Ids -> SUBSET Instances]
    <2>1. used' = used \/ \E s \in Instances, x \in Ids : used' = [used EXCEPT ![x] = @ \cup {s}]
        BY ScratchKinds DEF supVars, S!Die, S!SweepStep, S!BeginSweep, S!Judge, S!Remove, S!Serve,
            S!MakeDir, S!WriteOwner, S!Copy, S!Cleanup
    <2> QED BY <2>1
<1>5. stuck' \in [Instances -> SUBSET Ids]
    <2>1. ASSUME NEW s \in Instances, S!Remove(s) PROVE stuck' \in [Instances -> SUBSET Ids]
        <3>1. sweep[s].name \in Ids
            BY <2>1 DEF S!Remove, SweepState
        <3> QED BY <2>1, <3>1 DEF S!Remove
    <2> QED BY <2>1, ScratchKinds DEF supVars, S!Die, S!SweepStep, S!BeginSweep, S!Judge, S!Serve,
        S!MakeDir, S!WriteOwner, S!Copy, S!Cleanup
<1>6. doomed' \in [Instances -> SUBSET Ids]
    <2>1. CASE S!Watch
        <3>1. doomed' = [s \in Instances |-> doomed'[s]]
            BY <2>1 DEF S!Watch
        <3>2. ASSUME NEW s \in Instances PROVE doomed'[s] \subseteq Ids
            BY <2>1 DEF S!Watch
        <3> QED BY <3>1, <3>2
    <2> QED BY <2>1, ScratchKinds DEF supVars
<1>7. \A s \in Instances :
          /\ sweep'[s].todo \subseteq Ids
          /\ sweep'[s].name \in Ids \cup {Nothing}
          /\ sweep'[s].judged \in Pids \cup {Nothing}
    BY SweepsStay DEF SweepState
<1> QED
    BY <1>1, <1>2, <1>3, <1>4, <1>5, <1>6, <1>7, SweepsStay, DirectoriesStay
    DEF ScratchShapes, S!TypeOK

-----------------------------------------------------------------------------
(* The steps that touch a directory or who uses its id.                    *)
LEMMA UsedSteps ==
    ASSUME ScratchShapes, [S!Next]_supVars, NEW x \in Ids
    PROVE  \/ used'[x] = used[x]
           \/ \E s \in Instances : S!MakeDir(s, x) /\ used'[x] = used[x] \cup {s}
<1>1. ASSUME NEW s \in Instances, NEW y \in Ids, S!MakeDir(s, y)
      PROVE  used'[x] = used[x] \/ (x = y /\ used'[x] = used[x] \cup {s})
    <2>1. used' = [used EXCEPT ![y] = @ \cup {s}] /\ used \in [Ids -> SUBSET Instances]
        BY <1>1 DEF S!MakeDir, ScratchShapes, S!TypeOK
    <2>2. CASE x = y
        BY <2>1, <2>2
    <2>3. CASE x # y
        BY <2>1, <2>3
    <2> QED BY <2>2, <2>3
<1>2. ASSUME NEW s \in Instances, NEW y \in Ids,
             S!WriteOwner(s, y) \/ S!Copy(s, y) \/ S!Cleanup(s, y)
      PROVE  used' = used
    BY <1>2 DEF S!WriteOwner, S!Copy, S!Cleanup
<1>3. ASSUME NEW s \in Instances, S!Die(s) \/ S!SweepStep(s) PROVE used' = used
    BY <1>3 DEF S!Die, S!SweepStep, S!BeginSweep, S!Judge, S!Remove, S!Serve
<1> QED BY <1>1, <1>2, <1>3, ScratchKinds DEF supVars

LEMMA SessionSteps ==
    ASSUME ScratchShapes, [S!Next]_supVars, NEW s \in Instances, NEW x \in Ids
    PROVE  \/ held'[s][x] = held[s][x]
           \/ held'[s][x] = "no"
           \/ S!MakeDir(s, x) /\ held'[s][x] = "made"
           \/ S!WriteOwner(s, x) /\ held'[s][x] = "owned"
           \/ S!Copy(s, x) /\ held'[s][x] = "copied"
<1>s. held \in [Instances -> [Ids -> {"no", "made", "owned", "copied"}]]
    BY DEF ScratchShapes, S!TypeOK
<1>1. ASSUME NEW t \in Instances, NEW y \in Ids, NEW v, held' = [held EXCEPT ![t][y] = v]
      PROVE  held'[s][x] = IF t = s /\ y = x THEN v ELSE held[s][x]
    BY <1>s, <1>1
<1>2. ASSUME NEW t \in Instances, S!Die(t) PROVE held'[s][x] = held[s][x] \/ held'[s][x] = "no"
    BY <1>s, <1>2 DEF S!Die
<1>3. ASSUME NEW t \in Instances, S!SweepStep(t) PROVE held' = held
    BY <1>3 DEF S!SweepStep, S!BeginSweep, S!Judge, S!Remove, S!Serve
<1>4. ASSUME NEW t \in Instances, NEW y \in Ids,
             S!MakeDir(t, y) \/ S!WriteOwner(t, y) \/ S!Copy(t, y) \/ S!Cleanup(t, y)
      PROVE  \/ held'[s][x] = held[s][x]
             \/ held'[s][x] = "no"
             \/ S!MakeDir(s, x) /\ held'[s][x] = "made"
             \/ S!WriteOwner(s, x) /\ held'[s][x] = "owned"
             \/ S!Copy(s, x) /\ held'[s][x] = "copied"
    <2>1. CASE S!MakeDir(t, y)
        <3>1. held' = [held EXCEPT ![t][y] = "made"]
            BY <2>1 DEF S!MakeDir
        <3> QED BY <1>1, <2>1, <3>1
    <2>2. CASE S!WriteOwner(t, y)
        <3>1. held' = [held EXCEPT ![t][y] = "owned"]
            BY <2>2 DEF S!WriteOwner
        <3> QED BY <1>1, <2>2, <3>1
    <2>3. CASE S!Copy(t, y)
        <3>1. held' = [held EXCEPT ![t][y] = "copied"]
            BY <2>3 DEF S!Copy
        <3> QED BY <1>1, <2>3, <3>1
    <2>4. CASE S!Cleanup(t, y)
        <3>1. held' = [held EXCEPT ![t][y] = "no"]
            BY <2>4 DEF S!Cleanup
        <3> QED BY <1>1, <2>4, <3>1
    <2> QED BY <1>4, <2>1, <2>2, <2>3, <2>4
<1> QED BY <1>2, <1>3, <1>4, ScratchKinds DEF supVars

LEMMA DirectorySteps ==
    ASSUME ScratchShapes, [S!Next]_supVars, NEW x \in Ids
    PROVE  \/ dir'[x] = dir[x]
           \/ /\ dir[x] # Nothing /\ dir'[x] = Nothing
              /\ \/ \E t \in Instances : S!Remove(t) /\ sweep[t].name = x
                 \/ \E t \in Instances : S!Cleanup(t, x)
           \/ /\ dir[x] = Nothing /\ dir'[x] = [owner |-> Nothing, copies |-> {}]
              /\ dir'[x] # Nothing /\ \E t \in Instances : S!MakeDir(t, x)
           \/ /\ dir[x] # Nothing /\ dir'[x] # Nothing
              /\ \/ \E t \in Instances : /\ S!WriteOwner(t, x) /\ dir'[x].owner = supPid[t]
                                         /\ dir'[x].copies = dir[x].copies
                 \/ \E t \in Instances : /\ S!Copy(t, x) /\ dir'[x].owner = dir[x].owner
                                         /\ dir'[x].copies = dir[x].copies \cup {t}
<1>s. /\ dir \in [Ids -> S!Directory \cup {Nothing}]
      /\ dir' \in [Ids -> S!Directory \cup {Nothing}]
      /\ supPid \in [Instances -> Pids \cup {Nothing}]
    BY DirectoriesStay DEF ScratchShapes, S!TypeOK
<1>1. ASSUME NEW t \in Instances, S!Remove(t), dir'[x] # dir[x]
      PROVE  sweep[t].name = x /\ dir'[x] = Nothing
    BY <1>s, <1>1 DEF S!Remove
<1>2. ASSUME NEW t \in Instances, S!Die(t) \/ S!BeginSweep(t) \/ S!Judge(t) \/ S!Serve(t)
      PROVE  dir' = dir
    BY <1>2 DEF S!Die, S!BeginSweep, S!Judge, S!Serve
<1>3. ASSUME NEW t \in Instances, NEW y \in Ids, S!MakeDir(t, y), dir'[x] # dir[x]
      PROVE  /\ y = x /\ dir[x] = Nothing /\ dir'[x] = [owner |-> Nothing, copies |-> {}]
             /\ dir'[x] # Nothing
    BY <1>s, <1>3 DEF S!MakeDir
<1>4. ASSUME NEW t \in Instances, NEW y \in Ids, S!Cleanup(t, y), dir'[x] # dir[x]
      PROVE  y = x /\ dir'[x] = Nothing
    BY <1>s, <1>4 DEF S!Cleanup
<1>5. ASSUME NEW t \in Instances, NEW y \in Ids, S!WriteOwner(t, y), dir'[x] # dir[x]
      PROVE  /\ y = x /\ dir[x] # Nothing /\ dir'[x] # Nothing
             /\ dir'[x].owner = supPid[t] /\ dir'[x].copies = dir[x].copies
    <2>1. y = x /\ dir[x] # Nothing /\ dir'[x] = [dir[x] EXCEPT !.owner = supPid[t]]
        BY <1>s, <1>5 DEF S!WriteOwner
    <2>2. dir[x] \in S!Directory /\ supPid[t] \in Pids \cup {Nothing}
        BY <1>s, <2>1
    <2>3. dir'[x] \in S!Directory
        BY <2>1, <2>2 DEF S!Directory
    <2> QED BY <2>1, <2>2, <2>3, HostAssumption DEF S!Directory
<1>6. ASSUME NEW t \in Instances, NEW y \in Ids, S!Copy(t, y), dir'[x] # dir[x]
      PROVE  /\ y = x /\ dir[x] # Nothing /\ dir'[x] # Nothing
             /\ dir'[x].owner = dir[x].owner /\ dir'[x].copies = dir[x].copies \cup {t}
    <2>1. y = x /\ dir[x] # Nothing /\ dir'[x] = [dir[x] EXCEPT !.copies = @ \cup {t}]
        BY <1>s, <1>6 DEF S!Copy
    <2>2. dir[x] \in S!Directory
        BY <1>s, <2>1
    <2>3. dir'[x] \in S!Directory
        BY <2>1, <2>2 DEF S!Directory
    <2> QED BY <2>1, <2>2, <2>3, HostAssumption DEF S!Directory
<1> QED
    BY <1>1, <1>2, <1>3, <1>4, <1>5, <1>6, ScratchKinds DEF S!SweepStep, supVars

-----------------------------------------------------------------------------
LEMMA LivesStay ==
    ASSUME ScratchInv, [S!Next]_supVars
    PROVE  Lives'
<1> USE DEF ScratchInv
<1>u. /\ used \in [Ids -> SUBSET Instances] /\ used' \in [Ids -> SUBSET Instances]
    BY ScratchShapesStay DEF ScratchShapes, S!TypeOK
<1>1. ASSUME NEW s \in Instances, supStage'[s] # "off" PROVE supPid'[s] \in Pids
    BY <1>1, SupervisorsGoOn DEF Lives
<1>2. ASSUME NEW s \in Instances, NEW x \in Ids, s \in used'[x]
      PROVE  supStage'[s] \in {"serving", "leaving", "dead"}
    <2>1. CASE s \in used[x]
        BY <2>1, SupervisorsGoOn DEF Lives
    <2>2. CASE s \notin used[x]
        <3>1. S!MakeDir(s, x)
            BY <1>2, <2>2, UsedSteps
        <3> QED BY <3>1 DEF S!MakeDir, S!procs
    <2> QED BY <2>1, <2>2
<1>3. ASSUME NEW s \in Instances, NEW x \in Ids, held'[s][x] # "no"
      PROVE  s \in used'[x] /\ supStage'[s] # "dead"
    <2>1. CASE S!MakeDir(s, x)
        <3>1. used' = [used EXCEPT ![x] = @ \cup {s}] /\ supStage' = supStage /\ supStage[s] = "serving"
            BY <2>1 DEF S!MakeDir, S!procs
        <3> QED BY <1>u, <3>1
    <2>2. CASE held[s][x] # "no" /\ ~ S!MakeDir(s, x)
        <3>1. s \in used[x] /\ supStage[s] \in {"serving", "leaving"}
            BY <2>2 DEF Lives
        <3>2. s \in used'[x]
            BY <3>1, UsedSteps
        <3>3. ASSUME supStage'[s] = "dead" PROVE FALSE
            <4>1. S!Die(s) \/ S!Leave(s)
                BY <3>1, <3>3, SupervisorDies
            <4>2. CASE S!Die(s)
                BY <1>3, <4>2 DEF S!Die, ScratchShapes, S!TypeOK
            <4>3. CASE S!Leave(s)
                BY <2>2, <4>3 DEF S!Leave
            <4> QED BY <4>1, <4>2, <4>3
        <3> QED BY <3>2, <3>3
    <2> QED BY <1>3, <2>1, <2>2, SessionSteps DEF S!WriteOwner, S!Copy
<1> QED BY <1>1, <1>2, <1>3 DEF Lives

LEMMA OwnersStay ==
    ASSUME ScratchInv, [S!Next]_supVars
    PROVE  OwnersMadeIt'
<1> USE DEF ScratchInv
<1> SUFFICES ASSUME NEW x \in Ids, dir'[x] # Nothing
             PROVE  /\ used'[x] # {}
                    /\ dir'[x].owner # Nothing => \E s \in used'[x] : dir'[x].owner = supPid'[s]
    BY DEF OwnersMadeIt
<1>u. used \in [Ids -> SUBSET Instances]
    BY DEF ScratchShapes, S!TypeOK
<1>1. used[x] \subseteq used'[x]
    BY UsedSteps
<1>2. ASSUME NEW s \in used[x] PROVE supPid'[s] = supPid[s] /\ s \in Instances
    BY <1>u, SupervisorsGoOn DEF Lives
<1>3. CASE dir'[x] = dir[x]
    BY <1>1, <1>2, <1>3 DEF OwnersMadeIt
<1>4. ASSUME NEW t \in Instances, S!MakeDir(t, x), dir'[x] = [owner |-> Nothing, copies |-> {}]
      PROVE  t \in used'[x] /\ dir'[x].owner = Nothing
    BY <1>u, <1>4 DEF S!MakeDir
<1>5. ASSUME NEW t \in Instances, S!WriteOwner(t, x), dir'[x].owner = supPid[t]
      PROVE  t \in used'[x] /\ dir'[x].owner = supPid'[t]
    <2>1. t \in used[x]
        BY <1>5 DEF S!WriteOwner, Lives
    <2> QED BY <1>1, <1>2, <1>5, <2>1
<1>6. ASSUME NEW t \in Instances, S!Copy(t, x), dir[x] # Nothing, dir'[x].owner = dir[x].owner
      PROVE  /\ used'[x] # {}
             /\ dir'[x].owner # Nothing => \E s \in used'[x] : dir'[x].owner = supPid'[s]
    BY <1>1, <1>2, <1>6 DEF OwnersMadeIt
<1> QED BY <1>3, <1>4, <1>5, <1>6, DirectorySteps

(* A sweep condemns what it judges, and forgets it when it has removed it. *)
LEMMA SweepSteps ==
    ASSUME ScratchShapes, [S!Next]_supVars, NEW t \in Instances
    PROVE  \/ sweep'[t] = sweep[t]
           \/ sweep'[t] = S!NoSweep /\ S!Die(t)
           \/ /\ S!BeginSweep(t) /\ sweep'[t].todo = {x \in Ids : dir[x] # Nothing}
              /\ sweep'[t].name = sweep[t].name /\ sweep'[t].judged = sweep[t].judged
           \/ /\ S!Judge(t) /\ sweep[t].name = Nothing
              /\ \E x \in sweep[t].todo :
                    /\ sweep'[t].todo = sweep[t].todo \ {x}
                    /\ \/ /\ sweep'[t].name = Nothing
                          /\ dir[x] = Nothing \/ S!ParentAlive(dir[x].owner)
                       \/ /\ dir[x] # Nothing /\ ~ S!ParentAlive(dir[x].owner)
                          /\ sweep'[t].name = x /\ sweep'[t].judged = dir[x].owner
           \/ /\ S!Remove(t) /\ sweep'[t].todo = sweep[t].todo
              /\ sweep'[t].name = Nothing
<1>s. sweep \in [Instances -> SweepState]
    BY DEF ScratchShapes
<1>1. CASE sweep' = sweep
    BY <1>1
<1>2. ASSUME NEW u \in Instances, u # t, S!Die(u) \/ S!BeginSweep(u) \/ S!Judge(u) \/ S!Remove(u)
      PROVE  sweep'[t] = sweep[t]
    BY <1>s, <1>2 DEF S!Die, S!BeginSweep, S!Judge, S!Remove
<1>3. CASE S!Die(t)
    <2>1. sweep' = [sweep EXCEPT ![t] = S!NoSweep]
        BY <1>3 DEF S!Die
    <2> QED BY <1>s, <1>3, <2>1
<1>4. CASE S!BeginSweep(t)
    <2>1. sweep' = [sweep EXCEPT ![t].todo = {x \in Ids : dir[x] # Nothing}]
        BY <1>4 DEF S!BeginSweep
    <2>2. /\ sweep'[t].todo = {x \in Ids : dir[x] # Nothing}
          /\ sweep'[t].name = sweep[t].name /\ sweep'[t].judged = sweep[t].judged
        BY <1>s, <2>1 DEF SweepState
    <2> QED BY <1>4, <2>2
<1>5. CASE S!Judge(t)
    <2>1. sweep[t].name = Nothing
        BY <1>5 DEF S!Judge
    <2>2. PICK x \in sweep[t].todo :
             LET owner == IF dir[x] = Nothing THEN Nothing ELSE dir[x].owner
             IN  sweep' = [sweep EXCEPT ![t] =
                   [todo   |-> sweep[t].todo \ {x},
                    name   |-> IF S!ParentAlive(owner) THEN Nothing ELSE x,
                    judged |-> IF S!ParentAlive(owner) THEN Nothing ELSE owner]]
        BY <1>5 DEF S!Judge, S!Rest
    <2> DEFINE owner == IF dir[x] = Nothing THEN Nothing ELSE dir[x].owner
    <2>3. /\ sweep'[t].todo = sweep[t].todo \ {x}
          /\ sweep'[t].name = IF S!ParentAlive(owner) THEN Nothing ELSE x
          /\ sweep'[t].judged = IF S!ParentAlive(owner) THEN Nothing ELSE owner
        BY <1>s, <2>2
    <2>4. S!ParentAlive(Nothing)
        BY DEF S!ParentAlive
    <2> QED BY <1>5, <2>1, <2>2, <2>3, <2>4
<1>6. CASE S!Remove(t)
    <2>1. sweep' = [sweep EXCEPT ![t].name = Nothing, ![t].judged = Nothing]
        BY <1>6 DEF S!Remove
    <2>2. sweep'[t].todo = sweep[t].todo /\ sweep'[t].name = Nothing
        BY <1>s, <2>1 DEF SweepState
    <2> QED BY <1>6, <2>2
<1>7. ASSUME NEW u \in Instances, NEW x \in Ids,
             S!MakeDir(u, x) \/ S!WriteOwner(u, x) \/ S!Copy(u, x) \/ S!Cleanup(u, x)
      PROVE  sweep' = sweep
    BY <1>7 DEF S!MakeDir, S!WriteOwner, S!Copy, S!Cleanup
<1>8. ASSUME NEW u \in Instances, S!Serve(u) PROVE sweep' = sweep
    BY <1>8 DEF S!Serve
<1> QED
    BY <1>1, <1>2, <1>3, <1>4, <1>5, <1>6, <1>7, <1>8, ScratchKinds DEF S!SweepStep, supVars

LEMMA CondemnedStay ==
    ASSUME ScratchInv, [S!Next]_supVars
    PROVE  CondemnedForADeath'
<1> USE DEF ScratchInv
<1> SUFFICES ASSUME NEW t \in Instances, sweep'[t].name # Nothing
             PROVE  /\ sweep'[t].judged \in Pids
                    /\ \E s \in used'[sweep'[t].name] : supStage'[s] = "dead"
    BY DEF CondemnedForADeath
<1>s. /\ sweep[t] \in SweepState /\ used \in [Ids -> SUBSET Instances]
      /\ dir \in [Ids -> S!Directory \cup {Nothing}]
      /\ supStage \in [Instances -> {"off", "launched", "sweeping", "serving", "leaving", "dead"}]
    BY DEF ScratchShapes, S!TypeOK
<1>1. ASSUME NEW x \in Ids, NEW s \in used[x], supStage[s] = "dead"
      PROVE  s \in used'[x] /\ supStage'[s] = "dead"
    BY <1>s, <1>1, UsedSteps, SupervisorsGoOn
<1>2. CASE sweep'[t].name = sweep[t].name /\ sweep'[t].judged = sweep[t].judged
    <2>1. sweep[t].name \in Ids
        BY <1>s, <1>2 DEF SweepState
    <2> QED BY <1>1, <1>2, <2>1 DEF CondemnedForADeath
<1>3. ASSUME NEW x \in Ids, dir[x] # Nothing, ~ S!ParentAlive(dir[x].owner)
      PROVE  dir[x].owner \in Pids /\ \E s \in used[x] : supStage[s] = "dead"
    <2>1. dir[x].owner \in Pids /\ dir[x].owner # Nothing
        BY <1>s, <1>3 DEF S!ParentAlive, S!Directory
    <2>2. PICK s \in used[x] : dir[x].owner = supPid[s]
        BY <1>3, <2>1 DEF OwnersMadeIt
    <2>3. s \in Instances /\ supStage[s] \in {"serving", "leaving", "dead"}
        BY <1>s DEF Lives
    <2> QED BY <1>3, <2>1, <2>2, <2>3 DEF S!ParentAlive, S!Up
<1>4. CASE \E x \in sweep[t].todo :
              /\ dir[x] # Nothing /\ ~ S!ParentAlive(dir[x].owner)
              /\ sweep'[t].name = x /\ sweep'[t].judged = dir[x].owner
    <2>1. PICK x \in sweep[t].todo :
              /\ dir[x] # Nothing /\ ~ S!ParentAlive(dir[x].owner)
              /\ sweep'[t].name = x /\ sweep'[t].judged = dir[x].owner
        BY <1>4
    <2>2. x \in Ids
        BY <1>s DEF SweepState
    <2> QED BY <1>1, <1>3, <2>1, <2>2
<1> QED BY <1>2, <1>4, SweepSteps DEF S!NoSweep

LEMMA SessionsStay ==
    ASSUME ScratchInv, [S!Next]_supVars
    PROVE  SessionKeepsItsDirectory'
<1> USE DEF ScratchInv
<1> SUFFICES ASSUME NEW s \in Instances, NEW x \in Ids, held'[s][x] # "no", used'[x] = {s}
             PROVE  dir'[x] # Nothing /\ (held'[s][x] = "copied" => s \in dir'[x].copies)
    BY DEF SessionKeepsItsDirectory
<1>s. /\ held \in [Instances -> [Ids -> {"no", "made", "owned", "copied"}]]
      /\ dir \in [Ids -> S!Directory \cup {Nothing}]
      /\ dir' \in [Ids -> S!Directory \cup {Nothing}]
    BY DirectoriesStay DEF ScratchShapes, S!TypeOK
<1>1. CASE S!MakeDir(s, x)
    <2>1. /\ held' = [held EXCEPT ![s][x] = "made"]
          /\ dir' = [dir EXCEPT ![x] = IF dir[x] = Nothing THEN [owner |-> Nothing, copies |-> {}]
                                                          ELSE dir[x]]
        BY <1>1 DEF S!MakeDir
    <2>2. [owner |-> Nothing, copies |-> {}] # Nothing
        BY HostAssumption DEF S!Directory
    <2> QED BY <1>s, <2>1, <2>2
<1>2. CASE held[s][x] # "no"
    <2>1. s \in used[x] /\ used[x] = {s} /\ supStage[s] # "dead"
        BY <1>2, UsedSteps DEF Lives
    <2>2. dir[x] # Nothing /\ (held[s][x] = "copied" => s \in dir[x].copies)
        BY <1>2, <2>1 DEF SessionKeepsItsDirectory
    <2>3. ASSUME NEW t \in Instances, S!Remove(t), sweep[t].name = x PROVE FALSE
        BY <2>1, <2>3, HostAssumption DEF CondemnedForADeath
    <2>4. ASSUME NEW t \in Instances, S!Cleanup(t, x) PROVE FALSE
        <3>1. held[t][x] # "no" /\ held' = [held EXCEPT ![t][x] = "no"]
            BY <2>4 DEF S!Cleanup
        <3>2. t = s
            BY <2>1, <3>1 DEF Lives
        <3> QED BY <1>s, <3>1, <3>2
    <2>5. dir'[x] # Nothing /\ dir[x].copies \subseteq dir'[x].copies
        BY <2>2, <2>3, <2>4, DirectorySteps
    <2>6. ASSUME S!Copy(s, x) PROVE s \in dir'[x].copies
        <3>1. dir' = [dir EXCEPT ![x].copies = @ \cup {s}] /\ dir[x] \in S!Directory
            BY <1>s, <2>2, <2>6 DEF S!Copy
        <3>2. dir'[x] = [dir[x] EXCEPT !.copies = @ \cup {s}]
            BY <1>s, <3>1
        <3> QED BY <3>1, <3>2 DEF S!Directory
    <2> QED BY <2>2, <2>5, <2>6, SessionSteps DEF S!MakeDir
<1> QED BY <1>1, <1>2, SessionSteps DEF S!WriteOwner, S!Copy

LEMMA DoomedStay ==
    ASSUME ScratchInv, [S!Next]_supVars
    PROVE  DoomedAreInSight'
<1> USE DEF ScratchInv
<1> SUFFICES ASSUME NEW s \in Instances, NEW x \in doomed'[s]
             PROVE  \/ x \in stuck'[s]
                    \/ /\ supStage'[s] = "sweeping"
                       /\ dir'[x] # Nothing /\ ~ S!ParentAlive(dir[x].owner)'
                       /\ x \in sweep'[s].todo \/ x = sweep'[s].name
    BY DEF DoomedAreInSight
<1>s. /\ stuck \in [Instances -> SUBSET Ids] /\ sweep[s] \in SweepState
      /\ doomed \in [Instances -> SUBSET Ids] /\ doomed' \in [Instances -> SUBSET Ids]
      /\ dir \in [Ids -> S!Directory \cup {Nothing}]
      /\ supStage \in [Instances -> {"off", "launched", "sweeping", "serving", "leaving", "dead"}]
    BY ScratchShapesStay DEF ScratchShapes, S!TypeOK
<1>x. x \in Ids /\ x # Nothing
    BY <1>s, HostAssumption
<1>k. stuck[s] \subseteq stuck'[s]
    <2>1. stuck' = stuck \/ \E t \in Instances : stuck' = [stuck EXCEPT ![t] = @ \cup {sweep[t].name}]
        BY ScratchKinds DEF supVars, S!Die, S!SweepStep, S!BeginSweep, S!Judge, S!Remove, S!Serve,
            S!MakeDir, S!WriteOwner, S!Copy, S!Cleanup
    <2> QED BY <1>s, <2>1
<1>1. CASE UNCHANGED supVars
    BY <1>1 DEF supVars, DoomedAreInSight, S!ParentAlive, S!Up
<1>2. CASE S!Watch
    <2>1. doomed'[s] =
            CASE supStage'[s] = "sweeping" /\ supStage[s] = "launched" ->
                    {y \in Ids : dir[y] # Nothing /\ S!Dead(dir[y].owner)}
              [] supStage'[s] = "sweeping" /\ supStage[s] = "sweeping" ->
                    {y \in doomed[s] : dir'[y] = dir[y] /\ ~ S!ParentAlive(dir[y].owner)'}
              [] supStage'[s] = "serving" /\ supStage[s] = "sweeping" -> doomed[s]
              [] OTHER -> {}
        BY <1>2 DEF S!Watch
    <2>2. CASE supStage'[s] = "sweeping" /\ supStage[s] = "launched"
        <3>1. dir[x] # Nothing /\ S!Dead(dir[x].owner)
            BY <2>1, <2>2
        <3>2. S!BeginSweep(s) /\ supStage' = [supStage EXCEPT ![s] = "sweeping"]
            BY <2>2, SweepTurns
        <3>3. dir' = dir /\ supPid' = supPid
            BY <3>2 DEF S!BeginSweep
        <3>4. ~ S!ParentAlive(dir[x].owner)'
            BY <1>s, <2>2, <3>1, <3>2, <3>3 DEF S!Dead, S!ParentAlive, S!Up
        <3>5. sweep'[s].todo = {y \in Ids : dir[y] # Nothing}
            <4>1. sweep' = [sweep EXCEPT ![s].todo = {y \in Ids : dir[y] # Nothing}]
                BY <3>2 DEF S!BeginSweep
            <4> QED BY <4>1 DEF ScratchShapes, SweepState
        <3> QED BY <1>x, <2>2, <3>1, <3>3, <3>4, <3>5
    <2>3. CASE supStage'[s] = "sweeping" /\ supStage[s] = "sweeping"
        <3>1. x \in doomed[s] /\ dir'[x] = dir[x] /\ ~ S!ParentAlive(dir[x].owner)'
            BY <2>1, <2>3
        <3>2. CASE x \in stuck[s]
            BY <1>k, <3>2
        <3>3. CASE x \notin stuck[s]
            <4>1. /\ dir[x] # Nothing /\ ~ S!ParentAlive(dir[x].owner)
                  /\ x \in sweep[s].todo \/ x = sweep[s].name
                BY <3>1, <3>3 DEF DoomedAreInSight
            <4>2. ~ S!Die(s) /\ ~ S!BeginSweep(s)
                BY <1>s, <2>3 DEF S!Die, S!BeginSweep
            <4>3. ASSUME S!Remove(s), x = sweep[s].name PROVE x \in stuck'[s]
                BY <1>s, <1>x, <3>1, <4>1, <4>3 DEF S!Remove
            <4>4. x \in stuck'[s] \/ x \in sweep'[s].todo \/ x = sweep'[s].name
                BY <1>x, <4>1, <4>2, <4>3, SweepSteps
            <4> QED BY <2>3, <3>1, <4>1, <4>4
        <3> QED BY <3>2, <3>3
    <2>4. CASE supStage'[s] = "serving" /\ supStage[s] = "sweeping"
        <3>1. S!Serve(s) /\ x \in doomed[s]
            BY <2>1, <2>4, SweepTurns
        <3>2. sweep[s].todo = {} /\ sweep[s].name = Nothing
            BY <3>1 DEF S!Serve, S!NoSweep
        <3> QED BY <1>k, <1>x, <3>1, <3>2 DEF DoomedAreInSight
    <2> QED BY <2>1, <2>2, <2>3, <2>4
<1> QED BY <1>1, <1>2, ScratchKinds

LEMMA ScratchStays == ScratchInv /\ [S!Next]_supVars => ScratchInv'
BY ScratchShapesStay, LivesStay, OwnersStay, CondemnedStay, SessionsStay, DoomedStay
    DEF ScratchInv

LEMMA ScratchIsSafe == ScratchInv => S!TypeOK /\ S!CopyStays /\ S!SweepIsThorough
<1> SUFFICES ASSUME ScratchInv PROVE S!TypeOK /\ S!CopyStays /\ S!SweepIsThorough
    OBVIOUS
<1> USE DEF ScratchInv
<1>1. S!TypeOK
    BY DEF ScratchShapes
<1>2. S!CopyStays
    BY DEF S!CopyStays, SessionKeepsItsDirectory
<1>3. S!SweepIsThorough
    BY DEF S!SweepIsThorough, DoomedAreInSight
<1> QED BY <1>1, <1>2, <1>3

(* Who removes a directory under a session is another session of its name, *)
(* or a sweep with a verdict.                                              *)
LEMMA Sweepings ==
    ASSUME ScratchInv, [S!Next]_supVars
    PROVE  S!SweptForAReason
<1> USE DEF ScratchInv
<1> SUFFICES ASSUME NEW s \in Instances, NEW x \in Ids, held'[s][x] # "no",
                    dir[x] # Nothing, dir'[x] = Nothing
             PROVE  \/ \E t \in Instances \ {s} : held[t][x] # "no" /\ held'[t][x] = "no"
                    \/ \E t \in Instances : sweep[t].name = x /\ sweep[t].judged \in Pids
    BY DEF S!SweptForAReason
<1>1. ASSUME NEW t \in Instances, sweep[t].name = x PROVE sweep[t].judged \in Pids
    BY <1>1, HostAssumption DEF CondemnedForADeath
<1>2. ASSUME NEW t \in Instances, S!Cleanup(t, x)
      PROVE  t # s /\ held[t][x] # "no" /\ held'[t][x] = "no"
    <2>1. held[t][x] # "no" /\ held' = [held EXCEPT ![t][x] = "no"]
        BY <1>2 DEF S!Cleanup
    <2>2. held'[t][x] = "no"
        BY <2>1 DEF ScratchShapes, S!TypeOK
    <2> QED BY <2>1, <2>2
<1> QED BY <1>1, <1>2, DirectorySteps

-----------------------------------------------------------------------------
HostInv == RegistryInv /\ ScratchInv

LEMMA HostInductive == MCSpec => []HostInv
<1>1. MCInit => HostInv
    BY RegistryBegins, ScratchBegins DEF MCInit, HostInv
<1>2. [MCNext]_<<part, vars, supVars>> => [Next]_vars /\ [S!Next]_supVars
    BY DEF MCNext
<1>3. HostInv /\ [MCNext]_<<part, vars, supVars>> => HostInv'
    BY <1>2, RegistryStays, ScratchStays DEF HostInv
<1> QED BY <1>1, <1>3, PTL DEF MCSpec

(* What a read of the registry returns is what was there: everybody who    *)
(* was on record for as long as it took, unless the system hid him, and    *)
(* nobody who was dead before it began, unless his numbers were given out  *)
(* again (registry.py:26-28, read_all).                                    *)
THEOREM HostReadIsTrue == MCSpec => []ReadIsTrue
<1>1. HostInv => ReadIsTrue
    BY RegistryIsTrue DEF HostInv, ReadIsTrue
<1> QED BY HostInductive, <1>1, PTL

(* The private copy of a session stays for as long as the session has it,  *)
(* whatever other supervisors sweep, start and crash meanwhile, if nobody  *)
(* else used its id (sweep_stale_session_dirs).                            *)
THEOREM HostCopyStays == MCSpec => []CopyStays
<1>1. HostInv => CopyStays
    BY ScratchIsSafe DEF HostInv, CopyStays
<1> QED BY HostInductive, <1>1, PTL

(* What a crashed supervisor left is gone when the next one listens,       *)
(* unless the system refused to remove it.                                 *)
THEOREM HostSweepIsThorough == MCSpec => []SweepIsThorough
<1>1. HostInv => SweepIsThorough
    BY ScratchIsSafe DEF HostInv, SweepIsThorough
<1> QED BY HostInductive, <1>1, PTL

(* Nothing in use is removed but on a verdict that is out of date, or by   *)
(* somebody who uses it too: the record of a running window, by a reader   *)
(* that holds what the file said before; the directory of a session, by a  *)
(* sweep that read its owner when nobody had that pid.                     *)
THEOREM HostOnlyStaleVerdictsRemove == MCSpec => OnlyStaleVerdictsRemove
<1>1. HostInv /\ [MCNext]_<<part, vars, supVars>> =>
        [EvictedForAReason /\ S!SweptForAReason]_<<vars, supVars>>
    <2> SUFFICES ASSUME HostInv, [Next]_vars, [S!Next]_supVars
                 PROVE  EvictedForAReason /\ S!SweptForAReason
        BY DEF MCNext
    <2> QED BY Evictions, Sweepings DEF HostInv
<1> QED BY HostInductive, <1>1, PTL DEF MCSpec, OnlyStaleVerdictsRemove
=============================================================================
