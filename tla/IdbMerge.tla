------------------------------ MODULE IdbMerge ------------------------------
(* One idb_merge (interface/router/merge.py), the idb_open calls whose     *)
(* baseline captures precede it (supervisor.py) and the worker side of its *)
(* two annotation tools (annotation_adapter.py), while agents go on editing*)
(* their copies and sessions are closed or die: the supervisor's HTTP      *)
(* transport serves every call on a thread of its own.                     *)
(*                                                                         *)
(* A signature is a pair <<regular, repeatable>>; names and prototypes use *)
(* the first slot only.  A call to a worker may fail at any time, and one  *)
(* that timed out may have done its work all the same.                     *)
EXTENDS Reconciliation, FiniteSets

CONSTANTS
    Sids,       \* sessions of the worker pool
    Adopted,    \* GUI instances, discovered and not spawned
    NoText,     \* an empty comment slot
    NoSid,      \* an omitted session id
    NoBaseline, \* idb_open has captured nothing (yet)
    Shas, Bases,\* the sha256 and image bases an export may report
    Pristine,   \* the annotations a fresh analysis may leave
    Requests,   \* the arguments idb_merge may be called with
    Batch,      \* _APPLY_BATCH_ITEMS
    MaxEdits    \* bound: edits of agents in a run

Copies == Sids \cup Adopted

Signature(r, p) == <<r, p>>

ASSUME IdsAreDistinct ==
    Sids \cap Adopted = {} /\ NoSid \notin Copies /\ NoBaseline \notin Data
ASSUME BatchAssumption == Batch \in Nat \ {0}
ASSUME PristineAssumption == Pristine \subseteq Data
ASSUME RequestsAssumption == Requests \subseteq
    [sources : Seq(Copies), into : Copies \cup {NoSid}, policy : Policies,
     prefer : Copies \cup {NoSid}, fields : SUBSET Fields,
     dryRun : BOOLEAN, useBaseline : BOOLEAN]

VARIABLES
    open,       \* the sessions the pool and the discovery still list
    db,         \* the annotations of every copy
    prov,       \* the provenance every copy exports
    capturing,  \* sessions whose idb_open has not returned
    baseline,   \* session.baseline_record
    edited,     \* history: the keys agents edited in each copy
    late,       \* history: those edited since the merge began
    pc,         \* where the merge stands
    args,       \* its arguments
    req,        \* what it hands to reconcile
    unreachable,\* the sources whose export failed
    target,     \* the session it writes to
    todo,       \* the items of the merged record still to be applied
    failures,   \* the items the target refused
    snapshot    \* "none", "written" or "skipped"

worker == <<open, db, prov, capturing, baseline, edited, late>>
merge == <<pc, args, req, unreachable, target, todo, failures, snapshot>>
vars == <<worker, merge>>

\* The model stops where the merge returns: bounds a run to one merge.
Ended == pc \in {"refused", "error", "report", "done"}

Items == Copies \X Fields \X Keys

NoRequest == [sources |-> <<>>, into |-> NoSid, policy |-> "manual",
    prefer |-> NoSid, fields |-> Fields, dryRun |-> FALSE, useBaseline |-> TRUE]

Asking(a) == [records |-> <<>>, baselines |-> <<>>, shared |-> NoRecord,
    policy |-> a.policy, prefer |-> a.prefer, fields |-> a.fields]

Init ==
    /\ open = Copies
    /\ db \in [Copies -> Pristine]
    /\ prov \in [Copies -> [sha : Shas, imagebase : Bases]]
    /\ capturing = Sids
    /\ baseline = [s \in Sids |-> NoBaseline]
    /\ edited = {} /\ late = {}
    /\ pc = "idle" /\ args = NoRequest /\ req = Asking(NoRequest)
    /\ unreachable = {} /\ target = NoSid
    /\ todo = {} /\ failures = {} /\ snapshot = "none"

-----------------------------------------------------------------------------
(* Around the merge.                                                       *)

(* export_annotations: the record a copy would export now.                 *)
Export(c) == [sha |-> prov[c].sha, imagebase |-> prov[c].imagebase, data |-> db[c]]

(* An agent sets an annotation of a copy, or clears it.                    *)
AgentEdit(c, f, k, v) ==
    /\ ~Ended /\ c \in open
    /\ Cardinality(edited) + Cardinality(late) < MaxEdits
    /\ v # db[c][f][k]
    /\ db' = [db EXCEPT ![c][f][k] = v]
    /\ edited' = edited \cup {<<c, f, k>>}
    /\ late' = IF pc = "idle" THEN late ELSE late \cup {<<c, f, k>>}
    /\ UNCHANGED <<open, prov, capturing, baseline, merge>>

(* idb_close, a worker that died and was reaped, an IDA that was quit.     *)
SessionGone(c) ==
    /\ ~Ended /\ c \in open
    /\ open' = open \ {c}
    /\ capturing' = capturing \ {c}
    /\ UNCHANGED <<db, prov, baseline, edited, late, merge>>

(* The end of idb_open: the baseline is an export made after the session   *)
(* was listed.  Retries are one outcome or the other.                      *)
Capture(s) ==
    /\ ~Ended /\ s \in capturing
    /\ capturing' = capturing \ {s}
    /\ baseline' = [baseline EXCEPT ![s] = db[s]]
    /\ UNCHANGED <<open, db, prov, edited, late, merge>>

CaptureFails(s) ==
    /\ ~Ended /\ s \in capturing
    /\ capturing' = capturing \ {s}
    /\ UNCHANGED <<open, db, prov, baseline, edited, late, merge>>

-----------------------------------------------------------------------------
(* The merge.                                                              *)

EndAs(outcome) ==
    /\ pc' = outcome
    /\ UNCHANGED <<worker, args, req, unreachable, target, todo, failures, snapshot>>

SourceIds(a) == {a.sources[i] : i \in DOMAIN a.sources}

(* Sources are open pool workers, every one of them, and prefer is one.    *)
(* A 'path' stands for the sequence of the open copies it matches.         *)
Admissible(a) ==
    /\ a.sources # <<>>
    /\ SourceIds(a) \subseteq open \cap Sids
    /\ a.policy = "prefer" => a.prefer \in SourceIds(a)

Start(a) ==
    /\ pc = "idle"
    /\ args' = a
    /\ req' = Asking(a)
    /\ pc' = IF Admissible(a) THEN "export" ELSE "refused"
    /\ UNCHANGED <<worker, unreachable, target, todo, failures, snapshot>>

Asked == Len(req.records) + Cardinality(unreachable)

Source == args.sources[Asked + 1]

ExportOk ==
    /\ pc = "export" /\ Asked < Len(args.sources)
    /\ Source \in open
    /\ req' = [req EXCEPT !.records = Append(@, [sid |-> Source, rec |-> Export(Source)])]
    /\ UNCHANGED <<worker, pc, args, unreachable, target, todo, failures, snapshot>>

(* Faulty: a source that cannot be reached is asked again.                 *)
MutExportFails ==
    /\ pc = "export" /\ Asked < Len(args.sources)
    /\ UNCHANGED vars

(* Faulty: the positions of failed exports are counted from zero.          *)
MutExportFailsAtZero ==
    /\ pc = "export" /\ Asked < Len(args.sources)
    /\ unreachable' = unreachable \cup {Asked}
    /\ UNCHANGED <<worker, pc, args, req, target, todo, failures, snapshot>>

(* The failure is noted, and the next source is asked all the same.        *)
ExportFails ==
    /\ pc = "export" /\ Asked < Len(args.sources)
    /\ unreachable' = unreachable \cup {Asked + 1}
    /\ UNCHANGED <<worker, pc, args, req, target, todo, failures, snapshot>>

(* Faulty: merges what could be exported.                                  *)
MutExportsEnd ==
    /\ pc = "export" /\ Asked = Len(args.sources)
    /\ pc' = IF req.records # <<>> THEN "reconcile" ELSE "refused"
    /\ UNCHANGED <<worker, args, req, unreachable, target, todo, failures, snapshot>>

(* Every source was asked; one missing export refuses the merge.           *)
ExportsEnd ==
    /\ pc = "export" /\ Asked = Len(args.sources)
    /\ pc' = IF unreachable = {} THEN "reconcile" ELSE "refused"
    /\ UNCHANGED <<worker, args, req, unreachable, target, todo, failures, snapshot>>

Captured == {s \in SourceIds(args) : baseline[s] # NoBaseline}

(* The pristine baselines, read from the sessions after the exports.       *)
GatherBaselines ==
    [s \in IF args.useBaseline THEN Captured ELSE {} |->
        [sha |-> prov[s].sha, imagebase |-> prov[s].imagebase, data |-> baseline[s]]]

BaselineMissing == args.useBaseline /\ Captured # SourceIds(args)

(* The items of the merged record.                                         *)
Planned(r) == {c \in Fields \X Keys : Plan(r)[c[1]][c[2]] # NoValue}

ReconcileSources ==
    /\ pc = "reconcile"
    /\ req' = [req EXCEPT !.baselines = GatherBaselines]
    /\ pc' = CASE ~ProvenanceAgrees(req') \/ BaselineMissing -> "refused"
               [] args.dryRun -> "report"
               [] Unresolved(req') # {} -> "refused"
               [] OTHER -> "target"
    /\ UNCHANGED <<worker, args, unreachable, target, todo, failures, snapshot>>

(* The one known value of an attribute among the sources' records.         *)
Agreed(values) ==
    IF values \subseteq {Unknown} THEN Unknown
    ELSE CHOOSE v \in values : v # Unknown

AgreedSha == Agreed({req.records[i].rec.sha : i \in DOMAIN req.records})
AgreedBase == Agreed({req.records[i].rec.imagebase : i \in DOMAIN req.records})

ShaConfirmed(t) == AgreedSha # Unknown /\ prov[t].sha = AgreedSha
BaseKnown(t) == Unknown \notin {AgreedBase, prov[t].imagebase}
BaseConfirmed(t) == BaseKnown(t) /\ prov[t].imagebase = AgreedBase

(* Faulty: a target without a sha256 passes on its image base.             *)
MutVerified(t) ==
    \/ t \in SourceIds(args)
    \/ /\ prov[t].sha # Unknown => ShaConfirmed(t)
       /\ BaseKnown(t) => BaseConfirmed(t)

(* A source is trusted; another target has to match whatever the sources   *)
(* know, and on one attribute at least.                                    *)
Verified(t) ==
    \/ t \in SourceIds(args)
    \/ /\ AgreedSha # Unknown => ShaConfirmed(t)
       /\ BaseKnown(t) => BaseConfirmed(t)
       /\ ShaConfirmed(t) \/ BaseConfirmed(t)

Wanted == IF args.into = NoSid THEN args.sources[1] ELSE args.into

(* The target is found: a source, even if it went away meanwhile, or a     *)
(* session still listed.                                                   *)
Found == Wanted \in SourceIds(args) \cup open

AcceptTarget ==
    /\ pc = "target"
    /\ Found /\ Verified(Wanted)
    /\ target' = Wanted
    /\ todo' = Planned(req)
    /\ pc' = "apply"
    /\ UNCHANGED <<worker, args, req, unreachable, failures, snapshot>>

(* Not found, not verified, or its export failed.                          *)
RefuseTarget ==
    /\ pc = "target"
    /\ Wanted \notin SourceIds(args)
    /\ EndAs("refused")

(* A slot that is empty in the incoming signature keeps its old text.      *)
Written(old, new) ==
    IF old = NoValue THEN new
    ELSE Signature(IF new[1] = NoText THEN old[1] ELSE new[1],
                   IF new[2] = NoText THEN old[2] ELSE new[2])

ASSUME ValuesArePairs == \A v \in Values : v = Signature(v[1], v[2])
ASSUME ValuesClosed == \A v, w \in Values : Written(v, w) \in Values

(* The target after it has installed the items of S.                       *)
Install(S) ==
    [db EXCEPT ![target] = [f \in Fields |-> [k \in Keys |->
        IF <<f, k>> \in S THEN Written(db[target][f][k], Plan(req)[f][k])
                          ELSE db[target][f][k]]]]

(* _split_wire: at most Batch items a call, all of them in the end.        *)
Chunks == {C \in SUBSET todo :
    Cardinality(C) = IF Cardinality(todo) < Batch THEN Cardinality(todo) ELSE Batch}

(* Faulty: the last chunk is sent only when it is full.                    *)
MutApplyChunk(C, refused) ==
    /\ pc = "apply"
    /\ C \in Chunks /\ refused \subseteq C
    /\ target \in open
    /\ db' = Install(C \ refused)
    /\ todo' = todo \ C
    /\ failures' = failures \cup refused
    /\ pc' = IF Cardinality(todo') < Batch THEN "snapshot" ELSE "apply"
    /\ UNCHANGED <<open, prov, capturing, baseline, edited, late,
                   args, req, unreachable, target, snapshot>>

(* One apply_annotations call: an item the database refuses is collected   *)
(* and the others are written.  The last answer ends the loop.             *)
ApplyChunk(C, refused) ==
    /\ pc = "apply"
    /\ C \in Chunks /\ refused \subseteq C
    /\ target \in open
    /\ db' = Install(C \ refused)
    /\ todo' = todo \ C
    /\ failures' = failures \cup refused
    /\ pc' = IF todo' = {} THEN "snapshot" ELSE "apply"
    /\ UNCHANGED <<open, prov, capturing, baseline, edited, late,
                   args, req, unreachable, target, snapshot>>

(* The call failed; on a timeout the worker may have written the chunk.    *)
ApplyFails(C) ==
    /\ pc = "apply"
    /\ C \in Chunks \cup {{}}
    /\ C # {} => target \in open
    /\ db' = Install(C)
    /\ pc' = "error"
    /\ UNCHANGED <<open, prov, capturing, baseline, edited, late,
                   args, req, unreachable, target, todo, failures, snapshot>>

(* Adopted is whatever pool.get does not return, asked at this moment.     *)
IsAdopted(t) == t \notin open \cap Sids

SnapshotWritten ==
    /\ pc = "snapshot"
    /\ ~IsAdopted(target)
    /\ snapshot' = "written"
    /\ pc' = "done"
    /\ UNCHANGED <<worker, args, req, unreachable, target, todo, failures>>

SnapshotSkipped ==
    /\ pc = "snapshot"
    /\ IsAdopted(target)
    /\ snapshot' = "skipped"
    /\ pc' = "done"
    /\ UNCHANGED <<worker, args, req, unreachable, target, todo, failures>>

SnapshotFails ==
    /\ pc = "snapshot"
    /\ target \in Sids
    /\ EndAs("error")

MergeStep ==
    \/ ExportOk \/ ExportFails \/ ExportsEnd
    \/ ReconcileSources
    \/ AcceptTarget \/ RefuseTarget
    \/ \E C \in SUBSET todo : \E R \in SUBSET C : ApplyChunk(C, R)
    \/ \E C \in SUBSET todo : ApplyFails(C)
    \/ SnapshotWritten \/ SnapshotSkipped \/ SnapshotFails

Next ==
    \/ \E c \in Copies, f \in Fields, k \in Keys, v \in Values \cup {NoValue} :
            AgentEdit(c, f, k, v)
    \/ \E c \in Copies : SessionGone(c)
    \/ \E s \in Sids : Capture(s) \/ CaptureFails(s)
    \/ \E a \in Requests : Start(a)
    \/ MergeStep

Spec == Init /\ [][Next]_vars

(* Every worker call of a merge has a timeout.                             *)
FairSpec == Spec /\ WF_vars(MergeStep)

-----------------------------------------------------------------------------
TypeOK ==
    /\ open \subseteq Copies
    /\ db \in [Copies -> Data]
    /\ prov \in [Copies -> [sha : Shas, imagebase : Bases]]
    /\ capturing \subseteq Sids
    /\ baseline \in [Sids -> Data \cup {NoBaseline}]
    /\ edited \subseteq Items /\ late \subseteq Items
    /\ pc \in {"idle", "export", "reconcile", "target", "apply", "snapshot",
               "refused", "error", "report", "done"}
    /\ args \in Requests \cup {NoRequest}
    /\ target \in Copies \cup {NoSid}
    /\ unreachable \subseteq DOMAIN args.sources
    /\ todo \subseteq Fields \X Keys /\ failures \subseteq Fields \X Keys
    /\ snapshot \in {"none", "written", "skipped"}

Writing == pc \in {"apply", "snapshot", "done"}

SameBinary(c, d) ==
    /\ Unknown \in {prov[c].sha, prov[d].sha} \/ prov[c].sha = prov[d].sha
    /\ Unknown \in {prov[c].imagebase, prov[d].imagebase}
          \/ prov[c].imagebase = prov[d].imagebase

(* Annotations are keyed by address: a merge only writes into a copy of    *)
(* the binary of every source, and a target that is no source has the      *)
(* sha256 the sources know, known to itself.                               *)
NoCrossBinaryWrite == Writing => \A s \in SourceIds(args) :
    /\ SameBinary(s, target)
    /\ target \in SourceIds(args) \/ prov[s].sha \in {Unknown, prov[target].sha}

(* The old text of a slot is kept or the new one stands there.             *)
Covers(stored, v) ==
    /\ stored # NoValue
    /\ \A slot \in {1, 2} : v[slot] \in {NoText, stored[slot]}

IsEdit(s, f, k) ==
    /\ db[s][f][k] # NoValue
    /\ args.useBaseline => db[s][f][k] # baseline[s][f][k]

(* A merge that says ok has lost nobody's work: what a source holds beyond *)
(* its baseline is in the target or in a reported conflict, whatever       *)
(* failed, in however many calls (keys edited during the merge aside).     *)
OkMergeKeepsEveryEdit == pc = "done" /\ failures = {} =>
    \A s \in SourceIds(args), f \in args.fields, k \in Keys :
        IsEdit(s, f, k) =>
            \/ Covers(db[target][f][k], db[s][f][k])
            \/ <<f, k>> \in Conflicts(req)
            \/ {<<s, f, k>>, <<target, f, k>>} \cap late # {}

(* The report of an applied merge is true: what is not listed as a failure *)
(* is in the target, every chunk of it.                                    *)
ReportedAsAppliedIsThere == pc = "done" =>
    \A c \in Planned(req) \ failures :
        \/ Covers(db[target][c[1]][c[2]], Plan(req)[c[1]][c[2]])
        \/ <<target, c[1], c[2]>> \in late

(* Whatever the policy, a merge into one of its sources changes that       *)
(* source's own edits only where it reports a conflict.                    *)
TargetKeepsItsEdits == target \in SourceIds(args) =>
    \A i \in DOMAIN req.records, f \in Fields, k \in Keys :
        /\ req.records[i].sid = target
        /\ f \in args.fields => i \in Contributors(req, f, k)
        => \/ db[target][f][k] = ValueOf(req, i, f, k)
           \/ <<f, k>> \in Conflicts(req)
           \/ <<target, f, k>> \in late

(* Every merge returns its report or its refusal.                          *)
MergeEnds == pc = "export" ~> Ended

(* supervisor.py:257: the captured baseline is unedited auto-analysis.     *)
CapturedBeforeAnyEdit == [][\A s \in Sids : baseline'[s] # baseline[s] =>
    ~\E f \in Fields, k \in Keys : <<s, f, k>> \in edited]_vars

(* merge.py:176: only an instance that was discovered, not spawned, is     *)
(* adopted, so only its snapshot is skipped.                               *)
OnlyAdoptedSkipsSnapshot == snapshot = "skipped" => target \in Adopted
=============================================================================
