-------------------------- MODULE Reconciliation --------------------------
(* The pure core of idb_merge: domain/services/reconciliation.py.          *)
(*                                                                         *)
(* A record is one copy's exported annotations.  Its data maps every field *)
(* and key to a signature; NoValue stands for an absent key and for an     *)
(* empty signature alike, since both are skipped.  A request is            *)
(*   records    a sequence of [sid, rec], in contribution order,           *)
(*   baselines  a function from some session ids to their pristine records,*)
(*   shared     the record subtracted from sources without a baseline,     *)
(*   policy, prefer, fields.                                               *)
EXTENDS Integers, Sequences

CONSTANTS Fields, Keys, Values, NoValue,
          Unknown  \* a provenance attribute the exporter could not determine

ASSUME NoValueAssumption == NoValue \notin Values

Policies == {"manual", "first", "last", "prefer"}

Data == [Fields -> [Keys -> Values \cup {NoValue}]]

EmptyData == [f \in Fields |-> [k \in Keys |-> NoValue]]

NoRecord == [sha |-> Unknown, imagebase |-> Unknown, data |-> EmptyData]

(* Each source is measured against its own baseline when it has one.       *)
BaselineOf(req, id) ==
    IF id \in DOMAIN req.baselines THEN req.baselines[id] ELSE req.shared

ValueOf(req, i, f, k) == req.records[i].rec.data[f][k]

(* Faulty: nothing is subtracted.                                          *)
MutNoSubtraction(req, f, k) ==
    {i \in DOMAIN req.records : ValueOf(req, i, f, k) # NoValue}

(* The sources that really edited a key: a non-empty signature that is not *)
(* the one of the source's baseline.                                       *)
Contributors(req, f, k) ==
    {i \in DOMAIN req.records :
        /\ ValueOf(req, i, f, k) # NoValue
        /\ ValueOf(req, i, f, k) # BaselineOf(req, req.records[i].sid).data[f][k]}

Offered(req, f, k) == {ValueOf(req, i, f, k) : i \in Contributors(req, f, k)}

Earliest(S) == CHOOSE i \in S : \A j \in S : i <= j

Latest(S) == CHOOSE i \in S : \A j \in S : i >= j

Preferred(req, f, k) ==
    {i \in Contributors(req, f, k) : req.records[i].sid = req.prefer}

(* A divergence is decided by the policy, or left to the reviewer.         *)
Resolve(req, f, k) ==
    LET C == Contributors(req, f, k)
        P == Preferred(req, f, k)
    IN  CASE req.policy = "first" -> ValueOf(req, Earliest(C), f, k)
          [] req.policy = "last" -> ValueOf(req, Latest(C), f, k)
          [] req.policy = "prefer" /\ P # {} -> ValueOf(req, Earliest(P), f, k)
          [] OTHER -> NoValue

Diverges(req, f, k) == \E v, w \in Offered(req, f, k) : v # w

(* NoValue: nothing is written at this key.                                *)
PlanValue(req, f, k) ==
    IF Contributors(req, f, k) = {} THEN NoValue
    ELSE IF Diverges(req, f, k) THEN Resolve(req, f, k)
    ELSE ValueOf(req, Earliest(Contributors(req, f, k)), f, k)

Plan(req) ==
    [f \in Fields |-> [k \in Keys |->
        IF f \in req.fields THEN PlanValue(req, f, k) ELSE NoValue]]

(* Faulty: only the divergences left open are reported.                    *)
MutReportsOpenOnly(req) ==
    {c \in req.fields \X Keys :
        Diverges(req, c[1], c[2]) /\ Resolve(req, c[1], c[2]) = NoValue}

(* Every divergence is reported, whether the policy decides it or not.     *)
Conflicts(req) == {c \in req.fields \X Keys : Diverges(req, c[1], c[2])}

Unresolved(req) == {c \in Conflicts(req) : Resolve(req, c[1], c[2]) = NoValue}

(* The candidate map of a conflict: a session's last value stands.         *)
Candidates(req, f, k) ==
    LET C == Contributors(req, f, k)
        of(id) == {i \in C : req.records[i].sid = id}
    IN  [id \in {req.records[i].sid : i \in C} |-> ValueOf(req, Latest(of(id)), f, k)]

(* At most one known sha256 and one known image base among all records and *)
(* baselines; an unknown one agrees with everything.                       *)
AllRecords(req) ==
    {req.records[i].rec : i \in DOMAIN req.records}
        \cup {req.baselines[id] : id \in DOMAIN req.baselines}
        \cup {req.shared}

ProvenanceAgrees(req) == \A r, s \in AllRecords(req) :
    /\ Unknown \in {r.sha, s.sha} \/ r.sha = s.sha
    /\ Unknown \in {r.imagebase, s.imagebase} \/ r.imagebase = s.imagebase

-----------------------------------------------------------------------------
(* What the plan promises, for one request.                                *)

(* Nothing is invented: a planned value is some source's own edit, never   *)
(* its pristine auto-analysis.                                             *)
PlanOnlyHasEdits(req) == \A f \in Fields, k \in Keys :
    Plan(req)[f][k] # NoValue =>
        \E i \in DOMAIN req.records :
            /\ ValueOf(req, i, f, k) = Plan(req)[f][k]
            /\ BaselineOf(req, req.records[i].sid).data[f][k] # Plan(req)[f][k]

(* Nothing is dropped in silence: an edit of a selected field is planned   *)
(* or stands among the candidates of a reported conflict.                  *)
EveryEditAccounted(req) == \A f \in req.fields, k \in Keys :
    \A i \in Contributors(req, f, k) :
        \/ Plan(req)[f][k] = ValueOf(req, i, f, k)
        \/ /\ <<f, k>> \in Conflicts(req)
           /\ req.records[i].sid \in DOMAIN Candidates(req, f, k)

(* Under manual no side is taken.                                          *)
ManualTakesNoSide(req) == req.policy = "manual" =>
    \A f \in Fields, k \in Keys : Plan(req)[f][k] # NoValue =>
        \A i \in Contributors(req, f, k) : ValueOf(req, i, f, k) = Plan(req)[f][k]

Reversed(req) == [req EXCEPT !.records = [i \in DOMAIN @ |-> @[Len(@) + 1 - i]]]

(* The records' order matters to first and last only, which mirror each    *)
(* other; for the other policies the sources must be distinct sessions.    *)
OrderMatters(req) ==
    LET against(p) == Plan([Reversed(req) EXCEPT !.policy = p])
    IN  CASE req.policy = "first" -> Plan(req) = against("last")
          [] req.policy = "last" -> Plan(req) = against("first")
          [] OTHER -> Plan(req) = against(req.policy) \/ \E i, j \in DOMAIN req.records :
                            i # j /\ req.records[i].sid = req.records[j].sid

(* What a source exports when the plan has been applied to it.             *)
Overlaid(req, i) == [f \in Fields |-> [k \in Keys |->
    IF Plan(req)[f][k] = NoValue THEN ValueOf(req, i, f, k) ELSE Plan(req)[f][k]]]

Applied(req, i) == [req EXCEPT !.records[i].rec.data = Overlaid(req, i)]

(* A merge into one of its sources writes nothing new when it is repeated. *)
RepeatIsIdle(req) == \A i \in DOMAIN req.records : \A f \in Fields, k \in Keys :
    Plan(Applied(req, i))[f][k] \in {NoValue, Overlaid(req, i)[f][k]}

PlanIsSound(req) ==
    /\ PlanOnlyHasEdits(req) /\ EveryEditAccounted(req) /\ ManualTakesNoSide(req)
    /\ OrderMatters(req) /\ RepeatIsIdle(req)
=============================================================================
