----------------------------- MODULE MCIdbMerge -----------------------------
(* Two private copies and one adopted IDA; one comment field.              *)
EXTENDS IdbMerge, SequencesExt

CONSTANTS s1, s2, g, x

Uniform(v) == [f \in Fields |-> [k \in Keys |-> v]]

\* One text in either slot or in both: closed under the overlay of slots.
MCValues == {Signature(x, NoText), Signature(NoText, x), Signature(x, x)}

Blank == {Uniform(NoValue)}

\* An analysis leaves a comment everywhere or none.
TwoAnalyses == Blank \cup {Uniform(Signature(x, NoText))}

AllRequests(ids, intos, policies, prefers, drys, bases) ==
    [sources : BoundedSeq(ids, 2), into : intos, policy : policies,
     prefer : prefers, fields : {Fields}, dryRun : drys, useBaseline : bases]

\* Two sources in one order or a single one, merged into anything.
EditRequests ==
    {r \in AllRequests({s1, s2}, {s1, s2, g}, {"manual", "last", "prefer"},
                       {s1}, {FALSE}, BOOLEAN) :
        r.sources \in {<<s1>>, <<s1, s2>>} /\ r.useBaseline = (r.policy # "last")}

\* What decides which binaries meet, and every early way out: no source, closed,
\* repeated and adopted ones, dry runs.
GateRequests ==
    {r \in AllRequests(Copies, {NoSid, s2, g}, {"first"}, {NoSid}, BOOLEAN, BOOLEAN) :
        /\ r.sources \in {<<>>, <<g>>, <<s1>>, <<s1, s2>>, <<s1, s1>>}
        /\ r.useBaseline = (Len(r.sources) = 1)
        /\ r.dryRun => r.into = NoSid}

\* Raw exports: a plan of every key without a single edit.
ChunkRequests ==
    {r \in EditRequests : r.policy = "last" /\ r.sources = <<s1, s2>> /\ r.into = g}

ReportRequests == GateRequests \cup ChunkRequests

FindingRequests == {r \in EditRequests : r.policy = "manual"}

\* Blank analyses of any provenance; or one binary, and comments on every key of
\* the copies that are merged into one without.
MCInit ==
    /\ Init
    /\ \/ db \in [Copies -> Blank]
       \/ /\ \A c \in Copies : db[c] \in Blank <=> c = g
          /\ \A c \in Copies : prov[c] = prov[g] /\ prov[g].sha # Unknown

MCFairSpec == MCInit /\ [][Next]_vars /\ WF_vars(MergeStep)
=============================================================================
