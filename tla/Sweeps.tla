------------------------------- MODULE Sweeps -------------------------------
(* The use cases that walk a whole repository under a budget: find_regex,  *)
(* lookup_funcs, func_query, imports_query and entity_query,               *)
(* find_dangerous_callers, detect_vulns, detect_stack_strings,             *)
(* trace_source_to_sink and find_crypto.                                   *)
(*                                                                         *)
(* They are one nest of loops, over sources, pages, items and the hits of  *)
(* an item, and differ in where they stop and in what they then say.  An   *)
(* item is the sequence of its hits (matches, call sites, functions that   *)
(* call it, strings, paths, addresses); one that is filtered out, or fails *)
(* to decode, has none.  A step takes one page, item or hit.               *)
EXTENDS Integers, SequencesExt

CONSTANTS
    Kinds,     \* the use cases
    Hits,      \* matches, sites, functions, strings, paths, addresses
    Repos,     \* what the repositories hold: sequences of sequences of items
    Limits,    \* the clamped budgets; those of detect_vulns and
               \* detect_stack_strings are constants and not 0
    PageSize,  \* items in a page: MAX_COUNT
    PageCap,   \* pages a walk may take: _MAX_PAGES
    Functions, \* functions a sweep may decode: MAX_SCAN_FUNCTIONS
    QueryScan  \* items a query may look at: MAX_*_QUERY_SCAN

AllKinds == {"regex", "lookup", "query", "callers", "vulns", "strings", "taint", "crypto"}

VARIABLES
    kind, repo, limit,  \* which use case, over what, with which budget
    source, offset,     \* where the walk is
    page, length,       \* what is left of the page, and how long it was
    pages, scanned,     \* what has been walked
    rest,               \* the hits of the item that have not been taken
    found, truncated,   \* the result
    stage               \* "fetch", "page", "item" or "done"

request == <<kind, repo, limit>>
vars == <<request, source, offset, page, length, pages, scanned, rest, found,
          truncated, stage>>

Init ==
    /\ kind \in Kinds /\ repo \in Repos /\ limit \in Limits
    /\ kind # "query" => Len(repo) = 1
    /\ kind \in {"vulns", "strings"} => limit > 0
    /\ source = 1 /\ offset = 0 /\ page = <<>> /\ length = 0
    /\ pages = 0 /\ scanned = 0
    /\ rest = <<>> /\ found = <<>> /\ truncated = FALSE /\ stage = "fetch"

(* The signatures find_crypto goes through are not paged.                  *)
Paged == kind # "crypto"

Bounded == kind \in {"strings", "taint"}

CountsPages == kind \in {"callers", "vulns", "strings", "taint"}

Full == Len(found) >= limit

(* The walk ends, and says so if flag is set.                              *)
End(flag) ==
    /\ stage' = "done"
    /\ truncated' = (truncated \/ flag)
    /\ UNCHANGED <<request, source, offset, page, length, pages, scanned, rest, found>>

(* The end of one source is the beginning of the next.                     *)
NextSource ==
    \/ /\ source = Len(repo)
       /\ End(FALSE)
    \/ /\ source < Len(repo)
       /\ source' = source + 1
       /\ offset' = 0 /\ scanned' = 0 /\ page' = <<>> /\ length' = 0 /\ rest' = <<>>
       /\ stage' = "fetch"
       /\ UNCHANGED <<request, pages, found, truncated>>

ScanEnded ==
    \/ CountsPages /\ pages >= PageCap
    \/ Bounded /\ scanned >= Functions

(* Only detect_vulns says so when its walk ends on the number of pages.    *)
StopScanning ==
    /\ stage = "fetch" /\ ScanEnded
    /\ End(kind = "vulns")

PageAt(n) ==
    IF Paged THEN SubSeq(repo[source], n + 1, Min({n + PageSize, Len(repo[source])}))
    ELSE repo[source]

Fetch ==
    /\ stage = "fetch" /\ ~ ScanEnded
    /\ PageAt(offset) # <<>>
    /\ page' = PageAt(offset) /\ length' = Len(PageAt(offset))
    /\ stage' = "page"
    /\ UNCHANGED <<request, source, offset, pages, scanned, rest, found, truncated>>

FetchNothing ==
    /\ stage = "fetch" /\ ~ ScanEnded
    /\ PageAt(offset) = <<>>
    /\ NextSource

(* Some look at the budget before they look at an item.                    *)
StopBeforeItem ==
    /\ stage = "page" /\ page # <<>>
    /\ \/ Bounded /\ scanned >= Functions
       \/ kind \in {"taint", "crypto"} /\ Full
    /\ End(TRUE)

TakeItem ==
    /\ stage = "page" /\ page # <<>>
    /\ Bounded => scanned < Functions
    /\ kind \in {"taint", "crypto"} => ~ Full
    /\ page' = Tail(page)
    /\ rest' = Head(page)
    /\ scanned' = scanned + 1
    /\ stage' = "item"
    /\ UNCHANGED <<request, source, offset, length, pages, found, truncated>>

TakeHit ==
    /\ stage = "item" /\ rest # <<>> /\ ~ Full
    /\ kind = "vulns" => ~ Contains(found, Head(rest))
    /\ found' = Append(found, Head(rest))
    /\ rest' = Tail(rest)
    /\ UNCHANGED <<request, source, offset, page, length, pages, scanned, truncated, stage>>

(* A function that calls several dangerous imports is analysed once.       *)
SkipSeen ==
    /\ stage = "item" /\ rest # <<>>
    /\ kind = "vulns" /\ Contains(found, Head(rest))
    /\ rest' = Tail(rest)
    /\ UNCHANGED <<request, source, offset, page, length, pages, scanned, found,
                   truncated, stage>>

(* One hit too many: find_regex is silent about it when it was asked for   *)
(* none.                                                                   *)
StopAtHit ==
    /\ stage = "item" /\ rest # <<>> /\ Full
    /\ kind = "vulns" => ~ Contains(found, Head(rest))
    /\ End(kind = "regex" => limit > 0)

(* After an item detect_stack_strings and find_crypto stop at a budget     *)
(* that is just full, the queries at their ceiling.                        *)
ItemEnds ==
    /\ stage = "item" /\ rest = <<>>
    /\ IF kind \in {"strings", "crypto"} /\ Full THEN End(TRUE)
       ELSE IF kind = "query" /\ scanned >= QueryScan THEN NextSource
       ELSE /\ stage' = "page"
            /\ UNCHANGED <<request, source, offset, page, length, pages, scanned,
                           rest, found, truncated>>

(* Faulty: a page is the last one when the next would not be full.         *)
MutLastPage == offset + 2 * PageSize > Len(repo[source])

(* The last page is a short one, if nothing says that there is more.       *)
LastPage ==
    \/ ~ Paged
    \/ /\ length < PageSize
       /\ kind \in {"regex", "lookup"} \/ offset + PageSize >= Len(repo[source])

PageEnds ==
    /\ stage = "page" /\ page = <<>>
    /\ IF LastPage THEN NextSource
       ELSE /\ offset' = offset + length
            /\ pages' = pages + 1
            /\ stage' = "fetch"
            /\ UNCHANGED <<request, source, page, length, scanned, rest, found, truncated>>

Next ==
    \/ StopScanning \/ Fetch \/ FetchNothing
    \/ StopBeforeItem \/ TakeItem
    \/ TakeHit \/ SkipSeen \/ StopAtHit
    \/ ItemEnds \/ PageEnds

Spec == Init /\ [][Next]_vars

-----------------------------------------------------------------------------
(* Properties.                                                             *)

TypeOK ==
    /\ kind \in Kinds /\ repo \in Repos /\ limit \in Limits
    /\ source \in DOMAIN repo /\ offset \in Nat /\ length \in 0 .. Len(repo[source])
    /\ page \in Seq(Seq(Hits)) /\ rest \in Seq(Hits) /\ found \in Seq(Hits)
    /\ pages \in Nat /\ scanned \in Nat
    /\ truncated \in BOOLEAN
    /\ stage \in {"fetch", "page", "item", "done"}

(* A query looks at the beginning of every source, and goes on to the next *)
(* without a word (entity_query.py:160-161).                               *)
Reach(s) == {i \in DOMAIN repo[s] : kind = "query" => i <= QueryScan}

(* Where the hits within reach are, in the order they are walked; of those *)
(* that are the same detect_vulns wants the first.                         *)
Places == UNION {UNION {{<<s, i, h>> : h \in DOMAIN repo[s][i]} : i \in Reach(s)} :
                    s \in DOMAIN repo}

HitAt(p) == repo[p[1]][p[2]][p[3]]

Before(p, q) ==
    \/ p[1] < q[1]
    \/ p[1] = q[1] /\ p[2] < q[2]
    \/ p[1] = q[1] /\ p[2] = q[2] /\ p[3] < q[3]

Due == {p \in Places : kind = "vulns" =>
            \A q \in Places : Before(q, p) => HitAt(q) # HitAt(p)}

Nth(p) == Cardinality({q \in Due : Before(q, p)}) + 1

(* What was found is the beginning of what there is to find: however the   *)
(* pages, sources and ceilings fall, no hit is skipped and none repeated,  *)
(* and no more are returned than the budget allows.                        *)
FoundInOrder ==
    /\ Len(found) <= Cardinality(Due) /\ Len(found) <= limit
    /\ \A p \in Due : Nth(p) <= Len(found) => found[Nth(p)] = HitAt(p)

Complete == Len(found) = Cardinality(Due)

(* What ends a walk early without a word: the page ceiling of              *)
(* find_dangerous_callers, though its docstring has it told                *)
(* (find_dangerous_callers.py:71-73), and a find_regex asked for nothing.  *)
CeilingHit ==
    \/ kind = "callers" /\ pages >= PageCap
    \/ kind = "regex" /\ limit = 0

(* A result that does not say it is truncated has all that is in reach.    *)
SilentMeansComplete == stage = "done" /\ ~ truncated /\ ~ CeilingHit => Complete

(* A truncated result left something out (find_regex.py:39-40 and          *)
(* detect_vulns.py:131-133 promise so).  The sweeps over the functions and *)
(* the signatures are left out: they say so when they stop early.          *)
TruncatedMeansMore ==
    /\ stage = "done" /\ truncated
    /\ ~ Bounded /\ Paged
    /\ ~ (kind = "vulns" /\ pages >= PageCap)
    => ~ Complete
=============================================================================
