------------------------------- MODULE Lookups -------------------------------
(* The filters and the bounds of the tools that look something up:         *)
(* domain/query/predicate.py, what func_query, insn_query, xref_query and  *)
(* entity_query build of it, and the ways a listing is cut at its limit    *)
(* (type_query, search_structs, xrefs_to, callees, find_bytes, search_text *)
(* and disasm).  How the queries walk their repositories is in Sweeps.     *)
(*                                                                         *)
(* A value is <<"text", sequence of letters>>, <<"num", n>>, <<"bool", b>> *)
(* or <<"set", S>>; a letter is a string, a capital one has its small one  *)
(* in Small.                                                               *)
EXTENDS Integers, SequencesExt

CONSTANTS
    Small,    \* a function from capital letters to small ones
    Canonical \* canonical_reg: a function from registers to their families

Fold(text) == [k \in DOMAIN text |-> IF text[k] \in DOMAIN Small THEN Small[text[k]] ELSE text[k]]

(* A name of blanks only is no filter.                                     *)
Blank(text) == \A k \in DOMAIN text : text[k] = " "

Strip(text) ==
    LET kept == {k \in DOMAIN text : text[k] # " "}
    IN  IF kept = {} THEN <<>> ELSE SubSeq(text, Min(kept), Max(kept))

Within(needle, hay) ==
    \E i \in 0 .. Len(hay) - Len(needle) : SubSeq(hay, i + 1, i + Len(needle)) = needle

Equal(v, w) ==
    IF v[1] = "text" /\ w[1] = "text" THEN Fold(v[2]) = Fold(w[2])
    ELSE v[1] = w[1] /\ v[2] = w[2]

Truthy(v) ==
    CASE v[1] = "bool" -> v[2]
      [] v[1] = "num" -> v[2] # 0
      [] v[1] = "text" -> v[2] # <<>>
      [] v[1] = "set" -> v[2] # {}

(* FieldPredicate.evaluate, for the operators in use: what does not apply  *)
(* does not hold.                                                          *)
Holds(p, features) ==
    /\ p.field \in DOMAIN features
    /\ LET v == features[p.field]
       IN  CASE p.op = "true" -> Truthy(v)
             [] p.op = "false" -> ~ Truthy(v)
             [] p.op = "contains" -> v[1] = "text" /\ p.operand[1] = "text"
                                        /\ Within(Fold(p.operand[2]), Fold(v[2]))
             [] p.op = "has" -> v[1] = "set" /\ p.operand \in v[2]
             [] p.op = "eq" -> Equal(v, p.operand)
             [] p.op = "ge" -> v[1] = "num" /\ p.operand[1] = "num" /\ v[2] >= p.operand[2]
             [] p.op = "le" -> v[1] = "num" /\ p.operand[1] = "num" /\ v[2] <= p.operand[2]

Matches(query, features) == \A p \in query : Holds(p, features)

Predicate(field, op, operand) == [field |-> field, op |-> op, operand |-> operand]

-----------------------------------------------------------------------------
(* The queries: their commands, the filters they make, the features of     *)
(* what they look at.                                                      *)

FlagPredicate(field, wanted) ==
    CASE wanted = "any" -> {}
      [] wanted = "yes" -> {Predicate(field, "true", <<>>)}
      [] wanted = "no" -> {Predicate(field, "false", <<>>)}

(* The needle of a name is not stripped.                                   *)
NamePredicate(name) ==
    IF Blank(name) THEN {} ELSE {Predicate("name", "contains", <<"text", name>>)}

FuncQuery(c) ==
    NamePredicate(c.name)
    \cup (IF c.min > 0 THEN {Predicate("size", "ge", <<"num", c.min>>)} ELSE {})
    \cup (IF c.max > 0 THEN {Predicate("size", "le", <<"num", c.max>>)} ELSE {})
    \cup FlagPredicate("is_library", c.library)
    \cup FlagPredicate("is_thunk", c.thunk)

FuncFeatures(f) ==
    [name |-> <<"text", f.name>>, size |-> <<"num", f.size>>,
     is_library |-> <<"bool", f.library>>, is_thunk |-> <<"bool", f.thunk>>]

(* A mnemonic is stripped and compared, a register by its family.          *)
InsnQuery(c) ==
    (IF Blank(c.mnemonic) THEN {}
     ELSE {Predicate("mnemonic", "eq", <<"text", Strip(c.mnemonic)>>)})
    \cup (IF c.kind = "any" THEN {} ELSE {Predicate("operand_kinds", "has", c.kind)})
    \cup (IF c.reg = "" THEN {} ELSE {Predicate("regs", "has", Canonical[c.reg])})

(* An instruction is [mnemonic, ops], an operand [kind, regs].             *)
InsnFeatures(i) ==
    [mnemonic |-> <<"text", i.mnemonic>>,
     operand_kinds |-> <<"set", {i.ops[k].kind : k \in DOMAIN i.ops}>>,
     regs |-> <<"set", UNION {{Canonical[r] : r \in i.ops[k].regs} : k \in DOMAIN i.ops}>>]

EqualityPredicate(field, wanted) ==
    IF wanted = "any" THEN {} ELSE {Predicate(field, "eq", <<"text", <<wanted>>>>)}

XrefQuery(c) == EqualityPredicate("kind", c.kind) \cup EqualityPredicate("type", c.type)

XrefFeatures(x) == [kind |-> <<"text", <<x.kind>>>>, type |-> <<"text", <<x.type>>>>]

Clamp(limit, most) == IF limit < 0 THEN 0 ELSE IF limit > most THEN most ELSE limit

-----------------------------------------------------------------------------
(* The ways to cut what there is, all, at limit.                           *)

FirstOf(all, n) == SubSeq(all, 1, Min({n, Len(all)}))

(* One row more is fetched and cut off again.                              *)
Probed(all, limit) ==
    LET rows == FirstOf(all, limit + 1)
    IN  [rows |-> FirstOf(rows, limit), truncated |-> Len(rows) > limit]

(* All are at hand.                                                        *)
Cut(all, limit) == [rows |-> FirstOf(all, limit), truncated |-> Len(all) > limit]

(* Those that match are taken until there is one too many.                 *)
Filtered(all, matching, limit) ==
    LET take(acc, x) ==
            IF acc.truncated \/ x \notin matching THEN acc
            ELSE IF Len(acc.rows) >= limit THEN [acc EXCEPT !.truncated = TRUE]
            ELSE [acc EXCEPT !.rows = Append(@, x)]
    IN  FoldLeft(take, [rows |-> <<>>, truncated |-> FALSE], all)

(* The search stops when it has enough and does not look further.          *)
Stopped(all, limit) ==
    LET rows == FirstOf(all, limit)
    IN  [rows |-> rows, truncated |-> limit > 0 /\ Len(rows) >= limit]

(* The lines of a listing from an item on, to the end of its segment, none *)
(* (0) when it has none.                                                   *)
Disassemble(items, segment, count) ==
    LET before(i) == FoldLeft(+, 0, [k \in 1 .. i - 1 |-> items[k]])
        here == {i \in DOMAIN items : segment > 0 => before(i) < segment}
    IN  Stopped([k \in 1 .. Cardinality(here) |-> before(k)], count)

-----------------------------------------------------------------------------
(* Properties.                                                             *)

(* Filters only ever narrow: a flag's two values share out what is found   *)
(* without it, a band of sizes is where two half bands meet, and neither   *)
(* the case of a letter nor the alias of a register makes a difference.    *)
FuncFiltersAgree(c, f) ==
    LET found(d) == Matches(FuncQuery(d), FuncFeatures(f))
    IN  /\ found([c EXCEPT !.library = "any"]) <=>
                (found([c EXCEPT !.library = "yes"]) \/ found([c EXCEPT !.library = "no"]))
        /\ ~ (found([c EXCEPT !.thunk = "yes"]) /\ found([c EXCEPT !.thunk = "no"]))
        /\ found(c) <=> found([c EXCEPT !.min = 0]) /\ found([c EXCEPT !.max = 0])
        /\ c.max > 0 /\ c.min > c.max => ~ found(c)
        /\ found(c) <=> found([c EXCEPT !.name = Fold(@)])

InsnFiltersAgree(c, i) ==
    LET found(d) == Matches(InsnQuery(d), InsnFeatures(i))
        kinds == {i.ops[k].kind : k \in DOMAIN i.ops}
    IN  /\ \A r \in DOMAIN Canonical :
            c.reg # "" /\ Canonical[r] = Canonical[c.reg] => (found(c) <=> found([c EXCEPT !.reg = r]))
        /\ kinds # {} => (found([c EXCEPT !.kind = "any"]) <=>
                            \E k \in kinds : found([c EXCEPT !.kind = k]))
        /\ found(c) <=> found([c EXCEPT !.mnemonic = Fold(Strip(@))])

XrefFiltersAgree(c, x) ==
    LET found(d) == Matches(XrefQuery(d), XrefFeatures(x))
    IN  /\ found([c EXCEPT !.kind = "any"]) <=> \E k \in {"code", "data"} : found([c EXCEPT !.kind = k])
        /\ found(c) <=> found([c EXCEPT !.kind = "any"]) /\ found([c EXCEPT !.type = "any"])

(* However a listing is cut it is the beginning of what there is, all of   *)
(* it if it does not say otherwise and something was asked for; those that *)
(* look one further say so exactly when there is more.                     *)
BoundsAreHonest(all, limit) ==
    LET even == {x \in Range(all) : x % 2 = 0}
        exact == {<<Probed(all, limit), all>>, <<Cut(all, limit), all>>,
                  <<Filtered(all, even, limit), SelectSeq(all, LAMBDA x : x \in even)>>}
        bounded == exact \cup {<<Stopped(all, limit), all>>}
    IN  /\ \A c \in bounded : c[1].rows = FirstOf(c[2], limit)
                              /\ (limit > 0 /\ ~ c[1].truncated => c[1].rows = c[2])
        /\ \A c \in exact : c[1].truncated <=> Len(c[2]) > limit

(* A disassembly ends where its segment does, or says that it was cut.     *)
ListingIsWhole(items, segment, count) ==
    LET listing == Disassemble(items, segment, count)
        last == listing.rows[Len(listing.rows)]
    IN  segment > 0 /\ count > 0 /\ ~ listing.truncated =>
            Len(listing.rows) = Len(items) \/ last + items[Len(listing.rows)] >= segment
=============================================================================
