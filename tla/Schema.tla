------------------------------- MODULE Schema -------------------------------
(* What a tool says about its arguments and what it makes of them: the     *)
(* compiler of type hints into JSON Schema and coercers (interface/mcp/    *)
(* schema.py), the binding of a call's arguments and the shape of its      *)
(* result (interface/mcp/engine.py).                                       *)
(*                                                                         *)
(* A JSON value is a pair of its kind and its contents; <<"json", v>> is a *)
(* string that holds the JSON text of v, every other string is text that   *)
(* does not parse.  A "frac" is a float that is not integral.  A type is a *)
(* record with its kind in k, a schema a function from its keywords.       *)
EXTENDS Integers, SequencesExt

Null == <<"null">>

Bad == <<"bad">>

Text(v) == v[1] \in {"str", "json"}

-----------------------------------------------------------------------------
(* JSON Schema, as a client applies it.                                    *)

(* A number without a fraction is an integer, however it is written.       *)
Instance(v) ==
    CASE v[1] = "null" -> {"null"}
      [] v[1] = "bool" -> {"boolean"}
      [] v[1] \in {"int", "float"} -> {"integer", "number"}
      [] v[1] = "frac" -> {"number"}
      [] v[1] \in {"str", "json"} -> {"string"}
      [] v[1] = "arr" -> {"array"}
      [] v[1] = "obj" -> {"object"}

Number(v) == v[1] \in {"int", "float"}

RECURSIVE Valid(_, _)
Valid(s, v) ==
    LET has(key) == key \in DOMAIN s
        members == IF v[1] = "obj" THEN DOMAIN v[2] ELSE {}
    IN  /\ has("type") => s.type \cap Instance(v) # {}
        /\ has("enum") => \E e \in s.enum : e = v \/ (Number(e) /\ Number(v) /\ e[2] = v[2])
        /\ has("anyOf") => \E i \in DOMAIN s.anyOf : Valid(s.anyOf[i], v)
        /\ has("items") /\ v[1] = "arr" => \A i \in DOMAIN v[2] : Valid(s.items, v[2][i])
        /\ has("values") => \A key \in members : Valid(s.values, v[2][key])
        /\ has("properties") =>
            \A key \in members \cap DOMAIN s.properties : Valid(s.properties[key], v[2][key])
        /\ has("closed") => members \subseteq DOMAIN s.properties
        /\ has("required") /\ v[1] = "obj" => s.required \subseteq members

-----------------------------------------------------------------------------
(* The schema of a type, one adapter after the other.                      *)

Scalars == {"integer", "number", "string", "boolean", "null"}

Scalar(name) == [type |-> {name}]

Anything == [keyword \in {} |-> keyword]

(* Also null.  A choice of values cannot be widened in place.              *)
Nullable(s) ==
    IF DOMAIN s = {} THEN s
    ELSE IF "type" \in DOMAIN s /\ "enum" \notin DOMAIN s /\ s.type # {"null"}
    THEN [s EXCEPT !.type = @ \cup {"null"}]
    ELSE [anyOf |-> <<s, Scalar("null")>>]

(* A parameter or a field that may be left out because of its type.        *)
RECURSIVE Required(_)
Required(t) ==
    CASE t.k = "union" -> ~ t.null
      [] t.k = "annotated" -> Required(t.of)
      [] t.k = "wrapper" -> t.required
      [] OTHER -> TRUE

(* The types of the listed values, when they are all of one.               *)
LiteralSchema(t) ==
    LET kinds == {v[1] : v \in t.vals}
        all == [enum |-> t.vals]
    IN  CASE kinds = {"bool"} -> all @@ [type |-> {"boolean"}]
          [] kinds = {"int"} -> all @@ [type |-> {"integer"}]
          [] kinds \subseteq {"str", "json"} -> all @@ [type |-> {"string"}]
          [] OTHER -> all

UnionSchema(branches, null) ==
    IF Len(branches) = 1 THEN IF null THEN Nullable(branches[1]) ELSE branches[1]
    ELSE [anyOf |-> IF null THEN Append(branches, Scalar("null")) ELSE branches]

RequiredFields(t) == {key \in t.total : Required(t.fields[key])}

RecordSchema(t, properties) ==
    [type |-> {"object"}, properties |-> properties, closed |-> TRUE,
     required |-> RequiredFields(t)]

ListSchema(item) == [type |-> {"array"}, items |-> item]

MappingSchema(value) == [type |-> {"object"}, values |-> value]

RECURSIVE SchemaOf(_)
SchemaOf(t) ==
    CASE t.k = "any" -> Anything
      [] t.k \in {"annotated", "wrapper"} -> SchemaOf(t.of)
      [] t.k = "literal" -> LiteralSchema(t)
      [] t.k = "enum" -> [enum |-> t.vals]
      [] t.k = "union" -> UnionSchema([i \in DOMAIN t.members |-> SchemaOf(t.members[i])], t.null)
      [] t.k = "record" -> RecordSchema(t, [key \in DOMAIN t.fields |-> SchemaOf(t.fields[key])])
      [] t.k = "list" -> ListSchema(SchemaOf(t.of))
      [] t.k = "mapping" -> MappingSchema(SchemaOf(t.of))
      [] t.k \in Scalars -> Scalar(t.k)
      [] t.k = "other" -> Scalar("object")

-----------------------------------------------------------------------------
(* The coercer of a type: the value a tool is called with, or Bad.         *)

(* Some clients send an object or an array as a string.                    *)
Rescue(v) == IF v[1] = "json" THEN v[2] ELSE v

(* Faulty: a boolean is an integer, as it is to Python.                    *)
MutCoerceScalar(name, v) ==
    CASE name = "boolean" /\ v[1] = "bool" -> v
      [] name = "integer" /\ v[1] \in {"int", "bool"} -> v
      [] name = "number" /\ Number(v) -> <<"float", v[2]>>
      [] name = "number" /\ v[1] = "frac" -> v
      [] name = "string" /\ Text(v) -> v
      [] name = "null" /\ v = Null -> v
      [] OTHER -> Bad

(* An integer widens to a number, and a boolean is neither.                *)
CoerceScalar(name, v) ==
    CASE name = "boolean" /\ v[1] = "bool" -> v
      [] name = "integer" /\ v[1] = "int" -> v
      [] name = "number" /\ Number(v) -> <<"float", v[2]>>
      [] name = "number" /\ v[1] = "frac" -> v
      [] name = "string" /\ Text(v) -> v
      [] name = "null" /\ v = Null -> v
      [] OTHER -> Bad

CoerceLiteral(t, v) == IF v \in t.vals THEN v ELSE Bad

(* To Python a boolean is one of the numbers 0 and 1.                      *)
Same(v, w) ==
    LET number(x) == IF x[1] = "bool" THEN (IF x[2] THEN 1 ELSE 0) ELSE x[2]
        numeric(x) == x[1] \in {"bool", "int", "float"}
    IN  v = w \/ (numeric(v) /\ numeric(w) /\ number(v) = number(w))

CoerceEnum(t, v) ==
    IF \E e \in t.vals : Same(e, v) THEN CHOOSE e \in t.vals : Same(e, v) ELSE Bad

RECURSIVE Coerce(_, _)

(* The members in their order, then once more if a string can be parsed.   *)
FirstMember(types, v) ==
    LET works(w) == {i \in DOMAIN types : Coerce(types[i], w) # Bad}
        first(w) == Coerce(types[Min(works(w))], w)
    IN  IF works(v) # {} THEN first(v)
        ELSE IF v[1] = "json" /\ works(Rescue(v)) # {} THEN first(Rescue(v))
        ELSE Bad

(* A string is no rescued scalar: a single member is not tried again.      *)
CoerceUnion(t, v) ==
    IF t.null /\ v = Null THEN v
    ELSE IF Len(t.members) = 1 THEN Coerce(t.members[1], v)
    ELSE FirstMember(t.members, v)

Checked(kind, parts) ==
    IF \E key \in DOMAIN parts : parts[key] = Bad THEN Bad ELSE <<kind, parts>>

CoerceRecord(t, v) ==
    IF \/ v[1] # "obj"
       \/ ~ DOMAIN v[2] \subseteq DOMAIN t.fields
       \/ ~ RequiredFields(t) \subseteq DOMAIN v[2]
    THEN Bad
    ELSE Checked("obj", [key \in DOMAIN v[2] |-> Coerce(t.fields[key], v[2][key])])

CoerceList(t, v) ==
    IF v[1] # "arr" THEN Bad
    ELSE Checked("arr", [i \in DOMAIN v[2] |-> Coerce(t.of, v[2][i])])

CoerceMapping(t, v) ==
    IF v[1] # "obj" THEN Bad
    ELSE Checked("obj", [key \in DOMAIN v[2] |-> Coerce(t.of, v[2][key])])

Coerce(t, v) ==
    CASE t.k \in {"any", "other"} -> v
      [] t.k \in {"annotated", "wrapper"} -> Coerce(t.of, v)
      [] t.k = "literal" -> CoerceLiteral(t, v)
      [] t.k = "enum" -> CoerceEnum(t, v)
      [] t.k = "union" -> CoerceUnion(t, v)
      [] t.k = "record" -> CoerceRecord(t, Rescue(v))
      [] t.k = "list" -> CoerceList(t, Rescue(v))
      [] t.k = "mapping" -> CoerceMapping(t, Rescue(v))
      [] t.k \in Scalars -> CoerceScalar(t.k, v)

-----------------------------------------------------------------------------
(* A call.  A signature is a sequence of parameters [name, type, default]. *)

Param(sig, name) == sig[CHOOSE i \in DOMAIN sig : sig[i].name = name]

Names(sig) == {sig[i].name : i \in DOMAIN sig}

(* A default makes any parameter optional.                                 *)
RequiredParams(sig) ==
    {sig[i].name : i \in {j \in DOMAIN sig : Required(sig[j].type) /\ ~ sig[j].default}}

InputSchema(sig) ==
    [type |-> {"object"},
     properties |-> [name \in Names(sig) |-> SchemaOf(Param(sig, name).type)],
     closed |-> TRUE, required |-> RequiredParams(sig)]

(* Arguments come as an object, in order, or not at all.                   *)
Provided(sig, args) ==
    CASE args = Null -> <<"obj", <<>>>>
      [] args[1] = "obj" -> args
      [] args[1] = "arr" /\ Len(args[2]) <= Len(sig) ->
            <<"obj", [name \in {sig[i].name : i \in DOMAIN args[2]} |->
                        args[2][CHOOSE i \in DOMAIN sig : sig[i].name = name]]>>
      [] OTHER -> Bad

Bind(sig, args) ==
    LET given == Provided(sig, args)
    IN  IF \/ given = Bad
           \/ ~ DOMAIN given[2] \subseteq Names(sig)
           \/ ~ RequiredParams(sig) \subseteq DOMAIN given[2]
        THEN Bad
        ELSE Checked("obj", [name \in DOMAIN given[2] |->
                                Coerce(Param(sig, name).type, given[2][name])])

(* What is no object is wrapped in one: in what is announced by its type,  *)
(* in what is sent by its value.                                           *)
ObjectRooted(s) ==
    IF "type" \in DOMAIN s /\ s.type = {"object"} THEN s
    ELSE IF "anyOf" \in DOMAIN s /\ \A i \in DOMAIN s.anyOf :
                "type" \in DOMAIN s.anyOf[i] /\ s.anyOf[i].type = {"object"}
    THEN s @@ [type |-> {"object"}]
    ELSE [type |-> {"object"}, properties |-> [result |-> s], required |-> {"result"}]

ShapeResult(v) == IF v[1] = "obj" THEN v ELSE <<"obj", [result |-> v]>>

-----------------------------------------------------------------------------
(* Properties.                                                             *)

RECURSIVE Plain(_)
Plain(v) ==
    CASE v[1] = "float" -> FALSE
      [] v[1] = "arr" -> \A i \in DOMAIN v[2] : Plain(v[2][i])
      [] v[1] = "obj" -> \A key \in DOMAIN v[2] : Plain(v[2][key])
      [] OTHER -> TRUE

RECURSIVE Modelled(_)
Modelled(t) ==
    CASE t.k = "other" -> FALSE
      [] t.k \in {"annotated", "wrapper", "list", "mapping"} -> Modelled(t.of)
      [] t.k = "union" -> \A i \in DOMAIN t.members : Modelled(t.members[i])
      [] t.k = "record" -> \A key \in DOMAIN t.fields : Modelled(t.fields[key])
      [] OTHER -> TRUE

(* What a tool is called with is what its schema describes, and what the   *)
(* schema describes is accepted, except that an integral float is one of   *)
(* its integers and no integer of Python (schema.py:137-143).  A type no   *)
(* adapter knows is described as an object and let through.                *)
SchemaIsKept(t, v) == Modelled(t) =>
    /\ Coerce(t, v) # Bad => Valid(SchemaOf(t), Coerce(t, v))
    /\ Valid(SchemaOf(t), v) /\ Plain(v) => Coerce(t, v) # Bad

(* The same of the arguments together; those in order are not described.   *)
CallIsKept(sig, args) ==
    /\ Bind(sig, args) # Bad => Valid(InputSchema(sig), Bind(sig, args))
    /\ args[1] = "obj" /\ Valid(InputSchema(sig), args) /\ Plain(args) => Bind(sig, args) # Bad

(* The types no value of which may be an object or not be one.             *)
Settled(t) ==
    LET s == SchemaOf(t)
        object(b) == "type" \in DOMAIN b /\ b.type = {"object"}
        other(b) == "type" \in DOMAIN b /\ "object" \notin b.type
    IN  \/ object(s) \/ other(s)
        \/ /\ "anyOf" \in DOMAIN s
           /\ \/ \A i \in DOMAIN s.anyOf : object(s.anyOf[i])
              \/ \A i \in DOMAIN s.anyOf : other(s.anyOf[i])

(* A result has the shape that was announced, if its type says whether it  *)
(* is an object.  Of a type that does not, an object is sent as it is and  *)
(* announced in a wrapping.                                                *)
ResultIsAsAnnounced(t, v) ==
    Settled(t) /\ Valid(SchemaOf(t), v) => Valid(ObjectRooted(SchemaOf(t)), ShapeResult(v))
=============================================================================
