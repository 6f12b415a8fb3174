------------------------------ MODULE Readings ------------------------------
(* What the tools read at an address: the selectors of                     *)
(* domain/values/address.py, get_bytes, get_int, get_string and            *)
(* get_global_value (application/contexts/memory.py), read_struct, and     *)
(* int_convert (domain/services/number.py).                                *)
(*                                                                         *)
(* The memory is a function from the loaded addresses to bytes.  A reading *)
(* that raises is None.                                                    *)
EXTENDS Integers, SequencesExt

CONSTANTS
    ByteBits, \* the bits of a byte
    Invalid,  \* INVALID_EA
    MaxRead,  \* MAX_GET_BYTES
    Ceiling,  \* _DEFAULT_STRING_CEILING
    MaxBits,  \* MAX_BITS
    Scalars,  \* the widths that are shown as a number
    None

ByteBase == 2 ^ ByteBits

-----------------------------------------------------------------------------
(* Selectors: [form, n] is "hex" (0x...), "dec", "bare" (hex digits that   *)
(* are no decimal ones), "negative", "empty" or "name", where n is what is *)
(* named; symbols binds names to addresses.                                *)

Kind(sel) ==
    CASE sel.form = "hex" -> "hex"
      [] sel.form = "dec" -> "dec"
      [] sel.form = "empty" -> None
      [] OTHER -> "symbol"

Address(n) == IF n \in 0 .. Invalid - 1 THEN n ELSE None

(* Hex digits alone are a symbol.                                          *)
Resolve(sel, symbols) ==
    CASE Kind(sel) \in {"hex", "dec"} -> Address(sel.n)
      [] Kind(sel) = "symbol" ->
            IF <<sel.form, sel.n>> \in DOMAIN symbols THEN Address(symbols[<<sel.form, sel.n>>]) ELSE None
      [] OTHER -> None

-----------------------------------------------------------------------------
(* Reading.                                                                *)

(* All of the bytes or none; a size of 0 or less raises.                   *)
ReadBytes(memory, ea, size) ==
    IF ea = None \/ size <= 0 \/ ~ (ea .. ea + size - 1 \subseteq DOMAIN memory) THEN None
    ELSE [k \in 1 .. size |-> memory[ea + k - 1]]

GetBytes(memory, ea, size) == IF size > MaxRead THEN None ELSE ReadBytes(memory, ea, size)

FromBytes(bytes, order, signed) ==
    LET big == IF order = "big" THEN bytes ELSE Reverse(bytes)
        u == FoldLeft(LAMBDA acc, byte : acc * ByteBase + byte, 0, big)
        space == ByteBase ^ Len(bytes)
    IN  IF signed /\ 2 * u >= space THEN u - space ELSE u

(* Faulty: the bytes are always read as on a little-endian machine.        *)
MutGetInt(memory, order, ea, size, signed) ==
    IF ReadBytes(memory, ea, size) = None THEN None
    ELSE FromBytes(ReadBytes(memory, ea, size), "little", signed)

GetInt(memory, order, ea, size, signed) ==
    IF ReadBytes(memory, ea, size) = None THEN None
    ELSE FromBytes(ReadBytes(memory, ea, size), order, signed)

(* A defined literal, cut at the ceiling, or else the bytes up to a NUL;   *)
(* neither is None.  A literal that is empty is none.                      *)
ReadString(memory, literals, ea, most) ==
    LET ceiling == IF most <= 0 THEN Ceiling ELSE most
        ends == {k \in 0 .. ceiling - 1 : ea + k \notin DOMAIN memory \/ memory[ea + k] = 0}
        length == IF ends = {} THEN ceiling ELSE Min(ends)
    IN  IF ea \in DOMAIN literals /\ literals[ea] # <<>>
        THEN SubSeq(literals[ea], 1, Min({ceiling, Len(literals[ea])}))
        ELSE IF length = 0 THEN None
        ELSE [k \in 1 .. length |-> memory[ea + k - 1]]

GetString(memory, literals, ea, most) ==
    IF ea = None THEN None ELSE ReadString(memory, literals, ea, most)

-----------------------------------------------------------------------------
(* Structures: the disassembler has a member's offset and size in bits and *)
(* its type's size in bytes, None if that is not known; whole is the size  *)
(* of the structure, None if it is not known.                              *)

MemberSize(m) == IF m.declared # None /\ m.declared > 0 THEN m.declared
                 ELSE IF m.bits > 0 THEN m.bits \div ByteBits ELSE 0

Layout(struct) ==
    [size |-> IF struct.whole = None THEN 0 ELSE struct.whole,
     fields |-> [k \in DOMAIN struct.members |->
                    [offset |-> struct.members[k].offset \div ByteBits,
                     size |-> MemberSize(struct.members[k]),
                     number |-> struct.members[k].number]]]

(* A field is <<"number", value>> or <<"bytes", bytes>>; what is beyond    *)
(* the structure's end is missing.                                         *)
RenderField(data, field, order) ==
    LET chunk == SubSeq(data, field.offset + 1, Min({field.offset + field.size, Len(data)}))
    IN  IF field.number /\ field.size \in Scalars /\ Len(chunk) = field.size
        THEN <<"number", FromBytes(chunk, order, FALSE)>>
        ELSE <<"bytes", chunk>>

ReadStruct(memory, order, ea, struct) ==
    LET data == ReadBytes(memory, ea, Layout(struct).size)
    IN  IF data = None THEN None
        ELSE [k \in DOMAIN struct.members |-> RenderField(data, Layout(struct).fields[k], order)]

-----------------------------------------------------------------------------
(* Numbers: a token is [signs, form, n], its signs, whether its digits are *)
(* "dec", "hex", "bin", "oct" or a quoted "char", and what they say.       *)

(* A second sign is left to "int", which takes one before decimal digits.  *)
Parse(token) ==
    LET sign(k) == IF k \in DOMAIN token.signs /\ token.signs[k] = "-" THEN -1 ELSE 1
    IN  IF \/ token.form = "empty" \/ Len(token.signs) > 2
           \/ Len(token.signs) = 2 /\ token.form # "dec"
        THEN None
        ELSE sign(1) * sign(2) * token.n

Convert(token, bits) ==
    LET modulus == 2 ^ bits
        unsigned == Parse(token) % modulus
    IN  IF bits \notin 1 .. MaxBits \/ Parse(token) = None THEN None
        ELSE [decimal |-> Parse(token), unsigned |-> unsigned,
              signed |-> IF 2 * unsigned >= modulus THEN unsigned - modulus ELSE unsigned]

-----------------------------------------------------------------------------
(* Properties.                                                             *)

(* A shown address leads back to itself whatever is named, and nothing     *)
(* resolves to the address that is none.                                   *)
SelectorsAreClear(sel, symbols) ==
    /\ Resolve(sel, symbols) # None => Resolve(sel, symbols) \in 0 .. Invalid - 1
    /\ Resolve(sel, symbols) # None =>
        Resolve([form |-> "hex", n |-> Resolve(sel, symbols)], symbols) = Resolve(sel, symbols)

(* The tools that read the same bytes say the same of them: the integer in *)
(* either sign, its bytes in either order, its conversion, a field that is *)
(* shown as a number, and a string that is not longer than was asked for.  *)
ReadingsAgree(memory, order, ea, size, most) ==
    LET bytes == ReadBytes(memory, ea, size)
        unsigned == GetInt(memory, order, ea, size, FALSE)
        signed == GetInt(memory, order, ea, size, TRUE)
        space == ByteBase ^ size
        text == GetString(memory, <<>>, ea, most)
    IN  /\ bytes # None =>
            /\ unsigned \in 0 .. space - 1 /\ signed \in -(space \div 2) .. space \div 2 - 1
            /\ (unsigned - signed) % space = 0
            /\ bytes[IF order = "big" THEN size ELSE 1] = unsigned % ByteBase
            /\ \A s \in {<<>>, <<"+">>} :
                Convert([signs |-> s, form |-> "hex", n |-> unsigned], ByteBits * size).signed = signed
        /\ bytes = None => unsigned = None /\ signed = None
        /\ text # None =>
            /\ text = ReadBytes(memory, ea, Len(text))
            /\ most > 0 => Len(text) <= most
            /\ \A k \in DOMAIN text : text[k] # 0

FieldsAreRead(memory, order, ea, struct) ==
    LET fields == ReadStruct(memory, order, ea, struct)
        layout == Layout(struct)
    IN  fields # None => \A k \in DOMAIN fields :
            fields[k][1] = "number" =>
                fields[k][2] = GetInt(memory, order, ea + layout.fields[k].offset,
                                      layout.fields[k].size, FALSE)

(* A conversion is one of the parsed integer, in both signs, and undone by *)
(* converting what it says.                                                *)
ConversionsAgree(token, bits) ==
    LET c == Convert(token, bits)
        again(n) == Convert([signs |-> IF n < 0 THEN <<"-">> ELSE <<>>, form |-> "dec",
                             n |-> IF n < 0 THEN -n ELSE n], bits)
    IN  c # None =>
            /\ c.unsigned \in 0 .. 2 ^ bits - 1
            /\ 2 * c.signed \in -(2 ^ bits) .. 2 ^ bits - 1
            /\ (c.decimal - c.unsigned) % 2 ^ bits = 0 /\ (c.decimal - c.signed) % 2 ^ bits = 0
            /\ \A n \in {c.unsigned, c.signed} :
                again(n).unsigned = c.unsigned /\ again(n).signed = c.signed
=============================================================================
