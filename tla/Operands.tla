------------------------------ MODULE Operands ------------------------------
(* From the disassembler's operands to the strings a function builds on    *)
(* its stack: infrastructure/ida/instruction_decode_adapter.py,            *)
(* Operand.stack_slot and domain/services/stack_strings.py.                *)
(*                                                                         *)
(* What the disassembler has is a memory operand                           *)
(*   [base, index, disp, shown, size]                                      *)
(* (index and size may be None, size is in bytes) and the text it shows    *)
(* for it, a sequence of terms <<"word", name>> and <<"number", n>> that   *)
(* are added up; shown says whether the displacement is a number, the name *)
(* of a variable (a frame under rbp) or both (a frame under rsp).          *)
EXTENDS Integers, SequencesExt

CONSTANTS
    StackRegs,
    ByteBase,     \* values of a byte
    Printable,    \* the printable ones
    AddressSpace, \* displacements of the database's address width, 2^w
    AccessSpace,  \* those of a narrow operand's access width
    DefaultMin,   \* DEFAULT_MIN_LENGTH
    None

(* What the disassembler shows and hands out.                              *)
Text(o) ==
    <<<<"word", o.base>>>>
    \o (IF o.index # None THEN <<<<"word", o.index>>>> ELSE <<>>)
    \o (CASE o.shown = "name" -> <<<<"word", "var">>>>
          [] o.shown = "both" -> <<<<"number", 1>>, <<"word", "var">>>>
          [] o.disp # 0 -> <<<<"number", o.disp>>>>
          [] OTHER -> <<>>)

HasDisplacement(o) == o.disp # 0 \/ o.shown # "number"

Addr(o) == o.disp % AddressSpace

-----------------------------------------------------------------------------
(* The adapter.                                                            *)

(* A base, then a word, which is taken for an index, then a number: the    *)
(* pattern matches that and nothing else.                                  *)
ParseMem(text) ==
    LET word(i) == i \in DOMAIN text /\ text[i][1] = "word"
        b == IF word(1) THEN 1 ELSE 0
        i == IF b = 1 /\ word(2) THEN 2 ELSE b
        d == IF i + 1 \in DOMAIN text /\ text[i + 1][1] = "number" THEN i + 1 ELSE i
    IN  IF b = 0 \/ d # Len(text) THEN [base |-> None, index |-> None, disp |-> None]
        ELSE [base |-> text[1][2],
              index |-> IF i = 2 THEN text[2][2] ELSE None,
              disp |-> IF d > i THEN text[d][2] ELSE None]

Signed(v, space) ==
    LET u == v % space
    IN  IF 2 * u >= space THEN u - space ELSE u

(* Faulty: the displacement is signed at the operand's own width.          *)
MutDecode(o) ==
    LET parsed == ParseMem(Text(o))
    IN  [base |-> IF parsed.base # None THEN parsed.base ELSE o.base,
         index |-> parsed.index,
         disp |-> IF HasDisplacement(o) THEN Signed(Addr(o), AccessSpace)
                  ELSE IF parsed.disp # None THEN parsed.disp ELSE 0,
         size |-> o.size]

(* The base comes from the text, or else from the operand; an exact        *)
(* displacement always from the operand.                                   *)
Decode(o) ==
    LET parsed == ParseMem(Text(o))
    IN  [base |-> IF parsed.base # None THEN parsed.base ELSE o.base,
         index |-> parsed.index,
         disp |-> IF HasDisplacement(o) THEN Signed(Addr(o), AddressSpace)
                  ELSE IF parsed.disp # None THEN parsed.disp ELSE 0,
         size |-> o.size]

StackSlot(d) == IF d.base \in StackRegs /\ d.index = None THEN d.disp ELSE None

(* A function is a sequence of items [code, size] and begins at 0: what    *)
(* does not decode is stepped over, a byte at a time if it is no item.     *)
DecodeFunction(items) ==
    LET step(acc, item) ==
            [at |-> acc.at + IF item.size > 0 THEN item.size ELSE 1,
             out |-> IF item.code THEN Append(acc.out, acc.at) ELSE acc.out]
    IN  FoldLeft(step, [at |-> 0, out |-> <<>>], items).out

-----------------------------------------------------------------------------
(* The stack strings of a program of [mn, dest, write, imm, width] : an    *)
(* operand of memory, written or not, and the immediate (None if it is a   *)
(* register) with its own width.                                           *)

StoreMnemonics == {"mov", "movb", "movw", "movd", "movq"}

StoreWidth(insn) ==
    IF insn.dest.size # None THEN insn.dest.size
    ELSE IF insn.width # None THEN insn.width
    ELSE 1

LittleEndian(v, width) ==
    [k \in 1 .. width |-> (v \div ByteBase ^ (k - 1)) % ByteBase]

AsStore(insn, at) ==
    LET d == Decode(insn.dest)
    IN  IF insn.mn \notin StoreMnemonics \/ insn.imm = None
           \/ StackSlot(d) = None \/ ~ insn.write
        THEN None
        ELSE [base |-> d.base, disp |-> StackSlot(d), at |-> at,
              bytes |-> LittleEndian(insn.imm, StoreWidth(insn))]

(* Later stores win.                                                       *)
ByteMap(stores) ==
    LET span(s) == s.disp .. s.disp + Len(s.bytes) - 1
        lay(map, s) ==
            [p \in DOMAIN map \cup span(s) |->
                IF p \in span(s) THEN <<s.bytes[p - s.disp + 1], s.at>> ELSE map[p]]
    IN  FoldLeft(lay, <<>>, stores)

(* The printable runs of adjacent bytes, in order.                         *)
Runs(stores, threshold) ==
    LET map == ByteMap(stores)
        flush(acc) ==
            [acc EXCEPT !.run = <<>>,
                        !.out = IF Len(acc.run) < threshold THEN @
                                ELSE Append(@, acc.run)]
        take(acc, p) ==
            LET byte == map[p]
                kept == IF acc.prev = None \/ p = acc.prev + 1 THEN acc ELSE flush(acc)
            IN  IF byte[1] \in Printable THEN [kept EXCEPT !.run = Append(@, byte), !.prev = p]
                ELSE [flush(kept) EXCEPT !.prev = p]
    IN  flush(FoldLeft(take, [run |-> <<>>, out |-> <<>>, prev |-> None],
                       SetToSortSeq(DOMAIN map, <))).out

(* Each frame register has a frame of its own; a string is anchored at the *)
(* first of the instructions that wrote what is left of it.                *)
Detect(prog, min) ==
    LET threshold == IF min > 0 THEN min ELSE DefaultMin
        all == [k \in DOMAIN prog |-> AsStore(prog[k], k)]
        stores(b) == SelectSeq(all, LAMBDA s : s # None /\ s.base = b)
        report(run) == [at |-> Min({run[k][2] : k \in DOMAIN run}),
                        value |-> [k \in DOMAIN run |-> run[k][1]]]
    IN  UNION {{report(run) : run \in Range(Runs(stores(b), threshold))} :
                b \in {s.base : s \in Range(all) \ {None}}}

-----------------------------------------------------------------------------
(* Properties.                                                             *)

(* A name that the text shows is in the index's place or hides the index:  *)
(* the slot is lost, or an indexed access is taken for a slot.  The        *)
(* comment on the fallback (instruction_decode_adapter.py:177-182) has the *)
(* second form in mind, without an index.                                  *)
Misread(o) == \/ o.shown = "name" /\ o.index = None
              \/ o.shown # "number" /\ o.index # None

TrueSlot(o) == IF o.base \in StackRegs /\ o.index = None THEN o.disp ELSE None

(* The slot of an operand is the slot the disassembler meant: whatever its *)
(* access width, if the displacement fits the address width.               *)
SlotIsMeant(o) == IF Misread(o) THEN o.base \in StackRegs =>
                                        (StackSlot(Decode(o)) = None <=> o.index = None)
                  ELSE StackSlot(Decode(o)) = TrueSlot(o)

(* Every item that decodes is there, once and in order.                    *)
AllDecoded(items) ==
    LET length(i) == IF items[i].size > 0 THEN items[i].size ELSE 1
        start(i) == FoldLeft(+, 0, [j \in 1 .. i - 1 |-> length(j)])
        code == SetToSortSeq({i \in DOMAIN items : items[i].code}, <)
    IN  DecodeFunction(items) = [k \in DOMAIN code |-> start(code[k])]

(* What a frame holds when the program has run, by definition: the byte at *)
(* p is that of the last store that covers it.                             *)
Stores(prog, b) ==
    {k \in DOMAIN prog :
        /\ prog[k].mn \in StoreMnemonics /\ prog[k].imm # None /\ prog[k].write
        /\ prog[k].dest.base = b /\ TrueSlot(prog[k].dest) # None}

Covers(prog, k, p) == p - prog[k].dest.disp \in 0 .. StoreWidth(prog[k]) - 1

LastStore(prog, b, p) ==
    LET all == {k \in Stores(prog, b) : Covers(prog, k, p)}
    IN  IF all = {} THEN None ELSE CHOOSE k \in all : \A j \in all : j <= k

ByteAt(prog, b, p) ==
    LET k == LastStore(prog, b, p)
    IN  IF k = None THEN None
        ELSE LittleEndian(prog[k].imm, StoreWidth(prog[k]))[p - prog[k].dest.disp + 1]

(* The strings reported are the longest printable stretches of the frames  *)
(* as the program leaves them, no shorter than was asked for.              *)
StringsAreThere(prog, min, frame) ==
    (\A k \in DOMAIN prog : ~ Misread(prog[k].dest)) =>
    LET printable(b, p) == ByteAt(prog, b, p) \in Printable
        stretches(b) ==
            {r \in frame \X frame :
                /\ r[1] <= r[2]
                /\ \A p \in r[1] .. r[2] : printable(b, p)
                /\ ~ printable(b, r[1] - 1) /\ ~ printable(b, r[2] + 1)
                /\ r[2] - r[1] + 1 >= IF min > 0 THEN min ELSE DefaultMin}
        string(b, r) ==
            [at |-> Min({LastStore(prog, b, p) : p \in r[1] .. r[2]}),
             value |-> [k \in 1 .. r[2] - r[1] + 1 |-> ByteAt(prog, b, r[1] + k - 1)]]
    IN  Detect(prog, min) =
            UNION {{string(b, r) : r \in stretches(b)} : b \in StackRegs}
=============================================================================
