-------------------------------- MODULE Wire --------------------------------
(* The document an annotation record travels in, from the worker that      *)
(* exports it to the one that applies it:                                  *)
(* application/annotation_wire.py.                                         *)
(*                                                                         *)
(* A value of the document is <<"int", n>>, <<"digits", n>> (a string that *)
(* int takes), <<"str", text>>, <<"bool", b>> or <<"null">>.  A list is a  *)
(* sequence of rows: functions from field names to values, or Junk for     *)
(* what is no object.  A document is a function from its fields to lists,  *)
(* or to Junk.                                                             *)
EXTENDS Integers, SequencesExt

CONSTANTS Junk, None

Fields == {"names", "comments", "prototypes"}

(* What holds the text of a row.                                           *)
TextOf == [names |-> "name", prototypes |-> "type"]

-----------------------------------------------------------------------------
(* Parsing.                                                                *)

Get(row, field) == IF field \in DOMAIN row THEN row[field] ELSE <<"null">>

OptInt(v) == IF v[1] \in {"int", "digits"} THEN v[2] ELSE None

(* What is false, and what is missing, is the empty text; anything else is *)
(* rendered.                                                               *)
TextIn(row, field) ==
    LET v == Get(row, field)
    IN  IF v \in {<<"null">>, <<"bool", FALSE>>, <<"int", 0>>} THEN "" ELSE v[2]

Entries(doc, field) ==
    IF field \notin DOMAIN doc \/ doc[field] = Junk THEN <<>>
    ELSE SelectSeq(doc[field], LAMBDA row : row # Junk)

(* The row of each key that stands: the last one that has it.              *)
KeyOf(field, row) ==
    LET ea == OptInt(Get(row, "ea"))
    IN  IF field = "comments" THEN <<ea, TextIn(row, "scope")>> ELSE ea

Rows(doc, field) ==
    LET keyed == SelectSeq(Entries(doc, field), LAMBDA row : OptInt(Get(row, "ea")) # None)
        put(rows, row) == KeyOf(field, row) :> row @@ rows
    IN  FoldLeft(put, <<>>, keyed)

Texts(doc, field) ==
    LET rows == Rows(doc, field)
    IN  [ea \in DOMAIN rows |-> TextIn(rows[ea], TextOf[field])]

FromWire(doc) ==
    LET rows == Rows(doc, "comments")
    IN  [names |-> Texts(doc, "names"), prototypes |-> Texts(doc, "prototypes"),
         comments |-> [k \in DOMAIN rows |->
                        <<TextIn(rows[k], "regular"), TextIn(rows[k], "repeatable")>>]]

-----------------------------------------------------------------------------
(* Projecting.                                                             *)

(* A bare address is a comment's key too, a bare text its signature.       *)
CommentKey(key) == IF Len(key) = 2 THEN key ELSE <<key[1], "">>

CommentSignature(sig) == IF Len(sig) = 2 THEN sig ELSE <<sig[1], "">>

Before(k, l) ==
    LET rank(scope) == CASE scope = "" -> 0 [] scope = "func" -> 1 [] scope = "line" -> 2
    IN  \/ k[1] < l[1]
        \/ k[1] = l[1] /\ rank(k[2]) < rank(l[2])

(* Every list in the order of its keys.                                    *)
ToWire(record) ==
    LET list(field) ==
            LET eas == SetToSortSeq(DOMAIN record[field], <)
            IN  [i \in DOMAIN eas |->
                    [f \in {"ea", TextOf[field]} |->
                        IF f = "ea" THEN <<"int", eas[i]>> ELSE <<"str", record[field][eas[i]]>>]]
        keys == SetToSortSeq(DOMAIN record.comments, LAMBDA k, l : Before(CommentKey(k), CommentKey(l)))
        comment(k) ==
            LET sig == CommentSignature(record.comments[k])
            IN  [ea |-> <<"int", k[1]>>, scope |-> <<"str", CommentKey(k)[2]>>,
                 regular |-> <<"str", sig[1]>>, repeatable |-> <<"str", sig[2]>>]
    IN  [names |-> list("names"), prototypes |-> list("prototypes"),
         comments |-> [i \in DOMAIN keys |-> comment(keys[i])]]

-----------------------------------------------------------------------------
(* Properties.                                                             *)

Proper(record) == \A k \in DOMAIN record.comments :
    Len(k) = 2 /\ Len(record.comments[k]) = 2

(* A record comes out as it went in, whatever has been wrapped around it,  *)
(* and a second trip changes nothing even of one with bare keys.           *)
RecordTravels(record) ==
    LET there == FromWire(ToWire(record))
    IN  /\ Proper(record) => there = record
        /\ FromWire(ToWire(there)) = there

(* What a document says in its good rows is what is read of it, however    *)
(* many bad ones stand between them, and the later of two rows is meant.   *)
BadRowsAreSkipped(doc) ==
    LET good(field) == {i \in DOMAIN doc[field] :
                            doc[field][i] # Junk /\ OptInt(Get(doc[field][i], "ea")) # None}
        ea(field, i) == OptInt(doc[field][i].ea)
        read == FromWire(doc)
    IN  \A field \in DOMAIN TextOf : field \in DOMAIN doc /\ doc[field] # Junk =>
            /\ DOMAIN read[field] = {ea(field, i) : i \in good(field)}
            /\ \A i \in good(field) :
                \/ read[field][ea(field, i)] = TextIn(doc[field][i], TextOf[field])
                \/ \E j \in good(field) : j > i /\ ea(field, j) = ea(field, i)
=============================================================================
