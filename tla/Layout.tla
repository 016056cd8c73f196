------------------------------- MODULE Layout -------------------------------
(***************************************************************************)
(* Schemas and the bytes of a slot (schema.cpp, layout.cpp).  A schema is  *)
(* the sequence of its fields [name, type, length]; a name may occur twice,*)
(* and then the last declaration gives its type and length to both.        *)
(***************************************************************************)
EXTENDS Integers, SequencesExt

Declaration == [name : STRING, type : {"INTEGER", "VARCHAR"}, length : Nat]
Declarations == Seq(Declaration)

Names(fields) == {f.name : f \in ToSet(fields)}

LastOf(fields, name) ==
    CHOOSE i \in DOMAIN fields : /\ fields[i].name = name
                                 /\ \A j \in DOMAIN fields : fields[j].name = name => j <= i

(* add_field, one after the other: fields_ keeps each name, info_ the      *)
(* latest type and length of it.                                           *)
Schema[fields \in Declarations] ==
    [i \in DOMAIN fields |-> fields[LastOf(fields, fields[i].name)]]

FlagBytes == 4

(* Mutant: the length prefix of a string is left out. *)
StringBytesOnly(f) == IF f.type = "INTEGER" THEN 4 ELSE f.length

LengthInBytes(f) == IF f.type = "INTEGER" THEN 4 ELSE 4 + f.length

(* slotsize_ before the i-th field is added. *)
StartOf(sch, i) ==
    LET slotsize[k \in 1..Len(sch) + 1] ==
            IF k = 1 THEN FlagBytes ELSE slotsize[k - 1] + LengthInBytes(sch[k - 1])
    IN  slotsize[i]

Offsets(sch) == [name \in Names(sch) |-> StartOf(sch, LastOf(sch, name))]

(* Layout(schema). *)
LayoutOf[sch \in Declarations] ==
    [schema |-> sch, offset |-> Offsets(sch),
     slotsize |-> StartOf(sch, Len(sch) + 1)]
=============================================================================
