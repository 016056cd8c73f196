----------------------------- MODULE RecordPage -----------------------------
(***************************************************************************)
(* A block of records as bytes: page.cpp and recordpage.cpp, with the      *)
(* set_val and insert of a table scan that stays in the block              *)
(* (tablescan.cpp, execute_insert of basicupdateplanner.cpp).  A constant  *)
(* is a token of the parser.  An access outside the page throws; here the  *)
(* write is left out.                                                      *)
(***************************************************************************)
EXTENDS Parser, Layout

CONSTANT BlockSize   \* bytes of a block

Byte   == 0..255
MaxInt == ((127 * 256 + 255) * 256 + 255) * 256 + 255   \* of 32 bits
Int32  == -MaxInt - 1..MaxInt

(* The log keeps the offsets of a block as integers on its pages. *)
ASSUME BlockSizeAssumption == BlockSize \in Nat /\ BlockSize <= MaxInt

EMPTY == 0
USED  == 1

(* Page.  Integers take 4 bytes, the highest first; a string has its       *)
(* length before it.                                                       *)
SetBytes(page, at, bytes) ==
    IF at + Len(bytes) > BlockSize THEN page
    ELSE [p \in DOMAIN page |-> IF p \in at..at + Len(bytes) - 1 THEN bytes[p - at + 1]
                                                                 ELSE page[p]]

IntBytes(n) ==
    LET rest == n \div 256   rest2 == rest \div 256   rest3 == rest2 \div 256
    IN  <<rest3 % 256, rest2 % 256, rest % 256, n % 256>>

SetInt(page, at, n)    == SetBytes(page, at, IntBytes(n))
SetString(page, at, s) == SetBytes(page, at, IntBytes(Len(s)) \o s)

GetInt(page, at) ==
    LET high == IF page[at] >= 128 THEN page[at] - 256 ELSE page[at]
    IN  ((high * 256 + page[at + 1]) * 256 + page[at + 2]) * 256 + page[at + 3]

Thrown == <<-1>>   \* instead of a string of an impossible length

GetString(page, at) ==
    LET length == GetInt(page, at)
    IN  IF length < 0 \/ at + 4 + length > BlockSize THEN Thrown
        ELSE [k \in 1..length |-> page[at + 3 + k]]

----------------------------------------------------------------------------
(* RecordPage. *)
Offset(layout, slot)      == slot * layout.slotsize
Position(layout, slot, f) == Offset(layout, slot) + layout.offset[f]
ValidSlots(layout)        == {k \in 0..BlockSize : Offset(layout, k + 1) <= BlockSize}

FieldOf(layout, f) == layout.schema[LastOf(layout.schema, f)]

(* format writes integers 0 and strings of length 0, on a page of zeros. *)
Formatted == [p \in 0..BlockSize - 1 |-> 0]

SetFlag(layout, page, slot, flag) == SetInt(page, Offset(layout, slot), flag)
Flag(layout, page, slot) == GetInt(page, Offset(layout, slot))

SetVal(layout, page, slot, f, const) ==
    IF FieldOf(layout, f).type = "INTEGER"
    THEN SetInt(page, Position(layout, slot, f), const.val)
    ELSE SetString(page, Position(layout, slot, f), const.val.chars)

GetVal(layout, page, slot, f) ==
    IF FieldOf(layout, f).type = "INTEGER"
    THEN GetInt(page, Position(layout, slot, f))
    ELSE GetString(page, Position(layout, slot, f))

(* insert_after from the beginning of the block, then the given values in  *)
(* turn.  Without an empty slot the scan leaves the block as it is.        *)
EmptySlots(layout, page) == {k \in ValidSlots(layout) : Flag(layout, page, k) = EMPTY}

SetVals(layout, page, slot, fields, vals) ==
    LET given == Min({Len(fields), Len(vals)})
        after[k \in 0..given] ==
            IF k = 0 THEN page ELSE SetVal(layout, after[k - 1], slot, fields[k], vals[k])
    IN  after[given]

Insert(layout, page, fields, vals) ==
    LET slot == Min(EmptySlots(layout, page))
    IN  IF EmptySlots(layout, page) = {} THEN page
        ELSE SetVals(layout, SetFlag(layout, page, slot, USED), slot, fields, vals)

Delete(layout, page, slot) == SetFlag(layout, page, slot, EMPTY)

(* What a scan sees of a slot. *)
Record(layout, page, slot) ==
    [flag |-> Flag(layout, page, slot),
     val  |-> [f \in DOMAIN layout.offset |-> GetVal(layout, page, slot, f)]]
=============================================================================
