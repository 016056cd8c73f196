---------------------------- MODULE LogMgr_proofs ----------------------------
(***************************************************************************)
(* Proofs about the log file for every block size, set of record sizes,    *)
(* length of the log and number of crashes.  LogInv is inductive: beside   *)
(* the invariants the runs check it says at which stage of a call a page   *)
(* is only in memory (StageOK), that the page on disk is a part of the one *)
(* in memory (Behind), that no page but the last is without a record       *)
(* (PagesFull), and that the iterator splits the log in two (IterOK).      *)
(***************************************************************************)
EXTENDS LogMgr, SequenceLemmas

Elem == Record \cup {EmptyRecord}

(* Where a call stands, and what a page that is left is.                   *)
StageOK ==
    /\ pc = "closed" => /\ pending = NoRecord /\ logpage = ZeroPage
                        /\ latest = 0 /\ saved = 0
    /\ pc \in {"ready", "iterating"} =>
          cur = Len(disk) /\ cur # 0 /\ pending = NoRecord
    /\ pc = "extend" => cur = Len(disk)
    /\ pc = "format" => cur + 1 = Len(disk) /\ disk[Len(disk)] = ZeroPage
    /\ pc \in {"extend", "format"} =>
          IF cur = 0 THEN /\ pending = NoRecord /\ logpage = ZeroPage
                          /\ latest = 0 /\ saved = 0 /\ base = 0
                     ELSE /\ pending # NoRecord /\ pending.lsn = Len(Known) + 1
                          /\ disk[cur] = logpage
    /\ pc = "iterating" => disk[cur] = logpage

(* The page on disk is what the page in memory was at some time before.    *)
Behind == pc # "closed" /\ cur # 0 => IsPrefix(RecordsOf(disk[cur]), RecordsOf(logpage))

Bounded == Len(AbstractLog) <= MaxRecords

(* Only the last page of the file may have no record at all.               *)
PagesFull == /\ \A i \in 1..(Len(disk) - 1) : disk[i].recs # <<>>
             /\ pc = "extend" /\ cur # 0 => disk[cur].recs # <<>>

(* What the iterator has returned, has in its page and has before it is    *)
(* the log.                                                                *)
IterOK == pc = "iterating" =>
    /\ iter.blk \in 1..cur
    /\ Reverse(Known) = Real(read) \o (Real(iter.rest)
                          \o Reverse(RecordsIn(SubSeq(disk, 1, iter.blk - 1))))

LogInv == /\ TypeOK /\ PagesWellFormed /\ StageOK /\ Behind /\ SavedIsDurable
          /\ Bounded /\ PagesFull /\ IterOK

----------------------------------------------------------------------------
(* Real drops the empty records of a sequence. *)
LEMMA RealAppend ==
  ASSUME NEW s \in Seq(Elem), NEW x \in Elem
  PROVE  /\ Real(s) \in Seq(Record)
         /\ Real(Append(s, x)) = IF x = EmptyRecord THEN Real(s) ELSE Append(Real(s), x)
<1>. DEFINE One(r) == IF r = EmptyRecord THEN <<>> ELSE <<r>>
            m == [i \in DOMAIN s |-> One(s[i])]
            a == Append(s, x)
<1>1. \A r \in Elem : One(r) \in Seq(Record)
  BY DEF Elem
<1>2. /\ Len(s) \in Nat /\ DOMAIN s = 1..Len(s) /\ \A i \in 1..Len(s) : s[i] \in Elem
      /\ a \in Seq(Elem) /\ Len(a) = Len(s) + 1 /\ DOMAIN a = 1..(Len(s) + 1)
      /\ \A i \in 1..Len(s) : a[i] = s[i]
      /\ a[Len(s) + 1] = x
  BY LenProperties, AppendProperties, ElementOfSeq
<1>3. m \in Seq(Seq(Record)) /\ Len(m) = Len(s) /\ \A i \in 1..Len(s) : m[i] = One(s[i])
  <2>1. m \in [1..Len(s) -> Seq(Record)]
    BY <1>1, <1>2
  <2>2. m \in Seq(Seq(Record))
    BY <1>2, <2>1, SeqDef
  <2>3. DOMAIN m = 1..Len(s)
    BY <1>2
  <2>. QED
    BY <1>2, <2>2, <2>3, LenProperties
<1>4. [i \in DOMAIN a |-> One(a[i])] = Append(m, One(x))
  <2>. DEFINE b == [i \in DOMAIN a |-> One(a[i])]
  <2>1. /\ Append(m, One(x)) \in Seq(Seq(Record)) /\ Len(Append(m, One(x))) = Len(s) + 1
        /\ \A i \in 1..Len(s) : Append(m, One(x))[i] = m[i]
        /\ Append(m, One(x))[Len(s) + 1] = One(x)
    <3>1. One(x) \in Seq(Record)
      BY <1>1
    <3>. HIDE DEF m, One
    <3>. QED
      BY <1>3, <3>1, AppendProperties
  <2>2. b \in [1..(Len(s) + 1) -> Seq(Record)]
    <3>1. \A i \in 1..(Len(s) + 1) : a[i] \in Elem
      BY <1>2, ElementOfSeq
    <3>. HIDE DEF One, a
    <3>. QED
      BY <1>1, <1>2, <3>1
  <2>3. Len(s) + 1 \in Nat
    BY <1>2
  <2>4. b \in Seq(Seq(Record)) /\ DOMAIN b = 1..(Len(s) + 1)
    BY <2>2, <2>3, SeqDef
  <2>5. Len(b) = Len(s) + 1
    BY <2>3, <2>4, LenProperties
  <2>6. \A i \in 1..(Len(s) + 1) : b[i] = Append(m, One(x))[i]
    <3>1. \A i \in 1..(Len(s) + 1) : b[i] = One(a[i])
      BY <1>2
    <3>2. \A i \in 1..(Len(s) + 1) : i \in 1..Len(s) \/ i = Len(s) + 1
      BY <1>2
    <3>. HIDE DEF b, m, One, a
    <3>. QED
      BY <1>2, <1>3, <2>1, <3>1, <3>2
  <2>. HIDE DEF b, m, One
  <2>7. b = Append(m, One(x))
    BY <2>1, <2>4, <2>5, <2>6, SeqEqual
  <2>. QED
    BY <2>7 DEF b
<1>5. Real(s) = FlattenSeq(m) /\ Real(a) = FlattenSeq(Append(m, One(x)))
  BY <1>4 DEF Real
<1>6. One(x) \in Seq(Record)
  BY <1>1
<1>7. FlattenSeq(m) \in Seq(Record) /\ FlattenSeq(Append(m, One(x))) = FlattenSeq(m) \o One(x)
  <2>. HIDE DEF m, One
  <2>. QED
    BY <1>3, <1>6, FlattenAppend
<1>. HIDE DEF m, a
<1>8. CASE x = EmptyRecord
  BY <1>5, <1>7, <1>8, ConcatEmptySeq DEF a
<1>9. CASE x # EmptyRecord
  <2>1. x \in Record
    BY <1>9 DEF Elem
  <2>. QED
    BY <1>5, <1>7, <1>9, <2>1, AppendIsConcat DEF a
<1>. QED
  BY <1>8, <1>9

LEMMA EmptyIsElem == EmptyRecord \in Elem /\ <<>> \in Seq(Elem)
BY EmptySeq DEF Elem

LEMMA RealEmpty == Real(<<>>) = <<>>
<1>. DEFINE m == [i \in DOMAIN <<>> |-> IF <<>>[i] = EmptyRecord THEN <<>> ELSE << <<>>[i] >>]
<1>1. m = <<>>
  OBVIOUS
<1>2. <<>> \in Seq(Seq(Record))
  BY EmptySeq
<1>3. FlattenSeq(<<>>) = <<>>
  BY <1>2, FlattenIs
<1>4. Real(<<>>) = FlattenSeq(m)
  BY DEF Real
<1>. HIDE DEF m
<1>. QED
  BY <1>1, <1>3, <1>4

(* Sequences of no more than n members of S. *)
UpTo(S, n) == {s \in Seq(S) : Len(s) <= n}

LEMMA UpToOne ==
  ASSUME NEW S, NEW s \in Seq(S), s # <<>>
  PROVE  \E t \in Seq(S), x \in S : s = Append(t, x) /\ Len(s) = Len(t) + 1 /\ Len(t) \in Nat
<1>1. PICK t \in Seq(S), x \in S : s = Append(t, x)
  BY SequenceEmptyOrAppend
<1>. QED
  BY <1>1, AppendProperties, LenProperties

LEMMA RealConcat ==
  ASSUME NEW s \in Seq(Elem), NEW t \in Seq(Elem)
  PROVE  Real(s \o t) = Real(s) \o Real(t)
<1>. DEFINE T == {n \in Nat : \A u \in UpTo(Elem, n) : Real(s \o u) = Real(s) \o Real(u)}
<1>0. Real(s \o <<>>) = Real(s) \o Real(<<>>)
  <2>1. Real(s) \in Seq(Record)
    BY EmptyIsElem, RealAppend
  <2>. QED
    BY <2>1, RealEmpty, ConcatEmptySeq
<1>1. 0 \in T
  <2>1. ASSUME NEW u \in UpTo(Elem, 0) PROVE u = <<>>
    BY EmptySeq DEF UpTo
  <2>. QED
    BY <1>0, <2>1
<1>2. ASSUME NEW n \in Nat, n \in T
      PROVE  n + 1 \in T
  <2>. SUFFICES ASSUME NEW u \in UpTo(Elem, n + 1) PROVE Real(s \o u) = Real(s) \o Real(u)
    OBVIOUS
  <2>1. CASE u = <<>>
    BY <1>0, <2>1
  <2>2. ASSUME NEW v \in UpTo(Elem, n), NEW x \in Elem, u = Append(v, x)
        PROVE  Real(s \o u) = Real(s) \o Real(u)
    <3>1. v \in Seq(Elem) /\ s \o v \in Seq(Elem) /\ Real(s \o v) = Real(s) \o Real(v)
      BY <1>2, ConcatProperties DEF UpTo
    <3>2. s \o u = Append(s \o v, x)
      BY <2>2, <3>1
    <3>3. /\ Real(s) \in Seq(Record) /\ Real(v) \in Seq(Record)
          /\ Real(u) = IF x = EmptyRecord THEN Real(v) ELSE Append(Real(v), x)
          /\ Real(s \o u) = IF x = EmptyRecord THEN Real(s \o v) ELSE Append(Real(s \o v), x)
      BY <2>2, <3>1, <3>2, RealAppend
    <3>4. x # EmptyRecord => Append(Real(s) \o Real(v), x) = Real(s) \o Append(Real(v), x)
      <4>. SUFFICES ASSUME x \in Record
                    PROVE  Append(Real(s) \o Real(v), x) = Real(s) \o Append(Real(v), x)
        BY DEF Elem
      <4>. QED
        <5>1. PICK w : w = Append(Real(v), x)
          OBVIOUS
        <5>2. Real(s) \o w = Append(Real(s) \o Real(v), x)
          BY <3>3, <5>1, AppendConcat
        <5>. QED
          BY <5>1, <5>2
    <3>. QED
      BY <3>1, <3>3, <3>4
  <2>3. u # <<>> => \E v \in UpTo(Elem, n), x \in Elem : u = Append(v, x)
    <3>. SUFFICES ASSUME u # <<>>
                  PROVE  \E v \in UpTo(Elem, n), x \in Elem : u = Append(v, x)
      OBVIOUS
    <3>1. PICK v \in Seq(Elem), x \in Elem :
                  u = Append(v, x) /\ Len(u) = Len(v) + 1 /\ Len(v) \in Nat
      BY UpToOne DEF UpTo
    <3>. QED
      BY <3>1 DEF UpTo
  <2>. QED
    BY <2>1, <2>2, <2>3
<1>. HIDE DEF T
<1>3. Nat \subseteq T
  BY <1>1, <1>2, SetInduction
<1>4. t \in UpTo(Elem, Len(t)) /\ Len(t) \in Nat
  BY DEF UpTo
<1>. QED
  BY <1>3, <1>4 DEF T

(* A page of zeros has no record of the log in it. *)
LEMMA RealOfEmpties ==
  ASSUME NEW s \in Seq(Elem), \A i \in 1..Len(s) : s[i] = EmptyRecord
  PROVE  Real(s) = <<>>
<1>. DEFINE Blank(u) == \A i \in 1..Len(u) : u[i] = EmptyRecord
            T == {n \in Nat : \A u \in UpTo(Elem, n) : Blank(u) => Real(u) = <<>>}
<1>1. 0 \in T
  <2>1. ASSUME NEW u \in UpTo(Elem, 0) PROVE u = <<>>
    BY EmptySeq DEF UpTo
  <2>. QED
    BY <2>1, RealEmpty
<1>2. ASSUME NEW n \in Nat, n \in T
      PROVE  n + 1 \in T
  <2>. SUFFICES ASSUME NEW u \in UpTo(Elem, n + 1), Blank(u) PROVE Real(u) = <<>>
    OBVIOUS
  <2>1. CASE u = <<>>
    BY <2>1, RealEmpty
  <2>2. CASE u # <<>>
    <3>1. PICK v \in Seq(Elem), x \in Elem :
                  u = Append(v, x) /\ Len(u) = Len(v) + 1 /\ Len(v) \in Nat
      BY <2>2, UpToOne DEF UpTo
    <3>2. v \in UpTo(Elem, n)
      BY <3>1 DEF UpTo
    <3>3. x = EmptyRecord /\ Blank(v)
      BY <3>1, AppendProperties
    <3>4. Real(v) = <<>>
      BY <1>2, <3>2, <3>3
    <3>. QED
      BY <3>1, <3>3, <3>4, RealAppend
  <2>. QED
    BY <2>1, <2>2
<1>. HIDE DEF T
<1>3. Nat \subseteq T
  BY <1>1, <1>2, SetInduction
<1>4. s \in UpTo(Elem, Len(s)) /\ Len(s) \in Nat
  BY DEF UpTo
<1>. QED
  BY <1>3, <1>4 DEF T

----------------------------------------------------------------------------
(* The records of a page, and of the pages of a file. *)
LEMMA ZeroPageIs ==
  /\ ZeroPage \in PageType /\ ZeroPage.boundary = 0 /\ ZeroPage.recs # <<>>
  /\ \A i \in DOMAIN ZeroPage.recs : ZeroPage.recs[i] = EmptyRecord
  /\ RecordsOf(ZeroPage) = <<>>
<1>. DEFINE z == ZeroPage.recs
            n == BlockSize \div 4
<1>1. n \in Nat /\ n > 0 /\ 0 \in 0..BlockSize
  BY LogMgrAssumption
<1>2. z = [i \in 1..n |-> EmptyRecord] /\ ZeroPage = [boundary |-> 0, recs |-> z]
  BY DEF ZeroPage
<1>3. z \in [1..n -> Elem] /\ DOMAIN z = 1..n /\ \A i \in 1..n : z[i] = EmptyRecord
  BY <1>2 DEF Elem
<1>. HIDE DEF z, n
<1>4. z \in Seq(Elem) /\ Len(z) = n
  BY <1>1, <1>3, SeqDef, LenProperties
<1>5. z # <<>>
  BY <1>1, <1>3
<1>7. Reverse(<<>>) = <<>>
  BY DEF Reverse
<1>8. RecordsOf(ZeroPage) = <<>>
  BY <1>2, <1>3, <1>4, <1>7, RealOfEmpties DEF RecordsOf
<1>. QED
  BY <1>1, <1>2, <1>3, <1>4, <1>5, <1>8 DEF PageType, Elem, z

LEMMA FreshPageIs ==
  /\ FreshPage \in PageType /\ FreshPage.boundary = BlockSize /\ FreshPage.recs = <<>>
  /\ RecordsOf(FreshPage) = <<>>
<1>1. Reverse(<<>>) = <<>>
  BY DEF Reverse
<1>2. RecordsOf(FreshPage) = <<>>
  BY <1>1, RealEmpty DEF RecordsOf, FreshPage
<1>3. <<>> \in Seq(Record \cup {EmptyRecord}) /\ BlockSize \in 0..BlockSize
  BY EmptySeq, LogMgrAssumption
<1>. QED
  BY <1>2, <1>3 DEF PageType, FreshPage

LEMMA RecordsOfPage ==
  ASSUME NEW p \in PageType
  PROVE  RecordsOf(p) \in Seq(Record) /\ Real(p.recs) \in Seq(Record)
<1>1. p.recs \in Seq(Elem) /\ EmptyRecord \in Elem
  BY DEF PageType, Elem
<1>2. Real(p.recs) \in Seq(Record)
  BY <1>1, RealAppend
<1>. QED
  BY <1>2, ReverseIs DEF RecordsOf

(* A record that is put into a page is its newest. *)
LEMMA PutIs ==
  ASSUME NEW p \in PageType, NEW r \in Record, p.boundary - r.size \in 0..BlockSize
  PROVE  /\ Put(p, r) \in PageType
         /\ Put(p, r).boundary = p.boundary - r.size
         /\ Put(p, r).recs = <<r>> \o p.recs /\ Put(p, r).recs # <<>>
         /\ RecordsOf(Put(p, r)) = Append(RecordsOf(p), r)
<1>1. p.recs \in Seq(Elem) /\ r \in Elem /\ r # EmptyRecord /\ <<r>> \in Seq(Elem)
  BY DEF PageType, Elem, Record, EmptyRecord
<1>2. <<r>> \o p.recs \in Seq(Elem) /\ <<r>> \o p.recs # <<>>
  BY <1>1
<1>3. Real(<<r>>) = <<r>>
  <2>1. <<>> \in Seq(Elem) /\ Append(<<>>, r) = <<r>>
    BY EmptySeq
  <2>2. Real(Append(<<>>, r)) = Append(Real(<<>>), r)
    BY <1>1, <2>1, RealAppend
  <2>. QED
    BY <2>1, <2>2, RealEmpty
<1>4. Real(<<r>> \o p.recs) = <<r>> \o Real(p.recs)
  BY <1>1, <1>3, RealConcat
<1>5. Reverse(<<r>> \o Real(p.recs)) = Reverse(Real(p.recs)) \o Reverse(<<r>>)
  <2>1. <<r>> \in Seq(Record) /\ Real(p.recs) \in Seq(Record)
    BY RecordsOfPage
  <2>. QED
    BY <2>1, ReverseConcat
<1>6. Reverse(<<r>>) = <<r>>
  BY DEF Reverse
<1>7. RecordsOf(Put(p, r)) = Append(RecordsOf(p), r)
  <2>1. RecordsOf(p) \in Seq(Record)
    BY RecordsOfPage
  <2>. QED
    BY <1>4, <1>5, <1>6, <2>1, AppendIsConcat DEF RecordsOf, Put
<1>. QED
  BY <1>2, <1>7 DEF Put, PageType, Elem

(* The records of a file, page by page. *)
LEMMA RecordsAppend ==
  ASSUME NEW s \in Seq(PageType), NEW p \in PageType
  PROVE  /\ RecordsIn(s) \in Seq(Record)
         /\ RecordsIn(Append(s, p)) = RecordsIn(s) \o RecordsOf(p)
<1>. DEFINE m == [i \in DOMAIN s |-> RecordsOf(s[i])]
            a == Append(s, p)
            b == [i \in DOMAIN a |-> RecordsOf(a[i])]
            c == Append(m, RecordsOf(p))
<1>1. \A q \in PageType : RecordsOf(q) \in Seq(Record)
  BY RecordsOfPage
<1>2. /\ Len(s) \in Nat /\ DOMAIN s = 1..Len(s) /\ \A i \in 1..Len(s) : s[i] \in PageType
      /\ a \in Seq(PageType) /\ Len(a) = Len(s) + 1 /\ DOMAIN a = 1..(Len(s) + 1)
      /\ \A i \in 1..Len(s) : a[i] = s[i]
      /\ a[Len(s) + 1] = p
  BY LenProperties, AppendProperties, ElementOfSeq
<1>. HIDE DEF a
<1>3. /\ m \in Seq(Seq(Record)) /\ Len(m) = Len(s)
      /\ \A i \in 1..Len(s) : m[i] = RecordsOf(s[i])
  <2>1. m \in [1..Len(s) -> Seq(Record)]
    BY <1>1, <1>2
  <2>2. m \in Seq(Seq(Record))
    BY <1>2, <2>1, SeqDef
  <2>3. DOMAIN m = 1..Len(s)
    BY <1>2
  <2>. QED
    BY <1>2, <2>2, <2>3, LenProperties
<1>4. /\ c \in Seq(Seq(Record)) /\ Len(c) = Len(s) + 1
      /\ \A i \in 1..Len(s) : c[i] = m[i]
      /\ c[Len(s) + 1] = RecordsOf(p)
  <2>1. RecordsOf(p) \in Seq(Record)
    BY <1>1
  <2>. HIDE DEF m
  <2>. QED
    BY <1>3, <2>1, AppendProperties
<1>5. b \in Seq(Seq(Record)) /\ Len(b) = Len(s) + 1
  <2>1. \A i \in 1..(Len(s) + 1) : a[i] \in PageType
    BY <1>2, ElementOfSeq
  <2>2. b \in [1..(Len(s) + 1) -> Seq(Record)]
    BY <1>1, <1>2, <2>1
  <2>3. Len(s) + 1 \in Nat
    BY <1>2
  <2>4. b \in Seq(Seq(Record)) /\ DOMAIN b = 1..(Len(s) + 1)
    BY <2>2, <2>3, SeqDef
  <2>. QED
    BY <2>3, <2>4, LenProperties
<1>6. \A i \in 1..(Len(s) + 1) : b[i] = c[i]
  <2>1. \A i \in 1..(Len(s) + 1) : b[i] = RecordsOf(a[i])
    BY <1>2
  <2>2. \A i \in 1..(Len(s) + 1) : i \in 1..Len(s) \/ i = Len(s) + 1
    BY <1>2
  <2>. HIDE DEF b, c, m
  <2>. QED
    BY <1>2, <1>3, <1>4, <2>1, <2>2
<1>7. RecordsIn(s) = FlattenSeq(m) /\ RecordsIn(a) = FlattenSeq(b)
  BY DEF RecordsIn
<1>. HIDE DEF m, b, c
<1>8. b = c
  BY <1>4, <1>5, <1>6, SeqEqual
<1>9. RecordsOf(p) \in Seq(Record)
  BY <1>1
<1>. QED
  BY <1>3, <1>7, <1>8, <1>9, FlattenAppend DEF a, c

LEMMA NoPages == RecordsIn(<<>>) = <<>>
<1>. DEFINE m == [i \in DOMAIN <<>> |-> RecordsOf(<<>>[i])]
<1>1. m = <<>>
  OBVIOUS
<1>2. <<>> \in Seq(Seq(Record))
  BY EmptySeq
<1>3. FlattenSeq(<<>>) = <<>>
  BY <1>2, FlattenIs
<1>4. RecordsIn(<<>>) = FlattenSeq(m)
  BY DEF RecordsIn
<1>. HIDE DEF m
<1>. QED
  BY <1>1, <1>3, <1>4

LEMMA PageAt ==
  ASSUME NEW s \in Seq(PageType), NEW i \in 1..Len(s)
  PROVE  /\ RecordsIn(SubSeq(s, 1, i - 1)) \in Seq(Record)
         /\ s[i] \in PageType /\ RecordsOf(s[i]) \in Seq(Record)
         /\ RecordsIn(SubSeq(s, 1, i)) = RecordsIn(SubSeq(s, 1, i - 1)) \o RecordsOf(s[i])
<1>. DEFINE a == SubSeq(s, 1, i - 1)
            b == SubSeq(s, 1, i)
<1>1. a \in Seq(PageType) /\ s[i] \in PageType /\ b = Append(a, s[i])
  BY SubSeqStep
<1>. HIDE DEF a, b
<1>2. RecordsIn(a) \in Seq(Record) /\ RecordsIn(b) = RecordsIn(a) \o RecordsOf(s[i])
  BY <1>1, RecordsAppend
<1>. QED
  BY <1>1, <1>2, RecordsOfPage DEF a, b

(* The records of the file are those before its last page and those of it. *)
LEMMA LastPage ==
  ASSUME NEW s \in Seq(PageType), s # <<>>
  PROVE  /\ Len(s) \in 1..Len(s)
         /\ RecordsIn(s) = RecordsIn(SubSeq(s, 1, Len(s) - 1)) \o RecordsOf(s[Len(s)])
<1>1. Len(s) \in 1..Len(s) /\ SubSeq(s, 1, Len(s)) = s
  BY EmptySeq, LenProperties, SubSeqFull
<1>. QED
  BY <1>1, PageAt

----------------------------------------------------------------------------
(* Bytes adds the sizes of a page's records. *)
IsSum(f, s, n) == f = [i \in 0..n |-> IF i = 0 THEN 0 ELSE f[i - 1] + s[i].size]

LEMMA SumAt ==
  ASSUME NEW f, NEW s, NEW n \in Nat, IsSum(f, s, n), NEW i \in 0..n
  PROVE  f[i] = IF i = 0 THEN 0 ELSE f[i - 1] + s[i].size
<1>. DEFINE g == [j \in 0..n |-> IF j = 0 THEN 0 ELSE f[j - 1] + s[j].size]
<1>1. f = g
  BY Zenon DEF IsSum
<1>2. g[i] = IF i = 0 THEN 0 ELSE f[i - 1] + s[i].size
  OBVIOUS
<1>. HIDE DEF g
<1>. QED
  BY <1>1, <1>2

LEMMA SumExists ==
  ASSUME NEW s, NEW n \in Nat
  PROVE  \E f : IsSum(f, s, n)
<1>. DEFINE T == {m \in Nat : \E f : IsSum(f, s, m)}
<1>1. 0 \in T
  <2>. DEFINE f == [i \in 0..0 |-> 0]
  <2>1. f = [i \in 0..0 |-> IF i = 0 THEN 0 ELSE f[i - 1] + s[i].size]
    OBVIOUS
  <2>. HIDE DEF f
  <2>2. IsSum(f, s, 0)
    BY <2>1, Zenon DEF IsSum
  <2>. QED
    BY <2>2
<1>2. ASSUME NEW m \in Nat, m \in T
      PROVE  m + 1 \in T
  <2>1. PICK g : IsSum(g, s, m)
    BY <1>2
  <2>. DEFINE f == [i \in 0..(m + 1) |-> IF i = m + 1 THEN g[m] + s[i].size ELSE g[i]]
  <2>2. ASSUME NEW i \in 0..(m + 1)
        PROVE  f[i] = IF i = 0 THEN 0 ELSE f[i - 1] + s[i].size
    <3>1. CASE i = m + 1
      BY <3>1
    <3>2. CASE i # m + 1
      <4>0. i \in 0..m
        BY <3>2
      <4>1. g[i] = IF i = 0 THEN 0 ELSE g[i - 1] + s[i].size
        BY <2>1, <4>0, SumAt
      <4>2. f[i] = g[i] /\ (i # 0 => i - 1 \in 0..(m + 1) /\ i - 1 # m + 1 /\ f[i - 1] = g[i - 1])
        BY <3>2
      <4>. QED
        BY <4>1, <4>2
    <3>. QED
      BY <3>1, <3>2
  <2>3. IsSum(f, s, m + 1)
    <3>1. f = [i \in 0..(m + 1) |-> f[i]]
      OBVIOUS
    <3>. HIDE DEF f
    <3>. QED
      BY <2>2, <3>1 DEF IsSum
  <2>. QED
    BY <2>3
<1>. HIDE DEF T
<1>3. Nat \subseteq T
  BY <1>1, <1>2, SetInduction
<1>. QED
  BY <1>3 DEF T

LEMMA BytesIs ==
  ASSUME NEW s, Len(s) \in Nat
  PROVE  \E f : IsSum(f, s, Len(s)) /\ Bytes(s) = f[Len(s)]
<1>. DEFINE F == CHOOSE f : IsSum(f, s, Len(s))
<1>1. IsSum(F, s, Len(s))
  BY SumExists
<1>2. Bytes(s) = F[Len(s)]
  BY DEF Bytes, IsSum
<1>. HIDE DEF F
<1>. QED
  BY <1>1, <1>2

(* A record in front of the others adds its own bytes. *)
LEMMA BytesPut ==
  ASSUME NEW s \in Seq(Elem), NEW r \in Elem
  PROVE  /\ Bytes(s) \in Nat
         /\ Bytes(<<r>> \o s) = Bytes(s) + r.size
<1>. DEFINE n == Len(s)
            t == <<r>> \o s
<1>0. \A q \in Elem : q.size \in Nat
  <2>1. \A x \in RecSize : x \in Nat
    BY LogMgrAssumption
  <2>2. \A q \in Record : q.size \in RecSize
    BY DEF Record
  <2>3. EmptyRecord.size \in Nat
    BY DEF EmptyRecord
  <2>. QED
    BY <2>1, <2>2, <2>3 DEF Elem
<1>1. /\ n \in Nat /\ t \in Seq(Elem) /\ Len(t) = n + 1 /\ t[1] = r
      /\ \A i \in 1..n : s[i] \in Elem /\ t[i + 1] = s[i]
  <2>1. <<r>> \in Seq(Elem) /\ Len(<<r>>) = 1 /\ <<r>>[1] = r
    OBVIOUS
  <2>. QED
    BY <2>1, ConcatProperties, LenProperties, ElementOfSeq
<1>. HIDE DEF n, t
<1>2. PICK f : IsSum(f, s, n) /\ Bytes(s) = f[n]
  BY <1>1, BytesIs DEF n
<1>3. PICK m \in Nat : m = n + 1
  BY <1>1
<1>4. PICK g : IsSum(g, t, m) /\ Bytes(t) = g[m]
  BY <1>1, <1>3, BytesIs
<1>. DEFINE T == {j \in Nat : j \in 0..n => f[j] \in Nat /\ g[j + 1] = f[j] + r.size}
<1>5. 0 \in T
  <2>1. f[0] = 0
    BY <1>1, <1>2, SumAt
  <2>2. g[0] = 0 /\ g[1] = g[1 - 1] + t[1].size
    BY <1>1, <1>3, <1>4, SumAt
  <2>. QED
    BY <1>0, <1>1, <2>1, <2>2
<1>6. ASSUME NEW j \in Nat, j \in T
      PROVE  j + 1 \in T
  <2>. SUFFICES ASSUME j + 1 \in 0..n
                PROVE  f[j + 1] \in Nat /\ g[j + 1 + 1] = f[j + 1] + r.size
    OBVIOUS
  <2>1. PICK k \in 1..n : k = j + 1
    BY <1>1
  <2>2. f[j] \in Nat /\ g[k] = f[j] + r.size
    BY <1>6, <1>1, <2>1
  <2>3. f[k] = f[k - 1] + s[k].size
    <3>1. k \in 0..n /\ k # 0
      BY <1>1
    <3>. QED
      BY <1>1, <1>2, <3>1, SumAt
  <2>4. PICK l \in 0..m : l = k + 1
    BY <1>1, <1>3
  <2>5. g[l] = g[l - 1] + t[l].size
    <3>1. l # 0
      BY <2>4
    <3>. QED
      BY <1>3, <1>4, <2>4, <3>1, SumAt
  <2>6. t[l] = s[k] /\ s[k].size \in Nat
    BY <1>0, <1>1, <2>4
  <2>7. l - 1 = k /\ k - 1 = j
    BY <2>1, <2>4
  <2>8. r.size \in Nat
    BY <1>0
  <2>9. f[k] = f[j] + s[k].size /\ g[l] = g[k] + s[k].size
    BY <2>3, <2>5, <2>6, <2>7
  <2>10. f[k] \in Nat /\ g[l] = f[k] + r.size
    BY <2>2, <2>6, <2>8, <2>9
  <2>. QED
    BY <2>1, <2>4, <2>10
<1>. HIDE DEF T
<1>7. Nat \subseteq T
  BY <1>5, <1>6, SetInduction
<1>8. f[n] \in Nat /\ g[n + 1] = f[n] + r.size
  BY <1>1, <1>7 DEF T
<1>. QED
  BY <1>2, <1>3, <1>4, <1>8 DEF t

LEMMA BytesEmpty == Bytes(<<>>) = 0
<1>1. Len(<<>>) = 0
  OBVIOUS
<1>2. PICK f : IsSum(f, <<>>, 0) /\ Bytes(<<>>) = f[0]
  BY <1>1, BytesIs
<1>. QED
  BY <1>2, SumAt

----------------------------------------------------------------------------
(* What the process knows, and what is on disk, in a state of the model.   *)
LEMMA Views ==
  ASSUME LogInv
  PROVE  /\ OnDisk \in Seq(Record) /\ Known \in Seq(Record)
         /\ RecordsOf(logpage) \in Seq(Record)
         /\ RecordsIn(SubSeq(disk, 1, cur - 1)) \in Seq(Record)
         /\ cur = 0 => Known = RecordsOf(logpage)
         /\ cur # 0 => cur \in 1..Len(disk) /\ disk[cur] \in PageType
         /\ cur # 0 /\ disk[cur] = logpage => Known = RecordsIn(SubSeq(disk, 1, cur))
         /\ Len(OnDisk) \in Nat /\ Len(Known) \in Nat
<1>. DEFINE front == RecordsIn(SubSeq(disk, 1, cur - 1))
<1>1. /\ disk \in Seq(PageType) /\ logpage \in PageType /\ cur \in 0..Len(disk)
      /\ Len(disk) \in Nat
  BY LenProperties DEF LogInv, TypeOK
<1>2. OnDisk \in Seq(Record)
  <2>1. FreshPage \in PageType
    BY FreshPageIs
  <2>. QED
    BY <1>1, <2>1, RecordsAppend DEF OnDisk
<1>3. RecordsOf(logpage) \in Seq(Record)
  BY <1>1, RecordsOfPage
<1>4. CASE cur = 0
  <2>1. SubSeq(disk, 1, cur - 1) = <<>>
    BY <1>4, SubSeqEmpty
  <2>2. front = <<>> /\ <<>> \in Seq(Record)
    BY <2>1, NoPages, EmptySeq
  <2>3. Known = front \o RecordsOf(logpage)
    BY DEF Known
  <2>. HIDE DEF front
  <2>4. Known = RecordsOf(logpage)
    BY <1>3, <2>2, <2>3, ConcatEmptySeq
  <2>. QED
    BY <1>2, <1>3, <1>4, <2>2, <2>4, LenProperties DEF front
<1>5. CASE cur # 0
  <2>1. cur \in 1..Len(disk)
    BY <1>1, <1>5
  <2>2. /\ front \in Seq(Record) /\ disk[cur] \in PageType
        /\ RecordsIn(SubSeq(disk, 1, cur)) = front \o RecordsOf(disk[cur])
    BY <1>1, <2>1, PageAt
  <2>3. Known = front \o RecordsOf(logpage)
    BY DEF Known
  <2>. HIDE DEF front
  <2>4. Known \in Seq(Record)
    BY <1>3, <2>2, <2>3, ConcatProperties
  <2>. QED
    BY <1>2, <1>3, <1>5, <2>1, <2>2, <2>3, <2>4, LenProperties DEF front
<1>. QED
  BY <1>4, <1>5

(* What is on disk is the beginning of what the process knows.             *)
LEMMA DiskIsPrefix ==
  ASSUME LogInv, pc # "closed"
  PROVE  IsPrefix(OnDisk, Known)
<1>. DEFINE front == RecordsIn(SubSeq(disk, 1, cur - 1))
<1>1. /\ disk \in Seq(PageType) /\ logpage \in PageType /\ cur \in 0..Len(disk)
      /\ Len(disk) \in Nat
      /\ pc \in {"extend", "format", "ready", "iterating"}
  BY LenProperties DEF LogInv, TypeOK
<1>2. OnDisk \in Seq(Record) /\ Known \in Seq(Record) /\ front \in Seq(Record)
  BY Views
<1>3. CASE pc \in {"ready", "iterating"}
  <2>1. cur = Len(disk) /\ cur # 0 /\ IsPrefix(RecordsOf(disk[cur]), RecordsOf(logpage))
    BY <1>3 DEF LogInv, StageOK, Behind
  <2>2. disk # <<>> /\ RecordsOf(disk[cur]) \in Seq(Record) /\ RecordsOf(logpage) \in Seq(Record)
    <3>1. disk # <<>>
      BY <1>1, <2>1
    <3>2. disk[cur] \in PageType
      BY <2>1, Views
    <3>. QED
      BY <3>1, <3>2, RecordsOfPage, Views
  <2>3. OnDisk = front \o RecordsOf(disk[cur])
    BY <1>1, <2>1, <2>2, LastPage DEF OnDisk
  <2>4. Known = front \o RecordsOf(logpage)
    BY DEF Known
  <2>. HIDE DEF front
  <2>. QED
    BY <1>2, <2>1, <2>2, <2>3, <2>4, PrefixConcat
<1>4. CASE pc = "extend"
  <2>1. OnDisk = Known \/ OnDisk = <<>>
    <3>1. CASE cur = 0
      <4>1. disk = <<>>
        BY <1>1, <1>4, <3>1 DEF LogInv, StageOK
      <4>. QED
        BY <4>1, NoPages DEF OnDisk
    <3>2. CASE cur # 0
      <4>1. disk[cur] = logpage /\ cur = Len(disk)
        BY <1>4, <3>2 DEF LogInv, StageOK
      <4>2. Known = RecordsIn(SubSeq(disk, 1, cur))
        BY <3>2, <4>1, Views
      <4>3. SubSeq(disk, 1, cur) = disk
        BY <1>1, <4>1, SubSeqFull
      <4>. QED
        BY <4>2, <4>3 DEF OnDisk
    <3>. QED
      BY <3>1, <3>2
  <2>. QED
    BY <1>2, <2>1, PrefixSelf, PrefixEmpty
<1>5. CASE pc = "format"
  <2>1. cur + 1 = Len(disk) /\ disk[Len(disk)] = ZeroPage
    BY <1>5 DEF LogInv, StageOK
  <2>2. disk # <<>> /\ Len(disk) - 1 = cur
    BY <1>1, <2>1
  <2>3. OnDisk = RecordsIn(SubSeq(disk, 1, cur)) \o <<>>
    BY <1>1, <2>1, <2>2, LastPage, ZeroPageIs DEF OnDisk
  <2>4. OnDisk = RecordsIn(SubSeq(disk, 1, cur))
    <3>1. RecordsIn(SubSeq(disk, 1, Len(disk) - 1)) \in Seq(Record)
      BY <1>1, <2>2, PageAt, LastPage
    <3>. QED
      BY <2>2, <2>3, <3>1, ConcatEmptySeq
  <2>5. CASE cur = 0
    <3>1. SubSeq(disk, 1, cur) = <<>>
      BY <2>5, SubSeqEmpty
    <3>2. OnDisk = <<>>
      BY <2>4, <3>1, NoPages
    <3>. QED
      BY <1>2, <3>2, PrefixEmpty
  <2>6. CASE cur # 0
    <3>1. disk[cur] = logpage
      BY <1>5, <2>6 DEF LogInv, StageOK
    <3>2. Known = OnDisk
      BY <2>4, <2>6, <3>1, Views
    <3>. QED
      BY <1>2, <3>2, PrefixSelf
  <2>. QED
    BY <2>5, <2>6
<1>. QED
  BY <1>1, <1>3, <1>4, <1>5

----------------------------------------------------------------------------
(* What each operation makes of the log. *)
LEMMA InitOK == Init => LogInv
<1>. SUFFICES ASSUME Init PROVE LogInv
  OBVIOUS
<1>1. /\ <<>> \in Seq(PageType) /\ <<>> \in Seq(Record \cup {EmptyRecord})
      /\ Len(<<>>) = 0 /\ 0 \in 0..MaxRecords /\ 0 \in 0..MaxCrashes
  BY EmptySeq, LogMgrAssumption
<1>2. TypeOK
  BY <1>1, ZeroPageIs DEF Init, TypeOK
<1>3. AbstractLog = <<>>
  BY NoPages DEF Init, AbstractLog, OnDisk
<1>4. Bounded
  BY <1>1, <1>3 DEF Bounded
<1>5. PagesWellFormed
  BY DEF Init, PagesWellFormed, WellFormed
<1>6. StageOK /\ Behind /\ SavedIsDurable /\ PagesFull /\ IterOK
  BY <1>1 DEF Init, StageOK, Behind, SavedIsDurable, PagesFull, IterOK
<1>. QED
  BY <1>2, <1>4, <1>5, <1>6 DEF LogInv

LEMMA OpenOK ==
  ASSUME LogInv, Open
  PROVE  LogInv' /\ OnDisk' = OnDisk /\ AbstractLog' = AbstractLog
<1>0. /\ TypeOK /\ PagesWellFormed /\ PagesFull
      /\ pending = NoRecord /\ logpage = ZeroPage /\ latest = 0 /\ saved = 0
      /\ Len(AbstractLog) <= MaxRecords
  BY DEF LogInv, StageOK, Open, Bounded
<1>1. /\ disk' = disk /\ cur' = Len(disk) /\ base' = Len(OnDisk) /\ pending' = pending
      /\ latest' = latest /\ saved' = saved /\ iter' = iter /\ read' = read
      /\ crashes' = crashes /\ OnDisk' = OnDisk /\ AbstractLog = OnDisk
      /\ pc' \in {"extend", "ready"}
  BY DEF Open, OnDisk, AbstractLog
<1>2. /\ disk \in Seq(PageType) /\ Len(disk) \in Nat /\ Len(OnDisk) \in Nat
      /\ OnDisk \in Seq(Record)
  BY <1>0, Views, LenProperties DEF TypeOK
<1>3. CASE disk = <<>> /\ pc' = "extend" /\ logpage' = logpage
  <2>1. OnDisk = <<>> /\ Len(disk) = 0 /\ Len(OnDisk) = 0
    BY <1>3, NoPages DEF OnDisk
  <2>2. SubSeq(disk, 1, 0 - 1) = <<>> /\ RecordsIn(<<>>) = <<>>
    BY SubSeqEmpty, NoPages
  <2>3. Known' = <<>> \o <<>>
    BY <1>0, <1>1, <1>3, <2>1, <2>2, ZeroPageIs DEF Known
  <2>4. Known' = OnDisk
    BY <2>1, <2>3
  <2>5. TypeOK'
    BY <1>0, <1>1, <1>2, <1>3, <2>1, LogMgrAssumption DEF TypeOK
  <2>6. PagesWellFormed'
    BY <1>0, <1>1, <1>3 DEF PagesWellFormed
  <2>7. StageOK' /\ Behind' /\ PagesFull' /\ IterOK'
    BY <1>0, <1>1, <1>3, <2>1 DEF StageOK, Behind, PagesFull, IterOK
  <2>8. AbstractLog' = AbstractLog
    BY <1>1, <1>3, <2>4 DEF AbstractLog
  <2>9. SavedIsDurable' /\ Bounded'
    BY <1>0, <1>1, <1>3, <2>1, <2>4, <2>8 DEF SavedIsDurable, Bounded
  <2>. QED
    BY <1>1, <2>5, <2>6, <2>7, <2>8, <2>9 DEF LogInv
<1>4. CASE disk # <<>> /\ pc' = "ready" /\ logpage' = Last(disk)
  <2>1. /\ Len(disk) \in 1..Len(disk) /\ Len(disk) # 0 /\ logpage' = disk[Len(disk)]
        /\ disk[Len(disk)] \in PageType /\ RecordsOf(disk[Len(disk)]) \in Seq(Record)
    BY <1>2, <1>4, LastPage, PageAt DEF Last
  <2>2. Known' = OnDisk
    BY <1>1, <1>2, <1>4, <2>1, LastPage DEF Known, OnDisk
  <2>3. TypeOK'
    BY <1>0, <1>1, <1>2, <1>4, <2>1 DEF TypeOK, AbstractLog
  <2>4. PagesWellFormed'
    BY <1>0, <1>1, <1>2, <2>1 DEF PagesWellFormed
  <2>5. StageOK' /\ PagesFull' /\ IterOK'
    BY <1>0, <1>1, <1>4, <2>1 DEF StageOK, PagesFull, IterOK
  <2>6. Behind'
    BY <1>1, <2>1, PrefixSelf DEF Behind
  <2>7. AbstractLog' = AbstractLog
    BY <1>1, <1>4, <2>2 DEF AbstractLog
  <2>8. SavedIsDurable' /\ Bounded'
    BY <1>0, <1>1, <1>2, <2>2, <2>7 DEF SavedIsDurable, Bounded
  <2>. QED
    BY <1>1, <2>3, <2>4, <2>5, <2>6, <2>7, <2>8 DEF LogInv
<1>. QED
  BY <1>3, <1>4 DEF Open

(* Writing the page in memory puts all that is known on disk.              *)
LEMMA FlushWrites ==
  ASSUME LogInv, pc = "ready", FlushImpl, UNCHANGED <<logpage, cur, latest, base, crashes>>
  PROVE  /\ disk' \in Seq(PageType) /\ Len(disk') = Len(disk) /\ disk'[cur] = logpage
         /\ \A i \in 1..Len(disk) : i # cur => disk'[i] = disk[i]
         /\ SubSeq(disk', 1, cur - 1) = SubSeq(disk, 1, cur - 1)
         /\ cur = Len(disk) /\ cur # 0 /\ cur \in 1..Len(disk)
         /\ OnDisk' = Known /\ Known' = Known
         /\ PagesWellFormed' /\ Behind' /\ Len(Known) <= MaxRecords
         /\ (pc' # "closed" => SavedIsDurable' /\ Bounded' /\ AbstractLog' = AbstractLog)
<1>1. /\ disk \in Seq(PageType) /\ logpage \in PageType /\ cur \in 0..Len(disk)
      /\ Len(disk) \in Nat /\ cur = Len(disk) /\ cur # 0
      /\ disk' = [disk EXCEPT ![cur] = logpage] /\ saved' = latest
      /\ logpage' = logpage /\ cur' = cur /\ latest' = latest /\ base' = base
  BY LenProperties DEF LogInv, TypeOK, StageOK, FlushImpl
<1>2. /\ cur \in 1..Len(disk) /\ disk' \in Seq(PageType) /\ Len(disk') = Len(disk)
      /\ disk'[cur] = logpage /\ \A i \in 1..Len(disk) : i # cur => disk'[i] = disk[i]
      /\ SubSeq(disk', 1, cur - 1) = SubSeq(disk, 1, cur - 1)
  BY <1>1, ExceptIs
<1>3. Known' = Known
  BY <1>1, <1>2 DEF Known
<1>4. disk' # <<>>
  BY <1>1, <1>2
<1>5. RecordsIn(disk') = RecordsIn(SubSeq(disk', 1, cur - 1)) \o RecordsOf(logpage)
  BY <1>1, <1>2, <1>4, LastPage
<1>6. OnDisk' = Known
  BY <1>2, <1>5 DEF OnDisk, Known
<1>7. PagesWellFormed'
  <2>1. WellFormed(logpage) /\ \A i \in 1..Len(disk) : WellFormed(disk[i])
    BY <1>1 DEF LogInv, PagesWellFormed
  <2>2. \A i \in 1..Len(disk') : WellFormed(disk'[i])
    BY <1>1, <1>2, <2>1
  <2>3. DOMAIN disk' = 1..Len(disk')
    BY <1>2, LenProperties
  <2>. QED
    BY <1>1, <2>1, <2>2, <2>3 DEF PagesWellFormed
<1>8. Behind'
  <2>1. RecordsOf(logpage) \in Seq(Record)
    BY Views
  <2>. QED
    BY <1>1, <1>2, <2>1, PrefixSelf DEF Behind
<1>9. base + latest = Len(Known) /\ Len(Known) <= MaxRecords /\ AbstractLog = Known
  BY DEF LogInv, SavedIsDurable, Bounded, AbstractLog
<1>10. pc' # "closed" => SavedIsDurable' /\ Bounded' /\ AbstractLog' = AbstractLog
  <2>1. Len(Known) <= Len(Known)
    BY Views
  <2>. QED
    BY <1>1, <1>3, <1>6, <1>9, <2>1 DEF SavedIsDurable, Bounded, AbstractLog
<1>. QED
  BY <1>1, <1>2, <1>3, <1>6, <1>7, <1>8, <1>9, <1>10

LEMMA FlushOK ==
  ASSUME LogInv, NEW lsn, Flush(lsn)
  PROVE  LogInv' /\ OnDisk' = Known /\ AbstractLog' = AbstractLog /\ AbstractLog = Known
<1>1. /\ pc = "ready" /\ FlushImpl /\ saved' = latest /\ pc' = pc /\ pending' = pending
      /\ logpage' = logpage /\ cur' = cur /\ latest' = latest /\ base' = base
      /\ iter' = iter /\ read' = read /\ crashes' = crashes
  BY DEF Flush, FlushImpl
<1>2. TypeOK /\ StageOK /\ PagesFull /\ Len(disk) \in Nat
  BY LenProperties DEF LogInv, TypeOK
<1>3. /\ disk' \in Seq(PageType) /\ Len(disk') = Len(disk) /\ disk'[cur] = logpage
      /\ \A i \in 1..Len(disk) : i # cur => disk'[i] = disk[i]
      /\ cur = Len(disk) /\ cur # 0
      /\ OnDisk' = Known /\ PagesWellFormed' /\ Behind'
      /\ SavedIsDurable' /\ Bounded' /\ AbstractLog' = AbstractLog
  BY <1>1, FlushWrites
<1>4. TypeOK'
  BY <1>1, <1>2, <1>3 DEF TypeOK
<1>5. StageOK' /\ PagesFull' /\ IterOK'
  BY <1>1, <1>2, <1>3 DEF StageOK, PagesFull, IterOK
<1>. QED
  BY <1>1, <1>3, <1>4, <1>5 DEF LogInv, AbstractLog

(* A page that has no room for a record has one already.                   *)
LEMMA FullHasRecords ==
  ASSUME NEW p \in PageType, WellFormed(p), NEW size \in RecSize, ~ Fits(size, p.boundary)
  PROVE  p.recs # <<>>
<1>. SUFFICES ASSUME p.recs = <<>> PROVE FALSE
  OBVIOUS
<1>1. size \in Nat /\ size <= BlockSize - 4 /\ BlockSize \in Nat
  BY LogMgrAssumption
<1>2. p.boundary = BlockSize
  BY <1>1, BytesEmpty, ZeroPageIs DEF WellFormed
<1>. QED
  BY <1>1, <1>2 DEF Fits

LEMMA AppendFlushOK ==
  ASSUME LogInv, NEW size \in RecSize, AppendFlush(size)
  PROVE  LogInv' /\ OnDisk' = Known /\ AbstractLog' = AbstractLog /\ AbstractLog = Known
<1>1. /\ pc = "ready" /\ FlushImpl /\ saved' = latest /\ pc' = "extend"
      /\ pending' = NextRecord(size) /\ Len(Known) < MaxRecords
      /\ ~ Fits(size, logpage.boundary)
      /\ logpage' = logpage /\ cur' = cur /\ latest' = latest /\ base' = base
      /\ iter' = iter /\ read' = read /\ crashes' = crashes
  BY DEF AppendFlush, FlushImpl
<1>2. /\ TypeOK /\ StageOK /\ PagesFull /\ Len(disk) \in Nat /\ Len(Known) \in Nat
      /\ logpage \in PageType /\ WellFormed(logpage)
  BY LenProperties, Views DEF LogInv, TypeOK, PagesWellFormed
<1>3. /\ disk' \in Seq(PageType) /\ Len(disk') = Len(disk) /\ disk'[cur] = logpage
      /\ \A i \in 1..Len(disk) : i # cur => disk'[i] = disk[i]
      /\ cur = Len(disk) /\ cur # 0
      /\ OnDisk' = Known /\ Known' = Known /\ PagesWellFormed' /\ Behind'
      /\ SavedIsDurable' /\ Bounded' /\ AbstractLog' = AbstractLog
  BY <1>1, FlushWrites
<1>4. /\ NextRecord(size) \in Record /\ NextRecord(size).lsn = Len(Known) + 1
      /\ NextRecord(size) # NoRecord
  <2>1. Len(Known) + 1 \in 1..MaxRecords
    BY <1>1, <1>2, LogMgrAssumption
  <2>2. NextRecord(size).lsn = Len(Known) + 1 /\ NextRecord(size) \in Record
    BY <2>1 DEF NextRecord, Record
  <2>3. NoRecord.lsn = 0 /\ Len(Known) + 1 # 0
    BY <1>2 DEF NoRecord
  <2>. QED
    BY <2>2, <2>3
<1>5. TypeOK'
  BY <1>1, <1>2, <1>3, <1>4 DEF TypeOK
<1>6. logpage.recs # <<>>
  BY <1>1, <1>2, FullHasRecords
<1>7. StageOK' /\ PagesFull' /\ IterOK'
  BY <1>1, <1>2, <1>3, <1>4, <1>6 DEF StageOK, PagesFull, IterOK
<1>. QED
  BY <1>1, <1>3, <1>5, <1>7 DEF LogInv, AbstractLog

LEMMA AppendHereOK ==
  ASSUME LogInv, NEW size \in RecSize, AppendHere(size)
  PROVE  /\ LogInv' /\ OnDisk' = OnDisk /\ NextRecord(size) \in Record
         /\ AbstractLog' = Append(AbstractLog, NextRecord(size)) /\ AbstractLog = Known
<1>. DEFINE r == NextRecord(size)
            front == RecordsIn(SubSeq(disk, 1, cur - 1))
<1>1. /\ pc = "ready" /\ pc' = pc /\ Len(Known) < MaxRecords
      /\ Fits(size, logpage.boundary)
      /\ logpage' = Put(logpage, r) /\ latest' = latest + 1 /\ disk' = disk
      /\ pending' = pending /\ cur' = cur /\ base' = base /\ saved' = saved
      /\ iter' = iter /\ read' = read /\ crashes' = crashes
  BY DEF AppendHere
<1>2. /\ TypeOK /\ PagesWellFormed /\ StageOK /\ PagesFull /\ Behind /\ SavedIsDurable
      /\ Len(disk) \in Nat /\ Len(Known) \in Nat /\ Known \in Seq(Record)
      /\ front \in Seq(Record) /\ RecordsOf(logpage) \in Seq(Record)
      /\ logpage \in PageType /\ WellFormed(logpage)
      /\ cur = Len(disk) /\ cur # 0 /\ disk[cur] \in PageType
  BY <1>1, LenProperties, Views DEF LogInv, TypeOK, PagesWellFormed, StageOK
<1>3. r \in Record /\ r.size = size
  <2>1. Len(Known) + 1 \in 1..MaxRecords
    BY <1>1, <1>2, LogMgrAssumption
  <2>. QED
    BY <2>1 DEF NextRecord, Record
<1>. HIDE DEF r
<1>4. /\ logpage.boundary \in 0..BlockSize /\ size \in Nat /\ BlockSize \in Nat
      /\ size >= 4
  BY <1>2, LogMgrAssumption DEF PageType
<1>5. logpage.boundary - r.size \in 0..BlockSize /\ logpage.boundary - r.size >= 4
  BY <1>1, <1>3, <1>4 DEF Fits
<1>6. /\ logpage' \in PageType /\ logpage'.boundary = logpage.boundary - r.size
      /\ logpage'.recs = <<r>> \o logpage.recs
      /\ RecordsOf(logpage') = Append(RecordsOf(logpage), r)
  BY <1>1, <1>2, <1>3, <1>5, PutIs
<1>7. WellFormed(logpage')
  <2>1. logpage.boundary = BlockSize - Bytes(logpage.recs)
    BY <1>2, <1>4, <1>5, <1>3, ZeroPageIs DEF WellFormed
  <2>2. Bytes(logpage.recs) \in Nat /\ Bytes(logpage'.recs) = Bytes(logpage.recs) + r.size
    <3>1. logpage.recs \in Seq(Elem) /\ r \in Elem
      BY <1>2, <1>3 DEF PageType, Elem
    <3>. QED
      BY <1>6, <3>1, BytesPut
  <2>3. logpage'.boundary = BlockSize - Bytes(logpage'.recs)
    BY <1>3, <1>4, <1>6, <2>1, <2>2
  <2>. QED
    BY <1>5, <1>6, <2>3 DEF WellFormed
<1>8. PagesWellFormed'
  BY <1>1, <1>2, <1>7 DEF PagesWellFormed
<1>9. Known' = Append(Known, r)
  <2>1. PICK w : w = Append(RecordsOf(logpage), r)
    OBVIOUS
  <2>2. Known' = front \o w
    BY <1>1, <1>6, <2>1 DEF Known
  <2>3. Known = front \o RecordsOf(logpage)
    BY DEF Known
  <2>. HIDE DEF front
  <2>. QED
    BY <1>2, <1>3, <2>1, <2>2, <2>3, AppendConcat
<1>10. Len(Known') = Len(Known) + 1
  BY <1>2, <1>3, <1>9, AppendProperties
<1>11. base + latest = Len(Known) /\ base \in Nat /\ latest \in Nat /\ base + saved <= Len(OnDisk)
  BY <1>1, <1>2 DEF SavedIsDurable, TypeOK
<1>12. latest' \in 0..MaxRecords
  BY <1>1, <1>2, <1>11, LogMgrAssumption
<1>13. TypeOK'
  BY <1>1, <1>2, <1>6, <1>12 DEF TypeOK
<1>14. StageOK' /\ PagesFull' /\ IterOK'
  BY <1>1, <1>2 DEF StageOK, PagesFull, IterOK
<1>15. Behind'
  <2>1. IsPrefix(RecordsOf(disk[cur]), RecordsOf(logpage)) /\ RecordsOf(disk[cur]) \in Seq(Record)
    BY <1>1, <1>2, RecordsOfPage DEF Behind
  <2>2. <<r>> \in Seq(Record) /\ RecordsOf(logpage') = RecordsOf(logpage) \o <<r>>
    BY <1>2, <1>3, <1>6, AppendIsConcat
  <2>3. IsPrefix(RecordsOf(disk[cur]), RecordsOf(logpage) \o <<r>>)
    BY <1>2, <2>1, <2>2, PrefixConcat
  <2>. QED
    BY <1>1, <2>2, <2>3 DEF Behind
<1>16. OnDisk' = OnDisk
  BY <1>1 DEF OnDisk
<1>17. SavedIsDurable' /\ Bounded'
  BY <1>1, <1>2, <1>10, <1>11, <1>16, LogMgrAssumption DEF SavedIsDurable, Bounded, AbstractLog
<1>. QED
  BY <1>1, <1>3, <1>8, <1>9, <1>13, <1>14, <1>15, <1>16, <1>17 DEF LogInv, AbstractLog, r

LEMMA ExtendOK ==
  ASSUME LogInv, Extend
  PROVE  LogInv' /\ OnDisk' = OnDisk /\ AbstractLog' = AbstractLog
<1>1. /\ pc = "extend" /\ pc' = "format" /\ disk' = Append(disk, ZeroPage)
      /\ pending' = pending /\ cur' = cur /\ base' = base /\ saved' = saved
      /\ logpage' = logpage /\ latest' = latest
      /\ iter' = iter /\ read' = read /\ crashes' = crashes
  BY DEF Extend, memory
<1>2. /\ TypeOK /\ PagesWellFormed /\ StageOK /\ PagesFull /\ Behind /\ SavedIsDurable /\ Bounded
      /\ Len(disk) \in Nat /\ OnDisk \in Seq(Record)
      /\ disk \in Seq(PageType) /\ cur = Len(disk) /\ ZeroPage \in PageType
  BY <1>1, LenProperties, Views, ZeroPageIs DEF LogInv, TypeOK, StageOK
<1>3. /\ disk' \in Seq(PageType) /\ Len(disk') = Len(disk) + 1
      /\ \A i \in 1..Len(disk) : disk'[i] = disk[i]
      /\ disk'[Len(disk) + 1] = ZeroPage
  BY <1>1, <1>2, AppendProperties
<1>4. OnDisk' = OnDisk
  <2>1. RecordsIn(disk') = RecordsIn(disk) \o <<>>
    BY <1>1, <1>2, RecordsAppend, ZeroPageIs
  <2>. QED
    BY <1>2, <2>1, ConcatEmptySeq DEF OnDisk
<1>5. Known' = Known
  <2>1. CASE cur = 0
    <3>1. SubSeq(disk, 1, cur - 1) = <<>> /\ SubSeq(disk', 1, cur - 1) = <<>>
      BY <2>1, SubSeqEmpty
    <3>. QED
      BY <1>1, <3>1 DEF Known
  <2>2. CASE cur # 0
    <3>1. cur - 1 \in 0..Len(disk)
      BY <1>2, <2>2
    <3>2. SubSeq(disk', 1, cur - 1) = SubSeq(disk, 1, cur - 1)
      BY <1>1, <1>2, <3>1, AppendKeeps
    <3>. QED
      BY <1>1, <3>2 DEF Known
  <2>. QED
    BY <2>1, <2>2
<1>6. TypeOK'
  BY <1>1, <1>2, <1>3 DEF TypeOK
<1>7. PagesWellFormed'
  <2>1. WellFormed(logpage) /\ \A i \in 1..Len(disk) : WellFormed(disk[i])
    BY <1>2 DEF PagesWellFormed
  <2>2. \A i \in 1..(Len(disk) + 1) : WellFormed(disk'[i])
    <3>1. WellFormed(ZeroPage)
      BY DEF WellFormed
    <3>2. \A i \in 1..(Len(disk) + 1) : i \in 1..Len(disk) \/ i = Len(disk) + 1
      BY <1>2
    <3>. QED
      BY <1>3, <2>1, <3>1, <3>2
  <2>3. DOMAIN disk' = 1..(Len(disk) + 1)
    BY <1>3, LenProperties
  <2>. QED
    BY <1>1, <2>1, <2>2, <2>3 DEF PagesWellFormed
<1>8. StageOK'
  BY <1>1, <1>2, <1>3, <1>5 DEF StageOK
<1>9. Behind' /\ PagesFull' /\ IterOK'
  BY <1>1, <1>2, <1>3 DEF Behind, PagesFull, IterOK
<1>10. AbstractLog' = AbstractLog
  BY <1>1, <1>5 DEF AbstractLog
<1>11. SavedIsDurable' /\ Bounded'
  BY <1>1, <1>2, <1>4, <1>5, <1>10 DEF SavedIsDurable, Bounded
<1>. QED
  BY <1>4, <1>6, <1>7, <1>8, <1>9, <1>10, <1>11 DEF LogInv

LEMMA FormatOK ==
  ASSUME LogInv, Format
  PROVE  /\ LogInv' /\ OnDisk' = OnDisk
         /\ \/ AbstractLog' = AbstractLog
            \/ pending \in Record /\ AbstractLog' = Append(AbstractLog, pending)
<1>. DEFINE n == Len(disk)
            front == RecordsIn(SubSeq(disk, 1, n - 1))
<1>1. /\ pc = "format" /\ pc' = "ready" /\ disk' = [disk EXCEPT ![Len(disk)] = FreshPage]
      /\ pending' = NoRecord /\ cur' = Len(disk) /\ base' = base /\ saved' = saved
      /\ iter' = iter /\ read' = read /\ crashes' = crashes
  BY DEF Format
<1>2. /\ TypeOK /\ PagesWellFormed /\ StageOK /\ PagesFull /\ SavedIsDurable
      /\ OnDisk \in Seq(Record) /\ Known \in Seq(Record) /\ Len(Known) \in Nat
      /\ Len(Known) <= MaxRecords /\ AbstractLog = Known
      /\ RecordsOf(logpage) \in Seq(Record)
      /\ disk \in Seq(PageType) /\ FreshPage \in PageType
  BY <1>1, Views, FreshPageIs DEF LogInv, TypeOK, Bounded, AbstractLog
<1>3. n \in 1..n /\ n \in Nat /\ cur = n - 1 /\ disk # <<>> /\ disk[n] = ZeroPage
  BY <1>1, <1>2, LenProperties DEF TypeOK, StageOK
<1>4. /\ disk' \in Seq(PageType) /\ Len(disk') = n /\ disk'[n] = FreshPage
      /\ \A i \in 1..n : i # n => disk'[i] = disk[i]
      /\ SubSeq(disk', 1, n - 1) = SubSeq(disk, 1, n - 1)
  BY <1>1, <1>2, <1>3, ExceptIs
<1>5. front \in Seq(Record) /\ OnDisk = front \o RecordsOf(ZeroPage)
  BY <1>2, <1>3, PageAt, LastPage DEF OnDisk
<1>6. disk' # <<>>
  BY <1>3, <1>4
<1>7. OnDisk' = front \o RecordsOf(FreshPage)
  BY <1>4, <1>6, LastPage DEF OnDisk
<1>8. Known' = front \o RecordsOf(logpage')
  BY <1>1, <1>4 DEF Known
<1>. HIDE DEF n, front
<1>9. OnDisk = front /\ OnDisk' = front
  BY <1>5, <1>7, ZeroPageIs, FreshPageIs, ConcatEmptySeq
<1>10. Known = front
  <2>1. CASE cur = 0
    <3>1. logpage = ZeroPage
      BY <1>1, <1>2, <2>1 DEF StageOK
    <3>2. Known = <<>>
      BY <2>1, <3>1, Views, ZeroPageIs
    <3>3. SubSeq(disk, 1, n - 1) = <<>>
      BY <1>3, <2>1, SubSeqEmpty
    <3>. QED
      BY <3>2, <3>3, NoPages DEF front
  <2>2. CASE cur # 0
    <3>1. disk[cur] = logpage
      BY <1>1, <1>2, <2>2 DEF StageOK
    <3>2. Known = RecordsIn(SubSeq(disk, 1, cur))
      BY <2>2, <3>1, Views
    <3>. QED
      BY <1>3, <3>2 DEF front
  <2>. QED
    BY <2>1, <2>2
<1>11. \A i \in 1..n : WellFormed(disk'[i])
  <2>1. \A i \in 1..n : WellFormed(disk[i])
    BY <1>2, LenProperties DEF PagesWellFormed, n
  <2>2. WellFormed(FreshPage)
    BY BytesEmpty, FreshPageIs, LogMgrAssumption DEF WellFormed
  <2>. QED
    BY <1>4, <2>1, <2>2
<1>12. DOMAIN disk' = 1..n
  BY <1>4, LenProperties
<1>13. pc' = "ready" /\ cur' = n /\ n # 0
  BY <1>1, <1>3 DEF n
<1>14. PagesFull' /\ StageOK' /\ IterOK'
  <2>1. \A i \in 1..(n - 1) : disk[i].recs # <<>>
    BY <1>2 DEF PagesFull, n
  <2>2. \A i \in 1..(n - 1) : disk'[i].recs # <<>>
    BY <1>3, <1>4, <2>1
  <2>. QED
    BY <1>1, <1>4, <1>13, <2>2 DEF PagesFull, StageOK, IterOK
<1>15. base + latest = Len(Known) /\ base \in Nat /\ latest \in Nat /\ base + saved <= Len(OnDisk)
  BY <1>1, <1>2 DEF SavedIsDurable, TypeOK
<1>16. ASSUME logpage' \in PageType, WellFormed(logpage'), latest' \in 0..MaxRecords,
              RecordsOf(logpage') \in Seq(Record),
              base + latest' = Len(Known'), Len(Known') <= MaxRecords
       PROVE  LogInv' /\ AbstractLog' = Known'
  <2>1. TypeOK'
    BY <1>1, <1>2, <1>4, <1>13, <1>3, <1>16 DEF TypeOK
  <2>2. PagesWellFormed'
    BY <1>11, <1>12, <1>16 DEF PagesWellFormed
  <2>3. IsPrefix(<<>>, RecordsOf(logpage'))
    BY <1>16, PrefixEmpty
  <2>4. Behind'
    BY <1>4, <1>13, <2>3, FreshPageIs DEF Behind
  <2>5. SavedIsDurable' /\ Bounded' /\ AbstractLog' = Known'
    BY <1>1, <1>9, <1>15, <1>16 DEF SavedIsDurable, Bounded, AbstractLog
  <2>. QED
    BY <1>14, <2>1, <2>2, <2>4, <2>5 DEF LogInv
<1>17. CASE pending = NoRecord /\ logpage' = FreshPage /\ latest' = latest
  <2>1. Known' = Known
    BY <1>5, <1>8, <1>10, <1>17, FreshPageIs, ConcatEmptySeq
  <2>2. WellFormed(FreshPage)
    BY BytesEmpty, FreshPageIs, LogMgrAssumption DEF WellFormed
  <2>3. RecordsOf(FreshPage) \in Seq(Record) /\ latest \in 0..MaxRecords
    BY <1>2, FreshPageIs, EmptySeq DEF TypeOK
  <2>4. LogInv' /\ AbstractLog' = Known'
    BY <1>2, <1>15, <1>16, <1>17, <2>1, <2>2, <2>3
  <2>. QED
    BY <1>2, <1>9, <2>1, <2>4
<1>18. CASE pending # NoRecord /\ logpage' = Put(FreshPage, pending) /\ latest' = latest + 1
  <2>1. pending \in Record /\ pending.lsn = Len(Known) + 1
    BY <1>1, <1>2, <1>18 DEF TypeOK, StageOK
  <2>2. /\ pending.size \in Nat /\ pending.size <= BlockSize - 4 /\ pending.lsn <= MaxRecords
        /\ BlockSize \in Nat
    <3>1. pending.size \in RecSize /\ pending.lsn \in 1..MaxRecords
      BY <2>1 DEF Record
    <3>2. BlockSize \in Nat /\ \A x \in RecSize : x \in Nat /\ x <= BlockSize - 4
      BY LogMgrAssumption
    <3>3. \A x \in 1..MaxRecords : x <= MaxRecords
      BY LogMgrAssumption
    <3>. QED
      BY <3>1, <3>2, <3>3
  <2>3. FreshPage.boundary - pending.size \in 0..BlockSize /\ FreshPage.boundary - pending.size >= 4
    BY <2>2, FreshPageIs
  <2>4. /\ logpage' \in PageType /\ logpage'.boundary = BlockSize - pending.size
        /\ logpage'.recs = <<pending>> \o <<>>
        /\ RecordsOf(logpage') = Append(<<>>, pending)
    BY <1>2, <1>18, <2>1, <2>3, PutIs, FreshPageIs
  <2>5. Bytes(logpage'.recs) = pending.size
    <3>1. pending \in Elem /\ <<>> \in Seq(Elem)
      BY <2>1, EmptySeq DEF Elem
    <3>2. Bytes(<<pending>> \o <<>>) = Bytes(<<>>) + pending.size
      BY <3>1, BytesPut
    <3>. QED
      BY <2>2, <2>4, <3>2, BytesEmpty
  <2>6. WellFormed(logpage')
    BY <2>3, <2>4, <2>5, FreshPageIs DEF WellFormed
  <2>7. Known' = Append(Known, pending) /\ RecordsOf(logpage') \in Seq(Record)
    <3>1. <<>> \in Seq(Record)
      BY EmptySeq
    <3>2. RecordsOf(logpage') \in Seq(Record)
      BY <2>1, <2>4, <3>1
    <3>3. front \o RecordsOf(logpage') = Append(front \o <<>>, pending)
      BY <1>5, <2>1, <2>4, <3>1, AppendConcat
    <3>4. front \o <<>> = front
      BY <1>5, ConcatEmptySeq
    <3>. QED
      BY <1>8, <1>10, <3>2, <3>3, <3>4
  <2>8. Len(Known') = Len(Known) + 1 /\ Len(Known) + 1 <= MaxRecords
    BY <1>2, <2>1, <2>2, <2>7, AppendProperties
  <2>9. latest' \in 0..MaxRecords /\ base + latest' = Len(Known')
    BY <1>2, <1>15, <1>18, <2>8, LogMgrAssumption
  <2>10. LogInv' /\ AbstractLog' = Known'
    BY <1>16, <2>4, <2>6, <2>7, <2>8, <2>9
  <2>. QED
    BY <1>2, <1>9, <2>1, <2>7, <2>10
<1>. QED
  BY <1>17, <1>18 DEF Format

LEMMA IteratorOK ==
  ASSUME LogInv, Iterator
  PROVE  LogInv' /\ OnDisk' = Known /\ AbstractLog' = AbstractLog /\ AbstractLog = Known
<1>. DEFINE front == RecordsIn(SubSeq(disk, 1, cur - 1))
<1>1. /\ pc = "ready" /\ FlushImpl /\ saved' = latest /\ pc' = "iterating" /\ pending' = pending
      /\ logpage' = logpage /\ cur' = cur /\ latest' = latest /\ base' = base
      /\ iter' = [blk |-> cur, rest |-> logpage.recs] /\ read' = <<>> /\ crashes' = crashes
  BY DEF Iterator, FlushImpl
<1>2. /\ TypeOK /\ StageOK /\ PagesFull /\ Len(disk) \in Nat /\ logpage \in PageType
      /\ front \in Seq(Record) /\ Known = front \o RecordsOf(logpage)
      /\ RecordsOf(logpage) \in Seq(Record)
  BY LenProperties, Views DEF LogInv, TypeOK, Known
<1>3. /\ disk' \in Seq(PageType) /\ Len(disk') = Len(disk) /\ disk'[cur] = logpage
      /\ \A i \in 1..Len(disk) : i # cur => disk'[i] = disk[i]
      /\ SubSeq(disk', 1, cur - 1) = SubSeq(disk, 1, cur - 1)
      /\ cur = Len(disk) /\ cur # 0 /\ cur \in 1..Len(disk)
      /\ OnDisk' = Known /\ Known' = Known /\ PagesWellFormed' /\ Behind'
      /\ SavedIsDurable' /\ Bounded' /\ AbstractLog' = AbstractLog
  BY <1>1, FlushWrites
<1>4. TypeOK'
  <2>1. logpage.recs \in Seq(Record \cup {EmptyRecord}) /\ <<>> \in Seq(Record \cup {EmptyRecord})
    BY <1>2, EmptySeq DEF PageType
  <2>. QED
    BY <1>1, <1>2, <1>3, <2>1 DEF TypeOK
<1>5. StageOK' /\ PagesFull'
  BY <1>1, <1>2, <1>3 DEF StageOK, PagesFull
<1>6. Reverse(Known) = Real(logpage.recs) \o Reverse(front)
  <2>1. Real(logpage.recs) \in Seq(Record) /\ RecordsOf(logpage) = Reverse(Real(logpage.recs))
    BY <1>2, RecordsOfPage DEF RecordsOf
  <2>2. Reverse(RecordsOf(logpage)) = Real(logpage.recs)
    BY <2>1, ReverseTwice
  <2>. HIDE DEF front
  <2>. QED
    BY <1>2, <2>2, ReverseConcat
<1>7. IterOK'
  <2>1. Real(read') = <<>>
    BY <1>1, RealEmpty
  <2>2. Real(logpage.recs) \o Reverse(front) \in Seq(Record)
    <3>1. Real(logpage.recs) \in Seq(Record) /\ Reverse(front) \in Seq(Record)
      BY <1>2, RecordsOfPage, ReverseIs
    <3>. HIDE DEF front
    <3>. QED
      BY <3>1, ConcatProperties
  <2>3. Reverse(Known') = Real(read') \o (Real(logpage.recs) \o Reverse(front))
    BY <1>3, <1>6, <2>1, <2>2, ConcatEmptySeq
  <2>4. /\ iter'.rest = logpage.recs /\ iter'.blk = cur /\ iter'.blk \in 1..cur'
        /\ front = RecordsIn(SubSeq(disk', 1, iter'.blk - 1))
    BY <1>1, <1>3
  <2>. HIDE DEF front
  <2>. QED
    BY <2>3, <2>4 DEF IterOK
<1>. QED
  BY <1>1, <1>3, <1>4, <1>5, <1>7 DEF LogInv, AbstractLog

(* What next reads from is what the iterator has still to return.          *)
LEMMA NextReads ==
  ASSUME LogInv, pc = "iterating", HasNext
  PROVE  /\ NextBlock \in 1..cur /\ NextRecs \in Seq(Elem) /\ NextRecs # <<>>
         /\ RecordsIn(SubSeq(disk, 1, NextBlock - 1)) \in Seq(Record)
         /\ Reverse(Known) = Real(read) \o (Real(NextRecs)
                               \o Reverse(RecordsIn(SubSeq(disk, 1, NextBlock - 1))))
<1>1. /\ TypeOK /\ disk \in Seq(PageType) /\ Len(disk) \in Nat
      /\ cur = Len(disk) /\ iter.blk \in 1..cur /\ iter.rest \in Seq(Elem)
      /\ read \in Seq(Elem)
      /\ Reverse(Known) = Real(read) \o (Real(iter.rest)
                            \o Reverse(RecordsIn(SubSeq(disk, 1, iter.blk - 1))))
      /\ \A i \in 1..(Len(disk) - 1) : disk[i].recs # <<>>
  BY LenProperties DEF LogInv, TypeOK, StageOK, IterOK, PagesFull, Elem
<1>2. CASE iter.rest # <<>>
  <2>1. NextBlock = iter.blk /\ NextRecs = iter.rest
    BY <1>2 DEF NextBlock, NextRecs
  <2>. QED
    BY <1>1, <1>2, <2>1, PageAt
<1>3. CASE iter.rest = <<>>
  <2>. DEFINE b == iter.blk - 1
              front == RecordsIn(SubSeq(disk, 1, b - 1))
  <2>1. iter.blk > 1
    BY <1>3 DEF HasNext
  <2>2. b \in 1..Len(disk) /\ b \in 1..(Len(disk) - 1) /\ b \in 1..cur
    BY <1>1, <2>1
  <2>3. NextBlock = b /\ NextRecs = disk[b].recs
    BY <1>3 DEF NextBlock, NextRecs
  <2>. HIDE DEF b
  <2>4. /\ disk[b] \in PageType /\ front \in Seq(Record) /\ RecordsOf(disk[b]) \in Seq(Record)
        /\ RecordsIn(SubSeq(disk, 1, b)) = front \o RecordsOf(disk[b])
    BY <1>1, <2>2, PageAt
  <2>5. Reverse(RecordsOf(disk[b])) = Real(disk[b].recs) /\ Real(disk[b].recs) \in Seq(Record)
    BY <2>4, RecordsOfPage, ReverseTwice DEF RecordsOf
  <2>. HIDE DEF front
  <2>6. Reverse(RecordsIn(SubSeq(disk, 1, b))) = Real(disk[b].recs) \o Reverse(front)
    BY <2>4, <2>5, ReverseConcat
  <2>7. Real(disk[b].recs) \o Reverse(front) \in Seq(Record)
    BY <2>4, <2>5, ReverseIs, ConcatProperties
  <2>8. Reverse(Known) = Real(read) \o (<<>> \o Reverse(RecordsIn(SubSeq(disk, 1, b))))
    BY <1>1, <1>3, RealEmpty DEF b
  <2>9. <<>> \o Reverse(RecordsIn(SubSeq(disk, 1, b))) = Real(disk[b].recs) \o Reverse(front)
    BY <2>6, <2>7, ConcatEmptySeq
  <2>10. disk[b].recs \in Seq(Elem) /\ disk[b].recs # <<>>
    BY <1>1, <2>2, <2>4 DEF PageType, Elem
  <2>11. Reverse(Known) = Real(read) \o (Real(NextRecs) \o Reverse(front))
    BY <2>3, <2>8, <2>9
  <2>. QED
    BY <2>2, <2>3, <2>4, <2>10, <2>11 DEF front
<1>. QED
  BY <1>2, <1>3

LEMMA IterNextOK ==
  ASSUME LogInv, IterNext
  PROVE  LogInv' /\ OnDisk' = OnDisk /\ AbstractLog' = AbstractLog
<1>. DEFINE h == Head(NextRecs)
            w == Tail(NextRecs)
            back == Reverse(RecordsIn(SubSeq(disk, 1, NextBlock - 1)))
<1>1. /\ pc = "iterating" /\ HasNext /\ pc' = pc /\ disk' = disk /\ pending' = pending
      /\ cur' = cur /\ base' = base /\ saved' = saved /\ logpage' = logpage
      /\ latest' = latest /\ crashes' = crashes
      /\ read' = Append(read, h) /\ iter' = [blk |-> NextBlock, rest |-> w]
  BY DEF IterNext, memory
<1>2. /\ TypeOK /\ PagesWellFormed /\ StageOK /\ Behind /\ SavedIsDurable /\ Bounded /\ PagesFull
      /\ read \in Seq(Elem) /\ cur \in 0..Len(disk) /\ Len(disk) \in Nat
  BY LenProperties DEF LogInv, TypeOK, Elem
<1>3. /\ NextBlock \in 1..cur /\ NextRecs \in Seq(Elem) /\ NextRecs # <<>>
      /\ back \in Seq(Record)
      /\ Reverse(Known) = Real(read) \o (Real(NextRecs) \o back)
  BY <1>1, NextReads, ReverseIs
<1>4. h \in Elem /\ w \in Seq(Elem) /\ NextRecs = <<h>> \o w
  BY <1>3, HeadTailProperties
<1>. HIDE DEF h, w, back
<1>5. OnDisk' = OnDisk /\ Known' = Known
  BY <1>1 DEF OnDisk, Known
<1>6. read' \in Seq(Elem) /\ read' = read \o <<h>> /\ <<h>> \in Seq(Elem)
  BY <1>1, <1>2, <1>4, AppendIsConcat
<1>7. TypeOK'
  <2>1. NextBlock \in 0..Len(disk)
    BY <1>2, <1>3
  <2>. QED
    BY <1>1, <1>2, <1>4, <1>6, <2>1 DEF TypeOK, Elem
<1>8. PagesWellFormed' /\ StageOK' /\ Behind' /\ SavedIsDurable' /\ PagesFull'
  BY <1>1, <1>2, <1>5 DEF PagesWellFormed, StageOK, Behind, SavedIsDurable, PagesFull
<1>9. AbstractLog' = AbstractLog /\ Bounded'
  BY <1>1, <1>2, <1>5 DEF AbstractLog, Bounded
<1>10. IterOK'
  <2>1. /\ Real(read') = Real(read) \o Real(<<h>>) /\ Real(NextRecs) = Real(<<h>>) \o Real(w)
    BY <1>2, <1>4, <1>6, RealConcat
  <2>2. /\ Real(read) \in Seq(Record) /\ Real(<<h>>) \in Seq(Record) /\ Real(w) \in Seq(Record)
    BY <1>2, <1>4, <1>6, RealAppend
  <2>3. Real(w) \o back \in Seq(Record)
    BY <1>3, <2>2, ConcatProperties
  <2>4. (Real(<<h>>) \o Real(w)) \o back = Real(<<h>>) \o (Real(w) \o back)
    <3>1. PICK x \in Seq(Record) : x = Real(<<h>>)
      BY <2>2
    <3>2. PICK y \in Seq(Record) : y = Real(w)
      BY <2>2
    <3>3. PICK z \in Seq(Record) : z = back
      BY <1>3
    <3>4. (x \o y) \o z = x \o (y \o z)
      BY ConcatThree
    <3>. QED
      BY <3>1, <3>2, <3>3, <3>4
  <2>5. (Real(read) \o Real(<<h>>)) \o (Real(w) \o back)
          = Real(read) \o (Real(<<h>>) \o (Real(w) \o back))
    <3>1. PICK u \in Seq(Record) : u = Real(w) \o back
      BY <2>3
    <3>2. PICK x \in Seq(Record) : x = Real(read)
      BY <2>2
    <3>3. PICK y \in Seq(Record) : y = Real(<<h>>)
      BY <2>2
    <3>4. (x \o y) \o u = x \o (y \o u)
      BY ConcatThree
    <3>. QED
      BY <3>1, <3>2, <3>3, <3>4
  <2>6. Reverse(Known') = Real(read') \o (Real(w) \o back)
    BY <1>3, <1>5, <2>1, <2>4, <2>5
  <2>7. /\ iter'.rest = w /\ iter'.blk = NextBlock /\ iter'.blk \in 1..cur'
        /\ back = Reverse(RecordsIn(SubSeq(disk', 1, iter'.blk - 1)))
    BY <1>1, <1>3 DEF back
  <2>. QED
    BY <2>6, <2>7 DEF IterOK
<1>. QED
  BY <1>5, <1>7, <1>8, <1>9, <1>10 DEF LogInv

LEMMA IterDoneOK ==
  ASSUME LogInv, IterDone
  PROVE  LogInv' /\ OnDisk' = OnDisk /\ AbstractLog' = AbstractLog
<1>1. /\ pc = "iterating" /\ pc' = "ready" /\ disk' = disk /\ pending' = pending
      /\ cur' = cur /\ base' = base /\ saved' = saved /\ logpage' = logpage
      /\ latest' = latest /\ crashes' = crashes
      /\ iter' = [blk |-> 0, rest |-> <<>>] /\ read' = <<>>
  BY DEF IterDone, memory
<1>2. /\ TypeOK /\ PagesWellFormed /\ StageOK /\ Behind /\ SavedIsDurable /\ Bounded /\ PagesFull
      /\ Len(disk) \in Nat /\ <<>> \in Seq(Record \cup {EmptyRecord})
  BY LenProperties, EmptySeq DEF LogInv, TypeOK
<1>3. OnDisk' = OnDisk /\ Known' = Known
  BY <1>1 DEF OnDisk, Known
<1>4. TypeOK'
  BY <1>1, <1>2 DEF TypeOK
<1>5. /\ PagesWellFormed' /\ StageOK' /\ Behind' /\ SavedIsDurable' /\ PagesFull' /\ IterOK'
  BY <1>1, <1>2, <1>3 DEF PagesWellFormed, StageOK, Behind, SavedIsDurable, PagesFull, IterOK
<1>6. AbstractLog' = AbstractLog /\ Bounded'
  BY <1>1, <1>2, <1>3 DEF AbstractLog, Bounded
<1>. QED
  BY <1>3, <1>4, <1>5, <1>6 DEF LogInv

(* A crash leaves what was on disk, which was the beginning of the log.    *)
LEMMA CrashOK ==
  ASSUME LogInv, Crash
  PROVE  /\ LogInv' /\ OnDisk' = OnDisk
         /\ AbstractLog' = SubSeq(AbstractLog, 1, Len(OnDisk))
<1>1. /\ pc # "closed" /\ pc' = "closed" /\ disk' = disk /\ pending' = NoRecord
      /\ cur' = 0 /\ base' = 0 /\ saved' = 0 /\ logpage' = ZeroPage
      /\ latest' = 0 /\ crashes' = crashes + 1 /\ crashes < MaxCrashes
      /\ iter' = [blk |-> 0, rest |-> <<>>] /\ read' = <<>>
  BY DEF Crash, Closed
<1>2. /\ TypeOK /\ PagesWellFormed /\ PagesFull /\ Bounded /\ AbstractLog = Known
      /\ Len(disk) \in Nat /\ <<>> \in Seq(Record \cup {EmptyRecord})
      /\ OnDisk \in Seq(Record) /\ Known \in Seq(Record)
      /\ Len(OnDisk) \in Nat /\ Len(Known) \in Nat
  BY <1>1, LenProperties, EmptySeq, Views DEF LogInv, TypeOK, AbstractLog
<1>3. IsPrefix(OnDisk, Known)
  BY <1>1, DiskIsPrefix
<1>4. OnDisk' = OnDisk /\ AbstractLog' = OnDisk
  BY <1>1 DEF OnDisk, AbstractLog
<1>5. Len(OnDisk) <= Len(Known)
  BY <1>2, <1>3, PrefixIff
<1>6. OnDisk = SubSeq(Known, 1, Len(OnDisk))
  <2>1. SubSeq(OnDisk, 1, Len(OnDisk)) = OnDisk
    BY <1>2, SubSeqFull
  <2>. QED
    BY <1>3, <2>1 DEF IsPrefix
<1>7. TypeOK'
  <2>1. crashes + 1 \in 0..MaxCrashes /\ 0 \in 0..MaxRecords /\ 0 \in 0..Len(disk)
    BY <1>1, <1>2, LogMgrAssumption DEF TypeOK
  <2>. QED
    BY <1>1, <1>2, <2>1, ZeroPageIs DEF TypeOK
<1>8. PagesWellFormed'
  BY <1>1, <1>2 DEF PagesWellFormed, WellFormed
<1>9. StageOK' /\ Behind' /\ SavedIsDurable' /\ PagesFull' /\ IterOK'
  BY <1>1, <1>2 DEF StageOK, Behind, SavedIsDurable, PagesFull, IterOK
<1>10. Bounded'
  BY <1>2, <1>4, <1>5, LogMgrAssumption DEF Bounded
<1>. QED
  BY <1>2, <1>4, <1>6, <1>7, <1>8, <1>9, <1>10 DEF LogInv

----------------------------------------------------------------------------
LEMMA StutterOK ==
  ASSUME LogInv, UNCHANGED vars
  PROVE  LogInv' /\ OnDisk' = OnDisk /\ AbstractLog' = AbstractLog
<1>1. /\ pc' = pc /\ disk' = disk /\ pending' = pending /\ cur' = cur /\ base' = base
      /\ saved' = saved /\ logpage' = logpage /\ latest' = latest /\ crashes' = crashes
      /\ iter' = iter /\ read' = read
  BY DEF vars
<1>2. OnDisk' = OnDisk /\ Known' = Known
  BY <1>1 DEF OnDisk, Known
<1>3. AbstractLog' = AbstractLog
  BY <1>1, <1>2 DEF AbstractLog
<1>. QED
  BY <1>1, <1>2, <1>3 DEF LogInv, TypeOK, PagesWellFormed, StageOK, Behind, SavedIsDurable,
                          Bounded, PagesFull, IterOK

LEMMA LogStep == LogInv /\ [Next]_vars => LogInv'
<1>. SUFFICES ASSUME LogInv, [Next]_vars PROVE LogInv'
  OBVIOUS
<1>1. CASE Open
  BY <1>1, OpenOK
<1>2. CASE Extend
  BY <1>2, ExtendOK
<1>3. CASE Format
  BY <1>3, FormatOK
<1>4. CASE Iterator
  BY <1>4, IteratorOK
<1>5. CASE IterNext
  BY <1>5, IterNextOK
<1>6. CASE IterDone
  BY <1>6, IterDoneOK
<1>7. CASE Crash
  BY <1>7, CrashOK
<1>8. ASSUME NEW size \in RecSize, AppendHere(size) PROVE LogInv'
  BY <1>8, AppendHereOK
<1>9. ASSUME NEW size \in RecSize, AppendFlush(size) PROVE LogInv'
  BY <1>9, AppendFlushOK
<1>10. ASSUME NEW lsn \in 1..latest, Flush(lsn) PROVE LogInv'
  BY <1>10, FlushOK
<1>11. CASE UNCHANGED vars
  BY <1>11, StutterOK
<1>. QED
  BY <1>1, <1>2, <1>3, <1>4, <1>5, <1>6, <1>7, <1>8, <1>9, <1>10, <1>11 DEF Next

LEMMA LogInvariant == Spec => []LogInv
BY InitOK, LogStep, PTL DEF Spec

(* Every operation keeps the file a sequence of pages whose boundary lies  *)
(* in the block, the current block inside the file, the counters of        *)
(* records within the log and the record append holds a record or none.    *)
THEOREM LogKeepsTypes == Spec => []TypeOK
<1>1. LogInv => TypeOK
  BY DEF LogInv
<1>. QED
  BY <1>1, LogInvariant, PTL

(* append, flush, the constructor and a crash leave every page, in memory  *)
(* and on disk, with its boundary at the newest record and the boundary    *)
(* word under no record, whatever the sizes of the records.                *)
THEOREM PagesStayWellFormed == Spec => []PagesWellFormed
<1>1. LogInv => PagesWellFormed
  BY DEF LogInv
<1>. QED
  BY <1>1, LogInvariant, PTL

(* The LSN of the last append is the number of records the process has     *)
(* appended, whatever pages they fell into, and every record up to         *)
(* last_saved_lsn_ is on disk: flush skips no record that is not.          *)
THEOREM SavedRecordsAreOnDisk == Spec => []SavedIsDurable
<1>1. LogInv => SavedIsDurable
  BY DEF LogInv
<1>. QED
  BY <1>1, LogInvariant, PTL

(* While has_next is true next finds a record, in the page or in the one   *)
(* before it: no page but the last of the file is ever without one.        *)
THEOREM IteratorFindsRecords == Spec => []IteratorNeverThrows
<1>1. LogInv => IteratorNeverThrows
  <2>. SUFFICES ASSUME LogInv, pc = "iterating", HasNext PROVE NextRecs # <<>>
    BY DEF IteratorNeverThrows
  <2>. QED
    BY NextReads
<1>. QED
  BY <1>1, LogInvariant, PTL

(* What the iterator returns is the log backwards, without a gap, and all  *)
(* of it when has_next is false, across pages, restarts and the pages a    *)
(* crash left unformatted.                                                 *)
THEOREM IteratorReadsBackwards == Spec => []IteratorReadsLog
<1>1. LogInv => IteratorReadsLog
  <2>. SUFFICES ASSUME LogInv, pc = "iterating"
                PROVE  /\ IsPrefix(Real(read), Reverse(Known))
                       /\ ~HasNext => Real(read) = Reverse(Known)
    BY DEF IteratorReadsLog
  <2>. DEFINE front == RecordsIn(SubSeq(disk, 1, iter.blk - 1))
              tail == Real(iter.rest) \o Reverse(front)
  <2>1. /\ disk \in Seq(PageType) /\ Len(disk) \in Nat /\ iter.blk \in 1..Len(disk)
        /\ iter.rest \in Seq(Elem) /\ read \in Seq(Elem)
        /\ Reverse(Known) = Real(read) \o tail
    BY LenProperties DEF LogInv, TypeOK, StageOK, IterOK, Elem
  <2>2. front \in Seq(Record)
    BY <2>1, PageAt
  <2>3. /\ Reverse(front) \in Seq(Record) /\ Real(iter.rest) \in Seq(Record)
        /\ Real(read) \in Seq(Record)
    <3>. HIDE DEF front
    <3>1. Reverse(front) \in Seq(Record)
      BY <2>2, ReverseIs
    <3>2. EmptyRecord \in Elem
      BY EmptyIsElem
    <3>. QED
      BY <2>1, <3>1, <3>2, RealAppend
  <2>4. tail \in Seq(Record)
    <3>. HIDE DEF front
    <3>. QED
      BY <2>3, ConcatProperties
  <2>5. IsPrefix(Real(read), Reverse(Known))
    <3>. HIDE DEF tail
    <3>. QED
      BY <2>1, <2>3, <2>4, PrefixSelf
  <2>6. ASSUME ~HasNext PROVE Real(read) = Reverse(Known)
    <3>1. iter.rest = <<>> /\ iter.blk = 1
      BY <2>1, <2>6 DEF HasNext
    <3>2. SubSeq(disk, 1, iter.blk - 1) = <<>>
      BY <3>1, SubSeqEmpty
    <3>3. front = <<>> /\ Real(iter.rest) = <<>>
      BY <3>1, <3>2, NoPages, RealEmpty
    <3>5. Reverse(<<>>) = <<>>
      BY DEF Reverse
    <3>. HIDE DEF front
    <3>4. tail = <<>>
      BY <3>3, <3>5
    <3>. HIDE DEF tail
    <3>. QED
      BY <2>1, <2>3, <3>4, ConcatEmptySeq
  <2>. QED
    BY <2>5, <2>6
<1>. QED
  BY <1>1, LogInvariant, PTL

(* The page file implements the abstract log: an append adds one record    *)
(* at the end, a flush makes the whole of it durable, and a crash keeps    *)
(* exactly the durable part, whatever pages the records fell into and      *)
(* wherever in a call the process stopped.                                 *)
THEOREM PagesAreALog == Spec => ImplementsDurableLog
<1>1. Init => DL!LogInit
  <2>. SUFFICES ASSUME Init PROVE AbstractLog = <<>> /\ Len(OnDisk) = 0
    BY DEF DL!LogInit
  <2>1. OnDisk = <<>> /\ AbstractLog = OnDisk
    BY NoPages DEF Init, OnDisk, AbstractLog
  <2>. QED
    BY <2>1
<1>2. LogInv /\ [Next]_vars => [DL!LogNext]_(DL!logVars)
  <2>. SUFFICES ASSUME LogInv, [Next]_vars
                PROVE  \/ DL!LogNext
                       \/ AbstractLog' = AbstractLog /\ OnDisk' = OnDisk
    BY DEF DL!logVars
  <2>1. ASSUME OnDisk' = Known, AbstractLog' = AbstractLog, AbstractLog = Known
        PROVE  DL!LogNext
    <3>1. DL!LogFlushAll
      BY <2>1 DEF DL!LogFlushAll, DL!Latest
    <3>. QED
      BY <3>1 DEF DL!LogNext
  <2>2. ASSUME NEW r \in Record, AbstractLog' = Append(AbstractLog, r), OnDisk' = OnDisk
        PROVE  DL!LogNext
    <3>1. DL!LogAppend(r)
      BY <2>2 DEF DL!LogAppend
    <3>. QED
      BY <3>1 DEF DL!LogNext
  <2>3. CASE Open \/ Extend \/ IterNext \/ IterDone \/ UNCHANGED vars
    BY <2>3, OpenOK, ExtendOK, IterNextOK, IterDoneOK, StutterOK
  <2>4. CASE Format
    <3>1. OnDisk' = OnDisk /\ \/ AbstractLog' = AbstractLog
                              \/ pending \in Record /\ AbstractLog' = Append(AbstractLog, pending)
      BY <2>4, FormatOK
    <3>. QED
      BY <2>2, <3>1
  <2>5. CASE Iterator
    BY <2>1, <2>5, IteratorOK
  <2>6. CASE Crash
    <3>1. AbstractLog' = SubSeq(AbstractLog, 1, Len(OnDisk)) /\ OnDisk' = OnDisk
      BY <2>6, CrashOK
    <3>2. DL!LogCrash
      BY <3>1 DEF DL!LogCrash
    <3>. QED
      BY <3>2 DEF DL!LogNext
  <2>7. ASSUME NEW size \in RecSize, AppendHere(size) PROVE DL!LogNext
    <3>1. /\ OnDisk' = OnDisk /\ NextRecord(size) \in Record
          /\ AbstractLog' = Append(AbstractLog, NextRecord(size))
      BY <2>7, AppendHereOK
    <3>. QED
      BY <2>2, <3>1
  <2>8. ASSUME NEW size \in RecSize, AppendFlush(size) PROVE DL!LogNext
    BY <2>1, <2>8, AppendFlushOK
  <2>9. ASSUME NEW lsn \in 1..latest, Flush(lsn) PROVE DL!LogNext
    BY <2>1, <2>9, FlushOK
  <2>. QED
    BY <2>3, <2>4, <2>5, <2>6, <2>7, <2>8, <2>9 DEF Next
<1>. QED
  BY <1>1, <1>2, LogInvariant, PTL DEF Spec, ImplementsDurableLog, DL!LogSpec
=============================================================================
