--------------------------- MODULE Catalog_proofs ---------------------------
(***************************************************************************)
(* Proofs about the parser and the catalogs, for every sequence of         *)
(* statements, every size of a block and any number of processes.          *)
(*                                                                         *)
(* The parser: what a text spells between two places; each parsing         *)
(* function reads what is spelled and accepts nothing else, by induction   *)
(* on the list or the sentence it goes through; so do the sentences.  The  *)
(* catalogs: the types, the start of a process, what is executed, and the  *)
(* dictionary of tables and views that they keep.                          *)
(***************************************************************************)
EXTENDS Catalog, SequenceLemmas

(* The last declaration of a name. *)
LEMMA LastIs ==
  ASSUME NEW S, NEW fields \in Seq(S), NEW name \in Names(fields)
  PROVE  /\ LastOf(fields, name) \in 1..Len(fields)
         /\ fields[LastOf(fields, name)].name = name
         /\ \A j \in 1..Len(fields) : fields[j].name = name => j <= LastOf(fields, name)
<1>. DEFINE n == Len(fields)
            A == {i \in Nat : \E j \in 1..n : fields[j].name = name /\ i = n - j}
            Final(i) == /\ i \in DOMAIN fields /\ fields[i].name = name
                        /\ \A j \in DOMAIN fields : fields[j].name = name => j <= i
<1>1. n \in Nat /\ DOMAIN fields = 1..n
  OBVIOUS
<1>2. PICK k \in 1..n : fields[k].name = name
  BY <1>1 DEF Names, ToSet
<1>3. n - k \in A
  BY <1>1, <1>2
<1>4. PICK m \in A : \A i \in A : m <= i
  BY <1>3, LeastNat
<1>5. PICK l \in 1..n : fields[l].name = name /\ m = n - l
  BY <1>4
<1>. HIDE DEF n, A
<1>6. ASSUME NEW j \in 1..n, fields[j].name = name PROVE j <= l
  <2>1. n - j \in A
    <3>1. n - j \in Nat
      BY <1>1
    <3>. QED
      BY <1>6, <3>1 DEF A
  <2>2. m <= n - j
    BY <1>4, <2>1
  <2>. QED
    BY <1>1, <1>5, <2>2
<1>7. Final(l)
  BY <1>1, <1>5, <1>6
<1>8. Final(LastOf(fields, name))
  BY <1>7, Zenon DEF LastOf
<1>. QED
  BY <1>1, <1>8 DEF n

(* A schema has the fields that were declared, each as its last            *)
(* declaration says (Schema::add_field).                                   *)
LEMMA SchemaIs ==
  ASSUME NEW fields \in Declarations
  PROVE  /\ Schema[fields] \in Declarations
         /\ Len(Schema[fields]) = Len(fields)
         /\ \A i \in 1..Len(fields) :
               /\ LastOf(fields, fields[i].name) \in 1..Len(fields)
               /\ Schema[fields][i] = fields[LastOf(fields, fields[i].name)]
               /\ Schema[fields][i].name = fields[i].name
<1>. DEFINE n == Len(fields)
            sch == [i \in 1..n |-> fields[LastOf(fields, fields[i].name)]]
<1>1. fields \in Seq(Declaration) /\ n \in Nat /\ DOMAIN fields = 1..n
  BY DEF Declarations, Declaration
<1>2. ASSUME NEW i \in 1..n
      PROVE  /\ LastOf(fields, fields[i].name) \in 1..n
             /\ fields[LastOf(fields, fields[i].name)] \in Declaration
             /\ fields[LastOf(fields, fields[i].name)].name = fields[i].name
  <2>1. fields[i].name \in Names(fields)
    BY <1>1 DEF Names, ToSet
  <2>2. /\ LastOf(fields, fields[i].name) \in 1..n
        /\ fields[LastOf(fields, fields[i].name)].name = fields[i].name
    BY <1>1, <2>1, LastIs
  <2>. QED
    BY <1>1, <2>2
<1>3. Schema[fields] = sch
  BY <1>1 DEF Schema
<1>4. sch \in Seq(Declaration) /\ Len(sch) = n
  BY <1>1, <1>2
<1>. QED
  BY <1>1, <1>2, <1>3, <1>4 DEF Declarations, Declaration

----------------------------------------------------------------------------
(* The recursive function of StartOf. *)
Starts(f, sch, n) ==
  f = [k \in 1..n |-> IF k = 1 THEN FlagBytes ELSE f[k - 1] + LengthInBytes(sch[k - 1])]

(* It exists, by induction on how far it is defined. *)
LEMMA StartsExist ==
  ASSUME NEW sch \in Declarations, NEW n \in Nat, n <= Len(sch) + 1
  PROVE  \E f : Starts(f, sch, n)
<1>. DEFINE T == {m \in Nat : m <= Len(sch) + 1 => \E f : Starts(f, sch, m)}
<1>1. 0 \in T
  <2>1. Starts([k \in 1..0 |-> 0], sch, 0)
    BY DEF Starts
  <2>. QED
    BY <2>1
<1>2. ASSUME NEW m \in Nat, m \in T
      PROVE  m + 1 \in T
  <2>. SUFFICES ASSUME m + 1 <= Len(sch) + 1 PROVE \E f : Starts(f, sch, m + 1)
    OBVIOUS
  <2>1. PICK g : Starts(g, sch, m)
    BY <1>2, LenProperties DEF Declarations
  <2>. DEFINE f == [k \in 1..(m + 1) |->
                      IF k = m + 1 THEN IF k = 1 THEN FlagBytes
                                        ELSE g[m] + LengthInBytes(sch[m])
                      ELSE g[k]]
              h == [k \in 1..m |-> IF k = 1 THEN FlagBytes
                                   ELSE g[k - 1] + LengthInBytes(sch[k - 1])]
  <2>2. g = h
    BY <2>1, Zenon DEF Starts
  <2>3. \A k \in 1..m : h[k] = IF k = 1 THEN FlagBytes ELSE g[k - 1] + LengthInBytes(sch[k - 1])
    OBVIOUS
  <2>. HIDE DEF h
  <2>4. ASSUME NEW k \in 1..(m + 1)
        PROVE  f[k] = IF k = 1 THEN FlagBytes ELSE f[k - 1] + LengthInBytes(sch[k - 1])
    <3>1. CASE k = m + 1
      BY <3>1
    <3>2. CASE k # m + 1
      <4>1. /\ k \in 1..m /\ f[k] = g[k]
            /\ k # 1 => k - 1 \in 1..(m + 1) /\ k - 1 # m + 1 /\ f[k - 1] = g[k - 1]
        BY <3>2
      <4>2. g[k] = IF k = 1 THEN FlagBytes ELSE g[k - 1] + LengthInBytes(sch[k - 1])
        BY <2>2, <2>3, <4>1
      <4>. QED
        BY <4>1, <4>2
    <3>. QED
      BY <3>1, <3>2
  <2>5. f = [k \in 1..(m + 1) |-> f[k]]
    OBVIOUS
  <2>. HIDE DEF f
  <2>6. Starts(f, sch, m + 1)
    BY <2>4, <2>5 DEF Starts
  <2>. QED
    BY <2>6
<1>. HIDE DEF T
<1>3. Nat \subseteq T
  BY <1>1, <1>2, SetInduction
<1>. QED
  BY <1>3 DEF T

(* A field starts after the flag and the fields before it. *)
LEMMA StartIs ==
  ASSUME NEW sch \in Declarations
  PROVE  /\ StartOf(sch, 1) = FlagBytes
         /\ \A i \in 1..Len(sch) : StartOf(sch, i + 1) = StartOf(sch, i) + LengthInBytes(sch[i])
<1>. DEFINE n == Len(sch) + 1
            F == CHOOSE f : Starts(f, sch, n)
            h == [k \in 1..n |-> IF k = 1 THEN FlagBytes ELSE F[k - 1] + LengthInBytes(sch[k - 1])]
<1>1. Len(sch) \in Nat /\ n \in Nat /\ n <= Len(sch) + 1
  BY DEF Declarations
<1>2. Starts(F, sch, n)
  BY <1>1, StartsExist, Zenon
<1>3. F = h
  BY <1>2, Zenon DEF Starts
<1>4. \A k \in 1..n : h[k] = IF k = 1 THEN FlagBytes ELSE F[k - 1] + LengthInBytes(sch[k - 1])
  OBVIOUS
<1>5. ASSUME NEW i PROVE StartOf(sch, i) = F[i]
  BY Zenon DEF StartOf, Starts
<1>. HIDE DEF F, h
<1>6. F[1] = FlagBytes /\ \A i \in 1..Len(sch) : F[i + 1] = F[i] + LengthInBytes(sch[i])
  <2>1. F[1] = FlagBytes
    BY <1>1, <1>3, <1>4
  <2>2. ASSUME NEW i \in 1..Len(sch) PROVE F[i + 1] = F[i] + LengthInBytes(sch[i])
    <3>1. i + 1 \in 1..n /\ i + 1 # 1 /\ i + 1 - 1 = i
      BY <1>1
    <3>2. F[i + 1] = F[i + 1 - 1] + LengthInBytes(sch[i + 1 - 1])
      BY <1>3, <1>4, <3>1
    <3>. QED
      BY <3>1, <3>2
  <2>. QED
    BY <2>1, <2>2
<1>. QED
  BY <1>5, <1>6

(* Every field starts at a natural number of bytes. *)
LEMMA StartTyped ==
  ASSUME NEW sch \in Declarations
  PROVE  \A i \in 1..Len(sch) + 1 : StartOf(sch, i) \in Nat
<1>. DEFINE T == {m \in Nat : m + 1 <= Len(sch) + 1 => StartOf(sch, m + 1) \in Nat}
<1>0. Len(sch) \in Nat /\ \A i \in 1..Len(sch) : sch[i] \in Declaration
  <2>1. sch \in Seq(Declaration)
    BY DEF Declarations, Declaration
  <2>. QED
    BY <2>1
<1>1. 0 \in T
  BY StartIs DEF FlagBytes
<1>2. ASSUME NEW m \in Nat, m \in T PROVE m + 1 \in T
  <2>. SUFFICES ASSUME m + 2 <= Len(sch) + 1 PROVE StartOf(sch, m + 2) \in Nat
    BY <1>0
  <2>1. m + 1 \in 1..Len(sch) /\ m + 1 + 1 = m + 2 /\ StartOf(sch, m + 1) \in Nat
    BY <1>0, <1>2
  <2>2. StartOf(sch, m + 1 + 1) = StartOf(sch, m + 1) + LengthInBytes(sch[m + 1])
    BY <2>1, StartIs
  <2>3. LengthInBytes(sch[m + 1]) \in Nat
    <3>1. sch[m + 1] \in Declaration
      BY <1>0, <2>1
    <3>. QED
      BY <3>1 DEF LengthInBytes, Declaration
  <2>. QED
    BY <2>1, <2>2, <2>3
<1>. HIDE DEF T
<1>3. Nat \subseteq T
  BY <1>1, <1>2, SetInduction
<1>4. ASSUME NEW i \in 1..Len(sch) + 1 PROVE StartOf(sch, i) \in Nat
  <2>1. i - 1 \in Nat /\ i - 1 + 1 = i /\ i - 1 \in T
    BY <1>0, <1>3
  <2>. QED
    BY <1>0, <2>1 DEF T
<1>. QED
  BY <1>4

(* The layout of a schema. *)
LEMMA LayoutIs ==
  ASSUME NEW sch \in Declarations
  PROVE  /\ LayoutOf[sch].schema = sch
         /\ LayoutOf[sch].slotsize = StartOf(sch, Len(sch) + 1)
         /\ LayoutOf[sch].slotsize \in Nat
         /\ LayoutOf[sch].offset \in [Names(sch) -> Nat]
         /\ LayoutOf[sch] = [schema |-> sch, offset |-> LayoutOf[sch].offset,
                             slotsize |-> LayoutOf[sch].slotsize]
<1>1. LayoutOf[sch] = [schema |-> sch, offset |-> Offsets(sch),
                       slotsize |-> StartOf(sch, Len(sch) + 1)]
  BY DEF LayoutOf
<1>2. Len(sch) \in Nat /\ sch \in Seq(Declaration)
  BY DEF Declarations, Declaration
<1>3. ASSUME NEW name \in Names(sch) PROVE StartOf(sch, LastOf(sch, name)) \in Nat
  <2>1. LastOf(sch, name) \in 1..Len(sch) + 1
    BY <1>2, LastIs
  <2>. QED
    BY <2>1, StartTyped
<1>4. Offsets(sch) \in [Names(sch) -> Nat]
  BY <1>3 DEF Offsets
<1>5. StartOf(sch, Len(sch) + 1) \in Nat
  BY <1>2, StartTyped
<1>. QED
  BY <1>1, <1>4, <1>5

(* The parser, on any text.  The positions of a text. *)
LEMMA TextIs ==
  ASSUME NEW toks, IsText(toks)
  PROVE  Len(toks) \in Nat /\ DOMAIN toks = 1..Len(toks)
<1>1. toks \in Seq(ToSet(toks))
  BY DEF IsText
<1>. QED
  BY <1>1

(* Tokens beyond the text are of no type a parser asks for. *)
LEMMA InText ==
  ASSUME NEW toks, IsText(toks), NEW i \in Nat \ {0}, TypeAt(toks, i) # "End"
  PROVE  i \in 1..Len(toks) /\ TypeAt(toks, i) = toks[i].type
BY TextIs DEF TypeAt, EndOfText, Token

(* A token that is there is inside the text. *)
LEMMA IsInText ==
  ASSUME NEW toks, IsText(toks), NEW i \in Nat \ {0}, NEW tok, tok.type # "End", Is(toks, i, tok)
  PROVE  i \in 1..Len(toks)
BY InText DEF Is

(* How far an item reads. *)
Reads(g, toks, i, T) == Failed(g) \/ (g.val \in T /\ g.at \in i + 1..Len(toks) + 1)

----------------------------------------------------------------------------
(* The recursive function of ListOf, for the items that begin at each      *)
(* position.                                                               *)
ListAt(f, items, sep, toks, k) ==
  CASE Failed(items[k]) -> BadSyntax
    [] ~ Failed(items[k]) /\ ~ Is(toks, items[k].at, sep) -> Got(<<items[k].val>>, items[k].at)
    [] OTHER -> IF Failed(f[items[k].at + 1]) THEN BadSyntax
                ELSE Got(<<items[k].val>> \o f[items[k].at + 1].val, f[items[k].at + 1].at)

Lists(f, items, sep, toks) ==
  f = [k \in 1..Len(toks) + 1 |-> ListAt(f, items, sep, toks, k)]

(* Where the list goes on it does so further on, inside the text. *)
LEMMA GoesOn ==
  ASSUME NEW toks, IsText(toks), NEW T, NEW items, NEW sep, sep.type # "End",
         NEW k \in 1..Len(toks) + 1, Reads(items[k], toks, k, T),
         ~ Failed(items[k]), Is(toks, items[k].at, sep)
  PROVE  /\ items[k].at \in Nat /\ items[k].at + 1 \in k + 1..Len(toks) + 1
         /\ items[k].val \in T
<1>1. Len(toks) \in Nat /\ items[k].at \in k + 1..Len(toks) + 1 /\ items[k].val \in T
  BY TextIs DEF Reads
<1>2. items[k].at \in 1..Len(toks)
  BY <1>1, IsInText
<1>. QED
  BY <1>1, <1>2

(* It exists: an item ends behind where it begins, so the function is      *)
(* defined from the end of the text backwards.                             *)
LEMMA ListsExist ==
  ASSUME NEW toks, IsText(toks), NEW T, NEW items, NEW sep, sep.type # "End",
         \A k \in 1..Len(toks) + 1 : Reads(items[k], toks, k, T)
  PROVE  \E f : Lists(f, items, sep, toks)
<1>. DEFINE n == Len(toks) + 1
            Good(g, m) == \A k \in n - m + 1..n : g[k] = ListAt(g, items, sep, toks, k)
            A == {m \in Nat : m <= n => \E g : g = [k \in 1..n |-> g[k]] /\ Good(g, m)}
<1>0. n \in Nat
  BY TextIs
<1>1. 0 \in A
  <2>1. PICK g : g = [k \in 1..n |-> 0]
    OBVIOUS
  <2>2. g = [k \in 1..n |-> g[k]] /\ Good(g, 0)
    BY <1>0, <2>1
  <2>. QED
    BY <2>2
<1>2. ASSUME NEW m \in Nat, m \in A PROVE m + 1 \in A
  <2>. SUFFICES ASSUME m + 1 <= n PROVE \E g : g = [k \in 1..n |-> g[k]] /\ Good(g, m + 1)
    OBVIOUS
  <2>1. PICK g : g = [k \in 1..n |-> g[k]] /\ Good(g, m)
    BY <1>0, <1>2
  <2>2. PICK j \in 1..n : j = n - m
    BY <1>0
  <2>3. PICK v : v = ListAt(g, items, sep, toks, j)
    OBVIOUS
  <2>4. PICK h : h = [k \in 1..n |-> IF k = j THEN v ELSE g[k]]
    OBVIOUS
  <2>5. h = [k \in 1..n |-> h[k]] /\ h[j] = v /\ \A k \in j + 1..n : h[k] = g[k]
    BY <1>0, <2>4
  <2>. HIDE DEF n, A
  <2>6. ASSUME NEW k \in n - (m + 1) + 1..n PROVE h[k] = ListAt(h, items, sep, toks, k)
    <3>1. k \in j..n /\ k \in 1..n
      BY <1>0, <2>2
    <3>2. \A i \in k + 1..Len(toks) + 1 : h[i] = g[i]
      <4>1. ASSUME NEW i \in k + 1..n PROVE h[i] = g[i]
        <5>1. i \in j + 1..n
          BY <1>0, <3>1
        <5>. QED
          BY <2>5, <5>1
      <4>. QED
        BY <4>1 DEF n
    <3>3. Reads(items[k], toks, k, T) /\ k \in 1..Len(toks) + 1
      BY <3>1 DEF n
    <3>4. ListAt(h, items, sep, toks, k) = ListAt(g, items, sep, toks, k)
      <4>1. CASE Failed(items[k]) \/ ~ Is(toks, items[k].at, sep)
        BY <4>1 DEF ListAt
      <4>2. CASE ~ Failed(items[k]) /\ Is(toks, items[k].at, sep)
        <5>1. items[k].at + 1 \in k + 1..Len(toks) + 1
          BY <3>3, <4>2, GoesOn
        <5>2. h[items[k].at + 1] = g[items[k].at + 1]
          BY <3>2, <5>1
        <5>. QED
          BY <4>2, <5>2 DEF ListAt
      <4>. QED
        BY <4>1, <4>2
    <3>5. CASE k = j
      BY <2>3, <2>5, <3>4, <3>5
    <3>6. CASE k # j
      <4>1. k \in j + 1..n /\ k \in n - m + 1..n
        BY <1>0, <2>2, <3>1, <3>6
      <4>2. g[k] = ListAt(g, items, sep, toks, k)
        BY <2>1, <4>1
      <4>. QED
        BY <2>5, <3>4, <4>1, <4>2
    <3>. QED
      BY <3>5, <3>6
  <2>. QED
    BY <2>5, <2>6
<1>3. Nat \subseteq A
  <2>. HIDE DEF A
  <2>. QED
    BY <1>1, <1>2, SetInduction
<1>4. PICK g : g = [k \in 1..n |-> g[k]] /\ Good(g, n)
  BY <1>0, <1>3
<1>5. \A k \in 1..n : g[k] = ListAt(g, items, sep, toks, k)
  BY <1>0, <1>4
<1>. HIDE DEF n
<1>6. g = [k \in 1..n |-> ListAt(g, items, sep, toks, k)]
  BY <1>4, <1>5, Zenon
<1>. QED
  BY <1>6 DEF Lists, n

----------------------------------------------------------------------------
(* The recursive function of ParseForm. *)
FormAt(form, toks, k, before) ==
  LET part == ParsePart(form[k].val, toks, before.at)
  IN  CASE Failed(before) -> BadSyntax
        [] ~Failed(before) /\ form[k].type # "Part" ->
              IF Is(toks, before.at, form[k]) THEN Got(before.val, before.at + 1)
                                              ELSE BadSyntax
        [] OTHER -> IF Failed(part) THEN BadSyntax
                    ELSE Got(Append(before.val, part.val), part.at)

Forms(f, form, toks, n) ==
  f = [k \in 0..n |-> IF k = 0 THEN Got(<<>>, 1) ELSE FormAt(form, toks, k, f[k - 1])]

(* The function has the steps of the sentence as its values. *)
LEMMA FormsAre ==
  ASSUME NEW form, NEW toks, NEW n \in Nat, NEW f, Forms(f, form, toks, n)
  PROVE  /\ f[0] = Got(<<>>, 1)
         /\ \A k \in 1..n : f[k] = FormAt(form, toks, k, f[k - 1])
<1>1. PICK h : h = [k \in 0..n |-> IF k = 0 THEN Got(<<>>, 1) ELSE FormAt(form, toks, k, f[k - 1])]
  OBVIOUS
<1>2. f = h
  BY <1>1, Zenon DEF Forms
<1>. QED
  BY <1>1, <1>2

(* It exists, by induction on the steps. *)
LEMMA FormsExist ==
  ASSUME NEW form, NEW toks, NEW n \in Nat
  PROVE  \E f : Forms(f, form, toks, n)
<1>. DEFINE T == {m \in Nat : \E f : Forms(f, form, toks, m)}
<1>1. 0 \in T
  <2>1. PICK f : f = [k \in 0..0 |-> Got(<<>>, 1)]
    OBVIOUS
  <2>2. f = [k \in 0..0 |-> IF k = 0 THEN Got(<<>>, 1) ELSE FormAt(form, toks, k, f[k - 1])]
    BY <2>1
  <2>. QED
    BY <2>2 DEF Forms
<1>2. ASSUME NEW m \in Nat, m \in T
      PROVE  m + 1 \in T
  <2>1. PICK g : Forms(g, form, toks, m)
    BY <1>2
  <2>2. PICK v : v = FormAt(form, toks, m + 1, g[m])
    OBVIOUS
  <2>3. PICK f : f = [k \in 0..(m + 1) |-> IF k = m + 1 THEN v ELSE g[k]]
    OBVIOUS
  <2>4. f = [k \in 0..(m + 1) |-> f[k]] /\ f[m + 1] = v /\ \A k \in 0..m : f[k] = g[k]
    BY <2>3
  <2>5. g[0] = Got(<<>>, 1) /\ \A k \in 1..m : g[k] = FormAt(form, toks, k, g[k - 1])
    BY <2>1, FormsAre
  <2>6. ASSUME NEW k \in 0..(m + 1)
        PROVE  f[k] = IF k = 0 THEN Got(<<>>, 1) ELSE FormAt(form, toks, k, f[k - 1])
    <3>1. CASE k = 0
      BY <2>4, <2>5, <3>1
    <3>2. CASE k = m + 1
      <4>1. k - 1 = m /\ k # 0 /\ m \in 0..m
        BY <3>2
      <4>2. f[m] = g[m]
        BY <2>4, <4>1
      <4>. QED
        BY <2>2, <2>4, <3>2, <4>1, <4>2
    <3>3. CASE k \in 1..m
      <4>1. k - 1 \in 0..m /\ k # 0
        BY <3>3
      <4>2. f[k] = g[k] /\ f[k - 1] = g[k - 1] /\ g[k] = FormAt(form, toks, k, g[k - 1])
        BY <2>4, <2>5, <3>3, <4>1
      <4>. QED
        BY <4>1, <4>2
    <3>. QED
      BY <3>1, <3>2, <3>3
  <2>7. Forms(f, form, toks, m + 1)
    BY <2>4, <2>6, Zenon DEF Forms
  <2>. QED
    BY <2>7
<1>. HIDE DEF T
<1>3. Nat \subseteq T
  BY <1>1, <1>2, SetInduction
<1>. QED
  BY <1>3 DEF T

(* What parsing a sentence returns is what its last step returns. *)
LEMMA ParsedForm ==
  ASSUME NEW kind, NEW toks, NEW n \in Nat, Len(Form[kind]) = n
  PROVE  \E f : /\ f[0] = Got(<<>>, 1)
                /\ \A k \in 1..n : f[k] = FormAt(Form[kind], toks, k, f[k - 1])
                /\ ParseForm(kind, toks) = f[n]
<1>. DEFINE F == CHOOSE f : Forms(f, Form[kind], toks, Len(Form[kind]))
<1>1. Forms(F, Form[kind], toks, Len(Form[kind]))
  BY FormsExist, Zenon
<1>2. ParseForm(kind, toks) = F[Len(Form[kind])]
  BY Zenon DEF ParseForm, Forms, FormAt
<1>. HIDE DEF F
<1>3. /\ F[0] = Got(<<>>, 1)
      /\ \A k \in 1..n : F[k] = FormAt(Form[kind], toks, k, F[k - 1])
  <2>1. PICK h : h = [k \in 0..n |-> IF k = 0 THEN Got(<<>>, 1)
                                     ELSE FormAt(Form[kind], toks, k, F[k - 1])]
    OBVIOUS
  <2>2. F = h
    BY <1>1, <2>1, Zenon DEF Forms
  <2>. QED
    BY <2>1, <2>2
<1>. QED
  BY <1>2, <1>3

----------------------------------------------------------------------------
(* A sequence that is cut off, also behind one more element. *)
LEMMA CutAt ==
  ASSUME NEW S, NEW w \in Seq(S), NEW x \in S, NEW n \in Nat, 1 <= n, n <= Len(w) + 1
  PROVE  LET t == SubSeq(Append(w, x), 1, n)
         IN  /\ t \in Seq(S) /\ Len(t) = n /\ DOMAIN t = 1..n
             /\ \A i \in 1..n : t[i] = IF i = Len(w) + 1 THEN x ELSE w[i]
<1>. PICK u : u = Append(w, x)
  OBVIOUS
<1>1. /\ u \in Seq(S) /\ Len(u) = Len(w) + 1 /\ u[Len(w) + 1] = x
      /\ \A i \in 1..Len(w) : u[i] = w[i]
  OBVIOUS
<1>2. Len(w) \in Nat
  OBVIOUS
<1>. PICK t : t = SubSeq(u, 1, n)
  OBVIOUS
<1>3. t \in Seq(S) /\ Len(t) = n /\ \A i \in 1..n : t[i] = u[i]
  BY <1>1, <1>2
<1>4. \A i \in 1..n : t[i] = IF i = Len(w) + 1 THEN x ELSE w[i]
  BY <1>1, <1>2, <1>3
<1>. QED
  BY <1>3, <1>4

(* A sequence is one over the set of its own elements. *)
LEMMA RangeTyped ==
  ASSUME NEW S, NEW t \in Seq(S)
  PROVE  t \in Seq(ToSet(t))
<1>. PICK R : R = ToSet(t)
  OBVIOUS
<1>1. \A i \in 1..Len(t) : t[i] \in R
  BY DEF ToSet
<1>2. t \in Seq(R)
  BY <1>1
<1>. QED
  BY <1>2

(* The elements of a sequence and one more. *)
LEMMA RangeAppend ==
  ASSUME NEW S, NEW s \in Seq(S), NEW x \in S
  PROVE  ToSet(Append(s, x)) = ToSet(s) \cup {x}
<1>. PICK u : u = Append(s, x)
  OBVIOUS
<1>1. /\ DOMAIN u = 1..Len(s) + 1 /\ u[Len(s) + 1] = x
      /\ \A i \in 1..Len(s) : u[i] = s[i]
  OBVIOUS
<1>2. DOMAIN s = 1..Len(s) /\ Len(s) \in Nat
  OBVIOUS
<1>3. ToSet(u) \subseteq ToSet(s) \cup {x}
  BY <1>1, <1>2 DEF ToSet
<1>4. ToSet(s) \subseteq ToSet(u)
  BY <1>1, <1>2 DEF ToSet
<1>5. x \in ToSet(u)
  BY <1>1, <1>2 DEF ToSet
<1>. QED
  BY <1>3, <1>4, <1>5

(* A text that is cut off, also behind a semicolon, is a text. *)
LEMMA CutText ==
  ASSUME NEW w, IsText(w), NEW x, x = Delim(x.val), NEW n \in Nat, 1 <= n, n <= Len(w) + 1,
         NEW t, t = SubSeq(Append(w, x), 1, n)
  PROVE  IsText(t)
<1>. PICK m : m = Len(w)
  OBVIOUS
<1>1. m \in Nat /\ DOMAIN w = 1..m
  BY TextIs
<1>. PICK S : S = ToSet(w) \cup {x}
  OBVIOUS
<1>2. w \in Seq(S)
  <2>. PICK R : R = ToSet(w)
    OBVIOUS
  <2>1. w \in Seq(R)
    BY DEF IsText
  <2>. QED
    BY <2>1
<1>3. /\ t \in Seq(S) /\ Len(t) = n /\ DOMAIN t = 1..n
      /\ \A i \in 1..n : t[i] = IF i = m + 1 THEN x ELSE w[i]
  BY <1>2, CutAt
<1>4. t \in Seq(ToSet(t))
  BY <1>3, RangeTyped
<1>9. x.type = "Delim" /\ x = Token(x.type, x.val)
  BY DEF Delim, Token
<1>5. Keyword("varchar").type = "Keyword"
  BY DEF Keyword, Token
<1>6. ASSUME NEW i \in 1..n, t[i].type \in {"Id", "Int", "Keyword"}
      PROVE  i \in DOMAIN w /\ t[i] = w[i] /\ TypeAt(w, i) = t[i].type
  BY <1>1, <1>3, <1>6, <1>9 DEF TypeAt
<1>7. ASSUME NEW i \in Nat \ {0}, TypeAt(t, i) \in {"Id", "Int", "Keyword"}
      PROVE  i \in 1..n /\ t[i].type = TypeAt(t, i)
  BY <1>3, <1>7 DEF TypeAt, EndOfText, Token
<1>10. ASSUME NEW i \in DOMAIN t PROVE t[i] = Token(t[i].type, t[i].val)
  <2>1. CASE i = m + 1
    BY <1>3, <1>9, <2>1
  <2>2. CASE i # m + 1
    <3>1. i \in DOMAIN w /\ t[i] = w[i]
      BY <1>1, <1>3, <2>2
    <3>. QED
      BY <3>1 DEF IsText
  <2>. QED
    BY <2>1, <2>2
<1>8. ASSUME NEW i \in DOMAIN t
      PROVE  /\ TypeAt(t, i) = "Id" => t[i].val \in STRING
             /\ Is(t, i, Keyword("varchar")) /\ TypeAt(t, i + 2) = "Int" => t[i + 2].val \in Nat
  <2>1. i \in Nat \ {0} /\ i + 2 \in Nat \ {0}
    BY <1>3
  <2>2. CASE TypeAt(t, i) = "Id"
    <3>1. i \in DOMAIN w /\ t[i] = w[i] /\ TypeAt(w, i) = "Id"
      BY <1>6, <1>7, <2>1, <2>2
    <3>2. t[i].val \in STRING
      BY <3>1 DEF IsText
    <3>. QED
      BY <1>5, <2>2, <3>2 DEF Is
  <2>3. CASE Is(t, i, Keyword("varchar")) /\ TypeAt(t, i + 2) = "Int"
    <3>1. TypeAt(t, i) = "Keyword"
      BY <1>5, <2>3 DEF Is
    <3>2. i \in DOMAIN w /\ t[i] = w[i] /\ TypeAt(w, i) = "Keyword"
      BY <1>6, <1>7, <2>1, <3>1
    <3>3. t[i + 2] = w[i + 2] /\ TypeAt(w, i + 2) = "Int"
      BY <1>6, <1>7, <2>1, <2>3
    <3>4. Is(w, i, Keyword("varchar"))
      BY <1>5, <2>3, <3>2 DEF Is
    <3>5. t[i + 2].val \in Nat
      BY <3>2, <3>3, <3>4 DEF IsText
    <3>. QED
      BY <3>1, <3>5
  <2>4. CASE TypeAt(t, i) # "Id" /\ ~ (Is(t, i, Keyword("varchar")) /\ TypeAt(t, i + 2) = "Int")
    BY <2>4
  <2>. QED
    BY <2>2, <2>3, <2>4
<1>. QED
  BY <1>4, <1>8, <1>10, Zenon DEF IsText

----------------------------------------------------------------------------
(* Items joined by a separator: one item, and an item before others.       *)
LEMMA JoinOne ==
  ASSUME NEW A, NEW x \in Seq(A), NEW sep
  PROVE  Join(<<x>>, sep) = x
<1>. DEFINE g == [k \in DOMAIN <<x>> |-> IF k = 1 THEN <<x>>[k] ELSE <<sep>> \o <<x>>[k]]
<1>1. g = <<x>>
  OBVIOUS
<1>2. Join(<<x>>, sep) = FlattenSeq(g)
  BY Zenon DEF Join
<1>3. <<>> \in Seq(Seq(A))
  OBVIOUS
<1>. QED
  BY <1>1, <1>2, <1>3, FlattenHead

(* A longer one is its first sequence, the separator and the join of the   *)
(* rest.                                                                   *)
LEMMA JoinMore ==
  ASSUME NEW A, NEW x \in Seq(A), NEW sep \in A, NEW r \in Seq(Seq(A)), r # <<>>
  PROVE  /\ Join(r, sep) \in Seq(A)
         /\ Join(<<x>> \o r, sep) = x \o (<<sep>> \o Join(r, sep))
<1>. DEFINE Q == Seq(A)
            G(q) == [k \in DOMAIN q |-> IF k = 1 THEN q[k] ELSE <<sep>> \o q[k]]
<1>0. PICK e : e = <<sep>>
  OBVIOUS
<1>1. e \in Q
  BY <1>0
<1>2. PICK n : n = Len(r)
  OBVIOUS
<1>3. n \in Nat \ {0} /\ DOMAIN r = 1..n /\ \A k \in 1..n : r[k] \in Q
  BY <1>2
<1>4. PICK y : y = r[1]
  OBVIOUS
<1>5. y \in Q
  BY <1>3, <1>4
<1>6. PICK h : h = [k \in 1..n - 1 |-> e \o r[k + 1]]
  OBVIOUS
<1>7. h \in Seq(Q)
  <2>1. \A k \in 1..n - 1 : e \o r[k + 1] \in Q
    <3>. SUFFICES ASSUME NEW k \in 1..n - 1 PROVE e \o r[k + 1] \in Q
      OBVIOUS
    <3>1. k + 1 \in 1..n
      BY <1>3
    <3>2. r[k + 1] \in Q
      BY <1>3, <3>1
    <3>. QED
      BY <1>1, <3>2
  <2>2. n - 1 \in Nat
    BY <1>3
  <2>3. h = [k \in 1..n - 1 |-> h[k]] /\ \A k \in 1..n - 1 : h[k] = e \o r[k + 1]
    BY <1>6
  <2>4. \A k \in 1..n - 1 : h[k] \in Q
    <3>. HIDE DEF Q
    <3>. QED
      BY <2>1, <2>3
  <2>5. h = [k \in 1..n - 1 |-> h[k]]
    BY <2>3
  <2>. HIDE DEF Q
  <2>. QED
    BY <2>2, <2>4, <2>5, SeqIf
<1>8. /\ Join(r, sep) = FlattenSeq(G(r))
      /\ Join(<<x>> \o r, sep) = FlattenSeq(G(<<x>> \o r))
  BY Zenon DEF Join
<1>9. G(r) = <<y>> \o h
  <2>1. G(r) = [k \in 1..n |-> IF k = 1 THEN y ELSE e \o r[k]]
    BY <1>0, <1>3, <1>4
  <2>2. Len(h) = n - 1 /\ \A k \in 1..n - 1 : h[k] = e \o r[k + 1]
    <3>1. n - 1 \in Nat
      BY <1>3
    <3>. HIDE DEF Q
    <3>. QED
      BY <1>6, <1>7, <3>1, SMTT(20)
  <2>3. <<y>> \o h = [k \in 1..n |-> IF k = 1 THEN y ELSE h[k - 1]]
    <3>. HIDE DEF Q
    <3>1. Len(<<y>>) = 1 /\ <<y>>[1] = y
      OBVIOUS
    <3>. QED
      BY <1>3, <1>5, <1>7, <2>2, <3>1
  <2>4. \A k \in 1..n : k # 1 => h[k - 1] = e \o r[k]
    <3>. SUFFICES ASSUME NEW k \in 1..n, k # 1 PROVE h[k - 1] = e \o r[k]
      OBVIOUS
    <3>1. k - 1 \in 1..n - 1 /\ (k - 1) + 1 = k
      BY <1>3
    <3>. QED
      BY <2>2, <3>1
  <2>. QED
    BY <2>1, <2>3, <2>4
<1>10. PICK l : l = e \o y
  OBVIOUS
<1>11. PICK t : t = <<l>> \o h
  OBVIOUS
<1>12. l \in Q /\ t \in Seq(Q)
  <2>1. l \in Q
    BY <1>1, <1>5, <1>10
  <2>. HIDE DEF Q
  <2>. QED
    BY <1>7, <1>11, <2>1
<1>13. G(<<x>> \o r) = <<x>> \o t
  <2>1. PICK u : u = <<x>> \o r
    OBVIOUS
  <2>2. DOMAIN u = 1..n + 1 /\ u[1] = x /\ \A k \in 2..n + 1 : u[k] = r[k - 1]
    <3>. HIDE DEF Q
    <3>. QED
      BY <1>2, <1>3, <2>1
  <2>3. Len(t) = n /\ t[1] = l /\ \A k \in 2..n : t[k] = h[k - 1]
    <3>1. Len(h) = n - 1
      BY <1>3, <1>6
    <3>. HIDE DEF Q
    <3>. QED
      BY <1>3, <1>7, <1>11, <1>12, <3>1
  <2>4. \A k \in 1..n : t[k] = e \o r[k]
    <3>1. \A k \in 2..n : h[k - 1] = e \o r[k]
      <4>. SUFFICES ASSUME NEW k \in 2..n PROVE h[k - 1] = e \o r[k]
        OBVIOUS
      <4>1. k - 1 \in 1..n - 1 /\ (k - 1) + 1 = k
        BY <1>3
      <4>2. h[k - 1] = e \o r[(k - 1) + 1]
        BY <1>6, <4>1
      <4>. QED
        BY <4>1, <4>2
    <3>2. t[1] = e \o r[1]
      BY <1>4, <1>10, <2>3
    <3>. SUFFICES ASSUME NEW k \in 1..n PROVE t[k] = e \o r[k]
      OBVIOUS
    <3>3. CASE k = 1
      BY <3>2, <3>3
    <3>4. CASE k # 1
      <4>1. k \in 2..n
        BY <1>3, <3>4
      <4>. QED
        BY <2>3, <3>1, <4>1
    <3>. QED
      BY <3>3, <3>4
  <2>5. <<x>> \o t = [k \in 1..n + 1 |-> IF k = 1 THEN x ELSE t[k - 1]]
    <3>. HIDE DEF Q
    <3>. QED
      BY <1>3, <1>12, <2>3
  <2>6. G(u) = [k \in 1..n + 1 |-> IF k = 1 THEN u[k] ELSE e \o u[k]]
    BY <1>0, <2>2
  <2>7. \A k \in 1..n + 1 : k # 1 => t[k - 1] = e \o u[k]
    <3>. SUFFICES ASSUME NEW k \in 1..n + 1, k # 1 PROVE t[k - 1] = e \o u[k]
      OBVIOUS
    <3>1. k - 1 \in 1..n /\ k \in 2..n + 1
      BY <1>3
    <3>. QED
      BY <2>2, <2>4, <3>1
  <2>8. G(u) = <<x>> \o t
    BY <2>2, <2>5, <2>6, <2>7
  <2>. QED
    BY <2>1, <2>8
<1>14. FlattenSeq(G(r)) = y \o FlattenSeq(h) /\ FlattenSeq(h) \in Seq(A)
  BY <1>5, <1>7, <1>9, FlattenHead, FlattenTyped
<1>15. FlattenSeq(t) = l \o FlattenSeq(h)
  BY <1>7, <1>11, <1>12, FlattenHead
<1>16. FlattenSeq(G(<<x>> \o r)) = x \o FlattenSeq(t)
  BY <1>12, <1>13, FlattenHead
<1>17. PICK v : v = FlattenSeq(h)
  OBVIOUS
<1>18. PICK w : w = y \o v
  OBVIOUS
<1>19. (e \o y) \o v = e \o w
  BY <1>1, <1>5, <1>14, <1>17, <1>18, ConcatThree
<1>20. w \in Seq(A)
  BY <1>5, <1>14, <1>17, <1>18
<1>. HIDE DEF G
<1>. QED
  BY <1>0, <1>8, <1>10, <1>14, <1>15, <1>16, <1>17, <1>18, <1>19, <1>20

----------------------------------------------------------------------------
(* The tokens from i on, up to but not including j, are the text. *)
Spells(toks, i, j, text) ==
  /\ i \in Nat \ {0} /\ j \in i..Len(toks) + 1
  /\ text = [k \in 1..j - i |-> toks[i + k - 1]]

(* What spelling a text says of its length and its tokens.                 *)
LEMMA Spelled ==
  ASSUME NEW toks, IsText(toks), NEW i, NEW j, NEW text, Spells(toks, i, j, text)
  PROVE  /\ i \in Nat \ {0} /\ j \in Nat \ {0} /\ i <= j /\ j <= Len(toks) + 1 /\ Len(toks) \in Nat
         /\ text \in Seq(ToSet(toks)) /\ Len(text) = j - i
         /\ \A k \in 1..j - i : text[k] = toks[i + k - 1]
<1>1. Len(toks) \in Nat /\ DOMAIN toks = 1..Len(toks)
  BY TextIs
<1>2. i \in Nat \ {0} /\ j \in Nat \ {0} /\ i <= j /\ j <= Len(toks) + 1
  BY <1>1 DEF Spells
<1>3. PICK R : R = ToSet(toks)
  OBVIOUS
<1>4. \A k \in 1..j - i : toks[i + k - 1] \in R
  <2>. SUFFICES ASSUME NEW k \in 1..j - i PROVE toks[i + k - 1] \in R
    OBVIOUS
  <2>1. i + k - 1 \in DOMAIN toks
    BY <1>1, <1>2
  <2>. QED
    BY <1>3, <2>1 DEF ToSet
<1>5. j - i \in Nat
  BY <1>2
<1>6. text = [k \in 1..j - i |-> toks[i + k - 1]]
  BY DEF Spells
<1>7. text \in Seq(R) /\ Len(text) = j - i /\ \A k \in 1..j - i : text[k] = toks[i + k - 1]
  BY <1>4, <1>5, <1>6
<1>. QED
  BY <1>1, <1>2, <1>3, <1>7

(* A text is spelled where its tokens are.                                 *)
LEMMA SpellsIf ==
  ASSUME NEW toks, NEW i \in Nat \ {0}, NEW j \in Nat, i <= j, j <= Len(toks) + 1,
         Len(toks) \in Nat, NEW A, NEW text \in Seq(A), Len(text) = j - i,
         \A k \in 1..j - i : text[k] = toks[i + k - 1]
  PROVE  Spells(toks, i, j, text)
<1>1. text = [k \in 1..Len(text) |-> text[k]]
  OBVIOUS
<1>2. text = [k \in 1..j - i |-> toks[i + k - 1]]
  BY <1>1
<1>3. j \in i..Len(toks) + 1
  OBVIOUS
<1>. QED
  BY <1>2, <1>3 DEF Spells

(* Nothing and one token. *)
LEMMA SpellsNone ==
  ASSUME NEW toks, IsText(toks), NEW i \in 1..Len(toks) + 1
  PROVE  /\ Spells(toks, i, i, <<>>)
         /\ \A j : Spells(toks, i, j, <<>>) => j = i
<1>1. Len(toks) \in Nat /\ <<>> \in Seq(ToSet(toks)) /\ Len(<<>>) = 0
  BY TextIs
<1>2. i \in Nat \ {0} /\ i \in Nat /\ i <= i /\ i <= Len(toks) + 1 /\ i - i = 0
  BY <1>1
<1>3. \A k \in 1..i - i : <<>>[k] = toks[i + k - 1]
  BY <1>2
<1>4. Spells(toks, i, i, <<>>)
  BY <1>1, <1>2, <1>3, SpellsIf
<1>5. ASSUME NEW j, Spells(toks, i, j, <<>>) PROVE j = i
  <2>1. j \in Nat /\ Len(<<>>) = j - i
    BY <1>5, Spelled
  <2>. QED
    BY <1>1, <1>2, <2>1
<1>. QED
  BY <1>4, <1>5

(* A text of one token is spelled where that token stands.                 *)
LEMMA SpellsOne ==
  ASSUME NEW toks, IsText(toks), NEW i \in Nat \ {0}, NEW x
  PROVE  /\ i <= Len(toks) /\ toks[i] = x => Spells(toks, i, i + 1, <<x>>)
         /\ \A j : Spells(toks, i, j, <<x>>) => j = i + 1 /\ i \in 1..Len(toks) /\ toks[i] = x
<1>1. Len(toks) \in Nat /\ DOMAIN toks = 1..Len(toks)
  BY TextIs
<1>2. PICK t : t = <<x>>
  OBVIOUS
<1>3. t \in Seq({x}) /\ Len(t) = 1 /\ t[1] = x
  BY <1>2
<1>4. ASSUME i <= Len(toks), toks[i] = x PROVE Spells(toks, i, i + 1, t)
  <2>1. PICK j \in Nat : j = i + 1
    OBVIOUS
  <2>2. i <= j /\ j <= Len(toks) + 1 /\ j - i = 1
    BY <1>1, <1>4, <2>1
  <2>3. Len(t) = j - i
    BY <1>3, <2>2
  <2>4. \A k \in 1..j - i : t[k] = toks[i + k - 1]
    BY <1>3, <1>4, <2>2
  <2>5. Spells(toks, i, j, t)
    BY <1>1, <1>3, <2>2, <2>3, <2>4, SpellsIf
  <2>. QED
    BY <2>1, <2>5
<1>5. ASSUME NEW j, Spells(toks, i, j, t) PROVE j = i + 1 /\ i \in 1..Len(toks) /\ toks[i] = x
  <2>1. /\ j \in Nat /\ j <= Len(toks) + 1 /\ Len(t) = j - i
        /\ \A k \in 1..j - i : t[k] = toks[i + k - 1]
    BY <1>5, Spelled
  <2>2. PICK n \in Nat : n = Len(toks)
    BY <1>1
  <2>3. j \in Nat /\ j <= n + 1 /\ 1 = j - i
    BY <1>3, <2>1, <2>2
  <2>4. j = i + 1 /\ i \in 1..n
    BY <2>3
  <2>5. j = i + 1 /\ i \in 1..Len(toks)
    BY <2>2, <2>4
  <2>6. t[1] = toks[i + 1 - 1]
    BY <2>1, <2>5
  <2>. QED
    BY <1>3, <2>5, <2>6
<1>. QED
  BY <1>2, <1>4, <1>5

(* One text after the other, and back. *)
LEMMA SpellsJoin ==
  ASSUME NEW toks, IsText(toks), NEW i, NEW m, NEW j, NEW t, NEW u,
         Spells(toks, i, m, t), Spells(toks, m, j, u)
  PROVE  Spells(toks, i, j, t \o u)
<1>1. PICK R : R = ToSet(toks)
  OBVIOUS
<1>2. /\ i \in Nat \ {0} /\ m \in Nat /\ i <= m /\ Len(toks) \in Nat
      /\ t \in Seq(R) /\ Len(t) = m - i /\ \A k \in 1..m - i : t[k] = toks[i + k - 1]
  BY <1>1, Spelled
<1>3. /\ j \in Nat /\ m <= j /\ j <= Len(toks) + 1
      /\ u \in Seq(R) /\ Len(u) = j - m /\ \A k \in 1..j - m : u[k] = toks[m + k - 1]
  BY <1>1, Spelled
<1>4. PICK v : v = t \o u
  OBVIOUS
<1>5. /\ v \in Seq(R) /\ Len(v) = j - i
      /\ \A k \in 1..j - i : v[k] = IF k <= m - i THEN t[k] ELSE u[k - (m - i)]
  <2>1. t \in Seq(R) /\ u \in Seq(R)
    BY <1>2, <1>3
  <2>2. /\ v \in Seq(R) /\ Len(v) = Len(t) + Len(u)
        /\ \A k \in 1..Len(t) + Len(u) : v[k] = IF k <= Len(t) THEN t[k] ELSE u[k - Len(t)]
    BY <1>4, <2>1
  <2>3. Len(t) + Len(u) = j - i
    BY <1>2, <1>3
  <2>4. Len(t) = m - i
    BY <1>2
  <2>. QED
    BY <2>2, <2>3, <2>4
<1>6. ASSUME NEW k \in 1..j - i PROVE v[k] = toks[i + k - 1]
  <2>1. CASE k <= m - i
    BY <1>2, <1>3, <1>5, <2>1
  <2>2. CASE ~ (k <= m - i)
    <3>1. k - (m - i) \in 1..j - m /\ m + (k - (m - i)) - 1 = i + k - 1
      BY <1>2, <1>3, <2>2
    <3>2. v[k] = u[k - (m - i)]
      BY <1>5, <2>2
    <3>3. u[k - (m - i)] = toks[m + (k - (m - i)) - 1]
      BY <1>3, <3>1
    <3>. QED
      BY <3>1, <3>2, <3>3
  <2>. QED
    BY <2>1, <2>2
<1>7. i <= j
  BY <1>2, <1>3
<1>8. Spells(toks, i, j, v)
  BY <1>2, <1>3, <1>5, <1>6, <1>7, SpellsIf
<1>. QED
  BY <1>4, <1>8

(* The places of the two parts of a text.                                  *)
LEMMA SpellsSplit ==
  ASSUME NEW toks, IsText(toks), NEW i, NEW j, NEW A, NEW t \in Seq(A), NEW u \in Seq(A),
         Spells(toks, i, j, t \o u)
  PROVE  Spells(toks, i, i + Len(t), t) /\ Spells(toks, i + Len(t), j, u)
<1>0. PICK v : v = t \o u
  OBVIOUS
<1>9. Spells(toks, i, j, v)
  BY <1>0, Zenon
<1>1. /\ i \in Nat \ {0} /\ j \in Nat /\ i <= j /\ j <= Len(toks) + 1 /\ Len(toks) \in Nat
      /\ Len(v) = j - i /\ \A k \in 1..j - i : v[k] = toks[i + k - 1]
  BY <1>9, Spelled
<1>2. PICK a : a = Len(t)
  OBVIOUS
<1>3. PICK b : b = Len(u)
  OBVIOUS
<1>4. a \in Nat /\ b \in Nat
  BY <1>2, <1>3
<1>5. /\ Len(v) = a + b /\ \A k \in 1..a : v[k] = t[k]
      /\ \A k \in 1..b : v[a + k] = u[k]
  BY <1>0, <1>2, <1>3
<1>6. j = i + a + b
  BY <1>1, <1>4, <1>5
<1>7. Spells(toks, i, i + a, t)
  <2>1. i + a \in Nat /\ i <= i + a /\ i + a <= Len(toks) + 1 /\ Len(t) = (i + a) - i
    BY <1>1, <1>2, <1>4, <1>6
  <2>2. \A k \in 1..(i + a) - i : t[k] = toks[i + k - 1]
    <3>. SUFFICES ASSUME NEW k \in 1..(i + a) - i PROVE t[k] = toks[i + k - 1]
      OBVIOUS
    <3>1. k \in 1..a /\ k \in 1..j - i
      BY <1>1, <1>4, <1>6
    <3>. QED
      BY <1>1, <1>5, <3>1
  <2>. QED
    BY <1>1, <2>1, <2>2, SpellsIf
<1>8. Spells(toks, i + a, j, u)
  <2>1. i + a \in Nat \ {0} /\ i + a <= j /\ Len(u) = j - (i + a)
    BY <1>1, <1>3, <1>4, <1>6
  <2>2. \A k \in 1..j - (i + a) : u[k] = toks[(i + a) + k - 1]
    <3>. SUFFICES ASSUME NEW k \in 1..j - (i + a) PROVE u[k] = toks[(i + a) + k - 1]
      OBVIOUS
    <3>1. k \in 1..b /\ a + k \in 1..j - i /\ i + (a + k) - 1 = (i + a) + k - 1
      BY <1>1, <1>4, <1>6
    <3>2. v[a + k] = toks[i + (a + k) - 1] /\ v[a + k] = u[k]
      BY <1>1, <1>5, <3>1
    <3>. QED
      BY <3>1, <3>2
  <2>. QED
    BY <1>1, <2>1, <2>2, SpellsIf
<1>. QED
  BY <1>2, <1>7, <1>8

----------------------------------------------------------------------------
(* The texts of a list's items. *)
Texts(text, v) == [k \in DOMAIN v |-> text[v[k]]]

Joined(text, v, sep) == Join(Texts(text, v), sep)

(* A member before others, and its text, a separator and the rest. *)
Before(x, r) == <<x>> \o r
Then(t, sep, u) == t \o (<<sep>> \o u)

TextsOver(text, T, A) == \A v \in T : text[v] \in Seq(A)

(* The join of one item is the text of that item.                          *)
LEMMA JoinText ==
  ASSUME NEW T, NEW A, NEW text, TextsOver(text, T, A), NEW x \in T, NEW sep
  PROVE  Joined(text, <<x>>, sep) = text[x]
<1>1. PICK a : a = text[x]
  OBVIOUS
<1>2. a \in Seq(A)
  BY <1>1 DEF TextsOver
<1>3. Texts(text, <<x>>) = <<a>>
  BY <1>1 DEF Texts
<1>4. Join(<<a>>, sep) = a
  BY <1>2, JoinOne
<1>. QED
  BY <1>1, <1>3, <1>4, Zenon DEF Joined

(* The join of an item and more: its text, the separator, the others.      *)
LEMMA JoinTextMore ==
  ASSUME NEW T, NEW A, NEW text, TextsOver(text, T, A), NEW sep \in A, NEW x \in T,
         NEW r \in Seq(T), r # <<>>
  PROVE  /\ Joined(text, r, sep) \in Seq(A)
         /\ Joined(text, Before(x, r), sep) = Then(text[x], sep, Joined(text, r, sep))
<1>1. PICK a : a = text[x]
  OBVIOUS
<1>2. a \in Seq(A)
  BY <1>1 DEF TextsOver
<1>4. PICK n : n = Len(r)
  OBVIOUS
<1>5. n \in Nat /\ DOMAIN r = 1..n /\ (r = <<>> <=> n = 0) /\ \A k \in 1..n : r[k] \in T
  BY <1>4
<1>6. PICK q : q = Texts(text, r)
  OBVIOUS
<1>7. q \in Seq(Seq(A)) /\ Len(q) = n /\ DOMAIN q = 1..n /\ \A k \in 1..n : q[k] = text[r[k]]
  <2>1. q = [k \in 1..n |-> text[r[k]]]
    BY <1>5, <1>6 DEF Texts
  <2>2. \A k \in 1..n : q[k] \in Seq(A)
    BY <1>5, <2>1 DEF TextsOver
  <2>3. q = [k \in 1..n |-> q[k]]
    BY <2>1
  <2>4. q \in Seq(Seq(A)) /\ Len(q) = n /\ DOMAIN q = 1..n
    BY <1>5, <2>2, <2>3, SeqIf
  <2>. QED
    BY <2>1, <2>4
<1>8. Texts(text, <<x>> \o r) = <<a>> \o q
  <2>1. PICK u : u = <<x>> \o r
    OBVIOUS
  <2>2. DOMAIN u = 1..n + 1 /\ u[1] = x /\ \A k \in 2..n + 1 : u[k] = r[k - 1]
    BY <1>4, <1>5, <2>1
  <2>3. PICK w : w = <<a>> \o q
    OBVIOUS
  <2>4. w = [k \in 1..n + 1 |-> IF k = 1 THEN a ELSE q[k - 1]]
    BY <1>2, <1>5, <1>7, <2>3
  <2>5. ASSUME NEW k \in 1..n + 1 PROVE text[u[k]] = IF k = 1 THEN a ELSE q[k - 1]
    <3>1. CASE k = 1
      BY <1>1, <2>2, <3>1
    <3>2. CASE k # 1
      <4>1. k \in 2..n + 1 /\ k - 1 \in 1..n
        BY <1>5, <3>2
      <4>. QED
        BY <1>7, <2>2, <3>2, <4>1
    <3>. QED
      BY <3>1, <3>2
  <2>6. Texts(text, u) = [k \in 1..n + 1 |-> text[u[k]]]
    BY <2>2 DEF Texts
  <2>7. Texts(text, u) = w
    BY <2>4, <2>5, <2>6, SMTT(20)
  <2>. QED
    BY <2>1, <2>3, <2>7
<1>9. /\ Join(q, sep) \in Seq(A)
      /\ Join(<<a>> \o q, sep) = a \o (<<sep>> \o Join(q, sep))
  <2>1. q # <<>>
    BY <1>5, <1>7
  <2>2. q \in Seq(Seq(A))
    BY <1>7
  <2>. QED
    BY <1>2, <2>1, <2>2, JoinMore, ZenonT(30)
<1>. QED
  BY <1>1, <1>6, <1>8, <1>9, Zenon DEF Joined, Before, Then

(* An item before others, where it is spelled. *)
LEMMA JoinedSpells ==
  ASSUME NEW toks, IsText(toks), NEW T, NEW A, NEW text, TextsOver(text, T, A),
         NEW sep \in A, NEW x \in T, NEW r \in Seq(T), r # <<>>, NEW i, NEW m, NEW j,
         Spells(toks, i, m, text[x]), m \in 1..Len(toks), toks[m] = sep,
         Spells(toks, m + 1, j, Joined(text, r, sep))
  PROVE  Spells(toks, i, j, Joined(text, Before(x, r), sep))
<1>1. PICK t : t = text[x]
  OBVIOUS
<1>2. PICK u : u = Joined(text, r, sep)
  OBVIOUS
<1>3. PICK w : w = <<sep>> \o u
  OBVIOUS
<1>4. Joined(text, Before(x, r), sep) = t \o w
  <2>1. Joined(text, Before(x, r), sep) = Then(text[x], sep, Joined(text, r, sep))
    BY JoinTextMore
  <2>. QED
    BY <1>1, <1>2, <1>3, <2>1, Zenon DEF Then
<1>5. m \in Nat \ {0} /\ m <= Len(toks)
  BY TextIs
<1>6. Spells(toks, m, m + 1, <<sep>>)
  BY <1>5, SpellsOne
<1>7. Spells(toks, m + 1, j, u)
  BY <1>2, Zenon
<1>8. Spells(toks, m, j, w)
  BY <1>3, <1>6, <1>7, SpellsJoin, Zenon
<1>9. Spells(toks, i, m, t)
  BY <1>1, Zenon
<1>10. Spells(toks, i, j, t \o w)
  BY <1>8, <1>9, SpellsJoin, Zenon
<1>. QED
  BY <1>4, <1>10, Zenon

(* A join is spelled where its first item is, and after the separator the  *)
(* join of the others.                                                     *)
LEMMA JoinedSplits ==
  ASSUME NEW toks, IsText(toks), NEW T, NEW A, NEW text, TextsOver(text, T, A),
         NEW sep \in A, NEW x \in T, NEW r \in Seq(T), r # <<>>, NEW i, NEW j,
         Spells(toks, i, j, Joined(text, Before(x, r), sep))
  PROVE  \E m \in 1..Len(toks) :
            /\ Spells(toks, i, m, text[x]) /\ toks[m] = sep
            /\ Spells(toks, m + 1, j, Joined(text, r, sep))
<1>1. PICK t : t = text[x]
  OBVIOUS
<1>2. PICK u : u = Joined(text, r, sep)
  OBVIOUS
<1>3. PICK s : s = <<sep>>
  OBVIOUS
<1>4. PICK w : w = s \o u
  OBVIOUS
<1>5. Joined(text, Before(x, r), sep) = t \o w /\ u \in Seq(A)
  <2>1. /\ Joined(text, Before(x, r), sep) = Then(text[x], sep, Joined(text, r, sep))
        /\ Joined(text, r, sep) \in Seq(A)
    BY JoinTextMore
  <2>. QED
    BY <1>1, <1>2, <1>3, <1>4, <2>1, Zenon DEF Then
<1>6. t \in Seq(A) /\ s \in Seq(A) /\ w \in Seq(A) /\ Len(s) = 1
  <2>1. t \in Seq(A)
    BY <1>1 DEF TextsOver
  <2>2. s \in Seq(A) /\ Len(s) = 1
    BY <1>3
  <2>. QED
    BY <1>4, <1>5, <2>1, <2>2
<1>7. PICK m : m = i + Len(t)
  OBVIOUS
<1>8. Spells(toks, i, j, t \o w)
  BY <1>5, Zenon
<1>9. Spells(toks, i, m, t) /\ Spells(toks, m, j, w)
  BY <1>6, <1>7, <1>8, SpellsSplit, Zenon
<1>10. Spells(toks, m, j, s \o u)
  BY <1>4, <1>9, Zenon
<1>11. Spells(toks, m, m + 1, s) /\ Spells(toks, m + 1, j, u)
  BY <1>5, <1>6, <1>10, SpellsSplit, Zenon
<1>12. m \in Nat \ {0}
  BY <1>9, Spelled, Zenon
<1>13. m \in 1..Len(toks) /\ toks[m] = sep
  BY <1>3, <1>11, <1>12, SpellsOne, Zenon
<1>. QED
  BY <1>1, <1>2, <1>9, <1>11, <1>13, Zenon

----------------------------------------------------------------------------
(* What is read from i on is a member of T, and its text is there; and     *)
(* where the text of a member of T is, that is what is read.               *)
ReadsAs(g, toks, i, T, text) ==
  /\ ~ Failed(g) => /\ g = Got(g.val, g.at) /\ g.val \in T /\ g.at \in i + 1..Len(toks) + 1
                    /\ Spells(toks, i, g.at, text[g.val])
  /\ \A v \in T : \A j : Spells(toks, i, j, text[v]) => g = Got(v, j)

(* The same of a list of such items, which ends where no separator is. *)
ListReadsAs(g, toks, i, T, text, sep) ==
  /\ ~ Failed(g) => /\ g = Got(g.val, g.at) /\ g.val \in Seq(T) \ {<<>>}
                    /\ g.at \in i + 1..Len(toks) + 1
                    /\ Spells(toks, i, g.at, Joined(text, g.val, sep))
  /\ \A v \in Seq(T) \ {<<>>} : \A j :
        Spells(toks, i, j, Joined(text, v, sep)) /\ ~ Is(toks, j, sep) => g = Got(v, j)

(* One position of a list, when the later ones are read so. *)
LEMMA ListStep ==
  ASSUME NEW toks, IsText(toks), NEW T, NEW text, NEW A, TextsOver(text, T, A),
         NEW sep \in A, sep = Token(sep.type, sep.val), sep.type # "End",
         NEW items, NEW f, NEW k \in 1..Len(toks) + 1,
         f[k] = ListAt(f, items, sep, toks, k), ReadsAs(items[k], toks, k, T, text),
         \A i \in k + 1..Len(toks) + 1 : ListReadsAs(f[i], toks, i, T, text, sep)
  PROVE  ListReadsAs(f[k], toks, k, T, text, sep)
<1>1. PICK a : a = items[k]
  OBVIOUS
<1>2. PICK n : n = Len(toks) + 1
  OBVIOUS
<1>3. n \in Nat /\ k \in Nat \ {0} /\ k \in 1..n
  BY <1>2, TextIs
<1>4. ReadsAs(a, toks, k, T, text)
  BY <1>1
<1>5. f[k] = CASE Failed(a) -> BadSyntax
               [] ~ Failed(a) /\ ~ Is(toks, a.at, sep) -> Got(<<a.val>>, a.at)
               [] OTHER -> IF Failed(f[a.at + 1]) THEN BadSyntax
                           ELSE Got(<<a.val>> \o f[a.at + 1].val, f[a.at + 1].at)
  BY <1>1, Zenon DEF ListAt
<1>6. ASSUME ~ Failed(a)
      PROVE  a.val \in T /\ a.at \in k + 1..n /\ Spells(toks, k, a.at, text[a.val])
  BY <1>2, <1>4, <1>6, Zenon DEF ReadsAs
<1>7. ASSUME ~ Failed(f[k])
      PROVE  /\ f[k] = Got(f[k].val, f[k].at) /\ f[k].val \in Seq(T) \ {<<>>}
             /\ f[k].at \in k + 1..n
             /\ Spells(toks, k, f[k].at, Joined(text, f[k].val, sep))
  <2>1. ~ Failed(a)
    <3>1. Failed(BadSyntax)
      BY DEF BadSyntax, Got, Failed
    <3>. QED
      BY <1>5, <1>7, <3>1, Zenon
  <2>2. CASE ~ Is(toks, a.at, sep)
    <3>1. f[k] = Got(<<a.val>>, a.at)
      BY <1>5, <2>1, <2>2, Zenon
    <3>2. f[k].val = <<a.val>> /\ f[k].at = a.at
      BY <3>1 DEF Got
    <3>3. <<a.val>> \in Seq(T) \ {<<>>}
      BY <1>6, <2>1
    <3>4. Joined(text, <<a.val>>, sep) = text[a.val]
      <4>1. a.val \in T
        BY <1>6, <2>1
      <4>. QED
        BY <4>1, JoinText
    <3>. QED
      BY <1>6, <2>1, <3>1, <3>2, <3>3, <3>4, Zenon
  <2>3. CASE Is(toks, a.at, sep)
    <3>1. PICK m : m = a.at + 1
      OBVIOUS
    <3>2. PICK r : r = f[m]
      OBVIOUS
    <3>3. ~ Failed(r) /\ f[k] = Got(<<a.val>> \o r.val, r.at)
      <4>1. f[k] = IF Failed(r) THEN BadSyntax ELSE Got(<<a.val>> \o r.val, r.at)
        BY <1>5, <2>1, <2>3, <3>1, <3>2, Zenon
      <4>2. Failed(BadSyntax)
        BY DEF BadSyntax, Got, Failed
      <4>. QED
        BY <1>7, <4>1, <4>2, Zenon
    <3>4. a.at \in Nat \ {0} /\ a.at <= n
      BY <1>3, <1>6, <2>1
    <3>5. a.at \in 1..Len(toks)
      BY <2>3, <3>4, IsInText
    <3>6. m \in k + 1..n /\ m \in Nat
      BY <1>2, <1>3, <1>6, <2>1, <3>1, <3>5
    <3>7. ListReadsAs(r, toks, m, T, text, sep)
      BY <1>2, <3>2, <3>6
    <3>8. /\ r.val \in Seq(T) \ {<<>>} /\ r.at \in m + 1..n
          /\ Spells(toks, m, r.at, Joined(text, r.val, sep))
      BY <1>2, <3>3, <3>7, Zenon DEF ListReadsAs
    <3>9. f[k].val = <<a.val>> \o r.val /\ f[k].at = r.at
      BY <3>3 DEF Got
    <3>10. <<a.val>> \o r.val \in Seq(T) \ {<<>>}
      BY <1>6, <2>1, <3>8
    <3>11. r.at \in k + 1..n
      BY <1>3, <3>6, <3>8
    <3>12. toks[a.at] = sep
      <4>1. toks[a.at].type = sep.type /\ toks[a.at].val = sep.val
        BY <2>3, <3>4, <3>5, InText DEF Is, TypeAt
      <4>2. toks[a.at] = Token(toks[a.at].type, toks[a.at].val)
        BY <3>5, TextIs DEF IsText
      <4>. QED
        BY <4>1, <4>2, Zenon
    <3>13. Spells(toks, k, r.at, Joined(text, Before(a.val, r.val), sep))
      <4>1. a.val \in T /\ Spells(toks, k, a.at, text[a.val])
        BY <1>6, <2>1
      <4>2. /\ r.val \in Seq(T) /\ r.val # <<>>
            /\ Spells(toks, a.at + 1, r.at, Joined(text, r.val, sep))
        BY <3>1, <3>8
      <4>. QED
        BY <3>5, <3>12, <4>1, <4>2, JoinedSpells, Zenon
    <3>. QED
      BY <3>3, <3>9, <3>10, <3>11, <3>13, Zenon DEF Before
  <2>. QED
    BY <2>2, <2>3
<1>8. ASSUME NEW v \in Seq(T) \ {<<>>}, NEW j,
             Spells(toks, k, j, Joined(text, v, sep)), ~ Is(toks, j, sep)
      PROVE  f[k] = Got(v, j)
  <2>1. PICK x : x = v[1]
    OBVIOUS
  <2>2. PICK r : r = Tail(v)
    OBVIOUS
  <2>3. x \in T /\ r \in Seq(T) /\ v = <<x>> \o r
    BY <2>1, <2>2
  <2>4. CASE r = <<>>
    <3>1. v = <<x>>
      BY <2>3, <2>4
    <3>2. Joined(text, v, sep) = text[x]
      <4>1. Joined(text, <<x>>, sep) = text[x]
        BY <2>3, JoinText
      <4>. QED
        BY <3>1, <4>1, Zenon
    <3>3. a = Got(x, j)
      BY <1>4, <1>8, <2>3, <3>2, Zenon DEF ReadsAs
    <3>4. j \in Nat \ {0}
      BY <1>8, Spelled
    <3>5. ~ Failed(a) /\ a.val = x /\ a.at = j
      BY <3>3, <3>4 DEF Failed, Got
    <3>. QED
      BY <1>5, <1>8, <3>1, <3>5, Zenon
  <2>5. CASE r # <<>>
    <3>1. x \in T /\ r \in Seq(T) /\ Spells(toks, k, j, Joined(text, Before(x, r), sep))
      BY <1>8, <2>3 DEF Before
    <3>2. PICK m \in 1..Len(toks) :
             /\ Spells(toks, k, m, text[x]) /\ toks[m] = sep
             /\ Spells(toks, m + 1, j, Joined(text, r, sep))
      BY <2>5, <3>1, JoinedSplits, Zenon
    <3>8. m \in Nat \ {0} /\ k <= m
      BY <3>2, Spelled
    <3>10. Is(toks, m, sep)
      BY <3>2, TextIs DEF Is, TypeAt
    <3>11. a = Got(x, m)
      BY <1>4, <3>1, <3>2, Zenon DEF ReadsAs
    <3>12. ~ Failed(a) /\ a.val = x /\ a.at = m
      BY <3>8, <3>11 DEF Failed, Got
    <3>13. PICK p : p = m + 1
      OBVIOUS
    <3>14. p \in k + 1..n
      BY <1>2, <1>3, <3>2, <3>8, <3>13
    <3>15. ListReadsAs(f[p], toks, p, T, text, sep)
      BY <1>2, <3>14
    <3>16. r \in Seq(T) \ {<<>>} /\ Spells(toks, p, j, Joined(text, r, sep))
      BY <2>3, <2>5, <3>2, <3>13
    <3>17. f[p] = Got(r, j)
      BY <1>8, <3>15, <3>16, Zenon DEF ListReadsAs
    <3>18. j \in Nat \ {0}
      BY <1>8, Spelled
    <3>19. ~ Failed(f[p]) /\ f[p].val = r /\ f[p].at = j
      BY <3>17, <3>18 DEF Failed, Got
    <3>20. f[k] = Got(<<x>> \o r, j)
      BY <1>5, <3>10, <3>12, <3>13, <3>19, Zenon
    <3>. QED
      BY <2>3, <3>20
  <2>. QED
    BY <2>4, <2>5
<1>. QED
  BY <1>2, <1>7, <1>8, Zenon DEF ListReadsAs

(* A list of items is read as what is written, from every position, by     *)
(* induction from the end of the text backwards.                           *)
LEMMA ListsReadAs ==
  ASSUME NEW toks, IsText(toks), NEW T, NEW text, NEW A, TextsOver(text, T, A),
         NEW sep \in A, sep = Token(sep.type, sep.val), sep.type # "End",
         NEW items, \A k \in 1..Len(toks) + 1 : ReadsAs(items[k], toks, k, T, text),
         NEW f, Lists(f, items, sep, toks)
  PROVE  \A k \in 1..Len(toks) + 1 : ListReadsAs(f[k], toks, k, T, text, sep)
<1>. DEFINE P(k) == ListReadsAs(f[k], toks, k, T, text, sep)
            B == {m \in Nat : \A k \in 1..Len(toks) + 1 : Len(toks) + 1 - k < m => P(k)}
<1>0. Len(toks) \in Nat
  BY TextIs
<1>1. \A k \in 1..Len(toks) + 1 : f[k] = ListAt(f, items, sep, toks, k)
  <2>1. PICK h : h = [k \in 1..Len(toks) + 1 |-> ListAt(f, items, sep, toks, k)]
    OBVIOUS
  <2>2. f = h
    BY <2>1, Zenon DEF Lists
  <2>. QED
    BY <2>1, <2>2
<1>2. ASSUME NEW k \in 1..Len(toks) + 1, \A i \in k + 1..Len(toks) + 1 : P(i)
      PROVE  P(k)
  BY <1>1, <1>2, ListStep
<1>. HIDE DEF P
<1>3. 0 \in B
  BY <1>0
<1>4. ASSUME NEW m \in Nat, m \in B PROVE m + 1 \in B
  <2>1. ASSUME NEW k \in 1..Len(toks) + 1, Len(toks) + 1 - k < m + 1 PROVE P(k)
    <3>1. \A i \in k + 1..Len(toks) + 1 : i \in 1..Len(toks) + 1 /\ Len(toks) + 1 - i < m
      BY <1>0, <2>1
    <3>2. \A i \in k + 1..Len(toks) + 1 : P(i)
      BY <1>4, <3>1
    <3>. QED
      BY <1>2, <3>2
  <2>. QED
    BY <2>1
<1>5. Nat \subseteq B
  <2>. HIDE DEF B
  <2>. QED
    BY <1>3, <1>4, SetInduction
<1>6. Len(toks) + 1 \in B
  BY <1>0, <1>5
<1>7. ASSUME NEW k \in 1..Len(toks) + 1 PROVE P(k)
  <2>1. Len(toks) + 1 - k < Len(toks) + 1
    BY <1>0
  <2>. QED
    BY <1>6, <2>1
<1>. QED
  BY <1>7 DEF P

----------------------------------------------------------------------------
(* The items and their texts.  Constants and expressions are tokens; they  *)
(* are among those of some set S, which has the tokens of the text.        *)
Constants(S) == {c \in S : IsConstant(c)}
Expressions(S) == {e \in S : IsExpression(e)}
Terms(S) == {t \in [lhs : S, rhs : S] : IsTerm(t)}
Fields == {f \in Declaration : f.type = "INTEGER" => f.length = 0}

IdTexts == [x \in STRING |-> <<Id(x)>>]
ConstantTexts(S) == [c \in Constants(S) |-> ConstantText(c, TRUE)]
TermTexts(S) == [t \in Terms(S) |-> TermText(t, TRUE)]
FieldTexts == [f \in Fields |-> FieldText(f)]

(* The token at a position of the text. *)
LEMMA TokenAt ==
  ASSUME NEW toks, IsText(toks), NEW i \in 1..Len(toks)
  PROVE  /\ toks[i] \in ToSet(toks) /\ toks[i] = Token(toks[i].type, toks[i].val)
         /\ TypeAt(toks, i) = toks[i].type
         /\ \A tok : tok = Token(tok.type, tok.val) => (Is(toks, i, tok) <=> toks[i] = tok)
         /\ toks[i].type = "Id" => toks[i].val \in STRING
<1>1. i \in DOMAIN toks /\ i <= Len(toks)
  BY TextIs
<1>2. toks[i] = Token(toks[i].type, toks[i].val) /\ TypeAt(toks, i) = toks[i].type
  BY <1>1 DEF IsText, TypeAt
<1>3. ASSUME NEW tok, tok = Token(tok.type, tok.val) PROVE Is(toks, i, tok) <=> toks[i] = tok
  <2>1. CASE toks[i].type = tok.type /\ toks[i].val = tok.val
    BY <1>2, <1>3, <2>1, Zenon DEF Is
  <2>2. CASE ~ (toks[i].type = tok.type /\ toks[i].val = tok.val)
    BY <1>2, <2>2, Zenon DEF Is
  <2>. QED
    BY <2>1, <2>2
<1>4. toks[i] \in ToSet(toks)
  BY <1>1 DEF ToSet
<1>5. toks[i].type = "Id" => toks[i].val \in STRING
  BY <1>1, <1>2 DEF IsText
<1>. QED
  BY <1>2, <1>3, <1>4, <1>5

(* An item of one token: g is what is read, x if the token is accepted. *)
ReadsToken(g, yes, x, toks, i, T, text) ==
  /\ g = IF yes THEN Got(x, i + 1) ELSE BadSyntax
  /\ yes => i \in 1..Len(toks) /\ x \in T /\ text[x] = <<toks[i]>>
  /\ \A v \in T : \E t : text[v] = <<t>> /\ (i \in 1..Len(toks) /\ toks[i] = t => yes /\ v = x)

(* A function that reads one token reads it as what it says.               *)
LEMMA OneToken ==
  ASSUME NEW toks, IsText(toks), NEW i \in 1..Len(toks) + 1, NEW T, NEW text, NEW g, NEW x,
         NEW yes, ReadsToken(g, yes, x, toks, i, T, text)
  PROVE  ReadsAs(g, toks, i, T, text)
<1>. USE DEF ReadsToken
<1>0. i \in Nat \ {0} /\ Len(toks) \in Nat
  BY TextIs
<1>1. ASSUME ~ Failed(g)
      PROVE  /\ g = Got(g.val, g.at) /\ g.val \in T /\ g.at \in i + 1..Len(toks) + 1
             /\ Spells(toks, i, g.at, text[g.val])
  <2>1. yes /\ g = Got(x, i + 1)
    BY <1>1 DEF BadSyntax, Got, Failed
  <2>2. g.val = x /\ g.at = i + 1
    BY <2>1 DEF Got
  <2>3. Spells(toks, i, i + 1, <<toks[i]>>)
    BY <1>0, <2>1, SpellsOne
  <2>4. i + 1 \in i + 1..Len(toks) + 1
    BY <1>0, <2>1
  <2>. QED
    BY <2>1, <2>2, <2>3, <2>4, Zenon
<1>2. ASSUME NEW v \in T, NEW j, Spells(toks, i, j, text[v])
      PROVE  g = Got(v, j)
  <2>1. PICK t : text[v] = <<t>> /\ (i \in 1..Len(toks) /\ toks[i] = t => yes /\ v = x)
    OBVIOUS
  <2>2. Spells(toks, i, j, <<t>>)
    BY <1>2, <2>1, Zenon
  <2>3. j = i + 1 /\ i \in 1..Len(toks) /\ toks[i] = t
    BY <1>0, <2>2, SpellsOne
  <2>. QED
    BY <2>1, <2>3, Zenon
<1>. QED
  BY <1>1, <1>2, Zenon DEF ReadsAs

(* A position with a type a parser asks for is one of the text. *)
LEMMA TypedAt ==
  ASSUME NEW toks, IsText(toks), NEW i \in 1..Len(toks) + 1, TypeAt(toks, i) # "End"
  PROVE  i \in 1..Len(toks)
<1>1. i \in Nat \ {0}
  BY TextIs
<1>. QED
  BY <1>1, InText

(* An identifier is read as what it says.                                  *)
LEMMA EatIdReadsAs ==
  ASSUME NEW toks, IsText(toks), NEW i \in 1..Len(toks) + 1
  PROVE  ReadsAs(EatId(toks, i), toks, i, STRING, IdTexts)
<1>1. PICK g : g = EatId(toks, i)
  OBVIOUS
<1>2. PICK x : x = toks[i].val
  OBVIOUS
<1>3. PICK yes \in BOOLEAN : yes <=> TypeAt(toks, i) = "Id"
  OBVIOUS
<1>4. g = IF yes THEN Got(x, i + 1) ELSE BadSyntax
  BY <1>1, <1>2, <1>3, Zenon DEF EatId
<1>5. ASSUME yes PROVE i \in 1..Len(toks) /\ x \in STRING /\ IdTexts[x] = <<toks[i]>>
  <2>1. i \in 1..Len(toks)
    BY <1>3, <1>5, TypedAt
  <2>2. toks[i].type = "Id" /\ toks[i] = Token("Id", x) /\ x \in STRING
    BY <1>2, <1>3, <1>5, <2>1, TokenAt
  <2>3. IdTexts[x] = <<Id(x)>>
    BY <2>2, Zenon DEF IdTexts
  <2>. QED
    BY <2>1, <2>2, <2>3, Zenon DEF Id
<1>6. ASSUME NEW v \in STRING
      PROVE  \E t : IdTexts[v] = <<t>> /\ (i \in 1..Len(toks) /\ toks[i] = t => yes /\ v = x)
  <2>1. IdTexts[v] = <<Id(v)>>
    BY Zenon DEF IdTexts
  <2>2. ASSUME i \in 1..Len(toks), toks[i] = Id(v) PROVE yes /\ v = x
    <3>1. toks[i].type = "Id" /\ toks[i].val = v
      BY <2>2 DEF Id, Token
    <3>. QED
      BY <1>2, <1>3, <2>2, <3>1, TokenAt
  <2>. QED
    BY <2>1, <2>2, Zenon
<1>7. ReadsToken(g, yes, x, toks, i, STRING, IdTexts)
  BY <1>4, <1>5, <1>6, Zenon DEF ReadsToken
<1>8. ReadsAs(g, toks, i, STRING, IdTexts)
  BY <1>7, OneToken
<1>. QED
  BY <1>1, <1>8, Zenon

(* So is a constant.                                                       *)
LEMMA ConstantReadsAs ==
  ASSUME NEW toks, IsText(toks), NEW i \in 1..Len(toks) + 1, NEW S, ToSet(toks) \subseteq S
  PROVE  ReadsAs(Constant(toks, i), toks, i, Constants(S), ConstantTexts(S))
<1>1. PICK g : g = Constant(toks, i)
  OBVIOUS
<1>2. PICK x : x = toks[i]
  OBVIOUS
<1>3. PICK yes \in BOOLEAN : yes <=> TypeAt(toks, i) \in {"Int", "String"}
  OBVIOUS
<1>4. g = IF yes THEN Got(x, i + 1) ELSE BadSyntax
  BY <1>1, <1>2, <1>3, Zenon DEF Constant
<1>0. \A c \in Constants(S) : ConstantTexts(S)[c] = <<c>>
  <2>1. \A c : ConstantText(c, TRUE) = <<c>>
    BY DEF ConstantText
  <2>. QED
    BY <2>1, Zenon DEF ConstantTexts
<1>5. ASSUME yes
      PROVE  i \in 1..Len(toks) /\ x \in Constants(S) /\ ConstantTexts(S)[x] = <<toks[i]>>
  <2>0. TypeAt(toks, i) # "End"
    BY <1>3, <1>5
  <2>1. i \in 1..Len(toks)
    BY <2>0, TypedAt
  <2>2. toks[i].type \in {"Int", "String"} /\ x = Token(x.type, x.val) /\ x \in S
    BY <1>2, <1>3, <1>5, <2>1, TokenAt
  <2>3. x \in Constants(S)
    BY <1>2, <2>2, Zenon DEF Constants, IsConstant
  <2>. QED
    BY <1>0, <1>2, <2>1, <2>3, Zenon
<1>6. ASSUME NEW v \in Constants(S)
      PROVE  \E t : /\ ConstantTexts(S)[v] = <<t>>
                    /\ (i \in 1..Len(toks) /\ toks[i] = t => yes /\ v = x)
  <2>1. ASSUME i \in 1..Len(toks), toks[i] = v PROVE yes /\ v = x
    <3>1. v.type \in {"Int", "String"}
      BY Zenon DEF Constants, IsConstant
    <3>2. TypeAt(toks, i) = toks[i].type
      BY <2>1, TokenAt
    <3>3. TypeAt(toks, i) \in {"Int", "String"}
      BY <2>1, <3>1, <3>2, Zenon
    <3>. QED
      BY <1>2, <1>3, <2>1, <3>3, Zenon
  <2>. QED
    BY <1>0, <2>1, Zenon
<1>7. ReadsToken(g, yes, x, toks, i, Constants(S), ConstantTexts(S))
  BY <1>4, <1>5, <1>6, Zenon DEF ReadsToken
<1>8. ReadsAs(g, toks, i, Constants(S), ConstantTexts(S))
  BY <1>7, OneToken
<1>. QED
  BY <1>1, <1>8, Zenon

ExpressionTexts(S) == [e \in Expressions(S) |-> ConstantText(e, TRUE)]

(* So is an expression.                                                    *)
LEMMA ExpressionReadsAs ==
  ASSUME NEW toks, IsText(toks), NEW i \in 1..Len(toks) + 1, NEW S, ToSet(toks) \subseteq S
  PROVE  ReadsAs(Expression(toks, i), toks, i, Expressions(S), ExpressionTexts(S))
<1>1. PICK g : g = Expression(toks, i)
  OBVIOUS
<1>2. PICK x : x = toks[i]
  OBVIOUS
<1>3. PICK yes \in BOOLEAN : yes <=> TypeAt(toks, i) \in {"Id", "Int", "String"}
  OBVIOUS
<1>4. g = IF yes THEN Got(x, i + 1) ELSE BadSyntax
  BY <1>1, <1>2, <1>3, Zenon DEF Expression
<1>0. \A c \in Expressions(S) : ExpressionTexts(S)[c] = <<c>>
  <2>1. \A c : ConstantText(c, TRUE) = <<c>>
    BY DEF ConstantText
  <2>. QED
    BY <2>1, Zenon DEF ExpressionTexts
<1>5. ASSUME yes
      PROVE  i \in 1..Len(toks) /\ x \in Expressions(S) /\ ExpressionTexts(S)[x] = <<toks[i]>>
  <2>0. TypeAt(toks, i) # "End"
    BY <1>3, <1>5
  <2>1. i \in 1..Len(toks)
    BY <2>0, TypedAt
  <2>2. toks[i].type \in {"Id", "Int", "String"} /\ x = Token(x.type, x.val) /\ x \in S
    BY <1>2, <1>3, <1>5, <2>1, TokenAt
  <2>3. x.type = "Id" => x = Id(x.val) /\ x.val \in STRING
    BY <1>2, <2>1, <2>2, TokenAt DEF Id
  <2>4. x \in Expressions(S)
    BY <1>2, <2>2, <2>3, Zenon DEF Expressions, IsExpression, IsConstant
  <2>. QED
    BY <1>0, <1>2, <2>1, <2>4, Zenon
<1>6. ASSUME NEW v \in Expressions(S)
      PROVE  \E t : /\ ExpressionTexts(S)[v] = <<t>>
                    /\ (i \in 1..Len(toks) /\ toks[i] = t => yes /\ v = x)
  <2>1. ASSUME i \in 1..Len(toks), toks[i] = v PROVE yes /\ v = x
    <3>1. v.type \in {"Id", "Int", "String"}
      <4>1. IsConstant(v) \/ v = Id(v.val)
        BY Zenon DEF Expressions, IsExpression
      <4>2. v = Id(v.val) => v.type = "Id"
        BY DEF Id, Token
      <4>. QED
        BY <4>1, <4>2, Zenon DEF IsConstant
    <3>2. TypeAt(toks, i) = toks[i].type
      BY <2>1, TokenAt
    <3>3. TypeAt(toks, i) \in {"Id", "Int", "String"}
      BY <2>1, <3>1, <3>2, Zenon
    <3>. QED
      BY <1>2, <1>3, <2>1, <3>3, Zenon
  <2>. QED
    BY <1>0, <2>1, Zenon
<1>7. ReadsToken(g, yes, x, toks, i, Expressions(S), ExpressionTexts(S))
  BY <1>4, <1>5, <1>6, Zenon DEF ReadsToken
<1>8. ReadsAs(g, toks, i, Expressions(S), ExpressionTexts(S))
  BY <1>7, OneToken
<1>. QED
  BY <1>1, <1>8, Zenon

(* Where a sequence of tokens is spelled. *)
LEMMA SpellsTokens ==
  ASSUME NEW toks, IsText(toks), NEW i \in 1..Len(toks) + 1, NEW A, NEW t \in Seq(A), NEW n,
         n = Len(t),
         i + n <= Len(toks) + 1, \A k \in 1..n : toks[i + k - 1] = t[k]
  PROVE  Spells(toks, i, i + n, t)
<1>0. i \in Nat \ {0} /\ Len(toks) \in Nat /\ n \in Nat
  BY TextIs
<1>1. i + n \in Nat /\ i <= i + n /\ Len(t) = (i + n) - i
  BY <1>0
<1>2. \A k \in 1..(i + n) - i : t[k] = toks[i + k - 1]
  BY <1>0
<1>. QED
  BY <1>0, <1>1, <1>2, SpellsIf

(* Spelling a text token by token, both ways.                              *)
LEMMA SpelledTokens ==
  ASSUME NEW toks, IsText(toks), NEW i \in 1..Len(toks) + 1, NEW j, NEW t, Spells(toks, i, j, t)
  PROVE  /\ j = i + Len(t) /\ j <= Len(toks) + 1
         /\ \A k \in 1..Len(t) : toks[i + k - 1] = t[k]
<1>1. /\ i \in Nat /\ j \in Nat /\ j <= Len(toks) + 1 /\ Len(t) = j - i
      /\ \A k \in 1..j - i : t[k] = toks[i + k - 1]
  BY Spelled
<1>. QED
  BY <1>1

(* The tokens of a field definition (Parser::field_def, field_type). *)
LEMMA FieldTextIs ==
  ASSUME NEW f \in Fields
  PROVE  /\ f.name \in STRING /\ f.length \in Nat /\ f.type \in {"INTEGER", "VARCHAR"}
         /\ f = [name |-> f.name, type |-> f.type, length |-> f.length]
         /\ f.type = "INTEGER" => /\ f.length = 0
                                  /\ FieldTexts[f] = <<Id(f.name), Keyword("int")>>
         /\ f.type = "VARCHAR" => FieldTexts[f] = <<Id(f.name), Keyword("varchar"), Delim("("),
                                                    Num(f.length), Delim(")")>>
<1>1. f \in Declaration /\ (f.type = "INTEGER" => f.length = 0)
  BY DEF Fields
<1>2. /\ f.name \in STRING /\ f.length \in Nat /\ f.type \in {"INTEGER", "VARCHAR"}
      /\ f = [name |-> f.name, type |-> f.type, length |-> f.length]
  BY <1>1 DEF Declaration
<1>3. FieldTexts[f] = FieldText(f)
  BY Zenon DEF FieldTexts
<1>4. f.type = "INTEGER" => FieldTexts[f] = <<Id(f.name), Keyword("int")>>
  BY <1>3, Zenon DEF FieldText
<1>5. f.type = "VARCHAR" => f.type # "INTEGER"
  OBVIOUS
<1>6. f.type = "VARCHAR" => FieldTexts[f] = <<Id(f.name), Keyword("varchar"), Delim("("),
                                              Num(f.length), Delim(")")>>
  BY <1>3, <1>5, Zenon DEF FieldText
<1>. QED
  BY <1>1, <1>2, <1>4, <1>6

(* A token that is there, given as a term. *)
LEMMA IsThere ==
  ASSUME NEW toks, IsText(toks), NEW i \in Nat \ {0}, NEW tok, tok = Token(tok.type, tok.val),
         tok.type # "End"
  PROVE  Is(toks, i, tok) <=> i \in 1..Len(toks) /\ toks[i] = tok
<1>1. ASSUME Is(toks, i, tok) PROVE i \in 1..Len(toks) /\ toks[i] = tok
  <2>1. i \in 1..Len(toks)
    BY <1>1, IsInText
  <2>. QED
    BY <1>1, <2>1, TokenAt
<1>2. ASSUME i \in 1..Len(toks), toks[i] = tok PROVE Is(toks, i, tok)
  BY <1>2, TokenAt
<1>. QED
  BY <1>1, <1>2

(* A declaration is read as what it says.                                  *)
LEMMA FieldDefReadsAs ==
  ASSUME NEW toks, IsText(toks), NEW i \in 1..Len(toks) + 1
  PROVE  ReadsAs(FieldDef(toks, i), toks, i, Fields, FieldTexts)
<1>1. PICK g : g = FieldDef(toks, i)
  OBVIOUS
<1>. DEFINE int == TypeAt(toks, i) = "Id" /\ Is(toks, i + 1, Keyword("int"))
            chars == /\ TypeAt(toks, i) = "Id" /\ Is(toks, i + 1, Keyword("varchar"))
                     /\ Is(toks, i + 2, Delim("(")) /\ TypeAt(toks, i + 3) = "Int"
                     /\ Is(toks, i + 4, Delim(")"))
            n == Len(toks)
<1>2. i \in Nat \ {0} /\ n \in Nat /\ DOMAIN toks = 1..n
  BY TextIs
<1>3. PICK kint : kint = Keyword("int")
  OBVIOUS
<1>4. PICK kchar : kchar = Keyword("varchar")
  OBVIOUS
<1>5. PICK left : left = Delim("(")
  OBVIOUS
<1>6. PICK right : right = Delim(")")
  OBVIOUS
<1>7. /\ kint = Token(kint.type, kint.val) /\ kint.type = "Keyword" /\ kint.val = "int"
      /\ kchar = Token(kchar.type, kchar.val) /\ kchar.type = "Keyword" /\ kchar.val = "varchar"
      /\ left = Token(left.type, left.val) /\ left.type = "Delim"
      /\ right = Token(right.type, right.val) /\ right.type = "Delim"
  BY <1>3, <1>4, <1>5, <1>6 DEF Keyword, Delim, Token
<1>8. /\ \A k \in Nat \ {0} : Is(toks, k, kint) <=> k \in 1..n /\ toks[k] = kint
      /\ \A k \in Nat \ {0} : Is(toks, k, kchar) <=> k \in 1..n /\ toks[k] = kchar
      /\ \A k \in Nat \ {0} : Is(toks, k, left) <=> k \in 1..n /\ toks[k] = left
      /\ \A k \in Nat \ {0} : Is(toks, k, right) <=> k \in 1..n /\ toks[k] = right
  <2>1. kint.type # "End" /\ kchar.type # "End" /\ left.type # "End" /\ right.type # "End"
    BY <1>7
  <2>. QED
    BY <1>7, <2>1, IsThere
<1>9. /\ int <=> TypeAt(toks, i) = "Id" /\ i + 1 \in 1..n /\ toks[i + 1] = kint
      /\ chars <=> /\ TypeAt(toks, i) = "Id" /\ i + 4 \in 1..n /\ toks[i + 1] = kchar
                   /\ toks[i + 2] = left /\ TypeAt(toks, i + 3) = "Int" /\ toks[i + 4] = right
  <2>1. i + 1 \in Nat \ {0} /\ i + 2 \in Nat \ {0} /\ i + 4 \in Nat \ {0}
    BY <1>2
  <2>2. i + 4 \in 1..n => i + 1 \in 1..n /\ i + 2 \in 1..n
    BY <1>2
  <2>. HIDE DEF n
  <2>. QED
    BY <1>3, <1>4, <1>5, <1>6, <1>8, <2>1, <2>2
<1>10. ASSUME int, i \in 1..n
       PROVE  g = Got([name |-> toks[i].val, type |-> "INTEGER", length |-> 0], i + 2)
  <2>1. ~ Is(toks, i + 1, Keyword("varchar"))
    <3>1. Keyword("varchar") = kchar /\ Is(toks, i + 1, kint) /\ kint # kchar
      BY <1>3, <1>4, <1>7, <1>10
    <3>2. i + 1 \in Nat \ {0}
      BY <1>2
    <3>. QED
      BY <1>8, <3>1, <3>2
  <2>. QED
    BY <1>1, <1>10, <2>1 DEF FieldDef
<1>11. ASSUME chars
       PROVE  g = Got([name |-> toks[i].val, type |-> "VARCHAR", length |-> toks[i + 3].val], i + 5)
  <2>1. ~ Is(toks, i + 1, Keyword("int"))
    <3>1. Keyword("int") = kint /\ Is(toks, i + 1, kchar) /\ kint # kchar
      BY <1>3, <1>4, <1>7, <1>11
    <3>2. i + 1 \in Nat \ {0}
      BY <1>2
    <3>. QED
      BY <1>8, <3>1, <3>2
  <2>. QED
    BY <1>1, <1>11, <2>1 DEF FieldDef
<1>12. ASSUME ~ int, ~ chars PROVE g = BadSyntax
  BY <1>1, <1>12 DEF FieldDef
<1>13. ASSUME TypeAt(toks, i) = "Id"
       PROVE  i \in 1..n /\ toks[i] = Id(toks[i].val) /\ toks[i].val \in STRING
  <2>1. i \in 1..n
    BY <1>13, TypedAt
  <2>2. toks[i].type = "Id" /\ toks[i] = Token("Id", toks[i].val) /\ toks[i].val \in STRING
    BY <1>13, <2>1, TokenAt
  <2>. QED
    BY <2>1, <2>2 DEF Id
<1>14. ASSUME ~ Failed(g)
       PROVE  /\ g = Got(g.val, g.at) /\ g.val \in Fields /\ g.at \in i + 1..n + 1
              /\ Spells(toks, i, g.at, FieldTexts[g.val])
  <2>1. CASE int
    <3>1. i \in 1..n /\ i + 1 \in 1..n /\ toks[i + 1] = kint
      BY <1>9, <1>13, <2>1
    <3>2. PICK f : f = [name |-> toks[i].val, type |-> "INTEGER", length |-> 0]
      OBVIOUS
    <3>3. f \in Fields /\ f.name = toks[i].val /\ f.type = "INTEGER"
      <4>1. toks[i].val \in STRING
        BY <1>13, <2>1
      <4>. QED
        BY <3>2, <4>1 DEF Fields, Declaration
    <3>4. g = Got(f, i + 2)
      BY <1>10, <2>1, <3>1, <3>2
    <3>5. PICK t : t = <<Id(f.name), kint>>
      OBVIOUS
    <3>6. FieldTexts[f] = t
      BY <1>3, <3>3, <3>5, FieldTextIs
    <3>7. t \in Seq({Id(f.name), kint}) /\ Len(t) = 2 /\ t[1] = Id(f.name) /\ t[2] = kint
      BY <3>5
    <3>8. Spells(toks, i, i + 2, t)
      <4>1. i + 2 <= Len(toks) + 1
        BY <1>2, <3>1
      <4>2. toks[i] = Id(f.name)
        BY <1>13, <2>1, <3>3
      <4>3. \A k \in 1..2 : toks[i + k - 1] = t[k]
        BY <1>2, <3>1, <3>7, <4>2
      <4>. QED
        BY <3>7, <4>1, <4>3, SpellsTokens
    <3>9. g.val = f /\ g.at = i + 2
      BY <3>4 DEF Got
    <3>10. i + 2 \in i + 1..n + 1
      BY <1>2, <3>1
    <3>. QED
      BY <3>3, <3>4, <3>6, <3>8, <3>9, <3>10, Zenon
  <2>2. CASE chars
    <3>1. /\ i \in 1..n /\ i + 3 \in 1..n /\ i + 4 \in 1..n /\ toks[i + 1] = kchar
          /\ toks[i + 2] = left /\ toks[i + 4] = right
      BY <1>2, <1>9, <1>13, <2>2
    <3>2. toks[i + 3] = Num(toks[i + 3].val)
      <4>1. toks[i + 3].type = "Int" /\ toks[i + 3] = Token("Int", toks[i + 3].val)
        BY <2>2, <3>1, TokenAt
      <4>. QED
        BY <4>1 DEF Num
    <3>3. toks[i + 3].val \in Nat
      <4>1. i + 1 \in DOMAIN toks /\ (i + 1) + 2 = i + 3
        BY <1>2, <3>1
      <4>2. Is(toks, i + 1, Keyword("varchar")) /\ TypeAt(toks, (i + 1) + 2) = "Int"
        BY <2>2, <4>1
      <4>3. toks[(i + 1) + 2].val \in Nat
        BY <4>1, <4>2 DEF IsText
      <4>. QED
        BY <4>1, <4>3
    <3>4. PICK f : f = [name |-> toks[i].val, type |-> "VARCHAR", length |-> toks[i + 3].val]
      OBVIOUS
    <3>5. /\ f \in Fields /\ f.name = toks[i].val /\ f.type = "VARCHAR"
          /\ f.length = toks[i + 3].val
      <4>1. toks[i].val \in STRING
        BY <1>13, <2>2
      <4>. QED
        BY <3>3, <3>4, <4>1 DEF Fields, Declaration
    <3>6. g = Got(f, i + 5)
      BY <1>11, <2>2, <3>4
    <3>7. PICK t : t = <<Id(f.name), kchar, left, Num(f.length), right>>
      OBVIOUS
    <3>8. FieldTexts[f] = t
      BY <1>4, <1>5, <1>6, <3>5, <3>7, FieldTextIs
    <3>9. /\ t \in Seq({Id(f.name), kchar, left, Num(f.length), right}) /\ Len(t) = 5
          /\ t[1] = Id(f.name) /\ t[2] = kchar /\ t[3] = left /\ t[4] = Num(f.length)
          /\ t[5] = right
      BY <3>7
    <3>10. Spells(toks, i, i + 5, t)
      <4>1. i + 5 <= Len(toks) + 1
        BY <1>2, <3>1
      <4>2. toks[i] = Id(f.name) /\ toks[i + 3] = Num(f.length)
        BY <1>13, <2>2, <3>2, <3>5
      <4>3. \A k \in 1..5 : toks[i + k - 1] = t[k]
        <5>. SUFFICES ASSUME NEW k \in 1..5 PROVE toks[i + k - 1] = t[k]
          OBVIOUS
        <5>1. k = 1 \/ k = 2 \/ k = 3 \/ k = 4 \/ k = 5
          OBVIOUS
        <5>2. /\ k = 1 => i + k - 1 = i
              /\ k = 2 => i + k - 1 = i + 1
              /\ k = 3 => i + k - 1 = i + 2
              /\ k = 4 => i + k - 1 = i + 3
              /\ k = 5 => i + k - 1 = i + 4
          BY <1>2
        <5>. QED
          BY <1>2, <3>1, <3>9, <4>2, <5>1, <5>2
      <4>. QED
        BY <3>9, <4>1, <4>3, SpellsTokens
    <3>11. g.val = f /\ g.at = i + 5
      BY <3>6 DEF Got
    <3>12. i + 5 \in i + 1..n + 1
      BY <1>2, <3>1
    <3>. QED
      BY <3>5, <3>6, <3>8, <3>10, <3>11, <3>12, Zenon
  <2>3. CASE ~ int /\ ~ chars
    BY <1>12, <1>14, <2>3 DEF BadSyntax, Got, Failed
  <2>. QED
    BY <2>1, <2>2, <2>3
<1>15. ASSUME NEW v \in Fields, NEW j, Spells(toks, i, j, FieldTexts[v])
       PROVE  g = Got(v, j)
  <2>0. ASSUME i \in 1..n, toks[i] = Id(v.name)
        PROVE  TypeAt(toks, i) = "Id" /\ toks[i].val = v.name
    BY <2>0, TokenAt DEF Id, Token
  <2>1. CASE v.type = "INTEGER"
    <3>1. PICK t : t = <<Id(v.name), kint>>
      OBVIOUS
    <3>2. FieldTexts[v] = t /\ v = [name |-> v.name, type |-> "INTEGER", length |-> 0]
      BY <1>3, <2>1, <3>1, FieldTextIs
    <3>3. t \in Seq({Id(v.name), kint}) /\ Len(t) = 2 /\ t[1] = Id(v.name) /\ t[2] = kint
      BY <3>1
    <3>4. Spells(toks, i, j, t)
      BY <1>15, <3>2, Zenon
    <3>5. j = i + 2 /\ i + 2 <= n + 1 /\ \A k \in 1..2 : toks[i + k - 1] = t[k]
      <4>1. j = i + Len(t) /\ j <= n + 1 /\ \A k \in 1..Len(t) : toks[i + k - 1] = t[k]
        BY <3>4, SpelledTokens
      <4>. QED
        BY <3>3, <4>1
    <3>6. /\ i \in 1..n /\ i + 1 \in 1..n /\ toks[i + 1 - 1] = Id(v.name)
          /\ toks[i + 2 - 1] = kint
      BY <1>2, <3>3, <3>5
    <3>7. toks[i] = Id(v.name) /\ toks[i + 1] = kint
      BY <1>2, <3>6
    <3>8. int
      BY <1>9, <2>0, <3>6, <3>7
    <3>. QED
      BY <1>10, <2>0, <3>2, <3>5, <3>6, <3>7, <3>8
  <2>2. CASE v.type = "VARCHAR"
    <3>1. PICK t : t = <<Id(v.name), kchar, left, Num(v.length), right>>
      OBVIOUS
    <3>2. FieldTexts[v] = t /\ v = [name |-> v.name, type |-> "VARCHAR", length |-> v.length]
      BY <1>4, <1>5, <1>6, <2>2, <3>1, FieldTextIs
    <3>3. /\ t \in Seq({Id(v.name), kchar, left, Num(v.length), right}) /\ Len(t) = 5
          /\ t[1] = Id(v.name) /\ t[2] = kchar /\ t[3] = left /\ t[4] = Num(v.length)
          /\ t[5] = right
      BY <3>1
    <3>4. Spells(toks, i, j, t)
      BY <1>15, <3>2, Zenon
    <3>5. j = i + 5 /\ i + 5 <= n + 1 /\ \A k \in 1..5 : toks[i + k - 1] = t[k]
      <4>1. j = i + Len(t) /\ j <= n + 1 /\ \A k \in 1..Len(t) : toks[i + k - 1] = t[k]
        BY <3>4, SpelledTokens
      <4>. QED
        BY <3>3, <4>1
    <3>6. /\ toks[i + 1 - 1] = Id(v.name) /\ toks[i + 2 - 1] = kchar /\ toks[i + 3 - 1] = left
          /\ toks[i + 4 - 1] = Num(v.length) /\ toks[i + 5 - 1] = right
      BY <3>3, <3>5
    <3>7. /\ i \in 1..n /\ i + 3 \in 1..n /\ i + 4 \in 1..n
          /\ i + 1 - 1 = i /\ i + 2 - 1 = i + 1 /\ i + 3 - 1 = i + 2 /\ i + 4 - 1 = i + 3
          /\ i + 5 - 1 = i + 4
      BY <1>2, <3>5
    <3>8. /\ toks[i] = Id(v.name) /\ toks[i + 1] = kchar /\ toks[i + 2] = left
          /\ toks[i + 3] = Num(v.length) /\ toks[i + 4] = right
      BY <3>6, <3>7
    <3>9. TypeAt(toks, i + 3) = "Int" /\ toks[i + 3].val = v.length
      BY <3>7, <3>8, TokenAt DEF Num, Token
    <3>10. chars
      BY <1>9, <2>0, <3>7, <3>8, <3>9
    <3>. QED
      BY <1>11, <2>0, <3>2, <3>5, <3>7, <3>8, <3>9, <3>10
  <2>. QED
    BY <2>1, <2>2, FieldTextIs
<1>. HIDE DEF int, chars
<1>. QED
  BY <1>1, <1>14, <1>15, Zenon DEF ReadsAs

(* The tokens of a term. *)
LEMMA TermTextIs ==
  ASSUME NEW S, NEW t \in Terms(S)
  PROVE  /\ t.lhs \in Expressions(S) /\ t.rhs \in Expressions(S)
         /\ t = [lhs |-> t.lhs, rhs |-> t.rhs]
         /\ TermTexts(S)[t] = <<t.lhs, Delim("="), t.rhs>>
<1>1. t \in [lhs : S, rhs : S] /\ IsTerm(t)
  BY DEF Terms
<1>2. t.lhs \in Expressions(S) /\ t.rhs \in Expressions(S) /\ t = [lhs |-> t.lhs, rhs |-> t.rhs]
  BY <1>1 DEF IsTerm, Expressions
<1>3. PICK l : l = t.lhs
  OBVIOUS
<1>4. PICK r : r = t.rhs
  OBVIOUS
<1>5. PICK eq : eq = Delim("=")
  OBVIOUS
<1>6. TermTexts(S)[t] = TermText(t, TRUE)
  BY Zenon DEF TermTexts
<1>7. ConstantText(l, TRUE) = <<l>> /\ ConstantText(r, TRUE) = <<r>>
  BY DEF ConstantText
<1>8. TermText(t, TRUE) = <<l>> \o <<eq>> \o <<r>>
  BY <1>3, <1>4, <1>5, <1>7, Zenon DEF TermText
<1>9. <<l>> \o <<eq>> \o <<r>> = <<l, eq, r>>
  BY ThreeSingles
<1>. QED
  BY <1>2, <1>3, <1>4, <1>5, <1>6, <1>8, <1>9, Zenon

(* A term is read as what it says.                                         *)
LEMMA TermReadsAs ==
  ASSUME NEW toks, IsText(toks), NEW i \in 1..Len(toks) + 1, NEW S, ToSet(toks) \subseteq S
  PROVE  ReadsAs(Term(toks, i), toks, i, Terms(S), TermTexts(S))
<1>1. PICK g : g = Term(toks, i)
  OBVIOUS
<1>2. PICK eq : eq = Delim("=")
  OBVIOUS
<1>3. eq = Token(eq.type, eq.val) /\ eq.type = "Delim"
  BY <1>2 DEF Delim, Token
<1>4. PICK lhs : lhs = Expression(toks, i)
  OBVIOUS
<1>5. PICK rhs : rhs = Expression(toks, lhs.at + 1)
  OBVIOUS
<1>6. g = IF Failed(lhs) \/ ~ Is(toks, lhs.at, eq) \/ Failed(rhs) THEN BadSyntax
          ELSE Got([lhs |-> lhs.val, rhs |-> rhs.val], rhs.at)
  BY <1>1, <1>2, <1>4, <1>5, Zenon DEF Term
<1>. DEFINE n == Len(toks)
<1>7. i \in Nat \ {0} /\ n \in Nat
  BY TextIs
<1>8. \A e : ConstantText(e, TRUE) = <<e>>
  BY DEF ConstantText
<1>9. \A e \in Expressions(S) : ExpressionTexts(S)[e] = <<e>>
  BY <1>8, Zenon DEF ExpressionTexts
<1>10. ASSUME NEW k \in 1..n + 1, NEW h, h = Expression(toks, k), ~ Failed(h)
       PROVE  k \in 1..n /\ h.val \in Expressions(S) /\ h.at = k + 1 /\ toks[k] = h.val
  <2>1. ReadsAs(h, toks, k, Expressions(S), ExpressionTexts(S))
    BY <1>10, ExpressionReadsAs
  <2>2. h.val \in Expressions(S) /\ Spells(toks, k, h.at, ExpressionTexts(S)[h.val])
    BY <1>10, <2>1, Zenon DEF ReadsAs
  <2>3. Spells(toks, k, h.at, <<h.val>>)
    BY <1>9, <2>2, Zenon
  <2>4. k \in Nat \ {0}
    BY <1>7
  <2>. QED
    BY <2>2, <2>3, <2>4, SpellsOne
<1>11. ASSUME NEW k \in 1..n, toks[k] \in Expressions(S)
       PROVE  Expression(toks, k) = Got(toks[k], k + 1)
  <2>0. k \in 1..n + 1 /\ k \in Nat \ {0} /\ k <= n
    BY <1>7
  <2>1. ReadsAs(Expression(toks, k), toks, k, Expressions(S), ExpressionTexts(S))
    BY <2>0, ExpressionReadsAs
  <2>2. Spells(toks, k, k + 1, <<toks[k]>>)
    BY <2>0, SpellsOne
  <2>3. Spells(toks, k, k + 1, ExpressionTexts(S)[toks[k]])
    BY <1>9, <1>11, <2>2, Zenon
  <2>. QED
    BY <1>11, <2>1, <2>3, Zenon DEF ReadsAs
<1>12. ASSUME ~ Failed(g)
       PROVE  /\ g = Got(g.val, g.at) /\ g.val \in Terms(S) /\ g.at \in i + 1..n + 1
              /\ Spells(toks, i, g.at, TermTexts(S)[g.val])
  <2>1. ~ Failed(lhs) /\ Is(toks, lhs.at, eq) /\ ~ Failed(rhs)
    BY <1>6, <1>12 DEF BadSyntax, Got, Failed
  <2>2. i \in 1..n /\ lhs.val \in Expressions(S) /\ lhs.at = i + 1 /\ toks[i] = lhs.val
    BY <1>4, <1>10, <2>1
  <2>3. i + 1 \in 1..n /\ toks[i + 1] = eq
    <3>1. i + 1 \in Nat \ {0} /\ eq.type # "End"
      BY <1>3, <1>7
    <3>. QED
      BY <1>3, <2>1, <2>2, <3>1, IsThere
  <2>4. PICK k \in 1..n + 1 : k = i + 2
    BY <1>7, <2>3
  <2>5. lhs.at + 1 = k
    BY <1>7, <2>2, <2>4
  <2>6. k \in 1..n /\ rhs.val \in Expressions(S) /\ rhs.at = k + 1 /\ toks[k] = rhs.val
    BY <1>5, <1>10, <2>1, <2>5
  <2>7. PICK t : t = [lhs |-> lhs.val, rhs |-> rhs.val]
    OBVIOUS
  <2>8. g = Got(t, rhs.at)
    BY <1>6, <2>1, <2>7, Zenon
  <2>9. t \in Terms(S) /\ t.lhs = lhs.val /\ t.rhs = rhs.val
    BY <2>2, <2>6, <2>7 DEF Terms, IsTerm, Expressions
  <2>10. PICK w : w = <<lhs.val, eq, rhs.val>>
    OBVIOUS
  <2>11. TermTexts(S)[t] = w
    BY <1>2, <2>9, <2>10, TermTextIs
  <2>12. /\ w \in Seq({lhs.val, eq, rhs.val}) /\ Len(w) = 3
         /\ w[1] = lhs.val /\ w[2] = eq /\ w[3] = rhs.val
    BY <2>10
  <2>13. i + 3 <= n + 1 /\ rhs.at = i + 3 /\ i + 3 \in i + 1..n + 1
    BY <1>7, <2>4, <2>6
  <2>14. \A m \in 1..3 : toks[i + m - 1] = w[m]
    <3>. SUFFICES ASSUME NEW m \in 1..3 PROVE toks[i + m - 1] = w[m]
      OBVIOUS
    <3>1. m = 1 \/ m = 2 \/ m = 3
      OBVIOUS
    <3>2. /\ m = 1 => i + m - 1 = i
          /\ m = 2 => i + m - 1 = i + 1
          /\ m = 3 => i + m - 1 = i + 2
      BY <1>7
    <3>. QED
      BY <2>2, <2>3, <2>4, <2>6, <2>12, <3>1, <3>2
  <2>15. Spells(toks, i, i + 3, w)
    BY <2>12, <2>13, <2>14, SpellsTokens
  <2>16. g.val = t /\ g.at = i + 3
    BY <2>8, <2>13 DEF Got
  <2>. QED
    BY <2>8, <2>9, <2>11, <2>13, <2>15, <2>16, Zenon
<1>13. ASSUME NEW v \in Terms(S), NEW j, Spells(toks, i, j, TermTexts(S)[v])
       PROVE  g = Got(v, j)
  <2>1. PICK w : w = <<v.lhs, eq, v.rhs>>
    OBVIOUS
  <2>2. /\ v.lhs \in Expressions(S) /\ v.rhs \in Expressions(S)
        /\ v = [lhs |-> v.lhs, rhs |-> v.rhs] /\ TermTexts(S)[v] = w
    BY <1>2, <2>1, TermTextIs
  <2>3. Len(w) = 3 /\ w[1] = v.lhs /\ w[2] = eq /\ w[3] = v.rhs
    BY <2>1
  <2>4. Spells(toks, i, j, w)
    BY <1>13, <2>2, Zenon
  <2>5. j = i + Len(w) /\ j <= n + 1 /\ \A m \in 1..Len(w) : toks[i + m - 1] = w[m]
    BY <2>4, SpelledTokens
  <2>6. /\ j = i + 3 /\ i \in 1..n /\ i + 1 \in 1..n /\ i + 2 \in 1..n
        /\ i + 1 - 1 = i /\ i + 2 - 1 = i + 1 /\ i + 3 - 1 = i + 2
    BY <1>7, <2>3, <2>5
  <2>7. toks[i + 1 - 1] = w[1] /\ toks[i + 2 - 1] = w[2] /\ toks[i + 3 - 1] = w[3]
    BY <2>3, <2>5
  <2>8. toks[i] = v.lhs /\ toks[i + 1] = eq /\ toks[i + 2] = v.rhs
    BY <2>3, <2>6, <2>7
  <2>9. lhs = Got(v.lhs, i + 1)
    BY <1>4, <1>11, <2>2, <2>6, <2>8
  <2>10. lhs.val = v.lhs /\ lhs.at = i + 1 /\ ~ Failed(lhs)
    BY <1>7, <2>9 DEF Got, Failed
  <2>11. Is(toks, lhs.at, eq)
    <3>1. i + 1 \in Nat \ {0} /\ eq.type # "End"
      BY <1>3, <1>7
    <3>. QED
      BY <1>3, <2>6, <2>8, <2>10, <3>1, IsThere
  <2>12. PICK k \in 1..n : k = i + 2
    BY <2>6
  <2>13. lhs.at + 1 = k /\ k + 1 = j
    BY <1>7, <2>6, <2>10, <2>12
  <2>14. rhs = Got(v.rhs, j)
    BY <1>5, <1>11, <2>2, <2>8, <2>12, <2>13
  <2>15. rhs.val = v.rhs /\ rhs.at = j /\ ~ Failed(rhs)
    BY <1>7, <2>6, <2>14 DEF Got, Failed
  <2>. QED
    BY <1>6, <2>2, <2>10, <2>11, <2>15, Zenon
<1>. QED
  BY <1>1, <1>12, <1>13, Zenon DEF ReadsAs

----------------------------------------------------------------------------
(* Lists of items that are read as their texts: the list function exists,  *)
(* and what ListOf takes from it is read as the list's text.               *)
ItemsRead(items, toks, T, text, sep) ==
  /\ sep = Token(sep.type, sep.val) /\ sep.type # "End"
  /\ \E A : sep \in A /\ TextsOver(text, T, A)
  /\ \A k \in 1..Len(toks) + 1 : ReadsAs(items[k], toks, k, T, text)

(* What the recursive function of a list returns, when it exists.          *)
LEMMA ListFunction ==
  ASSUME NEW toks, IsText(toks), NEW items, NEW T, NEW text, NEW sep,
         ItemsRead(items, toks, T, text, sep)
  PROVE  \E f : Lists(f, items, sep, toks)
<1>1. ASSUME NEW k \in 1..Len(toks) + 1 PROVE Reads(items[k], toks, k, T)
  BY <1>1, Zenon DEF ItemsRead, ReadsAs, Reads
<1>. QED
  BY <1>1, ListsExist, Zenon DEF ItemsRead

(* The list that is read is the value of that function.                    *)
LEMMA ListValue ==
  ASSUME NEW toks, IsText(toks), NEW items, NEW T, NEW text, NEW sep,
         ItemsRead(items, toks, T, text, sep), NEW f, Lists(f, items, sep, toks),
         NEW i \in 1..Len(toks) + 1, NEW g, g = IF i > Len(toks) THEN BadSyntax ELSE f[i]
  PROVE  ListReadsAs(g, toks, i, T, text, sep)
<1>1. PICK A : sep \in A /\ TextsOver(text, T, A)
  BY DEF ItemsRead
<1>2. ListReadsAs(f[i], toks, i, T, text, sep)
  BY <1>1, ListsReadAs, Zenon DEF ItemsRead
<1>3. CASE i <= Len(toks)
  BY <1>2, <1>3, TextIs
<1>4. CASE i > Len(toks)
  <2>1. g = BadSyntax /\ Failed(g)
    BY <1>4 DEF BadSyntax, Got, Failed
  <2>2. i \in Nat /\ i = Len(toks) + 1
    BY <1>4, TextIs
  <2>3. ASSUME NEW v \in Seq(T) \ {<<>>}, NEW j,
               Spells(toks, i, j, Joined(text, v, sep)), ~ Is(toks, j, sep)
        PROVE  FALSE
    <3>1. f[i] = Got(v, j)
      BY <1>2, <2>3, Zenon DEF ListReadsAs
    <3>2. j \in Nat \ {0}
      BY <2>3, Spelled
    <3>3. ~ Failed(f[i])
      BY <3>1, <3>2 DEF Got, Failed
    <3>4. f[i].at \in i + 1..Len(toks) + 1
      BY <1>2, <3>3, Zenon DEF ListReadsAs
    <3>. QED
      BY <2>2, <3>4
  <2>. QED
    BY <2>1, <2>3, Zenon DEF ListReadsAs
<1>5. i > Len(toks) \/ i <= Len(toks)
  BY TextIs
<1>. QED
  BY <1>3, <1>4, <1>5

----------------------------------------------------------------------------
(* The separators. *)
LEMMA Separators ==
  ASSUME NEW sep \in {Delim(","), Keyword("and")}
  PROVE  sep = Token(sep.type, sep.val) /\ sep.type # "End"
<1>1. CASE sep = Delim(",")
  BY <1>1 DEF Delim, Token
<1>2. CASE sep = Keyword("and")
  BY <1>2 DEF Keyword, Token
<1>. QED
  BY <1>1, <1>2

(* Identifiers, constants, declarations and terms in a list. *)
LEMMA IdsRead ==
  ASSUME NEW toks, IsText(toks)
  PROVE  ItemsRead([k \in 1..Len(toks) + 1 |-> EatId(toks, k)], toks, STRING, IdTexts, Delim(","))
<1>1. PICK A : A = {Delim(",")} \cup {Id(x) : x \in STRING}
  OBVIOUS
<1>2. TextsOver(IdTexts, STRING, A)
  <2>1. SUFFICES ASSUME NEW x \in STRING PROVE IdTexts[x] \in Seq(A)
    BY DEF TextsOver
  <2>2. IdTexts[x] = <<Id(x)>>
    BY DEF IdTexts
  <2>3. Id(x) \in A
    BY <1>1, Zenon
  <2>4. PICK id : id = Id(x)
    OBVIOUS
  <2>5. id \in A
    BY <2>3, <2>4, Zenon
  <2>6. <<id>> \in Seq(A)
    BY <2>5
  <2>. QED
    BY <2>2, <2>4, <2>6, Zenon
<1>3. Delim(",") \in A
  BY <1>1
<1>. QED
  BY <1>2, <1>3, Separators, EatIdReadsAs, Zenon DEF ItemsRead

(* At every place a constant is read as what it says.                      *)
LEMMA ConstantsRead ==
  ASSUME NEW toks, IsText(toks), NEW S, ToSet(toks) \subseteq S
  PROVE  ItemsRead([k \in 1..Len(toks) + 1 |-> Constant(toks, k)], toks, Constants(S),
                   ConstantTexts(S), Delim(","))
<1>1. PICK A : A = {Delim(",")} \cup S
  OBVIOUS
<1>2. TextsOver(ConstantTexts(S), Constants(S), A)
  <2>1. SUFFICES ASSUME NEW x \in Constants(S) PROVE ConstantTexts(S)[x] \in Seq(A)
    BY DEF TextsOver
  <2>2. ConstantTexts(S)[x] = <<x>>
    BY DEF ConstantTexts, ConstantText
  <2>3. x \in A
    BY <1>1 DEF Constants
  <2>4. <<x>> \in Seq(A)
    BY <2>3
  <2>. QED
    BY <2>2, <2>4, Zenon
<1>3. Delim(",") \in A
  BY <1>1
<1>. QED
  BY <1>2, <1>3, Separators, ConstantReadsAs, Zenon DEF ItemsRead

(* So is a declaration.                                                    *)
LEMMA FieldDefsRead ==
  ASSUME NEW toks, IsText(toks)
  PROVE  ItemsRead([k \in 1..Len(toks) + 1 |-> FieldDef(toks, k)], toks, Fields, FieldTexts,
                   Delim(","))
<1>1. PICK A : A = {Delim(","), Delim("("), Delim(")"), Keyword("int"), Keyword("varchar")}
                   \cup {Id(x) : x \in STRING} \cup {Num(x) : x \in Nat}
  OBVIOUS
<1>2. TextsOver(FieldTexts, Fields, A)
  <2>1. SUFFICES ASSUME NEW x \in Fields PROVE FieldTexts[x] \in Seq(A)
    BY DEF TextsOver
  <2>2. PICK id : id = Id(x.name)
    OBVIOUS
  <2>3. PICK num : num = Num(x.length)
    OBVIOUS
  <2>4. {id, num, Delim("("), Delim(")"), Keyword("int"), Keyword("varchar")} \subseteq A
    <3>1. x.name \in STRING /\ x.length \in Nat
      BY FieldTextIs
    <3>. QED
      BY <1>1, <2>2, <2>3, <3>1, Zenon
  <2>5. /\ <<id, Keyword("int")>> \in Seq(A)
        /\ <<id, Keyword("varchar"), Delim("("), num, Delim(")")>> \in Seq(A)
    BY <2>4
  <2>. QED
    BY <2>2, <2>3, <2>5, FieldTextIs, Zenon
<1>3. Delim(",") \in A
  BY <1>1
<1>. QED
  BY <1>2, <1>3, Separators, FieldDefReadsAs, Zenon DEF ItemsRead

(* So is a term.                                                           *)
LEMMA TermsRead ==
  ASSUME NEW toks, IsText(toks), NEW S, ToSet(toks) \subseteq S
  PROVE  ItemsRead([k \in 1..Len(toks) + 1 |-> Term(toks, k)], toks, Terms(S), TermTexts(S),
                   Keyword("and"))
<1>1. PICK A : A = {Keyword("and"), Delim("=")} \cup S
  OBVIOUS
<1>2. TextsOver(TermTexts(S), Terms(S), A)
  <2>1. SUFFICES ASSUME NEW x \in Terms(S) PROVE TermTexts(S)[x] \in Seq(A)
    BY DEF TextsOver
  <2>2. TermTexts(S)[x] = <<x.lhs, Delim("="), x.rhs>> /\ x.lhs \in S /\ x.rhs \in S
    BY TermTextIs DEF Expressions
  <2>3. {x.lhs, Delim("="), x.rhs} \subseteq A
    BY <1>1, <2>2
  <2>4. <<x.lhs, Delim("="), x.rhs>> \in Seq(A)
    BY <2>3
  <2>. QED
    BY <2>2, <2>4, Zenon
<1>3. Keyword("and") \in A
  BY <1>1
<1>. QED
  BY <1>2, <1>3, Separators, TermReadsAs, Zenon DEF ItemsRead

----------------------------------------------------------------------------
(* The lists of the language (select_list, field_list, const_list,         *)
(* field_defs, predicate) are read as their texts.                         *)
LEMMA IdListReadsAs ==
  ASSUME NEW toks, IsText(toks), NEW i \in 1..Len(toks) + 1
  PROVE  ListReadsAs(ListOf(EatId, Delim(","), toks, i), toks, i, STRING, IdTexts, Delim(","))
<1>. DEFINE n == Len(toks) + 1
            items == [k \in 1..n |-> EatId(toks, k)]
            sep == Delim(",")
            ItemAt(f, k) == LET first == EatId(toks, k)
                                rest  == f[first.at + 1]
                            IN  CASE Failed(first) -> BadSyntax
                                  [] ~Failed(first) /\ ~Is(toks, first.at, sep) ->
                                        Got(<<first.val>>, first.at)
                                  [] OTHER -> IF Failed(rest) THEN BadSyntax
                                              ELSE Got(<<first.val>> \o rest.val, rest.at)
            F == CHOOSE f : f = [k \in 1..n |-> ItemAt(f, k)]
<1>1. ListOf(EatId, sep, toks, i) = IF i > Len(toks) THEN BadSyntax ELSE F[i]
  BY Zenon DEF ListOf
<1>2. ItemsRead(items, toks, STRING, IdTexts, sep)
  BY IdsRead, Zenon
<1>3. ASSUME NEW f, NEW k \in 1..n PROVE ItemAt(f, k) = ListAt(f, items, sep, toks, k)
  BY <1>3, Zenon DEF ListAt
<1>. HIDE DEF items, sep
<1>4. ASSUME NEW f PROVE Lists(f, items, sep, toks) <=> f = [k \in 1..n |-> ItemAt(f, k)]
  <2>1. [k \in 1..n |-> ItemAt(f, k)] = [k \in 1..n |-> ListAt(f, items, sep, toks, k)]
    <3>. HIDE DEF ItemAt
    <3>. QED
      BY <1>3
  <2>. HIDE DEF ItemAt
  <2>. QED
    BY <2>1, Zenon DEF Lists
<1>5. Lists(F, items, sep, toks)
  <2>. HIDE DEF ItemAt
  <2>. QED
    BY <1>2, <1>4, ListFunction, Zenon
<1>. HIDE DEF F
<1>6. ListReadsAs(ListOf(EatId, sep, toks, i), toks, i, STRING, IdTexts, sep)
  BY <1>1, <1>2, <1>5, ListValue, Zenon
<1>. QED
  BY <1>6 DEF sep

(* A list of constants is read as what it says.                            *)
LEMMA ConstantListReadsAs ==
  ASSUME NEW toks, IsText(toks), NEW S, ToSet(toks) \subseteq S, NEW i \in 1..Len(toks) + 1
  PROVE  ListReadsAs(ListOf(Constant, Delim(","), toks, i), toks, i, Constants(S),
                     ConstantTexts(S), Delim(","))
<1>. DEFINE n == Len(toks) + 1
            items == [k \in 1..n |-> Constant(toks, k)]
            sep == Delim(",")
            ItemAt(f, k) == LET first == Constant(toks, k)
                                rest  == f[first.at + 1]
                            IN  CASE Failed(first) -> BadSyntax
                                  [] ~Failed(first) /\ ~Is(toks, first.at, sep) ->
                                        Got(<<first.val>>, first.at)
                                  [] OTHER -> IF Failed(rest) THEN BadSyntax
                                              ELSE Got(<<first.val>> \o rest.val, rest.at)
            F == CHOOSE f : f = [k \in 1..n |-> ItemAt(f, k)]
<1>1. ListOf(Constant, sep, toks, i) = IF i > Len(toks) THEN BadSyntax ELSE F[i]
  BY Zenon DEF ListOf
<1>2. ItemsRead(items, toks, Constants(S), ConstantTexts(S), sep)
  BY ConstantsRead, Zenon
<1>3. ASSUME NEW f, NEW k \in 1..n PROVE ItemAt(f, k) = ListAt(f, items, sep, toks, k)
  BY <1>3, Zenon DEF ListAt
<1>. HIDE DEF items, sep
<1>4. ASSUME NEW f PROVE Lists(f, items, sep, toks) <=> f = [k \in 1..n |-> ItemAt(f, k)]
  <2>1. [k \in 1..n |-> ItemAt(f, k)] = [k \in 1..n |-> ListAt(f, items, sep, toks, k)]
    <3>. HIDE DEF ItemAt
    <3>. QED
      BY <1>3
  <2>. HIDE DEF ItemAt
  <2>. QED
    BY <2>1, Zenon DEF Lists
<1>5. Lists(F, items, sep, toks)
  <2>. HIDE DEF ItemAt
  <2>. QED
    BY <1>2, <1>4, ListFunction, Zenon
<1>. HIDE DEF F
<1>6. ListReadsAs(ListOf(Constant, sep, toks, i), toks, i, Constants(S), ConstantTexts(S), sep)
  BY <1>1, <1>2, <1>5, ListValue, Zenon
<1>. QED
  BY <1>6 DEF sep

(* So is a list of declarations.                                           *)
LEMMA FieldDefListReadsAs ==
  ASSUME NEW toks, IsText(toks), NEW i \in 1..Len(toks) + 1
  PROVE  ListReadsAs(ListOf(FieldDef, Delim(","), toks, i), toks, i, Fields, FieldTexts, Delim(","))
<1>. DEFINE n == Len(toks) + 1
            items == [k \in 1..n |-> FieldDef(toks, k)]
            sep == Delim(",")
            ItemAt(f, k) == LET first == FieldDef(toks, k)
                                rest  == f[first.at + 1]
                            IN  CASE Failed(first) -> BadSyntax
                                  [] ~Failed(first) /\ ~Is(toks, first.at, sep) ->
                                        Got(<<first.val>>, first.at)
                                  [] OTHER -> IF Failed(rest) THEN BadSyntax
                                              ELSE Got(<<first.val>> \o rest.val, rest.at)
            F == CHOOSE f : f = [k \in 1..n |-> ItemAt(f, k)]
<1>1. ListOf(FieldDef, sep, toks, i) = IF i > Len(toks) THEN BadSyntax ELSE F[i]
  BY Zenon DEF ListOf
<1>2. ItemsRead(items, toks, Fields, FieldTexts, sep)
  BY FieldDefsRead, Zenon
<1>3. ASSUME NEW f, NEW k \in 1..n PROVE ItemAt(f, k) = ListAt(f, items, sep, toks, k)
  BY <1>3, Zenon DEF ListAt
<1>. HIDE DEF items, sep
<1>4. ASSUME NEW f PROVE Lists(f, items, sep, toks) <=> f = [k \in 1..n |-> ItemAt(f, k)]
  <2>1. [k \in 1..n |-> ItemAt(f, k)] = [k \in 1..n |-> ListAt(f, items, sep, toks, k)]
    <3>. HIDE DEF ItemAt
    <3>. QED
      BY <1>3
  <2>. HIDE DEF ItemAt
  <2>. QED
    BY <2>1, Zenon DEF Lists
<1>5. Lists(F, items, sep, toks)
  <2>. HIDE DEF ItemAt
  <2>. QED
    BY <1>2, <1>4, ListFunction, Zenon
<1>. HIDE DEF F
<1>6. ListReadsAs(ListOf(FieldDef, sep, toks, i), toks, i, Fields, FieldTexts, sep)
  BY <1>1, <1>2, <1>5, ListValue, Zenon
<1>. QED
  BY <1>6 DEF sep

(* So is a list of terms.                                                  *)
LEMMA TermListReadsAs ==
  ASSUME NEW toks, IsText(toks), NEW S, ToSet(toks) \subseteq S, NEW i \in 1..Len(toks) + 1
  PROVE  ListReadsAs(ListOf(Term, Keyword("and"), toks, i), toks, i, Terms(S),
                     TermTexts(S), Keyword("and"))
<1>. DEFINE n == Len(toks) + 1
            items == [k \in 1..n |-> Term(toks, k)]
            sep == Keyword("and")
            ItemAt(f, k) == LET first == Term(toks, k)
                                rest  == f[first.at + 1]
                            IN  CASE Failed(first) -> BadSyntax
                                  [] ~Failed(first) /\ ~Is(toks, first.at, sep) ->
                                        Got(<<first.val>>, first.at)
                                  [] OTHER -> IF Failed(rest) THEN BadSyntax
                                              ELSE Got(<<first.val>> \o rest.val, rest.at)
            F == CHOOSE f : f = [k \in 1..n |-> ItemAt(f, k)]
<1>1. ListOf(Term, sep, toks, i) = IF i > Len(toks) THEN BadSyntax ELSE F[i]
  BY Zenon DEF ListOf
<1>2. ItemsRead(items, toks, Terms(S), TermTexts(S), sep)
  BY TermsRead, Zenon
<1>3. ASSUME NEW f, NEW k \in 1..n PROVE ItemAt(f, k) = ListAt(f, items, sep, toks, k)
  BY <1>3, Zenon DEF ListAt
<1>. HIDE DEF items, sep
<1>4. ASSUME NEW f PROVE Lists(f, items, sep, toks) <=> f = [k \in 1..n |-> ItemAt(f, k)]
  <2>1. [k \in 1..n |-> ItemAt(f, k)] = [k \in 1..n |-> ListAt(f, items, sep, toks, k)]
    <3>. HIDE DEF ItemAt
    <3>. QED
      BY <1>3
  <2>. HIDE DEF ItemAt
  <2>. QED
    BY <2>1, Zenon DEF Lists
<1>5. Lists(F, items, sep, toks)
  <2>. HIDE DEF ItemAt
  <2>. QED
    BY <1>2, <1>4, ListFunction, Zenon
<1>. HIDE DEF F
<1>6. ListReadsAs(ListOf(Term, sep, toks, i), toks, i, Terms(S), TermTexts(S), sep)
  BY <1>1, <1>2, <1>5, ListValue, Zenon
<1>. QED
  BY <1>6 DEF sep

----------------------------------------------------------------------------
(* The texts of the parts of a sentence, as the texts of their items. *)
LEMMA IdPartText ==
  /\ \A v \in STRING : PartText("id", v, TRUE) = IdTexts[v]
  /\ \A v \in Seq(STRING) : PartText("ids", v, TRUE) = Joined(IdTexts, v, Delim(","))
<1>1. \A v : PartText("id", v, TRUE) = <<Id(v)>>
  BY Zenon DEF PartText
<1>2. \A v \in STRING : IdTexts[v] = <<Id(v)>>
  BY DEF IdTexts
<1>3. ASSUME NEW v \in Seq(STRING)
      PROVE  PartText("ids", v, TRUE) = Joined(IdTexts, v, Delim(","))
  <2>1. PartText("ids", v, TRUE) = Join([k \in DOMAIN v |-> <<Id(v[k])>>], Delim(","))
    BY Zenon DEF PartText, Each
  <2>2. \A k \in DOMAIN v : v[k] \in STRING
    OBVIOUS
  <2>3. [k \in DOMAIN v |-> <<Id(v[k])>>] = Texts(IdTexts, v)
    BY <1>2, <2>2, Zenon DEF Texts
  <2>. QED
    BY <2>1, <2>3, Zenon DEF Joined
<1>. QED
  BY <1>1, <1>2, <1>3

(* The text of a list of constants is the join of their texts.             *)
LEMMA ConstantPartText ==
  ASSUME NEW S
  PROVE  /\ \A v \in Expressions(S) : PartText("expression", v, TRUE) = ExpressionTexts(S)[v]
         /\ \A v \in Seq(Constants(S)) :
               PartText("constants", v, TRUE) = Joined(ConstantTexts(S), v, Delim(","))
<1>1. \A v : PartText("expression", v, TRUE) = ConstantText(v, TRUE)
  BY Zenon DEF PartText
<1>2. \A v \in Expressions(S) : ExpressionTexts(S)[v] = ConstantText(v, TRUE)
  BY Zenon DEF ExpressionTexts
<1>3. ASSUME NEW v \in Seq(Constants(S))
      PROVE  PartText("constants", v, TRUE) = Joined(ConstantTexts(S), v, Delim(","))
  <2>1. PartText("constants", v, TRUE)
           = Join([k \in DOMAIN v |-> ConstantText(v[k], TRUE)], Delim(","))
    BY Zenon DEF PartText, Each
  <2>2. \A k \in DOMAIN v : v[k] \in Constants(S)
    OBVIOUS
  <2>4. \A c \in Constants(S) : ConstantTexts(S)[c] = ConstantText(c, TRUE)
    BY Zenon DEF ConstantTexts
  <2>3. [k \in DOMAIN v |-> ConstantText(v[k], TRUE)] = Texts(ConstantTexts(S), v)
    BY <2>2, <2>4, Zenon DEF Texts
  <2>. QED
    BY <2>1, <2>3, Zenon DEF Joined
<1>. QED
  BY <1>1, <1>2, <1>3

(* That of a list of declarations is the join of theirs.                   *)
LEMMA FieldPartText ==
  ASSUME NEW v \in Seq(Fields)
  PROVE  PartText("fields", v, TRUE) = Joined(FieldTexts, v, Delim(","))
<1>1. PartText("fields", v, TRUE) = Join([k \in DOMAIN v |-> FieldText(v[k])], Delim(","))
  BY Zenon DEF PartText, Each
<1>2. \A k \in DOMAIN v : v[k] \in Fields
  OBVIOUS
<1>3. \A f \in Fields : FieldTexts[f] = FieldText(f)
  BY Zenon DEF FieldTexts
<1>4. [k \in DOMAIN v |-> FieldText(v[k])] = Texts(FieldTexts, v)
  BY <1>2, <1>3, Zenon DEF Texts
<1>. QED
  BY <1>1, <1>4, Zenon DEF Joined

(* That of a predicate is the keyword and the join of its terms' texts.    *)
LEMMA WherePartText ==
  ASSUME NEW S, NEW v \in Seq(Terms(S))
  PROVE  PartText("where", v, TRUE)
            = IF v = <<>> THEN <<>>
              ELSE <<Keyword("where")>> \o Joined(TermTexts(S), v, Keyword("and"))
<1>1. PartText("where", v, TRUE)
         = IF v = <<>> THEN <<>>
           ELSE <<Keyword("where")>> \o Join([k \in DOMAIN v |-> TermText(v[k], TRUE)],
                                             Keyword("and"))
  BY Zenon DEF PartText, Each
<1>2. \A k \in DOMAIN v : v[k] \in Terms(S)
  OBVIOUS
<1>3. \A t \in Terms(S) : TermTexts(S)[t] = TermText(t, TRUE)
  BY Zenon DEF TermTexts
<1>4. [k \in DOMAIN v |-> TermText(v[k], TRUE)] = Texts(TermTexts(S), v)
  BY <1>2, <1>3, Zenon DEF Texts
<1>. QED
  BY <1>1, <1>4, Zenon DEF Joined

----------------------------------------------------------------------------
(* The values of parts, over the sets the items are read from. *)
LEMMA SetOfConstants ==
  ASSUME NEW v
  PROVE  /\ \A S : v \in Seq(Constants(S)) \ {<<>>} => IsPart("constants", v)
         /\ IsPart("constants", v) =>
               \A S : ToSet(v) \subseteq S => v \in Seq(Constants(S)) \ {<<>>}
<1>1. ASSUME NEW S, v \in Seq(Constants(S)) \ {<<>>} PROVE IsPart("constants", v)
  <2>1. v \in Seq(ToSet(v)) /\ v # <<>>
    BY <1>1, RangeTyped
  <2>2. \A c \in ToSet(v) : IsConstant(c)
    BY <1>1 DEF ToSet, Constants
  <2>. QED
    BY <2>1, <2>2, Zenon DEF IsPart
<1>2. ASSUME IsPart("constants", v), NEW S, ToSet(v) \subseteq S
      PROVE  v \in Seq(Constants(S)) \ {<<>>}
  <2>1. v \in Seq(ToSet(v)) /\ v # <<>> /\ \A c \in ToSet(v) : IsConstant(c)
    BY <1>2, Zenon DEF IsPart
  <2>2. ToSet(v) \subseteq Constants(S)
    BY <1>2, <2>1 DEF Constants
  <2>3. v \in Seq(Constants(S))
    <3>1. PICK R : R = ToSet(v)
      OBVIOUS
    <3>2. PICK Q : Q = Constants(S)
      OBVIOUS
    <3>3. v \in Seq(R) /\ R \subseteq Q
      BY <2>1, <2>2, <3>1, <3>2
    <3>4. v \in Seq(Q)
      BY <3>3
    <3>. QED
      BY <3>2, <3>4
  <2>. QED
    BY <2>1, <2>3
<1>. QED
  BY <1>1, <1>2

(* A list of declarations over the set of what can be declared.            *)
LEMMA SetOfFields ==
  ASSUME NEW v
  PROVE  v \in Seq(Fields) \ {<<>>} <=> IsPart("fields", v)
<1>1. ASSUME v \in Seq(Fields) \ {<<>>} PROVE IsPart("fields", v)
  <2>0. Fields \subseteq Declaration
    BY DEF Fields
  <2>1. v \in Declarations /\ v # <<>>
    BY <1>1, <2>0 DEF Declarations
  <2>2. \A f \in ToSet(v) : f.type = "INTEGER" => f.length = 0
    BY <1>1 DEF ToSet, Fields
  <2>. QED
    BY <2>1, <2>2, Zenon DEF IsPart
<1>2. ASSUME IsPart("fields", v) PROVE v \in Seq(Fields) \ {<<>>}
  <2>1. v \in Declarations /\ v # <<>> /\ \A f \in ToSet(v) : f.type = "INTEGER" => f.length = 0
    BY <1>2, Zenon DEF IsPart
  <2>2. v \in Seq(Declaration)
    BY <2>1 DEF Declarations, Declaration
  <2>3. \A k \in 1..Len(v) : v[k] \in Declaration /\ v[k] \in ToSet(v)
    BY <2>2 DEF ToSet
  <2>4. \A k \in 1..Len(v) : v[k] \in Fields
    BY <2>1, <2>3, Zenon DEF Fields
  <2>5. v \in Seq(Fields)
    BY <2>2, <2>4
  <2>. QED
    BY <2>1, <2>5
<1>. QED
  BY <1>1, <1>2

(* A predicate over the set of the terms its tokens make.                  *)
LEMMA SetOfTerms ==
  ASSUME NEW v
  PROVE  /\ \A S : v \in Seq(Terms(S)) => IsPart("where", v)
         /\ IsPart("where", v) =>
               \A S : {t.lhs : t \in ToSet(v)} \cup {t.rhs : t \in ToSet(v)} \subseteq S
                         => v \in Seq(Terms(S))
<1>1. ASSUME NEW S, v \in Seq(Terms(S)) PROVE IsPart("where", v)
  <2>1. v \in Seq(ToSet(v))
    BY <1>1, RangeTyped
  <2>2. \A t \in ToSet(v) : IsTerm(t)
    BY <1>1 DEF ToSet, Terms
  <2>. QED
    BY <2>1, <2>2, Zenon DEF IsPart
<1>2. ASSUME IsPart("where", v), NEW S,
             {t.lhs : t \in ToSet(v)} \cup {t.rhs : t \in ToSet(v)} \subseteq S
      PROVE  v \in Seq(Terms(S))
  <2>1. v \in Seq(ToSet(v)) /\ \A t \in ToSet(v) : IsTerm(t)
    BY <1>2, Zenon DEF IsPart
  <2>2. ASSUME NEW t \in ToSet(v) PROVE t \in Terms(S)
    <3>1. t.lhs \in S /\ t.rhs \in S
      BY <1>2, Zenon
    <3>2. IsTerm(t) /\ t = [lhs |-> t.lhs, rhs |-> t.rhs]
      BY <2>1, Zenon DEF IsTerm
    <3>3. t \in [lhs : S, rhs : S]
      BY <3>1, <3>2
    <3>. QED
      BY <3>2, <3>3, Zenon DEF Terms
  <2>3. PICK R : R = ToSet(v)
    OBVIOUS
  <2>4. PICK Q : Q = Terms(S)
    OBVIOUS
  <2>5. v \in Seq(R) /\ R \subseteq Q
    BY <2>1, <2>2, <2>3, <2>4
  <2>6. v \in Seq(Q)
    BY <2>5
  <2>. QED
    BY <2>4, <2>6
<1>. QED
  BY <1>1, <1>2

----------------------------------------------------------------------------
(* A part of a sentence is read as its text, if what follows does not      *)
(* continue it.                                                            *)
PartNames == {"id", "ids", "constants", "expression", "fields", "where"}

Ends(name, toks, j) ==
  IF name = "where" THEN ~ Is(toks, j, Keyword("and")) /\ ~ Is(toks, j, Keyword("where"))
  ELSE ~ Is(toks, j, Delim(","))

PartSound(g, name, toks, i) ==
  ~ Failed(g) => /\ g = Got(g.val, g.at) /\ IsPart(name, g.val)
                 /\ Spells(toks, i, g.at, PartText(name, g.val, TRUE))

PartComplete(g, name, toks, i) ==
  \A val : \A j : /\ IsPart(name, val) /\ Spells(toks, i, j, PartText(name, val, TRUE))
                  /\ Ends(name, toks, j)
                  => g = Got(val, j)

(* A name and a list of names, as parts of a sentence.                     *)
LEMMA IdParts ==
  ASSUME NEW toks, IsText(toks), NEW i \in 1..Len(toks) + 1, NEW name \in {"id", "ids"}
  PROVE  /\ PartSound(ParsePart(name, toks, i), name, toks, i)
         /\ PartComplete(ParsePart(name, toks, i), name, toks, i)
<1>1. CASE name = "id"
  <2>1. PICK g : g = EatId(toks, i)
    OBVIOUS
  <2>2. ParsePart(name, toks, i) = g
    BY <1>1, <2>1, Zenon DEF ParsePart
  <2>3. ReadsAs(g, toks, i, STRING, IdTexts)
    BY <2>1, EatIdReadsAs, Zenon
  <2>4. \A v : IsPart(name, v) <=> v \in STRING
    BY <1>1, Zenon DEF IsPart
  <2>5. \A v \in STRING : PartText(name, v, TRUE) = IdTexts[v]
    BY <1>1, IdPartText, Zenon
  <2>. QED
    BY <2>2, <2>3, <2>4, <2>5, Zenon DEF ReadsAs, PartSound, PartComplete
<1>2. CASE name = "ids"
  <2>1. PICK g : g = ListOf(EatId, Delim(","), toks, i)
    OBVIOUS
  <2>2. ParsePart(name, toks, i) = g
    <3>1. name # "id"
      BY <1>2
    <3>. QED
      BY <1>2, <2>1, <3>1, Zenon DEF ParsePart
  <2>3. ListReadsAs(g, toks, i, STRING, IdTexts, Delim(","))
    BY <2>1, IdListReadsAs, Zenon
  <2>4. \A v : IsPart(name, v) <=> v \in Seq(STRING) \ {<<>>}
    <3>1. \A v : IsPart("ids", v) <=> v \in Seq(STRING) /\ v # <<>>
      BY Zenon DEF IsPart
    <3>. QED
      BY <1>2, <3>1, Zenon
  <2>5. \A v \in Seq(STRING) : PartText(name, v, TRUE) = Joined(IdTexts, v, Delim(","))
    BY <1>2, IdPartText, Zenon
  <2>6. \A j : Ends(name, toks, j) <=> ~ Is(toks, j, Delim(","))
    BY <1>2 DEF Ends
  <2>7. PartSound(g, name, toks, i)
    BY <2>3, <2>4, <2>5, Zenon DEF ListReadsAs, PartSound
  <2>8. PartComplete(g, name, toks, i)
    BY <2>3, <2>4, <2>5, <2>6, Zenon DEF ListReadsAs, PartComplete
  <2>. QED
    BY <2>2, <2>7, <2>8, Zenon
<1>. QED
  BY <1>1, <1>2

(* A list of constants, as a part of a sentence.                           *)
LEMMA ConstantsPart ==
  ASSUME NEW toks, IsText(toks), NEW i \in 1..Len(toks) + 1
  PROVE  /\ PartSound(ParsePart("constants", toks, i), "constants", toks, i)
         /\ PartComplete(ParsePart("constants", toks, i), "constants", toks, i)
<1>1. PICK g : g = ListOf(Constant, Delim(","), toks, i)
  OBVIOUS
<1>2. ParsePart("constants", toks, i) = g
  BY <1>1, Zenon DEF ParsePart
<1>3. ASSUME NEW S, ToSet(toks) \subseteq S
      PROVE  ListReadsAs(g, toks, i, Constants(S), ConstantTexts(S), Delim(","))
  BY <1>1, <1>3, ConstantListReadsAs, Zenon
<1>4. PartSound(g, "constants", toks, i)
  <2>1. SUFFICES ASSUME ~ Failed(g)
                 PROVE  /\ g = Got(g.val, g.at) /\ IsPart("constants", g.val)
                        /\ Spells(toks, i, g.at, PartText("constants", g.val, TRUE))
    BY Zenon DEF PartSound
  <2>2. PICK S : S = ToSet(toks)
    OBVIOUS
  <2>3. ListReadsAs(g, toks, i, Constants(S), ConstantTexts(S), Delim(","))
    BY <1>3, <2>2
  <2>4. /\ g = Got(g.val, g.at) /\ g.val \in Seq(Constants(S)) \ {<<>>}
        /\ Spells(toks, i, g.at, Joined(ConstantTexts(S), g.val, Delim(",")))
    BY <2>1, <2>3, Zenon DEF ListReadsAs
  <2>5. g.val \in Seq(Constants(S))
    BY <2>4
  <2>6. PartText("constants", g.val, TRUE) = Joined(ConstantTexts(S), g.val, Delim(","))
    BY <2>5, ConstantPartText, Zenon
  <2>7. IsPart("constants", g.val)
    BY <2>4, SetOfConstants, Zenon
  <2>. QED
    BY <2>4, <2>6, <2>7, Zenon
<1>5. PartComplete(g, "constants", toks, i)
  <2>1. SUFFICES ASSUME NEW v, NEW j, IsPart("constants", v),
                        Spells(toks, i, j, PartText("constants", v, TRUE)),
                        Ends("constants", toks, j)
                 PROVE  g = Got(v, j)
    BY Zenon DEF PartComplete
  <2>2. PICK S : S = ToSet(toks) \cup ToSet(v)
    OBVIOUS
  <2>3. ListReadsAs(g, toks, i, Constants(S), ConstantTexts(S), Delim(","))
    BY <1>3, <2>2
  <2>4. v \in Seq(Constants(S)) \ {<<>>}
    BY <2>1, <2>2, SetOfConstants
  <2>5. v \in Seq(Constants(S))
    BY <2>4
  <2>6. PartText("constants", v, TRUE) = Joined(ConstantTexts(S), v, Delim(","))
    BY <2>5, ConstantPartText, Zenon
  <2>7. ~ Is(toks, j, Delim(","))
    BY <2>1 DEF Ends
  <2>8. Spells(toks, i, j, Joined(ConstantTexts(S), v, Delim(",")))
    BY <2>1, <2>6, Zenon
  <2>. QED
    BY <2>3, <2>4, <2>7, <2>8, Zenon DEF ListReadsAs
<1>. QED
  BY <1>2, <1>4, <1>5, Zenon

(* A list of declarations, as a part of a sentence.                        *)
LEMMA FieldsPart ==
  ASSUME NEW toks, IsText(toks), NEW i \in 1..Len(toks) + 1
  PROVE  /\ PartSound(ParsePart("fields", toks, i), "fields", toks, i)
         /\ PartComplete(ParsePart("fields", toks, i), "fields", toks, i)
<1>1. PICK g : g = ListOf(FieldDef, Delim(","), toks, i)
  OBVIOUS
<1>2. ParsePart("fields", toks, i) = g
  BY <1>1, Zenon DEF ParsePart
<1>3. ListReadsAs(g, toks, i, Fields, FieldTexts, Delim(","))
  BY <1>1, FieldDefListReadsAs, Zenon
<1>4. \A v : IsPart("fields", v) <=> v \in Seq(Fields) \ {<<>>}
  BY SetOfFields, Zenon
<1>5. \A v \in Seq(Fields) \ {<<>>} :
         PartText("fields", v, TRUE) = Joined(FieldTexts, v, Delim(","))
  BY FieldPartText, Zenon
<1>6. \A j : Ends("fields", toks, j) <=> ~ Is(toks, j, Delim(","))
  BY DEF Ends
<1>7. PartSound(g, "fields", toks, i)
  BY <1>3, <1>4, <1>5, Zenon DEF ListReadsAs, PartSound
<1>8. PartComplete(g, "fields", toks, i)
  BY <1>3, <1>4, <1>5, <1>6, Zenon DEF ListReadsAs, PartComplete
<1>. QED
  BY <1>2, <1>7, <1>8, Zenon

(* An expression, as a part of a sentence.                                 *)
LEMMA ExpressionPart ==
  ASSUME NEW toks, IsText(toks), NEW i \in 1..Len(toks) + 1
  PROVE  /\ PartSound(ParsePart("expression", toks, i), "expression", toks, i)
         /\ PartComplete(ParsePart("expression", toks, i), "expression", toks, i)
<1>1. PICK g : g = Expression(toks, i)
  OBVIOUS
<1>2. ParsePart("expression", toks, i) = g
  BY <1>1, Zenon DEF ParsePart
<1>3. ASSUME NEW S, ToSet(toks) \subseteq S
      PROVE  ReadsAs(g, toks, i, Expressions(S), ExpressionTexts(S))
  BY <1>1, <1>3, ExpressionReadsAs, Zenon
<1>4. \A v : \A S : v \in Expressions(S) <=> IsPart("expression", v) /\ v \in S
  BY Zenon DEF IsPart, Expressions
<1>5. PartSound(g, "expression", toks, i)
  <2>1. PICK S : S = ToSet(toks)
    OBVIOUS
  <2>2. ReadsAs(g, toks, i, Expressions(S), ExpressionTexts(S))
    BY <1>3, <2>1
  <2>. QED
    BY <1>4, <2>2, ConstantPartText, Zenon DEF ReadsAs, PartSound
<1>6. PartComplete(g, "expression", toks, i)
  <2>1. SUFFICES ASSUME NEW v, NEW j, IsPart("expression", v),
                        Spells(toks, i, j, PartText("expression", v, TRUE))
                 PROVE  g = Got(v, j)
    BY Zenon DEF PartComplete
  <2>2. PICK S : S = ToSet(toks) \cup {v}
    OBVIOUS
  <2>3. ReadsAs(g, toks, i, Expressions(S), ExpressionTexts(S))
    BY <1>3, <2>2
  <2>4. v \in Expressions(S)
    BY <1>4, <2>1, <2>2
  <2>5. Spells(toks, i, j, ExpressionTexts(S)[v])
    BY <2>1, <2>4, ConstantPartText, Zenon
  <2>. QED
    BY <2>3, <2>4, <2>5, Zenon DEF ReadsAs
<1>. QED
  BY <1>2, <1>5, <1>6, Zenon

(* What reading a predicate returns.                                       *)
LEMMA WhereValue ==
  ASSUME NEW toks, IsText(toks), NEW i \in 1..Len(toks) + 1, NEW S, ToSet(toks) \subseteq S,
         Is(toks, i, Keyword("where"))
  PROVE  /\ i + 1 \in 1..Len(toks) + 1 /\ toks[i] = Keyword("where")
         /\ Spells(toks, i, i + 1, <<Keyword("where")>>)
         /\ ListReadsAs(ParsePart("where", toks, i), toks, i + 1, Terms(S), TermTexts(S),
                        Keyword("and"))
<1>1. PICK kw : kw = Keyword("where")
  OBVIOUS
<1>2. kw = Token(kw.type, kw.val) /\ kw.type # "End"
  BY <1>1 DEF Keyword, Token
<1>3. i \in Nat \ {0} /\ Len(toks) \in Nat
  BY TextIs
<1>4. i \in 1..Len(toks) /\ toks[i] = kw
  BY <1>1, <1>2, <1>3, IsThere
<1>5. i + 1 \in 1..Len(toks) + 1
  BY <1>3, <1>4
<1>6. Spells(toks, i, i + 1, <<kw>>)
  BY <1>3, <1>4, SpellsOne
<1>7. ParsePart("where", toks, i) = ListOf(Term, Keyword("and"), toks, i + 1)
  BY Zenon DEF ParsePart, Where
<1>8. ListReadsAs(ListOf(Term, Keyword("and"), toks, i + 1), toks, i + 1, Terms(S), TermTexts(S),
                  Keyword("and"))
  BY <1>5, TermListReadsAs, Zenon
<1>. QED
  BY <1>1, <1>4, <1>5, <1>6, <1>7, <1>8, Zenon

(* A predicate, as the last part of a sentence.                            *)
LEMMA WherePart ==
  ASSUME NEW toks, IsText(toks), NEW i \in 1..Len(toks) + 1
  PROVE  /\ PartSound(ParsePart("where", toks, i), "where", toks, i)
         /\ PartComplete(ParsePart("where", toks, i), "where", toks, i)
<1>1. PICK g : g = ParsePart("where", toks, i)
  OBVIOUS
<1>2. PICK kw : kw = Keyword("where")
  OBVIOUS
<1>3. ~ Is(toks, i, kw) => g = Got(<<>>, i)
  BY <1>1, <1>2, Zenon DEF ParsePart, Where
<1>4. Spells(toks, i, i, <<>>) /\ \A j : Spells(toks, i, j, <<>>) => j = i
  BY SpellsNone
<1>5. i \in Nat \ {0} /\ ~ Failed(Got(<<>>, i))
  BY TextIs DEF Failed, Got
<1>6. PartText("where", <<>>, TRUE) = <<>>
  BY Zenon DEF PartText
<1>7. IsPart("where", <<>>)
  <2>1. PICK S : S = {}
    OBVIOUS
  <2>2. <<>> \in Seq(Terms(S))
    OBVIOUS
  <2>. QED
    BY <2>2, SetOfTerms, Zenon
<1>8. PartSound(g, "where", toks, i)
  <2>1. SUFFICES ASSUME ~ Failed(g)
                 PROVE  /\ g = Got(g.val, g.at) /\ IsPart("where", g.val)
                        /\ Spells(toks, i, g.at, PartText("where", g.val, TRUE))
    BY Zenon DEF PartSound
  <2>2. CASE ~ Is(toks, i, kw)
    <3>1. g.val = <<>> /\ g.at = i
      BY <1>3, <2>2 DEF Got
    <3>. QED
      BY <1>3, <1>4, <1>6, <1>7, <2>2, <3>1, Zenon
  <2>3. CASE Is(toks, i, kw)
    <3>1. PICK S : S = ToSet(toks)
      OBVIOUS
    <3>2. /\ Spells(toks, i, i + 1, <<kw>>)
          /\ ListReadsAs(g, toks, i + 1, Terms(S), TermTexts(S), Keyword("and"))
      BY <1>1, <1>2, <2>3, <3>1, WhereValue
    <3>3. /\ g = Got(g.val, g.at) /\ g.val \in Seq(Terms(S)) \ {<<>>}
          /\ Spells(toks, i + 1, g.at, Joined(TermTexts(S), g.val, Keyword("and")))
      BY <2>1, <3>2, Zenon DEF ListReadsAs
    <3>4. g.val \in Seq(Terms(S)) /\ g.val # <<>>
      BY <3>3
    <3>5. PartText("where", g.val, TRUE)
             = <<kw>> \o Joined(TermTexts(S), g.val, Keyword("and"))
      BY <1>2, <3>4, WherePartText, Zenon
    <3>6. PICK t : t = <<kw>>
      OBVIOUS
    <3>7. PICK u : u = Joined(TermTexts(S), g.val, Keyword("and"))
      OBVIOUS
    <3>8. Spells(toks, i, g.at, t \o u)
      BY <3>2, <3>3, <3>6, <3>7, SpellsJoin, Zenon
    <3>9. IsPart("where", g.val)
      BY <3>4, SetOfTerms, Zenon
    <3>. QED
      BY <3>3, <3>5, <3>6, <3>7, <3>8, <3>9, Zenon
  <2>. QED
    BY <2>2, <2>3
<1>9. PartComplete(g, "where", toks, i)
  <2>1. SUFFICES ASSUME NEW v, NEW j, IsPart("where", v),
                        Spells(toks, i, j, PartText("where", v, TRUE)),
                        Ends("where", toks, j)
                 PROVE  g = Got(v, j)
    BY Zenon DEF PartComplete
  <2>2. ~ Is(toks, j, Keyword("and")) /\ ~ Is(toks, j, kw)
    BY <1>2, <2>1 DEF Ends
  <2>3. CASE v = <<>>
    <3>1. j = i
      BY <1>4, <1>6, <2>1, <2>3, Zenon
    <3>. QED
      BY <1>3, <2>2, <2>3, <3>1, Zenon
  <2>4. CASE v # <<>>
    <3>1. PICK S : S = ToSet(toks) \cup {t.lhs : t \in ToSet(v)} \cup {t.rhs : t \in ToSet(v)}
      OBVIOUS
    <3>2. ToSet(toks) \subseteq S /\ v \in Seq(Terms(S))
      <4>1. {t.lhs : t \in ToSet(v)} \cup {t.rhs : t \in ToSet(v)} \subseteq S
        BY <3>1, Zenon
      <4>2. ToSet(toks) \subseteq S
        BY <3>1, Zenon
      <4>. QED
        BY <2>1, <4>1, <4>2, SetOfTerms, Zenon
    <3>3. PICK u : u = Joined(TermTexts(S), v, Keyword("and"))
      OBVIOUS
    <3>4. PICK t : t = <<kw>>
      OBVIOUS
    <3>5. Spells(toks, i, j, t \o u)
      BY <1>2, <2>1, <2>4, <3>2, <3>3, <3>4, WherePartText, Zenon
    <3>6. PICK A : t \in Seq(A) /\ u \in Seq(A)
      <4>1. PICK B : B = {Keyword("and"), Delim("="), kw} \cup S
        OBVIOUS
      <4>2. TextsOver(TermTexts(S), Terms(S), B)
        <5>1. SUFFICES ASSUME NEW x \in Terms(S) PROVE TermTexts(S)[x] \in Seq(B)
          BY DEF TextsOver
        <5>2. TermTexts(S)[x] = <<x.lhs, Delim("="), x.rhs>> /\ x.lhs \in S /\ x.rhs \in S
          BY TermTextIs DEF Expressions
        <5>3. {x.lhs, Delim("="), x.rhs} \subseteq B
          BY <4>1, <5>2
        <5>4. <<x.lhs, Delim("="), x.rhs>> \in Seq(B)
          BY <5>3
        <5>. QED
          BY <5>2, <5>4, Zenon
      <4>3. kw \in B /\ Keyword("and") \in B
        BY <4>1
      <4>4. t \in Seq(B)
        BY <3>4, <4>3
      <4>5. u \in Seq(B)
        <5>1. v[1] \in Terms(S)
          BY <2>4, <3>2
        <5>. QED
          BY <2>4, <3>2, <3>3, <4>2, <4>3, <5>1, JoinTextMore, Zenon
      <4>. QED
        BY <4>4, <4>5
    <3>7. Spells(toks, i, i + Len(t), t) /\ Spells(toks, i + Len(t), j, u)
      BY <3>5, <3>6, SpellsSplit, Zenon
    <3>8. Len(t) = 1
      BY <3>4
    <3>9. Spells(toks, i, i + 1, <<kw>>) /\ Spells(toks, i + 1, j, u)
      BY <3>4, <3>7, <3>8
    <3>10. i <= Len(toks) /\ toks[i] = kw /\ i \in 1..Len(toks)
      BY <1>5, <3>9, SpellsOne
    <3>11. kw = Token(kw.type, kw.val) /\ kw.type # "End"
      BY <1>2 DEF Keyword, Token
    <3>12. Is(toks, i, Keyword("where"))
      BY <1>2, <1>5, <3>10, <3>11, IsThere
    <3>13. ListReadsAs(g, toks, i + 1, Terms(S), TermTexts(S), Keyword("and"))
      BY <1>1, <3>2, <3>12, WhereValue, Zenon
    <3>14. v \in Seq(Terms(S)) \ {<<>>}
      BY <2>4, <3>2
    <3>15. Spells(toks, i + 1, j, Joined(TermTexts(S), v, Keyword("and")))
      BY <3>3, <3>9, Zenon
    <3>. QED
      BY <2>2, <3>13, <3>14, <3>15, Zenon DEF ListReadsAs
  <2>. QED
    BY <2>3, <2>4
<1>. QED
  BY <1>1, <1>8, <1>9, Zenon

(* Every part of a sentence is accepted only where its text is, and read   *)
(* there as what it says.                                                  *)
LEMMA PartsRead ==
  ASSUME NEW toks, IsText(toks), NEW i \in 1..Len(toks) + 1, NEW name \in PartNames
  PROVE  /\ PartSound(ParsePart(name, toks, i), name, toks, i)
         /\ PartComplete(ParsePart(name, toks, i), name, toks, i)
BY IdParts, ConstantsPart, ExpressionPart, FieldsPart, WherePart, Zenon DEF PartNames

----------------------------------------------------------------------------
(* Pieces of a text: every "varchar" has its length in the same piece.     *)
Proper(x) == x = Token(x.type, x.val) /\ (x.type = "Id" => x.val \in STRING)

Piece(t) ==
  /\ t \in Seq(ToSet(t))
  /\ \A i \in 1..Len(t) :
        /\ Proper(t[i])
        /\ t[i] = Keyword("varchar") =>
              i + 2 <= Len(t) /\ (t[i + 2].type = "Int" => t[i + 2].val \in Nat)

(* A piece is a text.                                                      *)
LEMMA PieceIsText ==
  ASSUME NEW t, Piece(t)
  PROVE  IsText(t)
<1>. PICK n : n = Len(t)
  OBVIOUS
<1>. PICK R : R = ToSet(t)
  OBVIOUS
<1>1. t \in Seq(R) /\ n \in Nat /\ DOMAIN t = 1..n
  BY DEF Piece
<1>2. ASSUME NEW i \in 1..n
      PROVE  /\ t[i] = Token(t[i].type, t[i].val)
             /\ TypeAt(t, i) = "Id" => t[i].val \in STRING
             /\ Is(t, i, Keyword("varchar")) /\ TypeAt(t, i + 2) = "Int" => t[i + 2].val \in Nat
  <2>1. t[i] = Token(t[i].type, t[i].val) /\ (t[i].type = "Id" => t[i].val \in STRING)
    BY <1>2 DEF Piece, Proper
  <2>2. TypeAt(t, i) = t[i].type
    BY <1>1, <1>2 DEF TypeAt
  <2>3. ASSUME Is(t, i, Keyword("varchar")), TypeAt(t, i + 2) = "Int" PROVE t[i + 2].val \in Nat
    <3>1. PICK kw : kw = Keyword("varchar")
      OBVIOUS
    <3>2. kw = Token(kw.type, kw.val)
      BY <3>1 DEF Keyword, Token
    <3>3. t[i].type = kw.type /\ t[i].val = kw.val
      BY <2>2, <2>3, <3>1, Zenon DEF Is
    <3>4. t[i] = Keyword("varchar")
      BY <2>1, <3>1, <3>2, <3>3, Zenon
    <3>5. i + 2 <= n /\ (t[i + 2].type = "Int" => t[i + 2].val \in Nat)
      BY <1>2, <3>4 DEF Piece
    <3>6. TypeAt(t, i + 2) = t[i + 2].type
      BY <3>5 DEF TypeAt
    <3>. QED
      BY <2>3, <3>5, <3>6
  <2>. QED
    BY <2>1, <2>2, <2>3
<1>3. t \in Seq(ToSet(t))
  BY DEF Piece
<1>. QED
  BY <1>1, <1>2, <1>3, Zenon DEF IsText

(* One piece after another is a piece. *)
LEMMA PieceConcat ==
  ASSUME NEW t, Piece(t), NEW u, Piece(u)
  PROVE  Piece(t \o u)
<1>. PICK m : m = Len(t)
  OBVIOUS
<1>. PICK n : n = Len(u)
  OBVIOUS
<1>1. PICK S : S = ToSet(t) \cup ToSet(u)
  OBVIOUS
<1>2. t \in Seq(S) /\ u \in Seq(S)
  <2>1. PICK P : P = ToSet(t)
    OBVIOUS
  <2>2. PICK Q : Q = ToSet(u)
    OBVIOUS
  <2>3. t \in Seq(P) /\ u \in Seq(Q) /\ P \subseteq S /\ Q \subseteq S
    BY <1>1, <2>1, <2>2 DEF Piece
  <2>. QED
    BY <2>3
<1>3. PICK w : w = t \o u
  OBVIOUS
<1>4. /\ w \in Seq(S) /\ Len(w) = m + n /\ m \in Nat /\ n \in Nat
      /\ \A i \in 1..m : w[i] = t[i]
      /\ \A i \in 1..n : w[m + i] = u[i]
  <2>1. /\ w \in Seq(S) /\ Len(w) = m + n /\ m \in Nat /\ n \in Nat
        /\ \A k \in 1..m + n : w[k] = IF k <= m THEN t[k] ELSE u[k - m]
    BY <1>2, <1>3, ConcatProperties
  <2>. QED
    BY <2>1
<1>5. w \in Seq(ToSet(w))
  BY <1>4, RangeTyped
<1>6. ASSUME NEW i \in 1..m + n
      PROVE  /\ Proper(w[i])
             /\ w[i] = Keyword("varchar") =>
                   i + 2 <= m + n /\ (w[i + 2].type = "Int" => w[i + 2].val \in Nat)
  <2>1. CASE i <= m
    <3>1. i \in 1..m /\ w[i] = t[i]
      BY <1>4, <1>6, <2>1
    <3>2. Proper(t[i]) /\ (t[i] = Keyword("varchar") =>
             i + 2 <= m /\ (t[i + 2].type = "Int" => t[i + 2].val \in Nat))
      BY <3>1 DEF Piece
    <3>3. i + 2 <= m => i + 2 <= m + n /\ w[i + 2] = t[i + 2]
      BY <1>4, <3>1
    <3>. QED
      BY <3>1, <3>2, <3>3
  <2>2. CASE ~ (i <= m)
    <3>1. i - m \in 1..n /\ i = m + (i - m) /\ i + 2 = m + ((i - m) + 2)
      BY <1>4, <1>6, <2>2
    <3>2. PICK k \in 1..n : k = i - m
      BY <3>1
    <3>3. i = m + k /\ i + 2 = m + (k + 2) /\ w[i] = u[k]
      BY <1>4, <3>1, <3>2
    <3>4. Proper(u[k]) /\ (u[k] = Keyword("varchar") =>
             k + 2 <= n /\ (u[k + 2].type = "Int" => u[k + 2].val \in Nat))
      BY <3>2 DEF Piece
    <3>5. k + 2 <= n => i + 2 <= m + n /\ w[i + 2] = u[k + 2]
      <4>. SUFFICES ASSUME k + 2 <= n PROVE i + 2 <= m + n /\ w[i + 2] = u[k + 2]
        OBVIOUS
      <4>1. k + 2 \in 1..n /\ k \in Nat
        BY <1>4, <3>2
      <4>. QED
        BY <1>4, <3>3, <4>1
    <3>. QED
      BY <3>3, <3>4, <3>5
  <2>. QED
    BY <2>1, <2>2
<1>7. Piece(w)
  BY <1>4, <1>5, <1>6, Zenon DEF Piece
<1>. QED
  BY <1>3, <1>7, Zenon

(* Tokens that are no "varchar" are a piece, and so are the none. *)
LEMMA PieceOf ==
  ASSUME NEW A, \A x \in A : Proper(x) /\ x # Keyword("varchar"), NEW t \in Seq(A)
  PROVE  Piece(t)
<1>1. t \in Seq(ToSet(t))
  BY RangeTyped
<1>2. \A i \in 1..Len(t) : t[i] \in A
  OBVIOUS
<1>. QED
  BY <1>1, <1>2, Zenon DEF Piece

(* One token, and none, is a piece.                                        *)
LEMMA PieceOne ==
  ASSUME NEW x, Proper(x), x # Keyword("varchar")
  PROVE  Piece(<<x>>) /\ Piece(<<>>)
<1>1. PICK A : A = {x}
  OBVIOUS
<1>2. <<x>> \in Seq(A) /\ <<>> \in Seq(A)
  BY <1>1
<1>3. \A y \in A : Proper(y) /\ y # Keyword("varchar")
  BY <1>1
<1>. QED
  BY <1>2, <1>3, PieceOf

(* A sequence of pieces, flattened. *)
LEMMA FlattenPieces ==
  ASSUME NEW n \in Nat, NEW h, h = [k \in 1..n |-> h[k]], \A k \in 1..n : Piece(h[k])
  PROVE  Piece(FlattenSeq(h))
<1>1. PICK S : S = UNION {ToSet(h[k]) : k \in 1..n}
  OBVIOUS
<1>2. PICK W : W = {t \in Seq(S) : Piece(t)}
  OBVIOUS
<1>3. \A k \in 1..n : h[k] \in W
  <2>1. SUFFICES ASSUME NEW k \in 1..n PROVE h[k] \in W
    OBVIOUS
  <2>2. PICK R : R = ToSet(h[k])
    OBVIOUS
  <2>3. PICK t : t = h[k]
    OBVIOUS
  <2>4. t \in Seq(R) /\ R \subseteq S /\ Piece(t)
    BY <1>1, <2>2, <2>3 DEF Piece
  <2>5. t \in Seq(S)
    BY <2>4
  <2>. QED
    BY <1>2, <2>3, <2>4, <2>5
<1>4. h \in Seq(W)
  BY <1>3, SeqIf
<1>5. <<>> \in W
  <2>1. <<>> \in Seq(S) /\ <<>> \in Seq({})
    OBVIOUS
  <2>2. Piece(<<>>)
    BY <2>1, PieceOf
  <2>. QED
    BY <1>2, <2>1, <2>2
<1>6. ASSUME NEW x \in W, NEW y \in W PROVE x \o y \in W
  <2>1. x \in Seq(S) /\ y \in Seq(S) /\ Piece(x) /\ Piece(y)
    BY <1>2
  <2>2. x \o y \in Seq(S)
    BY <2>1
  <2>3. Piece(x \o y)
    BY <2>1, PieceConcat, Zenon
  <2>. QED
    BY <1>2, <2>2, <2>3, Zenon
<1>7. W \in SUBSET Seq(S)
  BY <1>2
<1>8. FlattenSeq(h) \in W
  BY <1>4, <1>5, <1>6, <1>7, FlattenClosed, Zenon
<1>. QED
  BY <1>2, <1>8

(* Pieces joined by a separator. *)
LEMMA JoinPieces ==
  ASSUME NEW n \in Nat, NEW h, h = [k \in 1..n |-> h[k]], \A k \in 1..n : Piece(h[k]),
         NEW sep, Proper(sep), sep # Keyword("varchar")
  PROVE  Piece(Join(h, sep))
<1>1. PICK g : g = [k \in 1..n |-> IF k = 1 THEN h[k] ELSE <<sep>> \o h[k]]
  OBVIOUS
<1>2. DOMAIN h = 1..n
  <2>1. PICK f : f = [k \in 1..n |-> h[k]]
    OBVIOUS
  <2>2. f = h
    BY <2>1, Zenon
  <2>. QED
    BY <2>1, <2>2
<1>3. Join(h, sep) = FlattenSeq(g)
  BY <1>1, <1>2, Zenon DEF Join
<1>4. g = [k \in 1..n |-> g[k]]
  BY <1>1, Zenon
<1>5. ASSUME NEW k \in 1..n PROVE Piece(g[k])
  <2>1. CASE k = 1
    BY <1>1, <2>1
  <2>2. CASE k # 1
    <3>1. Piece(<<sep>>)
      BY PieceOne
    <3>2. PICK e : e = <<sep>>
      OBVIOUS
    <3>3. PICK q : q = h[k]
      OBVIOUS
    <3>4. Piece(e \o q)
      BY <1>5, <3>1, <3>2, <3>3, PieceConcat, Zenon
    <3>5. g[k] = e \o q
      BY <1>1, <2>2, <3>2, <3>3, Zenon
    <3>. QED
      BY <3>4, <3>5, Zenon
  <2>. QED
    BY <2>1, <2>2
<1>6. Piece(FlattenSeq(g))
  BY <1>4, <1>5, FlattenPieces, Zenon
<1>. QED
  BY <1>3, <1>6, Zenon

----------------------------------------------------------------------------
(* The texts of items and of parts are pieces. *)
LEMMA ProperTokens ==
  /\ \A x \in STRING : Proper(Id(x)) /\ Id(x) # Keyword("varchar")
  /\ \A c : Proper(Delim(c)) /\ Delim(c) # Keyword("varchar")
  /\ \A n : Proper(Num(n)) /\ Num(n) # Keyword("varchar")
  /\ \A w : Proper(Keyword(w)) /\ (w # "varchar" => Keyword(w) # Keyword("varchar"))
  /\ \A e : IsExpression(e) => Proper(e) /\ e # Keyword("varchar")
<1>1. ASSUME NEW x \in STRING PROVE Proper(Id(x)) /\ Id(x) # Keyword("varchar")
  BY DEF Proper, Id, Keyword, Token
<1>2. ASSUME NEW c PROVE Proper(Delim(c)) /\ Delim(c) # Keyword("varchar")
  BY DEF Proper, Delim, Keyword, Token
<1>3. ASSUME NEW n PROVE Proper(Num(n)) /\ Num(n) # Keyword("varchar")
  BY DEF Proper, Num, Keyword, Token
<1>4. ASSUME NEW w PROVE Proper(Keyword(w)) /\ (w # "varchar" => Keyword(w) # Keyword("varchar"))
  BY DEF Proper, Keyword, Token
<1>5. ASSUME NEW e, IsExpression(e) PROVE Proper(e) /\ e # Keyword("varchar")
  <2>1. CASE IsConstant(e)
    <3>1. e = Token(e.type, e.val) /\ e.type \in {"Int", "String"}
      BY <2>1 DEF IsConstant
    <3>2. Keyword("varchar").type = "Keyword"
      BY DEF Keyword, Token
    <3>. QED
      BY <3>1, <3>2 DEF Proper
  <2>2. CASE e = Id(e.val) /\ e.val \in STRING
    BY <1>1, <2>2
  <2>. QED
    BY <1>5, <2>1, <2>2 DEF IsExpression
<1>. QED
  BY <1>1, <1>2, <1>3, <1>4, <1>5

(* The text of a declaration is a piece.                                   *)
LEMMA FieldPiece ==
  ASSUME NEW f \in Fields
  PROVE  Piece(FieldText(f))
<1>1. FieldText(f) = FieldTexts[f]
  BY Zenon DEF FieldTexts
<1>2. PICK id : id = Id(f.name)
  OBVIOUS
<1>3. Proper(id) /\ id # Keyword("varchar")
  BY <1>2, FieldTextIs, ProperTokens, Zenon
<1>4. CASE f.type = "INTEGER"
  <2>1. PICK int : int = Keyword("int")
    OBVIOUS
  <2>2. Proper(int) /\ int # Keyword("varchar")
    BY <2>1, ProperTokens
  <2>3. PICK A : A = {id, int}
    OBVIOUS
  <2>4. <<id, int>> \in Seq(A)
    BY <2>3
  <2>5. \A x \in A : Proper(x) /\ x # Keyword("varchar")
    BY <1>3, <2>2, <2>3
  <2>6. Piece(<<id, int>>)
    BY <2>4, <2>5, PieceOf
  <2>7. FieldTexts[f] = <<id, int>>
    BY <1>2, <1>4, <2>1, FieldTextIs, Zenon
  <2>. QED
    BY <1>1, <2>6, <2>7, Zenon
<1>5. CASE f.type = "VARCHAR"
  <2>1. PICK vc : vc = Keyword("varchar")
    OBVIOUS
  <2>2. PICK op : op = Delim("(")
    OBVIOUS
  <2>3. PICK num : num = Num(f.length)
    OBVIOUS
  <2>4. PICK cl : cl = Delim(")")
    OBVIOUS
  <2>5. /\ Proper(vc) /\ Proper(op) /\ op # vc /\ Proper(num) /\ num # vc /\ Proper(cl) /\ cl # vc
        /\ id # vc
    BY <1>3, <2>1, <2>2, <2>3, <2>4, ProperTokens, Zenon
  <2>6. num.val \in Nat
    BY <2>3, FieldTextIs DEF Num, Token
  <2>7. PICK t : t = <<id, vc, op, num, cl>>
    OBVIOUS
  <2>8. /\ Len(t) = 5 /\ t \in Seq({id, vc, op, num, cl})
        /\ t[1] = id /\ t[2] = vc /\ t[3] = op /\ t[4] = num /\ t[5] = cl
    BY <2>7
  <2>9. t \in Seq(ToSet(t))
    BY <2>8, RangeTyped
  <2>10. ASSUME NEW i \in 1..5
         PROVE  /\ Proper(t[i])
                /\ t[i] = vc => i + 2 <= 5 /\ t[i + 2] = num
    <3>1. i = 1 \/ i = 2 \/ i = 3 \/ i = 4 \/ i = 5
      OBVIOUS
    <3>. QED
      BY <1>3, <2>5, <2>8, <3>1
  <2>11. Piece(t)
    BY <2>1, <2>6, <2>8, <2>9, <2>10, Zenon DEF Piece
  <2>12. FieldTexts[f] = t
    BY <1>2, <1>5, <2>1, <2>2, <2>3, <2>4, <2>7, FieldTextIs, Zenon
  <2>. QED
    BY <1>1, <2>11, <2>12, Zenon
<1>. QED
  BY <1>4, <1>5, FieldTextIs

(* So is that of an expression.                                            *)
LEMMA ExpressionPiece ==
  ASSUME NEW e, IsExpression(e)
  PROVE  Piece(ConstantText(e, TRUE)) /\ ConstantText(e, TRUE) = <<e>>
<1>1. ConstantText(e, TRUE) = <<e>>
  BY DEF ConstantText
<1>2. Piece(<<e>>)
  BY ProperTokens, PieceOne
<1>. QED
  BY <1>1, <1>2, Zenon

(* So is that of a term.                                                   *)
LEMMA TermPiece ==
  ASSUME NEW t, IsTerm(t)
  PROVE  Piece(TermText(t, TRUE))
<1>1. PICK l : l = ConstantText(t.lhs, TRUE)
  OBVIOUS
<1>2. PICK r : r = ConstantText(t.rhs, TRUE)
  OBVIOUS
<1>3. PICK eq : eq = <<Delim("=")>>
  OBVIOUS
<1>4. Piece(l) /\ Piece(r)
  BY <1>1, <1>2, ExpressionPiece, Zenon DEF IsTerm
<1>5. Piece(eq)
  BY <1>3, ProperTokens, PieceOne
<1>6. TermText(t, TRUE) = l \o eq \o r
  BY <1>1, <1>2, <1>3, Zenon DEF TermText
<1>7. Piece(l \o eq)
  BY <1>4, <1>5, PieceConcat, Zenon
<1>. QED
  BY <1>4, <1>6, <1>7, PieceConcat, Zenon

(* Lists of items that are pieces. *)
LEMMA ListPiece ==
  ASSUME NEW T, NEW v \in Seq(T), NEW h, h = [k \in DOMAIN v |-> h[k]],
         \A k \in DOMAIN v : Piece(h[k]), NEW sep \in {Delim(","), Keyword("and")}
  PROVE  Piece(Join(h, sep))
<1>1. Len(v) \in Nat /\ DOMAIN v = 1..Len(v)
  BY LenProperties, Zenon
<1>2. PICK n \in Nat : n = Len(v) /\ DOMAIN v = 1..n
  BY <1>1, Zenon
<1>3. h = [k \in 1..n |-> h[k]] /\ \A k \in 1..n : Piece(h[k])
  BY <1>2, Zenon
<1>4. Proper(sep) /\ sep # Keyword("varchar")
  BY ProperTokens
<1>. QED
  BY <1>3, <1>4, JoinPieces, Zenon

(* The text of every part of a sentence is a piece.                        *)
LEMMA PartPiece ==
  ASSUME NEW name \in PartNames, NEW v, IsPart(name, v)
  PROVE  Piece(PartText(name, v, TRUE))
<1>1. CASE name = "id"
  <2>1. v \in STRING
    BY <1>1, Zenon DEF IsPart
  <2>2. PICK x : x = Id(v)
    OBVIOUS
  <2>3. Piece(<<x>>)
    BY <2>1, <2>2, ProperTokens, PieceOne
  <2>4. PartText(name, v, TRUE) = <<x>>
    BY <1>1, <2>2, Zenon DEF PartText
  <2>. QED
    BY <2>3, <2>4, Zenon
<1>2. CASE name = "ids"
  <2>1. v \in Seq(STRING)
    <3>1. IsPart("ids", v)
      BY <1>2
    <3>. QED
      BY <3>1, Zenon DEF IsPart
  <2>2. PICK h : h = [k \in DOMAIN v |-> <<Id(v[k])>>]
    OBVIOUS
  <2>3. PartText(name, v, TRUE) = Join(h, Delim(","))
    <3>1. PartText("ids", v, TRUE) = Join(h, Delim(","))
      BY <2>2, Zenon DEF PartText, Each
    <3>. QED
      BY <1>2, <3>1
  <2>4. ASSUME NEW k \in DOMAIN v PROVE Piece(h[k])
    <3>1. PICK x : x = Id(v[k])
      OBVIOUS
    <3>2. v[k] \in STRING
      BY <2>1
    <3>3. Piece(<<x>>)
      BY <3>1, <3>2, ProperTokens, PieceOne
    <3>4. h[k] = <<x>>
      BY <2>2, <3>1, Zenon
    <3>. QED
      BY <3>3, <3>4, Zenon
  <2>5. h = [k \in DOMAIN v |-> h[k]]
    BY <2>2, Zenon
  <2>. QED
    BY <2>1, <2>3, <2>4, <2>5, ListPiece, Zenon
<1>3. CASE name = "constants"
  <2>0. IsPart("constants", v)
    BY <1>3
  <2>1. v \in Seq(ToSet(v)) /\ \A c \in ToSet(v) : IsConstant(c)
    BY <2>0, Zenon DEF IsPart
  <2>2. PICK h : h = [k \in DOMAIN v |-> ConstantText(v[k], TRUE)]
    OBVIOUS
  <2>3. PartText(name, v, TRUE) = Join(h, Delim(","))
    <3>1. PartText("constants", v, TRUE) = Join(h, Delim(","))
      BY <2>2, Zenon DEF PartText, Each
    <3>. QED
      BY <1>3, <3>1
  <2>4. ASSUME NEW k \in DOMAIN v PROVE Piece(h[k])
    <3>1. v[k] \in ToSet(v)
      BY Zenon DEF ToSet
    <3>2. IsExpression(v[k])
      BY <2>1, <3>1, Zenon DEF IsExpression
    <3>3. h[k] = ConstantText(v[k], TRUE)
      BY <2>2, Zenon
    <3>. QED
      BY <3>2, <3>3, ExpressionPiece, Zenon
  <2>5. h = [k \in DOMAIN v |-> h[k]]
    BY <2>2, Zenon
  <2>. QED
    BY <2>1, <2>3, <2>4, <2>5, ListPiece, Zenon
<1>4. CASE name = "expression"
  <2>0. IsPart("expression", v)
    BY <1>4
  <2>1. IsExpression(v)
    BY <2>0, Zenon DEF IsPart
  <2>2. PartText("expression", v, TRUE) = ConstantText(v, TRUE)
    BY Zenon DEF PartText
  <2>. QED
    BY <1>4, <2>1, <2>2, ExpressionPiece, Zenon
<1>5. CASE name = "fields"
  <2>0. IsPart("fields", v)
    BY <1>5
  <2>1. v \in Seq(Fields)
    BY <2>0, SetOfFields
  <2>2. PICK h : h = [k \in DOMAIN v |-> FieldText(v[k])]
    OBVIOUS
  <2>3. PartText(name, v, TRUE) = Join(h, Delim(","))
    <3>1. PartText("fields", v, TRUE) = Join(h, Delim(","))
      BY <2>2, Zenon DEF PartText, Each
    <3>. QED
      BY <1>5, <3>1
  <2>4. ASSUME NEW k \in DOMAIN v PROVE Piece(h[k])
    <3>1. v[k] \in Fields
      BY <2>1
    <3>3. h[k] = FieldText(v[k])
      BY <2>2, Zenon
    <3>. QED
      BY <3>1, <3>3, FieldPiece, Zenon
  <2>5. h = [k \in DOMAIN v |-> h[k]]
    BY <2>2, Zenon
  <2>. QED
    BY <2>1, <2>3, <2>4, <2>5, ListPiece, Zenon
<1>6. CASE name = "where"
  <2>0. IsPart("where", v)
    BY <1>6
  <2>1. v \in Seq(ToSet(v)) /\ \A t \in ToSet(v) : IsTerm(t)
    BY <2>0, Zenon DEF IsPart
  <2>2. PICK h : h = [k \in DOMAIN v |-> TermText(v[k], TRUE)]
    OBVIOUS
  <2>3. PartText("where", v, TRUE)
           = IF v = <<>> THEN <<>> ELSE <<Keyword("where")>> \o Join(h, Keyword("and"))
    BY <2>2, Zenon DEF PartText, Each
  <2>4. ASSUME NEW k \in DOMAIN v PROVE Piece(h[k])
    <3>1. v[k] \in ToSet(v)
      BY Zenon DEF ToSet
    <3>2. IsTerm(v[k])
      BY <2>1, <3>1, Zenon
    <3>3. h[k] = TermText(v[k], TRUE)
      BY <2>2, Zenon
    <3>. QED
      BY <3>2, <3>3, TermPiece, Zenon
  <2>5. h = [k \in DOMAIN v |-> h[k]]
    BY <2>2, Zenon
  <2>6. PICK j : j = Join(h, Keyword("and"))
    OBVIOUS
  <2>7. Piece(j)
    BY <2>1, <2>4, <2>5, <2>6, ListPiece, Zenon
  <2>8. PICK kw : kw = <<Keyword("where")>>
    OBVIOUS
  <2>9. Piece(kw) /\ Piece(<<>>)
    <3>1. "where" # "varchar"
      OBVIOUS
    <3>2. PICK x : x = Keyword("where")
      OBVIOUS
    <3>3. Proper(x) /\ x # Keyword("varchar")
      BY <3>1, <3>2, ProperTokens, Zenon
    <3>4. Piece(<<x>>) /\ Piece(<<>>)
      BY <3>3, PieceOne
    <3>. QED
      BY <2>8, <3>2, <3>4, Zenon
  <2>10. Piece(kw \o j)
    BY <2>7, <2>9, PieceConcat, Zenon
  <2>11. PartText("where", v, TRUE) = IF v = <<>> THEN <<>> ELSE kw \o j
    BY <2>3, <2>6, <2>8, Zenon
  <2>. QED
    BY <1>6, <2>9, <2>10, <2>11, Zenon
<1>. QED
  BY <1>1, <1>2, <1>3, <1>4, <1>5, <1>6 DEF PartNames

----------------------------------------------------------------------------
(* The sentences: words to eat, and parts.  Only the last part can be a    *)
(* predicate, and no part is followed by a comma.                          *)
IsWord(x) == Proper(x) /\ x.type \notin {"Part", "End"} /\ x # Keyword("varchar") /\ x # Delim(",")
IsHole(x) == x.type = "Part" /\ x.val \in PartNames \ {"where"}
IsWhere(x) == x.type = "Part" /\ x.val = "where"

WellFormed(form, n) ==
  /\ form = [k \in 1..n |-> form[k]]
  /\ \A k \in 1..n : \/ IsWord(form[k])
                     \/ IsWhere(form[k]) /\ k = n
                     \/ IsHole(form[k]) /\ k < n /\ (IsWord(form[k + 1]) \/ IsWhere(form[k + 1]))

(* The keywords, delimiters and parts that sentences are made of.          *)
LEMMA WordKinds ==
  /\ \A w : w # "varchar" => IsWord(Keyword(w))
  /\ \A c : c # "," => IsWord(Delim(c))
  /\ \A name \in PartNames \ {"where"} : IsHole(Part(name))
  /\ IsWhere(Part("where"))
<1>1. ASSUME NEW w, w # "varchar" PROVE IsWord(Keyword(w))
  <2>1. Proper(Keyword(w)) /\ Keyword(w) # Keyword("varchar")
    BY <1>1, ProperTokens
  <2>2. Keyword(w).type = "Keyword" /\ Keyword(w) # Delim(",")
    BY DEF Keyword, Delim, Token
  <2>. QED
    BY <2>1, <2>2 DEF IsWord
<1>2. ASSUME NEW c, c # "," PROVE IsWord(Delim(c))
  <2>1. Proper(Delim(c)) /\ Delim(c) # Keyword("varchar")
    BY ProperTokens
  <2>2. Delim(c).type = "Delim" /\ Delim(c) # Delim(",")
    BY <1>2 DEF Delim, Token
  <2>. QED
    BY <2>1, <2>2 DEF IsWord
<1>3. \A name : Part(name).type = "Part" /\ Part(name).val = name
  BY DEF Part, Token
<1>. QED
  BY <1>1, <1>2, <1>3, Zenon DEF IsHole, IsWhere

(* A sequence of four followed by one of five.                             *)
LEMMA FourAndFive ==
  ASSUME NEW S, NEW s \in Seq(S), Len(s) = 4, NEW t \in Seq(S), Len(t) = 5
  PROVE  s \o t = <<s[1], s[2], s[3], s[4], t[1], t[2], t[3], t[4], t[5]>>
<1>1. PICK u : u = s \o t
  OBVIOUS
<1>2. /\ u \in Seq(S) /\ Len(u) = Len(s) + Len(t)
      /\ \A k \in 1..Len(s) + Len(t) : u[k] = IF k <= Len(s) THEN s[k] ELSE t[k - Len(s)]
  BY <1>1, ConcatProperties
<1>3. u \in Seq(S) /\ Len(u) = 9 /\ \A k \in 1..9 : u[k] = IF k <= 4 THEN s[k] ELSE t[k - 4]
  BY <1>2
<1>4. /\ u[1] = s[1] /\ u[2] = s[2] /\ u[3] = s[3] /\ u[4] = s[4]
      /\ u[5] = t[1] /\ u[6] = t[2] /\ u[7] = t[3] /\ u[8] = t[4] /\ u[9] = t[5]
  BY <1>3
<1>5. u = <<u[1], u[2], u[3], u[4], u[5], u[6], u[7], u[8], u[9]>>
  BY <1>3
<1>. QED
  BY <1>1, <1>4, <1>5, Zenon

(* Each sentence is well formed: a part is followed by a word that cannot  *)
(* continue it.                                                            *)
LEMMA InsertForm == WellFormed(Form.insert, 10) /\ Len(Form.insert) = 10
<1>1. PICK form : form = Form.insert
  OBVIOUS
<1>2. PICK a : a = <<Keyword("insert"), Keyword("into"), Part("id"), Delim("("), Part("ids"),
                     Delim(")"), Keyword("values"), Part("constants")>>
  OBVIOUS
<1>3. IsWord(a[1]) /\ IsWord(a[2]) /\ IsHole(a[3]) /\ IsWord(a[4]) /\ IsHole(a[5])
      /\ IsWord(a[6]) /\ IsWord(a[7]) /\ IsHole(a[8])
  BY <1>2, WordKinds DEF PartNames
<1>4. form = <<a[1], a[2], a[3], a[4], a[5], a[6], a[7], a[4], a[8], a[6]>>
  BY <1>1, <1>2 DEF Form
<1>5. form = [k \in 1..10 |-> form[k]] /\ Len(form) = 10
  BY <1>4
<1>6. form[1] = a[1] /\ form[2] = a[2] /\ form[3] = a[3] /\ form[4] = a[4] /\ form[5] = a[5]
      /\ form[6] = a[6] /\ form[7] = a[7] /\ form[8] = a[4] /\ form[9] = a[8] /\ form[10] = a[6]
  BY <1>4
<1>7. ASSUME NEW k \in 1..10
      PROVE  \/ IsWord(form[k])
             \/ IsWhere(form[k]) /\ k = 10
             \/ /\ IsHole(form[k]) /\ k < 10
                /\ IsWord(form[k + 1]) \/ IsWhere(form[k + 1])
  <2>1. k \in {1, 2, 3, 4, 5, 6, 7, 8, 9, 10}
    OBVIOUS
  <2>. QED
    BY <1>3, <1>6, <2>1
<1>8. WellFormed(form, 10)
  BY <1>5, <1>7, Zenon DEF WellFormed
<1>. QED
  BY <1>1, <1>5, <1>8

(* DELETE.                                                                 *)
LEMMA DeleteForm == WellFormed(Form.delete, 4) /\ Len(Form.delete) = 4
<1>1. PICK form : form = Form.delete
  OBVIOUS
<1>2. PICK a : a = <<Keyword("delete"), Keyword("from"), Part("id"), Part("where")>>
  OBVIOUS
<1>3. IsWord(a[1]) /\ IsWord(a[2]) /\ IsHole(a[3]) /\ IsWhere(a[4])
  BY <1>2, WordKinds DEF PartNames
<1>4. form = <<a[1], a[2], a[3], a[4]>>
  BY <1>1, <1>2 DEF Form
<1>5. form = [k \in 1..4 |-> form[k]] /\ Len(form) = 4
  BY <1>4
<1>6. form[1] = a[1] /\ form[2] = a[2] /\ form[3] = a[3] /\ form[4] = a[4]
  BY <1>4
<1>7. ASSUME NEW k \in 1..4
      PROVE  \/ IsWord(form[k])
             \/ IsWhere(form[k]) /\ k = 4
             \/ /\ IsHole(form[k]) /\ k < 4
                /\ IsWord(form[k + 1]) \/ IsWhere(form[k + 1])
  <2>1. k \in {1, 2, 3, 4}
    OBVIOUS
  <2>. QED
    BY <1>3, <1>6, <2>1
<1>8. WellFormed(form, 4)
  BY <1>5, <1>7, Zenon DEF WellFormed
<1>. QED
  BY <1>1, <1>5, <1>8

(* UPDATE.                                                                 *)
LEMMA ModifyForm == WellFormed(Form.modify, 7) /\ Len(Form.modify) = 7
<1>1. PICK form : form = Form.modify
  OBVIOUS
<1>2. PICK a : a = <<Keyword("update"), Part("id"), Keyword("set"), Delim("="),
                     Part("expression"), Part("where")>>
  OBVIOUS
<1>3. IsWord(a[1]) /\ IsHole(a[2]) /\ IsWord(a[3]) /\ IsWord(a[4]) /\ IsHole(a[5])
      /\ IsWhere(a[6])
  BY <1>2, WordKinds DEF PartNames
<1>4. form = <<a[1], a[2], a[3], a[2], a[4], a[5], a[6]>>
  BY <1>1, <1>2 DEF Form
<1>5. form = [k \in 1..7 |-> form[k]] /\ Len(form) = 7
  BY <1>4
<1>6. form[1] = a[1] /\ form[2] = a[2] /\ form[3] = a[3] /\ form[4] = a[2] /\ form[5] = a[4]
      /\ form[6] = a[5] /\ form[7] = a[6]
  BY <1>4
<1>7. ASSUME NEW k \in 1..7
      PROVE  \/ IsWord(form[k])
             \/ IsWhere(form[k]) /\ k = 7
             \/ /\ IsHole(form[k]) /\ k < 7
                /\ IsWord(form[k + 1]) \/ IsWhere(form[k + 1])
  <2>1. k \in {1, 2, 3, 4, 5, 6, 7}
    OBVIOUS
  <2>. QED
    BY <1>3, <1>6, <2>1
<1>8. WellFormed(form, 7)
  BY <1>5, <1>7, Zenon DEF WellFormed
<1>. QED
  BY <1>1, <1>5, <1>8

(* CREATE TABLE.                                                           *)
LEMMA CreateTableForm == WellFormed(Form.create_table, 6) /\ Len(Form.create_table) = 6
<1>1. PICK form : form = Form.create_table
  OBVIOUS
<1>2. PICK a : a = <<Keyword("create"), Keyword("table"), Part("id"), Delim("("),
                     Part("fields"), Delim(")")>>
  OBVIOUS
<1>3. IsWord(a[1]) /\ IsWord(a[2]) /\ IsHole(a[3]) /\ IsWord(a[4]) /\ IsHole(a[5])
      /\ IsWord(a[6])
  BY <1>2, WordKinds DEF PartNames
<1>4. form = <<a[1], a[2], a[3], a[4], a[5], a[6]>>
  BY <1>1, <1>2 DEF Form
<1>5. form = [k \in 1..6 |-> form[k]] /\ Len(form) = 6
  BY <1>4
<1>6. form[1] = a[1] /\ form[2] = a[2] /\ form[3] = a[3] /\ form[4] = a[4] /\ form[5] = a[5]
      /\ form[6] = a[6]
  BY <1>4
<1>7. ASSUME NEW k \in 1..6
      PROVE  \/ IsWord(form[k])
             \/ IsWhere(form[k]) /\ k = 6
             \/ /\ IsHole(form[k]) /\ k < 6
                /\ IsWord(form[k + 1]) \/ IsWhere(form[k + 1])
  <2>1. k \in {1, 2, 3, 4, 5, 6}
    OBVIOUS
  <2>. QED
    BY <1>3, <1>6, <2>1
<1>8. WellFormed(form, 6)
  BY <1>5, <1>7, Zenon DEF WellFormed
<1>. QED
  BY <1>1, <1>5, <1>8

(* CREATE VIEW: the name, then the sentence of a query.                    *)
LEMMA CreateViewForm == WellFormed(Form.create_view, 9) /\ Len(Form.create_view) = 9
<1>1. PICK form : form = Form.create_view
  OBVIOUS
<1>2. PICK a : a = <<Keyword("create"), Keyword("view"), Part("id"), Keyword("as"),
                     Keyword("select"), Part("ids"), Keyword("from"), Part("where")>>
  OBVIOUS
<1>3. IsWord(a[1]) /\ IsWord(a[2]) /\ IsHole(a[3]) /\ IsWord(a[4]) /\ IsWord(a[5])
      /\ IsHole(a[6]) /\ IsWord(a[7]) /\ IsWhere(a[8])
  BY <1>2, WordKinds DEF PartNames
<1>4. form = <<a[1], a[2], a[3], a[4], a[5], a[6], a[7], a[6], a[8]>>
  <2>1. PICK s : s = <<a[1], a[2], a[3], a[4]>>
    OBVIOUS
  <2>2. PICK t : t = <<a[5], a[6], a[7], a[6], a[8]>>
    OBVIOUS
  <2>3. form = s \o t
    BY <1>1, <1>2, <2>1, <2>2 DEF Form, QueryForm
  <2>4. PICK S : S = {a[1], a[2], a[3], a[4], a[5], a[6], a[7], a[8]}
    OBVIOUS
  <2>5. /\ s \in Seq(S) /\ Len(s) = 4 /\ s[1] = a[1] /\ s[2] = a[2] /\ s[3] = a[3] /\ s[4] = a[4]
        /\ t \in Seq(S) /\ Len(t) = 5 /\ t[1] = a[5] /\ t[2] = a[6] /\ t[3] = a[7]
        /\ t[4] = a[6] /\ t[5] = a[8]
    BY <2>1, <2>2, <2>4
  <2>6. s \o t = <<s[1], s[2], s[3], s[4], t[1], t[2], t[3], t[4], t[5]>>
    BY <2>5, FourAndFive, Zenon
  <2>. QED
    BY <2>3, <2>5, <2>6, Zenon
<1>5. form = [k \in 1..9 |-> form[k]] /\ Len(form) = 9
  BY <1>4
<1>6. form[1] = a[1] /\ form[2] = a[2] /\ form[3] = a[3] /\ form[4] = a[4] /\ form[5] = a[5]
      /\ form[6] = a[6] /\ form[7] = a[7] /\ form[8] = a[6] /\ form[9] = a[8]
  BY <1>4
<1>7. ASSUME NEW k \in 1..9
      PROVE  \/ IsWord(form[k])
             \/ IsWhere(form[k]) /\ k = 9
             \/ /\ IsHole(form[k]) /\ k < 9
                /\ IsWord(form[k + 1]) \/ IsWhere(form[k + 1])
  <2>1. k \in {1, 2, 3, 4, 5, 6, 7, 8, 9}
    OBVIOUS
  <2>. QED
    BY <1>3, <1>6, <2>1
<1>8. WellFormed(form, 9)
  BY <1>5, <1>7, Zenon DEF WellFormed
<1>. QED
  BY <1>1, <1>5, <1>8

(* CREATE INDEX.                                                           *)
LEMMA CreateIndexForm == WellFormed(Form.create_index, 8) /\ Len(Form.create_index) = 8
<1>1. PICK form : form = Form.create_index
  OBVIOUS
<1>2. PICK a : a = <<Keyword("create"), Keyword("index"), Part("id"), Keyword("on"), Delim("("),
                     Delim(")")>>
  OBVIOUS
<1>3. IsWord(a[1]) /\ IsWord(a[2]) /\ IsHole(a[3]) /\ IsWord(a[4]) /\ IsWord(a[5])
      /\ IsWord(a[6])
  BY <1>2, WordKinds DEF PartNames
<1>4. form = <<a[1], a[2], a[3], a[4], a[3], a[5], a[3], a[6]>>
  BY <1>1, <1>2 DEF Form
<1>5. form = [k \in 1..8 |-> form[k]] /\ Len(form) = 8
  BY <1>4
<1>6. form[1] = a[1] /\ form[2] = a[2] /\ form[3] = a[3] /\ form[4] = a[4] /\ form[5] = a[3]
      /\ form[6] = a[5] /\ form[7] = a[3] /\ form[8] = a[6]
  BY <1>4
<1>7. ASSUME NEW k \in 1..8
      PROVE  \/ IsWord(form[k])
             \/ IsWhere(form[k]) /\ k = 8
             \/ /\ IsHole(form[k]) /\ k < 8
                /\ IsWord(form[k + 1]) \/ IsWhere(form[k + 1])
  <2>1. k \in {1, 2, 3, 4, 5, 6, 7, 8}
    OBVIOUS
  <2>. QED
    BY <1>3, <1>6, <2>1
<1>8. WellFormed(form, 8)
  BY <1>5, <1>7, Zenon DEF WellFormed
<1>. QED
  BY <1>1, <1>5, <1>8

(* SELECT.                                                                 *)
LEMMA QueryFormIs == WellFormed(Form.query, 5) /\ Len(Form.query) = 5
<1>1. PICK form : form = Form.query
  OBVIOUS
<1>2. PICK a : a = <<Keyword("select"), Part("ids"), Keyword("from"), Part("where")>>
  OBVIOUS
<1>3. IsWord(a[1]) /\ IsHole(a[2]) /\ IsWord(a[3]) /\ IsWhere(a[4])
  BY <1>2, WordKinds DEF PartNames
<1>4. form = <<a[1], a[2], a[3], a[2], a[4]>>
  BY <1>1, <1>2 DEF Form, QueryForm
<1>5. form = [k \in 1..5 |-> form[k]] /\ Len(form) = 5
  BY <1>4
<1>6. form[1] = a[1] /\ form[2] = a[2] /\ form[3] = a[3] /\ form[4] = a[2] /\ form[5] = a[4]
  BY <1>4
<1>7. ASSUME NEW k \in 1..5
      PROVE  \/ IsWord(form[k])
             \/ IsWhere(form[k]) /\ k = 5
             \/ /\ IsHole(form[k]) /\ k < 5
                /\ IsWord(form[k + 1]) \/ IsWhere(form[k + 1])
  <2>1. k \in {1, 2, 3, 4, 5}
    OBVIOUS
  <2>. QED
    BY <1>3, <1>6, <2>1
<1>8. WellFormed(form, 5)
  BY <1>5, <1>7, Zenon DEF WellFormed
<1>. QED
  BY <1>1, <1>5, <1>8

(* All of them together.                                                   *)
LEMMA FormsWellFormed ==
  ASSUME NEW kind \in DOMAIN Form
  PROVE  \E n \in Nat : n > 1 /\ Len(Form[kind]) = n /\ WellFormed(Form[kind], n)
<1>1. kind \in {"insert", "delete", "modify", "create_table", "create_view", "create_index",
                "query"}
  BY DEF Form
<1>2. \A n \in {10, 4, 7, 6, 9, 8, 5} : n \in Nat /\ n > 1
  OBVIOUS
<1>3. \E n \in {10, 4, 7, 6, 9, 8, 5} : Len(Form[kind]) = n /\ WellFormed(Form[kind], n)
  BY <1>1, InsertForm, DeleteForm, ModifyForm, CreateTableForm, CreateViewForm, CreateIndexForm,
     QueryFormIs, Zenon
<1>. QED
  BY <1>2, <1>3, Zenon

----------------------------------------------------------------------------
(* The number of parts among the first words of a sentence. *)
LEMMA PartsCount ==
  ASSUME NEW form
  PROVE  /\ PartsUpTo(form, 0) = 0
         /\ \A k \in Nat : PartsUpTo(form, k) \in Nat
         /\ \A k \in Nat \ {0} :
               PartsUpTo(form, k) = PartsUpTo(form, k - 1) + IF form[k].type = "Part" THEN 1 ELSE 0
<1>. DEFINE Q(k) == {j \in 1..k : form[j].type = "Part"}
<1>1. ASSUME NEW k \in Nat PROVE IsFiniteSet(Q(k)) /\ Cardinality(Q(k)) \in Nat
  <2>1. IsFiniteSet(1..k)
    BY FS_Interval
  <2>2. Q(k) \subseteq 1..k
    OBVIOUS
  <2>3. IsFiniteSet(Q(k))
    BY <2>1, <2>2, FS_Subset
  <2>. QED
    BY <2>3, FS_CardinalityType
<1>2. \A k : PartsUpTo(form, k) = Cardinality(Q(k))
  BY Zenon DEF PartsUpTo
<1>3. Q(0) = {}
  OBVIOUS
<1>4. Cardinality({}) = 0
  BY FS_EmptySet
<1>5. ASSUME NEW k \in Nat \ {0}
      PROVE  Cardinality(Q(k)) = Cardinality(Q(k - 1)) + IF form[k].type = "Part" THEN 1 ELSE 0
  <2>0. k - 1 \in Nat /\ 1..k = (1..(k - 1)) \cup {k} /\ k \notin 1..(k - 1)
    OBVIOUS
  <2>1. CASE form[k].type = "Part"
    <3>1. Q(k) = Q(k - 1) \cup {k} /\ k \notin Q(k - 1)
      BY <2>0, <2>1
    <3>2. IsFiniteSet(Q(k - 1)) /\ Cardinality(Q(k - 1)) \in Nat
      BY <1>1, <2>0
    <3>. HIDE DEF Q
    <3>3. Cardinality(Q(k)) = Cardinality(Q(k - 1)) + 1
      BY <3>1, <3>2, FS_AddElement
    <3>. QED
      BY <2>1, <3>3
  <2>2. CASE form[k].type # "Part"
    <3>1. Q(k) = Q(k - 1)
      BY <2>0, <2>2
    <3>2. Cardinality(Q(k - 1)) \in Nat
      BY <1>1, <2>0
    <3>. HIDE DEF Q
    <3>. QED
      BY <2>2, <3>1, <3>2
  <2>. QED
    BY <2>1, <2>2
<1>. HIDE DEF Q
<1>. QED
  BY <1>1, <1>2, <1>3, <1>4, <1>5

(* The number of parts grows along the sentence.                           *)
LEMMA PartsGrow ==
  ASSUME NEW form, NEW k \in Nat, NEW j \in 0..k
  PROVE  /\ PartsUpTo(form, j) <= PartsUpTo(form, k)
         /\ j \in 1..k /\ form[j].type = "Part" => PartsUpTo(form, j) \in 1..PartsUpTo(form, k)
<1>. DEFINE A == {m \in Nat : \A i \in 0..m : PartsUpTo(form, i) <= PartsUpTo(form, m)}
<1>1. 0 \in A
  BY PartsCount
<1>2. ASSUME NEW m \in Nat, m \in A PROVE m + 1 \in A
  <2>1. SUFFICES ASSUME NEW i \in 0..m + 1 PROVE PartsUpTo(form, i) <= PartsUpTo(form, m + 1)
    OBVIOUS
  <2>2. m + 1 \in Nat \ {0} /\ (m + 1) - 1 = m
    OBVIOUS
  <2>3. /\ PartsUpTo(form, m + 1) = PartsUpTo(form, m) + IF form[m + 1].type = "Part" THEN 1 ELSE 0
        /\ PartsUpTo(form, m) \in Nat /\ PartsUpTo(form, m + 1) \in Nat
    BY <2>2, PartsCount
  <2>4. CASE i = m + 1
    BY <2>3, <2>4
  <2>5. CASE i \in 0..m
    <3>1. PartsUpTo(form, i) <= PartsUpTo(form, m) /\ PartsUpTo(form, i) \in Nat
      BY <1>2, <2>5, PartsCount
    <3>. QED
      BY <2>3, <3>1
  <2>. QED
    BY <2>4, <2>5
<1>. HIDE DEF A
<1>3. Nat \subseteq A
  BY <1>1, <1>2, SetInduction
<1>4. PartsUpTo(form, j) <= PartsUpTo(form, k)
  BY <1>3 DEF A
<1>5. ASSUME j \in 1..k, form[j].type = "Part" PROVE PartsUpTo(form, j) \in 1..PartsUpTo(form, k)
  <2>1. j \in Nat \ {0} /\ j - 1 \in Nat
    BY <1>5
  <2>2. PartsUpTo(form, j) = PartsUpTo(form, j - 1) + 1 /\ PartsUpTo(form, j - 1) \in Nat
    BY <1>5, <2>1, PartsCount
  <2>3. PartsUpTo(form, k) \in Nat
    BY PartsCount
  <2>. QED
    BY <1>4, <2>2, <2>3
<1>. QED
  BY <1>4, <1>5

----------------------------------------------------------------------------
(* The values read so far, and one more. *)
Upto(p, m) == [j \in 1..m |-> p[j]]
IsUpto(p, m) == p = Upto(p, m)

Extended(q, p, v, m) ==
  IsUpto(q, m + 1) /\ q[m + 1] = v /\ \A j \in 1..m : q[j] = p[j]

(* Appending a value extends the parts by one.                             *)
LEMMA AppendUpto ==
  ASSUME NEW m \in Nat, NEW p, IsUpto(p, m), NEW v
  PROVE  Extended(Append(p, v), p, v, m)
<1>0. PICK q : q = Append(p, v)
  OBVIOUS
<1>1. PICK S : S = {p[j] : j \in 1..m} \cup {v}
  OBVIOUS
<1>2. PICK r : r = [j \in 1..m |-> p[j]]
  OBVIOUS
<1>3. r \in Seq(S) /\ Len(r) = m /\ \A j \in 1..m : r[j] = p[j]
  BY <1>1, <1>2
<1>4. r = p
  BY <1>2, Zenon DEF Upto, IsUpto
<1>5. q = Append(r, v)
  BY <1>0, <1>4, Zenon
<1>6. v \in S
  BY <1>1
<1>7. Append(r, v) \in Seq(S) /\ Len(Append(r, v)) = m + 1
  BY <1>3, <1>6
<1>8. Append(r, v)[m + 1] = v /\ \A j \in 1..m : Append(r, v)[j] = r[j]
  BY <1>3, <1>6
<1>9. q = [j \in 1..m + 1 |-> q[j]]
  <2>1. PICK u : u = Append(r, v)
    OBVIOUS
  <2>2. u \in Seq(S) /\ Len(u) = m + 1
    BY <1>7, <2>1
  <2>3. u = [j \in 1..m + 1 |-> u[j]]
    BY <2>2
  <2>4. q = u
    BY <1>5, <2>1, Zenon
  <2>. QED
    BY <2>3, <2>4, Zenon
<1>. QED
  BY <1>0, <1>3, <1>5, <1>8, <1>9, Zenon DEF Upto, IsUpto, Extended

(* The parts up to the next are those before and the next.                 *)
LEMMA UptoAppend ==
  ASSUME NEW m \in Nat, NEW p
  PROVE  Append(Upto(p, m), p[m + 1]) = Upto(p, m + 1)
<1>1. PICK r : r = Upto(p, m)
  OBVIOUS
<1>2. \A j \in 1..m : r[j] = p[j]
  BY <1>1 DEF Upto
<1>3. IsUpto(r, m)
  BY <1>1, <1>2, Zenon DEF IsUpto, Upto
<1>0. PICK v : v = p[m + 1]
  OBVIOUS
<1>7. PICK q : q = Append(r, v)
  OBVIOUS
<1>4. Extended(Append(r, v), r, v, m)
  BY <1>3, AppendUpto, Zenon
<1>5. IsUpto(q, m + 1) /\ q[m + 1] = v /\ \A j \in 1..m : q[j] = r[j]
  BY <1>4, <1>7, Zenon DEF Extended
<1>6. \A j \in 1..m + 1 : q[j] = p[j]
  BY <1>0, <1>2, <1>5
<1>. QED
  BY <1>0, <1>1, <1>7, <1>5, <1>6, Zenon DEF Upto, IsUpto

----------------------------------------------------------------------------
(* The text of the first words of a sentence, with its parts filled in. *)
WordsUpTo(form, p, k) == FlattenSeq([j \in 1..k |-> Words(form, p, j, TRUE)])

Filled(form, p, k) ==
  \A j \in 1..k : form[j].type = "Part" => IsPart(form[j].val, p[PartsUpTo(form, j)])

(* Each word of a filled sentence is a piece: a token or the text of a     *)
(* part.                                                                   *)
LEMMA WordPiece ==
  ASSUME NEW n \in Nat, NEW form, WellFormed(form, n), NEW p, NEW k \in 0..n, Filled(form, p, k),
         NEW j \in 1..k
  PROVE  /\ Piece(Words(form, p, j, TRUE))
         /\ form[j].type # "Part" => IsWord(form[j]) /\ Words(form, p, j, TRUE) = <<form[j]>>
         /\ form[j].type = "Part" =>
               /\ form[j].val \in PartNames /\ IsPart(form[j].val, p[PartsUpTo(form, j)])
               /\ Words(form, p, j, TRUE) = PartText(form[j].val, p[PartsUpTo(form, j)], TRUE)
<1>1. j \in 1..n
  OBVIOUS
<1>2. IsWord(form[j]) \/ IsWhere(form[j]) \/ IsHole(form[j])
  BY <1>1, Zenon DEF WellFormed
<1>3. CASE form[j].type # "Part"
  <2>1. IsWord(form[j])
    BY <1>2, <1>3 DEF IsWhere, IsHole
  <2>2. Words(form, p, j, TRUE) = <<form[j]>>
    BY <1>3, Zenon DEF Words
  <2>3. PICK x : x = form[j]
    OBVIOUS
  <2>4. Proper(x) /\ x # Keyword("varchar")
    BY <2>1, <2>3, Zenon DEF IsWord
  <2>5. Piece(<<x>>)
    BY <2>4, PieceOne
  <2>. QED
    BY <1>3, <2>1, <2>2, <2>3, <2>5, Zenon
<1>4. CASE form[j].type = "Part"
  <2>1. form[j].val \in PartNames
    <3>1. ~ IsWord(form[j])
      BY <1>4 DEF IsWord
    <3>. QED
      BY <1>2, <3>1 DEF IsWhere, IsHole, PartNames
  <2>2. IsPart(form[j].val, p[PartsUpTo(form, j)])
    BY <1>4 DEF Filled
  <2>3. Words(form, p, j, TRUE) = PartText(form[j].val, p[PartsUpTo(form, j)], TRUE)
    BY <1>4, Zenon DEF Words
  <2>. QED
    BY <1>4, <2>1, <2>2, <2>3, PartPiece, Zenon
<1>. QED
  BY <1>3, <1>4

(* The words up to k are those before and the k-th.                        *)
LEMMA WordsStep ==
  ASSUME NEW n \in Nat, NEW form, WellFormed(form, n), NEW p, NEW k \in 1..n, Filled(form, p, k)
  PROVE  /\ WordsUpTo(form, p, k) = WordsUpTo(form, p, k - 1) \o Words(form, p, k, TRUE)
         /\ Piece(WordsUpTo(form, p, k - 1)) /\ Piece(Words(form, p, k, TRUE))
         /\ Filled(form, p, k - 1)
<1>1. PICK m \in Nat : m = k - 1 /\ k = m + 1
  OBVIOUS
<1>2. PICK h : h = [j \in 1..k |-> Words(form, p, j, TRUE)]
  OBVIOUS
<1>3. \A j \in 1..k : h[j] = Words(form, p, j, TRUE) /\ Piece(h[j])
  <2>1. SUFFICES ASSUME NEW j \in 1..k
                 PROVE  h[j] = Words(form, p, j, TRUE) /\ Piece(h[j])
    OBVIOUS
  <2>2. k \in 0..n
    OBVIOUS
  <2>3. h[j] = Words(form, p, j, TRUE)
    BY <1>2, Zenon
  <2>. QED
    BY <2>2, <2>3, WordPiece, Zenon
<1>4. \A j \in 1..m : j \in 1..k
  BY <1>1
<1>5. PICK q : q = Upto(h, m)
  OBVIOUS
<1>6. q = [j \in 1..m |-> Words(form, p, j, TRUE)]
  BY <1>3, <1>4, <1>5, Zenon DEF Upto
<1>7. h = Append(q, h[k])
  <2>1. Append(Upto(h, m), h[m + 1]) = Upto(h, m + 1)
    BY UptoAppend
  <2>2. Upto(h, k) = h
    BY <1>2, <1>3, Zenon DEF Upto
  <2>. QED
    BY <1>1, <1>5, <2>1, <2>2, Zenon
<1>8. PICK S : S = UNION {ToSet(h[j]) : j \in 1..k}
  OBVIOUS
<1>9. \A j \in 1..k : h[j] \in Seq(S)
  <2>1. SUFFICES ASSUME NEW j \in 1..k PROVE h[j] \in Seq(S)
    OBVIOUS
  <2>2. PICK R : R = ToSet(h[j])
    OBVIOUS
  <2>3. PICK t : t = h[j]
    OBVIOUS
  <2>4. t \in Seq(R) /\ R \subseteq S
    BY <1>3, <1>8, <2>2, <2>3 DEF Piece
  <2>5. t \in Seq(S)
    BY <2>4
  <2>. QED
    BY <2>3, <2>5
<1>10. q = [j \in 1..m |-> q[j]] /\ \A j \in 1..m : q[j] = h[j]
  BY <1>5, Zenon DEF Upto
<1>11. q \in Seq(Seq(S))
  BY <1>4, <1>9, <1>10, SeqIf
<1>12. k \in 1..k
  BY <1>1
<1>13. FlattenSeq(h) = FlattenSeq(q) \o h[k]
  <2>1. PICK x : x = h[k]
    OBVIOUS
  <2>2. x \in Seq(S)
    BY <1>9, <1>12, <2>1
  <2>3. FlattenSeq(Append(q, x)) = FlattenSeq(q) \o x
    BY <1>11, <2>2, FlattenAppend
  <2>. QED
    BY <1>7, <2>1, <2>3, Zenon
<1>14. Piece(FlattenSeq(q))
  <2>1. \A j \in 1..m : Piece(q[j])
    BY <1>3, <1>4, <1>10, Zenon
  <2>. QED
    BY <1>10, <2>1, FlattenPieces, Zenon
<1>15. Filled(form, p, k - 1)
  BY <1>1, <1>4 DEF Filled
<1>. QED
  BY <1>1, <1>2, <1>3, <1>6, <1>12, <1>13, <1>14, <1>15, Zenon DEF WordsUpTo

(* The words up to k are a piece.                                          *)
LEMMA WordsPiece ==
  ASSUME NEW n \in Nat, NEW form, WellFormed(form, n), NEW p, NEW k \in 0..n, Filled(form, p, k)
  PROVE  Piece(WordsUpTo(form, p, k))
<1>1. PICK h : h = [j \in 1..k |-> Words(form, p, j, TRUE)]
  OBVIOUS
<1>2. h = [j \in 1..k |-> h[j]] /\ \A j \in 1..k : Piece(h[j])
  BY <1>1, WordPiece, Zenon
<1>3. k \in Nat
  OBVIOUS
<1>. QED
  BY <1>1, <1>2, <1>3, FlattenPieces, Zenon DEF WordsUpTo

(* No words are no tokens.                                                 *)
LEMMA WordsNone == ASSUME NEW form, NEW p PROVE WordsUpTo(form, p, 0) = <<>>
<1>1. PICK h : h = [j \in 1..0 |-> Words(form, p, j, TRUE)]
  OBVIOUS
<1>2. h = <<>>
  BY <1>1
<1>3. h \in Seq(Seq({}))
  BY <1>2
<1>4. FlattenSeq(h) = <<>>
  BY <1>2, <1>3, FlattenIs
<1>. QED
  BY <1>1, <1>4, Zenon DEF WordsUpTo

(* The text depends on the parts among the words only. *)
LEMMA WordsAgree ==
  ASSUME NEW form, NEW k \in Nat, NEW p, NEW q,
         \A j \in 1..PartsUpTo(form, k) : p[j] = q[j]
  PROVE  /\ WordsUpTo(form, p, k) = WordsUpTo(form, q, k)
         /\ Filled(form, p, k) => Filled(form, q, k)
<1>1. \A j \in 1..k : form[j].type = "Part" => p[PartsUpTo(form, j)] = q[PartsUpTo(form, j)]
  <2>1. SUFFICES ASSUME NEW j \in 1..k, form[j].type = "Part"
                 PROVE  p[PartsUpTo(form, j)] = q[PartsUpTo(form, j)]
    OBVIOUS
  <2>2. j \in 0..k
    OBVIOUS
  <2>3. PartsUpTo(form, j) \in 1..PartsUpTo(form, k)
    BY <2>1, <2>2, PartsGrow
  <2>. QED
    BY <2>3
<1>2. \A j \in 1..k : Words(form, p, j, TRUE) = Words(form, q, j, TRUE)
  BY <1>1, Zenon DEF Words
<1>3. [j \in 1..k |-> Words(form, p, j, TRUE)] = [j \in 1..k |-> Words(form, q, j, TRUE)]
  BY <1>2, Zenon
<1>. QED
  BY <1>1, <1>3, Zenon DEF WordsUpTo, Filled

----------------------------------------------------------------------------
(* A sentence is accepted only where the text begins with it: what the     *)
(* words up to k have read.                                                *)
Follows(f, form, toks, n) ==
  /\ f[0] = Got(<<>>, 1)
  /\ \A k \in 1..n : f[k] = FormAt(form, toks, k, f[k - 1])

SoundUpTo(g, form, toks, k) ==
  ~ Failed(g) =>
     /\ g = Got(g.val, g.at) /\ IsUpto(g.val, PartsUpTo(form, k)) /\ Filled(form, g.val, k)
     /\ Spells(toks, 1, g.at, WordsUpTo(form, g.val, k))

(* At the beginning nothing has been read.                                 *)
LEMMA SoundStart ==
  ASSUME NEW toks, IsText(toks), NEW form
  PROVE  SoundUpTo(Got(<<>>, 1), form, toks, 0)
<1>1. Got(<<>>, 1).val = <<>> /\ Got(<<>>, 1).at = 1
  BY DEF Got
<1>2. IsUpto(<<>>, 0)
  BY DEF IsUpto, Upto
<1>3. PartsUpTo(form, 0) = 0
  BY PartsCount
<1>4. Filled(form, <<>>, 0)
  BY DEF Filled
<1>5. WordsUpTo(form, <<>>, 0) = <<>>
  BY WordsNone
<1>6. 1 \in 1..Len(toks) + 1
  BY TextIs
<1>7. Spells(toks, 1, 1, <<>>)
  BY <1>6, SpellsNone
<1>. QED
  BY <1>1, <1>2, <1>3, <1>4, <1>5, <1>7, Zenon DEF SoundUpTo

(* Each step reads what the text has there.                                *)
LEMMA SoundStep ==
  ASSUME NEW toks, IsText(toks), NEW n \in Nat, NEW form, WellFormed(form, n), NEW k \in 1..n,
         NEW b, SoundUpTo(b, form, toks, k - 1), NEW g, g = FormAt(form, toks, k, b)
  PROVE  SoundUpTo(g, form, toks, k)
<1>1. SUFFICES ASSUME ~ Failed(g)
               PROVE  /\ g = Got(g.val, g.at) /\ IsUpto(g.val, PartsUpTo(form, k))
                      /\ Filled(form, g.val, k)
                      /\ Spells(toks, 1, g.at, WordsUpTo(form, g.val, k))
  BY Zenon DEF SoundUpTo
<1>2. PICK m \in Nat : m = k - 1 /\ k = m + 1
  OBVIOUS
<1>3. PICK c : c = PartsUpTo(form, m)
  OBVIOUS
<1>4. c \in Nat /\ PartsUpTo(form, k) = c + IF form[k].type = "Part" THEN 1 ELSE 0
  <2>1. k \in Nat \ {0}
    OBVIOUS
  <2>. QED
    BY <1>2, <1>3, <2>1, PartsCount
<1>5. ~ Failed(b)
  BY <1>1 DEF FormAt, BadSyntax, Got, Failed
<1>6. /\ b = Got(b.val, b.at) /\ IsUpto(b.val, c) /\ Filled(form, b.val, m)
      /\ Spells(toks, 1, b.at, WordsUpTo(form, b.val, m))
  BY <1>2, <1>3, <1>5, Zenon DEF SoundUpTo
<1>7. b.at \in Nat \ {0} /\ b.at \in 1..Len(toks) + 1
  BY <1>6, Spelled
<1>8. ASSUME NEW p, Filled(form, p, k), \A j \in 1..c : b.val[j] = p[j],
             NEW at, Spells(toks, b.at, at, Words(form, p, k, TRUE))
      PROVE  Spells(toks, 1, at, WordsUpTo(form, p, k))
  <2>1. WordsUpTo(form, p, k) = WordsUpTo(form, p, m) \o Words(form, p, k, TRUE)
    BY <1>2, <1>8, WordsStep
  <2>2. WordsUpTo(form, b.val, m) = WordsUpTo(form, p, m)
    BY <1>3, <1>8, WordsAgree
  <2>. QED
    BY <1>6, <1>8, <2>1, <2>2, SpellsJoin, Zenon
<1>9. CASE form[k].type # "Part"
  <2>1. Is(toks, b.at, form[k]) /\ g = Got(b.val, b.at + 1)
    <3>1. g = IF Is(toks, b.at, form[k]) THEN Got(b.val, b.at + 1) ELSE BadSyntax
      BY <1>5, <1>9, Zenon DEF FormAt
    <3>2. Failed(BadSyntax)
      BY DEF BadSyntax, Got, Failed
    <3>. QED
      BY <1>1, <3>1, <3>2, Zenon
  <2>2. g.val = b.val /\ g.at = b.at + 1
    BY <2>1 DEF Got
  <2>3. PartsUpTo(form, k) = c
    BY <1>4, <1>9
  <2>4. Filled(form, b.val, k)
    BY <1>2, <1>6, <1>9 DEF Filled
  <2>5. k \in 0..n /\ k \in 1..k
    OBVIOUS
  <2>6. IsWord(form[k]) /\ Words(form, b.val, k, TRUE) = <<form[k]>>
    BY <1>9, <2>4, <2>5, WordPiece, Zenon
  <2>7. PICK x : x = form[k]
    OBVIOUS
  <2>8. x = Token(x.type, x.val) /\ x.type # "End"
    BY <2>6, <2>7 DEF IsWord, Proper
  <2>9. b.at \in 1..Len(toks) /\ toks[b.at] = x
    BY <1>7, <2>1, <2>7, <2>8, IsThere
  <2>10. Spells(toks, b.at, b.at + 1, <<x>>)
    BY <1>7, <2>9, SpellsOne
  <2>11. Spells(toks, 1, b.at + 1, WordsUpTo(form, b.val, k))
    BY <1>8, <2>4, <2>6, <2>7, <2>10, Zenon
  <2>. QED
    BY <1>6, <2>1, <2>2, <2>3, <2>4, <2>11, Zenon
<1>10. CASE form[k].type = "Part"
  <2>1. PICK name : name = form[k].val
    OBVIOUS
  <2>2. PICK a : a = ParsePart(name, toks, b.at)
    OBVIOUS
  <2>3. ~ Failed(a) /\ g = Got(Append(b.val, a.val), a.at)
    <3>1. g = IF Failed(a) THEN BadSyntax ELSE Got(Append(b.val, a.val), a.at)
      BY <1>5, <1>10, <2>1, <2>2, Zenon DEF FormAt
    <3>2. Failed(BadSyntax)
      BY DEF BadSyntax, Got, Failed
    <3>. QED
      BY <1>1, <3>1, <3>2, Zenon
  <2>4. name \in PartNames
    <3>1. IsWord(form[k]) \/ IsWhere(form[k]) \/ IsHole(form[k])
      BY Zenon DEF WellFormed
    <3>2. ~ IsWord(form[k])
      BY <1>10 DEF IsWord
    <3>. QED
      BY <2>1, <3>1, <3>2 DEF IsWhere, IsHole, PartNames
  <2>5. PartSound(a, name, toks, b.at)
    BY <1>7, <2>2, <2>4, PartsRead
  <2>6. IsPart(name, a.val) /\ Spells(toks, b.at, a.at, PartText(name, a.val, TRUE))
    BY <2>3, <2>5, Zenon DEF PartSound
  <2>7. PICK p : p = Append(b.val, a.val)
    OBVIOUS
  <2>8. IsUpto(p, c + 1) /\ p[c + 1] = a.val /\ \A j \in 1..c : p[j] = b.val[j]
    <3>1. PICK q : q = b.val
      OBVIOUS
    <3>2. PICK v : v = a.val
      OBVIOUS
    <3>3. c \in Nat /\ IsUpto(q, c)
      BY <1>4, <1>6, <3>1
    <3>4. Extended(Append(q, v), q, v, c)
      BY <3>3, AppendUpto, Zenon
    <3>. QED
      BY <2>7, <3>1, <3>2, <3>4, Zenon DEF Extended
  <2>9. PartsUpTo(form, k) = c + 1
    BY <1>4, <1>10
  <2>10. Filled(form, p, k)
    <3>1. Filled(form, p, m)
      BY <1>3, <1>6, <2>8, WordsAgree
    <3>2. IsPart(form[k].val, p[PartsUpTo(form, k)])
      BY <2>1, <2>6, <2>8, <2>9
    <3>3. \A j \in 1..k : j \in 1..m \/ j = k
      BY <1>2
    <3>. QED
      BY <3>1, <3>2, <3>3, Zenon DEF Filled
  <2>11. Words(form, p, k, TRUE) = PartText(name, a.val, TRUE)
    BY <1>10, <2>1, <2>8, <2>9, Zenon DEF Words
  <2>12. Spells(toks, 1, a.at, WordsUpTo(form, p, k))
    BY <1>8, <2>6, <2>8, <2>10, <2>11, Zenon
  <2>13. g.val = p /\ g.at = a.at
    BY <2>3, <2>7 DEF Got
  <2>. QED
    BY <2>3, <2>7, <2>8, <2>9, <2>10, <2>12, <2>13, Zenon
<1>. QED
  BY <1>9, <1>10

(* All steps together: induction along the sentence.                       *)
LEMMA FormSound ==
  ASSUME NEW toks, IsText(toks), NEW n \in Nat, NEW form, WellFormed(form, n),
         NEW f, Follows(f, form, toks, n)
  PROVE  SoundUpTo(f[n], form, toks, n)
<1>. DEFINE A == {m \in Nat : m <= n => SoundUpTo(f[m], form, toks, m)}
<1>1. 0 \in A
  BY SoundStart DEF Follows
<1>2. ASSUME NEW m \in Nat, m \in A PROVE m + 1 \in A
  <2>1. SUFFICES ASSUME m + 1 <= n PROVE SoundUpTo(f[m + 1], form, toks, m + 1)
    OBVIOUS
  <2>2. m + 1 \in 1..n /\ (m + 1) - 1 = m /\ m <= n
    BY <2>1
  <2>3. f[m + 1] = FormAt(form, toks, m + 1, f[m])
    BY <2>2 DEF Follows
  <2>4. SoundUpTo(f[m], form, toks, (m + 1) - 1)
    BY <1>2, <2>2
  <2>. QED
    BY <2>2, <2>3, <2>4, SoundStep
<1>. HIDE DEF A
<1>3. Nat \subseteq A
  BY <1>1, <1>2, SetInduction
<1>4. n \in A
  BY <1>3
<1>. QED
  BY <1>4 DEF A

----------------------------------------------------------------------------
(* A sentence is read where the text begins with it, if what follows does  *)
(* not continue it.  The places where its words are spelled.               *)
Closed(toks, j) == ~ Is(toks, j, Delim(",")) /\ ~ Is(toks, j, Keyword("and"))
                     /\ ~ Is(toks, j, Keyword("where"))

Placed(pos, form, p, toks, n) ==
  /\ pos[0] = 1
  /\ \A k \in 1..n : Spells(toks, pos[k - 1], pos[k], Words(form, p, k, TRUE))

(* A filled sentence that is spelled has its words at places one after the *)
(* other.                                                                  *)
LEMMA WordsPlaced ==
  ASSUME NEW toks, IsText(toks), NEW n \in Nat, NEW form, WellFormed(form, n),
         NEW p, Filled(form, p, n), NEW at, Spells(toks, 1, at, WordsUpTo(form, p, n))
  PROVE  \E pos : Placed(pos, form, p, toks, n) /\ pos[n] = at
<1>1. PICK pos : pos = [k \in 0..n |-> 1 + Len(WordsUpTo(form, p, k))]
  OBVIOUS
<1>. DEFINE There(k) == /\ Filled(form, p, k) /\ Spells(toks, 1, pos[k], WordsUpTo(form, p, k))
                        /\ k < n => Spells(toks, pos[k], pos[k + 1], Words(form, p, k + 1, TRUE))
            A == {m \in Nat : m <= n => There(n - m)}
<1>2. pos[n] = at /\ n \in 0..n
  <2>1. at = 1 + Len(WordsUpTo(form, p, n))
    <3>1. 1 \in 1..Len(toks) + 1
      BY TextIs
    <3>. QED
      BY <3>1, SpelledTokens
  <2>2. n \in 0..n
    OBVIOUS
  <2>. QED
    BY <1>1, <2>1, <2>2
<1>3. 0 \in A
  <2>1. There(n)
    <3>1. ~ (n < n)
      OBVIOUS
    <3>. QED
      BY <1>2, <3>1, Zenon
  <2>2. n - 0 = n /\ 0 \in Nat
    OBVIOUS
  <2>. HIDE DEF There
  <2>. QED
    BY <2>1, <2>2
<1>4. ASSUME NEW m \in Nat, m \in A PROVE m + 1 \in A
  <2>1. SUFFICES ASSUME m + 1 <= n PROVE There(n - (m + 1))
    <3>1. m + 1 \in Nat
      OBVIOUS
    <3>. HIDE DEF There
    <3>. QED
      BY <3>1, Zenon
  <2>2. PICK k \in 1..n : k = n - m /\ k - 1 = n - (m + 1) /\ k - 1 \in 0..n
    <3>1. n - m \in 1..n /\ (n - m) - 1 = n - (m + 1) /\ (n - m) - 1 \in 0..n
      BY <2>1
    <3>. QED
      BY <3>1
  <2>3. There(k)
    <3>1. m <= n
      BY <2>1
    <3>. HIDE DEF There
    <3>. QED
      BY <1>4, <2>2, <3>1
  <2>4. Filled(form, p, k) /\ Spells(toks, 1, pos[k], WordsUpTo(form, p, k))
    BY <2>3
  <2>5. PICK t : t = WordsUpTo(form, p, k - 1)
    OBVIOUS
  <2>6. PICK u : u = Words(form, p, k, TRUE)
    OBVIOUS
  <2>7. WordsUpTo(form, p, k) = t \o u /\ Piece(t) /\ Piece(u) /\ Filled(form, p, k - 1)
    BY <2>4, <2>5, <2>6, WordsStep, Zenon
  <2>8. PICK S : t \in Seq(S) /\ u \in Seq(S)
    <3>1. PICK P : P = ToSet(t)
      OBVIOUS
    <3>2. PICK Q : Q = ToSet(u)
      OBVIOUS
    <3>3. t \in Seq(P) /\ u \in Seq(Q)
      BY <2>7, <3>1, <3>2 DEF Piece
    <3>4. PICK R : R = P \cup Q
      OBVIOUS
    <3>5. t \in Seq(R) /\ u \in Seq(R)
      BY <3>3, <3>4
    <3>. QED
      BY <3>5
  <2>9. Spells(toks, 1, 1 + Len(t), t) /\ Spells(toks, 1 + Len(t), pos[k], u)
    <3>1. Spells(toks, 1, pos[k], t \o u)
      BY <2>4, <2>7, Zenon
    <3>. QED
      BY <2>8, <3>1, SpellsSplit, Zenon
  <2>10. pos[k - 1] = 1 + Len(t)
    BY <1>1, <2>2, <2>5
  <2>11. (k - 1) + 1 = k
    OBVIOUS
  <2>12. There(k - 1)
    BY <2>5, <2>6, <2>7, <2>9, <2>10, <2>11, Zenon
  <2>. HIDE DEF There
  <2>. QED
    BY <2>2, <2>12
<1>. HIDE DEF A
<1>5. Nat \subseteq A
  BY <1>3, <1>4, SetInduction
<1>6. ASSUME NEW k \in 0..n PROVE There(k)
  <2>1. n - k \in Nat /\ n - k <= n /\ n - (n - k) = k
    BY <1>6
  <2>2. n - k \in A
    BY <1>5, <2>1
  <2>. HIDE DEF There
  <2>. QED
    BY <2>1, <2>2 DEF A
<1>7. ASSUME NEW k \in 1..n PROVE Spells(toks, pos[k - 1], pos[k], Words(form, p, k, TRUE))
  <2>1. k - 1 \in 0..n /\ k - 1 < n /\ (k - 1) + 1 = k
    BY <1>7
  <2>2. There(k - 1)
    BY <1>6, <2>1
  <2>3. Spells(toks, pos[k - 1], pos[(k - 1) + 1], Words(form, p, (k - 1) + 1, TRUE))
    BY <2>1, <2>2
  <2>. QED
    BY <2>1, <2>3
<1>8. pos[0] = 1
  <2>1. Len(<<>>) = 0 /\ 0 \in 0..n
    OBVIOUS
  <2>2. pos[0] = 1 + Len(WordsUpTo(form, p, 0))
    BY <1>1, <2>1
  <2>3. pos[0] = 1 + 0
    BY <2>1, <2>2, WordsNone
  <2>. QED
    BY <2>3
<1>. HIDE DEF There
<1>. QED
  BY <1>2, <1>7, <1>8, Zenon DEF Placed

(* What follows a part does not continue it. *)
LEMMA PartEnds ==
  ASSUME NEW toks, IsText(toks), NEW n \in Nat, NEW form, WellFormed(form, n),
         NEW p, Filled(form, p, n), NEW pos, Placed(pos, form, p, toks, n), Closed(toks, pos[n]),
         NEW k \in 1..n, form[k].type = "Part"
  PROVE  Ends(form[k].val, toks, pos[k])
<1>1. CASE IsWhere(form[k]) /\ k = n
  BY <1>1 DEF IsWhere, Ends, Closed
<1>2. CASE /\ IsHole(form[k]) /\ k < n
           /\ IsWord(form[k + 1]) \/ IsWhere(form[k + 1])
  <2>1. SUFFICES ~ Is(toks, pos[k], Delim(","))
    BY <1>2 DEF IsHole, Ends
  <2>2. PICK l \in 1..n : l = k + 1 /\ l - 1 = k
    BY <1>2
  <2>3. Spells(toks, pos[k], pos[l], Words(form, p, l, TRUE))
    BY <2>2 DEF Placed
  <2>11. PICK i : i = pos[k]
    OBVIOUS
  <2>12. PICK w : w = Words(form, p, l, TRUE)
    OBVIOUS
  <2>13. PICK j : j = pos[l]
    OBVIOUS
  <2>14. Spells(toks, i, j, w)
    BY <2>3, <2>11, <2>12, <2>13, Zenon
  <2>4. i \in Nat \ {0} /\ i \in 1..Len(toks) + 1
    BY <2>14, Spelled
  <2>5. n \in 0..n
    OBVIOUS
  <2>6. PICK comma : comma = Delim(",")
    OBVIOUS
  <2>7. comma = Token(comma.type, comma.val) /\ comma.type # "End"
    BY <2>6 DEF Delim, Token
  <2>8. ASSUME NEW x, x # comma, i \in 1..Len(toks), toks[i] = x
        PROVE  ~ Is(toks, i, comma)
    BY <2>4, <2>7, <2>8, IsThere
  <2>9. CASE IsWord(form[l])
    <3>1. form[l].type # "Part" /\ form[l] # Delim(",")
      BY <2>9 DEF IsWord
    <3>2. PICK x : x = form[l]
      OBVIOUS
    <3>3. w = <<x>>
      BY <2>5, <2>12, <3>1, <3>2, WordPiece, Zenon
    <3>5. Spells(toks, i, j, <<x>>)
      BY <2>14, <3>3, Zenon
    <3>4. i \in 1..Len(toks) /\ toks[i] = x
      BY <2>4, <3>5, SpellsOne
    <3>. QED
      BY <2>6, <2>8, <2>11, <3>1, <3>2, <3>4
  <2>10. CASE IsWhere(form[l])
    <3>1. form[l].type = "Part" /\ form[l].val = "where" /\ ~ IsWord(form[l])
      BY <2>10 DEF IsWhere, IsWord
    <3>2. l = n
      <4>1. ~ IsHole(form[l])
        BY <3>1 DEF IsHole
      <4>. QED
        BY <3>1, <4>1, Zenon DEF WellFormed
    <3>3. PICK v : v = p[PartsUpTo(form, l)]
      OBVIOUS
    <3>4. IsPart("where", v) /\ Words(form, p, l, TRUE) = PartText("where", v, TRUE)
      BY <2>5, <3>1, <3>3, WordPiece, Zenon
    <3>5. CASE v = <<>>
      <4>1. PartText("where", v, TRUE) = <<>>
        BY <3>5, Zenon DEF PartText
      <4>2. Spells(toks, i, j, <<>>)
        BY <2>12, <2>14, <3>4, <4>1, Zenon
      <4>3. j = i
        BY <2>4, <4>2, SpellsNone
      <4>. QED
        BY <2>11, <2>13, <3>2, <4>3 DEF Closed
    <3>6. CASE v # <<>>
      <4>1. PICK S : S = {t.lhs : t \in ToSet(v)} \cup {t.rhs : t \in ToSet(v)}
        OBVIOUS
      <4>2. v \in Seq(Terms(S))
        BY <3>4, <4>1, SetOfTerms, Zenon
      <4>3. PICK kw : kw = Keyword("where")
        OBVIOUS
      <4>4. PICK u : u = Joined(TermTexts(S), v, Keyword("and"))
        OBVIOUS
      <4>5. PartText("where", v, TRUE) = <<kw>> \o u
        BY <3>6, <4>2, <4>3, <4>4, WherePartText, Zenon
      <4>7. w = <<kw>> \o u
        BY <2>12, <3>4, <4>5, Zenon
      <4>8. u \in Seq(S \cup {Keyword("and"), Delim("=")})
        <5>1. PICK B : B = S \cup {Keyword("and"), Delim("=")}
          OBVIOUS
        <5>2. TextsOver(TermTexts(S), Terms(S), B)
          <6>1. SUFFICES ASSUME NEW x \in Terms(S) PROVE TermTexts(S)[x] \in Seq(B)
            BY DEF TextsOver
          <6>2. TermTexts(S)[x] = <<x.lhs, Delim("="), x.rhs>> /\ x.lhs \in S /\ x.rhs \in S
            BY TermTextIs DEF Expressions
          <6>3. {x.lhs, Delim("="), x.rhs} \subseteq B
            BY <5>1, <6>2
          <6>4. <<x.lhs, Delim("="), x.rhs>> \in Seq(B)
            BY <6>3
          <6>. QED
            BY <6>2, <6>4, Zenon
        <5>3. v[1] \in Terms(S) /\ Keyword("and") \in B
          BY <3>6, <4>2, <5>1
        <5>4. u \in Seq(B)
          BY <3>6, <4>2, <4>4, <5>2, <5>3, JoinTextMore, Zenon
        <5>. QED
          BY <5>1, <5>4
      <4>9. w[1] = kw /\ Len(w) \in Nat /\ Len(w) >= 1
        <5>1. PICK B : B = S \cup {Keyword("and"), Delim("=")} \cup {kw}
          OBVIOUS
        <5>2. PICK C : C = S \cup {Keyword("and"), Delim("=")}
          OBVIOUS
        <5>3. u \in Seq(C) /\ C \subseteq B /\ kw \in B
          BY <4>8, <5>1, <5>2
        <5>4. u \in Seq(B)
          BY <5>3
        <5>. QED
          BY <4>7, <5>3, <5>4
      <4>11. /\ j = i + Len(w) /\ j <= Len(toks) + 1
             /\ \A m \in 1..Len(w) : toks[i + m - 1] = w[m]
        BY <2>4, <2>14, SpelledTokens
      <4>12. i \in 1..Len(toks) /\ toks[i] = kw
        <5>1. 1 \in 1..Len(w) /\ i + 1 - 1 = i /\ Len(toks) \in Nat
          BY <2>4, <4>9, TextIs
        <5>2. toks[i] = kw
          BY <4>9, <4>11, <5>1
        <5>. QED
          BY <2>4, <4>9, <4>11, <5>1, <5>2
      <4>13. kw # comma
        BY <2>6, <4>3 DEF Keyword, Delim, Token
      <4>. QED
        BY <2>6, <2>8, <2>11, <4>12, <4>13
    <3>. QED
      BY <3>5, <3>6
  <2>. QED
    BY <1>2, <2>2, <2>9, <2>10
<1>3. ~ IsWord(form[k])
  BY DEF IsWord
<1>. QED
  BY <1>1, <1>2, <1>3, Zenon DEF WellFormed

(* The words up to k have been read as what they say. *)
Reached(b, form, p, k, at) == b = Got(Upto(p, PartsUpTo(form, k)), at)

(* Each step reads the word that is spelled there.                         *)
LEMMA CompleteStep ==
  ASSUME NEW toks, IsText(toks), NEW n \in Nat, NEW form, WellFormed(form, n),
         NEW p, Filled(form, p, n), NEW pos, Placed(pos, form, p, toks, n), Closed(toks, pos[n]),
         NEW k \in 1..n, NEW b, Reached(b, form, p, k - 1, pos[k - 1])
  PROVE  Reached(FormAt(form, toks, k, b), form, p, k, pos[k])
<1>. SUFFICES FormAt(form, toks, k, b) = Got(Upto(p, PartsUpTo(form, k)), pos[k])
  BY Zenon DEF Reached
<1>0. b = Got(Upto(p, PartsUpTo(form, k - 1)), pos[k - 1])
  BY DEF Reached
<1>1. PICK i : i = pos[k - 1]
  OBVIOUS
<1>2. PICK j : j = pos[k]
  OBVIOUS
<1>3. PICK w : w = Words(form, p, k, TRUE)
  OBVIOUS
<1>4. Spells(toks, i, j, w)
  BY <1>1, <1>2, <1>3, Zenon DEF Placed
<1>5. i \in Nat \ {0} /\ i \in 1..Len(toks) + 1
  BY <1>4, Spelled
<1>6. PICK c : c = PartsUpTo(form, k - 1)
  OBVIOUS
<1>7. c \in Nat /\ PartsUpTo(form, k) = c + IF form[k].type = "Part" THEN 1 ELSE 0
  <2>1. k \in Nat \ {0} /\ k - 1 \in Nat
    OBVIOUS
  <2>. QED
    BY <1>6, <2>1, PartsCount
<1>8. b.val = Upto(p, c) /\ b.at = i /\ ~ Failed(b)
  BY <1>0, <1>1, <1>5, <1>6 DEF Got, Failed
<1>9. n \in 0..n
  OBVIOUS
<1>10. CASE form[k].type # "Part"
  <2>1. PICK x : x = form[k]
    OBVIOUS
  <2>2. IsWord(x) /\ w = <<x>>
    BY <1>3, <1>9, <1>10, <2>1, WordPiece, Zenon
  <2>3. Spells(toks, i, j, <<x>>)
    BY <1>4, <2>2, Zenon
  <2>4. j = i + 1 /\ i \in 1..Len(toks) /\ toks[i] = x
    BY <1>5, <2>3, SpellsOne
  <2>5. x = Token(x.type, x.val) /\ x.type # "End"
    BY <2>2 DEF IsWord, Proper
  <2>6. Is(toks, i, x)
    BY <1>5, <2>4, <2>5, IsThere
  <2>7. FormAt(form, toks, k, b) = Got(b.val, b.at + 1)
    BY <1>8, <1>10, <2>1, <2>6, Zenon DEF FormAt
  <2>8. PartsUpTo(form, k) = c
    BY <1>7, <1>10
  <2>. QED
    BY <1>2, <1>8, <2>4, <2>7, <2>8, Zenon
<1>11. CASE form[k].type = "Part"
  <2>1. PICK name : name = form[k].val
    OBVIOUS
  <2>2. PartsUpTo(form, k) = c + 1
    BY <1>7, <1>11
  <2>3. PICK v : v = p[c + 1]
    OBVIOUS
  <2>4. name \in PartNames /\ IsPart(name, v) /\ w = PartText(name, v, TRUE)
    BY <1>3, <1>9, <1>11, <2>1, <2>2, <2>3, WordPiece, ZenonT(30)
  <2>5. Ends(name, toks, j)
    BY <1>2, <1>11, <2>1, PartEnds, Zenon
  <2>6. PartComplete(ParsePart(name, toks, i), name, toks, i)
    BY <1>5, <2>4, PartsRead
  <2>7. ParsePart(name, toks, i) = Got(v, j)
    BY <1>4, <2>4, <2>5, <2>6, Zenon DEF PartComplete
  <2>8. Got(v, j).val = v /\ Got(v, j).at = j /\ ~ Failed(Got(v, j))
    <3>1. j \in Nat \ {0}
      BY <1>4, Spelled
    <3>. QED
      BY <3>1 DEF Got, Failed
  <2>9. FormAt(form, toks, k, b) = Got(Append(b.val, v), j)
    <3>1. PICK g : g = Got(v, j)
      OBVIOUS
    <3>2. ParsePart(form[k].val, toks, b.at) = g /\ g.val = v /\ g.at = j /\ ~ Failed(g)
      BY <1>8, <2>1, <2>7, <2>8, <3>1, Zenon
    <3>. QED
      BY <1>8, <1>11, <3>2, Zenon DEF FormAt
  <2>10. Append(Upto(p, c), v) = Upto(p, c + 1)
    BY <1>7, <2>3, UptoAppend, Zenon
  <2>. QED
    BY <1>2, <1>8, <2>2, <2>9, <2>10, Zenon
<1>. QED
  BY <1>10, <1>11

(* All steps together: induction along the sentence.                       *)
LEMMA FormComplete ==
  ASSUME NEW toks, IsText(toks), NEW n \in Nat, NEW form, WellFormed(form, n),
         NEW f, Follows(f, form, toks, n), NEW p, Filled(form, p, n),
         NEW at, Spells(toks, 1, at, WordsUpTo(form, p, n)), Closed(toks, at)
  PROVE  Reached(f[n], form, p, n, at)
<1>1. PICK pos : Placed(pos, form, p, toks, n) /\ pos[n] = at
  BY WordsPlaced
<1>. DEFINE P(m) == Reached(f[m], form, p, m, pos[m])
            A == {m \in Nat : m <= n => P(m)}
<1>2. 0 \in A
  <2>1. Upto(p, 0) = <<>>
    BY DEF Upto
  <2>2. PartsUpTo(form, 0) = 0
    BY PartsCount
  <2>3. f[0] = Got(<<>>, 1) /\ pos[0] = 1
    BY <1>1 DEF Follows, Placed
  <2>4. P(0)
    BY <2>1, <2>2, <2>3, Zenon DEF Reached
  <2>. HIDE DEF P
  <2>. QED
    BY <2>4
<1>3. ASSUME NEW m \in Nat, m \in A PROVE m + 1 \in A
  <2>1. SUFFICES ASSUME m + 1 <= n PROVE P(m + 1)
    <3>. HIDE DEF P
    <3>. QED
      OBVIOUS
  <2>2. PICK k \in 1..n : k = m + 1 /\ k - 1 = m
    BY <2>1
  <2>3. P(m)
    <3>1. m <= n
      BY <2>1
    <3>. HIDE DEF P
    <3>. QED
      BY <1>3, <3>1
  <2>4. f[k] = FormAt(form, toks, k, f[k - 1])
    BY DEF Follows
  <2>5. Reached(f[k - 1], form, p, k - 1, pos[k - 1])
    BY <2>2, <2>3
  <2>6. Closed(toks, pos[n])
    BY <1>1
  <2>7. Reached(FormAt(form, toks, k, f[k - 1]), form, p, k, pos[k])
    BY <1>1, <2>5, <2>6, CompleteStep, Zenon
  <2>. QED
    BY <2>2, <2>4, <2>7
<1>. HIDE DEF A
<1>4. Nat \subseteq A
  BY <1>2, <1>3, SetInduction
<1>5. n \in A
  BY <1>4
<1>6. P(n)
  <2>. HIDE DEF P
  <2>. QED
    BY <1>5 DEF A
<1>. QED
  BY <1>1, <1>6

----------------------------------------------------------------------------
(* A statement is its sentence with its parts filled in. *)
LEMMA StatementIs ==
  ASSUME NEW s, IsStatement(s)
  PROVE  /\ s = Statement(s.kind, s.parts) /\ s.kind \in DOMAIN Form
         /\ \E n \in Nat :
               /\ n > 1 /\ WellFormed(Form[s.kind], n) /\ Len(Form[s.kind]) = n
               /\ IsUpto(s.parts, PartsUpTo(Form[s.kind], n))
               /\ Filled(Form[s.kind], s.parts, n)
               /\ Written(s) = WordsUpTo(Form[s.kind], s.parts, n)
<1>1. s = Statement(s.kind, s.parts) /\ s.kind \in DOMAIN Form
  BY Zenon DEF IsStatement
<1>2. PICK form : form = Form[s.kind]
  OBVIOUS
<1>3. PICK n \in Nat : n > 1 /\ Len(form) = n /\ WellFormed(form, n)
  BY <1>1, <1>2, FormsWellFormed
<1>4. DOMAIN form = 1..n
  <2>1. form = [k \in 1..n |-> form[k]]
    BY <1>3, Zenon DEF WellFormed
  <2>. QED
    BY <2>1
<1>5. /\ s.parts = [j \in 1..PartsUpTo(form, Len(form)) |-> s.parts[j]]
      /\ \A k \in DOMAIN form : form[k].type = "Part" =>
            IsPart(form[k].val, s.parts[PartsUpTo(form, k)])
  BY <1>2, Zenon DEF IsStatement
<1>6. IsUpto(s.parts, PartsUpTo(form, n))
  BY <1>3, <1>5, Zenon DEF IsUpto, Upto
<1>7. Filled(form, s.parts, n)
  BY <1>4, <1>5, Zenon DEF Filled
<1>8. Written(s) = WordsUpTo(form, s.parts, n)
  <2>1. Written(s) = FlattenSeq([k \in DOMAIN form |-> Words(form, s.parts, k, TRUE)])
    BY <1>2, Zenon DEF Written, TextOf
  <2>. QED
    BY <1>4, <2>1, Zenon DEF WordsUpTo
<1>. QED
  BY <1>1, <1>2, <1>3, <1>6, <1>7, <1>8, Zenon

(* What a client writes is what a lexer returns. *)
LEMMA WrittenPiece ==
  ASSUME NEW s, IsStatement(s)
  PROVE  Piece(Written(s)) /\ IsText(Written(s))
<1>1. PICK n \in Nat : /\ n > 1 /\ WellFormed(Form[s.kind], n)
                       /\ Filled(Form[s.kind], s.parts, n)
                       /\ Written(s) = WordsUpTo(Form[s.kind], s.parts, n)
  BY StatementIs
<1>2. n \in 0..n
  OBVIOUS
<1>3. Piece(Written(s))
  BY <1>1, <1>2, WordsPiece, Zenon
<1>. QED
  BY <1>3, PieceIsText

(* The parser accepts a text only for a statement the text begins with. *)
LEMMA ParseSound ==
  ASSUME NEW kind \in DOMAIN Form, NEW toks, IsText(toks),
         NEW s, s = ParseAs(kind, toks), s # NoStatement
  PROVE  s.kind = kind /\ IsStatement(s) /\ \E at : Spells(toks, 1, at, Written(s))
<1>1. PICK form : form = Form[kind]
  OBVIOUS
<1>2. PICK n \in Nat : n > 1 /\ Len(form) = n /\ WellFormed(form, n)
  BY <1>1, FormsWellFormed
<1>3. PICK f : Follows(f, form, toks, n) /\ ParseForm(kind, toks) = f[n]
  <2>1. Len(Form[kind]) = n
    BY <1>1, <1>2
  <2>2. \E f : /\ f[0] = Got(<<>>, 1)
               /\ \A k \in 1..n : f[k] = FormAt(Form[kind], toks, k, f[k - 1])
               /\ ParseForm(kind, toks) = f[n]
    BY <2>1, ParsedForm, SMTT(20)
  <2>. QED
    BY <1>1, <2>2, Zenon DEF Follows
<1>4. PICK g : g = f[n]
  OBVIOUS
<1>5. ~ Failed(g) /\ s = Statement(kind, g.val)
  BY <1>3, <1>4, Zenon DEF ParseAs
<1>6. SoundUpTo(g, form, toks, n)
  BY <1>2, <1>3, <1>4, FormSound, Zenon
<1>7. /\ IsUpto(g.val, PartsUpTo(form, n)) /\ Filled(form, g.val, n)
      /\ Spells(toks, 1, g.at, WordsUpTo(form, g.val, n))
  BY <1>5, <1>6, Zenon DEF SoundUpTo
<1>8. s.kind = kind /\ s.parts = g.val
  BY <1>5 DEF Statement
<1>9. DOMAIN form = 1..n
  <2>1. form = [k \in 1..n |-> form[k]]
    BY <1>2, Zenon DEF WellFormed
  <2>. QED
    BY <2>1
<1>10. IsStatement(s)
  <2>1. s = Statement(s.kind, s.parts) /\ s.kind \in DOMAIN Form
    BY <1>5, <1>8
  <2>2. s.parts = [j \in 1..PartsUpTo(form, Len(form)) |-> s.parts[j]]
    BY <1>2, <1>7, <1>8, Zenon DEF IsUpto, Upto
  <2>3. \A k \in DOMAIN form : form[k].type = "Part" =>
            IsPart(form[k].val, s.parts[PartsUpTo(form, k)])
    BY <1>7, <1>8, <1>9, Zenon DEF Filled
  <2>. QED
    BY <1>1, <1>8, <2>1, <2>2, <2>3, Zenon DEF IsStatement
<1>11. Written(s) = WordsUpTo(form, g.val, n)
  <2>1. Written(s) = FlattenSeq([k \in DOMAIN form |-> Words(form, s.parts, k, TRUE)])
    BY <1>1, <1>8, Zenon DEF Written, TextOf
  <2>. QED
    BY <1>8, <1>9, <2>1, Zenon DEF WordsUpTo
<1>. QED
  BY <1>7, <1>8, <1>10, <1>11, Zenon

(* It reads every statement as what it says, unless what follows it goes   *)
(* on with a list or a predicate.                                          *)
LEMMA ParseComplete ==
  ASSUME NEW toks, IsText(toks), NEW s, IsStatement(s),
         NEW at, Spells(toks, 1, at, Written(s)), Closed(toks, at)
  PROVE  ParseAs(s.kind, toks) = s
<1>1. s = Statement(s.kind, s.parts) /\ s.kind \in DOMAIN Form
  BY StatementIs
<1>2. PICK form : form = Form[s.kind]
  OBVIOUS
<1>3. PICK n \in Nat : /\ n > 1 /\ WellFormed(form, n) /\ Len(form) = n
                       /\ IsUpto(s.parts, PartsUpTo(form, n))
                       /\ Filled(form, s.parts, n)
                       /\ Written(s) = WordsUpTo(form, s.parts, n)
  BY <1>2, StatementIs
<1>4. PICK f : Follows(f, form, toks, n) /\ ParseForm(s.kind, toks) = f[n]
  <2>1. Len(Form[s.kind]) = n
    BY <1>2, <1>3
  <2>2. \E f : /\ f[0] = Got(<<>>, 1)
               /\ \A k \in 1..n : f[k] = FormAt(Form[s.kind], toks, k, f[k - 1])
               /\ ParseForm(s.kind, toks) = f[n]
    BY <2>1, ParsedForm
  <2>. QED
    BY <1>2, <2>2, Zenon DEF Follows
<1>5. Spells(toks, 1, at, WordsUpTo(form, s.parts, n))
  BY <1>3, Zenon
<1>6. Reached(f[n], form, s.parts, n, at)
  BY <1>3, <1>4, <1>5, FormComplete, Zenon
<1>7. f[n] = Got(s.parts, at)
  BY <1>3, <1>6, Zenon DEF IsUpto, Reached
<1>8. at # 0
  BY <1>5, Spelled
<1>9. ~ Failed(f[n]) /\ f[n].val = s.parts
  BY <1>7, <1>8 DEF Got, Failed
<1>10. ParseAs(s.kind, toks) = Statement(s.kind, f[n].val)
  <2>1. PICK g : g = ParseForm(s.kind, toks)
    OBVIOUS
  <2>2. ~ Failed(g)
    BY <1>4, <1>9, <2>1, Zenon
  <2>3. ParseAs(s.kind, toks) = Statement(s.kind, g.val)
    BY <2>1, <2>2, Zenon DEF ParseAs
  <2>. QED
    BY <1>4, <2>1, <2>3, Zenon
<1>. QED
  BY <1>1, <1>9, <1>10, Zenon

----------------------------------------------------------------------------
(* The parts of the statements that reach the catalogs. *)
LEMMA TableParts ==
  ASSUME NEW s, IsStatement(s), s.kind = "create_table"
  PROVE  s.parts[1] \in STRING /\ s.parts[2] \in Declarations
<1>1. PICK form : form = Form["create_table"]
  OBVIOUS
<1>2. PICK n \in Nat : Len(form) = n /\ Filled(form, s.parts, n)
  BY <1>1, StatementIs
<1>3. form = <<Keyword("create"), Keyword("table"), Part("id"), Delim("("), Part("fields"),
               Delim(")")>>
  BY <1>1 DEF Form
<1>4. /\ Len(form) = 6
      /\ form[1].type # "Part" /\ form[2].type # "Part" /\ form[4].type # "Part"
      /\ form[3].type = "Part" /\ form[3].val = "id"
      /\ form[5].type = "Part" /\ form[5].val = "fields"
  BY <1>3 DEF Keyword, Delim, Part, Token
<1>5. /\ PartsUpTo(form, 0) = 0
      /\ PartsUpTo(form, 1) = PartsUpTo(form, 0) /\ PartsUpTo(form, 2) = PartsUpTo(form, 1)
      /\ PartsUpTo(form, 3) = PartsUpTo(form, 2) + 1 /\ PartsUpTo(form, 4) = PartsUpTo(form, 3)
      /\ PartsUpTo(form, 5) = PartsUpTo(form, 4) + 1
  <2>1. ASSUME NEW k \in 1..5
        PROVE  PartsUpTo(form, k) = PartsUpTo(form, k - 1) + IF form[k].type = "Part" THEN 1 ELSE 0
    BY PartsCount
  <2>2. ASSUME NEW k \in 0..5 PROVE PartsUpTo(form, k) \in Nat
    <3>1. k \in Nat
      OBVIOUS
    <3>. QED
      BY <3>1, PartsCount
  <2>. QED
    BY <1>4, <2>1, <2>2, PartsCount
<1>6. PartsUpTo(form, 3) = 1 /\ PartsUpTo(form, 5) = 2
  BY <1>5
<1>7. IsPart("id", s.parts[1]) /\ IsPart("fields", s.parts[2])
  <2>1. 3 \in 1..n /\ 5 \in 1..n
    BY <1>2, <1>4
  <2>. QED
    BY <1>2, <1>4, <1>6, <2>1, Zenon DEF Filled
<1>. QED
  BY <1>7 DEF IsPart

(* Where the parts of a query are.                                         *)
LEMMA QueryParts ==
  /\ Len(QueryForm) = 5 /\ DOMAIN QueryForm = 1..5
  /\ QueryForm[1].type # "Part" /\ QueryForm[3].type # "Part"
  /\ PartsUpTo(QueryForm, 1) = 0 /\ PartsUpTo(QueryForm, 3) = 1
  /\ \A k \in {2, 4} : QueryForm[k].type = "Part" /\ QueryForm[k].val = "ids"
  /\ QueryForm[5].type = "Part" /\ QueryForm[5].val = "where"
  /\ PartsUpTo(QueryForm, 2) = 1 /\ PartsUpTo(QueryForm, 4) = 2 /\ PartsUpTo(QueryForm, 5) = 3
<1>1. PICK query : query = QueryForm
  OBVIOUS
<1>2. /\ Len(query) = 5 /\ DOMAIN query = 1..5
      /\ query[1].type # "Part" /\ query[2].type = "Part" /\ query[3].type # "Part"
      /\ query[4].type = "Part" /\ query[5].type = "Part"
      /\ query[2].val = "ids" /\ query[4].val = "ids" /\ query[5].val = "where"
  BY <1>1 DEF QueryForm, Keyword, Part, Token
<1>3. ASSUME NEW k \in 1..5
      PROVE  PartsUpTo(query, k) = PartsUpTo(query, k - 1) + IF query[k].type = "Part" THEN 1 ELSE 0
  BY PartsCount
<1>4. ASSUME NEW k \in 0..5 PROVE PartsUpTo(query, k) \in Nat
  <2>1. k \in Nat
    OBVIOUS
  <2>. QED
    BY <2>1, PartsCount
<1>5. /\ PartsUpTo(query, 0) = 0 /\ PartsUpTo(query, 1) = PartsUpTo(query, 0)
      /\ PartsUpTo(query, 2) = PartsUpTo(query, 1) + 1
      /\ PartsUpTo(query, 3) = PartsUpTo(query, 2)
      /\ PartsUpTo(query, 4) = PartsUpTo(query, 3) + 1
      /\ PartsUpTo(query, 5) = PartsUpTo(query, 4) + 1
  BY <1>2, <1>3, <1>4, PartsCount
<1>6. /\ PartsUpTo(query, 1) = 0 /\ PartsUpTo(query, 3) = 1
      /\ PartsUpTo(query, 2) = 1 /\ PartsUpTo(query, 4) = 2 /\ PartsUpTo(query, 5) = 3
  BY <1>5
<1>. QED
  BY <1>1, <1>2, <1>6

(* A CREATE VIEW that is a statement contains a query that is one.         *)
LEMMA ViewParts ==
  ASSUME NEW s, IsStatement(s), s.kind = "create_view"
  PROVE  s.parts[1] \in STRING /\ IsStatement(Statement("query", Tail(s.parts)))
<1>1. PICK form : form = Form["create_view"]
  OBVIOUS
<1>2. PICK n \in Nat : /\ Len(form) = n /\ Filled(form, s.parts, n)
                       /\ IsUpto(s.parts, PartsUpTo(form, n))
  BY <1>1, StatementIs
<1>3. PICK query : query = QueryForm
  OBVIOUS
<1>4. /\ Len(query) = 5 /\ DOMAIN query = 1..5
      /\ query[1].type # "Part" /\ query[2].type = "Part" /\ query[3].type # "Part"
      /\ query[4].type = "Part" /\ query[5].type = "Part"
  BY <1>3, QueryParts
<1>5. /\ Len(form) = 9
      /\ form[1].type # "Part" /\ form[2].type # "Part" /\ form[4].type # "Part"
      /\ form[3].type = "Part" /\ form[3].val = "id"
      /\ \A k \in 1..5 : form[k + 4] = query[k]
  <2>1. PICK head : head = <<Keyword("create"), Keyword("view"), Part("id"), Keyword("as")>>
    OBVIOUS
  <2>2. form = head \o query
    BY <1>1, <1>3, <2>1 DEF Form
  <2>3. PICK T : T = {Keyword("create"), Keyword("view"), Part("id"), Keyword("as"),
                      Keyword("select"), Part("ids"), Keyword("from"), Part("where")}
    OBVIOUS
  <2>4. head \in Seq(T) /\ Len(head) = 4
    BY <2>1, <2>3
  <2>5. query \in Seq(T)
    BY <1>3, <2>3 DEF QueryForm
  <2>6. /\ Len(form) = 9 /\ \A k \in 1..4 : form[k] = head[k]
        /\ \A k \in 1..5 : form[k + 4] = query[k]
    <3>1. form = <<head[1], head[2], head[3], head[4],
                   query[1], query[2], query[3], query[4], query[5]>>
      BY <1>4, <2>2, <2>4, <2>5, FourAndFive
    <3>. QED
      BY <3>1
  <2>7. /\ head[1].type # "Part" /\ head[2].type # "Part" /\ head[4].type # "Part"
        /\ head[3].type = "Part" /\ head[3].val = "id"
    BY <2>1 DEF Keyword, Part, Token
  <2>. QED
    BY <2>6, <2>7
<1>6. /\ PartsUpTo(form, 3) = 1 /\ PartsUpTo(form, 4) = 1
      /\ \A k \in 1..5 : PartsUpTo(form, k + 4) =
                         PartsUpTo(form, k + 3) + IF query[k].type = "Part" THEN 1 ELSE 0
  <2>1. ASSUME NEW k \in 1..9
        PROVE  PartsUpTo(form, k) = PartsUpTo(form, k - 1) + IF form[k].type = "Part" THEN 1 ELSE 0
    BY PartsCount
  <2>2. ASSUME NEW k \in 0..9 PROVE PartsUpTo(form, k) \in Nat
    <3>1. k \in Nat
      OBVIOUS
    <3>. QED
      BY <3>1, PartsCount
  <2>3. /\ PartsUpTo(form, 0) = 0
        /\ PartsUpTo(form, 1) = PartsUpTo(form, 0) /\ PartsUpTo(form, 2) = PartsUpTo(form, 1)
        /\ PartsUpTo(form, 3) = PartsUpTo(form, 2) + 1 /\ PartsUpTo(form, 4) = PartsUpTo(form, 3)
    BY <1>5, <2>1, <2>2, PartsCount
  <2>4. PartsUpTo(form, 3) = 1 /\ PartsUpTo(form, 4) = 1
    BY <2>3
  <2>5. ASSUME NEW k \in 1..5
        PROVE  PartsUpTo(form, k + 4) =
                  PartsUpTo(form, k + 3) + IF query[k].type = "Part" THEN 1 ELSE 0
    <3>1. k + 4 \in 1..9 /\ (k + 4) - 1 = k + 3 /\ form[k + 4] = query[k]
      BY <1>5
    <3>. QED
      BY <2>1, <3>1
  <2>. QED
    BY <2>4, <2>5
<1>7. /\ PartsUpTo(query, 1) = 0 /\ PartsUpTo(query, 2) = 1 /\ PartsUpTo(query, 3) = 1
      /\ PartsUpTo(query, 4) = 2 /\ PartsUpTo(query, 5) = 3
  BY <1>3, QueryParts
<1>8. /\ PartsUpTo(form, 5) = 1 /\ PartsUpTo(form, 6) = 2 /\ PartsUpTo(form, 7) = 2
      /\ PartsUpTo(form, 8) = 3 /\ PartsUpTo(form, 9) = 4
  <2>1. /\ PartsUpTo(form, 5) = PartsUpTo(form, 4) /\ PartsUpTo(form, 6) = PartsUpTo(form, 5) + 1
        /\ PartsUpTo(form, 7) = PartsUpTo(form, 6)
        /\ PartsUpTo(form, 8) = PartsUpTo(form, 7) + 1
        /\ PartsUpTo(form, 9) = PartsUpTo(form, 8) + 1
    <3>1. /\ PartsUpTo(form, 1 + 4) = PartsUpTo(form, 1 + 3)
          /\ PartsUpTo(form, 2 + 4) = PartsUpTo(form, 2 + 3) + 1
          /\ PartsUpTo(form, 4 + 4) = PartsUpTo(form, 4 + 3) + 1
          /\ PartsUpTo(form, 5 + 4) = PartsUpTo(form, 5 + 3) + 1
      BY <1>4, <1>6
    <3>2. PartsUpTo(form, 7) = PartsUpTo(form, 6) + 0
      BY <1>4, <1>6
    <3>3. PartsUpTo(form, 6) \in Nat
      BY PartsCount
    <3>. QED
      BY <1>6, <3>1, <3>2, <3>3
  <2>. QED
    BY <1>6, <2>1
<1>9. \A k \in {2, 4, 5} : PartsUpTo(form, k + 4) = PartsUpTo(query, k) + 1
  BY <1>7, <1>8
<1>10. s.parts \in Seq({s.parts[j] : j \in 1..4}) /\ Len(s.parts) = 4
  <2>1. s.parts = [j \in 1..4 |-> s.parts[j]]
    BY <1>2, <1>5, <1>8 DEF IsUpto, Upto
  <2>. QED
    BY <2>1, SeqIf
<1>11. PICK p : p = Tail(s.parts)
  OBVIOUS
<1>12. p = [j \in 1..3 |-> s.parts[j + 1]]
  BY <1>10, <1>11
<1>13. p[1] = s.parts[2] /\ p[2] = s.parts[3] /\ p[3] = s.parts[4]
  BY <1>12
<1>14. PICK q : q = Statement("query", p)
  OBVIOUS
<1>15. q.kind = "query" /\ q.parts = p /\ q = Statement(q.kind, q.parts)
  BY <1>14 DEF Statement
<1>16. Form[q.kind] = query /\ q.kind \in DOMAIN Form
  BY <1>3, <1>15 DEF Form
<1>17. q.parts = [j \in 1..PartsUpTo(query, Len(query)) |-> q.parts[j]]
  BY <1>4, <1>7, <1>12, <1>15
<1>18. ASSUME NEW k \in DOMAIN query, query[k].type = "Part"
       PROVE  IsPart(query[k].val, q.parts[PartsUpTo(query, k)])
  <2>1. k \in {2, 4, 5}
    BY <1>4, <1>18
  <2>2. PICK m : m = k + 4
    OBVIOUS
  <2>3. m \in 1..n /\ form[m] = query[k] /\ PartsUpTo(form, m) = PartsUpTo(query, k) + 1
    BY <1>2, <1>5, <1>9, <2>1, <2>2
  <2>4. IsPart(form[m].val, s.parts[PartsUpTo(form, m)])
    BY <1>2, <1>18, <2>3, Zenon DEF Filled
  <2>5. q.parts[PartsUpTo(query, k)] = s.parts[PartsUpTo(query, k) + 1]
    BY <1>7, <1>13, <1>15, <2>1
  <2>. QED
    BY <2>3, <2>4, <2>5
<1>19. IsStatement(q)
  BY <1>15, <1>16, <1>17, <1>18, Zenon DEF IsStatement
<1>20. IsPart("id", s.parts[1])
  <2>1. 3 \in 1..n
    BY <1>2, <1>5
  <2>. QED
    BY <1>2, <1>5, <1>6, <2>1, Zenon DEF Filled
<1>21. s.parts[1] \in STRING
  BY <1>20 DEF IsPart
<1>. QED
  BY <1>11, <1>14, <1>19, <1>21

----------------------------------------------------------------------------
(* The first words of a sentence are the first tokens of its text. *)
LEMMA FirstWords ==
  ASSUME NEW toks, IsText(toks), NEW s, IsStatement(s), NEW at, Spells(toks, 1, at, Written(s))
  PROVE  LET form == Form[s.kind]
         IN  form[1].type # "Part" =>
                /\ Is(toks, 1, form[1])
                /\ form[2].type # "Part" => Is(toks, 2, form[2])
<1>1. PICK form : form = Form[s.kind]
  OBVIOUS
<1>2. PICK n \in Nat : /\ n > 1 /\ WellFormed(form, n) /\ Filled(form, s.parts, n)
                       /\ Written(s) = WordsUpTo(form, s.parts, n)
  BY <1>1, StatementIs
<1>3. PICK p : p = s.parts
  OBVIOUS
<1>4. PICK pos : Placed(pos, form, p, toks, n)
  <2>1. Spells(toks, 1, at, WordsUpTo(form, p, n)) /\ Filled(form, p, n)
    BY <1>2, <1>3, Zenon
  <2>. QED
    BY <1>2, <2>1, WordsPlaced, Zenon
<1>5. ASSUME NEW k \in 1..n, form[k].type # "Part"
      PROVE  pos[k] = pos[k - 1] + 1 /\ Is(toks, pos[k - 1], form[k])
  <2>1. n \in 0..n
    OBVIOUS
  <2>2. PICK x : x = form[k]
    OBVIOUS
  <2>3. IsWord(x) /\ Words(form, p, k, TRUE) = <<x>>
    BY <1>2, <1>3, <1>5, <2>1, <2>2, WordPiece, Zenon
  <2>4. PICK i, j : i = pos[k - 1] /\ j = pos[k]
    OBVIOUS
  <2>5. Spells(toks, i, j, <<x>>)
    BY <1>4, <2>3, <2>4, Zenon DEF Placed
  <2>6. i \in Nat \ {0}
    BY <2>5, Spelled
  <2>7. j = i + 1 /\ i \in 1..Len(toks) /\ toks[i] = x
    BY <2>5, <2>6, SpellsOne
  <2>8. x = Token(x.type, x.val) /\ x.type # "End"
    BY <2>3 DEF IsWord, Proper
  <2>9. Is(toks, i, x)
    BY <2>6, <2>7, <2>8, IsThere
  <2>. QED
    BY <2>2, <2>4, <2>7, <2>9
<1>6. pos[0] = 1 /\ 1 \in 1..n /\ 2 \in 1..n /\ 1 - 1 = 0 /\ 2 - 1 = 1 /\ 1 + 1 = 2
  BY <1>2, <1>4 DEF Placed
<1>7. form[1].type # "Part" => Is(toks, 1, form[1]) /\ pos[1] = 2
  BY <1>5, <1>6
<1>8. form[1].type # "Part" /\ form[2].type # "Part" => Is(toks, 2, form[2])
  BY <1>5, <1>6, <1>7
<1>. QED
  BY <1>1, <1>7, <1>8, Zenon

(* Those tell the update commands apart. *)
LEMMA KindRead ==
  ASSUME NEW toks, IsText(toks), NEW s, IsStatement(s), s.kind # "query",
         NEW at, Spells(toks, 1, at, Written(s))
  PROVE  UpdateKind(toks) = s.kind
<1>1. PICK form : form = Form[s.kind]
  OBVIOUS
<1>2. form[1].type # "Part" =>
         Is(toks, 1, form[1]) /\ (form[2].type # "Part" => Is(toks, 2, form[2]))
  BY <1>1, FirstWords, Zenon
<1>3. /\ \A w : Keyword(w).type # "Part" /\ Keyword(w).val = w
      /\ \A w : Is(toks, 1, Keyword(w)) => toks[1].val = w
      /\ \A w : Is(toks, 2, Keyword(w)) => toks[2].val = w
  BY DEF Keyword, Token, Is
<1>4. s.kind \in {"insert", "delete", "modify", "create_table", "create_view", "create_index"}
  <2>1. s.kind \in DOMAIN Form
    BY StatementIs
  <2>. QED
    BY <2>1 DEF Form
<1>5. CASE s.kind = "insert"
  <2>1. form[1] = Keyword("insert")
    BY <1>1, <1>5 DEF Form
  <2>. QED
    BY <1>2, <1>3, <1>5, <2>1, Zenon DEF UpdateKind
<1>6. CASE s.kind = "delete"
  <2>1. form[1] = Keyword("delete")
    BY <1>1, <1>6 DEF Form
  <2>2. /\ Is(toks, 1, Keyword("delete")) /\ ~ Is(toks, 1, Keyword("insert"))
        /\ ~ Is(toks, 1, Keyword("update")) /\ ~ Is(toks, 1, Keyword("create"))
    BY <1>2, <1>3, <2>1
  <2>. QED
    BY <1>6, <2>2 DEF UpdateKind
<1>7. CASE s.kind = "modify"
  <2>1. form[1] = Keyword("update")
    BY <1>1, <1>7 DEF Form
  <2>2. /\ Is(toks, 1, Keyword("update")) /\ ~ Is(toks, 1, Keyword("insert"))
        /\ ~ Is(toks, 1, Keyword("delete")) /\ ~ Is(toks, 1, Keyword("create"))
    BY <1>2, <1>3, <2>1
  <2>. QED
    BY <1>7, <2>2 DEF UpdateKind
<1>8. ASSUME form[1] = Keyword("create"), NEW what, form[2] = Keyword(what)
      PROVE  /\ Is(toks, 1, Keyword("create")) /\ ~ Is(toks, 1, Keyword("insert"))
             /\ ~ Is(toks, 1, Keyword("delete")) /\ ~ Is(toks, 1, Keyword("update"))
             /\ \A w : Is(toks, 2, Keyword(w)) <=> w = what
  BY <1>2, <1>3, <1>8
<1>9. CASE s.kind = "create_table"
  <2>1. form[1] = Keyword("create") /\ form[2] = Keyword("table")
    BY <1>1, <1>9 DEF Form
  <2>2. /\ Is(toks, 1, Keyword("create")) /\ ~ Is(toks, 1, Keyword("insert"))
        /\ ~ Is(toks, 1, Keyword("delete")) /\ ~ Is(toks, 1, Keyword("update"))
        /\ Is(toks, 2, Keyword("table")) /\ ~ Is(toks, 2, Keyword("view"))
    BY <1>8, <2>1
  <2>. QED
    BY <1>9, <2>2 DEF UpdateKind
<1>10. CASE s.kind = "create_view"
  <2>1. form[1] = Keyword("create") /\ form[2] = Keyword("view")
    <3>1. form = <<Keyword("create"), Keyword("view"), Part("id"), Keyword("as")>> \o QueryForm
      BY <1>1, <1>10 DEF Form
    <3>. QED
      BY <3>1 DEF QueryForm
  <2>2. /\ Is(toks, 1, Keyword("create")) /\ ~ Is(toks, 1, Keyword("insert"))
        /\ ~ Is(toks, 1, Keyword("delete")) /\ ~ Is(toks, 1, Keyword("update"))
        /\ ~ Is(toks, 2, Keyword("table")) /\ Is(toks, 2, Keyword("view"))
    BY <1>8, <2>1
  <2>. QED
    BY <1>10, <2>2 DEF UpdateKind
<1>11. CASE s.kind = "create_index"
  <2>1. form[1] = Keyword("create") /\ form[2] = Keyword("index")
    BY <1>1, <1>11 DEF Form
  <2>2. /\ ~ Is(toks, 1, Keyword("insert"))
        /\ ~ Is(toks, 1, Keyword("delete")) /\ ~ Is(toks, 1, Keyword("update"))
        /\ ~ Is(toks, 2, Keyword("table")) /\ ~ Is(toks, 2, Keyword("view"))
    BY <1>8, <2>1
  <2>. QED
    BY <1>11, <2>2 DEF UpdateKind
<1>. QED
  BY <1>4, <1>5, <1>6, <1>7, <1>9, <1>10, <1>11

----------------------------------------------------------------------------
(* What a client sends is what a lexer returns, whole, cut off or with a   *)
(* semicolon.                                                              *)
LEMMA TextsAreTexts ==
  ASSUME NEW s \in Sent
  PROVE  IsText(Text[s]) /\ s.statement \in DOMAIN Statements
<1>0. PICK k \in DOMAIN Statements :
              \E n \in 1..Len(Written(Statements[k])) + 1 : s = [statement |-> k, tokens |-> n]
  BY Zenon DEF Sent
<1>1. PICK n \in 1..Len(Written(Statements[k])) + 1 : s = [statement |-> k, tokens |-> n]
  BY <1>0
<1>2. IsText(Written(Statements[k]))
  BY StatementsAssumption, WrittenPiece
<1>3. Len(Written(Statements[k])) \in Nat
  BY <1>2, TextIs
<1>4. n \in Nat /\ 1 <= n /\ n <= Len(Written(Statements[k])) + 1
  BY <1>3
<1>5. s.statement = k /\ s.tokens = n
  BY <1>1
<1>6. Text[s] = SubSeq(Append(Written(Statements[k]), Delim(";")), 1, n)
  <2>1. Text[s] = SubSeq(Append(Written(Statements[s.statement]), Delim(";")), 1, s.tokens)
    BY Zenon DEF Text
  <2>. QED
    BY <1>5, <2>1, Zenon
<1>7. PICK w : w = Written(Statements[k])
  OBVIOUS
<1>8. PICK x : x = Delim(";")
  OBVIOUS
<1>9. x = Delim(x.val)
  BY <1>8 DEF Delim, Token
<1>10. PICK t : t = SubSeq(Append(w, x), 1, n)
  OBVIOUS
<1>11. IsText(t)
  BY <1>2, <1>4, <1>7, <1>9, <1>10, CutText, Zenon
<1>. QED
  BY <1>5, <1>6, <1>7, <1>8, <1>10, <1>11, Zenon

(* What was sent: the beginning of a statement as it is written, or all of *)
(* it and a semicolon.                                                     *)
LEMMA SentText ==
  ASSUME NEW s \in Sent
  PROVE  /\ IsStatement(Statements[s.statement]) /\ IsText(Text[s])
         /\ LET text == Written(Statements[s.statement])
            IN  s.tokens >= Len(text) =>
                   Spells(Text[s], 1, Len(text) + 1, text) /\ Closed(Text[s], Len(text) + 1)
<1>1. PICK k : k = s.statement
  OBVIOUS
<1>2. IsText(Text[s]) /\ IsStatement(Statements[k])
  BY <1>1, TextsAreTexts, StatementsAssumption
<1>3. PICK w : w = Written(Statements[k])
  OBVIOUS
<1>4. IsText(w)
  BY <1>2, <1>3, WrittenPiece
<1>5. PICK R : R = ToSet(w)
  OBVIOUS
<1>6. w \in Seq(R) /\ Len(w) \in Nat
  BY <1>4, <1>5, TextIs DEF IsText
<1>7. PICK n : n = s.tokens
  OBVIOUS
<1>8. n \in 1..Len(w) + 1
  <2>1. PICK j \in DOMAIN Statements : \E m \in 1..Len(Written(Statements[j])) + 1 :
                                           s = [statement |-> j, tokens |-> m]
    BY Zenon DEF Sent
  <2>. QED
    BY <1>1, <1>3, <1>7, <2>1
<1>9. PICK x : x = Delim(";")
  OBVIOUS
<1>10. PICK t : t = SubSeq(Append(w, x), 1, n)
  OBVIOUS
<1>11. Text[s] = t
  BY <1>1, <1>3, <1>7, <1>9, <1>10, Zenon DEF Text
<1>12. PICK B : B = R \cup {x}
  OBVIOUS
<1>13. n \in Nat /\ 1 <= n /\ n <= Len(w) + 1 /\ w \in Seq(B) /\ x \in B
  BY <1>6, <1>8, <1>12
<1>14. /\ t \in Seq(B) /\ Len(t) = n
       /\ \A i \in 1..n : t[i] = IF i = Len(w) + 1 THEN x ELSE w[i]
  BY <1>10, <1>13, CutAt
<1>15. ASSUME n >= Len(w) PROVE Spells(t, 1, Len(w) + 1, w) /\ Closed(t, Len(w) + 1)
  <2>1. PICK m \in Nat : m = Len(w) + 1 /\ m - 1 = Len(w)
    BY <1>6
  <2>2. \A i \in 1..m - 1 : w[i] = t[1 + i - 1]
    <3>1. ASSUME NEW i \in 1..m - 1 PROVE w[i] = t[1 + i - 1]
      <4>1. i \in 1..n /\ i # Len(w) + 1 /\ 1 + i - 1 = i
        BY <1>6, <1>8, <1>15, <2>1
      <4>. QED
        BY <1>14, <4>1
    <3>. QED
      BY <3>1
  <2>3. 1 \in Nat \ {0} /\ 1 <= m /\ m <= Len(t) + 1 /\ Len(t) \in Nat /\ Len(w) = m - 1
    BY <1>6, <1>8, <1>14, <1>15, <2>1
  <2>4. Spells(t, 1, m, w)
    BY <1>6, <2>2, <2>3, SpellsIf
  <2>5. IsText(t) /\ m \in Nat \ {0}
    BY <1>2, <1>11, <2>1, <2>3
  <2>6. m \in 1..Len(t) => t[m] = x
    BY <1>8, <1>14, <2>1
  <2>7. ASSUME NEW tok, tok = Token(tok.type, tok.val), tok.type # "End", tok # x
        PROVE  ~ Is(t, m, tok)
    BY <2>5, <2>6, <2>7, IsThere
  <2>8. ~ Is(t, m, Delim(","))
    <3>1. PICK tok : tok = Delim(",")
      OBVIOUS
    <3>2. tok = Token(tok.type, tok.val) /\ tok.type # "End" /\ tok # x
      BY <1>9, <3>1 DEF Delim, Token
    <3>. QED
      BY <2>7, <3>1, <3>2, Zenon
  <2>9. ASSUME NEW kw PROVE ~ Is(t, m, Keyword(kw))
    <3>1. PICK tok : tok = Keyword(kw)
      OBVIOUS
    <3>2. tok = Token(tok.type, tok.val) /\ tok.type # "End" /\ tok # x
      BY <1>9, <3>1 DEF Keyword, Delim, Token
    <3>. QED
      BY <2>7, <3>1, <3>2, Zenon
  <2>10. Closed(t, m)
    BY <2>8, <2>9, Zenon DEF Closed
  <2>. QED
    BY <2>1, <2>4, <2>10
<1>. QED
  BY <1>1, <1>2, <1>3, <1>7, <1>11, <1>15, Zenon

(* It is parsed as a query or as an update command. *)
LEMMA ParsedAs ==
  ASSUME NEW s \in Sent
  PROVE  \E kind \in DOMAIN Form :
            /\ Parsed[s] = ParseAs(kind, Text[s])
            /\ LET asked == Statements[s.statement]
               IN  s.tokens >= Len(Written(asked)) => kind = asked.kind
<1>1. PICK asked : asked = Statements[s.statement]
  OBVIOUS
<1>2. PICK t : t = Text[s]
  OBVIOUS
<1>3. IsStatement(asked) /\ IsText(t)
  BY <1>1, <1>2, SentText, Zenon
<1>4. CASE asked.kind = "query"
  <2>1. Parsed[s] = ParseAs("query", t)
    BY <1>1, <1>2, <1>4, Zenon DEF Parsed, Queries, ParseQuery
  <2>2. "query" \in DOMAIN Form
    BY DEF Form
  <2>. QED
    BY <1>1, <1>2, <1>4, <2>1, <2>2, Zenon
<1>5. CASE asked.kind # "query"
  <2>1. Parsed[s] = ParseAs(UpdateKind(t), t)
    BY <1>1, <1>2, <1>5, Zenon DEF Parsed, Queries, ParseUpdate
  <2>2. UpdateKind(t) \in DOMAIN Form
    BY DEF UpdateKind, Form
  <2>3. ASSUME s.tokens >= Len(Written(asked)) PROVE UpdateKind(t) = asked.kind
    <3>1. \E at : Spells(t, 1, at, Written(asked))
      BY <1>1, <1>2, <2>3, SentText, Zenon
    <3>. QED
      BY <1>3, <1>5, <3>1, KindRead, Zenon
  <2>. QED
    BY <1>1, <1>2, <2>1, <2>2, <2>3, Zenon
<1>. QED
  BY <1>4, <1>5

(* A text is read as what was asked for when all of it was sent, and never *)
(* as what it does not begin with.                                         *)
LEMMA TextParsed ==
  ASSUME NEW s \in Sent
  PROVE  /\ Parsed[s] # NoStatement =>
               IsStatement(Parsed[s]) /\ IsPrefix(Written(Parsed[s]), Text[s])
         /\ LET asked == Statements[s.statement]
            IN  s.tokens >= Len(Written(asked)) => Parsed[s] = asked
<1>1. PICK asked : asked = Statements[s.statement]
  OBVIOUS
<1>2. PICK t : t = Text[s]
  OBVIOUS
<1>3. PICK kind \in DOMAIN Form : /\ Parsed[s] = ParseAs(kind, t)
                                  /\ s.tokens >= Len(Written(asked)) => kind = asked.kind
  BY <1>1, <1>2, ParsedAs, Zenon
<1>4. IsStatement(asked) /\ IsText(t)
  BY <1>1, <1>2, SentText, Zenon
<1>5. ASSUME Parsed[s] # NoStatement
      PROVE  IsStatement(Parsed[s]) /\ IsPrefix(Written(Parsed[s]), t)
  <2>1. PICK p : p = Parsed[s]
    OBVIOUS
  <2>2. IsStatement(p) /\ \E at : Spells(t, 1, at, Written(p))
    BY <1>3, <1>4, <1>5, <2>1, ParseSound, Zenon
  <2>3. PICK w : w = Written(p)
    OBVIOUS
  <2>4. PICK at : Spells(t, 1, at, w)
    BY <2>2, <2>3
  <2>5. PICK R : R = ToSet(t)
    OBVIOUS
  <2>6. t \in Seq(R) /\ w \in Seq(R)
    BY <1>4, <2>4, <2>5, Spelled DEF IsText
  <2>7. /\ at \in Nat /\ at <= Len(t) + 1 /\ Len(w) = at - 1 /\ Len(t) \in Nat
        /\ \A k \in 1..at - 1 : w[k] = t[1 + k - 1]
    BY <1>4, <2>4, Spelled
  <2>8. Len(w) <= Len(t) /\ \A k \in 1..Len(w) : w[k] = t[k]
    BY <2>7
  <2>9. IsPrefix(w, t)
    BY <2>6, <2>8, PrefixIff
  <2>. QED
    BY <2>1, <2>2, <2>3, <2>9
<1>6. ASSUME s.tokens >= Len(Written(asked)) PROVE Parsed[s] = asked
  <2>1. PICK at : Spells(t, 1, at, Written(asked)) /\ Closed(t, at)
    BY <1>1, <1>2, <1>6, SentText, Zenon
  <2>2. ParseAs(asked.kind, t) = asked
    BY <1>4, <2>1, ParseComplete, Zenon
  <2>. QED
    BY <1>3, <1>6, <2>2
<1>. QED
  BY <1>1, <1>2, <1>5, <1>6, Zenon

(* What is parsed is a statement or bad syntax. *)
LEMMA ParsedIs ==
  ASSUME NEW s \in Sent
  PROVE  /\ IsStatement(Parsed[s]) \/ Parsed[s] = NoStatement
         /\ Parsed[s].kind \in DOMAIN Form \cup {NoStatement.kind}
         /\ s \in Queries => Parsed[s].kind \in {"query", NoStatement.kind}
<1>1. IsStatement(Parsed[s]) \/ Parsed[s] = NoStatement
  BY TextParsed, Zenon
<1>2. Parsed[s].kind \in DOMAIN Form \cup {NoStatement.kind}
  BY <1>1, StatementIs
<1>3. ASSUME s \in Queries PROVE Parsed[s].kind \in {"query", NoStatement.kind}
  <2>1. Parsed[s] = ParseAs("query", Text[s])
    BY <1>3, Zenon DEF Parsed, ParseQuery
  <2>. QED
    BY <2>1 DEF ParseAs, Statement
<1>. QED
  BY <1>1, <1>2, <1>3

TableRow == [table : STRING, slotsize : Nat]

(* The catalogs' rows, each field's among the fields of a table. *)
Typed(c) ==
    /\ DOMAIN c = DOMAIN NoRows
    /\ c.tblcat \in Seq(TableRow)
    /\ c.fldcat \in Seq(FieldRows)
    /\ \A r \in ToSet(c.fldcat) : HasTable(c, r.table)

Places == {"down", "recover", "refresh", "commit", "open", "threw"} \cup DOMAIN SystemSchema

(* What the types are inductive with: typed rows, not only typed sets. *)
TypeInv ==
    /\ Typed(cat) /\ Typed(saved)
    /\ dir \in BOOLEAN /\ opened \in BOOLEAN /\ usedTemp \in BOOLEAN
    /\ tempLeft \in BOOLEAN /\ torn \in BOOLEAN
    /\ proc \in Places
    /\ sent.statement \in {0} \cup DOMAIN Statements
    /\ stmt.kind \in DOMAIN Form \cup {NoStatement.kind}
    /\ starts \in 0..MaxStarts

----------------------------------------------------------------------------
(* The schemas of the catalogs themselves are typed. *)
LEMMA SystemTyped ==
  ASSUME NEW name \in DOMAIN SystemSchema
  PROVE  SystemSchema[name] \in Declarations /\ name \in STRING
<1>1. name \in {"tblcat", "fldcat", "viewcat"}
  BY DEF SystemSchema
<1>. QED
  <2>1. \A f : Name(f) = [name |-> f, type |-> "VARCHAR", length |-> 16]
    BY DEF Name, Field
  <2>2. \A f : Number(f) = [name |-> f, type |-> "INTEGER", length |-> 0]
    BY DEF Number, Field
  <2>. DEFINE names == {"tblcat", "fldcat", "viewcat", "tblname", "slotsize", "fldname", "type",
                        "length", "offset", "viewname", "viewdef"}
  <2>0. names \subseteq STRING
    BY NamesAssumption
  <2>3. \A f \in names : Name(f) \in Declaration /\ Number(f) \in Declaration
    BY <2>0, <2>1, <2>2 DEF Declaration
  <2>4. Field("viewdef", "VARCHAR", 100) \in Declaration
    BY <2>0 DEF Field, Declaration
  <2>5. <<Name("tblname"), Number("slotsize")>> \in Seq(Declaration)
    BY <2>3
  <2>6. <<Name("tblname"), Name("fldname"), Number("type"), Number("length"), Number("offset")>>
           \in Seq(Declaration)
    BY <2>3
  <2>7. <<Name("viewname"), Field("viewdef", "VARCHAR", 100)>> \in Seq(Declaration)
    BY <2>3, <2>4
  <2>8. name \in STRING
    BY <1>1, <2>0
  <2>9. SystemSchema[name] \in Seq(Declaration)
    <3>1. /\ SystemSchema["tblcat"] \in Seq(Declaration)
          /\ SystemSchema["fldcat"] \in Seq(Declaration)
          /\ SystemSchema["viewcat"] \in Seq(Declaration)
      BY <2>5, <2>6, <2>7, Zenon DEF SystemSchema
    <3>. QED
      BY <1>1, <3>1, Zenon
  <2>. QED
    BY <2>8, <2>9 DEF Declarations

(* A table of typed declarations enters typed rows. *)
LEMMA CreateTyped ==
  ASSUME NEW c, Typed(c), NEW name \in STRING, NEW sch \in Declarations
  PROVE  Typed(CreateTable(c, name, sch))
<1>. DEFINE d == CreateTable(c, name, sch)
<1>. PICK row : row = [table |-> name, slotsize |-> LayoutOf[sch].slotsize]
  OBVIOUS
<1>. PICK rows : rows = [i \in DOMAIN sch |-> [table |-> name, field |-> sch[i],
                                               offset |-> LayoutOf[sch].offset[sch[i].name]]]
  OBVIOUS
<1>1. DOMAIN c = {"tblcat", "fldcat", "viewcat"}
  BY DEF Typed, NoRows
<1>2. DOMAIN d = DOMAIN c /\ d.tblcat = Append(c.tblcat, row) /\ d.fldcat = c.fldcat \o rows
  BY <1>1 DEF CreateTable
<1>. HIDE DEF d
<1>3. row \in TableRow
  <2>1. LayoutOf[sch].slotsize \in Nat
    BY LayoutIs
  <2>. QED
    BY <2>1 DEF TableRow
<1>4. sch \in Seq(Declaration) /\ Len(sch) \in Nat /\ DOMAIN sch = 1..Len(sch)
  BY DEF Declarations, Declaration
<1>5. rows \in Seq(FieldRows) /\ \A r \in ToSet(rows) : r.table = name
  <2>1. ASSUME NEW i \in 1..Len(sch)
        PROVE  [table |-> name, field |-> sch[i],
                offset |-> LayoutOf[sch].offset[sch[i].name]] \in FieldRows
    <3>1. sch[i] \in Declaration
      BY <1>4
    <3>2. sch[i].name \in Names(sch)
      BY <1>4 DEF Names, ToSet
    <3>3. LayoutOf[sch].offset[sch[i].name] \in Nat
      BY <3>2, LayoutIs
    <3>. QED
      BY <3>1, <3>3 DEF FieldRows
  <2>2. rows \in Seq(FieldRows)
    BY <1>4, <2>1
  <2>3. \A r \in ToSet(rows) : r.table = name
    BY <1>4 DEF ToSet
  <2>. QED
    BY <2>2, <2>3
<1>6. Append(c.tblcat, row) \in Seq(TableRow)
  BY <1>3 DEF Typed
<1>7. c.fldcat \o rows \in Seq(FieldRows)
  BY <1>5 DEF Typed
<1>8. ToSet(c.fldcat \o rows) \subseteq ToSet(c.fldcat) \cup ToSet(rows)
  <2>1. c.fldcat \in Seq(FieldRows)
    BY DEF Typed
  <2>. QED
    BY <1>5, <2>1 DEF ToSet
<1>9. ToSet(Append(c.tblcat, row)) = ToSet(c.tblcat) \cup {row}
  BY <1>3, RangeAppend DEF Typed
<1>10. ASSUME NEW r \in ToSet(d.fldcat) PROVE HasTable(d, r.table)
  <2>1. r \in ToSet(c.fldcat) \/ r.table = name
    BY <1>2, <1>5, <1>8
  <2>2. row.table = name
    OBVIOUS
  <2>. QED
    BY <1>2, <1>9, <2>1, <2>2 DEF Typed, HasTable
<1>. QED
  BY <1>1, <1>2, <1>6, <1>7, <1>10 DEF Typed, d, NoRows

(* A view changes neither tables nor fields. *)
LEMMA CreateViewTyped ==
  ASSUME NEW c, Typed(c), NEW name, NEW q
  PROVE  Typed(CreateView(c, name, q))
<1>1. DOMAIN c = {"tblcat", "fldcat", "viewcat"}
  BY DEF Typed, NoRows
<1>2. /\ DOMAIN CreateView(c, name, q) = DOMAIN c
      /\ CreateView(c, name, q).tblcat = c.tblcat /\ CreateView(c, name, q).fldcat = c.fldcat
  BY <1>1 DEF CreateView
<1>. QED
  BY <1>2 DEF Typed, HasTable

(* What TypeOK says of typed catalogs. *)
LEMMA TypedSays ==
  ASSUME NEW c, Typed(c)
  PROVE  /\ DOMAIN c = DOMAIN NoRows
         /\ ToSet(c.fldcat) \subseteq FieldRows
         /\ \A r \in ToSet(c.tblcat) : r.slotsize \in Nat
         /\ \A r \in ToSet(c.fldcat) : HasTable(c, r.table)
<1>1. c.fldcat \in Seq(FieldRows) /\ c.tblcat \in Seq(TableRow)
  BY DEF Typed
<1>2. /\ \A i \in DOMAIN c.fldcat : c.fldcat[i] \in FieldRows
      /\ \A i \in DOMAIN c.tblcat : c.tblcat[i] \in TableRow
  BY <1>1
<1>. QED
  BY <1>2 DEF Typed, ToSet, TableRow

----------------------------------------------------------------------------
(* The three facts of the inductive argument. *)
LEMMA TypesHold == TypeInv => TypeOK
<1>1. TypeInv => {dir, opened, usedTemp, tempLeft, torn} \subseteq BOOLEAN
  BY Zenon DEF TypeInv
<1>. QED
  BY <1>1, TypedSays, Zenon DEF TypeInv, TypeOK, Places

(* The types hold when nothing exists yet.                                 *)
LEMMA Init_Types == Init => TypeInv
<1>. SUFFICES ASSUME Init PROVE TypeInv
  OBVIOUS
<1>1. Typed(NoRows)
  BY DEF Typed, NoRows, ToSet
<1>2. stmt.kind = NoStatement.kind /\ sent.statement = 0
  BY DEF Init, NoText
<1>3. starts \in 0..MaxStarts
  BY CatalogAssumption DEF Init
<1>. QED
  BY <1>1, <1>2, <1>3, Zenon DEF Init, TypeInv, Places

(* Every step keeps them.                                                  *)
LEMMA Next_Types ==
  ASSUME TypeInv, [Next]_vars
  PROVE  TypeInv'
<1>. USE DEF TypeInv
<1>1. CASE UNCHANGED vars
  BY <1>1 DEF vars, diskVars, sqlVars, Typed, HasTable
<1>2. CASE Start
  BY <1>2, CatalogAssumption DEF Start, sqlVars, Typed, HasTable, Places, SystemSchema
<1>3. CASE Recover
  BY <1>3 DEF Recover, At, diskVars, sqlVars, Typed, HasTable, Places
<1>4. CASE Refresh
  BY <1>4 DEF Refresh, At, diskVars, sqlVars, Typed, HasTable, Places
<1>5. CASE Open
  BY <1>5 DEF Open, At, sqlVars, Typed, HasTable, Places
<1>6. ASSUME NEW name, NEW next, CreateSystemTable(name, next),
             name \in DOMAIN SystemSchema, next \in Places
      PROVE  TypeInv'
  <2>1. Typed(cat')
    BY <1>6, SystemTyped, CreateTyped DEF CreateSystemTable
  <2>. QED
    BY <1>6, <2>1 DEF CreateSystemTable, At, diskVars, sqlVars, Typed, HasTable
<1>7. CASE Stop
  BY <1>7 DEF Stop, Typed, HasTable, Places, NoText
<1>8. CASE PlanStep
  BY <1>8 DEF PlanStep, diskVars, Typed, HasTable
<1>9. CASE Return
  BY <1>9 DEF Return, diskVars, Typed, HasTable, NoText
<1>10. CASE UseTempTable
  BY <1>10 DEF UseTempTable, diskVars, sqlVars, Typed, HasTable
<1>11. CASE Commit
  BY <1>11 DEF Commit, sqlVars, Typed, HasTable
<1>12. CASE Rollback
  BY <1>12 DEF Rollback, diskVars, sqlVars, Typed, HasTable
<1>13. ASSUME NEW sending \in Queries, CreateQueryPlan(sending, Parsed[sending])
       PROVE  TypeInv'
  <2>1. sending \in Sent
    BY Zenon DEF Queries
  <2>2. stmt'.kind \in DOMAIN Form \cup {NoStatement.kind}
    BY <1>13, <2>1, ParsedIs DEF CreateQueryPlan
  <2>3. sent'.statement \in DOMAIN Statements
    BY <1>13, <2>1, TextsAreTexts DEF CreateQueryPlan
  <2>. QED
    BY <1>13, <2>2, <2>3 DEF CreateQueryPlan, diskVars, Typed, HasTable
<1>14. ASSUME NEW sending \in Sent \ Queries, ExecuteUpdate(sending, Parsed[sending])
       PROVE  TypeInv'
  <2>. PICK s : s = Parsed[sending]
    OBVIOUS
  <2>1. IsStatement(s) \/ s = NoStatement
    BY ParsedIs, Zenon
  <2>2. /\ s.kind \in DOMAIN Form \cup {NoStatement.kind}
        /\ s.kind = "create_table" => s.parts[1] \in STRING /\ s.parts[2] \in Declarations
    <3>1. NoStatement.kind # "create_table"
      BY DEF NoStatement, Statement
    <3>. QED
      BY <2>1, <3>1, ParsedIs, TableParts
  <2>3. sent'.statement \in DOMAIN Statements /\ stmt' = s
    BY <1>14, TextsAreTexts DEF ExecuteUpdate
  <2>4. Typed(cat') /\ usedTemp' \in BOOLEAN
    <3>1. CASE s.kind = "create_table"
      <4>1. cat' = CreateTable(cat, s.parts[1], Schema[s.parts[2]]) /\ usedTemp' = usedTemp
        BY <1>14, <3>1 DEF ExecuteUpdate, NoStatement, Statement
      <4>. QED
        BY <2>2, <3>1, <4>1, SchemaIs, CreateTyped
    <3>2. CASE s.kind = "create_view"
      <4>1. cat' = CreateView(cat, s.parts[1], Statement("query", Tail(s.parts)))
            /\ usedTemp' = usedTemp
        BY <1>14, <3>2 DEF ExecuteUpdate, NoStatement, Statement
      <4>. QED
        BY <4>1, CreateViewTyped
    <3>3. CASE s.kind \notin {"create_table", "create_view"}
      <4>1. cat' = cat
        BY <1>14, <3>3 DEF ExecuteUpdate
      <4>2. usedTemp' \in BOOLEAN
        BY <1>14, <3>3 DEF ExecuteUpdate, WritesTemp
      <4>. QED
        BY <4>1, <4>2
    <3>. QED
      BY <3>1, <3>2, <3>3
  <2>. QED
    BY <1>14, <2>2, <2>3, <2>4 DEF ExecuteUpdate, diskVars, Typed, HasTable
<1>15. {"tblcat", "fldcat", "viewcat"} \subseteq DOMAIN SystemSchema
  BY DEF SystemSchema
<1>16. Startup => TypeInv'
  BY <1>3, <1>4, <1>5, <1>6, <1>15 DEF Startup, Places
<1>. QED
  BY <1>1, <1>2, <1>7, <1>8, <1>9, <1>10, <1>11, <1>12, <1>13, <1>14, <1>16 DEF Next

(* For every text a client can send, what the parser makes of it leaves    *)
(* the catalogs typed: every field row a declaration with an offset that   *)
(* is a natural number, and of a table that has a row in tblcat; layouts   *)
(* with natural slot sizes (parser.cpp, tablemgr.cpp, layout.cpp).         *)
THEOREM CatalogsKeepTypes == Spec => []TypeOK
BY TypesHold, Init_Types, Next_Types, PTL DEF Spec

----------------------------------------------------------------------------
(* The rows of tblcat, whatever they are. *)
Rows(c) == DOMAIN c = DOMAIN NoRows /\ \E S : c.tblcat \in Seq(S)

Entered(c) == HasTable(c, "tblcat")

(* What a process that starts can rely on: the catalogs are those of the   *)
(* last commit until recovery is over, a constructor that returned has     *)
(* committed the row of tblcat itself, and no statement takes it away.     *)
StartInv ==
    /\ Rows(cat) /\ Rows(saved)
    /\ opened => Entered(saved)
    /\ proc \in {"down", "recover"} => cat = saved
    /\ proc = "refresh" /\ opened => Entered(cat)
    /\ proc \in {"fldcat", "viewcat", "commit", "open"} => Entered(cat)
    /\ proc = "open" => opened
    /\ OpensAgain

(* A new table is one more row, and the rows there were stay. *)
LEMMA TableCreated ==
  ASSUME NEW c, Rows(c), NEW name, NEW sch
  PROVE  /\ Rows(CreateTable(c, name, sch))
         /\ \A n : HasTable(CreateTable(c, name, sch), n) <=> HasTable(c, n) \/ n = name
<1>. DEFINE d == CreateTable(c, name, sch)
            row == [table |-> name, slotsize |-> LayoutOf[sch].slotsize]
<1>1. DOMAIN c = {"tblcat", "fldcat", "viewcat"}
  BY DEF Rows, NoRows
<1>2. DOMAIN d = DOMAIN c /\ d.tblcat = Append(c.tblcat, row)
  BY <1>1 DEF CreateTable
<1>3. PICK S : c.tblcat \in Seq(S)
  BY DEF Rows
<1>. HIDE DEF d, row
<1>. DEFINE s == c.tblcat
            T == S \cup {row}
<1>4. s \in Seq(T)
  BY <1>3
<1>. HIDE DEF s, T
<1>5. /\ Append(s, row) \in Seq(T) /\ DOMAIN Append(s, row) = 1..Len(s) + 1
      /\ DOMAIN s = 1..Len(s) /\ Len(s) \in Nat
      /\ Append(s, row)[Len(s) + 1] = row
      /\ \A i \in 1..Len(s) : Append(s, row)[i] = s[i]
  BY <1>4 DEF T
<1>6. Rows(d)
  BY <1>1, <1>2, <1>5 DEF Rows, s, NoRows
<1>7. row.table = name
  BY DEF row
<1>8. ASSUME NEW n PROVE HasTable(d, n) <=> HasTable(c, n) \/ n = name
  <2>1. ToSet(d.tblcat) = ToSet(s) \cup {row}
    BY <1>2, <1>5 DEF ToSet, s
  <2>. QED
    BY <2>1, <1>7 DEF HasTable, s
<1>. QED
  BY <1>6, <1>8 DEF d

(* A view leaves the rows of tblcat alone. *)
LEMMA ViewCreated ==
  ASSUME NEW c, Rows(c), NEW name, NEW q
  PROVE  /\ Rows(CreateView(c, name, q))
         /\ \A n : HasTable(CreateView(c, name, q), n) <=> HasTable(c, n)
<1>1. DOMAIN c = {"tblcat", "fldcat", "viewcat"}
  BY DEF Rows, NoRows
<1>2. /\ DOMAIN CreateView(c, name, q) = DOMAIN c
      /\ CreateView(c, name, q).tblcat = c.tblcat
  BY <1>1 DEF CreateView
<1>. QED
  BY <1>2 DEF Rows, HasTable

----------------------------------------------------------------------------
(* The inductive argument for opening again. *)
LEMMA Init_Start == Init => StartInv
<1>. SUFFICES ASSUME Init PROVE StartInv
  OBVIOUS
<1>1. <<>> \in Seq({}) /\ NoRows.tblcat = <<>>
  BY DEF NoRows
<1>2. Rows(NoRows)
  BY <1>1 DEF Rows
<1>. QED
  BY <1>2 DEF Init, StartInv, OpensAgain

(* Every step keeps what a process that starts relies on.                  *)
LEMMA Next_Start ==
  ASSUME StartInv, [Next]_vars
  PROVE  StartInv'
<1>. USE DEF StartInv, OpensAgain, Entered
<1>1. CASE UNCHANGED vars
  BY <1>1 DEF vars, diskVars, sqlVars, Rows, HasTable
<1>2. CASE Start
  BY <1>2 DEF Start, diskVars, sqlVars, Rows, HasTable
<1>3. CASE Recover
  BY <1>3 DEF Recover, At, diskVars, Rows, HasTable
<1>4. CASE Refresh
  BY <1>4 DEF Refresh, At, diskVars, Rows, HasTable
<1>5. CASE Open
  BY <1>5 DEF Open, At, Rows, HasTable
<1>6. ASSUME NEW name, NEW next, CreateSystemTable(name, next),
             \/ name = "tblcat" /\ next = "fldcat"
             \/ name = "fldcat" /\ next = "viewcat"
             \/ name = "viewcat" /\ next = "refresh"
      PROVE  StartInv'
  <2>1. /\ Rows(cat') /\ (Entered(cat) \/ name = "tblcat" => Entered(cat'))
    BY <1>6, TableCreated DEF CreateSystemTable
  <2>. QED
    BY <1>6, <2>1 DEF CreateSystemTable, At, diskVars
<1>7. CASE Stop
  BY <1>7 DEF Stop, Rows, HasTable
<1>8. CASE PlanStep \/ Return \/ UseTempTable
  BY <1>8 DEF PlanStep, Return, UseTempTable, diskVars, sqlVars, Rows, HasTable
<1>9. CASE Commit
  BY <1>9 DEF Commit, Calm, sqlVars, Rows, HasTable
<1>10. CASE Rollback
  BY <1>10 DEF Rollback, Calm, diskVars, sqlVars, Rows, HasTable
<1>11. ASSUME NEW sending, NEW s, CreateQueryPlan(sending, s) PROVE StartInv'
  BY <1>11 DEF CreateQueryPlan, diskVars, Rows, HasTable
<1>12. ASSUME NEW sending, NEW s, ExecuteUpdate(sending, s) PROVE StartInv'
  <2>1. Rows(cat') /\ (Entered(cat) => Entered(cat'))
    BY <1>12, TableCreated, ViewCreated DEF ExecuteUpdate
  <2>2. proc' = proc /\ UNCHANGED diskVars /\ proc = "open"
    BY <1>12 DEF ExecuteUpdate, Calm
  <2>. QED
    BY <2>1, <2>2 DEF diskVars
<1>. QED
  BY <1>1, <1>2, <1>3, <1>4, <1>5, <1>6, <1>7, <1>8, <1>9, <1>10, <1>11, <1>12
     DEF Next, Startup

(* A database whose constructor has returned once opens again, whatever    *)
(* its processes were doing when they stopped, unless the log is left with *)
(* writes to a temporary file that is gone, or with a page of zeros: the   *)
(* exceptions recovery throws are the only ones, and the statistics always *)
(* find tblcat, for every text a client can send (simpledb.cpp,            *)
(* statmgr.cpp refresh_statistics, tablemgr.cpp).                          *)
THEOREM DatabasesOpenAgain == Spec => []OpensAgain
<1>1. StartInv => OpensAgain
  BY DEF StartInv
<1>. QED
  BY <1>1, Init_Start, Next_Start, PTL DEF Spec

----------------------------------------------------------------------------
(* The statement being executed is what the parser made of a text that a   *)
(* client can send.                                                        *)
SentInv == IF sent = NoText THEN stmt = NoStatement ELSE sent \in Sent /\ stmt = Parsed[sent]

(* At first nothing has been sent.                                         *)
LEMMA Init_Sent == Init => SentInv
BY Zenon DEF Init, SentInv

(* Every step that sends a statement has it parsed.                        *)
LEMMA Next_Sent ==
  ASSUME SentInv, [Next]_vars
  PROVE  SentInv'
<1>1. CASE UNCHANGED <<sent, stmt>>
  BY <1>1, Zenon DEF SentInv
<1>2. CASE sent' = NoText /\ stmt' = NoStatement
  BY <1>2, Zenon DEF SentInv
<1>3. CASE \E sending \in Sent : sent' = sending /\ stmt' = Parsed[sending]
  <2>1. PICK sending \in Sent : sent' = sending /\ stmt' = Parsed[sending]
    BY <1>3
  <2>2. sent' # NoText
    <3>1. sending.tokens # 0
      BY DEF Sent
    <3>. QED
      BY <2>1, <3>1 DEF NoText
  <2>. QED
    BY <2>1, <2>2, Zenon DEF SentInv
<1>. QED
  BY <1>1, <1>2, <1>3 DEF Next, vars, sqlVars, Start, Startup, Recover, Refresh, Open,
     CreateSystemTable, At, Stop, PlanStep, Return, UseTempTable, Commit, Rollback,
     CreateQueryPlan, ExecuteUpdate, Queries
(* What the parser makes of a text is exact.                               *)
LEMMA SentIsExact == SentInv => ParserExact
<1>. SUFFICES ASSUME SentInv, sent # NoText PROVE ParserExact
  BY Zenon DEF ParserExact
<1>1. sent \in Sent /\ stmt = Parsed[sent]
  BY Zenon DEF SentInv
<1>. QED
  BY <1>1, TextParsed, Zenon DEF ParserExact

(* For every statement of the language, whatever its names, constants,     *)
(* declarations and the lengths of its lists, and wherever its text is cut *)
(* off: the parser accepts a text only for a statement the text begins     *)
(* with, and reads a whole one as what it says (parser.cpp).               *)
THEOREM ParserReadsExactly == Spec => []ParserExact
BY Init_Sent, Next_Sent, SentIsExact, PTL DEF Spec

----------------------------------------------------------------------------
(* The rows with a name in a column: one more row, no row, and rows of     *)
(* another name behind the others.                                         *)
Grown(more, rows, r, yes) == more = IF yes THEN Append(rows, r) ELSE rows

(* One more row: it is found when it has the name.                         *)
LEMMA RowsMore ==
  ASSUME NEW S, NEW rows \in Seq(S), NEW r \in S, NEW column, NEW name,
         NEW more, Grown(more, rows, r, TRUE)
  PROVE  /\ RowsWith(rows, column, name) \in Seq(S)
         /\ Grown(RowsWith(more, column, name), RowsWith(rows, column, name), r,
                  r[column] = name)
<1>0. more = Append(rows, r)
  BY DEF Grown
<1>. DEFINE Here(x) == IF x[column] = name THEN <<x>> ELSE <<>>
<1>1. PICK s : s = [i \in DOMAIN rows |-> Here(rows[i])]
  OBVIOUS
<1>2. PICK t : t = [i \in DOMAIN more |-> Here(more[i])]
  OBVIOUS
<1>3. PICK x : x = Here(r)
  OBVIOUS
<1>4. \A y \in S : Here(y) \in Seq(S)
  OBVIOUS
<1>5. x \in Seq(S)
  BY <1>3, <1>4
<1>6. RowsWith(rows, column, name) = FlattenSeq(s) /\ RowsWith(more, column, name) = FlattenSeq(t)
  BY <1>1, <1>2, Zenon DEF RowsWith
<1>. HIDE DEF Here
<1>7. PICK n \in Nat : n = Len(rows) /\ DOMAIN rows = 1..n
  OBVIOUS
<1>8. /\ DOMAIN more = 1..n + 1 /\ more[n + 1] = r
      /\ \A i \in 1..n : more[i] = rows[i] /\ rows[i] \in S
  BY <1>0, <1>7
<1>9. s \in Seq(Seq(S)) /\ Len(s) = n /\ \A i \in 1..n : s[i] = Here(rows[i])
  <2>1. \A i \in 1..n : s[i] = Here(rows[i]) /\ s[i] \in Seq(S)
    BY <1>1, <1>4, <1>7, <1>8
  <2>2. s = [i \in 1..n |-> s[i]]
    BY <1>1, <1>7
  <2>. QED
    BY <2>1, <2>2, SeqIf
<1>10. t = Append(s, x)
  <2>1. PICK Q : Q = Seq(S)
    OBVIOUS
  <2>2. s \in Seq(Q) /\ x \in Q /\ Len(s) = n
    BY <1>5, <1>9, <2>1
  <2>3. t = [i \in 1..n + 1 |-> t[i]]
    BY <1>2, <1>8
  <2>4. OnPlaces(t, n + 1)
    BY <2>3 DEF OnPlaces
  <2>5. t[n + 1] = x /\ \A i \in 1..n : t[i] = s[i]
    BY <1>2, <1>3, <1>8, <1>9
  <2>. QED
    BY <2>2, <2>4, <2>5, AppendIs
<1>11. /\ FlattenSeq(s) \in Seq(S)
       /\ FlattenSeq(t) = FlattenSeq(s) \o x
  BY <1>5, <1>9, <1>10, FlattenAppend
<1>12. PICK u : u = FlattenSeq(s)
  OBVIOUS
<1>13. r[column] = name => x = <<r>>
  BY <1>3 DEF Here
<1>14. r[column] # name => x = <<>>
  BY <1>3 DEF Here
<1>15. u \in Seq(S) /\ FlattenSeq(t) = u \o x
  BY <1>11, <1>12
<1>16. r[column] = name => FlattenSeq(t) = Append(u, r)
  <2>1. u \o <<r>> = Append(u, r)
    BY <1>15
  <2>. QED
    BY <1>13, <1>15, <2>1
<1>17. r[column] # name => FlattenSeq(t) = u
  BY <1>14, <1>15
<1>18. Grown(FlattenSeq(t), u, r, r[column] = name)
  BY <1>16, <1>17 DEF Grown
<1>. QED
  BY <1>6, <1>12, <1>15, <1>18, Zenon

(* Nothing is found where no row has the name.                             *)
LEMMA RowsNone ==
  ASSUME NEW S, NEW rows \in Seq(S), NEW column, NEW name,
         \A i \in 1..Len(rows) : rows[i][column] # name
  PROVE  RowsWith(rows, column, name) = <<>>
<1>1. PICK n \in Nat : n = Len(rows) /\ DOMAIN rows = 1..n
  OBVIOUS
<1>2. PICK s : s = [i \in DOMAIN rows |-> IF rows[i][column] = name THEN <<rows[i]>> ELSE <<>>]
  OBVIOUS
<1>3. RowsWith(rows, column, name) = FlattenSeq(s)
  BY <1>2, Zenon DEF RowsWith
<1>4. PICK E : E = {}
  OBVIOUS
<1>5. \A i \in 1..n : s[i] = <<>>
  BY <1>1, <1>2
<1>6. PICK W : W = {<<>>}
  OBVIOUS
<1>7. s \in Seq(W)
  <2>1. s = [i \in 1..n |-> s[i]] /\ \A i \in 1..n : s[i] \in W
    BY <1>1, <1>2, <1>5, <1>6
  <2>. QED
    BY <2>1, SeqIf
<1>8. FlattenSeq(s) \in W
  <2>1. W \in SUBSET Seq(E) /\ <<>> \in W
    BY <1>6
  <2>2. \A x, y \in W : x \o y \in W
    BY <1>6
  <2>. QED
    BY <1>7, <2>1, <2>2, FlattenClosed
<1>. QED
  BY <1>3, <1>6, <1>8

(* What is found are rows.                                                 *)
LEMMA RowsTyped ==
  ASSUME NEW S, NEW rows \in Seq(S), NEW column, NEW name
  PROVE  RowsWith(rows, column, name) \in Seq(S)
<1>1. CASE rows = <<>>
  <2>1. \A i \in 1..Len(rows) : rows[i][column] # name
    BY <1>1
  <2>2. RowsWith(rows, column, name) = <<>>
    BY <2>1, RowsNone
  <2>. QED
    BY <2>2
<1>2. CASE rows # <<>>
  <2>1. PICK r : r = rows[1]
    OBVIOUS
  <2>2. r \in S
    BY <1>2, <2>1
  <2>3. PICK more : more = Append(rows, r)
    OBVIOUS
  <2>. QED
    BY <2>2, <2>3, RowsMore DEF Grown
<1>. QED
  BY <1>1, <1>2

AllWith(rows, column, name) == \A i \in 1..Len(rows) : rows[i][column] = name

Longer(all, rows, new, yes) == all = IF yes THEN rows \o new ELSE rows

(* Rows of one name behind the others: all of them are found, or none.     *)
LEMMA RowsBehind ==
  ASSUME NEW S, NEW rows \in Seq(S), NEW column, NEW name, NEW other,
         NEW new \in Seq(S), AllWith(new, column, other)
  PROVE  Longer(RowsWith(rows \o new, column, name), RowsWith(rows, column, name), new,
                name = other)
<1>. DEFINE P(m) == \A t \in Seq(S) :
                       Len(t) = m /\ (\A i \in 1..Len(t) : t[i][column] = other) =>
                          RowsWith(rows \o t, column, name) =
                             IF name = other THEN RowsWith(rows, column, name) \o t
                             ELSE RowsWith(rows, column, name)
            A == {m \in Nat : P(m)}
<1>1. RowsWith(rows, column, name) \in Seq(S)
  BY RowsTyped
<1>2. PICK w \in Seq(S) : w = RowsWith(rows, column, name)
  BY <1>1
<1>3. 0 \in A
  <2>1. ASSUME NEW t \in Seq(S), Len(t) = 0
        PROVE  RowsWith(rows \o t, column, name) = IF name = other THEN w \o t ELSE w
    <3>1. t = <<>>
      BY <2>1
    <3>2. rows \o t = rows /\ w \o t = w
      BY <1>1, <1>2, <3>1
    <3>. QED
      BY <1>2, <3>2
  <2>. QED
    BY <1>2, <2>1
<1>4. ASSUME NEW m \in Nat, m \in A PROVE m + 1 \in A
  <2>1. SUFFICES ASSUME NEW t \in Seq(S), Len(t) = m + 1, \A i \in 1..Len(t) : t[i][column] = other
                 PROVE  RowsWith(rows \o t, column, name) = IF name = other THEN w \o t ELSE w
    BY <1>2
  <2>2. PICK u \in Seq(S), r \in S :
                t = Append(u, r) /\ Len(u) = m /\ r[column] = other
                /\ \A i \in 1..Len(u) : u[i][column] = other
    <3>1. PICK u : u = SubSeq(t, 1, Len(t) - 1)
      OBVIOUS
    <3>2. PICK r : r = t[Len(t)]
      OBVIOUS
    <3>3. t # <<>>
      BY <2>1
    <3>4. u \in Seq(S) /\ r \in S /\ t = Append(u, r)
      BY <3>1, <3>2, <3>3, FrontLast
    <3>5. Len(u) = m /\ r[column] = other /\ \A i \in 1..Len(u) : u[i][column] = other
      BY <2>1, <3>2, <3>4
    <3>. QED
      BY <3>4, <3>5
  <2>3. RowsWith(rows \o u, column, name) = IF name = other THEN w \o u ELSE w
    BY <1>2, <1>4, <2>2
  <2>4. PICK v : v = rows \o u
    OBVIOUS
  <2>5. v \in Seq(S) /\ rows \o t = Append(v, r)
    BY <2>2, <2>4
  <2>6. /\ r[column] = name =>
              RowsWith(rows \o t, column, name) = Append(RowsWith(v, column, name), r)
        /\ r[column] # name => RowsWith(rows \o t, column, name) = RowsWith(v, column, name)
    <3>1. PICK more : more = rows \o t
      OBVIOUS
    <3>2. more = Append(v, r) /\ v \in Seq(S) /\ r \in S
      BY <2>5, <3>1
    <3>3. Grown(more, v, r, TRUE)
      BY <3>2 DEF Grown
    <3>4. Grown(RowsWith(more, column, name), RowsWith(v, column, name), r, r[column] = name)
      BY <3>2, <3>3, RowsMore, Zenon
    <3>5. PICK a : a = RowsWith(more, column, name)
      OBVIOUS
    <3>6. PICK b : b = RowsWith(v, column, name)
      OBVIOUS
    <3>7. Grown(a, b, r, r[column] = name)
      BY <3>4, <3>5, <3>6, Zenon
    <3>8. (r[column] = name => a = Append(b, r)) /\ (r[column] # name => a = b)
      BY <3>7 DEF Grown
    <3>. QED
      BY <3>1, <3>5, <3>6, <3>8, Zenon
  <2>7. CASE name = other
    <3>1. RowsWith(rows \o t, column, name) = Append(w \o u, r)
      BY <2>2, <2>3, <2>4, <2>6, <2>7
    <3>2. w \o t = Append(w \o u, r)
      <4>1. t = Append(u, r)
        BY <2>2
      <4>. QED
        BY <4>1, AppendConcat
    <3>. QED
      BY <2>7, <3>1, <3>2
  <2>8. CASE name # other
    BY <2>2, <2>3, <2>4, <2>6, <2>8
  <2>. QED
    BY <2>7, <2>8
<1>. HIDE DEF P
<1>. HIDE DEF A
<1>5. Nat \subseteq A
  BY <1>3, <1>4, SetInduction
<1>6. P(Len(new))
  BY <1>5 DEF A
<1>. QED
  BY <1>6 DEF P, AllWith, Longer

----------------------------------------------------------------------------
(* A schema in which every name has the type it was declared with last. *)
Resolved(sch) == sch \in Declarations /\ Schema[sch] = sch

(* A sequence of declarations that agrees with another one, place by place. *)
LEMMA SameSchema ==
  ASSUME NEW fields \in Declarations,
         \A i \in 1..Len(fields) : fields[LastOf(fields, fields[i].name)] = fields[i]
  PROVE  Resolved(fields)
<1>1. PICK n \in Nat : n = Len(fields) /\ DOMAIN fields = 1..n
  BY DEF Declarations
<1>2. PICK g : g = Schema[fields]
  OBVIOUS
<1>3. g = [i \in 1..n |-> fields[LastOf(fields, fields[i].name)]]
  BY <1>1, <1>2 DEF Schema
<1>4. fields = [i \in 1..n |-> fields[i]]
  BY <1>1 DEF Declarations
<1>5. g = fields
  BY <1>1, <1>3, <1>4
<1>. QED
  BY <1>2, <1>5 DEF Resolved

(* Building a schema resolves the names; with distinct names there is      *)
(* nothing to resolve.                                                     *)
LEMMA SchemaResolves ==
  ASSUME NEW fields \in Declarations
  PROVE  Resolved(Schema[fields])
<1>1. PICK g : g = Schema[fields]
  OBVIOUS
<1>2. PICK n \in Nat : n = Len(fields)
  BY DEF Declarations
<1>3. /\ g \in Declarations /\ Len(g) = n
      /\ \A i \in 1..n : /\ LastOf(fields, fields[i].name) \in 1..n
                         /\ g[i] = fields[LastOf(fields, fields[i].name)]
                         /\ g[i].name = fields[i].name
  BY <1>1, <1>2, SchemaIs
<1>4. ASSUME NEW i \in 1..n PROVE g[LastOf(g, g[i].name)] = g[i]
  <2>1. PICK name : name = fields[i].name
    OBVIOUS
  <2>2. fields \in Seq(Declaration) /\ g \in Seq(Declaration)
    BY <1>3 DEF Declarations
  <2>3. name \in Names(fields) /\ name \in Names(g)
    <3>1. i \in DOMAIN fields /\ i \in DOMAIN g
      BY <1>2, <1>3, <2>2
    <3>2. fields[i].name \in Names(fields) /\ g[i].name \in Names(g)
      BY <3>1 DEF Names, ToSet
    <3>. QED
      BY <1>3, <2>1, <3>2
  <2>4. PICK a, b : a = LastOf(fields, name) /\ b = LastOf(g, name)
    OBVIOUS
  <2>5. a \in 1..n /\ fields[a].name = name /\ \A j \in 1..n : fields[j].name = name => j <= a
    BY <1>2, <2>2, <2>3, <2>4, LastIs
  <2>6. b \in 1..n /\ g[b].name = name /\ \A j \in 1..n : g[j].name = name => j <= b
    BY <1>3, <2>2, <2>3, <2>4, LastIs
  <2>7. a <= b /\ b <= a
    BY <1>3, <2>5, <2>6
  <2>8. a = b
    BY <2>5, <2>6, <2>7
  <2>9. g[i] = fields[a] /\ g[a] = fields[a] /\ g[i].name = name
    BY <1>3, <2>1, <2>4, <2>5
  <2>. QED
    BY <2>4, <2>8, <2>9
<1>5. Resolved(g)
  BY <1>3, <1>4, SameSchema
<1>. QED
  BY <1>1, <1>5

(* Distinct names need no resolving.                                       *)
LEMMA DistinctResolved ==
  ASSUME NEW fields \in Declarations,
         \A i, j \in 1..Len(fields) : fields[i].name = fields[j].name => i = j
  PROVE  Resolved(fields)
<1>1. fields \in Seq(Declaration)
  BY DEF Declarations
<1>2. ASSUME NEW i \in 1..Len(fields)
      PROVE  fields[LastOf(fields, fields[i].name)] = fields[i]
  <2>1. PICK a : a = LastOf(fields, fields[i].name)
    OBVIOUS
  <2>2. fields[i].name \in Names(fields)
    BY <1>1 DEF Names, ToSet
  <2>3. a \in 1..Len(fields) /\ fields[a].name = fields[i].name
    BY <1>1, <2>1, <2>2, LastIs
  <2>. QED
    BY <2>1, <2>3
<1>. QED
  BY <1>2, SameSchema

(* The catalogs' own schemas are such.                                     *)
LEMMA SystemResolved ==
  ASSUME NEW name \in DOMAIN SystemSchema
  PROVE  Resolved(SystemSchema[name]) /\ name \in STRING
<1>1. name \in {"tblcat", "fldcat", "viewcat"}
  BY DEF SystemSchema
<1>2. PICK sch : sch = SystemSchema[name]
  OBVIOUS
<1>3. sch \in Declarations /\ name \in STRING
  BY <1>2, SystemTyped
<1>4. /\ \A f : Name(f).name = f /\ Number(f).name = f
      /\ Field("viewdef", "VARCHAR", 100).name = "viewdef"
  BY DEF Name, Number, Field
<1>5. CASE name = "tblcat"
  <2>1. sch = <<Name("tblname"), Number("slotsize")>>
    BY <1>2, <1>5 DEF SystemSchema
  <2>2. Len(sch) = 2 /\ sch[1].name = "tblname" /\ sch[2].name = "slotsize"
    BY <1>4, <2>1
  <2>. QED
    BY <1>2, <1>3, <2>2, DistinctResolved
<1>6. CASE name = "fldcat"
  <2>1. sch = <<Name("tblname"), Name("fldname"), Number("type"), Number("length"),
                Number("offset")>>
    BY <1>2, <1>6 DEF SystemSchema
  <2>2. /\ Len(sch) = 5 /\ sch[1].name = "tblname" /\ sch[2].name = "fldname"
        /\ sch[3].name = "type" /\ sch[4].name = "length" /\ sch[5].name = "offset"
    BY <1>4, <2>1
  <2>. QED
    BY <1>2, <1>3, <2>2, DistinctResolved
<1>7. CASE name = "viewcat"
  <2>1. sch = <<Name("viewname"), Field("viewdef", "VARCHAR", 100)>>
    BY <1>2, <1>7 DEF SystemSchema
  <2>2. Len(sch) = 2 /\ sch[1].name = "viewname" /\ sch[2].name = "viewdef"
    BY <1>4, <2>1
  <2>. QED
    BY <1>2, <1>3, <2>2, DistinctResolved
<1>. QED
  BY <1>1, <1>2, <1>3, <1>5, <1>6, <1>7

----------------------------------------------------------------------------
(* The rows of a table's fields, read back, are its layout. *)
FieldRowsOf(name, sch) ==
  [i \in DOMAIN sch |-> [table |-> name, field |-> sch[i],
                         offset |-> LayoutOf[sch].offset[sch[i].name]]]

(* They are rows of fldcat, all of that table.                             *)
LEMMA FieldRowsTyped ==
  ASSUME NEW name \in STRING, NEW sch \in Declarations
  PROVE  /\ FieldRowsOf(name, sch) \in Seq(FieldRows)
         /\ Len(FieldRowsOf(name, sch)) = Len(sch)
         /\ \A i \in 1..Len(sch) : FieldRowsOf(name, sch)[i].table = name
<1>1. PICK n \in Nat : n = Len(sch) /\ DOMAIN sch = 1..n /\ sch \in Seq(Declaration)
  BY DEF Declarations
<1>2. PICK f : f = FieldRowsOf(name, sch)
  OBVIOUS
<1>3. PICK offset : offset = LayoutOf[sch].offset
  OBVIOUS
<1>4. f = [i \in 1..n |-> [table |-> name, field |-> sch[i], offset |-> offset[sch[i].name]]]
  BY <1>1, <1>2, <1>3 DEF FieldRowsOf
<1>5. offset \in [Names(sch) -> Nat]
  BY <1>3, LayoutIs
<1>6. ASSUME NEW i \in 1..n PROVE f[i] \in FieldRows /\ f[i].table = name
  <2>1. sch[i] \in Declaration /\ sch[i].name \in Names(sch)
    BY <1>1 DEF Names, ToSet
  <2>2. offset[sch[i].name] \in Nat
    BY <1>5, <2>1
  <2>3. f[i] = [table |-> name, field |-> sch[i], offset |-> offset[sch[i].name]]
    BY <1>4
  <2>. QED
    BY <2>1, <2>2, <2>3 DEF FieldRows
<1>7. f = [i \in 1..n |-> f[i]]
  BY <1>4
<1>8. f \in Seq(FieldRows) /\ Len(f) = n
  BY <1>6, <1>7, SeqIf
<1>. QED
  BY <1>1, <1>2, <1>6, <1>8

(* The layout that is read from them is the one they were written from.    *)
LEMMA ReadBack ==
  ASSUME NEW name \in STRING, NEW sch, Resolved(sch)
  PROVE  ReadLayout[FieldRowsOf(name, sch)][LayoutOf[sch].slotsize] = LayoutOf[sch]
<1>1. sch \in Declarations /\ Schema[sch] = sch
  BY DEF Resolved
<1>2. PICK n \in Nat : n = Len(sch) /\ DOMAIN sch = 1..n /\ sch \in Seq(Declaration)
  BY <1>1 DEF Declarations
<1>3. PICK rows : rows = FieldRowsOf(name, sch)
  OBVIOUS
<1>4. PICK offset : offset = LayoutOf[sch].offset
  OBVIOUS
<1>5. PICK size : size = LayoutOf[sch].slotsize
  OBVIOUS
<1>6. /\ offset \in [Names(sch) -> Nat] /\ size \in Nat
      /\ LayoutOf[sch] = [schema |-> sch, offset |-> offset, slotsize |-> size]
  BY <1>1, <1>4, <1>5, LayoutIs
<1>7. rows \in Seq(FieldRows) /\ DOMAIN rows = 1..n
  BY <1>1, <1>2, <1>3, FieldRowsTyped
<1>8. \A i \in 1..n : rows[i].field = sch[i] /\ rows[i].offset = offset[sch[i].name]
  BY <1>2, <1>3, <1>4 DEF FieldRowsOf
<1>9. [i \in DOMAIN rows |-> rows[i].field] = sch
  <2>1. PICK g : g = [i \in DOMAIN rows |-> rows[i].field]
    OBVIOUS
  <2>2. g = [i \in 1..n |-> sch[i]]
    BY <1>7, <1>8, <2>1
  <2>3. sch = [i \in 1..n |-> sch[i]]
    BY <1>2
  <2>. QED
    BY <2>1, <2>2, <2>3
<1>10. PICK back : back = [f \in Names(sch) |-> rows[LastOf(sch, f)].offset]
  OBVIOUS
<1>11. ReadLayout[rows] = [slotsize \in Nat |->
                             [schema |-> sch, offset |-> back, slotsize |-> slotsize]]
  BY <1>1, <1>7, <1>9, <1>10, Zenon DEF ReadLayout
<1>12. ASSUME NEW f \in Names(sch) PROVE back[f] = offset[f]
  <2>1. PICK a : a = LastOf(sch, f)
    OBVIOUS
  <2>2. a \in 1..n /\ sch[a].name = f
    BY <1>2, <2>1, LastIs
  <2>3. back[f] = rows[a].offset
    BY <1>10, <2>1
  <2>. QED
    BY <1>8, <2>2, <2>3
<1>13. back = offset
  BY <1>6, <1>10, <1>12
<1>14. ReadLayout[rows][size] = [schema |-> sch, offset |-> offset, slotsize |-> size]
  BY <1>6, <1>11, <1>13, Zenon
<1>. QED
  BY <1>3, <1>5, <1>6, <1>14

----------------------------------------------------------------------------
(* What a scan of the catalogs finds after a CREATE TABLE of a new name:   *)
(* the table as it was declared, and every other table as it was.          *)
LEMMA NoRowsYet ==
  ASSUME NEW c, Typed(c), NEW name, ~ HasTable(c, name)
  PROVE  TableRows(c, name) = <<>> /\ FieldsOf(c, name) = <<>>
<1>1. c.tblcat \in Seq(TableRow) /\ c.fldcat \in Seq(FieldRows)
  BY DEF Typed
<1>2. PICK tbl, fld : tbl = c.tblcat /\ fld = c.fldcat
  OBVIOUS
<1>3. ASSUME NEW i \in 1..Len(tbl) PROVE tbl[i]["table"] # name
  <2>1. tbl[i] \in ToSet(c.tblcat)
    BY <1>1, <1>2 DEF ToSet
  <2>. QED
    BY <2>1 DEF HasTable
<1>4. ASSUME NEW i \in 1..Len(fld) PROVE fld[i]["table"] # name
  <2>1. fld[i] \in ToSet(c.fldcat)
    BY <1>1, <1>2 DEF ToSet
  <2>2. HasTable(c, fld[i].table)
    BY <2>1 DEF Typed
  <2>. QED
    BY <2>2
<1>5. RowsWith(tbl, "table", name) = <<>>
  BY <1>1, <1>2, <1>3, RowsNone
<1>6. RowsWith(fld, "table", name) = <<>>
  BY <1>1, <1>2, <1>4, RowsNone
<1>. QED
  BY <1>2, <1>5, <1>6, Zenon DEF TableRows, FieldsOf

Creates(d, c, name, sch) == d = CreateTable(c, name, sch)

RowsNow(d, c, name, sch) ==
  /\ d.tblcat = Append(c.tblcat, [table |-> name, slotsize |-> LayoutOf[sch].slotsize])
  /\ d.fldcat = c.fldcat \o FieldRowsOf(name, sch)
  /\ d.viewcat = c.viewcat /\ DOMAIN d = DOMAIN c

(* What create_table writes.                                               *)
LEMMA RowsEntered ==
  ASSUME NEW c, Typed(c), NEW name \in STRING, NEW sch \in Declarations,
         NEW d, Creates(d, c, name, sch)
  PROVE  RowsNow(d, c, name, sch)
<1>1. DOMAIN c = {"tblcat", "fldcat", "viewcat"}
  BY DEF Typed, NoRows
<1>. QED
  BY <1>1 DEF Creates, CreateTable, FieldRowsOf, RowsNow

(* Of tblcat: the row of the table is the first of its name.               *)
LEMMA TableRowsEntered ==
  ASSUME NEW c, Typed(c), NEW name \in STRING, NEW sch \in Declarations, ~ HasTable(c, name),
         NEW d, Creates(d, c, name, sch)
  PROVE  /\ Head(TableRows(d, name)).slotsize = LayoutOf[sch].slotsize
         /\ \A n : n # name => TableRows(d, n) = TableRows(c, n)
<1>1. PICK size : size = LayoutOf[sch].slotsize
  OBVIOUS
<1>2. PICK row : row = [table |-> name, slotsize |-> size]
  OBVIOUS
<1>3. PICK tbl \in Seq(TableRow) : tbl = c.tblcat
  BY DEF Typed
<1>4. PICK more : more = Append(tbl, row)
  OBVIOUS
<1>5. d.tblcat = more
  <2>1. RowsNow(d, c, name, sch)
    BY RowsEntered, Zenon
  <2>. QED
    BY <1>1, <1>2, <1>3, <1>4, <2>1, Zenon DEF RowsNow
<1>6. row \in TableRow /\ row["table"] = name /\ row.slotsize = size
  <2>1. size \in Nat
    BY <1>1, LayoutIs
  <2>. QED
    BY <1>2, <2>1 DEF TableRow
<1>7. Grown(more, tbl, row, TRUE)
  BY <1>4 DEF Grown
<1>8. ASSUME NEW n
      PROVE  Grown(TableRows(d, n), TableRows(c, n), row, row["table"] = n)
  <2>1. Grown(RowsWith(more, "table", n), RowsWith(tbl, "table", n), row, row["table"] = n)
    BY <1>6, <1>7, RowsMore, Zenon
  <2>. QED
    BY <1>3, <1>5, <2>1, Zenon DEF TableRows
<1>9. TableRows(d, name) = <<row>>
  <2>1. PICK a, b : a = TableRows(d, name) /\ b = TableRows(c, name)
    OBVIOUS
  <2>2. Grown(a, b, row, row["table"] = name)
    BY <1>8, <2>1, Zenon
  <2>3. b = <<>>
    BY <2>1, NoRowsYet
  <2>4. a = Append(<<>>, row)
    BY <1>6, <2>2, <2>3 DEF Grown
  <2>. QED
    BY <2>1, <2>4
<1>10. ASSUME NEW n, n # name PROVE TableRows(d, n) = TableRows(c, n)
  <2>1. PICK a, b : a = TableRows(d, n) /\ b = TableRows(c, n)
    OBVIOUS
  <2>2. Grown(a, b, row, row["table"] = n)
    BY <1>8, <2>1, Zenon
  <2>3. a = b
    BY <1>6, <1>10, <2>2 DEF Grown
  <2>. QED
    BY <2>1, <2>3
<1>. QED
  BY <1>1, <1>6, <1>9, <1>10

FieldsNow(d, c, name, sch) ==
  /\ FieldsOf(d, name) = FieldRowsOf(name, sch)
  /\ \A n : n # name => FieldsOf(d, n) = FieldsOf(c, n)

(* Of fldcat: the fields of the table are those it was declared with.      *)
LEMMA FieldRowsEntered ==
  ASSUME NEW c, Typed(c), NEW name \in STRING, NEW sch \in Declarations, ~ HasTable(c, name),
         NEW d, Creates(d, c, name, sch)
  PROVE  FieldsNow(d, c, name, sch)
<1>1. PICK new \in Seq(FieldRows) :
              /\ new = FieldRowsOf(name, sch)
              /\ \A i \in 1..Len(new) : new[i]["table"] = name
  <2>1. PICK new : new = FieldRowsOf(name, sch)
    OBVIOUS
  <2>. QED
    BY <2>1, FieldRowsTyped
<1>2. PICK fld \in Seq(FieldRows) : fld = c.fldcat
  BY DEF Typed
<1>3. PICK after : after = fld \o new
  OBVIOUS
<1>4. d.fldcat = after
  BY <1>1, <1>2, <1>3, RowsEntered DEF RowsNow
<1>5. ASSUME NEW n
      PROVE  /\ n = name => RowsWith(fld \o new, "table", n) = RowsWith(fld, "table", n) \o new
             /\ n # name => RowsWith(fld \o new, "table", n) = RowsWith(fld, "table", n)
  <2>1. AllWith(new, "table", name)
    BY <1>1 DEF AllWith
  <2>2. Longer(RowsWith(fld \o new, "table", n), RowsWith(fld, "table", n), new, n = name)
    BY <2>1, RowsBehind, Zenon
  <2>3. PICK a, b : a = RowsWith(fld \o new, "table", n) /\ b = RowsWith(fld, "table", n)
    OBVIOUS
  <2>4. Longer(a, b, new, n = name)
    BY <2>2, <2>3, Zenon
  <2>5. (n = name => a = b \o new) /\ (n # name => a = b)
    BY <2>4 DEF Longer
  <2>. QED
    BY <2>3, <2>5, Zenon
<1>6. FieldsOf(d, name) = new
  <2>1. RowsWith(fld, "table", name) = <<>>
    BY <1>2, NoRowsYet DEF FieldsOf
  <2>2. <<>> \o new = new
    BY <1>1
  <2>3. RowsWith(fld \o new, "table", name) = new
    BY <1>5, <2>1, <2>2
  <2>. QED
    BY <1>3, <1>4, <2>3, Zenon DEF FieldsOf
<1>7. ASSUME NEW n, n # name PROVE FieldsOf(d, n) = FieldsOf(c, n)
  BY <1>2, <1>3, <1>4, <1>5, <1>7, Zenon DEF FieldsOf
<1>. QED
  BY <1>1, <1>6, <1>7 DEF FieldsNow

(* The tables and views of the catalogs after a CREATE TABLE.              *)
LEMMA TableEntered ==
  ASSUME NEW c, Typed(c), NEW name \in STRING, NEW sch, Resolved(sch), ~ HasTable(c, name),
         NEW d, Creates(d, c, name, sch)
  PROVE  /\ Tables(d) = Dict!With(Tables(c), name, LayoutOf[sch])
         /\ Views(d) = Views(c)
<1>1. sch \in Declarations
  BY DEF Resolved
<1>0. RowsNow(d, c, name, sch) /\ FieldsNow(d, c, name, sch)
  BY <1>1, RowsEntered, FieldRowsEntered, Zenon
<1>2. PICK old : old = {r.table : r \in ToSet(c.tblcat)}
  OBVIOUS
<1>3. {r.table : r \in ToSet(d.tblcat)} = old \cup {name}
  <2>1. PICK row : row = [table |-> name, slotsize |-> LayoutOf[sch].slotsize]
    OBVIOUS
  <2>2. PICK tbl \in Seq(TableRow) : tbl = c.tblcat
    BY DEF Typed
  <2>3. row \in TableRow /\ row.table = name
    BY <1>1, <2>1, LayoutIs DEF TableRow
  <2>4. d.tblcat = Append(tbl, row)
    BY <1>1, <2>1, <2>2, <1>0 DEF RowsNow
  <2>5. ToSet(Append(tbl, row)) = ToSet(tbl) \cup {row}
    BY <2>3, RangeAppend
  <2>6. PICK R, Q : R = ToSet(tbl) /\ Q = ToSet(d.tblcat)
    OBVIOUS
  <2>7. Q = R \cup {row} /\ old = {r.table : r \in R}
    BY <1>2, <2>2, <2>4, <2>5, <2>6
  <2>8. {r.table : r \in Q} = old \cup {name}
    BY <2>3, <2>7
  <2>. QED
    BY <2>6, <2>8
<1>4. GetLayout(d, name) = LayoutOf[sch]
  <2>1. Head(TableRows(d, name)).slotsize = LayoutOf[sch].slotsize
    BY <1>1, TableRowsEntered
  <2>2. FieldsOf(d, name) = FieldRowsOf(name, sch)
    BY <1>0, Zenon DEF FieldsNow
  <2>3. ReadLayout[FieldRowsOf(name, sch)][LayoutOf[sch].slotsize] = LayoutOf[sch]
    BY ReadBack
  <2>. QED
    BY <2>1, <2>2, <2>3, Zenon DEF GetLayout
<1>5. ASSUME NEW n, n # name PROVE GetLayout(d, n) = GetLayout(c, n)
  <2>1. TableRows(d, n) = TableRows(c, n)
    BY <1>1, <1>5, TableRowsEntered
  <2>2. FieldsOf(d, n) = FieldsOf(c, n)
    BY <1>0, <1>5, Zenon DEF FieldsNow
  <2>. QED
    BY <2>1, <2>2, Zenon DEF GetLayout
<1>6. PICK f : f = Tables(c)
  OBVIOUS
<1>7. f = [n \in old |-> GetLayout(c, n)]
  BY <1>2, <1>6, Zenon DEF Tables
<1>8. PICK layout : layout = LayoutOf[sch]
  OBVIOUS
<1>9. Tables(d) = [n \in old \cup {name} |-> GetLayout(d, n)]
  BY <1>3, Zenon DEF Tables
<1>10. Tables(d) = [n \in old \cup {name} |-> IF n = name THEN layout ELSE f[n]]
  <2>1. ASSUME NEW n \in old \cup {name}
        PROVE  GetLayout(d, n) = IF n = name THEN layout ELSE f[n]
    BY <1>4, <1>5, <1>7, <1>8
  <2>. QED
    BY <1>9, <2>1
<1>11. DOMAIN f = old
  BY <1>7
<1>12. Tables(d) = Dict!With(f, name, layout)
  BY <1>10, <1>11, Zenon DEF Dict!With
<1>13. d.viewcat = c.viewcat
  BY <1>0, Zenon DEF RowsNow
<1>14. Views(d) = Views(c)
  BY <1>13, Zenon DEF Views, GetViewDef, ViewRows
<1>. QED
  BY <1>6, <1>8, <1>12, <1>14

(* After a CREATE VIEW of a new name: the view as the lexer and the parser *)
(* read its text, and every table and every other view as it was.          *)
LEMMA ViewEntered ==
  ASSUME NEW c, DOMAIN c = DOMAIN NoRows, NEW S, c.viewcat \in Seq(S),
         NEW name, ~ HasView(c, name), NEW q, NEW d, d = CreateView(c, name, q)
  PROVE  /\ Views(d) = Dict!With(Views(c), name, ViewQuery[QueryText(q)])
         /\ Tables(d) = Tables(c)
         /\ \E T : d.viewcat \in Seq(T)
<1>1. PICK text : text = QueryText(q)
  OBVIOUS
<1>2. PICK row : row = [view |-> name, def |-> text]
  OBVIOUS
<1>3. DOMAIN c = {"tblcat", "fldcat", "viewcat"}
  BY DEF NoRows
<1>4. PICK T : T = S \cup {row}
  OBVIOUS
<1>5. PICK rows \in Seq(T) : rows = c.viewcat
  BY <1>4
<1>6. PICK more : more = Append(rows, row)
  OBVIOUS
<1>7. d.viewcat = more /\ d.tblcat = c.tblcat /\ d.fldcat = c.fldcat
  BY <1>1, <1>2, <1>3, <1>5, <1>6 DEF CreateView
<1>8. more \in Seq(T) /\ row \in T
  BY <1>4, <1>5, <1>6
<1>9. Grown(more, rows, row, TRUE) /\ row["view"] = name /\ row.def = text
  BY <1>2, <1>6 DEF Grown
<1>10. ASSUME NEW n PROVE Grown(ViewRows(d, n), ViewRows(c, n), row, row["view"] = n)
  <2>1. Grown(RowsWith(more, "view", n), RowsWith(rows, "view", n), row, row["view"] = n)
    BY <1>8, <1>9, RowsMore, Zenon
  <2>. QED
    BY <1>5, <1>7, <2>1, Zenon DEF ViewRows
<1>11. GetViewDef(d, name) = text
  <2>1. PICK a, b : a = ViewRows(d, name) /\ b = ViewRows(c, name)
    OBVIOUS
  <2>2. Grown(a, b, row, row["view"] = name)
    BY <1>10, <2>1, Zenon
  <2>3. b = <<>>
    <3>1. ASSUME NEW i \in 1..Len(rows) PROVE rows[i]["view"] # name
      <4>1. rows[i] \in ToSet(c.viewcat)
        BY <1>5 DEF ToSet
      <4>. QED
        BY <4>1 DEF HasView
    <3>2. RowsWith(rows, "view", name) = <<>>
      BY <3>1, RowsNone
    <3>. QED
      BY <1>5, <2>1, <3>2, Zenon DEF ViewRows
  <2>4. a = Append(<<>>, row)
    BY <1>9, <2>2, <2>3 DEF Grown
  <2>5. Head(a) = row
    BY <2>4
  <2>. QED
    BY <1>9, <2>1, <2>5, Zenon DEF GetViewDef
<1>12. ASSUME NEW n, n # name PROVE GetViewDef(d, n) = GetViewDef(c, n)
  <2>1. PICK a, b : a = ViewRows(d, n) /\ b = ViewRows(c, n)
    OBVIOUS
  <2>2. Grown(a, b, row, row["view"] = n)
    BY <1>10, <2>1, Zenon
  <2>3. a = b
    BY <1>9, <1>12, <2>2 DEF Grown
  <2>. QED
    BY <2>1, <2>3, Zenon DEF GetViewDef
<1>13. PICK old : old = {r.view : r \in ToSet(c.viewcat)}
  OBVIOUS
<1>14. {r.view : r \in ToSet(d.viewcat)} = old \cup {name}
  <2>1. ToSet(more) = ToSet(rows) \cup {row}
    BY <1>6, <1>8, RangeAppend
  <2>2. PICK R, Q : R = ToSet(rows) /\ Q = ToSet(more)
    OBVIOUS
  <2>3. Q = R \cup {row} /\ old = {r.view : r \in R} /\ row.view = name
    BY <1>5, <1>9, <1>13, <2>1, <2>2
  <2>4. {r.view : r \in Q} = old \cup {name}
    BY <2>3
  <2>. QED
    BY <1>7, <2>2, <2>4
<1>15. PICK f : f = Views(c)
  OBVIOUS
<1>16. f = [n \in old |-> ViewQuery[GetViewDef(c, n)]]
  BY <1>13, <1>15, Zenon DEF Views
<1>17. Views(d) = [n \in old \cup {name} |-> ViewQuery[GetViewDef(d, n)]]
  BY <1>14, Zenon DEF Views
<1>18. PICK made : made = ViewQuery[text]
  OBVIOUS
<1>19. Views(d) = [n \in old \cup {name} |-> IF n = name THEN made ELSE f[n]]
  <2>1. ASSUME NEW n \in old \cup {name}
        PROVE  ViewQuery[GetViewDef(d, n)] = IF n = name THEN made ELSE f[n]
    BY <1>11, <1>12, <1>16, <1>18
  <2>. QED
    BY <1>17, <2>1
<1>20. DOMAIN f = old
  BY <1>16
<1>21. Views(d) = Dict!With(f, name, made)
  BY <1>19, <1>20, Zenon DEF Dict!With
<1>22. Tables(d) = Tables(c)
  BY <1>7, Zenon DEF Tables, GetLayout, FieldsOf, TableRows
<1>. QED
  BY <1>1, <1>7, <1>8, <1>15, <1>18, <1>21, <1>22

(* A query without string constants is kept as a client writes it. *)
LEMMA PlainText ==
  ASSUME NEW q, q.kind = "query", ~ HasString(q), q.parts[3] \in Seq(ToSet(q.parts[3]))
  PROVE  QueryText(q) = Written(q)
<1>1. PICK form : form = QueryForm
  OBVIOUS
<1>2. Form[q.kind] = form
  BY <1>1 DEF Form
<1>3. PICK p : p = q.parts
  OBVIOUS
<1>4. PICK T, v : v = p[3] /\ T = ToSet(v)
  OBVIOUS
<1>5. v \in Seq(T) /\ \A t \in T : t.lhs.type # "String" /\ t.rhs.type # "String"
  BY <1>3, <1>4 DEF HasString
<1>6. \A t \in T : TermText(t, FALSE) = TermText(t, TRUE)
  BY <1>5 DEF TermText, ConstantText
<1>7. PartText("where", v, FALSE) = PartText("where", v, TRUE)
  <2>1. PICK f : f = [k \in DOMAIN v |-> TermText(v[k], FALSE)]
    OBVIOUS
  <2>2. PICK g : g = [k \in DOMAIN v |-> TermText(v[k], TRUE)]
    OBVIOUS
  <2>3. \A k \in DOMAIN v : v[k] \in T
    BY <1>5
  <2>4. f = g
    BY <1>6, <2>1, <2>2, <2>3
  <2>5. PICK r : r = IF v = <<>> THEN <<>> ELSE <<Keyword("where")>> \o Join(f, Keyword("and"))
    OBVIOUS
  <2>6. PartText("where", v, FALSE) = r
    BY <2>1, <2>5 DEF PartText, Each
  <2>7. PartText("where", v, TRUE) = r
    BY <2>2, <2>4, <2>5 DEF PartText, Each
  <2>. QED
    BY <2>6, <2>7
<1>8. ASSUME NEW x PROVE PartText("ids", x, FALSE) = PartText("ids", x, TRUE)
  BY DEF PartText, Each
<1>9. ASSUME NEW k \in 1..5 PROVE Words(form, p, k, FALSE) = Words(form, p, k, TRUE)
  <2>1. CASE k \in {1, 3}
    BY <1>1, <2>1, QueryParts, Zenon DEF Words
  <2>2. CASE k \in {2, 4}
    <3>1. form[k].type = "Part" /\ form[k].val = "ids"
      BY <1>1, <2>2, QueryParts
    <3>. QED
      BY <1>8, <3>1, Zenon DEF Words
  <2>3. CASE k = 5
    <3>1. form[k].type = "Part" /\ form[k].val = "where" /\ PartsUpTo(form, k) = 3
      BY <1>1, <2>3, QueryParts
    <3>. QED
      BY <1>4, <1>7, <3>1, Zenon DEF Words
  <2>4. k \in {1, 3} \/ k \in {2, 4} \/ k = 5
    OBVIOUS
  <2>. QED
    BY <2>1, <2>2, <2>3, <2>4, Zenon
<1>10. DOMAIN form = 1..5
  BY <1>1, QueryParts
<1>11. [k \in DOMAIN form |-> Words(form, p, k, FALSE)] =
          [k \in DOMAIN form |-> Words(form, p, k, TRUE)]
  BY <1>9, <1>10
<1>. QED
  BY <1>2, <1>3, <1>11, Zenon DEF QueryText, Written, TextOf

(* And comes back from the catalog as the query it was.                    *)
LEMMA QueryReads ==
  ASSUME NEW q, IsStatement(q), q.kind = "query", ~ HasString(q)
  PROVE  ParseQuery(QueryText(q)) = q
<1>1. q.parts[3] \in Seq(ToSet(q.parts[3]))
  <2>1. PICK n \in Nat : Len(Form[q.kind]) = n /\ Filled(Form[q.kind], q.parts, n)
    BY StatementIs
  <2>2. Form[q.kind] = QueryForm
    BY DEF Form
  <2>3. n = 5
    BY <2>1, <2>2, QueryParts
  <2>4. 5 \in 1..n
    BY <2>3
  <2>5. IsPart("where", q.parts[3])
    BY <2>1, <2>2, <2>4, QueryParts, Zenon DEF Filled
  <2>. QED
    BY <2>5 DEF IsPart
<1>2. PICK w : w = Written(q)
  OBVIOUS
<1>3. QueryText(q) = w
  BY <1>1, <1>2, PlainText
<1>4. IsText(w)
  BY <1>2, WrittenPiece
<1>5. PICK R : R = ToSet(w)
  OBVIOUS
<1>6. w \in Seq(R) /\ Len(w) \in Nat
  BY <1>4, <1>5, TextIs DEF IsText
<1>7. PICK at \in Nat : at = Len(w) + 1
  BY <1>6
<1>8. Spells(w, 1, at, w)
  <2>1. 1 \in Nat \ {0} /\ 1 <= at /\ at <= Len(w) + 1 /\ Len(w) = at - 1
    BY <1>6, <1>7
  <2>2. \A k \in 1..at - 1 : w[k] = w[1 + k - 1]
    OBVIOUS
  <2>. QED
    BY <1>6, <2>1, <2>2, SpellsIf
<1>9. Closed(w, at)
  <2>1. TypeAt(w, at) = EndOfText.type
    BY <1>6, <1>7 DEF TypeAt
  <2>2. /\ \A c : Delim(c).type # EndOfText.type
        /\ \A x : Keyword(x).type # EndOfText.type
    BY DEF Delim, Keyword, Token, EndOfText
  <2>. QED
    BY <2>1, <2>2 DEF Closed, Is
<1>10. ParseAs(q.kind, w) = q
  BY <1>2, <1>4, <1>8, <1>9, ParseComplete
<1>. QED
  BY <1>3, <1>10 DEF ParseQuery

(* A view that a client's CREATE VIEW made.                                *)
LEMMA ViewReads ==
  ASSUME NEW s \in Range(Parsed), s.kind = "create_view",
         NEW q, q = Statement("query", Tail(s.parts)), ~ HasString(q)
  PROVE  ViewQuery[QueryText(q)] = q
<1>1. IsStatement(s)
  <2>1. PICK t \in Sent : s = Parsed[t]
    BY DEF Range, Parsed
  <2>2. NoStatement.kind # "create_view"
    BY DEF NoStatement, Statement
  <2>. QED
    BY <2>1, <2>2, ParsedIs
<1>2. IsStatement(q) /\ q.kind = "query"
  BY <1>1, ViewParts DEF Statement
<1>3. ParseQuery(QueryText(q)) = q
  BY <1>2, QueryReads
<1>4. PICK text : text = QueryText(q)
  OBVIOUS
<1>5. ViewQuery[text] = ParseQuery(text)
  <2>1. PICK made : made = {x \in Range(Parsed) : x.kind = "create_view"}
    OBVIOUS
  <2>2. PICK texts : texts = {QueryText(Statement("query", Tail(x.parts))) : x \in made}
    OBVIOUS
  <2>3. text \in texts
    BY <1>4, <2>1, <2>2
  <2>4. ViewQuery = [t \in texts |-> ParseQuery(t)]
    BY <2>1, <2>2, Zenon DEF ViewQuery
  <2>. QED
    BY <2>3, <2>4
<1>. QED
  BY <1>3, <1>4, <1>5

----------------------------------------------------------------------------
(* The dictionary's own statements, schemas and layouts are those of the   *)
(* catalogs.                                                               *)
LEMMA SameWords ==
  /\ Dict!NoStatement = NoStatement
  /\ \A kind, parts : Dict!Statement(kind, parts) = Statement(kind, parts)
  /\ \A q : Dict!HasString(q) <=> HasString(q)
<1>1. \A kind, parts : Dict!Statement(kind, parts) = Statement(kind, parts)
  BY Zenon DEF Dict!Statement, Statement
<1>2. Dict!NoStatement = NoStatement
  BY <1>1, Zenon DEF Dict!NoStatement, NoStatement
<1>3. \A q : Dict!HasString(q) <=> HasString(q)
  BY Zenon DEF Dict!HasString, HasString, Dict!ToSet, ToSet
<1>. QED
  BY <1>1, <1>2, <1>3

(* So are schemas and layouts.                                             *)
LEMMA SameLayouts == Dict!Schema = Schema /\ Dict!LayoutOf = LayoutOf
<1>1. Dict!Declarations = Declarations
  BY Zenon DEF Dict!Declarations, Declarations, Dict!Declaration, Declaration
<1>2. ASSUME NEW sch PROVE Dict!Names(sch) = Names(sch)
  BY Zenon DEF Dict!Names, Names, Dict!ToSet, ToSet
<1>3. ASSUME NEW sch, NEW i PROVE Dict!StartOf(sch, i) = StartOf(sch, i)
  BY Zenon DEF Dict!StartOf, StartOf, Dict!LengthInBytes, LengthInBytes, Dict!FlagBytes, FlagBytes
<1>4. ASSUME NEW sch, NEW i PROVE Dict!LastOf(sch, i) = LastOf(sch, i)
  BY Zenon DEF Dict!LastOf, LastOf
<1>5. ASSUME NEW sch PROVE Dict!Offsets(sch) = Offsets(sch)
  BY <1>2, <1>3, <1>4, Zenon DEF Dict!Offsets, Offsets
<1>6. Dict!LayoutOf = LayoutOf
  BY <1>1, <1>3, <1>5, Zenon DEF Dict!LayoutOf, LayoutOf
<1>7. Dict!Schema = Schema
  BY <1>1, <1>4, Zenon DEF Dict!Schema, Schema
<1>. QED
  BY <1>6, <1>7

----------------------------------------------------------------------------
(* What the dictionary sees of a step: the statement, the catalogs and the *)
(* last commit.                                                            *)
DictStep == [Dict!DictNext]_(Dict!dictVars)

(* A step that changes none of them is not seen.                           *)
LEMMA SeesNothing ==
  ASSUME stmt' = stmt, cat' = cat, saved' = saved
  PROVE  DictStep
BY DEF DictStep, Dict!dictVars

(* A statement that is none of the catalogs'.                              *)
LEMMA SeesOther ==
  ASSUME stmt'.kind \notin {"create_table", "create_view"}, cat' = cat, saved' = saved
  PROVE  DictStep
<1>1. Dict!DictOther(stmt')
  BY DEF Dict!DictOther
<1>. QED
  BY <1>1 DEF DictStep, Dict!DictNext

(* What is committed is what is kept.                                      *)
LEMMA SeesCommit ==
  ASSUME stmt' = stmt, cat' = cat, saved' = cat
  PROVE  DictStep
<1>1. Dict!DictCommit
  BY DEF Dict!DictCommit, Dict!Dict
<1>. QED
  BY <1>1 DEF DictStep, Dict!DictNext

(* A rollback or a stop brings back what was kept.                         *)
LEMMA SeesUndo ==
  ASSUME stmt' = NoStatement, cat' = saved, saved' = saved
  PROVE  DictStep
<1>1. Dict!DictUndo
  BY SameWords DEF Dict!DictUndo
<1>. QED
  BY <1>1 DEF DictStep, Dict!DictNext

(* The startup enters a table of the catalogs' own.                        *)
LEMMA SeesSystemTable ==
  ASSUME Typed(cat), NEW name \in DOMAIN SystemSchema, ~ HasTable(cat, name),
         cat' = CreateTable(cat, name, SystemSchema[name]), stmt' = stmt, saved' = saved
  PROVE  DictStep
<1>1. Resolved(SystemSchema[name]) /\ name \in STRING
  BY SystemResolved
<1>2. PICK sch : sch = SystemSchema[name]
  OBVIOUS
<1>3. Creates(cat', cat, name, sch)
  BY <1>2 DEF Creates
<1>4. Tables(cat') = Dict!With(Tables(cat), name, LayoutOf[sch]) /\ Views(cat') = Views(cat)
  BY <1>1, <1>2, <1>3, TableEntered
<1>5. Dict!DictSystemTable(name)
  BY <1>2, <1>4, SameLayouts DEF Dict!DictSystemTable
<1>. QED
  BY <1>5 DEF DictStep, Dict!DictNext

(* A CREATE TABLE of a new name.                                           *)
LEMMA SeesTable ==
  ASSUME Typed(cat), NEW s, IsStatement(s), s.kind = "create_table", ~ HasTable(cat, s.parts[1]),
         cat' = CreateTable(cat, s.parts[1], Schema[s.parts[2]]), stmt' = s, saved' = saved
  PROVE  DictStep
<1>1. PICK name, sch : name = s.parts[1] /\ sch = Schema[s.parts[2]]
  OBVIOUS
<1>2. name \in STRING /\ Resolved(sch)
  BY <1>1, TableParts, SchemaResolves
<1>3. Creates(cat', cat, name, sch) /\ ~ HasTable(cat, name)
  BY <1>1 DEF Creates
<1>4. Tables(cat') = Dict!With(Tables(cat), name, LayoutOf[sch]) /\ Views(cat') = Views(cat)
  BY <1>2, <1>3, TableEntered
<1>5. Dict!DictCreateTable(stmt')
  BY <1>1, <1>4, SameLayouts DEF Dict!DictCreateTable
<1>. QED
  BY <1>5 DEF DictStep, Dict!DictNext

(* A CREATE VIEW of a new name.                                            *)
LEMMA SeesView ==
  ASSUME Typed(cat), NEW S, cat.viewcat \in Seq(S),
         NEW s \in Range(Parsed), s.kind = "create_view", ~ HasView(cat, s.parts[1]),
         cat' = CreateView(cat, s.parts[1], Statement("query", Tail(s.parts))),
         stmt' = s, saved' = saved
  PROVE  DictStep
<1>1. PICK name, q : name = s.parts[1] /\ q = Statement("query", Tail(s.parts))
  OBVIOUS
<1>2. PICK made : made = ViewQuery[QueryText(q)]
  OBVIOUS
<1>3. Views(cat') = Dict!With(Views(cat), name, made) /\ Tables(cat') = Tables(cat)
  BY <1>1, <1>2, ViewEntered DEF Typed
<1>4. ~ HasString(q) => made = q
  BY <1>1, <1>2, ViewReads
<1>5. PICK f, g : f = Views(cat) /\ g = Views(cat')
  OBVIOUS
<1>6. /\ DOMAIN g = DOMAIN f \cup {name}
      /\ \A v \in DOMAIN f \ {name} : g[v] = f[v]
      /\ ~ HasString(q) => g = Dict!With(f, name, q)
  BY <1>3, <1>4, <1>5 DEF Dict!With
<1>7. Dict!DictCreateView(stmt')
  BY <1>1, <1>3, <1>5, <1>6, SameWords DEF Dict!DictCreateView
<1>. QED
  BY <1>7 DEF DictStep, Dict!DictNext

----------------------------------------------------------------------------
(* What the refinement is inductive with: a system table is entered once.  *)
Listed(c) == \E S : c.viewcat \in Seq(S)

TableNames(c) == {n \in STRING : HasTable(c, n)}

NewInv ==
    /\ Listed(cat) /\ Listed(saved)
    /\ ~ dir => proc = "down" /\ TableNames(cat) = {}
    /\ proc = "tblcat" => TableNames(cat) = {}
    /\ proc = "fldcat" => TableNames(cat) \subseteq {"tblcat"}
    /\ proc = "viewcat" => TableNames(cat) \subseteq {"tblcat", "fldcat"}

DictInv == TypeInv /\ SentInv /\ NewInv

(* A new table adds its name to the names of the tables, and no view.      *)
LEMMA NamesEntered ==
  ASSUME NEW c, Typed(c), Listed(c), NEW name \in STRING, NEW sch \in Declarations,
         NEW d, Creates(d, c, name, sch)
  PROVE  Listed(d) /\ TableNames(d) = TableNames(c) \cup {name}
<1>1. Rows(c)
  BY DEF Typed, Rows
<1>2. \A n : HasTable(d, n) <=> HasTable(c, n) \/ n = name
  BY <1>1, TableCreated DEF Creates
<1>3. d.viewcat = c.viewcat
  <2>1. RowsNow(d, c, name, sch)
    BY RowsEntered, Zenon
  <2>. QED
    BY <2>1, Zenon DEF RowsNow
<1>. QED
  BY <1>2, <1>3 DEF Listed, TableNames

(* The startup enters the three tables into empty catalogs.                *)
LEMMA Init_New == Init => NewInv
<1>. SUFFICES ASSUME Init PROVE NewInv
  OBVIOUS
<1>1. cat = NoRows /\ saved = NoRows /\ proc = "down"
  BY DEF Init
<1>2. <<>> \in Seq({}) /\ NoRows.viewcat = <<>> /\ NoRows.tblcat = <<>>
  BY DEF NoRows
<1>3. Listed(NoRows)
  BY <1>2 DEF Listed
<1>4. TableNames(NoRows) = {}
  <2>1. ToSet(NoRows.tblcat) = {}
    BY <1>2 DEF ToSet
  <2>. QED
    BY <2>1 DEF TableNames, HasTable
<1>. QED
  BY <1>1, <1>3, <1>4 DEF NewInv

(* A startup step enters a table that was not there.                       *)
LEMMA SystemStep ==
  ASSUME DictInv, NEW name \in DOMAIN SystemSchema, NEW next, CreateSystemTable(name, next),
         name \notin TableNames(cat)
  PROVE  DictStep /\ Listed(cat') /\ TableNames(cat') = TableNames(cat) \cup {name}
<1>1. /\ cat' = CreateTable(cat, name, SystemSchema[name]) /\ stmt' = stmt /\ saved' = saved
  BY DEF CreateSystemTable, At, sqlVars, diskVars
<1>2. Typed(cat) /\ Listed(cat)
  BY DEF DictInv, TypeInv, NewInv
<1>3. SystemSchema[name] \in Declarations /\ name \in STRING
  BY SystemTyped
<1>4. ~ HasTable(cat, name)
  BY <1>3 DEF TableNames
<1>5. Creates(cat', cat, name, SystemSchema[name])
  BY <1>1 DEF Creates
<1>6. Listed(cat') /\ TableNames(cat') = TableNames(cat) \cup {name}
  BY <1>2, <1>3, <1>5, NamesEntered
<1>7. DictStep
  BY <1>1, <1>2, <1>4, SeesSystemTable
<1>. QED
  BY <1>6, <1>7

(* An update command of a careful client.                                  *)
LEMMA UpdateStep ==
  ASSUME FreshNames, DictInv, NEW sending \in Sent \ Queries,
         ExecuteUpdate(sending, Parsed[sending])
  PROVE  DictStep /\ Listed(cat')
<1>1. PICK s : s = Parsed[sending]
  OBVIOUS
<1>2. ExecuteUpdate(sending, s)
  BY <1>1
<1>3. stmt' = s /\ saved' = saved /\ Careful(s)
  BY <1>2 DEF ExecuteUpdate, diskVars
<1>4. Typed(cat) /\ Listed(cat)
  BY DEF DictInv, TypeInv, NewInv
<1>5. /\ IsStatement(s) \/ s = NoStatement
      /\ NoStatement.kind \notin {"create_table", "create_view"}
  BY <1>1, ParsedIs DEF NoStatement, Statement
<1>6. CASE s.kind = "create_table"
  <2>1. cat' = CreateTable(cat, s.parts[1], Schema[s.parts[2]])
    BY <1>2, <1>6 DEF ExecuteUpdate, NoStatement, Statement
  <2>2. IsStatement(s)
    BY <1>5, <1>6
  <2>3. ~ HasTable(cat, s.parts[1])
    BY <1>3, <1>6 DEF Careful, Fresh
  <2>4. DictStep
    BY <1>3, <1>4, <1>6, <2>1, <2>2, <2>3, SeesTable
  <2>5. PICK name, sch : name = s.parts[1] /\ sch = Schema[s.parts[2]]
    OBVIOUS
  <2>6. name \in STRING /\ sch \in Declarations
    BY <1>6, <2>2, <2>5, TableParts, SchemaIs
  <2>7. Creates(cat', cat, name, sch)
    BY <2>1, <2>5 DEF Creates
  <2>8. Listed(cat')
    BY <1>4, <2>6, <2>7, NamesEntered
  <2>. QED
    BY <2>4, <2>8
<1>7. CASE s.kind = "create_view"
  <2>1. cat' = CreateView(cat, s.parts[1], Statement("query", Tail(s.parts)))
    BY <1>2, <1>7 DEF ExecuteUpdate, NoStatement, Statement
  <2>2. ~ HasView(cat, s.parts[1])
    BY <1>3, <1>7 DEF Careful, Fresh
  <2>3. s \in Range(Parsed)
    <3>1. sending \in DOMAIN Parsed
      BY DEF Parsed
    <3>. QED
      BY <1>1, <3>1 DEF Range
  <2>4. PICK S : cat.viewcat \in Seq(S)
    BY <1>4 DEF Listed
  <2>5. DictStep
    BY <1>3, <1>4, <1>7, <2>1, <2>2, <2>3, <2>4, SeesView
  <2>6. PICK name, q : name = s.parts[1] /\ q = Statement("query", Tail(s.parts))
    OBVIOUS
  <2>7. Listed(cat')
    BY <1>4, <2>1, <2>2, <2>4, <2>6, ViewEntered DEF Typed, Listed
  <2>. QED
    BY <2>5, <2>7
<1>8. CASE s.kind \notin {"create_table", "create_view"}
  <2>1. cat' = cat
    BY <1>2, <1>8 DEF ExecuteUpdate
  <2>. QED
    BY <1>3, <1>4, <1>8, <2>1, SeesOther
<1>. QED
  BY <1>6, <1>7, <1>8

(* Every step is a step of the dictionary, or one it does not see.         *)
LEMMA Next_Dict ==
  ASSUME FreshNames, DictInv, [Next]_vars
  PROVE  DictStep /\ NewInv'
<1>. USE DEF DictInv, NewInv
<1>0. TypeInv' /\ SentInv'
  BY Next_Types, Next_Sent
<1>1. ASSUME stmt' = stmt, cat' = cat, saved' = saved, dir' = dir,
             proc' = proc \/ (dir /\ proc' \notin {"tblcat", "fldcat", "viewcat"})
      PROVE  DictStep /\ NewInv'
  BY <1>1, SeesNothing DEF Listed, TableNames, HasTable
<1>2. CASE UNCHANGED vars
  BY <1>1, <1>2 DEF vars, diskVars, sqlVars
<1>3. CASE Start
  <2>1. stmt' = stmt /\ cat' = cat /\ saved' = saved /\ dir'
        /\ proc' = IF dir THEN "recover" ELSE "tblcat"
    BY <1>3 DEF Start, sqlVars
  <2>. QED
    BY <2>1, SeesNothing DEF Listed, TableNames, HasTable
<1>4. CASE Recover \/ Refresh
  BY <1>1, <1>4 DEF Recover, Refresh, At, diskVars, sqlVars
<1>5. CASE Open
  <2>1. stmt' = stmt /\ cat' = cat /\ saved' = cat /\ dir' = dir /\ dir /\ proc' = "open"
    BY <1>5 DEF Open, At, sqlVars
  <2>. QED
    BY <2>1, SeesCommit DEF Listed
<1>6. CASE CreateSystemTable("tblcat", "fldcat")
  <2>1. "tblcat" \in DOMAIN SystemSchema
    BY DEF SystemSchema
  <2>2. saved' = saved /\ dir' = dir /\ dir /\ proc = "tblcat" /\ proc' = "fldcat"
    BY <1>6 DEF CreateSystemTable, At, diskVars
  <2>3. DictStep /\ Listed(cat') /\ TableNames(cat') = TableNames(cat) \cup {"tblcat"}
    BY <1>6, <2>1, <2>2, SystemStep
  <2>. QED
    BY <2>2, <2>3
<1>7. CASE CreateSystemTable("fldcat", "viewcat")
  <2>1. "fldcat" \in DOMAIN SystemSchema
    BY DEF SystemSchema
  <2>2. saved' = saved /\ dir' = dir /\ dir /\ proc = "fldcat" /\ proc' = "viewcat"
    BY <1>7 DEF CreateSystemTable, At, diskVars
  <2>3. DictStep /\ Listed(cat') /\ TableNames(cat') = TableNames(cat) \cup {"fldcat"}
    BY <1>7, <2>1, <2>2, SystemStep
  <2>. QED
    BY <2>2, <2>3
<1>8. CASE CreateSystemTable("viewcat", "refresh")
  <2>1. "viewcat" \in DOMAIN SystemSchema
    BY DEF SystemSchema
  <2>2. saved' = saved /\ dir' = dir /\ dir /\ proc = "viewcat" /\ proc' = "refresh"
    BY <1>8 DEF CreateSystemTable, At, diskVars
  <2>3. DictStep /\ Listed(cat') /\ TableNames(cat') = TableNames(cat) \cup {"viewcat"}
    BY <1>8, <2>1, <2>2, SystemStep
  <2>. QED
    BY <2>2, <2>3
<1>9. CASE Stop
  <2>1. stmt' = NoStatement /\ cat' = saved /\ saved' = saved /\ dir' = dir /\ dir
        /\ proc' = "down"
    BY <1>9 DEF Stop
  <2>. QED
    BY <2>1, SeesUndo DEF Listed
<1>10. CASE PlanStep \/ UseTempTable
  BY <1>1, <1>10 DEF PlanStep, UseTempTable, diskVars, sqlVars
<1>11. CASE Return
  <2>1. stmt' = NoStatement /\ cat' = cat /\ saved' = saved /\ dir' = dir /\ proc' = proc
    BY <1>11 DEF Return, diskVars
  <2>2. stmt'.kind \notin {"create_table", "create_view"}
    BY <2>1 DEF NoStatement, Statement
  <2>. QED
    BY <2>1, <2>2, SeesOther DEF Listed, TableNames, HasTable
<1>12. CASE Commit
  <2>1. stmt' = stmt /\ cat' = cat /\ saved' = cat /\ dir' = dir /\ proc' = proc /\ proc = "open"
    BY <1>12 DEF Commit, Calm, sqlVars
  <2>. QED
    BY <2>1, SeesCommit DEF Listed
<1>13. CASE Rollback
  <2>1. stmt' = stmt /\ cat' = saved /\ saved' = saved /\ dir' = dir /\ proc' = proc
        /\ proc = "open" /\ sent = NoText
    BY <1>13 DEF Rollback, Calm, diskVars, sqlVars
  <2>2. stmt' = NoStatement
    BY <2>1 DEF SentInv
  <2>. QED
    BY <2>1, <2>2, SeesUndo DEF Listed
<1>14. ASSUME NEW sending \in Queries, CreateQueryPlan(sending, Parsed[sending])
       PROVE  DictStep /\ NewInv'
  <2>1. stmt' = Parsed[sending] /\ cat' = cat /\ saved' = saved /\ dir' = dir /\ proc' = proc
    BY <1>14 DEF CreateQueryPlan, diskVars
  <2>2. stmt'.kind \notin {"create_table", "create_view"}
    <3>1. sending \in Sent
      BY DEF Queries
    <3>2. Parsed[sending].kind \in {"query", NoStatement.kind}
      BY <3>1, ParsedIs
    <3>. QED
      BY <2>1, <3>2 DEF NoStatement, Statement
  <2>. QED
    BY <2>1, <2>2, SeesOther DEF Listed, TableNames, HasTable
<1>15. ASSUME NEW sending \in Sent \ Queries, ExecuteUpdate(sending, Parsed[sending])
       PROVE  DictStep /\ NewInv'
  <2>1. saved' = saved /\ dir' = dir /\ proc' = proc /\ proc = "open"
    BY <1>15 DEF ExecuteUpdate, Calm, diskVars
  <2>2. DictStep /\ Listed(cat')
    BY <1>15, UpdateStep
  <2>. QED
    BY <2>1, <2>2 DEF Listed
<1>. QED
  BY <1>2, <1>3, <1>4, <1>5, <1>6, <1>7, <1>8, <1>9, <1>10, <1>11, <1>12, <1>13, <1>14, <1>15
     DEF Next, Startup

(* The catalogs of no database are the empty dictionary.                   *)
LEMMA Init_Dict == Init => Dict!DictInit
<1>. SUFFICES ASSUME Init PROVE Dict!DictInit
  OBVIOUS
<1>1. cat = NoRows /\ saved = NoRows /\ stmt = NoStatement
  BY DEF Init
<1>2. ToSet(NoRows.tblcat) = {} /\ ToSet(NoRows.viewcat) = {}
  BY DEF NoRows, ToSet
<1>3. PICK none : none = {}
  OBVIOUS
<1>4. {r.table : r \in ToSet(NoRows.tblcat)} = none /\ {r.view : r \in ToSet(NoRows.viewcat)} = none
  BY <1>2, <1>3
<1>5. Tables(NoRows) = [n \in none |-> GetLayout(NoRows, n)]
  BY <1>4, Zenon DEF Tables
<1>6. Views(NoRows) = [n \in none |-> ViewQuery[GetViewDef(NoRows, n)]]
  BY <1>4, Zenon DEF Views
<1>7. Dict!Nothing = [n \in none |-> n]
  BY <1>3, Zenon DEF Dict!Nothing
<1>8. Tables(NoRows) = Dict!Nothing /\ Views(NoRows) = Dict!Nothing
  BY <1>3, <1>5, <1>6, <1>7
<1>. QED
  BY <1>1, <1>8, SameWords DEF Dict!DictInit, Dict!Dict

(* For every statement, declaration and number of processes, when clients  *)
(* take a new name for each table and view: a table has in every later     *)
(* transaction and process the layout it was created with, a view is the   *)
(* query it was created as unless that has a string constant, and what is  *)
(* not committed goes as a whole (tablemgr.cpp, viewmgr.cpp, simpledb.cpp).*)
THEOREM TablesAndViewsLast ==
  ASSUME FreshNames
  PROVE  Spec => ImplementsDictionary
<1>1. Init => DictInv /\ Dict!DictInit
  BY Init_Types, Init_Sent, Init_New, Init_Dict DEF DictInv
<1>2. DictInv /\ [Next]_vars => DictInv' /\ [Dict!DictNext]_(Dict!dictVars)
  BY Next_Types, Next_Sent, Next_Dict DEF DictInv, DictStep
<1>. QED
  BY <1>1, <1>2, PTL DEF Spec, ImplementsDictionary, Dict!DictSpec

----------------------------------------------------------------------------
(* A page.                                                                 *)
Pages == [0..BlockSize - 1 -> Byte]

(* Do these bytes stand there?                                             *)
Holds(page, at, bytes) == \A k \in 1..Len(bytes) : page[at + k - 1] = bytes[k]

(* An integer is four bytes.                                               *)
LEMMA IntIsBytes ==
  ASSUME NEW n \in Int
  PROVE  /\ IntBytes(n) \in Seq(Byte) /\ Len(IntBytes(n)) = 4
         /\ IntBytes(n)[1] = (((n \div 256) \div 256) \div 256) % 256
         /\ IntBytes(n)[2] = ((n \div 256) \div 256) % 256
         /\ IntBytes(n)[3] = (n \div 256) % 256 /\ IntBytes(n)[4] = n % 256
<1>1. /\ (((n \div 256) \div 256) \div 256) % 256 \in Byte /\ ((n \div 256) \div 256) % 256 \in Byte
      /\ (n \div 256) % 256 \in Byte /\ n % 256 \in Byte
  BY DEF Byte
<1>. QED
  BY <1>1 DEF IntBytes

(* The integer with these four bytes.                                      *)
High(byte) == IF byte >= 128 THEN byte - 256 ELSE byte

(* Of an integer of 32 bits nothing is lost.                               *)
LEMMA BytesAreInt ==
  ASSUME NEW n \in Int32
  PROVE  /\ n \in Int
         /\ n = ((High((((n \div 256) \div 256) \div 256) % 256) * 256
                    + (((n \div 256) \div 256) % 256)) * 256 + ((n \div 256) % 256)) * 256
                  + (n % 256)
<1>1. n \in Int /\ -128 * 256 * 256 * 256 <= n /\ n < 128 * 256 * 256 * 256
  <2>1. PICK m \in Nat : m = MaxInt /\ m + 1 = 128 * 256 * 256 * 256
    BY DEF MaxInt
  <2>2. n \in - m - 1..m
    BY <2>1, Zenon DEF Int32
  <2>. QED
    BY <2>1, <2>2
<1>2. PICK q, a : q = n \div 256 /\ a = n % 256 /\ q \in Int /\ a \in 0..255 /\ n = 256 * q + a
  BY <1>1
<1>3. PICK r, b : r = q \div 256 /\ b = q % 256 /\ r \in Int /\ b \in 0..255 /\ q = 256 * r + b
  BY <1>2
<1>4. PICK h, c : h = r \div 256 /\ c = r % 256 /\ h \in Int /\ c \in 0..255 /\ r = 256 * h + c
  BY <1>3
<1>5. -128 * 256 * 256 <= q /\ q < 128 * 256 * 256
  BY <1>1, <1>2
<1>6. -128 * 256 <= r /\ r < 128 * 256
  BY <1>3, <1>5
<1>7. -128 <= h /\ h < 128
  BY <1>4, <1>6
<1>8. High(h % 256) = h
  <2>1. CASE h >= 0
    BY <1>4, <1>7, <2>1 DEF High
  <2>2. CASE h < 0
    BY <1>4, <1>7, <2>2 DEF High
  <2>. QED
    BY <1>4, <2>1, <2>2
<1>9. n = ((h * 256 + c) * 256 + b) * 256 + a
  BY <1>2, <1>3, <1>4
<1>. QED
  BY <1>1, <1>2, <1>3, <1>4, <1>8, <1>9

(* What is written to a page stands there, and nothing else changes.       *)
LEMMA BytesWritten ==
  ASSUME NEW page \in Pages, NEW at \in Nat, NEW bytes \in Seq(Byte), at + Len(bytes) <= BlockSize
  PROVE  /\ SetBytes(page, at, bytes) \in Pages
         /\ Holds(SetBytes(page, at, bytes), at, bytes)
         /\ \A p \in 0..BlockSize - 1 :
               p \notin at..at + Len(bytes) - 1 => SetBytes(page, at, bytes)[p] = page[p]
<1>1. PICK n \in Nat : n = Len(bytes) /\ \A k \in 1..n : bytes[k] \in Byte
  OBVIOUS
<1>2. DOMAIN page = 0..BlockSize - 1 /\ BlockSize \in Nat
  BY BlockSizeAssumption DEF Pages
<1>3. SetBytes(page, at, bytes) =
        [p \in 0..BlockSize - 1 |-> IF p \in at..at + n - 1 THEN bytes[p - at + 1] ELSE page[p]]
  BY <1>1, <1>2 DEF SetBytes
<1>4. ASSUME NEW p \in 0..BlockSize - 1, p \in at..at + n - 1
      PROVE  p - at + 1 \in 1..n
  BY <1>1, <1>2, <1>4
<1>5. ASSUME NEW k \in 1..n PROVE at + k - 1 \in 0..BlockSize - 1 /\ at + k - 1 \in at..at + n - 1
                                 /\ at + k - 1 - at + 1 = k
  BY <1>1, <1>2
<1>6. \A p \in 0..BlockSize - 1 : page[p] \in Byte
  BY DEF Pages
<1>7. SetBytes(page, at, bytes) \in Pages
  BY <1>1, <1>3, <1>4, <1>6 DEF Pages
<1>8. Holds(SetBytes(page, at, bytes), at, bytes)
  BY <1>1, <1>3, <1>5 DEF Holds
<1>. QED
  BY <1>1, <1>3, <1>7, <1>8

(* Four bytes of an integer are read as that integer.                      *)
LEMMA IntRead ==
  ASSUME NEW page, NEW at \in Nat, NEW n \in Int32, Holds(page, at, IntBytes(n))
  PROVE  GetInt(page, at) = n
<1>1. n \in Int
  BY DEF Int32
<1>2. /\ page[at] = (((n \div 256) \div 256) \div 256) % 256
      /\ page[at + 1] = ((n \div 256) \div 256) % 256
      /\ page[at + 2] = (n \div 256) % 256 /\ page[at + 3] = n % 256
  <2>1. PICK b : /\ b = IntBytes(n) /\ Len(b) = 4
                 /\ b[1] = (((n \div 256) \div 256) \div 256) % 256
                 /\ b[2] = ((n \div 256) \div 256) % 256
                 /\ b[3] = (n \div 256) % 256 /\ b[4] = n % 256
    BY <1>1, IntIsBytes
  <2>2. \A k \in 1..4 : page[at + k - 1] = b[k]
    BY <2>1 DEF Holds
  <2>3. at + 1 - 1 = at /\ at + 2 - 1 = at + 1 /\ at + 3 - 1 = at + 2 /\ at + 4 - 1 = at + 3
    OBVIOUS
  <2>4. page[at] = b[1] /\ page[at + 1] = b[2] /\ page[at + 2] = b[3] /\ page[at + 3] = b[4]
    BY <2>2, <2>3
  <2>. QED
    BY <2>1, <2>4
<1>. QED
  BY <1>2, BytesAreInt DEF GetInt, High

(* A sequence behind another one.                                          *)
LEMMA BehindAnother ==
  ASSUME NEW S, NEW b \in Seq(S), NEW s \in Seq(S)
  PROVE  /\ b \o s \in Seq(S) /\ Len(b \o s) = Len(b) + Len(s)
         /\ \A k \in 1..Len(b) : (b \o s)[k] = b[k]
         /\ \A k \in 1..Len(s) : (b \o s)[Len(b) + k] = s[k]
OBVIOUS

(* A string behind its length is read as that string.                      *)
LEMMA StringRead ==
  ASSUME NEW page, NEW at \in Nat, NEW s \in Seq(Byte), at + 4 + Len(s) <= BlockSize,
         Holds(page, at, IntBytes(Len(s)) \o s)
  PROVE  GetString(page, at) = s
<1>1. PICK n \in Nat : n = Len(s) /\ n \in Int32
  <2>1. PICK n \in Nat : n = Len(s)
    OBVIOUS
  <2>2. PICK m \in Nat : m = MaxInt
    BY DEF MaxInt
  <2>3. n \in - m - 1..m
    BY <2>1, <2>2, BlockSizeAssumption
  <2>4. n \in Int32
    BY <2>2, <2>3, Zenon DEF Int32
  <2>. QED
    BY <2>1, <2>4
<1>2. PICK b \in Seq(Byte) : b = IntBytes(n) /\ Len(b) = 4
  BY <1>1, IntIsBytes
<1>3. \A k \in 1..4 + n : page[at + k - 1] = (b \o s)[k]
  <2>1. PICK w : w = b \o s
    OBVIOUS
  <2>2. Holds(page, at, w)
    BY <1>1, <1>2, <2>1
  <2>3. Len(w) = Len(b) + Len(s)
    BY <2>1, Zenon, BehindAnother
  <2>4. \A k \in 1..4 + n : page[at + k - 1] = w[k]
    BY <1>1, <1>2, <2>2, <2>3 DEF Holds
  <2>. QED
    BY <2>1, <2>4
<1>4. Holds(page, at, IntBytes(n))
  <2>1. \A k \in 1..4 : (b \o s)[k] = b[k]
    <3>1. \A k \in 1..Len(b) : (b \o s)[k] = b[k]
      BY BehindAnother, Zenon
    <3>. QED
      BY <1>2, <3>1, Zenon
  <2>2. \A k \in 1..4 : page[at + k - 1] = b[k]
    <3>1. \A k \in 1..4 : k \in 1..4 + n
      BY <1>1
    <3>. QED
      BY <1>3, <2>1, <3>1
  <2>. QED
    BY <1>2, <2>2 DEF Holds
<1>5. GetInt(page, at) = n
  BY <1>1, <1>4, IntRead
<1>6. GetString(page, at) = [k \in 1..n |-> page[at + 3 + k]]
  <2>1. ~ (n < 0 \/ at + 4 + n > BlockSize)
    BY <1>1, BlockSizeAssumption
  <2>. QED
    BY <1>5, <2>1 DEF GetString
<1>7. ASSUME NEW k \in 1..n PROVE page[at + 3 + k] = s[k]
  <2>1. 4 + k \in 1..4 + n /\ at + (4 + k) - 1 = at + 3 + k
    BY <1>1
  <2>2. (b \o s)[4 + k] = s[k]
    <3>1. \A j \in 1..Len(s) : (b \o s)[Len(b) + j] = s[j]
      BY BehindAnother
    <3>. QED
      BY <1>1, <1>2, <3>1
  <2>. QED
    BY <1>3, <2>1, <2>2
<1>8. PICK t : t = [k \in 1..n |-> page[at + 3 + k]]
  OBVIOUS
<1>9. s \in [1..n -> Byte]
  BY <1>1, LenProperties
<1>10. t \in [1..n -> Byte] /\ \A k \in 1..n : t[k] = s[k]
  BY <1>7, <1>8, <1>9
<1>11. t = s
  BY <1>9, <1>10
<1>. QED
  BY <1>6, <1>8, <1>11

----------------------------------------------------------------------------
(* A field ends before the later ones start.                               *)
LEMMA StartsGrow ==
  ASSUME NEW sch \in Declarations, NEW i \in 1..Len(sch), NEW j \in i + 1..Len(sch) + 1
  PROVE  StartOf(sch, i) + LengthInBytes(sch[i]) <= StartOf(sch, j)
<1>. DEFINE end == StartOf(sch, i) + LengthInBytes(sch[i])
            T == {m \in Nat : i + 1 + m <= Len(sch) + 1 => end <= StartOf(sch, i + 1 + m)}
<1>1. PICK n \in Nat : Len(sch) = n /\ \A k \in 1..n : LengthInBytes(sch[k]) \in Nat
  <2>1. sch \in Seq(Declaration)
    BY DEF Declarations, Declaration
  <2>2. PICK n \in Nat : Len(sch) = n /\ \A k \in 1..n : sch[k] \in Declaration
    BY <2>1
  <2>3. ASSUME NEW k \in 1..n PROVE LengthInBytes(sch[k]) \in Nat
    <3>1. sch[k] \in Declaration
      BY <2>2
    <3>. QED
      BY <3>1 DEF Declaration, LengthInBytes
  <2>. QED
    BY <2>2, <2>3
<1>2. StartOf(sch, i + 1) = end
  BY StartIs
<1>3. \A k \in 1..n + 1 : StartOf(sch, k) \in Nat
  BY <1>1, StartTyped
<1>4. end \in Nat
  BY <1>1, <1>3
<1>. HIDE DEF end
<1>5. 0 \in T
  BY <1>1, <1>2, <1>4
<1>6. ASSUME NEW m \in Nat, m \in T PROVE m + 1 \in T
  <2>. SUFFICES ASSUME i + 1 + (m + 1) <= Len(sch) + 1 PROVE end <= StartOf(sch, i + 1 + (m + 1))
    OBVIOUS
  <2>1. PICK k \in 1..n : k = i + 1 + m
    BY <1>1
  <2>2. end <= StartOf(sch, k)
    BY <1>1, <1>6, <2>1
  <2>3. StartOf(sch, k + 1) = StartOf(sch, k) + LengthInBytes(sch[k])
    BY <1>1, StartIs
  <2>4. StartOf(sch, k) \in Nat /\ LengthInBytes(sch[k]) \in Nat /\ i + 1 + (m + 1) = k + 1
    BY <1>1, <1>3, <2>1
  <2>. QED
    BY <1>4, <2>2, <2>3, <2>4
<1>. HIDE DEF T
<1>7. Nat \subseteq T
  BY <1>5, <1>6, SetInduction
<1>8. j - (i + 1) \in T /\ i + 1 + (j - (i + 1)) = j
  BY <1>1, <1>7
<1>. QED
  BY <1>1, <1>8 DEF T, end

(* What the bytes of a slot promise: every field lies behind the flag and  *)
(* inside the slot, and no two fields share a byte.                        *)
FieldLength(layout, f) == LengthInBytes(FieldOf(layout, f))

Cells(layout) ==
  /\ layout.slotsize \in Nat /\ layout.slotsize >= FlagBytes
  /\ DOMAIN layout.offset = Names(layout.schema)
  /\ \A f \in Names(layout.schema) :
        /\ layout.offset[f] \in Nat /\ layout.offset[f] >= FlagBytes
        /\ FieldOf(layout, f) \in Declaration
        /\ layout.offset[f] + FieldLength(layout, f) <= layout.slotsize
        /\ \A g \in Names(layout.schema) :
              \/ f = g
              \/ layout.offset[f] + FieldLength(layout, f) <= layout.offset[g]
              \/ layout.offset[g] + FieldLength(layout, g) <= layout.offset[f]

(* So does the layout of every schema.                                     *)
LEMMA LayoutCells ==
  ASSUME NEW sch \in Declarations
  PROVE  Cells(LayoutOf[sch])
<1>. DEFINE start(i) == StartOf(sch, i)
            size(i) == LengthInBytes(sch[i])
<1>1. PICK layout : layout = LayoutOf[sch]
  OBVIOUS
<1>2. /\ layout.schema = sch /\ layout.slotsize = StartOf(sch, Len(sch) + 1)
      /\ layout.offset = [f \in Names(sch) |-> StartOf(sch, LastOf(sch, f))]
  <2>1. LayoutOf[sch] = [schema |-> sch, offset |-> Offsets(sch),
                         slotsize |-> StartOf(sch, Len(sch) + 1)]
    BY DEF LayoutOf
  <2>. QED
    BY <1>1, <2>1 DEF Offsets
<1>3. PICK n \in Nat : Len(sch) = n /\ \A k \in 1..n : sch[k] \in Declaration
  <2>1. sch \in Seq(Declaration)
    BY DEF Declarations, Declaration
  <2>. QED
    BY <2>1
<1>4. \A k \in 1..n : size(k) \in Nat
  <2>1. ASSUME NEW k \in 1..n PROVE size(k) \in Nat
    <3>1. sch[k] \in Declaration
      BY <1>3
    <3>. QED
      BY <3>1 DEF Declaration, LengthInBytes
  <2>. QED
    BY <2>1
<1>5. \A k \in 1..n + 1 : start(k) \in Nat
  BY <1>3, StartTyped
<1>6. \A i, j \in 1..n + 1 : i < j => start(i) + size(i) <= start(j)
  BY <1>3, StartsGrow
<1>7. \A k \in 1..n + 1 : start(k) >= FlagBytes
  <2>1. start(1) = FlagBytes
    BY StartIs
  <2>2. ASSUME NEW k \in 1..n + 1, 1 < k PROVE start(k) >= FlagBytes
    <3>1. start(1) + size(1) <= start(k) /\ size(1) \in Nat /\ start(k) \in Nat
      BY <1>3, <1>4, <1>5, <1>6, <2>2
    <3>. QED
      BY <2>1, <3>1 DEF FlagBytes
  <2>. QED
    BY <1>3, <2>1, <2>2 DEF FlagBytes
<1>8. ASSUME NEW f \in Names(sch)
      PROVE  /\ LastOf(sch, f) \in 1..n /\ sch[LastOf(sch, f)].name = f
             /\ layout.offset[f] = start(LastOf(sch, f))
             /\ FieldLength(layout, f) = size(LastOf(sch, f))
             /\ FieldOf(layout, f) = sch[LastOf(sch, f)]
  <2>1. sch \in Seq(Declaration)
    BY DEF Declarations, Declaration
  <2>2. LastOf(sch, f) \in 1..n /\ sch[LastOf(sch, f)].name = f
    BY <1>3, <2>1, LastIs
  <2>3. FieldOf(layout, f) = sch[LastOf(sch, f)]
    BY <1>2 DEF FieldOf
  <2>. QED
    BY <1>2, <2>2, <2>3 DEF FieldLength
<1>9. layout.slotsize = start(n + 1) /\ n + 1 \in 1..n + 1
  BY <1>2, <1>3
<1>. HIDE DEF start, size
<1>10. ASSUME NEW f \in Names(sch)
       PROVE  /\ layout.offset[f] \in Nat /\ layout.offset[f] >= FlagBytes
              /\ FieldOf(layout, f) \in Declaration
              /\ layout.offset[f] + FieldLength(layout, f) <= layout.slotsize
  <2>1. PICK i \in 1..n : i = LastOf(sch, f)
    BY <1>8
  <2>2. i \in 1..n + 1 /\ i < n + 1
    OBVIOUS
  <2>3. start(i) \in Nat /\ start(i) >= FlagBytes /\ start(i) + size(i) <= start(n + 1)
    BY <1>5, <1>6, <1>7, <1>9, <2>2
  <2>. QED
    BY <1>3, <1>8, <1>9, <2>1, <2>3
<1>11. ASSUME NEW f \in Names(sch), NEW g \in Names(sch), f # g
       PROVE  \/ layout.offset[f] + FieldLength(layout, f) <= layout.offset[g]
              \/ layout.offset[g] + FieldLength(layout, g) <= layout.offset[f]
  <2>1. PICK i \in 1..n, j \in 1..n : i = LastOf(sch, f) /\ j = LastOf(sch, g)
    BY <1>8
  <2>2. i # j
    BY <1>8, <1>11, <2>1
  <2>3. i \in 1..n + 1 /\ j \in 1..n + 1 /\ (i < j \/ j < i)
    BY <2>2
  <2>4. start(i) + size(i) <= start(j) \/ start(j) + size(j) <= start(i)
    BY <1>6, <2>3
  <2>. QED
    BY <1>8, <2>1, <2>4
<1>12. layout.slotsize \in Nat /\ layout.slotsize >= FlagBytes
  BY <1>5, <1>7, <1>9
<1>13. DOMAIN layout.offset = Names(layout.schema) /\ layout.schema = sch
  BY <1>2
<1>14. Cells(layout)
  BY <1>10, <1>11, <1>12, <1>13 DEF Cells
<1>. QED
  BY <1>1, <1>14

----------------------------------------------------------------------------
(* The slots of a block do not overlap.                                    *)
LEMMA SlotsApart ==
  ASSUME NEW size \in Nat, NEW j \in Nat, NEW k \in Nat, j < k
  PROVE  j * size \in Nat /\ k * size \in Nat /\ (j + 1) * size = j * size + size
         /\ j * size + size <= k * size
<1>1. PICK d \in Nat : k = j + 1 + d
  <2>1. k - (j + 1) \in Nat /\ k = j + 1 + (k - (j + 1))
    OBVIOUS
  <2>. QED
    BY <2>1
<1>2. k * size = j * size + size + d * size /\ (j + 1) * size = j * size + size
  BY <1>1
<1>3. d * size \in Nat /\ j * size \in Nat /\ d * size >= 0
  OBVIOUS
<1>. QED
  BY <1>2, <1>3

(* The slots of a block are the first so many.                             *)
LEMMA SlotsAre ==
  ASSUME NEW layout, Cells(layout)
  PROVE  \E n \in Nat : /\ ValidSlots(layout) = 0..n - 1 /\ Cardinality(ValidSlots(layout)) = n
                        /\ \A k \in 0..n - 1 : /\ Offset(layout, k) \in Nat
                                               /\ Offset(layout, k) + layout.slotsize <= BlockSize
<1>1. PICK size \in Nat : layout.slotsize = size /\ size >= 4
  BY DEF Cells, FlagBytes
<1>2. BlockSize \in Nat
  BY BlockSizeAssumption
<1>. DEFINE V == {k \in 0..BlockSize : (k + 1) * size <= BlockSize}
            A == {k \in Nat : ~ ((k + 1) * size <= BlockSize)}
<1>3. ValidSlots(layout) = V
  BY <1>1 DEF ValidSlots, Offset
<1>4. BlockSize \in A
  <2>1. (BlockSize + 1) * size >= BlockSize + 1
    BY <1>1, <1>2
  <2>. QED
    BY <1>1, <1>2, <2>1
<1>5. PICK n \in A : \A k \in A : n <= k
  BY <1>4, LeastNat
<1>6. n \in Nat /\ n <= BlockSize
  BY <1>4, <1>5
<1>7. ASSUME NEW k \in 0..n - 1 PROVE (k + 1) * size <= BlockSize
  <2>1. k \in Nat /\ k \notin A
    BY <1>5, <1>6
  <2>. QED
    BY <2>1
<1>8. ASSUME NEW k \in Nat, k >= n PROVE ~ ((k + 1) * size <= BlockSize)
  <2>1. (n + 1) * size > BlockSize
    BY <1>1, <1>2, <1>5, <1>6
  <2>2. (k + 1) * size >= (n + 1) * size
    <3>1. CASE k = n
      BY <3>1, <1>1, <1>6
    <3>2. CASE n < k
      <4>1. (n + 1) * size = n * size + size /\ n * size + size <= k * size
            /\ k * size \in Nat /\ n * size \in Nat
        BY <1>6, <3>2, SlotsApart
      <4>2. (k + 1) * size = k * size + size
        OBVIOUS
      <4>. QED
        BY <4>1, <4>2
    <3>. QED
      BY <1>6, <1>8, <3>1, <3>2
  <2>3. (k + 1) * size \in Nat /\ (n + 1) * size \in Nat
    BY <1>6
  <2>. QED
    BY <1>2, <2>1, <2>2, <2>3
<1>. HIDE DEF A
<1>9. V = 0..n - 1
  <2>1. ASSUME NEW k \in V PROVE k \in 0..n - 1
    <3>1. k \in Nat /\ (k + 1) * size <= BlockSize
      BY <1>2
    <3>2. ~ (k >= n)
      BY <1>8, <3>1
    <3>. QED
      BY <1>6, <3>1, <3>2
  <2>2. ASSUME NEW k \in 0..n - 1 PROVE k \in V
    <3>1. k \in 0..BlockSize
      BY <1>2, <1>6
    <3>. QED
      BY <1>7, <3>1
  <2>. QED
    BY <2>1, <2>2
<1>10. Cardinality(0..n - 1) = n
  BY <1>6, FS_Interval
<1>11. ASSUME NEW k \in 0..n - 1
       PROVE  Offset(layout, k) \in Nat /\ Offset(layout, k) + layout.slotsize <= BlockSize
  <2>1. k \in Nat /\ (k + 1) * size <= BlockSize
    BY <1>6, <1>7
  <2>2. (k + 1) * size = k * size + size /\ k * size \in Nat
    BY <2>1
  <2>3. Offset(layout, k) = k * size
    BY <1>1 DEF Offset
  <2>. QED
    BY <1>1, <2>1, <2>2, <2>3
<1>. QED
  BY <1>3, <1>6, <1>9, <1>10, <1>11

----------------------------------------------------------------------------
(* The bytes of a value.                                                   *)
Encoded(layout, f, const) ==
  IF FieldOf(layout, f).type = "INTEGER" THEN IntBytes(const.val)
  ELSE IntBytes(Len(const.val.chars)) \o const.val.chars

(* A slot of a block that is not used beyond its end.                      *)
Slot(layout, slot) == Cells(layout) /\ slot \in ValidSlots(layout)

(* A value that fits its field takes no more than the field's bytes.       *)
LEMMA EncodedFits ==
  ASSUME NEW layout, Cells(layout), NEW f, NEW const, Fits(layout, f, const)
  PROVE  /\ Encoded(layout, f, const) \in Seq(Byte)
         /\ Len(Encoded(layout, f, const)) \in Nat
         /\ Len(Encoded(layout, f, const)) <= FieldLength(layout, f)
         /\ FieldLength(layout, f) \in Nat
<1>1. PICK field : field = FieldOf(layout, f)
  OBVIOUS
<1>2. f \in Names(layout.schema) /\ field \in Declaration
  BY <1>1 DEF Cells, Fits
<1>3. field.type \in {"INTEGER", "VARCHAR"} /\ field.length \in Nat
  BY <1>2 DEF Declaration
<1>4. CASE field.type = "INTEGER"
  <2>1. PICK n \in Int : n = const.val
    BY <1>1, <1>4, BytesAreInt DEF Fits
  <2>2. Encoded(layout, f, const) = IntBytes(n) /\ FieldLength(layout, f) = 4
    BY <1>1, <1>4, <2>1 DEF Encoded, FieldLength, LengthInBytes
  <2>3. PICK b \in Seq(Byte) : b = IntBytes(n) /\ Len(b) = 4
    BY IntIsBytes
  <2>. QED
    BY <2>2, <2>3
<1>5. CASE field.type = "VARCHAR"
  <2>1. PICK s \in Seq(Byte) : s = const.val.chars /\ Len(s) <= field.length
    BY <1>1, <1>5 DEF Fits
  <2>2. PICK b \in Seq(Byte) : b = IntBytes(Len(s)) /\ Len(b) = 4
    <3>1. Len(s) \in Int
      OBVIOUS
    <3>. QED
      BY <3>1, IntIsBytes
  <2>3. Encoded(layout, f, const) = b \o s /\ FieldLength(layout, f) = 4 + field.length
    BY <1>1, <1>5, <2>1, <2>2 DEF Encoded, FieldLength, LengthInBytes
  <2>4. b \o s \in Seq(Byte) /\ Len(b \o s) = Len(b) + Len(s) /\ Len(s) \in Nat
    BY BehindAnother
  <2>. QED
    BY <1>3, <2>1, <2>2, <2>3, <2>4
<1>. QED
  BY <1>3, <1>4, <1>5

(* Where a field of a slot is.                                             *)
LEMMA FieldIsInSlot ==
  ASSUME NEW layout, NEW slot, Slot(layout, slot), NEW f \in Names(layout.schema)
  PROVE  /\ Offset(layout, slot) \in Nat /\ Position(layout, slot, f) \in Nat
         /\ layout.slotsize \in Nat /\ BlockSize \in Nat /\ FieldLength(layout, f) \in Nat
         /\ Offset(layout, slot) + FlagBytes <= Position(layout, slot, f)
         /\ Position(layout, slot, f) + FieldLength(layout, f)
               <= Offset(layout, slot) + layout.slotsize
         /\ Offset(layout, slot) + layout.slotsize <= BlockSize
<1>1. Cells(layout)
  BY DEF Slot
<1>2. PICK n \in Nat : /\ ValidSlots(layout) = 0..n - 1
                       /\ \A k \in 0..n - 1 : /\ Offset(layout, k) \in Nat
                                              /\ Offset(layout, k) + layout.slotsize <= BlockSize
  BY <1>1, SlotsAre
<1>3. Offset(layout, slot) \in Nat /\ Offset(layout, slot) + layout.slotsize <= BlockSize
  BY <1>2 DEF Slot
<1>4. /\ layout.offset[f] \in Nat /\ layout.offset[f] >= FlagBytes
      /\ layout.offset[f] + FieldLength(layout, f) <= layout.slotsize /\ layout.slotsize \in Nat
      /\ FieldOf(layout, f) \in Declaration
  BY <1>1 DEF Cells
<1>5. FieldLength(layout, f) \in Nat
  BY <1>4 DEF Declaration, FieldLength, LengthInBytes
<1>6. Position(layout, slot, f) = Offset(layout, slot) + layout.offset[f]
  BY DEF Position
<1>. QED
  BY <1>3, <1>4, <1>5, <1>6, BlockSizeAssumption DEF FlagBytes

(* Setting a value writes its bytes where the field is.                    *)
LEMMA ValWritten ==
  ASSUME NEW layout, NEW slot, Slot(layout, slot), NEW f, NEW const, Fits(layout, f, const),
         NEW page \in Pages
  PROVE  LET at  == Position(layout, slot, f)
             new == SetVal(layout, page, slot, f, const)
         IN  /\ new \in Pages /\ Holds(new, at, Encoded(layout, f, const))
             /\ \A p \in 0..BlockSize - 1 :
                   p \notin at..at + FieldLength(layout, f) - 1 => new[p] = page[p]
             /\ \A p \in 0..BlockSize - 1 :
                   p \notin at..at + Len(Encoded(layout, f, const)) - 1 => new[p] = page[p]
<1>1. Cells(layout) /\ f \in Names(layout.schema)
  BY DEF Slot, Fits
<1>2. PICK at \in Nat, size \in Nat : /\ at = Position(layout, slot, f)
                                       /\ size = FieldLength(layout, f)
                                  /\ at + size <= BlockSize
  BY <1>1, FieldIsInSlot
<1>3. PICK bytes \in Seq(Byte) : bytes = Encoded(layout, f, const) /\ Len(bytes) <= size
  BY <1>1, <1>2, EncodedFits
<1>4. PICK n \in Nat : Len(bytes) = n
  OBVIOUS
<1>5. SetVal(layout, page, slot, f, const) = SetBytes(page, at, bytes)
  BY <1>2, <1>3 DEF SetVal, SetInt, SetString, Encoded
<1>6. PICK new : new = SetBytes(page, at, bytes)
  OBVIOUS
<1>7. /\ new \in Pages /\ Holds(new, at, bytes)
      /\ \A p \in 0..BlockSize - 1 : p \notin at..at + n - 1 => new[p] = page[p]
  BY <1>2, <1>3, <1>4, <1>6, BlockSizeAssumption, BytesWritten
<1>8. \A p \in 0..BlockSize - 1 : p \notin at..at + size - 1 => p \notin at..at + n - 1
  BY <1>2, <1>3, <1>4, BlockSizeAssumption
<1>. QED
  BY <1>2, <1>3, <1>4, <1>5, <1>6, <1>7, <1>8

(* The bytes of a value are read as the value.                             *)
LEMMA ValRead ==
  ASSUME NEW layout, NEW slot, Slot(layout, slot), NEW f, NEW const, Fits(layout, f, const),
         NEW page, Holds(page, Position(layout, slot, f), Encoded(layout, f, const))
  PROVE  GetVal(layout, page, slot, f) = Plain(const)
<1>1. PICK field : field = FieldOf(layout, f)
  OBVIOUS
<1>2. f \in Names(layout.schema) /\ field \in Declaration /\ Cells(layout)
  BY <1>1 DEF Slot, Cells, Fits
<1>3. field.type \in {"INTEGER", "VARCHAR"}
  BY <1>2 DEF Declaration
<1>4. PICK at \in Nat : at = Position(layout, slot, f) /\ at + FieldLength(layout, f) <= BlockSize
  <2>1. /\ Position(layout, slot, f) \in Nat /\ Offset(layout, slot) \in Nat
        /\ layout.slotsize \in Nat /\ BlockSize \in Nat /\ FieldLength(layout, f) \in Nat
        /\ Position(layout, slot, f) + FieldLength(layout, f)
               <= Offset(layout, slot) + layout.slotsize
        /\ Offset(layout, slot) + layout.slotsize <= BlockSize
    BY <1>2, FieldIsInSlot
  <2>. QED
    BY <2>1
<1>5. CASE field.type = "INTEGER"
  <2>1. PICK n \in Int32 : n = const.val /\ const.type = "Int"
    BY <1>1, <1>5 DEF Fits
  <2>2. GetVal(layout, page, slot, f) = GetInt(page, at) /\ Encoded(layout, f, const) = IntBytes(n)
    BY <1>1, <1>4, <1>5, <2>1 DEF GetVal, Encoded
  <2>3. GetInt(page, at) = n
    BY <1>4, <2>2, IntRead
  <2>. QED
    BY <2>1, <2>2, <2>3 DEF Plain
<1>6. CASE field.type = "VARCHAR"
  <2>1. PICK s \in Seq(Byte) : s = const.val.chars /\ const.type = "String"
    BY <1>1, <1>6 DEF Fits
  <2>2. /\ GetVal(layout, page, slot, f) = GetString(page, at)
        /\ Encoded(layout, f, const) = IntBytes(Len(s)) \o s
    BY <1>1, <1>4, <1>6, <2>1 DEF GetVal, Encoded
  <2>3. at + 4 + Len(s) <= BlockSize
    <3>1. /\ Len(Encoded(layout, f, const)) <= FieldLength(layout, f)
          /\ FieldLength(layout, f) \in Nat /\ Len(Encoded(layout, f, const)) \in Nat
      BY <1>2, EncodedFits
    <3>2. PICK b \in Seq(Byte) : b = IntBytes(Len(s)) /\ Len(b) = 4
      <4>1. Len(s) \in Int
        OBVIOUS
      <4>. QED
        BY <4>1, IntIsBytes
    <3>3. Len(b \o s) = Len(b) + Len(s) /\ Len(s) \in Nat
      BY BehindAnother
    <3>. QED
      BY <1>4, <2>2, <3>1, <3>2, <3>3, BlockSizeAssumption
  <2>4. GetString(page, at) = s
    BY <1>4, <2>2, <2>3, StringRead
  <2>. QED
    BY <2>1, <2>2, <2>4 DEF Plain
<1>. QED
  BY <1>3, <1>5, <1>6

----------------------------------------------------------------------------
(* The values of a row, set one after the other.                           *)
AllFit(layout, fields, vals, n) == \A i \in 1..n : Fits(layout, fields[i], vals[i])

Sets(f, layout, page, slot, fields, vals, n) ==
  f = [k \in 0..n |-> IF k = 0 THEN page
                      ELSE SetVal(layout, f[k - 1], slot, fields[k], vals[k])]

(* The pages after each value exist.                                       *)
LEMMA SetsExist ==
  ASSUME NEW layout, NEW slot, Slot(layout, slot), NEW n \in Nat, NEW fields, NEW vals,
         AllFit(layout, fields, vals, n), NEW page \in Pages
  PROVE  \E f : Sets(f, layout, page, slot, fields, vals, n)
<1>. DEFINE set(k, q) == SetVal(layout, q, slot, fields[k], vals[k])
            step == [k \in 1..n |-> [q \in Pages |-> set(k, q)]]
<1>1. ASSUME NEW k \in 1..n, NEW q \in Pages PROVE set(k, q) \in Pages
  <2>1. Fits(layout, fields[k], vals[k])
    BY DEF AllFit
  <2>. QED
    BY <2>1, ValWritten
<1>. HIDE DEF set
<1>2. step \in [1..n -> [Pages -> Pages]]
  BY <1>1
<1>3. \A k \in 1..n : \A q \in Pages : step[k][q] = set(k, q)
  OBVIOUS
<1>. HIDE DEF step
<1>4. PICK f \in [0..n -> Pages] : f[0] = page /\ \A k \in 1..n : f[k] = step[k][f[k - 1]]
  BY <1>2, StepsExist
<1>5. ASSUME NEW k \in 1..n PROVE f[k] = set(k, f[k - 1])
  <2>1. k - 1 \in 0..n /\ f[k - 1] \in Pages
    BY <1>4
  <2>. QED
    BY <1>3, <1>4, <2>1
<1>6. f = [k \in 0..n |-> IF k = 0 THEN page ELSE set(k, f[k - 1])]
  <2>1. ASSUME NEW k \in 0..n PROVE f[k] = IF k = 0 THEN page ELSE set(k, f[k - 1])
    <3>1. k = 0 \/ k \in 1..n
      OBVIOUS
    <3>. QED
      BY <1>4, <1>5, <3>1
  <2>2. PICK g : g = [k \in 0..n |-> IF k = 0 THEN page ELSE set(k, f[k - 1])]
    OBVIOUS
  <2>3. g = [k \in 0..n |-> f[k]]
    BY <2>1, <2>2
  <2>4. f = [k \in 0..n |-> f[k]]
    OBVIOUS
  <2>. QED
    BY <2>2, <2>3, <2>4
<1>7. Sets(f, layout, page, slot, fields, vals, n)
  BY <1>6 DEF Sets, set
<1>. QED
  BY <1>7

(* As many as are given. *)
Given(n, fields, vals) == n = Min({Len(fields), Len(vals)})

(* The pages a row goes through, value by value.                           *)
RowPages(f, layout, page, slot, fields, vals, n) ==
  /\ f[0] = page /\ \A k \in 0..n : f[k] \in Pages
  /\ \A k \in 1..n : f[k] = SetVal(layout, f[k - 1], slot, fields[k], vals[k])
  /\ SetVals(layout, page, slot, fields, vals) = f[n]

(* SetVals is the page after the last of them.                             *)
LEMMA SetValsIs ==
  ASSUME NEW layout, NEW slot, Slot(layout, slot), NEW n \in Nat, NEW fields, NEW vals,
         Given(n, fields, vals), AllFit(layout, fields, vals, n), NEW page \in Pages
  PROVE  \E f : RowPages(f, layout, page, slot, fields, vals, n)
<1>. DEFINE F == CHOOSE f : Sets(f, layout, page, slot, fields, vals, n)
            h == [k \in 0..n |-> IF k = 0 THEN page
                                 ELSE SetVal(layout, F[k - 1], slot, fields[k], vals[k])]
            T == {m \in Nat : m <= n => F[m] \in Pages}
<1>1. Sets(F, layout, page, slot, fields, vals, n)
  BY SetsExist, Zenon
<1>2. F = h
  BY <1>1, Zenon DEF Sets
<1>3. \A k \in 0..n : h[k] = IF k = 0 THEN page
                             ELSE SetVal(layout, F[k - 1], slot, fields[k], vals[k])
  OBVIOUS
<1>4. SetVals(layout, page, slot, fields, vals) = F[n]
  BY Zenon DEF SetVals, Sets, Given
<1>. HIDE DEF F, h
<1>5. F[0] = page /\ \A k \in 1..n : F[k] = SetVal(layout, F[k - 1], slot, fields[k], vals[k])
  BY <1>2, <1>3
<1>6. 0 \in T
  BY <1>5
<1>7. ASSUME NEW m \in Nat, m \in T PROVE m + 1 \in T
  <2>. SUFFICES ASSUME m + 1 <= n PROVE F[m + 1] \in Pages
    OBVIOUS
  <2>1. F[m] \in Pages /\ m + 1 \in 1..n /\ m + 1 - 1 = m
    BY <1>7
  <2>2. F[m + 1] = SetVal(layout, F[m], slot, fields[m + 1], vals[m + 1])
    BY <1>5, <2>1
  <2>3. Fits(layout, fields[m + 1], vals[m + 1])
    BY <2>1 DEF AllFit
  <2>. QED
    BY <2>1, <2>2, <2>3, ValWritten
<1>. HIDE DEF T
<1>8. Nat \subseteq T
  BY <1>6, <1>7, SetInduction
<1>9. \A k \in 0..n : F[k] \in Pages
  BY <1>8 DEF T
<1>10. RowPages(F, layout, page, slot, fields, vals, n)
  BY <1>4, <1>5, <1>9, Zenon DEF RowPages
<1>. QED
  BY <1>10

(* Where the fields of a slot are.                                         *)
Within(layout, slot) ==
  Offset(layout, slot) + FlagBytes..Offset(layout, slot) + layout.slotsize - 1

(* A value leaves the bytes of other fields, and of other slots, alone.    *)
LEMMA ValKeeps ==
  ASSUME NEW layout, NEW slot, Slot(layout, slot), NEW f, NEW const, Fits(layout, f, const),
         NEW page \in Pages, NEW new, new = SetVal(layout, page, slot, f, const)
  PROVE  /\ \A p \in 0..BlockSize - 1 : p \notin Within(layout, slot) => new[p] = page[p]
         /\ \A g, c : Fits(layout, g, c) /\ f # g
                      /\ Holds(page, Position(layout, slot, g), Encoded(layout, g, c))
                         => Holds(new, Position(layout, slot, g), Encoded(layout, g, c))
<1>1. Cells(layout) /\ f \in Names(layout.schema)
  BY DEF Slot, Fits
<1>2. PICK at \in Nat, size \in Nat : /\ at = Position(layout, slot, f)
                                       /\ size = FieldLength(layout, f)
  BY <1>1, FieldIsInSlot
<1>3. \A p \in 0..BlockSize - 1 : p \notin at..at + size - 1 => new[p] = page[p]
  BY <1>2, ValWritten
<1>4. ASSUME NEW p \in 0..BlockSize - 1, p \notin Within(layout, slot) PROVE new[p] = page[p]
  <2>1. /\ Offset(layout, slot) \in Nat /\ layout.slotsize \in Nat /\ BlockSize \in Nat
        /\ Offset(layout, slot) + FlagBytes <= at
        /\ at + size <= Offset(layout, slot) + layout.slotsize
    BY <1>1, <1>2, FieldIsInSlot
  <2>2. p \notin at..at + size - 1
    BY <1>2, <1>4, <2>1 DEF Within, FlagBytes
  <2>. QED
    BY <1>3, <2>2
<1>5. ASSUME NEW g, NEW c, Fits(layout, g, c), f # g,
             Holds(page, Position(layout, slot, g), Encoded(layout, g, c))
      PROVE  Holds(new, Position(layout, slot, g), Encoded(layout, g, c))
  <2>1. g \in Names(layout.schema)
    BY <1>5 DEF Fits
  <2>2. PICK there \in Nat, room \in Nat :
            /\ there = Position(layout, slot, g) /\ room = FieldLength(layout, g)
            /\ there + room <= BlockSize /\ BlockSize \in Nat
    <3>1. /\ Position(layout, slot, g) \in Nat /\ Offset(layout, slot) \in Nat
          /\ layout.slotsize \in Nat /\ BlockSize \in Nat /\ FieldLength(layout, g) \in Nat
          /\ Position(layout, slot, g) + FieldLength(layout, g)
                 <= Offset(layout, slot) + layout.slotsize
          /\ Offset(layout, slot) + layout.slotsize <= BlockSize
      BY <2>1, FieldIsInSlot
    <3>. QED
      BY <3>1
  <2>3. there + room <= at \/ at + size <= there
    <3>1. PICK o \in Nat : o = Offset(layout, slot)
      BY <1>1, FieldIsInSlot
    <3>2. at = o + layout.offset[f] /\ there = o + layout.offset[g]
      BY <1>2, <2>2, <3>1 DEF Position
    <3>3. layout.offset[f] \in Nat /\ layout.offset[g] \in Nat
      BY <1>1, <2>1 DEF Cells
    <3>4. layout.offset[f] + size <= layout.offset[g] \/ layout.offset[g] + room <= layout.offset[f]
      BY <1>1, <1>2, <1>5, <2>1, <2>2 DEF Cells
    <3>. QED
      BY <3>1, <3>2, <3>3, <3>4
  <2>4. PICK bytes \in Seq(Byte) : bytes = Encoded(layout, g, c) /\ Len(bytes) <= room
    BY <1>1, <1>5, <2>2, EncodedFits
  <2>5. PICK n \in Nat : Len(bytes) = n /\ n <= room
    BY <2>4
  <2>6. ASSUME NEW k \in 1..n PROVE new[there + k - 1] = bytes[k]
    <3>1. page[there + k - 1] = bytes[k]
      BY <1>5, <2>2, <2>4, <2>5 DEF Holds
    <3>2. there + k - 1 \in 0..BlockSize - 1 /\ there + k - 1 \notin at..at + size - 1
      BY <2>2, <2>3, <2>5
    <3>. QED
      BY <1>3, <3>1, <3>2
  <2>. QED
    BY <2>2, <2>4, <2>5, <2>6 DEF Holds
<1>. QED
  BY <1>4, <1>5

----------------------------------------------------------------------------
(* After the values of a row: the last value of each field stands in its   *)
(* bytes, and nothing outside the fields of the slot has changed.          *)
LastGiven(fields, n, i) == \A j \in 1..n : j > i => fields[j] # fields[i]

Stands(page, layout, slot, fields, vals, n) ==
  \A i \in 1..n : LastGiven(fields, n, i) =>
     Holds(page, Position(layout, slot, fields[i]), Encoded(layout, fields[i], vals[i]))

(* So it is after the values of a row, given to an empty or an old one.    *)
LEMMA RowWritten ==
  ASSUME NEW layout, NEW slot, Slot(layout, slot), NEW n \in Nat, NEW fields, NEW vals,
         Given(n, fields, vals), AllFit(layout, fields, vals, n), NEW page \in Pages,
         NEW new, new = SetVals(layout, page, slot, fields, vals)
  PROVE  /\ new \in Pages
         /\ \A p \in 0..BlockSize - 1 : p \notin Within(layout, slot) => new[p] = page[p]
         /\ Stands(new, layout, slot, fields, vals, n)
<1>0. PICK f : RowPages(f, layout, page, slot, fields, vals, n)
  BY SetValsIs, Zenon
<1>1. /\ f[0] = page /\ \A k \in 0..n : f[k] \in Pages
      /\ \A k \in 1..n : f[k] = SetVal(layout, f[k - 1], slot, fields[k], vals[k])
      /\ SetVals(layout, page, slot, fields, vals) = f[n]
  BY <1>0, Zenon DEF RowPages
<1>. DEFINE Same(m) == \A p \in 0..BlockSize - 1 :
                          p \notin Within(layout, slot) => f[m][p] = page[p]
            T == {m \in Nat : m <= n => Same(m) /\ Stands(f[m], layout, slot, fields, vals, m)}
<1>2. 0 \in T
  BY <1>1 DEF Stands
<1>3. ASSUME NEW m \in Nat, m \in T PROVE m + 1 \in T
  <2>. SUFFICES ASSUME m + 1 <= n
                PROVE  Same(m + 1) /\ Stands(f[m + 1], layout, slot, fields, vals, m + 1)
    OBVIOUS
  <2>1. m + 1 \in 1..n /\ m + 1 - 1 = m /\ m \in 0..n /\ m + 1 \in 0..n
    OBVIOUS
  <2>2. PICK g, c : g = fields[m + 1] /\ c = vals[m + 1]
    OBVIOUS
  <2>3. PICK old \in Pages, now \in Pages : old = f[m] /\ now = f[m + 1]
    BY <1>1, <2>1
  <2>4. now = SetVal(layout, old, slot, g, c)
    BY <1>1, <2>1, <2>2, <2>3
  <2>5. Fits(layout, g, c)
    BY <2>1, <2>2 DEF AllFit
  <2>6. Same(m) /\ Stands(old, layout, slot, fields, vals, m)
    BY <1>3, <2>3
  <2>7. Same(m + 1)
    <3>1. \A p \in 0..BlockSize - 1 : p \notin Within(layout, slot) => now[p] = old[p]
      BY <2>4, <2>5, ValKeeps
    <3>. QED
      BY <2>3, <2>6, <3>1
  <2>. HIDE DEF Same
  <2>8. ASSUME NEW i \in 1..m + 1, LastGiven(fields, m + 1, i)
        PROVE  Holds(now, Position(layout, slot, fields[i]), Encoded(layout, fields[i], vals[i]))
    <3>1. CASE i = m + 1
      <4>1. Holds(now, Position(layout, slot, g), Encoded(layout, g, c))
        BY <2>4, <2>5, ValWritten
      <4>. QED
        BY <2>2, <3>1, <4>1
    <3>2. CASE i \in 1..m
      <4>1. fields[m + 1] # fields[i] /\ LastGiven(fields, m, i)
        BY <2>8, <3>2 DEF LastGiven
      <4>2. PICK h, d : h = fields[i] /\ d = vals[i]
        OBVIOUS
      <4>3. Holds(old, Position(layout, slot, h), Encoded(layout, h, d))
        BY <2>6, <3>2, <4>1, <4>2 DEF Stands
      <4>4. Fits(layout, h, d)
        <5>1. i \in 1..n
          BY <2>1, <3>2
        <5>. QED
          BY <4>2, <5>1 DEF AllFit
      <4>5. g # h
        BY <2>2, <4>1, <4>2
      <4>6. Holds(now, Position(layout, slot, h), Encoded(layout, h, d))
        BY <2>4, <2>5, <4>3, <4>4, <4>5, ValKeeps
      <4>. QED
        BY <4>2, <4>6
    <3>. QED
      BY <3>1, <3>2
  <2>9. Stands(now, layout, slot, fields, vals, m + 1)
    BY <2>8, Zenon DEF Stands
  <2>. QED
    BY <2>3, <2>7, <2>9
<1>. HIDE DEF T
<1>4. Nat \subseteq T
  BY <1>2, <1>3, SetInduction
<1>5. Same(n) /\ Stands(f[n], layout, slot, fields, vals, n)
  BY <1>4 DEF T
<1>6. new = f[n] /\ f[n] \in Pages
  BY <1>1
<1>. QED
  BY <1>5, <1>6

(* Each byte of two pages is written alike, or left alone in both.         *)
Alike(p, q, p2, q2) ==
  \A b \in 0..BlockSize - 1 : p2[b] = q2[b] \/ (p2[b] = p[b] /\ q2[b] = q[b])

(* A value is written the same way on both.                                *)
LEMMA ValAlike ==
  ASSUME NEW layout, NEW slot, Slot(layout, slot), NEW f, NEW const, Fits(layout, f, const),
         NEW p \in Pages, NEW q \in Pages
  PROVE  Alike(p, q, SetVal(layout, p, slot, f, const), SetVal(layout, q, slot, f, const))
<1>1. f \in Names(layout.schema) /\ Cells(layout)
  BY DEF Fits, Slot
<1>2. PICK p2, q2 : /\ p2 = SetVal(layout, p, slot, f, const)
                    /\ q2 = SetVal(layout, q, slot, f, const)
  OBVIOUS
<1>3. PICK at \in Nat : at = Position(layout, slot, f)
  BY <1>1, FieldIsInSlot
<1>4. PICK bytes \in Seq(Byte) : bytes = Encoded(layout, f, const)
  BY <1>1, EncodedFits
<1>5. PICK n \in Nat : Len(bytes) = n
  OBVIOUS
<1>6. /\ Holds(p2, at, bytes) /\ Holds(q2, at, bytes)
      /\ \A b \in 0..BlockSize - 1 : b \notin at..at + n - 1 => p2[b] = p[b] /\ q2[b] = q[b]
  BY <1>2, <1>3, <1>4, <1>5, ValWritten
<1>7. ASSUME NEW b \in 0..BlockSize - 1, b \in at..at + n - 1 PROVE p2[b] = q2[b]
  <2>1. PICK k \in 1..n : at + k - 1 = b
    <3>1. b - at + 1 \in 1..n /\ at + (b - at + 1) - 1 = b
      BY <1>7
    <3>. QED
      BY <3>1
  <2>2. p2[at + k - 1] = bytes[k] /\ q2[at + k - 1] = bytes[k]
    BY <1>5, <1>6 DEF Holds
  <2>. QED
    BY <2>1, <2>2
<1>. QED
  BY <1>2, <1>6, <1>7 DEF Alike

(* So is a row.                                                            *)
LEMMA RowAlike ==
  ASSUME NEW layout, NEW slot, Slot(layout, slot), NEW n \in Nat, NEW fields, NEW vals,
         Given(n, fields, vals), AllFit(layout, fields, vals, n), NEW p \in Pages, NEW q \in Pages
  PROVE  Alike(p, q, SetVals(layout, p, slot, fields, vals), SetVals(layout, q, slot, fields, vals))
<1>0. PICK f, g : /\ RowPages(f, layout, p, slot, fields, vals, n)
                  /\ RowPages(g, layout, q, slot, fields, vals, n)
  BY SetValsIs, Zenon
<1>1. /\ f[0] = p /\ \A k \in 0..n : f[k] \in Pages
      /\ \A k \in 1..n : f[k] = SetVal(layout, f[k - 1], slot, fields[k], vals[k])
      /\ SetVals(layout, p, slot, fields, vals) = f[n]
  BY <1>0, Zenon DEF RowPages
<1>2. /\ g[0] = q /\ \A k \in 0..n : g[k] \in Pages
      /\ \A k \in 1..n : g[k] = SetVal(layout, g[k - 1], slot, fields[k], vals[k])
      /\ SetVals(layout, q, slot, fields, vals) = g[n]
  BY <1>0, Zenon DEF RowPages
<1>. DEFINE T == {m \in Nat : m <= n => Alike(p, q, f[m], g[m])}
<1>3. 0 \in T
  BY <1>1, <1>2 DEF Alike
<1>4. ASSUME NEW m \in Nat, m \in T PROVE m + 1 \in T
  <2>. SUFFICES ASSUME m + 1 <= n PROVE Alike(p, q, f[m + 1], g[m + 1])
    OBVIOUS
  <2>1. m + 1 \in 1..n /\ m + 1 - 1 = m /\ m \in 0..n
    OBVIOUS
  <2>2. PICK fm \in Pages, gm \in Pages : fm = f[m] /\ gm = g[m]
    BY <1>1, <1>2, <2>1
  <2>3. PICK fn, gn : fn = f[m + 1] /\ gn = g[m + 1]
    OBVIOUS
  <2>4. PICK h, c : h = fields[m + 1] /\ c = vals[m + 1]
    OBVIOUS
  <2>5. Fits(layout, h, c)
    BY <2>1, <2>4 DEF AllFit
  <2>6. fn = SetVal(layout, fm, slot, h, c) /\ gn = SetVal(layout, gm, slot, h, c)
    BY <1>1, <1>2, <2>1, <2>2, <2>3, <2>4
  <2>7. Alike(fm, gm, fn, gn) /\ Alike(p, q, fm, gm)
    BY <1>4, <2>2, <2>5, <2>6, ValAlike
  <2>8. Alike(p, q, fn, gn)
    BY <2>7 DEF Alike
  <2>. QED
    BY <2>3, <2>8
<1>. HIDE DEF T
<1>5. Nat \subseteq T
  BY <1>3, <1>4, SetInduction
<1>6. Alike(p, q, f[n], g[n])
  BY <1>5 DEF T
<1>. QED
  BY <1>1, <1>2, <1>6

----------------------------------------------------------------------------
(* The flag of a slot, its first four bytes.                               *)
Marked(page, layout, slot, flag) == Holds(page, Offset(layout, slot), IntBytes(flag))

FlagAt(layout, slot) == Offset(layout, slot)..Offset(layout, slot) + FlagBytes - 1

(* A slot is within the block.                                             *)
LEMMA SlotIs ==
  ASSUME NEW layout, NEW slot, Slot(layout, slot)
  PROVE  /\ Offset(layout, slot) \in Nat /\ layout.slotsize \in Nat /\ layout.slotsize >= 4
         /\ BlockSize \in Nat /\ Offset(layout, slot) + layout.slotsize <= BlockSize
         /\ slot \in Nat
<1>1. Cells(layout)
  BY DEF Slot
<1>2. PICK n \in Nat : /\ ValidSlots(layout) = 0..n - 1
                       /\ \A k \in 0..n - 1 : /\ Offset(layout, k) \in Nat
                                              /\ Offset(layout, k) + layout.slotsize <= BlockSize
  BY <1>1, SlotsAre
<1>3. slot \in 0..n - 1
  BY <1>2 DEF Slot
<1>. QED
  BY <1>1, <1>2, <1>3, BlockSizeAssumption DEF Cells, FlagBytes

(* A flag is written into its own bytes.                                   *)
LEMMA FlagWritten ==
  ASSUME NEW layout, NEW slot, Slot(layout, slot), NEW flag \in {EMPTY, USED}, NEW page \in Pages,
         NEW new, new = SetFlag(layout, page, slot, flag)
  PROVE  /\ new \in Pages /\ Marked(new, layout, slot, flag)
         /\ \A p \in 0..BlockSize - 1 : p \notin FlagAt(layout, slot) => new[p] = page[p]
<1>1. PICK at \in Nat : at = Offset(layout, slot) /\ at + 4 <= BlockSize
  <2>1. /\ Offset(layout, slot) \in Nat /\ layout.slotsize \in Nat /\ layout.slotsize >= 4
        /\ BlockSize \in Nat /\ Offset(layout, slot) + layout.slotsize <= BlockSize
    BY SlotIs
  <2>. QED
    BY <2>1
<1>2. flag \in Int
  BY DEF EMPTY, USED
<1>3. PICK bytes \in Seq(Byte) : bytes = IntBytes(flag) /\ Len(bytes) = 4
  BY <1>2, IntIsBytes
<1>4. new = SetBytes(page, at, bytes)
  BY <1>1, <1>3 DEF SetFlag, SetInt
<1>5. /\ new \in Pages /\ Holds(new, at, bytes)
      /\ \A p \in 0..BlockSize - 1 : p \notin at..at + 4 - 1 => new[p] = page[p]
  <2>1. at + Len(bytes) <= BlockSize
    BY <1>1, <1>3
  <2>2. PICK w : w = SetBytes(page, at, bytes)
    OBVIOUS
  <2>3. /\ w \in Pages /\ Holds(w, at, bytes)
        /\ \A p \in 0..BlockSize - 1 : p \notin at..at + Len(bytes) - 1 => w[p] = page[p]
    BY <2>1, <2>2, BytesWritten
  <2>4. w = new
    BY <1>4, <2>2
  <2>. QED
    BY <1>3, <2>3, <2>4
<1>. QED
  BY <1>1, <1>3, <1>5 DEF Marked, FlagAt, FlagBytes

(* A flag is read as it was written.                                       *)
LEMMA FlagRead ==
  ASSUME NEW layout, NEW slot, Slot(layout, slot), NEW flag \in {EMPTY, USED}, NEW page,
         Marked(page, layout, slot, flag)
  PROVE  Flag(layout, page, slot) = flag
<1>1. flag \in Int32
  <2>1. PICK m \in Nat : m = MaxInt /\ m >= 1
    BY DEF MaxInt
  <2>2. flag \in - m - 1..m
    BY <2>1 DEF EMPTY, USED
  <2>. QED
    BY <2>1, <2>2, Zenon DEF Int32
<1>2. PICK at \in Nat : at = Offset(layout, slot)
  BY SlotIs
<1>3. GetInt(page, at) = flag
  BY <1>1, <1>2, IntRead DEF Marked
<1>. QED
  BY <1>2, <1>3 DEF Flag

(* What is written nowhere near the flag leaves it.                        *)
LEMMA FlagKept ==
  ASSUME NEW layout, NEW slot, Slot(layout, slot), NEW flag \in {EMPTY, USED}, NEW page,
         Marked(page, layout, slot, flag), NEW new,
         \A p \in 0..BlockSize - 1 : p \in FlagAt(layout, slot) => new[p] = page[p]
  PROVE  Marked(new, layout, slot, flag)
<1>1. PICK at \in Nat : at = Offset(layout, slot) /\ at + 4 <= BlockSize
  <2>1. /\ Offset(layout, slot) \in Nat /\ layout.slotsize \in Nat /\ layout.slotsize >= 4
        /\ BlockSize \in Nat /\ Offset(layout, slot) + layout.slotsize <= BlockSize
    BY SlotIs
  <2>. QED
    BY <2>1
<1>2. flag \in Int
  BY DEF EMPTY, USED
<1>3. PICK bytes \in Seq(Byte) : bytes = IntBytes(flag) /\ Len(bytes) = 4
  BY <1>2, IntIsBytes
<1>4. ASSUME NEW k \in 1..4 PROVE new[at + k - 1] = bytes[k]
  <2>1. page[at + k - 1] = bytes[k]
    BY <1>1, <1>3 DEF Marked, Holds
  <2>2. at + k - 1 \in 0..BlockSize - 1 /\ at + k - 1 \in FlagAt(layout, slot)
    BY <1>1, BlockSizeAssumption DEF FlagAt, FlagBytes
  <2>. QED
    BY <2>1, <2>2
<1>. QED
  BY <1>1, <1>3, <1>4 DEF Marked, Holds

(* Bytes of different slots.                                               *)
SlotBytes(layout, slot) == FlagAt(layout, slot) \cup Within(layout, slot)

(* Slots share no byte.                                                    *)
LEMMA SlotBytesApart ==
  ASSUME NEW layout, NEW j, Slot(layout, j), NEW k, Slot(layout, k), j # k
  PROVE  SlotBytes(layout, j) \cap SlotBytes(layout, k) = {}
<1>1. PICK size \in Nat : size = layout.slotsize /\ size >= 4
  BY SlotIs
<1>2. j \in Nat /\ k \in Nat
  BY SlotIs
<1>3. PICK a \in Nat, b \in Nat : a = j * size /\ b = k * size
  BY <1>2
<1>4. a + size <= b \/ b + size <= a
  <2>1. CASE j < k
    BY <1>2, <1>3, <2>1, SlotsApart
  <2>2. CASE k < j
    BY <1>2, <1>3, <2>2, SlotsApart
  <2>. QED
    BY <1>2, <2>1, <2>2
<1>5. Offset(layout, j) = a /\ Offset(layout, k) = b
  BY <1>1, <1>3 DEF Offset
<1>6. /\ SlotBytes(layout, j) \subseteq a..a + size - 1
      /\ SlotBytes(layout, k) \subseteq b..b + size - 1
  BY <1>1, <1>3, <1>5 DEF SlotBytes, FlagAt, Within, FlagBytes
<1>7. (a..a + size - 1) \cap (b..b + size - 1) = {}
  BY <1>1, <1>3, <1>4
<1>. QED
  BY <1>6, <1>7

(* No field is in the bytes of the flag.                                   *)
LEMMA FlagOutside ==
  ASSUME NEW layout, NEW slot, Slot(layout, slot)
  PROVE  FlagAt(layout, slot) \cap Within(layout, slot) = {}
<1>1. Offset(layout, slot) \in Nat /\ layout.slotsize \in Nat
  BY SlotIs
<1>. QED
  BY <1>1 DEF FlagAt, Within, FlagBytes

----------------------------------------------------------------------------
(* An insert takes the first slot that is empty.                           *)
LEMMA FirstEmpty ==
  ASSUME NEW layout, Cells(layout), NEW page, EmptySlots(layout, page) # {}
  PROVE  /\ Min(EmptySlots(layout, page)) \in EmptySlots(layout, page)
         /\ \A k \in EmptySlots(layout, page) : Min(EmptySlots(layout, page)) <= k
         /\ EmptySlots(layout, page) \subseteq ValidSlots(layout)
<1>1. PICK E : E = EmptySlots(layout, page)
  OBVIOUS
<1>2. E \subseteq ValidSlots(layout) /\ ValidSlots(layout) \subseteq Nat
  BY <1>1, BlockSizeAssumption DEF EmptySlots, ValidSlots
<1>3. PICK m \in E : \A k \in E : m <= k
  <2>1. PICK e : e \in E
    BY <1>1
  <2>2. E \subseteq Nat
    BY <1>2
  <2>. QED
    BY <2>1, <2>2, LeastNat
<1>4. Min(E) = CHOOSE x \in E : \A y \in E : x <= y
  BY Zenon DEF Min
<1>5. Min(E) \in E /\ \A k \in E : Min(E) <= k
  BY <1>3, <1>4
<1>. QED
  BY <1>1, <1>2, <1>5

(* An insert takes the first empty slot.                                   *)
LEMMA InsertIs ==
  ASSUME NEW layout, NEW slot, Slot(layout, slot), NEW page, Marked(page, layout, slot, EMPTY),
         \A j \in ValidSlots(layout) : j < slot => Marked(page, layout, j, USED),
         NEW fields, NEW vals
  PROVE  Insert(layout, page, fields, vals)
           = SetVals(layout, SetFlag(layout, page, slot, USED), slot, fields, vals)
<1>1. PICK E : E = EmptySlots(layout, page)
  OBVIOUS
<1>2. Cells(layout) /\ slot \in ValidSlots(layout)
  BY DEF Slot
<1>3. slot \in E
  <2>1. Flag(layout, page, slot) = EMPTY
    BY FlagRead
  <2>. QED
    BY <1>1, <1>2, <2>1 DEF EmptySlots
<1>4. ASSUME NEW j \in E, j < slot PROVE FALSE
  <2>1. j \in ValidSlots(layout) /\ Flag(layout, page, j) = EMPTY
    BY <1>1 DEF EmptySlots
  <2>2. Slot(layout, j) /\ Marked(page, layout, j, USED)
    BY <1>2, <1>4, <2>1 DEF Slot
  <2>3. Flag(layout, page, j) = USED
    BY <2>2, FlagRead
  <2>. QED
    BY <2>1, <2>3 DEF EMPTY, USED
<1>5. Min(E) \in E /\ Min(E) <= slot /\ E \subseteq ValidSlots(layout)
  BY <1>1, <1>2, <1>3, FirstEmpty
<1>6. ValidSlots(layout) \subseteq Nat
  BY BlockSizeAssumption DEF ValidSlots
<1>7. Min(E) = slot
  <2>1. PICK m \in E : m = Min(E) /\ m <= slot
    BY <1>5
  <2>2. m \in Nat /\ slot \in Nat /\ ~ (m < slot)
    BY <1>2, <1>4, <1>5, <1>6
  <2>. QED
    BY <2>1, <2>2
<1>. QED
  BY <1>1, <1>3, <1>7 DEF Insert

(* An insert makes a page of a page.                                       *)
LEMMA InsertTyped ==
  ASSUME NEW layout, Cells(layout), NEW n \in Nat, NEW fields, NEW vals,
         Given(n, fields, vals), AllFit(layout, fields, vals, n), NEW page \in Pages
  PROVE  Insert(layout, page, fields, vals) \in Pages
<1>1. PICK E, slot : E = EmptySlots(layout, page) /\ slot = Min(E)
  OBVIOUS
<1>2. CASE E = {}
  BY <1>1, <1>2 DEF Insert
<1>3. CASE E # {}
  <2>1. slot \in E /\ E \subseteq ValidSlots(layout)
    BY <1>1, <1>3, FirstEmpty
  <2>2. Slot(layout, slot)
    BY <2>1 DEF Slot
  <2>3. PICK p \in Pages : p = SetFlag(layout, page, slot, USED)
    BY <2>2, FlagWritten
  <2>4. SetVals(layout, p, slot, fields, vals) \in Pages
    BY <2>2, RowWritten
  <2>5. Insert(layout, page, fields, vals) = SetVals(layout, p, slot, fields, vals)
    BY <1>1, <1>3, <2>3 DEF Insert
  <2>. QED
    BY <2>4, <2>5
<1>. QED
  BY <1>2, <1>3

----------------------------------------------------------------------------
(* The first m slots have the row, the others are empty.                   *)
Image(page, layout, slot, fields, vals) ==
  \E p \in Pages : \A b \in Within(layout, slot) :
                       page[b] = SetVals(layout, p, slot, fields, vals)[b]

FilledTo(page, layout, fields, vals, m) ==
  /\ page \in Pages
  /\ \A k \in ValidSlots(layout) :
        IF k < m THEN Marked(page, layout, k, USED) /\ Image(page, layout, k, fields, vals)
        ELSE Marked(page, layout, k, EMPTY)

(* An insert into the first empty slot writes the row there, and leaves    *)
(* the other slots alone.                                                  *)
LEMMA Inserted ==
  ASSUME NEW layout, NEW slot, Slot(layout, slot), NEW n \in Nat, NEW fields, NEW vals,
         Given(n, fields, vals), AllFit(layout, fields, vals, n), NEW page \in Pages,
         Marked(page, layout, slot, EMPTY),
         \A j \in ValidSlots(layout) : j < slot => Marked(page, layout, j, USED),
         NEW new, new = Insert(layout, page, fields, vals)
  PROVE  /\ new \in Pages
         /\ Marked(new, layout, slot, USED) /\ Stands(new, layout, slot, fields, vals, n)
         /\ Image(new, layout, slot, fields, vals)
         /\ \A b \in 0..BlockSize - 1 : b \notin SlotBytes(layout, slot) => new[b] = page[b]
         /\ \E q \in Pages : /\ new = SetVals(layout, q, slot, fields, vals)
                             /\ q = SetFlag(layout, page, slot, USED)
<1>1. PICK q : q = SetFlag(layout, page, slot, USED)
  OBVIOUS
<1>2. /\ q \in Pages /\ Marked(q, layout, slot, USED)
      /\ \A b \in 0..BlockSize - 1 : b \notin FlagAt(layout, slot) => q[b] = page[b]
  BY <1>1, FlagWritten
<1>3. new = SetVals(layout, q, slot, fields, vals)
  BY <1>1, InsertIs
<1>4. /\ new \in Pages /\ Stands(new, layout, slot, fields, vals, n)
      /\ \A b \in 0..BlockSize - 1 : b \notin Within(layout, slot) => new[b] = q[b]
  BY <1>2, <1>3, RowWritten
<1>5. Marked(new, layout, slot, USED)
  <2>1. \A b \in 0..BlockSize - 1 : b \in FlagAt(layout, slot) => new[b] = q[b]
    BY <1>4, FlagOutside
  <2>. QED
    BY <1>2, <2>1, FlagKept
<1>6. Image(new, layout, slot, fields, vals)
  BY <1>2, <1>3 DEF Image
<1>7. \A b \in 0..BlockSize - 1 : b \notin SlotBytes(layout, slot) => new[b] = page[b]
  BY <1>2, <1>4 DEF SlotBytes
<1>. QED
  BY <1>1, <1>2, <1>3, <1>4, <1>5, <1>6, <1>7

(* One insert more fills one slot more.                                    *)
LEMMA FilledStep ==
  ASSUME NEW layout, NEW slot, Slot(layout, slot), NEW n \in Nat, NEW fields, NEW vals,
         Given(n, fields, vals), AllFit(layout, fields, vals, n), NEW page,
         FilledTo(page, layout, fields, vals, slot)
  PROVE  FilledTo(Insert(layout, page, fields, vals), layout, fields, vals, slot + 1)
<1>1. PICK new : new = Insert(layout, page, fields, vals)
  OBVIOUS
<1>2. /\ slot \in Nat /\ slot \in ValidSlots(layout) /\ Cells(layout)
      /\ ValidSlots(layout) \subseteq Nat
  BY SlotIs, BlockSizeAssumption DEF Slot, ValidSlots
<1>3. /\ page \in Pages /\ Marked(page, layout, slot, EMPTY)
      /\ \A j \in ValidSlots(layout) : j < slot => Marked(page, layout, j, USED)
  BY <1>2 DEF FilledTo
<1>4. /\ new \in Pages /\ Marked(new, layout, slot, USED) /\ Image(new, layout, slot, fields, vals)
      /\ \A b \in 0..BlockSize - 1 : b \notin SlotBytes(layout, slot) => new[b] = page[b]
  BY <1>1, <1>3, Inserted
<1>5. ASSUME NEW k \in ValidSlots(layout), k # slot
      PROVE  /\ \A b \in 0..BlockSize - 1 : b \in SlotBytes(layout, k) => new[b] = page[b]
             /\ Slot(layout, k)
  <2>1. Slot(layout, k)
    BY <1>2 DEF Slot
  <2>2. SlotBytes(layout, k) \cap SlotBytes(layout, slot) = {}
    BY <1>5, <2>1, SlotBytesApart
  <2>. QED
    BY <1>4, <2>1, <2>2
<1>6. ASSUME NEW k \in ValidSlots(layout), k < slot
      PROVE  Marked(new, layout, k, USED) /\ Image(new, layout, k, fields, vals)
  <2>1. k # slot /\ k \in Nat
    BY <1>2, <1>6
  <2>2. /\ \A b \in 0..BlockSize - 1 : b \in SlotBytes(layout, k) => new[b] = page[b]
        /\ Slot(layout, k)
    BY <1>5, <2>1
  <2>3. Marked(page, layout, k, USED) /\ Image(page, layout, k, fields, vals)
    BY <1>6 DEF FilledTo
  <2>4. Marked(new, layout, k, USED)
    BY <2>2, <2>3, FlagKept DEF SlotBytes
  <2>5. Image(new, layout, k, fields, vals)
    <3>1. /\ Offset(layout, k) \in Nat /\ layout.slotsize \in Nat
          /\ BlockSize \in Nat /\ Offset(layout, k) + layout.slotsize <= BlockSize
      BY <2>2, SlotIs
    <3>2. Within(layout, k) \subseteq 0..BlockSize - 1
      BY <3>1 DEF Within, FlagBytes
    <3>3. \A b \in Within(layout, k) : new[b] = page[b]
      BY <2>2, <3>2 DEF SlotBytes
    <3>. QED
      BY <2>3, <3>3 DEF Image
  <2>. QED
    BY <2>4, <2>5
<1>7. ASSUME NEW k \in ValidSlots(layout), slot < k
      PROVE  Marked(new, layout, k, EMPTY)
  <2>1. k # slot /\ k \in Nat /\ ~ (k < slot)
    BY <1>2, <1>7
  <2>2. /\ \A b \in 0..BlockSize - 1 : b \in SlotBytes(layout, k) => new[b] = page[b]
        /\ Slot(layout, k)
    BY <1>5, <2>1
  <2>3. Marked(page, layout, k, EMPTY)
    BY <2>1 DEF FilledTo
  <2>. QED
    BY <2>2, <2>3, FlagKept DEF SlotBytes
<1>8. ASSUME NEW k \in ValidSlots(layout)
      PROVE  IF k < slot + 1
             THEN Marked(new, layout, k, USED) /\ Image(new, layout, k, fields, vals)
             ELSE Marked(new, layout, k, EMPTY)
  <2>1. k \in Nat /\ (k < slot \/ k = slot \/ slot < k)
    BY <1>2
  <2>2. (k < slot + 1) <=> (k < slot \/ k = slot)
    BY <1>2, <2>1
  <2>. QED
    BY <1>2, <1>4, <1>6, <1>7, <2>1, <2>2
<1>9. FilledTo(new, layout, fields, vals, slot + 1)
  BY <1>4, <1>8 DEF FilledTo
<1>. QED
  BY <1>1, <1>9

(* A formatted page has no row.                                            *)
LEMMA FormattedIs ==
  ASSUME NEW layout, Cells(layout), NEW fields, NEW vals
  PROVE  FilledTo(Formatted, layout, fields, vals, 0)
<1>1. BlockSize \in Nat /\ ValidSlots(layout) \subseteq Nat
  BY BlockSizeAssumption DEF ValidSlots
<1>2. Formatted \in Pages /\ \A b \in 0..BlockSize - 1 : Formatted[b] = 0
  BY <1>1 DEF Formatted, Pages, Byte
<1>3. ASSUME NEW k \in ValidSlots(layout) PROVE Marked(Formatted, layout, k, EMPTY)
  <2>1. PICK at \in Nat : at = Offset(layout, k) /\ at + 4 <= BlockSize
    <3>1. Slot(layout, k)
      BY DEF Slot
    <3>2. /\ Offset(layout, k) \in Nat /\ layout.slotsize \in Nat /\ layout.slotsize >= 4
          /\ BlockSize \in Nat /\ Offset(layout, k) + layout.slotsize <= BlockSize
      BY <3>1, SlotIs
    <3>. QED
      BY <3>2
  <2>2. EMPTY \in Int /\ EMPTY \div 256 = 0 /\ EMPTY % 256 = 0 /\ EMPTY = 0
    BY DEF EMPTY
  <2>3. PICK bytes \in Seq(Byte) :
            /\ bytes = IntBytes(EMPTY) /\ Len(bytes) = 4
            /\ bytes[1] = 0 /\ bytes[2] = 0 /\ bytes[3] = 0 /\ bytes[4] = 0
    BY <2>2, IntIsBytes
  <2>4. ASSUME NEW j \in 1..4 PROVE Formatted[at + j - 1] = bytes[j]
    <3>1. at + j - 1 \in 0..BlockSize - 1
      BY <1>1, <2>1
    <3>2. bytes[j] = 0
      <4>1. j \in {1, 2, 3, 4}
        OBVIOUS
      <4>. QED
        BY <2>3, <4>1
    <3>. QED
      BY <1>2, <3>1, <3>2
  <2>. QED
    BY <2>1, <2>3, <2>4 DEF Marked, Holds
<1>4. \A k \in ValidSlots(layout) : ~ (k < 0)
  BY <1>1
<1>. QED
  BY <1>2, <1>3, <1>4 DEF FilledTo

----------------------------------------------------------------------------
(* The page after each insert, as in Full.                                 *)
Fills(f, layout, fields, vals, n) ==
  f = [k \in 0..n |-> IF k = 0 THEN Formatted ELSE Insert(layout, f[k - 1], fields, vals)]

(* These pages exist.                                                      *)
LEMMA FillsExist ==
  ASSUME NEW layout, Cells(layout), NEW n \in Nat, NEW fields, NEW vals,
         Given(n, fields, vals), AllFit(layout, fields, vals, n), NEW m \in Nat
  PROVE  \E f : Fills(f, layout, fields, vals, m)
<1>. DEFINE insert(q) == Insert(layout, q, fields, vals)
            step == [k \in 1..m |-> [q \in Pages |-> insert(q)]]
<1>1. \A q \in Pages : insert(q) \in Pages
  BY InsertTyped
<1>. HIDE DEF insert
<1>2. step \in [1..m -> [Pages -> Pages]] /\ \A k \in 1..m : \A q \in Pages : step[k][q] = insert(q)
  BY <1>1
<1>. HIDE DEF step
<1>3. Formatted \in Pages
  BY FormattedIs DEF FilledTo
<1>4. PICK f \in [0..m -> Pages] : f[0] = Formatted /\ \A k \in 1..m : f[k] = step[k][f[k - 1]]
  <2>1. PICK t, P : t = step /\ P = Pages
    OBVIOUS
  <2>2. t \in [1..m -> [P -> P]] /\ Formatted \in P
    BY <1>2, <1>3, <2>1
  <2>3. \E f \in [0..m -> P] : f[0] = Formatted /\ \A k \in 1..m : f[k] = t[k][f[k - 1]]
    BY <2>2, StepsExist
  <2>. QED
    BY <2>1, <2>3, Zenon
<1>5. ASSUME NEW k \in 0..m PROVE f[k] = IF k = 0 THEN Formatted ELSE insert(f[k - 1])
  <2>1. CASE k = 0
    BY <1>4, <2>1
  <2>2. CASE k \in 1..m
    <3>1. k - 1 \in 0..m /\ f[k - 1] \in Pages /\ k # 0
      BY <1>4, <2>2
    <3>. QED
      BY <1>2, <1>4, <2>2, <3>1
  <2>. QED
    BY <2>1, <2>2
<1>6. f = [k \in 0..m |-> IF k = 0 THEN Formatted ELSE insert(f[k - 1])]
  <2>1. PICK g : g = [k \in 0..m |-> IF k = 0 THEN Formatted ELSE insert(f[k - 1])]
    OBVIOUS
  <2>2. g = [k \in 0..m |-> f[k]]
    BY <1>5, <2>1
  <2>3. f = [k \in 0..m |-> f[k]]
    OBVIOUS
  <2>. QED
    BY <2>1, <2>2, <2>3
<1>7. Fills(f, layout, fields, vals, m)
  BY <1>6 DEF Fills, insert
<1>. QED
  BY <1>7

(* In the end every slot has the row.                                      *)
LEMMA FullIs ==
  ASSUME NEW layout, Cells(layout), NEW n \in Nat, NEW fields, NEW vals,
         Given(n, fields, vals), AllFit(layout, fields, vals, n)
  PROVE  \E m \in Nat : /\ ValidSlots(layout) = 0..m - 1
                        /\ FilledTo(Full(layout, fields, vals), layout, fields, vals, m)
<1>1. PICK m \in Nat : ValidSlots(layout) = 0..m - 1 /\ m = Cardinality(ValidSlots(layout))
  BY SlotsAre
<1>. DEFINE F == CHOOSE f : Fills(f, layout, fields, vals, m)
            h == [k \in 0..m |-> IF k = 0 THEN Formatted
                                 ELSE Insert(layout, F[k - 1], fields, vals)]
            T == {k \in Nat : k <= m => FilledTo(F[k], layout, fields, vals, k)}
<1>2. Fills(F, layout, fields, vals, m)
  BY FillsExist, Zenon
<1>3. F = h
  BY <1>2, Zenon DEF Fills
<1>4. \A k \in 0..m : h[k] = IF k = 0 THEN Formatted ELSE Insert(layout, F[k - 1], fields, vals)
  OBVIOUS
<1>5. Full(layout, fields, vals) = F[m]
  BY <1>1, Zenon DEF Full, Fills
<1>. HIDE DEF F, h
<1>6. F[0] = Formatted /\ \A k \in 1..m : F[k] = Insert(layout, F[k - 1], fields, vals)
  BY <1>3, <1>4
<1>7. 0 \in T
  BY <1>6, FormattedIs
<1>8. ASSUME NEW k \in Nat, k \in T PROVE k + 1 \in T
  <2>. SUFFICES ASSUME k + 1 <= m PROVE FilledTo(F[k + 1], layout, fields, vals, k + 1)
    OBVIOUS
  <2>1. FilledTo(F[k], layout, fields, vals, k)
    BY <1>8
  <2>2. Slot(layout, k)
    BY <1>1 DEF Slot
  <2>3. k + 1 \in 1..m /\ k + 1 - 1 = k
    OBVIOUS
  <2>4. F[k + 1] = Insert(layout, F[k], fields, vals)
    BY <1>6, <2>3
  <2>. QED
    BY <2>1, <2>2, <2>4, FilledStep
<1>. HIDE DEF T
<1>9. Nat \subseteq T
  BY <1>7, <1>8, SetInduction
<1>10. FilledTo(F[m], layout, fields, vals, m)
  BY <1>9 DEF T
<1>. QED
  BY <1>1, <1>5, <1>10

(* Two pages with the same bytes.                                          *)
LEMMA SamePages ==
  ASSUME NEW p \in Pages, NEW q \in Pages, \A b \in 0..BlockSize - 1 : p[b] = q[b]
  PROVE  p = q
<1>1. \E S, T : S = 0..BlockSize - 1 /\ T = Byte
  OBVIOUS
<1>2. PICK S, T : S = 0..BlockSize - 1 /\ T = Byte
  BY <1>1
<1>3. p \in [S -> T] /\ q \in [S -> T] /\ \A b \in S : p[b] = q[b]
  BY <1>2, Zenon DEF Pages
<1>. QED
  BY <1>3, SameFunctions

(* The bytes of a flag.                                                    *)
LEMMA FlagBytesAre ==
  \E bytes \in Seq(Byte) : bytes = IntBytes(USED) /\ Len(bytes) = 4
<1>1. USED \in Int
  BY DEF USED
<1>. QED
  BY <1>1, IntIsBytes

(* To delete a row and insert it again changes no byte of a full block.    *)
LEMMA AgainIsFull ==
  ASSUME NEW layout, NEW k, Slot(layout, k), NEW n \in Nat, NEW fields, NEW vals,
         Given(n, fields, vals), AllFit(layout, fields, vals, n), NEW m \in Nat,
         ValidSlots(layout) = 0..m - 1, NEW full, FilledTo(full, layout, fields, vals, m)
  PROVE  /\ Insert(layout, Delete(layout, full, k), fields, vals) = full
         /\ Marked(full, layout, k, USED) /\ Stands(full, layout, k, fields, vals, n)
<1>1. PICK del, again : /\ del = SetFlag(layout, full, k, EMPTY)
                        /\ again = Insert(layout, del, fields, vals)
  OBVIOUS
<1>2. k \in 0..m - 1
  BY DEF Slot
<1>3. full \in Pages /\ Marked(full, layout, k, USED) /\ Image(full, layout, k, fields, vals)
  BY <1>2 DEF FilledTo
<1>4. /\ del \in Pages /\ Marked(del, layout, k, EMPTY)
      /\ \A b \in 0..BlockSize - 1 : b \notin FlagAt(layout, k) => del[b] = full[b]
  BY <1>1, <1>3, FlagWritten DEF EMPTY, USED
<1>5. ASSUME NEW j \in ValidSlots(layout), j < k PROVE Marked(del, layout, j, USED)
  <2>1. Slot(layout, j) /\ j # k
    BY <1>2, <1>5 DEF Slot
  <2>2. SlotBytes(layout, j) \cap SlotBytes(layout, k) = {}
    BY <2>1, SlotBytesApart
  <2>3. \A b \in 0..BlockSize - 1 : b \in FlagAt(layout, j) => del[b] = full[b]
    BY <1>4, <2>2 DEF SlotBytes
  <2>4. Marked(full, layout, j, USED)
    BY DEF FilledTo
  <2>. QED
    BY <2>1, <2>3, <2>4, FlagKept
<1>6. /\ again \in Pages /\ Marked(again, layout, k, USED)
      /\ Stands(again, layout, k, fields, vals, n)
      /\ \A b \in 0..BlockSize - 1 : b \notin SlotBytes(layout, k) => again[b] = del[b]
  BY <1>1, <1>4, <1>5, Inserted
<1>7. PICK q \in Pages : /\ again = SetVals(layout, q, k, fields, vals)
                         /\ q = SetFlag(layout, del, k, USED)
  BY <1>1, <1>4, <1>5, Inserted
<1>8. \A b \in 0..BlockSize - 1 : b \notin FlagAt(layout, k) => q[b] = del[b]
  BY <1>4, <1>7, FlagWritten
<1>9. ASSUME NEW b \in 0..BlockSize - 1 PROVE again[b] = full[b]
  <2>1. CASE b \notin SlotBytes(layout, k)
    BY <1>4, <1>6, <2>1 DEF SlotBytes
  <2>2. CASE b \in Within(layout, k)
    <3>1. PICK p \in Pages : \A c \in Within(layout, k) :
                                full[c] = SetVals(layout, p, k, fields, vals)[c]
      BY <1>3 DEF Image
    <3>2. PICK p2 : p2 = SetVals(layout, p, k, fields, vals)
      OBVIOUS
    <3>3. Alike(p, q, p2, again)
      BY <1>7, <3>2, RowAlike
    <3>4. p2[b] = again[b] \/ again[b] = q[b]
      BY <3>3 DEF Alike
    <3>5. full[b] = p2[b]
      BY <2>2, <3>1, <3>2
    <3>6. q[b] = full[b]
      BY <1>4, <1>8, <2>2, FlagOutside
    <3>. QED
      BY <3>4, <3>5, <3>6
  <2>3. CASE b \in FlagAt(layout, k)
    <3>1. PICK at \in Nat : at = Offset(layout, k)
      BY SlotIs
    <3>2. PICK bytes \in Seq(Byte) : bytes = IntBytes(USED) /\ Len(bytes) = 4
      BY FlagBytesAre
    <3>3. PICK j \in 1..4 : at + j - 1 = b
      <4>1. b - at + 1 \in 1..4 /\ at + (b - at + 1) - 1 = b
        BY <2>3, <3>1 DEF FlagAt, FlagBytes
      <4>. QED
        BY <4>1
    <3>4. again[at + j - 1] = bytes[j] /\ full[at + j - 1] = bytes[j]
      BY <1>3, <1>6, <3>1, <3>2 DEF Marked, Holds
    <3>. QED
      BY <3>3, <3>4
  <2>. QED
    BY <2>1, <2>2, <2>3 DEF SlotBytes
<1>10. again = full
  BY <1>3, <1>6, <1>9, SamePages, Zenon
<1>. QED
  BY <1>1, <1>3, <1>6, <1>10 DEF Delete

----------------------------------------------------------------------------
(* A row is read back through any layout of a schema.                      *)
LEMMA RowsReadBack ==
  ASSUME NEW sch \in Declarations, NEW fields, NEW vals, NEW n \in Nat, Given(n, fields, vals)
  PROVE  RowReadsBack(LayoutOf[sch], fields, vals)
<1>1. PICK layout : layout = LayoutOf[sch]
  OBVIOUS
<1>2. Cells(layout)
  BY <1>1, LayoutCells
<1>. DEFINE full == Full(layout, fields, vals)
            again(k) == Insert(layout, Delete(layout, full, k), fields, vals)
<1>3. ASSUME AllFit(layout, fields, vals, n), NEW k \in ValidSlots(layout)
      PROVE  /\ \A j \in ValidSlots(layout) : Record(layout, again(k), j) = Record(layout, full, j)
             /\ Flag(layout, full, k) = USED
             /\ \A i \in 1..n : LastGiven(fields, n, i) =>
                   Record(layout, full, k).val[fields[i]] = Plain(vals[i])
  <2>1. Slot(layout, k)
    BY <1>2 DEF Slot
  <2>2. PICK m \in Nat : ValidSlots(layout) = 0..m - 1 /\ FilledTo(full, layout, fields, vals, m)
    BY <1>2, <1>3, FullIs
  <2>. HIDE DEF full
  <2>3. /\ again(k) = full /\ Marked(full, layout, k, USED)
        /\ Stands(full, layout, k, fields, vals, n)
    BY <1>3, <2>1, <2>2, AgainIsFull
  <2>4. Flag(layout, full, k) = USED
    BY <2>1, <2>3, FlagRead
  <2>5. ASSUME NEW i \in 1..n, LastGiven(fields, n, i)
        PROVE  Record(layout, full, k).val[fields[i]] = Plain(vals[i])
    <3>1. PICK f, c : f = fields[i] /\ c = vals[i]
      OBVIOUS
    <3>2. Fits(layout, f, c)
      BY <1>3, <3>1 DEF AllFit
    <3>3. Holds(full, Position(layout, k, f), Encoded(layout, f, c))
      BY <2>3, <2>5, <3>1 DEF Stands
    <3>4. GetVal(layout, full, k, f) = Plain(c)
      BY <2>1, <3>2, <3>3, ValRead
    <3>5. f \in DOMAIN layout.offset
      BY <1>2, <3>2 DEF Cells, Fits
    <3>6. Record(layout, full, k).val[f] = GetVal(layout, full, k, f)
      BY <3>5 DEF Record
    <3>. QED
      BY <3>1, <3>4, <3>6
  <2>. QED
    BY <2>3, <2>4, <2>5
<1>4. RowReadsBack(layout, fields, vals)
  BY <1>3, Zenon DEF RowReadsBack, Given, AllFit, LastGiven
<1>. QED
  BY <1>1, <1>4

----------------------------------------------------------------------------
(* What the parser makes of a text is a statement, or none.                *)
LEMMA SentIs ==
  /\ SentInv => IsStatement(stmt) \/ stmt = NoStatement
  /\ SentInv' => IsStatement(stmt') \/ stmt' = NoStatement
  /\ NoStatement.kind \notin DOMAIN Form
<1>1. NoStatement.kind \notin DOMAIN Form
  BY DEF NoStatement, Statement, Form
<1>. QED
  BY <1>1, ParsedIs DEF SentInv

(* The parts of an INSERT.                                                 *)
LEMMA InsertParts ==
  ASSUME NEW s, IsStatement(s), s.kind = "insert"
  PROVE  Min({Len(s.parts[2]), Len(s.parts[3])}) \in Nat
<1>1. PICK form : form = Form["insert"]
  OBVIOUS
<1>2. PICK n \in Nat : Len(form) = n /\ Filled(form, s.parts, n)
  BY <1>1, StatementIs
<1>3. form = <<Keyword("insert"), Keyword("into"), Part("id"), Delim("("), Part("ids"),
               Delim(")"), Keyword("values"), Delim("("), Part("constants"), Delim(")")>>
  BY <1>1 DEF Form
<1>4. /\ Len(form) = 10
      /\ \A k \in {1, 2, 4, 6, 7, 8} : form[k].type # "Part"
      /\ \A k \in {3, 5, 9} : form[k].type = "Part"
      /\ form[5].val = "ids" /\ form[9].val = "constants"
  BY <1>3 DEF Keyword, Delim, Part, Token
<1>5. ASSUME NEW k \in 1..9
      PROVE  /\ PartsUpTo(form, k) \in Nat /\ PartsUpTo(form, k - 1) \in Nat
             /\ PartsUpTo(form, k) = PartsUpTo(form, k - 1) + IF form[k].type = "Part" THEN 1 ELSE 0
  <2>1. k \in Nat /\ k - 1 \in Nat
    OBVIOUS
  <2>. QED
    BY <2>1, PartsCount
<1>6. PartsUpTo(form, 0) = 0 /\ PartsUpTo(form, 1) = 0 /\ PartsUpTo(form, 2) = 0
  BY <1>4, <1>5, PartsCount
<1>7. PartsUpTo(form, 3) = 1 /\ PartsUpTo(form, 4) = 1
  BY <1>4, <1>5, <1>6
<1>8. PartsUpTo(form, 5) = 2 /\ PartsUpTo(form, 6) = 2
  BY <1>4, <1>5, <1>7
<1>9. PartsUpTo(form, 7) = 2 /\ PartsUpTo(form, 8) = 2
  BY <1>4, <1>5, <1>8
<1>10. PartsUpTo(form, 9) = 3
  BY <1>4, <1>5, <1>9
<1>11. IsPart("ids", s.parts[2]) /\ IsPart("constants", s.parts[3])
  <2>1. 5 \in 1..n /\ 9 \in 1..n
    BY <1>2, <1>4
  <2>. QED
    BY <1>2, <1>4, <1>8, <1>10, <2>1, Zenon DEF Filled
<1>12. s.parts[2] \in Seq(STRING) /\ s.parts[3] \in Seq(ToSet(s.parts[3]))
  BY <1>11 DEF IsPart
<1>13. Len(s.parts[2]) \in Nat /\ Len(s.parts[3]) \in Nat
  BY <1>12
<1>. QED
  BY <1>13, LeastOfTwo

----------------------------------------------------------------------------
(* Every table has the layout of a schema.                                 *)
AllLaid(tables) == \A n \in DOMAIN tables : \E sch \in Declarations : tables[n] = LayoutOf[sch]

LaidInv == AllLaid(Tables(cat)) /\ AllLaid(Tables(saved))

(* So it is with one more.                                                 *)
LEMMA MoreLaid ==
  ASSUME NEW tables, AllLaid(tables), NEW sch \in Declarations, NEW name,
         NEW more, more = Dict!With(tables, name, LayoutOf[sch])
  PROVE  AllLaid(more)
<1>1. PICK layout : layout = LayoutOf[sch]
  OBVIOUS
<1>2. more = [n \in DOMAIN tables \cup {name} |-> IF n = name THEN layout ELSE tables[n]]
  BY <1>1, Zenon DEF Dict!With
<1>3. ASSUME NEW n \in DOMAIN more PROVE \E d \in Declarations : more[n] = LayoutOf[d]
  <2>1. CASE n = name
    BY <1>1, <1>2, <2>1
  <2>2. CASE n # name
    <3>1. n \in DOMAIN tables /\ more[n] = tables[n]
      BY <1>2, <2>2
    <3>. QED
      BY <3>1 DEF AllLaid
  <2>. QED
    BY <2>1, <2>2
<1>. QED
  BY <1>3 DEF AllLaid

(* No table, no layout.                                                    *)
LEMMA Init_Laid == Init => LaidInv
<1>. SUFFICES ASSUME Init PROVE LaidInv
  OBVIOUS
<1>1. Tables(cat) = Dict!Nothing /\ Tables(saved) = Dict!Nothing
  <2>1. Dict!DictInit
    BY Init_Dict
  <2>2. cat = saved
    BY DEF Init
  <2>. QED
    BY <2>1, <2>2, Zenon DEF Dict!DictInit
<1>2. DOMAIN Dict!Nothing = {}
  BY DEF Dict!Nothing
<1>. QED
  BY <1>1, <1>2 DEF LaidInv, AllLaid

(* A step of the dictionary leaves it so.                                  *)
LEMMA Next_Laid ==
  ASSUME FreshNames, DictInv, LaidInv, [Next]_vars
  PROVE  LaidInv'
<1>0. "create_table" \in DOMAIN Form
  BY DEF Form
<1>1. PICK t, v, t2, v2 : /\ t = Tables(cat) /\ v = Views(cat)
                          /\ t2 = Tables(saved) /\ v2 = Views(saved)
  OBVIOUS
<1>2. PICK u, w, u2, w2 : /\ u = Tables(cat') /\ w = Views(cat')
                          /\ u2 = Tables(saved') /\ w2 = Views(saved')
  OBVIOUS
<1>3. AllLaid(t) /\ AllLaid(t2)
  BY <1>1, Zenon DEF LaidInv
<1>4. SUFFICES AllLaid(u) /\ AllLaid(u2)
  BY <1>2, Zenon DEF LaidInv, AllLaid
<1>. DEFINE same == [tables |-> u2, views |-> w2] = [tables |-> t2, views |-> v2]
<1>5. same => u2 = t2
  OBVIOUS
<1>. HIDE DEF same
<1>6. DictStep
  BY Next_Dict
<1>7. CASE UNCHANGED Dict!dictVars
  <2>1. u = t /\ same
    BY <1>1, <1>2, <1>7, Zenon DEF Dict!dictVars, same
  <2>. QED
    BY <1>3, <1>5, <2>1
<1>8. CASE Dict!DictOther(stmt')
  <2>1. u = t /\ same
    BY <1>1, <1>2, <1>8, Zenon DEF Dict!DictOther, same
  <2>. QED
    BY <1>3, <1>5, <2>1
<1>9. CASE Dict!DictCreateTable(stmt')
  <2>1. u = Dict!With(t, stmt'.parts[1], LayoutOf[Schema[stmt'.parts[2]]]) /\ same
    BY <1>1, <1>2, <1>9, SameLayouts, Zenon DEF Dict!DictCreateTable, same
  <2>2. stmt'.kind = "create_table"
    BY <1>9, Zenon DEF Dict!DictCreateTable
  <2>3. IsStatement(stmt')
    <3>1. SentInv'
      BY Next_Sent DEF DictInv
    <3>. QED
      BY <2>2, <3>1, <1>0, SentIs
  <2>4. Schema[stmt'.parts[2]] \in Declarations
    BY <2>2, <2>3, TableParts, SchemaIs
  <2>. QED
    BY <1>3, <1>5, <2>1, <2>4, MoreLaid
<1>10. CASE Dict!DictCreateView(stmt')
  <2>1. u = t /\ same
    BY <1>1, <1>2, <1>10, Zenon DEF Dict!DictCreateView, same
  <2>. QED
    BY <1>3, <1>5, <2>1
<1>11. CASE Dict!DictCommit
  <2>1. u = t /\ [tables |-> u2, views |-> w2] = [tables |-> t, views |-> v]
    BY <1>1, <1>2, <1>11, Zenon DEF Dict!DictCommit, Dict!Dict
  <2>2. u2 = t
    BY <2>1
  <2>. QED
    BY <1>3, <2>1, <2>2
<1>12. CASE Dict!DictUndo
  <2>1. u = [tables |-> t2, views |-> v2].tables /\ same
    BY <1>1, <1>2, <1>12, Zenon DEF Dict!DictUndo, same
  <2>2. u = t2
    BY <2>1
  <2>. QED
    BY <1>3, <1>5, <2>1, <2>2
<1>13. ASSUME NEW name \in DOMAIN SystemSchema, Dict!DictSystemTable(name)
       PROVE  AllLaid(u) /\ AllLaid(u2)
  <2>1. u = Dict!With(t, name, LayoutOf[SystemSchema[name]]) /\ same
    BY <1>1, <1>2, <1>13, SameLayouts, Zenon DEF Dict!DictSystemTable, same
  <2>2. SystemSchema[name] \in Declarations
    BY SystemTyped
  <2>. QED
    BY <1>3, <1>5, <2>1, <2>2, MoreLaid
<1>. QED
  BY <1>6, <1>7, <1>8, <1>9, <1>10, <1>11, <1>12, <1>13, Zenon DEF DictStep, Dict!DictNext

(* So an INSERT finds the layout of a schema.                              *)
LEMMA LaidReadsBack == SentInv /\ LaidInv => InsertsReadBack
<1>. SUFFICES ASSUME SentInv, LaidInv, stmt.kind = "insert", HasTable(cat, stmt.parts[1])
              PROVE  RowReadsBack(GetLayout(cat, stmt.parts[1]), stmt.parts[2], stmt.parts[3])
  BY DEF InsertsReadBack
<1>0. stmt.kind \in DOMAIN Form
  BY DEF Form
<1>1. PICK name, fields, vals : name = stmt.parts[1] /\ fields = stmt.parts[2]
                                /\ vals = stmt.parts[3]
  OBVIOUS
<1>2. PICK n \in Nat : Given(n, fields, vals)
  <2>1. IsStatement(stmt)
    BY <1>0, SentIs
  <2>2. Min({Len(fields), Len(vals)}) \in Nat
    BY <1>1, <2>1, InsertParts
  <2>3. PICK n \in Nat : n = Min({Len(fields), Len(vals)})
    BY <2>2
  <2>. QED
    BY <2>3 DEF Given
<1>3. PICK sch \in Declarations : GetLayout(cat, name) = LayoutOf[sch]
  <2>1. PICK T : T = {r.table : r \in ToSet(cat.tblcat)}
    OBVIOUS
  <2>2. name \in T
    BY <1>1, <2>1 DEF HasTable
  <2>3. Tables(cat) = [m \in T |-> GetLayout(cat, m)]
    BY <2>1, Zenon DEF Tables
  <2>4. name \in DOMAIN Tables(cat) /\ Tables(cat)[name] = GetLayout(cat, name)
    BY <2>2, <2>3
  <2>. QED
    BY <2>4 DEF LaidInv, AllLaid
<1>. QED
  BY <1>1, <1>2, <1>3, RowsReadBack, Zenon

(* For every schema, block size, statement and number of processes, when   *)
(* clients take a new name for each table: a row inserted into any slot of *)
(* a block, through the layout that comes back from the catalogs, reads    *)
(* back as it was written, each field as the last value given for it, and  *)
(* inserting it leaves every other slot as it was (page.cpp, layout.cpp,   *)
(* recordpage.cpp, TableMgr::get_layout).                                  *)
THEOREM RowsComeBack ==
  ASSUME FreshNames
  PROVE  Spec => []InsertsReadBack
<1>1. Init => DictInv /\ LaidInv
  BY Init_Types, Init_Sent, Init_New, Init_Laid DEF DictInv
<1>2. DictInv /\ LaidInv /\ [Next]_vars => (DictInv /\ LaidInv)'
  BY Next_Types, Next_Sent, Next_Dict, Next_Laid DEF DictInv
<1>3. DictInv /\ LaidInv => InsertsReadBack
  BY LaidReadsBack DEF DictInv
<1>. QED
  BY <1>1, <1>2, <1>3, PTL DEF Spec
=============================================================================
