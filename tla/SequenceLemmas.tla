--------------------------- MODULE SequenceLemmas ---------------------------
(***************************************************************************)
(* Facts about sequences that the proofs rest on: induction over the       *)
(* naturals in the form of sets (the library's form has an operator as     *)
(* parameter), FlattenSeq of SequencesExt, Reverse, and prefixes.          *)
(***************************************************************************)
EXTENDS SequencesExt, SequenceTheorems, FiniteSetTheorems, WellFoundedInduction, TLAPS

(* A nonempty set of naturals has a least member. *)
LEMMA LeastNat ==
  ASSUME NEW S \in SUBSET Nat, S # {}
  PROVE  \E i \in S : \A j \in S : i <= j
<1>. DEFINE Below == {1..i : i \in S}
<1>2. \A i \in S : 1..i \in FiniteSubsetsOf(Nat)
  BY FS_Interval DEF FiniteSubsetsOf
<1>3. PICK T \in Below : \A U \in Below : <<U, T>> \notin StrictSubsetOrdering(Nat)
  <2>1. Below \subseteq FiniteSubsetsOf(Nat) /\ Below # {}
    BY <1>2
  <2>2. IsWellFoundedOn(StrictSubsetOrdering(Nat), FiniteSubsetsOf(Nat))
    BY FS_StrictSubsetOrderingWellFounded
  <2>. HIDE DEF Below
  <2>. QED
    BY <2>1, <2>2, WFMin
<1>4. PICK i \in S : T = 1..i
  OBVIOUS
<1>5. ASSUME NEW j \in S PROVE i <= j
  <2>1. SUFFICES ASSUME j < i PROVE FALSE
    OBVIOUS
  <2>2. 1..j \subseteq 1..i /\ 1..j # 1..i
    BY <2>1
  <2>3. <<1..j, 1..i>> \in StrictSubsetOrdering(Nat)
    BY <2>2, <1>2 DEF StrictSubsetOrdering, FiniteSubsetsOf
  <2>. QED
    BY <2>3, <1>3, <1>4
<1>. QED
  BY <1>5

LEMMA SetInduction ==
  ASSUME NEW T, 0 \in T, \A n \in Nat : n \in T => n + 1 \in T
  PROVE  Nat \subseteq T
<1>. SUFFICES ASSUME Nat \ T # {} PROVE FALSE
  OBVIOUS
<1>1. PICK i \in Nat \ T : \A j \in Nat \ T : i <= j
  <2>1. Nat \ T \in SUBSET Nat
    OBVIOUS
  <2>. QED
    BY <2>1, LeastNat
<1>2. i - 1 \in Nat /\ i - 1 \in T
  BY <1>1
<1>. QED
  BY <1>1, <1>2

----------------------------------------------------------------------------
(* The recursive function in the definition of FlattenSeq: f flattens the  *)
(* first n members of s.                                                   *)
Flattens(f, s, n) == f = [i \in 1..n |-> IF i = 1 THEN s[i] ELSE f[i - 1] \o s[i]]

LEMMA FlattensAt ==
  ASSUME NEW f, NEW s, NEW n \in Nat, Flattens(f, s, n), NEW i \in 1..n
  PROVE  f[i] = IF i = 1 THEN s[i] ELSE f[i - 1] \o s[i]
<1>. DEFINE g == [j \in 1..n |-> IF j = 1 THEN s[j] ELSE f[j - 1] \o s[j]]
<1>1. f = g
  BY Zenon DEF Flattens
<1>2. g[i] = IF i = 1 THEN s[i] ELSE f[i - 1] \o s[i]
  OBVIOUS
<1>. HIDE DEF g
<1>. QED
  BY <1>1, <1>2

LEMMA FlattenExists ==
  ASSUME NEW s, NEW n \in Nat
  PROVE  \E f : Flattens(f, s, n)
<1>. DEFINE T == {m \in Nat : \E f : Flattens(f, s, m)}
<1>1. 0 \in T
  <2>1. Flattens([i \in 1..0 |-> <<>>], s, 0)
    BY DEF Flattens
  <2>. QED
    BY <2>1
<1>2. ASSUME NEW m \in Nat, m \in T
      PROVE  m + 1 \in T
  <2>1. PICK g : Flattens(g, s, m)
    BY <1>2
  <2>. DEFINE f == [i \in 1..(m + 1) |-> IF i = m + 1
                                         THEN IF i = 1 THEN s[i] ELSE g[m] \o s[i]
                                         ELSE g[i]]
  <2>2. ASSUME NEW i \in 1..(m + 1)
        PROVE  f[i] = IF i = 1 THEN s[i] ELSE f[i - 1] \o s[i]
    <3>1. CASE i = m + 1
      BY <3>1
    <3>2. CASE i # m + 1
      <4>0. i \in 1..m
        BY <3>2
      <4>1. g[i] = (IF i = 1 THEN s[i] ELSE g[i - 1] \o s[i])
        BY <2>1, <4>0, FlattensAt
      <4>2. f[i] = g[i] /\ (i # 1 => i - 1 \in 1..(m + 1) /\ i - 1 # m + 1 /\ f[i - 1] = g[i - 1])
        BY <3>2
      <4>. QED
        BY <4>1, <4>2
    <3>. QED
      BY <3>1, <3>2
  <2>3. Flattens(f, s, m + 1)
    <3>1. f = [i \in 1..(m + 1) |-> f[i]]
      OBVIOUS
    <3>. HIDE DEF f
    <3>. QED
      BY <2>2, <3>1 DEF Flattens
  <2>. QED
    BY <2>3
<1>. HIDE DEF T
<1>3. Nat \subseteq T
  BY <1>1, <1>2, SetInduction
<1>. QED
  BY <1>3 DEF T

(* Where two sequences agree, so do their flattenings. *)
LEMMA FlattenAgrees ==
  ASSUME NEW S, NEW s, NEW t, NEW f, NEW g, NEW m \in Nat, NEW n \in Nat,
         Flattens(f, s, m), Flattens(g, t, n),
         m <= n, \A i \in 1..m : s[i] = t[i] /\ s[i] \in Seq(S)
  PROVE  \A i \in 1..m : f[i] = g[i] /\ f[i] \in Seq(S)
<1>. DEFINE T == {j \in Nat : j \in 1..m => f[j] = g[j] /\ f[j] \in Seq(S)}
<1>1. 0 \in T
  OBVIOUS
<1>2. ASSUME NEW j \in Nat, j \in T
      PROVE  j + 1 \in T
  <2>. SUFFICES ASSUME j + 1 \in 1..m
                PROVE  f[j + 1] = g[j + 1] /\ f[j + 1] \in Seq(S)
    OBVIOUS
  <2>1. /\ f[j + 1] = IF j + 1 = 1 THEN s[j + 1] ELSE f[j] \o s[j + 1]
        /\ g[j + 1] = IF j + 1 = 1 THEN t[j + 1] ELSE g[j] \o t[j + 1]
    <3>1. j + 1 \in 1..m /\ j + 1 \in 1..n /\ j + 1 - 1 = j
      OBVIOUS
    <3>2. f[j + 1] = IF j + 1 = 1 THEN s[j + 1] ELSE f[j + 1 - 1] \o s[j + 1]
      BY <3>1, FlattensAt
    <3>3. g[j + 1] = IF j + 1 = 1 THEN t[j + 1] ELSE g[j + 1 - 1] \o t[j + 1]
      BY <3>1, FlattensAt
    <3>. QED
      BY <3>1, <3>2, <3>3
  <2>2. CASE j = 0
    BY <2>1, <2>2
  <2>3. CASE j # 0
    <3>1. f[j] = g[j] /\ f[j] \in Seq(S)
      BY <1>2, <2>3
    <3>2. s[j + 1] = t[j + 1] /\ s[j + 1] \in Seq(S)
      OBVIOUS
    <3>. QED
      BY <2>1, <2>3, <3>1, <3>2, ConcatProperties
  <2>. QED
    BY <2>2, <2>3
<1>. HIDE DEF T
<1>3. Nat \subseteq T
  BY <1>1, <1>2, SetInduction
<1>. QED
  BY <1>3 DEF T

LEMMA FlattenIs ==
  ASSUME NEW S, NEW s \in Seq(Seq(S))
  PROVE  /\ s = <<>> => FlattenSeq(s) = <<>>
         /\ s # <<>> => \E f : Flattens(f, s, Len(s)) /\ FlattenSeq(s) = f[Len(s)]
<1>1. Len(s) \in Nat /\ (s = <<>> <=> Len(s) = 0)
  BY EmptySeq
<1>2. CASE s = <<>>
  BY <1>1, <1>2 DEF FlattenSeq
<1>3. CASE s # <<>>
  <2>. DEFINE F == CHOOSE f : Flattens(f, s, Len(s))
  <2>1. Flattens(F, s, Len(s))
    BY <1>1, FlattenExists
  <2>2. FlattenSeq(s) = F[Len(s)]
    BY <1>1, <1>3 DEF FlattenSeq, Flattens
  <2>. QED
    BY <1>3, <2>1, <2>2
<1>. QED
  BY <1>2, <1>3

LEMMA FlattenAppend ==
  ASSUME NEW S, NEW s \in Seq(Seq(S)), NEW x \in Seq(S)
  PROVE  /\ FlattenSeq(s) \in Seq(S)
         /\ FlattenSeq(Append(s, x)) = FlattenSeq(s) \o x
<1>. DEFINE n == Len(s)
            t == Append(s, x)
<1>1. /\ n \in Nat /\ t \in Seq(Seq(S)) /\ t # <<>> /\ Len(t) = n + 1
      /\ \A i \in 1..n : t[i] = s[i] /\ s[i] \in Seq(S)
      /\ t[n + 1] = x
  BY AppendProperties, LenProperties
<1>. HIDE DEF n, t
<1>0. PICK m \in Nat : m = n + 1
  BY <1>1
<1>2. PICK g : Flattens(g, t, m) /\ FlattenSeq(t) = g[m]
  BY <1>0, <1>1, FlattenIs
<1>3. g[m] = IF n = 0 THEN x ELSE g[n] \o x
  <2>1. m \in 1..m /\ m - 1 = n /\ (m = 1 <=> n = 0) /\ t[m] = x
    BY <1>0, <1>1
  <2>2. g[m] = IF m = 1 THEN t[m] ELSE g[m - 1] \o t[m]
    BY <1>2, <2>1, FlattensAt
  <2>. QED
    BY <2>1, <2>2
<1>4. CASE s = <<>>
  BY <1>2, <1>3, <1>4, FlattenIs, ConcatEmptySeq, EmptySeq DEF n, t
<1>5. CASE s # <<>>
  <2>1. PICK f : Flattens(f, s, n) /\ FlattenSeq(s) = f[n]
    BY <1>5, FlattenIs DEF n
  <2>2. n \in 1..n /\ n # 0
    BY <1>1, <1>5, EmptySeq DEF n
  <2>3. n <= m /\ \A i \in 1..n : s[i] = t[i] /\ s[i] \in Seq(S)
    BY <1>0, <1>1
  <2>4. \A i \in 1..n : f[i] = g[i] /\ f[i] \in Seq(S)
    <3>1. n \in Nat /\ m \in Nat
      BY <1>1
    <3>. QED
      BY <1>2, <2>1, <2>3, <3>1, FlattenAgrees
  <2>. QED
    BY <1>2, <1>3, <2>1, <2>2, <2>4 DEF t
<1>. QED
  BY <1>4, <1>5

----------------------------------------------------------------------------
LEMMA ReverseIs ==
  ASSUME NEW S, NEW s \in Seq(S)
  PROVE  /\ Reverse(s) \in Seq(S) /\ Len(Reverse(s)) = Len(s)
         /\ \A i \in 1..Len(s) : Reverse(s)[i] = s[Len(s) - i + 1]
<1>1. Len(s) \in Nat /\ \A i \in 1..Len(s) : Len(s) - i + 1 \in 1..Len(s)
  OBVIOUS
<1>2. Reverse(s) \in [1..Len(s) -> S]
  BY <1>1, ElementOfSeq DEF Reverse
<1>3. Reverse(s) \in Seq(S)
  BY <1>1, <1>2, SeqDef
<1>4. DOMAIN Reverse(s) = 1..Len(s)
  BY DEF Reverse
<1>5. Len(Reverse(s)) = Len(s)
  BY <1>1, <1>3, <1>4, LenProperties
<1>. QED
  BY <1>3, <1>5 DEF Reverse

LEMMA ReverseTwice ==
  ASSUME NEW S, NEW s \in Seq(S)
  PROVE  Reverse(Reverse(s)) = s
<1>1. /\ Reverse(s) \in Seq(S) /\ Reverse(Reverse(s)) \in Seq(S)
      /\ Len(Reverse(s)) = Len(s) /\ Len(Reverse(Reverse(s))) = Len(s) /\ Len(s) \in Nat
  BY ReverseIs
<1>2. ASSUME NEW i \in 1..Len(s)
      PROVE  Reverse(Reverse(s))[i] = s[i]
  <2>1. Reverse(Reverse(s))[i] = Reverse(s)[Len(s) - i + 1]
    BY <1>1, ReverseIs
  <2>2. Len(s) - i + 1 \in 1..Len(s) /\ Len(s) - (Len(s) - i + 1) + 1 = i
    BY <1>1
  <2>3. Reverse(s)[Len(s) - i + 1] = s[Len(s) - (Len(s) - i + 1) + 1]
    BY <2>2, ReverseIs
  <2>. QED
    BY <2>1, <2>2, <2>3
<1>. QED
  BY <1>1, <1>2, SeqEqual

LEMMA ReverseConcat ==
  ASSUME NEW S, NEW s \in Seq(S), NEW t \in Seq(S)
  PROVE  Reverse(s \o t) = Reverse(t) \o Reverse(s)
<1>. DEFINE a == Reverse(s \o t)
            b == Reverse(t) \o Reverse(s)
            m == Len(s)
            n == Len(t)
<1>1. /\ s \o t \in Seq(S) /\ Len(s \o t) = m + n /\ m \in Nat /\ n \in Nat
      /\ Reverse(s) \in Seq(S) /\ Len(Reverse(s)) = m
      /\ Reverse(t) \in Seq(S) /\ Len(Reverse(t)) = n
  BY ConcatProperties, ReverseIs
<1>2. /\ a \in Seq(S) /\ Len(a) = m + n
      /\ \A i \in 1..(m + n) : a[i] = (s \o t)[m + n - i + 1]
  <2>. DEFINE c == s \o t
  <2>1. c \in Seq(S) /\ Len(c) = m + n
    BY <1>1
  <2>3. a = Reverse(c) /\ s \o t = c
    OBVIOUS
  <2>. HIDE DEF a, c, m, n
  <2>2. /\ Reverse(c) \in Seq(S) /\ Len(Reverse(c)) = Len(c)
        /\ \A i \in 1..Len(c) : Reverse(c)[i] = c[Len(c) - i + 1]
    BY <2>1, ReverseIs
  <2>4. \A i \in 1..(m + n) : Reverse(c)[i] = c[m + n - i + 1]
    BY <1>1, <2>1, <2>2
  <2>. QED
    BY <2>1, <2>2, <2>3, <2>4
<1>6. b \in Seq(S) /\ Len(b) = n + m
  <2>. HIDE DEF m, n
  <2>. QED
    BY <1>1, ConcatProperties
<1>3. ASSUME NEW i \in 1..(m + n)
      PROVE  a[i] = b[i]
  <2>1. a[i] = (s \o t)[m + n - i + 1] /\ m + n - i + 1 \in 1..(m + n)
    BY <1>1, <1>2
  <2>2. (s \o t)[m + n - i + 1] = IF m + n - i + 1 <= m THEN s[m + n - i + 1] ELSE t[m + n - i + 1 - m]
    BY <2>1, ConcatProperties
  <2>3. b[i] = IF i <= n THEN Reverse(t)[i] ELSE Reverse(s)[i - n]
    BY <1>1, ConcatProperties
  <2>4. CASE i <= n
    <3>1. Reverse(t)[i] = t[n - i + 1] /\ m + n - i + 1 - m = n - i + 1
      BY <1>1, <2>4, ReverseIs
    <3>2. ~(m + n - i + 1 <= m)
      BY <1>1, <2>4
    <3>. QED
      BY <2>1, <2>2, <2>3, <2>4, <3>1, <3>2
  <2>5. CASE ~(i <= n)
    <3>1. i - n \in 1..m /\ m - (i - n) + 1 = m + n - i + 1 /\ m + n - i + 1 <= m
      BY <1>1, <2>5
    <3>2. Reverse(s)[i - n] = s[m - (i - n) + 1]
      BY <3>1, ReverseIs
    <3>. QED
      BY <2>1, <2>2, <2>3, <2>5, <3>1, <3>2
  <2>. QED
    BY <2>4, <2>5
<1>. HIDE DEF a, b, m, n
<1>4. m + n = n + m
  BY <1>1
<1>5. a = b
  BY <1>2, <1>3, <1>4, <1>6, SeqEqual
<1>. QED
  BY <1>5 DEF a, b

LEMMA PrefixIff ==
  ASSUME NEW S, NEW s \in Seq(S), NEW t \in Seq(S)
  PROVE  IsPrefix(s, t) <=> Len(s) <= Len(t) /\ \A i \in 1..Len(s) : s[i] = t[i]
<1>. SUFFICES ASSUME Len(s) <= Len(t)
              PROVE  SubSeq(s, 1, Len(s)) = SubSeq(t, 1, Len(s))
                        <=> \A i \in 1..Len(s) : s[i] = t[i]
  BY DEF IsPrefix
<1>1. Len(s) \in Nat /\ Len(t) \in Nat /\ SubSeq(s, 1, Len(s)) = s
  BY SubSeqFull
<1>2. \A i \in 1..Len(s) : t[i] \in S
  BY <1>1, ElementOfSeq
<1>3. /\ SubSeq(t, 1, Len(s)) \in Seq(S) /\ Len(SubSeq(t, 1, Len(s))) = Len(s)
      /\ \A i \in 1..Len(s) : SubSeq(t, 1, Len(s))[i] = t[i]
  <2>1. /\ SubSeq(t, 1, Len(s)) \in Seq(S)
        /\ Len(SubSeq(t, 1, Len(s))) = IF 1 <= Len(s) THEN Len(s) - 1 + 1 ELSE 0
        /\ \A i \in 1..(Len(s) - 1 + 1) : SubSeq(t, 1, Len(s))[i] = t[1 + i - 1]
    BY <1>1, <1>2, SubSeqProperties
  <2>. QED
    BY <1>1, <2>1
<1>. QED
  BY <1>1, <1>3, SeqEqual

LEMMA PrefixConcat ==
  ASSUME NEW S, NEW s \in Seq(S), NEW t \in Seq(S), NEW u \in Seq(S), IsPrefix(s, t)
  PROVE  /\ IsPrefix(s, t \o u) /\ IsPrefix(u \o s, u \o t)
<1>1. /\ Len(s) \in Nat /\ Len(t) \in Nat /\ Len(u) \in Nat /\ Len(s) <= Len(t)
      /\ \A i \in 1..Len(s) : s[i] = t[i]
  BY PrefixIff
<1>2. IsPrefix(s, t \o u)
  <2>1. t \o u \in Seq(S) /\ Len(t \o u) = Len(t) + Len(u) /\ \A i \in 1..Len(t) : (t \o u)[i] = t[i]
    BY <1>1, ConcatProperties
  <2>2. Len(s) <= Len(t \o u) /\ \A i \in 1..Len(s) : s[i] = (t \o u)[i]
    BY <1>1, <2>1
  <2>. QED
    BY <2>1, <2>2, PrefixIff
<1>3. IsPrefix(u \o s, u \o t)
  <2>1. /\ u \o s \in Seq(S) /\ Len(u \o s) = Len(u) + Len(s)
        /\ u \o t \in Seq(S) /\ Len(u \o t) = Len(u) + Len(t)
    BY ConcatProperties
  <2>2. ASSUME NEW i \in 1..(Len(u) + Len(s)) PROVE (u \o s)[i] = (u \o t)[i]
    <3>1. (u \o s)[i] = IF i <= Len(u) THEN u[i] ELSE s[i - Len(u)]
      BY ConcatProperties
    <3>2. i \in 1..(Len(u) + Len(t))
      BY <1>1
    <3>3. (u \o t)[i] = IF i <= Len(u) THEN u[i] ELSE t[i - Len(u)]
      BY <3>2, ConcatProperties
    <3>4. ~(i <= Len(u)) => i - Len(u) \in 1..Len(s)
      BY <1>1
    <3>. QED
      BY <1>1, <3>1, <3>3, <3>4
  <2>3. Len(u \o s) <= Len(u \o t)
    BY <1>1, <2>1
  <2>. QED
    BY <2>1, <2>2, <2>3, PrefixIff
<1>. QED
  BY <1>2, <1>3

LEMMA PrefixSelf ==
  ASSUME NEW S, NEW s \in Seq(S), NEW t \in Seq(S)
  PROVE  IsPrefix(s, s) /\ IsPrefix(s, s \o t)
<1>1. IsPrefix(s, s)
  BY PrefixIff
<1>. QED
  BY <1>1, PrefixConcat

LEMMA PrefixEmpty ==
  ASSUME NEW S, NEW t \in Seq(S)
  PROVE  IsPrefix(<<>>, t)
<1>1. <<>> \in Seq(S) /\ Len(<<>>) = 0 /\ Len(t) \in Nat
  BY EmptySeq, LenProperties
<1>2. Len(<<>>) <= Len(t) /\ \A i \in 1..Len(<<>>) : <<>>[i] = t[i]
  BY <1>1
<1>. QED
  BY <1>1, <1>2, PrefixIff

(* A sequence is what comes before its last member, and that member. *)
LEMMA FrontLast ==
  ASSUME NEW S, NEW s \in Seq(S), s # <<>>
  PROVE  /\ SubSeq(s, 1, Len(s) - 1) \in Seq(S) /\ s[Len(s)] \in S
         /\ s = Append(SubSeq(s, 1, Len(s) - 1), s[Len(s)])
<1>1. PICK t \in Seq(S), x \in S : s = Append(t, x)
  BY SequenceEmptyOrAppend
<1>2. /\ Len(s) = Len(t) + 1 /\ Len(t) \in Nat /\ s[Len(s)] = x
      /\ \A i \in 1..Len(t) : s[i] = t[i] /\ s[i] \in S
  BY <1>1, AppendProperties, LenProperties
<1>3. SubSeq(s, 1, Len(t)) = t
  <2>1. /\ SubSeq(s, 1, Len(t)) \in Seq(S)
        /\ Len(SubSeq(s, 1, Len(t))) = IF 1 <= Len(t) THEN Len(t) - 1 + 1 ELSE 0
        /\ \A i \in 1..(Len(t) - 1 + 1) : SubSeq(s, 1, Len(t))[i] = s[1 + i - 1]
    BY <1>2, SubSeqProperties
  <2>2. Len(SubSeq(s, 1, Len(t))) = Len(t) /\ \A i \in 1..Len(t) : SubSeq(s, 1, Len(t))[i] = t[i]
    BY <1>2, <2>1
  <2>. QED
    BY <2>1, <2>2, SeqEqual
<1>. QED
  BY <1>1, <1>2, <1>3

LEMMA AppendConcat ==
  ASSUME NEW S, NEW s \in Seq(S), NEW t \in Seq(S), NEW x \in S,
         NEW u, u = Append(t, x)
  PROVE  s \o u = Append(s \o t, x)
<1>1. <<x>> \in Seq(S) /\ s \o t \in Seq(S)
  BY ConcatProperties
<1>2. Append(s \o t, x) = (s \o t) \o <<x>> /\ u = t \o <<x>>
  BY <1>1, AppendIsConcat
<1>. QED
  BY <1>1, <1>2, ConcatAssociative

(* The first i members of a sequence are the first i - 1, and the i-th. *)
LEMMA SubSeqStep ==
  ASSUME NEW S, NEW s \in Seq(S), NEW i \in 1..Len(s)
  PROVE  /\ SubSeq(s, 1, i - 1) \in Seq(S) /\ SubSeq(s, 1, i) \in Seq(S)
         /\ s[i] \in S
         /\ SubSeq(s, 1, i) = Append(SubSeq(s, 1, i - 1), s[i])
<1>. DEFINE a == SubSeq(s, 1, i - 1)
            b == SubSeq(s, 1, i)
            c == Append(a, s[i])
<1>1. Len(s) \in Nat /\ i \in Nat /\ i - 1 \in Nat /\ s[i] \in S
  BY LenProperties, ElementOfSeq
<1>2. a \in Seq(S) /\ Len(a) = i - 1 /\ \A j \in 1..(i - 1) : a[j] = s[j]
  BY <1>1, SubSeqProperties
<1>3. b \in Seq(S) /\ Len(b) = i /\ \A j \in 1..i : b[j] = s[j]
  BY <1>1, SubSeqProperties
<1>. HIDE DEF a, b
<1>4. /\ c \in Seq(S) /\ Len(c) = i - 1 + 1
      /\ \A j \in 1..(i - 1) : c[j] = a[j]
      /\ c[i - 1 + 1] = s[i]
  BY <1>1, <1>2, AppendProperties
<1>. HIDE DEF c
<1>5. Len(c) = i /\ c[i] = s[i]
  BY <1>1, <1>4
<1>6. \A j \in 1..i : b[j] = c[j]
  BY <1>1, <1>2, <1>3, <1>4, <1>5
<1>7. b = c
  BY <1>3, <1>4, <1>5, <1>6, SeqEqual
<1>. QED
  BY <1>1, <1>2, <1>3, <1>7 DEF a, b, c

(* Changing the n-th member leaves those before it. *)
LEMMA ExceptIs ==
  ASSUME NEW S, NEW s \in Seq(S), NEW n \in 1..Len(s), NEW x \in S,
         NEW t, t = [s EXCEPT ![n] = x]
  PROVE  /\ t \in Seq(S) /\ Len(t) = Len(s) /\ t[n] = x
         /\ \A i \in 1..Len(s) : i # n => t[i] = s[i]
         /\ SubSeq(t, 1, n - 1) = SubSeq(s, 1, n - 1)
<1>1. t \in Seq(S) /\ Len(t) = Len(s) /\ t[n] = x /\ \A i \in 1..Len(s) : i # n => t[i] = s[i]
  BY ExceptSeq
<1>2. Len(s) \in Nat /\ n \in Nat /\ n - 1 \in Nat
  BY LenProperties
<1>. DEFINE a == SubSeq(t, 1, n - 1)
            b == SubSeq(s, 1, n - 1)
<1>3. a \in Seq(S) /\ Len(a) = n - 1 /\ \A j \in 1..(n - 1) : a[j] = t[j]
  BY <1>1, <1>2, SubSeqProperties
<1>4. b \in Seq(S) /\ Len(b) = n - 1 /\ \A j \in 1..(n - 1) : b[j] = s[j]
  BY <1>2, SubSeqProperties
<1>. HIDE DEF a, b
<1>5. \A j \in 1..(n - 1) : a[j] = b[j]
  BY <1>1, <1>2, <1>3, <1>4
<1>6. a = b
  BY <1>3, <1>4, <1>5, SeqEqual
<1>. QED
  BY <1>1, <1>6 DEF a, b

(* What is appended leaves the sequence as it was. *)
LEMMA AppendKeeps ==
  ASSUME NEW S, NEW s \in Seq(S), NEW x \in S, NEW n \in 0..Len(s),
         NEW t, t = Append(s, x)
  PROVE  SubSeq(t, 1, n) = SubSeq(s, 1, n)
<1>1. /\ t \in Seq(S) /\ Len(t) = Len(s) + 1 /\ Len(s) \in Nat /\ n \in Nat
      /\ \A i \in 1..Len(s) : t[i] = s[i]
  BY AppendProperties, LenProperties
<1>. DEFINE a == SubSeq(t, 1, n)
            b == SubSeq(s, 1, n)
<1>3. a \in Seq(S) /\ Len(a) = n /\ \A j \in 1..n : a[j] = t[j]
  BY <1>1, SubSeqProperties
<1>4. b \in Seq(S) /\ Len(b) = n /\ \A j \in 1..n : b[j] = s[j]
  BY <1>1, SubSeqProperties
<1>. HIDE DEF a, b
<1>5. \A j \in 1..n : a[j] = b[j]
  BY <1>1, <1>3, <1>4
<1>6. a = b
  BY <1>3, <1>4, <1>5, SeqEqual
<1>. QED
  BY <1>6 DEF a, b

LEMMA ConcatThree ==
  ASSUME NEW S, NEW s \in Seq(S), NEW t \in Seq(S), NEW u \in Seq(S), NEW v, v = t \o u
  PROVE  (s \o t) \o u = s \o v
BY ConcatAssociative

(* Flattening one sequence, and a sequence put before others. *)
LEMMA FlattenHead ==
  ASSUME NEW S, NEW x \in Seq(S), NEW s \in Seq(Seq(S))
  PROVE  FlattenSeq(<<x>>) = x /\ FlattenSeq(<<x>> \o s) = x \o FlattenSeq(s)
<1>0. PICK e : e = <<x>>
  OBVIOUS
<1>. DEFINE Q == Seq(S)
            T == {n \in Nat : \A r \in Seq(Q) : Len(r) = n =>
                                 FlattenSeq(e \o r) = x \o FlattenSeq(r)}
<1>1. x \in Q /\ e \in Seq(Q) /\ <<>> \in Seq(Q)
  BY <1>0
<1>2. FlattenSeq(e) = x
  <2>1. e = Append(<<>>, x)
    BY <1>0, <1>1
  <2>2. FlattenSeq(Append(<<>>, x)) = FlattenSeq(<<>>) \o x
    BY <1>1, FlattenAppend
  <2>3. FlattenSeq(<<>>) = <<>>
    BY <1>1, FlattenIs
  <2>. QED
    BY <2>1, <2>2, <2>3, ConcatEmptySeq
<1>3. 0 \in T
  <2>1. ASSUME NEW r \in Seq(Q), Len(r) = 0 PROVE FlattenSeq(e \o r) = x \o FlattenSeq(r)
    <3>1. r = <<>> /\ e \o r = e
      BY <1>1, <2>1
    <3>2. FlattenSeq(r) = <<>>
      BY <3>1, <1>1, FlattenIs
    <3>. QED
      BY <1>2, <3>1, <3>2
  <2>. QED
    BY <2>1
<1>4. ASSUME NEW n \in Nat, n \in T PROVE n + 1 \in T
  <2>1. ASSUME NEW r \in Seq(Q), Len(r) = n + 1 PROVE FlattenSeq(e \o r) = x \o FlattenSeq(r)
    <3>7. PICK q : q = SubSeq(r, 1, Len(r) - 1)
      OBVIOUS
    <3>8. PICK y : y = r[Len(r)]
      OBVIOUS
    <3>1. q \in Seq(Q) /\ y \in Q /\ r = Append(q, y)
      <4>1. r # <<>>
        BY <2>1
      <4>. QED
        BY <3>7, <3>8, <4>1, FrontLast
    <3>2. Len(q) = n
      BY <2>1, <3>1
    <3>3. FlattenSeq(e \o q) = x \o FlattenSeq(q)
      BY <1>4, <3>1, <3>2
    <3>4. e \o q \in Seq(Q) /\ e \o r = Append(e \o q, y)
      <4>1. e \o q \in Seq(Q)
        BY <1>1, <3>1
      <4>2. e \o r = Append(e \o q, y)
        <5>. HIDE DEF Q
        <5>. QED
          BY <1>1, <3>1, AppendConcat
      <4>. QED
        BY <4>1, <4>2
    <3>5. /\ FlattenSeq(e \o r) = FlattenSeq(e \o q) \o y
          /\ FlattenSeq(r) = FlattenSeq(q) \o y /\ FlattenSeq(q) \in Seq(S)
      BY <3>1, <3>4, FlattenAppend
    <3>6. (x \o FlattenSeq(q)) \o y = x \o (FlattenSeq(q) \o y)
      <4>. PICK u : u = FlattenSeq(q)
        OBVIOUS
      <4>1. u \in Seq(S) /\ y \in Seq(S)
        BY <3>1, <3>5
      <4>2. (x \o u) \o y = x \o (u \o y)
        BY <4>1, ConcatAssociative
      <4>. QED
        BY <4>2
    <3>. QED
      BY <3>3, <3>5, <3>6
  <2>. QED
    BY <2>1
<1>. HIDE DEF T
<1>5. Nat \subseteq T
  BY <1>3, <1>4, SetInduction
<1>6. FlattenSeq(e \o s) = x \o FlattenSeq(s)
  <2>1. Len(s) \in T
    BY <1>5, LenProperties
  <2>. QED
    BY <2>1 DEF T
<1>. QED
  BY <1>0, <1>2, <1>6

(* What is closed under concatenation holds of the flattened sequence. *)
LEMMA FlattenClosed ==
  ASSUME NEW S, NEW W \in SUBSET Seq(S), <<>> \in W, \A x, y \in W : x \o y \in W,
         NEW s \in Seq(W)
  PROVE  FlattenSeq(s) \in W
<1>. DEFINE Q == Seq(S)
            T == {n \in Nat : \A r \in Seq(W) : Len(r) = n => FlattenSeq(r) \in W}
<1>0. ASSUME NEW r \in Seq(W) PROVE r \in Seq(Q)
  OBVIOUS
<1>1. 0 \in T
  <2>1. ASSUME NEW r \in Seq(W), Len(r) = 0 PROVE FlattenSeq(r) \in W
    <3>1. r = <<>> /\ r \in Seq(Q)
      BY <1>0, <2>1
    <3>2. FlattenSeq(r) = <<>>
      BY <3>1, FlattenIs
    <3>. QED
      BY <3>2
  <2>. QED
    BY <2>1
<1>2. ASSUME NEW n \in Nat, n \in T PROVE n + 1 \in T
  <2>1. ASSUME NEW r \in Seq(W), Len(r) = n + 1 PROVE FlattenSeq(r) \in W
    <3>7. PICK q : q = SubSeq(r, 1, Len(r) - 1)
      OBVIOUS
    <3>8. PICK y : y = r[Len(r)]
      OBVIOUS
    <3>1. q \in Seq(W) /\ y \in W /\ r = Append(q, y)
      <4>1. r # <<>>
        BY <2>1
      <4>. QED
        BY <3>7, <3>8, <4>1, FrontLast
    <3>2. Len(q) = n
      BY <2>1, <3>1
    <3>3. FlattenSeq(q) \in W
      BY <1>2, <3>1, <3>2
    <3>4. q \in Seq(Q) /\ y \in Seq(S)
      BY <1>0, <3>1
    <3>5. FlattenSeq(r) = FlattenSeq(q) \o y
      BY <3>1, <3>4, FlattenAppend
    <3>. QED
      BY <3>1, <3>3, <3>5
  <2>. QED
    BY <2>1
<1>. HIDE DEF T
<1>3. Nat \subseteq T
  BY <1>1, <1>2, SetInduction
<1>4. Len(s) \in T
  BY <1>3, LenProperties
<1>. QED
  BY <1>4 DEF T

(* The sequences over a set are closed under it. *)
LEMMA FlattenTyped ==
  ASSUME NEW S, NEW s \in Seq(Seq(S))
  PROVE  FlattenSeq(s) \in Seq(S)
<1>1. <<>> \in Seq(S) /\ \A x, y \in Seq(S) : x \o y \in Seq(S)
  OBVIOUS
<1>. QED
  BY <1>1, FlattenClosed

(* A function on 1..n is a sequence. *)
LEMMA SeqIf ==
  ASSUME NEW S, NEW n \in Nat, NEW h, h = [k \in 1..n |-> h[k]], \A k \in 1..n : h[k] \in S
  PROVE  h \in Seq(S) /\ Len(h) = n /\ DOMAIN h = 1..n
<1>1. PICK g : g = [k \in 1..n |-> h[k]]
  OBVIOUS
<1>2. g \in Seq(S) /\ Len(g) = n /\ DOMAIN g = 1..n
  BY <1>1
<1>3. g = h
  BY <1>1, Zenon
<1>. QED
  BY <1>2, <1>3

(* Two sequences of two and of one element in a row, and three single elements. *)
LEMMA TwoAndOne ==
  ASSUME NEW S, NEW a \in Seq(S), Len(a) = 2, NEW c \in Seq(S), Len(c) = 1
  PROVE  a \o c = <<a[1], a[2], c[1]>>
<1>1. PICK b : b = a \o c
  OBVIOUS
<1>2. /\ b \in Seq(S) /\ Len(b) = Len(a) + Len(c)
      /\ \A k \in 1..Len(a) + Len(c) : b[k] = IF k <= Len(a) THEN a[k] ELSE c[k - Len(a)]
  BY <1>1, ConcatProperties
<1>3. b \in Seq(S) /\ Len(b) = 3 /\ \A k \in 1..3 : b[k] = IF k <= 2 THEN a[k] ELSE c[k - 2]
  BY <1>2
<1>4. b[1] = a[1] /\ b[2] = a[2] /\ b[3] = c[1]
  BY <1>3
<1>5. b = <<b[1], b[2], b[3]>>
  BY <1>3
<1>. QED
  BY <1>1, <1>4, <1>5, Zenon

(* Three sequences of one element.                                         *)
LEMMA ThreeSingles ==
  ASSUME NEW l, NEW e, NEW r
  PROVE  <<l>> \o <<e>> \o <<r>> = <<l, e, r>>
<1>1. PICK a : a = <<l>> \o <<e>>
  OBVIOUS
<1>2. PICK c : c = <<r>>
  OBVIOUS
<1>3. PICK S : S = {l, e, r}
  OBVIOUS
<1>4. a \in Seq(S) /\ Len(a) = 2 /\ a[1] = l /\ a[2] = e
  BY <1>1, <1>3
<1>5. c \in Seq(S) /\ Len(c) = 1 /\ c[1] = r
  BY <1>2, <1>3
<1>6. a \o c = <<a[1], a[2], c[1]>>
  BY <1>4, <1>5, TwoAndOne, Zenon
<1>. QED
  BY <1>1, <1>2, <1>4, <1>5, <1>6, Zenon

(* A function on 1..n. *)
OnPlaces(t, n) == t = [i \in 1..n |-> t[i]]

(* A sequence that goes on for one place is another one with an element *)
(* behind it.                                                           *)
LEMMA AppendIs ==
  ASSUME NEW S, NEW s \in Seq(S), NEW x \in S, NEW n \in Nat, Len(s) = n,
         NEW t, OnPlaces(t, n + 1), t[n + 1] = x, \A i \in 1..n : t[i] = s[i]
  PROVE  t = Append(s, x)
<1>1. /\ Append(s, x)[Len(s) + 1] = x
      /\ \A i \in 1..Len(s) : Append(s, x)[i] = s[i]
      /\ Len(Append(s, x)) = Len(s) + 1 /\ Append(s, x) \in Seq(S)
  OBVIOUS
<1>2. PICK a \in Seq(S) : a = Append(s, x)
  BY <1>1
<1>3. a[n + 1] = x /\ (\A i \in 1..n : a[i] = s[i]) /\ Len(a) = n + 1
  BY <1>1, <1>2
<1>4. a = [i \in 1..n + 1 |-> a[i]]
  BY <1>3
<1>5. ASSUME NEW i \in 1..n + 1 PROVE a[i] = t[i]
  <2>1. CASE i = n + 1
    BY <1>3, <2>1
  <2>2. CASE i # n + 1
    <3>1. i \in 1..n
      BY <2>2
    <3>. QED
      BY <1>3, <3>1
  <2>. QED
    BY <2>1, <2>2
<1>. QED
  <2>1. t = [i \in 1..n + 1 |-> t[i]]
    BY DEF OnPlaces
  <2>2. t = a
    BY <1>4, <1>5, <2>1
  <2>. QED
    BY <1>2, <2>2

(* A function of repeated steps exists, and stays where the steps stay.    *)
LEMMA StepsExist ==
  ASSUME NEW S, NEW base \in S, NEW n \in Nat, NEW step \in [1..n -> [S -> S]]
  PROVE  \E f \in [0..n -> S] : f[0] = base /\ \A k \in 1..n : f[k] = step[k][f[k - 1]]
<1>. DEFINE Steps(f, m) == f[0] = base /\ \A k \in 1..m : f[k] = step[k][f[k - 1]]
            T == {m \in Nat : m <= n => \E f \in [0..m -> S] : Steps(f, m)}
<1>1. 0 \in T
  <2>1. [k \in 0..0 |-> base] \in [0..0 -> S] /\ Steps([k \in 0..0 |-> base], 0)
    OBVIOUS
  <2>. QED
    BY <2>1
<1>2. ASSUME NEW m \in Nat, m \in T PROVE m + 1 \in T
  <2>. SUFFICES ASSUME m + 1 <= n PROVE \E f \in [0..m + 1 -> S] : Steps(f, m + 1)
    OBVIOUS
  <2>1. PICK g \in [0..m -> S] : Steps(g, m)
    BY <1>2
  <2>. DEFINE f == [k \in 0..m + 1 |-> IF k = m + 1 THEN step[m + 1][g[m]] ELSE g[k]]
  <2>2. step[m + 1][g[m]] \in S
    BY <2>1
  <2>3. f \in [0..m + 1 -> S]
    BY <2>1, <2>2
  <2>4. f[0] = base /\ f[m + 1] = step[m + 1][g[m]] /\ \A k \in 0..m : f[k] = g[k]
    BY <2>1
  <2>. HIDE DEF f
  <2>5. ASSUME NEW k \in 1..m + 1 PROVE f[k] = step[k][f[k - 1]]
    <3>1. CASE k = m + 1
      BY <2>4, <3>1
    <3>2. CASE k \in 1..m
      BY <2>1, <2>4, <3>2
    <3>. QED
      BY <3>1, <3>2
  <2>. QED
    BY <2>3, <2>4, <2>5
<1>. HIDE DEF T
<1>3. Nat \subseteq T
  BY <1>1, <1>2, SetInduction
<1>4. n \in T
  BY <1>3
<1>. QED
  BY <1>4 DEF T

(* Two functions with the same values.                                     *)
LEMMA SameFunctions ==
  ASSUME NEW S, NEW T, NEW p \in [S -> T], NEW q \in [S -> T], \A b \in S : p[b] = q[b]
  PROVE  p = q
OBVIOUS

(* The smaller of two lengths.                                             *)
LEMMA LeastOfTwo ==
  ASSUME NEW a \in Nat, NEW b \in Nat
  PROVE  Min({a, b}) \in Nat
<1>1. PICK S : S = {a, b}
  OBVIOUS
<1>2. \E x \in S : \A y \in S : x <= y
  BY <1>1
<1>3. Min(S) \in S
  BY <1>2 DEF Min
<1>. QED
  BY <1>1, <1>3
=============================================================================
