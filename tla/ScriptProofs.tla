---------------------------- MODULE ScriptProofs ----------------------------
(***************************************************************************)
(* The linker script, for every number of levels and every set of used     *)
(* ones: what stands where in it; the file several compilations write      *)
(* theirs to, for every number of them; and the addresses ld gives to the  *)
(* sections, for every page size, sizes of sections and first address.     *)
(***************************************************************************)
EXTENDS LinkScript, SharedScript, SequenceTheorems, WellFoundedInduction, TLAPS

-----------------------------------------------------------------------------
(* Induction over the natural numbers, stated with a set, and what it says  *)
(* of FlattenSeq.                                                           *)

(* A set of natural numbers that is not empty has a least element.          *)
LEMMA LeastNat ==
  ASSUME NEW T \in SUBSET Nat, T # {}
  PROVE  \E n \in T : \A k \in T : n <= k
<1> DEFINE R == OpToRel(<, Nat)
<1>1. IsWellFoundedOn(R, Nat)
  BY NatLessThanWellFounded
<1>2. \A x, y \in Nat : <<x, y>> \in R <=> x < y
  BY DEF OpToRel
<1> HIDE DEF R
<1>3. PICK n \in T : \A k \in T : ~(<<k, n>> \in R)
  BY <1>1, WFMin
<1>4. \A k \in T : ~(k < n)
  BY <1>2, <1>3
<1> QED BY <1>4

(* A set that has zero, and with a number the next one, has all of them.    *)
LEMMA Induction ==
  ASSUME NEW T \in SUBSET Nat, 0 \in T, \A n \in Nat : n \in T => n + 1 \in T
  PROVE  T = Nat
<1> SUFFICES ASSUME Nat \ T # {} PROVE FALSE
  OBVIOUS
<1>1. PICK n \in Nat \ T : \A k \in Nat \ T : n <= k
  BY LeastNat
<1>2. n - 1 \in Nat /\ n - 1 \in T
  BY <1>1
<1> QED BY <1>1, <1>2

(* FlattenSeq puts the sequences one behind the other.                      *)
LEMMA Flattened ==
  ASSUME NEW S, NEW ss \in Seq(Seq(S)), ss # <<>>
  PROVE  \E F \in [1 .. Len(ss) -> Seq(S)] :
           /\ F[1] = ss[1] /\ F[Len(ss)] = FlattenSeq(ss)
           /\ \A i \in 2 .. Len(ss) : F[i] = F[i - 1] \o ss[i]
<1>0. Len(ss) \in Nat \ {0} /\ \A i \in 1 .. Len(ss) : ss[i] \in Seq(S)
  BY EmptySeq
<1> DEFINE PrefixUpTo(f, i) == IF i = 1 THEN ss[i] ELSE f[i - 1] \o ss[i]
           Reaches(n) == n <= Len(ss) =>
                           \E f \in [1 .. n -> Seq(S)] : \A i \in 1 .. n : f[i] = PrefixUpTo(f, i)
           T == { n \in Nat : Reaches(n) }
<1>1. T = Nat
  <2>1. 0 \in T
    <3>1. [i \in 1 .. 0 |-> <<>>] \in [1 .. 0 -> Seq(S)]
      OBVIOUS
    <3>2. \A i \in 1 .. 0 : [k \in 1 .. 0 |-> <<>>][i] = PrefixUpTo([k \in 1 .. 0 |-> <<>>], i)
      OBVIOUS
    <3> HIDE DEF PrefixUpTo
    <3> QED  BY <3>1, <3>2
  <2>2. ASSUME NEW n \in Nat, n \in T PROVE n + 1 \in T
    <3> SUFFICES ASSUME n + 1 <= Len(ss)
                 PROVE  \E f \in [1 .. n + 1 -> Seq(S)] : \A i \in 1 .. n + 1 : f[i] = PrefixUpTo(f, i)
      OBVIOUS
    <3>0. Reaches(n) /\ n <= Len(ss)
      <4>1. Reaches(n)
        <5> HIDE DEF Reaches
        <5> QED  BY <2>2
      <4>2. n <= Len(ss)
        BY <1>0
      <4> QED  BY <4>1, <4>2
    <3>1. PICK f \in [1 .. n -> Seq(S)] : \A i \in 1 .. n : f[i] = PrefixUpTo(f, i)
      <4> HIDE DEF PrefixUpTo
      <4> QED  BY <3>0
    <3> DEFINE g == [i \in 1 .. n + 1 |-> IF i <= n THEN f[i] ELSE PrefixUpTo(f, n + 1)]
    <3>2. n + 1 \in 1 .. Len(ss) /\ PrefixUpTo(f, n + 1) \in Seq(S)
      <4>1. CASE n = 0
        BY <1>0, <4>1
      <4>2. CASE n # 0
        <5>1. f[n] \in Seq(S) /\ ss[n + 1] \in Seq(S) /\ (n + 1) - 1 = n /\ n + 1 # 1
          BY <1>0, <4>2
        <5>2. f[n] \o ss[n + 1] \in Seq(S)
          BY <5>1, ConcatProperties
        <5> QED  BY <1>0, <5>1, <5>2
      <4> QED  BY <4>1, <4>2
    <3>3. g \in [1 .. n + 1 -> Seq(S)]
      BY <3>2
    <3>4. \A i \in 1 .. n + 1 : g[i] = PrefixUpTo(g, i)
      <4> SUFFICES ASSUME NEW i \in 1 .. n + 1 PROVE g[i] = PrefixUpTo(g, i)
        OBVIOUS
      <4>1. i = 1 \/ (i - 1 \in 1 .. n + 1 /\ i - 1 <= n /\ g[i - 1] = f[i - 1])
        OBVIOUS
      <4>2. PrefixUpTo(g, i) = PrefixUpTo(f, i)
        BY <4>1
      <4>3. g[i] = IF i <= n THEN f[i] ELSE PrefixUpTo(f, n + 1)
        OBVIOUS
      <4>4. i <= n => i \in 1 .. n
        OBVIOUS
      <4>5. ~(i <= n) => i = n + 1
        OBVIOUS
      <4> HIDE DEF g, PrefixUpTo
      <4> QED  BY <3>1, <4>2, <4>3, <4>4, <4>5
    <3> QED  BY <3>3, <3>4
  <2> HIDE DEF T
  <2> QED  BY <2>1, <2>2, Induction DEF T
<1>2. PICK f \in [1 .. Len(ss) -> Seq(S)] : \A i \in 1 .. Len(ss) : f[i] = PrefixUpTo(f, i)
  <2>1. Reaches(Len(ss))
    <3> HIDE DEF Reaches
    <3> QED  BY <1>0, <1>1
  <2> HIDE DEF PrefixUpTo
  <2> QED  BY <1>0, <2>1
<1> DEFINE F == CHOOSE g : g = [i \in 1 .. Len(ss) |-> PrefixUpTo(g, i)]
<1>3. F = [i \in 1 .. Len(ss) |-> PrefixUpTo(F, i)]
  <2>1. f = [i \in 1 .. Len(ss) |-> PrefixUpTo(f, i)]
    BY <1>2
  <2> QED  BY <2>1
<1>4. FlattenSeq(ss) = F[Len(ss)]
  BY <1>0 DEF FlattenSeq
<1> HIDE DEF F
<1> DEFINE U == { n \in Nat : n \in 1 .. Len(ss) => F[n] = f[n] }
<1>5. U = Nat
  <2>1. 0 \in U
    OBVIOUS
  <2>2. ASSUME NEW n \in Nat, n \in U PROVE n + 1 \in U
    <3> SUFFICES ASSUME n + 1 \in 1 .. Len(ss) PROVE F[n + 1] = f[n + 1]
      OBVIOUS
    <3>1. F[n + 1] = PrefixUpTo(F, n + 1) /\ f[n + 1] = PrefixUpTo(f, n + 1)
      BY <1>2, <1>3
    <3>2. n = 0 \/ (n \in 1 .. Len(ss) /\ F[n] = f[n] /\ (n + 1) - 1 = n)
      BY <1>0, <2>2
    <3> QED  BY <3>1, <3>2
  <2>3. U \subseteq Nat
    OBVIOUS
  <2> HIDE DEF U
  <2> QED  BY <2>1, <2>2, <2>3, Induction
<1>6. F[Len(ss)] = f[Len(ss)]
  BY <1>0, <1>5
<1>7. f[1] = ss[1] /\ \A i \in 2 .. Len(ss) : f[i] = f[i - 1] \o ss[i]
  <2>0. 1 \in 1 .. Len(ss) /\ \A i \in 2 .. Len(ss) : i \in 1 .. Len(ss) /\ i # 1
    BY <1>0
  <2>1. f[1] = PrefixUpTo(f, 1) /\ \A i \in 2 .. Len(ss) : f[i] = PrefixUpTo(f, i)
    <3> HIDE DEF PrefixUpTo
    <3> QED  BY <1>2, <2>0
  <2> QED  BY <2>0, <2>1
<1> QED  BY <1>4, <1>6, <1>7

-----------------------------------------------------------------------------
(* The statements of a script.                                              *)

Segment == {Text, Data} \cup FunSection \cup DatSection

Stmt ==
  {Advance(Page), Advance(2 * Page), DataSegment}
    \cup { Output(s, g) : s \in Section, g \in Segment }
    \cup { PadAfter(s) : s \in Section } \cup { Phdr(g) : g \in Segment }

(* Levels are the natural numbers below NumLevels.                          *)
LEMMA LevelShape ==
  /\ NumLevels \in Nat \ {0} /\ LeastPrivileged \in Level
  /\ \A l \in Level : l \in Nat /\ l < NumLevels
  BY PageAssumption DEF Level, LeastPrivileged

(* What the loop over the levels has written before each level.             *)
LEMMA LoopShape ==
  ASSUME NEW S, NEW used, NEW body, \A l \in Level : body[l] \in Seq(S)
  PROVE  \E F \in [0 .. NumLevels -> Seq(S)] :
           /\ F[0] = <<>> /\ F[NumLevels] = ForLevels(used, body)
           /\ \A n \in Level : F[n + 1] = IF n \in used THEN F[n] \o body[n] ELSE F[n]
<1> DEFINE ss == [i \in 1 .. NumLevels |-> IF i - 1 \in used THEN body[i - 1] ELSE <<>>]
<1>1. ss \in Seq(Seq(S)) /\ Len(ss) = NumLevels /\ ss # <<>>
      /\ \A i \in 1 .. NumLevels : ss[i] = IF i - 1 \in used THEN body[i - 1] ELSE <<>>
  <2>1. \A i \in 1 .. NumLevels : i - 1 \in Level
    BY LevelShape DEF Level
  <2>2. \A i \in 1 .. NumLevels : ss[i] \in Seq(S)
    BY <2>1
  <2>3. ss \in Seq(Seq(S)) /\ Len(ss) = NumLevels
    BY <2>2, LevelShape, IsASeq
  <2> QED  BY <2>3, LevelShape
<1>2. ForLevels(used, body) = FlattenSeq(ss)
  BY DEF ForLevels
<1> HIDE DEF ss
<1>3. PICK G \in [1 .. NumLevels -> Seq(S)] :
        /\ G[1] = ss[1] /\ G[NumLevels] = FlattenSeq(ss)
        /\ \A i \in 2 .. NumLevels : G[i] = G[i - 1] \o ss[i]
  <2>1. \E G \in [1 .. Len(ss) -> Seq(S)] :
          /\ G[1] = ss[1] /\ G[Len(ss)] = FlattenSeq(ss)
          /\ \A i \in 2 .. Len(ss) : G[i] = G[i - 1] \o ss[i]
    BY ZenonT(40), <1>1, Flattened
  <2> QED  BY <1>1, <2>1
<1> DEFINE F == [i \in 0 .. NumLevels |-> IF i = 0 THEN <<>> ELSE G[i]]
<1>4. F \in [0 .. NumLevels -> Seq(S)]
  BY <1>3, LevelShape
<1>5. F[0] = <<>> /\ F[NumLevels] = ForLevels(used, body)
  BY <1>2, <1>3, LevelShape
<1>6. ASSUME NEW n \in Level
      PROVE  F[n + 1] = IF n \in used THEN F[n] \o body[n] ELSE F[n]
  <2>1. n + 1 \in 1 .. NumLevels /\ n \in 0 .. NumLevels /\ (n + 1) - 1 = n
        /\ F[n + 1] = G[n + 1] /\ F[n] \in Seq(S) /\ body[n] \in Seq(S)
    BY <1>4, LevelShape
  <2>2. F[n + 1] = F[n] \o ss[n + 1]
    <3>1. CASE n = 0
      <4>1. F[n + 1] = ss[n + 1] /\ F[n] = <<>> /\ ss[n + 1] \in Seq(S)
        <5>1. ss[1] \in Seq(S)
          BY <1>1, LevelShape, ElementOfSeq
        <5> QED  BY <1>3, <2>1, <3>1, <5>1
      <4>2. <<>> \o ss[n + 1] = ss[n + 1]
        BY <4>1, ConcatEmptySeq
      <4> QED  BY <4>1, <4>2
    <3>2. CASE n # 0
      <4>1. n + 1 \in 2 .. NumLevels /\ F[n] = G[n]
        BY <2>1, <3>2, LevelShape
      <4>2. G[n + 1] = G[(n + 1) - 1] \o ss[n + 1]
        BY <1>3, <4>1
      <4> HIDE DEF F
      <4> QED  BY <2>1, <4>1, <4>2
    <3> QED  BY <3>1, <3>2
  <2>3. ss[n + 1] = IF n \in used THEN body[n] ELSE <<>>
    BY <1>1, <2>1
  <2> QED  BY <2>1, <2>2, <2>3, ConcatEmptySeq
<1> QED  BY <1>4, <1>5, <1>6

(* The used levels below n, in order.                                       *)
Ordered(e, k, used, n) ==
  /\ e \in [1 .. k -> Level]
  /\ \A i \in 1 .. k : e[i] \in used /\ e[i] < n
  /\ \A l \in used : l < n => \E i \in 1 .. k : e[i] = l
  /\ \A i, j \in 1 .. k : i < j => e[i] < e[j]

(* The used levels below n + 1 are those below n, and n if it is used.      *)
LEMMA OrderedMore ==
  ASSUME NEW used \in SUBSET Level, NEW n \in Level, NEW k \in Nat, NEW e, Ordered(e, k, used, n)
  PROVE  /\ n \notin used => Ordered(e, k, used, n + 1)
         /\ n \in used =>
              Ordered([i \in 1 .. k + 1 |-> IF i = k + 1 THEN n ELSE e[i]], k + 1, used, n + 1)
<1>1. /\ n \in Nat /\ \A l \in used : l \in Nat
      /\ \A i \in 1 .. k : e[i] \in Nat
  BY LevelShape DEF Ordered
<1>2. CASE n \notin used
  <2>1. \A l \in used : l < n + 1 => l < n
    BY <1>1, <1>2
  <2> QED  BY <1>1, <1>2, <2>1 DEF Ordered
<1>3. CASE n \in used
  <2> DEFINE f == [i \in 1 .. k + 1 |-> IF i = k + 1 THEN n ELSE e[i]]
  <2>1. /\ f \in [1 .. k + 1 -> Level] /\ f[k + 1] = n
        /\ \A i \in 1 .. k : i \in 1 .. k + 1 /\ f[i] = e[i]
        /\ \A i \in 1 .. k + 1 : i = k + 1 \/ i \in 1 .. k
    BY DEF Ordered
  <2> HIDE DEF f
  <2>2. \A i \in 1 .. k + 1 : f[i] \in used /\ f[i] < n + 1
    BY <1>1, <1>3, <2>1 DEF Ordered
  <2>3. \A l \in used : l < n + 1 => \E i \in 1 .. k + 1 : f[i] = l
    <3> SUFFICES ASSUME NEW l \in used, l < n + 1 PROVE \E i \in 1 .. k + 1 : f[i] = l
      OBVIOUS
    <3>1. CASE l = n
      BY <2>1, <3>1
    <3>2. CASE l # n
      <4>1. PICK i \in 1 .. k : e[i] = l
        BY <1>1, <3>2 DEF Ordered
      <4> QED  BY <2>1, <4>1
    <3> QED  BY <3>1, <3>2
  <2>4. \A i, j \in 1 .. k + 1 : i < j => f[i] < f[j]
    <3> SUFFICES ASSUME NEW i \in 1 .. k + 1, NEW j \in 1 .. k + 1, i < j PROVE f[i] < f[j]
      OBVIOUS
    <3>1. i \in 1 .. k
      BY <2>1
    <3> QED  BY <2>1, <3>1 DEF Ordered
  <2> QED  BY <1>3, <2>1, <2>2, <2>3, <2>4 DEF Ordered, f
<1> QED  BY <1>2, <1>3

(* A gap and a section for each used level in order.                        *)
Pairs(s, k, e, gap, out) ==
  /\ Len(s) = 2 * k
  /\ \A i \in 1 .. k : s[2 * i - 1] = gap /\ s[2 * i] = out[e[i]]

(* A loop that writes a gap and a statement writes Pairs of all used levels. *)
LEMMA PairsWritten ==
  ASSUME NEW S, NEW used \in SUBSET Level, NEW gap \in S, NEW out, \A l \in Level : out[l] \in S
  PROVE  /\ ForLevels(used, [l \in Level |-> <<gap, out[l]>>]) \in Seq(S)
         /\ \E k \in Nat : \E e : /\ Ordered(e, k, used, NumLevels)
                                   /\ Pairs(ForLevels(used, [l \in Level |-> <<gap, out[l]>>]), k, e, gap, out)
<1> DEFINE body == [l \in Level |-> <<gap, out[l]>>]
<1>1. \A l \in Level : body[l] \in Seq(S) /\ body[l] = <<gap, out[l]>>
  OBVIOUS
<1> HIDE DEF body
<1>2. PICK F \in [0 .. NumLevels -> Seq(S)] :
        /\ F[0] = <<>> /\ F[NumLevels] = ForLevels(used, body)
        /\ \A n \in Level : F[n + 1] = IF n \in used THEN F[n] \o body[n] ELSE F[n]
  BY <1>1, LoopShape
<1> DEFINE P(n) == n <= NumLevels =>
                     \E k \in Nat : \E e : Ordered(e, k, used, n) /\ Pairs(F[n], k, e, gap, out)
           T == { n \in Nat : P(n) }
<1>3. 0 \in T
  <2> DEFINE e == [i \in 1 .. 0 |-> 0]
  <2>1. Ordered(e, 0, used, 0)
    BY LevelShape DEF Ordered
  <2>2. Pairs(F[0], 0, e, gap, out)
    BY <1>2 DEF Pairs
  <2> QED  BY <2>1, <2>2
<1>4. ASSUME NEW n \in Nat, n \in T PROVE n + 1 \in T
  <2> SUFFICES ASSUME n + 1 <= NumLevels
               PROVE  \E k \in Nat : \E e : Ordered(e, k, used, n + 1) /\ Pairs(F[n + 1], k, e, gap, out)
    OBVIOUS
  <2>0. n <= NumLevels /\ n \in Level /\ n \in 0 .. NumLevels
    BY LevelShape DEF Level
  <2>1k. PICK k \in Nat : \E e : Ordered(e, k, used, n) /\ Pairs(F[n], k, e, gap, out)
    BY <1>4, <2>0
  <2>1. PICK e : Ordered(e, k, used, n) /\ Pairs(F[n], k, e, gap, out)
    BY <2>1k
  <2>2. CASE n \notin used
    <3>1. F[n + 1] = F[n] /\ Ordered(e, k, used, n + 1)
      BY <1>2, <2>0, <2>1, <2>2, OrderedMore
    <3> QED  BY <2>1, <3>1
  <2>3. CASE n \in used
    <3> DEFINE f == [i \in 1 .. k + 1 |-> IF i = k + 1 THEN n ELSE e[i]]
    <3>1. Ordered(f, k + 1, used, n + 1)
      BY <2>0, <2>1, <2>3, OrderedMore
    <3>2. f[k + 1] = n /\ \A i \in 1 .. k : f[i] = e[i]
      OBVIOUS
    <3> HIDE DEF f
    <3>3. F[n + 1] = F[n] \o <<gap, out[n]>> /\ F[n] \in Seq(S) /\ Len(F[n]) = 2 * k
          /\ <<gap, out[n]>> \in Seq(S) /\ Len(<<gap, out[n]>>) = 2
      BY <1>1, <1>2, <2>0, <2>1, <2>3 DEF Pairs
    <3>4. /\ Len(F[n + 1]) = 2 * (k + 1)
          /\ \A i \in 1 .. 2 * k : F[n + 1][i] = F[n][i]
          /\ F[n + 1][2 * k + 1] = gap /\ F[n + 1][2 * k + 2] = out[n]
      <4> DEFINE a == F[n]
                 b == <<gap, out[n]>>
      <4>1. b[1] = gap /\ b[2] = out[n]
        OBVIOUS
      <4>2. a \in Seq(S) /\ b \in Seq(S) /\ Len(a) = 2 * k /\ Len(b) = 2 /\ F[n + 1] = a \o b
        BY <3>3
      <4> HIDE DEF a, b
      <4>3. /\ Len(a \o b) = 2 * k + 2
            /\ \A i \in 1 .. 2 * k + 2 : (a \o b)[i] = IF i <= 2 * k THEN a[i] ELSE b[i - 2 * k]
        <5>1. /\ Len(a \o b) = Len(a) + Len(b)
              /\ \A i \in 1 .. Len(a) + Len(b) :
                   (a \o b)[i] = IF i <= Len(a) THEN a[i] ELSE b[i - Len(a)]
          BY <4>2, ConcatProperties
        <5> QED  BY <4>2, <5>1
      <4>4. (2 * k + 1) - 2 * k = 1 /\ (2 * k + 2) - 2 * k = 2
        OBVIOUS
      <4>5. (a \o b)[2 * k + 1] = b[1] /\ (a \o b)[2 * k + 2] = b[2]
        BY <4>3, <4>4
      <4>6. \A i \in 1 .. 2 * k : (a \o b)[i] = a[i]
        BY <4>3
      <4> QED  BY <4>1, <4>2, <4>3, <4>5, <4>6 DEF a
    <3>5. Pairs(F[n + 1], k + 1, f, gap, out)
      <4> SUFFICES ASSUME NEW i \in 1 .. k + 1
                   PROVE  F[n + 1][2 * i - 1] = gap /\ F[n + 1][2 * i] = out[f[i]]
        BY <3>4 DEF Pairs
      <4>1. CASE i = k + 1
        <5>1. 2 * i - 1 = 2 * k + 1 /\ 2 * i = 2 * k + 2 /\ f[i] = n
          BY <3>2, <4>1
        <5> QED  BY <3>4, <5>1
      <4>2. CASE i # k + 1
        <5>1. i \in 1 .. k /\ 2 * i - 1 \in 1 .. 2 * k /\ 2 * i \in 1 .. 2 * k
          BY <4>2
        <5> QED  BY <2>1, <3>2, <3>4, <5>1 DEF Pairs
      <4> QED  BY <4>1, <4>2
    <3> QED  BY <3>1, <3>5
  <2> QED  BY <2>2, <2>3
<1>5. T = Nat
  <2>1. T \subseteq Nat
    OBVIOUS
  <2> HIDE DEF T
  <2> QED  BY <1>3, <1>4, <2>1, Induction
<1>6. P(NumLevels)
  <2> HIDE DEF P
  <2> QED  BY <1>5, LevelShape
<1>7. ForLevels(used, body) \in Seq(S) /\ NumLevels \in 0 .. NumLevels
  BY <1>2, LevelShape
<1>8. \E k \in Nat : \E e : Ordered(e, k, used, NumLevels) /\ Pairs(ForLevels(used, body), k, e, gap, out)
  BY <1>2, <1>6, LevelShape
<1> QED  BY <1>7, <1>8 DEF body

(* A statement for each used level in order.                                *)
Singles(s, k, e, out) == s = [i \in 1 .. k |-> out[e[i]]]

(* A loop that writes a statement writes one for each used level in order.  *)
LEMMA SinglesWritten ==
  ASSUME NEW S, NEW used \in SUBSET Level, NEW out, \A l \in Level : out[l] \in S
  PROVE  /\ ForLevels(used, [l \in Level |-> <<out[l]>>]) \in Seq(S)
         /\ \E k \in Nat : \E e : /\ Ordered(e, k, used, NumLevels)
                                   /\ Singles(ForLevels(used, [l \in Level |-> <<out[l]>>]), k, e, out)
<1> DEFINE body == [l \in Level |-> <<out[l]>>]
<1>1. \A l \in Level : body[l] \in Seq(S) /\ body[l] = <<out[l]>> /\ Len(body[l]) = 1
  <2>1. \A l \in Level : <<out[l]>> \in Seq(S)
    OBVIOUS
  <2> QED  BY <2>1
<1> HIDE DEF body
<1>2. PICK F \in [0 .. NumLevels -> Seq(S)] :
        /\ F[0] = <<>> /\ F[NumLevels] = ForLevels(used, body)
        /\ \A n \in Level : F[n + 1] = IF n \in used THEN F[n] \o body[n] ELSE F[n]
  BY <1>1, LoopShape
<1> DEFINE P(n) == n <= NumLevels =>
                     \E k \in Nat : \E e : Ordered(e, k, used, n) /\ Singles(F[n], k, e, out)
           T == { n \in Nat : P(n) }
<1>3. 0 \in T
  <2> DEFINE e == [i \in 1 .. 0 |-> 0]
  <2>1. Ordered(e, 0, used, 0)
    BY LevelShape DEF Ordered
  <2>2. Singles(F[0], 0, e, out)
    BY <1>2 DEF Singles
  <2> QED  BY <2>1, <2>2
<1>4. ASSUME NEW n \in Nat, n \in T PROVE n + 1 \in T
  <2> SUFFICES ASSUME n + 1 <= NumLevels
               PROVE  \E k \in Nat : \E e : Ordered(e, k, used, n + 1)
                                          /\ Singles(F[n + 1], k, e, out)
    OBVIOUS
  <2>0. n <= NumLevels /\ n \in Level /\ n \in 0 .. NumLevels
    BY LevelShape DEF Level
  <2>1k. PICK k \in Nat : \E e : Ordered(e, k, used, n) /\ Singles(F[n], k, e, out)
    BY <1>4, <2>0
  <2>1. PICK e : Ordered(e, k, used, n) /\ Singles(F[n], k, e, out)
    BY <2>1k
  <2>2. CASE n \notin used
    <3>1. F[n + 1] = F[n] /\ Ordered(e, k, used, n + 1)
      BY <1>2, <2>0, <2>1, <2>2, OrderedMore
    <3> QED  BY <2>1, <3>1
  <2>3. CASE n \in used
    <3> DEFINE f == [i \in 1 .. k + 1 |-> IF i = k + 1 THEN n ELSE e[i]]
    <3>1. Ordered(f, k + 1, used, n + 1)
      BY <2>0, <2>1, <2>3, OrderedMore
    <3>2. f[k + 1] = n /\ \A i \in 1 .. k : f[i] = e[i]
      OBVIOUS
    <3> HIDE DEF f
    <3>3. F[n + 1] = F[n] \o <<out[n]>> /\ F[n] \in Seq(S) /\ Len(F[n]) = k
          /\ <<out[n]>> \in Seq(S) /\ Len(<<out[n]>>) = 1
      <4>1. F[n] \in Seq(S) /\ Len(F[n]) = k
        BY <1>2, <2>0, <2>1 DEF Singles
      <4> QED  BY <1>1, <1>2, <2>0, <2>3, <4>1
    <3>4. F[n + 1] \in Seq(S) /\ Len(F[n + 1]) = k + 1
      BY <3>3
    <3>5. \A i \in 1 .. k + 1 : F[n + 1][i] = out[f[i]]
      BY <2>1, <3>2, <3>3 DEF Singles
    <3>6. Singles(F[n + 1], k + 1, f, out)
      BY <3>4, <3>5 DEF Singles
    <3> QED  BY <3>1, <3>6
  <2> QED  BY <2>2, <2>3
<1>5. T = Nat
  <2>1. T \subseteq Nat
    OBVIOUS
  <2> HIDE DEF T
  <2> QED  BY <1>3, <1>4, <2>1, Induction
<1>6. P(NumLevels)
  <2> HIDE DEF P
  <2> QED  BY <1>5, LevelShape
<1>7. ForLevels(used, body) \in Seq(S) /\ NumLevels \in 0 .. NumLevels
  BY <1>2, LevelShape
<1>8. \E k \in Nat : \E e : Ordered(e, k, used, NumLevels) /\ Singles(ForLevels(used, body), k, e, out)
  BY <1>2, <1>6, LevelShape
<1> QED  BY <1>7, <1>8 DEF body

Join(a, b) == a \o b

(* The parts of a sequence joined from two.                                 *)
IsJoin(c, S, a, n, b, m) ==
  /\ c \in Seq(S) /\ Len(c) = n + m
  /\ \A i \in 1 .. n : c[i] = a[i]
  /\ \A i \in 1 .. m : c[n + i] = b[i]

(* A sequence joined from two has their elements at their places.           *)
LEMMA Glued ==
  ASSUME NEW S, NEW a, NEW b, NEW n, NEW m,
         a \in Seq(S), b \in Seq(S), Len(a) = n, Len(b) = m
  PROVE  IsJoin(Join(a, b), S, a, n, b, m)
<1>0. n \in Nat /\ m \in Nat
  BY LenProperties
<1>1. /\ Join(a, b) \in Seq(S) /\ Len(Join(a, b)) = n + m
      /\ \A i \in 1 .. n + m : Join(a, b)[i] = IF i <= n THEN a[i] ELSE b[i - n]
  BY ConcatProperties DEF Join
<1>2. \A i \in 1 .. n : i \in 1 .. n + m /\ i <= n
  BY <1>0
<1>3. \A i \in 1 .. m : n + i \in 1 .. n + m /\ ~(n + i <= n) /\ (n + i) - n = i
  BY <1>0
<1> QED  BY <1>1, <1>2, <1>3 DEF IsJoin

FunOut == [l \in Level |-> Output(Fun(l), Fun(l))]
DatOut == [l \in Level |-> Output(Dat(l), Dat(l))]
FunEntry == [l \in Level |-> Phdr(Fun(l))]
DatEntry == [l \in Level |-> Phdr(Dat(l))]

(* The sections and gaps of a script: k levels of functions, e in order,    *)
(* and d levels of globals, g in order.                                     *)
Layout(s, k, e, d, g) ==
  /\ s[1] = Output(<<".text">>, Text)
  /\ \A i \in 1 .. k : s[2 * i] = Advance(Page) /\ s[2 * i + 1] = FunOut[e[i]]
  /\ s[2 * k + 2] = PadAfter(Fun(LeastPrivileged))
  /\ s[2 * k + 3] = Advance(2 * Page)
  /\ s[2 * k + 4] = Output(<<".fini">>, Text)
  /\ s[2 * k + 5] = DataSegment
  /\ s[2 * k + 6] = Output(<<".data">>, Data)
  /\ \A i \in 1 .. d : s[2 * k + 6 + (2 * i - 1)] = Advance(Page) /\ s[2 * k + 6 + 2 * i] = DatOut[g[i]]
  /\ s[2 * k + 2 * d + 7] = PadAfter(Dat(LeastPrivileged))
  /\ s[2 * k + 2 * d + 8] = Output(<<".data1">>, Data)

(* The entries of PHDRS behind them, at n.                                  *)
Entries(s, n, p, h, q, j) ==
  /\ Len(s) = n + p + q + 2
  /\ s[n + 1] = Phdr(Text)
  /\ \A i \in 1 .. p : s[n + 1 + i] = FunEntry[h[i]]
  /\ s[n + p + 2] = Phdr(Data)
  /\ \A i \in 1 .. q : s[n + p + 2 + i] = DatEntry[j[i]]

(* The last used level is the least privileged one, which is always used.   *)
LEMMA LastOfUsed ==
  ASSUME NEW U \in UsedSets
  PROVE  U \in SUBSET Level /\ LastLevel(U) = LeastPrivileged
<1>1. U \in SUBSET Level /\ LeastPrivileged \in U /\ \A l \in U : l \in Nat /\ l <= LeastPrivileged
  BY LevelShape DEF UsedSets, LeastPrivileged, Level
<1>2. LeastPrivileged \in Int
  BY LevelShape
<1>3. \A x \in U : (\A y \in U : x >= y) => x = LeastPrivileged
  BY <1>1, <1>2
<1>4. \E x \in U : \A y \in U : x >= y
  BY <1>1, <1>2
<1> QED  BY <1>1, <1>3, <1>4 DEF LastLevel, Max

(* The statements a script is made of are in Stmt.                          *)
LEMMA StmtShape ==
  /\ \A l \in Level : /\ FunOut[l] = Output(Fun(l), Fun(l)) /\ FunOut[l] \in Stmt
                      /\ DatOut[l] = Output(Dat(l), Dat(l)) /\ DatOut[l] \in Stmt
                      /\ FunEntry[l] = Phdr(Fun(l)) /\ FunEntry[l] \in Stmt
                      /\ DatEntry[l] = Phdr(Dat(l)) /\ DatEntry[l] \in Stmt
                      /\ PadAfter(Fun(l)) \in Stmt /\ PadAfter(Dat(l)) \in Stmt
  /\ Advance(Page) \in Stmt /\ Advance(2 * Page) \in Stmt /\ DataSegment \in Stmt
  /\ Phdr(Text) \in Stmt /\ Phdr(Data) \in Stmt
  /\ Output(<<".text">>, Text) \in Stmt /\ Output(<<".fini">>, Text) \in Stmt
  /\ Output(<<".data">>, Data) \in Stmt /\ Output(<<".data1">>, Data) \in Stmt
<1>1. /\ \A l \in Level : Fun(l) \in Section \cap Segment /\ Dat(l) \in Section \cap Segment
      /\ Text \in Segment /\ Data \in Segment
      /\ <<".text">> \in Section /\ <<".fini">> \in Section
      /\ <<".data">> \in Section /\ <<".data1">> \in Section
  BY DEF Section, Segment, FunSection, DatSection
<1> QED  BY <1>1 DEF Stmt, FunOut, DatOut, FunEntry, DatEntry

(* Every script is laid out as Layout and Entries say.                      *)
LEMMA ScriptShape ==
  ASSUME NEW U \in UsedSets, NEW V \in UsedSets
  PROVE  /\ Script(U, V) \in Seq(Stmt)
         /\ \E k, d, p, q \in Nat : \E e, g, h, j :
              /\ Ordered(e, k, U, NumLevels) /\ Ordered(g, d, V, NumLevels)
              /\ Ordered(h, p, U, NumLevels) /\ Ordered(j, q, V, NumLevels)
              /\ Layout(Script(U, V), k, e, d, g)
              /\ Entries(Script(U, V), 2 * k + 2 * d + 8, p, h, q, j)
<1>0. U \in SUBSET Level /\ V \in SUBSET Level
      /\ LastLevel(U) = LeastPrivileged /\ LastLevel(V) = LeastPrivileged
  BY LastOfUsed
<1> DEFINE A == ForLevels(U, [l \in Level |-> FunLevel(l)])
           B == ForLevels(V, [l \in Level |-> DatLevel(l)])
           C == ForLevels(U, [l \in Level |-> FunPhdr(l)])
           D == ForLevels(V, [l \in Level |-> DatPhdr(l)])
<1>1. A \in Seq(Stmt) /\ \E k \in Nat : \E e : Ordered(e, k, U, NumLevels) /\ Pairs(A, k, e, Advance(Page), FunOut)
  <2>1. [l \in Level |-> FunLevel(l)] = [l \in Level |-> <<Advance(Page), FunOut[l]>>]
    BY StmtShape DEF FunLevel
  <2>2. \A l \in Level : FunOut[l] \in Stmt
    BY StmtShape
  <2>3. /\ ForLevels(U, [l \in Level |-> <<Advance(Page), FunOut[l]>>]) \in Seq(Stmt)
        /\ \E k \in Nat : \E e : /\ Ordered(e, k, U, NumLevels)
                                  /\ Pairs(ForLevels(U, [l \in Level |-> <<Advance(Page), FunOut[l]>>]), k, e, Advance(Page), FunOut)
    BY <1>0, <2>2, StmtShape, PairsWritten
  <2> QED  BY <2>1, <2>3
<1>2. B \in Seq(Stmt) /\ \E k \in Nat : \E e : Ordered(e, k, V, NumLevels) /\ Pairs(B, k, e, Advance(Page), DatOut)
  <2>1. [l \in Level |-> DatLevel(l)] = [l \in Level |-> <<Advance(Page), DatOut[l]>>]
    BY StmtShape DEF DatLevel
  <2>2. \A l \in Level : DatOut[l] \in Stmt
    BY StmtShape
  <2>3. /\ ForLevels(V, [l \in Level |-> <<Advance(Page), DatOut[l]>>]) \in Seq(Stmt)
        /\ \E k \in Nat : \E e : /\ Ordered(e, k, V, NumLevels)
                                  /\ Pairs(ForLevels(V, [l \in Level |-> <<Advance(Page), DatOut[l]>>]), k, e, Advance(Page), DatOut)
    BY <1>0, <2>2, StmtShape, PairsWritten
  <2> QED  BY <2>1, <2>3
<1>3. C \in Seq(Stmt) /\ \E k \in Nat : \E e : Ordered(e, k, U, NumLevels) /\ Singles(C, k, e, FunEntry)
  <2>1. [l \in Level |-> FunPhdr(l)] = [l \in Level |-> <<FunEntry[l]>>]
    BY StmtShape DEF FunPhdr
  <2>2. \A l \in Level : FunEntry[l] \in Stmt
    BY StmtShape
  <2>3. /\ ForLevels(U, [l \in Level |-> <<FunEntry[l]>>]) \in Seq(Stmt)
        /\ \E k \in Nat : \E e : /\ Ordered(e, k, U, NumLevels)
                                  /\ Singles(ForLevels(U, [l \in Level |-> <<FunEntry[l]>>]), k, e, FunEntry)
    BY <1>0, <2>2, StmtShape, SinglesWritten
  <2> QED  BY <2>1, <2>3
<1>4. D \in Seq(Stmt) /\ \E k \in Nat : \E e : Ordered(e, k, V, NumLevels) /\ Singles(D, k, e, DatEntry)
  <2>1. [l \in Level |-> DatPhdr(l)] = [l \in Level |-> <<DatEntry[l]>>]
    BY StmtShape DEF DatPhdr
  <2>2. \A l \in Level : DatEntry[l] \in Stmt
    BY StmtShape
  <2>3. /\ ForLevels(V, [l \in Level |-> <<DatEntry[l]>>]) \in Seq(Stmt)
        /\ \E k \in Nat : \E e : /\ Ordered(e, k, V, NumLevels)
                                  /\ Singles(ForLevels(V, [l \in Level |-> <<DatEntry[l]>>]), k, e, DatEntry)
    BY <1>0, <2>2, StmtShape, SinglesWritten
  <2> QED  BY <2>1, <2>3
<1> DEFINE t == <<Output(<<".text">>, Text)>>
           x1 == Join(t, A)
           b1 == <<PadAfter(Fun(LeastPrivileged))>>
           x2 == Join(x1, b1)
           x3 == Join(x2, BeforeData)
           x4 == Join(x3, B)
           b2 == <<PadAfter(Dat(LeastPrivileged)), Output(<<".data1">>, Data)>>
           x5 == Join(x4, b2)
           z1 == <<Phdr(Text)>>
           y1 == Join(z1, C)
           z2 == <<Phdr(Data)>>
           y2 == Join(y1, z2)
           y3 == Join(y2, D)
           s == Join(x5, y3)
<1>5. Script(U, V) = s
  BY <1>0 DEF Script, Segments, Join
<1>6k. PICK k \in Nat : \E e : Ordered(e, k, U, NumLevels) /\ Pairs(A, k, e, Advance(Page), FunOut)
  BY <1>1
<1>6. PICK e : Ordered(e, k, U, NumLevels) /\ Pairs(A, k, e, Advance(Page), FunOut)
  BY <1>6k
<1>7k. PICK d \in Nat : \E g : Ordered(g, d, V, NumLevels) /\ Pairs(B, d, g, Advance(Page), DatOut)
  BY <1>2
<1>7. PICK g : Ordered(g, d, V, NumLevels) /\ Pairs(B, d, g, Advance(Page), DatOut)
  BY <1>7k
<1>8k. PICK p \in Nat : \E h : Ordered(h, p, U, NumLevels) /\ Singles(C, p, h, FunEntry)
  BY <1>3
<1>8. PICK h : Ordered(h, p, U, NumLevels) /\ Singles(C, p, h, FunEntry)
  BY <1>8k
<1>9k. PICK q \in Nat : \E j : Ordered(j, q, V, NumLevels) /\ Singles(D, q, j, DatEntry)
  BY <1>4
<1>9. PICK j : Ordered(j, q, V, NumLevels) /\ Singles(D, q, j, DatEntry)
  BY <1>9k
<1>10. Len(A) = 2 * k /\ Len(B) = 2 * d /\ Len(C) = p /\ Len(D) = q
  BY <1>6, <1>7, <1>8, <1>9 DEF Pairs, Singles
<1>11. /\ t \in Seq(Stmt) /\ Len(t) = 1 /\ t[1] = Output(<<".text">>, Text)
       /\ b1 \in Seq(Stmt) /\ Len(b1) = 1 /\ b1[1] = PadAfter(Fun(LeastPrivileged))
       /\ BeforeData \in Seq(Stmt) /\ Len(BeforeData) = 4
       /\ BeforeData[1] = Advance(2 * Page) /\ BeforeData[2] = Output(<<".fini">>, Text)
       /\ BeforeData[3] = DataSegment /\ BeforeData[4] = Output(<<".data">>, Data)
       /\ b2 \in Seq(Stmt) /\ Len(b2) = 2 /\ b2[1] = PadAfter(Dat(LeastPrivileged))
       /\ b2[2] = Output(<<".data1">>, Data)
       /\ z1 \in Seq(Stmt) /\ z2 \in Seq(Stmt) /\ Len(z1) = 1 /\ Len(z2) = 1
       /\ z1[1] = Phdr(Text) /\ z2[1] = Phdr(Data)
  BY StmtShape, LevelShape DEF BeforeData
<1> DEFINE n == 2 * k + 2 * d + 8
<1>e. /\ x1 = Join(t, A) /\ x2 = Join(x1, b1) /\ x3 = Join(x2, BeforeData) /\ x4 = Join(x3, B)
      /\ x5 = Join(x4, b2) /\ y1 = Join(z1, C) /\ y2 = Join(y1, z2) /\ y3 = Join(y2, D)
      /\ s = Join(x5, y3)
  OBVIOUS
<1> HIDE DEF A, B, C, D, t, b1, b2, z1, z2, x1, x2, x3, x4, x5, y1, y2, y3, s
<1>12. IsJoin(x1, Stmt, t, 1, A, 2 * k)
  BY <1>1, <1>10, <1>11, <1>e, Glued
<1>13. IsJoin(x2, Stmt, x1, 2 * k + 1, b1, 1)
  <2>1. x1 \in Seq(Stmt) /\ Len(x1) = 2 * k + 1
    BY <1>12 DEF IsJoin
  <2> QED  BY <1>11, <2>1, <1>e, Glued
<1>14. IsJoin(x3, Stmt, x2, 2 * k + 2, BeforeData, 4)
  <2>1. x2 \in Seq(Stmt) /\ Len(x2) = 2 * k + 2
    BY <1>13 DEF IsJoin
  <2> QED  BY <1>11, <2>1, <1>e, Glued
<1>15. IsJoin(x4, Stmt, x3, 2 * k + 6, B, 2 * d)
  <2>1. x3 \in Seq(Stmt) /\ Len(x3) = 2 * k + 6
    BY <1>14 DEF IsJoin
  <2> QED  BY <1>2, <1>10, <2>1, <1>e, Glued
<1>16. IsJoin(x5, Stmt, x4, 2 * k + 2 * d + 6, b2, 2)
  <2>1. x4 \in Seq(Stmt) /\ Len(x4) = 2 * k + 2 * d + 6
    BY <1>15 DEF IsJoin
  <2> QED  BY <1>11, <2>1, <1>e, Glued
<1>17. IsJoin(y1, Stmt, z1, 1, C, p)
  BY <1>3, <1>10, <1>11, <1>e, Glued
<1>18. IsJoin(y2, Stmt, y1, p + 1, z2, 1)
  <2>1. y1 \in Seq(Stmt) /\ Len(y1) = p + 1
    BY <1>17 DEF IsJoin
  <2> QED  BY <1>11, <2>1, <1>e, Glued
<1>19. IsJoin(y3, Stmt, y2, p + 2, D, q)
  <2>1. y2 \in Seq(Stmt) /\ Len(y2) = p + 2
    BY <1>18 DEF IsJoin
  <2> QED  BY <1>4, <1>10, <2>1, <1>e, Glued
<1>20. IsJoin(s, Stmt, x5, n, y3, p + q + 2)
  <2>1. x5 \in Seq(Stmt) /\ Len(x5) = n
    BY <1>16 DEF IsJoin
  <2>2. y3 \in Seq(Stmt) /\ Len(y3) = p + q + 2
    BY <1>19 DEF IsJoin
  <2> QED  BY <2>1, <2>2, <1>e, Glued
<1>21. Layout(s, k, e, d, g)
  <2>1. \A i \in 1 .. n : s[i] = x5[i]
    BY <1>20 DEF IsJoin
  <2>2. \A i \in 1 .. 2 * k + 6 : s[i] = x3[i]
    <3>1. \A i \in 1 .. 2 * k + 6 : i \in 1 .. n /\ i \in 1 .. 2 * k + 2 * d + 6
      OBVIOUS
    <3> HIDE DEF n
    <3> QED  BY <1>15, <1>16, <2>1, <3>1 DEF IsJoin
  <2>3. \A i \in 1 .. 2 * k + 2 : s[i] = x2[i]
    <3>1. \A i \in 1 .. 2 * k + 2 : i \in 1 .. 2 * k + 6
      OBVIOUS
    <3> QED  BY <1>14, <2>2, <3>1 DEF IsJoin
  <2>4. \A i \in 1 .. 2 * k + 1 : s[i] = x1[i]
    <3>1. \A i \in 1 .. 2 * k + 1 : i \in 1 .. 2 * k + 2
      OBVIOUS
    <3> QED  BY <1>13, <2>3, <3>1 DEF IsJoin
  <2>5. s[1] = t[1] /\ \A i \in 1 .. 2 * k : s[1 + i] = A[i]
    <3>1. 1 \in 1 .. 2 * k + 1 /\ 1 \in 1 .. 1 /\ \A i \in 1 .. 2 * k : 1 + i \in 1 .. 2 * k + 1
      OBVIOUS
    <3>2. x1[1] = t[1] /\ \A i \in 1 .. 2 * k : x1[1 + i] = A[i]
      BY <1>12, <3>1 DEF IsJoin
    <3> QED  BY <2>4, <3>1, <3>2
  <2>6. \A i \in 1 .. k : s[2 * i] = Advance(Page) /\ s[2 * i + 1] = FunOut[e[i]]
    <3> SUFFICES ASSUME NEW i \in 1 .. k
                 PROVE  s[2 * i] = Advance(Page) /\ s[2 * i + 1] = FunOut[e[i]]
      OBVIOUS
    <3>1. /\ 2 * i - 1 \in 1 .. 2 * k /\ 2 * i \in 1 .. 2 * k
          /\ 1 + (2 * i - 1) = 2 * i /\ 1 + 2 * i = 2 * i + 1
      OBVIOUS
    <3>2. A[2 * i - 1] = Advance(Page) /\ A[2 * i] = FunOut[e[i]]
      BY <1>6, <3>1 DEF Pairs
    <3> QED  BY <2>5, <3>1, <3>2
  <2>7. s[2 * k + 2] = b1[1]
    <3>1. 2 * k + 2 \in 1 .. 2 * k + 2 /\ 1 \in 1 .. 1 /\ 2 * k + 1 + 1 = 2 * k + 2
      OBVIOUS
    <3>2. x2[2 * k + 1 + 1] = b1[1]
      BY <1>13, <3>1 DEF IsJoin
    <3> QED  BY <2>3, <3>1, <3>2
  <2>8. /\ s[2 * k + 3] = BeforeData[1] /\ s[2 * k + 4] = BeforeData[2]
        /\ s[2 * k + 5] = BeforeData[3] /\ s[2 * k + 6] = BeforeData[4]
    <3>1. \A i \in 1 .. 4 : 2 * k + 2 + i \in 1 .. 2 * k + 6
      OBVIOUS
    <3>2. \A i \in 1 .. 4 : s[2 * k + 2 + i] = BeforeData[i]
      BY <1>14, <2>2, <3>1 DEF IsJoin
    <3>3. /\ 2 * k + 2 + 1 = 2 * k + 3 /\ 2 * k + 2 + 2 = 2 * k + 4
          /\ 2 * k + 2 + 3 = 2 * k + 5 /\ 2 * k + 2 + 4 = 2 * k + 6
          /\ 1 \in 1 .. 4 /\ 2 \in 1 .. 4 /\ 3 \in 1 .. 4 /\ 4 \in 1 .. 4
      OBVIOUS
    <3> QED  BY <3>2, <3>3
  <2>9. \A i \in 1 .. 2 * d : s[2 * k + 6 + i] = B[i]
    <3>1. \A i \in 1 .. 2 * d : 2 * k + 6 + i \in 1 .. 2 * k + 2 * d + 6 /\ 2 * k + 6 + i \in 1 .. n
      OBVIOUS
    <3> HIDE DEF n
    <3> QED  BY <1>15, <1>16, <2>1, <3>1 DEF IsJoin
  <2>10. \A i \in 1 .. d : /\ s[2 * k + 6 + (2 * i - 1)] = Advance(Page)
                           /\ s[2 * k + 6 + 2 * i] = DatOut[g[i]]
    <3> SUFFICES ASSUME NEW i \in 1 .. d
                 PROVE  /\ s[2 * k + 6 + (2 * i - 1)] = Advance(Page)
                        /\ s[2 * k + 6 + 2 * i] = DatOut[g[i]]
      OBVIOUS
    <3>1. 2 * i - 1 \in 1 .. 2 * d /\ 2 * i \in 1 .. 2 * d
      OBVIOUS
    <3>2. B[2 * i - 1] = Advance(Page) /\ B[2 * i] = DatOut[g[i]]
      BY <1>7, <3>1 DEF Pairs
    <3> QED  BY <2>9, <3>1, <3>2
  <2>11. s[2 * k + 2 * d + 7] = b2[1] /\ s[2 * k + 2 * d + 8] = b2[2]
    <3>1. /\ 2 * k + 2 * d + 6 + 1 = 2 * k + 2 * d + 7 /\ 2 * k + 2 * d + 6 + 2 = 2 * k + 2 * d + 8
          /\ 1 \in 1 .. 2 /\ 2 \in 1 .. 2
          /\ 2 * k + 2 * d + 7 \in 1 .. n /\ 2 * k + 2 * d + 8 \in 1 .. n
      OBVIOUS
    <3>2. x5[2 * k + 2 * d + 6 + 1] = b2[1] /\ x5[2 * k + 2 * d + 6 + 2] = b2[2]
      BY <1>16, <3>1 DEF IsJoin
    <3> HIDE DEF n
    <3> QED  BY <2>1, <3>1, <3>2
  <2> QED  BY <1>11, <2>5, <2>6, <2>7, <2>8, <2>10, <2>11 DEF Layout
<1>22. Entries(s, n, p, h, q, j)
  <2>n. n \in Nat
    OBVIOUS
  <2> HIDE DEF n
  <2>1. /\ Len(s) = n + p + q + 2
        /\ \A i \in 1 .. p + q + 2 : s[n + i] = y3[i]
    BY <1>20, <2>n DEF IsJoin
  <2>2. \A i \in 1 .. p + 2 : s[n + i] = y2[i]
    <3>1. \A i \in 1 .. p + 2 : i \in 1 .. p + q + 2
      OBVIOUS
    <3> QED  BY <1>19, <2>1, <3>1 DEF IsJoin
  <2>3. \A i \in 1 .. p + 1 : s[n + i] = y1[i]
    <3>1. \A i \in 1 .. p + 1 : i \in 1 .. p + 2
      OBVIOUS
    <3> QED  BY <1>18, <2>2, <3>1 DEF IsJoin
  <2>4. s[n + 1] = Phdr(Text) /\ \A i \in 1 .. p : s[n + (1 + i)] = C[i]
    <3>1. 1 \in 1 .. p + 1 /\ 1 \in 1 .. 1 /\ \A i \in 1 .. p : 1 + i \in 1 .. p + 1
      OBVIOUS
    <3>2. y1[1] = z1[1] /\ \A i \in 1 .. p : y1[1 + i] = C[i]
      BY <1>17, <3>1 DEF IsJoin
    <3> QED  BY <1>11, <2>3, <3>1, <3>2
  <2>5. s[n + (p + 2)] = Phdr(Data)
    <3>1. p + 2 \in 1 .. p + 2 /\ 1 \in 1 .. 1 /\ p + 1 + 1 = p + 2
      OBVIOUS
    <3>2. y2[p + 1 + 1] = z2[1]
      BY <1>18, <3>1 DEF IsJoin
    <3> QED  BY <1>11, <2>2, <3>1, <3>2
  <2>6. \A i \in 1 .. q : s[n + (p + 2 + i)] = D[i]
    <3>1. \A i \in 1 .. q : p + 2 + i \in 1 .. p + q + 2
      OBVIOUS
    <3> QED  BY <1>19, <2>1, <3>1 DEF IsJoin
  <2>7. (\A i \in 1 .. p : C[i] = FunEntry[h[i]]) /\ \A i \in 1 .. q : D[i] = DatEntry[j[i]]
    BY <1>8, <1>9 DEF Singles
  <2>8. /\ n + (p + 2) = n + p + 2
        /\ \A i \in 1 .. p : n + (1 + i) = n + 1 + i
        /\ \A i \in 1 .. q : n + (p + 2 + i) = n + p + 2 + i
    BY <2>n
  <2>9. (\A i \in 1 .. p : s[n + 1 + i] = FunEntry[h[i]]) /\ \A i \in 1 .. q : s[n + p + 2 + i] = DatEntry[j[i]]
    BY <2>4, <2>6, <2>7, <2>8
  <2> QED  BY <2>1, <2>4, <2>5, <2>8, <2>9 DEF Entries
<1>23. s \in Seq(Stmt)
  BY <1>20 DEF IsJoin
<1>24. Entries(s, 2 * k + 2 * d + 8, p, h, q, j)
  BY <1>22
<1>25. /\ Ordered(e, k, U, NumLevels) /\ Ordered(g, d, V, NumLevels)
       /\ Ordered(h, p, U, NumLevels) /\ Ordered(j, q, V, NumLevels)
  BY <1>6, <1>7, <1>8, <1>9
<1> HIDE DEF n
<1> QED  BY <1>5, <1>21, <1>23, <1>24, <1>25

-----------------------------------------------------------------------------
(* The file of several compilations.                                        *)

(* What the variables of SharedScript hold, and that an idle compilation    *)
(* has written nothing and a closed one everything.                         *)
FileType ==
  /\ own \in [Compilation -> Seq(Stmt)]
  /\ state \in [Compilation -> {"idle", "open", "closed"}]
  /\ offset \in [Compilation -> Nat]
  /\ \A c \in Compilation :
       /\ offset[c] \in 1 .. Len(own[c]) + 1
       /\ state[c] = "idle" => offset[c] = 1
       /\ state[c] = "closed" => offset[c] = Len(own[c]) + 1
  /\ file \in Seq(Stmt \cup {Hole})
  /\ last \in Compilation \cup {Nobody}
  /\ shared \in BOOLEAN

(* Without an overlap only the last to open is open, and the file is what   *)
(* it has written so far.                                                   *)
Alone ==
  ~shared =>
    /\ \A c \in Compilation : state[c] = "open" => c = last
    /\ last \in Compilation =>
         /\ Len(file) = offset[last] - 1
         /\ \A j \in 1 .. Len(file) : file[j] = own[last][j]

(* No position of the file is behind the end of every script.               *)
Within == \A j \in 1 .. Len(file) : \E c \in Compilation : j \in 1 .. Len(own[c])

(* As far as the last to open has written, each position holds a statement  *)
(* of a script at its place.                                                *)
Written ==
  last \in Compilation =>
    \A j \in 1 .. offset[last] - 1 :
      /\ j \in 1 .. Len(file)
      /\ \E c \in Compilation : j \in 1 .. Len(own[c]) /\ file[j] = own[c][j]

FileInv == FileType /\ Alone /\ Within /\ Written

(* The file after w was written to it from o up to before e.                *)
Rewritten(f, g, w, o, e) ==
  /\ Len(g) = IF e - 1 > Len(f) THEN e - 1 ELSE Len(f)
  /\ \A j \in o .. e - 1 : j \in 1 .. Len(g) /\ g[j] = w[j]
  /\ \A j \in 1 .. Len(f) : j \in 1 .. Len(g) /\ (j \notin o .. e - 1 => g[j] = f[j])

(* A write leaves the statements of the script at their places and what is  *)
(* outside of them alone.                                                   *)
LEMMA WriteShape ==
  ASSUME FileType, NEW w \in Seq(Stmt), NEW o \in 1 .. Len(w), NEW e \in o + 1 .. Len(w) + 1
  PROVE  /\ Overwritten(o, SubSeq(w, o, e - 1)) \in Seq(Stmt \cup {Hole})
         /\ Rewritten(file, Overwritten(o, SubSeq(w, o, e - 1)), w, o, e)
<1> DEFINE u == SubSeq(w, o, e - 1)
           S == Stmt \cup {Hole}
<1>1. Len(w) \in Nat /\ Len(file) \in Nat /\ file \in Seq(S)
  BY LenProperties DEF FileType
<1>2. /\ o \in Nat /\ e \in Nat /\ o >= 1 /\ o + 1 <= e /\ e <= Len(w) + 1
  BY <1>1
<1>3. /\ u \in Seq(Stmt) /\ Len(u) = e - o
      /\ \A i \in 1 .. e - o : u[i] = w[o + i - 1]
  <2>1. \A i \in o .. e - 1 : w[i] \in Stmt
    BY <1>1, <1>2, ElementOfSeq
  <2>2. /\ u \in Seq(Stmt)
        /\ Len(u) = IF o <= e - 1 THEN e - 1 - o + 1 ELSE 0
        /\ \A i \in 1 .. e - 1 - o + 1 : u[i] = w[o + i - 1]
    BY <1>2, <2>1, SubSeqProperties
  <2>3. e - 1 - o + 1 = e - o /\ o <= e - 1
    BY <1>2
  <2> QED  BY <2>2, <2>3
<1> HIDE DEF u
<1>4. o + Len(u) - 1 = e - 1
  BY <1>2, <1>3
<1> DEFINE m == IF e - 1 > Len(file) THEN e - 1 ELSE Len(file)
           At(j) == CASE j \in o .. e - 1 -> u[j - o + 1]
                      [] j \notin o .. e - 1 /\ j \in DOMAIN file -> file[j]
                      [] OTHER -> Hole
           g == [j \in 1 .. m |-> At(j)]
<1>5. Overwritten(o, u) = g
  BY <1>4 DEF Overwritten
<1>6. /\ \A j \in o .. e - 1 : At(j) = w[j] /\ w[j] \in Stmt
      /\ \A j \in 1 .. Len(file) : j \notin o .. e - 1 => At(j) = file[j] /\ file[j] \in S
      /\ \A j \in 1 .. m : j \in o .. e - 1 \/ j \in 1 .. Len(file) \/ At(j) = Hole
  <2>1. \A j \in o .. e - 1 : At(j) = w[j] /\ w[j] \in Stmt
    <3> SUFFICES ASSUME NEW j \in o .. e - 1 PROVE At(j) = w[j] /\ w[j] \in Stmt
      OBVIOUS
    <3>1. j - o + 1 \in 1 .. e - o /\ o + (j - o + 1) - 1 = j /\ j \in 1 .. Len(w)
      BY <1>1, <1>2
    <3>2. At(j) = u[j - o + 1]
      OBVIOUS
    <3> QED  BY <1>3, <3>1, <3>2, ElementOfSeq
  <2>2. \A j \in 1 .. Len(file) : j \notin o .. e - 1 => At(j) = file[j] /\ file[j] \in S
    <3>1. DOMAIN file = 1 .. Len(file)
      BY <1>1, LenProperties
    <3>2. \A j \in 1 .. Len(file) : file[j] \in S
      BY <1>1, ElementOfSeq
    <3> QED  BY <3>1, <3>2
  <2>3. \A j \in 1 .. m : j \in o .. e - 1 \/ j \in 1 .. Len(file) \/ At(j) = Hole
    <3>1. DOMAIN file = 1 .. Len(file)
      BY <1>1, LenProperties
    <3> QED  BY <3>1
  <2> QED  BY <2>1, <2>2, <2>3
<1> HIDE DEF At
<1>7. m \in Nat /\ m >= e - 1 /\ m >= Len(file)
  BY <1>1, <1>2
<1>8. g \in Seq(S) /\ Len(g) = m /\ \A j \in 1 .. m : g[j] = At(j)
  <2>1. \A j \in 1 .. m : At(j) \in S
    BY <1>6
  <2> HIDE DEF m, S
  <2> QED  BY <1>7, <2>1
<1> HIDE DEF g
<1>9. Rewritten(file, g, w, o, e)
  <2>1. \A j \in o .. e - 1 : j \in 1 .. m
    BY <1>1, <1>2, <1>7
  <2>2. \A j \in 1 .. Len(file) : j \in 1 .. m
    BY <1>1, <1>7
  <2> QED  BY <1>6, <1>8, <2>1, <2>2 DEF Rewritten
<1> QED  BY <1>5, <1>8, <1>9 DEF u

(* What a buffer of c replaces of its script.                               *)
LEMMA FlushShape ==
  ASSUME FileType, NEW c \in Compilation, offset[c] <= Len(own[c])
  PROVE  /\ own[c] \in Seq(Stmt) /\ Len(own[c]) \in Nat
         /\ offset[c] \in 1 .. Len(own[c])
         /\ FlushEnd(c) \in offset[c] + 1 .. Len(own[c]) + 1
<1>1. own[c] \in Seq(Stmt) /\ Len(own[c]) \in Nat /\ offset[c] \in 1 .. Len(own[c])
  BY LenProperties DEF FileType
<1>2. Buffer \in Nat \ {0}
  BY CompilationAssumption
<1> QED  BY <1>1, <1>2 DEF FlushEnd

(* FileInv holds before any compilation starts.                             *)
LEMMA FileInvInit ==
  ASSUME Init
  PROVE  FileInv
<1>1. own \in [Compilation -> Seq(Stmt)]
  <2>1. \A u \in UsedLevels : Script(u[1], u[2]) \in Seq(Stmt)
    BY CompilationAssumption, ScriptShape
  <2> QED  BY <2>1 DEF Init
<1>2. \A c \in Compilation : Len(own[c]) \in Nat
  BY <1>1, LenProperties
<1>3. /\ file = <<>> /\ Len(file) = 0 /\ last = Nobody /\ Nobody \notin Compilation
  BY CompilationAssumption DEF Init
<1>4. FileType
  <2>1. \A c \in Compilation : state[c] = "idle" /\ offset[c] = 1 /\ 1 \in 1 .. Len(own[c]) + 1
    BY <1>2 DEF Init
  <2>2. /\ state \in [Compilation -> {"idle", "open", "closed"}]
        /\ offset \in [Compilation -> Nat] /\ shared \in BOOLEAN
    BY DEF Init
  <2>3. file \in Seq(Stmt \cup {Hole})
    BY <1>3
  <2>4. last \in Compilation \cup {Nobody}
    BY <1>3
  <2>5. \A c \in Compilation :
          /\ offset[c] \in 1 .. Len(own[c]) + 1
          /\ state[c] = "idle" => offset[c] = 1
          /\ state[c] = "closed" => offset[c] = Len(own[c]) + 1
    BY <2>1
  <2> QED  BY <1>1, <2>2, <2>3, <2>4, <2>5 DEF FileType
<1>5. Alone /\ Within /\ Written
  BY <1>3 DEF Init, Alone, Within, Written
<1> QED  BY <1>4, <1>5 DEF FileInv

(* No step of a compilation breaks FileInv.                                 *)
LEMMA FileInvNext ==
  ASSUME FileInv, [Next]_fileVars
  PROVE  FileInv'
<1> USE DEF FileInv
<1>1. ASSUME NEW c \in Compilation, Open(c) PROVE FileInv'
  <2>1. /\ state[c] = "idle" /\ state' = [state EXCEPT ![c] = "open"]
        /\ file' = <<>> /\ last' = c /\ own' = own /\ offset' = offset
        /\ shared' = (shared \/ \E d \in Compilation : state[d] = "open")
    BY <1>1 DEF Open
  <2>2. offset[c] = 1 /\ Len(file') = 0
    BY <2>1 DEF FileType
  <2>3. FileType'
    <3>1. file' \in Seq(Stmt \cup {Hole})
      BY <2>1
    <3>2. state' \in [Compilation -> {"idle", "open", "closed"}] /\ shared' \in BOOLEAN
      BY <2>1 DEF FileType
    <3>3. \A d \in Compilation :
            /\ offset'[d] \in 1 .. Len(own'[d]) + 1
            /\ state'[d] = "idle" => offset'[d] = 1
            /\ state'[d] = "closed" => offset'[d] = Len(own'[d]) + 1
      BY <2>1 DEF FileType
    <3> QED  BY <2>1, <3>1, <3>2, <3>3 DEF FileType
  <2>4. Alone'
    <3> SUFFICES ASSUME ~shared'
                 PROVE  /\ \A d \in Compilation : state'[d] = "open" => d = c
                        /\ Len(file') = offset'[c] - 1
                        /\ \A j \in 1 .. Len(file') : file'[j] = own'[c][j]
      BY <2>1 DEF Alone
    <3>1. \A d \in Compilation : state[d] # "open"
      BY <2>1
    <3> QED  BY <2>1, <2>2, <3>1 DEF FileType
  <2>5. Within' /\ Written'
    <3>1. \A j \in 1 .. 0 : FALSE
      OBVIOUS
    <3> QED  BY <2>1, <2>2, <3>1 DEF Within, Written
  <2> QED  BY <2>3, <2>4, <2>5
<1>2. ASSUME NEW c \in Compilation, Write(c) PROVE FileInv'
  <2> DEFINE w == own[c]
             o == offset[c]
             e == FlushEnd(c)
  <2>1. /\ state[c] = "open" /\ offset[c] <= Len(own[c])
        /\ file' = Overwritten(o, SubSeq(w, o, e - 1))
        /\ offset' = [offset EXCEPT ![c] = e]
        /\ own' = own /\ state' = state /\ last' = last /\ shared' = shared
    BY <1>2 DEF Write
  <2>2. /\ w \in Seq(Stmt) /\ Len(w) \in Nat /\ o \in 1 .. Len(w) /\ e \in o + 1 .. Len(w) + 1
    BY <2>1, FlushShape
  <2>3. file' \in Seq(Stmt \cup {Hole}) /\ Rewritten(file, file', w, o, e)
    BY <2>1, <2>2, WriteShape
  <2>4. Len(file) \in Nat /\ offset'[c] = e /\ \A d \in Compilation : d # c => offset'[d] = offset[d]
    BY <2>1, LenProperties DEF FileType
  <2>5. /\ Len(file') = IF e - 1 > Len(file) THEN e - 1 ELSE Len(file)
        /\ \A j \in o .. e - 1 : j \in 1 .. Len(file') /\ file'[j] = w[j] /\ j \in 1 .. Len(w)
        /\ \A j \in 1 .. Len(file) : j \in 1 .. Len(file') /\ (j \notin o .. e - 1 => file'[j] = file[j])
    BY <2>2, <2>3 DEF Rewritten
  <2>w. w = own[c] /\ o = offset[c]
    OBVIOUS
  <2> HIDE DEF w, o, e
  <2>6. FileType'
    <3>1. offset' \in [Compilation -> Nat]
      BY <2>1, <2>2 DEF FileType
    <3>2. \A d \in Compilation :
            /\ offset'[d] \in 1 .. Len(own[d]) + 1
            /\ state[d] = "idle" => offset'[d] = 1
            /\ state[d] = "closed" => offset'[d] = Len(own[d]) + 1
      BY <2>1, <2>2, <2>4, <2>w DEF FileType
    <3> QED  BY <2>1, <2>3, <3>1, <3>2 DEF FileType
  <2>7. Alone'
    <3> SUFFICES ASSUME ~shared
                 PROVE  /\ \A d \in Compilation : state[d] = "open" => d = last
                        /\ last \in Compilation =>
                             /\ Len(file') = offset'[last] - 1
                             /\ \A j \in 1 .. Len(file') : file'[j] = own[last][j]
      BY <2>1 DEF Alone
    <3>1. c = last /\ \A d \in Compilation : state[d] = "open" => d = last
      BY <2>1 DEF Alone
    <3>2. /\ Len(file) = o - 1 /\ \A j \in 1 .. Len(file) : file[j] = w[j]
      BY <3>1, <2>w DEF Alone
    <3>3. Len(file') = e - 1
      BY <2>2, <2>5, <3>2
    <3>4. \A j \in 1 .. e - 1 : j \in o .. e - 1 \/ (j \in 1 .. Len(file) /\ j \notin o .. e - 1)
      BY <2>2, <3>2
    <3>5. \A j \in 1 .. e - 1 : file'[j] = w[j]
      BY <2>5, <3>2, <3>4
    <3> QED  BY <2>4, <2>w, <3>1, <3>3, <3>5
  <2>8. Within'
    <3> SUFFICES ASSUME NEW j \in 1 .. Len(file')
                 PROVE  \E d \in Compilation : j \in 1 .. Len(own[d])
      BY <2>1 DEF Within
    <3>1. j \in 1 .. Len(file) \/ j \in 1 .. Len(w)
      BY <2>2, <2>4, <2>5
    <3> QED  BY <2>w, <3>1 DEF Within
  <2>9. Written'
    <3> SUFFICES ASSUME last \in Compilation, NEW j \in 1 .. offset'[last] - 1
                 PROVE  /\ j \in 1 .. Len(file')
                        /\ \E d \in Compilation : j \in 1 .. Len(own[d]) /\ file'[j] = own[d][j]
      BY <2>1 DEF Written
    <3>1. CASE j \in o .. e - 1
      BY <2>5, <2>w, <3>1
    <3>2. CASE j \notin o .. e - 1
      <4>1. j \in 1 .. offset[last] - 1
        <5>1. CASE last = c
          <6>1. j \in 1 .. e - 1
            BY <2>4, <5>1
          <6> QED  BY <2>2, <2>w, <3>2, <5>1, <6>1
        <5>2. CASE last # c
          BY <2>4, <5>2
        <5> QED  BY <5>1, <5>2
      <4> QED  BY <2>5, <3>2, <4>1 DEF Written
    <3> QED  BY <3>1, <3>2
  <2> QED  BY <2>6, <2>7, <2>8, <2>9
<1>3. ASSUME NEW c \in Compilation, Close(c) PROVE FileInv'
  <2>1. /\ state[c] = "open" /\ offset[c] > Len(own[c]) /\ state' = [state EXCEPT ![c] = "closed"]
        /\ own' = own /\ offset' = offset /\ file' = file /\ last' = last /\ shared' = shared
    BY <1>3 DEF Close
  <2>2. offset[c] = Len(own[c]) + 1
    <3>1. Len(own[c]) \in Nat /\ offset[c] \in 1 .. Len(own[c]) + 1
      BY LenProperties DEF FileType
    <3> QED  BY <2>1, <3>1
  <2>3. FileType'
    BY <2>1, <2>2 DEF FileType
  <2>4. Alone'
    <3>1. \A d \in Compilation : state'[d] = "open" => state[d] = "open"
      BY <2>1 DEF FileType
    <3> QED  BY <2>1, <3>1 DEF Alone
  <2>5. Within' /\ Written'
    BY <2>1 DEF Within, Written
  <2> QED  BY <2>3, <2>4, <2>5
<1>4. ASSUME UNCHANGED fileVars PROVE FileInv'
  BY <1>4 DEF fileVars, FileType, Alone, Within, Written
<1> QED  BY <1>1, <1>2, <1>3, <1>4 DEF Next, Ended

(* In every behaviour of SharedScript the file keeps FileInv.               *)
THEOREM FileStaysInv == Spec => []FileInv
<1>1. Init => FileInv
  BY FileInvInit
<1>2. FileInv /\ [Next]_fileVars => FileInv'
  BY FileInvNext
<1> QED  BY <1>1, <1>2, PTL DEF Spec

(* Compilations that never have the file open at once leave the whole       *)
(* script of the last, for any number of compilations, scripts and buffers. *)
THEOREM SequentialIsWhole == Spec => []LastScriptIfSequential
<1>1. ASSUME FileInv PROVE LastScriptIfSequential
  <2> SUFFICES ASSUME ~shared, last # Nobody, state[last] = "closed"
               PROVE  file = own[last]
    BY DEF LastScriptIfSequential
  <2>1. last \in Compilation /\ own[last] \in Seq(Stmt) /\ file \in Seq(Stmt \cup {Hole})
        /\ offset[last] = Len(own[last]) + 1
    BY <1>1 DEF FileInv, FileType
  <2>2. Len(file) = Len(own[last]) /\ \A j \in 1 .. Len(file) : file[j] = own[last][j]
    <3>1. Len(own[last]) \in Nat
      BY <2>1, LenProperties
    <3> QED  BY <1>1, <2>1, <3>1 DEF FileInv, Alone
  <2>3. own[last] \in Seq(Stmt \cup {Hole})
    BY <2>1
  <2> QED  BY <2>1, <2>2, <2>3, SeqEqual
<1>2. FileInv => LastScriptIfSequential
  BY <1>1
<1> QED  BY <1>2, FileStaysInv, PTL

(* Compilations that use the same levels leave a whole script, however they *)
(* overlap.                                                                 *)
THEOREM SameLevelsAreWhole == Spec => []WholeIfSameLevels
<1>1. ASSUME FileInv PROVE WholeIfSameLevels
  <2> SUFFICES ASSUME \A c, d \in Compilation : own[c] = own[d], last # Nobody, state[last] = "closed"
               PROVE  file = own[last]
    BY DEF WholeIfSameLevels
  <2>1. last \in Compilation /\ own[last] \in Seq(Stmt) /\ file \in Seq(Stmt \cup {Hole})
        /\ offset[last] = Len(own[last]) + 1
    BY <1>1 DEF FileInv, FileType
  <2>2. Len(own[last]) \in Nat /\ Len(file) \in Nat
    BY <2>1, LenProperties
  <2>3. \A j \in 1 .. Len(file) : j \in 1 .. Len(own[last])
    BY <1>1, <2>1 DEF FileInv, Within
  <2>4. \A j \in 1 .. Len(own[last]) : j \in 1 .. Len(file) /\ file[j] = own[last][j]
    BY <1>1, <2>1, <2>2 DEF FileInv, Written
  <2>5. Len(file) = Len(own[last])
    BY <2>2, <2>3, <2>4
  <2>6. own[last] \in Seq(Stmt \cup {Hole})
    BY <2>1
  <2> QED  BY <2>1, <2>4, <2>5, <2>6, SeqEqual
<1>2. FileInv => WholeIfSameLevels
  BY <1>1
<1> QED  BY <1>2, FileStaysInv, PTL

(* However compilations overlap, no hole is left within the script of the   *)
(* last to open the file, and what is there is in its place in a script.    *)
THEOREM LastHasNoHole == Spec => []NoHoleInLastScript
<1>1. ASSUME FileInv PROVE NoHoleInLastScript
  <2> SUFFICES ASSUME last # Nobody, state[last] = "closed", NEW i \in DOMAIN own[last]
               PROVE  i \in DOMAIN file /\ \E c \in Compilation : i \in DOMAIN own[c] /\ file[i] = own[c][i]
    BY DEF NoHoleInLastScript
  <2>1. last \in Compilation /\ offset[last] = Len(own[last]) + 1 /\ Len(own[last]) \in Nat
    BY <1>1, LenProperties DEF FileInv, FileType
  <2>2. /\ DOMAIN file = 1 .. Len(file)
        /\ \A c \in Compilation : DOMAIN own[c] = 1 .. Len(own[c])
    BY <1>1, LenProperties DEF FileInv, FileType
  <2>3. i \in 1 .. offset[last] - 1
    BY <2>1, <2>2
  <2> QED  BY <1>1, <2>1, <2>2, <2>3 DEF FileInv, Written
<1>2. FileInv => NoHoleInLastScript
  BY <1>1
<1> QED  BY <1>2, FileStaysInv, PTL

-----------------------------------------------------------------------------
(* The places of a script.                                                  *)

(* Names of sections and segments differ.                                   *)
LEMMA Names ==
  /\ Text # Data /\ \A l \in Level : Fun(l) # Text /\ Fun(l) # Data /\ Dat(l) # Text /\ Dat(l) # Data
  /\ \A l, m \in Level : Fun(l) # Dat(m) /\ (Fun(l) = Fun(m) => l = m) /\ (Dat(l) = Dat(m) => l = m)
  /\ \A s \in {<<".text">>, <<".fini">>, <<".data">>, <<".data1">>} : \A l \in Level : s # Fun(l) /\ s # Dat(l)
  /\ <<".text">> # <<".fini">> /\ <<".text">> # <<".data">> /\ <<".text">> # <<".data1">>
  /\ <<".fini">> # <<".data">> /\ <<".fini">> # <<".data1">> /\ <<".data">> # <<".data1">>
BY DEF Fun, Dat, Text, Data

(* A number up to 2 * n is odd or even.                                     *)
LEMMA Halves ==
  ASSUME NEW n \in Nat, NEW i \in 1 .. 2 * n
  PROVE  \E m \in 1 .. n : i = 2 * m - 1 \/ i = 2 * m
<1> DEFINE m == (i + 1) \div 2
<1>1. m \in 1 .. n /\ (i = 2 * m - 1 \/ i = 2 * m)
  OBVIOUS
<1> QED  BY <1>1

(* The places of a script with k levels of functions and d of globals, and  *)
(* p and q segments for them.                                               *)
Places(i, k, d, p, q) ==
  \/ i = 1
  \/ \E m \in 1 .. k : i = 2 * m \/ i = 2 * m + 1
  \/ i \in {2 * k + 2, 2 * k + 3, 2 * k + 4, 2 * k + 5, 2 * k + 6}
  \/ \E m \in 1 .. d : i = 2 * k + 6 + (2 * m - 1) \/ i = 2 * k + 6 + 2 * m
  \/ i \in {2 * k + 2 * d + 7, 2 * k + 2 * d + 8, 2 * k + 2 * d + 8 + 1}
  \/ \E m \in 1 .. p : i = 2 * k + 2 * d + 8 + 1 + m
  \/ i = 2 * k + 2 * d + 8 + p + 2
  \/ \E m \in 1 .. q : i = 2 * k + 2 * d + 8 + p + 2 + m

(* There are no other places.                                               *)
LEMMA EveryPlace ==
  ASSUME NEW k \in Nat, NEW d \in Nat, NEW p \in Nat, NEW q \in Nat,
         NEW i \in 1 .. 2 * k + 2 * d + 8 + p + q + 2
  PROVE  Places(i, k, d, p, q)
<1>1. CASE i - 1 \in 1 .. 2 * k
  <2>1. PICK m \in 1 .. k : i - 1 = 2 * m - 1 \/ i - 1 = 2 * m
    BY <1>1, Halves
  <2>2. i = 2 * m \/ i = 2 * m + 1
    BY <2>1
  <2> QED  BY <2>2 DEF Places
<1>2. CASE i - (2 * k + 6) \in 1 .. 2 * d
  <2>1. PICK m \in 1 .. d : i - (2 * k + 6) = 2 * m - 1 \/ i - (2 * k + 6) = 2 * m
    BY <1>2, Halves
  <2>2. i = 2 * k + 6 + (2 * m - 1) \/ i = 2 * k + 6 + 2 * m
    BY <2>1
  <2> QED  BY <2>2 DEF Places
<1>3. CASE i - (2 * k + 2 * d + 8 + 1) \in 1 .. p
  <2>1. i = 2 * k + 2 * d + 8 + 1 + (i - (2 * k + 2 * d + 8 + 1))
    OBVIOUS
  <2> QED  BY <1>3, <2>1 DEF Places
<1>4. CASE i - (2 * k + 2 * d + 8 + p + 2) \in 1 .. q
  <2>1. i = 2 * k + 2 * d + 8 + p + 2 + (i - (2 * k + 2 * d + 8 + p + 2))
    OBVIOUS
  <2> QED  BY <1>4, <2>1 DEF Places
<1>5. CASE /\ i - 1 \notin 1 .. 2 * k /\ i - (2 * k + 6) \notin 1 .. 2 * d
           /\ i - (2 * k + 2 * d + 8 + 1) \notin 1 .. p
           /\ i - (2 * k + 2 * d + 8 + p + 2) \notin 1 .. q
  <2>1. \/ i = 1
        \/ i \in {2 * k + 2, 2 * k + 3, 2 * k + 4, 2 * k + 5, 2 * k + 6}
        \/ i \in {2 * k + 2 * d + 7, 2 * k + 2 * d + 8, 2 * k + 2 * d + 8 + 1}
        \/ i = 2 * k + 2 * d + 8 + p + 2
    BY <1>5
  <2> QED  BY <2>1 DEF Places
<1> QED  BY <1>1, <1>2, <1>3, <1>4, <1>5

(* The fields of each kind of statement.                                    *)
LEMMA Fields ==
  /\ \A n : Advance(n).op = "advance" /\ Advance(n).by = n
  /\ \A x, g : /\ Output(x, g).op = "section" /\ Output(x, g).section = x
                /\ Output(x, g).segment = g
  /\ \A x : PadAfter(x).op = "pad" /\ PadAfter(x).section = x
  /\ DataSegment.op = "align"
  /\ \A g : Phdr(g).op = "phdr" /\ Phdr(g).segment = g
BY DEF Advance, Output, PadAfter, DataSegment, Phdr

(* What stands at each place of a script of the levels U and V.             *)
Holds(s, k, e, d, g, p, h, q, j, U, V) ==
  /\ k \in Nat /\ d \in Nat /\ p \in Nat /\ q \in Nat
  /\ U \in SUBSET Level /\ V \in SUBSET Level
  /\ Ordered(e, k, U, NumLevels) /\ Ordered(g, d, V, NumLevels)
  /\ Ordered(h, p, U, NumLevels) /\ Ordered(j, q, V, NumLevels)
  /\ Layout(s, k, e, d, g)
  /\ Entries(s, 2 * k + 2 * d + 8, p, h, q, j)

(* The places of a script that hold a given kind of statement.              *)
LEMMA KindsOfPlaces ==
  ASSUME NEW s, NEW k, NEW e, NEW d, NEW g, NEW p, NEW h, NEW q, NEW j, NEW U, NEW V,
         Holds(s, k, e, d, g, p, h, q, j, U, V), NEW i \in 1 .. Len(s)
  PROVE  \/ /\ i = 1 /\ s[i] = Output(<<".text">>, Text)
         \/ \E m \in 1 .. k : /\ i = 2 * m /\ s[i] = Advance(Page)
         \/ \E m \in 1 .. k : /\ i = 2 * m + 1 /\ e[m] \in U
                              /\ s[i] = Output(Fun(e[m]), Fun(e[m]))
         \/ i = 2 * k + 2 /\ s[i] = PadAfter(Fun(LeastPrivileged))
         \/ i = 2 * k + 3 /\ s[i] = Advance(2 * Page)
         \/ i = 2 * k + 4 /\ s[i] = Output(<<".fini">>, Text)
         \/ i = 2 * k + 5 /\ s[i] = DataSegment
         \/ i = 2 * k + 6 /\ s[i] = Output(<<".data">>, Data)
         \/ \E m \in 1 .. d : /\ i = 2 * k + 6 + (2 * m - 1) /\ s[i] = Advance(Page)
         \/ \E m \in 1 .. d : /\ i = 2 * k + 6 + 2 * m /\ g[m] \in V
                              /\ s[i] = Output(Dat(g[m]), Dat(g[m]))
         \/ i = 2 * k + 2 * d + 7 /\ s[i] = PadAfter(Dat(LeastPrivileged))
         \/ i = 2 * k + 2 * d + 8 /\ s[i] = Output(<<".data1">>, Data)
         \/ i = 2 * k + 2 * d + 8 + 1 /\ s[i] = Phdr(Text)
         \/ \E m \in 1 .. p : /\ i = 2 * k + 2 * d + 8 + 1 + m /\ h[m] \in U /\ s[i] = Phdr(Fun(h[m]))
         \/ i = 2 * k + 2 * d + 8 + p + 2 /\ s[i] = Phdr(Data)
         \/ \E m \in 1 .. q : /\ i = 2 * k + 2 * d + 8 + p + 2 + m /\ j[m] \in V /\ s[i] = Phdr(Dat(j[m]))
<1>1. Places(i, k, d, p, q)
  <2>1. Len(s) = 2 * k + 2 * d + 8 + p + q + 2
    BY DEF Holds, Entries
  <2> QED  BY <2>1, EveryPlace DEF Holds
<1>2. /\ \A m \in 1 .. k : e[m] \in U /\ FunOut[e[m]] = Output(Fun(e[m]), Fun(e[m]))
      /\ \A m \in 1 .. d : g[m] \in V /\ DatOut[g[m]] = Output(Dat(g[m]), Dat(g[m]))
      /\ \A m \in 1 .. p : h[m] \in U /\ FunEntry[h[m]] = Phdr(Fun(h[m]))
      /\ \A m \in 1 .. q : j[m] \in V /\ DatEntry[j[m]] = Phdr(Dat(j[m]))
  <2>1. (\A m \in 1 .. k : e[m] \in U) /\ \A m \in 1 .. d : g[m] \in V
    BY DEF Holds, Ordered
  <2>2. (\A m \in 1 .. p : h[m] \in U) /\ \A m \in 1 .. q : j[m] \in V
    BY DEF Holds, Ordered
  <2>3. U \subseteq Level /\ V \subseteq Level
    BY DEF Holds
  <2> QED  BY <2>1, <2>2, <2>3, StmtShape
<1> HIDE DEF Holds
<1>3. Layout(s, k, e, d, g) /\ Entries(s, 2 * k + 2 * d + 8, p, h, q, j)
  BY DEF Holds
<1>4. CASE i = 1
  BY <1>3, <1>4 DEF Layout
<1>5. CASE \E m \in 1 .. k : i = 2 * m \/ i = 2 * m + 1
  BY <1>2, <1>3, <1>5 DEF Layout
<1>6. CASE i \in {2 * k + 2, 2 * k + 3, 2 * k + 4, 2 * k + 5, 2 * k + 6}
  BY <1>3, <1>6 DEF Layout
<1>7. CASE \E m \in 1 .. d : i = 2 * k + 6 + (2 * m - 1) \/ i = 2 * k + 6 + 2 * m
  BY <1>2, <1>3, <1>7 DEF Layout
<1>8. CASE i \in {2 * k + 2 * d + 7, 2 * k + 2 * d + 8, 2 * k + 2 * d + 8 + 1}
  BY <1>3, <1>8 DEF Layout, Entries
<1>9. CASE \E m \in 1 .. p : i = 2 * k + 2 * d + 8 + 1 + m
  BY <1>2, <1>3, <1>9 DEF Entries
<1>10. CASE i = 2 * k + 2 * d + 8 + p + 2
  BY <1>3, <1>10 DEF Entries
<1>11. CASE \E m \in 1 .. q : i = 2 * k + 2 * d + 8 + p + 2 + m
  BY <1>2, <1>3, <1>11 DEF Entries
<1> QED  BY <1>1, <1>4, <1>5, <1>6, <1>7, <1>8, <1>9, <1>10, <1>11 DEF Places

(* The segments that sections are assigned to, and the ones declared.       *)
Assigned(U, V) == {Text, Data} \cup { Fun(l) : l \in U } \cup { Dat(l) : l \in V }

(* Sections use exactly the segments declared, each declared once.          *)
LEMMA SegmentsOfScript ==
  ASSUME NEW s \in Seq(Stmt), NEW k, NEW e, NEW d, NEW g, NEW p, NEW h, NEW q, NEW j, NEW U, NEW V,
         Holds(s, k, e, d, g, p, h, q, j, U, V)
  PROVE  /\ \A i \in DOMAIN s : s[i].op \in {"section", "phdr"} => s[i].segment \in Assigned(U, V)
         /\ \A x \in Assigned(U, V) :
              /\ \E i \in DOMAIN s : s[i].op = "section" /\ s[i].segment = x
              /\ \E i \in DOMAIN s : s[i].op = "phdr" /\ s[i].segment = x
         /\ \A a, b \in DOMAIN s :
              s[a].op = "phdr" /\ s[b].op = "phdr" /\ s[a].segment = s[b].segment => a = b
<1>1. /\ k \in Nat /\ d \in Nat /\ p \in Nat /\ q \in Nat /\ U \subseteq Level /\ V \subseteq Level
      /\ Len(s) = 2 * k + 2 * d + 8 + p + q + 2
      /\ Layout(s, k, e, d, g) /\ Entries(s, 2 * k + 2 * d + 8, p, h, q, j)
  BY DEF Holds, Entries
<1>2. DOMAIN s = 1 .. Len(s)
  BY LenProperties
<1>3. \A i \in DOMAIN s : s[i].op \in {"section", "phdr"} => s[i].segment \in Assigned(U, V)
  <2> SUFFICES ASSUME NEW i \in DOMAIN s, s[i].op \in {"section", "phdr"}
               PROVE  s[i].segment \in Assigned(U, V)
    OBVIOUS
  <2>1. i \in 1 .. Len(s)
    BY <1>2
  <2>2. \/ \E x, y : s[i] = Output(x, y) /\ y \in Assigned(U, V)
        \/ \E y : s[i] = Phdr(y) /\ y \in Assigned(U, V)
        \/ s[i].op \in {"advance", "pad", "align"}
    BY <2>1, KindsOfPlaces, Fields DEF Assigned
  <2> QED  BY <2>2, Fields
<1>4. \A x \in Assigned(U, V) : \E i \in DOMAIN s : s[i].op = "section" /\ s[i].segment = x
  <2> SUFFICES ASSUME NEW x \in Assigned(U, V)
               PROVE  \E i \in 1 .. Len(s) : \E y : s[i] = Output(y, x)
    BY <1>2, Fields
  <2>1. CASE x = Text
    <3>1. 1 \in 1 .. Len(s) /\ s[1] = Output(<<".text">>, x)
      BY <1>1, <2>1 DEF Layout
    <3> QED  BY <3>1
  <2>2. CASE x = Data
    <3>1. 2 * k + 6 \in 1 .. Len(s) /\ s[2 * k + 6] = Output(<<".data">>, x)
      BY <1>1, <2>2 DEF Layout
    <3> QED  BY <3>1
  <2>3. ASSUME NEW l \in U, x = Fun(l) PROVE \E i \in 1 .. Len(s) : \E y : s[i] = Output(y, x)
    <3>1. PICK m \in 1 .. k : e[m] = l
      BY <1>1, LevelShape DEF Holds, Ordered, Level
    <3>2. 2 * m + 1 \in 1 .. Len(s)
      BY <1>1
    <3>3. s[2 * m + 1] = Output(Fun(l), x)
      BY <1>1, <2>3, <3>1, StmtShape DEF Layout
    <3> QED  BY <3>2, <3>3
  <2>4. ASSUME NEW l \in V, x = Dat(l) PROVE \E i \in 1 .. Len(s) : \E y : s[i] = Output(y, x)
    <3>1. PICK m \in 1 .. d : g[m] = l
      BY <1>1, LevelShape DEF Holds, Ordered, Level
    <3>2. 2 * k + 6 + 2 * m \in 1 .. Len(s)
      BY <1>1
    <3>3. s[2 * k + 6 + 2 * m] = Output(Dat(l), x)
      BY <1>1, <2>4, <3>1, StmtShape DEF Layout
    <3> QED  BY <3>2, <3>3
  <2> QED  BY <2>1, <2>2, <2>3, <2>4 DEF Assigned
<1>5. \A x \in Assigned(U, V) : \E i \in DOMAIN s : s[i].op = "phdr" /\ s[i].segment = x
  <2> SUFFICES ASSUME NEW x \in Assigned(U, V)
               PROVE  \E i \in 1 .. Len(s) : s[i] = Phdr(x)
    BY <1>2, Fields
  <2> DEFINE n == 2 * k + 2 * d + 8
  <2>0. n \in Nat /\ Len(s) = n + p + q + 2 /\ Entries(s, n, p, h, q, j)
    BY <1>1
  <2> HIDE DEF n
  <2>1. CASE x = Text
    <3>1. n + 1 \in 1 .. Len(s) /\ s[n + 1] = Phdr(x)
      BY <1>1, <2>0, <2>1 DEF Entries
    <3> QED  BY <3>1
  <2>2. CASE x = Data
    <3>1. n + p + 2 \in 1 .. Len(s)
      BY <1>1, <2>0
    <3>2. s[n + p + 2] = Phdr(x)
      BY <2>0, <2>2 DEF Entries
    <3> QED  BY <3>1, <3>2
  <2>3. ASSUME NEW l \in U, x = Fun(l) PROVE \E i \in 1 .. Len(s) : s[i] = Phdr(x)
    <3>1. PICK m \in 1 .. p : h[m] = l
      BY <1>1, LevelShape DEF Holds, Ordered, Level
    <3>2. n + 1 + m \in 1 .. Len(s)
      BY <1>1, <2>0
    <3>3. s[n + 1 + m] = Phdr(x)
      BY <1>1, <2>0, <2>3, <3>1, StmtShape DEF Entries
    <3> QED  BY <3>2, <3>3
  <2>4. ASSUME NEW l \in V, x = Dat(l) PROVE \E i \in 1 .. Len(s) : s[i] = Phdr(x)
    <3>1. PICK m \in 1 .. q : j[m] = l
      BY <1>1, LevelShape DEF Holds, Ordered, Level
    <3>2. n + p + 2 + m \in 1 .. Len(s)
      BY <1>1, <2>0
    <3>3. s[n + p + 2 + m] = Phdr(x)
      BY <1>1, <2>0, <2>4, <3>1, StmtShape DEF Entries
    <3> QED  BY <3>2, <3>3
  <2> QED  BY <2>1, <2>2, <2>3, <2>4 DEF Assigned
<1>6. \A a, b \in DOMAIN s :
        s[a].op = "phdr" /\ s[b].op = "phdr" /\ s[a].segment = s[b].segment => a = b
  <2> DEFINE n == 2 * k + 2 * d + 8
             Entry(i, x) == \/ i = n + 1 /\ x = Text
                            \/ \E m \in 1 .. p : i = n + 1 + m /\ h[m] \in U /\ x = Fun(h[m])
                            \/ i = n + p + 2 /\ x = Data
                            \/ \E m \in 1 .. q : i = n + p + 2 + m /\ j[m] \in V /\ x = Dat(j[m])
  <2>1. \A i \in DOMAIN s : s[i].op = "phdr" => Entry(i, s[i].segment)
    <3> SUFFICES ASSUME NEW i \in DOMAIN s, s[i].op = "phdr" PROVE Entry(i, s[i].segment)
      OBVIOUS
    <3>1. i \in 1 .. Len(s)
      BY <1>2
    <3>2. \/ i = n + 1 /\ s[i] = Phdr(Text)
          \/ \E m \in 1 .. p : i = n + 1 + m /\ h[m] \in U /\ s[i] = Phdr(Fun(h[m]))
          \/ i = n + p + 2 /\ s[i] = Phdr(Data)
          \/ \E m \in 1 .. q : i = n + p + 2 + m /\ j[m] \in V /\ s[i] = Phdr(Dat(j[m]))
          \/ s[i].op # "phdr"
      BY SMTT(40), <3>1, KindsOfPlaces, Fields
    <3> HIDE DEF n
    <3> QED  BY <3>2, Fields
  <2>2. \A a, b, x : Entry(a, x) /\ Entry(b, x) => a = b
    <3>1. /\ \A m, r \in 1 .. p : h[m] \in Nat /\ h[r] \in Nat /\ (h[m] = h[r] => m = r)
          /\ \A m, r \in 1 .. q : j[m] \in Nat /\ j[r] \in Nat /\ (j[m] = j[r] => m = r)
      <4>1. /\ \A m \in 1 .. p : h[m] \in Nat
            /\ \A m \in 1 .. q : j[m] \in Nat
            /\ \A m, r \in 1 .. p : m < r => h[m] < h[r]
            /\ \A m, r \in 1 .. q : m < r => j[m] < j[r]
        BY LevelShape DEF Holds, Ordered
      <4> QED  BY <4>1
    <3> HIDE DEF n
    <3>2. \A l \in U \cup V : l \in Level
      BY <1>1
    <3> QED  BY <3>1, <3>2, Names
  <2> HIDE DEF Entry
  <2> QED  BY <2>1, <2>2
<1> QED  BY <1>3, <1>4, <1>5, <1>6

(* The script is one that generateLinkScript writes.                        *)
IsScript == script \in { Script(F, V) : F, V \in UsedSets }

(* What a script is made of, for the levels it was written for.             *)
LEMMA ScriptHolds ==
  ASSUME IsScript
  PROVE  /\ script \in Seq(Stmt)
         /\ \E U, V \in UsedSets : \E k, e, d, g, p, h, q, j :
              Holds(script, k, e, d, g, p, h, q, j, U, V)
<1>1. PICK U \in UsedSets, V \in UsedSets : script = Script(U, V)
  BY DEF IsScript
<1>2. U \in SUBSET Level /\ V \in SUBSET Level
  BY DEF UsedSets
<1>3. \E k, d, p, q \in Nat : \E e, g, h, j : Holds(Script(U, V), k, e, d, g, p, h, q, j, U, V)
  <2>1. PICK k \in Nat, d \in Nat, p \in Nat, q \in Nat : \E e, g, h, j :
          /\ Ordered(e, k, U, NumLevels) /\ Ordered(g, d, V, NumLevels)
          /\ Ordered(h, p, U, NumLevels) /\ Ordered(j, q, V, NumLevels)
          /\ Layout(Script(U, V), k, e, d, g)
          /\ Entries(Script(U, V), 2 * k + 2 * d + 8, p, h, q, j)
    BY ScriptShape
  <2> QED  BY <1>2, <2>1 DEF Holds
<1>4. \E k, e, d, g, p, h, q, j : Holds(script, k, e, d, g, p, h, q, j, U, V)
  BY <1>1, <1>3
<1>5. script \in Seq(Stmt)
  BY <1>1, ScriptShape
<1> QED  BY <1>4, <1>5

(* The sections are assigned to the segments that PHDRS declares, each of   *)
(* them once, for any number of levels and any sets of used ones.           *)
THEOREM SegmentsAlwaysAgree == LinkSpec => []SegmentsAgree
<1>1. LinkInit => IsScript
  BY DEF LinkInit, IsScript
<1>2. IsScript /\ [LinkNext]_linkVars => IsScript'
  BY DEF IsScript, LinkNext, AdvanceDot, PlaceSection, PadDot, AlignData, DeclareSegment, LinkEnded,
         Step, linkVars
<1>3. ASSUME IsScript PROVE SegmentsAgree
  <2>1. PICK k, e, d, g, p, h, q, j, U, V : Holds(script, k, e, d, g, p, h, q, j, U, V)
    BY <1>3, ScriptHolds
  <2>2. /\ \A i \in DOMAIN script :
             script[i].op \in {"section", "phdr"} => script[i].segment \in Assigned(U, V)
        /\ \A x \in Assigned(U, V) :
             /\ \E i \in DOMAIN script : script[i].op = "section" /\ script[i].segment = x
             /\ \E i \in DOMAIN script : script[i].op = "phdr" /\ script[i].segment = x
        /\ \A a, b \in DOMAIN script :
             script[a].op = "phdr" /\ script[b].op = "phdr" /\ script[a].segment = script[b].segment
               => a = b
    BY <1>3, <2>1, ScriptHolds, SegmentsOfScript
  <2> DEFINE Of(op) == { i \in DOMAIN script : script[i].op = op }
  <2>3. { script[i].segment : i \in Of("section") } = Assigned(U, V)
    BY <2>2
  <2>4. { script[i].segment : i \in Of("phdr") } = Assigned(U, V)
    BY <2>2
  <2>5. \A a, b \in Of("phdr") : script[a].segment = script[b].segment => a = b
    BY <2>2
  <2> QED  BY <2>3, <2>4, <2>5 DEF SegmentsAgree
<1>4. IsScript => SegmentsAgree
  BY <1>3
<1> QED  BY <1>1, <1>2, <1>4, PTL DEF LinkSpec

FunGroup == FunSection \cup {<<".text">>}
DatGroup == DatSection \cup {<<".data">>}

(* The sections of a group are placed from statement b to b + n, each but   *)
(* the first behind a gap, and nothing there moves the counter back.        *)
GroupAt(s, G, b, n) ==
  /\ \A i \in 1 .. Len(s) :
       s[i].op = "section" /\ s[i].section \in G =>
         i \in b .. b + n /\ (i # b => s[i - 1] = Advance(Page))
  /\ \A i \in b .. b + n : i \in 1 .. Len(s) /\ s[i].op \in {"section", "advance"}

(* Every section is placed at most once.                                    *)
Once(s) ==
  \A a, b \in 1 .. Len(s) :
    s[a].op = "section" /\ s[b].op = "section" /\ s[a].section = s[b].section => a = b

(* What the proofs about addresses use of a script of k levels of functions *)
(* and d of globals.                                                        *)
Laid(s, k, d) ==
  /\ k \in Nat /\ d \in Nat /\ s \in Seq(Stmt)
  /\ Once(s)
  /\ GroupAt(s, FunGroup, 1, 2 * k)
  /\ GroupAt(s, DatGroup, 2 * k + 6, 2 * d)

(* The fields of a statement are of the type its kind demands.              *)
LEMMA StatementTypes ==
  ASSUME NEW s \in Seq(Stmt), NEW i \in 1 .. Len(s)
  PROVE  /\ s[i].op \in {"advance", "section", "pad", "align", "phdr"}
         /\ s[i].op = "advance" => s[i].by \in Nat
         /\ s[i].op \in {"section", "pad"} => s[i].section \in Section
<1>1. s[i] \in Stmt
  BY ElementOfSeq
<1>2. Page \in Nat /\ 2 * Page \in Nat
  BY PageAssumption
<1>3. \/ s[i] = Advance(Page) \/ s[i] = Advance(2 * Page) \/ s[i] = DataSegment
      \/ \E x \in Section : \E y : s[i] = Output(x, y)
      \/ \E x \in Section : s[i] = PadAfter(x)
      \/ \E y : s[i] = Phdr(y)
  BY <1>1 DEF Stmt
<1> QED  BY <1>2, <1>3, Fields

(* The places of a script where sections are placed.                        *)
LEMMA PlacesOfSections ==
  ASSUME NEW s, NEW k, NEW e, NEW d, NEW g, NEW p, NEW h, NEW q, NEW j, NEW U, NEW V,
         Holds(s, k, e, d, g, p, h, q, j, U, V), NEW i \in 1 .. Len(s), s[i].op = "section"
  PROVE  \/ i = 1 /\ s[i].section = <<".text">>
         \/ \E m \in 1 .. k : i = 2 * m + 1 /\ e[m] \in U /\ s[i].section = Fun(e[m])
         \/ i = 2 * k + 4 /\ s[i].section = <<".fini">>
         \/ i = 2 * k + 6 /\ s[i].section = <<".data">>
         \/ \E m \in 1 .. d : i = 2 * k + 6 + 2 * m /\ g[m] \in V /\ s[i].section = Dat(g[m])
         \/ i = 2 * k + 2 * d + 8 /\ s[i].section = <<".data1">>
<1>1. \/ i = 1 /\ s[i] = Output(<<".text">>, Text)
      \/ \E m \in 1 .. k : i = 2 * m + 1 /\ e[m] \in U /\ s[i] = Output(Fun(e[m]), Fun(e[m]))
      \/ i = 2 * k + 4 /\ s[i] = Output(<<".fini">>, Text)
      \/ i = 2 * k + 6 /\ s[i] = Output(<<".data">>, Data)
      \/ \E m \in 1 .. d : i = 2 * k + 6 + 2 * m /\ g[m] \in V /\ s[i] = Output(Dat(g[m]), Dat(g[m]))
      \/ i = 2 * k + 2 * d + 8 /\ s[i] = Output(<<".data1">>, Data)
      \/ s[i].op # "section"
  BY KindsOfPlaces, Fields
<1> QED  BY <1>1, Fields

(* Every script is laid out as Laid says.                                   *)
LEMMA ScriptLaid ==
  ASSUME NEW s \in Seq(Stmt), NEW k, NEW e, NEW d, NEW g, NEW p, NEW h, NEW q, NEW j, NEW U, NEW V,
         Holds(s, k, e, d, g, p, h, q, j, U, V)
  PROVE  Laid(s, k, d)
<1>1. /\ k \in Nat /\ d \in Nat /\ p \in Nat /\ q \in Nat /\ U \subseteq Level /\ V \subseteq Level
      /\ Len(s) = 2 * k + 2 * d + 8 + p + q + 2
      /\ Layout(s, k, e, d, g)
  BY DEF Holds, Entries
<1> DEFINE Place(i, x) ==
             \/ i = 1 /\ x = <<".text">>
             \/ \E m \in 1 .. k : i = 2 * m + 1 /\ e[m] \in U /\ x = Fun(e[m])
             \/ i = 2 * k + 4 /\ x = <<".fini">>
             \/ i = 2 * k + 6 /\ x = <<".data">>
             \/ \E m \in 1 .. d : i = 2 * k + 6 + 2 * m /\ g[m] \in V /\ x = Dat(g[m])
             \/ i = 2 * k + 2 * d + 8 /\ x = <<".data1">>
<1>2. \A i \in 1 .. Len(s) : s[i].op = "section" => Place(i, s[i].section)
  BY PlacesOfSections
<1>3. \A l \in U \cup V : l \in Level
  BY <1>1
<1>4. Once(s)
  <2>1. \A a, b, x : Place(a, x) /\ Place(b, x) => a = b
    <3>1. /\ \A m, r \in 1 .. k : e[m] = e[r] => m = r
          /\ \A m, r \in 1 .. d : g[m] = g[r] => m = r
      <4>1. /\ \A m \in 1 .. k : e[m] \in Nat
            /\ \A m \in 1 .. d : g[m] \in Nat
            /\ \A m, r \in 1 .. k : m < r => e[m] < e[r]
            /\ \A m, r \in 1 .. d : m < r => g[m] < g[r]
        BY LevelShape DEF Holds, Ordered
      <4> QED  BY <4>1
    <3> QED  BY <1>3, <3>1, Names
  <2> HIDE DEF Place
  <2> QED  BY <1>2, <2>1 DEF Once
<1>5. GroupAt(s, FunGroup, 1, 2 * k)
  <2>1. ASSUME NEW i \in 1 .. Len(s), s[i].op = "section", s[i].section \in FunGroup
        PROVE  i \in 1 .. 1 + 2 * k /\ (i # 1 => s[i - 1] = Advance(Page))
    <3>1. i = 1 \/ \E m \in 1 .. k : i = 2 * m + 1
      <4>1. \/ s[i].section = <<".text">> \/ \E l \in Level : s[i].section = Fun(l)
        BY <2>1 DEF FunGroup, FunSection
      <4> QED  BY <1>2, <1>3, <2>1, <4>1, Names
    <3>2. ASSUME NEW m \in 1 .. k, i = 2 * m + 1
          PROVE  i \in 1 .. 1 + 2 * k /\ s[i - 1] = Advance(Page)
      <4>1. i - 1 = 2 * m /\ i \in 1 .. 1 + 2 * k
        BY <1>1, <3>2
      <4> QED  BY <1>1, <4>1 DEF Layout
    <3>3. 1 \in 1 .. 1 + 2 * k
      BY <1>1
    <3> QED  BY <3>1, <3>2, <3>3
  <2>2. ASSUME NEW i \in 1 .. 1 + 2 * k PROVE i \in 1 .. Len(s) /\ s[i].op \in {"section", "advance"}
    <3>1. i \in 1 .. Len(s)
      BY <1>1
    <3>2. CASE i = 1
      BY <1>1, <3>1, <3>2, Fields DEF Layout
    <3>3. CASE i # 1
      <4>1. i - 1 \in 1 .. 2 * k
        BY <1>1, <3>3
      <4>2. PICK m \in 1 .. k : i - 1 = 2 * m - 1 \/ i - 1 = 2 * m
        BY <1>1, <4>1, Halves
      <4>3. i = 2 * m \/ i = 2 * m + 1
        BY <1>1, <4>2
      <4>4. FunOut[e[m]].op = "section"
        BY <1>1, StmtShape, Fields DEF Holds, Ordered
      <4>5. s[2 * m].op = "advance" /\ s[2 * m + 1].op = "section"
        <5>1. s[2 * m] = Advance(Page) /\ s[2 * m + 1] = FunOut[e[m]]
          BY <1>1 DEF Layout
        <5> QED  BY <4>4, <5>1, Fields
      <4> QED  BY <3>1, <4>3, <4>5
    <3> QED  BY <3>2, <3>3
  <2> QED  BY <2>1, <2>2 DEF GroupAt
<1>6. GroupAt(s, DatGroup, 2 * k + 6, 2 * d)
  <2>1. ASSUME NEW i \in 1 .. Len(s), s[i].op = "section", s[i].section \in DatGroup
        PROVE  i \in 2 * k + 6 .. 2 * k + 6 + 2 * d /\ (i # 2 * k + 6 => s[i - 1] = Advance(Page))
    <3>1. i = 2 * k + 6 \/ \E m \in 1 .. d : i = 2 * k + 6 + 2 * m
      <4>1. \/ s[i].section = <<".data">> \/ \E l \in Level : s[i].section = Dat(l)
        BY <2>1 DEF DatGroup, DatSection
      <4>2. /\ s[i].section \notin {<<".text">>, <<".fini">>, <<".data1">>}
            /\ \A l \in U : s[i].section # Fun(l)
        BY <1>3, <4>1, Names
      <4> QED  BY <1>2, <2>1, <4>2
    <3>2. ASSUME NEW m \in 1 .. d, i = 2 * k + 6 + 2 * m
          PROVE  i \in 2 * k + 6 .. 2 * k + 6 + 2 * d /\ s[i - 1] = Advance(Page)
      <4>1. i - 1 = 2 * k + 6 + (2 * m - 1) /\ i \in 2 * k + 6 .. 2 * k + 6 + 2 * d
        BY <1>1, <3>2
      <4> QED  BY <1>1, <4>1 DEF Layout
    <3>3. 2 * k + 6 \in 2 * k + 6 .. 2 * k + 6 + 2 * d
      BY <1>1
    <3> QED  BY <3>1, <3>2, <3>3
  <2>2. ASSUME NEW i \in 2 * k + 6 .. 2 * k + 6 + 2 * d
        PROVE  i \in 1 .. Len(s) /\ s[i].op \in {"section", "advance"}
    <3>1. i \in 1 .. Len(s)
      BY <1>1
    <3>2. CASE i = 2 * k + 6
      BY <1>1, <3>1, <3>2, Fields DEF Layout
    <3>3. CASE i # 2 * k + 6
      <4>1. i - (2 * k + 6) \in 1 .. 2 * d
        BY <1>1, <3>3
      <4>2. PICK m \in 1 .. d : i - (2 * k + 6) = 2 * m - 1 \/ i - (2 * k + 6) = 2 * m
        BY <1>1, <4>1, Halves
      <4>3. i = 2 * k + 6 + (2 * m - 1) \/ i = 2 * k + 6 + 2 * m
        BY <1>1, <4>2
      <4>4. DatOut[g[m]].op = "section"
        BY <1>1, StmtShape, Fields DEF Holds, Ordered
      <4>5. s[2 * k + 6 + (2 * m - 1)] = Advance(Page) /\ s[2 * k + 6 + 2 * m] = DatOut[g[m]]
        BY <1>1 DEF Layout
      <4>6. s[2 * k + 6 + (2 * m - 1)].op = "advance" /\ s[2 * k + 6 + 2 * m].op = "section"
        BY <4>4, <4>5, Fields
      <4> QED  BY <3>1, <4>3, <4>6
    <3> QED  BY <3>2, <3>3
  <2> QED  BY <2>1, <2>2 DEF GroupAt
<1> QED  BY <1>1, <1>4, <1>5, <1>6 DEF Laid

LinkType ==
  /\ script \in Seq(Stmt)
  /\ size \in [Section -> Nat]
  /\ dot \in Int
  /\ next \in 1 .. Len(script) + 1
  /\ start \in [Section -> Int]

(* A section that has an address was met.                                   *)
PlacedBefore ==
  \A x \in Section : start[x] # -1 =>
    \E i \in 1 .. Len(script) : i < next /\ script[i].op = "section" /\ script[i].section = x

(* The fixed gap just passed.                                               *)
Gap == IF next > 1 /\ script[next - 1] = Advance(Page) THEN Page ELSE 0

(* While a group grows the counter is behind all of it placed so far, and   *)
(* two sections of it are a page apart.                                     *)
Behind(G, b, n) ==
  next \in b .. b + n + 1 => \A x \in G : start[x] # -1 => start[x] + size[x] + Gap <= dot

Spread(G) ==
  \A x, y \in G : x # y /\ start[x] # -1 /\ start[y] # -1 =>
    start[x] + size[x] + Page <= start[y] \/ start[y] + size[y] + Page <= start[x]

GroupInv(G, b, n) == Behind(G, b, n) /\ Spread(G)

(* What one statement does, whichever it is.                                *)
LEMMA LinkStepShape ==
  ASSUME LinkType, LinkNext, ~UNCHANGED linkVars
  PROVE  /\ next \in 1 .. Len(script) /\ next' = next + 1 /\ script' = script /\ size' = size
         /\ \/ script[next].op = "advance" /\ dot' = dot + script[next].by /\ start' = start
            \/ /\ script[next].op = "section" /\ script[next].section \in Section
               /\ start' = [start EXCEPT ![script[next].section] = dot]
               /\ dot' = dot + size[script[next].section]
            \/ /\ script[next].op = "pad" /\ script[next].section \in Section
               /\ dot' = dot + Page - size[script[next].section] /\ start' = start
            \/ /\ script[next].op = "align" /\ dot' = ((dot + Page - 1) \div Page) * Page /\ start' = start
            \/ script[next].op = "phdr" /\ dot' = dot /\ start' = start
<1>1. DOMAIN script = 1 .. Len(script)
  BY LenProperties DEF LinkType
<1>2. ~LinkEnded
  BY DEF LinkEnded
<1>3. next \in 1 .. Len(script) /\ next' = next + 1 /\ script' = script /\ size' = size
  BY <1>1, <1>2 DEF LinkNext, AdvanceDot, PlaceSection, PadDot, AlignData, DeclareSegment, Statement, Step
<1>4. script[next].op \in {"section", "pad"} => script[next].section \in Section
  BY <1>3, StatementTypes DEF LinkType
<1> QED
  BY <1>2, <1>3, <1>4
     DEF LinkNext, AdvanceDot, PlaceSection, PadDot, AlignData, DeclareSegment, Statement, Step

(* Aligning never moves the counter back.                                   *)
LEMMA AlignUp ==
  ASSUME NEW x \in Int
  PROVE  ((x + Page - 1) \div Page) * Page \in Int /\ ((x + Page - 1) \div Page) * Page >= x
<1>1. Page \in Nat /\ Page > 0
  BY PageAssumption
<1> DEFINE y == x + Page - 1
           a == y \div Page
           r == y % Page
<1>2. y \in Int /\ a \in Int /\ r \in Int /\ y = Page * a + r /\ 0 <= r /\ r < Page
  BY <1>1
<1>3. Page * a = a * Page /\ Page * a \in Int
  BY <1>1, <1>2
<1>4. Page * a >= x
  <2>1. y = x + Page - 1
    OBVIOUS
  <2> HIDE DEF a, r, y
  <2> DEFINE z == Page * a
  <2>2. z \in Int /\ y = z + r
    BY <1>2, <1>3
  <2> HIDE DEF z
  <2>3. z >= x
    BY <1>1, <1>2, <2>1, <2>2
  <2> QED  BY <2>3 DEF z
<1> QED  BY <1>3, <1>4

(* No statement breaks LinkType.                                            *)
LEMMA LinkTypeNext ==
  ASSUME LinkType, LinkNext, ~UNCHANGED linkVars
  PROVE  LinkType'
<1>1. /\ next \in 1 .. Len(script) /\ next' = next + 1 /\ script' = script /\ size' = size
  BY LinkStepShape
<1>2. Page \in Nat /\ Len(script) \in Nat
  BY PageAssumption, LenProperties DEF LinkType
<1>3. dot' \in Int
  <2>1. script[next].op = "advance" => script[next].by \in Nat
    BY <1>1, StatementTypes DEF LinkType
  <2>2. \A x \in Section : size[x] \in Nat
    BY DEF LinkType
  <2>3. dot \in Int
    BY DEF LinkType
  <2> QED  BY <1>2, <2>1, <2>2, <2>3, LinkStepShape, AlignUp
<1>4. start' \in [Section -> Int]
  BY LinkStepShape DEF LinkType
<1> QED  BY <1>1, <1>2, <1>3, <1>4 DEF LinkType

(* No statement breaks PlacedBefore.                                        *)
LEMMA PlacedBeforeNext ==
  ASSUME LinkType, PlacedBefore, LinkNext, ~UNCHANGED linkVars
  PROVE  PlacedBefore'
<1>1. /\ next \in 1 .. Len(script) /\ next' = next + 1 /\ script' = script
  BY LinkStepShape
<1> SUFFICES ASSUME NEW x \in Section, start'[x] # -1
             PROVE  \E i \in 1 .. Len(script) :
                      i < next + 1 /\ script[i].op = "section" /\ script[i].section = x
  BY <1>1 DEF PlacedBefore
<1>2. CASE start'[x] = start[x]
  <2>1. PICK i \in 1 .. Len(script) : i < next /\ script[i].op = "section" /\ script[i].section = x
    BY <1>2 DEF PlacedBefore
  <2> QED  BY <1>1, <2>1
<1>3. CASE start'[x] # start[x]
  <2>1. script[next].op = "section" /\ script[next].section = x
    BY <1>3, LinkStepShape DEF LinkType
  <2> QED  BY <1>1, <2>1
<1> QED  BY <1>2, <1>3

(* No statement brings two sections of a group closer than a page.          *)
LEMMA GroupNext ==
  ASSUME NEW G \in SUBSET Section, NEW b \in Nat \ {0}, NEW n \in Nat,
         GroupAt(script, G, b, n), Once(script),
         LinkType, PlacedBefore, GroupInv(G, b, n), LinkNext, ~UNCHANGED linkVars
  PROVE  GroupInv(G, b, n)'
<1>1. /\ next \in 1 .. Len(script) /\ next' = next + 1 /\ script' = script /\ size' = size
      /\ Len(script) \in Nat /\ next \in Nat
  BY LinkStepShape, LenProperties DEF LinkType
<1>2. Page \in Nat /\ Page > 0 /\ dot \in Int /\ \A x \in Section : size[x] \in Nat /\ start[x] \in Int
  BY PageAssumption DEF LinkType
<1>3. /\ \A i \in 1 .. Len(script) :
           script[i].op = "section" /\ script[i].section \in G =>
             i \in b .. b + n /\ (i # b => script[i - 1] = Advance(Page))
      /\ \A i \in b .. b + n : i \in 1 .. Len(script) /\ script[i].op \in {"section", "advance"}
  BY DEF GroupAt
<1>4. Gap \in Nat
  BY <1>2 DEF Gap
<1>5. Gap' = IF script[next] = Advance(Page) THEN Page ELSE 0
  <2>1. next + 1 > 1 /\ next + 1 - 1 = next
    BY <1>1
  <2> QED  BY <1>1, <2>1 DEF Gap
(* Before the group nothing of it has an address.                           *)
<1>6. next <= b => \A x \in G : start[x] = -1
  <2> SUFFICES ASSUME next <= b, NEW x \in G, start[x] # -1 PROVE FALSE
    OBVIOUS
  <2>1. PICK i \in 1 .. Len(script) : i < next /\ script[i].op = "section" /\ script[i].section = x
    BY DEF PlacedBefore
  <2>2. i \in b .. b + n
    BY <1>3, <2>1
  <2> QED  BY <1>1, <2>1, <2>2
<1>7. CASE script[next].op = "section" /\ script[next].section \in G
  <2> DEFINE z == script[next].section
  <2>1. /\ start' = [start EXCEPT ![z] = dot] /\ dot' = dot + size[z] /\ z \in Section
    BY <1>7, LinkStepShape
  <2>2. next \in b .. b + n /\ (next # b => script[next - 1] = Advance(Page))
    BY <1>1, <1>3, <1>7
  <2>3. start'[z] = dot /\ \A x \in Section : x # z => start'[x] = start[x]
    BY <2>1 DEF LinkType
  <2>4. Gap' = 0
    BY <1>5, <1>7, Fields
  <2>5. \A x \in G : x # z /\ start[x] # -1 => start[x] + size[x] + Page <= dot
    <3> SUFFICES ASSUME NEW x \in G, x # z, start[x] # -1
                 PROVE  start[x] + size[x] + Page <= dot
      OBVIOUS
    <3>1. next # b /\ next > 1
      BY <1>1, <1>6, <2>2
    <3>2. Gap = Page
      BY <2>2, <3>1 DEF Gap
    <3>3. next \in b .. b + n + 1
      BY <2>2
    <3> QED  BY <3>2, <3>3 DEF GroupInv, Behind
  <2> HIDE DEF z
  <2>z. z \in G
    BY <1>7 DEF z
  <2>6. Behind(G, b, n)'
    <3> SUFFICES ASSUME NEW x \in G, start'[x] # -1
                 PROVE  start'[x] + size[x] + 0 <= dot'
      BY <1>1, <2>4 DEF Behind
    <3>1. CASE x = z
      BY <1>2, <2>1, <2>3, <3>1
    <3>2. CASE x # z
      <4>1. start'[x] = start[x] /\ start[x] + size[x] + Page <= dot
        BY <2>3, <2>5, <3>2
      <4> QED  BY <1>2, <2>1, <4>1
    <3> QED  BY <3>1, <3>2
  <2>7. Spread(G)'
    <3> SUFFICES ASSUME NEW x \in G, NEW y \in G, x # y, start'[x] # -1, start'[y] # -1
                 PROVE  \/ start'[x] + size[x] + Page <= start'[y]
                        \/ start'[y] + size[y] + Page <= start'[x]
      BY <1>1 DEF Spread
    <3>1. CASE x = z
      BY <2>3, <2>5, <3>1
    <3>2. CASE y = z
      BY <2>3, <2>5, <3>2
    <3>3. CASE x # z /\ y # z
      BY <2>3, <3>3 DEF GroupInv, Spread
    <3> QED  BY <3>1, <3>2, <3>3
  <2> QED  BY <2>6, <2>7 DEF GroupInv
<1>8. CASE ~(script[next].op = "section" /\ script[next].section \in G)
  <2>1. \A x \in G : start'[x] = start[x]
    BY <1>8, LinkStepShape DEF LinkType
  <2>2. Spread(G)'
    BY <1>1, <2>1 DEF GroupInv, Spread
  <2>3. Behind(G, b, n)'
    <3> SUFFICES ASSUME next + 1 \in b .. b + n + 1, NEW x \in G, start[x] # -1
                 PROVE  start[x] + size[x] + Gap' <= dot'
      BY <1>1, <2>1 DEF Behind
    <3>1. next \in b .. b + n
      BY <1>1, <1>6
    <3>2. start[x] + size[x] + Gap <= dot
      BY <3>1 DEF GroupInv, Behind
    <3>3. start[x] + size[x] <= dot
      BY <1>2, <1>4, <3>2
    <3>4. CASE script[next].op = "section"
      <4>1. dot' >= dot /\ dot' \in Int /\ Gap' = 0
        BY SMTT(40), <1>2, <1>5, <3>4, LinkStepShape, Fields
      <4> QED  BY <1>2, <3>3, <4>1
    <3>5. CASE script[next].op = "advance"
      <4>1. script[next].by \in Nat /\ dot' = dot + script[next].by
        BY <1>1, <3>5, LinkStepShape, StatementTypes DEF LinkType
      <4>2. script[next] = Advance(Page) => script[next].by = Page
        BY Fields
      <4> QED  BY <1>2, <1>5, <3>3, <4>1, <4>2
    <3> QED  BY <1>3, <3>1, <3>4, <3>5
  <2> QED  BY <2>2, <2>3 DEF GroupInv
<1> QED  BY <1>7, <1>8

(* Two addresses a page apart are on different pages.                       *)
LEMMA PageApart ==
  ASSUME NEW x \in Int, NEW y \in Int, x + Page <= y
  PROVE  x \div Page # y \div Page
<1>1. Page \in Nat /\ Page > 0
  BY PageAssumption
<1> SUFFICES ASSUME x \div Page = y \div Page PROVE FALSE
  OBVIOUS
<1> DEFINE a == x \div Page
           r == x % Page
           t == y % Page
<1>2. /\ a \in Int /\ r \in Int /\ t \in Int
      /\ x = Page * a + r /\ 0 <= r /\ r < Page
      /\ y = Page * a + t /\ 0 <= t /\ t < Page
  BY <1>1
<1> HIDE DEF a, r, t
<1> DEFINE z == Page * a
<1>3. z \in Int /\ x = z + r /\ y = z + t
  BY <1>1, <1>2
<1> HIDE DEF z
<1> QED  BY <1>1, <1>2, <1>3

(* Sections that are a page apart share no page.                            *)
LEMMA GroupIsApart ==
  ASSUME NEW G \in SUBSET Section, LinkType, Spread(G), NEW s \in G, NEW t \in G, s # t
  PROVE  Pages(s) \cap Pages(t) = {}
<1>1. Page \in Nat /\ \A x \in Section : size[x] \in Nat /\ start[x] \in Int
  BY PageAssumption DEF LinkType
<1>2. ASSUME NEW u \in Bytes(s), NEW v \in Bytes(t) PROVE u \div Page # v \div Page
  <2>1. /\ start[s] # -1 /\ u \in start[s] .. start[s] + size[s] - 1
        /\ start[t] # -1 /\ v \in start[t] .. start[t] + size[t] - 1
    BY DEF Bytes
  <2>2. start[s] + size[s] + Page <= start[t] \/ start[t] + size[t] + Page <= start[s]
    BY <2>1 DEF Spread
  <2>3. u \in Int /\ v \in Int /\ (u + Page <= v \/ v + Page <= u)
    BY <1>1, <2>1, <2>2
  <2> QED  BY <2>3, PageApart
<1> QED  BY <1>2 DEF Pages

(* What holds of every state of the linker that follows a script.           *)
ApartInv ==
  /\ IsScript /\ LinkType /\ PlacedBefore
  /\ \E k, d : /\ Laid(script, k, d)
              /\ GroupInv(FunGroup, 1, 2 * k) /\ GroupInv(DatGroup, 2 * k + 6, 2 * d)

(* ApartInv holds before the first statement.                               *)
LEMMA ApartInvInit ==
  ASSUME LinkInit
  PROVE  ApartInv
<1>1. IsScript /\ script \in Seq(Stmt) /\ start = [x \in Section |-> -1] /\ next = 1
  BY ScriptHolds DEF LinkInit, IsScript
<1>2. LinkType
  <2>1. Len(script) \in Nat
    BY <1>1, LenProperties
  <2>2. size \in [Section -> Nat] /\ dot \in Int
    <3>1. size \in [Section -> Sizes] /\ dot \in Starts
      BY DEF LinkInit
    <3>2. \A x \in Section : size[x] \in Nat
      BY <3>1, LayoutAssumption
    <3> QED  BY <3>1, <3>2, LayoutAssumption
  <2>3. next \in 1 .. Len(script) + 1
    BY <1>1, <2>1
  <2> QED  BY <1>1, <2>2, <2>3 DEF LinkType
<1>3. PlacedBefore
  BY <1>1 DEF PlacedBefore
<1>4. PICK k, e, d, g, p, h, q, j, U, V : Holds(script, k, e, d, g, p, h, q, j, U, V)
  BY <1>1, ScriptHolds
<1>5. Laid(script, k, d)
  BY <1>1, <1>4, ScriptLaid
<1>6. FunGroup \subseteq Section /\ DatGroup \subseteq Section
  BY DEF FunGroup, DatGroup, Section
<1>7. GroupInv(FunGroup, 1, 2 * k) /\ GroupInv(DatGroup, 2 * k + 6, 2 * d)
  BY <1>1, <1>6 DEF GroupInv, Behind, Spread
<1> QED  BY <1>1, <1>2, <1>3, <1>5, <1>7 DEF ApartInv

(* No statement breaks ApartInv.                                            *)
LEMMA ApartInvNext ==
  ASSUME ApartInv, [LinkNext]_linkVars
  PROVE  ApartInv'
<1>1. CASE UNCHANGED linkVars
  <2>1. script' = script /\ size' = size /\ dot' = dot /\ next' = next /\ start' = start
    BY <1>1 DEF linkVars
  <2>2. PICK k, d : /\ Laid(script, k, d)
                    /\ GroupInv(FunGroup, 1, 2 * k) /\ GroupInv(DatGroup, 2 * k + 6, 2 * d)
    BY DEF ApartInv
  <2>3. IsScript' /\ LinkType' /\ PlacedBefore' /\ Laid(script, k, d)'
    BY <2>1, <2>2 DEF ApartInv, IsScript, LinkType, PlacedBefore
  <2>4. Gap' = Gap
    BY <2>1 DEF Gap
  <2>5. GroupInv(FunGroup, 1, 2 * k)' /\ GroupInv(DatGroup, 2 * k + 6, 2 * d)'
    BY <2>1, <2>2, <2>4 DEF GroupInv, Behind, Spread
  <2> QED  BY <2>3, <2>5 DEF ApartInv
<1>2. CASE LinkNext /\ ~UNCHANGED linkVars
  <2>1. PICK k, d : /\ Laid(script, k, d)
                    /\ GroupInv(FunGroup, 1, 2 * k) /\ GroupInv(DatGroup, 2 * k + 6, 2 * d)
    BY DEF ApartInv
  <2>2. script' = script
    BY <1>2, LinkStepShape DEF ApartInv
  <2>3. IsScript' /\ Laid(script, k, d)'
    BY <2>1, <2>2 DEF ApartInv, IsScript
  <2>4. LinkType' /\ PlacedBefore'
    BY <1>2, LinkTypeNext, PlacedBeforeNext DEF ApartInv
  <2>5. FunGroup \subseteq Section /\ DatGroup \subseteq Section
    BY DEF FunGroup, DatGroup, Section
  <2>6. /\ k \in Nat /\ d \in Nat /\ Once(script)
        /\ GroupAt(script, FunGroup, 1, 2 * k) /\ GroupAt(script, DatGroup, 2 * k + 6, 2 * d)
    BY <2>1 DEF Laid
  <2>7. 2 * k \in Nat /\ 2 * d \in Nat /\ 2 * k + 6 \in Nat \ {0} /\ 1 \in Nat \ {0}
    BY <2>6
  <2>8. GroupInv(FunGroup, 1, 2 * k)'
    BY <1>2, <2>1, <2>5, <2>6, <2>7, GroupNext DEF ApartInv
  <2>9. GroupInv(DatGroup, 2 * k + 6, 2 * d)'
    BY <1>2, <2>1, <2>5, <2>6, <2>7, GroupNext DEF ApartInv
  <2> QED  BY <2>3, <2>4, <2>8, <2>9 DEF ApartInv
<1> QED  BY <1>1, <1>2

(* In every behaviour of LinkScript ApartInv holds.                         *)
THEOREM LinkStaysApart == LinkSpec => []ApartInv
<1>1. LinkInit => ApartInv
  BY ApartInvInit
<1>2. ApartInv /\ [LinkNext]_linkVars => ApartInv'
  BY ApartInvNext
<1> QED  BY <1>1, <1>2, PTL DEF LinkSpec

(* Two levels of functions, or of globals, never share a page: for every    *)
(* number of levels, page size, size of the sections and first address.     *)
THEOREM LevelsStayApart == LinkSpec => []LevelsApart
<1>1. ASSUME ApartInv PROVE LevelsApart
  <2>1. LinkType /\ Spread(FunGroup) /\ Spread(DatGroup)
    BY <1>1 DEF ApartInv, GroupInv
  <2>2. FunGroup \in SUBSET Section /\ DatGroup \in SUBSET Section
    BY DEF FunGroup, DatGroup, Section
  <2>3. \A G \in {FunGroup, DatGroup} : \A s, t \in G : s # t => Pages(s) \cap Pages(t) = {}
    BY <2>1, <2>2, GroupIsApart
  <2> QED  BY <2>3 DEF LevelsApart, FunGroup, DatGroup
<1>2. ApartInv => LevelsApart
  BY <1>1
<1> QED  BY <1>2, LinkStaysApart, PTL

-----------------------------------------------------------------------------
(* Where sections overlap.                                                  *)

FunLast == Fun(LeastPrivileged)
DatLast == Dat(LeastPrivileged)

Outputs(s, i, x) == s[i].op = "section" /\ s[i].section = x

(* The counter moves back only behind the last section of each group, at a  *)
(* and at c.                                                                *)
Padded(s, a, c) ==
  /\ a \in Nat /\ c \in Nat /\ 1 < a /\ a + 3 < c /\ c + 1 <= Len(s)
  /\ Outputs(s, a - 1, FunLast) /\ s[a] = PadAfter(FunLast) /\ s[a + 1] = Advance(2 * Page)
  /\ Outputs(s, a + 2, <<".fini">>)
  /\ Outputs(s, c - 1, DatLast) /\ s[c] = PadAfter(DatLast) /\ Outputs(s, c + 1, <<".data1">>)
  /\ \A i \in 1 .. Len(s) : s[i].op = "pad" => i \in {a, c}

(* The least privileged level comes last.                                   *)
LEMMA LastComesLast ==
  ASSUME NEW k \in Nat, NEW e, NEW U \in UsedSets, Ordered(e, k, U, NumLevels)
  PROVE  k # 0 /\ e[k] = LeastPrivileged
<1>1. LeastPrivileged \in U /\ LeastPrivileged < NumLevels /\ NumLevels \in Nat
      /\ LeastPrivileged = NumLevels - 1
  BY LevelShape DEF UsedSets, LeastPrivileged
<1>2. PICK i \in 1 .. k : e[i] = LeastPrivileged
  BY <1>1 DEF Ordered
<1>3. k # 0 /\ k \in 1 .. k
  BY <1>2
<1>4. e[k] \in Nat /\ e[k] < NumLevels /\ (i < k => e[i] < e[k])
  BY <1>3, LevelShape DEF Ordered
<1> QED  BY <1>1, <1>2, <1>3, <1>4

(* Every script has its pads where Padded says.                             *)
LEMMA ScriptPadded ==
  ASSUME IsScript
  PROVE  \E a, c : Padded(script, a, c)
<1>1. PICK U \in UsedSets, V \in UsedSets :
        \E k, e, d, g, p, h, q, j : Holds(script, k, e, d, g, p, h, q, j, U, V)
  BY ScriptHolds
<1>2. PICK k, e, d, g, p, h, q, j : Holds(script, k, e, d, g, p, h, q, j, U, V)
  BY <1>1
<1>3. /\ k \in Nat /\ d \in Nat /\ p \in Nat /\ q \in Nat
      /\ Ordered(e, k, U, NumLevels) /\ Ordered(g, d, V, NumLevels)
      /\ Len(script) = 2 * k + 2 * d + 8 + p + q + 2
      /\ Layout(script, k, e, d, g)
  BY <1>2 DEF Holds, Entries
<1>4. k # 0 /\ e[k] = LeastPrivileged /\ d # 0 /\ g[d] = LeastPrivileged
  BY <1>3, LastComesLast
<1> DEFINE a == 2 * k + 2
           c == 2 * k + 2 * d + 7
<1>5. /\ a \in Nat /\ c \in Nat /\ 1 < a /\ a + 3 < c /\ c + 1 <= Len(script)
      /\ k \in 1 .. k /\ d \in 1 .. d
      /\ a - 1 = 2 * k + 1 /\ a + 1 = 2 * k + 3 /\ a + 2 = 2 * k + 4
      /\ c - 1 = 2 * k + 6 + 2 * d /\ c + 1 = 2 * k + 2 * d + 8
  BY <1>3, <1>4
<1>6. /\ script[2 * k + 1] = FunOut[e[k]] /\ script[2 * k + 2] = PadAfter(Fun(LeastPrivileged))
      /\ script[2 * k + 3] = Advance(2 * Page) /\ script[2 * k + 4] = Output(<<".fini">>, Text)
      /\ script[2 * k + 6 + 2 * d] = DatOut[g[d]]
      /\ script[2 * k + 2 * d + 7] = PadAfter(Dat(LeastPrivileged))
      /\ script[2 * k + 2 * d + 8] = Output(<<".data1">>, Data)
  BY <1>3, <1>5 DEF Layout
<1>7. \A i \in 1 .. Len(script) : script[i].op = "pad" => i = 2 * k + 2 \/ i = 2 * k + 2 * d + 7
  <2> SUFFICES ASSUME NEW i \in 1 .. Len(script)
               PROVE  script[i].op # "pad" \/ i = 2 * k + 2 \/ i = 2 * k + 2 * d + 7
    OBVIOUS
  <2> QED  BY SMTT(40), <1>2, KindsOfPlaces, Fields
<1>8. /\ Outputs(script, 2 * k + 1, FunLast) /\ Outputs(script, 2 * k + 4, <<".fini">>)
      /\ Outputs(script, 2 * k + 6 + 2 * d, DatLast) /\ Outputs(script, 2 * k + 2 * d + 8, <<".data1">>)
  <2>1. FunOut[LeastPrivileged] = Output(FunLast, FunLast) /\ DatOut[LeastPrivileged] = Output(DatLast, DatLast)
    BY LevelShape, StmtShape DEF FunLast, DatLast
  <2> QED  BY <1>4, <1>6, <2>1, Fields DEF Outputs
<1>9. Padded(script, a, c)
  <2>1. /\ script[a] = PadAfter(FunLast) /\ script[c] = PadAfter(DatLast)
        /\ \A i \in 1 .. Len(script) : script[i].op = "pad" => i \in {a, c}
    BY <1>6, <1>7 DEF FunLast, DatLast
  <2> HIDE DEF a, c
  <2> QED  BY <1>5, <1>6, <1>8, <2>1 DEF Padded
<1> QED  BY <1>9

(* An address once given stays.                                             *)
LEMMA AddressStays ==
  ASSUME LinkType, Once(script), PlacedBefore, LinkNext, ~UNCHANGED linkVars, NEW x \in Section, start[x] # -1
  PROVE  /\ start'[x] = start[x]
         /\ ~Outputs(script, next, x)
<1>1. next \in 1 .. Len(script) /\ next \in Nat
  BY LinkStepShape DEF LinkType
<1>2. ~Outputs(script, next, x)
  <2>1. PICK i \in 1 .. Len(script) : i < next /\ script[i].op = "section" /\ script[i].section = x
    BY DEF PlacedBefore
  <2> QED  BY <1>1, <2>1 DEF Once, Outputs
<1> QED  BY <1>2, LinkStepShape DEF LinkType, Outputs

(* No address is negative; what the counter is around the last section of   *)
(* each group, and where the section behind it is placed.                   *)
Counter(a, c) ==
  /\ dot \in Nat /\ \A x \in Section : start[x] # -1 => start[x] \in Nat
  /\ next \in {a, a + 1, a + 2} => start[FunLast] # -1
  /\ next = a => dot = start[FunLast] + size[FunLast]
  /\ next = a + 1 => dot = start[FunLast] + Page
  /\ next = a + 2 => dot = start[FunLast] + 3 * Page
  /\ next > a + 2 => start[FunLast] # -1 /\ start[<<".fini">>] = start[FunLast] + 3 * Page
  /\ next \in {c, c + 1} => start[DatLast] # -1
  /\ next = c => dot = start[DatLast] + size[DatLast]
  /\ next = c + 1 => dot = start[DatLast] + Page
  /\ next > c + 1 => start[DatLast] # -1 /\ start[<<".data1">>] = start[DatLast] + Page

(* No statement breaks Counter.                                             *)
LEMMA CounterNext ==
  ASSUME NEW a, NEW c, Padded(script, a, c), Once(script), LinkType, PlacedBefore, Counter(a, c),
         LinkNext, ~UNCHANGED linkVars
  PROVE  Counter(a, c)'
<1>1. /\ next \in 1 .. Len(script) /\ next' = next + 1 /\ script' = script /\ size' = size
      /\ Len(script) \in Nat /\ next \in Nat /\ a \in Nat /\ c \in Nat /\ 1 < a /\ a + 3 < c
  BY LinkStepShape, LenProperties DEF LinkType, Padded
<1>2. /\ Page \in Nat /\ Page > 0 /\ 2 * Page \in Nat /\ dot \in Nat
      /\ \A x \in Section : size[x] \in Nat /\ start[x] \in Int
      /\ \A x \in Section : start[x] # -1 => start[x] \in Nat
  BY PageAssumption DEF LinkType, Counter
<1>3. FunLast \in Section /\ DatLast \in Section /\ <<".fini">> \in Section /\ <<".data1">> \in Section
  BY LevelShape DEF FunLast, DatLast, Section, FunSection, DatSection
<1>4. \A x \in Section : start[x] # -1 => start'[x] = start[x]
  BY AddressStays
<1>5. \A x \in Section : Outputs(script, next, x) => start'[x] = dot /\ dot' = dot + size[x]
  BY LinkStepShape DEF Outputs, LinkType
<1>6. /\ next = a - 1 => Outputs(script, next, FunLast)
      /\ next = a => script[next].op = "pad" /\ script[next].section = FunLast
      /\ next = a + 1 => script[next].op = "advance" /\ script[next].by = 2 * Page
      /\ next = a + 2 => Outputs(script, next, <<".fini">>)
      /\ next = c - 1 => Outputs(script, next, DatLast)
      /\ next = c => script[next].op = "pad" /\ script[next].section = DatLast
      /\ next = c + 1 => Outputs(script, next, <<".data1">>)
  BY Fields DEF Padded
<1>7. next = a => dot' = start[FunLast] + Page /\ start[FunLast] \in Nat
  <2> SUFFICES ASSUME next = a PROVE dot' = start[FunLast] + Page /\ start[FunLast] \in Nat
    OBVIOUS
  <2>1. dot' = dot + Page - size[FunLast]
    BY <1>6, LinkStepShape
  <2>2. dot = start[FunLast] + size[FunLast] /\ start[FunLast] \in Nat /\ size[FunLast] \in Nat
    BY <1>2, <1>3 DEF Counter
  <2> QED  BY <1>2, <2>1, <2>2
<1>8. next = c => dot' = start[DatLast] + Page /\ start[DatLast] \in Nat
  <2> SUFFICES ASSUME next = c PROVE dot' = start[DatLast] + Page /\ start[DatLast] \in Nat
    OBVIOUS
  <2>1. dot' = dot + Page - size[DatLast]
    BY <1>6, LinkStepShape
  <2>2. dot = start[DatLast] + size[DatLast] /\ start[DatLast] \in Nat /\ size[DatLast] \in Nat
    BY <1>2, <1>3 DEF Counter
  <2> QED  BY <1>2, <2>1, <2>2
<1>9. dot' \in Nat
  <2>1. CASE script[next].op = "advance"
    <3>1. script[next].by \in Nat
      BY <1>1, <2>1, StatementTypes DEF LinkType
    <3> QED  BY <1>2, <2>1, <3>1, LinkStepShape
  <2>2. CASE script[next].op = "section"
    BY <1>2, <2>2, LinkStepShape
  <2>3. CASE script[next].op = "pad"
    <3>1. next = a \/ next = c
      BY <1>1, <2>3 DEF Padded
    <3> QED  BY <1>2, <1>7, <1>8, <3>1
  <2>4. CASE script[next].op = "align"
    BY <1>2, <2>4, LinkStepShape, AlignUp
  <2>5. CASE script[next].op = "phdr"
    BY <1>2, <2>5, LinkStepShape
  <2> QED  BY <2>1, <2>2, <2>3, <2>4, <2>5, LinkStepShape
<1>10. \A x \in Section : start'[x] # -1 => start'[x] \in Nat
  <2>1. \A x \in Section : start'[x] \in {start[x], dot}
    BY LinkStepShape DEF LinkType
  <2> QED  BY <1>2, <2>1
<1>11. next = a - 1 => start'[FunLast] # -1 /\ dot' = start'[FunLast] + size[FunLast]
  BY <1>2, <1>3, <1>5, <1>6
<1>12. next = c - 1 => start'[DatLast] # -1 /\ dot' = start'[DatLast] + size[DatLast]
  BY <1>2, <1>3, <1>5, <1>6
<1>13. next \in {a, a + 1, a + 2} => start[FunLast] # -1 /\ start'[FunLast] = start[FunLast]
  BY <1>3, <1>4 DEF Counter
<1>14. next \in {c, c + 1} => start[DatLast] # -1 /\ start'[DatLast] = start[DatLast]
  BY <1>3, <1>4 DEF Counter
<1>15. next = a + 1 => dot' = start[FunLast] + 3 * Page
  <2> SUFFICES ASSUME next = a + 1 PROVE dot' = start[FunLast] + 3 * Page
    OBVIOUS
  <2>1. dot' = dot + 2 * Page /\ dot = start[FunLast] + Page
    BY <1>6, LinkStepShape DEF Counter
  <2> QED  BY <1>2, <1>3, <2>1
<1>16. next = a + 2 => start'[<<".fini">>] = start[FunLast] + 3 * Page
  BY <1>3, <1>5, <1>6 DEF Counter
<1>17. next = c + 1 => start'[<<".data1">>] = start[DatLast] + Page
  BY <1>3, <1>5, <1>6 DEF Counter
<1>18. next > a + 2 =>
         /\ start'[FunLast] # -1 /\ start'[<<".fini">>] = start'[FunLast] + 3 * Page
  <2> SUFFICES ASSUME next > a + 2
               PROVE  /\ start'[FunLast] # -1 /\ start'[<<".fini">>] = start'[FunLast] + 3 * Page
    OBVIOUS
  <2>1. start[FunLast] # -1 /\ start[<<".fini">>] = start[FunLast] + 3 * Page
    BY DEF Counter
  <2>2. start[FunLast] \in Nat /\ start[<<".fini">>] # -1
    BY <1>2, <1>3, <2>1
  <2> QED  BY <1>3, <1>4, <2>1, <2>2
<1>19. next > c + 1 =>
         /\ start'[DatLast] # -1 /\ start'[<<".data1">>] = start'[DatLast] + Page
  <2> SUFFICES ASSUME next > c + 1
               PROVE  /\ start'[DatLast] # -1 /\ start'[<<".data1">>] = start'[DatLast] + Page
    OBVIOUS
  <2>1. start[DatLast] # -1 /\ start[<<".data1">>] = start[DatLast] + Page
    BY DEF Counter
  <2>2. start[DatLast] \in Nat /\ start[<<".data1">>] # -1
    BY <1>2, <1>3, <2>1
  <2> QED  BY <1>3, <1>4, <2>1, <2>2
<1>20. /\ next + 1 = a => next = a - 1
       /\ next + 1 = a + 1 => next = a
       /\ next + 1 = a + 2 => next = a + 1
       /\ next + 1 > a + 2 => next = a + 2 \/ next > a + 2
       /\ next + 1 = c => next = c - 1
       /\ next + 1 = c + 1 => next = c
       /\ next + 1 > c + 1 => next = c + 1 \/ next > c + 1
  BY <1>1
<1>21. next + 1 \in {a, a + 1, a + 2} => start'[FunLast] # -1
  BY <1>11, <1>13, <1>20
<1>22. next + 1 \in {c, c + 1} => start'[DatLast] # -1
  BY <1>12, <1>14, <1>20
<1>23. /\ next + 1 = a => dot' = start'[FunLast] + size[FunLast]
       /\ next + 1 = a + 1 => dot' = start'[FunLast] + Page
       /\ next + 1 = a + 2 => dot' = start'[FunLast] + 3 * Page
       /\ next + 1 = c => dot' = start'[DatLast] + size[DatLast]
       /\ next + 1 = c + 1 => dot' = start'[DatLast] + Page
  BY <1>7, <1>8, <1>11, <1>12, <1>13, <1>14, <1>15, <1>20
<1>24. /\ next + 1 > a + 2 => start'[FunLast] # -1 /\ start'[<<".fini">>] = start'[FunLast] + 3 * Page
       /\ next + 1 > c + 1 => start'[DatLast] # -1 /\ start'[<<".data1">>] = start'[DatLast] + Page
  BY <1>13, <1>14, <1>16, <1>17, <1>18, <1>19, <1>20
<1> QED  BY <1>1, <1>9, <1>10, <1>21, <1>22, <1>23, <1>24 DEF Counter, FunLast, DatLast

(* Neither last section exceeds the fixed gaps in front of what follows.    *)
Small == size[FunLast] <= 3 * Page /\ size[DatLast] <= Page

(* Until the fixed gap of two pages is passed the counter may be that much  *)
(* before the end of what is placed.                                        *)
Slack(a) == IF next = a + 1 THEN 2 * Page ELSE 0

(* If both are small, what is placed is in order, and the counter is behind *)
(* it but for the slack.                                                    *)
InOrder(a, c) ==
  Small =>
    /\ \A x \in Section : start[x] # -1 => start[x] + size[x] <= dot + Slack(a)
    /\ next \in {a, c} => \A x \in Section :
         start[x] # -1 /\ x # script[next].section =>
           start[x] + size[x] <= start[script[next].section]
    /\ \A x, y \in Section : x # y /\ start[x] # -1 /\ start[y] # -1 =>
         start[x] + size[x] <= start[y] \/ start[y] + size[y] <= start[x]

(* No statement breaks InOrder.                                             *)
LEMMA InOrderNext ==
  ASSUME NEW a, NEW c, Padded(script, a, c), Once(script), LinkType, PlacedBefore, Counter(a, c),
         InOrder(a, c), LinkNext, ~UNCHANGED linkVars
  PROVE  InOrder(a, c)'
<1>1. /\ next \in 1 .. Len(script) /\ next' = next + 1 /\ script' = script /\ size' = size
      /\ Len(script) \in Nat /\ next \in Nat /\ a \in Nat /\ c \in Nat /\ 1 < a /\ a + 3 < c
      /\ c + 1 <= Len(script)
  BY LinkStepShape, LenProperties DEF LinkType, Padded
<1>2. /\ Page \in Nat /\ Page > 0 /\ 2 * Page \in Nat /\ dot \in Nat
      /\ \A x \in Section : size[x] \in Nat /\ start[x] \in Int
  BY PageAssumption DEF LinkType, Counter
<1>3. FunLast \in Section /\ DatLast \in Section
  BY LevelShape DEF FunLast, DatLast, Section, FunSection, DatSection
<1>4. SUFFICES ASSUME Small
      PROVE  /\ \A x \in Section : start'[x] # -1 => start'[x] + size[x] <= dot' + Slack(a)'
             /\ next + 1 \in {a, c} => \A x \in Section :
                  start'[x] # -1 /\ x # script[next + 1].section =>
                    start'[x] + size[x] <= start'[script[next + 1].section]
             /\ \A x, y \in Section : x # y /\ start'[x] # -1 /\ start'[y] # -1 =>
                  start'[x] + size[x] <= start'[y] \/ start'[y] + size[y] <= start'[x]
  BY <1>1 DEF InOrder, Small, FunLast, DatLast
<1>5. Slack(a) \in Nat /\ Slack(a)' \in Nat /\ Slack(a)' = IF next = a THEN 2 * Page ELSE 0
  <2>1. next + 1 = a + 1 <=> next = a
    BY <1>1
  <2> QED  BY <1>1, <1>2, <2>1 DEF Slack
<1>6. \A x \in Section : start[x] # -1 => start[x] + size[x] <= dot + Slack(a)
  BY <1>4 DEF InOrder
<1>7. \A x, y \in Section : x # y /\ start[x] # -1 /\ start[y] # -1 =>
        start[x] + size[x] <= start[y] \/ start[y] + size[y] <= start[x]
  BY <1>4 DEF InOrder
<1>8. /\ next = a + 1 => script[next].op = "advance" /\ script[next].by = 2 * Page
      /\ next = a => script[next].op = "pad" /\ script[next].section = FunLast
      /\ next = c => script[next].op = "pad" /\ script[next].section = DatLast
      /\ script[next].op = "pad" => next \in {a, c}
      /\ next + 1 = a => Outputs(script, next, FunLast)
      /\ next + 1 = c => Outputs(script, next, DatLast)
      /\ next + 1 = a => script[next + 1].section = FunLast
      /\ next + 1 = c => script[next + 1].section = DatLast
  <2>1. (next + 1 = a => next = a - 1) /\ (next + 1 = c => next = c - 1)
    BY <1>1
  <2>2. /\ script[a] = PadAfter(FunLast) /\ script[a + 1] = Advance(2 * Page) /\ script[c] = PadAfter(DatLast)
        /\ \A i \in 1 .. Len(script) : script[i].op = "pad" => i \in {a, c}
    BY DEF Padded
  <2>3. /\ next = a + 1 => script[next].op = "advance" /\ script[next].by = 2 * Page
        /\ next = a => script[next].op = "pad" /\ script[next].section = FunLast
        /\ next = c => script[next].op = "pad" /\ script[next].section = DatLast
        /\ script[next].op = "pad" => next \in {a, c}
    BY <1>1, <2>2, Fields
  <2>4. /\ Outputs(script, a - 1, FunLast) /\ Outputs(script, c - 1, DatLast)
        /\ script[a].section = FunLast /\ script[c].section = DatLast
    BY <2>2, Fields DEF Padded
  <2> QED  BY <2>1, <2>3, <2>4
<1>9. CASE script[next].op = "section"
  <2> DEFINE z == script[next].section
  <2>1. start' = [start EXCEPT ![z] = dot] /\ dot' = dot + size[z] /\ z \in Section
    BY <1>9, LinkStepShape
  <2>2. start'[z] = dot /\ \A x \in Section : x # z => start'[x] = start[x]
    BY <2>1 DEF LinkType
  <2>3. Slack(a) = 0 /\ (next + 1 = a => z = FunLast) /\ (next + 1 = c => z = DatLast)
    BY <1>8, <1>9 DEF Slack, Outputs
  <2>4. next + 1 \in {a, c} => script[next + 1].section = z
    BY <1>8, <2>3
  <2> HIDE DEF z
  <2>5. \A x \in Section : x # z /\ start[x] # -1 => start[x] + size[x] <= dot
    BY <1>2, <1>6, <2>3
  <2>6. \A x \in Section : start'[x] # -1 => start'[x] + size[x] <= dot' + Slack(a)'
    <3> SUFFICES ASSUME NEW x \in Section, start'[x] # -1
                 PROVE  start'[x] + size[x] <= dot' + Slack(a)'
      OBVIOUS
    <3>1. CASE x = z
      BY <1>2, <1>5, <2>1, <2>2, <3>1
    <3>2. CASE x # z
      <4>1. start'[x] = start[x] /\ start[x] + size[x] <= dot
        BY <2>2, <2>5, <3>2
      <4> QED  BY <1>2, <1>5, <2>1, <4>1
    <3> QED  BY <3>1, <3>2
  <2>7. \A x \in Section : start'[x] # -1 /\ x # z => start'[x] + size[x] <= start'[z]
    BY <2>2, <2>5
  <2>8. \A x, y \in Section : x # y /\ start'[x] # -1 /\ start'[y] # -1 =>
          start'[x] + size[x] <= start'[y] \/ start'[y] + size[y] <= start'[x]
    <3> SUFFICES ASSUME NEW x \in Section, NEW y \in Section, x # y, start'[x] # -1, start'[y] # -1
                 PROVE  start'[x] + size[x] <= start'[y] \/ start'[y] + size[y] <= start'[x]
      OBVIOUS
    <3>1. CASE x = z
      BY <2>7, <3>1
    <3>2. CASE y = z
      BY <2>7, <3>2
    <3>3. CASE x # z /\ y # z
      BY <1>7, <2>2, <3>3
    <3> QED  BY <3>1, <3>2, <3>3
  <2> QED  BY <2>4, <2>6, <2>7, <2>8
<1>10. CASE script[next].op # "section"
  <2>1. start' = start
    BY <1>10, LinkStepShape
  <2>2. next + 1 \notin {a, c}
    BY <1>8, <1>10 DEF Outputs
  <2>3. ASSUME NEW x \in Section, start[x] # -1
        PROVE  start[x] + size[x] <= dot' + Slack(a)'
    <3>1. start[x] \in Int /\ size[x] \in Nat /\ start[x] + size[x] <= dot + Slack(a)
      BY <1>2, <1>6, <2>3
    <3>2. CASE script[next].op = "advance"
      <4>1. script[next].by \in Nat /\ dot' = dot + script[next].by /\ next # a
        BY <1>1, <1>8, <3>2, LinkStepShape, StatementTypes DEF LinkType
      <4>2. Slack(a) <= script[next].by
        BY <1>2, <1>8, <4>1 DEF Slack
      <4> QED  BY <1>2, <1>5, <3>1, <4>1, <4>2
    <3>3. CASE script[next].op = "pad"
      <4> DEFINE t == script[next].section
      <4>1. next \in {a, c} /\ dot' = dot + Page - size[t]
        BY <1>8, <3>3, LinkStepShape
      <4>2. t \in Section /\ dot = start[t] + size[t] /\ start[t] \in Int /\ size[t] \in Nat
        BY <1>2, <1>3, <1>8, <4>1 DEF Counter
      <4>3. size[t] <= Page + Slack(a)'
        <5>1. a # c
          BY <1>1
        <5>2. CASE next = a
          <6>1. t = FunLast /\ Slack(a)' = 2 * Page
            BY <1>5, <1>8, <5>2
          <6> QED  BY <1>2, <1>3, <1>4, <6>1 DEF Small
        <5>3. CASE next = c
          <6>1. t = DatLast /\ Slack(a)' = 0
            BY <1>5, <1>8, <5>1, <5>3
          <6> QED  BY <1>2, <1>3, <1>4, <6>1 DEF Small
        <5> QED  BY <4>1, <5>2, <5>3
      <4>4. x # t => start[x] + size[x] <= start[t]
        BY <1>4, <2>3, <4>1 DEF InOrder
      <4> HIDE DEF t
      <4>5. dot' = start[t] + Page
        BY <1>2, <4>1, <4>2
      <4>6. CASE x = t
        BY <1>2, <1>5, <4>2, <4>3, <4>5, <4>6
      <4>7. CASE x # t
        BY <1>2, <1>5, <3>1, <4>2, <4>4, <4>5, <4>7
      <4> QED  BY <4>6, <4>7
    <3>4. CASE script[next].op \in {"align", "phdr"}
      <4>1. Slack(a) = 0
        BY <1>8, <3>4 DEF Slack
      <4>2. dot' >= dot /\ dot' \in Int
        BY <1>2, <3>4, LinkStepShape, AlignUp
      <4> QED  BY <1>2, <1>5, <3>1, <4>1, <4>2
    <3> QED  BY <1>10, <3>2, <3>3, <3>4, LinkStepShape
  <2> QED  BY <1>7, <2>1, <2>2, <2>3
<1> QED  BY <1>9, <1>10

OrderInv == \E a, c : Padded(script, a, c) /\ Counter(a, c) /\ InOrder(a, c)

(* OrderInv holds before the first statement.                               *)
LEMMA OrderInvInit ==
  ASSUME LinkInit
  PROVE  OrderInv
<1>1. IsScript /\ start = [x \in Section |-> -1] /\ next = 1
  BY DEF LinkInit, IsScript
<1>2. PICK a, c : Padded(script, a, c)
  BY <1>1, ScriptPadded
<1>3. /\ a \in Nat /\ c \in Nat /\ 1 < a /\ a + 3 < c
  BY <1>2 DEF Padded
<1>4. dot \in Nat
  BY LayoutAssumption DEF LinkInit
<1>5. \A x \in Section : start[x] = -1
  BY <1>1
<1>6. Counter(a, c)
  BY <1>1, <1>3, <1>4, <1>5 DEF Counter
<1>7. InOrder(a, c)
  BY <1>5 DEF InOrder
<1> QED  BY <1>2, <1>6, <1>7 DEF OrderInv

(* No statement breaks OrderInv.                                            *)
LEMMA OrderInvNext ==
  ASSUME ApartInv, OrderInv, [LinkNext]_linkVars
  PROVE  OrderInv'
<1>1. PICK a, c : Padded(script, a, c) /\ Counter(a, c) /\ InOrder(a, c)
  BY DEF OrderInv
<1>2. CASE UNCHANGED linkVars
  <2>1. script' = script /\ size' = size /\ dot' = dot /\ next' = next /\ start' = start
    BY <1>2 DEF linkVars
  <2>2. Padded(script, a, c)' /\ Counter(a, c)'
    BY <1>1, <2>1 DEF Counter, FunLast, DatLast
  <2>3. InOrder(a, c)'
    BY <1>1, <2>1 DEF InOrder, Small, Slack, FunLast, DatLast
  <2> QED  BY <2>2, <2>3 DEF OrderInv
<1>3. CASE LinkNext /\ ~UNCHANGED linkVars
  <2>1. LinkType /\ PlacedBefore /\ Once(script)
    BY DEF ApartInv, Laid
  <2>2. script' = script
    BY <1>3, <2>1, LinkStepShape
  <2>3. Padded(script, a, c)'
    BY <1>1, <2>2
  <2>4. Counter(a, c)' /\ InOrder(a, c)'
    BY <1>1, <1>3, <2>1, CounterNext, InOrderNext
  <2> QED  BY <2>3, <2>4 DEF OrderInv
<1> QED  BY <1>2, <1>3

(* Once everything is placed two sections overlap exactly if the functions  *)
(* of the least privileged level exceed three pages or its globals one: for *)
(* every number of levels, page size, size of the sections of the levels    *)
(* and first address.                                                       *)
THEOREM OverlapsIfTooLarge == LinkSpec => []OverlapIfLastTooLarge
<1> DEFINE Byte == size[<<".fini">>] = 1 /\ size[<<".data1">>] = 1
<1>1. LinkInit => ApartInv /\ OrderInv /\ Byte
  BY ApartInvInit, OrderInvInit DEF LinkInit
<1>2. ApartInv /\ OrderInv /\ Byte /\ [LinkNext]_linkVars => (ApartInv /\ OrderInv /\ Byte)'
  <2>1. [LinkNext]_linkVars => size' = size
    BY DEF LinkNext, AdvanceDot, PlaceSection, PadDot, AlignData, DeclareSegment, LinkEnded, Step, linkVars
  <2> QED  BY <2>1, ApartInvNext, OrderInvNext
<1>3. ASSUME ApartInv, OrderInv, Byte PROVE OverlapIfLastTooLarge
  <2> SUFFICES ASSUME Linked
               PROVE  Overlap <=> \/ size[FunLast] > 3 * Page \/ size[DatLast] > Page
    BY DEF OverlapIfLastTooLarge, FunLast, DatLast
  <2>1. PICK a, c : Padded(script, a, c) /\ Counter(a, c) /\ InOrder(a, c)
    BY <1>3 DEF OrderInv
  <2>2. /\ Page \in Nat /\ Page > 0 /\ \A x \in Section : size[x] \in Nat /\ start[x] \in Int
        /\ \A x \in Section : start[x] # -1 => start[x] \in Nat
    BY <1>3, <2>1, PageAssumption DEF ApartInv, LinkType, Counter
  <2>3. /\ FunLast \in Section /\ DatLast \in Section /\ <<".fini">> \in Section /\ <<".data1">> \in Section
        /\ FunLast # <<".fini">> /\ DatLast # <<".data1">>
    BY LevelShape, Names DEF FunLast, DatLast, Section, FunSection, DatSection
  <2>4. /\ start[FunLast] # -1 /\ start[<<".fini">>] = start[FunLast] + 3 * Page
        /\ start[DatLast] # -1 /\ start[<<".data1">>] = start[DatLast] + Page
    <3>1. next > a + 2 /\ next > c + 1
      <4>1. script \in Seq(Stmt) /\ next \in 1 .. Len(script) + 1 /\ Len(script) \in Nat
        BY <1>3, LenProperties DEF ApartInv, LinkType
      <4> QED  BY <2>1, <4>1 DEF Linked, Padded
    <3> QED  BY <2>1, <3>1 DEF Counter
  <2>5. ASSUME size[FunLast] > 3 * Page PROVE Overlap
    <3> DEFINE b == start[FunLast] + 3 * Page
    <3>1. b \in Bytes(FunLast)
      BY <2>2, <2>3, <2>4, <2>5 DEF Bytes
    <3>2. b \in Bytes(<<".fini">>)
      BY <1>3, <2>2, <2>3, <2>4 DEF Bytes
    <3> QED  BY <2>3, <3>1, <3>2 DEF Overlap
  <2>6. ASSUME size[DatLast] > Page PROVE Overlap
    <3> DEFINE b == start[DatLast] + Page
    <3>1. b \in Bytes(DatLast)
      BY <2>2, <2>3, <2>4, <2>6 DEF Bytes
    <3>2. b \in Bytes(<<".data1">>)
      BY <1>3, <2>2, <2>3, <2>4 DEF Bytes
    <3> QED  BY <2>3, <3>1, <3>2 DEF Overlap
  <2>7. ASSUME ~(size[FunLast] > 3 * Page), ~(size[DatLast] > Page) PROVE ~Overlap
    <3>1. Small
      BY <2>2, <2>3, <2>7 DEF Small
    <3>2. \A x, y \in Section : x # y /\ start[x] # -1 /\ start[y] # -1 =>
            start[x] + size[x] <= start[y] \/ start[y] + size[y] <= start[x]
      BY <2>1, <3>1 DEF InOrder
    <3>3. ASSUME NEW x \in Section, NEW y \in Section, x # y, NEW b \in Bytes(x), b \in Bytes(y)
          PROVE  FALSE
      <4>1. /\ start[x] # -1 /\ b \in start[x] .. start[x] + size[x] - 1
            /\ start[y] # -1 /\ b \in start[y] .. start[y] + size[y] - 1
        BY <3>3 DEF Bytes
      <4> QED  BY <2>2, <3>2, <3>3, <4>1
    <3> QED  BY <3>3 DEF Overlap
  <2> QED  BY <2>5, <2>6, <2>7
<1>4. ApartInv /\ OrderInv /\ Byte => OverlapIfLastTooLarge
  BY <1>3
<1> HIDE DEF Byte
<1> QED  BY <1>1, <1>2, <1>4, PTL DEF LinkSpec
=============================================================================
