----------------------- MODULE SectionPlacementProofs -----------------------
(***************************************************************************)
(* Theorems about SectionPlacement, for every number of levels, set of     *)
(* names and family of well-named modules.                                 *)
(***************************************************************************)
EXTENDS SectionPlacement, SequenceTheorems, TLAPS

-----------------------------------------------------------------------------
(* The lists of values.                                                     *)

Originals(list) == [i \in DOMAIN list |-> Original(list[i])]

(* The list holds, each name once, the originals of A and the copies of C.  *)
Holds(list, A, C) ==
  /\ IsInjective(NamesOf(list))
  /\ Range(list) = { Original(n) : n \in A } \cup { Copy(n) : n \in C }

(* The names of a list before position p, and those that have a level.      *)
Seen(list, p) == { n \in Range(list) : \E i \in DOMAIN list : i < p /\ list[i] = n }
Ranked(S, given) == { n \in S : given[n] \in Level }

(* Originals and copies are different values, and each has its name.        *)
LEMMA Values ==
  /\ \A n : Original(n)[1] = n /\ Copy(n)[1] = n
  /\ \A n : Original(n)[2] = "original" /\ Copy(n)[2] = "copy"
  /\ \A n \in Name : Original(n) \in Value /\ Copy(n) \in Value
  /\ \A n, k : Original(n) # Copy(k)
  /\ \A n, k : Original(n) = Original(k) => n = k
  /\ \A n, k : Copy(n) = Copy(k) => n = k
  /\ \A v \in Value : v[1] \in Name /\ (v = Original(v[1]) \/ v = Copy(v[1]))
  /\ Zapped \notin Value
  BY DEF Original, Copy, Value, Zapped

(* The domain and the elements of a sequence.                               *)
LEMMA SeqShape ==
  ASSUME NEW S, NEW s \in Seq(S)
  PROVE  /\ Len(s) \in Nat /\ DOMAIN s = 1 .. Len(s)
         /\ \A i \in DOMAIN s : s[i] \in S
         /\ Range(s) \subseteq S
  BY DEF Range

LEMMA OriginalsHold ==
  ASSUME NEW list \in Seq(Name), IsInjective(list)
  PROVE  /\ Originals(list) \in Seq(Value)
         /\ Holds(Originals(list), Range(list), {})
         /\ DOMAIN Originals(list) = DOMAIN list
<1>1. /\ DOMAIN list = 1 .. Len(list) /\ Len(list) \in Nat
      /\ \A i \in DOMAIN list : list[i] \in Name
  BY SeqShape
<1>2. Originals(list) \in Seq(Value)
  BY <1>1, Values DEF Originals
<1>3. IsInjective(NamesOf(Originals(list)))
  BY <1>1, Values DEF Originals, NamesOf, IsInjective
<1>4. Range(Originals(list)) = { Original(n) : n \in Range(list) } \cup { Copy(n) : n \in {} }
  BY <1>1 DEF Originals, Range
<1> QED  BY <1>2, <1>3, <1>4 DEF Holds, Originals

(* The list of values whose names are all different, as RemoveFirst and     *)
(* Append leave it.                                                         *)
LEMMA RemoveFirstOnce ==
  ASSUME NEW S, NEW s \in Seq(S), NEW k \in DOMAIN s, IsInjective(s)
  PROVE  RemoveFirst(s, s[k]) = RemoveAt(s, k)
<1> DEFINE e == s[k]
<1>0. DOMAIN s = 1 .. Len(s)
  OBVIOUS
<1>1. {i \in 1 .. Len(s) : s[i] = e} = {k}
  BY <1>0 DEF IsInjective
<1>2. Min({k}) = k
  BY <1>0 DEF Min
<1>3. SelectInSeq(s, LAMBDA v : v = e) = k
  BY <1>1, <1>2 DEF SelectInSeq
<1> HIDE DEF e
<1>4. \E i \in 1 .. Len(s) : s[i] = e
  BY <1>0 DEF e
<1>5. RemoveFirst(s, e) = RemoveAt(s, k)
  BY <1>3, <1>4 DEF RemoveFirst
<1> QED  BY <1>5 DEF e

LEMMA RemoveAtShape ==
  ASSUME NEW S, NEW s \in Seq(S), NEW k \in DOMAIN s
  PROVE  /\ RemoveAt(s, k) \in Seq(S)
         /\ Len(RemoveAt(s, k)) = Len(s) - 1
         /\ \A i \in 1 .. Len(s) - 1 : RemoveAt(s, k)[i] = IF i < k THEN s[i] ELSE s[i + 1]
<1>1. Len(s) \in Nat /\ k \in 1 .. Len(s) /\ \A i \in 1 .. Len(s) : s[i] \in S
  BY SeqShape
<1> DEFINE a == SubSeq(s, 1, k - 1)
           b == SubSeq(s, k + 1, Len(s))
<1>2. /\ a \in Seq(S) /\ Len(a) = k - 1
      /\ \A i \in 1 .. k - 1 : a[i] = s[i]
  BY <1>1, SubSeqProperties
<1>3. /\ b \in Seq(S) /\ Len(b) = Len(s) - k
      /\ \A i \in 1 .. Len(s) - k : b[i] = s[i + k]
  BY <1>1, SubSeqProperties
<1> HIDE DEF a, b
<1>4. /\ a \o b \in Seq(S)
      /\ Len(a \o b) = (k - 1) + (Len(s) - k)
      /\ \A i \in 1 .. (k - 1) + (Len(s) - k) :
           (a \o b)[i] = IF i <= k - 1 THEN a[i] ELSE b[i - (k - 1)]
  <2>1. /\ a \o b \in Seq(S)
        /\ Len(a \o b) = Len(a) + Len(b)
        /\ \A i \in 1 .. Len(a) + Len(b) :
             (a \o b)[i] = IF i <= Len(a) THEN a[i] ELSE b[i - Len(a)]
    BY <1>2, <1>3, ConcatProperties
  <2> QED  BY <1>2, <1>3, <2>1
<1>5. \A i \in 1 .. Len(s) - 1 : (a \o b)[i] = IF i < k THEN s[i] ELSE s[i + 1]
  <2> SUFFICES ASSUME NEW i \in 1 .. Len(s) - 1
               PROVE  (a \o b)[i] = IF i < k THEN s[i] ELSE s[i + 1]
    OBVIOUS
  <2>1. i \in 1 .. (k - 1) + (Len(s) - k)
    BY <1>1
  <2>2. CASE i < k
    BY <1>1, <1>2, <1>4, <2>1, <2>2
  <2>3. CASE ~(i < k)
    <3>1. i - (k - 1) \in 1 .. Len(s) - k /\ i - (k - 1) + k = i + 1 /\ ~(i <= k - 1)
      BY <1>1, <2>3
    <3>2. (a \o b)[i] = b[i - (k - 1)]
      BY <1>4, <2>1, <3>1
    <3> QED  BY <1>3, <2>3, <3>1, <3>2
  <2> QED  BY <2>2, <2>3
<1>6. (k - 1) + (Len(s) - k) = Len(s) - 1
  BY <1>1
<1> QED  BY <1>4, <1>5, <1>6 DEF RemoveAt, a, b

LEMMA HoldsErased ==
  ASSUME NEW list \in Seq(Value), NEW A \in SUBSET Name, NEW C \in SUBSET Name,
         NEW n \in A, Holds(list, A, C)
  PROVE  /\ RemoveFirst(list, Original(n)) \in Seq(Value)
         /\ Holds(RemoveFirst(list, Original(n)), A \ {n}, C)
         /\ Range(RemoveFirst(list, Original(n))) = Range(list) \ {Original(n)}
<1>1. DOMAIN list = 1 .. Len(list) /\ Len(list) \in Nat
  BY SeqShape
<1>2. PICK k \in DOMAIN list : list[k] = Original(n)
  BY DEF Holds, Range
<1>3. IsInjective(list)
  BY DEF Holds, NamesOf, IsInjective
<1> DEFINE r == RemoveAt(list, k)
<1>4. RemoveFirst(list, Original(n)) = r
  BY <1>2, <1>3, RemoveFirstOnce
<1>5. /\ r \in Seq(Value) /\ Len(r) = Len(list) - 1
      /\ \A i \in 1 .. Len(list) - 1 : r[i] = IF i < k THEN list[i] ELSE list[i + 1]
  BY RemoveAtShape
<1> HIDE DEF r
<1>6. DOMAIN r = 1 .. Len(list) - 1
  BY <1>5, SeqShape
<1>7. IsInjective(NamesOf(r))
  <2> SUFFICES ASSUME NEW i \in DOMAIN r, NEW j \in DOMAIN r, r[i][1] = r[j][1]
               PROVE  i = j
    BY DEF NamesOf, IsInjective
  <2>1. \A x, y \in DOMAIN list : list[x][1] = list[y][1] => x = y
    BY DEF Holds, NamesOf, IsInjective
  <2> DEFINE at(x) == IF x < k THEN x ELSE x + 1
  <2>2. \A x \in DOMAIN r : at(x) \in DOMAIN list /\ r[x] = list[at(x)]
    BY <1>1, <1>5, <1>6
  <2>3. at(i) = at(j)
    BY <2>1, <2>2
  <2> QED  BY <1>1, <1>6, <2>3
<1>8. Range(r) = Range(list) \ {Original(n)}
  <2>1. ASSUME NEW i \in DOMAIN r PROVE r[i] \in Range(list) \ {Original(n)}
    <3>1. CASE i < k
      BY <1>1, <1>2, <1>3, <1>5, <1>6, <3>1 DEF Range, IsInjective
    <3>2. CASE ~(i < k)
      BY SMTT(40), <1>1, <1>2, <1>3, <1>5, <1>6, <3>2 DEF Range, IsInjective
    <3> QED  BY <3>1, <3>2
  <2>2. ASSUME NEW i \in DOMAIN list, i # k PROVE list[i] \in Range(r)
    <3>1. CASE i < k
      BY <1>1, <1>5, <1>6, <3>1 DEF Range
    <3>2. CASE ~(i < k)
      <4>1. i - 1 \in DOMAIN r /\ ~(i - 1 < k) /\ i - 1 + 1 = i
        BY <1>1, <1>6, <2>2, <3>2
      <4> QED  BY <1>5, <1>6, <4>1 DEF Range
    <3> QED  BY <3>1, <3>2
  <2> QED  BY <1>2, <2>1, <2>2 DEF Range
<1>9. Range(r) = { Original(x) : x \in A \ {n} } \cup { Copy(x) : x \in C }
  BY <1>8, Values DEF Holds
<1> QED  BY <1>4, <1>5, <1>7, <1>8, <1>9 DEF Holds

LEMMA HoldsInserted ==
  ASSUME NEW list \in Seq(Value), NEW A \in SUBSET Name, NEW C \in SUBSET Name,
         NEW n \in Name \ (A \cup C), Holds(list, A, C)
  PROVE  /\ Append(list, Copy(n)) \in Seq(Value)
         /\ Holds(Append(list, Copy(n)), A, C \cup {n})
<1>1. DOMAIN list = 1 .. Len(list) /\ Len(list) \in Nat
  BY SeqShape
<1> DEFINE r == Append(list, Copy(n))
<1>2. /\ r \in Seq(Value) /\ DOMAIN r = 1 .. Len(list) + 1
      /\ \A i \in 1 .. Len(list) : r[i] = list[i]
      /\ r[Len(list) + 1] = Copy(n)
  BY Values, AppendProperties
<1> HIDE DEF r
<1>3. \A i \in DOMAIN list : list[i][1] # n /\ \A j \in DOMAIN list : list[i][1] = list[j][1] => i = j
  <2>1. \A i \in DOMAIN list : list[i] \in { Original(x) : x \in A } \cup { Copy(x) : x \in C }
    BY DEF Holds, Range
  <2> QED  BY <2>1, Values DEF Holds, NamesOf, IsInjective
<1>4. IsInjective(NamesOf(r))
  <2> SUFFICES ASSUME NEW i \in DOMAIN r, NEW j \in DOMAIN r, r[i][1] = r[j][1]
               PROVE  i = j
    BY DEF NamesOf, IsInjective
  <2>1. Copy(n)[1] = n
    BY Values
  <2> QED  BY <1>1, <1>2, <1>3, <2>1
<1>5. Range(r) = Range(list) \cup {Copy(n)}
  BY <1>1, <1>2 DEF Range
<1> QED  BY <1>2, <1>4, <1>5 DEF Holds, r

(* How far a loop over a list has come.                                     *)
LEMMA SeenShape ==
  ASSUME NEW list \in Seq(Name), IsInjective(list)
  PROVE  /\ Seen(list, 1) = {}
         /\ \A p \in Nat : p > Len(list) => Seen(list, p) = Range(list)
         /\ \A p \in DOMAIN list :
              list[p] \in Name \ Seen(list, p) /\ Seen(list, p + 1) = Seen(list, p) \cup {list[p]}
<1>1. DOMAIN list = 1 .. Len(list) /\ Len(list) \in Nat /\ \A i \in DOMAIN list : list[i] \in Name
  BY SeqShape
<1> QED  BY <1>1 DEF Seen, Range, IsInjective

-----------------------------------------------------------------------------
(* The buckets.                                                             *)

Bucket == [Level -> Seq(Name)]

(* The names in the buckets before position p of level l, and all of them.  *)
Reached(b, l, p) ==
  { n \in Name : \E k \in Level : \E i \in DOMAIN b[k] :
                   b[k][i] = n /\ (k < l \/ (k = l /\ i < p)) }

InBuckets(b) == { n \in Name : \E k \in Level : \E i \in DOMAIN b[k] : b[k][i] = n }

(* Every name is in the bucket of its level, and there once.                *)
Sorted(b, given) ==
  /\ \A k \in Level : \A i \in DOMAIN b[k] : given[b[k][i]] = k
  /\ \A k \in Level : IsInjective(b[k])

LEMMA BucketShape ==
  ASSUME NEW b \in Bucket, NEW k \in Level
  PROVE  /\ k \in Int /\ 0 <= k /\ k < NumLevels
         /\ b[k] \in Seq(Name) /\ DOMAIN b[k] = 1 .. Len(b[k]) /\ Len(b[k]) \in Nat
         /\ \A i \in DOMAIN b[k] : b[k][i] \in Name /\ b[k][i] \in InBuckets(b)
<1>1. k \in Int /\ 0 <= k /\ k < NumLevels
  BY LevelsAssumption DEF Level
<1>2. b[k] \in Seq(Name)
  BY DEF Bucket
<1>3. DOMAIN b[k] = 1 .. Len(b[k]) /\ Len(b[k]) \in Nat /\ \A i \in DOMAIN b[k] : b[k][i] \in Name
  BY <1>2, SeqShape
<1> QED  BY <1>1, <1>2, <1>3 DEF InBuckets

LEMMA EmptyBuckets ==
  ASSUME NEW given
  PROVE  /\ NoBuckets \in Bucket /\ Sorted(NoBuckets, given) /\ InBuckets(NoBuckets) = {}
<1>1. NoBuckets \in Bucket /\ \A k \in Level : DOMAIN NoBuckets[k] = {}
  BY DEF NoBuckets, Bucket
<1> QED  BY <1>1 DEF Sorted, InBuckets, IsInjective

(* How far the loops over the buckets have come.                            *)
LEMMA ReachedStart ==
  ASSUME NEW b \in Bucket
  PROVE  Reached(b, 0, 1) = {}
  BY BucketShape DEF Reached

LEMMA ReachedEnd ==
  ASSUME NEW b \in Bucket, NEW p
  PROVE  Reached(b, NumLevels, p) = InBuckets(b)
  BY BucketShape DEF Reached, InBuckets

LEMMA ReachedItem ==
  ASSUME NEW b \in Bucket, NEW given, Sorted(b, given),
         NEW l \in Level, NEW p \in DOMAIN b[l]
  PROVE  /\ b[l][p] \in InBuckets(b) /\ b[l][p] \in Name /\ b[l][p] \notin Reached(b, l, p)
         /\ given[b[l][p]] = l
         /\ Reached(b, l, p + 1) = Reached(b, l, p) \cup {b[l][p]}
<1>1. b[l][p] \in InBuckets(b) /\ b[l][p] \in Name /\ p \in Nat
  BY BucketShape
<1>2. given[b[l][p]] = l
  BY DEF Sorted
<1>3. ASSUME NEW k \in Level, NEW i \in DOMAIN b[k], b[k][i] = b[l][p]
      PROVE  k = l /\ i = p
  BY <1>3 DEF Sorted, IsInjective
<1>4. b[l][p] \notin Reached(b, l, p)
  BY <1>1, <1>3, BucketShape DEF Reached
<1>5. Reached(b, l, p + 1) = Reached(b, l, p) \cup {b[l][p]}
  <2>1. \A k \in Level : \A i \in DOMAIN b[k] :
          (k < l \/ (k = l /\ i < p + 1)) <=> (k < l \/ (k = l /\ i < p) \/ (k = l /\ i = p))
    BY <1>1, BucketShape
  <2> QED  BY <1>1, <2>1 DEF Reached
<1> QED  BY <1>1, <1>2, <1>4, <1>5

LEMMA ReachedLevel ==
  ASSUME NEW b \in Bucket, NEW l \in Level, NEW p \in Nat, p > Len(b[l])
  PROVE  Reached(b, l + 1, 1) = Reached(b, l, p)
<1>1. \A k \in Level : \A i \in DOMAIN b[k] :
        (k < l + 1 \/ (k = l + 1 /\ i < 1)) <=> (k < l \/ (k = l /\ i < p))
  BY BucketShape
<1> QED  BY <1>1 DEF Reached

(* One more name goes into the bucket of its level, if it has one.          *)
Filling(b, given, n) ==
  IF given[n] \in Level THEN [b EXCEPT ![given[n]] = Append(@, n)] ELSE b

LEMMA Filled ==
  ASSUME NEW b \in Bucket, NEW given, Sorted(b, given),
         NEW n \in Name, n \notin InBuckets(b),
         NEW c, c = Filling(b, given, n)
  PROVE  /\ c \in Bucket /\ Sorted(c, given)
         /\ InBuckets(c) = InBuckets(b) \cup Ranked({n}, given)
<1>1. CASE given[n] \notin Level
  BY <1>1 DEF Ranked, Filling
<1>2. CASE given[n] \in Level
  <2> DEFINE l == given[n]
  <2>1. /\ b[l] \in Seq(Name) /\ DOMAIN b[l] = 1 .. Len(b[l]) /\ Len(b[l]) \in Nat
    BY <1>2, BucketShape
  <2>2. /\ Append(b[l], n) \in Seq(Name)
        /\ DOMAIN Append(b[l], n) = 1 .. Len(b[l]) + 1
        /\ \A i \in 1 .. Len(b[l]) : Append(b[l], n)[i] = b[l][i]
        /\ Append(b[l], n)[Len(b[l]) + 1] = n
    BY <2>1, AppendProperties
  <2>3. /\ c \in Bucket /\ c[l] = Append(b[l], n)
        /\ \A k \in Level : k # l => c[k] = b[k]
    BY <1>2, <2>2 DEF Bucket, Filling
  <2> HIDE DEF l
  <2>4. \A i \in DOMAIN b[l] : b[l][i] # n
    BY <1>2 DEF InBuckets, l
  <2>5. ASSUME NEW k \in Level
        PROVE  IsInjective(c[k]) /\ \A i \in DOMAIN c[k] : given[c[k][i]] = k
    <3>1. CASE k # l
      BY <2>3, <3>1 DEF Sorted
    <3>2. CASE k = l
      <4>1. \A i \in 1 .. Len(b[l]) + 1 : i \in 1 .. Len(b[l]) \/ i = Len(b[l]) + 1
        BY <2>1
      <4>2. /\ \A i, j \in DOMAIN b[l] : b[l][i] = b[l][j] => i = j
            /\ \A i \in DOMAIN b[l] : given[b[l][i]] = l
            /\ given[n] = l
        BY <1>2 DEF Sorted, IsInjective, l
      <4>3. IsInjective(c[k])
        <5> DEFINE q == Append(b[l], n)
        <5>1. /\ DOMAIN q = 1 .. Len(b[l]) + 1 /\ q[Len(b[l]) + 1] = n
              /\ \A i \in 1 .. Len(b[l]) : q[i] = b[l][i]
          BY <2>2
        <5> HIDE DEF q
        <5>2. \A i, j \in DOMAIN q : q[i] = q[j] => i = j
          BY <2>1, <2>4, <4>1, <4>2, <5>1
        <5>3. c[k] = q
          BY <2>3, <3>2 DEF q
        <5> QED  BY <5>2, <5>3 DEF IsInjective
      <4>4. \A i \in DOMAIN c[k] : given[c[k][i]] = k
        BY SMTT(40), <2>1, <2>2, <2>3, <3>2, <4>1, <4>2
      <4> QED  BY <4>3, <4>4
    <3> QED  BY <3>1, <3>2
  <2>6. ASSUME NEW x \in Name PROVE x \in InBuckets(c) <=> x \in InBuckets(b) \cup {n}
    <3>1. ASSUME NEW k \in Level, NEW i \in DOMAIN c[k], c[k][i] = x
          PROVE  x \in InBuckets(b) \cup {n}
      BY SMTT(40), <2>1, <2>2, <2>3, <3>1 DEF InBuckets
    <3>2. ASSUME NEW k \in Level, NEW i \in DOMAIN b[k], b[k][i] = x
          PROVE  \E j \in DOMAIN c[k] : c[k][j] = x
      <4>1. i \in DOMAIN c[k] /\ c[k][i] = b[k][i]
        BY <2>1, <2>2, <2>3
      <4> QED  BY <3>2, <4>1
    <3>3. l \in Level /\ Len(b[l]) + 1 \in DOMAIN c[l] /\ c[l][Len(b[l]) + 1] = n
      BY <1>2, <2>1, <2>2, <2>3 DEF l
    <3> QED  BY <3>1, <3>2, <3>3 DEF InBuckets
  <2>7. InBuckets(c) \subseteq Name /\ InBuckets(b) \subseteq Name
    BY DEF InBuckets
  <2> QED  BY <1>2, <2>3, <2>5, <2>6, <2>7 DEF Sorted, Ranked
<1> QED  BY <1>1, <1>2

-----------------------------------------------------------------------------
(* The invariant of the lists: what each loop has done to them so far.      *)

RankedFuns  == Ranked(Range(m.funs), m.attr)
RankedGlobs == Ranked(Range(m.globs), m.level)

FunsInv ==
  /\ pc = "functions" =>
       /\ funs = Originals(m.funs)
       /\ Sorted(bucket, m.attr)
       /\ InBuckets(bucket) = Ranked(Seen(m.funs, pos), m.attr)
  /\ pc \in {"erase functions", "insert functions"} =>
       Sorted(bucket, m.attr) /\ InBuckets(bucket) = RankedFuns
  /\ pc = "erase functions" => Holds(funs, Range(m.funs) \ Reached(bucket, lev, pos), {})
  /\ pc = "insert functions" =>
       Holds(funs, Range(m.funs) \ RankedFuns, Reached(bucket, lev, pos))
  /\ pc \in {"globals", "initialisers", "erase globals", "insert globals", "done"} =>
       Holds(funs, Range(m.funs) \ RankedFuns, RankedFuns)
  /\ pc = "crashed" => IsInjective(NamesOf(funs))

GlobsInv ==
  /\ pc \in {"functions", "erase functions", "insert functions", "globals",
            "initialisers", "crashed"} => globs = Originals(m.globs)
  /\ pc = "globals" =>
       /\ Sorted(bucket, m.level)
       /\ InBuckets(bucket) = Ranked(Seen(m.globs, pos), m.level)
  /\ pc \in {"initialisers", "erase globals", "insert globals"} =>
       Sorted(bucket, m.level) /\ InBuckets(bucket) = RankedGlobs
  /\ pc = "erase globals" => Holds(globs, Range(m.globs) \ Reached(bucket, lev, pos), {})
  /\ pc = "insert globals" =>
       Holds(globs, Range(m.globs) \ RankedGlobs, Reached(bucket, lev, pos))
  /\ pc = "done" => Holds(globs, Range(m.globs) \ RankedGlobs, RankedGlobs)

LEMMA ModuleShape ==
  ASSUME NEW mod \in Modules
  PROVE  /\ mod.funs \in Seq(Name) /\ mod.globs \in Seq(Name) /\ mod.aliases \subseteq Name
         /\ mod.attr \in [Name -> Level \cup {None, TooLarge}]
         /\ mod.level \in [Name -> Level \cup {TooLarge}]
         /\ mod.refs \in [Name -> SUBSET Name] /\ mod.labels \in [Name -> SUBSET Name]
         /\ WellNamed(mod)
         /\ Range(mod.funs) \subseteq Name /\ Range(mod.globs) \subseteq Name
         /\ mod.defs \subseteq Name
<1>1. mod \in PlacedFields /\ WellNamed(mod)
  BY ModulesAssumption DEF PlacedModule
<1>2. mod.funs \in Seq(Name) /\ mod.globs \in Seq(Name)
  BY <1>1 DEF PlacedFields
<1>3. Range(mod.funs) \subseteq Name /\ Range(mod.globs) \subseteq Name
  BY <1>2, SeqShape
<1> QED  BY <1>1, <1>2, <1>3 DEF PlacedFields

(* The copies of a name or of a bucket's names never take a name in use.    *)
LEMMA EraseFunctionList ==
  ASSUME TypeOK, FunsInv, EraseFunction
  PROVE  /\ Item \in Name /\ Item \in RankedFuns /\ funs' \in Seq(Value)
         /\ Holds(funs', Range(m.funs) \ Reached(bucket, lev, pos + 1), {})
         /\ Range(funs') = Range(funs) \ {Original(Item)}
         /\ Reached(bucket, lev, pos + 1) = Reached(bucket, lev, pos) \cup {Item}
<1>1. bucket \in Bucket /\ lev \in Level /\ pos \in DOMAIN bucket[lev] /\ funs \in Seq(Value)
  BY DEF TypeOK, Bucket, EraseFunction, At
<1>2. /\ Sorted(bucket, m.attr) /\ InBuckets(bucket) = RankedFuns
      /\ Holds(funs, Range(m.funs) \ Reached(bucket, lev, pos), {})
  BY DEF EraseFunction, At, FunsInv
<1>3. /\ Item \in Name /\ Item \in RankedFuns /\ Item \notin Reached(bucket, lev, pos)
      /\ Reached(bucket, lev, pos + 1) = Reached(bucket, lev, pos) \cup {Item}
  BY <1>1, <1>2, ReachedItem DEF Item
<1> DEFINE A == Range(m.funs) \ Reached(bucket, lev, pos)
<1>4. A \in SUBSET Name /\ Item \in A
  BY <1>3, ModuleShape DEF TypeOK, RankedFuns, Ranked
<1>5. A \ {Item} = Range(m.funs) \ Reached(bucket, lev, pos + 1)
  BY <1>3
<1> HIDE DEF A
<1>6. Holds(funs, A, {})
  BY <1>2 DEF A
<1>7. /\ funs' \in Seq(Value) /\ Holds(funs', A \ {Item}, {})
      /\ Range(funs') = Range(funs) \ {Original(Item)}
  BY <1>1, <1>4, <1>6, HoldsErased DEF EraseFunction
<1> QED  BY <1>3, <1>5, <1>7

LEMMA InsertFunctionList ==
  ASSUME TypeOK, FunsInv, InsertFunction
  PROVE  /\ Item \in Name /\ Item \in RankedFuns /\ m.attr[Item] = lev
         /\ funs' \in Seq(Value)
         /\ Holds(funs', Range(m.funs) \ RankedFuns, Reached(bucket, lev, pos + 1))
         /\ Range(funs') = Range(funs) \cup {Copy(Item)}
<1>1. bucket \in Bucket /\ lev \in Level /\ pos \in DOMAIN bucket[lev] /\ funs \in Seq(Value)
  BY DEF TypeOK, Bucket, InsertFunction, At
<1>2. /\ Sorted(bucket, m.attr) /\ InBuckets(bucket) = RankedFuns
      /\ Holds(funs, Range(m.funs) \ RankedFuns, Reached(bucket, lev, pos))
  BY DEF InsertFunction, At, FunsInv
<1>3. /\ Item \in Name /\ Item \in RankedFuns /\ Item \notin Reached(bucket, lev, pos)
      /\ m.attr[Item] = lev
      /\ Reached(bucket, lev, pos + 1) = Reached(bucket, lev, pos) \cup {Item}
  BY <1>1, <1>2, ReachedItem DEF Item
<1> DEFINE A == Range(m.funs) \ RankedFuns
           C == Reached(bucket, lev, pos)
<1>4. A \in SUBSET Name /\ C \in SUBSET Name /\ Item \in Name \ (A \cup C)
  BY <1>3, ModuleShape DEF TypeOK, Reached
<1> HIDE DEF A, C
<1>5. Holds(funs, A, C)
  BY <1>2 DEF A, C
<1>6. funs' \in Seq(Value) /\ Holds(funs', A, C \cup {Item})
  BY <1>1, <1>4, <1>5, HoldsInserted DEF InsertFunction
<1>7. Range(funs') = Range(funs) \cup {Copy(Item)}
  BY <1>5, <1>6 DEF Holds
<1> QED  BY <1>3, <1>6, <1>7 DEF A, C

LEMMA EraseGlobalList ==
  ASSUME TypeOK, GlobsInv, EraseGlobal
  PROVE  /\ Item \in Name /\ Item \in RankedGlobs /\ globs' \in Seq(Value)
         /\ Holds(globs', Range(m.globs) \ Reached(bucket, lev, pos + 1), {})
         /\ Range(globs') = Range(globs) \ {Original(Item)}
         /\ Reached(bucket, lev, pos + 1) = Reached(bucket, lev, pos) \cup {Item}
<1>1. bucket \in Bucket /\ lev \in Level /\ pos \in DOMAIN bucket[lev] /\ globs \in Seq(Value)
  BY DEF TypeOK, Bucket, EraseGlobal, At
<1>2. /\ Sorted(bucket, m.level) /\ InBuckets(bucket) = RankedGlobs
      /\ Holds(globs, Range(m.globs) \ Reached(bucket, lev, pos), {})
  BY DEF EraseGlobal, At, GlobsInv
<1>3. /\ Item \in Name /\ Item \in RankedGlobs /\ Item \notin Reached(bucket, lev, pos)
      /\ Reached(bucket, lev, pos + 1) = Reached(bucket, lev, pos) \cup {Item}
  BY <1>1, <1>2, ReachedItem DEF Item
<1> DEFINE A == Range(m.globs) \ Reached(bucket, lev, pos)
<1>4. A \in SUBSET Name /\ Item \in A
  BY <1>3, ModuleShape DEF TypeOK, RankedGlobs, Ranked
<1>5. A \ {Item} = Range(m.globs) \ Reached(bucket, lev, pos + 1)
  BY <1>3
<1> HIDE DEF A
<1>6. Holds(globs, A, {})
  BY <1>2 DEF A
<1>7. /\ globs' \in Seq(Value) /\ Holds(globs', A \ {Item}, {})
      /\ Range(globs') = Range(globs) \ {Original(Item)}
  BY <1>1, <1>4, <1>6, HoldsErased DEF EraseGlobal
<1> QED  BY <1>3, <1>5, <1>7

LEMMA InsertGlobalList ==
  ASSUME TypeOK, GlobsInv, InsertGlobal
  PROVE  /\ Item \in Name /\ Item \in RankedGlobs /\ m.level[Item] = lev
         /\ globs' \in Seq(Value)
         /\ Holds(globs', Range(m.globs) \ RankedGlobs, Reached(bucket, lev, pos + 1))
         /\ Range(globs') = Range(globs) \cup {Copy(Item)}
<1>1. bucket \in Bucket /\ lev \in Level /\ pos \in DOMAIN bucket[lev] /\ globs \in Seq(Value)
  BY DEF TypeOK, Bucket, InsertGlobal, At
<1>2. /\ Sorted(bucket, m.level) /\ InBuckets(bucket) = RankedGlobs
      /\ Holds(globs, Range(m.globs) \ RankedGlobs, Reached(bucket, lev, pos))
  BY DEF InsertGlobal, At, GlobsInv
<1>3. /\ Item \in Name /\ Item \in RankedGlobs /\ Item \notin Reached(bucket, lev, pos)
      /\ m.level[Item] = lev
      /\ Reached(bucket, lev, pos + 1) = Reached(bucket, lev, pos) \cup {Item}
  BY <1>1, <1>2, ReachedItem DEF Item
<1> DEFINE A == Range(m.globs) \ RankedGlobs
           C == Reached(bucket, lev, pos)
<1>4. A \in SUBSET Name /\ C \in SUBSET Name /\ Item \in Name \ (A \cup C)
  BY <1>3, ModuleShape DEF TypeOK, Reached
<1> HIDE DEF A, C
<1>5. Holds(globs, A, C)
  BY <1>2 DEF A, C
<1>6. globs' \in Seq(Value) /\ Holds(globs', A, C \cup {Item})
  BY <1>1, <1>4, <1>5, HoldsInserted DEF InsertGlobal
<1>7. Range(globs') = Range(globs) \cup {Copy(Item)}
  BY <1>5, <1>6 DEF Holds
<1> QED  BY <1>3, <1>6, <1>7 DEF A, C

-----------------------------------------------------------------------------
(* Type correctness, with the invariant of the lists it needs: an original  *)
(* that is erased is in the list.                                           *)

ListInv == FunsInv /\ GlobsInv

LEMMA LevelShape ==
  /\ 0 \in 0 .. NumLevels /\ LeastPrivileged \in Level /\ TooLarge \notin Level
  /\ \A l \in Level : l \in 0 .. NumLevels /\ l + 1 \in 0 .. NumLevels
  /\ None \notin Level
  BY LevelsAssumption DEF Level, LeastPrivileged, TooLarge

LEMMA TypeInit == Init => TypeOK
<1> SUFFICES ASSUME Init PROVE TypeOK
  OBVIOUS
<1>1. m \in Modules
  BY DEF Init
<1>2. funs \in Seq(Value) /\ globs \in Seq(Value)
  <2>1. /\ m.funs \in Seq(Name) /\ IsInjective(m.funs)
        /\ m.globs \in Seq(Name) /\ IsInjective(m.globs)
    BY <1>1, ModuleShape DEF WellNamed
  <2>2. Originals(m.funs) \in Seq(Value) /\ Originals(m.globs) \in Seq(Value)
    BY <2>1, OriginalsHold
  <2> QED  BY <2>2 DEF Init, Originals
<1>3. ASSUME NEW n \in Name
      PROVE  /\ { Original(x) : x \in m.refs[n] } \in SUBSET Value
             /\ { Original(x) : x \in m.labels[n] } \in SUBSET Value
  <2>1. m.refs[n] \subseteq Name /\ m.labels[n] \subseteq Name
    BY <1>1, ModuleShape
  <2> QED  BY <2>1, Values
<1>4. refs \in [Value -> SUBSET Value] /\ labels \in [Value -> SUBSET (Value \cup {Zapped})]
  BY <1>3, Values DEF Init
<1>5. bucket \in [Level -> Seq(Name)]
  BY EmptyBuckets DEF Init, Bucket
<1>6. /\ section \in [Value -> Level \cup {None}]
      /\ usedFun \subseteq Level /\ usedVar \subseteq Level
      /\ lev \in 0 .. NumLevels /\ pos \in Nat \ {0}
  BY LevelShape DEF Init
<1>7. pc \in Phase
  BY DEF Init, Phase
<1> QED  BY <1>1, <1>2, <1>4, <1>5, <1>6, <1>7 DEF TypeOK

LEMMA ListInit == Init => ListInv
<1> SUFFICES ASSUME Init PROVE ListInv
  OBVIOUS
<1>1. m \in Modules /\ WellNamed(m) /\ m.funs \in Seq(Name)
  BY ModuleShape DEF Init
<1>2. Seen(m.funs, 1) = {}
  BY <1>1, SeenShape DEF WellNamed
<1>3. Sorted(bucket, m.attr) /\ InBuckets(bucket) = {}
  BY EmptyBuckets DEF Init
<1> QED  BY <1>2, <1>3 DEF Init, ListInv, FunsInv, GlobsInv, Originals, Ranked

(* The loops over a list are at the value of its position.                  *)
LEMMA AtFunction ==
  ASSUME TypeOK, ListInv, pc = "functions", pos \in DOMAIN funs
  PROVE  /\ DOMAIN funs = DOMAIN m.funs /\ funs[pos] = Original(m.funs[pos])
         /\ funs[pos] \in Value /\ funs[pos][1] = m.funs[pos]
         /\ m.funs[pos] \in Name /\ m.funs[pos] \in Range(m.funs)
<1>1. m.funs \in Seq(Name) /\ IsInjective(m.funs) /\ funs = Originals(m.funs)
  BY ModuleShape DEF TypeOK, ListInv, FunsInv, WellNamed
<1>2. DOMAIN funs = DOMAIN m.funs
  BY <1>1 DEF Originals
<1>3. m.funs[pos] \in Name /\ m.funs[pos] \in Range(m.funs)
  BY <1>1, <1>2, SeqShape DEF Range
<1> QED  BY <1>1, <1>2, <1>3, Values DEF Originals

LEMMA AtGlobal ==
  ASSUME TypeOK, ListInv, pc \in {"globals", "initialisers"}, pos \in DOMAIN globs
  PROVE  /\ DOMAIN globs = DOMAIN m.globs /\ globs[pos] = Original(m.globs[pos])
         /\ globs[pos] \in Value /\ globs[pos][1] = m.globs[pos]
         /\ m.globs[pos] \in Name /\ m.globs[pos] \in Range(m.globs)
<1>1. m.globs \in Seq(Name) /\ IsInjective(m.globs) /\ globs = Originals(m.globs)
  BY ModuleShape DEF TypeOK, ListInv, GlobsInv, WellNamed
<1>2. DOMAIN globs = DOMAIN m.globs
  BY <1>1 DEF Originals
<1>3. m.globs[pos] \in Name /\ m.globs[pos] \in Range(m.globs)
  BY <1>1, <1>2, SeqShape DEF Range
<1> QED  BY <1>1, <1>2, <1>3, Values DEF Originals

(* Redirecting uses and zapping labels keep the types.                      *)
LEMMA RedirectedType ==
  ASSUME TypeOK, NEW n \in Name
  PROVE  /\ [RefsRedirected(n) EXCEPT ![Original(n)] = {}] \in [Value -> SUBSET Value]
         /\ [LabelsZapped(n) EXCEPT ![Original(n)] = {}] \in [Value -> SUBSET (Value \cup {Zapped})]
         /\ [labels EXCEPT ![Original(n)] = {}] \in [Value -> SUBSET (Value \cup {Zapped})]
         /\ Replaced(labels[Original(n)], Original(n), Copy(n)) \in SUBSET (Value \cup {Zapped})
<1>1. Original(n) \in Value /\ Copy(n) \in Value
  BY Values
<1>2. ASSUME NEW S, NEW X \in SUBSET S, NEW old, NEW new \in S
      PROVE  Replaced(X, old, new) \in SUBSET S
  BY <1>2 DEF Replaced
<1>3. RefsRedirected(n) \in [Value -> SUBSET Value]
  <2>1. \A v \in Value : Replaced(refs[v], Original(n), Copy(n)) \in SUBSET Value
    BY <1>1, <1>2 DEF TypeOK
  <2> QED  BY <2>1 DEF RefsRedirected
<1>4. LabelsZapped(n) \in [Value -> SUBSET (Value \cup {Zapped})]
  <2>1. ASSUME NEW v \in Value
        PROVE  Replaced(labels[v], Original(n), Zapped) \in SUBSET (Value \cup {Zapped})
    <3>1. labels[v] \subseteq Value \cup {Zapped}
      BY DEF TypeOK
    <3> QED  BY <3>1 DEF Replaced
  <2> QED  BY <2>1 DEF LabelsZapped
<1>5. Replaced(labels[Original(n)], Original(n), Copy(n)) \in SUBSET (Value \cup {Zapped})
  <2>1. labels[Original(n)] \subseteq Value \cup {Zapped} /\ Copy(n) \in Value \cup {Zapped}
    BY <1>1 DEF TypeOK
  <2> QED  BY <2>1 DEF Replaced
<1> QED  BY <1>1, <1>3, <1>4, <1>5 DEF TypeOK

(* A loop counts on, goes to its next level or makes way for the next loop. *)
LEMMA CounterType ==
  ASSUME TypeOK,
         \/ lev' = lev /\ pos' \in {pos, pos + 1}
         \/ lev' = 0 /\ pos' = 1
         \/ lev \in Level /\ lev' = lev + 1 /\ pos' = 1
  PROVE  lev' \in 0 .. NumLevels /\ pos' \in Nat \ {0}
  BY SMTT(40), LevelsAssumption DEF TypeOK, Level

LEMMA TypeStep == TypeOK /\ ListInv /\ [Next]_vars => TypeOK'
<1> SUFFICES ASSUME TypeOK, ListInv, [Next]_vars PROVE TypeOK'
  OBVIOUS
<1>1. CASE PlaceUnannotated
  BY <1>1, AtFunction, LevelShape DEF PlaceUnannotated, TypeOK, Phase
<1>2. CASE CopyFunction
  <2>1. pc = "functions" /\ pos \in DOMAIN funs
    BY <1>2 DEF CopyFunction
  <2> DEFINE n == m.funs[pos]
  <2>2. n \in Name /\ Original(n) \in Value /\ Copy(n) \in Value
    BY <2>1, AtFunction, Values
  <2>3. /\ refs' = [refs EXCEPT ![Copy(n)] = refs[Original(n)]]
        /\ labels' = [labels EXCEPT ![Copy(n)] =
                        Replaced(labels[Original(n)], Original(n), Copy(n))]
        /\ bucket' = Added(m.attr[n], n)
    BY <1>2, <2>1, AtFunction DEF CopyFunction
  <2> HIDE DEF n
  <2>4. refs' \in [Value -> SUBSET Value] /\ labels' \in [Value -> SUBSET (Value \cup {Zapped})]
    BY <2>2, <2>3, RedirectedType DEF TypeOK
  <2>5. bucket' \in [Level -> Seq(Name)]
    BY <2>2, <2>3 DEF Added, TypeOK
  <2> QED  BY <1>2, <2>4, <2>5 DEF CopyFunction, TypeOK
<1>3. CASE CopyGlobal
  <2>1. m.globs[pos] \in Name /\ bucket' = Added(m.level[m.globs[pos]], m.globs[pos])
    BY <1>3, AtGlobal DEF CopyGlobal
  <2>2. bucket' \in [Level -> Seq(Name)]
    BY <2>1 DEF Added, TypeOK
  <2> QED  BY <1>3, <2>2 DEF CopyGlobal, TypeOK
<1>4. CASE MapInitialiser
  <2> DEFINE n == m.globs[pos]
  <2>1. n \in Name /\ Original(n) \in Value /\ Copy(n) \in Value
    BY <1>4, AtGlobal, Values DEF MapInitialiser
  <2>2. /\ refs' = [refs EXCEPT ![Copy(n)] = Mapped(refs[Original(n)])]
        /\ labels' = [labels EXCEPT ![Copy(n)] = labels[Original(n)]]
    BY <1>4, AtGlobal DEF MapInitialiser
  <2>3. Mapped(refs[Original(n)]) \in SUBSET Value
    BY <2>1, Values DEF Mapped, TypeOK
  <2> HIDE DEF n
  <2>4. refs' \in [Value -> SUBSET Value] /\ labels' \in [Value -> SUBSET (Value \cup {Zapped})]
    BY <2>1, <2>2, <2>3 DEF TypeOK
  <2> QED  BY <1>4, <2>4 DEF MapInitialiser, TypeOK
<1>5. CASE EraseFunction
  <2>1. Item \in Name /\ funs' \in Seq(Value)
    BY <1>5, EraseFunctionList DEF ListInv
  <2>2. refs' \in [Value -> SUBSET Value] /\ labels' \in [Value -> SUBSET (Value \cup {Zapped})]
    BY <1>5, <2>1, RedirectedType DEF EraseFunction
  <2>3. lev' \in 0 .. NumLevels /\ pos' \in Nat \ {0}
    BY <1>5, CounterType DEF EraseFunction
  <2> QED  BY <1>5, <2>1, <2>2, <2>3 DEF EraseFunction, TypeOK
<1>6. CASE EraseGlobal
  <2>1. Item \in Name /\ globs' \in Seq(Value)
    BY <1>6, EraseGlobalList DEF ListInv
  <2>2. refs' \in [Value -> SUBSET Value] /\ labels' \in [Value -> SUBSET (Value \cup {Zapped})]
    BY <1>6, <2>1, RedirectedType DEF EraseGlobal
  <2>3. lev' \in 0 .. NumLevels /\ pos' \in Nat \ {0}
    BY <1>6, CounterType DEF EraseGlobal
  <2> QED  BY <1>6, <2>1, <2>2, <2>3 DEF EraseGlobal, TypeOK
<1>7. CASE InsertFunction
  <2>1. Item \in Name /\ funs' \in Seq(Value) /\ lev \in Level
    BY <1>7, InsertFunctionList DEF ListInv, InsertFunction, At
  <2>2. lev' \in 0 .. NumLevels /\ pos' \in Nat \ {0}
    BY <1>7, CounterType DEF InsertFunction
  <2> QED  BY <1>7, <2>1, <2>2 DEF InsertFunction, TypeOK
<1>8. CASE InsertGlobal
  <2>1. Item \in Name /\ globs' \in Seq(Value) /\ lev \in Level
    BY <1>8, InsertGlobalList DEF ListInv, InsertGlobal, At
  <2>2. lev' \in 0 .. NumLevels /\ pos' \in Nat \ {0}
    BY <1>8, CounterType DEF InsertGlobal
  <2> QED  BY <1>8, <2>1, <2>2 DEF InsertGlobal, TypeOK
<1>9. CASE FunctionsInserted \/ GlobalsInserted
  <2>1. lev' \in 0 .. NumLevels /\ pos' \in Nat \ {0}
    BY <1>9, CounterType DEF FunctionsInserted, GlobalsInserted, GoTo
  <2>2. bucket' \in [Level -> Seq(Name)]
    BY <1>9, EmptyBuckets DEF FunctionsInserted, GlobalsInserted, Bucket
  <2>3. pc' \in Phase
    BY <1>9 DEF FunctionsInserted, GlobalsInserted, GoTo, Phase
  <2> QED  BY <1>9, <2>1, <2>2, <2>3 DEF FunctionsInserted, GlobalsInserted, TypeOK
<1>10. CASE FunctionsCopied \/ FunctionsErased \/ GlobalsCopied \/ InitialisersMapped \/ GlobalsErased
  <2>1. lev' \in 0 .. NumLevels /\ pos' \in Nat \ {0}
    BY <1>10, CounterType
       DEF FunctionsCopied, FunctionsErased, GlobalsCopied, InitialisersMapped, GlobalsErased, GoTo
  <2>2. pc' \in Phase
    BY <1>10 DEF FunctionsCopied, FunctionsErased, GlobalsCopied, InitialisersMapped,
                 GlobalsErased, GoTo, Phase
  <2> QED
    BY <1>10, <2>1, <2>2
       DEF FunctionsCopied, FunctionsErased, GlobalsCopied, InitialisersMapped, GlobalsErased, TypeOK
<1>11. CASE NextLevel
  <2>1. lev' \in 0 .. NumLevels /\ pos' \in Nat \ {0}
    BY <1>11, CounterType DEF NextLevel
  <2> QED  BY <1>11, <2>1 DEF NextLevel, TypeOK, Phase
<1>12. CASE CrashOnDeclaration \/ CrashOnLevel \/ UNCHANGED vars
  BY <1>12 DEF CrashOnDeclaration, CrashOnLevel, vars, TypeOK, Phase
<1> QED
  BY <1>1, <1>2, <1>3, <1>4, <1>5, <1>6, <1>7, <1>8, <1>9, <1>10, <1>11, <1>12 DEF Next, Stopped

-----------------------------------------------------------------------------
(* The invariant of the lists is kept.                                      *)

(* Copying has come past one more name of the list.                         *)
LEMMA FilledStep ==
  ASSUME NEW b \in Bucket, NEW list \in Seq(Name), IsInjective(list), NEW given,
         NEW p \in DOMAIN list, Sorted(b, given),
         InBuckets(b) = Ranked(Seen(list, p), given),
         NEW c, c = Filling(b, given, list[p])
  PROVE  Sorted(c, given) /\ InBuckets(c) = Ranked(Seen(list, p + 1), given)
<1> DEFINE n == list[p]
<1>1. n \in Name \ Seen(list, p) /\ Seen(list, p + 1) = Seen(list, p) \cup {n}
  BY SeenShape
<1>2. n \notin InBuckets(b)
  BY <1>1 DEF Ranked
<1> HIDE DEF n
<1>3. c = Filling(b, given, n)
  BY DEF n
<1>4. Sorted(c, given) /\ InBuckets(c) = InBuckets(b) \cup Ranked({n}, given)
  BY <1>1, <1>2, <1>3, Filled
<1> QED  BY <1>1, <1>4 DEF Ranked

LEMMA FunsStep == TypeOK /\ ListInv /\ [Next]_vars => FunsInv'
<1> SUFFICES ASSUME TypeOK, ListInv, [Next]_vars PROVE FunsInv'
  OBVIOUS
<1>0. /\ m \in Modules /\ m.funs \in Seq(Name) /\ IsInjective(m.funs)
      /\ bucket \in Bucket /\ lev \in 0 .. NumLevels /\ pos \in Nat
      /\ Len(m.funs) \in Nat /\ DOMAIN m.funs = 1 .. Len(m.funs)
  BY ModuleShape, SeqShape DEF TypeOK, WellNamed, Bucket
<1>1. CASE PlaceUnannotated
  <2>1. pc = "functions" /\ pos \in DOMAIN m.funs /\ m.attr[m.funs[pos]] = None
    BY <1>1, AtFunction DEF PlaceUnannotated
  <2>2. Seen(m.funs, pos + 1) = Seen(m.funs, pos) \cup {m.funs[pos]}
    BY <1>0, <2>1, SeenShape
  <2>3. Ranked(Seen(m.funs, pos + 1), m.attr) = Ranked(Seen(m.funs, pos), m.attr)
    BY <2>1, <2>2, LevelShape DEF Ranked
  <2> QED  BY <1>1, <2>1, <2>3 DEF PlaceUnannotated, ListInv, FunsInv
<1>2. CASE CopyFunction
  <2>1. pc = "functions" /\ pos \in DOMAIN m.funs
        /\ bucket' = Added(m.attr[m.funs[pos]], m.funs[pos])
    BY <1>2, AtFunction DEF CopyFunction
  <2>2. Sorted(bucket', m.attr) /\ InBuckets(bucket') = Ranked(Seen(m.funs, pos + 1), m.attr)
    <3>1. Sorted(bucket, m.attr) /\ InBuckets(bucket) = Ranked(Seen(m.funs, pos), m.attr)
      BY <2>1 DEF ListInv, FunsInv
    <3>2. bucket' = Filling(bucket, m.attr, m.funs[pos])
      BY <2>1 DEF Added, Filling
    <3> QED  BY <1>0, <2>1, <3>1, <3>2, FilledStep
  <2> QED  BY <1>2, <2>1, <2>2 DEF CopyFunction, ListInv, FunsInv
<1>3. CASE FunctionsCopied
  <2>1. pc = "functions" /\ pos > Len(m.funs)
    <3>1. pc = "functions" /\ funs = Originals(m.funs) /\ pos > Len(funs)
      BY <1>3 DEF FunctionsCopied, GoTo, ListInv, FunsInv
    <3>2. funs \in Seq(Value) /\ DOMAIN funs = DOMAIN m.funs
      BY <1>0, <3>1, OriginalsHold
    <3>3. Len(funs) = Len(m.funs)
      BY <1>0, <3>2, SeqShape
    <3> QED  BY <3>1, <3>3
  <2>2. Seen(m.funs, pos) = Range(m.funs)
    BY <1>0, <2>1, SeenShape
  <2>3. Holds(funs, Range(m.funs), {})
    BY <1>0, <2>1, OriginalsHold DEF ListInv, FunsInv
  <2>4. Range(m.funs) \ Reached(bucket, 0, 1) = Range(m.funs)
    BY <1>0, ReachedStart
  <2> QED  BY <1>3, <2>1, <2>2, <2>3, <2>4
             DEF FunctionsCopied, GoTo, ListInv, FunsInv, RankedFuns
<1>4. CASE EraseFunction
  BY <1>4, EraseFunctionList DEF EraseFunction, At, ListInv, FunsInv, RankedFuns
<1>5. CASE NextLevel
  <2>1. Reached(bucket, lev', pos') = Reached(bucket, lev, pos)
    BY <1>0, <1>5, ReachedLevel DEF NextLevel
  <2> QED  BY <1>5, <2>1 DEF NextLevel, ListInv, FunsInv, RankedFuns
<1>6. CASE FunctionsErased
  <2>1. Reached(bucket, lev, pos) = InBuckets(bucket) /\ Reached(bucket, 0, 1) = {}
    BY <1>0, <1>6, ReachedStart, ReachedEnd DEF FunctionsErased, GoTo
  <2> QED  BY <1>6, <2>1 DEF FunctionsErased, GoTo, ListInv, FunsInv, RankedFuns
<1>7. CASE InsertFunction
  BY <1>7, InsertFunctionList DEF InsertFunction, At, ListInv, FunsInv, RankedFuns
<1>8. CASE FunctionsInserted
  <2>1. Reached(bucket, lev, pos) = InBuckets(bucket)
    BY <1>0, <1>8, ReachedEnd DEF FunctionsInserted, GoTo
  <2> QED  BY <1>8, <2>1 DEF FunctionsInserted, GoTo, ListInv, FunsInv, RankedFuns
<1>9. CASE CrashOnDeclaration \/ CrashOnLevel
  <2>1. pc \in {"functions", "globals"} /\ pc' = "crashed" /\ funs' = funs
    BY <1>9 DEF CrashOnDeclaration, CrashOnLevel
  <2>2. IsInjective(NamesOf(funs))
    BY <1>0, <2>1, OriginalsHold DEF ListInv, FunsInv, Holds
  <2>3. NamesOf(funs)' = NamesOf(funs)
    BY <2>1 DEF NamesOf
  <2> QED  BY <2>1, <2>2, <2>3 DEF FunsInv
<1>10. CASE CopyGlobal \/ GlobalsCopied \/ MapInitialiser \/ InitialisersMapped
  BY <1>10 DEF CopyGlobal, GlobalsCopied, MapInitialiser, InitialisersMapped, GoTo,
               ListInv, FunsInv, RankedFuns
<1>11. CASE EraseGlobal \/ GlobalsErased \/ InsertGlobal \/ GlobalsInserted
  BY <1>11 DEF EraseGlobal, GlobalsErased, InsertGlobal, GlobalsInserted, GoTo, At,
               ListInv, FunsInv, RankedFuns
<1>12. CASE UNCHANGED vars
  BY <1>12 DEF vars, ListInv, FunsInv, RankedFuns, NamesOf
<1> QED
  BY <1>1, <1>2, <1>3, <1>4, <1>5, <1>6, <1>7, <1>8, <1>9, <1>10, <1>11, <1>12 DEF Next, Stopped

LEMMA GlobsStep == TypeOK /\ ListInv /\ [Next]_vars => GlobsInv'
<1> SUFFICES ASSUME TypeOK, ListInv, [Next]_vars PROVE GlobsInv'
  OBVIOUS
<1>0. /\ m \in Modules /\ m.globs \in Seq(Name) /\ IsInjective(m.globs)
      /\ bucket \in Bucket /\ lev \in 0 .. NumLevels /\ pos \in Nat
      /\ Len(m.globs) \in Nat /\ DOMAIN m.globs = 1 .. Len(m.globs)
  BY ModuleShape, SeqShape DEF TypeOK, WellNamed, Bucket
<1>1. ASSUME pc \in {"globals", "initialisers"}
      PROVE  Len(globs) = Len(m.globs) /\ Holds(globs, Range(m.globs), {})
  <2>1. globs = Originals(m.globs)
    BY <1>1 DEF ListInv, GlobsInv
  <2>2. globs \in Seq(Value) /\ DOMAIN globs = DOMAIN m.globs /\ Holds(globs, Range(m.globs), {})
    BY <1>0, <2>1, OriginalsHold
  <2> QED  BY <1>0, <2>2, SeqShape
<1>2. CASE PlaceUnannotated \/ CopyFunction \/ CrashOnDeclaration \/ FunctionsCopied
  BY <1>2 DEF PlaceUnannotated, CopyFunction, CrashOnDeclaration, FunctionsCopied, GoTo,
              ListInv, GlobsInv
<1>3. CASE EraseFunction \/ FunctionsErased \/ InsertFunction
  BY <1>3 DEF EraseFunction, FunctionsErased, InsertFunction, GoTo, At, ListInv, GlobsInv
<1>4. CASE CrashOnLevel
  BY <1>4 DEF CrashOnLevel, ListInv, GlobsInv
<1>5. CASE FunctionsInserted
  <2>1. Seen(m.globs, 1) = {} /\ Ranked({}, m.level) = {}
    BY <1>0, SeenShape DEF Ranked
  <2> QED  BY <1>5, <2>1, EmptyBuckets DEF FunctionsInserted, GoTo, ListInv, GlobsInv
<1>6. CASE CopyGlobal
  <2>1. pc = "globals" /\ pos \in DOMAIN m.globs
        /\ bucket' = Added(m.level[m.globs[pos]], m.globs[pos])
    BY <1>6, AtGlobal DEF CopyGlobal
  <2>2. Sorted(bucket', m.level) /\ InBuckets(bucket') = Ranked(Seen(m.globs, pos + 1), m.level)
    <3>1. Sorted(bucket, m.level) /\ InBuckets(bucket) = Ranked(Seen(m.globs, pos), m.level)
      BY <2>1 DEF ListInv, GlobsInv
    <3>2. bucket' = Filling(bucket, m.level, m.globs[pos])
      BY <2>1 DEF Added, Filling
    <3> QED  BY <1>0, <2>1, <3>1, <3>2, FilledStep
  <2> QED  BY <1>6, <2>1, <2>2 DEF CopyGlobal, ListInv, GlobsInv
<1>7. CASE GlobalsCopied
  <2>1. pc = "globals" /\ pos > Len(m.globs)
    BY <1>1, <1>7 DEF GlobalsCopied, GoTo
  <2>2. Seen(m.globs, pos) = Range(m.globs)
    BY <1>0, <2>1, SeenShape
  <2> QED  BY <1>7, <2>1, <2>2 DEF GlobalsCopied, GoTo, ListInv, GlobsInv, RankedGlobs
<1>8. CASE MapInitialiser
  BY <1>8 DEF MapInitialiser, ListInv, GlobsInv, RankedGlobs
<1>9. CASE InitialisersMapped
  <2>1. pc = "initialisers" /\ Holds(globs, Range(m.globs), {})
    BY <1>1, <1>9 DEF InitialisersMapped, GoTo
  <2>2. Range(m.globs) \ Reached(bucket, 0, 1) = Range(m.globs)
    BY <1>0, ReachedStart
  <2> QED  BY <1>9, <2>1, <2>2 DEF InitialisersMapped, GoTo, ListInv, GlobsInv, RankedGlobs
<1>10. CASE EraseGlobal
  BY <1>10, EraseGlobalList DEF EraseGlobal, At, ListInv, GlobsInv, RankedGlobs
<1>11. CASE NextLevel
  <2>1. Reached(bucket, lev', pos') = Reached(bucket, lev, pos)
    BY <1>0, <1>11, ReachedLevel DEF NextLevel
  <2> QED  BY <1>11, <2>1 DEF NextLevel, ListInv, GlobsInv, RankedGlobs
<1>12. CASE GlobalsErased
  <2>1. Reached(bucket, lev, pos) = InBuckets(bucket) /\ Reached(bucket, 0, 1) = {}
    BY <1>0, <1>12, ReachedStart, ReachedEnd DEF GlobalsErased, GoTo
  <2> QED  BY <1>12, <2>1 DEF GlobalsErased, GoTo, ListInv, GlobsInv, RankedGlobs
<1>13. CASE InsertGlobal
  BY <1>13, InsertGlobalList DEF InsertGlobal, At, ListInv, GlobsInv, RankedGlobs
<1>14. CASE GlobalsInserted
  <2>1. Reached(bucket, lev, pos) = InBuckets(bucket)
    BY <1>0, <1>14, ReachedEnd DEF GlobalsInserted, GoTo
  <2> QED  BY <1>14, <2>1 DEF GlobalsInserted, GoTo, ListInv, GlobsInv, RankedGlobs
<1>15. CASE UNCHANGED vars
  BY <1>15 DEF vars, ListInv, GlobsInv, RankedGlobs
<1> QED
  BY <1>2, <1>3, <1>4, <1>5, <1>6, <1>7, <1>8, <1>9, <1>10, <1>11, <1>12, <1>13, <1>14, <1>15
     DEF Next, Stopped

LEMMA ListStep == TypeOK /\ ListInv /\ [Next]_vars => ListInv'
  BY FunsStep, GlobsStep DEF ListInv

(* Type correctness of the placement.                                       *)
THEOREM TypeCorrect == Spec => []TypeOK
  BY TypeInit, ListInit, TypeStep, ListStep, PTL DEF Spec


-----------------------------------------------------------------------------
(* The names of the lists.                                                  *)

LEMMA NamesHeld ==
  ASSUME NEW list \in Seq(Value), NEW A, NEW C, Holds(list, A, C)
  PROVE  IsInjective(NamesOf(list)) /\ Range(NamesOf(list)) = A \cup C
<1>1. IsInjective(NamesOf(list))
  BY DEF Holds
<1>2. Range(NamesOf(list)) = { v[1] : v \in Range(list) }
  BY DEF NamesOf, Range
<1> QED  BY <1>1, <1>2, Values DEF Holds

(* No name is in the module twice, and in the end every name is there.      *)
THEOREM NamesStayUnique == Spec => []EachNameOnce
<1>1. TypeOK /\ ListInv => EachNameOnce
  <2> SUFFICES ASSUME TypeOK, ListInv PROVE EachNameOnce
    OBVIOUS
  <2>1. /\ m.funs \in Seq(Name) /\ m.globs \in Seq(Name)
        /\ IsInjective(m.funs) /\ IsInjective(m.globs)
        /\ funs \in Seq(Value) /\ globs \in Seq(Value) /\ pc \in Phase
        /\ RankedFuns \subseteq Range(m.funs) /\ RankedGlobs \subseteq Range(m.globs)
    BY ModuleShape DEF TypeOK, WellNamed, RankedFuns, RankedGlobs, Ranked
  <2>2. IsInjective(NamesOf(funs))
    BY <2>1, OriginalsHold DEF ListInv, FunsInv, Holds, Phase
  <2>3. IsInjective(NamesOf(globs))
    BY <2>1, OriginalsHold DEF ListInv, GlobsInv, Holds, Phase
  <2>4. ASSUME pc = "done"
        PROVE  /\ Range(NamesOf(funs)) = Range(m.funs)
               /\ Range(NamesOf(globs)) = Range(m.globs)
    <3>1. /\ Holds(funs, Range(m.funs) \ RankedFuns, RankedFuns)
          /\ Holds(globs, Range(m.globs) \ RankedGlobs, RankedGlobs)
      BY <2>4 DEF ListInv, FunsInv, GlobsInv
    <3>2. Range(NamesOf(funs)) = (Range(m.funs) \ RankedFuns) \cup RankedFuns
      BY <2>1, <3>1, NamesHeld
    <3>3. Range(NamesOf(globs)) = (Range(m.globs) \ RankedGlobs) \cup RankedGlobs
      BY <2>1, <3>1, NamesHeld
    <3> QED  BY <2>1, <3>2, <3>3
  <2> QED  BY <2>2, <2>3, <2>4 DEF EachNameOnce
<1> QED  BY <1>1, TypeInit, ListInit, TypeStep, ListStep, PTL DEF Spec

-----------------------------------------------------------------------------
(* Crashes.                                                                 *)

(* The functions the first loop has passed are no annotated declarations.   *)
AnnotationsInv ==
  /\ pc = "functions" =>
       \A n \in Seen(m.funs, pos) : m.attr[n] # None => n \in m.defs
  /\ pc \notin {"functions", "crashed"} =>
       \A n \in Range(m.funs) : m.attr[n] # None => n \in m.defs
  /\ pc = "crashed" =>
       \/ \E n \in Name : Annotated(n) /\ (n \notin m.defs \/ m.attr[n] = TooLarge)
       \/ \E n \in Range(m.globs) : m.level[n] = TooLarge

LEMMA AnnotationsStep ==
  TypeOK /\ ListInv /\ AnnotationsInv /\ [Next]_vars => AnnotationsInv'
<1> SUFFICES ASSUME TypeOK, ListInv, AnnotationsInv, [Next]_vars PROVE AnnotationsInv'
  OBVIOUS
<1>0. m \in Modules /\ m.funs \in Seq(Name) /\ IsInjective(m.funs) /\ pos \in Nat
  BY ModuleShape DEF TypeOK, WellNamed
<1>1. CASE PlaceUnannotated \/ CopyFunction
  <2>1. /\ pc = "functions" /\ pc' = pc /\ m' = m /\ pos' = pos + 1 /\ pos \in DOMAIN m.funs
        /\ m.attr[m.funs[pos]] = None \/ m.funs[pos] \in m.defs
    BY <1>1, AtFunction DEF PlaceUnannotated, CopyFunction
  <2>2. Seen(m.funs, pos + 1) = Seen(m.funs, pos) \cup {m.funs[pos]}
    BY <1>0, <2>1, SeenShape
  <2> QED  BY <2>1, <2>2 DEF AnnotationsInv
<1>2. CASE FunctionsCopied
  <2>1. pc = "functions" /\ pc' = "erase functions" /\ m' = m /\ pos > Len(funs)
    BY <1>2 DEF FunctionsCopied, GoTo
  <2>2. funs \in Seq(Value) /\ DOMAIN funs = DOMAIN m.funs
    BY <1>0, <2>1, OriginalsHold DEF ListInv, FunsInv
  <2>3. Len(funs) = Len(m.funs)
    BY <1>0, <2>2, SeqShape
  <2>4. Seen(m.funs, pos) = Range(m.funs)
    BY <1>0, <2>1, <2>3, SeenShape
  <2> QED  BY <2>1, <2>4 DEF AnnotationsInv
<1>3. CASE CrashOnDeclaration
  <2>1. /\ pc' = "crashed" /\ m' = m /\ m.funs[pos] \in Name /\ m.funs[pos] \in Range(m.funs)
        /\ m.attr[m.funs[pos]] # None /\ m.funs[pos] \notin m.defs
    BY <1>3, AtFunction DEF CrashOnDeclaration
  <2> QED  BY <2>1 DEF AnnotationsInv, Annotated
<1>4. CASE CrashOnLevel
  <2>1. pc' = "crashed" /\ m' = m /\ TooLarge # None
    BY <1>4, LevelsAssumption DEF CrashOnLevel, TooLarge
  <2>2. CASE pc = "functions"
    <3>1. /\ m.funs[pos] \in Name /\ m.funs[pos] \in Range(m.funs)
          /\ m.attr[m.funs[pos]] = TooLarge
      BY <1>4, <2>2, AtFunction DEF CrashOnLevel
    <3> QED  BY <2>1, <3>1 DEF AnnotationsInv, Annotated
  <2>3. CASE pc # "functions"
    <3>1. m.globs[pos] \in Range(m.globs) /\ m.level[m.globs[pos]] = TooLarge
      BY <1>4, <2>3, AtGlobal DEF CrashOnLevel
    <3> QED  BY <2>1, <3>1 DEF AnnotationsInv
  <2> QED  BY <2>2, <2>3
<1>5. CASE EraseFunction \/ FunctionsErased \/ InsertFunction \/ FunctionsInserted \/ NextLevel
  BY <1>5 DEF EraseFunction, FunctionsErased, InsertFunction, FunctionsInserted, NextLevel,
              GoTo, At, AnnotationsInv, Annotated
<1>6. CASE CopyGlobal \/ GlobalsCopied \/ MapInitialiser \/ InitialisersMapped
  BY <1>6 DEF CopyGlobal, GlobalsCopied, MapInitialiser, InitialisersMapped,
              GoTo, AnnotationsInv, Annotated
<1>7. CASE EraseGlobal \/ GlobalsErased \/ InsertGlobal \/ GlobalsInserted
  BY <1>7 DEF EraseGlobal, GlobalsErased, InsertGlobal, GlobalsInserted,
              GoTo, At, AnnotationsInv, Annotated
<1>8. CASE UNCHANGED vars
  BY <1>8 DEF vars, AnnotationsInv, Annotated
<1> QED  BY <1>1, <1>2, <1>3, <1>4, <1>5, <1>6, <1>7, <1>8 DEF Next, Stopped

(* The pass crashes on an annotated declaration, always, and otherwise only *)
(* on a number that is no level.                                            *)
THEOREM CrashesOnlyOnAnnotation == Spec => []CrashesOnAnnotation
<1>1. Init => AnnotationsInv
  <2> SUFFICES ASSUME Init PROVE AnnotationsInv
    OBVIOUS
  <2>1. Seen(m.funs, 1) = {}
    BY ModuleShape, SeenShape DEF Init, WellNamed
  <2> QED  BY <2>1 DEF Init, AnnotationsInv
<1>2. AnnotationsInv => CrashesOnAnnotation
  BY DEF AnnotationsInv, CrashesOnAnnotation, Annotated
<1> QED
  BY <1>1, <1>2, TypeInit, ListInit, TypeStep, ListStep, AnnotationsStep, PTL DEF Spec

-----------------------------------------------------------------------------
(* Sections: that of a function without annotation is set once the first    *)
(* loop has passed it, that of a copy when it is inserted.                  *)

PassedFuns == IF pc = "functions" THEN Seen(m.funs, pos) ELSE Range(m.funs)

CopiedNames(list) == { n \in Name : Copy(n) \in Range(list) }

SectionInv ==
  /\ pc # "crashed" =>
       \A n \in Name : section[Original(n)] =
         IF n \in PassedFuns /\ m.attr[n] = None THEN LeastPrivileged ELSE None
  /\ \A n \in Name : section[Copy(n)] =
       IF n \in CopiedNames(funs) THEN m.attr[n] ELSE IF n \in CopiedNames(globs) THEN m.level[n] ELSE None
  /\ usedFun = {LeastPrivileged} \cup { m.attr[n] : n \in CopiedNames(funs) }
  /\ usedVar = {LeastPrivileged} \cup { m.level[n] : n \in CopiedNames(globs) }

LEMMA CopiesHeld ==
  ASSUME NEW list, NEW A \in SUBSET Name, NEW C \in SUBSET Name, Holds(list, A, C)
  PROVE  CopiedNames(list) = C
  BY Values DEF Holds, CopiedNames

LEMMA ImageGrows ==
  ASSUME NEW f, NEW S, NEW T, NEW x, NEW y, T = S \cup {x}, f[x] = y
  PROVE  { f[n] : n \in T } = { f[n] : n \in S } \cup {y}
  OBVIOUS

LEMMA SectionStep ==
  TypeOK /\ ListInv /\ SectionInv /\ [Next]_vars => SectionInv'
<1> SUFFICES ASSUME TypeOK, ListInv, SectionInv, [Next]_vars PROVE SectionInv'
  OBVIOUS
<1>0. /\ m \in Modules /\ m.funs \in Seq(Name) /\ IsInjective(m.funs) /\ pos \in Nat
      /\ Range(m.funs) \cap Range(m.globs) = {}
      /\ Range(m.funs) \subseteq Name /\ Range(m.globs) \subseteq Name
      /\ section \in [Value -> Level \cup {None}] /\ funs \in Seq(Value) /\ globs \in Seq(Value)
  BY ModuleShape DEF TypeOK, WellNamed
<1>1. CASE PlaceUnannotated
  <2> DEFINE n == m.funs[pos]
  <2>1. /\ pc = "functions" /\ pos \in DOMAIN m.funs /\ m.attr[n] = None /\ n \in Name
        /\ section' = [section EXCEPT ![Original(n)] = LeastPrivileged]
        /\ pos' = pos + 1
        /\ UNCHANGED <<m, funs, globs, usedFun, usedVar, pc>>
    BY <1>1, AtFunction DEF PlaceUnannotated
  <2>2. Seen(m.funs, pos + 1) = Seen(m.funs, pos) \cup {n}
    BY <1>0, <2>1, SeenShape
  <2>3. PassedFuns' = PassedFuns \cup {n}
    BY <2>1, <2>2 DEF PassedFuns
  <2> HIDE DEF n
  <2>4. \A x \in Name : /\ section'[Copy(x)] = section[Copy(x)]
                       /\ section'[Original(x)] = IF x = n THEN LeastPrivileged ELSE section[Original(x)]
    BY <1>0, <2>1, Values
  <2> QED  BY <2>1, <2>3, <2>4 DEF SectionInv, CopiedNames
<1>2. CASE CopyFunction
  <2> DEFINE n == m.funs[pos]
  <2>1. /\ pc = "functions" /\ pos \in DOMAIN m.funs /\ m.attr[n] # None
        /\ pos' = pos + 1
        /\ UNCHANGED <<m, funs, globs, section, usedFun, usedVar, pc>>
    BY <1>2, AtFunction DEF CopyFunction
  <2>2. Seen(m.funs, pos + 1) = Seen(m.funs, pos) \cup {n}
    BY <1>0, <2>1, SeenShape
  <2>3. PassedFuns' = PassedFuns \cup {n}
    BY <2>1, <2>2 DEF PassedFuns
  <2> QED  BY <2>1, <2>3 DEF SectionInv, CopiedNames
<1>3. CASE FunctionsCopied
  <2>1. pc = "functions" /\ pos > Len(funs)
    BY <1>3 DEF FunctionsCopied, GoTo
  <2>2. funs \in Seq(Value) /\ DOMAIN funs = DOMAIN m.funs
    BY <1>0, <2>1, OriginalsHold DEF ListInv, FunsInv
  <2>3. Len(funs) = Len(m.funs)
    BY <1>0, <2>2, SeqShape
  <2>4. Seen(m.funs, pos) = Range(m.funs)
    BY <1>0, <2>1, <2>3, SeenShape
  <2>5. PassedFuns' = PassedFuns
    BY <1>3, <2>1, <2>4 DEF FunctionsCopied, GoTo, PassedFuns
  <2> QED  BY <1>3, <2>1, <2>5 DEF FunctionsCopied, GoTo, SectionInv, CopiedNames
<1>4. CASE EraseFunction
  <2>1. /\ pc = "erase functions" /\ pc' = pc
        /\ UNCHANGED <<m, globs, section, usedFun, usedVar>>
    BY <1>4 DEF EraseFunction, At
  <2>2. CopiedNames(funs) = {}
    <3>1. Holds(funs, Range(m.funs) \ Reached(bucket, lev, pos), {})
      BY <2>1 DEF ListInv, FunsInv
    <3> QED  BY <1>0, <3>1, CopiesHeld
  <2>3. CopiedNames(funs') = {}
    <3>1. Holds(funs', Range(m.funs) \ Reached(bucket, lev, pos + 1), {})
      BY <1>4, EraseFunctionList DEF ListInv
    <3> QED  BY <1>0, <3>1, CopiesHeld
  <2> QED  BY <2>1, <2>2, <2>3 DEF SectionInv, PassedFuns
<1>5. CASE InsertFunction
  <2>1. /\ pc = "insert functions" /\ pc' = pc
        /\ section' = [section EXCEPT ![Copy(Item)] = lev] /\ usedFun' = usedFun \cup {lev}
        /\ UNCHANGED <<m, globs, usedVar>>
    BY <1>5 DEF InsertFunction, At
  <2>2. Item \in Name /\ m.attr[Item] = lev /\ Range(funs') = Range(funs) \cup {Copy(Item)}
    BY <1>5, InsertFunctionList DEF ListInv
  <2>3. CopiedNames(funs') = CopiedNames(funs) \cup {Item}
    BY <2>2, Values DEF CopiedNames
  <2>4. \A x \in Name : /\ section'[Original(x)] = section[Original(x)]
                       /\ section'[Copy(x)] = IF x = Item THEN lev ELSE section[Copy(x)]
    BY <1>0, <2>1, <2>2, Values
  <2>5. usedFun' = {LeastPrivileged} \cup { m.attr[n] : n \in CopiedNames(funs') }
    <3>1. { m.attr[n] : n \in CopiedNames(funs') } = { m.attr[n] : n \in CopiedNames(funs) } \cup {lev}
      BY <2>2, <2>3, ImageGrows
    <3> QED  BY <2>1, <3>1 DEF SectionInv
  <2>6. \A n \in Name : section'[Copy(n)] =
          IF n \in CopiedNames(funs') THEN m.attr[n]
          ELSE IF n \in CopiedNames(globs) THEN m.level[n] ELSE None
    BY <2>2, <2>3, <2>4 DEF SectionInv
  <2>7. \A n \in Name : section'[Original(n)] =
          IF n \in PassedFuns /\ m.attr[n] = None THEN LeastPrivileged ELSE None
    BY <2>1, <2>4 DEF SectionInv
  <2>8. PassedFuns' = PassedFuns
    BY <2>1 DEF PassedFuns
  <2>9. usedVar' = {LeastPrivileged} \cup { m.level[n] : n \in CopiedNames(globs) }
    BY <2>1 DEF SectionInv
  <2>10. m' = m /\ globs' = globs
    BY <2>1
  <2> QED  BY <2>5, <2>6, <2>7, <2>8, <2>9, <2>10 DEF SectionInv
<1>6. CASE FunctionsErased \/ FunctionsInserted
  BY ZenonT(40), <1>6 DEF FunctionsErased, FunctionsInserted, GoTo, SectionInv, PassedFuns, CopiedNames
<1>7. CASE NextLevel
  BY <1>7 DEF NextLevel, SectionInv, PassedFuns, CopiedNames
<1>8. CASE CopyGlobal \/ GlobalsCopied \/ MapInitialiser \/ InitialisersMapped
  BY ZenonT(40), <1>8 DEF CopyGlobal, GlobalsCopied, MapInitialiser, InitialisersMapped, GoTo,
              SectionInv, PassedFuns, CopiedNames
<1>9. CASE EraseGlobal
  <2>1. /\ pc = "erase globals" /\ pc' = pc
        /\ UNCHANGED <<m, funs, section, usedFun, usedVar>>
    BY <1>9 DEF EraseGlobal, At
  <2>2. CopiedNames(globs) = {}
    <3>1. Holds(globs, Range(m.globs) \ Reached(bucket, lev, pos), {})
      BY <2>1 DEF ListInv, GlobsInv
    <3> QED  BY <1>0, <3>1, CopiesHeld
  <2>3. CopiedNames(globs') = {}
    <3>1. Holds(globs', Range(m.globs) \ Reached(bucket, lev, pos + 1), {})
      BY <1>9, EraseGlobalList DEF ListInv
    <3> QED  BY <1>0, <3>1, CopiesHeld
  <2> QED  BY <2>1, <2>2, <2>3 DEF SectionInv, PassedFuns
<1>10. CASE InsertGlobal
  <2>1. /\ pc = "insert globals" /\ pc' = pc
        /\ section' = [section EXCEPT ![Copy(Item)] = lev] /\ usedVar' = usedVar \cup {lev}
        /\ UNCHANGED <<m, funs, usedFun>>
    BY <1>10 DEF InsertGlobal, At
  <2>2. /\ Item \in RankedGlobs /\ Item \in Name /\ m.level[Item] = lev
        /\ Range(globs') = Range(globs) \cup {Copy(Item)}
    BY <1>10, InsertGlobalList DEF ListInv
  <2>3. CopiedNames(globs') = CopiedNames(globs) \cup {Item}
    BY <2>2, Values DEF CopiedNames
  <2>4. Item \notin CopiedNames(funs)
    <3>1. Holds(funs, Range(m.funs) \ RankedFuns, RankedFuns) /\ RankedFuns \subseteq Range(m.funs)
      BY <2>1 DEF ListInv, FunsInv, RankedFuns, Ranked
    <3>2. RankedFuns \in SUBSET Name /\ Range(m.funs) \ RankedFuns \in SUBSET Name
      BY <1>0, <3>1
    <3>3. CopiedNames(funs) = RankedFuns
      BY <3>1, <3>2, CopiesHeld
    <3> QED  BY <1>0, <2>2, <3>1, <3>3 DEF RankedGlobs, Ranked
  <2>5. \A x \in Name : /\ section'[Original(x)] = section[Original(x)]
                       /\ section'[Copy(x)] = IF x = Item THEN lev ELSE section[Copy(x)]
    BY <1>0, <2>1, <2>2, Values
  <2>6. usedVar' = {LeastPrivileged} \cup { m.level[n] : n \in CopiedNames(globs') }
    <3>1. { m.level[n] : n \in CopiedNames(globs') } = { m.level[n] : n \in CopiedNames(globs) } \cup {lev}
      BY <2>2, <2>3, ImageGrows
    <3> QED  BY <2>1, <3>1 DEF SectionInv
  <2>7. \A n \in Name : section'[Copy(n)] =
          IF n \in CopiedNames(funs) THEN m.attr[n]
          ELSE IF n \in CopiedNames(globs') THEN m.level[n] ELSE None
    BY <2>2, <2>3, <2>4, <2>5 DEF SectionInv
  <2>8. \A n \in Name : section'[Original(n)] =
          IF n \in PassedFuns /\ m.attr[n] = None THEN LeastPrivileged ELSE None
    BY <2>1, <2>5 DEF SectionInv
  <2>9. PassedFuns' = PassedFuns
    BY <2>1 DEF PassedFuns
  <2>10. usedFun' = {LeastPrivileged} \cup { m.attr[n] : n \in CopiedNames(funs) }
    BY <2>1 DEF SectionInv
  <2>11. m' = m /\ funs' = funs
    BY <2>1
  <2> QED  BY <2>6, <2>7, <2>8, <2>9, <2>10, <2>11 DEF SectionInv
<1>11. CASE GlobalsErased \/ GlobalsInserted
  BY ZenonT(40), <1>11 DEF GlobalsErased, GlobalsInserted, GoTo, SectionInv, PassedFuns, CopiedNames
<1>12. CASE CrashOnDeclaration \/ CrashOnLevel
  BY <1>12 DEF CrashOnDeclaration, CrashOnLevel, SectionInv, CopiedNames
<1>13. CASE UNCHANGED vars
  BY <1>13 DEF vars, SectionInv, PassedFuns, CopiedNames
<1> QED
  BY <1>1, <1>2, <1>3, <1>4, <1>5, <1>6, <1>7, <1>8, <1>9, <1>10, <1>11, <1>12, <1>13
     DEF Next, Stopped

(* In the end everything is in the section of its level, and the levels     *)
(* marked as used are those that hold something.                            *)
THEOREM EverythingIsPlaced == Spec => []PlacedByLevel
<1>1. Init => SectionInv
  <2> SUFFICES ASSUME Init PROVE SectionInv
    OBVIOUS
  <2>1. /\ m \in Modules /\ m.funs \in Seq(Name) /\ IsInjective(m.funs)
        /\ m.globs \in Seq(Name) /\ IsInjective(m.globs)
        /\ Range(m.funs) \subseteq Name /\ Range(m.globs) \subseteq Name
    BY ModuleShape DEF Init, WellNamed
  <2>2. CopiedNames(funs) = {} /\ CopiedNames(globs) = {}
    <3>1. Holds(funs, Range(m.funs), {}) /\ Holds(globs, Range(m.globs), {})
      BY <2>1, OriginalsHold DEF Init, Originals
    <3> QED  BY <2>1, <3>1, CopiesHeld
  <2>3. PassedFuns = {}
    BY <2>1, SeenShape DEF Init, PassedFuns
  <2> QED  BY <2>2, <2>3, Values DEF Init, SectionInv
<1>2. TypeOK /\ ListInv /\ SectionInv => PlacedByLevel
  <2> SUFFICES ASSUME TypeOK, ListInv, SectionInv, pc = "done"
               PROVE  /\ \A v \in Range(funs) \cup Range(globs) :
                           section[v] = IF LevelOf(v) \in Level THEN LevelOf(v) ELSE None
                      /\ usedFun = {LeastPrivileged} \cup ({ section[v] : v \in Range(funs) } \ {None})
                      /\ usedVar = {LeastPrivileged} \cup ({ section[v] : v \in Range(globs) } \ {None})
    BY DEF PlacedByLevel
  <2>0. /\ Range(m.funs) \cap Range(m.globs) = {}
        /\ Range(m.funs) \subseteq Name /\ Range(m.globs) \subseteq Name
        /\ RankedFuns \subseteq Range(m.funs) /\ RankedGlobs \subseteq Range(m.globs)
        /\ \A n \in Name : m.attr[n] \in Level \cup {None, TooLarge} /\ m.level[n] \in Level \cup {TooLarge}
    <3>1. m \in Modules
      BY DEF TypeOK
    <3>2. \A n \in Name : m.attr[n] \in Level \cup {None, TooLarge} /\ m.level[n] \in Level \cup {TooLarge}
      BY <3>1, ModuleShape
    <3> QED  BY <3>1, <3>2, ModuleShape DEF WellNamed, RankedFuns, RankedGlobs, Ranked
  <2>1. /\ Holds(funs, Range(m.funs) \ RankedFuns, RankedFuns)
        /\ Holds(globs, Range(m.globs) \ RankedGlobs, RankedGlobs)
    BY DEF ListInv, FunsInv, GlobsInv
  <2>2. CopiedNames(funs) = RankedFuns /\ CopiedNames(globs) = RankedGlobs
    <3>1. /\ RankedFuns \in SUBSET Name /\ Range(m.funs) \ RankedFuns \in SUBSET Name
          /\ RankedGlobs \in SUBSET Name /\ Range(m.globs) \ RankedGlobs \in SUBSET Name
      BY <2>0
    <3> QED  BY <2>1, <3>1, CopiesHeld
  <2>3. ASSUME NEW v \in Range(funs)
        PROVE  v \notin Range(globs) /\ section[v] = IF LevelOf(v) \in Level THEN LevelOf(v) ELSE None
    <3>1. v \notin Range(globs)
      BY <2>0, <2>1, Values DEF Holds
    <3>2. CASE v \in { Original(n) : n \in Range(m.funs) \ RankedFuns }
      <4>1. PICK n \in Range(m.funs) \ RankedFuns : v = Original(n)
        BY <3>2
      <4>2. n \in Name /\ m.attr[n] \in {None, TooLarge} /\ v[1] = n
        BY <2>0, <4>1, Values DEF RankedFuns, Ranked
      <4>3. section[v] = IF m.attr[n] = None THEN LeastPrivileged ELSE None
        BY <4>1, <4>2 DEF SectionInv, PassedFuns
      <4> QED  BY <3>1, <4>2, <4>3, LevelShape DEF LevelOf
    <3>3. CASE v \in { Copy(n) : n \in RankedFuns }
      <4>1. PICK n \in RankedFuns : v = Copy(n)
        BY <3>3
      <4>2. n \in Name /\ m.attr[n] \in Level /\ v[1] = n
        BY <2>0, <4>1, Values DEF RankedFuns, Ranked
      <4>3. section[v] = m.attr[n]
        BY <2>2, <4>1, <4>2 DEF SectionInv
      <4> QED  BY <3>1, <4>2, <4>3, LevelShape DEF LevelOf
    <3> QED  BY <2>1, <3>1, <3>2, <3>3 DEF Holds
  <2>4. ASSUME NEW v \in Range(globs)
        PROVE  section[v] = IF LevelOf(v) \in Level THEN LevelOf(v) ELSE None
    <3>1. CASE v \in { Original(n) : n \in Range(m.globs) \ RankedGlobs }
      <4>1. PICK n \in Range(m.globs) \ RankedGlobs : v = Original(n)
        BY <3>1
      <4>2. n \in Name /\ n \notin Range(m.funs) /\ m.level[n] \notin Level /\ v[1] = n
        BY <2>0, <4>1, Values DEF RankedGlobs, Ranked
      <4>3. section[v] = None
        BY <4>1, <4>2 DEF SectionInv, PassedFuns
      <4> QED  BY <4>2, <4>3 DEF LevelOf
    <3>2. CASE v \in { Copy(n) : n \in RankedGlobs }
      <4>1. PICK n \in RankedGlobs : v = Copy(n)
        BY <3>2
      <4>2. n \in Name /\ n \notin RankedFuns /\ m.level[n] \in Level /\ v[1] = n
        BY <2>0, <4>1, Values DEF RankedGlobs, Ranked
      <4>3. section[v] = m.level[n]
        BY <2>2, <4>1, <4>2 DEF SectionInv
      <4> QED  BY <4>2, <4>3 DEF LevelOf
    <3> QED  BY <2>1, <3>1, <3>2 DEF Holds
  <2>5. ASSUME NEW l
        PROVE  l \in {LeastPrivileged} \cup { m.attr[n] : n \in RankedFuns }
                 <=> l \in {LeastPrivileged} \cup ({ section[v] : v \in Range(funs) } \ {None})
    <3>1. ASSUME NEW n \in RankedFuns
          PROVE  Copy(n) \in Range(funs) /\ section[Copy(n)] = m.attr[n] /\ m.attr[n] # None
      BY <2>0, <2>1, <2>2, LevelShape DEF Holds, SectionInv, RankedFuns, Ranked
    <3>2. ASSUME NEW v \in Range(funs), section[v] # None
          PROVE  section[v] = LeastPrivileged \/ \E n \in RankedFuns : section[v] = m.attr[n]
      <4>1. CASE v \in { Original(n) : n \in Range(m.funs) \ RankedFuns }
        BY <2>0, <3>2, <4>1 DEF SectionInv
      <4>2. CASE v \in { Copy(n) : n \in RankedFuns }
        BY <3>1, <4>2
      <4> QED  BY <2>1, <4>1, <4>2 DEF Holds
    <3> QED  BY <3>1, <3>2
  <2>6. ASSUME NEW l
        PROVE  l \in {LeastPrivileged} \cup { m.level[n] : n \in RankedGlobs }
                 <=> l \in {LeastPrivileged} \cup ({ section[v] : v \in Range(globs) } \ {None})
    <3>1. ASSUME NEW n \in RankedGlobs
          PROVE  Copy(n) \in Range(globs) /\ section[Copy(n)] = m.level[n] /\ m.level[n] # None
      <4>1. n \in Name /\ n \notin RankedFuns /\ m.level[n] \in Level
        BY <2>0 DEF RankedGlobs, Ranked
      <4> QED  BY <2>1, <2>2, <4>1, LevelShape DEF Holds, SectionInv
    <3>2. ASSUME NEW v \in Range(globs), section[v] # None
          PROVE  section[v] = LeastPrivileged \/ \E n \in RankedGlobs : section[v] = m.level[n]
      <4>1. CASE v \in { Original(n) : n \in Range(m.globs) \ RankedGlobs }
        BY <2>0, <3>2, <4>1 DEF SectionInv
      <4>2. CASE v \in { Copy(n) : n \in RankedGlobs }
        BY <3>1, <4>2
      <4> QED  BY <2>1, <4>1, <4>2 DEF Holds
    <3> QED  BY <3>1, <3>2
  <2>7. /\ usedFun = {LeastPrivileged} \cup { m.attr[n] : n \in RankedFuns }
        /\ usedVar = {LeastPrivileged} \cup { m.level[n] : n \in RankedGlobs }
    BY <2>2 DEF SectionInv
  <2> QED  BY <2>3, <2>4, <2>5, <2>6, <2>7
<1> QED
  BY <1>1, <1>2, TypeInit, ListInit, TypeStep, ListStep, SectionStep, PTL DEF Spec

-----------------------------------------------------------------------------
(* References to values that are erased.                                    *)

(* Only labels of functions are taken the address of.                       *)
LabelInv == \A v \in Value : \A w \in labels[v] \ {Zapped} : w[1] \in Range(m.funs)

(* What happens to the module when one original is erased.                  *)
LEMMA Gone ==
  ASSUME TypeOK, ListInv, EraseFunction \/ EraseGlobal
  PROVE  /\ Item \in Name /\ InModule' = InModule \ {Original(Item)}
         /\ EraseFunction => Item \in RankedFuns
         /\ EraseGlobal => Item \in RankedGlobs
<1>0. /\ Range(m.funs) \cap Range(m.globs) = {}
      /\ m.aliases \cap (Range(m.funs) \cup Range(m.globs)) = {}
      /\ RankedFuns \subseteq Range(m.funs) /\ RankedGlobs \subseteq Range(m.globs)
  BY ModuleShape DEF TypeOK, WellNamed, RankedFuns, RankedGlobs, Ranked
<1>1. CASE EraseFunction
  <2>1. /\ Item \in Name /\ Item \in RankedFuns
        /\ Range(funs') = Range(funs) \ {Original(Item)} /\ m' = m /\ globs' = globs
    BY <1>1, EraseFunctionList DEF ListInv, EraseFunction
  <2>2. globs = Originals(m.globs) /\ m.globs \in Seq(Name) /\ IsInjective(m.globs)
    BY <1>1, ModuleShape DEF EraseFunction, At, ListInv, GlobsInv, TypeOK, WellNamed
  <2>3. Range(globs) = { Original(n) : n \in Range(m.globs) }
    BY <2>2, OriginalsHold DEF Holds
  <2>4. Original(Item) \notin Range(globs) \cup { Original(n) : n \in m.aliases }
    BY <1>0, <2>1, <2>3, Values
  <2>5. ~EraseGlobal
    BY <1>1 DEF EraseFunction, EraseGlobal, At
  <2> QED  BY <2>1, <2>4, <2>5 DEF InModule
<1>2. CASE EraseGlobal
  <2>1. /\ Item \in Name /\ Item \in RankedGlobs
        /\ Range(globs') = Range(globs) \ {Original(Item)} /\ m' = m /\ funs' = funs
    BY <1>2, EraseGlobalList DEF ListInv, EraseGlobal
  <2>2. Holds(funs, Range(m.funs) \ RankedFuns, RankedFuns)
    BY <1>2 DEF EraseGlobal, At, ListInv, FunsInv
  <2>3. Original(Item) \notin Range(funs) \cup { Original(n) : n \in m.aliases }
    BY <1>0, <2>1, <2>2, Values DEF Holds
  <2>4. ~EraseFunction
    BY <1>2 DEF EraseFunction, EraseGlobal, At
  <2> QED  BY <2>1, <2>3, <2>4 DEF InModule
<1> QED  BY <1>1, <1>2

LEMMA Come ==
  ASSUME TypeOK, ListInv, InsertFunction \/ InsertGlobal
  PROVE  Item \in Name /\ InModule' = InModule \cup {Copy(Item)}
<1>1. CASE InsertFunction
  BY <1>1, InsertFunctionList DEF ListInv, InsertFunction, InModule
<1>2. CASE InsertGlobal
  BY <1>2, InsertGlobalList DEF ListInv, InsertGlobal, InModule
<1> QED  BY <1>1, <1>2

(* The steps that move no value and change no reference.                    *)
Quiet == UNCHANGED <<m, funs, globs, refs, labels>>

MovesOn ==
  \/ PlaceUnannotated \/ CrashOnDeclaration \/ CrashOnLevel \/ FunctionsCopied
  \/ FunctionsErased \/ FunctionsInserted \/ CopyGlobal \/ GlobalsCopied
  \/ InitialisersMapped \/ GlobalsErased \/ GlobalsInserted \/ NextLevel
  \/ UNCHANGED vars

LEMMA QuietSteps ==
  /\ [Next]_vars => \/ MovesOn \/ CopyFunction \/ MapInitialiser
                   \/ EraseFunction \/ EraseGlobal \/ InsertFunction \/ InsertGlobal
  /\ MovesOn => Quiet
<1>1. [Next]_vars => \/ MovesOn \/ CopyFunction \/ MapInitialiser
                    \/ EraseFunction \/ EraseGlobal \/ InsertFunction \/ InsertGlobal
  BY DEF Next, MovesOn, Stopped
<1>2. MovesOn => Quiet
  BY DEF MovesOn, vars, Quiet, PlaceUnannotated, CrashOnDeclaration, CrashOnLevel,
         FunctionsCopied, FunctionsErased, FunctionsInserted, CopyGlobal, GlobalsCopied,
         InitialisersMapped, GlobalsErased, GlobalsInserted, NextLevel
<1> QED  BY <1>1, <1>2

LEMMA LabelStep == TypeOK /\ ListInv /\ LabelInv /\ [Next]_vars => LabelInv'
<1> SUFFICES ASSUME TypeOK, ListInv, LabelInv, [Next]_vars PROVE LabelInv'
  OBVIOUS
<1>0. labels \in [Value -> SUBSET (Value \cup {Zapped})]
  BY DEF TypeOK
<1>1. CASE MovesOn \/ InsertFunction \/ InsertGlobal
  BY <1>1, QuietSteps DEF Quiet, InsertFunction, InsertGlobal, LabelInv
<1>2. CASE CopyFunction
  <2> DEFINE n == m.funs[pos]
  <2>1. /\ n \in Name /\ n \in Range(m.funs) /\ m' = m
        /\ labels' = [labels EXCEPT ![Copy(n)] = Replaced(labels[Original(n)], Original(n), Copy(n))]
    BY <1>2, AtFunction DEF CopyFunction
  <2> HIDE DEF n
  <2>2. ASSUME NEW v \in Value, NEW w \in labels'[v]
        PROVE  w \in labels[v] \/ w \in labels[Original(n)] \/ w = Copy(n)
    BY <1>0, <2>1, <2>2, Values DEF Replaced
  <2> QED  BY <2>1, <2>2, Values DEF LabelInv
<1>3. CASE MapInitialiser
  <2> DEFINE n == m.globs[pos]
  <2>1. /\ n \in Name /\ m' = m /\ labels' = [labels EXCEPT ![Copy(n)] = labels[Original(n)]]
    BY <1>3, AtGlobal DEF MapInitialiser
  <2> HIDE DEF n
  <2>2. \A v \in Value : labels'[v] = labels[v] \/ labels'[v] = labels[Original(n)]
    BY <1>0, <2>1
  <2> QED  BY <2>1, <2>2, Values DEF LabelInv
<1>4. CASE EraseFunction \/ EraseGlobal
  <2>1. m' = m /\ Item \in Name
    BY <1>4, Gone DEF EraseFunction, EraseGlobal
  <2>2. ASSUME NEW v \in Value, NEW w \in labels'[v]
        PROVE  w \in labels[v] \/ w = Zapped
    <3>1. CASE EraseFunction
      BY <1>0, <2>1, <2>2, <3>1, Values DEF EraseFunction, LabelsZapped, Replaced
    <3>2. CASE EraseGlobal
      BY <1>0, <2>1, <2>2, <3>2, Values DEF EraseGlobal
    <3> QED  BY <1>4, <3>1, <3>2
  <2> QED  BY <2>1, <2>2 DEF LabelInv
<1> QED  BY <1>1, <1>2, <1>3, <1>4, QuietSteps

LEMMA NoUseStep ==
  TypeOK /\ ListInv /\ LabelInv /\ NoUseOfErased /\ [Next]_vars => NoUseOfErased'
<1> SUFFICES ASSUME TypeOK, ListInv, LabelInv, NoUseOfErased, [Next]_vars PROVE NoUseOfErased'
  OBVIOUS
<1>0. /\ refs \in [Value -> SUBSET Value] /\ labels \in [Value -> SUBSET (Value \cup {Zapped})]
      /\ Range(m.funs) \cap Range(m.globs) = {}
  BY ModuleShape DEF TypeOK, WellNamed
<1>1. CASE MovesOn
  <2>1. InModule' = InModule
    BY <1>1, QuietSteps DEF Quiet, InModule
  <2> QED  BY <1>1, <2>1, QuietSteps DEF Quiet, NoUseOfErased, Erased
<1>2. CASE CopyFunction
  <2> DEFINE n == m.funs[pos]
  <2>1. /\ pos \in DOMAIN funs /\ funs[pos] = Original(n) /\ n \in Name
        /\ refs' = [refs EXCEPT ![Copy(n)] = refs[Original(n)]]
        /\ labels' = [labels EXCEPT ![Copy(n)] = Replaced(labels[Original(n)], Original(n), Copy(n))]
        /\ UNCHANGED <<m, funs, globs>>
    BY <1>2, AtFunction DEF CopyFunction
  <2> HIDE DEF n
  <2>2. InModule' = InModule
    BY <2>1 DEF InModule
  <2>3. Original(n) \in InModule
    BY <2>1 DEF InModule, Range
  <2>4. ASSUME NEW v \in Value, v \in InModule \/ v[2] = "copy",
               NEW w \in refs'[v] \cup (labels'[v] \ {Zapped})
        PROVE  ~Erased(w)
    <3>1. CASE v = Copy(n)
      <4>1. w \in refs[Original(n)] \cup (labels[Original(n)] \ {Zapped}) \/ w = Copy(n)
        BY <1>0, <2>1, <2>4, <3>1, Values DEF Replaced
      <4> QED  BY <2>1, <2>3, <4>1, Values DEF NoUseOfErased, Erased
    <3>2. CASE v # Copy(n)
      BY <1>0, <2>1, <2>4, <3>2 DEF NoUseOfErased
    <3> QED  BY <3>1, <3>2
  <2> QED  BY <2>2, <2>4 DEF NoUseOfErased, Erased
<1>3. CASE MapInitialiser
  <2> DEFINE n == m.globs[pos]
  <2>1. /\ pos \in DOMAIN globs /\ globs[pos] = Original(n) /\ n \in Name
        /\ refs' = [refs EXCEPT ![Copy(n)] = Mapped(refs[Original(n)])]
        /\ labels' = [labels EXCEPT ![Copy(n)] = labels[Original(n)]]
        /\ UNCHANGED <<m, funs, globs>>
    BY <1>3, AtGlobal DEF MapInitialiser
  <2> HIDE DEF n
  <2>2. InModule' = InModule
    BY <2>1 DEF InModule
  <2>3. Original(n) \in InModule
    BY <2>1 DEF InModule, Range
  <2>4. ASSUME NEW v \in Value, v \in InModule \/ v[2] = "copy",
               NEW w \in refs'[v] \cup (labels'[v] \ {Zapped})
        PROVE  ~Erased(w)
    <3>1. CASE v = Copy(n)
      <4>1. \/ w \in refs[Original(n)] \cup (labels[Original(n)] \ {Zapped})
            \/ w[2] = "copy"
        BY <1>0, <2>1, <2>4, <3>1, Values DEF Mapped
      <4> QED  BY <2>1, <2>3, <4>1, Values DEF NoUseOfErased, Erased
    <3>2. CASE v # Copy(n)
      BY <1>0, <2>1, <2>4, <3>2 DEF NoUseOfErased
    <3> QED  BY <3>1, <3>2
  <2> QED  BY <2>2, <2>4 DEF NoUseOfErased, Erased
<1>4. CASE EraseFunction \/ EraseGlobal
  <2>1. /\ Item \in Name /\ InModule' = InModule \ {Original(Item)}
        /\ EraseGlobal => Item \in Range(m.globs)
    BY <1>4, Gone DEF RankedGlobs, Ranked
  <2>2. ASSUME NEW v \in Value, v \in InModule \/ v[2] = "copy",
               NEW w \in refs'[v] \cup (labels'[v] \ {Zapped})
        PROVE  ~Erased(w) /\ w # Original(Item)
    <3>1. w \in refs'[v] => w = Copy(Item) \/ (w \in refs[v] /\ w # Original(Item))
      <4>1. refs' = [RefsRedirected(Item) EXCEPT ![Original(Item)] = {}]
        BY <1>4 DEF EraseFunction, EraseGlobal
      <4>2. v = Original(Item) => refs'[v] = {}
        BY <2>1, <4>1, Values DEF RefsRedirected
      <4>3. v # Original(Item) => refs'[v] = Replaced(refs[v], Original(Item), Copy(Item))
        BY <2>1, <4>1, Values DEF RefsRedirected
      <4> QED  BY <4>2, <4>3, Values DEF Replaced
    <3>2. w \in labels'[v] \ {Zapped} => w \in labels[v] \ {Zapped} /\ w # Original(Item)
      <4>1. CASE EraseFunction
        BY <1>0, <2>1, <4>1, Values DEF EraseFunction, LabelsZapped, Replaced
      <4>2. CASE EraseGlobal
        <5>1. w \in labels'[v] => w \in labels[v]
          BY <1>0, <2>1, <4>2, Values DEF EraseGlobal
        <5> QED  BY <1>0, <2>1, <4>2, <5>1, Values DEF LabelInv
      <4> QED  BY <1>4, <4>1, <4>2
    <3> QED  BY <2>2, <3>1, <3>2, Values DEF NoUseOfErased, Erased
  <2> QED  BY <2>1, <2>2 DEF NoUseOfErased, Erased
<1>5. CASE InsertFunction \/ InsertGlobal
  <2>1. Item \in Name /\ InModule' = InModule \cup {Copy(Item)} /\ UNCHANGED <<refs, labels>>
    BY <1>5, Come DEF InsertFunction, InsertGlobal
  <2> QED  BY <2>1, Values DEF NoUseOfErased, Erased
<1> QED  BY <1>1, <1>2, <1>3, <1>4, <1>5, QuietSteps

LEMMA RefsInit == Init => LabelInv /\ NoUseOfErased
<1> SUFFICES ASSUME Init PROVE LabelInv /\ NoUseOfErased
  OBVIOUS
<1>1. m \in Modules /\ WellNamed(m) /\ m.funs \in Seq(Name) /\ m.globs \in Seq(Name)
  BY ModuleShape DEF Init
<1>2. InModule = { Original(n) : n \in Named(m) }
  <2>1. Holds(funs, Range(m.funs), {}) /\ Holds(globs, Range(m.globs), {})
    BY <1>1, OriginalsHold DEF Init, Originals, WellNamed
  <2> QED  BY <2>1 DEF InModule, Holds, Named
<1>3. ASSUME NEW v \in Value, NEW w \in refs[v] \cup labels[v]
      PROVE  /\ w \in labels[v] => w[1] \in Range(m.funs)
             /\ ~Erased(w)
  <2>1. PICK x \in m.refs[v[1]] \cup m.labels[v[1]] :
          w = Original(x) /\ (w \in labels[v] => x \in m.labels[v[1]])
    BY <1>3, Values DEF Init
  <2>2. x \in Named(m) /\ (x \in m.labels[v[1]] => x \in Range(m.funs))
    BY <1>1, Values DEF WellNamed, Named
  <2> QED  BY <1>2, <2>1, <2>2, Values DEF Erased
<1> QED  BY <1>3 DEF LabelInv, NoUseOfErased

(* Nothing that is in the module, and no copy that will be, refers to an    *)
(* original that is gone.                                                   *)
THEOREM ErasedIsUnused == Spec => []NoUseOfErased
  BY TypeInit, ListInit, RefsInit, TypeStep, ListStep, LabelStep, NoUseStep, PTL DEF Spec

-----------------------------------------------------------------------------
(* The module keeps what it refers to.                                      *)

(* The names whose copies have been made, the functions whose originals are *)
(* gone, and the values that are in the module or will be.                  *)
CopiedFuns == IF pc = "functions" THEN Ranked(Seen(m.funs, pos), m.attr) ELSE RankedFuns

CopiedGlobs ==
  IF pc \in {"functions", "erase functions", "insert functions", "globals"} THEN {}
  ELSE IF pc = "initialisers" THEN Seen(m.globs, pos) ELSE Range(m.globs)

ErasedFuns ==
  IF pc = "functions" THEN {}
  ELSE IF pc = "erase functions" THEN Reached(bucket, lev, pos) ELSE RankedFuns

Kept == InModule \cup { Copy(n) : n \in CopiedFuns \cup CopiedGlobs }

(* The labels v holds: of itself, of what is gone, of what is still there.  *)
LabelOf(v, x, gone) ==
  IF v = Copy(x) THEN v ELSE IF x \in gone THEN Zapped ELSE Original(x)

KeepsRefs(v) == { w[1] : w \in refs[v] } = m.refs[v[1]]

KeepsLabels(v) == labels[v] = { LabelOf(v, x, ErasedFuns) : x \in m.labels[v[1]] }

KeptInv == pc # "crashed" => \A v \in Kept : KeepsRefs(v) /\ KeepsLabels(v)

(* A copy that is referred to is one of those that come into the module, or *)
(* both are copies of globals.                                              *)
CopyInv ==
  \A v \in Value, x \in Name : Copy(x) \in refs[v] =>
    \/ x \in RankedFuns \cup RankedGlobs
    \/ v[2] = "copy" /\ v[1] \in Range(m.globs) /\ x \in Range(m.globs)

LEMMA CopyInit == Init => CopyInv
  BY Values DEF Init, CopyInv

LEMMA CopyStep == TypeOK /\ ListInv /\ CopyInv /\ [Next]_vars => CopyInv'
<1> SUFFICES ASSUME TypeOK, ListInv, CopyInv, [Next]_vars PROVE CopyInv'
  OBVIOUS
<1>0. refs \in [Value -> SUBSET Value]
  BY DEF TypeOK
<1>1. CASE MovesOn \/ InsertFunction \/ InsertGlobal
  BY <1>1, QuietSteps DEF Quiet, InsertFunction, InsertGlobal, CopyInv, RankedFuns, RankedGlobs
<1>2. CASE CopyFunction
  <2> DEFINE n == m.funs[pos]
  <2>1. n \in Name /\ m' = m /\ refs' = [refs EXCEPT ![Copy(n)] = refs[Original(n)]]
    BY <1>2, AtFunction DEF CopyFunction
  <2> HIDE DEF n
  <2>2. \A v \in Value : refs'[v] = refs[v] \/ refs'[v] = refs[Original(n)]
    BY <1>0, <2>1
  <2> QED  BY <2>1, <2>2, Values DEF CopyInv, RankedFuns, RankedGlobs
<1>3. CASE MapInitialiser
  <2> DEFINE n == m.globs[pos]
  <2>1. /\ n \in Name /\ n \in Range(m.globs) /\ m' = m
        /\ refs' = [refs EXCEPT ![Copy(n)] = Mapped(refs[Original(n)])]
    BY <1>3, AtGlobal DEF MapInitialiser
  <2> HIDE DEF n
  <2>2. ASSUME NEW v \in Value, NEW x \in Name, Copy(x) \in refs'[v]
        PROVE  \/ Copy(x) \in refs[v] \/ Copy(x) \in refs[Original(n)]
               \/ v = Copy(n) /\ x \in Range(m.globs)
    <3>1. CASE v = Copy(n)
      <4>1. Copy(x) \in Mapped(refs[Original(n)])
        BY <1>0, <2>1, <2>2, <3>1, Values
      <4> QED  BY <3>1, <4>1, Values DEF Mapped
    <3>2. CASE v # Copy(n)
      BY <1>0, <2>1, <2>2, <3>2
    <3> QED  BY <3>1, <3>2
  <2>3. \A x \in Name : Copy(x) \in refs[Original(n)] => x \in RankedFuns \cup RankedGlobs
    BY <2>1, Values DEF CopyInv
  <2> QED  BY <2>1, <2>2, <2>3, Values DEF CopyInv, RankedFuns, RankedGlobs
<1>4. CASE EraseFunction \/ EraseGlobal
  <2>1. m' = m /\ Item \in Name /\ Item \in RankedFuns \cup RankedGlobs
    BY <1>4, Gone DEF EraseFunction, EraseGlobal
  <2>2. ASSUME NEW v \in Value, NEW w \in refs'[v]
        PROVE  w \in refs[v] \/ w = Copy(Item)
    <3>1. refs' = [RefsRedirected(Item) EXCEPT ![Original(Item)] = {}]
      BY <1>4 DEF EraseFunction, EraseGlobal
    <3>2. v = Original(Item) => refs'[v] = {}
      BY <2>1, <3>1, Values DEF RefsRedirected
    <3>3. v # Original(Item) => refs'[v] = Replaced(refs[v], Original(Item), Copy(Item))
      BY <2>1, <3>1, Values DEF RefsRedirected
    <3> QED  BY <2>2, <3>2, <3>3 DEF Replaced
  <2> QED  BY <2>1, <2>2, Values DEF CopyInv, RankedFuns, RankedGlobs
<1> QED  BY <1>1, <1>2, <1>3, <1>4, QuietSteps

(* The steps that only move on: they add nothing and erase nothing.         *)
LEMMA QuietKept ==
  ASSUME TypeOK, ListInv, MovesOn, pc' # "crashed"
  PROVE  Kept' \subseteq Kept /\ ErasedFuns' = ErasedFuns /\ pc # "crashed"
<1>0. /\ m \in Modules /\ m.funs \in Seq(Name) /\ IsInjective(m.funs)
      /\ m.globs \in Seq(Name) /\ IsInjective(m.globs)
      /\ bucket \in Bucket /\ lev \in 0 .. NumLevels /\ pos \in Nat
  BY ModuleShape DEF TypeOK, WellNamed, Bucket
<1>1. m' = m /\ InModule' = InModule
  BY QuietSteps DEF Quiet, InModule
<1>2. /\ CopiedFuns' = CopiedFuns /\ CopiedGlobs' \subseteq CopiedGlobs
      /\ ErasedFuns' = ErasedFuns /\ pc # "crashed"
  <2>1. CASE PlaceUnannotated
    <3>1. pc = "functions" /\ pos \in DOMAIN m.funs /\ m.attr[m.funs[pos]] = None
      BY <2>1, AtFunction DEF PlaceUnannotated
    <3>2. Seen(m.funs, pos + 1) = Seen(m.funs, pos) \cup {m.funs[pos]}
      BY <1>0, <3>1, SeenShape
    <3>3. Ranked(Seen(m.funs, pos + 1), m.attr) = Ranked(Seen(m.funs, pos), m.attr)
      BY <3>1, <3>2, LevelShape DEF Ranked
    <3> QED  BY <2>1, <3>1, <3>3 DEF PlaceUnannotated, CopiedFuns, CopiedGlobs, ErasedFuns
  <2>2. CASE FunctionsCopied
    <3>1. pc = "functions" /\ funs = Originals(m.funs) /\ pos > Len(funs)
      BY <2>2 DEF FunctionsCopied, GoTo, ListInv, FunsInv
    <3>2. funs \in Seq(Value) /\ DOMAIN funs = DOMAIN m.funs
      BY <1>0, <3>1, OriginalsHold
    <3>3. Len(funs) = Len(m.funs)
      BY <1>0, <3>2, SeqShape
    <3>4. Seen(m.funs, pos) = Range(m.funs) /\ Reached(bucket, 0, 1) = {}
      BY <1>0, <3>1, <3>3, SeenShape, ReachedStart
    <3> QED  BY <2>2, <3>4 DEF FunctionsCopied, GoTo, CopiedFuns, CopiedGlobs, ErasedFuns, RankedFuns
  <2>3. CASE FunctionsErased
    <3>1. Reached(bucket, lev, pos) = RankedFuns
      BY <1>0, <2>3, ReachedEnd DEF FunctionsErased, GoTo, ListInv, FunsInv
    <3> QED  BY <2>3, <3>1 DEF FunctionsErased, GoTo, CopiedFuns, CopiedGlobs, ErasedFuns, RankedFuns
  <2>4. CASE NextLevel
    <3>1. Reached(bucket, lev', pos') = Reached(bucket, lev, pos)
      BY <1>0, <2>4, ReachedLevel DEF NextLevel
    <3> QED  BY <2>4, <3>1 DEF NextLevel, CopiedFuns, CopiedGlobs, ErasedFuns, RankedFuns
  <2>5. CASE FunctionsInserted \/ CopyGlobal \/ GlobalsErased \/ GlobalsInserted
    BY <2>5 DEF FunctionsInserted, CopyGlobal, GlobalsErased, GlobalsInserted, GoTo,
                CopiedFuns, CopiedGlobs, ErasedFuns, RankedFuns
  <2>6. CASE GlobalsCopied
    <3>1. Seen(m.globs, 1) = {}
      BY <1>0, SeenShape
    <3> QED  BY <2>6, <3>1 DEF GlobalsCopied, GoTo, CopiedFuns, CopiedGlobs, ErasedFuns, RankedFuns
  <2>7. CASE InitialisersMapped
    <3>1. pc = "initialisers" /\ globs = Originals(m.globs) /\ pos > Len(globs)
      BY <2>7 DEF InitialisersMapped, GoTo, ListInv, GlobsInv
    <3>2. globs \in Seq(Value) /\ DOMAIN globs = DOMAIN m.globs
      BY <1>0, <3>1, OriginalsHold
    <3>3. Len(globs) = Len(m.globs)
      BY <1>0, <3>2, SeqShape
    <3>4. Seen(m.globs, pos) = Range(m.globs)
      BY <1>0, <3>1, <3>3, SeenShape
    <3> QED  BY <2>7, <3>4 DEF InitialisersMapped, GoTo, CopiedFuns, CopiedGlobs, ErasedFuns, RankedFuns
  <2>8. CASE UNCHANGED vars
    BY <2>8 DEF vars, CopiedFuns, CopiedGlobs, ErasedFuns, RankedFuns
  <2>9. CASE CrashOnDeclaration \/ CrashOnLevel
    BY <2>9 DEF CrashOnDeclaration, CrashOnLevel
  <2> QED  BY <2>1, <2>2, <2>3, <2>4, <2>5, <2>6, <2>7, <2>8, <2>9 DEF MovesOn
<1> QED  BY <1>1, <1>2 DEF Kept

LEMMA KeptShape ==
  ASSUME TypeOK
  PROVE  /\ Kept \subseteq Value
         /\ CopiedFuns \subseteq Range(m.funs) /\ CopiedGlobs \subseteq Range(m.globs)
<1>1. /\ Range(m.funs) \subseteq Name /\ Range(m.globs) \subseteq Name /\ m.aliases \subseteq Name
      /\ funs \in Seq(Value) /\ globs \in Seq(Value)
  BY ModuleShape DEF TypeOK
<1>2. Range(funs) \subseteq Value /\ Range(globs) \subseteq Value
  BY <1>1, SeqShape
<1>3. CopiedFuns \subseteq Range(m.funs) /\ CopiedGlobs \subseteq Range(m.globs)
  BY DEF CopiedFuns, CopiedGlobs, RankedFuns, Ranked, Seen
<1> QED  BY <1>1, <1>2, <1>3, Values DEF Kept, InModule

(* What one loop step does to what is kept.                                 *)
LEMMA CopyKept ==
  ASSUME TypeOK, ListInv, CopyFunction
  PROVE  /\ Original(m.funs[pos]) \in Kept /\ Kept' \subseteq Kept \cup {Copy(m.funs[pos])}
         /\ ErasedFuns = {} /\ ErasedFuns' = {} /\ pc # "crashed"
<1>1. /\ pc = "functions" /\ pc' = pc /\ pos' = pos + 1 /\ UNCHANGED <<m, funs, globs>>
      /\ pos \in DOMAIN funs /\ funs[pos] = Original(m.funs[pos]) /\ pos \in DOMAIN m.funs
  BY AtFunction DEF CopyFunction
<1>2. Seen(m.funs, pos + 1) = Seen(m.funs, pos) \cup {m.funs[pos]}
  <2>1. m.funs \in Seq(Name) /\ IsInjective(m.funs)
    BY ModuleShape DEF TypeOK, WellNamed
  <2> QED  BY <1>1, <2>1, SeenShape
<1>3. CopiedFuns' \subseteq CopiedFuns \cup {m.funs[pos]} /\ CopiedGlobs' = {}
  BY <1>1, <1>2 DEF CopiedFuns, CopiedGlobs, Ranked
<1>4. InModule' = InModule /\ Original(m.funs[pos]) \in InModule
  BY <1>1 DEF InModule, Range
<1> QED  BY <1>1, <1>3, <1>4 DEF Kept, ErasedFuns

LEMMA MapKept ==
  ASSUME TypeOK, ListInv, MapInitialiser
  PROVE  /\ Original(m.globs[pos]) \in Kept /\ Kept' \subseteq Kept \cup {Copy(m.globs[pos])}
         /\ ErasedFuns' = ErasedFuns /\ pc # "crashed"
<1>1. /\ pc = "initialisers" /\ pc' = pc /\ pos' = pos + 1 /\ UNCHANGED <<m, funs, globs>>
      /\ pos \in DOMAIN globs /\ globs[pos] = Original(m.globs[pos]) /\ pos \in DOMAIN m.globs
  BY AtGlobal DEF MapInitialiser
<1>2. Seen(m.globs, pos + 1) = Seen(m.globs, pos) \cup {m.globs[pos]}
  <2>1. m.globs \in Seq(Name) /\ IsInjective(m.globs)
    BY ModuleShape DEF TypeOK, WellNamed
  <2> QED  BY <1>1, <2>1, SeenShape
<1>3. CopiedFuns' = CopiedFuns /\ CopiedGlobs' \subseteq CopiedGlobs \cup {m.globs[pos]}
  BY <1>1, <1>2 DEF CopiedFuns, CopiedGlobs, RankedFuns
<1>4. InModule' = InModule /\ Original(m.globs[pos]) \in InModule
  BY <1>1 DEF InModule, Range
<1> QED  BY <1>1, <1>3, <1>4 DEF Kept, ErasedFuns, RankedFuns

LEMMA EraseKept ==
  ASSUME TypeOK, ListInv, EraseFunction \/ EraseGlobal
  PROVE  /\ Kept' \subseteq Kept \ {Original(Item)} /\ pc # "crashed"
         /\ EraseFunction => ErasedFuns' = ErasedFuns \cup {Item}
         /\ EraseGlobal => ErasedFuns' = ErasedFuns
<1>1. InModule' = InModule \ {Original(Item)} /\ UNCHANGED <<m, pc>>
  BY Gone DEF EraseFunction, EraseGlobal
<1>2. CopiedFuns' = CopiedFuns /\ CopiedGlobs' = CopiedGlobs
  BY <1>1 DEF EraseFunction, EraseGlobal, At, CopiedFuns, CopiedGlobs, RankedFuns
<1>3. EraseFunction => ErasedFuns' = ErasedFuns \cup {Item}
  BY EraseFunctionList DEF EraseFunction, At, ErasedFuns, ListInv
<1>4. EraseGlobal => ErasedFuns' = ErasedFuns
  BY DEF EraseGlobal, At, ErasedFuns, RankedFuns
<1>5. pc # "crashed"
  BY DEF EraseFunction, EraseGlobal, At
<1> QED  BY <1>1, <1>2, <1>3, <1>4, <1>5, Values DEF Kept

LEMMA InsertKept ==
  ASSUME TypeOK, ListInv, InsertFunction \/ InsertGlobal
  PROVE  /\ Kept' \subseteq Kept /\ ErasedFuns' = ErasedFuns /\ pc # "crashed"
<1>1. InModule' = InModule \cup {Copy(Item)} /\ UNCHANGED <<m, pc>>
  BY Come DEF InsertFunction, InsertGlobal
<1>2. CASE InsertFunction
  <2>1. Item \in RankedFuns
    BY <1>2, InsertFunctionList DEF ListInv
  <2>2. pc = "insert functions"
    BY <1>2 DEF InsertFunction, At
  <2> QED  BY <1>1, <2>1, <2>2 DEF Kept, CopiedFuns, CopiedGlobs, ErasedFuns, RankedFuns
<1>3. CASE InsertGlobal
  <2>1. Item \in Range(m.globs)
    BY <1>3, InsertGlobalList DEF ListInv, RankedGlobs, Ranked
  <2>2. pc = "insert globals"
    BY <1>3 DEF InsertGlobal, At
  <2> QED  BY <1>1, <2>1, <2>2 DEF Kept, CopiedFuns, CopiedGlobs, ErasedFuns, RankedFuns
<1> QED  BY <1>2, <1>3

LEMMA KeptStep == TypeOK /\ ListInv /\ KeptInv /\ [Next]_vars => KeptInv'
<1> SUFFICES ASSUME TypeOK, ListInv, KeptInv, [Next]_vars, pc' # "crashed", NEW v \in Kept'
             PROVE  KeepsRefs(v)' /\ KeepsLabels(v)'
  BY DEF KeptInv
<1>0. /\ refs \in [Value -> SUBSET Value] /\ labels \in [Value -> SUBSET (Value \cup {Zapped})]
      /\ Kept \subseteq Value
      /\ m.refs \in [Name -> SUBSET Name] /\ m.labels \in [Name -> SUBSET Name]
      /\ Range(m.funs) \cap Range(m.globs) = {}
      /\ \A n \in Name : m.labels[n] \subseteq Range(m.funs)
  BY KeptShape, ModuleShape DEF TypeOK, WellNamed
<1>1. CASE MovesOn \/ InsertFunction \/ InsertGlobal
  <2>1. /\ Kept' \subseteq Kept /\ ErasedFuns' = ErasedFuns /\ pc # "crashed"
        /\ UNCHANGED <<m, refs, labels>>
    BY <1>1, QuietKept, InsertKept, QuietSteps DEF Quiet, InsertFunction, InsertGlobal
  <2>2. KeepsRefs(v) /\ KeepsLabels(v)
    BY <2>1 DEF KeptInv
  <2> QED  BY <2>1, <2>2 DEF KeepsRefs, KeepsLabels
<1>2. CASE CopyFunction
  <2> DEFINE n == m.funs[pos]
  <2>1. /\ n \in Name /\ m' = m
        /\ refs' = [refs EXCEPT ![Copy(n)] = refs[Original(n)]]
        /\ labels' = [labels EXCEPT ![Copy(n)] = Replaced(labels[Original(n)], Original(n), Copy(n))]
    BY <1>2, AtFunction DEF CopyFunction
  <2>2. /\ Original(n) \in Kept /\ Kept' \subseteq Kept \cup {Copy(n)}
        /\ ErasedFuns = {} /\ ErasedFuns' = {} /\ pc # "crashed"
    BY <1>2, CopyKept
  <2> HIDE DEF n
  <2>3. CASE v = Copy(n)
    <3>1. /\ { w[1] : w \in refs[Original(n)] } = m.refs[n]
          /\ labels[Original(n)] = { Original(x) : x \in m.labels[n] }
      BY <2>1, <2>2, Values DEF KeptInv, KeepsRefs, KeepsLabels, LabelOf
    <3>2. /\ refs'[v] = refs[Original(n)] /\ v[1] = n
          /\ labels'[v] = Replaced(labels[Original(n)], Original(n), v)
      BY <1>0, <2>1, <2>3, Values
    <3>3. labels'[v] = { LabelOf(v, x, {}) : x \in m.labels[n] }
      BY <2>1, <2>3, <3>1, <3>2, Values DEF Replaced, LabelOf
    <3> QED  BY <2>1, <2>2, <3>1, <3>2, <3>3 DEF KeepsRefs, KeepsLabels
  <2>4. CASE v # Copy(n)
    <3>1. v \in Kept /\ refs'[v] = refs[v] /\ labels'[v] = labels[v]
      BY <1>0, <2>1, <2>2, <2>4
    <3> QED  BY <2>1, <2>2, <3>1 DEF KeptInv, KeepsRefs, KeepsLabels
  <2> QED  BY <2>3, <2>4
<1>3. CASE MapInitialiser
  <2> DEFINE n == m.globs[pos]
  <2>1. /\ n \in Name /\ n \in Range(m.globs) /\ m' = m
        /\ refs' = [refs EXCEPT ![Copy(n)] = Mapped(refs[Original(n)])]
        /\ labels' = [labels EXCEPT ![Copy(n)] = labels[Original(n)]]
    BY <1>3, AtGlobal DEF MapInitialiser
  <2>2. /\ Original(n) \in Kept /\ Kept' \subseteq Kept \cup {Copy(n)}
        /\ ErasedFuns' = ErasedFuns /\ pc # "crashed"
    BY <1>3, MapKept
  <2> HIDE DEF n
  <2>3. CASE v = Copy(n)
    <3>1. /\ { w[1] : w \in refs[Original(n)] } = m.refs[n]
          /\ labels[Original(n)] = { LabelOf(Original(n), x, ErasedFuns) : x \in m.labels[n] }
      BY <2>1, <2>2, Values DEF KeptInv, KeepsRefs, KeepsLabels
    <3>2. /\ refs'[v] = Mapped(refs[Original(n)]) /\ v[1] = n
          /\ labels'[v] = labels[Original(n)]
      BY <1>0, <2>1, <2>3, Values
    <3>3. { w[1] : w \in Mapped(refs[Original(n)]) } = { w[1] : w \in refs[Original(n)] }
      BY Values DEF Mapped
    <3>4. \A x \in m.labels[n] : LabelOf(v, x, ErasedFuns) = LabelOf(Original(n), x, ErasedFuns)
      BY <1>0, <2>1, <2>3, Values DEF LabelOf
    <3>5. labels'[v] = { LabelOf(v, x, ErasedFuns) : x \in m.labels[n] }
      BY <3>1, <3>2, <3>4
    <3> QED  BY <2>1, <2>2, <3>1, <3>2, <3>3, <3>5 DEF KeepsRefs, KeepsLabels
  <2>4. CASE v # Copy(n)
    <3>1. v \in Kept /\ refs'[v] = refs[v] /\ labels'[v] = labels[v]
      BY <1>0, <2>1, <2>2, <2>4
    <3> QED  BY <2>1, <2>2, <3>1 DEF KeptInv, KeepsRefs, KeepsLabels
  <2> QED  BY <2>3, <2>4
<1>4. CASE EraseFunction \/ EraseGlobal
  <2>1. /\ m' = m /\ Item \in Name
        /\ refs' = [RefsRedirected(Item) EXCEPT ![Original(Item)] = {}]
    BY <1>4, Gone DEF EraseFunction, EraseGlobal
  <2>2. v \in Kept /\ v # Original(Item) /\ v \in Value /\ KeepsRefs(v) /\ KeepsLabels(v)
    BY <1>0, <1>4, EraseKept DEF KeptInv
  <2>3. refs'[v] = Replaced(refs[v], Original(Item), Copy(Item))
    BY <2>1, <2>2, Values DEF RefsRedirected
  <2>4. { w[1] : w \in refs'[v] } = { w[1] : w \in refs[v] }
    BY <2>3, Values DEF Replaced
  <2>5. KeepsLabels(v)'
    <3>1. CASE EraseFunction
      <4>1. labels' = [LabelsZapped(Item) EXCEPT ![Original(Item)] = {}]
        BY <3>1 DEF EraseFunction
      <4>2. labels'[v] = Replaced(labels[v], Original(Item), Zapped)
        BY <2>1, <2>2, <4>1, Values DEF LabelsZapped
      <4>3. \A x : LabelOf(v, x, ErasedFuns \cup {Item}) =
                     IF LabelOf(v, x, ErasedFuns) = Original(Item) THEN Zapped
                     ELSE LabelOf(v, x, ErasedFuns)
        BY <2>1, <2>2, Values DEF LabelOf
      <4>4. labels'[v] = { LabelOf(v, x, ErasedFuns \cup {Item}) : x \in m.labels[v[1]] }
        BY <2>2, <4>2, <4>3 DEF Replaced, KeepsLabels
      <4> QED  BY <2>1, <3>1, <4>4, EraseKept DEF KeepsLabels
    <3>2. CASE EraseGlobal
      <4>1. labels'[v] = labels[v]
        BY <1>0, <2>1, <2>2, <3>2 DEF EraseGlobal
      <4> QED  BY <2>1, <2>2, <3>2, <4>1, EraseKept DEF KeepsLabels
    <3> QED  BY <1>4, <3>1, <3>2
  <2> QED  BY <2>1, <2>2, <2>4, <2>5 DEF KeepsRefs
<1> QED  BY <1>1, <1>2, <1>3, <1>4, QuietSteps

LEMMA KeptInit == Init => KeptInv
<1> SUFFICES ASSUME Init, NEW v \in Kept PROVE KeepsRefs(v) /\ KeepsLabels(v)
  BY DEF KeptInv
<1>1. TypeOK /\ ListInv /\ m \in Modules /\ pc = "functions" /\ pos = 1
  BY TypeInit, ListInit DEF Init
<1>2. CopiedFuns = {} /\ CopiedGlobs = {} /\ ErasedFuns = {}
  <2>1. Seen(m.funs, 1) = {}
    BY <1>1, ModuleShape, SeenShape DEF WellNamed
  <2> QED  BY <1>1, <2>1 DEF CopiedFuns, CopiedGlobs, ErasedFuns, Ranked
<1>3. v \in Value /\ v = Original(v[1]) /\ v[1] \in Name
  <2>1. Holds(funs, Range(m.funs), {}) /\ Holds(globs, Range(m.globs), {})
    BY <1>1, ModuleShape, OriginalsHold DEF Init, Originals, WellNamed
  <2>2. v \in { Original(n) : n \in Named(m) }
    BY <1>2, <2>1 DEF Kept, InModule, Holds, Named
  <2>3. Named(m) \subseteq Name
    BY <1>1, ModuleShape DEF Named
  <2> QED  BY <2>2, <2>3, Values
<1>4. /\ refs[v] = { Original(x) : x \in m.refs[v[1]] }
      /\ labels[v] = { Original(x) : x \in m.labels[v[1]] }
  BY <1>3, Values DEF Init
<1>5. KeepsRefs(v)
  BY <1>4, Values DEF KeepsRefs
<1>6. KeepsLabels(v)
  BY <1>2, <1>3, <1>4, Values DEF KeepsLabels, LabelOf
<1> QED  BY <1>5, <1>6

(* The pass keeps the references between the module's values: each ends at  *)
(* the value that now bears the name.  What is lost are addresses of labels *)
(* of the functions that were copied, and what refers to a global whose     *)
(* level is too large.                                                      *)
THEOREM ReferencesAreKept == Spec => []ReferencesKept
<1>1. TypeOK /\ ListInv /\ NoUseOfErased /\ CopyInv /\ KeptInv => ReferencesKept
  <2> SUFFICES ASSUME TypeOK, ListInv, NoUseOfErased, CopyInv, KeptInv, pc = "done",
                      NEW v \in InModule
               PROVE  /\ { w[1] : w \in refs[v] } = m.refs[v[1]]
                      /\ refs[v] \subseteq InModule \cup
                                            (IF v \in Range(globs) THEN Orphans ELSE {})
                      /\ labels[v] = { IF w[1] # v[1] /\ Copied(w[1]) THEN Zapped ELSE w :
                                         w \in { u \in InModule : u[1] \in m.labels[v[1]] } }
    BY DEF ReferencesKept
  <2>0. /\ Range(m.funs) \subseteq Name /\ Range(m.globs) \subseteq Name
        /\ Range(m.funs) \cap Range(m.globs) = {} /\ m.aliases \subseteq Name
        /\ m.aliases \cap (Range(m.funs) \cup Range(m.globs)) = {}
        /\ m.defs \subseteq Range(m.funs)
        /\ m.attr \in [Name -> Level \cup {None, TooLarge}]
        /\ m.level \in [Name -> Level \cup {TooLarge}]
        /\ \A n \in Name : m.labels[n] \subseteq m.defs
    BY ModuleShape DEF TypeOK, WellNamed
  <2>1. /\ Holds(funs, Range(m.funs) \ RankedFuns, RankedFuns)
        /\ Holds(globs, Range(m.globs) \ RankedGlobs, RankedGlobs)
        /\ ErasedFuns = RankedFuns
    BY DEF ListInv, FunsInv, GlobsInv, ErasedFuns
  <2>2. v \in Value /\ v \in Kept /\ KeepsRefs(v) /\ KeepsLabels(v) /\ v[1] \in Name
    BY KeptShape, Values DEF Kept, KeptInv
  <2>3. RankedFuns \subseteq Range(m.funs) /\ RankedGlobs \subseteq Range(m.globs)
    BY DEF RankedFuns, RankedGlobs, Ranked
  <2>4. ASSUME NEW w \in refs[v]
        PROVE  w \in InModule \cup (IF v \in Range(globs) THEN Orphans ELSE {})
    <3>1. w \in Value /\ (w = Original(w[1]) \/ w = Copy(w[1])) /\ w[1] \in Name
      BY <2>2, Values DEF TypeOK
    <3>2. CASE w = Original(w[1])
      BY <2>2, <3>1, <3>2, Values DEF NoUseOfErased, Erased
    <3>3. CASE w = Copy(w[1])
      <4>1. CASE w[1] \in RankedFuns \cup RankedGlobs
        BY <2>1, <3>3, <4>1 DEF InModule, Holds
      <4>2. CASE w[1] \notin RankedFuns \cup RankedGlobs
        <5>1. v[2] = "copy" /\ v[1] \in Range(m.globs) /\ w[1] \in Range(m.globs)
          BY <2>2, <3>1, <3>3, <4>2 DEF CopyInv
        <5>2. m.level[w[1]] = TooLarge
          BY <2>0, <3>1, <4>2, <5>1 DEF RankedGlobs, Ranked
        <5>3. v \in Range(globs)
          <6>1. v \notin Range(funs)
            BY <2>0, <2>1, <2>3, <5>1, Values DEF Holds
          <6> QED  BY <5>1, <6>1, Values DEF InModule
        <5> QED  BY <3>3, <5>1, <5>2, <5>3 DEF Orphans
      <4> QED  BY <4>1, <4>2
    <3> QED  BY <3>1, <3>2, <3>3
  <2> DEFINE Now(x) == IF x \in RankedFuns THEN Copy(x) ELSE Original(x)
             Left(w) == IF w[1] # v[1] /\ Copied(w[1]) THEN Zapped ELSE w
  <2>5. ASSUME NEW x \in m.defs
        PROVE  /\ Now(x) \in InModule /\ Now(x)[1] = x
               /\ \A u \in InModule : u[1] = x => u = Now(x)
               /\ Copied(x) <=> x \in RankedFuns
               /\ LabelOf(v, x, RankedFuns) = Left(Now(x))
    <3>1. x \in Name /\ x \in Range(m.funs) /\ x \notin Range(m.globs) /\ x \notin m.aliases
      BY <2>0
    <3>2. /\ Now(x)[1] = x /\ Now(x) \in Range(funs)
      BY <2>1, <3>1, Values DEF Holds
    <3>3. ASSUME NEW u \in InModule, u[1] = x
          PROVE  u = Now(x)
      BY <2>1, <2>3, <3>1, <3>3, Values DEF InModule, Holds
    <3>4. Copied(x) <=> x \in RankedFuns
      BY <3>1 DEF Copied, RankedFuns, Ranked
    <3>5. LabelOf(v, x, RankedFuns) = Left(Now(x))
      <4>1. CASE v[1] = x
        BY <3>2, <3>3, <4>1, Values DEF LabelOf
      <4>2. CASE v[1] # x
        BY <3>2, <3>4, <4>2, Values DEF LabelOf
      <4> QED  BY <4>1, <4>2
    <3> QED  BY <3>2, <3>3, <3>4, <3>5 DEF InModule
  <2>6. { u \in InModule : u[1] \in m.labels[v[1]] } = { Now(x) : x \in m.labels[v[1]] }
    <3> HIDE DEF Now
    <3> QED  BY <2>0, <2>2, <2>5
  <2>7. labels[v] = { Left(w) : w \in { u \in InModule : u[1] \in m.labels[v[1]] } }
    <3>1. labels[v] = { LabelOf(v, x, RankedFuns) : x \in m.labels[v[1]] }
      BY <2>1, <2>2 DEF KeepsLabels
    <3>2. \A x \in m.labels[v[1]] : LabelOf(v, x, RankedFuns) = Left(Now(x))
      BY <2>0, <2>2, <2>5
    <3> HIDE DEF Now, Left
    <3> QED  BY <2>6, <3>1, <3>2
  <2> QED  BY <2>2, <2>4, <2>7 DEF KeepsRefs
<1> QED
  BY <1>1, TypeInit, ListInit, RefsInit, CopyInit, KeptInit,
     TypeStep, ListStep, LabelStep, NoUseStep, CopyStep, KeptStep, PTL DEF Spec
=============================================================================
