----------------------------- MODULE GateProofs -----------------------------
(***************************************************************************)
(* What SysCallInsertion makes of any program: the blocks stay well formed *)
(* and there is one gate for every pair that needs one.  The proofs look   *)
(* at the blocks of a function by label and not by position, as gating     *)
(* shifts the positions and leaves the labels.  At the end: the functions  *)
(* without their gates, as a whole and from each of their places on.       *)
(***************************************************************************)
EXTENDS GatedRun, FiniteSetTheorems, SequenceTheorems, WellFoundedInduction, TLAPS

(* What can be read from each kind of instruction a gate is made of.        *)
LEMMA Instructions ==
  /\ \A c : Syscall(c).op = "syscall" /\ Syscall(c).level = c
  /\ Cmp.op = "cmp"
  /\ \A d, m : Check(d, m).op = "check" /\ Check(d, m).to = {d, m} /\ Check(d, m).denied = d
  /\ \A op, g : Call(op, g).op = op /\ Call(op, g).callee = g
  /\ \A op, l : Jump(op, l).op = op /\ Jump(op, l).to = {l}
  BY DEF Syscall, Cmp, Check, Call, Jump

(* The instructions of a gate are instructions.                             *)
LEMMA InstructionTypes ==
  /\ \A c \in Tag : Syscall(c) \in Inst
  /\ Cmp \in Inst
  /\ \A d, m \in Nat : Check(d, m) \in Inst
  /\ \A g \in Function : Call("exit", g) \in Inst
  /\ \A l \in Nat : Jump("resume", l) \in Inst
<1>1. \A c \in Tag : Syscall(c) \in Inst
  BY DEF Syscall, Inst
<1>2. Cmp \in Inst
  BY DEF Cmp, Inst
<1>3. \A d, m \in Nat : Check(d, m) \in Inst
  BY DEF Check, Inst
<1>4. \A g \in Function : Call("exit", g) \in Inst
  BY DEF Call, Inst, Target
<1>5. \A l \in Nat : Jump("resume", l) \in Inst
  BY DEF Jump, Inst
<1> QED  BY <1>1, <1>2, <1>3, <1>4, <1>5

(* The constants of a gate are tags, whatever the sections.                 *)
LEMMA Constants == \A s \in Section : ConstantsRead(s) \subseteq Tag
  BY SectionsAssumption DEF ConstantsRead, Section, Tag, Tagged, Level

-----------------------------------------------------------------------------
(* What is where in two sequences put together.                             *)
Joins(r, p, q) ==
  /\ Len(r) = Len(p) + Len(q)
  /\ \A j \in 1 .. Len(p) : r[j] = p[j]
  /\ \A j \in 1 .. Len(q) : r[Len(p) + j] = q[j]

(* Putting two sequences together puts them behind one another.             *)
LEMMA Joined ==
  ASSUME NEW S, NEW p \in Seq(S), NEW q \in Seq(S)
  PROVE  p \o q \in Seq(S) /\ Joins(p \o q, p, q)
  BY DEF Joins

(* The three blocks of a gate, by what is where in them.                    *)
IsHead(h, s, i, n, ce) ==
  /\ h \in Seq(Inst) /\ Len(h) = i + 2
  /\ \A j \in 1 .. i - 1 : h[j] = s[j]
  /\ h[i] = Syscall(ce) /\ h[i + 1] = Cmp /\ h[i + 2] = Check(n + 1, n + 2)

IsExit(e, n) ==
  /\ e \in Seq(Inst) /\ Len(e) = 2
  /\ e[1] = Call("exit", prog.exit) /\ e[2] = Jump("resume", n + 2)

IsTail(t, s, i, cr) ==
  /\ t \in Seq(Inst) /\ Len(t) = Len(s) - i + 2
  /\ t[1] = s[i] /\ t[2] = Syscall(cr)
  /\ \A j \in 3 .. Len(s) - i + 2 : t[j] = s[j + i - 2]

(* Gate makes these three blocks.                                           *)
LEMMA GateShape ==
  ASSUME NEW b \in Block, NEW i \in 1 .. Len(b.insts), NEW n \in Nat,
         NEW cr \in Tag, NEW ce \in Tag, prog.exit \in Function
  PROVE  \E h, e, t \in Seq(Inst) :
           /\ Gate(b, i, n, cr, ce) = << [label |-> b.label, insts |-> h],
                                         [label |-> n + 1, insts |-> e],
                                         [label |-> n + 2, insts |-> t] >>
           /\ IsHead(h, b.insts, i, n, ce) /\ IsExit(e, n) /\ IsTail(t, b.insts, i, cr)
<1> DEFINE s == b.insts
           g == <<Syscall(ce), Cmp, Check(n + 1, n + 2)>>
           c == <<s[i], Syscall(cr)>>
           u == SubSeq(s, 1, i - 1)
           v == SubSeq(s, i + 1, Len(s))
           h == u \o g
           e == <<Call("exit", prog.exit), Jump("resume", n + 2)>>
           t == c \o v
<1>1. s \in Seq(Inst) /\ Len(s) \in Nat /\ i \in Nat /\ i >= 1 /\ i <= Len(s) /\ s[i] \in Inst
  BY DEF Block
<1>2. g \in Seq(Inst) /\ Len(g) = 3 /\ g[1] = Syscall(ce) /\ g[2] = Cmp /\ g[3] = Check(n + 1, n + 2)
  BY InstructionTypes
<1>3. c \in Seq(Inst) /\ Len(c) = 2 /\ c[1] = s[i] /\ c[2] = Syscall(cr)
  BY <1>1, InstructionTypes
<1>4. e \in Seq(Inst) /\ Len(e) = 2 /\ e[1] = Call("exit", prog.exit) /\ e[2] = Jump("resume", n + 2)
  BY InstructionTypes
<1>5. u \in Seq(Inst) /\ Len(u) = i - 1 /\ \A j \in 1 .. i - 1 : u[j] = s[j]
  BY <1>1
<1>6. v \in Seq(Inst) /\ Len(v) = Len(s) - i /\ \A j \in 1 .. Len(s) - i : v[j] = s[j + i]
  BY <1>1
<1>7. Gate(b, i, n, cr, ce) = << [label |-> b.label, insts |-> h],
                                 [label |-> n + 1, insts |-> e],
                                 [label |-> n + 2, insts |-> t] >>
  BY DEF Gate
<1> HIDE DEF g, c, u, v, e, s
<1>8. IsHead(h, s, i, n, ce)
  <2>1. h \in Seq(Inst) /\ Joins(h, u, g)
    BY <1>2, <1>5, Joined
  <2> HIDE DEF h
  <2>2. Len(h) = i + 2 /\ \A j \in 1 .. i - 1 : h[j] = s[j]
    BY <1>1, <1>2, <1>5, <2>1 DEF Joins
  <2>3. h[(i - 1) + 1] = g[1] /\ h[(i - 1) + 2] = g[2] /\ h[(i - 1) + 3] = g[3]
    BY <1>2, <1>5, <2>1 DEF Joins
  <2>4. (i - 1) + 1 = i /\ (i - 1) + 2 = i + 1 /\ (i - 1) + 3 = i + 2
    BY <1>1
  <2> QED  BY <1>2, <2>1, <2>2, <2>3, <2>4 DEF IsHead
<1>9. IsTail(t, s, i, cr)
  <2>1. t \in Seq(Inst) /\ Joins(t, c, v)
    BY <1>3, <1>6, Joined
  <2> HIDE DEF t
  <2>2. Len(t) = Len(s) - i + 2 /\ t[1] = s[i] /\ t[2] = Syscall(cr)
    BY <1>1, <1>3, <1>6, <2>1 DEF Joins
  <2>3. ASSUME NEW j \in 3 .. Len(s) - i + 2 PROVE t[j] = s[j + i - 2]
    <3>1. j - 2 \in 1 .. Len(s) - i /\ (j - 2) + i = j + i - 2 /\ 2 + (j - 2) = j
      BY <1>1
    <3>2. t[2 + (j - 2)] = v[j - 2]
      BY <1>3, <1>6, <2>1, <3>1 DEF Joins
    <3> QED  BY <1>6, <3>1, <3>2
  <2> QED  BY <2>1, <2>2, <2>3 DEF IsTail
<1>10. IsExit(e, n)
  BY <1>4 DEF IsExit
<1>11. h \in Seq(Inst) /\ e \in Seq(Inst) /\ t \in Seq(Inst)
  BY <1>8, <1>9, <1>10 DEF IsHead, IsTail, IsExit
<1> HIDE DEF h, t
<1> QED  BY <1>7, <1>8, <1>9, <1>10, <1>11 DEF s

-----------------------------------------------------------------------------
(* B has the instructions of each block of a function by its label: every   *)
(* label belongs to one block.                                              *)
View(blocks, B) ==
  /\ B \in [1 .. Len(blocks) -> Seq(Inst)]
  /\ \A k \in 1 .. Len(blocks) :
       blocks[k].label \in 1 .. Len(blocks) /\ B[blocks[k].label] = blocks[k].insts
  /\ \A k, j \in 1 .. Len(blocks) : blocks[k].label = blocks[j].label => k = j
  /\ \A l \in 1 .. Len(blocks) : \E k \in 1 .. Len(blocks) : blocks[k].label = l

Rewired(B, n, l, h, e, t) ==
  [x \in 1 .. n + 2 |-> IF x = l THEN h ELSE IF x = n + 1 THEN e ELSE IF x = n + 2 THEN t ELSE B[x]]

(* What is where when the block at k is replaced by three.                  *)
Replaces(new, old, k, g) ==
  /\ Len(new) = Len(old) + 2
  /\ \A j \in 1 .. k - 1 : new[j] = old[j]
  /\ new[k] = g[1] /\ new[k + 1] = g[2] /\ new[k + 2] = g[3]
  /\ \A j \in k + 1 .. Len(old) : new[j + 2] = old[j]

(* So it is when the pass replaces the block at k.                          *)
LEMMA Replacement ==
  ASSUME NEW S, NEW old \in Seq(S), NEW k \in 1 .. Len(old), NEW g \in Seq(S), Len(g) = 3
  PROVE  LET new == SubSeq(old, 1, k - 1) \o g \o SubSeq(old, k + 1, Len(old))
         IN  new \in Seq(S) /\ Replaces(new, old, k, g)
<1> DEFINE u == SubSeq(old, 1, k - 1)
           v == SubSeq(old, k + 1, Len(old))
           w == u \o g
           new == w \o v
<1>1. Len(old) \in Nat /\ k \in Nat /\ k >= 1 /\ k <= Len(old)
  OBVIOUS
<1>2. u \in Seq(S) /\ Len(u) = k - 1 /\ \A j \in 1 .. k - 1 : u[j] = old[j]
  BY <1>1
<1>3. v \in Seq(S) /\ Len(v) = Len(old) - k /\ \A j \in 1 .. Len(old) - k : v[j] = old[j + k]
  BY <1>1
<1> HIDE DEF u, v
<1>4. w \in Seq(S) /\ Joins(w, u, g)
  BY <1>2, Joined
<1> HIDE DEF w
<1>5. new \in Seq(S) /\ Joins(new, w, v)
  BY <1>3, <1>4, Joined
<1> HIDE DEF new
<1>6. Len(w) = k + 2 /\ Len(new) = Len(old) + 2
  BY <1>1, <1>2, <1>3, <1>4, <1>5 DEF Joins
<1>7. \A j \in 1 .. k - 1 : new[j] = old[j]
  <2> TAKE j \in 1 .. k - 1
  <2>1. j \in 1 .. Len(w) /\ j \in 1 .. Len(u)
    BY <1>1, <1>2, <1>6
  <2> QED  BY <1>2, <1>4, <1>5, <2>1 DEF Joins
<1>8. \A j \in 1 .. 3 : new[(k - 1) + j] = g[j]
  <2> TAKE j \in 1 .. 3
  <2>1. (k - 1) + j \in 1 .. Len(w) /\ j \in 1 .. Len(g)
    BY <1>1, <1>6
  <2> QED  BY <1>2, <1>4, <1>5, <2>1 DEF Joins
<1>9. new[k] = g[1] /\ new[k + 1] = g[2] /\ new[k + 2] = g[3]
  <2>1. (k - 1) + 1 = k /\ (k - 1) + 2 = k + 1 /\ (k - 1) + 3 = k + 2
    BY <1>1
  <2>2. new[(k - 1) + 1] = g[1] /\ new[(k - 1) + 2] = g[2] /\ new[(k - 1) + 3] = g[3]
    BY <1>8
  <2> QED  BY <2>1, <2>2
<1>10. \A j \in k + 1 .. Len(old) : new[j + 2] = old[j]
  <2> TAKE j \in k + 1 .. Len(old)
  <2>1. j - k \in 1 .. Len(v) /\ (j - k) + k = j /\ Len(w) + (j - k) = j + 2
    BY <1>1, <1>3, <1>6
  <2>2. new[Len(w) + (j - k)] = v[j - k] /\ v[j - k] = old[(j - k) + k]
    BY <1>3, <1>5, <2>1 DEF Joins
  <2> QED  BY <2>1, <2>2
<1>11. new \in Seq(S) /\ Replaces(new, old, k, g)
  BY <1>5, <1>6, <1>7, <1>9, <1>10 DEF Replaces
<1> QED  BY <1>11 DEF new, w, u, v

(* Gating keeps the labels apart.                                           *)
LEMMA ViewStep ==
  ASSUME NEW old \in Seq(Block), NEW B, View(old, B), NEW k \in 1 .. Len(old),
         NEW h \in Seq(Inst), NEW e \in Seq(Inst), NEW t \in Seq(Inst),
         NEW new, Replaces(new, old, k, << [label |-> old[k].label, insts |-> h],
                                           [label |-> Len(old) + 1, insts |-> e],
                                           [label |-> Len(old) + 2, insts |-> t] >>)
  PROVE  View(new, Rewired(B, Len(old), old[k].label, h, e, t))
<1>0. PICK n, l, C : n = Len(old) /\ l = old[k].label /\ C = Rewired(B, n, l, h, e, t)
  OBVIOUS
<1>1. n \in Nat /\ k \in Nat /\ 1 <= k /\ k <= n /\ l \in 1 .. n
  BY <1>0 DEF View
<1>2. Len(new) = n + 2 /\ B \in [1 .. n -> Seq(Inst)]
  BY <1>0 DEF View, Replaces
<1>3. C \in [1 .. n + 2 -> Seq(Inst)]
  <2> SUFFICES ASSUME NEW x \in 1 .. n + 2, x # l, x # n + 1, x # n + 2 PROVE B[x] \in Seq(Inst)
    BY <1>0 DEF Rewired
  <2>1. x \in 1 .. n
    BY <1>1
  <2> QED  BY <1>2, <2>1
<1>4. /\ C[l] = h /\ C[n + 1] = e /\ C[n + 2] = t
      /\ \A x \in 1 .. n : x # l => C[x] = B[x]
  BY SMTT(40), <1>0, <1>1 DEF Rewired
<1>5. /\ new[k].label = l /\ new[k].insts = h
      /\ new[k + 1].label = n + 1 /\ new[k + 1].insts = e
      /\ new[k + 2].label = n + 2 /\ new[k + 2].insts = t
      /\ \A j \in 1 .. k - 1 : new[j] = old[j]
      /\ \A j \in k + 1 .. n : new[j + 2] = old[j]
  BY <1>0 DEF Replaces
<1>6. /\ \A j \in 1 .. n : old[j].label \in 1 .. n /\ B[old[j].label] = old[j].insts
      /\ \A i, j \in 1 .. n : old[i].label = old[j].label => i = j
      /\ \A x \in 1 .. n : \E j \in 1 .. n : old[j].label = x
      /\ old[k].label = l
  BY <1>0 DEF View
<1> DEFINE Stays(j, a) == a # k /\ new[j] = old[a] /\ ((j < k /\ a = j) \/ (j > k + 2 /\ j = a + 2))
<1>7. \A j \in 1 .. n + 2 : j \in {k, k + 1, k + 2} \/ \E a \in 1 .. n : Stays(j, a)
  <2> TAKE j \in 1 .. n + 2
  <2>1. CASE j < k
    <3>1. j \in 1 .. n /\ j \in 1 .. k - 1 /\ j # k
      BY <1>1, <2>1
    <3>2. new[j] = old[j]
      BY <1>5, <3>1
    <3>3. Stays(j, j)
      BY <2>1, <3>1, <3>2
    <3> HIDE DEF Stays
    <3> QED  BY <3>1, <3>3
  <2>2. CASE j > k + 2
    <3>1. j - 2 \in k + 1 .. n /\ j - 2 \in 1 .. n /\ (j - 2) + 2 = j /\ j - 2 # k
      BY <1>1, <2>2
    <3>2. new[j] = old[j - 2]
      BY <1>5, <3>1
    <3> QED  BY <2>2, <3>1, <3>2
  <2>3. j \in Nat /\ (j < k \/ j > k + 2 \/ j = k \/ j = k + 1 \/ j = k + 2)
    BY <1>1
  <2> QED  BY <2>1, <2>2, <2>3
<1>8. \A j \in 1 .. n + 2, a \in 1 .. n : Stays(j, a) =>
        new[j].label \in 1 .. n /\ new[j].label # l /\ C[new[j].label] = new[j].insts
        /\ new[j].label = old[a].label
  <2> TAKE j \in 1 .. n + 2, a \in 1 .. n
  <2> HAVE Stays(j, a)
  <2>1. k \in 1 .. n /\ a # k /\ new[j] = old[a]
    BY <1>1
  <2>2. old[a].label \in 1 .. n /\ old[a].label # l
    BY <1>6, <2>1
  <2>3. C[old[a].label] = old[a].insts
    BY <1>4, <1>6, <2>2
  <2> QED  BY <2>1, <2>2, <2>3
<1>9. \A j \in 1 .. n + 2 : new[j].label \in 1 .. n + 2 /\ C[new[j].label] = new[j].insts
  <2> TAKE j \in 1 .. n + 2
  <2>0. l \in 1 .. n + 2 /\ n + 1 \in 1 .. n + 2 /\ n + 2 \in 1 .. n + 2 /\ \A x \in 1 .. n : x \in 1 .. n + 2
    BY <1>1
  <2>1. CASE j \in {k, k + 1, k + 2}
    BY <2>0, <1>4, <1>5, <2>1
  <2>2. ASSUME NEW a \in 1 .. n, Stays(j, a)
        PROVE  new[j].label \in 1 .. n + 2 /\ C[new[j].label] = new[j].insts
    BY <1>8, <2>0, <2>2
  <2> QED  BY <1>7, <2>1, <2>2
<1>10. ASSUME NEW i \in 1 .. n + 2, NEW j \in 1 .. n + 2, new[i].label = new[j].label PROVE i = j
  <2>1. CASE i \in {k, k + 1, k + 2} /\ j \in {k, k + 1, k + 2}
    <3>1. l # n + 1 /\ l # n + 2 /\ n + 1 # n + 2
      BY <1>1
    <3> QED  BY <1>5, <1>10, <2>1, <3>1
  <2>2. ASSUME NEW c \in 1 .. n + 2, NEW b \in {k, k + 1, k + 2}, new[c].label = new[b].label,
               NEW a \in 1 .. n, Stays(c, a)
        PROVE  FALSE
    <3>1. new[c].label \in 1 .. n /\ new[c].label # l
      BY <1>8, <2>2
    <3>2. n + 1 \notin 1 .. n /\ n + 2 \notin 1 .. n
      BY <1>1
    <3> QED  BY <1>5, <2>2, <3>1, <3>2
  <2>3. ASSUME NEW a \in 1 .. n, NEW b \in 1 .. n, Stays(i, a), Stays(j, b) PROVE i = j
    <3>1. a = b
      BY <1>6, <1>10, <2>3
    <3> QED  BY <1>1, <2>3, <3>1
  <2> HIDE DEF Stays
  <2> QED  BY <1>7, <1>10, <2>1, <2>2, <2>3
<1>11. \A x \in 1 .. n + 2 : \E j \in 1 .. n + 2 : new[j].label = x
  <2> TAKE x \in 1 .. n + 2
  <2>1. CASE x \in 1 .. n
    <3>1. PICK j \in 1 .. n : old[j].label = x
      BY <1>6, <2>1
    <3>2. CASE j = k
      <4>1. k \in 1 .. n + 2
        BY <1>1
      <4> QED  BY <1>5, <1>6, <3>1, <3>2, <4>1
    <3>3. CASE j < k
      <4>1. j \in 1 .. k - 1 /\ j \in 1 .. n + 2
        BY <1>1, <3>3
      <4> QED  BY <1>5, <3>1, <4>1
    <3>4. CASE j > k
      <4>1. j \in k + 1 .. n /\ j + 2 \in 1 .. n + 2
        BY <1>1, <3>4
      <4> QED  BY <1>5, <3>1, <4>1
    <3> QED  BY <1>1, <3>2, <3>3, <3>4
  <2>2. CASE x = n + 1
    BY <1>1, <1>5, <2>2
  <2>3. CASE x = n + 2
    BY <1>1, <1>5, <2>3
  <2> QED  BY <1>1, <2>1, <2>2, <2>3
<1>12. View(new, C)
  BY <1>2, <1>3, <1>9, <1>10, <1>11 DEF View
<1> QED  BY <1>0, <1>12

-----------------------------------------------------------------------------
(* The shape of a block: a gated invoke is followed by its syscall, and a   *)
(* check by nothing, and it comes after a syscall and the comparison.       *)
SplitInvoke(s) == Len(s) = 2 /\ s[1].op = "invoke" /\ s[2].op = "syscall"

BlockShape(s, n) ==
  /\ s # <<>>
  /\ WellFormed(s) \/ SplitInvoke(s)
  /\ \A i \in 1 .. Len(s) : s[i].op \in TerminatorOps => s[i].to \subseteq 1 .. n
  /\ \A i \in 1 .. Len(s) : s[i].op = "check" => i >= 3 /\ s[i - 1].op = "cmp" /\ s[i - 2].op = "syscall"

BlocksShape(B, n) == \A l \in 1 .. n : BlockShape(B[l], n)

(* The two sets, written out.                                               *)
LEMMA OpsShape ==
  /\ TerminatorOps = {"check", "resume", "br", "invoke", "ret"}
  /\ CallOps = {"call", "invoke", "exit"}
  BY DEF TerminatorOps, CallOps

(* Where the shape of a block puts a call: never at the check, nor in front *)
(* of it where the level is asked for.                                      *)
LEMMA SiteAway ==
  ASSUME NEW n, NEW s \in Seq(Inst), BlockShape(s, n), NEW i \in 1 .. Len(s), s[i].op \in CallOps,
         ~SplitInvoke(s)
  PROVE  /\ \A j \in 1 .. Len(s) : s[j].op \in TerminatorOps <=> j = Len(s)
         /\ s[Len(s)].op = "check" => i <= Len(s) - 3
<1>1. \A j \in 1 .. Len(s) : s[j].op \in TerminatorOps <=> j = Len(s)
  BY DEF BlockShape, WellFormed
<1>2. Len(s) \in Nat /\ i \in Nat /\ 1 <= i /\ i <= Len(s)
  OBVIOUS
<1>3. ASSUME s[Len(s)].op = "check" PROVE i <= Len(s) - 3
  <2>1. Len(s) \in 1 .. Len(s)
    BY <1>2
  <2>2. Len(s) >= 3 /\ s[Len(s) - 1].op = "cmp" /\ s[Len(s) - 2].op = "syscall"
    BY <1>3, <2>1 DEF BlockShape
  <2>3. i # Len(s) /\ i # Len(s) - 1 /\ i # Len(s) - 2
    BY <1>3, <2>2, OpsShape
  <2> QED  BY <1>2, <2>2, <2>3
<1> QED  BY <1>1, <1>3

(* A block that is cut for a gate leaves three blocks of that shape.        *)
LEMMA HeadStep ==
  ASSUME NEW n \in Nat, NEW s \in Seq(Inst), BlockShape(s, n), NEW i \in 1 .. Len(s),
         s[i].op \in CallOps, ~SplitInvoke(s), NEW ce, NEW h, IsHead(h, s, i, n, ce)
  PROVE  BlockShape(h, n + 2)
<1>1. Len(s) \in Nat /\ i \in Nat /\ 1 <= i /\ i <= Len(s) /\ Len(h) = i + 2 /\ h \in Seq(Inst)
  BY DEF IsHead
<1>2. \A j \in 1 .. Len(s) : s[j].op \in TerminatorOps <=> j = Len(s)
  BY SiteAway
<1>3. /\ h[i].op = "syscall" /\ h[i + 1].op = "cmp"
      /\ h[i + 2].op = "check" /\ h[i + 2].to = {n + 1, n + 2}
  BY Instructions DEF IsHead
<1>4. \A j \in 1 .. Len(h) : j < i \/ j = i \/ j = i + 1 \/ j = i + 2
  BY <1>1
<1>5. \A j \in 1 .. Len(h) : j < i => h[j].op \notin TerminatorOps
  <2> SUFFICES ASSUME NEW j \in 1 .. Len(h), j < i PROVE h[j].op \notin TerminatorOps
    OBVIOUS
  <2>1. j \in 1 .. i - 1 /\ j \in 1 .. Len(s) /\ j # Len(s)
    BY <1>1
  <2> QED  BY <1>2, <2>1 DEF IsHead
<1>6. \A j \in 1 .. Len(h) : h[j].op \in TerminatorOps <=> j = i + 2
  <2> TAKE j \in 1 .. Len(h)
  <2>1. i # i + 2 /\ i + 1 # i + 2 /\ (j < i => j # i + 2)
    BY <1>1
  <2> QED  BY <1>3, <1>4, <1>5, <2>1, OpsShape
<1>7. WellFormed(h)
  BY <1>1, <1>6 DEF WellFormed
<1>8. \A j \in 1 .. Len(h) : h[j].op \in TerminatorOps => h[j].to \subseteq 1 .. n + 2
  <2>1. {n + 1, n + 2} \subseteq 1 .. n + 2
    OBVIOUS
  <2> QED  BY <1>3, <1>6, <2>1
<1>9. \A j \in 1 .. Len(h) : h[j].op = "check" => j >= 3 /\ h[j - 1].op = "cmp" /\ h[j - 2].op = "syscall"
  <2> SUFFICES ASSUME NEW j \in 1 .. Len(h), h[j].op = "check"
               PROVE  j >= 3 /\ h[j - 1].op = "cmp" /\ h[j - 2].op = "syscall"
    OBVIOUS
  <2>1. j = i + 2
    BY <1>6, OpsShape
  <2>2. j - 1 = i + 1 /\ j - 2 = i /\ j >= 3
    BY <1>1, <2>1
  <2> QED  BY <1>3, <2>2
<1> QED  BY <1>1, <1>7, <1>8, <1>9 DEF BlockShape

(* So does the tail, which may be the whole of an invoke.                   *)
LEMMA TailStep ==
  ASSUME NEW n \in Nat, NEW s \in Seq(Inst), BlockShape(s, n), NEW i \in 1 .. Len(s),
         s[i].op \in CallOps, ~SplitInvoke(s), NEW cr, NEW t, IsTail(t, s, i, cr)
  PROVE  /\ BlockShape(t, n + 2)
         /\ SplitInvoke(t) <=> s[i].op = "invoke"
         /\ t[Len(t)].op = "check" <=> s[Len(s)].op = "check"
         /\ s[Len(s)].op = "check" => t[Len(t)] = s[Len(s)] /\ t[Len(t) - 2] = s[Len(s) - 2]
<1>1. Len(s) \in Nat /\ i \in Nat /\ 1 <= i /\ i <= Len(s) /\ Len(t) = Len(s) - i + 2 /\ t \in Seq(Inst)
  BY DEF IsTail
<1>2. /\ \A j \in 1 .. Len(s) : s[j].op \in TerminatorOps <=> j = Len(s)
      /\ s[Len(s)].op = "check" => i <= Len(s) - 3
  BY SiteAway
<1>3. t[1] = s[i] /\ t[2].op = "syscall"
  BY Instructions DEF IsTail
<1>4. \A j \in 3 .. Len(t) : /\ t[j] = s[j + i - 2] /\ j + i - 2 \in 1 .. Len(s)
                             /\ j + i - 2 = Len(s) <=> j = Len(t)
  BY <1>1 DEF IsTail
<1>5. \A j \in 1 .. Len(t) : j = 1 \/ j = 2 \/ j \in 3 .. Len(t)
  BY <1>1
<1>6. s[i].op = "invoke" <=> i = Len(s)
  BY <1>2, OpsShape
<1>7. s[i].op = "invoke" => SplitInvoke(t)
  BY <1>1, <1>3, <1>6 DEF SplitInvoke
<1>8. SplitInvoke(t) => s[i].op = "invoke"
  BY <1>3 DEF SplitInvoke
<1>9. s[i].op # "invoke" => WellFormed(t)
  <2> SUFFICES ASSUME s[i].op # "invoke", NEW j \in 1 .. Len(t)
               PROVE  t[j].op \in TerminatorOps <=> j = Len(t)
    BY <1>1 DEF WellFormed
  <2>1. Len(t) >= 3
    BY <1>1, <1>6
  <2>2. t[1].op \notin TerminatorOps /\ t[2].op \notin TerminatorOps
    BY <1>2, <1>3, <1>6, OpsShape
  <2>3. CASE j \in 3 .. Len(t)
    BY <1>2, <1>4, <2>3
  <2> QED  BY <1>5, <2>1, <2>2, <2>3
<1>10. \A j \in 1 .. Len(t) : t[j].op \in TerminatorOps => t[j].to \subseteq 1 .. n + 2
  <2> SUFFICES ASSUME NEW j \in 1 .. Len(t), t[j].op \in TerminatorOps PROVE t[j].to \subseteq 1 .. n + 2
    OBVIOUS
  <2>1. \E a \in 1 .. Len(s) : t[j] = s[a]
    BY <1>3, <1>4, <1>5, OpsShape
  <2>2. t[j].to \subseteq 1 .. n
    BY <2>1 DEF BlockShape
  <2> QED  BY <2>2
<1>11. \A j \in 1 .. Len(t) : t[j].op = "check" => j >= 3 /\ t[j - 1].op = "cmp" /\ t[j - 2].op = "syscall"
  <2> SUFFICES ASSUME NEW j \in 1 .. Len(t), t[j].op = "check"
               PROVE  j >= 3 /\ t[j - 1].op = "cmp" /\ t[j - 2].op = "syscall"
    OBVIOUS
  <2>1. j # 1 /\ j # 2
    BY <1>3, OpsShape
  <2>2. j \in 3 .. Len(t) /\ s[j + i - 2].op = "check"
    BY <1>4, <1>5, <2>1
  <2>3. j + i - 2 \in 1 .. Len(s) /\ j + i - 2 = Len(s)
    BY <1>2, <1>4, <2>2, OpsShape
  <2>4. s[Len(s) - 1].op = "cmp" /\ s[Len(s) - 2].op = "syscall" /\ i <= Len(s) - 3
    BY <1>2, <2>2, <2>3 DEF BlockShape
  <2>5. /\ j - 1 \in 3 .. Len(t) /\ (j - 1) + i - 2 = Len(s) - 1
        /\ j - 2 \in 3 .. Len(t) /\ (j - 2) + i - 2 = Len(s) - 2
    BY SMTT(60), <1>1, <2>2, <2>3, <2>4
  <2>6. t[j - 1] = s[Len(s) - 1] /\ t[j - 2] = s[Len(s) - 2]
    BY <1>4, <2>5
  <2> QED  BY <2>2, <2>4, <2>6
<1>12. BlockShape(t, n + 2)
  BY <1>1, <1>7, <1>9, <1>10, <1>11 DEF BlockShape
<1>13. t[Len(t)].op = "check" => s[Len(s)].op = "check"
  <2> SUFFICES ASSUME t[Len(t)].op = "check" PROVE s[Len(s)].op = "check"
    OBVIOUS
  <2>1. Len(t) \in 1 .. Len(t) /\ Len(t) # 1 /\ Len(t) # 2
    BY <1>1, <1>3, OpsShape
  <2>2. Len(t) \in 3 .. Len(t) /\ Len(t) + i - 2 = Len(s)
    BY <1>1, <2>1
  <2> QED  BY <1>4, <2>2
<1>14. s[Len(s)].op = "check" => t[Len(t)] = s[Len(s)] /\ t[Len(t) - 2] = s[Len(s) - 2]
  <2> SUFFICES ASSUME s[Len(s)].op = "check" PROVE t[Len(t)] = s[Len(s)] /\ t[Len(t) - 2] = s[Len(s) - 2]
    OBVIOUS
  <2>1. /\ Len(t) \in 3 .. Len(t) /\ Len(t) + i - 2 = Len(s)
        /\ Len(t) - 2 \in 3 .. Len(t) /\ (Len(t) - 2) + i - 2 = Len(s) - 2
    BY <1>1, <1>2
  <2> QED  BY <1>4, <2>1
<1> QED  BY <1>7, <1>8, <1>12, <1>13, <1>14

(* So does the block that exits.                                            *)
LEMMA ExitStep ==
  ASSUME NEW n \in Nat, NEW e, IsExit(e, n)
  PROVE  BlockShape(e, n + 2) /\ ~SplitInvoke(e) /\ e[1].op = "exit" /\ e[2].op = "resume" /\ Len(e) = 2
<1>1. /\ Len(e) = 2 /\ e[1].op = "exit" /\ e[2].op = "resume" /\ e[2].to = {n + 2} /\ e \in Seq(Inst)
  BY Instructions DEF IsExit
<1>2. \A j \in 1 .. Len(e) : j = 1 \/ j = 2
  BY <1>1
<1>3. WellFormed(e)
  <2>1. e # <<>> /\ \A j \in 1 .. 2 : j = 1 \/ j = 2
    BY <1>1
  <2>2. \A j \in 1 .. 2 : e[j].op \in TerminatorOps <=> j = 2
    BY <1>1, <2>1, OpsShape
  <2> QED  BY <1>1, <2>1, <2>2 DEF WellFormed
<1>4. {n + 2} \subseteq 1 .. n + 2
  OBVIOUS
<1>5. \A j \in 1 .. Len(e) : e[j].op \in TerminatorOps => e[j].to \subseteq 1 .. n + 2
  BY <1>1, <1>2, <1>4, OpsShape
<1>6. \A j \in 1 .. Len(e) : e[j].op # "check"
  BY <1>1, <1>2
<1>7. BlockShape(e, n + 2)
  <2>1. e # <<>>
    BY <1>1
  <2> QED  BY <1>3, <1>5, <1>6, <2>1 DEF BlockShape
<1> QED  BY <1>1, <1>7 DEF SplitInvoke

-----------------------------------------------------------------------------
(* The check at the end of the block labelled l is that of f's gate for g:  *)
(* it goes to d if the kernel refuses, to m, where the call is, if not.  V  *)
(* is what has been visited.                                                *)
Refuses(s) == s[1].op = "syscall" \/ (Len(s) >= 2 /\ s[1].op = "exit" /\ s[2].op = "resume")

GateOf(f, B, n, V, l, d, m, g) ==
  /\ l \in 1 .. n /\ d \in 1 .. n /\ m \in 1 .. n /\ d # m /\ m > Len(prog.code[f])
  /\ g \in prog.defs /\ <<f, g>> \in V /\ Lowers(f, g)
  /\ B[l][Len(B[l])] = Check(d, m)
  /\ \E ce \in ConstantsRead(prog.section[g]) : B[l][Len(B[l]) - 2] = Syscall(ce)
  /\ \E cr \in ConstantsRead(prog.section[f]) : B[m][2] = Syscall(cr)
  /\ Len(B[m]) >= 2 /\ B[m][1].op \in CallOps /\ B[m][1].callee = g
  /\ Refuses(B[d])

(* The branches and invokes of f are those it had.                          *)
JumpsKept(f, B, n) ==
  \A l \in 1 .. n : \A i \in 1 .. Len(B[l]) :
    B[l][i].op \in {"br", "invoke"} => B[l][i].to \subseteq 1 .. Len(prog.code[f])

ChecksGate(f, B, n, V) ==
  \A l \in 1 .. n : B[l][Len(B[l])].op = "check" => \E d, m, g : GateOf(f, B, n, V, l, d, m, g)

GatedOnce(f, B, n, V) ==
  \A g, l, d, m, x, y, z :
    GateOf(f, B, n, V, l, d, m, g) /\ GateOf(f, B, n, V, x, y, z, g) => l = x /\ m = z

VisitedGated(f, B, n, V) ==
  \A g \in prog.defs :
    <<f, g>> \in V /\ BothTagged(f, g) /\ prog.section[g] < prog.section[f] =>
      \E l, d, m : GateOf(f, B, n, V, l, d, m, g)

SplitsGated(f, B, n, V) ==
  \A m \in 1 .. n : SplitInvoke(B[m]) => \E l, d, g : GateOf(f, B, n, V, l, d, m, g)

Shape(f, B, n, V) ==
  /\ n >= Len(prog.code[f])
  /\ B \in [1 .. n -> Seq(Inst)]
  /\ BlocksShape(B, n) /\ JumpsKept(f, B, n)
  /\ ChecksGate(f, B, n, V) /\ GatedOnce(f, B, n, V)
  /\ VisitedGated(f, B, n, V) /\ SplitsGated(f, B, n, V)

(* The gates a check may belong to: one.                                    *)
LEMMA GateIsUnique ==
  ASSUME NEW f, NEW B, NEW n, NEW V, NEW W, NEW l, NEW d, NEW m, NEW g, NEW y, NEW z, NEW h,
         GateOf(f, B, n, V, l, d, m, g), GateOf(f, B, n, W, l, y, z, h)
  PROVE  d = y /\ m = z /\ g = h
<1>1. Check(d, m) = Check(y, z) /\ d # m /\ y # z
  BY DEF GateOf
<1>2. Check(d, m).denied = Check(y, z).denied /\ Check(d, m).to = Check(y, z).to
  BY <1>1
<1>3. d = y /\ {d, m} = {y, z}
  <2>1. /\ Check(d, m).denied = d /\ Check(d, m).to = {d, m}
        /\ Check(y, z).denied = y /\ Check(y, z).to = {y, z}
    BY Instructions
  <2> QED  BY <1>2, <2>1
<1>4. m = z
  BY <1>1, <1>3
<1> QED  BY <1>3, <1>4 DEF GateOf

(* A call the pass has not visited is not the call of a gate, nor in a      *)
(* block in front of which a gated invoke was cut.                          *)
LEMMA SiteIsFree ==
  ASSUME NEW f, NEW B, NEW n \in Nat, NEW V, Shape(f, B, n, V),
         NEW l \in 1 .. n, NEW i \in 1 .. Len(B[l]),
         B[l][i].op \in CallOps, <<f, B[l][i].callee>> \notin V
  PROVE  /\ ~SplitInvoke(B[l])
         /\ \A x, d, g : GateOf(f, B, n, V, x, d, l, g) => i >= 3
<1>1. B[l] \in Seq(Inst) /\ i \in Nat /\ i >= 1
  BY DEF Shape
<1>2. ASSUME NEW x, NEW d, NEW g, GateOf(f, B, n, V, x, d, l, g) PROVE i >= 3
  <2>1. B[l][1].callee = g /\ <<f, g>> \in V /\ B[l][2].op = "syscall"
    BY <1>2, Instructions DEF GateOf
  <2>2. i # 1 /\ i # 2
    BY <2>1, OpsShape
  <2> QED  BY <1>1, <2>2
<1>3. ASSUME SplitInvoke(B[l]) PROVE FALSE
  <2>1. PICK x, d, g : GateOf(f, B, n, V, x, d, l, g)
    BY <1>3 DEF Shape, SplitsGated
  <2>2. i >= 3 /\ Len(B[l]) = 2
    BY <1>2, <1>3, <2>1 DEF SplitInvoke
  <2> QED  BY <2>2
<1> QED  BY <1>2, <1>3

-----------------------------------------------------------------------------
(* What GateSite does to the blocks of its function, by label.              *)
GatesSite(f, B, n, V, C, l, i, g, cr, ce) ==
  /\ l \in 1 .. n /\ i \in 1 .. Len(B[l]) /\ B[l][i].op \in CallOps /\ B[l][i].callee = g
  /\ g \in prog.defs /\ <<f, g>> \notin V /\ Lowers(f, g)
  /\ cr \in ConstantsRead(prog.section[f]) /\ ce \in ConstantsRead(prog.section[g])
  /\ C \in [1 .. n + 2 -> Seq(Inst)]
  /\ \A x \in 1 .. n : x # l => C[x] = B[x]
  /\ IsHead(C[l], B[l], i, n, ce) /\ IsExit(C[n + 1], n) /\ IsTail(C[n + 2], B[l], i, cr)

(* Every gate there was is still there; a check is where its block ends.    *)
Moved(n, l, x) == IF x = l THEN n + 2 ELSE x

(* A gate is still one after another one was put into the function.         *)
LEMMA GateStays ==
  ASSUME NEW f, NEW B, NEW n \in Nat, NEW V, Shape(f, B, n, V),
         NEW C, NEW l, NEW i, NEW h, NEW cr, NEW ce, GatesSite(f, B, n, V, C, l, i, h, cr, ce),
         NEW W, V \subseteq W,
         NEW x, NEW d, NEW m, NEW g, GateOf(f, B, n, V, x, d, m, g)
  PROVE  GateOf(f, C, n + 2, W, Moved(n, l, x), d, m, g)
<1>1. /\ l \in 1 .. n /\ i \in 1 .. Len(B[l]) /\ B[l][i].op \in CallOps
      /\ <<f, B[l][i].callee>> \notin V /\ B[l] \in Seq(Inst) /\ BlockShape(B[l], n)
      /\ \A y \in 1 .. n : y # l => C[y] = B[y]
      /\ IsHead(C[l], B[l], i, n, ce) /\ IsTail(C[n + 2], B[l], i, cr)
  BY DEF GatesSite, Shape, BlocksShape
<1>2. ~SplitInvoke(B[l]) /\ (m = l => i >= 3)
  BY <1>1, SiteIsFree
<1>3. /\ x \in 1 .. n /\ d \in 1 .. n /\ m \in 1 .. n /\ d # m /\ m > Len(prog.code[f])
      /\ g \in prog.defs /\ <<f, g>> \in W /\ Lowers(f, g)
  BY DEF GateOf
<1>4. PICK c \in ConstantsRead(prog.section[g]) : B[x][Len(B[x]) - 2] = Syscall(c)
  BY DEF GateOf
<1>5. PICK b \in ConstantsRead(prog.section[f]) : B[m][2] = Syscall(b)
  BY DEF GateOf
<1>6. B[x][Len(B[x])] = Check(d, m) /\ B[x][Len(B[x])].op = "check"
  BY Instructions DEF GateOf
<1> DEFINE y == Moved(n, l, x)
<1>7. y \in 1 .. n + 2 /\ C[y][Len(C[y])] = Check(d, m) /\ C[y][Len(C[y]) - 2] = Syscall(c)
  <2>0. n + 2 \in 1 .. n + 2 /\ x \in 1 .. n + 2
    BY <1>3
  <2>1. CASE x = l
    <3>1. C[n + 2][Len(C[n + 2])] = B[l][Len(B[l])] /\ C[n + 2][Len(C[n + 2]) - 2] = B[l][Len(B[l]) - 2]
      BY SMTT(40), <1>1, <1>2, <1>6, <2>1, TailStep
    <3>2. y = n + 2
      BY <2>1 DEF Moved
    <3> HIDE DEF y
    <3> QED  BY <1>4, <1>6, <2>0, <2>1, <3>1, <3>2
  <2>2. CASE x # l
    <3>1. y = x /\ C[x] = B[x]
      BY <1>1, <1>3, <2>2 DEF Moved
    <3> HIDE DEF y
    <3> QED  BY <1>4, <1>6, <2>0, <3>1
  <2> QED  BY <2>1, <2>2
<1>8. /\ Len(B[m]) >= 2 /\ B[m][1].op \in CallOps /\ B[m][1].callee = g
      /\ Refuses(B[d])
  BY DEF GateOf
<1>9. Len(C[m]) >= 2 /\ C[m][1] = B[m][1] /\ C[m][2] = B[m][2]
  <2>1. CASE m = l
    <3>1. i >= 3 /\ i \in Nat /\ 1 \in 1 .. i - 1 /\ 2 \in 1 .. i - 1
      BY <1>1, <1>2, <2>1
    <3> QED  BY SMTT(40), <1>1, <2>1, <3>1 DEF IsHead
  <2> QED  BY <1>1, <1>3, <1>8, <2>1
<1>10. Refuses(C[d])
  <2>1. CASE d = l /\ i = 1
    BY <1>1, <2>1, Instructions DEF IsHead, Refuses
  <2>2. CASE d = l /\ i = 2
    <3>1. B[l][1].op = "syscall"
      BY <1>1, <1>8, <2>2, OpsShape DEF Refuses
    <3>2. C[l][1] = B[l][1]
      BY <1>1, <2>2 DEF IsHead
    <3> QED  BY <2>2, <3>1, <3>2 DEF Refuses
  <2>3. CASE d = l /\ i >= 3
    <3>1. i \in Nat /\ 1 \in 1 .. i - 1 /\ 2 \in 1 .. i - 1
      BY <1>1, <2>3
    <3>2. C[l][1] = B[l][1] /\ C[l][2] = B[l][2] /\ Len(C[l]) >= 2
      BY <1>1, <2>3, <3>1 DEF IsHead
    <3> QED  BY <1>8, <2>3, <3>2 DEF Refuses
  <2>4. CASE d # l
    BY <1>1, <1>3, <1>8, <2>4
  <2>5. i \in Nat /\ i >= 1
    BY <1>1
  <2> QED  BY <2>1, <2>2, <2>3, <2>4, <2>5
<1>11. d \in 1 .. n + 2 /\ m \in 1 .. n + 2
  BY <1>3
<1>12. C[m][2] = Syscall(b) /\ C[m][1].op \in CallOps /\ C[m][1].callee = g
  BY <1>5, <1>8, <1>9
<1> QED  BY <1>3, <1>4, <1>5, <1>7, <1>9, <1>10, <1>11, <1>12 DEF GateOf

(* The gate that is put in.                                                 *)
LEMMA GateComes ==
  ASSUME NEW f, NEW B, NEW n \in Nat, NEW V, Shape(f, B, n, V),
         NEW C, NEW l, NEW i, NEW h, NEW cr, NEW ce, GatesSite(f, B, n, V, C, l, i, h, cr, ce),
         NEW W, <<f, h>> \in W, prog.code[f] \in Seq(Block)
  PROVE  GateOf(f, C, n + 2, W, l, n + 1, n + 2, h)
<1>1. /\ l \in 1 .. n /\ i \in 1 .. Len(B[l]) /\ B[l] \in Seq(Inst)
      /\ B[l][i].op \in CallOps /\ B[l][i].callee = h /\ h \in prog.defs /\ Lowers(f, h)
      /\ cr \in ConstantsRead(prog.section[f]) /\ ce \in ConstantsRead(prog.section[h])
      /\ IsHead(C[l], B[l], i, n, ce) /\ IsExit(C[n + 1], n) /\ IsTail(C[n + 2], B[l], i, cr)
      /\ n >= Len(prog.code[f])
  BY DEF GatesSite, Shape
<1>2. /\ Len(C[l]) = i + 2 /\ (i + 2) - 2 = i
      /\ C[l][i + 2] = Check(n + 1, n + 2) /\ C[l][i] = Syscall(ce)
  BY <1>1 DEF IsHead
<1>3. /\ Len(C[n + 2]) >= 2 /\ C[n + 2][1].op \in CallOps /\ C[n + 2][1].callee = h
      /\ C[n + 2][2] = Syscall(cr)
  BY <1>1 DEF IsTail
<1>4. Refuses(C[n + 1])
  BY <1>1, ExitStep DEF Refuses
<1>5. /\ l \in 1 .. n + 2 /\ n + 1 \in 1 .. n + 2 /\ n + 2 \in 1 .. n + 2 /\ n + 1 # n + 2
      /\ n + 2 > Len(prog.code[f])
  BY <1>1
<1> QED  BY <1>1, <1>2, <1>3, <1>4, <1>5 DEF GateOf

(* And no other.                                                            *)
LEMMA GatesAfter ==
  ASSUME NEW f, NEW B, NEW n \in Nat, NEW V, Shape(f, B, n, V), prog.code[f] \in Seq(Block),
         NEW C, NEW l, NEW i, NEW h, NEW cr, NEW ce, GatesSite(f, B, n, V, C, l, i, h, cr, ce),
         NEW W, V \subseteq W, <<f, h>> \in W,
         NEW x \in 1 .. n + 2, C[x][Len(C[x])].op = "check"
  PROVE  \/ x = l /\ GateOf(f, C, n + 2, W, x, n + 1, n + 2, h)
         \/ \E y, d, m, g : /\ x = Moved(n, l, y) /\ GateOf(f, B, n, V, y, d, m, g)
                            /\ GateOf(f, C, n + 2, W, x, d, m, g)
<1>1. /\ l \in 1 .. n /\ i \in 1 .. Len(B[l]) /\ B[l][i].op \in CallOps
      /\ <<f, B[l][i].callee>> \notin V /\ B[l] \in Seq(Inst) /\ BlockShape(B[l], n)
      /\ \A y \in 1 .. n : y # l => C[y] = B[y]
      /\ IsHead(C[l], B[l], i, n, ce) /\ IsExit(C[n + 1], n) /\ IsTail(C[n + 2], B[l], i, cr)
      /\ \A y \in 1 .. n : B[y][Len(B[y])].op = "check" => \E d, m, g : GateOf(f, B, n, V, y, d, m, g)
  BY DEF GatesSite, Shape, BlocksShape, ChecksGate
<1>2. ASSUME NEW y \in 1 .. n, B[y][Len(B[y])].op = "check", x = Moved(n, l, y)
      PROVE  \E d, m, g : GateOf(f, B, n, V, y, d, m, g) /\ GateOf(f, C, n + 2, W, x, d, m, g)
  <2>1. PICK d, m, g : GateOf(f, B, n, V, y, d, m, g)
    BY <1>1, <1>2
  <2>2. GateOf(f, C, n + 2, W, x, d, m, g)
    BY <1>2, <2>1, GateStays
  <2> QED  BY <2>1, <2>2
<1>3. CASE x = l
  BY <1>3, GateComes
<1>4. CASE x = n + 1
  <2>1. Len(C[n + 1]) = 2 /\ C[n + 1][2].op = "resume"
    BY <1>1, ExitStep
  <2> QED  BY <1>4, <2>1
<1>5. CASE x = n + 2
  <2>1. ~SplitInvoke(B[l])
    BY <1>1, SiteIsFree
  <2>2. B[l][Len(B[l])].op = "check"
    BY SMTT(40), <1>1, <1>5, <2>1, TailStep
  <2>3. x = Moved(n, l, l)
    BY <1>5 DEF Moved
  <2> QED  BY <1>1, <1>2, <2>2, <2>3
<1>6. CASE x \in 1 .. n /\ x # l
  <2>1. x = Moved(n, l, x) /\ C[x] = B[x]
    BY <1>1, <1>6 DEF Moved
  <2> QED  BY <1>2, <1>6, <2>1
<1> QED  BY <1>3, <1>4, <1>5, <1>6

(* Gating keeps the shape of a function.                                    *)
LEMMA ShapeStep ==
  ASSUME NEW f, NEW B, NEW n \in Nat, NEW V, Shape(f, B, n, V), prog.code[f] \in Seq(Block),
         NEW C, NEW l, NEW i, NEW h, NEW cr, NEW ce, GatesSite(f, B, n, V, C, l, i, h, cr, ce)
  PROVE  Shape(f, C, n + 2, V \cup {<<f, h>>})
<1> DEFINE W == V \cup {<<f, h>>}
<1>0. V \subseteq W /\ <<f, h>> \in W
  OBVIOUS
<1>1. /\ l \in 1 .. n /\ i \in 1 .. Len(B[l]) /\ B[l][i].op \in CallOps /\ B[l][i].callee = h
      /\ <<f, h>> \notin V /\ B[l] \in Seq(Inst) /\ BlockShape(B[l], n)
      /\ C \in [1 .. n + 2 -> Seq(Inst)]
      /\ \A y \in 1 .. n : y # l => C[y] = B[y]
      /\ IsHead(C[l], B[l], i, n, ce) /\ IsExit(C[n + 1], n) /\ IsTail(C[n + 2], B[l], i, cr)
      /\ Len(prog.code[f]) \in Nat /\ n >= Len(prog.code[f])
  BY SMTT(40) DEF GatesSite, Shape, BlocksShape
<1>2. ~SplitInvoke(B[l]) /\ \A x, d, g : GateOf(f, B, n, V, x, d, l, g) => i >= 3
  BY <1>1, SiteIsFree
<1>3. \A x \in 1 .. n + 2 : x = l \/ x = n + 1 \/ x = n + 2 \/ (x \in 1 .. n /\ x # l)
  OBVIOUS
<1>4. BlocksShape(C, n + 2)
  <2> SUFFICES ASSUME NEW x \in 1 .. n + 2 PROVE BlockShape(C[x], n + 2)
    BY DEF BlocksShape
  <2>1. CASE x = l
    BY <1>1, <1>2, <2>1, HeadStep
  <2>2. CASE x = n + 1
    BY <1>1, <2>2, ExitStep
  <2>3. CASE x = n + 2
    BY <1>1, <1>2, <2>3, TailStep
  <2>4. CASE x \in 1 .. n /\ x # l
    <3>1. C[x] = B[x] /\ BlockShape(B[x], n)
      BY <1>1, <2>4 DEF Shape, BlocksShape
    <3>2. 1 .. n \subseteq 1 .. n + 2
      OBVIOUS
    <3> QED  BY <3>1, <3>2 DEF BlockShape
  <2> QED  BY <1>3, <2>1, <2>2, <2>3, <2>4
<1>5. JumpsKept(f, C, n + 2)
  <2> SUFFICES ASSUME NEW x \in 1 .. n + 2, NEW j \in 1 .. Len(C[x]), C[x][j].op \in {"br", "invoke"}
               PROVE  C[x][j].to \subseteq 1 .. Len(prog.code[f])
    BY DEF JumpsKept
  <2>0. \A y \in 1 .. n : \A a \in 1 .. Len(B[y]) :
          B[y][a].op \in {"br", "invoke"} => B[y][a].to \subseteq 1 .. Len(prog.code[f])
    BY DEF Shape, JumpsKept
  <2>1. CASE x = l
    <3>1. /\ Len(C[l]) = i + 2 /\ C[l][i].op = "syscall" /\ C[l][i + 1].op = "cmp" /\ C[l][i + 2].op = "check"
          /\ \A a \in 1 .. i - 1 : C[l][a] = B[l][a]
      <4>1. /\ Len(C[l]) = i + 2 /\ \A a \in 1 .. i - 1 : C[l][a] = B[l][a]
            /\ C[l][i] = Syscall(ce) /\ C[l][i + 1] = Cmp /\ C[l][i + 2] = Check(n + 1, n + 2)
        BY <1>1 DEF IsHead
      <4>2. Syscall(ce).op = "syscall" /\ Cmp.op = "cmp" /\ Check(n + 1, n + 2).op = "check"
        BY Instructions
      <4>3. C[l][i].op = "syscall" /\ C[l][i + 1].op = "cmp" /\ C[l][i + 2].op = "check"
        BY Zenon, <4>1, <4>2
      <4> QED  BY Zenon, <4>1, <4>3
    <3>2. j # i /\ j # i + 1 /\ j # i + 2
      BY <2>1, <3>1
    <3>3. j \in 1 .. i - 1 /\ j \in 1 .. Len(B[l])
      BY SMTT(60), <1>1, <2>1, <3>1, <3>2
    <3> QED  BY <1>1, <2>0, <2>1, <3>1, <3>3
  <2>2. CASE x = n + 1
    <3>1. Len(C[x]) = 2 /\ C[x][1].op = "exit" /\ C[x][2].op = "resume"
      BY <1>1, <2>2, ExitStep
    <3>2. j = 1 \/ j = 2
      BY <3>1
    <3> QED  BY <3>1, <3>2
  <2>3. CASE x = n + 2
    <3>1. /\ Len(C[x]) = Len(B[l]) - i + 2 /\ C[x][1] = B[l][i] /\ C[x][2].op = "syscall"
          /\ \A a \in 3 .. Len(B[l]) - i + 2 : C[x][a] = B[l][a + i - 2]
      BY ZenonT(40), <1>1, <2>3, Instructions DEF IsTail
    <3>2. j = 1 \/ (j \in 3 .. Len(B[l]) - i + 2 /\ j + i - 2 \in 1 .. Len(B[l]))
      <4>1. PICK c : c = Len(B[l])
        OBVIOUS
      <4>2. c \in Nat /\ i \in Nat /\ i <= c /\ i >= 1
        BY <1>1, <4>1
      <4>3. j \in 1 .. c - i + 2
        BY <3>1, <4>1
      <4>4. j # 2
        BY <3>1
      <4>5. j = 1 \/ (j \in 3 .. c - i + 2 /\ j + i - 2 \in 1 .. c)
        BY <4>2, <4>3, <4>4
      <4> QED  BY <4>1, <4>5
    <3>3. \E a \in 1 .. Len(B[l]) : C[x][j] = B[l][a]
      BY <1>1, <3>1, <3>2
    <3> QED  BY <1>1, <2>0, <3>3
  <2>4. CASE x \in 1 .. n /\ x # l
    BY <1>1, <2>0, <2>4
  <2> QED  BY <1>3, <2>1, <2>2, <2>3, <2>4
<1>6. ChecksGate(f, C, n + 2, W)
  <2> SUFFICES ASSUME NEW x \in 1 .. n + 2, C[x][Len(C[x])].op = "check"
               PROVE  \E d, m, g : GateOf(f, C, n + 2, W, x, d, m, g)
    BY DEF ChecksGate
  <2> QED  BY <1>0, GatesAfter
<1>7. \A x, d, m, g : GateOf(f, C, n + 2, W, x, d, m, g) =>
        \/ x = l /\ m = n + 2 /\ g = h
        \/ g # h /\ \E y, z : x = Moved(n, l, y) /\ GateOf(f, B, n, V, y, z, m, g)
  <2> TAKE x, d, m, g
  <2> HAVE GateOf(f, C, n + 2, W, x, d, m, g)
  <2>1. x \in 1 .. n + 2 /\ C[x][Len(C[x])].op = "check"
    BY Instructions DEF GateOf
  <2>2. CASE x = l /\ GateOf(f, C, n + 2, W, x, n + 1, n + 2, h)
    BY <2>2, GateIsUnique
  <2>3. ASSUME NEW y, NEW z, NEW a, NEW b, x = Moved(n, l, y), GateOf(f, B, n, V, y, z, a, b),
               GateOf(f, C, n + 2, W, x, z, a, b)
        PROVE  g # h /\ \E u, v : x = Moved(n, l, u) /\ GateOf(f, B, n, V, u, v, m, g)
    <3>1. a = m /\ b = g
      BY <2>3, GateIsUnique
    <3>2. <<f, g>> \in V
      BY <2>3, <3>1 DEF GateOf
    <3> QED  BY <1>1, <2>3, <3>1, <3>2
  <2>4. \/ x = l /\ GateOf(f, C, n + 2, W, x, n + 1, n + 2, h)
        \/ \E y, z, a, b : /\ x = Moved(n, l, y) /\ GateOf(f, B, n, V, y, z, a, b)
                           /\ GateOf(f, C, n + 2, W, x, z, a, b)
    <3> HIDE DEF W
    <3> QED  BY SMTT(40), <1>0, <2>1, GatesAfter
  <2> HIDE DEF W
  <2>5. CASE x = l /\ GateOf(f, C, n + 2, W, x, n + 1, n + 2, h)
    BY <2>2, <2>5
  <2>6. CASE \E y, z, a, b : /\ x = Moved(n, l, y) /\ GateOf(f, B, n, V, y, z, a, b)
                            /\ GateOf(f, C, n + 2, W, x, z, a, b)
    BY <2>3, <2>6
  <2> QED  BY <2>4, <2>5, <2>6
<1> HIDE DEF W
<1>8. GatedOnce(f, C, n + 2, W)
  <2> SUFFICES ASSUME NEW g, NEW x, NEW d, NEW m, NEW y, NEW e, NEW z,
                      GateOf(f, C, n + 2, W, x, d, m, g), GateOf(f, C, n + 2, W, y, e, z, g)
               PROVE  x = y /\ m = z
    BY DEF GatedOnce
  <2>1. CASE g = h
    <3>1. g # h \/ (x = l /\ m = n + 2)
      BY <1>7
    <3>2. g # h \/ (y = l /\ z = n + 2)
      BY <1>7
    <3> QED  BY <2>1, <3>1, <3>2
  <2>2. CASE g # h
    <3>1. PICK a, b : x = Moved(n, l, a) /\ GateOf(f, B, n, V, a, b, m, g)
      BY <1>7, <2>2
    <3>2. PICK j, k : y = Moved(n, l, j) /\ GateOf(f, B, n, V, j, k, z, g)
      BY <1>7, <2>2
    <3>3. a = j /\ m = z
      BY <3>1, <3>2 DEF Shape, GatedOnce
    <3> QED  BY <3>1, <3>2, <3>3
  <2> QED  BY <2>1, <2>2
<1>9. \A x, d, m, g : GateOf(f, B, n, V, x, d, m, g) => \E y : GateOf(f, C, n + 2, W, y, d, m, g)
  BY <1>0, GateStays
<1>10. VisitedGated(f, C, n + 2, W)
  <2> SUFFICES ASSUME NEW g \in prog.defs, <<f, g>> \in W, BothTagged(f, g), prog.section[g] < prog.section[f]
               PROVE  \E x, d, m : GateOf(f, C, n + 2, W, x, d, m, g)
    BY DEF VisitedGated
  <2>1. CASE <<f, g>> \in V
    <3>1. PICK x, d, m : GateOf(f, B, n, V, x, d, m, g)
      BY <2>1 DEF Shape, VisitedGated
    <3> QED  BY <1>9, <3>1
  <2>2. CASE g = h
    BY <1>0, <2>2, GateComes
  <2> QED  BY <2>1, <2>2 DEF W
<1>11. SplitsGated(f, C, n + 2, W)
  <2> SUFFICES ASSUME NEW m \in 1 .. n + 2, SplitInvoke(C[m])
               PROVE  \E x, d, g : GateOf(f, C, n + 2, W, x, d, m, g)
    BY DEF SplitsGated
  <2>1. CASE m = l
    <3>1. Len(C[l]) = i + 2 /\ C[l][i + 2].op = "check"
      BY <1>1, Instructions DEF IsHead
    <3>2. Len(C[l]) = 2
      BY <2>1 DEF SplitInvoke
    <3>3. i \in Nat /\ i >= 1
      BY <1>1
    <3>4. FALSE
      BY <3>1, <3>2, <3>3, <2>1
    <3> QED  BY <3>4
  <2>2. CASE m = n + 1
    BY <1>1, <2>2, ExitStep
  <2>3. CASE m = n + 2
    BY <1>0, <2>3, GateComes
  <2>4. CASE m \in 1 .. n /\ m # l
    <3>1. SplitInvoke(B[m])
      BY <1>1, <2>4
    <3>2. PICK x, d, g : GateOf(f, B, n, V, x, d, m, g)
      BY <2>4, <3>1 DEF Shape, SplitsGated
    <3> QED  BY <1>9, <3>2
  <2> QED  BY <1>3, <2>1, <2>2, <2>3, <2>4
<1>12. n + 2 >= Len(prog.code[f])
  BY <1>1
<1>13. Shape(f, C, n + 2, W)
  BY <1>1, <1>4, <1>5, <1>6, <1>8, <1>10, <1>11, <1>12 DEF Shape
<1> QED  BY <1>13 DEF W

-----------------------------------------------------------------------------
(* Every function has that shape at every step.                             *)
GateInv ==
  \A f \in Function :
    \E B : View(code[f], B) /\ Shape(f, B, Len(code[f]), visited)

(* What TypeOK says of the program.                                         *)
LEMMA ProgramShape ==
  ASSUME TypeOK
  PROVE  /\ prog.defs \in SUBSET Function /\ prog.section \in [Function -> Section]
         /\ prog.code \in [Function -> Seq(Block)] /\ prog.exit \in Function
         /\ \A f \in Function : FromSource(prog.code[f])
         /\ \A f \in prog.defs : prog.code[f] # <<>>
  BY ProgramsAssumption DEF TypeOK, Program, ProgramFields

(* The pass starts in a state of the right type.                           *)
LEMMA TypeInit == Init => TypeOK
<1> SUFFICES ASSUME Init PROVE TypeOK
  OBVIOUS
<1>1. prog \in Program
  BY ProgramsAssumption DEF Init
<1>2. prog.code \in [Function -> Seq(Block)]
  BY <1>1 DEF Program, ProgramFields
<1> QED  BY <1>2 DEF Init, TypeOK

(* A program as it comes has no gate.                                       *)
LEMMA GateInit == Init => GateInv
<1> SUFFICES ASSUME Init, NEW f \in Function
             PROVE  \E B : View(code[f], B) /\ Shape(f, B, Len(code[f]), visited)
  BY DEF GateInv
<1>1. TypeOK
  BY TypeInit
<1>2. PICK c, n : c = code[f] /\ n = Len(c)
  OBVIOUS
<1>3. c = prog.code[f] /\ c \in Seq(Block) /\ FromSource(c) /\ visited = {} /\ n \in Nat /\ n = Len(prog.code[f])
  BY <1>1, <1>2, ProgramShape DEF Init
<1>4. PICK B : B = [k \in 1 .. n |-> c[k].insts]
  OBVIOUS
<1>5. \A k \in 1 .. n : /\ B[k] = c[k].insts /\ c[k].label = k /\ c[k].insts \in Seq(Inst)
                        /\ WellFormed(c[k].insts)
  <2> TAKE k \in 1 .. n
  <2>1. k \in DOMAIN c /\ c[k] \in Block
    BY <1>2, <1>3
  <2>2. c[k].label = k /\ WellFormed(c[k].insts)
    BY <1>3, <2>1 DEF FromSource
  <2> QED  BY <1>4, <2>1, <2>2 DEF Block
<1>6. \A k \in 1 .. n : \A i \in 1 .. Len(B[k]) :
        B[k][i].op \in SourceOps /\ (B[k][i].op \in TerminatorOps => B[k][i].to \subseteq 1 .. n)
  <2> TAKE k \in 1 .. n
  <2> TAKE i \in 1 .. Len(B[k])
  <2>1. k \in DOMAIN c /\ DOMAIN c = 1 .. n /\ B[k] = c[k].insts /\ c[k].insts \in Seq(Inst)
    BY <1>2, <1>3, <1>5
  <2>2. i \in DOMAIN c[k].insts
    BY <2>1
  <2> QED  BY <1>3, <2>1, <2>2 DEF FromSource
<1>7. "check" \notin SourceOps /\ "syscall" \notin SourceOps
  BY DEF SourceOps
<1>8. B \in [1 .. n -> Seq(Inst)]
  BY <1>4, <1>5
<1>9. View(c, B)
  BY <1>2, <1>5, <1>8 DEF View
<1>10. BlocksShape(B, n)
  <2> SUFFICES ASSUME NEW k \in 1 .. n PROVE BlockShape(B[k], n)
    BY DEF BlocksShape
  <2> QED  BY <1>5, <1>6, <1>7 DEF BlockShape, WellFormed
<1>11. JumpsKept(f, B, n)
  BY <1>3, <1>6, OpsShape DEF JumpsKept
<1>12. \A k \in 1 .. n : Len(B[k]) \in 1 .. Len(B[k])
  BY <1>5, <1>8 DEF WellFormed
<1>13. ChecksGate(f, B, n, visited)
  BY <1>6, <1>7, <1>12 DEF ChecksGate
<1>14. GatedOnce(f, B, n, visited) /\ VisitedGated(f, B, n, visited)
  BY <1>3 DEF GatedOnce, VisitedGated, GateOf
<1>15. SplitsGated(f, B, n, visited)
  <2> SUFFICES ASSUME NEW m \in 1 .. n, SplitInvoke(B[m]) PROVE FALSE
    BY DEF SplitsGated
  <2>1. 2 \in 1 .. Len(B[m]) /\ B[m][2].op = "syscall"
    BY DEF SplitInvoke
  <2> QED  BY <1>6, <1>7, <2>1
<1>16. n >= Len(prog.code[f])
  BY <1>3
<1>17. Shape(f, B, n, visited)
  BY <1>8, <1>10, <1>11, <1>13, <1>14, <1>15, <1>16 DEF Shape
<1> QED  BY <1>2, <1>9, <1>17

(* What GateSite does to the blocks of the function, as a sequence.         *)
LEMMA GateSiteShape ==
  ASSUME TypeOK, NEW f \in prog.defs, NEW k \in DOMAIN code[f], NEW i \in DOMAIN code[f][k].insts,
         GateSite(f, k, i)
  PROVE  /\ code[f] \in Seq(Block) /\ k \in 1 .. Len(code[f]) /\ code[f][k] \in Block
         /\ \E h, e, t \in Seq(Inst), cr \in ConstantsRead(prog.section[f]),
               ce \in ConstantsRead(prog.section[CalleeAt(f, k, i)]) :
              /\ IsHead(h, code[f][k].insts, i, Len(code[f]), ce)
              /\ IsExit(e, Len(code[f])) /\ IsTail(t, code[f][k].insts, i, cr)
              /\ code' = [code EXCEPT ![f] = code'[f]] /\ code'[f] \in Seq(Block)
              /\ Replaces(code'[f], code[f], k, << [label |-> code[f][k].label, insts |-> h],
                                                  [label |-> Len(code[f]) + 1, insts |-> e],
                                                  [label |-> Len(code[f]) + 2, insts |-> t] >>)
<1>1. f \in Function /\ code \in [Function -> Seq(Block)] /\ code[f] \in Seq(Block)
  BY ProgramShape DEF TypeOK
<1>2. k \in 1 .. Len(code[f]) /\ code[f][k] \in Block /\ Len(code[f]) \in Nat
  BY <1>1
<1>3. code[f][k].insts \in Seq(Inst) /\ i \in 1 .. Len(code[f][k].insts)
  BY <1>2 DEF Block
<1>4. CalleeAt(f, k, i) \in prog.defs /\ prog.section[CalleeAt(f, k, i)] \in Section
      /\ prog.section[f] \in Section /\ prog.exit \in Function
  BY <1>1, ProgramShape DEF GateSite, IsFirst, Unvisited, IsSite, CalleeAt
<1>5. PICK cr \in ConstantsRead(prog.section[f]), ce \in ConstantsRead(prog.section[CalleeAt(f, k, i)]) :
        code' = [code EXCEPT ![f] = SubSeq(code[f], 1, k - 1)
                                      \o Gate(code[f][k], i, Len(code[f]), cr, ce)
                                      \o SubSeq(code[f], k + 1, Len(code[f]))]
  BY DEF GateSite
<1>6. cr \in Tag /\ ce \in Tag
  BY <1>4, Constants
<1>7. PICK h, e, t \in Seq(Inst) :
        /\ Gate(code[f][k], i, Len(code[f]), cr, ce) =
             << [label |-> code[f][k].label, insts |-> h],
                [label |-> Len(code[f]) + 1, insts |-> e],
                [label |-> Len(code[f]) + 2, insts |-> t] >>
        /\ IsHead(h, code[f][k].insts, i, Len(code[f]), ce) /\ IsExit(e, Len(code[f]))
        /\ IsTail(t, code[f][k].insts, i, cr)
  BY <1>2, <1>3, <1>4, <1>6, GateShape
<1>8. PICK g : g = << [label |-> code[f][k].label, insts |-> h],
                      [label |-> Len(code[f]) + 1, insts |-> e],
                      [label |-> Len(code[f]) + 2, insts |-> t] >>
  OBVIOUS
<1>9. g \in Seq(Block) /\ Len(g) = 3
  <2>1. code[f][k].label \in Nat /\ Len(code[f]) + 1 \in Nat /\ Len(code[f]) + 2 \in Nat
    BY <1>2 DEF Block
  <2>2. /\ [label |-> code[f][k].label, insts |-> h] \in Block
        /\ [label |-> Len(code[f]) + 1, insts |-> e] \in Block
        /\ [label |-> Len(code[f]) + 2, insts |-> t] \in Block
    BY <2>1 DEF Block
  <2> QED  BY <1>8, <2>2
<1>10. PICK new : new = SubSeq(code[f], 1, k - 1) \o g \o SubSeq(code[f], k + 1, Len(code[f]))
  OBVIOUS
<1>11. new \in Seq(Block) /\ Replaces(new, code[f], k, g)
  BY <1>1, <1>2, <1>9, <1>10, Replacement
<1>12. code' = [code EXCEPT ![f] = new]
  BY <1>5, <1>7, <1>8, <1>10
<1>13. code'[f] = new
  BY <1>1, <1>12
<1> QED  BY <1>1, <1>2, <1>7, <1>8, <1>11, <1>12, <1>13

(* Every step keeps the types.                                              *)
LEMMA TypeStep == TypeOK /\ [Next]_vars => TypeOK'
<1> SUFFICES ASSUME TypeOK, [Next]_vars PROVE TypeOK'
  OBVIOUS
<1>1. ASSUME NEW f \in prog.defs, NEW k \in DOMAIN code[f], NEW i \in DOMAIN code[f][k].insts,
             IsFirst(f, k, i), Visit(f, k, i)
      PROVE  visited' \subseteq Function \X Function
  <2>1. f \in Function /\ CalleeAt(f, k, i) \in Function
    BY <1>1, ProgramShape DEF IsFirst, Unvisited, IsSite, CalleeAt
  <2> QED  BY <1>1, <2>1 DEF Visit, TypeOK
<1>2. ASSUME NEW f \in prog.defs, NEW k \in DOMAIN code[f], NEW i \in DOMAIN code[f][k].insts,
             SkipSite(f, k, i) \/ GateSite(f, k, i) \/ CrashOnUntagged(f, k, i)
      PROVE  TypeOK'
  <2>1. CASE SkipSite(f, k, i)
    BY <1>1, <2>1 DEF SkipSite, TypeOK
  <2>2. CASE GateSite(f, k, i)
    <3>1. code' = [code EXCEPT ![f] = code'[f]] /\ code'[f] \in Seq(Block)
      BY <2>2, GateSiteShape
    <3>2. code' \in [Function -> Seq(Block)]
      BY <3>1 DEF TypeOK
    <3> QED  BY <1>1, <2>2, <3>2 DEF GateSite, TypeOK
  <2>3. CASE CrashOnUntagged(f, k, i)
    BY <2>3 DEF CrashOnUntagged, TypeOK
  <2> QED  BY <1>2, <2>1, <2>2, <2>3
<1>3. CASE Finish
  BY <1>3 DEF Finish, TypeOK
<1>4. CASE UNCHANGED vars
  BY <1>4 DEF vars, TypeOK
<1> QED  BY <1>2, <1>3, <1>4 DEF Next, Stopped

(* Another function's gate, or a site passed over, changes nothing of f.    *)
LEMMA ShapeKept ==
  ASSUME NEW f, NEW B, NEW n \in Nat, NEW V, Shape(f, B, n, V),
         NEW W, V \subseteq W, \A g \in prog.defs : <<f, g>> \in W \ V => ~(BothTagged(f, g) /\ prog.section[g] < prog.section[f])
  PROVE  Shape(f, B, n, W)
<1>1. \A l, d, m, g : GateOf(f, B, n, V, l, d, m, g) => GateOf(f, B, n, W, l, d, m, g)
  BY DEF GateOf
<1>2. \A l, d, m, g : GateOf(f, B, n, W, l, d, m, g) => GateOf(f, B, n, V, l, d, m, g)
  <2> TAKE l, d, m, g
  <2> HAVE GateOf(f, B, n, W, l, d, m, g)
  <2>1. l \in 1 .. n /\ B[l][Len(B[l])].op = "check"
    BY Instructions DEF GateOf
  <2>2. PICK y, z, h : GateOf(f, B, n, V, l, y, z, h)
    BY <2>1 DEF Shape, ChecksGate
  <2>3. d = y /\ m = z /\ g = h
    BY <2>2, GateIsUnique
  <2> QED  BY <2>2, <2>3
<1>3. ChecksGate(f, B, n, W)
  BY <1>1 DEF Shape, ChecksGate
<1>4. GatedOnce(f, B, n, W)
  BY <1>2 DEF Shape, GatedOnce
<1>5. VisitedGated(f, B, n, W)
  <2> SUFFICES ASSUME NEW g \in prog.defs, <<f, g>> \in W, BothTagged(f, g), prog.section[g] < prog.section[f]
               PROVE  \E l, d, m : GateOf(f, B, n, W, l, d, m, g)
    BY DEF VisitedGated
  <2>1. <<f, g>> \in V
    OBVIOUS
  <2>2. PICK l, d, m : GateOf(f, B, n, V, l, d, m, g)
    BY <2>1 DEF Shape, VisitedGated
  <2> QED  BY <1>1, <2>2
<1>6. SplitsGated(f, B, n, W)
  BY <1>1 DEF Shape, SplitsGated
<1> QED  BY <1>3, <1>4, <1>5, <1>6 DEF Shape

(* The shape is about what does not change: the program as it came.         *)
LEMMA SameProgram ==
  ASSUME prog' = prog, NEW f, NEW B, Shape(f, B, Len(code'[f]), visited')
  PROVE  Shape(f, B, Len(code[f]), visited)'
<1>1. \A l, d, m, g : GateOf(f, B, Len(code[f]), visited, l, d, m, g)'
                         <=> GateOf(f, B, Len(code'[f]), visited', l, d, m, g)
  BY DEF GateOf, Lowers
<1>2. /\ Len(code'[f]) >= Len(prog'.code[f]) /\ B \in [1 .. Len(code'[f]) -> Seq(Inst)]
      /\ BlocksShape(B, Len(code[f]))' /\ JumpsKept(f, B, Len(code[f]))'
  BY DEF Shape, BlocksShape, JumpsKept
<1>3. ChecksGate(f, B, Len(code[f]), visited)'
  BY <1>1 DEF Shape, ChecksGate
<1>4. GatedOnce(f, B, Len(code[f]), visited)'
  BY <1>1 DEF Shape, GatedOnce
<1>5. VisitedGated(f, B, Len(code[f]), visited)'
  BY <1>1 DEF Shape, VisitedGated, BothTagged
<1>6. SplitsGated(f, B, Len(code[f]), visited)'
  BY <1>1 DEF Shape, SplitsGated
<1> QED  BY <1>2, <1>3, <1>4, <1>5, <1>6 DEF Shape

(* What a step of the pass is for one function: nothing, or one more gate.  *)
LEMMA PassStep ==
  ASSUME TypeOK, [Next]_vars, NEW f \in Function, NEW B, View(code[f], B)
  PROVE  /\ prog' = prog /\ visited \subseteq visited'
         /\ \/ /\ code'[f] = code[f]
               /\ \A g \in prog.defs : <<f, g>> \in visited' \ visited =>
                    ~(BothTagged(f, g) /\ prog.section[g] < prog.section[f])
            \/ \E C, l, i, g, cr, ce :
                 /\ GatesSite(f, B, Len(code[f]), visited, C, l, i, g, cr, ce)
                 /\ View(code'[f], C) /\ Len(code'[f]) = Len(code[f]) + 2
                 /\ visited' = visited \cup {<<f, g>>}
                 /\ code'[f][1].label = code[f][1].label
<1> DEFINE Idle == /\ code'[f] = code[f]
                   /\ \A g \in prog.defs : <<f, g>> \in visited' \ visited =>
                        ~(BothTagged(f, g) /\ prog.section[g] < prog.section[f])
           Gated == \E C, l, i, g, cr, ce :
                      /\ GatesSite(f, B, Len(code[f]), visited, C, l, i, g, cr, ce)
                      /\ View(code'[f], C) /\ Len(code'[f]) = Len(code[f]) + 2
                      /\ visited' = visited \cup {<<f, g>>}
                      /\ code'[f][1].label = code[f][1].label
           Fits == prog' = prog /\ visited \subseteq visited' /\ (Idle \/ Gated)
<1>1. code[f] \in Seq(Block) /\ Len(code[f]) \in Nat
  BY DEF TypeOK
<1>3. ASSUME NEW h \in prog.defs, NEW k \in DOMAIN code[h], NEW i \in DOMAIN code[h][k].insts,
             SkipSite(h, k, i)
      PROVE  Fits
  <2>1. visited' = visited \cup {<<h, CalleeAt(h, k, i)>>} /\ code' = code /\ prog' = prog
    BY <1>3 DEF SkipSite, Visit
  <2>2. MayContinue(h, CalleeAt(h, k, i)) /\ h \in Function /\ CalleeAt(h, k, i) \in Function
    BY <1>3, ProgramShape DEF SkipSite, IsFirst, Unvisited, IsSite, CalleeAt
  <2>3. ASSUME NEW g \in prog.defs, <<f, g>> \in visited' \ visited, BothTagged(f, g)
        PROVE  ~(prog.section[g] < prog.section[f])
    <3>1. f = h /\ g = CalleeAt(h, k, i)
      BY <2>1, <2>3
    <3>2. prog.section[g] >= prog.section[f]
      BY <2>2, <2>3, <3>1 DEF MayContinue, LevelsRead, BothTagged
    <3>3. prog.section[g] \in Int /\ prog.section[f] \in Int
      BY <2>3 DEF BothTagged, Tagged
    <3> QED  BY <3>2, <3>3
  <2>4. Idle
    BY <2>1, <2>3
  <2> HIDE DEF Idle, Gated
  <2> QED  BY <2>1, <2>4
<1>4. ASSUME NEW h \in prog.defs, NEW k \in DOMAIN code[h], NEW i \in DOMAIN code[h][k].insts,
             GateSite(h, k, i)
      PROVE  Fits
  <2>1. visited' = visited \cup {<<h, CalleeAt(h, k, i)>>} /\ prog' = prog
    BY <1>4 DEF GateSite, Visit
  <2>2. code' = [code EXCEPT ![h] = code'[h]]
    BY <1>4, GateSiteShape
  <2>3. CASE f # h
    <3>1. code'[f] = code[f]
      BY <2>2, <2>3 DEF TypeOK
    <3>2. Idle
      BY <2>1, <2>3, <3>1
    <3> HIDE DEF Idle, Gated
    <3> QED  BY <2>1, <3>2
  <2>4. CASE f = h
    <3>1. PICK s, n, l, g : s = code[f][k].insts /\ n = Len(code[f]) /\ l = code[f][k].label
                            /\ g = CalleeAt(h, k, i)
      OBVIOUS
    <3>2. PICK b, e, t \in Seq(Inst), cr \in ConstantsRead(prog.section[f]),
               ce \in ConstantsRead(prog.section[g]) :
            /\ IsHead(b, s, i, n, ce) /\ IsExit(e, n) /\ IsTail(t, s, i, cr)
            /\ Replaces(code'[f], code[f], k, << [label |-> l, insts |-> b],
                                                [label |-> n + 1, insts |-> e],
                                                [label |-> n + 2, insts |-> t] >>)
      BY <1>4, <2>4, <3>1, GateSiteShape
    <3>3. k \in 1 .. n /\ n \in Nat
      BY <1>1, <2>4, <3>1
    <3>4. PICK C : C = Rewired(B, n, l, b, e, t)
      OBVIOUS
    <3>5. View(code'[f], C)
      BY <1>1, <3>1, <3>2, <3>3, <3>4, ViewStep
    <3>6. Len(code'[f]) = n + 2
      BY <3>1, <3>2 DEF Replaces
    <3>7. l \in 1 .. n /\ B[l] = s /\ B \in [1 .. n -> Seq(Inst)]
      BY <3>1, <3>3 DEF View
    <3>8. /\ i \in 1 .. Len(s) /\ s[i].op \in CallOps /\ s[i].callee = g /\ g \in prog.defs
          /\ <<f, g>> \notin visited /\ Lowers(f, g)
      <4>1. i \in DOMAIN s
        BY <2>4, <3>1
      <4>2. i \in 1 .. Len(s)
        BY <3>7, <4>1
      <4> QED  BY <1>4, <2>4, <3>1, <4>2 DEF GateSite, IsFirst, Unvisited, IsSite, CalleeAt
    <3>9. /\ C \in [1 .. n + 2 -> Seq(Inst)] /\ C[l] = b /\ C[n + 1] = e /\ C[n + 2] = t
          /\ \A x \in 1 .. n : x # l => C[x] = B[x]
      <4>1. Len(code'[f]) \in Nat /\ C \in [1 .. n + 2 -> Seq(Inst)]
        BY <3>3, <3>5, <3>6 DEF View
      <4> QED  BY <3>3, <3>4, <3>7, <4>1 DEF Rewired
    <3>10. GatesSite(f, B, n, visited, C, l, i, g, cr, ce)
      BY <3>2, <3>7, <3>8, <3>9 DEF GatesSite
    <3>11. code'[f][1].label = code[f][1].label
      <4>1. CASE k = 1
        BY SMTT(40), <3>1, <3>2, <4>1 DEF Replaces
      <4>2. CASE k # 1
        <5>1. 1 \in 1 .. k - 1
          BY <3>3, <4>2
        <5> QED  BY <3>2, <5>1 DEF Replaces
      <4> QED  BY <4>1, <4>2
    <3>12. Gated
      BY <2>1, <2>4, <3>1, <3>5, <3>6, <3>10, <3>11
    <3> HIDE DEF Idle, Gated
    <3> QED  BY <2>1, <3>12
  <2> QED  BY <2>3, <2>4
<1>5. ASSUME UNCHANGED <<prog, code, visited>> PROVE Fits
  <2>1. Idle
    BY <1>5
  <2> HIDE DEF Idle, Gated
  <2> QED  BY <1>5, <2>1
<1>6. ASSUME NEW h \in prog.defs, NEW k \in DOMAIN code[h], NEW i \in DOMAIN code[h][k].insts,
             CrashOnUntagged(h, k, i)
      PROVE  UNCHANGED <<prog, code, visited>>
  BY <1>6 DEF CrashOnUntagged
<1>7. ASSUME Finish \/ UNCHANGED vars PROVE UNCHANGED <<prog, code, visited>>
  BY <1>7 DEF Finish, vars
<1>8. Fits
  <2> HIDE DEF Fits
  <2> QED  BY <1>3, <1>4, <1>5, <1>6, <1>7 DEF Next, Stopped
<1> QED  BY <1>8

(* Every step keeps the gates in shape.                                     *)
LEMMA GateStep == TypeOK /\ GateInv /\ [Next]_vars => GateInv'
<1> SUFFICES ASSUME TypeOK, GateInv, [Next]_vars, NEW f \in Function
             PROVE  \E B : View(code'[f], B) /\ Shape(f, B, Len(code[f]), visited)'
  BY DEF GateInv
<1>1. PICK B : View(code[f], B) /\ Shape(f, B, Len(code[f]), visited)
  BY DEF GateInv
<1>2. Len(code[f]) \in Nat /\ prog.code[f] \in Seq(Block)
  BY ProgramShape DEF TypeOK
<1>3. prog' = prog /\ visited \subseteq visited'
  BY <1>1, PassStep
<1>4. CASE /\ code'[f] = code[f]
           /\ \A g \in prog.defs : <<f, g>> \in visited' \ visited =>
                ~(BothTagged(f, g) /\ prog.section[g] < prog.section[f])
  <2>1. Shape(f, B, Len(code'[f]), visited')
    BY <1>1, <1>2, <1>3, <1>4, ShapeKept
  <2>2. Shape(f, B, Len(code[f]), visited)'
    BY <1>3, <2>1, SameProgram
  <2> QED  BY <1>1, <1>4, <2>2
<1>5. ASSUME NEW C, NEW l, NEW i, NEW g, NEW cr, NEW ce,
             GatesSite(f, B, Len(code[f]), visited, C, l, i, g, cr, ce),
             View(code'[f], C), Len(code'[f]) = Len(code[f]) + 2, visited' = visited \cup {<<f, g>>}
      PROVE  \E X : View(code'[f], X) /\ Shape(f, X, Len(code[f]), visited)'
  <2>1. Shape(f, C, Len(code'[f]), visited')
    <3>1. Shape(f, C, Len(code[f]) + 2, visited \cup {<<f, g>>})
      BY <1>1, <1>2, <1>5, ShapeStep
    <3> QED  BY <1>5, <3>1
  <2>2. Shape(f, C, Len(code[f]), visited)'
    BY <1>3, <2>1, SameProgram
  <2> QED  BY <1>5, <2>2
<1> QED  BY <1>1, <1>4, <1>5, PassStep

-----------------------------------------------------------------------------
(* Type correctness of the pass: what it builds are blocks of instructions, *)
(* and the levels of the gates are tags, whatever the sections hold.        *)
THEOREM TypeCorrect == Spec => []TypeOK
  BY TypeInit, TypeStep, PTL DEF Spec

(* Every function keeps the shape.                                          *)
THEOREM GatesStayInShape == Spec => []GateInv
  BY TypeCorrect, GateInit, GateStep, PTL DEF Spec

(* The gates by position are those by label.                                *)
LEMMA GatesByLabel ==
  ASSUME TypeOK, NEW f \in Function, NEW B, View(code[f], B), Shape(f, B, Len(code[f]), visited),
         NEW g, NEW k \in DOMAIN code[f], NEW n \in DOMAIN code[f]
  PROVE  IsGate(f, g, k, n) <=>
           \E d : GateOf(f, B, Len(code[f]), visited, code[f][k].label, d, code[f][n].label, g)
<1>1. PICK N, l, m, s, t : /\ N = Len(code[f]) /\ l = code[f][k].label /\ m = code[f][n].label
                           /\ s = code[f][k].insts /\ t = code[f][n].insts
  OBVIOUS
<1>2. k \in 1 .. N /\ n \in 1 .. N
  BY <1>1 DEF TypeOK
<1>3. l \in 1 .. N /\ m \in 1 .. N /\ B[l] = s /\ B[m] = t
  BY <1>1, <1>2 DEF View
<1>4. ASSUME IsGate(f, g, k, n) PROVE \E d : GateOf(f, B, N, visited, l, d, m, g)
  <2>1. s[Len(s)].op = "check" /\ m \in s[Len(s)].to /\ t[1].op \in CallOps /\ t[1].callee = g
        /\ (t[1].op = "exit" => t[2].op # "resume")
    BY <1>1, <1>4 DEF IsGate
  <2>2. PICK d, y, h : GateOf(f, B, N, visited, l, d, y, h)
    BY <1>1, <1>3, <2>1 DEF Shape, ChecksGate
  <2>3. m = d \/ m = y
    BY SMTT(40), <1>3, <2>1, <2>2, Instructions DEF GateOf
  <2>4. m # d
    BY <1>3, <2>1, <2>2, OpsShape DEF GateOf, Refuses
  <2>5. m = y /\ g = h
    BY <1>3, <2>1, <2>2, <2>3, <2>4 DEF GateOf
  <2> QED  BY <2>2, <2>5
<1>5. ASSUME NEW d, GateOf(f, B, N, visited, l, d, m, g) PROVE IsGate(f, g, k, n)
  <2>1. /\ s[Len(s)] = Check(d, m) /\ t[1].op \in CallOps /\ t[1].callee = g
        /\ \E cr : t[2] = Syscall(cr)
    BY <1>3, <1>5 DEF GateOf
  <2>2. s[Len(s)].op = "check" /\ m \in s[Len(s)].to /\ t[2].op = "syscall"
    BY <2>1, Instructions
  <2> QED  BY <1>1, <2>1, <2>2 DEF IsGate
<1> QED  BY <1>1, <1>4, <1>5

(* Blocks stay well formed but for gated invokes, and every label that is   *)
(* named is that of one block, in every function of every program.          *)
THEOREM BlocksStayWellFormed == Spec => []BlocksWellFormed
<1>1. TypeOK /\ GateInv => BlocksWellFormed
  <2> SUFFICES ASSUME TypeOK, GateInv, NEW f \in prog.defs, NEW k \in DOMAIN code[f]
               PROVE  LET s == code[f][k].insts
                      IN  /\ WellFormed(s) <=> ~GatedInvoke(f, k)
                          /\ \A i \in DOMAIN s : s[i].op \in TerminatorOps =>
                               \A l \in s[i].to :
                                 Cardinality({ n \in DOMAIN code[f] : code[f][n].label = l }) = 1
    BY DEF BlocksWellFormed
  <2>0. f \in Function
    BY ProgramShape
  <2>1. PICK B : View(code[f], B) /\ Shape(f, B, Len(code[f]), visited)
    BY <2>0 DEF GateInv
  <2>2. PICK N, s, l : N = Len(code[f]) /\ s = code[f][k].insts /\ l = code[f][k].label
    OBVIOUS
  <2>3. k \in 1 .. N /\ DOMAIN code[f] = 1 .. N /\ code[f] \in Seq(Block) /\ N \in Nat
    BY <2>0, <2>2 DEF TypeOK
  <2>4. l \in 1 .. N /\ B[l] = s /\ s \in Seq(Inst) /\ BlockShape(s, N)
    <3>1. l \in 1 .. N /\ B[l] = s
      BY <2>1, <2>2, <2>3 DEF View
    <3>2. B \in [1 .. N -> Seq(Inst)] /\ BlocksShape(B, N)
      BY <2>1, <2>2 DEF View, Shape
    <3>3. B[l] \in Seq(Inst) /\ BlockShape(B[l], N)
      BY <3>1, <3>2 DEF BlocksShape
    <3> QED  BY <3>1, <3>3
  <2>5. WellFormed(s) => ~GatedInvoke(f, k)
    <3> SUFFICES ASSUME WellFormed(s), NEW g \in prog.defs, NEW e \in Gates(f, g), e[2] = k, s[1].op = "invoke"
                 PROVE  FALSE
      BY <2>2 DEF GatedInvoke
    <3>1. e[1] \in DOMAIN code[f] /\ IsGate(f, g, e[1], k)
      BY DEF Gates
    <3>2. PICK d : GateOf(f, B, N, visited, code[f][e[1]].label, d, l, g)
      BY <2>0, <2>1, <2>2, <3>1, GatesByLabel
    <3>3. Len(s) >= 2
      BY <2>4, <3>2 DEF GateOf
    <3>4. Len(s) \in Nat /\ DOMAIN s = 1 .. Len(s)
      BY <2>4
    <3>5. 1 \in DOMAIN s /\ 1 # Len(s)
      BY <3>3, <3>4
    <3>6. s[1].op \notin TerminatorOps
      BY <3>5 DEF WellFormed
    <3> QED  BY <3>6, OpsShape
  <2>6. ~WellFormed(s) => GatedInvoke(f, k)
    <3> SUFFICES ASSUME ~WellFormed(s) PROVE GatedInvoke(f, k)
      OBVIOUS
    <3>1. SplitInvoke(s)
      BY <2>4 DEF BlockShape
    <3>2. PICK x, d, g : GateOf(f, B, N, visited, x, d, l, g)
      BY <2>1, <2>2, <2>4, <3>1 DEF Shape, SplitsGated
    <3>3. x \in 1 .. N /\ g \in prog.defs
      BY <3>2 DEF GateOf
    <3>4. PICK j \in 1 .. N : code[f][j].label = x
      BY <2>1, <2>2, <3>3 DEF View
    <3>5. IsGate(f, g, j, k)
      BY <2>0, <2>1, <2>2, <2>3, <3>2, <3>4, GatesByLabel
    <3>6. <<j, k>> \in Gates(f, g)
      BY <2>3, <3>5 DEF Gates
    <3>7. s[1].op = "invoke"
      BY <3>1 DEF SplitInvoke
    <3> QED  BY <2>2, <3>3, <3>6, <3>7 DEF GatedInvoke
  <2>7. ASSUME NEW i \in DOMAIN s, s[i].op \in TerminatorOps, NEW x \in s[i].to
        PROVE  Cardinality({ n \in DOMAIN code[f] : code[f][n].label = x }) = 1
    <3>1. i \in 1 .. Len(s)
      BY <2>4
    <3>2. x \in 1 .. N
      BY <2>4, <2>7, <3>1 DEF BlockShape
    <3>3. PICK j \in 1 .. N : code[f][j].label = x
      BY <2>1, <2>2, <3>2 DEF View
    <3>4. \A n \in 1 .. N : code[f][n].label = x => n = j
      BY <2>1, <2>2, <3>3 DEF View
    <3>5. { n \in DOMAIN code[f] : code[f][n].label = x } = {j}
      BY <2>3, <3>3, <3>4
    <3> QED  BY <3>5, FS_Singleton
  <2> QED  BY <2>2, <2>5, <2>6, <2>7
<1> QED  BY <1>1, TypeCorrect, GatesStayInShape, PTL

(* Every gate between tagged functions asks for the callee's level just     *)
(* before its check and gives it back just behind the call.                 *)
THEOREM GatesAlwaysRaiseAndLower == Spec => []GatesRaiseAndLower
<1>1. TypeOK /\ GateInv => GatesRaiseAndLower
  <2> SUFFICES ASSUME TypeOK, GateInv, NEW f \in prog.defs, NEW g \in prog.defs, NEW e \in Gates(f, g),
                      BothTagged(f, g)
               PROVE  LET head == code[f][e[1]].insts
                          tail == code[f][e[2]].insts
                      IN  /\ head[Len(head) - 2] = Syscall(prog.section[g])
                          /\ tail[2] = Syscall(prog.section[f])
                          /\ prog.section[g] < prog.section[f]
    BY DEF GatesRaiseAndLower
  <2>0. f \in Function
    BY ProgramShape
  <2>1. PICK B : View(code[f], B) /\ Shape(f, B, Len(code[f]), visited)
    BY <2>0 DEF GateInv
  <2>2. e[1] \in DOMAIN code[f] /\ e[2] \in DOMAIN code[f] /\ IsGate(f, g, e[1], e[2])
    BY DEF Gates
  <2>3. PICK d : GateOf(f, B, Len(code[f]), visited, code[f][e[1]].label, d, code[f][e[2]].label, g)
    BY <2>0, <2>1, <2>2, GatesByLabel
  <2>4. e[1] \in 1 .. Len(code[f]) /\ e[2] \in 1 .. Len(code[f])
    BY <2>0, <2>2 DEF TypeOK
  <2>5. B[code[f][e[1]].label] = code[f][e[1]].insts /\ B[code[f][e[2]].label] = code[f][e[2]].insts
    BY <2>1, <2>4 DEF View
  <2>6. ConstantsRead(prog.section[f]) = {prog.section[f]} /\ ConstantsRead(prog.section[g]) = {prog.section[g]}
        /\ LevelsRead(prog.section[f]) = {prog.section[f]} /\ LevelsRead(prog.section[g]) = {prog.section[g]}
    BY DEF BothTagged, ConstantsRead, LevelsRead
  <2>7. prog.section[g] < prog.section[f]
    BY <2>3, <2>6 DEF GateOf, Lowers
  <2> QED  BY <2>3, <2>5, <2>6, <2>7 DEF GateOf
<1> QED  BY <1>1, TypeCorrect, GatesStayInShape, PTL

(* When the pass is done it has visited every site.                         *)
AllVisited ==
  pc = "done" =>
    \A f \in prog.defs : \A k \in DOMAIN code[f] : \A i \in DOMAIN code[f][k].insts : ~Unvisited(f, k, i)

(* It goes on until it has.                                                 *)
LEMMA SitesAllVisited == Spec => []AllVisited
<1>1. Init => AllVisited
  BY DEF Init, AllVisited
<1>2. AllVisited /\ [Next]_vars => AllVisited'
  <2> SUFFICES ASSUME AllVisited, [Next]_vars PROVE AllVisited'
    OBVIOUS
  <2>1. CASE Finish
    BY <2>1 DEF Finish, Unvisited, IsSite, CalleeAt, AllVisited
  <2>2. CASE UNCHANGED vars
    BY <2>2 DEF vars, Unvisited, IsSite, CalleeAt, AllVisited
  <2>3. ASSUME NEW f \in prog.defs, NEW k \in DOMAIN code[f], NEW i \in DOMAIN code[f][k].insts,
               SkipSite(f, k, i) \/ GateSite(f, k, i) \/ CrashOnUntagged(f, k, i)
        PROVE  AllVisited'
    BY <2>3 DEF SkipSite, GateSite, CrashOnUntagged, AllVisited
  <2> QED  BY <2>1, <2>2, <2>3 DEF Next, Stopped
<1> QED  BY <1>1, <1>2, PTL DEF Spec

(* When the pass is done there is one gate for each pair of tagged          *)
(* functions of which one calls the other, more privileged one, and none    *)
(* for another pair.                                                        *)
THEOREM OneGateEach == Spec => []OneGatePerPair
<1>1. TypeOK /\ GateInv /\ AllVisited => OneGatePerPair
  <2> SUFFICES ASSUME TypeOK, GateInv, AllVisited, pc = "done", NEW f \in prog.defs, NEW g \in prog.defs,
                      BothTagged(f, g)
               PROVE  Cardinality(Gates(f, g)) =
                        IF SitesOf(f, g) # {} /\ prog.section[g] < prog.section[f] THEN 1 ELSE 0
    BY DEF OneGatePerPair
  <2>0. f \in Function
    BY ProgramShape
  <2>1. PICK B : View(code[f], B) /\ Shape(f, B, Len(code[f]), visited)
    BY <2>0 DEF GateInv
  <2>2. PICK N : N = Len(code[f])
    OBVIOUS
  <2>3. DOMAIN code[f] = 1 .. N
    BY <2>0, <2>2 DEF TypeOK
  <2>4. \A k, n \in 1 .. N :
          IsGate(f, g, k, n) <=>
            \E d : GateOf(f, B, N, visited, code[f][k].label, d, code[f][n].label, g)
    BY <2>0, <2>1, <2>2, <2>3, GatesByLabel
  <2>5. /\ \A k \in 1 .. N : code[f][k].label \in 1 .. N /\ B[code[f][k].label] = code[f][k].insts
        /\ \A k, j \in 1 .. N : code[f][k].label = code[f][j].label => k = j
        /\ \A l \in 1 .. N : \E k \in 1 .. N : code[f][k].label = l
    BY <2>1, <2>2 DEF View
  <2>6. LevelsRead(prog.section[f]) = {prog.section[f]} /\ LevelsRead(prog.section[g]) = {prog.section[g]}
    BY DEF BothTagged, LevelsRead
  <2>7. ASSUME NEW e \in Gates(f, g) PROVE SitesOf(f, g) # {} /\ prog.section[g] < prog.section[f]
    <3>1. e[1] \in 1 .. N /\ e[2] \in 1 .. N /\ IsGate(f, g, e[1], e[2])
      BY <2>3 DEF Gates
    <3>2. PICK d : GateOf(f, B, N, visited, code[f][e[1]].label, d, code[f][e[2]].label, g)
      BY <2>4, <3>1
    <3>3. prog.section[g] < prog.section[f]
      BY <2>6, <3>2 DEF GateOf, Lowers
    <3>4. PICK t : t = code[f][e[2]].insts
      OBVIOUS
    <3>5. t \in Seq(Inst) /\ Len(t) >= 2 /\ t[1].op \in CallOps /\ t[1].callee = g
      <4>1. PICK m : m = code[f][e[2]].label /\ m \in 1 .. N /\ B[m] = t
        BY <2>5, <3>1, <3>4
      <4>2. B[m] \in Seq(Inst)
        BY <2>1, <2>2, <4>1 DEF View
      <4> QED  BY <3>2, <4>1, <4>2 DEF GateOf
    <3>6. 1 \in DOMAIN t
      <4>1. Len(t) \in Nat /\ DOMAIN t = 1 .. Len(t)
        BY <3>5
      <4> QED  BY <3>5, <4>1
    <3>7. prog.section[f] # Startup
      BY SectionsAssumption DEF BothTagged, Tagged
    <3>8. IsSite(f, e[2], 1) /\ CalleeAt(f, e[2], 1) = g
      BY <2>3, <3>1, <3>4, <3>5, <3>6, <3>7 DEF IsSite, CalleeAt
    <3>9. <<e[2], 1>> \in Positions(code[f])
      BY <2>3, <3>1, <3>4, <3>6 DEF Positions
    <3> QED  BY <3>3, <3>8, <3>9 DEF SitesOf
  <2>8. ASSUME SitesOf(f, g) # {}, prog.section[g] < prog.section[f]
        PROVE  \E e : Gates(f, g) = {e}
    <3>1. PICK p \in Positions(code[f]) : IsSite(f, p[1], p[2]) /\ CalleeAt(f, p[1], p[2]) = g
      BY <2>8 DEF SitesOf
    <3>2. p[1] \in DOMAIN code[f] /\ p[2] \in DOMAIN code[f][p[1]].insts
      BY <3>1 DEF IsSite
    <3>3. <<f, g>> \in visited
      BY <3>1, <3>2 DEF AllVisited, Unvisited
    <3>4. PICK l, d, m : GateOf(f, B, N, visited, l, d, m, g)
      BY <2>1, <2>2, <2>8, <3>3 DEF Shape, VisitedGated
    <3>5. l \in 1 .. N /\ m \in 1 .. N
      BY <3>4 DEF GateOf
    <3>6. PICK k \in 1 .. N, n \in 1 .. N : code[f][k].label = l /\ code[f][n].label = m
      BY <2>5, <3>5
    <3>7. <<k, n>> \in Gates(f, g)
      BY <2>3, <2>4, <3>4, <3>6 DEF Gates
    <3>8. ASSUME NEW e \in Gates(f, g) PROVE e = <<k, n>>
      <4>1. e \in (1 .. N) \X (1 .. N) /\ IsGate(f, g, e[1], e[2])
        BY <2>3 DEF Gates
      <4>2. e[1] \in 1 .. N /\ e[2] \in 1 .. N /\ e = <<e[1], e[2]>>
        BY <4>1
      <4>3. PICK y : GateOf(f, B, N, visited, code[f][e[1]].label, y, code[f][e[2]].label, g)
        BY <2>4, <4>1, <4>2
      <4>4. code[f][e[1]].label = l /\ code[f][e[2]].label = m
        BY <2>1, <2>2, <3>4, <4>3 DEF Shape, GatedOnce
      <4>5. e[1] = k /\ e[2] = n
        BY <2>5, <3>6, <4>2, <4>4
      <4> QED  BY <4>2, <4>5
    <3> QED  BY <3>7, <3>8
  <2>9. CASE SitesOf(f, g) # {} /\ prog.section[g] < prog.section[f]
    BY <2>8, <2>9, FS_Singleton
  <2>10. CASE ~(SitesOf(f, g) # {} /\ prog.section[g] < prog.section[f])
    <3>1. Gates(f, g) = {}
      BY <2>7, <2>10
    <3> QED  BY <2>10, <3>1, FS_EmptySet
  <2> QED  BY <2>9, <2>10
<1> QED  BY <1>1, SitesAllVisited, TypeCorrect, GatesStayInShape, PTL

-----------------------------------------------------------------------------
(* What else is so in the functions of a program: the blocks by label.      *)
Labelled(blocks) ==
  [l \in 1 .. Len(blocks) |-> (CHOOSE b \in { blocks[k] : k \in DOMAIN blocks } : b.label = l).insts]

TailOf(f, B, n, V, m, g) == \E l, d \in 1 .. n : GateOf(f, B, n, V, l, d, m, g)

(* A level is asked for in front of a comparison, or given back in a tail.  *)
SyscallsPlaced(f, B, n, V) ==
  \A l \in 1 .. n : \A i \in 1 .. Len(B[l]) : B[l][i].op = "syscall" =>
    \/ i = 2 /\ \E g \in prog.defs : TailOf(f, B, n, V, l, g)
    \/ i < Len(B[l]) /\ B[l][i + 1].op = "cmp"

CmpsPlaced(B, n) ==
  \A l \in 1 .. n : \A i \in 1 .. Len(B[l]) : B[l][i].op = "cmp" =>
    i < Len(B[l]) /\ B[l][i + 1].op = "check"

(* The calls but those of exit in gates are calls of the program.           *)
CallsKept(f, B, n) ==
  \A l \in 1 .. n : \A i \in 1 .. Len(B[l]) :
    B[l][i].op \in {"call", "invoke"} => \E c \in CallsIn(f) : CallTo(f, c) = B[l][i].callee

(* A call of the program that lowers is there once.                         *)
CallsOnce(f, B, n) ==
  \A l, x \in 1 .. n : \A i \in 1 .. Len(B[l]) : \A j \in 1 .. Len(B[x]) :
    /\ B[l][i].op \in {"call", "invoke"} /\ B[x][j].op \in {"call", "invoke"}
    /\ B[l][i].callee = B[x][j].callee /\ B[l][i].callee \in prog.defs
    /\ prog.section[B[l][i].callee] < prog.section[f]
    => l = x /\ i = j

(* An exit was put in with a gate for a call of the program.                *)
ExitsInGates(f, B, n, V) ==
  \A l \in 1 .. n : \A i \in 1 .. Len(B[l]) : B[l][i].op = "exit" =>
    /\ B[l][i].callee = prog.exit
    /\ \E c \in CallsIn(f) : Lowering(f, c) /\ <<f, CallTo(f, c)>> \in V

(* What is visited and lowers is called from the tail of a gate only.       *)
CallsGated(f, B, n, V) ==
  \A l \in 1 .. n : \A i \in 1 .. Len(B[l]) :
    LET g == B[l][i].callee
    IN  /\ B[l][i].op \in {"call", "invoke"} /\ g \in prog.defs
        /\ <<f, g>> \in V /\ prog.section[g] < prog.section[f]
        => i = 1 /\ TailOf(f, B, n, V, l, g)

FlowShape(f, B, n, V) ==
  /\ SyscallsPlaced(f, B, n, V) /\ CmpsPlaced(B, n) /\ CallsKept(f, B, n)
  /\ GatesSuffice => CallsOnce(f, B, n) /\ ExitsInGates(f, B, n, V) /\ CallsGated(f, B, n, V)

FlowInv ==
  \A f \in prog.defs :
    /\ code[f] # <<>> /\ code[f][1].label = 1
    /\ FlowShape(f, Labelled(code[f]), Len(code[f]), visited)

-----------------------------------------------------------------------------
(* The view of a function's blocks is the one the run has of them.          *)
LEMMA ViewIsLabelled ==
  ASSUME NEW blocks \in Seq(Block), NEW B, View(blocks, B)
  PROVE  B = Labelled(blocks)
<1>1. PICK n : n = Len(blocks)
  OBVIOUS
<1>2. n \in Nat /\ DOMAIN blocks = 1 .. n /\ B \in [1 .. n -> Seq(Inst)]
  BY <1>1 DEF View
<1>3. ASSUME NEW l \in 1 .. n PROVE (CHOOSE b \in { blocks[k] : k \in DOMAIN blocks } : b.label = l).insts = B[l]
  <2>1. PICK S : S = { blocks[k] : k \in DOMAIN blocks }
    OBVIOUS
  <2>2. PICK k \in 1 .. n : blocks[k].label = l
    BY <1>1 DEF View
  <2>3. blocks[k] \in S
    BY <1>2, <2>1
  <2>4. PICK b : b = CHOOSE c \in S : c.label = l
    OBVIOUS
  <2>5. b \in S /\ b.label = l
    BY <2>2, <2>3, <2>4
  <2>6. PICK j \in 1 .. n : b = blocks[j]
    BY <1>2, <2>1, <2>5
  <2>7. B[l] = b.insts
    BY <1>1, <2>5, <2>6 DEF View
  <2> QED  BY <2>1, <2>4, <2>7
<1> QED  BY <1>1, <1>2, <1>3 DEF Labelled

(* Where an instruction was before a site was gated: position k of block y. *)
Comes(n, l, i, x, j, y, k) ==
  \/ x = y /\ j = k /\ (y = l => k < i)
  \/ x = n + 2 /\ y = l /\ j = 1 /\ k = i
  \/ x = n + 2 /\ y = l /\ j = k - i + 2 /\ k > i

IsOld(B, n, l, i, C, x, j) ==
  \E y \in 1 .. n : \E k \in 1 .. Len(B[y]) : Comes(n, l, i, x, j, y, k) /\ C[x][j] = B[y][k]

IsNew(n, l, i, C, x, j) ==
  \/ C[x][j].op = "syscall" /\ x = n + 2 /\ j = 2
  \/ C[x][j].op = "syscall" /\ j < Len(C[x]) /\ C[x][j + 1].op = "cmp"
  \/ C[x][j].op = "cmp" /\ j < Len(C[x]) /\ C[x][j + 1].op = "check"
  \/ C[x][j].op = "check"
  \/ C[x][j] = Call("exit", prog.exit)
  \/ C[x][j].op = "resume"

(* Every instruction comes from somewhere or is one of the gate.            *)
LEMMA Origins ==
  ASSUME NEW f, NEW B, NEW n \in Nat, NEW V, B \in [1 .. n -> Seq(Inst)],
         NEW C, NEW l, NEW i, NEW h, NEW cr, NEW ce, GatesSite(f, B, n, V, C, l, i, h, cr, ce),
         NEW x \in 1 .. n + 2, NEW j \in 1 .. Len(C[x])
  PROVE  IsNew(n, l, i, C, x, j) \/ IsOld(B, n, l, i, C, x, j)
<1>1. /\ l \in 1 .. n /\ i \in 1 .. Len(B[l]) /\ B[l] \in Seq(Inst)
      /\ \A y \in 1 .. n : y # l => C[y] = B[y]
      /\ IsHead(C[l], B[l], i, n, ce) /\ IsExit(C[n + 1], n) /\ IsTail(C[n + 2], B[l], i, cr)
  BY DEF GatesSite
<1>2. i \in Nat /\ 1 <= i /\ i <= Len(B[l]) /\ Len(B[l]) \in Nat
  BY <1>1
<1>3. CASE x = l
  <2>1. Len(C[l]) = i + 2 /\ C[l][i].op = "syscall" /\ C[l][i + 1].op = "cmp" /\ C[l][i + 2].op = "check"
    BY <1>1, Instructions DEF IsHead
  <2>2. j \in Nat /\ (j < i \/ j = i \/ j = i + 1 \/ j = i + 2)
    BY <1>2, <1>3, <2>1
  <2>3. CASE j < i
    <3>1. j \in 1 .. i - 1 /\ j \in 1 .. Len(B[l])
      BY <1>2, <2>2, <2>3
    <3>2. C[x][j] = B[l][j] /\ Comes(n, l, i, x, j, l, j)
      BY <1>1, <1>3, <2>3, <3>1 DEF IsHead, Comes
    <3> QED  BY <1>1, <3>1, <3>2 DEF IsOld
  <2>4. i < Len(C[l]) /\ i + 1 < Len(C[l]) /\ (i + 1) + 1 = i + 2
    BY <1>2, <2>1
  <2> QED  BY <1>3, <2>1, <2>2, <2>3, <2>4 DEF IsNew
<1>4. CASE x = n + 1
  <2>1. j = 1 \/ j = 2
    <3>1. Len(C[x]) = 2
      BY <1>1, <1>4 DEF IsExit
    <3> QED  BY <3>1
  <2>2. C[x][1] = Call("exit", prog.exit) /\ C[x][2].op = "resume"
    BY <1>1, <1>4, Instructions DEF IsExit
  <2> QED  BY <1>4, <2>1, <2>2 DEF IsNew
<1>5. CASE x = n + 2
  <2>1. Len(C[x]) = Len(B[l]) - i + 2 /\ C[x][1] = B[l][i] /\ C[x][2].op = "syscall"
    BY <1>1, <1>5, Instructions DEF IsTail
  <2>2. CASE j = 1
    <3>1. Comes(n, l, i, x, j, l, i)
      BY <1>5, <2>2 DEF Comes
    <3> QED  BY <1>1, <2>1, <2>2, <3>1 DEF IsOld
  <2>3. CASE j >= 3
    <3>1. j \in 3 .. Len(B[l]) - i + 2
      BY <1>2, <2>1, <2>3
    <3>2. j + i - 2 \in 1 .. Len(B[l]) /\ j = (j + i - 2) - i + 2 /\ j + i - 2 > i
      BY <1>2, <3>1
    <3>3. C[x][j] = B[l][j + i - 2]
      BY <1>1, <1>5, <3>1 DEF IsTail
    <3>4. Comes(n, l, i, x, j, l, j + i - 2)
      BY <1>5, <3>2 DEF Comes
    <3> QED  BY <1>1, <3>2, <3>3, <3>4 DEF IsOld
  <2>4. j = 1 \/ j = 2 \/ j >= 3
    BY <2>1
  <2> QED  BY <1>5, <2>1, <2>2, <2>3, <2>4 DEF IsNew
<1>6. CASE x \in 1 .. n /\ x # l
  <2>1. C[x] = B[x] /\ Comes(n, l, i, x, j, x, j)
    BY <1>1, <1>6 DEF Comes
  <2> QED  BY <1>6, <2>1 DEF IsOld
<1> QED  BY <1>3, <1>4, <1>5, <1>6

(* What follows a syscall or a comparison still does.                       *)
LEMMA StillFollowed ==
  ASSUME NEW f, NEW B, NEW n \in Nat, NEW V, B \in [1 .. n -> Seq(Inst)],
         NEW C, NEW l, NEW i, NEW h, NEW cr, NEW ce, GatesSite(f, B, n, V, C, l, i, h, cr, ce),
         NEW x, NEW j, NEW y \in 1 .. n, NEW k \in 1 .. Len(B[y]), Comes(n, l, i, x, j, y, k),
         B[y][k].op \notin CallOps, k < Len(B[y]), B[y][k + 1].op \notin CallOps
  PROVE  j < Len(C[x]) /\ C[x][j + 1] = B[y][k + 1]
<1>1. /\ l \in 1 .. n /\ i \in 1 .. Len(B[l]) /\ B[l] \in Seq(Inst) /\ B[l][i].op \in CallOps
      /\ \A z \in 1 .. n : z # l => C[z] = B[z]
      /\ IsHead(C[l], B[l], i, n, ce) /\ IsTail(C[n + 2], B[l], i, cr)
  BY DEF GatesSite
<1>2. i \in Nat /\ 1 <= i /\ i <= Len(B[l]) /\ Len(B[l]) \in Nat /\ k \in Nat /\ k >= 1
  BY <1>1
<1>3. CASE y # l
  BY <1>1, <1>3 DEF Comes
<1>4. CASE y = l
  <2>1. k # i /\ k + 1 # i
    BY <1>1, <1>4
  <2>2. CASE k < i
    <3>1. k + 1 \in 1 .. i - 1 /\ k < i + 2 /\ x = l /\ j = k
      BY <1>2, <1>4, <2>1, <2>2 DEF Comes
    <3> QED  BY <1>1, <1>4, <3>1 DEF IsHead
  <2>3. CASE k > i
    <3>1. x = n + 2 /\ j = k - i + 2
      BY <1>2, <1>4, <2>3 DEF Comes
    <3>2. /\ j < Len(B[l]) - i + 2 /\ j + 1 \in 3 .. Len(B[l]) - i + 2 /\ (j + 1) + i - 2 = k + 1
      BY <1>2, <1>4, <2>3, <3>1
    <3>3. Len(C[n + 2]) = Len(B[l]) - i + 2 /\ C[n + 2][j + 1] = B[l][(j + 1) + i - 2]
      BY <1>1, <3>2 DEF IsTail
    <3> QED  BY <1>4, <3>1, <3>2, <3>3
  <2> QED  BY <1>2, <2>1, <2>2, <2>3
<1> QED  BY <1>3, <1>4

(* Every tail stays one.                                                    *)
LEMMA TailStays ==
  ASSUME NEW f, NEW B, NEW n \in Nat, NEW V, Shape(f, B, n, V),
         NEW C, NEW l, NEW i, NEW h, NEW cr, NEW ce, GatesSite(f, B, n, V, C, l, i, h, cr, ce),
         NEW W, V \subseteq W, NEW m \in 1 .. n, NEW g, TailOf(f, B, n, V, m, g)
  PROVE  TailOf(f, C, n + 2, W, m, g)
<1>1. PICK x \in 1 .. n, d \in 1 .. n : GateOf(f, B, n, V, x, d, m, g)
  BY DEF TailOf
<1>2. GateOf(f, C, n + 2, W, Moved(n, l, x), d, m, g)
  BY <1>1, GateStays
<1>3. Moved(n, l, x) \in 1 .. n + 2 /\ d \in 1 .. n + 2
  BY <1>2 DEF GateOf
<1> QED  BY <1>2, <1>3 DEF TailOf

(* Gating keeps all that.                                                   *)
LEMMA FlowStep ==
  ASSUME NEW f \in prog.defs, NEW B, NEW n \in Nat, NEW V, Shape(f, B, n, V), FlowShape(f, B, n, V),
         prog.code[f] \in Seq(Block), prog.exit \in Function,
         NEW C, NEW l, NEW i, NEW h, NEW cr, NEW ce, GatesSite(f, B, n, V, C, l, i, h, cr, ce)
  PROVE  FlowShape(f, C, n + 2, V \cup {<<f, h>>})
<1> DEFINE W == V \cup {<<f, h>>}
<1>0. V \subseteq W /\ <<f, h>> \in W /\ \A g : <<f, g>> \in W => g = h \/ <<f, g>> \in V
  OBVIOUS
<1> HIDE DEF W
<1>1. /\ l \in 1 .. n /\ i \in 1 .. Len(B[l]) /\ B[l] \in Seq(Inst) /\ B[l][i].op \in CallOps
      /\ B[l][i].callee = h /\ h \in prog.defs /\ <<f, h>> \notin V /\ Lowers(f, h)
      /\ B \in [1 .. n -> Seq(Inst)] /\ i \in Nat
  BY DEF GatesSite, Shape
<1>2. TailOf(f, C, n + 2, W, n + 2, h)
  <2>1. GateOf(f, C, n + 2, W, l, n + 1, n + 2, h)
    BY <1>0, GateComes
  <2> QED  BY <2>1 DEF GateOf, TailOf
<1>3. \A op : op \in {"call", "invoke"} =>
         op \notin {"syscall", "cmp", "check", "resume", "exit"} /\ op \in CallOps
  BY OpsShape
<1>4. \A g : Call("exit", g).op = "exit" /\ Call("exit", g).callee = g
  BY Instructions
<1>5. \A x \in 1 .. n + 2 : \A j \in 1 .. Len(C[x]) :
        IsNew(n, l, i, C, x, j) \/ IsOld(B, n, l, i, C, x, j)
  BY <1>1, Origins
<1>11. \A x \in 1 .. n + 2 : \A j \in 1 .. Len(C[x]) :
         C[x][j].op \in {"call", "invoke"} => IsOld(B, n, l, i, C, x, j)
  <2> SUFFICES ASSUME NEW x \in 1 .. n + 2, NEW j \in 1 .. Len(C[x]), C[x][j].op \in {"call", "invoke"}
               PROVE  ~IsNew(n, l, i, C, x, j)
    BY <1>5
  <2> QED  BY <1>3, <1>4 DEF IsNew
<1>12. ASSUME NEW m \in 1 .. n, NEW g, TailOf(f, B, n, V, m, g)
       PROVE  TailOf(f, C, n + 2, W, m, g) /\ (m = l => i >= 3)
  <2>1. TailOf(f, C, n + 2, W, m, g)
    BY <1>0, <1>12, TailStays
  <2>2. ASSUME m = l PROVE i >= 3
    <3>1. PICK x \in 1 .. n, d \in 1 .. n : GateOf(f, B, n, V, x, d, l, g)
      BY <1>12, <2>2 DEF TailOf
    <3> QED  BY <1>1, <3>1, SiteIsFree
  <2> QED  BY <2>1, <2>2
<1>13. ASSUME NEW x \in 1 .. n + 2, NEW j \in 1 .. Len(C[x]), NEW y \in 1 .. n, NEW k \in 1 .. Len(B[y]), Comes(n, l, i, x, j, y, k),
              B[y][k].op \notin CallOps, k < Len(B[y]), B[y][k + 1].op \notin CallOps
       PROVE  j < Len(C[x]) /\ C[x][j + 1] = B[y][k + 1]
  <2>1. B \in [1 .. n -> Seq(Inst)]
    BY <1>1
  <2> QED  BY SMTT(40), <1>13, <2>1, StillFollowed
<1>6. SyscallsPlaced(f, C, n + 2, W)
  <2> SUFFICES ASSUME NEW x \in 1 .. n + 2, NEW j \in 1 .. Len(C[x]), C[x][j].op = "syscall"
               PROVE  \/ j = 2 /\ \E g \in prog.defs : TailOf(f, C, n + 2, W, x, g)
                      \/ j < Len(C[x]) /\ C[x][j + 1].op = "cmp"
    BY DEF SyscallsPlaced
  <2>1. CASE x = n + 2 /\ j = 2
    BY <1>1, <1>2, <2>1
  <2>2. ASSUME NEW y \in 1 .. n, NEW k \in 1 .. Len(B[y]), Comes(n, l, i, x, j, y, k), C[x][j] = B[y][k]
        PROVE  \/ j = 2 /\ \E g \in prog.defs : TailOf(f, C, n + 2, W, x, g)
               \/ j < Len(C[x]) /\ C[x][j + 1].op = "cmp"
    <3>1. CASE k < Len(B[y]) /\ B[y][k + 1].op = "cmp"
      <4>1. B[y][k].op \notin CallOps /\ B[y][k + 1].op \notin CallOps
        BY <2>2, <3>1, OpsShape
      <4>2. j < Len(C[x]) /\ C[x][j + 1] = B[y][k + 1]
        BY <1>13, <2>2, <3>1, <4>1
      <4> QED  BY <3>1, <4>2
    <3>2. ASSUME k = 2, NEW g \in prog.defs, TailOf(f, B, n, V, y, g)
          PROVE  j = 2 /\ TailOf(f, C, n + 2, W, x, g)
      <4>1. TailOf(f, C, n + 2, W, y, g) /\ (y = l => i >= 3)
        BY <1>12, <3>2
      <4>2. x = y /\ j = 2
        BY <1>1, <2>2, <3>2, <4>1 DEF Comes
      <4> QED  BY <4>1, <4>2
    <3> QED  BY <2>2, <3>1, <3>2 DEF FlowShape, SyscallsPlaced
  <2> QED  BY <1>4, <1>5, <2>1, <2>2 DEF IsNew, IsOld
<1>7. CmpsPlaced(C, n + 2)
  <2> SUFFICES ASSUME NEW x \in 1 .. n + 2, NEW j \in 1 .. Len(C[x]), C[x][j].op = "cmp"
               PROVE  j < Len(C[x]) /\ C[x][j + 1].op = "check"
    BY DEF CmpsPlaced
  <2>1. ASSUME NEW y \in 1 .. n, NEW k \in 1 .. Len(B[y]), Comes(n, l, i, x, j, y, k), C[x][j] = B[y][k]
        PROVE  j < Len(C[x]) /\ C[x][j + 1].op = "check"
    <3>1. k < Len(B[y]) /\ B[y][k + 1].op = "check"
      BY <2>1 DEF FlowShape, CmpsPlaced
    <3>2. B[y][k].op \notin CallOps /\ B[y][k + 1].op \notin CallOps
      BY <2>1, <3>1, OpsShape
    <3>3. j < Len(C[x]) /\ C[x][j + 1] = B[y][k + 1]
      BY <1>13, <2>1, <3>1, <3>2
    <3> QED  BY <3>1, <3>3
  <2> QED  BY <1>4, <1>5, <2>1 DEF IsNew, IsOld
<1>8. CallsKept(f, C, n + 2)
  <2> SUFFICES ASSUME NEW x \in 1 .. n + 2, NEW j \in 1 .. Len(C[x]), C[x][j].op \in {"call", "invoke"}
               PROVE  \E c \in CallsIn(f) : CallTo(f, c) = C[x][j].callee
    BY DEF CallsKept
  <2>1. PICK y \in 1 .. n : \E k \in 1 .. Len(B[y]) : C[x][j] = B[y][k]
    BY <1>11 DEF IsOld
  <2> QED  BY <2>1 DEF FlowShape, CallsKept
<1>9. ASSUME GatesSuffice
      PROVE  CallsOnce(f, C, n + 2) /\ ExitsInGates(f, C, n + 2, W) /\ CallsGated(f, C, n + 2, W)
  <2>0. CallsOnce(f, B, n) /\ ExitsInGates(f, B, n, V) /\ CallsGated(f, B, n, V) /\ CallsKept(f, B, n)
    BY <1>9 DEF FlowShape
  <2>1. prog.section[h] < prog.section[f]
    <3>1. Tagged(prog.section[f]) /\ Tagged(prog.section[h])
      BY <1>1, <1>9 DEF GatesSuffice
    <3> QED  BY <1>1, <3>1 DEF Lowers, LevelsRead
  <2>2. CallsOnce(f, C, n + 2)
    <3> SUFFICES ASSUME NEW x \in 1 .. n + 2, NEW z \in 1 .. n + 2,
                        NEW j \in 1 .. Len(C[x]), NEW u \in 1 .. Len(C[z]),
                        C[x][j].op \in {"call", "invoke"}, C[z][u].op \in {"call", "invoke"},
                        C[x][j].callee = C[z][u].callee, C[x][j].callee \in prog.defs,
                        prog.section[C[x][j].callee] < prog.section[f]
                 PROVE  x = z /\ j = u
      BY ZenonT(60) DEF CallsOnce
    <3>1. PICK y \in 1 .. n : \E k \in 1 .. Len(B[y]) : Comes(n, l, i, x, j, y, k) /\ C[x][j] = B[y][k]
      BY <1>11 DEF IsOld
    <3>2. PICK k \in 1 .. Len(B[y]) : Comes(n, l, i, x, j, y, k) /\ C[x][j] = B[y][k]
      BY <3>1
    <3>3. PICK w \in 1 .. n : \E v \in 1 .. Len(B[w]) : Comes(n, l, i, z, u, w, v) /\ C[z][u] = B[w][v]
      BY <1>11 DEF IsOld
    <3>4. PICK v \in 1 .. Len(B[w]) : Comes(n, l, i, z, u, w, v) /\ C[z][u] = B[w][v]
      BY <3>3
    <3>5. y = w /\ k = v
      BY SMTT(40), <2>0, <3>2, <3>4 DEF CallsOnce
    <3> QED  BY <1>1, <3>2, <3>4, <3>5 DEF Comes
  <2>3. ExitsInGates(f, C, n + 2, W)
    <3> SUFFICES ASSUME NEW x \in 1 .. n + 2, NEW j \in 1 .. Len(C[x]), C[x][j].op = "exit"
                 PROVE  /\ C[x][j].callee = prog.exit
                        /\ \E c \in CallsIn(f) : Lowering(f, c) /\ <<f, CallTo(f, c)>> \in W
      BY DEF ExitsInGates
    <3>1. ASSUME NEW y \in 1 .. n, NEW k \in 1 .. Len(B[y]), C[x][j] = B[y][k]
          PROVE  /\ C[x][j].callee = prog.exit
                 /\ \E c \in CallsIn(f) : Lowering(f, c) /\ <<f, CallTo(f, c)>> \in W
      BY <1>0, <2>0, <3>1 DEF ExitsInGates
    <3>2. CASE C[x][j] = Call("exit", prog.exit)
      <4>1. CASE B[l][i].op \in {"call", "invoke"}
        <5>1. PICK c \in CallsIn(f) : CallTo(f, c) = h
          BY <1>1, <2>0, <4>1 DEF CallsKept
        <5>2. Lowering(f, c) /\ <<f, CallTo(f, c)>> \in W
          BY <1>0, <1>1, <2>1, <5>1 DEF Lowering
        <5> QED  BY <1>4, <3>2, <5>2
      <4>2. CASE B[l][i].op = "exit"
        BY <1>0, <1>1, <1>4, <2>0, <3>2, <4>2 DEF ExitsInGates
      <4> QED  BY <1>1, <4>1, <4>2, OpsShape
    <3>3. IsNew(n, l, i, C, x, j) => C[x][j] = Call("exit", prog.exit)
      BY DEF IsNew
    <3>4. IsNew(n, l, i, C, x, j) \/ \E y \in 1 .. n : \E k \in 1 .. Len(B[y]) : C[x][j] = B[y][k]
      BY <1>5 DEF IsOld
    <3> QED  BY <3>1, <3>2, <3>3, <3>4
  <2>4. CallsGated(f, C, n + 2, W)
    <3> SUFFICES ASSUME NEW x \in 1 .. n + 2, NEW j \in 1 .. Len(C[x]), NEW g \in prog.defs, g = C[x][j].callee,
                        C[x][j].op \in {"call", "invoke"}, <<f, g>> \in W, prog.section[g] < prog.section[f]
                 PROVE  j = 1 /\ TailOf(f, C, n + 2, W, x, g)
      BY DEF CallsGated
    <3>1. PICK y \in 1 .. n : \E k \in 1 .. Len(B[y]) : Comes(n, l, i, x, j, y, k) /\ C[x][j] = B[y][k]
      BY <1>11 DEF IsOld
    <3>2. PICK k \in 1 .. Len(B[y]) : Comes(n, l, i, x, j, y, k) /\ C[x][j] = B[y][k]
      BY <3>1
    <3>3. CASE <<f, g>> \in V
      <4>1. k = 1 /\ TailOf(f, B, n, V, y, g)
        BY <2>0, <3>2, <3>3 DEF CallsGated
      <4>2. TailOf(f, C, n + 2, W, y, g) /\ (y = l => i >= 3)
        BY <1>12, <4>1
      <4>3. x = y /\ j = 1
        BY <1>1, <3>2, <4>1, <4>2 DEF Comes
      <4> QED  BY <4>2, <4>3
    <3>4. CASE g = h /\ B[l][i].op \in {"call", "invoke"}
      <4>1. y = l /\ k = i
        <5>1. /\ B[y][k].op \in {"call", "invoke"} /\ B[l][i].op \in {"call", "invoke"}
              /\ B[y][k].callee = B[l][i].callee /\ B[y][k].callee \in prog.defs
              /\ prog.section[B[y][k].callee] < prog.section[f]
          BY <1>1, <2>1, <3>2, <3>4
        <5>2. l \in 1 .. n /\ i \in 1 .. Len(B[l])
          BY <1>1
        <5> QED  BY <2>0, <5>1, <5>2 DEF CallsOnce
      <4>2. x = n + 2 /\ j = 1
        BY <1>1, <3>2, <4>1 DEF Comes
      <4> QED  BY <1>2, <3>4, <4>2
    <3>5. CASE g = h /\ B[l][i].op = "exit"
      <4>1. h = prog.exit
        BY <1>1, <2>0, <3>5 DEF ExitsInGates
      <4>2. PICK c \in CallsIn(f) : Lowering(f, c) /\ <<f, CallTo(f, c)>> \in V
        BY <1>1, <2>0, <3>5 DEF ExitsInGates
      <4>3. PICK b \in CallsIn(f) : CallTo(f, b) = h
        BY <2>0, <3>2, <3>5 DEF CallsKept
      <4>4. Lowering(f, b)
        BY <1>1, <2>1, <4>3 DEF Lowering
      <4>5. b = c
        BY <1>9, <4>1, <4>2, <4>3, <4>4 DEF GatesSuffice
      <4> QED  BY <1>1, <4>2, <4>3, <4>5
    <3>6. g = h \/ <<f, g>> \in V
      BY <1>0
    <3> QED  BY <1>1, <3>3, <3>4, <3>5, <3>6, OpsShape
  <2> QED  BY <2>2, <2>3, <2>4
<1>10. FlowShape(f, C, n + 2, W)
  BY <1>6, <1>7, <1>8, <1>9 DEF FlowShape
<1> QED  BY <1>10 DEF W

(* So does passing over a site, or gating one of another function.          *)
LEMMA FlowKept ==
  ASSUME NEW f \in prog.defs, NEW B, NEW n, NEW V, FlowShape(f, B, n, V), NEW W, V \subseteq W,
         \A g \in prog.defs : <<f, g>> \in W \ V => ~(BothTagged(f, g) /\ prog.section[g] < prog.section[f])
  PROVE  FlowShape(f, B, n, W)
<1>1. \A m, g : TailOf(f, B, n, V, m, g) => TailOf(f, B, n, W, m, g)
  BY DEF TailOf, GateOf
<1>2. SyscallsPlaced(f, B, n, W)
  BY <1>1 DEF FlowShape, SyscallsPlaced
<1>3. ASSUME GatesSuffice PROVE ExitsInGates(f, B, n, W) /\ CallsGated(f, B, n, W)
  <2>1. ExitsInGates(f, B, n, V) /\ CallsGated(f, B, n, V)
    BY <1>3 DEF FlowShape
  <2>2. \A g \in prog.defs : BothTagged(f, g)
    BY <1>3 DEF GatesSuffice, BothTagged
  <2>3. \A g \in prog.defs : <<f, g>> \in W /\ prog.section[g] < prog.section[f] => <<f, g>> \in V
    BY <2>2
  <2>4. CallsGated(f, B, n, W)
    BY <1>1, <2>1, <2>3 DEF CallsGated
  <2>5. ExitsInGates(f, B, n, W)
    BY <2>1 DEF ExitsInGates
  <2> QED  BY <2>4, <2>5
<1> QED  BY <1>2, <1>3 DEF FlowShape

(* What FlowShape says is about the program as it came.                     *)
LEMMA SameFlow ==
  ASSUME prog' = prog, NEW f, NEW B, NEW n, NEW V, FlowShape(f, B, n, V)
  PROVE  FlowShape(f, B, n, V)'
<1>1. \A m, g : TailOf(f, B, n, V, m, g)' <=> TailOf(f, B, n, V, m, g)
  BY DEF TailOf, GateOf, Lowers
<1>2. CallsIn(f)' = CallsIn(f) /\ \A c : CallTo(f, c)' = CallTo(f, c) /\ (Lowering(f, c)' <=> Lowering(f, c))
  BY DEF CallsIn, CallTo, Lowering
<1>3. GatesSuffice' <=> GatesSuffice
  BY DEF GatesSuffice, CallsIn, CallTo, Lowering
<1>4. SyscallsPlaced(f, B, n, V)'
  BY <1>1 DEF FlowShape, SyscallsPlaced
<1>5. CmpsPlaced(B, n)' /\ CallsKept(f, B, n)'
  BY <1>2 DEF FlowShape, CmpsPlaced, CallsKept
<1>6. ASSUME GatesSuffice
      PROVE  CallsOnce(f, B, n)' /\ ExitsInGates(f, B, n, V)' /\ CallsGated(f, B, n, V)'
  <2>1. CallsOnce(f, B, n)'
    BY SMTT(60), <1>6 DEF FlowShape, CallsOnce
  <2>2. ExitsInGates(f, B, n, V)'
    BY <1>2, <1>6 DEF FlowShape, ExitsInGates
  <2>3. CallsGated(f, B, n, V)'
    BY <1>1, <1>6 DEF FlowShape, CallsGated
  <2> QED  BY <2>1, <2>2, <2>3
<1> QED  BY <1>3, <1>4, <1>5, <1>6 DEF FlowShape

(* It is so of a program as it comes.                                       *)
LEMMA FlowInit == Init => FlowInv
<1> SUFFICES ASSUME Init, NEW f \in prog.defs
             PROVE  /\ code[f] # <<>> /\ code[f][1].label = 1
                    /\ FlowShape(f, Labelled(code[f]), Len(code[f]), visited)
  BY DEF FlowInv
<1>1. TypeOK /\ GateInv
  BY TypeInit, GateInit
<1>2. PICK n, B : n = Len(code[f]) /\ B = Labelled(code[f])
  OBVIOUS
<1>3. /\ f \in Function /\ code[f] = prog.code[f] /\ code[f] \in Seq(Block) /\ code[f] # <<>>
      /\ FromSource(code[f]) /\ visited = {} /\ n \in Nat /\ DOMAIN code[f] = 1 .. n
  BY <1>1, <1>2, ProgramShape DEF Init
<1>4. View(code[f], B) /\ 1 \in 1 .. n
  <2>1. PICK C : View(code[f], C)
    BY <1>1, <1>3 DEF GateInv
  <2>2. C = B
    BY <1>2, <1>3, <2>1, ViewIsLabelled
  <2> QED  BY <1>2, <1>3, <2>1, <2>2
<1>5. \A k \in 1 .. n : code[f][k].label = k /\ B[k] = code[f][k].insts /\ B[k] \in Seq(Inst)
  <2>1. \A k \in 1 .. n : code[f][k].label = k
    BY <1>3 DEF FromSource
  <2> QED  BY <1>2, <1>4, <2>1 DEF View
<1>6. \A k \in 1 .. n : \A i \in 1 .. Len(B[k]) : B[k][i].op \in SourceOps
  <2> TAKE k \in 1 .. n
  <2> TAKE i \in 1 .. Len(B[k])
  <2>1. k \in DOMAIN code[f] /\ B[k] = code[f][k].insts /\ i \in DOMAIN B[k]
    BY <1>3, <1>5
  <2> QED  BY <1>3, <2>1 DEF FromSource
<1>7. \A op \in SourceOps : op \notin {"syscall", "cmp", "exit"}
  BY DEF SourceOps
<1>8. \A k \in 1 .. n : \A i \in 1 .. Len(B[k]) : B[k][i].op \in {"call", "invoke"} =>
        <<k, i>> \in CallsIn(f) /\ CallTo(f, <<k, i>>) = B[k][i].callee
  <2> SUFFICES ASSUME NEW k \in 1 .. n, NEW i \in 1 .. Len(B[k]), B[k][i].op \in {"call", "invoke"}
               PROVE  <<k, i>> \in CallsIn(f) /\ CallTo(f, <<k, i>>) = B[k][i].callee
    OBVIOUS
  <2>1. k \in DOMAIN prog.code[f] /\ i \in DOMAIN prog.code[f][k].insts /\ B[k] = prog.code[f][k].insts
    BY <1>3, <1>5
  <2>2. <<k, i>> \in Positions(prog.code[f])
    BY <2>1 DEF Positions
  <2>3. prog.code[f][k].insts[i].op \in CallOps
    BY <2>1, OpsShape
  <2> QED  BY <2>1, <2>2, <2>3 DEF CallsIn, CallTo
<1>9. SyscallsPlaced(f, B, n, visited) /\ CmpsPlaced(B, n) /\ CallsKept(f, B, n)
  BY <1>6, <1>7, <1>8 DEF SyscallsPlaced, CmpsPlaced, CallsKept
<1>10. ExitsInGates(f, B, n, visited) /\ CallsGated(f, B, n, visited)
  BY <1>3, <1>6, <1>7 DEF ExitsInGates, CallsGated
<1>11. ASSUME GatesSuffice PROVE CallsOnce(f, B, n)
  <2> SUFFICES ASSUME NEW l \in 1 .. n, NEW x \in 1 .. n, NEW i \in 1 .. Len(B[l]), NEW j \in 1 .. Len(B[x]),
                      B[l][i].op \in {"call", "invoke"}, B[x][j].op \in {"call", "invoke"},
                      B[l][i].callee = B[x][j].callee, B[l][i].callee \in prog.defs,
                      prog.section[B[l][i].callee] < prog.section[f]
               PROVE  l = x /\ i = j
    BY DEF CallsOnce
  <2>1. /\ <<l, i>> \in CallsIn(f) /\ CallTo(f, <<l, i>>) = B[l][i].callee
        /\ <<x, j>> \in CallsIn(f) /\ CallTo(f, <<x, j>>) = B[x][j].callee
    BY <1>8
  <2>2. Lowering(f, <<l, i>>) /\ Lowering(f, <<x, j>>)
    BY <2>1 DEF Lowering
  <2>3. <<l, i>> = <<x, j>>
    BY <1>11, <2>1, <2>2 DEF GatesSuffice
  <2> QED  BY <2>3
<1>12. FlowShape(f, B, n, visited)
  BY <1>9, <1>10, <1>11 DEF FlowShape
<1> QED  BY <1>2, <1>3, <1>4, <1>5, <1>12

(* Every step keeps it.                                                     *)
LEMMA FlowStays == TypeOK /\ TypeOK' /\ GateInv /\ FlowInv /\ [Next]_vars => FlowInv'
<1> SUFFICES ASSUME TypeOK, TypeOK', GateInv, FlowInv, [Next]_vars, NEW f \in prog'.defs
             PROVE  /\ code'[f] # <<>> /\ code'[f][1].label = 1
                    /\ FlowShape(f, Labelled(code[f]), Len(code[f]), visited)'
  BY DEF FlowInv
<1>1. PICK n, B : n = Len(code[f]) /\ B = Labelled(code[f])
  OBVIOUS
<1>2. prog' = prog
  BY DEF Next, SkipSite, GateSite, CrashOnUntagged, Finish, Stopped, vars
<1>3. /\ f \in prog.defs /\ f \in Function /\ code[f] \in Seq(Block) /\ code'[f] \in Seq(Block) /\ n \in Nat
      /\ prog.code[f] \in Seq(Block) /\ prog.exit \in Function
  BY <1>1, <1>2, ProgramShape DEF TypeOK
<1>4. /\ code[f] # <<>> /\ code[f][1].label = 1 /\ FlowShape(f, B, n, visited)
  BY <1>1, <1>3 DEF FlowInv
<1>5. View(code[f], B) /\ Shape(f, B, n, visited)
  <2>1. PICK C : View(code[f], C) /\ Shape(f, C, n, visited)
    BY <1>1, <1>3 DEF GateInv
  <2>2. C = B
    BY <1>1, <1>3, <2>1, ViewIsLabelled
  <2> QED  BY <2>1, <2>2
<1>6. visited \subseteq visited'
  BY <1>3, <1>5, PassStep
<1>7. ASSUME NEW C, View(code'[f], C), FlowShape(f, C, Len(code'[f]), visited')
      PROVE  FlowShape(f, Labelled(code[f]), Len(code[f]), visited)'
  <2>1. C = Labelled(code'[f])
    BY <1>3, <1>7, ViewIsLabelled
  <2>2. FlowShape(f, C, Len(code[f]), visited)'
    BY <1>2, <1>7, SameFlow
  <2> QED  BY <2>1, <2>2
<1>8. CASE /\ code'[f] = code[f]
           /\ \A g \in prog.defs : <<f, g>> \in visited' \ visited =>
                ~(BothTagged(f, g) /\ prog.section[g] < prog.section[f])
  <2>1. FlowShape(f, B, n, visited')
    BY <1>3, <1>4, <1>6, <1>8, FlowKept
  <2> QED  BY <1>1, <1>4, <1>5, <1>7, <1>8, <2>1
<1>9. ASSUME NEW C, NEW l, NEW i, NEW g, NEW cr, NEW ce,
             GatesSite(f, B, n, visited, C, l, i, g, cr, ce),
             View(code'[f], C), Len(code'[f]) = n + 2, visited' = visited \cup {<<f, g>>},
             code'[f][1].label = code[f][1].label
      PROVE  /\ code'[f] # <<>> /\ code'[f][1].label = 1
             /\ FlowShape(f, Labelled(code[f]), Len(code[f]), visited)'
  <2>1. FlowShape(f, C, n + 2, visited')
    BY <1>3, <1>4, <1>5, <1>9, FlowStep
  <2>2. code'[f] # <<>>
    BY <1>3, <1>9
  <2> QED  BY <1>4, <1>7, <1>9, <2>1, <2>2
<1> QED  BY <1>1, <1>3, <1>5, <1>8, <1>9, PassStep

(* Every gate's parts, and every call of a program the gates suffice for,   *)
(* are where they belong at every step.                                     *)
THEOREM CallsStayGated == Spec => []FlowInv
<1>1. TypeOK /\ TypeOK' /\ GateInv /\ FlowInv /\ [Next]_vars => FlowInv'
  BY FlowStays
<1> QED  BY <1>1, FlowInit, TypeCorrect, GatesStayInShape, PTL DEF Spec

-----------------------------------------------------------------------------
(* Induction over the natural numbers, and what FlattenSeq gives.           *)

(* A set of natural numbers that is not empty has a least element.          *)
LEMMA LeastNat ==
  ASSUME NEW T \in SUBSET Nat, T # {}
  PROVE  \E n \in T : \A k \in T : n <= k
<1> DEFINE R == OpToRel(<, Nat)
<1>1. IsWellFoundedOn(R, Nat)
  BY NatLessThanWellFounded
<1>2. \A x, y \in Nat : <<x, y>> \in R <=> x < y
  BY DEF OpToRel
<1> HIDE DEF R
<1>3. PICK n \in T : \A k \in T : ~(<<k, n>> \in R)
  BY <1>1, WFMin
<1>4. \A k \in T : ~(k < n)
  BY <1>2, <1>3
<1> QED BY <1>4

(* A set that has zero, and with a number the next one, has all of them.    *)
LEMMA Induction ==
  ASSUME NEW T \in SUBSET Nat, 0 \in T, \A n \in Nat : n \in T => n + 1 \in T
  PROVE  T = Nat
<1> SUFFICES ASSUME Nat \ T # {} PROVE FALSE
  OBVIOUS
<1>1. PICK n \in Nat \ T : \A k \in Nat \ T : n <= k
  BY LeastNat
<1>2. n - 1 \in Nat /\ n - 1 \in T
  BY <1>1
<1> QED BY <1>1, <1>2

(* FlattenSeq puts the sequences one behind the other.                      *)
LEMMA Flattened ==
  ASSUME NEW S, NEW ss \in Seq(Seq(S)), ss # <<>>
  PROVE  \E F \in [1 .. Len(ss) -> Seq(S)] :
           /\ F[1] = ss[1] /\ F[Len(ss)] = FlattenSeq(ss)
           /\ \A i \in 2 .. Len(ss) : F[i] = F[i - 1] \o ss[i]
<1>0. Len(ss) \in Nat \ {0} /\ \A i \in 1 .. Len(ss) : ss[i] \in Seq(S)
  BY EmptySeq
<1> DEFINE PrefixUpTo(f, i) == IF i = 1 THEN ss[i] ELSE f[i - 1] \o ss[i]
           Reaches(n) == n <= Len(ss) =>
                           \E f \in [1 .. n -> Seq(S)] : \A i \in 1 .. n : f[i] = PrefixUpTo(f, i)
           T == { n \in Nat : Reaches(n) }
<1>1. T = Nat
  <2>1. 0 \in T
    <3>1. [i \in 1 .. 0 |-> <<>>] \in [1 .. 0 -> Seq(S)]
      OBVIOUS
    <3>2. \A i \in 1 .. 0 : [k \in 1 .. 0 |-> <<>>][i] = PrefixUpTo([k \in 1 .. 0 |-> <<>>], i)
      OBVIOUS
    <3> HIDE DEF PrefixUpTo
    <3> QED  BY <3>1, <3>2
  <2>2. ASSUME NEW n \in Nat, n \in T PROVE n + 1 \in T
    <3> SUFFICES ASSUME n + 1 <= Len(ss)
                 PROVE  \E f \in [1 .. n + 1 -> Seq(S)] : \A i \in 1 .. n + 1 : f[i] = PrefixUpTo(f, i)
      OBVIOUS
    <3>0. Reaches(n) /\ n <= Len(ss)
      <4>1. Reaches(n)
        <5> HIDE DEF Reaches
        <5> QED  BY <2>2
      <4>2. n <= Len(ss)
        BY <1>0
      <4> QED  BY <4>1, <4>2
    <3>1. PICK f \in [1 .. n -> Seq(S)] : \A i \in 1 .. n : f[i] = PrefixUpTo(f, i)
      <4> HIDE DEF PrefixUpTo
      <4> QED  BY <3>0
    <3> DEFINE g == [i \in 1 .. n + 1 |-> IF i <= n THEN f[i] ELSE PrefixUpTo(f, n + 1)]
    <3>2. n + 1 \in 1 .. Len(ss) /\ PrefixUpTo(f, n + 1) \in Seq(S)
      <4>1. CASE n = 0
        BY <1>0, <4>1
      <4>2. CASE n # 0
        <5>1. f[n] \in Seq(S) /\ ss[n + 1] \in Seq(S) /\ (n + 1) - 1 = n /\ n + 1 # 1
          BY <1>0, <4>2
        <5>2. f[n] \o ss[n + 1] \in Seq(S)
          BY <5>1, ConcatProperties
        <5> QED  BY <1>0, <5>1, <5>2
      <4> QED  BY <4>1, <4>2
    <3>3. g \in [1 .. n + 1 -> Seq(S)]
      BY <3>2
    <3>4. \A i \in 1 .. n + 1 : g[i] = PrefixUpTo(g, i)
      <4> SUFFICES ASSUME NEW i \in 1 .. n + 1 PROVE g[i] = PrefixUpTo(g, i)
        OBVIOUS
      <4>1. i = 1 \/ (i - 1 \in 1 .. n + 1 /\ i - 1 <= n /\ g[i - 1] = f[i - 1])
        OBVIOUS
      <4>2. PrefixUpTo(g, i) = PrefixUpTo(f, i)
        BY <4>1
      <4>3. g[i] = IF i <= n THEN f[i] ELSE PrefixUpTo(f, n + 1)
        OBVIOUS
      <4>4. i <= n => i \in 1 .. n
        OBVIOUS
      <4>5. ~(i <= n) => i = n + 1
        OBVIOUS
      <4> HIDE DEF g, PrefixUpTo
      <4> QED  BY <3>1, <4>2, <4>3, <4>4, <4>5
    <3> QED  BY <3>3, <3>4
  <2> HIDE DEF T
  <2> QED  BY <2>1, <2>2, Induction DEF T
<1>2. PICK f \in [1 .. Len(ss) -> Seq(S)] : \A i \in 1 .. Len(ss) : f[i] = PrefixUpTo(f, i)
  <2>1. Reaches(Len(ss))
    <3> HIDE DEF Reaches
    <3> QED  BY <1>0, <1>1
  <2> HIDE DEF PrefixUpTo
  <2> QED  BY <1>0, <2>1
<1> DEFINE F == CHOOSE g : g = [i \in 1 .. Len(ss) |-> PrefixUpTo(g, i)]
<1>3. F = [i \in 1 .. Len(ss) |-> PrefixUpTo(F, i)]
  <2>1. f = [i \in 1 .. Len(ss) |-> PrefixUpTo(f, i)]
    BY <1>2
  <2> QED  BY <2>1
<1>4. FlattenSeq(ss) = F[Len(ss)]
  BY <1>0 DEF FlattenSeq
<1> HIDE DEF F
<1> DEFINE U == { n \in Nat : n \in 1 .. Len(ss) => F[n] = f[n] }
<1>5. U = Nat
  <2>1. 0 \in U
    OBVIOUS
  <2>2. ASSUME NEW n \in Nat, n \in U PROVE n + 1 \in U
    <3> SUFFICES ASSUME n + 1 \in 1 .. Len(ss) PROVE F[n + 1] = f[n + 1]
      OBVIOUS
    <3>1. F[n + 1] = PrefixUpTo(F, n + 1) /\ f[n + 1] = PrefixUpTo(f, n + 1)
      BY <1>2, <1>3
    <3>2. n = 0 \/ (n \in 1 .. Len(ss) /\ F[n] = f[n] /\ (n + 1) - 1 = n)
      BY <1>0, <2>2
    <3> QED  BY <3>1, <3>2
  <2>3. U \subseteq Nat
    OBVIOUS
  <2> HIDE DEF U
  <2> QED  BY <2>1, <2>2, <2>3, Induction
<1>6. F[Len(ss)] = f[Len(ss)]
  BY <1>0, <1>5
<1>7. f[1] = ss[1] /\ \A i \in 2 .. Len(ss) : f[i] = f[i - 1] \o ss[i]
  <2>0. 1 \in 1 .. Len(ss) /\ \A i \in 2 .. Len(ss) : i \in 1 .. Len(ss) /\ i # 1
    BY <1>0
  <2>1. f[1] = PrefixUpTo(f, 1) /\ \A i \in 2 .. Len(ss) : f[i] = PrefixUpTo(f, i)
    <3> HIDE DEF PrefixUpTo
    <3> QED  BY <1>2, <2>0
  <2> QED  BY <2>0, <2>1
<1> QED  BY <1>4, <1>6, <1>7

-----------------------------------------------------------------------------
(* Flattening sequences.                                                    *)

(* FlattenSeq of nothing, of one sequence, and that it makes a sequence.    *)
LEMMA FlattenedShape ==
  ASSUME NEW S
  PROVE  /\ FlattenSeq(<<>>) = <<>>
         /\ \A s \in Seq(S) : FlattenSeq(<<s>>) = s
         /\ \A ss \in Seq(Seq(S)) : FlattenSeq(ss) \in Seq(S)
<1>1. FlattenSeq(<<>>) = <<>>
  BY DEF FlattenSeq
<1>2. ASSUME NEW s \in Seq(S) PROVE FlattenSeq(<<s>>) = s
  <2>1. PICK ss : ss = <<s>>
    OBVIOUS
  <2>2. ss \in Seq(Seq(S)) /\ Len(ss) = 1 /\ ss[1] = s /\ ss # <<>>
    BY <2>1
  <2> QED  BY <2>1, <2>2, Flattened
<1>3. ASSUME NEW ss \in Seq(Seq(S)) PROVE FlattenSeq(ss) \in Seq(S)
  <2>1. CASE ss = <<>>
    <3>1. <<>> \in Seq(S)
      BY EmptySeq
    <3> QED  BY <1>1, <2>1, <3>1
  <2>2. CASE ss # <<>>
    <3>1. PICK F \in [1 .. Len(ss) -> Seq(S)] : F[Len(ss)] = FlattenSeq(ss)
      BY <2>2, Flattened
    <3>2. Len(ss) \in 1 .. Len(ss)
      BY <2>2, EmptySeq
    <3>3. F[Len(ss)] \in Seq(S)
      BY <3>2
    <3> QED  BY <3>1, <3>3
  <2> QED  BY <2>1, <2>2
<1> QED  BY <1>1, <1>2, <1>3

(* Flattening two sequences put together flattens each.                     *)
LEMMA FlattenedJoin ==
  ASSUME NEW S, NEW ss \in Seq(Seq(S)), NEW tt \in Seq(Seq(S))
  PROVE  FlattenSeq(ss \o tt) = FlattenSeq(ss) \o FlattenSeq(tt)
<1>0. FlattenSeq(ss) \in Seq(S) /\ FlattenSeq(tt) \in Seq(S) /\ FlattenSeq(<<>>) = <<>>
  BY FlattenedShape
<1>4. \A p, q, r \in Seq(S) : (p \o q) \o r = p \o (q \o r)
  <2> TAKE p, q, r \in Seq(S)
  <2> QED  BY ConcatAssociative
<1>1. CASE ss = <<>>
  <2>1. ss \o tt = tt /\ <<>> \o FlattenSeq(tt) = FlattenSeq(tt)
    BY <1>0, <1>1, ConcatEmptySeq
  <2> QED  BY <1>0, <1>1, <2>1
<1>2. CASE tt = <<>>
  <2>1. ss \o tt = ss /\ FlattenSeq(ss) \o <<>> = FlattenSeq(ss)
    BY <1>0, <1>2, ConcatEmptySeq
  <2> QED  BY <1>0, <1>2, <2>1
<1>3. CASE ss # <<>> /\ tt # <<>>
  <2>0. Len(ss) \in Nat \ {0} /\ Len(tt) \in Nat \ {0}
    BY <1>3, EmptySeq
  <2>1. PICK uu : uu = ss \o tt
    OBVIOUS
  <2>2. uu \in Seq(Seq(S)) /\ Joins(uu, ss, tt)
    BY <2>1, Joined
  <2>3. Len(uu) = Len(ss) + Len(tt) /\ uu # <<>>
    BY <2>0, <2>2 DEF Joins
  <2>4. PICK F \in [1 .. Len(ss) -> Seq(S)] :
          /\ F[1] = ss[1] /\ F[Len(ss)] = FlattenSeq(ss)
          /\ \A i \in 2 .. Len(ss) : F[i] = F[i - 1] \o ss[i]
    BY <1>3, Flattened
  <2>5. PICK G \in [1 .. Len(tt) -> Seq(S)] :
          /\ G[1] = tt[1] /\ G[Len(tt)] = FlattenSeq(tt)
          /\ \A i \in 2 .. Len(tt) : G[i] = G[i - 1] \o tt[i]
    BY <1>3, Flattened
  <2>6. PICK H \in [1 .. Len(uu) -> Seq(S)] :
          /\ H[1] = uu[1] /\ H[Len(uu)] = FlattenSeq(uu)
          /\ \A i \in 2 .. Len(uu) : H[i] = H[i - 1] \o uu[i]
    BY <2>2, <2>3, Flattened
  <2>7. H[Len(ss)] = FlattenSeq(ss)
    <3> DEFINE T == { n \in Nat : n \in 1 .. Len(ss) => H[n] = F[n] }
    <3>1. 0 \in T
      OBVIOUS
    <3>2. ASSUME NEW n \in Nat, n \in T PROVE n + 1 \in T
      <4> SUFFICES ASSUME n + 1 \in 1 .. Len(ss) PROVE H[n + 1] = F[n + 1]
        OBVIOUS
      <4>1. uu[n + 1] = ss[n + 1]
        BY <2>0, <2>2 DEF Joins
      <4>2. CASE n = 0
        BY <2>4, <2>6, <4>1, <4>2
      <4>3. CASE n # 0
        <5>1. n \in 1 .. Len(ss) /\ n + 1 \in 2 .. Len(ss) /\ n + 1 \in 2 .. Len(uu) /\ (n + 1) - 1 = n
          BY <2>0, <2>3, <4>3
        <5>2. H[n] = F[n]
          BY <3>2, <5>1
        <5> QED  BY <2>4, <2>6, <4>1, <5>1, <5>2
      <4> QED  BY <4>2, <4>3
    <3>3. T \in SUBSET Nat
      OBVIOUS
    <3> HIDE DEF T
    <3>4. Len(ss) \in T
      BY <2>0, <3>1, <3>2, <3>3, Induction
    <3> QED  BY <2>0, <2>4, <3>4 DEF T
  <2>8. \A n \in 1 .. Len(tt) : H[Len(ss) + n] = FlattenSeq(ss) \o G[n]
    <3> DEFINE T == { n \in Nat : n \in 1 .. Len(tt) => H[Len(ss) + n] = FlattenSeq(ss) \o G[n] }
    <3>1. 0 \in T
      OBVIOUS
    <3>2. ASSUME NEW n \in Nat, n \in T PROVE n + 1 \in T
      <4> SUFFICES ASSUME n + 1 \in 1 .. Len(tt) PROVE H[Len(ss) + (n + 1)] = FlattenSeq(ss) \o G[n + 1]
        OBVIOUS
      <4>1. uu[Len(ss) + (n + 1)] = tt[n + 1]
        BY <2>2 DEF Joins
      <4>2. /\ Len(ss) + (n + 1) \in 2 .. Len(uu)
            /\ (Len(ss) + (n + 1)) - 1 = Len(ss) + n
        BY <2>0, <2>3
      <4>3. H[Len(ss) + (n + 1)] = H[Len(ss) + n] \o tt[n + 1]
        BY <2>6, <4>1, <4>2
      <4>4. CASE n = 0
        <5>1. Len(ss) + n = Len(ss) /\ n + 1 = 1
          BY <2>0, <4>4
        <5>2. H[Len(ss) + (n + 1)] = FlattenSeq(ss) \o tt[1]
          BY <2>7, <4>3, <5>1
        <5> QED  BY <2>5, <5>1, <5>2
      <4>5. CASE n # 0
        <5>1. n \in 1 .. Len(tt) /\ n + 1 \in 2 .. Len(tt) /\ (n + 1) - 1 = n
          BY <2>0, <4>5
        <5>2. H[Len(ss) + n] = FlattenSeq(ss) \o G[n]
          BY <3>2, <5>1
        <5>3. G[n] \in Seq(S) /\ tt[n + 1] \in Seq(S)
          BY <5>1, ElementOfSeq
        <5>4. (FlattenSeq(ss) \o G[n]) \o tt[n + 1] = FlattenSeq(ss) \o (G[n] \o tt[n + 1])
          BY <1>0, <1>4, <5>3
        <5>5. G[n + 1] = G[n] \o tt[n + 1]
          BY <2>5, <5>1
        <5> QED  BY <4>3, <5>2, <5>4, <5>5
      <4> QED  BY <4>4, <4>5
    <3>3. T \in SUBSET Nat
      OBVIOUS
    <3> HIDE DEF T
    <3>4. T = Nat
      BY <3>1, <3>2, <3>3, Induction
    <3>5. \A n \in 1 .. Len(tt) : n \in T
      BY <2>0, <3>4
    <3> QED  BY <3>5 DEF T
  <2>9. Len(tt) \in 1 .. Len(tt) /\ H[Len(ss) + Len(tt)] = FlattenSeq(uu)
    BY <2>0, <2>3, <2>6
  <2> QED  BY <2>1, <2>5, <2>8, <2>9
<1> QED  BY <1>1, <1>2, <1>3

-----------------------------------------------------------------------------
(* Taking the gates out.                                                    *)

(* The instructions WithoutGates puts together, one sequence for each.      *)
Ungated(insts) == [i \in DOMAIN insts |-> IF insts[i].op \in GateOps THEN <<>> ELSE <<insts[i]>>]

(* They are sequences of instructions, and those of two sequences put       *)
(* together are put together.                                               *)
LEMMA UngatedJoin ==
  ASSUME NEW p \in Seq(Inst), NEW q \in Seq(Inst)
  PROVE  /\ Ungated(p) \in Seq(Seq(Inst)) /\ Ungated(q) \in Seq(Seq(Inst))
         /\ Ungated(p \o q) = Ungated(p) \o Ungated(q)
<1>1. \A s \in Seq(Inst) : /\ Ungated(s) \in Seq(Seq(Inst)) /\ Len(Ungated(s)) = Len(s)
                           /\ \A i \in 1 .. Len(s) :
                                Ungated(s)[i] = IF s[i].op \in GateOps THEN <<>> ELSE <<s[i]>>
  <2> TAKE s \in Seq(Inst)
  <2>1. Len(s) \in Nat /\ DOMAIN s = 1 .. Len(s) /\ \A i \in 1 .. Len(s) : s[i] \in Inst
    BY LenProperties
  <2>2. \A i \in 1 .. Len(s) :
          (IF s[i].op \in GateOps THEN <<>> ELSE <<s[i]>>) \in Seq(Inst)
    BY <2>1
  <2>3. Ungated(s) \in [1 .. Len(s) -> Seq(Inst)]
    BY <2>1, <2>2 DEF Ungated
  <2>4. Ungated(s) \in Seq(Seq(Inst)) /\ Len(Ungated(s)) = Len(s)
    BY <2>1, <2>3
  <2> QED  BY <2>1, <2>4 DEF Ungated
<1>2. PICK r : r = p \o q
  OBVIOUS
<1>3. r \in Seq(Inst) /\ Joins(r, p, q)
  BY <1>2, Joined
<1>4. PICK a, b, c : a = Ungated(p) /\ b = Ungated(q) /\ c = Ungated(r)
  OBVIOUS
<1>5. /\ a \in Seq(Seq(Inst)) /\ Len(a) = Len(p)
      /\ b \in Seq(Seq(Inst)) /\ Len(b) = Len(q)
      /\ c \in Seq(Seq(Inst)) /\ Len(c) = Len(r)
  BY <1>1, <1>3, <1>4
<1>6. PICK d : d = a \o b
  OBVIOUS
<1>7. d \in Seq(Seq(Inst)) /\ Joins(d, a, b)
  BY <1>5, <1>6, Joined
<1>8. Len(c) = Len(d)
  BY <1>3, <1>5, <1>7 DEF Joins
<1>9. \A i \in 1 .. Len(c) : c[i] = d[i]
  <2> TAKE i \in 1 .. Len(c)
  <2>0. Len(p) \in Nat /\ Len(q) \in Nat /\ i \in Nat /\ Len(c) = Len(p) + Len(q)
    BY <1>3, <1>5 DEF Joins
  <2>1. CASE i \in 1 .. Len(p)
    <3>1. r[i] = p[i] /\ d[i] = a[i]
      BY <1>3, <1>5, <1>7, <2>1 DEF Joins
    <3>2. i \in 1 .. Len(r)
      BY <1>5
    <3> QED  BY <1>1, <1>3, <1>4, <2>1, <3>1, <3>2
  <2>2. CASE i \notin 1 .. Len(p)
    <3>1. PICK j \in 1 .. Len(q) : i = Len(p) + j
      <4>1. i - Len(p) \in 1 .. Len(q) /\ i = Len(p) + (i - Len(p))
        BY <2>0, <2>2
      <4> QED  BY <4>1
    <3>2. r[i] = q[j] /\ d[i] = b[j]
      BY <1>3, <1>5, <1>7, <3>1 DEF Joins
    <3>3. i \in 1 .. Len(r)
      BY <1>5
    <3> QED  BY <1>1, <1>3, <1>4, <3>1, <3>2, <3>3
  <2> QED  BY <2>1, <2>2
<1>10. c = d
  BY <1>5, <1>7, <1>8, <1>9, SeqEqual
<1> QED  BY <1>2, <1>4, <1>5, <1>6, <1>10

(* Gates are taken out of two sequences put together one by one; of one     *)
(* instruction, nothing or itself is left.                                  *)
LEMMA WithoutGatesShape ==
  /\ WithoutGates(<<>>) = <<>>
  /\ \A x \in Inst : WithoutGates(<<x>>) = IF x.op \in GateOps THEN <<>> ELSE <<x>>
  /\ \A p \in Seq(Inst) : WithoutGates(p) \in Seq(Inst)
  /\ \A p, q \in Seq(Inst) : WithoutGates(p \o q) = WithoutGates(p) \o WithoutGates(q)
<1>0. \A p : WithoutGates(p) = FlattenSeq(Ungated(p))
  BY DEF WithoutGates, Ungated
<1>1. WithoutGates(<<>>) = <<>>
  <2>1. Ungated(<<>>) = <<>>
    BY DEF Ungated
  <2> QED  BY <1>0, <2>1, FlattenedShape
<1>2. ASSUME NEW x \in Inst
      PROVE  WithoutGates(<<x>>) = IF x.op \in GateOps THEN <<>> ELSE <<x>>
  <2>1. PICK y : y = IF x.op \in GateOps THEN <<>> ELSE <<x>>
    OBVIOUS
  <2>2. y \in Seq(Inst)
    BY <2>1
  <2>3. PICK s : s = <<x>>
    OBVIOUS
  <2>4. DOMAIN s = {1} /\ s[1] = x
    BY <2>3
  <2>5. Ungated(s) = [i \in {1} |-> y]
    BY <2>1, <2>4 DEF Ungated
  <2>6. <<y>> = [i \in {1} |-> y]
    OBVIOUS
  <2>7. FlattenSeq(<<y>>) = y
    BY <2>2, FlattenedShape
  <2> QED  BY <1>0, <2>1, <2>3, <2>5, <2>6, <2>7
<1>3. ASSUME NEW p \in Seq(Inst) PROVE WithoutGates(p) \in Seq(Inst)
  <2>1. Ungated(p) \in Seq(Seq(Inst))
    BY UngatedJoin
  <2> QED  BY <1>0, <2>1, FlattenedShape
<1>4. ASSUME NEW p \in Seq(Inst), NEW q \in Seq(Inst)
      PROVE  WithoutGates(p \o q) = WithoutGates(p) \o WithoutGates(q)
  <2>1. /\ Ungated(p) \in Seq(Seq(Inst)) /\ Ungated(q) \in Seq(Seq(Inst))
        /\ Ungated(p \o q) = Ungated(p) \o Ungated(q)
    BY UngatedJoin
  <2>2. PICK a, b : a = Ungated(p) /\ b = Ungated(q)
    OBVIOUS
  <2>3. FlattenSeq(a \o b) = FlattenSeq(a) \o FlattenSeq(b)
    BY <2>1, <2>2, FlattenedJoin
  <2> QED  BY <1>0, <2>1, <2>2, <2>3
<1> QED  BY <1>1, <1>2, <1>3, <1>4

(* What has no gate is left as it is.                                       *)
LEMMA WithoutNoGates ==
  ASSUME NEW s \in Seq(Inst), \A i \in 1 .. Len(s) : s[i].op \notin GateOps
  PROVE  WithoutGates(s) = s
<1>0. Len(s) \in Nat /\ \A i \in 1 .. Len(s) : s[i] \in Inst
  OBVIOUS
<1> DEFINE T == { n \in Nat : n <= Len(s) => WithoutGates(SubSeq(s, 1, n)) = SubSeq(s, 1, n) }
<1>1. 0 \in T
  <2>1. SubSeq(s, 1, 0) = <<>>
    BY SubSeqEmpty
  <2> QED  BY <2>1, WithoutGatesShape
<1>2. ASSUME NEW n \in Nat, n \in T PROVE n + 1 \in T
  <2> SUFFICES ASSUME n + 1 <= Len(s)
               PROVE  WithoutGates(SubSeq(s, 1, n + 1)) = SubSeq(s, 1, n + 1)
    OBVIOUS
  <2>1. n <= Len(s) /\ n + 1 \in 1 .. Len(s) /\ 1 \in 1 .. Len(s) /\ (n + 1) - 1 = n
    BY <1>0
  <2>2. WithoutGates(SubSeq(s, 1, n)) = SubSeq(s, 1, n)
    BY <1>2, <2>1
  <2>3. SubSeq(s, 1, n + 1) = SubSeq(s, 1, (n + 1) - 1) \o <<s[n + 1]>>
    BY <2>1, SubSeqRecursiveSecond
  <2>4. PICK p, q : p = SubSeq(s, 1, n) /\ q = <<s[n + 1]>>
    OBVIOUS
  <2>5. p \in Seq(Inst)
    BY <1>0, <2>1, <2>4
  <2>6. q \in Seq(Inst) /\ WithoutGates(q) = q
    <3>1. PICK x \in Inst : x = s[n + 1] /\ x.op \notin GateOps
      BY <1>0, <2>1
    <3>2. WithoutGates(<<x>>) = <<x>> /\ <<x>> \in Seq(Inst)
      BY <3>1, WithoutGatesShape
    <3> QED  BY <2>4, <3>1, <3>2
  <2>7. WithoutGates(p \o q) = WithoutGates(p) \o WithoutGates(q)
    BY <2>5, <2>6, WithoutGatesShape
  <2> QED  BY <2>1, <2>2, <2>3, <2>4, <2>6, <2>7
<1>3. T \in SUBSET Nat
  OBVIOUS
<1> HIDE DEF T
<1>4. T = Nat
  BY <1>1, <1>2, <1>3, Induction
<1>5. WithoutGates(SubSeq(s, 1, Len(s))) = SubSeq(s, 1, Len(s))
  BY <1>0, <1>4 DEF T
<1>6. SubSeq(s, 1, Len(s)) = s
  BY SubSeqFull
<1> QED  BY <1>5, <1>6

(* Short sequences, one element at a time.                                  *)
OneByOne(S, a, b, c) ==
  /\ <<a>> \in Seq(S) /\ <<a, b>> \in Seq(S) /\ <<a, b, c>> \in Seq(S)
  /\ <<a, b>> = <<a>> \o <<b>>
  /\ <<a, b, c>> = <<a, b>> \o <<c>>

(* They are made like that.                                                 *)
LEMMA ShortSequences == \A S : \A a, b, c \in S : OneByOne(S, a, b, c)
<1> TAKE S
<1> TAKE a, b, c \in S
<1>1. PICK p, q, r, pq, pqr : /\ p = <<a>> /\ q = <<b>> /\ r = <<c>> /\ pq = <<a, b>>
                              /\ pqr = <<a, b, c>>
  OBVIOUS
<1>2. /\ p \in Seq(S) /\ Len(p) = 1 /\ p[1] = a
      /\ q \in Seq(S) /\ Len(q) = 1 /\ q[1] = b
      /\ r \in Seq(S) /\ Len(r) = 1 /\ r[1] = c
      /\ pq \in Seq(S) /\ Len(pq) = 2 /\ pq[1] = a /\ pq[2] = b
      /\ pqr \in Seq(S) /\ Len(pqr) = 3 /\ pqr[1] = a /\ pqr[2] = b /\ pqr[3] = c
  BY <1>1
<1>3. pq = p \o q
  <2>1. PICK d : d = p \o q
    OBVIOUS
  <2>2. d \in Seq(S) /\ Joins(d, p, q)
    BY <1>2, <2>1, Joined
  <2>3. Len(d) = 2 /\ d[1] = a /\ d[1 + 1] = b
    BY <1>2, <2>2 DEF Joins
  <2>4. \A i \in 1 .. Len(d) : d[i] = pq[i]
    BY <1>2, <2>3
  <2> QED  BY <1>2, <2>1, <2>2, <2>3, <2>4, SeqEqual
<1>4. pqr = pq \o r
  <2>1. PICK d : d = pq \o r
    OBVIOUS
  <2>2. d \in Seq(S) /\ Joins(d, pq, r)
    BY <1>2, <2>1, Joined
  <2>3. Len(d) = 3 /\ d[1] = a /\ d[2] = b /\ d[2 + 1] = c
    BY <1>2, <2>2 DEF Joins
  <2>4. \A i \in 1 .. Len(d) : d[i] = pqr[i]
    BY <1>2, <2>3
  <2> QED  BY <1>2, <2>1, <2>2, <2>3, <2>4, SeqEqual
<1> QED  BY <1>1, <1>2, <1>3, <1>4 DEF OneByOne

(* The instructions of blocks put together are put together, and those of   *)
(* one block are its own.                                                   *)
LEMMA InstsShape ==
  /\ Insts(<<>>) = <<>>
  /\ \A b \in Block : Insts(<<b>>) = b.insts
  /\ \A p \in Seq(Block) : Insts(p) \in Seq(Inst)
  /\ \A p, q \in Seq(Block) : Insts(p \o q) = Insts(p) \o Insts(q)
<1> DEFINE Parts(blocks) == [k \in DOMAIN blocks |-> blocks[k].insts]
<1>0. \A p : Insts(p) = FlattenSeq(Parts(p))
  BY DEF Insts
<1>1. \A p \in Seq(Block) : /\ Parts(p) \in Seq(Seq(Inst)) /\ Len(Parts(p)) = Len(p)
                            /\ \A i \in 1 .. Len(p) : Parts(p)[i] = p[i].insts
  <2> TAKE p \in Seq(Block)
  <2>0. Len(p) \in Nat /\ DOMAIN p = 1 .. Len(p) /\ \A i \in 1 .. Len(p) : p[i] \in Block
    BY LenProperties
  <2>1. Len(p) \in Nat /\ DOMAIN p = 1 .. Len(p) /\ \A i \in 1 .. Len(p) : p[i].insts \in Seq(Inst)
    BY <2>0 DEF Block
  <2>2. Parts(p) \in [1 .. Len(p) -> Seq(Inst)]
    BY <2>1
  <2> QED  BY <2>1, <2>2
<1>2. Parts(<<>>) = <<>>
  OBVIOUS
<1>3. \A b \in Block : Parts(<<b>>) = <<b.insts>>
  <2> TAKE b \in Block
  <2>1. PICK s : s = <<b>>
    OBVIOUS
  <2>2. DOMAIN s = {1} /\ s[1] = b
    BY <2>1
  <2>3. Parts(s) = [i \in {1} |-> b.insts]
    BY <2>2
  <2>4. <<b.insts>> = [i \in {1} |-> b.insts]
    OBVIOUS
  <2> QED  BY <2>1, <2>3, <2>4
<1>4. \A b \in Block : b.insts \in Seq(Inst)
  BY DEF Block
<1>5. \A p, q \in Seq(Block) : Parts(p \o q) = Parts(p) \o Parts(q)
  <2> TAKE p, q \in Seq(Block)
  <2>1. PICK r : r = p \o q
    OBVIOUS
  <2>2. r \in Seq(Block) /\ Joins(r, p, q)
    BY <2>1, Joined
  <2>3. PICK a, b, c : a = Parts(p) /\ b = Parts(q) /\ c = Parts(r)
    OBVIOUS
  <2> HIDE DEF Parts
  <2>4. /\ a \in Seq(Seq(Inst)) /\ Len(a) = Len(p)
        /\ b \in Seq(Seq(Inst)) /\ Len(b) = Len(q)
        /\ c \in Seq(Seq(Inst)) /\ Len(c) = Len(r)
    BY <1>1, <2>2, <2>3
  <2>5. PICK d : d = a \o b
    OBVIOUS
  <2>6. d \in Seq(Seq(Inst)) /\ Joins(d, a, b)
    BY <2>4, <2>5, Joined
  <2>7. Len(c) = Len(d)
    BY <2>2, <2>4, <2>6 DEF Joins
  <2>8. \A i \in 1 .. Len(c) : c[i] = d[i]
    <3> TAKE i \in 1 .. Len(c)
    <3>0. Len(p) \in Nat /\ Len(q) \in Nat /\ i \in Nat /\ Len(c) = Len(p) + Len(q)
      BY <2>2, <2>4 DEF Joins
    <3>1. CASE i \in 1 .. Len(p)
      <4>1. r[i] = p[i] /\ d[i] = a[i]
        BY <2>2, <2>4, <2>6, <3>1 DEF Joins
      <4>2. i \in 1 .. Len(r)
        BY <2>4
      <4> QED  BY <1>1, <2>2, <2>3, <3>1, <4>1, <4>2
    <3>2. CASE i \notin 1 .. Len(p)
      <4>1. PICK j \in 1 .. Len(q) : i = Len(p) + j
        <5>1. i - Len(p) \in 1 .. Len(q) /\ i = Len(p) + (i - Len(p))
          BY <3>0, <3>2
        <5> QED  BY <5>1
      <4>2. r[i] = q[j] /\ d[i] = b[j]
        BY <2>2, <2>4, <2>6, <4>1 DEF Joins
      <4>3. i \in 1 .. Len(r)
        BY <2>4
      <4> QED  BY <1>1, <2>2, <2>3, <4>1, <4>2, <4>3
    <3> QED  BY <3>1, <3>2
  <2>9. c = d
    BY <2>4, <2>6, <2>7, <2>8, SeqEqual
  <2> QED  BY <2>1, <2>3, <2>5, <2>9
<1> HIDE DEF Parts
<1>6. Insts(<<>>) = <<>>
  BY <1>0, <1>2, FlattenedShape
<1>7. \A b \in Block : Insts(<<b>>) = b.insts
  BY <1>0, <1>3, <1>4, FlattenedShape
<1>8. \A p \in Seq(Block) : Insts(p) \in Seq(Inst)
  BY <1>0, <1>1, FlattenedShape
<1>9. \A p, q \in Seq(Block) : Insts(p \o q) = Insts(p) \o Insts(q)
  <2> TAKE p, q \in Seq(Block)
  <2>1. PICK a, b : a = Parts(p) /\ b = Parts(q)
    OBVIOUS
  <2>2. a \in Seq(Seq(Inst)) /\ b \in Seq(Seq(Inst))
    BY <1>1, <2>1
  <2>3. FlattenSeq(a \o b) = FlattenSeq(a) \o FlattenSeq(b)
    BY <2>2, FlattenedJoin
  <2> QED  BY <1>0, <1>5, <2>1, <2>3
<1> QED  BY <1>6, <1>7, <1>8, <1>9

(* A gate without its own instructions is the block it replaces.            *)
LEMMA GateKeepsBody ==
  ASSUME NEW b \in Block, NEW i \in 1 .. Len(b.insts), NEW n \in Nat,
         NEW cr \in Tag, NEW ce \in Tag, prog.exit \in Function
  PROVE  /\ Gate(b, i, n, cr, ce) \in Seq(Block)
         /\ WithoutGates(Insts(Gate(b, i, n, cr, ce))) = WithoutGates(b.insts)
<1> DEFINE s == b.insts
           u == SubSeq(s, 1, i - 1)
           v == SubSeq(s, i + 1, Len(s))
           x == s[i]
           g == <<Syscall(ce), Cmp, Check(n + 1, n + 2)>>
           e == <<Call("exit", prog.exit), Jump("resume", n + 2)>>
           c == <<x, Syscall(cr)>>
           W(p) == WithoutGates(p)
<1>1. s \in Seq(Inst) /\ Len(s) \in Nat /\ i \in Nat /\ i >= 1 /\ i <= Len(s) /\ x \in Inst
      /\ b.label \in Nat
  BY DEF Block
<1>2. u \in Seq(Inst) /\ v \in Seq(Inst) /\ <<x>> \in Seq(Inst)
  BY <1>1
<1>3. s = (u \o <<x>>) \o v
  <2>1. SubSeq(s, 1, i) = u \o <<x>>
    BY <1>1, SubSeqRecursiveSecond
  <2>2. SubSeq(s, 1, i) \o SubSeq(s, i + 1, Len(s)) = SubSeq(s, 1, Len(s))
    BY <1>1, ConcatAdjacentSubSeq
  <2>3. SubSeq(s, 1, Len(s)) = s
    BY <1>1, SubSeqFull
  <2> QED  BY <2>1, <2>2, <2>3
<1>4. \A y \in {Syscall(ce), Syscall(cr), Cmp, Check(n + 1, n + 2),
                Call("exit", prog.exit), Jump("resume", n + 2)} :
        y \in Inst /\ y.op \in GateOps /\ W(<<y>>) = <<>> /\ <<y>> \in Seq(Inst)
  <2>1. \A y \in {Syscall(ce), Syscall(cr), Cmp, Check(n + 1, n + 2),
                  Call("exit", prog.exit), Jump("resume", n + 2)} :
          y \in Inst /\ y.op \in GateOps
    BY InstructionTypes, Instructions DEF GateOps
  <2>2. \A y \in Inst : y.op \in GateOps => W(<<y>>) = <<>>
    BY WithoutGatesShape
  <2>3. \A y \in Inst : <<y>> \in Seq(Inst)
    OBVIOUS
  <2> HIDE DEF W
  <2> QED  BY <2>1, <2>2, <2>3
<1>16. PICK nil : nil = <<>>
  OBVIOUS
<1>17. \A y1, y2, y3 \in Inst : OneByOne(Inst, y1, y2, y3)
  BY ShortSequences, Zenon
<1>18. \A y1, y2, y3 \in Block : OneByOne(Block, y1, y2, y3)
  BY ShortSequences, Zenon
<1>5. W(<<>>) = <<>> /\ <<>> \in Seq(Inst) /\ <<>> \o <<>> = <<>>
  BY WithoutGatesShape
<1>6. W(g) = nil /\ g \in Seq(Inst)
  <2>1. PICK y1, y2, y3 \in Inst :
          /\ y1 = Syscall(ce) /\ y2 = Cmp /\ y3 = Check(n + 1, n + 2)
          /\ W(<<y1>>) = <<>> /\ W(<<y2>>) = <<>> /\ W(<<y3>>) = <<>>
    BY <1>4
  <2>2. <<y1, y2>> = <<y1>> \o <<y2>> /\ <<y1, y2, y3>> = <<y1, y2>> \o <<y3>>
    BY <1>17 DEF OneByOne
  <2>3. <<y1>> \in Seq(Inst) /\ <<y2>> \in Seq(Inst) /\ <<y3>> \in Seq(Inst)
        /\ <<y1, y2>> \in Seq(Inst) /\ <<y1, y2, y3>> \in Seq(Inst)
    BY <1>17 DEF OneByOne
  <2>4. W(<<y1, y2>>) = W(<<y1>>) \o W(<<y2>>)
    BY <2>2, <2>3, WithoutGatesShape
  <2>5. W(<<y1, y2, y3>>) = W(<<y1, y2>>) \o W(<<y3>>)
    <3>1. PICK p, q \in Seq(Inst) : p = <<y1, y2>> /\ q = <<y3>>
      BY <2>3
    <3>2. W(p \o q) = W(p) \o W(q)
      BY WithoutGatesShape
    <3> QED  BY <2>2, <3>1, <3>2
  <2>6. W(<<y1, y2, y3>>) = nil
    BY <1>5, <1>16, <2>1, <2>4, <2>5
  <2> QED  BY <2>1, <2>3, <2>6
<1>7. W(e) = nil /\ e \in Seq(Inst)
  <2>1. PICK y1, y2 \in Inst :
          /\ y1 = Call("exit", prog.exit) /\ y2 = Jump("resume", n + 2)
          /\ W(<<y1>>) = <<>> /\ W(<<y2>>) = <<>>
    BY <1>4
  <2>2. <<y1, y2>> = <<y1>> \o <<y2>>
    BY <1>17 DEF OneByOne
  <2>3. <<y1>> \in Seq(Inst) /\ <<y2>> \in Seq(Inst) /\ <<y1, y2>> \in Seq(Inst)
    BY <1>17 DEF OneByOne
  <2>4. W(<<y1, y2>>) = W(<<y1>>) \o W(<<y2>>)
    BY <2>2, <2>3, WithoutGatesShape
  <2> QED  BY <1>5, <1>16, <2>1, <2>3, <2>4
<1>8. W(c) = W(<<x>>) /\ c \in Seq(Inst)
  <2>1. PICK y1, y2 \in Inst : y1 = x /\ y2 = Syscall(cr) /\ W(<<y2>>) = <<>>
    BY <1>1, <1>4
  <2>2. <<y1, y2>> = <<y1>> \o <<y2>>
    BY <1>17 DEF OneByOne
  <2>3. <<y1>> \in Seq(Inst) /\ <<y2>> \in Seq(Inst) /\ <<y1, y2>> \in Seq(Inst)
    BY <1>17 DEF OneByOne
  <2>4. W(<<y1, y2>>) = W(<<y1>>) \o W(<<y2>>)
    BY <2>2, <2>3, WithoutGatesShape
  <2>5. W(<<y1>>) \in Seq(Inst)
    BY <2>3, WithoutGatesShape
  <2>6. W(<<y1>>) \o <<>> = W(<<y1>>)
    BY <2>5, ConcatEmptySeq
  <2> QED  BY <2>1, <2>3, <2>4, <2>6
<1>9. PICK h, t, b1, b2, b3 :
        /\ h = u \o g /\ t = c \o v
        /\ b1 = [label |-> b.label, insts |-> h]
        /\ b2 = [label |-> n + 1, insts |-> e]
        /\ b3 = [label |-> n + 2, insts |-> t]
        /\ Gate(b, i, n, cr, ce) = <<b1, b2, b3>>
  BY DEF Gate
<1> HIDE DEF s, u, v, x, g, e, c, W
<1>10. \A p, q \in Seq(Inst) : p \o q \in Seq(Inst) /\ W(p) \in Seq(Inst) /\ W(p \o q) = W(p) \o W(q)
  <2>1. \A p, q \in Seq(Inst) : p \o q \in Seq(Inst)
    BY ConcatProperties
  <2>2. \A p, q \in Seq(Inst) : W(p) \in Seq(Inst) /\ W(p \o q) = W(p) \o W(q)
    BY WithoutGatesShape DEF W
  <2> QED  BY <2>1, <2>2
<1>11. h \in Seq(Inst) /\ t \in Seq(Inst)
  BY <1>2, <1>6, <1>8, <1>9, <1>10
<1>12. b1 \in Block /\ b2 \in Block /\ b3 \in Block
  BY <1>1, <1>7, <1>9, <1>11 DEF Block
<1>13. Insts(<<b1, b2, b3>>) = (h \o e) \o t /\ <<b1, b2, b3>> \in Seq(Block)
  <2>1. <<b1, b2>> = <<b1>> \o <<b2>> /\ <<b1, b2, b3>> = <<b1, b2>> \o <<b3>>
    BY <1>12, <1>18 DEF OneByOne
  <2>2. <<b1>> \in Seq(Block) /\ <<b2>> \in Seq(Block) /\ <<b3>> \in Seq(Block)
        /\ <<b1, b2>> \in Seq(Block) /\ <<b1, b2, b3>> \in Seq(Block)
    BY <1>12, <1>18 DEF OneByOne
  <2>3. Insts(<<b1>>) = h /\ Insts(<<b2>>) = e /\ Insts(<<b3>>) = t
    BY <1>9, <1>12, InstsShape
  <2>4. Insts(<<b1, b2>>) = Insts(<<b1>>) \o Insts(<<b2>>)
    BY <2>1, <2>2, InstsShape
  <2>5. Insts(<<b1, b2, b3>>) = Insts(<<b1, b2>>) \o Insts(<<b3>>)
    BY <2>1, <2>2, InstsShape
  <2> QED  BY <2>2, <2>3, <2>4, <2>5
<1>14. W((h \o e) \o t) = (W(u) \o W(<<x>>)) \o W(v)
  <2>1. W(h) = W(u) /\ W(t) = W(<<x>>) \o W(v)
    <3>1. W(h) = W(u) \o nil /\ W(u) \in Seq(Inst)
      BY <1>2, <1>6, <1>9, <1>10
    <3>2. W(u) \o nil = W(u)
      BY <1>16, <3>1, ConcatEmptySeq
    <3>3. W(t) = W(<<x>>) \o W(v)
      BY <1>2, <1>8, <1>9, <1>10
    <3> QED  BY <3>1, <3>2, <3>3
  <2>2. W(h \o e) = W(u)
    <3>1. W(h \o e) = W(u) \o nil /\ W(u) \in Seq(Inst)
      <4>1. W(h \o e) = W(h) \o W(e) /\ W(h) \in Seq(Inst)
        BY <1>7, <1>10, <1>11
      <4> QED  BY <1>7, <2>1, <4>1
    <3> QED  BY <1>16, <3>1, ConcatEmptySeq
  <2>3. h \o e \in Seq(Inst)
    BY <1>7, <1>10, <1>11
  <2>4. W((h \o e) \o t) = W(u) \o (W(<<x>>) \o W(v))
    BY <1>10, <1>11, <2>1, <2>2, <2>3
  <2>5. W(u) \in Seq(Inst) /\ W(<<x>>) \in Seq(Inst) /\ W(v) \in Seq(Inst)
    BY <1>2, <1>10
  <2>6. (W(u) \o W(<<x>>)) \o W(v) = W(u) \o (W(<<x>>) \o W(v))
    BY <2>5, ConcatAssociative
  <2> QED  BY <2>4, <2>6
<1>15. W(s) = (W(u) \o W(<<x>>)) \o W(v)
  <2>1. u \o <<x>> \in Seq(Inst) /\ W(u \o <<x>>) = W(u) \o W(<<x>>)
    BY <1>2, <1>10
  <2> QED  BY <1>2, <1>3, <1>10, <2>1
<1> QED  BY <1>9, <1>13, <1>14, <1>15 DEF s, W

(* Of blocks without a gate nothing is taken out.                           *)
LEMMA NoGatesIn ==
  ASSUME NEW blocks \in Seq(Block),
         \A k \in 1 .. Len(blocks) : \A i \in 1 .. Len(blocks[k].insts) : blocks[k].insts[i].op \notin GateOps
  PROVE  WithoutGates(Insts(blocks)) = Insts(blocks)
<1>0. Len(blocks) \in Nat /\ \A k \in 1 .. Len(blocks) : blocks[k] \in Block
  OBVIOUS
<1>1. \A k \in 1 .. Len(blocks) : WithoutGates(blocks[k].insts) = blocks[k].insts
  <2> TAKE k \in 1 .. Len(blocks)
  <2>1. PICK s : s = blocks[k].insts
    OBVIOUS
  <2>2. s \in Seq(Inst)
    BY <1>0, <2>1 DEF Block
  <2> QED  BY <2>1, <2>2, WithoutNoGates
<1> DEFINE Kept(p) == WithoutGates(Insts(p)) = Insts(p)
           T == { n \in Nat : n <= Len(blocks) => Kept(SubSeq(blocks, 1, n)) }
<1>2. 0 \in T
  <2>1. SubSeq(blocks, 1, 0) = <<>>
    BY SubSeqEmpty
  <2> QED  BY <2>1, WithoutGatesShape, InstsShape
<1>3. ASSUME NEW n \in Nat, n \in T PROVE n + 1 \in T
  <2> SUFFICES ASSUME n + 1 <= Len(blocks) PROVE Kept(SubSeq(blocks, 1, n + 1))
    OBVIOUS
  <2>1. n <= Len(blocks) /\ n + 1 \in 1 .. Len(blocks) /\ 1 \in 1 .. Len(blocks) /\ (n + 1) - 1 = n
    BY <1>0
  <2>2. SubSeq(blocks, 1, n + 1) = SubSeq(blocks, 1, (n + 1) - 1) \o <<blocks[n + 1]>>
    BY <2>1, SubSeqRecursiveSecond
  <2>3. PICK b \in Block : b = blocks[n + 1]
    BY <1>0, <2>1
  <2>4. PICK p, q : p = SubSeq(blocks, 1, n) /\ q = <<b>>
    OBVIOUS
  <2>5. p \in Seq(Block) /\ q \in Seq(Block)
    BY <1>0, <2>1, <2>4
  <2>6. Kept(p)
    BY <1>3, <2>1, <2>4
  <2>7. Insts(q) = b.insts /\ WithoutGates(b.insts) = b.insts
    BY <1>1, <2>1, <2>3, <2>4, InstsShape
  <2>8. PICK x, y \in Seq(Inst) : x = Insts(p) /\ y = Insts(q)
    BY <2>5, InstsShape
  <2>9. Insts(p \o q) = x \o y
    BY <2>5, <2>8, InstsShape
  <2>10. WithoutGates(x \o y) = WithoutGates(x) \o WithoutGates(y)
    BY WithoutGatesShape
  <2>11. WithoutGates(x) = x /\ WithoutGates(y) = y
    BY <2>6, <2>7, <2>8
  <2>12. Kept(p \o q)
    BY <2>9, <2>10, <2>11
  <2>13. SubSeq(blocks, 1, n + 1) = p \o q
    BY <2>1, <2>2, <2>3, <2>4
  <2> HIDE DEF Kept
  <2> QED  BY <2>12, <2>13
<1>4. T \in SUBSET Nat
  OBVIOUS
<1> HIDE DEF T, Kept
<1>5. T = Nat
  BY <1>2, <1>3, <1>4, Induction
<1>6. Kept(SubSeq(blocks, 1, Len(blocks)))
  BY <1>0, <1>5 DEF T
<1>7. SubSeq(blocks, 1, Len(blocks)) = blocks
  BY SubSeqFull
<1> QED  BY <1>6, <1>7 DEF Kept

(* A function as it comes has no gate.                                      *)
LEMMA SourceHasNoGates ==
  ASSUME NEW blocks \in Seq(Block), FromSource(blocks)
  PROVE  \A k \in 1 .. Len(blocks) : \A i \in 1 .. Len(blocks[k].insts) : blocks[k].insts[i].op \notin GateOps
<1> TAKE k \in 1 .. Len(blocks)
<1> TAKE i \in 1 .. Len(blocks[k].insts)
<1>1. k \in DOMAIN blocks /\ blocks[k] \in Block
  OBVIOUS
<1>2. PICK s \in Seq(Inst) : s = blocks[k].insts
  BY <1>1 DEF Block
<1>3. i \in DOMAIN s
  BY <1>2
<1>4. s[i].op \in SourceOps
  BY <1>1, <1>2, <1>3 DEF FromSource
<1> QED  BY <1>2, <1>4 DEF SourceOps, GateOps

(* Putting a gate into a function changes nothing else of it.               *)
LEMMA GateSiteKeepsBody ==
  ASSUME TypeOK, NEW f \in prog.defs, NEW k \in DOMAIN code[f], NEW i \in DOMAIN code[f][k].insts,
         GateSite(f, k, i)
  PROVE  \A g \in Function : WithoutGates(Insts(code'[g])) = WithoutGates(Insts(code[g]))
<1>1. f \in Function /\ code \in [Function -> Seq(Block)] /\ code[f] \in Seq(Block)
  BY ProgramShape DEF TypeOK
<1>2. PICK old : old = code[f]
  OBVIOUS
<1>3. old \in Seq(Block) /\ k \in 1 .. Len(old) /\ old[k] \in Block /\ Len(old) \in Nat
  BY <1>1, <1>2
<1>4. PICK b \in Block : b = old[k]
  BY <1>3
<1>5. b.insts \in Seq(Inst) /\ i \in 1 .. Len(b.insts)
  BY <1>2, <1>4 DEF Block
<1>6. CalleeAt(f, k, i) \in prog.defs /\ prog.section[CalleeAt(f, k, i)] \in Section
      /\ prog.section[f] \in Section /\ prog.exit \in Function
  BY <1>1, ProgramShape DEF GateSite, IsFirst, Unvisited, IsSite, CalleeAt
<1>7. PICK cr \in ConstantsRead(prog.section[f]), ce \in ConstantsRead(prog.section[CalleeAt(f, k, i)]) :
        code' = [code EXCEPT ![f] = SubSeq(old, 1, k - 1) \o Gate(b, i, Len(old), cr, ce)
                                      \o SubSeq(old, k + 1, Len(old))]
  BY <1>2, <1>4 DEF GateSite
<1>8. cr \in Tag /\ ce \in Tag
  BY <1>6, Constants
<1>9. PICK g : g = Gate(b, i, Len(old), cr, ce)
  OBVIOUS
<1>10. g \in Seq(Block) /\ WithoutGates(Insts(g)) = WithoutGates(b.insts)
  BY <1>3, <1>5, <1>6, <1>8, <1>9, GateKeepsBody
<1>11. PICK u, v \in Seq(Block) : u = SubSeq(old, 1, k - 1) /\ v = SubSeq(old, k + 1, Len(old))
  <2>1. SubSeq(old, 1, k - 1) \in Seq(Block)
    BY <1>3
  <2>2. SubSeq(old, k + 1, Len(old)) \in Seq(Block)
    BY <1>3
  <2> QED  BY <2>1, <2>2
<1>12. old = (u \o <<b>>) \o v
  <2>1. /\ 1 \in 1 .. Len(old) /\ k \in 1 .. Len(old)
        /\ 1 \in 1 .. Len(old) + 1 /\ k \in 1 - 1 .. Len(old) /\ Len(old) \in k .. Len(old)
    BY <1>3
  <2>2. SubSeq(old, 1, k) = u \o <<b>>
    BY <1>3, <1>4, <1>11, <2>1, SubSeqRecursiveSecond
  <2>3. SubSeq(old, 1, k) \o SubSeq(old, k + 1, Len(old)) = SubSeq(old, 1, Len(old))
    BY <1>3, <2>1, ConcatAdjacentSubSeq
  <2>4. SubSeq(old, 1, Len(old)) = old
    BY <1>3, SubSeqFull
  <2> QED  BY <1>11, <2>2, <2>3, <2>4
<1>13. code' = [code EXCEPT ![f] = (u \o g) \o v]
  BY <1>7, <1>9, <1>11
<1> DEFINE W(p) == WithoutGates(Insts(p))
<1>14. \A p, q \in Seq(Block) : p \o q \in Seq(Block) /\ W(p) \in Seq(Inst) /\ W(p \o q) = W(p) \o W(q)
  <2> TAKE p, q \in Seq(Block)
  <2>1. PICK x, y \in Seq(Inst) : x = Insts(p) /\ y = Insts(q)
    BY InstsShape
  <2>2. Insts(p \o q) = x \o y
    BY <2>1, InstsShape
  <2>3. WithoutGates(x) \in Seq(Inst) /\ WithoutGates(x \o y) = WithoutGates(x) \o WithoutGates(y)
    BY WithoutGatesShape
  <2>4. p \o q \in Seq(Block)
    BY ConcatProperties
  <2> QED  BY <2>1, <2>2, <2>3, <2>4
<1>15. PICK m \in Seq(Block) : m = <<b>>
  <2>1. <<b>> \in Seq(Block)
    OBVIOUS
  <2> QED  BY <2>1
<1>16. W(m) = W(g)
  BY <1>10, <1>15, InstsShape
<1> HIDE DEF W
<1>17. W((u \o g) \o v) = W((u \o m) \o v)
  <2>1. W(u \o g) = W(u) \o W(g) /\ u \o g \in Seq(Block)
    BY <1>10, <1>14
  <2>2. W(u \o m) = W(u) \o W(m) /\ u \o m \in Seq(Block)
    BY <1>14
  <2>3. W((u \o g) \o v) = W(u \o g) \o W(v)
    BY <1>14, <2>1
  <2>4. W((u \o m) \o v) = W(u \o m) \o W(v)
    BY <1>14, <2>2
  <2> QED  BY <1>16, <2>1, <2>2, <2>3, <2>4
<1>18. W(code'[f]) = W(code[f])
  <2>1. code'[f] = (u \o g) \o v
    BY <1>1, <1>13
  <2> QED  BY <1>2, <1>12, <1>15, <1>17, <2>1
<1>19. \A h \in Function \ {f} : code'[h] = code[h]
  BY <1>1, <1>13
<1>20. \A h \in Function : W(code'[h]) = W(code[h])
  BY <1>18, <1>19
<1> QED  BY <1>20 DEF W

(* However many gates cut the blocks of a function and each other, taking   *)
(* them out gives the function back: no call is lost, doubled or moved.     *)
THEOREM BodyAlwaysKept == Spec => []BodyKept
<1>1. Init => BodyKept
  <2> SUFFICES ASSUME Init, NEW f \in Function
               PROVE  WithoutGates(Insts(code[f])) = Insts(prog.code[f])
    BY DEF BodyKept
  <2>1. prog.code[f] \in Seq(Block) /\ FromSource(prog.code[f])
    BY TypeInit, ProgramShape
  <2>2. WithoutGates(Insts(prog.code[f])) = Insts(prog.code[f])
    <3>1. PICK blocks \in Seq(Block) : blocks = prog.code[f] /\ FromSource(blocks)
      BY <2>1
    <3>2. WithoutGates(Insts(blocks)) = Insts(blocks)
      BY <3>1, SourceHasNoGates, NoGatesIn
    <3> QED  BY <3>1, <3>2
  <2> QED  BY <2>2 DEF Init
<1>2. TypeOK /\ BodyKept /\ [Next]_vars => BodyKept'
  <2> SUFFICES ASSUME TypeOK, BodyKept, [Next]_vars PROVE BodyKept'
    OBVIOUS
  <2>1. prog' = prog
    BY DEF Next, SkipSite, GateSite, CrashOnUntagged, Finish, Stopped, vars
  <2>2. \A g \in Function : WithoutGates(Insts(code'[g])) = WithoutGates(Insts(code[g]))
    <3>1. CASE code' = code
      BY <3>1
    <3>2. CASE \E f \in prog.defs : \E k \in DOMAIN code[f] : \E i \in DOMAIN code[f][k].insts :
                 GateSite(f, k, i)
      BY <3>2, GateSiteKeepsBody
    <3> QED  BY <3>1, <3>2 DEF Next, SkipSite, CrashOnUntagged, Finish, Stopped, vars
  <2>3. \A g \in Function : WithoutGates(Insts(code'[g])) = Insts(prog'.code[g])
    BY <2>1, <2>2 DEF BodyKept
  <2> QED  BY <2>3 DEF BodyKept, Insts, WithoutGates
<1> QED  BY <1>1, <1>2, TypeCorrect, PTL DEF Spec

-----------------------------------------------------------------------------
(* What is still to come from a place in the blocks of a function, and what *)
(* a gate makes of it.                                                      *)

(* The end of a sequence from one of its places.                            *)
LEMMA FromShape ==
  ASSUME NEW S, NEW s \in Seq(S), NEW k \in 1 .. Len(s) + 1
  PROVE  /\ From(s, k) \in Seq(S) /\ Len(From(s, k)) = Len(s) - k + 1
         /\ \A m \in 1 .. Len(s) - k + 1 : From(s, k)[m] = s[k + m - 1]
         /\ k <= Len(s) => From(s, k) = <<s[k]>> \o From(s, k + 1)
         /\ k = Len(s) + 1 => From(s, k) = <<>>
         /\ k = 1 => From(s, k) = s
<1>1. Len(s) \in Nat /\ k \in Nat /\ k >= 1 /\ k <= Len(s) + 1
  OBVIOUS
<1>2. \A i \in k .. Len(s) : s[i] \in S
  <2> TAKE i \in k .. Len(s)
  <2>1. i \in 1 .. Len(s)
    BY <1>1
  <2> QED  BY <2>1
<1>3. /\ From(s, k) \in Seq(S) /\ Len(From(s, k)) = IF k <= Len(s) THEN Len(s) - k + 1 ELSE 0
      /\ \A m \in 1 .. Len(s) - k + 1 : From(s, k)[m] = s[k + m - 1]
  BY <1>1, <1>2, SubSeqProperties DEF From
<1>4. (IF k <= Len(s) THEN Len(s) - k + 1 ELSE 0) = Len(s) - k + 1
  BY <1>1
<1>5. ASSUME k <= Len(s) PROVE From(s, k) = <<s[k]>> \o From(s, k + 1)
  <2>1. k \in 1 .. Len(s) /\ Len(s) \in k .. Len(s)
    BY <1>1, <1>5
  <2> QED  BY <2>1, SubSeqRecursiveFirst DEF From
<1>6. ASSUME k = Len(s) + 1 PROVE From(s, k) = <<>>
  <2>1. Len(s) < k /\ k \in Int /\ Len(s) \in Int
    BY <1>1, <1>6
  <2> QED  BY <2>1, SubSeqEmpty DEF From
<1>7. ASSUME k = 1 PROVE From(s, k) = s
  BY <1>7, SubSeqFull DEF From
<1> QED  BY <1>3, <1>4, <1>5, <1>6, <1>7

(* The text that is still to come from instruction i of block k, and from   *)
(* block k.                                                                 *)
TextAt(blocks, k, i) == WithoutGates(From(blocks[k].insts, i) \o Insts(From(blocks, k + 1)))

Rest(blocks, k) == WithoutGates(Insts(From(blocks, k)))

(* Three sequences put together.                                            *)
Regroups(p, q, r) == (p \o q) \o r = p \o (q \o r)

(* It does not matter in which order.                                       *)
LEMMA Regrouped == \A p, q, r \in Seq(Inst) : Regroups(p, q, r)
<1> TAKE p, q, r \in Seq(Inst)
<1> QED  BY ConcatAssociative DEF Regroups

(* It is the instruction's own, if it is no gate's, and what comes then.    *)
LEMMA TextSteps ==
  ASSUME NEW blocks \in Seq(Block), NEW k \in 1 .. Len(blocks)
  PROVE  LET s == blocks[k].insts
         IN  /\ \A i \in 1 .. Len(s) + 1 :
                  /\ TextAt(blocks, k, i) = WithoutGates(From(s, i)) \o Rest(blocks, k + 1)
                  /\ TextAt(blocks, k, i) \in Seq(Inst)
             /\ \A i \in 1 .. Len(s) :
                  TextAt(blocks, k, i) = IF s[i].op \in GateOps THEN TextAt(blocks, k, i + 1)
                                         ELSE <<s[i]>> \o TextAt(blocks, k, i + 1)
             /\ TextAt(blocks, k, Len(s) + 1) = Rest(blocks, k + 1)
             /\ TextAt(blocks, k, 1) = Rest(blocks, k)
<1> DEFINE W(p) == WithoutGates(p)
<1>1. PICK b \in Block : b = blocks[k]
  OBVIOUS
<1>2. PICK s : s = b.insts
  OBVIOUS
<1>3. s \in Seq(Inst) /\ Len(s) \in Nat
  <2>1. s \in Seq(Inst)
    BY <1>2 DEF Block
  <2> QED  BY <2>1
<1>4. /\ From(blocks, k + 1) \in Seq(Block) /\ From(blocks, k) \in Seq(Block)
      /\ From(blocks, k) = <<b>> \o From(blocks, k + 1)
  <2>1. k \in 1 .. Len(blocks) + 1 /\ k + 1 \in 1 .. Len(blocks) + 1 /\ k <= Len(blocks)
    OBVIOUS
  <2>2. From(blocks, k + 1) \in Seq(Block)
    BY <2>1, FromShape
  <2>3. /\ From(blocks, k) \in Seq(Block)
        /\ k <= Len(blocks) => From(blocks, k) = <<blocks[k]>> \o From(blocks, k + 1)
    BY <2>1, FromShape
  <2> QED  BY <1>1, <2>1, <2>2, <2>3
<1>5. PICK r \in Seq(Inst) : r = Insts(From(blocks, k + 1))
  BY <1>4, InstsShape
<1>6. W(r) = Rest(blocks, k + 1) /\ W(r) \in Seq(Inst)
  BY <1>5, WithoutGatesShape DEF Rest
<1>7. \A p, q \in Seq(Inst) : W(p) \in Seq(Inst) /\ W(p \o q) = W(p) \o W(q)
  BY WithoutGatesShape
<1>8. \A i \in 1 .. Len(s) + 1 : From(s, i) \in Seq(Inst) /\ TextAt(blocks, k, i) = W(From(s, i) \o r)
  <2> TAKE i \in 1 .. Len(s) + 1
  <2>1. From(s, i) \in Seq(Inst)
    BY <1>3, FromShape
  <2> QED  BY <1>1, <1>2, <1>5, <2>1 DEF TextAt
<1> HIDE DEF W
<1>9. \A i \in 1 .. Len(s) + 1 : /\ TextAt(blocks, k, i) = W(From(s, i)) \o W(r)
                                 /\ TextAt(blocks, k, i) \in Seq(Inst)
  <2> TAKE i \in 1 .. Len(s) + 1
  <2>1. TextAt(blocks, k, i) = W(From(s, i)) \o W(r)
    BY <1>7, <1>8
  <2>2. W(From(s, i)) \in Seq(Inst)
    BY <1>7, <1>8
  <2> QED  BY <1>6, <2>1, <2>2, ConcatProperties
<1>10. \A i \in 1 .. Len(s) :
         TextAt(blocks, k, i) = IF s[i].op \in GateOps THEN TextAt(blocks, k, i + 1)
                                ELSE <<s[i]>> \o TextAt(blocks, k, i + 1)
  <2> TAKE i \in 1 .. Len(s)
  <2>1. i \in 1 .. Len(s) + 1 /\ i + 1 \in 1 .. Len(s) + 1 /\ i <= Len(s)
    BY <1>3
  <2>2. PICK x \in Inst : x = s[i]
    BY <1>3
  <2>3. PICK p, q \in Seq(Inst) : p = <<x>> /\ q = From(s, i + 1)
    <3>1. <<x>> \in Seq(Inst)
      OBVIOUS
    <3> QED  BY <1>8, <2>1, <3>1
  <2>4. From(s, i) = p \o q
    <3>1. i <= Len(s) => From(s, i) = <<s[i]>> \o From(s, i + 1)
      BY <1>3, <2>1, FromShape
    <3> QED  BY <2>1, <2>2, <2>3, <3>1
  <2>5. W(From(s, i)) = W(p) \o W(q)
    BY <1>7, <2>4
  <2>6. TextAt(blocks, k, i) = (W(p) \o W(q)) \o W(r)
    BY <1>9, <2>1, <2>5
  <2>7. TextAt(blocks, k, i + 1) = W(q) \o W(r) /\ TextAt(blocks, k, i + 1) \in Seq(Inst)
    BY <1>9, <2>1, <2>3
  <2>8. TextAt(blocks, k, i) = W(p) \o TextAt(blocks, k, i + 1)
    <3>1. W(p) \in Seq(Inst) /\ W(q) \in Seq(Inst)
      BY <1>7
    <3>2. Regroups(W(p), W(q), W(r))
      BY <1>6, <3>1, Regrouped, Zenon
    <3> QED  BY <2>6, <2>7, <3>2 DEF Regroups
  <2>9. PICK u \in Seq(Inst) : u = TextAt(blocks, k, i + 1)
    BY <2>7
  <2>10. CASE x.op \in GateOps
    <3>1. W(p) = <<>>
      BY <2>3, <2>10, WithoutGatesShape DEF W
    <3>2. <<>> \o u = u
      BY ConcatEmptySeq
    <3> QED  BY <2>2, <2>8, <2>9, <2>10, <3>1, <3>2
  <2>11. CASE x.op \notin GateOps
    <3>1. W(p) = p
      BY <2>3, <2>11, WithoutGatesShape DEF W
    <3> QED  BY <2>2, <2>3, <2>8, <2>11, <3>1
  <2> QED  BY <2>10, <2>11
<1>11. TextAt(blocks, k, Len(s) + 1) = Rest(blocks, k + 1)
  <2>1. Len(s) + 1 \in 1 .. Len(s) + 1
    BY <1>3
  <2>2. From(s, Len(s) + 1) = <<>>
    BY <1>3, <2>1, FromShape
  <2>3. <<>> \o r = r
    BY ConcatEmptySeq
  <2>4. TextAt(blocks, k, Len(s) + 1) = W(<<>> \o r)
    BY <1>8, <2>1, <2>2
  <2> QED  BY <1>6, <2>3, <2>4
<1>12. TextAt(blocks, k, 1) = Rest(blocks, k)
  <2>1. 1 \in 1 .. Len(s) + 1
    BY <1>3
  <2>2. From(s, 1) = s
    BY <1>3, <2>1, FromShape
  <2>3. PICK p, q \in Seq(Block) : p = <<b>> /\ q = From(blocks, k + 1)
    <3>1. <<b>> \in Seq(Block)
      OBVIOUS
    <3> QED  BY <1>4, <3>1
  <2>4. Insts(p \o q) = Insts(p) \o Insts(q) /\ Insts(p) = s
    BY <1>2, <2>3, InstsShape
  <2>5. Insts(From(blocks, k)) = s \o r
    BY <1>4, <1>5, <2>3, <2>4
  <2> QED  BY <1>8, <2>1, <2>2, <2>5 DEF Rest, W
<1> QED  BY <1>1, <1>2, <1>6, <1>9, <1>10, <1>11, <1>12 DEF W

(* The block at c of old is replaced by the blocks of a gate of its i-th    *)
(* instruction.                                                             *)
Cuts(new, old, c, i) ==
  /\ new \in Seq(Block) /\ old \in Seq(Block) /\ c \in 1 .. Len(old)
  /\ i \in 1 .. Len(old[c].insts)
  /\ \E h, e, t \in Seq(Inst), cr, ce \in Tag :
       /\ IsHead(h, old[c].insts, i, Len(old), ce) /\ IsExit(e, Len(old))
       /\ IsTail(t, old[c].insts, i, cr)
       /\ Replaces(new, old, c, << [label |-> old[c].label, insts |-> h],
                                   [label |-> Len(old) + 1, insts |-> e],
                                   [label |-> Len(old) + 2, insts |-> t] >>)

(* What is where then.                                                      *)
CutShape(new, old, n, c, i, s, h, e, t) ==
  /\ new \in Seq(Block) /\ old \in Seq(Block) /\ n = Len(old) /\ n \in Nat /\ Len(new) = n + 2
  /\ c \in Nat /\ 1 <= c /\ c <= n
  /\ s = old[c].insts /\ s \in Seq(Inst) /\ i \in Nat /\ 1 <= i /\ i <= Len(s) /\ Len(s) \in Nat
  /\ h \in Seq(Inst) /\ e \in Seq(Inst) /\ t \in Seq(Inst)
  /\ new[c].label = old[c].label /\ new[c].insts = h
  /\ new[c + 1].label = n + 1 /\ new[c + 1].insts = e
  /\ new[c + 2].label = n + 2 /\ new[c + 2].insts = t
  /\ \A j \in 1 .. c - 1 : new[j] = old[j]
  /\ \A j \in c + 1 .. n : new[j + 2] = old[j]
  /\ Len(h) = i + 2 /\ \A j \in 1 .. i - 1 : h[j] = s[j]
  /\ h[i].op = "syscall" /\ h[i + 1].op = "cmp" /\ h[i + 2] = Check(n + 1, n + 2)
  /\ Len(e) = 2 /\ e[1].op = "exit" /\ e[2].op = "resume"
  /\ Len(t) = Len(s) - i + 2 /\ t[1] = s[i] /\ t[2].op = "syscall"
  /\ \A j \in 3 .. Len(s) - i + 2 : t[j] = s[j + i - 2]

(* So it is.                                                                *)
LEMMA CutsAre ==
  ASSUME NEW new, NEW old, NEW c, NEW i, Cuts(new, old, c, i)
  PROVE  \E h, e, t : CutShape(new, old, Len(old), c, i, old[c].insts, h, e, t)
<1>1. PICK n, s, l : n = Len(old) /\ s = old[c].insts /\ l = old[c].label
  OBVIOUS
<1>2. PICK h, e, t \in Seq(Inst), cr, ce \in Tag :
        /\ IsHead(h, s, i, n, ce) /\ IsExit(e, n) /\ IsTail(t, s, i, cr)
        /\ Replaces(new, old, c, << [label |-> l, insts |-> h],
                                    [label |-> n + 1, insts |-> e],
                                    [label |-> n + 2, insts |-> t] >>)
  BY <1>1 DEF Cuts
<1>3. new \in Seq(Block) /\ old \in Seq(Block) /\ c \in 1 .. Len(old) /\ i \in 1 .. Len(s)
  BY <1>1 DEF Cuts
<1>4. n \in Nat /\ c \in Nat /\ 1 <= c /\ c <= n
  BY <1>1, <1>3
<1>5. s \in Seq(Inst)
  <2>1. old[c] \in Block
    BY <1>3
  <2> QED  BY <1>1, <2>1 DEF Block
<1>6. i \in Nat /\ 1 <= i /\ i <= Len(s) /\ Len(s) \in Nat
  BY <1>3, <1>5
<1>7. /\ Len(new) = n + 2
      /\ new[c].label = l /\ new[c].insts = h
      /\ new[c + 1].label = n + 1 /\ new[c + 1].insts = e
      /\ new[c + 2].label = n + 2 /\ new[c + 2].insts = t
      /\ \A j \in 1 .. c - 1 : new[j] = old[j]
      /\ \A j \in c + 1 .. n : new[j + 2] = old[j]
  BY <1>1, <1>2 DEF Replaces
<1>8. /\ Len(h) = i + 2 /\ \A j \in 1 .. i - 1 : h[j] = s[j]
      /\ h[i].op = "syscall" /\ h[i + 1].op = "cmp" /\ h[i + 2] = Check(n + 1, n + 2)
  BY <1>2, Instructions DEF IsHead
<1>9. Len(e) = 2 /\ e[1].op = "exit" /\ e[2].op = "resume"
  BY <1>2, Instructions DEF IsExit
<1>10. /\ Len(t) = Len(s) - i + 2 /\ t[1] = s[i] /\ t[2].op = "syscall"
       /\ \A j \in 3 .. Len(s) - i + 2 : t[j] = s[j + i - 2]
  BY <1>2, Instructions DEF IsTail
<1>11. CutShape(new, old, n, c, i, s, h, e, t)
  BY <1>1, <1>2, <1>3, <1>4, <1>5, <1>6, <1>7, <1>8, <1>9, <1>10 DEF CutShape
<1> QED  BY <1>1, <1>11

(* What comes behind the gate is what came behind its call.                 *)
LEMMA TextBehind ==
  ASSUME NEW new, NEW old, NEW n, NEW c, NEW i, NEW s, NEW h, NEW e, NEW t,
         CutShape(new, old, n, c, i, s, h, e, t)
  PROVE  /\ \A j \in c + 1 .. n + 1 : Rest(new, j + 2) = Rest(old, j)
         /\ \A j \in c + 1 .. n : \A a : TextAt(new, j + 2, a) = TextAt(old, j, a)
         /\ \A a \in 3 .. Len(t) + 1 : TextAt(new, c + 2, a) = TextAt(old, c, a + i - 2)
<1>1. ASSUME NEW j \in c + 1 .. n + 1 PROVE From(new, j + 2) = From(old, j)
  <2>1. /\ new \in Seq(Block) /\ old \in Seq(Block) /\ Len(new) = n + 2 /\ Len(old) = n
        /\ n \in Nat /\ c \in Nat /\ 1 <= c /\ c <= n
    BY DEF CutShape
  <2>2. j \in 1 .. Len(old) + 1 /\ j + 2 \in 1 .. Len(new) + 1 /\ j \in Nat
    BY <2>1
  <2>3. /\ From(old, j) \in Seq(Block) /\ Len(From(old, j)) = Len(old) - j + 1
        /\ \A m \in 1 .. Len(old) - j + 1 : From(old, j)[m] = old[j + m - 1]
    BY <2>1, <2>2, FromShape
  <2>4. /\ From(new, j + 2) \in Seq(Block) /\ Len(From(new, j + 2)) = Len(new) - (j + 2) + 1
        /\ \A m \in 1 .. Len(new) - (j + 2) + 1 : From(new, j + 2)[m] = new[(j + 2) + m - 1]
    BY <2>1, <2>2, FromShape
  <2>5. PICK p, q : p = From(old, j) /\ q = From(new, j + 2)
    OBVIOUS
  <2>6. Len(p) = n - j + 1 /\ Len(q) = n - j + 1
    BY <2>1, <2>2, <2>3, <2>4, <2>5
  <2>7. \A m \in 1 .. n - j + 1 : p[m] = q[m]
    <3> TAKE m \in 1 .. n - j + 1
    <3>1. m \in 1 .. Len(old) - j + 1 /\ m \in 1 .. Len(new) - (j + 2) + 1
      BY <2>1, <2>2
    <3>2. (j + 2) + m - 1 = (j + m - 1) + 2 /\ j + m - 1 \in c + 1 .. n
      BY <2>1, <2>2
    <3>3. new[(j + m - 1) + 2] = old[j + m - 1]
      BY <3>2 DEF CutShape
    <3>4. p[m] = old[j + m - 1] /\ q[m] = new[(j + 2) + m - 1]
      BY <2>3, <2>4, <2>5, <3>1
    <3> QED  BY <3>2, <3>3, <3>4
  <2> QED  BY <2>3, <2>4, <2>5, <2>6, <2>7, SeqEqual
<1>2. \A j \in c + 1 .. n + 1 : Rest(new, j + 2) = Rest(old, j)
  BY <1>1 DEF Rest
<1>3. ASSUME NEW j \in c + 1 .. n, NEW a PROVE TextAt(new, j + 2, a) = TextAt(old, j, a)
  <2>1. j + 1 \in c + 1 .. n + 1 /\ (j + 1) + 2 = (j + 2) + 1
    BY DEF CutShape
  <2>2. From(new, (j + 2) + 1) = From(old, j + 1)
    BY <1>1, <2>1
  <2>3. new[j + 2] = old[j]
    BY DEF CutShape
  <2> QED  BY <2>2, <2>3 DEF TextAt
<1>4. ASSUME NEW a \in 3 .. Len(t) + 1 PROVE TextAt(new, c + 2, a) = TextAt(old, c, a + i - 2)
  <2>1. /\ s \in Seq(Inst) /\ t \in Seq(Inst) /\ Len(t) = Len(s) - i + 2 /\ Len(s) \in Nat
        /\ i \in Nat /\ 1 <= i /\ i <= Len(s) /\ n \in Nat /\ c \in Nat /\ 1 <= c /\ c <= n
    BY DEF CutShape
  <2>2. a \in 1 .. Len(t) + 1 /\ a + i - 2 \in 1 .. Len(s) + 1 /\ a \in Nat
    BY <2>1
  <2>3. /\ From(t, a) \in Seq(Inst) /\ Len(From(t, a)) = Len(t) - a + 1
        /\ \A m \in 1 .. Len(t) - a + 1 : From(t, a)[m] = t[a + m - 1]
    BY <2>1, <2>2, FromShape
  <2>4. PICK b : b = a + i - 2
    OBVIOUS
  <2>5. b \in 1 .. Len(s) + 1
    BY <2>2, <2>4
  <2>6. /\ From(s, b) \in Seq(Inst) /\ Len(From(s, b)) = Len(s) - b + 1
        /\ \A m \in 1 .. Len(s) - b + 1 : From(s, b)[m] = s[b + m - 1]
    BY <2>1, <2>5, FromShape
  <2>7. PICK p, q : p = From(t, a) /\ q = From(s, b)
    OBVIOUS
  <2>8. Len(p) = Len(t) - a + 1 /\ Len(q) = Len(t) - a + 1
    BY <2>1, <2>2, <2>3, <2>4, <2>6, <2>7
  <2>9. \A m \in 1 .. Len(t) - a + 1 : p[m] = q[m]
    <3> TAKE m \in 1 .. Len(t) - a + 1
    <3>1. m \in 1 .. Len(s) - b + 1
      BY <2>1, <2>2, <2>4
    <3>2. a + m - 1 \in 3 .. Len(s) - i + 2 /\ (a + m - 1) + i - 2 = b + m - 1
      BY <2>1, <2>2, <2>4
    <3>3. t[a + m - 1] = s[(a + m - 1) + i - 2]
      BY <3>2 DEF CutShape
    <3>4. p[m] = t[a + m - 1] /\ q[m] = s[b + m - 1]
      BY <2>3, <2>6, <2>7, <3>1
    <3> QED  BY <3>2, <3>3, <3>4
  <2>10. p = q
    BY <2>3, <2>6, <2>7, <2>8, <2>9, SeqEqual
  <2>11. c + 1 \in c + 1 .. n + 1 /\ (c + 1) + 2 = (c + 2) + 1
    BY <2>1
  <2>12. From(new, (c + 2) + 1) = From(old, c + 1)
    BY <1>1, <2>11
  <2>13. new[c + 2].insts = t /\ old[c].insts = s
    BY DEF CutShape
  <2> QED  BY <2>4, <2>7, <2>10, <2>12, <2>13 DEF TextAt
<1> QED  BY <1>2, <1>3, <1>4

(* From each part of the gate on, it is what came from the call on.         *)
LEMMA TextInGate ==
  ASSUME NEW new, NEW old, NEW n, NEW c, NEW i, NEW s, NEW h, NEW e, NEW t,
         CutShape(new, old, n, c, i, s, h, e, t)
  PROVE  LET y == TextAt(old, c, i)
         IN  /\ TextAt(new, c, i) = y /\ TextAt(new, c, i + 1) = y /\ TextAt(new, c, i + 2) = y
             /\ TextAt(new, c + 1, 1) = y /\ TextAt(new, c + 1, 2) = y /\ TextAt(new, c + 2, 1) = y
<1>1. /\ new \in Seq(Block) /\ old \in Seq(Block) /\ Len(new) = n + 2 /\ Len(old) = n
      /\ n \in Nat /\ c \in Nat /\ 1 <= c /\ c <= n
      /\ s \in Seq(Inst) /\ Len(s) \in Nat /\ i \in Nat /\ 1 <= i /\ i <= Len(s)
      /\ old[c].insts = s /\ new[c].insts = h /\ new[c + 1].insts = e /\ new[c + 2].insts = t
  BY DEF CutShape
<1>2. /\ Len(h) = i + 2 /\ h[i].op \in GateOps /\ h[i + 1].op \in GateOps /\ h[i + 2].op \in GateOps
      /\ Len(e) = 2 /\ e[1].op \in GateOps /\ e[2].op \in GateOps
      /\ Len(t) = Len(s) - i + 2 /\ t[1] = s[i] /\ t[2].op \in GateOps
  BY Instructions DEF CutShape, GateOps
<1>3. /\ c \in 1 .. Len(new) /\ c + 1 \in 1 .. Len(new) /\ c + 2 \in 1 .. Len(new) /\ c \in 1 .. Len(old)
      /\ (c + 1) + 1 = c + 2
  BY <1>1
<1>4. /\ i \in 1 .. Len(h) /\ i + 1 \in 1 .. Len(h) /\ i + 2 \in 1 .. Len(h)
      /\ (i + 1) + 1 = i + 2 /\ (i + 2) + 1 = Len(h) + 1
      /\ 1 \in 1 .. Len(e) /\ 2 \in 1 .. Len(e) /\ 1 + 1 = 2 /\ 2 + 1 = Len(e) + 1
      /\ 1 \in 1 .. Len(t) /\ 2 \in 1 .. Len(t) /\ 2 + 1 = 3 /\ 3 \in 3 .. Len(t) + 1
      /\ i \in 1 .. Len(s) /\ 3 + i - 2 = i + 1
  <2>1. ASSUME NEW lh, NEW le, NEW lt, NEW ls, lh = i + 2, le = 2, ls \in Nat, i <= ls, lt = ls - i + 2,
               i \in Nat, 1 <= i
        PROVE  /\ i \in 1 .. lh /\ i + 1 \in 1 .. lh /\ i + 2 \in 1 .. lh
               /\ (i + 1) + 1 = i + 2 /\ (i + 2) + 1 = lh + 1
               /\ 1 \in 1 .. le /\ 2 \in 1 .. le /\ 1 + 1 = 2 /\ 2 + 1 = le + 1
               /\ 1 \in 1 .. lt /\ 2 \in 1 .. lt /\ 2 + 1 = 3 /\ 3 \in 3 .. lt + 1
               /\ i \in 1 .. ls /\ 3 + i - 2 = i + 1
    BY <2>1
  <2> QED  BY <1>1, <1>2, <2>1
<1>5. \A k \in {c, c + 1, c + 2} :
        /\ \A a \in 1 .. Len(new[k].insts) : new[k].insts[a].op \in GateOps =>
              TextAt(new, k, a) = TextAt(new, k, a + 1)
        /\ TextAt(new, k, Len(new[k].insts) + 1) = Rest(new, k + 1)
        /\ TextAt(new, k, 1) = Rest(new, k)
  <2> TAKE k \in {c, c + 1, c + 2}
  <2>1. k \in 1 .. Len(new)
    BY <1>3
  <2>2. \A a \in 1 .. Len(new[k].insts) :
          TextAt(new, k, a) = IF new[k].insts[a].op \in GateOps THEN TextAt(new, k, a + 1)
                              ELSE <<new[k].insts[a]>> \o TextAt(new, k, a + 1)
    BY <1>1, <2>1, TextSteps
  <2>3. TextAt(new, k, Len(new[k].insts) + 1) = Rest(new, k + 1) /\ TextAt(new, k, 1) = Rest(new, k)
    BY <1>1, <2>1, TextSteps
  <2> QED  BY <2>2, <2>3
<1>6. /\ TextAt(new, c, i) = TextAt(new, c, i + 1) /\ TextAt(new, c, i + 1) = TextAt(new, c, i + 2)
      /\ TextAt(new, c, i + 2) = TextAt(new, c, Len(h) + 1) /\ TextAt(new, c, Len(h) + 1) = Rest(new, c + 1)
  BY <1>1, <1>2, <1>4, <1>5
<1>7. /\ TextAt(new, c + 1, 1) = Rest(new, c + 1) /\ TextAt(new, c + 1, 1) = TextAt(new, c + 1, 2)
      /\ TextAt(new, c + 1, 2) = TextAt(new, c + 1, Len(e) + 1)
      /\ TextAt(new, c + 1, Len(e) + 1) = Rest(new, c + 2)
      /\ TextAt(new, c + 2, 1) = Rest(new, c + 2)
  BY <1>1, <1>2, <1>3, <1>4, <1>5
<1>8. TextAt(new, c + 2, 2) = TextAt(old, c, i + 1)
  <2>1. TextAt(new, c + 2, 2) = TextAt(new, c + 2, 3)
    BY <1>1, <1>2, <1>4, <1>5
  <2>2. TextAt(new, c + 2, 3) = TextAt(old, c, 3 + i - 2)
    BY <1>4, TextBehind
  <2> QED  BY <1>4, <2>1, <2>2
<1>9. TextAt(new, c + 2, 1) = TextAt(old, c, i)
  <2>1. \A a \in 1 .. Len(t) :
          TextAt(new, c + 2, a) = IF t[a].op \in GateOps THEN TextAt(new, c + 2, a + 1)
                                  ELSE <<t[a]>> \o TextAt(new, c + 2, a + 1)
    <3>1. \A a \in 1 .. Len(new[c + 2].insts) :
            TextAt(new, c + 2, a) = IF new[c + 2].insts[a].op \in GateOps THEN TextAt(new, c + 2, a + 1)
                                    ELSE <<new[c + 2].insts[a]>> \o TextAt(new, c + 2, a + 1)
      BY <1>1, <1>3, TextSteps
    <3> QED  BY <1>1, <3>1
  <2>2. \A a \in 1 .. Len(s) :
          TextAt(old, c, a) = IF s[a].op \in GateOps THEN TextAt(old, c, a + 1)
                              ELSE <<s[a]>> \o TextAt(old, c, a + 1)
    <3>1. \A a \in 1 .. Len(old[c].insts) :
            TextAt(old, c, a) = IF old[c].insts[a].op \in GateOps THEN TextAt(old, c, a + 1)
                                ELSE <<old[c].insts[a]>> \o TextAt(old, c, a + 1)
      BY <1>1, <1>3, TextSteps
    <3> QED  BY <1>1, <3>1
  <2>3. TextAt(new, c + 2, 1) = IF t[1].op \in GateOps THEN TextAt(new, c + 2, 1 + 1)
                                ELSE <<t[1]>> \o TextAt(new, c + 2, 1 + 1)
    BY <1>4, <2>1
  <2>4. TextAt(old, c, i) = IF s[i].op \in GateOps THEN TextAt(old, c, i + 1)
                            ELSE <<s[i]>> \o TextAt(old, c, i + 1)
    BY <1>4, <2>2
  <2> QED  BY <1>2, <1>4, <1>8, <2>3, <2>4
<1> QED  BY <1>6, <1>7, <1>9

(* And in front of the gate it is what it was.                              *)
LEMMA TextInFront ==
  ASSUME NEW new, NEW old, NEW n, NEW c, NEW i, NEW s, NEW h, NEW e, NEW t,
         CutShape(new, old, n, c, i, s, h, e, t)
  PROVE  /\ \A a \in 1 .. i : TextAt(new, c, a) = TextAt(old, c, a)
         /\ \A j \in 1 .. c : Rest(new, j) = Rest(old, j)
         /\ \A j \in 1 .. c - 1 : \A a \in 1 .. Len(old[j].insts) + 1 : TextAt(new, j, a) = TextAt(old, j, a)
<1>1. /\ new \in Seq(Block) /\ old \in Seq(Block) /\ Len(new) = n + 2 /\ Len(old) = n
      /\ n \in Nat /\ c \in Nat /\ 1 <= c /\ c <= n
      /\ s \in Seq(Inst) /\ Len(s) \in Nat /\ i \in Nat /\ 1 <= i /\ i <= Len(s)
      /\ old[c].insts = s /\ new[c].insts = h /\ Len(h) = i + 2 /\ \A j \in 1 .. i - 1 : h[j] = s[j]
      /\ \A j \in 1 .. c - 1 : new[j] = old[j]
  BY DEF CutShape
<1>3. \A a \in 1 .. i : TextAt(new, c, a) = TextAt(old, c, a)
  <2> DEFINE T == { m \in Nat : m < i => TextAt(new, c, i - m) = TextAt(old, c, i - m) }
  <2>1. 0 \in T
    <3>1. TextAt(new, c, i) = TextAt(old, c, i) /\ i - 0 = i
      BY <1>1, TextInGate
    <3> QED  BY <3>1
  <2>2. ASSUME NEW m \in Nat, m \in T PROVE m + 1 \in T
    <3> SUFFICES ASSUME m + 1 < i PROVE TextAt(new, c, i - (m + 1)) = TextAt(old, c, i - (m + 1))
      OBVIOUS
    <3>1. PICK a : a = i - (m + 1)
      OBVIOUS
    <3>2. /\ a \in 1 .. i - 1 /\ a \in 1 .. Len(h) /\ a \in 1 .. Len(s) /\ a + 1 = i - m /\ m < i
      BY <1>1, <3>1
    <3>3. TextAt(new, c, a + 1) = TextAt(old, c, a + 1)
      BY <2>2, <3>2
    <3>4. c \in 1 .. Len(new) /\ c \in 1 .. Len(old)
      BY <1>1
    <3>5. TextAt(new, c, a) = IF new[c].insts[a].op \in GateOps THEN TextAt(new, c, a + 1)
                              ELSE <<new[c].insts[a]>> \o TextAt(new, c, a + 1)
      <4>1. \A a2 \in 1 .. Len(new[c].insts) :
              TextAt(new, c, a2) = IF new[c].insts[a2].op \in GateOps THEN TextAt(new, c, a2 + 1)
                                   ELSE <<new[c].insts[a2]>> \o TextAt(new, c, a2 + 1)
        BY <1>1, <3>4, TextSteps
      <4> QED  BY <1>1, <3>2, <4>1
    <3>6. TextAt(old, c, a) = IF old[c].insts[a].op \in GateOps THEN TextAt(old, c, a + 1)
                              ELSE <<old[c].insts[a]>> \o TextAt(old, c, a + 1)
      <4>1. \A a2 \in 1 .. Len(old[c].insts) :
              TextAt(old, c, a2) = IF old[c].insts[a2].op \in GateOps THEN TextAt(old, c, a2 + 1)
                                   ELSE <<old[c].insts[a2]>> \o TextAt(old, c, a2 + 1)
        BY <1>1, <3>4, TextSteps
      <4> QED  BY <1>1, <3>2, <4>1
    <3>7. new[c].insts[a] = old[c].insts[a]
      BY <1>1, <3>2
    <3> QED  BY <3>1, <3>3, <3>5, <3>6, <3>7
  <2>3. T \in SUBSET Nat
    OBVIOUS
  <2> HIDE DEF T
  <2>4. T = Nat
    BY <2>1, <2>2, <2>3, Induction
  <2> TAKE a \in 1 .. i
  <2>5. i - a \in Nat /\ i - a < i /\ i - (i - a) = a
    BY <1>1
  <2>6. i - a \in T
    BY <2>4, <2>5
  <2>7. TextAt(new, c, i - (i - a)) = TextAt(old, c, i - (i - a))
    BY <2>5, <2>6 DEF T
  <2> QED  BY <2>5, <2>7
<1>4. \A b \in Seq(Block) : \A k \in 1 .. Len(b) : Rest(b, k) = WithoutGates(b[k].insts) \o Rest(b, k + 1)
  <2> TAKE b \in Seq(Block)
  <2> TAKE k \in 1 .. Len(b)
  <2>1. PICK x : x = b[k].insts
    OBVIOUS
  <2>2. x \in Seq(Inst) /\ 1 \in 1 .. Len(x) + 1 /\ From(x, 1) = x
    <3>1. b[k] \in Block
      OBVIOUS
    <3>2. x \in Seq(Inst)
      BY <2>1, <3>1 DEF Block
    <3>3. 1 \in 1 .. Len(x) + 1
      BY <3>2
    <3>4. From(x, 1) = x
      BY <3>2, SubSeqFull DEF From
    <3> QED  BY <3>2, <3>3, <3>4
  <2>3. \A i2 \in 1 .. Len(b[k].insts) + 1 :
          TextAt(b, k, i2) = WithoutGates(From(b[k].insts, i2)) \o Rest(b, k + 1)
    BY TextSteps
  <2>4. TextAt(b, k, 1) = Rest(b, k)
    BY TextSteps
  <2> QED  BY <2>1, <2>2, <2>3, <2>4
<1>5. \A j \in 1 .. c : Rest(new, j) = Rest(old, j)
  <2> DEFINE T == { m \in Nat : m < c => Rest(new, c - m) = Rest(old, c - m) }
  <2>1. 0 \in T
    <3>1. c \in 1 .. Len(new) /\ c \in 1 .. Len(old) /\ 1 \in 1 .. i /\ c - 0 = c
      BY <1>1
    <3>2. TextAt(new, c, 1) = Rest(new, c)
      BY <1>1, <3>1, TextSteps
    <3>3. TextAt(old, c, 1) = Rest(old, c)
      BY <1>1, <3>1, TextSteps
    <3>4. TextAt(new, c, 1) = TextAt(old, c, 1)
      BY <1>3, <3>1
    <3> QED  BY <3>1, <3>2, <3>3, <3>4
  <2>2. ASSUME NEW m \in Nat, m \in T PROVE m + 1 \in T
    <3> SUFFICES ASSUME m + 1 < c PROVE Rest(new, c - (m + 1)) = Rest(old, c - (m + 1))
      OBVIOUS
    <3>1. PICK j : j = c - (m + 1)
      OBVIOUS
    <3>2. /\ j \in 1 .. c - 1 /\ j \in 1 .. Len(new) /\ j \in 1 .. Len(old) /\ j + 1 = c - m /\ m < c
      BY <1>1, <3>1
    <3>3. Rest(new, j + 1) = Rest(old, j + 1)
      BY <2>2, <3>2
    <3>4. Rest(new, j) = WithoutGates(new[j].insts) \o Rest(new, j + 1)
      BY <1>1, <1>4, <3>2
    <3>5. Rest(old, j) = WithoutGates(old[j].insts) \o Rest(old, j + 1)
      BY <1>1, <1>4, <3>2
    <3>6. new[j] = old[j]
      BY <1>1, <3>2
    <3> QED  BY <3>1, <3>3, <3>4, <3>5, <3>6
  <2>3. T \in SUBSET Nat
    OBVIOUS
  <2> HIDE DEF T
  <2>4. T = Nat
    BY <2>1, <2>2, <2>3, Induction
  <2> TAKE j \in 1 .. c
  <2>5. c - j \in Nat /\ c - j < c /\ c - (c - j) = j
    BY <1>1
  <2>6. c - j \in T
    BY <2>4, <2>5
  <2>7. Rest(new, c - (c - j)) = Rest(old, c - (c - j))
    BY <2>5, <2>6 DEF T
  <2> QED  BY <2>5, <2>7
<1>6. \A j \in 1 .. c - 1 : \A a \in 1 .. Len(old[j].insts) + 1 : TextAt(new, j, a) = TextAt(old, j, a)
  <2> TAKE j \in 1 .. c - 1
  <2>1. j \in 1 .. Len(new) /\ j \in 1 .. Len(old) /\ j + 1 \in 1 .. c
    BY <1>1
  <2>2. new[j] = old[j] /\ Rest(new, j + 1) = Rest(old, j + 1)
    BY <1>1, <1>5, <2>1
  <2>3. \A a \in 1 .. Len(old[j].insts) + 1 :
          TextAt(old, j, a) = WithoutGates(From(old[j].insts, a)) \o Rest(old, j + 1)
    BY <1>1, <2>1, TextSteps
  <2>4. \A a \in 1 .. Len(new[j].insts) + 1 :
          TextAt(new, j, a) = WithoutGates(From(new[j].insts, a)) \o Rest(new, j + 1)
    BY <1>1, <2>1, TextSteps
  <2> QED  BY <2>2, <2>3, <2>4
<1> QED  BY <1>3, <1>5, <1>6

(* A block, or an instruction, is one of old's, and the same text comes from *)
(* it on.                                                                   *)
StartOf(new, k, old, j) == new[k].label = old[j].label /\ TextAt(new, k, 1) = TextAt(old, j, 1)

PlaceOf(new, k, a, old, j, b) ==
  new[k].insts[a] = old[j].insts[b] /\ TextAt(new, k, a) = TextAt(old, j, b)

(* What comes from a block or instruction on is what came from one of old's *)
(* on, but for the gate's: there it is what came from the call on.          *)
Carried(new, old, n, y) ==
  \A k \in 1 .. n + 2 :
    /\ \/ \E j \in 1 .. n : StartOf(new, k, old, j)
       \/ new[k].label \in {n + 1, n + 2} /\ TextAt(new, k, 1) = y
    /\ \A a \in 1 .. Len(new[k].insts) :
         \/ \E j \in 1 .. n : \E b \in 1 .. Len(old[j].insts) : PlaceOf(new, k, a, old, j, b)
         \/ new[k].insts[a].op \in {"syscall", "cmp", "resume"}
         \/ new[k].insts[a] = Check(n + 1, n + 2) /\ TextAt(new, k, a) = y
         \/ new[k].insts[a].op = "exit" /\ TextAt(new, k, a) = y

(* So it is when a gate is put in.                                          *)
LEMMA TextCarried ==
  ASSUME NEW new, NEW old, NEW n, NEW c, NEW i, NEW s, NEW h, NEW e, NEW t,
         CutShape(new, old, n, c, i, s, h, e, t)
  PROVE  Carried(new, old, n, TextAt(old, c, i))
<1>1. /\ new \in Seq(Block) /\ old \in Seq(Block) /\ Len(new) = n + 2 /\ Len(old) = n
      /\ n \in Nat /\ c \in Nat /\ 1 <= c /\ c <= n
      /\ s \in Seq(Inst) /\ Len(s) \in Nat /\ i \in Nat /\ 1 <= i /\ i <= Len(s)
      /\ old[c].insts = s /\ old[c].label = new[c].label
      /\ new[c].insts = h /\ new[c + 1].insts = e /\ new[c + 2].insts = t
      /\ new[c + 1].label = n + 1 /\ new[c + 2].label = n + 2
      /\ Len(h) = i + 2 /\ Len(e) = 2 /\ Len(t) = Len(s) - i + 2
  BY DEF CutShape
<1>0. /\ n \in Nat /\ c \in Nat /\ 1 <= c /\ c <= n
      /\ Len(s) \in Nat /\ i \in Nat /\ 1 <= i /\ i <= Len(s)
      /\ Len(t) = Len(s) - i + 2
  BY <1>1
<1>2. /\ \A j \in 1 .. c - 1 : new[j] = old[j]
      /\ \A j \in c + 1 .. n : new[j + 2] = old[j]
      /\ \A j \in 1 .. i - 1 : h[j] = s[j]
      /\ h[i].op = "syscall" /\ h[i + 1].op = "cmp" /\ h[i + 2] = Check(n + 1, n + 2)
      /\ e[1].op = "exit" /\ e[2].op = "resume"
      /\ t[1] = s[i] /\ t[2].op = "syscall"
      /\ \A j \in 3 .. Len(s) - i + 2 : t[j] = s[j + i - 2]
  BY DEF CutShape
<1>3. PICK y : y = TextAt(old, c, i)
  OBVIOUS
<1>4. /\ TextAt(new, c, i + 2) = y /\ TextAt(new, c + 1, 1) = y /\ TextAt(new, c + 2, 1) = y
  BY <1>3, TextInGate
<1> DEFINE Starts(k) == \/ \E j \in 1 .. n : StartOf(new, k, old, j)
                        \/ new[k].label \in {n + 1, n + 2} /\ TextAt(new, k, 1) = y
           Stems(k, a) == \/ \E j \in 1 .. n : \E b \in 1 .. Len(old[j].insts) : PlaceOf(new, k, a, old, j, b)
                          \/ new[k].insts[a].op \in {"syscall", "cmp", "resume"}
                          \/ new[k].insts[a] = Check(n + 1, n + 2) /\ TextAt(new, k, a) = y
                          \/ new[k].insts[a].op = "exit" /\ TextAt(new, k, a) = y
<1> SUFFICES ASSUME NEW k \in 1 .. n + 2
             PROVE  Starts(k) /\ \A a \in 1 .. Len(new[k].insts) : Stems(k, a)
  BY <1>3 DEF Carried
<1>5. CASE k \in 1 .. c - 1
  <2>1. k \in 1 .. n /\ new[k] = old[k]
    BY <1>1, <1>2, <1>5
  <2>2. \A a \in 1 .. Len(old[k].insts) + 1 : TextAt(new, k, a) = TextAt(old, k, a)
    BY <1>5, TextInFront
  <2>3. PICK q : q = Len(old[k].insts)
    OBVIOUS
  <2>4. q \in Nat
    <3>1. old[k] \in Block
      BY <1>1, <2>1
    <3>2. old[k].insts \in Seq(Inst)
      BY <3>1 DEF Block
    <3> QED  BY <2>3, <3>2
  <2>5. 1 \in 1 .. q + 1 /\ \A a \in 1 .. q : a \in 1 .. q + 1
    BY <2>4
  <2>6. Starts(k)
    BY <2>1, <2>2, <2>3, <2>5 DEF StartOf
  <2>7. \A a \in 1 .. q : PlaceOf(new, k, a, old, k, a)
    BY <2>1, <2>2, <2>3, <2>5 DEF PlaceOf
  <2> QED  BY <2>1, <2>3, <2>6, <2>7
<1>6. CASE k = c
  <2>1. \A a \in 1 .. i : TextAt(new, c, a) = TextAt(old, c, a)
    BY TextInFront
  <2>2. c \in 1 .. n /\ 1 \in 1 .. i
    BY <1>1
  <2>3. Starts(c)
    BY <1>1, <2>1, <2>2 DEF StartOf
  <2>4. ASSUME NEW a \in 1 .. i - 1 PROVE Stems(c, a)
    <3>1. a \in 1 .. i /\ a \in 1 .. Len(s)
      BY <1>0
    <3>2. PlaceOf(new, c, a, old, c, a)
      BY <1>1, <1>2, <2>1, <3>1 DEF PlaceOf
    <3> QED  BY <1>1, <2>2, <3>1, <3>2
  <2>5. Stems(c, i) /\ Stems(c, i + 1) /\ Stems(c, i + 2)
    BY <1>1, <1>2, <1>4
  <2>6. \A a \in 1 .. i + 2 : a \in 1 .. i - 1 \/ a = i \/ a = i + 1 \/ a = i + 2
    BY <1>0
  <2> HIDE DEF Starts, Stems
  <2>7. \A a \in 1 .. i + 2 : Stems(c, a)
    BY <2>4, <2>5, <2>6
  <2> QED  BY <1>1, <1>6, <2>3, <2>7
<1>7. CASE k = c + 1
  <2>1. Starts(c + 1)
    BY <1>1, <1>4
  <2>2. Stems(c + 1, 1) /\ Stems(c + 1, 2)
    BY <1>1, <1>2, <1>4
  <2> HIDE DEF Starts, Stems
  <2>3. \A a \in 1 .. 2 : Stems(c + 1, a)
    <3>1. \A a \in 1 .. 2 : a = 1 \/ a = 2
      OBVIOUS
    <3> QED  BY <2>2, <3>1
  <2> QED  BY <1>1, <1>7, <2>1, <2>3
<1>8. CASE k = c + 2
  <2>1. Starts(c + 2)
    BY <1>1, <1>4
  <2>2. Stems(c + 2, 1)
    <3>1. PlaceOf(new, c + 2, 1, old, c, i)
      BY <1>1, <1>2, <1>3, <1>4 DEF PlaceOf
    <3>2. c \in 1 .. n /\ i \in 1 .. Len(old[c].insts)
      BY <1>1
    <3> QED  BY <3>1, <3>2
  <2>3. Stems(c + 2, 2)
    BY <1>1, <1>2
  <2>4. ASSUME NEW a \in 3 .. Len(t) PROVE Stems(c + 2, a)
    <3>1. PICK m : m = a + i - 2
      OBVIOUS
    <3>2. m \in 1 .. Len(s) /\ c \in 1 .. n /\ a \in 3 .. Len(s) - i + 2 /\ a \in 3 .. Len(t) + 1
      BY <1>0, <3>1
    <3>3. TextAt(new, c + 2, a) = TextAt(old, c, m)
      BY <3>1, <3>2, TextBehind
    <3>4. PlaceOf(new, c + 2, a, old, c, m)
      BY <1>1, <1>2, <3>1, <3>2, <3>3 DEF PlaceOf
    <3> QED  BY <1>1, <3>2, <3>4
  <2>5. \A a \in 1 .. Len(t) : a = 1 \/ a = 2 \/ a \in 3 .. Len(t)
    BY <1>0
  <2> HIDE DEF Starts, Stems
  <2>6. \A a \in 1 .. Len(t) : Stems(c + 2, a)
    BY <2>2, <2>3, <2>4, <2>5
  <2> QED  BY <1>1, <1>8, <2>1, <2>6
<1>9. CASE k \in c + 3 .. n + 2
  <2>1. PICK j : j = k - 2
    OBVIOUS
  <2>2. j \in c + 1 .. n /\ j \in 1 .. n /\ k = j + 2
    BY <1>0, <1>9, <2>1
  <2>3. new[k] = old[j]
    BY <1>2, <2>2
  <2>4. \A a : TextAt(new, k, a) = TextAt(old, j, a)
    BY <2>2, TextBehind
  <2>5. Starts(k)
    BY <2>2, <2>3, <2>4 DEF StartOf
  <2>6. \A a \in 1 .. Len(old[j].insts) : PlaceOf(new, k, a, old, j, a)
    BY <2>3, <2>4 DEF PlaceOf
  <2> QED  BY <2>2, <2>3, <2>5, <2>6
<1>10. k \in 1 .. c - 1 \/ k = c \/ k = c + 1 \/ k = c + 2 \/ k \in c + 3 .. n + 2
  BY <1>1
<1> QED  BY <1>5, <1>6, <1>7, <1>8, <1>9, <1>10

(* Where f may be refused: in front of a call of a more privileged function. *)
Gaining(f, g) ==
  Tagged(prog.section[f]) /\ Tagged(prog.section[g]) => prog.section[g] < prog.section[f]

MayRefuse(f, text) ==
  /\ text # <<>> /\ text[1].op \in {"call", "invoke"}
  /\ text[1].callee \in prog.defs /\ Gaining(f, text[1].callee)

(* What comes from a block on that f had is what came from it then; a check *)
(* goes where the same is still to come; an exit is in front of a call that *)
(* may be refused.                                                          *)
StartsKept(f, blocks) ==
  \A k \in 1 .. Len(blocks) :
    blocks[k].label <= Len(prog.code[f]) =>
      TextAt(blocks, k, 1) = Insts(From(prog.code[f], blocks[k].label))

ChecksAgree(blocks) ==
  \A k \in 1 .. Len(blocks) : \A i \in 1 .. Len(blocks[k].insts) :
    blocks[k].insts[i].op = "check" =>
      \A j \in 1 .. Len(blocks) : blocks[j].label \in blocks[k].insts[i].to =>
        TextAt(blocks, j, 1) = TextAt(blocks, k, i)

ExitsInFront(f, blocks) ==
  \A k \in 1 .. Len(blocks) : \A i \in 1 .. Len(blocks[k].insts) :
    blocks[k].insts[i].op = "exit" => MayRefuse(f, TextAt(blocks, k, i))

TextShape(f, blocks) == StartsKept(f, blocks) /\ ChecksAgree(blocks) /\ ExitsInFront(f, blocks)

TextInv == \A f \in prog.defs : TextShape(f, code[f])

(* A gate around a call that may be refused keeps it.                       *)
LEMMA TextStep ==
  ASSUME NEW f, NEW new, NEW old, NEW n \in Nat, NEW y, Len(old) = n, Len(new) = n + 2,
         Carried(new, old, n, y), TextShape(f, old), MayRefuse(f, y),
         prog.code[f] \in Seq(Block), Len(prog.code[f]) <= n,
         \A j \in 1 .. n : old[j].label \in 1 .. n,
         \A j \in 1 .. n : \A b \in 1 .. Len(old[j].insts) :
           old[j].insts[b].op = "check" => old[j].insts[b].to \subseteq 1 .. n
  PROVE  TextShape(f, new)
<1>1. \A l \in 1 .. n : l # n + 1 /\ l # n + 2
  OBVIOUS
<1>2. StartsKept(f, new)
  <2> SUFFICES ASSUME NEW k \in 1 .. n + 2, new[k].label <= Len(prog.code[f])
               PROVE  TextAt(new, k, 1) = Insts(From(prog.code[f], new[k].label))
    BY DEF StartsKept
  <2>1. Len(prog.code[f]) \in Nat
    OBVIOUS
  <2>2. new[k].label \notin {n + 1, n + 2}
    BY <2>1
  <2>3. PICK j \in 1 .. n : StartOf(new, k, old, j)
    BY <2>2 DEF Carried
  <2>4. TextAt(old, j, 1) = Insts(From(prog.code[f], old[j].label))
    BY <2>3 DEF StartOf, TextShape, StartsKept
  <2> QED  BY <2>3, <2>4 DEF StartOf
<1>3. ChecksAgree(new)
  <2> SUFFICES ASSUME NEW k \in 1 .. n + 2, NEW a \in 1 .. Len(new[k].insts), new[k].insts[a].op = "check",
                      NEW x \in 1 .. n + 2, new[x].label \in new[k].insts[a].to
               PROVE  TextAt(new, x, 1) = TextAt(new, k, a)
    BY DEF ChecksAgree
  <2>1. CASE \E j \in 1 .. n : \E b \in 1 .. Len(old[j].insts) : PlaceOf(new, k, a, old, j, b)
    <3>1. PICK j \in 1 .. n : \E b \in 1 .. Len(old[j].insts) : PlaceOf(new, k, a, old, j, b)
      BY <2>1
    <3>2. PICK b \in 1 .. Len(old[j].insts) : PlaceOf(new, k, a, old, j, b)
      BY <3>1
    <3>3. old[j].insts[b] = new[k].insts[a] /\ TextAt(new, k, a) = TextAt(old, j, b)
      BY <3>2 DEF PlaceOf
    <3>4. new[x].label \in 1 .. n
      BY <3>3
    <3>5. PICK z \in 1 .. n : StartOf(new, x, old, z)
      BY <1>1, <3>4 DEF Carried
    <3>6. TextAt(old, z, 1) = TextAt(old, j, b)
      BY <3>3, <3>5 DEF StartOf, TextShape, ChecksAgree
    <3> QED  BY <3>3, <3>5, <3>6 DEF StartOf
  <2>2. CASE new[k].insts[a] = Check(n + 1, n + 2) /\ TextAt(new, k, a) = y
    <3>1. new[x].label \in {n + 1, n + 2}
      BY <2>2 DEF Check
    <3>2. ~ \E j \in 1 .. n : StartOf(new, x, old, j)
      BY <1>1, <3>1 DEF StartOf
    <3> QED  BY <2>2, <3>2 DEF Carried
  <2> QED  BY <2>1, <2>2 DEF Carried
<1>4. ExitsInFront(f, new)
  <2> SUFFICES ASSUME NEW k \in 1 .. n + 2, NEW a \in 1 .. Len(new[k].insts), new[k].insts[a].op = "exit"
               PROVE  MayRefuse(f, TextAt(new, k, a))
    BY DEF ExitsInFront
  <2>1. CASE \E j \in 1 .. n : \E b \in 1 .. Len(old[j].insts) : PlaceOf(new, k, a, old, j, b)
    <3>1. PICK j \in 1 .. n : \E b \in 1 .. Len(old[j].insts) : PlaceOf(new, k, a, old, j, b)
      BY <2>1
    <3>2. PICK b \in 1 .. Len(old[j].insts) : PlaceOf(new, k, a, old, j, b)
      BY <3>1
    <3>3. old[j].insts[b] = new[k].insts[a] /\ TextAt(new, k, a) = TextAt(old, j, b)
      BY <3>2 DEF PlaceOf
    <3>4. MayRefuse(f, TextAt(old, j, b))
      BY <3>3 DEF TextShape, ExitsInFront
    <3> QED  BY <3>3, <3>4
  <2>2. new[k].insts[a] # Check(n + 1, n + 2)
    BY Instructions DEF Check
  <2> QED  BY <2>1, <2>2 DEF Carried
<1> QED  BY <1>2, <1>3, <1>4 DEF TextShape

(* The pass puts a gate only where a call may be refused.                   *)
LEMMA SiteMayBeRefused ==
  ASSUME TypeOK, NEW f \in prog.defs, NEW blocks \in Seq(Block), NEW k \in 1 .. Len(blocks),
         NEW i \in 1 .. Len(blocks[k].insts),
         ExitsInFront(f, blocks), blocks[k].insts[i].op \in CallOps, blocks[k].insts[i].callee \in prog.defs,
         Lowers(f, blocks[k].insts[i].callee)
  PROVE  MayRefuse(f, TextAt(blocks, k, i))
<1>1. PICK x : x = blocks[k].insts[i]
  OBVIOUS
<1>2. CASE x.op = "exit"
  BY <1>1, <1>2 DEF ExitsInFront
<1>3. CASE x.op \in {"call", "invoke"}
  <2>1. TextAt(blocks, k, i) = IF x.op \in GateOps THEN TextAt(blocks, k, i + 1)
                               ELSE <<x>> \o TextAt(blocks, k, i + 1)
    <3>1. \A a \in 1 .. Len(blocks[k].insts) :
            TextAt(blocks, k, a) = IF blocks[k].insts[a].op \in GateOps THEN TextAt(blocks, k, a + 1)
                                   ELSE <<blocks[k].insts[a]>> \o TextAt(blocks, k, a + 1)
      BY TextSteps
    <3> QED  BY <1>1, <3>1
  <2>2. x.op \notin GateOps
    BY <1>3 DEF GateOps
  <2>3. PICK r : r = TextAt(blocks, k, i + 1)
    OBVIOUS
  <2>4. x \in Inst /\ r \in Seq(Inst)
    <3>1. blocks[k] \in Block
      OBVIOUS
    <3>2. PICK s \in Seq(Inst) : s = blocks[k].insts
      BY <3>1 DEF Block
    <3>3. i + 1 \in 1 .. Len(s) + 1 /\ s[i] \in Inst
      BY <3>2
    <3>4. \A a \in 1 .. Len(blocks[k].insts) + 1 :
            /\ TextAt(blocks, k, a) = WithoutGates(From(blocks[k].insts, a)) \o Rest(blocks, k + 1)
            /\ TextAt(blocks, k, a) \in Seq(Inst)
      BY TextSteps
    <3> QED  BY <1>1, <2>3, <3>2, <3>3, <3>4
  <2>5. TextAt(blocks, k, i) = <<x>> \o r
    BY <2>1, <2>2, <2>3
  <2>6. PICK w : w = <<x>> \o r
    OBVIOUS
  <2>7. w # <<>> /\ w[1] = x
    BY <2>4, <2>6
  <2>8. Gaining(f, x.callee)
    <3> SUFFICES ASSUME Tagged(prog.section[f]), Tagged(prog.section[x.callee])
                 PROVE  prog.section[x.callee] < prog.section[f]
      BY DEF Gaining
    <3> QED  BY <1>1 DEF Lowers, LevelsRead
  <2> QED  BY <1>1, <1>3, <2>5, <2>6, <2>7, <2>8 DEF MayRefuse
<1> QED  BY <1>1, <1>2, <1>3, OpsShape

(* In a program as it comes there is nothing to take out and nothing to     *)
(* check.                                                                   *)
LEMMA TextInit == Init => TextInv
<1> SUFFICES ASSUME Init, NEW f \in prog.defs PROVE TextShape(f, code[f])
  BY DEF TextInv
<1>1. PICK blocks : blocks = code[f]
  OBVIOUS
<1>2. blocks \in Seq(Block) /\ FromSource(blocks) /\ prog.code[f] = blocks
  BY <1>1, TypeInit, ProgramShape DEF Init
<1>3. Len(blocks) \in Nat /\ DOMAIN blocks = 1 .. Len(blocks) /\ \A k \in 1 .. Len(blocks) : blocks[k] \in Block
  BY <1>2
<1>4. \A k \in 1 .. Len(blocks) : \A i \in 1 .. Len(blocks[k].insts) : blocks[k].insts[i].op \notin GateOps
  BY <1>2, SourceHasNoGates
<1>5. ChecksAgree(blocks) /\ ExitsInFront(f, blocks)
  <2>1. "check" \in GateOps /\ "exit" \in GateOps
    BY DEF GateOps
  <2> QED  BY <1>4, <2>1 DEF ChecksAgree, ExitsInFront
<1>6. StartsKept(f, blocks)
  <2> SUFFICES ASSUME NEW k \in 1 .. Len(blocks)
               PROVE  TextAt(blocks, k, 1) = Insts(From(blocks, blocks[k].label))
    BY <1>2 DEF StartsKept
  <2>1. blocks[k].label = k
    BY <1>2, <1>3 DEF FromSource
  <2>2. TextAt(blocks, k, 1) = Rest(blocks, k)
    BY <1>2, TextSteps
  <2>3. PICK p : p = From(blocks, k)
    OBVIOUS
  <2>4. p \in Seq(Block) /\ Len(p) = Len(blocks) - k + 1 /\ \A m \in 1 .. Len(blocks) - k + 1 : p[m] = blocks[k + m - 1]
    <3>1. k \in 1 .. Len(blocks) + 1
      BY <1>3
    <3> QED  BY <1>2, <2>3, <3>1, FromShape
  <2>5. \A m \in 1 .. Len(p) : /\ p[m] \in Block
                               /\ \A i \in 1 .. Len(p[m].insts) : p[m].insts[i].op \notin GateOps
    <3> TAKE m \in 1 .. Len(p)
    <3>1. PICK z : z = k + m - 1
      OBVIOUS
    <3>2. z \in 1 .. Len(blocks) /\ m \in 1 .. Len(blocks) - k + 1
      BY <1>3, <2>4, <3>1
    <3>3. p[m] = blocks[z]
      BY <2>4, <3>1, <3>2
    <3> QED  BY <1>3, <1>4, <3>2, <3>3
  <2>6. WithoutGates(Insts(p)) = Insts(p)
    BY <2>4, <2>5, NoGatesIn
  <2> QED  BY <2>1, <2>2, <2>3, <2>6 DEF Rest
<1> QED  BY <1>1, <1>5, <1>6 DEF TextShape

(* A step of the pass keeps it.                                             *)
LEMMA TextStays == TypeOK /\ GateInv /\ TextInv /\ [Next]_vars => TextInv'
<1> SUFFICES ASSUME TypeOK, GateInv, TextInv, [Next]_vars PROVE TextInv'
  OBVIOUS
<1>1. prog' = prog
  BY DEF Next, SkipSite, GateSite, CrashOnUntagged, Finish, Stopped, vars
<1>2. ASSUME NEW f \in prog.defs, TextShape(f, code'[f]) PROVE TextShape(f, code[f])'
  BY <1>1, <1>2 DEF TextShape, StartsKept, ChecksAgree, ExitsInFront, TextAt, MayRefuse, Gaining
<1>3. CASE code' = code
  <2>1. \A f \in prog.defs : TextShape(f, code'[f])
    BY <1>3 DEF TextInv
  <2> QED  BY <1>1, <1>2, <2>1 DEF TextInv
<1>4. ASSUME NEW f \in prog.defs, NEW k \in DOMAIN code[f], NEW i \in DOMAIN code[f][k].insts, GateSite(f, k, i)
      PROVE  TextInv'
  <2>1. PICK old, new, n : old = code[f] /\ new = code'[f] /\ n = Len(old)
    OBVIOUS
  <2>2. PICK s, g : s = old[k].insts /\ g = s[i].callee
    OBVIOUS
  <2>3. /\ f \in Function /\ prog.code[f] \in Seq(Block) /\ prog.defs \in SUBSET Function
        /\ prog.section \in [Function -> Section] /\ code \in [Function -> Seq(Block)]
    BY ProgramShape DEF TypeOK
  <2>4. old \in Seq(Block) /\ n \in Nat /\ k \in 1 .. n /\ s \in Seq(Inst) /\ i \in 1 .. Len(s)
    <3>1. old \in Seq(Block) /\ k \in DOMAIN old
      BY <2>1, <2>3
    <3>2. n \in Nat /\ k \in 1 .. n /\ old[k] \in Block
      BY <2>1, <3>1
    <3>3. s \in Seq(Inst)
      BY <2>2, <3>2 DEF Block
    <3>4. i \in DOMAIN s
      BY <2>1, <2>2
    <3> QED  BY <3>1, <3>2, <3>3, <3>4
  <2>5. s[i].op \in CallOps /\ g \in prog.defs /\ Lowers(f, g) /\ g = CalleeAt(f, k, i)
    BY <1>4, <2>1, <2>2 DEF GateSite, IsFirst, Unvisited, IsSite, CalleeAt
  <2>6. PICK h, e, t \in Seq(Inst), cr \in ConstantsRead(prog.section[f]), ce \in ConstantsRead(prog.section[g]) :
          /\ IsHead(h, s, i, n, ce) /\ IsExit(e, n) /\ IsTail(t, s, i, cr)
          /\ code' = [code EXCEPT ![f] = new] /\ new \in Seq(Block)
          /\ Replaces(new, old, k, << [label |-> old[k].label, insts |-> h],
                                      [label |-> n + 1, insts |-> e],
                                      [label |-> n + 2, insts |-> t] >>)
    BY <1>4, <2>1, <2>2, <2>5, GateSiteShape
  <2>7. cr \in Tag /\ ce \in Tag
    <3>1. prog.section[f] \in Section /\ prog.section[g] \in Section
      BY <2>3, <2>5
    <3> QED  BY <2>6, <3>1, Constants
  <2>8. Cuts(new, old, k, i)
    BY <2>1, <2>2, <2>4, <2>6, <2>7 DEF Cuts
  <2>9. PICK hh, ee, tt : CutShape(new, old, n, k, i, s, hh, ee, tt)
    BY <2>1, <2>2, <2>8, CutsAre
  <2>10. PICK y : y = TextAt(old, k, i)
    OBVIOUS
  <2>11. Carried(new, old, n, y)
    BY <2>9, <2>10, TextCarried
  <2>12. TextShape(f, old)
    BY <2>1 DEF TextInv
  <2>13. MayRefuse(f, y)
    <3>1. ExitsInFront(f, old)
      BY <2>12 DEF TextShape
    <3>2. k \in 1 .. Len(old) /\ i \in 1 .. Len(old[k].insts) /\ old[k].insts[i] = s[i]
      BY <2>1, <2>2, <2>4
    <3>3. /\ old[k].insts[i].op \in CallOps /\ old[k].insts[i].callee \in prog.defs
          /\ Lowers(f, old[k].insts[i].callee)
      BY <2>2, <2>5
    <3>4. MayRefuse(f, TextAt(old, k, i))
      BY <2>4, <3>1, <3>2, <3>3, SiteMayBeRefused
    <3> QED  BY <2>10, <3>4
  <2>14. PICK B : View(old, B) /\ Shape(f, B, n, visited)
    BY <2>1, <2>3 DEF GateInv
  <2>15. /\ Len(prog.code[f]) <= n
         /\ \A j \in 1 .. n : old[j].label \in 1 .. n
         /\ \A j \in 1 .. n : \A b \in 1 .. Len(old[j].insts) :
              old[j].insts[b].op = "check" => old[j].insts[b].to \subseteq 1 .. n
    <3>1. \A j \in 1 .. n : old[j].label \in 1 .. n /\ B[old[j].label] = old[j].insts
      BY <2>1, <2>14 DEF View
    <3>2. \A l \in 1 .. n : BlockShape(B[l], n)
      BY <2>14 DEF Shape, BlocksShape
    <3>3. ASSUME NEW j \in 1 .. n, NEW b \in 1 .. Len(old[j].insts), old[j].insts[b].op = "check"
          PROVE  old[j].insts[b].to \subseteq 1 .. n
      <4>1. BlockShape(old[j].insts, n)
        BY <3>1, <3>2
      <4> QED  BY <3>3, <4>1, OpsShape DEF BlockShape
    <3>4. Len(prog.code[f]) <= n
      <4>1. n >= Len(prog.code[f]) /\ Len(prog.code[f]) \in Nat
        BY <2>3, <2>14 DEF Shape
      <4> QED  BY <2>4, <4>1
    <3> QED  BY <3>1, <3>3, <3>4
  <2>16. Len(old) = n /\ Len(new) = n + 2
    BY <2>9 DEF CutShape
  <2>17. TextShape(f, new)
    BY <2>3, <2>4, <2>11, <2>12, <2>13, <2>15, <2>16, TextStep
  <2>18. \A x \in prog.defs : TextShape(x, code'[x])
    <3> TAKE x \in prog.defs
    <3>1. CASE x = f
      BY <2>1, <2>17, <3>1
    <3>2. CASE x # f
      <4>1. code'[x] = code[x]
        BY <2>3, <2>6, <3>2
      <4> QED  BY <4>1 DEF TextInv
    <3> QED  BY <3>1, <3>2
  <2> QED  BY <1>1, <1>2, <2>18 DEF TextInv
<1> QED  BY <1>3, <1>4 DEF Next, SkipSite, CrashOnUntagged, Finish, Stopped, vars

(* However many gates cut the blocks of a function and each other: from a   *)
(* block it had on comes what came then, a check goes where the same is     *)
(* still to come, and a gate exits only in front of a call of a more        *)
(* privileged function.                                                     *)
THEOREM TextStaysInPlace == Spec => []TextInv
<1> QED  BY TextInit, TextStays, TypeCorrect, GatesStayInShape, PTL DEF Spec
=============================================================================
