--------------------------- MODULE GatedRunProofs ---------------------------
(***************************************************************************)
(* What a gated program does when it runs, for every program, number of    *)
(* levels and depth of the stack: a function whose gate was refused is not *)
(* entered, where the gates suffice code runs at its own level, and other  *)
(* than that the program runs as it was written.  The frames of the stack  *)
(* are related to the blocks by label of GateProofs.                       *)
(***************************************************************************)
EXTENDS GateProofs

-----------------------------------------------------------------------------
(* The run.  Where a frame is, and what it did before that.                 *)
FrameSet == [fn : Function, label : Nat, next : Nat]

InstsOf(F)  == Labelled(code[F.fn])[F.label]
At(F)       == InstsOf(F)[F.next]
Before(F)   == InstsOf(F)[F.next - 1]
InTail(F, g) == TailOf(F.fn, Labelled(code[F.fn]), Len(code[F.fn]), visited, F.label, g)

InCode(F) ==
  /\ F.fn \in prog.defs /\ F.label \in 1 .. Len(code[F.fn]) /\ F.next \in 1 .. Len(InstsOf(F))
  /\ F.next > 1 => Before(F).op \notin TerminatorOps

(* F called G, or may have: an indirect call reaches any function.          *)
Waits(F, G) ==
  /\ F.next > 1 /\ Before(F).op = "call"
  /\ Before(F).callee = Indirect \/ Before(F).callee = G.fn

(* Granted means to be at the level asked for.                              *)
Asked(F, lev, gr) ==
  gr => /\ F.next >= 2 /\ Before(F).op = "syscall" => lev = Before(F).level
        /\ F.next >= 3 /\ Before(F).op = "cmp" /\ InstsOf(F)[F.next - 2].op = "syscall"
             => lev = InstsOf(F)[F.next - 2].level

(* At the call of a gate the level is the callee's.                         *)
Inside(F, lev) ==
  F.next = 1 => \A g \in prog.defs : InTail(F, g) => lev \in ConstantsRead(prog.section[g])

StackShape(S) ==
  /\ S \in Seq(FrameSet) /\ S # <<>>
  /\ \A k \in 1 .. Len(S) : InCode(S[k])
  /\ \A k \in 1 .. Len(S) - 1 : Waits(S[k], S[k + 1])

RunShape(S, lev, gr) ==
  /\ StackShape(S)
  /\ Asked(S[Len(S)], lev, gr)
  /\ Inside(S[Len(S)], lev)

RunInv == mode = "run" => pc = "done" /\ RunShape(stack, level, granted)

-----------------------------------------------------------------------------
(* All that is known of the blocks of a function.                           *)
GoodBlocks(f, B, n) ==
  /\ f \in Function /\ code[f] \in Seq(Block) /\ n \in Nat /\ n >= 1
  /\ B \in [1 .. n -> Seq(Inst)] /\ View(code[f], B)
  /\ Shape(f, B, n, visited) /\ FlowShape(f, B, n, visited)
  /\ code[f][1].label = 1 /\ 1 <= Len(prog.code[f])

(* It is so of every function.                                              *)
LEMMA BlocksAreGood ==
  ASSUME TypeOK, GateInv, FlowInv, NEW f \in prog.defs
  PROVE  GoodBlocks(f, Labelled(code[f]), Len(code[f]))
<1>1. /\ f \in Function /\ code[f] \in Seq(Block) /\ prog.code[f] \in Seq(Block) /\ prog.code[f] # <<>>
  BY ProgramShape DEF TypeOK
<1>2. PICK C : View(code[f], C) /\ Shape(f, C, Len(code[f]), visited)
  BY <1>1 DEF GateInv
<1>3. C = Labelled(code[f])
  BY <1>1, <1>2, ViewIsLabelled
<1>4. /\ code[f] # <<>> /\ code[f][1].label = 1 /\ FlowShape(f, C, Len(code[f]), visited)
  BY <1>3 DEF FlowInv
<1>5. Len(code[f]) \in Nat /\ Len(code[f]) >= 1 /\ 1 <= Len(prog.code[f])
  BY <1>1, <1>4
<1>6. C \in [1 .. Len(code[f]) -> Seq(Inst)]
  BY <1>2 DEF View
<1> QED  BY <1>1, <1>2, <1>3, <1>4, <1>5, <1>6 DEF GoodBlocks

(* What a frame's block looks like from where the frame is in it.           *)
LEMMA InBlock ==
  ASSUME TypeOK, GateInv, FlowInv, NEW F \in FrameSet, InCode(F)
  PROVE  /\ InstsOf(F) \in Seq(Inst) /\ BlockShape(InstsOf(F), Len(code[F.fn]))
         /\ F.next \in Nat /\ F.next >= 1 /\ F.next <= Len(InstsOf(F)) /\ Len(InstsOf(F)) \in Nat
         /\ At(F).op \in TerminatorOps => F.next = Len(InstsOf(F)) \/ SplitInvoke(InstsOf(F))
         /\ At(F).op \notin TerminatorOps => F.next < Len(InstsOf(F))
         /\ SplitInvoke(InstsOf(F)) => F.next = 1 /\ At(F).op = "invoke"
<1>1. GoodBlocks(F.fn, Labelled(code[F.fn]), Len(code[F.fn]))
  BY BlocksAreGood DEF InCode
<1>2. PICK s : s = InstsOf(F)
  OBVIOUS
<1>3. s \in Seq(Inst) /\ BlockShape(s, Len(code[F.fn]))
  BY <1>1, <1>2 DEF GoodBlocks, InCode, InstsOf, Shape, BlocksShape
<1>4. F.next \in Nat /\ F.next >= 1 /\ F.next <= Len(s) /\ Len(s) \in Nat /\ F.next \in 1 .. Len(s)
  BY <1>2, <1>3 DEF InCode
<1>5. CASE SplitInvoke(s)
  <2>1. F.next = 1
    <3>1. SUFFICES ASSUME F.next = 2 PROVE FALSE
      BY <1>4, <1>5 DEF SplitInvoke
    <3>2. Before(F).op = "invoke" /\ Before(F).op \notin TerminatorOps
      BY <1>2, <1>5, <3>1 DEF SplitInvoke, Before, InCode
    <3> QED  BY <3>2, OpsShape
  <2>2. At(F).op = "invoke" /\ Len(s) = 2
    BY <1>2, <1>5, <2>1 DEF SplitInvoke, At
  <2> QED  BY <1>2, <1>3, <1>4, <1>5, <2>1, <2>2
<1>6. CASE ~SplitInvoke(s)
  <2>1. At(F).op \in TerminatorOps <=> F.next = Len(s)
    BY <1>2, <1>3, <1>4, <1>6 DEF BlockShape, WellFormed, At
  <2> QED  BY <1>2, <1>3, <1>4, <1>6, <2>1
<1> QED  BY <1>5, <1>6

(* A tail is no block of the program as it came, and not where a gate       *)
(* exits: it has the call of the gate.                                      *)
LEMMA AtTail ==
  ASSUME TypeOK, GateInv, FlowInv, NEW F, F.fn \in prog.defs, NEW g, InTail(F, g)
  PROVE  /\ g \in prog.defs /\ ~Refuses(InstsOf(F)) /\ ~(F.label <= Len(prog.code[F.fn]))
         /\ Len(InstsOf(F)) >= 2 /\ InstsOf(F)[1].op \in CallOps /\ InstsOf(F)[1].callee = g
         /\ InstsOf(F)[2].op = "syscall"
         /\ \E cr \in ConstantsRead(prog.section[F.fn]) : InstsOf(F)[2] = Syscall(cr)
<1>1. PICK f, B, n, m : f = F.fn /\ B = Labelled(code[f]) /\ n = Len(code[f]) /\ m = F.label
  OBVIOUS
<1>2. PICK l, d : GateOf(f, B, n, visited, l, d, m, g)
  BY <1>1 DEF InTail, TailOf
<1>3. B[m][2].op = "syscall" /\ B[m][1].op \in CallOps
  BY <1>2, Instructions DEF GateOf
<1>4. ~Refuses(B[m])
  BY <1>3, OpsShape DEF Refuses
<1>5. ~(m <= Len(prog.code[f]))
  <2>1. prog.code[f] \in Seq(Block)
    BY <1>1, ProgramShape
  <2>2. n \in Nat
    BY <1>1, BlocksAreGood DEF GoodBlocks
  <2>3. m \in 1 .. n /\ m > Len(prog.code[f])
    BY <1>2 DEF GateOf
  <2> QED  BY <2>1, <2>2, <2>3
<1>6. InstsOf(F) = B[m]
  BY <1>1 DEF InstsOf
<1> QED  BY <1>1, <1>2, <1>3, <1>4, <1>5, <1>6 DEF GateOf

-----------------------------------------------------------------------------
(* The three ways a frame goes on: to the next instruction, ...             *)
Ahead(F) == [F EXCEPT !.next = @ + 1]

(* There is one, unless the block ends.                                     *)
LEMMA GoesAhead ==
  ASSUME TypeOK, GateInv, FlowInv, NEW F \in FrameSet, InCode(F), At(F).op \notin TerminatorOps
  PROVE  /\ Ahead(F) \in FrameSet /\ InCode(Ahead(F)) /\ Before(Ahead(F)) = At(F)
         /\ Ahead(F).fn = F.fn /\ Ahead(F).label = F.label /\ Ahead(F).next = F.next + 1
         /\ Ahead(F).next >= 2 /\ InstsOf(Ahead(F)) = InstsOf(F)
         /\ (Ahead(F).next >= 3 => InstsOf(F)[Ahead(F).next - 2] = Before(F))
         /\ \A g : InTail(Ahead(F), g) <=> InTail(F, g)
<1>1. Ahead(F) \in FrameSet /\ Ahead(F).fn = F.fn /\ Ahead(F).label = F.label /\ Ahead(F).next = F.next + 1
  BY DEF Ahead, FrameSet
<1>2. F.next \in Nat /\ F.next >= 1 /\ F.next < Len(InstsOf(F)) /\ Len(InstsOf(F)) \in Nat
  BY InBlock
<1>3. InstsOf(Ahead(F)) = InstsOf(F) /\ \A g : InTail(Ahead(F), g) <=> InTail(F, g)
  BY <1>1 DEF InstsOf, InTail
<1>4. (F.next + 1) - 1 = F.next /\ (F.next + 1) - 2 = F.next - 1 /\ F.next + 1 >= 2
      /\ F.next + 1 \in 1 .. Len(InstsOf(F))
  <2>1. ASSUME NEW a, NEW b, a \in Nat, a >= 1, a < b, b \in Nat
        PROVE  (a + 1) - 1 = a /\ (a + 1) - 2 = a - 1 /\ a + 1 >= 2 /\ a + 1 \in 1 .. b
    BY <2>1
  <2> QED  BY <1>2, <2>1
<1>5. Before(Ahead(F)) = At(F)
  BY <1>1, <1>3, <1>4 DEF Before, At
<1>6. InCode(Ahead(F))
  BY <1>1, <1>3, <1>4, <1>5 DEF InCode
<1> QED  BY <1>1, <1>3, <1>4, <1>5, <1>6 DEF Before

(* ... to the start of another block, ...                                   *)
To(F, l) == [F EXCEPT !.label = l, !.next = 1]

(* Every block has a start.                                                 *)
LEMMA GoesTo ==
  ASSUME TypeOK, GateInv, FlowInv, NEW F \in FrameSet, F.fn \in prog.defs, NEW l \in 1 .. Len(code[F.fn])
  PROVE  /\ To(F, l) \in FrameSet /\ InCode(To(F, l))
         /\ To(F, l).fn = F.fn /\ To(F, l).label = l /\ To(F, l).next = 1
<1>1. To(F, l) \in FrameSet /\ To(F, l).fn = F.fn /\ To(F, l).label = l /\ To(F, l).next = 1
  <2>1. l \in Nat /\ 1 \in Nat
    <3>1. ASSUME NEW c, c \in Nat, NEW y \in 1 .. c PROVE y \in Nat
      OBVIOUS
    <3>2. Len(code[F.fn]) \in Nat
      BY BlocksAreGood DEF GoodBlocks
    <3> QED  BY <3>1, <3>2
  <2>2. To(F, l) \in FrameSet
    BY <2>1 DEF To, FrameSet
  <2>3. To(F, l).fn = F.fn /\ To(F, l).label = l /\ To(F, l).next = 1
    BY DEF To, FrameSet
  <2> QED  BY <2>2, <2>3
<1>2. PICK s : s = Labelled(code[F.fn])[l]
  OBVIOUS
<1>3. s \in Seq(Inst) /\ s # <<>>
  <2>1. GoodBlocks(F.fn, Labelled(code[F.fn]), Len(code[F.fn]))
    BY BlocksAreGood
  <2>2. s \in Seq(Inst) /\ BlockShape(s, Len(code[F.fn]))
    BY <1>2, <2>1 DEF GoodBlocks, Shape, BlocksShape
  <2> QED  BY <2>2 DEF BlockShape
<1>4. 1 \in 1 .. Len(s) /\ ~(1 > 1)
  BY <1>3
<1> QED  BY <1>1, <1>2, <1>4 DEF InCode, InstsOf

(* ... and to the first block of a function, which is no tail.              *)
LEMMA Enters ==
  ASSUME TypeOK, GateInv, FlowInv, NEW f \in prog.defs
  PROVE  /\ EntryFrame(f) \in FrameSet /\ InCode(EntryFrame(f))
         /\ EntryFrame(f).fn = f /\ EntryFrame(f).next = 1
         /\ \A g : ~InTail(EntryFrame(f), g)
<1>1. GoodBlocks(f, Labelled(code[f]), Len(code[f])) /\ f \in Function
  BY BlocksAreGood DEF GoodBlocks
<1>2. PICK F : F = [fn |-> f, label |-> 1, next |-> 1]
  OBVIOUS
<1>3. EntryFrame(f) = F /\ F \in FrameSet /\ F.fn = f /\ F.label = 1 /\ F.next = 1
  BY <1>1, <1>2 DEF EntryFrame, GoodBlocks, FrameSet
<1>4. 1 \in 1 .. Len(code[f])
  BY <1>1 DEF GoodBlocks
<1>5. InCode(To(F, 1)) /\ To(F, 1) = F
  BY <1>2, <1>3, <1>4, GoesTo DEF To
<1>6. ASSUME NEW g, InTail(F, g) PROVE FALSE
  <2>1. ~(1 <= Len(prog.code[f]))
    BY <1>3, <1>6, AtTail
  <2> QED  BY <1>1, <2>1 DEF GoodBlocks
<1> QED  BY <1>3, <1>5, <1>6

-----------------------------------------------------------------------------
(* The stack as the running frame goes on, calls and returns.               *)
LEMMA Replaced ==
  ASSUME NEW S, StackShape(S), NEW F \in FrameSet, InCode(F), F.fn = S[Len(S)].fn
  PROVE  LET T == [S EXCEPT ![Len(S)] = F]
         IN  StackShape(T) /\ Len(T) = Len(S) /\ T[Len(T)] = F
<1>1. PICK T : T = [S EXCEPT ![Len(S)] = F]
  OBVIOUS
<1>2. S \in Seq(FrameSet) /\ Len(S) \in Nat /\ Len(S) >= 1 /\ Len(S) \in 1 .. Len(S)
  BY DEF StackShape
<1>3. T \in Seq(FrameSet) /\ Len(T) = Len(S) /\ T # <<>>
  BY <1>1, <1>2
<1>4. T[Len(S)] = F /\ \A k \in 1 .. Len(S) : k # Len(S) => T[k] = S[k]
  BY <1>1, <1>2
<1>5. \A k \in 1 .. Len(T) : InCode(T[k])
  BY <1>3, <1>4 DEF StackShape
<1>6. \A k \in 1 .. Len(T) - 1 : Waits(T[k], T[k + 1])
  <2> TAKE k \in 1 .. Len(T) - 1
  <2>1. k \in 1 .. Len(S) /\ k # Len(S) /\ k + 1 \in 1 .. Len(S) /\ k \in 1 .. Len(S) - 1
    BY <1>2, <1>3
  <2>2. T[k] = S[k] /\ T[k + 1].fn = S[k + 1].fn
    BY <1>4, <2>1
  <2>3. Waits(S[k], S[k + 1])
    BY <2>1 DEF StackShape
  <2> QED  BY <2>2, <2>3 DEF Waits
<1> QED  BY <1>1, <1>3, <1>4, <1>5, <1>6 DEF StackShape

(* A frame that waits for another may have it put on top.                   *)
LEMMA Pushed ==
  ASSUME NEW S, StackShape(S), NEW G \in FrameSet, InCode(G), Waits(S[Len(S)], G)
  PROVE  /\ StackShape(Append(S, G)) /\ Len(Append(S, G)) = Len(S) + 1
         /\ Append(S, G)[Len(Append(S, G))] = G
<1>1. PICK T : T = Append(S, G)
  OBVIOUS
<1>2. S \in Seq(FrameSet) /\ Len(S) \in Nat /\ Len(S) >= 1
  BY DEF StackShape
<1>3. T \in Seq(FrameSet) /\ Len(T) = Len(S) + 1 /\ T # <<>> /\ T[Len(S) + 1] = G
  BY <1>1, <1>2
<1>4. \A k \in 1 .. Len(S) : T[k] = S[k]
  BY <1>1, <1>2
<1>5. \A k \in 1 .. Len(T) : InCode(T[k])
  <2> TAKE k \in 1 .. Len(T)
  <2>1. k = Len(S) + 1 \/ k \in 1 .. Len(S)
    BY <1>2, <1>3
  <2> QED  BY <1>3, <1>4, <2>1 DEF StackShape
<1>6. \A k \in 1 .. Len(T) - 1 : Waits(T[k], T[k + 1])
  <2> TAKE k \in 1 .. Len(T) - 1
  <2>1. k \in 1 .. Len(S) /\ (k = Len(S) \/ (k \in 1 .. Len(S) - 1 /\ k + 1 \in 1 .. Len(S)))
    BY <1>2, <1>3
  <2> QED  BY <1>3, <1>4, <2>1 DEF StackShape
<1> QED  BY <1>1, <1>3, <1>5, <1>6 DEF StackShape

(* The frame below a returning one waits for it.                            *)
LEMMA Popped ==
  ASSUME NEW S, StackShape(S), Len(S) # 1
  PROVE  LET T == SubSeq(S, 1, Len(S) - 1)
         IN  StackShape(T) /\ Len(T) = Len(S) - 1 /\ Waits(T[Len(T)], S[Len(S)])
<1>1. PICK T : T = SubSeq(S, 1, Len(S) - 1)
  OBVIOUS
<1>2. S \in Seq(FrameSet) /\ Len(S) \in Nat /\ Len(S) > 1
  <2>1. S \in Seq(FrameSet) /\ S # <<>>
    BY DEF StackShape
  <2>2. Len(S) \in Nat /\ Len(S) >= 1
    BY <2>1
  <2>3. \A a \in Nat : a >= 1 /\ a # 1 => a > 1
    OBVIOUS
  <2> QED  BY <2>1, <2>2, <2>3
<1>3. T \in Seq(FrameSet) /\ Len(T) = Len(S) - 1 /\ T # <<>>
  <2>1. T \in Seq(FrameSet) /\ Len(T) = Len(S) - 1
    BY <1>1, <1>2
  <2> QED  BY <1>2, <2>1
<1>4. \A k \in 1 .. Len(S) - 1 : T[k] = S[k] /\ k \in 1 .. Len(S)
  BY <1>1, <1>2
<1>5. \A k \in 1 .. Len(T) : InCode(T[k])
  BY <1>3, <1>4 DEF StackShape
<1>6. \A k \in 1 .. Len(T) - 1 : Waits(T[k], T[k + 1])
  <2> TAKE k \in 1 .. Len(T) - 1
  <2>1. k \in 1 .. Len(S) - 1 /\ k + 1 \in 1 .. Len(S) - 1
    BY <1>2, <1>3
  <2> QED  BY <1>4, <2>1 DEF StackShape
<1>7. Waits(T[Len(T)], S[Len(S)])
  <2>1. Len(T) \in 1 .. Len(S) - 1 /\ Len(T) + 1 = Len(S)
    BY <1>2, <1>3
  <2>2. Waits(S[Len(T)], S[Len(T) + 1])
    BY <2>1 DEF StackShape
  <2> QED  BY <1>4, <2>1, <2>2
<1> QED  BY <1>1, <1>3, <1>5, <1>6, <1>7 DEF StackShape

-----------------------------------------------------------------------------
(* A run leaves the program as the pass left it.                            *)
LEMMA SameRun ==
  ASSUME UNCHANGED vars, NEW S, NEW lev, NEW gr, RunShape(S, lev, gr)
  PROVE  RunShape(S, lev, gr)'
<1>1. prog' = prog /\ code' = code /\ visited' = visited
  BY DEF vars
<1>2. \A F : InstsOf(F)' = InstsOf(F) /\ At(F)' = At(F) /\ Before(F)' = Before(F)
  BY <1>1 DEF InstsOf, At, Before
<1>3. \A F, g : InTail(F, g)' <=> InTail(F, g)
  BY <1>1 DEF InTail, TailOf, GateOf, Lowers
<1>4. StackShape(S)'
  BY <1>1, <1>2 DEF RunShape, StackShape, InCode, Waits
<1>5. Asked(S[Len(S)], lev, gr)' /\ Inside(S[Len(S)], lev)'
  BY <1>1, <1>2, <1>3 DEF RunShape, Asked, Inside
<1> QED  BY <1>4, <1>5 DEF RunShape

(* The pass goes on as it would without the run.                            *)
LEMMA RunIsPass == RunSpec => Spec
<1>1. Init /\ RunInit => Init
  OBVIOUS
<1>2. [RunNext]_allVars => [Next]_vars
  BY DEF RunNext, allVars, Compile, Start, RequestLevel, Compare, CheckGranted, ExitDenied,
         Invoke, Branch, Return, Ended
<1> QED  BY <1>1, <1>2, PTL DEF RunSpec, Spec

(* What runs is the instruction the running frame is at.                    *)
LEMMA CurrentIsAt ==
  ASSUME InCode(Frame)
  PROVE  Current = At(Frame)
<1>1. PICK F : F = Frame
  OBVIOUS
<1>2. F.label \in 1 .. Len(code[F.fn])
  BY <1>1 DEF InCode
<1>3. InstsAt(F.fn, F.label) = InstsOf(F)
  BY <1>2 DEF InstsAt, InstsOf, Labelled
<1> QED  BY <1>1, <1>3 DEF Current, At

(* The frames a run has, and what is so of the running one.                 *)
LEMMA TheFrame ==
  ASSUME RunInv, mode = "run"
  PROVE  /\ pc = "done" /\ StackShape(stack) /\ Len(stack) \in Nat /\ Len(stack) >= 1
         /\ Frame \in FrameSet /\ InCode(Frame) /\ Current = At(Frame)
         /\ Asked(Frame, level, granted) /\ Inside(Frame, level)
<1>1. pc = "done" /\ StackShape(stack) /\ Asked(Frame, level, granted) /\ Inside(Frame, level)
  BY DEF RunInv, RunShape, Frame
<1>2. stack \in Seq(FrameSet) /\ stack # <<>>
  BY <1>1 DEF StackShape
<1>3. Len(stack) \in Nat /\ Len(stack) >= 1 /\ Len(stack) \in 1 .. Len(stack)
  BY <1>2
<1>4. Frame \in FrameSet /\ InCode(Frame)
  BY <1>1, <1>2, <1>3 DEF Frame, StackShape
<1> QED  BY <1>1, <1>3, <1>4, CurrentIsAt

(* What the two ways on within a function make of the stack.                *)
LEMMA Moves ==
  ASSUME stack \in Seq(FrameSet), stack # <<>>
  PROVE  /\ Advanced = [stack EXCEPT ![Len(stack)] = Ahead(Frame)]
         /\ \A l : JumpedTo(l) = [stack EXCEPT ![Len(stack)] = To(Frame, l)]
  BY DEF Advanced, JumpedTo, Ahead, To, Frame

(* A running frame may be replaced by one with the same function.           *)
LEMMA TopRuns ==
  ASSUME StackShape(stack), NEW F \in FrameSet, InCode(F), F.fn = Frame.fn, NEW lev, NEW gr,
         Asked(F, lev, gr), Inside(F, lev)
  PROVE  RunShape([stack EXCEPT ![Len(stack)] = F], lev, gr)
<1>1. PICK T : T = [stack EXCEPT ![Len(stack)] = F]
  OBVIOUS
<1>2. StackShape(T) /\ T[Len(T)] = F
  BY ZenonT(40), <1>1, Replaced DEF Frame
<1>3. RunShape(T, lev, gr)
  BY <1>2 DEF RunShape
<1> QED  BY <1>1, <1>3

(* The check of a gate lets in who was granted, and who was not to where    *)
(* the program exits.                                                       *)
LEMMA Checked ==
  ASSUME TypeOK, GateInv, FlowInv, NEW F \in FrameSet, InCode(F), At(F).op = "check",
         NEW lev, NEW gr, Asked(F, lev, gr), NEW l \in At(F).to, gr <=> l # At(F).denied
  PROVE  /\ To(F, l) \in FrameSet /\ InCode(To(F, l)) /\ To(F, l).fn = F.fn
         /\ Asked(To(F, l), lev, gr) /\ Inside(To(F, l), lev)
         /\ F.next >= 3 /\ (gr => \E g \in prog.defs : InTail(To(F, l), g))
<1>1. PICK f, B, n : f = F.fn /\ B = Labelled(code[f]) /\ n = Len(code[f])
  OBVIOUS
<1>2. f \in prog.defs /\ F.label \in 1 .. n /\ GoodBlocks(f, B, n)
  BY <1>1, BlocksAreGood DEF InCode
<1>3. PICK s : s = B[F.label]
  OBVIOUS
<1>4. s = InstsOf(F) /\ At(F) = s[F.next]
  BY <1>1, <1>3 DEF InstsOf, At
<1>5. s \in Seq(Inst) /\ F.next = Len(s) /\ BlockShape(s, n) /\ F.next \in Nat /\ F.next \in 1 .. Len(s)
  <2>1. At(F).op \in TerminatorOps /\ At(F).op # "invoke"
    BY OpsShape
  <2>2. F.next = Len(s)
    BY <1>4, <2>1, InBlock
  <2> QED  BY <1>1, <1>4, <2>2, InBlock DEF InCode
<1>6. F.next >= 3 /\ s[F.next - 1].op = "cmp" /\ s[F.next - 2].op = "syscall"
  BY <1>4, <1>5 DEF BlockShape
<1>7. PICK d, m, g : GateOf(f, B, n, visited, F.label, d, m, g)
  BY <1>2, <1>3, <1>4, <1>5 DEF GoodBlocks, Shape, ChecksGate
<1>8. /\ d \in 1 .. n /\ m \in 1 .. n /\ d # m /\ Refuses(B[d]) /\ B[m][1].callee = g
      /\ At(F).to = {d, m} /\ At(F).denied = d
  BY <1>3, <1>4, <1>5, <1>7, Instructions DEF GateOf
<1>9. PICK ce \in ConstantsRead(prog.section[g]) : s[F.next - 2] = Syscall(ce)
  BY <1>3, <1>5, <1>7 DEF GateOf
<1>10. l \in 1 .. n /\ (gr => l = m) /\ (~gr => l = d)
  BY <1>8
<1>11. /\ To(F, l) \in FrameSet /\ InCode(To(F, l)) /\ To(F, l).fn = f
       /\ To(F, l).label = l /\ To(F, l).next = 1
  BY <1>1, <1>2, <1>10, GoesTo
<1>12. Asked(To(F, l), lev, gr)
  BY <1>11 DEF Asked
<1>13. Inside(To(F, l), lev)
  <2> SUFFICES ASSUME NEW e \in prog.defs, InTail(To(F, l), e) PROVE lev \in ConstantsRead(prog.section[e])
    BY DEF Inside
  <2>1. ~Refuses(InstsOf(To(F, l))) /\ InstsOf(To(F, l))[1].callee = e
    BY <1>1, <1>2, <1>11, AtTail
  <2>2. ~Refuses(B[l]) /\ B[l][1].callee = e
    BY <1>1, <1>11, <2>1 DEF InstsOf
  <2>3. gr /\ l = m /\ e = g
    BY <1>8, <1>10, <2>2
  <2>4. lev = s[F.next - 2].level
    BY <1>4, <1>6, <2>3 DEF Asked, Before
  <2>5. lev = ce
    BY <1>9, <2>4, Instructions
  <2> QED  BY <1>9, <2>3, <2>5
<1>14. ASSUME gr PROVE \E h \in prog.defs : InTail(To(F, l), h)
  <2>1. TailOf(f, B, n, visited, l, g) /\ g \in prog.defs
    BY <1>7, <1>10, <1>14 DEF TailOf, GateOf
  <2> QED  BY <1>1, <1>11, <2>1 DEF InTail
<1> QED  BY <1>1, <1>6, <1>11, <1>12, <1>13, <1>14

(* A branch of the program goes to a block the program had.                 *)
LEMMA Branched ==
  ASSUME TypeOK, GateInv, FlowInv, NEW F \in FrameSet, InCode(F), At(F).op = "br", NEW l \in At(F).to
  PROVE  /\ To(F, l) \in FrameSet /\ InCode(To(F, l)) /\ To(F, l).fn = F.fn /\ To(F, l).next = 1
         /\ \A g : ~InTail(To(F, l), g)
<1>1. PICK f, B, n : f = F.fn /\ B = Labelled(code[f]) /\ n = Len(code[f])
  OBVIOUS
<1>2. f \in prog.defs /\ F.label \in 1 .. n /\ GoodBlocks(f, B, n)
  BY <1>1, BlocksAreGood DEF InCode
<1>3. PICK s : s = B[F.label]
  OBVIOUS
<1>4. At(F) = s[F.next] /\ F.next \in 1 .. Len(s)
  BY <1>1, <1>3 DEF InstsOf, At, InCode
<1>5. l \in 1 .. Len(prog.code[f])
  BY <1>2, <1>3, <1>4 DEF GoodBlocks, Shape, JumpsKept
<1>6. l \in 1 .. n /\ l <= Len(prog.code[f])
  <2>1. n \in Nat /\ n >= Len(prog.code[f]) /\ prog.code[f] \in Seq(Block)
    BY <1>2, ProgramShape DEF GoodBlocks, Shape
  <2> QED  BY <1>5, <2>1
<1>7. /\ To(F, l) \in FrameSet /\ InCode(To(F, l)) /\ To(F, l).fn = f
      /\ To(F, l).label = l /\ To(F, l).next = 1
  BY <1>1, <1>2, <1>6, GoesTo
<1>8. ASSUME NEW g, InTail(To(F, l), g) PROVE FALSE
  <2>1. ~(l <= Len(prog.code[f]))
    BY <1>1, <1>2, <1>7, <1>8, AtTail
  <2> QED  BY <1>6, <2>1
<1> QED  BY <1>1, <1>7, <1>8

(* Every step of the run keeps its shape.                                   *)
LEMMA RunStays == TypeOK /\ GateInv /\ FlowInv /\ RunInv /\ [RunNext]_allVars => RunInv'
<1> SUFFICES ASSUME TypeOK, GateInv, FlowInv, RunInv, [RunNext]_allVars, mode' = "run"
             PROVE  pc' = "done" /\ RunShape(stack, level, granted)'
  BY DEF RunInv
<1>1. ASSUME UNCHANGED vars, pc = "done", RunShape(stack', level', granted')
      PROVE  pc' = "done" /\ RunShape(stack, level, granted)'
  <2>1. PICK S, lev, gr : S = stack' /\ lev = level' /\ gr = granted'
    OBVIOUS
  <2>2. RunShape(S, lev, gr)'
    BY <1>1, <2>1, SameRun
  <2> QED  BY <1>1, <2>1, <2>2 DEF vars
<1> DEFINE Goes(F, lev, gr) ==
      /\ F \in FrameSet /\ InCode(F) /\ F.fn = Frame.fn /\ Asked(F, lev, gr) /\ Inside(F, lev)
<1>2. ASSUME mode = "run", UNCHANGED vars, NEW F, stack' = [stack EXCEPT ![Len(stack)] = F],
             Goes(F, level', granted')
      PROVE  pc' = "done" /\ RunShape(stack, level, granted)'
  <2>1. pc = "done" /\ StackShape(stack)
    BY <1>2, TheFrame
  <2>2. PICK lev, gr : lev = level' /\ gr = granted'
    OBVIOUS
  <2>3. RunShape([stack EXCEPT ![Len(stack)] = F], lev, gr)
    BY <1>2, <2>1, <2>2, TopRuns
  <2> QED  BY <1>1, <1>2, <2>1, <2>2, <2>3
<1> HIDE DEF Goes
<1>3. CASE Compile
  <2>1. mode = "run" /\ pc = "scan"
    BY <1>3 DEF Compile, runVars
  <2> QED  BY <2>1, TheFrame
<1>4. CASE Start
  <2>1. pc = "done" /\ Main \in prog.defs /\ UNCHANGED vars /\ stack' = <<EntryFrame(Main)>>
    BY <1>4 DEF Start
  <2>2. PICK G : G = EntryFrame(Main)
    OBVIOUS
  <2>3. G \in FrameSet /\ InCode(G) /\ G.next = 1 /\ \A g : ~InTail(G, g)
    BY <2>1, <2>2, Enters
  <2>4. PICK S, lev, gr : S = <<G>> /\ lev = level' /\ gr = granted'
    OBVIOUS
  <2>5. S \in Seq(FrameSet) /\ Len(S) = 1 /\ S # <<>> /\ S[1] = G
    BY <2>3, <2>4
  <2>6. StackShape(S)
    BY <2>3, <2>5 DEF StackShape
  <2>7. Asked(G, lev, gr) /\ Inside(G, lev)
    BY <2>3 DEF Asked, Inside
  <2>8. RunShape(S, lev, gr)
    BY <2>5, <2>6, <2>7 DEF RunShape
  <2> QED  BY <1>1, <2>1, <2>2, <2>4, <2>8
<1> DEFINE Known == mode = "run" => /\ stack \in Seq(FrameSet) /\ stack # <<>>
                                    /\ At(Frame) = Current /\ Frame \in FrameSet /\ InCode(Frame)
                                    /\ Asked(Frame, level, granted) /\ Inside(Frame, level)
<1>5. Known
  BY TheFrame DEF StackShape
<1>6. ASSUME mode = "run", UNCHANGED vars, stack' = Advanced, Current.op \notin TerminatorOps,
             \/ Current.op = "syscall" /\ (granted' => level' = Current.level)
             \/ Current.op = "cmp" /\ UNCHANGED <<level, granted>>
             \/ Current.op = "call"
      PROVE  pc' = "done" /\ RunShape(stack, level, granted)'
  <2>1. PICK F, G : F = Frame /\ G = Ahead(F)
    OBVIOUS
  <2>2. stack' = [stack EXCEPT ![Len(stack)] = G]
    BY <1>5, <1>6, <2>1, Moves
  <2>3. F \in FrameSet /\ InCode(F) /\ At(F) = Current /\ At(F).op \notin TerminatorOps
    BY <1>5, <1>6, <2>1
  <2>4. /\ G \in FrameSet /\ InCode(G) /\ Before(G) = Current
        /\ G.fn = F.fn /\ G.next = F.next + 1 /\ G.next >= 2 /\ InstsOf(G) = InstsOf(F)
        /\ (G.next >= 3 => InstsOf(G)[G.next - 2] = Before(F))
    BY <2>1, <2>3, GoesAhead
  <2>5. G.next # 1 /\ (G.next >= 3 => F.next >= 2)
    <3>1. F.next \in Nat
      BY <2>3 DEF FrameSet
    <3> QED  BY <2>4, <3>1
  <2>6. Inside(G, level')
    BY <2>5 DEF Inside
  <2>7. Asked(G, level', granted')
    <3>1. CASE Current.op = "syscall" /\ (granted' => level' = Current.level)
      BY <2>4, <3>1 DEF Asked
    <3>2. CASE Current.op = "cmp" /\ UNCHANGED <<level, granted>>
      BY <1>5, <1>6, <2>1, <2>4, <2>5, <3>2 DEF Asked
    <3>3. CASE Current.op = "call"
      BY <2>4, <3>3 DEF Asked
    <3> QED  BY <1>6, <3>1, <3>2, <3>3
  <2>8. Goes(G, level', granted')
    BY <2>1, <2>4, <2>6, <2>7 DEF Goes
  <2> QED  BY <1>2, <1>6, <2>2, <2>8
<1>7. CASE RequestLevel
  <2>1. mode = "run" /\ UNCHANGED vars /\ stack' = Advanced /\ Current.op = "syscall"
        /\ (granted' => level' = Current.level)
    BY <1>7 DEF RequestLevel
  <2> QED  BY <1>6, <2>1, OpsShape
<1>8. CASE Compare
  <2>1. mode = "run" /\ UNCHANGED vars /\ stack' = Advanced /\ Current.op = "cmp" /\ UNCHANGED <<level, granted>>
    BY <1>8 DEF Compare
  <2> QED  BY <1>6, <2>1, OpsShape
<1>9. CASE CheckGranted
  <2>1. PICK l \in Current.to : (granted <=> l # Current.denied) /\ stack' = JumpedTo(l)
    BY <1>9 DEF CheckGranted
  <2>2. mode = "run" /\ UNCHANGED vars /\ UNCHANGED <<level, granted>> /\ Current.op = "check"
    BY <1>9 DEF CheckGranted
  <2>3. PICK F, G : F = Frame /\ G = To(F, l)
    OBVIOUS
  <2>4. stack' = [stack EXCEPT ![Len(stack)] = G]
    BY <1>5, <2>1, <2>2, <2>3, Moves
  <2>5. G \in FrameSet /\ InCode(G) /\ G.fn = F.fn /\ Asked(G, level, granted) /\ Inside(G, level)
    BY <1>5, <2>1, <2>2, <2>3, Checked
  <2>6. Goes(G, level', granted')
    BY <2>2, <2>3, <2>5 DEF Goes
  <2> QED  BY <1>2, <2>2, <2>4, <2>6
<1>10. CASE ExitDenied
  BY <1>10 DEF ExitDenied
<1>11. CASE Invoke
  <2>1. mode = "run" /\ UNCHANGED vars /\ UNCHANGED <<level, granted>> /\ Current.op = "call"
    BY <1>11 DEF Invoke
  <2>2. CASE stack' = Advanced
    BY <1>6, <2>1, <2>2, OpsShape
  <2>3. ASSUME NEW g \in prog.defs, Current.callee \in {g, Indirect}, stack' = Append(Advanced, EntryFrame(g))
        PROVE  pc' = "done" /\ RunShape(stack, level, granted)'
    <3>1. PICK F, G, E, S : F = Frame /\ G = Ahead(F) /\ E = EntryFrame(g) /\ S = Advanced
      OBVIOUS
    <3>2. S = [stack EXCEPT ![Len(stack)] = G]
      BY <1>5, <2>1, <3>1, Moves
    <3>3. F \in FrameSet /\ InCode(F) /\ At(F) = Current /\ At(F).op \notin TerminatorOps
      BY <1>5, <2>1, <3>1, OpsShape
    <3>4. G \in FrameSet /\ InCode(G) /\ Before(G) = Current /\ G.fn = F.fn /\ G.next = F.next + 1 /\ G.next >= 2
      BY <3>1, <3>3, GoesAhead
    <3>5. E \in FrameSet /\ InCode(E) /\ E.fn = g /\ E.next = 1 /\ \A h : ~InTail(E, h)
      BY <3>1, Enters
    <3>6. pc = "done" /\ StackShape(stack)
      BY <2>1, TheFrame
    <3>7. StackShape(S) /\ S[Len(S)] = G
      <4>1. PICK R : R = stack
        OBVIOUS
      <4>2. StackShape(R) /\ G.fn = R[Len(R)].fn /\ S = [R EXCEPT ![Len(R)] = G]
        BY <3>1, <3>2, <3>4, <3>6, <4>1 DEF Frame
      <4> QED  BY ZenonT(40), <3>4, <4>2, Replaced
    <3>8. Waits(G, E)
      <4>1. G.next > 1
        <5>1. G.next \in Nat
          BY <3>4 DEF FrameSet
        <5> QED  BY <3>4, <5>1
      <4> QED  BY <2>1, <2>3, <3>4, <3>5, <4>1 DEF Waits
    <3>9. StackShape(Append(S, E)) /\ Append(S, E)[Len(Append(S, E))] = E
      BY <3>5, <3>7, <3>8, Pushed
    <3>10. Asked(E, level, granted) /\ Inside(E, level)
      BY <3>5 DEF Asked, Inside
    <3>11. RunShape(Append(S, E), level, granted)
      BY <3>9, <3>10 DEF RunShape
    <3> QED  BY <1>1, <2>1, <2>3, <3>1, <3>6, <3>11
  <2>4. stack' = Advanced \/ \E g \in prog.defs : Current.callee \in {g, Indirect} /\ stack' = Append(Advanced, EntryFrame(g))
    BY <1>11 DEF Invoke
  <2> QED  BY <2>2, <2>3, <2>4
<1>12. CASE Branch
  <2>1. PICK l \in Current.to : stack' = JumpedTo(l)
    BY <1>12 DEF Branch
  <2>2. mode = "run" /\ UNCHANGED vars /\ UNCHANGED <<level, granted>> /\ Current.op = "br"
    BY <1>12 DEF Branch
  <2>3. PICK F, G : F = Frame /\ G = To(F, l)
    OBVIOUS
  <2>4. stack' = [stack EXCEPT ![Len(stack)] = G]
    BY <1>5, <2>1, <2>2, <2>3, Moves
  <2>5. G \in FrameSet /\ InCode(G) /\ G.fn = F.fn /\ G.next = 1 /\ \A g : ~InTail(G, g)
    BY <1>5, <2>1, <2>2, <2>3, Branched
  <2>6. Asked(G, level', granted') /\ Inside(G, level')
    BY <2>5 DEF Asked, Inside
  <2>7. Goes(G, level', granted')
    BY <2>3, <2>5, <2>6 DEF Goes
  <2> QED  BY <1>2, <2>2, <2>4, <2>7
<1>13. CASE Return
  <2>1. mode = "run" /\ UNCHANGED vars /\ stack' = SubSeq(stack, 1, Len(stack) - 1) /\ Len(stack) # 1
    BY <1>13 DEF Return
  <2>2. pc = "done" /\ StackShape(stack)
    BY <2>1, TheFrame
  <2>3. PICK T, F : T = stack' /\ F = T[Len(T)]
    OBVIOUS
  <2>4. StackShape(T) /\ Waits(F, Frame)
    BY <2>1, <2>2, <2>3, Popped DEF Frame
  <2>5. Asked(F, level', granted') /\ Inside(F, level')
    BY <2>4 DEF Waits, Asked, Inside
  <2>6. RunShape(T, level', granted')
    BY <2>3, <2>4, <2>5 DEF RunShape
  <2> QED  BY <1>1, <2>1, <2>2, <2>3, <2>6
<1>14. CASE Ended \/ UNCHANGED allVars
  <2>1. mode = "run" /\ UNCHANGED vars /\ UNCHANGED <<stack, level, granted>>
    BY <1>14 DEF Ended, allVars, runVars
  <2>2. pc = "done" /\ RunShape(stack, level, granted)
    BY <2>1 DEF RunInv
  <2> QED  BY <1>1, <2>1, <2>2
<1> QED  BY <1>3, <1>4, <1>7, <1>8, <1>9, <1>10, <1>11, <1>12, <1>13, <1>14 DEF RunNext

(* A run is always somewhere in the functions of the program, every frame   *)
(* but the last at a call of the next one's function; granted means to be   *)
(* at the level asked for, and at the call of a gate that is the callee's.  *)
THEOREM RunsInShape == RunSpec => []RunInv
<1>1. Init /\ RunInit => RunInv
  BY DEF RunInit, RunInv
<1> QED  BY <1>1, RunIsPass, RunStays, TypeCorrect, GatesStayInShape, CallsStayGated, PTL DEF RunSpec

-----------------------------------------------------------------------------
(* The gates found by position are the tails a frame is in.                 *)
LEMMA GatedCalls ==
  ASSUME TypeOK, GateInv, FlowInv, NEW F, InCode(F), NEW g
  PROVE  g \in GatedCallee(F.fn, F.label) <=> g \in prog.defs /\ InTail(F, g)
<1>1. PICK f, B, n, m : f = F.fn /\ B = Labelled(code[f]) /\ n = Len(code[f]) /\ m = F.label
  OBVIOUS
<1>2. f \in prog.defs /\ m \in 1 .. n
  BY <1>1 DEF InCode
<1>3. f \in Function /\ code[f] \in Seq(Block) /\ View(code[f], B) /\ Shape(f, B, n, visited)
  BY <1>1, <1>2, BlocksAreGood DEF GoodBlocks
<1>4. DOMAIN code[f] = 1 .. n
  BY <1>1, <1>3
<1>5. \A k, j \in 1 .. n :
        IsGate(f, g, k, j) <=> \E d : GateOf(f, B, n, visited, code[f][k].label, d, code[f][j].label, g)
  BY ZenonT(40), <1>1, <1>3, <1>4, GatesByLabel
<1>6. ASSUME g \in GatedCallee(f, m) PROVE g \in prog.defs /\ InTail(F, g)
  <2>1. g \in prog.defs /\ \E e \in Gates(f, g) : code[f][e[2]].label = m
    BY <1>6 DEF GatedCallee
  <2>2. PICK e \in Gates(f, g) : code[f][e[2]].label = m
    BY <2>1
  <2>3. e[1] \in 1 .. n /\ e[2] \in 1 .. n /\ IsGate(f, g, e[1], e[2])
    BY <1>4 DEF Gates
  <2>4. PICK d : GateOf(f, B, n, visited, code[f][e[1]].label, d, m, g)
    BY <1>5, <2>2, <2>3
  <2>5. TailOf(f, B, n, visited, m, g)
    BY <2>4 DEF TailOf, GateOf
  <2> QED  BY <1>1, <2>1, <2>5 DEF InTail
<1>7. ASSUME g \in prog.defs, InTail(F, g) PROVE g \in GatedCallee(f, m)
  <2>1. PICK l, d : GateOf(f, B, n, visited, l, d, m, g)
    BY <1>1, <1>7 DEF InTail, TailOf
  <2>2. l \in 1 .. n
    BY <2>1 DEF GateOf
  <2>3. PICK k \in 1 .. n : code[f][k].label = l
    BY <1>1, <1>3, <2>2 DEF View
  <2>4. PICK j \in 1 .. n : code[f][j].label = m
    BY <1>1, <1>2, <1>3 DEF View
  <2>5. IsGate(f, g, k, j)
    BY <1>5, <2>1, <2>3, <2>4
  <2>6. <<k, j>> \in Gates(f, g)
    BY <1>4, <2>5 DEF Gates
  <2> QED  BY <1>7, <2>4, <2>6 DEF GatedCallee
<1> QED  BY <1>1, <1>6, <1>7

(* In any program and at any constants: when a call enters a function       *)
(* through a gate, the kernel has granted that function's level and the     *)
(* process is at it; after a refusal the function is not entered.           *)
THEOREM DeniedIsNotEntered == RunSpec => DeniedMeansNotEntered
<1> DEFINE Entry == LET entered == prog.section[stack'[Len(stack')].fn]
                    IN  Tagged(entered) => level = entered
<1>1. ASSUME TypeOK, GateInv, FlowInv, RunInv, [RunNext]_allVars,
             mode = "run", Len(stack') > Len(stack), AtGatedCall
      PROVE  Entry
  <2>1. /\ StackShape(stack) /\ Frame \in FrameSet /\ InCode(Frame) /\ Current = At(Frame)
        /\ Inside(Frame, level)
    BY <1>1, TheFrame
  <2>2. stack \in Seq(FrameSet) /\ stack # <<>> /\ Len(stack) \in Nat /\ Len(stack) >= 1
    <3>1. stack \in Seq(FrameSet) /\ stack # <<>>
      BY <2>1 DEF StackShape
    <3> QED  BY <3>1
  <2>3. Len(Advanced) = Len(stack) /\ \A l : Len(JumpedTo(l)) = Len(stack)
    BY <2>2 DEF Advanced, JumpedTo
  <2>4. PICK g \in GatedCallee(Frame.fn, Frame.label) : Frame.next = 1
    BY <1>1 DEF AtGatedCall
  <2>5. g \in prog.defs /\ InTail(Frame, g)
    BY <1>1, <2>1, <2>4, GatedCalls
  <2>6. Current.callee = g
    <3>1. Frame.fn \in prog.defs
      BY <2>1 DEF InCode
    <3>2. InstsOf(Frame)[1].callee = g
      BY <1>1, <2>5, <3>1, AtTail
    <3> QED  BY <2>1, <2>4, <3>2 DEF At
  <2>7. level \in ConstantsRead(prog.section[g])
    BY <2>1, <2>4, <2>5 DEF Inside
  <2>8. g # Indirect /\ g \in Function
    BY <1>1, <2>5, ProgramShape, NamesAssumption
  <2>9. stack' = Append(Advanced, EntryFrame(g))
    <3>1. CASE Invoke
      <4>1. stack' = Append(Advanced, EntryFrame(g)) \/ stack' = Advanced
        BY <2>5, <2>6, <2>8, <3>1 DEF Invoke
      <4> QED  BY <1>1, <2>2, <2>3, <4>1
    <3>2. CASE RequestLevel \/ Compare
      BY <1>1, <2>2, <2>3, <3>2 DEF RequestLevel, Compare
    <3>3. CASE CheckGranted \/ Branch
      <4>1. \E l : stack' = JumpedTo(l)
        BY <3>3 DEF CheckGranted, Branch
      <4> QED  BY <1>1, <2>2, <2>3, <4>1
    <3>4. CASE Return
      <4>1. Len(stack') = Len(stack) - 1
        <5>1. PICK S : S = stack
          OBVIOUS
        <5>2. PICK m : m = Len(S) - 1
          OBVIOUS
        <5>3. Len(SubSeq(S, 1, Len(S) - 1)) = Len(S) - 1
          <6>1. m \in Nat /\ S \in Seq(FrameSet)
            BY <2>2, <5>1, <5>2
          <6>2. Len(SubSeq(S, 1, m)) = m
            BY <6>1
          <6> QED  BY <5>2, <6>2
        <5> QED  BY <3>4, <5>1, <5>3 DEF Return
      <4> QED  BY <1>1, <2>2, <4>1
    <3>5. CASE Compile \/ ExitDenied \/ Ended \/ UNCHANGED allVars
      <4>1. stack' = stack
        BY <3>5 DEF Compile, ExitDenied, Ended, allVars, runVars
      <4> QED  BY <1>1, <2>2, <4>1
    <3>6. CASE Start
      BY <1>1, <3>6 DEF Start
    <3> QED  BY <1>1, <3>1, <3>2, <3>3, <3>4, <3>5, <3>6 DEF RunNext
  <2>10. stack'[Len(stack')].fn = g
    <3>1. Advanced \in Seq(FrameSet)
      <4>1. PICK F, G : F = Frame /\ G = Ahead(F)
        OBVIOUS
      <4>2. G \in FrameSet
        BY <2>1, <4>1 DEF Ahead, FrameSet
      <4>3. Advanced = [stack EXCEPT ![Len(stack)] = G]
        BY <2>2, <4>1, Moves
      <4> QED  BY <2>2, <4>2, <4>3
    <3>2. Append(Advanced, EntryFrame(g))[Len(Append(Advanced, EntryFrame(g)))] = EntryFrame(g)
      <4>1. PICK S, E : S = Advanced /\ E = EntryFrame(g)
        OBVIOUS
      <4>2. Len(Append(S, E)) = Len(S) + 1 /\ Append(S, E)[Len(S) + 1] = E
        BY <3>1, <4>1
      <4> QED  BY <4>1, <4>2
    <3> QED  BY <2>9, <3>2 DEF EntryFrame
  <2> QED  BY <2>7, <2>10 DEF ConstantsRead
<1>2. TypeOK /\ GateInv /\ FlowInv /\ RunInv /\ [RunNext]_allVars =>
        [mode = "run" /\ Len(stack') > Len(stack) /\ AtGatedCall => Entry]_allVars
  BY <1>1
<1> QED  BY <1>2, RunIsPass, RunsInShape, TypeCorrect, GatesStayInShape, CallsStayGated, PTL
            DEF RunSpec, DeniedMeansNotEntered

-----------------------------------------------------------------------------
(* The level of a function's own code: its own, or once a request to be     *)
(* less privileged was refused more privileged than that.                   *)
Own(f, lev, st) == lev <= prog.section[f] /\ (~st => lev = prog.section[f])

(* Behind the call of a gate it is still what the callee had; everywhere    *)
(* else but in a gate that was granted it is the function's own.            *)
AtLevel(F, lev, gr, st) ==
  /\ F.next = 2 => \A g \in prog.defs : InTail(F, g) => lev <= prog.section[g]
  /\ (/\ F.next <= 2 => \A g \in prog.defs : ~InTail(F, g)
      /\ At(F).op \in {"cmp", "check"} => ~gr)
     => Own(F.fn, lev, st)

LevelInv ==
  /\ level \in Int
  /\ mode = "compile" => level = LeastPrivileged
  /\ mode = "run" /\ GatesSuffice => AtLevel(Frame, level, granted, stuck)

(* A level asked for is a number.                                           *)
LEMMA LevelsAreNumbers == \A x \in Inst : x.op = "syscall" => x.level \in Int
  BY DEF Inst, Tag, Level, LeastPrivileged

(* What the levels of the functions are when the gates suffice.             *)
LEMMA Sections ==
  ASSUME TypeOK, GatesSuffice, NEW f \in prog.defs
  PROVE  /\ prog.section[f] \in Int /\ prog.section[f] # Startup
         /\ ConstantsRead(prog.section[f]) = {prog.section[f]}
         /\ LevelsRead(prog.section[f]) = {prog.section[f]}
  BY SectionsAssumption DEF GatesSuffice, Tagged, ConstantsRead, LevelsRead

(* A frame that is at neither a call nor a syscall is at no gated call nor  *)
(* just behind one.                                                         *)
LEMMA NotAtTail ==
  ASSUME TypeOK, GateInv, FlowInv, NEW F \in FrameSet, InCode(F), NEW g, InTail(F, g), F.next <= 2
  PROVE  (F.next = 1 /\ At(F).op \in CallOps /\ At(F).callee = g) \/ (F.next = 2 /\ At(F).op = "syscall")
<1>1. F.next \in Nat /\ F.next >= 1
  BY InBlock
<1>2. F.next = 1 \/ F.next = 2
  BY <1>1
<1>3. F.fn \in prog.defs
  BY DEF InCode
<1>4. InstsOf(F)[1].op \in CallOps /\ InstsOf(F)[1].callee = g /\ InstsOf(F)[2].op = "syscall"
  BY <1>3, AtTail
<1> QED  BY <1>2, <1>4 DEF At

(* In a program the gates suffice for, a call is of a function that is as   *)
(* privileged as its caller, or from the tail of a gate.                    *)
LEMMA CallsOf ==
  ASSUME TypeOK, GateInv, FlowInv, AllVisited, pc = "done", GatesSuffice,
         NEW F \in FrameSet, InCode(F), NEW i \in 1 .. Len(InstsOf(F)), InstsOf(F)[i].op = "call",
         NEW h, h = InstsOf(F)[i].callee
  PROVE  /\ h # Indirect
         /\ h \in prog.defs => /\ prog.section[h] <= prog.section[F.fn]
                               /\ prog.section[h] < prog.section[F.fn] => i = 1 /\ InTail(F, h)
<1>1. PICK f, B, n, l : f = F.fn /\ B = Labelled(code[f]) /\ n = Len(code[f]) /\ l = F.label
  OBVIOUS
<1>2. f \in prog.defs /\ l \in 1 .. n /\ InstsOf(F) = B[l]
  BY <1>1 DEF InCode, InstsOf
<1>3. /\ View(code[f], B) /\ CallsKept(f, B, n) /\ CallsGated(f, B, n, visited)
      /\ code[f] \in Seq(Block) /\ B[l] \in Seq(Inst)
  BY <1>1, <1>2, BlocksAreGood DEF GoodBlocks, FlowShape
<1>4. i \in 1 .. Len(B[l]) /\ B[l][i].op = "call" /\ h = B[l][i].callee
  BY <1>2
<1>5. PICK c \in CallsIn(f) : CallTo(f, c) = h
  BY <1>2, <1>3, <1>4 DEF CallsKept
<1>6. h # Indirect /\ (h \in prog.defs => prog.section[h] <= prog.section[f])
  BY <1>2, <1>5 DEF GatesSuffice
<1>7. ASSUME h \in prog.defs, prog.section[h] < prog.section[f] PROVE i = 1 /\ InTail(F, h)
  <2>1. PICK k \in 1 .. n : code[f][k].label = l
    BY ZenonT(60), <1>1, <1>2, <1>3 DEF View
  <2>2. code[f][k].insts = B[l] /\ k \in DOMAIN code[f]
    <3>1. DOMAIN code[f] = 1 .. n
      BY <1>1, <1>3
    <3>2. B[code[f][k].label] = code[f][k].insts
      BY <1>1, <1>3 DEF View
    <3> QED  BY <2>1, <3>1, <3>2
  <2>3. i \in DOMAIN code[f][k].insts
    BY <1>3, <1>4, <2>2
  <2>4. IsSite(f, k, i) /\ CalleeAt(f, k, i) = h
    BY <1>2, <1>4, <1>7, <2>2, <2>3, Sections, OpsShape DEF IsSite, CalleeAt
  <2>5. <<f, h>> \in visited
    BY <1>2, <2>2, <2>3, <2>4 DEF AllVisited, Unvisited
  <2>6. i = 1 /\ TailOf(f, B, n, visited, l, h)
    BY <1>2, <1>3, <1>4, <1>7, <2>5 DEF CallsGated
  <2> QED  BY <1>1, <2>6 DEF InTail
<1> QED  BY <1>1, <1>6, <1>7

-----------------------------------------------------------------------------
(* AtLevel says of the program what it said before a step of the run.       *)
LEMMA SameLevel ==
  ASSUME UNCHANGED vars, NEW F, NEW lev, NEW gr, NEW st
  PROVE  /\ GatesSuffice' <=> GatesSuffice
         /\ AtLevel(F, lev, gr, st) => AtLevel(F, lev, gr, st)'
<1>1. prog' = prog /\ code' = code /\ visited' = visited
  BY DEF vars
<1>2. At(F)' = At(F) /\ \A g : InTail(F, g)' <=> InTail(F, g)
  BY <1>1 DEF At, InstsOf, InTail, TailOf, GateOf, Lowers
<1>3. GatesSuffice' <=> GatesSuffice
  BY <1>1 DEF GatesSuffice, CallsIn, CallTo, Lowering
<1>4. AtLevel(F, lev, gr, st) => AtLevel(F, lev, gr, st)'
  BY <1>1, <1>2 DEF AtLevel, Own
<1> QED  BY <1>3, <1>4

(* The steps of the run, one by one, in a program the gates suffice for.    *)
Known(F, lev, gr) ==
  /\ F \in FrameSet /\ InCode(F) /\ F.fn \in prog.defs /\ Asked(F, lev, gr) /\ Inside(F, lev)

(* Where a frame is not in a gate, the level is its function's.             *)
LEMMA OwnCode ==
  ASSUME TypeOK, GateInv, FlowInv, NEW F, NEW lev, NEW gr, NEW st, Known(F, lev, gr),
         AtLevel(F, lev, gr, st), At(F).op \notin CallOps \cup {"syscall", "cmp", "check"}
  PROVE  Own(F.fn, lev, st)
<1>1. F.next <= 2 => \A g \in prog.defs : ~InTail(F, g)
  BY NotAtTail DEF Known
<1> QED  BY <1>1 DEF AtLevel

(* What the kernel may answer to the request a frame is at.                 *)
Answered(F, lev, st, lev2, gr2, st2) ==
  \/ gr2 = TRUE /\ lev2 = At(F).level /\ st2 = st
  \/ gr2 = FALSE /\ lev2 = lev /\ st2 = (st \/ At(F).level > lev)

(* A request, granted or not, in front of a comparison or in a tail.        *)
LEMMA LevelAfterRequest ==
  ASSUME TypeOK, GateInv, FlowInv, GatesSuffice, NEW F, NEW lev \in Int, NEW gr, NEW st,
         Known(F, lev, gr), AtLevel(F, lev, gr, st), At(F).op = "syscall",
         NEW lev2, NEW gr2, NEW st2, Answered(F, lev, st, lev2, gr2, st2)
  PROVE  lev2 \in Int /\ AtLevel(Ahead(F), lev2, gr2, st2)
<1>1. PICK f, B, n, l, s : /\ f = F.fn /\ B = Labelled(code[f]) /\ n = Len(code[f]) /\ l = F.label
                           /\ s = InstsOf(F)
  OBVIOUS
<1>2. /\ f \in prog.defs /\ l \in 1 .. n /\ s = B[l] /\ At(F) = s[F.next]
      /\ F.next \in 1 .. Len(s) /\ s \in Seq(Inst) /\ F.next \in Nat
  BY <1>1, InBlock DEF Known, InCode, InstsOf, At
<1>3. At(F).level \in Int /\ lev2 \in Int
  <2>1. At(F) \in Inst
    BY <1>2
  <2> QED  BY <2>1, LevelsAreNumbers DEF Answered
<1>4. PICK G : G = Ahead(F)
  OBVIOUS
<1>5. /\ G.fn = f /\ G.next = F.next + 1 /\ InstsOf(G) = s /\ \A g : InTail(G, g) <=> InTail(F, g)
  BY <1>1, <1>4, GoesAhead, OpsShape DEF Known
<1>6. CASE \E g \in prog.defs : F.next = 2 /\ InTail(F, g)
  <2>1. PICK g \in prog.defs : F.next = 2 /\ InTail(F, g)
    BY <1>6
  <2>2. At(F).level = prog.section[f]
    <3>1. PICK cr \in ConstantsRead(prog.section[f]) : s[2] = Syscall(cr)
      BY <1>1, <1>2, <2>1, AtTail
    <3>2. cr = prog.section[f]
      BY <1>2, <3>1, Sections
    <3>3. At(F) = Syscall(cr)
      BY <1>2, <2>1, <3>1
    <3> QED  BY <3>2, <3>3, Instructions
  <2>3. prog.section[g] < prog.section[f]
    <3>1. Lowers(f, g)
      BY <1>1, <2>1 DEF InTail, TailOf, GateOf
    <3> QED  BY <1>2, <3>1, Sections DEF Lowers
  <2>4. lev <= prog.section[g]
    BY <2>1 DEF AtLevel
  <2>5. lev < prog.section[f] /\ At(F).level > lev /\ prog.section[f] <= prog.section[f]
    BY <1>2, <2>2, <2>3, <2>4, Sections
  <2>6. lev2 <= prog.section[f] /\ (lev2 = prog.section[f] \/ st2)
    <3>1. lev <= prog.section[f]
      BY <1>2, <2>5, Sections
    <3> QED  BY <2>2, <2>5, <3>1 DEF Answered
  <2>7. G.next # 2
    BY <1>2, <1>5, <2>1
  <2>8. AtLevel(G, lev2, gr2, st2)
    BY <1>5, <2>6, <2>7 DEF AtLevel, Own
  <2> QED  BY <1>3, <1>4, <2>8
<1>7. CASE ~\E g \in prog.defs : F.next = 2 /\ InTail(F, g)
  <2>1. \A g \in prog.defs : F.next <= 2 => ~InTail(F, g)
    BY <1>2, <1>7, NotAtTail, OpsShape DEF Known
  <2>2. s[F.next + 1].op = "cmp"
    <3>1. SyscallsPlaced(f, B, n, visited)
      BY <1>1, <1>2, BlocksAreGood DEF GoodBlocks, FlowShape
    <3>2. \/ F.next = 2 /\ \E g \in prog.defs : TailOf(f, B, n, visited, l, g)
          \/ F.next < Len(B[l]) /\ B[l][F.next + 1].op = "cmp"
      BY <1>2, <3>1 DEF SyscallsPlaced
    <3> QED  BY <1>1, <1>2, <1>7, <3>2 DEF InTail
  <2>3. At(G).op = "cmp"
    BY <1>5, <2>2 DEF At
  <2>4. Own(f, lev, st)
    BY <1>1, <2>1 DEF AtLevel
  <2>5. gr2 \/ Own(f, lev2, st2)
    BY <2>4 DEF Own, Answered
  <2>6. G.next = 2 => F.next <= 2
    BY <1>2, <1>5
  <2>7. AtLevel(G, lev2, gr2, st2)
    BY <1>5, <2>1, <2>3, <2>5, <2>6 DEF AtLevel
  <2> QED  BY <1>3, <1>4, <2>7
<1> QED  BY <1>6, <1>7

(* The comparison stands in front of the check.                             *)
LEMMA LevelAfterCompare ==
  ASSUME TypeOK, GateInv, FlowInv, NEW F, NEW lev, NEW gr, NEW st,
         Known(F, lev, gr), AtLevel(F, lev, gr, st), At(F).op = "cmp"
  PROVE  AtLevel(Ahead(F), lev, gr, st)
<1>1. PICK f, B, n, l, s : /\ f = F.fn /\ B = Labelled(code[f]) /\ n = Len(code[f]) /\ l = F.label
                           /\ s = InstsOf(F)
  OBVIOUS
<1>2. /\ f \in prog.defs /\ l \in 1 .. n /\ s = B[l] /\ At(F) = s[F.next]
      /\ F.next \in 1 .. Len(s) /\ F.next \in Nat
  BY <1>1, InBlock DEF Known, InCode, InstsOf, At
<1>3. PICK G : G = Ahead(F)
  OBVIOUS
<1>4. /\ G.fn = f /\ G.next = F.next + 1 /\ InstsOf(G) = s /\ \A g : InTail(G, g) <=> InTail(F, g)
  BY <1>1, <1>3, GoesAhead, OpsShape DEF Known
<1>5. \A g \in prog.defs : F.next <= 2 => ~InTail(F, g)
  BY NotAtTail, OpsShape DEF Known
<1>6. At(G).op = "check"
  <2>1. CmpsPlaced(B, n)
    BY <1>1, <1>2, BlocksAreGood DEF GoodBlocks, FlowShape
  <2>2. B[l][F.next + 1].op = "check"
    BY <1>2, <2>1 DEF CmpsPlaced
  <2> QED  BY <1>2, <1>4, <2>2 DEF At
<1>7. gr \/ Own(f, lev, st)
  BY <1>1, <1>5 DEF AtLevel
<1>8. G.next = 2 => F.next <= 2
  BY <1>2, <1>4
<1>9. AtLevel(G, lev, gr, st)
  BY <1>4, <1>5, <1>6, <1>7, <1>8 DEF AtLevel
<1> QED  BY <1>3, <1>9

(* Past the check it is the call of the gate, or the level as it was.       *)
LEMMA LevelAfterCheck ==
  ASSUME TypeOK, GateInv, FlowInv, NEW F, NEW lev, NEW gr, NEW st,
         Known(F, lev, gr), AtLevel(F, lev, gr, st), At(F).op = "check",
         NEW l \in At(F).to, gr <=> l # At(F).denied
  PROVE  AtLevel(To(F, l), lev, gr, st)
<1>1. PICK G : G = To(F, l)
  OBVIOUS
<1>2. F.next >= 3 /\ F.next \in Nat /\ (gr => \E g \in prog.defs : InTail(G, g))
  BY <1>1, Checked DEF Known, FrameSet
<1>3. G.next = 1 /\ G.fn = F.fn
  BY <1>1 DEF To, Known, FrameSet
<1>4. gr \/ Own(F.fn, lev, st)
  BY <1>2 DEF AtLevel
<1>5. AtLevel(G, lev, gr, st)
  BY <1>2, <1>3, <1>4 DEF AtLevel
<1> QED  BY <1>1, <1>5

(* A call that stays in its function or enters another.                     *)
LEMMA LevelAfterCall ==
  ASSUME TypeOK, GateInv, FlowInv, AllVisited, pc = "done", GatesSuffice,
         NEW F, NEW lev, NEW gr, NEW st, Known(F, lev, gr), AtLevel(F, lev, gr, st), At(F).op = "call"
  PROVE  /\ At(F).callee # Indirect
         /\ At(F).callee \notin prog.defs => AtLevel(Ahead(F), lev, gr, st)
         /\ At(F).callee \in prog.defs => AtLevel(EntryFrame(At(F).callee), lev, gr, st)
<1>1. PICK f, h, i : f = F.fn /\ h = At(F).callee /\ i = F.next
  OBVIOUS
<1>2. f \in prog.defs /\ i \in 1 .. Len(InstsOf(F)) /\ i \in Nat /\ InstsOf(F)[i] = At(F)
  BY <1>1, InBlock DEF Known, InCode, At
<1>3. /\ h # Indirect
      /\ h \in prog.defs => /\ prog.section[h] <= prog.section[f]
                            /\ prog.section[h] < prog.section[f] => i = 1 /\ InTail(F, h)
  BY <1>1, <1>2, CallsOf DEF Known
<1>4. \A g : InTail(F, g) /\ F.next <= 2 => g = h /\ g \in prog.defs /\ F.next = 1
  <2> SUFFICES ASSUME NEW g, InTail(F, g), F.next <= 2 PROVE g = h /\ g \in prog.defs /\ F.next = 1
    OBVIOUS
  <2>1. F.next = 1 /\ g = h
    BY <1>1, NotAtTail DEF Known
  <2>2. g \in prog.defs
    BY <1>1, <1>2, AtTail
  <2> QED  BY <2>1, <2>2
<1>5. ASSUME h \notin prog.defs PROVE AtLevel(Ahead(F), lev, gr, st)
  <2>1. PICK G : G = Ahead(F)
    OBVIOUS
  <2>2. G.fn = f /\ G.next = F.next + 1 /\ \A g : InTail(G, g) <=> InTail(F, g)
    BY <1>1, <2>1, GoesAhead, OpsShape DEF Known
  <2>3. Own(f, lev, st)
    BY <1>1, <1>4, <1>5 DEF AtLevel
  <2>4. G.next = 2 => F.next <= 2
    BY <1>1, <1>2, <2>2
  <2>5. AtLevel(G, lev, gr, st)
    BY <1>4, <1>5, <2>2, <2>3, <2>4 DEF AtLevel
  <2> QED  BY <2>1, <2>5
<1>6. ASSUME h \in prog.defs PROVE AtLevel(EntryFrame(h), lev, gr, st)
  <2>1. PICK E : E = EntryFrame(h)
    OBVIOUS
  <2>2. E.fn = h /\ E.next = 1
    BY <1>6, <2>1, Enters
  <2>3. prog.section[h] \in Int /\ prog.section[f] \in Int /\ ConstantsRead(prog.section[h]) = {prog.section[h]}
    BY <1>2, <1>6, Sections
  <2>4. Own(h, lev, st)
    <3>1. CASE prog.section[h] < prog.section[f]
      <4>1. lev \in ConstantsRead(prog.section[h])
        BY <1>1, <1>3, <1>6, <3>1 DEF Known, Inside
      <4>2. lev = prog.section[h] /\ prog.section[h] <= prog.section[h]
        BY <2>3, <4>1
      <4> QED  BY <4>2 DEF Own
    <3>2. CASE ~(prog.section[h] < prog.section[f])
      <4>1. prog.section[h] = prog.section[f]
        BY <1>3, <1>6, <2>3, <3>2
      <4>2. ASSUME InTail(F, h) PROVE FALSE
        <5>1. Lowers(f, h)
          BY <1>1, <4>2 DEF InTail, TailOf, GateOf
        <5> QED  BY <1>2, <1>6, <3>2, <5>1, Sections DEF Lowers
      <4>3. Own(f, lev, st)
        BY <1>1, <1>4, <4>2 DEF AtLevel
      <4> QED  BY <4>1, <4>3 DEF Own
    <3> QED  BY <3>1, <3>2
  <2>5. AtLevel(E, lev, gr, st)
    BY <2>2, <2>4 DEF AtLevel
  <2> QED  BY <2>1, <2>5
<1> QED  BY <1>1, <1>3, <1>5, <1>6

(* A branch goes on at the function's own level.                            *)
LEMMA LevelAfterBranch ==
  ASSUME TypeOK, GateInv, FlowInv, NEW F, NEW lev, NEW gr, NEW st, Known(F, lev, gr),
         AtLevel(F, lev, gr, st), At(F).op = "br", NEW l
  PROVE  AtLevel(To(F, l), lev, gr, st)
<1>1. Own(F.fn, lev, st)
  BY OwnCode, OpsShape
<1>2. To(F, l).fn = F.fn /\ To(F, l).next = 1
  BY DEF To, Known, FrameSet
<1> QED  BY <1>1, <1>2 DEF AtLevel

(* Back in its caller, just behind the call of a gate or on the same level. *)
LEMMA LevelAfterReturn ==
  ASSUME TypeOK, GateInv, FlowInv, AllVisited, pc = "done", GatesSuffice,
         NEW F, NEW lev, NEW gr, NEW st, Known(F, lev, gr), AtLevel(F, lev, gr, st), At(F).op = "ret",
         NEW P \in FrameSet, InCode(P), Waits(P, F)
  PROVE  AtLevel(P, lev, gr, st)
<1>1. PICK h, f, i : h = F.fn /\ f = P.fn /\ i = P.next - 1
  OBVIOUS
<1>2. Own(h, lev, st) /\ h \in prog.defs
  BY <1>1, OwnCode, OpsShape DEF Known
<1>3. P.next \in Nat /\ P.next <= Len(InstsOf(P)) /\ Len(InstsOf(P)) \in Nat /\ f \in prog.defs
  BY <1>1, InBlock DEF InCode
<1>4. P.next > 1 /\ Before(P).op = "call" /\ Before(P).callee \in {Indirect, h}
  BY <1>1 DEF Waits
<1>5. i \in 1 .. Len(InstsOf(P)) /\ InstsOf(P)[i] = Before(P)
  BY <1>1, <1>3, <1>4 DEF Before
<1>6. Before(P).callee # Indirect
  BY <1>4, <1>5, CallsOf
<1>7. h = InstsOf(P)[i].callee /\ InstsOf(P)[i].op = "call"
  BY <1>4, <1>5, <1>6
<1>8. /\ prog.section[h] <= prog.section[f]
      /\ prog.section[h] < prog.section[f] => i = 1 /\ InTail(P, h)
  BY <1>1, <1>2, <1>5, <1>7, CallsOf
<1>9. prog.section[h] \in Int /\ prog.section[f] \in Int
  BY <1>2, <1>3, Sections
<1>10. ASSUME P.next = 2, NEW g \in prog.defs, InTail(P, g) PROVE lev <= prog.section[g]
  <2>1. i = 1
    BY <1>1, <1>10
  <2>2. InstsOf(P)[1].callee = g
    BY <1>1, <1>3, <1>10, AtTail
  <2> QED  BY <1>2, <1>7, <2>1, <2>2 DEF Own
<1>11. ASSUME P.next <= 2 => \A g \in prog.defs : ~InTail(P, g) PROVE Own(f, lev, st)
  <2>1. ~(i = 1 /\ InTail(P, h))
    <3>1. i = 1 => P.next <= 2
      BY <1>1, <1>3
    <3> QED  BY <1>2, <1>11, <3>1
  <2>2. prog.section[h] = prog.section[f]
    BY <1>8, <1>9, <2>1
  <2> QED  BY <1>2, <2>2 DEF Own
<1> QED  BY <1>1, <1>10, <1>11 DEF AtLevel

(* Every step of the run keeps the level where it belongs.                  *)
LEMMA LevelStays ==
  TypeOK /\ GateInv /\ FlowInv /\ AllVisited /\ RunInv /\ LevelInv /\ [RunNext]_allVars => LevelInv'
<1> SUFFICES ASSUME TypeOK, GateInv, FlowInv, AllVisited, RunInv, LevelInv, [RunNext]_allVars PROVE LevelInv'
  OBVIOUS
<1> DEFINE Runs(F, lev, gr, st) == lev \in Int /\ (GatesSuffice => AtLevel(F, lev, gr, st))
<1>1. ASSUME UNCHANGED vars, mode' # "compile", Runs(Frame', level', granted', stuck')
      PROVE  LevelInv'
  <2>1. PICK F, lev, gr, st : F = Frame' /\ lev = level' /\ gr = granted' /\ st = stuck'
    OBVIOUS
  <2>2. GatesSuffice' => AtLevel(F, lev, gr, st)'
    BY <1>1, <2>1, SameLevel
  <2>3. lev \in Int /\ (GatesSuffice' => AtLevel(Frame, level, granted, stuck)')
    BY <1>1, <2>1, <2>2
  <2> QED  BY <1>1, <2>1, <2>3 DEF LevelInv
<1>2. ASSUME UNCHANGED vars, mode' \notin {"compile", "run"}, level' = level PROVE LevelInv'
  BY <1>2 DEF LevelInv
<1> HIDE DEF Runs
<1>3. level \in Int
  BY DEF LevelInv
<1>4. ASSUME mode = "run"
      PROVE  /\ pc = "done" /\ StackShape(stack) /\ Len(stack) \in Nat /\ Len(stack) >= 1
             /\ stack \in Seq(FrameSet) /\ stack # <<>>
             /\ Known(Frame, level, granted) /\ Current = At(Frame)
             /\ GatesSuffice => AtLevel(Frame, level, granted, stuck)
  BY <1>4, TheFrame DEF Known, InCode, LevelInv, StackShape
<1>5. ASSUME mode = "run", NEW G \in FrameSet, stack' = [stack EXCEPT ![Len(stack)] = G] PROVE Frame' = G
  <2>1. Len(stack') = Len(stack) /\ Len(stack) \in 1 .. Len(stack)
    BY <1>4, <1>5
  <2> QED  BY <1>4, <1>5, <2>1 DEF Frame
<1>6. ASSUME mode = "run", stack' = Advanced, Current.op \notin TerminatorOps PROVE Frame' = Ahead(Frame)
  <2>1. PICK F, G : F = Frame /\ G = Ahead(F)
    OBVIOUS
  <2>2. G \in FrameSet
    BY <1>4, <1>6, <2>1, GoesAhead DEF Known
  <2>3. stack' = [stack EXCEPT ![Len(stack)] = G]
    BY <1>4, <1>6, <2>1, Moves
  <2> QED  BY <1>5, <1>6, <2>1, <2>2, <2>3
<1>7. ASSUME mode = "run", NEW l \in Nat, stack' = JumpedTo(l) PROVE Frame' = To(Frame, l)
  <2>1. PICK F, G : F = Frame /\ G = To(F, l)
    OBVIOUS
  <2>2. G \in FrameSet
    BY <1>4, <1>7, <2>1 DEF Known, To, FrameSet
  <2>3. stack' = [stack EXCEPT ![Len(stack)] = G]
    BY <1>4, <1>7, <2>1, Moves
  <2> QED  BY <1>5, <1>7, <2>1, <2>2, <2>3
<1>8. ASSUME mode = "run", Current.op \in TerminatorOps, NEW l \in Current.to PROVE l \in Nat
  <2>1. PICK F, s, n : F = Frame /\ s = InstsOf(F) /\ n = Len(code[F.fn])
    OBVIOUS
  <2>2. s \in Seq(Inst) /\ BlockShape(s, n) /\ F.next \in 1 .. Len(s) /\ Current = s[F.next]
    BY <1>4, <1>8, <2>1, InBlock DEF Known, InCode, At
  <2>3. l \in 1 .. n
    BY <1>8, <2>2 DEF BlockShape
  <2> QED  BY <2>3
<1>9. CASE Compile
  <2>1. mode' = mode /\ level' = level /\ pc = "scan"
    BY <1>9 DEF Compile, runVars
  <2>2. mode' # "run"
    BY <1>4, <2>1
  <2> QED  BY <2>1, <2>2 DEF LevelInv
<1>10. CASE Start
  <2>1. /\ UNCHANGED <<vars, level, granted, stuck>> /\ Main \in prog.defs /\ mode' = "run"
        /\ stack' = <<EntryFrame(Main)>> /\ level = LeastPrivileged
    BY <1>10 DEF Start, LevelInv
  <2>2. PICK G : G = EntryFrame(Main)
    OBVIOUS
  <2>3. Frame' = G /\ G.fn = Main /\ G.next = 1
    BY <2>1, <2>2, Enters DEF Frame
  <2>4. GatesSuffice => Own(Main, level, stuck)
    <3> SUFFICES ASSUME GatesSuffice PROVE Own(Main, level, stuck)
      OBVIOUS
    <3>1. level = prog.section[Main]
      BY <2>1 DEF GatesSuffice
    <3> QED  BY <1>3, <3>1 DEF Own
  <2>5. GatesSuffice => AtLevel(G, level, granted, stuck)
    BY <2>3, <2>4 DEF AtLevel
  <2> QED  BY <1>1, <1>3, <2>1, <2>3, <2>5 DEF Runs
<1>11. CASE RequestLevel
  <2>1. /\ mode = "run" /\ mode' = "run" /\ UNCHANGED vars /\ stack' = Advanced /\ Current.op = "syscall"
        /\ \/ granted' = TRUE /\ level' = Current.level /\ stuck' = stuck
           \/ granted' = FALSE /\ level' = level /\ stuck' = (stuck \/ Current.level > level)
    BY <1>11 DEF RequestLevel
  <2>2. PICK F, lev2, gr2, st2 : F = Frame /\ lev2 = level' /\ gr2 = granted' /\ st2 = stuck'
    OBVIOUS
  <2>3. Known(F, level, granted) /\ Current = At(F) /\ At(F).op = "syscall"
    BY <1>4, <2>1, <2>2
  <2>4. lev2 \in Int
    <3>1. At(F) \in Inst
      <4>1. F.next \in 1 .. Len(InstsOf(F)) /\ InstsOf(F) \in Seq(Inst)
        BY <2>3, InBlock DEF Known, InCode
      <4> QED  BY <4>1 DEF At
    <3> QED  BY <1>3, <2>1, <2>2, <2>3, <3>1, LevelsAreNumbers
  <2>5. GatesSuffice => AtLevel(Ahead(F), lev2, gr2, st2)
    <3> SUFFICES ASSUME GatesSuffice PROVE AtLevel(Ahead(F), lev2, gr2, st2)
      OBVIOUS
    <3>1. AtLevel(F, level, granted, stuck)
      BY <1>4, <2>1, <2>2
    <3>2. \/ gr2 = TRUE /\ lev2 = At(F).level /\ st2 = stuck
          \/ gr2 = FALSE /\ lev2 = level /\ st2 = (stuck \/ At(F).level > level)
      BY <2>1, <2>2, <2>3
    <3>3. PICK lev, gr, st : lev = level /\ gr = granted /\ st = stuck
      OBVIOUS
    <3>4. Known(F, lev, gr) /\ AtLevel(F, lev, gr, st) /\ lev \in Int /\ At(F).op = "syscall"
      BY <1>3, <2>3, <3>1, <3>3
    <3>5. Answered(F, lev, st, lev2, gr2, st2)
      BY <3>2, <3>3 DEF Answered
    <3> HIDE <3>3
    <3> QED  BY <3>4, <3>5, LevelAfterRequest
  <2>6. Frame' = Ahead(F)
    BY <1>6, <2>1, <2>2, OpsShape
  <2> QED  BY <1>1, <2>1, <2>2, <2>4, <2>5, <2>6 DEF Runs
<1>12. CASE Compare
  <2>1. /\ mode = "run" /\ mode' = "run" /\ UNCHANGED <<vars, level, granted, stuck>>
        /\ stack' = Advanced /\ Current.op = "cmp"
    BY <1>12 DEF Compare
  <2>2. Frame' = Ahead(Frame)
    BY <1>6, <2>1, OpsShape
  <2>3. GatesSuffice => AtLevel(Ahead(Frame), level, granted, stuck)
    BY <1>4, <2>1, LevelAfterCompare
  <2> QED  BY <1>1, <1>3, <2>1, <2>2, <2>3 DEF Runs
<1>13. CASE CheckGranted
  <2>1. PICK l \in Current.to : (granted <=> l # Current.denied) /\ stack' = JumpedTo(l)
    BY <1>13 DEF CheckGranted
  <2>2. mode = "run" /\ mode' = "run" /\ UNCHANGED <<vars, level, granted, stuck>> /\ Current.op = "check"
    BY <1>13 DEF CheckGranted
  <2>3. Frame' = To(Frame, l)
    BY <1>7, <1>8, <2>1, <2>2, OpsShape
  <2>4. GatesSuffice => AtLevel(To(Frame, l), level, granted, stuck)
    BY <1>4, <2>1, <2>2, LevelAfterCheck
  <2> QED  BY <1>1, <1>3, <2>2, <2>3, <2>4 DEF Runs
<1>14. CASE ExitDenied
  BY <1>2, <1>14 DEF ExitDenied
<1>15. CASE Invoke
  <2>1. /\ mode = "run" /\ mode' = "run" /\ UNCHANGED <<vars, level, granted, stuck>> /\ Current.op = "call"
    BY <1>15 DEF Invoke
  <2>2. PICK F, c : F = Frame /\ c = At(F).callee
    OBVIOUS
  <2>3. /\ Known(F, level, granted) /\ Current = At(F) /\ pc = "done"
        /\ GatesSuffice => AtLevel(F, level, granted, stuck)
    BY <1>4, <2>1, <2>2
  <2>4. GatesSuffice => /\ c # Indirect
                        /\ c \notin prog.defs => AtLevel(Ahead(F), level, granted, stuck)
                        /\ c \in prog.defs => AtLevel(EntryFrame(c), level, granted, stuck)
    BY <2>1, <2>2, <2>3, LevelAfterCall
  <2>5. CASE stack' = Advanced /\ c \notin prog.defs
    <3>1. Frame' = Ahead(F)
      BY <1>6, <2>1, <2>2, <2>5, OpsShape
    <3> QED  BY <1>1, <1>3, <2>1, <2>4, <2>5, <3>1 DEF Runs
  <2>6. ASSUME NEW g \in prog.defs, c \in {g, Indirect}, stack' = Append(Advanced, EntryFrame(g))
        PROVE  LevelInv'
    <3>1. Frame' = EntryFrame(g)
      <4>1. PICK S, E : S = Advanced /\ E = EntryFrame(g)
        OBVIOUS
      <4>2. S \in Seq(FrameSet)
        <5>1. PICK G : G = Ahead(F)
          OBVIOUS
        <5>2. G \in FrameSet
          BY <2>3, <5>1 DEF Known, Ahead, FrameSet
        <5>3. S = [stack EXCEPT ![Len(stack)] = G]
          BY <1>4, <2>1, <2>2, <4>1, <5>1, Moves
        <5> QED  BY <1>4, <2>1, <5>2, <5>3
      <4>3. Len(Append(S, E)) = Len(S) + 1 /\ Append(S, E)[Len(S) + 1] = E
        BY <4>2
      <4> QED  BY <2>6, <4>1, <4>3 DEF Frame
    <3>2. GatesSuffice => AtLevel(EntryFrame(g), level, granted, stuck)
      BY <2>4, <2>6
    <3> QED  BY <1>1, <1>3, <2>1, <3>1, <3>2 DEF Runs
  <2>7. \/ stack' = Advanced /\ c \notin prog.defs
        \/ \E g \in prog.defs : c \in {g, Indirect} /\ stack' = Append(Advanced, EntryFrame(g))
    BY <1>15, <2>2, <2>3 DEF Invoke
  <2> QED  BY <2>5, <2>6, <2>7
<1>16. CASE Branch
  <2>1. PICK l \in Current.to : stack' = JumpedTo(l)
    BY <1>16 DEF Branch
  <2>2. mode = "run" /\ mode' = "run" /\ UNCHANGED <<vars, level, granted, stuck>> /\ Current.op = "br"
    BY <1>16 DEF Branch
  <2>3. Frame' = To(Frame, l)
    BY <1>7, <1>8, <2>1, <2>2, OpsShape
  <2>4. GatesSuffice => AtLevel(To(Frame, l), level, granted, stuck)
    BY <1>4, <2>2, LevelAfterBranch
  <2> QED  BY <1>1, <1>3, <2>2, <2>3, <2>4 DEF Runs
<1>17. CASE Return
  <2>1. /\ mode = "run" /\ UNCHANGED <<vars, level, granted, stuck>> /\ Current.op = "ret"
        /\ stack' = SubSeq(stack, 1, Len(stack) - 1)
        /\ mode' = IF Len(stack) = 1 THEN "returned" ELSE "run"
    BY <1>17 DEF Return
  <2>2. CASE Len(stack) = 1
    BY <1>2, <2>1, <2>2
  <2>3. CASE Len(stack) # 1
    <3>1. PICK T, P : T = stack' /\ P = T[Len(T)]
      OBVIOUS
    <3>2. StackShape(T) /\ Waits(P, Frame)
      BY <1>4, <2>1, <2>3, <3>1, Popped DEF Frame
    <3>3. P \in FrameSet /\ InCode(P)
      <4>1. T \in Seq(FrameSet) /\ T # <<>>
        BY <3>2 DEF StackShape
      <4>2. Len(T) \in 1 .. Len(T)
        BY <4>1
      <4> QED  BY <3>1, <3>2, <4>1, <4>2 DEF StackShape
    <3>4. Frame' = P
      BY <3>1 DEF Frame
    <3>5. GatesSuffice => AtLevel(P, level, granted, stuck)
      BY <1>4, <2>1, <3>2, <3>3, LevelAfterReturn
    <3> QED  BY <1>1, <1>3, <2>1, <2>3, <3>4, <3>5 DEF Runs
  <2> QED  BY <2>2, <2>3
<1>18. CASE Ended \/ UNCHANGED allVars
  <2>1. UNCHANGED <<vars, mode, stack, level, granted, stuck>>
    BY <1>18 DEF Ended, allVars, runVars
  <2>2. Frame' = Frame
    BY <2>1 DEF Frame
  <2>3. CASE mode = "compile"
    BY <2>1, <2>3 DEF LevelInv
  <2>4. CASE mode = "run"
    BY <1>1, <1>3, <1>4, <2>1, <2>2, <2>4 DEF Runs
  <2>5. CASE mode \notin {"compile", "run"}
    BY <1>2, <2>1, <2>5
  <2> QED  BY <2>3, <2>4, <2>5
<1> QED  BY <1>9, <1>10, <1>11, <1>12, <1>13, <1>14, <1>15, <1>16, <1>17, <1>18 DEF RunNext

(* Whatever a function of a program the gates suffice for calls, and        *)
(* whatever was granted or refused before, its own code runs at its level   *)
(* and a gated call is made at the callee's; only after a request to be     *)
(* less privileged was refused, with more privilege than that.              *)
THEOREM CodeRunsAtItsLevel == RunSpec => []RunsAtItsLevel
<1>1. Init /\ RunInit => LevelInv
  BY NumLevelsAssumption DEF RunInit, LevelInv, LeastPrivileged
<1>2. TypeOK /\ GateInv /\ FlowInv /\ RunInv /\ LevelInv => RunsAtItsLevel
  <2> SUFFICES ASSUME TypeOK, GateInv, FlowInv, RunInv, LevelInv, GatesSuffice, mode = "run",
                      NEW l \in IF AtGatedCall
                                THEN { prog.section[g] : g \in GatedCallee(Frame.fn, Frame.label) }
                                ELSE IF InGate THEN {} ELSE { prog.section[Frame.fn] }
               PROVE  level <= l /\ (~stuck => level = l)
    BY DEF RunsAtItsLevel
  <2>1. PICK F : F = Frame
    OBVIOUS
  <2>2. /\ F \in FrameSet /\ InCode(F) /\ Current = At(F) /\ Inside(F, level)
        /\ AtLevel(F, level, granted, stuck) /\ level \in Int
    BY <2>1, TheFrame DEF LevelInv
  <2>3. \A g : g \in GatedCallee(F.fn, F.label) <=> g \in prog.defs /\ InTail(F, g)
    BY <2>2, GatedCalls
  <2>4. CASE AtGatedCall
    <3>1. PICK g \in GatedCallee(F.fn, F.label) : l = prog.section[g]
      BY <2>1, <2>4
    <3>2. F.next = 1 /\ g \in prog.defs /\ InTail(F, g)
      BY <2>1, <2>3, <2>4, <3>1 DEF AtGatedCall
    <3>3. level \in ConstantsRead(prog.section[g])
      BY <2>2, <3>2 DEF Inside
    <3>4. level = l
      BY <3>1, <3>2, <3>3, Sections
    <3> QED  BY <2>2, <3>4
  <2>5. CASE ~AtGatedCall
    <3>1. ~InGate /\ l = prog.section[F.fn]
      BY <2>1, <2>5
    <3>2. At(F).op \notin {"syscall", "cmp", "check"}
      BY <2>2, <3>1 DEF InGate, GateOps
    <3>3. ASSUME F.next <= 2, NEW g \in prog.defs, InTail(F, g) PROVE FALSE
      <4>1. F.next = 1
        BY <2>2, <3>2, <3>3, NotAtTail
      <4>2. g \in GatedCallee(F.fn, F.label)
        BY <2>3, <3>3
      <4> QED  BY <2>1, <2>5, <4>1, <4>2 DEF AtGatedCall
    <3>4. Own(F.fn, level, stuck)
      BY <2>2, <3>2, <3>3 DEF AtLevel
    <3> QED  BY <3>1, <3>4 DEF Own
  <2> QED  BY <2>4, <2>5
<1> QED  BY <1>1, <1>2, LevelStays, RunIsPass, RunsInShape, TypeCorrect, GatesStayInShape, CallsStayGated,
            SitesAllVisited, PTL DEF RunSpec

-----------------------------------------------------------------------------
(* What is still to come of a frame, by its place in the blocks.            *)
LEMMA PlaceOfFrame ==
  ASSUME TypeOK, GateInv, FlowInv, NEW F \in FrameSet, InCode(F)
  PROVE  \E k \in 1 .. Len(code[F.fn]) :
           /\ code[F.fn] \in Seq(Block) /\ code[F.fn][k].label = F.label
           /\ code[F.fn][k].insts = InstsOf(F) /\ F.next \in 1 .. Len(InstsOf(F))
           /\ \A a : ToCome([F EXCEPT !.next = a]) = TextAt(code[F.fn], k, a)
           /\ ToCome(F) = TextAt(code[F.fn], k, F.next)
<1>1. PICK f, blocks, B, l : f = F.fn /\ blocks = code[f] /\ B = Labelled(blocks) /\ l = F.label
  OBVIOUS
<1>2. /\ blocks \in Seq(Block) /\ View(blocks, B) /\ l \in 1 .. Len(blocks)
      /\ F.next \in 1 .. Len(InstsOf(F)) /\ InstsOf(F) = B[l]
  BY <1>1, BlocksAreGood DEF InCode, GoodBlocks, InstsOf
<1>3. DOMAIN blocks = 1 .. Len(blocks)
  BY <1>2
<1>4. PICK k : k = Position(f, l)
  OBVIOUS
<1>5. k \in 1 .. Len(blocks) /\ blocks[k].label = l
  <2>1. \E j \in DOMAIN blocks : blocks[j].label = l
    BY <1>2, <1>3 DEF View
  <2> QED  BY <1>1, <1>3, <1>4, <2>1 DEF Position
<1>6. blocks[k].insts = B[l]
  BY <1>2, <1>5 DEF View
<1>7. ASSUME NEW G, G.fn = f, G.label = l PROVE ToCome(G) = TextAt(blocks, k, G.next)
  BY <1>1, <1>4, <1>7 DEF ToCome, TextAt
<1>8. ToCome(F) = TextAt(blocks, k, F.next)
  BY <1>1, <1>7
<1>9. ASSUME NEW a PROVE ToCome([F EXCEPT !.next = a]) = TextAt(blocks, k, a)
  <2>1. PICK G : G = [F EXCEPT !.next = a]
    OBVIOUS
  <2>2. G.fn = f /\ G.label = l /\ G.next = a
    BY <1>1, <2>1 DEF FrameSet
  <2>3. ToCome(G) = TextAt(blocks, k, G.next)
    BY <1>7, <2>2
  <2> QED  BY <2>1, <2>2, <2>3
<1> QED  BY <1>1, <1>2, <1>5, <1>6, <1>8, <1>9

(* What is still to come is the instruction the frame is at, if it is no    *)
(* gate's, and what comes then.                                             *)
LEMMA ComesNext ==
  ASSUME TypeOK, GateInv, FlowInv, NEW F \in FrameSet, InCode(F)
  PROVE  /\ At(F).op \in GateOps => ToCome(Ahead(F)) = ToCome(F)
         /\ At(F).op \notin GateOps =>
              ToCome(F) # <<>> /\ Head(ToCome(F)) = At(F) /\ Tail(ToCome(F)) = ToCome(Ahead(F))
<1>1. PICK f, blocks : f = F.fn /\ blocks = code[f]
  OBVIOUS
<1>2. PICK k \in 1 .. Len(blocks) :
           /\ blocks \in Seq(Block) /\ blocks[k].label = F.label
           /\ blocks[k].insts = InstsOf(F) /\ F.next \in 1 .. Len(InstsOf(F))
           /\ \A a : ToCome([F EXCEPT !.next = a]) = TextAt(blocks, k, a)
           /\ ToCome(F) = TextAt(blocks, k, F.next)
  BY <1>1, PlaceOfFrame
<1>3. PICK i, s : i = F.next /\ s = InstsOf(F)
  OBVIOUS
<1>4. s \in Seq(Inst) /\ i \in 1 .. Len(s) /\ i + 1 \in 1 .. Len(s) + 1 /\ s[i] = At(F) /\ s[i] \in Inst
  <2>1. blocks[k] \in Block
    BY <1>2
  <2>2. s \in Seq(Inst)
    BY <1>2, <1>3, <2>1 DEF Block
  <2> QED  BY <1>2, <1>3, <2>2 DEF At
<1>5. ToCome(Ahead(F)) = TextAt(blocks, k, i + 1)
  <2>1. Ahead(F) = [F EXCEPT !.next = i + 1]
    BY <1>3 DEF Ahead
  <2>2. ToCome([F EXCEPT !.next = i + 1]) = TextAt(blocks, k, i + 1)
    BY <1>2
  <2> QED  BY <2>1, <2>2
<1>6. TextAt(blocks, k, i) = IF s[i].op \in GateOps THEN TextAt(blocks, k, i + 1)
                             ELSE <<s[i]>> \o TextAt(blocks, k, i + 1)
  <2>1. \A a \in 1 .. Len(blocks[k].insts) :
          TextAt(blocks, k, a) = IF blocks[k].insts[a].op \in GateOps THEN TextAt(blocks, k, a + 1)
                                 ELSE <<blocks[k].insts[a]>> \o TextAt(blocks, k, a + 1)
    BY <1>2, TextSteps
  <2> QED  BY <1>2, <1>3, <1>4, <2>1
<1>7. TextAt(blocks, k, i + 1) \in Seq(Inst)
  <2>1. \A a \in 1 .. Len(blocks[k].insts) + 1 :
            /\ TextAt(blocks, k, a) = WithoutGates(From(blocks[k].insts, a)) \o Rest(blocks, k + 1)
            /\ TextAt(blocks, k, a) \in Seq(Inst)
    BY <1>2, TextSteps
  <2> QED  BY <1>2, <1>3, <1>4, <2>1
<1>8. PICK x, r, w : x = s[i] /\ r = TextAt(blocks, k, i + 1) /\ w = <<x>> \o r
  OBVIOUS
<1>9. x \in Inst /\ r \in Seq(Inst)
  BY <1>4, <1>7, <1>8
<1>10. w # <<>> /\ Head(w) = x /\ Tail(w) = r
  <2>1. <<x>> \in Seq(Inst) /\ w \in Seq(Inst) /\ Len(w) = Len(r) + 1
    BY <1>8, <1>9
  <2>2. w # <<>> /\ Head(w) = w[1] /\ w[1] = x
    BY <1>8, <1>9, <2>1
  <2>3. Tail(w) \in Seq(Inst) /\ Len(Tail(w)) = Len(r) /\ \A m \in 1 .. Len(r) : Tail(w)[m] = w[m + 1]
    BY <1>9, <2>1, <2>2
  <2>4. \A m \in 1 .. Len(r) : w[m + 1] = r[m]
    <3> TAKE m \in 1 .. Len(r)
    <3>1. PICK z : z = m + 1
      OBVIOUS
    <3>2. z \in 1 .. Len(r) + 1 /\ z # 1 /\ z - 1 = m
      BY <1>9, <3>1
    <3>3. w[z] = r[z - 1]
      <4>1. PICK o : o = <<x>>
        OBVIOUS
      <4>2. o \in Seq(Inst) /\ Len(o) = 1
        BY <1>9, <4>1
      <4>3. \A j \in 1 .. Len(o) + Len(r) : (o \o r)[j] = IF j <= Len(o) THEN o[j] ELSE r[j - Len(o)]
        BY <1>9, <4>2, ConcatProperties
      <4>4. z \in 1 .. Len(o) + Len(r) /\ ~(z <= Len(o)) /\ z - Len(o) = z - 1
        BY <1>9, <3>2, <4>2
      <4>5. (o \o r)[z] = r[z - 1]
        BY <4>3, <4>4
      <4> QED  BY <1>8, <4>1, <4>5
    <3> QED  BY <3>1, <3>2, <3>3
  <2>5. PICK q : q = Tail(w)
    OBVIOUS
  <2>6. q = r
    BY <1>9, <2>3, <2>4, <2>5, SeqEqual
  <2> QED  BY <2>2, <2>5, <2>6
<1> QED  BY <1>2, <1>3, <1>4, <1>5, <1>6, <1>8, <1>10

(* The text of a function of the program as it was written.                 *)
LEMMA SourceText == \A f, l : Source!Text(f, l) = Insts(From(prog.code[f], l))
<1> TAKE f, l
<1>1. PICK p : p = From(prog.code[f], l)
  OBVIOUS
<1>2. Source!Insts(p) = Insts(p)
  BY DEF Source!Insts, Insts, Source!FlattenSeq, FlattenSeq
<1> QED  BY <1>1, <1>2 DEF Source!Text, From

(* A block's start, as a place of a frame.                                  *)
LEMMA TextFrom ==
  ASSUME TypeOK, GateInv, FlowInv, TextInv, NEW G \in FrameSet, InCode(G), G.next = 1,
         G.label <= Len(prog.code[G.fn])
  PROVE  ToCome(G) = Source!Text(G.fn, G.label)
<1>1. PICK f, blocks : f = G.fn /\ blocks = code[f]
  OBVIOUS
<1>2. PICK k \in 1 .. Len(blocks) : blocks[k].label = G.label /\ ToCome(G) = TextAt(blocks, k, 1)
  BY <1>1, PlaceOfFrame
<1>3. StartsKept(f, blocks)
  BY <1>1 DEF TextInv, TextShape, InCode
<1>4. TextAt(blocks, k, 1) = Insts(From(prog.code[f], G.label))
  BY <1>1, <1>2, <1>3 DEF StartsKept
<1> QED  BY <1>1, <1>2, <1>4, SourceText

(* A function is entered at the first of its instructions, ...              *)
LEMMA ComesFromEntry ==
  ASSUME TypeOK, GateInv, FlowInv, TextInv, NEW f \in prog.defs
  PROVE  Written(EntryFrame(f)) = Source!Entered(f)
<1>1. PICK G : G = EntryFrame(f)
  OBVIOUS
<1>2. G \in FrameSet /\ InCode(G) /\ G.next = 1 /\ G.fn = f
  BY <1>1, Enters
<1>3. G.label = 1 /\ 1 <= Len(prog.code[f])
  BY <1>1, BlocksAreGood DEF GoodBlocks, EntryFrame
<1>4. ToCome(G) = Source!Text(f, 1)
  BY <1>2, <1>3, TextFrom
<1> QED  BY <1>1, <1>2, <1>4 DEF Written, Source!Entered

(* ... a branch goes to one it had, ...                                     *)
LEMMA ComesFromBranch ==
  ASSUME TypeOK, GateInv, FlowInv, TextInv, NEW F \in FrameSet, InCode(F), At(F).op = "br", NEW l \in At(F).to
  PROVE  ToCome(To(F, l)) = Source!Text(F.fn, l)
<1>1. PICK G : G = To(F, l)
  OBVIOUS
<1>2. G \in FrameSet /\ InCode(G) /\ G.next = 1 /\ G.fn = F.fn
  BY <1>1, Branched
<1>3. G.label = l
  BY <1>1 DEF To, FrameSet
<1>4. l <= Len(prog.code[F.fn])
  <2>1. PICK f, B, n : f = F.fn /\ B = Labelled(code[f]) /\ n = Len(code[f])
    OBVIOUS
  <2>2. f \in prog.defs /\ F.label \in 1 .. n /\ GoodBlocks(f, B, n)
    BY <2>1, BlocksAreGood DEF InCode
  <2>3. PICK s : s = B[F.label]
    OBVIOUS
  <2>4. At(F) = s[F.next] /\ F.next \in 1 .. Len(s)
    BY <2>1, <2>3 DEF InstsOf, At, InCode
  <2>5. l \in 1 .. Len(prog.code[f])
    BY <2>2, <2>3, <2>4 DEF GoodBlocks, Shape, JumpsKept
  <2>6. Len(prog.code[f]) \in Nat
    BY <2>2, ProgramShape DEF GoodBlocks
  <2> QED  BY <2>1, <2>5, <2>6
<1> QED  BY <1>1, <1>2, <1>3, <1>4, TextFrom

(* ... and a check to where the same is still to come.                      *)
LEMMA ComesFromCheck ==
  ASSUME TypeOK, GateInv, FlowInv, TextInv, NEW F \in FrameSet, InCode(F), At(F).op = "check",
         NEW l \in At(F).to
  PROVE  /\ To(F, l) \in FrameSet /\ InCode(To(F, l)) /\ To(F, l).fn = F.fn
         /\ ToCome(To(F, l)) = ToCome(F)
<1>1. PICK f, blocks, G : f = F.fn /\ blocks = code[f] /\ G = To(F, l)
  OBVIOUS
<1>2. PICK k \in 1 .. Len(blocks) :
           /\ blocks[k].insts = InstsOf(F) /\ F.next \in 1 .. Len(InstsOf(F))
           /\ ToCome(F) = TextAt(blocks, k, F.next)
  BY <1>1, PlaceOfFrame
<1>3. l \in 1 .. Len(code[F.fn])
  <2>1. BlockShape(InstsOf(F), Len(code[F.fn]))
    BY InBlock
  <2> QED  BY <1>2, <2>1, OpsShape DEF BlockShape, At
<1>4. G \in FrameSet /\ InCode(G) /\ G.fn = f /\ G.label = l /\ G.next = 1
  <2>1. F.fn \in prog.defs
    BY DEF InCode
  <2> QED  BY <1>1, <1>3, <2>1, GoesTo
<1>5. PICK j \in 1 .. Len(blocks) : blocks[j].label = l /\ ToCome(G) = TextAt(blocks, j, 1)
  BY <1>1, <1>4, PlaceOfFrame
<1>6. ChecksAgree(blocks)
  BY <1>1 DEF TextInv, TextShape, InCode
<1>7. TextAt(blocks, j, 1) = TextAt(blocks, k, F.next)
  BY <1>2, <1>5, <1>6 DEF ChecksAgree, At
<1> QED  BY <1>1, <1>2, <1>4, <1>5, <1>7

(* A gate exits in front of a call that may be refused.                     *)
LEMMA ExitsThere ==
  ASSUME TypeOK, GateInv, FlowInv, TextInv, NEW F \in FrameSet, InCode(F), At(F).op = "exit"
  PROVE  LET x == Head(ToCome(F))
         IN  ToCome(F) # <<>> /\ x.op \in {"call", "invoke"} /\ x.callee \in prog.defs /\ Source!Gains(F.fn, x.callee)
<1>1. PICK f, blocks : f = F.fn /\ blocks = code[f]
  OBVIOUS
<1>2. PICK k \in 1 .. Len(blocks) :
           /\ blocks \in Seq(Block) /\ blocks[k].insts = InstsOf(F) /\ F.next \in 1 .. Len(InstsOf(F))
           /\ ToCome(F) = TextAt(blocks, k, F.next)
  BY <1>1, PlaceOfFrame
<1>3. ExitsInFront(f, blocks)
  BY <1>1 DEF TextInv, TextShape, InCode
<1>4. MayRefuse(f, ToCome(F))
  BY <1>2, <1>3 DEF ExitsInFront, At
<1>5. ToCome(F) \in Seq(Inst)
  <2>1. InstsOf(F) \in Seq(Inst)
    BY InBlock
  <2>2. F.next \in 1 .. Len(blocks[k].insts) + 1
    BY <1>2, <2>1
  <2>3. \A a \in 1 .. Len(blocks[k].insts) + 1 :
            /\ TextAt(blocks, k, a) = WithoutGates(From(blocks[k].insts, a)) \o Rest(blocks, k + 1)
            /\ TextAt(blocks, k, a) \in Seq(Inst)
    BY <1>2, TextSteps
  <2> QED  BY <1>2, <2>2, <2>3
<1>6. Head(ToCome(F)) = ToCome(F)[1]
  BY <1>4, <1>5 DEF MayRefuse
<1>7. \A g : Gaining(f, g) => Source!Gains(f, g)
  BY DEF Gaining, Source!Gains, Tagged, Source!Tagged
<1> QED  BY <1>1, <1>4, <1>6, <1>7 DEF MayRefuse

-----------------------------------------------------------------------------
(* The stack as it was written, of any stack.                               *)
WrittenStack(S) == SubSeq([d \in DOMAIN S |-> Written(S[d])], 1, Len(S))

WrittenFrames == { Written(G) : G \in FrameSet }

(* It has a frame for every frame.                                          *)
LEMMA WrittenShape ==
  ASSUME NEW S \in Seq(FrameSet)
  PROVE  /\ WrittenStack(S) \in Seq(WrittenFrames) /\ Len(WrittenStack(S)) = Len(S)
         /\ \A d \in 1 .. Len(S) : WrittenStack(S)[d] = Written(S[d])
<1>1. Len(S) \in Nat /\ DOMAIN S = 1 .. Len(S) /\ \A d \in 1 .. Len(S) : S[d] \in FrameSet
  OBVIOUS
<1>2. PICK T : T = [d \in DOMAIN S |-> Written(S[d])]
  OBVIOUS
<1>3. \A d \in 1 .. Len(S) : T[d] = Written(S[d]) /\ T[d] \in WrittenFrames
  BY <1>1, <1>2 DEF WrittenFrames
<1>4. T \in [1 .. Len(S) -> WrittenFrames]
  BY <1>1, <1>2, <1>3
<1>5. T \in Seq(WrittenFrames) /\ Len(T) = Len(S)
  BY <1>1, <1>4
<1>6. SubSeq(T, 1, Len(S)) = T
  BY <1>5, SubSeqFull
<1> QED  BY <1>2, <1>3, <1>5, <1>6 DEF WrittenStack

(* It changes as the stack does.                                            *)
LEMMA WrittenChanges ==
  ASSUME NEW S \in Seq(FrameSet), NEW G \in FrameSet
  PROVE  /\ WrittenStack(Append(S, G)) = Append(WrittenStack(S), Written(G))
         /\ WrittenStack(<<G>>) = <<Written(G)>>
         /\ S # <<>> => /\ WrittenStack([S EXCEPT ![Len(S)] = G]) = [WrittenStack(S) EXCEPT ![Len(S)] = Written(G)]
                        /\ WrittenStack(SubSeq(S, 1, Len(S) - 1)) = SubSeq(WrittenStack(S), 1, Len(S) - 1)
<1>1. PICK T, n, W : T = WrittenStack(S) /\ n = Len(S) /\ W = Written(G)
  OBVIOUS
<1>2. /\ T \in Seq(WrittenFrames) /\ Len(T) = n /\ n \in Nat /\ W \in WrittenFrames
      /\ \A d \in 1 .. n : T[d] = Written(S[d])
  BY <1>1, WrittenShape DEF WrittenFrames
<1>3. ASSUME NEW R \in Seq(FrameSet), NEW Q \in Seq(WrittenFrames), Len(Q) = Len(R),
             \A d \in 1 .. Len(R) : Q[d] = Written(R[d])
      PROVE  WrittenStack(R) = Q
  <2>1. PICK P : P = WrittenStack(R)
    OBVIOUS
  <2>2. /\ P \in Seq(WrittenFrames) /\ Len(P) = Len(R)
        /\ \A d \in 1 .. Len(R) : P[d] = Written(R[d])
    BY <2>1, WrittenShape
  <2>3. P = Q
    BY <1>3, <2>2, SeqEqual
  <2> QED  BY <2>1, <2>3
<1>4. WrittenStack(Append(S, G)) = Append(T, W)
  <2>1. PICK R, Q : R = Append(S, G) /\ Q = Append(T, W)
    OBVIOUS
  <2>2. /\ R \in Seq(FrameSet) /\ Q \in Seq(WrittenFrames) /\ Len(R) = n + 1 /\ Len(Q) = n + 1
        /\ R[n + 1] = G /\ Q[n + 1] = W
        /\ \A d \in 1 .. n : R[d] = S[d] /\ Q[d] = T[d]
    BY <1>1, <1>2, <2>1
  <2>3. \A d \in 1 .. n + 1 : d = n + 1 \/ d \in 1 .. n
    BY <1>2
  <2>4. \A d \in 1 .. n + 1 : Q[d] = Written(R[d])
    BY <1>1, <1>2, <2>2, <2>3
  <2> QED  BY <1>3, <2>1, <2>2, <2>4
<1>5. WrittenStack(<<G>>) = <<W>>
  <2>1. PICK R, Q : R = <<G>> /\ Q = <<W>>
    OBVIOUS
  <2>2. R \in Seq(FrameSet) /\ Q \in Seq(WrittenFrames) /\ Len(R) = 1 /\ Len(Q) = 1 /\ R[1] = G /\ Q[1] = W
    BY <1>2, <2>1
  <2>3. \A d \in 1 .. 1 : Q[d] = Written(R[d])
    <3>1. \A d \in 1 .. 1 : d = 1
      OBVIOUS
    <3> QED  BY <1>1, <2>2, <3>1
  <2> QED  BY <1>3, <2>1, <2>2, <2>3
<1>6. ASSUME S # <<>> PROVE WrittenStack([S EXCEPT ![Len(S)] = G]) = [T EXCEPT ![n] = W]
  <2>1. PICK R, Q : R = [S EXCEPT ![n] = G] /\ Q = [T EXCEPT ![n] = W]
    OBVIOUS
  <2>2. n \in 1 .. n
    BY <1>1, <1>6
  <2>3. R \in Seq(FrameSet) /\ Q \in Seq(WrittenFrames) /\ Len(R) = n /\ Len(Q) = n
    <3>1. R \in Seq(FrameSet) /\ Len(R) = n
      BY <1>1, <2>1, <2>2, ExceptSeq
    <3>2. Q \in Seq(WrittenFrames) /\ Len(Q) = n
      BY <1>2, <2>1, <2>2, ExceptSeq
    <3> QED  BY <3>1, <3>2
  <2>4. R[n] = G /\ Q[n] = W /\ \A d \in 1 .. n : d # n => R[d] = S[d] /\ Q[d] = T[d]
    BY <1>1, <1>2, <2>1, <2>2
  <2>5. \A d \in 1 .. n : Q[d] = Written(R[d])
    BY <1>1, <1>2, <2>4
  <2> QED  BY <1>1, <1>3, <2>1, <2>3, <2>5
<1>7. ASSUME S # <<>> PROVE WrittenStack(SubSeq(S, 1, Len(S) - 1)) = SubSeq(T, 1, n - 1)
  <2>1. PICK m : m = n - 1
    OBVIOUS
  <2>2. m \in Nat /\ m <= n /\ \A d \in 1 .. m : d \in 1 .. n
    BY <1>1, <1>2, <1>7, <2>1
  <2>3. PICK R, Q : R = SubSeq(S, 1, m) /\ Q = SubSeq(T, 1, m)
    OBVIOUS
  <2>4. /\ R \in Seq(FrameSet) /\ Len(R) = m /\ \A d \in 1 .. m : R[d] = S[d]
    BY <1>1, <2>2, <2>3
  <2>5. /\ Q \in Seq(WrittenFrames) /\ Len(Q) = m /\ \A d \in 1 .. m : Q[d] = T[d]
    BY <1>2, <2>2, <2>3
  <2>6. \A d \in 1 .. m : Q[d] = Written(R[d])
    BY <1>2, <2>2, <2>4, <2>5
  <2> QED  BY <1>1, <1>3, <2>1, <2>3, <2>4, <2>5, <2>6
<1> QED  BY <1>1, <1>4, <1>5, <1>6, <1>7

-----------------------------------------------------------------------------
(* Before the program is started the stack is empty, and by then the pass   *)
(* is done.                                                                 *)
Idle == (mode # "compile" => pc = "done") /\ (mode = "compile" => stack = <<>>)

(* So it is.                                                                *)
LEMMA IdleAtFirst == RunSpec => []Idle
<1>1. Init /\ RunInit => Idle
  BY DEF RunInit, Idle
<1>2. Idle /\ [RunNext]_allVars => Idle'
  <2> SUFFICES ASSUME Idle, [RunNext]_allVars PROVE Idle'
    OBVIOUS
  <2>1. CASE Compile
    <3>1. pc = "scan" /\ mode' = mode /\ stack' = stack
      BY <2>1 DEF Compile, runVars
    <3> QED  BY <3>1 DEF Idle
  <2>2. CASE Start
    BY <2>2 DEF Start, Idle, vars
  <2>3. CASE RequestLevel \/ Compare \/ CheckGranted \/ ExitDenied \/ Invoke \/ Branch \/ Return
    <3>1. mode = "run" /\ mode' # "compile" /\ pc' = pc
      BY <2>3 DEF RequestLevel, Compare, CheckGranted, ExitDenied, Invoke, Branch, Return, vars
    <3> QED  BY <3>1 DEF Idle
  <2>4. CASE Ended \/ UNCHANGED allVars
    BY <2>4 DEF Ended, allVars, vars, runVars, Idle
  <2> QED  BY <2>1, <2>2, <2>3, <2>4 DEF RunNext
<1> QED  BY <1>1, <1>2, PTL DEF RunSpec

(* While the program is as it is, so is what was written of a stack.        *)
LEMMA SourceAfter ==
  ASSUME UNCHANGED vars, NEW S, stack' = S
  PROVE  SourceStack' = WrittenStack(S)
<1>1. code' = code /\ prog' = prog
  BY DEF vars
<1>2. ASSUME NEW F PROVE Written(F)' = Written(F)
  BY <1>1 DEF Written, ToCome, Position
<1>3. [d \in DOMAIN stack |-> Written(stack[d])]' = [d \in DOMAIN S |-> Written(S[d])]
  BY <1>1 DEF Written, ToCome, Position
<1> QED  BY <1>3 DEF SourceStack, WrittenStack

(* The running frame as it was written.                                     *)
LEMMA SourceFrame ==
  ASSUME RunInv, mode = "run"
  PROVE  /\ SourceStack = WrittenStack(stack) /\ stack \in Seq(FrameSet) /\ stack # <<>>
         /\ Len(SourceStack) = Len(stack) /\ SourceStack[Len(stack)] = Written(Frame)
         /\ SourceStack \in Seq(WrittenFrames) /\ Len(stack) \in 1 .. Len(stack)
         /\ Source!Frame = [fn |-> Frame.fn, ahead |-> ToCome(Frame)]
<1>1. stack \in Seq(FrameSet) /\ stack # <<>>
  BY TheFrame DEF StackShape
<1>2. Len(stack) \in 1 .. Len(stack)
  BY <1>1
<1>3. SourceStack = WrittenStack(stack)
  BY DEF SourceStack, WrittenStack
<1>4. /\ Len(SourceStack) = Len(stack) /\ SourceStack \in Seq(WrittenFrames)
      /\ SourceStack[Len(stack)] = Written(Frame)
  BY <1>1, <1>2, <1>3, WrittenShape DEF Frame
<1>5. Source!Frame = SourceStack[Len(SourceStack)]
  BY DEF Source!Frame
<1> QED  BY <1>1, <1>2, <1>3, <1>4, <1>5 DEF Written

(* What the program does at an instruction that is no gate's: it is at it,  *)
(* and passes it as the gated program does.                                 *)
LEMMA SourceAt ==
  ASSUME TypeOK, GateInv, FlowInv, RunInv, mode = "run", Current.op \notin GateOps
  PROVE  /\ Source!Current = Current /\ \A op : Current.op = op => Source!AtOp(op)
         /\ Current.op \notin TerminatorOps => Source!Passed = WrittenStack(Advanced)
<1>1. Frame \in FrameSet /\ InCode(Frame) /\ Current = At(Frame)
  BY TheFrame
<1>2. /\ ToCome(Frame) # <<>> /\ Head(ToCome(Frame)) = Current
      /\ Tail(ToCome(Frame)) = ToCome(Ahead(Frame))
  BY <1>1, ComesNext
<1>3. Source!Frame = [fn |-> Frame.fn, ahead |-> ToCome(Frame)]
  BY SourceFrame
<1>4. Source!Frame.ahead # <<>> /\ Source!Current = Current
  BY <1>2, <1>3 DEF Source!Current
<1>5. \A op : Current.op = op => Source!AtOp(op)
  BY <1>4 DEF Source!AtOp
<1>6. ASSUME Current.op \notin TerminatorOps PROVE Source!Passed = WrittenStack(Advanced)
  <2>1. PICK S, F, G, n : S = stack /\ F = Frame /\ G = Ahead(F) /\ n = Len(S)
    OBVIOUS
  <2>2. G \in FrameSet /\ G.fn = F.fn
    BY <1>1, <1>6, <2>1, GoesAhead
  <2>3. S \in Seq(FrameSet) /\ S # <<>>
    BY <2>1, SourceFrame
  <2>4. Advanced = [S EXCEPT ![Len(S)] = G]
    BY <2>1, <2>3, Moves
  <2>5. WrittenStack([S EXCEPT ![Len(S)] = G]) = [WrittenStack(S) EXCEPT ![Len(S)] = Written(G)]
    BY <2>2, <2>3, WrittenChanges
  <2>6. PICK T : T = SourceStack
    OBVIOUS
  <2>7. T = WrittenStack(S) /\ Len(T) = n /\ T[n] = [fn |-> F.fn, ahead |-> ToCome(F)]
    BY <2>1, <2>6, SourceFrame DEF Written
  <2>8. Source!Passed = [T EXCEPT ![Len(T)].ahead = Tail(@)]
    BY <2>6 DEF Source!Passed
  <2>9. Written(G) = [fn |-> F.fn, ahead |-> Tail(ToCome(F))]
    BY <1>2, <2>1, <2>2 DEF Written
  <2>10. [T[n] EXCEPT !.ahead = Tail(T[n].ahead)] = Written(G)
    <3>1. ASSUME NEW f, NEW a, NEW t, NEW r \in [fn : {f}, ahead : {a}], NEW q \in [fn : {f}, ahead : {t}]
          PROVE  [r EXCEPT !.ahead = t] = q
      OBVIOUS
    <3>2. PICK f, a, t, r, q : f = F.fn /\ a = ToCome(F) /\ t = Tail(a) /\ r = T[n] /\ q = Written(G)
      OBVIOUS
    <3>3. r \in [fn : {f}, ahead : {a}] /\ q \in [fn : {f}, ahead : {t}]
      BY <2>7, <2>9, <3>2
    <3>4. [r EXCEPT !.ahead = t] = q
      BY <3>1, <3>3
    <3>5. Tail(T[n].ahead) = t
      BY <2>7, <3>2
    <3> QED  BY <3>2, <3>4, <3>5
  <2>11. Source!Passed = [T EXCEPT ![n] = Written(G)]
    <3>1. [T EXCEPT ![n].ahead = Tail(@)] = [T EXCEPT ![n] = [T[n] EXCEPT !.ahead = Tail(T[n].ahead)]]
      OBVIOUS
    <3> QED  BY <2>7, <2>8, <2>10, <3>1
  <2> QED  BY <2>1, <2>4, <2>5, <2>7, <2>11
<1> QED  BY <1>4, <1>5, <1>6

(* A gate's instruction changes nothing of it.                              *)
LEMMA GateIsPassed ==
  ASSUME TypeOK, GateInv, FlowInv, TextInv, RunInv, mode = "run", UNCHANGED vars,
         \/ stack' = Advanced /\ Current.op \in GateOps /\ Current.op \notin TerminatorOps
         \/ Current.op = "check" /\ \E l \in Current.to : stack' = JumpedTo(l)
  PROVE  SourceStack' = SourceStack
<1>1. Frame \in FrameSet /\ InCode(Frame) /\ Current = At(Frame)
  BY TheFrame
<1>2. PICK S, F : S = stack /\ F = Frame
  OBVIOUS
<1>3. S \in Seq(FrameSet) /\ S # <<>>
  BY <1>2, SourceFrame
<1>4. \E G \in FrameSet : G.fn = F.fn /\ ToCome(G) = ToCome(F) /\ stack' = [S EXCEPT ![Len(S)] = G]
  <2>1. CASE stack' = Advanced /\ Current.op \in GateOps /\ Current.op \notin TerminatorOps
    <3>1. Ahead(F) \in FrameSet /\ Ahead(F).fn = F.fn
      BY <1>1, <1>2, <2>1, GoesAhead
    <3>2. ToCome(Ahead(F)) = ToCome(F)
      BY <1>1, <1>2, <2>1, ComesNext
    <3>3. Advanced = [S EXCEPT ![Len(S)] = Ahead(F)]
      BY <1>2, <1>3, Moves
    <3> QED  BY <2>1, <3>1, <3>2, <3>3
  <2>2. ASSUME Current.op = "check", NEW l \in Current.to, stack' = JumpedTo(l)
        PROVE  \E G \in FrameSet : G.fn = F.fn /\ ToCome(G) = ToCome(F) /\ stack' = [S EXCEPT ![Len(S)] = G]
    <3>1. To(F, l) \in FrameSet /\ To(F, l).fn = F.fn /\ ToCome(To(F, l)) = ToCome(F)
      BY <1>1, <1>2, <2>2, ComesFromCheck
    <3>2. JumpedTo(l) = [S EXCEPT ![Len(S)] = To(F, l)]
      BY <1>2, <1>3, Moves
    <3> QED  BY <2>2, <3>1, <3>2
  <2> QED  BY <2>1, <2>2
<1>5. PICK G \in FrameSet : G.fn = F.fn /\ ToCome(G) = ToCome(F) /\ stack' = [S EXCEPT ![Len(S)] = G]
  BY <1>4
<1>6. SourceStack' = WrittenStack([S EXCEPT ![Len(S)] = G])
  BY <1>5, SourceAfter
<1>7. WrittenStack([S EXCEPT ![Len(S)] = G]) = [WrittenStack(S) EXCEPT ![Len(S)] = Written(G)]
  BY <1>3, WrittenChanges
<1>8. PICK T : T = SourceStack
  OBVIOUS
<1>9. T = WrittenStack(S) /\ T \in Seq(WrittenFrames) /\ T[Len(S)] = Written(F)
  BY <1>2, <1>8, SourceFrame
<1>10. Written(G) = Written(F)
  BY <1>5 DEF Written
<1>11. [T EXCEPT ![Len(S)] = T[Len(S)]] = T
  BY <1>9
<1> QED  BY <1>6, <1>7, <1>8, <1>9, <1>10, <1>11

(* An empty stack stays one.                                                *)
LEMMA NothingWritten == stack = <<>> => SourceStack = <<>>
<1> SUFFICES ASSUME stack = <<>> PROVE SourceStack = <<>>
  OBVIOUS
<1>1. PICK nil, T : nil = <<>> /\ T = [d \in DOMAIN stack |-> Written(stack[d])]
  OBVIOUS
<1>2. Len(stack) = 0
  OBVIOUS
<1>3. SubSeq(T, 1, 0) = <<>>
  BY SubSeqEmpty
<1> QED  BY <1>1, <1>2, <1>3 DEF SourceStack

(* A call is made as it was written, ...                                    *)
LEMMA CallIsMade ==
  ASSUME TypeOK, GateInv, FlowInv, TextInv, RunInv, Invoke
  PROVE  Source!Call
<1>1. mode = "run" /\ mode' = mode /\ UNCHANGED vars /\ prog' = prog /\ Current.op = "call"
  BY DEF Invoke, vars
<1>2. Current.op \notin GateOps /\ Current.op \notin TerminatorOps
  BY <1>1, OpsShape DEF GateOps
<1>3. Source!Current = Current /\ Source!AtOp("call") /\ Source!Passed = WrittenStack(Advanced)
  BY <1>1, <1>2, SourceAt
<1>4. PICK A : A = Advanced
  OBVIOUS
<1>5. A \in Seq(FrameSet)
  <2>1. PICK S, G : S = stack /\ G = Ahead(Frame)
    OBVIOUS
  <2>2. S \in Seq(FrameSet) /\ S # <<>> /\ Len(S) \in 1 .. Len(S)
    BY <1>1, <2>1, SourceFrame
  <2>3. G \in FrameSet
    BY <1>1, <1>2, <2>1, TheFrame, GoesAhead
  <2>4. A = [S EXCEPT ![Len(S)] = G]
    BY <1>4, <2>1, <2>2, Moves
  <2> QED  BY <2>2, <2>3, <2>4, ExceptSeq
<1>6. ASSUME stack' = A PROVE SourceStack' = Source!Passed
  BY <1>1, <1>3, <1>4, <1>6, SourceAfter
<1>7. ASSUME NEW g \in prog.defs, stack' = Append(A, EntryFrame(g))
      PROVE  SourceStack' = Append(Source!Passed, Source!Entered(g))
  <2>1. PICK E : E = EntryFrame(g)
    OBVIOUS
  <2>2. E \in FrameSet /\ Written(E) = Source!Entered(g)
    BY <2>1, Enters, ComesFromEntry
  <2>3. SourceStack' = WrittenStack(Append(A, E))
    BY <1>1, <1>7, <2>1, SourceAfter
  <2>4. WrittenStack(Append(A, E)) = Append(WrittenStack(A), Written(E))
    BY <1>5, <2>2, WrittenChanges
  <2> QED  BY <1>3, <1>4, <2>2, <2>3, <2>4
<1>8. \/ Current.callee \in prog.defs /\ stack' = Append(A, EntryFrame(Current.callee))
      \/ Current.callee = Indirect /\ \E g \in prog.defs : stack' = Append(A, EntryFrame(g))
      \/ Current.callee \in Function \ prog.defs /\ stack' = A
  BY <1>4 DEF Invoke
<1>9. \/ Current.callee \in prog.defs /\ SourceStack' = Append(Source!Passed, Source!Entered(Current.callee))
      \/ Current.callee = Indirect /\ \E g \in prog.defs : SourceStack' = Append(Source!Passed, Source!Entered(g))
      \/ Current.callee \in Function \ prog.defs /\ SourceStack' = Source!Passed
  BY <1>6, <1>7, <1>8
<1> QED  BY <1>1, <1>3, <1>9 DEF Source!Call

(* ... a branch taken, ...                                                  *)
LEMMA BranchIsTaken ==
  ASSUME TypeOK, GateInv, FlowInv, TextInv, RunInv, Branch
  PROVE  Source!Branch
<1>1. mode = "run" /\ mode' = mode /\ UNCHANGED vars /\ prog' = prog /\ Current.op = "br"
  BY DEF Branch, vars
<1>2. PICK l \in Current.to : stack' = JumpedTo(l)
  BY DEF Branch
<1>3. Source!Current = Current /\ Source!AtOp("br")
  BY <1>1, SourceAt DEF GateOps
<1>4. PICK S, F, G, n : S = stack /\ F = Frame /\ G = To(F, l) /\ n = Len(S)
  OBVIOUS
<1>5. F \in FrameSet /\ InCode(F) /\ Current = At(F)
  BY <1>1, <1>4, TheFrame
<1>6. G \in FrameSet /\ G.fn = F.fn /\ ToCome(G) = Source!Text(F.fn, l)
  BY <1>1, <1>2, <1>4, <1>5, Branched, ComesFromBranch
<1>7. S \in Seq(FrameSet) /\ S # <<>>
  BY <1>1, <1>4, SourceFrame
<1>8. stack' = [S EXCEPT ![Len(S)] = G]
  BY <1>2, <1>4, <1>7, Moves
<1>9. SourceStack' = WrittenStack([S EXCEPT ![Len(S)] = G])
  BY <1>1, <1>8, SourceAfter
<1>10. WrittenStack([S EXCEPT ![Len(S)] = G]) = [WrittenStack(S) EXCEPT ![Len(S)] = Written(G)]
  BY <1>6, <1>7, WrittenChanges
<1>11. PICK T : T = SourceStack
  OBVIOUS
<1>12. /\ T = WrittenStack(S) /\ Len(T) = n /\ T[n] = [fn |-> F.fn, ahead |-> ToCome(F)]
       /\ Source!Frame = [fn |-> F.fn, ahead |-> ToCome(F)]
  BY <1>1, <1>4, <1>11, SourceFrame DEF Written
<1>13. PICK t : t = Source!Text(F.fn, l)
  OBVIOUS
<1>14. [T[n] EXCEPT !.ahead = t] = Written(G)
  <2>1. ASSUME NEW f, NEW a, NEW r \in [fn : {f}, ahead : {a}], NEW q \in [fn : {f}, ahead : {t}]
        PROVE  [r EXCEPT !.ahead = t] = q
    OBVIOUS
  <2>2. PICK f, a, r, q : f = F.fn /\ a = ToCome(F) /\ r = T[n] /\ q = Written(G)
    OBVIOUS
  <2>3. r \in [fn : {f}, ahead : {a}] /\ q \in [fn : {f}, ahead : {t}]
    BY <1>6, <1>12, <1>13, <2>2 DEF Written
  <2>4. [r EXCEPT !.ahead = t] = q
    BY <2>1, <2>3
  <2> QED  BY <2>2, <2>4
<1>15. [T EXCEPT ![n].ahead = t] = [T EXCEPT ![n] = Written(G)]
  <2>1. [T EXCEPT ![n].ahead = t] = [T EXCEPT ![n] = [T[n] EXCEPT !.ahead = t]]
    OBVIOUS
  <2> QED  BY <1>14, <2>1
<1>16. SourceStack' = [T EXCEPT ![Len(T)].ahead = t]
  BY <1>4, <1>9, <1>10, <1>12, <1>15
<1>17. Source!Frame.fn = F.fn
  BY <1>12
<1>18. SourceStack' = [SourceStack EXCEPT ![Len(SourceStack)].ahead = Source!Text(Source!Frame.fn, l)]
  BY <1>11, <1>13, <1>16, <1>17
<1> QED  BY <1>1, <1>2, <1>3, <1>18 DEF Source!Branch

(* ... and a return made.                                                   *)
LEMMA ReturnIsMade ==
  ASSUME TypeOK, GateInv, FlowInv, TextInv, RunInv, Return
  PROVE  Source!Return
<1>1. mode = "run" /\ UNCHANGED vars /\ prog' = prog /\ Current.op = "ret"
  BY DEF Return, vars
<1>2. Source!AtOp("ret")
  BY <1>1, SourceAt DEF GateOps
<1>3. PICK S : S = stack
  OBVIOUS
<1>4. S \in Seq(FrameSet) /\ S # <<>> /\ SourceStack = WrittenStack(S) /\ Len(SourceStack) = Len(S)
  BY <1>1, <1>3, SourceFrame
<1>5. SourceStack' = WrittenStack(SubSeq(S, 1, Len(S) - 1))
  <2>1. stack' = SubSeq(S, 1, Len(S) - 1)
    BY <1>3 DEF Return
  <2> QED  BY <1>1, <2>1, SourceAfter
<1>6. WrittenStack(SubSeq(S, 1, Len(S) - 1)) = SubSeq(WrittenStack(S), 1, Len(S) - 1)
  <2>1. PICK G \in FrameSet : G = Frame
    BY <1>1, TheFrame
  <2> QED  BY <1>4, <2>1, WrittenChanges
<1>7. mode' = IF Len(SourceStack) = 1 THEN "returned" ELSE "run"
  BY <1>3, <1>4 DEF Return
<1> QED  BY <1>1, <1>2, <1>4, <1>5, <1>6, <1>7 DEF Source!Return

(* A gate exits where the program may be refused.                           *)
LEMMA ExitIsRefusal ==
  ASSUME TypeOK, GateInv, FlowInv, TextInv, RunInv, ExitDenied
  PROVE  Source!Refuse
<1>1. mode = "run" /\ mode' = "exited" /\ UNCHANGED vars /\ prog' = prog /\ Current.op = "exit" /\ stack' = stack
  BY DEF ExitDenied, vars
<1>2. Frame \in FrameSet /\ InCode(Frame) /\ Current = At(Frame)
  BY <1>1, TheFrame
<1>3. PICK x : x = Head(ToCome(Frame))
  OBVIOUS
<1>4. /\ ToCome(Frame) # <<>> /\ x.op \in {"call", "invoke"} /\ x.callee \in prog.defs
      /\ Source!Gains(Frame.fn, x.callee)
  BY <1>1, <1>2, <1>3, ExitsThere
<1>5. Source!Frame = [fn |-> Frame.fn, ahead |-> ToCome(Frame)]
  BY <1>1, SourceFrame
<1>6. Source!Frame.ahead # <<>> /\ Source!Current = x /\ Source!Frame.fn = Frame.fn
  BY <1>3, <1>4, <1>5 DEF Source!Current
<1>7. Source!AtOp("call") \/ Source!AtOp("invoke")
  BY <1>1, <1>4, <1>6 DEF Source!AtOp
<1>8. SourceStack' = SourceStack
  <2>1. SourceStack' = WrittenStack(stack)
    BY <1>1, SourceAfter
  <2> QED  BY <2>1 DEF SourceStack, WrittenStack
<1> QED  BY <1>1, <1>4, <1>6, <1>7, <1>8 DEF Source!Refuse

(* The program is started in main.                                          *)
LEMMA StartsInMain ==
  ASSUME TypeOK, GateInv, FlowInv, TextInv, Start
  PROVE  Source!Start
<1>1. mode = "compile" /\ mode' = "run" /\ UNCHANGED vars /\ prog' = prog /\ Main \in prog.defs
      /\ stack' = <<EntryFrame(Main)>>
  BY DEF Start, vars
<1>2. PICK E : E = EntryFrame(Main)
  OBVIOUS
<1>3. E \in FrameSet /\ Written(E) = Source!Entered(Main)
  BY <1>1, <1>2, Enters, ComesFromEntry
<1>4. SourceStack' = WrittenStack(<<E>>)
  BY <1>1, <1>2, SourceAfter
<1>5. WrittenStack(<<E>>) = <<Written(E)>>
  <2>1. <<E>> \in Seq(FrameSet)
    BY <1>3
  <2> QED  BY <1>3, <2>1, WrittenChanges
<1> QED  BY <1>1, <1>3, <1>4, <1>5 DEF Source!Start

(* A step of the gated program is one of the program as it was written, or  *)
(* none.                                                                    *)
LEMMA StepAsWritten ==
  ASSUME TypeOK, GateInv, FlowInv, TextInv, RunInv, Idle, stack = <<>> => SourceStack = <<>>,
         stack' = <<>> => SourceStack' = <<>>, [RunNext]_allVars
  PROVE  [Source!Next]_(Source!vars)
<1>1. ASSUME prog' = prog, mode' = mode, SourceStack' = SourceStack PROVE [Source!Next]_(Source!vars)
  BY <1>1 DEF Source!vars
<1>2. CASE Compile
  <2>1. mode = "compile" /\ mode' = mode /\ stack' = stack /\ stack = <<>>
    BY <1>2 DEF Compile, runVars, Idle
  <2>2. prog' = prog
    BY <1>2 DEF Compile, Next, SkipSite, GateSite, CrashOnUntagged, Finish, Stopped, vars
  <2>3. SourceStack' = SourceStack
    BY <2>1
  <2> QED  BY <1>1, <2>1, <2>2, <2>3
<1>3. CASE Start
  BY <1>3, StartsInMain DEF Source!Next
<1>4. CASE RequestLevel \/ Compare
  <2>1. mode = "run" /\ mode' = mode /\ UNCHANGED vars /\ prog' = prog /\ stack' = Advanced
        /\ Current.op \in {"syscall", "cmp"}
    BY <1>4 DEF RequestLevel, Compare, vars
  <2>2. Current.op \in GateOps /\ Current.op \notin TerminatorOps
    BY <2>1, OpsShape DEF GateOps
  <2>3. SourceStack' = SourceStack
    BY <2>1, <2>2, GateIsPassed
  <2> QED  BY <1>1, <2>1, <2>3
<1>5. CASE CheckGranted
  <2>1. mode = "run" /\ mode' = mode /\ UNCHANGED vars /\ prog' = prog /\ Current.op = "check"
        /\ \E l \in Current.to : stack' = JumpedTo(l)
    BY <1>5 DEF CheckGranted, vars
  <2>2. SourceStack' = SourceStack
    BY <2>1, GateIsPassed
  <2> QED  BY <1>1, <2>1, <2>2
<1>6. CASE ExitDenied
  BY <1>6, ExitIsRefusal DEF Source!Next
<1>7. CASE Invoke
  BY <1>7, CallIsMade DEF Source!Next
<1>8. CASE Branch
  BY <1>8, BranchIsTaken DEF Source!Next
<1>9. CASE Return
  BY <1>9, ReturnIsMade DEF Source!Next
<1>10. CASE Ended \/ UNCHANGED allVars
  <2>1. UNCHANGED vars /\ prog' = prog /\ mode' = mode /\ stack' = stack
    BY <1>10 DEF Ended, allVars, runVars, vars
  <2>2. SourceStack' = WrittenStack(stack)
    BY <2>1, SourceAfter
  <2>3. SourceStack' = SourceStack
    BY <2>2 DEF SourceStack, WrittenStack
  <2> QED  BY <1>1, <2>1, <2>3
<1> QED  BY <1>2, <1>3, <1>4, <1>5, <1>6, <1>7, <1>8, <1>9, <1>10 DEF RunNext

(* The gated program runs as it was written, for every program, number of   *)
(* levels and depth of the stack, whatever the kernel grants: all that the  *)
(* gates add is that it may exit where it is about to call a more           *)
(* privileged function.                                                     *)
THEOREM GatesAreTransparent == RunSpec => RunsAsWritten
<1>1. Init /\ RunInit => Source!Init
  <2> SUFFICES ASSUME Init, RunInit PROVE Source!Init
    OBVIOUS
  <2>1. prog \in Programs /\ mode = "compile" /\ stack = <<>>
    BY DEF Init, RunInit
  <2> QED  BY <2>1, NothingWritten DEF Source!Init
<1>2. ASSUME TypeOK, GateInv, FlowInv, TextInv, RunInv, Idle, stack = <<>> => SourceStack = <<>>,
             (stack = <<>> => SourceStack = <<>>)', [RunNext]_allVars
      PROVE  [Source!Next]_(Source!vars)
  BY <1>2, StepAsWritten
<1> QED  BY <1>1, <1>2, NothingWritten, RunIsPass, TypeCorrect, GatesStayInShape, CallsStayGated, RunsInShape,
            TextStaysInPlace, IdleAtFirst, PTL DEF RunSpec, RunsAsWritten, Source!Spec
=============================================================================
