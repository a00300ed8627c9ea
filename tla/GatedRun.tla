------------------------------ MODULE GatedRun ------------------------------
(***************************************************************************)
(* The program that SysCallInsertion has rewritten, running on a kernel    *)
(* that knows syscall 352.  The pass runs first; its result is then        *)
(* executed instruction by instruction from main.                          *)
(*                                                                         *)
(* The kernel and the hardware are not in the repository: what is assumed  *)
(* of them is what the inserted code relies on.  syscall(352, lev) asks to *)
(* run at level lev and returns 1 if that is granted, and the level stays  *)
(* as it is if not, also when less privilege was asked for; exit does not  *)
(* return.                                                                 *)
(***************************************************************************)
EXTENDS SysCallInsertion

CONSTANT MaxDepth   \* the bound on the call stack; deeper runs stop there

ASSUME MaxDepthAssumption == MaxDepth \in Nat \ {0}

VARIABLES
  mode,     \* "compile", "run", "exited" (by a gate) or "returned" (from main)
  stack,    \* the frames [fn, label, next], the running one last
  level,    \* the level the kernel has the process at
  granted,  \* whether the last syscall returned 1
  stuck     \* history: a request to be less privileged was refused

runVars == <<mode, stack, level, granted, stuck>>

allVars == <<vars, runVars>>

-----------------------------------------------------------------------------
Frame == stack[Len(stack)]

InstsAt(f, l) == (CHOOSE b \in { code[f][k] : k \in DOMAIN code[f] } : b.label = l).insts

Current == InstsAt(Frame.fn, Frame.label)[Frame.next]

EntryFrame(f) == [fn |-> f, label |-> code[f][1].label, next |-> 1]

Advanced == [stack EXCEPT ![Len(stack)].next = @ + 1]

JumpedTo(l) == [stack EXCEPT ![Len(stack)].label = l, ![Len(stack)].next = 1]

RunInit ==
  /\ mode = "compile"
  /\ stack = <<>>
  /\ level = LeastPrivileged
  /\ granted = FALSE
  /\ stuck = FALSE

Compile == Next /\ pc = "scan" /\ UNCHANGED runVars

Start ==
  /\ mode = "compile" /\ pc = "done" /\ Main \in prog.defs
  /\ mode' = "run"
  /\ stack' = <<EntryFrame(Main)>>
  /\ UNCHANGED <<vars, level, granted, stuck>>

RequestLevel ==
  /\ mode = "run" /\ Current.op = "syscall"
  /\ \/ granted' = TRUE /\ level' = Current.level /\ UNCHANGED stuck
     \/ /\ granted' = FALSE /\ UNCHANGED level
        /\ stuck' = (stuck \/ Current.level > level)
  /\ stack' = Advanced
  /\ UNCHANGED <<vars, mode>>

Compare ==
  /\ mode = "run" /\ Current.op = "cmp"
  /\ stack' = Advanced
  /\ UNCHANGED <<vars, mode, level, granted, stuck>>

CheckGranted ==
  /\ mode = "run" /\ Current.op = "check"
  /\ \E l \in Current.to :
       /\ granted <=> l # Current.denied
       /\ stack' = JumpedTo(l)
  /\ UNCHANGED <<vars, mode, level, granted, stuck>>

ExitDenied ==
  /\ mode = "run" /\ Current.op = "exit"
  /\ mode' = "exited"
  /\ UNCHANGED <<vars, stack, level, granted, stuck>>

(* An indirect call may reach any function; a declared function runs at the *)
(* level of its caller and returns.                                         *)
Invoke ==
  /\ mode = "run" /\ Current.op = "call" /\ Len(stack) < MaxDepth
  /\ \/ /\ Current.callee \in prog.defs
        /\ stack' = Append(Advanced, EntryFrame(Current.callee))
     \/ /\ Current.callee = Indirect
        /\ \E g \in prog.defs : stack' = Append(Advanced, EntryFrame(g))
     \/ /\ Current.callee \in Function \ prog.defs
        /\ stack' = Advanced
  /\ UNCHANGED <<vars, mode, level, granted, stuck>>

Branch ==
  /\ mode = "run" /\ Current.op = "br"
  /\ \E l \in Current.to : stack' = JumpedTo(l)
  /\ UNCHANGED <<vars, mode, level, granted, stuck>>

Return ==
  /\ mode = "run" /\ Current.op = "ret"
  /\ stack' = SubSeq(stack, 1, Len(stack) - 1)
  /\ mode' = IF Len(stack) = 1 THEN "returned" ELSE "run"
  /\ UNCHANGED <<vars, level, granted, stuck>>

Ended ==
  /\ \/ mode \in {"exited", "returned"}
     \/ mode = "compile" /\ pc = "crashed"
     \/ mode = "run" /\ Current.op = "call" /\ Len(stack) = MaxDepth
  /\ UNCHANGED allVars

RunNext ==
  \/ Compile \/ Start
  \/ RequestLevel \/ Compare \/ CheckGranted \/ ExitDenied
  \/ Invoke \/ Branch \/ Return
  \/ Ended

RunSpec == Init /\ RunInit /\ [][RunNext]_allVars

-----------------------------------------------------------------------------
(* Properties.                                                              *)

(* The first instruction of a gate's tail runs at the callee's level.       *)
GatedCallee(f, l) ==
  { g \in prog.defs : \E e \in Gates(f, g) : code[f][e[2]].label = l }

AtGatedCall == Frame.next = 1 /\ GatedCallee(Frame.fn, Frame.label) # {}

InGate == Current.op \in GateOps \/ AtGatedCall

(* The programs the gates are enough for: main has the level the process   *)
(* starts at, no function calls a less privileged one, none calls the same  *)
(* more privileged one twice, the exit calls of its gates included, and     *)
(* nothing is called indirectly.                                            *)
CallsIn(f) ==
  { p \in Positions(prog.code[f]) : prog.code[f][p[1]].insts[p[2]].op \in CallOps }

CallTo(f, c) == prog.code[f][c[1]].insts[c[2]].callee

Lowering(f, c) ==
  CallTo(f, c) \in prog.defs /\ prog.section[CallTo(f, c)] < prog.section[f]

GatesSuffice ==
  /\ prog.section[Main] = LeastPrivileged
  /\ \A f \in prog.defs :
       /\ Tagged(prog.section[f])
       /\ \A c \in CallsIn(f) :
            /\ CallTo(f, c) # Indirect
            /\ CallTo(f, c) \in prog.defs => prog.section[CallTo(f, c)] <= prog.section[f]
       /\ \A c, d \in CallsIn(f) :
            (/\ Lowering(f, c) /\ Lowering(f, d)
             /\ CallTo(f, c) \in {CallTo(f, d), prog.exit}) => c = d

(* In those programs a function's own code always runs at exactly its own   *)
(* level, and a gated call is made at the callee's: whatever gates were     *)
(* nested, denied or passed on the way here, each put the level back.  The  *)
(* result of that syscall is not looked at: once it was refused, code runs  *)
(* with more privilege than its own, but still never with less.             *)
RunsAtItsLevel ==
  GatesSuffice /\ mode = "run" =>
    LET due == IF AtGatedCall THEN { prog.section[g] : g \in GatedCallee(Frame.fn, Frame.label) }
               ELSE IF InGate THEN {} ELSE { prog.section[Frame.fn] }
    IN \A l \in due : level <= l /\ (~stuck => level = l)

(* A function whose gate was refused is not entered.  In any program: when  *)
(* a call enters a function through a gate, the level is that function's.   *)
DeniedMeansNotEntered ==
  [][mode = "run" /\ Len(stack') > Len(stack) /\ AtGatedCall
       => LET entered == prog.section[stack'[Len(stack')].fn]
          IN  Tagged(entered) => level = entered]_allVars

(* What is still to come in a frame's function when the gates are taken     *)
(* out: of a gate, its call; behind the call, what came after it.           *)
Position(f, l) == CHOOSE k \in DOMAIN code[f] : code[f][k].label = l

From(s, k) == SubSeq(s, k, Len(s))

ToCome(F) ==
  LET k == Position(F.fn, F.label)
  IN  WithoutGates(From(code[F.fn][k].insts, F.next) \o Insts(From(code[F.fn], k + 1)))

(* The frames of the program as it was written.  (SubSeq is for TLC, which  *)
(* else takes a function for what is a sequence.)                           *)
Written(F) == [fn |-> F.fn, ahead |-> ToCome(F)]

SourceStack == SubSeq([d \in DOMAIN stack |-> Written(stack[d])], 1, Len(stack))

(* The gated program runs as it was written: it makes the same calls, in    *)
(* the same order, takes the same branches and returns to the same places,  *)
(* whichever gates it passes and however they cut the blocks and each       *)
(* other.  The one thing it may do besides is to exit, and only where it is *)
(* about to call a more privileged function.                                *)
Source == INSTANCE SourceRun WITH stack <- SourceStack

RunsAsWritten == Source!Spec

(* A gate gives back the level its function is tagged with, not the one it  *)
(* was entered at, and a function that calls a less privileged one needs no *)
(* gate: it may go on with less privilege than its own.  What it loses is   *)
(* bounded by the functions called without a gate since the last one: the   *)
(* level is never below the least privileged of those that run, or that     *)
(* they call so.  That holds for any set of functions that is closed under  *)
(* such calls and contains them.                                            *)
EnteredByGate(d) ==
  d > 1 /\ stack[d - 1].next = 2 /\ GatedCallee(stack[d - 1].fn, stack[d - 1].label) # {}

SinceGate ==
  { stack[d].fn : d \in { n \in DOMAIN stack : \A m \in n + 1 .. Len(stack) : ~EnteredByGate(m) } }

CallsUngated(f, g) ==
  \E s \in Positions(code[f]) :
    LET x == code[f][s[1]].insts[s[2]]
    IN  /\ x.op = "call" /\ x.callee \in {g, Indirect}
        /\ s[2] = 1 => GatedCallee(f, code[f][s[1]].label) = {}

LossIsBounded ==
  /\ mode = "run" /\ ~InGate
  /\ prog.section[Main] = LeastPrivileged
  /\ \A f \in prog.defs : Tagged(prog.section[f])
  => \A S \in SUBSET prog.defs :
       /\ SinceGate \subseteq S
       /\ \A f \in S : \A g \in prog.defs \ S : ~CallsUngated(f, g)
       => \E g \in S : level <= prog.section[g]
=============================================================================
