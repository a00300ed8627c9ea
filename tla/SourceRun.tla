------------------------------ MODULE SourceRun ------------------------------
(***************************************************************************)
(* What the gates must not change: the program as it was written, running. *)
(* A frame is a function and the instructions from where it is to the end  *)
(* of the function, in program order.  There are no gates and no levels;   *)
(* all that is left of them is that the program may end at a call of a     *)
(* more privileged function.                                               *)
(***************************************************************************)
EXTENDS ModuleIR, SequencesExt

CONSTANT Programs   \* the programs that may run

VARIABLES
  prog,     \* the program; never changes
  mode,     \* "compile", "run", "exited" or "returned"
  stack     \* the frames [fn, ahead], the running one last

vars == <<prog, mode, stack>>

Insts(blocks) == FlattenSeq([k \in DOMAIN blocks |-> blocks[k].insts])

Text(f, l) == Insts(SubSeq(prog.code[f], l, Len(prog.code[f])))

Frame == stack[Len(stack)]

Current == Head(Frame.ahead)

AtOp(op) == mode = "run" /\ Frame.ahead # <<>> /\ Current.op = op

Entered(f) == [fn |-> f, ahead |-> Text(f, 1)]

Passed == [stack EXCEPT ![Len(stack)].ahead = Tail(@)]

(* A function without a tag has no level to be compared.                    *)
Gains(f, g) ==
  Tagged(prog.section[f]) /\ Tagged(prog.section[g]) => prog.section[g] < prog.section[f]

Init ==
  /\ prog \in Programs
  /\ mode = "compile"
  /\ stack = <<>>

Start ==
  /\ mode = "compile" /\ Main \in prog.defs
  /\ mode' = "run"
  /\ stack' = <<Entered(Main)>>
  /\ UNCHANGED prog

Call ==
  /\ AtOp("call")
  /\ \/ Current.callee \in prog.defs /\ stack' = Append(Passed, Entered(Current.callee))
     \/ Current.callee = Indirect /\ \E g \in prog.defs : stack' = Append(Passed, Entered(g))
     \/ Current.callee \in Function \ prog.defs /\ stack' = Passed
  /\ UNCHANGED <<prog, mode>>

Branch ==
  /\ AtOp("br")
  /\ \E l \in Current.to : stack' = [stack EXCEPT ![Len(stack)].ahead = Text(Frame.fn, l)]
  /\ UNCHANGED <<prog, mode>>

Return ==
  /\ AtOp("ret")
  /\ stack' = SubSeq(stack, 1, Len(stack) - 1)
  /\ mode' = IF Len(stack) = 1 THEN "returned" ELSE "run"
  /\ UNCHANGED prog

(* The gate of a call is refused, and the program exits without it.         *)
Refuse ==
  /\ AtOp("call") \/ AtOp("invoke")
  /\ Current.callee \in prog.defs /\ Gains(Frame.fn, Current.callee)
  /\ mode' = "exited"
  /\ UNCHANGED <<prog, stack>>

Next == Start \/ Call \/ Branch \/ Return \/ Refuse

Spec == Init /\ [][Next]_vars
=============================================================================
