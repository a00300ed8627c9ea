------------------------------ MODULE MCSysCall ------------------------------
(***************************************************************************)
(* Families of programs for the runs of SysCallInsertion: main, the exit   *)
(* function, and two functions a and b, with at most three calls in a      *)
(* function and three levels.                                              *)
(***************************************************************************)
EXTENDS SysCallInsertion, TLC

CONSTANTS main, exit, a, b, indirect

MCFunction == {main, exit, a, b}

One(calls) == << [label |-> 1, insts |-> [i \in DOMAIN calls |-> Call("call", calls[i])] \o <<Ret>>] >>

(* Two blocks, the first of which may loop; the second starts with a call.  *)
Loop(f, g) ==
  << [label |-> 1, insts |-> <<Call("call", f), [op |-> "br", to |-> {1, 2}]>>],
     [label |-> 2, insts |-> <<Call("call", g), Ret>>] >>

(* The normal destination of the invoke is block 2, the landing pad block 3. *)
Invokes(f) ==
  << [label |-> 1, insts |-> <<[op |-> "invoke", callee |-> f, to |-> {2, 3}]>>],
     [label |-> 2, insts |-> <<Ret>>], [label |-> 3, insts |-> <<Ret>>] >>

Codes(ms, as, bs, es) ==
  { (main :> m @@ a :> x @@ b :> y @@ exit :> e) : m \in ms, x \in as, y \in bs, e \in es }

Sections(as, bs, es) ==
  { (main :> 2 @@ a :> x @@ b :> y @@ exit :> e) : x \in as, y \in bs, e \in es }

InModuleOrder == { (main :> 0 @@ a :> 1 @@ b :> 2 @@ exit :> 3),
                   (exit :> 0 @@ b :> 1 @@ a :> 2 @@ main :> 3) }

(* Every combination of levels, and an exit function that is defined, with  *)
(* a level of its own, or declared.                                         *)
TaggedPrograms ==
  [ defs    : { MCFunction, MCFunction \ {exit} },
    section : Sections({0, 1, 2}, {0, 2}, {0, 2}),
    rank    : InModuleOrder,
    code    : Codes({One(<<a, b, a>>), One(<<b, b, exit>>), One(<<a, indirect, main>>),
                     Loop(a, b), Loop(b, a)},
                    {One(<<b>>), One(<<a, exit>>), Loop(b, b)},
                    {One(<<>>), One(<<a>>), One(<<exit>>)},
                    {One(<<>>), One(<<b>>)}),
    exit    : {exit} ]

(* A function without a tag and a static constructor, as callers and as     *)
(* callees.                                                                 *)
UntaggedPrograms ==
  [ defs    : { MCFunction },
    section : Sections({-1, NoTag}, {NoTag, Startup}, {2}),
    rank    : InModuleOrder,
    code    : Codes({One(<<a, b, a>>)}, {One(<<b>>), One(<<exit>>)}, {One(<<a>>)}, {One(<<>>)}),
    exit    : {exit} ]

(* A call under a try block is an invoke.                                   *)
InvokePrograms ==
  [ defs    : { MCFunction },
    section : Sections({0, 2}, {0, 2}, {0, 2}),
    rank    : InModuleOrder,
    code    : Codes({Invokes(a), Invokes(b)}, {One(<<>>), Invokes(b)},
                    {One(<<>>), One(<<exit>>)}, {One(<<>>)}),
    exit    : {exit} ]

AnyPrograms == TaggedPrograms \cup UntaggedPrograms \cup InvokePrograms
=============================================================================
