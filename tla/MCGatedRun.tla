------------------------------ MODULE MCGatedRun ------------------------------
(***************************************************************************)
(* Families of programs for the runs of GatedRun: main, three functions    *)
(* that call each other without recursion, and the exit function.          *)
(***************************************************************************)
EXTENDS GatedRun, TLC

CONSTANTS main, exit, a, b, c, indirect

MCFunction == {main, exit, a, b, c}

One(calls) == << [label |-> 1, insts |-> [i \in DOMAIN calls |-> Call("call", calls[i])] \o <<Ret>>] >>

(* The first block, with its call, is run once or more.                     *)
Loop(f, g) ==
  << [label |-> 1, insts |-> <<Call("call", f), [op |-> "br", to |-> {1, 2}]>>],
     [label |-> 2, insts |-> <<Call("call", g), Ret>>] >>

Codes(ms, as, bs, e) ==
  { (main :> m @@ a :> x @@ b :> y @@ c :> One(<<>>) @@ exit :> e) :
      m \in ms, x \in as, y \in bs }

Sections(ls) ==
  { (main :> 2 @@ exit :> NoTag @@ a :> x @@ b :> y @@ c :> z) : x, y, z \in ls }

MCRank == (main :> 0 @@ a :> 1 @@ b :> 2 @@ c :> 3 @@ exit :> 4)

(* The exit function is declared.                                           *)
DeclaredExit ==
  [ defs    : { MCFunction \ {exit} },
    section : Sections({0, 1, 2}),
    rank    : { MCRank },
    code    : Codes({One(<<a, b>>), One(<<b, a, b>>), One(<<exit, indirect>>), Loop(a, b)},
                    {One(<<b>>), One(<<c, b>>), Loop(b, c)},
                    {One(<<>>), One(<<c>>)}, <<>>),
    exit    : {exit} ]

(* It is in the module, and may be more privileged than who calls it.       *)
DefinedExit ==
  [ defs    : { MCFunction },
    section : { (main :> 2 @@ exit :> e @@ a :> x @@ b :> 1 @@ c :> 0) : e \in {0, 1}, x \in {1, 2} },
    rank    : { MCRank },
    code    : Codes({One(<<a, b>>), One(<<a, exit>>), One(<<exit>>), Loop(exit, b)},
                    {One(<<b>>), One(<<c, b>>)}, {One(<<>>)}, One(<<>>)),
    exit    : {exit} ]

AnyPrograms == DeclaredExit \cup DefinedExit
=============================================================================
