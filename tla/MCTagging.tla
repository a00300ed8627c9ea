------------------------------ MODULE MCTagging ------------------------------
(***************************************************************************)
(* Families of modules for the runs of TaggingPropagation.  Every family   *)
(* has main, exit_wrapper and two functions a and b, with at most two      *)
(* calls in a body and three levels; each varies what its run is about.    *)
(***************************************************************************)
EXTENDS TaggingPropagation, TLC

CONSTANTS main, exit, a, b, indirect

MCFunction == {main, exit, a, b}

MainBodies == { <<a>>, <<b>>, <<a, b>>, <<b, a>>, <<a, indirect>> }
ABodies    == { <<>>, <<b>>, <<a>>, <<b, exit>> }
BBodies    == { <<>>, <<a>>, <<exit>>, <<indirect>> }
ExitBodies == { <<>>, <<b>> }

Bodies(ms, as, bs, es) ==
  { (main :> m @@ a :> x @@ b :> y @@ exit :> e) : m \in ms, x \in as, y \in bs, e \in es }

(* The function map in two orders, a before b and b before main.            *)
Ranks == { (main :> 0 @@ a :> 1 @@ b :> 2 @@ exit :> 3),
           (b :> 0 @@ main :> 1 @@ exit :> 2 @@ a :> 3) }

Attrs(as, bs) ==
  { (main :> NoTag @@ exit :> NoTag @@ a :> x @@ b :> y) : x \in as, y \in bs }

Sections == { [f \in MCFunction |-> NoTag],
              [f \in MCFunction |-> IF f = b THEN Startup ELSE NoTag] }

(* Whatever the source can look like: cycles, indirect calls, static        *)
(* constructors, missing definitions, a library without main.               *)
AnyModules ==
  [ defs     : { MCFunction, MCFunction \ {exit}, MCFunction \ {main}, MCFunction \ {b} },
    attr     : Attrs({NoTag, 1}, {NoTag, 0}),
    internal : { {}, {a} },
    taken    : { {}, {a, b} },
    section  : Sections,
    body     : Bodies(MainBodies, ABodies, BBodies, ExitBodies),
    rank     : Ranks ]

(* What the finding is shown on: main calls every function, all of them are *)
(* defined and called directly, and the one cycle there can be is a calling *)
(* itself.  No function then waits for a caller that main does not reach.   *)
RecursiveModules ==
  [ defs     : { MCFunction },
    attr     : Attrs({NoTag}, {NoTag, 0}),
    internal : { {}, {a} },
    taken    : { {} },
    section  : { [f \in MCFunction |-> NoTag] },
    body     : Bodies({<<a, b>>, <<b, a>>}, {<<>>, <<b>>, <<a>>}, {<<>>, <<exit>>}, {<<>>}),
    rank     : { CHOOSE r \in Ranks : r[main] = 0 } ]
=============================================================================
