-------------------------- MODULE MCLevelInference --------------------------
(***************************************************************************)
(* LevelInference over three functions, every call graph in which a body   *)
(* calls at most two different functions, and every seed with two levels.  *)
(***************************************************************************)
EXTENDS LevelInference

CONSTANTS main, exit, a

MCFunction == {main, exit, a}

Bodies == { <<>> } \cup { <<f>> : f \in MCFunction }
          \cup { <<main, exit>>, <<main, a>>, <<exit, a>> }

MCModules ==
  [ defs     : { MCFunction },
    attr     : { [f \in MCFunction |-> NoTag] },
    internal : { {} },
    taken    : { {} },
    section  : { [f \in MCFunction |-> NoTag] },
    body     : [MCFunction -> Bodies],
    rank     : { [f \in MCFunction |-> 0] } ]
=============================================================================
