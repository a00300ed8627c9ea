--------------------------- MODULE LevelInference ---------------------------
(***************************************************************************)
(* What tag propagation promises, whatever order it visits the call graph  *)
(* in.  Some functions start with a tag (their seed); any other function   *)
(* may receive one once all its recorded callers have theirs, and it then  *)
(* receives the numerically largest, i.e. the least privileged, of them.   *)
(* Calls made from ".text.startup" are not recorded.                       *)
(***************************************************************************)
EXTENDS ModuleIR

CONSTANT Modules   \* the modules the pass may be given, a subset of IR

ASSUME ModulesAssumption == Modules \subseteq IR

VARIABLES
  ir,        \* the module; never changes
  seed,      \* the section of every function once annotations are read; never changes
  section    \* the section of every function now

vars == <<ir, seed, section>>

Callers(f) == { g \in ir.defs : Calls(ir, g, f) /\ seed[g] # Startup }

(* lev is the level a function with callers G inherits under tagging s.     *)
Inherits(lev, G, s) ==
  /\ \A g \in G : s[g] <= lev
  /\ IF G = {} THEN lev = -1 ELSE \E g \in G : s[g] = lev

Init ==
  /\ ir \in Modules
  /\ seed \in [Function -> Section]
  /\ section = seed

(* Mutation: a callee is placed one level below its callers.                *)
InferBelow(f) ==
  /\ ~Tagged(section[f])
  /\ \A g \in Callers(f) : Tagged(section[g])
  /\ \E lev \in Tag :
       /\ Inherits(lev, Callers(f), section)
       /\ section' = [section EXCEPT ![f] = lev + 1]
  /\ UNCHANGED <<ir, seed>>

(* Mutation: callers without a tag are not waited for.                      *)
InferEarly(f) ==
  /\ ~Tagged(section[f])
  /\ \E lev \in Tag :
       /\ Inherits(lev, { g \in Callers(f) : Tagged(section[g]) }, section)
       /\ section' = [section EXCEPT ![f] = lev]
  /\ UNCHANGED <<ir, seed>>

Infer(f) ==
  /\ ~Tagged(section[f])
  /\ \A g \in Callers(f) : Tagged(section[g])
  /\ \E lev \in Tag :
       /\ Inherits(lev, Callers(f), section)
       /\ section' = [section EXCEPT ![f] = lev]
  /\ UNCHANGED <<ir, seed>>

Next == \E f \in ir.defs : Infer(f)

Spec == Init /\ [][Next]_vars

-----------------------------------------------------------------------------
TypeOK ==
  /\ ir \in Modules
  /\ seed \in [Function -> Section]
  /\ section \in [Function -> Section]

(* A complete tagging that keeps the seeds and gives every other function   *)
(* the level it inherits from its callers.                                  *)
Solution(sol) ==
  \A f \in ir.defs :
    IF Tagged(seed[f]) THEN sol[f] = seed[f] ELSE Inherits(sol[f], Callers(f), sol)

(* The result does not depend on the order of inference: a tag that has     *)
(* been written is the tag of every complete tagging that fits the seeds.   *)
(* The order of TaggingPropagation's work list is an address-dependent      *)
(* accident; this is why it does not show in the program it produces.       *)
OrderIndependent ==
  \A sol \in [Function -> Tag] :
    Solution(sol) => \A f \in ir.defs : Tagged(section[f]) => section[f] = sol[f]
=============================================================================
