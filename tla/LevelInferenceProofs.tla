------------------------ MODULE LevelInferenceProofs ------------------------
(***************************************************************************)
(* Theorems about LevelInference, for every set of functions, number of    *)
(* levels, family of modules and seed.                                     *)
(***************************************************************************)
EXTENDS LevelInference, TLAPS

LEMMA TypeStep == TypeOK /\ [Next]_vars => TypeOK'
  BY DEF TypeOK, Next, Infer, vars, Section

(* Type correctness of level inference.                                     *)
THEOREM TypeCorrect == Spec => []TypeOK
<1>1. Init => TypeOK
  BY DEF Init, TypeOK
<1> QED  BY <1>1, TypeStep, PTL DEF Spec

-----------------------------------------------------------------------------
(* Only a function without a tag is inferred, so seeds are kept; otherwise  *)
(* a solution, which fits the seeds, would say nothing of the sections.     *)
SeedsKept == \A f \in Function : Tagged(seed[f]) => section[f] = seed[f]

(* Two callers' levels that are each an upper bound of the other are one.   *)
LEMMA InheritsUnique ==
  ASSUME NEW G, NEW s, NEW t, NEW k \in Tag, NEW l \in Tag,
         \A g \in G : s[g] = t[g] /\ s[g] \in Int,
         Inherits(k, G, s), Inherits(l, G, t)
  PROVE  k = l
<1>1. k \in Int /\ l \in Int
  BY NumLevelsAssumption DEF Tag, Level
<1>2. CASE G = {}
  BY <1>2 DEF Inherits
<1>3. CASE G # {}
  <2>1. k <= l /\ l <= k
    BY <1>1, <1>3 DEF Inherits
  <2> QED  BY <1>1, <2>1
<1> QED  BY <1>2, <1>3

LEMMA OrderStep ==
  TypeOK /\ SeedsKept /\ OrderIndependent /\ [Next]_vars
    => SeedsKept' /\ OrderIndependent'
<1> SUFFICES ASSUME TypeOK, SeedsKept, OrderIndependent, [Next]_vars
             PROVE  SeedsKept' /\ OrderIndependent'
  OBVIOUS
<1>1. CASE UNCHANGED vars
  BY <1>1 DEF vars, SeedsKept, OrderIndependent, Solution, Callers
<1>2. ASSUME NEW f \in ir.defs, Infer(f) PROVE SeedsKept' /\ OrderIndependent'
  <2>1. /\ ir' = ir /\ seed' = seed /\ ir.defs \subseteq Function
        /\ section \in [Function -> Section] /\ ~Tagged(section[f])
        /\ \A g \in Callers(f) : Tagged(section[g]) /\ g \in ir.defs
    BY <1>2, ModulesAssumption DEF Infer, TypeOK, IR, Callers
  <2>2. PICK lev \in Tag :
          Inherits(lev, Callers(f), section) /\ section' = [section EXCEPT ![f] = lev]
    BY <1>2 DEF Infer
  <2>3. section'[f] = lev /\ \A g \in Function : g # f => section'[g] = section[g]
    BY <2>1, <2>2
  <2>4. SeedsKept'
    BY <2>1, <2>3 DEF SeedsKept
  <2>5. ASSUME NEW sol \in [Function -> Tag], Solution(sol),
               NEW h \in ir.defs, Tagged(section'[h])
        PROVE  section'[h] = sol[h]
    <3>1. CASE h # f
      BY <2>1, <2>3, <2>5, <3>1 DEF OrderIndependent
    <3>2. CASE h = f
      <4>1. ~Tagged(seed[f])
        BY <2>1 DEF SeedsKept
      <4>2. Inherits(sol[f], Callers(f), sol)
        BY <2>5, <4>1 DEF Solution
      <4>3. \A g \in Callers(f) : section[g] = sol[g] /\ section[g] \in Int
        BY <2>1, <2>5 DEF OrderIndependent, Tagged
      <4>4. sol[f] \in Tag
        BY <2>1
      <4>5. lev = sol[f]
        BY <2>2, <4>2, <4>3, <4>4, InheritsUnique
      <4> QED  BY <2>3, <3>2, <4>5
    <3> QED  BY <3>1, <3>2
  <2> QED  BY <2>1, <2>4, <2>5 DEF OrderIndependent, Solution, Callers
<1> QED  BY <1>1, <1>2 DEF Next

(* Whatever the order of inference, a tag agrees with every complete        *)
(* tagging that fits the seeds.                                             *)
THEOREM OrderDoesNotMatter == Spec => []OrderIndependent
<1>1. Init => SeedsKept
  BY DEF Init, SeedsKept
<1>2. Init => OrderIndependent
  <2> SUFFICES ASSUME Init, NEW sol \in [Function -> Tag], Solution(sol),
                      NEW f \in ir.defs, Tagged(section[f])
               PROVE  section[f] = sol[f]
    BY DEF OrderIndependent
  <2> QED  BY DEF Init, Solution
<1> QED  BY <1>1, <1>2, OrderStep, TypeCorrect, PTL DEF Spec
=============================================================================
