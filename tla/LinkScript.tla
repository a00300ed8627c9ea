----------------------------- MODULE LinkScript -----------------------------
(***************************************************************************)
(* The addresses ld gives to sections when it follows the script.  ld is   *)
(* not in the repository; what is assumed of it is the location counter: a *)
(* section is placed where it stands and advances it by its size, and an   *)
(* assignment may also move it back.                                       *)
(***************************************************************************)
EXTENDS ScriptText

CONSTANTS
  Sizes,    \* the sizes sections may have, in bytes
  Starts    \* the addresses .text may start at

ASSUME LayoutAssumption == Sizes \subseteq Nat /\ Starts \subseteq Nat

VARIABLES
  script,   \* the script; never changes
  size,     \* the size of each section; never changes
  dot,      \* the location counter
  next,     \* the statement ld is at
  start     \* the address of each section placed, -1 before

linkVars == <<script, size, dot, next, start>>

(* A byte in each section of no level: their size only moves what follows.  *)
LinkInit ==
  /\ script \in { Script(F, V) : F, V \in UsedSets }
  /\ size \in [Section -> Sizes]
  /\ \A s \in {<<".text">>, <<".fini">>, <<".data">>, <<".data1">>} : size[s] = 1
  /\ dot \in Starts
  /\ next = 1
  /\ start = [s \in Section |-> -1]

Statement(op) == next \in DOMAIN script /\ script[next].op = op

Step == next' = next + 1 /\ UNCHANGED <<script, size>>

AdvanceDot ==
  /\ Statement("advance")
  /\ dot' = dot + script[next].by
  /\ Step /\ UNCHANGED start

PlaceSection ==
  /\ Statement("section")
  /\ start' = [start EXCEPT ![script[next].section] = dot]
  /\ dot' = dot + size[script[next].section]
  /\ Step

PadDot ==
  /\ Statement("pad")
  /\ dot' = dot + Page - size[script[next].section]
  /\ Step /\ UNCHANGED start

AlignData ==
  /\ Statement("align")
  /\ dot' = ((dot + Page - 1) \div Page) * Page
  /\ Step /\ UNCHANGED start

DeclareSegment ==
  /\ Statement("phdr")
  /\ Step /\ UNCHANGED <<dot, start>>

Linked == next > Len(script)

LinkEnded == Linked /\ UNCHANGED linkVars

LinkNext ==
  AdvanceDot \/ PlaceSection \/ PadDot \/ AlignData \/ DeclareSegment \/ LinkEnded

LinkSpec == LinkInit /\ [][LinkNext]_linkVars

-----------------------------------------------------------------------------
(* Properties.                                                              *)

Bytes(s) == IF start[s] = -1 THEN {} ELSE start[s] .. start[s] + size[s] - 1

Pages(s) == { b \div Page : b \in Bytes(s) }

(* Functions of two levels never share a page, nor do globals of two        *)
(* levels, nor either with the code or data of no level before them: the    *)
(* kernel can protect each level by pages.  Whatever the sizes are, and     *)
(* although no section starts at a page boundary.                           *)
LevelsApart ==
  \A S \in {FunSection \cup {<<".text">>}, DatSection \cup {<<".data">>}} :
    \A s, t \in S : s # t => Pages(s) \cap Pages(t) = {}

(* Moving the counter back by the size of the last section of a group, all  *)
(* of it or less than the fixed gaps ahead of it, makes sections overlap    *)
(* exactly if the functions of the least privileged level exceed three      *)
(* pages or its globals exceed one.                                         *)
Overlap == \E s, t \in Section : s # t /\ Bytes(s) \cap Bytes(t) # {}

OverlapIfLastTooLarge ==
  Linked => (Overlap <=> \/ size[Fun(LeastPrivileged)] > 3 * Page
                         \/ size[Dat(LeastPrivileged)] > Page)

(* The segments sections are assigned to are the ones PHDRS declares, each  *)
(* once: ld refuses a script that names another.                            *)
SegmentsAgree ==
  LET Of(op) == { i \in DOMAIN script : script[i].op = op }
  IN  /\ { script[i].segment : i \in Of("section") } = { script[i].segment : i \in Of("phdr") }
      /\ \A i, j \in Of("phdr") : script[i].segment = script[j].segment => i = j
=============================================================================
