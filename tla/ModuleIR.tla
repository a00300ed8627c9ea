------------------------------ MODULE ModuleIR ------------------------------
(***************************************************************************)
(* The part of an LLVM module that the privilege-separation passes read:   *)
(* which functions have a body, the call instructions of each body in      *)
(* program order, the "privilege-separation" attribute, the linkage and    *)
(* the section each function is placed in.                                 *)
(*                                                                         *)
(* A section is reduced to what the passes tell apart: the integer k of    *)
(* ".fun_ps_k", the section ".text.startup" of static constructors, or any *)
(* other (usually empty) section, NoTag.  A smaller k is a more privileged *)
(* level; level NumLevels - 1 is the level of main.                        *)
(***************************************************************************)
EXTENDS Integers, Sequences

CONSTANTS
  Function,     \* the functions of the module, by name
  NumLevels,    \* NUM_OF_LEVELS
  Main,         \* the function called "main"
  ExitWrapper,  \* the function called "_Z12exit_wrapperv"
  Indirect,     \* the callee of a call whose getCalledFunction() is NULL
  NoTag,        \* a section that is neither a level nor ".text.startup"
  Startup       \* the section ".text.startup"

ASSUME NumLevelsAssumption == NumLevels \in Nat \ {0}

ASSUME NamesAssumption ==
  /\ Main \in Function
  /\ ExitWrapper \in Function
  /\ Main # ExitWrapper
  /\ Indirect \notin Function

ASSUME SectionsAssumption ==
  /\ NoTag \notin Int
  /\ Startup \notin Int
  /\ NoTag # Startup

Level == 0 .. NumLevels - 1

LeastPrivileged == NumLevels - 1

(* A tag is the number after ".fun_ps_".  It is -1 for a function that      *)
(* propagation reached without having recorded a call site that calls it.   *)
Tag == Level \cup {-1}

Section == Tag \cup {NoTag, Startup}

Tagged(s) == s \in Int

(* The modules the passes may be given.                                     *)
IR == [ defs     : SUBSET Function,                     \* not isDeclaration()
        attr     : [Function -> Level \cup {NoTag}],    \* the attribute
        internal : SUBSET Function,                     \* InternalLinkage
        taken    : SUBSET Function,                     \* used other than by a call
        section  : [Function -> Section],
        body     : [Function -> Seq(Function \cup {Indirect})],
        rank     : [Function -> Nat] ]                  \* order of the call graph's map

(* A CallSite: the i-th call of function f.                                 *)
Sites(m) == UNION { {f} \X DOMAIN m.body[f] : f \in m.defs }

Callee(m, s) == m.body[s[1]][s[2]]

Calls(m, f, g) == f \in m.defs /\ \E i \in DOMAIN m.body[f] : m.body[f][i] = g

(* !use_empty(): called directly, or referenced in any other way.           *)
Used(m, f) == f \in m.taken \/ \E g \in m.defs : Calls(m, g, f)
=============================================================================
