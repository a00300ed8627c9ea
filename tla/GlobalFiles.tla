----------------------------- MODULE GlobalFiles -----------------------------
(***************************************************************************)
(* What becomes of a module's globals between the tool that writes the     *)
(* module to a file and the tool that reads it back.  A module is a        *)
(* function from the names of its globals to                               *)
(*                                                                         *)
(*   [kind    |-> "variable", "function" or "alias",                       *)
(*    linkage |-> a Linkage,                                               *)
(*    def     |-> whether it has a body or an initialiser here,            *)
(*    import  |-> whether its storage class is dllimport,                  *)
(*    level   |-> its privilegeSeparation level,                           *)
(*    hidden  |-> whether its visibility is hidden,                        *)
(*    refs    |-> the names its body, initialiser or aliasee mentions]     *)
(*                                                                         *)
(* Only a variable's level is ever written; the other globals have the     *)
(* constructor's.  The file is bitcode or text of this compiler, or "old": *)
(* bitcode of the LLVM it is a fork of, which does not know of levels.     *)
(***************************************************************************)
EXTENDS Naturals

CONSTANT NumLevels   \* NUM_OF_LEVELS: 10

ASSUME NumLevelsAssumption == NumLevels \in Nat \ {0}

Level == 0 .. NumLevels - 1
LeastPrivileged == NumLevels - 1

Linkage == {"external", "extern_weak", "weak", "linkonce", "common",
            "available_externally", "appending", "internal"}

Form == {"bitcode", "text", "old"}

Global(names) ==
  [kind : {"variable", "function", "alias"}, linkage : Linkage, def : BOOLEAN,
   import : BOOLEAN, level : Nat, hidden : BOOLEAN, refs : SUBSET names]

(* What the parser, the reader and the verifier let be a module.            *)
IsModule(mod) ==
  /\ mod \in [DOMAIN mod -> Global(DOMAIN mod)]
  /\ \A n \in DOMAIN mod :
       /\ IF mod[n].def THEN mod[n].linkage # "extern_weak"
                        ELSE /\ mod[n].linkage \in {"external", "extern_weak"}
                             /\ mod[n].kind # "alias" /\ mod[n].refs = {}
       /\ mod[n].linkage = "appending" => mod[n].kind = "variable"
       /\ mod[n].import => \/ ~mod[n].def /\ mod[n].linkage = "external"
                           \/ mod[n].linkage = "available_externally"

Variables(mod) == { n \in DOMAIN mod : mod[n].kind = "variable" }

(* A record of the current writer has the level behind the section; the     *)
(* reader takes an old record's visibility, which stands there, for it, and *)
(* the thread-local mode, none here, for the visibility.  In an old record  *)
(* that ends before it, it reads whatever a longer record left in the array;*)
(* NumLevels stands for all that is no level.                               *)
ReadVariable(s, form) ==
  CASE form # "old" -> {s}
    [] form = "old" /\ (s.hidden \/ s.import) ->
         { [s EXCEPT !.level = IF s.hidden THEN 1 ELSE 0, !.hidden = FALSE, !.import = FALSE] }
    [] OTHER -> { [s EXCEPT !.level = l] : l \in 0 .. NumLevels }

ReadGlobal(s, form) ==
  IF s.kind = "variable" THEN ReadVariable(s, form)
                         ELSE { [s EXCEPT !.level = LeastPrivileged] }

(* The modules a file may be read as.                                       *)
Readings(mod, form) ==
  { r \in [DOMAIN mod -> UNION { ReadGlobal(mod[n], form) : n \in DOMAIN mod }] :
      \A n \in DOMAIN mod : r[n] \in ReadGlobal(mod[n], form) }

(* Every variable is printed with its level.  The parser then looks for the *)
(* number without stepping over the keyword, ignores that there is none,    *)
(* and goes on to the next global at the keyword.                           *)
Parses(mod, form) == form = "text" => Variables(mod) = {}
=============================================================================
