-------------------------- MODULE SectionPlacement --------------------------
(***************************************************************************)
(* PrivilegeSeparationOnModule: runOnFunctions, then runOnGlobalVariables. *)
(* Both replace values by copies, grouped by privilege level: collect the  *)
(* copies, erase the originals one level after the other while redirecting *)
(* their uses, then append the copies to the module with their section.    *)
(*                                                                         *)
(* An action is an iteration of a loop; pc says which loop.  Functions     *)
(* without an annotation are not copied.  Of a value the model keeps what  *)
(* it refers to (a function's body, a global's initialiser, an alias's     *)
(* aliasee) and the functions whose labels it holds the address of.        *)
(***************************************************************************)
EXTENDS Integers, SequencesExt

CONSTANTS
  Name,        \* the names of functions, globals and aliases
  NumLevels,   \* NUM_OF_LEVELS
  None,        \* no annotation; a section that is no level; no body
  Modules      \* the modules the pass may be given, a subset of PlacedModule

ASSUME LevelsAssumption == NumLevels \in Nat \ {0} /\ None \notin Int

Level == 0 .. NumLevels - 1

(* A number that is no level, in an annotation or from a file: it indexes   *)
(* the arrays of NUM_OF_LEVELS lists all the same.                          *)
TooLarge == NumLevels

LeastPrivileged == NumLevels - 1

(* A value of the module as it came, and the copy made of it.               *)
Original(n) == <<n, "original">>
Copy(n)     == <<n, "copy">>
Value       == Name \X {"original", "copy"}

(* What is left of the address of a label whose block is gone: inttoptr 1.  *)
Zapped == <<None, "zapped">>

PlacedFields ==
  [ funs    : Seq(Name),                        \* the function list
    globs   : Seq(Name),                        \* the list of global variables
    aliases : SUBSET Name,
    defs    : SUBSET Name,                      \* the functions with a body
    attr    : [Name -> Level \cup {None, TooLarge}],  \* a function's annotation
    level   : [Name -> Level \cup {TooLarge}],        \* getPrivilegeSeparation()
    refs    : [Name -> SUBSET Name],
    labels  : [Name -> SUBSET Name] ]

(* The symbol table gives no name twice; what is referred to is in the      *)
(* module, and a label is in a function with a body.                        *)
Named(mod) == Range(mod.funs) \cup Range(mod.globs) \cup mod.aliases

WellNamed(mod) ==
  /\ IsInjective(mod.funs) /\ IsInjective(mod.globs)
  /\ Range(mod.funs) \cap Range(mod.globs) = {}
  /\ mod.aliases \cap (Range(mod.funs) \cup Range(mod.globs)) = {}
  /\ mod.defs \subseteq Range(mod.funs)
  /\ \A n \in Name : mod.refs[n] \subseteq Named(mod) /\ mod.labels[n] \subseteq mod.defs

PlacedModule == { mod \in PlacedFields : WellNamed(mod) }

ASSUME ModulesAssumption == Modules \subseteq PlacedModule

VARIABLES
  m,         \* the module as it came; never changes
  funs,      \* the module's function list now
  globs,     \* its list of globals now
  refs,      \* the values each value refers to
  labels,    \* the functions whose labels each value holds
  section,   \* the level in each value's section
  bucket,    \* the names in my_list and to_delete, which fill in step
  usedFun,   \* isItUsedFun
  usedVar,   \* isItUsedVar
  pc,        \* the loop the pass is in
  lev, pos   \* its counters: a level and a position, or a position only

vars == <<m, funs, globs, refs, labels, section, bucket, usedFun, usedVar, pc, lev, pos>>

-----------------------------------------------------------------------------
NoBuckets == [l \in Level |-> <<>>]

Replaced(S, old, new) == IF old \in S THEN (S \ {old}) \cup {new} ELSE S

(* Value::replaceAllUsesWith: every user of n's original now uses its copy. *)
RefsRedirected(n) ==
  [v \in Value |-> Replaced(refs[v], Original(n), Copy(n))]

(* deleteBody destroys the blocks, and with them the addresses of labels.   *)
LabelsZapped(n) ==
  [v \in Value |-> Replaced(labels[v], Original(n), Zapped)]

Init ==
  /\ m \in Modules
  /\ funs  = [i \in DOMAIN m.funs |-> Original(m.funs[i])]
  /\ globs = [i \in DOMAIN m.globs |-> Original(m.globs[i])]
  /\ refs   = [v \in Value |-> IF v[2] = "original" THEN { Original(x) : x \in m.refs[v[1]] } ELSE {}]
  /\ labels = [v \in Value |-> IF v[2] = "original" THEN { Original(x) : x \in m.labels[v[1]] } ELSE {}]
  /\ section = [v \in Value |-> None]
  /\ bucket = NoBuckets
  /\ usedFun = {LeastPrivileged}
  /\ usedVar = {LeastPrivileged}
  /\ pc = "functions"
  /\ lev = 0
  /\ pos = 1

(* The lists with n in those of level l.  Behind the end of the arrays may  *)
(* be a null that takes lists which nobody reads.                           *)
Added(l, n) == IF l \in Level THEN [bucket EXCEPT ![l] = Append(@, n)] ELSE bucket

(* The loops over levels and, in a level, over its values.                  *)
At(phase) == pc = phase /\ lev \in Level /\ pos \in DOMAIN bucket[lev]

Item == bucket[lev][pos]

NextLevel ==
  /\ pc \in {"erase functions", "insert functions", "erase globals", "insert globals"}
  /\ lev \in Level /\ pos > Len(bucket[lev])
  /\ lev' = lev + 1
  /\ pos' = 1
  /\ UNCHANGED <<m, funs, globs, refs, labels, section, bucket, usedFun, usedVar, pc>>

(* The loop over phase is at its end, and then comes the next one.          *)
GoTo(phase, atEnd, next) ==
  /\ pc = phase /\ atEnd
  /\ pc' = next
  /\ lev' = 0
  /\ pos' = 1

-----------------------------------------------------------------------------
(* runOnFunctions.                                                          *)

(* Mutation: NUM_OF_LEVELS instead of NUM_OF_LEVELS - 1.                    *)
PlaceUnannotatedOffByOne ==
  /\ pc = "functions" /\ pos \in DOMAIN funs
  /\ m.attr[funs[pos][1]] = None
  /\ section' = [section EXCEPT ![funs[pos]] = NumLevels]
  /\ pos' = pos + 1
  /\ UNCHANGED <<m, funs, globs, refs, labels, bucket, usedFun, usedVar, pc, lev>>

PlaceUnannotated ==
  /\ pc = "functions" /\ pos \in DOMAIN funs
  /\ m.attr[funs[pos][1]] = None
  /\ section' = [section EXCEPT ![funs[pos]] = LeastPrivileged]
  /\ pos' = pos + 1
  /\ UNCHANGED <<m, funs, globs, refs, labels, bucket, usedFun, usedVar, pc, lev>>

(* Mutation: a declaration is copied like a definition.                     *)
CopyAnyFunction ==
  /\ pc = "functions" /\ pos \in DOMAIN funs
  /\ LET n == funs[pos][1]
     IN  /\ m.attr[n] # None
         /\ refs' = [refs EXCEPT ![Copy(n)] = refs[Original(n)]]
         /\ labels' = [labels EXCEPT ![Copy(n)] =
                         Replaced(labels[Original(n)], Original(n), Copy(n))]
         /\ bucket' = Added(m.attr[n], n)
  /\ pos' = pos + 1
  /\ UNCHANGED <<m, funs, globs, section, usedFun, usedVar, pc, lev>>

(* What CloneFunction makes refers to what the original does, except that   *)
(* its labels are its own.                                                  *)
CopyFunction ==
  /\ pc = "functions" /\ pos \in DOMAIN funs
  /\ LET n == funs[pos][1]
     IN  /\ m.attr[n] # None /\ n \in m.defs
         /\ refs' = [refs EXCEPT ![Copy(n)] = refs[Original(n)]]
         /\ labels' = [labels EXCEPT ![Copy(n)] =
                         Replaced(labels[Original(n)], Original(n), Copy(n))]
         /\ bucket' = Added(m.attr[n], n)
  /\ pos' = pos + 1
  /\ UNCHANGED <<m, funs, globs, section, usedFun, usedVar, pc, lev>>

(* Cloning a declaration maps the end of an empty list of blocks and casts  *)
(* the null it gets.                                                        *)
CrashOnDeclaration ==
  /\ pc = "functions" /\ pos \in DOMAIN funs
  /\ m.attr[funs[pos][1]] # None /\ funs[pos][1] \notin m.defs
  /\ pc' = "crashed"
  /\ UNCHANGED <<m, funs, globs, refs, labels, section, bucket, usedFun, usedVar, lev, pos>>

(* Behind the end of the arrays may also be something that is no list.      *)
CrashOnLevel ==
  /\ \/ pc = "functions" /\ pos \in DOMAIN funs /\ m.attr[funs[pos][1]] = TooLarge
     \/ pc = "globals" /\ pos \in DOMAIN globs /\ m.level[globs[pos][1]] = TooLarge
  /\ pc' = "crashed"
  /\ UNCHANGED <<m, funs, globs, refs, labels, section, bucket, usedFun, usedVar, lev, pos>>

FunctionsCopied ==
  /\ GoTo("functions", pos > Len(funs), "erase functions")
  /\ UNCHANGED <<m, funs, globs, refs, labels, section, bucket, usedFun, usedVar>>

(* Mutation: the uses of the original are left alone.                       *)
EraseFunctionOnly ==
  /\ At("erase functions")
  /\ refs' = [refs EXCEPT ![Original(Item)] = {}]
  /\ labels' = [LabelsZapped(Item) EXCEPT ![Original(Item)] = {}]
  /\ funs' = RemoveFirst(funs, Original(Item))
  /\ pos' = pos + 1
  /\ UNCHANGED <<m, globs, section, bucket, usedFun, usedVar, pc, lev>>

EraseFunction ==
  /\ At("erase functions")
  /\ refs' = [RefsRedirected(Item) EXCEPT ![Original(Item)] = {}]
  /\ labels' = [LabelsZapped(Item) EXCEPT ![Original(Item)] = {}]
  /\ funs' = RemoveFirst(funs, Original(Item))
  /\ pos' = pos + 1
  /\ UNCHANGED <<m, globs, section, bucket, usedFun, usedVar, pc, lev>>

FunctionsErased ==
  /\ GoTo("erase functions", lev = NumLevels, "insert functions")
  /\ UNCHANGED <<m, funs, globs, refs, labels, section, bucket, usedFun, usedVar>>

(* Mutation: the level is not marked as used.                               *)
InsertFunctionUnmarked ==
  /\ At("insert functions")
  /\ section' = [section EXCEPT ![Copy(Item)] = lev]
  /\ funs' = Append(funs, Copy(Item))
  /\ pos' = pos + 1
  /\ UNCHANGED <<m, globs, refs, labels, bucket, usedFun, usedVar, pc, lev>>

InsertFunction ==
  /\ At("insert functions")
  /\ section' = [section EXCEPT ![Copy(Item)] = lev]
  /\ usedFun' = usedFun \cup {lev}
  /\ funs' = Append(funs, Copy(Item))
  /\ pos' = pos + 1
  /\ UNCHANGED <<m, globs, refs, labels, bucket, usedVar, pc, lev>>

FunctionsInserted ==
  /\ GoTo("insert functions", lev = NumLevels, "globals")
  /\ bucket' = NoBuckets
  /\ UNCHANGED <<m, funs, globs, refs, labels, section, usedFun, usedVar>>

-----------------------------------------------------------------------------
(* runOnGlobalVariables.                                                    *)

CopyGlobal ==
  /\ pc = "globals" /\ pos \in DOMAIN globs
  /\ LET n == globs[pos][1]
     IN  bucket' = Added(m.level[n], n)
  /\ pos' = pos + 1
  /\ UNCHANGED <<m, funs, globs, refs, labels, section, usedFun, usedVar, pc, lev>>

GlobalsCopied ==
  /\ GoTo("globals", pos > Len(globs), "initialisers")
  /\ UNCHANGED <<m, funs, globs, refs, labels, section, bucket, usedFun, usedVar>>

(* MapValue: VMap has the globals, everything else stands for itself.       *)
Mapped(S) == { IF v[1] \in Range(m.globs) THEN Copy(v[1]) ELSE v : v \in S }

(* Mutation: hasInitializer is asked of the copy.                           *)
MapNoInitialiser ==
  /\ pc = "initialisers" /\ pos \in DOMAIN globs
  /\ pos' = pos + 1
  /\ UNCHANGED <<m, funs, globs, refs, labels, section, bucket, usedFun, usedVar, pc, lev>>

MapInitialiser ==
  /\ pc = "initialisers" /\ pos \in DOMAIN globs
  /\ LET n == globs[pos][1]
     IN  /\ refs' = [refs EXCEPT ![Copy(n)] = Mapped(refs[Original(n)])]
         /\ labels' = [labels EXCEPT ![Copy(n)] = labels[Original(n)]]
  /\ pos' = pos + 1
  /\ UNCHANGED <<m, funs, globs, section, bucket, usedFun, usedVar, pc, lev>>

InitialisersMapped ==
  /\ GoTo("initialisers", pos > Len(globs), "erase globals")
  /\ UNCHANGED <<m, funs, globs, refs, labels, section, bucket, usedFun, usedVar>>

(* Mutation: the original's references are dropped, but it is not erased.   *)
KeepGlobal ==
  /\ At("erase globals")
  /\ refs' = [RefsRedirected(Item) EXCEPT ![Original(Item)] = {}]
  /\ labels' = [labels EXCEPT ![Original(Item)] = {}]
  /\ pos' = pos + 1
  /\ UNCHANGED <<m, funs, globs, section, bucket, usedFun, usedVar, pc, lev>>

EraseGlobal ==
  /\ At("erase globals")
  /\ refs' = [RefsRedirected(Item) EXCEPT ![Original(Item)] = {}]
  /\ labels' = [labels EXCEPT ![Original(Item)] = {}]
  /\ globs' = RemoveFirst(globs, Original(Item))
  /\ pos' = pos + 1
  /\ UNCHANGED <<m, funs, section, bucket, usedFun, usedVar, pc, lev>>

GlobalsErased ==
  /\ GoTo("erase globals", lev = NumLevels, "insert globals")
  /\ UNCHANGED <<m, funs, globs, refs, labels, section, bucket, usedFun, usedVar>>

InsertGlobal ==
  /\ At("insert globals")
  /\ section' = [section EXCEPT ![Copy(Item)] = lev]
  /\ usedVar' = usedVar \cup {lev}
  /\ globs' = Append(globs, Copy(Item))
  /\ pos' = pos + 1
  /\ UNCHANGED <<m, funs, refs, labels, bucket, usedFun, pc, lev>>

(* generateLinkScript, which follows, changes nothing of the module.        *)
GlobalsInserted ==
  /\ GoTo("insert globals", lev = NumLevels, "done")
  /\ bucket' = NoBuckets
  /\ UNCHANGED <<m, funs, globs, refs, labels, section, usedFun, usedVar>>

Stopped == pc \in {"done", "crashed"} /\ UNCHANGED vars

Next ==
  \/ PlaceUnannotated \/ CopyFunction \/ CrashOnDeclaration \/ CrashOnLevel \/ FunctionsCopied
  \/ EraseFunction \/ FunctionsErased \/ InsertFunction \/ FunctionsInserted
  \/ CopyGlobal \/ GlobalsCopied \/ MapInitialiser \/ InitialisersMapped
  \/ EraseGlobal \/ GlobalsErased \/ InsertGlobal \/ GlobalsInserted
  \/ NextLevel
  \/ Stopped

Spec == Init /\ [][Next]_vars

-----------------------------------------------------------------------------
(* Properties.                                                              *)

Phase == {"functions", "erase functions", "insert functions", "globals", "initialisers",
          "erase globals", "insert globals", "done", "crashed"}

TypeOK ==
  /\ m \in Modules /\ pc \in Phase
  /\ funs \in Seq(Value) /\ globs \in Seq(Value)
  /\ refs \in [Value -> SUBSET Value]
  /\ labels \in [Value -> SUBSET (Value \cup {Zapped})]
  /\ section \in [Value -> Level \cup {None}]
  /\ bucket \in [Level -> Seq(Name)]
  /\ usedFun \subseteq Level /\ usedVar \subseteq Level
  /\ lev \in 0 .. NumLevels /\ pos \in Nat \ {0}

InModule == Range(funs) \cup Range(globs) \cup { Original(n) : n \in m.aliases }

(* What a value that is in the module, or a copy that is about to be,       *)
(* refers to is never an original that has been erased ("Uses remain when a *)
(* value is destroyed!", Value.cpp:79).  Copies are made before the other   *)
(* originals go, so each erasure has to reach the pending copies as well.   *)
Erased(v) == v[2] = "original" /\ v \notin InModule

NoUseOfErased ==
  \A v \in Value : v \in InModule \/ v[2] = "copy" =>
    \A w \in refs[v] \cup (labels[v] \ {Zapped}) : ~Erased(w)

(* No name is in the module twice, at any time: a copy inserted beside its  *)
(* original would be renamed, and the program would link against the        *)
(* original.  In the end every name is there.                               *)
NamesOf(list) == [i \in DOMAIN list |-> list[i][1]]

EachNameOnce ==
  /\ IsInjective(NamesOf(funs)) /\ IsInjective(NamesOf(globs))
  /\ pc = "done" => /\ Range(NamesOf(funs)) = Range(m.funs)
                    /\ Range(NamesOf(globs)) = Range(m.globs)

(* The module refers to what it referred to: the value of each name refers  *)
(* to the values that now bear the names it referred to.  Two exceptions:   *)
(* a global, or another function, loses the addresses of labels of the      *)
(* functions that are copied (which is why CloneFunction.cpp:126 forbids to *)
(* copy them), and a global whose level is too large stays, but the         *)
(* initialisers of others refer to its copy, which is in no module.         *)
Copied(f) == f \in m.defs /\ m.attr[f] \in Level

Orphans == { Copy(n) : n \in { x \in Range(m.globs) : m.level[x] = TooLarge } }

ReferencesKept ==
  pc = "done" =>
    \A v \in InModule :
      /\ { w[1] : w \in refs[v] } = m.refs[v[1]]
      /\ refs[v] \subseteq InModule \cup (IF v \in Range(globs) THEN Orphans ELSE {})
      /\ labels[v] = { IF w[1] # v[1] /\ Copied(w[1]) THEN Zapped ELSE w :
                         w \in { u \in InModule : u[1] \in m.labels[v[1]] } }

(* In the end everything is in the section of its level, the least          *)
(* privileged one for a function without annotation, and only what has a    *)
(* number that is no level is in none; and the levels marked as used, which *)
(* the linker script is made from, are the ones that hold something,        *)
(* besides the least privileged.                                            *)
LevelOf(v) == IF v \in Range(globs) THEN m.level[v[1]]
              ELSE IF m.attr[v[1]] = None THEN LeastPrivileged ELSE m.attr[v[1]]

PlacedByLevel ==
  pc = "done" =>
    /\ \A v \in Range(funs) \cup Range(globs) :
         section[v] = IF LevelOf(v) \in Level THEN LevelOf(v) ELSE None
    /\ usedFun = {LeastPrivileged} \cup ({ section[v] : v \in Range(funs) } \ {None})
    /\ usedVar = {LeastPrivileged} \cup ({ section[v] : v \in Range(globs) } \ {None})

(* The pass crashes on nothing but an annotation on a declaration, on which *)
(* it always does, or a number that is no level.  (Casting.h:84 would never *)
(* be given the null pointer it is given for the declaration.)              *)
Annotated(n) == n \in Range(m.funs) /\ m.attr[n] # None

CrashesOnAnnotation ==
  /\ pc = "crashed" =>
       \/ \E n \in Name : Annotated(n) /\ (n \notin m.defs \/ m.attr[n] = TooLarge)
       \/ \E n \in Range(m.globs) : m.level[n] = TooLarge
  /\ pc = "done" => \A n \in Name : Annotated(n) => n \in m.defs
=============================================================================
