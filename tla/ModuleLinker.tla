---------------------------- MODULE ModuleLinker ----------------------------
(***************************************************************************)
(* llvm-link: the modules in the files are linked into the first of them,  *)
(* one after the other.  Linking a module goes over its globals twice: the *)
(* prototypes, which decide for each name whose global is kept and replace *)
(* the other one, and the contents, in which mentions of the module's      *)
(* globals become mentions of what they were linked to.  Functions nobody  *)
(* needs to know from outside come over only when they are mentioned.      *)
(*                                                                         *)
(* A global is known by the module and the name it came from.  Types,      *)
(* metadata, module flags and inline assembly are left out.  The order of  *)
(* the globals in a module is any order.                                   *)
(***************************************************************************)
EXTENDS GlobalFiles, Sequences, FiniteSets

CONSTANT Inputs   \* sequences of files [form |-> a Form, syms |-> a module]

ASSUME InputsAssumption ==
  \A files \in Inputs :
    /\ files \in Seq({ files[i] : i \in DOMAIN files })
    /\ \A i \in DOMAIN files : files[i].form \in Form /\ IsModule(files[i].syms)

VARIABLES
  input,      \* the files
  pc,         \* the loop being executed
  mods,       \* the modules read so far, as they are in memory
  dst,        \* the composite's globals
  map,        \* ValueMap: what the current module's globals were linked to
  skip,       \* DoNotLinkFromSource
  lazy,       \* LazilyLinkFunctions
  todo        \* the globals the current loop has not come to

vars == <<input, pc, mods, dst, map, skip, lazy, todo>>

cur == Len(mods)
src == mods[cur]

-----------------------------------------------------------------------------
(* Linkages.                                                                *)

IsLocal(g) == g.linkage = "internal"

IsWeakForLinker(g) ==
  g.linkage \in {"available_externally", "weak", "linkonce", "common", "extern_weak"}

IsDeclaration(d) == d.from = <<>>

(* Whether the composite's global d must make way for the module's s.       *)
LinkFromSrc(d, s) ==
  IF ~s.def THEN IF s.import THEN IsDeclaration(d) ELSE d.linkage = "extern_weak"
  ELSE IF IsDeclaration(d) /\ ~d.import THEN TRUE
  ELSE IF IsWeakForLinker(s)
    THEN \/ d.linkage \in {"extern_weak", "available_externally"}
         \/ d.linkage = "linkonce" /\ s.linkage \in {"weak", "common"}
    ELSE IsWeakForLinker(d)

(* Mutation: the weakness of the composite's global is not looked at.       *)
MultiplyDefinedBeforeWeak(d, s) ==
  s.def /\ (~IsDeclaration(d) \/ d.import) /\ ~IsWeakForLinker(s)

MultiplyDefined(d, s) ==
  /\ s.def /\ (~IsDeclaration(d) \/ d.import)
  /\ ~IsWeakForLinker(s) /\ ~IsWeakForLinker(d)

(* The linkage d is left with when it stays.  For an imported declaration   *)
(* getLinkageResult sets none, and its callers start from internal.         *)
KeptLinkage(d, s) == IF ~s.def /\ s.import THEN "internal" ELSE d.linkage

-----------------------------------------------------------------------------
(* The composite: its symbol table, new globals and replaced ones.          *)

NamedValue(n) == { d \in DOMAIN dst : d[2] = n /\ dst[d].named }

LinkedTo(n) ==
  { d \in NamedValue(n) : ~IsLocal(src[n]) /\ ~IsLocal(dst[d]) }

(* Mutation: copyGVAttributes does not copy the level.                      *)
NewGlobalWithoutLevel(n) ==
  [linkage |-> src[n].linkage, level |-> LeastPrivileged, hidden |-> src[n].hidden,
   import |-> FALSE, from |-> <<>>, refs |-> {},
   named |-> IsLocal(src[n]) => NamedValue(n) = {}]

(* A new local global gets another name when its own is in use; any other   *)
(* takes its name away from who has it: forceRenaming.  Linkage, level and  *)
(* visibility are copied from the module's global, its storage class is not.*)
NewGlobal(n) ==
  [linkage |-> src[n].linkage, level |-> src[n].level, hidden |-> src[n].hidden,
   import |-> FALSE, from |-> <<>>, refs |-> {},
   named |-> IsLocal(src[n]) => NamedValue(n) = {}]

(* Mutation: a global takes no name away, it gets another one.              *)
WithNewRenamed(S) ==
  [ d \in DOMAIN dst \cup ({cur} \X S) |->
      IF d \in DOMAIN dst THEN dst[d]
                          ELSE [NewGlobal(d[2]) EXCEPT !.named = NamedValue(d[2]) = {}] ]

WithNew(S) ==
  [ d \in DOMAIN dst \cup ({cur} \X S) |->
      IF d \in DOMAIN dst
        THEN [dst[d] EXCEPT !.named = @ /\ (d[2] \in S => IsLocal(src[d[2]]))]
        ELSE NewGlobal(d[2]) ]

(* What a user mentions, when mentions of D have become mentions of new.    *)
Redirected(refs, D, new) == (refs \ D) \cup (IF refs \cap D = {} THEN {} ELSE {new})

(* Mutation: erased without replacing its uses.                             *)
Erase(globals, D, new) == [ d \in DOMAIN globals \ D |-> globals[d] ]

(* replaceAllUsesWith and eraseFromParent, for the globals in D.            *)
Replace(globals, D, new) ==
  [ d \in DOMAIN globals \ D |->
      [globals[d] EXCEPT !.refs = Redirected(@, D, new)] ]

-----------------------------------------------------------------------------
(* The order of the loops: variables, functions and aliases for the         *)
(* prototypes; appended variables, functions, aliases and the other         *)
(* variables for the contents.                                              *)

KindOrder == [variable |-> 1, function |-> 2, alias |-> 3]

PrototypeTurn ==
  { n \in todo : \A m \in todo : KindOrder[src[n].kind] <= KindOrder[src[m].kind] }

ContentsOrder(n) ==
  IF n \in skip THEN 1 ELSE IF src[n].kind = "variable" THEN 4 ELSE KindOrder[src[n].kind]

ContentsTurn == { n \in todo : \A m \in todo : ContentsOrder(n) <= ContentsOrder(m) }

Appended == { n \in skip : src[n].linkage = "appending" }

WithContents == { n \in DOMAIN src \ skip : src[n].def } \cup Appended

Init ==
  /\ input \in Inputs
  /\ pc = "read"
  /\ mods = <<>>
  /\ dst = <<>> /\ map = <<>> /\ skip = {} /\ lazy = {} /\ todo = {}

-----------------------------------------------------------------------------
(* The tool: the first module is the composite, the others are linked to it.*)

Composite(mod) ==
  [ d \in {1} \X DOMAIN mod |->
      LET s == mod[d[2]]
      IN [linkage |-> s.linkage, level |-> s.level, hidden |-> s.hidden, import |-> s.import,
          from |-> IF s.def THEN <<1>> ELSE <<>>, refs |-> {1} \X s.refs, named |-> TRUE] ]

ReadFile ==
  /\ pc = "read" /\ cur < Len(input)
  /\ LET file == input[cur + 1]
     IN /\ Parses(file.syms, file.form)
        /\ \E mod \in Readings(file.syms, file.form) :
             /\ mods' = Append(mods, mod)
             /\ IF cur = 0
                  THEN dst' = Composite(mod) /\ UNCHANGED <<pc, todo>>
                  ELSE pc' = "prototypes" /\ todo' = DOMAIN mod /\ UNCHANGED dst
  /\ map' = <<>> /\ skip' = {} /\ lazy' = {}
  /\ UNCHANGED input

RejectFile ==
  /\ pc = "read" /\ cur < Len(input)
  /\ ~Parses(input[cur + 1].syms, input[cur + 1].form)
  /\ pc' = "failed"
  /\ UNCHANGED <<input, mods, dst, map, skip, lazy, todo>>

-----------------------------------------------------------------------------
(* Prototypes.                                                              *)

Link(n, d) == map' = [ m \in DOMAIN map \cup {n} |-> IF m = n THEN d ELSE map[m] ]

MultipleDefinition(n) ==
  /\ \E d \in LinkedTo(n) : MultiplyDefined(dst[d], src[n])
  /\ pc' = "failed"
  /\ UNCHANGED <<dst, map, skip>>

KeepDestination(n) ==
  /\ \E d \in LinkedTo(n) :
       /\ ~MultiplyDefined(dst[d], src[n]) /\ ~LinkFromSrc(dst[d], src[n])
       /\ dst' = [dst EXCEPT ![d].linkage = KeptLinkage(dst[d], src[n]),
                             ![d].hidden = @ \/ src[n].hidden]
       /\ Link(n, d)
  /\ skip' = skip \cup {n}
  /\ UNCHANGED pc

BringOver(n) ==
  /\ \A d \in LinkedTo(n) : ~MultiplyDefined(dst[d], src[n]) /\ LinkFromSrc(dst[d], src[n])
  /\ dst' = [Replace(WithNew({n}), LinkedTo(n), <<cur, n>>) EXCEPT
               ![<<cur, n>>].hidden = @ \/ \E d \in LinkedTo(n) : dst[d].hidden]
  /\ Link(n, <<cur, n>>)
  /\ UNCHANGED <<pc, skip>>

LinkPrototype(n) == MultipleDefinition(n) \/ KeepDestination(n) \/ BringOver(n)

(* The new variable is the composite's, longer; what is appended follows.   *)
(* What mentioned the composite's, its own initialiser too, mentions it.    *)
LinkAppendingVarProto(n) ==
  /\ \E d \in LinkedTo(n) :
       IF /\ src[n].linkage = "appending" /\ dst[d].linkage = "appending"
          /\ src[n].hidden = dst[d].hidden
         THEN /\ dst' = [Replace(WithNew({n}), {d}, <<cur, n>>) EXCEPT
                           ![<<cur, n>>] = [dst[d] EXCEPT !.refs = Redirected(@, {d}, <<cur, n>>)]]
              /\ Link(n, <<cur, n>>)
              /\ skip' = skip \cup {n}
              /\ UNCHANGED pc
         ELSE pc' = "failed" /\ UNCHANGED <<dst, map, skip>>

LinkGlobalProto(n) ==
  /\ src[n].kind = "variable"
  /\ IF \E d \in LinkedTo(n) : "appending" \in {dst[d].linkage, src[n].linkage}
       THEN LinkAppendingVarProto(n)
       ELSE LinkPrototype(n)

(* A function that may be dropped when unused waits until it is mentioned.  *)
Lazily(n) ==
  /\ LinkedTo(n) = {}
  /\ src[n].linkage \in {"internal", "linkonce", "available_externally"}

LinkFunctionProto(n) ==
  /\ src[n].kind = "function"
  /\ IF Lazily(n) THEN skip' = skip \cup {n} /\ UNCHANGED <<pc, dst, map>>
                  ELSE LinkPrototype(n)

LinkAliasProto(n) == src[n].kind = "alias" /\ LinkPrototype(n)

Prototype ==
  /\ pc = "prototypes"
  /\ \E n \in PrototypeTurn :
       /\ LinkGlobalProto(n) \/ LinkFunctionProto(n) \/ LinkAliasProto(n)
       /\ todo' = todo \ {n}
  /\ UNCHANGED <<input, mods, lazy>>

PrototypesDone ==
  /\ pc = "prototypes" /\ todo = {}
  /\ pc' = "contents"
  /\ todo' = WithContents
  /\ UNCHANGED <<input, mods, dst, map, skip, lazy>>

-----------------------------------------------------------------------------
(* Contents.                                                                *)

(* Functions that have waited, which n's contents mention.                  *)
Needed(n) == src[n].refs \ DOMAIN map

(* Mutation: functions needed by a late function do not get bodies.         *)
MapContentsOfFew(n, waiting) ==
  LET linked == [ m \in DOMAIN map \cup Needed(n) |-> IF m \in DOMAIN map THEN map[m] ELSE <<cur, m>> ]
  IN /\ map' = linked
     /\ dst' = [WithNew(Needed(n)) EXCEPT
                  ![map[n]].from = Append(@, cur),
                  ![map[n]].refs = @ \cup { linked[m] : m \in src[n].refs }]
     /\ lazy' = IF pc = "lazy" THEN waiting ELSE waiting \cup Needed(n)

(* MapValue: what n's contents mention becomes what it was linked to; a     *)
(* function that has waited is made, to get its body later.                 *)
MapContents(n, waiting) ==
  LET linked == [ m \in DOMAIN map \cup Needed(n) |-> IF m \in DOMAIN map THEN map[m] ELSE <<cur, m>> ]
  IN /\ map' = linked
     /\ dst' = [WithNew(Needed(n)) EXCEPT
                  ![map[n]].from = Append(@, cur),
                  ![map[n]].refs = @ \cup { linked[m] : m \in src[n].refs }]
     /\ lazy' = waiting \cup Needed(n)

(* Initialisers of appended variables, bodies, aliasees, initialisers.      *)
LinkContents ==
  /\ pc = "contents"
  /\ \E n \in ContentsTurn : MapContents(n, lazy) /\ todo' = todo \ {n}
  /\ UNCHANGED <<input, pc, mods, skip>>

ContentsDone ==
  /\ pc = "contents" /\ todo = {}
  /\ pc' = "lazy"
  /\ UNCHANGED <<input, mods, dst, map, skip, lazy, todo>>

LinkLazily ==
  /\ pc = "lazy"
  /\ \E n \in lazy : MapContents(n, lazy \ {n})
  /\ UNCHANGED <<input, pc, mods, skip, todo>>

ModuleDone ==
  /\ pc = "lazy" /\ lazy = {}
  /\ pc' = "read"
  /\ UNCHANGED <<input, mods, dst, map, skip, lazy, todo>>

Ended ==
  /\ \/ pc = "failed"
     \/ pc = "read" /\ cur = Len(input)
  /\ UNCHANGED vars

Next ==
  \/ ReadFile \/ RejectFile
  \/ Prototype \/ PrototypesDone
  \/ LinkContents \/ ContentsDone \/ LinkLazily \/ ModuleDone
  \/ Ended

Spec == Init /\ [][Next]_vars

-----------------------------------------------------------------------------
(* Properties.                                                              *)

(* The composite's global of a name, among those that are seen from outside.*)
Symbol(n) == { d \in NamedValue(n) : ~IsLocal(dst[d]) }

(* The modules that have a global n seen from outside.                      *)
Having(n) == { i \in 1 .. cur : n \in DOMAIN mods[i] /\ ~IsLocal(mods[i][n]) }

Defining(n, linkages) ==
  { i \in Having(n) : mods[i][n].def /\ mods[i][n].linkage \in linkages }

(* Where dllimport spoils linking: the first module imports the name, which *)
(* counts as a definition that loses to none; or a module that only imports *)
(* it comes after one that defines it, which makes the definition local.    *)
ImportSpoils(n) ==
  \E j \in Having(n) :
    /\ mods[j][n].import
    /\ j = 1 \/ \E i \in Having(n) : i < j /\ mods[i][n].def

(* Where a function or an alias meets an appending variable of its name:    *)
(* LinkAppendingVarProto takes all there is for variables, and the others   *)
(* do not look for appending linkage, they let the variable stay.           *)
MixesKinds(n) ==
  \E i, j \in Having(n) : mods[i][n].linkage = "appending" /\ mods[j][n].kind # "variable"

Settled == pc = "read" /\ cur > 0

(* The names in the modules read so far.                                    *)
Known == UNION { DOMAIN mods[i] : i \in 1 .. cur }

(* No global mentions one that was replaced and erased, and none of the     *)
(* module's globals is linked to one.                                       *)
NoDangling ==
  /\ \A d \in DOMAIN dst : dst[d].refs \subseteq DOMAIN dst
  /\ \A n \in DOMAIN map : map[n] \in DOMAIN dst

(* A name has the definition a static linker would choose, the strong one   *)
(* or else the first weak or common one, wherever in the sequence it comes, *)
(* and a definition keeps the privilege level of the module it is from: it  *)
(* never gets that of a declaration or of a definition it replaced.         *)
DefinitionWithItsLevel ==
  Settled =>
    /\ \A d \in DOMAIN dst :
         Len(dst[d].from) = 1 => dst[d].level = mods[dst[d].from[1]][d[2]].level
    /\ \A n \in Known :
         LET strong == Defining(n, {"external"})
             weak   == Defining(n, {"weak", "common"})
         IN ~ImportSpoils(n) /\ ~MixesKinds(n) /\ strong \cup weak # {} =>
              \E d \in Symbol(n) :
                dst[d].from = << CHOOSE i \in IF strong # {} THEN strong ELSE weak :
                                   strong = {} => \A j \in weak : i <= j >>

(* What a body, an initialiser or an aliasee of module i mentions is, in    *)
(* the composite, the module's own global when that is local, and else the  *)
(* one global of that name seen from outside: no local global of any module *)
(* is captured by another module or takes a name away.                      *)
Resolved(i, n) == IF IsLocal(mods[i][n]) THEN {<<i, n>>} ELSE Symbol(n)

ReferencesResolved ==
  Settled => \A d \in DOMAIN dst :
    LET mentioned == UNION { {dst[d].from[k]} \X mods[dst[d].from[k]][d[2]].refs :
                               k \in DOMAIN dst[d].from }
    IN (\A e \in mentioned : ~ImportSpoils(e[2])) =>
         /\ dst[d].refs = UNION { Resolved(e[1], e[2]) : e \in mentioned }
         /\ \A e \in mentioned : Cardinality(Resolved(e[1], e[2])) = 1

(* Whatever came over as a definition has its body, also a function that    *)
(* was first needed by the body of one that itself came late.               *)
NothingHalfLinked ==
  Settled => \A d \in DOMAIN dst : mods[d[1]][d[2]].def => ~IsDeclaration(dst[d])

(* Two strong definitions of a name, or an appending variable that is not   *)
(* one everywhere or differs in visibility.                                 *)
Conflicting(n) ==
  \/ Cardinality(Defining(n, {"external"})) > 1
  \/ \E i, j \in Having(n) :
       /\ mods[i][n].linkage = "appending"
       /\ \/ mods[j][n].linkage # "appending"
          \/ mods[j][n].hidden # mods[i][n].hidden

Conflict == \E n \in Known : Conflicting(n)

(* Linking fails on these and on a text that declares a variable, whatever  *)
(* was linked before, unless dllimport spoils it.                           *)
FailsOnConflict ==
  /\ Settled => \A n \in Known : ~ImportSpoils(n) /\ ~MixesKinds(n) => ~Conflicting(n)
  /\ pc = "failed" =>
       \/ \E n \in Known : ImportSpoils(n) \/ Conflicting(n)
       \/ /\ cur < Len(input)
          /\ input[cur + 1].form = "text" /\ Variables(input[cur + 1].syms) # {}

(* docs/LangRef.rst:28 calls the forms of LLVM code equivalent: what can be *)
(* linked from bitcode can be linked from text.                             *)
FormsAreEquivalent == pc = "failed" => Conflict
=============================================================================
