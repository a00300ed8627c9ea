------------------------- MODULE ModuleLinkerProofs -------------------------
(***************************************************************************)
(* Proofs about ModuleLinker, for any sequences of files: nothing dangles, *)
(* each name has the definition a static linker would choose, with its     *)
(* level, mentions reach what they are meant to reach, whatever came over  *)
(* has its contents, and linking fails on conflicts only.                  *)
(***************************************************************************)
EXTENDS ModuleLinker, FiniteSetTheorems, TLAPS

Names == UNION { UNION { DOMAIN files[i].syms : i \in DOMAIN files } : files \in Inputs }

Readable ==
  UNION { UNION { Readings(files[i].syms, files[i].form) : i \in DOMAIN files } : files \in Inputs }

Composed ==
  [linkage : Linkage, level : Nat, hidden : BOOLEAN, import : BOOLEAN,
   from : Seq(Nat), refs : SUBSET (Nat \X Names), named : BOOLEAN]

(* The composite is made of globals of the modules and mentions only what   *)
(* is in it, and so does the map.                                           *)
CompositeType ==
  /\ dst \in [DOMAIN dst -> Composed]
  /\ \A d \in DOMAIN dst :
       /\ d \in (1 .. cur) \X Names
       /\ d[2] \in DOMAIN mods[d[1]]
       /\ dst[d].refs \subseteq DOMAIN dst

MapType ==
  /\ map \in [DOMAIN map -> DOMAIN dst]
  /\ \A n \in DOMAIN map : map[n][2] = n
  /\ IF cur > 1 THEN (DOMAIN map \cup skip \cup lazy \cup todo) \subseteq DOMAIN src
                ELSE (DOMAIN map \cup skip \cup lazy \cup todo) = {}

LinkType ==
  /\ input \in Inputs /\ mods \in Seq(Readable) /\ cur <= Len(input)
  /\ pc \in {"read", "prototypes", "contents", "lazy", "failed"}
  /\ pc \in {"prototypes", "contents", "lazy"} => cur > 1
  /\ CompositeType
  /\ MapType

-----------------------------------------------------------------------------
(* The names the first loop has not come to.                                *)
Coming == IF pc = "prototypes" THEN todo ELSE {}

(* The names whose contents have not come over.                             *)
Unfinished == IF pc = "prototypes" THEN DOMAIN src ELSE todo \cup lazy

MayWait(s) ==
  s.kind = "function" /\ s.linkage \in {"internal", "linkonce", "available_externally"}

(* What the loops have done so far with the module's names.                 *)
MapInv ==
  /\ DOMAIN map \cup skip = DOMAIN src \ Coming
  /\ \A n \in DOMAIN src :
       <<cur, n>> \in DOMAIN dst => n \in DOMAIN map /\ map[n] = <<cur, n>>
  /\ \A n \in DOMAIN map :
       \/ n \notin skip \/ IsLocal(src[n]) \/ src[n].linkage = "appending"
       => map[n] = <<cur, n>>
  /\ \A n \in DOMAIN map : ~IsLocal(src[n]) /\ ~ImportSpoils(n) => map[n] \in Symbol(n)
  /\ \A n \in skip \ DOMAIN map : MayWait(src[n]) /\ LinkedTo(n) = {}

LoopInv ==
  /\ pc = "prototypes" =>
       /\ lazy = {}
       /\ \A n \in skip \cap DOMAIN map : map[n] = <<cur, n>> => src[n].linkage = "appending"
  /\ pc = "contents" => todo \subseteq WithContents
  /\ pc \in {"lazy", "read"} => todo = {}
  /\ pc = "read" => lazy = {}
  /\ \A n \in lazy : n \in skip \cap DOMAIN map /\ map[n] = <<cur, n>> /\ MayWait(src[n])

(* Names are kept apart; attributes are those of the module a global is of. *)
NameInv ==
  /\ \A d, e \in DOMAIN dst : dst[d].named /\ dst[e].named /\ d[2] = e[2] => d = e
  /\ \A d \in DOMAIN dst : ~IsLocal(dst[d]) => dst[d].named

Origin(d) == mods[d[1]][d[2]]

LinkageInv ==
  \A d \in DOMAIN dst :
    /\ \/ dst[d].linkage = Origin(d).linkage
       \/ dst[d].linkage = "internal" /\ ImportSpoils(d[2])
    /\ dst[d].import => d[1] = 1 /\ Origin(d).import

(* A definition of the current module whose contents have not come over, and *)
(* that took over none.                                                     *)
Empty(d) ==
  /\ cur > 1 /\ d[1] = cur /\ d[2] \in Unfinished
  /\ Origin(d).linkage = "appending" => d[2] \notin skip

(* Whose contents a global has, and whose level.                           *)
Filled(d) ==
  /\ dst[d].from \in Seq(1 .. cur)
  /\ \A j \in DOMAIN dst[d].from : d[2] \in DOMAIN mods[dst[d].from[j]]
  /\ dst[d].from = <<>> <=> ~Origin(d).def \/ Empty(d)
  /\ dst[d].from # <<>> /\ Origin(d).linkage # "appending" => dst[d].from = <<d[1]>>
  /\ dst[d].level = mods[IF dst[d].from = <<>> THEN d[1] ELSE dst[d].from[1]][d[2]].level

FromInv == \A d \in DOMAIN dst : Filled(d)

(* The modules whose global n has been linked or will be when needed.       *)
Seen(n) == Having(n) \ (IF n \in Coming THEN {cur} ELSE {})

SeenStrong(n) == { i \in Seen(n) : mods[i][n].def /\ mods[i][n].linkage = "external" }
SeenWeak(n) == { i \in Seen(n) : mods[i][n].def /\ mods[i][n].linkage \in {"weak", "common"} }

Chosen(n) ==
  /\ Symbol(n) = {} => \A i \in Seen(n) : MayWait(mods[i][n])
  /\ \A d \in Symbol(n) :
       /\ SeenStrong(n) # {} => SeenStrong(n) = {d[1]}
       /\ SeenStrong(n) = {} /\ SeenWeak(n) # {} => d[1] \in SeenWeak(n) /\ \A i \in SeenWeak(n) : d[1] <= i
       /\ (\E i \in Seen(n) : mods[i][n].linkage = "appending") =>
            \A i \in Seen(n) : mods[i][n].linkage = "appending" /\ mods[i][n].hidden = dst[d].hidden

SymbolInv == \A n \in Names : ~ImportSpoils(n) /\ ~MixesKinds(n) => Chosen(n)

Mentioned(d) ==
  UNION { {dst[d].from[j]} \X mods[dst[d].from[j]][d[2]].refs : j \in DOMAIN dst[d].from }

(* What a global mentions is what its contents mention, resolved.           *)
Resolves(d) ==
  /\ \A x \in dst[d].refs :
       \E e \in Mentioned(d) : e[2] = x[2] /\ (~ImportSpoils(x[2]) => x \in Resolved(e[1], e[2]))
  /\ \A e \in Mentioned(d) : ~ImportSpoils(e[2]) =>
       Resolved(e[1], e[2]) # {} /\ Resolved(e[1], e[2]) \subseteq dst[d].refs

RefsInv == \A d \in DOMAIN dst : Resolves(d)

FailedInv ==
  pc = "failed" =>
    \/ \E n \in Known : ImportSpoils(n) \/ Conflicting(n)
    \/ /\ cur < Len(input)
       /\ input[cur + 1].form = "text" /\ Variables(input[cur + 1].syms) # {}

Running == pc # "failed"

LinkInv ==
  /\ LinkType
  /\ Running => /\ cur > 1 => MapInv
                /\ LoopInv /\ NameInv /\ LinkageInv /\ FromInv /\ SymbolInv /\ RefsInv
  /\ FailedInv
-----------------------------------------------------------------------------
(* The modules.                                                             *)

(* Reading a module back changes levels, visibilities and storage classes.  *)
LEMMA ReadingIsModule ==
  ASSUME NEW mod, IsModule(mod), NEW form, NEW r \in Readings(mod, form)
  PROVE  IsModule(r) /\ DOMAIN r = DOMAIN mod
<1>1. LeastPrivileged \in Nat /\ NumLevels \in Nat
  BY NumLevelsAssumption DEF LeastPrivileged
<1>2. DOMAIN r = DOMAIN mod /\ r = [n \in DOMAIN r |-> r[n]]
  BY DEF Readings
<1>3. ASSUME NEW n \in DOMAIN mod
      PROVE  /\ r[n] \in Global(DOMAIN mod)
             /\ r[n].kind = mod[n].kind /\ r[n].linkage = mod[n].linkage /\ r[n].def = mod[n].def
             /\ r[n].refs = mod[n].refs /\ (r[n].import => mod[n].import)
  <2>1. r[n] \in ReadGlobal(mod[n], form) /\ mod[n] \in Global(DOMAIN mod)
    BY DEF Readings, IsModule
  <2>2. CASE mod[n].kind # "variable"
    BY <1>1, <2>1, <2>2 DEF ReadGlobal, Global
  <2>3. CASE mod[n].kind = "variable"
    <3>1. r[n] \in ReadVariable(mod[n], form)
      BY <2>1, <2>3 DEF ReadGlobal
    <3>2. CASE form # "old"
      BY <2>1, <3>1, <3>2 DEF ReadVariable
    <3>3. CASE form = "old" /\ (mod[n].hidden \/ mod[n].import)
      <4>1. PICK l \in {0, 1} :
              r[n] = [mod[n] EXCEPT !.level = l, !.hidden = FALSE, !.import = FALSE]
        BY <3>1, <3>3 DEF ReadVariable
      <4>2. r[n] = [kind |-> mod[n].kind, linkage |-> mod[n].linkage, def |-> mod[n].def,
                    import |-> FALSE, level |-> l, hidden |-> FALSE, refs |-> mod[n].refs]
        BY <2>1, <4>1 DEF Global
      <4>3. l \in Nat
        OBVIOUS
      <4> QED  BY <2>1, <4>2, <4>3 DEF Global
    <3>4. CASE form = "old" /\ ~(mod[n].hidden \/ mod[n].import)
      <4>1. PICK l \in 0 .. NumLevels : r[n] = [mod[n] EXCEPT !.level = l]
        BY <3>1, <3>4 DEF ReadVariable
      <4>2. l \in Nat
        BY <1>1
      <4> QED  BY <2>1, <4>1, <4>2 DEF Global
    <3> QED  BY <3>2, <3>3, <3>4
  <2> QED  BY <2>2, <2>3
<1> QED  BY <1>2, <1>3 DEF IsModule

(* What a module that was read is.                                          *)
LEMMA ReadableIsModule ==
  ASSUME NEW r \in Readable
  PROVE  IsModule(r) /\ DOMAIN r \subseteq Names
<1>1. PICK files \in Inputs : \E i \in DOMAIN files : r \in Readings(files[i].syms, files[i].form)
  BY DEF Readable
<1>2. PICK i \in DOMAIN files : r \in Readings(files[i].syms, files[i].form)
  BY <1>1
<1>3. IsModule(files[i].syms)
  BY <1>2, InputsAssumption
<1>4. IsModule(r) /\ DOMAIN r = DOMAIN files[i].syms
  BY <1>2, <1>3, ReadingIsModule
<1> QED  BY <1>2, <1>4 DEF Names

(* The modules read so far are modules.                                     *)
LEMMA ModulesRead ==
  ASSUME mods \in Seq(Readable)
  PROVE  /\ cur \in Nat /\ DOMAIN mods = 1 .. cur
         /\ \A i \in 1 .. cur : IsModule(mods[i]) /\ DOMAIN mods[i] \subseteq Names
<1>1. cur \in Nat /\ \A i \in 1 .. cur : mods[i] \in Readable
  BY DEF cur
<1> QED  BY <1>1, ReadableIsModule DEF cur

(* What a module's global is.                                               *)
LEMMA GlobalOfModule ==
  ASSUME NEW mod, IsModule(mod), NEW n \in DOMAIN mod
  PROVE  /\ mod[n].kind \in {"variable", "function", "alias"} /\ mod[n].linkage \in Linkage
         /\ mod[n].def \in BOOLEAN /\ mod[n].import \in BOOLEAN /\ mod[n].hidden \in BOOLEAN
         /\ mod[n].level \in Nat /\ mod[n].refs \subseteq DOMAIN mod
         /\ mod[n].def => mod[n].linkage # "extern_weak"
         /\ ~mod[n].def => mod[n].linkage \in {"external", "extern_weak"} /\ mod[n].refs = {}
         /\ mod[n].linkage = "appending" => mod[n].kind = "variable"
         /\ mod[n].import => \/ ~mod[n].def /\ mod[n].linkage = "external"
                             \/ mod[n].linkage = "available_externally"
<1>1. mod[n] \in Global(DOMAIN mod)
  BY DEF IsModule
<1> QED  BY <1>1 DEF IsModule, Global
(* What is known of a global of the composite.                              *)
LEMMA GlobalOfComposite ==
  ASSUME LinkType, NEW d \in DOMAIN dst
  PROVE  /\ d = <<d[1], d[2]>> /\ d[1] \in 1 .. cur /\ d[2] \in DOMAIN mods[d[1]]
         /\ dst[d] \in Composed
         /\ dst[d].linkage \in Linkage /\ dst[d].level \in Nat /\ dst[d].hidden \in BOOLEAN
         /\ dst[d].import \in BOOLEAN /\ dst[d].from \in Seq(Nat) /\ dst[d].named \in BOOLEAN
         /\ dst[d].refs \subseteq DOMAIN dst
<1>1. d \in (1 .. cur) \X Names /\ dst[d] \in Composed
  BY DEF LinkType, CompositeType
<1> QED  BY <1>1 DEF LinkType, CompositeType, Composed

(* What is known of a global the first loop has not come to.                *)
LEMMA NotYetLinked ==
  ASSUME LinkInv, pc = "prototypes", NEW n \in todo
  PROVE  /\ cur \in Nat /\ cur > 1 /\ IsModule(src) /\ n \in DOMAIN src
         /\ n \notin DOMAIN map /\ n \notin skip /\ <<cur, n>> \notin DOMAIN dst
<1>1. cur > 1 /\ MapInv /\ MapType /\ mods \in Seq(Readable)
  BY DEF LinkInv, LinkType, Running
<1>2. cur \in Nat /\ IsModule(src)
  BY <1>1, ModulesRead DEF src
<1>3. n \in DOMAIN src /\ Coming = todo
  BY <1>1 DEF MapType, Coming
<1> QED  BY <1>1, <1>2, <1>3 DEF MapInv

-----------------------------------------------------------------------------
(* What the operations make of the composite.                               *)

Carries(r, s) == r.level = s.level /\ r.import = s.import /\ r.from = s.from

(* New globals stand beside those there were, which may lose their names.   *)
LEMMA WithNewIs ==
  ASSUME LinkType, cur > 1, NEW S, S \subseteq DOMAIN src
  PROVE  /\ DOMAIN WithNew(S) = DOMAIN dst \cup ({cur} \X S)
         /\ WithNew(S) \in [DOMAIN WithNew(S) -> Composed]
         /\ \A d \in DOMAIN dst :
              /\ Carries(WithNew(S)[d], dst[d]) /\ WithNew(S)[d].linkage = dst[d].linkage
              /\ WithNew(S)[d].hidden = dst[d].hidden /\ WithNew(S)[d].refs = dst[d].refs
              /\ WithNew(S)[d].named = (dst[d].named /\ (d[2] \in S => IsLocal(src[d[2]])))
         /\ \A n \in S : <<cur, n>> \notin DOMAIN dst => WithNew(S)[<<cur, n>>] = NewGlobal(n)
<1>0. cur \in Nat /\ IsModule(src) /\ DOMAIN src \subseteq Names
  BY ModulesRead DEF LinkType, src
<1>1. DOMAIN WithNew(S) = DOMAIN dst \cup ({cur} \X S)
  BY DEF WithNew
<1>2. ASSUME NEW d \in DOMAIN dst
      PROVE  /\ WithNew(S)[d] \in Composed
             /\ Carries(WithNew(S)[d], dst[d]) /\ WithNew(S)[d].linkage = dst[d].linkage
             /\ WithNew(S)[d].hidden = dst[d].hidden /\ WithNew(S)[d].refs = dst[d].refs
             /\ WithNew(S)[d].named = (dst[d].named /\ (d[2] \in S => IsLocal(src[d[2]])))
  <2>1. WithNew(S)[d] = [dst[d] EXCEPT !.named = dst[d].named /\ (d[2] \in S => IsLocal(src[d[2]]))]
    BY DEF WithNew
  <2>2. dst[d] \in Composed
    BY GlobalOfComposite
  <2> QED  BY <2>1, <2>2 DEF Composed, Carries
<1>3. ASSUME NEW n \in S, <<cur, n>> \notin DOMAIN dst
      PROVE  WithNew(S)[<<cur, n>>] = NewGlobal(n) /\ NewGlobal(n) \in Composed
  <2>1. WithNew(S)[<<cur, n>>] = NewGlobal(n)
    BY <1>3 DEF WithNew
  <2>2. src[n].linkage \in Linkage /\ src[n].level \in Nat /\ src[n].hidden \in BOOLEAN
    BY <1>0, GlobalOfModule
  <2> QED  BY <2>1, <2>2 DEF NewGlobal, Composed
<1>4. WithNew(S) \in [DOMAIN WithNew(S) -> Composed]
  <2>1. ASSUME NEW d \in DOMAIN WithNew(S) PROVE WithNew(S)[d] \in Composed
    BY <1>1, <1>2, <1>3
  <2> QED  BY <2>1 DEF WithNew
<1> QED  BY <1>1, <1>2, <1>3, <1>4

Links(n, d) ==
  /\ map' = [m \in DOMAIN map' |-> map'[m]]
  /\ DOMAIN map' = DOMAIN map \cup {n} /\ map'[n] = d
  /\ \A m \in DOMAIN map : m # n => map'[m] = map[m]

KeepEffect(n, d) ==
  /\ d \in LinkedTo(n) /\ ~MultiplyDefined(dst[d], src[n]) /\ ~LinkFromSrc(dst[d], src[n])
  /\ DOMAIN dst' = DOMAIN dst /\ dst' \in [DOMAIN dst' -> Composed]
  /\ \A e \in DOMAIN dst : e # d => dst'[e] = dst[e]
  /\ Carries(dst'[d], dst[d]) /\ dst'[d].linkage = KeptLinkage(dst[d], src[n])
  /\ dst'[d].refs = dst[d].refs /\ dst'[d].named = dst[d].named
  /\ Links(n, d) /\ skip' = skip \cup {n} /\ pc' = pc

(* The globals in D give way to one for the module's n.                     *)
MoveEffect(n, D) ==
  /\ DOMAIN dst' = (DOMAIN dst \ D) \cup {<<cur, n>>} /\ dst' \in [DOMAIN dst' -> Composed]
  /\ \A e \in DOMAIN dst \ D :
       /\ Carries(dst'[e], dst[e]) /\ dst'[e].linkage = dst[e].linkage
       /\ dst'[e].hidden = dst[e].hidden
       /\ dst'[e].refs = Redirected(dst[e].refs, D, <<cur, n>>)
       /\ dst'[e].named = (dst[e].named /\ (e[2] = n => IsLocal(src[n])))
  /\ Links(n, <<cur, n>>) /\ pc' = pc

BringEffect(n) ==
  /\ \A d \in LinkedTo(n) : ~MultiplyDefined(dst[d], src[n]) /\ LinkFromSrc(dst[d], src[n])
  /\ MoveEffect(n, LinkedTo(n))
  /\ LET new == dst'[<<cur, n>>]
     IN /\ new.linkage = src[n].linkage /\ new.level = src[n].level /\ ~new.import
        /\ new.from = <<>> /\ new.refs = {}
        /\ new.named = (IsLocal(src[n]) => NamedValue(n) = {})
        /\ LinkedTo(n) = {} => new.hidden = src[n].hidden
  /\ skip' = skip

AppendEffect(n, d) ==
  /\ d \in LinkedTo(n) /\ src[n].linkage = "appending" /\ dst[d].linkage = "appending"
  /\ src[n].hidden = dst[d].hidden
  /\ MoveEffect(n, {d})
  /\ LET new == dst'[<<cur, n>>]
     IN /\ Carries(new, dst[d]) /\ new.linkage = "appending" /\ new.hidden = dst[d].hidden
        /\ new.named = dst[d].named /\ new.refs = Redirected(dst[d].refs, {d}, <<cur, n>>)
  /\ skip' = skip \cup {n}

(* A name for which the loop does not look at appending linkage, or that    *)
(* meets none.                                                              *)
Plain(n) ==
  src[n].kind = "variable" =>
    \A d \in LinkedTo(n) : dst[d].linkage # "appending" /\ src[n].linkage # "appending"

FailEffect(n) ==
  /\ \E d \in LinkedTo(n) :
       \/ Plain(n) /\ MultiplyDefined(dst[d], src[n])
       \/ /\ "appending" \in {src[n].linkage, dst[d].linkage}
          /\ \/ src[n].linkage # "appending" \/ dst[d].linkage # "appending"
             \/ src[n].hidden # dst[d].hidden
  /\ pc' = "failed" /\ dst' = dst /\ map' = map /\ skip' = skip

WaitEffect(n) ==
  /\ MayWait(src[n]) /\ LinkedTo(n) = {}
  /\ skip' = skip \cup {n} /\ dst' = dst /\ map' = map /\ pc' = pc

(* Linking a name adds it to the map.                                       *)
LEMMA LinkIs ==
  ASSUME NEW n, NEW d, Link(n, d)
  PROVE  Links(n, d)
  BY DEF Link, Links

(* KeepDestination changes the one global and the map.                      *)
LEMMA KeepIs ==
  ASSUME LinkInv, pc = "prototypes", NEW n \in todo, KeepDestination(n)
  PROVE  \E d : KeepEffect(n, d)
<1>1. PICK d \in LinkedTo(n) :
        /\ ~MultiplyDefined(dst[d], src[n]) /\ ~LinkFromSrc(dst[d], src[n])
        /\ dst' = [dst EXCEPT ![d].linkage = KeptLinkage(dst[d], src[n]),
                              ![d].hidden = @ \/ src[n].hidden]
        /\ Link(n, d)
  BY DEF KeepDestination
<1>2. d \in DOMAIN dst /\ dst \in [DOMAIN dst -> Composed] /\ IsModule(src) /\ n \in DOMAIN src
  BY <1>1, NotYetLinked DEF LinkedTo, NamedValue, LinkInv, LinkType, CompositeType
<1>3. src[n].hidden \in BOOLEAN /\ dst[d] \in Composed
  BY <1>2, GlobalOfModule
<1>4. KeptLinkage(dst[d], src[n]) \in Linkage
  BY <1>3 DEF KeptLinkage, Linkage, Composed
<1>5. /\ DOMAIN dst' = DOMAIN dst
      /\ \A e \in DOMAIN dst : e # d => dst'[e] = dst[e]
      /\ dst'[d] = [[dst[d] EXCEPT !.linkage = KeptLinkage(dst[d], src[n])]
                       EXCEPT !.hidden = dst[d].hidden \/ src[n].hidden]
  BY <1>1, <1>2, <1>3 DEF Composed
<1>6. /\ dst'[d] \in Composed /\ Carries(dst'[d], dst[d])
      /\ dst'[d].linkage = KeptLinkage(dst[d], src[n])
      /\ dst'[d].refs = dst[d].refs /\ dst'[d].named = dst[d].named
  BY <1>3, <1>4, <1>5 DEF Composed, Carries
<1>7. dst' \in [DOMAIN dst' -> Composed]
  BY <1>1, <1>2, <1>5, <1>6
<1>8. Links(n, d) /\ skip' = skip \cup {n} /\ pc' = pc
  BY <1>1, LinkIs DEF KeepDestination
<1> QED  BY <1>1, <1>5, <1>6, <1>7, <1>8 DEF KeepEffect

(* What R is of the composite, when a new global for n has replaced D.      *)
Moved(n, D, R) ==
  LET new == <<cur, n>>
  IN /\ DOMAIN R = (DOMAIN dst \ D) \cup {new} /\ R \in [DOMAIN R -> Composed]
     /\ \A e \in DOMAIN dst \ D :
          /\ Carries(R[e], dst[e]) /\ R[e].linkage = dst[e].linkage
          /\ R[e].hidden = dst[e].hidden
          /\ R[e].refs = Redirected(dst[e].refs, D, new)
          /\ R[e].named = (dst[e].named /\ (e[2] = n => IsLocal(src[n])))
     /\ Carries(R[new], NewGlobal(n)) /\ R[new].linkage = src[n].linkage
     /\ R[new].hidden = src[n].hidden /\ R[new].refs = {}
     /\ R[new].named = (IsLocal(src[n]) => NamedValue(n) = {})

(* Replacing globals by one for n does it with what mentioned them.         *)
LEMMA MoveIs ==
  ASSUME LinkInv, pc = "prototypes", NEW n \in todo, NEW D, D \subseteq DOMAIN dst
  PROVE  Moved(n, D, Replace(WithNew({n}), D, <<cur, n>>))
<1> DEFINE W == WithNew({n})
           new == <<cur, n>>
           R == Replace(W, D, new)
<1>1. /\ cur \in Nat /\ cur > 1 /\ n \in DOMAIN src /\ new \notin DOMAIN dst /\ LinkType
      /\ DOMAIN src \subseteq Names
  BY NotYetLinked, ModulesRead DEF LinkInv, LinkType, src
<1>2. /\ DOMAIN W = DOMAIN dst \cup {new} /\ W \in [DOMAIN W -> Composed]
      /\ \A d \in DOMAIN dst :
           /\ Carries(W[d], dst[d]) /\ W[d].linkage = dst[d].linkage
           /\ W[d].hidden = dst[d].hidden /\ W[d].refs = dst[d].refs
           /\ W[d].named = (dst[d].named /\ (d[2] = n => IsLocal(src[n])))
      /\ W[new] = NewGlobal(n)
  <2>1. {cur} \X {n} = {new} /\ {n} \subseteq DOMAIN src
    BY <1>1
  <2>2. /\ DOMAIN W = DOMAIN dst \cup ({cur} \X {n}) /\ W \in [DOMAIN W -> Composed]
        /\ \A d \in DOMAIN dst :
             /\ Carries(W[d], dst[d]) /\ W[d].linkage = dst[d].linkage
             /\ W[d].hidden = dst[d].hidden /\ W[d].refs = dst[d].refs
             /\ W[d].named = (dst[d].named /\ (d[2] \in {n} => IsLocal(src[d[2]])))
        /\ \A m \in {n} : <<cur, m>> \notin DOMAIN dst => W[<<cur, m>>] = NewGlobal(m)
    BY <1>1, <2>1, WithNewIs
  <2> HIDE DEF W
  <2>3. ASSUME NEW d \in DOMAIN dst
        PROVE  W[d].named = (dst[d].named /\ (d[2] = n => IsLocal(src[n])))
    <3>1. W[d].named = (dst[d].named /\ (d[2] \in {n} => IsLocal(src[d[2]])))
      BY <2>2
    <3>2. CASE d[2] = n
      BY <3>1, <3>2
    <3>3. CASE d[2] # n
      BY <3>1, <3>3
    <3> QED  BY <3>2, <3>3
  <2> QED  BY <1>1, <2>1, <2>2, <2>3
<1> HIDE DEF W
<1>3. /\ DOMAIN R = DOMAIN W \ D /\ R \in [DOMAIN W \ D -> Composed]
      /\ \A d \in DOMAIN W \ D :
           /\ Carries(R[d], W[d]) /\ R[d].linkage = W[d].linkage /\ R[d].hidden = W[d].hidden
           /\ R[d].named = W[d].named /\ R[d].refs = Redirected(W[d].refs, D, new)
  <2>1. new \in Nat \X Names
    BY <1>1
  <2> HIDE DEF new
  <2>2. ASSUME NEW d \in DOMAIN W \ D
        PROVE  /\ R[d] \in Composed
               /\ Carries(R[d], W[d]) /\ R[d].linkage = W[d].linkage /\ R[d].hidden = W[d].hidden
               /\ R[d].named = W[d].named /\ R[d].refs = Redirected(W[d].refs, D, new)
    <3>1. R[d] = [W[d] EXCEPT !.refs = Redirected(W[d].refs, D, new)]
      BY DEF Replace
    <3>2. W[d] \in Composed
      BY <1>2
    <3>3. Redirected(W[d].refs, D, new) \in SUBSET (Nat \X Names)
      BY <2>1, <3>2 DEF Composed, Redirected
    <3> QED  BY <3>1, <3>2, <3>3 DEF Composed, Carries
  <2> QED  BY <2>2 DEF Replace
<1> HIDE DEF R
<1>4. DOMAIN R = (DOMAIN dst \ D) \cup {new} /\ R \in [DOMAIN R -> Composed] /\ new \in DOMAIN W \ D
  BY <1>1, <1>2, <1>3
<1>5. ASSUME NEW e \in DOMAIN dst \ D
      PROVE  /\ Carries(R[e], dst[e]) /\ R[e].linkage = dst[e].linkage /\ R[e].hidden = dst[e].hidden
             /\ R[e].refs = Redirected(dst[e].refs, D, new)
             /\ R[e].named = (dst[e].named /\ (e[2] = n => IsLocal(src[n])))
  BY <1>2, <1>3 DEF Carries
<1>6. /\ Carries(R[new], NewGlobal(n)) /\ R[new].linkage = src[n].linkage
      /\ R[new].hidden = src[n].hidden /\ R[new].refs = {}
      /\ R[new].named = (IsLocal(src[n]) => NamedValue(n) = {})
  <2>1. /\ Carries(R[new], W[new]) /\ R[new].linkage = W[new].linkage /\ R[new].hidden = W[new].hidden
        /\ R[new].named = W[new].named /\ R[new].refs = Redirected(W[new].refs, D, new)
    BY <1>3, <1>4
  <2>2. /\ NewGlobal(n).linkage = src[n].linkage /\ NewGlobal(n).hidden = src[n].hidden
        /\ NewGlobal(n).refs = {}
        /\ NewGlobal(n).named = (IsLocal(src[n]) => NamedValue(n) = {})
    BY DEF NewGlobal
  <2> QED  BY <1>2, <2>1, <2>2 DEF Redirected
<1>7. Moved(n, D, R)
  BY <1>4, <1>5, <1>6 DEF Moved
<1> QED  BY <1>7 DEF R, W
(* BringOver puts a new global in the place of those it is linked to.       *)
LEMMA BringIs ==
  ASSUME LinkInv, pc = "prototypes", NEW n \in todo, BringOver(n)
  PROVE  BringEffect(n)
<1> DEFINE D == LinkedTo(n)
           new == <<cur, n>>
           R == Replace(WithNew({n}), D, new)
<1>1. /\ \A d \in D : ~MultiplyDefined(dst[d], src[n]) /\ LinkFromSrc(dst[d], src[n])
      /\ dst' = [R EXCEPT ![new].hidden = @ \/ \E d \in D : dst[d].hidden]
      /\ Link(n, new) /\ pc' = pc /\ skip' = skip
  BY DEF BringOver
<1>2. D \subseteq DOMAIN dst /\ new \notin DOMAIN dst /\ IsModule(src) /\ n \in DOMAIN src
  BY NotYetLinked DEF LinkedTo, NamedValue
<1>3. /\ DOMAIN R = (DOMAIN dst \ D) \cup {new} /\ R \in [DOMAIN R -> Composed]
      /\ \A e \in DOMAIN dst \ D :
           /\ Carries(R[e], dst[e]) /\ R[e].linkage = dst[e].linkage
           /\ R[e].hidden = dst[e].hidden
           /\ R[e].refs = Redirected(dst[e].refs, D, new)
           /\ R[e].named = (dst[e].named /\ (e[2] = n => IsLocal(src[n])))
      /\ Carries(R[new], NewGlobal(n)) /\ R[new].linkage = src[n].linkage
      /\ R[new].hidden = src[n].hidden /\ R[new].refs = {}
      /\ R[new].named = (IsLocal(src[n]) => NamedValue(n) = {})
  <2>1. Moved(n, D, R)
    BY <1>2, MoveIs
  <2> HIDE DEF R, D
  <2> QED  BY <2>1 DEF Moved
<1> HIDE DEF R
<1>4. new \in DOMAIN R /\ R[new] \in Composed
  BY <1>3
<1>5. /\ DOMAIN dst' = DOMAIN R
      /\ \A e \in DOMAIN R : e # new => dst'[e] = R[e]
      /\ dst'[new] = [R[new] EXCEPT !.hidden = R[new].hidden \/ \E d \in D : dst[d].hidden]
  BY <1>1, <1>3, <1>4
<1>6. /\ dst'[new] \in Composed /\ Carries(dst'[new], R[new])
      /\ dst'[new].linkage = R[new].linkage /\ dst'[new].refs = R[new].refs
      /\ dst'[new].named = R[new].named
      /\ dst'[new].hidden = (R[new].hidden \/ \E d \in D : dst[d].hidden)
  BY <1>4, <1>5 DEF Composed, Carries
<1>7. dst' \in [DOMAIN dst' -> Composed]
  BY <1>1, <1>3, <1>5, <1>6
<1>8. MoveEffect(n, D)
  BY <1>1, <1>2, <1>3, <1>5, <1>7, LinkIs DEF MoveEffect
<1>9. /\ dst'[new].linkage = src[n].linkage /\ dst'[new].level = src[n].level /\ ~dst'[new].import
      /\ dst'[new].from = <<>> /\ dst'[new].refs = {}
      /\ dst'[new].named = (IsLocal(src[n]) => NamedValue(n) = {})
      /\ D = {} => dst'[new].hidden = src[n].hidden
  <2>1. Carries(dst'[new], NewGlobal(n))
    BY <1>3, <1>6 DEF Carries
  <2>2. src[n].hidden \in BOOLEAN
    BY <1>2, GlobalOfModule
  <2>3. D = {} => dst'[new].hidden = src[n].hidden
    BY <1>3, <1>6, <2>2
  <2> QED  BY <1>3, <1>6, <2>1, <2>3 DEF Carries, NewGlobal
<1> QED  BY <1>1, <1>8, <1>9 DEF BringEffect

(* LinkAppendingVarProto fails or puts a longer variable in the place of one. *)
LEMMA AppendIs ==
  ASSUME LinkInv, pc = "prototypes", NEW n \in todo, LinkAppendingVarProto(n),
         \E d \in LinkedTo(n) : "appending" \in {dst[d].linkage, src[n].linkage}
  PROVE  FailEffect(n) \/ \E d : AppendEffect(n, d)
<1> DEFINE new == <<cur, n>>
<1>1. PICK d \in LinkedTo(n) :
        IF /\ src[n].linkage = "appending" /\ dst[d].linkage = "appending"
           /\ src[n].hidden = dst[d].hidden
          THEN /\ dst' = [Replace(WithNew({n}), {d}, new) EXCEPT
                            ![new] = [dst[d] EXCEPT !.refs = Redirected(@, {d}, new)]]
               /\ Link(n, new)
               /\ skip' = skip \cup {n}
               /\ UNCHANGED pc
          ELSE pc' = "failed" /\ UNCHANGED <<dst, map, skip>>
  BY DEF LinkAppendingVarProto
<1>2. /\ d \in DOMAIN dst /\ new \notin DOMAIN dst /\ IsModule(src) /\ n \in DOMAIN src
      /\ LinkType /\ cur \in Nat /\ cur > 1
  BY NotYetLinked DEF LinkedTo, NamedValue, LinkInv
<1>3. CASE src[n].linkage = "appending" /\ dst[d].linkage = "appending" /\ src[n].hidden = dst[d].hidden
  <2> DEFINE R == Replace(WithNew({n}), {d}, new)
  <2>1. /\ dst' = [R EXCEPT ![new] = [dst[d] EXCEPT !.refs = Redirected(dst[d].refs, {d}, new)]]
        /\ Link(n, new) /\ skip' = skip \cup {n} /\ pc' = pc
    BY <1>1, <1>3
  <2>2. /\ DOMAIN R = (DOMAIN dst \ {d}) \cup {new} /\ R \in [DOMAIN R -> Composed]
        /\ \A e \in DOMAIN dst \ {d} :
             /\ Carries(R[e], dst[e]) /\ R[e].linkage = dst[e].linkage
             /\ R[e].hidden = dst[e].hidden
             /\ R[e].refs = Redirected(dst[e].refs, {d}, new)
             /\ R[e].named = (dst[e].named /\ (e[2] = n => IsLocal(src[n])))
    <3>1. {d} \subseteq DOMAIN dst
      BY <1>2
    <3>2. Moved(n, {d}, R)
      BY <3>1, MoveIs
    <3> HIDE DEF R
    <3> QED  BY <3>2 DEF Moved
  <2> HIDE DEF R
  <2>3. /\ DOMAIN dst' = DOMAIN R
        /\ \A e \in DOMAIN R : e # new => dst'[e] = R[e]
        /\ dst'[new] = [dst[d] EXCEPT !.refs = Redirected(dst[d].refs, {d}, new)]
    BY <2>1, <2>2
  <2>4. dst[d] \in Composed
    BY <1>2, GlobalOfComposite
  <2>5. Redirected(dst[d].refs, {d}, new) \in SUBSET (Nat \X Names)
    <3>1. new \in Nat \X Names
      BY <1>2, ModulesRead DEF LinkType, src
    <3> HIDE DEF new
    <3> QED  BY <2>4, <3>1 DEF Redirected, Composed
  <2>6. /\ dst'[new] \in Composed /\ Carries(dst'[new], dst[d])
        /\ dst'[new].linkage = dst[d].linkage /\ dst'[new].hidden = dst[d].hidden
        /\ dst'[new].named = dst[d].named /\ dst'[new].refs = Redirected(dst[d].refs, {d}, new)
    BY <2>3, <2>4, <2>5 DEF Composed, Carries
  <2>7. dst' \in [DOMAIN dst' -> Composed]
    BY <2>1, <2>2, <2>3, <2>6
  <2>8. MoveEffect(n, {d})
    BY <1>2, <2>1, <2>2, <2>3, <2>7, LinkIs DEF MoveEffect
  <2> QED  BY <1>3, <2>1, <2>6, <2>8 DEF AppendEffect
<1>4. CASE ~(src[n].linkage = "appending" /\ dst[d].linkage = "appending" /\ src[n].hidden = dst[d].hidden)
  <2>1. pc' = "failed" /\ dst' = dst /\ map' = map /\ skip' = skip
    BY <1>1, <1>4
  <2>2. \E e \in LinkedTo(n) :
          /\ "appending" \in {src[n].linkage, dst[e].linkage}
          /\ \/ src[n].linkage # "appending" \/ dst[e].linkage # "appending"
             \/ src[n].hidden # dst[e].hidden
    <3>1. LinkedTo(n) = {d}
      <4>1. \A e \in LinkedTo(n) : e \in DOMAIN dst /\ dst[e].named /\ e[2] = n
        BY DEF LinkedTo, NamedValue
      <4> QED  BY <1>1, <4>1 DEF LinkInv, Running, NameInv
    <3> QED  BY <1>4, <3>1
  <2> QED  BY <2>1, <2>2 DEF FailEffect
<1> QED  BY <1>3, <1>4

(* The first loop takes one name and does one of five things with it.       *)
LEMMA PrototypeIs ==
  ASSUME LinkInv, Prototype
  PROVE  /\ pc = "prototypes"
         /\ input' = input /\ mods' = mods /\ lazy' = lazy
         /\ \E n \in todo :
              /\ todo' = todo \ {n}
              /\ \/ FailEffect(n) \/ WaitEffect(n)
                 \/ Plain(n) /\ ((\E d : KeepEffect(n, d)) \/ BringEffect(n))
                 \/ \E d : AppendEffect(n, d)
<1>1. pc = "prototypes" /\ input' = input /\ mods' = mods /\ lazy' = lazy
  BY DEF Prototype
<1>2. PICK n \in todo :
        /\ LinkGlobalProto(n) \/ LinkFunctionProto(n) \/ LinkAliasProto(n)
        /\ todo' = todo \ {n}
  BY DEF Prototype, PrototypeTurn
<1>3. ASSUME LinkPrototype(n), Plain(n)
      PROVE  FailEffect(n) \/ (\E d : KeepEffect(n, d)) \/ BringEffect(n)
  <2>1. ASSUME MultipleDefinition(n) PROVE FailEffect(n)
    BY <1>3, <2>1 DEF MultipleDefinition, FailEffect
  <2> QED  BY <1>1, <1>3, <2>1, KeepIs, BringIs DEF LinkPrototype
<1>4. CASE LinkGlobalProto(n)
  <2>1. CASE \E d \in LinkedTo(n) : "appending" \in {dst[d].linkage, src[n].linkage}
    BY <1>1, <1>2, <1>4, <2>1, AppendIs DEF LinkGlobalProto
  <2>2. CASE ~\E d \in LinkedTo(n) : "appending" \in {dst[d].linkage, src[n].linkage}
    <3>1. LinkPrototype(n) /\ Plain(n)
      BY <1>4, <2>2 DEF LinkGlobalProto, Plain
    <3> QED  BY <1>1, <1>2, <1>3, <3>1
  <2> QED  BY <2>1, <2>2
<1>5. CASE LinkFunctionProto(n)
  <2>1. Plain(n)
    BY <1>5 DEF LinkFunctionProto, Plain
  <2>2. CASE Lazily(n)
    <3>1. WaitEffect(n)
      BY <1>5, <2>2 DEF LinkFunctionProto, Lazily, WaitEffect, MayWait
    <3> QED  BY <1>1, <1>2, <3>1
  <2>3. CASE ~Lazily(n)
    BY <1>1, <1>2, <1>3, <1>5, <2>1, <2>3 DEF LinkFunctionProto
  <2> QED  BY <2>2, <2>3
<1>6. CASE LinkAliasProto(n)
  <2>1. LinkPrototype(n) /\ Plain(n)
    BY <1>6 DEF LinkAliasProto, Plain
  <2> QED  BY <1>1, <1>2, <1>3, <2>1
<1> QED  BY <1>2, <1>4, <1>5, <1>6
(* n's contents come over to what it was linked to, with the functions that *)
(* have waited and are mentioned in them.                                   *)
FillEffect(n) ==
  /\ \A m \in Needed(n) :
       m \in skip /\ MayWait(src[m]) /\ LinkedTo(m) = {} /\ <<cur, m>> \notin DOMAIN dst
  /\ DOMAIN dst' = DOMAIN dst \cup ({cur} \X Needed(n)) /\ dst' \in [DOMAIN dst' -> Composed]
  /\ \A e \in DOMAIN dst :
       /\ dst'[e].level = dst[e].level /\ dst'[e].import = dst[e].import
       /\ dst'[e].linkage = dst[e].linkage /\ dst'[e].hidden = dst[e].hidden
       /\ dst'[e].named = (dst[e].named /\ (e[2] \in Needed(n) => IsLocal(src[e[2]])))
       /\ IF e = map[n]
            THEN /\ dst'[e].from = Append(dst[e].from, cur)
                 /\ dst'[e].refs = dst[e].refs \cup { map'[m] : m \in src[n].refs }
            ELSE dst'[e].from = dst[e].from /\ dst'[e].refs = dst[e].refs
  /\ \A m \in Needed(n) :
       LET new == dst'[<<cur, m>>]
       IN /\ new.linkage = src[m].linkage /\ new.level = src[m].level /\ ~new.import
          /\ new.from = <<>> /\ new.refs = {}
          /\ new.named = (IsLocal(src[m]) => NamedValue(m) = {})
  /\ map' = [m \in DOMAIN map' |-> map'[m]]
  /\ DOMAIN map' = DOMAIN map \cup Needed(n)
  /\ \A m \in DOMAIN map : map'[m] = map[m]
  /\ \A m \in Needed(n) : map'[m] = <<cur, m>>

(* MapContents does that.                                                   *)
LEMMA FillIs ==
  ASSUME LinkInv, pc \in {"contents", "lazy"}, NEW n \in DOMAIN map, NEW waiting,
         MapContents(n, waiting)
  PROVE  FillEffect(n) /\ lazy' = waiting \cup Needed(n)
<1> DEFINE S == Needed(n)
           W == WithNew(S)
           t == map[n]
           linked == [ m \in DOMAIN map \cup S |-> IF m \in DOMAIN map THEN map[m] ELSE <<cur, m>> ]
           refs == { linked[m] : m \in src[n].refs }
<1>1. /\ LinkType /\ MapInv /\ cur > 1 /\ cur \in Nat /\ IsModule(src) /\ DOMAIN src \subseteq Names
      /\ Coming = {} /\ n \in DOMAIN src
  <2>1. LinkType /\ MapInv /\ cur > 1 /\ Coming = {}
    BY DEF LinkInv, LinkType, Running, Coming
  <2>2. n \in DOMAIN src
    BY <2>1 DEF LinkType, MapType
  <2> QED  BY <2>1, <2>2, ModulesRead DEF LinkType, src
<1>2. src[n].refs \subseteq DOMAIN src /\ S \subseteq DOMAIN src
  BY <1>1, GlobalOfModule DEF Needed
<1>3. ASSUME NEW m \in S
      PROVE  m \in skip /\ MayWait(src[m]) /\ LinkedTo(m) = {} /\ <<cur, m>> \notin DOMAIN dst
  <2>1. m \in skip \ DOMAIN map
    BY <1>1, <1>2 DEF MapInv, Needed
  <2> QED  BY <1>1, <1>2, <2>1 DEF MapInv
<1>4. /\ map' = linked
      /\ dst' = [W EXCEPT ![t].from = Append(@, cur), ![t].refs = @ \cup refs]
      /\ lazy' = waiting \cup S
  BY DEF MapContents
<1>5. t \in DOMAIN dst /\ map \in [DOMAIN map -> DOMAIN dst] /\ DOMAIN dst \subseteq Nat \X Names
  BY <1>1 DEF LinkType, MapType, CompositeType
<1>6. /\ DOMAIN W = DOMAIN dst \cup ({cur} \X S) /\ W \in [DOMAIN W -> Composed]
      /\ \A d \in DOMAIN dst :
           /\ Carries(W[d], dst[d]) /\ W[d].linkage = dst[d].linkage
           /\ W[d].hidden = dst[d].hidden /\ W[d].refs = dst[d].refs
           /\ W[d].named = (dst[d].named /\ (d[2] \in S => IsLocal(src[d[2]])))
      /\ \A m \in S : <<cur, m>> \notin DOMAIN dst => W[<<cur, m>>] = NewGlobal(m)
  BY <1>1, <1>2, WithNewIs
<1>7. refs \in SUBSET (Nat \X Names)
  <2> SUFFICES ASSUME NEW m \in src[n].refs PROVE linked[m] \in Nat \X Names
    OBVIOUS
  <2>1. m \in Names /\ m \in DOMAIN map \cup S
    BY <1>1, <1>2 DEF Needed
  <2>2. map[m] \in Nat \X Names \/ m \notin DOMAIN map
    BY <1>5
  <2> QED  BY <1>1, <2>1, <2>2
<1>8. refs = { map'[m] : m \in src[n].refs }
  BY <1>4
<1> HIDE DEF W, t, linked, refs
<1>9. t \in DOMAIN W /\ W[t] \in Composed
  BY <1>5, <1>6
<1>10. /\ DOMAIN dst' = DOMAIN W
       /\ \A e \in DOMAIN W : e # t => dst'[e] = W[e]
       /\ dst'[t] = [[W[t] EXCEPT !.from = Append(W[t].from, cur)] EXCEPT !.refs = W[t].refs \cup refs]
  BY <1>4, <1>6, <1>9 DEF Composed
<1>11. /\ dst'[t] \in Composed /\ dst'[t].level = W[t].level /\ dst'[t].import = W[t].import
       /\ dst'[t].linkage = W[t].linkage /\ dst'[t].hidden = W[t].hidden /\ dst'[t].named = W[t].named
       /\ dst'[t].from = Append(W[t].from, cur) /\ dst'[t].refs = W[t].refs \cup refs
  <2>1. Append(W[t].from, cur) \in Seq(Nat) /\ W[t].refs \cup refs \in SUBSET (Nat \X Names)
    BY <1>1, <1>7, <1>9 DEF Composed
  <2> QED  BY <1>9, <1>10, <2>1 DEF Composed
<1>12. dst' \in [DOMAIN dst' -> Composed]
  BY <1>4, <1>6, <1>10, <1>11
<1>13. ASSUME NEW e \in DOMAIN dst
       PROVE  /\ dst'[e].level = dst[e].level /\ dst'[e].import = dst[e].import
              /\ dst'[e].linkage = dst[e].linkage /\ dst'[e].hidden = dst[e].hidden
              /\ dst'[e].named = (dst[e].named /\ (e[2] \in S => IsLocal(src[e[2]])))
              /\ IF e = t
                   THEN /\ dst'[e].from = Append(dst[e].from, cur)
                        /\ dst'[e].refs = dst[e].refs \cup { map'[m] : m \in src[n].refs }
                   ELSE dst'[e].from = dst[e].from /\ dst'[e].refs = dst[e].refs
  <2>1. /\ e \in DOMAIN W /\ W[e].level = dst[e].level /\ W[e].import = dst[e].import
        /\ W[e].from = dst[e].from /\ W[e].linkage = dst[e].linkage /\ W[e].hidden = dst[e].hidden
        /\ W[e].refs = dst[e].refs /\ W[e].named = (dst[e].named /\ (e[2] \in S => IsLocal(src[e[2]])))
    BY <1>6 DEF Carries
  <2>2. CASE e = t
    BY <1>8, <1>11, <2>1, <2>2
  <2>3. CASE e # t
    BY <1>10, <2>1, <2>3
  <2> QED  BY <2>2, <2>3
<1>14. ASSUME NEW m \in S
       PROVE  /\ dst'[<<cur, m>>].linkage = src[m].linkage /\ dst'[<<cur, m>>].level = src[m].level
              /\ ~dst'[<<cur, m>>].import
              /\ dst'[<<cur, m>>].from = <<>> /\ dst'[<<cur, m>>].refs = {}
              /\ dst'[<<cur, m>>].named = (IsLocal(src[m]) => NamedValue(m) = {})
  <2>1. <<cur, m>> \in DOMAIN W /\ <<cur, m>> # t /\ W[<<cur, m>>] = NewGlobal(m)
    BY <1>3, <1>5, <1>6
  <2>2. dst'[<<cur, m>>] = NewGlobal(m)
    BY <1>10, <2>1
  <2> QED  BY <2>2 DEF NewGlobal
<1>15. /\ map' = [m \in DOMAIN map' |-> map'[m]]
       /\ DOMAIN map' = DOMAIN map \cup S
       /\ \A m \in DOMAIN map : map'[m] = map[m]
       /\ \A m \in S : map'[m] = <<cur, m>>
  BY <1>4 DEF linked, Needed
<1> QED  BY <1>3, <1>4, <1>6, <1>10, <1>12, <1>13, <1>14, <1>15 DEF FillEffect, t
-----------------------------------------------------------------------------
(* Types, and that nothing dangles.                                         *)

(* What LinkType says about the loops' variables, spelled out.              *)
LEMMA RunningFacts ==
  ASSUME LinkInv, pc \in {"prototypes", "contents", "lazy"}
  PROVE  /\ LinkType /\ MapInv /\ LoopInv /\ NameInv /\ LinkageInv /\ FromInv /\ SymbolInv /\ RefsInv
         /\ cur \in Nat /\ cur > 1 /\ IsModule(src) /\ DOMAIN src \subseteq Names
         /\ DOMAIN mods = 1 .. cur
         /\ DOMAIN map \subseteq DOMAIN src /\ skip \subseteq DOMAIN src
         /\ lazy \subseteq DOMAIN src /\ todo \subseteq DOMAIN src
         /\ map \in [DOMAIN map -> DOMAIN dst]
         /\ \A n \in DOMAIN map : map[n] \in DOMAIN dst /\ map[n][2] = n
<1>1. /\ LinkType /\ cur > 1 /\ MapInv /\ LoopInv /\ NameInv /\ LinkageInv /\ FromInv /\ SymbolInv
      /\ RefsInv
  BY DEF LinkInv, LinkType, Running
<1>2. mods \in Seq(Readable) /\ MapType
  BY <1>1 DEF LinkType
<1> QED  BY <1>1, <1>2, ModulesRead DEF src, MapType

(* The globals a name is linked to have that name, and are seen.            *)
LEMMA LinkedIsNamed ==
  ASSUME NEW n, NEW d \in LinkedTo(n)
  PROVE  d \in DOMAIN dst /\ d[2] = n /\ dst[d].named /\ ~IsLocal(src[n]) /\ ~IsLocal(dst[d])
  BY DEF LinkedTo, NamedValue

(* While a module is being linked the modules stay what they are.           *)
LEMMA SameModules ==
  ASSUME mods' = mods
  PROVE  /\ cur' = cur /\ src' = src /\ Known' = Known
         /\ \A n : /\ Having(n)' = Having(n) /\ (ImportSpoils(n)' <=> ImportSpoils(n))
                   /\ (MixesKinds(n)' <=> MixesKinds(n)) /\ (Conflicting(n)' <=> Conflicting(n))
         /\ \A i, n : \A S : Defining(n, S)' = Defining(n, S)
  BY DEF cur, src, Known, Having, ImportSpoils, MixesKinds, Conflicting, Defining

(* Keeping the composite's global keeps the types.                          *)
LEMMA KeepType ==
  ASSUME LinkInv, pc = "prototypes", NEW n \in todo, NEW d, KeepEffect(n, d),
         mods' = mods, todo' = todo \ {n}, lazy' = lazy
  PROVE  CompositeType' /\ MapType'
<1>1. d \in DOMAIN dst /\ d[2] = n /\ cur' = cur /\ src' = src /\ n \in DOMAIN src
  BY LinkedIsNamed, NotYetLinked, SameModules DEF KeepEffect
<1>2. CompositeType'
  <2>1. ASSUME NEW e \in DOMAIN dst
        PROVE  /\ e \in (1 .. cur) \X Names /\ e[2] \in DOMAIN mods[e[1]]
               /\ dst'[e].refs \subseteq DOMAIN dst
    <3>1. dst'[e].refs = dst[e].refs
      BY DEF KeepEffect
    <3> QED  BY <3>1 DEF LinkInv, LinkType, CompositeType
  <2> QED  BY <1>1, <2>1 DEF CompositeType, KeepEffect
<1>3. MapType'
  <2>1. /\ map' = [m \in DOMAIN map' |-> map'[m]]
        /\ DOMAIN map' = DOMAIN map \cup {n} /\ map'[n] = d /\ \A m \in DOMAIN map : m # n => map'[m] = map[m]
        /\ skip' = skip \cup {n} /\ DOMAIN dst' = DOMAIN dst
    BY DEF KeepEffect, Links
  <2>2. \A m \in DOMAIN map' : map'[m] \in DOMAIN dst /\ map'[m][2] = m
    BY <1>1, <2>1, RunningFacts
  <2>3. (DOMAIN map' \cup skip' \cup lazy' \cup todo') \subseteq DOMAIN src
    BY <1>1, <2>1, RunningFacts
  <2> QED  BY <1>1, <2>1, <2>2, <2>3, RunningFacts DEF MapType
<1> QED  BY <1>2, <1>3

(* Replacing globals keeps the types: nothing mentions what is erased, and  *)
(* the map is about other names.                                            *)
LEMMA MoveType ==
  ASSUME LinkInv, pc = "prototypes", NEW n \in todo, NEW D, D \subseteq LinkedTo(n), MoveEffect(n, D),
         dst'[<<cur, n>>].refs \subseteq DOMAIN dst',
         mods' = mods, todo' = todo \ {n}, lazy' = lazy, skip' \subseteq skip \cup {n}
  PROVE  CompositeType' /\ MapType'
<1> DEFINE new == <<cur, n>>
<1>1. /\ cur' = cur /\ src' = src /\ n \in DOMAIN src /\ cur \in Nat /\ cur > 1
      /\ DOMAIN src \subseteq Names /\ new \in (1 .. cur) \X Names /\ new[1] = cur /\ new[2] = n
  BY NotYetLinked, RunningFacts, SameModules
<1>2. \A d \in D : d[2] = n
  BY LinkedIsNamed
<1>3. DOMAIN dst' = (DOMAIN dst \ D) \cup {new}
  BY DEF MoveEffect
<1>4. CompositeType'
  <2>1. ASSUME NEW e \in DOMAIN dst \ D
        PROVE  /\ e \in (1 .. cur) \X Names /\ e[2] \in DOMAIN mods[e[1]]
               /\ dst'[e].refs \subseteq DOMAIN dst'
    <3>1. dst'[e].refs = Redirected(dst[e].refs, D, new)
      BY DEF MoveEffect
    <3>2. e \in (1 .. cur) \X Names /\ e[2] \in DOMAIN mods[e[1]] /\ dst[e].refs \subseteq DOMAIN dst
      BY DEF LinkInv, LinkType, CompositeType
    <3> QED  BY <1>3, <3>1, <3>2 DEF Redirected
  <2>2. new[2] \in DOMAIN mods[new[1]]
    BY <1>1 DEF src
  <2>3. dst' \in [DOMAIN dst' -> Composed]
    BY DEF MoveEffect
  <2> HIDE DEF new
  <2>4. \A e \in DOMAIN dst' :
          /\ e \in (1 .. cur) \X Names /\ e[2] \in DOMAIN mods[e[1]] /\ dst'[e].refs \subseteq DOMAIN dst'
    BY <1>1, <1>3, <2>1, <2>2 DEF new
  <2> QED  BY <1>1, <2>3, <2>4 DEF CompositeType
<1>5. MapType'
  <2>1. /\ map' = [m \in DOMAIN map' |-> map'[m]]
        /\ DOMAIN map' = DOMAIN map \cup {n} /\ map'[n] = new /\ \A m \in DOMAIN map : m # n => map'[m] = map[m]
    BY DEF MoveEffect, Links
  <2>2. \A m \in DOMAIN map : m # n /\ map[m] \in DOMAIN dst /\ map[m][2] = m
    BY NotYetLinked, RunningFacts
  <2>3. \A m \in DOMAIN map' : map'[m] \in DOMAIN dst' /\ map'[m][2] = m
    BY <1>1, <1>2, <1>3, <2>1, <2>2
  <2>4. (DOMAIN map' \cup skip' \cup lazy' \cup todo') \subseteq DOMAIN src
    BY <1>1, <2>1, RunningFacts
  <2> QED  BY <1>1, <2>1, <2>3, <2>4 DEF MapType
<1> QED  BY <1>4, <1>5

(* Filling in contents keeps the types.                                     *)
LEMMA FillType ==
  ASSUME LinkInv, pc \in {"contents", "lazy"}, NEW n \in DOMAIN map, FillEffect(n),
         mods' = mods, todo' \subseteq todo, lazy' \subseteq lazy \cup Needed(n), skip' = skip
  PROVE  CompositeType' /\ MapType'
<1> DEFINE S == Needed(n)
<1>1. /\ cur' = cur /\ src' = src /\ n \in DOMAIN src /\ cur \in Nat /\ cur > 1
      /\ DOMAIN src \subseteq Names /\ IsModule(src) /\ map[n] \in DOMAIN dst
  BY RunningFacts, SameModules
<1>2. src[n].refs \subseteq DOMAIN src /\ S \subseteq DOMAIN src
  BY <1>1, GlobalOfModule DEF Needed
<1>3. /\ DOMAIN dst' = DOMAIN dst \cup ({cur} \X S) /\ dst' \in [DOMAIN dst' -> Composed]
      /\ map' = [m \in DOMAIN map' |-> map'[m]]
      /\ DOMAIN map' = DOMAIN map \cup S /\ \A m \in DOMAIN map : map'[m] = map[m]
      /\ \A m \in S : map'[m] = <<cur, m>>
  BY DEF FillEffect
<1>4. \A m \in DOMAIN map' : map'[m] \in DOMAIN dst' /\ map'[m][2] = m
  <2> SUFFICES ASSUME NEW m \in DOMAIN map' PROVE map'[m] \in DOMAIN dst' /\ map'[m][2] = m
    OBVIOUS
  <2>1. CASE m \in DOMAIN map
    <3>1. map[m] \in DOMAIN dst /\ map[m][2] = m
      BY <2>1, RunningFacts
    <3> QED  BY <1>3, <2>1, <3>1
  <2>2. CASE m \in S
    <3>1. <<cur, m>> \in {cur} \X S /\ map'[m] = <<cur, m>>
      BY <1>3, <2>2
    <3> QED  BY <1>3, <3>1
  <2> QED  BY <1>3, <2>1, <2>2
<1>5. MapType'
  <2>1. (DOMAIN map' \cup skip' \cup lazy' \cup todo') \subseteq DOMAIN src
    BY <1>2, <1>3, RunningFacts
  <2> QED  BY <1>1, <1>3, <1>4, <2>1 DEF MapType
<1>6. CompositeType'
  <2>1. ASSUME NEW e \in DOMAIN dst
        PROVE  /\ e \in (1 .. cur) \X Names /\ e[2] \in DOMAIN mods[e[1]]
               /\ dst'[e].refs \subseteq DOMAIN dst'
    <3>1. e \in (1 .. cur) \X Names /\ e[2] \in DOMAIN mods[e[1]] /\ dst[e].refs \subseteq DOMAIN dst
      BY DEF LinkInv, LinkType, CompositeType
    <3>2. { map'[m] : m \in src[n].refs } \subseteq DOMAIN dst'
      BY <1>2, <1>3, <1>4 DEF Needed
    <3>3. dst'[e].refs \subseteq dst[e].refs \cup { map'[m] : m \in src[n].refs }
      BY DEF FillEffect
    <3> QED  BY <1>3, <3>1, <3>2, <3>3
  <2>2. ASSUME NEW m \in S
        PROVE  LET e == <<cur, m>>
               IN e \in (1 .. cur) \X Names /\ e[2] \in DOMAIN mods[e[1]] /\ dst'[e].refs = {}
    BY <1>1, <1>2 DEF src, FillEffect
  <2>3. \A e \in DOMAIN dst' :
          /\ e \in (1 .. cur) \X Names /\ e[2] \in DOMAIN mods[e[1]] /\ dst'[e].refs \subseteq DOMAIN dst'
    <3> SUFFICES ASSUME NEW e \in DOMAIN dst', e \notin DOMAIN dst
                 PROVE  e \in (1 .. cur) \X Names /\ e[2] \in DOMAIN mods[e[1]] /\ dst'[e].refs \subseteq DOMAIN dst'
      BY <2>1
    <3>1. PICK m \in S : e = <<cur, m>>
      BY <1>3
    <3> QED  BY <2>2, <3>1
  <2> QED  BY <1>1, <1>3, <2>3 DEF CompositeType
<1> QED  BY <1>5, <1>6
(* The first module, as it is, is a composite.                              *)
LEMMA CompositeIs ==
  ASSUME NEW mod, IsModule(mod), DOMAIN mod \subseteq Names
  PROVE  /\ DOMAIN Composite(mod) = {1} \X DOMAIN mod
         /\ Composite(mod) \in [DOMAIN Composite(mod) -> Composed]
         /\ \A n \in DOMAIN mod :
              LET g == Composite(mod)[<<1, n>>]
              IN /\ g.linkage = mod[n].linkage /\ g.level = mod[n].level /\ g.hidden = mod[n].hidden
                 /\ g.import = mod[n].import /\ g.named
                 /\ g.from = (IF mod[n].def THEN <<1>> ELSE <<>>)
                 /\ g.refs = {1} \X mod[n].refs /\ g.refs \subseteq {1} \X DOMAIN mod
<1>1. ASSUME NEW n \in DOMAIN mod
      PROVE  LET g == Composite(mod)[<<1, n>>]
             IN /\ g \in Composed
                /\ g.linkage = mod[n].linkage /\ g.level = mod[n].level /\ g.hidden = mod[n].hidden
                /\ g.import = mod[n].import /\ g.named
                /\ g.from = (IF mod[n].def THEN <<1>> ELSE <<>>)
                /\ g.refs = {1} \X mod[n].refs /\ g.refs \subseteq {1} \X DOMAIN mod
  <2> DEFINE g == Composite(mod)[<<1, n>>]
             from == IF mod[n].def THEN <<1>> ELSE <<>>
  <2>1. /\ mod[n].linkage \in Linkage /\ mod[n].level \in Nat /\ mod[n].hidden \in BOOLEAN
        /\ mod[n].import \in BOOLEAN /\ mod[n].refs \subseteq DOMAIN mod
    BY GlobalOfModule
  <2>2. g = [linkage |-> mod[n].linkage, level |-> mod[n].level, hidden |-> mod[n].hidden,
             import |-> mod[n].import, from |-> from, refs |-> {1} \X mod[n].refs, named |-> TRUE]
    BY DEF Composite
  <2>3. from \in Seq(Nat)
    OBVIOUS
  <2>4. {1} \X mod[n].refs \subseteq {1} \X DOMAIN mod /\ {1} \X mod[n].refs \in SUBSET (Nat \X Names)
    BY <2>1
  <2> HIDE DEF g, from
  <2>5. /\ g \in Composed
        /\ g.linkage = mod[n].linkage /\ g.level = mod[n].level /\ g.hidden = mod[n].hidden
        /\ g.import = mod[n].import /\ g.named /\ g.from = from /\ g.refs = {1} \X mod[n].refs
    BY <2>1, <2>2, <2>3, <2>4 DEF Composed
  <2> QED  BY <2>4, <2>5 DEF g, from
<1>2. DOMAIN Composite(mod) = {1} \X DOMAIN mod
  BY DEF Composite
<1>3. \A d \in DOMAIN Composite(mod) : Composite(mod)[d] \in Composed
  BY <1>1, <1>2
<1>4. Composite(mod) \in [DOMAIN Composite(mod) -> Composed]
  BY <1>3 DEF Composite
<1> QED  BY <1>1, <1>2, <1>4

(* Reading a file adds its module; the first one is the composite.          *)
LEMMA ReadIs ==
  ASSUME LinkInv, ReadFile
  PROVE  /\ pc = "read" /\ cur \in Nat /\ cur' = cur + 1 /\ cur' <= Len(input)
         /\ mods' \in Seq(Readable) /\ input' = input
         /\ \A i \in 1 .. cur : mods'[i] = mods[i]
         /\ src' = mods'[cur + 1] /\ IsModule(src') /\ DOMAIN src' \subseteq Names
         /\ map' = <<>> /\ DOMAIN map' = {} /\ skip' = {} /\ lazy' = {}
         /\ cur = 0 => dst' = Composite(src') /\ pc' = "read" /\ todo' = todo
         /\ cur > 0 => dst' = dst /\ pc' = "prototypes" /\ todo' = DOMAIN src'
<1>1. /\ pc = "read" /\ cur < Len(input) /\ input' = input
      /\ map' = <<>> /\ skip' = {} /\ lazy' = {}
  BY DEF ReadFile
<1>2. PICK mod \in Readings(input[cur + 1].syms, input[cur + 1].form) :
        /\ mods' = Append(mods, mod)
        /\ IF cur = 0
             THEN dst' = Composite(mod) /\ UNCHANGED <<pc, todo>>
             ELSE pc' = "prototypes" /\ todo' = DOMAIN mod /\ UNCHANGED dst
  BY DEF ReadFile
<1>3. input \in Inputs /\ mods \in Seq(Readable) /\ cur \in Nat
  BY ModulesRead DEF LinkInv, LinkType
<1>4. cur + 1 \in DOMAIN input
  BY <1>1, <1>3, InputsAssumption
<1>5. mod \in Readable
  BY <1>2, <1>3, <1>4 DEF Readable
<1>6. /\ mods' \in Seq(Readable) /\ Len(mods') = Len(mods) + 1
      /\ \A i \in 1 .. Len(mods) : mods'[i] = mods[i]
      /\ mods'[Len(mods) + 1] = mod
  BY <1>2, <1>3, <1>5
<1>7. cur' = cur + 1 /\ src' = mod
  BY <1>6 DEF cur, src
<1>8. IsModule(mod) /\ DOMAIN mod \subseteq Names
  BY <1>5, ReadableIsModule
<1>9. Len(input) \in Nat
  BY <1>3, InputsAssumption
<1> QED  BY <1>1, <1>2, <1>3, <1>6, <1>7, <1>8, <1>9 DEF cur

(* Reading a file keeps the types.                                          *)
LEMMA ReadType ==
  ASSUME LinkInv, ReadFile
  PROVE  LinkType'
<1>1. /\ pc = "read" /\ cur \in Nat /\ cur' = cur + 1 /\ cur' <= Len(input)
      /\ mods' \in Seq(Readable) /\ input' = input
      /\ \A i \in 1 .. cur : mods'[i] = mods[i]
      /\ src' = mods'[cur + 1] /\ IsModule(src') /\ DOMAIN src' \subseteq Names
      /\ map' = <<>> /\ DOMAIN map' = {} /\ skip' = {} /\ lazy' = {}
      /\ cur = 0 => dst' = Composite(src') /\ pc' = "read" /\ todo' = todo
      /\ cur > 0 => dst' = dst /\ pc' = "prototypes" /\ todo' = DOMAIN src'
  BY ReadIs
<1>2. LinkType
  BY DEF LinkInv
<1>3. MapType'
  <2>1. map' \in [DOMAIN map' -> DOMAIN dst']
    BY <1>1
  <2>2. CASE cur = 0
    <3>1. todo = {}
      BY <1>2, <2>2 DEF LinkType, MapType
    <3> QED  BY <1>1, <2>1, <2>2, <3>1 DEF MapType
  <2>3. CASE cur > 0
    BY <1>1, <2>1, <2>3 DEF MapType
  <2> QED  BY <1>1, <2>2, <2>3
<1>4. CompositeType'
  <2>1. CASE cur = 0
    <3> DEFINE C == Composite(src')
    <3>1. /\ DOMAIN C = {1} \X DOMAIN src' /\ C \in [DOMAIN C -> Composed]
          /\ \A n \in DOMAIN src' : C[<<1, n>>].refs \subseteq {1} \X DOMAIN src'
      BY <1>1, CompositeIs
    <3>2. dst' = C /\ cur' = 1 /\ src' = mods'[1]
      BY <1>1, <2>1
    <3> HIDE DEF C
    <3>3. \A d \in DOMAIN dst' :
            d \in (1 .. cur') \X Names /\ d[2] \in DOMAIN mods'[d[1]] /\ dst'[d].refs \subseteq DOMAIN dst'
      BY <1>1, <3>1, <3>2
    <3> QED  BY <3>1, <3>2, <3>3 DEF CompositeType
  <2>2. CASE cur > 0
    <3>1. CompositeType /\ dst' = dst
      BY <1>1, <1>2, <2>2 DEF LinkType
    <3>2. \A d \in DOMAIN dst : d \in (1 .. cur') \X Names /\ d[2] \in DOMAIN mods'[d[1]]
      BY <1>1, <3>1 DEF CompositeType
    <3> QED  BY <3>1, <3>2 DEF CompositeType
  <2> QED  BY <1>1, <2>1, <2>2
<1> QED  BY <1>1, <1>2, <1>3, <1>4 DEF LinkType
(* What has contents to come over was linked to the module's own new global. *)
LEMMA ContentsAreOwn ==
  ASSUME LinkInv, pc \in {"prototypes", "contents", "lazy"}, Coming = {}, NEW n \in WithContents \cup lazy
  PROVE  n \in DOMAIN map /\ map[n] = <<cur, n>> /\ src[n].def
<1>1. /\ MapInv /\ LoopInv /\ IsModule(src) /\ skip \subseteq DOMAIN src /\ DOMAIN map \subseteq DOMAIN src
  BY RunningFacts
<1>2. CASE n \in lazy
  <2>1. n \in DOMAIN map /\ map[n] = <<cur, n>> /\ MayWait(src[n])
    BY <1>1, <1>2 DEF LoopInv
  <2>2. src[n].def
    BY <1>1, <2>1, GlobalOfModule DEF MayWait
  <2> QED  BY <2>1, <2>2
<1>3. CASE n \in DOMAIN src \ skip /\ src[n].def
  BY <1>1, <1>3 DEF MapInv
<1>4. CASE n \in Appended
  <2>1. n \in skip /\ n \in DOMAIN src /\ src[n].linkage = "appending"
    BY <1>1, <1>4 DEF Appended
  <2>2. n \in DOMAIN map
    BY <1>1, <2>1 DEF MapInv, MayWait
  <2>3. src[n].def
    BY <1>1, <2>1, GlobalOfModule
  <2> QED  BY <1>1, <2>1, <2>2, <2>3 DEF MapInv
<1> QED  BY <1>2, <1>3, <1>4 DEF WithContents

(* The loops of the contents fill in one global after another.              *)
LEMMA ContentsIs ==
  ASSUME LinkInv, LinkContents
  PROVE  /\ pc = "contents" /\ input' = input /\ pc' = pc /\ mods' = mods /\ skip' = skip
         /\ \E n \in todo :
              /\ n \in DOMAIN map /\ map[n] = <<cur, n>> /\ src[n].def
              /\ FillEffect(n) /\ lazy' = lazy \cup Needed(n) /\ todo' = todo \ {n}
<1>1. pc = "contents" /\ input' = input /\ pc' = pc /\ mods' = mods /\ skip' = skip
  BY DEF LinkContents
<1>2. PICK n \in todo : MapContents(n, lazy) /\ todo' = todo \ {n}
  BY DEF LinkContents, ContentsTurn
<1>3. n \in WithContents /\ Coming = {}
  BY <1>1, RunningFacts DEF LoopInv, Coming
<1>4. n \in DOMAIN map /\ map[n] = <<cur, n>> /\ src[n].def
  BY <1>1, <1>3, ContentsAreOwn
<1>5. FillEffect(n) /\ lazy' = lazy \cup Needed(n)
  BY <1>1, <1>2, <1>4, FillIs
<1> QED  BY <1>1, <1>2, <1>4, <1>5

(* So does the loop of the functions that have waited.                      *)
LEMMA LazilyIs ==
  ASSUME LinkInv, LinkLazily
  PROVE  /\ pc = "lazy" /\ input' = input /\ pc' = pc /\ mods' = mods /\ skip' = skip /\ todo' = todo
         /\ \E n \in lazy :
              /\ n \in DOMAIN map /\ map[n] = <<cur, n>> /\ src[n].def
              /\ FillEffect(n) /\ lazy' = (lazy \ {n}) \cup Needed(n)
<1>1. pc = "lazy" /\ input' = input /\ pc' = pc /\ mods' = mods /\ skip' = skip /\ todo' = todo
  BY DEF LinkLazily
<1>2. PICK n \in lazy : MapContents(n, lazy \ {n})
  BY DEF LinkLazily
<1>3. Coming = {}
  BY <1>1 DEF Coming
<1>4. n \in DOMAIN map /\ map[n] = <<cur, n>> /\ src[n].def
  BY <1>1, <1>2, <1>3, ContentsAreOwn
<1>5. FillEffect(n) /\ lazy' = (lazy \ {n}) \cup Needed(n)
  BY <1>1, <1>2, <1>4, FillIs
<1> QED  BY <1>1, <1>2, <1>4, <1>5

(* Between the loops nothing is made.                                       *)
Turn ==
  /\ \/ pc = "prototypes" /\ todo = {} /\ pc' = "contents" /\ todo' = WithContents
     \/ pc = "contents" /\ todo = {} /\ pc' = "lazy" /\ todo' = todo
     \/ pc = "lazy" /\ lazy = {} /\ pc' = "read" /\ todo' = todo
  /\ UNCHANGED <<input, mods, dst, map, skip, lazy>>

(* From one loop to the next.                                               *)
LEMMA TurnIs ==
  ASSUME PrototypesDone \/ ContentsDone \/ ModuleDone
  PROVE  Turn
  BY DEF PrototypesDone, ContentsDone, ModuleDone, Turn

(* The first loop's steps keep the types.                                   *)
LEMMA PrototypeType ==
  ASSUME LinkInv, Prototype
  PROVE  CompositeType' /\ MapType'
<1>1. /\ pc = "prototypes" /\ input' = input /\ mods' = mods /\ lazy' = lazy
  BY PrototypeIs
<1>2. PICK n \in todo :
        /\ todo' = todo \ {n}
        /\ \/ FailEffect(n) \/ WaitEffect(n)
           \/ Plain(n) /\ ((\E d : KeepEffect(n, d)) \/ BringEffect(n))
           \/ \E d : AppendEffect(n, d)
  BY PrototypeIs
<1>3. cur' = cur /\ src' = src /\ n \in DOMAIN src /\ cur > 1 /\ CompositeType /\ MapType
  BY <1>1, NotYetLinked, SameModules DEF LinkInv, LinkType
<1>4. CASE FailEffect(n) \/ WaitEffect(n)
  <2>1. dst' = dst /\ map' = map /\ skip' \subseteq skip \cup {n}
    BY <1>4 DEF FailEffect, WaitEffect
  <2> QED  BY <1>1, <1>2, <1>3, <2>1 DEF CompositeType, MapType
<1>5. CASE \E d : KeepEffect(n, d)
  BY <1>1, <1>2, <1>5, KeepType
<1>6. CASE BringEffect(n)
  <2>1. MoveEffect(n, LinkedTo(n)) /\ dst'[<<cur, n>>].refs = {} /\ skip' = skip
    BY <1>6 DEF BringEffect
  <2> QED  BY <1>1, <1>2, <2>1, MoveType
<1>7. CASE \E d : AppendEffect(n, d)
  <2>1. PICK d : AppendEffect(n, d)
    BY <1>7
  <2>2. /\ {d} \subseteq LinkedTo(n) /\ MoveEffect(n, {d}) /\ skip' = skip \cup {n}
        /\ dst'[<<cur, n>>].refs = Redirected(dst[d].refs, {d}, <<cur, n>>)
    BY <2>1 DEF AppendEffect
  <2>3. dst'[<<cur, n>>].refs \subseteq DOMAIN dst'
    <3>1. d \in DOMAIN dst /\ dst[d].refs \subseteq DOMAIN dst
      BY <1>3, <2>2, LinkedIsNamed DEF CompositeType
    <3>2. DOMAIN dst' = (DOMAIN dst \ {d}) \cup {<<cur, n>>}
      BY <2>2 DEF MoveEffect
    <3> QED  BY <2>2, <3>1, <3>2 DEF Redirected
  <2> QED  BY <1>1, <1>2, <2>2, <2>3, MoveType
<1> QED  BY <1>2, <1>4, <1>5, <1>6, <1>7

(* Every step keeps the types.                                              *)
LEMMA TypeStep ==
  ASSUME LinkInv, [Next]_vars
  PROVE  LinkType'
<1>1. LinkType
  BY DEF LinkInv
<1>2. CASE ReadFile
  BY <1>2, ReadType
<1>3. CASE RejectFile
  <2>1. pc' = "failed" /\ UNCHANGED <<input, mods, dst, map, skip, lazy, todo>>
    BY <1>3 DEF RejectFile
  <2>2. cur' = cur /\ src' = src
    BY <2>1, SameModules
  <2> QED  BY <1>1, <2>1, <2>2 DEF LinkType, CompositeType, MapType
<1>4. CASE Prototype
  <2>1. CompositeType' /\ MapType'
    BY <1>4, PrototypeType
  <2>2. input' = input /\ mods' = mods /\ pc = "prototypes" /\ pc' \in {"prototypes", "failed"}
    BY <1>4, PrototypeIs DEF FailEffect, WaitEffect, KeepEffect, BringEffect, MoveEffect, AppendEffect
  <2>3. cur' = cur
    BY <2>2, SameModules
  <2> QED  BY <1>1, <2>1, <2>2, <2>3 DEF LinkType
<1>5. CASE PrototypesDone \/ ContentsDone \/ ModuleDone
  <2>1. Turn
    BY <1>5, TurnIs
  <2>2. cur' = cur /\ src' = src /\ pc \in {"prototypes", "contents", "lazy"}
    BY <2>1, SameModules DEF Turn
  <2>3. todo' \subseteq DOMAIN src
    BY <2>1, <2>2, RunningFacts DEF Turn, WithContents, Appended
  <2>4. CompositeType'
    BY <1>1, <2>1, <2>2 DEF Turn, LinkType, CompositeType
  <2>5. MapType'
    <3>1. MapType /\ map' = map /\ skip' = skip /\ lazy' = lazy /\ dst' = dst /\ cur > 1
      BY <1>1, <2>1, <2>2, RunningFacts DEF Turn, LinkType
    <3> QED  BY <2>2, <2>3, <3>1 DEF MapType
  <2> QED  BY <1>1, <2>1, <2>2, <2>4, <2>5 DEF Turn, LinkType
<1>6. CASE LinkContents
  <2>1. /\ pc = "contents" /\ input' = input /\ pc' = pc /\ mods' = mods /\ skip' = skip
    BY <1>6, ContentsIs
  <2>2. PICK n \in todo : n \in DOMAIN map /\ FillEffect(n) /\ lazy' = lazy \cup Needed(n) /\ todo' = todo \ {n}
    BY <1>6, ContentsIs
  <2>3. CompositeType' /\ MapType' /\ cur' = cur
    BY <2>1, <2>2, FillType, SameModules
  <2> QED  BY <1>1, <2>1, <2>3 DEF LinkType
<1>7. CASE LinkLazily
  <2>1. /\ pc = "lazy" /\ input' = input /\ pc' = pc /\ mods' = mods /\ skip' = skip /\ todo' = todo
    BY <1>7, LazilyIs
  <2>2. PICK n \in lazy : n \in DOMAIN map /\ FillEffect(n) /\ lazy' = (lazy \ {n}) \cup Needed(n)
    BY <1>7, LazilyIs
  <2>3. CompositeType' /\ MapType' /\ cur' = cur
    BY <2>1, <2>2, FillType, SameModules
  <2> QED  BY <1>1, <2>1, <2>3 DEF LinkType
<1>8. CASE UNCHANGED vars
  <2>1. UNCHANGED vars /\ cur' = cur /\ src' = src
    BY <1>8, SameModules DEF vars
  <2> QED  BY <1>1, <2>1 DEF vars, LinkType, CompositeType, MapType
<1> QED  BY <1>2, <1>3, <1>4, <1>5, <1>6, <1>7, <1>8 DEF Next, Ended
-----------------------------------------------------------------------------
(* Names and linkages.                                                      *)

(* What a name is linked to is its symbol, if it is seen from outside.      *)
LEMMA LinkedIsSymbol ==
  ASSUME NEW n
  PROVE  LinkedTo(n) = IF IsLocal(src[n]) THEN {} ELSE Symbol(n)
  BY DEF LinkedTo, Symbol

(* A name has one symbol at most.                                           *)
LEMMA OneSymbol ==
  ASSUME NameInv, NEW n, NEW d \in Symbol(n), NEW e \in Symbol(n)
  PROVE  d = e
  BY DEF NameInv, Symbol, NamedValue

(* A global that is kept keeps its linkage, unless an import makes it local. *)
LEMMA KeptIs ==
  ASSUME LinkInv, pc = "prototypes", NEW n \in todo, NEW d, KeepEffect(n, d)
  PROVE  /\ d \in DOMAIN dst /\ d[2] = n /\ d[1] < cur
         /\ \/ dst'[d].linkage = dst[d].linkage
            \/ dst'[d].linkage = "internal" /\ ImportSpoils(n)
<1>1. d \in LinkedTo(n) /\ ~LinkFromSrc(dst[d], src[n]) /\ dst'[d].linkage = KeptLinkage(dst[d], src[n])
  BY DEF KeepEffect
<1>2. d \in DOMAIN dst /\ d[2] = n /\ ~IsLocal(src[n]) /\ ~IsLocal(dst[d])
  BY <1>1, LinkedIsNamed
<1>3. /\ LinkType /\ LinkageInv /\ FromInv /\ cur \in Nat /\ n \in DOMAIN src
      /\ <<cur, n>> \notin DOMAIN dst
  BY RunningFacts, NotYetLinked
<1>4. d[1] \in 1 .. cur /\ d[1] # cur /\ n \in DOMAIN mods[d[1]]
  BY <1>2, <1>3, GlobalOfComposite
<1>5. CASE ~src[n].def /\ src[n].import
  <2>1. dst[d].from # <<>>
    BY <1>1, <1>5 DEF LinkFromSrc, IsDeclaration
  <2>2. Origin(d).def
    BY <1>2, <1>3, <2>1 DEF FromInv, Filled
  <2>3. Origin(d).linkage = dst[d].linkage
    BY <1>2, <1>3 DEF LinkageInv, IsLocal
  <2>4. d[1] \in Having(n) /\ mods[d[1]][n].def
    BY <1>2, <1>4, <2>2, <2>3 DEF Having, IsLocal, Origin
  <2>5. cur \in Having(n) /\ mods[cur][n].import
    BY <1>2, <1>3, <1>4, <1>5 DEF Having, src
  <2>6. ImportSpoils(n)
    BY <1>3, <1>4, <2>4, <2>5 DEF ImportSpoils
  <2> QED  BY <1>1, <1>2, <1>3, <1>4, <1>5, <2>6 DEF KeptLinkage
<1>6. CASE ~(~src[n].def /\ src[n].import)
  BY <1>1, <1>2, <1>3, <1>4, <1>6 DEF KeptLinkage
<1> QED  BY <1>5, <1>6

(* What is the same when a global is brought over and when one is appended  *)
(* to: the new global is n's symbol, if n is seen from outside.             *)
Moves(n, D) ==
  /\ D \subseteq LinkedTo(n) /\ (~IsLocal(src[n]) => D = LinkedTo(n))
  /\ MoveEffect(n, D)
  /\ LET new == dst'[<<cur, n>>]
     IN /\ new.linkage = src[n].linkage /\ ~new.import
        /\ new.named = (IsLocal(src[n]) => NamedValue(n) = {})

(* BringOver and LinkAppendingVarProto do that.                             *)
LEMMA MovesIs ==
  ASSUME LinkInv, pc = "prototypes", NEW n \in todo
  PROVE  /\ BringEffect(n) => Moves(n, LinkedTo(n))
         /\ \A d : AppendEffect(n, d) => Moves(n, {d}) /\ LinkedTo(n) = {d}
<1>1. BringEffect(n) => Moves(n, LinkedTo(n))
  BY DEF BringEffect, Moves
<1>2. ASSUME NEW d, AppendEffect(n, d) PROVE Moves(n, {d}) /\ LinkedTo(n) = {d}
  <2>1. /\ d \in LinkedTo(n) /\ src[n].linkage = "appending" /\ dst[d].linkage = "appending"
        /\ MoveEffect(n, {d}) /\ Carries(dst'[<<cur, n>>], dst[d])
        /\ dst'[<<cur, n>>].linkage = "appending" /\ dst'[<<cur, n>>].named = dst[d].named
    BY <1>2 DEF AppendEffect
  <2>2. LinkType /\ NameInv /\ LinkageInv
    BY RunningFacts
  <2>3. \A e \in LinkedTo(n) : e \in DOMAIN dst /\ e[2] = n /\ dst[e].named
    BY LinkedIsNamed
  <2>4. LinkedTo(n) = {d} /\ ~IsLocal(src[n]) /\ dst[d].named
    BY <2>1, <2>2, <2>3 DEF NameInv, IsLocal
  <2>5. ~dst'[<<cur, n>>].import
    <3>1. d[1] \in 1 .. cur /\ d[2] \in DOMAIN mods[d[1]] /\ IsModule(mods[d[1]])
      BY <2>2, <2>3, <2>4, GlobalOfComposite, ModulesRead DEF LinkType
    <3>2. Origin(d).linkage = "appending"
      BY <2>1, <2>2, <2>3 DEF LinkageInv
    <3>3. ~Origin(d).import
      <4>1. Origin(d).import => Origin(d).linkage \in {"external", "available_externally"}
        BY <3>1, GlobalOfModule DEF Origin
      <4> QED  BY <3>2, <4>1
    <3>4. dst[d].import = FALSE
      <4>1. dst[d].import \in BOOLEAN
        BY <2>2, <2>3, <2>4, GlobalOfComposite
      <4> QED  BY <2>2, <2>3, <2>4, <3>3, <4>1 DEF LinkageInv
    <3> QED  BY <2>1, <3>4 DEF Carries
  <2> QED  BY <2>1, <2>4, <2>5 DEF Moves
<1> QED  BY <1>1, <1>2

(* Keeping a global changes no symbol, unless an import spoils it.          *)
LEMMA KeepSymbol ==
  ASSUME LinkInv, pc = "prototypes", NEW n \in todo, NEW d, KeepEffect(n, d), NEW m,
         m # n \/ ~ImportSpoils(n)
  PROVE  Symbol(m)' = Symbol(m)
<1>1. /\ d \in DOMAIN dst /\ d[2] = n
      /\ dst'[d].linkage = dst[d].linkage \/ (dst'[d].linkage = "internal" /\ ImportSpoils(n))
  BY KeptIs
<1>2. DOMAIN dst' = DOMAIN dst /\ dst'[d].named = dst[d].named
  BY DEF KeepEffect
<1>3. \A e \in DOMAIN dst : e[2] = m => dst'[e].named = dst[e].named /\ dst'[e].linkage = dst[e].linkage
  <2> SUFFICES ASSUME NEW e \in DOMAIN dst, e[2] = m
               PROVE  dst'[e].named = dst[e].named /\ dst'[e].linkage = dst[e].linkage
    OBVIOUS
  <2>1. e # d => dst'[e] = dst[e]
    BY DEF KeepEffect
  <2> QED  BY <1>1, <1>2, <2>1
<1> QED  BY <1>2, <1>3 DEF Symbol, NamedValue, IsLocal

(* The new global is the symbol of its name, and nothing else changes.      *)
LEMMA MoveSymbol ==
  ASSUME LinkInv, pc = "prototypes", NEW n \in todo, NEW D, Moves(n, D), NEW m
  PROVE  Symbol(m)' = IF m = n /\ ~IsLocal(src[n]) THEN {<<cur, n>>} ELSE Symbol(m)
<1> DEFINE new == <<cur, n>>
<1>1. /\ DOMAIN dst' = (DOMAIN dst \ D) \cup {new} /\ new \notin DOMAIN dst /\ new[2] = n
      /\ dst'[new].linkage = src[n].linkage
      /\ dst'[new].named = (IsLocal(src[n]) => NamedValue(n) = {})
  BY NotYetLinked DEF Moves, MoveEffect
<1>2. \A e \in DOMAIN dst \ D :
        /\ dst'[e].linkage = dst[e].linkage
        /\ dst'[e].named = (dst[e].named /\ (e[2] = n => IsLocal(src[n])))
  BY DEF Moves, MoveEffect
<1>3. \A e \in D : e[2] = n /\ ~IsLocal(src[n])
  BY LinkedIsNamed DEF Moves
<1>4. Symbol(m)' = { e \in DOMAIN dst' : e[2] = m /\ dst'[e].named /\ dst'[e].linkage # "internal" }
  BY DEF Symbol, NamedValue, IsLocal
<1>5. Symbol(m) = { e \in DOMAIN dst : e[2] = m /\ dst[e].named /\ dst[e].linkage # "internal" }
  BY DEF Symbol, NamedValue, IsLocal
<1> HIDE DEF new
<1>6. CASE m = n /\ ~IsLocal(src[n])
  <2>1. new \in Symbol(m)'
    BY <1>1, <1>4, <1>6 DEF IsLocal
  <2>2. \A e \in Symbol(m)' : e = new
    BY <1>1, <1>2, <1>4, <1>6
  <2> QED  BY <1>6, <2>1, <2>2 DEF new
<1>7. CASE m = n /\ IsLocal(src[n])
  <2>1. D = {} /\ DOMAIN dst' = DOMAIN dst \cup {new}
    BY <1>1, <1>3, <1>7
  <2>2. \A e \in DOMAIN dst : dst'[e].linkage = dst[e].linkage /\ dst'[e].named = dst[e].named
    <3> SUFFICES ASSUME NEW e \in DOMAIN dst
                 PROVE  dst'[e].linkage = dst[e].linkage /\ dst'[e].named = dst[e].named
      OBVIOUS
    <3>1. dst[e].named \in BOOLEAN
      BY GlobalOfComposite, RunningFacts
    <3> QED  BY <1>2, <1>7, <2>1, <3>1
  <2>3. dst'[new].linkage = "internal"
    BY <1>1, <1>7 DEF IsLocal
  <2> QED  BY <1>4, <1>5, <1>7, <2>1, <2>2, <2>3
<1>8. CASE m # n
  <2>1. \A e \in DOMAIN dst \ D : e[2] = m => dst'[e].linkage = dst[e].linkage /\ dst'[e].named = dst[e].named
    <3> SUFFICES ASSUME NEW e \in DOMAIN dst \ D, e[2] = m
                 PROVE  dst'[e].linkage = dst[e].linkage /\ dst'[e].named = dst[e].named
      OBVIOUS
    <3>1. dst[e].named \in BOOLEAN
      BY GlobalOfComposite, RunningFacts
    <3> QED  BY <1>2, <1>8, <3>1
  <2> QED  BY <1>1, <1>3, <1>4, <1>5, <1>8, <2>1
<1> QED  BY <1>6, <1>7, <1>8

(* A function that has waited becomes the symbol of its name.               *)
LEMMA FillSymbol ==
  ASSUME LinkInv, pc \in {"contents", "lazy"}, NEW n \in DOMAIN map, FillEffect(n), NEW m
  PROVE  Symbol(m)' = IF m \in Needed(n) /\ ~IsLocal(src[m]) THEN {<<cur, m>>} ELSE Symbol(m)
<1> DEFINE S == Needed(n)
<1>1. DOMAIN dst' = DOMAIN dst \cup ({cur} \X S)
  BY DEF FillEffect
<1>2. \A e \in DOMAIN dst :
        /\ dst'[e].linkage = dst[e].linkage
        /\ dst'[e].named = (dst[e].named /\ (e[2] \in S => IsLocal(src[e[2]])))
  BY DEF FillEffect
<1>3. \A k \in S : /\ LinkedTo(k) = {} /\ <<cur, k>> \notin DOMAIN dst
                   /\ dst'[<<cur, k>>].linkage = src[k].linkage
                   /\ dst'[<<cur, k>>].named = (IsLocal(src[k]) => NamedValue(k) = {})
  BY DEF FillEffect
<1>4. Symbol(m)' = { e \in DOMAIN dst' : e[2] = m /\ dst'[e].named /\ dst'[e].linkage # "internal" }
  BY DEF Symbol, NamedValue, IsLocal
<1>5. Symbol(m) = { e \in DOMAIN dst : e[2] = m /\ dst[e].named /\ dst[e].linkage # "internal" }
  BY DEF Symbol, NamedValue, IsLocal
<1>6. CASE m \in S /\ ~IsLocal(src[m])
  <2>1. Symbol(m) = {}
    BY <1>3, <1>6, LinkedIsSymbol
  <2>2. <<cur, m>> \in Symbol(m)'
    BY <1>1, <1>3, <1>4, <1>6 DEF IsLocal
  <2>3. ASSUME NEW e \in Symbol(m)' PROVE e = <<cur, m>>
    <3>1. e \in DOMAIN dst' /\ e[2] = m /\ dst'[e].named
      BY <1>4
    <3>2. e \notin DOMAIN dst
      BY <1>2, <1>6, <3>1
    <3> QED  BY <1>1, <3>1, <3>2
  <2> QED  BY <1>6, <2>2, <2>3
<1>7. CASE ~(m \in S /\ ~IsLocal(src[m]))
  <2>1. \A e \in DOMAIN dst : e[2] = m => dst'[e].linkage = dst[e].linkage /\ dst'[e].named = dst[e].named
    <3> SUFFICES ASSUME NEW e \in DOMAIN dst, e[2] = m
                 PROVE  dst'[e].linkage = dst[e].linkage /\ dst'[e].named = dst[e].named
      OBVIOUS
    <3>1. dst[e].named \in BOOLEAN
      BY GlobalOfComposite, RunningFacts
    <3> QED  BY <1>2, <1>7, <3>1
  <2>2. \A e \in {cur} \X S : e[2] = m => dst'[e].linkage = "internal"
    BY <1>3, <1>7 DEF IsLocal
  <2> QED  BY <1>1, <1>4, <1>5, <1>7, <2>1, <2>2
<1> QED  BY <1>6, <1>7
(* Names stay apart when a global takes the place of others.                *)
LEMMA MoveNames ==
  ASSUME LinkInv, pc = "prototypes", NEW n \in todo, NEW D, Moves(n, D)
  PROVE  NameInv'
<1> DEFINE new == <<cur, n>>
<1>1. /\ DOMAIN dst' = (DOMAIN dst \ D) \cup {new} /\ new \notin DOMAIN dst /\ new[2] = n
      /\ dst'[new].linkage = src[n].linkage
      /\ dst'[new].named = (IsLocal(src[n]) => NamedValue(n) = {})
      /\ ~IsLocal(src[n]) => D = LinkedTo(n)
  BY NotYetLinked DEF Moves, MoveEffect
<1>2. \A e \in DOMAIN dst \ D :
        /\ dst'[e].linkage = dst[e].linkage
        /\ dst'[e].named = (dst[e].named /\ (e[2] = n => IsLocal(src[n])))
  BY DEF Moves, MoveEffect
<1>3. /\ \A d, e \in DOMAIN dst : dst[d].named /\ dst[e].named /\ d[2] = e[2] => d = e
      /\ \A d \in DOMAIN dst : ~IsLocal(dst[d]) => dst[d].named
  BY RunningFacts DEF NameInv
<1> HIDE DEF new
<1>4. ASSUME NEW e \in DOMAIN dst \ D, dst'[e].named, dst'[new].named, e[2] = n PROVE FALSE
  <2>1. dst[e].named /\ IsLocal(src[n])
    BY <1>2, <1>4
  <2>2. e \in NamedValue(n)
    BY <1>4, <2>1 DEF NamedValue
  <2> QED  BY <1>1, <1>4, <2>1, <2>2
<1>5. ASSUME NEW d \in DOMAIN dst', NEW e \in DOMAIN dst', dst'[d].named, dst'[e].named, d[2] = e[2]
      PROVE  d = e
  <2>1. CASE d = new \/ e = new
    BY <1>1, <1>4, <1>5, <2>1
  <2>2. CASE d # new /\ e # new
    BY <1>1, <1>2, <1>3, <1>5, <2>2
  <2> QED  BY <2>1, <2>2
<1>6. ASSUME NEW e \in DOMAIN dst', ~IsLocal(dst'[e]) PROVE dst'[e].named
  <2>1. CASE e = new
    BY <1>1, <1>6, <2>1 DEF IsLocal
  <2>2. CASE e # new
    <3>1. e \in DOMAIN dst \ D /\ ~IsLocal(dst[e]) /\ dst[e].named
      BY <1>1, <1>2, <1>3, <1>6, <2>2 DEF IsLocal
    <3>2. e[2] = n => IsLocal(src[n])
      BY <1>1, <3>1 DEF LinkedTo, NamedValue
    <3> QED  BY <1>2, <3>1, <3>2
  <2> QED  BY <2>1, <2>2
<1> QED  BY <1>5, <1>6 DEF NameInv

(* Names stay apart when contents bring over functions that have waited.    *)
LEMMA FillNames ==
  ASSUME LinkInv, pc \in {"contents", "lazy"}, NEW n \in DOMAIN map, FillEffect(n)
  PROVE  NameInv'
<1> DEFINE S == Needed(n)
<1>1. DOMAIN dst' = DOMAIN dst \cup ({cur} \X S)
  BY DEF FillEffect
<1>2. \A e \in DOMAIN dst :
        /\ dst'[e].linkage = dst[e].linkage
        /\ dst'[e].named = (dst[e].named /\ (e[2] \in S => IsLocal(src[e[2]])))
  BY DEF FillEffect
<1>3. \A k \in S : /\ LinkedTo(k) = {} /\ <<cur, k>> \notin DOMAIN dst
                   /\ dst'[<<cur, k>>].linkage = src[k].linkage
                   /\ dst'[<<cur, k>>].named = (IsLocal(src[k]) => NamedValue(k) = {})
  BY DEF FillEffect
<1>4. /\ \A d, e \in DOMAIN dst : dst[d].named /\ dst[e].named /\ d[2] = e[2] => d = e
      /\ \A d \in DOMAIN dst : ~IsLocal(dst[d]) => dst[d].named
  BY RunningFacts DEF NameInv
<1>5. ASSUME NEW e \in DOMAIN dst, NEW k \in S, dst'[e].named, dst'[<<cur, k>>].named, e[2] = k
      PROVE  FALSE
  <2>1. dst[e].named /\ IsLocal(src[k])
    BY <1>2, <1>5
  <2>2. e \in NamedValue(k)
    BY <1>5, <2>1 DEF NamedValue
  <2> QED  BY <1>3, <1>5, <2>1, <2>2
<1>6. \A d \in {cur} \X S : d = <<cur, d[2]>> /\ d[2] \in S
  OBVIOUS
<1>7. ASSUME NEW d \in DOMAIN dst', NEW e \in DOMAIN dst', dst'[d].named, dst'[e].named, d[2] = e[2]
      PROVE  d = e
  <2>1. CASE d \in DOMAIN dst /\ e \in DOMAIN dst
    BY <1>2, <1>4, <1>7, <2>1
  <2>2. CASE d \in DOMAIN dst /\ e \in {cur} \X S
    BY <1>5, <1>6, <1>7, <2>2
  <2>3. CASE d \in {cur} \X S /\ e \in DOMAIN dst
    BY <1>5, <1>6, <1>7, <2>3
  <2>4. CASE d \in {cur} \X S /\ e \in {cur} \X S
    BY <1>6, <1>7, <2>4
  <2> QED  BY <1>1, <2>1, <2>2, <2>3, <2>4
<1>8. ASSUME NEW e \in DOMAIN dst', ~IsLocal(dst'[e]) PROVE dst'[e].named
  <2>1. CASE e \in {cur} \X S
    BY <1>3, <1>6, <1>8, <2>1 DEF IsLocal
  <2>2. CASE e \in DOMAIN dst
    <3>1. ~IsLocal(dst[e]) /\ dst[e].named
      BY <1>2, <1>4, <1>8, <2>2 DEF IsLocal
    <3>2. e[2] \in S => IsLocal(src[e[2]])
      BY <1>3, <2>2, <3>1 DEF LinkedTo, NamedValue
    <3> QED  BY <1>2, <2>2, <3>1, <3>2
  <2> QED  BY <1>1, <2>1, <2>2
<1> QED  BY <1>7, <1>8 DEF NameInv

(* A new module only adds to what the modules have.                         *)
LEMMA MoreModules ==
  ASSUME LinkInv, ReadFile
  PROVE  /\ \A i \in 1 .. cur : mods'[i] = mods[i] /\ i \in 1 .. cur' /\ i # cur'
         /\ \A n : /\ Having(n)' \cap (1 .. cur) = Having(n)
                   /\ ImportSpoils(n) => ImportSpoils(n)'
                   /\ MixesKinds(n) => MixesKinds(n)'
<1>1. /\ cur \in Nat /\ cur' = cur + 1 /\ \A i \in 1 .. cur : mods'[i] = mods[i]
  BY ReadIs
<1>2. \A i \in 1 .. cur : mods'[i] = mods[i] /\ i \in 1 .. cur' /\ i # cur'
  BY <1>1
<1>3. ASSUME NEW n
      PROVE  Having(n)' \cap (1 .. cur) = Having(n)
  BY <1>2 DEF Having, IsLocal
<1>4. ASSUME NEW n, ImportSpoils(n) PROVE ImportSpoils(n)'
  <2>1. PICK j \in Having(n) :
          mods[j][n].import /\ (j = 1 \/ \E i \in Having(n) : i < j /\ mods[i][n].def)
    BY <1>4 DEF ImportSpoils
  <2>2. j \in Having(n)' /\ mods'[j] = mods[j]
    BY <1>2, <1>3 DEF Having
  <2>3. CASE j = 1
    BY <2>1, <2>2, <2>3 DEF ImportSpoils
  <2>4. CASE \E i \in Having(n) : i < j /\ mods[i][n].def
    <3>1. PICK i \in Having(n) : i < j /\ mods[i][n].def
      BY <2>4
    <3>2. i \in Having(n)' /\ mods'[i] = mods[i]
      BY <1>2, <1>3 DEF Having
    <3> QED  BY <2>1, <2>2, <3>1, <3>2 DEF ImportSpoils
  <2> QED  BY <2>1, <2>3, <2>4
<1>5. ASSUME NEW n, MixesKinds(n) PROVE MixesKinds(n)'
  <2>1. PICK i \in Having(n), j \in Having(n) :
          mods[i][n].linkage = "appending" /\ mods[j][n].kind # "variable"
    BY <1>5 DEF MixesKinds
  <2>2. i \in Having(n)' /\ j \in Having(n)' /\ mods'[i] = mods[i] /\ mods'[j] = mods[j]
    BY <1>2, <1>3 DEF Having
  <2> QED  BY <2>1, <2>2 DEF MixesKinds
<1> QED  BY <1>2, <1>3, <1>4, <1>5

(* The symbols when a file is read: those of the first module, or the same. *)
LEMMA ReadNames ==
  ASSUME LinkInv, ReadFile
  PROVE  NameInv' /\ LinkageInv'
<1>1. /\ pc = "read" /\ cur \in Nat /\ cur' = cur + 1
      /\ src' = mods'[cur + 1] /\ IsModule(src') /\ DOMAIN src' \subseteq Names
      /\ cur = 0 => dst' = Composite(src')
      /\ cur > 0 => dst' = dst
  BY ReadIs
<1>2. CASE cur = 0
  <2> DEFINE C == Composite(src')
  <2>1. /\ DOMAIN C = {1} \X DOMAIN src'
        /\ \A n \in DOMAIN src' : /\ C[<<1, n>>].linkage = src'[n].linkage /\ C[<<1, n>>].named
                                  /\ C[<<1, n>>].import = src'[n].import
    <3> DEFINE mod == src'
    <3>1. IsModule(mod) /\ DOMAIN mod \subseteq Names
      BY <1>1
    <3> HIDE DEF mod
    <3>2. /\ DOMAIN Composite(mod) = {1} \X DOMAIN mod
          /\ Composite(mod) \in [DOMAIN Composite(mod) -> Composed]
          /\ \A n \in DOMAIN mod :
               LET g == Composite(mod)[<<1, n>>]
               IN /\ g.linkage = mod[n].linkage /\ g.level = mod[n].level /\ g.hidden = mod[n].hidden
                  /\ g.import = mod[n].import /\ g.named
                  /\ g.from = (IF mod[n].def THEN <<1>> ELSE <<>>)
                  /\ g.refs = {1} \X mod[n].refs /\ g.refs \subseteq {1} \X DOMAIN mod
      BY <3>1, CompositeIs
    <3> QED  BY <3>2 DEF mod
  <2>2. dst' = C /\ src' = mods'[1]
    BY <1>1, <1>2
  <2> HIDE DEF C
  <2>3. \A d \in DOMAIN dst' : d = <<1, d[2]>> /\ d[1] = 1 /\ d[2] \in DOMAIN src'
    BY <2>1, <2>2
  <2>4. ASSUME NEW d \in DOMAIN dst'
        PROVE  /\ dst'[d].named /\ dst'[d].linkage = mods'[d[1]][d[2]].linkage
               /\ dst'[d].import = mods'[d[1]][d[2]].import
    BY <2>1, <2>2, <2>3
  <2>5. NameInv'
    BY <2>3, <2>4 DEF NameInv
  <2> QED  BY <2>3, <2>4, <2>5 DEF LinkageInv, Origin
<1>3. CASE cur > 0
  <2>1. dst' = dst /\ NameInv /\ LinkageInv /\ LinkType
    BY <1>1, <1>3 DEF LinkInv, Running
  <2>2. NameInv'
    BY <2>1 DEF NameInv, IsLocal
  <2>3. \A d \in DOMAIN dst : mods'[d[1]] = mods[d[1]] /\ (ImportSpoils(d[2]) => ImportSpoils(d[2])')
    BY <2>1, GlobalOfComposite, MoreModules
  <2> QED  BY <2>1, <2>2, <2>3 DEF LinkageInv, Origin
<1> QED  BY <1>1, <1>2, <1>3

-----------------------------------------------------------------------------
(* The steps of a linking that goes on.                                     *)

(* One name in the first loop.                                              *)
PrototypeStep(n) ==
  /\ pc = "prototypes" /\ pc' = pc /\ mods' = mods /\ input' = input /\ lazy' = lazy
  /\ todo' = todo \ {n}
  /\ \/ WaitEffect(n)
     \/ Plain(n) /\ \E d : KeepEffect(n, d)
     \/ Plain(n) /\ BringEffect(n)
     \/ \E d : AppendEffect(n, d)

(* The contents of one name in the others.                                  *)
FillStep(n) ==
  /\ pc \in {"contents", "lazy"} /\ pc' = pc /\ mods' = mods /\ input' = input /\ skip' = skip
  /\ map[n] = <<cur, n>> /\ src[n].def /\ FillEffect(n)
  /\ \/ pc = "contents" /\ n \in todo /\ todo' = todo \ {n} /\ lazy' = lazy \cup Needed(n)
     \/ pc = "lazy" /\ n \in lazy /\ todo' = todo /\ lazy' = (lazy \ {n}) \cup Needed(n)

(* There are no other steps.                                                *)
LEMMA StepIs ==
  ASSUME LinkInv, [Next]_vars, pc' # "failed"
  PROVE  \/ ReadFile
         \/ \E n \in todo : PrototypeStep(n)
         \/ \E n \in DOMAIN map : FillStep(n)
         \/ Turn
         \/ UNCHANGED vars
<1>1. ASSUME Prototype PROVE \E n \in todo : PrototypeStep(n)
  <2>1. pc = "prototypes" /\ input' = input /\ mods' = mods /\ lazy' = lazy
    BY <1>1, PrototypeIs
  <2>2. PICK n \in todo :
          /\ todo' = todo \ {n}
          /\ \/ FailEffect(n) \/ WaitEffect(n)
             \/ Plain(n) /\ ((\E d : KeepEffect(n, d)) \/ BringEffect(n))
             \/ \E d : AppendEffect(n, d)
    BY <1>1, PrototypeIs
  <2>3. ~FailEffect(n)
    BY DEF FailEffect
  <2>4. /\ WaitEffect(n) => pc' = pc
        /\ \A d : KeepEffect(n, d) => pc' = pc
        /\ BringEffect(n) => pc' = pc
        /\ \A d : AppendEffect(n, d) => pc' = pc
    BY DEF WaitEffect, KeepEffect, BringEffect, AppendEffect, MoveEffect
  <2> QED  BY <2>1, <2>2, <2>3, <2>4 DEF PrototypeStep
<1>2. ASSUME LinkContents PROVE \E n \in DOMAIN map : FillStep(n)
  <2>1. pc = "contents" /\ input' = input /\ pc' = pc /\ mods' = mods /\ skip' = skip
    BY <1>2, ContentsIs
  <2>2. PICK n \in todo : /\ n \in DOMAIN map /\ map[n] = <<cur, n>> /\ src[n].def
                          /\ FillEffect(n) /\ lazy' = lazy \cup Needed(n) /\ todo' = todo \ {n}
    BY <1>2, ContentsIs
  <2> QED  BY <2>1, <2>2 DEF FillStep
<1>3. ASSUME LinkLazily PROVE \E n \in DOMAIN map : FillStep(n)
  <2>1. pc = "lazy" /\ input' = input /\ pc' = pc /\ mods' = mods /\ skip' = skip /\ todo' = todo
    BY <1>3, LazilyIs
  <2>2. PICK n \in lazy : /\ n \in DOMAIN map /\ map[n] = <<cur, n>> /\ src[n].def
                          /\ FillEffect(n) /\ lazy' = (lazy \ {n}) \cup Needed(n)
    BY <1>3, LazilyIs
  <2> QED  BY <2>1, <2>2 DEF FillStep
<1>4. ~RejectFile
  BY DEF RejectFile
<1> QED  BY <1>1, <1>2, <1>3, <1>4, TurnIs DEF Next, Ended

(* Keeping a global keeps names apart and linkages those of the modules.    *)
LEMMA KeepNames ==
  ASSUME LinkInv, pc = "prototypes", NEW n \in todo, NEW d, KeepEffect(n, d), mods' = mods
  PROVE  NameInv' /\ LinkageInv'
<1>1. /\ DOMAIN dst' = DOMAIN dst /\ \A e \in DOMAIN dst : e # d => dst'[e] = dst[e]
      /\ dst'[d].import = dst[d].import /\ dst'[d].named = dst[d].named
  BY DEF KeepEffect, Carries
<1>2. /\ d \in DOMAIN dst /\ d[2] = n
      /\ dst'[d].linkage = dst[d].linkage \/ (dst'[d].linkage = "internal" /\ ImportSpoils(n))
  BY KeptIs
<1>3. NameInv /\ LinkageInv
  BY RunningFacts
<1>4. \A e \in DOMAIN dst :
        /\ dst'[e].named = dst[e].named /\ dst'[e].import = dst[e].import
        /\ \/ dst'[e].linkage = dst[e].linkage
           \/ dst'[e].linkage = "internal" /\ ImportSpoils(e[2])
  BY <1>1, <1>2
<1>5. NameInv'
  BY <1>1, <1>3, <1>4 DEF NameInv, IsLocal
<1>6. \A m : ImportSpoils(m)' <=> ImportSpoils(m)
  BY SameModules
<1>7. LinkageInv'
  BY <1>1, <1>3, <1>4, <1>6 DEF LinkageInv, Origin
<1> QED  BY <1>5, <1>7

(* A global that takes the place of others has its module's linkage.        *)
LEMMA MoveLinkage ==
  ASSUME LinkInv, pc = "prototypes", NEW n \in todo, NEW D, Moves(n, D), mods' = mods
  PROVE  LinkageInv'
<1> DEFINE new == <<cur, n>>
<1>1. /\ DOMAIN dst' = (DOMAIN dst \ D) \cup {new} /\ new[1] = cur /\ new[2] = n
      /\ dst'[new].linkage = src[n].linkage /\ ~dst'[new].import
      /\ \A e \in DOMAIN dst \ D : dst'[e].linkage = dst[e].linkage /\ dst'[e].import = dst[e].import
  BY DEF Moves, MoveEffect, Carries
<1>2. /\ LinkageInv /\ mods[cur][n] = src[n]
      /\ \A e \in DOMAIN dst :
           /\ \/ dst[e].linkage = mods[e[1]][e[2]].linkage
              \/ dst[e].linkage = "internal" /\ ImportSpoils(e[2])
           /\ dst[e].import => e[1] = 1 /\ mods[e[1]][e[2]].import
  BY RunningFacts DEF LinkageInv, Origin, src
<1>3. \A m : ImportSpoils(m)' <=> ImportSpoils(m)
  BY SameModules
<1> HIDE DEF new
<1>4. ASSUME NEW e \in DOMAIN dst'
      PROVE  /\ \/ dst'[e].linkage = mods[e[1]][e[2]].linkage
                \/ dst'[e].linkage = "internal" /\ ImportSpoils(e[2])
             /\ dst'[e].import => e[1] = 1 /\ mods[e[1]][e[2]].import
  <2>1. CASE e = new
    BY <1>1, <1>2, <2>1
  <2>2. CASE e # new
    BY <1>1, <1>2, <2>2
  <2> QED  BY <2>1, <2>2
<1> QED  BY <1>3, <1>4 DEF LinkageInv, Origin

(* So has a function that has waited.                                       *)
LEMMA FillLinkage ==
  ASSUME LinkInv, pc \in {"contents", "lazy"}, NEW n \in DOMAIN map, FillEffect(n), mods' = mods
  PROVE  LinkageInv'
<1> DEFINE S == Needed(n)
<1>1. /\ DOMAIN dst' = DOMAIN dst \cup ({cur} \X S)
      /\ \A e \in DOMAIN dst : dst'[e].linkage = dst[e].linkage /\ dst'[e].import = dst[e].import
      /\ \A m \in S : dst'[<<cur, m>>].linkage = src[m].linkage /\ ~dst'[<<cur, m>>].import
  BY DEF FillEffect
<1>2. LinkageInv /\ \A e : Origin(e)' = Origin(e)
  BY RunningFacts DEF Origin
<1>3. \A m : ImportSpoils(m)' <=> ImportSpoils(m)
  BY SameModules
<1>4. ASSUME NEW e \in {cur} \X S
      PROVE  dst'[e].linkage = Origin(e).linkage /\ ~dst'[e].import
  <2>1. e = <<cur, e[2]>> /\ e[1] = cur /\ e[2] \in S
    OBVIOUS
  <2> QED  BY <1>1, <2>1 DEF Origin, src
<1> QED  BY <1>1, <1>2, <1>3, <1>4 DEF LinkageInv

(* Names and linkages at every step of a linking that goes on.              *)
LEMMA NameStep ==
  ASSUME LinkInv, [Next]_vars, pc' # "failed"
  PROVE  NameInv' /\ LinkageInv'
<1>1. CASE ReadFile
  BY <1>1, ReadNames
<1>2. ASSUME mods' = mods, dst' = dst, pc # "failed"
      PROVE  NameInv' /\ LinkageInv'
  <2>1. NameInv /\ LinkageInv
    BY <1>2 DEF LinkInv, Running
  <2>2. \A m : ImportSpoils(m)' <=> ImportSpoils(m)
    BY <1>2, SameModules
  <2> QED  BY <1>2, <2>1, <2>2 DEF NameInv, LinkageInv, Origin, IsLocal
<1>3. CASE \E n \in todo : PrototypeStep(n)
  <2>1. PICK n \in todo : PrototypeStep(n)
    BY <1>3
  <2>2. pc = "prototypes" /\ mods' = mods
    BY <2>1 DEF PrototypeStep
  <2>3. CASE WaitEffect(n)
    BY <1>2, <2>2, <2>3 DEF WaitEffect
  <2>4. CASE \E d : KeepEffect(n, d)
    BY <2>2, <2>4, KeepNames
  <2>5. CASE BringEffect(n) \/ \E d : AppendEffect(n, d)
    <3>1. PICK D : Moves(n, D)
      BY <2>2, <2>5, MovesIs
    <3> QED  BY <2>2, <3>1, MoveNames, MoveLinkage
  <2> QED  BY <2>1, <2>3, <2>4, <2>5 DEF PrototypeStep
<1>4. CASE \E n \in DOMAIN map : FillStep(n)
  BY <1>4, FillNames, FillLinkage DEF FillStep
<1>5. CASE Turn
  BY <1>2, <1>5 DEF Turn
<1>6. CASE UNCHANGED vars
  BY <1>2, <1>6 DEF vars
<1> QED  BY <1>1, <1>3, <1>4, <1>5, <1>6, StepIs

-----------------------------------------------------------------------------
(* The map and the loops.                                                   *)

(* After a name was linked to t the map is as it should be, if t is.        *)
LEMMA MapLinked ==
  ASSUME LinkInv, pc = "prototypes", NEW n \in todo, NEW t, Links(n, t),
         pc' = pc, mods' = mods, todo' = todo \ {n},
         skip \subseteq skip', skip' \subseteq skip \cup {n},
         DOMAIN dst' \subseteq DOMAIN dst \cup {<<cur, n>>}, <<cur, n>> \in DOMAIN dst' => t = <<cur, n>>,
         t = <<cur, n>> \/ (n \in skip' /\ ~IsLocal(src[n]) /\ src[n].linkage # "appending"),
         ~IsLocal(src[n]) /\ ~ImportSpoils(n) => t \in Symbol(n)',
         \A m : m # n => Symbol(m)' = Symbol(m)
  PROVE  MapInv'
<1>1. /\ MapInv /\ cur' = cur /\ src' = src /\ n \in DOMAIN src /\ n \notin DOMAIN map
      /\ todo \subseteq DOMAIN src /\ DOMAIN map \subseteq DOMAIN src
  BY RunningFacts, NotYetLinked, SameModules
<1>2. /\ DOMAIN map' = DOMAIN map \cup {n} /\ map'[n] = t
      /\ \A m \in DOMAIN map : m # n /\ map'[m] = map[m]
  BY <1>1 DEF Links
<1>3. /\ DOMAIN map \cup skip = DOMAIN src \ todo /\ Coming' = todo \ {n}
      /\ \A m \in DOMAIN src : <<cur, m>> \in DOMAIN dst => m \in DOMAIN map /\ map[m] = <<cur, m>>
      /\ \A m \in DOMAIN map :
           (m \notin skip \/ IsLocal(src[m]) \/ src[m].linkage = "appending") => map[m] = <<cur, m>>
      /\ \A m \in DOMAIN map : ~IsLocal(src[m]) /\ ~ImportSpoils(m) => map[m] \in Symbol(m)
      /\ \A m \in skip \ DOMAIN map : MayWait(src[m]) /\ LinkedTo(m) = {}
  BY <1>1 DEF MapInv, Coming
<1>4. DOMAIN map' \cup skip' = DOMAIN src' \ Coming'
  BY <1>1, <1>2, <1>3
<1>5. ASSUME NEW m \in DOMAIN src', <<cur', m>> \in DOMAIN dst'
      PROVE  m \in DOMAIN map' /\ map'[m] = <<cur', m>>
  BY <1>1, <1>2, <1>3, <1>5
<1>6. ASSUME NEW m \in DOMAIN map', m \notin skip' \/ IsLocal(src'[m]) \/ src'[m].linkage = "appending"
      PROVE  map'[m] = <<cur', m>>
  BY <1>1, <1>2, <1>3, <1>6
<1>7. ASSUME NEW m \in DOMAIN map', ~IsLocal(src'[m]), ~ImportSpoils(m)'
      PROVE  map'[m] \in Symbol(m)'
  <2>1. ~ImportSpoils(m)
    BY <1>7, SameModules
  <2>2. CASE m = n
    BY <1>1, <1>2, <1>7, <2>1, <2>2
  <2>3. CASE m # n
    BY <1>1, <1>2, <1>3, <1>7, <2>1, <2>3
  <2> QED  BY <2>2, <2>3
<1>8. ASSUME NEW m \in skip' \ DOMAIN map'
      PROVE  MayWait(src'[m]) /\ LinkedTo(m)' = {}
  <2>1. m # n /\ m \in skip \ DOMAIN map
    BY <1>2
  <2>2. LinkedTo(m)' = IF IsLocal(src'[m]) THEN {} ELSE Symbol(m)'
    BY DEF LinkedTo, Symbol
  <2>3. LinkedTo(m) = IF IsLocal(src[m]) THEN {} ELSE Symbol(m)
    BY LinkedIsSymbol
  <2> QED  BY <1>1, <1>3, <2>1, <2>2, <2>3
<1> QED  BY <1>4, <1>5, <1>6, <1>7, <1>8 DEF MapInv

(* The map in the first loop.                                               *)
LEMMA MapPrototype ==
  ASSUME LinkInv, NEW n \in todo, PrototypeStep(n)
  PROVE  MapInv' /\ LoopInv'
<1>1. /\ pc = "prototypes" /\ pc' = pc /\ mods' = mods /\ lazy' = lazy /\ todo' = todo \ {n}
  BY DEF PrototypeStep
<1>2. /\ MapInv /\ LoopInv /\ cur' = cur /\ src' = src /\ n \in DOMAIN src /\ n \notin DOMAIN map
      /\ n \notin skip /\ <<cur, n>> \notin DOMAIN dst /\ IsModule(src)
      /\ todo \subseteq DOMAIN src /\ DOMAIN map \subseteq DOMAIN src
  BY <1>1, RunningFacts, NotYetLinked, SameModules
<1>3. lazy' = {} /\ \A m \in skip \cap DOMAIN map : map[m] = <<cur, m>> => src[m].linkage = "appending"
  BY <1>1, <1>2 DEF LoopInv
<1>4. CASE WaitEffect(n)
  <2>1. /\ skip' = skip \cup {n} /\ dst' = dst /\ map' = map /\ MayWait(src[n]) /\ LinkedTo(n) = {}
    BY <1>4 DEF WaitEffect
  <2>2. LoopInv'
    <3>1. \A m \in skip' \cap DOMAIN map' : map'[m] = <<cur', m>> => src'[m].linkage = "appending"
      BY <1>2, <1>3, <2>1
    <3> QED  BY <1>1, <1>3, <3>1 DEF LoopInv
  <2>3. DOMAIN map' \cup skip' = DOMAIN src' \ Coming'
    <3>1. DOMAIN map \cup skip = DOMAIN src \ todo /\ Coming' = todo \ {n}
      BY <1>1, <1>2 DEF MapInv, Coming
    <3> QED  BY <1>2, <2>1, <3>1
  <2>4. \A m : LinkedTo(m)' = LinkedTo(m) /\ Symbol(m)' = Symbol(m) /\ (ImportSpoils(m)' <=> ImportSpoils(m))
    BY <1>1, <1>2, <2>1, SameModules DEF LinkedTo, Symbol, NamedValue
  <2>5. MapInv'
    <3>1. \A m \in DOMAIN src' : <<cur', m>> \in DOMAIN dst' => m \in DOMAIN map' /\ map'[m] = <<cur', m>>
      BY <1>2, <2>1 DEF MapInv
    <3>2. \A m \in DOMAIN map' :
            (m \notin skip' \/ IsLocal(src'[m]) \/ src'[m].linkage = "appending") => map'[m] = <<cur', m>>
      BY <1>2, <2>1 DEF MapInv
    <3>3. \A m \in DOMAIN map' : ~IsLocal(src'[m]) /\ ~ImportSpoils(m)' => map'[m] \in Symbol(m)'
      BY <1>2, <2>1, <2>4 DEF MapInv
    <3>4. \A m \in skip' \ DOMAIN map' : MayWait(src'[m]) /\ LinkedTo(m)' = {}
      BY <1>2, <2>1, <2>4 DEF MapInv
    <3> QED  BY <2>3, <3>1, <3>2, <3>3, <3>4 DEF MapInv
  <2> QED  BY <2>2, <2>5
<1>5. ASSUME NEW t, Links(n, t), skip' \subseteq skip \cup {n},
             n \in skip' /\ t = <<cur, n>> => src[n].linkage = "appending"
      PROVE  LoopInv'
  <2>1. \A m \in skip' \cap DOMAIN map' : map'[m] = <<cur', m>> => src'[m].linkage = "appending"
    BY <1>2, <1>3, <1>5 DEF Links
  <2> QED  BY <1>1, <1>3, <2>1 DEF LoopInv
<1>6. CASE Plain(n) /\ \E d : KeepEffect(n, d)
  <2>1. PICK d : KeepEffect(n, d)
    BY <1>6
  <2>2. /\ Links(n, d) /\ skip' = skip \cup {n} /\ DOMAIN dst' = DOMAIN dst /\ d \in LinkedTo(n)
    BY <2>1 DEF KeepEffect
  <2>3. d \in DOMAIN dst /\ d[2] = n /\ ~IsLocal(src[n]) /\ d # <<cur, n>>
    BY <1>2, <2>2, LinkedIsNamed
  <2>4. src[n].linkage # "appending"
    <3>1. src[n].linkage = "appending" => src[n].kind = "variable"
      BY <1>2, GlobalOfModule
    <3> QED  BY <1>6, <2>2, <3>1 DEF Plain
  <2>5. \A m : m # n \/ ~ImportSpoils(n) => Symbol(m)' = Symbol(m)
    BY <1>1, <2>1, KeepSymbol
  <2>6. ~ImportSpoils(n) => d \in Symbol(n)'
    BY <2>2, <2>3, <2>5, LinkedIsSymbol
  <2>7. MapInv'
    BY <1>1, <1>2, <2>2, <2>3, <2>4, <2>5, <2>6, MapLinked
  <2> QED  BY <1>5, <2>2, <2>3, <2>7
<1>7. CASE BringEffect(n) \/ \E d : AppendEffect(n, d)
  <2>1. PICK D : Moves(n, D)
    BY <1>1, <1>7, MovesIs
  <2>2. Links(n, <<cur, n>>) /\ DOMAIN dst' = (DOMAIN dst \ D) \cup {<<cur, n>>}
    BY <2>1 DEF Moves, MoveEffect
  <2>3. skip' = skip \/ (skip' = skip \cup {n} /\ src[n].linkage = "appending")
    BY <1>7 DEF BringEffect, AppendEffect
  <2>4. \A m : Symbol(m)' = IF m = n /\ ~IsLocal(src[n]) THEN {<<cur, n>>} ELSE Symbol(m)
    BY <1>1, <2>1, MoveSymbol
  <2>5. MapInv'
    BY <1>1, <1>2, <2>2, <2>3, <2>4, MapLinked
  <2> QED  BY <1>2, <1>5, <2>2, <2>3, <2>5
<1> QED  BY <1>4, <1>6, <1>7 DEF PrototypeStep

(* The map in the other loops.                                              *)
LEMMA MapFill ==
  ASSUME LinkInv, NEW n \in DOMAIN map, FillStep(n)
  PROVE  MapInv' /\ LoopInv'
<1> DEFINE S == Needed(n)
<1>1. /\ pc \in {"contents", "lazy"} /\ pc' = pc /\ mods' = mods /\ skip' = skip /\ FillEffect(n)
      /\ \/ pc = "contents" /\ n \in todo /\ todo' = todo \ {n} /\ lazy' = lazy \cup S
         \/ pc = "lazy" /\ n \in lazy /\ todo' = todo /\ lazy' = (lazy \ {n}) \cup S
  BY DEF FillStep
<1>2. /\ MapInv /\ LoopInv /\ cur' = cur /\ src' = src /\ IsModule(src)
      /\ DOMAIN map \subseteq DOMAIN src
  BY <1>1, RunningFacts, SameModules
<1>3. /\ \A m \in S : m \in skip /\ MayWait(src[m]) /\ LinkedTo(m) = {} /\ <<cur, m>> \notin DOMAIN dst
      /\ DOMAIN dst' = DOMAIN dst \cup ({cur} \X S)
      /\ DOMAIN map' = DOMAIN map \cup S
      /\ \A m \in DOMAIN map : map'[m] = map[m]
      /\ \A m \in S : map'[m] = <<cur, m>>
  BY <1>1 DEF FillEffect
<1>4. S \cap DOMAIN map = {} /\ \A m : m \in S => m \in src[n].refs
  BY DEF Needed
<1>5. \A m : Symbol(m)' = IF m \in S /\ ~IsLocal(src[m]) THEN {<<cur, m>>} ELSE Symbol(m)
  BY <1>1, FillSymbol
<1>6. \A m : ImportSpoils(m)' <=> ImportSpoils(m)
  BY <1>1, SameModules
<1> HIDE DEF S
<1>7. LoopInv'
  <2>1. \A m \in lazy' : m \in skip' \cap DOMAIN map' /\ map'[m] = <<cur', m>> /\ MayWait(src'[m])
    <3> SUFFICES ASSUME NEW m \in lazy'
                 PROVE  m \in skip' \cap DOMAIN map' /\ map'[m] = <<cur', m>> /\ MayWait(src'[m])
      OBVIOUS
    <3>1. CASE m \in S
      BY <1>1, <1>2, <1>3, <3>1
    <3>2. CASE m \in lazy
      <4>1. m \in skip \cap DOMAIN map /\ map[m] = <<cur, m>> /\ MayWait(src[m])
        BY <1>2, <3>2 DEF LoopInv
      <4> QED  BY <1>1, <1>2, <1>3, <4>1
    <3> QED  BY <1>1, <3>1, <3>2
  <2>2. pc' = "contents" => todo' \subseteq WithContents'
    <3>1. WithContents' = WithContents
      BY <1>1, <1>2 DEF WithContents, Appended
    <3> QED  BY <1>1, <1>2, <3>1 DEF LoopInv
  <2>3. pc' \in {"lazy", "read"} => todo' = {} /\ pc' # "read"
    BY <1>1, <1>2 DEF LoopInv
  <2> QED  BY <1>1, <2>1, <2>2, <2>3 DEF LoopInv
<1>8. DOMAIN map' \cup skip' = DOMAIN src' \ Coming'
  <2>1. DOMAIN map \cup skip = DOMAIN src /\ Coming' = {}
    BY <1>1, <1>2 DEF MapInv, Coming
  <2> QED  BY <1>1, <1>2, <1>3, <2>1
<1>9. ASSUME NEW m \in DOMAIN src', <<cur', m>> \in DOMAIN dst'
      PROVE  m \in DOMAIN map' /\ map'[m] = <<cur', m>>
  <2>1. CASE <<cur, m>> \in DOMAIN dst
    <3>1. m \in DOMAIN map /\ map[m] = <<cur, m>>
      BY <1>2, <2>1 DEF MapInv
    <3> QED  BY <1>2, <1>3, <3>1
  <2>2. CASE <<cur, m>> \in {cur} \X S
    BY <1>2, <1>3, <2>2
  <2> QED  BY <1>2, <1>3, <1>9, <2>1, <2>2
<1>10. ASSUME NEW m \in DOMAIN map', m \notin skip' \/ IsLocal(src'[m]) \/ src'[m].linkage = "appending"
       PROVE  map'[m] = <<cur', m>>
  <2>1. CASE m \in S
    BY <1>2, <1>3, <2>1
  <2>2. CASE m \in DOMAIN map
    <3>1. map[m] = <<cur, m>>
      BY <1>1, <1>2, <1>10, <2>2 DEF MapInv
    <3> QED  BY <1>2, <1>3, <2>2, <3>1
  <2> QED  BY <1>3, <2>1, <2>2
<1>11. ASSUME NEW m \in DOMAIN map', ~IsLocal(src'[m]), ~ImportSpoils(m)'
       PROVE  map'[m] \in Symbol(m)'
  <2>1. CASE m \in S
    BY <1>2, <1>3, <1>5, <1>11, <2>1
  <2>2. CASE m \in DOMAIN map
    <3>1. map[m] \in Symbol(m)
      BY <1>2, <1>6, <1>11, <2>2 DEF MapInv
    <3> QED  BY <1>3, <1>4, <1>5, <2>2, <3>1
  <2> QED  BY <1>3, <2>1, <2>2
<1>12. ASSUME NEW m \in skip' \ DOMAIN map'
       PROVE  MayWait(src'[m]) /\ LinkedTo(m)' = {}
  <2>1. m \notin S /\ m \in skip \ DOMAIN map
    BY <1>1, <1>3
  <2>2. LinkedTo(m)' = IF IsLocal(src'[m]) THEN {} ELSE Symbol(m)'
    BY DEF LinkedTo, Symbol
  <2>3. LinkedTo(m) = IF IsLocal(src[m]) THEN {} ELSE Symbol(m)
    BY LinkedIsSymbol
  <2>4. MayWait(src[m]) /\ LinkedTo(m) = {}
    BY <1>2, <2>1 DEF MapInv
  <2> QED  BY <1>2, <1>5, <2>1, <2>2, <2>3, <2>4
<1> QED  BY <1>7, <1>8, <1>9, <1>10, <1>11, <1>12 DEF MapInv

(* The map and the loops at every step of a linking that goes on.           *)
LEMMA MapStep ==
  ASSUME LinkInv, [Next]_vars, pc' # "failed"
  PROVE  (cur' > 1 => MapInv') /\ LoopInv'
<1>1. CASE ReadFile
  <2>1. /\ pc = "read" /\ cur \in Nat /\ cur' = cur + 1
        /\ DOMAIN map' = {} /\ skip' = {} /\ lazy' = {}
        /\ cur = 0 => dst' = Composite(src') /\ pc' = "read" /\ todo' = todo
        /\ cur > 0 => dst' = dst /\ pc' = "prototypes" /\ todo' = DOMAIN src'
    BY <1>1, ReadIs
  <2>2. todo = {} /\ LinkType
    BY <2>1 DEF LinkInv, Running, LoopInv
  <2>3. LoopInv'
    BY <2>1, <2>2 DEF LoopInv
  <2>4. ASSUME cur > 0 PROVE MapInv'
    <3>1. DOMAIN map' \cup skip' = DOMAIN src' \ Coming'
      BY <2>1, <2>4 DEF Coming
    <3>2. \A m : <<cur', m>> \notin DOMAIN dst'
      <4>1. \A d \in DOMAIN dst : d[1] \in 1 .. cur
        BY <2>2, GlobalOfComposite
      <4> QED  BY <2>1, <2>4, <4>1
    <3> QED  BY <2>1, <3>1, <3>2 DEF MapInv
  <2> QED  BY <2>1, <2>3, <2>4
<1>2. CASE \E n \in todo : PrototypeStep(n)
  BY <1>2, MapPrototype
<1>3. CASE \E n \in DOMAIN map : FillStep(n)
  BY <1>3, MapFill
<1>4. ASSUME UNCHANGED <<mods, dst, map, skip, lazy>>, Coming' = Coming, pc # "failed"
      PROVE  cur' > 1 => MapInv'
  <2>1. cur' = cur /\ src' = src /\ \A m : ImportSpoils(m)' <=> ImportSpoils(m)
    BY <1>4, SameModules
  <2>2. \A m : LinkedTo(m)' = LinkedTo(m) /\ Symbol(m)' = Symbol(m)
    BY <1>4, <2>1 DEF LinkedTo, Symbol, NamedValue
  <2>3. cur > 1 => MapInv
    BY <1>4 DEF LinkInv, Running
  <2> QED  BY <1>4, <2>1, <2>2, <2>3 DEF MapInv
<1>5. CASE Turn
  <2>1. /\ UNCHANGED <<mods, dst, map, skip, lazy>> /\ pc # "failed"
        /\ Coming' = {} /\ Coming = {} /\ pc \in {"prototypes", "contents", "lazy"}
    BY <1>5 DEF Turn, Coming
  <2>2. LoopInv /\ cur' = cur /\ src' = src
    BY <2>1, RunningFacts, SameModules
  <2>3. WithContents' = WithContents
    BY <2>1, <2>2 DEF WithContents, Appended
  <2>4. LoopInv'
    <3>1. CASE pc = "prototypes" /\ todo = {} /\ pc' = "contents" /\ todo' = WithContents
      BY <2>1, <2>2, <2>3, <3>1 DEF LoopInv
    <3>2. CASE pc = "contents" /\ todo = {} /\ pc' = "lazy" /\ todo' = todo
      BY <2>1, <2>2, <3>2 DEF LoopInv
    <3>3. CASE pc = "lazy" /\ lazy = {} /\ pc' = "read" /\ todo' = todo
      BY <2>1, <2>2, <3>3 DEF LoopInv
    <3> QED  BY <1>5, <3>1, <3>2, <3>3 DEF Turn
  <2> QED  BY <1>4, <2>1, <2>4
<1>6. CASE UNCHANGED vars
  <2>1. UNCHANGED <<mods, dst, map, skip, lazy>> /\ pc # "failed" /\ Coming' = Coming
    BY <1>6, SameModules DEF vars, Coming
  <2>2. LoopInv /\ cur' = cur /\ src' = src
    BY <1>6, <2>1, SameModules DEF vars, LinkInv, Running
  <2>3. LoopInv'
    BY <1>6, <2>2 DEF LoopInv, vars, WithContents, Appended
  <2> QED  BY <1>4, <2>1, <2>3
<1> QED  BY <1>1, <1>2, <1>3, <1>5, <1>6, StepIs

-----------------------------------------------------------------------------
(* Whose contents a global has.                                             *)

(* Appending variables are defined and do not wait.                         *)
LEMMA AppendingIs ==
  ASSUME NEW mod, IsModule(mod), NEW n \in DOMAIN mod, mod[n].linkage = "appending"
  PROVE  mod[n].def /\ mod[n].kind = "variable" /\ ~MayWait(mod[n]) /\ ~IsLocal(mod[n])
<1>1. mod[n].kind = "variable" /\ mod[n].def
  BY GlobalOfModule
<1> QED  BY <1>1 DEF MayWait, IsLocal

(* A global nothing happens to has what it had.                             *)
LEMMA FilledStays ==
  ASSUME FromInv, mods' = mods, NEW d \in DOMAIN dst,
         dst'[d].from = dst[d].from, dst'[d].level = dst[d].level, Empty(d)' <=> Empty(d)
  PROVE  Filled(d)'
<1>1. Filled(d) /\ cur' = cur
  BY SameModules DEF FromInv
<1>2. Origin(d)' = Origin(d)
  BY DEF Origin
<1> QED  BY <1>1, <1>2 DEF Filled

(* The first loop carries contents over and makes globals without.          *)
LEMMA FromPrototype ==
  ASSUME LinkInv, NEW n \in todo, PrototypeStep(n)
  PROVE  FromInv'
<1>1. pc = "prototypes" /\ pc' = pc /\ mods' = mods
  BY DEF PrototypeStep
<1>2. /\ LinkType /\ FromInv /\ LinkageInv /\ cur' = cur /\ src' = src /\ cur \in Nat /\ cur > 1
      /\ n \in DOMAIN src /\ n \notin skip /\ <<cur, n>> \notin DOMAIN dst /\ IsModule(src)
  BY <1>1, RunningFacts, NotYetLinked, SameModules
<1>3. skip \subseteq skip' /\ skip' \subseteq skip \cup {n}
  BY DEF PrototypeStep, WaitEffect, KeepEffect, BringEffect, AppendEffect
<1>4. ASSUME NEW d \in DOMAIN dst PROVE Empty(d)' <=> Empty(d)
  <2>1. d[1] = cur => d[2] # n
    BY <1>2, GlobalOfComposite
  <2>2. Unfinished' = DOMAIN src /\ Unfinished = DOMAIN src /\ Origin(d)' = Origin(d)
    BY <1>1, <1>2 DEF Unfinished, Origin
  <2> QED  BY <1>2, <1>3, <2>1, <2>2 DEF Empty
<1>5. ASSUME NEW d \in DOMAIN dst, dst'[d].from = dst[d].from, dst'[d].level = dst[d].level
      PROVE  Filled(d)'
  BY <1>1, <1>2, <1>4, <1>5, FilledStays
<1>6. CASE WaitEffect(n)
  BY <1>5, <1>6 DEF WaitEffect, FromInv
<1>7. CASE \E d : KeepEffect(n, d)
  <2>1. PICK d : KeepEffect(n, d)
    BY <1>7
  <2>2. /\ DOMAIN dst' = DOMAIN dst /\ dst'[d].from = dst[d].from /\ dst'[d].level = dst[d].level
        /\ \A e \in DOMAIN dst : e # d => dst'[e] = dst[e]
    BY <2>1 DEF KeepEffect, Carries
  <2>3. \A e \in DOMAIN dst : dst'[e].from = dst[e].from /\ dst'[e].level = dst[e].level
    BY <2>2
  <2> QED  BY <1>5, <2>2, <2>3 DEF FromInv
<1>8. CASE BringEffect(n) \/ \E d : AppendEffect(n, d)
  <2>1. PICK D : Moves(n, D)
    BY <1>1, <1>8, MovesIs
  <2>2. PICK new : new = <<cur, n>>
    OBVIOUS
  <2>3. /\ DOMAIN dst' = (DOMAIN dst \ D) \cup {new}
        /\ \A e \in DOMAIN dst \ D : dst'[e].from = dst[e].from /\ dst'[e].level = dst[e].level
    BY <2>1, <2>2 DEF Moves, MoveEffect, Carries
  <2>4. Origin(new)' = src[n] /\ new[1] = cur /\ new[2] = n /\ mods'[cur] = src
    BY <1>1, <2>2 DEF Origin, src
  <2>5. Filled(new)'
    <3>1. CASE BringEffect(n)
      <4>1. dst'[new].from = <<>> /\ dst'[new].level = src[n].level /\ skip' = skip
        BY <2>2, <3>1 DEF BringEffect
      <4>2. Empty(new)'
        <5>1. Unfinished' = DOMAIN src
          BY <1>1, <1>2 DEF Unfinished
        <5> QED  BY <1>2, <2>4, <4>1, <5>1 DEF Empty
      <4>3. <<>> \in Seq(1 .. cur) /\ DOMAIN <<>> = {}
        OBVIOUS
      <4> QED  BY <1>2, <2>4, <4>1, <4>2, <4>3 DEF Filled
    <3>2. CASE \E d : AppendEffect(n, d)
      <4>1. PICK d : AppendEffect(n, d)
        BY <3>2
      <4>2. /\ d \in LinkedTo(n) /\ src[n].linkage = "appending" /\ dst[d].linkage = "appending"
            /\ dst'[new].from = dst[d].from /\ dst'[new].level = dst[d].level /\ skip' = skip \cup {n}
        BY <2>2, <4>1 DEF AppendEffect, Carries
      <4>3. d \in DOMAIN dst /\ d[2] = n
        BY <4>2, LinkedIsNamed
      <4>4. d # <<cur, n>> /\ d[1] \in 1 .. cur /\ n \in DOMAIN mods[d[1]] /\ d = <<d[1], d[2]>>
            /\ IsModule(mods[d[1]])
        BY <1>2, <4>3, GlobalOfComposite, ModulesRead DEF LinkType
      <4>5. Origin(d).linkage = "appending" /\ Filled(d)
        BY <1>2, <4>2, <4>3 DEF LinkageInv, FromInv
      <4>6. Origin(d).def /\ src[n].def
        BY <1>2, <4>2, <4>3, <4>4, <4>5, AppendingIs DEF Origin
      <4>7. ~Empty(d) /\ ~Empty(new)'
        BY <1>2, <2>4, <4>2, <4>3, <4>4 DEF Empty
      <4> QED  BY <1>1, <1>2, <2>4, <4>2, <4>3, <4>5, <4>6, <4>7 DEF Filled
    <3> QED  BY <1>8, <3>1, <3>2
  <2>6. \A e \in DOMAIN dst' : Filled(e)'
    BY <1>5, <2>3, <2>5
  <2> QED  BY <2>6 DEF FromInv
<1> QED  BY <1>6, <1>7, <1>8 DEF PrototypeStep

(* The other loops fill in contents once each.                              *)
LEMMA FromFill ==
  ASSUME LinkInv, NEW n \in DOMAIN map, FillStep(n)
  PROVE  FromInv'
<1> DEFINE S == Needed(n)
<1>1. /\ pc \in {"contents", "lazy"} /\ pc' = pc /\ mods' = mods /\ skip' = skip /\ FillEffect(n)
      /\ map[n] = <<cur, n>> /\ src[n].def
      /\ \/ pc = "contents" /\ n \in todo /\ todo' = todo \ {n} /\ lazy' = lazy \cup S
         \/ pc = "lazy" /\ n \in lazy /\ todo' = todo /\ lazy' = (lazy \ {n}) \cup S
  BY DEF FillStep
<1>2. /\ LinkType /\ FromInv /\ LoopInv /\ cur' = cur /\ src' = src /\ cur \in Nat /\ cur > 1
      /\ n \in DOMAIN src /\ IsModule(src) /\ <<cur, n>> \in DOMAIN dst /\ DOMAIN map \subseteq DOMAIN src
      /\ skip \subseteq DOMAIN src
  BY <1>1, RunningFacts, SameModules
<1>3. /\ DOMAIN dst' = DOMAIN dst \cup ({cur} \X S)
      /\ \A e \in DOMAIN dst :
           /\ dst'[e].level = dst[e].level
           /\ dst'[e].from = IF e = <<cur, n>> THEN Append(dst[e].from, cur) ELSE dst[e].from
      /\ \A m \in S : /\ m \in skip /\ MayWait(src[m]) /\ <<cur, m>> \notin DOMAIN dst
                      /\ dst'[<<cur, m>>].from = <<>> /\ dst'[<<cur, m>>].level = src[m].level
  <2>1. /\ DOMAIN dst' = DOMAIN dst \cup ({cur} \X S)
        /\ \A m \in S : /\ m \in skip /\ MayWait(src[m]) /\ <<cur, m>> \notin DOMAIN dst
                        /\ dst'[<<cur, m>>].from = <<>> /\ dst'[<<cur, m>>].level = src[m].level
    BY <1>1 DEF FillEffect
  <2>2. ASSUME NEW e \in DOMAIN dst
        PROVE  /\ dst'[e].level = dst[e].level
               /\ dst'[e].from = IF e = map[n] THEN Append(dst[e].from, cur) ELSE dst[e].from
    BY <1>1 DEF FillEffect
  <2> QED  BY <1>1, <2>1, <2>2
<1>4. n \notin S /\ n \in todo \cup lazy
  BY <1>1 DEF Needed
<1>5. /\ Unfinished = todo \cup lazy /\ Unfinished' = (todo' \cup lazy')
      /\ \A m : m # n /\ m \notin S => (m \in Unfinished' <=> m \in Unfinished)
      /\ S \subseteq Unfinished'
  BY <1>1 DEF Unfinished
<1> HIDE DEF S
<1>6. ASSUME NEW d \in DOMAIN dst, d # <<cur, n>>
      PROVE  Filled(d)'
  <2>1. d = <<d[1], d[2]>>
    BY <1>2, GlobalOfComposite
  <2>2. d[1] = cur => d[2] # n /\ d[2] \notin S
    BY <1>3, <1>6, <2>1
  <2>3. Origin(d)' = Origin(d)
    BY <1>1 DEF Origin
  <2>4. Empty(d)' <=> Empty(d)
    BY <1>1, <1>2, <1>5, <2>2, <2>3 DEF Empty
  <2> QED  BY <1>1, <1>2, <1>3, <1>6, <2>4, FilledStays
<1>7. ASSUME NEW d, d = <<cur, n>>
      PROVE  Filled(d)'
  <2>1. /\ d \in DOMAIN dst /\ Origin(d)' = src[n] /\ Origin(d) = src[n] /\ d[1] = cur /\ d[2] = n
        /\ mods[cur] = src
    BY <1>1, <1>2, <1>7 DEF Origin, src
  <2>2. /\ Filled(d) /\ dst'[d].from = Append(dst[d].from, cur) /\ dst'[d].level = dst[d].level
    BY <1>2, <1>3, <1>7, <2>1 DEF FromInv
  <2>3. PICK fr : fr = dst[d].from
    OBVIOUS
  <2>4. fr \in Seq(1 .. cur) /\ cur \in 1 .. cur
    BY <1>2, <2>2, <2>3 DEF Filled
  <2>5. /\ Append(fr, cur) \in Seq(1 .. cur) /\ Append(fr, cur) # <<>>
        /\ DOMAIN Append(fr, cur) = DOMAIN fr \cup {Len(fr) + 1}
        /\ \A j \in DOMAIN fr : Append(fr, cur)[j] = fr[j]
        /\ Append(fr, cur)[Len(fr) + 1] = cur
        /\ fr = <<>> => Append(fr, cur) = <<cur>> /\ Append(fr, cur)[1] = cur
        /\ fr # <<>> => Append(fr, cur)[1] = fr[1]
    <3>1. Len(fr) \in Nat /\ DOMAIN fr = 1 .. Len(fr) /\ DOMAIN Append(fr, cur) = 1 .. Len(fr) + 1
      BY <2>4
    <3>2. /\ \A j \in DOMAIN fr : Append(fr, cur)[j] = fr[j]
          /\ Append(fr, cur)[Len(fr) + 1] = cur /\ Append(fr, cur) \in Seq(1 .. cur)
      BY <2>4
    <3>3. fr = <<>> => Append(fr, cur) = <<cur>> /\ Append(fr, cur)[1] = cur
      OBVIOUS
    <3>4. fr # <<>> => 1 \in DOMAIN fr
      BY <2>4
    <3>5. DOMAIN Append(fr, cur) = DOMAIN fr \cup {Len(fr) + 1} /\ Append(fr, cur) # <<>>
      <4>1. PICK k : k = Len(fr)
        OBVIOUS
      <4>2. k \in Nat /\ 1 .. k + 1 = (1 .. k) \cup {k + 1} /\ 1 \in 1 .. k + 1
        BY <3>1, <4>1
      <4>3. DOMAIN Append(fr, cur) = DOMAIN fr \cup {Len(fr) + 1}
        BY <3>1, <4>1, <4>2
      <4>4. Append(fr, cur) # <<>>
        <5>1. 1 \in DOMAIN Append(fr, cur)
          BY <3>1, <4>1, <4>2
        <5>2. DOMAIN <<>> = {}
          OBVIOUS
        <5> QED  BY <5>1, <5>2
      <4> QED  BY <4>3, <4>4
    <3> QED  BY <3>2, <3>3, <3>4, <3>5
  <2>6. ~Empty(d)'
    <3> SUFFICES ASSUME n \in todo' \cup lazy', src[n].linkage # "appending" \/ n \notin skip PROVE FALSE
      BY <1>1, <1>2, <1>5, <2>1 DEF Empty
    <3>0. pc = "lazy" => todo = {}
      BY <1>2 DEF LoopInv
    <3>1. pc = "contents" /\ n \in lazy /\ n \in todo
      BY <1>1, <1>4, <3>0
    <3>2. n \in skip /\ MayWait(src[n]) /\ n \in WithContents
      BY <1>2, <3>1 DEF LoopInv
    <3>3. n \in Appended
      BY <3>2 DEF WithContents
    <3> QED  BY <3>2, <3>3 DEF Appended
  <2>7. src[n].linkage # "appending" => fr = <<>>
    <3>1. src[n].linkage # "appending" => Empty(d)
      BY <1>2, <1>4, <1>5, <2>1 DEF Empty
    <3> QED  BY <2>2, <2>3, <3>1 DEF Filled
  <2>8. /\ dst'[d].from = Append(fr, cur)
        /\ \A j \in DOMAIN fr : n \in DOMAIN mods[fr[j]]
        /\ dst'[d].level = mods[IF fr = <<>> THEN cur ELSE fr[1]][n].level
    BY <2>1, <2>2, <2>3 DEF Filled
  <2>9. \A j \in DOMAIN Append(fr, cur) : n \in DOMAIN mods[Append(fr, cur)[j]]
    BY <1>2, <2>1, <2>5, <2>8
  <2>10. dst'[d].level = mods[Append(fr, cur)[1]][n].level
    BY <2>5, <2>8
  <2> QED  BY <1>1, <1>2, <2>1, <2>5, <2>6, <2>7, <2>8, <2>9, <2>10 DEF Filled
<1>8. ASSUME NEW m \in S, NEW d, d = <<cur, m>>
      PROVE  Filled(d)'
  <2>1. /\ m \in DOMAIN src /\ Origin(d)' = src[m] /\ d[1] = cur /\ d[2] = m /\ mods[cur] = src
    BY <1>1, <1>2, <1>3, <1>8 DEF Origin, src
  <2>2. src[m].linkage # "appending"
    BY <1>3 DEF MayWait
  <2>3. Empty(d)'
    BY <1>2, <1>5, <2>1, <2>2 DEF Empty
  <2>4. dst'[d].from = <<>> /\ dst'[d].level = src[m].level
    BY <1>3, <1>8
  <2>5. <<>> \in Seq(1 .. cur) /\ DOMAIN <<>> = {}
    OBVIOUS
  <2> QED  BY <1>1, <1>2, <2>1, <2>3, <2>4, <2>5 DEF Filled
<1>9. \A d \in DOMAIN dst' : Filled(d)'
  <2> SUFFICES ASSUME NEW d \in DOMAIN dst' PROVE Filled(d)'
    OBVIOUS
  <2>1. CASE d \in DOMAIN dst
    BY <1>6, <1>7, <2>1
  <2>2. CASE d \in {cur} \X S
    <3>1. PICK m \in S : d = <<cur, m>>
      BY <2>2
    <3> QED  BY <1>8, <3>1
  <2> QED  BY <1>3, <2>1, <2>2
<1> QED  BY <1>9 DEF FromInv

(* Between the loops nothing is left without its contents.                  *)
LEMMA FromTurn ==
  ASSUME LinkInv, Turn
  PROVE  FromInv'
<1>1. /\ mods' = mods /\ dst' = dst /\ skip' = skip /\ lazy' = lazy
      /\ pc \in {"prototypes", "contents", "lazy"} /\ pc' \in {"contents", "lazy", "read"}
      /\ \/ pc = "prototypes" /\ todo = {} /\ todo' = WithContents
         \/ pc \in {"contents", "lazy"} /\ todo' = todo
  BY DEF Turn
<1>2. /\ LinkType /\ FromInv /\ LoopInv /\ MapInv /\ cur' = cur /\ src' = src /\ IsModule(src)
      /\ skip \subseteq DOMAIN src
  BY <1>1, RunningFacts, SameModules
<1>3. CASE pc \in {"contents", "lazy"} /\ todo' = todo
  <2>1. Unfinished' = Unfinished
    BY <1>1, <1>3 DEF Unfinished
  <2>2. \A d \in DOMAIN dst : Empty(d)' <=> Empty(d)
    BY <1>1, <1>2, <2>1 DEF Empty, Origin
  <2> QED  BY <1>1, <1>2, <2>2, FilledStays DEF FromInv
<1>4. CASE pc = "prototypes" /\ todo = {} /\ todo' = WithContents
  <2>1. Unfinished = DOMAIN src /\ Unfinished' = WithContents
    <3>1. lazy = {}
      BY <1>2, <1>4 DEF LoopInv
    <3> QED  BY <1>1, <1>4, <3>1 DEF Unfinished
  <2>2. ASSUME NEW d \in DOMAIN dst PROVE Filled(d)'
    <3>1. Filled(d) /\ Origin(d)' = Origin(d) /\ d = <<d[1], d[2]>> /\ d[2] \in DOMAIN mods[d[1]]
      BY <1>1, <1>2, GlobalOfComposite DEF FromInv, Origin
    <3>2. CASE d[1] # cur
      <4>1. Empty(d)' <=> Empty(d)
        BY <1>2, <3>2 DEF Empty
      <4> QED  BY <1>1, <1>2, <4>1, FilledStays
    <3>3. CASE d[1] = cur
      <4>1. Origin(d) = src[d[2]] /\ d[2] \in DOMAIN src /\ <<cur, d[2]>> \in DOMAIN dst
        BY <3>1, <3>3 DEF Origin, src
      <4>2. d[2] \in DOMAIN map /\ map[d[2]] = <<cur, d[2]>>
        BY <1>2, <4>1 DEF MapInv
      <4>3. d[2] \in skip => src[d[2]].linkage = "appending" /\ src[d[2]].def
        <5>1. d[2] \in skip => src[d[2]].linkage = "appending"
          BY <1>2, <1>4, <4>2 DEF LoopInv
        <5> QED  BY <1>2, <4>1, <5>1, AppendingIs
      <4>4. ~src[d[2]].def \/ Empty(d)' <=> ~src[d[2]].def \/ Empty(d)
        BY <1>1, <1>2, <2>1, <3>1, <4>1, <4>3 DEF Empty, WithContents
      <4> QED  BY <1>1, <1>2, <3>1, <4>1, <4>4 DEF Filled
    <3> QED  BY <3>2, <3>3
  <2> QED  BY <1>1, <2>2 DEF FromInv
<1> QED  BY <1>1, <1>3, <1>4

(* The composite made of the first module has its contents.                 *)
LEMMA FromRead ==
  ASSUME LinkInv, ReadFile
  PROVE  FromInv'
<1>1. /\ pc = "read" /\ cur \in Nat /\ cur' = cur + 1
      /\ \A i \in 1 .. cur : mods'[i] = mods[i]
      /\ src' = mods'[cur + 1] /\ IsModule(src') /\ DOMAIN src' \subseteq Names
      /\ cur = 0 => dst' = Composite(src')
      /\ cur > 0 => dst' = dst
  BY ReadIs
<1>2. CASE cur = 0
  <2> DEFINE mod == src'
  <2>1. IsModule(mod) /\ DOMAIN mod \subseteq Names
    BY <1>1
  <2> HIDE DEF mod
  <2>2. /\ DOMAIN Composite(mod) = {1} \X DOMAIN mod
        /\ Composite(mod) \in [DOMAIN Composite(mod) -> Composed]
        /\ \A n \in DOMAIN mod :
             LET g == Composite(mod)[<<1, n>>]
             IN /\ g.linkage = mod[n].linkage /\ g.level = mod[n].level /\ g.hidden = mod[n].hidden
                /\ g.import = mod[n].import /\ g.named
                /\ g.from = (IF mod[n].def THEN <<1>> ELSE <<>>)
                /\ g.refs = {1} \X mod[n].refs /\ g.refs \subseteq {1} \X DOMAIN mod
    BY <2>1, CompositeIs
  <2>3. dst' = Composite(mod) /\ mods'[1] = mod /\ cur' = 1
    BY <1>1, <1>2 DEF mod
  <2>4. ASSUME NEW d \in DOMAIN dst' PROVE Filled(d)'
    <3>1. d = <<1, d[2]>> /\ d[1] = 1 /\ d[2] \in DOMAIN mod
      BY <2>2, <2>3, <2>4
    <3>2. /\ dst'[d].from = (IF mod[d[2]].def THEN <<1>> ELSE <<>>) /\ dst'[d].level = mod[d[2]].level
          /\ Origin(d)' = mod[d[2]]
      BY <2>2, <2>3, <3>1 DEF Origin
    <3>3. ~Empty(d)'
      BY <2>3 DEF Empty
    <3>4. /\ <<1>> \in Seq(1 .. cur') /\ <<>> \in Seq(1 .. cur') /\ <<1>> # <<>>
          /\ DOMAIN <<1>> = {1} /\ <<1>>[1] = 1 /\ DOMAIN <<>> = {}
      BY <2>3
    <3> QED  BY <2>3, <3>1, <3>2, <3>3, <3>4 DEF Filled
  <2> QED  BY <2>4 DEF FromInv
<1>3. CASE cur > 0
  <2>1. /\ dst' = dst /\ FromInv /\ LoopInv /\ LinkType
    BY <1>1, <1>3 DEF LinkInv, Running
  <2>2. ASSUME NEW d \in DOMAIN dst PROVE Filled(d)'
    <3>1. Filled(d) /\ d[1] \in 1 .. cur
      BY <2>1, GlobalOfComposite DEF FromInv
    <3>2. Origin(d)' = Origin(d)
      BY <1>1, <3>1 DEF Origin
    <3>3. ~Empty(d)
      BY <1>1, <2>1 DEF Empty, Unfinished, LoopInv
    <3>4. ~Empty(d)'
      BY <1>1, <3>1 DEF Empty
    <3>5. PICK fr : fr = dst[d].from
      OBVIOUS
    <3>6. fr \in Seq(1 .. cur)
      BY <3>1, <3>5 DEF Filled
    <3>7. fr \in Seq(1 .. cur') /\ \A j \in DOMAIN fr : fr[j] \in 1 .. cur
      BY <1>1, <3>6
    <3>8. fr # <<>> => 1 \in DOMAIN fr
      BY <3>6
    <3>9. /\ \A j \in DOMAIN fr : d[2] \in DOMAIN mods'[fr[j]]
          /\ dst[d].level = mods'[IF fr = <<>> THEN d[1] ELSE fr[1]][d[2]].level
      BY <1>1, <3>1, <3>5, <3>7, <3>8 DEF Filled
    <3> QED  BY <2>1, <3>1, <3>2, <3>3, <3>4, <3>5, <3>7, <3>9 DEF Filled
  <2> QED  BY <2>1, <2>2 DEF FromInv
<1> QED  BY <1>1, <1>2, <1>3

(* Whose contents a global has, at every step of a linking that goes on.    *)
LEMMA FromStep ==
  ASSUME LinkInv, [Next]_vars, pc' # "failed"
  PROVE  FromInv'
<1>1. CASE UNCHANGED vars
  <2>1. mods' = mods /\ dst' = dst /\ FromInv /\ cur' = cur /\ src' = src
    BY <1>1, SameModules DEF vars, LinkInv, Running
  <2>2. Unfinished' = Unfinished /\ \A d : Empty(d)' <=> Empty(d)
    BY <1>1, <2>1 DEF vars, Unfinished, Empty, Origin
  <2> QED  BY <2>1, <2>2, FilledStays DEF FromInv
<1> QED  BY <1>1, StepIs, FromPrototype, FromFill, FromTurn, FromRead

-----------------------------------------------------------------------------
(* What a global mentions.                                                  *)

(* A global that goes on to mention what it did, while symbols stay.        *)
LEMMA ResolvesStays ==
  ASSUME RefsInv, mods' = mods, NEW d \in DOMAIN dst,
         dst'[d].from = dst[d].from, dst'[d].refs = dst[d].refs,
         \A m : ~ImportSpoils(m) /\ Symbol(m) # {} => Symbol(m)' = Symbol(m)
  PROVE  Resolves(d)'
<1>1. Mentioned(d)' = Mentioned(d) /\ \A m : ImportSpoils(m)' <=> ImportSpoils(m)
  BY SameModules DEF Mentioned
<1>2. \A i, m : Resolved(i, m)' = IF IsLocal(mods[i][m]) THEN {<<i, m>>} ELSE Symbol(m)'
  BY DEF Resolved, IsLocal
<1>3. \A i, m : Resolved(i, m) = IF IsLocal(mods[i][m]) THEN {<<i, m>>} ELSE Symbol(m)
  BY DEF Resolved
<1>4. \A i, m : ~ImportSpoils(m) /\ Resolved(i, m) # {} => Resolved(i, m)' = Resolved(i, m)
  BY <1>2, <1>3
<1>5. Resolves(d)
  BY DEF RefsInv
<1>6. ASSUME NEW x \in dst'[d].refs
      PROVE  \E e \in Mentioned(d)' : e[2] = x[2] /\ (~ImportSpoils(x[2])' => x \in Resolved(e[1], e[2])')
  <2>1. PICK e \in Mentioned(d) : e[2] = x[2] /\ (~ImportSpoils(x[2]) => x \in Resolved(e[1], e[2]))
    BY <1>5, <1>6 DEF Resolves
  <2>2. ~ImportSpoils(x[2]) => x \in Resolved(e[1], e[2])'
    BY <1>4, <2>1
  <2> QED  BY <1>1, <2>1, <2>2
<1>7. ASSUME NEW e \in Mentioned(d)', ~ImportSpoils(e[2])'
      PROVE  Resolved(e[1], e[2])' # {} /\ Resolved(e[1], e[2])' \subseteq dst'[d].refs
  <2>1. e \in Mentioned(d) /\ ~ImportSpoils(e[2])
    BY <1>1, <1>7
  <2>2. Resolved(e[1], e[2]) # {} /\ Resolved(e[1], e[2]) \subseteq dst[d].refs
    BY <1>5, <2>1 DEF Resolves
  <2> QED  BY <1>4, <2>1, <2>2
<1> QED  BY <1>6, <1>7 DEF Resolves

(* A local global is nobody's symbol.                                       *)
LEMMA LocalIsNoSymbol ==
  ASSUME LinkageInv, NEW i, NEW m, IsLocal(mods[i][m])
  PROVE  <<i, m>> \notin Symbol(m)
BY DEF LinkageInv, Symbol, NamedValue, IsLocal, Origin

(* When a global takes the place of others, what mentioned them mentions it. *)
LEMMA ResolvesMoves ==
  ASSUME LinkInv, pc = "prototypes", NEW n \in todo, NEW D, Moves(n, D), mods' = mods,
         NEW d \in DOMAIN dst, NEW t, t[2] = d[2], dst'[t].from = dst[d].from,
         dst'[t].refs = Redirected(dst[d].refs, D, <<cur, n>>)
  PROVE  Resolves(t)'
<1>1. Mentioned(t)' = Mentioned(d) /\ \A m : ImportSpoils(m)' <=> ImportSpoils(m)
  BY SameModules DEF Mentioned
<1>2. \A i, m : Resolved(i, m)' = IF IsLocal(mods[i][m]) THEN {<<i, m>>} ELSE Symbol(m)'
  BY DEF Resolved, IsLocal
<1>3. \A i, m : Resolved(i, m) = IF IsLocal(mods[i][m]) THEN {<<i, m>>} ELSE Symbol(m)
  BY DEF Resolved
<1>4. \A m : Symbol(m)' = IF m = n /\ ~IsLocal(src[n]) THEN {<<cur, n>>} ELSE Symbol(m)
  BY MoveSymbol
<1>5. Resolves(d) /\ LinkageInv
  BY RunningFacts DEF RefsInv
<1>6. D = IF IsLocal(src[n]) THEN {} ELSE Symbol(n)
  <2>1. LinkedTo(n) = IF IsLocal(src[n]) THEN {} ELSE Symbol(n)
    BY LinkedIsSymbol
  <2> QED  BY <2>1 DEF Moves
<1>7. \A m : \A x \in Symbol(m) : x[2] = m
  BY DEF Symbol, NamedValue
<1>8. ASSUME NEW e \in Mentioned(d), NEW x \in dst[d].refs, x \notin D, e[2] = x[2], x \in Resolved(e[1], e[2])
      PROVE  x \in Resolved(e[1], e[2])'
  BY <1>2, <1>3, <1>4, <1>6, <1>7, <1>8
<1>9. ASSUME NEW x \in dst'[t].refs
      PROVE  \E e \in Mentioned(t)' : e[2] = x[2] /\ (~ImportSpoils(x[2])' => x \in Resolved(e[1], e[2])')
  <2>1. CASE x \in dst[d].refs \ D
    <3>1. PICK e \in Mentioned(d) : e[2] = x[2] /\ (~ImportSpoils(x[2]) => x \in Resolved(e[1], e[2]))
      BY <1>5, <2>1 DEF Resolves
    <3> QED  BY <1>1, <1>8, <2>1, <3>1
  <2>2. CASE x \notin dst[d].refs \ D
    <3>1. x = <<cur, n>> /\ dst[d].refs \cap D # {}
      BY <1>9, <2>2 DEF Redirected
    <3>2. PICK y : y \in dst[d].refs /\ y \in D
      BY <3>1
    <3>3. ~IsLocal(src[n]) /\ y \in Symbol(n) /\ y[2] = n /\ x[2] = n
      BY <1>6, <1>7, <3>1, <3>2
    <3>4. PICK e \in Mentioned(d) : e[2] = n /\ (~ImportSpoils(n) => y \in Resolved(e[1], n))
      BY <1>5, <3>2, <3>3 DEF Resolves
    <3>5. ASSUME ~ImportSpoils(n) PROVE x \in Resolved(e[1], n)'
      <4>1. ~IsLocal(mods[e[1]][n])
        <5> SUFFICES ASSUME IsLocal(mods[e[1]][n]) PROVE FALSE
          OBVIOUS
        <5>1. y = <<e[1], n>>
          BY <1>3, <3>4, <3>5
        <5>2. <<e[1], n>> \notin Symbol(n)
          BY <1>5, LocalIsNoSymbol
        <5> QED  BY <3>3, <5>1, <5>2
      <4> QED  BY <1>2, <1>4, <3>1, <3>3, <4>1
    <3> QED  BY <1>1, <3>3, <3>4, <3>5
  <2> QED  BY <2>1, <2>2
<1>10. ASSUME NEW e \in Mentioned(t)', ~ImportSpoils(e[2])'
       PROVE  Resolved(e[1], e[2])' # {} /\ Resolved(e[1], e[2])' \subseteq dst'[t].refs
  <2>1. e \in Mentioned(d) /\ ~ImportSpoils(e[2])
    BY <1>1, <1>10
  <2>2. Resolved(e[1], e[2]) # {} /\ Resolved(e[1], e[2]) \subseteq dst[d].refs
    BY <1>5, <2>1 DEF Resolves
  <2>3. CASE IsLocal(mods[e[1]][e[2]])
    <3>1. <<e[1], e[2]>> \notin Symbol(e[2])
      BY <1>5, <2>3, LocalIsNoSymbol
    <3>2. <<e[1], e[2]>> \notin D
      <4>1. <<e[1], e[2]>>[2] = e[2]
        OBVIOUS
      <4> QED  BY <1>6, <1>7, <3>1, <4>1
    <3> QED  BY <1>2, <1>3, <2>2, <2>3, <3>2 DEF Redirected
  <2>4. CASE ~IsLocal(mods[e[1]][e[2]]) /\ (e[2] # n \/ IsLocal(src[n]))
    <3>1. Symbol(e[2])' = Symbol(e[2]) /\ Symbol(e[2]) \cap D = {}
      BY <1>4, <1>6, <1>7, <2>4
    <3> QED  BY <1>2, <1>3, <2>2, <2>4, <3>1 DEF Redirected
  <2>5. CASE ~IsLocal(mods[e[1]][e[2]]) /\ e[2] = n /\ ~IsLocal(src[n])
    <3>1. Resolved(e[1], e[2])' = {<<cur, n>>} /\ D = Resolved(e[1], e[2])
      BY <1>2, <1>3, <1>4, <1>6, <2>5
    <3> QED  BY <2>2, <3>1 DEF Redirected
  <2> QED  BY <2>3, <2>4, <2>5
<1> QED  BY <1>9, <1>10 DEF Resolves

(* The first loop redirects mentions.                                       *)
LEMMA RefsPrototype ==
  ASSUME LinkInv, NEW n \in todo, PrototypeStep(n)
  PROVE  RefsInv'
<1>1. pc = "prototypes" /\ mods' = mods /\ RefsInv
  BY RunningFacts DEF PrototypeStep
<1>2. CASE WaitEffect(n)
  <2>1. dst' = dst /\ \A m : Symbol(m)' = Symbol(m)
    BY <1>2 DEF WaitEffect, Symbol, NamedValue, IsLocal
  <2> QED  BY <1>1, <2>1, ResolvesStays DEF RefsInv
<1>3. CASE \E d : KeepEffect(n, d)
  <2>1. PICK d : KeepEffect(n, d)
    BY <1>3
  <2>2. /\ DOMAIN dst' = DOMAIN dst /\ dst'[d].from = dst[d].from /\ dst'[d].refs = dst[d].refs
        /\ \A e \in DOMAIN dst : e # d => dst'[e] = dst[e]
    BY <2>1 DEF KeepEffect, Carries
  <2>3. \A m : ~ImportSpoils(m) => Symbol(m)' = Symbol(m)
    BY <1>1, <2>1, KeepSymbol
  <2>4. \A e \in DOMAIN dst : Resolves(e)'
    <3> SUFFICES ASSUME NEW e \in DOMAIN dst PROVE Resolves(e)'
      OBVIOUS
    <3>1. dst'[e].from = dst[e].from /\ dst'[e].refs = dst[e].refs
      BY <2>2
    <3> QED  BY <1>1, <2>3, <3>1, ResolvesStays
  <2> QED  BY <2>2, <2>4 DEF RefsInv
<1>4. CASE BringEffect(n) \/ \E d : AppendEffect(n, d)
  <2>1. PICK D : Moves(n, D) /\ (\A d : AppendEffect(n, d) => D = {d})
    <3>1. BringEffect(n) => Moves(n, LinkedTo(n))
      BY <1>1, MovesIs
    <3>2. \A d : AppendEffect(n, d) => Moves(n, {d}) /\ LinkedTo(n) = {d}
      BY <1>1, MovesIs
    <3> QED  BY <1>4, <3>1, <3>2
  <2>0. PICK new : new = <<cur, n>>
    OBVIOUS
  <2>2. new = <<cur, n>> /\ new[2] = n
    BY <2>0
  <2>3. /\ DOMAIN dst' = (DOMAIN dst \ D) \cup {new} /\ D \subseteq LinkedTo(n)
        /\ \A e \in DOMAIN dst \ D :
             dst'[e].from = dst[e].from /\ dst'[e].refs = Redirected(dst[e].refs, D, <<cur, n>>)
    BY <2>1, <2>2 DEF Moves, MoveEffect, Carries
  <2>4. \A e \in DOMAIN dst \ D : Resolves(e)'
    BY <1>1, <2>1, <2>3, ResolvesMoves
  <2>5. CASE BringEffect(n)
    <3>1. dst'[new].from = <<>> /\ dst'[new].refs = {}
      BY <2>2, <2>5 DEF BringEffect
    <3>2. Mentioned(new)' = {}
      <4>1. DOMAIN <<>> = {}
        OBVIOUS
      <4> QED  BY <3>1, <4>1 DEF Mentioned
    <3>3. Resolves(new)'
      BY <3>1, <3>2 DEF Resolves
    <3> QED  BY <2>3, <2>4, <3>3 DEF RefsInv
  <2>6. CASE \E d : AppendEffect(n, d)
    <3>1. PICK d : AppendEffect(n, d)
      BY <2>6
    <3>2. D = {d} /\ d \in LinkedTo(n)
      BY <2>1, <3>1 DEF AppendEffect
    <3>3. dst'[new].from = dst[d].from /\ dst'[new].refs = Redirected(dst[d].refs, {d}, <<cur, n>>)
      BY <2>2, <3>1 DEF AppendEffect, Carries
    <3>4. d \in DOMAIN dst /\ d[2] = n
      BY <3>2, LinkedIsNamed
    <3>5. Resolves(new)'
      BY <1>1, <2>1, <2>2, <3>2, <3>3, <3>4, ResolvesMoves
    <3> QED  BY <2>3, <2>4, <3>5 DEF RefsInv
  <2> QED  BY <1>4, <2>5, <2>6
<1> QED  BY <1>2, <1>3, <1>4 DEF PrototypeStep

(* The other loops resolve what contents mention.                           *)
LEMMA RefsFill ==
  ASSUME LinkInv, LinkType', NameInv', NEW n \in DOMAIN map, FillStep(n)
  PROVE  RefsInv'
<1> DEFINE S == Needed(n)
<1>1. /\ pc \in {"contents", "lazy"} /\ mods' = mods /\ FillEffect(n) /\ map[n] = <<cur, n>>
  BY DEF FillStep
<1>2. /\ RefsInv /\ cur' = cur /\ src' = src /\ MapInv' /\ n \in DOMAIN src /\ IsModule(src)
      /\ DOMAIN map \subseteq DOMAIN src /\ FromInv
  BY <1>1, RunningFacts, SameModules, MapFill
<1>3. /\ DOMAIN dst' = DOMAIN dst \cup ({cur} \X S)
      /\ \A m \in S : /\ LinkedTo(m) = {} /\ <<cur, m>> \notin DOMAIN dst
                      /\ dst'[<<cur, m>>].from = <<>> /\ dst'[<<cur, m>>].refs = {}
      /\ DOMAIN map' = DOMAIN map \cup S
  BY <1>1 DEF FillEffect
<1>4. ASSUME NEW e \in DOMAIN dst
      PROVE  IF e = <<cur, n>>
               THEN /\ dst'[e].from = Append(dst[e].from, cur)
                    /\ dst'[e].refs = dst[e].refs \cup { map'[m] : m \in src[n].refs }
               ELSE dst'[e].from = dst[e].from /\ dst'[e].refs = dst[e].refs
  BY <1>1 DEF FillEffect
<1>5. \A m : Symbol(m)' = IF m \in S /\ ~IsLocal(src[m]) THEN {<<cur, m>>} ELSE Symbol(m)
  BY <1>1, FillSymbol
<1>6. \A m : m \in S /\ ~IsLocal(src[m]) => Symbol(m) = {}
  BY <1>3, LinkedIsSymbol
<1>7. \A m : Symbol(m) # {} => Symbol(m)' = Symbol(m)
  BY <1>5, <1>6
<1>8. src[n].refs \subseteq DOMAIN map'
  BY <1>3 DEF Needed
<1> HIDE DEF S
<1>9. ASSUME NEW e \in DOMAIN dst, e # <<cur, n>> PROVE Resolves(e)'
  BY <1>1, <1>2, <1>4, <1>7, <1>9, ResolvesStays
<1>10. ASSUME NEW m \in S, NEW e, e = <<cur, m>> PROVE Resolves(e)'
  <2>1. dst'[e].from = <<>> /\ dst'[e].refs = {} /\ DOMAIN <<>> = {}
    BY <1>3, <1>10
  <2>2. Mentioned(e)' = {}
    BY <2>1 DEF Mentioned
  <2> QED  BY <2>1, <2>2 DEF Resolves
<1>11. ASSUME NEW d \in DOMAIN dst, d = <<cur, n>> PROVE Resolves(d)'
  <2>1. d[2] = n /\ Resolves(d) /\ dst[d].from \in Seq(1 .. cur) /\ mods[cur] = src
    BY <1>2, <1>11 DEF RefsInv, FromInv, Filled, src
  <2>2. PICK fr : fr = dst[d].from
    OBVIOUS
  <2>3. /\ DOMAIN Append(fr, cur) = DOMAIN fr \cup {Len(fr) + 1}
        /\ \A j \in DOMAIN fr : Append(fr, cur)[j] = fr[j]
        /\ Append(fr, cur)[Len(fr) + 1] = cur
    <3>1. fr \in Seq(1 .. cur)
      BY <2>1, <2>2
    <3>2. Len(fr) \in Nat /\ DOMAIN fr = 1 .. Len(fr) /\ DOMAIN Append(fr, cur) = 1 .. Len(fr) + 1
      BY <3>1
    <3>3. /\ \A j \in DOMAIN fr : Append(fr, cur)[j] = fr[j]
          /\ Append(fr, cur)[Len(fr) + 1] = cur
      BY <3>1
    <3> QED  BY <3>2, <3>3
  <2>4. Mentioned(d)' = Mentioned(d) \cup ({cur} \X src[n].refs)
    <3>1. dst'[d].from = Append(fr, cur)
      BY <1>4, <1>11, <2>2
    <3>2. Mentioned(d)' = UNION { {Append(fr, cur)[j]} \X mods[Append(fr, cur)[j]][n].refs :
                                    j \in DOMAIN Append(fr, cur) }
      BY <1>1, <2>1, <3>1 DEF Mentioned
    <3>3. Mentioned(d) = UNION { {fr[j]} \X mods[fr[j]][n].refs : j \in DOMAIN fr }
      BY <2>1, <2>2 DEF Mentioned
    <3>4. \A e : e \in Mentioned(d)' <=> \E j \in DOMAIN Append(fr, cur) :
                    e \in {Append(fr, cur)[j]} \X mods[Append(fr, cur)[j]][n].refs
      BY <3>2
    <3>5. \A e : e \in Mentioned(d) <=> \E j \in DOMAIN fr : e \in {fr[j]} \X mods[fr[j]][n].refs
      BY <3>3
    <3>6. \A e : e \in Mentioned(d)' <=> e \in Mentioned(d) \/ e \in {cur} \X src[n].refs
      BY <2>1, <2>3, <3>4, <3>5
    <3> QED  BY <3>6
  <2>5. \A i, m : Resolved(i, m)' = IF IsLocal(mods[i][m]) THEN {<<i, m>>} ELSE Symbol(m)'
    BY <1>1 DEF Resolved, IsLocal
  <2>6. \A i, m : Resolved(i, m) = IF IsLocal(mods[i][m]) THEN {<<i, m>>} ELSE Symbol(m)
    BY DEF Resolved
  <2>7. \A i, m : Resolved(i, m) # {} => Resolved(i, m)' = Resolved(i, m)
    BY <1>7, <2>5, <2>6
  <2>8. dst'[d].refs = dst[d].refs \cup { map'[m] : m \in src[n].refs }
    BY <1>4, <1>11
  <2>9. \A m : ImportSpoils(m)' <=> ImportSpoils(m)
    BY <1>1, SameModules
  <2>0. PICK i : i = cur
    OBVIOUS
  <2>10. ASSUME NEW m \in src[n].refs, ~ImportSpoils(m)
         PROVE  Resolved(i, m)' = {map'[m]}
    <3>1. m \in DOMAIN map' /\ ~ImportSpoils(m)'
      BY <1>8, <2>9, <2>10
    <3>2. CASE IsLocal(src[m])
      <4>1. map'[m] = <<cur, m>>
        BY <1>2, <3>1, <3>2 DEF MapInv, IsLocal
      <4> QED  BY <2>0, <2>1, <2>5, <3>2, <4>1
    <3>3. CASE ~IsLocal(src[m])
      <4>1. map'[m] \in Symbol(m)'
        BY <1>2, <3>1, <3>3 DEF MapInv, IsLocal
      <4>2. \A x \in Symbol(m)' : x = map'[m]
        BY <4>1 DEF NameInv, Symbol, NamedValue
      <4> QED  BY <2>0, <2>1, <2>5, <3>3, <4>1, <4>2
    <3> QED  BY <3>2, <3>3
  <2>11. ASSUME NEW x \in dst'[d].refs
         PROVE  \E e \in Mentioned(d)' : e[2] = x[2] /\ (~ImportSpoils(x[2])' => x \in Resolved(e[1], e[2])')
    <3>1. CASE x \in dst[d].refs
      <4>1. PICK e \in Mentioned(d) : e[2] = x[2] /\ (~ImportSpoils(x[2]) => x \in Resolved(e[1], e[2]))
        BY <2>1, <3>1 DEF Resolves
      <4>2. ~ImportSpoils(x[2]) => x \in Resolved(e[1], e[2])'
        BY <2>7, <4>1
      <4> QED  BY <2>4, <2>9, <4>1, <4>2
    <3>2. CASE x \in { map'[m] : m \in src[n].refs }
      <4>1. PICK m \in src[n].refs : x = map'[m]
        BY <3>2
      <4>2. x[2] = m
        BY <1>8, <4>1 DEF LinkType, MapType
      <4>0. PICK e : e = <<i, m>>
        OBVIOUS
      <4>3. e \in Mentioned(d)' /\ e[1] = i /\ e[2] = m
        BY <2>0, <2>4, <4>0
      <4>4. ~ImportSpoils(m) => x \in Resolved(e[1], e[2])'
        BY <2>10, <4>1, <4>3
      <4> QED  BY <2>9, <4>2, <4>3, <4>4
    <3> QED  BY <2>8, <3>1, <3>2
  <2>12. ASSUME NEW e \in Mentioned(d)', ~ImportSpoils(e[2])'
         PROVE  Resolved(e[1], e[2])' # {} /\ Resolved(e[1], e[2])' \subseteq dst'[d].refs
    <3>1. ~ImportSpoils(e[2])
      BY <2>9, <2>12
    <3>2. CASE e \in Mentioned(d)
      <4>1. Resolved(e[1], e[2]) # {} /\ Resolved(e[1], e[2]) \subseteq dst[d].refs
        BY <2>1, <3>1, <3>2 DEF Resolves
      <4> QED  BY <2>7, <2>8, <4>1
    <3>3. CASE e \in {cur} \X src[n].refs
      <4>1. e[1] = i /\ e[2] \in src[n].refs
        BY <2>0, <3>3
      <4>2. Resolved(e[1], e[2])' = {map'[e[2]]}
        BY <2>10, <3>1, <4>1
      <4> QED  BY <2>8, <4>1, <4>2
    <3> QED  BY <2>4, <3>2, <3>3
  <2> QED  BY <2>11, <2>12 DEF Resolves
<1>12. \A d \in DOMAIN dst' : Resolves(d)'
  <2> SUFFICES ASSUME NEW d \in DOMAIN dst' PROVE Resolves(d)'
    OBVIOUS
  <2>1. CASE d \in DOMAIN dst
    BY <1>9, <1>11, <2>1
  <2>2. CASE d \in {cur} \X S
    <3>1. PICK m \in S : d = <<cur, m>>
      BY <2>2
    <3> QED  BY <1>10, <3>1
  <2> QED  BY <1>3, <2>1, <2>2
<1> QED  BY <1>12 DEF RefsInv

(* The first module mentions its own globals; reading another changes none. *)
LEMMA RefsRead ==
  ASSUME LinkInv, ReadFile
  PROVE  RefsInv'
<1>1. /\ pc = "read" /\ cur \in Nat /\ cur' = cur + 1
      /\ \A i \in 1 .. cur : mods'[i] = mods[i]
      /\ src' = mods'[cur + 1] /\ IsModule(src') /\ DOMAIN src' \subseteq Names
      /\ cur = 0 => dst' = Composite(src')
      /\ cur > 0 => dst' = dst
  BY ReadIs
<1>2. CASE cur = 0
  <2> DEFINE mod == src'
  <2>1. IsModule(mod) /\ DOMAIN mod \subseteq Names
    BY <1>1
  <2> HIDE DEF mod
  <2>2. /\ DOMAIN Composite(mod) = {1} \X DOMAIN mod
        /\ Composite(mod) \in [DOMAIN Composite(mod) -> Composed]
        /\ \A n \in DOMAIN mod :
             LET g == Composite(mod)[<<1, n>>]
             IN /\ g.linkage = mod[n].linkage /\ g.level = mod[n].level /\ g.hidden = mod[n].hidden
                /\ g.import = mod[n].import /\ g.named
                /\ g.from = (IF mod[n].def THEN <<1>> ELSE <<>>)
                /\ g.refs = {1} \X mod[n].refs /\ g.refs \subseteq {1} \X DOMAIN mod
    BY <2>1, CompositeIs
  <2>3. dst' = Composite(mod) /\ mods'[1] = mod /\ cur' = 1
    BY <1>1, <1>2 DEF mod
  <2>4. ASSUME NEW m \in DOMAIN mod PROVE Resolved(1, m)' = {<<1, m>>}
    <3>1. /\ <<1, m>> \in DOMAIN dst' /\ dst'[<<1, m>>].named /\ dst'[<<1, m>>].linkage = mod[m].linkage
      BY <2>2, <2>3
    <3>2. \A d \in DOMAIN dst' : d[2] = m => d = <<1, m>>
      BY <2>2, <2>3
    <3>3. CASE IsLocal(mod[m])
      BY <2>3, <3>3 DEF Resolved, IsLocal
    <3>4. CASE ~IsLocal(mod[m])
      <4>1. Symbol(m)' = {<<1, m>>}
        BY <3>1, <3>2, <3>4 DEF Symbol, NamedValue, IsLocal
      <4> QED  BY <2>3, <3>4, <4>1 DEF Resolved, IsLocal
    <3> QED  BY <3>3, <3>4
  <2>5. ASSUME NEW d \in DOMAIN dst' PROVE Resolves(d)'
    <3>1. d = <<1, d[2]>> /\ d[2] \in DOMAIN mod
      BY <2>2, <2>3, <2>5
    <3>2. /\ dst'[d].from = (IF mod[d[2]].def THEN <<1>> ELSE <<>>) /\ dst'[d].refs = {1} \X mod[d[2]].refs
      BY <2>2, <2>3, <3>1
    <3>3. mod[d[2]].refs \subseteq DOMAIN mod /\ (~mod[d[2]].def => mod[d[2]].refs = {})
      BY <2>1, <3>1, GlobalOfModule
    <3>4. Mentioned(d)' = dst'[d].refs
      <4>1. DOMAIN <<1>> = {1} /\ <<1>>[1] = 1 /\ DOMAIN <<>> = {}
        OBVIOUS
      <4>2. CASE mod[d[2]].def
        <5>1. dst'[d].from = <<1>>
          BY <3>2, <4>2
        <5>2. Mentioned(d)' = UNION { {1} \X mod[d[2]].refs : j \in {1} }
          BY <2>3, <4>1, <5>1 DEF Mentioned
        <5> QED  BY <3>2, <5>2
      <4>3. CASE ~mod[d[2]].def
        <5>1. dst'[d].from = <<>> /\ dst'[d].refs = {}
          BY <3>2, <3>3, <4>3
        <5>2. Mentioned(d)' = {}
          BY <4>1, <5>1 DEF Mentioned
        <5> QED  BY <5>1, <5>2
      <4> QED  BY <4>2, <4>3
    <3>5. \A x \in dst'[d].refs : x[1] = 1 /\ x[2] \in DOMAIN mod /\ x = <<1, x[2]>>
      BY <3>2, <3>3
    <3>6. \A x \in dst'[d].refs : Resolved(x[1], x[2])' = {x}
      BY <2>4, <3>5
    <3> QED  BY <3>4, <3>6 DEF Resolves
  <2> QED  BY <2>5 DEF RefsInv
<1>3. CASE cur > 0
  <2>1. dst' = dst /\ RefsInv /\ FromInv
    BY <1>1, <1>3 DEF LinkInv, Running
  <2>2. \A m : Symbol(m)' = Symbol(m) /\ (~ImportSpoils(m)' => ~ImportSpoils(m))
    BY <2>1, MoreModules DEF Symbol, NamedValue, IsLocal
  <2>3. ASSUME NEW d \in DOMAIN dst PROVE Resolves(d)'
    <3>1. Resolves(d) /\ dst[d].from \in Seq(1 .. cur)
      BY <2>1 DEF RefsInv, FromInv, Filled
    <3>2. \A j \in DOMAIN dst[d].from : dst[d].from[j] \in 1 .. cur
      <4>1. PICK fr : fr = dst[d].from
        OBVIOUS
      <4>2. fr \in Seq(1 .. cur)
        BY <3>1, <4>1
      <4>3. \A j \in DOMAIN fr : fr[j] \in 1 .. cur
        BY <1>1, <4>2
      <4> QED  BY <4>1, <4>3
    <3>3. Mentioned(d)' = Mentioned(d) /\ \A e \in Mentioned(d) : e[1] \in 1 .. cur
      <4>1. \A j \in DOMAIN dst[d].from : mods'[dst[d].from[j]] = mods[dst[d].from[j]]
        BY <1>1, <3>2
      <4>2. Mentioned(d)' = Mentioned(d)
        BY <2>1, <4>1 DEF Mentioned
      <4>3. \A e \in Mentioned(d) : e[1] \in 1 .. cur
        BY <3>2 DEF Mentioned
      <4> QED  BY <4>2, <4>3
    <3>4. \A e \in Mentioned(d) : Resolved(e[1], e[2])' = Resolved(e[1], e[2])
      BY <1>1, <2>2, <3>3 DEF Resolved, IsLocal
    <3>5. ASSUME NEW x \in dst'[d].refs
          PROVE  \E e \in Mentioned(d)' : e[2] = x[2] /\ (~ImportSpoils(x[2])' => x \in Resolved(e[1], e[2])')
      <4>1. PICK e \in Mentioned(d) : e[2] = x[2] /\ (~ImportSpoils(x[2]) => x \in Resolved(e[1], e[2]))
        BY <2>1, <3>1, <3>5 DEF Resolves
      <4>2. ~ImportSpoils(x[2])' => x \in Resolved(e[1], e[2])'
        BY <2>2, <3>4, <4>1
      <4> QED  BY <3>3, <4>1, <4>2
    <3>6. ASSUME NEW e \in Mentioned(d)', ~ImportSpoils(e[2])'
          PROVE  Resolved(e[1], e[2])' # {} /\ Resolved(e[1], e[2])' \subseteq dst'[d].refs
      BY <2>1, <2>2, <3>1, <3>3, <3>4, <3>6 DEF Resolves
    <3> QED  BY <3>5, <3>6 DEF Resolves
  <2> QED  BY <2>1, <2>3 DEF RefsInv
<1> QED  BY <1>1, <1>2, <1>3

(* What globals mention, at every step of a linking that goes on.           *)
LEMMA RefsStep ==
  ASSUME LinkInv, [Next]_vars, pc' # "failed"
  PROVE  RefsInv'
<1>1. CASE Turn \/ UNCHANGED vars
  <2>1. mods' = mods /\ dst' = dst /\ RefsInv
    BY <1>1 DEF vars, Turn, LinkInv, Running
  <2>2. \A m : Symbol(m)' = Symbol(m)
    BY <2>1 DEF Symbol, NamedValue, IsLocal
  <2> QED  BY <2>1, <2>2, ResolvesStays DEF RefsInv
<1>2. CASE \E n \in DOMAIN map : FillStep(n)
  BY <1>2, RefsFill, TypeStep, NameStep
<1> QED  BY <1>1, <1>2, StepIs, RefsPrototype, RefsRead

-----------------------------------------------------------------------------
(* Which definition a name has.                                             *)

(* What stays is not weaker than what it is kept over.                      *)
LEMMA KeptOver ==
  ASSUME NEW d, NEW s, ~MultiplyDefined(d, s), ~LinkFromSrc(d, s), ~d.import, s.def
  PROVE  /\ s.linkage # "external" /\ s.linkage # "appending" /\ ~IsDeclaration(d)
         /\ s.linkage \in {"weak", "common"} =>
              d.linkage \notin {"extern_weak", "available_externally", "linkonce"}
  BY DEF MultiplyDefined, LinkFromSrc, IsWeakForLinker, IsDeclaration

(* A definition that makes way is weaker than the one it makes way for.     *)
LEMMA BroughtOver ==
  ASSUME NEW d, NEW s, LinkFromSrc(d, s), ~IsDeclaration(d), d.linkage # "extern_weak"
  PROVE  /\ s.def /\ d.linkage \notin {"external", "appending"}
         /\ d.linkage \in {"weak", "common"} => ~IsWeakForLinker(s)
  BY DEF LinkFromSrc, IsWeakForLinker, IsDeclaration

(* What is known of the global a name is linked to.                         *)
LEMMA LinkedFacts ==
  ASSUME LinkInv, pc = "prototypes", NEW n \in todo, NEW d \in LinkedTo(n)
  PROVE  /\ d \in DOMAIN dst /\ d[2] = n /\ ~IsLocal(src[n]) /\ LinkedTo(n) = {d} /\ Symbol(n) = {d}
         /\ d[1] \in 1 .. cur /\ d[1] < cur /\ d[1] \in Having(n) /\ d[1] \in Seen(n) /\ cur \in Having(n)
         /\ n \in DOMAIN mods[d[1]] /\ IsModule(mods[d[1]])
         /\ dst[d].linkage = mods[d[1]][n].linkage /\ dst[d].linkage # "internal"
         /\ IsDeclaration(dst[d]) <=> ~mods[d[1]][n].def
         /\ dst[d].import => ImportSpoils(n)
<1>1. /\ LinkType /\ NameInv /\ LinkageInv /\ FromInv /\ cur \in Nat /\ n \in DOMAIN src
      /\ <<cur, n>> \notin DOMAIN dst /\ cur > 1
  BY RunningFacts, NotYetLinked
<1>2. d \in DOMAIN dst /\ d[2] = n /\ dst[d].named /\ ~IsLocal(src[n]) /\ ~IsLocal(dst[d])
  BY LinkedIsNamed
<1>3. LinkedTo(n) = {d}
  <2>1. \A e \in LinkedTo(n) : e \in DOMAIN dst /\ e[2] = n /\ dst[e].named
    BY LinkedIsNamed
  <2> QED  BY <1>1, <1>2, <2>1 DEF NameInv
<1>4. Symbol(n) = {d}
  BY <1>2, <1>3, LinkedIsSymbol
<1>5. d[1] \in 1 .. cur /\ d[1] # cur /\ n \in DOMAIN mods[d[1]] /\ IsModule(mods[d[1]])
  BY <1>1, <1>2, GlobalOfComposite, ModulesRead DEF LinkType
<1>6. dst[d].linkage = mods[d[1]][n].linkage /\ dst[d].linkage # "internal"
  BY <1>1, <1>2 DEF LinkageInv, IsLocal, Origin
<1>7. d[1] \in Having(n) /\ d[1] \in Seen(n) /\ cur \in Having(n)
  BY <1>1, <1>2, <1>5, <1>6 DEF Having, Seen, IsLocal, src
<1>8. IsDeclaration(dst[d]) <=> ~mods[d[1]][n].def
  <2>1. ~Empty(d) /\ Filled(d)
    BY <1>1, <1>2, <1>5 DEF Empty, FromInv
  <2> QED  BY <1>2, <2>1 DEF Filled, IsDeclaration, Origin
<1>9. dst[d].import => ImportSpoils(n)
  BY <1>1, <1>2, <1>7 DEF LinkageInv, ImportSpoils, Origin
<1> QED  BY <1>1, <1>2, <1>3, <1>4, <1>5, <1>6, <1>7, <1>8, <1>9

(* In the first loop a name's module is seen when its turn has come.        *)
LEMMA SeenGrows ==
  ASSUME LinkInv, NEW n \in todo, PrototypeStep(n), NEW m
  PROVE  /\ cur \notin Seen(n) /\ mods[cur] = src
         /\ Seen(m)' = Seen(m) \cup (IF m = n /\ ~IsLocal(src[n]) THEN {cur} ELSE {})
         /\ SeenStrong(m)' = SeenStrong(m) \cup
              (IF m = n /\ ~IsLocal(src[n]) /\ src[n].def /\ src[n].linkage = "external" THEN {cur} ELSE {})
         /\ SeenWeak(m)' = SeenWeak(m) \cup
              (IF m = n /\ ~IsLocal(src[n]) /\ src[n].def /\ src[n].linkage \in {"weak", "common"}
                 THEN {cur} ELSE {})
<1>1. /\ pc = "prototypes" /\ pc' = pc /\ mods' = mods /\ todo' = todo \ {n}
  BY DEF PrototypeStep
<1>2. cur' = cur /\ Having(m)' = Having(m) /\ n \in DOMAIN src /\ cur \in Nat /\ cur > 1 /\ mods[cur] = src
  BY <1>1, NotYetLinked, SameModules DEF src
<1>3. Coming = todo /\ Coming' = todo \ {n} /\ cur \notin Seen(n)
  BY <1>1 DEF Coming, Seen
<1>4. cur \in Having(n) <=> ~IsLocal(src[n])
  BY <1>2 DEF Having
<1>5. Seen(m)' = Having(m) \ (IF m \in todo \ {n} THEN {cur} ELSE {})
  BY <1>2, <1>3 DEF Seen
<1>6. Seen(m)' = Seen(m) \cup (IF m = n /\ ~IsLocal(src[n]) THEN {cur} ELSE {})
  <2>1. CASE m = n
    <3>1. Seen(m)' = Having(n) /\ Seen(n) = Having(n) \ {cur}
      BY <1>3, <1>5, <2>1 DEF Seen
    <3> QED  BY <1>4, <2>1, <3>1
  <2>2. CASE m # n
    BY <1>3, <1>5, <2>2 DEF Seen
  <2> QED  BY <2>1, <2>2
<1>7. SeenStrong(m)' = { i \in Seen(m)' : mods[i][m].def /\ mods[i][m].linkage = "external" }
  BY <1>1 DEF SeenStrong
<1>8. SeenWeak(m)' = { i \in Seen(m)' : mods[i][m].def /\ mods[i][m].linkage \in {"weak", "common"} }
  BY <1>1 DEF SeenWeak
<1> QED  BY <1>2, <1>3, <1>6, <1>7, <1>8 DEF SeenStrong, SeenWeak

(* A choice spelled out for the step after which it is made.                *)
LEMMA ChosenThen ==
  ASSUME mods' = mods, NEW n, NEW t, Symbol(n)' = {t},
         SeenStrong(n)' # {} => SeenStrong(n)' = {t[1]},
         SeenStrong(n)' = {} /\ SeenWeak(n)' # {} =>
           t[1] \in SeenWeak(n)' /\ \A i \in SeenWeak(n)' : t[1] <= i,
         (\E i \in Seen(n)' : mods[i][n].linkage = "appending") =>
           \A i \in Seen(n)' : mods[i][n].linkage = "appending" /\ mods[i][n].hidden = dst'[t].hidden
  PROVE  Chosen(n)'
  BY DEF Chosen

(* What KeepDestination keeps is what should be.                            *)
LEMMA KeepChosen ==
  ASSUME LinkInv, NEW n \in todo, PrototypeStep(n), Plain(n), NEW d, KeepEffect(n, d),
         ~ImportSpoils(n), ~MixesKinds(n), Chosen(n)
  PROVE  Chosen(n)'
<1> DEFINE s == src[n]
<1>1. pc = "prototypes" /\ mods' = mods
  BY DEF PrototypeStep
<1>2. d \in LinkedTo(n) /\ ~MultiplyDefined(dst[d], s) /\ ~LinkFromSrc(dst[d], s)
  BY DEF KeepEffect
<1>3. /\ d \in DOMAIN dst /\ d[2] = n /\ ~IsLocal(s) /\ LinkedTo(n) = {d} /\ Symbol(n) = {d}
      /\ d[1] \in 1 .. cur /\ d[1] < cur /\ d[1] \in Having(n) /\ d[1] \in Seen(n) /\ cur \in Having(n)
      /\ n \in DOMAIN mods[d[1]] /\ IsModule(mods[d[1]])
      /\ dst[d].linkage = mods[d[1]][n].linkage /\ dst[d].linkage # "internal"
      /\ IsDeclaration(dst[d]) <=> ~mods[d[1]][n].def
      /\ dst[d].import => ImportSpoils(n)
  BY <1>1, <1>2, LinkedFacts
<1>4. /\ mods[cur] = src
      /\ Seen(n)' = Seen(n) \cup {cur}
      /\ SeenStrong(n)' = SeenStrong(n) \cup (IF s.def /\ s.linkage = "external" THEN {cur} ELSE {})
      /\ SeenWeak(n)' = SeenWeak(n) \cup (IF s.def /\ s.linkage \in {"weak", "common"} THEN {cur} ELSE {})
  BY <1>3, SeenGrows
<1>5. /\ SeenStrong(n) # {} => SeenStrong(n) = {d[1]}
      /\ SeenStrong(n) = {} /\ SeenWeak(n) # {} =>
           d[1] \in SeenWeak(n) /\ \A i \in SeenWeak(n) : d[1] <= i
      /\ (\E i \in Seen(n) : mods[i][n].linkage = "appending") =>
           \A i \in Seen(n) : mods[i][n].linkage = "appending"
  BY <1>3 DEF Chosen
<1>6. n \in DOMAIN src /\ IsModule(src) /\ cur \in Nat
  BY <1>1, NotYetLinked
<1>7. /\ s.def => /\ s.linkage # "external" /\ s.linkage # "appending" /\ mods[d[1]][n].def
                  /\ s.linkage \in {"weak", "common"} =>
                       dst[d].linkage \notin {"extern_weak", "available_externally", "linkonce"}
      /\ ~s.def => s.linkage # "appending"
  <2>1. ~s.def => s.linkage # "appending"
    <3>1. ~src[n].def => src[n].linkage \in {"external", "extern_weak"}
      BY <1>6, GlobalOfModule
    <3> QED  BY <3>1
  <2>2. s.def => /\ s.linkage # "external" /\ s.linkage # "appending" /\ mods[d[1]][n].def
                 /\ s.linkage \in {"weak", "common"} =>
                      dst[d].linkage \notin {"extern_weak", "available_externally", "linkonce"}
    BY <1>2, <1>3, <1>6, KeptOver
  <2> QED  BY <2>1, <2>2
<1>8. \A i \in Seen(n)' : mods[i][n].linkage # "appending"
  <2> SUFFICES ASSUME NEW i \in Seen(n)', mods[i][n].linkage = "appending" PROVE FALSE
    OBVIOUS
  <2>1. i \in Seen(n)
    BY <1>4, <1>7
  <2>2. dst[d].linkage = "appending"
    BY <1>3, <1>5, <2>1
  <2>3. s.kind # "variable"
    BY <1>2, <2>2 DEF Plain
  <2> QED  BY <1>3, <1>4, <2>2, <2>3 DEF MixesKinds
<1>9. Symbol(n)' = {d}
  BY <1>1, <1>3, KeepSymbol
<1>10. SeenStrong(n)' = SeenStrong(n)
  BY <1>4, <1>7
<1>11. ASSUME SeenStrong(n)' = {}, SeenWeak(n)' # {}
       PROVE  d[1] \in SeenWeak(n)' /\ \A i \in SeenWeak(n)' : d[1] <= i
  <2>1. CASE s.def /\ s.linkage \in {"weak", "common"}
    <3>1. mods[d[1]][n].def /\ mods[d[1]][n].linkage \notin {"extern_weak", "available_externally", "linkonce"}
      BY <1>3, <1>7, <2>1
    <3>2. mods[d[1]][n].linkage # "external"
      BY <1>3, <1>10, <1>11, <3>1 DEF SeenStrong
    <3>3. mods[d[1]][n].linkage # "appending" /\ mods[d[1]][n].linkage # "internal"
      BY <1>3, <1>4, <1>8
    <3>4. mods[d[1]][n].linkage \in Linkage
      BY <1>3, GlobalOfModule
    <3>5. mods[d[1]][n].linkage \in {"weak", "common"}
      BY <3>1, <3>2, <3>3, <3>4 DEF Linkage
    <3>6. d[1] \in SeenWeak(n)
      BY <1>3, <3>1, <3>5 DEF SeenWeak
    <3> QED  BY <1>3, <1>4, <1>5, <1>6, <1>10, <1>11, <3>6
  <2>2. CASE ~(s.def /\ s.linkage \in {"weak", "common"})
    <3>1. SeenWeak(n)' = SeenWeak(n)
      BY <1>4, <2>2
    <3> QED  BY <1>5, <1>10, <1>11, <3>1
  <2> QED  BY <2>1, <2>2
<1>12. SeenStrong(n)' # {} => SeenStrong(n)' = {d[1]}
  BY <1>5, <1>10
<1> QED  BY <1>1, <1>8, <1>9, <1>11, <1>12, ChosenThen

(* What BringOver brings over is what should be.                            *)
LEMMA BringChosen ==
  ASSUME LinkInv, NEW n \in todo, PrototypeStep(n), Plain(n), BringEffect(n),
         ~IsLocal(src[n]), ~ImportSpoils(n), ~MixesKinds(n), Chosen(n)
  PROVE  Chosen(n)'
<1> DEFINE s == src[n]
<1>0. PICK new : new = <<cur, n>>
  OBVIOUS
<1>1. pc = "prototypes" /\ mods' = mods /\ new[1] = cur
  BY <1>0 DEF PrototypeStep
<1>2. /\ mods[cur] = src
      /\ Seen(n)' = Seen(n) \cup {cur}
      /\ SeenStrong(n)' = SeenStrong(n) \cup (IF s.def /\ s.linkage = "external" THEN {cur} ELSE {})
      /\ SeenWeak(n)' = SeenWeak(n) \cup (IF s.def /\ s.linkage \in {"weak", "common"} THEN {cur} ELSE {})
  BY SeenGrows
<1>3. /\ n \in DOMAIN src /\ IsModule(src) /\ cur \in Nat /\ cur > 1
      /\ s.linkage = "appending" => s.kind = "variable"
  BY <1>1, NotYetLinked, GlobalOfModule
<1>4. Symbol(n)' = {new}
  <2>1. Moves(n, LinkedTo(n))
    BY <1>1, MovesIs
  <2>2. Symbol(n)' = IF n = n /\ ~IsLocal(src[n]) THEN {<<cur, n>>} ELSE Symbol(n)
    BY <1>1, <2>1, MoveSymbol
  <2> QED  BY <1>0, <2>2
<1>5. CASE LinkedTo(n) = {}
  <2>1. Symbol(n) = {} /\ \A i \in Seen(n) : MayWait(mods[i][n])
    BY <1>5, LinkedIsSymbol DEF Chosen
  <2>2. SeenStrong(n) = {} /\ SeenWeak(n) = {}
    BY <2>1 DEF SeenStrong, SeenWeak, MayWait
  <2>3. /\ SeenStrong(n)' # {} => SeenStrong(n)' = {new[1]}
        /\ SeenStrong(n)' = {} /\ SeenWeak(n)' # {} =>
             new[1] \in SeenWeak(n)' /\ \A i \in SeenWeak(n)' : new[1] <= i
    BY <1>1, <1>2, <1>3, <2>2
  <2>4. dst'[new].hidden = s.hidden
    BY <1>0, <1>5 DEF BringEffect
  <2>5. ASSUME NEW j \in Seen(n)', mods[j][n].linkage = "appending"
        PROVE  \A i \in Seen(n)' : mods[i][n].linkage = "appending" /\ mods[i][n].hidden = dst'[new].hidden
    <3>1. j \notin Seen(n)
      BY <2>1, <2>5 DEF MayWait
    <3>2. j = cur
      BY <1>2, <2>5, <3>1
    <3>3. \A i \in Seen(n) : i \in Having(n) /\ mods[i][n].kind # "variable"
      BY <2>1 DEF MayWait, Seen
    <3>4. cur \in Having(n)
      BY <1>2, <1>3 DEF Having
    <3>5. Seen(n) = {}
      BY <2>5, <3>2, <3>3, <3>4 DEF MixesKinds
    <3> QED  BY <1>2, <2>4, <2>5, <3>2, <3>5
  <2> QED  BY <1>1, <1>4, <2>3, <2>5, ChosenThen
<1>6. ASSUME NEW d \in LinkedTo(n)
      PROVE  Chosen(n)'
  <2>1. LinkFromSrc(dst[d], s)
    BY <1>6 DEF BringEffect
  <2>2. /\ d \in DOMAIN dst /\ d[2] = n /\ ~IsLocal(s) /\ LinkedTo(n) = {d} /\ Symbol(n) = {d}
        /\ d[1] \in 1 .. cur /\ d[1] < cur /\ d[1] \in Having(n) /\ d[1] \in Seen(n) /\ cur \in Having(n)
        /\ n \in DOMAIN mods[d[1]] /\ IsModule(mods[d[1]])
        /\ dst[d].linkage = mods[d[1]][n].linkage /\ dst[d].linkage # "internal"
        /\ IsDeclaration(dst[d]) <=> ~mods[d[1]][n].def
        /\ dst[d].import => ImportSpoils(n)
    BY <1>1, <1>6, LinkedFacts
  <2>3. /\ SeenStrong(n) # {} => SeenStrong(n) = {d[1]}
        /\ SeenStrong(n) = {} /\ SeenWeak(n) # {} => d[1] \in SeenWeak(n)
        /\ (\E i \in Seen(n) : mods[i][n].linkage = "appending") =>
             \A i \in Seen(n) : mods[i][n].linkage = "appending"
    BY <2>2 DEF Chosen
  <2>4. mods[d[1]][n].def =>
          /\ s.def /\ dst[d].linkage \notin {"external", "appending"}
          /\ dst[d].linkage \in {"weak", "common"} => ~IsWeakForLinker(s)
    <3>1. mods[d[1]][n].def => dst[d].linkage # "extern_weak"
      <4>1. IsModule(mods[d[1]]) /\ n \in DOMAIN mods[d[1]]
        BY <2>2
      <4>2. mods[d[1]][n].def => mods[d[1]][n].linkage # "extern_weak"
        BY <4>1, GlobalOfModule
      <4> QED  BY <2>2, <4>2
    <3> QED  BY <2>1, <2>2, <3>1, BroughtOver
  <2>5. SeenStrong(n) = {}
    BY <2>2, <2>3, <2>4 DEF SeenStrong
  <2>6. s.linkage # "appending"
    BY <1>3, <1>6 DEF Plain
  <2>7. SeenStrong(n)' # {} => SeenStrong(n)' = {new[1]}
    BY <1>1, <1>2, <2>5
  <2>8. ASSUME SeenStrong(n)' = {}, SeenWeak(n)' # {}
        PROVE  new[1] \in SeenWeak(n)' /\ \A i \in SeenWeak(n)' : new[1] <= i
    <3>1. SeenWeak(n) = {}
      <4> SUFFICES ASSUME SeenWeak(n) # {} PROVE FALSE
        OBVIOUS
      <4>1. mods[d[1]][n].def /\ dst[d].linkage \in {"weak", "common"}
        BY <2>2, <2>3, <2>5 DEF SeenWeak
      <4>2. s.def /\ ~IsWeakForLinker(s) /\ s.linkage \in Linkage /\ s.linkage # "extern_weak"
        BY <1>3, <2>4, <4>1, GlobalOfModule
      <4>3. s.linkage # "external"
        BY <1>2, <2>8, <4>2
      <4> QED  BY <2>2, <2>6, <4>2, <4>3 DEF IsWeakForLinker, Linkage, IsLocal
    <3> QED  BY <1>1, <1>2, <1>3, <2>8, <3>1
  <2>9. \A i \in Seen(n)' : mods[i][n].linkage # "appending"
    <3> SUFFICES ASSUME NEW i \in Seen(n)', mods[i][n].linkage = "appending" PROVE FALSE
      OBVIOUS
    <3>1. i \in Seen(n)
      BY <1>2, <2>6
    <3>2. mods[d[1]][n].linkage = "appending"
      BY <2>2, <2>3, <3>1
    <3>3. mods[d[1]][n].def
      BY <2>2, <3>2, AppendingIs
    <3> QED  BY <2>2, <2>4, <3>2, <3>3
  <2> QED  BY <1>1, <1>4, <2>7, <2>8, <2>9, ChosenThen
<1> QED  BY <1>5, <1>6

(* An appended variable is the symbol of a name all of whose globals are    *)
(* appending and as visible.                                                *)
LEMMA AppendChosen ==
  ASSUME LinkInv, NEW n \in todo, PrototypeStep(n), NEW d, AppendEffect(n, d),
         ~ImportSpoils(n), ~MixesKinds(n), Chosen(n)
  PROVE  Chosen(n)'
<1> DEFINE s == src[n]
<1>0. PICK new : new = <<cur, n>>
  OBVIOUS
<1>1. pc = "prototypes" /\ mods' = mods
  BY DEF PrototypeStep
<1>2. /\ d \in LinkedTo(n) /\ s.linkage = "appending" /\ dst[d].linkage = "appending"
      /\ s.hidden = dst[d].hidden /\ dst'[new].hidden = dst[d].hidden
  BY <1>0 DEF AppendEffect
<1>3. /\ ~IsLocal(s) /\ Symbol(n) = {d} /\ d[1] \in Seen(n) /\ dst[d].linkage = mods[d[1]][n].linkage
  BY <1>1, <1>2, LinkedFacts
<1>4. /\ mods[cur] = src
      /\ Seen(n)' = Seen(n) \cup {cur}
      /\ SeenStrong(n)' = SeenStrong(n) \cup (IF s.def /\ s.linkage = "external" THEN {cur} ELSE {})
      /\ SeenWeak(n)' = SeenWeak(n) \cup (IF s.def /\ s.linkage \in {"weak", "common"} THEN {cur} ELSE {})
  BY <1>3, SeenGrows
<1>5. \A i \in Seen(n) : mods[i][n].linkage = "appending" /\ mods[i][n].hidden = dst[d].hidden
  BY <1>2, <1>3 DEF Chosen
<1>6. SeenStrong(n)' = {} /\ SeenWeak(n)' = {}
  BY <1>2, <1>4, <1>5 DEF SeenStrong, SeenWeak
<1>7. \A i \in Seen(n)' : mods[i][n].linkage = "appending" /\ mods[i][n].hidden = dst'[new].hidden
  BY <1>2, <1>4, <1>5
<1>8. Symbol(n)' = {new}
  <2>1. Moves(n, {d})
    BY <1>1, MovesIs
  <2>2. Symbol(n)' = IF n = n /\ ~IsLocal(src[n]) THEN {<<cur, n>>} ELSE Symbol(n)
    BY <1>1, <2>1, MoveSymbol
  <2> QED  BY <1>0, <1>3, <2>2
<1> QED  BY <1>1, <1>6, <1>7, <1>8, ChosenThen

(* A choice does not change when nothing about the name does.               *)
LEMMA ChosenStays ==
  ASSUME mods' = mods, NEW n, Chosen(n), Symbol(n)' = Symbol(n), Seen(n)' = Seen(n),
         \A d \in Symbol(n) : dst'[d].hidden = dst[d].hidden
  PROVE  Chosen(n)'
<1>1. SeenStrong(n)' = SeenStrong(n) /\ SeenWeak(n)' = SeenWeak(n)
  BY DEF SeenStrong, SeenWeak
<1> QED  BY <1>1 DEF Chosen

(* The first loop chooses.                                                  *)
LEMMA SymbolPrototype ==
  ASSUME LinkInv, NEW n \in todo, PrototypeStep(n)
  PROVE  SymbolInv'
<1>1. pc = "prototypes" /\ mods' = mods /\ SymbolInv
  BY RunningFacts DEF PrototypeStep
<1>2. \A m : (ImportSpoils(m)' <=> ImportSpoils(m)) /\ (MixesKinds(m)' <=> MixesKinds(m))
  BY <1>1, SameModules
<1>3. ASSUME NEW m \in Names, ~ImportSpoils(m), ~MixesKinds(m)
      PROVE  Chosen(m)'
  <2>1. Chosen(m)
    BY <1>1, <1>3 DEF SymbolInv
  <2>2. Seen(m)' = Seen(m) \cup (IF m = n /\ ~IsLocal(src[n]) THEN {cur} ELSE {})
    BY SeenGrows
  <2>3. CASE m # n \/ IsLocal(src[n])
    <3>1. Seen(m)' = Seen(m)
      BY <2>2, <2>3
    <3>2. \A d \in Symbol(m) : d \in DOMAIN dst /\ d[2] = m
      BY DEF Symbol, NamedValue
    <3>3. CASE WaitEffect(n)
      <4>1. dst' = dst
        BY <3>3 DEF WaitEffect
      <4>2. Symbol(m)' = Symbol(m)
        BY <4>1 DEF Symbol, NamedValue, IsLocal
      <4> QED  BY <1>1, <2>1, <3>1, <4>1, <4>2, ChosenStays
    <3>4. ASSUME NEW d, KeepEffect(n, d) PROVE Chosen(m)'
      <4>1. d \in LinkedTo(n) /\ \A e \in DOMAIN dst : e # d => dst'[e] = dst[e]
        BY <3>4 DEF KeepEffect
      <4>2. d[2] = n /\ m # n
        BY <2>3, <4>1, LinkedIsNamed
      <4>3. Symbol(m)' = Symbol(m)
        BY <1>1, <3>4, <4>2, KeepSymbol
      <4>4. \A e \in Symbol(m) : dst'[e].hidden = dst[e].hidden
        BY <3>2, <4>1, <4>2
      <4> QED  BY <1>1, <2>1, <3>1, <4>3, <4>4, ChosenStays
    <3>5. CASE BringEffect(n) \/ \E d : AppendEffect(n, d)
      <4>1. PICK D : Moves(n, D)
        BY <1>1, <3>5, MovesIs
      <4>2. Symbol(m)' = IF m = n /\ ~IsLocal(src[n]) THEN {<<cur, n>>} ELSE Symbol(m)
        BY <1>1, <4>1, MoveSymbol
      <4>3. /\ \A e \in DOMAIN dst \ D : dst'[e].hidden = dst[e].hidden
            /\ D \subseteq LinkedTo(n)
        BY <4>1 DEF Moves, MoveEffect
      <4>4. \A e \in D : e[2] = n /\ m # n
        BY <2>3, <4>3, LinkedIsNamed
      <4>5. \A e \in Symbol(m) : dst'[e].hidden = dst[e].hidden
        BY <3>2, <4>3, <4>4
      <4>6. Symbol(m)' = Symbol(m)
        BY <2>3, <4>2
      <4> QED  BY <1>1, <2>1, <3>1, <4>5, <4>6, ChosenStays
    <3> QED  BY <3>3, <3>4, <3>5 DEF PrototypeStep
  <2>4. CASE m = n /\ ~IsLocal(src[n])
    <3>1. ~ImportSpoils(n) /\ ~MixesKinds(n) /\ Chosen(n) /\ ~IsLocal(src[n])
      BY <1>3, <2>1, <2>4
    <3>2. CASE WaitEffect(n)
      <4>1. dst' = dst /\ LinkedTo(n) = {} /\ MayWait(src[n]) /\ mods[cur] = src
        BY <3>2, SeenGrows DEF WaitEffect
      <4>2. Symbol(n)' = Symbol(n) /\ Symbol(n) = {}
        BY <3>1, <4>1, LinkedIsSymbol DEF Symbol, NamedValue, IsLocal
      <4>3. \A i \in Seen(n)' : MayWait(mods[i][n])
        BY <2>2, <2>4, <3>1, <4>1, <4>2 DEF Chosen
      <4>4. Chosen(n)'
        BY <1>1, <4>2, <4>3 DEF Chosen
      <4> QED  BY <2>4, <4>4
    <3>3. CASE Plain(n) /\ \E d : KeepEffect(n, d)
      BY <2>4, <3>1, <3>3, KeepChosen
    <3>4. CASE Plain(n) /\ BringEffect(n)
      BY <2>4, <3>1, <3>4, BringChosen
    <3>5. CASE \E d : AppendEffect(n, d)
      BY <2>4, <3>1, <3>5, AppendChosen
    <3> QED  BY <3>2, <3>3, <3>4, <3>5 DEF PrototypeStep
  <2> QED  BY <2>3, <2>4
<1> QED  BY <1>2, <1>3 DEF SymbolInv

(* A function that has waited is the choice: what else there is waits too.  *)
LEMMA SymbolFill ==
  ASSUME LinkInv, NEW n \in DOMAIN map, FillStep(n)
  PROVE  SymbolInv'
<1> DEFINE S == Needed(n)
<1>1. /\ pc \in {"contents", "lazy"} /\ pc' = pc /\ mods' = mods /\ FillEffect(n) /\ SymbolInv /\ LinkType
  BY RunningFacts DEF FillStep
<1>2. \A m : (ImportSpoils(m)' <=> ImportSpoils(m)) /\ (MixesKinds(m)' <=> MixesKinds(m))
  BY <1>1, SameModules
<1>3. \A m : Seen(m)' = Having(m) /\ Seen(m) = Having(m)
  BY <1>1, SameModules DEF Seen, Coming
<1>4. /\ \A e \in DOMAIN dst : dst'[e].hidden = dst[e].hidden
      /\ \A m \in S : LinkedTo(m) = {}
  BY <1>1 DEF FillEffect
<1>5. ASSUME NEW m \in Names, ~ImportSpoils(m), ~MixesKinds(m)
      PROVE  Chosen(m)'
  <2>1. Chosen(m)
    BY <1>1, <1>5 DEF SymbolInv
  <2>2. Symbol(m)' = IF m \in S /\ ~IsLocal(src[m]) THEN {<<cur, m>>} ELSE Symbol(m)
    BY <1>1, FillSymbol
  <2>3. CASE m \in S /\ ~IsLocal(src[m])
    <3>1. Symbol(m) = {}
      BY <1>4, <2>3, LinkedIsSymbol
    <3>2. \A i \in Seen(m) : MayWait(mods[i][m])
      BY <2>1, <3>1 DEF Chosen
    <3>3. Seen(m)' = Seen(m)
      BY <1>3
    <3>4. SeenStrong(m)' = {} /\ SeenWeak(m)' = {} /\ \A i \in Seen(m)' : mods[i][m].linkage # "appending"
      BY <1>1, <3>2, <3>3 DEF SeenStrong, SeenWeak, MayWait
    <3>5. PICK t : t = <<cur, m>>
      OBVIOUS
    <3>6. Symbol(m)' = {t}
      BY <2>2, <2>3, <3>5
    <3> QED  BY <1>1, <3>4, <3>6, ChosenThen
  <2>4. CASE ~(m \in S /\ ~IsLocal(src[m]))
    <3>1. Symbol(m)' = Symbol(m) /\ Seen(m)' = Seen(m)
      BY <1>3, <2>2, <2>4
    <3>2. \A e \in Symbol(m) : dst'[e].hidden = dst[e].hidden
      BY <1>4 DEF Symbol, NamedValue
    <3> QED  BY <1>1, <2>1, <3>1, <3>2, ChosenStays
  <2> QED  BY <2>3, <2>4
<1> QED  BY <1>2, <1>5 DEF SymbolInv

(* Reading the first module chooses its globals, another is yet to be seen. *)
LEMMA SymbolRead ==
  ASSUME LinkInv, ReadFile
  PROVE  SymbolInv'
<1>1. /\ pc = "read" /\ cur \in Nat /\ cur' = cur + 1
      /\ \A i \in 1 .. cur : mods'[i] = mods[i]
      /\ src' = mods'[cur + 1] /\ IsModule(src') /\ DOMAIN src' \subseteq Names
      /\ cur = 0 => dst' = Composite(src') /\ pc' = "read" /\ todo' = todo
      /\ cur > 0 => dst' = dst /\ pc' = "prototypes" /\ todo' = DOMAIN src'
  BY ReadIs
<1>2. CASE cur = 0
  <2> DEFINE mod == src'
  <2>1. IsModule(mod) /\ DOMAIN mod \subseteq Names
    BY <1>1
  <2> HIDE DEF mod
  <2>2. /\ DOMAIN Composite(mod) = {1} \X DOMAIN mod
        /\ Composite(mod) \in [DOMAIN Composite(mod) -> Composed]
        /\ \A n \in DOMAIN mod :
             LET g == Composite(mod)[<<1, n>>]
             IN /\ g.linkage = mod[n].linkage /\ g.level = mod[n].level /\ g.hidden = mod[n].hidden
                /\ g.import = mod[n].import /\ g.named
                /\ g.from = (IF mod[n].def THEN <<1>> ELSE <<>>)
                /\ g.refs = {1} \X mod[n].refs /\ g.refs \subseteq {1} \X DOMAIN mod
    BY <2>1, CompositeIs
  <2>3. dst' = Composite(mod) /\ mods'[1] = mod /\ cur' = 1 /\ pc' = "read"
    BY <1>1, <1>2 DEF mod
  <2>4. ASSUME NEW m PROVE Chosen(m)'
    <3>1. Seen(m)' = IF m \in DOMAIN mod /\ mod[m].linkage # "internal" THEN {1} ELSE {}
      <4>1. Seen(m)' = { i \in 1 .. 1 : m \in DOMAIN mods'[i] /\ mods'[i][m].linkage # "internal" }
        BY <2>3 DEF Seen, Having, Coming, IsLocal
      <4>2. \A i : i \in 1 .. 1 <=> i = 1
        OBVIOUS
      <4> QED  BY <2>3, <4>1, <4>2
    <3>2. \A d \in DOMAIN dst' : d[2] = m => d = <<1, m>> /\ m \in DOMAIN mod
      BY <2>2, <2>3
    <3>3. CASE m \in DOMAIN mod /\ mod[m].linkage # "internal"
      <4>1. PICK t : t = <<1, m>>
        OBVIOUS
      <4>2. t \in DOMAIN dst' /\ dst'[t].named /\ dst'[t].linkage = mod[m].linkage /\ dst'[t].hidden = mod[m].hidden
            /\ t[2] = m /\ t[1] = 1
        BY <2>2, <2>3, <3>3, <4>1
      <4>3. Symbol(m)' = {t}
        BY <3>2, <3>3, <4>1, <4>2 DEF Symbol, NamedValue, IsLocal
      <4>4. SeenStrong(m)' = IF mod[m].def /\ mod[m].linkage = "external" THEN {1} ELSE {}
        BY <2>3, <3>1, <3>3 DEF SeenStrong
      <4>5. SeenWeak(m)' = IF mod[m].def /\ mod[m].linkage \in {"weak", "common"} THEN {1} ELSE {}
        BY <2>3, <3>1, <3>3 DEF SeenWeak
      <4>6. \A d \in Symbol(m)' :
              /\ SeenStrong(m)' # {} => SeenStrong(m)' = {d[1]}
              /\ SeenStrong(m)' = {} /\ SeenWeak(m)' # {} =>
                   d[1] \in SeenWeak(m)' /\ \A i \in SeenWeak(m)' : d[1] <= i
              /\ (\E i \in Seen(m)' : mods'[i][m].linkage = "appending") =>
                   \A i \in Seen(m)' : mods'[i][m].linkage = "appending" /\ mods'[i][m].hidden = dst'[d].hidden
        BY <2>3, <3>1, <3>3, <4>2, <4>3, <4>4, <4>5
      <4> QED  BY <4>3, <4>6 DEF Chosen
    <3>4. CASE ~(m \in DOMAIN mod /\ mod[m].linkage # "internal")
      <4>1. Symbol(m)' = {}
        <5> SUFFICES ASSUME NEW d \in Symbol(m)' PROVE FALSE
          OBVIOUS
        <5>1. d \in DOMAIN dst' /\ d[2] = m /\ dst'[d].linkage # "internal"
          BY DEF Symbol, NamedValue, IsLocal
        <5>2. d = <<1, m>> /\ m \in DOMAIN mod /\ dst'[d].linkage = mod[m].linkage
          BY <2>2, <2>3, <3>2, <5>1
        <5> QED  BY <3>4, <5>1, <5>2
      <4>2. Seen(m)' = {}
        BY <3>1, <3>4
      <4> QED  BY <4>1, <4>2 DEF Chosen
    <3> QED  BY <3>3, <3>4
  <2> QED  BY <2>4 DEF SymbolInv
<1>3. CASE cur > 0
  <2>1. dst' = dst /\ SymbolInv /\ LinkType
    BY <1>1, <1>3 DEF LinkInv, Running
  <2>2. ASSUME NEW m \in Names, ~ImportSpoils(m)', ~MixesKinds(m)'
        PROVE  Chosen(m)'
    <3>1. Chosen(m)
      BY <2>1, <2>2, MoreModules DEF SymbolInv
    <3>2. Symbol(m)' = Symbol(m)
      BY <2>1 DEF Symbol, NamedValue, IsLocal
    <3>3. Having(m)' \cap (1 .. cur) = Having(m) /\ Having(m)' \subseteq (1 .. cur) \cup {cur'}
          /\ cur' \notin 1 .. cur /\ Having(m) \subseteq 1 .. cur
      BY <1>1, MoreModules DEF Having
    <3>4. cur' \in Having(m)' => m \in DOMAIN src'
      BY <1>1 DEF Having
    <3>5. Coming' = DOMAIN src' /\ Coming = {}
      BY <1>1, <1>3 DEF Coming
    <3>6. Seen(m)' = Having(m) /\ Seen(m) = Having(m)
      BY <3>3, <3>4, <3>5 DEF Seen
    <3>7. \A i \in Having(m) : mods'[i] = mods[i]
      BY <1>1, <3>3
    <3>8. SeenStrong(m)' = SeenStrong(m) /\ SeenWeak(m)' = SeenWeak(m)
      BY <3>6, <3>7 DEF SeenStrong, SeenWeak
    <3> QED  BY <2>1, <3>1, <3>2, <3>6, <3>7, <3>8 DEF Chosen
  <2> QED  BY <2>2 DEF SymbolInv
<1> QED  BY <1>1, <1>2, <1>3

(* The choices at every step of a linking that goes on.                     *)
LEMMA SymbolStep ==
  ASSUME LinkInv, [Next]_vars, pc' # "failed"
  PROVE  SymbolInv'
<1>1. CASE Turn \/ UNCHANGED vars
  <2>1. mods' = mods /\ dst' = dst /\ SymbolInv /\ Coming' = Coming
    <3>1. CASE Turn
      BY <3>1 DEF Turn, LinkInv, Running, Coming
    <3>2. CASE UNCHANGED vars
      BY <1>1, <3>2, SameModules DEF vars, LinkInv, Running, Coming
    <3> QED  BY <1>1, <3>1, <3>2
  <2>2. cur' = cur /\ \A m : /\ Having(m)' = Having(m) /\ (ImportSpoils(m)' <=> ImportSpoils(m))
                             /\ (MixesKinds(m)' <=> MixesKinds(m))
    BY <2>1, SameModules
  <2>3. \A m : Symbol(m)' = Symbol(m) /\ Seen(m)' = Seen(m)
    BY <2>1, <2>2 DEF Symbol, NamedValue, IsLocal, Seen
  <2>4. \A m : Chosen(m) => Chosen(m)'
    BY <2>1, <2>3, ChosenStays
  <2> QED  BY <2>1, <2>2, <2>4 DEF SymbolInv
<1> QED  BY <1>1, StepIs, SymbolPrototype, SymbolFill, SymbolRead

-----------------------------------------------------------------------------
(* When linking fails.                                                      *)

(* A set with two members has more than one.                                *)
LEMMA TwoMembers ==
  ASSUME NEW S, IsFiniteSet(S), NEW a \in S, NEW b \in S, a # b
  PROVE  Cardinality(S) > 1
<1>1. Cardinality(S) \in Nat
  BY FS_CardinalityType
<1>2. Cardinality(S) # 0 /\ Cardinality(S) # 1
  BY FS_EmptySet, FS_Singleton
<1> QED  BY <1>1, <1>2

(* The modules that define a name are finitely many.                        *)
LEMMA FinitelyDefined ==
  ASSUME cur \in Nat, NEW n, NEW linkages
  PROVE  IsFiniteSet(Defining(n, linkages))
<1>1. IsFiniteSet(1 .. cur)
  BY FS_Interval
<1>2. Defining(n, linkages) \in SUBSET (1 .. cur)
  BY DEF Defining, Having
<1> QED  BY <1>1, <1>2, FS_Subset

(* The first loop fails on conflicts.                                       *)
LEMMA FailConflicts ==
  ASSUME LinkInv, pc = "prototypes", NEW n \in todo, FailEffect(n), ~ImportSpoils(n)
  PROVE  Conflicting(n)
<1> DEFINE s == src[n]
<1>1. PICK d \in LinkedTo(n) :
        \/ Plain(n) /\ MultiplyDefined(dst[d], s)
        \/ /\ "appending" \in {s.linkage, dst[d].linkage}
           /\ \/ s.linkage # "appending" \/ dst[d].linkage # "appending"
              \/ s.hidden # dst[d].hidden
  BY DEF FailEffect
<1>2. /\ d \in DOMAIN dst /\ d[2] = n /\ ~IsLocal(s) /\ LinkedTo(n) = {d} /\ Symbol(n) = {d}
      /\ d[1] \in 1 .. cur /\ d[1] < cur /\ d[1] \in Having(n) /\ d[1] \in Seen(n) /\ cur \in Having(n)
      /\ n \in DOMAIN mods[d[1]] /\ IsModule(mods[d[1]])
      /\ dst[d].linkage = mods[d[1]][n].linkage /\ dst[d].linkage # "internal"
      /\ IsDeclaration(dst[d]) <=> ~mods[d[1]][n].def
      /\ dst[d].import => ImportSpoils(n)
  BY LinkedFacts
<1>3. /\ mods[cur] = src /\ n \in DOMAIN src /\ IsModule(src) /\ cur \in Nat /\ SymbolInv
      /\ DOMAIN src \subseteq Names
  BY NotYetLinked, RunningFacts DEF src
<1>4. ASSUME NEW i \in Having(n), NEW j \in Having(n), mods[i][n].linkage = "appending",
             mods[j][n].linkage # "appending" \/ mods[j][n].hidden # mods[i][n].hidden
      PROVE  Conflicting(n)
  BY <1>4 DEF Conflicting
<1>5. CASE Plain(n) /\ MultiplyDefined(dst[d], s)
  <2>1. s.linkage # "appending"
    <3>1. s.linkage = "appending" => s.kind = "variable"
      BY <1>3, GlobalOfModule
    <3> QED  BY <1>5, <3>1 DEF Plain
  <2>2. /\ s.def /\ ~IsDeclaration(dst[d])
        /\ ~IsWeakForLinker(s) /\ ~IsWeakForLinker(dst[d])
    BY <1>2, <1>5 DEF MultiplyDefined
  <2>3. s.linkage \in Linkage /\ dst[d].linkage \in Linkage
    <3>1. s.linkage \in Linkage
      BY <1>3, GlobalOfModule
    <3>2. IsModule(mods[d[1]]) /\ n \in DOMAIN mods[d[1]]
      BY <1>2
    <3>3. mods[d[1]][n].linkage \in Linkage
      BY <3>2, GlobalOfModule
    <3> QED  BY <1>2, <3>1, <3>3
  <2>4. s.linkage = "external" /\ dst[d].linkage \in {"external", "appending"}
    BY <1>2, <2>1, <2>2, <2>3 DEF IsWeakForLinker, Linkage, IsLocal
  <2>5. CASE dst[d].linkage = "external"
    <3>1. cur \in Defining(n, {"external"}) /\ d[1] \in Defining(n, {"external"})
      BY <1>2, <1>3, <2>2, <2>4, <2>5 DEF Defining
    <3>2. d[1] # cur
      BY <1>2, <1>3
    <3>3. Cardinality(Defining(n, {"external"})) > 1
      BY <1>3, <3>1, <3>2, TwoMembers, FinitelyDefined
    <3> QED  BY <3>3 DEF Conflicting
  <2>6. CASE dst[d].linkage = "appending"
    BY <1>2, <1>3, <1>4, <2>1, <2>6
  <2> QED  BY <2>4, <2>5, <2>6
<1>6. CASE s.linkage = "appending" /\ dst[d].linkage # "appending"
  BY <1>2, <1>3, <1>4, <1>6
<1>7. CASE s.linkage # "appending" /\ dst[d].linkage = "appending"
  BY <1>2, <1>3, <1>4, <1>7
<1>8. CASE s.linkage = "appending" /\ dst[d].linkage = "appending" /\ s.hidden # dst[d].hidden
  <2>1. CASE MixesKinds(n)
    <3>1. PICK i \in Having(n), j \in Having(n) :
            mods[i][n].linkage = "appending" /\ mods[j][n].kind # "variable"
      BY <2>1 DEF MixesKinds
    <3>2. IsModule(mods[j]) /\ n \in DOMAIN mods[j]
      BY ModulesRead DEF Having, LinkInv, LinkType
    <3>3. mods[j][n].linkage # "appending"
      BY <3>1, <3>2, AppendingIs
    <3> QED  BY <1>4, <3>1, <3>3
  <2>2. CASE ~MixesKinds(n)
    <3>1. Chosen(n)
      BY <1>3, <2>2 DEF SymbolInv
    <3>2. mods[d[1]][n].linkage = "appending" /\ mods[d[1]][n].hidden = dst[d].hidden
      BY <1>2, <1>8, <3>1 DEF Chosen
    <3> QED  BY <1>2, <1>3, <1>4, <1>8, <3>2
  <2> QED  BY <2>1, <2>2
<1> QED  BY <1>1, <1>5, <1>6, <1>7, <1>8

(* Linking fails on conflicts and on texts only.                            *)
LEMMA FailedStep ==
  ASSUME LinkInv, [Next]_vars
  PROVE  FailedInv'
<1>1. ASSUME UNCHANGED <<input, mods>>,
             \/ \E n \in Known : ImportSpoils(n) \/ Conflicting(n)
             \/ /\ cur < Len(input)
                /\ input[cur + 1].form = "text" /\ Variables(input[cur + 1].syms) # {}
      PROVE  FailedInv'
  <2>1. cur' = cur /\ Known' = Known
        /\ \A n : (ImportSpoils(n)' <=> ImportSpoils(n)) /\ (Conflicting(n)' <=> Conflicting(n))
    BY <1>1, SameModules
  <2> QED  BY <1>1, <2>1 DEF FailedInv
<1>2. CASE RejectFile
  <2>1. /\ cur < Len(input) /\ ~Parses(input[cur + 1].syms, input[cur + 1].form)
        /\ UNCHANGED <<input, mods>>
    BY <1>2 DEF RejectFile
  <2> QED  BY <1>1, <2>1 DEF Parses
<1>3. CASE Prototype /\ pc' = "failed"
  <2>1. pc = "prototypes" /\ UNCHANGED <<input, mods>>
    BY <1>3, PrototypeIs
  <2>2. PICK n \in todo :
          /\ todo' = todo \ {n}
          /\ \/ FailEffect(n) \/ WaitEffect(n)
             \/ Plain(n) /\ ((\E d : KeepEffect(n, d)) \/ BringEffect(n))
             \/ \E d : AppendEffect(n, d)
    BY <1>3, PrototypeIs
  <2>3. FailEffect(n)
    BY <1>3, <2>1, <2>2 DEF WaitEffect, KeepEffect, BringEffect, AppendEffect, MoveEffect
  <2>4. n \in Known
    <3>1. n \in DOMAIN src /\ cur \in Nat /\ cur > 1
      BY <2>1, NotYetLinked
    <3> QED  BY <3>1 DEF Known, src
  <2>5. ImportSpoils(n) \/ Conflicting(n)
    BY <2>1, <2>3, FailConflicts
  <2> QED  BY <1>1, <2>1, <2>4, <2>5
<1>4. CASE UNCHANGED vars
  <2>1. FailedInv' <=> FailedInv
    <3>1. UNCHANGED <<input, mods, pc>> /\ cur' = cur /\ Known' = Known
          /\ \A n : (ImportSpoils(n)' <=> ImportSpoils(n)) /\ (Conflicting(n)' <=> Conflicting(n))
      BY <1>4, SameModules DEF vars
    <3> QED  BY <3>1 DEF FailedInv
  <2> QED  BY <2>1 DEF LinkInv
<1>5. CASE pc' # "failed"
  BY <1>5 DEF FailedInv
<1>6. CASE ReadFile
  <2>1. pc' # "failed"
    BY <1>6, ReadIs, ModulesRead DEF LinkInv, LinkType
  <2> QED  BY <2>1 DEF FailedInv
<1>7. CASE PrototypesDone \/ ContentsDone \/ ModuleDone
  BY <1>7, TurnIs DEF Turn, FailedInv
<1>8. CASE LinkContents
  BY <1>8, ContentsIs DEF FailedInv
<1>9. CASE LinkLazily
  BY <1>9, LazilyIs DEF FailedInv
<1> QED  BY <1>2, <1>3, <1>4, <1>5, <1>6, <1>7, <1>8, <1>9 DEF Next, Ended

-----------------------------------------------------------------------------
(* The theorems.                                                            *)

(* Before the first module is read there is nothing.                        *)
LEMMA LinkInitial ==
  Init => LinkInv
<1> SUFFICES ASSUME Init PROVE LinkInv
  OBVIOUS
<1>1. /\ input \in Inputs /\ pc = "read" /\ mods = <<>> /\ cur = 0 /\ Len(input) \in Nat
      /\ dst = <<>> /\ map = <<>> /\ DOMAIN dst = {} /\ DOMAIN map = {}
      /\ skip = {} /\ lazy = {} /\ todo = {}
  <2>1. /\ input \in Inputs /\ pc = "read" /\ mods = <<>> /\ dst = <<>> /\ map = <<>>
        /\ skip = {} /\ lazy = {} /\ todo = {}
    BY DEF Init
  <2>2. DOMAIN <<>> = {} /\ Len(<<>>) = 0
    OBVIOUS
  <2>3. Len(input) \in Nat
    BY <2>1, InputsAssumption
  <2> QED  BY <2>1, <2>2, <2>3 DEF cur
<1>2. dst = [d \in DOMAIN dst |-> dst[d]] /\ map = [n \in DOMAIN map |-> map[n]]
  <2>1. <<>> = [d \in {} |-> {}] /\ \A f \in [{} -> {}] : f = [d \in DOMAIN f |-> f[d]]
    OBVIOUS
  <2>2. <<>> \in [{} -> {}]
    OBVIOUS
  <2> QED  BY <1>1, <2>1, <2>2
<1>3. LinkType
  <2>1. mods \in Seq(Readable)
    BY <1>1
  <2>2. CompositeType
    BY <1>1, <1>2 DEF CompositeType
  <2>3. MapType
    BY <1>1, <1>2 DEF MapType
  <2> QED  BY <1>1, <2>1, <2>2, <2>3 DEF LinkType
<1>4. LoopInv
  BY <1>1 DEF LoopInv
<1>5. NameInv /\ LinkageInv /\ FromInv /\ RefsInv
  BY <1>1 DEF NameInv, LinkageInv, FromInv, RefsInv
<1>6. SymbolInv
  <2>1. \A n : Having(n) = {} /\ Symbol(n) = {}
    BY <1>1 DEF Having, Symbol, NamedValue
  <2> QED  BY <2>1 DEF SymbolInv, Chosen, Seen
<1>7. FailedInv
  BY <1>1 DEF FailedInv
<1> QED  BY <1>1, <1>3, <1>4, <1>5, <1>6, <1>7 DEF LinkInv

(* No step takes linking out of shape.                                      *)
LEMMA LinkStep ==
  LinkInv /\ [Next]_vars => LinkInv'
<1> SUFFICES ASSUME LinkInv, [Next]_vars PROVE LinkInv'
  OBVIOUS
<1>1. LinkType' /\ FailedInv'
  BY TypeStep, FailedStep
<1>2. ASSUME pc' # "failed"
      PROVE  /\ cur' > 1 => MapInv'
             /\ LoopInv' /\ NameInv' /\ LinkageInv' /\ FromInv' /\ SymbolInv' /\ RefsInv'
  BY <1>2, NameStep, MapStep, FromStep, SymbolStep, RefsStep
<1> QED  BY <1>1, <1>2 DEF LinkInv, Running

(* Linking stays in shape: the composite, the map and the loops agree, and  *)
(* each name's global, contents and mentions are those of the modules.      *)
THEOREM LinkingInShape == Spec => []LinkInv
BY LinkInitial, LinkStep, PTL DEF Spec

(* No global mentions, and the map holds, no global that was replaced and   *)
(* erased, at any point of linking any files.                               *)
THEOREM NothingDangles == Spec => []NoDangling
<1>1. LinkInv => NoDangling
  BY DEF LinkInv, LinkType, CompositeType, MapType, NoDangling
<1> QED  BY <1>1, LinkingInShape, PTL

(* Whatever came over as a definition has its contents once its module has  *)
(* been linked, also a function that was first needed by a late one.        *)
THEOREM NothingIsHalfLinked == Spec => []NothingHalfLinked
<1>1. LinkInv => NothingHalfLinked
  <2> SUFFICES ASSUME LinkInv, pc = "read", NEW d \in DOMAIN dst, Origin(d).def
               PROVE  ~IsDeclaration(dst[d])
    BY DEF NothingHalfLinked, Settled, Origin
  <2>1. Filled(d) /\ todo = {} /\ lazy = {}
    BY DEF LinkInv, Running, FromInv, LoopInv
  <2>2. ~Empty(d)
    BY <2>1 DEF Empty, Unfinished
  <2> QED  BY <2>1, <2>2 DEF Filled, IsDeclaration
<1> QED  BY <1>1, LinkingInShape, PTL

-----------------------------------------------------------------------------
(* Between two files.                                                       *)

(* What the choices come to when all modules read have been linked.         *)
LEMMA SettledChoice ==
  ASSUME LinkInv, Settled, NEW n \in Known, ~ImportSpoils(n), ~MixesKinds(n)
  PROVE  /\ cur \in Nat
         /\ Symbol(n) = {} => \A i \in Having(n) : MayWait(mods[i][n])
         /\ \A d \in Symbol(n) :
              /\ Defining(n, {"external"}) # {} => Defining(n, {"external"}) = {d[1]}
              /\ Defining(n, {"external"}) = {} /\ Defining(n, {"weak", "common"}) # {} =>
                   /\ d[1] \in Defining(n, {"weak", "common"})
                   /\ \A i \in Defining(n, {"weak", "common"}) : d[1] <= i
              /\ (\E i \in Having(n) : mods[i][n].linkage = "appending") =>
                   \A i \in Having(n) : mods[i][n].linkage = "appending" /\ mods[i][n].hidden = dst[d].hidden
<1>1. pc = "read" /\ mods \in Seq(Readable) /\ SymbolInv
  BY DEF Settled, LinkInv, LinkType, Running
<1>2. n \in Names /\ cur \in Nat
  <2>1. PICK i \in 1 .. cur : n \in DOMAIN mods[i]
    BY DEF Known
  <2> QED  BY <1>1, <2>1, ModulesRead
<1>3. Seen(n) = Having(n)
  BY <1>1 DEF Seen, Coming
<1>4. SeenStrong(n) = Defining(n, {"external"}) /\ SeenWeak(n) = Defining(n, {"weak", "common"})
  BY <1>3 DEF SeenStrong, SeenWeak, Defining
<1>5. Chosen(n)
  BY <1>1, <1>2 DEF SymbolInv
<1> QED  BY <1>2, <1>3, <1>4, <1>5 DEF Chosen

(* Between two files a global's contents are those of the modules it is of, *)
(* and it has contents if its own module defines it.                        *)
LEMMA SettledContents ==
  ASSUME LinkInv, Settled, NEW d \in DOMAIN dst
  PROVE  /\ Filled(d) /\ Resolves(d) /\ ~Empty(d)
         /\ d[1] \in 1 .. cur /\ d[2] \in DOMAIN mods[d[1]] /\ IsModule(mods[d[1]])
         /\ cur \in Nat
<1>1. /\ pc = "read" /\ mods \in Seq(Readable) /\ LoopInv /\ FromInv /\ RefsInv /\ LinkType
  BY DEF Settled, LinkInv, LinkType, Running
<1>2. ~Empty(d)
  BY <1>1 DEF LoopInv, Empty, Unfinished
<1>3. d[1] \in 1 .. cur /\ d[2] \in DOMAIN mods[d[1]]
  BY <1>1, GlobalOfComposite
<1> QED  BY <1>1, <1>2, <1>3, ModulesRead DEF FromInv, RefsInv

(* The name of a definition that static linkers choose among is known.      *)
LEMMA DefiningIs ==
  ASSUME NEW n, NEW linkages, NEW i \in Defining(n, linkages)
  PROVE  /\ i \in 1 .. cur /\ n \in DOMAIN mods[i] /\ i \in Having(n)
         /\ mods[i][n].def /\ mods[i][n].linkage \in linkages
BY DEF Defining, Having

(* A name has the definition a static linker would choose, with its level,  *)
(* whatever files were linked and in which order the loops took the names.  *)
THEOREM ChosenWithItsLevel == Spec => []DefinitionWithItsLevel
<1>1. LinkInv => DefinitionWithItsLevel
  <2> SUFFICES ASSUME LinkInv, Settled PROVE DefinitionWithItsLevel
    BY DEF DefinitionWithItsLevel
  <2>1. ASSUME NEW d \in DOMAIN dst, Len(dst[d].from) = 1
        PROVE  dst[d].level = mods[dst[d].from[1]][d[2]].level
    <3>1. dst[d].from # <<>>
      BY <2>1
    <3> QED  BY <3>1, SettledContents DEF Filled
  <2>2. ASSUME NEW n \in Known, ~ImportSpoils(n), ~MixesKinds(n),
               Defining(n, {"external"}) \cup Defining(n, {"weak", "common"}) # {}
        PROVE  \E d \in Symbol(n) :
                 dst[d].from = << CHOOSE i \in IF Defining(n, {"external"}) # {}
                                                 THEN Defining(n, {"external"})
                                                 ELSE Defining(n, {"weak", "common"}) :
                                    Defining(n, {"external"}) = {} =>
                                      \A j \in Defining(n, {"weak", "common"}) : i <= j >>
    <3> DEFINE strong == Defining(n, {"external"})
               weak   == Defining(n, {"weak", "common"})
    <3>1. PICK k : k \in strong \cup weak
      BY <2>2
    <3>2. /\ k \in Having(n) /\ mods[k][n].linkage \in {"external", "weak", "common"}
      BY <3>1, DefiningIs
    <3>3. ~MayWait(mods[k][n])
      BY <3>2 DEF MayWait
    <3>4. PICK d : d \in Symbol(n)
      BY <2>2, <3>2, <3>3, SettledChoice
    <3>5. d \in DOMAIN dst /\ d[2] = n /\ dst[d].linkage # "internal"
      BY <3>4 DEF Symbol, NamedValue, IsLocal
    <3>6. /\ cur \in Nat
          /\ strong # {} => strong = {d[1]}
          /\ strong = {} /\ weak # {} => d[1] \in weak /\ \A i \in weak : d[1] <= i
      BY <2>2, <3>4, SettledChoice
    <3>7. d[1] \in (IF strong # {} THEN strong ELSE weak)
          /\ (strong = {} => \A j \in weak : d[1] <= j)
      BY <3>1, <3>6
    <3>8. ASSUME NEW i \in IF strong # {} THEN strong ELSE weak, strong = {} => \A j \in weak : i <= j
          PROVE  i = d[1]
      <4>1. CASE strong # {}
        BY <3>6, <3>8, <4>1
      <4>2. CASE strong = {}
        <5>1. i \in weak /\ d[1] \in weak /\ i <= d[1] /\ d[1] <= i
          BY <3>6, <3>7, <3>8, <4>2
        <5>2. i \in Int /\ d[1] \in Int
          BY <3>6, <5>1, DefiningIs
        <5> QED  BY <5>1, <5>2
      <4> QED  BY <4>1, <4>2
    <3>9. d[1] = CHOOSE i \in IF strong # {} THEN strong ELSE weak : strong = {} => \A j \in weak : i <= j
      BY <3>7, <3>8
    <3>10. dst[d].from = <<d[1]>>
      <4>1. Origin(d).def /\ Origin(d).linkage \in {"external", "weak", "common"}
        BY <3>5, <3>7, DefiningIs DEF Origin
      <4>2. Filled(d) /\ ~Empty(d)
        BY <3>5, SettledContents
      <4> QED  BY <4>1, <4>2 DEF Filled
    <3> QED  BY <3>4, <3>9, <3>10
  <2> QED  BY <2>1, <2>2 DEF DefinitionWithItsLevel
<1> QED  BY <1>1, LinkingInShape, PTL

(* At most one global of a name is seen from outside.                       *)
LEMMA ResolvedIsOne ==
  ASSUME NameInv, NEW i, NEW n, NEW x \in Resolved(i, n)
  PROVE  Resolved(i, n) = {x}
<1>1. CASE IsLocal(mods[i][n])
  BY <1>1 DEF Resolved
<1>2. CASE ~IsLocal(mods[i][n])
  BY <1>2 DEF Resolved, Symbol, NamedValue, NameInv
<1> QED  BY <1>1, <1>2

(* Every mention in a body, an initialiser or an aliasee reaches exactly    *)
(* the global it means: the module's own if local, else the one of the name.*)
THEOREM MentionsResolved == Spec => []ReferencesResolved
<1>1. LinkInv => ReferencesResolved
  <2> SUFFICES ASSUME LinkInv, Settled, NEW d \in DOMAIN dst,
                      \A e \in Mentioned(d) : ~ImportSpoils(e[2])
               PROVE  /\ dst[d].refs = UNION { Resolved(e[1], e[2]) : e \in Mentioned(d) }
                      /\ \A e \in Mentioned(d) : Cardinality(Resolved(e[1], e[2])) = 1
    BY DEF ReferencesResolved, Mentioned
  <2>1. Resolves(d) /\ NameInv
    BY SettledContents DEF LinkInv, Running, Settled
  <2>2. ASSUME NEW x \in dst[d].refs
        PROVE  x \in UNION { Resolved(e[1], e[2]) : e \in Mentioned(d) }
    <3>1. PICK e \in Mentioned(d) : e[2] = x[2] /\ (~ImportSpoils(x[2]) => x \in Resolved(e[1], e[2]))
      BY <2>1 DEF Resolves
    <3> QED  BY <3>1
  <2>3. ASSUME NEW e \in Mentioned(d)
        PROVE  Resolved(e[1], e[2]) \subseteq dst[d].refs /\ Cardinality(Resolved(e[1], e[2])) = 1
    <3>1. Resolved(e[1], e[2]) # {} /\ Resolved(e[1], e[2]) \subseteq dst[d].refs
      BY <2>1 DEF Resolves
    <3>2. PICK x : x \in Resolved(e[1], e[2])
      BY <3>1
    <3>3. Resolved(e[1], e[2]) = {x}
      BY <2>1, <3>2, ResolvedIsOne
    <3>4. Cardinality({x}) = 1
      BY FS_Singleton
    <3> QED  BY <3>1, <3>3, <3>4
  <2>4. dst[d].refs = UNION { Resolved(e[1], e[2]) : e \in Mentioned(d) }
    BY <2>2, <2>3
  <2> QED  BY <2>3, <2>4
<1> QED  BY <1>1, LinkingInShape, PTL

(* Linking goes on only over names without conflict, and fails only on one, *)
(* on a spoiling dllimport or on a text that declares a variable.           *)
THEOREM ConflictsFail == Spec => []FailsOnConflict
<1>1. LinkInv => FailsOnConflict
  <2>1. ASSUME LinkInv, Settled, NEW n \in Known, ~ImportSpoils(n), ~MixesKinds(n)
        PROVE  ~Conflicting(n)
    <3>1. CASE Symbol(n) = {}
      <4>1. \A i \in Having(n) : MayWait(mods[i][n])
        BY <2>1, <3>1, SettledChoice
      <4>2. Defining(n, {"external"}) = {}
        BY <4>1 DEF Defining, MayWait
      <4>3. \A i \in Having(n) : mods[i][n].linkage # "appending"
        BY <4>1 DEF MayWait
      <4>4. Cardinality(Defining(n, {"external"})) = 0
        BY <4>2, FS_EmptySet
      <4> QED  BY <4>3, <4>4 DEF Conflicting
    <3>2. ASSUME NEW d \in Symbol(n)
          PROVE  ~Conflicting(n)
      <4>1. Defining(n, {"external"}) = {} \/ Defining(n, {"external"}) = {d[1]}
        BY <2>1, SettledChoice
      <4>2. Cardinality({}) = 0 /\ Cardinality({d[1]}) = 1
        BY FS_EmptySet, FS_Singleton
      <4>3. ~(Cardinality(Defining(n, {"external"})) > 1)
        BY <4>1, <4>2
      <4>4. (\E i \in Having(n) : mods[i][n].linkage = "appending") =>
              \A i \in Having(n) : mods[i][n].linkage = "appending" /\ mods[i][n].hidden = dst[d].hidden
        BY <2>1, SettledChoice
      <4> QED  BY <4>3, <4>4 DEF Conflicting
    <3> QED  BY <3>1, <3>2
  <2>2. LinkInv /\ pc = "failed" =>
          \/ \E n \in Known : ImportSpoils(n) \/ Conflicting(n)
          \/ /\ cur < Len(input)
             /\ input[cur + 1].form = "text" /\ Variables(input[cur + 1].syms) # {}
    BY DEF LinkInv, FailedInv
  <2> QED  BY <2>1, <2>2 DEF FailsOnConflict
<1> QED  BY <1>1, LinkingInShape, PTL
=============================================================================
