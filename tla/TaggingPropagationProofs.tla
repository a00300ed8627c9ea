---------------------- MODULE TaggingPropagationProofs ----------------------
(***************************************************************************)
(* Theorems about TaggingPropagation, for every set of functions, number   *)
(* of levels and family of modules.                                        *)
(***************************************************************************)
EXTENDS TaggingPropagation, SequenceTheorems, TLAPS

(* What membership of IR says of the fields the walk reads.                 *)
LEMMA ModuleShape ==
  ASSUME NEW m \in IR
  PROVE  /\ m.defs \subseteq Function
         /\ m.section \in [Function -> Section]
         /\ m.attr \in [Function -> Level \cup {NoTag}]
         /\ \A f \in Function : m.body[f] \in Seq(Function \cup {Indirect})
  BY DEF IR

(* Reading the annotations gives every function a section.                  *)
LEMMA SeedIsSection ==
  ASSUME NEW m \in IR
  PROVE  SeedSection(m) \in [Function -> Section]
<1>1. m.section \in [Function -> Section] /\ m.attr \in [Function -> Level \cup {NoTag}]
  BY ModuleShape
<1>2. Level \subseteq Section /\ LeastPrivileged \in Section
  BY NumLevelsAssumption DEF Level, LeastPrivileged, Section, Tag
<1> QED  BY <1>1, <1>2 DEF SeedSection

(* The last element of a non-empty list and the list without it.            *)
LEMMA PopShape ==
  ASSUME NEW S, NEW q \in Seq(S), q # <<>>
  PROVE  /\ Len(q) \in Nat \ {0}
         /\ q[Len(q)] \in S
         /\ SubSeq(q, 1, Len(q) - 1) \in Seq(S)
         /\ Len(SubSeq(q, 1, Len(q) - 1)) = Len(q) - 1
         /\ \A n \in 1 .. Len(q) - 1 : SubSeq(q, 1, Len(q) - 1)[n] = q[n]
<1>1. Len(q) \in Nat \ {0}
  BY EmptySeq
<1>2. \A n \in 1 .. Len(q) : q[n] \in S
  BY ElementOfSeq
<1>3. /\ SubSeq(q, 1, Len(q) - 1) \in Seq(S)
      /\ Len(SubSeq(q, 1, Len(q) - 1)) = Len(q) - 1
      /\ \A n \in 1 .. Len(q) - 1 : SubSeq(q, 1, Len(q) - 1)[n] = q[n]
  <2> DEFINE k == Len(q) - 1
  <2>1. k \in Int /\ k >= 0 /\ 1 \in Int /\ \A n \in 1 .. k : q[n] \in S
    BY <1>1, <1>2
  <2> HIDE DEF k
  <2>2. /\ SubSeq(q, 1, k) \in Seq(S)
        /\ Len(SubSeq(q, 1, k)) = IF 1 <= k THEN k - 1 + 1 ELSE 0
        /\ \A n \in 1 .. k - 1 + 1 : SubSeq(q, 1, k)[n] = q[1 + n - 1]
    BY ONLY <2>1, SubSeqProperties
  <2>3. k - 1 + 1 = k /\ (~(1 <= k) => k = 0) /\ \A n \in 1 .. k : 1 + n - 1 = n
    BY <2>1
  <2>4. /\ SubSeq(q, 1, k) \in Seq(S)
        /\ Len(SubSeq(q, 1, k)) = k
        /\ \A n \in 1 .. k : SubSeq(q, 1, k)[n] = q[n]
    BY <2>2, <2>3
  <2> QED  BY <2>4 DEF k
<1> QED  BY <1>1, <1>2, <1>3

(* A list of one element.                                                   *)
LEMMA SingletonShape ==
  ASSUME NEW S, NEW x \in S
  PROVE  <<x>> \in Seq(S) /\ Len(<<x>>) = 1 /\ <<x>>[1] = x
  OBVIOUS

(* TypeOK is not inductive alone: left is meant for current, and Requeue    *)
(* changes current and not left, which is then 0.                           *)
TypeInv == TypeOK /\ (pc # "push" => left = 0)

LEMMA TypeInit == Init => TypeInv
<1> SUFFICES ASSUME Init PROVE TypeInv
  OBVIOUS
<1>1. ir \in IR
  BY ModulesAssumption DEF Init
<1>2. ir.section \in [Function -> Section] /\ ir.body[Main] \in Seq(Function \cup {Indirect})
  BY <1>1, ModuleShape, NamesAssumption
<1> QED  BY <1>2, NamesAssumption DEF Init, TypeInv, TypeOK

LEMMA TypeStep == TypeInv /\ [Next]_vars => TypeInv'
<1> SUFFICES ASSUME TypeInv, [Next]_vars PROVE TypeInv'
  OBVIOUS
<1> USE DEF TypeInv, TypeOK
<1>m. ir \in IR
  BY ModulesAssumption
<1>s. /\ ir.defs \subseteq Function
      /\ \A f \in Function : ir.body[f] \in Seq(Function \cup {Indirect})
  BY <1>m, ModuleShape
<1>t. ASSUME pc = "walk", notVisited # <<>>
      PROVE  /\ Top \in ir.defs /\ Rest \in Seq(ir.defs)
             /\ Len(ir.body[Top]) \in Nat /\ left = 0
  <2>1. Top \in ir.defs /\ Rest \in Seq(ir.defs)
    BY <1>t, PopShape DEF Top, Rest
  <2> QED  BY <2>1, <1>s, <1>t
<1>1. CASE Collect
  <2>1. SeedSection(ir) \in [Function -> Section]
    BY <1>m, SeedIsSection
  <2>2. RecordedSites(ir, section') \subseteq Sites(ir)
    BY DEF RecordedSites
  <2> QED  BY <1>1, <2>1, <2>2 DEF Collect
<1>2. CASE Finish
  BY <1>2 DEF Finish
<1>3. CASE StartRound
  <2>1. CASE Main \in ir.defs
    <3>1. <<Main>> \in Seq(ir.defs)
      BY <2>1, SingletonShape
    <3> QED  BY <1>3, <2>1, <3>1 DEF StartRound
  <2>2. CASE Main \notin ir.defs
    BY <1>3, <2>2 DEF StartRound
  <2> QED  BY <2>1, <2>2
<1>4. CASE EndRound
  BY <1>4 DEF EndRound
<1>5. CASE ExpandTagged
  BY <1>5, <1>t, <1>s DEF ExpandTagged, Visit
<1>6. CASE TagCurrent
  <2>1. section' \in [Function -> Section]
    BY <1>6 DEF TagCurrent, Section
  <2> QED  BY <1>6, <1>t, <1>s, <2>1 DEF TagCurrent, Visit
<1>7. CASE Requeue
  <2>1. notVisited' \in Seq(ir.defs)
    <3>1. <<Top>> \in Seq(ir.defs) /\ Rest \in Seq(ir.defs)
      BY <1>7, <1>t, SingletonShape DEF Requeue
    <3> QED  BY <1>7, <3>1, ConcatProperties DEF Requeue
  <2> QED  BY <1>7, <1>t, <1>s, <2>1 DEF Requeue
<1>8. CASE CrashOnIndirect
  BY <1>8 DEF CrashOnIndirect
<1>9. CASE PushSon
  <2>1. notVisited' \in Seq(ir.defs)
    <3>1. CASE IsSon(current, ir.body[current][left]) /\ ir.body[current][left] \notin visited
      <4>1. Append(notVisited, ir.body[current][left]) \in Seq(ir.defs)
        BY <3>1, AppendProperties DEF IsSon
      <4> QED  BY <1>9, <3>1, <4>1 DEF PushSon
    <3>2. CASE ~(IsSon(current, ir.body[current][left]) /\ ir.body[current][left] \notin visited)
      BY <1>9, <3>2 DEF PushSon
    <3> QED  BY <3>1, <3>2
  <2>2. left' \in 0 .. Len(ir.body[current])
    BY <1>9, <1>s DEF PushSon
  <2> QED  BY <1>9, <2>1, <2>2 DEF PushSon
<1>10. CASE SonsPushed
  BY <1>10 DEF SonsPushed
<1>11. CASE UNCHANGED vars
  BY <1>11 DEF vars
<1> QED
  BY <1>1, <1>2, <1>3, <1>4, <1>5, <1>6, <1>7, <1>8, <1>9, <1>10, <1>11 DEF Next, Stopped

(* Type correctness of the pass.                                            *)
THEOREM TypeCorrect == Spec => []TypeOK
<1>1. TypeInv => TypeOK
  BY DEF TypeInv
<1> QED  BY <1>1, TypeInit, TypeStep, PTL DEF Spec

-----------------------------------------------------------------------------
(* CallSites is what the collecting loop makes of the seeds, ever after.    *)
CollectedInv == pc # "collect" => callSites = RecordedSites(ir, SeedSection(ir))

LEMMA CollectedStep == CollectedInv /\ [Next]_vars => CollectedInv'
<1> SUFFICES ASSUME CollectedInv, [Next]_vars PROVE CollectedInv'
  OBVIOUS
<1>0. ir' = ir
  BY DEF Next, Stopped, vars, Collect, Finish, StartRound, EndRound, ExpandTagged,
         TagCurrent, Requeue, CrashOnIndirect, PushSon, SonsPushed
<1>1. CASE Collect
  BY <1>1 DEF Collect, CollectedInv
<1>2. CASE ~Collect
  <2>1. callSites' = callSites /\ (pc' # "collect" => pc # "collect")
    BY <1>2 DEF Next, Stopped, vars, Finish, StartRound, EndRound, ExpandTagged,
                TagCurrent, Requeue, CrashOnIndirect, PushSon, SonsPushed
  <2> QED  BY <1>0, <2>1 DEF CollectedInv
<1> QED  BY <1>1, <1>2

(* A call site is a call of a defined function, by its caller and index.    *)
LEMMA SiteShape ==
  ASSUME NEW m, NEW s
  PROVE  s \in Sites(m) <=> \E f \in m.defs : \E i \in DOMAIN m.body[f] : s = <<f, i>>
  BY DEF Sites

(* The callers the pass finds in its call sites are those of the program.   *)
LEMMA CallersAgree ==
  ASSUME TypeInv, CollectedInv, pc # "collect", NEW f \in ir.defs
  PROVE  CallersOf(f) = Callers(f)
<1> DEFINE seed == SeedSection(ir)
<1>1. ASSUME NEW g \in CallersOf(f) PROVE g \in Callers(f)
  <2>1. PICK s \in callSites : Callee(ir, s) = f /\ s[1] = g
    BY DEF CallersOf
  <2>2. s \in Sites(ir) /\ seed[s[1]] # Startup
    BY <2>1 DEF CollectedInv, RecordedSites
  <2>3. PICK h \in ir.defs : \E i \in DOMAIN ir.body[h] : s = <<h, i>>
    BY <2>2, SiteShape
  <2> QED  BY <2>1, <2>2, <2>3 DEF Callee, Callers, Calls
<1>2. ASSUME NEW g \in Callers(f) PROVE g \in CallersOf(f)
  <2>1. g \in ir.defs /\ seed[g] # Startup
    BY DEF Callers
  <2>2. PICK i \in DOMAIN ir.body[g] : ir.body[g][i] = f
    BY DEF Callers, Calls
  <2>3. <<g, i>> \in Sites(ir) /\ Callee(ir, <<g, i>>) = f
    BY <2>1, <2>2, SiteShape DEF Callee
  <2>4. <<g, i>> \in callSites
    BY <2>1, <2>3 DEF CollectedInv, RecordedSites
  <2> QED  BY <2>3, <2>4 DEF CallersOf
<1> QED  BY <1>1, <1>2

(* What TagCurrent knows when it writes a tag.                              *)
LEMMA TagCurrentInherits ==
  ASSUME TypeInv, CollectedInv, TagCurrent
  PROVE  /\ Top \in ir.defs
         /\ ~Tagged(section[Top])
         /\ \A g \in Callers(Top) : Tagged(section[g]) /\ g \in ir.defs
         /\ Top \notin Callers(Top)
         /\ \E lev \in Tag :
              /\ section' = [section EXCEPT ![Top] = lev]
              /\ \A g \in Callers(Top) : section[g] <= lev
              /\ IF Callers(Top) = {} THEN lev = -1 ELSE \E g \in Callers(Top) : section[g] = lev
<1>1. Top \in ir.defs
  BY PopShape DEF TagCurrent, Top, TypeInv, TypeOK
<1>2. pc # "collect" /\ ~Tagged(section[Top])
  BY DEF TagCurrent
<1>3. CallersOf(Top) = Callers(Top)
  BY <1>1, <1>2, CallersAgree
<1>4. \A g \in CallersOf(Top) : Tagged(section[g])
  BY DEF TagCurrent, AllParentsTagged, UntaggedSite, CallersOf
<1>5. \A g \in Callers(Top) : g \in ir.defs
  BY DEF Callers
<1>6. PICK lev \in Tag : ParentLevel(Top, lev) /\ section' = [section EXCEPT ![Top] = lev]
  BY DEF TagCurrent
<1> QED  BY <1>1, <1>2, <1>3, <1>4, <1>5, <1>6 DEF ParentLevel

LEMMA InferredTagStep ==
  TypeInv /\ CollectedInv /\ InferredTagIsMaxOfCallers /\ [Next]_vars
    => InferredTagIsMaxOfCallers'
<1> SUFFICES ASSUME TypeInv, CollectedInv, InferredTagIsMaxOfCallers, [Next]_vars
             PROVE  InferredTagIsMaxOfCallers'
  OBVIOUS
<1>0. ir' = ir
  BY DEF Next, Stopped, vars, Collect, Finish, StartRound, EndRound, ExpandTagged,
         TagCurrent, Requeue, CrashOnIndirect, PushSon, SonsPushed
<1>1. CASE Collect
  BY <1>0, <1>1 DEF Collect, InferredTagIsMaxOfCallers
<1>2. CASE TagCurrent
  <2>1. pc # "collect" /\ ir.defs \subseteq Function /\ section \in [Function -> Section]
    BY <1>2, ModulesAssumption, ModuleShape DEF TagCurrent, TypeInv, TypeOK
  <2>2. PICK lev \in Tag :
          /\ section' = [section EXCEPT ![Top] = lev]
          /\ \A g \in Callers(Top) : section[g] <= lev
          /\ IF Callers(Top) = {} THEN lev = -1 ELSE \E g \in Callers(Top) : section[g] = lev
    BY <1>2, TagCurrentInherits
  <2>3. /\ Top \in ir.defs /\ ~Tagged(section[Top]) /\ Top \notin Callers(Top)
        /\ \A g \in Callers(Top) : Tagged(section[g]) /\ g \in ir.defs
    BY <1>2, TagCurrentInherits
  <2>4. \A g \in Function : g # Top => section'[g] = section[g]
    BY <2>1, <2>2
  <2>5. section'[Top] = lev
    BY <2>1, <2>2, <2>3
  <2>6. ASSUME NEW f \in ir.defs, ~Tagged(SeedSection(ir)[f]), Tagged(section'[f])
        PROVE  /\ \A g \in Callers(f) : Tagged(section'[g]) /\ section'[g] <= section'[f]
               /\ IF Callers(f) = {} THEN section'[f] = -1
                                     ELSE \E g \in Callers(f) : section'[g] = section'[f]
    <3>1. CASE f = Top
      <4>1. \A g \in Callers(Top) : section'[g] = section[g]
        BY <2>1, <2>3, <2>4
      <4> QED  BY <2>2, <2>3, <2>5, <3>1, <4>1
    <3>2. CASE f # Top
      <4>1. section'[f] = section[f]
        BY <2>1, <2>4, <3>2
      <4>2. /\ \A g \in Callers(f) : Tagged(section[g]) /\ section[g] <= section[f]
            /\ IF Callers(f) = {} THEN section[f] = -1
                                  ELSE \E g \in Callers(f) : section[g] = section[f]
        BY <2>1, <2>6, <4>1 DEF InferredTagIsMaxOfCallers
      <4>3. \A g \in Callers(f) : section'[g] = section[g]
        BY <2>1, <2>3, <2>4, <4>2 DEF Callers
      <4> QED  BY <4>1, <4>2, <4>3
    <3> QED  BY <3>1, <3>2
  <2> QED  BY <1>0, <2>6 DEF InferredTagIsMaxOfCallers, Callers
<1>3. CASE ~Collect /\ ~TagCurrent
  <2>1. section' = section /\ (pc' # "collect" => pc # "collect")
    BY <1>3 DEF Next, Stopped, vars, Finish, StartRound, EndRound, ExpandTagged,
                Requeue, CrashOnIndirect, PushSon, SonsPushed
  <2> QED  BY <1>0, <2>1 DEF InferredTagIsMaxOfCallers, Callers
<1> QED  BY <1>1, <1>2, <1>3

(* At the end of Collect no function has an inferred tag yet, and a function *)
(* that gets one has callers that keep theirs.                               *)
THEOREM InferredTagCorrect == Spec => []InferredTagIsMaxOfCallers
<1> DEFINE IInv == TypeInv /\ CollectedInv /\ InferredTagIsMaxOfCallers
<1>1. Init => IInv
  BY TypeInit DEF Init, CollectedInv, InferredTagIsMaxOfCallers
<1>2. IInv /\ [Next]_vars => IInv'
  BY TypeStep, CollectedStep, InferredTagStep
<1> QED  BY <1>1, <1>2, PTL DEF Spec

-----------------------------------------------------------------------------
(* The refinement: the section the abstract specification sees before the   *)
(* annotations are read is the one it will see after, so Collect stutters;  *)
(* TagCurrent infers the level of Top; nothing else touches the sections.   *)
AbsSection == IF pc = "collect" THEN SeedSection(ir) ELSE section

LEMMA RefineInit == Init => Inference!Init
<1> SUFFICES ASSUME Init PROVE Inference!Init
  OBVIOUS
<1>1. ir \in Modules /\ pc = "collect"
  BY DEF Init
<1>2. SeedSection(ir) \in [Function -> Section]
  BY <1>1, ModulesAssumption, SeedIsSection
<1> QED  BY <1>1, <1>2 DEF Inference!Init, Inference!Section, Section, Inference!Tag, Tag,
                           Inference!Level, Level

LEMMA RefineStep ==
  TypeInv /\ CollectedInv /\ [Next]_vars => [Inference!Next]_(Inference!vars)
<1> SUFFICES ASSUME TypeInv, CollectedInv, [Next]_vars
             PROVE  [Inference!Next]_(Inference!vars)
  OBVIOUS
<1>0. ir' = ir
  BY DEF Next, Stopped, vars, Collect, Finish, StartRound, EndRound, ExpandTagged,
         TagCurrent, Requeue, CrashOnIndirect, PushSon, SonsPushed
<1>1. CASE TagCurrent
  <2>1. AbsSection = section /\ AbsSection' = section'
    BY <1>1 DEF AbsSection, TagCurrent, Visit
  <2>2. \A f : Inference!Callers(f) = Callers(f)
    BY DEF Inference!Callers, Callers, Inference!Calls, Calls
  <2>3. /\ Top \in ir.defs
        /\ ~Tagged(section[Top])
        /\ \A g \in Callers(Top) : Tagged(section[g])
    BY <1>1, TagCurrentInherits
  <2>4. PICK lev \in Tag :
          /\ section' = [section EXCEPT ![Top] = lev]
          /\ \A g \in Callers(Top) : section[g] <= lev
          /\ IF Callers(Top) = {} THEN lev = -1 ELSE \E g \in Callers(Top) : section[g] = lev
    BY <1>1, TagCurrentInherits
  <2>5. lev \in Inference!Tag
    BY DEF Inference!Tag, Tag, Inference!Level, Level
  <2>6. Inference!Infer(Top)
    BY <1>0, <2>1, <2>2, <2>3, <2>4, <2>5
       DEF Inference!Infer, Inference!Inherits, Inference!Tagged, Tagged, AbsSection
  <2> QED  BY <2>3, <2>6 DEF Inference!Next
<1>2. CASE ~TagCurrent
  <2>1. AbsSection' = AbsSection
    BY <1>0, <1>2 DEF AbsSection, Next, Stopped, vars, Collect, Finish, StartRound, EndRound,
            ExpandTagged, Requeue, CrashOnIndirect, PushSon, SonsPushed, Visit
  <2> QED  BY <1>0, <2>1 DEF AbsSection, Inference!vars
<1> QED  BY <1>1, <1>2

(* The pass implements LevelInference.                                      *)
THEOREM RefinesLevelInference == Spec => InfersLevels
<1>1. Init => TypeInv /\ CollectedInv
  BY TypeInit DEF Init, CollectedInv
<1> QED  BY <1>1, TypeStep, CollectedStep, RefineInit, RefineStep, PTL
         DEF Spec, InfersLevels, Inference!Spec

-----------------------------------------------------------------------------
(* The work list as a set: what popping, pushing and putting back do to it. *)
In(q, g) == \E n \in DOMAIN q : q[n] = g

LEMMA PopIn ==
  ASSUME NEW S, NEW q \in Seq(S), q # <<>>, NEW g, In(q, g), g # q[Len(q)]
  PROVE  In(SubSeq(q, 1, Len(q) - 1), g)
<1> DEFINE r == SubSeq(q, 1, Len(q) - 1)
<1>1. PICK n \in 1 .. Len(q) : q[n] = g
  BY LenProperties DEF In
<1>2. Len(q) \in Nat \ {0} /\ r \in Seq(S) /\ Len(r) = Len(q) - 1
      /\ \A i \in 1 .. Len(q) - 1 : r[i] = q[i]
  BY PopShape
<1>3. n \in 1 .. Len(q) - 1
  BY <1>1, <1>2
<1>4. n \in DOMAIN r /\ r[n] = g
  <2>1. DOMAIN r = 1 .. Len(r)
    BY <1>2, LenProperties
  <2> QED  BY <1>1, <1>2, <1>3, <2>1
<1> QED  BY <1>4 DEF In

LEMMA AppendIn ==
  ASSUME NEW S, NEW q \in Seq(S), NEW x \in S, NEW g, In(q, g) \/ g = x
  PROVE  In(Append(q, x), g)
<1>1. /\ Append(q, x) \in Seq(S) /\ Len(Append(q, x)) = Len(q) + 1
      /\ \A i \in 1 .. Len(q) : Append(q, x)[i] = q[i]
      /\ Append(q, x)[Len(q) + 1] = x
  BY AppendProperties
<1>2. DOMAIN q = 1 .. Len(q) /\ Len(q) \in Nat /\ DOMAIN Append(q, x) = 1 .. Len(q) + 1
  BY <1>1, LenProperties
<1>3. CASE g = x
  BY <1>1, <1>2, <1>3 DEF In
<1>4. CASE In(q, g)
  BY <1>1, <1>2, <1>4 DEF In
<1> QED  BY <1>3, <1>4

LEMMA PutBackIn ==
  ASSUME NEW S, NEW q \in Seq(S), NEW x \in S, NEW g, In(q, g) \/ g = x
  PROVE  In(<<x>> \o q, g)
<1>0. <<x>> \in Seq(S) /\ Len(<<x>>) = 1 /\ <<x>>[1] = x
  BY SingletonShape
<1>1. /\ <<x>> \o q \in Seq(S) /\ Len(<<x>> \o q) = 1 + Len(q)
      /\ \A i \in 1 .. 1 + Len(q) : (<<x>> \o q)[i] = IF i <= 1 THEN <<x>>[i] ELSE q[i - 1]
  BY <1>0, ConcatProperties
<1>2. DOMAIN q = 1 .. Len(q) /\ Len(q) \in Nat /\ DOMAIN (<<x>> \o q) = 1 .. 1 + Len(q)
  BY <1>1, LenProperties
<1>3. CASE g = x
  <2>1. (<<x>> \o q)[1] = x /\ 1 \in DOMAIN (<<x>> \o q)
    BY <1>0, <1>1, <1>2
  <2> QED  BY <1>3, <2>1 DEF In
<1>4. CASE In(q, g)
  <2>1. PICK n \in 1 .. Len(q) : q[n] = g
    BY <1>2, <1>4 DEF In
  <2>2. n + 1 \in 1 .. 1 + Len(q) /\ ~(n + 1 <= 1) /\ (n + 1) - 1 = n
    BY <1>2, <2>1
  <2>3. (<<x>> \o q)[n + 1] = g
    BY <1>1, <2>1, <2>2
  <2> QED  BY <1>2, <2>2, <2>3 DEF In
<1> QED  BY <1>3, <1>4

-----------------------------------------------------------------------------
(* NoNodeLost says what becomes of sons; RoundTagsReachable also needs that *)
(* main itself was visited and that what is visited has a tag.              *)
WalkInv ==
  /\ NoNodeLost
  /\ \A f \in visited : Tagged(section[f])
  /\ \/ Main \in visited
     \/ Queued(Main)
     \/ visited = {} /\ pc \notin {"walk", "push"}
  /\ pc \in {"collect", "check", "done"} => notVisited = <<>>
  /\ pc = "collect" => visited = {}

LEMMA WalkInit == Init => WalkInv
  BY DEF Init, WalkInv, NoNodeLost

(* Popping Top to visit it: its sons are all left to be pushed.             *)
LEMMA VisitTop ==
  ASSUME TypeInv, WalkInv, pc = "walk", notVisited # <<>>, ir' = ir,
         notVisited' = Rest, current' = Top, Visit,
         Tagged(section'[Top]),
         \A f \in Function : Tagged(section[f]) => section'[f] = section[f]
  PROVE  WalkInv'
<1>1. /\ Top \in ir.defs /\ ir.defs \subseteq Function
      /\ ir.body[Top] \in Seq(Function \cup {Indirect})
  BY ModulesAssumption, ModuleShape, PopShape DEF Top, TypeInv, TypeOK
<1>2. visited' = visited \cup {Top} /\ left' = Len(ir.body[Top]) /\ pc' = "push"
  BY DEF Visit
<1>3. \A g : Queued(g) => g = Top \/ Queued(g)'
  <2> SUFFICES ASSUME NEW g, Queued(g), g # Top PROVE Queued(g)'
    OBVIOUS
  <2>1. notVisited \in Seq(ir.defs) /\ In(notVisited, g) /\ g # notVisited[Len(notVisited)]
    BY DEF TypeInv, TypeOK, Queued, In, Top
  <2>2. In(Rest, g)
    BY <2>1, PopIn DEF Rest
  <2> QED  BY <2>2 DEF Queued, In
<1>4. NoNodeLost'
  <2> SUFFICES ASSUME NEW f \in visited', NEW i \in DOMAIN ir.body[f]
               PROVE  \/ ~IsSon(f, ir.body[f][i])
                      \/ ir.body[f][i] \in visited'
                      \/ Queued(ir.body[f][i])'
                      \/ pc' = "push" /\ f = current' /\ i <= left'
    BY DEF NoNodeLost, IsSon
  <2>1. CASE f = Top
    <3>1. i <= left'
      BY <1>1, <1>2, <2>1, LenProperties
    <3> QED  BY <1>2, <2>1, <3>1
  <2>2. CASE f # Top
    <3>1. f \in visited
      BY <1>2, <2>2
    <3>2. \/ ~IsSon(f, ir.body[f][i])
          \/ ir.body[f][i] \in visited
          \/ Queued(ir.body[f][i])
      BY <3>1 DEF WalkInv, NoNodeLost
    <3> QED  BY <1>2, <1>3, <3>2
  <2> QED  BY <2>1, <2>2
<1>5. \A f \in visited' : Tagged(section'[f])
  BY <1>1, <1>2 DEF WalkInv, TypeInv, TypeOK
<1>6. Main \in visited' \/ Queued(Main)'
  BY <1>2, <1>3 DEF WalkInv
<1> QED  BY <1>2, <1>4, <1>5, <1>6 DEF WalkInv

LEMMA WalkStep == TypeInv /\ CollectedInv /\ WalkInv /\ [Next]_vars => WalkInv'
<1> SUFFICES ASSUME TypeInv, CollectedInv, WalkInv, [Next]_vars PROVE WalkInv'
  OBVIOUS
<1>0. ir' = ir
  BY DEF Next, Stopped, vars, Collect, Finish, StartRound, EndRound, ExpandTagged,
         TagCurrent, Requeue, CrashOnIndirect, PushSon, SonsPushed
<1>1. CASE Collect
  <2>1. visited' = {} /\ notVisited' = <<>> /\ pc' = "check"
    BY <1>1 DEF Collect, WalkInv, NoNodeLost, Queued
  <2> QED  BY <2>1 DEF WalkInv, NoNodeLost
<1>2. CASE StartRound
  BY <1>0, <1>2 DEF StartRound, WalkInv, NoNodeLost, IsSon, Queued
<1>3. CASE ExpandTagged
  BY <1>0, <1>3, VisitTop DEF ExpandTagged
<1>4. CASE TagCurrent
  <2>1. /\ Tagged(section'[Top])
        /\ \A f \in Function : Tagged(section[f]) => section'[f] = section[f]
    <3>1. Top \in ir.defs /\ ir.defs \subseteq Function /\ ~Tagged(section[Top])
      BY <1>4, TagCurrentInherits, ModulesAssumption, ModuleShape DEF TypeInv, TypeOK
    <3>2. PICK lev \in Tag : section' = [section EXCEPT ![Top] = lev]
      BY <1>4 DEF TagCurrent
    <3>3. lev \in Int
      BY NumLevelsAssumption DEF Tag, Level
    <3> QED  BY <3>1, <3>2, <3>3 DEF Tagged, TypeInv, TypeOK
  <2> QED  BY <1>0, <1>4, <2>1, VisitTop DEF TagCurrent
<1>5. CASE Requeue
  <2>1. \A g : Queued(g) => Queued(g)'
    <3> SUFFICES ASSUME NEW g, Queued(g) PROVE Queued(g)'
      OBVIOUS
    <3>1. /\ notVisited \in Seq(ir.defs) /\ notVisited # <<>> /\ In(notVisited, g)
          /\ Rest \in Seq(ir.defs) /\ Top \in ir.defs
      BY <1>5, PopShape DEF Requeue, Queued, In, Top, Rest, TypeInv, TypeOK
    <3>2. In(Rest, g) \/ g = Top
      BY <3>1, PopIn DEF Rest, Top
    <3>3. In(<<Top>> \o Rest, g)
      BY <3>1, <3>2, PutBackIn
    <3> QED  BY <1>5, <3>3 DEF Requeue, Queued, In
  <2> QED  BY <1>0, <1>5, <2>1 DEF Requeue, WalkInv, NoNodeLost, IsSon
<1>6. CASE PushSon
  <2> DEFINE son == ir.body[current][left]
  <2>1. /\ \A g : Queued(g) => In(notVisited', g)
        /\ IsSon(current, son) => son \in visited \/ In(notVisited', son)
    <3>1. CASE IsSon(current, son) /\ son \notin visited
      <4>1. notVisited \in Seq(ir.defs) /\ son \in ir.defs
        BY <3>1 DEF IsSon, TypeInv, TypeOK
      <4>2. \A g : In(notVisited, g) \/ g = son => In(Append(notVisited, son), g)
        BY <4>1, AppendIn
      <4>3. notVisited' = Append(notVisited, son)
        BY <1>6, <3>1 DEF PushSon
      <4> QED  BY <4>2, <4>3 DEF Queued, In
    <3>2. CASE ~(IsSon(current, son) /\ son \notin visited)
      BY <1>6, <3>2 DEF PushSon, Queued, In
    <3> QED  BY <3>1, <3>2
  <2>2. NoNodeLost'
    <3> SUFFICES ASSUME NEW f \in visited, NEW i \in DOMAIN ir.body[f]
                 PROVE  \/ ~IsSon(f, ir.body[f][i])
                        \/ ir.body[f][i] \in visited
                        \/ In(notVisited', ir.body[f][i])
                        \/ f = current /\ i <= left - 1
      BY <1>0, <1>6 DEF PushSon, NoNodeLost, IsSon, Queued, In
    <3>1. \/ ~IsSon(f, ir.body[f][i])
          \/ ir.body[f][i] \in visited
          \/ Queued(ir.body[f][i])
          \/ f = current /\ i <= left
      BY DEF WalkInv, NoNodeLost
    <3>2. CASE f = current /\ i <= left
      <4>1. i \in Nat /\ left \in Nat
        <5>1. ir.body[f] \in Seq(Function \cup {Indirect})
          BY ModulesAssumption, ModuleShape DEF TypeInv, TypeOK
        <5> QED  BY <5>1, LenProperties DEF TypeInv, TypeOK
      <4>2. CASE i = left
        BY <2>1, <3>2, <4>2
      <4>3. CASE i # left
        BY <3>2, <4>1, <4>3
      <4> QED  BY <4>2, <4>3
    <3> QED  BY <2>1, <3>1, <3>2
  <2>3. Main \in visited \/ Queued(Main)'
    BY <1>6, <2>1 DEF PushSon, WalkInv, Queued, In
  <2> QED  BY <1>6, <2>2, <2>3 DEF PushSon, WalkInv
<1>7. CASE SonsPushed
  <2>1. \A f \in visited : \A i \in DOMAIN ir.body[f] : ~(i <= 0)
    <3> SUFFICES ASSUME NEW f \in visited, NEW i \in DOMAIN ir.body[f] PROVE ~(i <= 0)
      OBVIOUS
    <3>1. ir.body[f] \in Seq(Function \cup {Indirect})
      BY ModulesAssumption, ModuleShape DEF TypeInv, TypeOK
    <3> QED  BY <3>1, LenProperties
  <2>2. NoNodeLost'
    BY <1>0, <1>7, <2>1 DEF SonsPushed, WalkInv, NoNodeLost, IsSon, Queued
  <2> QED  BY <1>7, <2>2 DEF SonsPushed, WalkInv, Queued
<1>8. CASE Finish \/ EndRound \/ CrashOnIndirect \/ UNCHANGED vars
  BY <1>0, <1>8 DEF Finish, EndRound, CrashOnIndirect, vars, WalkInv, NoNodeLost, IsSon, Queued
<1> QED
  BY <1>1, <1>2, <1>3, <1>4, <1>5, <1>6, <1>7, <1>8 DEF Next, Stopped

(* The walk drops no branch of the call graph.                              *)
THEOREM NoNodeIsLost == Spec => []NoNodeLost
<1>1. Init => TypeInv /\ CollectedInv /\ WalkInv
  BY TypeInit, WalkInit DEF Init, CollectedInv
<1>2. WalkInv => NoNodeLost
  BY DEF WalkInv
<1> QED  BY <1>1, <1>2, TypeStep, CollectedStep, WalkStep, PTL DEF Spec

(* Between walks the visited functions contain main and their own sons, so  *)
(* they contain all that main reaches, and they have tags.                  *)
THEOREM ReachableIsTagged == Spec => []RoundTagsReachable
<1>1. Init => TypeInv /\ CollectedInv /\ WalkInv
  BY TypeInit, WalkInit DEF Init, CollectedInv
<1>2. TypeInv /\ WalkInv => RoundTagsReachable
  <2> SUFFICES ASSUME TypeInv, WalkInv, pc \in {"check", "done"}, visited # {},
                      NEW f \in ir.defs, Reachable(f)
               PROVE  Tagged(section[f])
    BY DEF RoundTagsReachable
  <2>1. notVisited = <<>> /\ Main \in visited /\ visited \subseteq ir.defs
    BY DEF WalkInv, Queued, TypeInv, TypeOK
  <2>2. ASSUME NEW g \in visited, NEW i \in DOMAIN ir.body[g], ir.body[g][i] \in ir.defs
        PROVE  ir.body[g][i] \in visited
    BY <2>1, <2>2 DEF WalkInv, NoNodeLost, IsSon, Queued
  <2>3. f \in visited
    BY <2>1, <2>2 DEF Reachable
  <2> QED  BY <2>3 DEF WalkInv
<1> QED  BY <1>1, <1>2, TypeStep, CollectedStep, WalkStep, PTL DEF Spec
-----------------------------------------------------------------------------
(* What is in a list that was popped, appended to or put back to was there, *)
(* or is what was put in.                                                   *)
LEMMA PopOut ==
  ASSUME NEW S, NEW q \in Seq(S), q # <<>>, NEW g, In(SubSeq(q, 1, Len(q) - 1), g)
  PROVE  In(q, g)
<1> DEFINE r == SubSeq(q, 1, Len(q) - 1)
<1>1. Len(q) \in Nat \ {0} /\ r \in Seq(S) /\ Len(r) = Len(q) - 1
      /\ \A i \in 1 .. Len(q) - 1 : r[i] = q[i]
  BY PopShape
<1>2. DOMAIN r = 1 .. Len(q) - 1 /\ DOMAIN q = 1 .. Len(q)
  BY <1>1, LenProperties
<1>3. PICK n \in 1 .. Len(q) - 1 : r[n] = g
  BY <1>2 DEF In
<1>4. n \in 1 .. Len(q) /\ q[n] = g
  BY <1>1, <1>3
<1> QED  BY <1>2, <1>4 DEF In

LEMMA AppendOut ==
  ASSUME NEW S, NEW q \in Seq(S), NEW x \in S, NEW g, In(Append(q, x), g)
  PROVE  In(q, g) \/ g = x
<1>1. /\ Append(q, x) \in Seq(S) /\ Len(Append(q, x)) = Len(q) + 1
      /\ \A i \in 1 .. Len(q) : Append(q, x)[i] = q[i]
      /\ Append(q, x)[Len(q) + 1] = x
  BY AppendProperties
<1>2. DOMAIN q = 1 .. Len(q) /\ Len(q) \in Nat /\ DOMAIN Append(q, x) = 1 .. Len(q) + 1
  BY <1>1, LenProperties
<1>3. PICK n \in 1 .. Len(q) + 1 : Append(q, x)[n] = g
  BY <1>2 DEF In
<1>4. n = Len(q) + 1 \/ n \in 1 .. Len(q)
  BY <1>2, <1>3
<1> QED  BY <1>1, <1>2, <1>3, <1>4 DEF In

LEMMA PutBackOut ==
  ASSUME NEW S, NEW q \in Seq(S), NEW x \in S, NEW g, In(<<x>> \o q, g)
  PROVE  In(q, g) \/ g = x
<1>0. <<x>> \in Seq(S) /\ Len(<<x>>) = 1 /\ <<x>>[1] = x
  BY SingletonShape
<1>1. /\ <<x>> \o q \in Seq(S) /\ Len(<<x>> \o q) = 1 + Len(q)
      /\ \A i \in 1 .. 1 + Len(q) : (<<x>> \o q)[i] = IF i <= 1 THEN <<x>>[i] ELSE q[i - 1]
  BY <1>0, ConcatProperties
<1>2. DOMAIN q = 1 .. Len(q) /\ Len(q) \in Nat /\ DOMAIN (<<x>> \o q) = 1 .. 1 + Len(q)
  BY <1>1, LenProperties
<1>3. PICK n \in 1 .. 1 + Len(q) : (<<x>> \o q)[n] = g
  BY <1>2 DEF In
<1>4. n = 1 \/ (n - 1 \in 1 .. Len(q) /\ ~(n <= 1))
  BY <1>2, <1>3
<1> QED  BY <1>0, <1>1, <1>2, <1>3, <1>4 DEF In

-----------------------------------------------------------------------------
(* Only what main reaches is visited, each function after one that calls    *)
(* it; a tag that was not there at the outset was written by a visit, after *)
(* a look at every call site.                                               *)
Called(f) == f = Main \/ \E g \in visited : Calls(ir, g, f)

ReachedInv ==
  /\ \A f \in visited : Reachable(f)
  /\ \A f : Queued(f) => Reachable(f) /\ Called(f)
  /\ pc = "push" => current \in visited

WrittenInv ==
  pc # "collect" =>
    \A f \in Function : section[f] # SeedSection(ir)[f] =>
      /\ f \in visited
      /\ Tagged(section[f])
      /\ \A s \in callSites : Callee(ir, s) # Indirect

(* Grounded speaks of sets of functions: each set without main of which     *)
(* some were visited has one that was first, and what that one had waited   *)
(* for is not in the set.                                                   *)
WasFirst(f, C) ==
  /\ \E g \in visited \ C : Calls(ir, g, f)
  /\ \/ Tagged(SeedSection(ir)[f])
     \/ \A g \in Callers(f) : Tagged(SeedSection(ir)[g]) \/ g \in visited \ C

FirstInv == \A C \in SUBSET (ir.defs \ {Main}) : C \cap visited # {} => \E f \in C : WasFirst(f, C)

EndInv == ReachedInv /\ WrittenInv /\ FirstInv /\ (pc = "done" => IsPropagated)

(* Main is reachable, and so is what a reachable function calls.            *)
LEMMA Reaching ==
  /\ Reachable(Main)
  /\ \A f, g \in ir.defs : Reachable(f) /\ Calls(ir, f, g) => Reachable(g)
  BY DEF Reachable, Calls

LEMMA EndInit == Init => EndInv
  BY DEF Init, EndInv, ReachedInv, WrittenInv, FirstInv, Queued

(* Both kinds of visit: Top was queued, and what it waited for was tagged.  *)
LEMMA VisitStep ==
  ASSUME TypeInv, CollectedInv, WalkInv, EndInv, ExpandTagged \/ TagCurrent
  PROVE  EndInv'
<1>1. /\ ir' = ir /\ callSites' = callSites /\ pc = "walk" /\ notVisited # <<>>
      /\ notVisited' = Rest /\ current' = Top
      /\ visited' = visited \cup {Top} /\ pc' = "push"
  BY DEF ExpandTagged, TagCurrent, Visit
<1>2. /\ notVisited \in Seq(ir.defs) /\ Top \in ir.defs /\ Rest \in Seq(ir.defs)
      /\ ir.defs \subseteq Function /\ visited \subseteq ir.defs
  BY <1>1, PopShape, ModulesAssumption, ModuleShape DEF Top, Rest, TypeInv, TypeOK
<1>3. In(notVisited, Top)
  <2>1. Len(notVisited) \in Nat \ {0} /\ DOMAIN notVisited = 1 .. Len(notVisited)
    BY <1>1, <1>2, PopShape, LenProperties
  <2>2. Len(notVisited) \in DOMAIN notVisited
    BY <2>1
  <2> QED  BY <2>2 DEF In, Top
<1>4. Reachable(Top) /\ Called(Top)
  BY <1>3 DEF EndInv, ReachedInv, Queued, In
<1>5. \A f : Queued(f)' => Queued(f)
  <2> SUFFICES ASSUME NEW f, In(notVisited', f) PROVE In(notVisited, f)
    BY DEF Queued, In
  <2> QED  BY <1>1, <1>2, PopOut DEF Rest
<1>6. \A f : Reachable(f)' <=> Reachable(f)
  BY <1>1 DEF Reachable
<1>7. ReachedInv'
  BY <1>1, <1>4, <1>5, <1>6 DEF EndInv, ReachedInv, Called
<1>8. WrittenInv'
  <2>1. CASE ExpandTagged
    BY <1>1, <2>1 DEF ExpandTagged, EndInv, WrittenInv
  <2>2. CASE TagCurrent
    <3>1. PICK lev \in Tag : section' = [section EXCEPT ![Top] = lev]
      BY <2>2 DEF TagCurrent
    <3>2. lev \in Int
      BY NumLevelsAssumption DEF Tag, Level
    <3>3. \A s \in callSites : Callee(ir, s) # Indirect
      BY <2>2 DEF TagCurrent, AllParentsTagged
    <3> QED  BY <1>1, <1>2, <3>1, <3>2, <3>3 DEF EndInv, WrittenInv, Tagged, TypeInv, TypeOK
  <2> QED  BY <2>1, <2>2
<1>9. FirstInv'
  <2> SUFFICES ASSUME NEW C \in SUBSET (ir.defs \ {Main}), C \cap visited' # {}
               PROVE  \E f \in C : WasFirst(f, C)'
    BY <1>1 DEF FirstInv
  <2>1. \A f : WasFirst(f, C) => WasFirst(f, C)'
    BY <1>1 DEF WasFirst, Callers
  <2>2. CASE C \cap visited # {}
    BY <2>1, <2>2 DEF EndInv, FirstInv
  <2>3. CASE C \cap visited = {}
    <3>1. Top \in C /\ Top \notin visited /\ Top # Main
      BY <1>1, <2>3
    <3>2. \E g \in visited \ C : Calls(ir, g, Top)
      BY <1>4, <2>3, <3>1 DEF Called
    <3>3. \/ Tagged(SeedSection(ir)[Top])
          \/ \A g \in Callers(Top) : Tagged(SeedSection(ir)[g]) \/ g \in visited \ C
      <4>1. CASE ExpandTagged
        <5>1. Tagged(section[Top]) /\ Top \in Function
          BY <1>2, <4>1 DEF ExpandTagged
        <5> QED  BY <1>1, <3>1, <5>1 DEF EndInv, WrittenInv
      <4>2. CASE TagCurrent
        <5>1. \A g \in Callers(Top) : Tagged(section[g]) /\ g \in Function
          BY <1>2, <4>2, TagCurrentInherits
        <5> QED  BY <1>1, <2>3, <5>1 DEF EndInv, WrittenInv
      <4> QED  BY <4>1, <4>2
    <3>4. WasFirst(Top, C)
      BY <3>2, <3>3 DEF WasFirst
    <3> QED  BY <2>1, <3>1, <3>4
  <2> QED  BY <2>2, <2>3
<1> QED  BY <1>1, <1>7, <1>8, <1>9 DEF EndInv

(* A son that is pushed is called by current, which main reaches.           *)
LEMMA PushStep ==
  ASSUME TypeInv, EndInv, PushSon
  PROVE  EndInv'
<1>1. UNCHANGED <<ir, section, pc, callSites, visited, current>> /\ pc = "push" /\ left > 0
  BY DEF PushSon
<1> DEFINE son == ir.body[current][left]
<1>2. /\ notVisited \in Seq(ir.defs) /\ visited \subseteq ir.defs /\ current \in visited
      /\ Reachable(current) /\ current \in ir.defs
  BY <1>1 DEF EndInv, ReachedInv, TypeInv, TypeOK
<1>3. left \in DOMAIN ir.body[current]
  <2>1. ir.body[current] \in Seq(Function \cup {Indirect})
    BY ModulesAssumption, ModuleShape DEF TypeInv, TypeOK
  <2>2. DOMAIN ir.body[current] = 1 .. Len(ir.body[current])
    BY <2>1, LenProperties
  <2> QED  BY <1>1, <2>1, <2>2 DEF TypeInv, TypeOK
<1>4. Calls(ir, current, son)
  BY <1>2, <1>3 DEF Calls
<1>5. \A f : Queued(f)' => Queued(f) \/ (f = son /\ son \in ir.defs)
  <2> SUFFICES ASSUME NEW f, In(notVisited', f) PROVE In(notVisited, f) \/ (f = son /\ son \in ir.defs)
    BY DEF Queued, In
  <2>1. CASE IsSon(current, son) /\ son \notin visited
    <3>1. son \in ir.defs /\ notVisited' = Append(notVisited, son)
      BY <2>1 DEF IsSon, PushSon
    <3> HIDE DEF son
    <3> QED  BY <1>2, <3>1, AppendOut
  <2>2. CASE ~(IsSon(current, son) /\ son \notin visited)
    BY <2>2 DEF PushSon
  <2> QED  BY <2>1, <2>2
<1>6. son \in ir.defs => Reachable(son) /\ Called(son)
  BY <1>2, <1>4, Reaching DEF Called
<1>7. \A f : /\ Reachable(f)' <=> Reachable(f)
             /\ Called(f)' <=> Called(f)
  BY <1>1 DEF Reachable, Called
<1>8. ReachedInv'
  BY <1>1, <1>5, <1>6, <1>7 DEF EndInv, ReachedInv
<1>9. WrittenInv' /\ FirstInv'
  BY <1>1 DEF EndInv, WrittenInv, FirstInv, WasFirst, Callers
<1> QED  BY <1>1, <1>8, <1>9 DEF EndInv

LEMMA EndStep == TypeInv /\ CollectedInv /\ WalkInv /\ EndInv /\ [Next]_vars => EndInv'
<1> SUFFICES ASSUME TypeInv, CollectedInv, WalkInv, EndInv, [Next]_vars PROVE EndInv'
  OBVIOUS
<1>0. ir' = ir
  BY DEF Next, Stopped, vars, Collect, Finish, StartRound, EndRound, ExpandTagged,
         TagCurrent, Requeue, CrashOnIndirect, PushSon, SonsPushed
<1>1. \A f : /\ Reachable(f)' <=> Reachable(f)
             /\ visited' = visited => (Called(f)' <=> Called(f))
  BY <1>0 DEF Reachable, Called
<1>2. visited' = visited => FirstInv'
  BY <1>0 DEF EndInv, FirstInv, WasFirst, Callers
<1>3. CASE Collect
  <2>1. visited' = visited /\ notVisited' = notVisited /\ pc' = "check" /\ section' = SeedSection(ir)
    BY <1>3 DEF Collect
  <2> QED  BY <1>0, <1>1, <1>2, <2>1 DEF EndInv, ReachedInv, WrittenInv, Queued
<1>4. CASE StartRound
  <2>1. UNCHANGED <<section, callSites, visited>> /\ pc = "check" /\ pc' \in {"walk", "crashed"}
    BY <1>4 DEF StartRound
  <2>2. \A f : Queued(f)' => Queued(f) \/ f = Main
    BY <1>4 DEF StartRound, Queued
  <2>3. ReachedInv'
    BY <1>1, <2>1, <2>2, Reaching DEF EndInv, ReachedInv, Called
  <2> QED  BY <1>0, <1>2, <2>1, <2>3 DEF EndInv, WrittenInv
<1>5. CASE ExpandTagged \/ TagCurrent
  BY <1>5, VisitStep
<1>6. CASE Requeue
  <2>1. UNCHANGED <<section, pc, callSites, visited>> /\ pc = "walk" /\ notVisited # <<>>
    BY <1>6 DEF Requeue
  <2>2. \A f : Queued(f)' => Queued(f)
    <3> SUFFICES ASSUME NEW f, In(notVisited', f) PROVE In(notVisited, f)
      BY DEF Queued, In
    <3>1. /\ notVisited \in Seq(ir.defs) /\ Rest \in Seq(ir.defs) /\ Top \in ir.defs
          /\ Len(notVisited) \in DOMAIN notVisited
      <4>1. /\ notVisited \in Seq(ir.defs) /\ Rest \in Seq(ir.defs) /\ Top \in ir.defs
            /\ Len(notVisited) \in Nat \ {0}
        BY <2>1, PopShape DEF Top, Rest, TypeInv, TypeOK
      <4>2. DOMAIN notVisited = 1 .. Len(notVisited)
        BY <4>1, LenProperties
      <4> QED  BY <4>1, <4>2
    <3>2. In(Rest, f) \/ f = Top
      BY <1>6, <3>1, PutBackOut DEF Requeue
    <3>3. In(Rest, f) => In(notVisited, f)
      BY <2>1, <3>1, PopOut DEF Rest
    <3> QED  BY <3>1, <3>2, <3>3 DEF In, Top
  <2>3. ReachedInv'
    BY <1>1, <2>1, <2>2 DEF EndInv, ReachedInv
  <2> QED  BY <1>0, <1>2, <2>1, <2>3 DEF EndInv, WrittenInv
<1>7. CASE PushSon
  BY <1>7, PushStep
<1>8. CASE Finish
  <2>1. UNCHANGED <<section, callSites, notVisited, visited>> /\ pc = "check" /\ pc' = "done" /\ IsPropagated
    BY <1>8 DEF Finish
  <2>2. IsPropagated'
    BY <1>0, <2>1 DEF IsPropagated
  <2> QED  BY <1>0, <1>1, <1>2, <2>1, <2>2 DEF EndInv, ReachedInv, WrittenInv, Queued
<1>9. CASE EndRound \/ CrashOnIndirect \/ SonsPushed
  <2>1. UNCHANGED <<section, callSites, notVisited, visited>> /\ pc # "collect"
        /\ pc' \in {"check", "crashed", "walk"}
    BY <1>9 DEF EndRound, CrashOnIndirect, SonsPushed
  <2> QED  BY <1>0, <1>1, <1>2, <2>1 DEF EndInv, ReachedInv, WrittenInv, Queued
<1>10. CASE UNCHANGED vars
  <2>1. UNCHANGED <<section, callSites, notVisited, visited, pc, current>>
    BY <1>10 DEF vars
  <2>2. IsPropagated' <=> IsPropagated
    BY <1>0, <2>1 DEF IsPropagated
  <2> QED  BY <1>0, <1>1, <1>2, <2>1, <2>2 DEF EndInv, ReachedInv, WrittenInv, Queued
<1> QED
  BY <1>3, <1>4, <1>5, <1>6, <1>7, <1>8, <1>9, <1>10 DEF Next, Stopped

(* The pass ends on no module that does not meet CanComplete: it crashes or *)
(* walks for ever.                                                          *)
THEOREM EndsOnlyIfItCan == Spec => []DoneOnlyIfCanComplete
<1>1. Init => TypeInv /\ CollectedInv /\ WalkInv /\ EndInv
  BY TypeInit, WalkInit, EndInit DEF Init, CollectedInv
<1>2. TypeInv /\ CollectedInv /\ WalkInv /\ EndInv => DoneOnlyIfCanComplete
  <2> SUFFICES ASSUME TypeInv, CollectedInv, WalkInv, EndInv, pc = "done",
                      NEW x \in ir.defs, ~Exempt(x)
               PROVE  CanComplete
    BY DEF DoneOnlyIfCanComplete, CanComplete
  <2>1. ir.defs \subseteq Function /\ visited \subseteq ir.defs /\ notVisited = <<>>
    BY ModulesAssumption, ModuleShape DEF TypeInv, TypeOK, WalkInv
  <2>2. \A f \in ir.defs : f \in visited \/ Exempt(f)
    <3> SUFFICES ASSUME NEW f \in ir.defs, f \notin visited PROVE Exempt(f)
      OBVIOUS
    <3>1. section[f] = SeedSection(ir)[f]
      BY <2>1 DEF EndInv, WrittenInv
    <3> QED  BY <3>1 DEF EndInv, IsPropagated, Exempt
  <2>3. Main \in visited
    BY <2>1, <2>2 DEF WalkInv, Queued
  <2>4. \A f \in ir.defs : Reachable(f) <=> f \in visited
    <3>1. ASSUME NEW g \in visited, NEW i \in DOMAIN ir.body[g], ir.body[g][i] \in ir.defs
          PROVE  ir.body[g][i] \in visited
      BY <2>1, <3>1 DEF WalkInv, NoNodeLost, IsSon, Queued
    <3>2. \A f \in ir.defs : Reachable(f) => f \in visited
      BY <2>1, <2>3, <3>1 DEF Reachable
    <3> QED  BY <3>2 DEF EndInv, ReachedInv
  <2>5. section[x] # SeedSection(ir)[x]
    BY DEF EndInv, IsPropagated, Exempt
  <2>6. \A s \in callSites : Callee(ir, s) # Indirect
    BY <2>1, <2>5 DEF EndInv, WrittenInv
  <2>7. \A s \in Sites(ir) : Callee(ir, s) = Indirect => SeedSection(ir)[s[1]] = Startup
    BY <2>6 DEF CollectedInv, RecordedSites
  <2>8. Grounded
    <3> DEFINE Reached == { f \in ir.defs : Reachable(f) }
    <3>1. Reached = visited
      BY <2>1, <2>4
    <3> SUFFICES ASSUME NEW C \in (SUBSET (visited \ {Main})) \ {{}}
                 PROVE  \E f \in C :
                          /\ \E g \in visited \ C : Calls(ir, g, f)
                          /\ \/ Tagged(SeedSection(ir)[f])
                             \/ \A g \in Callers(f) : Tagged(SeedSection(ir)[g]) \/ g \in visited \ C
      BY <3>1 DEF Grounded
    <3>2. C \in SUBSET (ir.defs \ {Main}) /\ C \cap visited # {}
      <4>1. C \subseteq visited /\ Main \notin C /\ C # {}
        OBVIOUS
      <4> QED  BY <2>1, <4>1
    <3> QED  BY <3>2 DEF EndInv, FirstInv, WasFirst
  <2> QED  BY <2>1, <2>2, <2>3, <2>4, <2>7, <2>8 DEF CanComplete
<1> QED  BY <1>1, <1>2, TypeStep, CollectedStep, WalkStep, EndStep, PTL DEF Spec
=============================================================================
