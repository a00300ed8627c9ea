------------------------- MODULE TaggingPropagation -------------------------
(***************************************************************************)
(* TaggingPropagation::runOnModule: read the annotations, collect the call *)
(* sites, then walk the call graph from main, giving each function without *)
(* a tag the least privileged level among its callers.  The work list is a *)
(* vector used as a stack; a function whose callers are not all tagged is  *)
(* put back at its bottom.                                                 *)
(*                                                                         *)
(* The pass runs alone on one module, so an action is a loop body: pc says *)
(* which loop is next.  "crashed" is the null dereference of               *)
(* isAlreadyTagged (no main) or is_all_parents_tagged (an indirect call).  *)
(***************************************************************************)
EXTENDS ModuleIR

CONSTANT Modules   \* the modules the pass may be given, a subset of IR

ASSUME ModulesAssumption == Modules \subseteq IR

VARIABLES
  ir,          \* the module, with the sections it came with; never changes
  section,     \* the section of every function now
  pc,          \* the loop the pass is in
  callSites,   \* CallSites
  notVisited,  \* not_visited; its last element is popped next
  visited,     \* visited
  current,     \* the function popped last
  left         \* how many of current's calls the loop over sons has left

vars == <<ir, section, pc, callSites, notVisited, visited, current, left>>

-----------------------------------------------------------------------------
(* Mutation: NUM_OF_LEVELS instead of NUM_OF_LEVELS - 1.                    *)
SeedSectionOffByOne(m) ==
  [f \in Function |-> IF f \in m.defs /\ f \in {Main, ExitWrapper}
                        THEN NumLevels ELSE m.section[f]]

(* A well-known name overrides the annotation, which overrides the section  *)
(* the function came with.                                                  *)
SeedSection(m) ==
  [f \in Function |->
     CASE f \in m.defs /\ f \in {Main, ExitWrapper}     -> LeastPrivileged
       [] f \in m.defs \ {Main, ExitWrapper} /\ m.attr[f] # NoTag -> m.attr[f]
       [] OTHER                                         -> m.section[f]]

(* Mutation: the calls of static constructors are recorded too.             *)
RecordedSitesOfStartup(m, sec) ==
  { s \in Sites(m) : Callee(m, s) \in m.defs \cup {Indirect} }

(* Calls of declarations and calls made by static constructors are left     *)
(* out; indirect calls are not.                                             *)
RecordedSites(m, sec) ==
  { s \in Sites(m) : Callee(m, s) \in m.defs \cup {Indirect} /\ sec[s[1]] # Startup }

(* The order of CallSites: by position in the call graph's map of function  *)
(* addresses, then in program order.                                        *)
Before(s, t) ==
  \/ ir.rank[s[1]] < ir.rank[t[1]]
  \/ s[1] = t[1] /\ s[2] < t[2]

-----------------------------------------------------------------------------
CallersOf(f) == { s[1] : s \in { t \in callSites : Callee(ir, t) = f } }

(* is_all_parents_tagged looks at the call sites in order, returns false at *)
(* the first whose caller has no tag, and dereferences a null callee at the *)
(* first indirect call.                                                     *)
UntaggedSite(f, s) == Callee(ir, s) = f /\ ~Tagged(section[s[1]])

HitsIndirect(f) ==
  \E s \in callSites :
    /\ Callee(ir, s) = Indirect
    /\ \A t \in callSites : UntaggedSite(f, t) => Before(s, t)

AllParentsTagged(f) == \A s \in callSites : ~UntaggedSite(f, s) /\ Callee(ir, s) # Indirect

(* Mutation: *level is overwritten by every caller, not only by a larger one. *)
ParentLevelOverwritten(f, lev) ==
  IF CallersOf(f) = {} THEN lev = -1 ELSE \E g \in CallersOf(f) : section[g] = lev

(* What *level holds when is_all_parents_tagged returns true.               *)
ParentLevel(f, lev) ==
  /\ \A g \in CallersOf(f) : section[g] <= lev
  /\ IF CallersOf(f) = {} THEN lev = -1 ELSE \E g \in CallersOf(f) : section[g] = lev

(* get_list_sons: defined functions called directly, itself excepted.       *)
IsSon(f, g) == g \in ir.defs /\ g # f

(* Mutation: true is returned at the first function that is all right.      *)
AnyPropagated ==
  \E f \in ir.defs :
    \/ ~Used(ir, f)
    \/ f \in ir.internal
    \/ f = ExitWrapper
    \/ Tagged(section[f])
    \/ section[f] = Startup

IsPropagated ==
  \A f \in ir.defs :
    \/ ~Used(ir, f)
    \/ f \in ir.internal
    \/ f = ExitWrapper
    \/ Tagged(section[f])
    \/ section[f] = Startup

-----------------------------------------------------------------------------
Init ==
  /\ ir \in Modules
  /\ section = ir.section
  /\ pc = "collect"
  /\ callSites = {}
  /\ notVisited = <<>>
  /\ visited = {}
  /\ current = Main
  /\ left = 0

Collect ==
  /\ pc = "collect"
  /\ section' = SeedSection(ir)
  /\ callSites' = RecordedSites(ir, section')
  /\ pc' = "check"
  /\ UNCHANGED <<ir, notVisited, visited, current, left>>

Finish ==
  /\ pc = "check"
  /\ IsPropagated
  /\ pc' = "done"
  /\ UNCHANGED <<ir, section, callSites, notVisited, visited, current, left>>

StartRound ==
  /\ pc = "check"
  /\ ~IsPropagated
  /\ IF Main \in ir.defs
       THEN pc' = "walk" /\ notVisited' = <<Main>>
       ELSE pc' = "crashed" /\ UNCHANGED notVisited
  /\ UNCHANGED <<ir, section, callSites, visited, current, left>>

EndRound ==
  /\ pc = "walk"
  /\ notVisited = <<>>
  /\ pc' = "check"
  /\ UNCHANGED <<ir, section, callSites, notVisited, visited, current, left>>

Top  == notVisited[Len(notVisited)]
Rest == SubSeq(notVisited, 1, Len(notVisited) - 1)

(* Both branches that tag, or find the tag of, the popped function go on to *)
(* its sons, the last call first.                                           *)
Visit ==
  /\ visited' = visited \cup {Top}
  /\ left' = Len(ir.body[Top])
  /\ pc' = "push"

ExpandTagged ==
  /\ pc = "walk" /\ notVisited # <<>> /\ Tagged(section[Top])
  /\ current' = Top
  /\ notVisited' = Rest
  /\ Visit
  /\ UNCHANGED <<ir, section, callSites>>

TagCurrent ==
  /\ pc = "walk" /\ notVisited # <<>> /\ ~Tagged(section[Top])
  /\ AllParentsTagged(Top)
  /\ current' = Top
  /\ notVisited' = Rest
  /\ \E lev \in Tag : ParentLevel(Top, lev) /\ section' = [section EXCEPT ![Top] = lev]
  /\ Visit
  /\ UNCHANGED <<ir, callSites>>

(* Mutation: a function that is not ready is dropped.                       *)
RequeueDrops ==
  /\ pc = "walk" /\ notVisited # <<>> /\ ~Tagged(section[Top])
  /\ ~AllParentsTagged(Top) /\ ~HitsIndirect(Top)
  /\ current' = Top
  /\ notVisited' = Rest
  /\ UNCHANGED <<ir, section, pc, callSites, visited, left>>

(* Mutation: it is pushed back on top, with push_back.                      *)
RequeueOnTop ==
  /\ pc = "walk" /\ notVisited # <<>> /\ ~Tagged(section[Top])
  /\ ~AllParentsTagged(Top) /\ ~HitsIndirect(Top)
  /\ current' = Top
  /\ UNCHANGED <<ir, section, pc, callSites, notVisited, visited, left>>

Requeue ==
  /\ pc = "walk" /\ notVisited # <<>> /\ ~Tagged(section[Top])
  /\ ~AllParentsTagged(Top) /\ ~HitsIndirect(Top)
  /\ current' = Top
  /\ notVisited' = <<Top>> \o Rest
  /\ UNCHANGED <<ir, section, pc, callSites, visited, left>>

CrashOnIndirect ==
  /\ pc = "walk" /\ notVisited # <<>> /\ ~Tagged(section[Top])
  /\ HitsIndirect(Top)
  /\ pc' = "crashed"
  /\ UNCHANGED <<ir, section, callSites, notVisited, visited, current, left>>

(* Mutation: a son that has its tag already is not walked.                  *)
PushUntaggedSon ==
  /\ pc = "push" /\ left > 0
  /\ LET son == ir.body[current][left]
     IN  notVisited' = IF IsSon(current, son) /\ ~Tagged(section[son])
                         THEN Append(notVisited, son) ELSE notVisited
  /\ left' = left - 1
  /\ UNCHANGED <<ir, section, pc, callSites, visited, current>>

PushSon ==
  /\ pc = "push" /\ left > 0
  /\ LET son == ir.body[current][left]
     IN  notVisited' = IF IsSon(current, son) /\ son \notin visited
                         THEN Append(notVisited, son) ELSE notVisited
  /\ left' = left - 1
  /\ UNCHANGED <<ir, section, pc, callSites, visited, current>>

SonsPushed ==
  /\ pc = "push" /\ left = 0
  /\ pc' = "walk"
  /\ UNCHANGED <<ir, section, callSites, notVisited, visited, current, left>>

(* The pass has returned, or the compiler is gone.                          *)
Stopped == pc \in {"done", "crashed"} /\ UNCHANGED vars

Next ==
  \/ Collect \/ Finish \/ StartRound \/ EndRound
  \/ ExpandTagged \/ TagCurrent \/ Requeue \/ CrashOnIndirect
  \/ PushSon \/ SonsPushed
  \/ Stopped

Spec == Init /\ [][Next]_vars

(* A sequential pass that nothing blocks.                                   *)
FairSpec == Spec /\ WF_vars(Next)

-----------------------------------------------------------------------------
(* Properties.                                                              *)

TypeOK ==
  /\ ir \in Modules
  /\ section \in [Function -> Section]
  /\ pc \in {"collect", "check", "walk", "push", "done", "crashed"}
  /\ callSites \subseteq Sites(ir)
  /\ notVisited \in Seq(ir.defs)
  /\ visited \subseteq ir.defs
  /\ current \in Function
  /\ left \in 0 .. Len(ir.body[current])

(* The callers of f in the program, static constructors excepted.           *)
Callers(f) == { g \in ir.defs : Calls(ir, g, f) /\ SeedSection(ir)[g] # Startup }

(* A function that had no tag and has one now is exactly as privileged as   *)
(* the least privileged of all its callers, none of which is still without  *)
(* a tag.  So a call of it never raises the privilege, and SysCallInsertion *)
(* (line 34) leaves every call of an unannotated function alone.            *)
InferredTagIsMaxOfCallers ==
  pc # "collect" =>
    \A f \in ir.defs :
      ~Tagged(SeedSection(ir)[f]) /\ Tagged(section[f]) =>
        /\ \A g \in Callers(f) : Tagged(section[g]) /\ section[g] <= section[f]
        /\ IF Callers(f) = {} THEN section[f] = -1
                              ELSE \E g \in Callers(f) : section[g] = section[f]

(* The walk drops no branch: a son of a visited function is itself visited, *)
(* on the work list, or among the sons the inner loop has not reached.      *)
Queued(g) == \E n \in DOMAIN notVisited : notVisited[n] = g

NoNodeLost ==
  \A f \in visited : \A i \in DOMAIN ir.body[f] :
    LET g == ir.body[f][i]
    IN  \/ ~IsSon(f, g)
        \/ g \in visited
        \/ Queued(g)
        \/ pc = "push" /\ f = current /\ i <= left

Reachable(f) ==
  \A S \in SUBSET ir.defs :
    (Main \in S /\ \A g \in S : \A i \in DOMAIN ir.body[g] :
                     ir.body[g][i] \in ir.defs => ir.body[g][i] \in S)
    => f \in S

(* When a walk has emptied its list, every function main can reach through  *)
(* direct calls has a tag.                                                  *)
RoundTagsReachable ==
  (pc \in {"check", "done"} /\ visited # {}) =>
     \A f \in ir.defs : Reachable(f) => Tagged(section[f])

(* The pass infers levels as LevelInference does, and does nothing else to  *)
(* the sections.                                                            *)
Inference == INSTANCE LevelInference
  WITH seed    <- SeedSection(ir),
       section <- IF pc = "collect" THEN SeedSection(ir) ELSE section

InfersLevels == Inference!Spec

(* When the pass comes to an end, from the module alone: nothing to infer   *)
(* at the outset; or a main, no recorded indirect call, the walk gets to    *)
(* every function main reaches (in each set of them there is one that is    *)
(* called from outside the set and does not wait for the set, or for a      *)
(* function that main does not reach), and the others are exempt.           *)
Exempt(f) ==
  \/ ~Used(ir, f) \/ f \in ir.internal \/ f = ExitWrapper
  \/ Tagged(SeedSection(ir)[f]) \/ SeedSection(ir)[f] = Startup

Grounded ==
  LET Reached == { f \in ir.defs : Reachable(f) }
  IN  \A C \in (SUBSET (Reached \ {Main})) \ {{}} :
        \E f \in C :
          /\ \E g \in Reached \ C : Calls(ir, g, f)
          /\ \/ Tagged(SeedSection(ir)[f])
             \/ \A g \in Callers(f) : Tagged(SeedSection(ir)[g]) \/ g \in Reached \ C

CanComplete ==
  \/ \A f \in ir.defs : Exempt(f)
  \/ /\ Main \in ir.defs
     /\ \A s \in Sites(ir) : Callee(ir, s) = Indirect => SeedSection(ir)[s[1]] = Startup
     /\ Grounded
     /\ \A f \in ir.defs : Reachable(f) \/ Exempt(f)

(* The two loops end on every module that meets this condition: putting a   *)
(* function back at the bottom of the list never starves another one.       *)
Completes == CanComplete => <>(pc = "done")

(* They end on no other: the pass then crashes, or walks for ever.          *)
DoneOnlyIfCanComplete == pc = "done" => CanComplete

-----------------------------------------------------------------------------
(* What the comments of the source say, and the pass does not do.           *)

(* Lines 95-97: a function put back in the queue "we hopefully next time    *)
(* [...] will be able to tag it".  (A function that calls itself is one of  *)
(* its own callers: it is put back until it has the tag it waits for.)      *)
RequeuedIsTaggedLater ==
  \A f \in Function :
    [](pc = "walk" /\ current = f /\ Queued(f) => <>(Tagged(section[f]) \/ pc = "crashed"))
=============================================================================
