-------------------------- MODULE SysCallInsertion --------------------------
(***************************************************************************)
(* SysCallInsertion::runOnModule: find a direct call, and if its callee is *)
(* more privileged than its caller put a gate around it:                   *)
(*                                                                         *)
(*      head:     ... ; r = syscall(352, callee's level) ; r != 1 ?        *)
(*      if.then:  exit() ; br tail                                         *)
(*      tail:     the call ; syscall(352, caller's level) ; ...            *)
(*                                                                         *)
(* The scan starts over after every call site and passes over every site   *)
(* whose caller and callee have the names of one it has returned before.   *)
(* A function is a sequence of labelled blocks of instructions; an action  *)
(* is one iteration of the loop.                                           *)
(***************************************************************************)
EXTENDS ModuleIR, FiniteSets, SequencesExt

CONSTANT Programs   \* the modules the pass may be given, a subset of Program

VARIABLES
  prog,     \* the module as it came; never changes
  code,     \* the blocks of every function now
  visited,  \* the (caller, callee) pairs of the call sites returned so far
  pc        \* "scan", "done" or "crashed"

vars == <<prog, code, visited, pc>>

-----------------------------------------------------------------------------
(* Instructions.  "call", "invoke" and "exit" are calls, "exit" the one     *)
(* that a gate makes when the syscall fails; "check", "resume", "br",       *)
(* "invoke" and "ret" end a block.  "resume" is the br of if.then.          *)
CallOps       == {"call", "invoke", "exit"}
TerminatorOps == {"check", "resume", "br", "invoke", "ret"}
GateOps       == {"syscall", "cmp", "check", "exit", "resume"}

Call(op, g)    == [op |-> op, callee |-> g]
Syscall(lev)   == [op |-> "syscall", level |-> lev]
Cmp            == [op |-> "cmp"]
\* Mutation: the syscall's result is compared with EQ instead of NE.
CheckInverted(l1, l2) == [op |-> "check", to |-> {l1, l2}, denied |-> l2]
Check(l1, l2)  == [op |-> "check", to |-> {l1, l2}, denied |-> l1]
Jump(op, l)    == [op |-> op, to |-> {l}]
Ret            == [op |-> "ret", to |-> {}]

Target == Function \cup {Indirect}

Inst ==
  [op : {"call", "exit"}, callee : Target]
    \cup [op : {"invoke"}, callee : Target, to : SUBSET Nat]
    \cup [op : {"syscall"}, level : Tag]
    \cup [op : {"cmp"}]
    \cup [op : {"check"}, to : SUBSET Nat, denied : Nat]
    \cup [op : {"br", "resume", "ret"}, to : SUBSET Nat]

Block == [label : Nat, insts : Seq(Inst)]

(* What the verifier asks of a block: it ends with a terminator and has no  *)
(* other (Verifier.cpp:1061, 1110).                                         *)
WellFormed(insts) ==
  insts # <<>> /\ \A i \in DOMAIN insts : insts[i].op \in TerminatorOps <=> i = Len(insts)

(* The blocks of a function as it comes, without gates.  A label is a       *)
(* position, and a terminator names blocks of the function.                 *)
SourceOps == {"call", "invoke", "br", "ret"}

FromSource(blocks) ==
  \A k \in DOMAIN blocks :
    /\ blocks[k].label = k
    /\ WellFormed(blocks[k].insts)
    /\ \A i \in DOMAIN blocks[k].insts :
         LET x == blocks[k].insts[i]
         IN  /\ x.op \in SourceOps
             /\ x.op \in TerminatorOps => x.to \subseteq DOMAIN blocks

(* A program is what the pass reads of a module.  exit is the callee of the *)
(* gates' exit calls: _Z12exit_wrapperv if the module has it, else          *)
(* exit_wrapper, else exit, which is declared if need be.                   *)
ProgramFields ==
  [ defs    : SUBSET Function,
    section : [Function -> Section],
    rank    : [Function -> Nat],            \* position in the module's list
    code    : [Function -> Seq(Block)],
    exit    : Function ]

Program ==
  { p \in ProgramFields :
      /\ \A f \in Function : FromSource(p.code[f])
      /\ \A f \in p.defs : p.code[f] # <<>> }

ASSUME ProgramsAssumption == Programs \subseteq Program

(* atoi(section + 8), used to compare.  Past the end of a short section it  *)
(* reads whatever the memory holds; ".text.startup" + 8 is "artup", that    *)
(* is 0.                                                                    *)
LevelsRead(s) == IF Tagged(s) THEN {s} ELSE IF s = Startup THEN {0} ELSE Tag

(* Mutation: the number after the one in the section's name.                *)
ConstantsReadOffByOne(s) == IF Tagged(s) THEN {s + 1} ELSE Tag

(* APInt(32, section + 8, 10), the constant given to the syscall.  Without  *)
(* assertions APInt makes some number of any text.                          *)
ConstantsRead(s) == IF Tagged(s) THEN {s} ELSE Tag

-----------------------------------------------------------------------------
(* getList: the i-th instruction of the k-th block of f is a call the pass  *)
(* may return, and the first one in module order that it has not visited.   *)
IsSite(f, k, i) ==
  /\ f \in prog.defs
  /\ prog.section[f] # Startup
  /\ k \in DOMAIN code[f] /\ i \in DOMAIN code[f][k].insts
  /\ code[f][k].insts[i].op \in CallOps
  /\ code[f][k].insts[i].callee \in prog.defs

CalleeAt(f, k, i) == code[f][k].insts[i].callee

(* Mutation: isVisited compares the callee's name only.                     *)
UnvisitedCallee(f, k, i) ==
  IsSite(f, k, i) /\ \A h \in prog.defs : <<h, CalleeAt(f, k, i)>> \notin visited

Unvisited(f, k, i) == IsSite(f, k, i) /\ <<f, CalleeAt(f, k, i)>> \notin visited

IsFirst(f, k, i) ==
  /\ Unvisited(f, k, i)
  /\ \A g \in prog.defs : \A n \in DOMAIN code[g] : \A j \in DOMAIN code[g][n].insts :
       Unvisited(g, n, j) =>
         \/ prog.rank[f] < prog.rank[g]
         \/ f = g /\ k < n
         \/ f = g /\ k = n /\ i <= j

-----------------------------------------------------------------------------
(* Mutation: the call is not put back at the front of tail.                 *)
GateDropsCall(b, i, n, callerLevel, calleeLevel) ==
  << [ label |-> b.label,
       insts |-> SubSeq(b.insts, 1, i - 1)
                   \o <<Syscall(calleeLevel), Cmp, Check(n + 1, n + 2)>> ],
     [ label |-> n + 1,
       insts |-> <<Call("exit", prog.exit), Jump("resume", n + 2)>> ],
     [ label |-> n + 2,
       insts |-> <<Syscall(callerLevel)>>
                   \o SubSeq(b.insts, i + 1, Len(b.insts)) ] >>

(* Mutation: head keeps the branch to tail the split gave it.               *)
GateKeepsBranch(b, i, n, callerLevel, calleeLevel) ==
  << [ label |-> b.label,
       insts |-> SubSeq(b.insts, 1, i - 1)
                   \o <<Syscall(calleeLevel), Cmp, Check(n + 1, n + 2), Jump("resume", n + 2)>> ],
     [ label |-> n + 1,
       insts |-> <<Call("exit", prog.exit), Jump("resume", n + 2)>> ],
     [ label |-> n + 2,
       insts |-> <<b.insts[i], Syscall(callerLevel)>>
                   \o SubSeq(b.insts, i + 1, Len(b.insts)) ] >>

(* Mutation: behind the call all privilege is given up.                     *)
GateGivesUpAll(b, i, n, callerLevel, calleeLevel) ==
  << [ label |-> b.label,
       insts |-> SubSeq(b.insts, 1, i - 1)
                   \o <<Syscall(calleeLevel), Cmp, Check(n + 1, n + 2)>> ],
     [ label |-> n + 1,
       insts |-> <<Call("exit", prog.exit), Jump("resume", n + 2)>> ],
     [ label |-> n + 2,
       insts |-> <<b.insts[i], Syscall(LeastPrivileged)>>
                   \o SubSeq(b.insts, i + 1, Len(b.insts)) ] >>

(* Mutation: upgrade and downgrade are swapped.                             *)
GateSwapsLevels(b, i, n, callerLevel, calleeLevel) ==
  << [ label |-> b.label,
       insts |-> SubSeq(b.insts, 1, i - 1)
                   \o <<Syscall(callerLevel), Cmp, Check(n + 1, n + 2)>> ],
     [ label |-> n + 1,
       insts |-> <<Call("exit", prog.exit), Jump("resume", n + 2)>> ],
     [ label |-> n + 2,
       insts |-> <<b.insts[i], Syscall(calleeLevel)>>
                   \o SubSeq(b.insts, i + 1, Len(b.insts)) ] >>

(* The three blocks that replace block b when its i-th instruction is       *)
(* gated; n is the number of blocks the function has.                       *)
Gate(b, i, n, callerLevel, calleeLevel) ==
  << [ label |-> b.label,
       insts |-> SubSeq(b.insts, 1, i - 1)
                   \o <<Syscall(calleeLevel), Cmp, Check(n + 1, n + 2)>> ],
     [ label |-> n + 1,
       insts |-> <<Call("exit", prog.exit), Jump("resume", n + 2)>> ],
     [ label |-> n + 2,
       insts |-> <<b.insts[i], Syscall(callerLevel)>>
                   \o SubSeq(b.insts, i + 1, Len(b.insts)) ] >>

Init ==
  /\ prog \in Programs
  /\ code = prog.code
  /\ visited = {}
  /\ pc = "scan"

(* The comparison of line 34, which may go either way for untagged sections. *)
Lowers(f, g) ==
  \E cr \in LevelsRead(prog.section[f]), ce \in LevelsRead(prog.section[g]) : ce < cr

MayContinue(f, g) ==
  \E cr \in LevelsRead(prog.section[f]), ce \in LevelsRead(prog.section[g]) : ce >= cr

Visit(f, k, i) == visited' = visited \cup {<<f, CalleeAt(f, k, i)>>}

(* Mutation: the site is not remembered as visited.                         *)
SkipSiteForgotten(f, k, i) ==
  /\ pc = "scan" /\ IsFirst(f, k, i)
  /\ MayContinue(f, CalleeAt(f, k, i))
  /\ UNCHANGED <<prog, code, visited, pc>>

SkipSite(f, k, i) ==
  /\ pc = "scan" /\ IsFirst(f, k, i)
  /\ MayContinue(f, CalleeAt(f, k, i))
  /\ Visit(f, k, i)
  /\ UNCHANGED <<prog, code, pc>>

GateSite(f, k, i) ==
  /\ pc = "scan" /\ IsFirst(f, k, i)
  /\ Lowers(f, CalleeAt(f, k, i))
  /\ \E cr \in ConstantsRead(prog.section[f]),
        ce \in ConstantsRead(prog.section[CalleeAt(f, k, i)]) :
       code' = [code EXCEPT ![f] = SubSeq(@, 1, k - 1) \o Gate(@[k], i, Len(@), cr, ce)
                                     \o SubSeq(@, k + 1, Len(@))]
  /\ Visit(f, k, i)
  /\ UNCHANGED <<prog, pc>>

(* With assertions, APInt refuses the text of an untagged section.          *)
CrashOnUntagged(f, k, i) ==
  /\ pc = "scan" /\ IsFirst(f, k, i)
  /\ Lowers(f, CalleeAt(f, k, i))
  /\ ~Tagged(prog.section[f]) \/ ~Tagged(prog.section[CalleeAt(f, k, i)])
  /\ pc' = "crashed"
  /\ UNCHANGED <<prog, code, visited>>

Finish ==
  /\ pc = "scan"
  /\ \A f \in prog.defs : \A k \in DOMAIN code[f] : \A i \in DOMAIN code[f][k].insts :
       ~Unvisited(f, k, i)
  /\ pc' = "done"
  /\ UNCHANGED <<prog, code, visited>>

Stopped == pc \in {"done", "crashed"} /\ UNCHANGED vars

Next ==
  \/ \E f \in prog.defs : \E k \in DOMAIN code[f] : \E i \in DOMAIN code[f][k].insts :
       SkipSite(f, k, i) \/ GateSite(f, k, i) \/ CrashOnUntagged(f, k, i)
  \/ Finish
  \/ Stopped

Spec == Init /\ [][Next]_vars

(* A sequential pass that nothing blocks.                                   *)
FairSpec == Spec /\ WF_vars(Next)

-----------------------------------------------------------------------------
(* Properties.                                                              *)

TypeOK ==
  /\ prog \in Programs
  /\ code \in [Function -> Seq(Block)]
  /\ visited \subseteq Function \X Function
  /\ pc \in {"scan", "done", "crashed"}

(* Taking the gates out of a function leaves its instructions as they were, *)
(* in order: no call is lost, doubled or moved by the splitting, however    *)
(* many gates cut the same block and each other.                            *)
Insts(blocks) == FlattenSeq([k \in DOMAIN blocks |-> blocks[k].insts])

WithoutGates(insts) ==
  FlattenSeq([i \in DOMAIN insts |-> IF insts[i].op \in GateOps THEN <<>> ELSE <<insts[i]>>])

BodyKept ==
  \A f \in Function : WithoutGates(Insts(code[f])) = Insts(prog.code[f])

(* The gates of f around calls of g: block k checks, block n has the call.  *)
(* An exit call with nothing behind it is the refused branch of a gate.     *)
IsGate(f, g, k, n) ==
  LET last == code[f][k].insts[Len(code[f][k].insts)]
  IN  /\ last.op = "check"
      /\ code[f][n].label \in last.to
      /\ code[f][n].insts[1].op \in CallOps
      /\ code[f][n].insts[1].callee = g
      /\ code[f][n].insts[1].op = "exit" => code[f][n].insts[2].op # "resume"

Gates(f, g) ==
  { e \in (DOMAIN code[f]) \X (DOMAIN code[f]) : IsGate(f, g, e[1], e[2]) }

GatedInvoke(f, k) ==
  \E g \in prog.defs : \E e \in Gates(f, g) : e[2] = k /\ code[f][k].insts[1].op = "invoke"

(* Blocks stay well formed, and each label a terminator names is the label  *)
(* of exactly one block.  The pass keeps to that however often it splits a  *)
(* block, but for the call of a gate that is an invoke: an invoke ends its  *)
(* block, and the pass puts a syscall behind it.                            *)
BlocksWellFormed ==
  \A f \in prog.defs : \A k \in DOMAIN code[f] :
    LET insts == code[f][k].insts
    IN  /\ WellFormed(insts) <=> ~GatedInvoke(f, k)
        /\ \A i \in DOMAIN insts : insts[i].op \in TerminatorOps =>
             \A l \in insts[i].to :
               Cardinality({ n \in DOMAIN code[f] : code[f][n].label = l }) = 1

BothTagged(f, g) == Tagged(prog.section[f]) /\ Tagged(prog.section[g])

(* A gate asks for the level of the callee just before the check, and the   *)
(* first thing after the call is to go back to the level of the caller; it  *)
(* is never the caller that is the more privileged one.  Gates put later    *)
(* into the same blocks do not come between.                                *)
GatesRaiseAndLower ==
  \A f \in prog.defs : \A g \in prog.defs : \A e \in Gates(f, g) :
    BothTagged(f, g) =>
      LET head == code[f][e[1]].insts
          tail == code[f][e[2]].insts
      IN  /\ head[Len(head) - 2] = Syscall(prog.section[g])
          /\ tail[2] = Syscall(prog.section[f])
          /\ prog.section[g] < prog.section[f]

(* When the pass is done, a function has exactly one gate for each more     *)
(* privileged function it calls (the one its gates exit by included), and   *)
(* no other gate.                                                           *)
Positions(blocks) == UNION { {k} \X DOMAIN blocks[k].insts : k \in DOMAIN blocks }

SitesOf(f, g) ==
  { p \in Positions(code[f]) : IsSite(f, p[1], p[2]) /\ CalleeAt(f, p[1], p[2]) = g }

OneGatePerPair ==
  pc = "done" =>
    \A f \in prog.defs : \A g \in prog.defs :
      BothTagged(f, g) =>
        Cardinality(Gates(f, g)) =
          IF SitesOf(f, g) # {} /\ prog.section[g] < prog.section[f] THEN 1 ELSE 0

(* The scan that starts over for every site comes to an end, although each  *)
(* gate adds a call site of its own.                                        *)
Completes == <>(pc # "scan")

-----------------------------------------------------------------------------
(* What is said of the pass and it does not do.                             *)

(* Line 254: it "detects privilege level changes and insert the proper      *)
(* syscall to manage the change".  (It does so for the first call site.)    *)
EveryLoweringCallIsGated ==
  pc = "done" =>
    \A f \in prog.defs : \A g \in prog.defs :
      BothTagged(f, g) /\ prog.section[g] < prog.section[f] =>
        \A s \in SitesOf(f, g) : \E e \in Gates(f, g) : s = <<e[2], 1>>
=============================================================================
