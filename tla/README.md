# Verification of the privilege-separation passes

The repository is a fork of LLVM 3.4 whose own contribution is *privilege
separation*: a program's functions and globals carry a level from 0 (most
privileged) to `NUM_OF_LEVELS - 1` = 9 (least privileged, `main`); functions of
one level are placed in one ELF section `.fun_ps_<level>`, globals in
`.dat_ps_<level>`; a call into a more privileged function is wrapped in a *gate*
that asks the kernel for the level with `syscall(352, level)`; a linker script
keeps the sections on pages of their own. The kernel that enforces the levels is
not in the repository. The fork has no test for any of this, so this directory
is the only place where the intended behaviour is written down and checked.

## 1. Inventory

### The privilege-separation code

| part | source | state it keeps | operations | interacts with |
|---|---|---|---|---|
| tag propagation | `lib/Transforms/PrivilegeSeparation/TaggingPropagation.cpp` | section of every function; work list, visited list, call sites | read annotations, collect call sites, walk the call graph, `isPropagated` | reads the call graph; writes the sections `SysCallInsertion` reads |
| gate insertion | `.../SysCallInsertion.cpp` | blocks of every function; list of visited call sites | `getList`/`isVisited` scan, insert a gate | reads sections; the gates run on the kernel |
| running gates | the code inserted by the above | call stack, current level | request a level, check, call, return, exit | external: kernel, processor, `exit` |
| section placement | `.../PrivilegeSeparationOnModule.cpp:23-167` | the module's lists of globals and functions | clone by level, replace uses, erase, re-insert, set section | overwrites the sections of tag propagation; decides the used levels |
| linker script | `.../PrivilegeSeparationOnModule.cpp:168-496` | the file `ps_link_script.ld`, the location counter | write the script | one file per working directory, shared by all compilations |
| level of a global | `IR/GlobalValue.h`, `IR/Globals.cpp`, `AsmWriter`, `LLLexer`, `LLParser`, `BitcodeReader`, `BitcodeWriter` | `privilegeSeparation` of a `GlobalValue` | get, set, copy, print, parse, write, read | linker (`copyGVAttributes`), `ConstantMerge`, every pass that makes a global |

The three passes are sequential: within one, what is hard is the *order* in which
a work list is emptied, whether its loops *end*, indices into blocks that
earlier iterations have cut, and decisions keyed on names. Between them, what is
hard is that they communicate by section names that each rewrites. At run time,
what is hard is the nesting of gated and ungated calls, and refusals. Between
compilations, what is hard is the shared script file.

What makes each part correct:

* tag propagation: an inferred level is that of the least privileged caller, so
  that no call of an unannotated function needs a gate; annotations win; the
  result does not depend on the order of the walk; it ends.
* gate insertion: it adds gates and changes nothing else; blocks stay well
  formed; a gate asks for the callee's level and gives it back; each call that
  gains privilege has a gate; it ends.
* running gates: a function's code runs with (at least, and at best exactly) the
  privilege of its level, whatever has been called and refused before.
* section placement: each global and function is re-inserted once, with its own
  level, and everything that referred to it refers to the copy.
* linker script: each used level has a section and a segment; sections do not
  overlap and do not share a page; the script belongs to the module linked.
* level of a global: printing and parsing, writing and reading, cloning and
  linking keep it below `NUM_OF_LEVELS` and unchanged.

### The rest of the repository

All other parts are LLVM 3.4 as released, vendored with the fork: the IR library,
the optimiser, code generators, the assembler and object-file layers, execution
engines, tools, bindings and tests. Two of them have a protocol of their own that
is worth a model here:

| part | source | state it keeps | operations | interacts with |
|---|---|---|---|---|
| IR linker | `lib/Linker/LinkModules.cpp`, `tools/llvm-link` | composite module, `ValueMap`, `DoNotLinkFromSource`, `LazilyLinkFunctions` | link prototypes, contents, late functions, module after module | carries the levels of globals from files to the composite, so it decides what the passes above see |
| lock files | `lib/Support/LockFileManager.cpp` | `FILE.lock`, a unique file per process, `Owner`, `Error` | construct, wait, destroy | other processes, the file system; crashes |

What makes them correct:

* IR linker: each name ends with the definition a static linker would choose and
  with that definition's privilege level; what is mentioned is what was meant,
  local or not; nothing refers to what was erased; conflicts, and only they, fail.
* lock files: one owner at a time; nobody leaves files behind; nobody waits for
  ever.

`PROJECT.json` lists the other parts with the reason they are left out.

## 2. Modules

| module | models | notes |
|---|---|---|
| `ModuleIR` | what the passes read of a module | constants, sections as levels, calls |
| `LevelInference` | the promise of tag propagation | abstract: infer any function that is ready |
| `LevelInferenceProofs` | theorems about it | |
| `TaggingPropagation` | `TaggingPropagation::runOnModule` and helpers | one action per loop body |
| `TaggingPropagationProofs` | theorems about it, refinement included | |
| `SysCallInsertion` | `SysCallInsertion::runOnModule`, `getList`, `isVisited` | one action per iteration |
| `GateProofs` | theorems about it | extends `GatedRun`, for the programs the gates suffice for |
| `SourceRun` | the program as it was written running | abstract: no gates, no levels, no labels |
| `GatedRun` | the rewritten program running | composes: extends `SysCallInsertion`, runs its result; refines `SourceRun` |
| `GatedRunProofs` | theorems about it, refinement included | extends `GateProofs` |
| `SectionPlacement` | `PrivilegeSeparationOnModule::runOnModule`, `runOnFunctions`, `runOnGlobalVariables` | one action per iteration of each loop |
| `SectionPlacementProofs` | theorems about it | |
| `ScriptText` | the script `generateLinkScript` writes | a pure function of the used levels |
| `LinkScript` | the addresses ld makes of it | extends `ScriptText`; one action per kind of statement |
| `SharedScript` | several compilations writing the one file | extends `ScriptText`; open, write, close per compilation |
| `ScriptProofs` | the layout of every script; theorems about `SharedScript` and `LinkScript` | starts with lemmas: induction over numbers, what flattening a sequence gives |
| `GlobalFiles` | globals through printing, parsing, writing and reading | operators on modules |
| `ModuleLinker` | `llvm-link` and `ModuleLinker::run` | extends `GlobalFiles`; one action per iteration of each loop |
| `ModuleLinkerProofs` | theorems about it | |
| `LockFile` | `LockFileManager` in several processes | one action per system call |
| `LockFileProofs` | theorems about it | |
| `MCTagging`, `MCLevelInference`, `MCSysCall`, `MCGatedRun`, `MCPlacement`, `MCLinkScript`, `MCSharedScript`, `MCModuleLinker`, `MCLockFile` | families of inputs for TLC | |

### State and actions

**Sections.** Tag propagation and gate insertion only ask of a section whether it
contains `.fun_ps_`, which number follows, and whether it is `.text.startup`. A
section is therefore an integer, `Startup` or `NoTag`. Annotations are taken to be
levels 0 to `NumLevels - 1`, as the front end is expected to write them.

**TaggingPropagation.** `ir` is the module, chosen in `Init` from the constant
`Modules` and then fixed, so that one run covers a family of modules. `section`,
`callSites`, `notVisited`, `visited`, `current` are the variables of the code;
`left` is the position of the loops over sons (lines 88-92 and 106-110, which are
the same loop). `Collect` is the loop of lines 28-67; `Finish` and `StartRound`
the test and body head of the outer `while`; `ExpandTagged`, `TagCurrent`,
`Requeue` the three branches of the inner one, each with its pop; `PushSon` one
iteration over sons. `CrashOnIndirect` is the null callee of line 139,
`StartRound` without a `main` the null node of line 125. `rank` is the order of the
call graph's map, which is by address; it matters only for whether an indirect
call site is met before an untagged caller. The level (lines 145-151) is defined
by what the loop computes, a maximum, and not by iterating.

**LevelInference** has the sections and nothing else. The refinement maps
`section`, seen as already seeded until the annotations are read; `seed` is a
function of the module.

**SysCallInsertion.** `code` is, for each function, its sequence of labelled
blocks; an instruction is kept when it is a call or a terminator. `visited` has
the (caller, callee) pairs, which is all `isVisited` compares. `IsFirst` is the
scan of `getList`; `SkipSite` the `continue` of line 35; `GateSite` lines 37-177,
with `Gate` building the three blocks as they are after the last line.
`LevelsRead` is `atoi(section + 8)`: reading behind a section shorter than that
is undefined and modelled as any level, and so is the constant made of its text,
at which a build with assertions stops (`CrashOnUntagged`). A program comes as the
verifier leaves it and without gates (`FromSource`).

**GatedRun** runs the pass (`Compile`) and then executes its result. The kernel is
external: it may refuse any request, and returns 1 when it grants. `exit` does not return. `stuck` is history: a lowering
was refused, whose result the code does not look at. An `invoke` is not executed; the
verifier rejects a program that has one gated, and the programs that are run have none.

**SourceRun** has the program before the pass: a frame is a function and the
instructions from where it is to the function's end. Besides calling, branching
and returning it may `Refuse`, that is end in front of a call of a more privileged
function. The refinement maps a frame of the gated program to its function and
what is still to come of its blocks when gates are taken out (`ToCome`). `WithoutGates`
is the same operator `BodyKept` uses.

**SectionPlacement.** A value is a name with "original" or "copy". `refs` is what
a function's body, a global's initialiser or an alias refers to; `labels` whose
label addresses it holds (computed `goto`). `bucket` is `my_list` and
`to_delete` at once, because they are filled and read in step. Redirecting uses is
`Value::replaceAllUsesWith` over every value there is, pending copies included.
`EraseFunction` is one iteration of lines 136-143: delete the body (which zaps
label addresses), redirect, erase. A number that is no level is `TooLarge`: it
indexes behind the end of the arrays, where there may be a null pointer (`Added`
then loses the value) or anything else (`CrashOnLevel`).

**ScriptText, LinkScript.** The script's statements, in order, with the ordinary
sections reduced to the neighbours of the level sections. `Page` is both
`COMMONPAGESIZE` and the literal `0x1000`, equal on the two targets the script is
for. ld is external: a location counter. The script names its input sections
`fun_ps_<l>` while the passes place code in `.fun_ps_<l>`; that the code still gets
into the output section of its name rests on ld's rule for sections a script does
not mention, and is assumed.

**SharedScript.** `own` is each compilation's script, `offset` its position in the
file. Opening truncates; `Buffer` statements reach the file at a time; a write past
the end leaves a hole of null bytes. `last` and `shared` are history, for the
properties.

**GlobalFiles.** A module is a function from names to records of kind, linkage,
level and what the global mentions, such as the parser, the reader and the verifier let
pass (`IsModule`). The current reader and writer agree; an old
file, of the LLVM this is a fork of, has the visibility where the level is
expected (`BitcodeReader.cpp:1838`), or its record ends before it and what is read
is left from a longer one. Levels are written for variables only: a function's
level is `NUM_OF_LEVELS - 1` again after reading, whatever a pass had set.

**ModuleLinker.** `dst` is the composite; a global in it is known by the module and
the name it came from, so that two globals can want one name; `named` says which of
them has it. `from` lists the modules whose contents it has (several for appending
variables). `map`, `skip` and `lazy` are `ValueMap`, `DoNotLinkFromSource` and
`LazilyLinkFunctions`; `todo` is what a loop has not come to, in any order.
`LinkGlobalProto`, `LinkFunctionProto`, `LinkAliasProto` share `MultipleDefinition`,
`KeepDestination` and `BringOver`, the three outcomes of `getLinkageResult`; the
four functions that link contents are `MapContents`, as all they do to the state is
`MapValue`. `NewGlobal` and `WithNew` are `copyGVAttributes` and `forceRenaming`;
what is not copied there (the DLL storage class) is lost. `Replace` is
`replaceAllUsesWith` with `eraseFromParent`; an appended variable takes over the
initialiser of the one it replaces after that, so that where it mentioned itself it
mentions the new one (`Redirected`).

**LockFile.** `lock` is whose unique file `FILE.lock` is a link to. `ReadLock` is
`readLockFile`, without the removal of garbage, which is a step of its own
(`Discard`, `Rediscard`) because another process may come between; so are the writing of
the unique file and, should the disk be full, its removal (`WriteUnique`,
`RemoveUnwritten`). `CountLinks` is
the `stat` after a link that failed or was reported as failed, `WipeUnique` the removal of
the unique file when the count is one. `waitForUnlock` is
`PollLock`, `PollOwner`, `PollGone`, `PollFile`; the doubling of the interval is
counted in `tries`. `robbed` and `statted` are history, for the properties. The
clients (`Start`, `Build`, `GoWithout`) and the file system are external. A killed
process stays dead and its files stay.

## 3. Runs

| run | question | bounds |
|---|---|---|
| `inference` | does the order of inference matter? | 3 functions, every call graph of at most two different callees each, every seed, 2 levels: 42875 initial states |
| `tagging` | is what the pass tags right, and when does it end? | main, exit wrapper, two functions; 3 levels; at most 2 calls in a body; two orders of the map; 40960 modules |
| `tagging_requeue` (violation) | is a requeued function tagged later? | 48 modules in which main calls every function and the one cycle is a function calling itself |
| `gates` | does gate insertion change only what it should? | the same functions, up to 3 calls a body, 2 blocks, a loop, invokes, every level combination: 4464 programs |
| `gates_every` (violation) | is each call that gains privilege gated? | the tagged ones of them |
| `gated_run` | at which level does code run? | 680 programs of 4 functions and an exit function, declared or with a body and a level of its own; stack of at most `MaxDepth` = 4 |
| `placement` | does moving everything into sections keep the program? | 3 functions, 2 globals, an alias; 3 levels; references in all directions and cycles, declarations, labels, numbers that are no level: 9664 modules |
| `layout` | what addresses does the script give? | 2 levels, pages of 4 bytes, sizes 0, 1 and around one and three pages, aligned start or not: 10368 layouts |
| `shared_script` | what is in the file after several compilations? | 3 compilations, each with one of two sets of levels, 3 statements a write |
| `linking` | is what is linked what was meant, at its own level? | 3 files of 2 or 3 globals with every linkage, kind and level, an appending variable that mentions itself or meets a function of its name, 2 files in every form: 15112 sequences of files; `NumLevels` = 3 |
| `linking_text` (violation) | can what is linked from bitcode be linked from text? | the 729 pairs of files |
| `lock_file` | who owns the lock, what is left behind, does waiting end? | 3 processes on 2 hosts; any number of turns; `MaxCrashes` = 1; `LongTries` = `ShortTries` = 2 |

What the passing runs show:

* `inference`: `OrderIndependent`, a written tag agrees with *every* complete
  tagging that satisfies the seeds.
* `tagging`: `InferredTagIsMaxOfCallers` with respect to the callers in the
  program, not to the pass's own list; `NoNodeLost` and `RoundTagsReachable`, the
  walk with its requeueing and duplicates drops nothing;
  `InfersLevels`, the refinement of `LevelInference`; and `Completes` with
  `DoneOnlyIfCanComplete`, which together say exactly on which modules the two
  loops end: `CanComplete` is a condition on the module alone.
* `gates`: `BodyKept`, taking the gates out gives the function back, however they
  were nested; `BlocksWellFormed`, which says exactly that the one malformed block
  is that of a gated invoke; `GatesRaiseAndLower`; `OneGatePerPair`; the scan
  that starts over ends although each gate adds a call site.
* `gated_run`: in programs where no function calls a less privileged one, none
  calls the same more privileged one twice, exit calls of gates included, and none calls
  indirectly (`GatesSuffice`), code runs at its level, and with more privilege only once a
  lowering was refused (`RunsAtItsLevel`); in every program without untagged functions,
  with main at the level a process starts at,
  privilege is lost only to the least privileged of the functions called without a gate
  since the last gate (`LossIsBounded`); in every program no refused gate is passed
  (`DeniedMeansNotEntered`), and the gated program refines the one it was made from
  (`RunsAsWritten`): the same calls, branches and returns in the same order, gates or
  none, and an exit only in front of a call that gains privilege.
* `placement`: `NoUseOfErased`, at every step, for values in the module and copies
  waiting to be inserted; `EachNameOnce`; `ReferencesKept`, exact: a global or another
  function loses the label addresses of exactly the functions copied, and only a global
  whose level is no level is referred to by a copy that is in no module; `PlacedByLevel`, sections
  and the used sets the script is made from; `CrashesOnAnnotation`, an annotated
  declaration always stops the pass, and nothing else does but a number that is no
  level.
* `layout`: `LevelsApart`, levels never share a page whatever the sizes;
  `OverlapIfLastTooLarge`, sections overlap exactly when the functions of the least
  privileged level, that is all unannotated code, exceed three pages, or its
  globals exceed one; `SegmentsAgree`.
* `shared_script`: the file is the last compilation's script if none overlap, or
  if all use the same levels; in any case what the last one wrote has no hole. It
  is not claimed to be the last one's script when they overlap, and it is not.
* `linking`: `NoDangling`, at every step; `DefinitionWithItsLevel`, the outcome of the
  pairwise decisions is the strong definition or else the first weak one, wherever
  it comes, with its own level; `ReferencesResolved`, local names are neither
  captured nor lost, and a name seen from outside is one global; `NothingHalfLinked`,
  functions that come late get their bodies; `FailsOnConflict`, exactly when. Names that
  dllimport spoils (`ImportSpoils`) or that are an appending variable in one module and a
  function or an alias in another (`MixesKinds`) are exempt where the code treats them
  differently.
* `lock_file`: `Exclusive`, two processes own the lock only after one of them has lost
  it to somebody who removed it as nobody's; `NoLitter`; `ComesBack`, constructing and
  waiting end for every process that lives, whatever the others do, and who waits for an
  owner that died on its own host does not sleep again. (Without the second part a dead
  owner might go unnoticed: the limit on sleeps alone ends the waiting.) With equal
  limits for the lock and for `FILE` the run does not show that counting starts over
  between them; that `tries` stays below each limit is proved for all limits (`TypeCorrect`).

The bounds are enough for the interesting cases: two unnamed functions give
self-recursion, mutual recursion, a diamond, a function reached from two callers
of different levels, a cycle entered from outside and an unreachable caller;
three levels give a middle one; an exit function with a level of its own makes
gates inside gates. In `placement` two functions of one level and two of
different ones come up, in both orders; in `layout` one byte less than, exactly
and one more than each limit; three compilations are one more than it takes to
truncate a file that two are writing. In `linking` three modules are what it takes
for a definition to meet the result of a replacement, or a local name one that was
taken away before. In `lock_file` three processes are an owner, one that removes the
lock and one that makes it its own in between; two hosts are an owner whose death
is seen and one whose is not; two tries are one retry and the limit.
`TaggingPropagation` has no counter to bound. `MaxDepth` is
the only bound on behaviours; only indirect calls in `gated_run` reach it.

**Fairness.** `WF(Next)` on the two passes, and only that: a pass is one thread
that nothing blocks, so it takes its next step. `GatedRun` has none, since a
loop in the program may run for ever and the kernel owes nothing. `LockFile` has
`WF` for each process inside the constructor or `waitForUnlock`: a process that is
not killed is scheduled and its sleeps end. No fairness is assumed of clients: an
owner may never unlock, which is why waiting has to give up.

**Deadlock** is checked wherever the system does not really stop; the passes end
in an explicit stuttering step. `inference` does stop (`CHECK_DEADLOCK FALSE`).

### Findings

1. `tagging_requeue`: a function that calls itself is one of its own callers, and waits
   for its own tag. It is put back in the queue for ever, though all its other callers are
   tagged; the compiler does not terminate. (A function on a longer cycle, or called by one
   that `main` does not reach, waits for ever too: `CanComplete` says it of all.)
2. `gates_every`: only the first call of a given function in a given function is
   gated.
3. `linking_text`: a variable's level is printed, but the parser does not step over
   the keyword before it reads the number and ignores the failure, so no module with
   a variable survives being written as text; the manual calls the forms equivalent.

What passing properties had to be weakened by also says what the code does:

* gating an `invoke` puts a syscall behind a terminator, which the verifier rejects
  (`GatedInvoke` in `BlocksWellFormed`);
* an annotated declaration crashes `CloneFunction` (`CrashesOnAnnotation`), and the
  addresses of an annotated function's labels held by a global or by another function
  become `inttoptr 1`
  (`ReferencesKept`), of which `CloneFunction.cpp:126` warns;
* a module that imports a name (`dllimport`) after another defined it makes the
  definition internal, because `getLinkageResult` leaves the linkage of that case
  open and its callers start from internal; `LinkModules.cpp:547` says "result should
  be dllimport'ed". A first module that imports it keeps its import against every
  definition (`ImportSpoils`);
* that an appending variable may only meet an appending variable is checked for variables
  only: a declaration, or a weak function or alias, that comes after it lets it stay and is
  linked to it (`MixesKinds`). "can only link appending global with another appending global!",
  says the error of `LinkModules.cpp:686`;
* a function in `.text.startup`, where static constructors go, is compared as one of level
  0, and a level behind a section name too short is whatever the memory holds
  (`LevelsRead`); of the same text `APInt` then makes the constant for the gate, or stops
  (`CrashOnUntagged`), so that the properties of gates speak of functions with a level;
* variables of old bitcode get their visibility, or anything, as a level
  (`ReadVariable`): in the record that `BitCodeFormat.rst:661` documents the visibility
  is where the reader expects the level, and a hidden variable becomes one of level 1
  that is not hidden. What linking then keeps is that level;
* two processes can own a lock at once. A process that found a lock and then no
  owner in it removes `FILE.lock` by name (`CleanUp`, `Rediscard`), although
  meanwhile another may have made it its own; a third then locks too. The header
  relies on the file system "to ensure that only a single process can create that
  .lock file" (`LockFileManager.h:24`), which it does, but removing it is not covered;
  "when the lock file is removed, the owning process has finished" (line 26) does not hold;
* a lock whose owner has died stays: `readLockFile` says such a lock "is invalid"
  (`LockFileManager.cpp:39`) but never looks, so every later process is told to wait,
  gives up after one sleep, and goes on without. And who waits asks after the owner it
  was told when it came: if that one has unlocked, and the next died, it sleeps on
  to the limit. `ComesBack` therefore speaks of the owner a process was told.

Three further conditions in passing properties say what the code does not do in general.
`Exempt`: an internal (`static`) function that `main` calls may be left without a
tag when `isPropagated` is content; `SysCallInsertion` then makes a level of
whatever follows its section name. `GatesSuffice`: a function that passes a gate
returns at its own level, so a more privileged caller that called it without a
gate continues with less privilege than it had. (Where main (2) calls `a` (0), `a` calls `b` (1)
without a gate, and `b` calls `c` (0) through one, `a` goes on at level 1; `LossIsBounded` says
how far this goes.) The exit call that a gate brings
counts as a call, which the proof of `CodeRunsAtItsLevel` brought to light: where the
exit wrapper is more privileged than a function that calls it and another more
privileged function, the exit call of that function's first gate is found before the
function's own, takes the gate, and the function's own goes without. `OverlapIfLastTooLarge`: a program
with more than three pages of unannotated code is given overlapping sections.

## 4. Proofs

TLAPS checks what follows for every value of the constants. The assumptions are
those that the modules declare and TLC evaluates on every run. No theorem of a
component uses more than the assumptions named with it.

**Tag propagation** (`TaggingPropagationProofs`, `LevelInferenceProofs`): for every set of
functions, number of levels and family of modules, from the assumptions of `ModuleIR`
(there is at least one level; `main` and the exit wrapper are different functions; the
non-level sections are not integers) and `Modules \subseteq IR`.

* `TypeCorrect`. `TypeOK` is not inductive: `left` is bounded by the calls of
  `current`, and `Requeue` changes `current` alone. `TypeInv` adds that `left` is
  0 outside the loop over sons.
* `InferredTagCorrect`. The invariant of the walk needs that `callSites` is what
  was collected (`CollectedInv`), from which `CallersAgree` concludes that the
  callers the pass looks at are the callers in the program. `TagCurrent` then
  writes the maximum over callers that all have tags; it changes no other
  function, and none of *its* tagged callees had it as a caller, because they
  would have waited.
* `RefinesLevelInference`: `Collect` stutters, `TagCurrent` is `Infer(Top)`,
  everything else leaves the sections alone.
* `NoNodeIsLost`, `ReachableIsTagged`: `WalkInv` says that a son of a visited
  function is visited, queued or still to be pushed, that visited functions have
  tags and that main is queued or visited. When the list is empty the visited
  set is closed under calls and contains main, hence all that main reaches.
* `EndsOnlyIfItCan` (`DoneOnlyIfCanComplete`): only what main reaches is visited
  (`ReachedInv`); a tag that was not there at the outset was written by a visit, which looked
  at every call site and met no indirect one (`WrittenInv`); and each set of functions of
  which some were visited has one that was first, which had a tag or waited for functions
  outside the set only (`FirstInv`). At the end what was visited is what main reaches, so
  that `FirstInv` is `Grounded`.
* `LevelInferenceProofs!OrderDoesNotMatter`: by induction over steps, using that
  seeds are kept (`SeedsKept`) and that two levels inherited from callers with the
  same tags are equal (`InheritsUnique`).

**Section placement** (`SectionPlacementProofs`): for every set of names, number of levels
and family of modules, from `LevelsAssumption` (at least one level; no annotation is not a
number) and `ModulesAssumption` (the symbol table gives no name twice; what is referred to
is in the module). All safety properties of the run are theorems.

* `TypeCorrect`, `NamesStayUnique`. Neither is inductive: that a loop finds the value it
  erases, and that it erases no other, needs `ListInv`. For the list of functions and that
  of globals it says, in each phase, which originals are still there and which copies
  are already (`Holds`), and that the buckets hold exactly the names passed so far, each
  once, in the bucket of its level (`BucketShape`, `Filled`). The walk over the buckets is
  a position in a two-level order, and `ReachedItem` and `ReachedLevel` say what one step
  adds to the part reached.
* `CrashesOnlyOnAnnotation`: `AnnotationsInv` remembers that each annotated function the
  first loop has passed had a body.
* `EverythingIsPlaced`: `SectionInv` says what every section is at every step, and that
  the used sets are the levels of the copies inserted.
* `ErasedIsUnused`: itself inductive given `ListInv`; each redirection comes with the
  erasing it is for, in one step, and copies waiting are redirected as well.
* `ReferencesAreKept`: `KeptInv` states the property at every step, with "what the
  original has become so far" in place of the final value, for the values that will be in
  the module (`Kept`); `CopyInv` says that a copy that is referred to is one of those
  that will come, or a global's whose level is no level. The proof found a mistake in what
  the property said before: labels are lost from functions as well as from globals.

**Linker script** (`ScriptProofs`): for every number of levels and page
size (`PageAssumption`), any compilations, sets of used levels and size of the buffer
(`CompilationAssumption`), any sizes of sections and first addresses
(`LayoutAssumption`).

* `ScriptShape` is the lemma all of these rest on: what a script consists of, position by
  position, whatever the levels. The loops over levels are a fold and `FlattenSeq`, that
  is recursive functions; `Induction` is induction over the numbers stated with
  a set and not an operator, which the provers can instantiate.
* `SequentialIsWhole`, `SameLevelsAreWhole`, `LastHasNoHole`, all from `FileInv`
  (`FileStaysInv`): as long as none overlapped the file is a prefix of the last one's script
  and only that one is open (`Alone`); no position is behind every script (`Within`); up
  to the last one's offset each position holds a statement of some script at its own place
  (`Written`). `Written` is what remains of `Alone` when they overlap, and it is enough
  because a write never leaves a gap behind its own offset.
* `SegmentsAlwaysAgree`: from `ScriptShape` alone, as the script never changes.
* `LevelsStayApart`, from `ApartInv` (`LinkStaysApart`): a section placed was placed by a
  statement already passed (`PlacedBefore`), hence once; while a group of sections
  grows the counter is behind all of it, by a page if an advance was just passed
  (`Behind`); two sections of a group are a page apart (`Spread`). That the advance is a
  page is enough, whether or not the first section is aligned.
* `OverlapsIfTooLarge`, from `OrderInv`: the two sections of the least privileged level
  come last in their groups and the counter behind them is set from their *start*
  (`Padded`, `Counter`), the only two places where it can fall behind what is placed.
  Where they fit, everything placed is in order (`InOrder`); where one does not, the next
  section placed is inside it.

**Lock files** (`LockFileProofs`): for any set of processes and hosts, any number of tries
and crashes (`TriesAssumption`, `MaxCrashesAssumption`, `NonProcessAssumption`: the marks for
nobody and for garbage are not processes).

* `TypeCorrect`: adds that `tries` is a number in every state of every process.
* `LockIsExclusive`: `Exclusive` is not inductive. `LockInv` adds that a process's unique
  file exists from its creation to the end of its ownership or attempt
  (`UniqueWhileTrying`), and that as long as no `stat` has failed `FILE.lock` is the link of
  a process that owns it, has yet to find out that it does, or is dead (`LockOfOwner`).
* `NothingLeftBehind`: from the same `LockInv`.

**Gate insertion** (`GateProofs`): for every set of functions, number of levels and family
of programs, from the assumptions of `ModuleIR`, `ProgramsAssumption` (programs come as
`FromSource` says) and, because the module extends `GatedRun`, `MaxDepthAssumption`.

* `TypeCorrect`, `GatesStayInShape` (`GatesRaiseAndLower`), `BlocksStayWellFormed`,
  `OneGateEach` (`OneGatePerPair`), and `CallsStayGated`, which is `FlowInv`: each
  syscall, comparison and exit call is part of a gate, every other call is one the function
  had, and in programs for which `GatesSuffice` a visited call that lowers is at a gate and
  nowhere else (`Origins` is the lemma that says where what is in a cut block came from).
  The proofs look at blocks by label (`View`), since a gate
  shifts positions and leaves labels; `GatesByLabel` relates the two.
* `GateInv` is the inductive invariant, per function: jumps stay inside the function and
  a check stands behind the syscall and comparison it belongs to (`BlocksShape`); the blocks
  the function came with keep their jumps (`JumpsKept`); each check is a gate's
  (`ChecksGate`), whose callee is visited and has no other (`GatedOnce`); each visited callee
  that needs one has a gate (`VisitedGated`); an `invoke` that is not at the end of its block
  is a gated one (`SplitsGated`).
* What makes it inductive is that the next call the pass cuts a block at is the call of no
  gate and in no gate's head (`SiteIsFree`): a gate's call is to a visited callee, and
  the scan passes those by. Hence a gate stays one when another is put in (`GateStays`),
  and exactly one is added (`GatesAfter`).
* `OneGateEach` also needs that at the end of the scan every call has been visited
  (`SitesAllVisited`): the scan always finds the first that has not.
* `BodyAlwaysKept` needs no more of the state than the types. `WithoutGates` and
  flattening both distribute over concatenation (`WithoutGatesShape`, `InstsShape`; by
  `Induction` over lengths, the recursive functions behind `SelectSeq` and
  `FlattenSeq` expanded), so that the step comes down to the three blocks of a gate:
  without the gate they are the block that was cut (`GateKeepsBody`).
* `TextStaysInPlace` (no property of a run) is what the pass has to keep so that running
  goes on as before. Of the text from each place on, gates taken out, `TextInv` says: from the
  start of a block the function came with it is what it was (`StartsKept`); a check
  goes where the same is still to come (`ChecksAgree`); an exit is in front of a call
  that gains privilege (`ExitsInFront`). `TextCarried` says where each place of the new
  blocks stems from and that it has the same text, for a cut in any block;
  the places of a gate all have the text of the call that was cut at (`TextInGate`).

**Running gates** (`GatedRunProofs`): from the same assumptions, for every bound on the stack,
every program and every answer of the kernel.

* `RunsInShape` (no property of a run; the others rest on it): each frame on the stack is
  at an instruction of a block of its function and waits just behind the call that made the
  frame above it. That a run comes to a gate's tail by its check only follows from
  `GateInv`: other jumps lead to blocks the function came with or are never executed.
* `DeniedIsNotEntered`: `RunInv` adds that `granted` speaks of the syscall just passed
  (`Asked`), and that at the start of a gate's tail the level is the callee's (`Inside`),
  which is the property.
* `CodeRunsAtItsLevel`: `RunsAtItsLevel` is not inductive, because a return finds what the
  caller is owed. `LevelInv` states what the level is at each instruction of the running
  frame: the function's own, except where `granted` is left over or fresh at a
  comparison or a check (there `Asked` says more), at a gate's call, where `Inside` says it
  is the callee's, and just behind it, where it is no less privileged than the callee. A
  return lands either there or behind a call that needed no gate, whose callee has the
  caller's level or no body (`CallsOf`, where `GatesSuffice` is used).
* `GatesAreTransparent`: `RunsAsWritten`, the refinement of `SourceRun`, for every program
  whether the gates suffice or not. It rests on `RunsInShape` (where the frames are), on
  `TextInv` and on `Idle` (the stack is empty until the pass is done). Compiling stutters. An
  instruction of a gate, its check included, leaves what is still to come as it is
  (`GateIsPassed`); a call, a branch and a return of the function's own are those
  of the source (`CallIsMade`, `BranchIsTaken`, `ReturnIsMade`), the branch because
  it leads to a block the function came with; the exit of a gate is `Refuse`
  (`ExitIsRefusal`).

**Linking modules** (`ModuleLinkerProofs`): for every number of levels, any set of sequences of
files of any length, any names, linkages, kinds and levels, every order the loops take names
in, from `NumLevelsAssumption` and `InputsAssumption` (a file has a form and holds a
module). All safety properties of the run are theorems.

* `LinkingInShape` is the inductive invariant, `LinkInv`. None of the properties is inductive:
  most only speak of the moment between two files. Its parts:
  `LinkType`, what is in the composite and the map; `MapInv` and `LoopInv`, what the two loops
  and the late functions have done with each name of the module, and that a name not in the
  map was linked to by nothing or may wait; `NameInv`, at most one global
  bears a name and what is seen from outside bears its own; `LinkageInv`, linkages are those of
  the modules, save where dllimport spoils them; `FromInv`, whose contents a global has and
  hence whose level (`Filled`), or that it waits for them (`Empty`); `SymbolInv`, that the
  choice so far is the static linker's among the modules seen so far (`Chosen`); `RefsInv`,
  that what a global mentions is, name by name, what its contents mention (`Resolves`);
  `FailedInv`, why linking failed.
* The actions are first reduced to effects: `Prototype` keeps a global, brings one over, appends,
  waits or fails (`PrototypeIs`), and each of these is a move of one name in the
  composite (`MoveEffect`, `Moved`); both loops over contents fill one global (`FillIs`). The
  invariant is then shown for each effect (`NameStep`, `MapStep`, `FromStep`, `RefsStep`,
  `SymbolStep`, `FailedStep`).
* `NothingDangles` is part of `LinkType`. `ChosenWithItsLevel`: between two files the
  modules seen are all modules, so that `Chosen` is about all definitions of the name, and a
  chosen definition has its contents since nothing is unfinished. `MentionsResolved`: of
  the globals of a name one at most is seen from outside, so `Resolves` in both directions
  leaves exactly it. `NothingIsHalfLinked`: nothing is `Empty` when no loop runs.
  `ConflictsFail`: two strong definitions could not both be the chosen one, and what
  `getLinkageResult` refuses to link are two.
* The proof found two mistakes: the model left an appended variable mentioning the one it
  replaced when that had mentioned itself, and the properties did not hold of names that are an
  appending variable here and a function there. `FailsOnConflict` has become stronger.

Only model-checked: `LossIsBounded`, and `Completes` and `ComesBack`, which are liveness under
fairness. The
prover does not do that. What a `RECURSIVE` operator computes, `ENABLED`, and induction with
an operator as parameter are out of its reach as well; nothing above depends on them.

## 5. Plan

Of the safety properties, action properties and refinements of the passing runs all but
`LossIsBounded` are theorems. Its invariant would say of every frame what `SinceGate` says of
the running one, since a return finds the level the callee left.

Left of the modelling: the composition of the three passes in one module. The pass
manager runs them in whatever order `opt` is given, and each is checked above on
every section the others can leave, so the composition would add the observation
that `PrivilegeSeparationOnModule` overwrites what tag propagation wrote. `PlacedByLevel`
says which section a function without annotation gets, as the code has it; that this
should rather be the inferred one is not said anywhere in the repository, so there is
nothing to check it against.

## 6. Not modelled

*In the modelled parts.* The status print of tag propagation and the debug prints
(output only). Debug locations, attributes and calling conventions of inserted calls
and of the exit function (no property depends on them). The values of instructions that are neither calls nor
terminators. Linkage, visibility, alignment and calling convention of what
`SectionPlacement` copies (`CloneFunction` keeps the first and none of the others);
metadata. The parts of the script that only list ordinary sections. Types, metadata,
module flags and inline assembly in `ModuleLinker`, and linkages that differ from a
modelled one in nothing the linker looks at (ODR variants, private, protected
visibility). The file system's own caches under `LockFile`, and Windows, where hard
links are not counted.

*The rest of LLVM.* The fork's own code is some 1000 lines; around it are a
million lines of LLVM as released. Most of that is compiler back ends, optimisations
and tables: functions on programs and numbers, sequential and without state that
outlives a call, for which a state machine says nothing that their regression tests
in `test/` do not. They are left out on purpose, component by component in
`PROJECT.json`, and the share of the repository's lines that is modelled is
accordingly small. Within LLVM the parts that do keep state between actors were
looked at: `LockFileManager` is modelled. `ManagedStatic` (double-checked creation,
whose correctness is a matter of the memory model and not of interleavings) and
`PassRegistry` (one reader-writer lock around each operation, though its readers may
create the implementation object) are not: threads are off in the tools unless they
ask for them, and nothing of privilege separation runs in more than one.
