----------------------------- MODULE ScriptText -----------------------------
(***************************************************************************)
(* The linker script PrivilegeSeparationOnModule::generateLinkScript       *)
(* writes, as a sequence of statements.  The sections that belong to no    *)
(* level are reduced to the one before each group of levels (".text",      *)
(* ".data") and the one after it (".fini" and ".data1" stand for all that  *)
(* follow).                                                                *)
(***************************************************************************)
EXTENDS Integers, SequencesExt

CONSTANTS
  NumLevels,   \* NUM_OF_LEVELS
  Page         \* COMMONPAGESIZE, and the 0x1000 of the script

ASSUME PageAssumption == NumLevels \in Nat \ {0} /\ Page \in Nat \ {0}

Level == 0 .. NumLevels - 1

LeastPrivileged == NumLevels - 1

Fun(l) == <<"fun_ps", l>>
Dat(l) == <<"dat_ps", l>>

FunSection == { Fun(l) : l \in Level }
DatSection == { Dat(l) : l \in Level }

Section == {<<".text">>, <<".fini">>, <<".data">>, <<".data1">>} \cup FunSection \cup DatSection

-----------------------------------------------------------------------------
(* Statements:  . = . + n;   a section and its segment;   . = . + Page -    *)
(* SIZEOF(s);   DATA_SEGMENT_ALIGN;   an entry of PHDRS.                    *)
Advance(n)     == [op |-> "advance", by |-> n]
Output(s, seg) == [op |-> "section", section |-> s, segment |-> seg]
PadAfter(s)    == [op |-> "pad", section |-> s]
DataSegment    == [op |-> "align"]
Phdr(seg)      == [op |-> "phdr", segment |-> seg]

Text == <<"text">>
Data == <<"data">>

(* The body of a loop, for each used level in turn.                         *)
ForLevels(used, body) ==
  FlattenSeq([i \in 1 .. NumLevels |-> IF i - 1 \in used THEN body[i - 1] ELSE <<>>])

(* Mutation: the gap is left out.                                           *)
FunLevelNoGap(l) == <<Output(Fun(l), Fun(l))>>

FunLevel(l) == <<Advance(Page), Output(Fun(l), Fun(l))>>
DatLevel(l) == <<Advance(Page), Output(Dat(l), Dat(l))>>

FunPhdr(l) == <<Phdr(Fun(l))>>
DatPhdr(l) == <<Phdr(Dat(l))>>

(* last_i after the loop.                                                   *)
LastLevel(used) == Max(used)

(* Mutation: the entries of PHDRS are all made from isItUsedVar.            *)
SegmentsOfVar(usedFun, usedVar) ==
  <<Phdr(Text)>> \o ForLevels(usedVar, [l \in Level |-> FunPhdr(l)])
  \o <<Phdr(Data)>> \o ForLevels(usedVar, [l \in Level |-> DatPhdr(l)])

Segments(usedFun, usedVar) ==
  <<Phdr(Text)>> \o ForLevels(usedFun, [l \in Level |-> FunPhdr(l)])
  \o <<Phdr(Data)>> \o ForLevels(usedVar, [l \in Level |-> DatPhdr(l)])

(* Mutation: the offset in before_data is left out.                         *)
BeforeDataNoOffset == <<Output(<<".fini">>, Text), DataSegment, Output(<<".data">>, Data)>>

BeforeData ==
  <<Advance(2 * Page), Output(<<".fini">>, Text), DataSegment, Output(<<".data">>, Data)>>

Script(usedFun, usedVar) ==
  <<Output(<<".text">>, Text)>>
  \o ForLevels(usedFun, [l \in Level |-> FunLevel(l)])
  \o <<PadAfter(Fun(LastLevel(usedFun)))>>
  \o BeforeData
  \o ForLevels(usedVar, [l \in Level |-> DatLevel(l)])
  \o <<PadAfter(Dat(LastLevel(usedVar))), Output(<<".data1">>, Data)>>
  \o Segments(usedFun, usedVar)

(* The bit sets the pass ends with: the last level is always in.            *)
UsedSets == { U \in SUBSET Level : LeastPrivileged \in U }
=============================================================================
