---------------------------- MODULE SharedScript ----------------------------
(***************************************************************************)
(* Several compilations in one working directory, each of them writing its *)
(* script to the same "ps_link_script.ld".  A compilation opens the file,  *)
(* which truncates it, writes its statements in order at its own offset,   *)
(* Buffer of them at a time, and closes it; nothing is locked, and any     *)
(* number may do so at once (make -j).                                     *)
(***************************************************************************)
EXTENDS ScriptText

CONSTANTS
  Compilation,
  Buffer,    \* the statements a stream writes at once
  Nobody,    \* no compilation
  UsedLevels \* the levels a compilation may use, for functions and for globals

ASSUME CompilationAssumption ==
  /\ Buffer \in Nat \ {0}
  /\ Nobody \notin Compilation
  /\ UsedLevels \subseteq UsedSets \X UsedSets

VARIABLES
  own,      \* the script of each compilation; never changes
  state,    \* of each compilation: "idle", "open" or "closed"
  offset,   \* where in the file each writes next
  file,     \* what the file holds
  last,     \* the compilation that opened the file last, if any
  shared    \* whether the file was ever open twice at once

fileVars == <<own, state, offset, file, last, shared>>

(* What the file holds where nothing was written: null bytes.               *)
Hole == [op |-> "hole"]

-----------------------------------------------------------------------------
Init ==
  /\ own \in [Compilation -> { Script(u[1], u[2]) : u \in UsedLevels }]
  /\ state = [c \in Compilation |-> "idle"]
  /\ offset = [c \in Compilation |-> 1]
  /\ file = <<>>
  /\ last = Nobody
  /\ shared = FALSE

(* Mutation: an existing file is not truncated.                             *)
OpenInPlace(c) ==
  /\ state[c] = "idle"
  /\ state' = [state EXCEPT ![c] = "open"]
  /\ last' = c
  /\ shared' = (shared \/ \E d \in Compilation : state[d] = "open")
  /\ UNCHANGED <<own, offset, file>>

Open(c) ==
  /\ state[c] = "idle"
  /\ state' = [state EXCEPT ![c] = "open"]
  /\ file' = <<>>
  /\ last' = c
  /\ shared' = (shared \/ \E d \in Compilation : state[d] = "open")
  /\ UNCHANGED <<own, offset>>

(* What the file holds after s was written from position i on.              *)
Overwritten(i, s) ==
  [j \in 1 .. (IF i + Len(s) - 1 > Len(file) THEN i + Len(s) - 1 ELSE Len(file)) |->
     CASE j \in i .. i + Len(s) - 1 -> s[j - i + 1]
       [] j \notin i .. i + Len(s) - 1 /\ j \in DOMAIN file -> file[j]
       [] OTHER -> Hole]

(* The position after the next buffer of c.                                 *)
FlushEnd(c) ==
  IF offset[c] + Buffer > Len(own[c]) THEN Len(own[c]) + 1 ELSE offset[c] + Buffer

(* Mutation: every write goes to the end of the file.                       *)
WriteAtEnd(c) ==
  /\ state[c] = "open" /\ offset[c] <= Len(own[c])
  /\ file' = file \o SubSeq(own[c], offset[c], FlushEnd(c) - 1)
  /\ offset' = [offset EXCEPT ![c] = FlushEnd(c)]
  /\ UNCHANGED <<own, state, last, shared>>

(* Mutation: the offset is advanced before the write.                       *)
WriteAhead(c) ==
  /\ state[c] = "open" /\ offset[c] <= Len(own[c])
  /\ file' = Overwritten(FlushEnd(c), SubSeq(own[c], offset[c], FlushEnd(c) - 1))
  /\ offset' = [offset EXCEPT ![c] = FlushEnd(c)]
  /\ UNCHANGED <<own, state, last, shared>>

Write(c) ==
  /\ state[c] = "open" /\ offset[c] <= Len(own[c])
  /\ file' = Overwritten(offset[c], SubSeq(own[c], offset[c], FlushEnd(c) - 1))
  /\ offset' = [offset EXCEPT ![c] = FlushEnd(c)]
  /\ UNCHANGED <<own, state, last, shared>>

Close(c) ==
  /\ state[c] = "open" /\ offset[c] > Len(own[c])
  /\ state' = [state EXCEPT ![c] = "closed"]
  /\ UNCHANGED <<own, offset, file, last, shared>>

AllClosed == (\A c \in Compilation : state[c] = "closed")

Ended == AllClosed /\ UNCHANGED fileVars

Next == (\E c \in Compilation : Open(c) \/ Write(c) \/ Close(c)) \/ Ended

Spec == Init /\ [][Next]_fileVars

-----------------------------------------------------------------------------
(* Properties.                                                              *)

(* Compilations that never overlap leave the whole script of the one that   *)
(* opened the file last, with nothing of a longer one before it.            *)
LastScriptIfSequential ==
  ~shared /\ last # Nobody /\ state[last] = "closed" => file = own[last]

(* Compilations that use the same levels may overlap in any way: whenever   *)
(* the one that opened the file last has closed it, the file is whole,      *)
(* although it was truncated under the feet of the others.                  *)
WholeIfSameLevels ==
  /\ \A c, d \in Compilation : own[c] = own[d]
  /\ last # Nobody /\ state[last] = "closed"
  => file = own[last]

(* Whatever the overlap, what the last to open wrote is not lost to a hole: *)
(* up to the length of its script the file has statements, each of them at  *)
(* the place it has in the script it is from.                               *)
NoHoleInLastScript ==
  last # Nobody /\ state[last] = "closed" =>
    \A i \in DOMAIN own[last] :
      i \in DOMAIN file /\ \E c \in Compilation : i \in DOMAIN own[c] /\ file[i] = own[c][i]
=============================================================================
