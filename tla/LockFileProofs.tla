--------------------------- MODULE LockFileProofs ---------------------------
(***************************************************************************)
(* Theorems about LockFile, for any number of processes and hosts, any     *)
(* limits of the waiting and any number of crashes.                        *)
(***************************************************************************)
EXTENDS LockFile, TLAPS

(* TypeOK says how far the doublings count, not that they are numbers.      *)
TypeInv == TypeOK /\ tries \in [Process -> Nat]

LEMMA TypeInit == Init => TypeInv
<1> SUFFICES ASSUME Init PROVE TypeInv
  OBVIOUS
<1>1. \A p \in Process : tries[p] < (IF pc[p] = "pollFile" THEN ShortTries ELSE LongTries)
  BY TriesAssumption DEF Init
<1>2. pc \in [Process -> Control]
  BY DEF Init, Control
<1> QED  BY <1>1, <1>2 DEF Init, TypeInv, TypeOK

LEMMA LeaveType ==
  ASSUME TypeInv, NEW p \in Process, NEW l \in Control \ {"pollFile"}, Leave(p, l)
  PROVE  /\ pc' \in [Process -> Control]
         /\ owner' \in [Process -> Process \cup {None}]
         /\ tries' \in [Process -> Nat]
         /\ \A q \in Process :
              tries'[q] < (IF pc'[q] = "pollFile" THEN ShortTries ELSE LongTries)
  BY TriesAssumption DEF TypeInv, TypeOK, Leave, Goto

(* Sleeping again for the lock or for FILE, or giving up.                   *)
LEMMA RetryType ==
  ASSUME TypeInv, NEW p \in Process,
         \/ Retry(p, "pollLock", LongTries) \/ Retry(p, "pollFile", ShortTries)
  PROVE  /\ pc' \in [Process -> Control]
         /\ owner' \in [Process -> Process \cup {None}]
         /\ tries' \in [Process -> Nat]
         /\ \A q \in Process :
              tries'[q] < (IF pc'[q] = "pollFile" THEN ShortTries ELSE LongTries)
<1>1. CASE Leave(p, "idle")
  BY <1>1, LeaveType DEF Control
<1>2. CASE ~Leave(p, "idle")
  BY <1>2, TriesAssumption DEF TypeInv, TypeOK, Retry, Goto, Control, Waiting
<1> QED  BY <1>1, <1>2

LEMMA TypeStep == TypeInv /\ [Next]_vars => TypeInv'
<1> SUFFICES ASSUME TypeInv, [Next]_vars PROVE TypeInv'
  OBVIOUS
<1> USE TriesAssumption
<1>1. ASSUME NEW p \in Process, Construct(p) PROVE TypeInv'
  <2> USE DEF TypeInv, TypeOK, Control, Constructing, Waiting, Goto
  <2>1. CASE FirstRead(p) \/ SecondRead(p)
    BY <2>1 DEF FirstRead, SecondRead, ReadLock
  <2>2. CASE Discard(p) \/ Rediscard(p) \/ CleanUp(p)
    BY <2>2 DEF Discard, Rediscard, CleanUp, RemoveLock
  <2>3. CASE CreateUnique(p) \/ WriteUnique(p) \/ RemoveUnwritten(p)
    BY <2>3 DEF CreateUnique, WriteUnique, RemoveUnwritten
  <2>4. CASE Link(p)
    BY <2>4 DEF Link
  <2>5. CASE CountLinks(p) \/ WipeUnique(p)
    BY <2>5 DEF CountLinks, WipeUnique
  <2> QED  BY <1>1, <2>1, <2>2, <2>3, <2>4, <2>5 DEF Construct
<1>2. ASSUME NEW p \in Process, Start(p) \/ Build(p) \/ Unlock(p) \/ WaitForUnlock(p)
      PROVE  TypeInv'
  BY <1>2 DEF TypeInv, TypeOK, Control, Constructing, Waiting, Goto,
              Start, Build, Unlock, WaitForUnlock, RemoveLock
<1>3. ASSUME NEW p \in Process, RemoveUnique(p) \/ GoWithout(p) \/ Crash(p)
      PROVE  TypeInv'
  <2>1. PICK l \in {"idle", "dead"} : Leave(p, l)
    BY <1>3 DEF RemoveUnique, GoWithout, Crash
  <2>2. unique' \in [Process -> BOOLEAN] /\ UNCHANGED <<lock, built, robbed, statted>>
    BY <1>3 DEF RemoveUnique, GoWithout, Crash, TypeInv, TypeOK
  <2> QED  BY <2>1, <2>2, LeaveType DEF TypeInv, TypeOK, Control
<1>4. ASSUME NEW p \in Process, Wait(p) PROVE TypeInv'
  <2>1. CASE PollLock(p)
    BY <2>1 DEF PollLock, TypeInv, TypeOK, Control, Waiting, Goto
  <2>2. CASE PollOwner(p)
    BY <2>2, LeaveType, RetryType DEF PollOwner, TypeInv, TypeOK, Control
  <2>3. CASE PollGone(p)
    <3>1. CASE Leave(p, "idle")
      BY <2>3, <3>1, LeaveType DEF PollGone, TypeInv, TypeOK, Control
    <3>2. CASE ~Leave(p, "idle")
      BY <2>3, <3>2 DEF PollGone, TypeInv, TypeOK, Control, Waiting, Goto
    <3> QED  BY <3>1, <3>2
  <2>4. CASE PollFile(p)
    BY <2>4, LeaveType, RetryType DEF PollFile, TypeInv, TypeOK, Control
  <2> QED  BY <1>4, <2>1, <2>2, <2>3, <2>4 DEF Wait
<1>5. CASE UNCHANGED vars
  BY <1>5 DEF vars, TypeInv, TypeOK
<1> QED  BY <1>1, <1>2, <1>3, <1>4, <1>5 DEF Next

(* Type correctness of the lock protocol: in particular no process sleeps   *)
(* more often than the doubling of the interval allows.                     *)
THEOREM TypeCorrect == Spec => []TypeOK
<1>1. TypeInv => TypeOK
  BY DEF TypeInv
<1> QED  BY <1>1, TypeInit, TypeStep, PTL DEF Spec

-----------------------------------------------------------------------------
(* A process's unique file exists from its creation to the end of its       *)
(* ownership or of the attempt; that of a dead process may.                 *)
WithUnique == {"write", "full", "link", "stat", "wipe", "owned", "unlink"}

UniqueWhileTrying ==
  \A p \in Process :
    /\ pc[p] \in WithUnique => unique[p]
    /\ pc[p] \notin WithUnique \cup {"dead"} => ~unique[p]

(* FILE.lock is the link of a process that owns it, that has yet to find    *)
(* out that it does, or that is dead.                                       *)
LockOfOwner ==
  statted => \A p \in Process : lock = p => pc[p] \in {"stat", "owned", "dead"}

LockInv == UniqueWhileTrying /\ Exclusive /\ LockOfOwner

LEMMA LockInit == Init => LockInv
  BY NonProcessAssumption DEF Init, LockInv, UniqueWhileTrying, WithUnique, Exclusive, Holds, LockOfOwner

(* Removing FILE.lock takes it from an owner only when that is recorded.    *)
LEMMA RemoveLockStep ==
  ASSUME TypeOK, LockInv, NEW p \in Process,
         NEW l \in {"create", "cleanup", "error", "unlink"},
         pc[p] \in {"discard", "rediscard", "cleanup", "owned"},
         l = "unlink" <=> pc[p] = "owned",
         RemoveLock(p), Goto(p, l), UNCHANGED <<unique, statted>>
  PROVE  LockInv'
<1>1. \A q \in Process : q # p => pc'[q] = pc[q]
  BY DEF Goto, TypeOK
<1>2. pc'[p] = l
  BY DEF Goto, TypeOK
<1>3. UniqueWhileTrying'
  BY <1>1, <1>2 DEF UniqueWhileTrying, WithUnique, LockInv
<1>4. Exclusive'
  <2> SUFFICES ASSUME ~robbed', NEW q \in Process, pc'[q] = "owned" PROVE FALSE
    BY DEF Exclusive, Holds
  <2>1. q # p /\ pc[q] = "owned" /\ ~robbed
    BY <1>1, <1>2 DEF RemoveLock
  <2>2. lock = q
    BY <2>1 DEF LockInv, Exclusive, Holds
  <2> QED  BY <2>1, <2>2 DEF RemoveLock
<1>5. LockOfOwner'
  BY NonProcessAssumption DEF RemoveLock, LockOfOwner
<1> QED  BY <1>3, <1>4, <1>5 DEF LockInv

LEMMA LockStep == TypeOK /\ LockInv /\ [Next]_vars => LockInv'
<1> SUFFICES ASSUME TypeOK, LockInv, [Next]_vars PROVE LockInv'
  OBVIOUS
<1> USE DEF LockInv, UniqueWhileTrying, WithUnique, Exclusive, Holds, LockOfOwner
<1>1. ASSUME NEW p \in Process, Construct(p) PROVE LockInv'
  <2>1. CASE FirstRead(p) \/ SecondRead(p)
    BY <2>1 DEF FirstRead, SecondRead, ReadLock, Goto, TypeOK
  <2>2. CASE Discard(p) \/ Rediscard(p) \/ CleanUp(p)
    BY <2>2, RemoveLockStep DEF Discard, Rediscard, CleanUp
  <2>3. CASE CreateUnique(p) \/ WriteUnique(p) \/ RemoveUnwritten(p)
    BY <2>3 DEF CreateUnique, WriteUnique, RemoveUnwritten, Goto, TypeOK
  <2>4. CASE Link(p)
    <3>1. CASE lock = None /\ lock' = p
      BY <2>4, <3>1, NonProcessAssumption DEF Link, Goto, TypeOK
    <3>2. CASE UNCHANGED lock
      BY <2>4, <3>2, NonProcessAssumption DEF Link, Goto, TypeOK
    <3> QED  BY <2>4, <3>1, <3>2 DEF Link
  <2>5. CASE CountLinks(p)
    BY <2>5 DEF CountLinks, Goto, TypeOK
  <2>6. CASE WipeUnique(p)
    BY <2>6 DEF WipeUnique, Goto, TypeOK
  <2> QED  BY <1>1, <2>1, <2>2, <2>3, <2>4, <2>5, <2>6 DEF Construct
<1>2. ASSUME NEW p \in Process, Unlock(p) PROVE LockInv'
  BY <1>2, RemoveLockStep DEF Unlock
<1>3. ASSUME NEW p \in Process, Start(p) \/ Build(p) \/ WaitForUnlock(p) PROVE LockInv'
  BY <1>3 DEF Start, Build, WaitForUnlock, Goto, TypeOK
<1>4. ASSUME NEW p \in Process, RemoveUnique(p) PROVE LockInv'
  BY <1>4 DEF RemoveUnique, Leave, Goto, TypeOK
<1>5. ASSUME NEW p \in Process, GoWithout(p) \/ Crash(p) PROVE LockInv'
  BY <1>5 DEF GoWithout, Crash, Leave, Goto, TypeOK
<1>6. ASSUME NEW p \in Process, Wait(p) PROVE LockInv'
  BY <1>6 DEF Wait, PollLock, PollOwner, PollGone, PollFile, Retry, Leave, Goto, Waiting, TypeOK
<1>7. CASE UNCHANGED vars
  BY <1>7 DEF vars
<1> QED  BY <1>1, <1>2, <1>3, <1>4, <1>5, <1>6, <1>7 DEF Next

(* As long as no process takes the lock of a live owner for nobody's, the   *)
(* lock file is the link of the one process that owns it.                   *)
THEOREM LockIsExclusive == Spec => []Exclusive
<1>1. LockInv => Exclusive
  BY DEF LockInv
<1> QED  BY <1>1, TypeCorrect, LockInit, LockStep, PTL DEF Spec

(* Unless a stat fails, no process that has left the manager leaves a file  *)
(* behind, whatever was robbed of it and whoever crashed.                   *)
THEOREM NothingLeftBehind == Spec => []NoLitter
<1>1. LockInv => NoLitter
  BY DEF LockInv, UniqueWhileTrying, WithUnique, LockOfOwner, NoLitter, Waiting
<1> QED  BY <1>1, TypeCorrect, LockInit, LockStep, PTL DEF Spec
=============================================================================
