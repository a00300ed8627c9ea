------------------------------ MODULE LockFile ------------------------------
(***************************************************************************)
(* LockFileManager: processes that agree by a file FILE.lock on who of     *)
(* them makes FILE.  A process writes its host and process id to a file    *)
(* with a name of its own and makes FILE.lock a hard link to it, which the *)
(* file system lets only one of them do; the others wait for FILE.lock to  *)
(* go away.                                                                *)
(*                                                                         *)
(* The file system is not in the repository: a file is removed, linked,    *)
(* looked for and read in one step, and any of these calls may fail where  *)
(* the code looks at the result.  The clients are those the class is meant *)
(* for: an owner makes FILE and destroys the manager, the others wait or   *)
(* go on without, and any of them may lock again.                          *)
(***************************************************************************)
EXTENDS Naturals, FiniteSets

CONSTANTS
  Process,     \* the processes; a crashed one does not come back
  HostOf,      \* the host each of them runs on
  None,        \* there is no lock file, or no owner
  Garbage,     \* a lock file in which no process id can be read
  LongTries,   \* sleeps of 1, 2, 4 ... ms before one reaches 300 s: 19
  ShortTries,  \* sleeps before one reaches 5 s: 13
  MaxCrashes   \* the bound on how many processes crash

ASSUME NonProcessAssumption == None \notin Process /\ Garbage \notin Process /\ None # Garbage
ASSUME TriesAssumption == LongTries \in Nat \ {0} /\ ShortTries \in Nat \ {0}
ASSUME MaxCrashesAssumption == MaxCrashes \in Nat

VARIABLES
  pc,      \* where each process is in the manager's constructor or in waitForUnlock
  lock,    \* whose unique file FILE.lock is a link to, Garbage or None
  unique,  \* whether the unique file of each process exists
  owner,   \* Owner: who a process was told holds the lock
  tries,   \* how often it has doubled its waiting interval
  built,   \* whether FILE exists
  robbed,  \* history: a process has removed the lock of a live process that holds it
  statted  \* history: no stat of a unique file with two names has failed

vars == <<pc, lock, unique, owner, tries, built, robbed, statted>>

Constructing == {"read", "discard", "create", "write", "full", "link", "stat", "wipe",
                 "reread", "rediscard", "cleanup"}
Waiting == {"pollLock", "pollOwner", "pollGone", "pollFile"}
Control == {"idle", "owned", "unlink", "shared", "error", "dead"} \cup Constructing \cup Waiting

Goto(p, l) == pc' = [pc EXCEPT ![p] = l]

(* The manager, with its Owner, and the locals of its functions are gone.   *)
Leave(p, l) ==
  /\ Goto(p, l)
  /\ owner' = [owner EXCEPT ![p] = None]
  /\ tries' = [tries EXCEPT ![p] = 0]

Init ==
  /\ pc = [p \in Process |-> "idle"]
  /\ lock \in {None, Garbage}
  /\ unique = [p \in Process |-> FALSE]
  /\ owner = [p \in Process |-> None]
  /\ tries = [p \in Process |-> 0]
  /\ built = FALSE
  /\ robbed = FALSE
  /\ statted = TRUE

-----------------------------------------------------------------------------
(* The constructor.                                                         *)

Start(p) ==
  /\ pc[p] = "idle"
  /\ Goto(p, "read")
  /\ UNCHANGED <<lock, unique, owner, tries, built, robbed, statted>>

(* readLockFile: an owner, nothing (there is none, or it cannot be read),   *)
(* or contents that make no sense, to be removed.  A dead owner counts.     *)
ReadLock(p, nobody, invalid) ==
  /\ \/ /\ lock \in Process
        /\ owner' = [owner EXCEPT ![p] = lock]
        /\ Goto(p, "shared")
     \/ Goto(p, nobody) /\ UNCHANGED owner
     \/ lock = Garbage /\ Goto(p, invalid) /\ UNCHANGED owner
  /\ UNCHANGED <<lock, unique, tries, built, robbed, statted>>

(* FILE.lock is removed by its name: whatever it is by now.                 *)
RemoveLock(p) ==
  /\ lock' = None
  /\ robbed' = (robbed \/ (lock \in Process \ {p} /\ pc[lock] # "dead"))

FirstRead(p) == pc[p] = "read" /\ ReadLock(p, "create", "discard")

Discard(p) ==
  /\ pc[p] = "discard"
  /\ RemoveLock(p)
  /\ Goto(p, "create")
  /\ UNCHANGED <<unique, owner, tries, built, statted>>

CreateUnique(p) ==
  /\ pc[p] = "create"
  /\ \/ Goto(p, "write") /\ unique' = [unique EXCEPT ![p] = TRUE]
     \/ Goto(p, "error") /\ UNCHANGED unique
  /\ UNCHANGED <<lock, owner, tries, built, robbed, statted>>

(* The host and the process id, unless the disk is full.                    *)
WriteUnique(p) ==
  /\ pc[p] = "write"
  /\ Goto(p, "link") \/ Goto(p, "full")
  /\ UNCHANGED <<lock, unique, owner, tries, built, robbed, statted>>

RemoveUnwritten(p) ==
  /\ pc[p] = "full"
  /\ unique' = [unique EXCEPT ![p] = FALSE]
  /\ Goto(p, "error")
  /\ UNCHANGED <<lock, owner, tries, built, robbed, statted>>

(* Mutation: linking replaces a lock that is there.                         *)
LinkReplaces(p) ==
  /\ pc[p] = "link"
  /\ lock' = p /\ Goto(p, "owned")
  /\ UNCHANGED <<unique, owner, tries, built, robbed, statted>>

(* Linking fails when FILE.lock is there and on a file system without hard  *)
(* links; it may also succeed and be reported as failed.                    *)
Link(p) ==
  /\ pc[p] = "link"
  /\ \/ lock = None /\ lock' = p /\ (Goto(p, "owned") \/ Goto(p, "stat"))
     \/ UNCHANGED lock /\ Goto(p, "stat")
  /\ UNCHANGED <<unique, owner, tries, built, robbed, statted>>

(* Mutation: the number of names is not looked at.                          *)
CountLinksForgotten(p) ==
  /\ pc[p] = "stat"
  /\ Goto(p, "wipe")
  /\ UNCHANGED <<lock, unique, owner, tries, built, robbed, statted>>

(* The unique file has two names only when FILE.lock is one of them.        *)
CountLinks(p) ==
  /\ pc[p] = "stat"
  /\ \/ lock = p /\ Goto(p, "owned") /\ UNCHANGED statted
     \/ statted' = (statted /\ lock # p) /\ Goto(p, "wipe")
  /\ UNCHANGED <<lock, unique, owner, tries, built, robbed>>

(* If not, it is of no use.                                                 *)
WipeUnique(p) ==
  /\ pc[p] = "wipe"
  /\ unique' = [unique EXCEPT ![p] = FALSE]
  /\ Goto(p, "reread")
  /\ UNCHANGED <<lock, owner, tries, built, robbed, statted>>

SecondRead(p) == pc[p] = "reread" /\ ReadLock(p, "cleanup", "rediscard")

Rediscard(p) ==
  /\ pc[p] = "rediscard"
  /\ RemoveLock(p)
  /\ Goto(p, "cleanup")
  /\ UNCHANGED <<unique, owner, tries, built, statted>>

CleanUp(p) ==
  /\ pc[p] = "cleanup"
  /\ RemoveLock(p)
  /\ Goto(p, "error")
  /\ UNCHANGED <<unique, owner, tries, built, statted>>

-----------------------------------------------------------------------------
(* The owner, the destructor, and who has not got the lock.                 *)

Build(p) ==
  /\ pc[p] = "owned" /\ ~built
  /\ built' = TRUE
  /\ UNCHANGED <<pc, lock, unique, owner, tries, robbed, statted>>

Unlock(p) ==
  /\ pc[p] = "owned"
  /\ RemoveLock(p)
  /\ Goto(p, "unlink")
  /\ UNCHANGED <<unique, owner, tries, built, statted>>

RemoveUnique(p) ==
  /\ pc[p] = "unlink"
  /\ unique' = [unique EXCEPT ![p] = FALSE]
  /\ Leave(p, "idle")
  /\ UNCHANGED <<lock, built, robbed, statted>>

GoWithout(p) ==
  /\ pc[p] \in {"shared", "error"}
  /\ Leave(p, "idle")
  /\ UNCHANGED <<lock, unique, built, robbed, statted>>

-----------------------------------------------------------------------------
(* waitForUnlock.  A file that cannot be looked for is taken to be as it    *)
(* was: the lock there, FILE missing.                                       *)

WaitForUnlock(p) ==
  /\ pc[p] = "shared"
  /\ Goto(p, "pollLock")
  /\ UNCHANGED <<lock, unique, owner, tries, built, robbed, statted>>

PollLock(p) ==
  /\ pc[p] = "pollLock"
  /\ Goto(p, "pollOwner") \/ (lock = None /\ Goto(p, "pollGone"))
  /\ UNCHANGED <<lock, unique, owner, tries, built, robbed, statted>>

(* processStillExecuting: who runs on another host is taken to be alive.    *)
StillExecuting(p, q) == pc[q] = "dead" => HostOf[q] # HostOf[p]

(* Mutation: one sleep too many.                                            *)
RetryOnceMore(p, poll, limit) ==
  \/ /\ tries[p] < limit
     /\ tries' = [tries EXCEPT ![p] = @ + 1]
     /\ Goto(p, poll) /\ UNCHANGED owner
  \/ tries[p] >= limit /\ Leave(p, "idle")

(* Mutation: it sleeps the same time again and again.                       *)
RetryAsBefore(p, poll, limit) == Goto(p, poll) /\ UNCHANGED <<owner, tries>>

(* Sleep twice as long next time, unless that is the limit.                 *)
Retry(p, poll, limit) ==
  \/ /\ tries[p] + 1 < limit
     /\ tries' = [tries EXCEPT ![p] = @ + 1]
     /\ Goto(p, poll) /\ UNCHANGED owner
  \/ tries[p] + 1 >= limit /\ Leave(p, "idle")

(* Mutation: whether the owner is alive is not asked.                       *)
PollOwnerUnasked(p) ==
  /\ pc[p] = "pollOwner"
  /\ Retry(p, "pollLock", LongTries)
  /\ UNCHANGED <<lock, unique, built, robbed, statted>>

PollOwner(p) ==
  /\ pc[p] = "pollOwner"
  /\ IF StillExecuting(p, owner[p])
       THEN Retry(p, "pollLock", LongTries)
       ELSE Leave(p, "idle")
  /\ UNCHANGED <<lock, unique, built, robbed, statted>>

(* The lock has just gone: the waiting starts over, now for FILE.           *)
PollGone(p) ==
  /\ pc[p] = "pollGone"
  /\ \/ built /\ Leave(p, "idle")
     \/ tries' = [tries EXCEPT ![p] = 0] /\ Goto(p, "pollFile") /\ UNCHANGED owner
  /\ UNCHANGED <<lock, unique, built, robbed, statted>>

PollFile(p) ==
  /\ pc[p] = "pollFile"
  /\ (built /\ Leave(p, "idle")) \/ Retry(p, "pollFile", ShortTries)
  /\ UNCHANGED <<lock, unique, built, robbed, statted>>

-----------------------------------------------------------------------------
(* A process may be killed anywhere; its files stay.                        *)
Crash(p) ==
  /\ pc[p] \notin {"idle", "dead"}
  /\ Cardinality({ q \in Process : pc[q] = "dead" }) < MaxCrashes
  /\ Leave(p, "dead")
  /\ UNCHANGED <<lock, unique, built, robbed, statted>>

Construct(p) ==
  \/ FirstRead(p) \/ Discard(p)
  \/ CreateUnique(p) \/ WriteUnique(p) \/ RemoveUnwritten(p)
  \/ Link(p) \/ CountLinks(p) \/ WipeUnique(p)
  \/ SecondRead(p) \/ Rediscard(p) \/ CleanUp(p)

Wait(p) == PollLock(p) \/ PollOwner(p) \/ PollGone(p) \/ PollFile(p)

Next ==
  \E p \in Process :
    \/ Start(p) \/ Construct(p)
    \/ Build(p) \/ Unlock(p) \/ RemoveUnique(p)
    \/ WaitForUnlock(p) \/ Wait(p) \/ GoWithout(p)
    \/ Crash(p)

(* A process that is inside the manager is scheduled; that a client starts, *)
(* waits, builds or unlocks is not required.                                *)
Spec ==
  /\ Init /\ [][Next]_vars
  /\ \A p \in Process : WF_vars(Construct(p) \/ Wait(p))

-----------------------------------------------------------------------------
(* Properties.                                                              *)

(* The type invariant of the lock protocol's state.                         *)
TypeOK ==
  /\ pc \in [Process -> Control]
  /\ lock \in Process \cup {None, Garbage}
  /\ unique \in [Process -> BOOLEAN]
  /\ owner \in [Process -> Process \cup {None}]
  /\ \A p \in Process : tries[p] < (IF pc[p] = "pollFile" THEN ShortTries ELSE LongTries)
  /\ built \in BOOLEAN /\ robbed \in BOOLEAN /\ statted \in BOOLEAN

Holds(p) == pc[p] = "owned"

(* Two processes own the lock only after one of them has lost it to the     *)
(* removal of a lock somebody else read as nobody's: whatever else fails or *)
(* crashes, FILE.lock is a link to the file of its one owner.               *)
Exclusive == ~robbed => \A p \in Process : Holds(p) => lock = p /\ unique[p]

(* A process that has left the manager leaves no file behind, neither its   *)
(* unique file nor a lock: not after an error, a disk that was full, a link *)
(* reported as failed, or a lost lock.  Only a failing stat can spoil that. *)
NoLitter ==
  statted => \A p \in Process :
    pc[p] \in {"idle", "shared", "error"} \cup Waiting => ~unique[p] /\ lock # p

(* Constructing a manager and waiting for a lock come to an end for every   *)
(* process that lives, whatever the others do: owners that never unlock,    *)
(* locks that come and go, owners that died on another host.  If the owner  *)
(* it was told died on its own host, it comes back without another sleep or *)
(* waits for FILE only: it does not double its interval while that is so.   *)
ComesBack ==
  /\ \A p \in Process : []<>(pc[p] \notin Constructing \cup Waiting)
  /\ [][\A p \in Process :
          pc[p] \in {"pollLock", "pollOwner"} /\ ~StillExecuting(p, owner[p])
            => tries'[p] <= tries[p]]_vars
=============================================================================
