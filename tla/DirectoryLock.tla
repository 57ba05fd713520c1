--------------------------- MODULE DirectoryLock ---------------------------
(***************************************************************************)
(* CacheDirectoryLock (src/compiler/object_cache.cpp), the lock that       *)
(* serialises the writers of caches and workspace libraries across         *)
(* processes.  A lock is a directory made with create_directory that       *)
(* holds an "owner" file naming a process and a token; the directory of an *)
(* owner that is gone is renamed to a quarantine and deleted.              *)
(*                                                                         *)
(* A contender is one thread that locks, works and unlocks; several may    *)
(* share a process.  A process that crashed stays crashed.  One action is  *)
(* one access to the file system.                                          *)
(***************************************************************************)
EXTENDS Naturals

CONSTANTS
  Contenders,    (* the threads that use the lock                          *)
  Processes,
  ProcessOf,     (* the process of a contender                             *)
  MaxAttempts,   (* bound on the locks a contender constructs              *)
  Faults,        (* what may go wrong: "crash" and "io"                    *)
  MaxFaults      (* bound on how often                                     *)

ASSUME ProcessAssumption == ProcessOf \in [Contenders -> Processes]
ASSUME AttemptAssumption == MaxAttempts \in [Contenders -> Nat]

VARIABLES
  lock,         (* the directory at the lock's path                         *)
  quarantine,   (* a contender's path.stale.<token> directory              *)
  pc,           (* where a contender is                                    *)
  attempts,     (* new_lock_token: the contender's current serial          *)
  original,     (* recover_stale_lock: original_owner                      *)
  active,       (* ActiveLocks::tokens                                     *)
  alive,        (* the processes that run                                  *)
  faults        (* the faults so far                                       *)

lockVars == <<lock, quarantine, pc, attempts, original, active, alive, faults>>

TokenOf(c) == <<c, attempts[c]>>
PidOf(token) == ProcessOf[token[1]]

(* A directory without an owner file, with one that cannot be read, or     *)
(* with a readable one; read_owner of the first two is std::nullopt.       *)
NoToken == <<>>
Owned(token) == [state |-> "owned", owner |-> token]
Bare(state) == [state |-> state, owner |-> NoToken]
Absent == Bare("absent")
Empty == Bare("empty")
Malformed == Bare("malformed")

LockInit ==
  /\ lock = Absent
  /\ quarantine = [c \in Contenders |-> Absent]
  /\ pc = [c \in Contenders |-> "idle"]
  /\ attempts = [c \in Contenders |-> 0]
  /\ original = [c \in Contenders |-> NoToken]
  /\ active = {}
  /\ alive = Processes
  /\ faults = 0

Fault(kind) == /\ kind \in Faults
               /\ faults < MaxFaults
               /\ faults' = faults + 1

Goto(c, point) == pc' = [pc EXCEPT ![c] = point]
Forget(c) == original' = [original EXCEPT ![c] = NoToken]

-----------------------------------------------------------------------------
(***************************************************************************)
(* The constructor.                                                        *)
(***************************************************************************)
Construct(c) ==
  /\ pc[c] = "idle" /\ attempts[c] < MaxAttempts[c]
  /\ attempts' = [attempts EXCEPT ![c] = @ + 1]
  /\ Goto(c, "create")
  /\ UNCHANGED <<lock, quarantine, original, active, alive, faults>>

(* create_directory, and register_active_lock before the owner is written. *)
TryCreate(c) ==
  /\ pc[c] = "create"
  /\ IF lock = Absent
     THEN /\ lock' = Empty /\ active' = active \cup {TokenOf(c)}
          /\ Goto(c, "publish")
     ELSE Goto(c, "read") /\ UNCHANGED <<lock, active>>
  /\ UNCHANGED <<quarantine, attempts, original, alive, faults>>

(* Any other error of create_directory ends the constructor.               *)
CreateError(c) ==
  /\ pc[c] = "create" /\ Goto(c, "idle")
  /\ UNCHANGED <<lock, quarantine, attempts, original, active, alive, faults>>

(* write_owner_exclusive opens with O_EXCL: it fails when the directory is *)
(* gone or has an owner file.                                              *)
Publish(c) ==
  /\ pc[c] = "publish"
  /\ IF lock = Empty
     THEN lock' = Owned(TokenOf(c)) /\ Goto(c, "held") /\ UNCHANGED active
     ELSE /\ Goto(c, "idle") /\ active' = active \ {TokenOf(c)}
          /\ UNCHANGED lock
  /\ UNCHANGED <<quarantine, attempts, original, alive, faults>>

(* The write or its fsync fails.  The directory is removed only if it has  *)
(* this contender's owner file; otherwise it stays, without a readable     *)
(* owner.                                                                  *)
PublishFails(c) ==
  /\ pc[c] = "publish" /\ lock = Empty /\ Fault("io")
  /\ lock' \in {Empty, Malformed, Absent}
  /\ Goto(c, "idle") /\ active' = active \ {TokenOf(c)}
  /\ UNCHANGED <<quarantine, attempts, original, alive>>

-----------------------------------------------------------------------------
(***************************************************************************)
(* recover_stale_lock.                                                     *)
(***************************************************************************)
ReadOriginal(c) ==
  /\ pc[c] = "read"
  /\ original' = [original EXCEPT ![c] = lock.owner]
  /\ Goto(c, "judge")
  /\ UNCHANGED <<lock, quarantine, attempts, active, alive, faults>>

(* An owner of this process is stale when its lock is no longer active, an *)
(* owner of another process when that process is gone.                     *)
OwnerStale(c, token) ==
  IF PidOf(token) = ProcessOf[c] THEN token \notin active
  ELSE PidOf(token) \notin alive

(* old_enough: a live process takes far less than stale_after between      *)
(* making or emptying the directory and its next step.                     *)
OldEnough == /\ lock \in {Empty, Malformed}
             /\ \A c \in Contenders : pc[c] \notin {"publish", "remove_dir"}

StaleLock(c) == IF lock.owner = NoToken THEN OldEnough
                ELSE OwnerStale(c, lock.owner)

Judge(c) ==
  /\ pc[c] = "judge"
  /\ IF StaleLock(c) THEN Goto(c, "rename") /\ UNCHANGED original
     ELSE Goto(c, "poll") /\ Forget(c)
  /\ UNCHANGED <<lock, quarantine, attempts, active, alive, faults>>

(* The rename fails when the directory is gone.                            *)
Quarantine(c) ==
  /\ pc[c] = "rename"
  /\ IF lock = Absent
     THEN Goto(c, "poll") /\ Forget(c) /\ UNCHANGED <<lock, quarantine>>
     ELSE /\ quarantine' = [quarantine EXCEPT ![c] = lock]
          /\ lock' = Absent /\ Goto(c, "compare") /\ UNCHANGED original
  /\ UNCHANGED <<attempts, active, alive, faults>>

(* Faulty variant: what was renamed is not compared.                       *)
SameOwnerAssumed(c) == TRUE

SameOwner(c) == original[c] = quarantine[c].owner

Discard(c) ==
  /\ pc[c] = "compare" /\ SameOwner(c)
  /\ quarantine' = [quarantine EXCEPT ![c] = Absent]
  /\ Goto(c, "create") /\ Forget(c)
  /\ UNCHANGED <<lock, attempts, active, alive, faults>>

(* The directory is renamed back, which succeeds when nothing or an empty  *)
(* directory took its place.                                               *)
Restore(c) ==
  /\ pc[c] = "compare" /\ ~SameOwner(c)
  /\ IF lock \in {Absent, Empty}
     THEN /\ lock' = quarantine[c]
          /\ quarantine' = [quarantine EXCEPT ![c] = Absent]
     ELSE UNCHANGED <<lock, quarantine>>
  /\ Goto(c, "poll") /\ Forget(c)
  /\ UNCHANGED <<attempts, active, alive, faults>>

(* The deadline has passed, or the lock is polled again.                   *)
TimedOut(c) ==
  /\ pc[c] = "poll" /\ Goto(c, "idle")
  /\ UNCHANGED <<lock, quarantine, attempts, original, active, alive, faults>>

PollAgain(c) ==
  /\ pc[c] = "poll" /\ Goto(c, "create")
  /\ UNCHANGED <<lock, quarantine, attempts, original, active, alive, faults>>

-----------------------------------------------------------------------------
(***************************************************************************)
(* The destructor: each removal names the path, whatever is there by then, *)
(* and a removal the system refuses is not tried again.                    *)
(***************************************************************************)
Release(c) ==
  /\ pc[c] = "held"
  /\ IF lock.owner = TokenOf(c)
     THEN Goto(c, "remove_owner") /\ UNCHANGED active
     ELSE Goto(c, "idle") /\ active' = active \ {TokenOf(c)}
  /\ UNCHANGED <<lock, quarantine, attempts, original, alive, faults>>

RemoveOwner(c) ==
  /\ pc[c] = "remove_owner" /\ Goto(c, "remove_dir")
  /\ \/ lock' = (IF lock = Absent THEN lock ELSE Empty) /\ UNCHANGED faults
     \/ lock' = lock /\ Fault("io")
  /\ UNCHANGED <<quarantine, attempts, original, active, alive>>

RemoveDir(c) ==
  /\ pc[c] = "remove_dir" /\ Goto(c, "idle")
  /\ lock' = IF lock = Empty THEN Absent ELSE lock
  /\ active' = active \ {TokenOf(c)}
  /\ UNCHANGED <<quarantine, attempts, original, alive, faults>>

Crash(p) ==
  /\ p \in alive /\ Fault("crash")
  /\ alive' = alive \ {p}
  /\ pc' = [c \in Contenders |-> IF ProcessOf[c] = p THEN "crashed" ELSE pc[c]]
  /\ original' = [c \in Contenders |-> IF ProcessOf[c] = p THEN NoToken
                                       ELSE original[c]]
  /\ active' = {token \in active : PidOf(token) # p}
  /\ UNCHANGED <<lock, quarantine, attempts>>

-----------------------------------------------------------------------------
(***************************************************************************)
(* The specification.                                                      *)
(***************************************************************************)
(* Everything but the decisions to lock and to release.                    *)
LockStep(c) ==
  \/ TryCreate(c) \/ CreateError(c) \/ Publish(c)
  \/ PublishFails(c) \/ ReadOriginal(c) \/ Judge(c) \/ Quarantine(c)
  \/ Discard(c) \/ Restore(c) \/ TimedOut(c) \/ PollAgain(c)
  \/ RemoveOwner(c) \/ RemoveDir(c)

LockNext == \/ \E c \in Contenders : Construct(c) \/ LockStep(c) \/ Release(c)
            \/ \E p \in Processes : Crash(p)

LockSpec == LockInit /\ [][LockNext]_lockVars

-----------------------------------------------------------------------------
(***************************************************************************)
(* Properties.                                                             *)
(***************************************************************************)
(* The lock serialises its holders: no two live contenders are between the *)
(* end of the constructor and the start of the destructor.                 *)
MutualExclusion ==
  \A c, d \in Contenders : pc[c] = "held" /\ pc[d] = "held" => c = d

(* "Age alone never permits stealing a lock whose recorded local process   *)
(* is still alive": the directory that recovery deletes names an owner     *)
(* whose process is gone, or whose lock is over.                           *)
RecoveryDeletesOnlyStaleLocks ==
  [][\A c \in Contenders : Discard(c) /\ quarantine[c].owner # NoToken =>
       LET token == quarantine[c].owner
       IN PidOf(token) \notin alive \/ token \notin active]_lockVars
=============================================================================
