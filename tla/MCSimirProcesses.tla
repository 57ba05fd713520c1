-------------------------- MODULE MCSimirProcesses --------------------------
(* Designs of two processes and up to two forked ones.                     *)
EXTENDS SimirSynchronization

(* Forks, joins, disables and the process handles' methods.  A process     *)
(* that a disable reaches waits at delays, forks and wait forks.           *)
Families == [p \in Processes |->
  CASE p = 1 -> {"fork", "detach", "wait_fork", "disable_fork", "block", "disable"}
    [] p = 2 -> {"kill", "suspend", "await"}
    [] p = 3 -> {"fork", "delay", "suspendable"}
    [] p = 4 -> {"delay", "block", "disable"}]

(* Two branches with a block, one of which disables it.                    *)
Blocks == [p \in Processes |->
  CASE p = 1 -> {"fork", "block", "delay", "suspendable"}
    [] p = 2 -> {"suspend"}
    [] OTHER -> {"delay", "block", "disable", "whole_body"}]

(* Mailbox, semaphore and event, with readers and writers that are killed. *)
Traffic == [p \in Processes |->
  CASE p = 1 -> {"mailbox", "semaphore", "try", "event"}
    [] p = 2 -> {"fork", "kill"}
    [] p = 3 -> {"mailbox", "peek", "semaphore", "event"}
    [] p = 4 -> {"mailbox", "semaphore"}]

(* Readers that are suspended.                                             *)
Suspensions == [p \in Processes |->
  CASE p = 1 -> {"mailbox", "semaphore", "suspendable"}
    [] p = 2 -> {"mailbox", "semaphore", "suspend", "suspendable"}
    [] OTHER -> {}]

SoundDesigns == {Families, Blocks, Traffic, Suspensions}

(* A process that waits for an event is suspended.                         *)
SuspendedWaiter == [p \in Processes |->
  CASE p = 1 -> {"event", "suspendable"}
    [] p = 2 -> {"event", "suspend"}
    [] OTHER -> {}]

SuspendedWaiters == {SuspendedWaiter}
=============================================================================
