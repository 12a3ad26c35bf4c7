-------------------------- MODULE SemaphoreBuffer ---------------------------
(***************************************************************************)
(* lab1/shmem2.c: a parent and its child share a ring of numbers in shared *)
(* memory.  Named semaphores count its empty and full places and guard     *)
(* them.  One action is one call or one assignment; the names of the       *)
(* control points say what the process does next.                          *)
(***************************************************************************)
EXTENDS Integers

CONSTANTS
  BUFFER_SIZE,
  Last          \* how many numbers are sent, 100 in the code

VARIABLES
  buffer, in, out,              \* shm_struct
  sem_mutex, sem_empty, sem_full,
  var1, var2,                   \* the last number of the producer, of the consumer
  producer, consumer            \* where the parent and the child are

vars == <<buffer, in, out, sem_mutex, sem_empty, sem_full, var1, var2, producer, consumer>>

ASSUME BufferAssumption == BUFFER_SIZE \in Nat \ {0} /\ Last \in Nat

Places == 0 .. BUFFER_SIZE - 1

(* Fresh semaphores and zeroed memory, just after the fork. *)
Init ==
  /\ buffer = [i \in Places |-> 0] /\ in = 0 /\ out = 0
  /\ sem_mutex = 1 /\ sem_empty = BUFFER_SIZE /\ sem_full = 0
  /\ var1 = 0 /\ var2 = 0
  /\ producer = "next" /\ consumer = "next"

-----------------------------------------------------------------------------
(* The parent. *)

ParentGoes(from, to) == producer = from /\ producer' = to /\ UNCHANGED <<consumer, var2, out>>

Produce ==
  /\ ParentGoes("next", "wait_empty") /\ var1 < Last /\ var1' = var1 + 1
  /\ UNCHANGED <<buffer, in, sem_mutex, sem_empty, sem_full>>

WaitEmpty ==
  /\ ParentGoes("wait_empty", "wait_mutex") /\ sem_empty > 0 /\ sem_empty' = sem_empty - 1
  /\ UNCHANGED <<buffer, in, sem_mutex, sem_full, var1>>

ParentWaitMutex ==
  /\ ParentGoes("wait_mutex", "write") /\ sem_mutex > 0 /\ sem_mutex' = sem_mutex - 1
  /\ UNCHANGED <<buffer, in, sem_empty, sem_full, var1>>

Write ==
  /\ ParentGoes("write", "move_in") /\ buffer' = [buffer EXCEPT ![in] = var1]
  /\ UNCHANGED <<in, sem_mutex, sem_empty, sem_full, var1>>

(* Mutant: the ring does not close. *)
MoveIn_open ==
  /\ ParentGoes("move_in", "post_mutex") /\ in' = in + 1
  /\ UNCHANGED <<buffer, sem_mutex, sem_empty, sem_full, var1>>

MoveIn ==
  /\ ParentGoes("move_in", "post_mutex") /\ in' = (in + 1) % BUFFER_SIZE
  /\ UNCHANGED <<buffer, sem_mutex, sem_empty, sem_full, var1>>

ParentPostMutex ==
  /\ ParentGoes("post_mutex", "post_full") /\ sem_mutex' = sem_mutex + 1
  /\ UNCHANGED <<buffer, in, sem_empty, sem_full, var1>>

PostFull ==
  /\ ParentGoes("post_full", "next") /\ sem_full' = sem_full + 1
  /\ UNCHANGED <<buffer, in, sem_mutex, sem_empty, var1>>

(* The parent waits for its child and then removes the semaphores' names. *)
ParentEnds ==
  /\ ParentGoes("next", "done") /\ var1 = Last /\ consumer = "done"
  /\ UNCHANGED <<buffer, in, sem_mutex, sem_empty, sem_full, var1>>

-----------------------------------------------------------------------------
(* The child. *)

ChildGoes(from, to) == consumer = from /\ consumer' = to /\ UNCHANGED <<producer, var1, buffer, in>>

(* Mutant: the child does not wait for a number. *)
WaitFull_hasty ==
  /\ ChildGoes("next", "wait_mutex") /\ var2 < Last
  /\ UNCHANGED <<sem_mutex, sem_empty, sem_full, var2, out>>

WaitFull ==
  /\ ChildGoes("next", "wait_mutex") /\ var2 < Last
  /\ sem_full > 0 /\ sem_full' = sem_full - 1
  /\ UNCHANGED <<sem_mutex, sem_empty, var2, out>>

(* Mutant: the child does not lock. *)
ChildWaitMutex_unlocked ==
  ChildGoes("wait_mutex", "read") /\ UNCHANGED <<sem_mutex, sem_empty, sem_full, var2, out>>

ChildWaitMutex ==
  /\ ChildGoes("wait_mutex", "read") /\ sem_mutex > 0 /\ sem_mutex' = sem_mutex - 1
  /\ UNCHANGED <<sem_empty, sem_full, var2, out>>

Read ==
  /\ ChildGoes("read", "move_out") /\ var2' = buffer[out]
  /\ UNCHANGED <<sem_mutex, sem_empty, sem_full, out>>

MoveOut ==
  /\ ChildGoes("move_out", "post_mutex") /\ out' = (out + 1) % BUFFER_SIZE
  /\ UNCHANGED <<sem_mutex, sem_empty, sem_full, var2>>

ChildPostMutex ==
  /\ ChildGoes("post_mutex", "post_empty") /\ sem_mutex' = sem_mutex + 1
  /\ UNCHANGED <<sem_empty, sem_full, var2, out>>

(* Mutant: the place is not given back. *)
PostEmpty_forgotten ==
  ChildGoes("post_empty", "next") /\ UNCHANGED <<sem_mutex, sem_empty, sem_full, var2, out>>

PostEmpty ==
  /\ ChildGoes("post_empty", "next") /\ sem_empty' = sem_empty + 1
  /\ UNCHANGED <<sem_mutex, sem_full, var2, out>>

ChildEnds ==
  /\ ChildGoes("next", "done") /\ var2 >= Last
  /\ UNCHANGED <<sem_mutex, sem_empty, sem_full, var2, out>>

-----------------------------------------------------------------------------
Parent == Produce \/ WaitEmpty \/ ParentWaitMutex \/ Write \/ MoveIn \/ ParentPostMutex \/ PostFull
          \/ ParentEnds
Child  == WaitFull \/ ChildWaitMutex \/ Read \/ MoveOut \/ ChildPostMutex \/ PostEmpty \/ ChildEnds

Ended == producer = "done" /\ consumer = "done"

(* Both processes have ended: not a deadlock. *)
Rest == Ended /\ UNCHANGED vars

Next == Parent \/ Child \/ Rest

Spec == Init /\ [][Next]_vars

-----------------------------------------------------------------------------
InCritical(where) == where \in {"write", "move_in", "read", "move_out", "post_mutex"}

TypeOK ==
  /\ buffer \in [Places -> 0 .. Last] /\ in \in Places /\ out \in Places
  /\ sem_mutex \in 0 .. 1 /\ sem_empty \in 0 .. BUFFER_SIZE /\ sem_full \in 0 .. BUFFER_SIZE
  /\ var1 \in 0 .. Last /\ var2 \in 0 .. Last
  /\ producer \in {"next", "wait_empty", "wait_mutex", "write", "move_in", "post_mutex", "post_full", "done"}
  /\ consumer \in {"next", "wait_mutex", "read", "move_out", "post_mutex", "post_empty", "done"}

(* Buffer, in and out are touched by one process at a time. *)
Exclusive == ~(InCritical(producer) /\ InCritical(consumer))

(* The last number that is in the buffer or has been. *)
Written == IF producer \in {"wait_empty", "wait_mutex", "write"} THEN var1 - 1 ELSE var1

(* The ring is a channel: what the child prints are the numbers the parent *)
(* wrote, each once and in order, and no number is overwritten before it   *)
(* is read.                                                                *)
IsChannel == INSTANCE Channel WITH Capacity <- BUFFER_SIZE, sent <- Written, received <- var2
DeliversInOrder == IsChannel!Spec
=============================================================================
