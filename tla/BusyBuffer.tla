----------------------------- MODULE BusyBuffer -----------------------------
(***************************************************************************)
(* lab1/shmem.c: the shared ring of SemaphoreBuffer without semaphores.    *)
(* Parent and child wait in busy loops for the counter of empty places.    *)
(* empty-- and empty++ are a load and a store each, and nothing keeps the  *)
(* two processes apart between them.                                       *)
(***************************************************************************)
EXTENDS Integers

CONSTANTS
  Size,         \* places in the buffer, 10 in the code
  Last          \* how many numbers are sent, 100 in the code

VARIABLES
  buffer, in, out, empty,       \* shm_struct
  var1, var2,                   \* the last number of the producer, of the consumer
  loaded,                       \* the value of empty that each process has loaded
  producer, consumer            \* where the parent and the child are

vars == <<buffer, in, out, empty, var1, var2, loaded, producer, consumer>>

Places == 0 .. Size - 1

Init ==
  /\ buffer = [i \in Places |-> 0] /\ in = 0 /\ out = 0 /\ empty = Size
  /\ var1 = 0 /\ var2 = 0
  /\ loaded = [parent |-> 0, child |-> 0]
  /\ producer = "next" /\ consumer = "wait"

-----------------------------------------------------------------------------
ParentGoes(from, to) == producer = from /\ producer' = to /\ UNCHANGED <<consumer, var2, out>>

Produce ==
  /\ ParentGoes("next", "wait") /\ var1 < Last /\ var1' = var1 + 1
  /\ UNCHANGED <<buffer, in, empty, loaded>>

SeesRoom == ParentGoes("wait", "write") /\ empty # 0 /\ UNCHANGED <<buffer, in, empty, var1, loaded>>

Write ==
  /\ ParentGoes("write", "load") /\ buffer' = [buffer EXCEPT ![in] = var1]
  /\ UNCHANGED <<in, empty, var1, loaded>>

ParentLoads ==
  /\ ParentGoes("load", "store") /\ loaded' = [loaded EXCEPT !.parent = empty]
  /\ UNCHANGED <<buffer, in, empty, var1>>

ParentStores ==
  /\ ParentGoes("store", "move_in") /\ empty' = loaded.parent - 1
  /\ UNCHANGED <<buffer, in, var1, loaded>>

MoveIn ==
  /\ ParentGoes("move_in", "next") /\ in' = (in + 1) % Size
  /\ UNCHANGED <<buffer, empty, var1, loaded>>

ParentEnds == ParentGoes("next", "done") /\ var1 = Last /\ UNCHANGED <<buffer, in, empty, var1, loaded>>

-----------------------------------------------------------------------------
ChildGoes(from, to) == consumer = from /\ consumer' = to /\ UNCHANGED <<producer, var1, buffer, in>>

SeesNumber == ChildGoes("wait", "read") /\ empty # Size /\ UNCHANGED <<out, empty, var2, loaded>>

Read == ChildGoes("read", "load") /\ var2' = buffer[out] /\ UNCHANGED <<out, empty, loaded>>

ChildLoads ==
  /\ ChildGoes("load", "store") /\ loaded' = [loaded EXCEPT !.child = empty]
  /\ UNCHANGED <<out, empty, var2>>

ChildStores ==
  /\ ChildGoes("store", "move_out") /\ empty' = loaded.child + 1
  /\ UNCHANGED <<out, var2, loaded>>

MoveOut ==
  /\ ChildGoes("move_out", IF var2 < Last THEN "wait" ELSE "done") /\ out' = (out + 1) % Size
  /\ UNCHANGED <<empty, var2, loaded>>

-----------------------------------------------------------------------------
Parent == Produce \/ SeesRoom \/ Write \/ ParentLoads \/ ParentStores \/ MoveIn \/ ParentEnds
Child  == SeesNumber \/ Read \/ ChildLoads \/ ChildStores \/ MoveOut

Rest == producer = "done" /\ consumer = "done" /\ UNCHANGED vars

Next == Parent \/ Child \/ Rest

Spec == Init /\ [][Next]_vars

-----------------------------------------------------------------------------
(* The last number that is in the buffer or has been. *)
Written == IF producer \in {"wait", "write"} THEN var1 - 1 ELSE var1

(* "busy wait until there is something" (shmem.c:52): behind its busy wait *)
(* the child finds a number that it has not read yet.                      *)
SomethingThere == consumer = "read" => var2 < Written
=============================================================================
