------------------------------ MODULE PingPong ------------------------------
(***************************************************************************)
(* lab1/semaphore.c: a parent prints A and its child prints B, Turns times *)
(* each, and two named semaphores make them take turns.  Names outlive the *)
(* program: one that was killed (Ctrl-C, both processes) leaves them, and  *)
(* sem_open of the next run finds them with the values they had.           *)
(*                                                                         *)
(* The user is one who may open the names again: their mode, O_RDWR in the *)
(* place of the permissions (lines 14-15), lets nobody but root do so; for *)
(* others a run after a killed one ends at its first sem_wait.             *)
(***************************************************************************)
EXTENDS Integers

CONSTANTS
  Turns,                \* 100 in the code
  MaxKills              \* bound: how often the program is killed

VARIABLES
  my_sema1, my_sema2,   \* the values of the names, or Absent
  parent, child,        \* where the processes are
  printedA, printedB,   \* how many letters this run has printed, i
  letter,               \* auxiliary: the last one
  opened,               \* auxiliary: the tokens this run found at its fork
  kills                 \* auxiliary: how often the program was killed

TurnVars == <<my_sema1, my_sema2, parent, child, printedA, printedB, letter, opened, kills>>

ASSUME TurnsAssumption == Turns \in Nat \ {0} /\ MaxKills \in Nat

Absent  == -1
NoLetter == "none"

TurnsInit ==
  /\ my_sema1 = Absent /\ my_sema2 = Absent /\ parent = "open_1" /\ child = "unborn"
  /\ printedA = 0 /\ printedB = 0 /\ letter = NoLetter /\ opened = 0 /\ kills = 0

(* sem_open with O_CREAT: the value counts only for a new name. *)
Found(name, value) == IF name = Absent THEN value ELSE name

-----------------------------------------------------------------------------
(* The parent. *)

AGoes(from, to) == parent = from /\ parent' = to /\ UNCHANGED <<printedB, kills>>

Open1 ==
  /\ AGoes("open_1", "open_2") /\ my_sema1' = Found(my_sema1, 1)
  /\ UNCHANGED <<my_sema2, child, printedA, letter, opened>>

(* Mutant: both may begin. *)
Open2_one ==
  /\ AGoes("open_2", "fork") /\ my_sema2' = Found(my_sema2, 1)
  /\ UNCHANGED <<my_sema1, child, printedA, letter, opened>>

Open2 ==
  /\ AGoes("open_2", "fork") /\ my_sema2' = Found(my_sema2, 0)
  /\ UNCHANGED <<my_sema1, child, printedA, letter, opened>>

Fork ==
  /\ AGoes("fork", "wait") /\ child' = "wait" /\ opened' = my_sema1 + my_sema2
  /\ UNCHANGED <<my_sema1, my_sema2, printedA, letter>>

WaitA ==
  /\ AGoes("wait", "print") /\ printedA < Turns /\ my_sema1 > 0 /\ my_sema1' = my_sema1 - 1
  /\ UNCHANGED <<my_sema2, child, printedA, letter, opened>>

PrintA ==
  /\ AGoes("print", "post") /\ letter' = "A" /\ printedA' = printedA + 1
  /\ UNCHANGED <<my_sema1, my_sema2, child, opened>>

PostB ==
  /\ AGoes("post", "wait") /\ my_sema2' = my_sema2 + 1
  /\ UNCHANGED <<my_sema1, child, printedA, letter, opened>>

(* The loop has ended; wait(&status). *)
ChildEnded ==
  /\ AGoes("wait", "unlink_1") /\ printedA = Turns /\ child = "done"
  /\ UNCHANGED <<my_sema1, my_sema2, child, printedA, letter, opened>>

Unlink1 ==
  /\ AGoes("unlink_1", "unlink_2") /\ my_sema1' = Absent
  /\ UNCHANGED <<my_sema2, child, printedA, letter, opened>>

Unlink2 ==
  /\ AGoes("unlink_2", "done") /\ my_sema2' = Absent
  /\ UNCHANGED <<my_sema1, child, printedA, letter, opened>>

-----------------------------------------------------------------------------
(* The child. *)

BGoes(from, to) == child = from /\ child' = to /\ UNCHANGED <<parent, printedA, opened, kills>>

WaitB ==
  /\ BGoes("wait", "print") /\ printedB < Turns /\ my_sema2 > 0 /\ my_sema2' = my_sema2 - 1
  /\ UNCHANGED <<my_sema1, printedB, letter>>

PrintB ==
  /\ BGoes("print", "post") /\ letter' = "B" /\ printedB' = printedB + 1
  /\ UNCHANGED <<my_sema1, my_sema2>>

(* Mutants: the parent is not woken; the child wakes itself. *)
PostA_forgotten ==
  BGoes("post", "wait") /\ UNCHANGED <<my_sema1, my_sema2, printedB, letter>>
PostA_own ==
  /\ BGoes("post", "wait") /\ my_sema2' = my_sema2 + 1
  /\ UNCHANGED <<my_sema1, printedB, letter>>

PostA ==
  /\ BGoes("post", "wait") /\ my_sema1' = my_sema1 + 1
  /\ UNCHANGED <<my_sema2, printedB, letter>>

BEnds ==
  /\ BGoes("wait", "done") /\ printedB = Turns
  /\ UNCHANGED <<my_sema1, my_sema2, printedB, letter>>

-----------------------------------------------------------------------------
ProcessA == \/ Open1 \/ Open2 \/ Fork \/ WaitA \/ PrintA \/ PostB \/ ChildEnded
            \/ Unlink1 \/ Unlink2
ProcessB == WaitB \/ PrintB \/ PostA \/ BEnds

(* Both processes are killed between two of their steps, and the program   *)
(* is started again.                                                       *)
KillAndRestart ==
  /\ parent # "done" /\ kills < MaxKills /\ kills' = kills + 1
  /\ parent' = "open_1" /\ child' = "unborn"
  /\ printedA' = 0 /\ printedB' = 0 /\ letter' = NoLetter /\ opened' = 0
  /\ UNCHANGED <<my_sema1, my_sema2>>

(* The names were left with no token: both wait until they are killed. *)
Stuck == parent = "wait" /\ child = "wait" /\ opened = 0

TurnsRest == (parent = "done" \/ Stuck) /\ UNCHANGED TurnVars

TurnsNext == ProcessA \/ ProcessB \/ KillAndRestart \/ TurnsRest

TurnsSpec == TurnsInit /\ [][TurnsNext]_TurnVars

-----------------------------------------------------------------------------
Values == {Absent} \cup 0 .. MaxKills + 1
TurnsTypeOK ==
  /\ my_sema1 \in Values /\ my_sema2 \in Values
  /\ parent \in {"open_1", "open_2", "fork", "wait", "print", "post", "unlink_1", "unlink_2", "done"}
  /\ child \in {"unborn", "wait", "print", "post", "done"}
  /\ printedA \in 0 .. Turns /\ printedB \in 0 .. Turns /\ letter \in {NoLetter, "A", "B"}
  /\ opened \in Values /\ kills \in 0 .. MaxKills

Running == child # "unborn" /\ parent \in {"wait", "print", "post"}
InHand  == (IF parent \in {"print", "post"} THEN 1 ELSE 0) + (IF child \in {"print", "post"} THEN 1 ELSE 0)

(* A run never makes or loses a token: what it finds in the names, whoever *)
(* left it there, goes from one process to the other until the end.        *)
TokensKept == Running => my_sema1 + my_sema2 + InHand = opened

(* The letters alternate, whether or not names were left over; only a run  *)
(* that finds two tokens is not promised to.                               *)
TakesTurns ==
  [][(opened <= 1 \/ kills = 0) =>
       (printedA' > printedA => letter # "A") /\ (printedB' > printedB => letter # "B")]_TurnVars

(* A run that finds a token comes to its end, or is killed. *)
TurnsEnd == (Running /\ opened > 0) ~> (parent \in {"done", "open_1"})
=============================================================================
