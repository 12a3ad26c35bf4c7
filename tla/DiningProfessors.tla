-------------------------- MODULE DiningProfessors --------------------------
(***************************************************************************)
(* lab1/diningprofessors.c: PROFESSORS threads round a table, a chopstick  *)
(* between neighbours, Meals meals each.  Who holds one chopstick only     *)
(* occupies a place of a semaphore of PROFESSORS - 1.                      *)
(*                                                                         *)
(* The argument of a thread holds its two mutexes by value (lines 55-56),  *)
(* copied from chop_locks while they were unlocked: each thread locks and  *)
(* unlocks copies of its own.  (POSIX leaves locking a copy undefined; in  *)
(* the C library a default mutex is its value, so a copy is a mutex of its *)
(* own.)                                                                   *)
(***************************************************************************)
EXTENDS Integers, FiniteSets

CONSTANTS
  PROFESSORS,
  Meals                 \* 10 in the code

VARIABLES
  sem_single_chops,
  left_chopstick,       \* whether the copy in a professor's argument is locked
  right_chopstick,
  professor,            \* where each professor is
  meals                 \* how many meals each has had, i

DiningVars == <<sem_single_chops, left_chopstick, right_chopstick, professor, meals>>

ASSUME DiningAssumption == PROFESSORS \in Nat \ {0, 1} /\ Meals \in Nat

Professors == 0 .. PROFESSORS - 1
RightOf(i) == (i + 1) % PROFESSORS

(* Main has opened the semaphore anew; the threads are created in order,   *)
(* so a professor who is late is one who is still "away".                  *)
DiningInit ==
  /\ sem_single_chops = PROFESSORS - 1
  /\ left_chopstick = [i \in Professors |-> FALSE] /\ right_chopstick = [i \in Professors |-> FALSE]
  /\ professor = [i \in Professors |-> "away"] /\ meals = [i \in Professors |-> 0]

-----------------------------------------------------------------------------
ProfessorGoes(i, from, to) == professor[i] = from /\ professor' = [professor EXCEPT ![i] = to]

(* pthread_create, in the order of the loop in main *)
SitDown(i) ==
  /\ ProfessorGoes(i, "away", "thinking") /\ \A j \in Professors : j < i => professor[j] # "away"
  /\ UNCHANGED <<sem_single_chops, left_chopstick, right_chopstick, meals>>

(* Mutant: a professor takes a chopstick without a place. *)
WaitSingle_hasty(i) ==
  /\ meals[i] < Meals /\ ProfessorGoes(i, "thinking", "wait_left")
  /\ UNCHANGED <<sem_single_chops, left_chopstick, right_chopstick, meals>>

WaitSingle(i) ==
  /\ meals[i] < Meals /\ ProfessorGoes(i, "thinking", "wait_left")
  /\ sem_single_chops > 0 /\ sem_single_chops' = sem_single_chops - 1
  /\ UNCHANGED <<left_chopstick, right_chopstick, meals>>

TakeLeft(i) ==
  /\ ProfessorGoes(i, "wait_left", "wait_right")
  /\ ~left_chopstick[i] /\ left_chopstick' = [left_chopstick EXCEPT ![i] = TRUE]
  /\ UNCHANGED <<sem_single_chops, right_chopstick, meals>>

TakeRight(i) ==
  /\ ProfessorGoes(i, "wait_right", "post")
  /\ ~right_chopstick[i] /\ right_chopstick' = [right_chopstick EXCEPT ![i] = TRUE]
  /\ UNCHANGED <<sem_single_chops, left_chopstick, meals>>

(* Mutant: the place is not given back. *)
PostSingle_forgotten(i) ==
  /\ ProfessorGoes(i, "post", "eating")
  /\ UNCHANGED <<sem_single_chops, left_chopstick, right_chopstick, meals>>

PostSingle(i) ==
  /\ ProfessorGoes(i, "post", "eating") /\ sem_single_chops' = sem_single_chops + 1
  /\ UNCHANGED <<left_chopstick, right_chopstick, meals>>

DropRight(i) ==
  /\ ProfessorGoes(i, "eating", "drop_left") /\ right_chopstick' = [right_chopstick EXCEPT ![i] = FALSE]
  /\ UNCHANGED <<sem_single_chops, left_chopstick, meals>>

DropLeft(i) ==
  /\ ProfessorGoes(i, "drop_left", "thinking") /\ left_chopstick' = [left_chopstick EXCEPT ![i] = FALSE]
  /\ meals' = [meals EXCEPT ![i] = @ + 1]
  /\ UNCHANGED <<sem_single_chops, right_chopstick>>

Leave(i) ==
  /\ meals[i] >= Meals /\ ProfessorGoes(i, "thinking", "gone")
  /\ UNCHANGED <<sem_single_chops, left_chopstick, right_chopstick, meals>>

Professor(i) ==
  \/ SitDown(i) \/ WaitSingle(i) \/ TakeLeft(i) \/ TakeRight(i) \/ PostSingle(i)
  \/ DropRight(i) \/ DropLeft(i) \/ Leave(i)

(* Main joins all threads and destroys locks and semaphore. *)
TableEmpty == \A i \in Professors : professor[i] = "gone"
DiningRest == TableEmpty /\ UNCHANGED DiningVars

DiningNext == (\E i \in Professors : Professor(i)) \/ DiningRest

DiningSpec == DiningInit /\ [][DiningNext]_DiningVars

-----------------------------------------------------------------------------
DiningTypeOK ==
  /\ sem_single_chops \in 0 .. PROFESSORS - 1
  /\ left_chopstick \in [Professors -> BOOLEAN] /\ right_chopstick \in [Professors -> BOOLEAN]
  /\ professor \in [Professors -> {"away", "thinking", "wait_left", "wait_right", "post", "eating",
                                   "drop_left", "gone"}]
  /\ meals \in [Professors -> 0 .. Meals]

Single == {i \in Professors : professor[i] \in {"wait_left", "wait_right", "post"}}

(* Single chopsticks: the semaphore counts who may still take a first      *)
(* chopstick, so never all professors hold one and wait for the other,     *)
(* whoever eats and leaves in between.                                     *)
SeatsCounted == sem_single_chops + Cardinality(Single) = PROFESSORS - 1

(* Line 35 announces "Aquired both chopsticks, eating".  The chopstick to  *)
(* the right of i, chop_locks[RightOf(i)], is the left one of its          *)
(* neighbour: a professor who eats holds it alone.                         *)
NeighboursApart ==
  \A i \in Professors : ~(professor[i] = "eating" /\ professor[RightOf(i)] = "eating")
=============================================================================
