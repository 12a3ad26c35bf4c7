------------------------------- MODULE MCLab1 -------------------------------
(***************************************************************************)
(* The concurrent programs of lab1, and its quick sort.  A behaviour of    *)
(* this module is a behaviour of one of them, the program chosen at the    *)
(* start; the variables of the others keep their initial values.           *)
(***************************************************************************)
EXTENDS SemaphoreBuffer, BankAccount, DiningProfessors, PingPong, MessageQueue, MatMul, QuickSort

VARIABLE
  program       \* the program that runs

Programs == {"shmem2", "bankaccount", "diningprofessors", "semaphore", "msgq", "matmul", "qsortseq"}

all == <<program, vars, BankVars, DiningVars, TurnVars, QueueVars, MatVars, SortVars>>

(* Of a program that does not run one initial state is enough. *)
Lab1Init ==
  /\ program \in Programs
  /\ Init /\ BankInit /\ DiningInit /\ TurnsInit /\ QueueInit
  /\ MatInit /\ (program # "matmul" => version = "matmulpar")
  /\ SortInit /\ (program # "qsortseq" => \A i, j \in Items : v[i] = v[j])

-----------------------------------------------------------------------------
(* A step of the program that runs. *)
InShmem2(A) == /\ program = "shmem2" /\ A
               /\ UNCHANGED <<program, BankVars, DiningVars, TurnVars, QueueVars, MatVars, SortVars>>
InBank(A)   == /\ program = "bankaccount" /\ A
               /\ UNCHANGED <<program, vars, DiningVars, TurnVars, QueueVars, MatVars, SortVars>>
InDining(A) == /\ program = "diningprofessors" /\ A
               /\ UNCHANGED <<program, vars, BankVars, TurnVars, QueueVars, MatVars, SortVars>>
InTurns(A)  == /\ program = "semaphore" /\ A
               /\ UNCHANGED <<program, vars, BankVars, DiningVars, QueueVars, MatVars, SortVars>>
InQueue(A)  == /\ program = "msgq" /\ A
               /\ UNCHANGED <<program, vars, BankVars, DiningVars, TurnVars, MatVars, SortVars>>
InMat(A)    == /\ program = "matmul" /\ A
               /\ UNCHANGED <<program, vars, BankVars, DiningVars, TurnVars, QueueVars, SortVars>>
InSort(A)   == /\ program = "qsortseq" /\ A
               /\ UNCHANGED <<program, vars, BankVars, DiningVars, TurnVars, QueueVars, MatVars>>

Lab1Next ==
  \/ InShmem2(Next) \/ InBank(BankNext) \/ InDining(DiningNext) \/ InTurns(TurnsNext)
  \/ InQueue(QueueNext) \/ InMat(MatNext) \/ InSort(SortNext)

(* The steps that the kernel or the processor makes by itself: all but     *)
(* those of the user, who starts receivers, presses a key and kills.       *)
Runs ==
  \/ InShmem2(Parent) \/ InShmem2(Child)
  \/ InBank(MainThread) \/ (\E id \in Threads : InBank(Teller(id)))
  \/ (\E i \in Professors : InDining(Professor(i)))
  \/ InTurns(ProcessA) \/ InTurns(ProcessB)
  \/ InQueue(SenderRuns) \/ (\E r \in Receivers : InQueue(ReceiverRuns(r)))
  \/ InMat(MatMain) \/ (\E i \in Workers : InMat(MatThread(i)))
  \/ InSort(Sorting)

(* As long as a process or thread can go on, one of them does.  Fairness   *)
(* between them is not needed: each has a bounded number of turns, so none *)
(* can keep the others from theirs for ever.                               *)
Lab1Spec == Lab1Init /\ [][Lab1Next]_all /\ WF_all(Runs)

-----------------------------------------------------------------------------
(* The variables of every program have their types. *)
TypesOK == /\ TypeOK /\ BankTypeOK /\ DiningTypeOK /\ TurnsTypeOK /\ QueueTypeOK
           /\ MatTypeOK /\ SortTypeOK

(* shmem2.c: parent and child come to their end, and the last number has   *)
(* been received.                                                          *)
BothEnd == program = "shmem2" => <>(Ended /\ var2 = Last)

(* bankaccount.c: every schedule ends, and ends with the same balance.     *)
BankEnds == program = "bankaccount" => <>(BankClosed /\ bankAccountBalance = FinalBalance)

(* diningprofessors.c: everybody has all meals, nobody waits for ever.     *)
DiningEnds == program = "diningprofessors" => <>(TableEmpty /\ \A i \in Professors : meals[i] = Meals)

(* matmulpar*.c and qsortseq.c come to their end: no join waits for a      *)
(* thread that was not created, and the loop of partition, which moves an  *)
(* index or exchanges two elements, does not exchange for ever.            *)
ComputationsEnd == /\ program = "matmul" => <>(main = "done")
                   /\ program = "qsortseq" => <>AllSorted
=============================================================================
