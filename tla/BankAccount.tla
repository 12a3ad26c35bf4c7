---------------------------- MODULE BankAccount ----------------------------
(***************************************************************************)
(* lab1/bankaccount.c: nThreads threads make Transactions transactions     *)
(* each on one account; odd threads deposit Amount, even ones withdraw it. *)
(* Thread 0 is main, which creates the others, works and joins them.       *)
(* "balance += amount" is a load and a store, and a mutex keeps two of     *)
(* them apart.                                                             *)
(***************************************************************************)
EXTENDS Integers, FiniteSets

CONSTANTS
  nThreads,             \* the argument of the program
  Transactions,         \* 1000 in the code
  Amount                \* 100.00 in the code

VARIABLES
  lock,                 \* the thread that holds the mutex, or Nobody
  bankAccountBalance,
  bank,                 \* where each thread is
  made,                 \* how many transactions each thread has made, i
  loaded,               \* the balance each thread has loaded
  created,              \* main has created the threads below this one, id
  ledger                \* auxiliary: the sum of the transactions stored

BankVars == <<lock, bankAccountBalance, bank, made, loaded, created, ledger>>

ASSUME BankAssumption == nThreads \in Nat /\ Transactions \in Nat /\ Amount \in Int

Threads  == {0} \cup 1 .. nThreads - 1
Nobody   == -1
odd(id)  == id % 2 = 1
Share(id) == IF odd(id) THEN Amount ELSE -Amount

BankInit ==
  /\ lock = Nobody /\ bankAccountBalance = 0 /\ ledger = 0 /\ created = 1
  /\ bank = [id \in Threads |-> IF id = 0 THEN "create" ELSE "unborn"]
  /\ made = [id \in Threads |-> 0] /\ loaded = [id \in Threads |-> 0]

-----------------------------------------------------------------------------
BankGoes(id, from, to) == bank[id] = from /\ bank' = [bank EXCEPT ![id] = to]

CreateThread ==
  /\ bank[0] = "create" /\ created < nThreads
  /\ bank' = [bank EXCEPT ![created] = "next"] /\ created' = created + 1
  /\ UNCHANGED <<lock, bankAccountBalance, made, loaded, ledger>>

AllCreated ==
  /\ created >= nThreads /\ BankGoes(0, "create", "next")
  /\ UNCHANGED <<lock, bankAccountBalance, made, loaded, created, ledger>>

(* Mutant: the mutex is not waited for. *)
Lock_barging(id) ==
  /\ made[id] < Transactions /\ BankGoes(id, "next", "load")
  /\ lock' = id
  /\ UNCHANGED <<bankAccountBalance, made, loaded, created, ledger>>

Lock(id) ==
  /\ made[id] < Transactions /\ BankGoes(id, "next", "load")
  /\ lock = Nobody /\ lock' = id
  /\ UNCHANGED <<bankAccountBalance, made, loaded, created, ledger>>

Load(id) ==
  /\ BankGoes(id, "load", "store") /\ loaded' = [loaded EXCEPT ![id] = bankAccountBalance]
  /\ UNCHANGED <<lock, bankAccountBalance, made, created, ledger>>

Store(id) ==
  /\ BankGoes(id, "store", "unlock")
  /\ bankAccountBalance' = loaded[id] + Share(id) /\ ledger' = ledger + Share(id)
  /\ UNCHANGED <<lock, made, loaded, created>>

(* Mutant: the mutex is not given back. *)
Unlock_forgotten(id) ==
  /\ BankGoes(id, "unlock", "next") /\ made' = [made EXCEPT ![id] = @ + 1]
  /\ UNCHANGED <<lock, bankAccountBalance, loaded, created, ledger>>

Unlock(id) ==
  /\ BankGoes(id, "unlock", "next") /\ lock' = Nobody /\ made' = [made EXCEPT ![id] = @ + 1]
  /\ UNCHANGED <<bankAccountBalance, loaded, created, ledger>>

(* The loop of do1000Transactions ends: a child is done, main joins. *)
AllMade(id) ==
  /\ made[id] >= Transactions /\ BankGoes(id, "next", IF id = 0 THEN "join" ELSE "done")
  /\ UNCHANGED <<lock, bankAccountBalance, made, loaded, created, ledger>>

(* Main has joined all others, prints the balance and returns. *)
Joined ==
  /\ BankGoes(0, "join", "done") /\ \A id \in Threads \ {0} : bank[id] = "done"
  /\ UNCHANGED <<lock, bankAccountBalance, made, loaded, created, ledger>>

Teller(id) == Lock(id) \/ Load(id) \/ Store(id) \/ Unlock(id) \/ AllMade(id)
MainThread == CreateThread \/ AllCreated \/ Joined

BankClosed == bank[0] = "done"
BankRest   == BankClosed /\ UNCHANGED BankVars

BankNext == MainThread \/ (\E id \in Threads : Teller(id)) \/ BankRest

BankSpec == BankInit /\ [][BankNext]_BankVars

-----------------------------------------------------------------------------
BankTypeOK ==
  /\ lock \in Threads \cup {Nobody} /\ bankAccountBalance \in Int /\ ledger \in Int
  /\ bank \in [Threads -> {"unborn", "create", "next", "load", "store", "unlock", "join", "done"}]
  /\ made \in [Threads -> 0 .. Transactions] /\ loaded \in [Threads -> Int]
  /\ created \in 1 .. nThreads \cup {1}

(* No update is lost: at every moment the balance is the sum of all        *)
(* deposits and withdrawals stored so far (bankaccount.c:11 and 17).       *)
NoUpdateLost == bankAccountBalance = ledger

(* The final balance main prints does not depend on the schedule: equal    *)
(* numbers of depositors and withdrawers leave nothing, one withdrawer     *)
(* more leaves its debt.                                                   *)
FinalBalance == Transactions * Amount *
  (Cardinality({id \in Threads : odd(id)}) - Cardinality({id \in Threads : ~odd(id)}))
=============================================================================
