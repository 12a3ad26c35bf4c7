------------------------------- MODULE MatMul -------------------------------
(***************************************************************************)
(* lab1/matmulpar.c, matmulpar2.c and matmulpar3.c: c = a * b, the rows of *)
(* c divided among threads.  The versions differ in how many threads there *)
(* are (one for every row, or THREADS with SIZE / THREADS rows each) and   *)
(* in whether main or the threads initialise a and b.                      *)
(*                                                                         *)
(* All columns of a row are treated alike, so a row is the value of any of *)
(* its elements: 0 in a static array, 1 when it is initialised, and in c   *)
(* the sum so far.                                                         *)
(***************************************************************************)
EXTENDS Integers

CONSTANTS
  SIZE,         \* 1024 in the code
  THREADS       \* 8 in matmulpar3.c

VARIABLES
  version,      \* which of the three programs runs
  a, b, c,      \* the matrices, by rows
  main,         \* where main is
  handled,      \* how many threads main has created or joined in this loop, i
  mulArgs,      \* the rows [start, stop) that main hands to a thread
  worker,       \* where each thread is
  row,          \* the row each thread works on
  stop,         \* where it stops, from its copy of its arguments
  k             \* the next element of the sum for that row

MatVars == <<version, a, b, c, main, handled, mulArgs, worker, row, stop, k>>

ASSUME MatAssumption == SIZE \in Nat \ {0} /\ THREADS \in 1 .. SIZE /\ SIZE % THREADS = 0

Rows    == 0 .. SIZE - 1
Workers == 0 .. SIZE - 1
RowRange(from, to) == [start |-> from, stop |-> to]

nWorkers == IF version = "matmulpar3" THEN THREADS ELSE SIZE

(* Mutant: every thread starts at the first row. *)
Args_from_zero(i) ==
  IF version = "matmulpar3" THEN RowRange(0, (i + 1) * (SIZE \div THREADS)) ELSE RowRange(i, i + 1)

(* start and stop of matmulpar3.c; the only row of the other versions *)
Args(i) ==
  IF version = "matmulpar3" THEN RowRange(i * (SIZE \div THREADS), (i + 1) * (SIZE \div THREADS))
  ELSE RowRange(i, i + 1)

MatInit ==
  /\ version \in {"matmulpar", "matmulpar2", "matmulpar3"}
  /\ a = [r \in Rows |-> 0] /\ b = [r \in Rows |-> 0] /\ c = [r \in Rows |-> 0]
  /\ main = IF version = "matmulpar" THEN "init" ELSE "create_init"
  /\ handled = 0 /\ mulArgs = [i \in Workers |-> RowRange(0, 0)]
  /\ worker = [i \in Workers |-> "none"] /\ row = [i \in Workers |-> 0]
  /\ stop = [i \in Workers |-> 0] /\ k = [i \in Workers |-> 0]

-----------------------------------------------------------------------------
(* Main. *)

(* init_matrix of matmulpar.c *)
InitBySelf ==
  /\ main = "init"
  /\ a' = [r \in Rows |-> 1] /\ b' = [r \in Rows |-> 1] /\ main' = "create_mul"
  /\ UNCHANGED <<version, c, handled, mulArgs, worker, row, stop, k>>

(* One turn of the loop that creates threads; a thread begins at its start. *)
Creates(from, to, begin) ==
  /\ main = from /\ UNCHANGED <<version, a, b, c, row, stop, k>>
  /\ IF handled < nWorkers
     THEN /\ mulArgs' = [mulArgs EXCEPT ![handled] = Args(handled)]
          /\ worker' = [worker EXCEPT ![handled] = begin]
          /\ handled' = handled + 1 /\ UNCHANGED main
     ELSE main' = to /\ handled' = 0 /\ UNCHANGED <<mulArgs, worker>>

(* One turn of the loop that joins them. *)
Joins(from, to) ==
  /\ main = from /\ UNCHANGED <<version, a, b, c, mulArgs, worker, row, stop, k>>
  /\ IF handled < nWorkers
     THEN worker[handled] = "ended" /\ handled' = handled + 1 /\ UNCHANGED main
     ELSE main' = to /\ handled' = 0

CreateInit == Creates("create_init", "join_init", "begin_init")

(* Mutant: the threads that initialise are not joined. *)
JoinInit_skipped ==
  /\ main = "join_init" /\ main' = "create_mul"
  /\ UNCHANGED <<version, a, b, c, handled, mulArgs, worker, row, stop, k>>

JoinInit   == Joins("join_init", "create_mul")
CreateMul  == Creates("create_mul", "join_mul", "begin_mul")
JoinMul    == Joins("join_mul", "done")

-----------------------------------------------------------------------------
(* A thread. *)

(* targs = *args *)
CopyArgs(i, from, to) ==
  /\ worker[i] = from /\ worker' = [worker EXCEPT ![i] = to]
  /\ row' = [row EXCEPT ![i] = mulArgs[i].start] /\ stop' = [stop EXCEPT ![i] = mulArgs[i].stop]
  /\ k' = [k EXCEPT ![i] = 0]
  /\ UNCHANGED <<version, a, b, c, main, handled, mulArgs>>

BeginInit(i) == CopyArgs(i, "begin_init", "init")
BeginMul(i)  == CopyArgs(i, "begin_mul", "mul")

InitRow(i) ==
  /\ worker[i] = "init" /\ row[i] < stop[i]
  /\ a' = [a EXCEPT ![row[i]] = 1] /\ b' = [b EXCEPT ![row[i]] = 1]
  /\ row' = [row EXCEPT ![i] = @ + 1]
  /\ UNCHANGED <<version, c, main, handled, mulArgs, worker, stop, k>>

(* One term of the sum; the first one is added to 0.0. *)
Multiply(i) ==
  /\ worker[i] = "mul" /\ row[i] < stop[i] /\ k[i] < SIZE
  /\ c' = [c EXCEPT ![row[i]] = (IF k[i] = 0 THEN 0 ELSE @) + a[row[i]] * b[k[i]]]
  /\ k' = [k EXCEPT ![i] = @ + 1]
  /\ UNCHANGED <<version, a, b, main, handled, mulArgs, worker, row, stop>>

NextRow(i) ==
  /\ worker[i] = "mul" /\ row[i] < stop[i] /\ k[i] = SIZE
  /\ row' = [row EXCEPT ![i] = @ + 1] /\ k' = [k EXCEPT ![i] = 0]
  /\ UNCHANGED <<version, a, b, c, main, handled, mulArgs, worker, stop>>

EndThread(i) ==
  /\ worker[i] \in {"init", "mul"} /\ row[i] >= stop[i]
  /\ worker' = [worker EXCEPT ![i] = "ended"]
  /\ UNCHANGED <<version, a, b, c, main, handled, mulArgs, row, stop, k>>

-----------------------------------------------------------------------------
MatMain == InitBySelf \/ CreateInit \/ JoinInit \/ CreateMul \/ JoinMul
MatThread(i) == BeginInit(i) \/ BeginMul(i) \/ InitRow(i) \/ Multiply(i) \/ NextRow(i) \/ EndThread(i)

MatRest == main = "done" /\ UNCHANGED MatVars

MatNext == MatMain \/ (\E i \in Workers : MatThread(i)) \/ MatRest

MatSpec == MatInit /\ [][MatNext]_MatVars

-----------------------------------------------------------------------------
MatTypeOK ==
  /\ version \in {"matmulpar", "matmulpar2", "matmulpar3"}
  /\ a \in [Rows -> {0, 1}] /\ b \in [Rows -> {0, 1}] /\ c \in [Rows -> 0 .. SIZE]
  /\ main \in {"init", "create_init", "join_init", "create_mul", "join_mul", "done"}
  /\ handled \in 0 .. SIZE /\ mulArgs \in [Workers -> [start : 0 .. SIZE, stop : 0 .. SIZE]]
  /\ worker \in [Workers -> {"none", "begin_init", "init", "begin_mul", "mul", "ended"}]
  /\ row \in [Workers -> 0 .. SIZE] /\ stop \in [Workers -> 0 .. SIZE] /\ k \in [Workers -> 0 .. SIZE]

(* The comment at matmulpar.c:33-36: "Each element in c will have the same *)
(* value as SIZE after the matmul operation", in every version and for     *)
(* every schedule of the threads.                                          *)
ProductRight == main = "done" => \A r \in Rows : c[r] = SIZE

(* No lock is needed, because no thread touches what another one writes:   *)
(* threads have rows of their own, and nobody multiplies before all of a   *)
(* and b is initialised.                                                   *)
Works(i)  == worker[i] \in {"init", "mul"} /\ row[i] < stop[i]
NoRaces ==
  \A i \in Workers : Works(i) =>
    /\ \A j \in Workers \ {i} : Works(j) => row[i] # row[j] /\ worker[i] = worker[j]
    /\ worker[i] = "mul" => \A r \in Rows : a[r] = 1 /\ b[r] = 1
=============================================================================
