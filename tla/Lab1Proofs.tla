----------------------------- MODULE Lab1Proofs ------------------------------
(***************************************************************************)
(* The programs of lab1.  The two channels, the ring of shmem2.c and the   *)
(* queue of msgqsend.c and msgqrecv.c, exclude each other, count right and *)
(* deliver in order; no update of the account is lost, never do all        *)
(* professors hold a single chopstick, the letters alternate, quick sort   *)
(* sorts, and the matrix multiplications compute every row without races:  *)
(* for a ring of any size and any number of receivers, numbers, threads,   *)
(* transactions, professors, meals, turns and kills, arrays of any length  *)
(* and of any integers, and matrices of any size.  Side by side they keep  *)
(* what each keeps by itself.                                              *)
(***************************************************************************)
EXTENDS MCLab1, SequenceTheorems, FiniteSetTheorems, TLAPS

(* The ring of shmem2.c.                                                   *)

ParentIn == producer \in {"write", "move_in", "post_mutex"}
ChildIn  == consumer \in {"read", "move_out", "post_mutex"}

(* The mutex is free, or one process is between its wait and its post. *)
MutexCounted == /\ sem_mutex = IF ParentIn \/ ChildIn THEN 0 ELSE 1
                /\ ~(ParentIn /\ ChildIn)

(* How often each semaphore was posted and waited for, and each index was  *)
(* moved: the numbers written or read, corrected by where the process is.  *)
Taken    == IF producer \in {"wait_mutex", "write"} THEN Written + 1 ELSE Written
Filled   == IF producer \in {"move_in", "post_mutex", "post_full"} THEN Written - 1 ELSE Written
InMoves  == IF producer = "move_in" THEN Written - 1 ELSE Written
Claimed  == IF consumer \in {"wait_mutex", "read"} THEN var2 + 1 ELSE var2
Freed    == IF consumer \in {"move_out", "post_mutex", "post_empty"} THEN var2 - 1 ELSE var2
OutMoves == IF consumer = "move_out" THEN var2 - 1 ELSE var2

SemaphoresCounted == sem_full = Filled - Claimed /\ sem_empty = BUFFER_SIZE - Taken + Freed

(* The place of the ring that is n moves past out.                         *)
Past(n) == IF out + n < BUFFER_SIZE THEN out + n ELSE out + n - BUFFER_SIZE

(* The numbers that were written and not read are in the ring, in their    *)
(* order, from out to in.                                                  *)
RingHolds ==
  /\ in = Past(InMoves - OutMoves)
  /\ \A n \in var2 + 1 .. Written : buffer[Past(n - OutMoves - 1)] = n

(* A number in hand is one of those that are sent. *)
Produced == producer \notin {"next", "done"} => var1 \in 1 .. Last

RingIInv == TypeOK /\ MutexCounted /\ Produced /\ SemaphoresCounted /\ RingHolds

(* The ring closes: after its last place comes the first. *)
LEMMA NextPlace == \A i \in Places : (i + 1) % BUFFER_SIZE = IF i + 1 = BUFFER_SIZE THEN 0 ELSE i + 1
  BY BufferAssumption DEF Places

(* The invariant holds when the processes start. *)
LEMMA RingInitially == Init => RingIInv
<1> SUFFICES ASSUME Init PROVE RingIInv
  OBVIOUS
<1> USE BufferAssumption DEF Init
<1>1. TypeOK
  BY DEF TypeOK, Places
<1>2. MutexCounted /\ Produced /\ SemaphoresCounted
  BY DEF MutexCounted, Produced, SemaphoresCounted, ParentIn, ChildIn, Taken, Filled, Claimed, Freed, Written
<1>3. RingHolds
  BY DEF RingHolds, InMoves, OutMoves, Past, Written
<1> QED
  BY <1>1, <1>2, <1>3 DEF RingIInv

(* Every call and every assignment of the parent keeps it. *)
LEMMA ParentKeeps == RingIInv /\ Parent => RingIInv'
<1> SUFFICES ASSUME RingIInv, Parent PROVE RingIInv'
  OBVIOUS
<1> USE BufferAssumption DEF RingIInv, TypeOK, MutexCounted, Produced, SemaphoresCounted, RingHolds, ParentIn, ChildIn,
     Taken, Filled, InMoves, Claimed, Freed, OutMoves, Past, Written, Places, ParentGoes
<1>1. CASE Produce
  BY <1>1 DEF Produce
<1>2. CASE WaitEmpty
  BY <1>2 DEF WaitEmpty
<1>3. CASE ParentWaitMutex
  BY <1>3 DEF ParentWaitMutex
<1>4. CASE Write
  <2>1. in = Past(var1 - 1 - OutMoves)
    BY <1>4 DEF Write
  <2>2. \A n \in var2 + 1 .. var1 - 1 : Past(n - OutMoves - 1) # in
    BY <1>4, <2>1 DEF Write
  <2>3. RingHolds'
    BY <1>4, <2>1, <2>2 DEF Write
  <2> QED
    BY <1>4, <2>3 DEF Write
<1>5. CASE MoveIn
  <2>1. in' = IF in + 1 = BUFFER_SIZE THEN 0 ELSE in + 1
    BY <1>5, NextPlace DEF MoveIn
  <2>2. RingHolds'
    BY <1>5, <2>1 DEF MoveIn
  <2> QED
    BY <1>5, <2>1, <2>2, SMTT(40) DEF MoveIn
<1>6. CASE ParentPostMutex
  BY <1>6 DEF ParentPostMutex
<1>7. CASE PostFull
  BY <1>7 DEF PostFull
<1>8. CASE ParentEnds
  BY <1>8 DEF ParentEnds
<1> QED
  BY <1>1, <1>2, <1>3, <1>4, <1>5, <1>6, <1>7, <1>8 DEF Parent

(* What the child reads is the number after the one it read before, and    *)
(* that number was written.                                                *)
LEMMA ReadsNext == RingIInv /\ Read => var2 < Written /\ var2' = var2 + 1
<1> SUFFICES ASSUME RingIInv, Read PROVE var2 < Written /\ var2' = var2 + 1
  OBVIOUS
<1> USE BufferAssumption DEF RingIInv, TypeOK, MutexCounted, Produced, SemaphoresCounted, RingHolds, ParentIn, ChildIn,
     Taken, Filled, InMoves, Claimed, Freed, OutMoves, Past, Written, Places, ChildGoes, Read
<1>1. var2 < Written
  OBVIOUS
<1> QED
  BY <1>1

(* And so does every step of the child. *)
LEMMA ChildKeeps == RingIInv /\ Child => RingIInv'
<1> SUFFICES ASSUME RingIInv, Child PROVE RingIInv'
  OBVIOUS
<1> USE BufferAssumption DEF RingIInv, TypeOK, MutexCounted, Produced, SemaphoresCounted, RingHolds, ParentIn, ChildIn,
     Taken, Filled, InMoves, Claimed, Freed, OutMoves, Past, Written, Places, ChildGoes
<1>1. CASE WaitFull
  BY <1>1 DEF WaitFull
<1>2. CASE ChildWaitMutex
  BY <1>2 DEF ChildWaitMutex
<1>3. CASE Read
  <2>1. var2 < Written /\ var2' = var2 + 1
    BY <1>3, ReadsNext
  <2>2. RingHolds'
    BY <1>3, <2>1 DEF Read
  <2> QED
    BY <1>3, <2>1, <2>2 DEF Read
<1>4. CASE MoveOut
  <2>1. out' = IF out + 1 = BUFFER_SIZE THEN 0 ELSE out + 1
    BY <1>4, NextPlace DEF MoveOut
  <2>2. OutMoves = var2 - 1 /\ OutMoves' = var2 /\ var2' = var2 /\ Written' = Written /\ InMoves' = InMoves
    BY <1>4 DEF MoveOut
  <2>3. Written \in Int /\ InMoves = Written /\ var2 \in Nat /\ var2 <= Written
        /\ Written < var2 + BUFFER_SIZE
    BY <1>4 DEF MoveOut
  <2>4. Past(InMoves - OutMoves)' = Past(InMoves - OutMoves)
    <3> HIDE DEF OutMoves, InMoves, Written
    <3> QED
      BY <2>1, <2>2, <2>3
  <2>5. \A n \in var2 + 1 .. Written : Past(n - OutMoves - 1)' = Past(n - OutMoves - 1)
    BY <1>4, <2>1, <2>2, <2>3
  <2>6. in = Past(InMoves - OutMoves) /\ in' = in /\ buffer' = buffer
    BY <1>4 DEF MoveOut
  <2>7. \A n \in var2 + 1 .. Written : buffer[Past(n - OutMoves - 1)] = n
    OBVIOUS
  <2>8. RingHolds'
    <3> HIDE DEF Past, OutMoves, InMoves, Written
    <3> QED
      BY <2>2, <2>4, <2>5, <2>6, <2>7
  <2>9. TypeOK'
    BY <1>4, <2>1 DEF MoveOut
  <2> HIDE DEF RingHolds, Past
  <2> QED
    BY <1>4, <2>8, <2>9 DEF MoveOut
<1>5. CASE ChildPostMutex
  BY <1>5 DEF ChildPostMutex
<1>6. CASE PostEmpty
  BY <1>6 DEF PostEmpty
<1>7. CASE ChildEnds
  BY <1>7 DEF ChildEnds
<1> QED
  BY <1>1, <1>2, <1>3, <1>4, <1>5, <1>6, <1>7 DEF Child

(* In every reachable state the mutex and the semaphores are counted right *)
(* and the ring holds what is under way.                                   *)
THEOREM RingInductive == Spec => []RingIInv
<1>1. Init => RingIInv
  BY RingInitially
<1>2. RingIInv /\ [Next]_vars => RingIInv'
  <2>1. RingIInv /\ UNCHANGED vars => RingIInv'
    BY DEF vars, RingIInv, TypeOK, MutexCounted, Produced, SemaphoresCounted, RingHolds, ParentIn, ChildIn,
     Taken, Filled, InMoves, Claimed, Freed, OutMoves, Past, Written, Places
  <2> QED
    BY <2>1, ParentKeeps, ChildKeeps DEF Next, Rest
<1> QED
  BY <1>1, <1>2, PTL DEF Spec

(* Parent and child are never at the ring at the same time. *)
THEOREM NeverTogether == Spec => []Exclusive
<1>1. RingIInv => Exclusive
  BY DEF RingIInv, TypeOK, MutexCounted, ParentIn, ChildIn, Exclusive, InCritical
<1> QED
  BY RingInductive, <1>1, PTL

(* The ring, its indices and its semaphores keep their types: no semaphore *)
(* counts beyond the ring, and the indices stay in it.                     *)
THEOREM RingTypeCorrect == Spec => []TypeOK
<1>1. RingIInv => TypeOK
  BY DEF RingIInv
<1> QED
  BY RingInductive, <1>1, PTL

(* shmem2.c implements the channel: Write sends the next number and finds  *)
(* a place, Read receives the next one, and every other step changes       *)
(* nothing that the channel shows.  Hence no number is lost, overwritten   *)
(* before it is read, read twice or read out of order.                     *)
THEOREM RingImplementsChannel == Spec => DeliversInOrder
<1>1. Init => IsChannel!Init
  BY DEF Init, IsChannel!Init, Written
<1>2. RingIInv /\ [Next]_vars => [IsChannel!Next]_(IsChannel!chan)
  <2> SUFFICES ASSUME RingIInv, [Next]_vars PROVE IsChannel!Next \/ UNCHANGED IsChannel!chan
    OBVIOUS
  <2> USE DEF IsChannel!Next, IsChannel!Send, IsChannel!Receive, IsChannel!chan
  <2>1. CASE Write
    <3>1. Written < Last /\ Written - var2 < BUFFER_SIZE
      BY <2>1, BufferAssumption DEF Write, ParentGoes, Written, RingIInv, TypeOK, Produced, SemaphoresCounted, Taken, Freed
    <3>2. Written' = Written + 1 /\ var2' = var2
      BY <2>1 DEF Write, ParentGoes, Written, RingIInv, TypeOK
    <3> QED
      BY <3>1, <3>2
  <2>2. CASE Read
    <3>1. Written' = Written
      BY <2>2 DEF Read, ChildGoes, Written
    <3> QED
      BY <2>2, <3>1, ReadsNext
  <2>3. CASE Parent /\ ~Write
    BY <2>3 DEF Parent, Produce, WaitEmpty, ParentWaitMutex, MoveIn, ParentPostMutex, PostFull, ParentEnds, ParentGoes,
       Written, RingIInv, TypeOK
  <2>4. CASE Child /\ ~Read
    BY <2>4 DEF Child, WaitFull, ChildWaitMutex, MoveOut, ChildPostMutex, PostEmpty, ChildEnds, ChildGoes, Written
  <2>5. CASE UNCHANGED vars
    BY <2>5 DEF vars, Written
  <2> QED
    BY <2>1, <2>2, <2>3, <2>4, <2>5 DEF Next, Rest
<1> QED
  BY <1>1, <1>2, RingInductive, PTL DEF Spec, DeliversInOrder, IsChannel!Spec

-----------------------------------------------------------------------------
(* The queue of msgqsend.c and msgqrecv.c.                                 *)

(* The queue is made before the first message and removed after the last. *)
QueueFollowsSender ==
  /\ queue_state = "absent" <=> sender \in {"touch", "get"}
  /\ queue_state = "removed" <=> sender = "done"

(* As long as the queue is there it holds the messages that were sent and  *)
(* that nobody took, in their order; when it is removed they are lost.     *)
UnderWay ==
  IF queue_state = "removed" THEN queue = <<>>
  ELSE Len(queue) = mailed - newest /\ \A n \in 1 .. Len(queue) : queue[n] = newest + n

QueueIInv ==
  /\ QueueTypeOK /\ queue \in Seq(1 .. Messages) /\ newest <= mailed
  /\ QueueFollowsSender /\ UnderWay

(* The invariant holds before the sender and the receivers are started. *)
LEMMA QueueInitially == QueueInit => QueueIInv
<1> SUFFICES ASSUME QueueInit PROVE QueueIInv
  OBVIOUS
<1> USE QueueAssumption DEF QueueInit
<1>1. queue = <<>> /\ queue \in Seq(1 .. Messages) /\ Len(queue) = 0
  BY EmptySeq
<1>2. \A n \in 1 .. Len(queue) : queue[n] \in 1 .. Messages /\ queue[n] = newest + n
  BY <1>1
<1>3. QueueTypeOK
  <2>1. receiver \in [Receivers -> {"not_started", "get", "receive", "failed", "done"}]
        /\ got \in [Receivers -> 0 .. Messages]
    OBVIOUS
  <2>2. Len(queue) <= Limit /\ newest \in 0 .. Messages /\ mailed \in 0 .. Messages
    BY <1>1
  <2> QED
    BY <1>2, <2>1, <2>2 DEF QueueTypeOK
<1>4. UnderWay
  BY <1>1, <1>2 DEF UnderWay
<1> QED
  BY <1>1, <1>3, <1>4 DEF QueueIInv, QueueFollowsSender

(* Every step of msgqsend.c keeps it. *)
LEMMA SenderKeeps == QueueIInv /\ (SenderRuns \/ RemoveQueue) => QueueIInv'
<1> SUFFICES ASSUME QueueIInv, SenderRuns \/ RemoveQueue PROVE QueueIInv'
  OBVIOUS
<1> USE QueueAssumption DEF QueueIInv, QueueTypeOK, QueueFollowsSender, UnderWay, SenderGoes
<1>1. CASE Touch
  BY <1>1 DEF Touch
<1>2. CASE CreateQueue
  BY <1>2 DEF CreateQueue
<1>3. CASE SendMessage
  <2>1. mailed + 1 \in 1 .. Messages
    BY <1>3 DEF SendMessage
  <2>2. /\ queue' \in Seq(1 .. Messages) /\ Len(queue') = Len(queue) + 1
        /\ \A n \in 1 .. Len(queue) : queue'[n] = queue[n]
        /\ queue'[Len(queue) + 1] = mailed + 1
    BY <1>3, <2>1, AppendProperties DEF SendMessage
  <2>3. QueueTypeOK'
    BY <1>3, <2>1, <2>2 DEF SendMessage
  <2>4. UnderWay'
    <3>1. queue_state # "removed" /\ queue_state' = queue_state /\ mailed' = mailed + 1 /\ newest' = newest
      BY <1>3 DEF SendMessage
    <3>2. Len(queue) \in Nat /\ Len(queue) = mailed - newest /\ mailed \in Nat /\ newest \in Nat
      BY <3>1
    <3>3. ASSUME NEW n \in 1 .. Len(queue') PROVE queue'[n] = newest + n
      <4>1. CASE n \in 1 .. Len(queue)
        BY <2>2, <3>1, <4>1
      <4>2. CASE n = Len(queue) + 1
        BY <2>2, <3>2, <4>2
      <4> QED
        BY <2>2, <3>2, <4>1, <4>2
    <3> QED
      BY <2>2, <3>1, <3>2, <3>3
  <2> QED
    BY <1>3, <2>2, <2>3, <2>4, SMTT(40) DEF SendMessage
<1>4. CASE DoneSending
  BY <1>4 DEF DoneSending
<1>5. CASE RemoveQueue
  BY <1>5 DEF RemoveQueue
<1> QED
  BY <1>1, <1>2, <1>3, <1>4, <1>5 DEF SenderRuns

(* The oldest message is the one after the last that was taken. *)
LEMMA ReceivesNext ==
  ASSUME NEW r \in Receivers, QueueIInv, ReceiveMessage(r)
  PROVE  newest < mailed /\ newest' = newest + 1
<1> USE DEF QueueIInv, QueueTypeOK, UnderWay, ReceiveMessage
<1>1. queue # <<>> /\ queue \in Seq(1 .. Messages)
  OBVIOUS
<1>2. Len(queue) \in Nat \ {0}
  BY <1>1, EmptySeq
<1>3. newest' = queue[1] /\ 1 \in 1 .. Len(queue)
  BY <1>2
<1> QED
  BY <1>1, <1>2, <1>3

(* Every step of a receiver, of whichever one, keeps the invariant. *)
LEMMA ReceiverKeeps ==
  ASSUME NEW r \in Receivers, QueueIInv, Start(r) \/ ReceiverRuns(r)
  PROVE  QueueIInv'
<1> USE QueueAssumption DEF QueueIInv, QueueTypeOK, QueueFollowsSender, UnderWay, ReceiverGoes
<1>1. CASE Start(r)
  BY <1>1 DEF Start
<1>2. CASE Connect(r)
  BY <1>2 DEF Connect
<1>3. CASE ReceiveMessage(r)
  <2>1. newest < mailed /\ newest' = newest + 1
    BY <1>3, ReceivesNext
  <2>2. /\ queue' \in Seq(1 .. Messages) /\ Len(queue') = Len(queue) - 1
        /\ \A n \in 1 .. Len(queue') : queue'[n] = queue[n + 1]
    <3>1. queue # <<>> /\ queue' = Tail(queue)
      BY <1>3 DEF ReceiveMessage
    <3> QED
      BY <3>1, HeadTailProperties
  <2>3. Len(queue) \in Nat \ {0}
    BY <1>3, EmptySeq DEF ReceiveMessage
  <2>4. QueueTypeOK'
    BY <1>3, <2>1, <2>2, <2>3, SMTT(40) DEF ReceiveMessage
  <2>5. UnderWay'
    <3>1. queue_state # "removed" /\ queue_state' = queue_state /\ mailed' = mailed
      BY <1>3 DEF ReceiveMessage
    <3>2. Len(queue) = mailed - newest /\ mailed \in Nat /\ newest \in Nat
      BY <3>1
    <3>3. ASSUME NEW n \in 1 .. Len(queue') PROVE queue'[n] = newest' + n
      <4>1. n + 1 \in 1 .. Len(queue)
        BY <2>2, <2>3
      <4> QED
        BY <2>1, <2>2, <3>1, <3>2, <4>1
    <3> QED
      BY <2>1, <2>2, <3>1, <3>2, <3>3
  <2> QED
    BY <1>3, <2>1, <2>2, <2>4, <2>5, SMTT(40) DEF ReceiveMessage
<1>4. CASE QueueGone(r)
  BY <1>4 DEF QueueGone
<1>5. CASE DoneReceiving(r)
  BY <1>5 DEF DoneReceiving
<1> QED
  BY <1>1, <1>2, <1>3, <1>4, <1>5 DEF ReceiverRuns

(* In every reachable state the queue holds exactly what is under way. *)
THEOREM QueueInductive == QueueSpec => []QueueIInv
<1>1. QueueInit => QueueIInv
  BY QueueInitially
<1>2. QueueIInv /\ [QueueNext]_QueueVars => QueueIInv'
  <2>1. QueueIInv /\ UNCHANGED QueueVars => QueueIInv'
    BY DEF QueueVars, QueueIInv, QueueTypeOK, QueueFollowsSender, UnderWay
  <2> QED
    BY <2>1, SenderKeeps, ReceiverKeeps DEF QueueNext, QueueRest
<1> QED
  BY <1>1, <1>2, PTL DEF QueueSpec

(* The queue, the counters and the control points keep their types: the    *)
(* queue never holds more than the kernel allows.                          *)
THEOREM QueueTypeCorrect == QueueSpec => []QueueTypeOK
<1>1. QueueIInv => QueueTypeOK
  BY DEF QueueIInv
<1> QED
  BY QueueInductive, <1>1, PTL

(* msgqsend.c and msgqrecv.c implement the channel: all receivers together *)
(* get each message once and in the order they were sent, whenever they    *)
(* are started and whenever the queue is removed.                          *)
THEOREM QueueImplementsChannel == QueueSpec => DeliversMessages
<1>1. QueueInit => QueueIsChannel!Init
  BY DEF QueueInit, QueueIsChannel!Init
<1>2. QueueIInv /\ [QueueNext]_QueueVars => [QueueIsChannel!Next]_(QueueIsChannel!chan)
  <2> SUFFICES ASSUME QueueIInv, [QueueNext]_QueueVars
               PROVE  QueueIsChannel!Next \/ UNCHANGED QueueIsChannel!chan
    OBVIOUS
  <2> USE DEF QueueIsChannel!Next, QueueIsChannel!Send, QueueIsChannel!Receive, QueueIsChannel!chan
  <2>1. CASE SendMessage
    BY <2>1 DEF SendMessage, SenderGoes, QueueIInv, QueueTypeOK, QueueFollowsSender, UnderWay
  <2>2. CASE Touch \/ CreateQueue \/ DoneSending \/ RemoveQueue
    BY <2>2 DEF Touch, CreateQueue, DoneSending, RemoveQueue, SenderGoes
  <2>3. ASSUME NEW r \in Receivers, ReceiveMessage(r) PROVE QueueIsChannel!Next
    <3>1. mailed' = mailed
      BY <2>3 DEF ReceiveMessage, ReceiverGoes
    <3> QED
      BY <2>3, <3>1, ReceivesNext
  <2>4. ASSUME NEW r \in Receivers, Start(r) \/ Connect(r) \/ QueueGone(r) \/ DoneReceiving(r)
        PROVE  UNCHANGED QueueIsChannel!chan
    BY <2>4 DEF Start, Connect, QueueGone, DoneReceiving, ReceiverGoes
  <2>5. CASE UNCHANGED QueueVars
    BY <2>5 DEF QueueVars
  <2> QED
    BY <2>1, <2>2, <2>3, <2>4, <2>5 DEF QueueNext, SenderRuns, ReceiverRuns, QueueRest
<1> QED
  BY <1>1, <1>2, QueueInductive, PTL DEF QueueSpec, DeliversMessages, QueueIsChannel!Spec

-----------------------------------------------------------------------------
(* bankaccount.c.                                                          *)

Holds(id) == bank[id] \in {"load", "store", "unlock"}

(* Who is between lock and unlock holds the mutex, so at most one is. *)
LockHeld == \A id \in Threads : Holds(id) => lock = id

(* What a thread has loaded is still the balance when it stores. *)
LoadedFresh == \A id \in Threads : bank[id] = "store" => loaded[id] = bankAccountBalance

(* The transaction in hand is one of those still to be made. *)
InTurn == \A id \in Threads : Holds(id) => made[id] < Transactions

BankIInv == BankTypeOK /\ LockHeld /\ InTurn /\ LoadedFresh /\ NoUpdateLost

(* What a thread deposits or withdraws is a whole number.                  *)
LEMMA ShareIsInt == \A id \in Threads : Share(id) \in Int
  BY BankAssumption DEF Share

(* The invariant holds at the start. *)
LEMMA BankInitially == BankInit => BankIInv
  BY BankAssumption DEF BankInit, BankIInv, BankTypeOK, LockHeld, Holds, InTurn, LoadedFresh, NoUpdateLost,
     Threads, Nobody

(* Every step of every thread keeps it. *)
LEMMA BankKeeps == BankIInv /\ [BankNext]_BankVars => BankIInv'
<1> SUFFICES ASSUME BankIInv, [BankNext]_BankVars PROVE BankIInv'
  OBVIOUS
<1> USE BankAssumption DEF BankIInv, BankTypeOK, LockHeld, Holds, InTurn, LoadedFresh, NoUpdateLost, BankGoes
<1>1. CASE CreateThread
  <2>1. created \in Threads
    BY <1>1 DEF CreateThread, Threads
  <2> QED
    BY <1>1, <2>1 DEF CreateThread
<1>2. CASE AllCreated
  BY <1>2 DEF AllCreated
<1>3. CASE Joined
  BY <1>3 DEF Joined
<1>4. ASSUME NEW t \in Threads, Teller(t) PROVE BankIInv'
  <2>1. CASE Lock(t)
    BY <2>1 DEF Lock, Threads, Nobody
  <2>2. CASE Load(t)
    BY <2>2 DEF Load
  <2>3. CASE Store(t)
    <3>1. Share(t) \in Int /\ loaded[t] = bankAccountBalance
      BY <2>3, ShareIsInt DEF Store
    <3>2. bankAccountBalance' = ledger'
      BY <2>3, <3>1 DEF Store
    <3>3. BankTypeOK'
      BY <2>3, <3>1 DEF Store
    <3>4. LoadedFresh'
      BY <2>3 DEF Store
    <3> QED
      BY <2>3, <3>2, <3>3, <3>4 DEF Store
  <2>4. CASE Unlock(t)
    BY <2>4 DEF Unlock
  <2>5. CASE AllMade(t)
    BY <2>5 DEF AllMade
  <2> QED
    BY <1>4, <2>1, <2>2, <2>3, <2>4, <2>5 DEF Teller
<1>5. CASE UNCHANGED BankVars
  BY <1>5 DEF BankVars
<1> QED
  BY <1>1, <1>2, <1>3, <1>4, <1>5 DEF BankNext, MainThread, BankRest

(* Each part of the invariant holds in every reachable state. *)
THEOREM BankInductive == BankSpec => []BankIInv
<1>1. BankInit => BankIInv
  BY BankInitially
<1>2. BankIInv /\ [BankNext]_BankVars => BankIInv'
  BY BankKeeps
<1> QED
  BY <1>1, <1>2, PTL DEF BankSpec

(* The balance is the sum of all transactions stored so far, whatever the  *)
(* schedule of the threads.                                                *)
THEOREM UpdatesKept == BankSpec => []NoUpdateLost
<1>1. BankIInv => NoUpdateLost
  BY DEF BankIInv
<1> QED
  BY BankInductive, <1>1, PTL

-----------------------------------------------------------------------------
(* diningprofessors.c.                                                     *)

(* A professor who is at a meal has not had all of them yet. *)
AtMeal == \A i \in Professors : professor[i] \notin {"away", "thinking", "gone"} => meals[i] < Meals

DiningIInv == DiningTypeOK /\ AtMeal /\ SeatsCounted

(* There are PROFESSORS professors.                                       *)
LEMMA ProfessorsFinite == IsFiniteSet(Professors) /\ Cardinality(Professors) = PROFESSORS
  BY FS_Interval, DiningAssumption DEF Professors

(* A set of professors is finite, and one who comes or goes counts one. *)
LEMMA OneMoreOrLess ==
  ASSUME NEW S, S \subseteq Professors, NEW i \in Professors
  PROVE  /\ Cardinality(S) \in Nat
         /\ i \notin S => Cardinality(S \cup {i}) = Cardinality(S) + 1
         /\ i \in S => Cardinality(S \ {i}) = Cardinality(S) - 1
<1>1. IsFiniteSet(S)
  BY FS_Subset, ProfessorsFinite
<1>2. Cardinality(S) \in Nat
  BY <1>1, FS_CardinalityType
<1>3. ASSUME i \notin S PROVE Cardinality(S \cup {i}) = Cardinality(S) + 1
  BY <1>1, <1>3, FS_AddElement
<1>4. ASSUME i \in S PROVE Cardinality(S \ {i}) = Cardinality(S) - 1
  BY <1>1, <1>4, FS_RemoveElement
<1> QED
  BY <1>2, <1>3, <1>4

(* The invariant holds when nobody has sat down.                           *)
LEMMA DiningInitially == DiningInit => DiningIInv
<1> SUFFICES ASSUME DiningInit PROVE DiningIInv
  OBVIOUS
<1>1. Single = {}
  BY DEF DiningInit, Single
<1>2. SeatsCounted
  BY <1>1, FS_EmptySet, DiningAssumption DEF SeatsCounted, DiningInit
<1>3. DiningTypeOK /\ AtMeal
  BY DiningAssumption DEF DiningInit, DiningTypeOK, AtMeal
<1> QED
  BY <1>2, <1>3 DEF DiningIInv

(* A step of a professor who does not pass the semaphore. *)
LEMMA SingleUnchanged ==
  ASSUME DiningIInv, Single' = Single, sem_single_chops' = sem_single_chops
  PROVE  SeatsCounted'
  BY DEF DiningIInv, SeatsCounted

(* Every step of every professor keeps the count. *)
LEMMA ProfessorKeeps ==
  ASSUME DiningIInv, NEW i \in Professors, Professor(i)
  PROVE  DiningIInv'
<1> USE DiningAssumption DEF ProfessorGoes
<1>1. professor \in [Professors -> {"away", "thinking", "wait_left", "wait_right", "post", "eating",
                                    "drop_left", "gone"}]
  BY DEF DiningIInv, DiningTypeOK
<1>2. Single \subseteq Professors
  BY DEF Single
<1>3. AtMeal' /\ sem_single_chops \in 0 .. PROFESSORS - 1
  BY DEF DiningIInv, DiningTypeOK, AtMeal, Professor, SitDown, WaitSingle, TakeLeft, TakeRight,
     PostSingle, DropRight, DropLeft, Leave
<1>4. CASE WaitSingle(i)
  <2>1. Single' = Single \cup {i} /\ i \notin Single
    BY <1>1, <1>4 DEF WaitSingle, Single
  <2>2. SeatsCounted'
    BY <1>2, <1>3, <1>4, <2>1, OneMoreOrLess DEF WaitSingle, SeatsCounted, DiningIInv
  <2>3. DiningTypeOK'
    BY <1>4 DEF WaitSingle, DiningIInv, DiningTypeOK
  <2> QED
    BY <1>3, <2>2, <2>3 DEF DiningIInv
<1>5. CASE PostSingle(i)
  <2>1. Single' = Single \ {i} /\ i \in Single
    BY <1>1, <1>5 DEF PostSingle, Single
  <2>2. SeatsCounted'
    BY <1>2, <1>3, <1>5, <2>1, OneMoreOrLess DEF PostSingle, SeatsCounted, DiningIInv
  <2>3. sem_single_chops' \in 0 .. PROFESSORS - 1
    <3>1. Single' \subseteq Professors
      BY <1>2, <2>1
    <3>2. Cardinality(Single') \in Nat
      BY <3>1, OneMoreOrLess
    <3> QED
      BY <1>3, <1>5, <2>2, <3>2 DEF PostSingle, SeatsCounted
  <2>4. DiningTypeOK'
    BY <1>5, <2>3 DEF PostSingle, DiningIInv, DiningTypeOK
  <2> QED
    BY <1>3, <2>2, <2>4 DEF DiningIInv
<1>6. CASE SitDown(i) \/ TakeLeft(i) \/ TakeRight(i) \/ DropRight(i) \/ DropLeft(i) \/ Leave(i)
  <2>1. Single' = Single /\ sem_single_chops' = sem_single_chops
    BY <1>1, <1>6 DEF Single, SitDown, TakeLeft, TakeRight, DropRight, DropLeft, Leave
  <2>2. ASSUME SitDown(i) PROVE DiningTypeOK'
    BY <2>2 DEF SitDown, DiningIInv, DiningTypeOK
  <2>3. ASSUME TakeLeft(i) PROVE DiningTypeOK'
    BY <2>3 DEF TakeLeft, DiningIInv, DiningTypeOK
  <2>4. ASSUME TakeRight(i) PROVE DiningTypeOK'
    BY <2>4 DEF TakeRight, DiningIInv, DiningTypeOK
  <2>5. ASSUME DropRight(i) PROVE DiningTypeOK'
    BY <2>5 DEF DropRight, DiningIInv, DiningTypeOK
  <2>6. ASSUME DropLeft(i) PROVE DiningTypeOK'
    BY <2>6 DEF DropLeft, DiningIInv, DiningTypeOK, AtMeal
  <2>7. ASSUME Leave(i) PROVE DiningTypeOK'
    BY <2>7 DEF Leave, DiningIInv, DiningTypeOK
  <2>8. DiningTypeOK'
    BY <1>6, <2>2, <2>3, <2>4, <2>5, <2>6, <2>7
  <2> QED
    BY <1>3, <2>1, <2>8, SingleUnchanged DEF DiningIInv
<1> QED
  BY <1>4, <1>5, <1>6 DEF Professor

(* The semaphore counts who may still take a first chopstick. *)
THEOREM DiningInductive == DiningSpec => []DiningIInv
<1>1. DiningInit => DiningIInv
  BY DiningInitially
<1>2. DiningIInv /\ [DiningNext]_DiningVars => DiningIInv'
  <2>1. DiningIInv /\ UNCHANGED DiningVars => DiningIInv'
    BY DEF DiningVars, DiningIInv, DiningTypeOK, AtMeal, SeatsCounted, Single
  <2> QED
    BY <2>1, ProfessorKeeps DEF DiningNext, DiningRest
<1> QED
  BY <1>1, <1>2, PTL DEF DiningSpec

(* Places of the semaphore and single chopsticks add up, always. *)
THEOREM SeatsAreCounted == DiningSpec => []SeatsCounted
<1>1. DiningIInv => SeatsCounted
  BY DEF DiningIInv
<1> QED
  BY DiningInductive, <1>1, PTL

(* At least one professor does not hold a single chopstick: the circle of  *)
(* professors who each wait for the next one is never closed.              *)
THEOREM NeverAllSingle == DiningSpec => [](Single # Professors)
<1>1. DiningIInv => Single # Professors
  <2> SUFFICES ASSUME DiningIInv, Single = Professors PROVE FALSE
    OBVIOUS
  <2>1. sem_single_chops + PROFESSORS = PROFESSORS - 1 /\ sem_single_chops \in 0 .. PROFESSORS - 1
    BY ProfessorsFinite DEF DiningIInv, SeatsCounted, DiningTypeOK
  <2> QED
    BY <2>1, DiningAssumption
<1> QED
  BY DiningInductive, <1>1, PTL

-----------------------------------------------------------------------------
(* semaphore.c.                                                            *)

TokenValues == {Absent} \cup Nat

TurnsTyped ==
  /\ my_sema1 \in TokenValues /\ my_sema2 \in TokenValues
  /\ parent \in {"open_1", "open_2", "fork", "wait", "print", "post", "unlink_1", "unlink_2", "done"}
  /\ child \in {"unborn", "wait", "print", "post", "done"}
  /\ printedA \in Nat /\ printedB \in Nat /\ letter \in {NoLetter, "A", "B"}
  /\ opened \in Nat /\ kills \in Nat

(* The child lives from the fork until after the parent's loop, and as     *)
(* long as it does both names exist.                                       *)
Together ==
  /\ child = "unborn" <=> parent \in {"open_1", "open_2", "fork"}
  /\ parent \in {"unlink_1", "unlink_2", "done"} => child = "done"
  /\ parent \in {"fork", "wait", "print", "post"} => my_sema1 \in Nat /\ my_sema2 \in Nat
  /\ parent = "open_2" => my_sema1 \in Nat

(* Until somebody kills it, the program starts without names and makes one *)
(* token.                                                                  *)
Fresh ==
  kills = 0 =>
    /\ parent = "open_1" => my_sema1 = Absent /\ my_sema2 = Absent
    /\ parent = "open_2" => my_sema1 = 1 /\ my_sema2 = Absent
    /\ parent = "fork" => my_sema1 = 1 /\ my_sema2 = 0
    /\ Running => opened = 1

(* Who has the only token has not printed the last letter. *)
LastLetter ==
  /\ child = "unborn" => letter = NoLetter
  /\ Running /\ opened <= 1 =>
       /\ my_sema1 > 0 \/ parent = "print" => letter # "A"
       /\ my_sema2 > 0 \/ child = "print" => letter # "B"
       /\ parent = "post" => letter = "A"
       /\ child = "post" => letter = "B"

TurnsIInv == TurnsTyped /\ Together /\ Fresh /\ TokensKept /\ LastLetter

(* The invariant holds before the program is first started. *)
LEMMA TurnsInitially == TurnsInit => TurnsIInv
  BY DEF TurnsInit, TurnsIInv, TurnsTyped, Together, Fresh, TokensKept, LastLetter, Running, TokenValues,
     Absent, NoLetter

(* Every step of the parent keeps it. *)
LEMMA ProcessAKeeps == TurnsIInv /\ ProcessA => TurnsIInv'
<1> SUFFICES ASSUME TurnsIInv, ProcessA PROVE TurnsIInv'
  OBVIOUS
<1> USE DEF TurnsIInv, TurnsTyped, Together, Fresh, TokensKept, LastLetter, Running, InHand, TokenValues,
        Absent, NoLetter, AGoes, Found
<1>1. CASE Open1
  BY <1>1 DEF Open1
<1>2. CASE Open2
  BY <1>2 DEF Open2
<1>3. CASE Fork
  BY <1>3 DEF Fork
<1>4. CASE WaitA
  BY <1>4 DEF WaitA
<1>5. CASE PrintA
  BY <1>5 DEF PrintA
<1>6. CASE PostB
  BY <1>6 DEF PostB
<1>7. CASE ChildEnded
  BY <1>7 DEF ChildEnded
<1>8. CASE Unlink1
  BY <1>8 DEF Unlink1
<1>9. CASE Unlink2
  BY <1>9 DEF Unlink2
<1> QED
  BY <1>1, <1>2, <1>3, <1>4, <1>5, <1>6, <1>7, <1>8, <1>9 DEF ProcessA

(* Every step of the child keeps it. *)
LEMMA ProcessBKeeps == TurnsIInv /\ ProcessB => TurnsIInv'
<1> SUFFICES ASSUME TurnsIInv, ProcessB PROVE TurnsIInv'
  OBVIOUS
<1> USE DEF TurnsIInv, TurnsTyped, Together, Fresh, TokensKept, LastLetter, Running, InHand, TokenValues,
        Absent, NoLetter, BGoes
<1>1. CASE WaitB
  BY <1>1 DEF WaitB
<1>2. CASE PrintB
  BY <1>2 DEF PrintB
<1>3. CASE PostA
  BY <1>3 DEF PostA
<1>4. CASE BEnds
  BY <1>4 DEF BEnds
<1> QED
  BY <1>1, <1>2, <1>3, <1>4 DEF ProcessB

(* So does a kill, between any two steps. *)
LEMMA KillKeeps == TurnsIInv /\ KillAndRestart => TurnsIInv'
  BY DEF TurnsIInv, TurnsTyped, Together, Fresh, TokensKept, LastLetter, Running, InHand, TokenValues,
     KillAndRestart

(* A step that changes nothing keeps everything. *)
LEMMA StutterKeeps == TurnsIInv /\ UNCHANGED TurnVars => TurnsIInv'
  BY DEF TurnsIInv, TurnsTyped, Together, Fresh, TokensKept, LastLetter, Running, InHand, TurnVars

(* Tokens and letters are related as above in every reachable state. *)
THEOREM TurnsInductive == TurnsSpec => []TurnsIInv
<1>1. TurnsInit => TurnsIInv
  BY TurnsInitially
<1>2. TurnsIInv /\ [TurnsNext]_TurnVars => TurnsIInv'
  BY ProcessAKeeps, ProcessBKeeps, KillKeeps, StutterKeeps DEF TurnsNext, TurnsRest
<1> QED
  BY <1>1, <1>2, PTL DEF TurnsSpec

(* A run neither makes nor loses a token. *)
THEOREM TokensAreKept == TurnsSpec => []TokensKept
<1>1. TurnsIInv => TokensKept
  BY DEF TurnsIInv
<1> QED
  BY TurnsInductive, <1>1, PTL

(* The letters alternate in every run that finds at most one token, and in *)
(* every run before the first kill.                                        *)
THEOREM TurnsAreTaken == TurnsSpec => TakesTurns
<1> DEFINE Alternates ==
      (opened <= 1 \/ kills = 0) =>
        (printedA' > printedA => letter # "A") /\ (printedB' > printedB => letter # "B")
<1>1. TurnsIInv /\ ProcessA => Alternates
  <2> SUFFICES ASSUME TurnsIInv, ProcessA, printedA' > printedA \/ printedB' > printedB,
                      opened <= 1 \/ kills = 0
               PROVE  printedA' > printedA /\ printedB' = printedB /\ letter # "A"
    BY DEF TurnsIInv, TurnsTyped
  <2>1. printedB' = printedB
    BY DEF ProcessA, AGoes, Open1, Open2, Fork, WaitA, PrintA, PostB, ChildEnded, Unlink1, Unlink2
  <2>2. PrintA
    BY <2>1 DEF TurnsIInv, TurnsTyped, ProcessA, Open1, Open2, Fork, WaitA, PostB, ChildEnded,
       Unlink1, Unlink2
  <2>3. parent = "print" /\ Running
    BY <2>2 DEF PrintA, AGoes, Running, TurnsIInv, Together
  <2>4. opened <= 1
    BY <2>3 DEF TurnsIInv, Fresh
  <2>5. letter # "A"
    BY <2>3, <2>4 DEF TurnsIInv, LastLetter
  <2> QED
    BY <2>1, <2>5 DEF TurnsIInv, TurnsTyped
<1>2. TurnsIInv /\ ProcessB => Alternates
  <2> SUFFICES ASSUME TurnsIInv, ProcessB, printedA' > printedA \/ printedB' > printedB,
                      opened <= 1 \/ kills = 0
               PROVE  printedB' > printedB /\ printedA' = printedA /\ letter # "B"
    BY DEF TurnsIInv, TurnsTyped
  <2>1. printedA' = printedA
    BY DEF ProcessB, BGoes, WaitB, PrintB, PostA, BEnds
  <2>2. PrintB
    BY <2>1 DEF TurnsIInv, TurnsTyped, ProcessB, WaitB, PostA, BEnds
  <2>3. child = "print" /\ Running
    BY <2>2 DEF PrintB, BGoes, Running, TurnsIInv, TurnsTyped, Together
  <2>4. opened <= 1
    BY <2>3 DEF TurnsIInv, Fresh
  <2>5. letter # "B"
    BY <2>3, <2>4 DEF TurnsIInv, LastLetter
  <2> QED
    BY <2>1, <2>5 DEF TurnsIInv, TurnsTyped
<1>3. TurnsIInv /\ KillAndRestart => Alternates
  BY DEF TurnsIInv, TurnsTyped, KillAndRestart
<1>4. TurnsIInv /\ UNCHANGED TurnVars => Alternates
  BY DEF TurnsIInv, TurnsTyped, TurnVars
<1>5. TurnsIInv /\ [TurnsNext]_TurnVars => [Alternates]_TurnVars
  BY <1>1, <1>2, <1>3, <1>4 DEF TurnsNext, TurnsRest
<1> QED
  BY TurnsInductive, <1>5, PTL DEF TurnsSpec, TakesTurns

(* A token is made only by a start that finds no first name, so that there *)
(* are never more tokens than there were starts; and who is between its    *)
(* wait and its print has a letter left to print.                          *)
Tokens(name) == IF name = Absent THEN 0 ELSE name
TokensBounded ==
  /\ Tokens(my_sema1) + Tokens(my_sema2) + InHand <= kills + (IF parent = "open_1" THEN 0 ELSE 1)
  /\ opened <= kills + 1 /\ kills <= MaxKills
  /\ printedA <= Turns /\ (parent = "print" => printedA < Turns)
  /\ printedB <= Turns /\ (child = "print" => printedB < Turns)

TurnsBounded == TurnsTyped /\ Together /\ TokensBounded

(* A kill leaves the tokens that are not in a hand, and a start adds one.  *)
LEMMA BoundsKept == TurnsBounded /\ [TurnsNext]_TurnVars => TurnsBounded'
<1> SUFFICES ASSUME TurnsBounded, [TurnsNext]_TurnVars PROVE TurnsBounded'
  OBVIOUS
<1> USE TurnsAssumption DEF TurnsBounded, TurnsTyped, Together, TokensBounded, Tokens, InHand, TokenValues,
        Absent, NoLetter, Found
<1>1. CASE Open1 \/ Open2 \/ Fork
  BY <1>1 DEF Open1, Open2, Fork, AGoes
<1>2. CASE WaitA \/ PrintA \/ PostB
  BY <1>2 DEF WaitA, PrintA, PostB, AGoes
<1>3. CASE ChildEnded \/ Unlink1 \/ Unlink2
  BY <1>3 DEF ChildEnded, Unlink1, Unlink2, AGoes
<1>4. CASE ProcessB
  BY <1>4 DEF ProcessB, WaitB, PrintB, PostA, BEnds, BGoes
<1>5. CASE KillAndRestart
  BY <1>5 DEF KillAndRestart
<1>6. CASE UNCHANGED TurnVars
  BY <1>6 DEF TurnVars
<1> QED
  BY <1>1, <1>2, <1>3, <1>4, <1>5, <1>6 DEF TurnsNext, ProcessA, TurnsRest

(* The names never hold more tokens than the program was started, and no   *)
(* process prints more letters than it has turns.                          *)
THEOREM TurnsTypeCorrect == TurnsSpec => []TurnsTypeOK
<1>1. TurnsInit => TurnsBounded
  BY TurnsAssumption DEF TurnsInit, TurnsBounded, TurnsTyped, Together, TokensBounded, Tokens, InHand,
     TokenValues, Absent, NoLetter
<1>2. TurnsBounded => TurnsTypeOK
  BY TurnsAssumption DEF TurnsBounded, TurnsTyped, TokensBounded, Tokens, InHand, TokenValues, TurnsTypeOK,
     Values, Absent
<1> QED
  BY <1>1, <1>2, BoundsKept, PTL DEF TurnsSpec

-----------------------------------------------------------------------------
(* Quick sort.                                                             *)

Segments == [low : Items, high : Items]

(* Elements i and j may still be out of order: one pending call, or the    *)
(* partition at hand, has both.                                            *)
Open(i, j) ==
  \/ \E n \in 1 .. Len(segments) : segments[n].low <= i /\ j <= segments[n].high
  \/ pivot_index # NoPivot /\ pivot_index <= i /\ j <= last

(* All other pairs are in order.                                           *)
OrderedOutside == \A i, j \in Items : i < j => v[i] <= v[j] \/ Open(i, j)

(* The pending calls, after the partition at hand, go up the array.        *)
SegmentsApart ==
  /\ \A n \in 1 .. Len(segments) : segments[n].low <= segments[n].high
  /\ \A m, n \in 1 .. Len(segments) : m < n => segments[m].high < segments[n].low
  /\ pivot_index # NoPivot => \A n \in 1 .. Len(segments) : last < segments[n].low

(* w has the elements of g in another order.                               *)
Permutes(w, g) ==
  \E f \in [Items -> Items] : /\ \A i, j \in Items : i # j => f[i] # f[j]
                              /\ \A i \in Items : w[i] = g[f[i]]

SortIInv == /\ SortTypeOK /\ PartitionInvariant /\ SegmentsApart /\ OrderedOutside
            /\ Permutes(v, given)

-----------------------------------------------------------------------------
(* An exchange of two elements permutes the array. *)
LEMMA SwapPermutes ==
  ASSUME NEW w \in [Items -> Numbers], NEW g \in [Items -> Numbers], Permutes(w, g),
         NEW x \in Items, NEW y \in Items
  PROVE  swap(w, x, y) \in [Items -> Numbers] /\ Permutes(swap(w, x, y), g)
<1>1. PICK f \in [Items -> Items] : /\ \A i, j \in Items : i # j => f[i] # f[j]
                                    /\ \A i \in Items : w[i] = g[f[i]]
  BY DEF Permutes
<1>2. swap(f, x, y) \in [Items -> Items]
  BY DEF swap
<1>3. \A i, j \in Items : i # j => swap(f, x, y)[i] # swap(f, x, y)[j]
  BY <1>1 DEF swap
<1>4. \A i \in Items : swap(w, x, y)[i] = g[swap(f, x, y)[i]]
  BY <1>1 DEF swap
<1> QED
  BY <1>2, <1>3, <1>4, ZenonT(40) DEF Permutes, swap

(* An exchange within one segment puts only pairs of that segment out of   *)
(* order, because every other pair with an element of it was in order.     *)
LEMMA SwapKeepsOrder ==
  ASSUME SortAssumption, SortTypeOK, OrderedOutside,
         NEW lo \in Items, NEW hi \in Items, NEW x \in lo .. hi, NEW y \in lo .. hi,
         \A i, j \in Items : i < j /\ Open(i, j) => (lo <= i /\ j <= hi) \/ hi < i \/ j < lo
  PROVE  \A i, j \in Items : i < j =>
            swap(v, x, y)[i] <= swap(v, x, y)[j] \/ Open(i, j) \/ (lo <= i /\ j <= hi)
<1> DEFINE w == swap(v, x, y)
<1> SUFFICES ASSUME NEW i \in Items, NEW j \in Items, i < j, ~(lo <= i /\ j <= hi), ~Open(i, j)
             PROVE  w[i] <= w[j]
  OBVIOUS
<1>1. \A n \in Items : \/ n \in lo .. hi /\ \E m \in lo .. hi : w[n] = v[m]
                       \/ n \notin lo .. hi /\ w[n] = v[n]
  BY DEF swap, SortTypeOK, Items
<1>2. CASE i \in lo .. hi
  <2>1. j \notin lo .. hi /\ hi < j
    BY <1>2 DEF Items
  <2>2. PICK m \in lo .. hi : w[i] = v[m]
    BY <1>1, <1>2
  <2>3. m \in Items /\ m < j /\ ~Open(m, j)
    BY <2>1 DEF Items
  <2> QED
    BY <1>1, <2>1, <2>2, <2>3 DEF OrderedOutside
<1>3. CASE j \in lo .. hi
  <2>1. i \notin lo .. hi /\ i < lo
    BY <1>3 DEF Items
  <2>2. PICK m \in lo .. hi : w[j] = v[m]
    BY <1>1, <1>3
  <2>3. m \in Items /\ i < m /\ ~Open(i, m)
    BY <2>1 DEF Items
  <2> QED
    BY <1>1, <2>1, <2>2, <2>3 DEF OrderedOutside
<1>4. CASE i \notin lo .. hi /\ j \notin lo .. hi
  BY <1>1, <1>4 DEF OrderedOutside
<1> QED
  BY <1>2, <1>3, <1>4

(* What is left when the next call is taken from the stack. *)
LEMMA Popped ==
  ASSUME NEW s, s \in Seq(Segments), s # <<>>
  PROVE  /\ Len(s) \in Nat \ {0} /\ Head(s) = s[1] /\ s[1] \in Segments
         /\ Tail(s) \in Seq(Segments) /\ Len(Tail(s)) = Len(s) - 1
         /\ \A n \in 1 .. Len(Tail(s)) : n + 1 \in 1 .. Len(s) /\ Tail(s)[n] = s[n + 1]
         /\ \A n \in 2 .. Len(s) : n - 1 \in 1 .. Len(Tail(s)) /\ Tail(s)[n - 1] = s[n]
<1>1. Len(s) \in Nat \ {0}
  BY EmptySeq
<1>2. Tail(s) \in Seq(Segments) /\ Len(Tail(s)) = Len(s) - 1
      /\ \A n \in 1 .. Len(Tail(s)) : Tail(s)[n] = s[n + 1]
  BY HeadTailProperties
<1>3. Head(s) = s[1] /\ s[1] \in Segments
  BY <1>1, ElementOfSeq
<1> QED
  BY <1>1, <1>2, <1>3

-----------------------------------------------------------------------------
(* The whole array is one pending call, and nothing was moved. *)
LEMMA SortInitially == SortInit => SortIInv
<1> SUFFICES ASSUME SortInit PROVE SortIInv
  OBVIOUS
<1> USE SortAssumption DEF SortInit
<1>1. Segment(0, MAX_ITEMS - 1) \in Segments
  BY DEF Segment, Segments, Items
<1>2. segments \in Seq(Segments) /\ Len(segments) = 1 /\ segments[1] = Segment(0, MAX_ITEMS - 1)
  BY <1>1
<1>3. SortTypeOK
  BY <1>2 DEF SortTypeOK, Segments, Items, NoPivot
<1>4. PartitionInvariant
  BY DEF PartitionInvariant
<1>5. SegmentsApart
  BY <1>2 DEF SegmentsApart, Segment
<1>6. OrderedOutside
  <2>1. \A i, j \in Items : Open(i, j)
    BY <1>2 DEF Open, Segment, Items
  <2> QED
    BY <2>1 DEF OrderedOutside
<1>7. Permutes(v, given)
  <2>1. [i \in Items |-> i] \in [Items -> Items]
    OBVIOUS
  <2> QED
    BY <2>1 DEF Permutes
<1> QED
  BY <1>3, <1>4, <1>5, <1>6, <1>7 DEF SortIInv

(* A segment of one element has no pair that could be out of order. *)
LEMMA ReturnKeeps == SortIInv /\ ReturnAtOnce => SortIInv'
<1> SUFFICES ASSUME SortIInv, ReturnAtOnce PROVE SortIInv'
  OBVIOUS
<1> USE SortAssumption DEF SortIInv, ReturnAtOnce
<1>1. segments \in Seq(Segments) /\ segments # <<>> /\ segments' = Tail(segments)
  BY DEF SortTypeOK, Segments
<1>2. /\ Head(segments) = segments[1] /\ segments' \in Seq(Segments) /\ Len(segments') = Len(segments) - 1
      /\ Len(segments) \in Nat \ {0}
      /\ \A n \in 1 .. Len(segments') : n + 1 \in 1 .. Len(segments) /\ segments'[n] = segments[n + 1]
      /\ \A n \in 2 .. Len(segments) : n - 1 \in 1 .. Len(segments') /\ segments'[n - 1] = segments[n]
  BY <1>1, Popped
<1>3. SortTypeOK'
  BY <1>2 DEF SortTypeOK, Segments
<1>4. PartitionInvariant'
  BY DEF PartitionInvariant
<1>5. SegmentsApart'
  BY <1>2 DEF SegmentsApart, NoPivot
<1>6. OrderedOutside'
  <2>1. ASSUME NEW i \in Items, NEW j \in Items, i < j, Open(i, j) PROVE Open(i, j)'
    <3>1. PICK n \in 1 .. Len(segments) : segments[n].low <= i /\ j <= segments[n].high
      BY <2>1 DEF Open
    <3>2. segments[1] \in Segments
      BY <1>1, <1>2, Popped
    <3>3. n # 1
      BY <1>2, <2>1, <3>1, <3>2 DEF Segments, Items
    <3>4. n - 1 \in 1 .. Len(segments') /\ segments'[n - 1] = segments[n]
      BY <1>2, <3>1, <3>3
    <3> QED
      BY <3>1, <3>4 DEF Open
  <2> QED
    BY <2>1 DEF OrderedOutside
<1>7. Permutes(v, given)'
  BY DEF Permutes
<1> QED
  BY <1>3, <1>4, <1>5, <1>6, <1>7

(* The call that is taken becomes the partition at hand. *)
LEMMA BeginKeeps == SortIInv /\ BeginPartition => SortIInv'
<1> SUFFICES ASSUME SortIInv, BeginPartition PROVE SortIInv'
  OBVIOUS
<1> USE SortAssumption DEF SortIInv
<1> DEFINE s == segments[1]
           middle == (s.low + s.high) \div 2
<1>1. segments \in Seq(Segments) /\ segments # <<>> /\ segments' = Tail(segments)
  BY DEF BeginPartition, SortTypeOK, Segments
<1>2. /\ Head(segments) = s /\ s \in Segments /\ 1 \in 1 .. Len(segments)
      /\ segments' \in Seq(Segments) /\ Len(segments') = Len(segments) - 1 /\ Len(segments) \in Nat
      /\ \A n \in 1 .. Len(segments') : n + 1 \in 1 .. Len(segments) /\ segments'[n] = segments[n + 1]
      /\ \A n \in 2 .. Len(segments) : n - 1 \in 1 .. Len(segments') /\ segments'[n - 1] = segments[n]
  BY <1>1, Popped
<1>3. /\ pivot_index = NoPivot /\ s.low < s.high /\ v' = swap(v, s.low, middle) /\ given' = given
      /\ pivot_index' = s.low /\ low' = s.low + 1 /\ high' = s.high /\ last' = s.high
  BY <1>2 DEF BeginPartition
<1>4. s.low \in Items /\ s.high \in Items /\ middle \in s.low .. s.high /\ middle \in Items
  BY <1>2, <1>3, SMTT(40) DEF Segments, Items
<1>5. v' \in [Items -> Numbers] /\ Permutes(v', given)
  BY <1>3, <1>4, SwapPermutes DEF SortTypeOK
<1>6. SortTypeOK'
  <2>1. pivot_index' \in Items /\ low' \in Int /\ high' \in Int /\ last' \in Int
    BY <1>3, <1>4 DEF Items
  <2> QED
    BY <1>2, <1>3, <1>4, <1>5, SMTT(40) DEF SortTypeOK, Segments, Items
<1>7. PartitionInvariant'
  <2>1. v'[pivot_index'] \in Int
    BY <1>3, <1>4, <1>5
  <2>2. \A i \in pivot_index' .. low' - 1 : i = pivot_index'
    BY <1>3, <1>4 DEF Items
  <2>3. \A i \in high' + 1 .. last' : FALSE
    BY <1>3, <1>4 DEF Items
  <2> QED
    BY <1>3, <1>4, <2>1, <2>2, <2>3 DEF PartitionInvariant, Items
<1>8. SegmentsApart'
  <2>1. ASSUME NEW n \in 1 .. Len(segments') PROVE s.high < segments'[n].low
    BY <1>2 DEF SegmentsApart
  <2>2. \A m, n \in 1 .. Len(segments') : m < n => segments'[m].high < segments'[n].low
    BY <1>2 DEF SegmentsApart
  <2>3. \A n \in 1 .. Len(segments') : segments'[n].low <= segments'[n].high
    BY <1>2 DEF SegmentsApart
  <2> QED
    BY <1>3, <2>1, <2>2, <2>3 DEF SegmentsApart
<1>9. OrderedOutside'
  <2>1. ASSUME NEW i \in Items, NEW j \in Items, i < j, Open(i, j)
        PROVE  (s.low <= i /\ j <= s.high) \/ s.high < i \/ j < s.low
    <3>1. PICK n \in 1 .. Len(segments) : segments[n].low <= i /\ j <= segments[n].high
      BY <1>3, <2>1 DEF Open
    <3>2. CASE n = 1
      BY <3>1, <3>2
    <3>3. CASE n # 1
      <4>1. segments[n] \in Segments /\ s.high < segments[n].low
        BY <1>1, <1>2, <3>3, ElementOfSeq DEF SegmentsApart
      <4> QED
        BY <1>4, <3>1, <4>1 DEF Segments, Items
    <3> QED
      BY <3>2, <3>3
  <2>2. ASSUME NEW i \in Items, NEW j \in Items, Open(i, j) \/ (s.low <= i /\ j <= s.high) PROVE Open(i, j)'
    <3>1. CASE s.low <= i /\ j <= s.high
      BY <1>3, <1>4, <3>1 DEF Open, Items, NoPivot
    <3>2. CASE Open(i, j)
      <4>1. PICK n \in 1 .. Len(segments) : segments[n].low <= i /\ j <= segments[n].high
        BY <1>3, <3>2 DEF Open
      <4>2. CASE n = 1
        BY <3>1, <4>1, <4>2
      <4>3. CASE n # 1
        BY <1>2, <4>1, <4>3 DEF Open
      <4> QED
        BY <4>2, <4>3
    <3> QED
      BY <2>2, <3>1, <3>2
  <2>3. \A i, j \in Items : i < j => v'[i] <= v'[j] \/ Open(i, j) \/ (s.low <= i /\ j <= s.high)
    <3>1. s.low \in s.low .. s.high
      BY <1>3, <1>4 DEF Items
    <3> QED
      BY <1>3, <1>4, <2>1, <3>1, SwapKeepsOrder, SMTT(40)
  <2> QED
    BY <2>2, <2>3 DEF OrderedOutside
<1> QED
  BY <1>3, <1>5, <1>6, <1>7, <1>8, <1>9

(* The indices close in on each other over elements on their right side. *)
LEMMA MoveKeeps == SortIInv /\ (MoveLow \/ MoveHigh) => SortIInv'
<1> SUFFICES ASSUME SortIInv, MoveLow \/ MoveHigh PROVE SortIInv'
  OBVIOUS
<1> USE SortAssumption DEF SortIInv, Partitioning
<1>1. UNCHANGED <<v, given, segments, pivot_index, last>>
  BY DEF MoveLow, MoveHigh
<1>2. SortTypeOK' /\ PartitionInvariant'
  <2>1. CASE MoveLow
    BY <1>1, <2>1, SMTT(40) DEF MoveLow, SortTypeOK, PartitionInvariant, Items, NoPivot
  <2>2. CASE MoveHigh
    BY <1>1, <2>2 DEF MoveHigh, SortTypeOK, PartitionInvariant, Items, NoPivot
  <2> QED
    BY <2>1, <2>2
<1>3. SegmentsApart' /\ OrderedOutside' /\ Permutes(v, given)'
  BY <1>1 DEF SegmentsApart, OrderedOutside, Open, Permutes
<1> QED
  BY <1>2, <1>3

(* An exchange stays between the indices. *)
LEMMA ExchangeKeeps == SortIInv /\ Exchange => SortIInv'
<1> SUFFICES ASSUME SortIInv, Exchange PROVE SortIInv'
  OBVIOUS
<1> USE SortAssumption DEF SortIInv
<1>1. /\ v' = swap(v, low, high) /\ UNCHANGED <<given, segments, low, high, pivot_index, last>>
      /\ pivot_index # NoPivot /\ low <= high /\ v[low] > v[pivot_index] /\ v[high] <= v[pivot_index]
  BY DEF Exchange, Partitioning
<1>2. /\ pivot_index \in Items /\ low \in Items /\ high \in Items /\ last \in Items
      /\ pivot_index < low /\ high <= last
  BY <1>1 DEF SortTypeOK, PartitionInvariant, Items
<1>3. v' \in [Items -> Numbers] /\ Permutes(v', given)
  BY <1>1, <1>2, SwapPermutes DEF SortTypeOK
<1>4. SortTypeOK'
  BY <1>1, <1>3 DEF SortTypeOK
<1>5. PartitionInvariant'
  <2>1. \A i \in pivot_index .. last : i # low /\ i # high => v'[i] = v[i]
    BY <1>1, <1>2 DEF swap, SortTypeOK, Items
  <2> QED
    BY <1>1, <1>2, <2>1 DEF PartitionInvariant, Items
<1>6. SegmentsApart'
  BY <1>1 DEF SegmentsApart
<1>7. OrderedOutside'
  <2>1. ASSUME NEW i \in Items, NEW j \in Items, i < j, Open(i, j)
        PROVE  (pivot_index <= i /\ j <= last) \/ last < i \/ j < pivot_index
    <3>1. CASE pivot_index <= i /\ j <= last
      BY <3>1
    <3>2. ASSUME NEW n \in 1 .. Len(segments), segments[n].low <= i PROVE last < i
      <4>1. segments[n] \in Segments /\ last < segments[n].low
        BY <1>1, ElementOfSeq DEF SortTypeOK, SegmentsApart, Segments
      <4> QED
        BY <1>2, <3>2, <4>1, SMTT(40) DEF Segments, Items
    <3> QED
      BY <2>1, <3>1, <3>2 DEF Open
  <2>2. low \in pivot_index .. last /\ high \in pivot_index .. last
    BY <1>1, <1>2 DEF Items
  <2>3. \A i, j \in Items : i < j => v'[i] <= v'[j] \/ Open(i, j) \/ (pivot_index <= i /\ j <= last)
    BY <1>1, <1>2, <2>1, <2>2, SwapKeepsOrder
  <2>4. \A i, j \in Items : Open(i, j) \/ (pivot_index <= i /\ j <= last) => Open(i, j)'
    BY <1>1 DEF Open
  <2> QED
    BY <2>3, <2>4 DEF OrderedOutside
<1> QED
  BY <1>1, <1>3, <1>4, <1>5, <1>6, <1>7

(* The two calls that a partition ends with: they are within its segment,  *)
(* the lower one first, and leave out nothing but the place of the pivot.  *)
LEMMA Halves ==
  ASSUME SortAssumption, NEW p \in Items, NEW h \in Items, NEW l \in Items, p <= h, h <= l
  PROVE  LET lower == IF p < h THEN <<Segment(p, h - 1)>> ELSE <<>>
             upper == IF h < l THEN <<Segment(h + 1, l)>> ELSE <<>>
             both  == lower \o upper
         IN  /\ both \in Seq(Segments)
             /\ \A n \in 1 .. Len(both) : p <= both[n].low /\ both[n].low <= both[n].high /\ both[n].high <= l
             /\ \A m, n \in 1 .. Len(both) : m < n => both[m].high < both[n].low
             /\ p < h => \E n \in 1 .. Len(both) : both[n] = Segment(p, h - 1)
             /\ h < l => \E n \in 1 .. Len(both) : both[n] = Segment(h + 1, l)
<1> DEFINE lower == IF p < h THEN <<Segment(p, h - 1)>> ELSE <<>>
           upper == IF h < l THEN <<Segment(h + 1, l)>> ELSE <<>>
           both  == lower \o upper
<1>1. p < h => Segment(p, h - 1) \in Segments /\ Segment(p, h - 1).low = p /\ Segment(p, h - 1).high = h - 1
  BY SortAssumption DEF Segment, Segments, Items
<1>2. h < l => Segment(h + 1, l) \in Segments /\ Segment(h + 1, l).low = h + 1 /\ Segment(h + 1, l).high = l
  BY SortAssumption DEF Segment, Segments, Items
<1>3. /\ lower \in Seq(Segments) /\ Len(lower) = IF p < h THEN 1 ELSE 0
      /\ p < h => lower[1] = Segment(p, h - 1)
  BY <1>1, EmptySeq
<1>4. /\ upper \in Seq(Segments) /\ Len(upper) = IF h < l THEN 1 ELSE 0
      /\ h < l => upper[1] = Segment(h + 1, l)
  BY <1>2, EmptySeq
<1> HIDE DEF lower, upper
<1>5. /\ both \in Seq(Segments) /\ Len(both) = Len(lower) + Len(upper)
      /\ \A n \in 1 .. Len(lower) + Len(upper) :
           both[n] = IF n <= Len(lower) THEN lower[n] ELSE upper[n - Len(lower)]
  BY <1>3, <1>4, ConcatProperties, SMTT(40)
<1> HIDE DEF both
<1>6. p < h => Len(lower) = 1 /\ 1 \in 1 .. Len(both) /\ both[1] = Segment(p, h - 1)
  BY <1>3, <1>4, <1>5
<1>7. h < l => /\ Len(both) = Len(lower) + 1 /\ Len(both) \in 1 .. Len(both)
               /\ both[Len(both)] = Segment(h + 1, l)
  BY <1>3, <1>4, <1>5
<1>8. \A n \in 1 .. Len(both) : \/ n = 1 /\ p < h
                                \/ n = Len(both) /\ h < l /\ (p < h => n = 2)
  <2>1. Len(both) = (IF p < h THEN 1 ELSE 0) + (IF h < l THEN 1 ELSE 0)
    BY <1>3, <1>4, <1>5
  <2> QED
    BY <2>1
<1>9. \A n \in 1 .. Len(both) : p <= both[n].low /\ both[n].low <= both[n].high /\ both[n].high <= l
  BY <1>1, <1>2, <1>6, <1>7, <1>8 DEF Items
<1>10. \A m, n \in 1 .. Len(both) : m < n => both[m].high < both[n].low
  <2> SUFFICES ASSUME NEW m \in 1 .. Len(both), NEW n \in 1 .. Len(both), m < n
               PROVE  both[m].high < both[n].low
    OBVIOUS
  <2>1. m = 1 /\ p < h /\ n = Len(both) /\ h < l
    BY <1>8
  <2> QED
    BY <1>1, <1>2, <1>6, <1>7, <2>1 DEF Items
<1> QED
  BY <1>5, <1>6, <1>7, <1>9, <1>10 DEF lower, upper, both

(* With the pivot between the two groups, only pairs within one group may  *)
(* be out of order.                                                        *)
LEMMA EndKeeps == SortIInv /\ EndPartition => SortIInv'
<1> SUFFICES ASSUME SortIInv, EndPartition PROVE SortIInv'
  OBVIOUS
<1> USE SortAssumption DEF SortIInv
<1> DEFINE both == (IF pivot_index < high THEN <<Segment(pivot_index, high - 1)>> ELSE <<>>)
                   \o (IF high < last THEN <<Segment(high + 1, last)>> ELSE <<>>)
<1>1. /\ v' = swap(v, pivot_index, high) /\ segments' = both \o segments /\ pivot_index' = NoPivot
      /\ pivot_index # NoPivot /\ UNCHANGED <<given, low, high, last>>
  BY DEF EndPartition
<1>2. /\ pivot_index \in Items /\ high \in Items /\ last \in Items /\ low = high + 1
      /\ pivot_index <= high /\ high <= last
  BY <1>1 DEF EndPartition, SortTypeOK, PartitionInvariant, Items
<1>3. /\ both \in Seq(Segments)
      /\ \A n \in 1 .. Len(both) : /\ pivot_index <= both[n].low /\ both[n].low <= both[n].high
                                   /\ both[n].high <= last
      /\ \A m, n \in 1 .. Len(both) : m < n => both[m].high < both[n].low
      /\ pivot_index < high => \E n \in 1 .. Len(both) : both[n] = Segment(pivot_index, high - 1)
      /\ high < last => \E n \in 1 .. Len(both) : both[n] = Segment(high + 1, last)
  BY <1>2, Halves
<1> HIDE DEF both
<1>4. segments \in Seq(Segments) /\ Len(segments) \in Nat /\ Len(both) \in Nat
  BY <1>3 DEF SortTypeOK, Segments
<1>5. /\ segments' \in Seq(Segments) /\ Len(segments') = Len(both) + Len(segments)
      /\ \A n \in 1 .. Len(segments') :
           segments'[n] = IF n <= Len(both) THEN both[n] ELSE segments[n - Len(both)]
  BY <1>1, <1>3, <1>4, ConcatProperties
<1>6. /\ \A n \in 1 .. Len(both) : n \in 1 .. Len(segments') /\ segments'[n] = both[n]
      /\ \A n \in 1 .. Len(segments) :
           n + Len(both) \in 1 .. Len(segments') /\ segments'[n + Len(both)] = segments[n]
  <2>1. ASSUME NEW n \in 1 .. Len(both) PROVE n \in 1 .. Len(segments') /\ segments'[n] = both[n]
    BY <1>4, <1>5
  <2>2. ASSUME NEW n \in 1 .. Len(segments)
        PROVE  n + Len(both) \in 1 .. Len(segments') /\ segments'[n + Len(both)] = segments[n]
    <3>1. n + Len(both) \in 1 .. Len(segments') /\ ~(n + Len(both) <= Len(both)) /\ n + Len(both) - Len(both) = n
      BY <1>4, <1>5
    <3> QED
      BY <1>5, <3>1
  <2> QED
    BY <2>1, <2>2
<1>7. v' \in [Items -> Numbers] /\ Permutes(v', given)
  BY <1>1, <1>2, SwapPermutes DEF SortTypeOK
<1>8. SortTypeOK'
  BY <1>1, <1>5, <1>7 DEF SortTypeOK, Segments
<1>9. PartitionInvariant'
  BY <1>1 DEF PartitionInvariant
<1>10. SegmentsApart'
  <2>1. \A n \in 1 .. Len(segments) : last < segments[n].low /\ segments[n].low <= segments[n].high
    BY <1>1 DEF SegmentsApart
  <2>2. \A n \in 1 .. Len(segments) : segments[n].low \in Items /\ segments[n].high \in Items
    <3>1. \A n \in 1 .. Len(segments) : segments[n] \in Segments
      BY <1>4, ElementOfSeq
    <3> QED
      BY <3>1 DEF Segments
  <2>3. \A n \in 1 .. Len(both) : both[n].low \in Items /\ both[n].high \in Items
    <3>1. \A n \in 1 .. Len(both) : both[n] \in Segments
      BY <1>3, ElementOfSeq
    <3> QED
      BY <3>1 DEF Segments
  <2>4. ASSUME NEW m \in 1 .. Len(segments'), NEW n \in 1 .. Len(segments'), m < n
        PROVE  segments'[m].high < segments'[n].low
    <3>1. CASE n <= Len(both)
      BY <1>3, <1>4, <1>5, <2>4, <3>1, SMTT(40)
    <3>2. CASE m <= Len(both) /\ n > Len(both)
      <4>1. n - Len(both) \in 1 .. Len(segments) /\ m \in 1 .. Len(both)
        BY <1>4, <1>5, <3>2
      <4>2. last < segments[n - Len(both)].low /\ both[m].high <= last
        BY <1>3, <2>1, <4>1
      <4>3. segments'[m] = both[m] /\ segments'[n] = segments[n - Len(both)]
        BY <1>4, <1>5, <3>2
      <4>4. both[m].high \in Items /\ segments[n - Len(both)].low \in Items
        BY <2>2, <2>3, <4>1
      <4> QED
        BY <1>2, <4>2, <4>3, <4>4, SMTT(40) DEF Items
    <3>3. CASE m > Len(both)
      <4>1. m - Len(both) \in 1 .. Len(segments) /\ n - Len(both) \in 1 .. Len(segments)
            /\ m - Len(both) < n - Len(both)
        BY <1>4, <1>5, <2>4, <3>3
      <4>2. segments'[m] = segments[m - Len(both)] /\ segments'[n] = segments[n - Len(both)]
        BY <1>4, <1>5, <2>4, <3>3
      <4> QED
        BY <4>1, <4>2 DEF SegmentsApart
    <3> QED
      BY <1>4, <3>1, <3>2, <3>3
  <2>5. ASSUME NEW n \in 1 .. Len(segments') PROVE segments'[n].low <= segments'[n].high
    <3>1. CASE n <= Len(both)
      BY <1>3, <1>4, <1>5, <3>1
    <3>2. CASE n > Len(both)
      <4>1. n - Len(both) \in 1 .. Len(segments) /\ segments'[n] = segments[n - Len(both)]
        BY <1>4, <1>5, <3>2
      <4> QED
        BY <2>1, <4>1
    <3> QED
      BY <1>4, <3>1, <3>2
  <2> QED
    BY <1>1, <2>4, <2>5 DEF SegmentsApart
<1>11. OrderedOutside'
  <2> SUFFICES ASSUME NEW i \in Items, NEW j \in Items, i < j, ~Open(i, j)' PROVE v'[i] <= v'[j]
    BY DEF OrderedOutside
  <2>1. ~(pivot_index <= i /\ j < high) /\ ~(high < i /\ j <= last)
    <3>1. CASE pivot_index <= i /\ j < high
      <4>1. PICK n \in 1 .. Len(both) : both[n] = Segment(pivot_index, high - 1)
        BY <1>2, <1>3, <3>1 DEF Items
      <4>2. segments'[n].low = pivot_index /\ segments'[n].high = high - 1 /\ n \in 1 .. Len(segments')
        BY <1>6, <4>1 DEF Segment
      <4> QED
        BY <1>2, <3>1, <4>2 DEF Open, Items
    <3>2. CASE high < i /\ j <= last
      <4>1. PICK n \in 1 .. Len(both) : both[n] = Segment(high + 1, last)
        BY <1>2, <1>3, <3>2 DEF Items
      <4>2. segments'[n].low = high + 1 /\ segments'[n].high = last /\ n \in 1 .. Len(segments')
        BY <1>6, <4>1 DEF Segment
      <4> QED
        BY <1>2, <3>2, <4>2 DEF Open, Items
    <3> QED
      BY <3>1, <3>2
  <2>2. CASE pivot_index <= i /\ j <= last
    <3>1. i <= high /\ high <= j
      BY <1>2, <2>1, <2>2 DEF Items
    <3>2. v[pivot_index] \in Int /\ v[high] <= v[pivot_index]
      <4>1. \A n \in pivot_index .. low - 1 : v[n] <= v[pivot_index]
        BY <1>1 DEF PartitionInvariant
      <4>2. high \in pivot_index .. low - 1
        BY <1>2 DEF Items
      <4> QED
        BY <1>2, <4>1, <4>2 DEF SortTypeOK
    <3>3. v'[high] = v[pivot_index] /\ \A n \in Items : v'[n] \in Int
      BY <1>1, <1>2, <1>7 DEF swap, SortTypeOK
    <3>4. v'[i] <= v[pivot_index]
      <4>1. CASE i = high
        BY <3>2, <3>3, <4>1
      <4>2. CASE i = pivot_index /\ i # high
        BY <1>1, <1>2, <3>2, <4>2 DEF swap, SortTypeOK
      <4>3. CASE i # pivot_index /\ i # high
        <5>1. \A n \in pivot_index .. low - 1 : v[n] <= v[pivot_index]
          BY <1>1 DEF PartitionInvariant
        <5>2. i \in pivot_index .. low - 1 /\ v'[i] = v[i]
          BY <1>1, <1>2, <2>2, <3>1, <4>3 DEF swap, SortTypeOK, Items
        <5> QED
          BY <5>1, <5>2
      <4> QED
        BY <4>1, <4>2, <4>3
    <3>5. v[pivot_index] <= v'[j]
      BY <1>1, <1>2, <2>2, <3>1, <3>2, <3>3, SMTT(40) DEF PartitionInvariant, swap, SortTypeOK, Items
    <3> QED
      BY <3>2, <3>3, <3>4, <3>5
  <2>3. CASE ~(pivot_index <= i /\ j <= last)
    <3>1. ASSUME NEW x \in Items, NEW y \in Items, x < y, Open(x, y)
          PROVE  (pivot_index <= x /\ y <= last) \/ last < x \/ y < pivot_index
      <4>1. CASE pivot_index <= x /\ y <= last
        BY <4>1
      <4>2. ASSUME NEW n \in 1 .. Len(segments), segments[n].low <= x PROVE last < x
        <5>1. segments[n] \in Segments /\ last < segments[n].low
          BY <1>1, <1>4, ElementOfSeq DEF SegmentsApart
        <5> QED
          BY <1>2, <4>2, <5>1 DEF Segments, Items
      <4> QED
        BY <3>1, <4>1, <4>2 DEF Open
    <3>2. pivot_index \in pivot_index .. last /\ high \in pivot_index .. last
      BY <1>2 DEF Items
    <3>3. v'[i] <= v'[j] \/ Open(i, j)
      BY <1>1, <1>2, <2>3, <3>1, <3>2, SwapKeepsOrder
    <3>4. Open(i, j) => \E n \in 1 .. Len(segments) : segments[n].low <= i /\ j <= segments[n].high
      BY <2>3 DEF Open
    <3>5. ~Open(i, j)
      BY <1>6, <3>4 DEF Open
    <3> QED
      BY <3>3, <3>5
  <2> QED
    BY <2>2, <2>3
<1> QED
  BY <1>1, <1>7, <1>8, <1>9, <1>10, <1>11

-----------------------------------------------------------------------------
(* In every reachable state, only pairs that a pending call still sorts    *)
(* may be out of order.                                                    *)
THEOREM SortInductive == SortSpec => []SortIInv
<1>1. SortInit => SortIInv
  BY SortInitially
<1>2. SortIInv /\ [SortNext]_SortVars => SortIInv'
  <2>1. SortIInv /\ UNCHANGED SortVars => SortIInv'
    <3> SUFFICES ASSUME SortIInv, UNCHANGED SortVars PROVE SortIInv'
      OBVIOUS
    <3>1. SortTypeOK' /\ PartitionInvariant' /\ SegmentsApart'
      BY DEF SortVars, SortIInv, SortTypeOK, PartitionInvariant, SegmentsApart
    <3>2. OrderedOutside' /\ Permutes(v, given)'
      BY DEF SortVars, SortIInv, OrderedOutside, Open, Permutes
    <3> QED
      BY <3>1, <3>2 DEF SortIInv
  <2> QED
    BY <2>1, ReturnKeeps, BeginKeeps, MoveKeeps, ExchangeKeeps, EndKeeps DEF SortNext, Sorting, SortRest
<1> QED
  BY <1>1, <1>2, PTL DEF SortSpec

(* The comment at qsortseq.c:41-44 holds at every turn of the loop, and    *)
(* neither index leaves the segment: low does not run past the end when    *)
(* all elements equal the pivot, and high does not wrap below 0.           *)
THEOREM PartitionCorrect == SortSpec => []PartitionInvariant
<1>1. SortIInv => PartitionInvariant
  BY DEF SortIInv
<1> QED
  BY SortInductive, <1>1, PTL

(* When all calls have returned the array is the given one in ascending    *)
(* order: nothing is lost, and nothing twice.                              *)
THEOREM SortCorrect == SortSpec => []SortsIt
<1>1. SortIInv => SortsIt
  <2> SUFFICES ASSUME SortIInv, AllSorted PROVE /\ \A i, j \in Items : i <= j => v[i] <= v[j]
                                              /\ Permutes(v, given)
    BY DEF SortsIt, Permutes
  <2>1. \A i, j \in Items : ~Open(i, j)
    BY EmptySeq DEF AllSorted, Open
  <2>2. \A i \in Items : v[i] \in Int
    BY SortAssumption DEF SortIInv, SortTypeOK
  <2> QED
    BY <2>1, <2>2 DEF SortIInv, OrderedOutside, Items
<1> QED
  BY SortInductive, <1>1, PTL

(* The array and the stack of calls keep their types: the indices of every *)
(* call are those of elements.                                             *)
THEOREM SortTypeCorrect == SortSpec => []SortTypeOK
<1>1. SortIInv => SortTypeOK
  BY DEF SortIInv
<1> QED
  BY SortInductive, <1>1, PTL

-----------------------------------------------------------------------------
(* Multiplication of matrices.                                             *)

(* The rows of thread i.                                                   *)
Mine(i) == Args(i).start .. Args(i).stop - 1

Initialised(r) == a[r] = 1 /\ b[r] = 1

(* The threads that multiply exist, from the first to the last or to the   *)
(* one main creates next.                                                  *)
MulStarted(i) == \/ main = "create_mul" /\ i < handled
                 \/ main \in {"join_mul", "done"} /\ i < nWorkers

(* Where a thread can be, depending on what main does.                     *)
InStep(i) ==
  /\ i >= nWorkers => worker[i] = "none"
  /\ main = "init" => worker[i] = "none"
  /\ main = "create_init" => IF i < handled THEN worker[i] \in {"begin_init", "init", "ended"} ELSE worker[i] = "none"
  /\ main = "join_init" /\ i < nWorkers => /\ worker[i] \in {"begin_init", "init", "ended"}
                                           /\ i < handled => worker[i] = "ended"
  /\ main = "create_mul" => IF i < handled THEN worker[i] \in {"begin_mul", "mul", "ended"}
                                           ELSE worker[i] \in {"none", "ended"}
  /\ main = "join_mul" /\ i < nWorkers => /\ worker[i] \in {"begin_mul", "mul", "ended"}
                                          /\ i < handled => worker[i] = "ended"
  /\ main = "done" /\ i < nWorkers => worker[i] = "ended"

(* A thread has its own rows and stays in them.                            *)
InRange(i) ==
  /\ worker[i] \in {"begin_init", "begin_mul"} => mulArgs[i] = Args(i)
  /\ worker[i] \in {"init", "mul"} => stop[i] = Args(i).stop /\ Args(i).start <= row[i] /\ row[i] <= stop[i]

(* Main waits for all rows to be initialised, of which each thread does    *)
(* its own.                                                                *)
InitRight ==
  /\ main \in {"create_mul", "join_mul", "done"} => \A r \in Rows : Initialised(r)
  /\ main \in {"create_init", "join_init"} =>
       \A i \in Workers :
         /\ worker[i] = "init" => \A r \in Args(i).start .. row[i] - 1 : Initialised(r)
         /\ worker[i] = "ended" => \A r \in Mine(i) : Initialised(r)

(* A thread that multiplies has finished the rows before the one it works  *)
(* on, and the sum of that one has k terms.                                *)
SumsRight(i) ==
  MulStarted(i) =>
    /\ worker[i] = "mul" => /\ \A r \in Args(i).start .. row[i] - 1 : c[r] = SIZE
                            /\ row[i] < stop[i] /\ k[i] > 0 => c[row[i]] = k[i]
    /\ worker[i] = "ended" => \A r \in Mine(i) : c[r] = SIZE

MatIInv == /\ MatTypeOK /\ handled <= nWorkers /\ (main \in {"init", "done"} => handled = 0)
           /\ \A i \in Workers : InStep(i) /\ InRange(i) /\ SumsRight(i)
           /\ InitRight

-----------------------------------------------------------------------------
(* THREADS divides SIZE, and every thread gets at least one row. *)
LEMMA Division ==
  /\ SIZE \div THREADS \in Nat \ {0} /\ SIZE = THREADS * (SIZE \div THREADS)
  /\ THREADS \in Nat \ {0} /\ THREADS <= SIZE
<1>1. SIZE \in Nat /\ THREADS \in Nat \ {0} /\ THREADS <= SIZE /\ SIZE % THREADS = 0
  BY MatAssumption
<1>2. SIZE = THREADS * (SIZE \div THREADS) + (SIZE % THREADS) /\ SIZE \div THREADS \in Int
  BY <1>1
<1>3. SIZE = THREADS * (SIZE \div THREADS)
  BY <1>1, <1>2
<1>4. SIZE \div THREADS >= 1
  BY <1>1, <1>2, <1>3
<1> QED
  BY <1>1, <1>2, <1>3, <1>4

(* Multiples of the number of rows of a thread go up with the thread. *)
LEMMA Multiples ==
  ASSUME NEW i \in Nat, NEW j \in Nat, NEW n \in Nat, i <= j
  PROVE  i * n \in Nat /\ i * n <= j * n /\ (i + 1) * n = i * n + n
OBVIOUS

(* Every number is in one of the intervals of length n that start at the   *)
(* multiples of n.                                                         *)
LEMMA Quotient ==
  ASSUME NEW r \in Nat, NEW n \in Nat \ {0}
  PROVE  \E q \in Nat : q * n <= r /\ r < (q + 1) * n
<1>1. r = n * (r \div n) + (r % n) /\ r \div n \in Int /\ r % n \in 0 .. n - 1
  OBVIOUS
<1>2. r \div n \in Nat
  BY <1>1
<1>3. (r \div n) * n <= r /\ r < ((r \div n) + 1) * n
  BY <1>1
<1> QED
  BY <1>2, <1>3

(* The threads divide the rows among them: each has rows of the matrix, no *)
(* row belongs to two of them, and every row to one.                       *)
LEMMA RowsDivided ==
  ASSUME MatTypeOK
  PROVE  /\ nWorkers \in 1 .. SIZE
         /\ \A i \in 0 .. nWorkers - 1 : /\ Args(i).start \in Rows /\ Args(i).stop \in 0 .. SIZE
                                         /\ Args(i).start < Args(i).stop
         /\ \A i, j \in 0 .. nWorkers - 1 : i < j => Args(i).stop <= Args(j).start
         /\ \A r \in Rows : \E i \in 0 .. nWorkers - 1 : r \in Mine(i)
<1>1. CASE version # "matmulpar3"
  <2>1. nWorkers = SIZE /\ \A i \in Workers : Args(i) = RowRange(i, i + 1)
    BY <1>1 DEF nWorkers, Args
  <2> QED
    BY <2>1, MatAssumption DEF RowRange, Rows, Workers, Mine
<1>2. CASE version = "matmulpar3"
  <2> DEFINE n == SIZE \div THREADS
  <2>1. nWorkers = THREADS /\ \A i : Args(i).start = i * n /\ Args(i).stop = (i + 1) * n
    BY <1>2 DEF nWorkers, Args, RowRange
  <2>2. n \in Nat \ {0} /\ SIZE = THREADS * n /\ THREADS \in Nat \ {0} /\ THREADS <= SIZE /\ SIZE \in Nat
    BY Division, MatAssumption
  <2> HIDE DEF n
  <2>3. ASSUME NEW i \in 0 .. THREADS - 1
        PROVE  i * n \in Rows /\ (i + 1) * n \in 0 .. SIZE /\ i * n < (i + 1) * n
    <3>1. (i + 1) * n \in Nat /\ (i + 1) * n <= THREADS * n
      BY <2>2, Multiples
    <3>2. i * n \in Nat /\ (i + 1) * n = i * n + n
      BY <2>2, Multiples
    <3> QED
      BY <2>2, <3>1, <3>2 DEF Rows
  <2>4. ASSUME NEW i \in 0 .. THREADS - 1, NEW j \in 0 .. THREADS - 1, i < j PROVE (i + 1) * n <= j * n
    BY <2>2, <2>4, Multiples
  <2>5. ASSUME NEW r \in Rows PROVE \E i \in 0 .. THREADS - 1 : i * n <= r /\ r < (i + 1) * n
    <3>1. PICK q \in Nat : q * n <= r /\ r < (q + 1) * n
      <4>1. r \in Nat
        BY <2>2 DEF Rows
      <4> QED
        BY <2>2, <4>1, Quotient
    <3>2. q < THREADS
      <4>1. SUFFICES ASSUME THREADS <= q PROVE FALSE
        BY <2>2
      <4>2. THREADS * n <= q * n
        BY <2>2, <4>1, Multiples
      <4> QED
        BY <2>2, <3>1, <4>2, Multiples DEF Rows
    <3> QED
      BY <2>2, <3>1, <3>2
  <2>6. \A i \in 0 .. THREADS - 1 : i * n \in Int /\ (i + 1) * n \in Int
    BY <2>2, <2>3 DEF Rows
  <2>7. \A i, j \in 0 .. nWorkers - 1 : i < j => Args(i).stop <= Args(j).start
    BY <2>1, <2>4
  <2>8. \A r \in Rows : \E i \in 0 .. nWorkers - 1 : r \in Mine(i)
    <3> SUFFICES ASSUME NEW r \in Rows PROVE \E i \in 0 .. nWorkers - 1 : r \in Mine(i)
      OBVIOUS
    <3>1. PICK i \in 0 .. THREADS - 1 : i * n <= r /\ r < (i + 1) * n
      BY <2>5
    <3>2. r \in Mine(i)
      BY <2>1, <2>2, <2>6, <3>1 DEF Mine, Rows
    <3> QED
      BY <2>1, <3>2
  <2>9. \A i \in 0 .. nWorkers - 1 : /\ Args(i).start \in Rows /\ Args(i).stop \in 0 .. SIZE
                                     /\ Args(i).start < Args(i).stop
    BY <2>1, <2>3
  <2>10. nWorkers \in 1 .. SIZE
    BY <2>1, <2>2
  <2> QED
    BY <2>7, <2>8, <2>9, <2>10
<1> QED
  BY <1>1, <1>2

-----------------------------------------------------------------------------
(* Nothing runs but main, and nothing is initialised or multiplied yet. *)
LEMMA MatInitially == MatInit => MatIInv
<1> SUFFICES ASSUME MatInit PROVE MatIInv
  OBVIOUS
<1> USE MatAssumption DEF MatInit
<1>1. MatTypeOK
  BY DEF MatTypeOK, Rows, Workers, RowRange
<1>2. nWorkers \in 1 .. SIZE
  BY <1>1, RowsDivided
<1>3. \A i \in Workers : InStep(i) /\ InRange(i) /\ SumsRight(i)
  BY <1>2 DEF InStep, InRange, SumsRight, MulStarted, Workers
<1>4. InitRight
  BY DEF InitRight
<1> QED
  BY <1>1, <1>2, <1>3, <1>4 DEF MatIInv

(* main of matmulpar.c initialises everything. *)
LEMMA InitBySelfKeeps == MatIInv /\ InitBySelf => MatIInv'
<1> SUFFICES ASSUME MatIInv, InitBySelf PROVE MatIInv'
  OBVIOUS
<1> USE MatAssumption DEF MatIInv, InitBySelf
<1>1. MatTypeOK'
  BY DEF MatTypeOK
<1>2. nWorkers' = nWorkers /\ nWorkers \in 1 .. SIZE /\ handled = 0 /\ \A i \in Workers : Args(i)' = Args(i)
  BY RowsDivided DEF nWorkers, Args
<1>3. \A i \in Workers : InStep(i)' /\ InRange(i)' /\ SumsRight(i)'
  BY <1>2 DEF InStep, InRange, SumsRight, MulStarted, Workers
<1>4. InitRight'
  BY DEF InitRight, Initialised
<1> QED
  BY <1>1, <1>2, <1>3, <1>4

(* Main creates the threads one after the other, with their own rows. *)
LEMMA CreateKeeps == MatIInv /\ (CreateInit \/ CreateMul) => MatIInv'
<1> SUFFICES ASSUME MatIInv, CreateInit \/ CreateMul PROVE MatIInv'
  OBVIOUS
<1> USE MatAssumption DEF MatIInv
<1>1. UNCHANGED <<version, a, b, c, row, stop, k>>
  BY DEF CreateInit, CreateMul, Creates
<1>2. /\ nWorkers' = nWorkers /\ nWorkers \in 1 .. SIZE /\ handled \in Nat
      /\ \A i \in 0 .. nWorkers - 1 : Args(i) \in [start : 0 .. SIZE, stop : 0 .. SIZE]
      /\ \A i : Args(i)' = Args(i)
  <2>1. /\ nWorkers' = nWorkers /\ nWorkers \in 1 .. SIZE /\ handled \in Nat
        /\ \A i : Args(i)' = Args(i)
    BY <1>1, RowsDivided DEF nWorkers, Args, MatTypeOK
  <2>2. ASSUME NEW i \in 0 .. nWorkers - 1 PROVE Args(i) \in [start : 0 .. SIZE, stop : 0 .. SIZE]
    <3>1. Args(i).start \in 0 .. SIZE /\ Args(i).stop \in 0 .. SIZE
      BY RowsDivided DEF Rows
    <3>2. Args(i) = [start |-> Args(i).start, stop |-> Args(i).stop]
      BY DEF Args, RowRange
    <3> QED
      BY <3>1, <3>2
  <2> QED
    BY <2>1, <2>2
<1>3. CASE handled < nWorkers
  <2>1. handled' = handled + 1 /\ UNCHANGED main /\ mulArgs' = [mulArgs EXCEPT ![handled] = Args(handled)]
        /\ handled \in Workers
    BY <1>2, <1>3 DEF CreateInit, CreateMul, Creates, Workers
  <2>2. \/ main = "create_init" /\ worker' = [worker EXCEPT ![handled] = "begin_init"]
        \/ main = "create_mul" /\ worker' = [worker EXCEPT ![handled] = "begin_mul"]
    BY <1>3 DEF CreateInit, CreateMul, Creates
  <2>3. MatTypeOK'
    <3>1. mulArgs' \in [Workers -> [start : 0 .. SIZE, stop : 0 .. SIZE]]
      <4>1. Args(handled) \in [start : 0 .. SIZE, stop : 0 .. SIZE]
        BY <1>2, <1>3
      <4> HIDE DEF MatIInv
      <4>2. mulArgs \in [Workers -> [start : 0 .. SIZE, stop : 0 .. SIZE]]
        BY DEF MatIInv, MatTypeOK
      <4> QED
        BY <2>1, <4>1, <4>2
    <3>2. worker' \in [Workers -> {"none", "begin_init", "init", "begin_mul", "mul", "ended"}]
      BY <2>2 DEF MatTypeOK
    <3>3. handled' \in 0 .. SIZE
      BY <1>2, <1>3, <2>1
    <3> QED
      BY <1>1, <2>1, <3>1, <3>2, <3>3 DEF MatTypeOK
  <2>4. ASSUME NEW i \in Workers PROVE InStep(i)' /\ InRange(i)' /\ SumsRight(i)'
    <3>1. CASE i = handled
      <4>1. mulArgs'[i] = Args(i) /\ worker'[i] = IF main = "create_init" THEN "begin_init" ELSE "begin_mul"
        BY <2>1, <2>2, <3>1 DEF MatTypeOK
      <4>2. i < handled' /\ i < nWorkers /\ ~(i >= nWorkers)
        BY <1>2, <1>3, <2>1, <3>1
      <4>3. InStep(i)'
        BY <1>2, <2>1, <2>2, <4>1, <4>2 DEF InStep
      <4> QED
        BY <1>2, <4>1, <4>3 DEF InRange, SumsRight
    <3>2. CASE i # handled
      <4>1. worker'[i] = worker[i] /\ mulArgs'[i] = mulArgs[i]
        BY <2>1, <2>2, <3>2 DEF MatTypeOK
      <4>2. MulStarted(i)' <=> MulStarted(i)
        BY <1>2, <2>1, <3>2 DEF MulStarted, Workers
      <4>3. i < handled' <=> i < handled
        BY <1>2, <2>1, <3>2 DEF Workers
      <4>4. InStep(i)'
        BY <1>2, <2>1, <4>1, <4>3 DEF InStep
      <4> QED
        BY <1>1, <1>2, <2>1, <4>1, <4>2, <4>4 DEF InRange, SumsRight, Mine
    <3> QED
      BY <3>1, <3>2
  <2>5. InitRight'
    BY <1>1, <1>2, <2>1, <2>2 DEF InitRight, Initialised, Mine, MatTypeOK
  <2> QED
    BY <1>2, <1>3, <2>1, <2>2, <2>3, <2>4, <2>5
<1>4. CASE ~(handled < nWorkers)
  <2>1. \/ main = "create_init" /\ main' = "join_init"
        \/ main = "create_mul" /\ main' = "join_mul"
    BY <1>4 DEF CreateInit, CreateMul, Creates
  <2>2. handled' = 0 /\ UNCHANGED <<mulArgs, worker>> /\ handled = nWorkers
    BY <1>2, <1>4 DEF CreateInit, CreateMul, Creates
  <2>3. MatTypeOK'
    BY <1>1, <2>1, <2>2 DEF MatTypeOK
  <2>4. ASSUME NEW i \in Workers PROVE InStep(i)' /\ InRange(i)' /\ SumsRight(i)'
    <3>1. MulStarted(i)' <=> MulStarted(i)
      BY <1>2, <2>1, <2>2 DEF MulStarted
    <3>2. InStep(i)'
      BY <1>2, <2>1, <2>2 DEF InStep, Workers
    <3> QED
      BY <1>1, <1>2, <2>2, <3>1, <3>2 DEF InRange, SumsRight, Mine
  <2>5. InitRight'
    BY <1>1, <1>2, <2>1, <2>2 DEF InitRight, Initialised, Mine
  <2> QED
    BY <1>2, <2>1, <2>2, <2>3, <2>4, <2>5
<1> QED
  BY <1>3, <1>4

(* Main joins them one after the other; after the last of them every row   *)
(* is initialised.                                                         *)
LEMMA JoinKeeps == MatIInv /\ (JoinInit \/ JoinMul) => MatIInv'
<1> SUFFICES ASSUME MatIInv, JoinInit \/ JoinMul PROVE MatIInv'
  OBVIOUS
<1> USE MatAssumption DEF MatIInv
<1>1. UNCHANGED <<version, a, b, c, mulArgs, worker, row, stop, k>>
  BY DEF JoinInit, JoinMul, Joins
<1>2. /\ nWorkers' = nWorkers /\ nWorkers \in 1 .. SIZE /\ handled \in Nat
      /\ \A i : Args(i)' = Args(i)
  BY <1>1, RowsDivided DEF nWorkers, Args, MatTypeOK
<1>3. CASE handled < nWorkers
  <2>1. handled' = handled + 1 /\ UNCHANGED main /\ worker[handled] = "ended" /\ main \in {"join_init", "join_mul"}
    BY <1>3 DEF JoinInit, JoinMul, Joins
  <2>2. MatTypeOK'
    BY <1>1, <1>2, <1>3, <2>1 DEF MatTypeOK
  <2>3. ASSUME NEW i \in Workers PROVE InStep(i)' /\ InRange(i)' /\ SumsRight(i)'
    <3>1. MulStarted(i)' <=> MulStarted(i)
      BY <1>2, <2>1 DEF MulStarted
    <3>2. InStep(i)'
      <4>1. i < handled' => i < handled \/ i = handled
        BY <1>2, <2>1 DEF Workers
      <4> QED
        BY <1>1, <1>2, <2>1, <4>1 DEF InStep
    <3> QED
      BY <1>1, <1>2, <3>1, <3>2 DEF InRange, SumsRight, Mine
  <2>4. InitRight'
    BY <1>1, <1>2, <2>1 DEF InitRight, Initialised, Mine
  <2> QED
    BY <1>2, <1>3, <2>1, <2>2, <2>3, <2>4
<1>4. CASE ~(handled < nWorkers)
  <2>1. \/ main = "join_init" /\ main' = "create_mul"
        \/ main = "join_mul" /\ main' = "done"
    BY <1>4 DEF JoinInit, JoinMul, Joins
  <2>2. handled' = 0 /\ handled = nWorkers
    BY <1>2, <1>4 DEF JoinInit, JoinMul, Joins
  <2>3. \A i \in Workers : i < nWorkers => worker[i] = "ended"
    BY <1>2, <2>1, <2>2 DEF InStep
  <2>4. MatTypeOK'
    BY <1>1, <2>1, <2>2 DEF MatTypeOK
  <2>5. ASSUME NEW i \in Workers PROVE InStep(i)' /\ InRange(i)' /\ SumsRight(i)'
    <3>1. i < nWorkers \/ i >= nWorkers
      BY <1>2 DEF Workers
    <3>2. InStep(i)'
      BY <1>1, <1>2, <2>1, <2>2, <2>3, <3>1 DEF InStep, Workers
    <3>3. MulStarted(i)' => MulStarted(i)
      BY <1>2, <2>1, <2>2 DEF MulStarted, Workers
    <3> QED
      BY <1>1, <1>2, <3>2, <3>3 DEF InRange, SumsRight, Mine
  <2>6. InitRight'
    <3>1. CASE main = "join_init"
      <4>1. ASSUME NEW r \in Rows PROVE Initialised(r)
        <5>1. PICK i \in 0 .. nWorkers - 1 : r \in Mine(i)
          BY RowsDivided
        <5>2. i \in Workers /\ worker[i] = "ended"
          BY <1>2, <2>3 DEF Workers
        <5> QED
          BY <3>1, <5>1, <5>2 DEF InitRight
      <4> QED
        BY <1>1, <2>1, <3>1, <4>1 DEF InitRight, Initialised
    <3>2. CASE main = "join_mul"
      BY <1>1, <2>1, <3>2 DEF InitRight, Initialised
    <3> QED
      BY <2>1, <3>1, <3>2
  <2> QED
    BY <1>2, <2>1, <2>2, <2>4, <2>5, <2>6
<1> QED
  BY <1>3, <1>4

-----------------------------------------------------------------------------
(* What a thread does tells what main does. *)
LEMMA Phases ==
  ASSUME MatIInv, NEW i \in Workers
  PROVE  /\ worker[i] # "none" => i \in 0 .. nWorkers - 1
         /\ worker[i] \in {"begin_init", "init"} => main \in {"create_init", "join_init"}
         /\ worker[i] \in {"begin_mul", "mul"} => main \in {"create_mul", "join_mul"} /\ MulStarted(i)
         /\ worker[i] \in {"init", "mul"} /\ row[i] < stop[i] => row[i] \in Mine(i) /\ row[i] \in Rows
         /\ Args(i).start \in Int
<1> USE MatAssumption DEF MatIInv
<1>1. nWorkers \in 1 .. SIZE /\ i \in Nat /\ main \in {"init", "create_init", "join_init", "create_mul", "join_mul", "done"}
  <2>1. nWorkers \in 1 .. SIZE
    BY RowsDivided
  <2>2. i \in Nat
    BY DEF Workers
  <2> QED
    BY <2>1, <2>2 DEF MatTypeOK
<1>2. worker[i] # "none" => i \in 0 .. nWorkers - 1
  BY <1>1 DEF InStep
<1>3. worker[i] \in {"begin_init", "init"} => main \in {"create_init", "join_init"}
  BY <1>1, <1>2 DEF InStep
<1>4. worker[i] \in {"begin_mul", "mul"} => main \in {"create_mul", "join_mul"} /\ MulStarted(i)
  BY <1>1, <1>2 DEF InStep, MulStarted
<1>5. ASSUME worker[i] \in {"init", "mul"}, row[i] < stop[i] PROVE row[i] \in Mine(i) /\ row[i] \in Rows
  <2>1. Args(i).start \in Rows /\ Args(i).stop \in 0 .. SIZE
    BY <1>2, <1>5, RowsDivided
  <2>2. stop[i] = Args(i).stop /\ Args(i).start <= row[i] /\ row[i] \in 0 .. SIZE
    BY <1>5 DEF InRange, MatTypeOK
  <2> QED
    BY <1>5, <2>1, <2>2 DEF Mine, Rows
<1>6. Args(i).start \in Int
  <2>1. i * (SIZE \div THREADS) \in Nat
    BY <1>1, Division, Multiples
  <2> QED
    BY <1>1, <2>1 DEF Args, RowRange
<1> QED
  BY <1>2, <1>3, <1>4, <1>5, <1>6

(* No row belongs to two threads. *)
LEMMA Apart ==
  ASSUME MatTypeOK, NEW i \in 0 .. nWorkers - 1, NEW j \in 0 .. nWorkers - 1, i # j
  PROVE  Mine(i) \cap Mine(j) = {}
<1>1. \A n \in 0 .. nWorkers - 1 : Args(n).start \in Int /\ Args(n).stop \in Int
  BY RowsDivided, MatAssumption DEF Rows
<1>2. nWorkers \in Int
  BY RowsDivided
<1>3. CASE i < j
  BY <1>1, <1>3, RowsDivided DEF Mine
<1>4. CASE j < i
  BY <1>1, <1>4, RowsDivided DEF Mine
<1> QED
  BY <1>2, <1>3, <1>4

(* A thread begins with the first of its rows. *)
LEMMA BeginsKeep == ASSUME NEW i \in Workers, MatIInv, BeginInit(i) \/ BeginMul(i) PROVE MatIInv'
<1> USE MatAssumption DEF MatIInv
<1>1. /\ UNCHANGED <<version, a, b, c, main, handled, mulArgs>>
      /\ row' = [row EXCEPT ![i] = mulArgs[i].start] /\ stop' = [stop EXCEPT ![i] = mulArgs[i].stop]
      /\ k' = [k EXCEPT ![i] = 0]
      /\ \/ worker[i] = "begin_init" /\ worker' = [worker EXCEPT ![i] = "init"]
         \/ worker[i] = "begin_mul" /\ worker' = [worker EXCEPT ![i] = "mul"]
  BY DEF BeginInit, BeginMul, CopyArgs
<1>2. nWorkers' = nWorkers /\ \A j : Args(j)' = Args(j) /\ (MulStarted(j)' <=> MulStarted(j))
  BY <1>1 DEF nWorkers, Args, MulStarted
<1>3. /\ mulArgs[i] = Args(i) /\ i \in 0 .. nWorkers - 1
      /\ Args(i).start \in 0 .. SIZE /\ Args(i).stop \in 0 .. SIZE /\ Args(i).start < Args(i).stop
  BY <1>1, Phases, RowsDivided DEF InRange, Rows
<1>4. MatTypeOK'
  <2>1. /\ row' \in [Workers -> 0 .. SIZE] /\ stop' \in [Workers -> 0 .. SIZE] /\ k' \in [Workers -> 0 .. SIZE]
        /\ worker' \in [Workers -> {"none", "begin_init", "init", "begin_mul", "mul", "ended"}]
    BY <1>1, <1>3 DEF MatTypeOK
  <2> QED
    BY <1>1, <2>1 DEF MatTypeOK
<1>5. ASSUME NEW j \in Workers, j # i PROVE /\ worker'[j] = worker[j] /\ row'[j] = row[j] /\ stop'[j] = stop[j]
                                          /\ k'[j] = k[j]
  BY <1>1, <1>5 DEF MatTypeOK
<1>6. /\ row'[i] = Args(i).start /\ stop'[i] = Args(i).stop /\ k'[i] = 0
      /\ worker'[i] = IF worker[i] = "begin_init" THEN "init" ELSE "mul"
  BY <1>1, <1>3 DEF MatTypeOK
<1>7. \A r \in Args(i).start .. row'[i] - 1 : FALSE
  BY <1>3, <1>6
<1>8. ASSUME NEW j \in Workers PROVE InStep(j)' /\ InRange(j)' /\ SumsRight(j)'
  <2>1. CASE j = i
    <3>1. InStep(i)'
      BY <1>1, <1>2, <1>6 DEF InStep
    <3>2. InRange(i)'
      BY <1>1, <1>2, <1>3, <1>6 DEF InRange
    <3>3. SumsRight(i)'
      BY <1>2, <1>6, <1>7 DEF SumsRight
    <3> QED
      BY <2>1, <3>1, <3>2, <3>3
  <2>2. CASE j # i
    BY <1>1, <1>2, <1>5, <2>2 DEF InStep, InRange, SumsRight, Mine
  <2> QED
    BY <2>1, <2>2
<1>9. InitRight'
  <2>1. ASSUME NEW j \in Workers, main \in {"create_init", "join_init"}
        PROVE  /\ worker'[j] = "init" => \A r \in Args(j).start .. row'[j] - 1 : Initialised(r)
               /\ worker'[j] = "ended" => \A r \in Mine(j) : Initialised(r)
    BY <1>5, <1>6, <1>7, <2>1 DEF InitRight
  <2> QED
    BY <1>1, <1>2, <2>1 DEF InitRight, Initialised, Mine
<1> QED
  BY <1>1, <1>2, <1>4, <1>8, <1>9

(* A thread initialises one of its rows, or all of them are. *)
LEMMA InitRowKeeps == ASSUME NEW i \in Workers, MatIInv, InitRow(i) PROVE MatIInv'
<1> USE MatAssumption DEF MatIInv
<1>1. /\ UNCHANGED <<version, c, main, handled, mulArgs, worker, stop, k>>
      /\ worker[i] = "init" /\ row[i] < stop[i] /\ row' = [row EXCEPT ![i] = @ + 1]
      /\ a' = [a EXCEPT ![row[i]] = 1] /\ b' = [b EXCEPT ![row[i]] = 1]
  BY DEF InitRow
<1>2. nWorkers' = nWorkers /\ \A j : Args(j)' = Args(j) /\ (MulStarted(j)' <=> MulStarted(j))
  BY <1>1 DEF nWorkers, Args, MulStarted
<1>3. /\ i \in 0 .. nWorkers - 1 /\ main \in {"create_init", "join_init"} /\ row[i] \in Rows
      /\ Args(i).start \in Int /\ stop[i] \in 0 .. SIZE /\ row[i] \in Nat
  BY <1>1, Phases DEF MatTypeOK
<1>4. MatTypeOK'
  <2>1. a' \in [Rows -> {0, 1}] /\ b' \in [Rows -> {0, 1}]
    BY <1>1, <1>3 DEF MatTypeOK
  <2>2. row' \in [Workers -> 0 .. SIZE]
    <3>1. row[i] + 1 \in 0 .. SIZE
      BY <1>3 DEF Rows
    <3> QED
      BY <1>1, <3>1 DEF MatTypeOK
  <2> QED
    BY <1>1, <2>1, <2>2 DEF MatTypeOK
<1>5. \A j \in Workers : row'[j] = IF j = i THEN row[i] + 1 ELSE row[j]
  BY <1>1 DEF MatTypeOK
<1>6. ASSUME NEW j \in Workers PROVE InStep(j)' /\ InRange(j)' /\ SumsRight(j)'
  <2>1. InStep(j)'
    BY <1>1, <1>2 DEF InStep
  <2>2. InRange(j)'
    BY <1>1, <1>2, <1>3, <1>5 DEF InRange
  <2>3. SumsRight(j)'
    <3>1. CASE j = i
      BY <1>1, <3>1 DEF SumsRight
    <3>2. CASE j # i
      BY <1>1, <1>2, <1>5, <3>2 DEF SumsRight, Mine
    <3> QED
      BY <3>1, <3>2
  <2> QED
    BY <2>1, <2>2, <2>3
<1>7. \A r : r \in Rows /\ (Initialised(r) \/ r = row[i]) => Initialised(r)'
  BY <1>1, <1>3 DEF Initialised, MatTypeOK
<1>8. ASSUME NEW j \in Workers, worker[j] # "none"
      PROVE  Mine(j) \subseteq Rows /\ Args(j).start \in Int /\ Args(j).stop \in Int
  <2>1. j \in 0 .. nWorkers - 1
    BY <1>8, Phases
  <2> QED
    BY <2>1, RowsDivided DEF Mine, Rows
<1>9. InitRight'
  <2>1. ASSUME NEW j \in Workers, worker[j] = "init", NEW r \in Args(j).start .. row'[j] - 1 PROVE Initialised(r)'
    <3>1. row[j] \in Int /\ row'[j] <= Args(j).stop /\ row'[j] \in Int
      <4>1. stop[j] = Args(j).stop /\ row[j] \in 0 .. SIZE /\ row[j] <= stop[j] /\ stop[j] \in 0 .. SIZE
        BY <2>1 DEF InRange, MatTypeOK
      <4> QED
        BY <1>1, <1>5, <4>1
    <3>2. r \in Mine(j) /\ r \in Rows
      BY <1>8, <2>1, <3>1 DEF Mine
    <3>3. r \in Args(j).start .. row[j] - 1 \/ (j = i /\ r = row[i])
      BY <1>5, <1>8, <2>1, <3>1
    <3> QED
      BY <1>3, <1>7, <2>1, <3>2, <3>3 DEF InitRight
  <2>2. ASSUME NEW j \in Workers, worker[j] = "ended", NEW r \in Mine(j) PROVE Initialised(r)'
    BY <1>3, <1>7, <1>8, <2>2 DEF InitRight
  <2> QED
    BY <1>1, <1>2, <1>3, <2>1, <2>2 DEF InitRight, Mine
<1> QED
  BY <1>1, <1>2, <1>4, <1>6, <1>9

(* A thread adds a term to the sum of one of its rows, which no other      *)
(* thread touches.                                                         *)
LEMMA MultiplyKeeps == ASSUME NEW i \in Workers, MatIInv, Multiply(i) PROVE MatIInv'
<1> USE MatAssumption DEF MatIInv
<1>1. /\ UNCHANGED <<version, a, b, main, handled, mulArgs, worker, row, stop>>
      /\ worker[i] = "mul" /\ row[i] < stop[i] /\ k[i] < SIZE /\ k' = [k EXCEPT ![i] = @ + 1]
      /\ c' = [c EXCEPT ![row[i]] = (IF k[i] = 0 THEN 0 ELSE @) + a[row[i]] * b[k[i]]]
  BY DEF Multiply
<1>2. nWorkers' = nWorkers /\ \A j : Args(j)' = Args(j) /\ (MulStarted(j)' <=> MulStarted(j))
  BY <1>1 DEF nWorkers, Args, MulStarted
<1>3. /\ i \in 0 .. nWorkers - 1 /\ main \in {"create_mul", "join_mul"} /\ MulStarted(i)
      /\ row[i] \in Rows /\ row[i] \in Mine(i) /\ k[i] \in Nat /\ k[i] \in Rows
  <2> HIDE DEF MatIInv
  <2>1. /\ i \in 0 .. nWorkers - 1 /\ main \in {"create_mul", "join_mul"} /\ MulStarted(i)
        /\ row[i] \in Rows /\ row[i] \in Mine(i)
    BY <1>1, Phases
  <2>2. k[i] \in 0 .. SIZE /\ k[i] < SIZE
    BY <1>1 DEF MatIInv, MatTypeOK
  <2>3. k[i] \in Nat /\ k[i] \in Rows
    BY <2>2 DEF Rows
  <2> QED
    BY <2>1, <2>3
<1>4. a[row[i]] = 1 /\ b[k[i]] = 1
  BY <1>3 DEF InitRight, Initialised
<1>5. k[i] > 0 => c[row[i]] = k[i]
  BY <1>1, <1>3 DEF SumsRight
<1>6. c' = [c EXCEPT ![row[i]] = k[i] + 1]
  <2>1. a[row[i]] * b[k[i]] = 1
    BY <1>4
  <2>2. (IF k[i] = 0 THEN 0 ELSE c[row[i]]) + a[row[i]] * b[k[i]] = k[i] + 1
    BY <1>3, <1>5, <2>1
  <2> QED
    BY <1>1, <2>2
<1>7. MatTypeOK'
  <2>1. k[i] + 1 \in 0 .. SIZE
    BY <1>1, <1>3
  <2>2. c' \in [Rows -> 0 .. SIZE] /\ k' \in [Workers -> 0 .. SIZE]
    BY <1>1, <1>3, <1>6, <2>1 DEF MatTypeOK
  <2> QED
    BY <1>1, <2>2 DEF MatTypeOK
<1>8. ASSUME NEW j \in Workers PROVE InStep(j)' /\ InRange(j)' /\ SumsRight(j)'
  <2>1. InStep(j)' /\ InRange(j)'
    BY <1>1, <1>2 DEF InStep, InRange
  <2>2. CASE j = i
    <3>1. ASSUME NEW r \in Args(i).start .. row[i] - 1 PROVE c'[r] = SIZE
      <4>1. row[i] \in Nat /\ r < row[i] /\ r \in Int /\ Args(i).start \in Rows
        BY <1>3, <3>1, RowsDivided DEF Rows
      <4>2. r \in Rows /\ r # row[i]
        BY <1>3, <4>1, <3>1 DEF Rows
      <4> QED
        BY <1>1, <1>3, <1>6, <3>1, <4>2 DEF SumsRight, MatTypeOK
    <3>2. c'[row[i]] = k'[i]
      BY <1>1, <1>3, <1>6 DEF MatTypeOK
    <3> QED
      BY <1>1, <1>2, <2>1, <2>2, <3>1, <3>2 DEF SumsRight
  <2>3. CASE j # i /\ worker[j] \in {"mul", "ended"}
    <3>1. j \in 0 .. nWorkers - 1 /\ Mine(j) \subseteq Rows
      BY <2>3, Phases, RowsDivided DEF Mine, Rows
    <3>2. \A r \in Mine(j) : c'[r] = c[r]
      BY <1>3, <1>6, <2>3, <3>1, Apart DEF MatTypeOK
    <3>3. CASE worker[j] = "mul"
      <4>1. row[j] <= Args(j).stop /\ row[j] \in Nat /\ Args(j).start \in Int /\ Args(j).stop \in Int
        <5>1. Args(j).start \in Rows /\ Args(j).stop \in 0 .. SIZE
          BY <3>1, RowsDivided
        <5>2. row[j] \in 0 .. SIZE /\ row[j] <= stop[j] /\ stop[j] = Args(j).stop
          BY <3>3 DEF InRange, MatTypeOK
        <5> QED
          BY <5>1, <5>2 DEF Rows
      <4>2. \A r \in Args(j).start .. row[j] - 1 : r \in Mine(j)
        BY <4>1 DEF Mine
      <4>3. row[j] < stop[j] => row[j] \in Mine(j)
        BY <3>3, Phases
      <4>4. k'[j] = k[j]
        BY <1>1, <2>3 DEF MatTypeOK
      <4> QED
        BY <1>1, <1>2, <2>1, <3>2, <3>3, <4>2, <4>3, <4>4 DEF SumsRight
    <3>4. CASE worker[j] = "ended"
      BY <1>1, <1>2, <2>1, <3>2, <3>4 DEF SumsRight, Mine
    <3> QED
      BY <2>3, <3>3, <3>4
  <2>4. CASE worker[j] \notin {"mul", "ended"}
    BY <1>1, <2>1, <2>4 DEF SumsRight
  <2> QED
    BY <2>2, <2>3, <2>4
<1>9. InitRight'
  BY <1>1, <1>2, <1>3 DEF InitRight, Initialised
<1> QED
  BY <1>1, <1>2, <1>7, <1>8, <1>9

(* A thread goes on to its next row when the sum of its row has SIZE terms. *)
LEMMA NextRowKeeps == ASSUME NEW i \in Workers, MatIInv, NextRow(i) PROVE MatIInv'
<1> USE MatAssumption DEF MatIInv
<1>1. /\ UNCHANGED <<version, a, b, c, main, handled, mulArgs, worker, stop>>
      /\ worker[i] = "mul" /\ row[i] < stop[i] /\ k[i] = SIZE
      /\ k' = [k EXCEPT ![i] = 0] /\ row' = [row EXCEPT ![i] = @ + 1]
  BY DEF NextRow
<1>2. nWorkers' = nWorkers /\ \A j : Args(j)' = Args(j) /\ (MulStarted(j)' <=> MulStarted(j))
  BY <1>1 DEF nWorkers, Args, MulStarted
<1>3. /\ main \in {"create_mul", "join_mul"} /\ MulStarted(i) /\ Args(i).start \in Int
      /\ row[i] \in Rows /\ row[i] \in Nat /\ stop[i] \in 0 .. SIZE
  BY <1>1, Phases DEF MatTypeOK
<1>4. MatTypeOK'
  <2>1. k' \in [Workers -> 0 .. SIZE] /\ row' \in [Workers -> 0 .. SIZE]
    BY <1>1, <1>3 DEF MatTypeOK
  <2> QED
    BY <1>1, <2>1 DEF MatTypeOK
<1>5. \A j \in Workers : /\ row'[j] = IF j = i THEN row[i] + 1 ELSE row[j]
                         /\ k'[j] = IF j = i THEN 0 ELSE k[j]
  BY <1>1 DEF MatTypeOK
<1>6. ASSUME NEW j \in Workers PROVE InStep(j)' /\ InRange(j)' /\ SumsRight(j)'
  <2>1. InStep(j)'
    BY <1>1, <1>2 DEF InStep
  <2>2. InRange(j)'
    BY <1>1, <1>2, <1>3, <1>5 DEF InRange
  <2>3. CASE j = i
    <3>1. c[row[i]] = SIZE /\ \A r \in Args(i).start .. row[i] - 1 : c[r] = SIZE
      BY <1>1, <1>3 DEF SumsRight
    <3>2. \A r \in Args(i).start .. row'[i] - 1 : c'[r] = SIZE
      BY <1>1, <1>3, <1>5, <3>1
    <3> QED
      BY <1>1, <1>2, <1>5, <2>1, <2>2, <2>3, <3>2 DEF SumsRight
  <2>4. CASE j # i
    BY <1>1, <1>2, <1>5, <2>1, <2>2, <2>4 DEF SumsRight, Mine
  <2> QED
    BY <2>3, <2>4
<1>7. InitRight'
  BY <1>1, <1>2, <1>3 DEF InitRight, Initialised
<1> QED
  BY <1>1, <1>2, <1>4, <1>6, <1>7

(* A thread ends after the last of its rows. *)
LEMMA EndThreadKeeps == ASSUME NEW i \in Workers, MatIInv, EndThread(i) PROVE MatIInv'
<1> USE MatAssumption DEF MatIInv
<1>1. /\ UNCHANGED <<version, a, b, c, main, handled, mulArgs, row, stop, k>>
      /\ worker[i] \in {"init", "mul"} /\ row[i] >= stop[i] /\ worker' = [worker EXCEPT ![i] = "ended"]
  BY DEF EndThread
<1>2. nWorkers' = nWorkers /\ \A j : Args(j)' = Args(j) /\ (MulStarted(j)' <=> MulStarted(j))
  BY <1>1 DEF nWorkers, Args, MulStarted
<1>3. row[i] = Args(i).stop
  <2>1. row[i] \in 0 .. SIZE /\ stop[i] \in 0 .. SIZE
    BY DEF MatTypeOK
  <2>2. row[i] <= stop[i] /\ stop[i] = Args(i).stop
    BY <1>1 DEF InRange
  <2> QED
    BY <1>1, <2>1, <2>2
<1>4. MatTypeOK'
  BY <1>1 DEF MatTypeOK
<1>5. \A j \in Workers : worker'[j] = IF j = i THEN "ended" ELSE worker[j]
  BY <1>1 DEF MatTypeOK
<1>6. ASSUME NEW j \in Workers PROVE InStep(j)' /\ InRange(j)' /\ SumsRight(j)'
  <2>1. CASE j = i
    <3>1. InStep(i)'
      BY <1>1, <1>2, <1>5 DEF InStep
    <3>2. SumsRight(i)'
      <4>1. CASE worker[i] = "mul"
        BY <1>1, <1>2, <1>3, <1>5, <4>1 DEF SumsRight, Mine
      <4>2. CASE worker[i] = "init"
        <5>1. main \in {"create_init", "join_init"}
          BY <4>2, Phases
        <5> QED
          BY <1>1, <5>1 DEF SumsRight, MulStarted
      <4> QED
        BY <1>1, <4>1, <4>2
    <3> QED
      BY <1>5, <2>1, <3>1, <3>2 DEF InRange
  <2>2. CASE j # i
    BY <1>1, <1>2, <1>5, <2>2 DEF InStep, InRange, SumsRight, Mine
  <2> QED
    BY <2>1, <2>2
<1>7. InitRight'
  <2>1. worker[i] = "init" \/ main \in {"create_mul", "join_mul"}
    BY <1>1, Phases
  <2>2. CASE main \in {"create_mul", "join_mul"}
    BY <1>1, <2>2 DEF InitRight, Initialised
  <2>3. CASE worker[i] = "init"
    BY <1>1, <1>2, <1>3, <1>5, <2>3 DEF InitRight, Initialised, Mine
  <2> QED
    BY <2>1, <2>2, <2>3
<1> QED
  BY <1>1, <1>2, <1>4, <1>6, <1>7

-----------------------------------------------------------------------------
(* In every reachable state, threads are in step with main and every sum   *)
(* has the terms that were added.                                          *)
THEOREM MatInductive == MatSpec => []MatIInv
<1>1. MatInit => MatIInv
  BY MatInitially
<1>2. MatIInv /\ [MatNext]_MatVars => MatIInv'
  <2>1. MatIInv /\ UNCHANGED MatVars => MatIInv'
    <3> SUFFICES ASSUME MatIInv, UNCHANGED MatVars PROVE MatIInv'
      OBVIOUS
    <3>1. MatTypeOK' /\ nWorkers' = nWorkers /\ \A j : Args(j)' = Args(j) /\ (MulStarted(j)' <=> MulStarted(j))
      BY DEF MatVars, MatIInv, MatTypeOK, nWorkers, Args, MulStarted
    <3>2. \A i \in Workers : InStep(i)' /\ InRange(i)' /\ SumsRight(i)'
      BY <3>1 DEF MatVars, MatIInv, InStep, InRange, SumsRight, Mine
    <3>3. InitRight'
      BY <3>1 DEF MatVars, MatIInv, InitRight, Initialised, Mine
    <3> QED
      BY <3>1, <3>2, <3>3 DEF MatIInv, MatVars
  <2>2. MatIInv /\ MatMain => MatIInv'
    BY InitBySelfKeeps, CreateKeeps, JoinKeeps DEF MatMain
  <2>3. ASSUME NEW i \in Workers, MatIInv, MatThread(i) PROVE MatIInv'
    BY <2>3, BeginsKeep, InitRowKeeps, MultiplyKeeps, NextRowKeeps, EndThreadKeeps DEF MatThread
  <2> QED
    BY <2>1, <2>2, <2>3 DEF MatNext, MatRest
<1> QED
  BY <1>1, <1>2, PTL DEF MatSpec

(* The matrices, the arguments and the control points keep their types: no *)
(* thread works on a row outside of the matrix.                            *)
THEOREM MatTypeCorrect == MatSpec => []MatTypeOK
<1>1. MatIInv => MatTypeOK
  BY DEF MatIInv
<1> QED
  BY MatInductive, <1>1, PTL

(* The comment at matmulpar.c:33-36 holds for every size, every number of  *)
(* threads and every schedule: each element of c ends as SIZE.             *)
THEOREM EveryProductRight == MatSpec => []ProductRight
<1>1. MatIInv => ProductRight
  <2> SUFFICES ASSUME MatIInv, main = "done", NEW r \in Rows PROVE c[r] = SIZE
    BY DEF ProductRight
  <2>1. MatTypeOK
    BY DEF MatIInv
  <2>2. PICK i \in 0 .. nWorkers - 1 : r \in Mine(i)
    BY <2>1, RowsDivided
  <2>3. i \in Workers /\ i < nWorkers
    BY <2>1, MatAssumption, RowsDivided DEF Workers
  <2>4. worker[i] = "ended" /\ MulStarted(i)
    BY <2>3 DEF MatIInv, InStep, MulStarted
  <2> QED
    BY <2>2, <2>3, <2>4 DEF MatIInv, SumsRight
<1> QED
  BY MatInductive, <1>1, PTL

(* No two threads work on the same row, no thread multiplies while another *)
(* initialises, and none multiplies what is not initialised.               *)
THEOREM MatRaceFree == MatSpec => []NoRaces
<1>1. MatIInv => NoRaces
  <2> SUFFICES ASSUME MatIInv, NEW i \in Workers, Works(i)
               PROVE  /\ \A j \in Workers \ {i} : Works(j) => row[i] # row[j] /\ worker[i] = worker[j]
                      /\ worker[i] = "mul" => \A r \in Rows : a[r] = 1 /\ b[r] = 1
    BY DEF NoRaces
  <2>1. MatTypeOK
    BY DEF MatIInv
  <2>2. i \in 0 .. nWorkers - 1 /\ row[i] \in Mine(i)
    BY Phases DEF Works
  <2>3. ASSUME NEW j \in Workers \ {i}, Works(j) PROVE row[i] # row[j] /\ worker[i] = worker[j]
    <3>1. j \in 0 .. nWorkers - 1 /\ row[j] \in Mine(j)
      BY <2>3, Phases DEF Works
    <3>2. worker[i] = worker[j]
      BY <2>3, Phases DEF Works
    <3> QED
      BY <2>1, <2>2, <3>1, <3>2, Apart
  <2>4. worker[i] = "mul" => \A r \in Rows : a[r] = 1 /\ b[r] = 1
    <3>1. worker[i] = "mul" => main \in {"create_mul", "join_mul"}
      BY Phases
    <3> QED
      BY <3>1 DEF MatIInv, InitRight, Initialised
  <2> QED
    BY <2>3, <2>4
<1> QED
  BY MatInductive, <1>1, PTL

-----------------------------------------------------------------------------
(* Whichever program runs, its part of the behaviour is one of its own,    *)
(* and the parts of the others stand still.                                *)
LEMMA EachBySelf ==
  Lab1Spec => /\ Spec /\ BankSpec /\ DiningSpec /\ TurnsSpec /\ QueueSpec
              /\ MatSpec /\ SortSpec
<1>1. Lab1Init => /\ Init /\ BankInit /\ DiningInit /\ TurnsInit /\ QueueInit
                  /\ MatInit /\ SortInit
  BY DEF Lab1Init
<1>2. [Lab1Next]_all =>
        /\ [Next]_vars /\ [BankNext]_BankVars /\ [DiningNext]_DiningVars /\ [TurnsNext]_TurnVars
        /\ [QueueNext]_QueueVars /\ [MatNext]_MatVars /\ [SortNext]_SortVars
  BY DEF Lab1Next, InShmem2, InBank, InDining, InTurns, InQueue, InMat, InSort, all
<1> QED
  BY <1>1, <1>2, PTL DEF Lab1Spec, Spec, BankSpec, DiningSpec, TurnsSpec, QueueSpec, MatSpec, SortSpec

(* All variables of all programs keep their types.                         *)
THEOREM Lab1TypesCorrect == Lab1Spec => []TypesOK
<1>1. BankIInv /\ DiningIInv /\ TypeOK /\ TurnsTypeOK /\ QueueTypeOK /\ MatTypeOK /\ SortTypeOK => TypesOK
  BY DEF BankIInv, DiningIInv, TypesOK
<1> QED
  BY <1>1, EachBySelf, BankInductive, DiningInductive, RingTypeCorrect, TurnsTypeCorrect, QueueTypeCorrect,
     MatTypeCorrect, SortTypeCorrect, PTL

(* The invariants of the programs hold in every behaviour of lab1: mutual  *)
(* exclusion, no update of the account lost, the count of the seats and of *)
(* the tokens, products and sorted arrays as they should be, no data race. *)
THEOREM Lab1Safe ==
  Lab1Spec => /\ []Exclusive /\ []NoUpdateLost /\ []SeatsCounted /\ []TokensKept
              /\ []ProductRight /\ []NoRaces /\ []PartitionInvariant /\ []SortsIt
  BY EachBySelf, NeverTogether, UpdatesKept, SeatsAreCounted, TokensAreKept, EveryProductRight, MatRaceFree,
     PartitionCorrect, SortCorrect, PTL

(* So do their action properties: both channels deliver in order, and the  *)
(* letters alternate.                                                      *)
THEOREM Lab1Delivers == Lab1Spec => DeliversInOrder /\ DeliversMessages /\ TakesTurns
  BY EachBySelf, RingImplementsChannel, QueueImplementsChannel, TurnsAreTaken, PTL
=============================================================================
