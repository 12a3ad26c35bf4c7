---------------------------- MODULE MessageQueue ----------------------------
(***************************************************************************)
(* lab1/msgqsend.c and msgqrecv.c: a sender makes a message queue, sends   *)
(* Messages numbers and, when a key is pressed, removes the queue.         *)
(* Receivers may be started at any time; each wants Messages numbers.  The *)
(* queue is the kernel's: first in first out, with a limit at which a      *)
(* sender waits; a receiver that waits when the queue is removed gets an   *)
(* error.  The file msgq.txt, from which both compute the key of the       *)
(* queue, is removed by a receiver that has all its numbers.               *)
(***************************************************************************)
EXTENDS Integers, Sequences

CONSTANTS
  Messages,     \* 50 in the code
  Limit,        \* how many messages the kernel's queue holds
  Receivers     \* the runs of msgqrecv

VARIABLES
  queue,        \* the messages in the queue, the oldest first
  queue_state,  \* "absent", "there" or "removed"
  msgq_txt,     \* whether the file exists
  sender,       \* where the sender is
  mailed,       \* how many messages it has sent, i; the k-th message is k
  receiver,     \* where each receiver is
  got,          \* how many messages each receiver has, i
  newest        \* auxiliary: the last message that any receiver took

QueueVars == <<queue, queue_state, msgq_txt, sender, mailed, receiver, got, newest>>

ASSUME QueueAssumption == Messages \in Nat \ {0} /\ Limit \in Nat \ {0}

QueueInit ==
  /\ queue = <<>> /\ queue_state = "absent" /\ msgq_txt = FALSE
  /\ sender = "touch" /\ mailed = 0 /\ newest = 0
  /\ receiver = [r \in Receivers |-> "not_started"] /\ got = [r \in Receivers |-> 0]

-----------------------------------------------------------------------------
(* msgqsend.c *)

SenderGoes(from, to) == sender = from /\ sender' = to /\ UNCHANGED <<receiver, got, newest>>

Touch ==
  /\ SenderGoes("touch", "get") /\ msgq_txt' = TRUE
  /\ UNCHANGED <<queue, queue_state, mailed>>

CreateQueue ==
  /\ SenderGoes("get", "send") /\ queue_state' = "there"
  /\ UNCHANGED <<queue, msgq_txt, mailed>>

(* msgsnd waits while the queue is full.  (Its error, after which the loop *)
(* goes on, needs a queue that is gone, and only RemoveQueue removes it.)  *)
SendMessage ==
  /\ SenderGoes("send", "send") /\ mailed < Messages
  /\ Len(queue) < Limit /\ queue' = Append(queue, mailed + 1) /\ mailed' = mailed + 1
  /\ UNCHANGED <<queue_state, msgq_txt>>

DoneSending ==
  /\ SenderGoes("send", "getchar") /\ mailed = Messages
  /\ UNCHANGED <<queue, queue_state, msgq_txt, mailed>>

(* A key is pressed, at any time after the last message was sent. *)
RemoveQueue ==
  /\ SenderGoes("getchar", "done") /\ queue_state' = "removed" /\ queue' = <<>>
  /\ UNCHANGED <<msgq_txt, mailed>>

-----------------------------------------------------------------------------
(* msgqrecv.c *)

ReceiverGoes(r, from, to) ==
  /\ receiver[r] = from /\ receiver' = [receiver EXCEPT ![r] = to]
  /\ UNCHANGED <<sender, mailed, queue_state>>

(* The user starts a receiver: ftok needs the file. *)
Start(r) ==
  /\ ReceiverGoes(r, "not_started", IF msgq_txt THEN "get" ELSE "failed")
  /\ UNCHANGED <<queue, msgq_txt, got, newest>>

Connect(r) ==
  /\ ReceiverGoes(r, "get", IF queue_state = "there" THEN "receive" ELSE "failed")
  /\ UNCHANGED <<queue, msgq_txt, got, newest>>

(* Mutant: the queue is a stack. *)
ReceiveMessage_newest(r) ==
  /\ ReceiverGoes(r, "receive", "receive") /\ got[r] < Messages
  /\ queue # <<>> /\ queue' = SubSeq(queue, 1, Len(queue) - 1) /\ newest' = queue[Len(queue)]
  /\ got' = [got EXCEPT ![r] = @ + 1]
  /\ UNCHANGED msgq_txt

ReceiveMessage(r) ==
  /\ ReceiverGoes(r, "receive", "receive") /\ got[r] < Messages
  /\ queue # <<>> /\ queue' = Tail(queue) /\ newest' = Head(queue)
  /\ got' = [got EXCEPT ![r] = @ + 1]
  /\ UNCHANGED msgq_txt

(* Mutant: the error of msgrcv is ignored and the loop goes on. *)
QueueGone_ignored(r) ==
  /\ queue_state = "removed" /\ got[r] < Messages /\ ReceiverGoes(r, "receive", "receive")
  /\ UNCHANGED <<queue, msgq_txt, got, newest>>

QueueGone(r) ==
  /\ queue_state = "removed" /\ got[r] < Messages /\ ReceiverGoes(r, "receive", "failed")
  /\ UNCHANGED <<queue, msgq_txt, got, newest>>

(* All messages received: "rm msgq.txt". *)
DoneReceiving(r) ==
  /\ ReceiverGoes(r, "receive", "done") /\ got[r] = Messages /\ msgq_txt' = FALSE
  /\ UNCHANGED <<queue, got, newest>>

-----------------------------------------------------------------------------
(* The steps that need no user. *)
SenderRuns == Touch \/ CreateQueue \/ SendMessage \/ DoneSending
ReceiverRuns(r) == Connect(r) \/ ReceiveMessage(r) \/ QueueGone(r) \/ DoneReceiving(r)

Over(r) == receiver[r] \in {"failed", "done"}

(* The queue is full and no receiver left: the sender waits for another.  *)
SenderBlocked == sender = "send" /\ Len(queue) = Limit

QueueRest == /\ sender = "done" \/ SenderBlocked
             /\ \A r \in Receivers : Over(r)
             /\ UNCHANGED QueueVars

QueueNext == \/ SenderRuns \/ RemoveQueue \/ QueueRest
             \/ \E r \in Receivers : Start(r) \/ ReceiverRuns(r)

QueueSpec == QueueInit /\ [][QueueNext]_QueueVars

-----------------------------------------------------------------------------
QueueTypeOK ==
  /\ Len(queue) <= Limit /\ \A k \in 1 .. Len(queue) : queue[k] \in 1 .. Messages
  /\ queue_state \in {"absent", "there", "removed"} /\ msgq_txt \in BOOLEAN
  /\ sender \in {"touch", "get", "send", "getchar", "done"}
  /\ receiver \in [Receivers -> {"not_started", "get", "receive", "failed", "done"}]
  /\ mailed \in 0 .. Messages /\ got \in [Receivers -> 0 .. Messages] /\ newest \in 0 .. Messages

(* All receivers together get the messages in the order they were sent,    *)
(* none twice and none left out before a later one, whenever they start    *)
(* and whenever the queue is removed.                                      *)
QueueIsChannel == INSTANCE Channel
  WITH Capacity <- Limit, Last <- Messages, sent <- mailed, received <- newest
DeliversMessages == QueueIsChannel!Spec

(* No receiver waits for ever on a queue that was removed, and one that    *)
(* shares its messages with nobody gets all of them or is told that the    *)
(* queue is gone.                                                          *)
ReceiversEnd ==
  \A r \in Receivers :
    /\ (sender = "done" /\ receiver[r] # "not_started") ~> Over(r)
    /\ receiver[r] = "receive" ~> (Over(r) \/ \E s \in Receivers \ {r} : got[s] > 0)
=============================================================================
