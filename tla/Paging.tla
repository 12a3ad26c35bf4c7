------------------------------- MODULE Paging -------------------------------
(***************************************************************************)
(* The three programs of lab2 on one trace.  Each is a process of its own  *)
(* that reads the trace file from its beginning; none can see another, so  *)
(* they are run side by side, one reference at a time.                     *)
(***************************************************************************)
EXTENDS Sequences, SequencesExt, FiniteSets, PageLru, PageOptimal

CONSTANTS
  Adresses,   \* the addresses in trace files
  MaxLength   \* bound: references in a trace

VARIABLES
  trace,
  done        \* references that have been treated

vars == <<fifoVars, lruVars, optimalVars, trace, done>>

ASSUME TraceAssumption == Adresses \subseteq Nat /\ MaxLength \in Nat

Init ==
  /\ trace \in UNION {[1 .. n -> Adresses] : n \in 0 .. MaxLength} /\ done = 0
  /\ FifoInit /\ LruInit /\ OptimalInit

Refer ==
  /\ done < Len(trace) /\ done' = done + 1 /\ UNCHANGED trace
  /\ FifoRefer(trace[done + 1]) /\ LruRefer(trace[done + 1]) /\ OptimalRefer(trace, done + 1)

(* The programs print their page faults and end. *)
Ends == done = Len(trace) /\ UNCHANGED vars

Next == Refer \/ Ends

Spec == Init /\ [][Next]_vars

-----------------------------------------------------------------------------
Page(i) == page_adress(trace[i])
Seen    == {Page(i) : i \in 1 .. done}

TypeOK ==
  /\ first_page \in Frames /\ pages \in [Frames -> Seen \cup {NoPage}]
  /\ DOMAIN list.next \subseteq Seen /\ list.len = Cardinality(DOMAIN list.next) /\ list.len <= no_pages
  /\ list.head # NULL => list.tail \in DOMAIN list.next
  /\ \A j \in Frames : frames[j].adress \in Seen \cup {NoPage}
  /\ {fifo_faults, lru_faults, optimal_faults} \subseteq 0 .. done

(* The ring of fifo.c is a queue, its end before the frame that is filled  *)
(* next: a page that is referred to and not there is a fault and goes to   *)
(* the end of it, and if it was full the page that came first leaves.      *)
Queue ==
  LET waiting == Cardinality({j \in Frames : pages[j] # NoPage}) IN
  [k \in 1 .. waiting |-> pages[(first_page + (no_pages - waiting) + (k - 1)) % no_pages]]
FirstInFirstOut ==
  [][done' > done =>
       LET page == Page(done') IN
       IF page \in ToSet(Queue) THEN Queue' = Queue /\ fifo_faults' = fifo_faults
       ELSE /\ Queue' = Append(IF Len(Queue) = no_pages THEN Tail(Queue) ELSE Queue, page)
            /\ fifo_faults' = fifo_faults + 1]_vars

(* lru.c holds the pages that were used most recently, as many as there    *)
(* are frames, in the order of their last uses.                            *)
LastUse(page) == Max({i \in 1 .. done : Page(i) = page})
UsedSince(page) == {q \in Seen : LastUse(q) > LastUse(page)}
HoldsMostRecent ==
  LET held == [k \in 1 .. list.len |-> walk(list)[k - 1]] IN
  /\ ToSet(held) = {p \in Seen : Cardinality(UsedSince(p)) < no_pages}
  /\ \A i, j \in 1 .. list.len : i < j => LastUse(held[i]) < LastUse(held[j])

(* The notes in the frames of optimal.c are right at every reference: each *)
(* tells how many references lie before the next one to its page.          *)
NextUses(page) == {k \in done + 1 .. Len(trace) : Page(k) = page}
NotesRight ==
  \A j \in Frames : frames[j].adress # NoPage =>
    frames[j].time_until_next_access =
      IF NextUses(frames[j].adress) = {} THEN Never ELSE Min(NextUses(frames[j].adress)) - done - 1

(* The fewest faults that any choice of pages to replace leads to, for     *)
(* what is left of a trace after reference i and a set of pages held.      *)
Held(tr) == {S \in SUBSET {page_adress(tr[i]) : i \in DOMAIN tr} : Cardinality(S) <= no_pages}
Kept(S) == {T \in SUBSET S : Cardinality(T) < no_pages}
Fewest(tr) ==
  LET fewest[i \in 0 .. Len(tr)] ==
        [S \in Held(tr) |->
           IF i = Len(tr) THEN 0
           ELSE IF page_adress(tr[i + 1]) \in S THEN fewest[i + 1][S]
           ELSE Min({1 + fewest[i + 1][T \cup {page_adress(tr[i + 1])}] : T \in Kept(S)})]
  IN  fewest

(* No way of replacing pages has fewer faults than optimal.c counts.       *)
OptimalIsBest == done = Len(trace) => optimal_faults = Fewest(trace)[0][{}]
=============================================================================
