------------------------------ MODULE PageFifo ------------------------------
(***************************************************************************)
(* lab2/fifo.c: page faults of a trace of addresses when the page that     *)
(* came first is replaced first.  The frames are a ring.                   *)
(***************************************************************************)
EXTENDS Integers

CONSTANTS
  no_pages,   \* frames
  page_size

VARIABLES
  pages,            \* frame |-> address of the page in it
  first_page,       \* the frame that is filled next
  fifo_faults

fifoVars == <<pages, first_page, fifo_faults>>

ASSUME FramesAssumption == no_pages \in Nat \ {0} /\ page_size \in Nat \ {0}

Frames  == 0 .. no_pages - 1
NoPage  == -1

(* The first address of the page. *)
page_adress(adress) == adress - (adress % page_size)

FifoInit ==
  /\ pages = [i \in Frames |-> NoPage] /\ first_page = 0 /\ fifo_faults = 0

(* Mutant: a page that is found goes to the end of the line. *)
FifoRefer_renewed(adress) ==
  LET page == page_adress(adress) IN
  IF \E i \in Frames : pages[i] = page
  THEN /\ first_page' = (first_page + 1) % no_pages
       /\ UNCHANGED <<pages, fifo_faults>>
  ELSE /\ pages' = [pages EXCEPT ![first_page] = page]
       /\ first_page' = (first_page + 1) % no_pages
       /\ fifo_faults' = fifo_faults + 1

FifoRefer(adress) ==
  LET page == page_adress(adress) IN
  \/ (\E i \in Frames : pages[i] = page) /\ UNCHANGED fifoVars
  \/ /\ \A i \in Frames : pages[i] # page
     /\ pages' = [pages EXCEPT ![first_page] = page]
     /\ first_page' = (first_page + 1) % no_pages
     /\ fifo_faults' = fifo_faults + 1
=============================================================================
