------------------------------- MODULE PageLru ------------------------------
(***************************************************************************)
(* lab2/lru.c: page faults of the same trace when the page that was used   *)
(* longest ago is replaced.  The pages are nodes of a linked list; a node  *)
(* is named by the address in it, which no two nodes share.                *)
(***************************************************************************)
EXTENDS Integers, PageFifo

VARIABLES
  list,             \* [head, tail, next, len]; the domain of next is what is allocated
  lru_faults

lruVars == <<list, lru_faults>>

NULL == -1

LruInit ==
  /\ list = [head |-> NULL, tail |-> NULL, next |-> [p \in {} |-> NULL], len |-> 0]
  /\ lru_faults = 0

insert_page(l, page) ==
  [head |-> IF l.head = NULL THEN page ELSE l.head,
   tail |-> page,
   next |-> [p \in DOMAIN l.next \cup {page} |->
               IF p = page THEN NULL ELSE IF l.head # NULL /\ p = l.tail THEN page ELSE l.next[p]],
   len  |-> l.len + 1]

(* The nodes that a search from the head comes by, in this order; after    *)
(* the last of them NULL.                                                  *)
walk(l) ==
  LET at[k \in 0 .. l.len] ==
        IF k = 0 THEN l.head ELSE IF at[k - 1] \in DOMAIN l.next THEN l.next[at[k - 1]] ELSE NULL
  IN  at

find_page(l, page) == \E k \in DOMAIN walk(l) : walk(l)[k] = page

(* Mutant: the length is not counted down. *)
remove_page_uncounted(l, page) ==
  LET kept == DOMAIN l.next \ {page} IN
  [l EXCEPT !.head = IF page = l.head THEN l.next[page] ELSE l.head,
            !.tail = IF l.tail = page /\ page # l.head THEN CHOOSE p \in kept : l.next[p] = page ELSE l.tail,
            !.next = [p \in kept |-> IF l.next[p] = page THEN l.next[page] ELSE l.next[p]]]

(* If the only page goes, tail keeps pointing to the freed node.           *)
remove_page(l, page) ==
  LET kept == DOMAIN l.next \ {page} IN
  [head |-> IF page = l.head THEN l.next[page] ELSE l.head,
   tail |-> IF page # l.head /\ l.next[page] = NULL THEN CHOOSE p \in kept : l.next[p] = page ELSE l.tail,
   next |-> [p \in kept |-> IF l.next[p] = page THEN l.next[page] ELSE l.next[p]],
   len  |-> l.len - 1]

(* Mutant: a page that is found keeps its place. *)
LruRefer_kept(adress) ==
  LET page == page_adress(adress)
      room == IF list.len = no_pages THEN remove_page(list, list.head) ELSE list
  IN  \/ find_page(list, page) /\ UNCHANGED lruVars
      \/ /\ ~find_page(list, page)
         /\ lru_faults' = lru_faults + 1 /\ list' = insert_page(room, page)

LruRefer(adress) ==
  LET page == page_adress(adress)
      room == IF list.len = no_pages THEN remove_page(list, list.head) ELSE list
  IN  \/ /\ find_page(list, page)
         /\ list' = insert_page(remove_page(list, page), page) /\ UNCHANGED lru_faults
      \/ /\ ~find_page(list, page)
         /\ lru_faults' = lru_faults + 1 /\ list' = insert_page(room, page)
=============================================================================
