----------------------------- MODULE PageOptimal ----------------------------
(***************************************************************************)
(* lab2/optimal.c: page faults of the same trace when the page is replaced *)
(* that will not be used for the longest time.  The program reads the      *)
(* whole trace first and notes with every reference how far away the next  *)
(* one to the same page is; the frames hold these notes and count down.    *)
(***************************************************************************)
EXTENDS Integers, Sequences, FiniteSetsExt, PageFifo

VARIABLES
  frames,           \* frame |-> [adress, time_until_next_access]
  optimal_faults

optimalVars == <<frames, optimal_faults>>

Never == -1

OptimalInit ==
  /\ frames = [j \in Frames |-> [adress |-> NoPage, time_until_next_access |-> Never]]
  /\ optimal_faults = 0

(* The note of reference i, once the whole trace has been read. *)
noted(trace, i) ==
  LET again == {k \in i + 1 .. Len(trace) : page_adress(trace[k]) = page_adress(trace[i])} IN
  [adress |-> page_adress(trace[i]),
   time_until_next_access |-> IF again = {} THEN Never ELSE Min(again) - i]

(* Mutant: a page that is never used again is not told apart.             *)
best_unaware ==
  LET time == [j \in Frames |-> frames[j].time_until_next_access] IN
  Min({j \in Frames : \A k \in Frames : time[k] <= time[j]})

(* The frame that the search for the best candidate ends with: the last    *)
(* one of the pages never used again, else the first of those used last.   *)
best ==
  LET time == [j \in Frames |-> frames[j].time_until_next_access]
      idle == {j \in Frames : time[j] = Never}
  IN  IF idle # {} THEN Max(idle)
      ELSE Min({j \in Frames : \A k \in Frames : time[k] <= time[j]})

CountDown(note) ==
  IF note.time_until_next_access = Never THEN note
  ELSE [note EXCEPT !.time_until_next_access = @ - 1]

(* Mutant: a page that is found keeps its old note. *)
OptimalRefer_stale(trace, i) ==
  LET note == noted(trace, i)
      hit  == {j \in Frames : frames[j].adress = note.adress}
  IN  /\ optimal_faults' = IF hit = {} THEN optimal_faults + 1 ELSE optimal_faults
      /\ frames' = [j \in Frames |-> CountDown(IF hit = {} /\ j = best THEN note ELSE frames[j])]

OptimalRefer(trace, i) ==
  LET note == noted(trace, i)
      hit  == {j \in Frames : frames[j].adress = note.adress}
      into == IF hit = {} THEN best ELSE Min(hit)
  IN  /\ optimal_faults' = IF hit = {} THEN optimal_faults + 1 ELSE optimal_faults
      /\ frames' = [j \in Frames |-> CountDown(IF j = into THEN note ELSE frames[j])]
=============================================================================
