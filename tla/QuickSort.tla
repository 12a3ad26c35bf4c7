----------------------------- MODULE QuickSort -----------------------------
(***************************************************************************)
(* lab1/qsortseq.c: quick_sort on an array of MAX_ITEMS random numbers,    *)
(* with the loop of partition one turn at a time.  The recursion is a      *)
(* stack of the segments that quick_sort still has to be called for.       *)
(* Indices are unsigned in the code and would wrap below 0 and above 2^32; *)
(* here they are integers, and PartitionInvariant says they never get      *)
(* there (64M items, so low + high does not overflow either).              *)
(***************************************************************************)
EXTENDS Integers, Sequences

CONSTANTS
  MAX_ITEMS,
  Numbers       \* what rand() returns, in this instance

VARIABLES
  v,            \* the array
  given,        \* auxiliary: the array before it is sorted
  segments,     \* pending calls [low, high] of quick_sort, the next one first
  low, high,    \* of partition
  pivot_index,  \* of partition, or NoPivot outside of it
  last          \* the high of quick_sort, the end of partition's segment

SortVars == <<v, given, segments, low, high, pivot_index, last>>

ASSUME SortAssumption == MAX_ITEMS \in Nat \ {0} /\ Numbers \subseteq Int

Items   == 0 .. MAX_ITEMS - 1
NoPivot == -1
Segment(from, to) == [low |-> from, high |-> to]

SortInit ==
  /\ v \in [Items -> Numbers] /\ given = v
  /\ segments = <<Segment(0, MAX_ITEMS - 1)>>
  /\ low = 0 /\ high = 0 /\ pivot_index = NoPivot /\ last = 0

-----------------------------------------------------------------------------
swap(f, a, b) == [f EXCEPT ![a] = f[b], ![b] = f[a]]

(* A call for a segment of one element. *)
ReturnAtOnce ==
  /\ pivot_index = NoPivot /\ segments # <<>> /\ Head(segments).low >= Head(segments).high
  /\ segments' = Tail(segments)
  /\ UNCHANGED <<v, given, low, high, pivot_index, last>>

(* The pivot is chosen in the middle and moved to the bottom. *)
BeginPartition ==
  /\ pivot_index = NoPivot /\ segments # <<>> /\ Head(segments).low < Head(segments).high
  /\ \E s \in {Head(segments)} :
       /\ v' = swap(v, s.low, (s.low + s.high) \div 2)
       /\ pivot_index' = s.low /\ low' = s.low + 1 /\ high' = s.high /\ last' = s.high
  /\ segments' = Tail(segments) /\ UNCHANGED given

Partitioning == pivot_index # NoPivot /\ low <= high

(* Mutant: elements equal to the pivot are not passed over. *)
MoveLow_strict ==
  /\ Partitioning /\ v[low] < v[pivot_index] /\ low' = low + 1
  /\ UNCHANGED <<v, given, segments, high, pivot_index, last>>

MoveLow ==
  /\ Partitioning /\ v[low] <= v[pivot_index] /\ low' = low + 1
  /\ UNCHANGED <<v, given, segments, high, pivot_index, last>>

(* Mutant: high moves whatever it meets. *)
MoveHigh_blind ==
  /\ Partitioning /\ v[low] > v[pivot_index] /\ high' = high - 1
  /\ UNCHANGED <<v, given, segments, low, pivot_index, last>>

MoveHigh ==
  /\ Partitioning /\ v[low] > v[pivot_index] /\ v[high] > v[pivot_index] /\ high' = high - 1
  /\ UNCHANGED <<v, given, segments, low, pivot_index, last>>

Exchange ==
  /\ Partitioning /\ v[low] > v[pivot_index] /\ v[high] <= v[pivot_index]
  /\ v' = swap(v, low, high)
  /\ UNCHANGED <<given, segments, low, high, pivot_index, last>>

(* Mutant: the pivot stays at the bottom. *)
EndPartition_unplaced ==
  /\ pivot_index # NoPivot /\ low > high
  /\ segments' = (IF pivot_index < high THEN <<Segment(pivot_index, high - 1)>> ELSE <<>>)
                 \o (IF high < last THEN <<Segment(high + 1, last)>> ELSE <<>>) \o segments
  /\ pivot_index' = NoPivot /\ UNCHANGED <<v, given, low, high, last>>

(* The pivot goes between the two groups, and both are sorted. *)
EndPartition ==
  /\ pivot_index # NoPivot /\ low > high
  /\ v' = swap(v, pivot_index, high)
  /\ segments' = (IF pivot_index < high THEN <<Segment(pivot_index, high - 1)>> ELSE <<>>)
                 \o (IF high < last THEN <<Segment(high + 1, last)>> ELSE <<>>) \o segments
  /\ pivot_index' = NoPivot /\ UNCHANGED <<given, low, high, last>>

-----------------------------------------------------------------------------
Sorting == ReturnAtOnce \/ BeginPartition \/ MoveLow \/ MoveHigh \/ Exchange \/ EndPartition

AllSorted == segments = <<>> /\ pivot_index = NoPivot
SortRest  == AllSorted /\ UNCHANGED SortVars

SortNext == Sorting \/ SortRest

SortSpec == SortInit /\ [][SortNext]_SortVars

-----------------------------------------------------------------------------
SortTypeOK ==
  /\ v \in [Items -> Numbers] /\ given \in [Items -> Numbers]
  /\ segments \in Seq([low : Items, high : Items])
  /\ low \in 0 .. MAX_ITEMS /\ high \in Items /\ pivot_index \in Items \cup {NoPivot} /\ last \in Items

(* The invariant stated at qsortseq.c:41-44, for the segment at hand; low  *)
(* and high never leave it, however many elements equal the pivot.         *)
PartitionInvariant ==
  pivot_index # NoPivot =>
    /\ pivot_index < low /\ low <= high + 1 /\ high <= last /\ last < MAX_ITEMS
    /\ \A i \in pivot_index .. low - 1 : v[i] <= v[pivot_index]
    /\ \A i \in high + 1 .. last : v[i] > v[pivot_index]

(* What is left when all calls have returned is the given array, sorted. *)
SortsIt ==
  AllSorted => /\ \A i, j \in Items : i <= j => v[i] <= v[j]
               /\ \E f \in [Items -> Items] :
                    /\ \A i, j \in Items : i # j => f[i] # f[j]
                    /\ \A i \in Items : v[i] = given[f[i]]
=============================================================================
