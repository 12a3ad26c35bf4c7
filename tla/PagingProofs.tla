---------------------------- MODULE PagingProofs -----------------------------
(***************************************************************************)
(* Page replacement.  optimal.c has the fewest page faults that are        *)
(* possible, fifo.c is a queue, and lru.c holds the pages that were used   *)
(* most recently, for every trace of addresses, any number of frames and   *)
(* any size of a page; and what the three programs keep has its types.     *)
(***************************************************************************)
EXTENDS Paging, WellFoundedInduction, FiniteSetTheorems, SequenceTheorems, TLAPS

(* A set of numbers has a least one.                                       *)
LEMMA Least ==
  ASSUME NEW S \in SUBSET Nat, S # {}
  PROVE  \E n \in S : \A m \in S : n <= m
<1> DEFINE Before == OpToRel(<, Nat)
<1>1. IsWellFoundedOn(Before, Nat)
  BY NatLessThanWellFounded
<1>2. \A m, n \in Nat : m < n => <<m, n>> \in Before
  BY DEF OpToRel
<1> HIDE DEF Before
<1>3. PICK n \in S : \A m \in S : ~ (<<m, n>> \in Before)
  BY <1>1, WFMin
<1>4. \A m \in S : ~ (m < n)
  BY <1>2, <1>3, Zenon
<1> QED
  BY <1>4

(* Min is that number.                                                     *)
LEMMA MinIsLeast ==
  ASSUME NEW S \in SUBSET Nat, S # {}
  PROVE  Min(S) \in S /\ \A m \in S : Min(S) <= m
  BY Least, Zenon DEF Min

(* What holds of the end, and of every place if of the one after it, holds *)
(* of every place of a trace.                                              *)
LEMMA Backwards ==
  ASSUME NEW n \in Nat, NEW G \in SUBSET (0 .. n), n \in G,
         \A i \in 0 .. n - 1 : i + 1 \in G => i \in G
  PROVE  G = 0 .. n
<1> SUFFICES ASSUME NEW i \in 0 .. n, i \notin G PROVE FALSE
  OBVIOUS
<1> DEFINE Away == {m \in 0 .. n : n - m \notin G}
<1>1. n - i \in Away /\ Away \in SUBSET Nat
  OBVIOUS
<1> HIDE DEF Away
<1>2. PICK m \in Away : \A k \in Away : m <= k
  BY <1>1, Least
<1>3. m \in 0 .. n /\ n - m \notin G
  BY <1>2 DEF Away
<1>4. m # 0
  BY <1>3
<1>5. n - m \in 0 .. n - 1 /\ m - 1 \in 0 .. n /\ n - m + 1 = n - (m - 1)
  BY <1>3, <1>4
<1>6. m - 1 \in Away
  BY <1>3, <1>5 DEF Away
<1>7. m <= m - 1 /\ m \in Int
  BY <1>2, <1>3, <1>6
<1> QED
  BY <1>7

-----------------------------------------------------------------------------
(* A reference of the trace tr and what may be held after it.              *)
Ref(tr, i)  == page_adress(tr[i])
Refs(tr)    == {Ref(tr, i) : i \in DOMAIN tr}
Traces      == UNION {[1 .. n -> Adresses] : n \in 0 .. MaxLength}

(* A trace is a sequence of addresses.                                     *)
LEMMA TraceIsSeq ==
  ASSUME NEW tr \in Traces
  PROVE  Len(tr) \in Nat /\ tr \in [1 .. Len(tr) -> Adresses] /\ DOMAIN tr = 1 .. Len(tr)
  BY TraceAssumption DEF Traces

(* What a function of a finite set takes on is finite, and not more.       *)
LEMMA ImageFinite ==
  ASSUME NEW f, IsFiniteSet(DOMAIN f)
  PROVE  LET T == {f[x] : x \in DOMAIN f}
         IN  IsFiniteSet(T) /\ Cardinality(T) <= Cardinality(DOMAIN f)
<1> DEFINE T == {f[x] : x \in DOMAIN f}
           g == [x \in DOMAIN f |-> f[x]]
<1>1. g \in Surjection(DOMAIN f, T)
  BY DEF Surjection
<1> QED
  BY <1>1, FS_Surjection

(* The pages of a trace are finitely many numbers.                         *)
LEMMA RefsFinite ==
  ASSUME NEW tr \in Traces
  PROVE  IsFiniteSet(Refs(tr))
<1> DEFINE f == [i \in DOMAIN tr |-> Ref(tr, i)]
<1>1. IsFiniteSet(DOMAIN f)
  BY TraceIsSeq, FS_Interval
<1>2. Refs(tr) = {f[i] : i \in DOMAIN f}
  BY DEF Refs
<1> HIDE DEF f
<1> QED
  BY <1>1, <1>2, ImageFinite

(* The empty page of a frame is not the page of an address.                *)
LEMMA PageIsNat ==
  ASSUME NEW adress \in Nat
  PROVE  page_adress(adress) \in Nat
  BY FramesAssumption DEF page_adress

(* Sets of pages that may be held, and those that are left of one when a   *)
(* page is to be put in.                                                   *)
LEMMA HeldSets ==
  ASSUME NEW tr \in Traces, NEW S \in Held(tr)
  PROVE  /\ IsFiniteSet(S) /\ Cardinality(S) \in Nat /\ S \subseteq Refs(tr)
         /\ \A T \in SUBSET S : T \in Held(tr) /\ IsFiniteSet(T) /\ Cardinality(T) <= Cardinality(S)
<1>1. S \in SUBSET Refs(tr) /\ Cardinality(S) <= no_pages
  BY DEF Held, Refs, Ref
<1>2. IsFiniteSet(S) /\ Cardinality(S) \in Nat
  BY <1>1, RefsFinite, FS_Subset, FS_CardinalityType
<1>3. ASSUME NEW T \in SUBSET S
      PROVE  T \in Held(tr) /\ IsFiniteSet(T) /\ Cardinality(T) <= Cardinality(S)
  <2>1. IsFiniteSet(T) /\ Cardinality(T) <= Cardinality(S) /\ Cardinality(T) \in Nat
    BY <1>2, FS_Subset, FS_CardinalityType
  <2>2. T \in SUBSET Refs(tr) /\ Cardinality(T) <= no_pages
    BY <1>1, <1>2, <2>1, FramesAssumption
  <2> QED
    BY <2>1, <2>2 DEF Held, Refs, Ref
<1> QED
  BY <1>1, <1>2, <1>3

(* What may stay when a page comes in: nothing may, and whatever does      *)
(* leaves room for the page.                                               *)
LEMMA KeptSets ==
  ASSUME NEW tr \in Traces, NEW S \in Held(tr)
  PROVE  /\ {} \in Kept(S)
         /\ \A T \in Kept(S) : /\ T \in Held(tr) /\ T \subseteq S /\ Cardinality(T) \in Nat
                               /\ Cardinality(T) < no_pages
                               /\ \A p \in Refs(tr) : T \cup {p} \in Held(tr)
         /\ \A T \in SUBSET S, U \in Held(tr) :
              Cardinality(U) < no_pages /\ T \subseteq U => T \in Kept(S)
<1>1. {} \in Kept(S)
  BY FS_EmptySet, FramesAssumption DEF Kept
<1>2. ASSUME NEW T \in Kept(S)
      PROVE  /\ T \in Held(tr) /\ T \subseteq S /\ Cardinality(T) \in Nat /\ Cardinality(T) < no_pages
             /\ \A p \in Refs(tr) : T \cup {p} \in Held(tr)
  <2>1. T \in SUBSET S /\ Cardinality(T) < no_pages
    BY DEF Kept
  <2>2. T \in Held(tr) /\ IsFiniteSet(T) /\ Cardinality(T) \in Nat /\ T \subseteq Refs(tr)
    BY <2>1, HeldSets
  <2>3. ASSUME NEW p \in Refs(tr) PROVE T \cup {p} \in Held(tr)
    <3>1. Cardinality(T \cup {p}) <= no_pages
      <4>1. Cardinality(T \cup {p}) = IF p \in T THEN Cardinality(T) ELSE Cardinality(T) + 1
        BY <2>2, FS_AddElement
      <4> QED
        BY <2>1, <2>2, <4>1, FramesAssumption
    <3> QED
      BY <2>2, <3>1 DEF Held, Refs, Ref
  <2> QED
    BY <2>1, <2>2, <2>3
<1>3. ASSUME NEW T \in SUBSET S, NEW U \in Held(tr), Cardinality(U) < no_pages, T \subseteq U
      PROVE  T \in Kept(S)
  <2>1. Cardinality(T) <= Cardinality(U) /\ Cardinality(U) \in Nat /\ Cardinality(T) \in Nat
    BY <1>3, HeldSets
  <2> QED
    BY <1>3, <2>1, FramesAssumption DEF Kept
<1> QED
  BY <1>1, <1>2, <1>3

-----------------------------------------------------------------------------
(* The fewest faults from reference i on, given those from the next one on. *)
FewestAt(tr, later, i) ==
  [S \in Held(tr) |->
     IF i = Len(tr) THEN 0
     ELSE IF Ref(tr, i + 1) \in S THEN later[S]
     ELSE Min({1 + later[T \cup {Ref(tr, i + 1)}] : T \in Kept(S)})]

IsFewest(tr, f, from) ==
  /\ f = [i \in from .. Len(tr) |-> FewestAt(tr, f[i + 1], i)]
  /\ \A i \in from .. Len(tr) : f[i] \in [Held(tr) -> Nat]

(* One reference more: what a miss costs is the least of some numbers.     *)
CostOf(tr, later, i, T) == 1 + later[T \cup {Ref(tr, i + 1)}]

(* One reference costs nothing if its page is held, else a fault and what  *)
(* follows the best choice.                                                *)
LEMMA OneMoreReference ==
  ASSUME NEW tr \in Traces, NEW i \in 0 .. Len(tr) - 1, NEW later \in [Held(tr) -> Nat], NEW S \in Held(tr)
  PROVE  /\ FewestAt(tr, later, i)[S] \in Nat
         /\ Ref(tr, i + 1) \in S => FewestAt(tr, later, i)[S] = later[S]
         /\ Ref(tr, i + 1) \notin S =>
              /\ \A T \in Kept(S) : FewestAt(tr, later, i)[S] <= CostOf(tr, later, i, T)
              /\ \E T \in Kept(S) : FewestAt(tr, later, i)[S] = CostOf(tr, later, i, T)
<1> DEFINE costs == {CostOf(tr, later, i, T) : T \in Kept(S)}
<1>1. i # Len(tr) /\ Ref(tr, i + 1) \in Refs(tr)
  BY TraceIsSeq DEF Refs
<1>2. \A T \in Kept(S) : CostOf(tr, later, i, T) \in Nat
  <2> SUFFICES ASSUME NEW T \in Kept(S) PROVE CostOf(tr, later, i, T) \in Nat
    OBVIOUS
  <2>1. T \cup {Ref(tr, i + 1)} \in Held(tr)
    BY <1>1, KeptSets
  <2> QED
    BY <2>1 DEF CostOf
<1>3. costs \in SUBSET Nat /\ costs # {}
  <2>1. CostOf(tr, later, i, {}) \in costs
    BY KeptSets, Zenon
  <2> QED
    BY <1>2, <2>1, Zenon
<1>4. FewestAt(tr, later, i)[S] = IF Ref(tr, i + 1) \in S THEN later[S] ELSE Min(costs)
  BY <1>1 DEF FewestAt, CostOf
<1>5. Min(costs) \in costs /\ (\A m \in costs : Min(costs) <= m)
  BY <1>3, MinIsLeast
<1>6. /\ \A T \in Kept(S) : Min(costs) <= CostOf(tr, later, i, T)
      /\ \E T \in Kept(S) : Min(costs) = CostOf(tr, later, i, T)
  BY <1>5, Zenon
<1>7. Min(costs) \in Nat
  BY <1>3, <1>5, Zenon
<1> HIDE DEF costs
<1> QED
  BY <1>4, <1>6, <1>7

(* The recursion is well founded: it comes to the end of the trace.        *)
LEMMA FewestDefined ==
  ASSUME NEW tr \in Traces
  PROVE  IsFewest(tr, Fewest(tr), 0)
<1> DEFINE n == Len(tr)
           G == {i \in 0 .. n : \E f : IsFewest(tr, f, i)}
<1>1. n \in Nat
  BY TraceIsSeq
<1>2. n \in G
  <2> DEFINE f == [i \in n .. n |-> [S \in Held(tr) |-> 0]]
  <2>1. \A later : FewestAt(tr, later, n) = [S \in Held(tr) |-> 0]
    BY DEF FewestAt
  <2>2. IsFewest(tr, f, n)
    BY <1>1, <2>1 DEF IsFewest
  <2> QED
    BY <1>1, <2>2
<1>3. ASSUME NEW i \in 0 .. n - 1, i + 1 \in G PROVE i \in G
  <2>1. PICK g : IsFewest(tr, g, i + 1)
    BY <1>3
  <2> DEFINE f == [k \in i .. n |-> IF k = i THEN FewestAt(tr, g[i + 1], i) ELSE g[k]]
  <2>2. i + 1 \in i + 1 .. n /\ i + 1 \in i .. n /\ i + 1 # i
    BY <1>1
  <2>3. g[i + 1] \in [Held(tr) -> Nat] /\ f[i + 1] = g[i + 1]
    BY <2>1, <2>2 DEF IsFewest
  <2>4. f[i] = FewestAt(tr, f[i + 1], i) /\ f[i] \in [Held(tr) -> Nat]
    <3>1. \A S \in Held(tr) : FewestAt(tr, g[i + 1], i)[S] \in Nat
      BY <2>3, OneMoreReference
    <3>2. FewestAt(tr, g[i + 1], i) \in [Held(tr) -> Nat]
      BY <3>1 DEF FewestAt
    <3>3. f[i] = FewestAt(tr, g[i + 1], i)
      BY <1>1
    <3> QED
      BY <2>3, <3>2, <3>3
  <2>5. ASSUME NEW k \in i + 1 .. n PROVE f[k] = FewestAt(tr, f[k + 1], k) /\ f[k] \in [Held(tr) -> Nat]
    <3>1. f[k] = g[k]
      BY <1>1, <2>5
    <3>2. g[k] = FewestAt(tr, g[k + 1], k) /\ g[k] \in [Held(tr) -> Nat]
      BY <2>1, <2>5 DEF IsFewest
    <3>3. CASE k = n
      <4>1. \A later : FewestAt(tr, later, n) = [S \in Held(tr) |-> 0]
        BY DEF FewestAt
      <4> HIDE DEF f
      <4> QED
        BY <3>1, <3>2, <3>3, <4>1
    <3>4. CASE k # n
      <4>1. f[k + 1] = g[k + 1]
        BY <1>1, <2>5, <3>4
      <4> HIDE DEF f
      <4> QED
        BY <3>1, <3>2, <4>1
    <3> QED
      BY <3>3, <3>4
  <2>6. \A k \in i .. n : k = i \/ k \in i + 1 .. n
    BY <1>1
  <2>7. f = [k \in i .. n |-> f[k]]
    OBVIOUS
  <2> HIDE DEF f
  <2>8. \A k \in i .. n : f[k] = FewestAt(tr, f[k + 1], k) /\ f[k] \in [Held(tr) -> Nat]
    BY <2>4, <2>5, <2>6
  <2>9. f = [k \in i .. n |-> FewestAt(tr, f[k + 1], k)]
    BY <2>7, <2>8
  <2>10. IsFewest(tr, f, i)
    BY <2>8, <2>9 DEF IsFewest
  <2> QED
    BY <2>10, <1>1
<1>4. 0 \in G
  <2> HIDE DEF G
  <2>1. G = 0 .. n
    <3>1. G \in SUBSET (0 .. n)
      BY DEF G
    <3> QED
      BY <1>1, <1>2, <1>3, <3>1, Backwards
  <2> QED
    BY <1>1, <2>1
<1>5. PICK f : IsFewest(tr, f, 0)
  BY <1>4
<1>6. Fewest(tr) = [i \in 0 .. Len(tr) |-> FewestAt(tr, Fewest(tr)[i + 1], i)]
  <2>1. \E g : g = [i \in 0 .. Len(tr) |-> FewestAt(tr, g[i + 1], i)]
    BY <1>5 DEF IsFewest
  <2>2. Fewest(tr) = CHOOSE g : g = [i \in 0 .. Len(tr) |-> FewestAt(tr, g[i + 1], i)]
    BY DEF Fewest, FewestAt, Ref
  <2> QED
    BY <2>1, <2>2
<1> DEFINE typed == {i \in 0 .. n : Fewest(tr)[i] \in [Held(tr) -> Nat]}
<1>7. n \in typed
  <2>1. \A later : FewestAt(tr, later, n) = [S \in Held(tr) |-> 0]
    BY DEF FewestAt
  <2> QED
    BY <1>1, <1>6, <2>1
<1>8. ASSUME NEW i \in 0 .. n - 1, i + 1 \in typed PROVE i \in typed
  <2>1. Fewest(tr)[i + 1] \in [Held(tr) -> Nat]
    BY <1>8
  <2>2. \A S \in Held(tr) : FewestAt(tr, Fewest(tr)[i + 1], i)[S] \in Nat
    BY <2>1, OneMoreReference
  <2>3. FewestAt(tr, Fewest(tr)[i + 1], i) \in [Held(tr) -> Nat]
    BY <2>2 DEF FewestAt
  <2>4. i \in 0 .. n
    BY <1>1
  <2> QED
    BY <1>6, <2>3, <2>4
<1>9. typed = 0 .. n
  <2>1. typed \in SUBSET (0 .. n)
    OBVIOUS
  <2> HIDE DEF typed
  <2> QED
    BY <1>1, <1>7, <1>8, <2>1, Backwards
<1> QED
  BY <1>6, <1>9 DEF IsFewest

(* The next reference is to a page of the trace.                           *)
LEMMA NextRef ==
  ASSUME NEW tr \in Traces, NEW i \in 0 .. Len(tr) - 1
  PROVE  i \in 0 .. Len(tr) /\ i + 1 \in 0 .. Len(tr) /\ Ref(tr, i + 1) \in Refs(tr)
<1>1. Len(tr) \in Nat /\ DOMAIN tr = 1 .. Len(tr)
  BY TraceIsSeq
<1>2. i \in 0 .. Len(tr) /\ i + 1 \in 0 .. Len(tr) /\ i + 1 \in DOMAIN tr
  BY <1>1
<1> QED
  BY <1>2 DEF Refs

(* The fewest faults are a number, and none after the end.                 *)
LEMMA FewestTypes ==
  ASSUME NEW tr \in Traces
  PROVE  /\ \A i \in 0 .. Len(tr), S \in Held(tr) : Fewest(tr)[i][S] \in Nat
         /\ \A S \in Held(tr) : Fewest(tr)[Len(tr)][S] = 0
<1>1. /\ \A i \in 0 .. Len(tr) : Fewest(tr)[i] = FewestAt(tr, Fewest(tr)[i + 1], i)
      /\ \A i \in 0 .. Len(tr) : Fewest(tr)[i] \in [Held(tr) -> Nat]
  BY FewestDefined, Zenon DEF IsFewest
<1>2. Len(tr) \in 0 .. Len(tr)
  BY TraceIsSeq
<1>3. \A later : FewestAt(tr, later, Len(tr)) = [S \in Held(tr) |-> 0]
  BY DEF FewestAt
<1>4. \A S \in Held(tr) : Fewest(tr)[Len(tr)][S] = 0
  BY <1>1, <1>2, <1>3
<1> QED
  BY <1>1, <1>4

(* A page that is there costs nothing, and of one that is not the best     *)
(* replacement costs least.                                                *)
After(tr, i, T) == Fewest(tr)[i + 1][T \cup {Ref(tr, i + 1)}]

(* The equation of Fewest, for one reference: a page held costs nothing,   *)
(* another a fault and the best choice of what stays.                      *)
LEMMA FewestStep ==
  ASSUME NEW tr \in Traces, NEW i \in 0 .. Len(tr) - 1, NEW S \in Held(tr)
  PROVE  /\ Ref(tr, i + 1) \in S => Fewest(tr)[i][S] = Fewest(tr)[i + 1][S]
         /\ Ref(tr, i + 1) \notin S =>
              /\ \A T \in Kept(S) : Fewest(tr)[i][S] <= 1 + After(tr, i, T)
              /\ \E T \in Kept(S) : Fewest(tr)[i][S] = 1 + After(tr, i, T)
<1> DEFINE later == Fewest(tr)[i + 1]
<1>1. i \in 0 .. Len(tr) /\ i + 1 \in 0 .. Len(tr)
  BY NextRef
<1>2. later \in [Held(tr) -> Nat] /\ Fewest(tr)[i] = FewestAt(tr, later, i)
  BY <1>1, FewestDefined, Zenon DEF IsFewest
<1>3. \A T : CostOf(tr, later, i, T) = 1 + After(tr, i, T)
  BY DEF CostOf, After
<1> HIDE DEF later
<1>4. /\ Ref(tr, i + 1) \in S => FewestAt(tr, later, i)[S] = later[S]
      /\ Ref(tr, i + 1) \notin S =>
           /\ \A T \in Kept(S) : FewestAt(tr, later, i)[S] <= CostOf(tr, later, i, T)
           /\ \E T \in Kept(S) : FewestAt(tr, later, i)[S] = CostOf(tr, later, i, T)
  BY <1>2, OneMoreReference, Zenon
<1> QED
  BY <1>2, <1>3, <1>4, Zenon DEF later

-----------------------------------------------------------------------------
(* Who holds more pages has no more faults.                                *)
LEMMA MoreIsBetter ==
  ASSUME NEW tr \in Traces
  PROVE  \A i \in 0 .. Len(tr) : \A A, B \in Held(tr) : B \subseteq A => Fewest(tr)[i][A] <= Fewest(tr)[i][B]
<1> DEFINE G == {i \in 0 .. Len(tr) :
                   \A A, B \in Held(tr) : B \subseteq A => Fewest(tr)[i][A] <= Fewest(tr)[i][B]}
<1>1. Len(tr) \in Nat
  BY TraceIsSeq
<1>2. Len(tr) \in G
  BY <1>1, FewestTypes
<1>3. ASSUME NEW i \in 0 .. Len(tr) - 1, i + 1 \in G PROVE i \in G
  <2> SUFFICES ASSUME NEW A \in Held(tr), NEW B \in Held(tr), B \subseteq A
               PROVE  Fewest(tr)[i][A] <= Fewest(tr)[i][B]
    BY <1>1
  <2> DEFINE page == Ref(tr, i + 1)
  <2>1. i \in 0 .. Len(tr) /\ i + 1 \in 0 .. Len(tr) /\ page \in Refs(tr)
    BY NextRef
  <2>2. Fewest(tr)[i][A] \in Nat /\ Fewest(tr)[i][B] \in Nat
    BY <2>1, FewestTypes
  <2> HIDE DEF page
  <2>3. CASE page \in B
    <3>1. Fewest(tr)[i][A] = Fewest(tr)[i + 1][A] /\ Fewest(tr)[i][B] = Fewest(tr)[i + 1][B]
      BY <2>3, FewestStep DEF page
    <3> QED
      BY <1>3, <3>1
  <2>4. CASE page \notin B
    <3>1. PICK T \in Kept(B) : Fewest(tr)[i][B] = 1 + After(tr, i, T)
      BY <2>4, FewestStep DEF page
    <3>2. T \cup {page} \in Held(tr) /\ T \subseteq B
      BY <2>1, KeptSets
    <3>3. After(tr, i, T) = Fewest(tr)[i + 1][T \cup {page}] /\ After(tr, i, T) \in Nat
      BY <2>1, <3>2, FewestTypes DEF After, page
    <3>4. CASE page \in A
      <4>1. Fewest(tr)[i][A] = Fewest(tr)[i + 1][A]
        BY <3>4, FewestStep DEF page
      <4>2. Fewest(tr)[i + 1][A] <= Fewest(tr)[i + 1][T \cup {page}]
        BY <1>3, <3>2, <3>4
      <4> QED
        BY <2>2, <3>1, <3>3, <4>1, <4>2
    <3>5. CASE page \notin A
      <4>1. T \in Kept(A)
        BY <3>2 DEF Kept
      <4>2. Fewest(tr)[i][A] <= 1 + After(tr, i, T)
        BY <3>5, <4>1, FewestStep DEF page
      <4> QED
        BY <3>1, <4>2
    <3> QED
      BY <3>4, <3>5
  <2> QED
    BY <2>3, <2>4
<1>4. G = 0 .. Len(tr)
  <2>1. G \in SUBSET (0 .. Len(tr))
    OBVIOUS
  <2> HIDE DEF G
  <2> QED
    BY <1>1, <1>2, <1>3, <2>1, Backwards
<1> QED
  BY <1>4

(* One page in the place of another costs one fault at most.               *)
LEMMA OnePageCostsOne ==
  ASSUME NEW tr \in Traces, NEW x
  PROVE  \A i \in 0 .. Len(tr) : \A A, B \in Held(tr) :
           B \subseteq A \cup {x} => Fewest(tr)[i][A] <= 1 + Fewest(tr)[i][B]
<1> DEFINE G == {i \in 0 .. Len(tr) : \A A, B \in Held(tr) :
                   B \subseteq A \cup {x} => Fewest(tr)[i][A] <= 1 + Fewest(tr)[i][B]}
<1>1. Len(tr) \in Nat
  BY TraceIsSeq
<1>2. Len(tr) \in G
  BY <1>1, FewestTypes
<1>3. ASSUME NEW i \in 0 .. Len(tr) - 1, i + 1 \in G PROVE i \in G
  <2> SUFFICES ASSUME NEW A \in Held(tr), NEW B \in Held(tr), B \subseteq A \cup {x}
               PROVE  Fewest(tr)[i][A] <= 1 + Fewest(tr)[i][B]
    BY <1>1
  <2> DEFINE page == Ref(tr, i + 1)
  <2>1. i \in 0 .. Len(tr) /\ i + 1 \in 0 .. Len(tr) /\ page \in Refs(tr)
    BY NextRef
  <2>2. Fewest(tr)[i][A] \in Nat /\ Fewest(tr)[i][B] \in Nat
    BY <2>1, FewestTypes
  <2> HIDE DEF page
  <2>3. ASSUME page \in A, page \in B PROVE Fewest(tr)[i][A] <= 1 + Fewest(tr)[i][B]
    <3>1. Fewest(tr)[i][A] = Fewest(tr)[i + 1][A] /\ Fewest(tr)[i][B] = Fewest(tr)[i + 1][B]
      BY <2>3, FewestStep DEF page
    <3> QED
      BY <1>3, <3>1
  <2>4. ASSUME page \notin A, page \in B PROVE Fewest(tr)[i][A] <= 1 + Fewest(tr)[i][B]
    <3>1. page = x /\ B \ {page} \subseteq A /\ (B \ {page}) \cup {page} = B
      BY <2>4
    <3>2. Cardinality(B \ {page}) < no_pages
      <4>1. IsFiniteSet(B) /\ Cardinality(B) \in Nat /\ Cardinality(B) <= no_pages
        BY HeldSets DEF Held
      <4>2. Cardinality(B \ {page}) = Cardinality(B) - 1
        BY <2>4, <4>1, FS_RemoveElement
      <4> QED
        BY <4>1, <4>2, FramesAssumption
    <3>3. B \ {page} \in Kept(A)
      BY <3>1, <3>2 DEF Kept
    <3>4. Fewest(tr)[i][A] <= 1 + After(tr, i, B \ {page})
      BY <2>4, <3>3, FewestStep DEF page
    <3>6. After(tr, i, B \ {page}) = Fewest(tr)[i + 1][B]
      BY <3>1 DEF After, page
    <3>5. Fewest(tr)[i][B] = Fewest(tr)[i + 1][B]
      BY <2>4, FewestStep DEF page
    <3> QED
      BY <3>4, <3>5, <3>6
  <2>5. ASSUME page \notin B PROVE Fewest(tr)[i][A] <= 1 + Fewest(tr)[i][B]
    <3>1. PICK T \in Kept(B) : Fewest(tr)[i][B] = 1 + After(tr, i, T)
      BY <2>5, FewestStep DEF page
    <3>2. T \cup {page} \in Held(tr) /\ T \subseteq B /\ T \in Held(tr) /\ Cardinality(T) < no_pages
      BY <2>1, KeptSets
    <3>3. After(tr, i, T) = Fewest(tr)[i + 1][T \cup {page}] /\ After(tr, i, T) \in Nat
      BY <2>1, <3>2, FewestTypes DEF After, page
    <3>4. CASE page \in A
      <4>1. Fewest(tr)[i][A] = Fewest(tr)[i + 1][A]
        BY <3>4, FewestStep DEF page
      <4>2. Fewest(tr)[i + 1][A] <= 1 + Fewest(tr)[i + 1][T \cup {page}]
        BY <1>3, <3>2, <3>4
      <4> QED
        BY <2>2, <3>1, <3>3, <4>1, <4>2, SMTT(40)
    <3>5. CASE page \notin A
      <4>1. T \cap A \in Kept(A)
        BY <3>2, KeptSets
      <4>2. (T \cap A) \cup {page} \in Held(tr)
        BY <2>1, <4>1, KeptSets
      <4>3. Fewest(tr)[i][A] <= 1 + After(tr, i, T \cap A)
        BY <3>5, <4>1, FewestStep DEF page
      <4>4. After(tr, i, T \cap A) <= 1 + After(tr, i, T)
        <5>1. T \cup {page} \subseteq ((T \cap A) \cup {page}) \cup {x}
          BY <3>2
        <5>2. Fewest(tr)[i + 1][(T \cap A) \cup {page}] <= 1 + Fewest(tr)[i + 1][T \cup {page}]
          BY <1>3, <3>2, <4>2, <5>1
        <5> QED
          BY <3>3, <5>2 DEF After, page
      <4>5. After(tr, i, T \cap A) \in Nat
        BY <2>1, <4>2, FewestTypes DEF After, page
      <4> QED
        BY <2>2, <3>1, <3>3, <4>3, <4>4, <4>5, SMTT(40)
    <3> QED
      BY <3>4, <3>5
  <2> QED
    BY <2>3, <2>4, <2>5
<1>4. G = 0 .. Len(tr)
  <2>1. G \in SUBSET (0 .. Len(tr))
    OBVIOUS
  <2> HIDE DEF G
  <2> QED
    BY <1>1, <1>2, <1>3, <2>1, Backwards
<1> QED
  BY <1>4

(* Where a page is referred to after reference i.                          *)
Uses(tr, i, page) == {k \in i + 1 .. Len(tr) : Ref(tr, k) = page}

(* A reference to another page leaves these as they are.                   *)
LEMMA UsesAfter ==
  ASSUME NEW tr \in Traces, NEW i \in 0 .. Len(tr) - 1, NEW page
  PROVE  /\ page # Ref(tr, i + 1) => Uses(tr, i, page) = Uses(tr, i + 1, page)
         /\ page = Ref(tr, i + 1) => i + 1 \in Uses(tr, i, page)
         /\ Uses(tr, i, page) \in SUBSET Nat
  BY TraceIsSeq DEF Uses

(* A page that is never referred to again need not be held.                *)
LEMMA IdleIsUseless ==
  ASSUME NEW tr \in Traces, NEW idle
  PROVE  \A i \in 0 .. Len(tr) : \A A \in Held(tr) :
           Uses(tr, i, idle) = {} => Fewest(tr)[i][A \ {idle}] <= Fewest(tr)[i][A]
<1> DEFINE G == {i \in 0 .. Len(tr) : \A A \in Held(tr) :
                   Uses(tr, i, idle) = {} => Fewest(tr)[i][A \ {idle}] <= Fewest(tr)[i][A]}
<1>1. Len(tr) \in Nat
  BY TraceIsSeq
<1>2. \A A \in Held(tr) : A \ {idle} \in Held(tr)
  BY HeldSets
<1>3. Len(tr) \in G
  BY <1>1, <1>2, FewestTypes
<1>4. ASSUME NEW i \in 0 .. Len(tr) - 1, i + 1 \in G PROVE i \in G
  <2> SUFFICES ASSUME NEW A \in Held(tr), Uses(tr, i, idle) = {}
               PROVE  Fewest(tr)[i][A \ {idle}] <= Fewest(tr)[i][A]
    BY NextRef, Zenon
  <2> DEFINE page == Ref(tr, i + 1)
             B == A \ {idle}
  <2>1. i \in 0 .. Len(tr) /\ i + 1 \in 0 .. Len(tr) /\ page \in Refs(tr)
    BY NextRef
  <2>2. B \in Held(tr)
    BY <1>2
  <2>3. Uses(tr, i + 1, idle) = {} /\ idle # page
    BY UsesAfter
  <2>4. \A C \in Held(tr) : Fewest(tr)[i + 1][C \ {idle}] <= Fewest(tr)[i + 1][C]
    BY <1>4, <2>3
  <2> HIDE DEF page
  <2>5. CASE page \in A
    <3>1. page \in B
      BY <2>3, <2>5
    <3> HIDE DEF B
    <3>2. Fewest(tr)[i][A] = Fewest(tr)[i + 1][A] /\ Fewest(tr)[i][B] = Fewest(tr)[i + 1][B]
      BY <2>2, <2>5, <3>1, FewestStep DEF page
    <3> QED
      BY <2>4, <3>2 DEF B
  <2>6. CASE page \notin A
    <3>1. PICK T \in Kept(A) : Fewest(tr)[i][A] = 1 + After(tr, i, T)
      BY <2>6, FewestStep DEF page
    <3>2. T \cup {page} \in Held(tr) /\ T \subseteq A /\ T \in Held(tr) /\ Cardinality(T) < no_pages
      BY <2>1, KeptSets
    <3>3. T \ {idle} \in Kept(B)
      BY <2>2, <3>2, KeptSets
    <3>4. (T \ {idle}) \cup {page} \in Held(tr)
      BY <2>1, <2>2, <3>3, KeptSets
    <3>5. page \notin B
      BY <2>6
    <3> HIDE DEF B
    <3>6. Fewest(tr)[i][B] <= 1 + After(tr, i, T \ {idle})
      BY <2>2, <3>3, <3>5, FewestStep DEF page
    <3>7. After(tr, i, T \ {idle}) <= After(tr, i, T)
      <4>1. (T \ {idle}) \cup {page} = (T \cup {page}) \ {idle}
        BY <2>3
      <4>2. Fewest(tr)[i + 1][(T \ {idle}) \cup {page}] <= Fewest(tr)[i + 1][T \cup {page}]
        BY <2>4, <3>2, <4>1
      <4> QED
        BY <4>2 DEF After, page
    <3>8. After(tr, i, T \ {idle}) \in Nat /\ After(tr, i, T) \in Nat
      BY <2>1, <3>2, <3>4, FewestTypes DEF After, page
    <3>9. Fewest(tr)[i][B] \in Nat
      BY <2>1, <2>2, FewestTypes
    <3> QED
      BY <3>1, <3>6, <3>7, <3>8, <3>9 DEF B
  <2> QED
    BY <2>5, <2>6
<1>5. G = 0 .. Len(tr)
  <2>1. G \in SUBSET (0 .. Len(tr))
    OBVIOUS
  <2> HIDE DEF G
  <2> QED
    BY <1>1, <1>3, <1>4, <2>1, Backwards
<1> QED
  BY <1>5

(* Of two pages it is better to hold the one that is referred to sooner.   *)
Sooner(tr, i, near, far) == \A k \in Uses(tr, i, far) : \E m \in Uses(tr, i, near) : m < k

(* Of two pages it is better to hold the one that is referred to sooner:   *)
(* the exchange argument.                                                  *)
LEMMA SoonerIsBetter ==
  ASSUME NEW tr \in Traces, NEW near, NEW far, near # far
  PROVE  \A i \in 0 .. Len(tr) : \A A \in Held(tr) :
           /\ near \notin A /\ far \notin A /\ A \cup {near} \in Held(tr) /\ A \cup {far} \in Held(tr)
           /\ Sooner(tr, i, near, far)
           => Fewest(tr)[i][A \cup {near}] <= Fewest(tr)[i][A \cup {far}]
<1> DEFINE Fits(A) == /\ near \notin A /\ far \notin A
                      /\ A \cup {near} \in Held(tr) /\ A \cup {far} \in Held(tr)
           G == {i \in 0 .. Len(tr) : \A A \in Held(tr) :
                   Fits(A) /\ Sooner(tr, i, near, far)
                     => Fewest(tr)[i][A \cup {near}] <= Fewest(tr)[i][A \cup {far}]}
<1>1. Len(tr) \in Nat
  BY TraceIsSeq
<1>2. Len(tr) \in G
  BY <1>1, FewestTypes
<1>3. ASSUME NEW i \in 0 .. Len(tr) - 1, i + 1 \in G PROVE i \in G
  <2> SUFFICES ASSUME NEW A \in Held(tr), Fits(A), Sooner(tr, i, near, far)
               PROVE  Fewest(tr)[i][A \cup {near}] <= Fewest(tr)[i][A \cup {far}]
    BY <1>1
  <2> DEFINE page == Ref(tr, i + 1)
             B == A \cup {near}
             C == A \cup {far}
  <2>1. i \in 0 .. Len(tr) /\ i + 1 \in 0 .. Len(tr) /\ page \in Refs(tr)
    BY NextRef
  <2>2. B \in Held(tr) /\ C \in Held(tr)
    OBVIOUS
  <2>3. page # far
    <3> SUFFICES ASSUME page = far PROVE FALSE
      OBVIOUS
    <3>1. PICK m \in Uses(tr, i, near) : m < i + 1
      BY UsesAfter DEF Sooner
    <3> QED
      BY <1>1, <3>1 DEF Uses
  <2>4. page # near => Sooner(tr, i + 1, near, far)
    BY <2>3, UsesAfter DEF Sooner
  <2>5. page # near => \A D \in Held(tr) : Fits(D) =>
                         Fewest(tr)[i + 1][D \cup {near}] <= Fewest(tr)[i + 1][D \cup {far}]
    BY <1>3, <2>4
  <2>6. Fewest(tr)[i][B] \in Nat /\ Fewest(tr)[i][C] \in Nat
    BY <2>1, <2>2, FewestTypes
  <2> HIDE DEF page, G
  <2>7. CASE page \in A
    <3>1. page # near
      BY <2>7
    <3>2. page \in B /\ page \in C
      BY <2>7
    <3>3. Fewest(tr)[i][B] = Fewest(tr)[i + 1][B] /\ Fewest(tr)[i][C] = Fewest(tr)[i + 1][C]
      <4> HIDE DEF B, C
      <4> QED
        BY <2>2, <3>2, FewestStep DEF page
    <3> QED
      BY <2>5, <3>1, <3>3
  <2>8. CASE page \notin A
    <3>1. page \notin C
      BY <2>3, <2>8
    <3>2. PICK T \in Kept(C) : Fewest(tr)[i][C] = 1 + After(tr, i, T)
      <4> HIDE DEF B, C
      <4> QED
        BY <2>2, <3>1, FewestStep DEF page
    <3>3. T \cup {page} \in Held(tr) /\ T \subseteq C /\ T \in Held(tr) /\ Cardinality(T) < no_pages
      BY <2>1, <2>2, KeptSets
    <3>4. After(tr, i, T) = Fewest(tr)[i + 1][T \cup {page}] /\ After(tr, i, T) \in Nat
      BY <2>1, <3>3, FewestTypes DEF After, page
    <3>5. CASE page = near
      <4>1. page \in B /\ T \cup {page} \subseteq B \cup {far}
        BY <3>3, <3>5
      <4> HIDE DEF B, C
      <4>2. Fewest(tr)[i][B] = Fewest(tr)[i + 1][B]
        BY <2>2, <4>1, FewestStep DEF page
      <4>3. Fewest(tr)[i + 1][B] <= 1 + Fewest(tr)[i + 1][T \cup {page}]
        BY <2>1, <2>2, <3>3, <4>1, OnePageCostsOne
      <4> QED
        BY <3>2, <3>4, <4>2, <4>3 DEF B, C
    <3>6. CASE page # near /\ far \notin T
      <4>1. page \notin B /\ T \subseteq B
        BY <2>8, <3>3, <3>6
      <4> HIDE DEF B, C
      <4>2. T \in Kept(B)
        BY <2>2, <3>3, <4>1, KeptSets
      <4> QED
        BY <2>2, <3>2, <4>1, <4>2, FewestStep DEF page, B, C
    <3>7. CASE page # near /\ far \in T
      <4> DEFINE D == T \ {far}
                 U == D \cup {near}
      <4>1. page \notin B /\ U \subseteq B /\ D \subseteq A
        BY <2>8, <3>3, <3>7
      <4>2. U \in Held(tr) /\ Cardinality(U) < no_pages
        <5>1. U \in Held(tr) /\ D \in Held(tr)
          BY <2>2, <3>3, <4>1, HeldSets
        <5>2. IsFiniteSet(T) /\ IsFiniteSet(D) /\ Cardinality(T) \in Nat /\ Cardinality(D) \in Nat
          BY <3>3, <5>1, HeldSets
        <5>3. Cardinality(D) = Cardinality(T) - 1
          BY <3>7, <5>2, FS_RemoveElement
        <5>4. near \notin D
          BY <4>1
        <5> HIDE DEF D
        <5>5. Cardinality(U) = Cardinality(D) + 1
          BY <5>2, <5>4, FS_AddElement
        <5> QED
          BY <3>3, <5>1, <5>2, <5>3, <5>5
      <4>3. U \in Kept(B)
        <5> HIDE DEF U, B
        <5> QED
          BY <2>2, <4>1, <4>2, KeptSets
      <4>4. U \cup {page} \in Held(tr)
        <5> HIDE DEF U, B
        <5> QED
          BY <2>1, <2>2, <4>3, KeptSets
      <4>5. Fewest(tr)[i][B] <= 1 + After(tr, i, U)
        <5> HIDE DEF U, B
        <5> QED
          BY <2>2, <4>1, <4>3, FewestStep DEF page
      <4>6. Fewest(tr)[i + 1][U \cup {page}] <= Fewest(tr)[i + 1][T \cup {page}]
        <5> DEFINE E == D \cup {page}
        <5>1. U \cup {page} = E \cup {near} /\ T \cup {page} = E \cup {far}
          BY <3>7
        <5>2. near \notin E /\ far \notin E
          BY <2>3, <3>7, <4>1
        <5>3. E \in Held(tr)
          BY <3>3, HeldSets
        <5> HIDE DEF E, U, D
        <5> QED
          BY <2>5, <3>3, <3>7, <4>4, <5>1, <5>2, <5>3
      <4>7. After(tr, i, U) = Fewest(tr)[i + 1][U \cup {page}] /\ After(tr, i, U) \in Nat
        BY <2>1, <4>4, FewestTypes DEF After, page
      <4> HIDE DEF U, B, C
      <4> QED
        BY <2>6, <3>2, <3>4, <4>5, <4>6, <4>7, SMTT(40) DEF B, C
    <3> QED
      BY <3>5, <3>6, <3>7
  <2> QED
    BY <2>7, <2>8
<1>4. G = 0 .. Len(tr)
  <2>1. G \in SUBSET (0 .. Len(tr))
    OBVIOUS
  <2> HIDE DEF G
  <2> QED
    BY <1>1, <1>2, <1>3, <2>1, Backwards
<1> QED
  BY <1>4

-----------------------------------------------------------------------------
(* What a frame notes of its page after reference i.                       *)
Note(tr, i, page) == IF Uses(tr, i, page) = {} THEN Never ELSE Min(Uses(tr, i, page)) - i - 1

(* The pages in frames with the addresses ad.                              *)
InFrames(ad) == {ad[j] : j \in Frames} \ {NoPage}
Different(ad) == \A j, k \in Frames : j # k /\ ad[j] = ad[k] => ad[j] = NoPage

(* What the search for the best candidate ends with: a page that is never  *)
(* referred to again, or, if all are, one that none is referred to after.  *)
IsBest(tr, i, ad, slot) ==
  \/ Uses(tr, i, ad[slot]) = {}
  \/ \A k \in Frames : Uses(tr, i, ad[k]) # {} /\ Note(tr, i, ad[k]) <= Note(tr, i, ad[slot])

(* There are no_pages frames.                                              *)
LEMMA FramesCounted == IsFiniteSet(Frames) /\ Cardinality(Frames) = no_pages
  BY FS_Interval, FramesAssumption DEF Frames

(* Every page of a trace is a number, and no reference is to an empty      *)
(* frame.                                                                  *)
LEMMA RefsAreNat ==
  ASSUME NEW tr \in Traces
  PROVE  Refs(tr) \in SUBSET Nat /\ \A i \in 0 .. Len(tr) : Uses(tr, i, NoPage) = {}
<1>1. \A k \in 1 .. Len(tr) : Ref(tr, k) \in Nat
  <2> TAKE k \in 1 .. Len(tr)
  <2>1. tr[k] \in Nat
    BY TraceIsSeq, TraceAssumption
  <2> QED
    BY <2>1, PageIsNat DEF Ref
<1>2. \A i \in 0 .. Len(tr) : \A k \in i + 1 .. Len(tr) : Ref(tr, k) # NoPage
  BY <1>1, TraceIsSeq DEF NoPage
<1> QED
  BY <1>1, <1>2, TraceIsSeq DEF Refs, Uses

(* Of two pages with a note the one with the lower note comes sooner.      *)
LEMMA LowerNoteSooner ==
  ASSUME NEW tr \in Traces, NEW i \in 0 .. Len(tr), NEW near, NEW far, near # far,
         Uses(tr, i, near) # {}, Uses(tr, i, far) # {}, Note(tr, i, near) <= Note(tr, i, far)
  PROVE  Sooner(tr, i, near, far)
<1>1. /\ Min(Uses(tr, i, near)) \in Uses(tr, i, near) /\ Min(Uses(tr, i, far)) \in Uses(tr, i, far)
      /\ \A k \in Uses(tr, i, far) : Min(Uses(tr, i, far)) <= k
  <2>1. Uses(tr, i, near) \in SUBSET Nat /\ Uses(tr, i, far) \in SUBSET Nat
    BY TraceIsSeq DEF Uses
  <2> QED
    BY <2>1, MinIsLeast
<1> DEFINE m == Min(Uses(tr, i, near))
           n == Min(Uses(tr, i, far))
<1>2. m \in Int /\ n \in Int /\ i \in Int
  BY <1>1, TraceIsSeq DEF Uses
<1>3. Note(tr, i, near) = m - i - 1 /\ Note(tr, i, far) = n - i - 1
  BY DEF Note
<1> HIDE DEF m, n
<1>4. m <= n
  BY <1>2, <1>3
<1>5. ASSUME NEW k \in Uses(tr, i, far) PROVE m < k
  <2>1. k \in Int /\ n <= k
    BY <1>1, TraceIsSeq DEF Uses, n
  <2>2. m # k
    BY <1>1 DEF Uses, m
  <2> QED
    BY <1>2, <1>4, <2>1, <2>2
<1> QED
  BY <1>1, <1>5 DEF Sooner, m

(* To replace such a page is the best that can be done.                    *)
LEMMA BestReplaced ==
  ASSUME NEW tr \in Traces, NEW i \in 0 .. Len(tr) - 1, NEW ad \in [Frames -> Refs(tr) \cup {NoPage}],
         Different(ad), NEW slot \in Frames, IsBest(tr, i, ad, slot),
         InFrames(ad) \in Held(tr), Ref(tr, i + 1) \notin InFrames(ad)
  PROVE  /\ InFrames([ad EXCEPT ![slot] = Ref(tr, i + 1)]) \in Held(tr)
         /\ Fewest(tr)[i][InFrames(ad)]
              = 1 + Fewest(tr)[i + 1][InFrames([ad EXCEPT ![slot] = Ref(tr, i + 1)])]
<1> DEFINE page == Ref(tr, i + 1)
           victim == ad[slot]
           M == InFrames(ad)
           Rest == {ad[j] : j \in Frames \ {slot}} \ {NoPage}
           N == Rest \cup {page}
<1>1. i \in 0 .. Len(tr) /\ i + 1 \in 0 .. Len(tr) /\ page \in Refs(tr)
  BY NextRef
<1>2. page # NoPage
  BY <1>1, RefsAreNat DEF NoPage
<1>3. InFrames([ad EXCEPT ![slot] = page]) = N
  BY <1>2 DEF InFrames
<1>4. Rest \subseteq M /\ M \subseteq Rest \cup {victim} /\ victim \notin Rest
  BY DEF InFrames, Different
<1>5. Rest \in Held(tr) /\ Cardinality(Rest) < no_pages
  <2> DEFINE g == [j \in Frames \ {slot} |-> ad[j]]
  <2>1. IsFiniteSet(Frames \ {slot}) /\ Cardinality(Frames \ {slot}) = no_pages - 1
    BY FramesCounted, FS_RemoveElement
  <2>2. DOMAIN g = Frames \ {slot} /\ Rest \in SUBSET {g[x] : x \in DOMAIN g}
    OBVIOUS
  <2> HIDE DEF g, Rest
  <2>3. IsFiniteSet({g[x] : x \in DOMAIN g}) /\ Cardinality({g[x] : x \in DOMAIN g}) <= no_pages - 1
    BY <2>1, <2>2, ImageFinite
  <2>4. /\ Cardinality(Rest) <= Cardinality({g[x] : x \in DOMAIN g})
        /\ Cardinality({g[x] : x \in DOMAIN g}) \in Nat
    BY <2>2, <2>3, FS_Subset, FS_CardinalityType
  <2>5. Rest \in Held(tr)
    BY <1>4, HeldSets
  <2>6. Cardinality(Rest) \in Nat
    BY <2>5, HeldSets
  <2> QED
    BY <2>3, <2>4, <2>5, <2>6, FramesAssumption
<1> HIDE DEF Rest, M, page, victim
<1>6. Rest \in Kept(M)
  BY <1>4, <1>5 DEF Kept
<1>7. N \in Held(tr)
  BY <1>1, <1>6, KeptSets DEF M
<1>8. /\ Fewest(tr)[i][M] <= 1 + After(tr, i, Rest)
      /\ \E T \in Kept(M) : Fewest(tr)[i][M] = 1 + After(tr, i, T)
  BY <1>6, FewestStep DEF M, page
<1>9. After(tr, i, Rest) = Fewest(tr)[i + 1][N] /\ After(tr, i, Rest) \in Nat
  BY <1>1, <1>7, FewestTypes DEF After, page
<1>10. PICK T \in Kept(M) : Fewest(tr)[i][M] = 1 + After(tr, i, T)
  BY <1>8
<1> DEFINE P == T \cup {page}
<1>11. P \in Held(tr) /\ T \subseteq M /\ T \in Held(tr) /\ Cardinality(T) < no_pages /\ Cardinality(T) \in Nat
  BY <1>1, KeptSets DEF M
<1>12. After(tr, i, T) = Fewest(tr)[i + 1][P] /\ After(tr, i, T) \in Nat
  BY <1>1, <1>11, FewestTypes DEF After, page
<1>13. Fewest(tr)[i + 1][N] <= Fewest(tr)[i + 1][P]
  <2>1. CASE victim \notin T
    <3>1. P \subseteq N
      BY <1>4, <1>11, <2>1
    <3> HIDE DEF N, P
    <3> QED
      BY <1>1, <1>7, <1>11, <3>1, MoreIsBetter
  <2>2. CASE victim \in T /\ Uses(tr, i, victim) = {}
    <3>1. victim # page /\ Uses(tr, i + 1, victim) = {}
      BY <1>11, <2>2, UsesAfter DEF M, page
    <3>2. P \ {victim} \subseteq N /\ P \ {victim} \in Held(tr)
      BY <1>4, <1>11, HeldSets
    <3> HIDE DEF N, P
    <3>3. Fewest(tr)[i + 1][P \ {victim}] <= Fewest(tr)[i + 1][P]
      BY <1>1, <1>11, <3>1, IdleIsUseless
    <3>4. Fewest(tr)[i + 1][N] <= Fewest(tr)[i + 1][P \ {victim}]
      BY <1>1, <1>7, <3>2, MoreIsBetter
    <3>5. /\ Fewest(tr)[i + 1][N] \in Nat /\ Fewest(tr)[i + 1][P] \in Nat
          /\ Fewest(tr)[i + 1][P \ {victim}] \in Nat
      BY <1>1, <1>7, <1>11, <3>2, FewestTypes
    <3> QED
      BY <3>3, <3>4, <3>5, SMTT(40)
  <2>3. CASE victim \in T /\ Uses(tr, i, victim) # {}
    <3>1. \A k \in Frames : Uses(tr, i, ad[k]) # {} /\ Note(tr, i, ad[k]) <= Note(tr, i, victim)
      BY <2>3 DEF IsBest, victim
    <3>2. \A k \in Frames : ad[k] # NoPage
      BY <1>1, <3>1, RefsAreNat
    <3>3. PICK j \in Frames : ad[j] \notin T
      <4> SUFFICES ASSUME \A j \in Frames : ad[j] \in T PROVE FALSE
        OBVIOUS
      <4>1. ad \in [Frames -> T] /\ IsFiniteSet(T)
        BY <1>11, HeldSets
      <4>2. \E x, y \in Frames : x # y /\ ad[x] = ad[y]
        BY <1>11, <4>1, FramesCounted, FS_PigeonHole
      <4> QED
        BY <3>2, <4>2 DEF Different
    <3> DEFINE near == ad[j]
    <3>4. near # victim /\ near \in Rest /\ near # page /\ victim # page
      <4>1. near \in M /\ near # victim
        BY <2>3, <3>2, <3>3 DEF M, InFrames
      <4>2. page \notin M /\ victim \in M
        BY <1>11, <2>3 DEF M, page
      <4> QED
        BY <1>4, <4>1, <4>2
    <3>5. Uses(tr, i, near) # {} /\ Note(tr, i, near) <= Note(tr, i, victim)
      BY <3>1
    <3> DEFINE A == (T \ {victim}) \cup {page}
    <3>6. /\ near \notin A /\ victim \notin A /\ A \cup {victim} = P
          /\ A \cup {near} \subseteq N
      BY <1>4, <1>11, <2>3, <3>3, <3>4
    <3>7. A \cup {near} \in Held(tr) /\ A \in Held(tr)
      BY <1>7, <3>6, HeldSets
    <3> HIDE DEF A, P, N, near
    <3>8. Sooner(tr, i + 1, near, victim)
      <4>1. Sooner(tr, i, near, victim)
        BY <1>1, <2>3, <3>4, <3>5, LowerNoteSooner
      <4>2. Uses(tr, i, near) = Uses(tr, i + 1, near) /\ Uses(tr, i, victim) = Uses(tr, i + 1, victim)
        BY <3>4, UsesAfter DEF page
      <4> QED
        BY <4>1, <4>2 DEF Sooner
    <3>9. Fewest(tr)[i + 1][A \cup {near}] <= Fewest(tr)[i + 1][A \cup {victim}]
      BY <1>1, <1>11, <3>4, <3>6, <3>7, <3>8, SoonerIsBetter
    <3>10. Fewest(tr)[i + 1][N] <= Fewest(tr)[i + 1][A \cup {near}]
      BY <1>1, <1>7, <3>6, <3>7, MoreIsBetter
    <3>11. /\ Fewest(tr)[i + 1][N] \in Nat /\ Fewest(tr)[i + 1][P] \in Nat
           /\ Fewest(tr)[i + 1][A \cup {near}] \in Nat
      BY <1>1, <1>7, <1>11, <3>7, FewestTypes
    <3>12. A \cup {victim} = P
      BY <3>6
    <3>13. Fewest(tr)[i + 1][A \cup {near}] <= Fewest(tr)[i + 1][P]
      BY <3>9, <3>12, Zenon
    <3> QED
      BY <3>10, <3>11, <3>13
  <2> QED
    BY <2>1, <2>2, <2>3
<1>14. Fewest(tr)[i][M] \in Nat
  BY <1>1, FewestTypes DEF M
<1> HIDE DEF N, P
<1>15. Fewest(tr)[i][M] = 1 + Fewest(tr)[i + 1][N]
  BY <1>8, <1>9, <1>10, <1>12, <1>13, <1>14, SMTT(40)
<1> QED
  BY <1>3, <1>7, <1>15 DEF M, page

-----------------------------------------------------------------------------
(* optimal.c after done references: every frame has a page of its own or   *)
(* none, the note in it is right, and the faults counted so far and the    *)
(* fewest that can follow add up to the fewest of the whole trace.         *)
Loaded == [j \in Frames |-> frames[j].adress]

Noted ==
  /\ frames \in [Frames -> [adress : Refs(trace) \cup {NoPage}, time_until_next_access : Int]]
  /\ \A j \in Frames : frames[j].time_until_next_access = Note(trace, done, frames[j].adress)

OptimalIInv ==
  /\ trace \in Traces /\ done \in 0 .. Len(trace) /\ optimal_faults \in 0 .. done
  /\ Noted /\ Different(Loaded) /\ InFrames(Loaded) \in Held(trace)
  /\ optimal_faults + Fewest(trace)[done][InFrames(Loaded)] = Fewest(trace)[0][{}]

(* The empty frames hold nothing, and everything is still to come.         *)
LEMMA OptimalInitially == Init => OptimalIInv
<1> SUFFICES ASSUME Init PROVE OptimalIInv
  OBVIOUS
<1>1. trace \in Traces /\ done = 0 /\ optimal_faults = 0
  BY DEF Init, Traces, OptimalInit
<1>2. frames = [j \in Frames |-> [adress |-> NoPage, time_until_next_access |-> Never]]
  BY DEF Init, OptimalInit
<1>3. done \in 0 .. Len(trace) /\ optimal_faults \in 0 .. done
  BY <1>1, TraceIsSeq
<1>4. Noted
  <2>1. Note(trace, done, NoPage) = Never
    BY <1>1, <1>3, RefsAreNat DEF Note
  <2> QED
    BY <1>2, <2>1 DEF Noted, Never
<1>5. Loaded = [j \in Frames |-> NoPage]
  BY <1>2 DEF Loaded
<1>6. InFrames(Loaded) = {} /\ Different(Loaded)
  BY <1>5 DEF InFrames, Different
<1>7. {} \in Held(trace)
  BY FS_EmptySet, FramesAssumption DEF Held
<1>8. Fewest(trace)[0][{}] \in Nat
  <2>1. 0 \in 0 .. Len(trace)
    BY <1>1, TraceIsSeq
  <2> QED
    BY <1>1, <1>7, <2>1, FewestTypes
<1> QED
  BY <1>1, <1>3, <1>4, <1>6, <1>7, <1>8 DEF OptimalIInv

(* Counting down keeps a note right that is not replaced, and makes the    *)
(* note of the reference right that replaces one.                          *)
Counted(time) == IF time = Never THEN Never ELSE time - 1

(* A note is a number of references, or Never.                             *)
LEMMA NoteTypes ==
  ASSUME NEW tr \in Traces, NEW i \in 0 .. Len(tr), NEW page
  PROVE  /\ Uses(tr, i, page) # {} =>
              /\ Min(Uses(tr, i, page)) \in Nat /\ Min(Uses(tr, i, page)) > i /\ Min(Uses(tr, i, page)) <= Len(tr)
              /\ Note(tr, i, page) = Min(Uses(tr, i, page)) - i - 1
              /\ Note(tr, i, page) \in 0 .. Len(tr)
         /\ Uses(tr, i, page) = {} => Note(tr, i, page) = Never
         /\ Note(tr, i, page) \in Int
<1> USE TraceIsSeq
<1>1. CASE Uses(tr, i, page) = {}
  BY <1>1 DEF Note, Never
<1>2. CASE Uses(tr, i, page) # {}
  <2>1. Uses(tr, i, page) \in SUBSET Nat
    BY DEF Uses
  <2>2. Min(Uses(tr, i, page)) \in Uses(tr, i, page)
    BY <1>2, <2>1, MinIsLeast
  <2>3. Min(Uses(tr, i, page)) \in i + 1 .. Len(tr)
    BY <2>2 DEF Uses
  <2>4. Note(tr, i, page) = Min(Uses(tr, i, page)) - i - 1
    BY <1>2 DEF Note
  <2> QED
    BY <1>2, <2>3, <2>4
<1> QED
  BY <1>1, <1>2

(* What a reference does to the notes: the one of its page is made anew,   *)
(* the others count down.                                                  *)
LEMMA NotesStep ==
  ASSUME NEW tr \in Traces, NEW i \in 0 .. Len(tr) - 1
  PROVE  /\ \A page : page # Ref(tr, i + 1) => Note(tr, i + 1, page) = Counted(Note(tr, i, page))
         /\ noted(tr, i + 1) \in [adress : Refs(tr), time_until_next_access : Int]
         /\ noted(tr, i + 1).adress = Ref(tr, i + 1)
         /\ Note(tr, i + 1, Ref(tr, i + 1)) = Counted(noted(tr, i + 1).time_until_next_access)
<1>1. i \in 0 .. Len(tr) /\ i + 1 \in 0 .. Len(tr) /\ Ref(tr, i + 1) \in Refs(tr) /\ i \in Nat
  <2>1. i \in 0 .. Len(tr) /\ i + 1 \in 0 .. Len(tr) /\ Ref(tr, i + 1) \in Refs(tr)
    BY NextRef, Zenon
  <2> QED
    BY <2>1
<1>2. ASSUME NEW page, page # Ref(tr, i + 1)
      PROVE  Note(tr, i + 1, page) = Counted(Note(tr, i, page))
  <2>1. Uses(tr, i, page) = Uses(tr, i + 1, page)
    BY <1>2, UsesAfter
  <2>2. CASE Uses(tr, i, page) = {}
    BY <2>1, <2>2 DEF Note, Counted
  <2>3. CASE Uses(tr, i, page) # {}
    <3> DEFINE m == Min(Uses(tr, i, page))
    <3>1. m \in Nat /\ Note(tr, i, page) = m - i - 1 /\ Note(tr, i, page) # Never
      BY <1>1, <2>3, NoteTypes DEF Never
    <3>2. Note(tr, i + 1, page) = m - (i + 1) - 1
      BY <1>1, <2>1, <2>3, NoteTypes
    <3> HIDE DEF m
    <3> QED
      BY <1>1, <3>1, <3>2 DEF Counted
  <2> QED
    BY <2>2, <2>3
<1> DEFINE page == Ref(tr, i + 1)
           U == Uses(tr, i + 1, page)
<1>3. noted(tr, i + 1) = [adress |-> page, time_until_next_access |-> IF U = {} THEN Never ELSE Min(U) - (i + 1)]
  BY DEF noted, Uses, Ref
<1>4. /\ U # {} => Min(U) \in Nat /\ Min(U) > i + 1 /\ Note(tr, i + 1, page) = Min(U) - (i + 1) - 1
      /\ U = {} => Note(tr, i + 1, page) = Never
  BY <1>1, NoteTypes
<1> HIDE DEF page, U
<1>5. Note(tr, i + 1, page) = Counted(noted(tr, i + 1).time_until_next_access)
  BY <1>1, <1>3, <1>4 DEF Counted, Never
<1>6. (IF U = {} THEN Never ELSE Min(U) - (i + 1)) \in Int
  BY <1>1, <1>4 DEF Never
<1>7. noted(tr, i + 1) \in [adress : Refs(tr), time_until_next_access : Int] /\ noted(tr, i + 1).adress = page
  BY <1>1, <1>3, <1>6 DEF page
<1> QED
  BY <1>2, <1>5, <1>7 DEF page

(* The frame that is replaced is a best one.                               *)
LEMMA BestIsBest ==
  ASSUME OptimalIInv
  PROVE  best \in Frames /\ IsBest(trace, done, Loaded, best)
<1> DEFINE time == [j \in Frames |-> frames[j].time_until_next_access]
           idle == {j \in Frames : time[j] = Never}
           last == {j \in Frames : \A k \in Frames : time[k] <= time[j]}
<1>1. trace \in Traces /\ done \in 0 .. Len(trace) /\ Len(trace) \in Nat
  BY TraceIsSeq DEF OptimalIInv
<1>2. \A j \in Frames : time[j] = Note(trace, done, frames[j].adress) /\ Loaded[j] = frames[j].adress
  BY DEF OptimalIInv, Noted, Loaded
<1>3. best = IF idle # {} THEN Max(idle) ELSE Min(last)
  BY DEF best
<1>4. \A j \in Frames : time[j] \in Int /\ time[j] <= Len(trace)
  BY <1>1, <1>2, NoteTypes DEF Never
<1> HIDE DEF time
<1>5. CASE idle # {}
  <2> DEFINE away == {no_pages - j : j \in idle}
  <2>1. away \in SUBSET Nat /\ away # {}
    BY <1>5, FramesAssumption DEF Frames
  <2> HIDE DEF away
  <2>2. PICK n \in away : \A m \in away : n <= m
    BY <2>1, Least
  <2>3. PICK g \in idle : n = no_pages - g
    BY <2>2 DEF away
  <2>4. \A j \in idle : g >= j
    <3>1. \A j \in idle : no_pages - j \in away
      BY DEF away
    <3> QED
      BY <2>2, <2>3, <3>1, FramesAssumption DEF Frames
  <2> HIDE DEF idle
  <2>5. Max(idle) \in idle
    BY <2>3, <2>4, Zenon DEF Max
  <2>6. best \in idle
    BY <1>3, <1>5, <2>5
  <2>7. best \in Frames /\ time[best] = Never
    BY <2>6 DEF idle
  <2>8. Uses(trace, done, Loaded[best]) = {}
    BY <1>1, <1>2, <2>7, NoteTypes DEF Never
  <2> QED
    BY <2>7, <2>8 DEF IsBest
<1>6. CASE idle = {}
  <2> DEFINE away == {Len(trace) - time[j] : j \in Frames}
  <2>1. away \in SUBSET Nat /\ away # {}
    <3>1. 0 \in Frames
      BY FramesAssumption DEF Frames
    <3> QED
      BY <1>1, <1>4, <3>1
  <2> HIDE DEF away
  <2>2. PICK n \in away : \A m \in away : n <= m
    BY <2>1, Least
  <2>3. PICK g \in Frames : n = Len(trace) - time[g]
    BY <2>2 DEF away
  <2>4. g \in last
    <3>1. \A j \in Frames : Len(trace) - time[j] \in away
      BY DEF away
    <3> QED
      BY <1>1, <1>4, <2>2, <2>3, <3>1
  <2>5. last \in SUBSET Nat /\ last # {}
    BY <2>4, FramesAssumption DEF Frames
  <2> HIDE DEF last
  <2>6. Min(last) \in last
    BY <2>5, MinIsLeast
  <2>7. best \in last
    BY <1>3, <1>6, <2>6
  <2>8. best \in Frames /\ \A k \in Frames : time[k] <= time[best]
    BY <2>7 DEF last
  <2>9. \A k \in Frames : Uses(trace, done, Loaded[k]) # {}
    BY <1>1, <1>2, <1>6, NoteTypes
  <2> QED
    BY <1>2, <2>8, <2>9 DEF IsBest
<1> QED
  BY <1>5, <1>6

(* A reference keeps the notes right, and its fault is counted when, and   *)
(* only when, the fewest faults that can follow become one less.           *)
LEMMA ReferKeeps == OptimalIInv /\ Refer => OptimalIInv'
<1> SUFFICES ASSUME OptimalIInv, Refer PROVE OptimalIInv'
  OBVIOUS
<1> DEFINE page == Ref(trace, done + 1)
           note == noted(trace, done + 1)
           hit == {j \in Frames : frames[j].adress = note.adress}
           into == IF hit = {} THEN best ELSE Min(hit)
<1>1. /\ trace \in Traces /\ trace' = trace /\ done' = done + 1 /\ Len(trace) \in Nat /\ done \in Nat
      /\ done \in 0 .. Len(trace) - 1 /\ done' \in 0 .. Len(trace) /\ optimal_faults \in 0 .. done
  BY TraceIsSeq DEF OptimalIInv, Refer
<1>2. /\ optimal_faults' = IF hit = {} THEN optimal_faults + 1 ELSE optimal_faults
      /\ frames' = [j \in Frames |-> CountDown(IF j = into THEN note ELSE frames[j])]
  BY DEF Refer, OptimalRefer
<1>3. /\ note \in [adress : Refs(trace), time_until_next_access : Int] /\ note.adress = page
      /\ Note(trace, done + 1, page) = Counted(note.time_until_next_access)
      /\ \A p : p # page => Note(trace, done + 1, p) = Counted(Note(trace, done, p))
  BY <1>1, NotesStep
<1>4. page \in Refs(trace) /\ page # NoPage
  <2>1. page \in Refs(trace)
    BY <1>1, NextRef
  <2> QED
    BY <1>1, <2>1, RefsAreNat DEF NoPage
<1>5. /\ frames \in [Frames -> [adress : Refs(trace) \cup {NoPage}, time_until_next_access : Int]]
      /\ \A j \in Frames : frames[j].time_until_next_access = Note(trace, done, frames[j].adress)
      /\ \A j \in Frames : Loaded[j] = frames[j].adress
      /\ Loaded \in [Frames -> Refs(trace) \cup {NoPage}]
  BY DEF OptimalIInv, Noted, Loaded
<1>6. into \in Frames /\ (hit # {} => into \in hit)
  <2>1. CASE hit = {}
    BY <2>1, BestIsBest
  <2>2. CASE hit # {}
    <3>1. hit \in SUBSET Nat
      BY FramesAssumption DEF Frames
    <3> HIDE DEF hit
    <3>2. Min(hit) \in hit
      BY <2>2, <3>1, MinIsLeast
    <3> QED
      BY <2>2, <3>2 DEF hit
  <2> QED
    BY <2>1, <2>2
<1>7. \A j \in Frames : j # into => frames[j].adress # page
  <2>1. CASE hit = {}
    BY <1>3, <2>1
  <2>2. CASE hit # {}
    <3>1. frames[into].adress = page
      BY <1>3, <1>6, <2>2
    <3> HIDE DEF into, hit, page
    <3> QED
      BY <1>4, <1>5, <1>6, <3>1 DEF OptimalIInv, Different
  <2> QED
    BY <2>1, <2>2
<1> HIDE DEF into, hit, page, note
<1>8. ASSUME NEW j \in Frames
      PROVE  /\ frames'[j] \in [adress : Refs(trace) \cup {NoPage}, time_until_next_access : Int]
             /\ frames'[j].adress = IF j = into THEN page ELSE frames[j].adress
             /\ frames'[j].time_until_next_access = Note(trace, done + 1, frames'[j].adress)
  <2> DEFINE old == IF j = into THEN note ELSE frames[j]
  <2>1. frames'[j] = CountDown(old)
    BY <1>2
  <2>2. old \in [adress : Refs(trace) \cup {NoPage}, time_until_next_access : Int]
    BY <1>3, <1>5
  <2>3. old.adress = IF j = into THEN page ELSE frames[j].adress
    BY <1>3
  <2>4. Note(trace, done + 1, old.adress) = Counted(old.time_until_next_access)
    BY <1>3, <1>5, <1>7
  <2> HIDE DEF old
  <2>5. /\ CountDown(old) \in [adress : Refs(trace) \cup {NoPage}, time_until_next_access : Int]
        /\ CountDown(old).adress = old.adress
        /\ CountDown(old).time_until_next_access = Counted(old.time_until_next_access)
    BY <2>2 DEF CountDown, Counted, Never
  <2> QED
    BY <2>1, <2>3, <2>4, <2>5
<1>9. Noted'
  <2>1. frames' \in [Frames -> [adress : Refs(trace) \cup {NoPage}, time_until_next_access : Int]]
    BY <1>2, <1>8
  <2> QED
    BY <1>1, <1>8, <2>1 DEF Noted
<1>10. Loaded' = [Loaded EXCEPT ![into] = page]
  <2>1. Loaded' = [j \in Frames |-> frames'[j].adress]
    BY DEF Loaded
  <2>2. Loaded' = [j \in Frames |-> IF j = into THEN page ELSE frames[j].adress]
    BY <1>8, <2>1
  <2> QED
    BY <1>6, <2>2 DEF Loaded
<1>11. Different(Loaded)' /\ Different(Loaded')
  BY <1>5, <1>7, <1>10 DEF Different, OptimalIInv
<1> DEFINE old == InFrames(Loaded)
           new == InFrames(Loaded')
<1>12. old \in Held(trace) /\ Fewest(trace)[done][old] \in Nat
       /\ optimal_faults + Fewest(trace)[done][old] = Fewest(trace)[0][{}]
  BY <1>1, FewestTypes DEF OptimalIInv
<1>13. CASE hit # {}
  <2>1. frames[into].adress = page
    BY <1>3, <1>6, <1>13 DEF hit
  <2>2. Loaded' = Loaded
    BY <1>5, <1>6, <1>10, <2>1
  <2>3. page \in old
    BY <1>4, <1>5, <1>6, <2>1 DEF InFrames
  <2>4. new = old
    BY <2>2
  <2> HIDE DEF old, new
  <2>5. Fewest(trace)[done][old] = Fewest(trace)[done + 1][old]
    BY <1>1, <1>12, <2>3, FewestStep DEF page
  <2>6. optimal_faults' = optimal_faults
    BY <1>2, <1>13
  <2> QED
    BY <1>1, <1>9, <1>11, <1>12, <2>4, <2>5, <2>6 DEF OptimalIInv, new
<1>14. CASE hit = {}
  <2>1. \A j \in Frames : frames[j].adress # page
    BY <1>3, <1>14 DEF hit
  <2>2. page \notin old
    BY <1>5, <2>1 DEF InFrames
  <2>3. into = best /\ IsBest(trace, done, Loaded, into)
    BY <1>14, BestIsBest DEF into
  <2>4. new = InFrames([Loaded EXCEPT ![into] = page])
    BY <1>10
  <2>5. Different(Loaded)
    BY DEF OptimalIInv
  <2>6. /\ InFrames([Loaded EXCEPT ![into] = page]) \in Held(trace)
        /\ Fewest(trace)[done][old] = 1 + Fewest(trace)[done + 1][InFrames([Loaded EXCEPT ![into] = page])]
    <3> DEFINE ad == Loaded
    <3>1. ad \in [Frames -> Refs(trace) \cup {NoPage}] /\ Different(ad) /\ IsBest(trace, done, ad, into)
          /\ InFrames(ad) \in Held(trace) /\ Ref(trace, done + 1) \notin InFrames(ad)
      BY <1>5, <1>12, <2>2, <2>3, <2>5 DEF page
    <3> HIDE DEF ad
    <3>2. /\ InFrames([ad EXCEPT ![into] = Ref(trace, done + 1)]) \in Held(trace)
          /\ Fewest(trace)[done][InFrames(ad)]
               = 1 + Fewest(trace)[done + 1][InFrames([ad EXCEPT ![into] = Ref(trace, done + 1)])]
      BY <1>1, <1>6, <3>1, BestReplaced, ZenonT(40)
    <3> QED
      BY <3>2, Zenon DEF ad, page
  <2> HIDE DEF old, new
  <2>7. new \in Held(trace) /\ Fewest(trace)[done][old] = 1 + Fewest(trace)[done + 1][new]
    BY <2>4, <2>6
  <2>8. Fewest(trace)[done + 1][new] \in Nat
    BY <1>1, <2>7, FewestTypes
  <2>9. optimal_faults' = optimal_faults + 1
    BY <1>2, <1>14
  <2>10. optimal_faults' \in 0 .. done'
    BY <1>1, <2>9
  <2>11. optimal_faults' + Fewest(trace)[done + 1][new] = Fewest(trace)[0][{}]
    BY <1>1, <1>12, <2>7, <2>8, <2>9, SMTT(40)
  <2> QED
    BY <1>1, <1>9, <1>11, <2>7, <2>10, <2>11 DEF OptimalIInv, new
<1> QED
  BY <1>13, <1>14

(* The notes and the sum of faults are right in every reachable state.     *)
THEOREM OptimalInductive == Spec => []OptimalIInv
<1>1. OptimalIInv /\ UNCHANGED vars => OptimalIInv'
  BY DEF vars, optimalVars, OptimalIInv, Noted, Loaded
<1>2. OptimalIInv /\ [Next]_vars => OptimalIInv'
  BY <1>1, ReferKeeps DEF Next, Ends
<1> QED
  BY <1>2, OptimalInitially, PTL DEF Spec

(* Every note tells how many references lie before the next one to its     *)
(* page.                                                                   *)
THEOREM NotesAreRight == Spec => []NotesRight
<1>1. OptimalIInv => NotesRight
  BY DEF OptimalIInv, Noted, Note, NotesRight, NextUses, Uses, Page, Ref
<1> QED
  BY <1>1, OptimalInductive, PTL

(* optimal.c counts as many faults as the best choice of pages to replace  *)
(* has, and no choice has fewer.                                           *)
THEOREM OptimalIsOptimal == Spec => []OptimalIsBest
<1>1. OptimalIInv => OptimalIsBest
  <2> SUFFICES ASSUME OptimalIInv, done = Len(trace) PROVE optimal_faults = Fewest(trace)[0][{}]
    BY DEF OptimalIsBest
  <2>1. Fewest(trace)[done][InFrames(Loaded)] = 0
    BY FewestTypes DEF OptimalIInv
  <2> QED
    BY <2>1 DEF OptimalIInv
<1> QED
  BY <1>1, OptimalInductive, PTL

-----------------------------------------------------------------------------
(* The trace that is read and how far.                                     *)
Reading == trace \in Traces /\ done \in 0 .. Len(trace)

(* At first nothing has been read.                                         *)
LEMMA ReadingInitially == Init => Reading
  BY TraceIsSeq DEF Init, Reading, Traces

(* The next reference is to a page that has now been seen.                 *)
LEMMA ReferenceIsSeen ==
  ASSUME Reading, Refer
  PROVE  /\ Reading' /\ trace' = trace /\ done' = done + 1 /\ done' \in DOMAIN trace
         /\ Seen' = Seen \cup {Page(done + 1)} /\ Seen \in SUBSET Nat /\ Page(done + 1) \in Nat
         /\ Page(done + 1) # NoPage
<1>1. /\ trace' = trace /\ done' = done + 1 /\ done \in 0 .. Len(trace) - 1 /\ Len(trace) \in Nat
      /\ DOMAIN trace = 1 .. Len(trace)
  BY TraceIsSeq DEF Refer, Reading
<1>2. \A i \in 1 .. Len(trace) : Page(i) \in Nat
  <2> TAKE i \in 1 .. Len(trace)
  <2>1. trace[i] \in Nat
    BY TraceIsSeq, TraceAssumption DEF Reading
  <2> QED
    BY <2>1, PageIsNat DEF Page
<1>3. Seen' = {Page(i) : i \in 1 .. done + 1}
  BY <1>1 DEF Seen, Page
<1>4. Seen' = Seen \cup {Page(done + 1)}
  <2>1. 1 .. done + 1 = (1 .. done) \cup {done + 1}
    BY <1>1
  <2> QED
    BY <1>3, <2>1 DEF Seen
<1>5. Seen \in SUBSET Nat /\ Page(done + 1) \in Nat
  BY <1>1, <1>2 DEF Seen
<1> QED
  BY <1>1, <1>4, <1>5 DEF Reading, NoPage

-----------------------------------------------------------------------------
(* The frames are filled from the first to the last; when they are full    *)
(* none becomes empty again.                                               *)
Full == \A j \in Frames : pages[j] # NoPage
FillsUp == Full \/ \A j \in Frames : pages[j] # NoPage <=> j < first_page

FifoIInv ==
  /\ Reading /\ first_page \in Frames /\ pages \in [Frames -> Seen \cup {NoPage}]
  /\ fifo_faults \in 0 .. done /\ FillsUp

(* The ring closes.                                                        *)
LEMMA Around == \A n \in 0 .. 2 * no_pages - 1 : n % no_pages = IF n < no_pages THEN n ELSE n - no_pages
  BY FramesAssumption

Waiting == Cardinality({j \in Frames : pages[j] # NoPage})
Place(k) == IF Full THEN (IF first_page + (k - 1) < no_pages THEN first_page + (k - 1)
                          ELSE first_page + (k - 1) - no_pages)
            ELSE k - 1

(* The queue begins at the first frame until the ring is full, and then at *)
(* the frame that is filled next.                                          *)
LEMMA QueueIs ==
  ASSUME first_page \in Frames, FillsUp
  PROVE  /\ Waiting = IF Full THEN no_pages ELSE first_page
         /\ Queue = [k \in 1 .. Waiting |-> pages[Place(k)]]
         /\ \A k \in 1 .. Waiting : Place(k) \in Frames
         /\ \A j \in Frames : pages[j] # NoPage => \E k \in 1 .. Waiting : Place(k) = j
<1> USE FramesAssumption DEF Frames
<1>1. Waiting = IF Full THEN no_pages ELSE first_page
  <2>1. CASE Full
    <3>1. {j \in Frames : pages[j] # NoPage} = Frames
      BY <2>1 DEF Full
    <3> QED
      BY <2>1, <3>1, FramesCounted DEF Waiting
  <2>2. CASE ~Full
    <3>1. {j \in Frames : pages[j] # NoPage} = 0 .. first_page - 1
      BY <2>2 DEF FillsUp
    <3>2. Cardinality(0 .. first_page - 1) = first_page
      BY FS_Interval
    <3> QED
      BY <2>2, <3>1, <3>2 DEF Waiting
  <2> QED
    BY <2>1, <2>2
<1>2. \A k \in 1 .. Waiting : Place(k) \in Frames
  BY <1>1 DEF Place
<1>3. \A k \in 1 .. Waiting : (first_page + (no_pages - Waiting) + (k - 1)) % no_pages = Place(k)
  <2> TAKE k \in 1 .. Waiting
  <2>1. CASE Full
    <3>1. first_page + (no_pages - Waiting) + (k - 1) = first_page + (k - 1)
      BY <1>1, <2>1
    <3>2. first_page + (k - 1) \in 0 .. 2 * no_pages - 1
      BY <1>1, <2>1
    <3> QED
      BY <2>1, <3>1, <3>2, Around DEF Place
  <2>2. CASE ~Full
    <3>1. first_page + (no_pages - Waiting) + (k - 1) = no_pages + (k - 1)
      BY <1>1, <2>2
    <3>2. no_pages + (k - 1) \in 0 .. 2 * no_pages - 1
      BY <1>1, <2>2
    <3> QED
      BY <2>2, <3>1, <3>2, Around DEF Place
  <2> QED
    BY <2>1, <2>2
<1>4. Queue = [k \in 1 .. Waiting |-> pages[Place(k)]]
  BY <1>3 DEF Queue, Waiting
<1>5. ASSUME NEW j \in Frames, pages[j] # NoPage PROVE \E k \in 1 .. Waiting : Place(k) = j
  <2>1. CASE Full
    <3> DEFINE k == IF j >= first_page THEN j - first_page + 1 ELSE j - first_page + 1 + no_pages
    <3>1. k \in 1 .. Waiting /\ Place(k) = j
      BY <1>1, <2>1 DEF Place
    <3> QED
      BY <3>1
  <2>2. CASE ~Full
    <3>1. j + 1 \in 1 .. Waiting /\ Place(j + 1) = j
      BY <1>1, <1>5, <2>2 DEF Place, FillsUp
    <3> QED
      BY <3>1
  <2> QED
    BY <2>1, <2>2
<1> QED
  BY <1>1, <1>2, <1>4, <1>5

(* A queue as a sequence, and which pages are in it.                       *)
QueueShape ==
  /\ Queue \in Seq(Nat) /\ Len(Queue) = Waiting
  /\ Waiting = IF Full THEN no_pages ELSE first_page
  /\ \A k \in 1 .. Waiting : Queue[k] = pages[Place(k)]
  /\ \A p \in Nat : p \in ToSet(Queue) <=> \E j \in Frames : pages[j] = p

(* The queue is a sequence of the pages in the frames.                     *)
LEMMA QueueIsSeq == FifoIInv => QueueShape
<1> SUFFICES ASSUME FifoIInv PROVE QueueShape
  OBVIOUS
<1>1. /\ first_page \in Frames /\ FillsUp /\ Seen \in SUBSET Nat
      /\ pages \in [Frames -> Seen \cup {NoPage}]
  <2>1. \A i \in 1 .. done : Page(i) \in Nat
    <3> TAKE i \in 1 .. done
    <3>1. i \in 1 .. Len(trace) /\ trace \in [1 .. Len(trace) -> Adresses]
      BY TraceIsSeq DEF Reading, FifoIInv
    <3>2. trace[i] \in Nat
      BY <3>1, TraceAssumption
    <3> QED
      BY <3>2, PageIsNat DEF Page
  <2> QED
    BY <2>1 DEF FifoIInv, Seen
<1>2. /\ Waiting = IF Full THEN no_pages ELSE first_page
      /\ Queue = [k \in 1 .. Waiting |-> pages[Place(k)]]
      /\ \A k \in 1 .. Waiting : Place(k) \in Frames
      /\ \A j \in Frames : pages[j] # NoPage => \E k \in 1 .. Waiting : Place(k) = j
  BY <1>1, QueueIs
<1>3. Waiting \in 0 .. no_pages
  BY <1>1, <1>2, FramesAssumption DEF Frames
<1>4. \A k \in 1 .. Waiting : pages[Place(k)] # NoPage
  <2> TAKE k \in 1 .. Waiting
  <2>1. CASE Full
    BY <1>2, <2>1 DEF Full
  <2>2. CASE ~Full
    <3>1. Place(k) < first_page /\ Place(k) \in Frames
      BY <1>1, <1>2, <2>2 DEF Place, Frames
    <3> QED
      BY <1>1, <2>2, <3>1 DEF FillsUp
  <2> QED
    BY <2>1, <2>2
<1>5. \A k \in 1 .. Waiting : pages[Place(k)] \in Nat
  BY <1>1, <1>2, <1>4
<1>6. Queue \in Seq(Nat) /\ Len(Queue) = Waiting
  BY <1>2, <1>3, <1>5
<1>7. \A k \in 1 .. Waiting : Queue[k] = pages[Place(k)]
  BY <1>2
<1>8. ASSUME NEW p \in Nat PROVE p \in ToSet(Queue) <=> \E j \in Frames : pages[j] = p
  <2>1. DOMAIN Queue = 1 .. Waiting
    BY <1>2
  <2>2. p \in ToSet(Queue) <=> \E k \in 1 .. Waiting : pages[Place(k)] = p
    BY <1>7, <2>1 DEF ToSet
  <2>3. p # NoPage
    BY DEF NoPage
  <2> QED
    BY <1>2, <2>2, <2>3
<1> QED
  BY <1>2, <1>6, <1>7, <1>8 DEF QueueShape

(* The empty frames are in order.                                          *)
LEMMA FifoInitially == Init => FifoIInv
<1> SUFFICES ASSUME Init PROVE FifoIInv
  OBVIOUS
<1>1. first_page = 0 /\ fifo_faults = 0 /\ done = 0 /\ pages = [i \in Frames |-> NoPage]
  BY DEF Init, FifoInit
<1>2. 0 \in Frames
  BY FramesAssumption DEF Frames
<1>3. FillsUp
  BY <1>1 DEF FillsUp, Frames
<1> QED
  BY <1>1, <1>2, <1>3, ReadingInitially DEF FifoIInv

(* A reference to a page that is there changes nothing; another fills a    *)
(* frame.                                                                  *)
LEMMA FifoKeeps ==
  ASSUME FifoIInv, Refer
  PROVE  /\ FifoIInv'
         /\ \/ /\ \E j \in Frames : pages[j] = Page(done')
               /\ UNCHANGED <<pages, first_page, fifo_faults>>
            \/ /\ \A j \in Frames : pages[j] # Page(done')
               /\ pages' = [pages EXCEPT ![first_page] = Page(done')]
               /\ first_page' = (IF first_page + 1 = no_pages THEN 0 ELSE first_page + 1)
               /\ fifo_faults' = fifo_faults + 1
               /\ Full' <=> (Full \/ first_page + 1 = no_pages)
<1> USE FramesAssumption
<1> DEFINE page == Page(done + 1)
<1>1. /\ Reading' /\ done' = done + 1 /\ done \in Nat /\ Seen' = Seen \cup {page} /\ page # NoPage
      /\ Page(done') = page
  BY ReferenceIsSeen, TraceIsSeq DEF FifoIInv, Reading
<1>2. FifoRefer(trace[done + 1]) /\ page_adress(trace[done + 1]) = page
  BY DEF Refer, Page
<1> HIDE DEF page
<1>3. /\ first_page \in Frames /\ pages \in [Frames -> Seen \cup {NoPage}] /\ FillsUp
      /\ fifo_faults \in 0 .. done
  BY DEF FifoIInv
<1>4. CASE (\E j \in Frames : pages[j] = page) /\ UNCHANGED fifoVars
  <2>1. pages' = pages /\ first_page' = first_page /\ fifo_faults' = fifo_faults
    BY <1>4 DEF fifoVars
  <2>2. FillsUp'
    BY <1>3, <2>1 DEF FillsUp, Full
  <2> QED
    BY <1>1, <1>3, <1>4, <2>1, <2>2 DEF FifoIInv
<1>5. CASE /\ \A j \in Frames : pages[j] # page
           /\ pages' = [pages EXCEPT ![first_page] = page]
           /\ first_page' = (first_page + 1) % no_pages
           /\ fifo_faults' = fifo_faults + 1
  <2>1. first_page' = IF first_page + 1 = no_pages THEN 0 ELSE first_page + 1
    <3>1. /\ first_page + 1 \in 0 .. 2 * no_pages - 1 /\ first_page + 1 <= no_pages
          /\ first_page \in Nat /\ no_pages \in Nat
      BY <1>3 DEF Frames
    <3>2. (first_page + 1) % no_pages =
             IF first_page + 1 < no_pages THEN first_page + 1 ELSE first_page + 1 - no_pages
      BY <3>1, Around
    <3> QED
      BY <1>5, <3>1, <3>2
  <2>2. \A j \in Frames : pages'[j] = IF j = first_page THEN page ELSE pages[j]
    BY <1>3, <1>5
  <2>3. Full' <=> \A j \in Frames : j # first_page => pages[j] # NoPage
    BY <1>1, <2>2 DEF Full
  <2>4. Full' <=> (Full \/ first_page + 1 = no_pages)
    <3>1. CASE Full
      BY <2>3, <3>1 DEF Full
    <3>2. CASE ~Full
      <4>1. \A j \in Frames : pages[j] # NoPage <=> j < first_page
        BY <1>3, <3>2 DEF FillsUp
      <4>2. first_page + 1 = no_pages => \A j \in Frames : j # first_page => j < first_page
        BY <1>3 DEF Frames
      <4>3. first_page + 1 # no_pages => first_page + 1 \in Frames /\ ~(first_page + 1 < first_page)
                                         /\ first_page + 1 # first_page
        BY <1>3 DEF Frames
      <4> QED
        BY <2>3, <3>2, <4>1, <4>2, <4>3
    <3> QED
      BY <3>1, <3>2
  <2>5. FillsUp'
    <3>1. CASE Full'
      BY <3>1 DEF FillsUp
    <3>2. CASE ~Full'
      <4>1. \A j \in Frames : pages[j] # NoPage <=> j < first_page
        BY <1>3, <2>4, <3>2 DEF FillsUp
      <4>2. first_page' = first_page + 1
        BY <2>1, <2>4, <3>2
      <4>3. \A j \in Frames : pages'[j] # NoPage <=> j < first_page'
        BY <1>1, <1>3, <2>2, <4>1, <4>2 DEF Frames
      <4> QED
        BY <4>3 DEF FillsUp
    <3> QED
      BY <3>1, <3>2
  <2>6. first_page' \in Frames
    BY <1>3, <2>1 DEF Frames
  <2>7. pages' \in [Frames -> Seen' \cup {NoPage}]
    BY <1>1, <1>3, <1>5
  <2>8. fifo_faults' \in 0 .. done'
    BY <1>1, <1>3, <1>5
  <2>9. FifoIInv'
    BY <1>1, <2>5, <2>6, <2>7, <2>8 DEF FifoIInv
  <2> QED
    BY <1>1, <1>5, <2>1, <2>4, <2>9
<1> QED
  BY <1>2, <1>4, <1>5 DEF FifoRefer

(* The queue after a fault.                                                *)
LEMMA QueueAppends ==
  ASSUME FifoIInv, FifoIInv', NEW page \in Nat,
         pages' = [pages EXCEPT ![first_page] = page],
         first_page' = (IF first_page + 1 = no_pages THEN 0 ELSE first_page + 1),
         Full' <=> (Full \/ first_page + 1 = no_pages)
  PROVE  Queue' = Append(IF Len(Queue) = no_pages THEN Tail(Queue) ELSE Queue, page)
<1> USE FramesAssumption
<1>1. QueueShape
  BY QueueIsSeq
<1>2. QueueShape'
  <2>1. (FifoIInv => QueueShape)'
    BY QueueIsSeq, PTL
  <2> QED
    BY <2>1
<1>3. /\ first_page \in Frames /\ pages \in [Frames -> Seen \cup {NoPage}] /\ FillsUp
      /\ first_page \in 0 .. no_pages - 1
  BY DEF FifoIInv, Frames
<1>4. \A j \in Frames : pages'[j] = IF j = first_page THEN page ELSE pages[j]
  BY <1>3
<1> DEFINE m == IF Full' THEN no_pages ELSE first_page'
<1>5. /\ Queue \in Seq(Nat) /\ Len(Queue) = IF Full THEN no_pages ELSE first_page
      /\ \A k \in 1 .. Len(Queue) : Queue[k] = pages[Place(k)]
  BY <1>1 DEF QueueShape
<1>6. /\ Queue' \in Seq(Nat) /\ Len(Queue') = m
      /\ \A k \in 1 .. Len(Queue') : Queue'[k] = pages'[Place(k)']
  BY <1>2 DEF QueueShape
<1> HIDE DEF m
<1>7. CASE Full
  <2>1. m = no_pages /\ Len(Queue) = no_pages
    BY <1>5, <1>7 DEF m
  <2>2. ASSUME NEW k \in 1 .. no_pages
        PROVE  Queue'[k] = IF k = no_pages THEN page ELSE Queue[k + 1]
    <3>1. /\ Place(k) \in Frames /\ Place(k)' \in Frames
          /\ Place(k)' = (IF k = no_pages THEN first_page ELSE Place(k + 1))
          /\ k # no_pages => Place(k + 1) # first_page /\ k + 1 \in 1 .. no_pages
      BY <1>3, <1>7 DEF Place, Frames
    <3>2. Queue'[k] = pages'[Place(k)']
      BY <1>6, <2>1
    <3>3. CASE k = no_pages
      BY <1>4, <3>1, <3>2, <3>3
    <3>4. CASE k # no_pages
      <4>1. Queue[k + 1] = pages[Place(k + 1)]
        BY <1>5, <2>1, <3>1, <3>4
      <4> QED
        BY <1>4, <3>1, <3>2, <3>4, <4>1
    <3> QED
      BY <3>3, <3>4
  <2>3. Queue # <<>>
    BY <1>5, <2>1
  <2>4. /\ Tail(Queue) \in Seq(Nat) /\ Len(Tail(Queue)) = no_pages - 1
        /\ \A k \in 1 .. no_pages - 1 : Tail(Queue)[k] = Queue[k + 1]
    BY <1>5, <2>1, <2>3, HeadTailProperties
  <2>5. /\ Append(Tail(Queue), page) \in Seq(Nat) /\ Len(Append(Tail(Queue), page)) = no_pages
        /\ \A k \in 1 .. no_pages - 1 : Append(Tail(Queue), page)[k] = Tail(Queue)[k]
        /\ Append(Tail(Queue), page)[no_pages] = page
    BY <2>4, AppendProperties
  <2>6. \A k \in 1 .. no_pages : Queue'[k] = Append(Tail(Queue), page)[k]
    BY <2>2, <2>4, <2>5
  <2>7. Queue' = Append(Tail(Queue), page)
    BY <1>6, <2>1, <2>5, <2>6, SeqEqual
  <2> QED
    BY <2>1, <2>7
<1>8. CASE ~Full
  <2>1. Len(Queue) = first_page /\ m = first_page + 1
    BY <1>3, <1>5, <1>8 DEF m
  <2>2. ASSUME NEW k \in 1 .. first_page + 1
        PROVE  Queue'[k] = IF k = first_page + 1 THEN page ELSE Queue[k]
    <3>1. Place(k)' = k - 1 /\ Place(k) = k - 1 /\ k - 1 \in Frames
      BY <1>3, <1>8 DEF Place, Frames
    <3>2. Queue'[k] = pages'[k - 1]
      BY <1>6, <2>1, <3>1
    <3>3. CASE k = first_page + 1
      BY <1>3, <1>4, <3>1, <3>2, <3>3
    <3>4. CASE k # first_page + 1
      <4>1. Queue[k] = pages[k - 1] /\ k - 1 # first_page
        BY <1>3, <1>5, <2>1, <3>1, <3>4
      <4> QED
        BY <1>4, <3>1, <3>2, <3>4, <4>1
    <3> QED
      BY <3>3, <3>4
  <2>3. /\ Append(Queue, page) \in Seq(Nat) /\ Len(Append(Queue, page)) = first_page + 1
        /\ \A k \in 1 .. first_page : Append(Queue, page)[k] = Queue[k]
        /\ Append(Queue, page)[first_page + 1] = page
    BY <1>5, <2>1, AppendProperties
  <2>4. \A k \in 1 .. first_page + 1 : Queue'[k] = Append(Queue, page)[k]
    BY <1>3, <2>2, <2>3
  <2>5. Queue' = Append(Queue, page)
    BY <1>6, <2>1, <2>3, <2>4, SeqEqual
  <2>6. Len(Queue) # no_pages
    BY <1>3, <2>1
  <2> QED
    BY <2>5, <2>6
<1> QED
  BY <1>7, <1>8

(* The frames of fifo.c are in order in every reachable state.             *)
THEOREM FifoInductive == Spec => []FifoIInv
<1>1. FifoIInv /\ UNCHANGED vars => FifoIInv'
  BY DEF vars, fifoVars, FifoIInv, Reading, FillsUp, Full, Seen, Page
<1>2. FifoIInv /\ [Next]_vars => FifoIInv'
  BY <1>1, FifoKeeps DEF Next, Ends
<1> QED
  BY <1>2, FifoInitially, PTL DEF Spec

(* The ring is a queue: a page that is not there is a fault and goes to    *)
(* its end, and the page that came first leaves it when it is full.        *)
THEOREM FifoIsQueue == Spec => FirstInFirstOut
<1> DEFINE page == Page(done')
           Turn == done' > done =>
                     IF page \in ToSet(Queue) THEN Queue' = Queue /\ fifo_faults' = fifo_faults
                     ELSE /\ Queue' = Append(IF Len(Queue) = no_pages THEN Tail(Queue) ELSE Queue, page)
                          /\ fifo_faults' = fifo_faults + 1
<1>1. ASSUME FifoIInv, Refer PROVE Turn
  <2>1. QueueShape /\ FifoIInv'
    BY <1>1, QueueIsSeq, FifoKeeps
  <2>2. Page(done') \in Nat
    BY <1>1, ReferenceIsSeen DEF FifoIInv
  <2>3. page \in ToSet(Queue) <=> \E j \in Frames : pages[j] = page
    BY <2>1, <2>2 DEF QueueShape
  <2>4. CASE (\E j \in Frames : pages[j] = Page(done')) /\ UNCHANGED <<pages, first_page, fifo_faults>>
    <3>1. Queue' = Queue
      BY <2>4 DEF Queue
    <3> QED
      BY <2>3, <2>4, <3>1
  <2>5. CASE /\ \A j \in Frames : pages[j] # Page(done')
             /\ pages' = [pages EXCEPT ![first_page] = Page(done')]
             /\ first_page' = (IF first_page + 1 = no_pages THEN 0 ELSE first_page + 1)
             /\ fifo_faults' = fifo_faults + 1
             /\ Full' <=> (Full \/ first_page + 1 = no_pages)
    <3>1. Queue' = Append(IF Len(Queue) = no_pages THEN Tail(Queue) ELSE Queue, page)
      BY <1>1, <2>1, <2>2, <2>5, QueueAppends
    <3> QED
      BY <2>3, <2>5, <3>1
  <2> QED
    BY <1>1, <2>4, <2>5, FifoKeeps
<1>2. FifoIInv /\ UNCHANGED vars => (done' > done => FALSE)
  BY TraceIsSeq DEF vars, FifoIInv, Reading
<1>3. FifoIInv /\ [Next]_vars => [Turn]_vars
  BY <1>1, <1>2 DEF Next, Ends
<1> QED
  BY <1>3, FifoInductive, PTL DEF Spec, FirstInFirstOut

-----------------------------------------------------------------------------
(* The node that a search of lru.c comes by after p.                       *)
Follow(l, p) == IF p \in DOMAIN l.next THEN l.next[p] ELSE NULL

(* What begins with the head and goes from node to node is the walk.       *)
LEMMA WalkIs ==
  ASSUME NEW l, l.len \in Nat, NEW s,
         s = [k \in 0 .. l.len |-> s[k]],
         s[0] = l.head, \A k \in 1 .. l.len : s[k] = Follow(l, s[k - 1])
  PROVE  walk(l) = s
<1> DEFINE Step(f) == [k \in 0 .. l.len |-> IF k = 0 THEN l.head ELSE Follow(l, f[k - 1])]
           w == CHOOSE f : f = Step(f)
           Bad == {k \in 0 .. l.len : w[k] # s[k]}
<1>1. walk(l) = w
  BY DEF walk, Follow
<1>2. s = Step(s)
  <2>1. \A k \in 0 .. l.len : s[k] = IF k = 0 THEN l.head ELSE Follow(l, s[k - 1])
    <3> TAKE k \in 0 .. l.len
    <3>1. k = 0 \/ k \in 1 .. l.len
      OBVIOUS
    <3> QED
      BY <3>1
  <2> QED
    BY <2>1, Zenon
<1> HIDE DEF Step
<1>3. w = Step(w)
  BY <1>2, Zenon
<1> HIDE DEF w
<1>4. /\ w = [k \in 0 .. l.len |-> w[k]]
      /\ \A k \in 0 .. l.len : w[k] = IF k = 0 THEN l.head ELSE Follow(l, w[k - 1])
  BY <1>3 DEF Step
<1>5. ASSUME Bad # {} PROVE FALSE
  <2> HIDE DEF Bad
  <2>0. Bad \in SUBSET Nat
    BY DEF Bad
  <2>1. PICK k \in Bad : \A i \in Bad : k <= i
    BY <1>5, <2>0, Least
  <2>2. k \in 0 .. l.len /\ w[k] # s[k]
    BY <2>1 DEF Bad
  <2>3. k # 0
    BY <1>4, <2>2
  <2>4. k - 1 \in 0 .. l.len /\ k \in 1 .. l.len /\ ~ (k <= k - 1)
    BY <2>2, <2>3
  <2>5. w[k - 1] = s[k - 1]
    BY <2>1, <2>4 DEF Bad
  <2>6. w[k] = Follow(l, w[k - 1]) /\ s[k] = Follow(l, s[k - 1])
    BY <1>4, <2>2, <2>3, <2>4
  <2> QED
    BY <2>2, <2>5, <2>6
<1>6. \A k \in 0 .. l.len : w[k] = s[k]
  BY <1>5
<1>7. w = s
  BY <1>4, <1>6, Zenon
<1> QED
  BY <1>1, <1>7

(* The first n nodes of l hold the pages of s, in this order, and then it  *)
(* ends.                                                                   *)
Chains(l, s, n) ==
  /\ n \in Nat /\ s \in [1 .. n -> Nat]
  /\ \A i, j \in 1 .. n : s[i] = s[j] => i = j
  /\ DOMAIN l.next = {s[i] : i \in 1 .. n}
  /\ l.head = IF n = 0 THEN NULL ELSE s[1]
  /\ n # 0 => l.tail = s[n]
  /\ \A i \in 1 .. n : l.next[s[i]] = IF i = n THEN NULL ELSE s[i + 1]
Lists(l, s) == Chains(l, s, l.len)

(* A search comes by the pages in their order and then by NULL, so that it *)
(* finds exactly those.                                                    *)
LEMMA SearchFinds ==
  ASSUME NEW l, NEW s, Lists(l, s)
  PROVE  /\ [k \in 1 .. l.len |-> walk(l)[k - 1]] = s
         /\ \A page \in Nat : find_page(l, page) <=> \E i \in 1 .. l.len : s[i] = page
<1> DEFINE w == [k \in 0 .. l.len |-> IF k = l.len THEN NULL ELSE s[k + 1]]
<1>1. /\ l.len \in Nat /\ s \in [1 .. l.len -> Nat]
      /\ DOMAIN l.next = {s[i] : i \in 1 .. l.len}
      /\ l.head = IF l.len = 0 THEN NULL ELSE s[1]
      /\ \A i \in 1 .. l.len : l.next[s[i]] = IF i = l.len THEN NULL ELSE s[i + 1]
  BY DEF Lists, Chains
<1>2. walk(l) = w
  <2>1. w = [k \in 0 .. l.len |-> w[k]]
    OBVIOUS
  <2>2. w[0] = l.head
    BY <1>1
  <2>3. ASSUME NEW k \in 1 .. l.len PROVE w[k] = Follow(l, w[k - 1])
    <3>1. k - 1 \in 0 .. l.len /\ k - 1 # l.len /\ (k - 1) + 1 = k /\ k \in 0 .. l.len
      BY <1>1
    <3>2. w[k - 1] = s[k]
      BY <3>1
    <3> QED
      BY <1>1, <3>1, <3>2 DEF Follow
  <2> HIDE DEF w
  <2> QED
    BY <1>1, <2>1, <2>2, <2>3, WalkIs
<1>3. \A k \in 1 .. l.len : walk(l)[k - 1] = s[k]
  <2> TAKE k \in 1 .. l.len
  <2>1. k - 1 \in 0 .. l.len /\ k - 1 # l.len /\ (k - 1) + 1 = k
    BY <1>1
  <2> QED
    BY <1>2, <2>1
<1>4. ASSUME NEW page \in Nat PROVE find_page(l, page) <=> \E i \in 1 .. l.len : s[i] = page
  <2>1. DOMAIN walk(l) = 0 .. l.len
    BY <1>2
  <2>2. walk(l)[l.len] = NULL
    BY <1>1, <1>2
  <2>3. ASSUME NEW k \in 0 .. l.len, walk(l)[k] = page PROVE \E i \in 1 .. l.len : s[i] = page
    <3>1. k # l.len
      BY <2>2, <2>3 DEF NULL
    <3>2. k + 1 \in 1 .. l.len /\ (k + 1) - 1 = k
      BY <1>1, <3>1
    <3>3. s[k + 1] = page
      BY <1>3, <2>3, <3>2
    <3> QED
      BY <3>2, <3>3
  <2>4. ASSUME NEW i \in 1 .. l.len, s[i] = page PROVE \E k \in 0 .. l.len : walk(l)[k] = page
    <3>1. i - 1 \in 0 .. l.len
      BY <1>1
    <3> QED
      BY <1>3, <2>4, <3>1
  <2> QED
    BY <2>1, <2>3, <2>4 DEF find_page
<1>5. [k \in 1 .. l.len |-> walk(l)[k - 1]] = [k \in 1 .. l.len |-> s[k]]
  BY <1>3
<1>6. s = [k \in 1 .. l.len |-> s[k]]
  BY <1>1
<1> QED
  BY <1>4, <1>5, <1>6

(* A page that is not in the list is put at its end.                       *)
Appended(s, n, page) == [i \in 1 .. n + 1 |-> IF i = n + 1 THEN page ELSE s[i]]

(* insert_page puts a page behind the others.                              *)
LEMMA InsertAppends ==
  ASSUME NEW l, NEW s, Lists(l, s), NEW page \in Nat, \A i \in 1 .. l.len : s[i] # page
  PROVE  Lists(insert_page(l, page), Appended(s, l.len, page)) /\ insert_page(l, page).len = l.len + 1
<1> DEFINE n == l.len
           m == insert_page(l, page)
           t == Appended(s, n, page)
<1>1. /\ n \in Nat /\ s \in [1 .. n -> Nat]
      /\ \A i, j \in 1 .. n : s[i] = s[j] => i = j
      /\ DOMAIN l.next = {s[i] : i \in 1 .. n}
      /\ l.head = IF n = 0 THEN NULL ELSE s[1]
      /\ n # 0 => l.tail = s[n]
      /\ \A i \in 1 .. n : l.next[s[i]] = IF i = n THEN NULL ELSE s[i + 1]
  BY DEF Lists, Chains
<1>2. /\ m.head = IF l.head = NULL THEN page ELSE l.head
      /\ m.tail = page /\ m.len = n + 1
      /\ m.next = [p \in DOMAIN l.next \cup {page} |->
                     IF p = page THEN NULL ELSE IF l.head # NULL /\ p = l.tail THEN page ELSE l.next[p]]
  BY DEF insert_page
<1>3. /\ t \in [1 .. n + 1 -> Nat] /\ t[n + 1] = page
      /\ \A i \in 1 .. n : t[i] = s[i] /\ i \in 1 .. n + 1 /\ i # n + 1
      /\ \A i \in 1 .. n + 1 : i = n + 1 \/ i \in 1 .. n
  BY <1>1 DEF Appended
<1> HIDE DEF n, m, t
<1>4. \A i, j \in 1 .. n + 1 : t[i] = t[j] => i = j
  <2> TAKE i, j \in 1 .. n + 1
  <2>1. \A k \in 1 .. n : t[k] = s[k] /\ s[k] # page
    BY <1>3 DEF n
  <2>2. (i = n + 1 \/ i \in 1 .. n) /\ (j = n + 1 \/ j \in 1 .. n)
    BY <1>1
  <2> QED
    BY <1>1, <1>3, <2>1, <2>2, SMTT(40)
<1>5. DOMAIN m.next = {t[i] : i \in 1 .. n + 1}
  <2>1. DOMAIN m.next = {s[i] : i \in 1 .. n} \cup {page}
    BY <1>1, <1>2
  <2>2. n + 1 \in 1 .. n + 1
    BY <1>1
  <2> QED
    BY <1>3, <2>1, <2>2
<1>6. m.head = t[1]
  <2>1. CASE n = 0
    BY <1>1, <1>2, <1>3, <2>1
  <2>2. CASE n # 0
    <3>1. 1 \in 1 .. n /\ s[1] \in Nat
      BY <1>1, <2>2
    <3> QED
      BY <1>1, <1>2, <1>3, <2>2, <3>1 DEF NULL
  <2> QED
    BY <2>1, <2>2
<1>7. ASSUME NEW i \in 1 .. n + 1 PROVE m.next[t[i]] = IF i = n + 1 THEN NULL ELSE t[i + 1]
  <2>1. CASE i = n + 1
    BY <1>2, <1>3, <2>1
  <2>2. CASE i \in 1 .. n
    <3>1. i # n + 1 /\ t[i] = s[i] /\ s[i] # page /\ s[i] \in DOMAIN l.next
      BY <1>1, <1>3, <2>2 DEF n
    <3>2. m.next[s[i]] = IF l.head # NULL /\ s[i] = l.tail THEN page ELSE l.next[s[i]]
      BY <1>2, <3>1
    <3>3. CASE i = n
      <4>1. 1 \in 1 .. n /\ n # 0
        BY <1>1, <2>2
      <4>2. l.head # NULL
        BY <1>1, <4>1 DEF NULL
      <4> QED
        BY <1>1, <1>3, <3>1, <3>2, <3>3, <4>1, <4>2
    <3>4. CASE i # n
      <4>1. n # 0 /\ n \in 1 .. n /\ i + 1 \in 1 .. n
        BY <1>1, <2>2, <3>4
      <4>2. s[i] # l.tail
        BY <1>1, <2>2, <3>4, <4>1
      <4> QED
        BY <1>1, <1>3, <2>2, <3>1, <3>2, <3>4, <4>1, <4>2
    <3> QED
      BY <3>3, <3>4
  <2> QED
    BY <1>3, <2>1, <2>2
<1>8. Lists(m, t)
  <2>1. n + 1 \in Nat /\ n + 1 # 0
    BY <1>1
  <2>2. Chains(m, t, n + 1)
    BY <1>2, <1>3, <1>4, <1>5, <1>6, <1>7, <2>1 DEF Chains
  <2> QED
    BY <1>2, <2>2 DEF Lists
<1> QED
  BY <1>2, <1>8 DEF m, t, n

(* The page that is taken out leaves the others in their order.            *)
Skipped(s, n, m) == [i \in 1 .. n - 1 |-> IF i < m THEN s[i] ELSE s[i + 1]]

(* remove_page takes a node out and joins its neighbours, also at the head *)
(* and at the tail.                                                        *)
LEMMA RemoveSkips ==
  ASSUME NEW l, NEW s, Lists(l, s), NEW m \in 1 .. l.len
  PROVE  Lists(remove_page(l, s[m]), Skipped(s, l.len, m)) /\ remove_page(l, s[m]).len = l.len - 1
<1> DEFINE n == l.len
           r == remove_page(l, s[m])
           t == Skipped(s, n, m)
           kept == DOMAIN l.next \ {s[m]}
<1>1. /\ n \in Nat /\ s \in [1 .. n -> Nat] /\ m \in 1 .. n
      /\ \A i, j \in 1 .. n : s[i] = s[j] => i = j
      /\ DOMAIN l.next = {s[i] : i \in 1 .. n}
      /\ l.head = IF n = 0 THEN NULL ELSE s[1]
      /\ n # 0 => l.tail = s[n]
      /\ \A i \in 1 .. n : l.next[s[i]] = IF i = n THEN NULL ELSE s[i + 1]
  BY DEF Lists, Chains
<1>2. /\ r.head = IF s[m] = l.head THEN l.next[s[m]] ELSE l.head
      /\ r.tail = (IF s[m] # l.head /\ l.next[s[m]] = NULL THEN CHOOSE p \in kept : l.next[p] = s[m] ELSE l.tail)
      /\ r.next = [p \in kept |-> IF l.next[p] = s[m] THEN l.next[s[m]] ELSE l.next[p]]
      /\ r.len = n - 1
  BY DEF remove_page
<1> HIDE DEF n, r
<1>3. /\ n - 1 \in Nat /\ n # 0
      /\ \A i \in 1 .. n - 1 : /\ i \in 1 .. n /\ i + 1 \in 1 .. n /\ t[i] = IF i < m THEN s[i] ELSE s[i + 1]
  BY <1>1 DEF Skipped
<1>4. t \in [1 .. n - 1 -> Nat]
  <2>1. \A i \in 1 .. n - 1 : (IF i < m THEN s[i] ELSE s[i + 1]) \in Nat
    BY <1>1, <1>3
  <2> QED
    BY <2>1 DEF Skipped
<1>5. kept = {s[i] : i \in 1 .. n \ {m}}
  BY <1>1
<1> HIDE DEF t, kept
<1>6. \A i, j \in 1 .. n - 1 : t[i] = t[j] => i = j
  <2> SUFFICES ASSUME NEW i \in 1 .. n - 1, NEW j \in 1 .. n - 1, t[i] = t[j] PROVE i = j
    OBVIOUS
  <2>1. (IF i < m THEN i ELSE i + 1) = (IF j < m THEN j ELSE j + 1)
    <3>1. t[i] = s[IF i < m THEN i ELSE i + 1] /\ t[j] = s[IF j < m THEN j ELSE j + 1]
      BY <1>3
    <3>2. (IF i < m THEN i ELSE i + 1) \in 1 .. n /\ (IF j < m THEN j ELSE j + 1) \in 1 .. n
      BY <1>3
    <3> DEFINE a == IF i < m THEN i ELSE i + 1
               b == IF j < m THEN j ELSE j + 1
    <3> HIDE DEF a, b
    <3>3. a \in 1 .. n /\ b \in 1 .. n /\ s[a] = s[b]
      BY <3>1, <3>2 DEF a, b
    <3>4. a = b
      BY <1>1, <3>3
    <3> QED
      BY <3>4 DEF a, b
  <2> QED
    BY <1>1, <2>1, SMTT(40)
<1>7. DOMAIN r.next = {t[i] : i \in 1 .. n - 1}
  <2>1. DOMAIN r.next = kept
    BY <1>2
  <2>2. ASSUME NEW i \in 1 .. n \ {m} PROVE \E j \in 1 .. n - 1 : t[j] = s[i]
    <3>1. CASE i < m
      <4>1. i \in 1 .. n - 1
        BY <1>1, <3>1
      <4> QED
        BY <1>3, <3>1, <4>1
    <3>2. CASE i > m
      <4>1. i - 1 \in 1 .. n - 1 /\ ~ (i - 1 < m) /\ (i - 1) + 1 = i
        BY <1>1, <3>2
      <4> QED
        BY <1>3, <4>1
    <3> QED
      BY <1>1, <3>1, <3>2
  <2>3. ASSUME NEW j \in 1 .. n - 1 PROVE \E i \in 1 .. n \ {m} : t[j] = s[i]
    <3>1. CASE j < m
      BY <1>1, <1>3, <3>1, SMTT(40)
    <3>2. CASE ~ (j < m)
      <4>1. j + 1 \in 1 .. n \ {m}
        BY <1>1, <3>2, SMTT(40)
      <4> QED
        BY <1>3, <3>2, <4>1
    <3> QED
      BY <3>1, <3>2
  <2> QED
    BY <1>5, <2>1, <2>2, <2>3
<1>8. r.head = IF n - 1 = 0 THEN NULL ELSE t[1]
  <2>1. 1 \in 1 .. n
    BY <1>1, <1>3
  <2>2. s[m] = l.head <=> m = 1
    BY <1>1, <1>3, <2>1
  <2>3. n - 1 # 0 => 1 \in 1 .. n - 1 /\ 1 + 1 \in 1 .. n
    BY <1>1, <1>3
  <2>4. CASE m = 1
    <3>1. r.head = IF n = 1 THEN NULL ELSE s[1 + 1]
      BY <1>1, <1>2, <2>1, <2>2, <2>4
    <3>2. n - 1 # 0 => t[1] = s[1 + 1]
      BY <1>3, <2>3, <2>4
    <3> QED
      BY <1>1, <3>1, <3>2
  <2>5. CASE m # 1
    <3>1. n - 1 # 0 /\ 1 < m
      BY <1>1, <2>5
    <3> QED
      BY <1>1, <1>2, <1>3, <2>2, <2>3, <2>5, <3>1
  <2> QED
    BY <2>4, <2>5
<1>9. n - 1 # 0 => r.tail = t[n - 1]
  <2> SUFFICES ASSUME n - 1 # 0 PROVE r.tail = t[n - 1]
    OBVIOUS
  <2>1. n - 1 \in 1 .. n - 1 /\ n - 1 \in 1 .. n /\ (n - 1) + 1 = n /\ n \in 1 .. n /\ 1 \in 1 .. n /\ n # 1
    BY <1>1, <1>3
  <2>2. t[n - 1] = IF n - 1 < m THEN s[n - 1] ELSE s[n]
    BY <1>3, <2>1
  <2>3. l.next[s[m]] = NULL <=> m = n
    <3>1. m # n => m + 1 \in 1 .. n
      BY <1>1
    <3> QED
      BY <1>1, <3>1, SMTT(40) DEF NULL
  <2>4. s[m] = l.head <=> m = 1
    BY <1>1, <1>3, <2>1
  <2>5. CASE m = n
    <3>1. r.tail = CHOOSE p \in kept : l.next[p] = s[m]
      BY <1>2, <2>1, <2>3, <2>4, <2>5
    <3>2. s[n - 1] \in kept /\ l.next[s[n - 1]] = s[m]
      BY <1>1, <1>5, <2>1, <2>5
    <3>3. ASSUME NEW p \in kept, l.next[p] = s[m] PROVE p = s[n - 1]
      <4>1. PICK i \in 1 .. n \ {m} : p = s[i]
        BY <1>5
      <4>2. i # n /\ i + 1 \in 1 .. n
        BY <1>1, <2>5, <4>1
      <4>3. s[i + 1] = s[m]
        BY <1>1, <3>3, <4>1, <4>2
      <4>4. i + 1 = n
        BY <1>1, <2>5, <4>2, <4>3
      <4>5. i = n - 1
        BY <1>1, <4>4
      <4> QED
        BY <4>1, <4>5
    <3>4. (CHOOSE p \in kept : l.next[p] = s[m]) = s[n - 1]
      BY <3>2, <3>3
    <3>5. n - 1 < m
      BY <1>1, <2>5
    <3> QED
      BY <2>2, <3>1, <3>4, <3>5
  <2>6. CASE m # n
    <3>1. ~ (n - 1 < m)
      BY <1>1, <2>6
    <3> QED
      BY <1>1, <1>2, <1>3, <2>2, <2>3, <2>6, <3>1
  <2> QED
    BY <2>5, <2>6
<1>10. ASSUME NEW i \in 1 .. n - 1 PROVE r.next[t[i]] = IF i = n - 1 THEN NULL ELSE t[i + 1]
  <2>1. \A p \in kept : r.next[p] = IF l.next[p] = s[m] THEN l.next[s[m]] ELSE l.next[p]
    BY <1>2
  <2>2. /\ i \in 1 .. n /\ i + 1 \in 1 .. n /\ t[i] = (IF i < m THEN s[i] ELSE s[i + 1])
        /\ i # n - 1 => i + 1 \in 1 .. n - 1 /\ (i + 1) + 1 \in 1 .. n
        /\ i = n - 1 <=> i + 1 = n
    BY <1>1, <1>3, SMTT(40)
  <2>3. i # n - 1 => t[i + 1] = IF i + 1 < m THEN s[i + 1] ELSE s[(i + 1) + 1]
    BY <1>3, <2>2
  <2>4. CASE i + 1 < m
    <3>1. i < m /\ i # m /\ i # n - 1 /\ i # n /\ i + 1 # m
      BY <1>1, <2>4
    <3>2. s[i] \in kept /\ l.next[s[i]] = s[i + 1] /\ s[i + 1] # s[m]
      BY <1>1, <1>5, <2>2, <3>1, SMTT(40)
    <3> QED
      BY <2>1, <2>2, <2>3, <2>4, <3>1, <3>2
  <2>5. CASE i + 1 = m
    <3>1. i < m /\ i # m /\ i # n /\ ~ (i + 1 < m)
      BY <1>1, <2>5
    <3>2. s[i] \in kept /\ l.next[s[i]] = s[m]
      BY <1>1, <1>5, <2>2, <2>5, <3>1
    <3>3. r.next[t[i]] = IF m = n THEN NULL ELSE s[m + 1]
      BY <1>1, <2>1, <2>2, <3>1, <3>2, ZenonT(40)
    <3> QED
      BY <2>2, <2>3, <2>5, <3>1, <3>3
  <2>6. CASE ~ (i < m)
    <3>1. i + 1 # m /\ ~ (i + 1 < m)
      BY <1>1, <2>6
    <3>2. s[i + 1] \in kept
      BY <1>5, <2>2, <3>1
    <3>3. l.next[s[i + 1]] = IF i + 1 = n THEN NULL ELSE s[(i + 1) + 1]
      BY <1>1, <2>2
    <3>4. l.next[s[i + 1]] # s[m]
      <4>1. i + 1 # n => (i + 1) + 1 # m
        BY <1>1, <2>6
      <4>2. i + 1 # n => s[(i + 1) + 1] # s[m]
        BY <1>1, <2>2, <4>1
      <4>3. s[m] # NULL
        BY <1>1 DEF NULL
      <4> QED
        BY <3>3, <4>2, <4>3
    <3> QED
      BY <2>1, <2>2, <2>3, <2>6, <3>1, <3>2, <3>3, <3>4
  <2> QED
    BY <1>1, <2>4, <2>5, <2>6
<1>11. Lists(r, t)
  <2>1. Chains(r, t, n - 1)
    BY <1>3, <1>4, <1>6, <1>7, <1>8, <1>9, <1>10 DEF Chains
  <2> QED
    BY <1>2, <2>1 DEF Lists
<1> QED
  BY <1>2, <1>11 DEF r, t, n

-----------------------------------------------------------------------------
(* The greatest of a set of numbers that has a bound.                      *)
LEMMA MaxIsGreatest ==
  ASSUME NEW n \in Nat, NEW S \in SUBSET (1 .. n), S # {}
  PROVE  Max(S) \in S /\ \A m \in S : m <= Max(S)
<1> DEFINE Below == {n - m : m \in S}
<1>1. Below \in SUBSET Nat /\ Below # {}
  OBVIOUS
<1>2. PICK k \in Below : \A i \in Below : k <= i
  BY <1>1, Least
<1>3. PICK x \in S : k = n - x
  BY <1>2
<1>4. \A m \in S : n - m \in Below
  OBVIOUS
<1> HIDE DEF Below
<1>5. \A m \in S : x >= m
  <2> TAKE m \in S
  <2>1. k <= n - m /\ m \in 1 .. n /\ x \in 1 .. n
    BY <1>2, <1>4
  <2> QED
    BY <1>3, <2>1
<1>6. Max(S) \in S /\ \A m \in S : Max(S) >= m
  BY <1>5, Zenon DEF Max
<1>7. \A y, m \in S : y >= m => m <= y
  OBVIOUS
<1> QED
  BY <1>6, <1>7

(* The last use of a page is one of its references so far, and the last.   *)
LastUses ==
  \A p \in Seen : /\ LastUse(p) \in 1 .. done /\ Page(LastUse(p)) = p
                  /\ \A i \in 1 .. done : Page(i) = p => i <= LastUse(p)

(* So it is for every trace.                                               *)
LEMMA LastUseIsUse == Reading => LastUses
<1> SUFFICES ASSUME Reading, NEW p \in Seen
             PROVE  /\ LastUse(p) \in 1 .. done /\ Page(LastUse(p)) = p
                    /\ \A i \in 1 .. done : Page(i) = p => i <= LastUse(p)
  BY DEF LastUses
<1> DEFINE S == {i \in 1 .. done : Page(i) = p}
<1>1. done \in Nat
  BY TraceIsSeq DEF Reading
<1>2. S \in SUBSET (1 .. done) /\ S # {}
  BY DEF Seen
<1>3. Max(S) \in S /\ \A i \in S : i <= Max(S)
  <2> HIDE DEF S
  <2> QED
    BY <1>1, <1>2, MaxIsGreatest
<1>4. LastUse(p) = Max(S)
  BY DEF LastUse
<1> QED
  BY <1>3, <1>4

(* A reference makes its page the last used and leaves the others.         *)
LEMMA LastUseMoves ==
  ASSUME Reading, Refer, NEW page, page = Page(done + 1)
  PROVE  /\ LastUse(page)' = done + 1
         /\ \A p \in Seen : /\ LastUse(p) \in 1 .. done
                            /\ p # page => LastUse(p)' = LastUse(p)
         /\ \A p, q \in Seen : LastUse(p) = LastUse(q) => p = q
<1>1. /\ Reading' /\ trace' = trace /\ done' = done + 1 /\ Seen' = Seen \cup {page} /\ done \in Nat
      /\ \A i : Page(i)' = Page(i)
  BY ReferenceIsSeen, TraceIsSeq DEF Reading, Page
<1>2. LastUses
  BY LastUseIsUse
<1>3. LastUses'
  <2>1. (Reading => LastUses)'
    BY LastUseIsUse, PTL
  <2> QED
    BY <1>1, <2>1
<1>4. /\ LastUse(page)' \in 1 .. done + 1
      /\ \A i \in 1 .. done + 1 : Page(i) = page => i <= LastUse(page)'
  BY <1>1, <1>3 DEF LastUses
<1>5. LastUse(page)' = done + 1
  BY <1>1, <1>4
<1>6. ASSUME NEW p \in Seen, p # page PROVE LastUse(p)' = LastUse(p)
  <2>1. LastUse(p)' = Max({i \in 1 .. done + 1 : Page(i) = p})
    BY <1>1 DEF LastUse
  <2>2. {i \in 1 .. done + 1 : Page(i) = p} = {i \in 1 .. done : Page(i) = p}
    <3>1. \A i \in 1 .. done + 1 : i \in 1 .. done \/ i = done + 1
      BY <1>1
    <3>2. \A i \in 1 .. done : i \in 1 .. done + 1
      BY <1>1
    <3> QED
      BY <1>6, <3>1, <3>2
  <2> QED
    BY <2>1, <2>2 DEF LastUse
<1> QED
  BY <1>2, <1>5, <1>6 DEF LastUses

(* The pages of s are n of those seen, as many as there are frames or all  *)
(* of them, in the order of their last uses, and no other was used since.  *)
Recent(s, n) ==
  /\ n <= no_pages
  /\ \A i \in 1 .. n : s[i] \in Seen
  /\ \A i, j \in 1 .. n : i < j => LastUse(s[i]) < LastUse(s[j])
  /\ \A q \in Seen : (\A i \in 1 .. n : s[i] # q) =>
       n = no_pages /\ \A i \in 1 .. n : LastUse(q) < LastUse(s[i])

LruIInv ==
  /\ Reading /\ lru_faults \in 0 .. done
  /\ \E s : Lists(list, s) /\ Recent(s, list.len)

(* The empty list holds all pages seen.                                    *)
LEMMA LruInitially == Init => LruIInv
<1> SUFFICES ASSUME Init PROVE LruIInv
  OBVIOUS
<1>1. done = 0 /\ list = [head |-> NULL, tail |-> NULL, next |-> [p \in {} |-> NULL], len |-> 0] /\ lru_faults = 0
  BY DEF Init, LruInit
<1> DEFINE s == [i \in 1 .. 0 |-> 0]
<1>2. Chains(list, s, 0)
  BY <1>1 DEF Chains
<1>3. Lists(list, s)
  BY <1>1, <1>2 DEF Lists
<1>4. Seen = {}
  BY <1>1 DEF Seen
<1>5. Recent(s, 0)
  BY <1>4, FramesAssumption DEF Recent
<1> QED
  BY <1>1, <1>3, <1>5, ReadingInitially DEF LruIInv

(* The pages of r are what stays in the list when page goes to its end.    *)
Stays(r, k, page) ==
  /\ k \in Nat /\ k < no_pages /\ r \in [1 .. k -> Nat]
  /\ \A i \in 1 .. k : r[i] \in Seen /\ r[i] # page
  /\ \A i, j \in 1 .. k : i < j => LastUse(r[i]) < LastUse(r[j])
  /\ \A q \in Seen : q # page /\ (\A i \in 1 .. k : r[i] # q) =>
       k + 1 = no_pages /\ \A i \in 1 .. k : LastUse(q) < LastUse(r[i])

(* When what stays is in order, so is the list with the page at its end.   *)
LEMMA LastIsRecent ==
  ASSUME Reading, Refer, NEW page, page = Page(done + 1), NEW r, NEW k, Stays(r, k, page)
  PROVE  Recent(Appended(r, k, page), k + 1)'
<1> DEFINE t == Appended(r, k, page)
<1>1. /\ k \in Nat /\ k < no_pages /\ r \in [1 .. k -> Nat]
      /\ \A i \in 1 .. k : r[i] \in Seen /\ r[i] # page
      /\ \A i, j \in 1 .. k : i < j => LastUse(r[i]) < LastUse(r[j])
      /\ \A q \in Seen : q # page /\ (\A i \in 1 .. k : r[i] # q) =>
           k + 1 = no_pages /\ \A i \in 1 .. k : LastUse(q) < LastUse(r[i])
  BY DEF Stays
<1>2. Seen' = Seen \cup {page} /\ done \in Nat
  BY ReferenceIsSeen, TraceIsSeq DEF Reading
<1>3. /\ LastUse(page)' = done + 1
      /\ \A p \in Seen : LastUse(p) \in 1 .. done /\ (p # page => LastUse(p)' = LastUse(p))
  BY LastUseMoves
<1>4. /\ t[k + 1] = page
      /\ \A i \in 1 .. k : t[i] = r[i] /\ i \in 1 .. k + 1
      /\ \A i \in 1 .. k + 1 : i = k + 1 \/ i \in 1 .. k
      /\ k + 1 \in 1 .. k + 1
  BY <1>1 DEF Appended
<1> HIDE DEF t
<1>5. k + 1 <= no_pages
  BY <1>1, FramesAssumption
<1>6. \A i \in 1 .. k + 1 : t[i] \in Seen'
  BY <1>1, <1>2, <1>4
<1>7. \A i \in 1 .. k : LastUse(t[i])' = LastUse(r[i]) /\ LastUse(r[i]) \in 1 .. done
  <2> TAKE i \in 1 .. k
  <2>1. t[i] = r[i] /\ r[i] \in Seen /\ r[i] # page
    BY <1>1, <1>4
  <2> QED
    BY <1>3, <2>1
<1>8. LastUse(t[k + 1])' = done + 1
  BY <1>3, <1>4
<1>9. ASSUME NEW i \in 1 .. k + 1, NEW j \in 1 .. k + 1, i < j
      PROVE  LastUse(t[i])' < LastUse(t[j])'
  <2>1. i \in 1 .. k
    BY <1>1, <1>9
  <2>2. CASE j \in 1 .. k
    BY <1>1, <1>7, <1>9, <2>1, <2>2
  <2>3. CASE j = k + 1
    BY <1>2, <1>7, <1>8, <2>1, <2>3
  <2> QED
    BY <1>4, <2>2, <2>3
<1>10. ASSUME NEW q \in Seen', \A i \in 1 .. k + 1 : t[i] # q
       PROVE  k + 1 = no_pages /\ \A i \in 1 .. k + 1 : LastUse(q)' < LastUse(t[i])'
  <2>1. q # page /\ q \in Seen /\ \A i \in 1 .. k : r[i] # q
    BY <1>2, <1>4, <1>10
  <2>2. k + 1 = no_pages /\ \A i \in 1 .. k : LastUse(q) < LastUse(r[i])
    BY <1>1, <2>1
  <2>3. LastUse(q)' = LastUse(q) /\ LastUse(q) \in 1 .. done
    BY <1>3, <2>1
  <2>4. \A i \in 1 .. k : LastUse(q)' < LastUse(t[i])'
    BY <1>7, <2>2, <2>3
  <2>5. LastUse(q)' < LastUse(t[k + 1])'
    BY <1>2, <1>8, <2>3
  <2> QED
    BY <1>4, <2>2, <2>4, <2>5
<1> QED
  BY <1>5, <1>6, <1>9, <1>10 DEF Recent, t

(* What stays: all others when the page was there, all but the first when  *)
(* it was not and there is no room, all when there is.                     *)
LEMMA OthersStay ==
  ASSUME Reading, NEW n \in Nat, NEW s \in [1 .. n -> Nat], Recent(s, n),
         \A i, j \in 1 .. n : s[i] = s[j] => i = j,
         NEW m \in 1 .. n, NEW page,
         \/ s[m] = page
         \/ m = 1 /\ n = no_pages /\ \A i \in 1 .. n : s[i] # page
  PROVE  Stays(Skipped(s, n, m), n - 1, page)
<1> DEFINE r == Skipped(s, n, m)
           At(i) == IF i < m THEN i ELSE i + 1
<1>1. /\ n <= no_pages /\ no_pages \in Nat
      /\ \A i \in 1 .. n : s[i] \in Seen
      /\ \A i, j \in 1 .. n : i < j => LastUse(s[i]) < LastUse(s[j])
      /\ \A q \in Seen : (\A i \in 1 .. n : s[i] # q) =>
           n = no_pages /\ \A i \in 1 .. n : LastUse(q) < LastUse(s[i])
  BY FramesAssumption DEF Recent
<1>2. n - 1 \in Nat /\ n - 1 < no_pages
  BY <1>1
<1>3. \A i \in 1 .. n - 1 : At(i) \in 1 .. n /\ At(i) # m /\ r[i] = s[At(i)]
  BY <1>2 DEF Skipped
<1>4. \A i, j \in 1 .. n - 1 : i < j => At(i) < At(j)
  BY <1>2
<1>5. \A i \in 1 .. n : i # m => \E j \in 1 .. n - 1 : At(j) = i
  <2> TAKE i \in 1 .. n
  <2>1. CASE i < m
    <3>1. i \in 1 .. n - 1 /\ At(i) = i
      BY <2>1
    <3> QED
      BY <3>1
  <2>2. CASE i > m
    <3>1. i - 1 \in 1 .. n - 1 /\ At(i - 1) = i
      BY <2>2
    <3> QED
      BY <3>1
  <2> QED
    BY <2>1, <2>2
<1>6. r \in [1 .. n - 1 -> Nat]
  <2>1. \A i \in 1 .. n - 1 : (IF i < m THEN s[i] ELSE s[i + 1]) \in Nat
    BY <1>2
  <2> QED
    BY <2>1 DEF Skipped
<1> HIDE DEF r, At
<1>7. \A i \in 1 .. n - 1 : r[i] \in Seen /\ r[i] # page
  <2> TAKE i \in 1 .. n - 1
  <2>1. At(i) \in 1 .. n /\ At(i) # m /\ r[i] = s[At(i)]
    BY <1>3
  <2>2. s[At(i)] # s[m]
    BY <2>1
  <2> QED
    BY <1>1, <2>1, <2>2
<1>8. \A i, j \in 1 .. n - 1 : i < j => LastUse(r[i]) < LastUse(r[j])
  BY <1>1, <1>3, <1>4
<1>9. ASSUME NEW q \in Seen, q # page, \A i \in 1 .. n - 1 : r[i] # q
      PROVE  (n - 1) + 1 = no_pages /\ \A i \in 1 .. n - 1 : LastUse(q) < LastUse(r[i])
  <2>1. \A i \in 1 .. n : s[i] = q => i = m
    <3> SUFFICES ASSUME NEW i \in 1 .. n, s[i] = q, i # m PROVE FALSE
      OBVIOUS
    <3>1. PICK j \in 1 .. n - 1 : At(j) = i
      BY <1>5
    <3> QED
      BY <1>3, <1>9, <3>1
  <2>2. CASE s[m] = page
    <3>1. \A i \in 1 .. n : s[i] # q
      BY <1>9, <2>1, <2>2
    <3>2. n = no_pages /\ \A i \in 1 .. n : LastUse(q) < LastUse(s[i])
      BY <1>1, <3>1
    <3> QED
      BY <1>3, <3>2
  <2>3. CASE m = 1 /\ n = no_pages /\ s[m] = q
    <3>1. \A i \in 1 .. n - 1 : 1 < At(i)
      BY <1>3, <2>3
    <3> QED
      BY <1>1, <1>3, <2>3, <3>1
  <2>4. CASE m = 1 /\ n = no_pages /\ s[m] # q
    <3>1. \A i \in 1 .. n : s[i] # q
      BY <2>1, <2>4
    <3>2. \A i \in 1 .. n : LastUse(q) < LastUse(s[i])
      BY <1>1, <3>1
    <3> QED
      BY <1>3, <2>4, <3>2
  <2> QED
    BY <2>2, <2>3, <2>4
<1> QED
  BY <1>2, <1>6, <1>7, <1>8, <1>9 DEF Stays, r

(* Every reference keeps the list as it should be.                         *)
LEMMA LruKeeps == ASSUME LruIInv, Refer PROVE LruIInv'
<1>1. PICK s : Lists(list, s) /\ Recent(s, list.len)
  BY DEF LruIInv
<1>2. PICK n : n = list.len
  OBVIOUS
<1>3. PICK page : page = Page(done + 1)
  OBVIOUS
<1>4. /\ Reading /\ Reading' /\ done' = done + 1 /\ done \in Nat /\ page \in Nat
      /\ lru_faults \in 0 .. done
  BY <1>3, ReferenceIsSeen, TraceIsSeq DEF LruIInv, Reading
<1>5. LruRefer(trace[done + 1]) /\ page_adress(trace[done + 1]) = page
  BY <1>3 DEF Refer, Page
<1>6. /\ Chains(list, s, n) /\ Recent(s, n) /\ n \in Nat /\ s \in [1 .. n -> Nat]
      /\ \A i, j \in 1 .. n : s[i] = s[j] => i = j
      /\ list.head = IF n = 0 THEN NULL ELSE s[1]
  BY <1>1, <1>2 DEF Lists, Chains
<1>7. n <= no_pages
  BY <1>6 DEF Recent
<1>8. \A p \in Nat : find_page(list, p) <=> \E i \in 1 .. n : s[i] = p
  BY <1>1, <1>2, SearchFinds
<1>9. ASSUME NEW l, NEW r, NEW k, k = l.len, Lists(l, r), Stays(r, k, page), list' = insert_page(l, page)
      PROVE  \E t : Lists(list', t) /\ Recent(t, list.len)'
  <2>1. k \in Nat /\ \A i \in 1 .. k : r[i] # page
    BY <1>9 DEF Stays
  <2>2. Lists(list', Appended(r, k, page)) /\ list'.len = k + 1
    BY <1>4, <1>9, <2>1, InsertAppends
  <2>3. Recent(Appended(r, k, page), k + 1)'
    BY <1>3, <1>4, <1>9, LastIsRecent
  <2> QED
    BY <2>2, <2>3
<1>10. ASSUME NEW m \in 1 .. n,
              \/ s[m] = page
              \/ m = 1 /\ n = no_pages /\ \A i \in 1 .. n : s[i] # page,
              list' = insert_page(remove_page(list, s[m]), page)
       PROVE  \E t : Lists(list', t) /\ Recent(t, list.len)'
  <2>1. /\ Lists(remove_page(list, s[m]), Skipped(s, n, m))
        /\ remove_page(list, s[m]).len = n - 1
    BY <1>1, <1>2, RemoveSkips
  <2>2. Stays(Skipped(s, n, m), n - 1, page)
    BY <1>4, <1>6, <1>10, OthersStay
  <2>3. PICK l : l = remove_page(list, s[m])
    OBVIOUS
  <2>4. PICK r : r = Skipped(s, n, m)
    OBVIOUS
  <2> QED
    BY <1>9, <1>10, <2>1, <2>2, <2>3, <2>4
<1>11. CASE find_page(list, page) /\ list' = insert_page(remove_page(list, page), page) /\ UNCHANGED lru_faults
  <2>1. PICK m \in 1 .. n : s[m] = page
    BY <1>4, <1>8, <1>11
  <2>2. \E t : Lists(list', t) /\ Recent(t, list.len)'
    BY <1>10, <1>11, <2>1
  <2> QED
    BY <1>4, <1>11, <2>2 DEF LruIInv
<1>12. CASE /\ ~find_page(list, page) /\ lru_faults' = lru_faults + 1
            /\ list' = insert_page(IF list.len = no_pages THEN remove_page(list, list.head) ELSE list, page)
  <2>1. \A i \in 1 .. n : s[i] # page
    BY <1>4, <1>8, <1>12
  <2>2. ASSUME n = no_pages PROVE \E t : Lists(list', t) /\ Recent(t, list.len)'
    <3>1. 1 \in 1 .. n /\ list.head = s[1]
      BY <1>6, <2>2, FramesAssumption
    <3>2. list' = insert_page(remove_page(list, s[1]), page)
      BY <1>2, <1>12, <2>2, <3>1
    <3> QED
      BY <1>10, <2>1, <2>2, <3>1, <3>2
  <2>3. ASSUME n # no_pages PROVE \E t : Lists(list', t) /\ Recent(t, list.len)'
    <3>1. Stays(s, n, page)
      BY <1>6, <1>7, <2>1, <2>3, FramesAssumption DEF Stays, Recent
    <3>2. list' = insert_page(list, page)
      BY <1>2, <1>12, <2>3
    <3>3. PICK l : l = list
      OBVIOUS
    <3> QED
      BY <1>1, <1>2, <1>9, <3>1, <3>2, <3>3
  <2>4. lru_faults' \in 0 .. done'
    BY <1>4, <1>12
  <2> QED
    BY <1>4, <2>2, <2>3, <2>4 DEF LruIInv
<1> QED
  BY <1>5, <1>11, <1>12 DEF LruRefer

(* The list of lru.c holds the pages in the order of their last uses in    *)
(* every reachable state.                                                  *)
THEOREM LruInductive == Spec => []LruIInv
<1>1. LruIInv /\ UNCHANGED vars => LruIInv'
  <2> SUFFICES ASSUME LruIInv, UNCHANGED vars PROVE LruIInv'
    OBVIOUS
  <2>1. list' = list /\ lru_faults' = lru_faults /\ trace' = trace /\ done' = done
    BY DEF vars, lruVars
  <2>2. Reading' <=> Reading
    BY <2>1 DEF Reading
  <2>3. Seen' = Seen
    BY <2>1 DEF Seen, Page
  <2>4. ASSUME NEW p PROVE LastUse(p)' = LastUse(p)
    BY <2>1, Zenon DEF LastUse, Page
  <2>5. ASSUME NEW s PROVE Recent(s, list.len)' <=> Recent(s, list.len)
    BY <2>1, <2>3, <2>4 DEF Recent
  <2> QED
    BY <2>1, <2>2, <2>5 DEF LruIInv
<1>2. LruIInv /\ [Next]_vars => LruIInv'
  BY <1>1, LruKeeps DEF Next, Ends
<1> QED
  BY <1>2, LruInitially, PTL DEF Spec

(* A list has as many nodes as pages.                                      *)
LEMMA PagesCounted ==
  ASSUME NEW n \in Nat, NEW s \in [1 .. n -> Nat], \A i, j \in 1 .. n : s[i] = s[j] => i = j
  PROVE  IsFiniteSet({s[i] : i \in 1 .. n}) /\ Cardinality({s[i] : i \in 1 .. n}) = n
<1> DEFINE H == {s[i] : i \in 1 .. n}
<1>1. IsFiniteSet(1 .. n) /\ Cardinality(1 .. n) = n
  BY FS_Interval
<1>2. s \in Bijection(1 .. n, H)
  BY DEF Bijection, Injection, Surjection, IsInjective
<1>3. ExistsBijection(1 .. n, H)
  BY <1>2 DEF ExistsBijection
<1> HIDE DEF H
<1>4. IsFiniteSet(H) /\ Cardinality(H) = n
  BY <1>1, <1>3, FS_Bijection
<1> QED
  BY <1>4 DEF H

(* A program that has read so far has seen finitely many pages.            *)
LEMMA SeenFinite == Reading => IsFiniteSet(Seen)
<1> SUFFICES ASSUME Reading PROVE IsFiniteSet(Seen)
  OBVIOUS
<1> DEFINE f == [i \in 1 .. done |-> Page(i)]
<1>1. done \in Nat
  BY TraceIsSeq DEF Reading
<1>2. IsFiniteSet(DOMAIN f)
  BY <1>1, FS_Interval
<1>3. Seen = {f[i] : i \in DOMAIN f}
  BY DEF Seen
<1> HIDE DEF f
<1> QED
  BY <1>2, <1>3, ImageFinite

(* The list of lru.c holds the pages used most recently, as many as there  *)
(* are frames, in the order of their last uses: the sequence of the        *)
(* invariant is what a walk through the list comes by.                     *)
THEOREM LruHoldsMostRecent == Spec => []HoldsMostRecent
<1>1. ASSUME LruIInv PROVE HoldsMostRecent
  <2>1. PICK s : Lists(list, s) /\ Recent(s, list.len)
    BY <1>1 DEF LruIInv
  <2>2. PICK n : n = list.len
    OBVIOUS
  <2>3. /\ n \in Nat /\ s \in [1 .. n -> Nat] /\ \A i, j \in 1 .. n : s[i] = s[j] => i = j
    BY <2>1, <2>2 DEF Lists, Chains
  <2>4. /\ n <= no_pages /\ no_pages \in Nat
        /\ \A i \in 1 .. n : s[i] \in Seen
        /\ \A i, j \in 1 .. n : i < j => LastUse(s[i]) < LastUse(s[j])
        /\ \A q \in Seen : (\A i \in 1 .. n : s[i] # q) =>
             n = no_pages /\ \A i \in 1 .. n : LastUse(q) < LastUse(s[i])
    BY <2>1, <2>2, FramesAssumption DEF Recent
  <2>5. [k \in 1 .. list.len |-> walk(list)[k - 1]] = s
    BY <2>1, SearchFinds
  <2> DEFINE H == {s[i] : i \in 1 .. n}
  <2>6. ToSet(s) = H
    BY <2>3 DEF ToSet
  <2>7. IsFiniteSet(H) /\ Cardinality(H) = n
    BY <2>3, PagesCounted
  <2>8. /\ IsFiniteSet(Seen) /\ done \in Nat
        /\ \A p \in Seen : LastUse(p) \in 1 .. done
    BY <1>1, SeenFinite, LastUseIsUse, TraceIsSeq DEF LruIInv, Reading, LastUses
  <2>9. \A p \in Seen : IsFiniteSet(UsedSince(p)) /\ Cardinality(UsedSince(p)) \in Nat
    <3> TAKE p \in Seen
    <3>1. UsedSince(p) \in SUBSET Seen
      BY DEF UsedSince
    <3>2. IsFiniteSet(UsedSince(p))
      BY <2>8, <3>1, FS_Subset
    <3> QED
      BY <3>2, FS_CardinalityType
  <2>10. ASSUME NEW p \in H PROVE p \in Seen /\ Cardinality(UsedSince(p)) < no_pages
    <3>1. PICK i \in 1 .. n : p = s[i]
      OBVIOUS
    <3>2. p \in Seen
      BY <2>4, <3>1
    <3>3. ASSUME NEW q \in UsedSince(p) PROVE q \in H \ {p}
      <4>1. q \in Seen /\ LastUse(q) > LastUse(p)
        BY <3>3 DEF UsedSince
      <4>2. LastUse(q) \in 1 .. done /\ LastUse(p) \in 1 .. done
        BY <2>8, <3>2, <4>1
      <4>3. q # p /\ ~ (LastUse(q) < LastUse(p))
        BY <4>1, <4>2
      <4> QED
        BY <2>4, <3>1, <4>1, <4>3
    <3> HIDE DEF H
    <3>4. IsFiniteSet(H \ {p}) /\ Cardinality(H \ {p}) = n - 1
      BY <2>7, FS_RemoveElement
    <3>5. Cardinality(UsedSince(p)) <= n - 1
      <4>1. UsedSince(p) \in SUBSET (H \ {p})
        BY <3>3
      <4> QED
        BY <3>4, <4>1, FS_Subset
    <3> QED
      BY <2>3, <2>4, <2>9, <3>2, <3>5
  <2>11. ASSUME NEW p \in Seen, Cardinality(UsedSince(p)) < no_pages PROVE p \in H
    <3> SUFFICES ASSUME p \notin H PROVE FALSE
      OBVIOUS
    <3>1. n = no_pages /\ \A i \in 1 .. n : LastUse(p) < LastUse(s[i])
      BY <2>4
    <3>2. \A i \in 1 .. n : s[i] \in UsedSince(p)
      <4> TAKE i \in 1 .. n
      <4>1. s[i] \in Seen /\ LastUse(p) < LastUse(s[i])
        BY <2>4, <3>1
      <4>2. LastUse(s[i]) \in 1 .. done /\ LastUse(p) \in 1 .. done
        BY <2>8, <4>1
      <4> QED
        BY <4>1, <4>2 DEF UsedSince
    <3>3. H \in SUBSET UsedSince(p)
      BY <3>2
    <3> HIDE DEF H
    <3>4. Cardinality(H) <= Cardinality(UsedSince(p))
      BY <2>9, <3>3, FS_Subset
    <3> QED
      BY <2>3, <2>7, <2>9, <2>11, <3>1, <3>4
  <2>12. H = {p \in Seen : Cardinality(UsedSince(p)) < no_pages}
    <3> HIDE DEF H
    <3> QED
      BY <2>10, <2>11
  <2>13. ToSet([k \in 1 .. list.len |-> walk(list)[k - 1]]) = {p \in Seen : Cardinality(UsedSince(p)) < no_pages}
    BY <2>5, <2>6, <2>12
  <2>14. \A i, j \in 1 .. list.len : i < j =>
           LastUse([k \in 1 .. list.len |-> walk(list)[k - 1]][i])
             < LastUse([k \in 1 .. list.len |-> walk(list)[k - 1]][j])
    BY <2>2, <2>4, <2>5
  <2> QED
    BY <2>13, <2>14, Zenon DEF HoldsMostRecent
<1> QED
  BY <1>1, LruInductive, PTL

-----------------------------------------------------------------------------
(* The frames of optimal.c hold pages that have been seen.                 *)
HoldsSeen == \A j \in Frames : frames[j].adress \in Seen \cup {NoPage}

(* A reference puts a page that has been seen into a frame.                *)
LEMMA SeenIsHeld == ASSUME OptimalIInv, HoldsSeen, Reading, Refer PROVE HoldsSeen'
<1> DEFINE note == noted(trace, done + 1)
           hit == {j \in Frames : frames[j].adress = note.adress}
           into == IF hit = {} THEN best ELSE Min(hit)
<1>1. Seen' = Seen \cup {Page(done + 1)}
  BY ReferenceIsSeen
<1>2. frames' = [j \in Frames |-> CountDown(IF j = into THEN note ELSE frames[j])]
  BY DEF Refer, OptimalRefer
<1>3. note = [adress |-> Page(done + 1), time_until_next_access |-> note.time_until_next_access]
  BY DEF noted, Page
<1>4. \A j \in Frames : /\ frames[j].adress \in Seen \cup {NoPage}
                        /\ frames[j] = [adress |-> frames[j].adress,
                                        time_until_next_access |-> frames[j].time_until_next_access]
  BY DEF HoldsSeen, OptimalIInv, Noted
<1> HIDE DEF note, into
<1>5. \A a, b : CountDown([adress |-> a, time_until_next_access |-> b]).adress = a
  BY DEF CountDown
<1>6. ASSUME NEW j \in Frames PROVE frames'[j].adress \in Seen' \cup {NoPage}
  <2>1. frames'[j] = CountDown(IF j = into THEN note ELSE frames[j])
    BY <1>2
  <2>2. CASE j = into
    <3>1. frames'[j].adress = Page(done + 1)
      BY <1>3, <1>5, <2>1, <2>2
    <3> QED
      BY <1>1, <3>1
  <2>3. CASE j # into
    <3>1. PICK a, b : frames[j] = [adress |-> a, time_until_next_access |-> b] /\ a = frames[j].adress
      BY <1>4
    <3>2. frames'[j].adress = a
      BY <1>5, <2>1, <2>3, <3>1
    <3> QED
      BY <1>1, <1>4, <3>1, <3>2
  <2> QED
    BY <2>2, <2>3
<1> QED
  BY <1>6 DEF HoldsSeen

(* What the three programs keep has its types in every reachable state:    *)
(* frames and nodes hold pages that have been referred to, the list has    *)
(* the length it says, and nobody counts more faults than references.      *)
THEOREM PagingTypeCorrect == Spec => []TypeOK
<1>1. Init => HoldsSeen
  BY DEF Init, OptimalInit, HoldsSeen
<1>2. HoldsSeen /\ UNCHANGED vars => HoldsSeen'
  BY DEF vars, optimalVars, HoldsSeen, Seen, Page
<1>3. HoldsSeen /\ OptimalIInv /\ FifoIInv /\ [Next]_vars => HoldsSeen'
  BY <1>2, SeenIsHeld DEF Next, Ends, FifoIInv
<1>4. Spec => []HoldsSeen
  BY <1>1, <1>3, OptimalInductive, FifoInductive, PTL DEF Spec
<1>5. ASSUME FifoIInv, LruIInv, OptimalIInv, HoldsSeen PROVE TypeOK
  <2>1. PICK s : Lists(list, s) /\ Recent(s, list.len)
    BY <1>5 DEF LruIInv
  <2>2. PICK n : n = list.len
    OBVIOUS
  <2>3. /\ n \in Nat /\ s \in [1 .. n -> Nat] /\ \A i, j \in 1 .. n : s[i] = s[j] => i = j
        /\ DOMAIN list.next = {s[i] : i \in 1 .. n}
        /\ list.head = IF n = 0 THEN NULL ELSE s[1]
        /\ n # 0 => list.tail = s[n]
    BY <2>1, <2>2 DEF Lists, Chains
  <2>4. n <= no_pages /\ \A i \in 1 .. n : s[i] \in Seen
    BY <2>1, <2>2 DEF Recent
  <2>5. Cardinality(DOMAIN list.next) = n
    <3>1. Cardinality({s[i] : i \in 1 .. n}) = n
      BY <2>3, PagesCounted
    <3> QED
      BY <2>3, <3>1
  <2>6. list.head # NULL => list.tail \in DOMAIN list.next
    <3>1. n # 0 => n \in 1 .. n
      BY <2>3
    <3> QED
      BY <2>3, <3>1
  <2>7. DOMAIN list.next \subseteq Seen /\ list.len = Cardinality(DOMAIN list.next) /\ list.len <= no_pages
    BY <2>2, <2>3, <2>4, <2>5
  <2>8. {fifo_faults, lru_faults, optimal_faults} \subseteq 0 .. done
    BY <1>5 DEF FifoIInv, LruIInv, OptimalIInv
  <2>9. first_page \in Frames /\ pages \in [Frames -> Seen \cup {NoPage}]
    BY <1>5 DEF FifoIInv
  <2> QED
    BY <1>5, <2>6, <2>7, <2>8, <2>9 DEF TypeOK, HoldsSeen
<1> QED
  BY <1>4, <1>5, FifoInductive, LruInductive, OptimalInductive, PTL
=============================================================================
