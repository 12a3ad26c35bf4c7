-------------------------- MODULE FileSystemProofs --------------------------
(***************************************************************************)
(* Proofs about the file system of lab3: whatever the users type, every    *)
(* variable keeps its type (FileSystemTypeCorrect).                        *)
(***************************************************************************)
EXTENDS FileSystemProperties, SequenceTheorems, WellFoundedInduction, TLAPS

(* A set of natural numbers that is not empty has a least member. *)
LEMMA LeastOf ==
  ASSUME NEW S \in SUBSET Nat, S # {}
  PROVE  \E n \in S : \A m \in S : n <= m
<1> DEFINE Before == OpToRel(<, Nat)
<1>1. IsWellFoundedOn(Before, Nat)
  BY NatLessThanWellFounded, Zenon
<1>2. \A m, n \in Nat : m < n => <<m, n>> \in Before
  BY DEF OpToRel
<1> HIDE DEF Before
<1>3. PICK n \in S : \A m \in S : ~ (<<m, n>> \in Before)
  BY <1>1, WFMin
<1>4. \A m \in S : ~ (m < n)
  BY <1>2, <1>3, Zenon
<1> QED
  BY <1>4

(* What holds before a loop and is kept by each of its turns holds after   *)
(* every turn.                                                             *)
LEMMA EveryTurn ==
  ASSUME NEW n \in Nat, NEW K, 0 \in K, \A k \in 1 .. n : k - 1 \in K => k \in K
  PROVE  \A k \in 0 .. n : k \in K
<1> DEFINE Bad == (0 .. n) \ K
<1> SUFFICES ASSUME Bad # {} PROVE FALSE
  <2>1. CASE Bad = {}
    BY <2>1
  <2> QED
    BY <2>1
<1>1. PICK k \in Bad : \A m \in Bad : k <= m
  <2>1. Bad \in SUBSET Nat
    OBVIOUS
  <2> HIDE DEF Bad
  <2> QED
    BY <2>1, LeastOf
<1>2. k # 0 /\ k \in 0 .. n /\ k \notin K
  OBVIOUS
<1>3. k \in 1 .. n /\ k - 1 \in 0 .. n /\ ~ (k <= k - 1)
  BY <1>2
<1>4. k - 1 \in K
  BY <1>1, <1>3
<1> QED
  BY <1>2, <1>3, <1>4

(* A loop of n turns, each of which maps S into S, has a course. *)
Course(n, S, x, f, a) == a \in [0 .. n -> S] /\ a[0] = x /\ \A k \in 1 .. n : a[k] = f[k][a[k - 1]]

(* A loop of n turns has a course: a function whose last value is what the *)
(* loop leaves.                                                            *)
LEMMA LoopRuns ==
  ASSUME NEW n \in Nat, NEW S, NEW x \in S, NEW f \in [1 .. n -> [S -> S]]
  PROVE  \E a : Course(n, S, x, f, a)
<1> USE DEF Course
<1> DEFINE Runs(m) == \E a : Course(m, S, x, f, a)
           Bad == {m \in 0 .. n : ~Runs(m)}
<1>0. Runs(n) \/ n \in Bad
  OBVIOUS
<1> SUFFICES ASSUME n \in Bad PROVE FALSE
  BY <1>0
<1>1. PICK m \in Bad : \A i \in Bad : m <= i
  <2>1. Bad \in SUBSET Nat /\ Bad # {}
    OBVIOUS
  <2> HIDE DEF Bad
  <2> QED
    BY <2>1, LeastOf
<1>2. Runs(0)
  <2> DEFINE a == [k \in 0 .. 0 |-> x]
  <2>1. a \in [0 .. 0 -> S] /\ a[0] = x
    OBVIOUS
  <2>2. \A k \in 1 .. 0 : FALSE
    OBVIOUS
  <2> HIDE DEF a
  <2>3. \A k \in 1 .. 0 : a[k] = f[k][a[k - 1]]
    BY <2>2
  <2> QED
    BY <2>1, <2>3
<1>3. m \in 1 .. n /\ m - 1 \in 0 .. n /\ m - 1 \notin Bad
  <2>1. m \in 0 .. n /\ ~Runs(m)
    OBVIOUS
  <2>2. m # 0
    BY <1>2, <2>1
  <2>3. m \in 1 .. n /\ m - 1 \in 0 .. n /\ ~ (m <= m - 1)
    BY <2>1, <2>2
  <2> HIDE DEF Bad
  <2> QED
    BY <1>1, <2>3
<1>4. PICK a \in [0 .. m - 1 -> S] : a[0] = x /\ \A k \in 1 .. m - 1 : a[k] = f[k][a[k - 1]]
  <2>1. Runs(m - 1)
    BY <1>3
  <2> QED
    BY <2>1
<1> DEFINE b == [k \in 0 .. m |-> IF k = m THEN f[m][a[m - 1]] ELSE a[k]]
<1>5. f[m][a[m - 1]] \in S
  BY <1>3, <1>4
<1>6. b \in [0 .. m -> S]
  BY <1>3, <1>4, <1>5
<1>7. b[0] = x
  BY <1>3, <1>4
<1>8. ASSUME NEW k \in 1 .. m PROVE b[k] = f[k][b[k - 1]]
  <2>1. b[k - 1] = a[k - 1] /\ k - 1 \in 0 .. m
    BY <1>3
  <2>2. CASE k = m
    BY <1>3, <2>1, <2>2
  <2>3. CASE k # m
    <3>1. k \in 1 .. m - 1 /\ b[k] = a[k]
      BY <1>3, <2>3
    <3> QED
      BY <1>4, <2>1, <3>1
  <2> QED
    BY <2>2, <2>3
<1> QED
  BY <1>1, <1>6, <1>7, <1>8

-----------------------------------------------------------------------------
(* The first of a set of blocks or slots is one of them. *)
LEMMA FirstIn ==
  ASSUME NEW S \in SUBSET Nat
  PROVE  (First(S) = None /\ S = {}) \/ (First(S) \in S /\ \A m \in S : First(S) <= m)
<1>1. CASE S = {}
  BY <1>1 DEF First
<1>2. CASE S # {}
  <2>1. \E n \in S : \A m \in S : n <= m
    BY <1>2, LeastOf
  <2>2. Min(S) \in S /\ \A m \in S : Min(S) <= m
    BY <2>1, Zenon DEF Min
  <2> QED
    BY <1>2, <2>2 DEF First
<1> QED
  BY <1>1, <1>2

(* The states that commands are computed on, and the states of the loops. *)
DiskType  == [Blocks -> BlockType]
StateType == [fat : FatType, disk : DiskType, root : DirType, cwd : CwdType]
FreeState  == [fat : FatType, blk : Blocks \cup {FAT_EOF}]
ReadState  == [blk : Blocks \cup {FAT_EOF}, left : Nat, text : Text]
WriteState == [ok : BOOLEAN, s : StateType]
WalkState  == [ok : BOOLEAN, blk : Blocks, info : EntryType, dir : DirType, pos : Nat]
UpState    == [blk : Blocks, parent : Blocks, names : Seq(Words)]

(* What the loops start with. *)
first_write(s, start, data) == [s EXCEPT !.fat[start] = FAT_EOF, !.disk[start] = InText(Piece(data, 0))]
walk_from(s, path) ==
  IF path.abs THEN [ok |-> TRUE, blk |-> ROOT_BLOCK, info |-> s.root[0], dir |-> s.root, pos |-> 0]
  ELSE [ok |-> TRUE, blk |-> s.cwd.blk, info |-> s.cwd.info, dir |-> s.cwd.entries, pos |-> 0]
pwd_from(s) == [blk |-> s.cwd.blk, parent |-> s.cwd.entries[0].first_blk, names |-> <<>>]

(* The numbers that the blocks and the slots are. *)
LEMMA Numbers ==
  /\ NoBlocks \in Nat /\ BlockSize \in Nat /\ BlockSize > 0 /\ DirSize \in Nat /\ MaxSize \in Nat
  /\ ROOT_BLOCK \in Blocks /\ FAT_BLOCK \in Blocks /\ FAT_FREE \in Blocks /\ FAT_EOF \notin Blocks
  /\ 0 \in Slots /\ Blocks \subseteq Nat /\ Slots \subseteq Nat /\ None \notin Blocks /\ None \notin Slots
BY SizesAssumption DEF ROOT_BLOCK, FAT_BLOCK, FAT_FREE, FAT_EOF, None, Blocks, Slots

(* What is left of a size in its last block. *)
LEMMA Remainder == ASSUME NEW n \in Nat PROVE n % BlockSize \in Nat
BY Numbers

(* A name is a string, and an entry's zeros are an entry. *)
LEMMA WordsAreText == NoName \in Words /\ Parent \in Words /\ \A w \in Words : w \in STRING
BY NamesAssumption DEF Words

(* An entry and a directory of zeros, and an empty table, have their types. *)
LEMMA ZeroTypes == ZeroEntry \in EntryType /\ ZeroDir \in DirType /\ ZeroFat \in FatType
<1>1. ZeroEntry \in EntryType
  BY Numbers, WordsAreText DEF ZeroEntry, Entry, EntryType, FAT_FREE
<1> QED
  BY <1>1, Numbers DEF ZeroDir, ZeroFat, DirType, FatType

(* What a block is read as has the type it is read with. *)
LEMMA ReadingTypes ==
  ASSUME NEW blk \in BlockType
  PROVE  AsDir(blk) \in DirType /\ AsFat(blk) \in FatType /\ AsText(blk) \in Text
<1>1. AsDir(blk) \in DirType
  BY ZeroTypes DEF AsDir, BlockType
<1>2. AsFat(blk) \in FatType
  BY ZeroTypes DEF AsFat, BlockType
<1>3. AsText(blk) \in Text
  <2>1. CASE blk.kind = "text"
    BY <2>1 DEF AsText, BlockType, Text
  <2>2. CASE blk.kind = "dir"
    <3>1. blk.entries[0].name \in STRING
      BY <2>2, Numbers, WordsAreText DEF BlockType, DirType, EntryType
    <3>2. AsText(blk) = IF blk.entries[0].name = NoName THEN <<>> ELSE <<blk.entries[0].name>>
      BY <2>2 DEF AsText
    <3>3. <<blk.entries[0].name>> \in Seq(STRING) /\ <<>> \in Seq(STRING)
      BY <3>1
    <3> QED
      BY <3>2, <3>3 DEF Text
  <2>3. CASE blk.kind = "fat"
    BY <2>3 DEF AsText, Text
  <2> QED
    BY <2>1, <2>2, <2>3 DEF BlockType
<1> QED
  BY <1>1, <1>2, <1>3

(* What is written to a block is a block's contents. *)
LEMMA WritingTypes ==
  /\ \A e \in DirType : InDir(e) \in BlockType
  /\ \A f \in FatType : InFat(f) \in BlockType
  /\ \A t \in Text : Len(t) <= BlockSize => InText(t) \in BlockType
BY DEF InDir, InFat, InText, BlockType

(* A turn of the loop of rm keeps its type. *)
LEMMA FreeOneType == ASSUME NEW r \in FreeState PROVE free_one(r) \in FreeState
BY Numbers DEF free_one, FreeState, FatType

(* The next block of a chain is a block. *)
LEMMA BlockAfterType == ASSUME NEW f \in FatType, NEW b \in Blocks PROVE block_after(f, b) \in Blocks
BY DEF block_after, FatType

(* The lesser of two numbers. *)
LEMMA LesserIs ==
  ASSUME NEW a \in Int, NEW b \in Int
  PROVE  Min({a, b}) = IF a <= b THEN a ELSE b
<1>1. \A x \in {a, b} : (\A y \in {a, b} : x <= y) => x = IF a <= b THEN a ELSE b
  OBVIOUS
<1>2. \E x \in {a, b} : \A y \in {a, b} : x <= y
  OBVIOUS
<1>3. Min({a, b}) \in {a, b} /\ \A y \in {a, b} : Min({a, b}) <= y
  BY <1>2, Zenon DEF Min
<1> QED
  BY <1>1, <1>3

(* The pieces of a text that the loop of write_data writes begin within it *)
(* and fit into a block.                                                   *)
LEMMA PiecesCounted ==
  ASSUME NEW data \in Text
  PROVE  Len(data) \div BlockSize \in Nat /\ \A k \in 0 .. Len(data) \div BlockSize : k * BlockSize \in 0 .. Len(data)
<1>1. Len(data) \in Nat /\ BlockSize \in Nat /\ BlockSize > 0
  BY Numbers DEF Text
<1>2. PICK l \in Nat : l = Len(data)
  BY <1>1
<1>3. PICK B \in Nat : B = BlockSize /\ B > 0
  BY <1>1
<1>4. l \div B \in Nat /\ (l \div B) * B <= l
  BY <1>2, <1>3
<1>5. \A k, q \in Nat : k <= q => k * B <= q * B /\ 0 <= k * B /\ k * B \in Int /\ q * B \in Int
  BY <1>3
<1>6. PICK q \in Nat : q = l \div B
  BY <1>4
<1>7. ASSUME NEW k \in 0 .. q PROVE k * B \in 0 .. l
  <2>1. k \in Nat /\ k <= q
    OBVIOUS
  <2>2. k * B <= q * B /\ 0 <= k * B /\ k * B \in Int /\ q * B \in Int /\ q * B <= l
    BY <1>4, <1>5, <1>6, <2>1
  <2>3. PICK x \in Int : x = k * B
    BY <2>2
  <2>4. PICK y \in Int : y = q * B
    BY <2>2
  <2> QED
    BY <2>2, <2>3, <2>4
<1> QED
  BY <1>2, <1>3, <1>6, <1>7

(* A piece of a text is a text that fits into a block. *)
LEMMA PieceType ==
  ASSUME NEW data \in Text, NEW k \in 0 .. Len(data) \div BlockSize
  PROVE  Piece(data, k) \in Text /\ Len(Piece(data, k)) <= BlockSize
<1> DEFINE m == k * BlockSize
           e == Min({(k + 1) * BlockSize, Len(data)})
<1>1. m \in 0 .. Len(data) /\ Len(data) \in Nat /\ k \in Nat
  BY PiecesCounted DEF Text
<1>2. (k + 1) * BlockSize = m + BlockSize
  BY <1>1, Numbers
<1>3. e \in m .. Len(data) /\ e - m <= BlockSize
  <2>1. (k + 1) * BlockSize \in Int
    BY <1>1, <1>2, Numbers
  <2>2. e = IF (k + 1) * BlockSize <= Len(data) THEN (k + 1) * BlockSize ELSE Len(data)
    BY <1>1, <2>1, LesserIs
  <2> HIDE DEF m, e
  <2> QED
    BY <1>1, <1>2, <2>2, Numbers
<1>4. Piece(data, k) = SubSeq(data, m + 1, e)
  BY DEF Piece
<1> HIDE DEF m, e
<1>5. m + 1 \in 1 .. Len(data) + 1 /\ e \in (m + 1) - 1 .. Len(data) /\ e - (m + 1) + 1 = e - m
  BY <1>1, <1>3
<1>6. SubSeq(data, m + 1, e) \in Seq(STRING) /\ Len(SubSeq(data, m + 1, e)) = e - (m + 1) + 1
  BY <1>5, SubSeqProperties DEF Text
<1> QED
  BY <1>3, <1>4, <1>5, <1>6 DEF Text

(* The first free block is a block whose entry in the table is free. *)
LEMMA EmptyBlockIs ==
  ASSUME NEW f \in FatType
  PROVE  LET b == find_empty_block(f) IN
         (b = None /\ \A x \in Blocks : f[x] # FAT_FREE) \/ (b \in Blocks /\ f[b] = FAT_FREE)
<1> DEFINE S == {b \in Blocks : f[b] = FAT_FREE}
<1>1. S \in SUBSET Nat /\ find_empty_block(f) = First(S)
  BY Numbers DEF find_empty_block
<1>2. \A x \in S : x \in Blocks /\ f[x] = FAT_FREE
  OBVIOUS
<1>3. S = {} => \A x \in Blocks : f[x] # FAT_FREE
  OBVIOUS
<1> HIDE DEF S
<1> QED
  BY <1>1, <1>2, <1>3, FirstIn

(* What write_data does before its loop. *)
LEMMA FirstWriteType ==
  ASSUME NEW s \in StateType, NEW start \in Blocks, NEW data \in Text
  PROVE  first_write(s, start, data) \in StateType
<1>1. 0 \in 0 .. Len(data) \div BlockSize
  BY PiecesCounted
<1>2. InText(Piece(data, 0)) \in BlockType
  BY <1>1, PieceType, WritingTypes
<1> QED
  BY <1>2 DEF first_write, StateType, DiskType, FatType

(* A turn of the loop of write_data, which may also give up. *)
LEMMA WriteMoreType ==
  ASSUME NEW start \in Blocks, NEW data \in Text, NEW w \in WriteState, NEW k \in 1 .. Len(data) \div BlockSize
  PROVE  write_more(start, data, w, k) \in WriteState
<1> DEFINE b == find_empty_block(w.s.fat)
<1>1. w.ok \in BOOLEAN /\ w.s \in StateType /\ w.s.fat \in FatType
  BY DEF WriteState, StateType
<1>2. CASE ~w.ok \/ b = None
  BY <1>1, <1>2 DEF write_more, WriteState
<1>3. CASE w.ok /\ b # None
  <2>1. b \in Blocks
    BY <1>1, <1>3, EmptyBlockIs
  <2>2. InText(Piece(data, k)) \in BlockType
    <3>1. k \in 0 .. Len(data) \div BlockSize
      BY PiecesCounted
    <3> QED
      BY <3>1, PieceType, WritingTypes
  <2>3. write_more(start, data, w, k) =
        [w EXCEPT !.s.fat = [@ EXCEPT ![start] = b, ![b] = FAT_EOF], !.s.disk[b] = InText(Piece(data, k))]
    BY <1>3 DEF write_more
  <2> DEFINE f == [w.s.fat EXCEPT ![start] = b, ![b] = FAT_EOF]
             d == [w.s.disk EXCEPT ![b] = InText(Piece(data, k))]
  <2>4. f \in FatType
    BY <1>1, <2>1 DEF FatType
  <2>5. d \in DiskType
    BY <1>1, <2>2 DEF StateType, DiskType
  <2>6. write_more(start, data, w, k) = [w EXCEPT !.s = [w.s EXCEPT !.fat = f, !.disk = d]]
    BY <1>1, <2>3 DEF WriteState, StateType
  <2> HIDE DEF f, d
  <2> QED
    BY <1>1, <2>4, <2>5, <2>6, ZenonT(40) DEF WriteState, StateType
<1> QED
  BY <1>1, <1>2, <1>3

(* A turn of the loop of read_data. *)
LEMMA ReadMoreType ==
  ASSUME NEW s \in StateType, NEW r \in ReadState
  PROVE  read_more(s, r) \in ReadState
<1> DEFINE t == AsText(s.disk[r.blk])
           n == Min({BlockSize, r.left})
<1>1. r.blk \in Blocks \cup {FAT_EOF} /\ r.left \in Nat /\ r.text \in Text
  BY DEF ReadState
<1>2. CASE r.blk = FAT_EOF \/ n = 0
  BY <1>2 DEF read_more
<1>3. CASE r.blk \in Blocks /\ n # 0
  <2>1. s.disk[r.blk] \in BlockType /\ s.fat[r.blk] \in Blocks \cup {FAT_EOF}
    BY <1>3 DEF StateType, DiskType, FatType
  <2>2. t \in Text /\ Len(t) \in Nat
    BY <2>1, ReadingTypes DEF Text
  <2>3. n \in 1 .. r.left
    <3>1. n = IF BlockSize <= r.left THEN BlockSize ELSE r.left
      BY <1>1, Numbers, LesserIs
    <3> QED
      BY <1>1, <1>3, <3>1, Numbers
  <2>4. Min({n, Len(t)}) \in 0 .. Len(t)
    <3>1. Min({n, Len(t)}) = IF n <= Len(t) THEN n ELSE Len(t)
      <4> HIDE DEF t, n
      <4>1. n \in Int /\ Len(t) \in Int
        BY <1>1, <2>2, <2>3
      <4> QED
        BY <4>1, LesserIs
    <3> QED
      BY <2>2, <2>3, <3>1
  <2>5. SubSeq(t, 1, Min({n, Len(t)})) \in Text
    <3>1. PICK e \in 0 .. Len(t) : e = Min({n, Len(t)})
      BY <2>4
    <3>2. SubSeq(t, 1, e) \in Text
      <4>1. e \in 1 - 1 .. Len(t) /\ 1 \in 1 .. Len(t) + 1 /\ t \in Seq(STRING)
        BY <2>2 DEF Text
      <4> QED
        BY <4>1, SubSeqProperties DEF Text
    <3> QED
      BY <3>1, <3>2
  <2>6. r.text \o SubSeq(t, 1, Min({n, Len(t)})) \in Text
    <3> HIDE DEF t, n
    <3> QED
      BY <1>1, <2>5, ConcatProperties DEF Text
  <2>7. read_more(s, r) =
        [blk  |-> IF Len(t) < n THEN FAT_EOF ELSE s.fat[r.blk],
         left |-> r.left - n,
         text |-> r.text \o SubSeq(t, 1, Min({n, Len(t)}))]
    BY <1>3, Numbers DEF read_more
  <2>8. r.left - n \in Nat
    BY <1>1, <2>3
  <2> HIDE DEF t, n
  <2> QED
    BY <2>1, <2>6, <2>7, <2>8 DEF ReadState
<1> QED
  BY <1>1, <1>2, <1>3

(* Every component of a path has a length. *)
LEMMA CompLenType == \A c \in Words : CompLen(c) \in Nat
BY NamesAssumption DEF CompLen, Words

(* A walk begins in the root or in the working directory. *)
LEMMA WalkFromType ==
  ASSUME NEW s \in StateType, NEW path \in PathType
  PROVE  walk_from(s, path) \in WalkState
BY Numbers DEF walk_from, StateType, WalkState, DirType, CwdType

(* A turn of the loop of change_cwd leads to a directory or nowhere. *)
LEMMA WalkIntoType ==
  ASSUME NEW s \in StateType, NEW path \in PathType, NEW E \in {{}, {0}},
         NEW w \in WalkState, NEW i \in 1 .. Len(path.comps)
  PROVE  walk_into(s, path.comps, E, w, i) \in WalkState
<1> DEFINE c == path.comps[i]
           found == IF c = NoName THEN E ELSE {j \in Slots : w.dir[j].name = c /\ w.dir[j].type = TYPE_DIR}
           e == w.dir[First(found)]
           missed == i < Len(path.comps) /\ CompLen(c) < w.pos
           into == [ok |-> TRUE, blk |-> e.first_blk, info |-> e, dir |-> AsDir(s.disk[e.first_blk]), pos |-> CompLen(c)]
<1>1. c \in Words /\ CompLen(c) \in Nat
  BY CompLenType DEF PathType
<1>2. found \in SUBSET Slots
  BY Numbers
<1>3. ASSUME found # {} PROVE into \in WalkState
  <2>1. First(found) \in found
    <3> HIDE DEF found
    <3> QED
      BY <1>2, <1>3, FirstIn, Numbers
  <2>2. e \in EntryType
    <3> HIDE DEF found
    <3> QED
      BY <1>2, <2>1 DEF WalkState, DirType
  <2>3. e.first_blk \in Blocks
    BY <2>2 DEF EntryType
  <2>4. AsDir(s.disk[e.first_blk]) \in DirType
    <3>1. s.disk[e.first_blk] \in BlockType
      <4> HIDE DEF e
      <4> QED
        BY <2>3 DEF StateType, DiskType
    <3> QED
      BY <3>1, ReadingTypes, Zenon
  <2> HIDE DEF e
  <2> QED
    BY <1>1, <2>2, <2>3, <2>4 DEF WalkState
<1>4. walk_into(s, path.comps, E, w, i) =
        IF ~w.ok \/ missed \/ (c # NoName /\ found = {}) THEN [w EXCEPT !.ok = FALSE]
        ELSE IF found = {} THEN [w EXCEPT !.pos = CompLen(c)] ELSE into
  BY DEF walk_into
<1>5. [w EXCEPT !.ok = FALSE] \in WalkState /\ [w EXCEPT !.pos = CompLen(c)] \in WalkState
  BY <1>1 DEF WalkState
<1> HIDE DEF found, into, missed, c
<1> QED
  BY <1>3, <1>4, <1>5

(* get_pwd_string begins at the working directory. *)
LEMMA PwdFromType == ASSUME NEW s \in StateType PROVE pwd_from(s) \in UpState
<1>1. s.cwd.entries[0].first_blk \in Blocks /\ s.cwd.blk \in Blocks
  BY Numbers DEF StateType, CwdType, DirType, EntryType
<1>2. <<>> \in Seq(Words)
  OBVIOUS
<1> QED
  BY <1>1, <1>2 DEF pwd_from, UpState

(* A turn of its loop goes to the parent and names the directory it left. *)
LEMMA PwdUpType == ASSUME NEW s \in StateType, NEW r \in UpState PROVE pwd_up(s, r) \in UpState
<1> DEFINE up == AsDir(s.disk[r.parent])
           found == {j \in Slots : up[j].first_blk = r.blk}
           i == First(found)
<1>1. r.blk \in Blocks /\ r.parent \in Blocks /\ r.names \in Seq(Words)
  BY DEF UpState
<1>2. up \in DirType
  <2>1. s.disk[r.parent] \in BlockType
    BY <1>1 DEF StateType, DiskType
  <2> QED
    BY <2>1, ReadingTypes
<1>3. up[0].first_blk \in Blocks
  <2> HIDE DEF up
  <2> QED
    BY <1>2, Numbers DEF DirType, EntryType
<1>4. i = None \/ i \in Slots
  <2>1. found \in SUBSET Nat /\ found \subseteq Slots
    BY Numbers
  <2> HIDE DEF found
  <2> QED
    BY <2>1, FirstIn
<1>5. (IF i = None THEN r.names ELSE <<up[i].name>> \o r.names) \in Seq(Words)
  <2> HIDE DEF i, up
  <2>1. CASE i = None
    BY <1>1, <2>1
  <2>2. CASE i \in Slots
    <3>1. up[i].name \in Words
      BY <1>2, <2>2 DEF DirType, EntryType
    <3>2. <<up[i].name>> \in Seq(Words)
      BY <3>1
    <3>3. <<up[i].name>> \o r.names \in Seq(Words)
      BY <1>1, <3>2, ConcatProperties
    <3> QED
      BY <1>1, <3>3
  <2> QED
    BY <1>4, <2>1, <2>2
<1>6. pwd_up(s, r) = IF r.blk = ROOT_BLOCK THEN r
                     ELSE [blk |-> r.parent, parent |-> up[0].first_blk,
                           names |-> IF i = None THEN r.names ELSE <<up[i].name>> \o r.names]
  BY DEF pwd_up
<1> HIDE DEF i, up
<1> QED
  BY <1>1, <1>3, <1>5, <1>6 DEF UpState

(* The course of the loop of rm. *)
LEMMA FreeRuns ==
  ASSUME NEW f \in FatType, NEW start \in Blocks \cup {FAT_EOF}
  PROVE  \E a \in [0 .. NoBlocks -> FreeState] :
           /\ a[0] = [fat |-> f, blk |-> start]
           /\ \A k \in 1 .. NoBlocks : a[k] = free_one(a[k - 1])
           /\ free_chain(f, start) = a[NoBlocks]
<1> DEFINE x == [fat |-> f, blk |-> start]
           N == NoBlocks
           g == [k \in 1 .. N |-> [r \in FreeState |-> free_one(r)]]
           at[k \in 0 .. NoBlocks] == IF k = 0 THEN {x} ELSE {free_one(y) : y \in at[k - 1]}
<1>1. x \in FreeState /\ N \in Nat
  BY SizesAssumption DEF FreeState
<1>2. ASSUME NEW r \in FreeState PROVE free_one(r) \in FreeState
  BY FreeOneType
<1>3. g \in [1 .. N -> [FreeState -> FreeState]]
  BY <1>2
<1>4. free_chain(f, start) = CHOOSE y \in at[N] : TRUE
  BY DEF free_chain, Turn
<1>5. PICK a : Course(N, FreeState, x, g, a)
  <2> HIDE DEF x, g, N
  <2> QED
    BY <1>1, <1>3, LoopRuns, Zenon
<1>6. a \in [0 .. N -> FreeState] /\ a[0] = x
  BY <1>5 DEF Course
<1>7. ASSUME NEW k \in 1 .. N PROVE /\ k \in 0 .. N /\ k - 1 \in 0 .. N /\ k # 0
                                     /\ a[k] = free_one(a[k - 1])
  <2>1. k \in 0 .. N /\ k - 1 \in 0 .. N /\ k # 0
    <3> HIDE DEF N
    <3> QED
      BY <1>1
  <2>2. a[k - 1] \in FreeState
    BY <1>6, <2>1
  <2>3. a[k] = g[k][a[k - 1]]
    BY <1>5 DEF Course
  <2> QED
    BY <2>1, <2>2, <2>3
<1> DEFINE b == [k \in 0 .. N |-> {a[k]}]
<1>8. b = [k \in 0 .. N |-> IF k = 0 THEN {x} ELSE {free_one(y) : y \in b[k - 1]}]
  <2> HIDE DEF x, g, N
  <2> SUFFICES ASSUME NEW k \in 0 .. N
               PROVE  {a[k]} = IF k = 0 THEN {x} ELSE {free_one(y) : y \in b[k - 1]}
    OBVIOUS
  <2>1. CASE k = 0
    BY <1>6, <2>1
  <2>2. CASE k # 0
    <3>1. k \in 1 .. N
      BY <1>1, <2>2
    <3>2. b[k - 1] = {a[k - 1]}
      BY <1>7, <3>1
    <3> HIDE DEF b
    <3> QED
      BY <1>7, <2>2, <3>1, <3>2
  <2> QED
    BY <2>1, <2>2
<1>9. at = [k \in 0 .. N |-> IF k = 0 THEN {x} ELSE {free_one(y) : y \in at[k - 1]}]
  <2> HIDE DEF b, x
  <2> QED
    BY <1>8 DEF at
<1> HIDE DEF at, x, g, N
<1> DEFINE K == {k \in 0 .. N : at[k] = {a[k]}}
<1>10. \A k \in 0 .. N : k \in K
  <2>1. 0 \in K
    BY <1>1, <1>6, <1>9
  <2>2. ASSUME NEW k \in 1 .. N, k - 1 \in K PROVE k \in K
    <3>1. at[k] = {free_one(y) : y \in at[k - 1]}
      BY <1>7, <1>9
    <3>2. at[k - 1] = {a[k - 1]}
      BY <2>2
    <3> QED
      BY <1>7, <3>1, <3>2
  <2> HIDE DEF K
  <2> QED
    BY <1>1, <2>1, <2>2, EveryTurn
<1>11. at[N] = {a[N]}
  BY <1>1, <1>10
<1> QED
  BY <1>4, <1>6, <1>7, <1>11 DEF x, N

(* The course of the loop of append that looks for the last block. *)
LEMMA LastRuns ==
  ASSUME NEW f \in FatType, NEW start \in Blocks
  PROVE  \E a \in [0 .. NoBlocks -> Blocks] :
           /\ a[0] = start
           /\ \A k \in 1 .. NoBlocks : a[k] = block_after(f, a[k - 1])
           /\ last_block(f, start) = a[NoBlocks]
<1> DEFINE x == start
           N == NoBlocks
           g == [k \in 1 .. N |-> [r \in Blocks |-> block_after(f, r)]]
           at[k \in 0 .. NoBlocks] == IF k = 0 THEN {x} ELSE {block_after(f, y) : y \in at[k - 1]}
<1>1. x \in Blocks /\ N \in Nat
  BY SizesAssumption
<1>2. ASSUME NEW r \in Blocks PROVE block_after(f, r) \in Blocks
  BY BlockAfterType
<1>3. g \in [1 .. N -> [Blocks -> Blocks]]
  BY <1>2
<1>4. last_block(f, start) = CHOOSE y \in at[N] : TRUE
  BY DEF last_block, Turn
<1>5. PICK a : Course(N, Blocks, x, g, a)
  <2> HIDE DEF x, g, N
  <2> QED
    BY <1>1, <1>3, LoopRuns, Zenon
<1>6. a \in [0 .. N -> Blocks] /\ a[0] = x
  BY <1>5 DEF Course
<1>7. ASSUME NEW k \in 1 .. N PROVE /\ k \in 0 .. N /\ k - 1 \in 0 .. N /\ k # 0
                                     /\ a[k] = block_after(f, a[k - 1])
  <2>1. k \in 0 .. N /\ k - 1 \in 0 .. N /\ k # 0
    <3> HIDE DEF N
    <3> QED
      BY <1>1
  <2>2. a[k - 1] \in Blocks
    BY <1>6, <2>1
  <2>3. a[k] = g[k][a[k - 1]]
    BY <1>5 DEF Course
  <2> QED
    BY <2>1, <2>2, <2>3
<1> DEFINE b == [k \in 0 .. N |-> {a[k]}]
<1>8. b = [k \in 0 .. N |-> IF k = 0 THEN {x} ELSE {block_after(f, y) : y \in b[k - 1]}]
  <2> HIDE DEF x, g, N
  <2> SUFFICES ASSUME NEW k \in 0 .. N
               PROVE  {a[k]} = IF k = 0 THEN {x} ELSE {block_after(f, y) : y \in b[k - 1]}
    OBVIOUS
  <2>1. CASE k = 0
    BY <1>6, <2>1
  <2>2. CASE k # 0
    <3>1. k \in 1 .. N
      BY <1>1, <2>2
    <3>2. b[k - 1] = {a[k - 1]}
      BY <1>7, <3>1
    <3> HIDE DEF b
    <3> QED
      BY <1>7, <2>2, <3>1, <3>2
  <2> QED
    BY <2>1, <2>2
<1>9. at = [k \in 0 .. N |-> IF k = 0 THEN {x} ELSE {block_after(f, y) : y \in at[k - 1]}]
  <2> HIDE DEF b, x
  <2> QED
    BY <1>8 DEF at
<1> HIDE DEF at, x, g, N
<1> DEFINE K == {k \in 0 .. N : at[k] = {a[k]}}
<1>10. \A k \in 0 .. N : k \in K
  <2>1. 0 \in K
    BY <1>1, <1>6, <1>9
  <2>2. ASSUME NEW k \in 1 .. N, k - 1 \in K PROVE k \in K
    <3>1. at[k] = {block_after(f, y) : y \in at[k - 1]}
      BY <1>7, <1>9
    <3>2. at[k - 1] = {a[k - 1]}
      BY <2>2
    <3> QED
      BY <1>7, <3>1, <3>2
  <2> HIDE DEF K
  <2> QED
    BY <1>1, <2>1, <2>2, EveryTurn
<1>11. at[N] = {a[N]}
  BY <1>1, <1>10
<1> QED
  BY <1>4, <1>6, <1>7, <1>11 DEF x, N

(* The course of the loop of read_data. *)
LEMMA ReadRuns ==
  ASSUME NEW s \in StateType, NEW start \in Blocks \cup {FAT_EOF}, NEW size \in Nat
  PROVE  \E a \in [0 .. NoBlocks -> ReadState] :
           /\ a[0] = [blk |-> start, left |-> size, text |-> <<>>]
           /\ \A k \in 1 .. NoBlocks : a[k] = read_more(s, a[k - 1])
           /\ read_chain(s, start, size) = a[NoBlocks]
<1> DEFINE x == [blk |-> start, left |-> size, text |-> <<>>]
           N == NoBlocks
           g == [k \in 1 .. N |-> [r \in ReadState |-> read_more(s, r)]]
           at[k \in 0 .. NoBlocks] == IF k = 0 THEN {x} ELSE {read_more(s, y) : y \in at[k - 1]}
<1>1. x \in ReadState /\ N \in Nat
  BY SizesAssumption DEF ReadState, Text
<1>2. ASSUME NEW r \in ReadState PROVE read_more(s, r) \in ReadState
  BY ReadMoreType
<1>3. g \in [1 .. N -> [ReadState -> ReadState]]
  BY <1>2
<1>4. read_chain(s, start, size) = (CHOOSE y \in at[N] : TRUE)
  BY DEF read_chain, Turn
<1>5. PICK a : Course(N, ReadState, x, g, a)
  <2> HIDE DEF x, g, N
  <2> QED
    BY <1>1, <1>3, LoopRuns, Zenon
<1>6. a \in [0 .. N -> ReadState] /\ a[0] = x
  BY <1>5 DEF Course
<1>7. ASSUME NEW k \in 1 .. N PROVE /\ k \in 0 .. N /\ k - 1 \in 0 .. N /\ k # 0
                                     /\ a[k] = read_more(s, a[k - 1])
  <2>1. k \in 0 .. N /\ k - 1 \in 0 .. N /\ k # 0
    <3> HIDE DEF N
    <3> QED
      BY <1>1
  <2>2. a[k - 1] \in ReadState
    BY <1>6, <2>1
  <2>3. a[k] = g[k][a[k - 1]]
    BY <1>5 DEF Course
  <2> QED
    BY <2>1, <2>2, <2>3
<1> DEFINE b == [k \in 0 .. N |-> {a[k]}]
<1>8. b = [k \in 0 .. N |-> IF k = 0 THEN {x} ELSE {read_more(s, y) : y \in b[k - 1]}]
  <2> HIDE DEF x, g, N
  <2> SUFFICES ASSUME NEW k \in 0 .. N
               PROVE  {a[k]} = IF k = 0 THEN {x} ELSE {read_more(s, y) : y \in b[k - 1]}
    OBVIOUS
  <2>1. CASE k = 0
    BY <1>6, <2>1
  <2>2. CASE k # 0
    <3>1. k \in 1 .. N
      BY <1>1, <2>2
    <3>2. b[k - 1] = {a[k - 1]}
      BY <1>7, <3>1
    <3> HIDE DEF b
    <3> QED
      BY <1>7, <2>2, <3>1, <3>2
  <2> QED
    BY <2>1, <2>2
<1>9. at = [k \in 0 .. N |-> IF k = 0 THEN {x} ELSE {read_more(s, y) : y \in at[k - 1]}]
  <2> HIDE DEF b, x
  <2> QED
    BY <1>8 DEF at
<1> HIDE DEF at, x, g, N
<1> DEFINE K == {k \in 0 .. N : at[k] = {a[k]}}
<1>10. \A k \in 0 .. N : k \in K
  <2>1. 0 \in K
    BY <1>1, <1>6, <1>9
  <2>2. ASSUME NEW k \in 1 .. N, k - 1 \in K PROVE k \in K
    <3>1. at[k] = {read_more(s, y) : y \in at[k - 1]}
      BY <1>7, <1>9
    <3>2. at[k - 1] = {a[k - 1]}
      BY <2>2
    <3> QED
      BY <1>7, <3>1, <3>2
  <2> HIDE DEF K
  <2> QED
    BY <1>1, <2>1, <2>2, EveryTurn
<1>11. at[N] = {a[N]}
  BY <1>1, <1>10
<1> QED
  BY <1>4, <1>6, <1>7, <1>11 DEF x, N

(* The course of the loop of write_data. *)
LEMMA WriteRuns ==
  ASSUME NEW s \in StateType, NEW start \in Blocks, NEW data \in Text
  PROVE  \E a \in [0 .. Len(data) \div BlockSize -> WriteState] :
           /\ a[0] = [ok |-> TRUE, s |-> first_write(s, start, data)]
           /\ \A k \in 1 .. Len(data) \div BlockSize : a[k] = write_more(start, data, a[k - 1], k)
           /\ write_data(s, start, data) = a[Len(data) \div BlockSize]
<1> DEFINE x == [ok |-> TRUE, s |-> first_write(s, start, data)]
           N == Len(data) \div BlockSize
           g == [k \in 1 .. N |-> [r \in WriteState |-> write_more(start, data, r, k)]]
           at[k \in 0 .. Len(data) \div BlockSize] == IF k = 0 THEN {x} ELSE {write_more(start, data, y, k) : y \in at[k - 1]}
<1>1. x \in WriteState /\ N \in Nat
  BY FirstWriteType, PiecesCounted DEF WriteState
<1>2. ASSUME NEW r \in WriteState, NEW k \in 1 .. N PROVE write_more(start, data, r, k) \in WriteState
  BY <1>1, WriteMoreType
<1>3. g \in [1 .. N -> [WriteState -> WriteState]]
  BY <1>2
<1>4. write_data(s, start, data) = CHOOSE y \in at[N] : TRUE
  BY DEF write_data, Each, first_write
<1>5. PICK a : Course(N, WriteState, x, g, a)
  <2> HIDE DEF x, g, N
  <2> QED
    BY <1>1, <1>3, LoopRuns, Zenon
<1>6. a \in [0 .. N -> WriteState] /\ a[0] = x
  BY <1>5 DEF Course
<1>7. ASSUME NEW k \in 1 .. N PROVE /\ k \in 0 .. N /\ k - 1 \in 0 .. N /\ k # 0
                                     /\ a[k] = write_more(start, data, a[k - 1], k)
  <2>1. k \in 0 .. N /\ k - 1 \in 0 .. N /\ k # 0
    <3> HIDE DEF N
    <3> QED
      BY <1>1
  <2>2. a[k - 1] \in WriteState
    BY <1>6, <2>1
  <2>3. a[k] = g[k][a[k - 1]]
    BY <1>5 DEF Course
  <2> QED
    BY <2>1, <2>2, <2>3
<1> DEFINE b == [k \in 0 .. N |-> {a[k]}]
<1>8. b = [k \in 0 .. N |-> IF k = 0 THEN {x} ELSE {write_more(start, data, y, k) : y \in b[k - 1]}]
  <2> HIDE DEF x, g, N
  <2> SUFFICES ASSUME NEW k \in 0 .. N
               PROVE  {a[k]} = IF k = 0 THEN {x} ELSE {write_more(start, data, y, k) : y \in b[k - 1]}
    OBVIOUS
  <2>1. CASE k = 0
    BY <1>6, <2>1
  <2>2. CASE k # 0
    <3>1. k \in 1 .. N
      BY <1>1, <2>2
    <3>2. b[k - 1] = {a[k - 1]}
      BY <1>7, <3>1
    <3> HIDE DEF b
    <3> QED
      BY <1>7, <2>2, <3>1, <3>2
  <2> QED
    BY <2>1, <2>2
<1>9. at = [k \in 0 .. N |-> IF k = 0 THEN {x} ELSE {write_more(start, data, y, k) : y \in at[k - 1]}]
  <2> HIDE DEF b, x
  <2> QED
    BY <1>8 DEF at
<1> HIDE DEF at, x, g, N
<1> DEFINE K == {k \in 0 .. N : at[k] = {a[k]}}
<1>10. \A k \in 0 .. N : k \in K
  <2>1. 0 \in K
    BY <1>1, <1>6, <1>9
  <2>2. ASSUME NEW k \in 1 .. N, k - 1 \in K PROVE k \in K
    <3>1. at[k] = {write_more(start, data, y, k) : y \in at[k - 1]}
      BY <1>7, <1>9
    <3>2. at[k - 1] = {a[k - 1]}
      BY <2>2
    <3> QED
      BY <1>7, <3>1, <3>2
  <2> HIDE DEF K
  <2> QED
    BY <1>1, <2>1, <2>2, EveryTurn
<1>11. at[N] = {a[N]}
  BY <1>1, <1>10
<1> QED
  BY <1>4, <1>6, <1>7, <1>11 DEF x, N

(* The course of the walk along a path. *)
LEMMA WalkRuns ==
  ASSUME NEW s \in StateType, NEW path \in PathType, NEW E \in {{}, {0}}
  PROVE  \E a \in [0 .. Len(path.comps) -> WalkState] :
           /\ a[0] = walk_from(s, path)
           /\ \A k \in 1 .. Len(path.comps) : a[k] = walk_into(s, path.comps, E, a[k - 1], k)
           /\ Walk(s, path, E) = a[Len(path.comps)]
<1> DEFINE x == walk_from(s, path)
           N == Len(path.comps)
           g == [k \in 1 .. N |-> [r \in WalkState |-> walk_into(s, path.comps, E, r, k)]]
           at[k \in 0 .. Len(path.comps)] == IF k = 0 THEN {x} ELSE {walk_into(s, path.comps, E, y, k) : y \in at[k - 1]}
<1>1. x \in WalkState /\ N \in Nat
  BY WalkFromType DEF PathType
<1>2. ASSUME NEW r \in WalkState, NEW k \in 1 .. N PROVE walk_into(s, path.comps, E, r, k) \in WalkState
  BY WalkIntoType
<1>3. g \in [1 .. N -> [WalkState -> WalkState]]
  BY <1>2
<1>4. Walk(s, path, E) = CHOOSE y \in at[N] : TRUE
  BY DEF Walk, Each, walk_from
<1>5. PICK a : Course(N, WalkState, x, g, a)
  <2> HIDE DEF x, g, N
  <2> QED
    BY <1>1, <1>3, LoopRuns, Zenon
<1>6. a \in [0 .. N -> WalkState] /\ a[0] = x
  BY <1>5 DEF Course
<1>7. ASSUME NEW k \in 1 .. N PROVE /\ k \in 0 .. N /\ k - 1 \in 0 .. N /\ k # 0
                                     /\ a[k] = walk_into(s, path.comps, E, a[k - 1], k)
  <2>1. k \in 0 .. N /\ k - 1 \in 0 .. N /\ k # 0
    <3> HIDE DEF N
    <3> QED
      BY <1>1
  <2>2. a[k - 1] \in WalkState
    BY <1>6, <2>1
  <2>3. a[k] = g[k][a[k - 1]]
    BY <1>5 DEF Course
  <2> QED
    BY <2>1, <2>2, <2>3
<1> DEFINE b == [k \in 0 .. N |-> {a[k]}]
<1>8. b = [k \in 0 .. N |-> IF k = 0 THEN {x} ELSE {walk_into(s, path.comps, E, y, k) : y \in b[k - 1]}]
  <2> HIDE DEF x, g, N
  <2> SUFFICES ASSUME NEW k \in 0 .. N
               PROVE  {a[k]} = IF k = 0 THEN {x} ELSE {walk_into(s, path.comps, E, y, k) : y \in b[k - 1]}
    OBVIOUS
  <2>1. CASE k = 0
    BY <1>6, <2>1
  <2>2. CASE k # 0
    <3>1. k \in 1 .. N
      BY <1>1, <2>2
    <3>2. b[k - 1] = {a[k - 1]}
      BY <1>7, <3>1
    <3> HIDE DEF b
    <3> QED
      BY <1>7, <2>2, <3>1, <3>2
  <2> QED
    BY <2>1, <2>2
<1>9. at = [k \in 0 .. N |-> IF k = 0 THEN {x} ELSE {walk_into(s, path.comps, E, y, k) : y \in at[k - 1]}]
  <2> HIDE DEF b, x
  <2> QED
    BY <1>8 DEF at
<1> HIDE DEF at, x, g, N
<1> DEFINE K == {k \in 0 .. N : at[k] = {a[k]}}
<1>10. \A k \in 0 .. N : k \in K
  <2>1. 0 \in K
    BY <1>1, <1>6, <1>9
  <2>2. ASSUME NEW k \in 1 .. N, k - 1 \in K PROVE k \in K
    <3>1. at[k] = {walk_into(s, path.comps, E, y, k) : y \in at[k - 1]}
      BY <1>7, <1>9
    <3>2. at[k - 1] = {a[k - 1]}
      BY <2>2
    <3> QED
      BY <1>7, <3>1, <3>2
  <2> HIDE DEF K
  <2> QED
    BY <1>1, <2>1, <2>2, EveryTurn
<1>11. at[N] = {a[N]}
  BY <1>1, <1>10
<1> QED
  BY <1>4, <1>6, <1>7, <1>11 DEF x, N

(* The course of the loop of get_pwd_string. *)
LEMMA UpRuns ==
  ASSUME NEW s \in StateType, s.cwd.blk # ROOT_BLOCK
  PROVE  \E a \in [0 .. NoBlocks -> UpState] :
           /\ a[0] = pwd_from(s)
           /\ \A k \in 1 .. NoBlocks : a[k] = pwd_up(s, a[k - 1])
           /\ pwd_comps(s) = a[NoBlocks].names
<1> DEFINE x == pwd_from(s)
           N == NoBlocks
           g == [k \in 1 .. N |-> [r \in UpState |-> pwd_up(s, r)]]
           at[k \in 0 .. NoBlocks] == IF k = 0 THEN {x} ELSE {pwd_up(s, y) : y \in at[k - 1]}
<1>1. x \in UpState /\ N \in Nat
  BY SizesAssumption, PwdFromType
<1>2. ASSUME NEW r \in UpState PROVE pwd_up(s, r) \in UpState
  BY PwdUpType
<1>3. g \in [1 .. N -> [UpState -> UpState]]
  BY <1>2
<1>4. pwd_comps(s) = (CHOOSE y \in at[N] : TRUE).names
  BY DEF pwd_comps, Turn, pwd_from
<1>5. PICK a : Course(N, UpState, x, g, a)
  <2> HIDE DEF x, g, N
  <2> QED
    BY <1>1, <1>3, LoopRuns, Zenon
<1>6. a \in [0 .. N -> UpState] /\ a[0] = x
  BY <1>5 DEF Course
<1>7. ASSUME NEW k \in 1 .. N PROVE /\ k \in 0 .. N /\ k - 1 \in 0 .. N /\ k # 0
                                     /\ a[k] = pwd_up(s, a[k - 1])
  <2>1. k \in 0 .. N /\ k - 1 \in 0 .. N /\ k # 0
    <3> HIDE DEF N
    <3> QED
      BY <1>1
  <2>2. a[k - 1] \in UpState
    BY <1>6, <2>1
  <2>3. a[k] = g[k][a[k - 1]]
    BY <1>5 DEF Course
  <2> QED
    BY <2>1, <2>2, <2>3
<1> DEFINE b == [k \in 0 .. N |-> {a[k]}]
<1>8. b = [k \in 0 .. N |-> IF k = 0 THEN {x} ELSE {pwd_up(s, y) : y \in b[k - 1]}]
  <2> HIDE DEF x, g, N
  <2> SUFFICES ASSUME NEW k \in 0 .. N
               PROVE  {a[k]} = IF k = 0 THEN {x} ELSE {pwd_up(s, y) : y \in b[k - 1]}
    OBVIOUS
  <2>1. CASE k = 0
    BY <1>6, <2>1
  <2>2. CASE k # 0
    <3>1. k \in 1 .. N
      BY <1>1, <2>2
    <3>2. b[k - 1] = {a[k - 1]}
      BY <1>7, <3>1
    <3> HIDE DEF b
    <3> QED
      BY <1>7, <2>2, <3>1, <3>2
  <2> QED
    BY <2>1, <2>2
<1>9. at = [k \in 0 .. N |-> IF k = 0 THEN {x} ELSE {pwd_up(s, y) : y \in at[k - 1]}]
  <2> HIDE DEF b, x
  <2> QED
    BY <1>8 DEF at
<1> HIDE DEF at, x, g, N
<1> DEFINE K == {k \in 0 .. N : at[k] = {a[k]}}
<1>10. \A k \in 0 .. N : k \in K
  <2>1. 0 \in K
    BY <1>1, <1>6, <1>9
  <2>2. ASSUME NEW k \in 1 .. N, k - 1 \in K PROVE k \in K
    <3>1. at[k] = {pwd_up(s, y) : y \in at[k - 1]}
      BY <1>7, <1>9
    <3>2. at[k - 1] = {a[k - 1]}
      BY <2>2
    <3> QED
      BY <1>7, <3>1, <3>2
  <2> HIDE DEF K
  <2> QED
    BY <1>1, <2>1, <2>2, EveryTurn
<1>11. at[N] = {a[N]}
  BY <1>1, <1>10
<1> QED
  BY <1>4, <1>6, <1>7, <1>11 DEF x, N

-----------------------------------------------------------------------------
(* What the loops return has its type. *)
LEMMA FreeChainType ==
  ASSUME NEW f \in FatType, NEW start \in Blocks \cup {FAT_EOF}
  PROVE  free_chain(f, start) \in FreeState
<1>1. NoBlocks \in 0 .. NoBlocks
  BY Numbers
<1>2. PICK a \in [0 .. NoBlocks -> FreeState] :
        /\ a[0] = [fat |-> f, blk |-> start]
        /\ \A k \in 1 .. NoBlocks : a[k] = free_one(a[k - 1])
        /\ free_chain(f, start) = a[NoBlocks]
  BY FreeRuns
<1> QED
  BY <1>1, <1>2

(* The last block that append finds is a block. *)
LEMMA LastBlockType ==
  ASSUME NEW f \in FatType, NEW start \in Blocks
  PROVE  last_block(f, start) \in Blocks
<1>1. NoBlocks \in 0 .. NoBlocks
  BY Numbers
<1> QED
  BY <1>1, LastRuns

(* What may be in the buffer of read_data is a text. *)
LEMMA StringsType ==
  ASSUME NEW s \in StateType, NEW start \in Blocks \cup {FAT_EOF}, NEW size \in Nat,
         NEW t \in strings_read(s, start, size)
  PROVE  t \in Text
<1>1. NoBlocks \in 0 .. NoBlocks
  BY Numbers
<1>2. PICK a \in [0 .. NoBlocks -> ReadState] : read_chain(s, start, size) = a[NoBlocks]
  BY ReadRuns
<1> DEFINE r == read_chain(s, start, size)
           strays(n) == [k \in 1 .. n |-> Stray]
           last == IF Len(r.text) < size - r.left THEN 0 ELSE r.left
<1>3. r.left \in Nat /\ r.text \in Text
  BY <1>1, <1>2 DEF ReadState
<1>4. last \in Nat
  BY <1>3
<1>5. PICK n \in 0 .. last : t = r.text \o strays(n)
  BY Zenon DEF strings_read
<1>6. n \in Nat
  BY <1>4, <1>5
<1>7. strays(n) \in Seq(STRING)
  <2>1. strays(n) \in [1 .. n -> STRING]
    <3>1. Stray \in STRING
      BY NamesAssumption
    <3> QED
      BY <3>1
  <2> HIDE DEF strays
  <2> QED
    BY <1>6, <2>1, SeqDef
<1> HIDE DEF r
<1> QED
  BY <1>3, <1>5, <1>7 DEF Text

(* write_data returns a file system. *)
LEMMA WriteDataType ==
  ASSUME NEW s \in StateType, NEW start \in Blocks, NEW data \in Text
  PROVE  write_data(s, start, data) \in WriteState
<1> DEFINE n == Len(data) \div BlockSize
<1>1. n \in 0 .. n
  BY PiecesCounted
<1>2. PICK a \in [0 .. n -> WriteState] : write_data(s, start, data) = a[n]
  BY WriteRuns
<1> HIDE DEF n
<1> QED
  BY <1>1, <1>2

(* A walk ends in a directory or nowhere. *)
LEMMA WalkType ==
  ASSUME NEW s \in StateType, NEW path \in PathType, NEW E \in {{}, {0}}
  PROVE  Walk(s, path, E) \in WalkState
<1> DEFINE n == Len(path.comps)
<1>1. n \in 0 .. n
  BY DEF PathType
<1>2. PICK a \in [0 .. n -> WalkState] : Walk(s, path, E) = a[n]
  BY WalkRuns
<1> HIDE DEF n
<1> QED
  BY <1>1, <1>2

(* The path that get_pwd_string returns consists of names. *)
LEMMA PwdType == ASSUME NEW s \in StateType PROVE pwd_comps(s) \in Seq(Words)
<1>1. CASE s.cwd.blk = ROOT_BLOCK
  <2>1. <<NoName>> \in Seq(Words)
    BY WordsAreText
  <2> QED
    BY <1>1, <2>1 DEF pwd_comps
<1>2. CASE s.cwd.blk # ROOT_BLOCK
  <2>1. PICK a \in [0 .. NoBlocks -> UpState] : pwd_comps(s) = a[NoBlocks].names
    BY <1>2, UpRuns
  <2>2. NoBlocks \in 0 .. NoBlocks
    BY Numbers
  <2>3. a[NoBlocks] \in UpState
    BY <2>1, <2>2
  <2> QED
    BY <2>1, <2>3 DEF UpState
<1> QED
  BY <1>1, <1>2

-----------------------------------------------------------------------------
(* The steps that commands are made of keep the types.                     *)
LEMMA SyncRootType == ASSUME NEW s \in StateType PROVE SyncRoot(s) \in StateType
BY DEF SyncRoot, StateType, CwdType

(* An entry put into the working directory. *)
LEMMA PutType ==
  ASSUME NEW s \in StateType, NEW i \in Slots, NEW entry \in EntryType
  PROVE  put(s, i, entry) \in StateType
BY DEF put, StateType, CwdType, DirType

(* Searches in a directory return one of its slots or nothing. *)
LEMMA SlotTypes ==
  ASSUME NEW s \in StateType
  PROVE  free_slot(s) \in Slots \cup {None} /\ \A name : lookup(s, name) \in Slots \cup {None}
<1>1. \A S \in SUBSET Slots : First(S) \in Slots \cup {None}
  BY FirstIn, Numbers
<1>2. {i \in Slots \ {0} : s.cwd.entries[i].first_blk = FAT_FREE} \in SUBSET Slots
  OBVIOUS
<1>3. \A name : {i \in Slots : s.cwd.entries[i].name = name} \in SUBSET Slots
  OBVIOUS
<1> QED
  BY <1>1, <1>2, <1>3 DEF free_slot, lookup, find_empty_dir_index, find_dir_entry

(* The state with the working directory written back. *)
Saved(s) == SyncRoot([s EXCEPT !.disk[s.cwd.blk] = InDir(s.cwd.entries)])

(* The working directory is written before it is left. *)
LEMMA SavedType == ASSUME NEW s \in StateType PROVE Saved(s) \in StateType
<1>1. InDir(s.cwd.entries) \in BlockType
  BY WritingTypes DEF StateType, CwdType
<1>2. [s EXCEPT !.disk[s.cwd.blk] = InDir(s.cwd.entries)] \in StateType
  BY <1>1 DEF StateType, DiskType
<1> QED
  BY <1>2, SyncRootType DEF Saved

(* change_cwd goes to a directory or stays. *)
LEMMA ChangeCwdType ==
  ASSUME NEW s \in StateType, NEW path \in PathType
  PROVE  change_cwd(s, path) \in WriteState
<1> DEFINE w == Walk(Saved(s), path, {})
           there == [entries |-> w.dir, info |-> w.info, blk |-> w.blk]
           moved == [Saved(s) EXCEPT !.cwd = there]
<1>1. Saved(s) \in StateType
  BY SavedType
<1>2. w \in WalkState
  <2>1. {} \in {{}, {0}}
    OBVIOUS
  <2> QED
    BY <1>1, <2>1, WalkType
<1>3. moved \in StateType
  <2>1. there \in CwdType
    <3> HIDE DEF w
    <3> QED
      BY <1>2 DEF WalkState, CwdType
  <2> HIDE DEF there
  <2> QED
    BY <1>1, <2>1 DEF StateType
<1>4. change_cwd(s, path) = IF path = EmptyPath THEN [ok |-> TRUE, s |-> s]
                            ELSE IF ~w.ok THEN [ok |-> FALSE, s |-> Saved(s)]
                            ELSE [ok |-> TRUE, s |-> moved]
  BY DEF change_cwd, Saved
<1> HIDE DEF w, moved
<1> QED
  BY <1>1, <1>3, <1>4 DEF WriteState

(* A path has a name and a directory part. *)
LEMMA PartsType ==
  ASSUME NEW s \in StateType, NEW path \in PathType
  PROVE  get_filename_parts(s, path).file \in Words /\ get_filename_parts(s, path).dir \in PathType
<1> DEFINE prefix == Append(Front(path.comps), NoName)
<1>1. path.abs \in BOOLEAN /\ path.comps \in Seq(Words) /\ path.comps # <<>>
  BY DEF PathType
<1>2. Last(path.comps) \in Words
  BY <1>1 DEF Last
<1>3. Front(path.comps) \in Seq(Words)
  <2>1. Len(path.comps) - 1 \in 1 - 1 .. Len(path.comps) /\ 1 \in 1 .. Len(path.comps) + 1
    BY <1>1, EmptySeq
  <2> QED
    BY <1>1, <2>1, SubSeqProperties DEF Front
<1>4. prefix \in Seq(Words) /\ prefix # <<>> /\ Len(prefix) > 0
  BY <1>3, WordsAreText, AppendProperties
<1>5. pwd_comps(s) \o prefix \in Seq(Words) /\ pwd_comps(s) \o prefix # <<>>
  <2>1. pwd_comps(s) \in Seq(Words)
    BY PwdType
  <2> HIDE DEF prefix
  <2>2. pwd_comps(s) \o prefix \in Seq(Words) /\ Len(pwd_comps(s) \o prefix) = Len(pwd_comps(s)) + Len(prefix)
    BY <1>4, <2>1, ConcatProperties
  <2> QED
    BY <1>4, <2>1, <2>2, EmptySeq
<1>6. Path(TRUE, IF path.abs THEN prefix ELSE pwd_comps(s) \o prefix) \in PathType
  <2> HIDE DEF prefix
  <2> QED
    BY <1>4, <1>5 DEF Path, PathType
<1>7. NoName \in Words
  BY WordsAreText
<1>8. get_filename_parts(s, path) =
        IF find_dir_from_path(s, path) THEN [file |-> NoName, dir |-> path]
        ELSE [file |-> Last(path.comps), dir |-> Path(TRUE, IF path.abs THEN prefix ELSE pwd_comps(s) \o prefix)]
  BY DEF get_filename_parts
<1> HIDE DEF prefix
<1>9. CASE find_dir_from_path(s, path)
  <2>1. get_filename_parts(s, path) = [file |-> NoName, dir |-> path]
    BY <1>8, <1>9
  <2> QED
    BY <1>7, <2>1
<1>10. CASE ~find_dir_from_path(s, path)
  <2> DEFINE d == Path(TRUE, IF path.abs THEN prefix ELSE pwd_comps(s) \o prefix)
  <2>1. get_filename_parts(s, path) = [file |-> Last(path.comps), dir |-> d]
    BY <1>8, <1>10
  <2>2. d \in PathType
    BY <1>6
  <2> HIDE DEF d
  <2> QED
    BY <1>2, <2>1, <2>2
<1> QED
  BY <1>9, <1>10

(* exit_method goes back to the directory the command was given in. *)
LEMMA ExitType ==
  ASSUME NEW s \in StateType, NEW backup \in CwdType, NEW save \in BOOLEAN
  PROVE  exit_method(s, backup, save) \in StateType
<1> DEFINE written == IF save THEN [s EXCEPT !.disk[s.cwd.blk] = InDir(s.cwd.entries)] ELSE s
           done == IF save /\ s.cwd.blk = backup.blk THEN s ELSE [written EXCEPT !.cwd = backup]
<1>1. InDir(s.cwd.entries) \in BlockType
  BY WritingTypes DEF StateType, CwdType
<1>2. written \in StateType
  BY <1>1 DEF StateType, DiskType
<1>3. done \in StateType
  <2> HIDE DEF written
  <2> QED
    BY <1>2 DEF StateType
<1>4. exit_method(s, backup, save) = SyncRoot(done)
  BY DEF exit_method
<1> HIDE DEF done
<1> QED
  BY <1>3, <1>4, SyncRootType

(* The constructor makes a file system of whatever is on the disk. *)
LEMMA BootType == ASSUME NEW d \in DiskType PROVE boot(d) \in StateType
<1>1. AsDir(d[ROOT_BLOCK]) \in DirType /\ AsFat(d[FAT_BLOCK]) \in FatType
  BY Numbers, ReadingTypes DEF DiskType
<1>2. AsDir(d[ROOT_BLOCK])[0] \in EntryType
  BY <1>1, Numbers DEF DirType
<1> QED
  BY <1>1, <1>2, Numbers DEF boot, StateType, CwdType

(* A command on a file enters its directory or returns. *)
LEMMA EnterType ==
  ASSUME NEW s \in StateType, NEW parts, parts.dir \in PathType
  PROVE  enter(s, parts) \in WriteState
<1>1. change_cwd(s, parts.dir) \in WriteState
  BY ChangeCwdType
<1>2. [ok |-> FALSE, s |-> s] \in WriteState
  BY DEF WriteState
<1> QED
  BY <1>1, <1>2 DEF enter

(* The entries that commands make up. *)
LEMMA EntryTypes ==
  /\ \A name \in Words, size \in 0 .. MaxSize, blk \in Blocks, type \in {TYPE_FILE, TYPE_DIR}, rights \in SUBSET Rights :
       Entry(name, size, blk, type, rights) \in EntryType
  /\ \A s \in StateType : /\ \A i \in Slots : s.cwd.entries[i] \in EntryType
                          /\ s.cwd.info \in EntryType /\ s.cwd.blk \in Blocks
<1>1. \A name \in Words, size \in 0 .. MaxSize, blk \in Blocks, type \in {TYPE_FILE, TYPE_DIR}, rights \in SUBSET Rights :
       Entry(name, size, blk, type, rights) \in EntryType
  BY DEF Entry, EntryType
<1>2. \A s \in StateType : /\ \A i \in Slots : s.cwd.entries[i] \in EntryType
                           /\ s.cwd.info \in EntryType /\ s.cwd.blk \in Blocks
  BY DEF StateType, CwdType, DirType
<1> QED
  BY <1>1, <1>2

(* The variables have their types when the state they make up has. *)
LEMMA ThisType == TypeOK <=> This \in StateType
BY DEF TypeOK, This, StateType, DiskType

(* A command that ends in a file system keeps the types. *)
LEMMA BecomesType ==
  ASSUME NEW s \in StateType, Becomes(s)
  PROVE  TypeOK'
BY DEF Becomes, TypeOK, StateType, DiskType

-----------------------------------------------------------------------------
(* Each command keeps the types, whatever it is given. *)
LEMMA FormatKeeps == ASSUME TypeOK, format PROVE TypeOK'
<1> DEFINE root == init_dir(ROOT_BLOCK, Rights)
           f == [b \in Blocks |-> IF b \in {ROOT_BLOCK, FAT_BLOCK} THEN FAT_EOF ELSE FAT_FREE]
           s == [fat |-> f, disk |-> disk, root |-> root, cwd |-> [entries |-> root, info |-> root[0], blk |-> ROOT_BLOCK]]
<1>1. root \in DirType
  <2>1. Entry(Parent, 0, ROOT_BLOCK, TYPE_DIR, Rights) \in EntryType
    <3>1. 0 \in 0 .. MaxSize /\ TYPE_DIR \in {TYPE_FILE, TYPE_DIR} /\ Rights \in SUBSET Rights
      BY Numbers
    <3> QED
      BY <3>1, EntryTypes, WordsAreText, Numbers
  <2> QED
    BY <2>1, ZeroTypes, Numbers DEF init_dir, DirType
<1>2. f \in FatType
  BY Numbers DEF FatType
<1>3. root[0] \in EntryType
  BY <1>1, Numbers DEF DirType
<1>4. Becomes(s)
  BY DEF format, Becomes
<1>5. s \in StateType
  <2> HIDE DEF root, f
  <2> QED
    BY <1>1, <1>2, <1>3, Numbers DEF TypeOK, StateType, DiskType, CwdType
<1> HIDE DEF s
<1> QED
  BY <1>4, <1>5, BecomesType

(* create keeps the types, at each of its returns. *)
LEMMA CreateKeeps ==
  ASSUME TypeOK, NEW c \in Commands, c.cmd = "create", create(c)
  PROVE  TypeOK'
<1>1. c.path \in PathType /\ c.data \in Text /\ Len(c.data) < MaxSize /\ Len(c.data) \in Nat
  BY CommandsAssumption DEF Text
<1>2. SyncRoot(This) \in StateType /\ cwd \in CwdType /\ fat \in FatType
  BY ThisType, SyncRootType DEF TypeOK
<1>3. PICK parts : parts = get_filename_parts(SyncRoot(This), c.path)
  OBVIOUS
<1>4. parts.file \in Words /\ parts.dir \in PathType
  BY <1>1, <1>2, <1>3, PartsType
<1>5. PICK here : here = enter(SyncRoot(This), parts)
  OBVIOUS
<1>6. here \in WriteState
  BY <1>2, <1>4, <1>5, EnterType
<1> DEFINE blk     == find_empty_block(fat)
           slot    == free_slot(here.s)
           file    == Entry(parts.file, Len(c.data) + 1, blk, TYPE_FILE, {READ, WRITE})
           written == write_data(here.s, blk, c.data)
           wrote   == blk \in Blocks /\ slot \in Slots
<1>7. \/ Becomes(here.s)
      \/ Becomes(exit_method(here.s, cwd, FALSE))
      \/ wrote /\ Becomes(exit_method(written.s, cwd, FALSE))
      \/ wrote /\ Becomes(exit_method(put(written.s, slot, file), cwd, TRUE))
  <2>1. None \notin {blk, slot} => wrote
    <3>1. blk = None \/ blk \in Blocks
      BY <1>2, EmptyBlockIs
    <3>2. slot = None \/ slot \in Slots
      BY <1>6, SlotTypes DEF WriteState
    <3> QED
      BY <3>1, <3>2
  <2> HIDE DEF wrote
  <2> QED
    BY <1>3, <1>5, <2>1, ZenonT(40) DEF create
<1>8. here.s \in StateType
  BY <1>6 DEF WriteState
<1>9. ASSUME wrote PROVE written.s \in StateType /\ put(written.s, slot, file) \in StateType
  <2>1. written.s \in StateType
    <3>1. written \in WriteState
      BY <1>1, <1>8, <1>9, WriteDataType
    <3> QED
      BY <3>1 DEF WriteState
  <2>2. file \in EntryType
    <3>1. Len(c.data) + 1 \in 0 .. MaxSize
      BY <1>1, Numbers
    <3>2. {READ, WRITE} \in SUBSET Rights
      BY DEF Rights
    <3> QED
      BY <1>4, <1>9, <3>1, <3>2, EntryTypes
  <2> HIDE DEF written, file
  <2> QED
    BY <1>9, <2>1, <2>2, PutType
<1> HIDE DEF wrote, written, file, slot
<1> QED
  BY <1>2, <1>7, <1>8, <1>9, ExitType, BecomesType

(* cat only goes to a directory and back. *)
LEMMA CatKeeps ==
  ASSUME TypeOK, NEW c \in Commands, c.cmd = "cat", cat(c)
  PROVE  TypeOK'
<1>1. c.path \in PathType
  BY CommandsAssumption
<1>2. SyncRoot(This) \in StateType /\ cwd \in CwdType
  BY ThisType, SyncRootType DEF TypeOK
<1>3. PICK here : here = enter(SyncRoot(This), get_filename_parts(SyncRoot(This), c.path))
  OBVIOUS
<1>4. here.s \in StateType
  <2>1. here \in WriteState
    BY <1>1, <1>2, <1>3, PartsType, EnterType
  <2> QED
    BY <2>1 DEF WriteState
<1>5. Becomes(exit_method(here.s, cwd, FALSE)) \/ Becomes(here.s)
  BY <1>3 DEF cat
<1> QED
  BY <1>2, <1>4, <1>5, ExitType, BecomesType

(* cp, also when it goes on after write_data has failed. *)
LEMMA CpKeeps ==
  ASSUME TypeOK, NEW c \in Commands, c.cmd = "cp", cp(c)
  PROVE  TypeOK'
<1>1. c.src \in PathType /\ c.dst \in PathType
  BY CommandsAssumption
<1>2. SyncRoot(This) \in StateType /\ cwd \in CwdType /\ fat \in FatType
  BY ThisType, SyncRootType DEF TypeOK
<1>3. PICK src, dst, here, there :
        /\ src = get_filename_parts(SyncRoot(This), c.src)
        /\ dst = get_filename_parts(SyncRoot(This), c.dst)
        /\ here = enter(SyncRoot(This), src) /\ there = change_cwd(here.s, dst.dir)
        /\ cp_returns(src, dst, here, there)
  BY Zenon DEF cp
<1>4. src.file \in Words /\ src.dir \in PathType /\ dst.file \in Words /\ dst.dir \in PathType
  BY <1>1, <1>2, <1>3, PartsType
<1>6. here \in WriteState /\ here.s \in StateType
  BY <1>2, <1>3, <1>4, EnterType DEF WriteState
<1>8. there \in WriteState /\ there.s \in StateType
  BY <1>3, <1>4, <1>6, ChangeCwdType DEF WriteState
<1> DEFINE name == IF dst.file = NoName THEN src.file ELSE dst.file
           i    == lookup(here.s, src.file)
           file == here.s.cwd.entries[i]
           blk  == find_empty_block(fat)
           slot    == free_slot(there.s)
           read    == strings_read(here.s, file.first_blk, file.size)
           copy    == [file EXCEPT !.name = name, !.first_blk = blk]
           wrote   == i \in Slots /\ blk \in Blocks /\ slot \in Slots
           added(w) == put(IF w.ok THEN w.s ELSE exit_method(w.s, cwd, FALSE), slot, copy)
<1>9. \/ Becomes(here.s)
      \/ Becomes(exit_method(here.s, cwd, FALSE))
      \/ Becomes(exit_method(there.s, cwd, FALSE))
      \/ wrote /\ \E data \in read : \E w \in {write_data(there.s, blk, data)} :
                    Becomes(exit_method(added(w), cwd, TRUE))
  <2>1. i # None /\ blk # None /\ slot # None => wrote
    <3>1. blk = None \/ blk \in Blocks
      BY <1>2, EmptyBlockIs
    <3>2. (slot = None \/ slot \in Slots) /\ (i = None \/ i \in Slots)
      BY <1>6, <1>8, SlotTypes
    <3> QED
      BY <3>1, <3>2
  <2> HIDE DEF wrote
  <2> QED
    BY <1>3, <2>1, Zenon DEF cp_returns
<1>10. ASSUME wrote PROVE copy \in EntryType /\ file.first_blk \in Blocks /\ file.size \in Nat
  <2>1. file \in EntryType
    BY <1>6, <1>10, EntryTypes
  <2>2. file.first_blk \in Blocks /\ file.size \in Nat
    <3> HIDE DEF file
    <3> QED
      BY <2>1, Numbers DEF EntryType
  <2>3. name \in Words
    BY <1>4
  <2>4. copy \in EntryType
    <3> HIDE DEF file, name, blk
    <3> QED
      BY <1>10, <2>1, <2>3 DEF EntryType
  <2> QED
    BY <2>2, <2>4
<1>11. ASSUME wrote, NEW data \in read, NEW w \in {write_data(there.s, blk, data)}
       PROVE  added(w) \in StateType
  <2>1. data \in Text
    BY <1>6, <1>10, <1>11, StringsType
  <2>2. w \in WriteState
    BY <1>8, <1>11, <2>1, WriteDataType
  <2>3. w.s \in StateType
    BY <2>2 DEF WriteState
  <2>4. exit_method(w.s, cwd, FALSE) \in StateType
    BY <1>2, <2>3, ExitType
  <2> DEFINE y == IF w.ok THEN w.s ELSE exit_method(w.s, cwd, FALSE)
  <2>5. y \in StateType
    BY <2>3, <2>4
  <2> HIDE DEF y, copy, slot
  <2>6. put(y, slot, copy) \in StateType
    BY <1>10, <1>11, <2>5, PutType
  <2> QED
    BY <2>6 DEF y
<1> HIDE DEF wrote, added, read, slot
<1> QED
  BY <1>2, <1>6, <1>8, <1>9, <1>11, ExitType, BecomesType

(* mv, also when its destination is not found the second time. *)
LEMMA MvKeeps ==
  ASSUME TypeOK, NEW c \in Commands, c.cmd = "mv", mv(c)
  PROVE  TypeOK'
<1>1. c.src \in PathType /\ c.dst \in PathType
  BY CommandsAssumption
<1>2. SyncRoot(This) \in StateType /\ cwd \in CwdType
  BY ThisType, SyncRootType DEF TypeOK
<1>3. PICK src, dst, there, here :
        /\ src = get_filename_parts(SyncRoot(This), c.src)
        /\ dst = get_filename_parts(SyncRoot(This), c.dst)
        /\ there = change_cwd(SyncRoot(This), dst.dir) /\ here = change_cwd(there.s, src.dir)
        /\ mv_returns(src, dst, there, here)
  BY Zenon DEF mv
<1>4. src.file \in Words /\ src.dir \in PathType /\ dst.file \in Words /\ dst.dir \in PathType
  BY <1>1, <1>2, <1>3, PartsType
<1>6. there.s \in StateType
  BY <1>2, <1>3, <1>4, ChangeCwdType DEF WriteState
<1>8. here.s \in StateType
  BY <1>3, <1>4, <1>6, ChangeCwdType DEF WriteState
<1> DEFINE name  == IF dst.file = NoName THEN src.file ELSE dst.file
           slot  == free_slot(there.s)
           i     == lookup(here.s, src.file)
           wiped == put(here.s, i, ZeroEntry)
           backup == IF here.s.cwd.blk = cwd.blk THEN [cwd EXCEPT !.entries = wiped.cwd.entries] ELSE cwd
           back  == change_cwd(wiped, dst.dir)
           moved == [here.s.cwd.entries[i] EXCEPT !.name = name]
           moves == slot \in Slots /\ i \in Slots
<1>9. \/ Becomes(SyncRoot(This))
      \/ Becomes(exit_method(there.s, cwd, FALSE))
      \/ Becomes(exit_method(here.s, cwd, FALSE))
      \/ moves /\ Becomes(exit_method(back.s, backup, FALSE))
      \/ moves /\ Becomes(exit_method(put(back.s, slot, moved), backup, TRUE))
  <2>1. i # None /\ slot # None => moves
    BY <1>6, <1>8, SlotTypes
  <2> HIDE DEF moves
  <2> QED
    BY <1>3, <2>1, Zenon DEF mv_returns
<1>10. ASSUME moves PROVE back.s \in StateType /\ backup \in CwdType /\ put(back.s, slot, moved) \in StateType
  <2>1. wiped \in StateType
    BY <1>8, <1>10, ZeroTypes, PutType
  <2>2. backup \in CwdType
    <3> HIDE DEF wiped
    <3> QED
      BY <1>2, <2>1 DEF StateType, CwdType
  <2>3. back.s \in StateType
    <3>1. back \in WriteState
      BY <1>4, <2>1, ChangeCwdType
    <3> QED
      BY <3>1 DEF WriteState
  <2>4. moved \in EntryType
    <3>1. here.s.cwd.entries[i] \in EntryType
      BY <1>8, <1>10, EntryTypes
    <3>2. name \in Words
      BY <1>4
    <3> HIDE DEF name, i
    <3> QED
      BY <3>1, <3>2 DEF EntryType
  <2> HIDE DEF back, moved, backup
  <2> QED
    BY <1>10, <2>2, <2>3, <2>4, PutType
<1> HIDE DEF moves, back, backup, moved, slot
<1> QED
  BY <1>2, <1>6, <1>8, <1>9, <1>10, ExitType, BecomesType

(* rm. *)
LEMMA RmKeeps ==
  ASSUME TypeOK, NEW c \in Commands, c.cmd = "rm", rm(c)
  PROVE  TypeOK'
<1>1. c.path \in PathType
  BY CommandsAssumption
<1>2. SyncRoot(This) \in StateType /\ cwd \in CwdType /\ fat \in FatType
  BY ThisType, SyncRootType DEF TypeOK
<1>3. PICK parts : parts = get_filename_parts(SyncRoot(This), c.path)
  OBVIOUS
<1>4. parts.file \in Words /\ parts.dir \in PathType
  BY <1>1, <1>2, <1>3, PartsType
<1>5. PICK here : here = enter(SyncRoot(This), parts)
  OBVIOUS
<1>6. here.s \in StateType
  BY <1>2, <1>4, <1>5, EnterType DEF WriteState
<1> DEFINE i     == lookup(here.s, parts.file)
           file  == here.s.cwd.entries[i]
           freed == free_chain(fat, file.first_blk)
           none  == [file EXCEPT !.name = NoName, !.size = 0, !.first_blk = 0]
           wiped == put(here.s, i, none)
           rest  == [wiped EXCEPT !.fat = freed.fat]
<1>7. \/ Becomes(here.s)
      \/ Becomes(exit_method(here.s, cwd, FALSE))
      \/ i \in Slots /\ Becomes(exit_method(rest, cwd, TRUE))
  <2>1. i # None => i \in Slots
    BY <1>6, SlotTypes
  <2> QED
    BY <1>3, <1>5, <2>1, ZenonT(40) DEF rm
<1>8. ASSUME i \in Slots PROVE rest \in StateType
  <2>1. file \in EntryType
    BY <1>6, <1>8, EntryTypes
  <2>2. file.first_blk \in Blocks /\ none \in EntryType
    <3>1. 0 \in Blocks /\ 0 \in 0 .. MaxSize
      BY Numbers DEF FAT_FREE
    <3> HIDE DEF file
    <3> QED
      BY <2>1, <3>1, WordsAreText DEF EntryType
  <2>3. freed.fat \in FatType
    <3>1. freed \in FreeState
      BY <1>2, <2>2, FreeChainType
    <3> QED
      BY <3>1 DEF FreeState
  <2>4. wiped \in StateType
    <3> HIDE DEF none
    <3> QED
      BY <1>6, <1>8, <2>2, PutType
  <2> HIDE DEF wiped, freed
  <2> QED
    BY <2>3, <2>4 DEF StateType
<1> HIDE DEF rest
<1> QED
  BY <1>2, <1>6, <1>7, <1>8, ExitType, BecomesType

(* mkdir. *)
LEMMA MkdirKeeps ==
  ASSUME TypeOK, NEW c \in Commands, c.cmd = "mkdir", mkdir(c)
  PROVE  TypeOK'
<1>1. c.path \in PathType
  BY CommandsAssumption
<1>2. SyncRoot(This) \in StateType /\ cwd \in CwdType /\ fat \in FatType
  BY ThisType, SyncRootType DEF TypeOK
<1>3. PICK parts : parts = get_filename_parts(SyncRoot(This), c.path)
  OBVIOUS
<1>4. parts.file \in Words /\ parts.dir \in PathType
  BY <1>1, <1>2, <1>3, PartsType
<1>5. PICK here : here = enter(SyncRoot(This), parts)
  OBVIOUS
<1>6. here.s \in StateType
  BY <1>2, <1>4, <1>5, EnterType DEF WriteState
<1> DEFINE blk   == find_empty_block(fat)
           slot  == free_slot(here.s)
           new   == init_dir(here.s.cwd.blk, here.s.cwd.info.rights)
           dir   == Entry(parts.file, 0, blk, TYPE_DIR, Rights)
           made  == [here.s EXCEPT !.disk[blk] = InDir(new), !.fat[blk] = FAT_EOF]
           makes == blk \in Blocks /\ slot \in Slots
<1>7. \/ Becomes(here.s)
      \/ Becomes(exit_method(here.s, cwd, FALSE))
      \/ makes /\ Becomes(exit_method(put(made, slot, dir), cwd, TRUE))
  <2>1. None \notin {blk, slot} => makes
    <3>1. blk = None \/ blk \in Blocks
      BY <1>2, EmptyBlockIs
    <3>2. slot = None \/ slot \in Slots
      BY <1>6, SlotTypes
    <3> QED
      BY <3>1, <3>2
  <2> HIDE DEF makes
  <2> QED
    BY <1>3, <1>5, <2>1, ZenonT(40) DEF mkdir
<1>8. ASSUME makes PROVE put(made, slot, dir) \in StateType
  <2>1. 0 \in 0 .. MaxSize /\ TYPE_DIR \in {TYPE_FILE, TYPE_DIR} /\ Rights \in SUBSET Rights
    BY Numbers
  <2>2. here.s.cwd.blk \in Blocks /\ here.s.cwd.info.rights \in SUBSET Rights
    BY <1>6, EntryTypes DEF EntryType
  <2>3. dir \in EntryType /\ Entry(Parent, 0, here.s.cwd.blk, TYPE_DIR, here.s.cwd.info.rights) \in EntryType
    BY <1>4, <1>8, <2>1, <2>2, EntryTypes, WordsAreText
  <2>4. new \in DirType
    BY <2>3, ZeroTypes, Numbers DEF init_dir, DirType
  <2>5. InDir(new) \in BlockType
    BY <2>4, WritingTypes
  <2>6. made \in StateType
    <3> HIDE DEF new, blk
    <3> QED
      BY <1>6, <1>8, <2>5 DEF StateType, DiskType, FatType
  <2> HIDE DEF made, dir
  <2> QED
    BY <1>8, <2>3, <2>6, PutType
<1> HIDE DEF makes, made, dir, slot
<1> QED
  BY <1>2, <1>6, <1>7, <1>8, ExitType, BecomesType

(* cd. *)
LEMMA CdKeeps ==
  ASSUME TypeOK, NEW c \in Commands, c.cmd = "cd", cd(c)
  PROVE  TypeOK'
<1>1. c.path \in PathType
  BY CommandsAssumption
<1>2. This \in StateType /\ cwd \in CwdType
  BY ThisType DEF TypeOK
<1>3. PICK here : here = change_cwd(This, c.path)
  OBVIOUS
<1>4. here.s \in StateType
  BY <1>1, <1>2, <1>3, ChangeCwdType DEF WriteState
<1>5. Becomes(exit_method(here.s, cwd, FALSE)) \/ Becomes(here.s)
  BY <1>3 DEF cd
<1> QED
  BY <1>2, <1>4, <1>5, ExitType, BecomesType

(* The text that append writes: what is left of the last block, and the    *)
(* source behind it.                                                       *)
LEMMA AppendedText ==
  ASSUME NEW t, NEW last, AsText(t.disk[last]) \in Text, NEW added \in Text, NEW tail \in Nat
  PROVE  append_data(t, tail, last, added) \in Text
<1>1. PICK old \in Text : old = AsText(t.disk[last])
  OBVIOUS
<1>2. CASE tail > 0 /\ Len(old) >= tail - 1
  <2>1. 1 \in 1 .. Len(old) + 1 /\ tail - 1 \in 1 - 1 .. Len(old)
    BY <1>2 DEF Text
  <2>2. SubSeq(old, 1, tail - 1) \in Text
    BY <2>1, SubSeqProperties DEF Text
  <2>3. SubSeq(old, 1, tail - 1) \o added \in Text
    BY <2>2, ConcatProperties DEF Text
  <2> QED
    BY <1>2, <1>1, <2>3 DEF append_data
<1>3. CASE tail = 0 /\ added # <<>>
  <2>1. Tail(added) \in Text
    BY <1>3, HeadTailProperties DEF Text
  <2> QED
    BY <1>3, <1>1, <2>1 DEF append_data
<1>4. CASE ~ (tail > 0 /\ Len(old) >= tail - 1) /\ ~ (tail = 0 /\ added # <<>>)
  BY <1>4, <1>1 DEF append_data
<1> QED
  BY <1>2, <1>3, <1>4

(* append, with its pointer into the directory it has left, also when it   *)
(* ends the program.                                                       *)
LEMMA AppendKeeps ==
  ASSUME TypeOK, NEW c \in Commands, c.cmd = "append", append(c)
  PROVE  TypeOK'
<1>1. c.src \in PathType /\ c.dst \in PathType
  BY CommandsAssumption
<1>2. SyncRoot(This) \in StateType /\ cwd \in CwdType /\ fat \in FatType
  BY ThisType, SyncRootType DEF TypeOK
<1>3. PICK src, dst, here, there :
        /\ src = get_filename_parts(SyncRoot(This), c.src)
        /\ dst = get_filename_parts(SyncRoot(This), c.dst)
        /\ here = change_cwd(SyncRoot(This), src.dir) /\ there = change_cwd(here.s, dst.dir)
        /\ append_returns(src, dst, here, there)
  BY Zenon DEF append
<1>4. src.dir \in PathType /\ dst.dir \in PathType
  BY <1>1, <1>2, <1>3, PartsType
<1>5. here.s \in StateType
  BY <1>2, <1>3, <1>4, ChangeCwdType DEF WriteState
<1>6. there.s \in StateType
  BY <1>3, <1>4, <1>5, ChangeCwdType DEF WriteState
<1> DEFINE i     == lookup(here.s, src.file)
           j     == lookup(there.s, dst.file)
           entries == there.s.cwd.entries
           size  == entries[i].size + entries[j].size - 1
           new   == [entries[j] EXCEPT !.size = size]
           sized == put(there.s, j, new)
           last  == last_block(fat, entries[j].first_blk)
           tail  == entries[j].size % BlockSize
           grown == sized.cwd.entries[i].size
           read  == strings_read(sized, entries[i].first_blk, grown)
           result(added) == write_data(sized, last, append_data(there.s, tail, last, added))
           overruns == tail = 0 \/ grown > entries[i].size
           writes  == i \in Slots /\ j \in Slots /\ size \in 0 .. MaxSize
<1>7. \/ Becomes(SyncRoot(This))
      \/ Becomes(here.s)
      \/ Becomes(exit_method(there.s, cwd, FALSE))
      \/ writes /\ \E added \in read : \E w \in {result(added)} :
                     \/ Becomes(exit_method(w.s, cwd, w.ok))
                     \/ overruns /\ \E t \in {there.s, w.s, exit_method(w.s, cwd, w.ok)} : Becomes(boot(t.disk))
  <2>1. None \notin {i, j} => i \in Slots /\ j \in Slots
    BY <1>5, <1>6, SlotTypes
  <2> QED
    BY <1>3, <2>1, Zenon DEF append_returns
<1>8. ASSUME writes, NEW added \in read PROVE result(added) \in WriteState
  <2>1. entries[i] \in EntryType /\ entries[j] \in EntryType
    BY <1>6, <1>8, EntryTypes
  <2>2. /\ new \in EntryType /\ entries[i].first_blk \in Blocks /\ entries[j].first_blk \in Blocks
        /\ entries[j].size \in Nat
    <3> HIDE DEF entries, size, i, j
    <3> QED
      BY <1>8, <2>1, Numbers DEF EntryType
  <2>3. sized \in StateType
    <3> HIDE DEF new
    <3> QED
      BY <1>6, <1>8, <2>2, PutType
  <2>4. last \in Blocks
    BY <1>2, <2>2, LastBlockType
  <2>5. AsText(there.s.disk[last]) \in Text
    <3>1. there.s.disk[last] \in BlockType
      <4> HIDE DEF last
      <4> QED
        BY <1>6, <2>4 DEF StateType, DiskType
    <3> QED
      BY <3>1, ReadingTypes
  <2>6. added \in Text
    <3>1. grown \in Nat
      <4> HIDE DEF sized
      <4>1. sized.cwd.entries[i] \in EntryType
        BY <1>8, <2>3, EntryTypes
      <4> QED
        BY <4>1, Numbers DEF EntryType
    <3> HIDE DEF sized, grown, entries, i
    <3> QED
      BY <1>8, <2>2, <2>3, <3>1, StringsType
  <2>7. tail \in Nat
    BY <2>2, Remainder
  <2>8. append_data(there.s, tail, last, added) \in Text
    <3> HIDE DEF tail, last
    <3> QED
      BY <2>5, <2>6, <2>7, AppendedText
  <2> HIDE DEF sized, last, tail
  <2> QED
    BY <2>3, <2>4, <2>8, WriteDataType
<1>9. ASSUME NEW t \in StateType PROVE boot(t.disk) \in StateType
  BY BootType DEF StateType
<1>10. ASSUME writes, NEW added \in read, NEW w \in {result(added)}
       PROVE  w.s \in StateType /\ exit_method(w.s, cwd, w.ok) \in StateType
  <2>1. w \in WriteState
    BY <1>8, <1>10
  <2>2. w.s \in StateType /\ w.ok \in BOOLEAN
    BY <2>1 DEF WriteState
  <2> QED
    BY <1>2, <2>2, ExitType
<1> HIDE DEF read, result, writes, overruns
<1>11. CASE writes /\ \E added \in read : \E w \in {result(added)} :
                        \/ Becomes(exit_method(w.s, cwd, w.ok))
                        \/ overruns /\ \E t \in {there.s, w.s, exit_method(w.s, cwd, w.ok)} : Becomes(boot(t.disk))
  <2>1. PICK added \in read : \E w \in {result(added)} :
                        \/ Becomes(exit_method(w.s, cwd, w.ok))
                        \/ overruns /\ \E t \in {there.s, w.s, exit_method(w.s, cwd, w.ok)} : Becomes(boot(t.disk))
    BY <1>11
  <2>2. PICK w \in {result(added)} :
                        \/ Becomes(exit_method(w.s, cwd, w.ok))
                        \/ overruns /\ \E t \in {there.s, w.s, exit_method(w.s, cwd, w.ok)} : Becomes(boot(t.disk))
    BY <2>1
  <2>3. w.s \in StateType /\ exit_method(w.s, cwd, w.ok) \in StateType
    BY <1>10, <1>11
  <2>4. CASE Becomes(exit_method(w.s, cwd, w.ok))
    BY <2>3, <2>4, BecomesType
  <2>5. CASE overruns /\ \E t \in {there.s, w.s, exit_method(w.s, cwd, w.ok)} : Becomes(boot(t.disk))
    <3>1. PICK t \in StateType : Becomes(boot(t.disk))
      BY <1>6, <2>3, <2>5
    <3> QED
      BY <1>9, <3>1, BecomesType
  <2> QED
    BY <2>2, <2>4, <2>5
<1> QED
  BY <1>2, <1>5, <1>6, <1>7, <1>11, ExitType, BecomesType

(* The directory part that chmod makes of a path to a directory. *)
LEMMA UptoType ==
  ASSUME NEW path \in PathType
  PROVE  Path(path.abs, Append(Front(path.comps), NoName)) \in PathType
<1>1. path.abs \in BOOLEAN /\ path.comps \in Seq(Words) /\ path.comps # <<>>
  BY DEF PathType
<1>2. Len(path.comps) - 1 \in 1 - 1 .. Len(path.comps) /\ 1 \in 1 .. Len(path.comps) + 1
  BY <1>1, EmptySeq
<1>3. Front(path.comps) \in Seq(Words)
  BY <1>1, <1>2, SubSeqProperties DEF Front
<1>4. Append(Front(path.comps), NoName) \in Seq(Words) \ {<<>>}
  BY <1>3, WordsAreText, AppendProperties
<1> QED
  BY <1>1, <1>4 DEF Path, PathType

(* chmod, and the sub-directories it tells. *)
LEMMA ChmodKeeps ==
  ASSUME TypeOK, NEW c \in Commands, c.cmd = "chmod", chmod(c)
  PROVE  TypeOK'
<1>1. c.path \in PathType /\ c.level \in SUBSET Rights
  BY CommandsAssumption
<1>2. SyncRoot(This) \in StateType /\ cwd \in CwdType
  BY ThisType, SyncRootType DEF TypeOK
<1> DEFINE upto == Path(c.path.abs, Append(Front(c.path.comps), NoName))
<1>3. PICK parts, at :
        /\ parts = get_filename_parts(SyncRoot(This), c.path)
        /\ at = change_cwd(SyncRoot(This), IF parts.file # NoName THEN parts.dir ELSE upto).s
        /\ chmod_returns(c, parts, at)
  BY Zenon DEF chmod
<1>4. at \in StateType
  <2>1. parts.dir \in PathType
    BY <1>1, <1>2, <1>3, PartsType
  <2>2. upto \in PathType
    BY <1>1, UptoType
  <2> DEFINE p == IF parts.file # NoName THEN parts.dir ELSE upto
  <2>3. p \in PathType
    BY <2>1, <2>2
  <2> HIDE DEF p
  <2>4. change_cwd(SyncRoot(This), p) \in WriteState
    BY <1>2, <2>3, ChangeCwdType
  <2>5. at = change_cwd(SyncRoot(This), p).s
    BY <1>3 DEF p
  <2> QED
    BY <2>4, <2>5 DEF WriteState
<1> DEFINE given == IF parts.file = NoName THEN Last(c.path.comps) ELSE parts.file
           i     == lookup(at, IF given = NoName /\ at.cwd.blk = ROOT_BLOCK THEN Parent ELSE given)
           entry == at.cwd.entries[i]
           own   == entry.first_blk = at.cwd.blk
           new   == put(at, i, [entry EXCEPT !.rights = c.level])
           set   == [new EXCEPT !.cwd.info.rights = IF own THEN c.level ELSE @]
           changed == IF own THEN set.cwd.entries ELSE AsDir(set.disk[entry.first_blk])
           subs  == IF entry.type # TYPE_DIR THEN {}
                    ELSE {changed[k].first_blk : k \in {k \in Slots \ {0} : changed[k].type = TYPE_DIR}}
           told  == [b \in Blocks |-> IF b \in subs THEN InDir([AsDir(set.disk[b]) EXCEPT ![0].rights = c.level])
                                      ELSE set.disk[b]]
           backup == IF subs # {} /\ cwd.blk # ROOT_BLOCK THEN [cwd EXCEPT !.entries[0].rights = c.level] ELSE cwd
           rest   == [set EXCEPT !.disk = told]
<1>5. \/ Becomes(exit_method(at, cwd, FALSE))
      \/ i # None /\ Becomes(exit_method(rest, backup, TRUE))
  BY <1>3, Zenon DEF chmod_returns
<1>6. i # None => i \in Slots
  BY <1>4, SlotTypes
<1>7. backup \in CwdType
  <2> HIDE DEF subs
  <2> QED
    BY <1>1, <1>2, Numbers DEF CwdType, DirType, EntryType
<1>8. ASSUME i # None PROVE rest \in StateType
  <2>1. entry \in EntryType
    BY <1>4, <1>6, <1>8, EntryTypes
  <2>2. [entry EXCEPT !.rights = c.level] \in EntryType
    <3> HIDE DEF entry
    <3> QED
      BY <1>1, <2>1 DEF EntryType
  <2>3. new \in StateType
    BY <1>4, <1>6, <1>8, <2>2, PutType
  <2>4. set \in StateType
    <3> HIDE DEF new, own
    <3> QED
      BY <1>1, <2>3 DEF StateType, CwdType, EntryType
  <2>5. told \in DiskType
    <3> HIDE DEF set, subs
    <3>1. ASSUME NEW b \in Blocks PROVE told[b] \in BlockType
      <4>1. set.disk[b] \in BlockType
        BY <2>4 DEF StateType, DiskType
      <4>2. PICK d : d = AsDir(set.disk[b])
        OBVIOUS
      <4>3. d \in DirType
        BY <4>1, <4>2, ReadingTypes
      <4>4. [d EXCEPT ![0].rights = c.level] \in DirType
        BY <1>1, <4>3, Numbers DEF DirType, EntryType
      <4>5. InDir([d EXCEPT ![0].rights = c.level]) \in BlockType
        BY <4>4, WritingTypes
      <4> QED
        BY <4>1, <4>2, <4>5
    <3>2. told = [b \in Blocks |-> told[b]]
      OBVIOUS
    <3> HIDE DEF told
    <3> QED
      BY <3>1, <3>2 DEF DiskType
  <2> HIDE DEF set, told
  <2> QED
    BY <2>4, <2>5 DEF StateType
<1> HIDE DEF i, rest, backup
<1> QED
  BY <1>2, <1>4, <1>5, <1>7, <1>8, ExitType, BecomesType

(* The end of the program and the next start. *)
LEMMA RestartKeeps == ASSUME TypeOK, restart PROVE TypeOK'
<1> DEFINE d == [disk EXCEPT ![FAT_BLOCK] = InFat(fat), ![cwd.blk] = InDir(cwd.entries)]
<1>1. InFat(fat) \in BlockType /\ InDir(cwd.entries) \in BlockType
  BY WritingTypes DEF TypeOK, CwdType
<1>2. d \in DiskType
  BY <1>1 DEF TypeOK, DiskType
<1>3. Becomes(boot(d))
  BY DEF restart
<1> HIDE DEF d
<1> QED
  BY <1>2, <1>3, BootType, BecomesType

-----------------------------------------------------------------------------
(* A new disk has its types. *)
LEMMA InitTypes == Init => TypeOK
<1> SUFFICES ASSUME Init PROVE TypeOK
  OBVIOUS
<1>1. InFat(ZeroFat) \in BlockType /\ InDir(ZeroDir) \in BlockType
  BY ZeroTypes, WritingTypes
<1> QED
  BY <1>1, ZeroTypes, Numbers DEF Init, TypeOK, CwdType

(* And every step keeps them. *)
LEMMA StepTypes == TypeOK /\ [Next]_vars => TypeOK'
<1> SUFFICES ASSUME TypeOK, [Next]_vars PROVE TypeOK'
  OBVIOUS
<1>1. CASE UNCHANGED vars
  BY <1>1 DEF TypeOK, vars
<1>2. CASE Next
  <2>1. PICK c \in Commands : Run(c)
    BY <1>2 DEF Next
  <2> QED
    BY <2>1, FormatKeeps, CreateKeeps, CatKeeps, CpKeeps, MvKeeps, RmKeeps, AppendKeeps, MkdirKeeps, CdKeeps,
       ChmodKeeps, RestartKeeps DEF Run
<1> QED
  BY <1>1, <1>2

(* Whatever the users type, the file system keeps its types: no entry, no  *)
(* link of the table and no working directory ever points outside of the   *)
(* disk, and no block holds more text than fits.                           *)
THEOREM FileSystemTypeCorrect == Spec => []TypeOK
BY InitTypes, StepTypes, PTL DEF Spec
=============================================================================
