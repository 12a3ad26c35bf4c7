----------------------------- MODULE TreeProofs -----------------------------
(***************************************************************************)
(* What the loops of write_data, append and rm do to chains, when a set of *)
(* directories is a tree, what a change of one entry makes of a tree, and  *)
(* where a walk along a path leads in it.                                  *)
(***************************************************************************)
EXTENDS FileSystemProofs, FiniteSetTheorems


(* The table f, and the entries that begin a chain: h is a function from   *)
(* these entries, H, to their first blocks.  Only they and links refer to  *)
(* a block, each refers to an allocated one, and no two to the same.       *)
Owned(f, b) == b \in Blocks \ {ROOT_BLOCK, FAT_BLOCK} /\ f[b] # FAT_FREE
Unreferred(f, H, h, b) == (\A i \in H : h[i] # b) /\ (\A d \in Blocks : f[d] # b)

TableGood(f, H, h) ==
  /\ f[ROOT_BLOCK] = FAT_EOF /\ f[FAT_BLOCK] = FAT_EOF
  /\ \A i \in H : Owned(f, h[i])
  /\ \A b \in Blocks : f[b] \in {FAT_FREE, FAT_EOF} \/ Owned(f, f[b])
  /\ \A i, j \in H : h[i] = h[j] => i = j
  /\ \A b, d \in Blocks : f[b] = f[d] => f[b] \in {FAT_FREE, FAT_EOF} \/ b = d
  /\ \A i \in H, b \in Blocks : f[b] # h[i]

(* Nothing refers to a free block. *)
LEMMA FreeUnreferred ==
  ASSUME NEW f \in FatType, NEW H, NEW h, TableGood(f, H, h), NEW b \in Blocks, f[b] = FAT_FREE
  PROVE  b \in Blocks \ {ROOT_BLOCK, FAT_BLOCK} /\ Unreferred(f, H, h, b)
<1>1. b # ROOT_BLOCK /\ b # FAT_BLOCK
  BY DEF TableGood, FAT_FREE, FAT_EOF
<1>2. \A d \in Blocks : f[d] # b
  BY <1>1, Numbers DEF TableGood, Owned, FAT_FREE, ROOT_BLOCK
<1> QED
  BY <1>1, <1>2 DEF TableGood, Owned, Unreferred

(* A chain is cut behind a block. *)
LEMMA CutGood ==
  ASSUME NEW f \in FatType, NEW H, NEW h, TableGood(f, H, h), NEW b \in Blocks \ {ROOT_BLOCK, FAT_BLOCK}
  PROVE  /\ TableGood([f EXCEPT ![b] = FAT_EOF], H, h)
         /\ \A d \in Blocks : Unreferred(f, H, h, d) => Unreferred([f EXCEPT ![b] = FAT_EOF], H, h, d)
<1> DEFINE g == [f EXCEPT ![b] = FAT_EOF]
<1>1. g[b] = FAT_EOF /\ \A d \in Blocks : d # b => g[d] = f[d]
  BY DEF FatType
<1>2. FAT_EOF \notin Blocks /\ FAT_EOF # FAT_FREE /\ ROOT_BLOCK \in Blocks /\ FAT_BLOCK \in Blocks
  BY Numbers
<1>3. \A d : Owned(f, d) => Owned(g, d)
  BY <1>1, <1>2 DEF Owned
<1> HIDE DEF g
<1>4. \A d \in Blocks : Unreferred(f, H, h, d) => Unreferred(g, H, h, d)
  BY <1>1, <1>2 DEF Unreferred
<1>5. TableGood(g, H, h)
  <2>1. \A i \in H : h[i] \in Blocks
    BY DEF TableGood, Owned
  <2> QED
    BY <1>1, <1>2, <1>3, <2>1 DEF TableGood
<1> QED
  BY <1>4, <1>5 DEF g

(* A block that nothing refers to is linked behind another one. *)
LEMMA LinkGood ==
  ASSUME NEW f \in FatType, NEW H, NEW h, TableGood(f, H, h),
         NEW b \in Blocks \ {ROOT_BLOCK, FAT_BLOCK}, f[b] # FAT_FREE,
         NEW e \in Blocks, f[e] = FAT_FREE
  PROVE  LET g == [f EXCEPT ![b] = e, ![e] = FAT_EOF] IN
         /\ TableGood(g, H, h) /\ b # e /\ g[b] # FAT_FREE
         /\ Unreferred(f, H, h, b) => Unreferred(g, H, h, b)
<1> DEFINE g == [f EXCEPT ![b] = e, ![e] = FAT_EOF]
<1>0. e \in Blocks \ {ROOT_BLOCK, FAT_BLOCK} /\ Unreferred(f, H, h, e) /\ b # e
  BY FreeUnreferred
<1>1. g[b] = e /\ g[e] = FAT_EOF /\ \A d \in Blocks : d # b /\ d # e => g[d] = f[d]
  BY <1>0 DEF FatType
<1>2. FAT_EOF \notin Blocks /\ FAT_EOF # FAT_FREE /\ ROOT_BLOCK \in Blocks /\ FAT_BLOCK \in Blocks
      /\ e # FAT_FREE
  BY Numbers, <1>0 DEF FAT_FREE, ROOT_BLOCK
<1> HIDE DEF g
<1>3. \A d : Owned(f, d) => Owned(g, d)
  BY <1>1, <1>2 DEF Owned
<1>4. Owned(g, e)
  BY <1>0, <1>1, <1>2 DEF Owned
<1>5. Unreferred(f, H, h, b) => Unreferred(g, H, h, b)
  BY <1>0, <1>1, <1>2 DEF Unreferred
<1>6. TableGood(g, H, h)
  <2>1. \A d \in Blocks : g[d] \in {FAT_FREE, FAT_EOF} \/ Owned(g, g[d])
    BY <1>1, <1>3, <1>4 DEF TableGood
  <2>2. ASSUME NEW x \in Blocks, NEW y \in Blocks, g[x] = g[y]
        PROVE  g[x] \in {FAT_FREE, FAT_EOF} \/ x = y
    BY <1>0, <1>1, <1>2, <2>2 DEF TableGood, Unreferred
  <2>3. ASSUME NEW i \in H, NEW x \in Blocks PROVE g[x] # h[i]
    <3>1. h[i] \in Blocks /\ h[i] # e
      BY <1>0 DEF TableGood, Owned, Unreferred
    <3> QED
      BY <1>1, <1>2, <3>1 DEF TableGood
  <2>4. g[ROOT_BLOCK] = FAT_EOF /\ g[FAT_BLOCK] = FAT_EOF
    BY <1>0, <1>1, <1>2 DEF TableGood
  <2> QED
    BY <1>3, <2>1, <2>2, <2>3, <2>4 DEF TableGood
<1>7. g[b] # FAT_FREE
  BY <1>1, <1>2
<1> QED
  BY <1>0, <1>5, <1>6, <1>7 DEF g

(* A block that nothing refers to is freed, and then nothing refers to the *)
(* one that it was linked to.                                              *)
LEMMA UnlinkGood ==
  ASSUME NEW f \in FatType, NEW H, NEW h, TableGood(f, H, h),
         NEW b \in Blocks \ {ROOT_BLOCK, FAT_BLOCK}, f[b] # FAT_FREE, Unreferred(f, H, h, b)
  PROVE  LET g == [f EXCEPT ![b] = FAT_FREE] IN
         /\ TableGood(g, H, h)
         /\ f[b] = FAT_EOF \/ (Owned(g, f[b]) /\ Unreferred(g, H, h, f[b]))
<1> DEFINE g == [f EXCEPT ![b] = FAT_FREE]
<1>1. g[b] = FAT_FREE /\ \A d \in Blocks : d # b => g[d] = f[d]
  BY DEF FatType
<1>2. FAT_EOF \notin Blocks /\ FAT_EOF # FAT_FREE /\ ROOT_BLOCK \in Blocks /\ FAT_BLOCK \in Blocks
  BY Numbers
<1> HIDE DEF g
<1>3. \A d : Owned(f, d) /\ d # b => Owned(g, d)
  BY <1>1, <1>2 DEF Owned
<1>4. TableGood(g, H, h)
  <2>1. \A i \in H : Owned(g, h[i]) /\ h[i] # FAT_FREE
    BY <1>3 DEF TableGood, Unreferred, Owned, FAT_FREE, ROOT_BLOCK
  <2>2. \A d \in Blocks : g[d] \in {FAT_FREE, FAT_EOF} \/ Owned(g, g[d])
    BY <1>1, <1>3 DEF TableGood, Unreferred
  <2> QED
    BY <1>1, <1>2, <2>1, <2>2 DEF TableGood
<1>5. ASSUME f[b] # FAT_EOF PROVE Owned(g, f[b]) /\ Unreferred(g, H, h, f[b])
  <2>1. Owned(f, f[b]) /\ f[b] # b /\ f[b] # FAT_FREE
    BY <1>5 DEF TableGood, Unreferred
  <2>2. \A i \in H : h[i] # f[b]
    BY DEF TableGood
  <2>3. \A d \in Blocks : g[d] # f[b]
    BY <1>1, <1>5, <2>1 DEF TableGood
  <2> QED
    BY <1>3, <2>1, <2>2, <2>3 DEF Unreferred
<1> QED
  BY <1>4, <1>5 DEF g

-----------------------------------------------------------------------------
(* What write_data leaves alone: directories, and the links and contents   *)
(* of all allocated blocks but the one it starts with.  A new link leads   *)
(* to a block that was free.                                               *)
WritesOnly(s, t, start) ==
  /\ t.root = s.root /\ t.cwd = s.cwd
  /\ \A b \in Blocks : t.fat[b] \in {s.fat[b], FAT_EOF} \/ (t.fat[b] \in Blocks /\ s.fat[t.fat[b]] = FAT_FREE)
  /\ \A b \in Blocks \ {start} : s.fat[b] # FAT_FREE => t.fat[b] = s.fat[b] /\ t.disk[b] = s.disk[b]

(* A block being written belongs to one chain, or to none yet, and is no   *)
(* directory.                                                              *)
Writes(s, H, h, start, t) ==
  /\ TableGood(t.fat, H, h) /\ t.fat[start] # FAT_FREE
  /\ Unreferred(s.fat, H, h, start) => Unreferred(t.fat, H, h, start)
  /\ AsDir(t.disk[start]) = ZeroDir
  /\ WritesOnly(s, t, start)

(* One turn of the loop of write_data, which may find no block. *)
LEMMA WriteMoreGood ==
  ASSUME NEW s \in StateType, NEW H, NEW h, NEW start \in Blocks \ {ROOT_BLOCK, FAT_BLOCK}, NEW data \in Text,
         NEW w \in WriteState, Writes(s, H, h, start, w.s), NEW k \in 1 .. Len(data) \div BlockSize
  PROVE  Writes(s, H, h, start, write_more(start, data, w, k).s)
<1> DEFINE e == find_empty_block(w.s.fat)
<1>1. w.s \in StateType /\ w.s.fat \in FatType /\ w.s.disk \in DiskType
  BY DEF WriteState, StateType
<1>2. CASE ~w.ok \/ e = None
  <2>1. write_more(start, data, w, k).s = w.s
    BY <1>1, <1>2 DEF write_more, WriteState
  <2> QED
    BY <2>1
<1>3. CASE w.ok /\ e # None
  <2> DEFINE f == [w.s.fat EXCEPT ![start] = e, ![e] = FAT_EOF]
             d == [w.s.disk EXCEPT ![e] = InText(Piece(data, k))]
  <2>1. e \in Blocks /\ w.s.fat[e] = FAT_FREE
    BY <1>1, <1>3, EmptyBlockIs
  <2>2. write_more(start, data, w, k).s = [w.s EXCEPT !.fat = f, !.disk = d]
    <3>1. write_more(start, data, w, k) =
          [w EXCEPT !.s.fat = [@ EXCEPT ![start] = e, ![e] = FAT_EOF], !.s.disk[e] = InText(Piece(data, k))]
      BY <1>3 DEF write_more
    <3> QED
      BY <1>1, <3>1 DEF WriteState, StateType
  <2>3. TableGood(f, H, h) /\ start # e /\ f[start] # FAT_FREE
        /\ (Unreferred(w.s.fat, H, h, start) => Unreferred(f, H, h, start))
    <3>1. TableGood(w.s.fat, H, h) /\ w.s.fat[start] # FAT_FREE
      BY DEF Writes
    <3> HIDE DEF e
    <3> QED
      BY <1>1, <2>1, <3>1, LinkGood
  <2>4. \A b \in Blocks \ {start} : s.fat[b] # FAT_FREE => f[b] = s.fat[b] /\ d[b] = s.disk[b]
    <3>1. \A b \in Blocks \ {start} : s.fat[b] # FAT_FREE => w.s.fat[b] = s.fat[b] /\ w.s.disk[b] = s.disk[b]
      BY DEF Writes, WritesOnly
    <3>2. \A b \in Blocks \ {start} : b # e => f[b] = w.s.fat[b]
      BY <1>1 DEF FatType
    <3>3. \A b \in Blocks : b # e => d[b] = w.s.disk[b]
      BY <1>1 DEF DiskType
    <3> HIDE DEF e, f, d
    <3> QED
      BY <2>1, <3>1, <3>2, <3>3
  <2>7. \A b \in Blocks : f[b] \in {s.fat[b], FAT_EOF} \/ (f[b] \in Blocks /\ s.fat[f[b]] = FAT_FREE)
    <3>1. \A b \in Blocks : \/ w.s.fat[b] \in {s.fat[b], FAT_EOF}
                            \/ w.s.fat[b] \in Blocks /\ s.fat[w.s.fat[b]] = FAT_FREE
      BY DEF Writes, WritesOnly
    <3>2. s.fat[e] = FAT_FREE
      BY <2>1, <2>3 DEF Writes, WritesOnly
    <3>3. f[start] = e /\ f[e] = FAT_EOF /\ \A b \in Blocks : b # start /\ b # e => f[b] = w.s.fat[b]
      BY <1>1, <2>1, <2>3 DEF FatType
    <3> HIDE DEF e, f
    <3> QED
      BY <2>1, <3>1, <3>2, <3>3
  <2>8. AsDir(d[start]) = ZeroDir
    BY <1>1, <2>3 DEF DiskType, Writes
  <2> DEFINE t == [w.s EXCEPT !.fat = f, !.disk = d]
  <2>5. t.fat = f /\ t.disk = d /\ t.root = w.s.root /\ t.cwd = w.s.cwd
    BY <1>1 DEF StateType
  <2> HIDE DEF f, d, t
  <2>6. Writes(s, H, h, start, t)
    BY <2>3, <2>4, <2>5, <2>7, <2>8 DEF Writes, WritesOnly
  <2> QED
    BY <2>2, <2>6 DEF t
<1> QED
  BY <1>2, <1>3

(* write_data, from its first block on. *)
LEMMA WriteGood ==
  ASSUME NEW s \in StateType, NEW H, NEW h, TableGood(s.fat, H, h),
         NEW start \in Blocks \ {ROOT_BLOCK, FAT_BLOCK}, NEW data \in Text
  PROVE  Writes(s, H, h, start, write_data(s, start, data).s)
<1> DEFINE n == Len(data) \div BlockSize
<1>1. PICK a \in [0 .. n -> WriteState] :
           /\ a[0] = [ok |-> TRUE, s |-> first_write(s, start, data)]
           /\ \A k \in 1 .. n : a[k] = write_more(start, data, a[k - 1], k)
           /\ write_data(s, start, data) = a[n]
  BY WriteRuns
<1> DEFINE K == {k \in 0 .. n : Writes(s, H, h, start, a[k].s)}
<1>2. n \in Nat
  BY PiecesCounted
<1>3. 0 \in K
  <2> DEFINE t == first_write(s, start, data)
             f == [s.fat EXCEPT ![start] = FAT_EOF]
  <2>1. t.fat = f /\ t.root = s.root /\ t.cwd = s.cwd
        /\ \A b \in Blocks : b # start => t.disk[b] = s.disk[b]
    BY DEF first_write, StateType, DiskType
  <2>2. f[start] = FAT_EOF /\ (\A b \in Blocks : b # start => f[b] = s.fat[b]) /\ FAT_EOF # FAT_FREE
    BY DEF StateType, FatType, FAT_EOF, FAT_FREE
  <2>3. TableGood(f, H, h) /\ (Unreferred(s.fat, H, h, start) => Unreferred(f, H, h, start))
    BY CutGood DEF StateType
  <2>6. AsDir(t.disk[start]) = ZeroDir
    BY DEF first_write, StateType, DiskType, AsDir, InText
  <2> HIDE DEF t, f
  <2>4. Writes(s, H, h, start, t)
    BY <2>1, <2>2, <2>3, <2>6 DEF Writes, WritesOnly
  <2>5. 0 \in 0 .. n /\ a[0].s = t
    BY <1>1, <1>2 DEF t
  <2> QED
    BY <2>4, <2>5
<1>4. ASSUME NEW k \in 1 .. n, k - 1 \in K PROVE k \in K
  <2>1. k \in 0 .. n /\ k - 1 \in 0 .. n /\ a[k - 1] \in WriteState
    BY <1>1, <1>2
  <2>2. Writes(s, H, h, start, a[k - 1].s)
    BY <1>4
  <2>3. Writes(s, H, h, start, write_more(start, data, a[k - 1], k).s)
    BY <2>1, <2>2, WriteMoreGood
  <2> QED
    BY <1>1, <2>1, <2>3
<1>5. n \in K
  <2> HIDE DEF n, K
  <2>1. \A k \in 0 .. n : k \in K
    BY <1>2, <1>3, <1>4, EveryTurn
  <2> QED
    BY <1>2, <2>1
<1> QED
  BY <1>1, <1>5

-----------------------------------------------------------------------------
(* rm frees a chain block by block, from the entry i that it has taken out *)
(* of H on.  It frees no block of a set P that the chain does not lead to. *)
LEMMA FreeGood ==
  ASSUME NEW f \in FatType, NEW H, NEW h, TableGood(f, H, h), NEW i \in H,
         NEW P, h[i] \notin P, \A b \in Blocks : f[b] \in P => f[b] = FAT_FREE
  PROVE  LET r == free_chain(f, h[i]) IN
         /\ TableGood(r.fat, H \ {i}, h)
         /\ \A b \in Blocks : r.fat[b] = f[b] \/ (b \notin P /\ r.fat[b] = FAT_FREE)
<1> DEFINE G == H \ {i}
           Frees(r) == /\ TableGood(r.fat, G, h) /\ r.blk \notin P \cap Blocks
                       /\ \A b \in Blocks : r.fat[b] = f[b] \/ (b \notin P /\ r.fat[b] = FAT_FREE)
                       /\ r.blk = FAT_EOF \/ (Owned(r.fat, r.blk) /\ Unreferred(r.fat, G, h, r.blk))
<1>0. h[i] \in Blocks /\ Owned(f, h[i])
  BY DEF TableGood, Owned
<1>1. PICK a \in [0 .. NoBlocks -> FreeState] :
        /\ a[0] = [fat |-> f, blk |-> h[i]]
        /\ \A k \in 1 .. NoBlocks : a[k] = free_one(a[k - 1])
        /\ free_chain(f, h[i]) = a[NoBlocks]
  BY <1>0, FreeRuns
<1> DEFINE K == {k \in 0 .. NoBlocks : Frees(a[k])}
<1>2. NoBlocks \in Nat
  BY Numbers
<1>3. 0 \in K
  <2>1. TableGood(f, G, h) /\ Unreferred(f, G, h, h[i])
    BY DEF TableGood, Unreferred
  <2> QED
    BY <1>0, <1>1, <1>2, <2>1
<1>4. ASSUME NEW k \in 1 .. NoBlocks, k - 1 \in K PROVE k \in K
  <2>1. k \in 0 .. NoBlocks /\ k - 1 \in 0 .. NoBlocks /\ a[k - 1] \in FreeState /\ a[k] = free_one(a[k - 1])
    BY <1>1, <1>2
  <2> DEFINE r == a[k - 1]
             g == [r.fat EXCEPT ![r.blk] = FAT_FREE]
  <2>2. Frees(r)
    BY <1>4
  <2>3. CASE r.blk = FAT_EOF
    BY <2>1, <2>2, <2>3 DEF free_one
  <2>4. CASE r.blk # FAT_EOF
    <3>1. a[k].fat = g /\ a[k].blk = r.fat[r.blk]
      BY <2>1, <2>4 DEF free_one
    <3>2. r.fat \in FatType /\ r.blk \in Blocks \ {ROOT_BLOCK, FAT_BLOCK} /\ r.fat[r.blk] # FAT_FREE
      BY <2>1, <2>2, <2>4 DEF FreeState, Owned
    <3>3. TableGood(r.fat, G, h) /\ Unreferred(r.fat, G, h, r.blk)
      BY <2>2, <2>4
    <3>5. r.blk \notin P /\ \A b \in Blocks : r.fat[b] = f[b] \/ (b \notin P /\ r.fat[b] = FAT_FREE)
      BY <2>2, <3>2
    <3>6. \A b \in Blocks : g[b] = f[b] \/ (b \notin P /\ g[b] = FAT_FREE)
      BY <3>2, <3>5 DEF FatType
    <3>7. r.fat[r.blk] \notin P
      BY <3>2, <3>5
    <3> HIDE DEF G, r
    <3>4. TableGood(g, G, h)
          /\ (r.fat[r.blk] = FAT_EOF \/ (Owned(g, r.fat[r.blk]) /\ Unreferred(g, G, h, r.fat[r.blk])))
      BY <3>2, <3>3, UnlinkGood
    <3> QED
      BY <2>1, <3>1, <3>4, <3>6, <3>7
  <2> QED
    BY <2>3, <2>4
<1>5. NoBlocks \in K
  <2> HIDE DEF K
  <2>1. \A k \in 0 .. NoBlocks : k \in K
    BY <1>2, <1>3, <1>4, EveryTurn
  <2> QED
    BY <1>2, <2>1
<1> QED
  BY <1>1, <1>5

(* The last block of a chain, which append writes to, is allocated. *)
LEMMA LastGood ==
  ASSUME NEW f \in FatType, NEW H, NEW h, TableGood(f, H, h), NEW i \in H,
         NEW P, h[i] \notin P, \A b \in Blocks : f[b] \in P => f[b] = FAT_FREE
  PROVE  Owned(f, last_block(f, h[i])) /\ last_block(f, h[i]) \notin P
<1>0. h[i] \in Blocks /\ Owned(f, h[i])
  BY DEF TableGood, Owned
<1>1. PICK a \in [0 .. NoBlocks -> Blocks] :
        /\ a[0] = h[i]
        /\ \A k \in 1 .. NoBlocks : a[k] = block_after(f, a[k - 1])
        /\ last_block(f, h[i]) = a[NoBlocks]
  BY <1>0, LastRuns
<1> DEFINE K == {k \in 0 .. NoBlocks : Owned(f, a[k]) /\ a[k] \notin P}
<1>2. NoBlocks \in Nat
  BY Numbers
<1>3. 0 \in K
  BY <1>0, <1>1, <1>2
<1>4. ASSUME NEW k \in 1 .. NoBlocks, k - 1 \in K PROVE k \in K
  <2>1. k \in 0 .. NoBlocks /\ k - 1 \in 0 .. NoBlocks /\ a[k - 1] \in Blocks /\ a[k] = block_after(f, a[k - 1])
    BY <1>1, <1>2
  <2>2. Owned(f, a[k - 1]) /\ a[k - 1] \notin P
    BY <1>4
  <2>3. Owned(f, block_after(f, a[k - 1])) /\ block_after(f, a[k - 1]) \notin P
    BY <2>1, <2>2 DEF block_after, TableGood, Owned
  <2> QED
    BY <2>1, <2>3
<1>5. NoBlocks \in K
  <2> HIDE DEF K
  <2>1. \A k \in 0 .. NoBlocks : k \in K
    BY <1>2, <1>3, <1>4, EveryTurn
  <2> QED
    BY <1>2, <2>1
<1> QED
  BY <1>1, <1>5

-----------------------------------------------------------------------------
(* The tree: the directories D, their entries E, and the table f.  Slot 0  *)
(* of a directory leads to a directory, an entry with a name has a block,  *)
(* and directories are the blocks that entries of their type lead to.      *)
(* (D may hold directories that nothing leads to any more.)  Files have    *)
(* sizes of a set that leaves room for a terminator in their last blocks.  *)
RoomToCopy(Z) == LocalUse /\ (\E c \in Commands : c.cmd = "cp") => \A z \in Z : z < BlockSize
FileSizes == CHOOSE Z \in SUBSET (0 .. MaxSize) : NeverFill(Z) /\ RoomToCopy(Z)

SlotsIn(D) == D \X (Slots \ {0})
Held(D, E)  == {x \in SlotsIn(D) : E[x[1]][x[2]].first_blk # FAT_FREE}
Heads(D, E) == [x \in SlotsIn(D) |-> E[x[1]][x[2]].first_blk]

DirGood(D, e) ==
  /\ e \in DirType /\ e[0].first_blk \in D
  /\ e[0].name \in {NoName, Parent} /\ (e[0].name = Parent => e[0].type = TYPE_DIR)
  /\ \A i \in Slots \ {0} : /\ e[i].type = TYPE_DIR => e[i].first_blk \in D /\ e[i].first_blk # FAT_FREE
                            /\ e[i].type = TYPE_FILE /\ e[i].first_blk # FAT_FREE =>
                                 e[i].first_blk \notin D /\ e[i].size \in FileSizes
                            /\ e[i].name # NoName => e[i].first_blk # FAT_FREE

DirsGood(D, E) ==
  /\ D \in SUBSET (Blocks \ {FAT_BLOCK}) /\ ROOT_BLOCK \in D
  /\ \A b \in D : DirGood(D, E[b])

TreeGood(f, D, E) ==
  /\ DirsGood(D, E) /\ TableGood(f, Held(D, E), Heads(D, E))
  /\ \A b \in D : f[b] # FAT_FREE
  /\ \A b \in Blocks : f[b] \in D => f[b] = FAT_FREE

(* Directories that have the same entries are as good. *)
LEMMA SameTree ==
  ASSUME NEW f, NEW D, NEW E, NEW F, TreeGood(f, D, E), \A b \in D : F[b] = E[b]
  PROVE  TreeGood(f, D, F)
<1>1. Held(D, F) = Held(D, E) /\ Heads(D, F) = Heads(D, E)
  BY DEF Held, Heads, SlotsIn
<1> QED
  BY <1>1 DEF TreeGood, DirsGood

(* Entries that change without an effect on who refers to which block. *)
LEMMA FewerHeads ==
  ASSUME NEW f, NEW H, NEW h, TableGood(f, H, h), NEW G \in SUBSET H, NEW g, \A x \in G : g[x] = h[x]
  PROVE  TableGood(f, G, g)
BY DEF TableGood

(* An entry that refers to a block that nothing else refers to. *)
LEMMA OneMoreHead ==
  ASSUME NEW f, NEW H, NEW h, TableGood(f, H, h), NEW x, NEW G, G \subseteq H \cup {x}, NEW g,
         \A y \in G \ {x} : g[y] = h[y], Owned(f, g[x]), Unreferred(f, H, h, g[x])
  PROVE  TableGood(f, G, g)
BY DEF TableGood, Unreferred

(* A slot is given an entry: one that refers to nothing, or that alone     *)
(* refers to its block.                                                    *)
LEMMA PutGood ==
  ASSUME NEW f, NEW D, NEW E, TreeGood(f, D, E), NEW b \in D, NEW i \in Slots \ {0}, NEW entry \in EntryType,
         NEW F, \A d \in D \ {b} : F[d] = E[d], F[b] = [E[b] EXCEPT ![i] = entry],
         \/ entry.first_blk = FAT_FREE /\ entry.name = NoName /\ entry.type = TYPE_FILE
         \/ /\ Owned(f, entry.first_blk) /\ Unreferred(f, Held(D, E), Heads(D, E), entry.first_blk)
            /\ entry.first_blk \in D <=> entry.type = TYPE_DIR
            /\ entry.type = TYPE_FILE => entry.size \in FileSizes
  PROVE  TreeGood(f, D, F)
<1> DEFINE x == <<b, i>>
<1>0. D \subseteq Blocks /\ ROOT_BLOCK \in D /\ \A d \in D : DirGood(D, E[d]) /\ E[d] \in DirType
  BY DEF TreeGood, DirsGood, DirGood
<1>1. F[b] \in DirType /\ F[b][i] = entry /\ F[b][0] = E[b][0] /\ \A j \in Slots : j # i => F[b][j] = E[b][j]
  BY <1>0, Numbers DEF DirType
<1>2. entry.type \in {TYPE_FILE, TYPE_DIR} /\ TYPE_FILE # TYPE_DIR
  BY DEF EntryType, TYPE_FILE, TYPE_DIR
<1>3. Owned(f, entry.first_blk) => entry.first_blk # FAT_FREE
  BY DEF Owned, FAT_FREE, ROOT_BLOCK
<1>4. DirGood(D, F[b])
  BY <1>0, <1>1, <1>2, <1>3 DEF DirGood
<1>5. DirsGood(D, F)
  BY <1>4 DEF TreeGood, DirsGood
<1>6. x \in SlotsIn(D) /\ Heads(D, F)[x] = entry.first_blk
  BY <1>1 DEF SlotsIn, Heads
<1>7. \A y \in SlotsIn(D) : y # x => F[y[1]][y[2]] = E[y[1]][y[2]]
  <2>1. \A d \in D, j \in Slots \ {0} : <<d, j>> # x => F[d][j] = E[d][j]
    BY <1>1
  <2>2. \A y \in SlotsIn(D) : y[1] \in D /\ y[2] \in Slots \ {0} /\ y = <<y[1], y[2]>>
    BY DEF SlotsIn
  <2> HIDE DEF x
  <2> QED
    BY <2>1, <2>2
<1>8. \A y \in SlotsIn(D) : y # x => Heads(D, F)[y] = Heads(D, E)[y] /\ (y \in Held(D, F) <=> y \in Held(D, E))
  BY <1>7 DEF Heads, Held
<1>9. Held(D, F) \subseteq SlotsIn(D) /\ Held(D, E) \subseteq SlotsIn(D)
  BY DEF Held
<1>10. x \in Held(D, F) <=> entry.first_blk # FAT_FREE
  BY <1>1, <1>6 DEF Held
<1>11. TableGood(f, Held(D, E), Heads(D, E))
  BY DEF TreeGood
<1>12. TableGood(f, Held(D, F), Heads(D, F))
  <2>1. CASE entry.first_blk = FAT_FREE
    <3>1. Held(D, F) \in SUBSET Held(D, E) /\ \A y \in Held(D, F) : Heads(D, F)[y] = Heads(D, E)[y]
      BY <1>8, <1>9, <1>10, <2>1
    <3> QED
      BY <1>11, <3>1, FewerHeads
  <2>2. CASE entry.first_blk # FAT_FREE
    <3>1. Owned(f, entry.first_blk) /\ Unreferred(f, Held(D, E), Heads(D, E), entry.first_blk)
      BY <2>2
    <3>2. Held(D, F) \subseteq Held(D, E) \cup {x} /\ \A y \in Held(D, F) \ {x} : Heads(D, F)[y] = Heads(D, E)[y]
      BY <1>8, <1>9
    <3> DEFINE G == Held(D, F)
               g == Heads(D, F)
               H == Held(D, E)
               h == Heads(D, E)
    <3>3. TableGood(f, H, h) /\ G \subseteq H \cup {x} /\ (\A y \in G \ {x} : g[y] = h[y])
          /\ Owned(f, g[x]) /\ Unreferred(f, H, h, g[x])
      BY <1>6, <1>11, <3>1, <3>2
    <3>4. TableGood(f, G, g)
      <4> HIDE DEF x, G, g, H, h
      <4> QED
        BY <3>3, OneMoreHead
    <3> QED
      BY <3>4
  <2> QED
    BY <2>1, <2>2
<1> QED
  BY <1>5, <1>12 DEF TreeGood

(* A new directory without entries, which nothing refers to yet. *)
LEMMA NewDirGood ==
  ASSUME NEW f, NEW D, NEW E, TreeGood(f, D, E), NEW b, b \notin D, Owned(f, b),
         Unreferred(f, Held(D, E), Heads(D, E), b), NEW F, \A d \in D : F[d] = E[d],
         F[b] \in DirType, F[b][0].first_blk \in D \cup {b}, F[b][0].name \in {NoName, Parent},
         F[b][0].name = Parent => F[b][0].type = TYPE_DIR, \A i \in Slots \ {0} : F[b][i] = ZeroEntry
  PROVE  /\ TreeGood(f, D \cup {b}, F)
         /\ Unreferred(f, Held(D \cup {b}, F), Heads(D \cup {b}, F), b)
<1> DEFINE B == D \cup {b}
<1>0. /\ D \subseteq Blocks \ {FAT_BLOCK} /\ ROOT_BLOCK \in D /\ b \in Blocks \ {ROOT_BLOCK, FAT_BLOCK}
      /\ \A d \in D : DirGood(D, E[d])
  BY DEF TreeGood, DirsGood, Owned
<1>1. \A d \in D : \A i \in Slots \ {0} : E[d][i].first_blk # FAT_FREE => E[d][i].first_blk # b
  <2> SUFFICES ASSUME NEW d \in D, NEW i \in Slots \ {0}, E[d][i].first_blk # FAT_FREE PROVE E[d][i].first_blk # b
    OBVIOUS
  <2>1. <<d, i>> \in SlotsIn(D) /\ <<d, i>> \in Held(D, E) /\ Heads(D, E)[<<d, i>>] = E[d][i].first_blk
    BY DEF SlotsIn, Held, Heads
  <2> QED
    BY <2>1 DEF Unreferred
<1>2. \A d \in D : DirGood(B, F[d])
  BY <1>0, <1>1 DEF DirGood
<1>3. DirGood(B, F[b])
  <2>1. ZeroEntry.first_blk = FAT_FREE /\ ZeroEntry.name = NoName /\ ZeroEntry.type = TYPE_FILE /\ TYPE_FILE # TYPE_DIR
    BY DEF ZeroEntry, Entry, FAT_FREE, TYPE_FILE, TYPE_DIR
  <2> QED
    BY <2>1 DEF DirGood
<1>4. DirsGood(B, F)
  BY <1>0, <1>2, <1>3 DEF DirsGood
<1>5. Held(B, F) = Held(D, E)
  <2>1. \A i \in Slots \ {0} : F[b][i].first_blk = FAT_FREE
    BY DEF ZeroEntry, Entry, FAT_FREE
  <2>2. SlotsIn(D) \subseteq SlotsIn(B)
    BY DEF SlotsIn
  <2>3. ASSUME NEW x \in Held(B, F) PROVE x \in Held(D, E)
    <3>1. x \in SlotsIn(B) /\ F[x[1]][x[2]].first_blk # FAT_FREE
      BY DEF Held
    <3>2. x = <<x[1], x[2]>> /\ x[1] \in B /\ x[2] \in Slots \ {0}
      BY <3>1 DEF SlotsIn
    <3>3. x[1] # b
      BY <2>1, <3>1, <3>2
    <3>4. x \in SlotsIn(D) /\ F[x[1]] = E[x[1]]
      BY <3>2, <3>3 DEF SlotsIn
    <3> QED
      BY <3>1, <3>4 DEF Held
  <2>4. ASSUME NEW x \in Held(D, E) PROVE x \in Held(B, F)
    <3>1. x \in SlotsIn(D) /\ E[x[1]][x[2]].first_blk # FAT_FREE
      BY DEF Held
    <3>2. F[x[1]] = E[x[1]]
      BY <3>1 DEF SlotsIn
    <3> QED
      BY <2>2, <3>1, <3>2 DEF Held
  <2> QED
    BY <2>3, <2>4
<1>6. \A x \in Held(D, E) : Heads(B, F)[x] = Heads(D, E)[x]
  BY DEF Held, Heads, SlotsIn
<1>7. TableGood(f, Held(B, F), Heads(B, F))
  <2>1. TableGood(f, Held(D, E), Heads(D, E)) /\ Held(B, F) \in SUBSET Held(D, E)
    BY <1>5 DEF TreeGood
  <2>2. \A g : \A G \in SUBSET Held(D, E) : (\A x \in G : g[x] = Heads(D, E)[x]) => TableGood(f, G, g)
    BY <2>1, FewerHeads
  <2> QED
    BY <1>5, <1>6, <2>1, <2>2
<1>8. \A d \in B : f[d] # FAT_FREE
  BY DEF TreeGood, Owned
<1>9. \A d \in Blocks : f[d] \in B => f[d] = FAT_FREE
  BY DEF TreeGood, Unreferred
<1>10. Unreferred(f, Held(B, F), Heads(B, F), b)
  BY <1>5, <1>6 DEF Unreferred
<1> QED
  BY <1>4, <1>7, <1>8, <1>9, <1>10 DEF TreeGood

(* write_data leaves a tree as good, if it does not begin in a directory. *)
LEMMA WriteKeepsTree ==
  ASSUME NEW s \in StateType, NEW t \in StateType, NEW D, NEW E, TreeGood(s.fat, D, E),
         NEW start \in Blocks \ {ROOT_BLOCK, FAT_BLOCK}, start \notin D,
         Writes(s, Held(D, E), Heads(D, E), start, t)
  PROVE  TreeGood(t.fat, D, E)
<1>1. D \subseteq Blocks /\ FAT_EOF \notin D
  BY Numbers DEF TreeGood, DirsGood
<1>2. \A b \in D : t.fat[b] # FAT_FREE
  BY <1>1 DEF TreeGood, Writes, WritesOnly
<1>3. ASSUME NEW b \in Blocks, t.fat[b] \in D PROVE t.fat[b] = FAT_FREE
  <2>1. t.fat[b] \in {s.fat[b], FAT_EOF} \/ s.fat[t.fat[b]] = FAT_FREE
    BY DEF Writes, WritesOnly
  <2> QED
    BY <1>1, <1>3, <2>1 DEF TreeGood
<1> QED
  BY <1>2, <1>3 DEF TreeGood, Writes

(* rm leaves a tree as good, once the entry of the file is cleared. *)
LEMMA FreeKeepsTree ==
  ASSUME NEW f \in FatType, NEW D, NEW E, TreeGood(f, D, E), NEW b \in D, NEW i \in Slots \ {0},
         E[b][i].first_blk # FAT_FREE, E[b][i].type = TYPE_FILE,
         NEW entry \in EntryType, entry.first_blk = FAT_FREE, entry.name = NoName, entry.type = TYPE_FILE,
         NEW F, \A d \in D \ {b} : F[d] = E[d], F[b] = [E[b] EXCEPT ![i] = entry]
  PROVE  TreeGood(free_chain(f, E[b][i].first_blk).fat, D, F)
<1> DEFINE x == <<b, i>>
           H == Held(D, E)
           h == Heads(D, E)
           g == free_chain(f, h[x]).fat
<1>1. x \in H /\ h[x] = E[b][i].first_blk /\ h[x] \notin D
  BY DEF Held, Heads, SlotsIn, TreeGood, DirsGood, DirGood
<1>2. TableGood(f, H, h) /\ \A d \in Blocks : f[d] \in D => f[d] = FAT_FREE
  BY DEF TreeGood
<1>3. TableGood(g, H \ {x}, h) /\ \A d \in Blocks : g[d] = f[d] \/ (d \notin D /\ g[d] = FAT_FREE)
  <2> HIDE DEF x, H, h
  <2>1. x \in H /\ h[x] \notin D
    BY <1>1
  <2> QED
    BY <1>2, <2>1, FreeGood
<1>4. TreeGood(f, D, F)
  BY PutGood
<1>5. Held(D, F) \in SUBSET (H \ {x}) /\ \A y \in Held(D, F) : Heads(D, F)[y] = h[y]
  <2>1. E[b] \in DirType
    BY DEF TreeGood, DirsGood, DirGood
  <2>2. F[b][i] = entry /\ \A j \in Slots : j # i => F[b][j] = E[b][j]
    BY <2>1 DEF DirType
  <2>3. \A y \in SlotsIn(D) : y # x => F[y[1]][y[2]] = E[y[1]][y[2]]
    <3>1. \A d \in D, j \in Slots \ {0} : <<d, j>> # x => F[d][j] = E[d][j]
      BY <2>2
    <3>2. \A y \in SlotsIn(D) : y[1] \in D /\ y[2] \in Slots \ {0} /\ y = <<y[1], y[2]>>
      BY DEF SlotsIn
    <3> HIDE DEF x
    <3> QED
      BY <3>1, <3>2
  <2>4. x \notin Held(D, F)
    BY <2>2 DEF Held
  <2> QED
    BY <2>3, <2>4 DEF Held, Heads
<1>6. TableGood(g, Held(D, F), Heads(D, F))
  <2> HIDE DEF x, H, h, g
  <2> QED
    BY <1>3, <1>5, FewerHeads
<1>7. D \subseteq Blocks
  BY DEF TreeGood, DirsGood
<1> HIDE DEF g
<1>8. \A d \in D : g[d] # FAT_FREE
  BY <1>3, <1>7 DEF TreeGood
<1>9. \A d \in Blocks : g[d] \in D => g[d] = FAT_FREE
  BY <1>2, <1>3
<1>10. TreeGood(g, D, F)
  BY <1>4, <1>6, <1>8, <1>9 DEF TreeGood
<1> QED
  BY <1>1, <1>10 DEF g

-----------------------------------------------------------------------------
(* Local use of the tree: what TreeWellFormed says, in every directory of  *)
(* D, also of the directory that ".." leads to.  Names of directories are  *)
(* for directories only.  Whoever goes up comes to the root: ".." leads to *)
(* a directory of a lower rank.                                            *)
Named(e) ==
  /\ e[0].name = Parent
  /\ \A i \in Slots \ {0} : /\ e[i].first_blk # FAT_FREE => e[i].name \in Names
                            /\ e[i].type = TYPE_DIR => e[i].name \in FolderNames
  /\ \A i, j \in Slots \ {0} : e[i].first_blk # FAT_FREE /\ e[j].first_blk # FAT_FREE /\ e[i].name = e[j].name => i = j

Lists(e, d) == \E i \in Slots \ {0} : e[i].type = TYPE_DIR /\ e[i].first_blk = d
Up(E, d)    == E[d][0].first_blk

Ranked(D, E, rank) ==
  /\ rank \in [D -> Nat] /\ \A d \in D : rank[d] < Cardinality(D)
  /\ \A d \in D \ {ROOT_BLOCK} : rank[Up(E, d)] < rank[d]

Nested(D, E) ==
  /\ \A b \in D : Named(E[b])
  /\ Up(E, ROOT_BLOCK) = ROOT_BLOCK
  /\ \A b, d \in D : Lists(E[b], d) => Up(E, d) = b
  /\ \A d \in D \ {ROOT_BLOCK} : Lists(E[Up(E, d)], d)
  /\ \E rank : Ranked(D, E, rank)

Nest(D, E) == LocalUse => Nested(D, E)

(* Directories that list the same directories are nested as before, if     *)
(* their names are still in order.                                         *)
LEMMA NestedSame ==
  ASSUME NEW D, NEW E, DirsGood(D, E), Nested(D, E), NEW F,
         \A b \in D : Named(F[b]) /\ Up(F, b) = Up(E, b) /\ \A d \in D : Lists(F[b], d) <=> Lists(E[b], d)
  PROVE  Nested(D, F)
<1>1. ROOT_BLOCK \in D /\ \A d \in D : Up(E, d) \in D
  BY DEF DirsGood, DirGood, Up
<1>2. PICK rank : Ranked(D, E, rank)
  BY DEF Nested
<1>3. Ranked(D, F, rank)
  BY <1>2 DEF Ranked
<1> QED
  BY <1>1, <1>3 DEF Nested

(* A slot that lists no directory is given an entry that is free, or a     *)
(* file with a name that no other slot has.                                *)
Fits(e, i, entry) ==
  /\ entry.name \in Names
  /\ \A j \in Slots \ {0, i} : e[j].name # entry.name

(* The tree stays nested then. *)
LEMMA NestedPut ==
  ASSUME NEW D, NEW E, DirsGood(D, E), Nested(D, E), NEW b \in D, NEW i \in Slots \ {0}, E[b][i].type # TYPE_DIR,
         NEW entry \in EntryType, entry.type # TYPE_DIR, entry.first_blk = FAT_FREE \/ Fits(E[b], i, entry),
         NEW F, \A d \in D \ {b} : F[d] = E[d], F[b] = [E[b] EXCEPT ![i] = entry]
  PROVE  Nested(D, F)
<1>1. E[b] \in DirType
  BY DEF DirsGood, DirGood
<1>2. F[b][i] = entry /\ F[b][0] = E[b][0] /\ \A j \in Slots : j # i => F[b][j] = E[b][j]
  BY <1>1, Numbers DEF DirType
<1>3. Named(E[b])
  BY DEF Nested
<1>4. Named(F[b])
  BY <1>2, <1>3 DEF Named, Fits
<1>5. \A d \in D : Lists(F[b], d) <=> Lists(E[b], d)
  BY <1>2 DEF Lists
<1>6. \A d \in D : Named(F[d]) /\ Up(F, d) = Up(E, d)
  BY <1>2, <1>4 DEF Nested, Up
<1>7. \A d \in D : \A x \in D : Lists(F[d], x) <=> Lists(E[d], x)
  BY <1>5
<1> QED
  BY <1>6, <1>7, NestedSame

(* The same, asked for only under local use. *)
LEMMA NestPut ==
  ASSUME NEW D, NEW E, DirsGood(D, E), Nest(D, E), NEW b \in D, NEW i \in Slots \ {0},
         NEW entry \in EntryType, NEW F, \A d \in D \ {b} : F[d] = E[d], F[b] = [E[b] EXCEPT ![i] = entry],
         LocalUse => /\ E[b][i].type # TYPE_DIR /\ entry.type # TYPE_DIR
                     /\ entry.first_blk = FAT_FREE \/ Fits(E[b], i, entry)
  PROVE  Nest(D, F)
<1> SUFFICES ASSUME LocalUse PROVE Nested(D, F)
  BY DEF Nest
<1> QED
  BY NestedPut DEF Nest

(* A new directory is listed by the one that it leads up to.               *)
LEMMA NestedGrow ==
  ASSUME NEW D, NEW E, DirsGood(D, E), Nested(D, E), NEW b \in D, NEW i \in Slots \ {0}, E[b][i].type # TYPE_DIR,
         NEW entry \in EntryType, entry.type = TYPE_DIR, Fits(E[b], i, entry), entry.name \in FolderNames,
         NEW new, new = entry.first_blk, new \notin D, new # ROOT_BLOCK,
         NEW F, \A d \in D \ {b} : F[d] = E[d], F[b] = [E[b] EXCEPT ![i] = entry],
         F[new][0].name = Parent, Up(F, new) = b, \A j \in Slots \ {0} : F[new][j] = ZeroEntry
  PROVE  Nested(D \cup {new}, F)
<1> DEFINE B == D \cup {new}
<1>0. ROOT_BLOCK \in D /\ \A d \in D : E[d] \in DirType /\ Up(E, d) \in D
  BY DEF DirsGood, DirGood, Up
<1>1. /\ F[b][i] = entry /\ F[b][0] = E[b][0] /\ \A j \in Slots : j # i => F[b][j] = E[b][j]
      /\ b # new
  BY <1>0, Numbers DEF DirType
<1>2. ZeroEntry.first_blk = FAT_FREE /\ ZeroEntry.type # TYPE_DIR
  BY DEF ZeroEntry, Entry, FAT_FREE, TYPE_DIR, TYPE_FILE
<1>3. \A d \in D : Up(F, d) = Up(E, d)
  BY <1>1, ZenonT(40) DEF Up
<1>4. Named(F[b])
  <2>1. Named(E[b])
    BY DEF Nested
  <2> QED
    BY <1>1, <2>1 DEF Named, Fits
<1>5. Named(F[new])
  BY <1>2 DEF Named
<1>6. \A d \in B : Named(F[d])
  BY <1>4, <1>5 DEF Nested
<1>7. \A x : ~Lists(F[new], x)
  BY <1>2 DEF Lists
<1>8. \A d \in D, x \in D : ~Lists(E[d], new) /\ (Lists(F[d], x) <=> Lists(E[d], x))
  <2>1. \A d \in D : ~Lists(E[d], new)
    BY DEF DirsGood, DirGood, Lists
  <2>2. \A x \in D : Lists(F[b], x) <=> Lists(E[b], x)
    BY <1>1 DEF Lists
  <2> QED
    BY <2>1, <2>2
<1>9. Lists(F[b], new) /\ \A d \in D \ {b} : ~Lists(F[d], new)
  BY <1>1, <1>8 DEF Lists
<1>10. ASSUME NEW x \in B, NEW d \in B, Lists(F[x], d) PROVE Up(F, d) = x
  <2>1. x \in D
    BY <1>7, <1>10
  <2>2. CASE d = new
    BY <1>9, <1>10, <2>1, <2>2
  <2>3. CASE d \in D
    BY <1>3, <1>8, <1>10, <2>1, <2>3 DEF Nested
  <2> QED
    BY <2>2, <2>3
<1>11. ASSUME NEW d \in B \ {ROOT_BLOCK} PROVE Lists(F[Up(F, d)], d)
  <2>1. CASE d = new
    BY <1>9, <2>1
  <2>2. CASE d \in D
    BY <1>0, <1>3, <1>8, <2>2 DEF Nested
  <2> QED
    BY <2>1, <2>2
<1>12. \E rank : Ranked(B, F, rank)
  <2>1. PICK rank : Ranked(D, E, rank)
    BY DEF Nested
  <2> DEFINE last == [d \in B |-> IF d = new THEN Cardinality(D) ELSE rank[d]]
  <2>2. Cardinality(D) \in Nat /\ Cardinality(B) = Cardinality(D) + 1
    <3>1. IsFiniteSet(Blocks)
      BY SizesAssumption, FS_Interval, SMTT(40) DEF Blocks
    <3>2. D \in SUBSET Blocks
      BY DEF DirsGood
    <3>3. IsFiniteSet(D)
      BY <3>1, <3>2, FS_Subset
    <3> QED
      BY <3>3, FS_CardinalityType, FS_AddElement
  <2>3. \A d \in D : rank[d] \in Nat /\ rank[d] < Cardinality(D)
    BY <2>1 DEF Ranked
  <2>4. \A d \in B : last[d] \in Nat /\ last[d] < Cardinality(B)
    BY <2>2, <2>3
  <2>5. ASSUME NEW d \in B \ {ROOT_BLOCK} PROVE last[Up(F, d)] < last[d]
    <3>1. CASE d = new
      BY <1>1, <2>2, <2>3, <3>1
    <3>2. CASE d \in D
      <4>1. Up(F, d) \in D /\ rank[Up(F, d)] < rank[d] /\ d # new
        BY <1>0, <1>3, <2>1, <3>2 DEF Ranked
      <4> QED
        BY <4>1
    <3> QED
      BY <3>1, <3>2
  <2>6. last \in [B -> Nat]
    BY <2>4
  <2> HIDE DEF last, B
  <2> QED
    BY <2>4, <2>5, <2>6 DEF Ranked
<1>13. Up(F, ROOT_BLOCK) = ROOT_BLOCK
  BY <1>0, <1>3 DEF Nested
<1> HIDE DEF B
<1>14. Nested(B, F)
  BY <1>6, <1>10, <1>11, <1>12, <1>13 DEF Nested
<1> QED
  BY <1>14 DEF B

-----------------------------------------------------------------------------
(* The directories of a file system in the course of a command: the one in *)
(* memory, and the others as they are on disk.                             *)
DirIn(s, b)   == IF b = s.cwd.blk THEN s.cwd.entries ELSE AsDir(s.disk[b])
DirsOf(s, D)  == [b \in D |-> DirIn(s, b)]

(* The entries that rights are looked up in. *)
InfoGood(s, D, info) ==
  info \in {s.cwd.info, s.root[0]} \/ \E b \in D, i \in Slots : info = DirIn(s, b)[i] /\ info.type = TYPE_DIR

(* What a command begins with: the cached root is the root. *)
Rooted(s, D) == s \in StateType /\ DirsGood(D, DirsOf(s, D)) /\ s.cwd.blk \in D /\ s.root = DirIn(s, ROOT_BLOCK)

(* What it comes to by calls of change_cwd alone: it may be in another     *)
(* directory, having written the one it began in.                          *)
Visits(s, t, D) ==
  /\ t \in StateType /\ t.fat = s.fat /\ t.root = s.root
  /\ t.cwd.blk \in D /\ t.cwd.entries = DirIn(s, t.cwd.blk) /\ InfoGood(s, D, t.cwd.info)
  /\ \A b \in Blocks \ D : t.disk[b] = s.disk[b]
  /\ \A b \in D \ {s.cwd.blk} : AsDir(t.disk[b]) = AsDir(s.disk[b])
  /\ t.cwd.blk # s.cwd.blk => AsDir(t.disk[s.cwd.blk]) = s.cwd.entries

(* A walk goes from directory to directory of the tree. *)
LEMMA WalkIntoGood ==
  ASSUME NEW s \in StateType, NEW path \in PathType, NEW D, NEW E, DirsGood(D, E),
         \A b \in D : AsDir(s.disk[b]) = E[b],
         NEW w \in WalkState, w.ok => w.blk \in D /\ w.dir = E[w.blk], NEW k \in 1 .. Len(path.comps)
  PROVE  LET v == walk_into(s, path.comps, {}, w, k) IN
         v.ok => /\ w.ok /\ v.blk \in D /\ v.dir = E[v.blk]
                 /\ \/ v.info = w.info
                    \/ \E b \in D, i \in Slots : v.info = E[b][i] /\ v.info.type = TYPE_DIR
<1> DEFINE c == path.comps[k]
           S == {j \in Slots : w.dir[j].name = c /\ w.dir[j].type = TYPE_DIR}
           found == IF c = NoName THEN {} ELSE S
           e == w.dir[First(found)]
           missed == k < Len(path.comps) /\ CompLen(c) < w.pos
           into == [ok |-> TRUE, blk |-> e.first_blk, info |-> e, dir |-> AsDir(s.disk[e.first_blk]), pos |-> CompLen(c)]
           v == walk_into(s, path.comps, {}, w, k)
<1>1. v = IF ~w.ok \/ missed \/ (c # NoName /\ found = {}) THEN [w EXCEPT !.ok = FALSE]
          ELSE IF found = {} THEN [w EXCEPT !.pos = CompLen(c)] ELSE into
  BY DEF walk_into
<1>2. ASSUME w.ok, found # {} PROVE e.type = TYPE_DIR /\ (\E i \in Slots : e = E[w.blk][i]) /\ e.first_blk \in D
  <2>1. First(found) \in S
    <3>1. found = S /\ S \in SUBSET Nat /\ S # {}
      BY <1>2, Numbers
    <3> HIDE DEF S, found
    <3> QED
      BY <3>1, FirstIn
  <2> DEFINE i == First(found)
  <2>2. i \in Slots /\ w.dir[i].type = TYPE_DIR
    BY <2>1
  <2>3. w.blk \in D /\ w.dir = E[w.blk] /\ DirGood(D, E[w.blk])
    BY <1>2 DEF DirsGood
  <2> HIDE DEF i
  <2>4. w.dir[i].first_blk \in D
    BY <2>2, <2>3 DEF DirGood
  <2> QED
    BY <2>2, <2>3, <2>4 DEF i
<1>3. [w EXCEPT !.ok = FALSE].ok = FALSE
  BY DEF WalkState
<1>4. /\ [w EXCEPT !.pos = CompLen(c)].ok = w.ok /\ [w EXCEPT !.pos = CompLen(c)].blk = w.blk
      /\ [w EXCEPT !.pos = CompLen(c)].dir = w.dir /\ [w EXCEPT !.pos = CompLen(c)].info = w.info
  BY DEF WalkState
<1>5. into.blk = e.first_blk /\ into.info = e /\ into.dir = AsDir(s.disk[e.first_blk])
  OBVIOUS
<1> HIDE DEF found, e, missed, into, v, c
<1>6. CASE ~w.ok \/ missed \/ (c # NoName /\ found = {})
  BY <1>1, <1>3, <1>6 DEF v
<1>7. CASE w.ok /\ ~missed /\ ~(c # NoName /\ found = {}) /\ found = {}
  BY <1>1, <1>4, <1>7 DEF v
<1>8. CASE w.ok /\ ~missed /\ found # {}
  <2>1. v = into
    BY <1>1, <1>8
  <2>2. e.type = TYPE_DIR /\ (\E i \in Slots : e = E[w.blk][i]) /\ e.first_blk \in D /\ w.blk \in D
    BY <1>2, <1>8
  <2>3. into.dir = E[into.blk]
    BY <1>5, <2>2
  <2> QED
    BY <1>5, <1>8, <2>1, <2>2, <2>3 DEF v
<1> QED
  BY <1>6, <1>7, <1>8

(* So does the whole of it, and it ends in a directory whose entries it    *)
(* has read.                                                               *)
LEMMA WalkGood ==
  ASSUME NEW s \in StateType, NEW path \in PathType, NEW D, NEW E, DirsGood(D, E),
         \A b \in D : AsDir(s.disk[b]) = E[b],
         s.root = E[ROOT_BLOCK], s.cwd.blk \in D, s.cwd.entries = E[s.cwd.blk]
  PROVE  LET w == Walk(s, path, {}) IN
         w.ok => /\ w.blk \in D /\ w.dir = E[w.blk]
                 /\ \/ w.info \in {s.cwd.info, s.root[0]}
                    \/ \E b \in D, i \in Slots : w.info = E[b][i] /\ w.info.type = TYPE_DIR
<1> DEFINE n == Len(path.comps)
           Right(w) == w.ok => /\ w.blk \in D /\ w.dir = E[w.blk]
                               /\ \/ w.info \in {s.cwd.info, s.root[0]}
                                  \/ \E b \in D, i \in Slots : w.info = E[b][i] /\ w.info.type = TYPE_DIR
<1>1. {} \in {{}, {0}}
  OBVIOUS
<1>2. PICK a \in [0 .. n -> WalkState] :
           /\ a[0] = walk_from(s, path)
           /\ \A k \in 1 .. n : a[k] = walk_into(s, path.comps, {}, a[k - 1], k)
           /\ Walk(s, path, {}) = a[n]
  BY <1>1, WalkRuns
<1> DEFINE K == {k \in 0 .. n : Right(a[k])}
<1>3. n \in Nat
  BY DEF PathType
<1>4. 0 \in K
  <2>1. ROOT_BLOCK \in D
    BY DEF DirsGood
  <2>2. Right(walk_from(s, path))
    BY <2>1 DEF walk_from
  <2> QED
    BY <1>2, <1>3, <2>2
<1>5. ASSUME NEW k \in 1 .. n, k - 1 \in K PROVE k \in K
  <2>1. k \in 0 .. n /\ k - 1 \in 0 .. n /\ a[k - 1] \in WalkState
    BY <1>2, <1>3
  <2>2. Right(a[k - 1])
    BY <1>5
  <2> DEFINE w == a[k - 1]
             v == walk_into(s, path.comps, {}, w, k)
  <2>3. v.ok => /\ w.ok /\ v.blk \in D /\ v.dir = E[v.blk]
                /\ \/ v.info = w.info
                   \/ \E b \in D, i \in Slots : v.info = E[b][i] /\ v.info.type = TYPE_DIR
    <3>1. w \in WalkState /\ (w.ok => w.blk \in D /\ w.dir = E[w.blk])
      BY <2>1, <2>2
    <3> HIDE DEF w
    <3> QED
      BY <3>1, WalkIntoGood
  <2>4. Right(v)
    <3> HIDE DEF v, w
    <3>1. Right(w)
      BY <2>2 DEF w
    <3> QED
      BY <2>3, <3>1
  <2>5. a[k] = v
    BY <1>2
  <2> HIDE DEF Right, v
  <2> QED
    BY <2>1, <2>4, <2>5
<1>6. n \in K
  <2> HIDE DEF n, K
  <2>1. \A k \in 0 .. n : k \in K
    BY <1>3, <1>4, <1>5, EveryTurn
  <2> QED
    BY <1>3, <2>1
<1>7. Right(a[n])
  BY <1>6
<1> HIDE DEF n
<1> QED
  BY <1>2, <1>7

(* A command begins by visiting the directory it is in. *)
LEMMA VisitsHere == ASSUME NEW s, NEW D, Rooted(s, D) PROVE Visits(s, s, D)
BY DEF Rooted, Visits, DirIn, InfoGood

(* What a visit makes of the directories: nothing. *)
LEMMA VisitsKeep ==
  ASSUME NEW s, NEW t, NEW D, Rooted(s, D), Visits(s, t, D)
  PROVE  (\A b \in D : DirIn(t, b) = DirIn(s, b)) /\ Rooted(t, D)
<1>1. \A b \in D : DirIn(t, b) = DirIn(s, b)
  BY DEF Rooted, Visits, DirIn
<1>2. DirsOf(t, D) = DirsOf(s, D)
  BY <1>1 DEF DirsOf
<1>3. ROOT_BLOCK \in D
  BY DEF Rooted, DirsGood
<1> QED
  BY <1>1, <1>2, <1>3 DEF Rooted, Visits

(* The working directory is written back. *)
LEMMA SavedGood ==
  ASSUME NEW s, NEW t, NEW D, Rooted(s, D), Visits(s, t, D)
  PROVE  Visits(s, Saved(t), D) /\ Saved(t).cwd = t.cwd /\ \A b \in D : AsDir(Saved(t).disk[b]) = DirIn(s, b)
<1> DEFINE u == [t EXCEPT !.disk[t.cwd.blk] = InDir(t.cwd.entries)]
<1>1. t \in StateType /\ t.cwd.blk \in Blocks /\ t.cwd.blk \in D /\ Saved(t) \in StateType
  BY SavedType DEF Visits, StateType, CwdType
<1>2. D \subseteq Blocks /\ ROOT_BLOCK \in D
  BY DEF Rooted, DirsGood
<1>3. /\ u.fat = t.fat /\ u.root = t.root /\ u.cwd = t.cwd
      /\ AsDir(u.disk[t.cwd.blk]) = t.cwd.entries /\ \A b \in Blocks : b # t.cwd.blk => u.disk[b] = t.disk[b]
  BY <1>1 DEF StateType, DiskType, AsDir, InDir
<1>4. Saved(t).fat = t.fat /\ Saved(t).root = t.root /\ Saved(t).cwd = t.cwd /\ Saved(t).disk = u.disk
  <2>1. Saved(t) = IF u.cwd.blk = ROOT_BLOCK THEN [u EXCEPT !.root = u.cwd.entries] ELSE u
    BY DEF Saved, SyncRoot
  <2>2. t.cwd.blk = ROOT_BLOCK => t.root = t.cwd.entries
    BY DEF Visits, Rooted
  <2>3. u \in StateType
    BY <1>1, WritingTypes DEF StateType, DiskType, CwdType
  <2> HIDE DEF u
  <2> QED
    BY <1>3, <2>1, <2>2, <2>3 DEF StateType
<1> HIDE DEF u
<1>5. \A b \in D : AsDir(Saved(t).disk[b]) = DirIn(s, b)
  BY <1>2, <1>3, <1>4 DEF Visits, DirIn
<1>6. Visits(s, Saved(t), D)
  <2> DEFINE v == Saved(t)
  <2>1. /\ v \in StateType /\ v.fat = t.fat /\ v.root = t.root /\ v.cwd = t.cwd
        /\ \A b \in D : AsDir(v.disk[b]) = DirIn(s, b)
    BY <1>1, <1>4, <1>5
  <2>2. \A b \in Blocks \ D : v.disk[b] = t.disk[b]
    BY <1>1, <1>3, <1>4
  <2> HIDE DEF v
  <2>3. s.cwd.blk \in D
    BY DEF Rooted
  <2>4. Visits(s, v, D)
    BY <2>1, <2>2, <2>3 DEF Visits, DirIn
  <2> QED
    BY <2>4 DEF v
<1> QED
  BY <1>4, <1>5, <1>6

(* A call of change_cwd is a visit. *)
LEMMA ChangeVisits ==
  ASSUME NEW s, NEW t, NEW D, Rooted(s, D), Visits(s, t, D), NEW path \in PathType
  PROVE  Visits(s, change_cwd(t, path).s, D)
<1> DEFINE u == Saved(t)
           w == Walk(u, path, {})
           there == [entries |-> w.dir, info |-> w.info, blk |-> w.blk]
           moved == [u EXCEPT !.cwd = there]
           E == DirsOf(s, D)
<1>1. Visits(s, u, D) /\ \A b \in D : AsDir(u.disk[b]) = DirIn(s, b)
  BY SavedGood
<1>2. change_cwd(t, path) = IF path = EmptyPath THEN [ok |-> TRUE, s |-> t]
                            ELSE IF ~w.ok THEN [ok |-> FALSE, s |-> u]
                            ELSE [ok |-> TRUE, s |-> moved]
  BY DEF change_cwd, Saved
<1>3. DirsGood(D, E) /\ (\A b \in D : E[b] = DirIn(s, b)) /\ s \in StateType
  BY DEF Rooted, DirsOf
<1>4. u \in StateType /\ u.root = E[ROOT_BLOCK] /\ u.cwd.blk \in D /\ u.cwd.entries = E[u.cwd.blk]
      /\ \A b \in D : AsDir(u.disk[b]) = E[b]
  BY <1>1, <1>3 DEF Visits, Rooted, DirsGood
<1> HIDE DEF u, E
<1>5. w.ok => /\ w.blk \in D /\ w.dir = E[w.blk]
              /\ \/ w.info \in {u.cwd.info, u.root[0]}
                 \/ \E b \in D, i \in Slots : w.info = E[b][i] /\ w.info.type = TYPE_DIR
  BY <1>3, <1>4, WalkGood
<1>6. ASSUME w.ok PROVE Visits(s, moved, D)
  <2>1. w \in WalkState
    <3>1. {} \in {{}, {0}}
      OBVIOUS
    <3> QED
      BY <1>4, <3>1, WalkType
  <2> HIDE DEF w
  <2>2. there \in CwdType
    BY <2>1 DEF WalkState, CwdType
  <2>3. there.blk \in D /\ there.entries = DirIn(s, there.blk) /\ there.info = w.info
    BY <1>3, <1>5, <1>6
  <2>4. InfoGood(s, D, w.info)
    <3>1. u.root = s.root /\ InfoGood(s, D, u.cwd.info)
      BY <1>1 DEF Visits
    <3> QED
      BY <1>3, <1>5, <1>6, <3>1 DEF InfoGood
  <2> HIDE DEF there
  <2>5. moved \in StateType /\ moved.fat = u.fat /\ moved.root = u.root /\ moved.disk = u.disk /\ moved.cwd = there
    BY <1>4, <2>2 DEF StateType
  <2> HIDE DEF moved
  <2>6. AsDir(u.disk[s.cwd.blk]) = s.cwd.entries
    <3>1. s.cwd.blk \in D
      BY DEF Rooted
    <3> QED
      BY <1>1, <3>1 DEF DirIn
  <2> QED
    BY <1>1, <2>3, <2>4, <2>5, <2>6 DEF Visits
<1> HIDE DEF moved, w
<1> QED
  BY <1>1, <1>2, <1>6

(* A call of change_cwd that fails stays where it is. *)
LEMMA ChangeFails ==
  ASSUME NEW s, NEW t, NEW D, Rooted(s, D), Visits(s, t, D), NEW path, ~change_cwd(t, path).ok
  PROVE  change_cwd(t, path).s.cwd = t.cwd
<1>1. Saved(t).cwd = t.cwd
  BY SavedGood
<1> QED
  BY <1>1 DEF change_cwd, Saved

-----------------------------------------------------------------------------
(* The end of a command.  A file system is a good tree, and one in which   *)
(* the directories are nested if the commands are for local use.           *)
GoodNest(f, D, E) == TreeGood(f, D, E) /\ Nest(D, E)
Tree(s, D) == Rooted(s, D) /\ GoodNest(s.fat, D, DirsOf(s, D))

(* The directories that exit_method leaves: the one it was in, if saved,   *)
(* the one it goes back to, and the others on disk.                        *)
After(u, backup, save, b) ==
  IF save /\ b = u.cwd.blk THEN u.cwd.entries
  ELSE IF b = backup.blk THEN backup.entries ELSE AsDir(u.disk[b])

(* What exit_method leaves, in terms of After.                             *)
LEMMA ExitDirs ==
  ASSUME NEW u \in StateType, NEW backup \in CwdType, NEW save \in BOOLEAN
  PROVE  LET r == exit_method(u, backup, save) IN
         /\ r \in StateType /\ r.fat = u.fat
         /\ r.cwd = IF save /\ u.cwd.blk = backup.blk THEN u.cwd ELSE backup
         /\ r.root = IF backup.blk = ROOT_BLOCK THEN r.cwd.entries ELSE u.root
         /\ \A b \in Blocks : DirIn(r, b) = After(u, backup, save, b)
<1> DEFINE w == [u EXCEPT !.disk[u.cwd.blk] = InDir(u.cwd.entries)]
           v == IF save THEN w ELSE u
           done == IF save /\ u.cwd.blk = backup.blk THEN u ELSE [v EXCEPT !.cwd = backup]
           r == exit_method(u, backup, save)
<1>1. r = SyncRoot(done) /\ r \in StateType
  BY ExitType DEF exit_method
<1>2. u.cwd.blk \in Blocks /\ backup.blk \in Blocks /\ u.disk \in DiskType
  BY DEF StateType, CwdType
<1>3. /\ w.fat = u.fat /\ w.root = u.root /\ w.cwd = u.cwd /\ AsDir(w.disk[u.cwd.blk]) = u.cwd.entries
      /\ (\A b \in Blocks : b # u.cwd.blk => w.disk[b] = u.disk[b]) /\ w \in StateType
  BY <1>2, WritingTypes DEF StateType, DiskType, AsDir, InDir, CwdType
<1> HIDE DEF w
<1>4. /\ v \in StateType /\ v.fat = u.fat /\ v.root = u.root
      /\ \A b \in Blocks : IF save /\ b = u.cwd.blk THEN AsDir(v.disk[b]) = u.cwd.entries ELSE v.disk[b] = u.disk[b]
  BY <1>3
<1> HIDE DEF v
<1>5. /\ done \in StateType /\ done.fat = u.fat /\ done.root = u.root
      /\ done.cwd = IF save /\ u.cwd.blk = backup.blk THEN u.cwd ELSE backup
      /\ done.disk = IF save /\ u.cwd.blk = backup.blk THEN u.disk ELSE v.disk
      /\ done.cwd.blk = backup.blk
  <2>1. CASE save /\ u.cwd.blk = backup.blk
    BY <2>1
  <2>2. CASE ~(save /\ u.cwd.blk = backup.blk)
    BY <1>4, <2>2 DEF StateType
  <2> QED
    BY <2>1, <2>2
<1> HIDE DEF done
<1>6. /\ r.fat = u.fat /\ r.cwd = done.cwd /\ r.disk = done.disk
      /\ r.root = IF backup.blk = ROOT_BLOCK THEN r.cwd.entries ELSE u.root
  BY <1>1, <1>5 DEF SyncRoot, StateType
<1>7. \A b \in Blocks : DirIn(r, b) = After(u, backup, save, b)
  BY <1>4, <1>5, <1>6 DEF DirIn, After
<1> QED
  BY <1>1, <1>5, <1>6, <1>7

(* A command ends where it was given. *)
LEMMA ExitPlace ==
  ASSUME NEW u \in StateType, NEW backup \in CwdType, NEW save \in BOOLEAN
  PROVE  exit_method(u, backup, save).cwd.blk = backup.blk
<1> DEFINE r == exit_method(u, backup, save)
<1>1. r.cwd = IF save /\ u.cwd.blk = backup.blk THEN u.cwd ELSE backup
  BY ExitDirs
<1> QED
  BY <1>1

(* Again, directories that have the same entries are as good. *)
LEMMA SameGoodNest ==
  ASSUME NEW f, NEW D, NEW E, NEW F, GoodNest(f, D, E), \A b \in D : F[b] = E[b]
  PROVE  GoodNest(f, D, F)
<1>1. TreeGood(f, D, E) /\ DirsGood(D, E) /\ TreeGood(f, D, F)
  BY SameTree DEF GoodNest, TreeGood
<1>2. ASSUME Nested(D, E) PROVE Nested(D, F)
  <2>1. \A b \in D : Named(F[b]) /\ Up(F, b) = Up(E, b) /\ \A d \in D : Lists(F[b], d) <=> Lists(E[b], d)
    BY <1>2 DEF Nested, Up
  <2> QED
    BY <1>1, <1>2, <2>1, NestedSame
<1> QED
  BY <1>1, <1>2 DEF GoodNest, Nest

(* A command that comes back to a good tree. *)
LEMMA ExitGood ==
  ASSUME NEW u \in StateType, NEW backup \in CwdType, NEW save \in BOOLEAN, NEW D, NEW F,
         GoodNest(u.fat, D, F), backup.blk \in D, \A b \in D : F[b] = After(u, backup, save, b),
         \/ backup.blk = ROOT_BLOCK
         \/ u.root = AsDir(u.disk[ROOT_BLOCK]) /\ ~(save /\ u.cwd.blk = ROOT_BLOCK)
  PROVE  Tree(exit_method(u, backup, save), D) /\ exit_method(u, backup, save).cwd.blk = backup.blk
<1> DEFINE r == exit_method(u, backup, save)
<1>1. /\ r \in StateType /\ r.fat = u.fat
      /\ r.cwd = IF save /\ u.cwd.blk = backup.blk THEN u.cwd ELSE backup
      /\ r.root = IF backup.blk = ROOT_BLOCK THEN r.cwd.entries ELSE u.root
      /\ \A b \in Blocks : DirIn(r, b) = After(u, backup, save, b)
  BY ExitDirs
<1> HIDE DEF r
<1>2. D \subseteq Blocks /\ ROOT_BLOCK \in D
  BY DEF GoodNest, TreeGood, DirsGood
<1>3. \A b \in D : DirsOf(r, D)[b] = F[b]
  BY <1>1, <1>2 DEF DirsOf
<1>4. GoodNest(r.fat, D, DirsOf(r, D))
  BY <1>1, <1>3, SameGoodNest
<1>5. r.cwd.blk = backup.blk
  BY <1>1
<1>6. r.root = DirIn(r, ROOT_BLOCK)
  <2>1. CASE backup.blk = ROOT_BLOCK
    BY <1>1, <1>5, <2>1 DEF DirIn
  <2>2. CASE backup.blk # ROOT_BLOCK
    BY <1>1, <1>2, <2>2 DEF After
  <2> QED
    BY <2>1, <2>2
<1>7. Rooted(r, D)
  BY <1>1, <1>4, <1>5, <1>6 DEF Rooted, TreeGood, GoodNest
<1> QED
  BY <1>4, <1>5, <1>7 DEF Tree, r

(* A command given in s has visited directories up to t, has perhaps       *)
(* written to blocks of files, in u, and goes back to v:                   *)
Returns(s, t, u, D, v) ==
  /\ Rooted(s, D) /\ Visits(s, t, D) /\ u \in StateType /\ u.cwd.blk \in D /\ u.root = t.root
  /\ (\A b \in D : u.disk[b] = t.disk[b]) /\ GoodNest(u.fat, D, DirsOf(s, D)) /\ v = exit_method(u, s.cwd, FALSE)

(* everything is where it was. *)
LEMMA GoesBack ==
  ASSUME NEW s, NEW t, NEW u, NEW D, NEW v, Returns(s, t, u, D, v)
  PROVE  Tree(v, D) /\ v.cwd = s.cwd /\ v.fat = u.fat /\ \A b \in D : DirIn(v, b) = DirIn(s, b)
<1>0. /\ Rooted(s, D) /\ Visits(s, t, D) /\ u \in StateType /\ u.cwd.blk \in D /\ u.root = t.root
      /\ (\A b \in D : u.disk[b] = t.disk[b]) /\ GoodNest(u.fat, D, DirsOf(s, D)) /\ v = exit_method(u, s.cwd, FALSE)
  BY DEF Returns
<1>1. s.cwd \in CwdType /\ s.cwd.blk \in D /\ ROOT_BLOCK \in D /\ D \subseteq Blocks
  BY <1>0 DEF Rooted, StateType, DirsGood
<1> DEFINE F == DirsOf(s, D)
           backup == s.cwd
           save == FALSE
           r == exit_method(u, backup, save)
<1>2. \A b \in D : F[b] = After(u, backup, save, b) /\ F[b] = DirIn(s, b)
  BY <1>0 DEF DirsOf, DirIn, After, Visits
<1>3. \/ backup.blk = ROOT_BLOCK
      \/ u.root = AsDir(u.disk[ROOT_BLOCK]) /\ ~(save /\ u.cwd.blk = ROOT_BLOCK)
  BY <1>0, <1>1 DEF Rooted, Visits, DirIn
<1>4. save \in BOOLEAN /\ GoodNest(u.fat, D, F) /\ backup \in CwdType /\ backup.blk \in D
  BY <1>0, <1>1
<1>5. r.cwd = backup
  BY <1>0, <1>4, ExitDirs, ZenonT(40)
<1> HIDE DEF F, backup, save
<1>6. Tree(r, D)
  <2>1. /\ u \in StateType /\ backup \in CwdType /\ save \in BOOLEAN /\ GoodNest(u.fat, D, F) /\ backup.blk \in D
        /\ \A b \in D : F[b] = After(u, backup, save, b)
        /\ \/ backup.blk = ROOT_BLOCK
           \/ u.root = AsDir(u.disk[ROOT_BLOCK]) /\ ~(save /\ u.cwd.blk = ROOT_BLOCK)
    BY <1>0, <1>2, <1>3, <1>4
  <2> QED
    BY <2>1, ExitGood
<1>7. r.fat = u.fat /\ \A b \in Blocks : DirIn(r, b) = After(u, backup, save, b)
  BY <1>0, <1>4, ExitDirs
<1>8. v = r
  BY <1>0 DEF backup, save
<1> HIDE DEF r
<1> QED
  BY <1>1, <1>2, <1>5, <1>6, <1>7, <1>8 DEF backup

(* A command given in s ends in r, a good tree, where it was given. *)
Home(s, r) == r.cwd.blk = s.cwd.blk /\ \E B : Tree(r, B)

(* What exit_method is given to end there, with the directories F. *)
Leaves(s, u, backup, save, D, F) ==
  /\ u \in StateType /\ backup \in CwdType /\ save \in BOOLEAN /\ backup.blk \in D /\ backup.blk = s.cwd.blk
  /\ GoodNest(u.fat, D, F) /\ \A d \in D : F[d] = After(u, backup, save, d)
  /\ \/ backup.blk = ROOT_BLOCK
     \/ u.root = AsDir(u.disk[ROOT_BLOCK]) /\ ~(save /\ u.cwd.blk = ROOT_BLOCK)

(* And it does. *)
LEMMA LeavesGood ==
  ASSUME NEW s, NEW u, NEW backup, NEW save, NEW D, NEW F, Leaves(s, u, backup, save, D, F)
  PROVE  Home(s, exit_method(u, backup, save))
<1>1. /\ u \in StateType /\ backup \in CwdType /\ save \in BOOLEAN /\ backup.blk \in D /\ backup.blk = s.cwd.blk
      /\ GoodNest(u.fat, D, F) /\ \A d \in D : F[d] = After(u, backup, save, d)
      /\ \/ backup.blk = ROOT_BLOCK
         \/ u.root = AsDir(u.disk[ROOT_BLOCK]) /\ ~(save /\ u.cwd.blk = ROOT_BLOCK)
  BY DEF Leaves
<1>2. exit_method(u, backup, save).cwd.blk = backup.blk
  BY <1>1, ExitPlace
<1>3. Tree(exit_method(u, backup, save), D)
  BY <1>1, ExitGood
<1> QED
  BY <1>1, <1>2, <1>3 DEF Home

(* The directories of s, with other entries in one of them. *)
Edited(s, D, b, e) == [d \in D |-> IF d = b THEN e ELSE DirIn(s, d)]

(* A command has changed a directory, and saves it.  (If that is the root, *)
(* it must have been given there: finding 2.)                              *)
LEMMA GoesBackSaved ==
  ASSUME NEW s, NEW t, NEW D, Rooted(s, D), Visits(s, t, D), NEW u \in StateType,
         u.cwd.blk = t.cwd.blk, u.root = t.root, \A b \in D : u.disk[b] = t.disk[b],
         s.cwd.blk = ROOT_BLOCK \/ t.cwd.blk # ROOT_BLOCK,
         GoodNest(u.fat, D, Edited(s, D, t.cwd.blk, u.cwd.entries))
  PROVE  Home(s, exit_method(u, s.cwd, TRUE))
<1>1. s.cwd \in CwdType /\ s.cwd.blk \in D /\ ROOT_BLOCK \in D /\ t.cwd.blk \in D
  BY DEF Rooted, StateType, DirsGood, Visits
<1> DEFINE F == Edited(s, D, t.cwd.blk, u.cwd.entries)
           backup == s.cwd
           save == TRUE
           r == exit_method(u, backup, save)
<1>2. \A b \in D : F[b] = After(u, backup, save, b)
  BY <1>1 DEF Edited, DirIn, After, Visits
<1>3. \/ backup.blk = ROOT_BLOCK
      \/ u.root = AsDir(u.disk[ROOT_BLOCK]) /\ ~(save /\ u.cwd.blk = ROOT_BLOCK)
  BY <1>1 DEF Rooted, Visits, DirIn
<1>4. save \in BOOLEAN /\ GoodNest(u.fat, D, F) /\ backup \in CwdType /\ backup.blk \in D
  BY <1>1
<1> HIDE DEF F, backup, save
<1>5. Tree(r, D) /\ r.cwd.blk = backup.blk
  <2>1. /\ u \in StateType /\ backup \in CwdType /\ save \in BOOLEAN /\ GoodNest(u.fat, D, F) /\ backup.blk \in D
        /\ \A b \in D : F[b] = After(u, backup, save, b)
        /\ \/ backup.blk = ROOT_BLOCK
           \/ u.root = AsDir(u.disk[ROOT_BLOCK]) /\ ~(save /\ u.cwd.blk = ROOT_BLOCK)
    BY <1>2, <1>3, <1>4
  <2> QED
    BY <2>1, ExitGood, SMTT(40)
<1> QED
  BY <1>5 DEF Home, backup, save

(* A command that begins in a good tree, and what it looks up.             *)
LEMMA TreeFacts ==
  ASSUME NEW s, NEW D, Tree(s, D)
  PROVE  /\ s \in StateType /\ SyncRoot(s) = s /\ D \subseteq Blocks \ {FAT_BLOCK} /\ ROOT_BLOCK \in D
         /\ s.cwd \in CwdType /\ s.cwd.blk \in D /\ s.fat \in FatType /\ TreeGood(s.fat, D, DirsOf(s, D))
         /\ Rooted(s, D) /\ Visits(s, s, D) /\ Nest(D, DirsOf(s, D))
<1>1. s \in StateType /\ D \subseteq Blocks \ {FAT_BLOCK} /\ ROOT_BLOCK \in D /\ s.cwd.blk \in D /\ s.root = DirIn(s, ROOT_BLOCK)
  BY DEF Tree, Rooted, DirsGood
<1>2. s.cwd.blk = ROOT_BLOCK => [s EXCEPT !.root = s.cwd.entries] = s
  BY <1>1 DEF DirIn, StateType
<1>3. SyncRoot(s) = s
  BY <1>2 DEF SyncRoot
<1> QED
  BY <1>1, <1>3, VisitsHere DEF Tree, StateType, GoodNest

(* A command that has looked at a directory goes back. *)
LEMMA QuietGood ==
  ASSUME NEW s, NEW D, Tree(s, D), NEW t, Visits(s, t, D)
  PROVE  Home(s, exit_method(t, s.cwd, FALSE))
<1>1. PICK v : v = exit_method(t, s.cwd, FALSE)
  OBVIOUS
<1>2. Returns(s, t, t, D, v)
  BY <1>1, TreeFacts DEF Visits, Tree, Returns
<1>3. Tree(v, D) /\ v.cwd = s.cwd
  BY <1>2, GoesBack
<1> QED
  BY <1>1, <1>3 DEF Home

(* A command that has not found its directory stops where it is. *)
LEMMA StopGood ==
  ASSUME NEW s, NEW D, Tree(s, D), NEW t, Visits(s, t, D), t.cwd.blk = s.cwd.blk
  PROVE  Home(s, t)
<1>1. Rooted(t, D) /\ \A b \in D : DirIn(t, b) = DirIn(s, b)
  BY TreeFacts, VisitsKeep
<1>2. DirsOf(t, D) = DirsOf(s, D)
  BY <1>1 DEF DirsOf
<1> QED
  BY <1>1, <1>2 DEF Home, Tree, Visits

(* A command on a file enters its directory. *)
LEMMA EnterVisits ==
  ASSUME NEW s, NEW D, Tree(s, D), NEW parts, parts.dir \in PathType
  PROVE  LET here == enter(s, parts) IN
         /\ Visits(s, here.s, D) /\ (~here.ok => here.s.cwd.blk = s.cwd.blk)
         /\ here.ok => parts.file # NoName /\ here = change_cwd(s, parts.dir)
<1>1. Rooted(s, D) /\ Visits(s, s, D)
  BY TreeFacts
<1>2. Visits(s, change_cwd(s, parts.dir).s, D)
  BY <1>1, ChangeVisits
<1>3. ~change_cwd(s, parts.dir).ok => change_cwd(s, parts.dir).s.cwd = s.cwd
  BY <1>1, ChangeFails
<1> QED
  BY <1>1, <1>2, <1>3 DEF enter

(* A block that has been given to a new entry: nothing else refers to it,  *)
(* and read as a directory it is one without entries.                      *)
YoungDir(D, e) ==
  /\ e \in DirType /\ e[0].first_blk \in D /\ e[0].name \in {NoName, Parent}
  /\ (e[0].name = Parent => e[0].type = TYPE_DIR) /\ \A i \in Slots \ {0} : e[i] = ZeroEntry

NewBlock(s, D, t, blk, u) ==
  /\ u \in StateType /\ u.cwd = t.cwd /\ u.root = t.root /\ \A b \in D : u.disk[b] = t.disk[b]
  /\ GoodNest(u.fat, D, DirsOf(s, D)) /\ blk \notin D /\ Owned(u.fat, blk)
  /\ Unreferred(u.fat, Held(D, DirsOf(s, D)), Heads(D, DirsOf(s, D)), blk)
  /\ YoungDir(D, AsDir(u.disk[blk]))

(* write_data begins a file in the block that find_empty_block returned. *)
LEMMA WroteNew ==
  ASSUME NEW s, NEW D, Tree(s, D), NEW t, Visits(s, t, D), NEW blk \in Blocks, s.fat[blk] = FAT_FREE,
         NEW data \in Text
  PROVE  NewBlock(s, D, t, blk, write_data(t, blk, data).s)
<1> DEFINE E == DirsOf(s, D)
           H == Held(D, E)
           h == Heads(D, E)
           u == write_data(t, blk, data).s
<1>1. t \in StateType /\ t.fat = s.fat /\ t.fat \in FatType /\ TreeGood(t.fat, D, E)
  BY TreeFacts DEF Visits, StateType
<1>2. u \in StateType
  BY <1>1, WriteDataType DEF WriteState
<1>3. TableGood(t.fat, H, h) /\ \A b \in D : t.fat[b] # FAT_FREE
  BY <1>1 DEF TreeGood
<1>4. D \subseteq Blocks /\ ROOT_BLOCK \in D
  BY TreeFacts
<1> HIDE DEF E, H, h
<1>5. blk \in Blocks \ {ROOT_BLOCK, FAT_BLOCK} /\ Unreferred(t.fat, H, h, blk) /\ blk \notin D
  BY <1>1, <1>3, FreeUnreferred
<1>6. Writes(t, H, h, blk, u)
  BY <1>1, <1>3, <1>5, WriteGood
<1> HIDE DEF u
<1>7. TreeGood(u.fat, D, E)
  BY <1>1, <1>2, <1>5, <1>6, WriteKeepsTree DEF H, h
<1>8. \A b \in D : u.disk[b] = t.disk[b]
  BY <1>3, <1>4, <1>5, <1>6 DEF Writes, WritesOnly
<1>9. YoungDir(D, AsDir(u.disk[blk]))
  <2>1. ZeroDir[0] = ZeroEntry /\ ZeroEntry.first_blk = ROOT_BLOCK /\ ZeroEntry.name = NoName /\ NoName # Parent
    BY Numbers DEF ZeroDir, ZeroEntry, Entry, ROOT_BLOCK, NoName, Parent
  <2>2. ZeroDir \in DirType /\ \A i \in Slots \ {0} : ZeroDir[i] = ZeroEntry
    BY ZeroTypes DEF ZeroDir
  <2>3. AsDir(u.disk[blk]) = ZeroDir
    BY <1>6 DEF Writes
  <2> QED
    BY <1>4, <2>1, <2>2, <2>3 DEF YoungDir
<1> QED
  BY <1>2, <1>5, <1>6, <1>7, <1>8, <1>9, TreeFacts DEF NewBlock, GoodNest, Writes, WritesOnly, Owned, E, H, h, u

(* In local use, the entry m fits in slot i of the working directory of t, *)
(* and e, the new directory if it is one, leads up to there.               *)
FitsIn(t, i, m, e) ==
  LocalUse => /\ t.cwd.entries[i].first_blk = FAT_FREE /\ Fits(t.cwd.entries, i, m)
              /\ m.type = TYPE_DIR => m.name \in FolderNames /\ e[0].name = Parent /\ e[0].first_blk = t.cwd.blk

(* The new entry is put into a directory, and the command goes back. *)
LEMMA EntersNew ==
  ASSUME NEW s, NEW D, Tree(s, D), NEW t, Visits(s, t, D), NEW blk, NEW u, NewBlock(s, D, t, blk, u),
         NEW slot \in Slots \ {0}, NEW entry \in EntryType, entry.first_blk = blk,
         entry.type = TYPE_FILE => entry.size \in FileSizes,
         s.cwd.blk = ROOT_BLOCK \/ t.cwd.blk # ROOT_BLOCK, FitsIn(t, slot, entry, AsDir(u.disk[blk]))
  PROVE  Home(s, exit_method(put(u, slot, entry), s.cwd, TRUE))
<1> DEFINE E == DirsOf(s, D)
           B == IF entry.type = TYPE_DIR THEN D \cup {blk} ELSE D
           E1 == [d \in B |-> IF d = blk THEN AsDir(u.disk[blk]) ELSE DirIn(s, d)]
           v == put(u, slot, entry)
           F == [d \in B |-> IF d = t.cwd.blk THEN v.cwd.entries ELSE E1[d]]
<1>1. /\ u \in StateType /\ u.cwd = t.cwd /\ u.root = t.root /\ \A b \in D : u.disk[b] = t.disk[b]
      /\ TreeGood(u.fat, D, E) /\ blk \notin D /\ Owned(u.fat, blk)
      /\ Unreferred(u.fat, Held(D, E), Heads(D, E), blk) /\ YoungDir(D, AsDir(u.disk[blk]))
  BY DEF NewBlock, GoodNest
<1>2. D \subseteq Blocks /\ ROOT_BLOCK \in D /\ s.cwd \in CwdType /\ s.cwd.blk \in D /\ Rooted(s, D) /\ t.cwd.blk \in D
      /\ blk \in Blocks
  BY <1>1, TreeFacts DEF Visits, Owned
<1>3. \A d \in D : E[d] = DirIn(s, d) /\ E1[d] = E[d]
  BY <1>1 DEF DirsOf
<1>4. TreeGood(u.fat, B, E1) /\ Unreferred(u.fat, Held(B, E1), Heads(B, E1), blk)
  <2>1. CASE entry.type = TYPE_DIR
    <3>1. B = D \cup {blk} /\ E1[blk] = AsDir(u.disk[blk])
      BY <2>1
    <3>2. /\ E1[blk] \in DirType /\ E1[blk][0].first_blk \in D \cup {blk} /\ E1[blk][0].name \in {NoName, Parent}
          /\ (E1[blk][0].name = Parent => E1[blk][0].type = TYPE_DIR) /\ \A i \in Slots \ {0} : E1[blk][i] = ZeroEntry
      BY <1>1, <3>1 DEF YoungDir
    <3> HIDE DEF E, E1, B
    <3>3. \A d \in D : E1[d] = E[d]
      BY <1>3
    <3> QED
      BY <1>1, <3>1, <3>2, <3>3, NewDirGood, SMTT(40)
  <2>2. CASE entry.type # TYPE_DIR
    <3>1. B = D /\ E1 = E
      BY <1>1, <2>2 DEF DirsOf
    <3> HIDE DEF E, E1, B
    <3> QED
      BY <1>1, <3>1
  <2> QED
    BY <2>1, <2>2
<1>5. /\ v \in StateType /\ v.fat = u.fat /\ v.root = u.root /\ v.disk = u.disk /\ v.cwd.blk = t.cwd.blk
      /\ v.cwd.entries = [t.cwd.entries EXCEPT ![slot] = entry]
  BY <1>1, PutType DEF put, StateType, CwdType
<1>6. D \subseteq B /\ B \subseteq D \cup {blk} /\ (blk \in B <=> entry.type = TYPE_DIR)
  BY <1>1
<1>7. t.cwd.entries = E1[t.cwd.blk]
  BY <1>2, <1>3 DEF Visits
<1>8. \A d \in B : F[d] = After(v, s.cwd, TRUE, d)
  <2>1. \A d \in D : d # t.cwd.blk /\ d # s.cwd.blk => AsDir(v.disk[d]) = E1[d]
    BY <1>1, <1>2, <1>3, <1>5 DEF Visits, DirIn
  <2>2. t.cwd.blk # s.cwd.blk => s.cwd.entries = E1[s.cwd.blk]
    BY <1>2, <1>3 DEF DirIn
  <2>3. blk \in B => AsDir(v.disk[blk]) = E1[blk]
    BY <1>5
  <2>4. \A d \in B : d # blk => d \in D
    BY <1>6
  <2> HIDE DEF E1, B, v
  <2> QED
    BY <1>1, <1>2, <1>5, <2>1, <2>2, <2>3, <2>4 DEF After
<1>9. \/ s.cwd.blk = ROOT_BLOCK
      \/ v.root = AsDir(v.disk[ROOT_BLOCK]) /\ v.cwd.blk # ROOT_BLOCK
  BY <1>1, <1>2, <1>5 DEF Visits, Rooted, DirIn
<1> HIDE DEF v
<1>14. Nest(B, F)
  <2>1. PICK b, e : b = t.cwd.blk /\ e = AsDir(u.disk[blk])
    OBVIOUS
  <2>2. /\ b \in D /\ blk # ROOT_BLOCK /\ blk \notin D /\ DirsGood(D, E) /\ F[b] = [E[b] EXCEPT ![slot] = entry]
        /\ E[b] = t.cwd.entries /\ \A d \in D \ {b} : F[d] = E[d]
    BY <1>1, <1>2, <1>3, <1>5, <1>7, <2>1, ZenonT(40) DEF TreeGood
  <2>3. blk \in B => F[blk] = e
    BY <2>1, <2>2
  <2>4. entry.type = TYPE_DIR <=> B = D \cup {blk}
    BY <2>2
  <2>5. entry.type # TYPE_DIR => B = D
    BY <2>2
  <2> HIDE DEF E, E1, B, F
  <2>6. ASSUME LocalUse PROVE Nested(B, F)
    <3>1. Nested(D, E) /\ FitsIn(t, slot, entry, e)
      BY <2>1, <2>6 DEF NewBlock, GoodNest, Nest, E
    <3>2. E[b][slot].first_blk = FAT_FREE /\ Fits(E[b], slot, entry) /\ E[b][slot].type # TYPE_DIR
      BY <2>2, <2>6, <3>1 DEF FitsIn, DirsGood, DirGood
    <3>3. CASE entry.type = TYPE_DIR
      <4>1. /\ entry.name \in FolderNames /\ F[blk][0].name = Parent /\ Up(F, blk) = b
            /\ \A j \in Slots \ {0} : F[blk][j] = ZeroEntry
        BY <1>1, <2>1, <2>3, <2>4, <2>6, <3>1, <3>3 DEF FitsIn, Up, YoungDir
      <4>2. Nested(D \cup {blk}, F)
        BY <2>2, <3>1, <3>2, <3>3, <4>1, NestedGrow
      <4> QED
        BY <2>4, <3>3, <4>2
    <3>4. CASE entry.type # TYPE_DIR
      <4>1. Nested(D, F)
        BY <2>2, <3>1, <3>2, <3>4, NestedPut
      <4> QED
        BY <2>5, <3>4, <4>1
    <3> QED
      BY <3>3, <3>4
  <2> QED
    BY <2>6 DEF Nest
<1> HIDE DEF E, E1, B
<1>10. TreeGood(v.fat, B, F)
  <2>1. /\ t.cwd.blk \in B /\ (\A d \in B \ {t.cwd.blk} : F[d] = E1[d])
        /\ F[t.cwd.blk] = [E1[t.cwd.blk] EXCEPT ![slot] = entry]
    BY <1>2, <1>5, <1>6, <1>7
  <2>2. Owned(u.fat, entry.first_blk) /\ Unreferred(u.fat, Held(B, E1), Heads(B, E1), entry.first_blk)
        /\ (entry.first_blk \in B <=> entry.type = TYPE_DIR) /\ (entry.type = TYPE_FILE => entry.size \in FileSizes)
    BY <1>1, <1>4, <1>6
  <2> HIDE DEF F
  <2>3. TreeGood(u.fat, B, F)
    BY <1>4, <2>1, <2>2, PutGood
  <2> QED
    BY <1>5, <2>3
<1> DEFINE backup == s.cwd
           save == TRUE
<1>11. /\ v \in StateType /\ backup \in CwdType /\ save \in BOOLEAN /\ GoodNest(v.fat, B, F) /\ backup.blk \in B
       /\ \A b \in B : F[b] = After(v, backup, save, b)
       /\ \/ backup.blk = ROOT_BLOCK
          \/ v.root = AsDir(v.disk[ROOT_BLOCK]) /\ ~(save /\ v.cwd.blk = ROOT_BLOCK)
  BY <1>2, <1>5, <1>6, <1>8, <1>9, <1>10, <1>14 DEF GoodNest
<1> HIDE DEF F, backup, save
<1>12. Tree(exit_method(v, backup, save), B) /\ exit_method(v, backup, save).cwd.blk = backup.blk
  BY <1>11, ExitGood, SMTT(40)
<1> QED
  BY <1>12 DEF Home, backup, save, v

-----------------------------------------------------------------------------
(* Routes: the directories that a walk along a path comes through.  An     *)
(* empty component stays, any other one is the name of a directory.        *)
Enters(e, c, d) == \E i \in Slots : e[i].name = c /\ e[i].type = TYPE_DIR /\ e[i].first_blk = d

Route(D, E, comps, g) ==
  /\ g \in [0 .. Len(comps) -> D]
  /\ \A k \in 1 .. Len(comps) : IF comps[k] = NoName THEN g[k] = g[k - 1] ELSE Enters(E[g[k - 1]], comps[k], g[k])

(* One turn of the loop of change_cwd. *)
LEMMA WalkEnters ==
  ASSUME NEW s \in StateType, NEW comps, NEW w \in WalkState, w.ok, NEW k, NEW c, c = comps[k],
         NEW v, v = walk_into(s, comps, {}, w, k), v.ok
  PROVE  IF c = NoName THEN v.blk = w.blk ELSE Enters(w.dir, c, v.blk)
<1> DEFINE S == {j \in Slots : w.dir[j].name = c /\ w.dir[j].type = TYPE_DIR}
           found == IF c = NoName THEN {} ELSE S
           e == w.dir[First(found)]
           missed == k < Len(comps) /\ CompLen(c) < w.pos
           into == [ok |-> TRUE, blk |-> e.first_blk, info |-> e, dir |-> AsDir(s.disk[e.first_blk]), pos |-> CompLen(c)]
<1>1. v = IF ~w.ok \/ missed \/ (c # NoName /\ found = {}) THEN [w EXCEPT !.ok = FALSE]
          ELSE IF found = {} THEN [w EXCEPT !.pos = CompLen(c)] ELSE into
  BY DEF walk_into
<1>2. [w EXCEPT !.ok = FALSE].ok = FALSE /\ [w EXCEPT !.pos = CompLen(c)].blk = w.blk
  BY DEF WalkState
<1>3. into.blk = e.first_blk
  OBVIOUS
<1>4. c = NoName => found = {}
  OBVIOUS
<1>5. ASSUME c # NoName, found # {} PROVE Enters(w.dir, c, e.first_blk)
  <2>1. found = S /\ S \in SUBSET Nat /\ S # {}
    BY <1>5, Numbers
  <2>2. First(found) \in S
    <3> HIDE DEF S, found
    <3> QED
      BY <2>1, FirstIn
  <2> QED
    BY <2>2 DEF Enters
<1> HIDE DEF S, found, e, missed, into
<1> QED
  BY <1>1, <1>2, <1>3, <1>4, <1>5

(* What change_cwd returns, in terms of the walk.                          *)
LEMMA WalkArrives ==
  ASSUME NEW s \in StateType, NEW path \in PathType, NEW D, NEW E, DirsGood(D, E),
         \A b \in D : AsDir(s.disk[b]) = E[b],
         s.root = E[ROOT_BLOCK], s.cwd.blk \in D, s.cwd.entries = E[s.cwd.blk], Walk(s, path, {}).ok
  PROVE  \E g : /\ Route(D, E, path.comps, g) /\ g[0] = (IF path.abs THEN ROOT_BLOCK ELSE s.cwd.blk)
                /\ g[Len(path.comps)] = Walk(s, path, {}).blk
<1> DEFINE n == Len(path.comps)
           Right(w) == w.ok /\ w.blk \in D /\ w.dir = E[w.blk]
<1>1. {} \in {{}, {0}}
  OBVIOUS
<1>2. PICK a \in [0 .. n -> WalkState] :
           /\ a[0] = walk_from(s, path)
           /\ \A k \in 1 .. n : a[k] = walk_into(s, path.comps, {}, a[k - 1], k)
           /\ Walk(s, path, {}) = a[n]
  BY <1>1, WalkRuns
<1> DEFINE K == {k \in 0 .. n : a[k].ok => \A j \in 0 .. k : Right(a[j])}
<1>3. n \in Nat
  BY DEF PathType
<1>4. 0 \in K
  <2>1. ROOT_BLOCK \in D
    BY DEF DirsGood
  <2>2. Right(walk_from(s, path))
    BY <2>1 DEF walk_from
  <2>3. \A j \in 0 .. 0 : j = 0
    OBVIOUS
  <2> QED
    BY <1>2, <1>3, <2>2, <2>3
<1>5. ASSUME NEW k \in 1 .. n, k - 1 \in K PROVE k \in K
  <2>1. k \in 0 .. n /\ k - 1 \in 0 .. n /\ a[k - 1] \in WalkState
    BY <1>2, <1>3
  <2>2. a[k - 1].ok => \A j \in 0 .. k - 1 : Right(a[j])
    BY <1>5
  <2> DEFINE w == a[k - 1]
             v == walk_into(s, path.comps, {}, w, k)
  <2>3. v.ok => w.ok /\ v.blk \in D /\ v.dir = E[v.blk]
    <3>1. w \in WalkState /\ (w.ok => w.blk \in D /\ w.dir = E[w.blk])
      BY <2>1, <2>2
    <3> HIDE DEF w
    <3> QED
      BY <3>1, WalkIntoGood
  <2>4. a[k] = v
    BY <1>2
  <2>5. \A j \in 0 .. k : j = k \/ j \in 0 .. k - 1
    BY <1>3
  <2> HIDE DEF v
  <2>6. a[k].ok => Right(a[k]) /\ a[k - 1].ok
    BY <2>3, <2>4
  <2> HIDE DEF Right
  <2> QED
    BY <2>1, <2>2, <2>5, <2>6
<1>6. \A j \in 0 .. n : Right(a[j])
  <2>1. n \in K
    <3> HIDE DEF n, K
    <3>1. \A k \in 0 .. n : k \in K
      BY <1>3, <1>4, <1>5, EveryTurn
    <3> QED
      BY <1>3, <3>1
  <2> QED
    BY <1>2, <2>1
<1> DEFINE g == [k \in 0 .. n |-> a[k].blk]
<1>7. g \in [0 .. n -> D]
  BY <1>6
<1>8. ASSUME NEW k \in 1 .. n
      PROVE  IF path.comps[k] = NoName THEN g[k] = g[k - 1] ELSE Enters(E[g[k - 1]], path.comps[k], g[k])
  <2>1. k \in 0 .. n /\ k - 1 \in 0 .. n
    BY <1>3
  <2>2. PICK w, v : w = a[k - 1] /\ v = a[k]
    OBVIOUS
  <2>3. w \in WalkState /\ w.ok /\ w.dir = E[w.blk] /\ v.ok /\ v = walk_into(s, path.comps, {}, w, k)
    BY <1>2, <1>6, <2>1, <2>2
  <2>4. PICK c : c = path.comps[k]
    OBVIOUS
  <2>5. IF c = NoName THEN v.blk = w.blk ELSE Enters(w.dir, c, v.blk)
    BY <2>3, <2>4, WalkEnters
  <2> QED
    BY <2>1, <2>2, <2>3, <2>4, <2>5
<1>9. g[0] = (IF path.abs THEN ROOT_BLOCK ELSE s.cwd.blk) /\ g[n] = Walk(s, path, {}).blk
  BY <1>2, <1>3 DEF walk_from
<1>10. Route(D, E, path.comps, g)
  BY <1>7, <1>8 DEF Route
<1> QED
  BY <1>9, <1>10

(* Where change_cwd arrives. *)
From(t, path) == IF path.abs THEN ROOT_BLOCK ELSE t.cwd.blk
Comes(t, D, path) ==
  \E g : /\ Route(D, DirsOf(t, D), path.comps, g) /\ g[0] = From(t, path)
         /\ g[Len(path.comps)] = change_cwd(t, path).s.cwd.blk

(* A walk that succeeds ends where a route along its path does. *)
LEMMA ChangeArrives ==
  ASSUME NEW t, NEW D, Rooted(t, D), NEW path \in PathType, change_cwd(t, path).ok
  PROVE  Comes(t, D, path)
<1> DEFINE u == Saved(t)
           w == Walk(u, path, {})
           E == DirsOf(t, D)
           moved == [u EXCEPT !.cwd = [entries |-> w.dir, info |-> w.info, blk |-> w.blk]]
<1>1. change_cwd(t, path) = IF path = EmptyPath THEN [ok |-> TRUE, s |-> t]
                            ELSE IF ~w.ok THEN [ok |-> FALSE, s |-> u] ELSE [ok |-> TRUE, s |-> moved]
  BY DEF change_cwd, Saved
<1>2. Visits(t, u, D) /\ u.cwd = t.cwd /\ \A b \in D : AsDir(u.disk[b]) = DirIn(t, b)
  BY SavedGood, VisitsHere
<1>3. DirsGood(D, E) /\ (\A b \in D : E[b] = DirIn(t, b)) /\ t \in StateType /\ t.cwd.blk \in D
  BY DEF Rooted, DirsOf
<1>4. u \in StateType /\ u.root = E[ROOT_BLOCK] /\ u.cwd.blk \in D /\ u.cwd.entries = E[u.cwd.blk]
      /\ \A b \in D : AsDir(u.disk[b]) = E[b]
  BY <1>2, <1>3 DEF Visits, Rooted, DirsGood
<1>5. CASE path = EmptyPath
  <2> DEFINE g == [k \in 0 .. 1 |-> t.cwd.blk]
  <2>1. ~path.abs /\ path.comps = <<NoName>> /\ Len(path.comps) = 1 /\ path.comps[1] = NoName
    BY <1>5 DEF EmptyPath, Path
  <2>2. g[0] = t.cwd.blk /\ g[1] = t.cwd.blk /\ g \in [0 .. 1 -> D]
    BY <1>3
  <2>3. \A k \in 1 .. 1 : k = 1 /\ k - 1 = 0
    OBVIOUS
  <2>4. change_cwd(t, path).s.cwd.blk = t.cwd.blk
    BY <1>1, <1>5
  <2> HIDE DEF g
  <2>5. Route(D, E, path.comps, g)
    BY <2>1, <2>2, <2>3 DEF Route
  <2> QED
    BY <2>1, <2>2, <2>4, <2>5 DEF Comes, From
<1>6. CASE path # EmptyPath
  <2>1. w.ok
    BY <1>1, <1>6
  <2>2. moved.cwd.blk = w.blk
    BY <1>4 DEF StateType
  <2> HIDE DEF u, E, moved
  <2>5. change_cwd(t, path) = [ok |-> TRUE, s |-> moved]
    <3> HIDE DEF w
    <3> QED
      BY <1>1, <1>6, <2>1
  <2>3. change_cwd(t, path).s.cwd.blk = w.blk
    BY <2>2, <2>5
  <2>4. PICK g : /\ Route(D, E, path.comps, g) /\ g[0] = (IF path.abs THEN ROOT_BLOCK ELSE u.cwd.blk)
                 /\ g[Len(path.comps)] = w.blk
    BY <1>3, <1>4, <2>1, WalkArrives
  <2> QED
    BY <1>2, <2>3, <2>4 DEF Comes, From, E
<1> QED
  BY <1>5, <1>6

(* A directory of a nest holds a name once.                                *)
LEMMA OnceNamed ==
  ASSUME NEW D, NEW e, DirGood(D, e), Named(e), NEW i \in Slots, NEW j \in Slots,
         e[i].type = TYPE_DIR, e[j].type = TYPE_DIR, e[i].name = e[j].name
  PROVE  e[i].first_blk = e[j].first_blk
<1>1. \A k \in Slots \ {0} : e[k].type = TYPE_DIR => e[k].first_blk # FAT_FREE /\ e[k].name \in Names
  BY DEF DirGood, Named
<1>2. Parent \notin Names /\ e[0].name = Parent
  BY NamesAssumption DEF Named
<1>3. CASE i = 0
  BY <1>1, <1>2, <1>3
<1>4. CASE j = 0
  BY <1>1, <1>2, <1>4
<1>5. CASE i # 0 /\ j # 0
  <2>1. i = j
    BY <1>1, <1>5 DEF Named
  <2> QED
    BY <2>1
<1> QED
  BY <1>3, <1>4, <1>5

(* Two routes from one place along the same components come to the same    *)
(* place, if the second tree has no directory that the first one has not.  *)
LEMMA RoutesMeet ==
  ASSUME NEW D, NEW E, DirsGood(D, E), Nested(D, E), NEW F,
         \A b \in D : \A i \in Slots : F[b][i].type = TYPE_DIR => E[b][i] = F[b][i],
         NEW comps, Len(comps) \in Nat, NEW g, NEW h, Route(D, E, comps, g), Route(D, F, comps, h), g[0] = h[0]
  PROVE  g[Len(comps)] = h[Len(comps)]
<1> DEFINE n == Len(comps)
           K == {k \in 0 .. n : g[k] = h[k]}
<1>1. 0 \in K
  OBVIOUS
<1>2. ASSUME NEW k \in 1 .. n, k - 1 \in K PROVE k \in K
  <2>1. k \in 0 .. n /\ k - 1 \in 0 .. n /\ g[k - 1] = h[k - 1] /\ g[k - 1] \in D
    BY <1>2 DEF Route
  <2>2. PICK b, c : b = g[k - 1] /\ c = comps[k]
    OBVIOUS
  <2>3. CASE c = NoName
    BY <2>1, <2>2, <2>3 DEF Route
  <2>4. CASE c # NoName
    <3>1. Enters(E[b], c, g[k]) /\ Enters(F[b], c, h[k])
      BY <2>1, <2>2, <2>4 DEF Route
    <3>2. PICK i \in Slots : E[b][i].name = c /\ E[b][i].type = TYPE_DIR /\ E[b][i].first_blk = g[k]
      BY <3>1 DEF Enters
    <3>3. PICK j \in Slots : F[b][j].name = c /\ F[b][j].type = TYPE_DIR /\ F[b][j].first_blk = h[k]
      BY <3>1 DEF Enters
    <3>4. E[b][j] = F[b][j] /\ DirGood(D, E[b]) /\ Named(E[b])
      BY <2>1, <2>2, <3>3 DEF DirsGood, Nested
    <3>5. E[b][i].first_blk = E[b][j].first_blk
      BY <3>2, <3>3, <3>4, OnceNamed
    <3> QED
      BY <2>1, <3>2, <3>3, <3>4, <3>5
  <2> QED
    BY <2>3, <2>4
<1> HIDE DEF K, n
<1>3. \A k \in 0 .. n : k \in K
  BY <1>1, <1>2, EveryTurn DEF n
<1>4. n \in K
  BY <1>3 DEF n
<1> QED
  BY <1>4 DEF K, n

Along(D, E, F, comps, g, h) ==
  /\ DirsGood(D, E) /\ Nested(D, E) /\ \A b \in D : \A i \in Slots : F[b][i].type = TYPE_DIR => E[b][i] = F[b][i]
  /\ Len(comps) \in Nat /\ Route(D, E, comps, g) /\ Route(D, F, comps, h) /\ g[0] = h[0]

(* The same, said of all of it at once.                                    *)
LEMMA AlongMeet ==
  ASSUME NEW D, NEW E, NEW F, NEW comps, NEW g, NEW h, Along(D, E, F, comps, g, h)
  PROVE  g[Len(comps)] = h[Len(comps)]
<1>1. DirsGood(D, E) /\ Nested(D, E) /\ \A b \in D : \A i \in Slots : F[b][i].type = TYPE_DIR => E[b][i] = F[b][i]
  BY DEF Along
<1>2. Len(comps) \in Nat /\ Route(D, E, comps, g) /\ Route(D, F, comps, h) /\ g[0] = h[0]
  BY DEF Along
<1> QED
  BY <1>1, <1>2, RoutesMeet, SMTT(40)

(* Whoever enters a directory by its name does not come to the root.       *)
LEMMA EntersOff ==
  ASSUME NEW D, NEW e, DirGood(D, e), NEW c \in Names, NEW d, Enters(e, c, d)
  PROVE  d # ROOT_BLOCK
<1>1. PICK i \in Slots : e[i].name = c /\ e[i].type = TYPE_DIR /\ e[i].first_blk = d
  BY DEF Enters
<1>2. i # 0
  BY <1>1, NamesAssumption DEF DirGood
<1>3. e[i].first_blk # FAT_FREE
  BY <1>1, <1>2 DEF DirGood
<1> QED
  BY <1>1, <1>3 DEF FAT_FREE, ROOT_BLOCK

(* What change_cwd then avoids. *)
LeadsOff(path) ==
  \A t, B : Rooted(t, B) /\ t.cwd.blk # ROOT_BLOCK /\ change_cwd(t, path).ok =>
             change_cwd(t, path).s.cwd.blk # ROOT_BLOCK

(* So a path whose last component is a name, or whose last but one is and  *)
(* whose last one is empty, leads off the root.                            *)
NamesPlace(comps) ==
  \/ comps[Len(comps)] \in Names
  \/ Len(comps) > 1 /\ comps[Len(comps)] = NoName /\ comps[Len(comps) - 1] \in Names

(* Wherever in the tree, such a path does not lead to the root. *)
LEMMA PlacesOff ==
  ASSUME NEW path \in PathType, NamesPlace(path.comps) PROVE LeadsOff(path)
<1> SUFFICES ASSUME NEW t, NEW B, Rooted(t, B), change_cwd(t, path).ok PROVE change_cwd(t, path).s.cwd.blk # ROOT_BLOCK
  BY DEF LeadsOff
<1> DEFINE E == DirsOf(t, B)
<1>1. PICK n : n = Len(path.comps)
  OBVIOUS
<1>2. n \in Nat \ {0}
  BY <1>1 DEF PathType
<1>3. PICK g : Route(B, E, path.comps, g) /\ g[n] = change_cwd(t, path).s.cwd.blk
  BY <1>1, ChangeArrives DEF Comes
<1>4. \A b \in B : DirGood(B, E[b])
  BY DEF Rooted, DirsGood
<1> HIDE DEF E
<1>5. CASE path.comps[n] \in Names
  <2>1. path.comps[n] # NoName /\ n \in 1 .. n /\ n - 1 \in 0 .. n
    BY <1>2, <1>5, NamesAssumption
  <2>2. g[n - 1] \in B /\ Enters(E[g[n - 1]], path.comps[n], g[n])
    BY <1>1, <1>3, <2>1 DEF Route
  <2> QED
    BY <1>3, <1>4, <1>5, <2>2, EntersOff
<1>6. CASE n > 1 /\ path.comps[n] = NoName /\ path.comps[n - 1] \in Names
  <2>1. path.comps[n - 1] # NoName /\ n \in 1 .. n /\ n - 1 \in 1 .. n /\ (n - 1) - 1 \in 0 .. n
    BY <1>2, <1>6, NamesAssumption
  <2>2. PICK m : m = n - 1
    OBVIOUS
  <2>3. g[n] = g[m] /\ g[m - 1] \in B /\ Enters(E[g[m - 1]], path.comps[m], g[m])
    BY <1>1, <1>3, <1>6, <2>1, <2>2 DEF Route
  <2>4. g[m] # ROOT_BLOCK
    BY <1>4, <1>6, <2>2, <2>3, EntersOff
  <2> QED
    BY <1>3, <2>3, <2>4
<1> QED
  BY <1>1, <1>5, <1>6 DEF NamesPlace

(* The path that names nothing stays where it is.                          *)
LEMMA EmptyOff == LeadsOff(EmptyPath)
BY DEF LeadsOff, change_cwd

(* A route can be taken from further up, and can stay where it ends.       *)
LEMMA RouteFromAbove ==
  ASSUME NEW D, NEW E, NEW comps \in Seq(Words), NEW g, Route(D, E, comps, g), NEW p \in D, NEW x \in Words \ {NoName},
         Enters(E[p], x, g[0])
  PROVE  \E h : Route(D, E, <<x>> \o comps, h) /\ h[0] = p /\ h[Len(<<x>> \o comps)] = g[Len(comps)]
<1> DEFINE n == Len(comps)
           h == [k \in 0 .. n + 1 |-> IF k = 0 THEN p ELSE g[k - 1]]
           longer == <<x>> \o comps
<1>1. n \in Nat /\ Len(longer) = n + 1 /\ longer[1] = x /\ \A k \in 1 .. n : longer[k + 1] = comps[k]
  OBVIOUS
<1>2. g \in [0 .. n -> D]
  BY DEF Route
<1>3. h \in [0 .. n + 1 -> D]
  <2>1. \A k \in 0 .. n + 1 : k = 0 \/ k - 1 \in 0 .. n
    BY <1>1
  <2> QED
    BY <1>2, <2>1
<1>4. h[0] = p /\ h[1] = g[0] /\ \A k \in 1 .. n + 1 : h[k] = g[k - 1]
  BY <1>1
<1> HIDE DEF h, longer
<1>5. ASSUME NEW k \in 1 .. n + 1
      PROVE  IF longer[k] = NoName THEN h[k] = h[k - 1] ELSE Enters(E[h[k - 1]], longer[k], h[k])
  <2>1. CASE k = 1
    BY <1>1, <1>4, <2>1
  <2>2. CASE k # 1
    <3>1. PICK m \in 1 .. n : k = m + 1
      <4>1. k - 1 \in 1 .. n /\ k = (k - 1) + 1
        BY <1>1, <2>2
      <4> QED
        BY <4>1
    <3>2. longer[k] = comps[m] /\ h[k] = g[m] /\ h[k - 1] = g[m - 1]
      BY <1>1, <1>4, <3>1
    <3> QED
      BY <3>1, <3>2 DEF Route
  <2> QED
    BY <2>1, <2>2
<1>6. Route(D, E, longer, h)
  BY <1>1, <1>3, <1>5 DEF Route
<1>7. h[Len(longer)] = g[n]
  BY <1>1, <1>4
<1> QED
  BY <1>4, <1>6, <1>7 DEF longer

(* The slash that get_filename_parts leaves at the end of a path stays put. *)
LEMMA RouteStays ==
  ASSUME NEW D, NEW E, NEW comps \in Seq(Words), NEW g, Route(D, E, comps, g)
  PROVE  \E h : /\ Route(D, E, comps \o <<NoName>>, h) /\ h[0] = g[0]
                /\ h[Len(comps \o <<NoName>>)] = g[Len(comps)]
<1> DEFINE n == Len(comps)
           h == [k \in 0 .. n + 1 |-> IF k = n + 1 THEN g[n] ELSE g[k]]
           longer == comps \o <<NoName>>
<1>1. n \in Nat /\ Len(longer) = n + 1 /\ longer[n + 1] = NoName /\ \A k \in 1 .. n : longer[k] = comps[k]
  OBVIOUS
<1>2. g \in [0 .. n -> D]
  BY DEF Route
<1>3. h \in [0 .. n + 1 -> D]
  <2>1. \A k \in 0 .. n + 1 : k = n + 1 \/ k \in 0 .. n
    BY <1>1
  <2> QED
    BY <1>1, <1>2, <2>1
<1>4. h[n + 1] = g[n] /\ \A k \in 0 .. n : h[k] = g[k]
  BY <1>1
<1> HIDE DEF h, longer
<1>5. ASSUME NEW k \in 1 .. n + 1
      PROVE  IF longer[k] = NoName THEN h[k] = h[k - 1] ELSE Enters(E[h[k - 1]], longer[k], h[k])
  <2>1. CASE k = n + 1
    <3>1. h[k] = g[n] /\ h[k - 1] = g[n] /\ longer[k] = NoName
      BY <1>1, <1>4, <2>1
    <3> QED
      BY <3>1
  <2>2. CASE k # n + 1
    <3>1. k \in 1 .. n /\ k \in 0 .. n /\ k - 1 \in 0 .. n
      BY <1>1, <2>2
    <3>2. longer[k] = comps[k] /\ h[k] = g[k] /\ h[k - 1] = g[k - 1]
      BY <1>1, <1>4, <3>1
    <3> QED
      BY <3>1, <3>2 DEF Route
  <2> QED
    BY <2>1, <2>2
<1>6. Route(D, E, longer, h)
  BY <1>1, <1>3, <1>5 DEF Route
<1>7. h[Len(longer)] = g[n] /\ h[0] = g[0]
  BY <1>1, <1>4
<1> QED
  BY <1>6, <1>7 DEF longer

(* get_pwd_string has come up to r.blk, from which its names lead back.    *)
LeadsBack(D, E, r, x) ==
  /\ r \in UpState /\ r.blk \in D /\ r.parent = Up(E, r.blk)
  /\ \E g : Route(D, E, r.names, g) /\ g[0] = r.blk /\ g[Len(r.names)] = x
  /\ \A k \in 1 .. Len(r.names) : r.names[k] \in Names

GoesUp(s, D, E, rank, r, x) ==
  /\ s \in StateType /\ DirsGood(D, E) /\ Nested(D, E) /\ Ranked(D, E, rank)
  /\ s.cwd.blk \in D /\ \A b \in D \ {s.cwd.blk} : E[b] = AsDir(s.disk[b])
  /\ LeadsBack(D, E, r, x) /\ r.blk # ROOT_BLOCK /\ rank[r.blk] <= rank[s.cwd.blk]

(* A turn puts one more name in front and comes closer to the root. *)
LEMMA UpOnce ==
  ASSUME NEW s, NEW D, NEW E, NEW rank, NEW r, NEW x, GoesUp(s, D, E, rank, r, x), NEW v, v = pwd_up(s, r)
  PROVE  LeadsBack(D, E, v, x) /\ v.blk = r.parent /\ v.names # <<>> /\ rank[v.blk] < rank[r.blk]
<1>0. /\ s \in StateType /\ DirsGood(D, E) /\ Nested(D, E) /\ Ranked(D, E, rank)
      /\ s.cwd.blk \in D /\ \A b \in D \ {s.cwd.blk} : E[b] = AsDir(s.disk[b])
      /\ LeadsBack(D, E, r, x) /\ r.blk # ROOT_BLOCK /\ rank[r.blk] <= rank[s.cwd.blk]
  BY DEF GoesUp
<1>1. /\ r \in UpState /\ r.blk \in D \ {ROOT_BLOCK} /\ r.parent = Up(E, r.blk) /\ r.names \in Seq(Words)
      /\ \A k \in 1 .. Len(r.names) : r.names[k] \in Names
  BY <1>0 DEF LeadsBack, UpState
<1>2. PICK g : Route(D, E, r.names, g) /\ g[0] = r.blk /\ g[Len(r.names)] = x
  BY <1>0 DEF LeadsBack
<1>3. PICK p : p = r.parent
  OBVIOUS
<1>4. /\ \A b \in D : E[b] \in DirType /\ Up(E, b) \in D /\ rank[b] \in Nat
      /\ ROOT_BLOCK \in D
  BY <1>0 DEF DirsGood, DirGood, Up, Ranked
<1>5. p \in D /\ rank[p] < rank[r.blk] /\ p # s.cwd.blk
  <2>1. p \in D /\ rank[p] < rank[r.blk]
    BY <1>0, <1>1, <1>3, <1>4 DEF Ranked
  <2>2. rank[p] # rank[s.cwd.blk]
    BY <1>0, <1>1, <1>4, <2>1
  <2> QED
    BY <1>0, <2>1, <2>2
<1>6. PICK up : up = AsDir(s.disk[p])
  OBVIOUS
<1>7. up = E[p]
  BY <1>0, <1>5, <1>6
<1> DEFINE found == {j \in Slots : up[j].first_blk = r.blk}
           i == First(found)
<1>8. i \in found
  <2>1. found # {} /\ found \in SUBSET Nat
    BY <1>0, <1>1, <1>3, <1>7, Numbers, ZenonT(40) DEF Nested, Lists
  <2> HIDE DEF found
  <2> QED
    BY <1>0, <2>1, FirstIn
<1>9. i \in Slots /\ up[i].first_blk = r.blk
  BY <1>0, <1>8
<1> HIDE DEF found
<1>10. i # 0
  <2>1. up[0].first_blk = Up(E, p)
    BY <1>0, <1>7 DEF Up
  <2>2. CASE p = ROOT_BLOCK
    BY <1>0, <1>1, <1>9, <2>1, <2>2 DEF Nested
  <2>3. CASE p # ROOT_BLOCK
    <3>1. rank[Up(E, p)] < rank[p]
      BY <1>0, <1>5, <2>3 DEF Ranked
    <3>2. rank[Up(E, p)] # rank[r.blk]
      BY <1>0, <1>1, <1>4, <1>5, <3>1
    <3> QED
      BY <1>0, <1>9, <2>1, <3>2
  <2> QED
    BY <1>0, <2>2, <2>3
<1>11. up[i].type = TYPE_DIR /\ up[i].name \in Names
  <2>1. up[i] \in EntryType /\ DirGood(D, up) /\ Named(up) /\ r.blk # FAT_FREE
    BY <1>0, <1>1, <1>4, <1>5, <1>7, <1>9 DEF DirType, DirsGood, Nested, FAT_FREE, ROOT_BLOCK
  <2>2. up[i].type \in {TYPE_FILE, TYPE_DIR}
    BY <1>0, <2>1 DEF EntryType
  <2> QED
    BY <1>0, <1>1, <1>9, <1>10, <2>1, <2>2 DEF DirGood, Named
<1>12. i # None
  BY <1>0, <1>9, Numbers DEF None
<1> DEFINE name == up[i].name
           names == <<name>> \o r.names
<1>13. Enters(E[p], name, g[0]) /\ name \in Words \ {NoName}
  BY <1>0, <1>2, <1>7, <1>9, <1>11, NamesAssumption DEF Enters, Words
<1>14. v = [blk |-> p, parent |-> up[0].first_blk, names |-> names]
  BY <1>0, <1>1, <1>3, <1>6, <1>12, Zenon DEF pwd_up, found
<1>15. v \in UpState
  BY <1>0, <1>1, PwdUpType
<1> HIDE DEF i
<1>16. \E h : Route(D, E, names, h) /\ h[0] = p /\ h[Len(names)] = x
  <2> HIDE DEF name
  <2> QED
    BY <1>0, <1>1, <1>2, <1>5, <1>13, RouteFromAbove
<1>17. names # <<>> /\ \A k \in 1 .. Len(names) : names[k] \in Names
  <2>1. name \in Names
    BY <1>0, <1>11
  <2>2. Len(names) = Len(r.names) + 1 /\ names[1] = name /\ names # <<>>
    BY <1>1
  <2>3. ASSUME NEW k \in 1 .. Len(names), k # 1 PROVE k - 1 \in 1 .. Len(r.names) /\ names[k] = r.names[k - 1]
    BY <1>1, <2>3
  <2> HIDE DEF name, names
  <2> QED
    BY <1>1, <2>1, <2>2, <2>3
<1> HIDE DEF names
<1>18. v.blk = p /\ v.parent = Up(E, p) /\ v.names = names
  BY <1>0, <1>7, <1>14 DEF Up
<1> QED
  BY <1>0, <1>3, <1>5, <1>15, <1>16, <1>17, <1>18 DEF LeadsBack

(* The names that pwd prints lead from the root to where the user is.      *)
LEMMA PwdDown ==
  ASSUME NEW s, NEW D, Rooted(s, D), NEW E, E = DirsOf(s, D), Nested(D, E), s.cwd.blk # ROOT_BLOCK
  PROVE  /\ pwd_comps(s) \in Seq(Words) \ {<<>>} /\ \A k \in 1 .. Len(pwd_comps(s)) : pwd_comps(s)[k] \in Names
         /\ \E g : Route(D, E, pwd_comps(s), g) /\ g[0] = ROOT_BLOCK /\ g[Len(pwd_comps(s))] = s.cwd.blk
<1>1. /\ s \in StateType /\ DirsGood(D, E) /\ s.cwd.blk \in D /\ ROOT_BLOCK \in D /\ D \subseteq Blocks
      /\ \A b \in D \ {s.cwd.blk} : E[b] = AsDir(s.disk[b])
  BY DEF Rooted, DirsOf, DirIn, DirsGood
<1> QED
  <2>1. PICK a \in [0 .. NoBlocks -> UpState] :
             /\ a[0] = pwd_from(s)
             /\ \A k \in 1 .. NoBlocks : a[k] = pwd_up(s, a[k - 1])
             /\ pwd_comps(s) = a[NoBlocks].names
    BY <1>1, UpRuns
  <2>2. PICK rank : Ranked(D, E, rank)
    BY DEF Nested
  <2>3. PICK x, top : x = s.cwd.blk /\ top = rank[x]
    OBVIOUS
  <2>4. NoBlocks \in Nat /\ top \in Nat /\ top < NoBlocks /\ \A b \in D : rank[b] \in Nat
    <3>1. NoBlocks \in Nat \ {0} /\ IsFiniteSet(Blocks) /\ Cardinality(Blocks) = NoBlocks
      <4>1. NoBlocks \in Nat \ {0} /\ NoBlocks - 1 \in Int /\ 0 \in Int /\ NoBlocks - 1 >= 0
        BY SizesAssumption DEF FAT_BLOCK
      <4>2. IsFiniteSet(Blocks) /\ Cardinality(Blocks) = (NoBlocks - 1) - 0 + 1
        BY <4>1, FS_Interval, SMTT(40) DEF Blocks
      <4> QED
        BY <4>1, <4>2
    <3>2. IsFiniteSet(D) /\ Cardinality(D) <= Cardinality(Blocks)
      BY <1>1, <3>1, FS_Subset
    <3>3. Cardinality(D) \in Nat
      BY <3>2, FS_CardinalityType
    <3> QED
      BY <1>1, <2>2, <2>3, <3>1, <3>2, <3>3 DEF Ranked
  <2> DEFINE Going(r, k) == /\ LeadsBack(D, E, r, x) /\ (k > 0 => r.names # <<>>)
                            /\ r.blk = ROOT_BLOCK \/ rank[r.blk] + k <= top
             K == {k \in 0 .. NoBlocks : Going(a[k], k)}
  <2>5. 0 \in K
    <3>1. PICK r : r = a[0]
      OBVIOUS
    <3>2. r = [blk |-> x, parent |-> s.cwd.entries[0].first_blk, names |-> <<>>] /\ r \in UpState
      BY <1>1, <2>1, <2>3, <2>4, <3>1 DEF pwd_from
    <3>3. r.parent = Up(E, x)
      BY <1>1, <2>3, <3>2 DEF Up, DirsOf, DirIn
    <3> DEFINE g == [k \in 0 .. 0 |-> x]
    <3>4. g[0] = x /\ g \in [0 .. 0 -> D] /\ Len(r.names) = 0 /\ r.names = <<>> /\ r.blk = x
      BY <1>1, <2>3, <3>2
    <3> HIDE DEF g
    <3>5. Route(D, E, r.names, g)
      BY <3>4 DEF Route
    <3>6. LeadsBack(D, E, r, x)
      BY <1>1, <2>3, <3>2, <3>3, <3>4, <3>5 DEF LeadsBack
    <3> QED
      BY <2>3, <2>4, <3>1, <3>4, <3>6
  <2>6. ASSUME NEW k \in 1 .. NoBlocks, k - 1 \in K PROVE k \in K
    <3>1. PICK r, v, m : r = a[k - 1] /\ v = a[k] /\ m = k - 1
      OBVIOUS
    <3>2. v = pwd_up(s, r) /\ Going(r, m) /\ k \in 0 .. NoBlocks /\ m \in Nat /\ k = m + 1
      BY <2>1, <2>4, <2>6, <3>1
    <3>3. CASE r.blk = ROOT_BLOCK
      <4>1. v = r
        BY <3>2, <3>3 DEF pwd_up
      <4>2. r.names # <<>>
        <5>1. CASE m > 0
          BY <3>2, <5>1
        <5>2. CASE m = 0
          BY <2>1, <3>1, <3>2, <3>3, <5>2 DEF pwd_from
        <5> QED
          BY <3>2, <5>1, <5>2
      <4> QED
        BY <3>1, <3>2, <3>3, <4>1, <4>2
    <3>4. CASE r.blk # ROOT_BLOCK
      <4>1. LeadsBack(D, E, r, x) /\ r.blk \in D /\ rank[r.blk] \in Nat /\ rank[r.blk] + m <= top
        BY <2>4, <3>2, <3>4 DEF LeadsBack
      <4>2. rank[r.blk] <= rank[s.cwd.blk]
        BY <2>3, <2>4, <3>2, <4>1
      <4>3. LeadsBack(D, E, v, x) /\ v.blk = r.parent /\ v.names # <<>> /\ rank[v.blk] < rank[r.blk]
        <5>1. GoesUp(s, D, E, rank, r, x)
          BY <1>1, <2>2, <3>4, <4>1, <4>2 DEF GoesUp
        <5> HIDE DEF Going, K
        <5> QED
          BY <3>2, <5>1, UpOnce
      <4>4. v.blk \in D /\ rank[v.blk] \in Nat
        BY <2>4, <4>3 DEF LeadsBack
      <4>5. rank[v.blk] + k <= top
        BY <2>4, <3>2, <4>1, <4>3, <4>4
      <4> QED
        BY <3>1, <3>2, <4>3, <4>5
    <3> QED
      BY <3>3, <3>4
  <2>7. Going(a[NoBlocks], NoBlocks)
    <3>1. NoBlocks \in K
      <4> HIDE DEF K
      <4>1. \A k \in 0 .. NoBlocks : k \in K
        BY <2>4, <2>5, <2>6, EveryTurn
      <4> QED
        BY <2>4, <4>1
    <3> QED
      BY <3>1
  <2>8. PICK r : r = a[NoBlocks]
    OBVIOUS
  <2>9. LeadsBack(D, E, r, x) /\ r.names # <<>> /\ (r.blk = ROOT_BLOCK \/ rank[r.blk] + NoBlocks <= top)
    BY <2>4, <2>7, <2>8
  <2> HIDE DEF Going, K
  <2>10. r.blk = ROOT_BLOCK
    BY <2>4, <2>9 DEF LeadsBack
  <2>11. PICK g : Route(D, E, r.names, g) /\ g[0] = r.blk /\ g[Len(r.names)] = x
    BY <2>9 DEF LeadsBack
  <2>12. r.names \in Seq(Words) /\ (\A k \in 1 .. Len(r.names) : r.names[k] \in Names) /\ pwd_comps(s) = r.names
    BY <2>1, <2>8, <2>9 DEF LeadsBack, UpState
  <2> QED
    BY <2>3, <2>9, <2>10, <2>11, <2>12

(* The path that pwd prints leads back to where the user is.               *)
HomePath(s) == Path(TRUE, pwd_comps(s) \o <<NoName>>)

(* A route along it goes from the root to the working directory.           *)
LEMMA PwdRoute ==
  ASSUME NEW s, NEW D, Rooted(s, D), NEW E, E = DirsOf(s, D), Nested(D, E)
  PROVE  LET comps == pwd_comps(s) \o <<NoName>> IN
         /\ \E g : Route(D, E, comps, g) /\ g[0] = ROOT_BLOCK /\ g[Len(comps)] = s.cwd.blk
         /\ s.cwd.blk # ROOT_BLOCK => NamesPlace(comps)
<1>1. /\ s \in StateType /\ DirsGood(D, E) /\ s.cwd.blk \in D /\ ROOT_BLOCK \in D /\ D \subseteq Blocks
      /\ \A b \in D \ {s.cwd.blk} : E[b] = AsDir(s.disk[b])
  BY DEF Rooted, DirsOf, DirIn, DirsGood
<1>2. CASE s.cwd.blk = ROOT_BLOCK
  <2> DEFINE comps == <<NoName>>
             g == [k \in 0 .. 1 |-> ROOT_BLOCK]
  <2>1. pwd_comps(s) = comps /\ Len(comps) = 1 /\ comps[1] = NoName /\ comps \in Seq(Words)
    BY <1>2, WordsAreText DEF pwd_comps
  <2>2. g[0] = ROOT_BLOCK /\ g[1] = ROOT_BLOCK /\ g \in [0 .. 1 -> D] /\ \A k \in 1 .. 1 : k = 1 /\ k - 1 = 0
    BY <1>1
  <2> HIDE DEF comps, g
  <2>3. Route(D, E, comps, g)
    BY <2>1, <2>2 DEF Route
  <2>4. \E h : /\ Route(D, E, comps \o <<NoName>>, h) /\ h[0] = g[0]
               /\ h[Len(comps \o <<NoName>>)] = g[Len(comps)]
    <3>1. PICK c : c = comps
      OBVIOUS
    <3>2. c \in Seq(Words) /\ Route(D, E, c, g)
      BY <2>1, <2>3, <3>1
    <3> QED
      BY <3>1, <3>2, RouteStays
  <2> QED
    BY <1>2, <2>1, <2>2, <2>4
<1>3. CASE s.cwd.blk # ROOT_BLOCK
  <2>1. PICK names : names = pwd_comps(s)
    OBVIOUS
  <2>2. names \in Seq(Words) \ {<<>>} /\ \A k \in 1 .. Len(names) : names[k] \in Names
    BY <1>3, <2>1, PwdDown
  <2>3. PICK g : Route(D, E, names, g) /\ g[0] = ROOT_BLOCK /\ g[Len(names)] = s.cwd.blk
    BY <1>3, <2>1, PwdDown
  <2>4. \E h : /\ Route(D, E, names \o <<NoName>>, h) /\ h[0] = g[0]
               /\ h[Len(names \o <<NoName>>)] = g[Len(names)]
    BY <2>2, <2>3, RouteStays
  <2>5. NamesPlace(names \o <<NoName>>)
    <3> DEFINE longer == names \o <<NoName>>
    <3>1. Len(names) \in Nat \ {0}
      BY <2>2
    <3>2. Len(longer) = Len(names) + 1 /\ longer[Len(longer)] = NoName /\ longer[Len(longer) - 1] = names[Len(names)]
      BY <2>2, <3>1
    <3>3. names[Len(names)] \in Names
      BY <2>2, <3>1
    <3> HIDE DEF longer
    <3>4. NamesPlace(longer)
      BY <3>1, <3>2, <3>3 DEF NamesPlace
    <3> QED
      BY <3>4 DEF longer
  <2> QED
    BY <2>1, <2>3, <2>4, <2>5
<1> QED
  BY <1>2, <1>3

(* From another state of the same tree, perhaps with fewer entries of      *)
(* files, too.                                                             *)
SameFolders(s, D, t) ==
  \A b \in D : \A i \in Slots : DirIn(t, b)[i].type = TYPE_DIR => DirIn(s, b)[i] = DirIn(t, b)[i]

(* There the path leads to the same directory, if change_cwd succeeds.      *)
LEMMA HomeAgain ==
  ASSUME NEW s, NEW D, Rooted(s, D), Nested(D, DirsOf(s, D)), NEW t, Rooted(t, D), SameFolders(s, D, t),
         NEW path, path = HomePath(s), change_cwd(t, path).ok
  PROVE  change_cwd(t, path).s.cwd.blk = s.cwd.blk
<1> DEFINE E == DirsOf(s, D)
           F == DirsOf(t, D)
           comps == pwd_comps(s) \o <<NoName>>
<1>1. path.abs = TRUE /\ path.comps = comps
  BY DEF HomePath, Path
<1>2. comps \in Seq(Words) \ {<<>>} /\ Len(comps) \in Nat
  <2>1. pwd_comps(s) \in Seq(Words) /\ <<NoName>> \in Seq(Words)
    BY PwdType, WordsAreText DEF Rooted
  <2> QED
    BY <2>1
<1>3. DirsGood(D, E) /\ Nested(D, E) /\ \A b \in D : \A i \in Slots : F[b][i].type = TYPE_DIR => E[b][i] = F[b][i]
  BY DEF Rooted, SameFolders, DirsOf
<1>4. PICK g : Route(D, E, comps, g) /\ g[0] = ROOT_BLOCK /\ g[Len(comps)] = s.cwd.blk
  BY PwdRoute
<1> HIDE DEF comps
<1>5. path \in PathType
  BY <1>1, <1>2 DEF PathType, HomePath, Path
<1>6. PICK h : Route(D, F, comps, h) /\ h[0] = ROOT_BLOCK /\ h[Len(comps)] = change_cwd(t, path).s.cwd.blk
  BY <1>1, <1>5, ChangeArrives DEF Comes, From
<1> HIDE DEF E, F
<1>7. PICK c : c = comps
  OBVIOUS
<1>8. Len(c) \in Nat /\ Route(D, E, c, g) /\ Route(D, F, c, h) /\ g[0] = h[0]
  BY <1>2, <1>4, <1>6, <1>7
<1>9. g[Len(c)] = h[Len(c)]
  BY <1>3, <1>8, RoutesMeet
<1> QED
  BY <1>4, <1>6, <1>7, <1>9

(* Local use.  The names of directories are those that mkdir gives.        *)
LEMMA FoldersChosen ==
  ASSUME LocalUse
  PROVE  FolderNames \subseteq Names /\ \A c \in Commands : c.cmd = "mkdir" => Last(c.path.comps) \in FolderNames
BY DEF LocalUse, FolderNames

(* A name by itself that is not that of a directory is a name of a file    *)
(* here, and one that is names a directory in the working directory.       *)
LEMMA LooksUp ==
  ASSUME NEW s \in StateType, NEW path \in PathType, ~path.abs, Len(path.comps) = 1,
         NEW name, name = path.comps[1], ~find_dir_from_path(s, path)
  PROVE  name # NoName /\ \A j \in Slots : s.cwd.entries[j].name = name => s.cwd.entries[j].type # TYPE_DIR
<1>1. ~Walk(s, path, {0}).ok
  BY DEF find_dir_from_path
<1>2. PICK a \in [0 .. Len(path.comps) -> WalkState] :
           /\ a[0] = walk_from(s, path)
           /\ \A k \in 1 .. Len(path.comps) : a[k] = walk_into(s, path.comps, {0}, a[k - 1], k)
           /\ Walk(s, path, {0}) = a[Len(path.comps)]
  <2>1. {0} \in {{}, {0}}
    OBVIOUS
  <2> QED
    BY <2>1, WalkRuns
<1>3. PICK w : w = walk_from(s, path)
  OBVIOUS
<1>4. ~walk_into(s, path.comps, {0}, w, 1).ok
  BY <1>1, <1>2, <1>3
<1>5. w.ok /\ w.dir = s.cwd.entries
  BY <1>3 DEF walk_from
<1> DEFINE found == {j \in Slots : w.dir[j].name = name /\ w.dir[j].type = TYPE_DIR}
           any == IF name = NoName THEN {0} ELSE found
           e == w.dir[First(any)]
           missed == 1 < Len(path.comps) /\ CompLen(name) < w.pos
           into == [ok |-> TRUE, blk |-> e.first_blk, info |-> e, dir |-> AsDir(s.disk[e.first_blk]), pos |-> CompLen(name)]
           v == walk_into(s, path.comps, {0}, w, 1)
<1>6. v = IF ~w.ok \/ missed \/ (name # NoName /\ any = {}) THEN [w EXCEPT !.ok = FALSE]
          ELSE IF any = {} THEN [w EXCEPT !.pos = CompLen(name)] ELSE into
  BY DEF walk_into
<1>7. ~v.ok /\ ~missed /\ into.ok /\ (name = NoName => any # {}) /\ (name # NoName => any = found)
  BY <1>4
<1>8. name # NoName /\ found = {}
  <2> HIDE DEF any, missed, into, v, found
  <2> QED
    BY <1>5, <1>6, <1>7
<1> QED
  BY <1>5, <1>8

(* A command that names a file finds it here, under one of the Names.      *)
LEMMA LocalParts ==
  ASSUME NEW s, NEW D, Rooted(s, D), Nested(D, DirsOf(s, D)), NEW path \in PathType, IsHere(path),
         NEW parts, parts = get_filename_parts(s, path)
  PROVE  /\ parts.file # NoName => /\ parts.file = Last(path.comps) /\ parts.file \in Names /\ parts.dir = HomePath(s)
         /\ parts.file = NoName => parts.dir = path
<1> DEFINE name == path.comps[1]
           prefix == Append(Front(path.comps), NoName)
<1>1. ~path.abs /\ Len(path.comps) = 1 /\ path.comps \in Seq(Words) /\ name \in Words
  BY DEF IsHere, PathType
<1>2. Last(path.comps) = name
  BY <1>1 DEF Last
<1>3. prefix = <<NoName>>
  <2>1. Front(path.comps) = <<>>
    BY <1>1 DEF Front
  <2> QED
    BY <2>1
<1>4. s \in StateType
  BY DEF Rooted
<1>5. ASSUME ~find_dir_from_path(s, path) PROVE name \in Names
  <2>1. name # NoName /\ \A j \in Slots : s.cwd.entries[j].name = name => s.cwd.entries[j].type # TYPE_DIR
    BY <1>1, <1>4, <1>5, LooksUp
  <2>2. s.cwd.entries[0].name = Parent /\ s.cwd.entries[0].type = TYPE_DIR /\ 0 \in Slots
    <3>1. Named(DirIn(s, s.cwd.blk)) /\ DirGood(D, DirIn(s, s.cwd.blk))
      BY DEF Rooted, DirsGood, DirsOf, Nested
    <3> QED
      BY <3>1, Numbers DEF DirIn, Named, DirGood
  <2> QED
    BY <1>1, <2>1, <2>2 DEF Words
<1> HIDE DEF prefix, name
<1>6. CASE find_dir_from_path(s, path)
  BY <1>6 DEF get_filename_parts
<1>7. CASE ~find_dir_from_path(s, path)
  <2>1. parts = [file |-> name, dir |-> Path(TRUE, pwd_comps(s) \o <<NoName>>)]
    BY <1>1, <1>2, <1>3, <1>7 DEF get_filename_parts, prefix
  <2>2. name # NoName
    BY <1>5, <1>7, NamesAssumption
  <2>3. parts.file = name /\ parts.dir = HomePath(s) /\ name \in Names
    BY <1>5, <1>7, <2>1 DEF HomePath
  <2> QED
    BY <1>2, <2>2, <2>3
<1> QED
  BY <1>6, <1>7

(* The directory that it is looked up in is not the root, unless the user  *)
(* is there.                                                               *)
LEMMA LocalOff ==
  ASSUME NEW s, NEW D, Rooted(s, D), Nested(D, DirsOf(s, D)), NEW path \in PathType, IsHere(path),
         NEW parts, parts = get_filename_parts(s, path), parts.file # NoName \/ Last(path.comps) # Parent
  PROVE  s.cwd.blk = ROOT_BLOCK \/ LeadsOff(parts.dir)
<1> SUFFICES ASSUME s.cwd.blk # ROOT_BLOCK PROVE LeadsOff(parts.dir)
  OBVIOUS
<1>1. CASE parts.file # NoName
  <2>1. parts.dir = HomePath(s)
    BY <1>1, LocalParts
  <2> DEFINE comps == pwd_comps(s) \o <<NoName>>
  <2>2. NamesPlace(comps)
    BY PwdRoute
  <2>3. comps \in Seq(Words) \ {<<>>}
    <3>1. pwd_comps(s) \in Seq(Words) /\ <<NoName>> \in Seq(Words)
      BY PwdType, WordsAreText DEF Rooted
    <3> QED
      BY <3>1
  <2> HIDE DEF comps
  <2>4. Path(TRUE, comps) \in PathType /\ Path(TRUE, comps).comps = comps
    BY <2>3 DEF Path, PathType
  <2> QED
    BY <2>1, <2>2, <2>4, PlacesOff DEF HomePath, comps
<1>2. CASE parts.file = NoName
  <2>1. parts.dir = path
    BY <1>2, LocalParts
  <2> DEFINE name == path.comps[1]
  <2>2. path.abs = FALSE /\ Len(path.comps) = 1 /\ path.comps \in Seq(Words) /\ name \in Words /\ Last(path.comps) = name
    BY DEF IsHere, PathType, Last
  <2>3. CASE name = NoName
    <3>1. path.comps = <<NoName>>
      BY <2>2, <2>3
    <3>2. path = EmptyPath
      BY <2>2, <3>1 DEF EmptyPath, Path, PathType
    <3> QED
      BY <2>1, <3>2, EmptyOff
  <2>4. CASE name # NoName
    <3>1. NamesPlace(path.comps)
      BY <1>2, <2>2, <2>4 DEF NamesPlace, Words
    <3> QED
      BY <2>1, <3>1, PlacesOff
  <2> QED
    BY <2>3, <2>4
<1> QED
  BY <1>1, <1>2
=============================================================================
