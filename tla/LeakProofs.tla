----------------------------- MODULE LeakProofs -----------------------------
(***************************************************************************)
(* No block of the disk is lost. The theorem: for users who walk through   *)
(* the tree, name things where they are, and whose texts fit a block       *)
(* (SmallUse), every block that is not free belongs to the tree, and can   *)
(* be freed by removing what it belongs to.                                *)
(***************************************************************************)
EXTENDS OwnershipProofs

(* Which blocks are taken.  When every text fits a block, every allocated  *)
(* block is the last of its chain, and the directories D have an entry     *)
(* that refers to it.                                                      *)
Refers(D, E, b) == \E d \in D, i \in Slots \ {0} : E[d][i].first_blk = b
Covers(f, D, E) ==
  \A b \in Blocks \ {ROOT_BLOCK, FAT_BLOCK} : f[b] # FAT_FREE => f[b] = FAT_EOF /\ Refers(D, E, b)

(* What was listed is listed. *)
KeepsLists(D, E, G) == \A d \in D : \A x : Lists(E[d], x) => Lists(G[d], x)

(* No directory in D is lost: whatever tree t is, it has them. *)
Complete(t, D) == t \in StateType /\ Covers(t.fat, D, DirsOf(t, D)) /\ \A B : Tree(t, B) => D \subseteq B

(* The commands.  Each begins in a tree that owns what is allocated. *)
LeavesAll == \E t, D : Becomes(t) /\ Complete(t, D)

Opens(s, D) == SmallUse /\ s = This /\ Tree(s, D) /\ Covers(s.fat, D, DirsOf(s, D))

(* What is known then. *)
LEMMA OpensFacts ==
  ASSUME NEW s, NEW D, Opens(s, D)
  PROVE  /\ LocalUse /\ s = This /\ Tree(s, D) /\ s \in StateType /\ SyncRoot(This) = s /\ s.fat = fat /\ s.cwd = cwd
         /\ s.disk = disk /\ fat \in FatType /\ Rooted(s, D) /\ Nested(D, DirsOf(s, D)) /\ Visits(s, s, D)
         /\ D \subseteq Blocks \ {FAT_BLOCK} /\ ROOT_BLOCK \in D /\ s.cwd.blk \in D /\ s.cwd \in CwdType
         /\ Covers(fat, D, DirsOf(s, D)) /\ TreeGood(fat, D, DirsOf(s, D))
         /\ \A b \in D : DirsOf(s, D)[b] = DirIn(s, b) /\ DirIn(s, b) \in DirType /\ DirGood(D, DirIn(s, b))
<1>1. LocalUse /\ s = This /\ Tree(s, D) /\ Covers(s.fat, D, DirsOf(s, D))
  BY DEF Opens, SmallUse
<1>2. s \in StateType /\ SyncRoot(This) = s /\ s.fat = fat /\ s.cwd = cwd /\ s.disk = disk
  BY <1>1, Begins DEF This
<1>3. /\ Rooted(s, D) /\ Nested(D, DirsOf(s, D)) /\ Visits(s, s, D) /\ fat \in FatType
      /\ D \subseteq Blocks \ {FAT_BLOCK} /\ ROOT_BLOCK \in D /\ s.cwd.blk \in D /\ s.cwd \in CwdType
      /\ TreeGood(fat, D, DirsOf(s, D))
  BY <1>1, <1>2, TreeFacts DEF Nest
<1>4. \A b \in D : DirsOf(s, D)[b] = DirIn(s, b)
  BY DEF DirsOf
<1>5. \A b \in D : DirGood(D, DirIn(s, b))
  BY <1>3, <1>4 DEF TreeGood, DirsGood
<1>6. \A b \in D : DirIn(s, b) \in DirType
  BY <1>5 DEF DirGood
<1> QED
  BY <1>1, <1>2, <1>3, <1>4, <1>5, <1>6

(* A directory that was listed, and still is, is in the tree. *)
LEMMA StillListed ==
  ASSUME NEW s, NEW D, Opens(s, D), NEW t, KeepsLists(D, DirsOf(s, D), DirsOf(t, D)),
         NEW B, Tree(t, B)
  PROVE  D \subseteq B
<1>1. PICK E : E = DirsOf(s, D)
  OBVIOUS
<1>2. DirsGood(D, E) /\ Nested(D, E) /\ \A d \in D : E[d] = DirIn(s, d)
  BY <1>1, OpensFacts DEF TreeGood
<1>3. ROOT_BLOCK \in B /\ \A d \in B : DirGood(B, DirIn(t, d))
  BY TreeFacts DEF TreeGood, DirsGood, DirsOf
<1>4. PICK a : a = [k \in 0 .. NoBlocks |-> B]
  OBVIOUS
<1>5. NoBlocks \in Nat /\ \A k \in 0 .. NoBlocks : a[k] = B
  BY <1>4, SizesAssumption
<1>6. ASSUME NEW k \in 1 .. NoBlocks
      PROVE  a[k - 1] \subseteq a[k] /\ \A b \in D \cap a[k - 1], d \in D : Lists(E[b], d) => d \in a[k]
  <2>1. a[k] = B /\ a[k - 1] = B
    BY <1>5
  <2>2. ASSUME NEW b \in D \cap B, NEW d \in D, Lists(E[b], d) PROVE d \in B
    <3>1. Lists(DirIn(t, b), d)
      BY <1>1, <2>2 DEF KeepsLists, DirsOf
    <3> QED
      BY <1>3, <3>1 DEF Lists, DirGood
  <2> QED
    BY <2>1, <2>2
<1>7. ROOT_BLOCK \in a[0]
  BY <1>3, <1>5
<1>8. D \subseteq a[NoBlocks]
  BY <1>2, <1>6, <1>7, ReachedInTurns
<1> QED
  BY <1>5, <1>8

(* What exit_method is given so that it leaves a whole tree. *)
LEMMA ExitComplete ==
  ASSUME NEW s, NEW D, Opens(s, D), NEW u \in StateType, NEW backup \in CwdType, NEW save \in BOOLEAN,
         NEW G, \A d \in D : G[d] = After(u, backup, save, d), Covers(u.fat, D, G),
         KeepsLists(D, DirsOf(s, D), G)
  PROVE  Complete(exit_method(u, backup, save), D)
<1>1. PICK x : x = exit_method(u, backup, save)
  OBVIOUS
<1>2. D \subseteq Blocks
  BY OpensFacts
<1>3. x \in StateType /\ x.fat = u.fat /\ \A d \in D : DirIn(x, d) = G[d]
  BY <1>1, <1>2, ExitDirs
<1>4. \A d \in D : DirsOf(x, D)[d] = G[d]
  BY <1>3 DEF DirsOf
<1>5. Covers(x.fat, D, DirsOf(x, D))
  BY <1>3, <1>4 DEF Covers, Refers
<1>6. ASSUME NEW B, Tree(x, B) PROVE D \subseteq B
  <2>1. KeepsLists(D, DirsOf(s, D), DirsOf(x, D))
    BY <1>4 DEF KeepsLists
  <2> QED
    BY <1>6, <2>1, StillListed
<1> QED
  BY <1>1, <1>3, <1>5, <1>6 DEF Complete

(* A command that has only looked may stop or go back. *)
LEMMA LooksComplete ==
  ASSUME NEW s, NEW D, Opens(s, D), NEW t, Visits(s, t, D), Becomes(t) \/ Becomes(exit_method(t, cwd, FALSE))
  PROVE  LeavesAll
<1>1. /\ Tree(s, D) /\ Rooted(s, D) /\ s.fat = fat /\ s.cwd = cwd /\ s.cwd \in CwdType /\ s.cwd.blk \in D
      /\ D \subseteq Blocks /\ Covers(fat, D, DirsOf(s, D)) /\ \A d \in D : DirsOf(s, D)[d] = DirIn(s, d)
  BY OpensFacts
<1>2. t \in StateType /\ t.fat = fat /\ \A d \in D : DirIn(t, d) = DirIn(s, d)
  BY <1>1, VisitsKeep DEF Visits
<1>3. CASE Becomes(t)
  <2>1. \A B : Tree(t, B) => D \subseteq B
    <3>1. KeepsLists(D, DirsOf(s, D), DirsOf(t, D))
      BY <1>2 DEF KeepsLists, DirsOf
    <3> QED
      BY <3>1, StillListed
  <2>2. \A d \in D : DirsOf(t, D)[d] = DirsOf(s, D)[d]
    BY <1>1, <1>2 DEF DirsOf
  <2>3. Covers(t.fat, D, DirsOf(t, D))
    BY <1>1, <1>2, <2>2 DEF Covers, Refers
  <2> QED
    BY <1>2, <1>3, <2>1, <2>3 DEF Complete, LeavesAll
<1>4. CASE Becomes(exit_method(t, cwd, FALSE))
  <2>1. \A d \in D : DirsOf(s, D)[d] = After(t, s.cwd, FALSE, d)
    <3>1. \A b \in D \ {s.cwd.blk} : AsDir(t.disk[b]) = DirIn(s, b)
      BY DEF Visits, DirIn
    <3> QED
      BY <1>1, <3>1 DEF After, DirIn
  <2>2. PICK E : E = DirsOf(s, D)
    OBVIOUS
  <2>3. /\ FALSE \in BOOLEAN /\ t \in StateType /\ s.cwd \in CwdType /\ Covers(t.fat, D, E)
        /\ \A d \in D : E[d] = After(t, s.cwd, FALSE, d)
        /\ KeepsLists(D, DirsOf(s, D), E)
    BY <1>1, <1>2, <2>1, <2>2 DEF KeepsLists
  <2>4. Complete(exit_method(t, s.cwd, FALSE), D)
    BY <2>3, ExitComplete, ZenonT(40)
  <2> QED
    BY <1>1, <1>4, <2>4 DEF LeavesAll
<1> QED
  BY <1>3, <1>4, Zenon

(* A slot gets another entry, and the table changes with it: what is newly *)
(* allocated the new entry refers to, and what the old one referred to is  *)
(* free, or is referred to by the new one.                                 *)
Swaps(f, g, old, new) ==
  \A b \in Blocks \ {ROOT_BLOCK, FAT_BLOCK} :
    g[b] # FAT_FREE => /\ g[b] = FAT_EOF \/ (f[b] # FAT_FREE /\ g[b] = f[b])
                       /\ b = new.first_blk \/ (f[b] # FAT_FREE /\ b # old.first_blk)

(* The new entry then refers to what the old one did not. *)
LEMMA SwapCovers ==
  ASSUME NEW f, NEW D, NEW E, Covers(f, D, E), NEW a \in D, E[a] \in DirType, NEW i \in Slots \ {0}, NEW m,
         NEW g, Swaps(f, g, E[a][i], m),
         NEW G, \A d \in D : G[d] = IF d = a THEN [E[a] EXCEPT ![i] = m] ELSE E[d]
  PROVE  Covers(g, D, G)
<1>1. \A k \in Slots : G[a][k] = IF k = i THEN m ELSE E[a][k]
  BY DEF DirType
<1>2. ASSUME NEW b \in Blocks \ {ROOT_BLOCK, FAT_BLOCK}, g[b] # FAT_FREE PROVE g[b] = FAT_EOF /\ Refers(D, G, b)
  <2>1. g[b] = FAT_EOF
    BY <1>2 DEF Swaps, Covers
  <2>2. CASE b = m.first_blk
    <3>1. G[a][i].first_blk = b
      BY <1>1, <2>2
    <3> QED
      BY <2>1, <3>1 DEF Refers
  <2>3. CASE b # m.first_blk
    <3>1. f[b] # FAT_FREE /\ b # E[a][i].first_blk
      BY <1>2, <2>3 DEF Swaps
    <3>2. PICK d \in D, k \in Slots \ {0} : E[d][k].first_blk = b
      BY <3>1 DEF Covers, Refers
    <3>3. G[d][k].first_blk = b
      BY <1>1, <3>1, <3>2
    <3> QED
      BY <2>1, <3>3 DEF Refers
  <2> QED
    BY <2>2, <2>3
<1> QED
  BY <1>2 DEF Covers

(* The directories are listed as before. *)
LEMMA SwapLists ==
  ASSUME NEW D, NEW E, NEW a \in D, E[a] \in DirType, NEW i \in Slots \ {0}, E[a][i].type # TYPE_DIR, NEW m,
         NEW G, \A d \in D : G[d] = IF d = a THEN [E[a] EXCEPT ![i] = m] ELSE E[d]
  PROVE  KeepsLists(D, E, G)
<1>1. \A k \in Slots : G[a][k] = IF k = i THEN m ELSE E[a][k]
  BY DEF DirType
<1>2. ASSUME NEW d \in D, NEW x, Lists(E[d], x) PROVE Lists(G[d], x)
  <2>1. PICK k \in Slots \ {0} : E[d][k].type = TYPE_DIR /\ E[d][k].first_blk = x
    BY <1>2 DEF Lists
  <2>2. G[d][k] = E[d][k]
    BY <1>1, <2>1
  <2> QED
    BY <2>1, <2>2 DEF Lists
<1> QED
  BY <1>2 DEF KeepsLists

(* A command has put an entry into a directory, and saves it.              *)
Places(D, t, i, m, u) ==
  /\ u \in StateType /\ u.cwd.blk = t.cwd.blk /\ \A b \in D : u.disk[b] = t.disk[b]
  /\ u.cwd.entries = [t.cwd.entries EXCEPT ![i] = m] /\ i \in Slots \ {0} /\ t.cwd.entries[i].type # TYPE_DIR
  /\ Swaps(t.fat, u.fat, t.cwd.entries[i], m)

(* It leaves the tree whole. *)
LEMMA PlaceComplete ==
  ASSUME NEW s, NEW D, Opens(s, D), NEW t, Visits(s, t, D), NEW i, NEW m, NEW u, Places(D, t, i, m, u)
  PROVE  Complete(exit_method(u, s.cwd, TRUE), D)
<1>1. PICK E, a, G : /\ E = DirsOf(s, D) /\ a = t.cwd.blk
                     /\ G = [d \in D |-> IF d = a THEN [E[a] EXCEPT ![i] = m] ELSE E[d]]
  OBVIOUS
<1>2. /\ s.cwd \in CwdType /\ s.cwd.blk \in D /\ Covers(fat, D, E) /\ s.fat = fat
      /\ \A d \in D : E[d] = DirIn(s, d) /\ E[d] \in DirType
  BY <1>1, OpensFacts
<1>3. a \in D /\ t.fat = fat /\ t.cwd.entries = E[a] /\ \A d \in D \ {s.cwd.blk} : AsDir(t.disk[d]) = E[d]
  BY <1>1, <1>2 DEF Visits, DirIn
<1>4. /\ u \in StateType /\ u.cwd.blk = a /\ (\A b \in D : u.disk[b] = t.disk[b]) /\ i \in Slots \ {0}
      /\ u.cwd.entries = [E[a] EXCEPT ![i] = m] /\ E[a][i].type # TYPE_DIR /\ Swaps(fat, u.fat, E[a][i], m)
  BY <1>1, <1>3 DEF Places
<1>5. \A d \in D : G[d] = After(u, s.cwd, TRUE, d)
  BY <1>1, <1>2, <1>3, <1>4 DEF After, DirIn
<1>6. \A d \in D : G[d] = IF d = a THEN [E[a] EXCEPT ![i] = m] ELSE E[d]
  BY <1>1
<1>7. Covers(u.fat, D, G)
  BY <1>2, <1>3, <1>4, <1>6, SwapCovers, SMTT(40)
<1>8. KeepsLists(D, DirsOf(s, D), G)
  BY <1>1, <1>2, <1>3, <1>4, <1>6, SwapLists
<1>9. u \in StateType /\ s.cwd \in CwdType /\ TRUE \in BOOLEAN
  BY <1>2, <1>4
<1> QED
  BY <1>5, <1>7, <1>8, <1>9, ExitComplete

(* write_data takes one block for a text that fits, *)
LEMMA WriteOne ==
  ASSUME NEW s \in StateType, NEW start \in Blocks, NEW data \in Text, Len(data) < BlockSize
  PROVE  /\ write_data(s, start, data).ok
         /\ write_data(s, start, data).s.fat = [s.fat EXCEPT ![start] = FAT_EOF]
<1>1. Len(data) \div BlockSize = 0
  <2>1. Len(data) \in Nat /\ BlockSize \in Nat \ {0}
    BY SizesAssumption DEF Text
  <2> QED
    BY <2>1
<1>2. write_data(s, start, data) = [ok |-> TRUE, s |-> first_write(s, start, data)]
  <2>1. PICK a : /\ a[0] = [ok |-> TRUE, s |-> first_write(s, start, data)]
                 /\ write_data(s, start, data) = a[Len(data) \div BlockSize]
    BY WriteRuns
  <2> QED
    BY <1>1, <2>1
<1>3. first_write(s, start, data).fat = [s.fat EXCEPT ![start] = FAT_EOF]
  BY DEF first_write, StateType
<1> QED
  BY <1>2, <1>3

(* and rm frees it. *)
LEMMA FreeOne ==
  ASSUME NEW f \in FatType, NEW start \in Blocks, f[start] = FAT_EOF
  PROVE  free_chain(f, start).fat = [f EXCEPT ![start] = FAT_FREE]
<1>1. PICK a \in [0 .. NoBlocks -> FreeState] :
        /\ a[0] = [fat |-> f, blk |-> start]
        /\ \A k \in 1 .. NoBlocks : a[k] = free_one(a[k - 1])
        /\ free_chain(f, start) = a[NoBlocks]
  BY FreeRuns
<1>2. NoBlocks \in Nat \ {0} /\ start # FAT_EOF
  BY SizesAssumption, Numbers DEF FAT_EOF, Blocks
<1> DEFINE K == {k \in 0 .. NoBlocks : k = 0 \/ a[k] = [fat |-> [f EXCEPT ![start] = FAT_FREE], blk |-> FAT_EOF]}
<1>3. 0 \in K
  BY <1>2
<1>4. ASSUME NEW k \in 1 .. NoBlocks, k - 1 \in K PROVE k \in K
  <2>1. CASE k = 1
    <3>1. a[1] = free_one([fat |-> f, blk |-> start])
      BY <1>1, <1>2, <2>1
    <3> QED
      BY <1>2, <2>1, <3>1 DEF free_one
  <2>2. CASE k # 1
    <3>1. a[k - 1] = [fat |-> [f EXCEPT ![start] = FAT_FREE], blk |-> FAT_EOF] /\ a[k] = free_one(a[k - 1])
      BY <1>1, <1>4, <2>2
    <3> QED
      BY <1>2, <3>1 DEF free_one
  <2> QED
    BY <2>1, <2>2
<1>5. NoBlocks \in K
  <2> HIDE DEF K
  <2>1. \A k \in 0 .. NoBlocks : k \in K
    BY <1>2, <1>3, <1>4, EveryTurn
  <2> QED
    BY <1>2, <2>1
<1> QED
  BY <1>1, <1>2, <1>5

(* What a new entry takes, *)
LEMMA TakesOne ==
  ASSUME NEW f \in FatType, NEW b \in Blocks, NEW g, g = [f EXCEPT ![b] = FAT_EOF],
         NEW old, old.first_blk = FAT_FREE, NEW new, new.first_blk = b
  PROVE  Swaps(f, g, old, new)
<1>1. \A x \in Blocks : g[x] = IF x = b THEN FAT_EOF ELSE f[x]
  BY DEF FatType
<1>2. FAT_FREE = ROOT_BLOCK
  BY DEF FAT_FREE, ROOT_BLOCK
<1> QED
  BY <1>1, <1>2 DEF Swaps

(* and what an entry that goes gives back. *)
LEMMA GivesOne ==
  ASSUME NEW f \in FatType, NEW old, old.first_blk \in Blocks, NEW g, g = [f EXCEPT ![old.first_blk] = FAT_FREE], NEW new
  PROVE  Swaps(f, g, old, new)
<1>1. \A x \in Blocks : g[x] = IF x = old.first_blk THEN FAT_FREE ELSE f[x]
  BY DEF FatType
<1> QED
  BY <1>1 DEF Swaps

(* A file that has a name has one block. *)
LEMMA FileHasOne ==
  ASSUME NEW s, NEW D, Opens(s, D), NEW a \in D, NEW e, e = DirIn(s, a), NEW j \in Slots,
         e[j].name # NoName, e[j].type # TYPE_DIR
  PROVE  j # 0 /\ e[j].first_blk \in Blocks /\ fat[e[j].first_blk] = FAT_EOF
<1>1. PICK E : E = DirsOf(s, D)
  OBVIOUS
<1>2. /\ E[a] = e /\ DirGood(D, e) /\ Named(e) /\ TableGood(fat, Held(D, E), Heads(D, E)) /\ Covers(fat, D, E)
  BY <1>1, OpensFacts DEF Nested, TreeGood
<1>3. j # 0
  BY <1>2 DEF Named, DirGood
<1>4. <<a, j>> \in Held(D, E) /\ Heads(D, E)[<<a, j>>] = e[j].first_blk
  <2>1. <<a, j>> \in SlotsIn(D) /\ <<a, j>>[1] = a /\ <<a, j>>[2] = j
    BY <1>3 DEF SlotsIn
  <2>2. e[j].first_blk # FAT_FREE
    BY <1>2, <1>3 DEF DirGood
  <2> QED
    BY <1>2, <2>1, <2>2 DEF Held, Heads
<1>5. Owned(fat, e[j].first_blk)
  BY <1>2, <1>4 DEF TableGood
<1> QED
  BY <1>2, <1>3, <1>5 DEF Owned, Covers

(* A free slot lists no directory. *)
LEMMA FreeSlotFree ==
  ASSUME NEW s, NEW D, Opens(s, D), NEW t, Visits(s, t, D), NEW i, i = free_slot(t), i # None
  PROVE  i \in Slots \ {0} /\ t.cwd.entries[i].first_blk = FAT_FREE /\ t.cwd.entries[i].type # TYPE_DIR
<1>1. t \in StateType /\ t.cwd.blk \in D /\ t.cwd.entries = DirIn(s, t.cwd.blk)
  BY DEF Visits
<1>2. DirGood(D, t.cwd.entries)
  BY <1>1, OpensFacts
<1>3. i \in Slots \ {0} /\ t.cwd.entries[i].first_blk = FAT_FREE
  BY <1>1, SearchGood
<1> QED
  BY <1>2, <1>3 DEF DirGood

(* What put leaves. *)
LEMMA PutChanges ==
  ASSUME NEW u \in StateType, NEW i \in Slots, NEW m \in EntryType, NEW v, v = put(u, i, m)
  PROVE  /\ v \in StateType /\ v.cwd.blk = u.cwd.blk /\ v.cwd.info = u.cwd.info /\ v.disk = u.disk /\ v.fat = u.fat
         /\ v.cwd.entries = [u.cwd.entries EXCEPT ![i] = m]
<1>1. v \in StateType
  BY PutType
<1> QED
  BY <1>1 DEF put, StateType, CwdType

(* cat, *)
LEMMA CatLeaves ==
  ASSUME NEW s, NEW D, Opens(s, D), NEW c \in Commands, c.cmd = "cat", cat(c)
  PROVE  LeavesAll
<1>1. PICK parts : parts = get_filename_parts(s, c.path)
  OBVIOUS
<1>2. PICK here : here = enter(s, parts)
  OBVIOUS
<1>3. parts.dir \in PathType
  BY <1>1, OpensFacts, PartsType, CommandsAssumption
<1>4. Visits(s, here.s, D)
  BY <1>2, <1>3, OpensFacts, EnterVisits
<1>5. Becomes(here.s) \/ Becomes(exit_method(here.s, cwd, FALSE))
  BY <1>1, <1>2, OpensFacts DEF cat
<1> QED
  BY <1>4, <1>5, LooksComplete

(* cd, *)
LEMMA CdLeaves ==
  ASSUME NEW s, NEW D, Opens(s, D), NEW c \in Commands, c.cmd = "cd", cd(c)
  PROVE  LeavesAll
<1>1. PICK here : here = change_cwd(s, c.path)
  OBVIOUS
<1>2. Visits(s, here.s, D)
  BY <1>1, OpensFacts, ChangeVisits, CommandsAssumption
<1>3. Becomes(here.s) \/ Becomes(exit_method(here.s, cwd, FALSE))
  BY <1>1, OpensFacts DEF cd
<1> QED
  BY <1>2, <1>3, LooksComplete

(* create, *)
LEMMA CreateLeaves ==
  ASSUME NEW s, NEW D, Opens(s, D), NEW c \in Commands, c.cmd = "create", create(c)
  PROVE  LeavesAll
<1>1. c.path \in PathType /\ c.data \in Text /\ Len(c.data) < BlockSize
  BY CommandsAssumption DEF Opens, SmallUse
<1>2. /\ Tree(s, D) /\ s \in StateType /\ SyncRoot(This) = s /\ s.fat = fat /\ s.cwd = cwd /\ fat \in FatType
  BY OpensFacts
<1>3. PICK parts : parts = get_filename_parts(s, c.path)
  OBVIOUS
<1>4. PICK here : here = enter(s, parts)
  OBVIOUS
<1>5. parts.file \in Words /\ Visits(s, here.s, D) /\ here.s \in StateType /\ here.s.fat = fat
  <2>1. parts.dir \in PathType /\ parts.file \in Words
    BY <1>1, <1>2, <1>3, PartsType
  <2> QED
    BY <1>2, <1>4, <2>1, EnterVisits DEF Visits
<1> DEFINE blk     == find_empty_block(fat)
           slot    == free_slot(here.s)
           file    == Entry(parts.file, Len(c.data) + 1, blk, TYPE_FILE, {READ, WRITE})
           written == write_data(here.s, blk, c.data)
           found   == blk # None /\ slot # None
<1>6. \/ Becomes(here.s)
      \/ Becomes(exit_method(here.s, cwd, FALSE))
      \/ found /\ ~written.ok
      \/ found /\ Becomes(exit_method(put(written.s, slot, file), cwd, TRUE))
  <2>1. None \notin {blk, slot} => blk # None /\ slot # None
    OBVIOUS
  <2>2. CreateEnds(c, parts, here)
    BY <1>2, <1>3, <1>4, CreateRuns
  <2> QED
    BY <1>2, <2>1, <2>2, Zenon DEF CreateEnds
<1>7. CASE Becomes(here.s) \/ Becomes(exit_method(here.s, cwd, FALSE))
  BY <1>5, <1>7, LooksComplete
<1>8. CASE found /\ (~written.ok \/ Becomes(exit_method(put(written.s, slot, file), cwd, TRUE)))
  <2>1. PICK t, u, m, b, i : t = here.s /\ u = written.s /\ m = file /\ b = blk /\ i = slot
    OBVIOUS
  <2>2. /\ b \in Blocks /\ fat[b] = FAT_FREE /\ t \in StateType /\ t.fat = fat /\ Visits(s, t, D)
        /\ i \in Slots \ {0} /\ t.cwd.entries[i].first_blk = FAT_FREE /\ t.cwd.entries[i].type # TYPE_DIR
    BY <1>2, <1>5, <1>8, <2>1, EmptyBlockIs, FreeSlotFree
  <2>3. written.ok /\ u.fat = [fat EXCEPT ![b] = FAT_EOF]
    <3>1. write_data(t, b, c.data).ok /\ write_data(t, b, c.data).s.fat = [t.fat EXCEPT ![b] = FAT_EOF]
      BY <1>1, <2>2, WriteOne
    <3> QED
      BY <2>1, <2>2, <3>1
  <2>4. NewBlock(s, D, t, b, u)
    <3>1. u = write_data(t, b, c.data).s
      BY <2>1
    <3> QED
      BY <1>1, <1>2, <2>2, <3>1, WroteNew
  <2>5. m \in EntryType /\ m.first_blk = b
    <3>1. Len(c.data) + 1 \in 0 .. MaxSize /\ {READ, WRITE} \in SUBSET Rights /\ TYPE_FILE \in {TYPE_FILE, TYPE_DIR}
      <4>1. Len(c.data) \in Nat /\ Len(c.data) < MaxSize /\ MaxSize \in Nat
        BY <1>1, CommandsAssumption, SizesAssumption DEF Text
      <4> QED
        BY <4>1 DEF Rights
    <3> QED
      BY <1>5, <2>1, <2>2, <3>1, EntryTypes DEF Entry
  <2>6. Places(D, t, i, m, put(u, i, m))
    <3>1. u \in StateType /\ u.cwd = t.cwd /\ \A d \in D : u.disk[d] = t.disk[d]
      BY <2>4 DEF NewBlock
    <3>2. PICK v : v = put(u, i, m)
      OBVIOUS
    <3>3. /\ v \in StateType /\ v.cwd.blk = t.cwd.blk /\ v.disk = u.disk /\ v.fat = u.fat
          /\ v.cwd.entries = [t.cwd.entries EXCEPT ![i] = m]
      BY <2>2, <2>5, <3>1, <3>2, PutChanges
    <3>4. Swaps(t.fat, v.fat, t.cwd.entries[i], m)
      BY <1>2, <2>2, <2>3, <2>5, <3>3, TakesOne
    <3> QED
      BY <2>2, <3>1, <3>2, <3>3, <3>4 DEF Places
  <2>7. Complete(exit_method(put(u, i, m), s.cwd, TRUE), D)
    BY <2>2, <2>6, PlaceComplete
  <2> QED
    BY <1>2, <1>8, <2>1, <2>3, <2>7 DEF LeavesAll
<1> QED
  BY <1>6, <1>7, <1>8

(* rm, *)
LEMMA RmLeaves ==
  ASSUME NEW s, NEW D, Opens(s, D), NEW c \in Commands, c.cmd = "rm", rm(c)
  PROVE  LeavesAll
<1>1. c.path \in PathType
  BY CommandsAssumption
<1>2. /\ Tree(s, D) /\ s \in StateType /\ SyncRoot(This) = s /\ s.fat = fat /\ s.cwd = cwd /\ fat \in FatType
  BY OpensFacts
<1>3. PICK parts : parts = get_filename_parts(s, c.path)
  OBVIOUS
<1>4. PICK here : here = enter(s, parts)
  OBVIOUS
<1>5. Visits(s, here.s, D) /\ here.s \in StateType /\ (here.ok => parts.file # NoName)
  <2>1. parts.dir \in PathType
    BY <1>1, <1>2, <1>3, PartsType
  <2> QED
    BY <1>2, <1>4, <2>1, EnterVisits DEF Visits
<1> DEFINE i     == lookup(here.s, parts.file)
           file  == here.s.cwd.entries[i]
           none  == [file EXCEPT !.name = NoName, !.size = 0, !.first_blk = 0]
           freed == free_chain(fat, file.first_blk)
           found == here.ok /\ i # None /\ file.type # TYPE_DIR
<1>6. \/ Becomes(here.s)
      \/ Becomes(exit_method(here.s, cwd, FALSE))
      \/ found /\ Becomes(exit_method([put(here.s, i, none) EXCEPT !.fat = freed.fat], cwd, TRUE))
  <2>1. RmEnds(parts, here)
    BY <1>2, <1>3, <1>4, RmRuns
  <2> QED
    BY <2>1, Zenon DEF RmEnds
<1>7. CASE Becomes(here.s) \/ Becomes(exit_method(here.s, cwd, FALSE))
  BY <1>5, <1>7, LooksComplete
<1>8. CASE found /\ Becomes(exit_method([put(here.s, i, none) EXCEPT !.fat = freed.fat], cwd, TRUE))
  <2>1. PICK t, e, m, j, f : t = here.s /\ e = file /\ m = none /\ j = i /\ f = freed.fat
    OBVIOUS
  <2>2. /\ t \in StateType /\ Visits(s, t, D) /\ t.cwd.blk \in D /\ t.cwd.entries = DirIn(s, t.cwd.blk)
        /\ j \in Slots /\ e = t.cwd.entries[j] /\ e \in EntryType /\ e.type # TYPE_DIR /\ e.name # NoName /\ t.fat = fat
    BY <1>2, <1>5, <1>8, <2>1, SearchGood, EntryTypes, ZenonT(40) DEF Visits
  <2>3. m \in EntryType
    <3>1. m = [e EXCEPT !.name = NoName, !.size = 0, !.first_blk = 0] /\ 0 \in Blocks /\ 0 \in 0 .. MaxSize
      BY <2>1, Numbers DEF FAT_FREE
    <3> QED
      BY <2>2, <3>1, WordsAreText DEF EntryType
  <2>4. j # 0 /\ e.first_blk \in Blocks /\ fat[e.first_blk] = FAT_EOF
    BY <2>2, FileHasOne
  <2>5. f = [fat EXCEPT ![e.first_blk] = FAT_FREE] /\ f \in FatType
    <3>1. free_chain(fat, e.first_blk).fat = [fat EXCEPT ![e.first_blk] = FAT_FREE]
      BY <1>2, <2>4, FreeOne
    <3>2. FAT_FREE \in Blocks
      BY Numbers
    <3>3. f = [fat EXCEPT ![e.first_blk] = FAT_FREE]
      BY <2>1, <3>1
    <3> HIDE DEF i, file, none, freed, found
    <3> QED
      BY <1>2, <2>4, <3>2, <3>3 DEF FatType
  <2>6. PICK u, v : u = put(t, j, m) /\ v = [u EXCEPT !.fat = f]
    OBVIOUS
  <2>7. /\ u \in StateType /\ u.cwd.blk = t.cwd.blk /\ u.disk = t.disk
        /\ u.cwd.entries = [t.cwd.entries EXCEPT ![j] = m]
    BY <2>2, <2>3, <2>6, PutChanges
  <2>8. v \in StateType /\ v.cwd = u.cwd /\ v.disk = u.disk /\ v.fat = f
    BY <2>5, <2>6, <2>7 DEF StateType
  <2>9. Places(D, t, j, m, v)
    <3>1. Swaps(t.fat, v.fat, t.cwd.entries[j], m)
      BY <1>2, <2>2, <2>4, <2>5, <2>8, GivesOne
    <3> QED
      BY <2>2, <2>4, <2>7, <2>8, <3>1 DEF Places
  <2>10. Complete(exit_method(v, s.cwd, TRUE), D)
    BY <2>2, <2>9, PlaceComplete
  <2> QED
    BY <1>2, <1>8, <2>1, <2>6, <2>10, Zenon DEF LeavesAll
<1> QED
  BY <1>6, <1>7, <1>8

(* cp, whose text fits a block, *)
LEMMA CpLeaves ==
  ASSUME NEW s, NEW D, Opens(s, D), NEW c \in Commands, c.cmd = "cp", cp(c)
  PROVE  LeavesAll
<1>1. c.src \in PathType /\ c.dst \in PathType
  BY CommandsAssumption
<1>2. /\ LocalUse /\ s = This /\ Tree(s, D) /\ s \in StateType /\ SyncRoot(This) = s /\ s.fat = fat /\ s.cwd = cwd
      /\ fat \in FatType
  BY OpensFacts
<1>3. PICK src, dst : src = get_filename_parts(s, c.src) /\ dst = get_filename_parts(s, c.dst)
  OBVIOUS
<1>4. src.file \in Words /\ dst.file \in Words /\ src.dir \in PathType /\ dst.dir \in PathType
  BY <1>1, <1>2, <1>3, PartsType
<1>5. PICK here, there : here = enter(s, src) /\ there = change_cwd(here.s, dst.dir) /\ cp_returns(src, dst, here, there)
  BY <1>2, <1>3, Zenon DEF cp
<1>6. /\ Visits(s, here.s, D) /\ here.s \in StateType /\ (here.ok => src.file # NoName)
      /\ Visits(s, there.s, D) /\ there.s \in StateType /\ there.s.fat = fat
  <2>1. Visits(s, here.s, D)
    BY <1>2, <1>4, <1>5, EnterVisits
  <2>2. Visits(s, there.s, D)
    BY <1>4, <1>5, <2>1, OpensFacts, ChangeVisits
  <2>3. here.ok => src.file # NoName
    BY <1>5 DEF enter
  <2> QED
    BY <1>2, <2>1, <2>2, <2>3 DEF Visits
<1> DEFINE name == IF dst.file = NoName THEN src.file ELSE dst.file
           i    == lookup(here.s, src.file)
           file == here.s.cwd.entries[i]
           blk  == find_empty_block(fat)
           slot == free_slot(there.s)
           read == strings_read(here.s, file.first_blk, file.size)
           copy    == [file EXCEPT !.name = name, !.first_blk = blk]
           found   == here.ok /\ i # None /\ blk # None /\ slot # None
<1>7. \/ Becomes(here.s)
      \/ Becomes(exit_method(here.s, cwd, FALSE))
      \/ Becomes(exit_method(there.s, cwd, FALSE))
      \/ found /\ \E data \in read : \E w \in {write_data(there.s, blk, data)} :
                   Becomes(exit_method(put(IF w.ok THEN w.s ELSE exit_method(w.s, cwd, FALSE), slot, copy), cwd, TRUE))
  BY <1>5, Zenon DEF cp_returns
<1>8. CASE Becomes(here.s) \/ Becomes(exit_method(here.s, cwd, FALSE)) \/ Becomes(exit_method(there.s, cwd, FALSE))
  BY <1>6, <1>8, LooksComplete
<1>9. SUFFICES ASSUME found, NEW data, data \in read, NEW written, written = write_data(there.s, blk, data),
                       Becomes(exit_method(put(IF written.ok THEN written.s ELSE exit_method(written.s, cwd, FALSE),
                                               slot, copy), cwd, TRUE))
                PROVE  LeavesAll
  BY <1>7, <1>8, Zenon
<1>10. ~written.ok \/ Becomes(exit_method(put(written.s, slot, copy), cwd, TRUE))
  <2>1. CASE written.ok
    BY <1>9, <2>1
  <2> QED
    BY <2>1
<1> QED
  <2>1. PICK t, u, e, m, b, j, k, y : /\ t = there.s /\ u = written.s /\ e = file /\ m = copy /\ b = blk
                                      /\ j = slot /\ k = i /\ y = data
    BY Zenon
  <2>2. /\ b \in Blocks /\ fat[b] = FAT_FREE /\ k \in Slots /\ e = here.s.cwd.entries[k] /\ e \in EntryType
        /\ e.name = src.file /\ src.file # NoName
        /\ j \in Slots \ {0} /\ t.cwd.entries[j].first_blk = FAT_FREE /\ t.cwd.entries[j].type # TYPE_DIR
    <3>1. b \in Blocks /\ fat[b] = FAT_FREE
      BY <1>2, <1>9, <2>1, EmptyBlockIs, Zenon
    <3>2. k \in Slots /\ e = here.s.cwd.entries[k] /\ e.name = src.file /\ src.file # NoName
      BY <1>6, <1>9, <2>1, SearchGood, ZenonT(40)
    <3>3. e \in EntryType
      BY <1>6, <3>2, EntryTypes
    <3>4. j \in Slots \ {0} /\ t.cwd.entries[j].first_blk = FAT_FREE /\ t.cwd.entries[j].type # TYPE_DIR
      <4>1. Visits(s, t, D) /\ j = free_slot(t) /\ j # None
        BY <1>6, <1>9, <2>1, Zenon
      <4> QED
        BY <4>1, FreeSlotFree
    <3> QED
      BY <3>1, <3>2, <3>3, <3>4
  <2>3. k # 0 /\ e.type # TYPE_DIR
    BY <1>2, <1>3, <1>6, <1>9, <2>2, LocalSource, ZenonT(40)
  <2>4. m \in EntryType /\ m.first_blk = b
    <3>1. m = [e EXCEPT !.name = name, !.first_blk = b] /\ name \in Words
      BY <1>4, <2>1
    <3> HIDE DEF name
    <3> QED
      BY <2>2, <3>1 DEF EntryType
  <2>5. y \in Text /\ Len(y) < BlockSize
    <3>1. e.first_blk \in Blocks \cup {FAT_EOF} /\ e.size \in Nat
      BY <2>2, Numbers DEF EntryType
    <3>2. y \in strings_read(here.s, e.first_blk, e.size)
      BY <1>9, <2>1, Zenon
    <3>3. e.size < BlockSize
      <4>1. DirGood(D, here.s.cwd.entries)
        BY <1>6, OpensFacts DEF Visits
      <4>2. e.type = TYPE_FILE /\ e.first_blk # FAT_FREE
        BY <2>2, <2>3, <4>1 DEF DirGood, EntryType
      <4>3. e.size \in FileSizes
        BY <2>2, <2>3, <4>1, <4>2 DEF DirGood
      <4> QED
        BY <1>2, <4>3, SizesChosen DEF RoomToCopy
    <3>4. y \in Text
      BY <1>6, <3>1, <3>2, StringsType
    <3>5. Len(y) <= e.size
      BY <1>6, <3>1, <3>2, ReadWithin
    <3>6. Len(y) \in Nat /\ BlockSize \in Nat
      BY <3>4, SizesAssumption DEF Text
    <3> QED
      BY <3>1, <3>3, <3>4, <3>5, <3>6
  <2>6. NewBlock(s, D, t, b, u)
    <3>1. u = write_data(t, b, y).s
      BY <1>9, <2>1, Zenon
    <3> QED
      BY <1>2, <1>6, <2>1, <2>2, <2>5, <3>1, WroteNew, ZenonT(40)
  <2>7. written.ok /\ u.fat = [fat EXCEPT ![b] = FAT_EOF]
    <3>1. t \in StateType /\ t.fat = fat
      BY <1>6, <2>1
    <3>2. write_data(t, b, y).ok /\ write_data(t, b, y).s.fat = [t.fat EXCEPT ![b] = FAT_EOF]
      BY <2>2, <2>5, <3>1, WriteOne
    <3> QED
      BY <1>9, <2>1, <3>1, <3>2, Zenon
  <2>8. Places(D, t, j, m, put(u, j, m))
    <3>1. u \in StateType /\ u.cwd = t.cwd /\ (\A d \in D : u.disk[d] = t.disk[d]) /\ t.fat = fat
      BY <1>6, <2>1, <2>6, Zenon DEF NewBlock
    <3>2. PICK v : v = put(u, j, m)
      OBVIOUS
    <3>3. /\ v \in StateType /\ v.cwd.blk = t.cwd.blk /\ v.disk = u.disk /\ v.fat = u.fat
          /\ v.cwd.entries = [t.cwd.entries EXCEPT ![j] = m]
      BY <2>2, <2>4, <3>1, <3>2, PutChanges
    <3>4. Swaps(t.fat, v.fat, t.cwd.entries[j], m)
      BY <1>2, <2>2, <2>4, <2>7, <3>1, <3>3, TakesOne
    <3> QED
      BY <2>2, <3>1, <3>2, <3>3, <3>4 DEF Places
  <2>9. Complete(exit_method(put(u, j, m), s.cwd, TRUE), D)
    BY <1>6, <2>1, <2>8, PlaceComplete, Zenon
  <2> QED
    BY <1>2, <1>10, <2>1, <2>7, <2>9, Zenon DEF LeavesAll

(* format, after which there is only the root,                             *)
LEMMA FormatLeaves == ASSUME TypeOK, format PROVE LeavesAll
<1> DEFINE f == [b \in Blocks |-> IF b \in {ROOT_BLOCK, FAT_BLOCK} THEN FAT_EOF ELSE FAT_FREE]
           e == init_dir(ROOT_BLOCK, Rights)
           t == [fat |-> f, disk |-> disk, root |-> e, cwd |-> [entries |-> e, info |-> e[0], blk |-> ROOT_BLOCK]]
           S == {ROOT_BLOCK}
<1>1. Becomes(t)
  BY DEF format, Becomes
<1>2. t \in StateType
  BY <1>1, FormatKeeps, ThisType DEF Becomes, TypeOK, StateType, DiskType
<1>3. Covers(t.fat, S, DirsOf(t, S))
  BY DEF Covers
<1> HIDE DEF t
<1>4. \A B : Tree(t, B) => S \subseteq B
  BY TreeFacts
<1> QED
  BY <1>1, <1>2, <1>3, <1>4 DEF Complete, LeavesAll

(* and the next start of the program, which reads the table again.         *)
LEMMA RestartLeaves == ASSUME NEW s, NEW D, Opens(s, D), restart PROVE LeavesAll
<1>1. /\ Tree(s, D) /\ s \in StateType /\ s.fat = fat /\ s.cwd = cwd /\ s.disk = disk
      /\ D \subseteq Blocks \ {FAT_BLOCK} /\ ROOT_BLOCK \in D /\ s.cwd.blk \in D
  BY OpensFacts
<1> DEFINE d == [disk EXCEPT ![FAT_BLOCK] = InFat(fat), ![cwd.blk] = InDir(cwd.entries)]
<1>2. InFat(s.fat) \in BlockType /\ InDir(s.cwd.entries) \in BlockType
  BY <1>1, WritingTypes DEF StateType, CwdType
<1>3. FAT_BLOCK # ROOT_BLOCK /\ FAT_BLOCK \in Blocks /\ ROOT_BLOCK \in Blocks
  BY Numbers DEF FAT_BLOCK, ROOT_BLOCK
<1>4. /\ d \in DiskType /\ d[s.cwd.blk] = InDir(s.cwd.entries) /\ d[FAT_BLOCK] = InFat(s.fat)
      /\ \A b \in Blocks \ {FAT_BLOCK, s.cwd.blk} : d[b] = s.disk[b]
  <2> HIDE DEF FAT_BLOCK, ROOT_BLOCK
  <2> QED
    BY <1>1, <1>2, <1>3 DEF StateType, DiskType
<1>5. Becomes(boot(d))
  BY DEF restart
<1> HIDE DEF d
<1>6. PICK t : t = boot(d)
  OBVIOUS
<1>7. AsDir(InDir(s.cwd.entries)) = s.cwd.entries /\ AsFat(InFat(s.fat)) = s.fat
  BY DEF AsDir, InDir, AsFat, InFat
<1>8. \A b \in D : AsDir(d[b]) = DirIn(s, b)
  BY <1>1, <1>4, <1>7 DEF DirIn
<1>9. /\ t \in StateType /\ t.disk = d /\ t.cwd.blk = ROOT_BLOCK /\ t.cwd.entries = DirIn(s, ROOT_BLOCK)
      /\ t.fat = s.fat
  <2>1. t \in StateType
    BY <1>4, <1>6, BootType
  <2> QED
    BY <1>1, <1>4, <1>6, <1>7, <1>8, <2>1 DEF boot
<1>10. \A b \in D : DirIn(t, b) = DirIn(s, b)
  BY <1>8, <1>9 DEF DirIn
<1>11. \A b \in D : DirsOf(t, D)[b] = DirsOf(s, D)[b]
  BY <1>10 DEF DirsOf
<1>12. Covers(t.fat, D, DirsOf(t, D))
  BY <1>1, <1>9, <1>11, OpensFacts DEF Covers, Refers
<1>13. \A B : Tree(t, B) => D \subseteq B
  <2>1. KeepsLists(D, DirsOf(s, D), DirsOf(t, D))
    BY <1>11 DEF KeepsLists
  <2> QED
    BY <2>1, StillListed
<1> QED
  BY <1>5, <1>6, <1>9, <1>12, <1>13 DEF Complete, LeavesAll

(* A directory that is set up has the type of one. *)
LEMMA NewDirType ==
  ASSUME NEW blk \in Blocks, NEW rights \in SUBSET Rights
  PROVE  init_dir(blk, rights) \in DirType
<1>1. PICK p : p = Entry(Parent, 0, blk, TYPE_DIR, rights)
  OBVIOUS
<1>2. p \in EntryType
  <2>1. 0 \in 0 .. MaxSize /\ TYPE_DIR \in {TYPE_FILE, TYPE_DIR}
    BY Numbers
  <2> QED
    BY <1>1, <2>1, EntryTypes, WordsAreText
<1>3. init_dir(blk, rights) = [ZeroDir EXCEPT ![0] = p]
  BY <1>1 DEF init_dir
<1> QED
  BY <1>2, <1>3, ZeroTypes, Numbers DEF DirType, ZeroDir

(* mkdir, whose new directory holds nothing,                               *)
LEMMA MkdirLeaves ==
  ASSUME NEW s, NEW D, Opens(s, D), NEW c \in Commands, c.cmd = "mkdir", mkdir(c)
  PROVE  LeavesAll
<1>1. c.path \in PathType
  BY CommandsAssumption
<1>2. /\ Tree(s, D) /\ s \in StateType /\ SyncRoot(This) = s /\ s.fat = fat /\ s.cwd = cwd /\ fat \in FatType
      /\ D \subseteq Blocks
  BY OpensFacts
<1>3. PICK parts : parts = get_filename_parts(s, c.path)
  OBVIOUS
<1>4. PICK here : here = enter(s, parts)
  OBVIOUS
<1>5. parts.file \in Words /\ Visits(s, here.s, D) /\ here.s \in StateType /\ here.s.fat = fat
  <2>1. parts.dir \in PathType /\ parts.file \in Words
    BY <1>1, <1>2, <1>3, PartsType
  <2> QED
    BY <1>2, <1>4, <2>1, EnterVisits DEF Visits
<1> DEFINE blk   == find_empty_block(fat)
           slot  == free_slot(here.s)
           dir   == Entry(parts.file, 0, blk, TYPE_DIR, Rights)
           new   == init_dir(here.s.cwd.blk, here.s.cwd.info.rights)
           made  == [here.s EXCEPT !.disk[blk] = InDir(new), !.fat[blk] = FAT_EOF]
           found == blk # None /\ slot # None
<1>6. \/ Becomes(here.s)
      \/ Becomes(exit_method(here.s, cwd, FALSE))
      \/ found /\ Becomes(exit_method(put(made, slot, dir), cwd, TRUE))
  <2>1. None \notin {blk, slot} => blk # None /\ slot # None
    OBVIOUS
  <2>2. MkdirEnds(parts, here)
    BY <1>2, <1>3, <1>4, MkdirRuns
  <2> QED
    BY <1>2, <2>1, <2>2, Zenon DEF MkdirEnds
<1>7. CASE Becomes(here.s) \/ Becomes(exit_method(here.s, cwd, FALSE))
  BY <1>5, <1>7, LooksComplete
<1>8. CASE found /\ Becomes(exit_method(put(made, slot, dir), cwd, TRUE))
  <2>1. PICK t, u, m, b, i, n : t = here.s /\ u = made /\ m = dir /\ b = blk /\ i = slot /\ n = new
    OBVIOUS
  <2>2. /\ b \in Blocks /\ fat[b] = FAT_FREE /\ t \in StateType /\ t.fat = fat /\ Visits(s, t, D) /\ t.cwd \in CwdType
    BY <1>2, <1>5, <1>8, <2>1, EmptyBlockIs DEF StateType
  <2>3. i \in Slots \ {0} /\ t.cwd.entries[i].first_blk = FAT_FREE /\ t.cwd.entries[i].type # TYPE_DIR
    BY <1>8, <2>1, <2>2, FreeSlotFree
  <2>4. InDir(n) \in BlockType
    <3>1. t.cwd.blk \in Blocks /\ t.cwd.info.rights \in SUBSET Rights
      BY <2>2 DEF CwdType, EntryType
    <3>2. n = init_dir(t.cwd.blk, t.cwd.info.rights)
      BY <2>1
    <3> HIDE DEF new, made
    <3> QED
      BY <3>1, <3>2, NewDirType, WritingTypes
  <2>5. u \in StateType /\ u.cwd = t.cwd /\ u.disk = [t.disk EXCEPT ![b] = InDir(n)] /\ u.fat = [fat EXCEPT ![b] = FAT_EOF]
    <3>1. u = [t EXCEPT !.disk[b] = InDir(n), !.fat[b] = FAT_EOF]
      BY <2>1
    <3> HIDE DEF made, new
    <3> QED
      BY <2>2, <2>4, <3>1 DEF StateType, DiskType, FatType
  <2>6. b \notin D /\ \A d \in D : u.disk[d] = t.disk[d]
    <3>1. \A d \in D : fat[d] # FAT_FREE
      BY OpensFacts DEF TreeGood
    <3> QED
      BY <1>2, <2>2, <2>5, <3>1 DEF StateType, DiskType
  <2>7. m \in EntryType /\ m.first_blk = b
    <3>1. 0 \in 0 .. MaxSize /\ TYPE_DIR \in {TYPE_FILE, TYPE_DIR} /\ Rights \in SUBSET Rights
      BY Numbers
    <3>2. m = Entry(parts.file, 0, b, TYPE_DIR, Rights)
      BY <2>1
    <3> QED
      BY <1>5, <2>2, <3>1, <3>2, EntryTypes DEF Entry
  <2>8. Places(D, t, i, m, put(u, i, m))
    <3>1. PICK v : v = put(u, i, m)
      OBVIOUS
    <3>2. /\ v \in StateType /\ v.cwd.blk = t.cwd.blk /\ v.disk = u.disk /\ v.fat = u.fat
          /\ v.cwd.entries = [t.cwd.entries EXCEPT ![i] = m]
      BY <2>3, <2>5, <2>7, <3>1, PutChanges
    <3>3. Swaps(t.fat, v.fat, t.cwd.entries[i], m)
      BY <1>2, <2>2, <2>3, <2>5, <2>7, <3>2, TakesOne
    <3> QED
      BY <2>3, <2>6, <3>1, <3>2, <3>3 DEF Places
  <2>9. Complete(exit_method(put(u, i, m), s.cwd, TRUE), D)
    BY <2>2, <2>8, PlaceComplete
  <2> QED
    BY <1>2, <1>8, <2>1, <2>9 DEF LeavesAll
<1> QED
  BY <1>6, <1>7, <1>8

(* A walk does not see files: where two states have the same directories   *)
(* in the same places, the walk that ends in one of them ends in the other.*)
Twins(D, E, F) ==
  \A b \in D, i \in Slots : E[b][i].type = TYPE_DIR \/ F[b][i].type = TYPE_DIR => E[b][i] = F[b][i]

(* One turn of the loop of change_cwd, *)
LEMMA TwinStep ==
  ASSUME NEW s, NEW t, NEW comps, NEW k, NEW w \in WalkState, NEW x \in WalkState,
         w.ok, x.ok, w.pos = x.pos, w.blk = x.blk,
         \A i \in Slots : w.dir[i].type = TYPE_DIR \/ x.dir[i].type = TYPE_DIR => w.dir[i] = x.dir[i],
         NEW v, v = walk_into(s, comps, {}, w, k), NEW y, y = walk_into(t, comps, {}, x, k), v.ok
  PROVE  y.ok /\ y.blk = v.blk /\ y.pos = v.pos
<1> DEFINE c == comps[k]
           S(r) == {j \in Slots : r.dir[j].name = c /\ r.dir[j].type = TYPE_DIR}
           found(r) == IF c = NoName THEN {} ELSE S(r)
           e(r) == r.dir[First(found(r))]
           missed(r) == k < Len(comps) /\ CompLen(c) < r.pos
           into(q, r) == [ok |-> TRUE, blk |-> e(r).first_blk, info |-> e(r), dir |-> AsDir(q.disk[e(r).first_blk]), pos |-> CompLen(c)]
<1>1. v = IF ~w.ok \/ missed(w) \/ (c # NoName /\ found(w) = {}) THEN [w EXCEPT !.ok = FALSE]
          ELSE IF found(w) = {} THEN [w EXCEPT !.pos = CompLen(c)] ELSE into(s, w)
  BY Zenon DEF walk_into
<1>2. y = IF ~x.ok \/ missed(x) \/ (c # NoName /\ found(x) = {}) THEN [x EXCEPT !.ok = FALSE]
          ELSE IF found(x) = {} THEN [x EXCEPT !.pos = CompLen(c)] ELSE into(t, x)
  BY Zenon DEF walk_into
<1>3. S(x) = S(w)
  OBVIOUS
<1>4. found(x) = found(w) /\ (missed(x) <=> missed(w))
  BY <1>3
<1>5. found(w) # {} => e(x) = e(w)
  <2>1. ASSUME found(w) # {} PROVE e(x) = e(w)
    <3>1. found(w) = S(w) /\ S(w) \in SUBSET Nat /\ S(w) # {}
      BY <2>1, Numbers
    <3>2. First(found(w)) \in S(w)
      <4> HIDE DEF S, found
      <4> QED
        BY <3>1, FirstIn
    <3>3. PICK j : j = First(found(w))
      OBVIOUS
    <3>4. j \in Slots /\ w.dir[j].type = TYPE_DIR
      <4> HIDE DEF found
      <4> QED
        BY <3>2, <3>3
    <3>5. e(x) = x.dir[j] /\ e(w) = w.dir[j]
      <4> HIDE DEF found
      <4> QED
        BY <1>4, <3>3
    <3> QED
      BY <3>4, <3>5
  <2> QED
    BY <2>1
<1>6. /\ [w EXCEPT !.ok = FALSE].ok = FALSE /\ [w EXCEPT !.pos = CompLen(c)].blk = w.blk /\ [w EXCEPT !.pos = CompLen(c)].pos = CompLen(c)
      /\ [x EXCEPT !.pos = CompLen(c)].blk = x.blk /\ [x EXCEPT !.pos = CompLen(c)].pos = CompLen(c)
      /\ [x EXCEPT !.pos = CompLen(c)].ok = x.ok
  BY DEF WalkState
<1>7. into(s, w).blk = e(w).first_blk /\ into(t, x).blk = e(x).first_blk /\ into(t, x).ok
      /\ into(s, w).pos = CompLen(c) /\ into(t, x).pos = CompLen(c)
  OBVIOUS
<1> HIDE DEF S, found, e, missed, into, c
<1>8. ~missed(w) /\ ~(c # NoName /\ found(w) = {})
  BY <1>1, <1>6
<1>9. CASE found(w) = {}
  <2>1. v = [w EXCEPT !.pos = CompLen(c)] /\ y = [x EXCEPT !.pos = CompLen(c)]
    BY <1>1, <1>2, <1>4, <1>8, <1>9
  <2> QED
    BY <1>6, <2>1, ZenonT(40)
<1>10. CASE found(w) # {}
  <2>1. v = into(s, w) /\ y = into(t, x)
    BY <1>1, <1>2, <1>4, <1>8, <1>10
  <2> QED
    BY <1>5, <1>7, <1>10, <2>1
<1> QED
  BY <1>9, <1>10

(* all of them, *)
LEMMA TwinWalk ==
  ASSUME NEW s \in StateType, NEW t \in StateType, NEW path \in PathType, NEW D, NEW E, NEW F,
         DirsGood(D, E), DirsGood(D, F), Twins(D, E, F),
         \A b \in D : AsDir(s.disk[b]) = E[b] /\ AsDir(t.disk[b]) = F[b],
         s.root = E[ROOT_BLOCK], t.root = F[ROOT_BLOCK], s.cwd.blk \in D, t.cwd.blk = s.cwd.blk,
         s.cwd.entries = E[s.cwd.blk], t.cwd.entries = F[s.cwd.blk], Walk(s, path, {}).ok
  PROVE  Walk(t, path, {}).ok /\ Walk(t, path, {}).blk = Walk(s, path, {}).blk
<1> DEFINE n == Len(path.comps)
           Both(w, x) == /\ w.ok /\ x.ok /\ w.pos = x.pos /\ w.blk = x.blk /\ w.blk \in D
                         /\ w.dir = E[w.blk] /\ x.dir = F[w.blk]
<1>1. {} \in {{}, {0}}
  OBVIOUS
<1>2. PICK a \in [0 .. n -> WalkState] :
           /\ a[0] = walk_from(s, path)
           /\ \A k \in 1 .. n : a[k] = walk_into(s, path.comps, {}, a[k - 1], k)
           /\ Walk(s, path, {}) = a[n]
  BY <1>1, WalkRuns
<1>3. PICK h \in [0 .. n -> WalkState] :
           /\ h[0] = walk_from(t, path)
           /\ \A k \in 1 .. n : h[k] = walk_into(t, path.comps, {}, h[k - 1], k)
           /\ Walk(t, path, {}) = h[n]
  BY <1>1, WalkRuns
<1> DEFINE K == {k \in 0 .. n : a[k].ok => Both(a[k], h[k])}
<1>4. n \in Nat
  BY DEF PathType
<1>5. 0 \in K
  <2>1. ROOT_BLOCK \in D
    BY DEF DirsGood
  <2>2. Both(walk_from(s, path), walk_from(t, path))
    BY <2>1 DEF walk_from
  <2> QED
    BY <1>2, <1>3, <1>4, <2>2
<1>6. ASSUME NEW k \in 1 .. n, k - 1 \in K PROVE k \in K
  <2>1. k \in 0 .. n /\ k - 1 \in 0 .. n
    BY <1>4
  <2>2. PICK w, x, v, y : w = a[k - 1] /\ x = h[k - 1] /\ v = a[k] /\ y = h[k]
    OBVIOUS
  <2>3. /\ w \in WalkState /\ x \in WalkState /\ (w.ok => Both(w, x))
        /\ v = walk_into(s, path.comps, {}, w, k) /\ y = walk_into(t, path.comps, {}, x, k)
    BY <1>2, <1>3, <1>6, <2>1, <2>2
  <2>4. ASSUME v.ok PROVE Both(v, y)
    <3>1. w.ok /\ v.blk \in D /\ v.dir = E[v.blk]
      BY <2>3, <2>4, WalkIntoGood
    <3>2. Both(w, x)
      BY <2>3, <3>1
    <3>3. y.ok /\ y.blk = v.blk /\ y.pos = v.pos
      <4>1. w.ok /\ x.ok /\ w.pos = x.pos /\ w.blk = x.blk
        BY <3>2
      <4>2. \A i \in Slots : w.dir[i].type = TYPE_DIR \/ x.dir[i].type = TYPE_DIR => w.dir[i] = x.dir[i]
        BY <3>2 DEF Twins
      <4> HIDE DEF Both
      <4> QED
        BY <2>3, <2>4, <4>1, <4>2, TwinStep
    <3>4. y.dir = F[y.blk]
      <4>1. x.ok => x.blk \in D /\ x.dir = F[x.blk]
        BY <3>2
      <4> HIDE DEF Both
      <4> QED
        BY <2>3, <3>3, <4>1, WalkIntoGood
    <3> QED
      BY <2>4, <3>1, <3>3, <3>4
  <2> QED
    BY <2>1, <2>2, <2>4
<1>7. n \in K
  <2> HIDE DEF n, K
  <2>1. \A k \in 0 .. n : k \in K
    BY <1>4, <1>5, <1>6, EveryTurn
  <2> QED
    BY <1>4, <2>1
<1>8. Both(a[n], h[n])
  BY <1>2, <1>7
<1> QED
  BY <1>2, <1>3, <1>8

(* and the method. *)
LEMMA TwinChange ==
  ASSUME NEW s, NEW y, NEW D, Rooted(s, D), Rooted(y, D), Twins(D, DirsOf(s, D), DirsOf(y, D)),
         y.cwd.blk = s.cwd.blk, NEW path \in PathType, change_cwd(s, path).ok
  PROVE  change_cwd(y, path).ok /\ change_cwd(y, path).s.cwd.blk = change_cwd(s, path).s.cwd.blk
<1> DEFINE Into(u, w) == [u EXCEPT !.cwd = [entries |-> w.dir, info |-> w.info, blk |-> w.blk]]
           Change(t, u, w) == IF path = EmptyPath THEN [ok |-> TRUE, s |-> t]
                              ELSE IF ~w.ok THEN [ok |-> FALSE, s |-> u] ELSE [ok |-> TRUE, s |-> Into(u, w)]
<1>1. \A t : change_cwd(t, path) = Change(t, Saved(t), Walk(Saved(t), path, {}))
  BY DEF change_cwd, Saved
<1>2. CASE path = EmptyPath
  <2>1. change_cwd(s, path) = [ok |-> TRUE, s |-> s] /\ change_cwd(y, path) = [ok |-> TRUE, s |-> y]
    BY <1>1, <1>2
  <2> QED
    BY <2>1
<1>3. CASE path # EmptyPath
  <2>1. PICK E, F, u, x : E = DirsOf(s, D) /\ F = DirsOf(y, D) /\ u = Saved(s) /\ x = Saved(y)
    OBVIOUS
  <2>2. Visits(s, u, D) /\ u.cwd = s.cwd /\ \A b \in D : AsDir(u.disk[b]) = DirIn(s, b)
    BY <2>1, SavedGood, VisitsHere
  <2>3. Visits(y, x, D) /\ x.cwd = y.cwd /\ \A b \in D : AsDir(x.disk[b]) = DirIn(y, b)
    BY <2>1, SavedGood, VisitsHere
  <2>4. /\ DirsGood(D, E) /\ (\A b \in D : E[b] = DirIn(s, b)) /\ s.cwd.blk \in D
        /\ DirsGood(D, F) /\ (\A b \in D : F[b] = DirIn(y, b)) /\ Twins(D, E, F) /\ ROOT_BLOCK \in D
    BY <2>1 DEF Rooted, DirsOf, DirsGood
  <2>5. u \in StateType /\ u.root = E[ROOT_BLOCK] /\ u.cwd.blk \in D /\ u.cwd.entries = E[u.cwd.blk]
        /\ \A b \in D : AsDir(u.disk[b]) = E[b]
    BY <2>2, <2>4 DEF Visits, Rooted
  <2>6. x \in StateType /\ x.root = F[ROOT_BLOCK] /\ x.cwd.blk = u.cwd.blk /\ x.cwd.entries = F[u.cwd.blk]
        /\ \A b \in D : AsDir(x.disk[b]) = F[b]
    BY <2>2, <2>3, <2>4 DEF Visits, Rooted
  <2>7. PICK v, w : v = Walk(u, path, {}) /\ w = Walk(x, path, {})
    OBVIOUS
  <2>8. change_cwd(s, path) = Change(s, u, v) /\ change_cwd(y, path) = Change(y, x, w)
    BY <1>1, <2>1, <2>7
  <2>9. v.ok
    BY <1>3, <2>8
  <2>10. w.ok /\ w.blk = v.blk
    BY <2>4, <2>5, <2>6, <2>7, <2>9, TwinWalk
  <2>11. Into(u, v).cwd.blk = v.blk /\ Into(x, w).cwd.blk = w.blk
    BY <2>5, <2>6 DEF StateType
  <2>12. change_cwd(s, path) = [ok |-> TRUE, s |-> Into(u, v)] /\ change_cwd(y, path) = [ok |-> TRUE, s |-> Into(x, w)]
    BY <1>3, <2>8, <2>9, <2>10
  <2> HIDE DEF Into, Change
  <2> QED
    BY <2>10, <2>11, <2>12
<1> QED
  BY <1>2, <1>3

(* A file's entry moves to a free slot, perhaps of another directory. *)
Moves(D, E, b, j, a, n, G) ==
  /\ b \in D /\ j \in Slots /\ a \in D /\ n \in Slots \ {0} /\ E[b][j].type # TYPE_DIR /\ E[a][n].type # TYPE_DIR
  /\ E[a][n].first_blk = FAT_FREE /\ G[a][n].first_blk = E[b][j].first_blk
  /\ \A d \in D, k \in Slots : (d = b /\ k = j) \/ (d = a /\ k = n) \/ G[d][k] = E[d][k]

(* Nothing is lost by it. *)
LEMMA MoveKeeps ==
  ASSUME NEW f, NEW D, NEW E, Covers(f, D, E), NEW b, NEW j, NEW a, NEW n, NEW G, Moves(D, E, b, j, a, n, G)
  PROVE  Covers(f, D, G) /\ KeepsLists(D, E, G)
<1>1. ASSUME NEW x \in Blocks \ {ROOT_BLOCK, FAT_BLOCK}, f[x] # FAT_FREE PROVE f[x] = FAT_EOF /\ Refers(D, G, x)
  <2>1. f[x] = FAT_EOF /\ x # FAT_FREE
    BY <1>1 DEF Covers, FAT_FREE, ROOT_BLOCK
  <2>2. PICK d \in D, k \in Slots \ {0} : E[d][k].first_blk = x
    BY <1>1 DEF Covers, Refers
  <2>3. CASE d = b /\ k = j
    <3>1. a \in D /\ n \in Slots \ {0} /\ G[a][n].first_blk = x
      BY <2>2, <2>3 DEF Moves
    <3> QED
      BY <2>1, <3>1 DEF Refers
  <2>4. CASE ~(d = b /\ k = j)
    <3>1. G[d][k] = E[d][k]
      BY <2>1, <2>2, <2>4 DEF Moves
    <3>2. G[d][k].first_blk = x
      BY <2>2, <3>1
    <3> QED
      BY <2>1, <3>2 DEF Refers
  <2> QED
    BY <2>3, <2>4
<1>2. ASSUME NEW d \in D, NEW x, Lists(E[d], x) PROVE Lists(G[d], x)
  <2>1. PICK k \in Slots \ {0} : E[d][k].type = TYPE_DIR /\ E[d][k].first_blk = x
    BY <1>2 DEF Lists
  <2>2. G[d][k] = E[d][k]
    BY <2>1 DEF Moves
  <2> QED
    BY <2>1, <2>2 DEF Lists
<1> QED
  BY <1>1, <1>2 DEF Covers, KeepsLists

(* mv, whose second call of change_cwd for the destination comes to where  *)
(* the first one found a free slot,                                        *)
LEMMA MvLeaves ==
  ASSUME NEW s, NEW D, Opens(s, D), NEW c \in Commands, c.cmd = "mv", mv(c)
  PROVE  LeavesAll
<1>1. c.src \in PathType /\ c.dst \in PathType
  BY CommandsAssumption
<1>2. /\ LocalUse /\ s = This /\ Tree(s, D) /\ s \in StateType /\ SyncRoot(This) = s /\ s.fat = fat /\ s.cwd = cwd
      /\ Rooted(s, D) /\ Nested(D, DirsOf(s, D)) /\ Visits(s, s, D) /\ Covers(fat, D, DirsOf(s, D))
  BY OpensFacts
<1>3. PICK src, dst : src = get_filename_parts(s, c.src) /\ dst = get_filename_parts(s, c.dst)
  OBVIOUS
<1>4. src.file \in Words /\ dst.file \in Words /\ src.dir \in PathType /\ dst.dir \in PathType
  BY <1>1, <1>2, <1>3, PartsType
<1>5. PICK there, here : there = change_cwd(s, dst.dir) /\ here = change_cwd(there.s, src.dir) /\ mv_returns(src, dst, there, here)
  BY <1>2, <1>3, ZenonT(40) DEF mv
<1>6. Visits(s, there.s, D) /\ Visits(s, here.s, D)
  <2>1. Visits(s, there.s, D)
    BY <1>2, <1>4, <1>5, ChangeVisits
  <2> QED
    BY <1>2, <1>4, <1>5, <2>1, ChangeVisits
<1> DEFINE name  == IF dst.file = NoName THEN src.file ELSE dst.file
           slot  == free_slot(there.s)
           i     == lookup(here.s, src.file)
           wiped == put(here.s, i, ZeroEntry)
           backup == IF here.s.cwd.blk = cwd.blk THEN [cwd EXCEPT !.entries = wiped.cwd.entries] ELSE cwd
           back  == change_cwd(wiped, dst.dir)
           moved == [here.s.cwd.entries[i] EXCEPT !.name = name]
           found == there.ok /\ slot # None /\ here.ok /\ i # None /\ src.file # NoName
<1>7. \/ Becomes(s)
      \/ Becomes(exit_method(there.s, cwd, FALSE))
      \/ Becomes(exit_method(here.s, cwd, FALSE))
      \/ found /\ ~back.ok /\ Becomes(exit_method(back.s, backup, FALSE))
      \/ found /\ back.ok /\ Becomes(exit_method(put(back.s, slot, moved), backup, TRUE))
  BY <1>2, <1>5, Zenon DEF mv_returns
<1>8. CASE \/ Becomes(s) \/ Becomes(exit_method(there.s, cwd, FALSE)) \/ Becomes(exit_method(here.s, cwd, FALSE))
  BY <1>2, <1>6, <1>8, LooksComplete
<1>9. ASSUME found,
             \/ ~back.ok /\ Becomes(exit_method(back.s, backup, FALSE))
             \/ back.ok /\ Becomes(exit_method(put(back.s, slot, moved), backup, TRUE))
      PROVE  LeavesAll
  <2>1. PICK t, b, j, n, w, z, q, m, p, v, E, E1 :
             /\ t = here.s /\ b = t.cwd.blk /\ j = i /\ n = slot /\ w = put(t, j, ZeroEntry)
             /\ z = back /\ m = moved /\ q = backup /\ p = t.cwd.entries[j] /\ v = z.s
             /\ E = DirsOf(s, D) /\ E1 = Edited(s, D, b, w.cwd.entries)
    OBVIOUS
  <2>2. /\ t \in StateType /\ b \in D /\ t.cwd.entries = DirIn(s, b) /\ there.s \in StateType /\ s.cwd \in CwdType
        /\ D \subseteq Blocks /\ s.cwd.blk \in D /\ t.cwd.entries \in DirType /\ ROOT_BLOCK \in D
        /\ \A d \in D : E[d] = DirIn(s, d) /\ E[d] \in DirType
    BY <1>6, <2>1, OpensFacts DEF Visits, StateType, CwdType
  <2>3. j \in Slots /\ p.name = src.file /\ p \in EntryType
    BY <1>9, <2>1, <2>2, SearchGood, EntryTypes
  <2>4. j # 0 /\ p.type # TYPE_DIR
    <3>1. src = get_filename_parts(This, c.src) /\ dst = get_filename_parts(This, c.dst) /\ Visits(This, t, D)
      BY <1>2, <1>3, <1>6, <2>1
    <3>2. src.file # NoName /\ Tree(This, D) /\ LocalUse
      BY <1>2, <1>9
    <3>3. j \in Slots /\ t.cwd.entries[j].name = src.file /\ p = t.cwd.entries[j]
      BY <2>1, <2>3
    <3> QED
      BY <3>1, <3>2, <3>3, LocalSource
  <2>5. b = s.cwd.blk
    <3>1. src.dir = HomePath(s)
      BY <1>1, <1>2, <1>3, <1>9, LocalChange
    <3>2. Rooted(there.s, D) /\ SameFolders(s, D, there.s)
      BY <1>2, <1>6, VisitsKeep DEF SameFolders
    <3>3. here = change_cwd(there.s, src.dir) /\ here.ok /\ b = here.s.cwd.blk
      BY <1>5, <1>9, <2>1, Zenon
    <3> QED
      BY <1>2, <3>1, <3>2, <3>3, HomeAgain
  <2>6. m \in EntryType /\ m.first_blk = p.first_blk
    <3>1. m = [p EXCEPT !.name = name] /\ name \in Words
      BY <1>4, <2>1
    <3> HIDE DEF name
    <3> QED
      BY <2>3, <3>1 DEF EntryType
  <2>7. w.cwd.entries = [t.cwd.entries EXCEPT ![j] = ZeroEntry] /\ w.cwd.entries \in DirType
    <3>1. w \in StateType
      BY <2>1, <2>2, <2>3, ZeroTypes, PutType
    <3> QED
      BY <2>1, <2>2, <3>1 DEF put, StateType, CwdType
  <2>8. n \in Slots \ {0} /\ there.s.cwd.entries[n].first_blk = FAT_FREE /\ there.s.cwd.entries[n].type # TYPE_DIR
    BY <1>6, <1>9, <2>1, FreeSlotFree
  <2> HIDE DEF name, slot, i, wiped, backup, back, moved, found
  <2>9. \A d \in D, k \in Slots : E1[d][k] = IF d = b /\ k = j THEN ZeroEntry ELSE E[d][k]
    BY <2>1, <2>2, <2>3, <2>7 DEF Edited, DirType
  <2>10. ZeroEntry.type # TYPE_DIR /\ E[b][j] = p
    BY <2>1, <2>2 DEF ZeroEntry, Entry, TYPE_DIR, TYPE_FILE
  <2>11. DirsGood(D, E1)
    <3>1. /\ DirsGood(D, E) /\ b \in D /\ j \in Slots \ {0} /\ ZeroEntry \in EntryType
          /\ ZeroEntry.first_blk = FAT_FREE /\ ZeroEntry.name = NoName
      BY <1>2, <2>1, <2>2, <2>3, <2>4, ZeroTypes DEF Rooted, ZeroEntry, Entry, FAT_FREE
    <3>2. E1[b] \in DirType /\ E1[b][0] = E[b][0] /\ \A k \in Slots : E1[b][k] \in {E[b][k], ZeroEntry}
      <4>1. E1[b] = w.cwd.entries
        BY <2>1, <2>2 DEF Edited
      <4> QED
        BY <2>2, <2>4, <2>7, <2>9, <4>1, Numbers
    <3>3. DirGood(D, E1[b])
      BY <2>10, <3>1, <3>2 DEF DirGood, DirsGood
    <3>4. \A d \in D \ {b} : E1[d] = E[d]
      BY <2>1, <2>2 DEF Edited
    <3> QED
      BY <3>1, <3>3, <3>4 DEF DirsGood
  <2>12. z = change_cwd(w, dst.dir) /\ there = change_cwd(s, dst.dir) /\ there.ok
    BY <1>5, <1>9, <2>1 DEF back, wiped, found
  <2>13. /\ v \in StateType /\ v.fat = s.fat /\ v.cwd.blk \in D /\ v.cwd.entries = E1[v.cwd.blk]
         /\ \A d \in D : (z.ok => d # v.cwd.blk) /\ d # s.cwd.blk => AsDir(v.disk[d]) = E1[d]
         /\ \/ dst.dir = EmptyPath /\ v.cwd.blk = t.cwd.blk
            \/ \E y : /\ Rooted(y, D) /\ DirsOf(y, D) = E1 /\ z = change_cwd(y, dst.dir) /\ y.cwd.blk = t.cwd.blk
    <3>1. /\ Tree(s, D) /\ Visits(s, t, D) /\ j \in Slots /\ dst.dir \in PathType /\ w = put(t, j, ZeroEntry)
          /\ E1 = Edited(s, D, t.cwd.blk, w.cwd.entries) /\ DirsGood(D, E1) /\ z = change_cwd(w, dst.dir)
          /\ s.cwd.blk = ROOT_BLOCK \/ t.cwd.blk # ROOT_BLOCK
      BY <1>2, <1>4, <1>6, <2>1, <2>3, <2>5, <2>11, <2>12
    <3> QED
      BY <2>1, <3>1, MvBack
  <2>14. z.ok /\ v.cwd.blk = there.s.cwd.blk
    <3>1. CASE dst.dir = EmptyPath /\ v.cwd.blk = t.cwd.blk
      <4>1. z = [ok |-> TRUE, s |-> w] /\ there = [ok |-> TRUE, s |-> s]
        BY <2>12, <3>1 DEF change_cwd
      <4>2. z.ok /\ there.s = s
        BY <4>1
      <4>3. there.s.cwd.blk = s.cwd.blk
        BY <4>2
      <4>4. v.cwd.blk = s.cwd.blk
        BY <2>1, <2>5, <3>1
      <4> QED
        BY <4>2, <4>3, <4>4
    <3>2. CASE \E y : /\ Rooted(y, D) /\ DirsOf(y, D) = E1 /\ z = change_cwd(y, dst.dir) /\ y.cwd.blk = t.cwd.blk
      <4>1. PICK y : /\ Rooted(y, D) /\ DirsOf(y, D) = E1 /\ z = change_cwd(y, dst.dir) /\ y.cwd.blk = t.cwd.blk
        BY <3>2
      <4>2. Twins(D, DirsOf(s, D), DirsOf(y, D))
        BY <2>1, <2>4, <2>9, <2>10, <4>1 DEF Twins
      <4>3. y.cwd.blk = s.cwd.blk
        BY <2>1, <2>5, <4>1
      <4>4. change_cwd(s, dst.dir).ok
        BY <2>12
      <4>5. /\ change_cwd(y, dst.dir).ok
            /\ change_cwd(y, dst.dir).s.cwd.blk = change_cwd(s, dst.dir).s.cwd.blk
        BY <1>2, <1>4, <4>1, <4>2, <4>3, <4>4, TwinChange
      <4>6. z.ok /\ z.s.cwd.blk = there.s.cwd.blk
        BY <2>12, <4>1, <4>5
      <4>7. v = z.s
        BY <2>1
      <4> QED
        BY <4>6, <4>7
    <3> QED
      BY <2>13, <3>1, <3>2
  <2>15. q \in CwdType /\ q.blk = s.cwd.blk /\ q.entries = E1[s.cwd.blk]
    <3>1. q = [s.cwd EXCEPT !.entries = w.cwd.entries]
      BY <1>2, <2>1, <2>5 DEF backup, wiped
    <3>2. E1[s.cwd.blk] = w.cwd.entries
      BY <2>1, <2>2, <2>5 DEF Edited
    <3> QED
      BY <2>2, <2>7, <3>1, <3>2 DEF CwdType
  <2>16. PICK a : a = v.cwd.blk
    OBVIOUS
  <2>17. a \in D /\ E[a][n].first_blk = FAT_FREE /\ E[a][n].type # TYPE_DIR /\ ~(a = b /\ n = j)
    <3>1. there.s.cwd.entries = E[a]
      BY <1>6, <2>2, <2>13, <2>14, <2>16 DEF Visits
    <3>2. p.first_blk # FAT_FREE
      <4>1. DirGood(D, E[b]) /\ E[b][j].name # NoName /\ j \in Slots \ {0}
        BY <1>2, <1>9, <2>1, <2>2, <2>3, <2>4, <2>10 DEF Rooted, DirsGood, found
      <4> QED
        BY <2>10, <4>1 DEF DirGood
    <3> QED
      BY <2>8, <2>10, <2>13, <2>16, <3>1, <3>2
  <2>18. PICK u, G : u = put(v, n, m) /\ G = [d \in D |-> IF d = a THEN u.cwd.entries ELSE E1[d]]
    OBVIOUS
  <2>19. /\ u \in StateType /\ u.cwd.blk = a /\ u.disk = v.disk /\ u.fat = fat
         /\ u.cwd.entries = [E1[a] EXCEPT ![n] = m] /\ E1[a] \in DirType
    <3>1. n \in Slots
      BY <2>8
    <3>2. E1[a] \in DirType
      BY <2>11, <2>17 DEF DirsGood, DirGood
    <3> QED
      BY <1>2, <2>6, <2>13, <2>16, <2>18, <3>1, <3>2, PutChanges
  <2>20. \A d \in D : G[d] = After(u, q, TRUE, d)
    BY <2>13, <2>14, <2>15, <2>16, <2>18, <2>19 DEF After
  <2>21. Moves(D, E, b, j, a, n, G)
    <3>1. \A d \in D : d # a => G[d] = E1[d]
      BY <2>18
    <3>2. \A k \in Slots : G[a][k] = IF k = n THEN m ELSE E1[a][k]
      BY <2>8, <2>17, <2>18, <2>19 DEF DirType
    <3>3. G[a][n].first_blk = E[b][j].first_blk
      BY <2>6, <2>8, <2>10, <3>2
    <3>4. \A d \in D, k \in Slots : (d = b /\ k = j) \/ (d = a /\ k = n) \/ G[d][k] = E[d][k]
      BY <2>9, <3>1, <3>2
    <3> QED
      BY <2>2, <2>3, <2>4, <2>8, <2>10, <2>17, <3>3, <3>4 DEF Moves
  <2>22. Covers(u.fat, D, G) /\ KeepsLists(D, DirsOf(s, D), G)
    BY <1>2, <2>1, <2>19, <2>21, MoveKeeps
  <2>23. Complete(exit_method(u, q, TRUE), D)
    <3>1. u \in StateType /\ q \in CwdType /\ TRUE \in BOOLEAN
      BY <2>15, <2>19
    <3> QED
      BY <2>20, <2>22, <3>1, ExitComplete
  <2>24. Becomes(exit_method(u, q, TRUE))
    BY <1>9, <2>1, <2>14, <2>18
  <2> QED
    BY <2>23, <2>24 DEF LeavesAll
<1> QED
  BY <1>7, <1>8, <1>9

(* Entries that refer to the same blocks cover the same.                   *)
LEMMA SameCovers ==
  ASSUME NEW f, NEW D, NEW E, Covers(f, D, E), NEW G, \A d \in D : SameBlocks(E[d], G[d])
  PROVE  Covers(f, D, G) /\ KeepsLists(D, E, G)
<1>1. ASSUME NEW b, Refers(D, E, b) PROVE Refers(D, G, b)
  BY <1>1 DEF Refers, SameBlocks
<1>2. ASSUME NEW d \in D, NEW x, Lists(E[d], x) PROVE Lists(G[d], x)
  BY <1>2 DEF Lists, SameBlocks
<1> QED
  BY <1>1, <1>2 DEF Covers, KeepsLists

(* New rights leave the blocks of an entry. *)
LEMMA RightsSame ==
  ASSUME NEW e \in DirType, NEW j \in Slots, NEW level \in SUBSET Rights
  PROVE  SameBlocks(e, e) /\ SameBlocks(e, [e EXCEPT ![j] = [e[j] EXCEPT !.rights = level]])
<1>1. PICK m, g : m = [e[j] EXCEPT !.rights = level] /\ g = [e EXCEPT ![j] = m]
  OBVIOUS
<1>2. e[j] \in EntryType
  BY DEF DirType
<1>3. /\ m \in EntryType /\ m.name = e[j].name /\ m.first_blk = e[j].first_blk /\ m.type = e[j].type
      /\ m.size = e[j].size
  BY <1>1, <1>2 DEF EntryType
<1>4. g \in DirType /\ \A k \in Slots : g[k] = IF k = j THEN m ELSE e[k]
  BY <1>1, <1>3 DEF DirType
<1> QED
  BY <1>1, <1>3, <1>4 DEF SameBlocks

(* chmod, which changes rights only,                                       *)
LEMMA ChmodLeaves ==
  ASSUME NEW s, NEW D, Opens(s, D), NEW c \in Commands, c.cmd = "chmod", chmod(c)
  PROVE  LeavesAll
<1>1. c.path \in PathType /\ c.level \in SUBSET Rights /\ IsHere(c.path)
  BY CommandsAssumption, OpensFacts DEF LocalUse
<1>2. /\ LocalUse /\ s = This /\ Tree(s, D) /\ s \in StateType /\ SyncRoot(This) = s /\ s.cwd = cwd /\ s.fat = fat
      /\ Rooted(s, D) /\ Nested(D, DirsOf(s, D)) /\ Visits(s, s, D) /\ Covers(fat, D, DirsOf(s, D))
  BY OpensFacts
<1> DEFINE upto == Path(c.path.abs, Append(Front(c.path.comps), NoName))
<1>3. PICK parts : parts = get_filename_parts(s, c.path)
  OBVIOUS
<1>4. PICK p : p = IF parts.file # NoName THEN parts.dir ELSE upto
  OBVIOUS
<1>5. PICK at : at = change_cwd(s, p).s /\ chmod_returns(c, parts, at)
  BY <1>2, <1>3, <1>4, Zenon DEF chmod
<1>6. p \in PathType
  <2>1. upto \in PathType
    <3>1. ~c.path.abs /\ Len(c.path.comps) = 1 /\ c.path.comps \in Seq(Words) /\ c.path.abs \in BOOLEAN
      BY <1>1 DEF IsHere, PathType
    <3>2. Front(c.path.comps) = <<>>
      BY <3>1 DEF Front
    <3>3. Append(Front(c.path.comps), NoName) = <<NoName>> /\ c.path.abs = FALSE
      BY <3>1, <3>2
    <3>4. NoName \in Words
      BY DEF Words
    <3>5. PICK k : k = <<NoName>>
      OBVIOUS
    <3>6. k \in Seq(Words) /\ k # <<>>
      BY <3>4, <3>5
    <3>7. upto = [abs |-> FALSE, comps |-> k]
      BY <3>3, <3>5 DEF Path
    <3> QED
      BY <3>6, <3>7 DEF PathType
  <2> QED
    BY <1>1, <1>2, <1>3, <1>4, <2>1, PartsType
<1>7. Visits(s, at, D) /\ at \in StateType
  <2>1. Visits(s, at, D)
    BY <1>2, <1>5, <1>6, ChangeVisits
  <2> QED
    BY <2>1 DEF Visits
<1>8. CASE Becomes(exit_method(at, cwd, FALSE))
  BY <1>7, <1>8, LooksComplete
<1>9. CASE \E j, S, u, q : Regrades(Looked(c, parts, at), c.level, at, j, S, u, q) /\ Becomes(exit_method(u, q, TRUE))
  <2>1. PICK E, a, l : E = DirsOf(s, D) /\ a = at.cwd.blk /\ l = c.level
    OBVIOUS
  <2>2. PICK j, S, u, q : Regrades(Looked(c, parts, at), l, at, j, S, u, q) /\ Becomes(exit_method(u, q, TRUE))
    BY <1>9, <2>1
  <2>3. /\ a \in D /\ at.cwd.entries = E[a] /\ D \subseteq Blocks /\ s.cwd \in CwdType /\ s.cwd.blk \in D /\ l \in SUBSET Rights
        /\ (\A d \in D : E[d] = DirIn(s, d) /\ E[d] \in DirType)
        /\ \A d \in D \ {s.cwd.blk} : AsDir(at.disk[d]) = E[d]
    BY <1>1, <1>7, <2>1, OpensFacts DEF Visits, DirIn
  <2>4. j \in Slots /\ Tells(at, j, l, S, u) /\ at.fat = fat
    BY <1>2, <1>7, <2>2 DEF Regrades, Visits
  <2>5. q \in CwdType /\ q.blk = s.cwd.blk /\ SameBlocks(s.cwd.entries, q.entries)
    <3>1. q \in {s.cwd, [s.cwd EXCEPT !.entries[0].rights = l]}
      BY <1>2, <2>2 DEF Regrades
    <3> QED
      BY <1>2, <2>3, <3>1, ChmodBackup
  <2>6. /\ u \in StateType /\ u.fat = fat /\ u.cwd.blk = a
        /\ u.cwd.entries = [E[a] EXCEPT ![j] = [E[a][j] EXCEPT !.rights = l]]
        /\ \A x \in Blocks : u.disk[x] = IF x \in S THEN InDir([AsDir(at.disk[x]) EXCEPT ![0].rights = l]) ELSE at.disk[x]
    BY <2>1, <2>3, <2>4 DEF Tells
  <2>7. PICK G : G = [d \in D |-> After(u, q, TRUE, d)]
    OBVIOUS
  <2>8. ASSUME NEW d \in D PROVE SameBlocks(E[d], G[d])
    <3>1. CASE d = a
      <4>1. G[d] = u.cwd.entries
        BY <2>6, <2>7, <3>1 DEF After
      <4>2. E[a] \in DirType /\ j \in Slots /\ l \in SUBSET Rights
        BY <2>3, <2>4
      <4>3. SameBlocks(E[a], [E[a] EXCEPT ![j] = [E[a][j] EXCEPT !.rights = l]])
        BY <4>2, RightsSame
      <4> QED
        BY <2>6, <3>1, <4>1, <4>3
    <3>2. CASE d # a /\ d = s.cwd.blk
      <4>1. G[d] = q.entries
        BY <2>5, <2>6, <2>7, <3>2 DEF After
      <4>2. s.cwd.entries = E[d]
        BY <2>3, <3>2 DEF DirIn
      <4> QED
        BY <2>5, <4>1, <4>2
    <3>3. CASE d # a /\ d # s.cwd.blk
      <4>1. G[d] = AsDir(u.disk[d]) /\ AsDir(at.disk[d]) = E[d]
        BY <2>3, <2>5, <2>6, <2>7, <3>3 DEF After
      <4>2. PICK g : g = [E[d] EXCEPT ![0] = [E[d][0] EXCEPT !.rights = l]]
        OBVIOUS
      <4>3. u.disk[d] = IF d \in S THEN InDir(g) ELSE at.disk[d]
        BY <2>3, <2>6, <4>1, <4>2
      <4>4. AsDir(InDir(g)) = g
        BY DEF AsDir, InDir
      <4>5. SameBlocks(E[d], g) /\ SameBlocks(E[d], E[d])
        BY <2>3, <4>2, Numbers, RightsSame
      <4> QED
        BY <4>1, <4>3, <4>4, <4>5
    <3> QED
      BY <3>1, <3>2, <3>3
  <2>9. Covers(u.fat, D, G) /\ KeepsLists(D, DirsOf(s, D), G)
    BY <1>2, <2>1, <2>6, <2>8, SameCovers
  <2>10. Complete(exit_method(u, q, TRUE), D)
    <3>1. u \in StateType /\ q \in CwdType /\ TRUE \in BOOLEAN /\ \A d \in D : G[d] = After(u, q, TRUE, d)
      BY <2>5, <2>6, <2>7
    <3> QED
      BY <2>9, <3>1, ExitComplete
  <2> QED
    BY <2>2, <2>10 DEF LeavesAll
<1> QED
  BY <1>2, <1>5, <1>7, <1>8, <1>9, ChmodIs

(* The invariant: the disk is new, or what is allocated is in the tree.    *)
InSmall  == \E s, D : Becoming(s) /\ Tree(s, D) /\ Covers(s.fat, D, DirsOf(s, D))
SmallInv == OwnInv /\ (Init \/ InSmall)

(* Every command keeps it. *)
LEMMA AllLeave ==
  ASSUME TypeOK, NEW s, NEW D, Opens(s, D), NEW c \in Commands, Run(c)
  PROVE  LeavesAll
<1>1. CASE c.cmd = "format" /\ format
  BY <1>1, FormatLeaves
<1>2. CASE c.cmd = "create" /\ create(c)
  BY <1>2, CreateLeaves
<1>3. CASE c.cmd = "cat" /\ cat(c)
  BY <1>3, CatLeaves
<1>4. CASE c.cmd = "cp" /\ cp(c)
  BY <1>4, CpLeaves
<1>5. CASE c.cmd = "mv" /\ mv(c)
  BY <1>5, MvLeaves
<1>6. CASE c.cmd = "rm" /\ rm(c)
  BY <1>6, RmLeaves
<1>7. CASE c.cmd = "append" /\ append(c)
  BY <1>7, OpensFacts, FoldersChosen DEF LocalUse
<1>8. CASE c.cmd = "mkdir" /\ mkdir(c)
  BY <1>8, MkdirLeaves
<1>9. CASE c.cmd = "cd" /\ cd(c)
  BY <1>9, CdLeaves
<1>10. CASE c.cmd = "chmod" /\ chmod(c)
  BY <1>10, ChmodLeaves
<1>11. CASE c.cmd = "quit" /\ restart
  BY <1>11, RestartLeaves
<1> QED
  BY <1>1, <1>2, <1>3, <1>4, <1>5, <1>6, <1>7, <1>8, <1>9, <1>10, <1>11 DEF Run

(* Every step keeps it, in a session and across a restart. *)
LEMMA SmallStep == ASSUME SmallUse, SmallInv, [Next]_vars PROVE SmallInv'
<1>1. LocalUse /\ TypeOK /\ OwnInv
  BY DEF SmallUse, SmallInv, OwnInv
<1>2. OwnInv'
  BY <1>1, OwnStep
<1>3. CASE UNCHANGED vars
  <2>1. (Init' <=> Init) /\ (InSmall => InSmall')
    BY <1>3 DEF Init, InSmall, Becoming, vars
  <2> QED
    BY <1>2, <2>1 DEF SmallInv
<1>4. LeavesAll => SmallInv'
  <2> SUFFICES ASSUME LeavesAll PROVE SmallInv'
    OBVIOUS
  <2>1. PICK t, S : Becomes(t) /\ Complete(t, S)
    BY DEF LeavesAll
  <2>2. t \in StateType /\ fat' = t.fat /\ disk' = t.disk /\ root_dir' = t.root /\ cwd' = t.cwd
    BY <2>1 DEF Complete, Becomes
  <2>3. CASE Init'
    BY <1>2, <2>3 DEF SmallInv
  <2>4. CASE InTree'
    <3>1. PICK u, D : u.fat = fat' /\ u.disk = disk' /\ u.root = root_dir' /\ u.cwd = cwd' /\ Tree(u, D)
      BY <2>4 DEF InTree, Becoming
    <3>2. u = t
      <4>1. u \in StateType
        BY <3>1 DEF Tree, Rooted
      <4> QED
        BY <2>2, <3>1, <4>1 DEF StateType
    <3>3. S \subseteq D
      BY <2>1, <3>1, <3>2 DEF Complete
    <3>4. Covers(t.fat, D, DirsOf(t, D))
      <4>1. \A d \in S : DirsOf(t, S)[d] = DirsOf(t, D)[d]
        BY <3>3 DEF DirsOf
      <4> QED
        BY <2>1, <3>3, <4>1 DEF Complete, Covers, Refers
    <3>5. InSmall'
      BY <2>2, <3>1, <3>2, <3>4 DEF InSmall, Becoming
    <3> QED
      BY <1>2, <3>5 DEF SmallInv
  <2> QED
    BY <1>2, <2>3, <2>4 DEF OwnInv
<1>5. ASSUME NEW c \in Commands, Run(c) PROVE SmallInv'
  <2>1. CASE Init
    <3>1. Fresh(This)
      BY <2>1 DEF Init, Fresh, This
    <3>2. CASE c.cmd = "format"
      BY <1>1, <1>4, <1>5, <3>2, FormatLeaves DEF Run
    <3>3. CASE c.cmd # "format"
      <4>1. Becomes(This)
        BY <1>1, <1>5, <3>1, <3>3, FreshCommands
      <4>2. Init'
        BY <2>1, <4>1 DEF Becomes, This, Init
      <4> QED
        BY <1>2, <4>2 DEF SmallInv
    <3> QED
      BY <3>2, <3>3
  <2>2. CASE InSmall
    <3>1. PICK s, D : Becoming(s) /\ Tree(s, D) /\ Covers(s.fat, D, DirsOf(s, D))
      BY <2>2 DEF InSmall
    <3>2. s = This
      <4>1. s \in StateType
        BY <3>1 DEF Tree, Rooted
      <4> QED
        BY <3>1, <4>1 DEF Becoming, This, StateType
    <3>3. Opens(s, D)
      BY <3>1, <3>2 DEF Opens
    <3> QED
      BY <1>1, <1>4, <1>5, <3>3, AllLeave
  <2> QED
    BY <2>1, <2>2 DEF SmallInv
<1> QED
  BY <1>3, <1>5 DEF Next

(* The head of a chain is in it. *)
LEMMA HeadInChain ==
  ASSUME TypeOK, NEW head \in Blocks
  PROVE  head \in Chain(head)
<1>1. PICK a \in [0 .. NoBlocks -> SUBSET (Blocks \cup {FAT_EOF})] :
        /\ a[0] = {head} /\ Chain(head) = a[NoBlocks] \ {FAT_EOF}
        /\ \A k \in 1 .. NoBlocks : a[k] = Linked(a[k - 1])
  BY ChainRuns
<1> DEFINE K == {k \in 0 .. NoBlocks : head \in a[k]}
<1>2. NoBlocks \in Nat /\ 0 \in K /\ head # FAT_EOF
  BY <1>1, SizesAssumption, Numbers DEF FAT_EOF, Blocks
<1>3. ASSUME NEW k \in 1 .. NoBlocks, k - 1 \in K PROVE k \in K
  BY <1>1, <1>2, <1>3 DEF Linked
<1>4. \A k \in 0 .. NoBlocks : k \in K
  <2> HIDE DEF K
  <2> QED
    BY <1>2, <1>3, EveryTurn
<1> QED
  BY <1>1, <1>2, <1>4

(* So the entries of the tree have every block. *)
LEMMA SmallSeen == ASSUME LocalUse, SmallInv PROVE NoBlockLeaks
<1>0. TypeOK
  BY DEF SmallInv, OwnInv
<1>1. CASE Init
  <2>1. fat[ROOT_BLOCK] = FAT_FREE
    BY <1>1, Numbers DEF Init, ZeroFat
  <2> QED
    BY <2>1 DEF NoBlockLeaks, Formatted, FAT_FREE, FAT_EOF
<1>2. CASE InSmall
  <2>1. PICK s, D : Becoming(s) /\ Tree(s, D) /\ Covers(s.fat, D, DirsOf(s, D))
    BY <1>2 DEF InSmall
  <2>2. PICK E : E = DirsOf(s, D)
    OBVIOUS
  <2>3. /\ Nested(D, E) /\ DirsGood(D, E) /\ D \subseteq Blocks /\ fat = s.fat /\ TableGood(fat, Held(D, E), Heads(D, E))
        /\ Covers(fat, D, E)
    BY <2>1, <2>2, TreeFacts DEF Nest, TreeGood, Becoming
  <2>4. Dirs = D
    BY <1>0, <2>1, <2>2, <2>3, AllSeen
  <2>5. \A b \in D : Dir(b) = E[b]
    BY <1>0, <2>1, <2>2, TreeSeen
  <2>6. ASSUME NEW u \in UsedSlots
        PROVE  /\ u \in Held(D, E) /\ Heads(D, E)[u] = EntryAt(u).first_blk
               /\ \A b \in Chain(EntryAt(u).first_blk) : Owned(fat, b)
    <3>0. PICK d \in D : u \in {d} \X Used(d)
      BY <2>4 DEF UsedSlots
    <3>1. PICK i \in Used(d) : u = <<d, i>>
      BY <3>0
    <3>2. i \in Slots \ {0} /\ E[d][i].first_blk # FAT_FREE
      BY <2>3, <2>5, <3>1 DEF Used, DirsGood, DirGood
    <3>3. u \in Held(D, E) /\ Heads(D, E)[u] = E[d][i].first_blk /\ EntryAt(u) = E[d][i]
      BY <2>5, <3>1, <3>2 DEF Held, Heads, SlotsIn, EntryAt
    <3>4. \A b \in Chain(Heads(D, E)[u]) : Owned(fat, b)
      BY <1>0, <2>3, <3>3, ChainsApart
    <3> QED
      BY <3>3, <3>4
  <2>7. ASSUME NEW b \in Blocks \ {ROOT_BLOCK, FAT_BLOCK}, fat[b] # FAT_FREE
        PROVE  \E u \in UsedSlots : b \in Chain(EntryAt(u).first_blk)
    <3>1. PICK d \in D, i \in Slots \ {0} : E[d][i].first_blk = b
      BY <2>3, <2>7 DEF Covers, Refers
    <3>2. b # FAT_FREE
      BY <2>7 DEF FAT_FREE, ROOT_BLOCK
    <3>3. PICK u : u = <<d, i>>
      OBVIOUS
    <3>4. u \in UsedSlots
      BY <2>4, <2>5, <3>1, <3>2, <3>3 DEF UsedSlots, Used
    <3>5. EntryAt(u).first_blk = b
      BY <2>5, <3>1, <3>3 DEF EntryAt
    <3>6. b \in Chain(b)
      BY <1>0, HeadInChain
    <3> QED
      BY <3>4, <3>5, <3>6
  <2>8. /\ ROOT_BLOCK \in Blocks /\ FAT_BLOCK \in Blocks /\ fat[ROOT_BLOCK] # FAT_FREE /\ fat[FAT_BLOCK] # FAT_FREE
    BY <2>3, Numbers DEF TableGood, FAT_FREE, FAT_EOF
  <2>9. PICK A, B : /\ A = {b \in Blocks : fat[b] # FAT_FREE}
                    /\ B = UNION {Chain(EntryAt(u).first_blk) : u \in UsedSlots}
    OBVIOUS
  <2>10. A \subseteq {ROOT_BLOCK, FAT_BLOCK} \cup B
    BY <2>7, <2>9
  <2>11. B \subseteq A
    BY <2>6, <2>9 DEF Owned
  <2>12. A = {ROOT_BLOCK, FAT_BLOCK} \cup B
    BY <2>8, <2>9, <2>10, <2>11
  <2> QED
    BY <2>9, <2>12 DEF NoBlockLeaks
<1> QED
  BY <1>1, <1>2 DEF SmallInv

(* A new disk has it. *)
LEMMA SmallBegin == Init => SmallInv
BY OwnInit DEF SmallInv

(* In local use with texts that fit a block, no block is ever lost: every  *)
(* block that the table does not call free is in the chain of an entry of  *)
(* the tree, and can be freed again by removing it.  This is so after any  *)
(* commands, also when the disk or a directory is full, after mv to any    *)
(* directory, a format and the next start.                                 *)
THEOREM LocalNoBlockLeaks == SmallUse => (Spec => []NoBlockLeaks)
<1> SUFFICES ASSUME SmallUse PROVE Spec => []NoBlockLeaks
  OBVIOUS
<1>1. SmallInv /\ [Next]_vars => SmallInv'
  BY SmallStep
<1>2. SmallInv => NoBlockLeaks
  BY SmallSeen DEF SmallUse
<1> QED
  BY <1>1, <1>2, SmallBegin, PTL DEF Spec
=============================================================================
