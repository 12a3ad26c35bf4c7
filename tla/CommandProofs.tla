--------------------------- MODULE CommandProofs ----------------------------
(***************************************************************************)
(* What each command of the file system makes of a good tree, in the hands *)
(* of users who stay in the root directory (RootUse), or walk through the  *)
(* tree and name things where they are (LocalUse): another good tree.      *)
(***************************************************************************)
EXTENDS TreeProofs

(* The commands, given in a file system that is a good tree.  A command    *)
(* spares the root if it does not change the root from another directory.  *)
Arrives == \E t : Becomes(t) /\ Home(This, t)
Spares(path) == cwd.blk = ROOT_BLOCK \/ LeadsOff(path)
SparesFile(path) ==
  LET parts == get_filename_parts(This, path) IN parts.file # NoName => Spares(parts.dir)

(* What the two searches in a directory return. *)
LEMMA SearchGood ==
  ASSUME NEW s \in StateType
  PROVE  /\ free_slot(s) # None => /\ free_slot(s) \in Slots \ {0}
                                  /\ s.cwd.entries[free_slot(s)].first_blk = FAT_FREE
         /\ \A name : lookup(s, name) # None => /\ lookup(s, name) \in Slots
                                                /\ s.cwd.entries[lookup(s, name)].name = name
         /\ \A name : lookup(s, name) = None => \A i \in Slots : s.cwd.entries[i].name # name
<1> DEFINE S == {i \in Slots \ {0} : s.cwd.entries[i].first_blk = FAT_FREE}
           L(name) == {i \in Slots : s.cwd.entries[i].name = name}
<1>1. free_slot(s) = First(S) /\ \A name : lookup(s, name) = First(L(name))
  BY DEF free_slot, find_empty_dir_index, lookup, find_dir_entry
<1>2. S \in SUBSET Nat /\ \A name : L(name) \in SUBSET Nat
  BY Numbers
<1>3. /\ S \subseteq Slots \ {0} /\ \A i \in S : s.cwd.entries[i].first_blk = FAT_FREE
      /\ \A name : \A i \in L(name) : i \in Slots /\ s.cwd.entries[i].name = name
      /\ \A name : L(name) = {} => \A i \in Slots : s.cwd.entries[i].name # name
  OBVIOUS
<1> HIDE DEF S, L
<1>4. \A name : /\ First(L(name)) = None \/ First(L(name)) \in L(name)
                /\ First(L(name)) = None => L(name) = {}
  BY <1>2, FirstIn, Numbers DEF None
<1>5. First(S) = None \/ First(S) \in S
  BY <1>2, FirstIn
<1> QED
  BY <1>1, <1>3, <1>4, <1>5

(* So a new name fits in the slot that is free, in local use.              *)
LEMMA FitsFree ==
  ASSUME NEW t \in StateType, NEW i, i = free_slot(t), i # None, NEW m, lookup(t, m.name) = None,
         LocalUse => m.name \in Names, NEW e,
         LocalUse /\ m.type = TYPE_DIR => m.name \in FolderNames /\ e[0].name = Parent /\ e[0].first_blk = t.cwd.blk
  PROVE  FitsIn(t, i, m, e)
<1>1. t.cwd.entries[i].first_blk = FAT_FREE /\ \A j \in Slots : t.cwd.entries[j].name # m.name
  BY SearchGood
<1> QED
  BY <1>1 DEF FitsIn, Fits

(* What local use says of a name that a command changes something under.   *)
LEMMA LocalChange ==
  ASSUME NEW D, Tree(This, D), LocalUse, NEW c \in Commands, NEW path \in PathType,
         \/ c.cmd \in {"create", "rm", "mkdir", "chmod"} /\ path = c.path
         \/ c.cmd \in {"cp", "mv"} /\ path \in {c.src, c.dst},
         NEW parts, parts = get_filename_parts(This, path)
  PROVE  /\ IsHere(path) /\ SparesFile(path)
         /\ parts.file # NoName => parts.file = Last(path.comps) /\ parts.file \in Names /\ parts.dir = HomePath(This)
         /\ parts.file = NoName => parts.dir = path
<1>1. IsHere(path)
  BY FoldersChosen DEF LocalUse
<1>2. Rooted(This, D) /\ Nested(D, DirsOf(This, D))
  BY TreeFacts DEF Nest
<1>3. PICK s : s = This
  OBVIOUS
<1>4. parts.file # NoName => s.cwd.blk = ROOT_BLOCK \/ LeadsOff(parts.dir)
  BY <1>1, <1>2, <1>3, LocalOff
<1>5. SparesFile(path)
  BY <1>3, <1>4 DEF SparesFile, Spares, This
<1>6. /\ parts.file # NoName => parts.file = Last(path.comps) /\ parts.file \in Names /\ parts.dir = HomePath(s)
      /\ parts.file = NoName => parts.dir = path
  BY <1>1, <1>2, <1>3, LocalParts
<1> QED
  BY <1>1, <1>3, <1>5, <1>6

(* Every command begins the same way. *)
LEMMA Begins ==
  ASSUME NEW D, Tree(This, D), NEW s, s = This
  PROVE  /\ Tree(s, D) /\ s \in StateType /\ SyncRoot(This) = s /\ s.fat = fat /\ s.cwd = cwd
         /\ \A path \in PathType : get_filename_parts(s, path).dir \in PathType
BY TreeFacts, PartsType DEF This

(* A command that has begun a file gives up and goes back, with a block    *)
(* that is still nobody's:                                                 *)
Abandons(s, D, t, blk, u, v) ==
  Tree(s, D) /\ Visits(s, t, D) /\ NewBlock(s, D, t, blk, u) /\ v = exit_method(u, s.cwd, FALSE)

(* that ends in a good tree. *)
LEMMA GivesUp ==
  ASSUME NEW s, NEW D, NEW t, NEW blk, NEW u, NEW v, Abandons(s, D, t, blk, u, v)
  PROVE  Tree(v, D) /\ v.cwd = s.cwd /\ NewBlock(v, D, v, blk, v)
<1>0. Tree(s, D) /\ Visits(s, t, D) /\ NewBlock(s, D, t, blk, u) /\ v = exit_method(u, s.cwd, FALSE)
  BY DEF Abandons
<1>1. Returns(s, t, u, D, v)
  BY <1>0, TreeFacts DEF NewBlock, Visits, Returns
<1>2. Tree(v, D) /\ v.cwd = s.cwd /\ v.fat = u.fat /\ \A b \in D : DirIn(v, b) = DirIn(s, b)
  BY <1>1, GoesBack
<1>3. s.cwd \in CwdType /\ s.cwd.blk \in D /\ D \subseteq Blocks /\ u \in StateType
  BY <1>0, TreeFacts DEF NewBlock
<1>4. v.disk = u.disk
  BY <1>0, <1>3 DEF exit_method, SyncRoot, StateType
<1>5. DirsOf(v, D) = DirsOf(s, D)
  BY <1>2 DEF DirsOf
<1>6. v \in StateType /\ GoodNest(v.fat, D, DirsOf(v, D))
  BY <1>2 DEF Tree, Rooted
<1> QED
  BY <1>0, <1>2, <1>4, <1>5, <1>6 DEF NewBlock

(* What create comes to, when it has looked for the directory of the file. *)
CreateEnds(c, parts, here) ==
  LET blk   == find_empty_block(fat)
      slot  == free_slot(here.s)
      file  == Entry(parts.file, Len(c.data) + 1, blk, TYPE_FILE, {READ, WRITE})
      written  == write_data(here.s, blk, c.data)
      accepted == /\ may(here.s, {WRITE, EXECUTE})
                  /\ lookup(here.s, parts.file) = None
                  /\ None \notin {blk, slot}
  IN  \/ ~here.ok /\ Becomes(here.s)
      \/ here.ok /\ ~accepted /\ Becomes(exit_method(here.s, cwd, FALSE))
      \/ /\ here.ok /\ accepted /\ ~written.ok
         /\ Becomes(exit_method(written.s, cwd, FALSE))
      \/ /\ here.ok /\ accepted /\ written.ok
         /\ Becomes(exit_method(put(written.s, slot, file), cwd, TRUE))

(* So it does. *)
LEMMA CreateRuns ==
  ASSUME NEW c, create(c), NEW parts, parts = get_filename_parts(SyncRoot(This), c.path),
         NEW here, here = enter(SyncRoot(This), parts)
  PROVE  CreateEnds(c, parts, here)
<1>1. \E p \in {get_filename_parts(SyncRoot(This), c.path)} : \E h \in {enter(SyncRoot(This), p)} : CreateEnds(c, p, h)
  BY Zenon DEF create, CreateEnds
<1> QED
  BY <1>1, Zenon

(* create. *)
LEMMA CreateArrives ==
  ASSUME NEW D, Tree(This, D), NeverFill(FileSizes), NEW c \in Commands, c.cmd = "create", create(c),
         SparesFile(c.path)
  PROVE  Arrives
<1>1. c.path \in PathType /\ c.data \in Text /\ Len(c.data) < MaxSize /\ Len(c.data) \in Nat
  BY CommandsAssumption DEF Text
<1>2. PICK s : s = This
  OBVIOUS
<1>3. Tree(s, D) /\ s \in StateType /\ SyncRoot(This) = s /\ s.fat = fat /\ s.cwd = cwd
  BY <1>2, Begins
<1>4. PICK parts : parts = get_filename_parts(s, c.path)
  OBVIOUS
<1>5. parts.file \in Words /\ parts.dir \in PathType
  BY <1>1, <1>3, <1>4, PartsType
<1>6. PICK here : here = enter(s, parts)
  OBVIOUS
<1>7. /\ Visits(s, here.s, D) /\ (~here.ok => here.s.cwd.blk = s.cwd.blk)
      /\ here.ok => here = change_cwd(s, parts.dir) /\ parts.file # NoName
  BY <1>3, <1>5, <1>6, EnterVisits
<1> DEFINE blk     == find_empty_block(fat)
           slot    == free_slot(here.s)
           file    == Entry(parts.file, Len(c.data) + 1, blk, TYPE_FILE, {READ, WRITE})
           written == write_data(here.s, blk, c.data)
           found   == here.ok /\ blk # None /\ slot # None /\ lookup(here.s, parts.file) = None
<1>8. \/ ~here.ok /\ Becomes(here.s)
      \/ Becomes(exit_method(here.s, cwd, FALSE))
      \/ found /\ Becomes(exit_method(written.s, cwd, FALSE))
      \/ found /\ Becomes(exit_method(put(written.s, slot, file), cwd, TRUE))
  <2>1. None \notin {blk, slot} => blk # None /\ slot # None
    OBVIOUS
  <2>2. CreateEnds(c, parts, here)
    BY <1>3, <1>4, <1>6, CreateRuns
  <2> QED
    BY <1>3, <2>1, <2>2, Zenon DEF CreateEnds
<1>9. CASE ~here.ok /\ Becomes(here.s)
  BY <1>2, <1>3, <1>7, <1>9, StopGood DEF Arrives
<1>10. CASE Becomes(exit_method(here.s, cwd, FALSE))
  BY <1>2, <1>3, <1>7, <1>10, QuietGood DEF Arrives
<1>11. ASSUME found PROVE NewBlock(s, D, here.s, blk, written.s) /\ blk \in Blocks /\ slot \in Slots \ {0}
  <2>1. blk \in Blocks /\ s.fat[blk] = FAT_FREE
    <3>1. fat \in FatType
      BY <1>3 DEF StateType
    <3> QED
      BY <1>3, <1>11, <3>1, EmptyBlockIs
  <2>2. slot \in Slots \ {0}
    <3>1. here.s \in StateType
      BY <1>7 DEF Visits
    <3> QED
      BY <1>11, <3>1, SearchGood
  <2> HIDE DEF blk
  <2>3. NewBlock(s, D, here.s, blk, write_data(here.s, blk, c.data).s)
    BY <1>1, <1>3, <1>7, <2>1, WroteNew
  <2> QED
    BY <2>1, <2>2, <2>3
<1>12. CASE found /\ Becomes(exit_method(written.s, cwd, FALSE))
  <2>1. PICK t, u, b, v : t = here.s /\ u = written.s /\ b = blk /\ v = exit_method(u, s.cwd, FALSE)
    OBVIOUS
  <2>2. Abandons(s, D, t, b, u, v)
    BY <1>3, <1>7, <1>11, <1>12, <2>1, Zenon DEF Abandons
  <2>3. Tree(v, D)
    BY <2>2, GivesUp
  <2>4. v.cwd = s.cwd
    BY <2>2, GivesUp
  <2> QED
    BY <1>2, <1>3, <1>12, <2>1, <2>3, <2>4 DEF Arrives, Home
<1>13. CASE found /\ Becomes(exit_method(put(written.s, slot, file), cwd, TRUE))
  <2>1. s.cwd.blk = ROOT_BLOCK \/ here.s.cwd.blk # ROOT_BLOCK
    <3>1. Rooted(s, D)
      BY <1>3, TreeFacts
    <3> QED
      BY <1>2, <1>3, <1>4, <1>7, <1>13, <3>1 DEF SparesFile, Spares, LeadsOff
  <2>2. file \in EntryType /\ file.first_blk = blk /\ file.size \in FileSizes
    <3>1. Len(c.data) + 1 \in 0 .. MaxSize /\ {READ, WRITE} \in SUBSET Rights
      BY <1>1, Numbers DEF Rights
    <3>2. Len(c.data) + 1 \in FileSizes
      BY DEF NeverFill
    <3>3. file \in EntryType
      BY <1>5, <1>11, <1>13, <3>1, EntryTypes
    <3> QED
      BY <3>2, <3>3 DEF Entry
  <2>6. FitsIn(here.s, slot, file, AsDir(written.s.disk[blk]))
    <3>1. here.s \in StateType /\ file.name = parts.file /\ file.type # TYPE_DIR
      BY <1>7 DEF Visits, Entry, TYPE_DIR, TYPE_FILE
    <3>2. LocalUse => parts.file \in Names
      BY <1>1, <1>2, <1>4, <1>7, <1>13, LocalChange
    <3> HIDE DEF file, blk, written
    <3>3. PICK t, m, e : t = here.s /\ m = file /\ e = AsDir(written.s.disk[blk])
      OBVIOUS
    <3>4. /\ t \in StateType /\ slot = free_slot(t) /\ slot # None /\ lookup(t, m.name) = None
          /\ (LocalUse => m.name \in Names) /\ m.type # TYPE_DIR
      BY <1>13, <3>1, <3>2, <3>3
    <3> HIDE DEF slot
    <3> QED
      BY <3>3, <3>4, FitsFree
  <2>3. PICK t, u, e, b, j : t = here.s /\ u = written.s /\ e = file /\ b = blk /\ j = slot
    OBVIOUS
  <2>4. /\ Tree(s, D) /\ Visits(s, t, D) /\ NewBlock(s, D, t, b, u) /\ j \in Slots \ {0}
        /\ e \in EntryType /\ e.first_blk = b /\ (e.type = TYPE_FILE => e.size \in FileSizes)
        /\ s.cwd.blk = ROOT_BLOCK \/ t.cwd.blk # ROOT_BLOCK
        /\ FitsIn(t, j, e, AsDir(u.disk[b]))
    BY <1>3, <1>7, <1>11, <1>13, <2>1, <2>2, <2>3, <2>6
  <2> DEFINE v == exit_method(put(u, j, e), s.cwd, TRUE)
  <2>5. Home(s, v)
    BY <2>4, EntersNew
  <2> QED
    BY <1>2, <1>3, <1>13, <2>3, <2>5 DEF Arrives
<1> QED
  BY <1>8, <1>9, <1>10, <1>12, <1>13

(* cat. *)
LEMMA CatArrives ==
  ASSUME NEW D, Tree(This, D), NEW c \in Commands, c.cmd = "cat", cat(c)
  PROVE  Arrives
<1>1. c.path \in PathType
  BY CommandsAssumption
<1>2. PICK s : s = This
  OBVIOUS
<1>3. Tree(s, D) /\ s \in StateType /\ SyncRoot(This) = s /\ s.cwd = cwd
  BY <1>2, Begins
<1>4. PICK parts : parts = get_filename_parts(s, c.path)
  OBVIOUS
<1>5. parts.dir \in PathType
  BY <1>1, <1>3, <1>4, PartsType
<1>6. PICK here : here = enter(s, parts)
  OBVIOUS
<1>7. Visits(s, here.s, D) /\ (~here.ok => here.s.cwd.blk = s.cwd.blk)
  BY <1>3, <1>5, <1>6, EnterVisits
<1>8. IF here.ok THEN Becomes(exit_method(here.s, s.cwd, FALSE)) ELSE Becomes(here.s)
  BY <1>3, <1>4, <1>6 DEF cat
<1> QED
  BY <1>2, <1>3, <1>7, <1>8, QuietGood, StopGood DEF Arrives

(* What rm comes to, when it has looked for the directory of the file.     *)
RmEnds(parts, here) ==
  LET i     == lookup(here.s, parts.file)
      file  == here.s.cwd.entries[i]
      freed == free_chain(fat, file.first_blk)
      wiped == put(here.s, i, [file EXCEPT !.name = NoName, !.size = 0, !.first_blk = 0])
      accepted == may(here.s, {WRITE, EXECUTE}) /\ i # None /\ file.type # TYPE_DIR
  IN  \/ ~here.ok /\ Becomes(here.s)
      \/ here.ok /\ ~accepted /\ Becomes(exit_method(here.s, cwd, FALSE))
      \/ /\ here.ok /\ accepted /\ freed.blk = FAT_EOF
         /\ Becomes(exit_method([wiped EXCEPT !.fat = freed.fat], cwd, TRUE))

(* So it does. *)
LEMMA RmRuns ==
  ASSUME NEW c, rm(c), NEW parts, parts = get_filename_parts(SyncRoot(This), c.path),
         NEW here, here = enter(SyncRoot(This), parts)
  PROVE  RmEnds(parts, here)
<1>1. \E p \in {get_filename_parts(SyncRoot(This), c.path)} : \E h \in {enter(SyncRoot(This), p)} : RmEnds(p, h)
  BY Zenon DEF rm, RmEnds
<1> QED
  BY <1>1, Zenon

(* rm. *)
LEMMA RmArrives ==
  ASSUME NEW D, Tree(This, D), NEW c \in Commands, c.cmd = "rm", rm(c),
         SparesFile(c.path)
  PROVE  Arrives
<1>1. c.path \in PathType
  BY CommandsAssumption
<1>2. PICK s : s = This
  OBVIOUS
<1>3. Tree(s, D) /\ s \in StateType /\ SyncRoot(This) = s /\ s.fat = fat /\ s.cwd = cwd
  BY <1>2, Begins
<1>4. PICK parts : parts = get_filename_parts(s, c.path)
  OBVIOUS
<1>5. parts.dir \in PathType
  BY <1>1, <1>3, <1>4, PartsType
<1>6. PICK here : here = enter(s, parts)
  OBVIOUS
<1>7. /\ Visits(s, here.s, D) /\ (~here.ok => here.s.cwd.blk = s.cwd.blk)
      /\ here.ok => parts.file # NoName /\ here = change_cwd(s, parts.dir)
  BY <1>3, <1>5, <1>6, EnterVisits
<1> DEFINE i     == lookup(here.s, parts.file)
           file  == here.s.cwd.entries[i]
           none  == [file EXCEPT !.name = NoName, !.size = 0, !.first_blk = 0]
           freed == free_chain(fat, file.first_blk)
           found == here.ok /\ i # None /\ file.type # TYPE_DIR
<1>8. \/ ~here.ok /\ Becomes(here.s)
      \/ Becomes(exit_method(here.s, cwd, FALSE))
      \/ found /\ Becomes(exit_method([put(here.s, i, none) EXCEPT !.fat = freed.fat], cwd, TRUE))
  <2>1. RmEnds(parts, here)
    BY <1>3, <1>4, <1>6, RmRuns
  <2> QED
    BY <2>1, Zenon DEF RmEnds
<1>9. CASE ~here.ok /\ Becomes(here.s)
  BY <1>2, <1>3, <1>7, <1>9, StopGood DEF Arrives
<1>10. CASE Becomes(exit_method(here.s, cwd, FALSE))
  BY <1>2, <1>3, <1>7, <1>10, QuietGood DEF Arrives
<1>11. CASE found /\ Becomes(exit_method([put(here.s, i, none) EXCEPT !.fat = freed.fat], cwd, TRUE))
  <2>1. PICK t, b : t = here.s /\ b = t.cwd.blk
    OBVIOUS
  <2>2. /\ Rooted(s, D) /\ Visits(s, t, D) /\ b \in D /\ t.cwd.entries = DirIn(s, b) /\ t \in StateType
        /\ t.fat = fat /\ TreeGood(fat, D, DirsOf(s, D)) /\ fat \in FatType /\ Nest(D, DirsOf(s, D))
    BY <1>3, <1>7, <2>1, TreeFacts DEF Visits
  <2>3. i \in Slots \ {0} /\ file \in EntryType /\ file.type = TYPE_FILE /\ file.first_blk # FAT_FREE
    <3>0. here.s \in StateType /\ lookup(here.s, parts.file) # None /\ parts.file # NoName
      BY <1>7, <1>11, <2>1, <2>2, Zenon
    <3>1. i \in Slots /\ file.name = parts.file /\ parts.file # NoName
      BY <3>0, SearchGood
    <3>2. DirGood(D, t.cwd.entries)
      BY <2>2 DEF TreeGood, DirsGood, DirsOf
    <3>3. file \in EntryType
      BY <2>1, <3>1, <3>2 DEF DirGood, DirType
    <3>4. file.type = TYPE_FILE
      BY <1>11, <3>3 DEF EntryType
    <3> QED
      BY <1>11, <2>1, <3>1, <3>2, <3>3, <3>4, Zenon DEF DirGood
  <2>4. PICK e, j, x, f : e = none /\ j = i /\ x = file.first_blk /\ f = freed.fat
    OBVIOUS
  <2> DEFINE u == [put(t, j, e) EXCEPT !.fat = f]
             F == Edited(s, D, b, [t.cwd.entries EXCEPT ![j] = e])
  <2>5. e \in EntryType /\ e.first_blk = FAT_FREE /\ e.name = NoName /\ e.type = TYPE_FILE
    <3>1. 0 \in Blocks /\ 0 \in 0 .. MaxSize
      BY Numbers DEF FAT_FREE
    <3>2. PICK y \in EntryType : y = file /\ y.type = TYPE_FILE
      BY <2>3
    <3> QED
      BY <2>4, <3>1, <3>2, WordsAreText DEF EntryType, FAT_FREE
  <2>6. f \in FatType
    <3>1. x \in Blocks /\ freed = free_chain(fat, x)
      BY <2>3, <2>4 DEF EntryType
    <3> QED
      BY <2>2, <2>4, <3>1, FreeChainType DEF FreeState
  <2>7. put(t, j, e) \in StateType
    BY <2>2, <2>3, <2>4, <2>5, PutType
  <2>8. /\ u \in StateType /\ u.fat = f /\ u.root = t.root /\ u.disk = t.disk /\ u.cwd.blk = t.cwd.blk
        /\ u.cwd.entries = [t.cwd.entries EXCEPT ![j] = e]
    <3>1. PICK v \in StateType : /\ v = put(t, j, e) /\ v.root = t.root /\ v.disk = t.disk /\ v.cwd.blk = t.cwd.blk
                                 /\ v.cwd.entries = [t.cwd.entries EXCEPT ![j] = e]
      BY <2>2, <2>7 DEF put, StateType, CwdType
    <3> QED
      BY <2>6, <3>1 DEF StateType
  <2>9. GoodNest(f, D, F)
    <3> DEFINE E == DirsOf(s, D)
    <3>1. /\ E[b] = t.cwd.entries /\ F[b] = [E[b] EXCEPT ![j] = e] /\ \A d \in D \ {b} : F[d] = E[d]
          /\ E[b][j].first_blk = x /\ f = free_chain(fat, x).fat /\ E[b][j].type = TYPE_FILE
      BY <2>1, <2>2, <2>3, <2>4 DEF Edited, DirsOf
    <3> HIDE DEF E, F
    <3>2. j \in Slots \ {0} /\ x # FAT_FREE /\ TreeGood(fat, D, E)
      BY <2>2, <2>3, <2>4 DEF E
    <3>3. TreeGood(free_chain(fat, E[b][j].first_blk).fat, D, F)
      BY <2>2, <2>5, <3>1, <3>2, FreeKeepsTree
    <3>4. Nest(D, F)
      <4>1. DirsGood(D, E) /\ Nest(D, E) /\ E[b][j].type # TYPE_DIR /\ e.type # TYPE_DIR /\ b \in D
        BY <2>2, <2>5, <3>1, <3>2 DEF TreeGood, TYPE_DIR, TYPE_FILE, E
      <4> QED
        BY <2>5, <3>1, <3>2, <4>1, NestPut
    <3> QED
      BY <3>1, <3>3, <3>4 DEF GoodNest
  <2>10. s.cwd.blk = ROOT_BLOCK \/ t.cwd.blk # ROOT_BLOCK
    <3>1. Rooted(s, D)
      BY <1>3, TreeFacts
    <3> QED
      BY <1>2, <1>3, <1>4, <1>7, <1>11, <2>1, <3>1, Zenon DEF SparesFile, Spares, LeadsOff
  <2>11. GoodNest(u.fat, D, Edited(s, D, t.cwd.blk, u.cwd.entries))
    BY <2>1, <2>8, <2>9
  <2>12. Becomes(exit_method(u, s.cwd, TRUE))
    BY <1>3, <1>11, <2>1, <2>4, Zenon
  <2> HIDE DEF u
  <2>13. /\ Rooted(s, D) /\ Visits(s, t, D) /\ u \in StateType /\ u.cwd.blk = t.cwd.blk /\ u.root = t.root
         /\ \A d \in D : u.disk[d] = t.disk[d]
    BY <2>2, <2>8
  <2>14. Home(s, exit_method(u, s.cwd, TRUE))
    BY <2>10, <2>11, <2>13, GoesBackSaved
  <2> QED
    BY <1>2, <2>12, <2>14 DEF Arrives
<1> QED
  BY <1>8, <1>9, <1>10, <1>11

(* What mkdir comes to, when it has looked for the directory to make it in. *)
MkdirEnds(parts, here) ==
  LET blk   == find_empty_block(fat)
      slot  == free_slot(here.s)
      dir   == Entry(parts.file, 0, blk, TYPE_DIR, Rights)
      made  == [here.s EXCEPT !.disk[blk] = InDir(init_dir(here.s.cwd.blk, here.s.cwd.info.rights)),
                              !.fat[blk] = FAT_EOF]
      accepted == /\ may(here.s, {WRITE, EXECUTE})
                  /\ lookup(here.s, parts.file) = None
                  /\ None \notin {blk, slot}
  IN  \/ ~here.ok /\ Becomes(here.s)
      \/ here.ok /\ ~accepted /\ Becomes(exit_method(here.s, cwd, FALSE))
      \/ here.ok /\ accepted /\ Becomes(exit_method(put(made, slot, dir), cwd, TRUE))

(* So it does. *)
LEMMA MkdirRuns ==
  ASSUME NEW c, mkdir(c), NEW parts, parts = get_filename_parts(SyncRoot(This), c.path),
         NEW here, here = enter(SyncRoot(This), parts)
  PROVE  MkdirEnds(parts, here)
<1>1. \E p \in {get_filename_parts(SyncRoot(This), c.path)} : \E h \in {enter(SyncRoot(This), p)} : MkdirEnds(p, h)
  BY Zenon DEF mkdir, MkdirEnds
<1> QED
  BY <1>1, Zenon

(* mkdir. *)
LEMMA MkdirArrives ==
  ASSUME NEW D, Tree(This, D), NEW c \in Commands, c.cmd = "mkdir", mkdir(c),
         SparesFile(c.path)
  PROVE  Arrives
<1>1. c.path \in PathType
  BY CommandsAssumption
<1>2. PICK s : s = This
  OBVIOUS
<1>3. Tree(s, D) /\ s \in StateType /\ SyncRoot(This) = s /\ s.fat = fat /\ s.cwd = cwd
  BY <1>2, Begins
<1>4. PICK parts : parts = get_filename_parts(s, c.path)
  OBVIOUS
<1>5. parts.file \in Words /\ parts.dir \in PathType
  BY <1>1, <1>3, <1>4, PartsType
<1>6. PICK here : here = enter(s, parts)
  OBVIOUS
<1>7. /\ Visits(s, here.s, D) /\ (~here.ok => here.s.cwd.blk = s.cwd.blk)
      /\ here.ok => here = change_cwd(s, parts.dir) /\ parts.file # NoName
  BY <1>3, <1>5, <1>6, EnterVisits
<1> DEFINE blk   == find_empty_block(fat)
           slot  == free_slot(here.s)
           dir   == Entry(parts.file, 0, blk, TYPE_DIR, Rights)
           new   == init_dir(here.s.cwd.blk, here.s.cwd.info.rights)
           made  == [here.s EXCEPT !.disk[blk] = InDir(new), !.fat[blk] = FAT_EOF]
           found == here.ok /\ blk # None /\ slot # None /\ lookup(here.s, parts.file) = None
<1>8. \/ ~here.ok /\ Becomes(here.s)
      \/ Becomes(exit_method(here.s, cwd, FALSE))
      \/ found /\ Becomes(exit_method(put(made, slot, dir), cwd, TRUE))
  <2>1. None \notin {blk, slot} => blk # None /\ slot # None
    OBVIOUS
  <2>2. MkdirEnds(parts, here)
    BY <1>3, <1>4, <1>6, MkdirRuns
  <2> QED
    BY <1>3, <2>1, <2>2, Zenon DEF MkdirEnds
<1>9. CASE ~here.ok /\ Becomes(here.s)
  BY <1>2, <1>3, <1>7, <1>9, StopGood DEF Arrives
<1>10. CASE Becomes(exit_method(here.s, cwd, FALSE))
  BY <1>2, <1>3, <1>7, <1>10, QuietGood DEF Arrives
<1>11. CASE found /\ Becomes(exit_method(put(made, slot, dir), cwd, TRUE))
  <2>1. PICK t, u, e, b, j, n : t = here.s /\ u = made /\ e = dir /\ b = blk /\ j = slot /\ n = new
    OBVIOUS
  <2>2. /\ Rooted(s, D) /\ Visits(s, t, D) /\ t.cwd.blk \in D /\ t \in StateType
        /\ t.fat = fat /\ TreeGood(fat, D, DirsOf(s, D)) /\ fat \in FatType /\ D \subseteq Blocks
        /\ Nest(D, DirsOf(s, D))
    BY <1>3, <1>7, <2>1, TreeFacts DEF Visits
  <2>3. b \in Blocks /\ fat[b] = FAT_FREE /\ j \in Slots \ {0}
    BY <1>11, <2>1, <2>2, EmptyBlockIs, SearchGood
  <2>4. n \in DirType /\ YoungDir(D, n) /\ n[0].name = Parent /\ n[0].first_blk = t.cwd.blk
    <3>1. PICK p : p = Entry(Parent, 0, t.cwd.blk, TYPE_DIR, t.cwd.info.rights)
      OBVIOUS
    <3>2. p \in EntryType
      <4>1. 0 \in 0 .. MaxSize /\ TYPE_DIR \in {TYPE_FILE, TYPE_DIR}
        BY Numbers
      <4>2. t.cwd.blk \in Blocks /\ t.cwd.info.rights \in SUBSET Rights
        BY <2>2, EntryTypes DEF EntryType
      <4> QED
        BY <3>1, <4>1, <4>2, EntryTypes, WordsAreText
    <3>3. n = [ZeroDir EXCEPT ![0] = p]
      BY <2>1, <3>1 DEF init_dir
    <3>4. n \in DirType /\ n[0] = p /\ \A i \in Slots \ {0} : n[i] = ZeroEntry
      BY <3>2, <3>3, ZeroTypes, Numbers DEF DirType, ZeroDir
    <3>5. p.first_blk = t.cwd.blk /\ p.first_blk \in D /\ p.name = Parent /\ p.type = TYPE_DIR
      BY <2>2, <3>1 DEF Entry
    <3> QED
      BY <3>4, <3>5 DEF YoungDir
  <2>5. /\ u \in StateType /\ u.cwd = t.cwd /\ u.root = t.root /\ u.fat = [fat EXCEPT ![b] = FAT_EOF]
        /\ u.disk = [t.disk EXCEPT ![b] = InDir(n)]
    <3>1. u = [t EXCEPT !.disk[b] = InDir(n), !.fat[b] = FAT_EOF]
      BY <2>1
    <3>2. InDir(n) \in BlockType
      BY <2>4, WritingTypes
    <3> QED
      BY <2>2, <2>3, <3>1, <3>2 DEF StateType, DiskType, FatType
  <2>6. NewBlock(s, D, t, b, u)
    <3> DEFINE E == DirsOf(s, D)
               H == Held(D, E)
               h == Heads(D, E)
    <3>1. TableGood(fat, H, h) /\ \A d \in D : fat[d] # FAT_FREE
      BY <2>2 DEF TreeGood
    <3> HIDE DEF H, h
    <3>2. b \in Blocks \ {ROOT_BLOCK, FAT_BLOCK} /\ Unreferred(fat, H, h, b) /\ b \notin D
      BY <2>2, <2>3, <3>1, FreeUnreferred
    <3>3. TableGood(u.fat, H, h) /\ Unreferred(u.fat, H, h, b)
      BY <2>2, <2>5, <3>1, <3>2, CutGood
    <3>4. u.fat[b] = FAT_EOF /\ (\A d \in Blocks : d # b => u.fat[d] = fat[d]) /\ FAT_EOF # FAT_FREE /\ FAT_EOF \notin Blocks
      BY <2>2, <2>3, <2>5, Numbers DEF FatType
    <3>5. TreeGood(u.fat, D, E)
      <4>1. DirsGood(D, E) /\ \A d \in Blocks : fat[d] \in D => fat[d] = FAT_FREE
        BY <2>2 DEF TreeGood
      <4> HIDE DEF E
      <4>2. TableGood(u.fat, Held(D, E), Heads(D, E))
        BY <3>3 DEF H, h
      <4> QED
        BY <2>2, <3>1, <3>2, <3>4, <4>1, <4>2 DEF TreeGood
    <3>6. Owned(u.fat, b)
      BY <3>2, <3>4 DEF Owned
    <3>7. AsDir(u.disk[b]) = n /\ \A d \in D : u.disk[d] = t.disk[d]
      BY <2>2, <2>3, <2>5, <3>2 DEF StateType, DiskType, AsDir, InDir
    <3> QED
      BY <2>2, <2>4, <2>5, <3>2, <3>3, <3>5, <3>6, <3>7 DEF NewBlock, GoodNest, H, h
  <2>7. e \in EntryType /\ e.first_blk = b /\ e.type = TYPE_DIR
    <3>1. 0 \in 0 .. MaxSize /\ TYPE_DIR \in {TYPE_FILE, TYPE_DIR} /\ Rights \in SUBSET Rights
      BY Numbers
    <3>2. e = Entry(parts.file, 0, b, TYPE_DIR, Rights)
      BY <2>1
    <3> QED
      BY <1>5, <2>3, <3>1, <3>2, EntryTypes DEF Entry
  <2>8. s.cwd.blk = ROOT_BLOCK \/ t.cwd.blk # ROOT_BLOCK
    <3>1. Rooted(s, D)
      BY <1>3, TreeFacts
    <3> QED
      BY <1>2, <1>3, <1>4, <1>7, <1>11, <2>1, <3>1, Zenon DEF SparesFile, Spares, LeadsOff
  <2>9. e.type = TYPE_FILE => e.size \in FileSizes
    BY <2>7 DEF TYPE_DIR, TYPE_FILE
  <2>11. FitsIn(t, j, e, AsDir(u.disk[b]))
    <3>1. AsDir(u.disk[b]) = n
      BY <2>2, <2>3, <2>5 DEF StateType, DiskType, AsDir, InDir
    <3>2. e.name = parts.file /\ parts.file # NoName /\ lookup(t, e.name) = None /\ j = free_slot(t) /\ j # None
      BY <1>7, <1>11, <2>1 DEF Entry
    <3>3. ASSUME LocalUse PROVE e.name \in Names /\ e.name \in FolderNames
      <4>1. parts.file = Last(c.path.comps) /\ parts.file \in Names
        BY <1>1, <1>2, <1>4, <3>2, <3>3, LocalChange
      <4>2. Last(c.path.comps) \in FolderNames
        BY <3>3, FoldersChosen
      <4> QED
        BY <3>2, <4>1, <4>2
    <3> QED
      BY <2>2, <2>4, <3>1, <3>2, <3>3, FitsFree
  <2>10. Home(s, exit_method(put(u, j, e), s.cwd, TRUE))
    <3>1. /\ Tree(s, D) /\ Visits(s, t, D) /\ NewBlock(s, D, t, b, u) /\ j \in Slots \ {0}
          /\ e \in EntryType /\ e.first_blk = b /\ (e.type = TYPE_FILE => e.size \in FileSizes)
          /\ s.cwd.blk = ROOT_BLOCK \/ t.cwd.blk # ROOT_BLOCK
          /\ FitsIn(t, j, e, AsDir(u.disk[b]))
      BY <1>3, <2>2, <2>3, <2>6, <2>7, <2>8, <2>9, <2>11
    <3> QED
      BY <3>1, EntersNew
  <2> QED
    BY <1>2, <1>3, <1>11, <2>1, <2>10 DEF Arrives
<1> QED
  BY <1>8, <1>9, <1>10, <1>11

(* Two texts, one after the other. *)
LEMMA Joined ==
  ASSUME NEW S, NEW p \in Seq(S), NEW q \in Seq(S)
  PROVE  Len(p \o q) = Len(p) + Len(q) /\ Len(p) \in Nat
OBVIOUS

(* What is read of a file is a text no longer than its size, *)
LEMMA ReadWithin ==
  ASSUME NEW s \in StateType, NEW start \in Blocks \cup {FAT_EOF}, NEW size \in Nat,
         NEW data \in strings_read(s, start, size)
  PROVE  data \in Text /\ Len(data) <= size
<1>1. PICK a \in [0 .. NoBlocks -> ReadState] :
           /\ a[0] = [blk |-> start, left |-> size, text |-> <<>>]
           /\ \A k \in 1 .. NoBlocks : a[k] = read_more(s, a[k - 1])
           /\ read_chain(s, start, size) = a[NoBlocks]
  BY ReadRuns
<1>2. NoBlocks \in Nat
  BY SizesAssumption
<1> DEFINE K == {k \in 0 .. NoBlocks : Len(a[k].text) + a[k].left <= size}
<1>3. 0 \in K
  BY <1>1, <1>2
<1>4. ASSUME NEW k \in 1 .. NoBlocks, k - 1 \in K PROVE k \in K
  <2>1. PICK r : r = a[k - 1]
    OBVIOUS
  <2>2. r \in ReadState /\ Len(r.text) + r.left <= size /\ k \in 0 .. NoBlocks /\ a[k] = read_more(s, r)
    BY <1>1, <1>2, <1>4, <2>1
  <2>3. r.blk \in Blocks \cup {FAT_EOF} /\ r.left \in Nat /\ r.text \in Text
    BY <2>2 DEF ReadState
  <2> DEFINE t == AsText(s.disk[r.blk])
             n == Min({BlockSize, r.left})
             m == Min({n, Len(t)})
             rest == IF Len(t) < n THEN FAT_EOF ELSE s.fat[r.blk]
             v == [blk |-> rest, left |-> r.left - n, text |-> r.text \o SubSeq(t, 1, m)]
  <2>4. read_more(s, r) = IF r.blk = FAT_EOF \/ n = 0 THEN r ELSE v
    BY DEF read_more
  <2>5. CASE r.blk = FAT_EOF \/ n = 0
    BY <2>2, <2>4, <2>5
  <2>6. CASE ~(r.blk = FAT_EOF \/ n = 0)
    <3>1. t \in Text
      <4>1. s.disk[r.blk] \in BlockType
        BY <2>3, <2>6 DEF StateType, DiskType
      <4> QED
        BY <4>1, ReadingTypes
    <3>2. n \in Nat /\ n <= r.left /\ Len(t) \in Nat
      <4>1. BlockSize \in Nat /\ r.left \in Nat
        BY <2>3, Numbers
      <4>2. n = IF BlockSize <= r.left THEN BlockSize ELSE r.left
        BY <4>1, LesserIs
      <4>3. n \in Nat /\ n <= r.left
        <5> HIDE DEF n
        <5> QED
          BY <4>1, <4>2
      <4>4. Len(t) \in Nat
        <5> HIDE DEF t
        <5> QED
          BY <3>1 DEF Text
      <4> QED
        BY <4>3, <4>4
    <3> HIDE DEF t, n
    <3>3. m \in 0 .. Len(t) /\ m <= n
      BY <3>2, LesserIs
    <3> HIDE DEF m
    <3>4. PICK p : p = SubSeq(t, 1, m)
      OBVIOUS
    <3>5. p \in Seq(STRING) /\ Len(p) = m
      BY <3>1, <3>3, <3>4 DEF Text
    <3>6. PICK q : q = r.text \o p
      OBVIOUS
    <3>7. v.text = q /\ v.left = r.left - n
      BY <3>4, <3>6
    <3>8. a[k] = v
      BY <2>2, <2>4, <2>6
    <3>9. Len(q) = Len(r.text) + m /\ Len(r.text) \in Nat
      <4>1. r.text \in Seq(STRING)
        BY <2>3 DEF Text
      <4>2. Len(r.text \o p) = Len(r.text) + Len(p) /\ Len(r.text) \in Nat
        BY <3>5, <4>1, Joined
      <4> QED
        BY <3>5, <3>6, <4>2
    <3> HIDE DEF v
    <3>10. Len(v.text) + v.left <= size
      <4>1. Len(r.text) + r.left <= size /\ m <= n /\ m \in Nat /\ n \in Nat /\ r.left \in Nat
        BY <2>2, <2>3, <3>2, <3>3
      <4> QED
        BY <3>7, <3>9, <4>1, SMTT(40)
    <3> QED
      BY <2>2, <3>8, <3>10
  <2> QED
    BY <2>5, <2>6
<1>5. NoBlocks \in K
  <2> HIDE DEF K
  <2>1. \A k \in 0 .. NoBlocks : k \in K
    BY <1>2, <1>3, <1>4, EveryTurn
  <2> QED
    BY <1>2, <2>1
<1>6. PICK r : r = a[NoBlocks] /\ r = read_chain(s, start, size)
  BY <1>1
<1>7. r \in ReadState /\ Len(r.text) + r.left <= size /\ Len(r.text) \in Nat /\ r.left \in Nat
  <2>1. r \in ReadState /\ Len(r.text) + r.left <= size
    BY <1>1, <1>2, <1>5, <1>6
  <2> QED
    BY <2>1 DEF ReadState, Text
<1> DEFINE strays(n) == [k \in 1 .. n |-> Stray]
           last == IF Len(r.text) < size - r.left THEN 0 ELSE r.left
<1>8. PICK n \in 0 .. last : data = r.text \o strays(n)
  BY <1>6, Zenon DEF strings_read
<1>9. n \in Nat /\ n <= r.left
  BY <1>7, <1>8
<1>10. PICK p : p = strays(n)
  OBVIOUS
<1>11. p \in Seq(STRING) /\ Len(p) = n
  <2>1. p \in [1 .. n -> STRING]
    <3>1. Stray \in STRING
      BY NamesAssumption
    <3> QED
      BY <1>10, <3>1
  <2>2. p \in Seq(STRING)
    BY <1>9, <2>1, SeqDef
  <2>3. DOMAIN p = 1 .. n
    BY <2>1
  <2> QED
    BY <1>9, <2>2, <2>3, LenProperties
<1>12. r.text \in Seq(STRING)
  BY <1>7 DEF ReadState, Text
<1>13. Len(data) = Len(r.text) + Len(p)
  BY <1>8, <1>10, <1>11, <1>12, Joined
<1>14. data \in Text
  BY StringsType
<1> HIDE DEF last, strays
<1> QED
  <2>1. PICK l, m, n1 : l = Len(r.text) /\ m = r.left /\ n1 = Len(data)
    OBVIOUS
  <2>2. l \in Nat /\ m \in Nat /\ l + m <= size /\ n <= m /\ n1 = l + n
    BY <1>7, <1>9, <1>11, <1>13, <2>1
  <2>3. n1 <= size
    BY <1>9, <2>2
  <2> QED
    BY <1>14, <2>1, <2>3

(* and a text that leaves room in a block needs no other one.              *)
LEMMA WriteWithin ==
  ASSUME NEW s \in StateType, NEW start \in Blocks, NEW data \in Text, Len(data) < BlockSize
  PROVE  write_data(s, start, data).ok
<1> DEFINE n == Len(data) \div BlockSize
<1>1. n = 0
  <2>1. PICK l \in Nat : l = Len(data)
    BY DEF Text
  <2>2. PICK B \in Nat : B = BlockSize /\ B > 0
    BY Numbers
  <2>3. l < B
    BY <2>1, <2>2
  <2>4. l \div B = 0
    BY <2>2, <2>3, SMT
  <2> QED
    BY <2>1, <2>2, <2>4
<1>2. PICK a \in [0 .. n -> WriteState] :
           /\ a[0] = [ok |-> TRUE, s |-> first_write(s, start, data)]
           /\ write_data(s, start, data) = a[n]
  BY WriteRuns
<1> HIDE DEF n
<1>3. a[0].ok
  BY <1>2
<1> QED
  BY <1>1, <1>2, <1>3

(* The source of a copy or a move is a file, and its new name is a Name.   *)
LEMMA LocalSource ==
  ASSUME NEW D, Tree(This, D), LocalUse, NEW c \in Commands, c.cmd \in {"cp", "mv"},
         NEW src, src = get_filename_parts(This, c.src), src.file # NoName,
         NEW dst, dst = get_filename_parts(This, c.dst)
  PROVE  /\ dst.file # NoName => dst.file \in Names
         /\ src.file \in Names
         /\ \A t : Visits(This, t, D) =>
              \A i \in Slots : t.cwd.entries[i].name = src.file => i # 0 /\ t.cwd.entries[i].type # TYPE_DIR
<1>1. c.src \in PathType /\ c.dst \in PathType
  BY CommandsAssumption
<1>2. src.file = Last(c.src.comps) /\ src.file \in Names /\ (dst.file # NoName => dst.file \in Names)
  BY <1>1, LocalChange
<1>3. src.file \notin FolderNames
  BY <1>2, FoldersChosen DEF LocalUse
<1>4. ASSUME NEW t, Visits(This, t, D), NEW i \in Slots, t.cwd.entries[i].name = src.file
      PROVE  i # 0 /\ t.cwd.entries[i].type # TYPE_DIR
  <2>1. Named(t.cwd.entries)
    <3>1. Nested(D, DirsOf(This, D))
      BY TreeFacts DEF Nest
    <3> QED
      BY <1>4, <3>1 DEF Nested, Visits, DirsOf
  <2>2. i # 0
    BY <1>2, <1>4, <2>1, NamesAssumption DEF Named
  <2> QED
    BY <1>3, <1>4, <2>1, <2>2 DEF Named
<1> QED
  BY <1>2, <1>4

(* cp. *)
LEMMA CpArrives ==
  ASSUME NEW D, Tree(This, D), NEW c \in Commands, c.cmd = "cp", cp(c),
         SparesFile(c.src), Spares(get_filename_parts(This, c.dst).dir), RoomToCopy(FileSizes)
  PROVE  Arrives
<1>1. c.src \in PathType /\ c.dst \in PathType
  BY CommandsAssumption
<1>2. PICK s : s = This
  OBVIOUS
<1>3. Tree(s, D) /\ s \in StateType /\ SyncRoot(This) = s /\ s.fat = fat /\ s.cwd = cwd
  BY <1>2, Begins
<1>4. PICK src, dst : src = get_filename_parts(s, c.src) /\ dst = get_filename_parts(s, c.dst)
  OBVIOUS
<1>5. src.file \in Words /\ dst.file \in Words /\ src.dir \in PathType /\ dst.dir \in PathType
  BY <1>1, <1>3, <1>4, PartsType
<1>6. PICK here, there : here = enter(s, src) /\ there = change_cwd(here.s, dst.dir) /\ cp_returns(src, dst, here, there)
  BY <1>3, <1>4, Zenon DEF cp
<1>7. /\ Visits(s, here.s, D) /\ (~here.ok => here.s.cwd.blk = s.cwd.blk)
      /\ here.ok => src.file # NoName
  BY <1>3, <1>5, <1>6, EnterVisits
<1>8. Visits(s, there.s, D)
  <2>1. Rooted(s, D)
    BY <1>3, TreeFacts
  <2> QED
    BY <1>5, <1>6, <1>7, <2>1, ChangeVisits
<1> DEFINE name == IF dst.file = NoName THEN src.file ELSE dst.file
           i    == lookup(here.s, src.file)
           file == here.s.cwd.entries[i]
           blk  == find_empty_block(fat)
           slot == free_slot(there.s)
           read == strings_read(here.s, file.first_blk, file.size)
           copy    == [file EXCEPT !.name = name, !.first_blk = blk]
           found   == here.ok /\ i # None /\ blk # None /\ there.ok /\ slot # None
                      /\ lookup(there.s, name) = None
<1>9. \/ ~here.ok /\ Becomes(here.s)
      \/ Becomes(exit_method(here.s, cwd, FALSE))
      \/ Becomes(exit_method(there.s, cwd, FALSE))
      \/ found /\ \E data \in read : \E w \in {write_data(there.s, blk, data)} :
                   Becomes(exit_method(put(IF w.ok THEN w.s ELSE exit_method(w.s, cwd, FALSE), slot, copy), cwd, TRUE))
  BY <1>6, Zenon DEF cp_returns
<1>10. CASE ~here.ok /\ Becomes(here.s)
  BY <1>2, <1>3, <1>7, <1>10, StopGood DEF Arrives
<1>11. CASE Becomes(exit_method(here.s, cwd, FALSE))
  BY <1>2, <1>3, <1>7, <1>11, QuietGood DEF Arrives
<1>12. CASE Becomes(exit_method(there.s, cwd, FALSE))
  BY <1>2, <1>3, <1>8, <1>12, QuietGood DEF Arrives
<1>13. SUFFICES ASSUME found, NEW data \in read, NEW written \in {write_data(there.s, blk, data)},
                       Becomes(exit_method(put(IF written.ok THEN written.s ELSE exit_method(written.s, cwd, FALSE),
                                               slot, copy), cwd, TRUE))
                PROVE  Arrives
  BY <1>9, <1>10, <1>11, <1>12, Zenon
<1> DEFINE gaveup == exit_method(written.s, cwd, FALSE)
<1>14. \/ ~written.ok /\ Becomes(exit_method(put(gaveup, slot, copy), cwd, TRUE))
       \/ Becomes(exit_method(put(written.s, slot, copy), cwd, TRUE))
  <2>1. CASE written.ok
    BY <1>13, <2>1
  <2>2. CASE ~written.ok
    BY <1>13, <2>2
  <2> QED
    BY <2>1, <2>2
<1>15. written = write_data(there.s, blk, data)
  OBVIOUS
<1>16. /\ NewBlock(s, D, there.s, blk, written.s) /\ slot \in Slots \ {0}
       /\ copy \in EntryType /\ copy.first_blk = blk /\ (copy.type = TYPE_FILE => copy.size \in FileSizes)
       /\ copy.name = name /\ (LocalUse => name \in Names /\ copy.type # TYPE_DIR /\ written.ok)
  <2>1. here.s \in StateType /\ there.s \in StateType /\ fat \in FatType
    BY <1>3, <1>7, <1>8 DEF Visits, StateType
  <2>2. blk \in Blocks /\ fat[blk] = FAT_FREE /\ slot \in Slots \ {0}
    BY <1>13, <2>1, EmptyBlockIs, SearchGood
  <2>3. i \in Slots /\ file.name = src.file /\ src.file # NoName
    BY <1>7, <1>13, <2>1, SearchGood
  <2>4. DirGood(D, here.s.cwd.entries)
    <3>1. DirsGood(D, DirsOf(s, D))
      BY <1>3, TreeFacts DEF Rooted
    <3> QED
      BY <1>7, <3>1 DEF Visits, DirsGood, DirsOf
  <2>5. file \in EntryType /\ (file.type = TYPE_FILE => file.size \in FileSizes)
    <3>1. TYPE_FILE # TYPE_DIR
      BY DEF TYPE_FILE, TYPE_DIR
    <3> QED
      BY <2>3, <2>4, <3>1 DEF DirGood, DirType
  <2>6. PICK e, b, y : e = file /\ b = blk /\ y = data
    OBVIOUS
  <2>7. e \in EntryType /\ (e.type = TYPE_FILE => e.size \in FileSizes)
    BY <2>5, <2>6
  <2>8. copy \in EntryType /\ copy.first_blk = blk /\ (copy.type = TYPE_FILE => copy.size \in FileSizes)
        /\ copy.name = name /\ copy.type = e.type
    <3>1. copy = [e EXCEPT !.name = name, !.first_blk = b]
      BY <2>6
    <3>2. name \in Words
      BY <1>5
    <3> HIDE DEF name, file
    <3> QED
      BY <2>2, <2>5, <2>6, <3>1, <3>2 DEF EntryType
  <2>9. y \in Text
    <3>1. e.first_blk \in Blocks \cup {FAT_EOF} /\ e.size \in Nat
      BY <2>7, Numbers DEF EntryType
    <3>2. y \in strings_read(here.s, e.first_blk, e.size)
      BY <2>6
    <3> QED
      BY <2>1, <3>1, <3>2, StringsType
  <2>10. NewBlock(s, D, there.s, b, write_data(there.s, b, y).s)
    <3>1. b \in Blocks /\ s.fat[b] = FAT_FREE
      BY <1>3, <2>2, <2>6
    <3> QED
      BY <1>3, <1>8, <2>9, <3>1, WroteNew
  <2>11. ASSUME LocalUse PROVE name \in Names /\ copy.type # TYPE_DIR /\ written.ok
    <3>1. src = get_filename_parts(This, c.src) /\ dst = get_filename_parts(This, c.dst) /\ Visits(This, here.s, D)
      BY <1>2, <1>4, <1>7
    <3>8. /\ dst.file # NoName => dst.file \in Names
          /\ src.file \in Names
          /\ \A k \in Slots : here.s.cwd.entries[k].name = src.file => here.s.cwd.entries[k].type # TYPE_DIR
      BY <1>2, <1>3, <2>3, <2>11, <3>1, LocalSource
    <3>2. name \in Names /\ e.type # TYPE_DIR
      BY <2>3, <2>6, <3>8
    <3>3. e.size \in Nat /\ e.size < BlockSize
      <4>1. e.type = TYPE_FILE /\ e.size \in Nat
        BY <2>7, <3>2, Numbers DEF EntryType
      <4> QED
        BY <2>11, <2>7, <4>1 DEF RoomToCopy
    <3>4. e.first_blk \in Blocks \cup {FAT_EOF} /\ y \in strings_read(here.s, e.first_blk, e.size)
      <4>1. e.first_blk \in Blocks \cup {FAT_EOF}
        BY <2>7 DEF EntryType
      <4> QED
        BY <2>6, <4>1
    <3>5. Len(y) <= e.size
      BY <2>1, <3>3, <3>4, ReadWithin
    <3>6. Len(y) < BlockSize
      <4>1. Len(y) \in Nat /\ BlockSize \in Nat
        BY <2>9, Numbers DEF Text
      <4> QED
        BY <3>3, <3>5, <4>1
    <3>7. write_data(there.s, b, y).ok
      BY <2>1, <2>2, <2>6, <2>9, <3>6, WriteWithin, Zenon
    <3> QED
      BY <1>15, <2>6, <2>8, <3>2, <3>7, Zenon
  <2> QED
    BY <1>15, <2>2, <2>6, <2>8, <2>10, <2>11, Zenon
<1>17. CASE ~written.ok /\ Becomes(exit_method(put(gaveup, slot, copy), cwd, TRUE))
  <2>1. PICK t, u, v, e, b, j : t = there.s /\ u = written.s /\ v = gaveup /\ e = copy /\ b = blk /\ j = slot
    OBVIOUS
  <2>2. /\ Visits(s, t, D) /\ NewBlock(s, D, t, b, u) /\ v = exit_method(u, s.cwd, FALSE) /\ j \in Slots \ {0}
        /\ e \in EntryType /\ e.first_blk = b /\ (e.type = TYPE_FILE => e.size \in FileSizes) /\ ~LocalUse
    BY <1>3, <1>8, <1>16, <1>17, <2>1, Zenon
  <2>3. v.cwd = s.cwd /\ Tree(v, D) /\ NewBlock(v, D, v, b, v)
    <3>1. u \in StateType
      BY <2>2 DEF NewBlock
    <3>2. v.cwd = s.cwd
      BY <2>2, <3>1 DEF exit_method, SyncRoot, StateType
    <3>5. Abandons(s, D, t, b, u, v)
      BY <1>3, <2>2, Zenon DEF Abandons
    <3>3. Tree(v, D)
      BY <3>5, GivesUp
    <3>4. NewBlock(v, D, v, b, v)
      BY <3>5, GivesUp
    <3> QED
      BY <3>2, <3>3, <3>4
  <2>4. Visits(v, v, D)
    BY <2>3, TreeFacts
  <2>5. Home(v, exit_method(put(v, j, e), v.cwd, TRUE))
    BY <2>2, <2>3, <2>4, EntersNew DEF FitsIn
  <2>6. Becomes(exit_method(put(v, j, e), v.cwd, TRUE))
    BY <1>3, <1>17, <2>1, <2>3, ZenonT(40)
  <2>7. Home(s, exit_method(put(v, j, e), v.cwd, TRUE))
    BY <2>3, <2>5 DEF Home
  <2> QED
    BY <1>2, <2>6, <2>7, Zenon DEF Arrives
<1>18. CASE Becomes(exit_method(put(written.s, slot, copy), cwd, TRUE))
  <2>1. PICK t, u, e, b, j : t = there.s /\ u = written.s /\ e = copy /\ b = blk /\ j = slot
    OBVIOUS
  <2>2. /\ Visits(s, t, D) /\ NewBlock(s, D, t, b, u) /\ j \in Slots \ {0}
        /\ e \in EntryType /\ e.first_blk = b /\ (e.type = TYPE_FILE => e.size \in FileSizes)
    BY <1>8, <1>16, <1>18, <2>1, Zenon
  <2>3. FitsIn(t, j, e, AsDir(u.disk[b]))
    <3>1. t \in StateType /\ j = free_slot(t) /\ j # None
      BY <1>13, <2>1, <2>2, Zenon DEF Visits
    <3>2. lookup(t, e.name) = None /\ (LocalUse => e.name \in Names /\ e.type # TYPE_DIR)
      BY <1>16, <1>13, <2>1, Zenon
    <3> QED
      BY <3>1, <3>2, FitsFree
  <2>4. s.cwd.blk = ROOT_BLOCK \/ t.cwd.blk # ROOT_BLOCK
    <3> SUFFICES ASSUME s.cwd.blk # ROOT_BLOCK PROVE t.cwd.blk # ROOT_BLOCK
      OBVIOUS
    <3>1. Rooted(s, D) /\ Rooted(here.s, D)
      BY <1>3, <1>7, TreeFacts, VisitsKeep
    <3>2. here = change_cwd(s, src.dir) /\ LeadsOff(src.dir) /\ LeadsOff(dst.dir)
      BY <1>2, <1>3, <1>4, <1>6, <1>7, <1>13, ZenonT(40) DEF SparesFile, Spares, enter
    <3>3. here.s.cwd.blk # ROOT_BLOCK
      BY <1>13, <3>1, <3>2, Zenon DEF LeadsOff
    <3> QED
      BY <1>6, <1>13, <2>1, <3>1, <3>2, <3>3, Zenon DEF LeadsOff
  <2>5. Home(s, exit_method(put(u, j, e), s.cwd, TRUE))
    BY <1>3, <2>2, <2>4, <2>3, EntersNew
  <2> QED
    BY <1>2, <1>3, <1>18, <2>1, <2>5, Zenon DEF Arrives
<1> QED
  BY <1>17, <1>18, <1>14, Zenon

(* An entry is taken out of a directory: nothing refers to its block then. *)
LEMMA TakenOut ==
  ASSUME NEW f, NEW D, NEW E, TreeGood(f, D, E), NEW b \in D, NEW i \in Slots \ {0}, E[b][i].name # NoName,
         NEW F, \A d \in D \ {b} : F[d] = E[d], F[b] = [E[b] EXCEPT ![i] = ZeroEntry], NEW e, e = E[b][i]
  PROVE  /\ TreeGood(f, D, F) /\ e \in EntryType
         /\ Owned(f, e.first_blk) /\ Unreferred(f, Held(D, F), Heads(D, F), e.first_blk)
         /\ (e.first_blk \in D <=> e.type = TYPE_DIR) /\ (e.type = TYPE_FILE => e.size \in FileSizes)
<1> DEFINE x == <<b, i>>
           H == Held(D, E)
           h == Heads(D, E)
<1>1. DirGood(D, E[b]) /\ E[b] \in DirType
  BY DEF TreeGood, DirsGood, DirGood
<1>2. e \in EntryType /\ e.first_blk # FAT_FREE /\ TYPE_FILE # TYPE_DIR
  BY <1>1 DEF DirGood, DirType, TYPE_FILE, TYPE_DIR
<1>3. e.type \in {TYPE_FILE, TYPE_DIR}
  BY <1>2 DEF EntryType
<1>4. (e.first_blk \in D <=> e.type = TYPE_DIR) /\ (e.type = TYPE_FILE => e.size \in FileSizes)
  BY <1>1, <1>2, <1>3 DEF DirGood
<1>5. x \in H /\ h[x] = e.first_blk
  BY <1>2 DEF Held, Heads, SlotsIn
<1>6. TreeGood(f, D, F)
  <2>1. ZeroEntry.first_blk = FAT_FREE /\ ZeroEntry.name = NoName /\ ZeroEntry.type = TYPE_FILE /\ ZeroEntry \in EntryType
    BY ZeroTypes DEF ZeroEntry, Entry, FAT_FREE
  <2> HIDE DEF x, H, h
  <2> QED
    BY <2>1, PutGood
<1>7. Held(D, F) \subseteq H \ {x} /\ \A y \in Held(D, F) : Heads(D, F)[y] = h[y]
  <2>1. F[b][i] = ZeroEntry /\ \A j \in Slots : j # i => F[b][j] = E[b][j]
    BY <1>1 DEF DirType
  <2>2. \A y \in SlotsIn(D) : y # x => F[y[1]][y[2]] = E[y[1]][y[2]]
    <3>1. \A d \in D, j \in Slots \ {0} : <<d, j>> # x => F[d][j] = E[d][j]
      BY <2>1
    <3>2. \A y \in SlotsIn(D) : y[1] \in D /\ y[2] \in Slots \ {0} /\ y = <<y[1], y[2]>>
      BY DEF SlotsIn
    <3> HIDE DEF x
    <3> QED
      BY <3>1, <3>2
  <2>3. x \notin Held(D, F)
    BY <2>1 DEF Held, ZeroEntry, Entry, FAT_FREE
  <2> QED
    BY <2>2, <2>3 DEF Held, Heads
<1>8. TableGood(f, H, h)
  BY DEF TreeGood
<1> HIDE DEF x, H, h
<1>9. Owned(f, e.first_blk) /\ e.first_blk \in Blocks
  BY <1>5, <1>8 DEF TableGood, Owned
<1>10. Unreferred(f, Held(D, F), Heads(D, F), e.first_blk)
  BY <1>5, <1>7, <1>8 DEF TableGood, Unreferred
<1> QED
  BY <1>2, <1>4, <1>6, <1>9, <1>10

(* mv takes the entry out of one directory and comes back to the other. *)
LEMMA MvBack ==
  ASSUME NEW s, NEW D, Tree(s, D), NEW t, Visits(s, t, D), NEW i \in Slots, NEW path \in PathType,
         NEW w, w = put(t, i, ZeroEntry), NEW E1, E1 = Edited(s, D, t.cwd.blk, w.cwd.entries), DirsGood(D, E1),
         NEW back, back = change_cwd(w, path), s.cwd.blk = ROOT_BLOCK \/ t.cwd.blk # ROOT_BLOCK
  PROVE  LET v == back.s IN
         /\ v \in StateType /\ v.fat = s.fat /\ v.cwd.blk \in D /\ v.cwd.entries = E1[v.cwd.blk]
         /\ \A d \in D : (back.ok => d # v.cwd.blk) /\ d # s.cwd.blk => AsDir(v.disk[d]) = E1[d]
         /\ s.cwd.blk = ROOT_BLOCK \/ v.root = AsDir(v.disk[ROOT_BLOCK])
         /\ s.cwd.blk # ROOT_BLOCK /\ LeadsOff(path) /\ back.ok => v.cwd.blk # ROOT_BLOCK
         /\ \/ path = EmptyPath /\ v.cwd.blk = t.cwd.blk /\ v.cwd.info = t.cwd.info
            \/ \E y : /\ Rooted(y, D) /\ DirsOf(y, D) = E1 /\ back = change_cwd(y, path)
                     /\ y.cwd.blk = t.cwd.blk /\ y.cwd.info = t.cwd.info
<1> DEFINE b == t.cwd.blk
           v == back.s
<1>1. /\ Rooted(s, D) /\ s \in StateType /\ D \subseteq Blocks /\ ROOT_BLOCK \in D /\ s.cwd.blk \in D
      /\ t \in StateType /\ t.fat = s.fat /\ t.root = s.root /\ b \in D /\ s.root = DirIn(s, ROOT_BLOCK)
  BY TreeFacts DEF Visits, Rooted
<1>2. /\ w \in StateType /\ w.fat = s.fat /\ w.root = s.root /\ w.disk = t.disk /\ w.cwd.blk = b
      /\ w.cwd.info = t.cwd.info
  BY <1>1, ZeroTypes, PutType DEF put, StateType, CwdType
<1>3. E1[b] = w.cwd.entries /\ \A d \in D : d # b => E1[d] = DirIn(s, d)
  BY <1>1 DEF Edited
<1>4. \A d \in D : d # b => AsDir(w.disk[d]) = E1[d]
  BY <1>1, <1>2, <1>3 DEF Visits, DirIn
<1>5. CASE path = EmptyPath
  <2>1. back.ok /\ v = w
    BY <1>5 DEF change_cwd
  <2>2. s.cwd.blk = ROOT_BLOCK \/ w.root = AsDir(w.disk[ROOT_BLOCK])
    BY <1>1, <1>2, <1>3, <1>4
  <2> QED
    BY <1>1, <1>2, <1>3, <1>4, <1>5, <2>1, <2>2
<1>6. CASE path # EmptyPath
  <2> DEFINE y == Saved(w)
             x == [w EXCEPT !.disk[b] = InDir(w.cwd.entries)]
  <2>1. x \in StateType /\ x.fat = w.fat /\ x.root = w.root /\ x.cwd = w.cwd /\ x.disk = [w.disk EXCEPT ![b] = InDir(w.cwd.entries)]
    BY <1>1, <1>2, WritingTypes DEF StateType, DiskType, CwdType
  <2>2. y = SyncRoot(x) /\ y \in StateType
    BY <1>2, SavedType DEF Saved
  <2> HIDE DEF x
  <2>3. /\ y.fat = w.fat /\ y.cwd = w.cwd /\ y.disk = [w.disk EXCEPT ![b] = InDir(w.cwd.entries)]
        /\ y.root = IF b = ROOT_BLOCK THEN w.cwd.entries ELSE w.root
    BY <1>2, <2>1, <2>2 DEF SyncRoot, StateType
  <2> HIDE DEF y
  <2>4. y.disk[b] = InDir(w.cwd.entries) /\ AsDir(y.disk[b]) = w.cwd.entries /\ \A d \in Blocks : d # b => y.disk[d] = w.disk[d]
    BY <1>1, <1>2, <2>3 DEF StateType, DiskType, AsDir, InDir
  <2>5. \A d \in D : AsDir(y.disk[d]) = E1[d] /\ DirIn(y, d) = E1[d]
    BY <1>1, <1>2, <1>3, <1>4, <2>3, <2>4 DEF DirIn
  <2>6. y.root = E1[ROOT_BLOCK]
    BY <1>1, <1>2, <1>3, <2>3
  <2>7. DirsOf(y, D) = Edited(s, D, t.cwd.blk, w.cwd.entries)
    BY <2>5 DEF DirsOf, Edited
  <2>8. Rooted(y, D)
    BY <1>1, <1>2, <2>2, <2>3, <2>5, <2>6, <2>7 DEF Rooted
  <2>9. Saved(y) = y
    <3>1. [y EXCEPT !.disk[y.cwd.blk] = InDir(y.cwd.entries)] = y
      BY <1>1, <1>2, <2>2, <2>3, <2>4 DEF StateType, DiskType
    <3>2. b = ROOT_BLOCK => [y EXCEPT !.root = y.cwd.entries] = y
      BY <2>2, <2>3 DEF StateType
    <3>3. Saved(y) = SyncRoot(y)
      BY <3>1 DEF Saved
    <3>4. SyncRoot(y) = IF y.cwd.blk = ROOT_BLOCK THEN [y EXCEPT !.root = y.cwd.entries] ELSE y
      BY DEF SyncRoot
    <3>5. y.cwd.blk = b
      BY <1>2, <2>3
    <3> QED
      BY <3>2, <3>3, <3>4, <3>5
  <2>10. change_cwd(y, path) = change_cwd(w, path)
    <3> DEFINE Change(r) == IF ~Walk(Saved(r), path, {}).ok THEN [ok |-> FALSE, s |-> Saved(r)]
                            ELSE [ok |-> TRUE,
                                  s |-> [Saved(r) EXCEPT !.cwd = [entries |-> Walk(Saved(r), path, {}).dir,
                                           info |-> Walk(Saved(r), path, {}).info, blk |-> Walk(Saved(r), path, {}).blk]]]
    <3>1. change_cwd(y, path) = Change(y) /\ change_cwd(w, path) = Change(w)
      BY <1>6 DEF change_cwd, Saved
    <3>2. Saved(y) = Saved(w)
      BY <2>9 DEF y
    <3> QED
      BY <3>1, <3>2
  <2>11. v.disk = y.disk /\ v.root = y.root
    <3>1. back = IF ~Walk(y, path, {}).ok THEN [ok |-> FALSE, s |-> y]
                 ELSE [ok |-> TRUE, s |-> [y EXCEPT !.cwd = [entries |-> Walk(y, path, {}).dir,
                                                             info |-> Walk(y, path, {}).info, blk |-> Walk(y, path, {}).blk]]]
      BY <1>6 DEF change_cwd, Saved, y
    <3> QED
      BY <2>2, <3>1 DEF StateType
  <2>12. Visits(y, v, D)
    <3>1. Visits(y, y, D)
      BY <2>8, VisitsHere
    <3> QED
      BY <2>8, <2>10, <3>1, ChangeVisits
  <2>13. v \in StateType /\ v.fat = s.fat /\ v.cwd.blk \in D /\ v.cwd.entries = E1[v.cwd.blk]
    BY <1>2, <2>3, <2>5, <2>12 DEF Visits
  <2>14. v.root = AsDir(v.disk[ROOT_BLOCK])
    BY <1>1, <2>5, <2>6, <2>11
  <2>15. s.cwd.blk # ROOT_BLOCK /\ LeadsOff(path) /\ back.ok => v.cwd.blk # ROOT_BLOCK
    BY <1>2, <2>3, <2>8, <2>10 DEF LeadsOff
  <2>16. /\ Rooted(y, D) /\ DirsOf(y, D) = E1 /\ back = change_cwd(y, path)
         /\ y.cwd.blk = t.cwd.blk /\ y.cwd.info = t.cwd.info
    BY <1>2, <2>3, <2>7, <2>8, <2>10
  <2> QED
    BY <2>5, <2>11, <2>13, <2>14, <2>15, <2>16
<1> QED
  BY <1>5, <1>6

(* If the source is in the working directory, that is where the calls of   *)
(* change_cwd for the destination begin, and they come to the same place.  *)
LEMMA MvMeets ==
  ASSUME NEW s, NEW D, Rooted(s, D), Nested(D, DirsOf(s, D)), NEW path \in PathType,
         NEW there, there = change_cwd(s, path), there.ok,
         NEW back, back.ok, NEW y, Rooted(y, D), y.cwd.blk = s.cwd.blk, back = change_cwd(y, path), SameFolders(s, D, y)
  PROVE  back.s.cwd.blk = there.s.cwd.blk
<1> DEFINE E == DirsOf(s, D)
           F == DirsOf(y, D)
           comps == path.comps
<1>1. PICK g : Route(D, E, comps, g) /\ g[0] = From(s, path) /\ g[Len(comps)] = there.s.cwd.blk
  BY ChangeArrives DEF Comes
<1>2. PICK h : Route(D, F, comps, h) /\ h[0] = From(y, path) /\ h[Len(comps)] = back.s.cwd.blk
  BY ChangeArrives DEF Comes
<1>3. Len(comps) \in Nat
  BY DEF PathType
<1>4. DirsGood(D, E) /\ Nested(D, E) /\ \A b \in D : \A i \in Slots : F[b][i].type = TYPE_DIR => E[b][i] = F[b][i]
  BY DEF Rooted, SameFolders, DirsOf
<1> HIDE DEF E, F, comps
<1>5. PICK c : c = comps
  OBVIOUS
<1>6. Len(c) \in Nat /\ Route(D, E, c, g) /\ Route(D, F, c, h) /\ g[0] = h[0]
  BY <1>1, <1>2, <1>3, <1>5 DEF From
<1>7. g[Len(c)] = h[Len(c)]
  BY <1>4, <1>6, AlongMeet DEF Along
<1> QED
  BY <1>1, <1>2, <1>5, <1>7

(* An entry that nothing in the tree refers to, and what a directory needs *)
(* of it.                                                                  *)
MayHold(f, D, E, m) ==
  /\ m \in EntryType /\ Owned(f, m.first_blk) /\ Unreferred(f, Held(D, E), Heads(D, E), m.first_blk)
  /\ (m.first_blk \in D <=> m.type = TYPE_DIR) /\ (m.type = TYPE_FILE => m.size \in FileSizes)

(* In local use it is a file with a new name, put where no directory is.   *)
FitsFile(e, i, m) == LocalUse => e[i].type # TYPE_DIR /\ m.type # TYPE_DIR /\ Fits(e, i, m)

(* mv on the way back, in v: the directories are E1, of which the one it   *)
(* is in and the one it was given in are not on disk.                      *)
OnTheWay(s, D, v, E1, backup) ==
  /\ v \in StateType /\ GoodNest(v.fat, D, E1) /\ v.cwd.blk \in D /\ v.cwd.entries = E1[v.cwd.blk]
  /\ backup \in CwdType /\ backup.blk = s.cwd.blk /\ backup.entries = E1[s.cwd.blk]
  /\ s.cwd.blk = ROOT_BLOCK \/ (v.root = AsDir(v.disk[ROOT_BLOCK]) /\ v.cwd.blk # ROOT_BLOCK)
  /\ \A d \in D : d # v.cwd.blk /\ d # s.cwd.blk => AsDir(v.disk[d]) = E1[d]

(* mv that has not found that way: all directories but the one it was      *)
(* given in are on disk.                                                   *)
Astray(s, D, v, E1, backup) ==
  /\ v \in StateType /\ GoodNest(v.fat, D, E1)
  /\ backup \in CwdType /\ backup.blk = s.cwd.blk /\ backup.entries = E1[s.cwd.blk]
  /\ s.cwd.blk = ROOT_BLOCK \/ v.root = AsDir(v.disk[ROOT_BLOCK])
  /\ \A d \in D : d # s.cwd.blk => AsDir(v.disk[d]) = E1[d]

(* mv ends with what it was given in, edited: if the way back to the       *)
(* destination is not found the entry is gone,                             *)
LEMMA MvLoses ==
  ASSUME NEW s, NEW D, Tree(s, D), NEW v, NEW E1, NEW backup, Astray(s, D, v, E1, backup)
  PROVE  Home(s, exit_method(v, backup, FALSE))
<1>0. /\ v \in StateType /\ GoodNest(v.fat, D, E1)
      /\ backup \in CwdType /\ backup.blk = s.cwd.blk /\ backup.entries = E1[s.cwd.blk]
      /\ s.cwd.blk = ROOT_BLOCK \/ v.root = AsDir(v.disk[ROOT_BLOCK])
      /\ \A d \in D : d # s.cwd.blk => AsDir(v.disk[d]) = E1[d]
  BY DEF Astray
<1>1. s.cwd.blk \in D
  BY TreeFacts
<1>2. \A d \in D : E1[d] = After(v, backup, FALSE, d)
  BY <1>0, <1>1 DEF After
<1>3. Leaves(s, v, backup, FALSE, D, E1)
  BY <1>0, <1>1, <1>2 DEF Leaves
<1> QED
  BY <1>3, LeavesGood, Zenon

(* and otherwise it is in the slot that was free when mv looked for one.   *)
LEMMA MvFills ==
  ASSUME NEW s, NEW D, Tree(s, D), NEW v, NEW E1, NEW backup, OnTheWay(s, D, v, E1, backup),
         NEW slot \in Slots \ {0}, NEW m, MayHold(v.fat, D, E1, m), NEW u, u = put(v, slot, m),
         FitsFile(E1[v.cwd.blk], slot, m)
  PROVE  Home(s, exit_method(u, backup, TRUE))
<1> DEFINE b == v.cwd.blk
           F == [d \in D |-> IF d = b THEN u.cwd.entries ELSE E1[d]]
           save == TRUE
           r == exit_method(u, backup, save)
<1>1. s.cwd.blk \in D /\ D \subseteq Blocks /\ b \in D /\ backup \in CwdType /\ backup.blk = s.cwd.blk
  BY TreeFacts DEF OnTheWay
<1>2. /\ u \in StateType /\ u.fat = v.fat /\ u.root = v.root /\ u.disk = v.disk /\ u.cwd.blk = b
      /\ u.cwd.entries = [v.cwd.entries EXCEPT ![slot] = m]
  BY PutType DEF put, StateType, CwdType, OnTheWay, MayHold
<1>3. GoodNest(u.fat, D, F)
  <2>1. (\A d \in D \ {b} : F[d] = E1[d]) /\ F[b] = [E1[b] EXCEPT ![slot] = m]
    BY <1>1, <1>2 DEF OnTheWay
  <2>2. /\ TreeGood(v.fat, D, E1) /\ m \in EntryType /\ Owned(v.fat, m.first_blk)
        /\ Unreferred(v.fat, Held(D, E1), Heads(D, E1), m.first_blk)
        /\ (m.first_blk \in D <=> m.type = TYPE_DIR) /\ (m.type = TYPE_FILE => m.size \in FileSizes)
    BY DEF OnTheWay, MayHold, GoodNest
  <2> HIDE DEF F
  <2>3. TreeGood(v.fat, D, F)
    BY <1>1, <2>1, <2>2, PutGood
  <2>4. Nest(D, F)
    <3>1. DirsGood(D, E1) /\ Nest(D, E1)
      BY DEF OnTheWay, GoodNest, TreeGood
    <3> QED
      BY <1>1, <2>1, <2>2, <3>1, NestPut DEF FitsFile
  <2> QED
    BY <1>2, <2>3, <2>4 DEF GoodNest
<1>4. /\ save \in BOOLEAN /\ backup.blk \in D /\ \A d \in D : F[d] = After(u, backup, save, d)
      /\ \/ backup.blk = ROOT_BLOCK
         \/ u.root = AsDir(u.disk[ROOT_BLOCK]) /\ ~(save /\ u.cwd.blk = ROOT_BLOCK)
  BY <1>1, <1>2 DEF After, OnTheWay
<1> HIDE DEF save, F
<1>5. PICK q, S, G, x : q = backup /\ S = save /\ G = F /\ x = u
  OBVIOUS
<1>6. /\ x \in StateType /\ q \in CwdType /\ S \in BOOLEAN /\ GoodNest(x.fat, D, G) /\ q.blk \in D
      /\ \A d \in D : G[d] = After(x, q, S, d)
      /\ \/ q.blk = ROOT_BLOCK
         \/ x.root = AsDir(x.disk[ROOT_BLOCK]) /\ ~(S /\ x.cwd.blk = ROOT_BLOCK)
  BY <1>1, <1>2, <1>3, <1>4, <1>5
<1>7. Tree(exit_method(x, q, S), D)
  BY <1>6, ExitGood
<1>8. exit_method(x, q, S).cwd.blk = q.blk
  BY <1>6, ExitPlace
<1> QED
  BY <1>1, <1>5, <1>7, <1>8 DEF Home, save

(* mv. *)
LEMMA MvArrives ==
  ASSUME NEW D, Tree(This, D), NEW c \in Commands, c.cmd = "mv", mv(c), Last(c.src.comps) # Parent,
         SparesFile(c.src), Spares(get_filename_parts(This, c.dst).dir)
  PROVE  Arrives
<1>1. c.src \in PathType /\ c.dst \in PathType
  BY CommandsAssumption
<1>2. PICK s : s = This
  OBVIOUS
<1>3. Tree(s, D) /\ s \in StateType /\ SyncRoot(This) = s /\ s.fat = fat /\ s.cwd = cwd
  BY <1>2, Begins
<1>4. PICK src, dst : src = get_filename_parts(s, c.src) /\ dst = get_filename_parts(s, c.dst)
  OBVIOUS
<1>5. /\ src.file \in Words /\ dst.file \in Words /\ src.dir \in PathType /\ dst.dir \in PathType
      /\ src.file # Parent
  <2>1. src.file \in {NoName, Last(c.src.comps)} /\ NoName # Parent
    BY <1>4, Zenon DEF get_filename_parts, NoName, Parent
  <2> QED
    BY <1>1, <1>3, <1>4, <2>1, PartsType
<1>6. PICK there, here : there = change_cwd(s, dst.dir) /\ here = change_cwd(there.s, src.dir) /\ mv_returns(src, dst, there, here)
  BY <1>3, <1>4, ZenonT(60) DEF mv
<1>7. Rooted(s, D) /\ Visits(s, there.s, D) /\ Visits(s, here.s, D) /\ Visits(s, s, D)
  <2>1. Rooted(s, D) /\ Visits(s, s, D)
    BY <1>3, TreeFacts
  <2>2. Visits(s, there.s, D)
    BY <1>5, <1>6, <2>1, ChangeVisits
  <2> QED
    BY <1>5, <1>6, <2>1, <2>2, ChangeVisits
<1> DEFINE name  == IF dst.file = NoName THEN src.file ELSE dst.file
           slot  == free_slot(there.s)
           i     == lookup(here.s, src.file)
           wiped == put(here.s, i, ZeroEntry)
           backup == IF here.s.cwd.blk = cwd.blk THEN [cwd EXCEPT !.entries = wiped.cwd.entries] ELSE cwd
           back  == change_cwd(wiped, dst.dir)
           moved == [here.s.cwd.entries[i] EXCEPT !.name = name]
           found == there.ok /\ slot # None /\ here.ok /\ i # None /\ src.file # NoName
                    /\ lookup(there.s, name) = None
<1>8. \/ Becomes(s)
      \/ Becomes(exit_method(there.s, cwd, FALSE))
      \/ Becomes(exit_method(here.s, cwd, FALSE))
      \/ found /\ ~back.ok /\ Becomes(exit_method(back.s, backup, FALSE))
      \/ found /\ back.ok /\ Becomes(exit_method(put(back.s, slot, moved), backup, TRUE))
  BY <1>3, <1>6, Zenon DEF mv_returns
<1>9. CASE Becomes(s)
  BY <1>2, <1>3, <1>7, <1>9, StopGood DEF Arrives
<1>10. CASE Becomes(exit_method(there.s, cwd, FALSE))
  BY <1>2, <1>3, <1>7, <1>10, QuietGood DEF Arrives
<1>11. CASE Becomes(exit_method(here.s, cwd, FALSE))
  BY <1>2, <1>3, <1>7, <1>11, QuietGood DEF Arrives
<1>12. ASSUME found,
              \/ ~back.ok /\ Becomes(exit_method(back.s, backup, FALSE))
              \/ back.ok /\ Becomes(exit_method(put(back.s, slot, moved), backup, TRUE))
       PROVE  Arrives
  <2>1. PICK t, b, j, n, w, z, q, m, p : /\ t = here.s /\ b = t.cwd.blk /\ j = i /\ n = slot /\ w = put(t, j, ZeroEntry)
                                         /\ z = back /\ m = moved /\ q = backup /\ p = t.cwd.entries[j]
    OBVIOUS
  <2>2. /\ t \in StateType /\ b \in D /\ t.cwd.entries = DirIn(s, b) /\ there.s \in StateType /\ s.cwd \in CwdType
        /\ D \subseteq Blocks /\ s.cwd.blk \in D
    BY <1>3, <1>7, <2>1, TreeFacts DEF Visits
  <2>3. TreeGood(fat, D, DirsOf(s, D)) /\ DirGood(D, t.cwd.entries) /\ t.cwd.entries \in DirType
    <3>1. TreeGood(fat, D, DirsOf(s, D))
      BY <1>3, TreeFacts
    <3> QED
      BY <2>2, <3>1 DEF TreeGood, DirsGood, DirsOf, DirGood
  <2>4. j \in Slots \ {0} /\ p.name = src.file /\ p.name # NoName /\ n \in Slots \ {0}
    <3>1. j \in Slots /\ p.name = src.file
      BY <1>12, <2>1, <2>2, SearchGood
    <3>2. n \in Slots \ {0}
      BY <1>12, <2>1, <2>2, SearchGood
    <3> QED
      BY <1>5, <1>12, <2>1, <2>3, <3>1, <3>2, Zenon DEF DirGood
  <2> DEFINE E  == DirsOf(s, D)
             E1 == Edited(s, D, b, w.cwd.entries)
  <2>5. w.cwd.entries = [t.cwd.entries EXCEPT ![j] = ZeroEntry] /\ w.cwd.entries \in DirType
    <3>1. w \in StateType
      BY <2>1, <2>2, <2>4, ZeroTypes, PutType
    <3> QED
      BY <2>1, <2>2, <3>1 DEF put, StateType, CwdType
  <2>6. /\ E[b][j] = p /\ (\A d \in D \ {b} : E1[d] = E[d]) /\ E1[b] = [E[b] EXCEPT ![j] = ZeroEntry]
        /\ E1[b] = w.cwd.entries
    BY <2>1, <2>2, <2>5 DEF Edited, DirsOf
  <2>7. /\ TreeGood(fat, D, E1) /\ p \in EntryType
        /\ Owned(fat, p.first_blk) /\ Unreferred(fat, Held(D, E1), Heads(D, E1), p.first_blk)
        /\ (p.first_blk \in D <=> p.type = TYPE_DIR) /\ (p.type = TYPE_FILE => p.size \in FileSizes)
    <3> HIDE DEF E, E1
    <3>1. TreeGood(fat, D, E)
      BY <2>3 DEF E
    <3>2. /\ b \in D /\ j \in Slots \ {0} /\ E[b][j].name # NoName /\ p = E[b][j]
          /\ (\A d \in D \ {b} : E1[d] = E[d]) /\ E1[b] = [E[b] EXCEPT ![j] = ZeroEntry]
      BY <2>2, <2>4, <2>6
    <3> QED
      BY <3>1, <3>2, TakenOut
  <2>8. /\ m \in EntryType /\ m.first_blk = p.first_blk /\ m.type = p.type /\ m.size = p.size
    <3>1. m = [p EXCEPT !.name = name] /\ name \in Words
      BY <1>5, <2>1
    <3> HIDE DEF name
    <3> QED
      BY <2>7, <3>1 DEF EntryType
  <2>9. s.cwd.blk = ROOT_BLOCK \/ (LeadsOff(src.dir) /\ LeadsOff(dst.dir) /\ b # ROOT_BLOCK)
    <3> SUFFICES ASSUME s.cwd.blk # ROOT_BLOCK PROVE LeadsOff(src.dir) /\ LeadsOff(dst.dir) /\ b # ROOT_BLOCK
      OBVIOUS
    <3>1. Rooted(there.s, D)
      BY <1>7, VisitsKeep
    <3>2. LeadsOff(src.dir) /\ LeadsOff(dst.dir)
      BY <1>2, <1>3, <1>4, <1>12 DEF Spares, SparesFile
    <3>3. there.s.cwd.blk # ROOT_BLOCK
      BY <1>6, <1>7, <1>12, <3>2, Zenon DEF LeadsOff
    <3> QED
      BY <1>6, <1>12, <2>1, <3>1, <3>2, <3>3, Zenon DEF LeadsOff
  <2>10. z = change_cwd(w, dst.dir)
    BY <2>1
  <2>11. DirsGood(D, E1)
    BY <2>7 DEF TreeGood
  <2> HIDE DEF E1
  <2>17. PICK v : v = z.s
    OBVIOUS
  <2>12. /\ v \in StateType /\ v.fat = s.fat /\ v.cwd.blk \in D /\ v.cwd.entries = E1[v.cwd.blk]
         /\ \A d \in D : (z.ok => d # v.cwd.blk) /\ d # s.cwd.blk => AsDir(v.disk[d]) = E1[d]
         /\ s.cwd.blk = ROOT_BLOCK \/ v.root = AsDir(v.disk[ROOT_BLOCK])
         /\ s.cwd.blk # ROOT_BLOCK /\ LeadsOff(dst.dir) /\ z.ok => v.cwd.blk # ROOT_BLOCK
         /\ \/ dst.dir = EmptyPath /\ v.cwd.blk = b
            \/ \E y : Rooted(y, D) /\ DirsOf(y, D) = E1 /\ y.cwd.blk = b /\ z = change_cwd(y, dst.dir)
    <3>1. /\ Tree(s, D) /\ Visits(s, t, D) /\ j \in Slots /\ dst.dir \in PathType /\ w = put(t, j, ZeroEntry)
          /\ E1 = Edited(s, D, t.cwd.blk, w.cwd.entries) /\ DirsGood(D, E1) /\ z = change_cwd(w, dst.dir)
          /\ s.cwd.blk = ROOT_BLOCK \/ t.cwd.blk # ROOT_BLOCK
      BY <1>3, <1>5, <1>7, <2>1, <2>4, <2>9, <2>10, <2>11 DEF E1
    <3>2. /\ v \in StateType /\ v.fat = s.fat /\ v.cwd.blk \in D /\ v.cwd.entries = E1[v.cwd.blk]
          /\ \A d \in D : (z.ok => d # v.cwd.blk) /\ d # s.cwd.blk => AsDir(v.disk[d]) = E1[d]
          /\ s.cwd.blk = ROOT_BLOCK \/ v.root = AsDir(v.disk[ROOT_BLOCK])
          /\ s.cwd.blk # ROOT_BLOCK /\ LeadsOff(dst.dir) /\ z.ok => v.cwd.blk # ROOT_BLOCK
      BY <2>17, <3>1, MvBack
    <3>3. \/ dst.dir = EmptyPath /\ v.cwd.blk = t.cwd.blk
          \/ \E y : Rooted(y, D) /\ DirsOf(y, D) = E1 /\ y.cwd.blk = t.cwd.blk /\ z = change_cwd(y, dst.dir)
      BY <2>17, <3>1, MvBack
    <3>4. b = t.cwd.blk
      BY <2>1
    <3> QED
      BY <3>2, <3>3, <3>4
  <2>13. q \in CwdType /\ q.blk = s.cwd.blk /\ q.entries = E1[s.cwd.blk]
    <3>1. q = IF b = s.cwd.blk THEN [s.cwd EXCEPT !.entries = w.cwd.entries] ELSE s.cwd
      BY <1>3, <2>1
    <3>2. b # s.cwd.blk => E1[s.cwd.blk] = s.cwd.entries
      BY <2>2, <2>6 DEF DirsOf, DirIn, E1, Edited
    <3> QED
      BY <2>2, <2>5, <2>6, <3>1, <3>2 DEF CwdType
  <2> HIDE DEF E
  <2>18. ASSUME LocalUse
         PROVE  /\ m.name = name /\ name \in Names /\ m.type # TYPE_DIR /\ p.type # TYPE_DIR
                /\ Nested(D, DirsOf(s, D)) /\ b = s.cwd.blk
    <3>1. src = get_filename_parts(This, c.src) /\ dst = get_filename_parts(This, c.dst) /\ Visits(This, t, D)
      BY <1>2, <1>4, <1>7, <2>1
    <3>2. src.file \in Names /\ (dst.file # NoName => dst.file \in Names) /\ p.type # TYPE_DIR
      <4>1. src.file # NoName /\ j \in Slots /\ t.cwd.entries[j].name = src.file /\ p = t.cwd.entries[j]
        BY <1>12, <2>1, <2>4
      <4> QED
        BY <2>18, <3>1, <4>1, LocalSource
    <3>3. m.name = name
      <4>1. m = [p EXCEPT !.name = name]
        BY <2>1
      <4> HIDE DEF name
      <4> QED
        BY <2>7, <4>1 DEF EntryType
    <3>4. Nested(D, DirsOf(s, D))
      BY <1>3, <2>18, TreeFacts DEF Nest
    <3>5. src.dir = HomePath(s)
      BY <1>1, <1>2, <1>12, <2>18, <3>1, LocalChange
    <3>6. Rooted(there.s, D) /\ SameFolders(s, D, there.s)
      BY <1>7, VisitsKeep DEF SameFolders
    <3>7. b = s.cwd.blk
      <4>1. here = change_cwd(there.s, src.dir) /\ here.ok /\ b = here.s.cwd.blk
        BY <1>6, <1>12, <2>1, Zenon
      <4> QED
        BY <1>7, <3>4, <3>5, <3>6, <4>1, HomeAgain
    <3> QED
      BY <2>8, <3>2, <3>3, <3>4, <3>7
  <2>14. GoodNest(v.fat, D, E1)
    <3>1. TreeGood(v.fat, D, E1)
      BY <1>3, <2>7, <2>12
    <3>2. Nest(D, E1)
      <4>1. DirsGood(D, E) /\ Nest(D, E)
        BY <1>3, TreeFacts DEF E, TreeGood
      <4>2. ZeroEntry \in EntryType /\ ZeroEntry.type # TYPE_DIR /\ ZeroEntry.first_blk = FAT_FREE
        BY ZeroTypes DEF ZeroEntry, Entry, TYPE_DIR, TYPE_FILE, FAT_FREE
      <4>3. LocalUse => E[b][j].type # TYPE_DIR
        BY <2>6, <2>18
      <4>4. (\A d \in D \ {b} : E1[d] = E[d]) /\ E1[b] = [E[b] EXCEPT ![j] = ZeroEntry]
        BY <2>6
      <4> QED
        BY <2>2, <2>4, <4>1, <4>2, <4>3, <4>4, NestPut
    <3> QED
      BY <3>1, <3>2 DEF GoodNest
  <2>19. ASSUME LocalUse, z.ok PROVE v.cwd.blk = there.s.cwd.blk
    <3>1. CASE dst.dir = EmptyPath /\ v.cwd.blk = b
      BY <1>6, <2>18, <2>19, <3>1 DEF change_cwd
    <3>2. CASE \E y : Rooted(y, D) /\ DirsOf(y, D) = E1 /\ y.cwd.blk = b /\ z = change_cwd(y, dst.dir)
      <4>1. PICK y : Rooted(y, D) /\ DirsOf(y, D) = E1 /\ y.cwd.blk = b /\ z = change_cwd(y, dst.dir)
        BY <3>2
      <4>2. SameFolders(s, D, y)
        <5>1. \A d \in D : DirIn(y, d) = E1[d] /\ DirIn(s, d) = E[d]
          BY <4>1 DEF DirsOf, E
        <5>2. E[b] \in DirType /\ ZeroEntry.type # TYPE_DIR
          BY <2>2, <2>3 DEF E, DirsOf, ZeroEntry, Entry, TYPE_DIR, TYPE_FILE
        <5>3. \A k \in Slots : E1[b][k] = E[b][k] \/ E1[b][k] = ZeroEntry
          BY <2>6, <5>2 DEF DirType
        <5>4. \A d \in D, k \in Slots : E1[d][k] = E[d][k] \/ E1[d][k] = ZeroEntry
          BY <2>6, <5>3
        <5> QED
          BY <5>1, <5>2, <5>4 DEF SameFolders
      <4>3. Nested(D, DirsOf(s, D)) /\ y.cwd.blk = s.cwd.blk
        BY <2>18, <2>19, <4>1
      <4>4. there = change_cwd(s, dst.dir) /\ there.ok /\ dst.dir \in PathType /\ Rooted(s, D)
        BY <1>5, <1>6, <1>7, <1>12, Zenon
      <4>5. z.s.cwd.blk = there.s.cwd.blk
        BY <2>19, <4>1, <4>2, <4>3, <4>4, MvMeets
      <4> QED
        BY <2>17, <4>5
    <3> QED
      BY <2>12, <3>1, <3>2
  <2>20. ASSUME z.ok PROVE FitsFile(E1[v.cwd.blk], n, m)
    <3> SUFFICES ASSUME LocalUse
                 PROVE  E1[v.cwd.blk][n].type # TYPE_DIR /\ m.type # TYPE_DIR /\ Fits(E1[v.cwd.blk], n, m)
      BY DEF FitsFile
    <3>1. PICK d \in D : d = v.cwd.blk /\ d = there.s.cwd.blk /\ E[d] = there.s.cwd.entries
      BY <1>7, <2>12, <2>19, <2>20 DEF Visits, E, DirsOf
    <3>2. E[d][n].first_blk = FAT_FREE /\ \A k \in Slots : E[d][k].name # name
      <4>1. n = free_slot(there.s) /\ n # None /\ lookup(there.s, name) = None
        BY <1>12, <2>1
      <4> QED
        BY <2>2, <3>1, <4>1, SearchGood
    <3>3. DirGood(D, E[d]) /\ E[d] \in DirType
      BY <2>3, <3>1 DEF TreeGood, DirsGood, E, DirGood
    <3>4. E[d][n].type # TYPE_DIR
      BY <2>4, <3>2, <3>3 DEF DirGood
    <3>5. \A k \in Slots : E1[d][k] = E[d][k] \/ E1[d][k] = ZeroEntry
      <4>1. d = b => E1[d] = [E[d] EXCEPT ![j] = ZeroEntry]
        BY <2>6
      <4>2. d # b => E1[d] = E[d]
        BY <2>6, <3>1
      <4> QED
        BY <3>3, <4>1, <4>2 DEF DirType
    <3>6. ZeroEntry.type # TYPE_DIR /\ ZeroEntry.name = NoName /\ NoName \notin Names
      BY NamesAssumption DEF ZeroEntry, Entry, TYPE_DIR, TYPE_FILE
    <3>7. m.name = name /\ name \in Names /\ m.type # TYPE_DIR
      BY <2>18
    <3> HIDE DEF name
    <3> QED
      BY <2>4, <3>1, <3>2, <3>4, <3>5, <3>6, <3>7 DEF Fits
  <2>15. CASE ~z.ok
    <3>1. Home(s, exit_method(v, q, FALSE))
      <4>1. \A d \in D : d # s.cwd.blk => AsDir(v.disk[d]) = E1[d]
        BY <2>12, <2>15
      <4> QED
        <5>1. Astray(s, D, v, E1, q)
          BY <2>12, <2>13, <2>14, <4>1 DEF Astray
        <5> QED
          BY <1>3, <5>1, MvLoses
    <3> QED
      BY <1>2, <1>12, <2>1, <2>15, <2>17, <3>1 DEF Arrives
  <2>16. CASE z.ok
    <3>1. PICK u : u = put(v, n, m)
      OBVIOUS
    <3>2. Home(s, exit_method(u, q, TRUE))
      <4>1. OnTheWay(s, D, v, E1, q)
        BY <2>9, <2>12, <2>13, <2>14, <2>16 DEF OnTheWay
      <4>2. MayHold(v.fat, D, E1, m)
        BY <1>3, <2>7, <2>8, <2>12 DEF MayHold
      <4> QED
        BY <1>3, <2>4, <2>16, <2>20, <3>1, <4>1, <4>2, MvFills
    <3> QED
      BY <1>2, <1>12, <2>1, <2>16, <2>17, <3>1, <3>2, Zenon DEF Arrives
  <2> QED
    BY <2>15, <2>16
<1> QED
  BY <1>8, <1>9, <1>10, <1>11, <1>12

(* A directory in which only rights and sizes have changed. *)
SameBlocks(e, g) ==
  /\ g \in DirType
  /\ \A k \in Slots : /\ g[k].name = e[k].name /\ g[k].first_blk = e[k].first_blk
                      /\ g[k].type = e[k].type /\ g[k].size \in {e[k].size} \cup FileSizes

(* They say nothing about who owns a block. *)
LEMMA SameBlocksGood ==
  ASSUME NEW f, NEW D, NEW E, TreeGood(f, D, E), NEW F, \A d \in D : SameBlocks(E[d], F[d])
  PROVE  TreeGood(f, D, F)
<1>1. DirsGood(D, F)
  <2>1. \A d \in D : DirGood(D, E[d])
    BY DEF TreeGood, DirsGood
  <2>2. \A d \in D : DirGood(D, F[d])
    BY <2>1, Numbers, SMTT(40) DEF DirGood, SameBlocks
  <2> QED
    BY <2>2 DEF TreeGood, DirsGood
<1>2. \A x \in SlotsIn(D) : x[1] \in D /\ x[2] \in Slots /\ x = <<x[1], x[2]>>
  BY DEF SlotsIn
<1>3. \A x \in SlotsIn(D) : F[x[1]][x[2]].first_blk = E[x[1]][x[2]].first_blk
  BY <1>2 DEF SameBlocks
<1>4. Held(D, F) \subseteq Held(D, E) /\ \A x \in Held(D, F) : Heads(D, F)[x] = Heads(D, E)[x]
  BY <1>3 DEF Held, Heads
<1>5. TableGood(f, Held(D, F), Heads(D, F))
  <2>1. TableGood(f, Held(D, E), Heads(D, E))
    BY DEF TreeGood
  <2> QED
    BY <1>4, <2>1, FewerHeads
<1> QED
  BY <1>1, <1>5 DEF TreeGood

(* Nothing but the rights changes when they are set, *)
LEMMA RightsSet ==
  ASSUME NEW e \in DirType, NEW i \in Slots, NEW level \in SUBSET Rights
  PROVE  /\ SameBlocks(e, e) /\ SameBlocks(e, [e EXCEPT ![i].rights = level])
         /\ SameBlocks(e, [e EXCEPT ![i] = [e[i] EXCEPT !.rights = level]])
<1>1. e[i] \in EntryType
  BY DEF DirType
<1> DEFINE n == [e[i] EXCEPT !.rights = level]
<1>2. n \in EntryType /\ n.name = e[i].name /\ n.first_blk = e[i].first_blk /\ n.type = e[i].type /\ n.size = e[i].size
  BY <1>1 DEF EntryType
<1> HIDE DEF n
<1>3. [e EXCEPT ![i] = n] \in DirType /\ SameBlocks(e, [e EXCEPT ![i] = n])
  BY <1>2 DEF DirType, SameBlocks
<1>4. [e EXCEPT ![i].rights = level] = [e EXCEPT ![i] = n]
  BY DEF n
<1>5. SameBlocks(e, e)
  BY DEF SameBlocks
<1> QED
  BY <1>3, <1>4, <1>5 DEF n

(* nor about who lists whom, *)
LEMMA SameBlocksNested ==
  ASSUME NEW D, NEW E, DirsGood(D, E), Nest(D, E), NEW F, \A d \in D : SameBlocks(E[d], F[d])
  PROVE  Nest(D, F)
<1> SUFFICES ASSUME LocalUse PROVE Nested(D, F)
  BY DEF Nest
<1>1. Nested(D, E) /\ 0 \in Slots
  BY Numbers DEF Nest
<1>2. ASSUME NEW b \in D
      PROVE  Named(F[b]) /\ Up(F, b) = Up(E, b) /\ \A d \in D : Lists(F[b], d) <=> Lists(E[b], d)
  <2>1. Named(E[b])
    BY <1>1 DEF Nested
  <2>2. \A k \in Slots : F[b][k].name = E[b][k].name /\ F[b][k].first_blk = E[b][k].first_blk /\ F[b][k].type = E[b][k].type
    BY DEF SameBlocks
  <2>3. Named(F[b])
    BY <1>1, <2>1, <2>2 DEF Named
  <2> QED
    BY <1>1, <2>2, <2>3 DEF Up, Lists
<1> QED
  BY <1>1, <1>2, NestedSame

(* and chmod comes back to the same tree with other rights in it.          *)
LEMMA ComesBackSame ==
  ASSUME NEW s, NEW D, Tree(s, D), NEW u \in StateType, u.fat = s.fat, NEW backup \in CwdType, backup.blk = s.cwd.blk,
         \A x \in D : SameBlocks(DirIn(s, x), After(u, backup, TRUE, x)),
         s.cwd.blk = ROOT_BLOCK \/ (u.root = AsDir(u.disk[ROOT_BLOCK]) /\ u.cwd.blk # ROOT_BLOCK)
  PROVE  Home(s, exit_method(u, backup, TRUE))
<1>1. s.cwd.blk \in D /\ TreeGood(s.fat, D, DirsOf(s, D)) /\ Nest(D, DirsOf(s, D))
  BY TreeFacts
<1>2. PICK q, S, G : q = backup /\ S = TRUE /\ G = [x \in D |-> After(u, backup, S, x)]
  OBVIOUS
<1>3. GoodNest(u.fat, D, G)
  <2>1. \A x \in D : SameBlocks(DirsOf(s, D)[x], G[x])
    BY <1>2 DEF DirsOf
  <2>2. TreeGood(u.fat, D, G)
    BY <1>1, <2>1, SameBlocksGood
  <2>3. DirsGood(D, DirsOf(s, D))
    BY <1>1 DEF TreeGood
  <2>4. Nest(D, G)
    BY <1>1, <2>1, <2>3, SameBlocksNested
  <2> QED
    BY <2>2, <2>4 DEF GoodNest
<1>4. Leaves(s, u, q, S, D, G)
  BY <1>1, <1>2, <1>3 DEF Leaves
<1>5. Home(s, exit_method(u, q, S))
  BY <1>4, LeavesGood
<1> QED
  BY <1>2, <1>5

(* The directory that chmod goes back to may have been told. *)
LEMMA ChmodBackup ==
  ASSUME NEW s, NEW D, Tree(s, D), NEW level \in SUBSET Rights,
         NEW backup, backup \in {s.cwd, [s.cwd EXCEPT !.entries[0].rights = level]}
  PROVE  backup \in CwdType /\ backup.blk = s.cwd.blk /\ SameBlocks(s.cwd.entries, backup.entries)
<1>1. s.cwd \in CwdType /\ s.cwd.entries \in DirType /\ 0 \in Slots
  BY TreeFacts, Numbers DEF CwdType
<1>2. CASE backup = s.cwd
  BY <1>1, <1>2, RightsSet
<1>3. CASE backup = [s.cwd EXCEPT !.entries[0].rights = level]
  <2>1. PICK e : e = [s.cwd.entries EXCEPT ![0].rights = level]
    OBVIOUS
  <2>2. SameBlocks(s.cwd.entries, e)
    BY <1>1, <2>1, RightsSet
  <2>3. backup = [s.cwd EXCEPT !.entries = e]
    BY <1>3, <2>1
  <2> QED
    BY <1>1, <2>2, <2>3 DEF SameBlocks, CwdType
<1> QED
  BY <1>2, <1>3

(* chmod in the directory at: the entry in slot i gets its rights, the     *)
(* sub-directories in subs are told.                                       *)
Tells(at, i, level, subs, u) ==
  /\ u \in StateType /\ u.fat = at.fat /\ u.root = at.root /\ u.cwd.blk = at.cwd.blk
  /\ u.cwd.entries = [at.cwd.entries EXCEPT ![i] = [at.cwd.entries[i] EXCEPT !.rights = level]]
  /\ \A x \in Blocks : u.disk[x] = IF x \in subs THEN InDir([AsDir(at.disk[x]) EXCEPT ![0].rights = level])
                                    ELSE at.disk[x]

(* Only rights change by that. *)
LEMMA ChmodTells ==
  ASSUME NEW s, NEW D, Tree(s, D), NEW at, Visits(s, at, D), NEW i \in Slots, NEW level \in SUBSET Rights,
         s.cwd.blk = ROOT_BLOCK \/ at.cwd.blk # ROOT_BLOCK,
         NEW subs, subs \subseteq D \ {ROOT_BLOCK}, NEW u, Tells(at, i, level, subs, u),
         NEW backup \in CwdType, backup.blk = s.cwd.blk, SameBlocks(s.cwd.entries, backup.entries)
  PROVE  Home(s, exit_method(u, backup, TRUE))
<1>0. /\ u \in StateType /\ u.fat = at.fat /\ u.root = at.root /\ u.cwd.blk = at.cwd.blk
      /\ u.cwd.entries = [at.cwd.entries EXCEPT ![i] = [at.cwd.entries[i] EXCEPT !.rights = level]]
      /\ \A x \in Blocks : u.disk[x] = IF x \in subs THEN InDir([AsDir(at.disk[x]) EXCEPT ![0].rights = level])
                                        ELSE at.disk[x]
  BY DEF Tells
<1>1. /\ s \in StateType /\ s.cwd \in CwdType /\ s.cwd.blk \in D /\ D \subseteq Blocks /\ ROOT_BLOCK \in D
      /\ at \in StateType /\ at.cwd.blk \in D /\ 0 \in Slots /\ s.cwd.entries \in DirType
  BY TreeFacts, Numbers DEF Visits, CwdType
<1>3. SameBlocks(DirIn(s, at.cwd.blk), u.cwd.entries)
  <2>1. at.cwd.entries \in DirType /\ at.cwd.entries = DirIn(s, at.cwd.blk)
    BY <1>1 DEF Visits, StateType, CwdType
  <2> QED
    <3>1. PICK g : g = at.cwd.entries
      OBVIOUS
    <3>2. SameBlocks(g, [g EXCEPT ![i] = [g[i] EXCEPT !.rights = level]])
      BY <2>1, <3>1, RightsSet
    <3>3. u.cwd.entries = [g EXCEPT ![i] = [g[i] EXCEPT !.rights = level]]
      BY <1>0, <3>1
    <3> QED
      BY <2>1, <3>1, <3>2, <3>3
<1>4. ASSUME NEW x \in D, x # s.cwd.blk PROVE SameBlocks(DirIn(s, x), AsDir(u.disk[x]))
  <2>1. PICK e : e = AsDir(at.disk[x])
    OBVIOUS
  <2>2. e = DirIn(s, x) /\ e \in DirType
    <3>1. at.disk[x] \in BlockType
      BY <1>1 DEF StateType, DiskType
    <3> QED
      BY <1>4, <2>1, <3>1, ReadingTypes DEF Visits, DirIn
  <2>3. SameBlocks(e, e) /\ SameBlocks(e, [e EXCEPT ![0].rights = level])
    BY <1>1, <2>2, RightsSet
  <2>4. AsDir(u.disk[x]) = IF x \in subs THEN [e EXCEPT ![0].rights = level] ELSE e
    <3>1. PICK g : g = [e EXCEPT ![0].rights = level]
      OBVIOUS
    <3>2. AsDir(InDir(g)) = g
      BY DEF AsDir, InDir
    <3> QED
      BY <1>0, <1>1, <2>1, <3>1, <3>2
  <2> QED
    BY <2>2, <2>3, <2>4
<1>5. \A x \in D : SameBlocks(DirIn(s, x), After(u, backup, TRUE, x))
  BY <1>0, <1>1, <1>3, <1>4 DEF After, DirIn
<1>6. s.cwd.blk = ROOT_BLOCK \/ (u.root = AsDir(u.disk[ROOT_BLOCK]) /\ u.cwd.blk # ROOT_BLOCK)
  <2>1. s.root = DirIn(s, ROOT_BLOCK)
    BY DEF Tree, Rooted
  <2> QED
    BY <1>0, <1>1, <2>1 DEF Visits, DirIn
<1>7. u.fat = s.fat
  BY <1>0 DEF Visits
<1> QED
  BY <1>0, <1>5, <1>6, <1>7, ComesBackSame

(* chmod of a directory itself goes to the one that it is in. *)
SparesRights(path) ==
  IF get_filename_parts(This, path).file # NoName THEN Spares(get_filename_parts(This, path).dir)
  ELSE Spares(Path(path.abs, Append(Front(path.comps), NoName)))

(* chmod. *)
LEMMA ChmodArrives ==
  ASSUME NEW D, Tree(This, D), NEW c \in Commands, c.cmd = "chmod", chmod(c),
         SparesRights(c.path)
  PROVE  Arrives
<1>1. c.path \in PathType /\ c.level \in SUBSET Rights
  BY CommandsAssumption
<1>2. PICK s : s = This
  OBVIOUS
<1>3. Tree(s, D) /\ s \in StateType /\ SyncRoot(This) = s /\ s.cwd = cwd
  BY <1>2, Begins
<1> DEFINE upto == Path(c.path.abs, Append(Front(c.path.comps), NoName))
<1>4. PICK parts : parts = get_filename_parts(s, c.path)
  OBVIOUS
<1>5. PICK p : p = IF parts.file # NoName THEN parts.dir ELSE upto
  OBVIOUS
<1>6. p \in PathType
  <2>1. parts.dir \in PathType
    BY <1>1, <1>3, <1>4, PartsType
  <2>2. upto \in PathType
    BY <1>1, UptoType
  <2> QED
    BY <1>5, <2>1, <2>2
<1>7. PICK at : at = change_cwd(s, p).s /\ chmod_returns(c, parts, at)
  BY <1>3, <1>4, <1>5, Zenon DEF chmod
<1>8. Rooted(s, D) /\ Visits(s, at, D)
  <2>1. Rooted(s, D) /\ Visits(s, s, D)
    BY <1>3, TreeFacts
  <2> QED
    BY <1>6, <1>7, <2>1, ChangeVisits
<1>9. s.cwd.blk = ROOT_BLOCK \/ at.cwd.blk # ROOT_BLOCK
  <2> SUFFICES ASSUME s.cwd.blk # ROOT_BLOCK PROVE at.cwd.blk # ROOT_BLOCK
    OBVIOUS
  <2>1. LeadsOff(p)
    BY <1>2, <1>3, <1>4, <1>5 DEF Spares, SparesRights
  <2>2. CASE change_cwd(s, p).ok
    BY <1>7, <1>8, <2>1, <2>2 DEF LeadsOff
  <2>3. CASE ~change_cwd(s, p).ok
    <3>1. Visits(s, s, D)
      BY <1>3, TreeFacts
    <3>2. at.cwd = s.cwd
      BY <1>7, <1>8, <2>3, <3>1, ChangeFails
    <3> QED
      BY <3>2
  <2> QED
    BY <2>2, <2>3
<1> DEFINE given == IF parts.file = NoName THEN Last(c.path.comps) ELSE parts.file
           i     == lookup(at, IF given = NoName /\ at.cwd.blk = ROOT_BLOCK THEN Parent ELSE given)
           entry == at.cwd.entries[i]
           own   == entry.first_blk = at.cwd.blk
           new   == put(at, i, [entry EXCEPT !.rights = c.level])
           set   == [new EXCEPT !.cwd.info.rights = IF own THEN c.level ELSE @]
           changed == IF own THEN set.cwd.entries ELSE AsDir(set.disk[entry.first_blk])
           subs  == IF entry.type # TYPE_DIR THEN {}
                    ELSE {changed[k].first_blk : k \in {k \in Slots \ {0} : changed[k].type = TYPE_DIR}}
           told  == [b \in Blocks |-> IF b \in subs THEN InDir([AsDir(set.disk[b]) EXCEPT ![0].rights = c.level])
                                      ELSE set.disk[b]]
           backup == IF subs # {} /\ cwd.blk # ROOT_BLOCK THEN [cwd EXCEPT !.entries[0].rights = c.level] ELSE cwd
           rest   == [set EXCEPT !.disk = told]
<1>10. \/ Becomes(exit_method(at, cwd, FALSE))
       \/ i # None /\ Becomes(exit_method(rest, backup, TRUE))
  BY <1>7, Zenon DEF chmod_returns
<1>11. CASE Becomes(exit_method(at, cwd, FALSE))
  BY <1>2, <1>3, <1>8, <1>11, QuietGood DEF Arrives
<1>12. CASE i # None /\ Becomes(exit_method(rest, backup, TRUE))
  <2> HIDE DEF i, entry, own, set, changed, subs, told, backup, rest
  <2>1. PICK j, e, S, u, q : j = i /\ e = entry /\ S = subs /\ u = rest /\ q = backup
    OBVIOUS
  <2>2. /\ at \in StateType /\ at.cwd.blk \in D /\ D \subseteq Blocks /\ at.cwd.entries \in DirType
        /\ at.cwd \in CwdType
    BY <1>3, <1>8, TreeFacts DEF Visits, StateType, CwdType
  <2>3. j \in Slots /\ e = at.cwd.entries[j] /\ e \in EntryType
    BY <1>12, <2>1, <2>2, SearchGood, EntryTypes DEF i, entry
  <2>4. PICK n, v, w : /\ n = [e EXCEPT !.rights = c.level] /\ v = put(at, j, n)
                       /\ w = set
    OBVIOUS
  <2>5. /\ v \in StateType /\ v.fat = at.fat /\ v.root = at.root /\ v.disk = at.disk /\ v.cwd.blk = at.cwd.blk
        /\ v.cwd.entries = [at.cwd.entries EXCEPT ![j] = n] /\ n \in EntryType /\ v.cwd.info \in EntryType
    <3>1. n \in EntryType
      BY <1>1, <2>3, <2>4 DEF EntryType
    <3>2. v \in StateType
      BY <2>2, <2>3, <2>4, <3>1, PutType
    <3> QED
      BY <2>2, <2>4, <3>1, <3>2 DEF put, StateType, CwdType
  <2>6. /\ w \in StateType /\ w.fat = at.fat /\ w.root = at.root /\ w.disk = at.disk /\ w.cwd.blk = at.cwd.blk
        /\ w.cwd.entries = v.cwd.entries
    <3>1. w = [v EXCEPT !.cwd.info.rights = IF own THEN c.level ELSE @]
      BY <2>1, <2>4 DEF set
    <3>2. PICK l : l = IF own THEN c.level ELSE v.cwd.info.rights
      OBVIOUS
    <3>3. w = [v EXCEPT !.cwd = [v.cwd EXCEPT !.info = [v.cwd.info EXCEPT !.rights = l]]] /\ l \in SUBSET Rights
      BY <1>1, <2>5, <3>1, <3>2 DEF EntryType
    <3>4. [v.cwd.info EXCEPT !.rights = l] \in EntryType
      BY <2>5, <3>3 DEF EntryType
    <3> QED
      BY <2>5, <3>3, <3>4 DEF StateType, CwdType
  <2>7. u = [w EXCEPT !.disk = [b \in Blocks |-> IF b \in S THEN InDir([AsDir(w.disk[b]) EXCEPT ![0].rights = c.level])
                                                 ELSE w.disk[b]]]
    BY <2>1, <2>4 DEF rest, told
  <2>8. S \subseteq D \ {ROOT_BLOCK}
    <3> DEFINE g == IF own THEN w.cwd.entries ELSE AsDir(w.disk[e.first_blk])
    <3>1. S = IF e.type # TYPE_DIR THEN {} ELSE {g[k].first_blk : k \in {k \in Slots \ {0} : g[k].type = TYPE_DIR}}
      BY <2>1, <2>4 DEF subs, changed
    <3>2. CASE e.type = TYPE_DIR
      <4>1. \A d \in D : DirGood(D, DirIn(s, d))
        BY <1>8 DEF Rooted, DirsGood, DirsOf
      <4>2. e.first_blk \in D
        BY <2>2, <2>3, <1>8, <3>2, <4>1 DEF DirGood, Visits
      <4>3. \A k \in Slots : g[k].first_blk = DirIn(s, e.first_blk)[k].first_blk /\ g[k].type = DirIn(s, e.first_blk)[k].type
        <5>1. CASE own
          <6>1. DirIn(s, e.first_blk) = at.cwd.entries
            BY <1>8, <2>1, <5>1 DEF Visits, own
          <6>2. \A k \in Slots : w.cwd.entries[k] = IF k = j THEN n ELSE at.cwd.entries[k]
            BY <2>2, <2>5, <2>6 DEF DirType
          <6>3. n.first_blk = e.first_blk /\ n.type = e.type
            BY <2>3, <2>4 DEF EntryType
          <6> QED
            BY <2>3, <5>1, <6>1, <6>2, <6>3
        <5>2. CASE ~own
          <6>1. e.first_blk # at.cwd.blk
            BY <2>1, <5>2 DEF own
          <6>2. AsDir(at.disk[e.first_blk]) = DirIn(s, e.first_blk)
            BY <1>8, <4>2, <6>1 DEF Visits, DirIn
          <6> QED
            BY <2>6, <5>2, <6>2
        <5> QED
          BY <5>1, <5>2
      <4> HIDE DEF g
      <4>4. \A k \in Slots \ {0} : g[k].type = TYPE_DIR => g[k].first_blk \in D /\ g[k].first_blk # FAT_FREE
        BY <4>1, <4>2, <4>3 DEF DirGood
      <4> QED
        BY <3>1, <4>4 DEF FAT_FREE, ROOT_BLOCK
    <3> QED
      BY <3>1, <3>2
  <2>9. Tells(at, j, c.level, S, u)
    <3>1. PICK d : d = [b \in Blocks |-> IF b \in S THEN InDir([AsDir(w.disk[b]) EXCEPT ![0].rights = c.level])
                                                 ELSE w.disk[b]]
      OBVIOUS
    <3>2. \A x \in Blocks : d[x] \in BlockType
      <4> SUFFICES ASSUME NEW x \in Blocks PROVE d[x] \in BlockType
        OBVIOUS
      <4>1. w.disk[x] \in BlockType
        BY <2>6 DEF StateType, DiskType
      <4>2. PICK o : o = AsDir(w.disk[x])
        OBVIOUS
      <4>3. o \in DirType
        BY <4>1, <4>2, ReadingTypes
      <4>4. [o EXCEPT ![0].rights = c.level] \in DirType
        BY <1>1, <4>3, Numbers DEF DirType, EntryType
      <4>5. InDir([o EXCEPT ![0].rights = c.level]) \in BlockType
        BY <4>4, WritingTypes
      <4> QED
        BY <3>1, <4>1, <4>2, <4>5
    <3>3. d \in DiskType
      BY <3>1, <3>2 DEF DiskType
    <3>4. u = [w EXCEPT !.disk = d]
      BY <2>7, <3>1
    <3>5. u \in StateType /\ u.fat = w.fat /\ u.root = w.root /\ u.cwd = w.cwd /\ u.disk = d
      BY <2>6, <3>3, <3>4 DEF StateType
    <3>6. \A x \in Blocks : u.disk[x] = IF x \in S THEN InDir([AsDir(at.disk[x]) EXCEPT ![0].rights = c.level])
                                        ELSE at.disk[x]
      BY <2>6, <3>1, <3>5
    <3> QED
      BY <2>3, <2>4, <2>5, <2>6, <3>5, <3>6 DEF Tells
  <2>10. q \in {s.cwd, [s.cwd EXCEPT !.entries[0].rights = c.level]}
    BY <1>3, <2>1 DEF backup
  <2>11. Home(s, exit_method(u, q, TRUE))
    <3>1. PICK l : l = c.level
      OBVIOUS
    <3>2. /\ Tree(s, D) /\ Visits(s, at, D) /\ j \in Slots /\ l \in SUBSET Rights
          /\ s.cwd.blk = ROOT_BLOCK \/ at.cwd.blk # ROOT_BLOCK
          /\ S \subseteq D \ {ROOT_BLOCK} /\ Tells(at, j, l, S, u)
          /\ q \in CwdType /\ q.blk = s.cwd.blk /\ SameBlocks(s.cwd.entries, q.entries)
      BY <1>1, <1>3, <1>8, <1>9, <2>3, <2>8, <2>9, <2>10, <3>1, ChmodBackup, SMTT(40)
    <3> QED
      BY <3>2, ChmodTells
  <2> QED
    BY <1>2, <1>12, <2>1, <2>11 DEF Arrives
<1> QED
  BY <1>10, <1>11, <1>12, Zenon

(* append is given files of the root by their names. *)
LEMMA StaysAtRoot ==
  ASSUME NEW t \in StateType, NEW path \in PathType, path.abs, \A k \in 1 .. Len(path.comps) : path.comps[k] = NoName
  PROVE  change_cwd(t, path).ok /\ change_cwd(t, path).s.cwd.blk = ROOT_BLOCK
<1> DEFINE n == Len(path.comps)
           u == Saved(t)
           w == Walk(u, path, {})
<1>1. u \in StateType /\ n \in Nat
  BY SavedType DEF PathType
<1> HIDE DEF u
<1>2. PICK a \in [0 .. n -> WalkState] :
           /\ a[0] = walk_from(u, path)
           /\ \A k \in 1 .. n : a[k] = walk_into(u, path.comps, {}, a[k - 1], k)
           /\ w = a[n]
  <2>1. {} \in {{}, {0}}
    OBVIOUS
  <2> QED
    BY <1>1, <2>1, WalkRuns
<1> DEFINE K == {k \in 0 .. n : a[k].ok /\ a[k].blk = ROOT_BLOCK /\ a[k].pos = 0}
<1>3. 0 \in K
  BY <1>1, <1>2 DEF walk_from
<1>4. ASSUME NEW k \in 1 .. n, k - 1 \in K PROVE k \in K
  <2>1. k \in 0 .. n /\ k - 1 \in 0 .. n /\ a[k - 1] \in WalkState /\ path.comps[k] = NoName
    <3>1. k \in 0 .. n /\ k - 1 \in 0 .. n
      BY <1>1
    <3> QED
      BY <1>2, <3>1
  <2>2. PICK v : v = a[k - 1]
    OBVIOUS
  <2>3. v \in WalkState /\ v.ok /\ v.blk = ROOT_BLOCK /\ v.pos = 0
    BY <1>4, <2>1, <2>2
  <2>4. CompLen(NoName) = 0
    BY DEF CompLen
  <2>5. a[k] = walk_into(u, path.comps, {}, v, k)
    BY <1>2, <2>2
  <2>6. walk_into(u, path.comps, {}, v, k) = [v EXCEPT !.pos = CompLen(NoName)]
    BY <2>1, <2>3, <2>4 DEF walk_into
  <2>7. a[k].ok /\ a[k].blk = ROOT_BLOCK /\ a[k].pos = 0
    BY <2>3, <2>4, <2>5, <2>6 DEF WalkState
  <2> QED
    BY <2>1, <2>7
<1>5. w.ok /\ w.blk = ROOT_BLOCK
  <2> HIDE DEF n, K, w
  <2>1. \A k \in 0 .. n : k \in K
    BY <1>1, <1>3, <1>4, EveryTurn
  <2>2. n \in K
    BY <1>1, <2>1
  <2> QED
    BY <1>2, <2>2 DEF K
<1>6. path # EmptyPath
  BY DEF EmptyPath, Path
<1>7. change_cwd(t, path) = IF ~w.ok THEN [ok |-> FALSE, s |-> u]
                            ELSE [ok |-> TRUE, s |-> [u EXCEPT !.cwd = [entries |-> w.dir, info |-> w.info, blk |-> w.blk]]]
  BY <1>6 DEF change_cwd, Saved, u
<1> HIDE DEF w
<1> QED
  BY <1>1, <1>5, <1>7 DEF StateType

(* In the root, such a name is the name of no directory if it is taken for *)
(* the name of a file, and the directory it is looked up in is the root.   *)
LEMMA NamesOneFile ==
  ASSUME NEW s \in StateType, s.cwd.blk = ROOT_BLOCK, s.root = s.cwd.entries,
         NEW path \in PathType, Len(path.comps) = 1,
         NEW parts, parts = get_filename_parts(s, path), parts.file # NoName
  PROVE  /\ \A j \in Slots : s.root[j].name = parts.file => s.root[j].type # TYPE_DIR
         /\ \A t \in StateType : change_cwd(t, parts.dir).ok /\ change_cwd(t, parts.dir).s.cwd.blk = ROOT_BLOCK
<1> DEFINE prefix == Append(Front(path.comps), NoName)
           comps  == IF path.abs THEN prefix ELSE pwd_comps(s) \o prefix
           name   == path.comps[1]
<1>1. path.comps \in Seq(Words) /\ path.comps # <<>> /\ path.abs \in BOOLEAN /\ name \in Words
  BY DEF PathType
<1>2. ~find_dir_from_path(s, path) /\ parts.file = Last(path.comps) /\ parts.dir = Path(TRUE, comps)
  BY DEF get_filename_parts
<1>3. parts.file = name
  BY <1>1, <1>2 DEF Last
<1>4. ~Walk(s, path, {0}).ok
  BY <1>2 DEF find_dir_from_path
<1>5. PICK a \in [0 .. Len(path.comps) -> WalkState] :
           /\ a[0] = walk_from(s, path)
           /\ \A k \in 1 .. Len(path.comps) : a[k] = walk_into(s, path.comps, {0}, a[k - 1], k)
           /\ Walk(s, path, {0}) = a[Len(path.comps)]
  <2>1. {0} \in {{}, {0}}
    OBVIOUS
  <2> QED
    BY <2>1, WalkRuns
<1>6. PICK w : w = walk_from(s, path)
  OBVIOUS
<1>7. ~walk_into(s, path.comps, {0}, w, 1).ok
  BY <1>4, <1>5, <1>6
<1>8. w.ok /\ w.dir = s.root
  BY <1>6 DEF walk_from
<1> DEFINE found == {j \in Slots : w.dir[j].name = name /\ w.dir[j].type = TYPE_DIR}
<1>9. found = {}
  <2> DEFINE any == IF name = NoName THEN {0} ELSE found
             e == w.dir[First(any)]
             missed == 1 < Len(path.comps) /\ CompLen(name) < w.pos
             into == [ok |-> TRUE, blk |-> e.first_blk, info |-> e, dir |-> AsDir(s.disk[e.first_blk]), pos |-> CompLen(name)]
             v == walk_into(s, path.comps, {0}, w, 1)
  <2>1. v = IF ~w.ok \/ missed \/ (name # NoName /\ any = {}) THEN [w EXCEPT !.ok = FALSE]
            ELSE IF any = {} THEN [w EXCEPT !.pos = CompLen(name)] ELSE into
    BY DEF walk_into
  <2>2. ~v.ok /\ ~missed /\ any = found
    BY <1>2, <1>3, <1>7
  <2>3. into.ok
    OBVIOUS
  <2> HIDE DEF any, missed, into, v, found
  <2> QED
    BY <1>8, <2>1, <2>2, <2>3
<1>10. \A j \in Slots : s.root[j].name = parts.file => s.root[j].type # TYPE_DIR
  BY <1>3, <1>8, <1>9
<1>11. comps \in Seq(Words) \ {<<>>} /\ \A k \in 1 .. Len(comps) : comps[k] = NoName
  <2>1. Front(path.comps) = <<>>
    BY <1>1 DEF Front
  <2>2. prefix = <<NoName>>
    BY <2>1
  <2> HIDE DEF prefix
  <2>3. pwd_comps(s) = <<NoName>>
    BY DEF pwd_comps
  <2>4. <<NoName>> \in Seq(Words)
    BY WordsAreText
  <2>5. /\ <<NoName>> \o <<NoName>> \in Seq(Words) /\ Len(<<NoName>> \o <<NoName>>) = 2
        /\ \A k \in 1 .. 2 : (<<NoName>> \o <<NoName>>)[k] = NoName
    BY <2>4
  <2> QED
    BY <2>2, <2>3, <2>4, <2>5
<1> HIDE DEF comps
<1>12. parts.dir \in PathType /\ parts.dir.abs /\ parts.dir.comps = comps
  BY <1>2, <1>11 DEF Path, PathType
<1>13. \A t \in StateType : change_cwd(t, parts.dir).ok /\ change_cwd(t, parts.dir).s.cwd.blk = ROOT_BLOCK
  BY <1>11, <1>12, StaysAtRoot
<1> QED
  BY <1>10, <1>13

(* The entry of a file in the root that is found by its name. *)
LEMMA FileEntry ==
  ASSUME NEW D, NEW e, DirGood(D, e), NEW j \in Slots, e[j].name # NoName, e[j].type # TYPE_DIR
  PROVE  /\ j \in Slots \ {0} /\ e[j] \in EntryType /\ e[j].type = TYPE_FILE /\ e[j].first_blk # FAT_FREE
         /\ e[j].first_blk \notin D /\ e[j].size \in FileSizes
<1>1. e[j] \in EntryType /\ e[j].type = TYPE_FILE
  <2>1. e[j] \in EntryType
    BY DEF DirGood, DirType
  <2> QED
    BY <2>1 DEF EntryType
<1>2. j # 0
  BY DEF DirGood
<1> QED
  BY <1>1, <1>2 DEF DirGood

(* append writes to the last block of a file, whose entry is in slot j of  *)
(* the root, and has its size changed in memory.                           *)
LEMMA AppendWrites ==
  ASSUME NEW s, NEW D, Tree(s, D), s.cwd.blk = ROOT_BLOCK, NEW t, Visits(s, t, D), t.cwd.blk = ROOT_BLOCK,
         NEW j \in Slots \ {0}, NEW e, e = t.cwd.entries[j], e.type = TYPE_FILE, e.name # NoName,
         NEW size \in FileSizes, size \in 0 .. MaxSize,
         NEW z, z = put(t, j, [e EXCEPT !.size = size]),
         NEW last, last = last_block(s.fat, e.first_blk), NEW data \in Text,
         NEW w, w = write_data(z, last, data)
  PROVE  w.ok \in BOOLEAN /\ Home(s, exit_method(w.s, s.cwd, w.ok))
<1> DEFINE E == DirsOf(s, D)
<1>1. /\ s \in StateType /\ s.cwd \in CwdType /\ D \subseteq Blocks /\ ROOT_BLOCK \in D /\ s.fat \in FatType
      /\ TreeGood(s.fat, D, E) /\ Rooted(s, D)
  BY TreeFacts
<1>2. /\ t \in StateType /\ t.fat = s.fat /\ t.root = s.root /\ t.cwd.entries = E[ROOT_BLOCK]
      /\ E[ROOT_BLOCK] \in DirType /\ DirGood(D, E[ROOT_BLOCK])
  BY <1>1 DEF Visits, DirsOf, TreeGood, DirsGood, DirGood
<1>3. e = E[ROOT_BLOCK][j] /\ e \in EntryType /\ e.first_blk # FAT_FREE /\ e.first_blk \notin D
  <2>1. E[ROOT_BLOCK][j].type # TYPE_DIR
    BY <1>2 DEF TYPE_FILE, TYPE_DIR
  <2> HIDE DEF E
  <2> QED
    BY <1>2, <2>1, FileEntry
<1> DEFINE n == [e EXCEPT !.size = size]
<1>4. n \in EntryType /\ n.name = e.name /\ n.first_blk = e.first_blk /\ n.type = e.type /\ n.size = size
  BY <1>3 DEF EntryType
<1> HIDE DEF n
<1>5. /\ z \in StateType /\ z.fat = s.fat /\ z.root = t.root /\ z.disk = t.disk /\ z.cwd.blk = ROOT_BLOCK
      /\ z.cwd.entries = [E[ROOT_BLOCK] EXCEPT ![j] = n]
  <2>1. z = put(t, j, n)
    BY DEF n
  <2>2. z \in StateType
    BY <1>2, <1>4, <2>1, PutType
  <2> HIDE DEF E
  <2> QED
    BY <1>2, <2>1, <2>2 DEF put, StateType, CwdType
<1> DEFINE H == Held(D, E)
           h == Heads(D, E)
<1>6. Owned(s.fat, last) /\ last \notin D
  <2> DEFINE x == <<ROOT_BLOCK, j>>
  <2>1. x \in H /\ h[x] = e.first_blk
    BY <1>1, <1>3 DEF Held, Heads, SlotsIn
  <2>2. TableGood(s.fat, H, h) /\ \A b \in Blocks : s.fat[b] \in D => s.fat[b] = FAT_FREE
    BY <1>1 DEF TreeGood
  <2> HIDE DEF H, h, x
  <2>3. h[x] \notin D
    BY <1>3, <2>1
  <2>4. Owned(s.fat, last_block(s.fat, h[x])) /\ last_block(s.fat, h[x]) \notin D
    BY <1>1, <2>1, <2>2, <2>3, LastGood
  <2> QED
    BY <2>1, <2>4
<1>7. w \in WriteState /\ Writes(z, H, h, last, w.s)
  <2>1. last \in Blocks \ {ROOT_BLOCK, FAT_BLOCK} /\ TableGood(z.fat, H, h)
    BY <1>1, <1>5, <1>6 DEF TreeGood, Owned
  <2> HIDE DEF H, h
  <2>2. Writes(z, H, h, last, write_data(z, last, data).s)
    BY <1>5, <2>1, WriteGood
  <2>3. w \in WriteState
    BY <1>5, <2>1, WriteDataType
  <2> QED
    BY <2>2, <2>3
<1>8. PICK u : u = w.s
  OBVIOUS
<1>9. /\ u \in StateType /\ u.root = t.root /\ u.cwd = z.cwd /\ TreeGood(u.fat, D, E)
      /\ \A b \in D : u.disk[b] = t.disk[b]
  <2>1. u \in StateType /\ WritesOnly(z, u, last)
    BY <1>7, <1>8, Zenon DEF WriteState, Writes
  <2>2. TreeGood(u.fat, D, E)
    <3>1. /\ z \in StateType /\ u \in StateType /\ TreeGood(z.fat, D, E) /\ last \notin D
          /\ last \in Blocks \ {ROOT_BLOCK, FAT_BLOCK} /\ Writes(z, Held(D, E), Heads(D, E), last, u)
      BY <1>1, <1>5, <1>6, <1>7, <1>8, <2>1, Zenon DEF Owned
    <3> HIDE DEF E
    <3> QED
      BY <3>1, WriteKeepsTree
  <2>3. \A b \in D : s.fat[b] # FAT_FREE
    BY <1>1 DEF TreeGood
  <2>4. u.root = t.root /\ u.cwd = z.cwd
    BY <1>5, <2>1, Zenon DEF WritesOnly
  <2>5. ASSUME NEW b \in D PROVE u.disk[b] = t.disk[b]
    <3>1. b \in Blocks \ {last} /\ z.fat[b] # FAT_FREE
      BY <1>1, <1>5, <1>6, <2>3
    <3>2. \A x \in Blocks \ {last} : z.fat[x] # FAT_FREE => u.disk[x] = z.disk[x]
      BY <2>1, Zenon DEF WritesOnly
    <3> QED
      BY <1>5, <3>1, <3>2, ZenonT(40)
  <2> QED
    BY <2>1, <2>2, <2>4, <2>5
<1>10. GoodNest(u.fat, D, Edited(s, D, t.cwd.blk, u.cwd.entries))
  <2> DEFINE F == Edited(s, D, t.cwd.blk, u.cwd.entries)
  <2>1. \A d \in D : E[d] \in DirType
    BY <1>1 DEF TreeGood, DirsGood, DirGood
  <2>2. \A d \in D : F[d] = IF d = ROOT_BLOCK THEN [E[ROOT_BLOCK] EXCEPT ![j] = n] ELSE E[d]
    BY <1>5, <1>9 DEF Edited, DirsOf
  <2>3. SameBlocks(E[ROOT_BLOCK], [E[ROOT_BLOCK] EXCEPT ![j] = n])
    <3> HIDE DEF E
    <3> QED
      BY <1>2, <1>3, <1>4 DEF SameBlocks, DirType
  <2>4. \A d \in D : SameBlocks(E[d], F[d])
    <3> HIDE DEF E, F
    <3> QED
      BY <2>1, <2>2, <2>3, ZenonT(40) DEF SameBlocks
  <2> HIDE DEF E, F
  <2>5. TreeGood(u.fat, D, F)
    BY <1>9, <2>4, SameBlocksGood
  <2>6. DirsGood(D, E) /\ Nest(D, E)
    BY <1>1, TreeFacts DEF E, TreeGood
  <2>7. Nest(D, F)
    BY <2>4, <2>6, SameBlocksNested
  <2> QED
    BY <2>5, <2>7 DEF F, GoodNest
<1>11. w.ok \in BOOLEAN
  BY <1>7 DEF WriteState
<1>12. Visits(s, t, D) /\ Rooted(s, D) /\ u.cwd.blk = t.cwd.blk /\ u.cwd.blk \in D
  BY <1>1, <1>5, <1>9
<1>13. Home(s, exit_method(u, s.cwd, TRUE))
  <2> HIDE DEF E
  <2> QED
    BY <1>9, <1>10, <1>12, GoesBackSaved, ZenonT(40)
<1>14. Home(s, exit_method(u, s.cwd, FALSE))
  <2> DEFINE v == exit_method(u, s.cwd, FALSE)
  <2> HIDE DEF v
  <2>1. Returns(s, t, u, D, v)
    BY <1>9, <1>12, TreeFacts DEF GoodNest, Returns, v
  <2> HIDE DEF E
  <2>2. Tree(v, D)
    BY <2>1, GoesBack
  <2>3. v.cwd = s.cwd
    BY <2>1, GoesBack
  <2> QED
    BY <2>2, <2>3 DEF Home, v
<1> QED
  BY <1>8, <1>11, <1>13, <1>14

(* append, of files of the root. *)
LEMMA AppendArrives ==
  ASSUME NEW D, Tree(This, D), cwd.blk = ROOT_BLOCK, NeverFill(FileSizes), FileSizes \in SUBSET (0 .. MaxSize),
         NEW c \in Commands, c.cmd = "append", append(c), Len(c.src.comps) = 1, Len(c.dst.comps) = 1, Last(c.src.comps) # Last(c.dst.comps)
  PROVE  Arrives
<1>1. c.src \in PathType /\ c.dst \in PathType
  BY CommandsAssumption
<1>2. PICK s : s = This
  OBVIOUS
<1>3. Tree(s, D) /\ s \in StateType /\ SyncRoot(This) = s /\ s.fat = fat /\ s.cwd = cwd /\ s.cwd.blk = ROOT_BLOCK
  BY <1>2, Begins
<1>4. PICK src, dst : src = get_filename_parts(s, c.src) /\ dst = get_filename_parts(s, c.dst)
  OBVIOUS
<1>5. src.dir \in PathType /\ dst.dir \in PathType
  BY <1>1, <1>3, <1>4, PartsType
<1>6. PICK here, there : here = change_cwd(s, src.dir) /\ there = change_cwd(here.s, dst.dir) /\ append_returns(src, dst, here, there)
  BY <1>3, <1>4, ZenonT(60) DEF append
<1>7. Rooted(s, D) /\ Visits(s, there.s, D) /\ Visits(s, here.s, D) /\ (~here.ok => here.s.cwd.blk = s.cwd.blk)
  <2>1. Rooted(s, D) /\ Visits(s, s, D)
    BY <1>3, TreeFacts
  <2>2. Visits(s, here.s, D)
    BY <1>5, <1>6, <2>1, ChangeVisits
  <2>3. Visits(s, there.s, D)
    BY <1>5, <1>6, <2>1, <2>2, ChangeVisits
  <2>4. ~here.ok => here.s.cwd = s.cwd
    BY <1>6, <2>1, ChangeFails
  <2> QED
    BY <2>1, <2>2, <2>3, <2>4
<1> DEFINE i     == lookup(here.s, src.file)
           j     == lookup(there.s, dst.file)
           entries == there.s.cwd.entries
           size  == entries[i].size + entries[j].size - 1
           new   == [entries[j] EXCEPT !.size = size]
           sized == put(there.s, j, new)
           last  == last_block(fat, entries[j].first_blk)
           tail  == entries[j].size % BlockSize
           grown == sized.cwd.entries[i].size
           read  == strings_read(sized, entries[i].first_blk, grown)
           result(added) == write_data(sized, last, append_data(there.s, tail, last, added))
           overruns == tail = 0 \/ grown > entries[i].size
           writes  == NoName \notin {src.file, dst.file} /\ None \notin {i, j} /\ size \in 0 .. MaxSize
<1>8. \/ Becomes(SyncRoot(This))
      \/ ~here.ok /\ Becomes(here.s)
      \/ Becomes(exit_method(there.s, cwd, FALSE))
      \/ writes /\ \E added \in read : \E w \in {result(added)} :
                     \/ Becomes(exit_method(w.s, cwd, w.ok))
                     \/ overruns /\ \E t \in {there.s, w.s, exit_method(w.s, cwd, w.ok)} : Becomes(boot(t.disk))
  BY <1>6, Zenon DEF append_returns
<1>9. CASE Becomes(SyncRoot(This))
  <2>1. Visits(s, s, D)
    BY <1>3, TreeFacts
  <2> QED
    BY <1>2, <1>3, <1>9, <2>1, StopGood DEF Arrives
<1>10. CASE ~here.ok /\ Becomes(here.s)
  BY <1>2, <1>3, <1>7, <1>10, StopGood DEF Arrives
<1>11. CASE Becomes(exit_method(there.s, cwd, FALSE))
  BY <1>2, <1>3, <1>7, <1>11, QuietGood DEF Arrives
<1>12. ASSUME writes, NEW added, added \in read, NEW w, w = result(added)
       PROVE  ~overruns /\ w.ok \in BOOLEAN /\ Home(s, exit_method(w.s, cwd, w.ok))
  <2>1. /\ src.file # NoName /\ dst.file # NoName /\ i # None /\ j # None /\ size \in 0 .. MaxSize
         /\ added \in read /\ w = result(added)
    <3> HIDE DEF i, j, size, read, result
    <3> QED
      BY <1>12, Zenon
  <2> HIDE DEF read, result, overruns, writes
  <2>2. s.root = s.cwd.entries /\ DirGood(D, s.root) /\ s.fat \in FatType
    BY <1>3, <1>7 DEF Rooted, DirIn, DirsGood, DirsOf, StateType
  <2>3. /\ \A k \in Slots : s.root[k].name = src.file => s.root[k].type # TYPE_DIR
        /\ \A t \in StateType : change_cwd(t, src.dir).ok /\ change_cwd(t, src.dir).s.cwd.blk = ROOT_BLOCK
    BY <1>1, <1>3, <1>4, <2>1, <2>2, NamesOneFile
  <2>4. /\ \A k \in Slots : s.root[k].name = dst.file => s.root[k].type # TYPE_DIR
        /\ \A t \in StateType : change_cwd(t, dst.dir).ok /\ change_cwd(t, dst.dir).s.cwd.blk = ROOT_BLOCK
    BY <1>1, <1>3, <1>4, <2>1, <2>2, NamesOneFile
  <2>5. /\ here.s \in StateType /\ there.s \in StateType /\ there.s.cwd.blk = ROOT_BLOCK
        /\ here.s.cwd.entries = s.root /\ entries = s.root
    <3>1. PICK t, u : t = here.s /\ u = there.s
      OBVIOUS
    <3>2. /\ t \in StateType /\ t.cwd.entries = DirIn(s, t.cwd.blk) /\ s \in StateType /\ s.root = DirIn(s, ROOT_BLOCK)
          /\ u \in StateType /\ u.cwd.entries = DirIn(s, u.cwd.blk)
      BY <1>7, <3>1 DEF Visits, Rooted
    <3>3. t.cwd.blk = ROOT_BLOCK
      BY <1>6, <2>3, <3>1, <3>2
    <3>4. u.cwd.blk = ROOT_BLOCK
      BY <1>6, <2>4, <3>1, <3>2
    <3> QED
      BY <3>1, <3>2, <3>3, <3>4
  <2>6. /\ i \in Slots /\ s.root[i].name = src.file /\ s.root[i].type # TYPE_DIR
        /\ j \in Slots /\ s.root[j].name = dst.file /\ s.root[j].type # TYPE_DIR
    BY <2>1, <2>3, <2>4, <2>5, SearchGood
  <2>7. PICK t, k, l, e, g : t = there.s /\ k = j /\ l = i /\ e = s.root[j] /\ g = s.root[i]
    OBVIOUS
  <2>8. /\ k \in Slots \ {0} /\ e \in EntryType /\ e.type = TYPE_FILE /\ e.name # NoName /\ e.size \in FileSizes
        /\ l \in Slots /\ g \in EntryType /\ g.size \in FileSizes /\ e = entries[k] /\ g = entries[l]
        /\ e.first_blk \in Blocks /\ g.first_blk \in Blocks
    <3> HIDE DEF i, j
    <3>1. k \in Slots /\ l \in Slots /\ e = s.root[k] /\ g = s.root[l] /\ e.name # NoName /\ g.name # NoName
          /\ e.type # TYPE_DIR /\ g.type # TYPE_DIR
      BY <2>1, <2>6, <2>7
    <3>2. k \in Slots \ {0} /\ e \in EntryType /\ e.type = TYPE_FILE /\ e.size \in FileSizes
      BY <2>2, <3>1, FileEntry
    <3>3. g \in EntryType /\ g.size \in FileSizes
      BY <2>2, <3>1, FileEntry
    <3> QED
      BY <2>5, <3>1, <3>2, <3>3 DEF EntryType
  <2>9. e.size % BlockSize # 0 /\ g.size + e.size - 1 \in FileSizes /\ e.size \in Nat
    <3>1. g.size + e.size - 1 = size /\ g.size + e.size - 1 = e.size + g.size - 1 /\ e.size \in Nat
      <4>1. PICK x, y : x = g.size /\ y = e.size
        OBVIOUS
      <4>2. x \in Nat /\ y \in Nat
        BY <2>8, <4>1, Numbers DEF EntryType
      <4>3. size = x + y - 1
        BY <2>5, <2>7, <4>1
      <4> HIDE DEF size
      <4> QED
        BY <4>1, <4>2, <4>3
    <3>2. ~(size > MaxSize)
      BY <2>1, Numbers
    <3>3. e.size % BlockSize # 0
      BY <2>8 DEF NeverFill
    <3>4. e.size + g.size - 1 \in FileSizes \/ e.size + g.size - 1 > MaxSize
      BY <2>8 DEF NeverFill
    <3> HIDE DEF size
    <3> QED
      BY <3>1, <3>2, <3>3, <3>4
  <2>10. PICK m, a, b, d, n, z : /\ m = size /\ a = sized /\ b = last /\ n = tail /\ z = grown
                                /\ d = append_data(there.s, tail, last, added)
    BY Zenon
  <2>11. /\ m = g.size + e.size - 1 /\ a = put(t, k, [e EXCEPT !.size = m]) /\ b = last_block(s.fat, e.first_blk)
         /\ w = write_data(a, b, d) /\ d = append_data(t, n, b, added) /\ n = e.size % BlockSize
         /\ z = a.cwd.entries[l].size /\ added \in strings_read(a, g.first_blk, z)
    BY <1>3, <2>5, <2>7, <2>10, <2>1, Zenon DEF read, result
  <2>12. m \in FileSizes /\ m \in 0 .. MaxSize /\ [e EXCEPT !.size = m] \in EntryType
    BY <2>8, <2>9, <2>11, ZenonT(40) DEF EntryType
  <2>13. a \in StateType /\ a.cwd.entries = [t.cwd.entries EXCEPT ![k] = [e EXCEPT !.size = m]]
    <3>1. t \in StateType /\ k \in Slots
      BY <2>5, <2>7, <2>8
    <3>2. a \in StateType
      BY <2>11, <2>12, <3>1, PutType
    <3> QED
      BY <2>11, <3>1, <3>2 DEF put, StateType, CwdType
  <2>14. d \in Text
    <3>1. b \in Blocks
      BY <2>2, <2>8, <2>11, LastBlockType, Zenon
    <3>2. AsText(t.disk[b]) \in Text
      <4>1. t.disk[b] \in BlockType
        BY <2>5, <2>7, <3>1 DEF StateType, DiskType
      <4> QED
        BY <4>1, ReadingTypes
    <3>3. z \in Nat
      <4>1. a.cwd.entries[l] \in EntryType
        BY <2>8, <2>13, EntryTypes
      <4> QED
        BY <2>11, <4>1, Numbers DEF EntryType
    <3>4. added \in Text
      BY <2>8, <2>11, <2>13, <3>3, StringsType
    <3>5. n \in Nat
      BY <2>9, <2>11, Remainder
    <3> QED
      BY <2>11, <3>2, <3>4, <3>5, AppendedText
  <2>15. ~(n = 0 \/ z > g.size)
    <3>1. l # k
      <4>1. src.file = Last(c.src.comps) /\ dst.file = Last(c.dst.comps)
        BY <1>4, <2>1 DEF get_filename_parts
      <4>2. s.root[l].name = src.file /\ s.root[k].name = dst.file
        BY <2>6, <2>7
      <4> QED
        BY <4>1, <4>2
    <3>2. t.cwd.entries[l] = g
      BY <2>7, <2>8
    <3>3. t.cwd.entries \in [Slots -> EntryType]
      BY <2>5, <2>7 DEF StateType, CwdType, DirType
    <3>4. z = g.size
      BY <2>8, <2>11, <2>13, <3>1, <3>2, <3>3
    <3>5. n # 0
      BY <2>9, <2>11
    <3>6. g.size \in Nat
      BY <2>8, Numbers DEF EntryType
    <3> QED
      BY <3>4, <3>5, <3>6
  <2>16. w.ok \in BOOLEAN /\ Home(s, exit_method(w.s, s.cwd, w.ok))
    <3>1. /\ Tree(s, D) /\ s.cwd.blk = ROOT_BLOCK /\ Visits(s, t, D) /\ t.cwd.blk = ROOT_BLOCK
          /\ k \in Slots \ {0} /\ e = t.cwd.entries[k] /\ e.type = TYPE_FILE /\ e.name # NoName
          /\ m \in FileSizes /\ m \in 0 .. MaxSize
      BY <1>3, <1>7, <2>5, <2>7, <2>8, <2>12
    <3>2. a = put(t, k, [e EXCEPT !.size = m]) /\ b = last_block(s.fat, e.first_blk) /\ w = write_data(a, b, d)
      BY <2>11
    <3> QED
      BY <2>14, <3>1, <3>2, AppendWrites
  <2>17. ~overruns
    <3>1. n = tail /\ z = grown /\ g.size = entries[i].size
      BY <2>5, <2>7, <2>10, Zenon
    <3> HIDE DEF tail, grown, entries, i
    <3> QED
      BY <2>15, <3>1 DEF overruns
  <2> QED
    BY <1>3, <2>16, <2>17, Zenon
<1> HIDE DEF read, result, writes, overruns
<1>13. CASE writes /\ \E added \in read : \E w \in {result(added)} :
                        \/ Becomes(exit_method(w.s, cwd, w.ok))
                        \/ overruns /\ \E t \in {there.s, w.s, exit_method(w.s, cwd, w.ok)} : Becomes(boot(t.disk))
  <2>1. PICK added \in read : \E w \in {result(added)} :
                        \/ Becomes(exit_method(w.s, cwd, w.ok))
                        \/ overruns /\ \E t \in {there.s, w.s, exit_method(w.s, cwd, w.ok)} : Becomes(boot(t.disk))
    BY <1>13
  <2>2. PICK w \in {result(added)} :
                        \/ Becomes(exit_method(w.s, cwd, w.ok))
                        \/ overruns /\ \E t \in {there.s, w.s, exit_method(w.s, cwd, w.ok)} : Becomes(boot(t.disk))
    BY <2>1
  <2>3. ~overruns /\ w.ok \in BOOLEAN /\ Home(s, exit_method(w.s, cwd, w.ok))
    BY <1>12, <1>13
  <2> QED
    BY <1>2, <2>2, <2>3 DEF Arrives
<1> QED
  BY <1>8, <1>9, <1>10, <1>11, <1>13

-----------------------------------------------------------------------------
(* A command ends in a good tree, and in its root if no command leaves it. *)
Kept(t) == (LocalUse \/ t.cwd.blk = ROOT_BLOCK) /\ \E B : Tree(t, B)
Ends == \E t : Becomes(t) /\ Kept(t)

(* format makes the smallest tree, *)
LEMMA FormatEnds == ASSUME TypeOK, format PROVE Ends
<1> DEFINE f == [b \in Blocks |-> IF b \in {ROOT_BLOCK, FAT_BLOCK} THEN FAT_EOF ELSE FAT_FREE]
           e == init_dir(ROOT_BLOCK, Rights)
           t == [fat |-> f, disk |-> disk, root |-> e, cwd |-> [entries |-> e, info |-> e[0], blk |-> ROOT_BLOCK]]
           D == {ROOT_BLOCK}
           E == DirsOf(t, D)
<1>1. Becomes(t)
  BY DEF format, Becomes
<1>2. t \in StateType
  BY <1>1, FormatKeeps, ThisType DEF Becomes, TypeOK, StateType, DiskType
<1>3. e \in DirType /\ e[0] = Entry(Parent, 0, ROOT_BLOCK, TYPE_DIR, Rights) /\ \A i \in Slots \ {0} : e[i] = ZeroEntry
  <2>1. e \in DirType
    BY <1>2 DEF StateType
  <2>2. ZeroDir \in DirType /\ \A i \in Slots : ZeroDir[i] = ZeroEntry
    BY ZeroTypes DEF ZeroDir
  <2> QED
    BY <2>1, <2>2, Numbers DEF init_dir, DirType
<1> HIDE DEF e
<1>4. DirIn(t, ROOT_BLOCK) = e /\ t.cwd.blk = ROOT_BLOCK /\ t.root = e /\ t.fat = f
  BY DEF DirIn
<1>5. E[ROOT_BLOCK] = e
  BY <1>4 DEF DirsOf
<1>6. DirsGood(D, E)
  <2>1. DirGood(D, e)
    <3>1. e[0].first_blk = ROOT_BLOCK /\ e[0].name = Parent /\ e[0].type = TYPE_DIR
      BY <1>3 DEF Entry
    <3>2. ZeroEntry.first_blk = FAT_FREE /\ ZeroEntry.name = NoName /\ ZeroEntry.type = TYPE_FILE
      BY DEF ZeroEntry, Entry, FAT_FREE
    <3>3. \A i \in Slots \ {0} : e[i].first_blk = FAT_FREE /\ e[i].name = NoName /\ e[i].type = TYPE_FILE
      BY <1>3, <3>2
    <3>4. TYPE_FILE # TYPE_DIR /\ Parent # NoName
      BY DEF TYPE_FILE, TYPE_DIR, Parent, NoName
    <3> QED
      BY <1>3, <3>1, <3>3, <3>4 DEF DirGood
  <2>2. ROOT_BLOCK # FAT_BLOCK
    BY DEF ROOT_BLOCK, FAT_BLOCK
  <2> HIDE DEF E
  <2> QED
    BY <1>5, <2>1, <2>2, Numbers DEF DirsGood
<1> HIDE DEF t
<1>7. Held(D, E) = {}
  <2>1. ZeroEntry.first_blk = FAT_FREE
    BY DEF ZeroEntry, Entry, FAT_FREE
  <2>2. \A x \in SlotsIn(D) : x[1] = ROOT_BLOCK /\ x[2] \in Slots \ {0}
    BY DEF SlotsIn
  <2> HIDE DEF E
  <2>3. \A x \in SlotsIn(D) : E[x[1]][x[2]].first_blk = FAT_FREE
    BY <1>3, <1>5, <2>1, <2>2
  <2> QED
    BY <2>3 DEF Held
<1>8. \A b \in Blocks : f[b] = IF b \in {ROOT_BLOCK, FAT_BLOCK} THEN FAT_EOF ELSE FAT_FREE
  OBVIOUS
<1> HIDE DEF f
<1>9. FAT_EOF # FAT_FREE /\ FAT_EOF # ROOT_BLOCK /\ FAT_FREE = ROOT_BLOCK
  BY DEF FAT_EOF, FAT_FREE, ROOT_BLOCK
<1>10. TableGood(f, Held(D, E), Heads(D, E))
  BY <1>7, <1>8, Numbers DEF TableGood
<1>11. TreeGood(f, D, E)
  BY <1>6, <1>8, <1>9, <1>10, Numbers DEF TreeGood
<1>13. Nest(D, E)
  <2>1. ZeroEntry.first_blk = FAT_FREE /\ ZeroEntry.type # TYPE_DIR
    BY DEF ZeroEntry, Entry, FAT_FREE, TYPE_FILE, TYPE_DIR
  <2>2. \A i \in Slots \ {0} : e[i].first_blk = FAT_FREE /\ e[i].type # TYPE_DIR
    BY <1>3, <2>1
  <2>3. Named(e) /\ \A x : ~Lists(e, x)
    BY <1>3, <2>2 DEF Named, Lists, Entry
  <2>4. Up(E, ROOT_BLOCK) = ROOT_BLOCK
    BY <1>3, <1>5 DEF Up, Entry
  <2> HIDE DEF E
  <2>5. Ranked(D, E, [x \in D |-> 0])
    <3>1. Cardinality(D) = 1
      BY FS_Singleton
    <3> QED
      BY <3>1 DEF Ranked
  <2> QED
    BY <1>5, <2>3, <2>4, <2>5 DEF Nest, Nested
<1>12. Tree(t, D)
  BY <1>2, <1>4, <1>6, <1>11, <1>13 DEF Tree, Rooted, GoodNest
<1> QED
  BY <1>1, <1>4, <1>12 DEF Ends, Kept

(* and the next start of the program reads the one that ~FS has written.   *)
LEMMA RestartEnds == ASSUME NEW D, Tree(This, D), restart PROVE Ends
<1>1. PICK s : s = This
  OBVIOUS
<1>2. /\ Tree(s, D) /\ s \in StateType /\ s.fat = fat /\ s.cwd = cwd /\ s.disk = disk
      /\ D \subseteq Blocks \ {FAT_BLOCK} /\ ROOT_BLOCK \in D /\ s.cwd.blk \in D
      /\ Rooted(s, D) /\ GoodNest(s.fat, D, DirsOf(s, D))
  BY <1>1, Begins, TreeFacts DEF This, Tree
<1> DEFINE d == [disk EXCEPT ![FAT_BLOCK] = InFat(fat), ![cwd.blk] = InDir(cwd.entries)]
<1>3. InFat(s.fat) \in BlockType /\ InDir(s.cwd.entries) \in BlockType
  BY <1>2, WritingTypes DEF StateType, CwdType
<1>4. FAT_BLOCK # ROOT_BLOCK /\ FAT_BLOCK \in Blocks /\ ROOT_BLOCK \in Blocks
  BY Numbers DEF FAT_BLOCK, ROOT_BLOCK
<1>5. /\ d \in DiskType /\ d[FAT_BLOCK] = InFat(s.fat) /\ d[s.cwd.blk] = InDir(s.cwd.entries)
      /\ \A b \in Blocks \ {FAT_BLOCK, s.cwd.blk} : d[b] = s.disk[b]
  <2> HIDE DEF FAT_BLOCK, ROOT_BLOCK
  <2> QED
    BY <1>2, <1>3, <1>4 DEF StateType, DiskType
<1>6. Becomes(boot(d))
  BY DEF restart
<1> HIDE DEF d
<1>7. PICK t : t = boot(d)
  OBVIOUS
<1>8. AsFat(InFat(s.fat)) = s.fat /\ AsDir(InDir(s.cwd.entries)) = s.cwd.entries
  BY DEF AsFat, AsDir, InFat, InDir
<1>9. \A b \in D : AsDir(d[b]) = DirIn(s, b)
  BY <1>2, <1>5, <1>8 DEF DirIn
<1>10. /\ t \in StateType /\ t.fat = s.fat /\ t.disk = d /\ t.root = DirIn(s, ROOT_BLOCK)
       /\ t.cwd.entries = DirIn(s, ROOT_BLOCK) /\ t.cwd.blk = ROOT_BLOCK
  <2>1. t \in StateType
    BY <1>5, <1>7, BootType
  <2> QED
    BY <1>2, <1>5, <1>7, <1>8, <1>9, <2>1 DEF boot
<1>11. \A b \in D : DirIn(t, b) = DirIn(s, b)
  BY <1>9, <1>10 DEF DirIn
<1>12. DirsOf(t, D) = DirsOf(s, D)
  BY <1>11 DEF DirsOf
<1>13. t.root = DirIn(t, ROOT_BLOCK)
  BY <1>10 DEF DirIn
<1>14. Tree(t, D)
  BY <1>2, <1>10, <1>12, <1>13 DEF Tree, Rooted
<1> QED
  BY <1>6, <1>7, <1>10, <1>14 DEF Ends, Kept

(* cd ends in another directory of the same tree.                          *)
LEMMA CdEnds == ASSUME NEW D, Tree(This, D), LocalUse, NEW c \in Commands, c.cmd = "cd", cd(c) PROVE Ends
<1>1. c.path \in PathType
  BY CommandsAssumption
<1>2. PICK s : s = This
  OBVIOUS
<1>3. Tree(s, D) /\ s.cwd = cwd /\ Rooted(s, D) /\ Visits(s, s, D)
  BY <1>2, Begins, TreeFacts
<1>4. PICK here : here = change_cwd(s, c.path) /\ (Becomes(here.s) \/ Becomes(exit_method(here.s, cwd, FALSE)))
  BY <1>2 DEF cd
<1>5. Visits(s, here.s, D)
  BY <1>1, <1>3, <1>4, ChangeVisits
<1>6. CASE Becomes(here.s)
  <2>1. Rooted(here.s, D) /\ here.s.fat = s.fat /\ \A b \in D : DirIn(here.s, b) = DirIn(s, b)
    <3>1. PICK t : t = here.s
      OBVIOUS
    <3>2. Visits(s, t, D)
      BY <1>5, <3>1
    <3>3. Rooted(t, D) /\ \A b \in D : DirIn(t, b) = DirIn(s, b)
      BY <1>3, <3>2, VisitsKeep
    <3>4. t.fat = s.fat
      BY <3>2 DEF Visits
    <3> QED
      BY <3>1, <3>3, <3>4
  <2>2. DirsOf(here.s, D) = DirsOf(s, D)
    BY <2>1 DEF DirsOf
  <2>3. Tree(here.s, D)
    BY <1>3, <2>1, <2>2 DEF Tree
  <2> QED
    BY <1>6, <2>3 DEF Ends, Kept
<1>7. CASE Becomes(exit_method(here.s, cwd, FALSE))
  <2>1. Home(s, exit_method(here.s, s.cwd, FALSE))
    BY <1>3, <1>5, QuietGood
  <2> QED
    BY <1>3, <1>7, <2>1 DEF Ends, Kept, Home
<1> QED
  BY <1>4, <1>6, <1>7
=============================================================================
