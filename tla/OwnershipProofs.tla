-------------------------- MODULE OwnershipProofs ---------------------------
(***************************************************************************)
(* Who owns which block of the disk of lab3. The theorems: users who stay  *)
(* in the root directory (RootUse), or walk through the tree and name      *)
(* things where they are (LocalUse), never get two files to share a block; *)
(* the tree of the latter is well formed, its root has no stale copy, and  *)
(* when names of directories have one length (EvenNames) its paths lead    *)
(* where they say; and when nobody changes the rights of the entry that    *)
(* leads up (RightsUse) all copies of the rights of a directory agree.     *)
(***************************************************************************)
EXTENDS CommandProofs

(* A disk that has never been formatted, and what commands see of it. *)
Fresh(s) ==
  /\ s = [fat |-> ZeroFat, disk |-> [b \in Blocks |-> IF b = FAT_BLOCK THEN InFat(ZeroFat) ELSE InDir(ZeroDir)],
          root |-> ZeroDir, cwd |-> [entries |-> ZeroDir, info |-> ZeroEntry, blk |-> ROOT_BLOCK]]

(* There is nowhere to go, *)
LEMMA FreshStays ==
  ASSUME NEW s \in StateType, Fresh(s), NEW path \in PathType
  PROVE  change_cwd(s, path).s = s
<1> DEFINE n == Len(path.comps)
           w == Walk(s, path, {})
<1>1. /\ s.fat = ZeroFat /\ s.root = ZeroDir /\ s.cwd = [entries |-> ZeroDir, info |-> ZeroEntry, blk |-> ROOT_BLOCK]
      /\ s.disk = [b \in Blocks |-> IF b = FAT_BLOCK THEN InFat(ZeroFat) ELSE InDir(ZeroDir)]
      /\ s.cwd.blk = ROOT_BLOCK /\ s.cwd.entries = ZeroDir /\ s.cwd.info = ZeroEntry
  BY DEF Fresh
<1>2. ZeroDir[0] = ZeroEntry /\ \A j \in Slots : ZeroDir[j].type = TYPE_FILE
  BY Numbers DEF ZeroDir, ZeroEntry, Entry
<1>3. Saved(s) = s
  <2>1. s.disk[ROOT_BLOCK] = InDir(ZeroDir)
    BY <1>1, Numbers DEF ROOT_BLOCK, FAT_BLOCK
  <2>2. [s EXCEPT !.disk[ROOT_BLOCK] = InDir(ZeroDir)] = s
    BY <2>1 DEF StateType, DiskType
  <2>3. [s EXCEPT !.root = ZeroDir] = s
    BY <1>1 DEF StateType
  <2> QED
    BY <1>1, <2>2, <2>3 DEF Saved, SyncRoot
<1>4. PICK a \in [0 .. n -> WalkState] :
           /\ a[0] = walk_from(s, path)
           /\ \A k \in 1 .. n : a[k] = walk_into(s, path.comps, {}, a[k - 1], k)
           /\ w = a[n]
  <2>1. {} \in {{}, {0}}
    OBVIOUS
  <2> QED
    BY <2>1, WalkRuns
<1> DEFINE Still(v) == v.ok => v.blk = ROOT_BLOCK /\ v.dir = ZeroDir /\ v.info = ZeroEntry
           K == {k \in 0 .. n : Still(a[k])}
<1>5. n \in Nat
  BY DEF PathType
<1>6. 0 \in K
  BY <1>1, <1>2, <1>4, <1>5 DEF walk_from
<1>7. ASSUME NEW k \in 1 .. n, k - 1 \in K PROVE k \in K
  <2>1. k \in 0 .. n /\ k - 1 \in 0 .. n /\ a[k - 1] \in WalkState
    BY <1>4, <1>5, SMTT(40)
  <2>2. PICK v, c : v = a[k - 1] /\ c = path.comps[k]
    OBVIOUS
  <2>3. v \in WalkState /\ Still(v)
    BY <1>7, <2>1, <2>2
  <2> DEFINE found == IF c = NoName THEN {} ELSE {j \in Slots : v.dir[j].name = c /\ v.dir[j].type = TYPE_DIR}
             e == v.dir[First(found)]
             missed == k < Len(path.comps) /\ CompLen(c) < v.pos
             into == [ok |-> TRUE, blk |-> e.first_blk, info |-> e, dir |-> AsDir(s.disk[e.first_blk]), pos |-> CompLen(c)]
             x == walk_into(s, path.comps, {}, v, k)
  <2>4. x = IF ~v.ok \/ missed \/ (c # NoName /\ found = {}) THEN [v EXCEPT !.ok = FALSE]
            ELSE IF found = {} THEN [v EXCEPT !.pos = CompLen(c)] ELSE into
    BY <2>2 DEF walk_into
  <2>5. v.ok => found = {}
    BY <1>2, <2>3 DEF TYPE_FILE, TYPE_DIR
  <2> HIDE DEF found, missed, into, x
  <2>6. Still(x)
    BY <2>3, <2>4, <2>5 DEF WalkState
  <2>7. a[k] = x
    BY <1>4, <2>2 DEF x
  <2> QED
    BY <2>1, <2>6, <2>7
<1>8. Still(w)
  <2> HIDE DEF n, K, w, Still
  <2>1. \A k \in 0 .. n : k \in K
    BY <1>5, <1>6, <1>7, EveryTurn
  <2>2. n \in K
    BY <1>5, <2>1
  <2> QED
    BY <1>4, <2>2 DEF K
<1>9. change_cwd(s, path).s = IF path = EmptyPath \/ ~w.ok THEN s
                              ELSE [s EXCEPT !.cwd = [entries |-> w.dir, info |-> w.info, blk |-> w.blk]]
  <2>1. change_cwd(s, path) = IF path = EmptyPath THEN [ok |-> TRUE, s |-> s]
                              ELSE IF ~Walk(Saved(s), path, {}).ok THEN [ok |-> FALSE, s |-> Saved(s)]
                              ELSE [ok |-> TRUE, s |-> [Saved(s) EXCEPT !.cwd = [entries |-> Walk(Saved(s), path, {}).dir,
                                      info |-> Walk(Saved(s), path, {}).info, blk |-> Walk(Saved(s), path, {}).blk]]]
    BY DEF change_cwd, Saved
  <2>2. Saved(s) = s
    BY <1>3
  <2> QED
    BY <2>1, <2>2
<1> HIDE DEF w
<1>10. w.ok => [s EXCEPT !.cwd = [entries |-> w.dir, info |-> w.info, blk |-> w.blk]] = s
  BY <1>1, <1>8 DEF StateType
<1> QED
  BY <1>9, <1>10

(* nothing to be found, and nothing is allowed.                            *)
LEMMA FreshRefuses ==
  ASSUME NEW s \in StateType, Fresh(s)
  PROVE  /\ SyncRoot(s) = s /\ exit_method(s, s.cwd, FALSE) = s
         /\ ~may(s, {READ}) /\ ~may(s, {WRITE, EXECUTE}) /\ ~may(s, {WRITE})
         /\ \A name : name # NoName => lookup(s, name) = None
<1>1. s.root = ZeroDir /\ s.cwd.entries = ZeroDir /\ s.cwd.info = ZeroEntry /\ s.cwd.blk = ROOT_BLOCK
  BY DEF Fresh
<1>2. SyncRoot(s) = s
  <2>1. [s EXCEPT !.root = ZeroDir] = s
    BY <1>1 DEF StateType
  <2> QED
    BY <1>1, <2>1 DEF SyncRoot
<1>3. exit_method(s, s.cwd, FALSE) = s
  <2>1. [s EXCEPT !.cwd = s.cwd] = s
    BY DEF StateType
  <2> QED
    BY <1>2, <2>1 DEF exit_method
<1>4. ~may(s, {READ}) /\ ~may(s, {WRITE, EXECUTE}) /\ ~may(s, {WRITE})
  BY <1>1 DEF may, has_permission, ZeroEntry, Entry
<1>5. ASSUME NEW name, name # NoName PROVE lookup(s, name) = None
  <2>1. {i \in Slots : s.cwd.entries[i].name = name} = {}
    BY <1>1, <1>5 DEF ZeroDir, ZeroEntry, Entry
  <2> QED
    BY <2>1 DEF lookup, find_dir_entry, First
<1> QED
  BY <1>2, <1>3, <1>4, <1>5

(* Every command but format leaves it as it is. *)
LEMMA FreshCommands ==
  ASSUME TypeOK, Fresh(This), NEW c \in Commands, Run(c), c.cmd # "format"
  PROVE  Becomes(This)
<1>1. PICK s : s = This
  OBVIOUS
<1>2. /\ s \in StateType /\ Fresh(s) /\ SyncRoot(This) = s /\ SyncRoot(s) = s /\ s.cwd = cwd /\ s.fat = fat /\ s.disk = disk
      /\ exit_method(s, cwd, FALSE) = s
      /\ ~may(s, {READ}) /\ ~may(s, {WRITE, EXECUTE}) /\ ~may(s, {WRITE}) /\ s.cwd.blk = ROOT_BLOCK
      /\ \A name : name # NoName => lookup(s, name) = None
  <2>1. s \in StateType /\ Fresh(s) /\ s.cwd = cwd /\ s.fat = fat /\ s.disk = disk
    BY <1>1, ThisType DEF This
  <2>2. s.cwd.blk = ROOT_BLOCK
    BY <2>1 DEF Fresh
  <2> QED
    BY <1>1, <2>1, <2>2, FreshRefuses
<1>3. \A path \in PathType : get_filename_parts(s, path).dir \in PathType /\ change_cwd(s, path).s = s
  BY <1>2, PartsType, FreshStays
<1>4. \A path \in PathType : enter(s, get_filename_parts(s, path)).s = s
  BY <1>3 DEF enter
<1>5. SUFFICES Becomes(s)
  BY <1>1
<1>6. CASE c.cmd = "create" /\ create(c)
  <2>1. c.path \in PathType
    BY <1>6, CommandsAssumption
  <2>2. PICK here : here = enter(s, get_filename_parts(s, c.path)) /\ (Becomes(here.s) \/ Becomes(exit_method(here.s, cwd, FALSE)) \/ may(here.s, {WRITE, EXECUTE}))
    BY <1>2, <1>6, ZenonT(40) DEF create
  <2> QED
    BY <1>2, <1>4, <2>1, <2>2
<1>7. CASE c.cmd = "cat" /\ cat(c)
  <2>1. c.path \in PathType
    BY <1>7, CommandsAssumption
  <2>2. PICK here : here = enter(s, get_filename_parts(s, c.path)) /\ (Becomes(here.s) \/ Becomes(exit_method(here.s, cwd, FALSE)))
    BY <1>2, <1>7 DEF cat
  <2> QED
    BY <1>2, <1>4, <2>1, <2>2
<1>8. CASE c.cmd = "cp" /\ cp(c)
  <2>1. c.src \in PathType /\ c.dst \in PathType
    BY <1>8, CommandsAssumption
  <2>2. PICK src, dst, here, there :
          /\ src = get_filename_parts(s, c.src) /\ dst = get_filename_parts(s, c.dst) /\ here = enter(s, src)
          /\ there = change_cwd(here.s, dst.dir) /\ cp_returns(src, dst, here, there)
    BY <1>2, <1>8, Zenon DEF cp
  <2>3. here.s = s /\ there.s = s
    BY <1>3, <1>4, <2>1, <2>2
  <2>4. \/ Becomes(here.s) \/ Becomes(exit_method(here.s, cwd, FALSE)) \/ Becomes(exit_method(there.s, cwd, FALSE))
        \/ may(there.s, {WRITE})
    BY <2>2, Zenon DEF cp_returns
  <2> QED
    BY <1>2, <2>3, <2>4
<1>9. CASE c.cmd = "mv" /\ mv(c)
  <2>1. c.src \in PathType /\ c.dst \in PathType
    BY <1>9, CommandsAssumption
  <2>2. PICK src, dst, there, here :
          /\ src = get_filename_parts(s, c.src) /\ dst = get_filename_parts(s, c.dst) /\ there = change_cwd(s, dst.dir)
          /\ here = change_cwd(there.s, src.dir) /\ mv_returns(src, dst, there, here)
    BY <1>2, <1>9, Zenon DEF mv
  <2>3. here.s = s /\ there.s = s
    BY <1>3, <2>1, <2>2
  <2>4. \/ Becomes(s) \/ Becomes(exit_method(here.s, cwd, FALSE)) \/ Becomes(exit_method(there.s, cwd, FALSE))
        \/ may(there.s, {WRITE, EXECUTE})
    BY <1>2, <2>2, Zenon DEF mv_returns
  <2> QED
    BY <1>2, <2>3, <2>4
<1>10. CASE c.cmd = "rm" /\ rm(c)
  <2>1. c.path \in PathType
    BY <1>10, CommandsAssumption
  <2>2. PICK here : here = enter(s, get_filename_parts(s, c.path)) /\ (Becomes(here.s) \/ Becomes(exit_method(here.s, cwd, FALSE)) \/ may(here.s, {WRITE, EXECUTE}))
    BY <1>2, <1>10, ZenonT(40) DEF rm
  <2> QED
    BY <1>2, <1>4, <2>1, <2>2
<1>11. CASE c.cmd = "append" /\ append(c)
  <2>1. c.src \in PathType /\ c.dst \in PathType
    BY <1>11, CommandsAssumption
  <2>2. PICK src, dst, here, there :
          /\ src = get_filename_parts(s, c.src) /\ dst = get_filename_parts(s, c.dst) /\ here = change_cwd(s, src.dir)
          /\ there = change_cwd(here.s, dst.dir) /\ append_returns(src, dst, here, there)
    BY <1>2, <1>11, Zenon DEF append
  <2>3. here.s = s /\ there.s = s
    BY <1>3, <2>1, <2>2
  <2>4. \/ Becomes(s) \/ Becomes(here.s) \/ Becomes(exit_method(there.s, cwd, FALSE))
        \/ src.file # NoName /\ lookup(here.s, src.file) # None
    BY <1>2, <2>2, Zenon DEF append_returns
  <2> QED
    BY <1>2, <2>3, <2>4
<1>12. CASE c.cmd = "mkdir" /\ mkdir(c)
  <2>1. c.path \in PathType
    BY <1>12, CommandsAssumption
  <2>2. PICK here : here = enter(s, get_filename_parts(s, c.path)) /\ (Becomes(here.s) \/ Becomes(exit_method(here.s, cwd, FALSE)) \/ may(here.s, {WRITE, EXECUTE}))
    BY <1>2, <1>12 DEF mkdir
  <2> QED
    BY <1>2, <1>4, <2>1, <2>2
<1>13. CASE c.cmd = "cd" /\ cd(c)
  <2>1. c.path \in PathType
    BY <1>13, CommandsAssumption
  <2>2. PICK here : here = change_cwd(s, c.path) /\ (Becomes(here.s) \/ Becomes(exit_method(here.s, cwd, FALSE)))
    BY <1>1, <1>13 DEF cd
  <2> QED
    BY <1>2, <1>3, <2>1, <2>2
<1>14. CASE c.cmd = "chmod" /\ chmod(c)
  <2>1. c.path \in PathType
    BY <1>14, CommandsAssumption
  <2> DEFINE upto == Path(c.path.abs, Append(Front(c.path.comps), NoName))
  <2>2. PICK parts, at :
          /\ parts = get_filename_parts(s, c.path)
          /\ at = change_cwd(s, IF parts.file # NoName THEN parts.dir ELSE upto).s /\ chmod_returns(c, parts, at)
    BY <1>2, <1>14, Zenon DEF chmod
  <2>3. parts.dir \in PathType /\ upto \in PathType
    BY <1>3, <2>1, <2>2, UptoType
  <2> HIDE DEF upto
  <2>4. at = s
    BY <1>3, <2>2, <2>3
  <2> DEFINE given == IF parts.file = NoName THEN Last(c.path.comps) ELSE parts.file
             name  == IF given = NoName /\ at.cwd.blk = ROOT_BLOCK THEN Parent ELSE given
  <2>5. Becomes(exit_method(at, cwd, FALSE)) \/ lookup(at, name) # None
    BY <2>2, Zenon DEF chmod_returns
  <2>6. name # NoName
    BY <1>2, <2>4, Zenon DEF Parent, NoName
  <2> QED
    BY <1>2, <2>4, <2>5, <2>6
<1>15. CASE c.cmd = "quit" /\ restart
  <2> DEFINE d == [disk EXCEPT ![FAT_BLOCK] = InFat(fat), ![cwd.blk] = InDir(cwd.entries)]
             e == [b \in Blocks |-> IF b = FAT_BLOCK THEN InFat(ZeroFat) ELSE InDir(ZeroDir)]
  <2>1. disk = e /\ fat = ZeroFat /\ cwd.blk = ROOT_BLOCK /\ cwd.entries = ZeroDir
    BY <1>2 DEF Fresh
  <2>2. d = e
    BY <2>1, Numbers DEF FAT_BLOCK, ROOT_BLOCK
  <2>3. e[ROOT_BLOCK] = InDir(ZeroDir) /\ e[FAT_BLOCK] = InFat(ZeroFat) /\ ZeroDir[0] = ZeroEntry
    BY Numbers DEF FAT_BLOCK, ROOT_BLOCK, ZeroDir
  <2>4. Becomes(boot(d))
    BY <1>15 DEF restart
  <2> HIDE DEF d, e
  <2>5. boot(e) = [fat |-> ZeroFat, disk |-> e, root |-> ZeroDir, cwd |-> [entries |-> ZeroDir, info |-> ZeroEntry, blk |-> ROOT_BLOCK]]
    <3>1. AsDir(InDir(ZeroDir)) = ZeroDir /\ AsFat(InFat(ZeroFat)) = ZeroFat
      BY DEF AsDir, InDir, AsFat, InFat
    <3> QED
      BY <2>3, <3>1 DEF boot
  <2>6. s = boot(e)
    BY <1>2, <2>5 DEF Fresh, e
  <2> QED
    BY <2>2, <2>4, <2>6
<1> QED
  BY <1>6, <1>7, <1>8, <1>9, <1>10, <1>11, <1>12, <1>13, <1>14, <1>15 DEF Run

-----------------------------------------------------------------------------
(* The invariant: the disk is new, or the user is in a good tree, and in   *)
(* its root if no command leaves it.                                       *)
Becoming(s) == fat = s.fat /\ disk = s.disk /\ root_dir = s.root /\ cwd = s.cwd
InTree == \E s, D : Becoming(s) /\ (LocalUse \/ s.cwd.blk = ROOT_BLOCK) /\ Tree(s, D)
OwnInv == TypeOK /\ (Init \/ InTree)

(* It holds of a new disk, *)
LEMMA OwnInit == Init => OwnInv
BY InitTypes DEF OwnInv

(* there are sizes as the commands need them,                              *)
LEMMA SizesChosen ==
  ASSUME RootUse \/ LocalUse
  PROVE  FileSizes \in SUBSET (0 .. MaxSize) /\ NeverFill(FileSizes) /\ RoomToCopy(FileSizes)
<1>1. ASSUME LocalUse PROVE \E Z \in SUBSET (0 .. MaxSize) : NeverFill(Z) /\ RoomToCopy(Z)
  <2> DEFINE Z == {Len(c.data) + 1 : c \in {c \in Commands : c.cmd = "create"}}
  <2>1. \A c \in Commands : c.cmd # "append" /\
           (c.cmd = "create" /\ (\E d \in Commands : d.cmd = "cp") => Len(c.data) + 1 < BlockSize)
    BY <1>1, FoldersChosen DEF LocalUse
  <2>2. Z \subseteq 0 .. MaxSize
    <3>1. ASSUME NEW c \in Commands, c.cmd = "create" PROVE Len(c.data) + 1 \in 0 .. MaxSize
      <4>1. Len(c.data) \in Nat /\ Len(c.data) < MaxSize /\ MaxSize \in Nat
        BY <3>1, CommandsAssumption, SizesAssumption DEF Text
      <4> QED
        BY <4>1
    <3> QED
      BY <3>1
  <2>3. NeverFill(Z)
    BY <2>1 DEF NeverFill
  <2>4. RoomToCopy(Z)
    BY <2>1 DEF RoomToCopy
  <2> HIDE DEF Z
  <2> QED
    BY <2>2, <2>3, <2>4
<1>2. ASSUME RootUse, ~LocalUse PROVE \E Z \in SUBSET (0 .. MaxSize) : NeverFill(Z) /\ RoomToCopy(Z)
  BY <1>2 DEF RootUse, RoomToCopy
<1>3. \E Z \in SUBSET (0 .. MaxSize) : NeverFill(Z) /\ RoomToCopy(Z)
  BY <1>1, <1>2
<1> QED
  BY <1>3 DEF FileSizes

(* no command changes the root from elsewhere,                             *)
LEMMA CommandsSpare ==
  ASSUME NEW D, Tree(This, D), LocalUse \/ cwd.blk = ROOT_BLOCK, NEW c \in Commands
  PROVE  /\ c.cmd \in {"create", "rm", "mkdir"} => SparesFile(c.path)
         /\ c.cmd = "chmod" => SparesRights(c.path)
         /\ c.cmd \in {"cp", "mv"} => SparesFile(c.src) /\ Spares(get_filename_parts(This, c.dst).dir)
<1>1. CASE cwd.blk = ROOT_BLOCK
  BY <1>1 DEF SparesFile, SparesRights, Spares
<1>2. CASE LocalUse
  <2>1. CASE c.cmd \in {"create", "rm", "mkdir"}
    <3>1. c.path \in PathType
      BY <2>1, CommandsAssumption
    <3> QED
      BY <1>2, <2>1, <3>1, LocalChange
  <2>2. CASE c.cmd = "chmod"
    <3>1. c.path \in PathType
      BY <2>2, CommandsAssumption
    <3>2. IsHere(c.path) /\ SparesFile(c.path)
      BY <1>2, <2>2, <3>1, LocalChange
    <3>3. Path(c.path.abs, Append(Front(c.path.comps), NoName)) = EmptyPath
      <4>1. c.path.abs = FALSE /\ c.path.comps \in Seq(Words) /\ Len(c.path.comps) = 1
        BY <3>1, <3>2 DEF IsHere, PathType
      <4>2. Front(c.path.comps) = <<>>
        BY <4>1 DEF Front
      <4>3. Append(<<>>, NoName) = <<NoName>>
        OBVIOUS
      <4>4. Path(c.path.abs, Append(Front(c.path.comps), NoName)) = Path(FALSE, Append(<<>>, NoName))
        BY <4>1, <4>2
      <4> QED
        BY <4>3, <4>4 DEF EmptyPath
    <3> QED
      BY <2>2, <3>2, <3>3, EmptyOff DEF SparesRights, SparesFile, Spares
  <2>3. CASE c.cmd \in {"cp", "mv"}
    <3>1. c.src \in PathType /\ c.dst \in PathType
      BY <2>3, CommandsAssumption
    <3>2. IsHere(c.dst) /\ SparesFile(c.src) /\ Last(c.dst.comps) # Parent
      BY <1>2, <2>3, <3>1, LocalChange, FoldersChosen DEF LocalUse
    <3>3. Rooted(This, D) /\ Nested(D, DirsOf(This, D))
      BY <1>2, TreeFacts DEF Nest
    <3>4. PICK s : s = This
      OBVIOUS
    <3>5. s.cwd.blk = ROOT_BLOCK \/ LeadsOff(get_filename_parts(s, c.dst).dir)
      BY <3>1, <3>2, <3>3, <3>4, LocalOff
    <3>6. s.cwd = cwd
      BY <3>4 DEF This
    <3> QED
      BY <2>3, <3>2, <3>4, <3>5, <3>6 DEF Spares
  <2> QED
    BY <2>1, <2>2, <2>3
<1> QED
  BY <1>1, <1>2

(* none leaves the tree,                                                   *)
LEMMA TreeCommands ==
  ASSUME RootUse \/ LocalUse, NEW D, Tree(This, D), LocalUse \/ cwd.blk = ROOT_BLOCK, TypeOK,
         NEW c \in Commands, Run(c)
  PROVE  Ends
<1>1. NeverFill(FileSizes) /\ FileSizes \in SUBSET (0 .. MaxSize) /\ RoomToCopy(FileSizes)
  BY SizesChosen
<1>2. Arrives => Ends
  BY DEF Arrives, Ends, Kept, Home, This
<1>3. /\ c.cmd \in {"create", "rm", "mkdir"} => SparesFile(c.path)
      /\ c.cmd = "chmod" => SparesRights(c.path)
      /\ c.cmd \in {"cp", "mv"} => SparesFile(c.src) /\ Spares(get_filename_parts(This, c.dst).dir)
  BY CommandsSpare
<1>4. CASE c.cmd = "format" /\ format
  BY <1>4, FormatEnds
<1>5. CASE c.cmd = "create" /\ create(c)
  BY <1>1, <1>2, <1>3, <1>5, CreateArrives
<1>6. CASE c.cmd = "cat" /\ cat(c)
  BY <1>2, <1>6, CatArrives
<1>7. CASE c.cmd = "cp" /\ cp(c)
  BY <1>1, <1>2, <1>3, <1>7, CpArrives
<1>8. CASE c.cmd = "mv" /\ mv(c)
  <2>1. Last(c.src.comps) # Parent
    BY <1>8, FoldersChosen, NamesAssumption DEF RootUse, LocalUse
  <2> QED
    BY <1>2, <1>3, <1>8, <2>1, MvArrives
<1>9. CASE c.cmd = "rm" /\ rm(c)
  BY <1>2, <1>3, <1>9, RmArrives
<1>10. CASE c.cmd = "append" /\ append(c)
  <2>1. ~LocalUse
    BY <1>10, FoldersChosen DEF LocalUse
  <2> QED
    BY <1>1, <1>2, <1>10, <2>1, AppendArrives DEF RootUse
<1>11. CASE c.cmd = "mkdir" /\ mkdir(c)
  BY <1>2, <1>3, <1>11, MkdirArrives
<1>12. CASE c.cmd = "chmod" /\ chmod(c)
  BY <1>2, <1>3, <1>12, ChmodArrives
<1>13. CASE c.cmd = "quit" /\ restart
  BY <1>13, RestartEnds
<1>14. CASE c.cmd = "cd" /\ cd(c)
  <2>1. LocalUse
    BY <1>14 DEF RootUse
  <2> QED
    BY <1>14, <2>1, CdEnds
<1> QED
  BY <1>4, <1>5, <1>6, <1>7, <1>8, <1>9, <1>10, <1>11, <1>12, <1>13, <1>14 DEF Run

(* and so it holds after every step.                                       *)
LEMMA OwnStep == ASSUME RootUse \/ LocalUse, OwnInv, [Next]_vars PROVE OwnInv'
<1>1. TypeOK'
  BY StepTypes DEF OwnInv
<1>2. CASE UNCHANGED vars
  <2>1. Init' <=> Init
    BY <1>2 DEF Init, vars
  <2>2. InTree => InTree'
    BY <1>2 DEF InTree, Becoming, vars
  <2> QED
    BY <1>1, <2>1, <2>2 DEF OwnInv
<1>3. Ends => InTree'
  BY DEF Ends, Kept, InTree, Becoming, Becomes
<1>4. ASSUME NEW c \in Commands, Run(c) PROVE OwnInv'
  <2>1. CASE Init
    <3>1. Fresh(This)
      BY <2>1 DEF Init, Fresh, This
    <3>2. CASE c.cmd = "format"
      <4>1. format
        BY <1>4, <3>2 DEF Run
      <4> QED
        BY <1>1, <1>3, <4>1, FormatEnds DEF OwnInv
    <3>3. CASE c.cmd # "format"
      <4>1. Becomes(This)
        BY <1>4, <3>1, <3>3, FreshCommands DEF OwnInv
      <4>2. Init'
        BY <2>1, <4>1 DEF Becomes, This, Init
      <4> QED
        BY <1>1, <4>2 DEF OwnInv
    <3> QED
      BY <3>2, <3>3
  <2>2. CASE InTree
    <3>1. PICK s, D : Becoming(s) /\ (LocalUse \/ s.cwd.blk = ROOT_BLOCK) /\ Tree(s, D)
      BY <2>2 DEF InTree
    <3>2. s = This
      <4>1. s \in StateType
        BY <3>1 DEF Tree, Rooted
      <4> QED
        BY <3>1, <4>1 DEF Becoming, This, StateType
    <3>3. Tree(This, D) /\ (LocalUse \/ cwd.blk = ROOT_BLOCK)
      BY <3>1, <3>2 DEF Becoming
    <3> QED
      BY <1>1, <1>3, <1>4, <3>3, TreeCommands DEF OwnInv
  <2> QED
    BY <2>1, <2>2 DEF OwnInv
<1> QED
  BY <1>2, <1>4 DEF Next

-----------------------------------------------------------------------------
(* From the invariant to the chains of the files.  One turn of the search  *)
(* for directories, and one of the search for the blocks of a chain.       *)
Further(ds) == ds \cup UNION {SubDirs(b) : b \in ds \cap Blocks}
Linked(bs)  == bs \cup {fat[x] : x \in bs \cap Blocks}

(* Both stay on the disk, *)
LEMMA SearchTypes ==
  ASSUME TypeOK
  PROVE  /\ \A ds \in SUBSET Blocks : Further(ds) \in SUBSET Blocks
         /\ \A bs \in SUBSET (Blocks \cup {FAT_EOF}) : Linked(bs) \in SUBSET (Blocks \cup {FAT_EOF})
<1>1. ASSUME NEW b \in Blocks PROVE SubDirs(b) \subseteq Blocks
  <2>1. Dir(b) \in DirType
    <3>1. AsDir(disk[b]) \in DirType /\ cwd.entries \in DirType
      BY ReadingTypes DEF TypeOK, CwdType
    <3> QED
      BY <3>1 DEF Dir
  <2> QED
    BY <2>1 DEF SubDirs, Used, DirType, EntryType
<1>2. ASSUME NEW ds \in SUBSET Blocks PROVE Further(ds) \in SUBSET Blocks
  BY <1>1 DEF Further
<1>3. ASSUME NEW bs \in SUBSET (Blocks \cup {FAT_EOF}) PROVE Linked(bs) \in SUBSET (Blocks \cup {FAT_EOF})
  BY DEF Linked, TypeOK, FatType
<1> QED
  BY <1>2, <1>3

(* so that the searches have courses. *)
LEMMA DirsRun ==
  ASSUME TypeOK
  PROVE  \E a \in [0 .. NoBlocks -> SUBSET Blocks] :
           /\ a[0] = {ROOT_BLOCK}
           /\ \A k \in 1 .. NoBlocks : a[k] = Further(a[k - 1])
           /\ Dirs = a[NoBlocks]
<1> DEFINE x == {ROOT_BLOCK}
           N == NoBlocks
           g == [k \in 1 .. N |-> [r \in SUBSET Blocks |-> Further(r)]]
           at[k \in 0 .. NoBlocks] == IF k = 0 THEN {x} ELSE {Further(y) : y \in at[k - 1]}
<1>1. x \in SUBSET Blocks /\ N \in Nat
  BY SizesAssumption, Numbers
<1>2. ASSUME NEW r \in SUBSET Blocks PROVE Further(r) \in SUBSET Blocks
  BY SearchTypes
<1>3. g \in [1 .. N -> [SUBSET Blocks -> SUBSET Blocks]]
  BY <1>2
<1>4. Dirs = CHOOSE y \in at[N] : TRUE
  BY DEF Dirs, Turn, Further
<1>5. PICK a : Course(N, SUBSET Blocks, x, g, a)
  <2> HIDE DEF x, g, N
  <2> QED
    BY <1>1, <1>3, LoopRuns, Zenon
<1>6. a \in [0 .. N -> SUBSET Blocks] /\ a[0] = x
  BY <1>5 DEF Course
<1>7. ASSUME NEW k \in 1 .. N PROVE /\ k \in 0 .. N /\ k - 1 \in 0 .. N /\ k # 0
                                     /\ a[k] = Further(a[k - 1])
  <2>1. k \in 0 .. N /\ k - 1 \in 0 .. N /\ k # 0
    <3> HIDE DEF N
    <3> QED
      BY <1>1
  <2>2. a[k - 1] \in SUBSET Blocks
    BY <1>6, <2>1
  <2>3. a[k] = g[k][a[k - 1]]
    BY <1>5 DEF Course
  <2> QED
    BY <2>1, <2>2, <2>3
<1> DEFINE b == [k \in 0 .. N |-> {a[k]}]
<1>8. b = [k \in 0 .. N |-> IF k = 0 THEN {x} ELSE {Further(y) : y \in b[k - 1]}]
  <2> HIDE DEF x, g, N
  <2> SUFFICES ASSUME NEW k \in 0 .. N
               PROVE  {a[k]} = IF k = 0 THEN {x} ELSE {Further(y) : y \in b[k - 1]}
    OBVIOUS
  <2>1. CASE k = 0
    BY <1>6, <2>1
  <2>2. CASE k # 0
    <3>1. k \in 1 .. N
      BY <1>1, <2>2
    <3>2. b[k - 1] = {a[k - 1]}
      BY <1>7, <3>1
    <3> HIDE DEF b
    <3> QED
      BY <1>7, <2>2, <3>1, <3>2
  <2> QED
    BY <2>1, <2>2
<1>9. at = [k \in 0 .. N |-> IF k = 0 THEN {x} ELSE {Further(y) : y \in at[k - 1]}]
  <2> HIDE DEF b, x
  <2> QED
    BY <1>8 DEF at
<1> HIDE DEF at, x, g, N
<1> DEFINE K == {k \in 0 .. N : at[k] = {a[k]}}
<1>10. \A k \in 0 .. N : k \in K
  <2>1. 0 \in K
    BY <1>1, <1>6, <1>9
  <2>2. ASSUME NEW k \in 1 .. N, k - 1 \in K PROVE k \in K
    <3>1. at[k] = {Further(y) : y \in at[k - 1]}
      BY <1>7, <1>9
    <3>2. at[k - 1] = {a[k - 1]}
      BY <2>2
    <3> QED
      BY <1>7, <3>1, <3>2
  <2> HIDE DEF K
  <2> QED
    BY <1>1, <2>1, <2>2, EveryTurn
<1>11. at[N] = {a[N]}
  BY <1>1, <1>10
<1> QED
  BY <1>4, <1>6, <1>7, <1>11 DEF x, N

(* The course of the search for the blocks of a chain. *)
LEMMA ChainRuns ==
  ASSUME TypeOK, NEW head \in Blocks
  PROVE  \E a \in [0 .. NoBlocks -> SUBSET (Blocks \cup {FAT_EOF})] :
           /\ a[0] = {head}
           /\ \A k \in 1 .. NoBlocks : a[k] = Linked(a[k - 1])
           /\ Chain(head) = a[NoBlocks] \ {FAT_EOF}
<1> DEFINE x == {head}
           N == NoBlocks
           g == [k \in 1 .. N |-> [r \in SUBSET (Blocks \cup {FAT_EOF}) |-> Linked(r)]]
           at[k \in 0 .. NoBlocks] == IF k = 0 THEN {x} ELSE {Linked(y) : y \in at[k - 1]}
<1>1. x \in SUBSET (Blocks \cup {FAT_EOF}) /\ N \in Nat
  BY SizesAssumption
<1>2. ASSUME NEW r \in SUBSET (Blocks \cup {FAT_EOF}) PROVE Linked(r) \in SUBSET (Blocks \cup {FAT_EOF})
  BY SearchTypes
<1>3. g \in [1 .. N -> [SUBSET (Blocks \cup {FAT_EOF}) -> SUBSET (Blocks \cup {FAT_EOF})]]
  BY <1>2
<1>4. Chain(head) = (CHOOSE y \in at[N] : TRUE) \ {FAT_EOF}
  BY DEF Chain, Turn, Linked
<1>5. PICK a : Course(N, SUBSET (Blocks \cup {FAT_EOF}), x, g, a)
  <2> HIDE DEF x, g, N
  <2> QED
    BY <1>1, <1>3, LoopRuns, Zenon
<1>6. a \in [0 .. N -> SUBSET (Blocks \cup {FAT_EOF})] /\ a[0] = x
  BY <1>5 DEF Course
<1>7. ASSUME NEW k \in 1 .. N PROVE /\ k \in 0 .. N /\ k - 1 \in 0 .. N /\ k # 0
                                     /\ a[k] = Linked(a[k - 1])
  <2>1. k \in 0 .. N /\ k - 1 \in 0 .. N /\ k # 0
    <3> HIDE DEF N
    <3> QED
      BY <1>1
  <2>2. a[k - 1] \in SUBSET (Blocks \cup {FAT_EOF})
    BY <1>6, <2>1
  <2>3. a[k] = g[k][a[k - 1]]
    BY <1>5 DEF Course
  <2> QED
    BY <2>1, <2>2, <2>3
<1> DEFINE b == [k \in 0 .. N |-> {a[k]}]
<1>8. b = [k \in 0 .. N |-> IF k = 0 THEN {x} ELSE {Linked(y) : y \in b[k - 1]}]
  <2> HIDE DEF x, g, N
  <2> SUFFICES ASSUME NEW k \in 0 .. N
               PROVE  {a[k]} = IF k = 0 THEN {x} ELSE {Linked(y) : y \in b[k - 1]}
    OBVIOUS
  <2>1. CASE k = 0
    BY <1>6, <2>1
  <2>2. CASE k # 0
    <3>1. k \in 1 .. N
      BY <1>1, <2>2
    <3>2. b[k - 1] = {a[k - 1]}
      BY <1>7, <3>1
    <3> HIDE DEF b
    <3> QED
      BY <1>7, <2>2, <3>1, <3>2
  <2> QED
    BY <2>1, <2>2
<1>9. at = [k \in 0 .. N |-> IF k = 0 THEN {x} ELSE {Linked(y) : y \in at[k - 1]}]
  <2> HIDE DEF b, x
  <2> QED
    BY <1>8 DEF at
<1> HIDE DEF at, x, g, N
<1> DEFINE K == {k \in 0 .. N : at[k] = {a[k]}}
<1>10. \A k \in 0 .. N : k \in K
  <2>1. 0 \in K
    BY <1>1, <1>6, <1>9
  <2>2. ASSUME NEW k \in 1 .. N, k - 1 \in K PROVE k \in K
    <3>1. at[k] = {Linked(y) : y \in at[k - 1]}
      BY <1>7, <1>9
    <3>2. at[k - 1] = {a[k - 1]}
      BY <2>2
    <3> QED
      BY <1>7, <3>1, <3>2
  <2> HIDE DEF K
  <2> QED
    BY <1>1, <2>1, <2>2, EveryTurn
<1>11. at[N] = {a[N]}
  BY <1>1, <1>10
<1> QED
  BY <1>4, <1>6, <1>7, <1>11 DEF x, N

(* The search for directories does not leave a set that has the root and   *)
(* what its members lead to.                                               *)
LEMMA DirsWithin ==
  ASSUME TypeOK, NEW D, ROOT_BLOCK \in D, \A b \in D \cap Blocks : SubDirs(b) \subseteq D
  PROVE  Dirs \subseteq D
<1>1. PICK a \in [0 .. NoBlocks -> SUBSET Blocks] :
        /\ a[0] = {ROOT_BLOCK} /\ Dirs = a[NoBlocks]
        /\ \A k \in 1 .. NoBlocks : a[k] = Further(a[k - 1])
  BY DirsRun
<1> DEFINE K == {k \in 0 .. NoBlocks : a[k] \subseteq D}
<1>2. NoBlocks \in Nat /\ 0 \in 0 .. NoBlocks /\ NoBlocks \in 0 .. NoBlocks
  BY SizesAssumption
<1>3. 0 \in K
  BY <1>1, <1>2
<1>4. ASSUME NEW k \in 1 .. NoBlocks, k - 1 \in K PROVE k \in K
  <2>1. k \in 0 .. NoBlocks /\ a[k - 1] \subseteq D /\ a[k] = Further(a[k - 1])
    BY <1>1, <1>2, <1>4
  <2> QED
    BY <2>1 DEF Further
<1>5. NoBlocks \in K
  <2> HIDE DEF K
  <2> QED
    BY <1>2, <1>3, <1>4, EveryTurn
<1> QED
  BY <1>1, <1>5

(* Nor does a chain leave a set that has its head and all links of its     *)
(* members, and all of it but its head is linked to by the rest of it.     *)
LEMMA ChainWithin ==
  ASSUME TypeOK, NEW head \in Blocks
  PROVE  /\ \A C : head \in C /\ (\A x \in C \cap Blocks : fat[x] \in C) => Chain(head) \subseteq C
         /\ \A b \in Chain(head) : b # head => \E d \in Chain(head) \cap Blocks : b = fat[d]
         /\ Chain(head) \subseteq Blocks
<1>1. PICK a \in [0 .. NoBlocks -> SUBSET (Blocks \cup {FAT_EOF})] :
        /\ a[0] = {head} /\ Chain(head) = a[NoBlocks] \ {FAT_EOF}
        /\ \A k \in 1 .. NoBlocks : a[k] = Linked(a[k - 1])
  BY ChainRuns
<1>2. NoBlocks \in Nat /\ 0 \in 0 .. NoBlocks /\ NoBlocks \in 0 .. NoBlocks
  BY SizesAssumption
<1>3. ASSUME NEW C, head \in C, \A x \in C \cap Blocks : fat[x] \in C PROVE Chain(head) \subseteq C
  <2> DEFINE K == {k \in 0 .. NoBlocks : a[k] \subseteq C}
  <2>1. 0 \in K
    BY <1>1, <1>2, <1>3
  <2>2. ASSUME NEW k \in 1 .. NoBlocks, k - 1 \in K PROVE k \in K
    <3>1. k \in 0 .. NoBlocks /\ a[k - 1] \subseteq C /\ a[k] = Linked(a[k - 1])
      BY <1>1, <1>2, <2>2
    <3> QED
      BY <1>3, <3>1 DEF Linked
  <2>3. NoBlocks \in K
    <3> HIDE DEF K
    <3> QED
      BY <1>2, <2>1, <2>2, EveryTurn
  <2> QED
    BY <1>1, <2>3
<1>4. ASSUME NEW b \in Chain(head), b # head PROVE \E d \in Chain(head) \cap Blocks : b = fat[d]
  <2> DEFINE K == {k \in 0 .. NoBlocks : \A c \in a[k] : c = head \/ \E d \in a[k] \cap Blocks : c = fat[d]}
  <2>1. 0 \in K
    BY <1>1, <1>2
  <2>2. ASSUME NEW k \in 1 .. NoBlocks, k - 1 \in K PROVE k \in K
    <3>1. k \in 0 .. NoBlocks /\ a[k] = Linked(a[k - 1])
      BY <1>1, <1>2
    <3>2. \A c \in a[k - 1] : c = head \/ \E d \in a[k - 1] \cap Blocks : c = fat[d]
      BY <2>2
    <3>3. ASSUME NEW c \in a[k] PROVE c = head \/ \E d \in a[k] \cap Blocks : c = fat[d]
      BY <3>1, <3>2 DEF Linked
    <3> QED
      BY <3>1, <3>3
  <2>3. NoBlocks \in K
    <3> HIDE DEF K
    <3> QED
      BY <1>2, <2>1, <2>2, EveryTurn
  <2>4. b \in a[NoBlocks]
    BY <1>1
  <2>5. PICK d \in a[NoBlocks] \cap Blocks : b = fat[d]
    BY <1>4, <2>3, <2>4
  <2>6. d \in Chain(head)
    BY <1>1, <2>5, Numbers
  <2> QED
    BY <2>5, <2>6
<1>5. Chain(head) \subseteq Blocks
  BY <1>1, <1>2
<1> QED
  BY <1>3, <1>4, <1>5

(* Chains with different heads have no block in common, nor any that is    *)
(* free, or is the root's or the table's.                                  *)
LEMMA ChainsApart ==
  ASSUME TypeOK, NEW H, NEW h, TableGood(fat, H, h), NEW i \in H
  PROVE  /\ \A b \in Chain(h[i]) : Owned(fat, b)
         /\ \A j \in H \ {i} : Chain(h[i]) \cap Chain(h[j]) = {}
<1>1. ASSUME NEW j \in H PROVE h[j] \in Blocks /\ \A b \in Chain(h[j]) : Owned(fat, b)
  <2> DEFINE C == {b \in Blocks : Owned(fat, b)} \cup {FAT_EOF}
  <2>1. h[j] \in Blocks /\ h[j] \in C
    BY DEF TableGood, Owned
  <2>2. FAT_EOF \notin Blocks
    BY Numbers
  <2>3. ASSUME NEW x \in C \cap Blocks PROVE fat[x] \in C
    <3>1. fat[x] # FAT_FREE
      BY <2>2 DEF Owned
    <3> QED
      BY <3>1 DEF TableGood, Owned
  <2>4. Chain(h[j]) \subseteq C /\ Chain(h[j]) \subseteq Blocks
    <3> HIDE DEF C
    <3> QED
      BY <2>1, <2>3, ChainWithin
  <2> QED
    BY <2>1, <2>2, <2>4
<1>2. ASSUME NEW j \in H \ {i} PROVE Chain(h[i]) \cap Chain(h[j]) = {}
  <2> DEFINE E == Chain(h[j])
             C == (Blocks \cup {FAT_EOF}) \ E
  <2>1. /\ h[j] \in Blocks /\ h[i] \in Blocks /\ h[i] # h[j]
        /\ \A b \in E : Owned(fat, b)
    BY <1>1 DEF TableGood
  <2>2. \A b \in E : b # h[j] => \E d \in E \cap Blocks : b = fat[d]
    BY <2>1, ChainWithin
  <2>3. E \subseteq Blocks /\ FAT_EOF \notin Blocks
    BY <2>1, ChainWithin, Numbers
  <2> HIDE DEF E
  <2>4. h[i] \in C
    <3>1. \A d \in Blocks : fat[d] # h[i]
      BY DEF TableGood
    <3> QED
      BY <2>1, <2>2, <3>1
  <2>5. ASSUME NEW x \in C \cap Blocks PROVE fat[x] \in C
    <3>1. fat[x] \in Blocks \cup {FAT_EOF} /\ x \notin E
      BY <2>3 DEF TypeOK, FatType
    <3>2. SUFFICES ASSUME fat[x] \in E PROVE FALSE
      BY <3>1
    <3>3. fat[x] # h[j] /\ fat[x] # FAT_FREE /\ fat[x] # FAT_EOF
      BY <2>1, <2>3, <3>2 DEF TableGood, Owned, FAT_FREE, ROOT_BLOCK
    <3>4. PICK d \in E \cap Blocks : fat[x] = fat[d]
      BY <2>2, <3>2, <3>3
    <3> QED
      BY <3>1, <3>3, <3>4 DEF TableGood
  <2>6. Chain(h[i]) \subseteq C
    <3> HIDE DEF C
    <3> QED
      BY <2>1, <2>4, <2>5, ChainWithin
  <2> QED
    BY <2>6 DEF E
<1> QED
  BY <1>1, <1>2

(* What the properties see of a used slot of a good tree. *)
UsedGood(D, b, i) == /\ i \in Slots \ {0} /\ Dir(b)[i].first_blk # FAT_FREE
                     /\ Dir(b)[i].type = TYPE_DIR => Dir(b)[i].first_blk \in D

(* The directories and entries that the properties see are those of a good *)
(* tree that the state has.                                                *)
LEMMA TreeSeen ==
  ASSUME TypeOK, NEW s, NEW D, Becoming(s), Tree(s, D), NEW E, E = DirsOf(s, D)
  PROVE  /\ \A b \in D : Dir(b) = E[b]
         /\ \A b \in D : \A i \in Used(b) : UsedGood(D, b, i)
         /\ Dirs \subseteq D
<1>1. ROOT_BLOCK \in D /\ D \subseteq Blocks /\ \A b \in D : DirGood(D, E[b])
  BY DEF Tree, GoodNest, TreeGood, DirsGood
<1>2. \A b \in D : Dir(b) = E[b]
  BY DEF Becoming, DirsOf, DirIn, Dir
<1>3. ASSUME NEW b \in D, NEW i \in Used(b)
      PROVE  /\ i \in Slots \ {0} /\ Dir(b)[i].first_blk # FAT_FREE
             /\ Dir(b)[i].type = TYPE_DIR => Dir(b)[i].first_blk \in D
  BY <1>1, <1>2 DEF Used, DirGood
<1>4. Dirs \subseteq D
  <2>1. ASSUME NEW b \in D PROVE SubDirs(b) \subseteq D
    BY <1>3 DEF SubDirs
  <2> QED
    BY <1>1, <2>1, DirsWithin
<1> QED
  BY <1>1, <1>2, <1>3, <1>4 DEF UsedGood

(* On a new disk the properties see no entry.                              *)
LEMMA FreshSeen == ASSUME TypeOK, Init PROVE Dirs \subseteq {ROOT_BLOCK} /\ Used(ROOT_BLOCK) = {}
<1>1. Used(ROOT_BLOCK) = {}
  <2>1. Dir(ROOT_BLOCK) = ZeroDir
    BY DEF Init, Dir
  <2>2. \A i \in Slots : ZeroDir[i].first_blk = FAT_FREE /\ ZeroDir[i].type # TYPE_DIR
    BY DEF ZeroDir, ZeroEntry, Entry, FAT_FREE, TYPE_DIR, TYPE_FILE
  <2> QED
    BY <2>1, <2>2 DEF Used
<1>2. SubDirs(ROOT_BLOCK) = {}
  BY <1>1 DEF SubDirs
<1> QED
  BY <1>1, <1>2, DirsWithin

(* The invariant gives every file its own blocks: *)
LEMMA OwnsOnce == OwnInv => BlocksOwnedOnce
<1> SUFFICES ASSUME OwnInv PROVE BlocksOwnedOnce
  OBVIOUS
<1>0. TypeOK
  BY DEF OwnInv
<1>1. CASE Init
  <2>1. UsedSlots = {}
    BY <1>0, <1>1, FreshSeen DEF UsedSlots
  <2> QED
    BY <2>1 DEF BlocksOwnedOnce
<1>2. CASE InTree
  <2>1. PICK s, D : Becoming(s) /\ Tree(s, D)
    BY <1>2 DEF InTree
  <2> DEFINE E == DirsOf(s, D)
  <2>2. TableGood(fat, Held(D, E), Heads(D, E))
    BY <2>1 DEF Tree, GoodNest, TreeGood, Becoming
  <2>8. E = DirsOf(s, D)
    OBVIOUS
  <2> HIDE DEF E
  <2>9. /\ \A b \in D : Dir(b) = E[b]
        /\ \A b \in D : \A i \in Used(b) : UsedGood(D, b, i)
        /\ Dirs \subseteq D
    BY <1>0, <2>1, <2>8, TreeSeen
  <2>3. \A b \in D : Dir(b) = E[b]
    BY <2>9
  <2>4. ASSUME NEW b \in D, NEW i \in Used(b) PROVE i \in Slots \ {0} /\ Dir(b)[i].first_blk # FAT_FREE
    <3>1. UsedGood(D, b, i)
      BY <2>9
    <3> QED
      BY <3>1 DEF UsedGood
  <2>5. Dirs \subseteq D
    BY <2>9
  <2>6. ASSUME NEW u \in UsedSlots
        PROVE  u \in Held(D, E) /\ EntryAt(u).first_blk = Heads(D, E)[u]
    <3>1. PICK b \in Dirs : u \in {b} \X Used(b)
      BY DEF UsedSlots
    <3>2. u[1] = b /\ u[2] \in Used(b) /\ u = <<u[1], u[2]>> /\ b \in D
      BY <2>5, <3>1
    <3>3. u[2] \in Slots \ {0} /\ EntryAt(u) = E[u[1]][u[2]] /\ EntryAt(u).first_blk # FAT_FREE
      BY <2>3, <2>4, <3>2 DEF EntryAt
    <3>4. u \in SlotsIn(D)
      BY <3>2, <3>3 DEF SlotsIn
    <3> QED
      BY <3>3, <3>4 DEF Held, Heads
  <2> DEFINE H == Held(D, E)
             h == Heads(D, E)
  <2>7. ASSUME NEW u \in UsedSlots
        PROVE  /\ \A b \in Chain(EntryAt(u).first_blk) : b \notin {ROOT_BLOCK, FAT_BLOCK} /\ fat[b] # FAT_FREE
               /\ \A v \in UsedSlots \ {u} :
                    Chain(EntryAt(u).first_blk) \cap Chain(EntryAt(v).first_blk) = {}
    <3>1. u \in H /\ EntryAt(u).first_blk = h[u] /\ TableGood(fat, H, h)
      BY <2>2, <2>6
    <3>2. \A v \in UsedSlots \ {u} : v \in H \ {u} /\ EntryAt(v).first_blk = h[v]
      BY <2>6
    <3> HIDE DEF H, h
    <3>3. /\ \A b \in Chain(h[u]) : Owned(fat, b)
          /\ \A j \in H \ {u} : Chain(h[u]) \cap Chain(h[j]) = {}
      BY <1>0, <3>1, ChainsApart
    <3> QED
      BY <3>1, <3>2, <3>3 DEF Owned
  <2> QED
    BY <2>7 DEF BlocksOwnedOnce
<1> QED
  BY <1>1, <1>2 DEF OwnInv

(* In local use the tree is nested, too,                                   *)
LEMMA NestedWell == LocalUse /\ OwnInv => TreeWellFormed
<1> SUFFICES ASSUME LocalUse, OwnInv PROVE TreeWellFormed
  OBVIOUS
<1>0. TypeOK
  BY DEF OwnInv
<1>1. CASE Init
  <2>1. \A b \in Dirs : Used(b) = {} /\ SubDirs(b) = {}
    BY <1>0, <1>1, FreshSeen DEF SubDirs
  <2> QED
    BY <2>1 DEF TreeWellFormed
<1>2. CASE InTree
  <2>1. PICK s, D : Becoming(s) /\ Tree(s, D)
    BY <1>2 DEF InTree
  <2>2. PICK E : E = DirsOf(s, D)
    OBVIOUS
  <2>3. Nested(D, E)
    BY <2>1, <2>2, TreeFacts DEF Nest
  <2>4. /\ \A b \in D : Dir(b) = E[b]
        /\ \A b \in D : \A i \in Used(b) : UsedGood(D, b, i)
        /\ Dirs \subseteq D
    BY <1>0, <2>1, <2>2, TreeSeen
  <2>5. ASSUME NEW b \in D
        PROVE  /\ \A d \in SubDirs(b) : Dir(d)[0].name = Parent /\ Dir(d)[0].first_blk = b
               /\ \A i, j \in Used(b) : Dir(b)[i].name = Dir(b)[j].name => i = j
               /\ \A i \in Used(b) : Dir(b)[i].name \in Names
    <3>4. ASSUME NEW i \in Used(b)
          PROVE  /\ i \in Slots \ {0} /\ Dir(b)[i].first_blk # FAT_FREE
                 /\ Dir(b)[i].type = TYPE_DIR => Dir(b)[i].first_blk \in D
      <4>1. UsedGood(D, b, i)
        BY <2>4
      <4> QED
        BY <4>1 DEF UsedGood
    <3>5. Dir(b) = E[b] /\ \A d \in D : Dir(d) = E[d]
      BY <2>4
    <3>1. ASSUME NEW d \in SubDirs(b) PROVE Dir(d)[0].name = Parent /\ Dir(d)[0].first_blk = b
      <4>1. PICK i \in Used(b) : Dir(b)[i].type = TYPE_DIR /\ d = Dir(b)[i].first_blk
        BY DEF SubDirs
      <4>2. d \in D /\ Lists(E[b], d)
        BY <3>4, <3>5, <4>1 DEF Lists
      <4>3. Up(E, d) = b /\ E[d][0].name = Parent
        BY <2>3, <4>2 DEF Nested, Named
      <4> QED
        BY <3>5, <4>2, <4>3 DEF Up
    <3>2. Named(E[b])
      BY <2>3 DEF Nested
    <3>3. \A i \in Used(b) : i \in Slots \ {0} /\ E[b][i].first_blk # FAT_FREE /\ Dir(b) = E[b]
      BY <3>4, <3>5
    <3> QED
      BY <3>1, <3>2, <3>3 DEF Named
  <2> QED
    BY <2>4, <2>5 DEF TreeWellFormed
<1> QED
  BY <1>1, <1>2 DEF OwnInv

(* and the cached root is on disk when the user is not in it.              *)
LEMMA CachedRoot == LocalUse /\ OwnInv => RootCacheCoherent
<1> SUFFICES ASSUME LocalUse, OwnInv, cwd.blk # ROOT_BLOCK PROVE disk[ROOT_BLOCK] = InDir(root_dir)
  BY DEF RootCacheCoherent
<1>1. ~Init
  BY DEF Init
<1>2. PICK s, D : Becoming(s) /\ Tree(s, D)
  BY <1>1 DEF OwnInv, InTree
<1>3. Rooted(s, D) /\ ROOT_BLOCK \in D /\ Nested(D, DirsOf(s, D)) /\ ROOT_BLOCK \in Blocks
  BY <1>2, TreeFacts DEF Nest
<1>4. root_dir = AsDir(disk[ROOT_BLOCK])
  BY <1>2, <1>3 DEF Rooted, DirIn, Becoming
<1>5. root_dir[0].name = Parent
  BY <1>2, <1>3 DEF Nested, Named, DirsOf, Rooted, Becoming
<1>6. disk[ROOT_BLOCK] \in BlockType
  BY <1>3 DEF OwnInv, TypeOK
<1>7. disk[ROOT_BLOCK].kind = "dir"
  <2>1. ZeroDir[0].name # Parent
    BY Numbers, Zenon DEF ZeroDir, ZeroEntry, Entry, NoName, Parent
  <2> QED
    BY <1>4, <1>5, <2>1 DEF AsDir
<1> QED
  BY <1>4, <1>6, <1>7 DEF BlockType, AsDir, InDir

(* As long as users keep to the root directory, never move "..", append no *)
(* file to itself and fill no block of a file to its end by an append, and *)
(* also if they use cd, but change things by their names where they are    *)
(* and do not append, no two entries of the tree ever share a block, and   *)
(* none owns a free one, the root's or the table's: create, cp, mv, rm and *)
(* chmod of files and directories in any number and order, on a disk of    *)
(* any size, also one that runs full, and with restarts in between.        *)
THEOREM OwnedOnce == RootUse \/ LocalUse => (Spec => []BlocksOwnedOnce)
<1> SUFFICES ASSUME RootUse \/ LocalUse PROVE Spec => []BlocksOwnedOnce
  OBVIOUS
<1>1. OwnInv /\ [Next]_vars => OwnInv'
  BY OwnStep
<1> QED
  BY <1>1, OwnInit, OwnsOnce, PTL DEF Spec

(* In local use the tree keeps its form: ".." of every sub-directory is    *)
(* the directory that lists it, also after it was left and entered again   *)
(* on other ways, and no name is there twice.                              *)
THEOREM LocalTreeWellFormed == LocalUse => (Spec => []TreeWellFormed)
<1> SUFFICES ASSUME LocalUse PROVE Spec => []TreeWellFormed
  OBVIOUS
<1>1. OwnInv /\ [Next]_vars => OwnInv'
  BY OwnStep
<1>2. OwnInv => TreeWellFormed
  BY NestedWell
<1> QED
  BY <1>1, <1>2, OwnInit, PTL DEF Spec

(* In local use the root directory in memory, from which absolute paths    *)
(* start, is the one on disk whenever the user is somewhere else: a write  *)
(* through a path cannot go past it (finding 2 shows that it can if a      *)
(* command may change a directory that is not the working directory).      *)
THEOREM LocalRootCoherent == LocalUse => (Spec => []RootCacheCoherent)
<1> SUFFICES ASSUME LocalUse PROVE Spec => []RootCacheCoherent
  OBVIOUS
<1>1. OwnInv /\ [Next]_vars => OwnInv'
  BY OwnStep
<1>2. OwnInv => RootCacheCoherent
  BY CachedRoot
<1> QED
  BY <1>1, <1>2, OwnInit, PTL DEF Spec

-----------------------------------------------------------------------------
ComesTo(s, D, E, comps, k, w, d) ==
  /\ DirsGood(D, E) /\ Nested(D, E) /\ \A b \in D : AsDir(s.disk[b]) = E[b]
  /\ w \in WalkState /\ w.ok /\ w.blk \in D /\ w.dir = E[w.blk] /\ ~(k < Len(comps) /\ CompLen(comps[k]) < w.pos)
  /\ d \in D /\ (IF comps[k] = NoName THEN d = w.blk ELSE Enters(E[w.blk], comps[k], d))

(* A turn of the walk along a route: the next component stays or is the    *)
(* name of a directory, and the slash behind it is not missed.             *)
LEMMA WalksOn ==
  ASSUME NEW s, NEW D, NEW E, NEW comps, NEW k, NEW w, NEW d, ComesTo(s, D, E, comps, k, w, d),
         NEW v, v = walk_into(s, comps, {}, w, k)
  PROVE  v.ok /\ v.blk = d /\ v.dir = E[d] /\ v.pos = CompLen(comps[k])
<1>0. PICK c : c = comps[k]
  OBVIOUS
<1>5. /\ DirsGood(D, E) /\ Nested(D, E) /\ \A b \in D : AsDir(s.disk[b]) = E[b]
      /\ w \in WalkState /\ w.ok /\ w.blk \in D /\ w.dir = E[w.blk] /\ ~(k < Len(comps) /\ CompLen(c) < w.pos)
      /\ d \in D /\ (IF c = NoName THEN d = w.blk ELSE Enters(E[w.blk], c, d))
  BY <1>0 DEF ComesTo
<1> DEFINE S == {j \in Slots : w.dir[j].name = c /\ w.dir[j].type = TYPE_DIR}
           found == IF c = NoName THEN {} ELSE S
           i == First(found)
           missed == k < Len(comps) /\ CompLen(c) < w.pos
           into(e) == [ok |-> TRUE, blk |-> e.first_blk, info |-> e, dir |-> AsDir(s.disk[e.first_blk]), pos |-> CompLen(c)]
<1>1. v = IF ~w.ok \/ missed \/ (c # NoName /\ found = {}) THEN [w EXCEPT !.ok = FALSE]
          ELSE IF found = {} THEN [w EXCEPT !.pos = CompLen(c)] ELSE into(w.dir[i])
  BY <1>0 DEF walk_into
<1>2. w.ok /\ ~missed
  BY <1>5
<1>3. CASE c = NoName
  <2>1. v = [w EXCEPT !.pos = CompLen(c)]
    BY <1>1, <1>2, <1>3
  <2> QED
    BY <1>0, <1>3, <1>5, <2>1 DEF WalkState
<1>4. CASE c # NoName
  <2>1. PICK j \in Slots : w.dir[j].name = c /\ w.dir[j].type = TYPE_DIR /\ w.dir[j].first_blk = d
    BY <1>4, <1>5 DEF Enters
  <2>2. found = S /\ S \in SUBSET Nat /\ S # {}
    BY <1>4, <2>1, Numbers
  <2>3. i \in S
    <3> HIDE DEF S
    <3> QED
      BY <2>2, FirstIn
  <2>4. i \in Slots /\ w.dir[i].name = c /\ w.dir[i].type = TYPE_DIR
    BY <2>3
  <2>5. DirGood(D, w.dir) /\ Named(w.dir)
    BY <1>5 DEF DirsGood, Nested
  <2> HIDE DEF i
  <2>6. w.dir[i].first_blk = d
    BY <2>1, <2>4, <2>5, OnceNamed
  <2>7. v = into(w.dir[i])
    <3> HIDE DEF into, found, missed
    <3> QED
      BY <1>1, <1>2, <1>4, <2>2 DEF i
  <2> QED
    BY <1>0, <1>5, <2>6, <2>7
<1> QED
  BY <1>3, <1>4

(* A route from the root on which the scanner finds every slash: all names *)
(* of directories are of one length (finding ShorterName).                 *)
Even(comps) == \A k \in 1 .. Len(comps) - 1 : comps[k] \in FolderNames
OnRoute(s, D, E, comps, g) ==
  /\ s \in StateType /\ DirsGood(D, E) /\ Nested(D, E) /\ s.root = E[ROOT_BLOCK] /\ \A b \in D : AsDir(s.disk[b]) = E[b]
  /\ Route(D, E, comps, g) /\ g[0] = ROOT_BLOCK /\ Even(comps)

(* The walk along it succeeds. *)
LEMMA WalkSucceeds ==
  ASSUME LocalUse, EvenNames, NEW s, NEW D, NEW E, NEW path \in PathType, path.abs, NEW g, OnRoute(s, D, E, path.comps, g)
  PROVE  Walk(s, path, {}).ok /\ Walk(s, path, {}).blk = g[Len(path.comps)]
<1> DEFINE n == Len(path.comps)
           comps == path.comps
           Right(w, k) == /\ w.ok /\ w.blk = g[k] /\ w.dir = E[g[k]]
                          /\ k = 0 => w.pos = 0
                          /\ k # 0 => w.pos = CompLen(comps[k])
<1>0. /\ s \in StateType /\ DirsGood(D, E) /\ Nested(D, E) /\ s.root = E[ROOT_BLOCK] /\ \A b \in D : AsDir(s.disk[b]) = E[b]
      /\ Route(D, E, comps, g) /\ g[0] = ROOT_BLOCK /\ Even(comps)
  BY DEF OnRoute
<1>1. {} \in {{}, {0}}
  OBVIOUS
<1>2. PICK a \in [0 .. n -> WalkState] :
           /\ a[0] = walk_from(s, path)
           /\ \A k \in 1 .. n : a[k] = walk_into(s, path.comps, {}, a[k - 1], k)
           /\ Walk(s, path, {}) = a[n]
  BY <1>0, <1>1, WalkRuns
<1> DEFINE K == {k \in 0 .. n : Right(a[k], k)}
<1>3. n \in Nat
  BY DEF PathType
<1>4. 0 \in K
  BY <1>0, <1>2, <1>3 DEF walk_from
<1>5. ASSUME NEW c \in FolderNames PROVE CompLen(c) = NameLen[c] /\ NameLen[c] \in Nat
  BY FoldersChosen, NamesAssumption DEF CompLen
<1>6. ASSUME NEW k \in 1 .. n, k - 1 \in K PROVE k \in K
  <2>1. PICK w, v, c, d, m : w = a[k - 1] /\ v = a[k] /\ c = comps[k] /\ d = g[k] /\ m = k - 1
    OBVIOUS
  <2>2. k \in 0 .. n /\ m \in 0 .. n /\ w \in WalkState /\ v = walk_into(s, comps, {}, w, k) /\ Right(w, m)
    BY <1>2, <1>3, <1>6, <2>1
  <2>3. d \in D /\ g[m] \in D /\ (IF c = NoName THEN d = g[m] ELSE Enters(E[g[m]], c, d))
    BY <1>0, <1>3, <2>1, <2>2 DEF Route
  <2>4. ~(k < n /\ CompLen(c) < w.pos)
    <3> SUFFICES ASSUME k < n PROVE ~(CompLen(c) < w.pos)
      OBVIOUS
    <3>1. c \in FolderNames
      BY <1>0, <1>3, <2>1 DEF Even
    <3>2. CompLen(c) = NameLen[c] /\ NameLen[c] \in Nat
      BY <1>5, <3>1
    <3>3. CASE m = 0
      BY <2>2, <3>2, <3>3
    <3>4. CASE m # 0
      <4>1. m \in 1 .. n - 1
        BY <1>3, <2>1, <2>2, <3>4
      <4>2. PICK x : x = comps[m]
        OBVIOUS
      <4>3. x \in FolderNames
        BY <1>0, <4>1, <4>2 DEF Even
      <4>4. CompLen(x) = NameLen[x] /\ NameLen[x] = NameLen[c]
        BY <1>5, <3>1, <4>3 DEF EvenNames
      <4>5. w.pos = CompLen(x)
        BY <2>2, <3>4, <4>2
      <4> QED
        BY <3>2, <4>4, <4>5
    <3> QED
      BY <3>3, <3>4
  <2>5. v.ok /\ v.blk = d /\ v.dir = E[d] /\ v.pos = CompLen(c)
    <3>1. w.ok /\ w.blk = g[m] /\ w.dir = E[g[m]] /\ w.dir = E[w.blk] /\ w.blk \in D
      BY <2>2, <2>3
    <3>2. PICK cs : cs = comps
      OBVIOUS
    <3>3. ~(k < Len(cs) /\ CompLen(c) < w.pos) /\ c = cs[k] /\ v = walk_into(s, cs, {}, w, k) /\ w \in WalkState
      BY <2>1, <2>2, <2>4, <3>2
    <3>4. d \in D /\ (IF c = NoName THEN d = w.blk ELSE Enters(E[w.blk], c, d))
      BY <2>3, <3>1
    <3> HIDE DEF comps, n, Right, K
    <3>5. ComesTo(s, D, E, cs, k, w, d)
      BY <1>0, <3>1, <3>3, <3>4 DEF ComesTo
    <3> QED
      BY <1>0, <2>1, <3>1, <3>2, <3>3, <3>5, WalksOn
  <2>6. Right(v, k)
    BY <2>1, <2>5
  <2> HIDE DEF Right
  <2> QED
    BY <2>1, <2>2, <2>6
<1>7. n \in K
  <2> HIDE DEF n, K
  <2>1. \A k \in 0 .. n : k \in K
    BY <1>3, <1>4, <1>6, EveryTurn
  <2> QED
    BY <1>3, <2>1
<1> QED
  BY <1>2, <1>7

(* So does change_cwd. *)
LEMMA ChangeSucceeds ==
  ASSUME LocalUse, EvenNames, NEW t, NEW D, Rooted(t, D), NEW E, E = DirsOf(t, D), Nested(D, E),
         NEW path \in PathType, path.abs, Even(path.comps),
         NEW g, Route(D, E, path.comps, g), g[0] = ROOT_BLOCK
  PROVE  change_cwd(t, path).ok /\ change_cwd(t, path).s.cwd.blk = g[Len(path.comps)]
<1> DEFINE u == Saved(t)
           w == Walk(u, path, {})
           moved == [u EXCEPT !.cwd = [entries |-> w.dir, info |-> w.info, blk |-> w.blk]]
<1>1. change_cwd(t, path) = IF path = EmptyPath THEN [ok |-> TRUE, s |-> t]
                            ELSE IF ~w.ok THEN [ok |-> FALSE, s |-> u] ELSE [ok |-> TRUE, s |-> moved]
  BY DEF change_cwd, Saved
<1>2. Visits(t, u, D) /\ u.cwd = t.cwd /\ \A b \in D : AsDir(u.disk[b]) = DirIn(t, b)
  BY SavedGood, VisitsHere
<1>3. DirsGood(D, E) /\ (\A b \in D : E[b] = DirIn(t, b)) /\ t \in StateType /\ t.cwd.blk \in D
  BY DEF Rooted, DirsOf
<1>4. u \in StateType /\ u.root = E[ROOT_BLOCK] /\ \A b \in D : AsDir(u.disk[b]) = E[b]
  BY <1>2, <1>3 DEF Visits, Rooted, DirsGood
<1>5. path # EmptyPath
  BY DEF EmptyPath, Path
<1>6. moved.cwd.blk = w.blk
  BY <1>4 DEF StateType
<1> HIDE DEF u, moved
<1>7. OnRoute(u, D, E, path.comps, g)
  BY <1>3, <1>4 DEF OnRoute
<1>8. w.ok /\ w.blk = g[Len(path.comps)]
  BY <1>7, WalkSucceeds
<1> HIDE DEF w
<1> QED
  BY <1>1, <1>5, <1>6, <1>8

(* A route goes on to a directory that is listed where it ends. *)
LEMMA RouteOn ==
  ASSUME NEW D, NEW E, NEW comps \in Seq(Words), NEW g, Route(D, E, comps, g),
         NEW x \in Words \ {NoName}, NEW d \in D, Enters(E[g[Len(comps)]], x, d)
  PROVE  \E h : /\ Route(D, E, comps \o <<x>>, h) /\ h[0] = g[0]
                /\ h[Len(comps \o <<x>>)] = d
<1> DEFINE n == Len(comps)
           h == [k \in 0 .. n + 1 |-> IF k = n + 1 THEN d ELSE g[k]]
           longer == comps \o <<x>>
<1>1. n \in Nat /\ Len(longer) = n + 1 /\ longer[n + 1] = x /\ \A k \in 1 .. n : longer[k] = comps[k]
  OBVIOUS
<1>2. g \in [0 .. n -> D]
  BY DEF Route
<1>3. h \in [0 .. n + 1 -> D]
  <2>1. \A k \in 0 .. n + 1 : k = n + 1 \/ k \in 0 .. n
    BY <1>1
  <2> QED
    BY <1>1, <1>2, <2>1
<1>4. h[n + 1] = d /\ \A k \in 0 .. n : h[k] = g[k]
  BY <1>1
<1> HIDE DEF h, longer
<1>5. ASSUME NEW k \in 1 .. n + 1
      PROVE  IF longer[k] = NoName THEN h[k] = h[k - 1] ELSE Enters(E[h[k - 1]], longer[k], h[k])
  <2>1. CASE k = n + 1
    <3>1. h[k] = d /\ h[k - 1] = g[n] /\ longer[k] = x
      BY <1>1, <1>4, <2>1
    <3> QED
      BY <3>1
  <2>2. CASE k # n + 1
    <3>1. k \in 1 .. n /\ k \in 0 .. n /\ k - 1 \in 0 .. n
      BY <1>1, <2>2
    <3>2. longer[k] = comps[k] /\ h[k] = g[k] /\ h[k - 1] = g[k - 1]
      BY <1>1, <1>4, <3>1
    <3> QED
      BY <3>1, <3>2 DEF Route
  <2> QED
    BY <2>1, <2>2
<1>6. Route(D, E, longer, h)
  BY <1>1, <1>3, <1>5 DEF Route
<1>7. h[Len(longer)] = d /\ h[0] = g[0]
  BY <1>1, <1>4
<1> QED
  BY <1>6, <1>7 DEF longer

-----------------------------------------------------------------------------
(* The nodes of the tree, that the search for paths comes to. *)
NodeType  == [path : Seq(Words), entry : EntryType]
TopNode   == [path |-> <<>>, entry |-> Dir(ROOT_BLOCK)[0]]
Grown(ns) == ns \cup UNION {Children(n) : n \in {n \in ns : n.entry.type = TYPE_DIR}}

(* A directory as it is seen has the type of one, *)
LEMMA DirSeen == ASSUME TypeOK, NEW b \in Blocks PROVE Dir(b) \in DirType
<1>1. AsDir(disk[b]) \in DirType /\ cwd.entries \in DirType
  BY ReadingTypes DEF TypeOK, CwdType
<1> QED
  BY <1>1 DEF Dir

(* so the root is a node, *)
LEMMA TopType == ASSUME TypeOK PROVE {TopNode} \in SUBSET NodeType
<1>1. Dir(ROOT_BLOCK)[0] \in EntryType
  BY DirSeen, Numbers DEF DirType
<1> QED
  BY <1>1 DEF TopNode, NodeType

(* a turn of the search comes to nodes, *)
LEMMA GrownType == ASSUME TypeOK, NEW ns \in SUBSET NodeType PROVE Grown(ns) \in SUBSET NodeType
<1>1. ASSUME NEW n \in ns, NEW m \in Children(n) PROVE m \in NodeType
  <2>1. n \in NodeType /\ n.path \in Seq(Words) /\ n.entry.first_blk \in Blocks
    BY DEF NodeType, EntryType
  <2>2. PICK e \in {Dir(n.entry.first_blk)[i] : i \in Used(n.entry.first_blk)} :
             m = [path |-> n.path \o <<e.name>>, entry |-> e]
    BY DEF Children
  <2>3. Dir(n.entry.first_blk) \in DirType
    BY <2>1, DirSeen
  <2>4. e \in EntryType
    BY <2>3 DEF Used, DirType
  <2>5. n.path \o <<e.name>> \in Seq(Words)
    BY <2>1, <2>4 DEF EntryType
  <2> QED
    BY <2>2, <2>4, <2>5 DEF NodeType
<1> QED
  BY <1>1 DEF Grown

(* and the search has a course. *)
LEMMA NodesRun ==
  ASSUME TypeOK
  PROVE  \E a \in [0 .. NoBlocks -> SUBSET NodeType] :
           /\ a[0] = {TopNode}
           /\ \A k \in 1 .. NoBlocks : a[k] = Grown(a[k - 1])
           /\ Nodes = a[NoBlocks]
<1> DEFINE x == {TopNode}
           N == NoBlocks
           g == [k \in 1 .. N |-> [r \in SUBSET NodeType |-> Grown(r)]]
           at[k \in 0 .. NoBlocks] == IF k = 0 THEN {x} ELSE {Grown(y) : y \in at[k - 1]}
<1>1. x \in SUBSET NodeType /\ N \in Nat
  BY SizesAssumption, TopType
<1>2. ASSUME NEW r \in SUBSET NodeType PROVE Grown(r) \in SUBSET NodeType
  BY GrownType
<1>3. g \in [1 .. N -> [SUBSET NodeType -> SUBSET NodeType]]
  BY <1>2
<1>4. Nodes = CHOOSE y \in at[N] : TRUE
  BY DEF Nodes, Turn, Grown, TopNode
<1>5. PICK a : Course(N, SUBSET NodeType, x, g, a)
  <2> HIDE DEF x, g, N
  <2> QED
    BY <1>1, <1>3, LoopRuns, Zenon
<1>6. a \in [0 .. N -> SUBSET NodeType] /\ a[0] = x
  BY <1>5 DEF Course
<1>7. ASSUME NEW k \in 1 .. N PROVE /\ k \in 0 .. N /\ k - 1 \in 0 .. N /\ k # 0
                                     /\ a[k] = Grown(a[k - 1])
  <2>1. k \in 0 .. N /\ k - 1 \in 0 .. N /\ k # 0
    <3> HIDE DEF N
    <3> QED
      BY <1>1
  <2>2. a[k - 1] \in SUBSET NodeType
    BY <1>6, <2>1
  <2>3. a[k] = g[k][a[k - 1]]
    BY <1>5 DEF Course
  <2> QED
    BY <2>1, <2>2, <2>3
<1> DEFINE b == [k \in 0 .. N |-> {a[k]}]
<1>8. b = [k \in 0 .. N |-> IF k = 0 THEN {x} ELSE {Grown(y) : y \in b[k - 1]}]
  <2> HIDE DEF x, g, N
  <2> SUFFICES ASSUME NEW k \in 0 .. N
               PROVE  {a[k]} = IF k = 0 THEN {x} ELSE {Grown(y) : y \in b[k - 1]}
    OBVIOUS
  <2>1. CASE k = 0
    BY <1>6, <2>1
  <2>2. CASE k # 0
    <3>1. k \in 1 .. N
      BY <1>1, <2>2
    <3>2. b[k - 1] = {a[k - 1]}
      BY <1>7, <3>1
    <3> HIDE DEF b
    <3> QED
      BY <1>7, <2>2, <3>1, <3>2
  <2> QED
    BY <2>1, <2>2
<1>9. at = [k \in 0 .. N |-> IF k = 0 THEN {x} ELSE {Grown(y) : y \in at[k - 1]}]
  <2> HIDE DEF b, x
  <2> QED
    BY <1>8 DEF at
<1> HIDE DEF at, x, g, N
<1> DEFINE K == {k \in 0 .. N : at[k] = {a[k]}}
<1>10. \A k \in 0 .. N : k \in K
  <2>1. 0 \in K
    BY <1>1, <1>6, <1>9
  <2>2. ASSUME NEW k \in 1 .. N, k - 1 \in K PROVE k \in K
    <3>1. at[k] = {Grown(y) : y \in at[k - 1]}
      BY <1>7, <1>9
    <3>2. at[k - 1] = {a[k - 1]}
      BY <2>2
    <3> QED
      BY <1>7, <3>1, <3>2
  <2> HIDE DEF K
  <2> QED
    BY <1>1, <2>1, <2>2, EveryTurn
<1>11. at[N] = {a[N]}
  BY <1>1, <1>10
<1> QED
  BY <1>4, <1>6, <1>7, <1>11 DEF x, N

(* A node that is a directory is where the route along its path ends. *)
NodeGood(D, E, n) ==
  n.entry.type = TYPE_DIR =>
    /\ n.entry.first_blk \in D /\ \A k \in 1 .. Len(n.path) : n.path[k] \in FolderNames
    /\ \E g : Route(D, E, n.path, g) /\ g[0] = ROOT_BLOCK /\ g[Len(n.path)] = n.entry.first_blk

(* So are the directories in it. *)
LEMMA ChildGood ==
  ASSUME LocalUse, TypeOK, NEW D, NEW E, DirsGood(D, E), Nested(D, E), \A b \in D : Dir(b) = E[b],
         \A b \in D : \A i \in Used(b) : UsedGood(D, b, i),
         NEW n \in NodeType, n.entry.type = TYPE_DIR, NodeGood(D, E, n), NEW m \in Children(n)
  PROVE  NodeGood(D, E, m)
<1> SUFFICES ASSUME m.entry.type = TYPE_DIR
             PROVE  /\ m.entry.first_blk \in D /\ \A k \in 1 .. Len(m.path) : m.path[k] \in FolderNames
                    /\ \E g : Route(D, E, m.path, g) /\ g[0] = ROOT_BLOCK /\ g[Len(m.path)] = m.entry.first_blk
  BY DEF NodeGood
<1>1. PICK b : b = n.entry.first_blk
  OBVIOUS
<1>2. PICK p : p = n.path
  OBVIOUS
<1>3. b \in D /\ (\A k \in 1 .. Len(p) : p[k] \in FolderNames) /\ p \in Seq(Words)
  BY <1>1, <1>2 DEF NodeGood, NodeType
<1>4. PICK g : Route(D, E, p, g) /\ g[0] = ROOT_BLOCK /\ g[Len(p)] = b
  BY <1>1, <1>2 DEF NodeGood
<1>5. PICK i \in Used(b) : m = [path |-> p \o <<Dir(b)[i].name>>, entry |-> Dir(b)[i]]
  BY <1>1, <1>2 DEF Children
<1>6. PICK x, d : x = E[b][i].name /\ d = E[b][i].first_blk
  OBVIOUS
<1>7. Dir(b) = E[b] /\ UsedGood(D, b, i)
  BY <1>3, <1>5
<1>8. m = [path |-> p \o <<x>>, entry |-> E[b][i]]
  BY <1>5, <1>6, <1>7
<1>9. i \in Slots \ {0} /\ E[b][i].type = TYPE_DIR /\ d \in D
  BY <1>6, <1>7, <1>8 DEF UsedGood
<1>10. x \in FolderNames /\ x \in Words \ {NoName}
  <2>1. x \in FolderNames
    BY <1>3, <1>6, <1>9 DEF Nested, Named
  <2> QED
    BY <2>1, FoldersChosen, NamesAssumption DEF Words
<1>11. Enters(E[g[Len(p)]], x, d)
  BY <1>4, <1>6, <1>9 DEF Enters
<1>12. \E h : Route(D, E, p \o <<x>>, h) /\ h[0] = g[0] /\ h[Len(p \o <<x>>)] = d
  BY <1>3, <1>4, <1>9, <1>10, <1>11, RouteOn
<1>13. \A k \in 1 .. Len(p \o <<x>>) : (p \o <<x>>)[k] \in FolderNames
  BY <1>3, <1>10
<1>14. m.path = p \o <<x>> /\ m.entry.first_blk = d
  BY <1>6, <1>8
<1> QED
  BY <1>4, <1>9, <1>12, <1>13, <1>14

(* So all directories that the search comes to are. *)
LEMMA NodesGood ==
  ASSUME LocalUse, TypeOK, NEW D, NEW E, DirsGood(D, E), Nested(D, E), \A b \in D : Dir(b) = E[b],
         \A b \in D : \A i \in Used(b) : UsedGood(D, b, i)
  PROVE  Nodes \subseteq NodeType /\ \A n \in Nodes : NodeGood(D, E, n)
<1>1. PICK a \in [0 .. NoBlocks -> SUBSET NodeType] :
        /\ a[0] = {TopNode} /\ Nodes = a[NoBlocks]
        /\ \A k \in 1 .. NoBlocks : a[k] = Grown(a[k - 1])
  BY NodesRun
<1> DEFINE K == {k \in 0 .. NoBlocks : \A n \in a[k] : NodeGood(D, E, n)}
<1>2. NoBlocks \in Nat /\ 0 \in 0 .. NoBlocks /\ NoBlocks \in 0 .. NoBlocks
  BY SizesAssumption
<1>3. 0 \in K
  <2> DEFINE g == [k \in 0 .. 0 |-> ROOT_BLOCK]
  <2>1. ROOT_BLOCK \in D /\ E[ROOT_BLOCK][0].first_blk = ROOT_BLOCK
    BY DEF DirsGood, Nested, Up
  <2>2. TopNode.path = <<>> /\ TopNode.entry.first_blk = ROOT_BLOCK /\ Len(<<>>) = 0
    BY <2>1 DEF TopNode
  <2>3. g[0] = ROOT_BLOCK /\ g \in [0 .. 0 -> D]
    BY <2>1
  <2> HIDE DEF g
  <2>4. Route(D, E, <<>>, g)
    BY <2>2, <2>3 DEF Route
  <2>5. NodeGood(D, E, TopNode)
    BY <2>1, <2>2, <2>3, <2>4 DEF NodeGood
  <2> QED
    BY <1>1, <1>2, <2>5
<1>4. ASSUME NEW k \in 1 .. NoBlocks, k - 1 \in K PROVE k \in K
  <2>1. PICK ns : ns = a[k - 1]
    OBVIOUS
  <2>2. k \in 0 .. NoBlocks /\ k - 1 \in 0 .. NoBlocks /\ a[k] = Grown(ns) /\ \A n \in ns : n \in NodeType /\ NodeGood(D, E, n)
    BY <1>1, <1>2, <1>4, <2>1
  <2> HIDE DEF K
  <2>3. ASSUME NEW n \in ns, n.entry.type = TYPE_DIR, NEW m \in Children(n) PROVE NodeGood(D, E, m)
    BY <2>2, <2>3, ChildGood
  <2>4. \A m \in Grown(ns) : NodeGood(D, E, m)
    BY <2>2, <2>3 DEF Grown
  <2> QED
    BY <2>2, <2>4 DEF K
<1>5. NoBlocks \in K
  <2> HIDE DEF K
  <2> QED
    BY <1>2, <1>3, <1>4, EveryTurn
<1> QED
  BY <1>1, <1>2, <1>5

(* The path of any directory leads to it, and the path that pwd prints to *)
(* where the user is.                                                      *)
LEMMA PathsLead ==
  LocalUse /\ EvenNames /\ OwnInv => PathsResolve /\ PwdLeadsBack
<1> SUFFICES ASSUME LocalUse, EvenNames, OwnInv, Formatted PROVE PathsResolve /\ PwdLeadsBack
  BY DEF PathsResolve, PwdLeadsBack
<1>1. TypeOK /\ ~Init
  <2>1. FAT_FREE # FAT_EOF /\ ROOT_BLOCK \in Blocks
    BY Numbers
  <2>2. ~Init
    BY <2>1 DEF Init, Formatted, ZeroFat
  <2> QED
    BY <2>2 DEF OwnInv
<1>2. PICK s, D : Becoming(s) /\ Tree(s, D)
  BY <1>1 DEF OwnInv, InTree
<1>3. PICK E : E = DirsOf(s, D)
  OBVIOUS
<1>4. Rooted(s, D) /\ Nested(D, E) /\ DirsGood(D, E) /\ s \in StateType /\ SyncRoot(s) = s
  BY <1>2, <1>3, TreeFacts DEF Nest, TreeGood
<1>5. This = s
  BY <1>2, <1>4 DEF Becoming, This, StateType
<1>6. /\ \A b \in D : Dir(b) = E[b]
      /\ \A b \in D : \A i \in Used(b) : UsedGood(D, b, i)
  BY <1>1, <1>2, <1>3, TreeSeen
<1>7. ASSUME NEW n \in Nodes, n.entry.type = TYPE_DIR
      PROVE  LET w == change_cwd(s, Path(TRUE, n.path \o <<NoName>>)) IN w.ok /\ w.s.cwd.blk = n.entry.first_blk
  <2>1. n \in NodeType /\ NodeGood(D, E, n)
    BY <1>1, <1>4, <1>6, NodesGood
  <2>2. PICK p : p = n.path
    OBVIOUS
  <2>3. p \in Seq(Words) /\ \A k \in 1 .. Len(p) : p[k] \in FolderNames
    BY <1>7, <2>1, <2>2 DEF NodeGood, NodeType
  <2>4. PICK g : Route(D, E, p, g) /\ g[0] = ROOT_BLOCK /\ g[Len(p)] = n.entry.first_blk
    BY <1>7, <2>1, <2>2 DEF NodeGood
  <2>5. PICK path : path = Path(TRUE, p \o <<NoName>>)
    OBVIOUS
  <2>6. path.comps = p \o <<NoName>> /\ path.abs
    BY <2>5 DEF Path
  <2>7. PICK h : Route(D, E, path.comps, h) /\ h[0] = ROOT_BLOCK /\ h[Len(path.comps)] = n.entry.first_blk
    BY <2>3, <2>4, <2>6, RouteStays
  <2>8. path \in PathType /\ Even(path.comps)
    <3>1. p \o <<NoName>> \in Seq(Words) /\ Len(p \o <<NoName>>) = Len(p) + 1 /\ NoName \in Words
      BY <2>3 DEF Words
    <3>2. \A k \in 1 .. Len(p) : (p \o <<NoName>>)[k] = p[k]
      BY <2>3
    <3> QED
      BY <2>3, <2>5, <2>6, <3>1, <3>2 DEF Path, PathType, Even
  <2>9. change_cwd(s, path).ok /\ change_cwd(s, path).s.cwd.blk = h[Len(path.comps)]
    BY <1>3, <1>4, <2>6, <2>7, <2>8, ChangeSucceeds, ZenonT(40)
  <2> QED
    BY <2>2, <2>5, <2>7, <2>9
<1>8. LET w == change_cwd(s, Path(TRUE, pwd_comps(s))) IN w.ok /\ w.s.cwd.blk = s.cwd.blk
  <2>1. PICK p, path : p = pwd_comps(s) /\ path = Path(TRUE, p)
    BY Zenon
  <2>2. path.comps = p /\ path.abs
    BY <2>1 DEF Path
  <2>3. CASE s.cwd.blk = ROOT_BLOCK
    <3> DEFINE g == [k \in 0 .. 1 |-> ROOT_BLOCK]
    <3>1. p = <<NoName>> /\ Len(p) = 1 /\ p[1] = NoName /\ p \in Seq(Words)
      BY <2>1, <2>3 DEF pwd_comps, Words
    <3>2. g[0] = ROOT_BLOCK /\ g[1] = ROOT_BLOCK /\ g \in [0 .. 1 -> D] /\ \A k \in 1 .. 1 : k = 1 /\ k - 1 = 0
      BY <1>4 DEF DirsGood
    <3> HIDE DEF g
    <3>3. Route(D, E, p, g) /\ Even(p)
      BY <3>1, <3>2 DEF Route, Even
    <3>4. path \in PathType
      BY <2>1, <3>1 DEF Path, PathType
    <3>5. change_cwd(s, path).ok /\ change_cwd(s, path).s.cwd.blk = g[Len(p)]
      BY <1>3, <1>4, <2>2, <3>2, <3>3, <3>4, ChangeSucceeds, ZenonT(40)
    <3> QED
      BY <2>1, <2>3, <3>1, <3>2, <3>5
  <2>4. CASE s.cwd.blk # ROOT_BLOCK
    <3>1. p \in Seq(Words) \ {<<>>} /\ \A k \in 1 .. Len(p) : p[k] \in Names
      BY <1>3, <1>4, <2>1, <2>4, PwdDown
    <3>2. PICK g : Route(D, E, p, g) /\ g[0] = ROOT_BLOCK /\ g[Len(p)] = s.cwd.blk
      BY <1>3, <1>4, <2>1, <2>4, PwdDown
    <3>3. Even(p)
      <4>1. ASSUME NEW k \in 1 .. Len(p) PROVE p[k] \in FolderNames
        <5>1. PICK c, b, d : c = p[k] /\ b = g[k - 1] /\ d = g[k]
          OBVIOUS
        <5>2. c \in Names /\ c # NoName /\ c # Parent /\ k - 1 \in 0 .. Len(p)
          BY <3>1, <5>1, NamesAssumption
        <5>3. Enters(E[b], c, d) /\ b \in D
          BY <3>2, <5>1, <5>2 DEF Route
        <5>4. PICK i \in Slots : E[b][i].name = c /\ E[b][i].type = TYPE_DIR
          BY <5>3 DEF Enters
        <5>5. Named(E[b])
          BY <1>4, <5>3 DEF Nested
        <5> QED
          BY <5>1, <5>2, <5>4, <5>5 DEF Named
      <4> QED
        BY <3>1, <4>1 DEF Even
    <3>4. path \in PathType
      BY <2>1, <3>1 DEF Path, PathType
    <3>5. change_cwd(s, path).ok /\ change_cwd(s, path).s.cwd.blk = g[Len(p)]
      BY <1>3, <1>4, <2>2, <3>2, <3>3, <3>4, ChangeSucceeds
    <3> QED
      BY <2>1, <3>2, <3>5
  <2> QED
    BY <2>3, <2>4
<1>9. PathsResolve
  BY <1>4, <1>5, <1>7 DEF PathsResolve
<1>10. cwd = s.cwd
  BY <1>2 DEF Becoming
<1> QED
  BY <1>4, <1>5, <1>8, <1>9, <1>10 DEF PwdLeadsBack

(* In local use, with names of directories of one length, the path of      *)
(* every directory leads to it: no command on a file in the tree returns   *)
(* without a trace because its path was taken apart wrongly.               *)
THEOREM LocalPathsResolve == LocalUse /\ EvenNames => (Spec => []PathsResolve)
<1> SUFFICES ASSUME LocalUse, EvenNames PROVE Spec => []PathsResolve
  OBVIOUS
<1>1. OwnInv /\ [Next]_vars => OwnInv'
  BY OwnStep
<1>2. OwnInv => PathsResolve
  BY PathsLead
<1> QED
  BY <1>1, <1>2, OwnInit, PTL DEF Spec

(* Nor does the path that pwd prints ever name another directory than the  *)
(* one the user is in.                                                     *)
THEOREM LocalPwdLeadsBack == LocalUse /\ EvenNames => (Spec => []PwdLeadsBack)
<1> SUFFICES ASSUME LocalUse, EvenNames PROVE Spec => []PwdLeadsBack
  OBVIOUS
<1>1. OwnInv /\ [Next]_vars => OwnInv'
  BY OwnStep
<1>2. OwnInv => PwdLeadsBack
  BY PathsLead
<1> QED
  BY <1>1, <1>2, OwnInit, PTL DEF Spec

-----------------------------------------------------------------------------
(* The rights.  r gives the rights of every directory in S, and what a      *)
(* directory says of another one are its rights: in the entry that lists   *)
(* it, and in slot 0 of those that it lists.                               *)
Shows(S, r, e) == \A i \in Slots : e[i].type = TYPE_DIR => e[i].first_blk \in S /\ e[i].rights = r[e[i].first_blk]

Ruled(s, S, r) ==
  /\ s \in StateType /\ ROOT_BLOCK \in S /\ s.cwd.blk \in S /\ s.cwd.info.rights = r[s.cwd.blk]
  /\ \A b \in S : Shows(S, r, DirIn(s, b))

(* A command that began in s with the rights r has come to t. *)
Informed(s, D, r, t) ==
  /\ Rooted(s, D) /\ Nested(D, DirsOf(s, D)) /\ Ruled(s, D, r)
  /\ Visits(s, t, D) /\ t.cwd.info.rights = r[t.cwd.blk]

(* The root leads up to itself, and so shows its own rights. *)
LEMMA RootShows ==
  ASSUME NEW D, NEW E, DirsGood(D, E), Nested(D, E), NEW r, Shows(D, r, E[ROOT_BLOCK])
  PROVE  E[ROOT_BLOCK][0].rights = r[ROOT_BLOCK] /\ E[ROOT_BLOCK][0].type = TYPE_DIR
<1>1. ROOT_BLOCK \in D /\ DirGood(D, E[ROOT_BLOCK]) /\ 0 \in Slots
  BY Numbers DEF DirsGood
<1>2. E[ROOT_BLOCK][0].name = Parent /\ E[ROOT_BLOCK][0].first_blk = ROOT_BLOCK
  BY <1>1 DEF Nested, Named, Up
<1> QED
  BY <1>1, <1>2 DEF DirGood, Shows

(* A turn of the loop of change_cwd takes the rights of the directory that *)
(* it enters from the entry that lists it.                                 *)
Turns(s, comps, k, w, v, S, r) ==
  /\ s \in StateType /\ w \in WalkState /\ w.ok /\ Shows(S, r, w.dir) /\ w.info.rights = r[w.blk]
  /\ v = walk_into(s, comps, {}, w, k) /\ v.ok

(* So it leads from a directory whose rights are known to another one. *)
LEMMA WalkIntoRuled ==
  ASSUME NEW s, NEW comps, NEW k, NEW w, NEW v, NEW S, NEW r, Turns(s, comps, k, w, v, S, r)
  PROVE  v.info.rights = r[v.blk]
<1>0. /\ s \in StateType /\ w \in WalkState /\ w.ok /\ Shows(S, r, w.dir) /\ w.info.rights = r[w.blk]
      /\ v = walk_into(s, comps, {}, w, k) /\ v.ok
  BY DEF Turns
<1> DEFINE c == comps[k]
           C == {j \in Slots : w.dir[j].name = c /\ w.dir[j].type = TYPE_DIR}
           found == IF c = NoName THEN {} ELSE C
           e == w.dir[First(found)]
           missed == k < Len(comps) /\ CompLen(c) < w.pos
           into == [ok |-> TRUE, blk |-> e.first_blk, info |-> e, dir |-> AsDir(s.disk[e.first_blk]), pos |-> CompLen(c)]
<1>1. v = IF ~w.ok \/ missed \/ (c # NoName /\ found = {}) THEN [w EXCEPT !.ok = FALSE]
          ELSE IF found = {} THEN [w EXCEPT !.pos = CompLen(c)] ELSE into
  BY <1>0, Zenon DEF walk_into
<1>2. ASSUME w.ok, found # {} PROVE e.rights = r[e.first_blk]
  <2>1. First(found) \in C
    <3>1. found = C /\ C \in SUBSET Nat /\ C # {}
      BY <1>2, Numbers
    <3> HIDE DEF C, found
    <3> QED
      BY <3>1, FirstIn
  <2> DEFINE i == First(found)
  <2>2. i \in Slots /\ w.dir[i].type = TYPE_DIR
    BY <2>1
  <2> HIDE DEF i
  <2>3. w.dir[i].rights = r[w.dir[i].first_blk]
    BY <1>0, <2>2 DEF Shows
  <2> QED
    BY <2>3, Zenon DEF i
<1>3. [w EXCEPT !.ok = FALSE].ok = FALSE
  BY <1>0 DEF WalkState
<1>4. [w EXCEPT !.pos = CompLen(c)].blk = w.blk /\ [w EXCEPT !.pos = CompLen(c)].info = w.info
  BY <1>0 DEF WalkState
<1>5. into.blk = e.first_blk /\ into.info = e
  OBVIOUS
<1> HIDE DEF found, e, missed, into, c
<1> QED
  BY <1>0, <1>1, <1>2, <1>3, <1>4, <1>5, ZenonT(40)

(* and so has them where it ends. *)
LEMMA WalkRuled ==
  ASSUME NEW s \in StateType, NEW path \in PathType, NEW D, NEW E, DirsGood(D, E), Nested(D, E),
         \A b \in D : AsDir(s.disk[b]) = E[b], NEW r, \A b \in D : Shows(D, r, E[b]),
         s.root = E[ROOT_BLOCK], s.cwd.blk \in D, s.cwd.entries = E[s.cwd.blk], s.cwd.info.rights = r[s.cwd.blk]
  PROVE  LET w == Walk(s, path, {}) IN w.ok => w.info.rights = r[w.blk]
<1> DEFINE n == Len(path.comps)
           Right(w) == w.ok => w.blk \in D /\ w.dir = E[w.blk] /\ w.info.rights = r[w.blk]
<1>1. {} \in {{}, {0}}
  OBVIOUS
<1>2. PICK a \in [0 .. n -> WalkState] :
           /\ a[0] = walk_from(s, path)
           /\ \A k \in 1 .. n : a[k] = walk_into(s, path.comps, {}, a[k - 1], k)
           /\ Walk(s, path, {}) = a[n]
  BY <1>1, WalkRuns
<1> DEFINE K == {k \in 0 .. n : Right(a[k])}
<1>3. n \in Nat
  BY DEF PathType
<1>4. 0 \in K
  <2>1. ROOT_BLOCK \in D /\ E[ROOT_BLOCK][0].rights = r[ROOT_BLOCK]
    BY RootShows DEF DirsGood
  <2>2. Right(walk_from(s, path))
    BY <2>1 DEF walk_from
  <2> QED
    BY <1>2, <1>3, <2>2
<1>5. ASSUME NEW k \in 1 .. n, k - 1 \in K PROVE k \in K
  <2>1. k \in 0 .. n /\ k - 1 \in 0 .. n /\ a[k - 1] \in WalkState
    BY <1>2, <1>3, SMTT(40)
  <2>2. PICK w, v : w = a[k - 1] /\ v = walk_into(s, path.comps, {}, w, k)
    OBVIOUS
  <2>3. w \in WalkState /\ Right(w)
    BY <1>5, <2>1, <2>2
  <2>4. v.ok => w.ok /\ v.blk \in D /\ v.dir = E[v.blk]
    BY <2>2, <2>3, WalkIntoGood
  <2>5. ASSUME v.ok PROVE v.info.rights = r[v.blk]
    <3>1. w.ok /\ w \in WalkState
      BY <2>3, <2>4, <2>5
    <3>2. Shows(D, r, w.dir) /\ w.info.rights = r[w.blk]
      BY <2>3, <3>1
    <3>3. Turns(s, path.comps, k, w, v, D, r)
      BY <2>2, <2>5, <3>1, <3>2 DEF Turns
    <3> QED
      BY <3>3, WalkIntoRuled
  <2>6. Right(v)
    BY <2>4, <2>5
  <2>7. a[k] = v
    BY <1>2, <2>2
  <2> HIDE DEF Right
  <2> QED
    BY <2>1, <2>6, <2>7
<1>6. n \in K
  <2> HIDE DEF n, K
  <2>1. \A k \in 0 .. n : k \in K
    BY <1>3, <1>4, <1>5, EveryTurn
  <2> QED
    BY <1>3, <2>1
<1>7. Right(a[n])
  BY <1>6
<1> HIDE DEF n
<1> QED
  BY <1>2, <1>7

(* So a call of change_cwd keeps informed. *)
LEMMA ChangeInformed ==
  ASSUME NEW s, NEW D, NEW r, NEW t, Informed(s, D, r, t), NEW path \in PathType
  PROVE  Informed(s, D, r, change_cwd(t, path).s)
<1> DEFINE u == Saved(t)
           w == Walk(u, path, {})
           moved == [u EXCEPT !.cwd = [entries |-> w.dir, info |-> w.info, blk |-> w.blk]]
           E == DirsOf(s, D)
<1>1. Rooted(s, D) /\ Visits(s, t, D) /\ Nested(D, E) /\ t.cwd.info.rights = r[t.cwd.blk]
  BY DEF Informed
<1>2. Visits(s, u, D) /\ u.cwd = t.cwd /\ \A b \in D : AsDir(u.disk[b]) = DirIn(s, b)
  BY <1>1, SavedGood
<1>3. change_cwd(t, path) = IF path = EmptyPath THEN [ok |-> TRUE, s |-> t]
                            ELSE IF ~w.ok THEN [ok |-> FALSE, s |-> u]
                            ELSE [ok |-> TRUE, s |-> moved]
  BY DEF change_cwd, Saved
<1>4. DirsGood(D, E) /\ (\A b \in D : E[b] = DirIn(s, b)) /\ s \in StateType /\ \A b \in D : Shows(D, r, E[b])
  BY <1>1 DEF Rooted, DirsOf, Informed, Ruled
<1>5. u \in StateType /\ u.root = E[ROOT_BLOCK] /\ u.cwd.blk \in D /\ u.cwd.entries = E[u.cwd.blk]
      /\ (\A b \in D : AsDir(u.disk[b]) = E[b]) /\ u.cwd.info.rights = r[u.cwd.blk]
  BY <1>1, <1>2, <1>4 DEF Visits, Rooted, DirsGood
<1>6. Visits(s, change_cwd(t, path).s, D)
  BY <1>1, ChangeVisits
<1> HIDE DEF u, E
<1>7. w.ok => w.info.rights = r[w.blk]
  BY <1>1, <1>4, <1>5, WalkRuled
<1>8. moved.cwd.info = w.info /\ moved.cwd.blk = w.blk
  BY <1>5 DEF StateType
<1> HIDE DEF w, moved
<1>9. LET v == change_cwd(t, path).s IN v.cwd.info.rights = r[v.cwd.blk]
  BY <1>1, <1>3, <1>5, <1>7, <1>8
<1> QED
  BY <1>6, <1>9 DEF Informed

(* It begins so, *)
LEMMA BeginsInformed ==
  ASSUME LocalUse, NEW s, NEW D, Tree(s, D), NEW r, Ruled(s, D, r)
  PROVE  Informed(s, D, r, s)
BY TreeFacts DEF Informed, Ruled, Nest

(* and as long as it only looks the tree is ruled as before, also when it  *)
(* goes back.                                                              *)
LEMMA LookRuled ==
  ASSUME NEW s, NEW D, NEW r, NEW t, Informed(s, D, r, t)
  PROVE  Ruled(t, D, r) /\ \A b \in D : b # s.cwd.blk => AsDir(t.disk[b]) = DirIn(s, b)
<1>1. Rooted(s, D) /\ Visits(s, t, D) /\ Ruled(s, D, r) /\ t.cwd.info.rights = r[t.cwd.blk]
  BY DEF Informed
<1>2. \A b \in D : DirIn(t, b) = DirIn(s, b)
  BY <1>1, VisitsKeep
<1> QED
  BY <1>1, <1>2 DEF Ruled, Visits, DirIn

(* What exit_method is given so that it leaves r. *)
LeavesRuled(u, backup, save, S, r) ==
  /\ u \in StateType /\ backup \in CwdType /\ save \in BOOLEAN /\ S \subseteq Blocks
  /\ ROOT_BLOCK \in S /\ backup.blk \in S
  /\ (IF save /\ u.cwd.blk = backup.blk THEN u.cwd.info ELSE backup.info).rights = r[backup.blk]
  /\ \A b \in S : Shows(S, r, After(u, backup, save, b))

(* And it does. *)
LEMMA ExitRuled ==
  ASSUME NEW u, NEW backup, NEW save, NEW S, NEW r, LeavesRuled(u, backup, save, S, r)
  PROVE  Ruled(exit_method(u, backup, save), S, r)
<1> DEFINE x == exit_method(u, backup, save)
<1>1. /\ u \in StateType /\ backup \in CwdType /\ save \in BOOLEAN /\ S \subseteq Blocks
      /\ ROOT_BLOCK \in S /\ backup.blk \in S /\ \A b \in S : Shows(S, r, After(u, backup, save, b))
      /\ (IF save /\ u.cwd.blk = backup.blk THEN u.cwd.info ELSE backup.info).rights = r[backup.blk]
  BY DEF LeavesRuled
<1>2. /\ x \in StateType /\ x.cwd = (IF save /\ u.cwd.blk = backup.blk THEN u.cwd ELSE backup)
      /\ \A b \in Blocks : DirIn(x, b) = After(u, backup, save, b)
  BY <1>1, ExitDirs
<1> HIDE DEF x
<1>3. x.cwd.blk = backup.blk /\ x.cwd.info.rights = r[backup.blk]
  BY <1>1, <1>2
<1>4. \A b \in S : Shows(S, r, DirIn(x, b))
  BY <1>1, <1>2
<1>5. Ruled(x, S, r)
  BY <1>1, <1>2, <1>3, <1>4 DEF Ruled
<1> QED
  BY <1>5 DEF x

(* A command that has changed no directory goes back. *)
LEMMA QuietRuled ==
  ASSUME NEW s, NEW D, NEW r, NEW t, Informed(s, D, r, t),
         NEW u \in StateType, \A b \in D : u.disk[b] = t.disk[b]
  PROVE  Ruled(exit_method(u, s.cwd, FALSE), D, r)
<1>1. /\ s.cwd \in CwdType /\ s.cwd.blk \in D /\ D \subseteq Blocks /\ ROOT_BLOCK \in D /\ FALSE \in BOOLEAN
      /\ s.cwd.info.rights = r[s.cwd.blk] /\ \A b \in D : Shows(D, r, DirIn(s, b))
  BY DEF Informed, Ruled, Rooted, DirsGood, StateType
<1>2. \A b \in D : b # s.cwd.blk => AsDir(u.disk[b]) = DirIn(s, b)
  BY LookRuled
<1>3. \A b \in D : After(u, s.cwd, FALSE, b) = DirIn(s, b)
  BY <1>2 DEF After, DirIn
<1>4. LeavesRuled(u, s.cwd, FALSE, D, r)
  BY <1>1, <1>3 DEF LeavesRuled
<1> QED
  BY <1>4, ExitRuled

(* A directory in which one slot has been given another entry. *)
LEMMA PutShows ==
  ASSUME NEW S, NEW r, NEW e \in DirType, Shows(S, r, e), NEW i \in Slots, NEW m,
         m.type = TYPE_DIR => m.first_blk \in S /\ m.rights = r[m.first_blk]
  PROVE  Shows(S, r, [e EXCEPT ![i] = m])
<1>1. \A k \in Slots : [e EXCEPT ![i] = m][k] = IF k = i THEN m ELSE e[k]
  BY DEF DirType
<1> QED
  BY <1>1 DEF Shows

(* A command that has put the entry of a file into a directory saves it    *)
(* and goes back.                                                          *)
PutIn(D, t, i, m, u) ==
  /\ u \in StateType /\ u.cwd.blk = t.cwd.blk /\ u.cwd.info = t.cwd.info /\ \A b \in D : u.disk[b] = t.disk[b]
  /\ u.cwd.entries = [t.cwd.entries EXCEPT ![i] = m] /\ i \in Slots /\ m.type # TYPE_DIR

(* Ruled as before. *)
LEMMA PutRuled ==
  ASSUME NEW s, NEW D, NEW r, NEW t, Informed(s, D, r, t), NEW i, NEW m, NEW u, PutIn(D, t, i, m, u)
  PROVE  Ruled(exit_method(u, s.cwd, TRUE), D, r)
<1>1. /\ s.cwd \in CwdType /\ s.cwd.blk \in D /\ D \subseteq Blocks /\ ROOT_BLOCK \in D /\ TRUE \in BOOLEAN
      /\ s.cwd.info.rights = r[s.cwd.blk] /\ \A b \in D : Shows(D, r, DirIn(s, b))
  BY DEF Informed, Ruled, Rooted, DirsGood, StateType
<1>2. /\ u \in StateType /\ u.cwd.blk = t.cwd.blk /\ u.cwd.info = t.cwd.info /\ \A b \in D : u.disk[b] = t.disk[b]
      /\ u.cwd.entries = [t.cwd.entries EXCEPT ![i] = m] /\ i \in Slots /\ m.type # TYPE_DIR
  BY DEF PutIn
<1>3. t.cwd.entries \in DirType /\ t.cwd.blk \in D /\ t.cwd.entries = DirIn(s, t.cwd.blk) /\ t.cwd.info.rights = r[t.cwd.blk]
  BY DEF Informed, Visits, StateType, CwdType
<1>4. Shows(D, r, u.cwd.entries)
  BY <1>1, <1>2, <1>3, PutShows
<1>5. \A b \in D : b # s.cwd.blk => AsDir(u.disk[b]) = DirIn(s, b)
  BY <1>2, LookRuled
<1>6. \A b \in D : Shows(D, r, After(u, s.cwd, TRUE, b))
  BY <1>1, <1>4, <1>5 DEF After, DirIn
<1>7. LeavesRuled(u, s.cwd, TRUE, D, r)
  BY <1>1, <1>2, <1>3, <1>6 DEF LeavesRuled
<1> QED
  BY <1>7, ExitRuled

(* That is what put does. *)
LEMMA PutIs ==
  ASSUME NEW D, NEW t, NEW v \in StateType, v.cwd = t.cwd, \A b \in D : v.disk[b] = t.disk[b],
         NEW i \in Slots, NEW m \in EntryType, m.type # TYPE_DIR
  PROVE  PutIn(D, t, i, m, put(v, i, m))
<1>1. put(v, i, m) \in StateType
  BY PutType
<1> QED
  BY <1>1 DEF PutIn, put, StateType, CwdType

(* The commands.  Each begins in a tree that r rules, in local use.        *)
Told == \E t, S, r : Becomes(t) /\ Ruled(t, S, r)

Starts(s, D, r) == LocalUse /\ s = This /\ Tree(s, D) /\ Ruled(s, D, r)

(* A command that starts in such a state knows the rights of the directory *)
(* it begins in, and of the one its path leads it into.                    *)
LEMMA StartsFacts ==
  ASSUME NEW s, NEW D, NEW r, Starts(s, D, r)
  PROVE  /\ LocalUse /\ s = This /\ Tree(s, D) /\ s \in StateType /\ SyncRoot(This) = s /\ s.fat = fat /\ s.cwd = cwd
         /\ Informed(s, D, r, s) /\ fat \in FatType
         /\ \A parts : parts.dir \in PathType => Informed(s, D, r, enter(s, parts).s)
<1>1. /\ LocalUse /\ s = This /\ Tree(s, D) /\ Ruled(s, D, r) /\ Informed(s, D, r, s)
  BY BeginsInformed DEF Starts
<1>2. s \in StateType /\ SyncRoot(This) = s /\ s.fat = fat /\ s.cwd = cwd
  BY <1>1, Begins
<1>3. ASSUME NEW parts, parts.dir \in PathType PROVE Informed(s, D, r, enter(s, parts).s)
  <2>1. Informed(s, D, r, change_cwd(s, parts.dir).s)
    BY <1>1, <1>3, ChangeInformed
  <2> QED
    BY <1>1, <2>1 DEF enter
<1> QED
  BY <1>1, <1>2, <1>3 DEF StateType

(* A command that has looked at directories may stop or go back. *)
LEMMA LooksTold ==
  ASSUME NEW s, NEW D, NEW r, Starts(s, D, r), NEW t, Informed(s, D, r, t),
         Becomes(t) \/ Becomes(exit_method(t, cwd, FALSE))
  PROVE  Told
<1>1. Ruled(t, D, r)
  BY LookRuled
<1>2. Ruled(exit_method(t, cwd, FALSE), D, r)
  BY QuietRuled, StartsFacts DEF Informed, Visits
<1> QED
  BY <1>1, <1>2, Zenon DEF Told

(* cat, *)
LEMMA CatTold ==
  ASSUME NEW s, NEW D, NEW r, Starts(s, D, r), NEW c \in Commands, c.cmd = "cat", cat(c)
  PROVE  Told
<1>1. PICK parts : parts = get_filename_parts(s, c.path)
  OBVIOUS
<1>2. PICK here : here = enter(s, parts)
  OBVIOUS
<1>3. parts.dir \in PathType
  BY <1>1, StartsFacts, PartsType, CommandsAssumption
<1>4. Informed(s, D, r, here.s)
  BY <1>2, <1>3, StartsFacts
<1>5. Becomes(here.s) \/ Becomes(exit_method(here.s, cwd, FALSE))
  BY <1>1, <1>2, StartsFacts DEF cat
<1> QED
  BY <1>4, <1>5, LooksTold

(* cd, which stays where it has gone, *)
LEMMA CdTold ==
  ASSUME NEW s, NEW D, NEW r, Starts(s, D, r), NEW c \in Commands, c.cmd = "cd", cd(c)
  PROVE  Told
<1>1. PICK here : here = change_cwd(s, c.path)
  OBVIOUS
<1>2. Informed(s, D, r, here.s)
  BY <1>1, StartsFacts, ChangeInformed, CommandsAssumption
<1>3. Becomes(here.s) \/ Becomes(exit_method(here.s, cwd, FALSE))
  BY <1>1, StartsFacts DEF cd
<1> QED
  BY <1>2, <1>3, LooksTold

(* create, *)
LEMMA CreateTold ==
  ASSUME NEW s, NEW D, NEW r, Starts(s, D, r), NEW c \in Commands, c.cmd = "create", create(c)
  PROVE  Told
<1>1. c.path \in PathType /\ c.data \in Text
  BY CommandsAssumption
<1>2. /\ Tree(s, D) /\ s \in StateType /\ SyncRoot(This) = s /\ s.fat = fat /\ s.cwd = cwd /\ fat \in FatType
  BY StartsFacts
<1>3. PICK parts : parts = get_filename_parts(s, c.path)
  OBVIOUS
<1>4. PICK here : here = enter(s, parts)
  OBVIOUS
<1>5. Informed(s, D, r, here.s) /\ Visits(s, here.s, D) /\ here.s \in StateType
  <2>1. parts.dir \in PathType
    BY <1>1, <1>2, <1>3, PartsType
  <2>2. Informed(s, D, r, here.s)
    BY <1>4, <2>1, StartsFacts
  <2> QED
    BY <2>2 DEF Informed, Visits
<1> DEFINE blk     == find_empty_block(fat)
           slot    == free_slot(here.s)
           file    == Entry(parts.file, Len(c.data) + 1, blk, TYPE_FILE, {READ, WRITE})
           written == write_data(here.s, blk, c.data)
           found   == blk # None /\ slot # None
<1>6. \/ Becomes(here.s)
      \/ Becomes(exit_method(here.s, cwd, FALSE))
      \/ found /\ Becomes(exit_method(written.s, cwd, FALSE))
      \/ found /\ Becomes(exit_method(put(written.s, slot, file), cwd, TRUE))
  <2>1. None \notin {blk, slot} => blk # None /\ slot # None
    OBVIOUS
  <2>2. CreateEnds(c, parts, here)
    BY <1>2, <1>3, <1>4, CreateRuns
  <2> QED
    BY <1>2, <2>1, <2>2, Zenon DEF CreateEnds
<1>7. CASE Becomes(here.s) \/ Becomes(exit_method(here.s, cwd, FALSE))
  BY <1>5, <1>7, LooksTold
<1>8. CASE found /\ (\/ Becomes(exit_method(written.s, cwd, FALSE))
                     \/ Becomes(exit_method(put(written.s, slot, file), cwd, TRUE)))
  <2>1. PICK t, u, m, b, i : t = here.s /\ u = written.s /\ m = file /\ b = blk /\ i = slot
    OBVIOUS
  <2>2. b \in Blocks /\ fat[b] = FAT_FREE /\ i \in Slots
    BY <1>2, <1>5, <1>8, <2>1, EmptyBlockIs, SearchGood
  <2>3. NewBlock(s, D, t, b, u)
    <3>1. u = write_data(t, b, c.data).s
      BY <2>1
    <3> QED
      BY <1>1, <1>2, <1>5, <2>1, <2>2, <3>1, WroteNew
  <2>4. u \in StateType /\ u.cwd = t.cwd /\ \A d \in D : u.disk[d] = t.disk[d]
    BY <2>3 DEF NewBlock
  <2>7. Informed(s, D, r, t)
    BY <1>5, <2>1
  <2>5. CASE Becomes(exit_method(u, s.cwd, FALSE))
    <3>1. Ruled(exit_method(u, s.cwd, FALSE), D, r)
      BY <2>4, <2>7, QuietRuled
    <3> QED
      BY <2>5, <3>1 DEF Told
  <2>6. CASE Becomes(exit_method(put(u, i, m), s.cwd, TRUE))
    <3>1. m.type # TYPE_DIR /\ m \in EntryType
      <4>1. m.type # TYPE_DIR
        BY <2>1 DEF Entry, TYPE_FILE, TYPE_DIR
      <4>2. parts.file \in Words
        BY <1>1, <1>2, <1>3, PartsType
      <4>3. Len(c.data) + 1 \in 0 .. MaxSize /\ {READ, WRITE} \in SUBSET Rights
        <5>1. Len(c.data) \in Nat /\ Len(c.data) < MaxSize /\ MaxSize \in Nat
          BY <1>1, CommandsAssumption, SizesAssumption DEF Text
        <5> QED
          BY <5>1 DEF Rights
      <4> QED
        BY <2>1, <2>2, <4>1, <4>2, <4>3, EntryTypes
    <3>2. PutIn(D, t, i, m, put(u, i, m))
      BY <2>2, <2>4, <3>1, PutIs
    <3>3. Ruled(exit_method(put(u, i, m), s.cwd, TRUE), D, r)
      BY <2>7, <3>2, PutRuled
    <3> QED
      BY <2>6, <3>3 DEF Told
  <2> QED
    BY <1>2, <1>8, <2>1, <2>5, <2>6
<1> QED
  BY <1>6, <1>7, <1>8

(* rm, *)
LEMMA RmTold ==
  ASSUME NEW s, NEW D, NEW r, Starts(s, D, r), NEW c \in Commands, c.cmd = "rm", rm(c)
  PROVE  Told
<1>1. c.path \in PathType
  BY CommandsAssumption
<1>2. /\ Tree(s, D) /\ s \in StateType /\ SyncRoot(This) = s /\ s.fat = fat /\ s.cwd = cwd /\ fat \in FatType
  BY StartsFacts
<1>3. PICK parts : parts = get_filename_parts(s, c.path)
  OBVIOUS
<1>4. PICK here : here = enter(s, parts)
  OBVIOUS
<1>5. Informed(s, D, r, here.s) /\ here.s \in StateType
  <2>1. parts.dir \in PathType
    BY <1>1, <1>2, <1>3, PartsType
  <2>2. Informed(s, D, r, here.s)
    BY <1>4, <2>1, StartsFacts
  <2> QED
    BY <2>2 DEF Informed, Visits
<1> DEFINE i     == lookup(here.s, parts.file)
           file  == here.s.cwd.entries[i]
           none  == [file EXCEPT !.name = NoName, !.size = 0, !.first_blk = 0]
           freed == free_chain(fat, file.first_blk)
           found == i # None /\ file.type # TYPE_DIR
<1>6. \/ Becomes(here.s)
      \/ Becomes(exit_method(here.s, cwd, FALSE))
      \/ found /\ Becomes(exit_method([put(here.s, i, none) EXCEPT !.fat = freed.fat], cwd, TRUE))
  <2>1. RmEnds(parts, here)
    BY <1>2, <1>3, <1>4, RmRuns
  <2> QED
    BY <2>1, Zenon DEF RmEnds
<1>7. CASE Becomes(here.s) \/ Becomes(exit_method(here.s, cwd, FALSE))
  BY <1>5, <1>7, LooksTold
<1>8. CASE found /\ Becomes(exit_method([put(here.s, i, none) EXCEPT !.fat = freed.fat], cwd, TRUE))
  <2>1. PICK t, e, m, j, f : t = here.s /\ e = file /\ m = none /\ j = i /\ f = freed.fat
    OBVIOUS
  <2>2. t \in StateType /\ Informed(s, D, r, t) /\ j \in Slots /\ e = t.cwd.entries[j] /\ e \in EntryType /\ e.type # TYPE_DIR
    BY <1>5, <1>8, <2>1, SearchGood, EntryTypes, Zenon
  <2>3. m \in EntryType /\ m.type # TYPE_DIR
    <3>1. m = [e EXCEPT !.name = NoName, !.size = 0, !.first_blk = 0] /\ 0 \in Blocks /\ 0 \in 0 .. MaxSize
      BY <2>1, Numbers DEF FAT_FREE
    <3> QED
      BY <2>2, <3>1, WordsAreText DEF EntryType
  <2>4. f \in FatType
    <3>1. e.first_blk \in Blocks
      BY <2>2 DEF EntryType
    <3>2. free_chain(fat, e.first_blk) \in FreeState
      BY <1>2, <3>1, FreeChainType
    <3> QED
      BY <2>1, <3>2 DEF FreeState
  <2>5. PICK v : v = [t EXCEPT !.fat = f]
    OBVIOUS
  <2>6. v \in StateType /\ v.cwd = t.cwd /\ v.disk = t.disk
    BY <2>2, <2>4, <2>5 DEF StateType
  <2>7. [put(t, j, m) EXCEPT !.fat = f] = put(v, j, m)
    BY <2>2, <2>5 DEF put, StateType
  <2>8. PutIn(D, t, j, m, put(v, j, m))
    BY <2>2, <2>3, <2>6, PutIs
  <2>9. Ruled(exit_method(put(v, j, m), s.cwd, TRUE), D, r)
    BY <2>2, <2>8, PutRuled
  <2>10. Becomes(exit_method(put(v, j, m), s.cwd, TRUE))
    BY <1>2, <1>8, <2>1, <2>7, Zenon
  <2> QED
    BY <2>9, <2>10 DEF Told
<1> QED
  BY <1>6, <1>7, <1>8

(* cp, also when it puts an entry of a file that it could not write,       *)
LEMMA CpTold ==
  ASSUME NEW s, NEW D, NEW r, Starts(s, D, r), NEW c \in Commands, c.cmd = "cp", cp(c)
  PROVE  Told
<1>1. c.src \in PathType /\ c.dst \in PathType
  BY CommandsAssumption
<1>2. /\ LocalUse /\ s = This /\ Tree(s, D) /\ s \in StateType /\ SyncRoot(This) = s /\ s.fat = fat /\ s.cwd = cwd
      /\ fat \in FatType
  BY StartsFacts
<1>3. PICK src, dst : src = get_filename_parts(s, c.src) /\ dst = get_filename_parts(s, c.dst)
  OBVIOUS
<1>4. src.file \in Words /\ dst.file \in Words /\ src.dir \in PathType /\ dst.dir \in PathType
  BY <1>1, <1>2, <1>3, PartsType
<1>5. PICK here, there : here = enter(s, src) /\ there = change_cwd(here.s, dst.dir) /\ cp_returns(src, dst, here, there)
  BY <1>2, <1>3, Zenon DEF cp
<1>6. /\ Informed(s, D, r, here.s) /\ here.s \in StateType /\ Visits(s, here.s, D) /\ (here.ok => src.file # NoName)
      /\ Informed(s, D, r, there.s) /\ there.s \in StateType /\ Visits(s, there.s, D)
  <2>1. Informed(s, D, r, here.s)
    BY <1>4, <1>5, StartsFacts
  <2>2. Informed(s, D, r, there.s)
    BY <1>4, <1>5, <2>1, ChangeInformed
  <2>3. here.ok => src.file # NoName
    BY <1>5 DEF enter
  <2> QED
    BY <2>1, <2>2, <2>3 DEF Informed, Visits
<1> DEFINE name == IF dst.file = NoName THEN src.file ELSE dst.file
           i    == lookup(here.s, src.file)
           file == here.s.cwd.entries[i]
           blk  == find_empty_block(fat)
           slot == free_slot(there.s)
           read == strings_read(here.s, file.first_blk, file.size)
           copy    == [file EXCEPT !.name = name, !.first_blk = blk]
           found   == here.ok /\ i # None /\ blk # None /\ slot # None
<1>7. \/ Becomes(here.s)
      \/ Becomes(exit_method(here.s, cwd, FALSE))
      \/ Becomes(exit_method(there.s, cwd, FALSE))
      \/ found /\ \E data \in read : \E w \in {write_data(there.s, blk, data)} :
                   Becomes(exit_method(put(IF w.ok THEN w.s ELSE exit_method(w.s, cwd, FALSE), slot, copy), cwd, TRUE))
  BY <1>5, Zenon DEF cp_returns
<1>8. CASE Becomes(here.s) \/ Becomes(exit_method(here.s, cwd, FALSE)) \/ Becomes(exit_method(there.s, cwd, FALSE))
  BY <1>6, <1>8, LooksTold
<1>9. SUFFICES ASSUME found, NEW data, data \in read, NEW written, written = write_data(there.s, blk, data),
                       Becomes(exit_method(put(IF written.ok THEN written.s ELSE exit_method(written.s, cwd, FALSE),
                                               slot, copy), cwd, TRUE))
                PROVE  Told
  BY <1>7, <1>8, Zenon
<1> DEFINE gaveup == exit_method(written.s, cwd, FALSE)
<1>10. \/ Becomes(exit_method(put(gaveup, slot, copy), cwd, TRUE))
       \/ Becomes(exit_method(put(written.s, slot, copy), cwd, TRUE))
  <2>1. CASE written.ok
    BY <1>9, <2>1
  <2>2. CASE ~written.ok
    BY <1>9, <2>2
  <2> QED
    BY <2>1, <2>2
<1> QED
  <2>1. PICK t, u, v, e, m, b, j, k, y : /\ t = there.s /\ u = written.s /\ v = gaveup /\ e = file /\ m = copy /\ b = blk
                                         /\ j = slot /\ k = i /\ y = data
    BY Zenon
  <2>2. /\ b \in Blocks /\ fat[b] = FAT_FREE /\ j \in Slots /\ k \in Slots /\ e = here.s.cwd.entries[k] /\ e \in EntryType
        /\ e.name = src.file
    <3>1. /\ b = find_empty_block(fat) /\ b # None /\ j = free_slot(t) /\ j # None /\ t \in StateType /\ fat \in FatType
          /\ k = lookup(here.s, src.file) /\ k # None /\ here.s \in StateType /\ e = here.s.cwd.entries[k]
      BY <1>2, <1>6, <1>9, <2>1, Zenon
    <3>2. b \in Blocks /\ fat[b] = FAT_FREE /\ j \in Slots
      BY <3>1, EmptyBlockIs, SearchGood
    <3>3. k \in Slots /\ here.s.cwd.entries[k].name = src.file
      BY <3>1, SearchGood
    <3> QED
      BY <3>1, <3>2, <3>3, EntryTypes
  <2>3. e.type # TYPE_DIR
    BY <1>2, <1>3, <1>6, <1>9, <2>2, LocalSource, Zenon
  <2>4. m \in EntryType /\ m.type # TYPE_DIR
    <3>1. m = [e EXCEPT !.name = name, !.first_blk = b] /\ name \in Words
      BY <1>4, <2>1, Zenon
    <3> HIDE DEF name
    <3> QED
      BY <2>2, <2>3, <3>1 DEF EntryType
  <2>5. y \in Text
    <3>1. e.first_blk \in Blocks \cup {FAT_EOF} /\ e.size \in Nat
      BY <2>2, Numbers DEF EntryType
    <3>2. y \in strings_read(here.s, e.first_blk, e.size)
      BY <1>9, <2>1, Zenon
    <3> QED
      BY <1>6, <3>1, <3>2, StringsType
  <2>6. NewBlock(s, D, t, b, u)
    <3>1. u = write_data(t, b, y).s
      BY <1>9, <2>1, Zenon
    <3> QED
      BY <1>2, <1>6, <2>1, <2>2, <2>5, <3>1, WroteNew, ZenonT(40)
  <2>7. Informed(s, D, r, t) /\ u \in StateType /\ u.cwd = t.cwd /\ \A d \in D : u.disk[d] = t.disk[d]
    BY <1>6, <2>1, <2>6, Zenon DEF NewBlock
  <2>8. CASE Becomes(exit_method(put(u, j, m), s.cwd, TRUE))
    <3>1. PutIn(D, t, j, m, put(u, j, m))
      BY <2>2, <2>4, <2>7, PutIs
    <3>2. Ruled(exit_method(put(u, j, m), s.cwd, TRUE), D, r)
      BY <2>7, <3>1, PutRuled
    <3> QED
      BY <2>8, <3>2 DEF Told
  <2>9. CASE Becomes(exit_method(put(v, j, m), s.cwd, TRUE))
    <3>1. v = exit_method(u, s.cwd, FALSE)
      BY <1>2, <2>1, Zenon
    <3>2. Tree(v, D) /\ v.cwd = s.cwd
      <4>1. Abandons(s, D, t, b, u, v)
        BY <1>2, <1>6, <2>1, <2>6, <3>1, Zenon DEF Abandons
      <4> QED
        BY <4>1, GivesUp
    <3>3. Ruled(v, D, r)
      BY <2>7, <3>1, QuietRuled
    <3>4. Informed(v, D, r, v) /\ v \in StateType
      BY <1>2, <3>2, <3>3, BeginsInformed DEF Ruled
    <3>5. PutIn(D, v, j, m, put(v, j, m))
      BY <2>2, <2>4, <3>4, PutIs
    <3>6. Ruled(exit_method(put(v, j, m), v.cwd, TRUE), D, r)
      BY <3>4, <3>5, PutRuled
    <3> QED
      BY <2>9, <3>2, <3>6 DEF Told
  <2> QED
    BY <1>2, <1>10, <2>1, <2>8, <2>9, ZenonT(40)

(* format, after which there is only the root,                             *)
LEMMA FormatTold == ASSUME TypeOK, format PROVE Told
<1> DEFINE f == [b \in Blocks |-> IF b \in {ROOT_BLOCK, FAT_BLOCK} THEN FAT_EOF ELSE FAT_FREE]
           e == init_dir(ROOT_BLOCK, Rights)
           t == [fat |-> f, disk |-> disk, root |-> e, cwd |-> [entries |-> e, info |-> e[0], blk |-> ROOT_BLOCK]]
           S == {ROOT_BLOCK}
           r == [b \in S |-> Rights]
<1>1. Becomes(t)
  BY DEF format, Becomes
<1>2. t \in StateType
  BY <1>1, FormatKeeps, ThisType DEF Becomes, TypeOK, StateType, DiskType
<1>3. e[0] = Entry(Parent, 0, ROOT_BLOCK, TYPE_DIR, Rights) /\ \A i \in Slots \ {0} : e[i] = ZeroEntry
  <2>1. ZeroDir \in DirType /\ \A i \in Slots : ZeroDir[i] = ZeroEntry
    BY ZeroTypes DEF ZeroDir
  <2> QED
    BY <2>1, Numbers DEF init_dir, DirType
<1> HIDE DEF e
<1>4. Shows(S, r, e)
  BY <1>3 DEF Shows, Entry, ZeroEntry, TYPE_FILE, TYPE_DIR
<1>5. t.cwd.info.rights = r[t.cwd.blk] /\ t.cwd.blk \in S /\ DirIn(t, ROOT_BLOCK) = e
  BY <1>3 DEF Entry, DirIn
<1> HIDE DEF t, r
<1>6. Ruled(t, S, r)
  BY <1>2, <1>4, <1>5 DEF Ruled
<1> QED
  BY <1>1, <1>6 DEF Told

(* and the next start of the program.                                      *)
LEMMA RestartTold == ASSUME NEW s, NEW D, NEW r, Starts(s, D, r), restart PROVE Told
<1>1. /\ Tree(s, D) /\ s \in StateType /\ s.fat = fat /\ s.cwd = cwd /\ s.disk = disk
      /\ D \subseteq Blocks \ {FAT_BLOCK} /\ ROOT_BLOCK \in D /\ s.cwd.blk \in D
  BY StartsFacts, TreeFacts DEF This
<1> DEFINE d == [disk EXCEPT ![FAT_BLOCK] = InFat(fat), ![cwd.blk] = InDir(cwd.entries)]
<1>2. InFat(s.fat) \in BlockType /\ InDir(s.cwd.entries) \in BlockType
  BY <1>1, WritingTypes DEF StateType, CwdType
<1>3. FAT_BLOCK # ROOT_BLOCK /\ FAT_BLOCK \in Blocks /\ ROOT_BLOCK \in Blocks
  BY Numbers DEF FAT_BLOCK, ROOT_BLOCK
<1>4. /\ d \in DiskType /\ d[s.cwd.blk] = InDir(s.cwd.entries)
      /\ \A b \in Blocks \ {FAT_BLOCK, s.cwd.blk} : d[b] = s.disk[b]
  <2> HIDE DEF FAT_BLOCK, ROOT_BLOCK
  <2> QED
    BY <1>1, <1>2, <1>3 DEF StateType, DiskType
<1>5. Becomes(boot(d))
  BY DEF restart
<1> HIDE DEF d
<1>6. PICK t : t = boot(d)
  OBVIOUS
<1>7. AsDir(InDir(s.cwd.entries)) = s.cwd.entries
  BY DEF AsDir, InDir
<1>8. \A b \in D : AsDir(d[b]) = DirIn(s, b)
  BY <1>1, <1>4, <1>7 DEF DirIn
<1>9. /\ t \in StateType /\ t.disk = d /\ t.cwd.blk = ROOT_BLOCK
      /\ t.cwd.entries = DirIn(s, ROOT_BLOCK) /\ t.cwd.info = DirIn(s, ROOT_BLOCK)[0]
  <2>1. t \in StateType
    BY <1>4, <1>6, BootType
  <2> QED
    BY <1>1, <1>6, <1>8, <2>1 DEF boot
<1>10. \A b \in D : DirIn(t, b) = DirIn(s, b)
  BY <1>8, <1>9 DEF DirIn
<1>11. /\ \A b \in D : Shows(D, r, DirIn(s, b))
       /\ DirIn(s, ROOT_BLOCK)[0].rights = r[ROOT_BLOCK]
  <2>1. PICK E : E = DirsOf(s, D)
    OBVIOUS
  <2>2. DirsGood(D, E) /\ Nested(D, E) /\ \A b \in D : Shows(D, r, DirIn(s, b)) /\ E[b] = DirIn(s, b)
    BY <2>1, StartsFacts DEF Informed, Ruled, Tree, Rooted, DirsOf
  <2>3. E[ROOT_BLOCK][0].rights = r[ROOT_BLOCK]
    BY <1>1, <2>2, RootShows
  <2> QED
    BY <1>1, <2>2, <2>3
<1>12. Ruled(t, D, r)
  BY <1>1, <1>9, <1>10, <1>11 DEF Ruled
<1> QED
  BY <1>5, <1>6, <1>12 DEF Told

(* mkdir, which gives the new directory all rights and tells it those of   *)
(* the one above.                                                          *)
LEMMA MkdirTold ==
  ASSUME NEW s, NEW D, NEW r, Starts(s, D, r), NEW c \in Commands, c.cmd = "mkdir", mkdir(c)
  PROVE  Told
<1>1. c.path \in PathType
  BY CommandsAssumption
<1>2. /\ Tree(s, D) /\ s \in StateType /\ SyncRoot(This) = s /\ s.fat = fat /\ s.cwd = cwd /\ fat \in FatType
  BY StartsFacts
<1>3. PICK parts : parts = get_filename_parts(s, c.path)
  OBVIOUS
<1>4. PICK here : here = enter(s, parts)
  OBVIOUS
<1>5. Informed(s, D, r, here.s) /\ here.s \in StateType /\ parts.file \in Words
  <2>1. parts.dir \in PathType /\ parts.file \in Words
    BY <1>1, <1>2, <1>3, PartsType
  <2>2. Informed(s, D, r, here.s)
    BY <1>4, <2>1, StartsFacts
  <2> QED
    BY <2>1, <2>2 DEF Informed, Visits
<1> DEFINE blk   == find_empty_block(fat)
           slot  == free_slot(here.s)
           dir   == Entry(parts.file, 0, blk, TYPE_DIR, Rights)
           new   == init_dir(here.s.cwd.blk, here.s.cwd.info.rights)
           made  == [here.s EXCEPT !.disk[blk] = InDir(new), !.fat[blk] = FAT_EOF]
           found == here.ok /\ blk # None /\ slot # None /\ lookup(here.s, parts.file) = None
<1>6. \/ Becomes(here.s)
      \/ Becomes(exit_method(here.s, cwd, FALSE))
      \/ found /\ Becomes(exit_method(put(made, slot, dir), cwd, TRUE))
  <2>1. None \notin {blk, slot} => blk # None /\ slot # None
    OBVIOUS
  <2>2. MkdirEnds(parts, here)
    BY <1>2, <1>3, <1>4, MkdirRuns
  <2> QED
    BY <1>2, <2>1, <2>2, Zenon DEF MkdirEnds
<1>7. CASE Becomes(here.s) \/ Becomes(exit_method(here.s, cwd, FALSE))
  BY <1>5, <1>7, LooksTold
<1>8. CASE found /\ Becomes(exit_method(put(made, slot, dir), cwd, TRUE))
  <2>1. PICK t, u, e, b, j, n : t = here.s /\ u = made /\ e = dir /\ b = blk /\ j = slot /\ n = new
    OBVIOUS
  <2>2. /\ Informed(s, D, r, t) /\ t \in StateType /\ t.cwd.blk \in D /\ D \subseteq Blocks \ {FAT_BLOCK}
        /\ ROOT_BLOCK \in D /\ s.cwd.blk \in D /\ s.cwd \in CwdType /\ t.cwd.info.rights = r[t.cwd.blk]
        /\ t.cwd.entries = DirIn(s, t.cwd.blk) /\ t.cwd.entries \in DirType
        /\ s.cwd.info.rights = r[s.cwd.blk] /\ \A d \in D : Shows(D, r, DirIn(s, d))
    BY <1>2, <1>5, <2>1, TreeFacts DEF Informed, Visits, StateType, CwdType, Ruled
  <2>3. b \in Blocks /\ fat[b] = FAT_FREE /\ j \in Slots \ {0}
    BY <1>2, <1>8, <2>1, <2>2, EmptyBlockIs, SearchGood
  <2>4. b \notin D
    <3>1. \A d \in D : fat[d] # FAT_FREE
      BY <1>2, TreeFacts DEF TreeGood
    <3> QED
      BY <2>3, <3>1
  <2>5. n \in DirType /\ n[0].first_blk = t.cwd.blk /\ n[0].rights = r[t.cwd.blk] /\ \A i \in Slots \ {0} : n[i] = ZeroEntry
    <3>1. PICK p : p = Entry(Parent, 0, t.cwd.blk, TYPE_DIR, t.cwd.info.rights)
      OBVIOUS
    <3>2. p \in EntryType
      <4>1. 0 \in 0 .. MaxSize /\ TYPE_DIR \in {TYPE_FILE, TYPE_DIR}
        BY Numbers
      <4>2. t.cwd.blk \in Blocks /\ t.cwd.info.rights \in SUBSET Rights
        BY <2>2, EntryTypes DEF EntryType
      <4> QED
        BY <3>1, <4>1, <4>2, EntryTypes, WordsAreText
    <3>3. n = [ZeroDir EXCEPT ![0] = p]
      BY <2>1, <3>1 DEF init_dir
    <3>4. n \in DirType /\ n[0] = p /\ \A i \in Slots \ {0} : n[i] = ZeroEntry
      BY <3>2, <3>3, ZeroTypes, Numbers DEF DirType, ZeroDir
    <3>5. p.first_blk = t.cwd.blk /\ p.rights = r[t.cwd.blk]
      BY <2>2, <3>1 DEF Entry
    <3> QED
      BY <3>4, <3>5
  <2>6. u \in StateType /\ u.cwd = t.cwd /\ u.disk = [t.disk EXCEPT ![b] = InDir(n)]
    <3>1. u = [t EXCEPT !.disk[b] = InDir(n), !.fat[b] = FAT_EOF]
      BY <2>1
    <3>2. InDir(n) \in BlockType
      BY <2>5, WritingTypes
    <3> QED
      BY <2>2, <2>3, <3>1, <3>2 DEF StateType, DiskType, FatType
  <2>7. AsDir(u.disk[b]) = n /\ \A d \in D : u.disk[d] = t.disk[d]
    <3>1. AsDir(InDir(n)) = n
      BY DEF AsDir, InDir
    <3> QED
      BY <2>2, <2>3, <2>4, <2>6, <3>1 DEF StateType, DiskType
  <2>8. e \in EntryType /\ e.first_blk = b /\ e.type = TYPE_DIR /\ e.rights = Rights
    <3>1. 0 \in 0 .. MaxSize /\ TYPE_DIR \in {TYPE_FILE, TYPE_DIR} /\ Rights \in SUBSET Rights
      BY Numbers
    <3>2. e = Entry(parts.file, 0, b, TYPE_DIR, Rights)
      BY <2>1
    <3> QED
      BY <1>5, <2>3, <3>1, <3>2, EntryTypes DEF Entry
  <2>9. PICK S, q : S = D \cup {b} /\ q = [d \in S |-> IF d = b THEN Rights ELSE r[d]]
    OBVIOUS
  <2>10. q[b] = Rights /\ \A d \in D : q[d] = r[d]
    BY <2>4, <2>9
  <2>11. \A d \in D : Shows(S, q, DirIn(s, d))
    BY <2>2, <2>9, <2>10 DEF Shows
  <2>12. PICK v : v = put(u, j, e)
    OBVIOUS
  <2>13. /\ v \in StateType /\ v.cwd.blk = t.cwd.blk /\ v.cwd.info = t.cwd.info /\ v.disk = u.disk
         /\ v.cwd.entries = [t.cwd.entries EXCEPT ![j] = e]
    <3>1. v \in StateType
      BY <2>3, <2>6, <2>8, <2>12, PutType
    <3> QED
      BY <2>6, <2>12, <3>1 DEF put, StateType, CwdType
  <2>14. Shows(S, q, v.cwd.entries)
    <3>1. e.first_blk \in S /\ e.rights = q[e.first_blk]
      BY <2>8, <2>9, <2>10
    <3>2. Shows(S, q, t.cwd.entries)
      BY <2>2, <2>11
    <3> QED
      BY <2>2, <2>3, <2>13, <3>1, <3>2, PutShows
  <2>15. Shows(S, q, n)
    <3>1. \A i \in Slots \ {0} : n[i].type # TYPE_DIR
      BY <2>5 DEF ZeroEntry, Entry, TYPE_FILE, TYPE_DIR
    <3>2. n[0].first_blk \in S /\ n[0].rights = q[n[0].first_blk]
      BY <2>2, <2>5, <2>9, <2>10
    <3> QED
      BY <3>1, <3>2 DEF Shows
  <2>16. \A d \in D : d # s.cwd.blk => AsDir(v.disk[d]) = DirIn(s, d)
    BY <2>2, <2>7, <2>13, LookRuled
  <2>17. \A d \in S : Shows(S, q, After(v, s.cwd, TRUE, d))
    <3>1. ASSUME NEW d \in D PROVE Shows(S, q, After(v, s.cwd, TRUE, d))
      BY <2>2, <2>11, <2>13, <2>14, <2>16 DEF After, DirIn
    <3>2. Shows(S, q, After(v, s.cwd, TRUE, b))
      <4>1. After(v, s.cwd, TRUE, b) = n
        BY <2>2, <2>4, <2>7, <2>13 DEF After
      <4> QED
        BY <2>15, <4>1
    <3> QED
      BY <2>9, <3>1, <3>2
  <2>18. (IF TRUE /\ v.cwd.blk = s.cwd.blk THEN v.cwd.info ELSE s.cwd.info).rights = q[s.cwd.blk]
    BY <2>2, <2>10, <2>13
  <2>19. LeavesRuled(v, s.cwd, TRUE, S, q)
    <3>1. S \subseteq Blocks /\ ROOT_BLOCK \in S /\ s.cwd.blk \in S /\ TRUE \in BOOLEAN
      BY <2>2, <2>3, <2>9
    <3> QED
      BY <2>2, <2>13, <2>17, <2>18, <3>1 DEF LeavesRuled
  <2>20. Ruled(exit_method(v, s.cwd, TRUE), S, q)
    BY <2>19, ExitRuled
  <2>21. Becomes(exit_method(v, s.cwd, TRUE))
    BY <1>2, <1>8, <2>1, <2>12
  <2> QED
    BY <2>20, <2>21 DEF Told
<1> QED
  BY <1>6, <1>7, <1>8

(* mv.  In its second call of change_cwd the source's entry is gone, and   *)
(* the directories show the same rights.                                   *)
Wipes(s, D, r, t, i, E1) ==
  /\ Informed(s, D, r, t) /\ i \in Slots \ {0} /\ t.cwd.entries[i].type # TYPE_DIR
  /\ E1 = Edited(s, D, t.cwd.blk, [t.cwd.entries EXCEPT ![i] = ZeroEntry])

(* With the entry of a file gone the directories still say the same rights. *)
LEMMA WipedShows ==
  ASSUME LocalUse, NEW s, NEW D, NEW r, NEW t, NEW i, NEW E1, Wipes(s, D, r, t, i, E1)
  PROVE  DirsGood(D, E1) /\ Nested(D, E1) /\ \A d \in D : Shows(D, r, E1[d])
<1> DEFINE E == DirsOf(s, D)
           b == t.cwd.blk
<1>1. /\ Rooted(s, D) /\ Nested(D, E) /\ Ruled(s, D, r) /\ i \in Slots \ {0} /\ t.cwd.entries[i].type # TYPE_DIR
      /\ t.cwd.blk \in D /\ t.cwd.entries = DirIn(s, t.cwd.blk)
      /\ E1 = Edited(s, D, t.cwd.blk, [t.cwd.entries EXCEPT ![i] = ZeroEntry])
  BY DEF Wipes, Informed, Visits
<1>2. /\ b \in D /\ E[b] = t.cwd.entries /\ DirsGood(D, E) /\ (\A d \in D : Shows(D, r, E[d]))
      /\ (\A d \in D \ {b} : E1[d] = E[d]) /\ E1[b] = [E[b] EXCEPT ![i] = ZeroEntry]
  BY <1>1 DEF Edited, DirsOf, Rooted, Ruled
<1>3. /\ ZeroEntry \in EntryType
      /\ ZeroEntry.type # TYPE_DIR /\ ZeroEntry.first_blk = FAT_FREE /\ ZeroEntry.name = NoName
  BY ZeroTypes DEF ZeroEntry, Entry, TYPE_DIR, TYPE_FILE, FAT_FREE
<1> HIDE DEF E, b
<1>4. DirsGood(D, E1)
  <2>1. DirGood(D, E[b]) /\ E[b] \in DirType
    BY <1>2 DEF DirsGood, DirGood
  <2>2. E1[b] \in DirType /\ E1[b][0] = E[b][0] /\ \A k \in Slots : E1[b][k] \in {E[b][k], ZeroEntry}
    BY <1>1, <1>2, <1>3, <2>1, Numbers DEF DirType
  <2>3. DirGood(D, E1[b])
    BY <1>3, <2>1, <2>2 DEF DirGood
  <2> QED
    BY <1>2, <2>3 DEF DirsGood
<1>5. Nested(D, E1)
  <2>1. Nest(D, E) /\ E[b][i].type # TYPE_DIR /\ ZeroEntry \in EntryType /\ b \in D /\ i \in Slots \ {0}
    BY <1>1, <1>2, ZeroTypes DEF Nest
  <2>2. Nest(D, E1)
    BY <1>2, <1>3, <2>1, NestPut
  <2> QED
    BY <2>2 DEF Nest
<1>6. Shows(D, r, E1[b])
  <2>1. E[b] \in DirType /\ i \in Slots /\ Shows(D, r, E[b])
    BY <1>1, <1>2 DEF DirsGood, DirGood
  <2> QED
    BY <1>2, <1>3, <2>1, PutShows
<1> QED
  BY <1>2, <1>4, <1>5, <1>6

(* From there the walk back to the old path still knows the rights. *)
LEMMA BackRuled ==
  ASSUME LocalUse, NEW s, NEW D, NEW r, NEW t, NEW i, NEW E1, Wipes(s, D, r, t, i, E1),
         NEW y, Rooted(y, D), DirsOf(y, D) = E1, y.cwd.blk = t.cwd.blk, y.cwd.info = t.cwd.info, NEW path \in PathType
  PROVE  LET v == change_cwd(y, path).s IN v.cwd.info.rights = r[v.cwd.blk]
<1>1. DirsGood(D, E1) /\ Nested(D, E1) /\ \A d \in D : Shows(D, r, E1[d])
  BY WipedShows
<1>2. \A d \in D : DirIn(y, d) = E1[d]
  BY DEF DirsOf
<1>3. t.cwd.info.rights = r[t.cwd.blk]
  BY DEF Wipes, Informed
<1>4. Ruled(y, D, r)
  BY <1>1, <1>2, <1>3 DEF Ruled, Rooted, DirsGood
<1>5. Visits(y, y, D)
  BY VisitsHere
<1>6. Informed(y, D, r, y)
  BY <1>1, <1>3, <1>4, <1>5 DEF Informed
<1>7. Informed(y, D, r, change_cwd(y, path).s)
  BY <1>6, ChangeInformed
<1> QED
  BY <1>7 DEF Informed

(* mv within a directory, into a sub-directory or up leaves every right as *)
(* it was: the entry that moves is one of a file.                          *)
LEMMA MvTold ==
  ASSUME NEW s, NEW D, NEW r, Starts(s, D, r), NEW c \in Commands, c.cmd = "mv", mv(c)
  PROVE  Told
<1>1. c.src \in PathType /\ c.dst \in PathType
  BY CommandsAssumption
<1>2. /\ LocalUse /\ s = This /\ Tree(s, D) /\ s \in StateType /\ SyncRoot(This) = s /\ s.fat = fat /\ s.cwd = cwd
      /\ Informed(s, D, r, s) /\ Rooted(s, D) /\ Nested(D, DirsOf(s, D)) /\ Ruled(s, D, r)
  BY StartsFacts DEF Informed
<1>3. PICK src, dst : src = get_filename_parts(s, c.src) /\ dst = get_filename_parts(s, c.dst)
  OBVIOUS
<1>4. src.file \in Words /\ dst.file \in Words /\ src.dir \in PathType /\ dst.dir \in PathType
  BY <1>1, <1>2, <1>3, PartsType
<1>5. PICK there, here : there = change_cwd(s, dst.dir) /\ here = change_cwd(there.s, src.dir) /\ mv_returns(src, dst, there, here)
  BY <1>2, <1>3, ZenonT(40) DEF mv
<1>6. Informed(s, D, r, there.s) /\ Informed(s, D, r, here.s) /\ Visits(s, there.s, D) /\ Visits(s, here.s, D)
  <2>1. Informed(s, D, r, there.s)
    BY <1>2, <1>4, <1>5, ChangeInformed
  <2>2. Informed(s, D, r, here.s)
    BY <1>4, <1>5, <2>1, ChangeInformed
  <2> QED
    BY <2>1, <2>2 DEF Informed
<1> DEFINE name  == IF dst.file = NoName THEN src.file ELSE dst.file
           slot  == free_slot(there.s)
           i     == lookup(here.s, src.file)
           wiped == put(here.s, i, ZeroEntry)
           backup == IF here.s.cwd.blk = cwd.blk THEN [cwd EXCEPT !.entries = wiped.cwd.entries] ELSE cwd
           back  == change_cwd(wiped, dst.dir)
           moved == [here.s.cwd.entries[i] EXCEPT !.name = name]
           found == slot # None /\ here.ok /\ i # None /\ src.file # NoName
<1>7. \/ Becomes(s)
      \/ Becomes(exit_method(there.s, cwd, FALSE))
      \/ Becomes(exit_method(here.s, cwd, FALSE))
      \/ found /\ ~back.ok /\ Becomes(exit_method(back.s, backup, FALSE))
      \/ found /\ back.ok /\ Becomes(exit_method(put(back.s, slot, moved), backup, TRUE))
  BY <1>2, <1>5, Zenon DEF mv_returns
<1>8. CASE \/ Becomes(s) \/ Becomes(exit_method(there.s, cwd, FALSE)) \/ Becomes(exit_method(here.s, cwd, FALSE))
  BY <1>2, <1>6, <1>8, LooksTold
<1>9. ASSUME found,
             \/ ~back.ok /\ Becomes(exit_method(back.s, backup, FALSE))
             \/ back.ok /\ Becomes(exit_method(put(back.s, slot, moved), backup, TRUE))
      PROVE  Told
  <2>1. PICK t, b, j, n, w, z, q, m, p, v, E1 :
             /\ t = here.s /\ b = t.cwd.blk /\ j = i /\ n = slot /\ w = put(t, j, ZeroEntry)
             /\ z = back /\ m = moved /\ q = backup /\ p = t.cwd.entries[j] /\ v = z.s
             /\ E1 = Edited(s, D, b, w.cwd.entries)
    OBVIOUS
  <2>2. /\ t \in StateType /\ b \in D /\ t.cwd.entries = DirIn(s, b) /\ there.s \in StateType /\ s.cwd \in CwdType
        /\ D \subseteq Blocks /\ s.cwd.blk \in D /\ t.cwd.entries \in DirType /\ ROOT_BLOCK \in D
        /\ s.cwd.info.rights = r[s.cwd.blk]
    BY <1>2, <1>6, <2>1, TreeFacts DEF Visits, StateType, CwdType, Ruled
  <2>3. j \in Slots /\ p.name = src.file /\ n \in Slots /\ p \in EntryType
    BY <1>9, <2>1, <2>2, SearchGood, EntryTypes
  <2>4. j # 0 /\ p.type # TYPE_DIR
    <3>1. src = get_filename_parts(This, c.src) /\ dst = get_filename_parts(This, c.dst) /\ Visits(This, t, D)
      BY <1>2, <1>3, <1>6, <2>1
    <3>2. src.file # NoName /\ Tree(This, D) /\ LocalUse
      BY <1>2, <1>9
    <3>3. j \in Slots /\ t.cwd.entries[j].name = src.file /\ p = t.cwd.entries[j]
      BY <2>1, <2>3
    <3> QED
      BY <3>1, <3>2, <3>3, LocalSource
  <2>5. b = s.cwd.blk
    <3>1. src.dir = HomePath(s)
      BY <1>1, <1>2, <1>3, <1>9, LocalChange
    <3>2. Rooted(there.s, D) /\ SameFolders(s, D, there.s)
      BY <1>2, <1>6, VisitsKeep DEF SameFolders
    <3>3. here = change_cwd(there.s, src.dir) /\ here.ok /\ b = here.s.cwd.blk
      BY <1>5, <1>9, <2>1, Zenon
    <3> QED
      BY <1>2, <3>1, <3>2, <3>3, HomeAgain
  <2>6. m \in EntryType /\ m.type # TYPE_DIR
    <3>1. m = [p EXCEPT !.name = name] /\ name \in Words
      BY <1>4, <2>1
    <3> HIDE DEF name
    <3> QED
      BY <2>3, <2>4, <3>1 DEF EntryType
  <2>7. w.cwd.entries = [t.cwd.entries EXCEPT ![j] = ZeroEntry] /\ w.cwd.entries \in DirType
    <3>1. w \in StateType
      BY <2>1, <2>2, <2>3, ZeroTypes, PutType
    <3> QED
      BY <2>1, <2>2, <3>1 DEF put, StateType, CwdType
  <2> HIDE DEF name, slot, i, wiped, backup, back, moved, found
  <2>8. Wipes(s, D, r, t, j, E1)
    BY <1>6, <2>1, <2>3, <2>4, <2>7 DEF Wipes
  <2>9. DirsGood(D, E1) /\ \A d \in D : Shows(D, r, E1[d])
    BY <1>2, <2>8, WipedShows
  <2>10. z = change_cwd(w, dst.dir)
    BY <2>1 DEF back, wiped
  <2>11. /\ v \in StateType /\ v.cwd.blk \in D /\ v.cwd.entries = E1[v.cwd.blk]
         /\ \A d \in D : (z.ok => d # v.cwd.blk) /\ d # s.cwd.blk => AsDir(v.disk[d]) = E1[d]
         /\ v.cwd.info.rights = r[v.cwd.blk]
    <3>1. /\ Tree(s, D) /\ Visits(s, t, D) /\ j \in Slots /\ dst.dir \in PathType /\ w = put(t, j, ZeroEntry)
          /\ E1 = Edited(s, D, t.cwd.blk, w.cwd.entries) /\ DirsGood(D, E1) /\ z = change_cwd(w, dst.dir)
          /\ s.cwd.blk = ROOT_BLOCK \/ t.cwd.blk # ROOT_BLOCK
      BY <1>2, <1>4, <1>6, <2>1, <2>3, <2>5, <2>9, <2>10
    <3>2. /\ v \in StateType /\ v.cwd.blk \in D /\ v.cwd.entries = E1[v.cwd.blk]
          /\ \A d \in D : (z.ok => d # v.cwd.blk) /\ d # s.cwd.blk => AsDir(v.disk[d]) = E1[d]
      BY <2>1, <3>1, MvBack
    <3>3. \/ v.cwd.blk = t.cwd.blk /\ v.cwd.info = t.cwd.info
          \/ \E y : /\ Rooted(y, D) /\ DirsOf(y, D) = E1 /\ z = change_cwd(y, dst.dir)
                    /\ y.cwd.blk = t.cwd.blk /\ y.cwd.info = t.cwd.info
      BY <2>1, <3>1, MvBack
    <3>4. v.cwd.info.rights = r[v.cwd.blk]
      <4>1. CASE v.cwd.blk = t.cwd.blk /\ v.cwd.info = t.cwd.info
        BY <2>8, <4>1 DEF Wipes, Informed
      <4>2. CASE \E y : /\ Rooted(y, D) /\ DirsOf(y, D) = E1 /\ z = change_cwd(y, dst.dir)
                        /\ y.cwd.blk = t.cwd.blk /\ y.cwd.info = t.cwd.info
        <5>1. PICK y : /\ Rooted(y, D) /\ DirsOf(y, D) = E1 /\ z = change_cwd(y, dst.dir)
                       /\ y.cwd.blk = t.cwd.blk /\ y.cwd.info = t.cwd.info
          BY <4>2
        <5>2. LET x == change_cwd(y, dst.dir).s IN x.cwd.info.rights = r[x.cwd.blk]
          BY <1>2, <1>4, <2>8, <5>1, BackRuled
        <5> QED
          BY <2>1, <5>1, <5>2
      <4> QED
        BY <3>3, <4>1, <4>2
    <3> QED
      BY <3>2, <3>4
  <2>12. q \in CwdType /\ q.blk = s.cwd.blk /\ q.entries = E1[s.cwd.blk] /\ q.info = s.cwd.info
    <3>1. q = [s.cwd EXCEPT !.entries = w.cwd.entries]
      BY <1>2, <2>1, <2>5 DEF backup, wiped
    <3>2. E1[s.cwd.blk] = w.cwd.entries
      BY <2>1, <2>2, <2>5 DEF Edited
    <3> QED
      BY <2>2, <2>7, <3>1, <3>2 DEF CwdType
  <2>13. CASE ~z.ok
    <3>1. \A d \in D : Shows(D, r, After(v, q, FALSE, d))
      BY <2>9, <2>11, <2>12, <2>13 DEF After
    <3>2. (IF FALSE /\ v.cwd.blk = q.blk THEN v.cwd.info ELSE q.info).rights = r[q.blk]
      BY <2>2, <2>12
    <3>3. LeavesRuled(v, q, FALSE, D, r)
      BY <2>2, <2>11, <2>12, <3>1, <3>2 DEF LeavesRuled
    <3>4. Ruled(exit_method(v, q, FALSE), D, r)
      BY <3>3, ExitRuled
    <3>5. Becomes(exit_method(v, q, FALSE))
      BY <1>9, <2>1, <2>13
    <3> QED
      BY <3>4, <3>5 DEF Told
  <2>14. CASE z.ok
    <3>1. PICK u : u = put(v, n, m)
      OBVIOUS
    <3>2. /\ u \in StateType /\ u.cwd.blk = v.cwd.blk /\ u.cwd.info = v.cwd.info /\ u.disk = v.disk
          /\ u.cwd.entries = [v.cwd.entries EXCEPT ![n] = m] /\ v.cwd.entries \in DirType
      <4>1. u \in StateType
        BY <2>3, <2>6, <2>11, <3>1, PutType
      <4> QED
        BY <2>11, <3>1, <4>1 DEF put, StateType, CwdType
    <3>3. Shows(D, r, u.cwd.entries)
      <4>1. Shows(D, r, v.cwd.entries)
        BY <2>9, <2>11
      <4> QED
        BY <2>3, <2>6, <3>2, <4>1, PutShows
    <3>4. \A d \in D : Shows(D, r, After(u, q, TRUE, d))
      BY <2>9, <2>11, <2>12, <2>14, <3>2, <3>3 DEF After
    <3>5. (IF TRUE /\ u.cwd.blk = q.blk THEN u.cwd.info ELSE q.info).rights = r[q.blk]
      BY <2>2, <2>11, <2>12, <3>2
    <3>6. LeavesRuled(u, q, TRUE, D, r)
      BY <2>2, <2>12, <3>2, <3>4, <3>5 DEF LeavesRuled
    <3>7. Ruled(exit_method(u, q, TRUE), D, r)
      BY <3>6, ExitRuled
    <3>8. Becomes(exit_method(u, q, TRUE))
      BY <1>9, <2>1, <2>14, <3>1
    <3> QED
      BY <3>7, <3>8 DEF Told
  <2> QED
    BY <2>13, <2>14
<1> QED
  BY <1>7, <1>8, <1>9

(* chmod.  The entry that it finds is not one that leads up, unless that   *)
(* of the root; it is then the only one that lists its directory, which is *)
(* neither the one that it is in nor above it.                             *)
Finds(D, E, b, j) ==
  /\ b \in D /\ j \in Slots /\ (E[b][j].name = NoName => b # ROOT_BLOCK) /\ (E[b][j].name = Parent => b = ROOT_BLOCK)
  /\ DirsGood(D, E) /\ Nested(D, E)
  /\ \A x, y \in Held(D, E) : Heads(D, E)[x] = Heads(D, E)[y] => x = y

(* A directory is found in one place only, the one that lists it, unless it *)
(* is the root, which slot 0 of the root lists.                             *)
LEMMA FoundPlace ==
  ASSUME NEW D, NEW E, NEW b, NEW j, Finds(D, E, b, j), NEW d, d = E[b][j].first_blk
  PROVE  /\ E[b][j].type # TYPE_DIR => d # b
         /\ E[b][j].type = TYPE_DIR =>
              /\ d \in D /\ (j = 0 => b = ROOT_BLOCK /\ d = ROOT_BLOCK) /\ (j # 0 => d \notin {b, ROOT_BLOCK})
              /\ (b # ROOT_BLOCK => Up(E, b) # d)
              /\ \A x \in D, k \in Slots \ {0} : E[x][k].type = TYPE_DIR /\ E[x][k].first_blk = d => x = b /\ k = j
<1>1. /\ b \in D /\ j \in Slots /\ (E[b][j].name = NoName => b # ROOT_BLOCK) /\ (E[b][j].name = Parent => b = ROOT_BLOCK)
      /\ DirGood(D, E[b]) /\ Named(E[b]) /\ E[b][j] \in EntryType /\ E[b][j].type \in {TYPE_FILE, TYPE_DIR}
      /\ Up(E, ROOT_BLOCK) = ROOT_BLOCK /\ ROOT_BLOCK \in D
      /\ \A x \in D : DirGood(D, E[x]) /\ Named(E[x])
  BY DEF Finds, DirsGood, DirGood, Nested, DirType, EntryType
<1>2. j = 0 => b = ROOT_BLOCK /\ d = ROOT_BLOCK /\ E[b][j].type = TYPE_DIR
  BY <1>1 DEF Named, DirGood, Up
<1>3. ASSUME E[b][j].type # TYPE_DIR PROVE d # b
  BY <1>1, <1>2, <1>3 DEF DirGood, Named, FAT_FREE, ROOT_BLOCK
<1>4. ASSUME E[b][j].type = TYPE_DIR, j # 0
      PROVE  d \in D /\ d \notin {b, ROOT_BLOCK} /\ (b # ROOT_BLOCK => Up(E, b) # d)
  <2>1. d \in D /\ d # ROOT_BLOCK /\ Lists(E[b], d)
    BY <1>1, <1>4 DEF DirGood, FAT_FREE, ROOT_BLOCK, Lists
  <2>2. Up(E, d) = b
    BY <1>1, <2>1 DEF Finds, Nested
  <2>3. PICK rank : Ranked(D, E, rank)
    BY DEF Finds, Nested
  <2>4. rank[b] < rank[d] /\ rank[b] \in Nat /\ rank[d] \in Nat
    BY <1>1, <2>1, <2>2, <2>3 DEF Ranked
  <2>5. b # ROOT_BLOCK => rank[Up(E, b)] < rank[b]
    BY <1>1, <2>3 DEF Ranked
  <2> QED
    BY <2>1, <2>4, <2>5
<1>5. ASSUME E[b][j].type = TYPE_DIR, NEW x \in D, NEW k \in Slots \ {0}, E[x][k].type = TYPE_DIR, E[x][k].first_blk = d
      PROVE  x = b /\ k = j
  <2>1. d # FAT_FREE /\ DirGood(D, E[x])
    BY <1>1, <1>5 DEF DirGood
  <2>2. j # 0
    BY <1>2, <2>1 DEF FAT_FREE, ROOT_BLOCK
  <2>3. PICK y, z : y = <<x, k>> /\ z = <<b, j>>
    OBVIOUS
  <2>4. y \in Held(D, E) /\ z \in Held(D, E) /\ Heads(D, E)[y] = Heads(D, E)[z]
    BY <1>1, <1>5, <2>1, <2>2, <2>3 DEF Held, Heads, SlotsIn
  <2>5. y = z
    BY <2>4 DEF Finds
  <2> QED
    BY <2>3, <2>5
<1>6. E[b][j].type = TYPE_DIR /\ j = 0 => d \in D /\ (b # ROOT_BLOCK => Up(E, b) # d)
  BY <1>1, <1>2
<1> QED
  BY <1>2, <1>3, <1>4, <1>5, <1>6

(* With the entry's rights those in slot 0 of the directories under it are *)
(* set.                                                                    *)
Regraded(D, E, b, j, level, S, G) ==
  /\ \A x \in D : G[x] = IF x = b THEN [E[b] EXCEPT ![j] = [E[b][j] EXCEPT !.rights = level]]
                         ELSE IF x \in S THEN [E[x] EXCEPT ![0].rights = level] ELSE E[x]
  /\ \A x : x \in S <=> E[b][j].type = TYPE_DIR /\ Lists(E[E[b][j].first_blk], x)

(* Every directory then says the new rights of the one that was found, and *)
(* of the others what it said before.                                      *)
LEMMA RegradedShows ==
  ASSUME NEW D, NEW E, NEW b, NEW j, Finds(D, E, b, j), NEW level, NEW S, NEW G, Regraded(D, E, b, j, level, S, G),
         NEW r, \A x \in D : Shows(D, r, E[x]),
         NEW q, q = [x \in D |-> IF E[b][j].type = TYPE_DIR /\ x = E[b][j].first_blk THEN level ELSE r[x]]
  PROVE  \A x \in D : Shows(D, q, G[x])
<1>1. PICK d : d = E[b][j].first_blk
  OBVIOUS
<1>2. /\ b \in D /\ j \in Slots /\ ROOT_BLOCK \in D /\ Up(E, ROOT_BLOCK) = ROOT_BLOCK
      /\ \A x \in D : E[x] \in DirType /\ DirGood(D, E[x])
  BY DEF Finds, DirsGood, DirGood, Nested
<1>3. ASSUME NEW x \in D, NEW k \in Slots
      PROVE  /\ G[x][k].type = E[x][k].type /\ G[x][k].first_blk = E[x][k].first_blk
             /\ G[x][k].rights = IF (x = b /\ k = j) \/ (x # b /\ x \in S /\ k = 0) THEN level ELSE E[x][k].rights
  <2>1. E[x] \in DirType /\ E[x][k] \in EntryType /\ 0 \in Slots
    BY <1>2, Numbers DEF DirType
  <2>2. CASE x = b
    <3>1. G[x] = [E[x] EXCEPT ![j] = [E[x][j] EXCEPT !.rights = level]]
      BY <2>2 DEF Regraded
    <3>2. G[x][k] = IF k = j THEN [E[x][k] EXCEPT !.rights = level] ELSE E[x][k]
      BY <2>1, <3>1 DEF DirType
    <3> QED
      BY <2>1, <2>2, <3>2 DEF EntryType
  <2>3. CASE x # b /\ x \in S
    <3>1. G[x] = [E[x] EXCEPT ![0].rights = level]
      BY <2>3 DEF Regraded
    <3>2. G[x][k] = IF k = 0 THEN [E[x][k] EXCEPT !.rights = level] ELSE E[x][k]
      BY <2>1, <3>1 DEF DirType
    <3> QED
      BY <2>1, <2>3, <3>2 DEF EntryType
  <2>4. CASE x # b /\ x \notin S
    <3>1. G[x] = E[x]
      BY <2>4 DEF Regraded
    <3> QED
      BY <2>4, <3>1
  <2> QED
    BY <2>2, <2>3, <2>4
<1>4. \A x \in D, k \in Slots : E[x][k].type = TYPE_DIR => E[x][k].first_blk \in D /\ E[x][k].rights = r[E[x][k].first_blk]
  BY DEF Shows
<1>5. CASE E[b][j].type # TYPE_DIR
  <2>1. (\A x : x \notin S) /\ \A x \in D : q[x] = r[x]
    BY <1>5 DEF Regraded
  <2>2. ASSUME NEW x \in D, NEW k \in Slots, G[x][k].type = TYPE_DIR
        PROVE  G[x][k].first_blk \in D /\ G[x][k].rights = q[G[x][k].first_blk]
    BY <1>3, <1>4, <1>5, <2>1, <2>2
  <2> QED
    BY <2>2 DEF Shows
<1>6. CASE E[b][j].type = TYPE_DIR
  <2>1. /\ d \in D /\ (j = 0 => b = ROOT_BLOCK /\ d = ROOT_BLOCK) /\ (j # 0 => d \notin {b, ROOT_BLOCK})
        /\ (b # ROOT_BLOCK => Up(E, b) # d)
        /\ \A x \in D, k \in Slots \ {0} : E[x][k].type = TYPE_DIR /\ E[x][k].first_blk = d => x = b /\ k = j
    BY <1>1, <1>6, FoundPlace
  <2>2. q[d] = level /\ \A x \in D \ {d} : q[x] = r[x]
    BY <1>1, <1>6, <2>1
  <2>3. \A x \in D \ {ROOT_BLOCK} : x \in S <=> Up(E, x) = d
    <3>2. \A x : x \in S <=> Lists(E[d], x)
      BY <1>1, <1>6 DEF Regraded
    <3>3. \A x \in D \ {ROOT_BLOCK} : Lists(E[d], x) <=> Up(E, x) = d
      BY <2>1 DEF Finds, Nested
    <3> QED
      BY <3>2, <3>3
  <2>4. ROOT_BLOCK \notin S
    <3>1. \A k \in Slots \ {0} : E[d][k].type = TYPE_DIR => E[d][k].first_blk # ROOT_BLOCK
      BY <1>2, <2>1 DEF DirGood, FAT_FREE, ROOT_BLOCK
    <3> QED
      BY <1>1, <1>6, <3>1 DEF Regraded, Lists
  <2>5. ASSUME NEW x \in D, NEW k \in Slots, G[x][k].type = TYPE_DIR
        PROVE  G[x][k].first_blk \in D /\ G[x][k].rights = q[G[x][k].first_blk]
    <3>1. PICK g : g = E[x][k].first_blk
      OBVIOUS
    <3>2. /\ g \in D /\ E[x][k].type = TYPE_DIR /\ E[x][k].rights = r[g] /\ G[x][k].first_blk = g
      BY <1>3, <1>4, <2>5, <3>1
    <3>3. CASE k # 0
      <4>1. g = d => x = b /\ k = j
        BY <2>1, <3>1, <3>2, <3>3
      <4>2. x = b /\ k = j => g = d
        BY <1>1, <3>1
      <4> QED
        BY <1>3, <2>2, <3>2, <3>3, <4>1, <4>2
    <3>4. CASE k = 0
      <4>1. g = Up(E, x)
        BY <3>1, <3>4 DEF Up
      <4>2. (x = b /\ k = j) \/ (x # b /\ x \in S /\ k = 0) <=> g = d
        BY <1>2, <2>1, <2>3, <2>4, <3>4, <4>1
      <4> QED
        BY <1>3, <2>2, <3>2, <4>2
    <3> QED
      BY <3>3, <3>4
  <2> QED
    BY <2>5 DEF Shows
<1> QED
  BY <1>5, <1>6

(* What chmod has done when it goes back: the entry in slot j of the       *)
(* directory at has its rights, and so have the sub-directories in S; q is *)
(* what it goes back to.                                                   *)
Looked(c, parts, at) ==
  LET given == IF parts.file = NoName THEN Last(c.path.comps) ELSE parts.file
  IN  IF given = NoName /\ at.cwd.blk = ROOT_BLOCK THEN Parent ELSE given

Regrades(name, level, at, j, S, u, q) ==
  LET e     == at.cwd.entries[j]
      g     == IF e.first_blk = at.cwd.blk THEN u.cwd.entries ELSE AsDir(at.disk[e.first_blk])
  IN  /\ j \in Slots /\ e.name = name /\ Tells(at, j, level, S, u)
      /\ u.cwd.info.rights = IF e.first_blk = at.cwd.blk THEN level ELSE at.cwd.info.rights
      /\ \A x : x \in S <=> e.type = TYPE_DIR /\ Lists(g, x)
      /\ q \in {cwd, [cwd EXCEPT !.entries[0].rights = level]}

(* chmod leaves the disk alone, or does this to the directory it came to. *)
LEMMA ChmodIs ==
  ASSUME NEW c \in Commands, c.cmd = "chmod", NEW parts, NEW at \in StateType, chmod_returns(c, parts, at)
  PROVE  \/ Becomes(exit_method(at, cwd, FALSE))
         \/ \E j, S, u, q : Regrades(Looked(c, parts, at), c.level, at, j, S, u, q) /\ Becomes(exit_method(u, q, TRUE))
<1>1. c.level \in SUBSET Rights
  BY CommandsAssumption
<1> DEFINE i     == lookup(at, Looked(c, parts, at))
           entry == at.cwd.entries[i]
           own   == entry.first_blk = at.cwd.blk
           new   == put(at, i, [entry EXCEPT !.rights = c.level])
           set   == [new EXCEPT !.cwd.info.rights = IF own THEN c.level ELSE @]
           changed == IF own THEN set.cwd.entries ELSE AsDir(set.disk[entry.first_blk])
           subs  == IF entry.type # TYPE_DIR THEN {}
                    ELSE {changed[k].first_blk : k \in {k \in Slots \ {0} : changed[k].type = TYPE_DIR}}
           told  == [b \in Blocks |-> IF b \in subs THEN InDir([AsDir(set.disk[b]) EXCEPT ![0].rights = c.level])
                                      ELSE set.disk[b]]
           backup == IF subs # {} /\ cwd.blk # ROOT_BLOCK THEN [cwd EXCEPT !.entries[0].rights = c.level] ELSE cwd
           rest   == [set EXCEPT !.disk = told]
<1>2. \/ Becomes(exit_method(at, cwd, FALSE))
      \/ i # None /\ Becomes(exit_method(rest, backup, TRUE))
  BY Zenon DEF chmod_returns, Looked
<1>3. CASE Becomes(exit_method(at, cwd, FALSE))
  BY <1>3
<1>4. CASE i # None /\ Becomes(exit_method(rest, backup, TRUE))
  <2> HIDE DEF i, entry, own, new, set, changed, subs, told, backup, rest
  <2>1. PICK j, e, S, u, q, l : j = i /\ e = entry /\ S = subs /\ u = rest /\ q = backup /\ l = c.level
    OBVIOUS
  <2>2. at.cwd \in CwdType /\ at.cwd.entries \in DirType
    BY DEF StateType, CwdType
  <2>3. j \in Slots /\ e = at.cwd.entries[j] /\ e \in EntryType /\ e.name = Looked(c, parts, at)
    BY <1>4, <2>1, <2>2, SearchGood, EntryTypes DEF i, entry
  <2>4. PICK n, v, w : n = [e EXCEPT !.rights = l] /\ v = put(at, j, n) /\ w = set
    OBVIOUS
  <2>5. /\ v \in StateType /\ v.fat = at.fat /\ v.root = at.root /\ v.disk = at.disk /\ v.cwd.blk = at.cwd.blk
        /\ v.cwd.entries = [at.cwd.entries EXCEPT ![j] = n] /\ v.cwd.info = at.cwd.info /\ v.cwd.info \in EntryType
    <3>1. n \in EntryType
      BY <1>1, <2>1, <2>3, <2>4 DEF EntryType
    <3>2. v \in StateType
      BY <2>2, <2>3, <2>4, <3>1, PutType
    <3> QED
      BY <2>2, <2>4, <3>1, <3>2 DEF put, StateType, CwdType
  <2>6. /\ w \in StateType /\ w.fat = at.fat /\ w.root = at.root /\ w.disk = at.disk /\ w.cwd.blk = at.cwd.blk
        /\ w.cwd.entries = v.cwd.entries
        /\ w.cwd.info.rights = IF e.first_blk = at.cwd.blk THEN l ELSE at.cwd.info.rights
    <3>1. w = [v EXCEPT !.cwd.info.rights = IF e.first_blk = at.cwd.blk THEN l ELSE @]
      BY <2>1, <2>4 DEF set, new, own
    <3>2. PICK k : k = IF e.first_blk = at.cwd.blk THEN l ELSE v.cwd.info.rights
      OBVIOUS
    <3>3. w = [v EXCEPT !.cwd = [v.cwd EXCEPT !.info = [v.cwd.info EXCEPT !.rights = k]]] /\ k \in SUBSET Rights
      BY <1>1, <2>1, <2>5, <3>1, <3>2 DEF EntryType
    <3>4. [v.cwd.info EXCEPT !.rights = k] \in EntryType /\ [v.cwd.info EXCEPT !.rights = k].rights = k
      BY <2>5, <3>3 DEF EntryType
    <3> QED
      BY <2>5, <3>2, <3>3, <3>4 DEF StateType, CwdType
  <2>7. PICK d : d = [b \in Blocks |-> IF b \in S THEN InDir([AsDir(w.disk[b]) EXCEPT ![0].rights = l]) ELSE w.disk[b]]
    OBVIOUS
  <2>8. u = [w EXCEPT !.disk = d]
    BY <2>1, <2>4, <2>7 DEF rest, told
  <2>9. q \in {cwd, [cwd EXCEPT !.entries[0].rights = l]}
    BY <2>1 DEF backup
  <2>10. LET g == IF e.first_blk = at.cwd.blk THEN w.cwd.entries ELSE AsDir(w.disk[e.first_blk])
         IN  \A x : x \in S <=> e.type = TYPE_DIR /\ Lists(g, x)
    <3>1. PICK g : g = IF e.first_blk = at.cwd.blk THEN w.cwd.entries ELSE AsDir(w.disk[e.first_blk])
      OBVIOUS
    <3>2. g = changed
      BY <2>1, <2>4, <3>1 DEF changed, own
    <3>3. S = IF e.type # TYPE_DIR THEN {} ELSE {g[k].first_blk : k \in {k \in Slots \ {0} : g[k].type = TYPE_DIR}}
      BY <2>1, <3>2 DEF subs
    <3>4. \A x : x \in S <=> e.type = TYPE_DIR /\ Lists(g, x)
      BY <3>3 DEF Lists
    <3> QED
      BY <3>1, <3>4
  <2>11. l \in SUBSET Rights /\ Becomes(exit_method(u, q, TRUE)) /\ l = c.level
    BY <1>1, <1>4, <2>1
  <2>13. d \in DiskType
    <3>1. ASSUME NEW x \in Blocks PROVE d[x] \in BlockType
      <4>1. w.disk[x] \in BlockType
        BY <2>6 DEF StateType, DiskType
      <4>2. PICK o : o = AsDir(w.disk[x])
        OBVIOUS
      <4>3. o \in DirType
        BY <4>1, <4>2, ReadingTypes
      <4>4. [o EXCEPT ![0].rights = l] \in DirType
        BY <2>11, <4>3, Numbers DEF DirType, EntryType
      <4>5. InDir([o EXCEPT ![0].rights = l]) \in BlockType
        BY <4>4, WritingTypes
      <4> QED
        BY <2>7, <4>1, <4>2, <4>5
    <3> QED
      BY <2>7, <3>1 DEF DiskType
  <2>14. u \in StateType /\ u.fat = w.fat /\ u.root = w.root /\ u.cwd = w.cwd /\ u.disk = d
    BY <2>6, <2>8, <2>13 DEF StateType
  <2>15. \A x \in Blocks : u.disk[x] = IF x \in S THEN InDir([AsDir(at.disk[x]) EXCEPT ![0].rights = l]) ELSE at.disk[x]
    BY <2>6, <2>7, <2>14
  <2>16. Tells(at, j, l, S, u)
    BY <2>3, <2>4, <2>5, <2>6, <2>14, <2>15 DEF Tells
  <2>17. Regrades(Looked(c, parts, at), l, at, j, S, u, q)
    <3>1. u.cwd.info.rights = IF e.first_blk = at.cwd.blk THEN l ELSE at.cwd.info.rights
      BY <2>6, <2>14
    <3>2. LET g == IF e.first_blk = at.cwd.blk THEN u.cwd.entries ELSE AsDir(at.disk[e.first_blk])
          IN  \A x : x \in S <=> e.type = TYPE_DIR /\ Lists(g, x)
      BY <2>6, <2>10, <2>14
    <3> QED
      BY <2>3, <2>9, <2>16, <3>1, <3>2 DEF Regrades
  <2> QED
    BY <2>11, <2>17
<1> QED
  BY <1>2, <1>3, <1>4, Zenon

(* chmod by name, or of the directory itself, reaches each copy of the rights. *)
LEMMA ChmodTold ==
  ASSUME RightsUse, NEW s, NEW D, NEW r, Starts(s, D, r), NEW c \in Commands, c.cmd = "chmod", chmod(c)
  PROVE  Told
<1>1. c.path \in PathType /\ c.level \in SUBSET Rights /\ Last(c.path.comps) # Parent /\ IsHere(c.path)
  BY CommandsAssumption DEF RightsUse, LocalUse
<1>2. /\ LocalUse /\ s = This /\ Tree(s, D) /\ s \in StateType /\ SyncRoot(This) = s /\ s.cwd = cwd
      /\ Informed(s, D, r, s) /\ Rooted(s, D) /\ Nested(D, DirsOf(s, D)) /\ Ruled(s, D, r) /\ Visits(s, s, D)
  BY StartsFacts DEF Informed
<1> DEFINE upto == Path(c.path.abs, Append(Front(c.path.comps), NoName))
<1>3. PICK parts : parts = get_filename_parts(s, c.path)
  OBVIOUS
<1>4. PICK p : p = IF parts.file # NoName THEN parts.dir ELSE upto
  OBVIOUS
<1>5. PICK at : at = change_cwd(s, p).s /\ chmod_returns(c, parts, at)
  BY <1>2, <1>3, <1>4, Zenon DEF chmod
<1>6. /\ parts.file # NoName => parts.file = Last(c.path.comps) /\ p = HomePath(s)
      /\ parts.file = NoName => p = EmptyPath
  <2>1. parts.file # NoName => parts.file = Last(c.path.comps) /\ parts.dir = HomePath(s)
    BY <1>1, <1>2, <1>3, LocalParts
  <2>2. upto = EmptyPath
    <3>1. ~c.path.abs /\ Len(c.path.comps) = 1 /\ c.path.comps \in Seq(Words) /\ c.path.abs \in BOOLEAN
      BY <1>1 DEF IsHere, PathType
    <3>2. Front(c.path.comps) = <<>>
      BY <3>1 DEF Front
    <3>3. Append(Front(c.path.comps), NoName) = <<NoName>> /\ c.path.abs = FALSE
      BY <3>1, <3>2
    <3> QED
      BY <3>3 DEF EmptyPath, Path
  <2> QED
    BY <1>4, <2>1, <2>2
<1>7. Informed(s, D, r, at) /\ Visits(s, at, D) /\ at \in StateType /\ at.cwd.blk = s.cwd.blk
  <2>1. CASE parts.file = NoName
    BY <1>2, <1>5, <1>6, <2>1 DEF change_cwd
  <2>2. CASE parts.file # NoName
    <3>1. p \in PathType
      BY <1>1, <1>2, <1>3, <1>4, <2>2, PartsType
    <3>2. Informed(s, D, r, at)
      BY <1>2, <1>5, <3>1, ChangeInformed
    <3>3. at.cwd.blk = s.cwd.blk
      <4>1. SameFolders(s, D, s)
        BY DEF SameFolders
      <4>2. CASE change_cwd(s, p).ok
        BY <1>2, <1>5, <1>6, <2>2, <4>1, <4>2, HomeAgain
      <4>3. CASE ~change_cwd(s, p).ok
        BY <1>2, <1>5, <4>3, ChangeFails
      <4> QED
        BY <4>2, <4>3
    <3> QED
      BY <3>2, <3>3 DEF Informed, Visits
  <2> QED
    BY <2>1, <2>2 DEF Visits
<1>8. CASE Becomes(exit_method(at, cwd, FALSE))
  BY <1>7, <1>8, LooksTold
<1>9. CASE \E j, S, u, q : Regrades(Looked(c, parts, at), c.level, at, j, S, u, q) /\ Becomes(exit_method(u, q, TRUE))
  <2>1. PICK b, E, l : b = s.cwd.blk /\ E = DirsOf(s, D) /\ l = c.level
    OBVIOUS
  <2>2. PICK j, S, u, q : Regrades(Looked(c, parts, at), l, at, j, S, u, q) /\ Becomes(exit_method(u, q, TRUE))
    BY <1>9, <2>1
  <2>3. /\ b \in D /\ at.cwd.blk = b /\ at.cwd.entries = E[b] /\ D \subseteq Blocks /\ ROOT_BLOCK \in D
        /\ at.cwd.info.rights = r[b] /\ E[b] \in DirType /\ (\A x \in D : E[x] = DirIn(s, x))
        /\ (\A x \in D : Shows(D, r, E[x])) /\ TreeGood(s.fat, D, E) /\ Nested(D, E) /\ s.cwd \in CwdType
        /\ \A x \in D : x # b => AsDir(at.disk[x]) = E[x]
    <3>1. b \in D /\ D \subseteq Blocks /\ ROOT_BLOCK \in D /\ s.cwd \in CwdType /\ TreeGood(s.fat, D, E) /\ E[b] = DirIn(s, b)
      BY <1>2, <2>1, TreeFacts DEF DirsOf
    <3>2. \A x \in D : x # b => AsDir(at.disk[x]) = DirIn(s, x)
      BY <1>7, <2>1, LookRuled
    <3>3. \A x \in D : Shows(D, r, DirIn(s, x))
      BY <1>2 DEF Ruled
    <3>4. \A x \in D : E[x] = DirIn(s, x)
      BY <2>1 DEF DirsOf
    <3>5. at.cwd.entries = DirIn(s, b) /\ at.cwd.info.rights = r[b] /\ at.cwd.entries \in DirType
      BY <1>7, <2>1 DEF Informed, Visits, StateType, CwdType
    <3>6. Nested(D, E)
      BY <1>2, <2>1
    <3> QED
      BY <1>7, <2>1, <3>1, <3>2, <3>3, <3>4, <3>5, <3>6
  <2>4. j \in Slots /\ E[b][j].name = Looked(c, parts, at) /\ Tells(at, j, l, S, u)
    BY <2>2, <2>3 DEF Regrades
  <2>5. Finds(D, E, b, j)
    <3>1. Looked(c, parts, at) = NoName => b # ROOT_BLOCK
      BY <2>3, Zenon DEF Looked, NoName, Parent
    <3>2. Looked(c, parts, at) = Parent => b = ROOT_BLOCK
      BY <1>1, <1>6, <2>3 DEF Looked
    <3>3. \A x, y \in Held(D, E) : Heads(D, E)[x] = Heads(D, E)[y] => x = y
      BY <2>3 DEF TreeGood, TableGood
    <3> QED
      BY <2>3, <2>4, <3>1, <3>2, <3>3 DEF Finds, TreeGood
  <2>6. PICK e, d, G, v : e = E[b][j] /\ d = e.first_blk /\ G = [x \in D |-> After(u, q, TRUE, x)]
                        /\ v = [x \in D |-> IF e.type = TYPE_DIR /\ x = d THEN l ELSE r[x]]
    OBVIOUS
  <2>7. q \in CwdType /\ q.blk = b
    <3>1. q \in {s.cwd, [s.cwd EXCEPT !.entries[0].rights = l]}
      BY <1>2, <2>2 DEF Regrades
    <3> QED
      BY <1>1, <1>2, <2>1, <3>1, ChmodBackup, SMTT(40)
  <2>8. /\ u \in StateType /\ u.cwd.blk = b /\ u.cwd.entries = [E[b] EXCEPT ![j] = [E[b][j] EXCEPT !.rights = l]]
        /\ \A x \in Blocks : u.disk[x] = IF x \in S THEN InDir([AsDir(at.disk[x]) EXCEPT ![0].rights = l]) ELSE at.disk[x]
    BY <2>3, <2>4 DEF Tells
  <2>9. \A x \in D : G[x] = IF x = b THEN [E[b] EXCEPT ![j] = [E[b][j] EXCEPT !.rights = l]]
                            ELSE IF x \in S THEN [E[x] EXCEPT ![0].rights = l] ELSE E[x]
    <3>1. G[b] = u.cwd.entries
      BY <2>3, <2>6, <2>8 DEF After
    <3>2. ASSUME NEW x \in D, x # b PROVE G[x] = IF x \in S THEN [E[x] EXCEPT ![0].rights = l] ELSE E[x]
      <4>1. G[x] = AsDir(u.disk[x]) /\ AsDir(at.disk[x]) = E[x]
        BY <2>3, <2>6, <2>7, <2>8, <3>2 DEF After
      <4>2. PICK g : g = [AsDir(at.disk[x]) EXCEPT ![0].rights = l]
        OBVIOUS
      <4>3. AsDir(InDir(g)) = g
        BY DEF AsDir, InDir
      <4>4. g = [E[x] EXCEPT ![0].rights = l]
        BY <4>1, <4>2
      <4>5. u.disk[x] = IF x \in S THEN InDir(g) ELSE at.disk[x]
        BY <2>3, <2>8, <4>2
      <4> QED
        BY <4>1, <4>3, <4>4, <4>5
    <3> QED
      BY <2>8, <3>1, <3>2
  <2>10. (e.type = TYPE_DIR => d \in D) /\ (e.type # TYPE_DIR => d # b)
    <3>1. d = E[b][j].first_blk
      BY <2>6
    <3>2. (E[b][j].type = TYPE_DIR => d \in D) /\ (E[b][j].type # TYPE_DIR => d # b)
      BY <2>5, <3>1, FoundPlace
    <3> QED
      BY <2>6, <3>2
  <2>11. \A x : x \in S <=> e.type = TYPE_DIR /\ Lists(E[d], x)
    <3>1. PICK g : g = IF d = b THEN u.cwd.entries ELSE AsDir(at.disk[d])
      OBVIOUS
    <3>2. \A x : x \in S <=> e.type = TYPE_DIR /\ Lists(g, x)
      BY <2>2, <2>3, <2>6, <3>1 DEF Regrades
    <3>3. ASSUME e.type = TYPE_DIR, NEW k \in Slots PROVE g[k].type = E[d][k].type /\ g[k].first_blk = E[d][k].first_blk
      <4>1. CASE d = b
        <5>1. E[b][k] \in EntryType /\ u.cwd.entries[k] = IF k = j THEN [E[b][k] EXCEPT !.rights = l] ELSE E[b][k]
          BY <2>3, <2>8 DEF DirType
        <5> QED
          BY <3>1, <4>1, <5>1 DEF EntryType
      <4>2. CASE d # b
        BY <2>3, <2>10, <3>1, <3>3, <4>2
      <4> QED
        BY <4>1, <4>2
    <3> QED
      BY <3>2, <3>3 DEF Lists
  <2>12. \A x \in D : Shows(D, v, G[x])
    <3>1. Regraded(D, E, b, j, l, S, G)
      BY <2>6, <2>9, <2>11 DEF Regraded
    <3>2. v = [x \in D |-> IF E[b][j].type = TYPE_DIR /\ x = E[b][j].first_blk THEN l ELSE r[x]]
      BY <2>6
    <3> QED
      BY <2>3, <2>5, <3>1, <3>2, RegradedShows
  <2>13. u.cwd.info.rights = v[b]
    <3>1. u.cwd.info.rights = IF d = b THEN l ELSE r[b]
      BY <2>2, <2>3, <2>6 DEF Regrades
    <3>2. d = b => e.type = TYPE_DIR
      BY <2>10
    <3>3. v[b] = IF e.type = TYPE_DIR /\ b = d THEN l ELSE r[b]
      BY <2>3, <2>6
    <3> QED
      BY <3>1, <3>2, <3>3
  <2>14. \A x \in D : Shows(D, v, After(u, q, TRUE, x))
    BY <2>6, <2>12
  <2>15. (IF TRUE /\ u.cwd.blk = q.blk THEN u.cwd.info ELSE q.info).rights = v[q.blk]
    BY <2>7, <2>8, <2>13
  <2>16. LeavesRuled(u, q, TRUE, D, v)
    BY <2>3, <2>7, <2>8, <2>14, <2>15 DEF LeavesRuled
  <2>17. Ruled(exit_method(u, q, TRUE), D, v)
    BY <2>16, ExitRuled
  <2> QED
    BY <2>2, <2>17 DEF Told
<1> QED
  BY <1>2, <1>5, <1>7, <1>8, <1>9, ChmodIs

-----------------------------------------------------------------------------
(* Directories are reached from the root in as many turns as they have     *)
(* directories above them.                                                 *)
LEMMA ReachedInTurns ==
  ASSUME NEW D, NEW E, DirsGood(D, E), Nested(D, E), NEW a, ROOT_BLOCK \in a[0],
         \A k \in 1 .. NoBlocks : a[k - 1] \subseteq a[k] /\ \A b \in D \cap a[k - 1], d \in D : Lists(E[b], d) => d \in a[k]
  PROVE  D \subseteq a[NoBlocks]
<1>1. PICK rank : Ranked(D, E, rank)
  BY DEF Nested
<1>2. /\ rank \in [D -> Nat] /\ (\A d \in D : rank[d] < Cardinality(D)) /\ ROOT_BLOCK \in D
      /\ \A d \in D \ {ROOT_BLOCK} : /\ Up(E, d) \in D /\ Lists(E[Up(E, d)], d)
                                     /\ rank[Up(E, d)] < rank[d]
  BY <1>1 DEF Ranked, Nested, DirsGood, DirGood, Up
<1>3. NoBlocks \in Nat /\ \A d \in D : rank[d] <= NoBlocks
  <2>1. NoBlocks \in Nat \ {0} /\ IsFiniteSet(Blocks) /\ Cardinality(Blocks) = NoBlocks
    <3>1. NoBlocks \in Nat \ {0} /\ Blocks = 0 .. (NoBlocks - 1)
      BY SizesAssumption DEF Blocks, FAT_BLOCK
    <3>2. IsFiniteSet(Blocks) /\ Cardinality(Blocks) = (NoBlocks - 1) - 0 + 1
      BY <3>1, FS_Interval
    <3> QED
      BY <3>1, <3>2
  <2>2. D \subseteq Blocks
    BY DEF DirsGood
  <2>3. IsFiniteSet(D) /\ Cardinality(D) <= Cardinality(Blocks)
    BY <2>1, <2>2, FS_Subset
  <2>4. Cardinality(D) \in Nat
    BY <2>3, FS_CardinalityType
  <2> QED
    BY <1>2, <2>1, <2>3, <2>4
<1> DEFINE K == {k \in 0 .. NoBlocks : \A d \in D : rank[d] <= k => d \in a[k]}
<1>4. 0 \in K
  BY <1>2, <1>3
<1>5. ASSUME NEW k \in 1 .. NoBlocks, k - 1 \in K PROVE k \in K
  <2>1. k \in 0 .. NoBlocks /\ \A d \in D : rank[d] <= k - 1 => d \in a[k - 1]
    BY <1>3, <1>5
  <2>2. ASSUME NEW d \in D, rank[d] <= k PROVE d \in a[k]
    <3>1. CASE d = ROOT_BLOCK
      <4>1. rank[d] = 0 \/ rank[d] <= k - 1 \/ rank[d] = k
        BY <1>2, <2>2
      <4>2. ROOT_BLOCK \in a[k]
        <5> DEFINE L == {j \in 0 .. NoBlocks : ROOT_BLOCK \in a[j]}
        <5>1. 0 \in L
          BY <1>3
        <5>2. ASSUME NEW j \in 1 .. NoBlocks, j - 1 \in L PROVE j \in L
          BY <1>3, <5>2
        <5>3. \A j \in 0 .. NoBlocks : j \in L
          <6> HIDE DEF L
          <6> QED
            BY <1>3, <5>1, <5>2, EveryTurn
        <5> QED
          BY <2>1, <5>3
      <4> QED
        BY <3>1, <4>2
    <3>2. CASE d # ROOT_BLOCK
      <4>1. Up(E, d) \in D /\ Lists(E[Up(E, d)], d) /\ rank[Up(E, d)] <= k - 1
        BY <1>2, <2>1, <2>2, <3>2
      <4>2. Up(E, d) \in a[k - 1]
        BY <2>1, <4>1
      <4> QED
        BY <4>1, <4>2
    <3> QED
      BY <3>1, <3>2
  <2> QED
    BY <2>1, <2>2
<1>6. NoBlocks \in K
  <2> HIDE DEF K
  <2>1. \A k \in 0 .. NoBlocks : k \in K
    BY <1>3, <1>4, <1>5, EveryTurn
  <2> QED
    BY <1>3, <2>1
<1> QED
  BY <1>3, <1>6

(* Whatever is ruled is the whole tree. *)
LEMMA RulesTree ==
  ASSUME NEW t, NEW D, Tree(t, D), Nested(D, DirsOf(t, D)), NEW S, NEW r, Ruled(t, S, r)
  PROVE  Ruled(t, D, r)
<1>1. PICK E : E = DirsOf(t, D)
  OBVIOUS
<1>2. DirsGood(D, E) /\ Nested(D, E) /\ (\A b \in D : E[b] = DirIn(t, b)) /\ ROOT_BLOCK \in D /\ t.cwd.blk \in D
  BY <1>1, TreeFacts DEF TreeGood, DirsOf
<1>3. PICK a : a = [k \in 0 .. NoBlocks |-> S]
  OBVIOUS
<1>4. NoBlocks \in Nat /\ \A k \in 0 .. NoBlocks : a[k] = S
  BY <1>3, SizesAssumption
<1>5. ASSUME NEW k \in 1 .. NoBlocks
      PROVE  a[k - 1] \subseteq a[k] /\ \A b \in D \cap a[k - 1], d \in D : Lists(E[b], d) => d \in a[k]
  <2>1. a[k] = S /\ a[k - 1] = S
    BY <1>4
  <2>2. ASSUME NEW b \in D \cap S, NEW d \in D, Lists(E[b], d) PROVE d \in S
    BY <1>2, <2>2 DEF Lists, Ruled, Shows
  <2> QED
    BY <2>1, <2>2
<1>6. ROOT_BLOCK \in a[0]
  BY <1>4 DEF Ruled
<1>7. D \subseteq S
  <2>1. D \subseteq a[NoBlocks]
    BY <1>2, <1>5, <1>6, ReachedInTurns
  <2> QED
    BY <1>4, <2>1
<1>8. \A b \in D : Shows(D, r, DirIn(t, b))
  <2>1. ASSUME NEW b \in D, NEW i \in Slots, E[b][i].type = TYPE_DIR PROVE E[b][i].first_blk \in D
    BY <1>2, <2>1 DEF DirsGood, DirGood
  <2>2. \A b \in D : Shows(S, r, DirIn(t, b))
    BY <1>7 DEF Ruled
  <2> QED
    BY <1>2, <2>1, <2>2 DEF Shows
<1> QED
  BY <1>2, <1>8 DEF Ruled

(* The invariant: the disk is new, or the tree has its rights.             *)
InRights  == \E s, D, r : Becoming(s) /\ Tree(s, D) /\ Ruled(s, D, r)
RightsInv == OwnInv /\ (Init \/ InRights)

(* Every command keeps it. *)
LEMMA ToldAll ==
  ASSUME RightsUse, TypeOK, NEW s, NEW D, NEW r, Starts(s, D, r), NEW c \in Commands, Run(c)
  PROVE  Told
<1>1. CASE c.cmd = "format" /\ format
  BY <1>1, FormatTold
<1>2. CASE c.cmd = "create" /\ create(c)
  BY <1>2, CreateTold
<1>3. CASE c.cmd = "cat" /\ cat(c)
  BY <1>3, CatTold
<1>4. CASE c.cmd = "cp" /\ cp(c)
  BY <1>4, CpTold
<1>5. CASE c.cmd = "mv" /\ mv(c)
  BY <1>5, MvTold
<1>6. CASE c.cmd = "rm" /\ rm(c)
  BY <1>6, RmTold
<1>7. CASE c.cmd = "append" /\ append(c)
  BY <1>7, FoldersChosen DEF RightsUse, LocalUse
<1>8. CASE c.cmd = "mkdir" /\ mkdir(c)
  BY <1>8, MkdirTold
<1>9. CASE c.cmd = "cd" /\ cd(c)
  BY <1>9, CdTold
<1>10. CASE c.cmd = "chmod" /\ chmod(c)
  BY <1>10, ChmodTold
<1>11. CASE c.cmd = "quit" /\ restart
  BY <1>11, RestartTold
<1> QED
  BY <1>1, <1>2, <1>3, <1>4, <1>5, <1>6, <1>7, <1>8, <1>9, <1>10, <1>11 DEF Run

(* Every step keeps it, in a session and across a restart. *)
LEMMA RightsStep == ASSUME RightsUse, RightsInv, [Next]_vars PROVE RightsInv'
<1>1. LocalUse /\ TypeOK /\ OwnInv
  BY DEF RightsUse, RightsInv, OwnInv
<1>2. OwnInv'
  BY <1>1, OwnStep
<1>3. CASE UNCHANGED vars
  <2>1. (Init' <=> Init) /\ (InRights => InRights')
    BY <1>3 DEF Init, InRights, Becoming, vars
  <2> QED
    BY <1>2, <2>1 DEF RightsInv
<1>4. Told => RightsInv'
  <2> SUFFICES ASSUME Told PROVE RightsInv'
    OBVIOUS
  <2>1. PICK t, S, r : Becomes(t) /\ Ruled(t, S, r)
    BY DEF Told
  <2>2. t \in StateType /\ fat' = t.fat /\ disk' = t.disk /\ root_dir' = t.root /\ cwd' = t.cwd
    BY <2>1 DEF Ruled, Becomes
  <2>3. CASE Init'
    BY <1>2, <2>3 DEF RightsInv
  <2>4. CASE InTree'
    <3>1. PICK u, D : u.fat = fat' /\ u.disk = disk' /\ u.root = root_dir' /\ u.cwd = cwd' /\ Tree(u, D)
      BY <2>4 DEF InTree, Becoming
    <3>2. u = t
      <4>1. u \in StateType
        BY <3>1 DEF Tree, Rooted
      <4> QED
        BY <2>2, <3>1, <4>1 DEF StateType
    <3>3. Ruled(t, D, r) /\ Tree(t, D)
      <4>1. Tree(t, D) /\ Nested(D, DirsOf(t, D))
        BY <1>1, <3>1, <3>2, TreeFacts DEF Nest
      <4> QED
        BY <2>1, <4>1, RulesTree
    <3>4. InRights'
      BY <2>2, <3>3 DEF InRights, Becoming
    <3> QED
      BY <1>2, <3>4 DEF RightsInv
  <2> QED
    BY <1>2, <2>3, <2>4 DEF OwnInv
<1>5. ASSUME NEW c \in Commands, Run(c) PROVE RightsInv'
  <2>1. CASE Init
    <3>1. Fresh(This)
      BY <2>1 DEF Init, Fresh, This
    <3>2. CASE c.cmd = "format"
      BY <1>1, <1>4, <1>5, <3>2, FormatTold DEF Run
    <3>3. CASE c.cmd # "format"
      <4>1. Becomes(This)
        BY <1>1, <1>5, <3>1, <3>3, FreshCommands
      <4>2. Init'
        BY <2>1, <4>1 DEF Becomes, This, Init
      <4> QED
        BY <1>2, <4>2 DEF RightsInv
    <3> QED
      BY <3>2, <3>3
  <2>2. CASE InRights
    <3>1. PICK s, D, r : Becoming(s) /\ Tree(s, D) /\ Ruled(s, D, r)
      BY <2>2 DEF InRights
    <3>2. s = This
      <4>1. s \in StateType
        BY <3>1 DEF Tree, Rooted
      <4> QED
        BY <3>1, <4>1 DEF Becoming, This, StateType
    <3>3. Starts(s, D, r)
      BY <1>1, <3>1, <3>2 DEF Starts
    <3> QED
      BY <1>1, <1>4, <1>5, <3>3, ToldAll
  <2> QED
    BY <2>1, <2>2 DEF RightsInv
<1> QED
  BY <1>3, <1>5 DEF Next

(* The properties see the whole tree, *)
LEMMA AllSeen ==
  ASSUME TypeOK, NEW s, NEW D, Becoming(s), Tree(s, D), NEW E, E = DirsOf(s, D), Nested(D, E)
  PROVE  Dirs = D
<1>1. /\ \A b \in D : Dir(b) = E[b]
      /\ \A b \in D : \A i \in Used(b) : UsedGood(D, b, i)
      /\ Dirs \subseteq D
  BY TreeSeen
<1>2. DirsGood(D, E) /\ D \subseteq Blocks
  BY TreeFacts DEF TreeGood
<1>3. PICK a \in [0 .. NoBlocks -> SUBSET Blocks] :
        /\ a[0] = {ROOT_BLOCK} /\ Dirs = a[NoBlocks]
        /\ \A k \in 1 .. NoBlocks : a[k] = Further(a[k - 1])
  BY DirsRun
<1>4. ASSUME NEW k \in 1 .. NoBlocks
      PROVE  a[k - 1] \subseteq a[k] /\ \A b \in D \cap a[k - 1], d \in D : Lists(E[b], d) => d \in a[k]
  <2>1. a[k] = Further(a[k - 1])
    BY <1>3
  <2>2. ASSUME NEW b \in D \cap a[k - 1], NEW d \in D, Lists(E[b], d) PROVE d \in a[k]
    <3>1. d \in SubDirs(b)
      BY <1>1, <2>2 DEF Lists, SubDirs, Used
    <3> QED
      BY <1>2, <2>1, <3>1 DEF Further
  <2> QED
    BY <2>1, <2>2 DEF Further
<1>5. D \subseteq a[NoBlocks]
  BY <1>2, <1>3, <1>4, ReachedInTurns
<1> QED
  BY <1>1, <1>3, <1>5

(* and the rights in it. *)
LEMMA RightsSeen == ASSUME LocalUse, RightsInv PROVE RightsCoherent
<1>0. TypeOK
  BY DEF RightsInv, OwnInv
<1>1. CASE Init
  <2>1. Dirs \subseteq {ROOT_BLOCK} /\ Used(ROOT_BLOCK) = {}
    BY <1>0, <1>1, FreshSeen
  <2>2. ROOT_BLOCK \in Dirs
    <3>1. PICK a \in [0 .. NoBlocks -> SUBSET Blocks] :
            /\ a[0] = {ROOT_BLOCK} /\ Dirs = a[NoBlocks]
            /\ \A k \in 1 .. NoBlocks : a[k] = Further(a[k - 1])
      BY <1>0, DirsRun
    <3> DEFINE K == {k \in 0 .. NoBlocks : ROOT_BLOCK \in a[k]}
    <3>2. NoBlocks \in Nat /\ 0 \in K
      BY <3>1, SizesAssumption
    <3>3. ASSUME NEW k \in 1 .. NoBlocks, k - 1 \in K PROVE k \in K
      BY <3>1, <3>2, <3>3 DEF Further
    <3>4. \A k \in 0 .. NoBlocks : k \in K
      <4> HIDE DEF K
      <4> QED
        BY <3>2, <3>3, EveryTurn
    <3> QED
      BY <3>1, <3>2, <3>4
  <2>3. cwd.blk = ROOT_BLOCK /\ cwd.info = ZeroEntry /\ Dir(ROOT_BLOCK)[0] = ZeroEntry
    BY <1>1, Numbers DEF Init, Dir, ZeroDir
  <2>4. \A b \in Dirs : SubDirs(b) = {}
    BY <2>1 DEF SubDirs
  <2>5. RightsOf(ROOT_BLOCK) = ZeroEntry.rights
    BY <2>3 DEF RightsOf
  <2> QED
    BY <2>2, <2>3, <2>4, <2>5 DEF RightsCoherent
<1>2. CASE InRights
  <2>1. PICK s, D, r : Becoming(s) /\ Tree(s, D) /\ Ruled(s, D, r)
    BY <1>2 DEF InRights
  <2>2. PICK E : E = DirsOf(s, D)
    OBVIOUS
  <2>3. Nested(D, E) /\ DirsGood(D, E) /\ D \subseteq Blocks /\ ROOT_BLOCK \in D /\ s.cwd.blk \in D
    BY <2>1, <2>2, TreeFacts DEF Nest, TreeGood
  <2>4. Dirs = D
    BY <1>0, <2>1, <2>2, <2>3, AllSeen
  <2>5. /\ \A b \in D : Dir(b) = E[b]
        /\ \A b \in D : \A i \in Used(b) : UsedGood(D, b, i)
    BY <1>0, <2>1, <2>2, TreeSeen
  <2>6. \A b \in D : Shows(D, r, E[b])
    BY <2>1, <2>2 DEF Ruled, DirsOf
  <2>7. cwd.blk \in D /\ cwd.info.rights = r[cwd.blk]
    BY <2>1 DEF Ruled, Becoming
  <2>8. ASSUME NEW b \in D PROVE RightsOf(b) = r[b]
    <3>1. CASE b = ROOT_BLOCK
      BY <2>3, <2>5, <2>6, <3>1, RootShows DEF RightsOf
    <3>2. CASE b # ROOT_BLOCK
      <4> DEFINE Shown(u) == EntryAt(u).first_blk = b /\ EntryAt(u).type = TYPE_DIR
      <4>1. \E u \in UsedSlots : Shown(u)
        <5>1. PICK d : d = Up(E, b)
          OBVIOUS
        <5>2. d \in D /\ Lists(E[d], b)
          BY <2>3, <3>2, <5>1 DEF Nested, DirsGood, DirGood, Up
        <5>3. PICK i \in Slots \ {0} : E[d][i].type = TYPE_DIR /\ E[d][i].first_blk = b
          BY <5>2 DEF Lists
        <5>4. PICK u : u = <<d, i>>
          OBVIOUS
        <5>5. u \in UsedSlots
          BY <2>4, <2>5, <5>2, <5>3, <5>4 DEF UsedSlots, Used
        <5>6. EntryAt(u) = E[d][i]
          BY <2>5, <5>2, <5>4 DEF EntryAt
        <5> QED
          BY <5>3, <5>5, <5>6
      <4>2. ASSUME NEW u \in UsedSlots, Shown(u) PROVE EntryAt(u).rights = r[b]
        <5>1. PICK d \in Dirs : u \in {d} \X Used(d)
          BY DEF UsedSlots
        <5>2. d \in D /\ u[1] = d /\ u[2] \in Used(d)
          BY <2>4, <5>1
        <5>3. u[2] \in Slots /\ EntryAt(u) = E[d][u[2]]
          BY <2>5, <5>2 DEF EntryAt, Used
        <5> QED
          BY <2>6, <4>2, <5>2, <5>3 DEF Shows
      <4>3. RightsOf(b) = EntryAt(CHOOSE u \in UsedSlots : Shown(u)).rights
        BY <3>2 DEF RightsOf
      <4> HIDE DEF Shown
      <4>4. PICK u : u = CHOOSE v \in UsedSlots : Shown(v)
        OBVIOUS
      <4>5. u \in UsedSlots /\ Shown(u)
        BY <4>1, <4>4
      <4> QED
        BY <4>2, <4>3, <4>4, <4>5
    <3> QED
      BY <3>1, <3>2
  <2>9. ASSUME NEW b \in D, NEW d \in SubDirs(b) PROVE Dir(d)[0].rights = r[b]
    <3>1. PICK i \in Used(b) : Dir(b)[i].type = TYPE_DIR /\ d = Dir(b)[i].first_blk
      BY <2>9 DEF SubDirs
    <3>2. UsedGood(D, b, i)
      BY <2>5
    <3>3. d \in D /\ Lists(E[b], d)
      BY <2>5, <3>1, <3>2 DEF UsedGood, Lists
    <3>4. Up(E, d) = b /\ E[d][0].type = TYPE_DIR
      BY <2>3, <3>3 DEF Nested, Named, DirsGood, DirGood
    <3>5. E[d][0].rights = r[b] /\ Dir(d) = E[d]
      BY <2>5, <2>6, <3>3, <3>4, Numbers DEF Shows, Up
    <3> QED
      BY <3>5
  <2> QED
    BY <2>4, <2>7, <2>8, <2>9 DEF RightsCoherent
<1> QED
  BY <1>1, <1>2 DEF RightsInv

(* A new disk has it. *)
LEMMA RightsBegin == Init => RightsInv
BY OwnInit DEF RightsInv

(* In local use that changes no rights through the entry that leads up,    *)
(* every command asks for the rights that the user set last: the copies    *)
(* of a directory's rights, in the entry that lists it, in slot 0 of each  *)
(* directory in it and in memory, agree after every command, also after    *)
(* mkdir, cd, mv and chmod in any order, a format and the next start.      *)
THEOREM LocalRightsCoherent == RightsUse => (Spec => []RightsCoherent)
<1> SUFFICES ASSUME RightsUse PROVE Spec => []RightsCoherent
  OBVIOUS
<1>1. RightsInv /\ [Next]_vars => RightsInv'
  BY RightsStep
<1>2. RightsInv => RightsCoherent
  BY RightsSeen DEF RightsUse
<1> QED
  BY <1>1, <1>2, RightsBegin, PTL DEF Spec
=============================================================================
