------------------------ MODULE FileSystemProperties ------------------------
(***************************************************************************)
(* What makes the file system of lab3 correct, over all its copies of      *)
(* directory data: the tree a user can reach is well formed, its files own *)
(* their blocks, the caches agree, and every command has the effect that   *)
(* AbstractFS promises.                                                    *)
(***************************************************************************)
EXTENDS FileSystem

(* A directory as commands see it: the working directory in memory, any    *)
(* other on disk.                                                          *)
Dir(b) == IF b = cwd.blk THEN cwd.entries ELSE AsDir(disk[b])

Used(b)    == {i \in Slots \ {0} : Dir(b)[i].first_blk # FAT_FREE \/ Dir(b)[i].type = TYPE_DIR}
SubDirs(b) == {Dir(b)[i].first_blk : i \in {i \in Used(b) : Dir(b)[i].type = TYPE_DIR}}

Formatted == fat[ROOT_BLOCK] = FAT_EOF

(* Every directory that can be reached from the root. *)
Dirs == Turn(NoBlocks, LAMBDA ds : ds \cup UNION {SubDirs(b) : b \in ds \cap Blocks}, {ROOT_BLOCK})

(* The used entries of all directories, and the blocks of an entry's chain. *)
UsedSlots == UNION {{b} \X Used(b) : b \in Dirs}
EntryAt(u) == Dir(u[1])[u[2]]
Chain(b) == Turn(NoBlocks, LAMBDA bs : bs \cup {fat[x] : x \in bs \cap Blocks}, {b}) \ {FAT_EOF}

-----------------------------------------------------------------------------
EntryType == [name : Words, size : 0 .. MaxSize, first_blk : Blocks,
              type : {TYPE_FILE, TYPE_DIR}, rights : SUBSET Rights]
DirType   == [Slots -> EntryType]
FatType   == [Blocks -> Blocks \cup {FAT_EOF}]
BlockType ==
  [kind : {"dir"}, entries : DirType] \cup [kind : {"fat"}, fat : FatType]
  \cup [kind : {"text"}, text : {t \in Text : Len(t) <= BlockSize}]
CwdType   == [entries : DirType, info : EntryType, blk : Blocks]

(* Every variable has its type: whatever the users type, every entry and   *)
(* every link of the table points into the disk, and no text is longer     *)
(* than its block.                                                         *)
TypeOK ==
  /\ fat \in FatType
  /\ disk \in [Blocks -> BlockType]
  /\ root_dir \in DirType
  /\ cwd \in CwdType

(* No two entries in the tree share a block, no entry owns the root's or   *)
(* the table's block, and the chain of every entry is allocated up to its  *)
(* FAT_EOF: what rm frees or append and create write belongs to one file.  *)
BlocksOwnedOnce ==
  \A u \in UsedSlots :
    /\ \A b \in Chain(EntryAt(u).first_blk) : b \notin {ROOT_BLOCK, FAT_BLOCK} /\ fat[b] # FAT_FREE
    /\ \A v \in UsedSlots \ {u} :
         Chain(EntryAt(u).first_blk) \cap Chain(EntryAt(v).first_blk) = {}

(* Commands for which BlocksOwnedOnce holds on every disk: the user stays  *)
(* in the root directory, never moves "..", and appends one file of the    *)
(* root to another, never a file to itself.  If there are appends, there   *)
(* is a set of file sizes that they do not lead out of and that fill no    *)
(* block to the end.                                                       *)
NeverFill(Z) ==
  /\ \A c \in Commands : c.cmd = "create" => Len(c.data) + 1 \in Z
  /\ \A c \in Commands : c.cmd = "append" =>
       \A m, n \in Z : m % BlockSize # 0 /\ (m + n - 1 \in Z \/ m + n - 1 > MaxSize)

RootUse ==
  /\ \E Z \in SUBSET (0 .. MaxSize) : NeverFill(Z)
  /\ \A c \in Commands : /\ c.cmd # "cd"
                         /\ c.cmd = "mv" => Last(c.src.comps) # Parent
                         /\ c.cmd = "append" => /\ Len(c.src.comps) = 1 /\ Len(c.dst.comps) = 1
                                               /\ Last(c.src.comps) # Last(c.dst.comps)

(* Commands for which TreeWellFormed and RootCacheCoherent hold as well:    *)
(* the user walks through the tree with cd, and what a command changes is  *)
(* named where it is, by its name alone; there are names for directories   *)
(* only, and no directory is moved or copied.  Nothing is appended, and if *)
(* there are copies, every text leaves room in its block for a terminator. *)
IsHere(path) == ~path.abs /\ Len(path.comps) = 1
FolderNames  == {Last(c.path.comps) : c \in {c \in Commands : c.cmd = "mkdir"}}

LocalUse ==
  /\ FolderNames \subseteq Names
  /\ \A c \in Commands :
       /\ c.cmd # "append"
       /\ c.cmd \in {"create", "rm", "mkdir", "chmod"} => IsHere(c.path)
       /\ c.cmd \in {"cp", "mv"} => /\ IsHere(c.src) /\ Last(c.src.comps) \in Names \ FolderNames
                                   /\ IsHere(c.dst) /\ Last(c.dst.comps) # Parent
       /\ c.cmd = "create" /\ (\E d \in Commands : d.cmd = "cp") => Len(c.data) + 1 < BlockSize

(* With this, RightsCoherent: no directory has its rights changed in the   *)
(* entry that leads up to it, where only its sub-directory sees them.      *)
RightsUse == LocalUse /\ \A c \in Commands : c.cmd = "chmod" => Last(c.path.comps) # Parent

(* With this, NoBlockLeaks: every text fits one block, so that no chain has *)
(* a second one and no write runs out of blocks halfway.                   *)
SmallUse == LocalUse /\ \A c \in Commands : c.cmd = "create" => Len(c.data) < BlockSize

(* With this, PwdLeadsBack and PathsResolve: the path scanner then finds   *)
(* every slash.                                                            *)
EvenNames == \A x, y \in FolderNames : NameLen[x] = NameLen[y]

(* Every allocated block belongs to the tree: a block that no chain reaches *)
(* can never be freed again.                                               *)
NoBlockLeaks ==
  Formatted => {b \in Blocks : fat[b] # FAT_FREE} =
               {ROOT_BLOCK, FAT_BLOCK} \cup UNION {Chain(EntryAt(u).first_blk) : u \in UsedSlots}

(* A block is only lost by a write, and only when the text did not fit or  *)
(* took three blocks: no other command leaves an allocated block behind,   *)
(* and none takes one from a file.                                         *)
Lost  == {b \in Blocks : fat[b] # FAT_FREE} \ ({ROOT_BLOCK, FAT_BLOCK} \cup UNION {Chain(EntryAt(u).first_blk) : u \in UsedSlots})
Taken == {b \in Blocks : fat[b] = FAT_FREE /\ fat'[b] # FAT_FREE}
LosesOnlyWhenFull ==
  [][Lost' \subseteq Lost \/ Cardinality(Taken) >= 3 \/ \A b \in Blocks : fat'[b] # FAT_FREE]_vars

(* The root directory cached in root_dir, from which absolute paths start, *)
(* is the one on disk, to which ".." and the next start of the program go. *)
RootCacheCoherent == cwd.blk # ROOT_BLOCK => disk[ROOT_BLOCK] = InDir(root_dir)

(* ".." of every sub-directory is the directory that lists it, and every   *)
(* directory holds a name only once.                                       *)
TreeWellFormed ==
  \A b \in Dirs :
    /\ \A d \in SubDirs(b) : Dir(d)[0].name = Parent /\ Dir(d)[0].first_blk = b
    /\ \A i, j \in Used(b) : Dir(b)[i].name = Dir(b)[j].name => i = j
    /\ \A i \in Used(b) : Dir(b)[i].name \in Names

(* The rights a command checks are those the user set last: the copies of  *)
(* a directory's rights in slot 0 of its sub-directories and in cwd.info   *)
(* agree with the entry that holds them (fs.cpp:906).                      *)
RightsOf(b) ==
  IF b = ROOT_BLOCK THEN Dir(b)[0].rights
  ELSE EntryAt(CHOOSE u \in UsedSlots : EntryAt(u).first_blk = b /\ EntryAt(u).type = TYPE_DIR).rights
RightsCoherent ==
  /\ cwd.blk \in Dirs /\ cwd.info.rights = RightsOf(cwd.blk)
  /\ \A b \in Dirs : \A d \in SubDirs(b) : Dir(d)[0].rights = RightsOf(b)

(* pwd names the directory the user is in: cd to the path it prints stays. *)
PwdLeadsBack ==
  Formatted => LET w == change_cwd(SyncRoot(This), Path(TRUE, pwd_comps(This))) IN
               w.ok /\ w.s.cwd.blk = cwd.blk

-----------------------------------------------------------------------------
(* The tree of AbstractFS: every path from the root to a used entry.       *)

(* The root before the first format has no entry of its own, not even "..". *)
NodeOf(e) ==
  [kind   |-> IF e.type = TYPE_DIR \/ ~Formatted THEN "dir" ELSE "file",
   text   |-> IF e.type = TYPE_DIR THEN <<>> ELSE read_data(This, e.first_blk, e.size),
   rights |-> e.rights]

Children(n) == {[path |-> n.path \o <<e.name>>, entry |-> e] :
                e \in {Dir(n.entry.first_blk)[i] : i \in Used(n.entry.first_blk)}}

Nodes == Turn(NoBlocks, LAMBDA ns : ns \cup UNION {Children(n) : n \in {n \in ns : n.entry.type = TYPE_DIR}},
              {[path |-> <<>>, entry |-> Dir(ROOT_BLOCK)[0]]})

Seen == [tree |-> [p \in {n.path : n \in Nodes} |-> NodeOf((CHOOSE n \in Nodes : n.path = p).entry)],
         at   |-> IF cwd.blk = ROOT_BLOCK THEN <<>> ELSE pwd_comps(This)]

(* The path of every directory leads to it, written as get_filename_parts  *)
(* writes the directory part of a path: with a slash at its end.  (A path  *)
(* that leads nowhere makes every command on it return without a trace.)   *)
PathsResolve ==
  Formatted => \A n \in {n \in Nodes : n.entry.type = TYPE_DIR} :
                 LET w == change_cwd(SyncRoot(This), Path(TRUE, n.path \o <<NoName>>)) IN
                 w.ok /\ w.s.cwd.blk = n.entry.first_blk

(* What a file holds stays its beginning until it is removed, moved or the *)
(* disk formatted: neither commands on other files nor a write to it that  *)
(* gives up half way take anything of it away.  (This is not so of a file  *)
(* that such a write has left without blocks for its size, or without the  *)
(* terminator at the end of it.)                                           *)
Whole(s, n) ==
  /\ s.tree[n.path].kind = "file" /\ Len(s.tree[n.path].text) = n.entry.size - 1
  /\ n.entry.size <= BlockSize * Cardinality(Chain(n.entry.first_blk))
ContentsKept ==
  [][\A s \in {Seen}, t \in {Seen'} : \A n \in {n \in Nodes : Whole(s, n)} :
       n.path \in DOMAIN t.tree => IsPrefix(s.tree[n.path].text, t.tree[n.path].text)]_vars

Abstract == INSTANCE AbstractFS WITH fs <- Seen

(* The file system implements AbstractFS: whatever the blocks and caches   *)
(* do, every command leaves the tree alone or changes it as promised.      *)
KeepsItsPromise == Abstract!Spec

(* No command is refused without a reason: a command that is permitted and *)
(* has a free entry for what it adds does what its comment says, and one   *)
(* that is not permitted, or only looks, changes nothing.  (An instance    *)
(* that checks this has blocks enough for all its files.)                  *)
Goal(s, c) == IF c.cmd \in {"create", "mkdir"} THEN Abstract!Resolve(s, c.path) ELSE Abstract!Target(s, c)
HasRoom(s, p) == Cardinality({q \in DOMAIN s.tree : Len(q) = Len(p) /\ Front(q) = Front(p)}) < DirSize - 1
Refusable(s, c) == c.cmd \in {"create", "mkdir", "cp", "mv"} /\ ~HasRoom(s, Goal(s, c))

Explains(s, c, t) == \/ t \in Abstract!Effect(s, c)
                     \/ t = s /\ (Abstract!Effect(s, c) = {} \/ Refusable(s, c))

Explained == \A s \in {Seen}, t \in {Seen'} : \A c \in Commands : Explains(s, c, t) \/ ~Run(c)

(* What every command that changes anything does is what its comment says. *)
DoesWhatItSays == [][Explained]_vars
=============================================================================
