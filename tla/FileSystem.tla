----------------------------- MODULE FileSystem -----------------------------
(***************************************************************************)
(* The FAT file system of lab3: class FS (fs.cpp) on class Disk (disk.cpp) *)
(* driven by the commands that Shell::run dispatches.  One action is one   *)
(* whole command, from enter_method to exit_method.                        *)
(*                                                                         *)
(* The object keeps three copies of directory data: the blocks on disk,    *)
(* the cached root directory root_dir, and the working directory cwd,      *)
(* whose entries are only written back when the program leaves it.         *)
(* A command is computed as a chain of state transformers on a record      *)
(* [fat, disk, root, cwd], in the order in which the code calls them.      *)
(***************************************************************************)
EXTENDS Integers, Sequences, FiniteSets, SequencesExt

CONSTANTS
  NoBlocks,   \* Disk::no_blocks, which is also FAT_ENTRIES
  BlockSize,  \* BLOCK_SIZE, in characters of file text
  DirSize,    \* DIR_SIZE, entries in a directory block
  Names,      \* names a user gives to files and directories
  NameLen,    \* their lengths, which the path scanner depends on
  MaxSize,    \* bound: appends that make a file larger are not explored
  Commands    \* the command lines the users of this instance type

VARIABLES
  fat,        \* FS::fat, the allocation table in memory
  disk,       \* the disk file, block by block
  root_dir,   \* FS::root_dir, the cached root directory
  cwd         \* FS::cwd, the working directory [entries, info, blk]

vars == <<fat, disk, root_dir, cwd>>

ROOT_BLOCK == 0
FAT_BLOCK  == 1
FAT_FREE   == 0
FAT_EOF    == -1
None       == -1            \* the -1 / nullptr a search returns

READ    == "r"
WRITE   == "w"
EXECUTE == "x"
Rights  == {READ, WRITE, EXECUTE}

TYPE_FILE == "file"
TYPE_DIR  == "dir"

NoName == ""                \* an all-zero file_name, or an empty path component
Parent == ".."
Stray  == "?"               \* a character of a buffer that nothing was read into

Blocks == 0 .. NoBlocks - 1
Slots  == 0 .. DirSize - 1  \* slot 0 is PARENT_DIR_ENTRY_INDEX

ASSUME SizesAssumption ==
  /\ NoBlocks \in Nat /\ NoBlocks > FAT_BLOCK
  /\ BlockSize \in Nat \ {0} /\ MaxSize \in Nat
  /\ DirSize \in Nat \ {0}

Words == Names \cup {NoName, Parent}

ASSUME NamesAssumption ==
  /\ {NoName, Parent} \cap Names = {} /\ Words \subseteq STRING
  /\ NameLen \in [Names -> Nat \ {0}] /\ Stray \in STRING

(* What users type: paths with at least one component, texts that a file   *)
(* may hold, and sets of rights.                                           *)
Text     == Seq(STRING)
PathType == [abs : BOOLEAN, comps : Seq(Words) \ {<<>>}]

ASSUME CommandsAssumption ==
  \A c \in Commands :
    /\ c.cmd \in {"create", "cat", "rm", "mkdir", "cd", "chmod"} => c.path \in PathType
    /\ c.cmd \in {"cp", "mv", "append"} => c.src \in PathType /\ c.dst \in PathType
    /\ c.cmd = "create" => c.data \in Text /\ Len(c.data) < MaxSize
    /\ c.cmd = "chmod" => c.level \subseteq Rights

-----------------------------------------------------------------------------
(* Directory entries and the contents of a block.  Text misread as a       *)
(* directory has no entry that matches; a directory misread as text is a C *)
(* string, the name in its first entry.                                    *)

Entry(name, size, blk, type, rights) ==
  [name |-> name, size |-> size, first_blk |-> blk, type |-> type, rights |-> rights]

ZeroEntry == Entry(NoName, 0, 0, TYPE_FILE, {})
ZeroDir   == [i \in Slots |-> ZeroEntry]
ZeroFat   == [b \in Blocks |-> FAT_FREE]

InDir(entries) == [kind |-> "dir", entries |-> entries]
InFat(f)       == [kind |-> "fat", fat |-> f]
InText(t)      == [kind |-> "text", text |-> t]

AsDir(blk)  == IF blk.kind = "dir" THEN blk.entries ELSE ZeroDir
AsText(blk) == CASE blk.kind = "text" -> blk.text
                 [] blk.kind = "dir"  -> IF blk.entries[0].name = NoName THEN <<>> ELSE <<blk.entries[0].name>>
                 [] OTHER             -> <<>>
AsFat(blk)  == IF blk.kind = "fat" THEN blk.fat ELSE ZeroFat

(* Mutant: every directory is made a child of the root. *)
init_dir_flat(parent_blk, rights) ==
  [ZeroDir EXCEPT ![0] = Entry(Parent, 0, ROOT_BLOCK, TYPE_DIR, rights)]

init_dir(parent_blk, rights) ==
  [ZeroDir EXCEPT ![0] = Entry(Parent, 0, parent_blk, TYPE_DIR, rights)]

(* Mutant: any of the required rights is enough ("&" without "=="). *)
has_permission_any(entry, required) == required \cap entry.rights # {}

(* Mutant: the rights are compared as a whole. *)
has_permission_exact(entry, required) == required = entry.rights

has_permission(entry, required) == required \subseteq entry.rights

First(S) == IF S = {} THEN None ELSE Min(S)

(* Mutant: one block too many is looked at. *)
find_empty_block_beyond(f) == First({b \in Blocks : f[b] = FAT_FREE} \cup {NoBlocks})

find_empty_block(f) == First({b \in Blocks : f[b] = FAT_FREE})
find_dir_entry(entries, name) == First({i \in Slots : entries[i].name = name})
find_empty_dir_index(entries) == First({i \in Slots \ {0} : entries[i].first_blk = FAT_FREE})

-----------------------------------------------------------------------------
(* Loops: op on x for k = 1 to n, and op on x as often as a loop may turn. *)
(* (The accumulator is bound, so TLC evaluates it once.)                   *)

Each(n, op(_, _), x) ==
  LET at[k \in 0 .. n] == IF k = 0 THEN {x} ELSE {op(y, k) : y \in at[k - 1]}
  IN  CHOOSE y \in at[n] : TRUE

Turn(n, op(_), x) ==
  LET at[k \in 0 .. n] == IF k = 0 THEN {x} ELSE {op(y) : y \in at[k - 1]}
  IN  CHOOSE y \in at[n] : TRUE

-----------------------------------------------------------------------------
(* Chains of blocks.                                                       *)

(* Mutant: the first block is written but not marked in the table. *)
write_data_unmarked(s, start, data) ==
  [ok |-> TRUE, s |-> [s EXCEPT !.disk[start] = InText(SubSeq(data, 1, Min({BlockSize, Len(data)})))]]

Piece(data, k) == SubSeq(data, k * BlockSize + 1, Min({(k + 1) * BlockSize, Len(data)}))

(* One iteration of the loop in write_data per block after the first.  The *)
(* block number declared inside the loop shadows the outer one, so every   *)
(* further block is linked from the starting block.                        *)
write_more(start, data, w, k) ==
  LET b == find_empty_block(w.s.fat) IN
  IF ~w.ok \/ b = None THEN [w EXCEPT !.ok = FALSE]
  ELSE [w EXCEPT !.s.fat = [@ EXCEPT ![start] = b, ![b] = FAT_EOF],
                 !.s.disk[b] = InText(Piece(data, k))]

write_data(s, start, data) ==
  LET one == [s EXCEPT !.fat[start] = FAT_EOF, !.disk[start] = InText(Piece(data, 0))]
  IN  Each(Len(data) \div BlockSize, LAMBDA w, k : write_more(start, data, w, k), [ok |-> TRUE, s |-> one])

(* The loop of read_data on a buffer of the given size, of which "left"    *)
(* characters stay unset when the chain ends before them.                  *)
read_more(s, r) ==
  LET t == AsText(s.disk[r.blk])
      n == Min({BlockSize, r.left})
  IN  IF r.blk = FAT_EOF \/ n = 0 THEN r
      ELSE [blk  |-> IF Len(t) < n THEN FAT_EOF ELSE s.fat[r.blk],
            left |-> r.left - n,
            text |-> r.text \o SubSeq(t, 1, Min({n, Len(t)}))]

read_chain(s, start, size) ==
  Turn(NoBlocks, LAMBDA r : read_more(s, r), [blk |-> start, left |-> size, text |-> <<>>])

(* What is read: characters up to the first terminator. *)
read_data(s, start, size) == read_chain(s, start, size).text

(* The C strings that the buffer may hold.  If what is read has no         *)
(* terminator, the string goes on with what was in the buffer before.      *)
(* (Bound: it ends with the buffer at the latest.)                         *)
strings_read(s, start, size) ==
  LET r == read_chain(s, start, size)
      terminated == Len(r.text) < size - r.left
  IN  {r.text \o [k \in 1 .. n |-> Stray] : n \in 0 .. IF terminated THEN 0 ELSE r.left}

(* The loop of append that looks for the last block of a file. *)
block_after(f, b) == IF f[b] = FAT_EOF THEN b ELSE f[b]
last_block(f, start) == Turn(NoBlocks, LAMBDA b : block_after(f, b), start)

(* Mutant: only the first block is freed. *)
free_chain_first(f, start) == [fat |-> [f EXCEPT ![start] = FAT_FREE], blk |-> FAT_EOF]

(* The loop of rm; blk # FAT_EOF in the result means that it never ends. *)
free_one(r) ==
  IF r.blk = FAT_EOF THEN r
  ELSE [fat |-> [r.fat EXCEPT ![r.blk] = FAT_FREE], blk |-> r.fat[r.blk]]

free_chain(f, start) == Turn(NoBlocks, LAMBDA r : free_one(r), [fat |-> f, blk |-> start])

-----------------------------------------------------------------------------
(* Paths.  A path is [abs, comps]: whether it starts with "/", and the     *)
(* components between the slashes; a trailing slash is a last component "".*)

Path(abs, comps) == [abs |-> abs, comps |-> comps]
EmptyPath == Path(FALSE, <<NoName>>)

CompLen(c) == CASE c = NoName -> 0 [] c = Parent -> 2 [] OTHER -> NameLen[c]

(* The two directory walks, find_dir_from_path and change_cwd, differ in   *)
(* what an empty component does: the first goes to slot 0, the second      *)
(* stays.  Both resume the search for "/" at the offset of the previous    *)
(* one (str_pos), so a component shorter than its predecessor swallows the *)
(* slash behind it and then matches no name.                               *)
walk_into(s, comps, EmptySlots, w, i) ==
  LET c == comps[i]
      slash_missed == i < Len(comps) /\ CompLen(c) < w.pos
      found == IF c = NoName THEN EmptySlots
               ELSE {j \in Slots : w.dir[j].name = c /\ w.dir[j].type = TYPE_DIR}
      e == w.dir[First(found)]
  IN  IF ~w.ok \/ slash_missed \/ (c # NoName /\ found = {}) THEN [w EXCEPT !.ok = FALSE]
      ELSE IF found = {} THEN [w EXCEPT !.pos = CompLen(c)]
      ELSE [ok |-> TRUE, blk |-> e.first_blk, info |-> e,
            dir |-> AsDir(s.disk[e.first_blk]), pos |-> CompLen(c)]

Walk(s, path, EmptySlots) ==
  LET from == IF path.abs
              THEN [ok |-> TRUE, blk |-> ROOT_BLOCK, info |-> s.root[0], dir |-> s.root, pos |-> 0]
              ELSE [ok |-> TRUE, blk |-> s.cwd.blk, info |-> s.cwd.info, dir |-> s.cwd.entries, pos |-> 0]
  IN  Each(Len(path.comps), LAMBDA w, i : walk_into(s, path.comps, EmptySlots, w, i), from)

(* Mutant: the cached root is never refreshed. *)
SyncRoot_never(s) == s

(* memcpy(root_dir, cwd.entries) whenever the working directory is the root *)
SyncRoot(s) == IF s.cwd.blk = ROOT_BLOCK THEN [s EXCEPT !.root = s.cwd.entries] ELSE s

find_dir_from_path(s, path) == path = EmptyPath \/ Walk(s, path, {0}).ok

(* Mutants: the directory left is not written, the new info is forgotten. *)
change_cwd_unsaved(s, path) ==
  LET w == Walk(s, path, {}) IN
  IF path = EmptyPath \/ ~w.ok THEN [ok |-> path = EmptyPath, s |-> s]
  ELSE [ok |-> TRUE, s |-> [s EXCEPT !.cwd = [entries |-> w.dir, info |-> w.info, blk |-> w.blk]]]
change_cwd_old_info(s, path) ==
  LET saved == SyncRoot([s EXCEPT !.disk[s.cwd.blk] = InDir(s.cwd.entries)])
      w == Walk(saved, path, {})
  IN  IF path = EmptyPath \/ ~w.ok THEN [ok |-> path = EmptyPath, s |-> saved]
      ELSE [ok |-> TRUE, s |-> [saved EXCEPT !.cwd.entries = w.dir, !.cwd.blk = w.blk]]

change_cwd(s, path) ==
  LET saved == SyncRoot([s EXCEPT !.disk[s.cwd.blk] = InDir(s.cwd.entries)])
      w == Walk(saved, path, {})
  IN  IF path = EmptyPath THEN [ok |-> TRUE, s |-> s]
      ELSE IF ~w.ok THEN [ok |-> FALSE, s |-> saved]
      ELSE [ok |-> TRUE,
            s  |-> [saved EXCEPT !.cwd = [entries |-> w.dir, info |-> w.info, blk |-> w.blk]]]

(* Mutant: only the last name is printed. *)
pwd_comps_short(s) ==
  LET up == AsDir(s.disk[s.cwd.entries[0].first_blk]) IN
  IF s.cwd.blk = ROOT_BLOCK THEN <<NoName>> ELSE <<up[First({j \in Slots : up[j].first_blk = s.cwd.blk})].name>>

(* The components of get_pwd_string: from cwd up to the root along slot 0, *)
(* each name taken from the parent's block on disk.                        *)
pwd_up(s, r) ==
  LET up == AsDir(s.disk[r.parent])
      i  == First({j \in Slots : up[j].first_blk = r.blk})
  IN  IF r.blk = ROOT_BLOCK THEN r
      ELSE [blk    |-> r.parent,
            parent |-> up[0].first_blk,
            names  |-> IF i = None THEN r.names ELSE <<up[i].name>> \o r.names]

pwd_comps(s) ==
  IF s.cwd.blk = ROOT_BLOCK THEN <<NoName>>
  ELSE Turn(NoBlocks, LAMBDA r : pwd_up(s, r),
            [blk |-> s.cwd.blk, parent |-> s.cwd.entries[0].first_blk, names |-> <<>>]).names

(* A path that names a directory has no file part; any other path is split *)
(* at its last slash and made absolute.                                    *)
get_filename_parts(s, path) ==
  LET prefix == Append(Front(path.comps), NoName) IN
  IF find_dir_from_path(s, path) THEN [file |-> NoName, dir |-> path]
  ELSE [file |-> Last(path.comps),
        dir  |-> Path(TRUE, IF path.abs THEN prefix ELSE pwd_comps(s) \o prefix)]

-----------------------------------------------------------------------------
(* What every command does on the way in and on the way out.               *)

This == [fat |-> fat, disk |-> disk, root |-> root_dir, cwd |-> cwd]

Becomes(s) == fat' = s.fat /\ disk' = s.disk /\ root_dir' = s.root /\ cwd' = s.cwd

(* Mutant: the directory that a command changed is not written. *)
exit_method_unsaved(s, backup, save) ==
  SyncRoot(IF save /\ s.cwd.blk = backup.blk THEN s ELSE [s EXCEPT !.cwd = backup])

(* exit_method: back to the directory the command was given in.  A command *)
(* that saves keeps the entries of cwd if it never left it.                *)
exit_method(s, backup, save) ==
  LET written == IF save THEN [s EXCEPT !.disk[s.cwd.blk] = InDir(s.cwd.entries)] ELSE s
  IN  SyncRoot(IF save /\ s.cwd.blk = backup.blk THEN s
               ELSE [written EXCEPT !.cwd = backup])

(* A command on a file first looks up its directory: no file part or no    *)
(* such directory, and it returns -1.                                      *)
enter(s, parts) == IF parts.file = NoName THEN [ok |-> FALSE, s |-> s] ELSE change_cwd(s, parts.dir)

put(s, i, entry) == [s EXCEPT !.cwd.entries[i] = entry]

(* FS(): the program starts with what the disk says. *)
boot(saved) ==
  LET root == AsDir(saved[ROOT_BLOCK]) IN
  [fat |-> AsFat(saved[FAT_BLOCK]), disk |-> saved, root |-> root,
   cwd |-> [entries |-> root, info |-> root[0], blk |-> ROOT_BLOCK]]

may(s, required) == has_permission(s.cwd.info, required)
free_slot(s) == find_empty_dir_index(s.cwd.entries)
lookup(s, name) == find_dir_entry(s.cwd.entries, name)

-----------------------------------------------------------------------------
(* The commands.  In each, "here" and "there" are the results of the calls *)
(* of change_cwd ("\E x \in {e}" names a value that TLC computes once), and*)
(* the disjuncts are the ways the command returns: of a long command they  *)
(* are an operator of their own.                                           *)

format ==
  LET root == init_dir(ROOT_BLOCK, Rights) IN
  /\ fat' = [b \in Blocks |-> IF b \in {ROOT_BLOCK, FAT_BLOCK} THEN FAT_EOF ELSE FAT_FREE]
  /\ root_dir' = root
  /\ cwd' = [entries |-> root, info |-> root[0], blk |-> ROOT_BLOCK]
  /\ UNCHANGED disk

create(c) ==
  \E parts \in {get_filename_parts(SyncRoot(This), c.path)} :
  \E here \in {enter(SyncRoot(This), parts)} :
  LET blk   == find_empty_block(fat)
      slot  == free_slot(here.s)
      file  == Entry(parts.file, Len(c.data) + 1, blk, TYPE_FILE, {READ, WRITE})
      written  == write_data(here.s, blk, c.data)
      accepted == /\ may(here.s, {WRITE, EXECUTE})
                  /\ lookup(here.s, parts.file) = None
                  /\ None \notin {blk, slot}
  IN  \/ ~here.ok /\ Becomes(here.s)
      \/ here.ok /\ ~accepted /\ Becomes(exit_method(here.s, cwd, FALSE))
      \/ /\ here.ok /\ accepted /\ ~written.ok
         /\ Becomes(exit_method(written.s, cwd, FALSE))
      \/ /\ here.ok /\ accepted /\ written.ok
         /\ Becomes(exit_method(put(written.s, slot, file), cwd, TRUE))

cat(c) ==
  \E here \in {enter(SyncRoot(This), get_filename_parts(SyncRoot(This), c.path))} :
  Becomes(IF here.ok THEN exit_method(here.s, cwd, FALSE) ELSE here.s)

(* The result of write_data is tested but the command goes on: the entry   *)
(* is then put into the directory that exit_method has just restored.      *)
cp_returns(src, dst, here, there) ==
  LET name == IF dst.file = NoName THEN src.file ELSE dst.file
      i    == lookup(here.s, src.file)
      file == here.s.cwd.entries[i]
      blk  == find_empty_block(fat)
      slot    == free_slot(there.s)
      copy    == [file EXCEPT !.name = name, !.first_blk = blk]
      readable == i # None /\ has_permission(file, {READ}) /\ blk # None
      accepted == there.ok /\ may(there.s, {WRITE}) /\ lookup(there.s, name) = None /\ slot # None
  IN  \/ ~here.ok /\ Becomes(here.s)
      \/ here.ok /\ ~readable /\ Becomes(exit_method(here.s, cwd, FALSE))
      \/ here.ok /\ readable /\ ~accepted /\ Becomes(exit_method(there.s, cwd, FALSE))
      \/ /\ here.ok /\ readable /\ accepted
         /\ \E data \in strings_read(here.s, file.first_blk, file.size) :
            \E w \in {write_data(there.s, blk, data)} :
              Becomes(exit_method(put(IF w.ok THEN w.s ELSE exit_method(w.s, cwd, FALSE), slot, copy),
                                  cwd, TRUE))

cp(c) ==
  \E src \in {get_filename_parts(SyncRoot(This), c.src)} :
  \E dst \in {get_filename_parts(SyncRoot(This), c.dst)} :
  \E here \in {enter(SyncRoot(This), src)} :
  \E there \in {change_cwd(here.s, dst.dir)} :
    cp_returns(src, dst, here, there)

(* The destination is entered twice: once to check it and find a slot, and *)
(* again, from the source directory, to fill the slot.                     *)
mv_returns(src, dst, there, here) ==
  LET name  == IF dst.file = NoName THEN src.file ELSE dst.file
      slot  == free_slot(there.s)
      i     == lookup(here.s, src.file)
      wiped == put(here.s, i, ZeroEntry)
      backup == IF here.s.cwd.blk = cwd.blk THEN [cwd EXCEPT !.entries = wiped.cwd.entries] ELSE cwd
      back  == change_cwd(wiped, dst.dir)
      moved == [here.s.cwd.entries[i] EXCEPT !.name = name]
      accepted == there.ok /\ may(there.s, {WRITE, EXECUTE}) /\ lookup(there.s, name) = None /\ slot # None
      movable  == here.ok /\ may(here.s, {WRITE, EXECUTE}) /\ i # None
  IN  \/ src.file = NoName /\ Becomes(SyncRoot(This))
      \/ src.file # NoName /\ ~accepted /\ Becomes(exit_method(there.s, cwd, FALSE))
      \/ src.file # NoName /\ accepted /\ ~movable /\ Becomes(exit_method(here.s, cwd, FALSE))
      \/ /\ src.file # NoName /\ accepted /\ movable /\ ~back.ok
         /\ Becomes(exit_method(back.s, backup, FALSE))
      \/ /\ src.file # NoName /\ accepted /\ movable /\ back.ok
         /\ Becomes(exit_method(put(back.s, slot, moved), backup, TRUE))

mv(c) ==
  \E src \in {get_filename_parts(SyncRoot(This), c.src)} :
  \E dst \in {get_filename_parts(SyncRoot(This), c.dst)} :
  \E there \in {change_cwd(SyncRoot(This), dst.dir)} :
  \E here \in {change_cwd(there.s, src.dir)} :
    mv_returns(src, dst, there, here)

(* A chain that never reaches FAT_EOF keeps the loop busy for ever: the    *)
(* command then has no step.                                               *)
rm(c) ==
  \E parts \in {get_filename_parts(SyncRoot(This), c.path)} :
  \E here \in {enter(SyncRoot(This), parts)} :
  LET i     == lookup(here.s, parts.file)
      file  == here.s.cwd.entries[i]
      freed == free_chain(fat, file.first_blk)
      wiped == put(here.s, i, [file EXCEPT !.name = NoName, !.size = 0, !.first_blk = 0])
      accepted == may(here.s, {WRITE, EXECUTE}) /\ i # None /\ file.type # TYPE_DIR
  IN  \/ ~here.ok /\ Becomes(here.s)
      \/ here.ok /\ ~accepted /\ Becomes(exit_method(here.s, cwd, FALSE))
      \/ /\ here.ok /\ accepted /\ freed.blk = FAT_EOF
         /\ Becomes(exit_method([wiped EXCEPT !.fat = freed.fat], cwd, TRUE))

(* The entry of the source is a pointer into cwd.entries: after the second *)
(* change_cwd it points to the same slot of the destination directory.     *)
(* The last block of the destination is rewritten with the source behind   *)
(* its text; a terminator that fills the block leaves one byte too few in  *)
(* the buffer, and the source's first character falls off in front.        *)
append_data(t, tail, last, added) ==
  LET old == AsText(t.disk[last])
  IN  CASE tail > 0 /\ Len(old) >= tail - 1 -> SubSeq(old, 1, tail - 1) \o added
        [] tail = 0 /\ added # <<>> -> Tail(added)
        [] OTHER -> old

(* More is read than the buffer is made for if that terminator has been    *)
(* taken for a whole block, or if the new size of the destination is read  *)
(* as the size of the source.  This does no further harm, or ends the      *)
(* program without ~FS: at the read, at the write or on return.            *)
append_returns(src, dst, here, there) ==
  LET i     == lookup(here.s, src.file)
      j     == lookup(there.s, dst.file)
      entries == there.s.cwd.entries
      size  == entries[i].size + entries[j].size - 1
      sized == put(there.s, j, [entries[j] EXCEPT !.size = size])
      last  == last_block(fat, entries[j].first_blk)
      tail  == entries[j].size % BlockSize
      grown == sized.cwd.entries[i].size
      overruns == tail = 0 \/ grown > entries[i].size
      accepted == /\ there.ok /\ None \notin {i, j}
                  /\ has_permission(entries[i], {READ})
                  /\ has_permission(entries[j], {READ, WRITE})
  IN  \/ NoName \in {src.file, dst.file} /\ Becomes(SyncRoot(This))
      \/ NoName \notin {src.file, dst.file} /\ ~here.ok /\ Becomes(here.s)
      \/ /\ NoName \notin {src.file, dst.file} /\ here.ok /\ ~accepted
         /\ Becomes(exit_method(there.s, cwd, FALSE))
      \/ /\ NoName \notin {src.file, dst.file} /\ here.ok /\ accepted
         /\ size \in 0 .. MaxSize /\ fat[last] = FAT_EOF
         /\ \E added \in strings_read(sized, entries[i].first_blk, grown) :
            \E w \in {write_data(sized, last, append_data(there.s, tail, last, added))} :
            LET returned == exit_method(w.s, cwd, w.ok)
            IN  \/ Becomes(returned)
                \/ /\ overruns
                   /\ \E t \in {there.s, w.s, returned} : Becomes(boot(t.disk))

append(c) ==
  \E src \in {get_filename_parts(SyncRoot(This), c.src)} :
  \E dst \in {get_filename_parts(SyncRoot(This), c.dst)} :
  \E here \in {change_cwd(SyncRoot(This), src.dir)} :
  \E there \in {change_cwd(here.s, dst.dir)} :
    append_returns(src, dst, here, there)

(* (The test for a free block never fails, because it compares -1 with an  *)
(* unsigned number; Disk::write then refuses that block.)                  *)
mkdir(c) ==
  \E parts \in {get_filename_parts(SyncRoot(This), c.path)} :
  \E here \in {enter(SyncRoot(This), parts)} :
  LET blk   == find_empty_block(fat)
      slot  == free_slot(here.s)
      dir   == Entry(parts.file, 0, blk, TYPE_DIR, Rights)
      made  == [here.s EXCEPT !.disk[blk] = InDir(init_dir(here.s.cwd.blk, here.s.cwd.info.rights)),
                              !.fat[blk] = FAT_EOF]
      accepted == /\ may(here.s, {WRITE, EXECUTE})
                  /\ lookup(here.s, parts.file) = None
                  /\ None \notin {blk, slot}
  IN  \/ ~here.ok /\ Becomes(here.s)
      \/ here.ok /\ ~accepted /\ Becomes(exit_method(here.s, cwd, FALSE))
      \/ here.ok /\ accepted /\ Becomes(exit_method(put(made, slot, dir), cwd, TRUE))

cd(c) ==
  \E here \in {change_cwd(This, c.path)} :
  Becomes(IF here.ok /\ ~may(here.s, {READ}) THEN exit_method(here.s, cwd, FALSE) ELSE here.s)

(* A directory's rights are held by its entry, by slot 0 of each of its    *)
(* sub-directories and by cwd.info.  The result of change_cwd is ignored.  *)
(* The test for the sub-directory the user is in is an assignment, so any  *)
(* sub-directory passes it unless the user is in the root.                 *)
chmod_returns(c, parts, at) ==
  LET given == IF parts.file = NoName THEN Last(c.path.comps) ELSE parts.file
      i     == lookup(at, IF given = NoName /\ at.cwd.blk = ROOT_BLOCK THEN Parent ELSE given)
      entry == at.cwd.entries[i]
      own   == entry.first_blk = at.cwd.blk
      set   == [put(at, i, [entry EXCEPT !.rights = c.level])
                  EXCEPT !.cwd.info.rights = IF own THEN c.level ELSE @]
      changed == IF own THEN set.cwd.entries ELSE AsDir(set.disk[entry.first_blk])
      subs  == IF entry.type # TYPE_DIR THEN {}
               ELSE {changed[k].first_blk : k \in {k \in Slots \ {0} : changed[k].type = TYPE_DIR}}
      told  == [b \in Blocks |-> IF b \in subs THEN InDir([AsDir(set.disk[b]) EXCEPT ![0].rights = c.level])
                                 ELSE set.disk[b]]
      backup == IF subs # {} /\ cwd.blk # ROOT_BLOCK THEN [cwd EXCEPT !.entries[0].rights = c.level] ELSE cwd
  IN  \/ i = None /\ Becomes(exit_method(at, cwd, FALSE))
      \/ i # None /\ Becomes(exit_method([set EXCEPT !.disk = told], backup, TRUE))

chmod(c) ==
  \E parts \in {get_filename_parts(SyncRoot(This), c.path)} :
  \E at \in {change_cwd(SyncRoot(This), IF parts.file # NoName THEN parts.dir
                 ELSE Path(c.path.abs, Append(Front(c.path.comps), NoName))).s} :
    chmod_returns(c, parts, at)

(* quit, and the next start: ~FS writes the table and the directory. *)
restart == Becomes(boot([disk EXCEPT ![FAT_BLOCK] = InFat(fat), ![cwd.blk] = InDir(cwd.entries)]))

-----------------------------------------------------------------------------
(* A new disk file is all zeros and has not been formatted. *)
Init ==
  /\ fat = ZeroFat
  /\ disk = [b \in Blocks |-> IF b = FAT_BLOCK THEN InFat(ZeroFat) ELSE InDir(ZeroDir)]
  /\ root_dir = ZeroDir
  /\ cwd = [entries |-> ZeroDir, info |-> ZeroEntry, blk |-> ROOT_BLOCK]

Run(c) ==
  \/ c.cmd = "format" /\ format
  \/ c.cmd = "create" /\ create(c)
  \/ c.cmd = "cat"    /\ cat(c)
  \/ c.cmd = "cp"     /\ cp(c)
  \/ c.cmd = "mv"     /\ mv(c)
  \/ c.cmd = "rm"     /\ rm(c)
  \/ c.cmd = "append" /\ append(c)
  \/ c.cmd = "mkdir"  /\ mkdir(c)
  \/ c.cmd = "cd"     /\ cd(c)
  \/ c.cmd = "chmod"  /\ chmod(c)
  \/ c.cmd = "quit"   /\ restart

Next == \E c \in Commands : Run(c)

Spec == Init /\ [][Next]_vars
=============================================================================
