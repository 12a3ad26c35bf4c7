----------------------------- MODULE BlockStore -----------------------------
(***************************************************************************)
(* The allocation table of lab3 under the loops that read and write it:    *)
(* write_data, the scan for the last block in append, and the loop that    *)
(* frees a chain in rm.  One step is one turn of a loop, so that what the  *)
(* loops rely on can be stated at every turn and proved for every size of  *)
(* disk.  Directories are reduced to the blocks their entries refer to.    *)
(* Two things put the table and the entries at odds: an append that ends   *)
(* the program without ~FS, so that the next start finds an old table, and *)
(* an old copy of the root that is written over the new one.  From then on *)
(* until the disk is formatted it is not "intact".                         *)
(***************************************************************************)
EXTENDS Integers

CONSTANTS
  NoBlocks,   \* FAT_ENTRIES, as many as the disk has blocks
  Entries,    \* the entries of all directories
  MaxPieces   \* bound: blocks a text needs after its first

VARIABLES
  fat,        \* FS::fat
  head,       \* first_blk of every entry, 0 for an entry that is not used
  pc,         \* the loop that is running, "idle" between commands
  file,       \* the entry the running command is about
  blk,        \* the block number the loop works with
  left,       \* the pieces of text that write_data has yet to write
  saved,      \* the table on disk, as the last ~FS has written it
  intact      \* auxiliary: no old table or entry has come back

vars == <<fat, head, pc, file, blk, left, saved, intact>>
disk == <<saved, intact>>

ASSUME DiskAssumption == NoBlocks \in Nat /\ NoBlocks > 1 /\ MaxPieces \in Nat

Blocks     == 0 .. NoBlocks - 1
ROOT_BLOCK == 0
FAT_BLOCK  == 1
FAT_FREE   == 0
FAT_EOF    == -1
Reserved   == {ROOT_BLOCK, FAT_BLOCK}

Writing == {"create", "copy", "append"}
Loops   == Writing \cup {"scan", "free"}

(* The result of find_empty_block, and its failure. *)
IsFirstFree(b) == fat[b] = FAT_FREE /\ \A c \in Blocks : fat[c] = FAT_FREE => b <= c
DiskFull       == \A b \in Blocks : fat[b] # FAT_FREE

ZeroFat      == [b \in Blocks |-> FAT_FREE]
FormattedFat == [b \in Blocks |-> IF b \in Reserved THEN FAT_EOF ELSE FAT_FREE]
NoEntries    == [f \in Entries |-> 0]

Init ==
  /\ fat = FormattedFat /\ head = NoEntries
  /\ pc = "idle" /\ file \in Entries /\ blk = FAT_EOF /\ left = 0
  /\ saved = ZeroFat /\ intact = TRUE

-----------------------------------------------------------------------------
Format ==
  /\ pc = "idle"
  /\ fat' = FormattedFat /\ head' = NoEntries /\ intact' = TRUE
  /\ UNCHANGED <<pc, file, blk, left, saved>>

(* quit and the next start: ~FS writes the table, and FS() reads it. *)
Quit ==
  /\ pc = "idle" /\ saved' = fat
  /\ UNCHANGED <<fat, head, pc, file, blk, left, intact>>

(* Mutant: the first block is not marked in the table. *)
BeginWrite_unmarked(kind, f, n) ==
  /\ pc = "idle" /\ head[f] = 0
  /\ \E b \in Blocks : IsFirstFree(b) /\ blk' = b
  /\ pc' = kind /\ file' = f /\ left' = n
  /\ UNCHANGED <<fat, head, disk>>

(* create, mkdir and cp: a free block is found and becomes the first of a  *)
(* new chain; the entry is made only when the text is written.             *)
BeginWrite(kind, f, n) ==
  /\ pc = "idle" /\ head[f] = 0
  /\ \E b \in Blocks :
       /\ IsFirstFree(b)
       /\ fat' = [fat EXCEPT ![b] = FAT_EOF]
       /\ blk' = b
  /\ pc' = kind /\ file' = f /\ left' = n
  /\ UNCHANGED <<head, disk>>

(* Mutant: one turn too many. *)
ExtendWrite_beyond ==
  /\ pc \in Writing /\ left >= 0
  /\ \E b \in Blocks : IsFirstFree(b) /\ fat' = [fat EXCEPT ![blk] = b, ![b] = FAT_EOF]
  /\ left' = left - 1
  /\ UNCHANGED <<head, pc, file, blk, disk>>

(* One turn of the loop in write_data.  The number of the new block is     *)
(* declared inside the loop, so blk still is the block the text began in   *)
(* when the next one is linked.                                            *)
ExtendWrite ==
  /\ pc \in Writing /\ left > 0
  /\ \E b \in Blocks :
       /\ IsFirstFree(b)
       /\ fat' = [fat EXCEPT ![blk] = b, ![b] = FAT_EOF]
  /\ left' = left - 1
  /\ UNCHANGED <<head, pc, file, blk, disk>>

(* No block for the next piece: create and append give up and leave in the *)
(* table what they have linked.                                            *)
WriteFails ==
  /\ pc \in {"create", "append"} /\ left > 0 /\ DiskFull
  /\ pc' = "idle"
  /\ UNCHANGED <<fat, head, file, blk, left, disk>>

(* cp goes on: it puts the new entry where the slot it had found is in the *)
(* directory of the user, whatever entry that is.                          *)
CopyFails ==
  /\ pc = "copy" /\ left > 0 /\ DiskFull
  /\ \E g \in Entries : head' = [head EXCEPT ![g] = blk]
  /\ pc' = "idle"
  /\ UNCHANGED <<fat, file, blk, left, disk>>

FinishWrite ==
  /\ pc \in {"create", "copy"} /\ left = 0
  /\ head' = [head EXCEPT ![file] = blk]
  /\ pc' = "idle"
  /\ UNCHANGED <<fat, file, blk, left, disk>>

BeginAppend(f, n) ==
  /\ pc = "idle" /\ head[f] # 0
  /\ pc' = "scan" /\ file' = f /\ blk' = head[f] /\ left' = n
  /\ UNCHANGED <<fat, head, disk>>

ScanStep ==
  /\ pc = "scan" /\ fat[blk] # FAT_EOF
  /\ blk' = fat[blk]
  /\ UNCHANGED <<fat, head, pc, file, left, disk>>

ScanDone ==
  /\ pc = "scan" /\ fat[blk] = FAT_EOF
  /\ pc' = "append"
  /\ UNCHANGED <<fat, head, file, blk, left, disk>>

FinishAppend ==
  /\ pc = "append" /\ left = 0
  /\ pc' = "idle"
  /\ UNCHANGED <<fat, head, file, blk, left, disk>>

(* An append behind a text that fills its last block, or of a file to      *)
(* itself, writes outside of its buffer, which may end the program without *)
(* ~FS.  The next start reads the table that is on disk; the directories   *)
(* are there as they are, since change_cwd has written the one in memory.  *)
(* (There are no sizes here, so any append may be such a one.)             *)
AppendEnds ==
  /\ pc = "append"
  /\ fat' = saved /\ intact' = (intact /\ fat = saved)
  /\ pc' = "idle"
  /\ UNCHANGED <<head, file, blk, left, saved>>

(* An entry of the root that was changed from another directory is in      *)
(* root_dir as it was, and root_dir is written over the root.              *)
OldEntry(f, b) ==
  /\ pc = "idle"
  /\ head' = [head EXCEPT ![f] = b] /\ intact' = FALSE
  /\ UNCHANGED <<fat, pc, file, blk, left, saved>>

(* Mutant: the entry is not wiped. *)
BeginRemove_kept(f) ==
  /\ pc = "idle" /\ head[f] # 0
  /\ pc' = "free" /\ file' = f /\ blk' = head[f]
  /\ UNCHANGED <<fat, head, left, disk>>

(* rm wipes the entry first and then frees the chain from its front. *)
BeginRemove(f) ==
  /\ pc = "idle" /\ head[f] # 0
  /\ pc' = "free" /\ file' = f /\ blk' = head[f]
  /\ head' = [head EXCEPT ![f] = 0]
  /\ UNCHANGED <<fat, left, disk>>

(* Mutant: the link is read after the block has been freed. *)
FreeStep_swapped ==
  /\ pc = "free" /\ blk # FAT_EOF
  /\ blk' = FAT_FREE
  /\ fat' = [fat EXCEPT ![blk] = FAT_FREE]
  /\ UNCHANGED <<head, pc, file, left, disk>>

FreeStep ==
  /\ pc = "free" /\ blk # FAT_EOF
  /\ blk' = fat[blk]
  /\ fat' = [fat EXCEPT ![blk] = FAT_FREE]
  /\ UNCHANGED <<head, pc, file, left, disk>>

FreeDone ==
  /\ pc = "free" /\ blk = FAT_EOF
  /\ pc' = "idle"
  /\ UNCHANGED <<fat, head, file, blk, left, disk>>

(* Mutant: the source keeps its entry. *)
Move_copied(f, g) ==
  /\ pc = "idle" /\ head[f] # 0 /\ head[g] = 0
  /\ head' = [head EXCEPT ![g] = head[f]]
  /\ UNCHANGED <<fat, pc, file, blk, left, disk>>

(* mv wipes the entry of the source and fills the slot it has found at the *)
(* destination, whatever entry that is when it comes to another directory  *)
(* the second time; or it does not get back there and leaves the file      *)
(* without an entry.                                                       *)
Move(f, g) ==
  /\ pc = "idle" /\ head[f] # 0
  /\ \/ head' = [head EXCEPT ![f] = 0, ![g] = head[f]]
     \/ head' = [head EXCEPT ![f] = 0]
  /\ UNCHANGED <<fat, pc, file, blk, left, disk>>

-----------------------------------------------------------------------------
Turn == ExtendWrite \/ WriteFails \/ CopyFails \/ FinishWrite \/ ScanStep \/ ScanDone
        \/ FinishAppend \/ AppendEnds \/ FreeStep \/ FreeDone

Command ==
  \/ Format \/ Quit
  \/ \E f \in Entries : \E n \in 0 .. MaxPieces :
       BeginWrite("create", f, n) \/ BeginWrite("copy", f, n) \/ BeginAppend(f, n)
  \/ \E f \in Entries : BeginRemove(f)
  \/ \E f, g \in Entries : Move(f, g)
  \/ \E f \in Entries, b \in Blocks : OldEntry(f, b)

Next == Turn \/ Command

Spec == Init /\ [][Next]_vars

(* The program is one thread: a loop that can turn does. *)
FairSpec == Spec /\ WF_vars(Turn)

(* Bound of the search: what commands do to a table and entries that are   *)
(* at odds is not explored further.                                        *)
WhileIntact == intact

-----------------------------------------------------------------------------
TypeOK ==
  /\ fat \in [Blocks -> Blocks \cup {FAT_EOF}]
  /\ head \in [Entries -> Blocks]
  /\ pc \in Loops \cup {"idle"}
  /\ file \in Entries
  /\ blk \in Blocks \cup {FAT_EOF}
  /\ pc \in Writing \cup {"scan"} => blk \in Blocks
  /\ left \in 0 .. MaxPieces
  /\ saved \in [Blocks -> Blocks \cup {FAT_EOF}]
  /\ intact \in BOOLEAN

(* A block that something refers to is one that rm, append and write_data  *)
(* may touch: allocated, and neither the root directory nor the table.     *)
Sound(b) == b \in Blocks \ Reserved /\ fat[b] # FAT_FREE

(* What entries and links refer to is allocated: no file's chain runs into *)
(* a free block (from which read_data and the loops would go on into the   *)
(* root directory, because FAT_FREE is block 0), and the table never gives *)
(* out the blocks of the root directory and of itself.                     *)
NothingDangles ==
  intact => /\ \A b \in Reserved : fat[b] = FAT_EOF
            /\ \A b \in Blocks : fat[b] \notin {FAT_FREE, FAT_EOF} => Sound(fat[b])
            /\ \A f \in Entries : head[f] # 0 => Sound(head[f])

(* Every block has at most one entry or block that refers to it, so chains *)
(* never meet and never close to a ring: rm frees no block of another file *)
(* and append writes into no other file.                                   *)
LinksInjective == \A b, c \in Blocks : fat[b] = fat[c] /\ fat[b] \notin {FAT_FREE, FAT_EOF} => b = c
HeadsInjective == \A f, g \in Entries : head[f] = head[g] /\ head[f] # 0 => f = g
HeadsUnlinked  == \A f \in Entries, b \in Blocks : head[f] # 0 => fat[b] # head[f]
ReferredOnce   == intact => LinksInjective /\ HeadsInjective /\ HeadsUnlinked

(* The block a loop works with: append's belongs to its file; the one that *)
(* a new file begins in, or that rm frees next, is referred to by nothing. *)
Unreferred(b) == (\A f \in Entries : head[f] # b) /\ (\A c \in Blocks : fat[c] # b)
LoopBlockOwned ==
  intact => /\ pc \in {"scan", "append"} => Sound(blk)
            /\ pc \in {"create", "copy"} => Sound(blk) /\ Unreferred(blk)
            /\ pc = "free" /\ blk # FAT_EOF => Sound(blk) /\ Unreferred(blk)

IInv == TypeOK /\ NothingDangles /\ ReferredOnce /\ LoopBlockOwned

(* Every command on an intact disk comes to an end, the scan and the       *)
(* freeing loop included, which follow links until one is FAT_EOF and      *)
(* count nothing.                                                          *)
CommandsEnd == (pc # "idle" /\ intact) ~> pc = "idle"
=============================================================================
