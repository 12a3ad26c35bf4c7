# Operating systems labs (DV1629): a TLA+ model

The repository holds three labs of a course in operating systems. Lab 3 is the
largest program, a FAT file system with a shell on a simulated disk. Lab 1 has
small programs about processes, threads, semaphores, shared memory and message
queues. Lab 2 has three programs that count page faults of a recorded trace.
These modules model the file system and the shell of lab 3, the programs of
lab 1 that share something, its matrix products and its quick sort, and the
three page replacement programs of lab 2; the rest is listed at the end, with a
plan.

## 1. The system

### 1.1 The file system (src/lab3)

| part | state | operations |
| --- | --- | --- |
| `Disk` (disk.cpp) | a host file of 2048 blocks of 4096 bytes | `read`, `write` of one block |
| `FS` (fs.cpp) | `fat`, the allocation table in memory; `root_dir`, a copy of the root directory; `cwd`, the working directory: its entries, its own entry (`info`) and its block | `format`, `create`, `cat`, `ls`, `cp`, `mv`, `rm`, `append`, `mkdir`, `cd`, `pwd`, `chmod`; the constructor reads table and root from disk, the destructor writes the table and the working directory |
| `Shell` (shell.cpp) | the input, which it shares with `FS::create` | reads a line, counts the arguments, calls one method of `FS`; `quit` |

Everything runs in one thread, and nothing is concurrent. What is hard is that

* **directory data has three copies** - the block on disk, `root_dir`, and
  `cwd.entries` - and the working directory is written only when the program
  leaves it. Every command on a path changes the working directory
  (`change_cwd`), works there and comes back (`exit_method`);
* **access rights have copies of their own**: the entry of a directory, slot 0
  (`..`) of each of its sub-directories, and `cwd.info`;
* **the table has no invariant written down**: `rm` and `append` follow links
  until `FAT_EOF` and count nothing. `FAT_FREE` is 0, which is also the number
  of the root directory's block, so a link into a free block would make the
  next reader go on into the root directory;
* **commands fail half way**: a disk fills up in the middle of a text, a
  directory of a path does not exist, a right is missing, and what had been
  done before the failure stays done;
* **sizes count a terminator**: a text of exactly one block takes two.

What makes it correct: no two files share a block and no chain runs into a free
one; no block is lost; the copies agree; paths and `pwd` lead where they say;
every command has the effect its comment in fs.h promises, or none.

### 1.2 The shared buffers (src/lab1/shmem.c, shmem2.c)

A parent and its child share a ring of ten numbers; the parent sends 1 to 100.
In shmem.c both spin on a counter of empty places, which both change. In
shmem2.c semaphores count empty and full places and a third one is a mutex. The
hazard is the interleaving of two processes at every memory access; correct is
a FIFO channel that delivers every number once, and comes to its end.

### 1.3 Page replacement (src/lab2)

Three sequential programs, each with its own data structure for the pages in
memory: a ring (fifo.c), a linked list with head, tail and a counted length
(lru.c), frames with notes of the time until the next reference (optimal.c).
The hazard is a structure that goes wrong slowly over a long trace: a stale note
or a misplaced node gives a plausible, but wrong number of page faults.

### 1.4 Threads, processes and arrays (the rest of src/lab1)

| program | what it does | what is hard about it, and what is correct |
| --- | --- | --- |
| bankaccount.c | threads deposit and withdraw | the update of the balance is a load and a store; no update may be lost, and the end must not depend on the schedule |
| diningprofessors.c | professors share chopsticks, a semaphore limits who may hold a single one | a circle in which each waits for the next; nobody may starve, neighbours must not eat together |
| semaphore.c | parent and child print in turn | named semaphores outlive a killed run, and the next run begins with what they hold |
| msgqsend.c, msgqrecv.c | numbers through a message queue of the kernel | receivers start at any time, several share the queue, and the sender removes it when a key is pressed |
| matmulpar.c, matmulpar2.c, matmulpar3.c | a matrix product by threads without locks | rows must be apart, and nothing but a loop of joins keeps the initialisation before the product |
| qsortseq.c | quick sort | the indices of `partition` must stay in the segment, also among equal elements, and its loop must end |

### 1.5 The rest

pthreadcreate*.c (each thread has arguments of its own, and main joins before it
reads a result), matmulseq.c (one thread), fork.c (shares nothing), and lab 2's
load programs, scripts and traces, and the Makefile.

## 2. The modules

| module | models | kind |
| --- | --- | --- |
| `FileSystem` | `FS`, `Disk` and the dispatch of `Shell`; an action is one whole command | detailed |
| `AbstractFS` | the promises of fs.h:71-104: one tree, one user | abstract |
| `FileSystemProperties` | properties of `FileSystem`, refinement of `AbstractFS` | properties |
| `BlockStore` | the loops of `write_data`, `append` and `rm` on the table; an action is one turn | detailed, proved |
| `FileSystemProofs` | the types of `FileSystem`, for every command line | proofs |
| `TreeProofs` | what the loops make of chains, when directories are a tree, where a walk leads in it | proofs |
| `CommandProofs` | what each command makes of a good tree | proofs |
| `OwnershipProofs` | files never share blocks: `BlocksOwnedOnce`, for users of the root directory and for local users of the tree; for these also `TreeWellFormed`, `RootCacheCoherent` and `RightsCoherent`, and with names of directories of one length `PathsResolve` and `PwdLeadsBack` | proofs |
| `LeakProofs` | no block is lost: `NoBlockLeaks`, for local users whose texts fit a block | proofs |
| `BlockStoreProofs` | the theorems about `BlockStore` | proofs |
| `Shell` | `Shell::run` on `FileSystem`, with the input that `create` shares | composition |
| `SemaphoreBuffer` | shmem2.c; an action is one call or assignment | detailed |
| `BusyBuffer` | shmem.c; load and store of the counter are two actions | detailed |
| `Channel` | a FIFO channel of bounded capacity, implemented by shmem2.c and by the message queue | abstract |
| `BankAccount`, `DiningProfessors`, `PingPong`, `MessageQueue`, `MatMul` | bankaccount.c, diningprofessors.c, semaphore.c, msgq*.c, matmulpar*.c; an action is one call or one access to shared memory | detailed |
| `QuickSort` | qsortseq.c; an action is one turn of the loop of `partition` | detailed |
| `MCLab1` | the programs of lab 1, of which a behaviour runs one | model checking |
| `Lab1Proofs` | the theorems about `SemaphoreBuffer`, `MessageQueue` and their refinement of `Channel`, about `BankAccount`, `DiningProfessors`, `PingPong`, `QuickSort` and `MatMul`; and all of them carried over to `MCLab1` | proofs |
| `PageFifo`, `PageLru`, `PageOptimal` | the three programs of lab 2, an operator per reference | detailed |
| `Paging` | the three side by side on one trace, and their properties | composition |
| `PagingProofs` | fifo.c is a queue, lru.c holds the pages used most recently, optimal.c has the fewest faults; types | proofs |
| `MCCommands`, `MCFiles`, `MCDirectories`, `MCEffects`, `MCFindings`, `MCShell` | command lines for TLC | model checking |

### 2.1 FileSystem and the code

The variables are the members of `FS` (`fat`, `root_dir`, `cwd`) and the blocks
of the disk. A block holds a directory, the table or text; reading a block as
something else is defined as the code's bytes would be read (`AsDir`, `AsText`).
A method is an operator of the same name from a record `[fat, disk, root, cwd]`
to a record, so the order of the calls is that of the code: `create`, for
example, is `SyncRoot` (enter_method), `get_filename_parts`, `change_cwd`, the
checks, `write_data`, the entry, `exit_method`. Every early return is a
disjunct of the command's action; of the long commands these are an operator of
their own (`cp_returns`, ...). A loop is an operator for one turn (`write_more`,
`free_one`, `walk_into`, ...), which `Each` and `Turn` apply as often as it can turn.
A command that returns an error is a step
too, because many of them have already changed something.

Kept as the code has it, not as it may have been meant:

* `write_data` declares a second `blk_no` inside its loop, so each further
  block is linked from the first one;
* `change_cwd` and `find_dir_from_path` search for the next `/` from the offset
  of the last, although they have shortened the path in between (`w.pos`);
* `mv` resolves its destination a second time from the source's directory;
* `append` uses a pointer into `cwd.entries` after `change_cwd`, and the size
  modulo the block, which is 0 for a full block. Its buffer is made for the size
  of the source before the size of the destination is changed, so of a file that
  is appended to itself it reads more than fits. Where it reads or writes outside
  of the buffer (`overruns`), this does no further harm or ends the program
  without the destructor: at the read, at the write or on return;
* `cp` and `append` read into buffers that nothing was written to before, and
  take a C string from them: `strings_read` has every string that this can be.
  What is there from before is `Stray` characters, with a terminator at any place
  (bound: within the buffer);
* `cp` goes on after `write_data` has failed, `chmod` after `change_cwd` has;
* a chain that never ends keeps `rm` busy for ever: the action has no step.

Abstracted: names are model strings with a length (the scanner of paths depends
on lengths only), text is a sequence of characters cut into blocks, rights are
sets of "r", "w" and "x". `ls` and `pwd` change nothing and are not actions;
`pwd_comps` is there because relative paths go through it. `MaxSize` bounds the
size that appends may give a file.

### 2.2 BlockStore and the code

Directories are reduced to `head`, the first block of every entry. `pc` tells
which loop runs, `blk` is the block number in its hand (`start_blk`, `blk_no`
or `curr_blk` in the code), `left` the pieces still to write, `saved` the table
on disk, which `Quit` writes. An append rewrites the last block it has scanned
for. A copy that fails may overwrite any entry, and so may a move, whose second
walk can end in another directory than the one it has looked at, or nowhere
(`Move`).

Two things put the table and the entries at odds. `AppendEnds` is the append that
ends the program without the destructor: the next start finds the `saved`
table, and the entries refer to blocks that it calls free. Sizes are left out here,
so it may happen in any append. `OldEntry` is what a stale `root_dir` does when it
is written over the root (finding 2): some entry becomes what it was, which is taken
to be any block. From then on, until the next format, the disk is not `intact`.
What commands make of such a disk is in `FileSystem`, which has both; there `rm` may
free the blocks of another file, or turn for ever on block 0. So the
properties of this module, `TypeOK` apart, are about an intact disk, and say so.

### 2.3 The lab 1 buffers and the code

`producer` and `consumer` say what each process does next; the names of the
actions are those of the statements. Semaphores are counters with an atomic
wait (a guard) and post, external to the code. In `BusyBuffer` the decrement
and increment of `empty` are a load and a store, which is how a `volatile`
member is compiled; the busy loop is a guard on the value that it reads.
Sleeps and prints are left out: they do not order anything.

### 2.4 The other programs of lab 1 and the code

Every module has a variable that says where each thread or process is, and an
action per call or per access to memory that others use. Semaphores, mutexes,
joins and the kernel's message queue are guards and counters, external to the
code.

* `BankAccount`: `balance += amount` is `Load` and `Store`. `ledger` is auxiliary,
  the sum of what has been stored.
* `DiningProfessors`: each thread locks the copies of the mutexes in its own
  argument (lines 55-56), so the chopsticks are variables per professor.
* `PingPong`: `KillAndRestart` ends both processes between any two steps and
  starts the program again; `Found` is `sem_open` with `O_CREAT`, which gives a
  value only to a new name. Two kills can leave two tokens: the first one just
  after `PostB`, so that the next run begins with B and ends with a token in the
  second name, and the second one between the two `sem_unlink` of that run.
* `MessageQueue`: `Limit` is the kernel's bound on the queue. `RemoveQueue` is the
  key pressed, at any time after the last message; a receiver waiting in `msgrcv`
  gets the error. The k-th message is the number k.
* `MatMul`: a row of a matrix is one number, since all its columns are treated
  alike; one step adds one term of a sum. `version` chooses the program.
* `QuickSort`: the recursion is a list of segments still to be sorted, in the
  order of the calls; `given` is auxiliary. Indices are integers, and
  `PartitionInvariant` shows that the unsigned ones of the code do not wrap.

### 2.5 Shell and the code

A line of the input has what its words say to the shell (`says`), and what the
user meant it to be: a command, or a row of a text. `RunCreate` takes the rows
from the input if, and only if, `FS::create` comes as far as reading them. A line
of blanks reads outside of an empty vector (shell.cpp:59): both outcomes that
the build can produce are steps (`NoFirstWord`). At the end of the input the loop
goes on for ever (`EndOfInput`).

### 2.6 Paging and the code

The trace is a sequence of addresses; `page_adress` is the code's modulo. In
`PageLru` the heap is the domain of `list.next`: `remove_page` takes a node
away, and after the only node has gone, `tail` still names it, as in lru.c:43-46.
The notes of `PageOptimal` are those of the first pass (optimal.c:42-60): the
distance to the next reference of the same page.

## 3. What is checked

| run | bounds | properties |
| --- | --- | --- |
| `MCFiles` | 5 blocks (3 free) of 4 characters, 2 free entries, 3 names, texts of 1, 2 and 3 blocks | `TypeOK`, `BlocksOwnedOnce`, `LosesOnlyWhenFull`, `ContentsKept` |
| `MCDirectories` | 4 blocks (2 free), 2 names | `RootCacheCoherent`, `TreeWellFormed`, `PathsResolve`, `RightsCoherent`, `PwdLeadsBack`, `NoBlockLeaks`, `KeepsItsPromise` |
| `MCEffects` | 12 blocks of 4 characters, 5 names, texts of up to 7 bytes with the terminator | `DoesOrRefuses` |
| `MCBlockStore` | 5 blocks (3 free), 3 entries, texts of up to 3 pieces; only `WhileIntact` | `TypeOK`, `NothingDangles`, `ReferredOnce`, `LoopBlockOwned`, `CommandsEnd` |
| `MCLab1` | see below | 9 invariants and 9 action and temporal properties, see below |
| `MCPaging` | every trace of up to 6 references to 5 addresses in 4 pages, 3 frames | `TypeOK`, `FirstInFirstOut`, `HoldsMostRecent`, `NotesRight`, `OptimalIsBest` |

What they show:

* `MCFiles` - on a disk that fills up in the middle of a text, after any order
  of create, copy, move, append, remove and restart, files never share a block.
  A block is lost only by a write that fills the disk or takes three blocks
  (`LosesOnlyWhenFull`; finding 1 is why the latter loses one), and a file that
  holds its text whole keeps it, also when an append to it gives up half way
  (`ContentsKept`).
  Three free blocks are enough for a text of three pieces to fail at its last,
  and for two files to compete for the last block.
* `MCDirectories` - used locally (every name in the directory it is about, and
  `cd` to child, parent and root), the copies of directories and rights agree
  at every moment, and the whole system refines `AbstractFS` (`KeepsItsPromise`).
  Two free blocks suffice for a directory within a directory, which is where
  the third copy and the second `..` come in.
* `MCEffects` - the refinement leaves a command free to refuse; `DoesOrRefuses`
  does not: a command that is permitted, and has a free entry, has its effect.
  With `turn` every command is a step, so a refusal that changes nothing at all is
  examined, too. The disk never fills up, the directory does. The user of a behaviour types one of two sets of
  commands: about contents in one directory, or across directories from the
  root.
* `MCBlockStore` - the properties that are proved, on a small disk, and one that
  is not: every command comes to its end, although two of the loops count
  nothing. The search stops where the disk is no longer intact (`WhileIntact`),
  since nothing is claimed of what follows. Three entries and three free blocks
  are enough for a chain of three blocks, for two chains that could meet, and for
  an entry that a copy or a move overwrites.
* `MCLab1` - a behaviour chooses one of seven programs at its start, and TLC
  explores every schedule of each:

  | program | bounds | shown |
  | --- | --- | --- |
  | shmem2.c | a ring of 3, 8 numbers: more than two rounds | `Exclusive`; `DeliversInOrder` (it implements `Channel`); `BothEnd` with the last number received |
  | bankaccount.c | 3 threads, 2 transactions each | `NoUpdateLost`; `BankEnds` with the same balance in every schedule |
  | diningprofessors.c | 3 professors, 2 meals each: one can be late while others are at their second meal | `SeatsCounted`; `DiningEnds`, everybody with all meals |
  | semaphore.c | 3 letters each, 2 kills | `TokensKept`; `TakesTurns` in every run that finds at most one token; `TurnsEnd` for every run that finds one |
  | msgqsend.c, msgqrecv.c | 3 messages, a limit of 2, 2 receivers | `DeliversMessages` (it implements `Channel`); `ReceiversEnd` |
  | matmulpar*.c | 4 rows, 2 threads in the third version | `NoRaces`; `ProductRight`; `ComputationsEnd` |
  | qsortseq.c | every array of 4 numbers from {1, 2, 3}, so with equal elements | `PartitionInvariant`, the one the code states; `SortsIt`; `ComputationsEnd` |

* `MCPaging` - the ring is a queue, the list holds the most recently used pages
  in their order, the notes are right at every reference, and no other choice of
  pages to replace has fewer faults (`Fewest` tries them all). With three
  frames and four pages a node is removed from the front, the middle and the end
  of the list.

**The view of the file system runs.** `ReadableState` identifies states that
differ only in the text of free blocks and in the table's block on disk. No
command reads the first as long as `BlocksOwnedOnce` holds - a block is written
before it is linked - and the second is written by the destructor before the
next constructor reads it, as no append of the passing runs ends the program. None of the properties looks at either, and no
liveness property is checked under a view.

**Fairness.** `FairSpec` of `BlockStore` is weak fairness of the turn of a loop:
the program is a single thread and a loop that can turn does. `Lab1Spec` has one
weak fairness condition, on `Runs`: as long as some process or thread can go on,
one of them does. That is less than a fair scheduler. It is enough because every
thread has a bounded number of turns, so none can keep the others from theirs
for ever, and no fairness of a semaphore or a mutex is assumed. The user's
steps, which are to start a receiver, to press a key and to kill, are not in
`Runs` and need never happen. The file system and shell runs check safety only.

**Deadlock** is checked in every run. The programs that end have an explicit
step for it (`Rest`, `Ends`, `BankRest`, ...); so has semaphore.c for a run that finds
its names without a token (`Stuck`), where both processes wait until they are killed.

## 4. Findings

Each has a run with a counterexample of a few commands.

1. `MCLargeFile` - a text of three or more blocks is not read back (fs.cpp:72,
   the shadowed `blk_no`): the middle blocks are unreachable, and are never freed.
2. `MCStaleRoot` - a file made in the root from within a sub-directory by its
   absolute path is on disk, but not in `root_dir` (fs.cpp:283). The next `cd /`
   takes the old directory and later writes it over the new one.
3. `MCRelativeMove` - `mv dd/aa ee` from the root wipes the source's entry, then
   does not find `ee` from within `dd` (fs.cpp:621). The file is gone.
4. `MCBusyBuffer` - two updates of `empty` race in shmem.c (lines 42 and 54), one is
   lost, and the child leaves its busy wait with nothing new to read.
5. `MCDining` - the mutexes are copied by value (diningprofessors.c:55-56), and two
   neighbours eat at once, each with a copy of the chopstick between them. The
   semaphore still does what it is for.
6. `MCShell` - a refused `create` leaves its text in the input (fs.cpp:329-341), and
   the shell runs it: a row that says `rm bb` removes `bb`.

Seven more deviations have a set of commands in `MCFindings`, and no .cfg. To see
one, take MCRelativeMove.cfg and give `Commands`, the sizes and the property as
in the table.

| commands | sizes | property | what goes wrong |
| --- | --- | --- | --- |
| `AppendAcross` | NoBlocks 6, BlockSize 4, Names {"aa", "bb", "dd"} | `DoesWhatItSays` | `append dd/aa bb` appends what is in the slot of `aa` in the directory of `bb` (fs.cpp:697) |
| `ShorterName` | NoBlocks 7, BlockSize 2, Names {"aa", "dd", "long"}, NameLen <- Lengths | `PathsResolve` (invariant) | the path `long/dd/aa` does not resolve, since `dd` is shorter than `long` (fs.cpp:243 and 189) |
| `FullLastBlock` | NoBlocks 6, BlockSize 2, MaxSize 6 | `DoesWhatItSays` | an append behind a text whose terminator fills its block loses the text of that block, or ends the program and leaves the old table on disk (fs.cpp:720) |
| `AppendItself` | NoBlocks 6, BlockSize 4, MaxSize 7, Names {"aa"} | `DoesWhatItSays`, `BlocksOwnedOnce` (invariant) | a file appended to itself is read into a buffer made for its old size (fs.cpp:722), which may end the program with the old table on disk: the file is then in blocks that are free |
| `ChmodParent` | NoBlocks 6, BlockSize 2 | `RightsCoherent` (invariant) | `chmod ..` leaves old rights in `cwd.info` (fs.cpp:906) |
| `ChmodNowhere` | NoBlocks 6, BlockSize 2 | `DoesWhatItSays` | `chmod` on a path through a missing directory changes the file of that name here (fs.cpp:892) |
| `CopyToFullDisk` | NoBlocks 5, BlockSize 2 | `KeepsItsPromise` | `cp` to another directory on a full disk changes the user's directory (fs.cpp:546) |

The passing runs leave out the commands that lead to these findings, and only
those; the headers of the MC modules name them.

## 5. What is proved

### 5.1 The allocation table

`BlockStoreProofs` proves for every size of disk, every set of entries and texts
of any number of pieces (assumption: `DiskAssumption`, at least the two reserved
blocks):

* `Inductive`: `Spec => []IInv`;
* `NeverDangling`, `ChainsApart`, `LoopsOwnTheirBlock`, `TypeCorrect`: its parts.

All but the types are about an intact disk, on which no append has ended the program
with an old table, and no stale `root_dir` has brought back an entry, since the last
format. `OwnedOnce` in 5.2 says which command lines keep it so.

None of the parts is inductive by itself. That chains do not meet
(`ReferredOnce`) is kept by a step that links a new block only if nothing refers
to a free block (`NothingDangles`: lemma `FreeUnreferred`); that nothing dangles
is kept by the freeing loop only if the block it frees is referred to by nothing
else (`LoopBlockOwned`); and that the next block in its hand is again
unreferred, once its predecessor is free, follows from `ReferredOnce`. The
conjunction `IInv` closes this circle. There is one lemma per action that
changes the table or the entries, and one for all that change neither. The
shadowed block number of `write_data` does not harm the invariant: it loses
blocks (a link is overwritten), but never shares one.

### 5.2 The file system

`FileSystemTypeCorrect`: `Spec => []TypeOK`, for every size of disk, block and
directory, every set of names, and whatever commands the users type. The
assumptions are `SizesAssumption`, `NamesAssumption` and `CommandsAssumption`, which only
say that a path has a component, that rights are rights and that a text that is
typed is not longer than the model's bound. `TypeOK` says more than that a variable
is of some kind: every link of the table and every first block is a block of the
disk or `FAT_EOF`, every slot that is used as an index exists, and no block holds
more text than fits. The code checks none of this: a search returns -1 or nullptr,
and whether it can be used as an index depends on the tests before.

The argument follows the program. Each loop has a *course*, a function from the
number of its turns to what it works on (`FreeRuns`, `WriteRuns`, `WalkRuns`, ...), so
what every turn keeps holds at its end (`EveryTurn`; both without an induction
rule, by a least counterexample). Then each method of `FS` maps states to states
(`ChangeCwdType`, `ExitType`, ...), and each command is a chain of these, with one
case for each of its returns.

`OwnedOnce`: `RootUse \/ LocalUse => (Spec => []BlocksOwnedOnce)`. However many
directories there are, whatever the size of the disk, and also when it runs full in
the middle of a write: no two entries of the tree share a block, and none owns a free
one, the root's or the table's. `LocalTreeWellFormed` and `LocalRootCoherent`:
`LocalUse => (Spec => []TreeWellFormed)` and `LocalUse => (Spec => []RootCacheCoherent)`.
`LocalPathsResolve` and `LocalPwdLeadsBack`: `LocalUse /\ EvenNames => (Spec => []PathsResolve)`
and the same for `[]PwdLeadsBack`. `LocalRightsCoherent`: `RightsUse => (Spec => []RightsCoherent)`.
`LocalNoBlockLeaks`: `SmallUse => (Spec => []NoBlockLeaks)`: after every command, whether it did
its work or was refused, and however full the disk is, a block that is not free belongs to a
directory or a file that can be reached.

`RootUse` and `LocalUse` are assumptions on the command lines only; section 4 shows
what happens without them. In `RootUse` paths may lead anywhere, but

* there is no `cd`: in another directory, absolute paths start from a `root_dir`
  that may be stale (`StaleRoot` in section 4);
* `..` is not moved, since `mv` would turn the way up into an entry that leads down;
* an append is of one file of the root to another, never to itself, and there is a set
  of file sizes that create and append do not lead out of and that fill no block to the
  end (`NeverFill`). `AppendAcross`, `AppendItself` and `FullLastBlock` show what
  happens otherwise.

In `LocalUse` the user walks through the tree with any `cd`, and reads along any path, but

* what a command changes, and what it copies or moves, is named where it is, by a
  name alone (`IsHere`): a change made from afar is what makes `root_dir` stale;
* the names that `mkdir` gives (`FolderNames`) are not moved or copied: `mv` of
  a directory leaves the `..` in it behind, and `cp` of one lists a text as a directory;
* nothing is appended, and if there are copies, every text fits a block with its
  terminator: a copy that gives up in the middle changes the wrong directory
  (`CopyToFullDisk`).

`EvenNames` says that the names of directories have one length. The scanner of paths
cuts off a name and then looks for the next slash from the position of the last one, so
it misses the slash after a name that is shorter (`ShorterName` in section 4), and a path
that is right leads nowhere.

`RightsUse` is `LocalUse` in which nobody says `chmod ..`. That command changes the rights
in slot 0 alone, and in `cwd.info` nowhere (`ChmodParent` in section 4): the directory
above still lists itself with its old ones.

`SmallUse` is `LocalUse` in which every text fits one block. A longer one loses blocks where the
block number is shadowed (`MCLargeFile`), and also where a write finds no block for its rest:
what it has linked by then it leaves behind.

`MCFiles` assumes `RootUse` (`RootAssumption`) and `MCDirectories` `RightsUse`, `SmallUse`
and `EvenNames` (`LocalAssumption`), so that TLC shows that they can be met.

None of the properties is inductive: a search for directories and chains says nothing
of what a step makes of them. The invariant (`OwnInv`) says instead that the disk is new,
or that there is a set `D` of directories - which may hold some that nothing leads to
any more - of which (`Tree`):

* every entry of type directory leads to a member of `D`, slot 0 too, and no file does
  (`DirGood`);
* an entry or a link refers only to an allocated block, no two of them to the same
  one, and no link to a first block (`TableGood`); directories are allocated, and no
  link leads to one;
* `root_dir` is the root as it is seen;
* under `LocalUse` the tree is `Nested`: slot 0 is called `..`, a directory holds
  a name once, a directory is listed by the one its `..` leads to and by no other, and
  there is a rank that falls on the way up, so that this way ends at the root.

Each step on the table keeps the first three on its own: to cut, link or free a block
(`CutGood`, `LinkGood`, `UnlinkGood`), and therefore the loops (`WriteGood`, `FreeGood`,
`LastGood`). A command is then a walk to a directory of `D`, which leaves the tree as
it was (`ChangeVisits`), a change of one slot there (`PutGood`, `SameBlocksGood`), and the way
back, with the directory saved (`LeavesGood`) or dropped (`QuietGood`); `mv` and `append`
go to two directories. The states between are not good: while `mv` is on its way,
two entries lead to the same file (`OnTheWay`). At the end, chains are shown to be
disjoint by following each link backwards (`ChainsApart`).

A user of the root comes back by the path `/`. Anybody else comes back by the path
that `pwd` computes, through directories that the command may have changed, and
`LocalUse` is what makes this path lead to where the user was. A walk is a `Route`, a
function from the number of components walked to the directory reached
(`ChangeArrives`). The loop of `get_pwd_string` keeps that the names it has collected
are a route down from where it is (`UpOnce`, with the rank for its end), so `pwd` is a
route from the root to the working directory (`PwdRoute`). In a directory that
holds every name once a route has one end, and it is the same as long as only entries
of files are taken away or added (`HomeAgain`). And no command that works on a name
changes the root from elsewhere, for its path leads off the root (`PlacesOff`),
which keeps `root_dir` right.

All this says where a walk arrives that does arrive. That it arrives is the second half:
a walk along a route misses no slash if the names have one length, and finds each name
in the directory it is at (`WalkSucceeds`). The nodes that the search of `PathsResolve`
starts from and adds in each round are ends of routes (`NodesGood`), and so is the working
directory (`PwdDown`).

For the rights the invariant grows (`RightsInv`): there is a function `r` from `D` to
rights such that whatever a directory says of another one, in the entry that lists it or
in slot 0, is what `r` says (`Ruled`), and `cwd.info` agrees. A walk takes the
rights of the directory it enters from the entry it enters by, so it arrives knowing
them (`ChangeInformed`). All commands but two leave `r` as it is: `mkdir` extends it by the
new directory (with the entry it lists and the slot 0 it writes), and `chmod` changes it at one
place. For that a directory must be listed once (`FoundPlace`, from `Nested`), and `chmod` must
reach the entry, slot 0 of each sub-directory, and `cwd.info` and slot 0 of the
directory it was called from (`RegradedShows`). `mv` needs both ways back, since it goes back
to a working directory that it has itself changed (`BackRuled`). That `r` is all that the property compares
takes one more lemma: the directories that the search finds are exactly those of `D`
(`AllSeen`, by the rank again).

For the blocks it grows too (`SmallInv`): every allocated block but the root's and the
table's is the last of its chain, and an entry of a directory of `D` refers to it (`Covers`). So
`D` may no longer hold directories that nothing leads to: a command must end in a tree
that has all of `D`, whichever tree it is (`Complete`), as no
command takes an entry of a directory away (`StillListed`). A write does with the block it was
given (`WriteOne`), and `rm` frees the one block of what it removes (`FreeOne`). With these the table and one slot change together (`Swaps`), and what is covered
stays so (`SwapCovers`). `mv` is the hard case again, since it is on its way when it wipes the
entry, and walks a second time to where it puts the copy: the walk sees directories only,
so it ends where it ended before (`TwinWalk`, `TwinChange`), and the entry arrives (`MoveKeeps`).

### 5.3 The programs of lab 1

For every size, number of turns, threads, messages and kills (assumptions: those
that the modules state about their constants, such as a positive size of the
ring):

* **shmem2.c** (`RingInductive`, `NeverTogether`, `RingTypeCorrect`): the mutex is free
  or one process is between its wait and its post (`MutexCounted`), and every
  place is free, full or in a process's hands (`PlacesCounted`), which bounds the
  counting semaphores. `RingImplementsChannel` needs more: the ring holds the
  numbers from `var2` to `var1` at the places from `out` to `in`. Each step of either
  process is then a send, a receive or a stutter of `Channel`.
* **msgqsend.c, msgqrecv.c** (`QueueInductive`, `QueueTypeCorrect`,
  `QueueImplementsChannel`): the kernel's queue holds the numbers between `newest` and
  `mailed`, in order. A queue that has been removed is empty to the receivers, so
  that the same mapping serves before and after the key is pressed.
* **bankaccount.c** (`BankInductive`, `UpdatesKept`): `NoUpdateLost` is kept by a store
  only if what was loaded is still the balance (`LoadedFresh`), which another
  thread's store would break, were the mutex not held by one thread alone
  (`LockHeld`).
* **semaphore.c** (`TurnsInductive`, `TokensAreKept`, `TurnsAreTaken`,
  `TurnsTypeCorrect`): the tokens of a run are those it found; with at most one, who
  has it has not printed the last letter (`LastLetter`), and a run nobody killed
  before finds one (`Fresh`). A kill adds at most one token, which bounds the types
  (`TokensBounded`).
* **diningprofessors.c** (`DiningInductive`, `SeatsAreCounted`, `NeverAllSingle`): places
  and single chopsticks add up, by the cardinality of a set that grows or
  shrinks by one; so the circle is never closed.
* **matmulpar*.c** (`MatInductive`, `MatTypeCorrect`, `EveryProductRight`, `MatRaceFree`):
  the invariant says of every row who may touch it and what it holds - initialised
  only before, multiplied only after all joins of the first phase - and of every
  thread that its rows are those of its arguments. Both properties follow from it;
  neither is inductive alone, since a thread that reads a row nobody has
  initialised would store a wrong product much later.
* **qsortseq.c** (`SortInductive`, `PartitionCorrect`, `SortCorrect`, `SortTypeCorrect`): the
  segments still to be sorted are disjoint and in order; everything left of a
  segment's end is at most, everything right of it at least what is inside. A
  turn of the loop of `partition` keeps `PartitionInvariant` - the comment of the code,
  plus that the indices stay in the segment - and the end of a partition splits
  one segment into two. That the result is a permutation of the given array
  rests on the composition of exchanges.
* **all of them together**: a behaviour of `MCLab1` runs one program and leaves the
  variables of the others alone (`EachBySelf`). `Lab1TypesCorrect`, `Lab1Safe` and
  `Lab1Delivers` carry everything over to the specification that TLC checks.

### 5.4 Page replacement

For every trace (of natural numbers as addresses, up to any length), every
number of frames and every size of page:

* **fifo.c** (`FifoInductive`, `FifoIsQueue`): the ring fills up from the first frame to
  the last, and then none becomes empty (`FillsUp`). So the queue begins at frame 0
  until the ring is full, and at the next frame to be filled from then on; a fault
  appends to it, and takes the first page away when it is full.
* **lru.c** (`LruInductive`, `LruHoldsMostRecent`): the invariant names the sequence of
  pages that the nodes stand for (`Lists`: `next` leads from each to the following
  one, `head` and `tail` are its ends) and says that it is ordered by last use, with
  every other page used before all of it (`Recent`). `InsertAppends` and `RemoveSkips`
  prove what the two list operations do to such a list, at the head, in the middle
  and at the tail. That a search comes by exactly these pages (`SearchFinds`) is an
  induction along the recursive function `walk`.
* **optimal.c** (`OptimalInductive`, `NotesAreRight`, `OptimalIsOptimal`): the notes are the
  distances to the next uses; a reference counts all down and makes that of its
  page anew (`NotesStep`). Optimality is Belady's theorem, by the exchange
  argument: holding more pages is never worse (`MoreIsBetter`), one page is worth at
  most one fault (`OnePageCostsOne`), a page that is not used again is worth nothing
  (`IdleIsUseless`), and of two pages it is better to hold the one that is used sooner
  (`SoonerIsBetter`). So the choice of `best` attains the minimum of `Fewest`
  (`BestReplaced`), and the invariant is that the faults so far and the fewest that can
  follow add up to the fewest of the whole trace.
* **all three** (`PagingTypeCorrect`).

`Fewest` and `walk` are recursive functions over numbers. That they are well defined,
and what they compute, is proved with the least number of a set (`Least`, from the
library's `WFMin`) instead of an induction rule: a counterexample would have a least
one, and the step refutes it (`Backwards`, `FewestDefined`, `WalkIs`).

### 5.5 Model-checked only

Everything under fairness, which is out of the prover's reach: `CommandsEnd`,
`BothEnd`, `BankEnds`, `DiningEnds`, `TurnsEnd`, `ReceiversEnd`, `ComputationsEnd`.

And of `FileSystem`: `LosesOnlyWhenFull`, `ContentsKept`, `KeepsItsPromise` and `DoesOrRefuses`. They too
hold only of some commands (section 4), those of their runs.

* `LosesOnlyWhenFull` says that a block is lost only by a write that met the end of the disk
  or took three blocks. So where texts are long, what each write takes must be counted, and
  the links it makes must not go around; where they fit a block (`SmallUse`) nothing is lost at
  all, which is `NoBlockLeaks`.
* `ContentsKept` and the refinement compare the texts at the paths of two trees. A text
  is read along a chain of unknown length, and that two searches agree on all paths is an
  induction over data.

## 6. Not modelled

* A kill in the middle of a session. The table reaches the disk only in the
  destructor; nothing in the repository promises to survive a kill. `quit` and a
  new start are an action.
* Errors of the host's file system.
* An input that ends inside a text or without a newline: the shell then runs its
  last line for ever.
* What a killed run of shmem2.c, diningprofessors.c or msgqsend.c leaves behind.
  `PingPong` models it for semaphore.c, whose names are opened in the same way.
  There the user is one who may open the names again: `O_RDWR` stands where the
  permissions belong, and gives none to anybody but root.
* An error of `msgsnd` (msgqsend.c:37), after which the loop goes on. The queue is there
  from `msgget` until the sender itself removes it, a message fits, and no signal has a
  handler; a queue left by another run, or removed by another user, is not modelled.
* A final balance that a double cannot hold, or floating-point sums: the numbers of
  the programs are small and whole.
* `chmod` with a number that `stoi` cannot hold (fs.cpp:875), which ends the
  program.
* What is in a buffer before it is read into, other than a character that no text has
  (`Stray`), and what a text longer than its buffer overwrites, other than that the
  program goes on or ends.
* A promise for writes that give up (fs.cpp:377, 546, 740): the model has what they
  do, but no property forbids it. They lose the blocks they have linked, a copy
  that gave up is listed with a size its blocks do not hold, an append that gave
  up may leave a text without its terminator, and a further append to such a
  file may overwrite what it holds. `ContentsKept` speaks of the others.
* pthreadcreate*.c, matmulseq.c, fork.c: nothing in them can interleave. The load
  programs, scripts, traces and build files have no logic.

## 7. Plan

1. *(done)* `FileSystem`, `AbstractFS`, `FileSystemProperties`, `BlockStore` with
   proofs; `SemaphoreBuffer` with `Channel`; `BusyBuffer`; `Paging`.
2. *(done)* The other programs of lab 1, together in `MCLab1`; `Shell`; proofs about
   `SemaphoreBuffer`, `BankAccount`, `PingPong` and `DiningProfessors`.
3. *(done)* Proofs of the refinements of `Channel`, of `QuickSort`, `MatMul`, the whole of
   `MCLab1` but liveness, and of everything in `Paging`.
4. *(done)* `BlocksOwnedOnce` of `FileSystem`, for users of the root directory.
5. *(done)* The same for users who walk with `cd` and name files where they are, with
   `RootCacheCoherent` and `TreeWellFormed`.
6. *(done)* `PathsResolve` and `PwdLeadsBack` for these users when the names of directories
   have one length.
7. *(done)* `RightsCoherent` for them, when nobody changes the rights of `..`.
8. *(done)* `NoBlockLeaks` for them, when texts fit a block: a tree that owns every allocated
   block. What is left is the same for longer texts, whose chains must be counted.
