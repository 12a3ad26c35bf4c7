-------------------------- MODULE BlockStoreProofs --------------------------
(***************************************************************************)
(* The allocation table is sound on a disk of any size, for any number of  *)
(* entries and any length of text, as long as neither an old table nor an  *)
(* old entry has come back since the last format: IInv is an inductive     *)
(* invariant of BlockStore.                                                *)
(***************************************************************************)
EXTENDS BlockStore, TLAPS

(* What a step keeps while the disk is intact. *)
Apart == NothingDangles /\ ReferredOnce /\ LoopBlockOwned

(* The formatted file system satisfies the invariant. *)
LEMMA InitIInv == Init => IInv
<1> SUFFICES ASSUME Init PROVE IInv
  OBVIOUS
<1> USE DiskAssumption DEF Blocks, Reserved, ROOT_BLOCK, FAT_BLOCK, FAT_FREE, FAT_EOF
<1>1. TypeOK
  <2>1. intact \in BOOLEAN
    BY Zenon DEF Init
  <2> QED
    BY <2>1 DEF Init, ZeroFat, FormattedFat, NoEntries, TypeOK, Writing
<1>2. NothingDangles
  BY DEF Init, FormattedFat, NoEntries, NothingDangles
<1>3. ReferredOnce
  BY DEF Init, FormattedFat, NoEntries, ReferredOnce, LinksInjective, HeadsInjective, HeadsUnlinked
<1>4. LoopBlockOwned
  BY DEF Init, LoopBlockOwned
<1> QED
  BY <1>1, <1>2, <1>3, <1>4 DEF IInv

(* A block that is free is not reserved and nothing refers to it. *)
LEMMA FreeUnreferred ==
  ASSUME IInv, intact, NEW b \in Blocks, fat[b] = FAT_FREE
  PROVE  b \notin Reserved /\ Unreferred(b) /\ b # 0
<1> USE DEF Blocks, Reserved, ROOT_BLOCK, FAT_BLOCK, FAT_FREE, FAT_EOF
<1>1. b \notin Reserved
  BY DEF IInv, NothingDangles
<1>2. ASSUME NEW f \in Entries PROVE head[f] # b
  BY <1>1 DEF IInv, NothingDangles, Sound
<1>3. ASSUME NEW c \in Blocks PROVE fat[c] # b
  BY <1>1 DEF IInv, NothingDangles, Sound
<1> QED
  BY <1>1, <1>2, <1>3 DEF Unreferred

(* Formatting leads back to the state the program begins with. *)
LEMMA FormatApart == Format => Apart'
<1> SUFFICES ASSUME Format PROVE Apart'
  OBVIOUS
<1> USE DiskAssumption DEF Blocks, Reserved, ROOT_BLOCK, FAT_BLOCK, FAT_FREE, FAT_EOF
<1>1. NothingDangles'
  BY DEF Format, FormattedFat, NoEntries, NothingDangles
<1>2. ReferredOnce'
  BY DEF Format, FormattedFat, NoEntries, ReferredOnce, LinksInjective, HeadsInjective, HeadsUnlinked
<1>3. LoopBlockOwned'
  BY DEF Format, LoopBlockOwned
<1> QED
  BY <1>1, <1>2, <1>3 DEF Apart

(* A file is begun in a free block, to which nothing refers until the      *)
(* entry is made.                                                          *)
LEMMA BeginWriteApart ==
  ASSUME IInv, intact, NEW kind \in {"create", "copy"}, NEW f \in Entries, NEW n \in 0 .. MaxPieces,
         BeginWrite(kind, f, n)
  PROVE  Apart'
<1> USE DEF Blocks, Reserved, ROOT_BLOCK, FAT_BLOCK, FAT_FREE, FAT_EOF
<1>1. PICK b \in Blocks : /\ fat[b] = FAT_FREE
                          /\ fat' = [fat EXCEPT ![b] = FAT_EOF]
                          /\ blk' = b
  BY DEF BeginWrite, IsFirstFree
<1>2. b \notin Reserved /\ Unreferred(b) /\ b # 0
  BY <1>1, FreeUnreferred
<1>3. fat \in [Blocks -> Blocks \cup {FAT_EOF}] /\ UNCHANGED head /\ pc' = kind
  BY DEF IInv, TypeOK, BeginWrite
<1>4. \A x : Sound(x) => Sound(x)'
  BY <1>1, <1>3 DEF Sound
<1>5. NothingDangles'
  BY <1>1, <1>2, <1>3, <1>4 DEF IInv, NothingDangles
<1>6. ReferredOnce'
  BY <1>1, <1>3 DEF IInv, ReferredOnce, LinksInjective, HeadsInjective, HeadsUnlinked, TypeOK
<1>7. LoopBlockOwned'
  BY <1>1, <1>2, <1>3 DEF LoopBlockOwned, Sound, Unreferred
<1> QED
  BY <1>5, <1>6, <1>7 DEF Apart

(* The next piece is linked from the block in which the text began: that   *)
(* block had the end of the chain or an earlier piece behind it, and the   *)
(* new block was free.                                                     *)
LEMMA ExtendWriteApart == IInv /\ intact /\ ExtendWrite => Apart'
<1> SUFFICES ASSUME IInv, intact, ExtendWrite PROVE Apart'
  OBVIOUS
<1> USE DEF Blocks, Reserved, ROOT_BLOCK, FAT_BLOCK, FAT_FREE, FAT_EOF
<1>1. PICK b \in Blocks : /\ fat[b] = FAT_FREE
                          /\ fat' = [fat EXCEPT ![blk] = b, ![b] = FAT_EOF]
  BY DEF ExtendWrite, IsFirstFree
<1>2. b \notin Reserved /\ Unreferred(b) /\ b # 0
  BY <1>1, FreeUnreferred
<1>3. Sound(blk) /\ blk # b
  BY <1>1 DEF IInv, LoopBlockOwned, ExtendWrite, Writing, Sound
<1>4. fat \in [Blocks -> Blocks \cup {FAT_EOF}] /\ UNCHANGED <<head, pc, blk>>
  BY DEF IInv, TypeOK, ExtendWrite
<1>5. /\ fat'[blk] = b /\ fat'[b] = FAT_EOF
      /\ \A c \in Blocks : c # blk /\ c # b => fat'[c] = fat[c]
  BY <1>1, <1>3, <1>4 DEF Sound
<1>6. \A x : Sound(x) => Sound(x)'
  BY <1>2, <1>5 DEF Sound
<1>7. NothingDangles'
  <2>1. \A c \in Reserved : fat'[c] = FAT_EOF
    BY <1>2, <1>3, <1>5, DiskAssumption DEF IInv, NothingDangles, Sound
  <2>2. Sound(b)'
    BY <1>2, <1>5 DEF Sound
  <2>4. ASSUME NEW c \in Blocks, fat'[c] \notin {FAT_FREE, FAT_EOF}
        PROVE  Sound(fat[c])'
    <3>1. CASE c = blk
      BY <1>5, <2>2, <3>1
    <3>2. CASE c = b
      BY <1>5, <2>4, <3>2
    <3>3. CASE c # blk /\ c # b
      BY <1>5, <1>6, <2>4, <3>3 DEF IInv, NothingDangles
    <3> QED
      BY <3>1, <3>2, <3>3
  <2>5. \A f \in Entries : head'[f] # 0 => Sound(head[f])'
    BY <1>4, <1>6 DEF IInv, NothingDangles
  <2> QED
    BY <1>4, <2>1, <2>4, <2>5 DEF NothingDangles
<1>8. ReferredOnce'
  <2>1. LinksInjective'
    <3> SUFFICES ASSUME NEW c \in Blocks, NEW d \in Blocks,
                        fat'[c] = fat'[d], fat'[c] \notin {FAT_FREE, FAT_EOF}
                 PROVE  c = d
      BY DEF LinksInjective
    <3>1. c # b /\ d # b
      BY <1>5
    <3>2. CASE c = blk \/ d = blk
      BY <1>2, <1>5, <3>1, <3>2 DEF Unreferred
    <3>3. CASE c # blk /\ d # blk
      BY <1>5, <3>1, <3>3 DEF IInv, ReferredOnce, LinksInjective
    <3> QED
      BY <3>2, <3>3
  <2>2. HeadsInjective'
    BY <1>4 DEF IInv, ReferredOnce, HeadsInjective
  <2>3. HeadsUnlinked'
    <3> SUFFICES ASSUME NEW f \in Entries, NEW c \in Blocks, head[f] # 0
                 PROVE  fat'[c] # head[f]
      BY <1>4 DEF HeadsUnlinked
    <3>1. head[f] \in Blocks
      BY DEF IInv, TypeOK
    <3>2. CASE c = blk
      BY <1>2, <1>5, <3>2 DEF Unreferred
    <3>3. CASE c = b
      BY <1>5, <3>1, <3>3
    <3>4. CASE c # blk /\ c # b
      BY <1>5, <3>4 DEF IInv, ReferredOnce, HeadsUnlinked
    <3> QED
      BY <3>2, <3>3, <3>4
  <2> QED
    BY <2>1, <2>2, <2>3 DEF ReferredOnce
<1>9. LoopBlockOwned'
  <2>1. Sound(blk)'
    BY <1>3, <1>4, <1>6
  <2>2. ASSUME pc \in {"create", "copy"} PROVE Unreferred(blk)'
    <3>1. Unreferred(blk)
      BY <2>2 DEF IInv, LoopBlockOwned
    <3>2. ASSUME NEW c \in Blocks PROVE fat'[c] # blk
      BY <1>3, <1>5, <3>1 DEF Unreferred, Sound
    <3> QED
      BY <1>4, <3>1, <3>2 DEF Unreferred
  <2> QED
    BY <1>4, <2>1, <2>2 DEF LoopBlockOwned, ExtendWrite, Writing
<1> QED
  BY <1>7, <1>8, <1>9 DEF Apart

(* A file gets its entry: its first block had no other reference.          *)
LEMMA FinishWriteApart == IInv /\ intact /\ FinishWrite => Apart'
<1> SUFFICES ASSUME IInv, intact, FinishWrite PROVE Apart'
  OBVIOUS
<1> USE DEF Blocks, Reserved, ROOT_BLOCK, FAT_BLOCK, FAT_FREE, FAT_EOF
<1>1. /\ Sound(blk) /\ Unreferred(blk)
      /\ head' = [head EXCEPT ![file] = blk] /\ pc' = "idle"
      /\ UNCHANGED <<fat, file, blk, left>>
  BY DEF IInv, LoopBlockOwned, FinishWrite
<1>2. NothingDangles'
  BY <1>1 DEF IInv, TypeOK, NothingDangles, Sound
<1>3. ReferredOnce'
  BY <1>1 DEF IInv, TypeOK, ReferredOnce, LinksInjective, HeadsInjective, HeadsUnlinked, Unreferred
<1>4. LoopBlockOwned'
  BY <1>1 DEF LoopBlockOwned
<1> QED
  BY <1>2, <1>3, <1>4 DEF Apart

(* cp fails half way: whatever entry it overwrites now refers to the new   *)
(* chain.  The chain of the overwritten entry is lost, but shared by none. *)
LEMMA CopyFailsApart == IInv /\ intact /\ CopyFails => Apart'
<1> SUFFICES ASSUME IInv, intact, CopyFails PROVE Apart'
  OBVIOUS
<1> USE DEF Blocks, Reserved, ROOT_BLOCK, FAT_BLOCK, FAT_FREE, FAT_EOF
<1>1. PICK g \in Entries : head' = [head EXCEPT ![g] = blk]
  BY DEF CopyFails
<1>2. /\ Sound(blk) /\ Unreferred(blk) /\ pc' = "idle"
      /\ UNCHANGED <<fat, file, blk, left>>
  BY DEF IInv, LoopBlockOwned, CopyFails
<1>3. NothingDangles'
  BY <1>1, <1>2 DEF IInv, TypeOK, NothingDangles, Sound
<1>4. ReferredOnce'
  BY <1>1, <1>2 DEF IInv, TypeOK, ReferredOnce, LinksInjective, HeadsInjective, HeadsUnlinked, Unreferred
<1>5. LoopBlockOwned'
  BY <1>2 DEF LoopBlockOwned
<1> QED
  BY <1>3, <1>4, <1>5 DEF Apart

(* The steps that change nothing but what the loop is doing: create and    *)
(* append that give up or are done, and append's walk along its chain.     *)
LEMMA LoopStepApart ==
  IInv /\ intact /\ (WriteFails \/ FinishAppend \/ ScanStep \/ ScanDone \/ FreeDone \/ Quit
           \/ \E f \in Entries, n \in 0 .. MaxPieces : BeginAppend(f, n)) => Apart'
<1> USE DEF Blocks, Reserved, ROOT_BLOCK, FAT_BLOCK, FAT_FREE, FAT_EOF
<1>1. ASSUME IInv, intact, UNCHANGED <<fat, head>>, LoopBlockOwned' PROVE Apart'
  <2>1. NothingDangles'
    BY <1>1 DEF IInv, NothingDangles, Sound
  <2>2. ReferredOnce'
    BY <1>1 DEF IInv, ReferredOnce, LinksInjective, HeadsInjective, HeadsUnlinked
  <2> QED
    BY <1>1, <2>1, <2>2 DEF Apart
<1>2. ASSUME IInv, intact, UNCHANGED <<fat, head>>, pc' = "idle" PROVE Apart'
  BY <1>1, <1>2 DEF LoopBlockOwned
<1>3. IInv /\ intact /\ ScanStep => Apart'
  <2> SUFFICES ASSUME IInv, intact, ScanStep PROVE Apart'
    OBVIOUS
  <2>1. Sound(blk) /\ fat[blk] # FAT_EOF
    BY DEF IInv, LoopBlockOwned, ScanStep
  <2>2. Sound(fat[blk])
    BY <2>1 DEF IInv, NothingDangles, Sound
  <2>3. blk' = fat[blk] /\ pc' = "scan" /\ UNCHANGED <<fat, head>>
    BY DEF ScanStep
  <2>4. LoopBlockOwned'
    BY <2>2, <2>3 DEF LoopBlockOwned, Sound
  <2> QED
    BY <1>1, <2>3, <2>4
<1>4. IInv /\ intact /\ ScanDone => Apart'
  <2> SUFFICES ASSUME IInv, intact, ScanDone PROVE Apart'
    OBVIOUS
  <2>1. Sound(blk) /\ pc' = "append" /\ UNCHANGED <<fat, head, blk>>
    BY DEF IInv, LoopBlockOwned, ScanDone
  <2>2. LoopBlockOwned'
    BY <2>1 DEF LoopBlockOwned, Sound
  <2> QED
    BY <1>1, <2>1, <2>2
<1>5. ASSUME IInv, intact, NEW f \in Entries, NEW n \in 0 .. MaxPieces, BeginAppend(f, n) PROVE Apart'
  <2>1. Sound(head[f]) /\ pc' = "scan" /\ blk' = head[f] /\ UNCHANGED <<fat, head>>
    BY <1>5 DEF IInv, NothingDangles, BeginAppend
  <2>2. LoopBlockOwned'
    BY <2>1 DEF LoopBlockOwned, Sound
  <2> QED
    BY <1>1, <1>5, <2>1, <2>2
<1> QED
  BY <1>2, <1>3, <1>4, <1>5 DEF WriteFails, FinishAppend, FreeDone, Quit

(* An append that ends the program leaves the disk intact only if the      *)
(* table it is started again with is the one it ended with.                *)
LEMMA AppendEndsApart == IInv /\ intact /\ AppendEnds => Apart'
<1> SUFFICES ASSUME IInv, intact, AppendEnds, intact' PROVE Apart'
  BY DEF Apart, NothingDangles, ReferredOnce, LoopBlockOwned
<1>1. pc' = "idle" /\ UNCHANGED <<fat, head>>
  BY DEF AppendEnds
<1>2. NothingDangles'
  BY <1>1 DEF IInv, NothingDangles, Sound, Blocks
<1>3. ReferredOnce'
  BY <1>1 DEF IInv, ReferredOnce, LinksInjective, HeadsInjective, HeadsUnlinked
<1>4. LoopBlockOwned'
  BY <1>1 DEF LoopBlockOwned, Writing
<1> QED
  BY <1>2, <1>3, <1>4 DEF Apart

(* rm takes the entry away, so nothing refers to the first block any more. *)
LEMMA BeginRemoveApart ==
  ASSUME IInv, intact, NEW f \in Entries, BeginRemove(f)
  PROVE  Apart'
<1> USE DEF Blocks, Reserved, ROOT_BLOCK, FAT_BLOCK, FAT_FREE, FAT_EOF
<1>1. /\ head[f] # 0 /\ head' = [head EXCEPT ![f] = 0] /\ blk' = head[f]
      /\ pc' = "free" /\ file' = f /\ UNCHANGED <<fat, left>>
  BY DEF BeginRemove
<1>2. NothingDangles'
  BY <1>1 DEF IInv, TypeOK, NothingDangles, Sound
<1>3. ReferredOnce'
  BY <1>1 DEF IInv, TypeOK, ReferredOnce, LinksInjective, HeadsInjective, HeadsUnlinked
<1>4. Sound(blk)'
  BY <1>1 DEF IInv, NothingDangles, Sound
<1>5. Unreferred(blk)'
  BY <1>1 DEF IInv, TypeOK, ReferredOnce, HeadsInjective, HeadsUnlinked, Unreferred
<1>6. LoopBlockOwned'
  BY <1>1, <1>4, <1>5 DEF LoopBlockOwned
<1> QED
  BY <1>2, <1>3, <1>6 DEF Apart

(* A block is freed: nothing referred to it, and what it referred to is    *)
(* referred to by nothing now.                                             *)
LEMMA FreeStepApart == IInv /\ intact /\ FreeStep => Apart'
<1> SUFFICES ASSUME IInv, intact, FreeStep PROVE Apart'
  OBVIOUS
<1> USE DEF Blocks, Reserved, ROOT_BLOCK, FAT_BLOCK, FAT_FREE, FAT_EOF
<1>1. /\ Sound(blk) /\ Unreferred(blk) /\ pc = "free" /\ blk # FAT_EOF
  BY DEF IInv, LoopBlockOwned, FreeStep
<1>2. /\ fat' = [fat EXCEPT ![blk] = FAT_FREE] /\ blk' = fat[blk]
      /\ UNCHANGED <<head, pc>>
  BY DEF FreeStep
<1>3. /\ fat'[blk] = FAT_FREE
      /\ \A c \in Blocks : c # blk => fat'[c] = fat[c]
  BY <1>1, <1>2 DEF IInv, TypeOK, Sound
<1>4. \A x : Sound(x) /\ x # blk => Sound(x)'
  BY <1>3 DEF Sound
<1>5. NothingDangles'
  <2>1. \A c \in Reserved : fat'[c] = FAT_EOF
    BY <1>1, <1>3, DiskAssumption DEF IInv, NothingDangles, Sound
  <2>2. ASSUME NEW c \in Blocks, fat'[c] \notin {FAT_FREE, FAT_EOF}
        PROVE  Sound(fat[c])'
    <3>1. c # blk /\ fat'[c] = fat[c]
      BY <1>3, <2>2
    <3>2. Sound(fat[c]) /\ fat[c] # blk
      BY <1>1, <2>2, <3>1 DEF IInv, NothingDangles, Unreferred
    <3> QED
      BY <1>4, <3>1, <3>2
  <2>3. ASSUME NEW f \in Entries, head[f] # 0 PROVE Sound(head[f])'
    BY <1>1, <1>2, <1>4, <2>3 DEF IInv, NothingDangles, Unreferred
  <2> QED
    BY <1>2, <2>1, <2>2, <2>3 DEF NothingDangles
<1>6. ReferredOnce'
  <2>1. \A c \in Blocks : fat'[c] # FAT_FREE => fat'[c] = fat[c]
    BY <1>3
  <2>2. LinksInjective'
    BY <2>1 DEF IInv, ReferredOnce, LinksInjective
  <2>3. HeadsInjective'
    BY <1>2 DEF IInv, ReferredOnce, HeadsInjective
  <2>4. HeadsUnlinked'
    BY <1>2, <2>1 DEF IInv, ReferredOnce, HeadsUnlinked
  <2> QED
    BY <2>2, <2>3, <2>4 DEF ReferredOnce
<1>7. LoopBlockOwned'
  <2>1. PICK next : next = fat[blk]
    OBVIOUS
  <2> SUFFICES ASSUME next # FAT_EOF PROVE Sound(next)' /\ Unreferred(next)'
    BY <1>1, <1>2, <2>1 DEF LoopBlockOwned
  <2>2. blk \in Blocks /\ next \notin {FAT_FREE, FAT_EOF}
    BY <1>1, <2>1 DEF Sound
  <2>3. Sound(next) /\ next # blk
    BY <1>1, <2>1, <2>2 DEF IInv, NothingDangles, Unreferred
  <2>4. \A f \in Entries : head[f] # next
    BY <2>1, <2>2 DEF IInv, ReferredOnce, HeadsUnlinked
  <2>5. ASSUME NEW c \in Blocks PROVE fat'[c] # next
    BY <1>3, <2>1, <2>2 DEF IInv, ReferredOnce, LinksInjective
  <2>6. Sound(next)'
    BY <1>4, <2>3
  <2> QED
    BY <1>2, <2>4, <2>5, <2>6 DEF Unreferred
<1> QED
  BY <1>5, <1>6, <1>7 DEF Apart

(* mv lets another entry refer to the same chain, or none: the chain of an *)
(* entry it overwrites is lost, but shared by none.                        *)
LEMMA MoveApart ==
  ASSUME IInv, intact, NEW f \in Entries, NEW g \in Entries, Move(f, g)
  PROVE  Apart'
<1> USE DEF Blocks, Reserved, ROOT_BLOCK, FAT_BLOCK, FAT_FREE, FAT_EOF
<1>1. pc' = "idle" /\ head[f] # 0 /\ UNCHANGED fat
  BY DEF Move
<1>2. head \in [Entries -> Blocks]
  BY DEF IInv, TypeOK
<1>3. /\ head' \in [Entries -> Blocks]
      /\ \A h \in Entries : head'[h] \in {0, head[f], head[h]}
      /\ \A h, k \in Entries : head'[h] = head[f] /\ head'[k] = head[f] => h = k
  <2>1. \A h, k \in Entries : head[h] = head[k] /\ head[h] # 0 => h = k
    BY DEF IInv, ReferredOnce, HeadsInjective
  <2>2. CASE head' = [head EXCEPT ![f] = 0]
    BY <1>1, <1>2, <2>1, <2>2, DiskAssumption
  <2>3. CASE head' = [head EXCEPT ![f] = 0, ![g] = head[f]]
    <3>1. head' \in [Entries -> Blocks]
      BY <1>2, <2>3, DiskAssumption
    <3>2. \A h \in Entries : head'[h] = IF h = g THEN head[f] ELSE IF h = f THEN 0 ELSE head[h]
      BY <1>2, <2>3
    <3> QED
      BY <1>1, <1>2, <2>1, <3>1, <3>2
  <2> QED
    BY <2>2, <2>3 DEF Move
<1>4. NothingDangles'
  BY <1>1, <1>3 DEF IInv, NothingDangles, Sound
<1>5. ReferredOnce'
  BY <1>1, <1>3 DEF IInv, ReferredOnce, LinksInjective, HeadsInjective, HeadsUnlinked
<1>6. LoopBlockOwned'
  BY <1>1 DEF LoopBlockOwned
<1> QED
  BY <1>4, <1>5, <1>6 DEF Apart

(* A step that changes nothing keeps the invariant. *)
LEMMA StutterIInv == IInv /\ UNCHANGED vars => IInv'
  BY DEF vars, disk, IInv, TypeOK, NothingDangles, Sound, ReferredOnce, LinksInjective, HeadsInjective,
         HeadsUnlinked, LoopBlockOwned, Unreferred

(* The steps keep the types, on a disk that is intact or not: write_data,  *)
(* the scan and the freeing loop have a block of the disk in hand.         *)
LEMMA TypeStep == IInv /\ Next => TypeOK'
<1> SUFFICES ASSUME TypeOK, Next PROVE TypeOK'
  BY DEF IInv
<1> USE DiskAssumption DEF TypeOK, Blocks, FAT_FREE, FAT_EOF, Loops, Writing, disk
<1>1. CASE ExtendWrite
  <2>1. fat' \in [Blocks -> Blocks \cup {FAT_EOF}] /\ left' \in 0 .. MaxPieces
    BY <1>1 DEF ExtendWrite, IsFirstFree
  <2> QED
    BY <1>1, <2>1 DEF ExtendWrite
<1>2. CASE WriteFails \/ CopyFails \/ FinishWrite \/ FinishAppend
  BY <1>2 DEF WriteFails, CopyFails, FinishWrite, FinishAppend
<1>3. CASE AppendEnds
  <2>1. intact' \in BOOLEAN
    BY <1>3, Zenon DEF AppendEnds
  <2> QED
    BY <1>3, <2>1 DEF AppendEnds
<1>4. CASE ScanStep \/ ScanDone
  BY <1>4 DEF ScanStep, ScanDone
<1>5. CASE FreeStep \/ FreeDone
  <2>1. fat' \in [Blocks -> Blocks \cup {FAT_EOF}] /\ blk' \in Blocks \cup {FAT_EOF}
    BY <1>5 DEF FreeStep, FreeDone
  <2> QED
    BY <1>5, <2>1 DEF FreeStep, FreeDone
<1>6. CASE Quit
  BY <1>6 DEF Quit
<1>7. CASE Format
  <2>1. intact' \in BOOLEAN
    BY <1>7, Zenon DEF Format
  <2> QED
    BY <1>7, <2>1 DEF Format, FormattedFat, NoEntries
<1>8. ASSUME NEW f \in Entries, NEW n \in 0 .. MaxPieces,
             BeginWrite("create", f, n) \/ BeginWrite("copy", f, n) \/ BeginAppend(f, n)
      PROVE  TypeOK'
  BY <1>8 DEF BeginWrite, BeginAppend, IsFirstFree
<1>9. ASSUME NEW f \in Entries, BeginRemove(f) PROVE TypeOK'
  BY <1>9 DEF BeginRemove
<1>10. ASSUME NEW f \in Entries, NEW g \in Entries, Move(f, g) PROVE TypeOK'
  BY <1>10 DEF Move
<1>11. ASSUME NEW f \in Entries, NEW b \in Blocks, OldEntry(f, b) PROVE TypeOK'
  BY <1>11 DEF OldEntry
<1> QED
  BY <1>1, <1>2, <1>3, <1>4, <1>5, <1>6, <1>7, <1>8, <1>9, <1>10, <1>11 DEF Next, Turn, Command

(* Only format makes a disk intact again. *)
LEMMA OnlyFormatMends == Next /\ intact' => intact \/ Format
  BY DEF Next, Turn, Command, disk, ExtendWrite, WriteFails, CopyFails, FinishWrite, ScanStep, ScanDone,
         FinishAppend, AppendEnds, FreeStep, FreeDone, Quit, BeginWrite, BeginAppend, BeginRemove,
         Move, OldEntry

(* A step that leaves the disk intact keeps the rest of the invariant. *)
LEMMA ApartStep == IInv /\ Next => Apart'
<1> SUFFICES ASSUME IInv, Next, intact' PROVE Apart'
  BY DEF Apart, NothingDangles, ReferredOnce, LoopBlockOwned
<1>1. CASE Format
  BY <1>1, FormatApart
<1>2. CASE ~Format
  <2>1. intact
    BY <1>2, OnlyFormatMends
  <2>2. CASE Turn \/ Quit
    BY <2>1, <2>2, ExtendWriteApart, CopyFailsApart, FinishWriteApart, FreeStepApart, LoopStepApart,
       AppendEndsApart DEF Turn
  <2>3. ASSUME NEW f \in Entries, NEW n \in 0 .. MaxPieces,
               BeginWrite("create", f, n) \/ BeginWrite("copy", f, n) \/ BeginAppend(f, n)
        PROVE  Apart'
    <3>1. CASE BeginWrite("create", f, n)
      BY <2>1, <3>1, BeginWriteApart
    <3>2. CASE BeginWrite("copy", f, n)
      BY <2>1, <3>2, BeginWriteApart
    <3>3. CASE BeginAppend(f, n)
      BY <2>1, <3>3, LoopStepApart
    <3> QED
      BY <2>3, <3>1, <3>2, <3>3
  <2>4. ASSUME NEW f \in Entries, BeginRemove(f) PROVE Apart'
    BY <2>1, <2>4, BeginRemoveApart
  <2>5. ASSUME NEW f \in Entries, NEW g \in Entries, Move(f, g) PROVE Apart'
    BY <2>1, <2>5, MoveApart
  <2>6. ASSUME NEW f \in Entries, NEW b \in Blocks, OldEntry(f, b) PROVE Apart'
    BY <2>6 DEF OldEntry
  <2> QED
    BY <1>2, <2>2, <2>3, <2>4, <2>5, <2>6 DEF Next, Command
<1> QED
  BY <1>1, <1>2

(* IInv holds always: in every state every turn of every loop leads to,    *)
(* and between commands.  What it says beyond types it says of a disk to   *)
(* which no old table or entry has come back since the last format: not by *)
(* an append that ended the program (fs.cpp:731), nor by root_dir.         *)
THEOREM Inductive == Spec => []IInv
<1>1. IInv /\ [Next]_vars => IInv'
  <2> SUFFICES ASSUME IInv, [Next]_vars PROVE IInv'
    OBVIOUS
  <2>1. CASE Next
    BY <2>1, TypeStep, ApartStep DEF IInv, Apart
  <2>2. CASE UNCHANGED vars
    BY <2>2, StutterIInv
  <2> QED
    BY <2>1, <2>2
<1> QED
  BY InitIInv, <1>1, PTL DEF Spec

(* On an intact disk no entry and no link ever leads to a free block, to   *)
(* the root directory or to the table: rm's loop stops at the end of its   *)
(* chain and cannot run into the blocks that have FAT_FREE.                *)
THEOREM NeverDangling == Spec => []NothingDangles
<1>1. IInv => NothingDangles
  BY DEF IInv
<1> QED
  BY Inductive, <1>1, PTL

(* On an intact disk chains never meet: rm frees and append writes blocks  *)
(* of one file only.                                                       *)
THEOREM ChainsApart == Spec => []ReferredOnce
<1>1. IInv => ReferredOnce
  BY DEF IInv
<1> QED
  BY Inductive, <1>1, PTL

(* On an intact disk the block number in the hand of a loop is its own at  *)
(* every turn.                                                             *)
THEOREM LoopsOwnTheirBlock == Spec => []LoopBlockOwned
<1>1. IInv => LoopBlockOwned
  BY DEF IInv
<1> QED
  BY Inductive, <1>1, PTL

(* The table, the entries and the loop's variables keep their types, on a  *)
(* disk that is intact or not.                                             *)
THEOREM TypeCorrect == Spec => []TypeOK
<1>1. IInv => TypeOK
  BY DEF IInv
<1> QED
  BY Inductive, <1>1, PTL
=============================================================================
