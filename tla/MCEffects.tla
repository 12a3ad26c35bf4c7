----------------------------- MODULE MCEffects ------------------------------
(***************************************************************************)
(* What commands do to files and directories, on a disk with blocks enough *)
(* for all files.  The user types either the commands of ContentCommands,  *)
(* about texts of one and two blocks in one directory, or those of         *)
(* PathCommands, from the root into two directories.                       *)
(*                                                                         *)
(* Left out is what has a counterexample of its own: texts of more than    *)
(* two blocks (LargeFile), appends behind a text that fills its last block *)
(* but for the terminator (FullLastBlock) or lies in another directory     *)
(* (AppendAcross), appends of a file to itself (AppendItself), and moves   *)
(* to a directory that is named relatively from another one than the       *)
(* source's (RelativeMove).                                                *)
(***************************************************************************)
EXTENDS MCCommands

VARIABLES
  typed,      \* the commands of this behaviour
  turn        \* changes with every command, also with one that changes nothing

ContentCommands ==
  {Format, Quit,
   MkFile(Here("aa"), <<"x", "y">>), MkFile(Here("bb"), <<"y", "y", "x", "y">>), Show(Here("bb")),
   RmFile(Here("bb")), RmFile(Here("cc")),
   CpFile(Here("aa"), Here("bb")), CpFile(Here("bb"), Here("cc")),
   MvFile(Here("aa"), Here("bb")), MvFile(Here("bb"), Here("cc")),
   AddFile(Here("aa"), Here("bb")), AddFile(Here("aa"), Here("cc")),
   Allow({READ}, Here("bb")), Allow({WRITE}, Here("aa"))}

PathCommands ==
  {Format, MkDir(Here("dd")), MkDir(AtRoot("ee")),
   MkFile(Here("aa"), <<"x", "x">>), MkFile(In("dd", "aa"), <<"y", "x", "y", "y">>), Show(In("dd", "aa")),
   RmFile(In("dd", "aa")), RmFile(Root(<<"ee", "aa">>)),
   CpFile(In("dd", "aa"), AtRoot("ee")), CpFile(Here("aa"), Here("dd")),
   MvFile(In("dd", "aa"), AtRoot("ee")), MvFile(In("ee", "aa"), Here("bb")),
   MvFile(Here("bb"), In("dd", "bb")), MvFile(In("dd", "aa"), In("dd", "bb")),
   AddFile(In("dd", "bb"), In("dd", "aa")),
   Allow({READ, EXECUTE}, Here("dd"))}

AllCommands == ContentCommands \cup PathCommands

EffectsSpec ==
  /\ Init /\ typed \in {ContentCommands, PathCommands} /\ turn = 0
  /\ [][(\E c \in typed : Run(c)) /\ turn' = 1 - turn /\ UNCHANGED typed]_<<vars, typed, turn>>

EffectsView == <<ReadableState, typed>>

(* Every command does what its comment in fs.h says or has a reason to     *)
(* change nothing; a refusal is a step, and needs that reason.             *)
DoesOrRefuses == [][Explained]_<<vars, typed, turn>>
=============================================================================
