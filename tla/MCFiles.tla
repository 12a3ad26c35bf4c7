------------------------------ MODULE MCFiles -------------------------------
(***************************************************************************)
(* Files of one and of several blocks in one directory, on a disk that     *)
(* fills up in the middle of a write: three blocks and two entries are     *)
(* free.  All sizes are odd, so that no text and its terminator fill a     *)
(* block (FullLastBlock in MCFindings shows why).                          *)
(***************************************************************************)
EXTENDS MCCommands

FileCommands ==
  {Format, Quit,
   MkFile(Here("aa"), <<"x", "y">>), MkFile(Here("bb"), <<"y", "x", "x", "y">>),
   MkFile(Here("cc"), <<"y", "y", "y", "y", "x", "x", "x", "x">>),
   Show(Here("aa")), RmFile(Here("aa")), RmFile(Here("bb")), RmFile(Here("cc")),
   CpFile(Here("bb"), Here("aa")), CpFile(Here("bb"), Here("cc")), CpFile(Top, Here("aa")),
   MvFile(Here("aa"), Here("bb")), MvFile(Here("bb"), Here("cc")), MvFile(Top, Here("aa")),
   AddFile(Here("aa"), Here("bb")), AddFile(Here("cc"), Here("aa")), AddFile(Here("aa"), Top)}

(* Here a user of the root directory is at work. *)
ASSUME RootAssumption == RootUse
=============================================================================
