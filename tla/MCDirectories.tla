--------------------------- MODULE MCDirectories ----------------------------
(***************************************************************************)
(* Local use of a tree of directories: every name is given in the          *)
(* directory it is about, and the user walks with cd to a child, to the    *)
(* parent and to the root.  Two blocks are free, for two directories or a  *)
(* directory and a file.                                                   *)
(***************************************************************************)
EXTENDS MCCommands

DirectoryCommands ==
  {Format, Quit,
   MkFile(Here("aa"), <<>>), RmFile(Here("aa")), MkDir(Here("dd")), RmFile(Here("dd")),
   MvFile(Here("aa"), Here("dd")),
   Go(Here("dd")), Go(Here(Parent)), Go(Top),
   Allow({READ, EXECUTE}, Here("dd")), Allow({WRITE, EXECUTE}, Here("dd"))}

(* Here a user walks through the tree and names everything where it is, *)
(* also the directories whose rights change, and every text fits a      *)
(* block.                                                               *)
ASSUME LocalAssumption == RightsUse /\ SmallUse /\ EvenNames
=============================================================================
