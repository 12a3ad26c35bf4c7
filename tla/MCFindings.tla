----------------------------- MODULE MCFindings -----------------------------
(***************************************************************************)
(* Short command lines that the comments of fs.h and the test script allow *)
(* and after which the code does something else.  The first three sets are *)
(* the subject of a .cfg each; the README gives the sizes for the others.  *)
(***************************************************************************)
EXTENDS MCCommands

(* A text of two blocks is written as three pieces. *)
LargeFile == {Format, MkFile(Here("aa"), <<"x", "y", "x", "y">>)}

(* A file is created in the root from within a directory, by its absolute  *)
(* path, and the user returns to the root.                                 *)
StaleRoot == {Format, MkDir(Here("dd")), Go(Here("dd")), MkFile(AtRoot("aa"), <<>>), Go(Top)}

(* A file is moved from one directory to another, both named relatively. *)
RelativeMove == {Format, MkDir(Here("dd")), MkDir(Here("ee")), MkFile(In("dd", "aa"), <<"x">>),
                 MvFile(In("dd", "aa"), Here("ee"))}

(* A file is appended to a file in another directory. *)
AppendAcross == {Format, MkDir(Here("dd")), MkFile(In("dd", "aa"), <<"x">>), MkFile(Here("bb"), <<"y">>),
                 AddFile(In("dd", "aa"), Here("bb"))}

(* A file is appended to one whose text and terminator fill a block. *)
FullLastBlock == {Format, MkFile(Here("aa"), <<"x">>), MkFile(Here("bb"), <<"y">>),
                  AddFile(Here("aa"), Here("bb"))}

(* A file is appended to itself. *)
AppendItself == {Format, MkFile(Here("aa"), <<"x", "y">>), AddFile(Here("aa"), Here("aa"))}

(* The user changes the rights of the directory above. *)
ChmodParent == {Format, MkDir(Here("dd")), Go(Here("dd")), Allow({READ}, Here(Parent)), Go(Here(Parent))}

(* The user changes the rights of a file in a directory that is not there. *)
ChmodNowhere == {Format, MkFile(Here("aa"), <<>>), Allow({READ}, In("dd", "aa"))}

(* A directory in a directory with a longer name has a file created in it. *)
ShorterName == {Format, MkDir(Here("long")), MkDir(In("long", "dd")),
                MkFile(Rel(<<"long", "dd", "aa">>), <<>>)}
Lengths == [n \in Names |-> IF n = "long" THEN 4 ELSE 2]

(* A file of two blocks is copied to another directory; one block is free. *)
CopyToFullDisk == {Format, MkDir(Here("dd")), MkFile(Here("aa"), <<"x", "y">>), CpFile(Here("aa"), Here("dd"))}
=============================================================================
