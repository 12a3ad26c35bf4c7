----------------------------- MODULE MCCommands -----------------------------
(***************************************************************************)
(* Command lines for the instances of FileSystem, and the constants that   *)
(* several of them share.  Names of one length unless an instance says     *)
(* otherwise; file text is built from the characters "x" and "y".          *)
(***************************************************************************)
EXTENDS FileSystemProperties

Rel(comps)  == Path(FALSE, comps)
Root(comps) == Path(TRUE, comps)
Here(name)  == Rel(<<name>>)
In(dir, name) == Rel(<<dir, name>>)
AtRoot(name)  == Root(<<name>>)
Top         == Root(<<NoName>>)

MkFile(path, data)  == [cmd |-> "create", path |-> path, data |-> data]
MkDir(path)         == [cmd |-> "mkdir", path |-> path]
Show(path)          == [cmd |-> "cat", path |-> path]
RmFile(path)        == [cmd |-> "rm", path |-> path]
CpFile(src, dst)    == [cmd |-> "cp", src |-> src, dst |-> dst]
MvFile(src, dst)    == [cmd |-> "mv", src |-> src, dst |-> dst]
AddFile(src, dst)   == [cmd |-> "append", src |-> src, dst |-> dst]
Go(path)            == [cmd |-> "cd", path |-> path]
Allow(level, path)  == [cmd |-> "chmod", path |-> path, level |-> level]

Format == [cmd |-> "format"]
Quit   == [cmd |-> "quit"]

SameLength == [n \in Names |-> 2]

(* States that differ only in what nobody can read are explored once: the  *)
(* contents of free blocks, which are written before they are linked (as   *)
(* long as BlocksOwnedOnce holds), and of the table's block, which is      *)
(* written before it is read.                                              *)
Readable == [b \in Blocks \ {FAT_BLOCK} |-> IF fat[b] = FAT_FREE THEN InText(<<>>) ELSE disk[b]]
ReadableState == <<fat, Readable, root_dir, cwd>>
=============================================================================
