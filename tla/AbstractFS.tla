----------------------------- MODULE AbstractFS -----------------------------
(***************************************************************************)
(* The commands of lab3 without blocks, caches and entries: one tree of    *)
(* directories and files, and a user who is somewhere in it.  Each asks    *)
(* for the rights that fs.cpp asks for and then does to the tree what its  *)
(* comment in fs.h says (lines 71-104), and nothing else.                  *)
(***************************************************************************)
EXTENDS Sequences, SequencesExt

CONSTANT
  Commands    \* the command lines the users of this instance type

VARIABLE
  fs          \* [tree |-> (absolute path |-> directory or file), at |-> path]

All == {"r", "w", "x"}

DirNode(rights)        == [kind |-> "dir", text |-> <<>>, rights |-> rights]
FileNode(text, rights) == [kind |-> "file", text |-> text, rights |-> rights]

Up(p) == IF p = <<>> THEN p ELSE Front(p)

(* The absolute path that a typed path stands for. *)
Resolve(s, path) ==
  FoldLeft(LAMBDA p, c : CASE c = "" -> p [] c = ".." -> Up(p) [] OTHER -> p \o <<c>>,
           IF path.abs THEN <<>> ELSE s.at, path.comps)

IsA(s, p, kind) == p \in DOMAIN s.tree /\ s.tree[p].kind = kind
Grants(s, p, rights) == p \in DOMAIN s.tree /\ rights \subseteq s.tree[p].rights
Free(s, p) == p \notin DOMAIN s.tree /\ IsA(s, Up(p), "dir")

(* cp and mv to a directory keep the name of the source. *)
Target(s, c) == LET q == Resolve(s, c.dst) IN
                IF IsA(s, q, "dir") THEN q \o <<Last(Resolve(s, c.src))>> ELSE q

With(s, p, node) == [s EXCEPT !.tree = (p :> node) @@ s.tree]
Without(s, p)    == [s EXCEPT !.tree = [q \in DOMAIN s.tree \ {p} |-> s.tree[q]]]
-----------------------------------------------------------------------------
Format == [tree |-> (<<>> :> DirNode(All)), at |-> <<>>]

(* The user quits and comes back: in the root, with everything still there. *)
Reopen(s) == [s EXCEPT !.at = <<>>]

Create(s, p, data) ==
  IF Free(s, p) /\ Grants(s, Up(p), {"w", "x"})
  THEN {With(s, p, FileNode(data, {"r", "w"}))} ELSE {}

Copy(s, p, q) ==
  IF IsA(s, p, "file") /\ Grants(s, p, {"r"}) /\ Free(s, q) /\ Grants(s, Up(q), {"w"})
  THEN {With(s, q, s.tree[p])} ELSE {}

Move(s, p, q) ==
  IF /\ IsA(s, p, "file") /\ Grants(s, Up(p), {"w", "x"})
     /\ Free(s, q) /\ Grants(s, Up(q), {"w", "x"})
  THEN {Without(With(s, q, s.tree[p]), p)} ELSE {}

Delete(s, p) == IF IsA(s, p, "file") /\ Grants(s, Up(p), {"w", "x"})
  THEN {Without(s, p)} ELSE {}

Concat(s, p, q) ==
  IF IsA(s, p, "file") /\ Grants(s, p, {"r"}) /\ IsA(s, q, "file") /\ Grants(s, q, {"r", "w"})
  THEN {With(s, q, [s.tree[q] EXCEPT !.text = @ \o s.tree[p].text])} ELSE {}

MakeDir(s, p) == IF Free(s, p) /\ Grants(s, Up(p), {"w", "x"})
  THEN {With(s, p, DirNode(All))} ELSE {}

ChangeDir(s, p) == IF IsA(s, p, "dir") /\ Grants(s, p, {"r"})
  THEN {[s EXCEPT !.at = p]} ELSE {}

ChangeRights(s, p, level) ==
  IF p \in DOMAIN s.tree THEN {With(s, p, [s.tree[p] EXCEPT !.rights = level])} ELSE {}

-----------------------------------------------------------------------------
Effect(s, c) ==
  CASE c.cmd = "format" -> {Format}
    [] c.cmd = "create" -> Create(s, Resolve(s, c.path), c.data)
    [] c.cmd = "cp"     -> Copy(s, Resolve(s, c.src), Target(s, c))
    [] c.cmd = "mv"     -> Move(s, Resolve(s, c.src), Target(s, c))
    [] c.cmd = "rm"     -> Delete(s, Resolve(s, c.path))
    [] c.cmd = "append" -> Concat(s, Resolve(s, c.src), Resolve(s, c.dst))
    [] c.cmd = "mkdir"  -> MakeDir(s, Resolve(s, c.path))
    [] c.cmd = "cd"     -> ChangeDir(s, Resolve(s, c.path))
    [] c.cmd = "chmod"  -> ChangeRights(s, Resolve(s, c.path), c.level)
    [] c.cmd = "quit"   -> {Reopen(s)}
    [] OTHER            -> {}

Effects(s) == UNION {Effect(s, c) : c \in Commands}

(* A fresh disk has a root directory that permits nothing. *)
Init == fs = [tree |-> (<<>> :> DirNode({})), at |-> <<>>]
Next == fs' \in Effects(fs)
Spec == Init /\ [][Next]_fs
=============================================================================
