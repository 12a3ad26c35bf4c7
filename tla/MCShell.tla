------------------------------ MODULE MCShell ------------------------------
(***************************************************************************)
(* Users of the shell who begin with format, as the test script asks them  *)
(* to, and type three more commands, with texts for those that create files. *)
(* One text is a line from a list of things to do.                         *)
(***************************************************************************)
EXTENDS Shell, MCCommands

Creating(name) == [cmd |-> "create", path |-> Here(name), data |-> <<>>]

ShellCommands == {Format, Quit, MkDir(Here("aa")), RmFile(Here("bb")), Creating("aa"), Creating("bb")}

OneLine(c) == <<Command(c)>>
Texts == {<<EndOfText>>,
          <<Row(<<"x">>, Unknown), EndOfText>>,
          <<Row(<<"x", "y">>, RmFile(Here("bb"))), EndOfText>>}

Entries ==
  {OneLine(c) : c \in {c \in ShellCommands : c.cmd # "create"}} \cup {<<Command(Unknown)>>, <<Command(Blanks)>>}
  \cup {OneLine(c) \o t : c \in {Creating("aa"), Creating("bb")}, t \in Texts}

UserScripts == {OneLine(Format) \o e \o f \o g : e, f, g \in Entries}
=============================================================================
