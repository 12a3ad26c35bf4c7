------------------------------- MODULE Shell -------------------------------
(***************************************************************************)
(* Shell::run of lab3 (shell.cpp) on the file system of FileSystem, fed    *)
(* with what a user types, line by line.  Shell and file system read from  *)
(* the same input: create, once it has checked its path, takes the rows of *)
(* the text itself, up to an empty one.                                    *)
(***************************************************************************)
EXTENDS FileSystemProperties

CONSTANTS
  Scripts       \* what users type: sequences of lines

VARIABLES
  input,        \* the lines that have not been read yet, std::cin
  running       \* FALSE after quit, or when the program has been ended

ShellVars == <<vars, input, running>>

(* A line is typed with an intention: it is a command or a row of a text.  *)
(* What the shell makes of it depends only on its words, "says": a command *)
(* of Commands, or one of the following.                                   *)
Empty   == [cmd |-> "empty"]     \* no character
Blanks  == [cmd |-> "blanks"]    \* blanks only
Unknown == [cmd |-> "unknown"]   \* no command, or one with a wrong number of arguments

Command(c)    == [meant |-> "command", says |-> c, text |-> <<>>]
Row(t, says)  == [meant |-> "text", says |-> says, text |-> t]
EndOfText     == [meant |-> "text", says |-> Empty, text |-> <<>>]

ShellInit == Init /\ input \in Scripts /\ running = TRUE

-----------------------------------------------------------------------------
Reads == running /\ input # <<>> /\ input' = Tail(input)

Says(words) == Head(input).says \in words

(* create returns before it reads a row if it cannot enter the directory,  *)
(* may not write there, or finds the name in use (fs.cpp:327-343).         *)
ReadsText(c) ==
  \E parts \in {get_filename_parts(SyncRoot(This), c.path)} :
  \E here \in {enter(SyncRoot(This), parts)} :
    here.ok /\ may(here.s, {WRITE, EXECUTE}) /\ lookup(here.s, parts.file) = None

(* The rows up to the first empty one. *)
RowsOf(lines) == SubSeq(lines, 1, Min({i \in 1 .. Len(lines) : lines[i].says = Empty}) - 1)

TextOf(rows) == FoldLeft(LAMBDA t, line : t \o line.text, <<>>, rows)

RunCreate(c) ==
  /\ running /\ input # <<>> /\ Says({c}) /\ c.cmd = "create"
  /\ \/ ~ReadsText(c) /\ input' = Tail(input) /\ create(c)
     \/ /\ ReadsText(c)
        /\ \E rows \in {RowsOf(Tail(input))} :
             /\ input' = SubSeq(input, Len(rows) + 3, Len(input))
             /\ create([c EXCEPT !.data = TextOf(rows)])
  /\ UNCHANGED running

RunCommand(c) ==
  Reads /\ Says({c}) /\ c.cmd \notin {"create", "quit"} /\ Run(c) /\ UNCHANGED running

(* The shell's destructor, and with it ~FS; the state is that of the next start. *)
RunQuit ==
  Reads /\ Says({c \in Commands : c.cmd = "quit"}) /\ restart /\ running' = FALSE

(* Nothing happens, or a list of the commands is printed. *)
PassOver == Reads /\ Says({Empty, Unknown}) /\ UNCHANGED <<vars, running>>

(* A line of blanks has no first word: cmd_line[0] reads outside of an     *)
(* empty vector.  The program ends without ~FS, or finds there the first   *)
(* word of an earlier line, a command that now has too few arguments.      *)
NoFirstWord ==
  /\ Reads /\ Says({Blanks})
  /\ \/ Becomes(boot(disk)) /\ running' = FALSE
     \/ UNCHANGED <<vars, running>>

(* At the end of the input getline leaves an empty line, again and again.  *)
(* (Scripts end their texts and their last line.  Otherwise the stream     *)
(* fails before the shell's next getline, which then leaves the old line   *)
(* to be run for ever.)                                                    *)
EndOfInput == running /\ input = <<>> /\ UNCHANGED ShellVars

Ends == ~running /\ UNCHANGED ShellVars

ShellNext ==
  \/ \E c \in Commands : RunCreate(c) \/ RunCommand(c)
  \/ RunQuit \/ PassOver \/ NoFirstWord \/ EndOfInput \/ Ends

ShellSpec == ShellInit /\ [][ShellNext]_ShellVars

-----------------------------------------------------------------------------
(* The rows of a text are content and nothing else, fs.h:73-74: "the data  *)
(* content is written on the following rows (ended with an empty row)".    *)
(* The shell never does to the tree of files what such a row happens to    *)
(* say.                                                                    *)
TextIsNotRun == [][input # <<>> /\ Head(input).meant = "text" => Seen' = Seen]_ShellVars
=============================================================================
