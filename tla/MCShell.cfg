SPECIFICATION ShellSpec
CONSTANTS
  NoBlocks = 6
  BlockSize = 4
  DirSize = 3
  MaxSize = 6
  Names = {"aa", "bb"}
  NameLen <- SameLength
  Commands <- ShellCommands
  Scripts <- UserScripts
PROPERTIES
  TextIsNotRun
