CONSTANTS
  Numbers <- MCNumbers
  Byte <- MCByte
  MaxPort = 65535
  MaxInterval = 604800
  MaxKeep = 1000
  Bases <- MCBases
  EnvInputs <- MCEnvInputs
  FileLines <- MCFileLines
  MaxEdits = 3
SPECIFICATION Spec
INVARIANTS SameDatabase ChildIsConfined NothingIsIgnored
