SPECIFICATION Spec
CONSTANTS
  Logs <- MCLogs
  Alphabet <- MCAlphabet
INVARIANTS
  TypeOK
  UndamagedComesBack
  TimestampReadsLow
  SubstitutionCaught
  SwapCaught
  ThrowsOnlyAtFirst
