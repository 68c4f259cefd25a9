CONSTANTS
  Null = Null
  Many = Many
  Int64Bits = 4
  Inputs = 3
  Program <- MCAST
  BuiltinTypes <- MCBuiltinTypes
  Asked <- MCAsked
  Names <- MCNames
  Sources <- MCSources
  SourceInputs = 2
  AskedFor <- MCAskedFor
  Replaceable <- MCReplaceable
  NoDecl = NoDecl
  Library <- MCLibrary
  MaxInstances = 3
  MaxStrings = 2
SPECIFICATION PartsSpec
CHECK_DEADLOCK FALSE
INVARIANTS AnswersIndependentOfHistory NamesLeadBack TypesAndLayout AddressesExact SpecializationsExact
PROPERTY BinaryKeepsItsAddress
