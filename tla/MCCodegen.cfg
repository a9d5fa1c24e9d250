CONSTANTS
  Specs <- MCSpecs
  I64_MAX = 9
SPECIFICATION CliSpec
INVARIANTS NamesAreDistinct ReferencesResolve TablesHold EveryTagIsReadOrReported RenamesAreWarned FilesAreWrittenInTurn
CHECK_DEADLOCK FALSE
