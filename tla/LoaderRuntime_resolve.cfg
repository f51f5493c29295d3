\* Two modules with a thread each, beside the loader.
SPECIFICATION Spec
CHECK_DEADLOCK FALSE
CONSTANTS
  MaxModules = 3
  MaxBytes = 135
  MaxDecompressed = 4
  Loader = loader
  w1 = w1
  w2 = w2
  Workers = {w1, w2}
  ModuleOf <- MCModuleOf
  linker = linker
  library = library
  program = program
  Files = {linker, library, program}
  Elf <- MCElf
  LoadAt <- MCLoadAt
  Places <- MCPlaces
  LinkerName = "linker64"
  DlopenExt <- Dlopen
  Names <- MCNames
  Settings <- MCSettings
INVARIANT FindsItsLibrary
INVARIANT AnswersAreRight
INVARIANT HooksItsLibrary
INVARIANT PlanIsObeyed
