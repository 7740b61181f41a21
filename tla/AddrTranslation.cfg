CONSTANTS
  Word = 64
  START_KERNEL_map = 52
  PAGE_OFFSET = 32
  Ptrs = 2
  RamPages = 6
  LastPfn = 7
  Roots = {0}
  Gvas = {0, 13, 22, 31}
  StorePfns = {3, 4, 7}
  MaxStores = 2
SPECIFICATION Spec
INVARIANTS
  TypeOK
  MappingsInvert
PROPERTIES
  TranslationRight
  WalkInRam
