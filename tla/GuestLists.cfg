CONSTANTS
  Tasks = {t1, t2}
  Mods = {m1, m2}
  Devs = {d1}
  init_task = init_task
  modules = modules
  dev_base_head = dev_base_head
  NULL = NULL
  Junk = Junk
  MaxBirths = 4
  MaxItems = 6
SPECIFICATION Spec
INVARIANTS
  TypeOK
  ListedRight
  PageTableFound
  HostListIntact
  FreedOnce
  ValidCr3
  WalkBounded
SYMMETRY AddressSymmetry
