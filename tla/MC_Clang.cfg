CONSTANTS
  Programs <- MCPrograms
  Root <- MCRoot
  ClassOf <- MCClassOf
  Inherited <- Supers
  Children <- MCChildren
  Enumerator <- MCEnumerator
  CacheWords = 2
  MaxDepth = 108
SPECIFICATION Spec
INVARIANTS TypeOK CacheSound LayoutAgrees GraphFaithful SharingKept NoOverflow
