\* Every blueprint of four targets with up to two requirements each.
SPECIFICATION FairSpec
CONSTANTS
  N = 4
  Declared <- Four
  Optional = {2}
  MaxRequires = 2
INVARIANTS OnlyCyclesAreRefused CompiledAsAnnounced ExitZeroIsSound
PROPERTY BuildEnds
