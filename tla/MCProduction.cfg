\* Two authorities with clocks of their own, a slot duration that MinimumPeriod
\* rounds, runtime upgrades that change it, and forks long enough to make an
\* authority leave its own block behind.
SPECIFICATION PSpec
CONSTANTS
  Authorities <- MCAuthorities
  Endowment = 1
  SpecFiles <- MCSpecFiles
  SlotDuration = 3
  Upgrades = {4}
  MaxDrift = 4
  StartTime = 2
  MaxTime = 8
  MaxLength = 4
INVARIANTS
  NoEquivocation
  ProposalsFit
PROPERTIES
  SlotDurationIsFixed
