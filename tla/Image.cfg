SPECIFICATION AllSpec
CONSTANTS
  Chips <- MCChips
  CoreTable <- CoreEntry
  CompatTable <- PrefixEntry
  DriverOf <- MCDriverOf
  Srcs <- MCSrcs
  Dsts <- MCDsts
  Pats <- MCPats
  Rects <- MCRects
  Shifts <- MCShifts
  Factors <- MCFactors
  Formats <- MCFormats
  Modes <- MCModes
  Interps <- MCInterps
  Kernels <- MCKernels
  Lines <- MCLines
  Tasks <- MCTasks
  LegacyVersion <- MCLegacyVersion
  LegacyTasks <- MCLegacyTasks
INVARIANT InfoBacked
INVARIANT AcceptedInside
INVARIANT ScaleAsSeen
INVARIANT CheckAgrees
INVARIANT DefaultInterpAccepted
INVARIANT ConversionMatches
INVARIANT Unscaled1to1
INVARIANT QueryHonest
INVARIANT GeneratorsAgree
INVARIANT TurnedCorner
INVARIANT EffectsKept
