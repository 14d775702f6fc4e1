SPECIFICATION FairSpec
CONSTANTS
  ext0 = ext0
  t3 = t3
  EX0 = EX0
  T3IE = T3IE
  IE0 = IE0
  T3IF = T3IF
  IP0 = IP0
  IP3 = IP3
  EA = EA
  NoSource = NoSource
  ItSources <- TwoSources
  EnBit <- TwoEnBit
  SrcFlags <- TwoFlags
  ClrBit <- TwoClr
  PrBit <- TwoPrBit
  IEN0Bits = {EA, EX0}
  IEN12Bits = {T3IE}
  ExtFlags = {IE0}
  CMOS = TRUE
INVARIANTS TypeOK LevelsIncrease
PROPERTIES
  OneInstructionAfterReti HighPreemptsLow RequestsKept NeverSleepsOnRequest
  ImplementsNestedService RequestInterruptsMain PowerDownReached
