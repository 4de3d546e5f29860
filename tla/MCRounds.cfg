SPECIFICATION Ceremony
CONSTANTS
  Order = 7
  Party = {"a", "b", "c"}
  PartyScalar <- IdScalar
  PartyIds <- Ids
  BlumBits <- Blum
  PaillierBits = 8
  ScalarBits = 3
  PrecomputedP = 7
  PrecomputedQ = 23
  Ceremonies <- MCCeremonies
  Message = 3
CHECK_DEADLOCK FALSE
INVARIANT HonestProofsHold
INVARIANT ModProofFailsForLargeW
INVARIANT SharesMatchKey
INVARIANT KeyMissesLastCoefficients
INVARIANT ProductsShared
INVARIANT SignatureRecovers
PROPERTY CeremonyEnds
