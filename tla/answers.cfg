SPECIFICATION Spec
CONSTANTS
  Agents = {a1, a2}
  Texts = {t1, t2}
  NoOffer = NoOffer
  NoText = NoText
  MaxOffers = 1
  Window = 2
  MaxSaid = 2
  OtherSeen = 2
  MaxFaults = 1
SYMMETRY Symmetry
INVARIANTS LaterSeesEarlier NoTwins CancelledStaysSilent AckedIsInHand
CHECK_DEADLOCK FALSE
