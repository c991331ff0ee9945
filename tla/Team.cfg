CONSTANTS
  a = a  b = b  c = c
  Hosts = {"ha", "hb", "hc"}
  NoHost = "none"
  Teams <- PairAndMixed
SPECIFICATION Spec
INVARIANTS NothingLost AmendmentsStayApart SuccessorsStay
PROPERTIES IdsStayWithTheOlder RepairsResolve
