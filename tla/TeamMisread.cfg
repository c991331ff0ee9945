CONSTANTS
  a = a  b = b  c = c
  Hosts = {"ha", "hb", "hc"}
  NoHost = "none"
  Teams <- AllDriven
SPECIFICATION Spec
INVARIANT AmendmentsStay
