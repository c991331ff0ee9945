CONSTANTS
  a = a  b = b  c = c
  Hosts = {"ha", "hb", "hc"}
  NoHost = "none"
  Teams <- AllCurrent
SPECIFICATION Spec
INVARIANT OneCopyEach
