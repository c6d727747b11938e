SPECIFICATION Spec
CONSTANTS
  Copies = {c1, c2}
  c1 = c1
  c2 = c2
  Payloads = {p1, p2, p3}
  p1 = p1
  p2 = p2
  p3 = p3
  Addresses = {a1, a2, a3}
  a1 = a1
  a2 = a2
  a3 = a3
  Free = free
  None = none
INVARIANTS
  HeldIsLive
  OneOwner
  NothingLeaks
PROPERTIES
  LayoutsRespected
