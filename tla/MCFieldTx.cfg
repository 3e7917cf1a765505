\* Two overlapping transactions on one field, three rows, two sources and overrides.
SPECIFICATION TxSpec
CONSTANTS
  p1 = p1  p2 = p2  p3 = p3  p4 = p4  r1 = r1  r2 = r2  d1 = d1  d2 = d2
  rera = rera  site = site  manual = manual  low = low  high = high  vera = vera
  PointId = {p1, p2, p3}
  Sources = {rera, site, manual}
  Manual = manual
  Values = {low, high}
  Priority <- MCPriority
  RequiresReview = TRUE
  Reviewers = {vera}
  NoPoint = NoPoint
  Nobody = Nobody
  Requests = {r1, r2}
  DocId = {d1}
  MaxBegun = 4
SYMMETRY MCSymmetry
INVARIANTS
  TxTypeOK
  SecondOnlyWhenOvertaken
  DocumentsWhole
PROPERTIES
  NeverFewerCurrent
  HistoryKept
  SerialUntilOvertaken
CHECK_DEADLOCK FALSE
