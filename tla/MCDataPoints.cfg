\* Up to five writes of one field by four sources, the field needing a sign-off.
SPECIFICATION Spec
CONSTANTS
  p1 = p1  p2 = p2  p3 = p3  p4 = p4  p5 = p5
  rera = rera  developer_site = developer_site  document = document  manual = manual
  low = low  high = high  rob = rob
  PointId = {p1, p2, p3, p4, p5}
  Sources = {rera, developer_site, document, manual}
  Manual = manual
  Values = {low, high}
  Priority <- MCPriority
  RequiresReview = TRUE
  Reviewers = {rob}
  NoPoint = NoPoint
  Nobody = Nobody
SYMMETRY Symmetry
INVARIANTS
  TypeOK
  OneCurrent
  VersionLine
  LogMatchesPoints
  PriorityStanding
PROPERTY HistoryFrozen
CHECK_DEADLOCK FALSE
