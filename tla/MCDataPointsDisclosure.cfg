\* A logged disagreement against what a report discloses.
SPECIFICATION Spec
CONSTANTS
  p1 = p1  p2 = p2  p3 = p3  p4 = p4  p5 = p5
  rera = rera  developer_site = developer_site  document = document  manual = manual
  low = low  high = high  rob = rob
  PointId = {p1, p2, p3, p4}
  Sources = {rera, developer_site, document, manual}
  Manual = manual
  Values = {low, high}
  Priority <- MCPriority
  RequiresReview = FALSE
  Reviewers = {rob}
  NoPoint = NoPoint
  Nobody = Nobody
SYMMETRY Symmetry
INVARIANT DiscrepancyDisclosed
CHECK_DEADLOCK FALSE
