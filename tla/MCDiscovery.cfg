\* Two overlapping requests, four in all; a key with a city and one without; the seeded
\* ranking weights and thresholds with a wider margin, so that one use tips a search.
SPECIFICATION Spec
CONSTANTS
  r1 = r1  r2 = r2  ana = ana  raj = raj  withCity = withCity  noCity = noCity
  g1 = g1  g2 = g2  g3 = g3  n1 = n1  n2 = n2  p1 = p1  p2 = p2  p3 = p3  p4 = p4
  d1 = d1  d2 = d2  d3 = d3  m1 = m1  m2 = m2  i1 = i1  i2 = i2
  Requests = {r1, r2}
  Keys = {withCity, noCity}
  Cityless = {noCity}
  Users = {ana, raj}
  Registrations = {g1, g2, g3}
  Names = {n1, n2}
  QueryId = {i1, i2}
  MappingId = {m1, m2}
  ProjectId = {p1, p2, p3, p4}
  DeveloperId = {d1, d2, d3}
  NoRow = NoRow
  SeedDevelopers <- MCSeedDevelopers
  SeedProjects <- MCSeedProjects
  PromoterName <- MCPromoterName
  ListedName <- MCListedName
  Weight <- MCWeight
  Exact <- MCExact
  SameCity <- MCSameCity
  Similarity <- MCSimilarity
  AutoProceed = 90
  ShowFrom = 40
  Margin = 20
  MaxShown = 2
  MaxBegun = 4
SYMMETRY MCSymmetry
INVARIANTS
  TypeOK
  OneMapping
  AsDecided
  OneProject
CHECK_DEADLOCK FALSE
