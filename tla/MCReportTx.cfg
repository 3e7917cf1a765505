\* Two requests at a time on two versions with one section.
SPECIFICATION TxSpec
CONSTANTS
  v1 = v1  v2 = v2  v3 = v3  s1 = s1  t1 = t1  t2 = t2  t3 = t3  j1 = j1  j2 = j2
  ann = ann  rob = rob  a = a  b = b
  VersionId = {v1, v2}
  Requests = {a, b}
  Sections = {s1}
  Texts = {t1, t2}
  Snapshots = {j1, j2}
  Traceable <- MCTraceable
  Incomplete <- MCIncomplete
  Analysts = {ann}
  Reviewers = {rob}
  NoVersion = NoVersion
  NoReport = NoReport
  NoText = NoText
  Nobody = Nobody
CONSTRAINTS OneVersionTouched DataMovesForward
SYMMETRY Symmetry
INVARIANTS
  TxTypeOK
  PublishedHasPdf
  NumbersFollowChain
PROPERTIES
  PublishedRowFrozen
  SerialWhenAlone
CHECK_DEADLOCK FALSE
