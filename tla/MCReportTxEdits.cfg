\* Two edits of one section at a time, of a text that passes and two that fail.
SPECIFICATION TxSpec
CONSTANTS
  v1 = v1  v2 = v2  v3 = v3  s1 = s1  t1 = t1  t2 = t2  t3 = t3  j1 = j1  j2 = j2
  ann = ann  rob = rob  a = a  b = b
  VersionId = {v1}
  Requests = {a, b}
  Sections = {s1}
  Texts = {t1, t2, t3}
  Snapshots = {j1}
  Traceable <- MCTraceable
  Incomplete = {}
  Analysts = {ann}
  Reviewers = {rob}
  NoVersion = NoVersion
  NoReport = NoReport
  NoText = NoText
  Nobody = Nobody
INVARIANT EditedVerdictIsOfText
CHECK_DEADLOCK FALSE
