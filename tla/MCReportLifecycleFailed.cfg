\* The recovery path of a version whose generation failed the guardrail.
SPECIFICATION Spec
CONSTANTS
  v1 = v1  v2 = v2  v3 = v3  s1 = s1  s2 = s2  t1 = t1  t2 = t2  t3 = t3  j1 = j1  j2 = j2
  ann = ann  rob = rob
  VersionId = {v1, v2, v3}
  Sections = {s1, s2}
  Texts = {t1, t2}
  Snapshots = {j1, j2}
  Traceable <- MCTraceable
  Incomplete <- MCIncomplete
  Analysts = {ann}
  Reviewers = {rob}
  NoVersion = NoVersion
  NoReport = NoReport
  NoText = NoText
  Nobody = Nobody
INVARIANT FailedIsRewritable
CHECK_DEADLOCK FALSE
