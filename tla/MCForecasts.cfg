\* Two overlapping requests, two scenario types, two proposals, four stamps.
SPECIFICATION Spec
CONSTANTS
  r1 = r1  r2 = r2  o1 = o1  o2 = o2  o3 = o3  alice = alice  good = good  zero = zero
  Requests = {r1, r2}
  ScenarioOrder <- MCScenarioOrder
  ProposalId = {o1, o2}
  Reviewers = {alice}
  Usable = {good}
  Unusable = {zero}
  NoPoint = NoPoint
  NoProposal = NoProposal
  Nobody = Nobody
  MaxStamp = 4
  MaxEvents = 4
SYMMETRY MCSymmetry
INVARIANTS
  TypeOK
  PinsConsistent
  ScenariosInStep
  AppliedWasApproved
  OneProposal
  ReportIsFresh
CHECK_DEADLOCK FALSE
