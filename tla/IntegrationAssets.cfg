\* A matrix, a draft contract, a constraint definition, two connector versions
\* with their reports, one observation, one readiness manifest and two concurrent
\* requests.
SPECIFICATION Spec
CONSTANTS
  matrix = matrix contract = contract m1 = m1 m2 = m2 p1 = p1 p2 = p2 setup = setup
  r1 = r1 order = order k1 = k1 k2 = k2 None = None Unread = Unread
  Assets <- MCAssets
  Scopes <- MCScopes
  Scope <- MCScope
  Rules <- MCRules
  Requires <- MCRequires
  Version <- MCVersion
  Roles <- MCRoles
  Times = {1, 2}
  Manual = {matrix, contract, m1, m2, setup}
  Harness = {p1, p2}
  Readiness = {r1}
  MatrixScope = "matrix" ContractScope = "contract" ConnectorScope = "manifest"
  ReportScope = "report" ReadinessScope = "readiness"
  Observations <- MCObservations
  Registration <- MCRegistration
  Fields = {"id", "qty", "note"}
  Canonical <- MCCanonical
  Drafts = {contract, m1, m2}
  Actives = {matrix}
  Calls = {k1, k2}
SYMMETRY CallSymmetry
CONSTRAINT GuardOrReadiness
INVARIANTS
  TypeOK OneActivePerScope ActivatedWasSupported ReleasedIsSuperseded IngestedWasAccepted
  RunsAreBacked
