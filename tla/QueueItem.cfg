SPECIFICATION Spec
CONSTANTS
  Items = {1}
  Reviewers = {r1, r2}
  Requests = {q1, q2}
  Admins = {a1, a2}
  MaxRequired = 2
  Choices = {"picked", "plain"}
SYMMETRY Symmetry
INVARIANTS
  ReviewCountExact
  OneAuthoritative
  StatusInSync
  SubmissionsAccepted
PROPERTIES
  AdminsDecide
CHECK_DEADLOCK FALSE
