SPECIFICATION Spec
CONSTANTS
  Tenant = {alpha, beta}
  Customer = {c1, c2}
  Connection = {n1, n2}
  NoTenant = NoTenant
  NoRow = NoRow
SYMMETRY MCSymmetry
INVARIANTS
  TypeOK
  ReadsStayInTheirTenant
  WritesStayInTheirTenant
  ReferencesStayInTheirTenant
CHECK_DEADLOCK FALSE
