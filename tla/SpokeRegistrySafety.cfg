SPECIFICATION Spec
CONSTANTS
  h1 = h1
  h2 = h2
  i1 = i1
  i2 = i2
  i3 = i3
  ta = ta
  tb = tb
  na = na
  nb = nb
  Host = {h1, h2}
  Id = {i1, i2, i3}
  host <- Owner
  NoId = NoId
  Tenant = {ta, tb}
  NoTenant = NoTenant
  Name = {na, nb}
  Absent = Absent
  MaxTrouble = 1
  MaxApproval = 2
SYMMETRY Symmetry
INVARIANTS
  TypeOK
  OneRecord
  
