SPECIFICATION CentralSpec
CONSTANTS
  Alert = {a1}
  Item = {i1}
  Site = {x1}
  MaxAdd = 1
  MaxSave = 0
INVARIANTS
  ItemsPreserved
