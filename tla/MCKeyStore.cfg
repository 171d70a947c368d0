CONSTANTS
  Cert = {c1, c2}
  Wallet = {w}
  Path = {x}
  Key = {k}
  Tool = {t1, t2}
  Ops <- RunOps
  MaxFaults = 1
SPECIFICATION Spec
SYMMETRY Interchange
INVARIANTS TypeOK KeysSurvive
PROPERTIES FilesChangeAsAsked SuccessIsReal
