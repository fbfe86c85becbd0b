\* Dry runs and real runs over every constructor configuration of the
\* revinfo provider; the caller may change its lists between builds.
CONSTANTS
  D1 = D1
  D2 = D2
  O1 = O1
  C1 = C1
  PV = PV
  None = None
  Decl <- MCDecl
  Ocsp <- MCOcsp
  Crls <- MCCrls
  PreValue = PV
  TokenSize = 3
  MaxBuilds = 2
SPECIFICATION Spec
INVARIANTS
  TypeOK
  DryRunMatchesReal
  
\* The signer stops after MaxBuilds builds.
CHECK_DEADLOCK FALSE
