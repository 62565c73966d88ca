CONSTANTS
  Tokens = {t1, t2, t3}
  Calls = {c1, c2}
  Replicas = {r1, r2}
  a = a  b = b
  Names = {a, b}
  Seed <- MCSeed
  Created <- MCCreated
  NoToken = noToken
  Roles = {"reader", "writer"}
  NoUser = noUser
  NoCall = noCall
SPECIFICATION Spec
INVARIANTS TypeOK SignedInHasToken KeepsSignedIn ActsAsUser LogoutEnds
SYMMETRY Symmetry
