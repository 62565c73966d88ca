CONSTANTS
  Replicas = {r1, r2}
  Calls = {c1, c2}
  Tokens = {t1, t2, t3}
  NoToken = noToken
  NoReplica = noReplica
SPECIFICATION Spec
INVARIANT LogoutInvalidates
SYMMETRY Symmetry
