SPECIFICATION ScopeSpec
CONSTANTS
  Servers = {s1, s2}
  Requests = {q1, q2}
  Nobody = Nobody
  MaxIds = 2
SYMMETRY Interchange
INVARIANT NeverServedOverStored
PROPERTY WithdrawnForGood
