\* Three threads, two of which may panic, data of three fields, two calls in a dispatch.
SPECIFICATION Spec
CONSTANTS
  Threads = {t1, t2, t3}
  Faulty = {t1, t2}
  NFields = 3
  NCalls = 2
  Nobody = Nobody
INVARIANTS
  NeverTorn
PROPERTIES
  FrozenOnceFailed
  OthersLiveOn
