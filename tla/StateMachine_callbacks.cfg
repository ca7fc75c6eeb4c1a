CONSTANTS
  Threads = {t1, t2, t3}
  Observers = {o1, o2}
  None = None
SPECIFICATION Spec
INVARIANTS TypeOK CallbacksChain ReadersAgree
