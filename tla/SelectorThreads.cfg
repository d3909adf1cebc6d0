\* Two threads, three sources: every interleaving of push, stop and start.
CONSTANTS
  Sources = {a, b, c}
  SelfStarting = {a, b, c}
  Threads = {t1, t2}
  Nobody = Nobody
SPECIFICATION Spec
INVARIANTS CallbackExclusive NoLostWakeup WakeupPending
SYMMETRY Symmetry
CHECK_DEADLOCK TRUE
