\* One thread (everything on the main loop), three sources.
CONSTANTS
  Sources = {a, b, c}
  SelfStarting = {a, b, c}
  Threads = {t1}
  Nobody = Nobody
SPECIFICATION Spec
INVARIANTS EntersStartedChain
PROPERTIES PusherServed 
