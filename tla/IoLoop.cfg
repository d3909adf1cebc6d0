SPECIFICATION Spec
CONSTANTS
    Udp = {u1}
    Fd = {f1}
    Nobody = Nobody
    MaxInits = 3
    Applications = {{"initsWhenQueued"}, {"createsWhenStopped", "stops"}}
INVARIANTS WorkIsServed OneReadLoop
PROPERTIES HandlerOnLiveObject CompletionsHandled InvalidFdStops
CHECK_DEADLOCK FALSE
