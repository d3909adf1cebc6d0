SPECIFICATION Spec
CONSTANTS
    Udp = {u1}
    Fd = {f1}
    Nobody = Nobody
    MaxInits = 2
    Applications = {{"createsWhenStopped", "initsWhenQueued"}}
PROPERTY HandlerAlwaysOnLiveObject
CHECK_DEADLOCK FALSE
