\* Two clients, any order of requests, packets and hang-ups; sends may fail.
SPECIFICATION Spec
CONSTANTS
    Clients = {c1, c2}
    NoClient = NoClient
    Requests = {"ANNOUNCE", "SETUP", "TEARDOWN"}
    NoRequest = NoRequest
    SendFails = TRUE
INVARIANTS  OtherNotStarved
PROPERTIES QueuedIsAccepted RequestAnswered 
