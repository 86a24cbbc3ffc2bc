SPECIFICATION Spec
CONSTANTS
    r1 = r1
    self = self
    Responder = {r1, self}
    Self = self
    Delay <- MCDelay
    ALLOWED = 1
    INTERVAL = 1
    SEQ = 3
    MaxAge = 1
    MaxNet = 3
    MaxEvents = 1
    NULL = NULL
INVARIANTS CapableJustified BmcaFollows ExchangeTimes
PROPERTIES PeerFound PeerGone
