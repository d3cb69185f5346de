SPECIFICATION Spec
CONSTANTS
    w1 = w1
    w2 = w2
    a = a
    b = b
    c = c
    Workers = {w1}
    Liveness = Liveness
    Addresses = {a, b, c}
    AddressOf <- MCAddressOf
    V6 = {b}
    Names = {b}
    Enable = TRUE
    Notary <- MCNotary
    PingTimes = 2
    Timeout <- MCTimeout
    Interval <- MCInterval
    MaxFlight = 1
    MaxDown = 7
INVARIANTS
    PingLiveTells
