SPECIFICATION Spec
CONSTANTS
    quick = quick
    slow = slow
    odd = odd
    Metas = {odd}
    ResponseTimeout <- MCResponseTimeout
    HasBody <- MCHasBody
    Pattern <- MCPattern
    Addresses = 2
    Requestable = {1, 2}
    Interval = 3
    DefaultTimeout = 1
    MinTimeout = 1
    MaxTimeout = 2
    PromptRun = TRUE
    Workers = {1, 2}
    NoWorker = NoWorker
    Slots = {1, 2, 3}
INVARIANTS
    BadPatternIsReported
