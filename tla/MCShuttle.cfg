\* Two shuttle handles, two senders, three sessions over time, a cmds
\* channel of one slot; goroutines scheduled fairly.
CONSTANTS
    Handles = {h1, h2}
    Senders = {s1, s2}
    MaxConns = 3
    Cap = 1
    MaxSends = 2
SPECIFICATION FairSpec
INVARIANT TypeOK
INVARIANT OpenSessionRegistered
PROPERTY SendsReturn
