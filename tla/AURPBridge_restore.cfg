SPECIFICATION Spec
CONSTANTS
    n1 = n1
    n2 = n2
    p = p
    q = q
    r = r
    Nodes = {n1, n2}
    Bridges = {p, q, r}
    At <- AtNodes
    Peers <- Tunnels
    Own = Own
    Nothing = Nothing
    Depth = 2
    MaxStarts <- StartsOnce
    MaxSends <- Sends
    MaxCalls <- CallsTwo
    MaxLost = 1
    MaxCopies = 1
INVARIANTS
    Restored
CHECK_DEADLOCK FALSE
