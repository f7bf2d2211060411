SPECIFICATION Spec
CONSTANTS
    n1 = n1
    n2 = n2
    p = p
    q = q
    r = r
    Nodes = {n1, n2}
    Bridges = {p, q, r}
    At <- AtNodes
    Peers <- Tunnels
    Own = Own
    Nothing = Nothing
    Depth = 2
    MaxStarts <- Starts
    MaxSends <- Sends
    MaxCalls <- CallsTwo
    MaxLost = 1
    MaxCopies = 1
INVARIANTS
    TypeOK RestoredInOrder TransparentInOrder OnePlace
CHECK_DEADLOCK FALSE
