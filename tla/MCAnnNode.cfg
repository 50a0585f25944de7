CONSTANTS
    Anns <- MCAnns
    Signed <- MCSigned
    Threads = {t1, t2}
    MaxTime = 2
    NoAnn = NoAnn
    NoMixer = NoMixer
    Peers = {"p1", "p2"}
    PeerVersion <- MCPeerVersion
    PeerSubVer <- MCPeerSubVer
SPECIFICATION Spec
INVARIANT TypeOK
INVARIANT NoResidentCancelled
INVARIANT RelayAtMostOnce
INVARIANT KnownWasSent
