CONSTANTS
    app = app
    other = other
    user = user
    Endpoint = Endpoint
    Peer = Peer
    None = None
    Apps = {app, other}
    Users = {user}
    Escrow = 2
    SendValues = {1}
    MaxDepth = 4
    MaxSent = 1
CONSTANT Offered <- MCOffered
SPECIFICATION Spec
INVARIANT TypeOK
INVARIANT ClaimedExactlyOnce
INVARIANT PaysWhatIsClaimed
INVARIANT SenderIsTheMessages
INVARIANT NoMessageInItsName
