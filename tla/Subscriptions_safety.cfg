\* Two owners and the startup list; the link lost and replaced at any moment.
CONSTANTS
    Symbols = {s1, s2, s3}
    Clients = {c1, c2}
    Startup = proxy
    InitialSymbols = {s1}
SPECIFICATION Spec
INVARIANTS TypeOK OwnedStreamed
PROPERTY LastOwnerOnly
