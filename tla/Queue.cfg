SPECIFICATION FairSpec
CONSTANTS
    pa = pa
    pb = pb
    ca = ca
    xa = xa
    xb = xb
    Producer = {pa, pb}
    Consumer = {ca}
    Item = {xa, xb}
    MaxSize = 3
    InitCapacity = 2
    NoItem = NoItem
    NoTasklet = NoTasklet
INVARIANTS
    TypeOK
    TokensExact
    NobodyForgotten
PROPERTIES
    ImplementsFIFO
    WaitersGo
