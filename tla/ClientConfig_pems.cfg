SPECIFICATION Spec
CONSTANTS
    Empty = Empty
    p = p
    q = q
    der = der
    Texts <- MCTexts
    Undecodable <- MCUndecodable
SYMMETRY Symmetry
INVARIANTS
    TypeOK
    NeverAborts
    ChannelAsGiven
    NoPlaintextWithIdentity
PROPERTIES
    RoundTripKeeps
