SPECIFICATION Spec
CONSTANTS
    Empty = Empty
    p = p
    q = q
    der = der
    Texts <- MCTexts
    Undecodable <- MCUndecodable
PROPERTIES
    RoundTripEqual
