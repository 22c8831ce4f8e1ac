CONSTANTS
    u1 = u1
    u2 = u2
    u3 = u3
    Users <- MCUsers
    Nobody = Nobody
    MaxSeq = 4
    MaxCount = 1
SPECIFICATION Spec
SYMMETRY Symmetry
INVARIANTS
    SignMatchesCount
    PlacesDistinct
    WindowIsWideEnough
    RankPredictsChoice
PROPERTIES
    PlaceIsForever
    NobodyOvertakes
