CONSTANTS
    a1 = a1
    a2 = a2
    v1 = v1
    n1 = n1
    n2 = n2
    n3 = n3
    Admins <- MCAdmins
    Visitors <- MCVisitors
    Names <- MCNames
    Nothing = Nothing
    Link = Link
    Nobody = Nobody
    MaxFaults = 2
    MaxCrashes = 1
SPECIFICATION Spec
SYMMETRY Symmetry
INVARIANTS SettingHasFile DeniedWasReplaced LeftoversAreFailures
