CONSTANTS
    a1 = a1
    a2 = a2
    Identities <- MCIdentities

SPECIFICATION Spec

INVARIANT LegacySubjectIsSigner
