CONSTANTS
    w1 = w1
    w2 = w2
    i1 = i1
    i2 = i2
    i3 = i3
    s1 = s1
    s2 = s2
    Workers <- MCWorkers
    Images <- MCImages
    Subjects <- MCSubjects
    Sigs <- MCSigs
    Capacity = 2
    MaxAttests = 2

SPECIFICATION Spec

INVARIANT TypeOK
INVARIANT ResultFromOwnImage
