CONSTANTS
    a = a
    b = b
    c3 = c3
    o1 = o1
    o2 = o2
    o3 = o3
    o4 = o4
    None = None
    Clusters <- TwoClusters
    Objects <- FourObjects
SPECIFICATION Spec
INVARIANTS CallsTakeEffect
