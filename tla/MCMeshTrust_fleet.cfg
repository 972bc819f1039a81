SPECIFICATION Spec
CONSTANTS
    eu = eu  us = us  m1 = m1  m2 = m2  m3 = m3  r1 = r1
    Global = Global  NoCert = NoCert  NoMaterial = NoMaterial
    Regions = {eu, us}
    Members = {m1, m2, m3}
    ScopeOf <- GlobalAndTwoRegions
    Direct = {m2, m3}
    Renewers = {r1}
    MaxRoots = 2
    MaxKeys = 4
INVARIANT TypeOK RootRotationInvisible OverlapServesBothRoots RegionalBoundary RenewedIsFresh
SYMMETRY Symmetry
