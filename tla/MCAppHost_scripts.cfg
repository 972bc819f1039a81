SPECIFICATION AppSpec
CONSTANTS
    s1 = s1  s2 = s2  s3 = s3  s4 = s4  r1 = r1  r2 = r2
    Bundles = {s1, s2, s3}
    Built <- BuiltInOrder
    KeepReleases = 1
    Scripts = {r1, r2}
    Placeholder = Placeholder
    Nothing = Nothing
INVARIANT AloneIsServed
PROPERTY CurrentNeverLost
