SPECIFICATION FairSpec
CONSTANTS
    p1 = p1
    Pushers = {p1}
    Boot = Boot
    Order <- EnvOrder
    LeafOrder <- LeafFiles
    Granted = {"grant"}
    Pairs <- LeafPair
    MaxGen = 2
    MaxHurt = 1
    Placeholder = Placeholder
INVARIANTS ReportedIsServed BootRepairs
PROPERTY ComesBack
