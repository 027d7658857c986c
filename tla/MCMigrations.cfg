SPECIFICATION FairSpec
CONSTANTS
    p1 = p1
    p2 = p2
    Procs = {p1, p2}
    Shapes <- Shipped
    MaxMishaps = 2
INVARIANT SchemaWhole
PROPERTY BootsUnlessTorn
CHECK_DEADLOCK FALSE
