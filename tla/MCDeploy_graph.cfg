SPECIFICATION Spec
CONSTANTS
    hg = hg  hr = hr  g = g  a = a  b = b  None = None
    Hosts = {hg, hr}
    Global = hg
    Services = {g, a, b}
    HostOf <- OnHosts
    Reloading = {b}
    Designs <- JoinAndLeave
    MaxFails = 1
    MaxReboots = 1
    Shipped = {g}
CHECK_DEADLOCK FALSE
INVARIANT GreenMeansDone
PROPERTIES StartsInOrder Converges
