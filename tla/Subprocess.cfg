SPECIFICATION FairSpec
CONSTANTS
    Owners = {o1, o2}
    Space = 1
    MaxWrites = 2
    None = None
INVARIANTS NotifiesWaiter DescriptorsClosed
PROPERTIES ExitReleasesOwner
CHECK_DEADLOCK FALSE
