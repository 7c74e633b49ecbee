\* Deadlock is not checked: a pull that is done has nothing more to do.
SPECIFICATION Spec
CONSTANTS
    Clients = {"cursor"}
    Objects = {1, 2}
    PageSize = 1
    MaxPushes = 1
INVARIANT NextPageAfter
CHECK_DEADLOCK FALSE
