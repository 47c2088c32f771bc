\* One instance at first, two requests, and updates that cross one another.
SPECIFICATION Spec
CONSTANTS
    LWM2M_MAX_ID = 65535
    Values = {0, 7}
    Zero = 0
    Bad = Bad
    Initial <- MCInitial
    Commands <- MCCommands
    MaxRequests = 2
    MaxCopies = 2
    MaxUpdates = 3
    MaxEvents = 4
    MaxUpdateCopies = 1
INVARIANTS ListsAgree CreatedAsTold
CHECK_DEADLOCK FALSE
