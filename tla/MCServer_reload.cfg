SPECIFICATION Spec
CONSTANTS
    MaxEdits = 4
    MaxFaults = 2
    r1 = r1
    r2 = r2
    Reloads = {r1}
    None = None
 
PROPERTY EventuallyServesFile
CHECK_DEADLOCK FALSE
