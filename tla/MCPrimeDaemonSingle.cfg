SPECIFICATION Spec
CONSTANTS
    s1 = s1
    s2 = s2
    Starters = {s1, s2}
    Stoppers = {}
    Methods = {"auto"}
    Platforms = {"posix"}
    MaxPid = 2
PROPERTY
    SingleInstance
CHECK_DEADLOCK FALSE
