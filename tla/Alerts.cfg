SPECIFICATION Spec
CONSTANTS
    sweep = sweep
    check = check
    test1 = test1
    test2 = test2
    None = None
    Callers = {sweep, check, test1, test2}
    Sweep = sweep
    Check = check
    KeyOf <- Categories
    Senders = {"webhook"}
    Cooldown = 1
    MaxSaves = 1
    MaxEdits = 1
    MaxRestarts = 1

    
PROPERTIES
    CooldownIsKept
    AlertsRepeat
    SweepGoesOn
