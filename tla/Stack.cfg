SPECIFICATION Spec
CONSTANTS
    Cli = {c1, c2}
    None = None
    MaxCommands = 2
    MaxTime = 2
SYMMETRY CliSymmetry
INVARIANTS TypeOK TrustedIsComplete EditsNoticed
PROPERTIES ReloadApplies AgentChecked
CHECK_DEADLOCK FALSE
