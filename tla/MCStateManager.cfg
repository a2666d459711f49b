SPECIFICATION StateSpec
CONSTANTS
    Releases = {r1, r2, r3}
    Absent = Absent
    PlainFile = PlainFile
    Directory = Directory
    Layouts = {r1, r2, Absent, PlainFile, Directory}
INVARIANTS
    StateTypeOK
    RollbackTarget
PROPERTIES
    NeverDark
    SwitchIsRecoverable
