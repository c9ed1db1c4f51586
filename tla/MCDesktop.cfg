CONSTANTS
    Process <- MCProcess
    Bg = Bg
    Wm = Wm
    App = {a1, a2, a3}
    MAX_WINS = 4
    SHM_MAX_OBJECTS = 5
    Cap = 2
SYMMETRY Symmetry
SPECIFICATION Spec
INVARIANTS FocusExact FocusTold LayersOrdered NoDangling WindowsKept MappedAlive
