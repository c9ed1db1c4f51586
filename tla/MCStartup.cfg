CONSTANTS
    Pid <- MCPid
    Type <- MCType
    Nobody = Nobody
    StartWm = StartWm
    Wm = Wm
    Bg = Bg
    WM_ENDPOINTS = 3
    Cap = 3
    MaxSpins = 3
SPECIFICATION SFairSpec
INVARIANTS WindowsAgree
PROPERTIES BackgroundSettles
