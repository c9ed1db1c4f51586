CONSTANTS
    Msg <- MCMsg
    HDR = 2
    Size = {2, 5}
    None = None
    WMQ_BYTES = 8
    WM_MAX_PAYLOAD = 3
    Pid = {wm, c1, c2}
    Nobody = Nobody
    Type = {create}
    WM_ENDPOINTS = 2
    Cap = 2
SPECIFICATION MCSpec
INVARIANTS Framed OneEndpoint ClientsIsolated ServerReachable
PROPERTIES ImplementsMsgQueue
