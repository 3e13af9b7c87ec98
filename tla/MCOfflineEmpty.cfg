CONSTANTS
    default_snaplen = 70
    max_capture_len = 62
    min_saved_bytes_per_packet = 3
    Packet <- MCPacket
    Size <- MCSize
    MaxRecords = 1
SPECIFICATION Spec
INVARIANT SuccessMeansPcap
CHECK_DEADLOCK FALSE
