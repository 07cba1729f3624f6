CONSTANTS
    MAX_PAYLOAD_SIZE = 4
    U32 = 6
    Lengths = {1, 4, 5, 6}
    Signers = {"sign_frame_header"}
    MaxFrames = 1
SPECIFICATION Spec
INVARIANTS SentMessagesVerify
CHECK_DEADLOCK FALSE
