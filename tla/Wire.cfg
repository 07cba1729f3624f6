CONSTANTS
    MAX_PAYLOAD_SIZE = 4
    U32 = 6
    Lengths = {1, 4, 5, 6}
    Signers = {"sign_frame_header", "signing_data"}
    MaxFrames = 3
SPECIFICATION Spec
INVARIANTS ReadsWhatWasWritten ArrivesAsWritten StreamSurvives
CHECK_DEADLOCK FALSE
