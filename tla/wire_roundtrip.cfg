CONSTANTS
    Bytes <- TwoBytes
SPECIFICATION Spec
INVARIANT ReceiverSeesWhatSenderSet
