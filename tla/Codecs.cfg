SPECIFICATION Spec
CONSTANTS
    WordBytes = 1
    TimeMod = 1073741824
    Letters = {"a", "b", "l", "v", "t", "vhost=", "token=", "startpts=", "GET"}
    Digits = {"1", "5"}
INVARIANTS
    AmfAnswered
    MetadataDecoded
    BitstreamRead
    SpsUnderstood
    MediaDelivered
    ViewerFindsPublisher
    TagsReadable
CHECK_DEADLOCK FALSE
