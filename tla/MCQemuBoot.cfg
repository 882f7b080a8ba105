SPECIFICATION FairBootSpec
CONSTANTS
    Bytes = {"a", "b"}
    Zero = "0"
    Marker <- MCMarker
    CaptureLimit = 3
    MaxWritten = 7
    MaxEmitted = 7
INVARIANTS WriterExact VerdictIsTrue
PROPERTY RunReturns
CHECK_DEADLOCK FALSE
