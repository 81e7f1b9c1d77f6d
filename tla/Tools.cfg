SPECIFICATION Spec
CHECK_DEADLOCK FALSE
CONSTANTS
    Words = {"x", " "}
    Space = " "
    MaxNews = {2, 6}
INVARIANTS
    SentIsVisible
    StreamedIsContent
    AtMostOneCall
    CallsAreFinished
