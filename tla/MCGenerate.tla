----------------------------- MODULE MCGenerate -----------------------------
EXTENDS Generate

MCStopStrs == {<<"x", "x">>, <<"x", "cont">>}

\* The bytes a character still needs, "broken" once the run cannot be UTF-8.
MCUStates == {"whole", "one", "two", "three", "broken"}
MCUtf8 ==
    [state \in MCUStates |-> [byte \in Bytes |->
        CASE state = "whole" /\ byte = "ascii" -> "whole"
          [] state = "whole" /\ byte = "lead2" -> "one"
          [] state = "whole" /\ byte = "lead3" -> "two"
          [] state = "whole" /\ byte = "lead4" -> "three"
          [] state = "one" /\ byte = "cont" -> "whole"
          [] state = "two" /\ byte = "cont" -> "one"
          [] state = "three" /\ byte = "cont" -> "two"
          [] OTHER -> "broken"]]
=============================================================================
