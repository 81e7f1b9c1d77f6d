------------------------------ MODULE MCServer ------------------------------
EXTENDS Server

\* Every lock discipline, every way a handler deals with the latch, plain and
\* streamed: the kinds left out are another spelling of one of these.
EveryDiscipline == {"chat", "chatStream", "comp", "tools", "respStream", "ws", "health"}
=============================================================================
