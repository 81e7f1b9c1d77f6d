---------------------------- MODULE MCResponses ----------------------------
EXTENDS Responses, TLC

\* Items of each kind that is not kept as it is: one skipped, one whose role is not known.
MCInputs ==
    {<<[type |-> "function_call", role |-> "tool"], [type |-> "message", role |-> "tool"]>>}

\* Streams that are stored or not, and a plain request with instructions.
MCShapes ==
    {[instructions |-> FALSE, store |-> TRUE, stream |-> TRUE],
     [instructions |-> TRUE, store |-> FALSE, stream |-> TRUE],
     [instructions |-> TRUE, store |-> TRUE, stream |-> FALSE]}

Interchangeable == Permutations(Requests)
=============================================================================
