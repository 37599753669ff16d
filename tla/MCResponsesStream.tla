-------------------------- MODULE MCResponsesStream --------------------------
\* Instances of ResponsesStream for TLC.
EXTENDS ResponsesStream

\* A chat upstream and a bridged one, for a caller that streams and one that
\* does not, whose calls come one after the other or overlap.
MCSetups ==
    {[format |-> "chat", caller |-> "stream", parallel |-> FALSE],
     [format |-> "chat", caller |-> "stream", parallel |-> TRUE],
     [format |-> "chat", caller |-> "assemble", parallel |-> TRUE],
     [format |-> "responses", caller |-> "stream", parallel |-> TRUE],
     [format |-> "responses", caller |-> "assemble", parallel |-> FALSE]}
==============================================================================
