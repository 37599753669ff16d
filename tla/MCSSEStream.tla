----------------------------- MODULE MCSSEStream -----------------------------
(* SSEStream for TLC: the kinds of chunk that drive the state machine.       *)
EXTENDS SSEStream

MCCalls == {0, 1}

Chunk(content, thinking, calls, finish) ==
    [content |-> content, thinking |-> thinking, calls |-> calls, finish |-> finish]
Call(i, id, name, args) == [index |-> i, id |-> id, name |-> name, args |-> args]

Text == Chunk("text", FALSE, <<>>, "none")
Named(i) == Chunk("nil", FALSE, <<Call(i, TRUE, TRUE, FALSE)>>, "none")
NamedWithArgs(i) == Chunk("nil", FALSE, <<Call(i, TRUE, TRUE, TRUE)>>, "none")
Nameless(i) == Chunk("nil", FALSE, <<Call(i, FALSE, FALSE, TRUE)>>, "none")
ThinkingAndFinish == Chunk("nil", TRUE, <<>>, "tool_calls")

\* Call 0 sends its arguments apart from its name, before or after it; call
\* 1 sends everything at once.
MCChunks == {Text, Named(0), Nameless(0), NamedWithArgs(1), ThinkingAndFinish}

\* The id comes in one chunk, the name in the next.
IdOnly == Chunk("nil", FALSE, <<Call(0, TRUE, FALSE, FALSE)>>, "none")
NameOnly == Chunk("nil", FALSE, <<Call(0, FALSE, TRUE, TRUE)>>, "none")
MCIdFirstChunks == {IdOnly, NameOnly, ThinkingAndFinish}

\* Every parallel call in one chunk.
AllCalls == Chunk("nil", FALSE, <<Call(0, TRUE, TRUE, TRUE), Call(1, TRUE, TRUE, TRUE)>>, "none")
Finish == Chunk("nil", FALSE, <<>>, "stop")
MCParallelChunks == {AllCalls, Finish}
==============================================================================
