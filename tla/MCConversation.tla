---------------------------- MODULE MCConversation ----------------------------
\* Instances of Conversation for TLC.
EXTENDS Conversation

MCConvs == 1..2

\* Two conversations with Gemini, streamed and not; one with a provider that
\* knows no calls, next to a Codex client of a Responses upstream.
Chat(front, provider) == [front |-> front, provider |-> provider, endpoint |-> "chat"]
Responses(front, provider) == [front |-> front, provider |-> provider, endpoint |-> "responses"]

MCSetups ==
    {<<Chat("stream", "gemini"), Responses("nonstream", "gemini")>>,
     <<Chat("stream", "ollama"), Responses("codex", "other")>>}

MixedSetups == {<<Chat("stream", "gemini"), Chat("nonstream", "ollama")>>}

Said(n) == <<"text", 0, n>>
Old(n) == <<"toolu_", 0, n>>
User(content) == Message("user", content)
Assistant(content) == Message("assistant", content)

\* A prompt in three parts with an image; a history with a server tool whose
\* result stands in the assistant message, and behind the result that is due
\* one given before and one of a call that is gone; one whose beginning was
\* compacted away, which left an orphan result, and with an advisor's answer.
Illustrated ==
    <<User(<<Block("text", <<>>, Said(1)), Block("text", <<>>, Said(2)),
             Block("image", <<>>, <<"image", 0, 1>>), Block("text", <<>>, Said(6))>>)>>

ServerTool ==
    <<User(<<Block("text", <<>>, Said(1))>>),
      Assistant(<<Block("tool_use", Old(5), "tool")>>),
      User(<<Block("tool_result", Old(5), <<"output", 0, 5>>)>>),
      Assistant(<<Block("text", <<>>, Said(3)),
                  Block("server_tool_use", Old(1), "web_search"),
                  Block("web_search_tool_result", Old(1), <<"output", 0, 1>>),
                  Block("tool_use", Old(2), "tool")>>),
      User(<<Block("tool_result", Old(2), <<"output", 0, 2>>),
             Block("tool_result", Old(5), <<"output", 0, 5>>),
             Block("tool_result", Old(6), <<"output", 0, 6>>)>>)>>

Compacted ==
    <<User(<<Block("compaction", <<>>, Said(4)),
             Block("tool_result", Old(3), <<"output", 0, 3>>)>>),
      Assistant(<<Block("tool_use", Old(4), "advisor")>>),
      User(<<Block("tool_result", Old(4), <<"output", 0, 4>>),
             Block("text", <<>>, Said(5))>>)>>

MCOpeners == <<{Illustrated, ServerTool, Compacted}, {ServerTool}>>

MCReplies == {<<"text", "call">>, <<"thinking", "call", "call">>}
===============================================================================
