------------------------------ MODULE MCUpstream ------------------------------
\* Instances of Upstream for TLC.
EXTENDS Upstream

MCSetups ==
    {[mode |-> "stream", endpoint |-> "chat", quirks |-> {"tool_choice"}],
     [mode |-> "nonstream", endpoint |-> "flat-tools",
      quirks |-> {"tool_choice", "tool_call_id"}],
     [mode |-> "nonstream", endpoint |-> "responses", quirks |-> {}],
     [mode |-> "stream", endpoint |-> "responses", quirks |-> {}]}

(* A failing gateway; a brief rate limit; a quota used up in words only    *)
(* the limiter knows; a key nobody accepts; a model nobody serves just     *)
(* now; two requests to be rewritten.                                      *)
MCRefusals ==
    {[status |-> 500, body |-> {}], [status |-> 429, body |-> {}],
     [status |-> 429, body |-> {"exhausted"}], [status |-> 401, body |-> {"key"}],
     [status |-> 400, body |-> {"routing"}],
     [status |-> 400, body |-> {"tool_choice.name"}],
     [status |-> 400, body |-> {"no tool output"}]}
MCMaxRetries == [c \in Retryable |-> 1]
===============================================================================
