--------------------------- MODULE UpstreamErrors ---------------------------
(***************************************************************************)
(* How the proxy names and sorts the failures of an upstream call.  Errors *)
(* travel through the client, the retry engine and the handler as text;    *)
(* each layer searches the text for substrings and decides on its own.  A  *)
(* text is modelled by the set of FEATURES a search can find in it, so     *)
(* wrapping adds features, and replacing the text by a friendlier one      *)
(* loses those it had.                                                     *)
(***************************************************************************)
EXTENDS Integers, Sequences, FiniteSetsExt, TLC

Features == {"cancelled", "net.Error", "permanent", "exhausted", "rate_limit",
             "quota", "rate limit", "network words", "key", "billing", "region",
             "routing", "tool_choice.name", "no tool output", "timeout", "empty"}

(* A status an error text quotes is a feature of its own. *)
Status(n) == ToString(n)

-----------------------------------------------------------------------------
(* The first rule whose features the text has decides; `otherwise` if none. *)
FirstRule(rules, text, otherwise) ==
    LET hits == {i \in DOMAIN rules : rules[i][1] \cap text # {}}
    IN  IF hits = {} THEN otherwise ELSE rules[Min(hits)][2]

StatusSet(S) == {Status(n) : n \in S}

(* retry.ClassifyError: the order of the tests is part of the behaviour. *)
ClassifyRules ==
    << <<{"cancelled"}, "cancelled">>,
       <<{"net.Error"}, "network">>,
       <<{"permanent"}, "permanent_quota">>,
       <<{Status(429), "rate limit"}, "rate_limit">>,
       <<StatusSet({424, 500, 502, 503, 504, 506, 507, 508}), "server_error">>,
       <<{"network words"}, "network">>,
       <<StatusSet({401, 403}) \cup {"key"}, "auth">>,
       <<StatusSet({400, 404, 422}), "protocol">>,
       <<{"empty"}, "server_error">> >>

ClassifyError(text) == FirstRule(ClassifyRules, text, "unknown")

(* defaultStrategies: the categories the retry engine tries again. *)
Retryable == {"rate_limit", "server_error", "network"}

IsRetryable(text) == ClassifyError(text) \in Retryable

-----------------------------------------------------------------------------
(* client.ClassifyOpenAIError replaces the body by a sentence for the user. *)
(* The sentence for rate limits contains "rate limit"; the others contain   *)
(* nothing any later search looks for.                                      *)
GuidanceRules ==
    << <<{"region"}, {}>>,
       <<{"key"}, {}>>,
       <<{"rate_limit", "quota"}, {"rate limit"}>>,
       <<{"routing"}, {}>>,
       <<{"billing"}, {}>> >>

ClassifyOpenAIError(body) == FirstRule(GuidanceRules, body, body)

(* client.isRetryableHTTPStatus *)
isRetryableHTTPStatus(status, body) ==
    IF status = 429 THEN ClassifyError({Status(429)} \cup body) = "rate_limit"
    ELSE status \in {424, 408, 406} \/ status >= 500

(* ratelimit.Classify429 with the Retry-After the body names, in seconds.   *)
(* ParseRetryAfter adds two seconds of network delay to what it reads.      *)
ParseRetryAfter(named) == IF named > 0 THEN named + 2 ELSE 0

Classify429(body, named) ==
    IF "exhausted" \in body THEN "quota_exhausted"
    ELSE IF ParseRetryAfter(named) > 60 THEN "strict"
    ELSE IF ParseRetryAfter(named) > 10 THEN "moderate"
    ELSE "transient"

-----------------------------------------------------------------------------
(* handler.SendErrorResponse for an error nothing retried any more: the     *)
(* kind the client sees.  Claude Code repeats a request by itself after     *)
(* "overloaded_error" only.  Without a status in the text it answers 500.   *)
QuotedStatus(text) ==
    LET quoted == {n \in 400..599 : Status(n) \in text}
    IN  IF quoted = {} THEN 500 ELSE Min(quoted)

SendErrorResponse(text) ==
    IF \/ "routing" \in text
       \/ "timeout" \in text
       \/ QuotedStatus(text) \in {424, 529, 500, 502, 503, 504}
    THEN "overloaded_error"
    ELSE "api_error"
=============================================================================
