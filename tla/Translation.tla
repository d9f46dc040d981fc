------------------------------ MODULE Translation ------------------------------
(***************************************************************************)
(* The two protocols of the proxy.  An OpenAI client's request becomes a   *)
(* Gemini-shaped one (application/gateway/openai.protocol.ts), which goes  *)
(* out as it is or is turned into an OpenAI request again                  *)
(* (infrastructure/providers); answers take the same way back              *)
(* (RoutingService.callUpstream and the handler of openai.routes.ts).      *)
(*                                                                         *)
(* A text is the sequence of the words it is made of: <<>> is "", and      *)
(* joining texts is concatenation (separators are left out).               *)
(***************************************************************************)
EXTENDS Naturals, Sequences, SequencesExt

CONSTANTS
  Absent,    \* undefined or null
  UpperCase  \* toUpperCase on the reasons an OpenAI upstream may give

OwnReasons == DOMAIN UpperCase

Given(value, default) == IF value = Absent THEN default ELSE value

-------------------------------------------------------------------------------
(* Requests: [messages : Seq([role, content]), max_tokens,                 *)
(* max_completion_tokens] from the client, [contents, system, maxTokens]   *)
(* inside the proxy.                                                       *)

(* What each of a list yields, put together: a loop that pushes.           *)
FlatMap(list, Yields(_)) == FlattenSeq([i \in DOMAIN list |-> Yields(list[i])])

IsSystem(message) == message.role \in {"system", "developer"}

TextOf(message) == Given(message.content, <<>>)

SystemText(message) == IF IsSystem(message) THEN TextOf(message) ELSE <<>>

ContentOf(message) ==
  IF IsSystem(message) THEN <<>>
  ELSE <<[role |-> IF message.role = "assistant" THEN "model" ELSE "user",
          text |-> TextOf(message)]>>

ChatRequestToGenerate(chat) ==
  [system |-> FlatMap(chat.messages, SystemText),
   contents |-> FlatMap(chat.messages, ContentOf),
   maxTokens |-> Given(chat.max_completion_tokens, chat.max_tokens)]

(* Slip: a turn with an empty text is left out, too.                       *)
HasText(content) == content.text \notin {Absent, <<>>}

(* extractText is null for a content without parts.                        *)
HasParts(content) == content.text # Absent

MessageOf(content) ==
  IF HasParts(content)
  THEN <<[role |-> IF content.role = "model" THEN "assistant"
                   ELSE Given(content.role, "user"),
          content |-> content.text]>>
  ELSE <<>>

(* OpenAICompatibleAdapter.transformRequest                                *)
TransformRequest(request) ==
  LET system == IF request.system \in {Absent, <<>>} THEN <<>>
                ELSE <<[role |-> "system", content |-> request.system]>>
  IN [messages |-> system \o FlatMap(request.contents, MessageOf),
      max_tokens |-> request.maxTokens]

(* What callUpstream sends: only a Gemini upstream gets the request as is. *)
Outgoing(provider, request) ==
  IF provider = "gemini" THEN request ELSE TransformRequest(request)

-------------------------------------------------------------------------------
(* Answers.                                                                *)

(* mapFinishReason of the adapter: a reason of its own is upper-cased, and *)
(* an empty one is none.                                                   *)
CanonicalReason(reason) ==
  CASE reason \in {"stop", Absent}  -> "STOP"
    [] reason = "length"            -> "MAX_TOKENS"
    [] reason = "content_filter"    -> "SAFETY"
    [] OTHER                        -> UpperCase[reason]

(* mapFinishReason of openai.protocol.ts                                   *)
ChatReason(reason) ==
  CASE reason \in {"STOP", "RECITATION"} -> "stop"
    [] reason = "MAX_TOKENS" -> "length"
    [] reason \in {"SAFETY", "PROHIBITED_CONTENT", "BLOCKLIST", "SPII"} ->
         "content_filter"
    [] OTHER -> Absent

Usage(prompt, completion, total) ==
  [prompt |-> prompt, completion |-> completion, total |-> total]

(* Whatever else the object is, it has no choices and no usage.            *)
CandidatesOf(answer) ==
  IF answer.shape # "chat" THEN <<>>
  ELSE [i \in DOMAIN answer.choices |->
          [text |-> Given(answer.choices[i].text, <<>>),
           reason |-> CanonicalReason(answer.choices[i].reason)]]

(* Slip: the usage of an answer is lost in translation.                    *)
TransformResponseWithoutUsage(answer) ==
  [shape |-> "generate", choices |-> CandidatesOf(answer),
   usage |-> Absent]

(* OpenAICompatibleAdapter.transformResponse                               *)
TransformResponse(answer) ==
  [shape |-> "generate", choices |-> CandidatesOf(answer),
   usage |-> IF answer.shape # "chat" \/ answer.usage = Absent THEN Absent
             ELSE [f \in DOMAIN answer.usage |-> Given(answer.usage[f], 0)]]

(* A body is "empty", "broken" (not JSON, or cut at RESPONSE_LIMIT_BYTES), *)
(* "error" or a completion of the provider's shape, "chat" or "generate".  *)
Parses(body) == body.shape \notin {"empty", "broken"}

(* callUpstream, from the upstream's answer to UpstreamResult: only a      *)
(* successful answer that says it is JSON, and is, is translated.          *)
Incoming(provider, answer) ==
  IF /\ provider # "gemini"
     /\ answer.status \in 200..299
     /\ answer.json
     /\ Parses(answer.body)
  THEN [answer EXCEPT !.body = TransformResponse(@)]
  ELSE answer

(* extractUsageTokens: what the usage event of a success records.          *)
ExtractUsageTokens(result) ==
  IF result.json /\ result.body.shape = "generate" /\ result.body.usage # Absent
  THEN [prompt |-> Given(result.body.usage.prompt, 0),
        completion |-> Given(result.body.usage.completion, 0)]
  ELSE [prompt |-> 0, completion |-> 0]

(* generateResponseToChat; a body of another shape has no candidates and   *)
(* no usageMetadata.  Uncounted completions are counted in characters.     *)
GenerateResponseToChat(body) ==
  LET generate == body.shape = "generate"
      candidates == IF generate THEN body.choices ELSE <<>>
      counted == IF generate /\ body.usage # Absent THEN body.usage
                 ELSE Usage(Absent, Absent, Absent)
      text == FlattenSeq([i \in DOMAIN candidates |-> candidates[i].text])
      prompt == Given(counted.prompt, 0)
      completion == Given(counted.completion, Len(text))
  IN [choices |-> [i \in DOMAIN candidates |->
                     [text |-> candidates[i].text,
                      reason |-> ChatReason(candidates[i].reason)]],
      usage |-> Usage(prompt, completion, Given(counted.total, prompt + completion))]

(* upstreamErrorToChat                                                     *)
ErrorType(status) ==
  CASE status \in {401, 403} -> "authentication_error"
    [] status \in {400, 404} -> "invalid_request_error"
    [] status = 429          -> "rate_limit_error"
    [] OTHER                 -> "api_error"

(* Slip: an answer is a completion whenever its body parses.               *)
ParsedToChat(result) ==
  IF Parses(result.body)
  THEN [status |-> 200, error |-> Absent,
        completion |-> GenerateResponseToChat(result.body)]
  ELSE [status |-> result.status, error |-> ErrorType(result.status),
        completion |-> Absent]

(* The chat handler, from route's result to its reply.                     *)
ResultToChat(result) ==
  IF result.status \in 200..299 /\ Parses(result.body)
  THEN [status |-> 200, error |-> Absent,
        completion |-> GenerateResponseToChat(result.body)]
  ELSE [status |-> result.status, error |-> ErrorType(result.status),
        completion |-> Absent]
===============================================================================
