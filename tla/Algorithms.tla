------------------------------ MODULE Algorithms ------------------------------
(***************************************************************************)
(* The functions of the proxy that keep no state, and what they promise    *)
(* together: key selection (a pool that is sorted and shifted,             *)
(* CandidatePool), the two protocol translations in a row, and the listing *)
(* of models.  exchange is the input of the latter two; one of the parts   *)
(* is idle.                                                                *)
(***************************************************************************)
EXTENDS CandidatePool, Translation, ProviderProbe

CONSTANTS
  Words,      \* what texts are made of
  ModelIds,   \* the names a provider lists
  GeminiReasons,  \* what a Gemini upstream may give as finishReason
  Chats, Natives, Answers, Listings  \* the inputs, by kind

Text == Seq(Words)

ChatRoles == {"system", "developer", "user", "assistant", "tool"}

(* Roles of Gemini's contents.                                             *)
NativeRoles == {"user", "model", "function"}

Count == Nat \cup {Absent}

(* ChatCompletionCreate                                                    *)
ChatMessage == [role : ChatRoles, content : {Absent} \cup Text]

ChatRequest ==
  [kind : {"chat"}, messages : Seq(ChatMessage),
   max_tokens : Count, max_completion_tokens : Count]

(* GenerateRequest: a content without parts has no text.                   *)
NativeContent == [role : NativeRoles \cup {Absent}, text : {Absent} \cup Text]

NativeRequest ==
  [kind : {"native"}, system : {Absent} \cup Text,
   contents : Seq(NativeContent), maxTokens : Count]

Counted == [prompt : Count, completion : Count, total : Count]

(* OpenAIChatResponse, and GenerateResponse as Gemini sends it             *)
ChatCompletion ==
  [shape : {"chat"}, usage : Counted \cup {Absent},
   choices : Seq([text : {Absent} \cup Text, reason : OwnReasons \cup {Absent}])]

GenerateCompletion ==
  [shape : {"generate"}, usage : Counted \cup {Absent},
   choices : Seq([text : Text, reason : GeminiReasons])]

AnswerOf(provider, completions) ==
  [kind : {"answer"}, provider : {provider},
   answer : [status : Nat, json : BOOLEAN,
             body : completions \cup [shape : {"empty", "broken", "error"}]]]

UpstreamAnswer ==
  AnswerOf("gemini", GenerateCompletion)
  \cup AnswerOf("openai_compatible", ChatCompletion)

Page == [ok : BOOLEAN, models : Seq(ModelIds)]

Listing ==
  [kind : {"listing"}, provider : {"gemini", "openai_compatible"},
   restricted : BOOLEAN, pages : Seq(Page)]

(* undefined is not a text, a number, a role or a reason.                  *)
ASSUME ExchangeAssumption ==
  /\ Chats \subseteq ChatRequest
  /\ Natives \subseteq NativeRequest
  /\ Answers \subseteq UpstreamAnswer
  /\ Listings \subseteq Listing
  /\ Absent \notin Text \cup Counted
  /\ Absent \notin Nat
  /\ Absent \notin ChatRoles \cup NativeRoles
  /\ Absent \notin OwnReasons
  /\ Absent \notin {"stop", "length", "content_filter"}
  /\ Absent \notin {"authentication_error", "invalid_request_error",
                    "rate_limit_error", "api_error"}
  /\ MaxPages \in Nat \ {0}

VARIABLE exchange

allVars == <<vars, exchange>>

Idle == [kind |-> "none"]

AInit ==
  \/ Init /\ exchange = Idle
  \/ /\ primary = "least_used" /\ fallback = NoFallback
     /\ queue = <<>> /\ taken = <<>>
     /\ exchange \in Chats \cup Natives \cup Answers \cup Listings

ANext == Shift /\ UNCHANGED exchange

ASpec == AInit /\ [][ANext]_allVars

-------------------------------------------------------------------------------
Turns(messages) == FlatMap(messages, LAMBDA m : IF IsSystem(m) THEN <<>> ELSE <<m>>)

Said(text) == IF text = Absent THEN <<>> ELSE text

SystemSaid(messages) ==
  FlatMap(messages, LAMBDA m : IF IsSystem(m) THEN Said(m.content) ELSE <<>>)

(* The system text goes ahead of the turns, in one message at most.        *)
SystemFirst(messages, text) ==
  /\ \A i \in DOMAIN messages : IsSystem(messages[i]) => i = 1
  /\ SystemSaid(messages) = text

(* A conversation survives both translations, the one to the proxy's shape *)
(* and the one to the provider's: what an OpenAI-compatible upstream gets  *)
(* is every turn of the client in its order, with its text and with the    *)
(* assistant's turns told from the others, after one message that holds    *)
(* every system and developer text, under the client's own limit.          *)
ChatSurvives(chat) ==
  LET out == Outgoing("openai_compatible", ChatRequestToGenerate(chat))
      asked == Turns(chat.messages)
      sent == Turns(out.messages)
  IN /\ Len(sent) = Len(asked)
     /\ \A i \in DOMAIN asked :
          /\ sent[i].content = Said(asked[i].content)
          /\ sent[i].role = "assistant" <=> asked[i].role = "assistant"
     /\ SystemFirst(out.messages, SystemSaid(chat.messages))
     /\ chat.max_completion_tokens # Absent => out.max_tokens = chat.max_completion_tokens
     /\ chat.max_completion_tokens = Absent => out.max_tokens = chat.max_tokens

(* A native client's turns likewise, those without any part left out.      *)
NativeSurvives(native) ==
  LET out == Outgoing("openai_compatible", native)
      sent == Turns(out.messages)
      asked == FlatMap(native.contents,
                       LAMBDA c : IF c.text = Absent THEN <<>> ELSE <<c>>)
  IN /\ Len(sent) = Len(asked)
     /\ \A i \in DOMAIN asked :
          /\ sent[i].content = asked[i].text
          /\ sent[i].role = "assistant" <=> asked[i].role = "model"
     /\ SystemFirst(out.messages, Said(native.system))
     /\ out.max_tokens = native.maxTokens

(* What a client says to an OpenAI-compatible upstream arrives as it was   *)
(* said, whichever of the two protocols the client speaks.                 *)
ConversationSurvives ==
  /\ exchange.kind = "chat" => ChatSurvives(exchange)
  /\ exchange.kind = "native" => NativeSurvives(exchange)

Understood == {"stop", "length", "content_filter"}

(* The words of Gemini's that the handler has one of OpenAI's for.         *)
Spoken == {"STOP", "RECITATION", "MAX_TOKENS", "SAFETY", "PROHIBITED_CONTENT",
           "BLOCKLIST", "SPII"}

ChoiceSurvives(told, choice, shape) ==
  /\ told.text = Said(choice.text)
  /\ shape = "chat" =>
       /\ choice.reason = Absent => told.reason = "stop"
       /\ choice.reason \in Understood => told.reason = choice.reason
       /\ choice.reason \in OwnReasons \ Understood /\ UpperCase[choice.reason] \notin Spoken =>
            told.reason = Absent

UsageSurvives(told, recorded, usage) ==
  usage # Absent =>
    /\ recorded.prompt = told.prompt
    /\ usage.completion # Absent =>
         recorded.completion = told.completion /\ told.completion = usage.completion
    /\ usage.total # Absent => told.total = usage.total

(* A failure stays the failure it was, and a success is never shown as     *)
(* another outcome than the upstream's: the client gets a completion only  *)
(* for a 2xx answer that can be read, and an error under the upstream's    *)
(* own status otherwise.  What a readable answer says reaches the client:  *)
(* each choice with its text and, where both protocols have a word for it, *)
(* the reason it ended; and the tokens the client is told are the ones its *)
(* usage event records, unless the upstream left some of them out.         *)
AnswerSurvives ==
  exchange.kind = "answer" =>
    LET answer == exchange.answer
        body == answer.body
        succeeded == answer.status \in 200..299
        result == Incoming(exchange.provider, answer)
        reply == ResultToChat(result)
        told == reply.completion
    IN /\ (reply.error = Absent) <=> succeeded /\ Parses(body)
       /\ reply.status = IF reply.error = Absent THEN 200 ELSE answer.status
       /\ answer.json /\ succeeded /\ body.shape \in {"chat", "generate"} =>
            /\ Len(told.choices) = Len(body.choices)
            /\ \A i \in DOMAIN body.choices :
                 ChoiceSurvives(told.choices[i], body.choices[i], body.shape)
            /\ UsageSurvives(told.usage, ExtractUsageTokens(result), body.usage)

(* A listing is the provider's catalog as far as ten pages reach, or the   *)
(* probe fails: a form never offers part of a page sequence that broke.    *)
ListingIsWhole ==
  exchange.kind = "listing" =>
    LET got == Probe(exchange.provider, exchange.restricted, exchange.pages)
        whole == FlattenSeq([i \in DOMAIN exchange.pages |-> exchange.pages[i].models])
    IN got # Failed =>
         /\ ~exchange.restricted
         /\ IsPrefix(got, whole)
         /\ got # whole =>
              Len(exchange.pages) > IF exchange.provider = "gemini" THEN MaxPages ELSE 1
===============================================================================
