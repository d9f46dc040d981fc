----------------------------- MODULE MCAlgorithms -----------------------------
(***************************************************************************)
(* The inputs of Algorithms for TLC: conversations of up to three messages *)
(* with and without a content, answers of up to two choices with every     *)
(* reason and with counts left out, listings of up to three pages.         *)
(***************************************************************************)
EXTENDS Algorithms, MCKeySelection

MCUpperCase ==
  "stop" :> "STOP" @@ "length" :> "LENGTH" @@ "content_filter" :> "CONTENT_FILTER"
  @@ "tool_calls" :> "TOOL_CALLS" @@ "recitation" :> "RECITATION"

Texts == {<<>>} \cup {<<w>> : w \in Words}

Messages == [role : ChatRoles, content : Texts \cup {Absent}]

MCChats ==
  [kind : {"chat"}, messages : UNION {[1..n -> Messages] : n \in 1..3},
   max_tokens : {Absent}, max_completion_tokens : {Absent, 1}]
  \cup [kind : {"chat"}, messages : [1..1 -> Messages],
        max_tokens : {Absent, 1, 2}, max_completion_tokens : {Absent, 1, 2}]

MCNatives ==
  [kind : {"native"}, system : Texts \cup {Absent},
   contents : SeqOf([role : {"user", "model", Absent}, text : Texts \cup {Absent}], 2),
   maxTokens : {Absent, 1}]

Counts ==
  {Usage(1, 2, 3), Usage(1, 2, Absent), Usage(Absent, 2, 2), Usage(1, Absent, 1),
   Absent}

ChoicesOf(reasons, texts) == SeqOf([text : texts, reason : reasons], 2)

GenerateCompletions ==
  [shape : {"generate"}, usage : Counts, choices : ChoicesOf(GeminiReasons, Texts)]

ChatCompletions ==
  [shape : {"chat"}, usage : Counts,
   choices : ChoicesOf(OwnReasons \cup {Absent}, Texts \cup {Absent})]

Answered(provider, completions) ==
  [kind : {"answer"}, provider : {provider},
   answer : [status : {200, 201, 429, 500}, json : BOOLEAN,
             body : completions \cup [shape : {"empty", "broken", "error"}]]]

MCAnswers ==
  Answered("gemini", GenerateCompletions)
  \cup Answered("openai_compatible", ChatCompletions)

MCListings ==
  [kind : {"listing"}, provider : {"gemini", "openai_compatible"},
   restricted : BOOLEAN,
   pages : SeqOf([ok : BOOLEAN, models : {<<>>, <<"a">>, <<"b", "c">>}], 3)]
===============================================================================
