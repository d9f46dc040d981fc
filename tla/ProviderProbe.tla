----------------------------- MODULE ProviderProbe -----------------------------
(***************************************************************************)
(* Live model discovery (application/gateway/providerProbe.service.ts) and *)
(* the listModels of the two adapters.  A provider's catalog is a sequence *)
(* of pages, each with its models and whether fetching and parsing it      *)
(* works; a page other than the last names the next one.                   *)
(***************************************************************************)
EXTENDS Naturals, Sequences, SequencesExt

CONSTANTS
  MaxPages,  \* pageCount < 10
  Failed     \* what the caller gets when the probe throws: 502

(* Slip: a page that cannot be had is passed over.                         *)
ListModelsAvailable(provider, pages) ==
  LET visited == SelectSeq(pages, LAMBDA p : p.ok)
  IN FlattenSeq([i \in DOMAIN visited |-> visited[i].models])

(* GeminiAdapter follows the pages, OpenAICompatibleAdapter reads one; any *)
(* page that cannot be had makes the whole listing throw.                  *)
ListModels(provider, pages) ==
  LET followed == IF provider = "gemini" THEN MaxPages ELSE 1
      visited == [i \in 1..(IF Len(pages) < followed THEN Len(pages) ELSE followed)
                    |-> pages[i]]
  IN IF \A i \in DOMAIN visited : visited[i].ok
     THEN FlattenSeq([i \in DOMAIN visited |-> visited[i].models])
     ELSE Failed

(* The two probe handlers: a restricted host is refused before any fetch.  *)
Probe(provider, restricted, pages) ==
  IF restricted THEN Failed ELSE ListModels(provider, pages)
===============================================================================
