------------------------------ MODULE Indexing ------------------------------
(***************************************************************************)
(* What one ingestion does with one file between two transitions: it is    *)
(* parsed and cut into chunks (Parsing, Chunking), and VoyageEmbedder      *)
(* (services/embeddings.py) embeds their texts, in batches under two caps, *)
(* each request retried.                                                   *)
(***************************************************************************)
EXTENDS Chunking

CONSTANTS CharsPerToken, MaxTexts, MaxTokens, MaxRetries

ASSUME EmbeddingAssumption ==
  /\ CharsPerToken \in Nat \ {0}
  /\ MaxTexts \in Nat \ {0}
  /\ MaxTokens \in Nat \ {0}
  /\ MaxRetries \in Nat \ {0}

VARIABLES
  gathered,   \* how many texts are in a batch or in the one in progress
  batches,    \* the closed batches, [from, to]: the texts after from up to to
  sent,       \* how many batches have been answered
  attempt,    \* attempts of the request in progress that failed
  vectors     \* vectors[k] = t: the vector of text k is the embedding of text t; 0: []

embedding == <<gathered, batches, sent, attempt, vectors>>
vars == <<parsing, chunking, embedding>>

Total == Len(chunks)
Tokens(k) ==
  LET estimate == (chunks[k].end - chunks[k].start) \div CharsPerToken
  IN  IF estimate > 1 THEN estimate ELSE 1
TokensUpTo[k \in 0 .. Total] == IF k = 0 THEN 0 ELSE TokensUpTo[k - 1] + Tokens(k)
BatchTokens(from, to) == TokensUpTo[to] - TokensUpTo[from]

Opened == IF batches = <<>> THEN 0 ELSE batches[Len(batches)].to

Init ==
  /\ ParsingInit
  /\ ChunkingInit
  /\ gathered = 0 /\ batches = <<>> /\ sent = 0 /\ attempt = 0
  /\ vectors = <<>>

(* No chunk at all, or the texts go to embed().                            *)
Chunked ==
  /\ At("page")
  /\ page = Len(pages)
  /\ stage' = IF chunks = <<>> THEN "failed" ELSE "batch"
  /\ vectors' = [k \in 1 .. Total |-> 0]
  /\ UNCHANGED <<file, start, pages, chunking, gathered, batches, sent, attempt>>

FullOver(k) ==                          \* mutant: > for >=
  \/ gathered - Opened > MaxTexts
  \/ BatchTokens(Opened, gathered) + Tokens(k) > MaxTokens

(* batch_by_token_budget: a text closes the batch before it, or joins it.  *)
Full(k) ==
  \/ gathered - Opened >= MaxTexts
  \/ BatchTokens(Opened, gathered) + Tokens(k) > MaxTokens

Gather ==
  /\ stage = "batch"
  /\ gathered < Total
  /\ batches' = IF gathered > Opened /\ Full(gathered + 1)
                THEN Append(batches, [from |-> Opened, to |-> gathered]) ELSE batches
  /\ gathered' = gathered + 1
  /\ UNCHANGED <<parsing, chunking, sent, attempt, vectors>>

CloseLast ==
  /\ stage = "batch"
  /\ gathered = Total
  /\ batches' = Append(batches, [from |-> Opened, to |-> gathered])
  /\ stage' = "embed"
  /\ UNCHANGED <<file, start, pages, chunking, gathered, sent, attempt, vectors>>

Sending == stage = "embed" /\ sent < Len(batches)
Current == batches[sent + 1]

PlacedFromZero(k) ==                    \* mutant: start_index is forgotten
  IF k <= Current.to - Current.from THEN Current.from + k ELSE vectors[k]

(* vectors[batch.start_index + offset] = vector                            *)
Placed(k) == IF k \in Current.from + 1 .. Current.to THEN k ELSE vectors[k]

BatchEmbedded ==
  /\ Sending
  /\ vectors' = [k \in 1 .. Total |-> Placed(k)]
  /\ sent' = sent + 1 /\ attempt' = 0
  /\ UNCHANGED <<parsing, chunking, gathered, batches>>

(* A timeout, a transport error, a 429 or a 5xx: backed off and sent again,*)
(* or the last attempt.                                                    *)
AttemptFailed ==
  /\ Sending
  /\ attempt' = attempt + 1
  /\ stage' = IF attempt + 1 = MaxRetries THEN "failed" ELSE stage
  /\ UNCHANGED <<file, start, pages, chunking, gathered, batches, sent, vectors>>

(* Any other 4xx is not retried.                                           *)
BatchRejected ==
  /\ Sending
  /\ stage' = "failed"
  /\ UNCHANGED <<file, start, pages, chunking, embedding>>

Upsert ==
  /\ stage = "embed" /\ sent = Len(batches)
  /\ stage' = "indexed"
  /\ UNCHANGED <<file, start, pages, chunking, embedding>>

Done == stage \in {"indexed", "failed"} /\ UNCHANGED vars

ParseStep == (RefuseFile \/ Paginate \/ Parsed) /\ UNCHANGED <<chunking, embedding>>
CutStep == ChunkStep /\ UNCHANGED <<parsing, embedding>>
EmbedStep ==
  \/ Chunked \/ Gather \/ CloseLast
  \/ BatchEmbedded \/ AttemptFailed \/ BatchRejected \/ Upsert

Next == ParseStep \/ CutStep \/ EmbedStep \/ Done

Spec == Init /\ [][Next]_vars

-----------------------------------------------------------------------------
(* Where page n of the canonical text ends, its separator included.        *)
PageEnd[n \in 0 .. Len(pages)] ==
  IF n = 0 THEN 0 ELSE PageEnd[n - 1] + Len(pages[n]) + Separator

(* char_start and char_end are offsets into the canonical text: every      *)
(* chunk lies inside the page it names and never takes in a separator, so  *)
(* a citation quotes the page it points at.                                *)
ChunksStayOnTheirPage ==
  \A c \in 1 .. Len(chunks) :
    LET p == chunks[c].page IN
    /\ p \in 1 .. Len(pages)
    /\ PageEnd[p - 1] <= chunks[c].start
    /\ chunks[c].end <= PageEnd[p - 1] + Len(pages[p])

(* Whatever the batches, when the rows are upserted the vector of each     *)
(* chunk is the embedding of that chunk's own text.                        *)
VectorsAreTheirOwn ==
  stage = "indexed" => \A k \in 1 .. Total : vectors[k] = k

(* No request is over either cap of the API: only a text that is over the  *)
(* token cap by itself travels alone.                                      *)
RequestsFit ==
  \A b \in 1 .. Len(batches) :
    LET from == batches[b].from
        to == batches[b].to
    IN  /\ to - from \in 1 .. MaxTexts
        /\ to - from = 1 \/ BatchTokens(from, to) <= MaxTokens
=============================================================================
