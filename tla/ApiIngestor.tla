------------------------------ MODULE ApiIngestor ------------------------------
(***************************************************************************)
(* ApiIngestorService (src/src/ingestion/api-ingestor.service.ts): what    *)
(* POST /ingest and POST /ingest/batch answer.  The service keeps no state *)
(* and passes its events on to nobody, so its two operations are functions *)
(* of the request.                                                         *)
(***************************************************************************)
EXTENDS Functions, FiniteSets, Sequences, Integers

CONSTANT MaxBatch   \* longest batch considered (100 in BatchIngestDto)

ASSUME BatchAssumption == MaxBatch \in Nat \ {0}

(* What tells messages apart.  The elements of a batch are not validated   *)
(* (BatchIngestDto has no ValidateNested), so one may lack its payload or  *)
(* be null.  "large" is a payload of more than 1 MB: Express refuses such  *)
(* a body before, so that it comes from other callers of the service only. *)
Messages == {"fits", "large", "bare", "null"}

(* ingest() rejects a payload that is too large; without a payload         *)
(* JSON.stringify() returns undefined, which has no length; and null has   *)
(* no field `source` to log.                                               *)
Ingested(m) == m = "fits"

(* The answer as it grows.  An event stands for the position of its message. *)
EmptyAnswer == [events |-> <<>>, successCount |-> 0, errorCount |-> 0]

(* ingestBatch() has thrown: the catch block itself reads message.source.  *)
NoAnswer == [events |-> <<>>, successCount |-> -1, errorCount |-> -1]

BatchStep_NotCounted(answer, m) ==
  IF Ingested(m)
  THEN [answer EXCEPT !.events = Append(@, answer.successCount + answer.errorCount + 1),
                      !.successCount = @ + 1]
  ELSE IF m = "null" \/ answer = NoAnswer THEN NoAnswer ELSE answer

(* One turn of the loop of ingestBatch().                                  *)
BatchStep(answer, m) ==
  CASE answer = NoAnswer \/ m = "null" -> NoAnswer
    [] answer # NoAnswer /\ Ingested(m) ->
         [answer EXCEPT !.events = Append(@, answer.successCount + answer.errorCount + 1),
                        !.successCount = @ + 1]
    [] OTHER -> [answer EXCEPT !.errorCount = @ + 1]

(* The loop: the answer after the first n messages.                        *)
IngestBatch(messages) ==
  LET answer[n \in 0..Len(messages)] ==
        IF n = 0 THEN EmptyAnswer ELSE BatchStep(answer[n - 1], messages[n])
  IN  answer[Len(messages)]

Batches == UNION {[1..n -> Messages] : n \in 1..MaxBatch}

IngestedOf(messages) == {i \in DOMAIN messages : Ingested(messages[i])}

(* events are the elements of S, in their order.                           *)
InOrderOf(events, S) ==
  /\ Range(events) = S
  /\ \A i, j \in DOMAIN events : i < j => events[i] < events[j]

(* A batch is answered for every message or not at all: its events are     *)
(* those of the messages that could be ingested, in their order, the rest  *)
(* is counted, and a single null takes the whole answer away, whatever was *)
(* ingested before it.                                                     *)
Accounted(messages, answer) ==
  IF "null" \in Range(messages)
  THEN answer = NoAnswer
  ELSE /\ InOrderOf(answer.events, IngestedOf(messages))
       /\ Len(answer.events) = answer.successCount
       /\ answer.successCount + answer.errorCount = Len(messages)

EveryBatchAccounted == \A messages \in Batches : Accounted(messages, IngestBatch(messages))
=============================================================================
