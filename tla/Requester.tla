----------------------------- MODULE Requester -----------------------------
(***************************************************************************)
(* One request of pkg/http: the body made of a batch of time series, the   *)
(* POST, and what the caller is told of the answer, for the three          *)
(* protocols.  OTLP groups the series by metric name, and its answer is a  *)
(* protobuf message whose first field may report rejected data points; the *)
(* answer of remote write 2.0 counts the samples written.                  *)
(*                                                                         *)
(* A label set is its metric name, a sample its timestamp.                 *)
(***************************************************************************)
EXTENDS Integers, Sequences, SequencesExt, FiniteSetsExt

CONSTANTS Protocols,     \* of "prometheus", "otlp" and "v2"
          Batches,       \* sequences of series [name, samples]
          MaxTimestamp,  \* in milliseconds: what uint64 nanoseconds can hold
          None           \* no __name__ label, no header

IsSequence(s) == s \in Seq(ToSet(s))

ASSUME RequesterAssumption ==
    /\ Protocols \subseteq {"prometheus", "otlp", "v2"}
    /\ \A b \in Batches : IsSequence(b) /\ \A i \in DOMAIN b : IsSequence(b[i].samples)
    /\ MaxTimestamp \in Nat
    /\ None \notin Nat /\ None \notin [kind : {"ok"}, rejected : Nat]

VARIABLES
    protocol, writeRequest,
    encoding, \* the series being encoded
    metrics,  \* the metrics of the OTLP body: sequence of [name, points]
    requestPc, \* "marshal", "post", "sent", "answered" or "returned"
    stored,   \* data points the server has taken of this request
    response, \* [status, fields, written]
    outcome   \* what Send returns: [kind, rejected]

request == <<protocol, writeRequest>>
requesterVars == <<request, encoding, metrics, requestPc, stored, response, outcome>>

Ok == [kind |-> "ok", rejected |-> 0]
Error == [kind |-> "error", rejected |-> 0]
PartialSuccess(n) == [kind |-> "partial", rejected |-> n]

RequesterInit == /\ protocol \in Protocols
                 /\ writeRequest \in Batches
                 /\ encoding = 1
                 /\ metrics = <<>>
                 /\ requestPc = IF protocol = "otlp" THEN "marshal" ELSE "post"
                 /\ stored = 0
                 /\ response = None
                 /\ outcome = None

Return(result) == requestPc' = "returned" /\ outcome' = result

Encodable(series) == /\ series.name # None
                     /\ \A i \in DOMAIN series.samples : series.samples[i] \in 0..MaxTimestamp

\* The metric of that name, a new one at the end if there is none.
Put(series) ==
    LET found == SelectInSeq(metrics, LAMBDA m : m.name = series.name)
    IN  IF found # 0 THEN [metrics EXCEPT ![found].points = @ \o series.samples]
        ELSE Append(metrics, [name |-> series.name, points |-> series.samples])

Marshal == /\ requestPc = "marshal"
           /\ encoding <= Len(writeRequest)
           /\ Encodable(writeRequest[encoding])
           /\ metrics' = Put(writeRequest[encoding])
           /\ encoding' = encoding + 1
           /\ UNCHANGED <<request, requestPc, stored, response, outcome>>

\* A series without a name or with a timestamp OTLP has no place for: nothing is
\* sent of the whole batch.
MarshalFails == /\ requestPc = "marshal"
                /\ encoding <= Len(writeRequest)
                /\ ~Encodable(writeRequest[encoding])
                /\ Return(Error)
                /\ UNCHANGED <<request, encoding, metrics, stored, response>>

Marshalled == /\ requestPc = "marshal"
              /\ encoding > Len(writeRequest)
              /\ requestPc' = "post"
              /\ UNCHANGED <<request, encoding, metrics, stored, response, outcome>>

TotalPoints == SumFunctionOnSet([i \in DOMAIN writeRequest |-> Len(writeRequest[i].samples)],
                                DOMAIN writeRequest)

\* The POST leaves, or no connection can be made.
PostRequest == /\ requestPc = "post"
               /\ requestPc' = "sent"
               /\ UNCHANGED <<request, encoding, metrics, stored, response, outcome>>

\* No connection; or the answer, which may have been on its way, is lost or cut.
TransportFails == /\ requestPc \in {"post", "sent", "answered"}
                  /\ Return(Error)
                  /\ UNCHANGED <<request, encoding, metrics, stored, response>>
-----------------------------------------------------------------------------
(* The server.  It takes some of the points and says so the way its        *)
(* protocol has it.                                                        *)

\* A protobuf field: its number, whether its wire type is the one the message has
\* for that number, whether it can be parsed, and its value.
Field(n, value) == [number |-> n, typed |-> TRUE, valid |-> TRUE, value |-> value]
Unknown == [number |-> 1, typed |-> FALSE, valid |-> TRUE, value |-> None]
Garbage == [number |-> 1, typed |-> TRUE, valid |-> FALSE, value |-> None]

\* The content of a message field: nothing depends on it.
Message == 0

\* With fields of other kinds before, after or between.
Encodings(fields) == {fields} \cup {InsertAt(fields, i, f) : i \in 1..(Len(fields) + 1),
                                                             f \in {Unknown, Garbage}}

\* ExportMetricsPartialSuccess: 1 is the count, 2 the message, in any order; a
\* count of 0 need not be written.
PartialSuccesses(rejected) ==
    UNION {Encodings(f) : f \in
        {<<Field(1, rejected)>>, <<Field(1, rejected), Field(2, Message)>>,
         <<Field(2, Message), Field(1, rejected)>>}
        \cup (IF rejected = 0 THEN {<<>>, <<Field(2, Message)>>} ELSE {})}

\* ExportMetricsServiceResponse: 1 is the partial success.
Bodies(rejected) ==
    (UNION {Encodings(<<Field(1, p)>>) : p \in PartialSuccesses(rejected)})
    \cup (IF rejected = 0 THEN Encodings(<<>>) ELSE {})

Answer == /\ requestPc = "sent"
          /\ requestPc' = "answered"
          /\ \/ /\ stored' = 0
                /\ response' = [status |-> "failure", fields |-> <<>>, written |-> None]
             \/ /\ protocol = "prometheus"
                /\ stored' = TotalPoints
                /\ response' = [status |-> "success", fields |-> <<>>, written |-> None]
             \/ /\ protocol = "v2"
                /\ stored' \in 0..TotalPoints
                /\ \E w \in {stored', None} :
                      response' = [status |-> "success", fields |-> <<>>, written |-> w]
             \/ /\ protocol = "otlp"
                /\ stored' \in 0..TotalPoints
                /\ \E f \in Bodies(TotalPoints - stored') :
                      response' = [status |-> "success", fields |-> f, written |-> None]
          /\ UNCHANGED <<request, encoding, metrics, outcome>>
-----------------------------------------------------------------------------
(* checkOTLPResponse.                                                      *)

\* protobufField: the first field of that number and type; a field that cannot be
\* parsed ends the search.  It may find none.
NoField == [number |-> 0, typed |-> FALSE, valid |-> TRUE, value |-> None]
Find(fields, n) ==
    LET found == SelectInSeq(fields, LAMBDA f : ~f.valid \/ (f.number = n /\ f.typed))
    IN  IF found = 0 THEN NoField ELSE fields[found]

Broken(field) == ~field.valid

Check(fields) ==
    LET partial == Find(fields, 1)
    IN  IF Broken(partial) THEN Error
        ELSE IF partial = NoField THEN Ok
        ELSE LET rejected == Find(partial.value, 1)
                 message == Find(partial.value, 2)
             IN  IF Broken(rejected) \/ Broken(message) THEN Error
                 ELSE IF rejected # NoField /\ rejected.value > 0
                      THEN PartialSuccess(rejected.value)
                      ELSE Ok

\* Mutant: a v2 answer without the header is a success.
ResultUncounted ==
    IF response.status = "failure" THEN Error
    ELSE IF protocol = "otlp" THEN Check(response.fields)
    ELSE IF protocol = "v2" /\ response.written \notin {None, TotalPoints} THEN Error
    ELSE Ok

Result ==
    IF response.status = "failure" THEN Error
    ELSE IF protocol = "otlp" THEN Check(response.fields)
    ELSE IF protocol = "v2" /\ response.written # TotalPoints THEN Error
    ELSE Ok

Receive == /\ requestPc = "answered"
           /\ Return(Result)
           /\ UNCHANGED <<request, encoding, metrics, stored, response>>

RequesterNext == \/ Marshal \/ MarshalFails \/ Marshalled
                 \/ PostRequest \/ TransportFails \/ Answer \/ Receive

RequesterSpec == RequesterInit /\ [][RequesterNext]_requesterVars
-----------------------------------------------------------------------------
Sent == requestPc \in {"post", "sent", "answered"}

\* The OTLP body has every sample of the batch once, under its metric, and a
\* metric's points in the order of the batch, however its series are spread over it.
BodyIsBatch ==
    /\ \A i \in DOMAIN writeRequest : Encodable(writeRequest[i])
    /\ \A i, j \in DOMAIN metrics : metrics[i].name = metrics[j].name => i = j
    /\ {metrics[i].name : i \in DOMAIN metrics} = {writeRequest[i].name : i \in DOMAIN writeRequest}
    /\ \A i \in DOMAIN metrics :
          metrics[i].points =
              FlattenSeq([j \in DOMAIN writeRequest |->
                            IF writeRequest[j].name = metrics[i].name THEN writeRequest[j].samples ELSE <<>>])

\* No part of a batch is lost unnoticed on its way: what is sent is the whole batch
\* or nothing; success is reported only if the server has taken every point of it,
\* and a partial success with the number it has not, whatever else its answer
\* holds, in whatever order.  What counts requests and rejected points downstream
\* relies on it.
DeliveredOrReported ==
    /\ protocol = "otlp" /\ Sent => BodyIsBatch
    /\ outcome = Ok => stored = TotalPoints
    /\ outcome # None /\ outcome.kind = "partial" => outcome.rejected = TotalPoints - stored
=============================================================================
