------------------------------ MODULE Capture ------------------------------
(***************************************************************************)
(* The captured traffic that loader replays and timeseries_analyzer counts *)
(* (pkg/parser, pkg/utils/decode, pkg/timeseries): a file of HTTP requests *)
(* as tcpflow wrote them, which may end in the middle of one.              *)
(*                                                                         *)
(* The file is a sequence of tokens: words, the ends of lines, and the two *)
(* pieces of a body.  A parsed request is the positions of its body.       *)
(***************************************************************************)
EXTENDS Integers, Sequences, SequencesExt, FiniteSets

CONSTANTS Traffics   \* sequences of [kind, series], see Tokens

BodySize == 2

IsList(s) == s \in Seq(ToSet(s))

\* The labels of a series are a sequence of <<name, value>>, a value is a sequence
\* of tokens.
ASSUME CaptureAssumption ==
    \A t \in Traffics :
        /\ IsList(t)
        /\ \A r \in DOMAIN t : \A labels \in t[r].series :
              /\ IsList(labels)
              /\ \A i \in DOMAIN labels : /\ labels[i] = <<labels[i][1], labels[i][2]>>
                                         /\ IsList(labels[i][2])

VARIABLES traffic,   \* the requests that were captured
          file,      \* its tokens, cut off somewhere
          passed,    \* tokens the reader has passed
          requests,  \* what ParseHTTPRequests returns
          capturePc, \* "parsing", "decoding", "counting", "done" or "failed"
          decoded,   \* requests decoded and counted
          counting,  \* series of the decoded request that are not counted yet
          counter    \* timeseries.Counter: the series, at most one of each String

captureVars == <<traffic, file, passed, requests, capturePc, decoded, counting, counter>>
-----------------------------------------------------------------------------
(* The file.                                                               *)

\* A remote write has a length; without one (the body is chunked, or the header is
\* in lower case) the body, BodySize pieces, is there all the same; a GET has none.
Tokens(one) ==
    CASE one.kind = "write" -> <<"word", "word", "word", "end", "Content-Length:", "digits", "end",
                                 "end", "body", "body">>
      [] one.kind = "get" -> <<"word", "word", "word", "end", "word", "end", "end">>
      [] OTHER -> <<"word", "word", "word", "end", "word", "end", "end", "body", "body">>

Before(r) == Len(FlattenSeq([i \in 1..r |-> Tokens(traffic[i])]))
cut == Len(file)

CaptureInit == /\ traffic \in Traffics
               /\ LET all == FlattenSeq([i \in DOMAIN traffic |-> Tokens(traffic[i])])
                  IN  \E length \in 0..Len(all) : file = SubSeq(all, 1, length)
               /\ passed = 0 /\ decoded = 0
               /\ requests = <<>>
               /\ capturePc = "parsing"
               /\ counting = {} /\ counter = {}
-----------------------------------------------------------------------------
(* parseHTTPRequest.  The bytes of a body that is read as a line may look  *)
(* like any number of words.                                               *)

\* The end of the line that begins after token i; at the end of the file it may
\* have none.
LineEnd(i) == Min({cut} \cup {j \in i + 1..cut : file[j] = "end"})
Words(i) == {j \in i + 1..LineEnd(i) : file[j] # "end"}
Odd(i) == \E j \in Words(i) : file[j] = "body"

\* The empty line after the headers, or cut if the file ends before.
Blank(i) == Min({cut + 1} \cup {j \in i + 1..cut : file[j] = "end" /\ file[j - 1] = "end"})
Headers(i) == LineEnd(i) + 1..Blank(i) - 1
Length(i) == IF \E j \in Headers(i) : file[j] = "digits" THEN BodySize ELSE 0

\* Of the request line, or of what is read as one, three words are needed; the end
\* of the file may have cut them off, or the digits of the length.
Worded == Cardinality(Words(passed)) >= 3 \/ Odd(passed)
NoDigits == cut \in Headers(passed) /\ file[cut] = "Content-Length:"
Unparsable == passed < cut /\ (Cardinality(Words(passed)) < 3 \/ Odd(passed) \/ NoDigits)

\* ReadLine or ReadFull came to the end of the file.
Ended == passed = cut \/ (Worded /\ ~NoDigits /\ Blank(passed) + Length(passed) > cut)

ReadRequest == /\ capturePc = "parsing" /\ passed < cut /\ Worded
               /\ Blank(passed) + Length(passed) <= cut
               /\ requests' = Append(requests, Blank(passed) + 1..Blank(passed) + Length(passed))
               /\ passed' = Blank(passed) + Length(passed)
               /\ UNCHANGED <<traffic, file, capturePc, decoded, counting, counter>>

ReadEnds == /\ capturePc = "parsing" /\ Ended
            /\ capturePc' = "decoding"
            /\ UNCHANGED <<traffic, file, passed, requests, decoded, counting, counter>>

ReadRequestFails == /\ capturePc = "parsing" /\ Unparsable
                    /\ capturePc' = "failed"
                    /\ UNCHANGED <<traffic, file, passed, requests, decoded, counting, counter>>
-----------------------------------------------------------------------------
(* decode.Body, CountTableName and CountAllTimeSeries.                     *)

BodyOf(r) == Before(r) - BodySize + 1..Before(r)
IsBody(positions, r) == traffic[r].kind # "get" /\ positions = BodyOf(r)

\* The token "comma" is a comma and a space.
Separator(i) == IF i = 1 THEN <<>> ELSE <<"comma">>

\* Mutant: the names of the labels are left out.
ValuesOnly(labels) == FlattenSeq([i \in DOMAIN labels |-> Separator(i) \o labels[i][2]])

String(labels) == FlattenSeq([i \in DOMAIN labels |-> Separator(i) \o (<<labels[i][1], "=">> \o labels[i][2])])

NextBody == requests[decoded + 1]
Readable(r) == IsBody(NextBody, r) /\ <<>> \notin traffic[r].series

\* One request after the other.
DecodeBody ==
    /\ capturePc = "decoding" /\ decoded < Len(requests)
    /\ \E r \in DOMAIN traffic : Readable(r) /\ counting' = traffic[r].series
    /\ capturePc' = "counting"
    /\ UNCHANGED <<traffic, file, passed, requests, decoded, counter>>

\* Of series with one String the first is kept.
CountSeries ==
    /\ capturePc = "counting"
    /\ \E labels \in counting :
          /\ counting' = counting \ {labels}
          /\ counter' = IF \E s \in counter : String(s) = String(labels)
                        THEN counter ELSE counter \cup {labels}
    /\ UNCHANGED <<traffic, file, passed, requests, capturePc, decoded>>

RequestCounted ==
    /\ capturePc = "counting" /\ counting = {}
    /\ capturePc' = "decoding"
    /\ decoded' = decoded + 1
    /\ UNCHANGED <<traffic, file, passed, requests, counting, counter>>

\* No body decodes from nothing; a series without labels has no metric name, and
\* CountTableName panics.
CountFails == /\ capturePc = "decoding" /\ decoded < Len(requests)
              /\ \A r \in DOMAIN traffic : ~Readable(r)
              /\ capturePc' = "failed"
              /\ UNCHANGED <<traffic, file, passed, requests, decoded, counting, counter>>

CountEnds == /\ capturePc = "decoding" /\ decoded = Len(requests)
             /\ capturePc' = "done"
             /\ UNCHANGED <<traffic, file, passed, requests, decoded, counting, counter>>

CaptureNext == \/ ReadRequest \/ ReadEnds \/ ReadRequestFails
               \/ DecodeBody \/ CountSeries \/ RequestCounted \/ CountFails \/ CountEnds

CaptureSpec == CaptureInit /\ [][CaptureNext]_captureVars
-----------------------------------------------------------------------------
Whole == {r \in DOMAIN traffic : Before(r) <= cut}
SeriesIn(rs) == UNION {traffic[r].series : r \in rs}

\* A command that goes on has exactly the series of the requests that are whole in
\* the file, each once, and tells series apart unless a value contains what String
\* puts between labels.  It fails only on a request that is no remote write, a
\* series without labels, or a file cut inside a request line or before the digits
\* of a length.
CapturedWhole ==
    /\ capturePc = "done" =>
          /\ counter \subseteq SeriesIn(Whole)
          /\ \A s \in SeriesIn(Whole) :
                Cardinality({c \in counter : String(c) = String(s)}) = 1
          /\ (\A s \in SeriesIn(Whole) : \A i \in DOMAIN s : "comma" \notin ToSet(s[i][2]))
                => counter = SeriesIn(Whole)
    /\ capturePc = "failed" =>
          \/ \E r \in DOMAIN traffic : Before(r - 1) < cut /\ traffic[r].kind # "write"
          \/ <<>> \in SeriesIn(Whole)
          \/ cut - Before(Cardinality(Whole)) \in {1, 2, 5}
=============================================================================
