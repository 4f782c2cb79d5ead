------------------------ MODULE WaveStreamingProofs ------------------------
(***************************************************************************)
(* Machine-checked proofs about WaveStreaming, for every set of configs,   *)
(* every number of series, every MaxSamples and every number of workers:   *)
(* its invariants, from the inductive invariant IInv, and that it          *)
(* implements WaveContract.                                                *)
(***************************************************************************)
EXTENDS WaveStreaming, SequenceTheorems, FiniteSetTheorems, TLAPS

LEMMA SeriesFacts ==
    /\ \A c \in Configs, i \in Nat : i < SeriesCount[c] => <<c, i>> \in Series
    /\ \A s \in Series : \E c \in Configs : \E i \in 0..(SeriesCount[c] - 1) : s = <<c, i>>
BY StreamAssumption DEF Series

LEMMA InitType == Init => TypeOK
<1> SUFFICES ASSUME Init PROVE TypeOK
  OBVIOUS
<1>1. /\ <<>> \in Seq(Series)
      /\ <<>> \in Seq(Seq(Series))
  OBVIOUS
<1>2. /\ genChan \in [Configs -> Seq(Series)]
      /\ held \in [Configs -> Seq(Series)]
  BY <1>1 DEF Init
<1>3. /\ next \in [Configs -> Nat]
      /\ \A c \in Configs : next[c] <= SeriesCount[c]
      /\ genPc \in [Configs -> {"check", "send", "closed"}]
      /\ fwdPc \in [Configs -> {"recv", "send", "done"}]
  BY StreamAssumption DEF Init
<1>4. \A c \in Configs : genPc[c] # "send"
  BY DEF Init
<1>5. queued \in 0..Workers
  BY StreamAssumption DEF Init
<1> QED
  BY <1>1, <1>2, <1>3, <1>4, <1>5 DEF Init, TypeOK

LEMMA GeneratorType ==
    ASSUME TypeOK, NEW c \in Configs, Generator(c)
    PROVE  TypeOK'
<1> USE StreamAssumption DEF TypeOK, fwdVars, mainVars
<1>1. CASE GenBuild(c)
  BY <1>1 DEF GenBuild
<1>2. CASE GenStop(c)
  BY <1>2 DEF GenStop
<1>3. CASE GenSend(c)
  <2>1. <<c, next[c]>> \in Series
    BY <1>3, SeriesFacts DEF GenSend
  <2>2. genChan' \in [Configs -> Seq(Series)]
    BY <1>3, <2>1 DEF GenSend
  <2> QED
    BY <1>3, <2>2 DEF GenSend
<1>4. CASE GenCancel(c)
  BY <1>4 DEF GenCancel
<1> QED
  BY <1>1, <1>2, <1>3, <1>4 DEF Generator

LEMMA ForwarderType ==
    ASSUME TypeOK, NEW c \in Configs, Forwarder(c)
    PROVE  TypeOK'
<1> USE StreamAssumption DEF TypeOK, genVars, mainVars
<1>1. CASE FwdReceive(c)
  <2>1. /\ genChan[c] \in Seq(Series) /\ genChan[c] # <<>>
        /\ Head(genChan[c]) \in Series /\ Tail(genChan[c]) \in Seq(Series)
    BY <1>1, HeadTailProperties DEF FwdReceive
  <2>2. <<Head(genChan[c])>> \in Seq(Series)
    BY <2>1
  <2> QED
    BY <1>1, <2>1, <2>2 DEF FwdReceive
<1>2. CASE FwdEnd(c)
  BY <1>2 DEF FwdEnd
<1>3. CASE FwdSend(c)
  <2>1. merged' \in Seq(Series)
    BY <1>3, ConcatProperties DEF FwdSend
  <2>2. <<>> \in Seq(Series)
    OBVIOUS
  <2> QED
    BY <1>3, <2>1, <2>2 DEF FwdSend
<1>4. CASE FwdCancel(c)
  <2>1. <<>> \in Seq(Series)
    OBVIOUS
  <2> QED
    BY <1>4, <2>1 DEF FwdCancel
<1> QED
  BY <1>1, <1>2, <1>3, <1>4 DEF Forwarder

LEMMA CallerType ==
    ASSUME TypeOK, Caller
    PROVE  TypeOK'
<1> USE StreamAssumption DEF TypeOK, genVars, fwdVars, mainVars, Return
<1>0. <<>> \in Seq(Series)
  OBVIOUS
<1>1. CASE Receive
  <2>1. Head(merged) \in Series /\ Tail(merged) \in Seq(Series)
    BY <1>1, HeadTailProperties DEF Receive
  <2>2. <<Head(merged)>> \in Seq(Series)
    BY <2>1
  <2> QED
    BY <1>1, <2>1, <2>2 DEF Receive
<1>2. CASE Discard
  BY <1>0, <1>2 DEF Discard
<1>3. CASE Collect
  <2>1. batch' \in Seq(Series)
    BY <1>3, ConcatProperties DEF Collect
  <2> QED
    BY <1>0, <1>3, <2>1 DEF Collect
<1>4. CASE EnqueueFull
  BY <1>0, <1>4 DEF EnqueueFull, SendBatch
<1>5. CASE AbandonFull
  BY <1>5 DEF AbandonFull, GiveUp
<1>6. CASE Drain
  <2>1. Tail(merged) \in Seq(Series)
    BY <1>6, HeadTailProperties DEF Drain
  <2> QED
    BY <1>6, <2>1 DEF Drain
<1>7. CASE DrainEnd
  BY <1>7 DEF DrainEnd
<1>8. CASE RangeEnd
  BY <1>8 DEF RangeEnd
<1>9. CASE FinalCheck
  BY <1>9 DEF FinalCheck
<1>10. CASE Flush
  BY <1>0, <1>10 DEF Flush, SendBatch
<1>11. CASE AbandonFlush
  BY <1>11 DEF AbandonFlush, GiveUp
<1> QED
  BY <1>1, <1>2, <1>3, <1>4, <1>5, <1>6, <1>7, <1>8, <1>9, <1>10, <1>11 DEF Caller

LEMMA NextType == TypeOK /\ [Next]_vars => TypeOK'
<1> SUFFICES ASSUME TypeOK, [Next]_vars PROVE TypeOK'
  OBVIOUS
<1>1. CASE \E c \in Configs : Generator(c) \/ Forwarder(c)
  BY <1>1, GeneratorType, ForwarderType
<1>2. CASE CloseMerged
  BY <1>2 DEF CloseMerged, TypeOK, genVars, fwdVars, mainVars
<1>3. CASE Caller
  BY <1>3, CallerType
<1>4. CASE WorkerTakes
  BY <1>4, StreamAssumption DEF WorkerTakes, TypeOK, genVars, fwdVars
<1>5. CASE Deadline
  BY <1>5 DEF Deadline, TypeOK, genVars, fwdVars, mainVars
<1>6. CASE UNCHANGED vars
  BY <1>6 DEF TypeOK, vars
<1> QED
  BY <1>1, <1>2, <1>3, <1>4, <1>5, <1>6 DEF Next

\* Every variable keeps its type, and no generator runs past its last series
\* (GeneratePermutedTimeSeriesContext and the channels of one wave).
THEOREM TypeCorrect == Spec => []TypeOK
BY InitType, NextType, PTL DEF Spec
----------------------------------------------------------------------------
(* Control: the counters, sizes and endings of the goroutines.              *)

LEMMA InitControl == Init => Control
<1> SUFFICES ASSUME Init PROVE Control
  OBVIOUS
<1> QED
  BY StreamAssumption DEF Init, Control, Shape, Endings, CommittedDone, Committed,
     RequestSizes, FullRequests, LateOnce, FalseOnlyExpired, AtMostOneLate

LEMMA GeneratorControl ==
    ASSUME TypeOK, Control, NEW c \in Configs, Generator(c)
    PROVE  Control'
<1> USE StreamAssumption DEF TypeOK, Control, Shape, Endings, CommittedDone, Committed,
        RequestSizes, FullRequests, LateOnce, FalseOnlyExpired, AtMostOneLate,
        fwdVars, mainVars
<1>1. CASE GenBuild(c)
  BY <1>1 DEF GenBuild
<1>2. CASE GenStop(c)
  BY <1>2 DEF GenStop
<1>3. CASE GenSend(c)
  BY <1>3 DEF GenSend
<1>4. CASE GenCancel(c)
  BY <1>4 DEF GenCancel
<1> QED
  BY <1>1, <1>2, <1>3, <1>4 DEF Generator

LEMMA ForwarderControl ==
    ASSUME TypeOK, Control, NEW c \in Configs, Forwarder(c)
    PROVE  Control'
<1> USE StreamAssumption DEF TypeOK, Control, Shape, Endings, CommittedDone, Committed,
        RequestSizes, FullRequests, LateOnce, FalseOnlyExpired, AtMostOneLate,
        genVars, mainVars
<1>1. CASE FwdReceive(c)
  BY <1>1 DEF FwdReceive
<1>2. CASE FwdEnd(c)
  BY <1>2 DEF FwdEnd
<1>3. CASE FwdSend(c)
  BY <1>3 DEF FwdSend
<1>4. CASE FwdCancel(c)
  BY <1>4 DEF FwdCancel
<1> QED
  BY <1>1, <1>2, <1>3, <1>4 DEF Forwarder

LEMMA CallerControl ==
    ASSUME TypeOK, Control, Caller
    PROVE  Control'
<1> USE StreamAssumption DEF TypeOK, Control, Shape, Endings, CommittedDone, Committed,
        RequestSizes, FullRequests, LateOnce, FalseOnlyExpired, AtMostOneLate,
        genVars, fwdVars, mainVars, Return
<1>1. CASE Receive
  BY <1>1 DEF Receive
<1>2. CASE Discard
  BY <1>2 DEF Discard
<1>3. CASE Collect
  BY <1>3 DEF Collect
<1>4. CASE EnqueueFull
  BY <1>4 DEF EnqueueFull, SendBatch
<1>5. CASE AbandonFull
  BY <1>5 DEF AbandonFull, GiveUp
<1>6. CASE Drain
  BY <1>6 DEF Drain
<1>7. CASE DrainEnd
  BY <1>7 DEF DrainEnd
<1>8. CASE RangeEnd
  BY <1>8 DEF RangeEnd
<1>9. CASE FinalCheck
  BY <1>9 DEF FinalCheck
<1>10. CASE Flush
  BY <1>10 DEF Flush, SendBatch
<1>11. CASE AbandonFlush
  BY <1>11 DEF AbandonFlush, GiveUp
<1> QED
  BY <1>1, <1>2, <1>3, <1>4, <1>5, <1>6, <1>7, <1>8, <1>9, <1>10, <1>11 DEF Caller
----------------------------------------------------------------------------
(* Elements of sequences.                                                   *)

LEMMA RangeElement ==
    ASSUME NEW S, NEW q \in Seq(S), NEW s
    PROVE  s \in Range(q) <=> \E j \in 1..Len(q) : s = q[j]
BY LenProperties DEF Range

LEMMA EmptyLength ==
    ASSUME NEW S, NEW q \in Seq(S)
    PROVE  Len(q) \in Nat /\ (Len(q) = 0 <=> q = <<>>)
BY LenProperties, EmptySeq

LEMMA OneElement ==
    ASSUME NEW S, NEW q \in Seq(S), Len(q) = 1
    PROVE  Head(q) = q[1] /\ Tail(q) = <<>> /\ Range(q) = {q[1]} /\ q # <<>>
<1>1. q # <<>> /\ Tail(q) \in Seq(S) /\ Len(Tail(q)) = 0
  BY EmptyLength, HeadTailProperties
<1>2. Tail(q) = <<>>
  BY <1>1, EmptyLength
<1>3. Range(q) = {q[1]}
  BY RangeElement
<1> QED
  BY <1>1, <1>2, <1>3

LEMMA OnlyOne == \A n \in Nat : n # 0 /\ n <= 1 => n = 1
OBVIOUS

LEMMA RangeSubset ==
    ASSUME NEW S, NEW q \in Seq(S)
    PROVE  Range(q) \subseteq S
BY RangeElement, ElementOfSeq

LEMMA RangeSmall ==
    ASSUME NEW e
    PROVE  Range(<<>>) = {} /\ Range(<<e>>) = {e}
BY DEF Range

LEMMA RangeConcat ==
    ASSUME NEW S, NEW p \in Seq(S), NEW q \in Seq(S)
    PROVE  Range(p \o q) = Range(p) \cup Range(q)
<1>1. p \o q \in Seq(S)
  BY ConcatProperties
<1>2. ASSUME NEW s \in Range(p \o q) PROVE s \in Range(p) \cup Range(q)
  <2>1. PICK j \in 1..Len(p \o q) : s = (p \o q)[j]
    BY <1>1, <1>2, RangeElement
  <2>2. CASE j <= Len(p)
    BY <2>1, <2>2, ConcatProperties, LenProperties DEF Range
  <2>3. CASE j > Len(p)
    BY <2>1, <2>3, ConcatProperties, LenProperties DEF Range
  <2> QED
    BY <2>1, <2>2, <2>3, LenProperties
<1>3. ASSUME NEW s \in Range(p) PROVE s \in Range(p \o q)
  <2>1. PICK j \in 1..Len(p) : s = p[j]
    BY <1>3, RangeElement
  <2>2. j \in 1..Len(p \o q) /\ (p \o q)[j] = s
    BY <2>1, ConcatProperties, LenProperties
  <2> QED
    BY <1>1, <2>2, RangeElement
<1>4. ASSUME NEW s \in Range(q) PROVE s \in Range(p \o q)
  <2>1. PICK j \in 1..Len(q) : s = q[j]
    BY <1>4, RangeElement
  <2>2. Len(p) + j \in 1..Len(p \o q) /\ (p \o q)[Len(p) + j] = s
    BY <2>1, ConcatProperties, LenProperties
  <2> QED
    BY <1>1, <2>2, RangeElement
<1> QED
  BY <1>2, <1>3, <1>4

LEMMA RangeAppend ==
    ASSUME NEW S, NEW q \in Seq(S), NEW e \in S
    PROVE  Range(Append(q, e)) = Range(q) \cup {e}
<1>1. Append(q, e) = q \o <<e>> /\ <<e>> \in Seq(S)
  OBVIOUS
<1>2. Range(q \o <<e>>) = Range(q) \cup Range(<<e>>)
  BY <1>1, RangeConcat
<1> QED
  BY <1>1, <1>2, RangeSmall

LEMMA RangeHeadTail ==
    ASSUME NEW S, NEW q \in Seq(S), q # <<>>
    PROVE  Range(q) = {Head(q)} \cup Range(Tail(q))
<1>1. q = <<Head(q)>> \o Tail(q) /\ Head(q) \in S /\ Tail(q) \in Seq(S)
  BY HeadTailProperties
<1>2. <<Head(q)>> \in Seq(S)
  BY <1>1
<1>3. Range(<<Head(q)>> \o Tail(q)) = Range(<<Head(q)>>) \cup Range(Tail(q))
  BY <1>1, <1>2, RangeConcat, ZenonT(30)
<1> QED
  BY <1>1, <1>3, RangeSmall
----------------------------------------------------------------------------
(* Nothing is discarded.                                                    *)

LEMMA InUpstream ==
    \A s : s \in Upstream <=> \E c \in Configs : s \in Range(genChan[c]) \/ s \in Range(held[c])
BY DEF Upstream

LEMMA InUpstreamNext ==
    \A s : s \in Upstream' <=> \E c \in Configs : s \in Range(genChan'[c]) \/ s \in Range(held'[c])
BY DEF Upstream

LEMMA SentAppend ==
    ASSUME TypeOK, NEW b \in Seq(Series), enqueued' = Append(enqueued, b)
    PROVE  Sent' = Sent \cup Range(b)
<1>1. Range(enqueued') = Range(enqueued) \cup {b}
  BY RangeAppend DEF TypeOK
<1> QED
  BY <1>1 DEF Sent, Batches
\* A step that keeps what is downstream and reopens nothing.
LEMMA Kept ==
    ASSUME NothingDiscarded, Downstream \subseteq Downstream', next' = next,
           ~expired' \/ Committed' => ~expired \/ Committed
    PROVE  NothingDiscarded'
BY DEF NothingDiscarded

LEMMA GeneratorDiscards ==
    ASSUME TypeOK, Control, NothingDiscarded, NEW c \in Configs, Generator(c)
    PROVE  NothingDiscarded'
<1>1. ~expired' \/ Committed' => ~expired \/ Committed
  BY DEF Generator, GenBuild, GenStop, GenSend, GenCancel, Committed, mainVars
<1>2. CASE GenBuild(c) \/ GenStop(c) \/ GenCancel(c)
  <2>1. Downstream' = Downstream /\ next' = next
    BY <1>2 DEF GenBuild, GenStop, GenCancel, Downstream, Upstream, Sent, Batches, fwdVars, mainVars
  <2> QED
    BY <1>1, <2>1, Kept
<1>3. CASE GenSend(c)
  <2>1. /\ genChan[c] \in Seq(Series) /\ <<c, next[c]>> \in Series /\ next[c] \in Nat
        /\ genChan' = [genChan EXCEPT ![c] = Append(genChan[c], <<c, next[c]>>)]
        /\ next' = [next EXCEPT ![c] = next[c] + 1]
        /\ UNCHANGED <<held, merged, cur, batch, enqueued>>
    BY <1>3, SeriesFacts, StreamAssumption DEF GenSend, TypeOK, fwdVars, mainVars
  <2>2. Range(genChan'[c]) = Range(genChan[c]) \cup {<<c, next[c]>>}
    <3>1. genChan'[c] = Append(genChan[c], <<c, next[c]>>)
      BY <2>1 DEF TypeOK
    <3> QED
      BY <2>1, <3>1, RangeAppend
  <2>3. \A d \in Configs : d # c => genChan'[d] = genChan[d] /\ next'[d] = next[d]
    BY <2>1 DEF TypeOK
  <2>4. Sent' = Sent
    BY <2>1 DEF Sent, Batches
  <2>5. Upstream \subseteq Upstream' /\ <<c, next[c]>> \in Upstream'
    BY <2>1, <2>2, <2>3, InUpstream, InUpstreamNext
  <2>6. Downstream \subseteq Downstream' /\ <<c, next[c]>> \in Downstream'
    BY <2>1, <2>4, <2>5 DEF Downstream
  <2>7. ASSUME NEW d \in Configs, NEW i \in 0..(next'[d] - 1), ~expired \/ Committed
        PROVE  <<d, i>> \in Downstream'
    <3>1. CASE d = c /\ i = next[c]
      BY <3>1, <2>6
    <3>2. CASE ~(d = c /\ i = next[c])
      <4>1. i \in 0..(next[d] - 1)
        BY <3>2, <2>1, <2>3, <2>7 DEF TypeOK
      <4> QED
        BY <4>1, <2>6, <2>7 DEF NothingDiscarded
    <3> QED
      BY <3>1, <3>2
  <2> QED
    BY <1>1, <2>7 DEF NothingDiscarded
<1> QED
  BY <1>2, <1>3 DEF Generator

LEMMA ForwarderDiscards ==
    ASSUME TypeOK, Control, NothingDiscarded, NEW c \in Configs, Forwarder(c)
    PROVE  NothingDiscarded'
<1>1. /\ ~expired' \/ Committed' => ~expired \/ Committed
      /\ next' = next /\ UNCHANGED <<cur, batch, enqueued>>
      /\ Sent' = Sent
  BY DEF Forwarder, FwdReceive, FwdEnd, FwdSend, FwdCancel, Committed, mainVars, genVars,
         Sent, Batches
<1>2. CASE FwdReceive(c)
  <2>1. /\ genChan[c] \in Seq(Series) /\ genChan[c] # <<>>
        /\ genChan' = [genChan EXCEPT ![c] = Tail(genChan[c])]
        /\ held' = [held EXCEPT ![c] = <<Head(genChan[c])>>]
        /\ merged' = merged
    BY <1>2 DEF FwdReceive, TypeOK
  <2>2. Range(genChan[c]) = {Head(genChan[c])} \cup Range(Tail(genChan[c]))
    BY <2>1, RangeHeadTail
  <2>3. Range(held[c]) = {} /\ Range(held'[c]) = {Head(genChan[c])}
    BY <1>2, <2>1, RangeSmall, HeadTailProperties DEF FwdReceive, Control, Shape, TypeOK
  <2>4. \A d \in Configs : d # c => genChan'[d] = genChan[d] /\ held'[d] = held[d]
    BY <2>1 DEF TypeOK
  <2>5. Range(genChan'[c]) = Range(Tail(genChan[c]))
    BY <2>1 DEF TypeOK
  <2>6. Upstream \subseteq Upstream'
    BY <2>1, <2>2, <2>3, <2>4, <2>5, InUpstream, InUpstreamNext
  <2>7. Downstream \subseteq Downstream'
    BY <1>1, <2>1, <2>6 DEF Downstream
  <2> QED
    BY <1>1, <2>7, Kept
<1>3. CASE FwdEnd(c)
  BY <1>1, <1>3, Kept DEF FwdEnd, Downstream, Upstream
<1>4. CASE FwdSend(c)
  <2>1. /\ held[c] \in Seq(Series) /\ merged \in Seq(Series)
        /\ merged' = merged \o held[c]
        /\ \A d \in Configs : d # c => held'[d] = held[d]
        /\ genChan' = genChan
    BY <1>4 DEF FwdSend, TypeOK
  <2>2. Range(merged') = Range(merged) \cup Range(held[c])
    BY <2>1, RangeConcat
  <2>3. Upstream \subseteq Upstream' \cup Range(held[c])
    BY <2>1, InUpstream, InUpstreamNext
  <2>4. Downstream \subseteq Downstream'
    BY <1>1, <2>2, <2>3 DEF Downstream
  <2> QED
    BY <1>1, <2>4, Kept
<1>5. CASE FwdCancel(c)
  <2>1. expired /\ expired' /\ ~Committed'
    BY <1>5 DEF FwdCancel, Control, Endings, Committed, Shape, mainVars, TypeOK
  <2> QED
    BY <2>1 DEF NothingDiscarded
<1> QED
  BY <1>2, <1>3, <1>4, <1>5 DEF Forwarder

LEMMA CallerDiscards ==
    ASSUME TypeOK, Control, NothingDiscarded, Caller
    PROVE  NothingDiscarded'
<1>1. /\ next' = next /\ genChan' = genChan /\ held' = held /\ expired' = expired
      /\ merged \in Seq(Series) /\ cur \in Seq(Series) /\ batch \in Seq(Series)
  BY DEF Caller, Receive, Discard, Collect, EnqueueFull, SendBatch, AbandonFull, GiveUp,
         Drain, DrainEnd, RangeEnd, FinalCheck, Flush, AbandonFlush, Return,
         genVars, fwdVars, mainVars, TypeOK
<1>2. CASE Receive
  <2>1. Range(merged) = {Head(merged)} \cup Range(merged') /\ Range(cur') = {Head(merged)}
    BY <1>1, <1>2, RangeHeadTail, RangeSmall, HeadTailProperties DEF Receive
  <2>2. Range(cur) = {}
    BY <1>2, RangeSmall DEF Receive, Control, Shape, Range
  <2>3. Downstream \subseteq Downstream'
    BY <1>1, <1>2, <2>1, <2>2 DEF Receive, Downstream, Upstream, Sent, Batches
  <2> QED
    BY <1>1, <1>2, <2>3, Kept DEF Receive, Committed
<1>3. CASE Discard \/ Drain \/ AbandonFull \/ AbandonFlush \/ DrainEnd
  <2>1. expired' /\ ~Committed'
    BY <1>3 DEF Discard, Drain, AbandonFull, AbandonFlush, DrainEnd, GiveUp, Return,
                Control, Shape, Endings, Committed, mainVars, TypeOK
  <2> QED
    BY <2>1 DEF NothingDiscarded
<1>4. CASE Collect
  <2>1. Range(batch') = Range(batch) \cup Range(cur)
    BY <1>1, <1>4, RangeConcat DEF Collect
  <2>2. Downstream \subseteq Downstream'
    BY <1>1, <1>4, <2>1 DEF Collect, Downstream, Upstream, Sent, Batches
  <2> QED
    BY <1>1, <1>4, <2>2, Kept DEF Collect, Committed
<1>5. CASE EnqueueFull \/ Flush
  <2>1. enqueued' = Append(enqueued, batch) /\ cur' = cur /\ merged' = merged
    BY <1>5 DEF EnqueueFull, Flush, SendBatch
  <2>2. Downstream \subseteq Downstream'
    BY <1>1, <2>1, SentAppend DEF Downstream, Upstream
  <2> QED
    BY <1>1, <1>5, <2>2, Kept DEF EnqueueFull, Flush, SendBatch, Return, Committed
<1>6. CASE RangeEnd \/ FinalCheck
  <2>1. Downstream' = Downstream
    BY <1>1, <1>6 DEF RangeEnd, FinalCheck, Downstream, Upstream, Sent, Batches
  <2> QED
    BY <1>1, <1>6, <2>1, Kept DEF RangeEnd, FinalCheck, Return, Committed
<1> QED
  BY <1>2, <1>3, <1>4, <1>5, <1>6 DEF Caller
----------------------------------------------------------------------------
(* Order: the series of one config ascend along the pipeline.               *)

LEMMA SeriesShape == \A s \in Series : s[1] \in Configs /\ s[2] \in Int
BY SeriesFacts

LEMMA PlacesAreSeries ==
    ASSUME TypeOK
    PROVE  /\ Sent \subseteq Series
           /\ Range(batch) \subseteq Series
           /\ Range(cur) \subseteq Series
           /\ Range(merged) \subseteq Series
<1>1. \A b \in Range(enqueued) : b \in Seq(Series)
  BY RangeSubset DEF TypeOK
<1>2. \A b \in Range(enqueued) : Range(b) \subseteq Series
  BY <1>1, RangeSubset
<1>3. Sent \subseteq Series
  BY <1>2 DEF Sent, Batches
<1> QED
  BY <1>3, RangeSubset DEF TypeOK

LEMMA AscendingConcat ==
    ASSUME NEW p \in Seq(Series), NEW q \in Seq(Series),
           Ascending(p), Ascending(q), Ahead(Range(p), Range(q))
    PROVE  Ascending(p \o q)
<1> SUFFICES ASSUME NEW j \in DOMAIN (p \o q), NEW k \in DOMAIN (p \o q), j < k,
                    (p \o q)[j][1] = (p \o q)[k][1]
             PROVE  (p \o q)[j][2] < (p \o q)[k][2]
  BY DEF Ascending
<1>1. /\ Len(p) \in Nat /\ Len(q) \in Nat /\ j \in 1..(Len(p) + Len(q))
      /\ k \in 1..(Len(p) + Len(q))
      /\ DOMAIN p = 1..Len(p) /\ DOMAIN q = 1..Len(q)
  BY ConcatProperties, LenProperties
<1>2. \A i \in 1..(Len(p) + Len(q)) :
          (p \o q)[i] = IF i <= Len(p) THEN p[i] ELSE q[i - Len(p)]
  BY ConcatProperties
<1>3. CASE k <= Len(p)
  BY <1>1, <1>2, <1>3 DEF Ascending
<1>4. CASE j <= Len(p) /\ k > Len(p)
  <2>1. p[j] \in Range(p) /\ q[k - Len(p)] \in Range(q)
    BY <1>1, <1>4 DEF Range
  <2> QED
    BY <1>1, <1>2, <1>4, <2>1 DEF Ahead
<1>5. CASE j > Len(p)
  <2>1. j - Len(p) \in DOMAIN q /\ k - Len(p) \in DOMAIN q /\ j - Len(p) < k - Len(p)
    BY <1>1, <1>5
  <2> QED
    BY <1>1, <1>2, <1>5, <2>1, SMTT(30) DEF Ascending
<1> QED
  BY <1>1, <1>3, <1>4, <1>5

LEMMA AscendingTail ==
    ASSUME NEW q \in Seq(Series), q # <<>>, Ascending(q)
    PROVE  Ascending(Tail(q)) /\ Ahead({Head(q)}, Range(Tail(q)))
<1>1. /\ Tail(q) \in Seq(Series) /\ Len(Tail(q)) = Len(q) - 1 /\ Len(q) \in Nat \ {0}
      /\ DOMAIN Tail(q) = 1..Len(Tail(q)) /\ DOMAIN q = 1..Len(q)
      /\ \A i \in 1..Len(Tail(q)) : Tail(q)[i] = q[i + 1]
      /\ Head(q) = q[1]
  BY HeadTailProperties, LenProperties, EmptySeq
<1>2. Ascending(Tail(q))
  <2> SUFFICES ASSUME NEW j \in DOMAIN Tail(q), NEW k \in DOMAIN Tail(q), j < k,
                      Tail(q)[j][1] = Tail(q)[k][1]
               PROVE  Tail(q)[j][2] < Tail(q)[k][2]
    BY DEF Ascending
  <2>1. j + 1 \in DOMAIN q /\ k + 1 \in DOMAIN q /\ j + 1 < k + 1
    BY <1>1
  <2> QED
    BY <1>1, <2>1 DEF Ascending
<1>3. Ahead({Head(q)}, Range(Tail(q)))
  <2> SUFFICES ASSUME NEW t \in Range(Tail(q)), q[1][1] = t[1]
               PROVE  q[1][2] < t[2]
    BY <1>1 DEF Ahead
  <2>1. PICK i \in 1..Len(Tail(q)) : t = Tail(q)[i]
    BY <1>1, RangeElement, ZenonT(30)
  <2>2. 1 \in DOMAIN q /\ i + 1 \in DOMAIN q /\ 1 < i + 1 /\ t = q[i + 1]
    BY <1>1, <2>1
  <2> QED
    BY <2>2 DEF Ascending
<1> QED
  BY <1>2, <1>3

LEMMA InitOrdered == Init => Ordered
<1> SUFFICES ASSUME Init PROVE Ordered
  OBVIOUS
<1>1. Sent = {} /\ Range(batch) = {} /\ Range(cur) = {} /\ Range(merged) = {}
  BY DEF Init, Sent, Batches, Range
<1> QED
  BY <1>1 DEF Init, Ordered, Heads, Ascending, OrderedOnce, Ahead

\* A step that changes nothing the order is about.
LEMMA SameOrder ==
    ASSUME Ordered, UNCHANGED <<next, genChan, held, merged, cur, batch, enqueued>>
    PROVE  Ordered'
BY DEF Ordered, Heads, Ascending, OrderedOnce, Ahead, Frontier, Sent, Batches

\* A step of the front of the pipeline that moves no frontier.
LEMMA SameFrontier ==
    ASSUME Ordered, Heads', UNCHANGED <<merged, cur, batch, enqueued>>, TypeOK,
           \A d \in Configs : Frontier(d)' >= Frontier(d) /\ Frontier(d) \in Int /\ Frontier(d)' \in Int
    PROVE  Ordered'
<1>1. Sent' = Sent
  BY DEF Sent, Batches
<1>2. \A s \in Sent \cup Range(batch) \cup Range(cur) \cup Range(merged) :
         s[1] \in Configs /\ s[2] \in Int
  BY PlacesAreSeries, SeriesShape
<1>3. \A s \in Sent \cup Range(batch) \cup Range(cur) \cup Range(merged) :
         s[2] < Frontier(s[1])'
  BY <1>2 DEF Ordered
<1> QED
  BY <1>1, <1>3 DEF Ordered, Ascending, OrderedOnce, Ahead
LEMMA GeneratorOrdered ==
    ASSUME TypeOK, Control, Ordered, NEW c \in Configs, Generator(c)
    PROVE  Ordered'
<1>1. CASE GenBuild(c) \/ GenStop(c) \/ GenCancel(c)
  BY <1>1, SameOrder DEF GenBuild, GenStop, GenCancel, fwdVars, mainVars
<1>2. CASE GenSend(c)
  <2>1. /\ genChan[c] \in Seq(Series) /\ Len(genChan[c]) < 1
        /\ genChan' = [genChan EXCEPT ![c] = Append(genChan[c], <<c, next[c]>>)]
        /\ next' = [next EXCEPT ![c] = next[c] + 1]
        /\ UNCHANGED <<held, merged, cur, batch, enqueued>>
    BY <1>2 DEF GenSend, GenChanCap, TypeOK, fwdVars, mainVars
  <2>2. genChan[c] = <<>> /\ genChan'[c] = <<<<c, next[c]>>>> /\ next'[c] = next[c] + 1
    <3>1. genChan[c] = <<>>
      BY <2>1, EmptyLength
    <3>2. Append(genChan[c], <<c, next[c]>>) = <<<<c, next[c]>>>>
      BY <3>1
    <3> QED
      BY <2>1, <3>1, <3>2 DEF TypeOK
  <2>3. \A d \in Configs : d # c => genChan'[d] = genChan[d] /\ next'[d] = next[d]
    BY <2>1 DEF TypeOK
  <2>4. \A d \in Configs : Len(genChan[d]) \in Nat /\ Len(held[d]) \in Nat /\ next[d] \in Nat
    BY LenProperties DEF TypeOK
  <2>5. \A d \in Configs : Frontier(d)' = Frontier(d) /\ Frontier(d) \in Int
    <3>1. Len(genChan'[c]) = 1 /\ Len(genChan[c]) = 0
      BY <2>2
    <3>2. ASSUME NEW d \in Configs, d # c
          PROVE  Frontier(d)' = Frontier(d) /\ Frontier(d) \in Int
      BY <2>1, <2>3, <2>4, <3>2 DEF Frontier
    <3>a. /\ Len(held[c]) \in Nat /\ next[c] \in Nat /\ held'[c] = held[c]
          /\ next'[c] = next[c] + 1
      BY <2>1, <2>2, <2>4
    <3>b. Frontier(c) = next[c] - Len(held[c])
      BY <3>1, <3>a DEF Frontier
    <3>c. Frontier(c)' = next'[c] - 1 - Len(held[c])
      BY <3>1, <3>a DEF Frontier
    <3>3. Frontier(c)' = Frontier(c) /\ Frontier(c) \in Int
      BY <3>a, <3>b, <3>c
    <3> QED
      BY <3>2, <3>3
  <2>6. Heads'
    BY <2>1, <2>2, <2>3, <2>4, <2>5 DEF Heads, Ordered
  <2> QED
    BY <2>1, <2>5, <2>6, SameFrontier
<1> QED
  BY <1>1, <1>2 DEF Generator

LEMMA ForwarderOrdered ==
    ASSUME TypeOK, Control, Ordered, NEW c \in Configs, Forwarder(c)
    PROVE  Ordered'
<1>0. \A d \in Configs : Len(genChan[d]) \in Nat /\ Len(held[d]) \in Nat /\ next[d] \in Nat
  BY LenProperties DEF TypeOK
<1>1. CASE FwdReceive(c)
  <2>1. /\ genChan[c] \in Seq(Series) /\ genChan[c] # <<>> /\ held[c] = <<>>
        /\ genChan' = [genChan EXCEPT ![c] = Tail(genChan[c])]
        /\ held' = [held EXCEPT ![c] = <<Head(genChan[c])>>]
        /\ UNCHANGED <<next, merged, cur, batch, enqueued>>
    BY <1>1 DEF FwdReceive, TypeOK, Control, Shape, genVars, mainVars
  <2>2. /\ Len(genChan[c]) = 1 /\ Head(genChan[c]) = <<c, next[c] - 1>>
        /\ Tail(genChan[c]) = <<>>
    <3>0. Len(genChan[c]) # 0
      BY <2>1, EmptyLength
    <3>a. Len(genChan[c]) \in Nat
      BY <1>0
    <3>b. Len(genChan[c]) <= 1
      BY DEF Ordered, Heads
    <3>1. Len(genChan[c]) = 1
      BY <3>a, <3>b, <3>0, OnlyOne
    <3> QED
      BY <2>1, <3>1, OneElement DEF Ordered, Heads
  <2>3. /\ genChan'[c] = <<>> /\ held'[c] = <<<<c, next[c] - 1>>>>
        /\ \A d \in Configs : d # c => genChan'[d] = genChan[d] /\ held'[d] = held[d]
    BY <2>1, <2>2 DEF TypeOK
  <2>4. /\ Len(genChan'[c]) = 0 /\ Len(held'[c]) = 1
        /\ Len(genChan[c]) = 1 /\ Len(held[c]) = 0
    BY <2>1, <2>2, <2>3
  <2>5. /\ \A d \in Configs : Frontier(d)' = Frontier(d) /\ Frontier(d) \in Int
        /\ Frontier(c)' = next[c] - 1
    BY <1>0, <2>1, <2>3, <2>4 DEF Frontier
  <2>6. Heads'
    BY <1>0, <2>1, <2>3, <2>4, <2>5 DEF Heads, Ordered
  <2> QED
    BY <2>1, <2>5, <2>6, SameFrontier
<1>2. CASE FwdEnd(c)
  BY <1>2, SameOrder DEF FwdEnd, genVars, mainVars
<1>3. CASE FwdSend(c)
  <2>1. /\ held[c] \in Seq(Series) /\ merged \in Seq(Series) /\ held[c] # <<>>
        /\ Len(held[c]) = 1 /\ held[c][1] = <<c, Frontier(c)>>
        /\ merged' = merged \o held[c]
        /\ held' = [held EXCEPT ![c] = <<>>]
        /\ UNCHANGED <<next, genChan, cur, batch, enqueued>>
    <3>1. held[c] \in Seq(Series) /\ held[c] # <<>> /\ Len(held[c]) <= 1
      BY <1>3 DEF FwdSend, TypeOK, Control, Shape
    <3>2. Len(held[c]) # 0
      BY <3>1, EmptyLength
    <3>a. Len(held[c]) \in Nat
      BY <1>0
    <3>3. Len(held[c]) = 1
      BY <3>a, <3>1, <3>2, OnlyOne
    <3> QED
      BY <1>3, <3>1, <3>3 DEF FwdSend, TypeOK, Ordered, Heads, genVars, mainVars
  <2>2. Range(held[c]) = {<<c, Frontier(c)>>}
    BY <2>1, OneElement
  <2>3. Range(merged') = Range(merged) \cup {<<c, Frontier(c)>>}
    BY <2>1, <2>2, RangeConcat
  <2>4. /\ \A d \in Configs : d # c => held'[d] = held[d]
        /\ held'[c] = <<>>
    BY <2>1 DEF TypeOK
  <2>5. /\ \A d \in Configs : d # c => Frontier(d)' = Frontier(d)
        /\ Frontier(c)' = Frontier(c) + 1
        /\ \A d \in Configs : Frontier(d) \in Int
    BY <1>0, <2>1, <2>4, SMTT(30) DEF Frontier
  <2>6. Heads'
    BY <2>1, <2>4, <2>5 DEF Heads, Ordered
  <2>7. Sent' = Sent
    BY <2>1 DEF Sent, Batches
  <2>8. \A s \in Sent \cup Range(batch) \cup Range(cur) \cup Range(merged) :
           s[1] \in Configs /\ s[2] \in Int /\ s[2] < Frontier(s[1])
    BY PlacesAreSeries, SeriesShape DEF Ordered
  <2>9. /\ Ahead(Range(merged), {<<c, Frontier(c)>>}) /\ Ahead(Range(cur), {<<c, Frontier(c)>>})
        /\ Ahead(Range(batch), {<<c, Frontier(c)>>}) /\ Ahead(Sent, {<<c, Frontier(c)>>})
    BY <2>8 DEF Ahead
  <2>10. Ascending(held[c])
    BY <2>1, LenProperties DEF Ascending
  <2>11. Ascending(merged')
    BY <2>1, <2>2, <2>9, <2>10, AscendingConcat DEF Ordered
  <2>12. \A s \in Sent \cup Range(batch) \cup Range(cur) \cup Range(merged) :
            s[2] < Frontier(s[1])'
    BY <2>5, <2>8
  <2>13. Frontier(c) < Frontier(c)'
    BY <2>5
  <2>14. \A s \in (Sent \cup Range(batch) \cup Range(cur) \cup Range(merged))' :
            s[2] < Frontier(s[1])'
    BY <2>1, <2>3, <2>7, <2>12, <2>13
  <2>15. /\ Ahead(Range(cur), Range(merged'))
         /\ Ahead(Range(batch), Range(cur) \cup Range(merged'))
         /\ Ahead(Sent, Range(batch) \cup Range(cur) \cup Range(merged'))
    BY <2>3, <2>9 DEF Ahead, Ordered
  <2>16. Ascending(batch') /\ OrderedOnce'
    BY <2>1 DEF Ordered, OrderedOnce
  <2>17. /\ Ahead(Range(cur'), Range(merged'))
         /\ Ahead(Range(batch'), Range(cur') \cup Range(merged'))
         /\ Ahead(Sent', Range(batch') \cup Range(cur') \cup Range(merged'))
    BY <2>1, <2>7, <2>15
  <2> QED
    BY <2>6, <2>11, <2>14, <2>16, <2>17 DEF Ordered
<1>4. CASE FwdCancel(c)
  <2>1. /\ held' = [held EXCEPT ![c] = <<>>]
        /\ UNCHANGED <<next, genChan, merged, cur, batch, enqueued>>
    BY <1>4 DEF FwdCancel, genVars, mainVars
  <2>2. held'[c] = <<>> /\ \A d \in Configs : d # c => held'[d] = held[d]
    BY <2>1 DEF TypeOK
  <2>3. \A d \in Configs : Frontier(d)' >= Frontier(d) /\ Frontier(d) \in Int /\ Frontier(d)' \in Int
    BY <1>0, <2>1, <2>2 DEF Frontier
  <2>4. \A d \in Configs : d # c => Frontier(d)' = Frontier(d)
    BY <2>1, <2>2 DEF Frontier
  <2>5. Heads'
    BY <2>1, <2>2, <2>4 DEF Heads, Ordered
  <2> QED
    BY <2>1, <2>3, <2>5, SameFrontier
<1> QED
  BY <1>1, <1>2, <1>3, <1>4 DEF Forwarder

\* A request that is ahead of nothing but the requests before it keeps the order.
LEMMA OrderedAppend ==
    ASSUME TypeOK, OrderedOnce, Ascending(batch), Ahead(Sent, Range(batch)),
           enqueued' = Append(enqueued, batch)
    PROVE  OrderedOnce'
<1> DEFINE n == Len(enqueued)
<1>1. /\ n \in Nat /\ DOMAIN enqueued = 1..n /\ DOMAIN enqueued' = 1..(n + 1)
      /\ \A j \in 1..n : enqueued'[j] = enqueued[j]
      /\ enqueued'[n + 1] = batch
  BY LenProperties, AppendProperties DEF TypeOK
<1> HIDE DEF n
<1> SUFFICES ASSUME NEW j \in 1..(n + 1), NEW k \in 1..(n + 1),
                    NEW x \in DOMAIN enqueued'[j], NEW y \in DOMAIN enqueued'[k],
                    enqueued'[j][x][1] = enqueued'[k][y][1],
                    j < k \/ (j = k /\ x < y)
             PROVE  enqueued'[j][x][2] < enqueued'[k][y][2]
  BY <1>1 DEF OrderedOnce
<1>2. CASE k \in 1..n
  <2>1. j \in 1..n
    BY <1>1, <1>2
  <2> QED
    BY <1>1, <1>2, <2>1 DEF OrderedOnce
<1>3. CASE k = n + 1 /\ j \in 1..n
  <2>1. enqueued'[k][y] \in Range(batch)
    BY <1>1, <1>3 DEF Range
  <2>2. enqueued[j] \in Range(enqueued) /\ enqueued[j][x] \in Range(enqueued[j])
    BY <1>1, <1>3 DEF Range
  <2>3. enqueued'[j][x] \in Sent
    BY <1>1, <1>3, <2>2 DEF Sent, Batches
  <2> QED
    BY <2>1, <2>3 DEF Ahead
<1>4. CASE k = n + 1 /\ j = n + 1
  BY <1>1, <1>4 DEF Ascending
<1> QED
  BY <1>1, <1>2, <1>3, <1>4

LEMMA CallerOrdered ==
    ASSUME TypeOK, Control, Ordered, Caller
    PROVE  Ordered'
<1>1. /\ UNCHANGED <<next, genChan, held>>
      /\ merged \in Seq(Series) /\ cur \in Seq(Series) /\ batch \in Seq(Series)
  BY DEF Caller, Receive, Discard, Collect, EnqueueFull, SendBatch, AbandonFull, GiveUp,
         Drain, DrainEnd, RangeEnd, FinalCheck, Flush, AbandonFlush, Return,
         genVars, fwdVars, mainVars, TypeOK
<1>2. Heads' /\ \A d : Frontier(d)' = Frontier(d)
  BY <1>1 DEF Ordered, Heads, Frontier
<1>3. CASE Receive
  <2>1. /\ merged # <<>> /\ merged' = Tail(merged) /\ cur' = <<Head(merged)>>
        /\ UNCHANGED <<batch, enqueued>>
    BY <1>3 DEF Receive
  <2>2. Range(merged) = {Head(merged)} \cup Range(merged') /\ Range(cur') = {Head(merged)}
    BY <1>1, <2>1, RangeHeadTail, RangeSmall
  <2>3. Ascending(merged') /\ Ahead(Range(cur'), Range(merged'))
    BY <1>1, <2>1, <2>2, AscendingTail DEF Ordered
  <2>4. Sent' = Sent
    BY <2>1 DEF Sent, Batches
  <2>5. /\ Ahead(Range(batch'), Range(cur') \cup Range(merged'))
        /\ Ahead(Sent', Range(batch') \cup Range(cur') \cup Range(merged'))
    BY <2>1, <2>2, <2>4 DEF Ordered, Ahead
  <2>6. Ascending(batch') /\ OrderedOnce'
    BY <2>1 DEF Ordered, OrderedOnce
  <2>7. \A s \in (Sent \cup Range(batch) \cup Range(cur) \cup Range(merged))' :
           s[2] < Frontier(s[1])'
    BY <1>2, <2>1, <2>2, <2>4 DEF Ordered
  <2> QED
    BY <1>2, <2>3, <2>5, <2>6, <2>7 DEF Ordered
<1>4. CASE Discard \/ Drain
  <2>1. /\ UNCHANGED <<batch, enqueued>>
        /\ \/ merged' = merged /\ cur' = <<>>
           \/ cur' = cur /\ merged # <<>> /\ merged' = Tail(merged)
    BY <1>4 DEF Discard, Drain, mainVars
  <2>2. Range(merged') \subseteq Range(merged) /\ Range(cur') \subseteq Range(cur)
    BY <1>1, <2>1, RangeHeadTail, RangeSmall
  <2>3. Ascending(merged')
    BY <1>1, <2>1, AscendingTail DEF Ordered
  <2>4. Sent' = Sent
    BY <2>1 DEF Sent, Batches
  <2>5. /\ Ahead(Range(cur'), Range(merged'))
        /\ Ahead(Range(batch'), Range(cur') \cup Range(merged'))
        /\ Ahead(Sent', Range(batch') \cup Range(cur') \cup Range(merged'))
    BY <2>1, <2>2, <2>4 DEF Ordered, Ahead
  <2>6. Ascending(batch') /\ OrderedOnce'
    BY <2>1 DEF Ordered, OrderedOnce
  <2>7. \A s \in (Sent \cup Range(batch) \cup Range(cur) \cup Range(merged))' :
           s[2] < Frontier(s[1])'
    BY <1>2, <2>1, <2>2, <2>4 DEF Ordered
  <2> QED
    BY <1>2, <2>3, <2>5, <2>6, <2>7 DEF Ordered
<1>5. CASE Collect
  <2>1. /\ batch' = batch \o cur /\ cur' = <<>> /\ Len(cur) <= 1
        /\ UNCHANGED <<merged, enqueued>>
    BY <1>5 DEF Collect, Control, Shape
  <2>2. Range(batch') = Range(batch) \cup Range(cur) /\ Range(cur') = {}
    <3>1. Range(batch \o cur) = Range(batch) \cup Range(cur)
      BY <1>1, RangeConcat
    <3> QED
      BY <2>1, <3>1, RangeSmall
  <2>3. Ascending(cur)
    BY <1>1, <2>1, LenProperties DEF Ascending
  <2>4. Ahead(Range(batch), Range(cur))
    BY DEF Ordered, Ahead
  <2>5. Ascending(batch')
    BY <1>1, <2>1, <2>3, <2>4, AscendingConcat DEF Ordered
  <2>6. Sent' = Sent
    BY <2>1 DEF Sent, Batches
  <2>7. /\ Ahead(Range(cur'), Range(merged'))
        /\ Ahead(Range(batch'), Range(cur') \cup Range(merged'))
        /\ Ahead(Sent', Range(batch') \cup Range(cur') \cup Range(merged'))
    BY <2>1, <2>2, <2>6 DEF Ordered, Ahead
  <2>8. Ascending(merged') /\ OrderedOnce'
    BY <2>1 DEF Ordered, OrderedOnce
  <2>9. \A s \in (Sent \cup Range(batch) \cup Range(cur) \cup Range(merged))' :
           s[2] < Frontier(s[1])'
    BY <1>2, <2>1, <2>2, <2>6 DEF Ordered
  <2> QED
    BY <1>2, <2>5, <2>7, <2>8, <2>9 DEF Ordered
<1>6. CASE EnqueueFull \/ Flush
  <2>1. /\ enqueued' = Append(enqueued, batch) /\ batch' = <<>>
        /\ UNCHANGED <<merged, cur>>
    BY <1>6 DEF EnqueueFull, Flush, SendBatch
  <2>2. Sent' = Sent \cup Range(batch) /\ Range(batch') = {}
    BY <1>1, <2>1, SentAppend, RangeSmall
  <2>3. Ahead(Sent, Range(batch))
    BY DEF Ordered, Ahead
  <2>4. OrderedOnce'
    BY <2>1, <2>3, OrderedAppend DEF Ordered
  <2>5. Ascending(merged') /\ Ascending(batch')
    BY <2>1 DEF Ordered, Ascending
  <2>6. /\ Ahead(Range(cur'), Range(merged'))
        /\ Ahead(Range(batch'), Range(cur') \cup Range(merged'))
        /\ Ahead(Sent', Range(batch') \cup Range(cur') \cup Range(merged'))
    BY <2>1, <2>2 DEF Ordered, Ahead
  <2>7. \A s \in (Sent \cup Range(batch) \cup Range(cur) \cup Range(merged))' :
           s[2] < Frontier(s[1])'
    BY <1>2, <2>1, <2>2 DEF Ordered
  <2> QED
    BY <1>2, <2>4, <2>5, <2>6, <2>7 DEF Ordered
<1>7. CASE AbandonFull \/ DrainEnd \/ RangeEnd \/ FinalCheck \/ AbandonFlush
  BY <1>7, SameOrder DEF AbandonFull, DrainEnd, RangeEnd, FinalCheck, AbandonFlush,
                         genVars, fwdVars, mainVars
<1> QED
  BY <1>3, <1>4, <1>5, <1>6, <1>7 DEF Caller
----------------------------------------------------------------------------
(* The invariant, and what follows from it.                                 *)

\* The steps outside the goroutines of the call, and stuttering.
LEMMA EnvironmentIInv ==
    ASSUME IInv, CloseMerged \/ WorkerTakes \/ Deadline \/ UNCHANGED vars
    PROVE  Control' /\ NothingDiscarded' /\ Ordered'
<1>1. UNCHANGED <<next, genChan, held, merged, cur, batch, enqueued>>
  BY DEF CloseMerged, WorkerTakes, Deadline, vars, genVars, fwdVars, mainVars
<1>2. Ordered'
  BY <1>1, SameOrder DEF IInv
<1>3. NothingDiscarded'
  <2>1. Downstream' = Downstream
    BY <1>1 DEF Downstream, Upstream, Sent, Batches
  <2>2. ~expired' \/ Committed' => ~expired \/ Committed
    BY DEF CloseMerged, WorkerTakes, Deadline, vars, mainVars, Committed
  <2> QED
    BY <1>1, <2>1, <2>2, Kept DEF IInv
<1>4. Control'
  <2>1. CASE CloseMerged
    BY <2>1 DEF IInv, CloseMerged, Control, Shape, Endings, CommittedDone, Committed,
                RequestSizes, FullRequests, LateOnce, FalseOnlyExpired, AtMostOneLate,
                genVars, fwdVars, mainVars
  <2>2. CASE WorkerTakes
    BY <2>2 DEF IInv, WorkerTakes, Control, Shape, Endings, CommittedDone, Committed,
                RequestSizes, FullRequests, LateOnce, FalseOnlyExpired, AtMostOneLate,
                genVars, fwdVars
  <2>3. CASE Deadline
    BY <2>3 DEF IInv, Deadline, Control, Shape, Endings, CommittedDone, Committed,
                RequestSizes, FullRequests, LateOnce, FalseOnlyExpired, AtMostOneLate,
                genVars, fwdVars, mainVars
  <2>4. CASE UNCHANGED vars
    BY <2>4 DEF IInv, vars, Control, Shape, Endings, CommittedDone, Committed,
                RequestSizes, FullRequests, LateOnce, FalseOnlyExpired, AtMostOneLate
  <2> QED
    BY <2>1, <2>2, <2>3, <2>4
<1> QED
  BY <1>2, <1>3, <1>4

LEMMA InitIInv == Init => IInv
<1> SUFFICES ASSUME Init PROVE NothingDiscarded
  BY InitType, InitControl, InitOrdered DEF IInv
<1>1. \A c \in Configs : 0..(next[c] - 1) = {}
  BY DEF Init
<1> QED
  BY <1>1 DEF NothingDiscarded

LEMMA NextIInv == IInv /\ [Next]_vars => IInv'
<1> SUFFICES ASSUME IInv, [Next]_vars PROVE IInv'
  OBVIOUS
<1>1. TypeOK'
  BY NextType DEF IInv
<1>2. ASSUME NEW c \in Configs, Generator(c)
      PROVE  Control' /\ NothingDiscarded' /\ Ordered'
  BY <1>2, GeneratorControl, GeneratorDiscards, GeneratorOrdered DEF IInv
<1>3. ASSUME NEW c \in Configs, Forwarder(c)
      PROVE  Control' /\ NothingDiscarded' /\ Ordered'
  BY <1>3, ForwarderControl, ForwarderDiscards, ForwarderOrdered DEF IInv
<1>4. CASE Caller
  BY <1>1, <1>4, CallerControl, CallerDiscards, CallerOrdered DEF IInv
<1>5. CASE CloseMerged \/ WorkerTakes \/ Deadline \/ UNCHANGED vars
  BY <1>1, <1>5, EnvironmentIInv DEF IInv
<1> QED
  BY <1>1, <1>2, <1>3, <1>4, <1>5 DEF Next, IInv

\* IInv is inductive: whatever the config files, the request size, the number
\* of workers and the moment of the deadline, the stages of the pipeline agree
\* with each other, nothing is lost before the deadline, and the series of a
\* config file keep their order.
THEOREM Invariance == Spec => []IInv
<1>1. Init => IInv
  BY InitIInv
<1>2. IInv /\ [Next]_vars => IInv'
  BY NextIInv
<1> QED
  BY <1>1, <1>2, PTL DEF Spec

LEMMA CompleteFromIInv == IInv => CompleteOnTrue
<1> SUFFICES ASSUME IInv, result = "true" PROVE Sent = Series
  BY DEF CompleteOnTrue
<1>1. /\ mainPc = "returned" /\ Committed
      /\ batch = <<>> /\ merged = <<>> /\ cur = <<>> /\ tsClosed
  BY DEF IInv, TypeOK, Control, Shape, Endings, RequestSizes, Committed
<1>2. \A c \in Configs : /\ next[c] = SeriesCount[c] /\ genChan[c] = <<>>
                         /\ held[c] = <<>>
  BY <1>1 DEF IInv, Control, CommittedDone, Endings, Shape
<1>3. Upstream = {}
  BY <1>2, RangeSmall, InUpstream
<1>4. Downstream = Sent
  BY <1>1, <1>3, RangeSmall DEF Downstream
<1>5. ASSUME NEW s \in Series PROVE s \in Sent
  <2>1. PICK c \in Configs : s \in {c} \X (0..(SeriesCount[c] - 1))
    BY DEF Series
  <2>2. PICK i \in 0..(SeriesCount[c] - 1) : s = <<c, i>>
    BY <2>1
  <2> QED
    BY <1>1, <1>2, <1>4, <2>2 DEF IInv, NothingDiscarded
<1> QED
  BY <1>5, PlacesAreSeries DEF IInv

\* When convertToRemoteWriteRequestsStreaming returns true, every series of
\* every config file is in a request it sent, in whatever order the forwarders
\* ran.
THEOREM CompleteTrue == Spec => []CompleteOnTrue
BY Invariance, CompleteFromIInv, PTL

\* No series is sent twice and the series of a config file are sent in the
\* order of their permutations, across all requests of the call.
THEOREM SentInOrder == Spec => []OrderedOnce
<1>1. IInv => OrderedOnce
  BY DEF IInv, Ordered
<1> QED
  BY <1>1, Invariance, PTL

\* Every request but the last is full, and a smaller one is sent only as the
\* last act of a call that returns true.
THEOREM RequestsFull == Spec => []FullRequests
<1>1. IInv => FullRequests
  BY DEF IInv, Control
<1> QED
  BY <1>1, Invariance, PTL

\* run ends the load on a false result, and only the deadline produces one.
THEOREM FalseIsDeadline == Spec => []FalseOnlyExpired
<1>1. IInv => FalseOnlyExpired
  BY DEF IInv, Control
<1> QED
  BY <1>1, Invariance, PTL

\* At most the one request whose ctx.Err() check came before the deadline is
\* sent after it.
THEOREM OneLateRequest == Spec => []AtMostOneLate
<1>1. IInv => AtMostOneLate
  BY DEF IInv, Control
<1> QED
  BY <1>1, Invariance, PTL

\* When the call returns true no generator still runs, so the FieldGenerators
\* map of a config file is not shared with the next wave.
THEOREM QuietOnTrue == Spec => []GeneratorsQuiescent
<1>1. IInv => GeneratorsQuiescent
  BY DEF IInv, Control, CommittedDone, Committed, GeneratorsQuiescent
<1> QED
  BY <1>1, Invariance, PTL

\* When the call returns, with either result, no forwarder is left behind on
\* the channel that nobody receives from any more.
THEOREM NoForwarderLeft == Spec => []ForwardersGone
<1>1. IInv => ForwardersGone
  BY DEF IInv, TypeOK, Control, Shape, Endings, ForwardersGone
<1> QED
  BY <1>1, Invariance, PTL

-----------------------------------------------------------------------------
(* WaveStreaming implements WaveContract: every step of the goroutines is a  *)
(* step of the contract or leaves what the contract sees unchanged.          *)

\* A sequence whose series ascend holds each of them once.
LEMMA AscendingDistinct ==
    ASSUME NEW q \in Seq(Series), Ascending(q)
    PROVE  IsFiniteSet(Range(q)) /\ Cardinality(Range(q)) = Len(q)
<1>1. Len(q) \in Nat /\ DOMAIN q = 1..Len(q)
  BY LenProperties
<1>2. \A j, k \in 1..Len(q) : j # k => q[j] # q[k]
  <2> SUFFICES ASSUME NEW j \in 1..Len(q), NEW k \in 1..Len(q), j # k, q[j] = q[k]
               PROVE  FALSE
    OBVIOUS
  <2>1. q[j] \in Series /\ q[j][2] \in Int
    BY <1>1, ElementOfSeq, SeriesShape
  <2>2. CASE j < k
    BY <1>1, <2>1, <2>2 DEF Ascending
  <2>3. CASE k < j
    BY <1>1, <2>1, <2>3 DEF Ascending
  <2> QED
    BY <1>1, <2>2, <2>3
<1>3. q \in Bijection(1..Len(q), Range(q))
  <2>1. q \in [1..Len(q) -> Range(q)]
    BY <1>1 DEF Range
  <2>2. \A t \in Range(q) : \E j \in 1..Len(q) : q[j] = t
    BY <1>1 DEF Range
  <2> QED
    BY <1>2, <2>1, <2>2 DEF Bijection, Injection, IsInjective, Surjection
<1>4. ExistsBijection(1..Len(q), Range(q))
  BY <1>3 DEF ExistsBijection
<1>5. IsFiniteSet(1..Len(q)) /\ Cardinality(1..Len(q)) = Len(q)
  BY <1>1, FS_Interval
<1> QED
  BY <1>4, <1>5, FS_Bijection

\* The caller's batch has nothing in common with what was already sent.
LEMMA BatchIsNew ==
    ASSUME IInv
    PROVE  /\ Range(batch) \subseteq Series \ Sent
           /\ Cardinality(Range(batch)) = Len(batch)
           /\ batch \in Seq(Series)
<1>1. batch \in Seq(Series) /\ Ascending(batch) /\ Ahead(Sent, Range(batch))
  BY DEF IInv, TypeOK, Ordered, Ahead
<1>2. Range(batch) \subseteq Series
  BY PlacesAreSeries DEF IInv
<1>3. ASSUME NEW s \in Range(batch), s \in Sent PROVE FALSE
  <2>1. s[2] < s[2] /\ s[2] \in Int
    BY <1>1, <1>2, <1>3, SeriesShape DEF Ahead
  <2> QED
    BY <2>1
<1> QED
  BY <1>1, <1>2, <1>3, AscendingDistinct

\* When the call has passed its last check, the last request is all that is
\* still missing.
LEMMA OnlyBatchLeft ==
    ASSUME IInv, mainPc \in {"flush", "final"}, mainPc = "final" => ~expired
    PROVE  Series = Sent \cup Range(batch)
<1>1. cur = <<>> /\ merged = <<>> /\ tsClosed
  BY DEF IInv, Control, Shape, Endings
<1>2. \A c \in Configs : next[c] = SeriesCount[c] /\ genChan[c] = <<>> /\ held[c] = <<>>
  BY <1>1 DEF IInv, Control, CommittedDone, Committed, Endings, Shape
<1>3. Upstream = {}
  BY <1>2, RangeSmall, InUpstream
<1>4. Downstream = Sent \cup Range(batch)
  BY <1>1, <1>3, RangeSmall DEF Downstream
<1>5. ASSUME NEW s \in Series PROVE s \in Downstream
  <2>1. PICK c \in Configs : s \in {c} \X (0..(SeriesCount[c] - 1))
    BY DEF Series
  <2>2. PICK i \in 0..(SeriesCount[c] - 1) : s = <<c, i>>
    BY <2>1
  <2> QED
    BY <1>2, <2>2 DEF IInv, NothingDiscarded, Committed
<1> QED
  BY <1>4, <1>5, PlacesAreSeries DEF IInv

\* The contract counts with the same Cardinality.
LEMMA SameCardinality == \A S : Contract!Cardinality(S) = Cardinality(S)
BY Zenon DEF Contract!Cardinality, Cardinality

LEMMA ContractInit == Init => Contract!Init
<1> SUFFICES ASSUME Init PROVE Sent = {}
  BY DEF Init, Contract!Init
<1> QED
  BY RangeSmall DEF Init, Sent, Batches

LEMMA CountsLate ==
    ASSUME IInv, SendBatch("enqueue") \/ SendBatch("flush")
    PROVE  Contract!CountLate
BY DEF IInv, TypeOK, Control, LateOnce, SendBatch, Contract!CountLate

LEMMA ContractStep ==
    ASSUME IInv, [Next]_vars
    PROVE  [Contract!Next]_Contract!vars
<1>1. CASE UNCHANGED <<enqueued, expired, late, result>>
  BY <1>1 DEF Contract!vars, Sent, Batches
<1>2. CASE EnqueueFull
  <2>1. /\ enqueued' = Append(enqueued, batch) /\ mainPc = "enqueue"
        /\ UNCHANGED <<expired, result>> /\ SendBatch("enqueue")
    BY <1>2 DEF EnqueueFull, SendBatch
  <2>2. result = "running" /\ Len(batch) = MaxSamples
    BY <2>1 DEF IInv, Control, Shape, RequestSizes
  <2>3. Sent' = Sent \cup Range(batch)
    BY <2>1, BatchIsNew, SentAppend DEF IInv
  <2>4. Range(batch) \in SUBSET (Series \ Sent) /\ Cardinality(Range(batch)) = MaxSamples
    BY <2>2, BatchIsNew
  <2>5. Contract!EnqueueFull
    <3>1. Contract!CountLate
      BY <2>1, CountsLate
    <3>2. \E b \in SUBSET (Series \ Sent) :
              Contract!Cardinality(b) = MaxSamples /\ Sent' = Sent \cup b
      BY <2>3, <2>4, SameCardinality
    <3> QED
      BY <2>1, <2>2, <3>1, <3>2 DEF Contract!EnqueueFull
  <2> QED
    BY <2>5 DEF Contract!Next
<1>3. CASE Flush
  <2>1. /\ enqueued' = Append(enqueued, batch) /\ mainPc = "flush"
        /\ UNCHANGED expired /\ result' = "true" /\ SendBatch("flush")
    BY <1>3 DEF Flush, SendBatch, Return
  <2>2. result = "running" /\ Len(batch) < MaxSamples /\ batch # <<>>
    BY <2>1 DEF IInv, Control, Shape, RequestSizes
  <2>3. Sent' = Series /\ Series \ Sent = Range(batch)
    <3>1. Sent' = Sent \cup Range(batch)
      BY <2>1, BatchIsNew, SentAppend DEF IInv
    <3>2. Series = Sent \cup Range(batch)
      BY <2>1, OnlyBatchLeft
    <3> QED
      BY <3>1, <3>2, BatchIsNew
  <2>4. Range(batch) # {}
    <3>1. Range(batch) = {Head(batch)} \cup Range(Tail(batch))
      BY <2>2, BatchIsNew, RangeHeadTail
    <3> QED
      BY <3>1
  <2>5. Sent # Series /\ Cardinality(Series \ Sent) < MaxSamples
    BY <2>2, <2>3, <2>4, BatchIsNew
  <2>6. Contract!EnqueueLast
    <3>1. Contract!CountLate
      BY <2>1, CountsLate
    <3> QED
      BY <2>1, <2>2, <2>3, <2>5, <3>1, SameCardinality DEF Contract!EnqueueLast
  <2> QED
    BY <2>6 DEF Contract!Next
<1>4. CASE DrainEnd \/ AbandonFlush
  <2>1. result = "running" /\ expired
    BY <1>4 DEF DrainEnd, AbandonFlush, GiveUp, IInv, Control, Shape, Endings
  <2>2. result' = "false" /\ UNCHANGED <<enqueued, expired, late>>
    BY <1>4 DEF DrainEnd, AbandonFlush, Return
  <2>3. Contract!Abandon
    BY <2>1, <2>2 DEF Contract!Abandon, Sent, Batches
  <2> QED
    BY <2>3 DEF Contract!Next
<1>5. CASE FinalCheck
  <2>1. /\ result = "running" /\ mainPc = "final"
        /\ UNCHANGED <<enqueued, expired, late>> /\ Sent' = Sent
    BY <1>5 DEF FinalCheck, IInv, Control, Shape, Sent, Batches
  <2>2. CASE expired /\ Return("false")
    <3>1. Contract!Abandon
      BY <2>1, <2>2 DEF Contract!Abandon, Return
    <3> QED
      BY <3>1 DEF Contract!Next
  <2>3. CASE ~expired /\ batch = <<>> /\ Return("true")
    <3>1. Sent = Series
      BY <2>1, <2>3, OnlyBatchLeft, RangeSmall
    <3>2. Contract!Complete
      BY <2>1, <2>3, <3>1 DEF Contract!Complete, Return
    <3> QED
      BY <3>2 DEF Contract!Next
  <2>4. CASE result' = result
    BY <1>1, <2>1, <2>4
  <2> QED
    BY <1>5, <2>2, <2>3, <2>4 DEF FinalCheck
<1>6. CASE Deadline
  <2>1. Contract!Deadline
    BY <1>6 DEF Deadline, mainVars, Contract!Deadline, Sent, Batches
  <2> QED
    BY <2>1 DEF Contract!Next
<1>7. CASE \/ Receive \/ Discard \/ Collect \/ AbandonFull \/ Drain \/ RangeEnd
           \/ CloseMerged \/ WorkerTakes \/ UNCHANGED vars
  BY <1>1, <1>7 DEF Receive, Discard, Collect, AbandonFull, Drain, RangeEnd, CloseMerged,
                    WorkerTakes, vars, mainVars
<1>8. ASSUME NEW c \in Configs, Generator(c) \/ Forwarder(c)
      PROVE  UNCHANGED <<enqueued, expired, late, result>>
  BY <1>8 DEF Generator, GenBuild, GenStop, GenSend, GenCancel, Forwarder, FwdReceive,
              FwdEnd, FwdSend, FwdCancel, mainVars
<1> QED
  BY <1>1, <1>2, <1>3, <1>4, <1>5, <1>6, <1>7, <1>8 DEF Next, Caller

\* convertToRemoteWriteRequestsStreaming, with all its goroutines, keeps the
\* contract SampleLoader.run relies on: full requests of new series, true only
\* when the wave is complete, false only after the deadline, and at most one
\* request after it.
THEOREM ImplementsContract == Spec => ContractSpec
<1>1. Init => Contract!Init
  BY ContractInit
<1>2. IInv /\ [Next]_vars => [Contract!Next]_Contract!vars
  BY ContractStep
<1> QED
  BY <1>1, <1>2, Invariance, PTL DEF Spec, ContractSpec, Contract!Spec
=============================================================================
