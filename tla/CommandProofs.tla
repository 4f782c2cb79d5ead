--------------------------- MODULE CommandProofs ---------------------------
(***************************************************************************)
(* Commands.  schema_generator, for any number of tables and any set of    *)
(* goroutines: the tables of a round wait for its databases.               *)
(* sample_generator, for any series and any size of its batches: all       *)
(* samples arrive, or those before the batch that fails and some of it.    *)
(* pkg/http, for any batch: a request carries all of it, and what the      *)
(* caller is told of the answer is true.  loader, for any captured series, *)
(* scales, request sizes and numbers of ticks: what a tick generates, cuts *)
(* into chunks and hands to its goroutines reaches the receiver, once      *)
(* unless two clones are one series, or the error of a goroutine is        *)
(* reported.  Captured traffic, for any requests and any place where the   *)
(* file ends: what is counted is what is whole in it.                      *)
(***************************************************************************)
EXTENDS MetricsLoader, SchemaGenerator, SampleBatches, Requester, Capture, FoldLemmas,
        SequenceTheorems, FiniteSetTheorems

-----------------------------------------------------------------------------
(* schema_generator: the statements of a round.                              *)

AllStatements == Statements(1) \cup Statements(2)
Idle == {<<"connecting">>, <<"ready">>, <<"gone">>}
Queue == ToSet(sqlChan)
Tried == ToSet(tried)
Active == schemaPc \in {"sending", "waiting"}

SchemaTypeOK ==
    /\ execSQL \in BOOLEAN
    /\ schemaPc \in {"writing", "begin", "sending", "waiting", "done", "failed"}
    /\ round \in {1, 2}
    /\ toSend \subseteq AllStatements
    /\ sqlChan \in Seq(AllStatements)
    /\ job \in [Jobs -> Idle \cup AllStatements]
    /\ tried \in Seq(AllStatements)
    /\ connected \subseteq {1, 2}

\* What is under way belongs to the round, and nothing is under way between two.
InRound ==
    /\ ~Active => job = Gone
    /\ Active => /\ toSend \subseteq Statements(round)
                 /\ Queue \subseteq Statements(round)
                 /\ \A j \in Jobs : job[j] \in AllStatements => job[j] \in Statements(round)
    /\ schemaPc = "waiting" => toSend = {}
    /\ round = 1 => Tried \subseteq Statements(1) /\ 2 \notin connected
    /\ schemaPc \in {"writing", "begin"} => Tried \cap Statements(round) = {} /\ round \notin connected

\* A statement of the round is in one place only: not sent yet, in the channel, with
\* one goroutine, or tried.
OnePlace ==
    /\ IsInjective(tried)
    /\ Active => /\ IsInjective(sqlChan)
                 /\ toSend \cap Queue = {} /\ toSend \cap Tried = {} /\ Queue \cap Tried = {}
                 /\ \A j \in Jobs : job[j] \notin toSend \cup Queue \cup Tried
                 /\ \A j, k \in Jobs : job[j] \in AllStatements /\ job[j] = job[k] => j = k

\* And it is in one of them.
SomePlace ==
    Active => \A s \in Statements(round) : s \in toSend \cup Queue \cup Tried \/ \E j \in Jobs : job[j] = s

\* A goroutine that connected is there until nothing more can come.
Served ==
    Active /\ round \in connected =>
        \/ \E j \in Jobs : job[j] = <<"ready">> \/ job[j] \in AllStatements
        \/ sqlChan = <<>> /\ schemaPc = "waiting"

PhysicalFirst == \A i, j \in DOMAIN tried : i < j /\ tried[j][2] = 0 => tried[i][2] = 0

RoundsWhole == \A r \in {1, 2} : Over(r) /\ r \in connected => Statements(r) \subseteq Tried

SchemaInv == /\ SchemaTypeOK /\ InRound /\ OnePlace /\ SomePlace
             /\ Served /\ PhysicalFirst /\ RoundsWhole
----------------------------------------------------------------------------
(* Sequences that hold nothing twice, and statements.                       *)

LEMMA ToSetElement ==
    \A S : \A q \in Seq(S) : \A s : s \in ToSet(q) <=> \E i \in 1..Len(q) : s = q[i]
BY LenProperties DEF ToSet

LEMMA ToSetEmpty == ToSet(<<>>) = {} /\ IsInjective(<<>>)
BY DEF ToSet, IsInjective

LEMMA ToSetAppend ==
    ASSUME NEW S, NEW q \in Seq(S), NEW s \in S
    PROVE  /\ Append(q, s) \in Seq(S)
           /\ ToSet(Append(q, s)) = ToSet(q) \cup {s}
           /\ IsInjective(q) /\ s \notin ToSet(q) => IsInjective(Append(q, s))
<1>0. Append(q, s) \in Seq(S)
  BY AppendProperties
<1>1. /\ Append(q, s) \in Seq(S) /\ Len(Append(q, s)) = Len(q) + 1 /\ Len(q) \in Nat
      /\ \A i \in 1..Len(q) : Append(q, s)[i] = q[i]
      /\ Append(q, s)[Len(q) + 1] = s
  BY AppendProperties, LenProperties
<1>2. \A i \in 1..Len(q) + 1 : i \in 1..Len(q) \/ i = Len(q) + 1
  BY <1>1
<1>3. ASSUME NEW t PROVE t \in ToSet(Append(q, s)) <=> t \in ToSet(q) \cup {s}
  <2>1. t \in ToSet(Append(q, s)) <=> \E i \in 1..Len(q) + 1 : t = Append(q, s)[i]
    <3>1. t \in ToSet(Append(q, s)) <=> \E i \in 1..Len(Append(q, s)) : t = Append(q, s)[i]
      BY <1>0, ToSetElement
    <3> QED
      BY <1>1, <3>1
  <2>2. t \in ToSet(q) <=> \E i \in 1..Len(q) : t = q[i]
    BY ToSetElement
  <2>3. 1..Len(q) \subseteq 1..Len(q) + 1 /\ Len(q) + 1 \in 1..Len(q) + 1
    BY <1>1
  <2> QED
    BY <1>1, <1>2, <2>1, <2>2, <2>3
<1>4. ASSUME IsInjective(q), s \notin ToSet(q), NEW i \in 1..Len(q) + 1, NEW k \in 1..Len(q) + 1,
             Append(q, s)[i] = Append(q, s)[k]
      PROVE  i = k
  <2>1. \A m \in 1..Len(q) : q[m] # s
    BY <1>4, ToSetElement
  <2>2. \A m, n \in 1..Len(q) : q[m] = q[n] => m = n
    BY <1>4, LenProperties DEF IsInjective
  <2> QED
    BY <1>1, <1>2, <1>4, <2>1, <2>2
<1>5. DOMAIN Append(q, s) = 1..Len(q) + 1
  BY <1>1, LenProperties
<1> QED
  BY <1>1, <1>3, <1>4, <1>5 DEF IsInjective

LEMMA ToSetTail ==
    ASSUME NEW S, NEW q \in Seq(S), q # <<>>, IsInjective(q)
    PROVE  /\ Tail(q) \in Seq(S) /\ Head(q) \in S /\ IsInjective(Tail(q))
           /\ ToSet(q) = {Head(q)} \cup ToSet(Tail(q))
           /\ Head(q) \notin ToSet(Tail(q))
<1>0. Tail(q) \in Seq(S)
  BY HeadTailProperties
<1>1. /\ Tail(q) \in Seq(S) /\ Head(q) \in S /\ Head(q) = q[1]
      /\ Len(q) \in Nat \ {0} /\ Len(Tail(q)) = Len(q) - 1
      /\ \A i \in 1..Len(Tail(q)) : Tail(q)[i] = q[i + 1]
  BY HeadTailProperties, EmptySeq, LenProperties
<1>2. \A m, n \in 1..Len(q) : q[m] = q[n] => m = n
  BY LenProperties DEF IsInjective
<1>3. \A i \in 1..Len(Tail(q)) : i + 1 \in 1..Len(q) /\ i + 1 # 1 /\ i \in Int
  BY <1>1
<1>4. \A i, k \in 1..Len(Tail(q)) : Tail(q)[i] = Tail(q)[k] => i = k
  BY <1>1, <1>2, <1>3
<1>5. DOMAIN Tail(q) = 1..Len(Tail(q))
  BY <1>1, LenProperties
<1>6. Head(q) \notin ToSet(Tail(q))
  <2>1. Head(q) \in ToSet(Tail(q)) <=> \E i \in 1..Len(Tail(q)) : Head(q) = Tail(q)[i]
    BY <1>0, ToSetElement
  <2>2. 1 \in 1..Len(q)
    BY <1>1
  <2> QED
    BY <1>1, <1>2, <1>3, <2>1, <2>2
<1>7. ASSUME NEW t PROVE t \in ToSet(q) <=> t \in {Head(q)} \cup ToSet(Tail(q))
  <2>1. t \in ToSet(q) <=> \E i \in 1..Len(q) : t = q[i]
    BY ToSetElement
  <2>2. t \in ToSet(Tail(q)) <=> \E i \in 1..Len(Tail(q)) : t = q[i + 1]
    <3>1. t \in ToSet(Tail(q)) <=> \E i \in 1..Len(Tail(q)) : t = Tail(q)[i]
      BY <1>0, ToSetElement
    <3> QED
      BY <1>1, <3>1
  <2>3. ASSUME t \in ToSet(q), t # Head(q) PROVE t \in ToSet(Tail(q))
    <3>1. PICK i \in 1..Len(q) : t = q[i]
      BY <2>1, <2>3
    <3>2. i - 1 \in 1..Len(Tail(q)) /\ q[(i - 1) + 1] = t
      BY <1>1, <2>3, <3>1
    <3> QED
      BY <2>2, <3>2
  <2>4. 1 \in 1..Len(q)
    BY <1>1
  <2> QED
    BY <1>1, <1>3, <2>1, <2>2, <2>3, <2>4
<1> QED
  BY <1>1, <1>4, <1>5, <1>6, <1>7 DEF IsInjective

LEMMA TriedStatements == SchemaTypeOK => Tried \subseteq AllStatements
BY ToSetElement, ElementOfSeq DEF SchemaTypeOK, Tried

\* A statement is a pair, which tells its round and is no state of a goroutine.
LEMMA StatementShape ==
    /\ \A s \in AllStatements : Len(s) = 2 /\ s \notin Idle
    /\ \A s \in Idle : Len(s) = 1
    /\ \A s \in Statements(1) : s[2] = 0
    /\ \A s \in Statements(2) : s[2] # 0
    /\ Statements(1) \cap Statements(2) = {}
    /\ \A r \in {1, 2} : Statements(r) \subseteq AllStatements
BY SchemaAssumption DEF AllStatements, Statements, Idle

LEMMA StatementsFinite == \A r \in {1, 2} : IsFiniteSet(Statements(r))
<1>1. IsFiniteSet({0})
  BY FS_Singleton
<1>2. IsFiniteSet(1..PhysicalCount) /\ IsFiniteSet(1..SampleCount)
  BY SchemaAssumption, FS_Interval
<1>3. IsFiniteSet((1..PhysicalCount) \X {0}) /\ IsFiniteSet((1..PhysicalCount) \X (1..SampleCount))
  BY <1>1, <1>2, FS_Product
<1> QED
  BY <1>3 DEF Statements
----------------------------------------------------------------------------
(* Every step keeps the invariant.                                          *)

USE DEF Active, Queue, Tried

LEMMA SchemaInitInv == SchemaInit => SchemaInv
<1> SUFFICES ASSUME SchemaInit PROVE SchemaInv
  OBVIOUS
<1>1. SchemaTypeOK
  BY DEF SchemaInit, SchemaTypeOK, Gone, Idle
<1> QED
  BY <1>1, ToSetEmpty DEF SchemaInit, SchemaInv, InRound, OnePlace, SomePlace, Served, PhysicalFirst,
                          RoundsWhole, Over

\* The main goroutine begins or ends something and leaves the statements alone.
LEMMA FilesInv == SchemaInv /\ WriteFiles => SchemaInv'
BY DEF SchemaInv, WriteFiles, roundVars, SchemaTypeOK, InRound, OnePlace, SomePlace, Served, PhysicalFirst,
       RoundsWhole, Over

LEMMA CloseInv == SchemaInv /\ CloseChan => SchemaInv'
BY DEF SchemaInv, CloseChan, roundVars, SchemaTypeOK, InRound, OnePlace, SomePlace, Served, PhysicalFirst,
       RoundsWhole, Over

LEMMA StartInv == SchemaInv /\ StartJobs => SchemaInv'
<1> SUFFICES ASSUME SchemaInv, StartJobs PROVE SchemaInv'
  OBVIOUS
<1> USE DEF StartJobs
<1>1. SchemaTypeOK'
  BY StatementShape DEF SchemaInv, SchemaTypeOK, Idle
<1>2. \A j \in Jobs : job'[j] \notin AllStatements
  BY StatementShape DEF Idle
<1>3. InRound'
  BY <1>2, ToSetEmpty DEF SchemaInv, InRound
<1>4. OnePlace'
  <2>1. \A j \in Jobs : job'[j] \notin toSend' \cup Queue' \cup Tried
    BY <1>2, ToSetEmpty, StatementShape, TriedStatements DEF SchemaInv, SchemaTypeOK
  <2>2. toSend' \cap Tried = {} /\ Queue' = {} /\ IsInjective(sqlChan')
    BY ToSetEmpty DEF SchemaInv, InRound
  <2> QED
    BY <1>2, <2>1, <2>2 DEF SchemaInv, OnePlace
<1>5. SomePlace'
  BY DEF SomePlace
<1>6. Served'
  BY DEF SchemaInv, Served, InRound
<1>7. PhysicalFirst' /\ RoundsWhole'
  BY DEF SchemaInv, PhysicalFirst, RoundsWhole, Over
<1> QED
  BY <1>1, <1>3, <1>4, <1>5, <1>6, <1>7 DEF SchemaInv

LEMMA SendInv == SchemaInv /\ SendStatement => SchemaInv'
<1> SUFFICES ASSUME SchemaInv, SendStatement PROVE SchemaInv'
  OBVIOUS
<1>1. PICK s \in toSend : sqlChan' = Append(sqlChan, s) /\ toSend' = toSend \ {s}
  BY DEF SendStatement
<1>2. /\ s \in AllStatements /\ s \notin Queue /\ sqlChan \in Seq(AllStatements)
      /\ IsInjective(sqlChan) /\ schemaPc = "sending"
  BY <1>1 DEF SchemaInv, SchemaTypeOK, OnePlace, SendStatement
<1>3. sqlChan' \in Seq(AllStatements) /\ Queue' = Queue \cup {s} /\ IsInjective(sqlChan')
  BY <1>1, <1>2, ToSetAppend
<1>4. UNCHANGED <<execSQL, schemaPc, round, job, tried, connected>>
  BY DEF SendStatement
<1>5. SchemaTypeOK'
  BY <1>1, <1>3, <1>4 DEF SchemaInv, SchemaTypeOK
<1>6. InRound'
  BY <1>1, <1>2, <1>3, <1>4 DEF SchemaInv, InRound
<1>7. OnePlace'
  BY <1>1, <1>3, <1>4 DEF SchemaInv, OnePlace
<1>8. SomePlace'
  BY <1>1, <1>3, <1>4 DEF SchemaInv, SomePlace
<1>9. Served' /\ PhysicalFirst' /\ RoundsWhole'
  BY <1>2, <1>4 DEF SchemaInv, Served, PhysicalFirst, RoundsWhole, Over
<1> QED
  BY <1>5, <1>6, <1>7, <1>8, <1>9 DEF SchemaInv

\* A goroutine that connects, or that goes, holds no statement.
LEMMA ConnectInv == ASSUME NEW j \in Jobs PROVE SchemaInv /\ Connect(j) => SchemaInv'
<1> SUFFICES ASSUME SchemaInv, Connect(j) PROVE SchemaInv'
  OBVIOUS
<1>1. /\ job' = [job EXCEPT ![j] = <<"ready">>] /\ job[j] = <<"connecting">>
      /\ connected' = connected \cup {round}
      /\ UNCHANGED <<execSQL, schemaPc, round, toSend, sqlChan, tried>>
  BY DEF Connect, SetJob
<1>2. /\ job[j] \notin AllStatements /\ job'[j] \notin AllStatements /\ job'[j] = <<"ready">>
      /\ \A k \in Jobs \ {j} : job'[k] = job[k]
  BY <1>1, StatementShape DEF SchemaInv, SchemaTypeOK, Idle
<1>3. Active
  BY <1>1 DEF SchemaInv, InRound, Gone
<1>4. SchemaTypeOK'
  BY <1>1 DEF SchemaInv, SchemaTypeOK, Idle
<1>5. InRound'
  BY <1>1, <1>2, <1>3 DEF SchemaInv, InRound, SchemaTypeOK
<1>6. OnePlace'
  <2>1. \A k \in Jobs : job'[k] \notin toSend \cup Queue \cup Tried
    BY <1>1, <1>2, <1>3, ToSetElement DEF SchemaInv, SchemaTypeOK, OnePlace, InRound
  <2> QED
    BY <1>1, <1>2, <1>3, <2>1 DEF SchemaInv, OnePlace
<1>7. SomePlace'
  BY <1>1, <1>2, <1>3, StatementShape DEF SchemaInv, SomePlace, SchemaTypeOK
<1>8. Served' /\ PhysicalFirst'
  BY <1>1, <1>2 DEF SchemaInv, Served, PhysicalFirst
<1>9. RoundsWhole'
  BY <1>1, <1>3 DEF SchemaInv, RoundsWhole, Over, SchemaTypeOK
<1> QED
  BY <1>4, <1>5, <1>6, <1>7, <1>8, <1>9 DEF SchemaInv

LEMMA GoneInv ==
    ASSUME NEW j \in Jobs, SchemaInv, ConnectFails(j) \/ LeaveChan(j)
    PROVE  SchemaInv'
<1>1. /\ job' = [job EXCEPT ![j] = <<"gone">>] /\ job[j] \in {<<"connecting">>, <<"ready">>}
      /\ job[j] = <<"ready">> => sqlChan = <<>> /\ schemaPc = "waiting"
      /\ UNCHANGED <<execSQL, schemaPc, round, toSend, sqlChan, tried, connected>>
  <2>1. CASE ConnectFails(j)
    BY <2>1 DEF ConnectFails, SetJob
  <2>2. CASE LeaveChan(j)
    BY <2>2 DEF LeaveChan, SetJob
  <2> QED
    BY <2>1, <2>2
<1>2. /\ job[j] \notin AllStatements /\ job'[j] \notin AllStatements
      /\ \A k \in Jobs \ {j} : job'[k] = job[k]
  BY <1>1, StatementShape DEF SchemaInv, SchemaTypeOK, Idle
<1>3. Active
  BY <1>1 DEF SchemaInv, InRound, Gone
<1>4. SchemaTypeOK'
  BY <1>1 DEF SchemaInv, SchemaTypeOK, Idle
<1>5. InRound'
  BY <1>1, <1>2, <1>3 DEF SchemaInv, InRound, SchemaTypeOK
<1>6. OnePlace'
  <2>1. \A k \in Jobs : job'[k] \notin toSend \cup Queue \cup Tried
    <3>1. toSend \subseteq AllStatements /\ sqlChan \in Seq(AllStatements) /\ tried \in Seq(AllStatements)
      BY DEF SchemaInv, SchemaTypeOK
    <3>2. ToSet(sqlChan) \subseteq AllStatements /\ ToSet(tried) \subseteq AllStatements
      BY <3>1 DEF ToSet
    <3>3. job'[j] \notin toSend \cup Queue \cup Tried
      BY <1>2, <3>1, <3>2
    <3>4. \A k \in Jobs : job[k] \notin toSend \cup Queue \cup Tried
      BY <1>3 DEF SchemaInv, OnePlace
    <3> QED
      BY <1>2, <3>3, <3>4
  <2> QED
    BY <1>1, <1>2, <1>3, <2>1 DEF SchemaInv, OnePlace
<1>7. SomePlace'
  BY <1>1, <1>2, <1>3, StatementShape DEF SchemaInv, SomePlace, SchemaTypeOK
<1>8. Served'
  <2>1. CASE job[j] = <<"ready">>
    BY <1>1, <2>1 DEF Served
  <2>2. CASE job[j] = <<"connecting">>
    BY <1>1, <1>2, <2>2 DEF SchemaInv, Served
  <2> QED
    BY <1>1, <2>1, <2>2
<1>9. PhysicalFirst' /\ RoundsWhole'
  BY <1>1 DEF SchemaInv, PhysicalFirst, RoundsWhole, Over
<1> QED
  BY <1>4, <1>5, <1>6, <1>7, <1>8, <1>9 DEF SchemaInv

LEMMA TakeInv == ASSUME NEW j \in Jobs PROVE SchemaInv /\ TakeStatement(j) => SchemaInv'
<1> SUFFICES ASSUME SchemaInv, TakeStatement(j) PROVE SchemaInv'
  OBVIOUS
<1> DEFINE s == Head(sqlChan)
<1>1. /\ job' = [job EXCEPT ![j] = s] /\ job[j] = <<"ready">>
      /\ sqlChan # <<>> /\ sqlChan' = Tail(sqlChan)
      /\ UNCHANGED <<execSQL, schemaPc, round, toSend, tried, connected>>
  BY DEF TakeStatement, SetJob
<1>2. Active
  BY <1>1 DEF SchemaInv, InRound, Gone
<1>3. /\ sqlChan' \in Seq(AllStatements) /\ s \in AllStatements /\ IsInjective(sqlChan')
      /\ Queue = {s} \cup Queue' /\ s \notin Queue'
  <2>1. sqlChan \in Seq(AllStatements) /\ IsInjective(sqlChan)
    BY <1>2 DEF SchemaInv, SchemaTypeOK, OnePlace
  <2> QED
    BY <1>1, <2>1, ToSetTail
<1> HIDE DEF s
<1>4. /\ job[j] \notin AllStatements /\ job'[j] = s
      /\ \A k \in Jobs \ {j} : job'[k] = job[k]
  BY <1>1, StatementShape DEF SchemaInv, SchemaTypeOK, Idle
<1>5. SchemaTypeOK'
  BY <1>1, <1>3 DEF SchemaInv, SchemaTypeOK
<1>6. InRound'
  BY <1>1, <1>2, <1>3, <1>4 DEF SchemaInv, InRound
<1>7. OnePlace'
  <2>1. s \notin toSend \cup Tried /\ \A k \in Jobs : job[k] # s
    BY <1>2, <1>3 DEF SchemaInv, OnePlace
  <2> QED
    BY <1>1, <1>2, <1>3, <1>4, <2>1 DEF SchemaInv, OnePlace
<1>8. SomePlace'
  <2>1. \A t \in Statements(round) : t \in AllStatements
    BY StatementShape DEF SchemaInv, SchemaTypeOK
  <2> QED
    BY <1>1, <1>2, <1>3, <1>4, <2>1 DEF SchemaInv, SomePlace
<1>9. Served' /\ PhysicalFirst' /\ RoundsWhole'
  BY <1>1, <1>3, <1>4 DEF SchemaInv, Served, PhysicalFirst, RoundsWhole, Over
<1> QED
  BY <1>5, <1>6, <1>7, <1>8, <1>9 DEF SchemaInv

LEMMA ExecuteInv == ASSUME NEW j \in Jobs PROVE SchemaInv /\ ExecuteStatement(j) => SchemaInv'
<1> SUFFICES ASSUME SchemaInv, ExecuteStatement(j) PROVE SchemaInv'
  OBVIOUS
<1>1. /\ job' = [job EXCEPT ![j] = <<"ready">>] /\ Len(job[j]) = 2
      /\ tried' = Append(tried, job[j])
      /\ UNCHANGED <<execSQL, schemaPc, round, toSend, sqlChan, connected>>
  BY DEF ExecuteStatement, SetJob
<1>2. /\ job[j] \in AllStatements /\ job'[j] = <<"ready">> /\ <<"ready">> \notin AllStatements
      /\ \A k \in Jobs \ {j} : job'[k] = job[k]
  <2>1. job \in [Jobs -> Idle \cup AllStatements]
    BY DEF SchemaInv, SchemaTypeOK
  <2>2. job[j] \in AllStatements
    BY <1>1, <2>1, StatementShape
  <2> QED
    BY <1>1, <2>1, <2>2, StatementShape DEF Idle
<1>3. Active
  BY <1>2, StatementShape DEF SchemaInv, InRound, Gone, Idle
<1>4. job[j] \in Statements(round) /\ job[j] \notin Tried
  BY <1>2, <1>3 DEF SchemaInv, InRound, OnePlace
<1>5. tried' \in Seq(AllStatements) /\ Tried' = Tried \cup {job[j]} /\ IsInjective(tried')
  <2>1. tried \in Seq(AllStatements) /\ IsInjective(tried)
    BY DEF SchemaInv, SchemaTypeOK, OnePlace
  <2> QED
    BY <1>1, <1>2, <1>4, <2>1, ToSetAppend
<1>6. SchemaTypeOK'
  BY <1>1, <1>5 DEF SchemaInv, SchemaTypeOK, Idle
<1>7. InRound'
  BY <1>1, <1>2, <1>3, <1>4, <1>5 DEF SchemaInv, InRound
<1>8. OnePlace'
  <2>1. \A k \in Jobs : job'[k] \notin toSend \cup Queue \cup Tried'
    <3>1. <<"ready">> \notin toSend \cup Queue \cup Tried
      BY <1>2, <1>3, ToSetElement, StatementShape, TriedStatements DEF SchemaInv, SchemaTypeOK, InRound
    <3>2. \A k \in Jobs \ {j} : job[k] # job[j]
      BY <1>2, <1>3 DEF SchemaInv, OnePlace
    <3> QED
      BY <1>2, <1>3, <1>5, <3>1, <3>2 DEF SchemaInv, OnePlace
  <2> QED
    BY <1>1, <1>2, <1>3, <1>5, <2>1 DEF SchemaInv, OnePlace
<1>9. SomePlace'
  BY <1>1, <1>2, <1>3, <1>5 DEF SchemaInv, SomePlace
<1>10. Served' /\ RoundsWhole'
  BY <1>1, <1>2, <1>5 DEF SchemaInv, Served, RoundsWhole, Over
<1>11. PhysicalFirst'
  <2>1. /\ DOMAIN tried' = 1..Len(tried) + 1 /\ DOMAIN tried = 1..Len(tried) /\ Len(tried) \in Nat
        /\ \A i \in 1..Len(tried) : tried'[i] = tried[i]
        /\ tried'[Len(tried) + 1] = job[j]
    BY <1>1, <1>2, AppendProperties, LenProperties DEF SchemaInv, SchemaTypeOK
  <2>2. job[j][2] = 0 => \A i \in 1..Len(tried) : tried[i][2] = 0
    <3> SUFFICES ASSUME job[j][2] = 0, NEW i \in 1..Len(tried) PROVE tried[i][2] = 0
      OBVIOUS
    <3>1. round = 1
      BY <1>4, StatementShape DEF SchemaInv, SchemaTypeOK
    <3>2. tried[i] \in Tried
      BY <2>1 DEF ToSet
    <3> QED
      BY <3>1, <3>2, StatementShape DEF SchemaInv, InRound
  <2> QED
    BY <2>1, <2>2 DEF SchemaInv, PhysicalFirst
<1> QED
  BY <1>6, <1>7, <1>8, <1>9, <1>10, <1>11 DEF SchemaInv

\* A round is over: if somebody connected, all its statements were tried.
LEMMA EndInv ==
    ASSUME SchemaInv, Skip \/ WaitJobs
    PROVE  SchemaInv'
<1>1. /\ EndRound /\ UNCHANGED <<execSQL, roundVars, tried, connected>>
      /\ job = Gone
      /\ round \in connected /\ execSQL => Statements(round) \subseteq Tried
      /\ schemaPc \in {"begin", "waiting"}
  <2>1. CASE Skip
    BY <2>1 DEF Skip, SchemaInv, InRound
  <2>2. CASE WaitJobs
    <3>1. \A j \in Jobs : job[j] \notin AllStatements /\ job[j] # <<"ready">>
      BY <2>2, StatementShape DEF WaitJobs, Gone, Idle
    <3>2. round \in connected => sqlChan = <<>>
      BY <2>2, <3>1 DEF SchemaInv, Served, WaitJobs
    <3>3. toSend = {} /\ (round \in connected => Queue = {})
      BY <2>2, <3>2, ToSetEmpty DEF SchemaInv, InRound, WaitJobs
    <3>4. \A t \in Statements(round) : t \in AllStatements
      BY StatementShape DEF SchemaInv, SchemaTypeOK
    <3> QED
      BY <2>2, <3>1, <3>3, <3>4 DEF SchemaInv, SomePlace, WaitJobs
  <2> QED
    BY <2>1, <2>2
<1>2. SchemaTypeOK' /\ SomePlace' /\ Served' /\ PhysicalFirst'
  BY <1>1 DEF EndRound, roundVars, SchemaInv, SchemaTypeOK, SomePlace, Served, PhysicalFirst
<1>3. InRound'
  BY <1>1, StatementShape DEF EndRound, roundVars, SchemaInv, SchemaTypeOK, InRound, Gone
<1>4. OnePlace'
  BY <1>1 DEF EndRound, roundVars, SchemaInv, OnePlace
<1>5. RoundsWhole'
  BY <1>1 DEF EndRound, SchemaInv, SchemaTypeOK, RoundsWhole, Over
<1> QED
  BY <1>2, <1>3, <1>4, <1>5 DEF SchemaInv

LEMMA SchemaStep ==
    ASSUME SchemaInv, [SchemaNext]_schemaVars
    PROVE  SchemaInv'
<1>1. CASE \E j \in Jobs : JobStep(j)
  BY <1>1, ConnectInv, GoneInv, TakeInv, ExecuteInv DEF JobStep
<1>2. CASE UNCHANGED schemaVars
  BY <1>2 DEF schemaVars, roundVars, SchemaInv, SchemaTypeOK, InRound, OnePlace, SomePlace, Served,
              PhysicalFirst, RoundsWhole, Over, Gone
<1> QED
  BY <1>1, <1>2, FilesInv, StartInv, SendInv, CloseInv, EndInv DEF SchemaNext

\* The strengthening above is an invariant, whichever goroutines fail to connect.
THEOREM SchemaInvariance == SchemaSpec => []SchemaInv
BY SchemaInitInv, SchemaStep, PTL DEF SchemaSpec

\* The channel has room for what is not sent yet: what is in it is in it once.
LEMMA RoomLeft ==
    ASSUME SchemaInv, schemaPc = "sending", toSend # {}
    PROVE  Len(sqlChan) < Capacity
<1>1. sqlChan \in Seq(AllStatements) /\ IsInjective(sqlChan) /\ Queue \cap toSend = {}
      /\ Queue \subseteq Statements(round) /\ toSend \subseteq Statements(round)
  BY DEF SchemaInv, SchemaTypeOK, InRound, OnePlace
<1>2. IsFiniteSet(Statements(round))
  BY StatementsFinite DEF SchemaInv, SchemaTypeOK
<1>3. IsFiniteSet(Queue) /\ Cardinality(Queue) <= Capacity /\ Cardinality(Queue) # Capacity
  <2>1. Queue # Statements(round)
    BY <1>1
  <2> QED
    BY <1>1, <1>2, <2>1, FS_Subset DEF Capacity
<1>4. Len(sqlChan) \in Nat /\ DOMAIN sqlChan = 1..Len(sqlChan)
  BY <1>1, LenProperties
<1>5. Cardinality(Queue) = Len(sqlChan)
  <2>1. sqlChan \in Bijection(1..Len(sqlChan), Queue)
    <3>1. sqlChan \in [1..Len(sqlChan) -> Queue]
      BY <1>1, <1>4 DEF ToSet
    <3>2. \A t \in Queue : \E i \in 1..Len(sqlChan) : sqlChan[i] = t
      BY <1>4 DEF ToSet
    <3> QED
      BY <1>1, <3>1, <3>2 DEF Bijection, Injection, Surjection
  <2>2. ExistsBijection(1..Len(sqlChan), Queue)
    BY <2>1 DEF ExistsBijection
  <2>3. IsFiniteSet(1..Len(sqlChan)) /\ Cardinality(1..Len(sqlChan)) = Len(sqlChan)
    <3>1. \A n \in Nat : IsFiniteSet(1..n) /\ Cardinality(1..n) = n
      BY FS_Interval
    <3> QED
      BY <1>4, <3>1
  <2> QED
    BY <2>2, <2>3, FS_Bijection
<1>6. Cardinality(Queue) \in Nat /\ Capacity \in Nat
  BY <1>2, <1>3, FS_CardinalityType DEF Capacity
<1> QED
  BY <1>3, <1>5, <1>6

\* Physical tables before logical ones; whatever goroutines fail to connect, no
\* statement is tried twice, a round that one of them serves is tried as a whole, and
\* the main goroutine always has room to send.
THEOREM StatementsInOrder == SchemaSpec => []SchemaInOrder
<1>1. SchemaInv => SchemaInOrder
  BY RoomLeft DEF SchemaInv, OnePlace, PhysicalFirst, RoundsWhole, SchemaInOrder
<1> QED
  BY <1>1, SchemaInvariance, PTL

-----------------------------------------------------------------------------
(* sample_generator: the batches.                                            *)

Sample == [series : Nat, sample : Int]
Part == [series : Nat, samples : Seq(Int)]

\* The samples of a part of a series, and all those of a sequence of them, which
\* Points puts together.
Labelled(series, samples) == [s \in DOMAIN samples |-> [series |-> series, sample |-> samples[s]]]
AllLabelled(parts) == [p \in DOMAIN parts |-> Labelled(parts[p].series, parts[p].samples)]

\* The samples of each batch, and of each series.
PointsOf(sent) == [b \in DOMAIN sent |-> Points(sent[b])]
WholeSeries == [s \in DOMAIN timeSeries |-> [series |-> s, samples |-> timeSeries[s]]]

LEMMA LabelledFacts ==
    ASSUME NEW n \in Nat, NEW samples \in Seq(Int)
    PROVE  Labelled(n, samples) \in Seq(Sample) /\ Len(Labelled(n, samples)) = Len(samples)
<1>1. DOMAIN samples = 1..Len(samples) /\ Len(samples) \in Nat /\ \A s \in 1..Len(samples) : samples[s] \in Int
  OBVIOUS
<1>2. \A s \in 1..Len(samples) : [series |-> n, sample |-> samples[s]] \in Sample
  BY <1>1 DEF Sample
<1>3. Labelled(n, samples) \in [1..Len(samples) -> Sample]
  BY <1>1, <1>2 DEF Labelled
<1> QED
  BY <1>1, <1>3

LEMMA PointsFlatten ==
    ASSUME NEW parts \in Seq(Part)
    PROVE  /\ Points(parts) = FlattenSeq(AllLabelled(parts))
           /\ AllLabelled(parts) \in Seq(Seq(Sample)) /\ Len(AllLabelled(parts)) = Len(parts)
           /\ Points(parts) \in Seq(Sample)
<1>1. DOMAIN parts = 1..Len(parts) /\ Len(parts) \in Nat
      /\ \A p \in 1..Len(parts) : parts[p].series \in Nat /\ parts[p].samples \in Seq(Int)
  <2>1. DOMAIN parts = 1..Len(parts) /\ Len(parts) \in Nat /\ \A p \in 1..Len(parts) : parts[p] \in Part
    OBVIOUS
  <2> QED
    BY <2>1 DEF Part
<1>2. AllLabelled(parts) \in [1..Len(parts) -> Seq(Sample)]
  BY <1>1, LabelledFacts DEF AllLabelled
<1>3. AllLabelled(parts) \in Seq(Seq(Sample)) /\ Len(AllLabelled(parts)) = Len(parts)
  BY <1>1, <1>2
<1>4. Points(parts) = FlattenSeq(AllLabelled(parts))
  BY DEF Points, AllLabelled, Labelled
<1> QED
  BY <1>3, <1>4, FlattenRange

LEMMA PointsAppend ==
    ASSUME NEW parts \in Seq(Part), NEW n \in Nat, NEW samples \in Seq(Int)
    PROVE  /\ Append(parts, [series |-> n, samples |-> samples]) \in Seq(Part)
           /\ Points(Append(parts, [series |-> n, samples |-> samples])) = Points(parts) \o Labelled(n, samples)
<1> DEFINE part == [series |-> n, samples |-> samples]
           more == Append(parts, part)
<1>1. part \in Part /\ part.series = n /\ part.samples = samples
  BY DEF Part
<1> HIDE DEF part
<1>2. more \in Seq(Part) /\ Len(more) = Len(parts) + 1 /\ DOMAIN more = 1..(Len(parts) + 1)
      /\ DOMAIN parts = 1..Len(parts) /\ Len(parts) \in Nat
      /\ more[Len(parts) + 1] = part /\ \A p \in 1..Len(parts) : more[p] = parts[p]
  BY <1>1
<1>3. AllLabelled(more) = Append(AllLabelled(parts), Labelled(n, samples))
  <2> DEFINE a == AllLabelled(more)
             b == Append(AllLabelled(parts), Labelled(n, samples))
  <2>1. a \in Seq(Seq(Sample)) /\ Len(a) = Len(parts) + 1
    BY <1>2, PointsFlatten
  <2>2. /\ AllLabelled(parts) \in Seq(Seq(Sample)) /\ Len(AllLabelled(parts)) = Len(parts)
        /\ Labelled(n, samples) \in Seq(Sample)
    BY PointsFlatten, LabelledFacts
  <2>3. /\ b \in Seq(Seq(Sample)) /\ Len(b) = Len(parts) + 1 /\ b[Len(parts) + 1] = Labelled(n, samples)
        /\ \A p \in 1..Len(parts) : b[p] = AllLabelled(parts)[p]
    BY <1>2, <2>2
  <2>4. \A p \in 1..Len(parts) : a[p] = AllLabelled(parts)[p]
    BY <1>2 DEF AllLabelled
  <2>5. a[Len(parts) + 1] = Labelled(n, samples)
    BY <1>1, <1>2 DEF AllLabelled
  <2> HIDE DEF a, b, more
  <2>6. \A p \in 1..(Len(parts) + 1) : a[p] = b[p]
    <3>1. \A p \in 1..(Len(parts) + 1) : p \in 1..Len(parts) \/ p = Len(parts) + 1
      OBVIOUS
    <3> QED
      BY <2>3, <2>4, <2>5, <3>1
  <2>7. a = b
    BY <2>1, <2>3, <2>6
  <2> QED
    BY <2>7 DEF a, b
<1>4. FlattenSeq(AllLabelled(more)) = FlattenSeq(AllLabelled(parts)) \o Labelled(n, samples)
  BY <1>3, PointsFlatten, LabelledFacts, FlattenAppend
<1>5. Points(more) = FlattenSeq(AllLabelled(more)) /\ Points(parts) = FlattenSeq(AllLabelled(parts))
  BY <1>2, PointsFlatten
<1>6. Points(more) = Points(parts) \o Labelled(n, samples)
  BY <1>4, <1>5
<1> QED
  BY <1>2, <1>6 DEF part

LEMMA PointsOfFacts ==
    ASSUME NEW sent \in Seq(Seq(Part))
    PROVE  /\ PointsOf(sent) \in Seq(Seq(Sample)) /\ Len(PointsOf(sent)) = Len(sent)
           /\ \A b \in 1..Len(sent) : PointsOf(sent)[b] = Points(sent[b])
<1>1. DOMAIN sent = 1..Len(sent) /\ Len(sent) \in Nat /\ \A b \in 1..Len(sent) : sent[b] \in Seq(Part)
  OBVIOUS
<1>2. PointsOf(sent) \in [1..Len(sent) -> Seq(Sample)]
  BY <1>1, PointsFlatten DEF PointsOf
<1> QED
  BY <1>1, <1>2 DEF PointsOf

LEMMA PointsOfAppend ==
    ASSUME NEW sent \in Seq(Seq(Part)), NEW parts \in Seq(Part)
    PROVE  /\ PointsOf(Append(sent, parts)) = Append(PointsOf(sent), Points(parts))
           /\ FlattenSeq(PointsOf(Append(sent, parts))) = FlattenSeq(PointsOf(sent)) \o Points(parts)
<1> DEFINE more == Append(sent, parts)
           a == PointsOf(more)
           b == Append(PointsOf(sent), Points(parts))
<1>1. /\ more \in Seq(Seq(Part)) /\ Len(more) = Len(sent) + 1 /\ Len(sent) \in Nat
      /\ more[Len(sent) + 1] = parts /\ \A p \in 1..Len(sent) : more[p] = sent[p]
  OBVIOUS
<1> HIDE DEF more
<1>2. /\ a \in Seq(Seq(Sample)) /\ Len(a) = Len(sent) + 1
      /\ \A p \in 1..(Len(sent) + 1) : a[p] = Points(more[p])
  BY <1>1, PointsOfFacts
<1>3. /\ PointsOf(sent) \in Seq(Seq(Sample)) /\ Len(PointsOf(sent)) = Len(sent)
      /\ \A p \in 1..Len(sent) : PointsOf(sent)[p] = Points(sent[p])
      /\ Points(parts) \in Seq(Sample)
  BY PointsOfFacts, PointsFlatten
<1>4. /\ b \in Seq(Seq(Sample)) /\ Len(b) = Len(sent) + 1 /\ b[Len(sent) + 1] = Points(parts)
      /\ \A p \in 1..Len(sent) : b[p] = Points(sent[p])
  BY <1>1, <1>3
<1> HIDE DEF a, b
<1>5. a = b
  <2>1. \A p \in 1..(Len(sent) + 1) : p \in 1..Len(sent) \/ p = Len(sent) + 1
    OBVIOUS
  <2>2. \A p \in 1..Len(sent) : p \in 1..(Len(sent) + 1)
    OBVIOUS
  <2>3. \A p \in 1..(Len(sent) + 1) : a[p] = b[p]
    BY <1>1, <1>2, <1>4, <2>1, <2>2
  <2> QED
    BY <1>2, <1>4, <2>3
<1>6. FlattenSeq(b) = FlattenSeq(PointsOf(sent)) \o Points(parts)
  BY <1>3, FlattenAppend DEF b
<1> QED
  BY <1>5, <1>6 DEF a, b, more

BatchTypes ==
    /\ maxSamples \in Nat \ {0}
    /\ timeSeries \in Seq(Seq(Int))
    /\ at \in 0..Len(timeSeries)
    /\ remaining \in Seq(Int)
    /\ batch \in Seq(Part)
    /\ batches \in Seq(Seq(Part))
    /\ sampleCount \in Nat
    /\ batchPc \in {"split", "send", "ended"}
    /\ nextBatch \in Nat \ {0}
    /\ exit \in Nat
    /\ delivered \in Seq(Sample)
    /\ partly \subseteq Sample

\* The batches, the one being filled and what remains of the series are the series
\* up to this one.
SplitInv == batchPc = "split" =>
    /\ (FlattenSeq(PointsOf(batches)) \o Points(batch)) \o Labelled(at, remaining)
          = FlattenTo(AllLabelled(WholeSeries), at)
    /\ Len(Points(batch)) = sampleCount /\ sampleCount < maxSamples
    /\ sampleCount = 0 => batch = <<>>
    /\ \A b \in 1..Len(batches) : Len(Points(batches[b])) = maxSamples
    /\ nextBatch = 1 /\ exit = 0 /\ delivered = <<>> /\ partly = {}

\* The batches are all the series, and full but for the last.
BatchesDone ==
    /\ FlattenSeq(PointsOf(batches)) = All
    /\ \A b \in 1..Len(batches) : /\ Len(Points(batches[b])) \in 1..maxSamples
                                  /\ b # Len(batches) => Len(Points(batches[b])) = maxSamples

SentTo(n) == FlattenTo(PointsOf(batches), n)

BatchSendInv == batchPc # "split" =>
    /\ BatchesDone
    /\ nextBatch <= Len(batches) + 1
    /\ IF exit = 0 THEN /\ delivered = SentTo(nextBatch - 1) /\ partly = {}
                        /\ batchPc = "ended" => nextBatch = Len(batches) + 1
       ELSE /\ exit = nextBatch /\ exit <= Len(batches) /\ batchPc = "ended"
            /\ delivered = SentTo(exit - 1) /\ partly \subseteq Range(Points(batches[exit]))

BatchesInv == BatchTypes /\ SplitInv /\ BatchSendInv

LEMMA WholeFacts ==
    ASSUME timeSeries \in Seq(Seq(Int))
    PROVE  /\ AllLabelled(WholeSeries) \in Seq(Seq(Sample))
           /\ Len(AllLabelled(WholeSeries)) = Len(timeSeries)
           /\ \A s \in 1..Len(timeSeries) : AllLabelled(WholeSeries)[s] = Labelled(s, timeSeries[s])
           /\ All = FlattenTo(AllLabelled(WholeSeries), Len(timeSeries))
<1>1. /\ DOMAIN timeSeries = 1..Len(timeSeries) /\ Len(timeSeries) \in Nat
      /\ \A s \in 1..Len(timeSeries) : timeSeries[s] \in Seq(Int)
  OBVIOUS
<1>2. \A s \in 1..Len(timeSeries) : [series |-> s, samples |-> timeSeries[s]] \in Part
  BY <1>1 DEF Part
<1>3. WholeSeries \in [1..Len(timeSeries) -> Part]
  BY <1>1, <1>2 DEF WholeSeries
<1>4. WholeSeries \in Seq(Part) /\ Len(WholeSeries) = Len(timeSeries)
  <2> DEFINE n == Len(timeSeries)
             w == WholeSeries
  <2>1. n \in Nat /\ w \in [1..n -> Part]
    BY <1>1, <1>3
  <2> HIDE DEF n, w
  <2>2. w \in Seq(Part) /\ Len(w) = n
    BY <2>1
  <2> QED
    BY <2>2 DEF n, w
<1>5. \A s \in 1..Len(timeSeries) : AllLabelled(WholeSeries)[s] = Labelled(s, timeSeries[s])
  BY <1>1 DEF AllLabelled, WholeSeries
<1>6. All = FlattenSeq(AllLabelled(WholeSeries))
  BY <1>4, PointsFlatten DEF All, WholeSeries
<1> QED
  BY <1>4, <1>5, <1>6, PointsFlatten, FlattenEnds

LEMMA NothingLabelled ==
    ASSUME NEW n \in Nat
    PROVE  Points(<<>>) = <<>> /\ FlattenSeq(PointsOf(<<>>)) = <<>> /\ Labelled(n, <<>>) = <<>>
<1>1. DOMAIN <<>> = {} /\ <<>> \in Seq(Part) /\ <<>> \in Seq(Seq(Part)) /\ <<>> \in Seq(Int)
  OBVIOUS
<1>2. /\ AllLabelled(<<>>) \in Seq(Seq(Sample)) /\ Len(AllLabelled(<<>>)) = 0
      /\ PointsOf(<<>>) \in Seq(Seq(Sample)) /\ Len(PointsOf(<<>>)) = 0
      /\ Labelled(n, <<>>) \in Seq(Sample) /\ Len(Labelled(n, <<>>)) = 0
  BY <1>1, PointsFlatten, PointsOfFacts, LabelledFacts
<1>3. AllLabelled(<<>>) = <<>> /\ PointsOf(<<>>) = <<>> /\ Labelled(n, <<>>) = <<>>
  BY <1>2
<1> QED
  BY <1>1, <1>3, PointsFlatten, FlattenEmpty

LEMMA BatchesStarted == BatchesInit => BatchesInv
<1> SUFFICES ASSUME BatchesInit
             PROVE  BatchesInv
  OBVIOUS
<1>1. maxSamples \in Nat \ {0}
  BY BatchesAssumption DEF BatchesInit
<1>2. timeSeries \in Seq(Seq(Int))
  <2>1. ASSUME NEW end \in Nat, NEW interval \in Nat \ {0}
        PROVE  Timestamps(end, interval) \in Seq(Int)
    <3> DEFINE k == (end + interval - 1) \div interval
    <3>1. k \in Nat
      <4>1. end + interval - 1 \in Nat
        OBVIOUS
      <4> QED
        BY <4>1
    <3> HIDE DEF k
    <3>2. [i \in 1..k |-> (i - 1) * interval] \in Seq(Int)
      BY <3>1
    <3> QED
      BY <3>2 DEF Timestamps, k
  <2>2. PICK n \in 0..MaxSeries, end \in 0..MaxSpan, interval \in 1..MaxInterval :
               timeSeries = [s \in 1..n |-> Timestamps(end, interval)]
    BY DEF BatchesInit
  <2>3. n \in Nat /\ end \in Nat /\ interval \in Nat \ {0}
    BY BatchesAssumption
  <2> QED
    BY <2>1, <2>2, <2>3
<1>3. /\ at = 0 /\ remaining = <<>> /\ batch = <<>> /\ batches = <<>> /\ sampleCount = 0
      /\ batchPc = "split" /\ nextBatch = 1 /\ exit = 0 /\ delivered = <<>> /\ partly = {}
  BY DEF BatchesInit, BatchesStart
<1>4. BatchTypes
  BY <1>1, <1>2, <1>3 DEF BatchTypes
<1>5. SplitInv
  <2>1. Points(<<>>) = <<>> /\ FlattenSeq(PointsOf(<<>>)) = <<>> /\ Labelled(0, <<>>) = <<>>
    BY NothingLabelled
  <2>2. FlattenTo(AllLabelled(WholeSeries), 0) = <<>>
    BY <1>2, WholeFacts, FlattenEnds
  <2>3. (<<>> \o <<>>) \o <<>> = <<>> /\ Len(<<>>) = 0
    OBVIOUS
  <2>4. /\ FlattenSeq(PointsOf(batches)) = <<>> /\ Points(batch) = <<>> /\ Labelled(at, remaining) = <<>>
        /\ FlattenTo(AllLabelled(WholeSeries), at) = <<>>
    BY <1>3, <2>1, <2>2
  <2>5. 0 < maxSamples /\ Len(batches) = 0
    BY <1>1, <1>3
  <2>6. /\ (FlattenSeq(PointsOf(batches)) \o Points(batch)) \o Labelled(at, remaining) = <<>>
        /\ Len(Points(batch)) = 0
    BY <2>3, <2>4
  <2> QED
    <3>1. \A b \in 1..Len(batches) : Len(Points(batches[b])) = maxSamples
      BY <2>5
    <3>2. Len(Points(batch)) = sampleCount /\ sampleCount < maxSamples
      BY <1>3, <2>5, <2>6
    <3>3. (FlattenSeq(PointsOf(batches)) \o Points(batch)) \o Labelled(at, remaining)
             = FlattenTo(AllLabelled(WholeSeries), at)
      BY <2>4, <2>6
    <3> QED
      BY <1>3, <3>1, <3>2, <3>3, Zenon DEF SplitInv
<1> QED
  BY <1>3, <1>4, <1>5 DEF BatchesInv, BatchSendInv

LEMMA ConcatFour ==
    ASSUME NEW S, NEW s \in Seq(S), NEW t \in Seq(S), NEW u \in Seq(S), NEW v \in Seq(S)
    PROVE  (s \o t) \o (u \o v) = (s \o (t \o u)) \o v
<1> SUFFICES ASSUME NEW st, st = s \o t
             PROVE  st \o (u \o v) = (s \o (t \o u)) \o v
  OBVIOUS
<1>1. st \in Seq(S)
  BY ConcatProperties
<1>2. st \o u = s \o (t \o u)
  BY ConcatAssociative, SMTT(30)
<1>3. st \o (u \o v) = (st \o u) \o v
  BY <1>1, ConcatAssociative, SMTT(60)
<1> QED
  BY <1>2, <1>3

LEMMA NextSeriesStep ==
    ASSUME BatchesInv, NextSeries
    PROVE  BatchesInv'
<1>1. /\ maxSamples' = maxSamples /\ timeSeries' = timeSeries /\ batch' = batch
      /\ sampleCount' = sampleCount /\ batches' = batches /\ batchPc' = batchPc /\ batchPc = "split"
      /\ nextBatch' = nextBatch /\ exit' = exit /\ delivered' = delivered /\ partly' = partly
      /\ at' = at + 1 /\ remaining = <<>> /\ remaining' = timeSeries[at + 1]
      /\ at < Len(timeSeries)
  BY DEF NextSeries, input, SamplesOf
<1>2. BatchTypes /\ at \in Nat /\ at + 1 \in 1..Len(timeSeries) /\ timeSeries[at + 1] \in Seq(Int)
  BY <1>1 DEF BatchesInv, BatchTypes
<1>3. BatchTypes'
  BY <1>1, <1>2 DEF BatchTypes
<1> DEFINE F == FlattenSeq(PointsOf(batches))
           W(n) == FlattenTo(AllLabelled(WholeSeries), n)
<1>4. F \in Seq(Sample) /\ Points(batch) \in Seq(Sample)
  BY <1>2, PointsOfFacts, PointsFlatten, FlattenRange DEF BatchTypes
<1>5. F \o Points(batch) = W(at)
  <2>1. (F \o Points(batch)) \o Labelled(at, remaining) = W(at) /\ Labelled(at, remaining) = <<>>
    BY <1>1, <1>2, NothingLabelled DEF BatchesInv, SplitInv
  <2>2. F \o Points(batch) \in Seq(Sample)
    BY <1>4, ConcatProperties
  <2> HIDE DEF F
  <2> QED
    BY <2>1, <2>2, ConcatEmptySeq
<1>6. W(at + 1) = W(at) \o Labelled(at + 1, timeSeries[at + 1])
  <2>1. timeSeries \in Seq(Seq(Int))
    BY <1>2 DEF BatchTypes
  <2>2. /\ AllLabelled(WholeSeries) \in Seq(Seq(Sample)) /\ Len(AllLabelled(WholeSeries)) = Len(timeSeries)
        /\ AllLabelled(WholeSeries)[at + 1] = Labelled(at + 1, timeSeries[at + 1])
    BY <1>2, <2>1, WholeFacts
  <2> QED
    BY <1>1, <1>2, <2>2, FlattenNext
<1>7. SplitInv'
  <2>1. (F \o Points(batch)) \o Labelled(at + 1, timeSeries[at + 1]) = W(at + 1)
    BY <1>5, <1>6
  <2>2. AllLabelled(WholeSeries)' = AllLabelled(WholeSeries)
    BY <1>1 DEF WholeSeries
  <2> QED
    BY <1>1, <2>1, <2>2 DEF BatchesInv, SplitInv
<1> QED
  BY <1>1, <1>3, <1>7 DEF BatchesInv, BatchSendInv

LEMMA TakeStep ==
    ASSUME BatchesInv, Take
    PROVE  BatchesInv'
<1> DEFINE take == Smaller(maxSamples - sampleCount, Len(remaining))
           some == SubSeq(remaining, 1, take)
           rest == SubSeq(remaining, take + 1, Len(remaining))
           grown == Append(batch, [series |-> at, samples |-> some])
           full == sampleCount + take = maxSamples
           F == FlattenSeq(PointsOf(batches))
           B == Points(batch)
           W == FlattenTo(AllLabelled(WholeSeries), at)
<1>1. /\ maxSamples' = maxSamples /\ timeSeries' = timeSeries /\ at' = at
      /\ batchPc' = batchPc /\ batchPc = "split"
      /\ nextBatch' = nextBatch /\ exit' = exit /\ delivered' = delivered /\ partly' = partly
      /\ remaining # <<>> /\ remaining' = rest
      /\ sampleCount' = IF full THEN 0 ELSE sampleCount + take
      /\ batch' = IF full THEN <<>> ELSE grown
      /\ batches' = IF full THEN Append(batches, grown) ELSE batches
  BY DEF Take, input
<1>2. /\ BatchTypes /\ SplitInv /\ at \in Nat /\ maxSamples \in Nat \ {0} /\ sampleCount \in Nat
      /\ remaining \in Seq(Int) /\ batch \in Seq(Part) /\ batches \in Seq(Seq(Part))
  BY DEF BatchesInv, BatchTypes
<1>3. /\ take \in Nat \ {0} /\ take <= Len(remaining) /\ sampleCount + take <= maxSamples
      /\ take < maxSamples - sampleCount => take = Len(remaining)
  <2>1. sampleCount < maxSamples /\ Len(remaining) \in Nat \ {0}
    BY <1>1, <1>2 DEF SplitInv
  <2> QED
    BY <1>2, <2>1 DEF Smaller
<1> HIDE DEF take
<1>4. some \in Seq(Int) /\ Len(some) = take /\ rest \in Seq(Int)
  BY <1>2, <1>3
<1>5. Labelled(at, remaining) = Labelled(at, some) \o Labelled(at, rest)
  <2> DEFINE x == Labelled(at, remaining)
             l == Len(remaining)
  <2>1. x \in Seq(Sample) /\ Len(x) = l /\ l \in Nat /\ \A s \in 1..l : x[s] = [series |-> at, sample |-> remaining[s]]
    <3>1. x \in Seq(Sample) /\ Len(x) = l
      BY <1>2, LabelledFacts
    <3>2. DOMAIN remaining = 1..l /\ l \in Nat
      BY <1>2
    <3> QED
      BY <3>1, <3>2 DEF Labelled
  <2> HIDE DEF x, l
  <2>2. l = Len(remaining) /\ take \in Nat /\ take <= l
    BY <1>3 DEF l
  <2>3. Labelled(at, some) = SubSeq(x, 1, take)
    <3>1. Labelled(at, some) \in Seq(Sample) /\ Len(Labelled(at, some)) = take
      BY <1>2, <1>4, LabelledFacts
    <3>2. SubSeq(x, 1, take) \in Seq(Sample) /\ Len(SubSeq(x, 1, take)) = take
          /\ \A s \in 1..take : SubSeq(x, 1, take)[s] = x[s] /\ s \in 1..l
      BY <2>1, <2>2
    <3>3. \A s \in 1..take : Labelled(at, some)[s] = [series |-> at, sample |-> remaining[s]]
      <4>1. DOMAIN some = 1..take /\ \A s \in 1..take : some[s] = remaining[s]
        BY <1>2, <1>3
      <4> QED
        BY <4>1 DEF Labelled
    <3>4. \A s \in 1..take : Labelled(at, some)[s] = SubSeq(x, 1, take)[s]
      BY <2>1, <3>2, <3>3
    <3> HIDE DEF some
    <3> QED
      BY <3>1, <3>2, <3>4, SeqEqual
  <2>4. Labelled(at, rest) = SubSeq(x, take + 1, l)
    <3> DEFINE y == SubSeq(x, take + 1, l)
               n == l - take
    <3>1. Labelled(at, rest) \in Seq(Sample) /\ Len(Labelled(at, rest)) = n
      <4>1. Len(rest) = n
        BY <1>2, <2>2
      <4> QED
        BY <1>2, <1>4, <4>1, LabelledFacts
    <3>2. y \in Seq(Sample) /\ Len(y) = n /\ \A s \in 1..n : y[s] = x[take + s] /\ take + s \in 1..l
      BY <2>1, <2>2
    <3>3. \A s \in 1..n : Labelled(at, rest)[s] = [series |-> at, sample |-> remaining[take + s]]
      <4>1. DOMAIN rest = 1..n /\ \A s \in 1..n : rest[s] = remaining[take + s]
        <5>1. Len(rest) = n /\ \A s \in 1..n : rest[s] = remaining[take + s]
          BY <1>2, <2>2
        <5>2. DOMAIN rest = 1..Len(rest)
          BY <1>4
        <5> HIDE DEF rest
        <5> QED
          BY <5>1, <5>2
      <4> QED
        BY <4>1 DEF Labelled
    <3>4. \A s \in 1..n : Labelled(at, rest)[s] = y[s]
      BY <2>1, <3>2, <3>3
    <3> HIDE DEF y, rest, n
    <3>5. Labelled(at, rest) = y
      BY <3>1, <3>2, <3>4, SeqEqual
    <3> QED
      BY <3>5 DEF y
  <2>5. SubSeq(x, 1, take) \o SubSeq(x, take + 1, l) = SubSeq(x, 1, l)
    <3>1. x \in Seq(Sample) /\ Len(x) = l /\ l \in Nat /\ take \in Nat /\ take <= l
      BY <2>1, <2>2
    <3> QED
      BY <3>1, PartsJoin
  <2>6. SubSeq(x, 1, l) = x
    BY <2>1
  <2> QED
    BY <2>3, <2>4, <2>5, <2>6 DEF x
<1>6. F \in Seq(Sample) /\ B \in Seq(Sample) /\ Labelled(at, some) \in Seq(Sample) /\ Labelled(at, rest) \in Seq(Sample)
  BY <1>2, <1>4, PointsOfFacts, PointsFlatten, LabelledFacts, FlattenRange
<1>7. grown \in Seq(Part) /\ Points(grown) = B \o Labelled(at, some) /\ Points(grown) \in Seq(Sample)
  BY <1>2, <1>4, PointsAppend, PointsFlatten
<1>8. Len(Points(grown)) = sampleCount + take
  <2>1. Len(B) = sampleCount /\ Len(Labelled(at, some)) = take
    BY <1>1, <1>2, <1>4, LabelledFacts DEF SplitInv
  <2> HIDE DEF B, some, grown
  <2> QED
    BY <1>6, <1>7, <2>1, ConcatProperties
<1>9. (F \o Points(grown)) \o Labelled(at, rest) = W
  <2>1. (F \o B) \o Labelled(at, remaining) = W
    BY <1>1, <1>2 DEF SplitInv
  <2> DEFINE u == Labelled(at, some)
             v == Labelled(at, rest)
  <2> HIDE DEF F, B, u, v, W, grown
  <2>2. F \in Seq(Sample) /\ B \in Seq(Sample) /\ u \in Seq(Sample) /\ v \in Seq(Sample)
    BY <1>6 DEF u, v
  <2>3. (F \o B) \o (u \o v) = (F \o (B \o u)) \o v
    BY <2>2, ConcatFour, SMTT(60)
  <2>4. Labelled(at, remaining) = u \o v /\ Points(grown) = B \o u
    BY <1>5, <1>7 DEF u, v
  <2> QED
    BY <2>1, <2>3, <2>4 DEF v
<1> HIDE DEF some, rest, grown
<1>10. BatchTypes'
  <2>1. Append(batches, grown) \in Seq(Seq(Part)) /\ <<>> \in Seq(Part)
    BY <1>2, <1>7
  <2> QED
    BY <1>1, <1>2, <1>3, <1>4, <1>7, <2>1 DEF BatchTypes
<1>11. AllLabelled(WholeSeries)' = AllLabelled(WholeSeries)
  BY <1>1 DEF WholeSeries
<1>12. CASE full
  <2>1. /\ batches' = Append(batches, grown) /\ batch' = <<>> /\ sampleCount' = 0
    BY <1>1, <1>12
  <2>2. FlattenSeq(PointsOf(batches')) = F \o Points(grown) /\ Points(batch') = <<>>
    BY <1>2, <1>7, <2>1, PointsOfAppend, NothingLabelled
  <2>3. F \o Points(grown) \in Seq(Sample)
    BY <1>6, <1>7, ConcatProperties
  <2>4. (F \o Points(grown)) \o <<>> = F \o Points(grown)
    BY <2>3, ConcatEmptySeq
  <2>5. (FlattenSeq(PointsOf(batches')) \o Points(batch')) \o Labelled(at', remaining') = W
    BY <1>1, <1>9, <2>2, <2>4
  <2>6. \A b \in 1..Len(batches') : Len(Points(batches'[b])) = maxSamples
    <3>1. /\ Len(batches') = Len(batches) + 1 /\ batches'[Len(batches) + 1] = grown
          /\ \A b \in 1..Len(batches) : batches'[b] = batches[b]
          /\ \A b \in 1..(Len(batches) + 1) : b \in 1..Len(batches) \/ b = Len(batches) + 1
      BY <1>2, <1>7, <2>1
    <3>2. \A b \in 1..Len(batches) : Len(Points(batches[b])) = maxSamples
      BY <1>1, <1>2 DEF SplitInv
    <3>3. Len(Points(grown)) = maxSamples
      BY <1>8, <1>12
    <3> QED
      BY <3>1, <3>2, <3>3
  <2>7. Len(Points(batch')) = 0 /\ 0 < maxSamples
    BY <1>2, <2>2
  <2>8. SplitInv'
    <3> HIDE DEF F, W
    <3>1. nextBatch' = 1 /\ exit' = 0 /\ delivered' = <<>> /\ partly' = {}
      BY <1>1, <1>2 DEF SplitInv
    <3> QED
      BY <1>1, <1>11, <2>1, <2>5, <2>6, <2>7, <3>1 DEF SplitInv, W
  <2> QED
    BY <1>1, <1>10, <2>8 DEF BatchesInv, BatchSendInv
<1>13. CASE ~full
  <2>1. /\ batches' = batches /\ batch' = grown /\ sampleCount' = sampleCount + take
    BY <1>1, <1>13
  <2>2. (FlattenSeq(PointsOf(batches')) \o Points(batch')) \o Labelled(at', remaining') = W
    BY <1>1, <1>9, <2>1
  <2>3. Len(Points(batch')) = sampleCount' /\ sampleCount' < maxSamples /\ sampleCount' # 0
    BY <1>2, <1>3, <1>8, <1>13, <2>1
  <2>4. SplitInv'
    <3> HIDE DEF F, W
    <3>1. /\ nextBatch' = 1 /\ exit' = 0 /\ delivered' = <<>> /\ partly' = {}
          /\ \A b \in 1..Len(batches) : Len(Points(batches[b])) = maxSamples
      BY <1>1, <1>2 DEF SplitInv
    <3> QED
      BY <1>1, <1>11, <2>1, <2>2, <2>3, <3>1 DEF SplitInv, W
  <2> QED
    BY <1>1, <1>10, <2>4 DEF BatchesInv, BatchSendInv
<1> QED
  BY <1>12, <1>13

LEMMA SplitStep ==
    ASSUME BatchesInv, Split
    PROVE  BatchesInv'
<1> DEFINE F == FlattenSeq(PointsOf(batches))
           B == Points(batch)
<1>1. /\ maxSamples' = maxSamples /\ timeSeries' = timeSeries /\ at' = at /\ remaining' = remaining
      /\ batch' = batch /\ sampleCount' = sampleCount /\ nextBatch' = nextBatch /\ exit' = exit
      /\ delivered' = delivered /\ partly' = partly /\ batchPc = "split" /\ batchPc' = "send" /\ remaining = <<>>
      /\ at = Len(timeSeries)
      /\ batches' = IF batch # <<>> THEN Append(batches, batch) ELSE batches
  BY DEF Split, input
<1>2. /\ BatchTypes /\ SplitInv /\ at \in Nat /\ maxSamples \in Nat \ {0} /\ timeSeries \in Seq(Seq(Int))
      /\ batch \in Seq(Part) /\ batches \in Seq(Seq(Part))
  BY DEF BatchesInv, BatchTypes
<1>3. /\ Len(B) = sampleCount /\ sampleCount \in Nat /\ sampleCount < maxSamples
      /\ sampleCount = 0 => batch = <<>>
      /\ \A b \in 1..Len(batches) : Len(Points(batches[b])) = maxSamples
      /\ nextBatch = 1 /\ exit = 0 /\ delivered = <<>> /\ partly = {}
  BY <1>1, <1>2 DEF SplitInv, BatchTypes
<1>4. F \in Seq(Sample) /\ B \in Seq(Sample)
  BY <1>2, PointsOfFacts, PointsFlatten, FlattenRange
<1>5. F \o B = All
  <2>1. (F \o B) \o Labelled(at, remaining) = FlattenTo(AllLabelled(WholeSeries), Len(timeSeries))
    BY <1>1, <1>2 DEF SplitInv
  <2>2. Labelled(at, remaining) = <<>>
    BY <1>1, <1>2, NothingLabelled
  <2>3. FlattenTo(AllLabelled(WholeSeries), Len(timeSeries)) = All
    BY <1>2, WholeFacts
  <2>4. F \o B \in Seq(Sample)
    BY <1>4, ConcatProperties
  <2>5. (F \o B) \o <<>> = F \o B
    BY <2>4, ConcatEmptySeq
  <2> QED
    BY <2>1, <2>2, <2>3, <2>5
<1>6. batches' \in Seq(Seq(Part)) /\ BatchTypes'
  BY <1>1, <1>2 DEF BatchTypes
<1>7. All' = All
  BY <1>1 DEF All
<1>8. BatchesDone'
  <2>1. CASE batch = <<>>
    <3>1. batches' = batches /\ B = <<>>
      BY <1>1, <1>2, <2>1, NothingLabelled
    <3>2. F \o <<>> = F
      BY <1>4, ConcatEmptySeq
    <3>3. \A b \in 1..Len(batches) : maxSamples \in 1..maxSamples
      BY <1>2
    <3> HIDE DEF F, B
    <3>4. F = All
      BY <1>5, <3>1, <3>2
    <3> QED
      BY <1>1, <1>3, <1>7, <3>1, <3>3, <3>4 DEF BatchesDone, F
  <2>2. CASE batch # <<>>
    <3>1. batches' = Append(batches, batch)
      BY <1>1, <2>2
    <3>2. FlattenSeq(PointsOf(batches')) = F \o B
      BY <1>2, <3>1, PointsOfAppend
    <3>3. /\ Len(batches') = Len(batches) + 1 /\ batches'[Len(batches) + 1] = batch
          /\ \A b \in 1..Len(batches) : batches'[b] = batches[b]
          /\ \A b \in 1..(Len(batches) + 1) : b \in 1..Len(batches) \/ b = Len(batches) + 1
      BY <1>2, <3>1
    <3>4. maxSamples \in 1..maxSamples /\ sampleCount \in 1..maxSamples
      BY <1>2, <1>3, <2>2
    <3> HIDE DEF F
    <3>5. \A b \in 1..Len(batches') : /\ Len(Points(batches'[b])) \in 1..maxSamples
                                      /\ b # Len(batches') => Len(Points(batches'[b])) = maxSamples
      BY <1>3, <3>3, <3>4
    <3> QED
      BY <1>1, <1>5, <1>7, <3>2, <3>5 DEF BatchesDone
  <2> QED
    BY <2>1, <2>2
<1>9. delivered' = SentTo(0)' /\ nextBatch' - 1 = 0 /\ nextBatch' <= Len(batches') + 1
  <2>1. PointsOf(batches') \in Seq(Seq(Sample)) /\ Len(batches') \in Nat
    BY <1>6, PointsOfFacts
  <2>2. FlattenTo(PointsOf(batches'), 0) = <<>>
    BY <2>1, FlattenEnds
  <2> QED
    BY <1>1, <1>3, <2>1, <2>2 DEF SentTo
<1> QED
  BY <1>1, <1>3, <1>6, <1>8, <1>9 DEF BatchesInv, SplitInv, BatchSendInv

\* What is sent next.
LEMMA SentNext ==
    ASSUME BatchTypes, NEW n \in Nat, n < Len(batches)
    PROVE  SentTo(n + 1) = SentTo(n) \o Points(batches[n + 1]) /\ SentTo(n) \in Seq(Sample) /\ SentTo(n + 1) \in Seq(Sample)
<1>1. batches \in Seq(Seq(Part)) /\ Len(batches) \in Nat
  BY DEF BatchTypes
<1>2. PointsOf(batches) \in Seq(Seq(Sample)) /\ Len(PointsOf(batches)) = Len(batches)
      /\ PointsOf(batches)[n + 1] = Points(batches[n + 1])
  BY <1>1, PointsOfFacts
<1>3. FlattenTo(PointsOf(batches), n + 1) = FlattenTo(PointsOf(batches), n) \o PointsOf(batches)[n + 1]
  BY <1>1, <1>2, FlattenNext
<1>4. n + 1 <= Len(batches) /\ n <= Len(batches) /\ n + 1 \in Nat
  BY <1>1
<1>5. SentTo(n) \in Seq(Sample) /\ SentTo(n + 1) \in Seq(Sample)
  BY <1>2, <1>4, FlattenPrefix DEF SentTo
<1> QED
  BY <1>2, <1>3, <1>5 DEF SentTo

\* Steps of the sending leave the batches alone.
LEMMA SendKeeps ==
    ASSUME BatchesInv, UNCHANGED <<input, at, remaining, batch, sampleCount, batches>>,
           batchPc # "split", batchPc' \in {"send", "ended"}, nextBatch' \in Nat \ {0},
           exit' \in Nat, delivered' \in Seq(Sample), partly' \subseteq Sample
    PROVE  BatchTypes' /\ SplitInv' /\ BatchesDone' /\ batches' = batches
<1>1. /\ maxSamples' = maxSamples /\ timeSeries' = timeSeries /\ at' = at /\ remaining' = remaining
      /\ batch' = batch /\ sampleCount' = sampleCount /\ batches' = batches
  BY DEF input
<1>2. BatchTypes'
  BY <1>1 DEF BatchesInv, BatchTypes
<1>3. BatchesDone'
  BY <1>1 DEF BatchesInv, BatchSendInv, BatchesDone, All
<1> QED
  BY <1>1, <1>2, <1>3 DEF SplitInv, SentTo

LEMMA BatchesStep == BatchesInv /\ [BatchesNext]_batchVars => BatchesInv'
<1> SUFFICES ASSUME BatchesInv, [BatchesNext]_batchVars
             PROVE  BatchesInv'
  OBVIOUS
<1>1. /\ BatchTypes /\ BatchSendInv /\ nextBatch \in Nat \ {0} /\ exit \in Nat /\ delivered \in Seq(Sample)
      /\ Len(batches) \in Nat
  BY DEF BatchesInv, BatchTypes
<1>2. ASSUME batchPc = "send"
      PROVE  /\ exit = 0 /\ delivered = SentTo(nextBatch - 1) /\ partly = {}
             /\ nextBatch <= Len(batches) =>
                   LET sent == delivered \o Points(batches[nextBatch])
                   IN  sent = SentTo(nextBatch) /\ sent \in Seq(Sample)
  <2>1. exit = 0 /\ delivered = SentTo(nextBatch - 1) /\ partly = {}
    BY <1>1, <1>2 DEF BatchSendInv
  <2>2. ASSUME nextBatch <= Len(batches)
        PROVE  /\ SentTo(nextBatch) = delivered \o Points(batches[nextBatch])
               /\ SentTo(nextBatch) \in Seq(Sample)
    <3>1. nextBatch - 1 \in Nat /\ nextBatch - 1 < Len(batches) /\ (nextBatch - 1) + 1 = nextBatch
      BY <1>1, <2>2
    <3> QED
      BY <1>1, <2>1, <3>1, SentNext
  <2> QED
    BY <2>1, <2>2
<1>3. CASE NextSeries
  BY <1>3, NextSeriesStep
<1>4. CASE Take
  BY <1>4, TakeStep
<1>5. CASE Split
  BY <1>5, SplitStep
<1>6. CASE Send
  <2>1. /\ batchPc = "send" /\ batchPc' = batchPc /\ exit' = exit /\ nextBatch <= Len(batches) /\ partly' = partly
        /\ nextBatch' = nextBatch + 1 /\ delivered' = delivered \o Points(batches[nextBatch])
        /\ UNCHANGED <<input, at, remaining, batch, sampleCount, batches>>
    BY <1>6 DEF Send
  <2>2. delivered' = SentTo(nextBatch) /\ delivered' \in Seq(Sample) /\ exit = 0 /\ partly' = {}
    BY <1>2, <2>1
  <2>3. nextBatch' \in Nat \ {0} /\ nextBatch' - 1 = nextBatch /\ nextBatch' <= Len(batches) + 1
    BY <1>1, <2>1
  <2>4. BatchTypes' /\ SplitInv' /\ BatchesDone' /\ batches' = batches
    BY <1>1, <2>1, <2>2, <2>3, SendKeeps
  <2>5. delivered' = SentTo(nextBatch - 1)'
    BY <2>2, <2>3, <2>4 DEF SentTo
  <2> QED
    BY <2>1, <2>2, <2>3, <2>4, <2>5 DEF BatchesInv, BatchSendInv
<1>7. CASE SendFails
  <2>1. /\ batchPc = "send" /\ batchPc' = "ended" /\ exit' = nextBatch /\ nextBatch <= Len(batches)
        /\ nextBatch' = nextBatch
        /\ delivered' = delivered /\ partly' \subseteq Range(Points(batches[nextBatch]))
        /\ UNCHANGED <<input, at, remaining, batch, sampleCount, batches>>
    BY <1>7 DEF SendFails
  <2>2. delivered' = SentTo(nextBatch - 1)
    BY <1>1, <1>2, <2>1
  <2>5. partly' \subseteq Sample
    <3>1. batches[nextBatch] \in Seq(Part)
      <4>1. batches \in Seq(Seq(Part)) /\ nextBatch \in 1..Len(batches)
        BY <1>1, <2>1 DEF BatchTypes
      <4> QED
        BY <4>1
    <3>2. Points(batches[nextBatch]) \in Seq(Sample)
      BY <3>1, PointsFlatten
    <3>3. Range(Points(batches[nextBatch])) \subseteq Sample
      <4> DEFINE sent == Points(batches[nextBatch])
      <4>1. sent \in Seq(Sample)
        BY <3>2
      <4> HIDE DEF sent
      <4>2. \A i \in DOMAIN sent : sent[i] \in Sample
        BY <4>1
      <4> QED
        BY <4>2 DEF Range, sent
    <3> QED
      BY <2>1, <3>3
  <2>3. BatchTypes' /\ SplitInv' /\ BatchesDone' /\ batches' = batches
    BY <1>1, <2>1, <2>5, SendKeeps
  <2>4. delivered' = SentTo(exit - 1)' /\ partly' \subseteq Range(Points(batches[exit]))'
    BY <2>1, <2>2, <2>3 DEF SentTo
  <2> QED
    BY <1>1, <2>1, <2>3, <2>4 DEF BatchesInv, BatchSendInv
<1>8. CASE SendEnd
  <2>1. /\ batchPc = "send" /\ batchPc' = "ended" /\ exit' = exit /\ nextBatch > Len(batches)
        /\ nextBatch' = nextBatch /\ delivered' = delivered /\ partly' = partly
        /\ UNCHANGED <<input, at, remaining, batch, sampleCount, batches>>
    BY <1>8 DEF SendEnd
  <2>2. BatchTypes' /\ SplitInv' /\ BatchesDone' /\ batches' = batches
    BY <1>1, <1>2, <2>1, SendKeeps
  <2>3. exit = 0 /\ delivered = SentTo(nextBatch - 1) /\ partly = {} /\ nextBatch = Len(batches) + 1
    BY <1>1, <1>2, <2>1 DEF BatchSendInv
  <2>4. delivered' = SentTo(nextBatch - 1)'
    BY <2>1, <2>2, <2>3 DEF SentTo
  <2> QED
    BY <2>1, <2>2, <2>3, <2>4 DEF BatchesInv, BatchSendInv
<1>9. CASE UNCHANGED batchVars
  <2>1. /\ maxSamples' = maxSamples /\ timeSeries' = timeSeries /\ at' = at /\ remaining' = remaining
        /\ batch' = batch /\ sampleCount' = sampleCount /\ batches' = batches /\ batchPc' = batchPc
        /\ nextBatch' = nextBatch /\ exit' = exit /\ delivered' = delivered /\ partly' = partly
    BY <1>9 DEF batchVars, input
  <2> QED
    BY <2>1 DEF BatchesInv, BatchTypes, SplitInv, BatchSendInv, BatchesDone, SentTo, All, WholeSeries
<1> QED
  BY <1>3, <1>4, <1>5, <1>6, <1>7, <1>8, <1>9 DEF BatchesNext

\* What was cut off the series is in the batches, in its order, and all batches but
\* the one being filled are full (sampleGenerator.run).
THEOREM BatchesInvariance == BatchesSpec => []BatchesInv
<1> QED
  BY BatchesStarted, BatchesStep, PTL DEF BatchesSpec

\* How much the first batches hold.
LEMMA SentFacts ==
    ASSUME BatchTypes, BatchesDone, NEW n \in 0..Len(batches)
    PROVE  /\ IsPrefix(SentTo(n), All) /\ All \in Seq(Sample)
           /\ SentTo(0) = <<>> /\ SentTo(Len(batches)) = All
           /\ n < Len(batches) => Len(SentTo(n)) = n * maxSamples
           /\ Len(SentTo(n)) = Smaller(n * maxSamples, Len(All))
<1> DEFINE P == PointsOf(batches)
           l == Len(batches)
<1>1. /\ P \in Seq(Seq(Sample)) /\ Len(P) = l /\ l \in Nat /\ n \in Nat /\ n <= l /\ maxSamples \in Nat \ {0}
      /\ \A b \in 1..l : P[b] = Points(batches[b])
  BY PointsOfFacts DEF BatchTypes
<1> HIDE DEF P, l
<1>2. FlattenTo(P, 0) = <<>> /\ FlattenTo(P, l) = All
  <2>1. FlattenSeq(P) = All
    BY DEF BatchesDone, P
  <2> QED
    BY <1>1, <2>1, FlattenEnds
<1>3. /\ FlattenTo(P, n) \in Seq(Sample) /\ IsPrefix(FlattenTo(P, n), FlattenTo(P, l))
      /\ Len(FlattenTo(P, n)) <= Len(FlattenTo(P, l)) /\ FlattenTo(P, l) \in Seq(Sample)
  <2>1. l <= Len(P) /\ n <= l
    BY <1>1
  <2> QED
    BY <1>1, <2>1, FlattenPrefix
<1>4. \A b \in 1..l : Len(P[b]) \in 1..maxSamples /\ (b # l => Len(P[b]) = maxSamples)
  BY <1>1 DEF BatchesDone, l
<1>5. ASSUME NEW k \in Nat, k < l
      PROVE  Len(FlattenTo(P, k)) = k * maxSamples
  <2>1. \A b \in 1..k : Len(P[b]) = maxSamples
    BY <1>1, <1>4, <1>5
  <2>2. k <= Len(P) /\ maxSamples \in Nat
    BY <1>1, <1>5
  <2> QED
    BY <1>1, <2>1, <2>2, FlattenLength
<1>6. Len(FlattenTo(P, n)) = Smaller(n * maxSamples, Len(FlattenTo(P, l)))
  <2> DEFINE a == n * maxSamples
             whole == Len(FlattenTo(P, l))
  <2>1. a \in Nat /\ whole \in Nat
    BY <1>1, <1>3
  <2>2. CASE n < l
    <3>1. Len(FlattenTo(P, n)) = a
      BY <1>1, <1>5, <2>2
    <3> HIDE DEF a, whole
    <3>2. a <= whole
      BY <1>3, <3>1 DEF whole
    <3> QED
      BY <2>1, <3>1, <3>2 DEF Smaller, a, whole
  <2>3. CASE n = l
    <3>1. whole <= a
      <4>1. CASE l = 0
        <5>1. whole = 0
          BY <1>2, <4>1
        <5> QED
          BY <2>1, <5>1
      <4>2. CASE l # 0
        <5> DEFINE m == l - 1
        <5>1. m \in Nat /\ m < l /\ m + 1 = l /\ m < Len(P)
          BY <1>1, <4>2
        <5> HIDE DEF m
        <5>2. FlattenTo(P, m + 1) = FlattenTo(P, m) \o P[m + 1]
          BY <1>1, <5>1, FlattenNext
        <5>3. Len(FlattenTo(P, m)) = m * maxSamples /\ Len(P[l]) <= maxSamples
          BY <1>1, <1>4, <1>5, <5>1
        <5>4. /\ FlattenTo(P, m) \in Seq(Sample) /\ P[l] \in Seq(Sample) /\ Len(P[l]) \in Nat
          <6>1. m <= Len(P) /\ P[l] \in Seq(Sample)
            BY <1>1, <5>1
          <6> QED
            BY <1>1, <5>1, <6>1, FlattenPrefix
        <5>5. whole = m * maxSamples + Len(P[l])
          BY <5>1, <5>2, <5>3, <5>4, ConcatProperties
        <5>6. a = m * maxSamples + maxSamples
          <6>1. a = (m + 1) * maxSamples
            BY <2>3, <5>1
          <6> QED
            BY <1>1, <5>1, <6>1
        <5> DEFINE x == m * maxSamples
        <5>7. x \in Nat
          BY <1>1, <5>1
        <5> HIDE DEF x, a, whole
        <5>8. whole = x + Len(P[l]) /\ a = x + maxSamples
          BY <5>5, <5>6 DEF x
        <5> QED
          BY <1>1, <5>3, <5>4, <5>7, <5>8
      <4> QED
        BY <4>1, <4>2
    <3> HIDE DEF a
    <3> QED
      BY <2>1, <2>3, <3>1 DEF Smaller, a
  <2> QED
    BY <1>1, <2>2, <2>3
<1> QED
  BY <1>1, <1>2, <1>3, <1>5, <1>6 DEF SentTo, P, l

\* Where in All the samples of a batch are.
LEMMA BatchIsAt ==
    ASSUME BatchTypes, BatchesDone, NEW n \in Nat, n < Len(batches)
    PROVE  Range(Points(batches[n + 1]))
              \subseteq {All[i] : i \in n * maxSamples + 1..Smaller((n + 1) * maxSamples, Len(All))}
<1> DEFINE first == SentTo(n)
           points == Points(batches[n + 1])
           sent == SentTo(n + 1)
           end == Smaller((n + 1) * maxSamples, Len(All))
           start == n * maxSamples
<1>1. n \in 0..Len(batches) /\ n + 1 \in 0..Len(batches)
  BY DEF BatchTypes
<1>2. /\ sent = first \o points /\ sent \in Seq(Sample) /\ first \in Seq(Sample)
  BY <1>1, SentNext
<1>3. Len(first) = start /\ IsPrefix(sent, All) /\ Len(sent) = end /\ All \in Seq(Sample)
  BY <1>1, SentFacts
<1>4. points \in Seq(Sample)
  <2>1. batches \in Seq(Seq(Part)) /\ n + 1 \in 1..Len(batches)
    BY <1>1 DEF BatchTypes
  <2>2. batches[n + 1] \in Seq(Part)
    BY <2>1
  <2> QED
    BY <2>2, PointsFlatten
<1> HIDE DEF first, points, sent, end, start
<1>5. /\ DOMAIN points = 1..Len(points) /\ Len(points) \in Nat /\ Len(first) \in Nat
      /\ Len(sent) = Len(first) + Len(points) /\ DOMAIN sent = 1..Len(sent)
      /\ \A k \in 1..Len(points) : sent[Len(first) + k] = points[k]
  BY <1>2, <1>4
<1>6. ASSUME NEW i \in 1..Len(sent) PROVE sent[i] = All[i]
  <2> DEFINE all == All
             n1 == Len(sent)
  <2>1. n1 <= Len(all) /\ SubSeq(sent, 1, n1) = SubSeq(all, 1, n1) /\ n1 \in Nat /\ i \in 1..n1
    BY <1>3, <1>5, <1>6 DEF IsPrefix
  <2>2. all \in Seq(Sample) /\ sent \in Seq(Sample) /\ n1 <= Len(sent)
    BY <1>2, <1>3, <1>5
  <2> HIDE DEF all, n1
  <2>3. SubSeq(sent, 1, n1)[i] = sent[i] /\ SubSeq(all, 1, n1)[i] = all[i]
    BY <2>1, <2>2
  <2> QED
    BY <2>1, <2>3 DEF all
<1>7. ASSUME NEW k \in 1..Len(points)
      PROVE  \E i \in start + 1..end : points[k] = All[i]
  <2>1. Len(first) + k \in 1..Len(sent) /\ Len(first) + k \in start + 1..end
    BY <1>3, <1>5
  <2>2. sent[Len(first) + k] = All[Len(first) + k]
    BY <1>6, <2>1
  <2> QED
    BY <1>5, <2>1, <2>2
<1>8. Range(points) \subseteq {All[i] : i \in start + 1..end}
  BY <1>5, <1>7 DEF Range
<1> QED
  BY <1>8 DEF points, start, end

\* sample_generator sends the samples of all series in their order, each once and in
\* full batches: all of them arrive, or if a send fails those of the batches before it
\* and any part of its own.
THEOREM PrefixArrives == BatchesSpec => []ReceivedPrefix
<1>1. BatchesInv => ReceivedPrefix
  <2> SUFFICES ASSUME BatchesInv
               PROVE  ReceivedPrefix
    OBVIOUS
  <2>1. BatchTypes /\ Len(batches) \in Nat /\ nextBatch \in Nat \ {0} /\ exit \in Nat /\ maxSamples \in Nat
        /\ timeSeries \in Seq(Seq(Int))
    BY DEF BatchesInv, BatchTypes
  <2>2. CASE batchPc = "split"
    <3>1. delivered = <<>> /\ exit = 0 /\ partly = {}
      BY <2>2 DEF BatchesInv, SplitInv
    <3>2. All \in Seq(Sample)
      <4>1. AllLabelled(WholeSeries) \in Seq(Seq(Sample)) /\ Len(timeSeries) \in Nat
            /\ Len(AllLabelled(WholeSeries)) = Len(timeSeries)
            /\ All = FlattenTo(AllLabelled(WholeSeries), Len(timeSeries))
        BY <2>1, WholeFacts
      <4> QED
        BY <4>1, FlattenPrefix
    <3>3. IsPrefix(<<>>, All)
      BY <3>2 DEF IsPrefix
    <3> QED
      BY <2>2, <3>1, <3>3 DEF ReceivedPrefix
  <2>3. CASE batchPc # "split"
    <3>1. BatchesDone /\ nextBatch <= Len(batches) + 1
      BY <2>3 DEF BatchesInv, BatchSendInv
    <3>2. CASE exit = 0
      <4>1. /\ delivered = SentTo(nextBatch - 1) /\ partly = {}
            /\ batchPc = "ended" => nextBatch - 1 = Len(batches)
        BY <2>1, <2>3, <3>2 DEF BatchesInv, BatchSendInv
      <4>2. nextBatch - 1 \in 0..Len(batches) /\ Len(batches) \in 0..Len(batches)
        BY <2>1, <3>1
      <4>3. IsPrefix(delivered, All) /\ SentTo(Len(batches)) = All
        BY <2>1, <3>1, <4>1, <4>2, SentFacts
      <4> QED
        BY <3>2, <4>1, <4>3 DEF ReceivedPrefix
    <3>3. CASE exit # 0
      <4>1. exit <= Len(batches) /\ delivered = SentTo(exit - 1) /\ partly \subseteq Range(Points(batches[exit]))
        BY <2>3, <3>3 DEF BatchesInv, BatchSendInv
      <4>2. exit - 1 \in 0..Len(batches) /\ exit - 1 < Len(batches)
        BY <2>1, <3>3, <4>1
      <4>3. /\ IsPrefix(SentTo(exit - 1), All) /\ Len(SentTo(exit - 1)) = (exit - 1) * maxSamples
        BY <2>1, <3>1, <4>2, SentFacts
      <4>4. Range(Points(batches[exit]))
               \subseteq {All[i] : i \in (exit - 1) * maxSamples + 1..Smaller(exit * maxSamples, Len(All))}
        <5>1. exit - 1 + 1 = exit /\ exit - 1 \in Nat
          BY <2>1, <3>3
        <5> QED
          BY <2>1, <3>1, <4>2, <5>1, BatchIsAt
      <4> QED
        BY <3>3, <4>1, <4>3, <4>4 DEF ReceivedPrefix
    <3> QED
      BY <3>2, <3>3
  <2> QED
    BY <2>2, <2>3
<1> QED
  BY <1>1, BatchesInvariance, PTL

-----------------------------------------------------------------------------
(* pkg/http: a request and its answer.                                       *)

\* What Find gives is a field that ends the search, or there is none.
LEMMA FindFacts ==
    ASSUME NEW fields, IsSequence(fields), NEW n
    PROVE  LET Ends(f) == ~f.valid \/ (f.number = n /\ f.typed)
           IN  \/ Find(fields, n) = NoField /\ \A f \in ToSet(fields) : ~Ends(f)
               \/ \E f \in ToSet(fields) : Find(fields, n) = f /\ Ends(f)
<1> DEFINE Ends(f) == ~f.valid \/ (f.number = n /\ f.typed)
           I == {i \in 1..Len(fields) : Ends(fields[i])}
<1>1. DOMAIN fields = 1..Len(fields) /\ Len(fields) \in Nat
  BY DEF IsSequence
<1>2. CASE I = {}
  <2>1. Find(fields, n) = NoField
    BY <1>2 DEF Find, SelectInSeq
  <2>2. \A f \in ToSet(fields) : ~Ends(f)
    BY <1>1, <1>2 DEF ToSet
  <2> QED
    BY <2>1, <2>2
<1>3. CASE I # {}
  <2>1. Min(I) \in I
    BY <1>1, <1>3, FirstPlace
  <2>2. Min(I) # 0
    BY <2>1
  <2>3. Find(fields, n) = fields[Min(I)]
    BY <1>3, <2>2 DEF Find, SelectInSeq
  <2>4. fields[Min(I)] \in ToSet(fields) /\ Ends(fields[Min(I)])
    BY <1>1, <2>1 DEF ToSet
  <2> QED
    BY <2>3, <2>4
<1> QED
  BY <1>2, <1>3

\* The fields of an encoding: those of the message, perhaps one of another kind.
LEMMA EncodingFacts ==
    ASSUME NEW fields, IsSequence(fields), NEW enc \in Encodings(fields)
    PROVE  /\ IsSequence(enc)
           /\ ToSet(fields) \subseteq ToSet(enc) /\ ToSet(enc) \subseteq ToSet(fields) \cup {Unknown, Garbage}
<1>1. CASE enc = fields
  BY <1>1
<1>2. ASSUME NEW i \in 1..(Len(fields) + 1), NEW f \in {Unknown, Garbage}, enc = InsertAt(fields, i, f)
      PROVE  /\ IsSequence(enc)
             /\ ToSet(fields) \subseteq ToSet(enc) /\ ToSet(enc) \subseteq ToSet(fields) \cup {Unknown, Garbage}
  <2> DEFINE S == ToSet(fields) \cup {Unknown, Garbage}
             a == SubSeq(fields, 1, i - 1)
             b == SubSeq(fields, i, Len(fields))
             n == Len(fields)
  <2>1. fields \in Seq(S) /\ n \in Nat /\ DOMAIN fields = 1..n /\ \A k \in 1..n : fields[k] \in ToSet(fields)
    BY DEF IsSequence, ToSet
  <2>2. /\ a \in Seq(S) /\ Len(a) = i - 1 /\ \A k \in 1..(i - 1) : a[k] = fields[k]
        /\ b \in Seq(S) /\ Len(b) = n - i + 1 /\ \A k \in 1..(n - i + 1) : b[k] = fields[i + k - 1]
    BY <2>1
  <2> DEFINE af == a \o <<f>>
  <2>3. enc = af \o b
    BY <1>2 DEF InsertAt
  <2>4. af \in Seq(S) /\ Len(af) = i /\ (\A k \in 1..(i - 1) : af[k] = fields[k]) /\ af[i] = f
    <3>1. <<f>> \in Seq(S) /\ Len(<<f>>) = 1 /\ <<f>>[1] = f
      OBVIOUS
    <3> HIDE DEF a
    <3> QED
      BY <2>1, <2>2, <3>1
  <2> HIDE DEF a, b, af
  <2>5. /\ enc \in Seq(S) /\ Len(enc) = n + 1
        /\ \A k \in 1..i : enc[k] = af[k]
        /\ \A k \in (i + 1)..(n + 1) : enc[k] = b[k - i]
    <3>1. \A k \in 1..(n + 1) : enc[k] = IF k <= i THEN af[k] ELSE b[k - i]
      BY <2>1, <2>2, <2>3, <2>4
    <3>2. enc \in Seq(S) /\ Len(enc) = Len(af) + Len(b)
      BY <2>2, <2>3, <2>4, ConcatProperties, Zenon
    <3>3. Len(enc) = n + 1
      BY <2>1, <2>2, <2>4, <3>2
    <3> QED
      BY <2>1, <3>1, <3>2, <3>3
  <2>6. DOMAIN enc = 1..(n + 1) /\ n + 1 \in Nat
    BY <2>1, <2>5
  <2>7. \A k \in 1..(n + 1) : enc[k] \in S
    BY <2>5, <2>6
  <2>8. \A k \in 1..n : \E m \in 1..(n + 1) : enc[m] = fields[k]
    <3> TAKE k \in 1..n
    <3>1. CASE k < i
      BY <2>1, <2>4, <2>5, <3>1
    <3>2. CASE k >= i
      <4>1. k + 1 \in (i + 1)..(n + 1) /\ k + 1 - i \in 1..(n - i + 1) /\ i + (k + 1 - i) - 1 = k
        BY <2>1, <3>2
      <4>2. enc[k + 1] = b[k + 1 - i]
        BY <2>5, <4>1, SMTT(30)
      <4>3. b[k + 1 - i] = fields[i + (k + 1 - i) - 1]
        BY <2>2, <4>1
      <4> QED
        BY <2>1, <4>1, <4>2, <4>3
    <3> QED
      BY <2>1, <3>1, <3>2
  <2>9. enc \in Seq(ToSet(enc))
    BY <2>5 DEF ToSet
  <2> HIDE DEF n
  <2> QED
    BY <2>1, <2>6, <2>7, <2>8, <2>9 DEF IsSequence, ToSet
<1> QED
  BY <1>1, <1>2 DEF Encodings

\* A message with one field of a number: it is found, or nothing is believed.
LEMMA FindEncoded ==
    ASSUME NEW fields, IsSequence(fields), NEW n, n \in {1, 2},
           \A f \in ToSet(fields) : f.valid /\ f.typed /\ f.number \in {1, 2},
           NEW enc \in Encodings(fields)
    PROVE  LET found == Find(enc, n)
           IN  \/ Broken(found)
               \/ found \in ToSet(fields) /\ found.number = n /\ found # NoField /\ ~Broken(found)
               \/ found = NoField /\ ~Broken(found) /\ \A f \in ToSet(fields) : f.number # n
<1>1. IsSequence(enc) /\ ToSet(fields) \subseteq ToSet(enc) /\ ToSet(enc) \subseteq ToSet(fields) \cup {Unknown, Garbage}
  BY EncodingFacts
<1>2. NoField.valid /\ NoField.number = 0 /\ Unknown.valid /\ ~Unknown.typed /\ ~Garbage.valid
  BY DEF NoField, Unknown, Garbage
<1>3. CASE Find(enc, n) = NoField /\ \A f \in ToSet(enc) : ~(~f.valid \/ (f.number = n /\ f.typed))
  BY <1>1, <1>2, <1>3 DEF Broken
<1>4. CASE \E f \in ToSet(enc) : Find(enc, n) = f /\ (~f.valid \/ (f.number = n /\ f.typed))
  <2>1. PICK f \in ToSet(enc) : Find(enc, n) = f /\ (~f.valid \/ (f.number = n /\ f.typed))
    BY <1>4
  <2>2. CASE f.valid
    <3>1. f \in ToSet(fields) /\ f.number = n
      BY <1>1, <1>2, <2>1, <2>2
    <3> QED
      BY <1>2, <2>1, <2>2, <3>1 DEF Broken
  <2> QED
    BY <2>1, <2>2 DEF Broken
<1> QED
  BY <1>1, <1>3, <1>4, FindFacts

\* What checkOTLPResponse says of an answer that reports rejected points.
LEMMA CheckedPartial ==
    ASSUME NEW rejected \in Nat, NEW p \in PartialSuccesses(rejected), NEW body \in Encodings(<<Field(1, p)>>)
    PROVE  Check(body) \in {Error, IF rejected = 0 THEN Ok ELSE PartialSuccess(rejected)}
<1>1. PICK fields : /\ p \in Encodings(fields)
                    /\ \/ fields \in {<<Field(1, rejected)>>, <<Field(1, rejected), Field(2, Message)>>,
                                      <<Field(2, Message), Field(1, rejected)>>}
                       \/ rejected = 0 /\ fields \in {<<>>, <<Field(2, Message)>>}
  BY DEF PartialSuccesses
<1>2. /\ IsSequence(fields)
      /\ \A f \in ToSet(fields) : f \in {Field(1, rejected), Field(2, Message)}
      /\ rejected # 0 => Field(1, rejected) \in ToSet(fields)
  <2> DEFINE x == Field(1, rejected)
             y == Field(2, Message)
  <2>1. fields \in {<<x>>, <<x, y>>, <<y, x>>} \/ (rejected = 0 /\ fields \in {<<>>, <<y>>})
    BY <1>1
  <2> HIDE DEF x, y
  <2>2. IsSequence(fields)
    <3>1. \A s : s \in {<<>>, <<x>>, <<y>>, <<x, y>>, <<y, x>>} => s \in Seq({x, y})
      <4>1. /\ <<>> \in Seq({x, y}) /\ <<x>> \in Seq({x, y}) /\ <<y>> \in Seq({x, y})
            /\ <<x, y>> \in Seq({x, y}) /\ <<y, x>> \in Seq({x, y})
        OBVIOUS
      <4> QED
        BY <4>1
    <3>2. \A s : s \in Seq({x, y}) => s \in Seq(ToSet(s))
      BY DEF ToSet
    <3> QED
      BY <2>1, <3>1, <3>2 DEF IsSequence
  <2>3. (\A f \in ToSet(fields) : f \in {x, y}) /\ (rejected # 0 => x \in ToSet(fields))
    BY <2>1 DEF ToSet
  <2> QED
    BY <2>2, <2>3 DEF x, y
<1>3. \A n, v : /\ Field(n, v).number = n /\ Field(n, v).typed /\ Field(n, v).valid
                /\ Field(n, v).value = v
  BY DEF Field
<1>4. \A f \in ToSet(fields) : /\ f.valid /\ f.typed /\ f.number \in {1, 2}
                               /\ f.number = 1 => f.value = rejected
  BY <1>2, <1>3
<1> DEFINE part == Find(p, 1)
           message == Find(p, 2)
<1>5. \/ Broken(part)
      \/ part.value = rejected /\ part # NoField /\ ~Broken(part)
      \/ part = NoField /\ ~Broken(part) /\ rejected = 0
  BY <1>1, <1>2, <1>3, <1>4, FindEncoded
<1> DEFINE outer == <<Field(1, p)>>
           found == Find(body, 1)
<1>6. /\ IsSequence(outer)
      /\ \A f \in ToSet(outer) : f = Field(1, p)
      /\ Field(1, p) \in ToSet(outer)
  BY DEF IsSequence, ToSet
<1>7. \/ Broken(found)
      \/ found = Field(1, p) /\ found # NoField /\ ~Broken(found)
  <2>1. \A f \in ToSet(outer) : f.valid /\ f.typed /\ f.number \in {1, 2}
    BY <1>3, <1>6
  <2> HIDE DEF outer
  <2>2. \/ Broken(found)
        \/ found \in ToSet(outer) /\ found.number = 1 /\ found # NoField /\ ~Broken(found)
        \/ found = NoField /\ ~Broken(found) /\ \A f \in ToSet(outer) : f.number # 1
    BY <1>6, <2>1, FindEncoded DEF outer
  <2> QED
    BY <1>3, <1>6, <2>2
<1>8. Check(body) = IF Broken(found) THEN Error
                    ELSE IF found = NoField THEN Ok
                    ELSE LET r == Find(found.value, 1)
                             m == Find(found.value, 2)
                         IN  IF Broken(r) \/ Broken(m) THEN Error
                             ELSE IF r # NoField /\ r.value > 0 THEN PartialSuccess(r.value) ELSE Ok
  BY DEF Check
<1> HIDE DEF found
<1>9. CASE Broken(found)
  BY <1>8, <1>9
<1>10. CASE found = Field(1, p) /\ found # NoField /\ ~Broken(found)
  <2>1. Check(body) = IF Broken(part) \/ Broken(message) THEN Error
                      ELSE IF part # NoField /\ part.value > 0 THEN PartialSuccess(part.value) ELSE Ok
    BY <1>3, <1>8, <1>10
  <2> HIDE DEF part, message
  <2> QED
    BY <1>5, <2>1
<1> QED
  BY <1>7, <1>9, <1>10

\* And of any successful answer.
LEMMA CheckedBody ==
    ASSUME NEW rejected \in Nat, NEW body \in Bodies(rejected)
    PROVE  Check(body) \in {Error, IF rejected = 0 THEN Ok ELSE PartialSuccess(rejected)}
<1>1. CASE \E p \in PartialSuccesses(rejected) : body \in Encodings(<<Field(1, p)>>)
  BY <1>1, CheckedPartial
<1>2. CASE rejected = 0 /\ body \in Encodings(<<>>)
  <2>1. IsSequence(<<>>) /\ ToSet(<<>>) = {}
    BY DEF IsSequence, ToSet
  <2> DEFINE found == Find(body, 1)
  <2>2. Broken(found) \/ (found = NoField /\ ~Broken(found))
    BY <1>2, <2>1, FindEncoded
  <2>3. Broken(found) => Check(body) = Error
    BY DEF Check
  <2>4. ~Broken(found) /\ found = NoField => Check(body) = Ok
    BY DEF Check
  <2> QED
    BY <1>2, <2>2, <2>3, <2>4
<1> DEFINE A == UNION {Encodings(<<Field(1, p)>>) : p \in PartialSuccesses(rejected)}
           B == Encodings(<<>>)
<1>3. body \in A \/ (rejected = 0 /\ body \in B)
  <2>1. body \in A \cup (IF rejected = 0 THEN B ELSE {})
    BY Zenon DEF Bodies
  <2> HIDE DEF A, B
  <2> QED
    BY <2>1
<1> QED
  BY <1>1, <1>2, <1>3

-----------------------------------------------------------------------------
(* Its body.                                                                 *)

\* The samples of the series of that name, one element for each series; those of
\* the first n series make up the points of the metric.
OfName(name) ==
    [j \in DOMAIN writeRequest |-> IF writeRequest[j].name = name THEN writeRequest[j].samples ELSE <<>>]
PointsTo(name, n) == FlattenTo(OfName(name), n)
AllTimes == UNION {ToSet(writeRequest[i].samples) : i \in DOMAIN writeRequest}

\* The first n series of the batch are in the body.
Grouped(n) ==
    /\ \A i \in 1..n : Encodable(writeRequest[i])
    /\ \A i, j \in DOMAIN metrics : metrics[i].name = metrics[j].name => i = j
    /\ \A i \in DOMAIN metrics : \E j \in 1..n : writeRequest[j].name = metrics[i].name
    /\ \A j \in 1..n : \E i \in DOMAIN metrics : metrics[i].name = writeRequest[j].name
    /\ \A i \in DOMAIN metrics : metrics[i].points = PointsTo(metrics[i].name, n)

LEMMA BatchFacts ==
    ASSUME writeRequest \in Batches
    PROVE  /\ Len(writeRequest) \in Nat /\ DOMAIN writeRequest = 1..Len(writeRequest)
           /\ \A i \in DOMAIN writeRequest : /\ writeRequest[i].samples \in Seq(AllTimes)
                                             /\ Len(writeRequest[i].samples) \in Nat
           /\ \A name : OfName(name) \in Seq(Seq(AllTimes)) /\ Len(OfName(name)) = Len(writeRequest)
           /\ TotalPoints \in Nat
<1>1. Len(writeRequest) \in Nat /\ DOMAIN writeRequest = 1..Len(writeRequest)
  BY RequesterAssumption DEF IsSequence
<1>2. ASSUME NEW i \in DOMAIN writeRequest
      PROVE  writeRequest[i].samples \in Seq(AllTimes) /\ Len(writeRequest[i].samples) \in Nat
  <2> DEFINE samples == writeRequest[i].samples
  <2>1. samples \in Seq(ToSet(samples))
    BY RequesterAssumption DEF IsSequence
  <2>2. ToSet(samples) \subseteq AllTimes
    BY DEF AllTimes
  <2> HIDE DEF samples
  <2>3. samples \in Seq(AllTimes) /\ Len(samples) \in Nat
    BY <2>1, <2>2
  <2> QED
    BY <2>3 DEF samples
<1>3. ASSUME NEW name
      PROVE  OfName(name) \in Seq(Seq(AllTimes)) /\ Len(OfName(name)) = Len(writeRequest)
  <2>1. \A j \in DOMAIN writeRequest : OfName(name)[j] \in Seq(AllTimes)
    BY <1>2 DEF OfName
  <2>2. DOMAIN OfName(name) = 1..Len(writeRequest) /\ OfName(name) = [j \in 1..Len(writeRequest) |-> OfName(name)[j]]
    BY <1>1 DEF OfName
  <2> QED
    BY <1>1, <2>1, <2>2
<1>4. TotalPoints \in Nat
  <2>1. IsFiniteSet(DOMAIN writeRequest)
    BY <1>1, FS_Interval
  <2> DEFINE f == [i \in DOMAIN writeRequest |-> Len(writeRequest[i].samples)]
  <2>2. \A i \in DOMAIN writeRequest : f[i] \in Nat
    BY <1>2
  <2> HIDE DEF f
  <2>3. SumFunctionOnSet(f, DOMAIN writeRequest) \in Nat
    BY <2>1, <2>2, SumTypes
  <2> QED
    BY <2>3 DEF TotalPoints, f
<1> QED
  BY <1>1, <1>2, <1>3, <1>4

\* One series more.
LEMMA PointsNext ==
    ASSUME writeRequest \in Batches, NEW n \in Nat, n < Len(writeRequest), NEW name
    PROVE  /\ PointsTo(name, n) \in Seq(AllTimes)
           /\ PointsTo(name, n + 1) = IF writeRequest[n + 1].name = name
                                      THEN PointsTo(name, n) \o writeRequest[n + 1].samples ELSE PointsTo(name, n)
<1>1. OfName(name) \in Seq(Seq(AllTimes)) /\ n < Len(OfName(name)) /\ Len(OfName(name)) \in Nat
  BY BatchFacts
<1>2. PointsTo(name, n) \in Seq(AllTimes)
  BY <1>1, FlattenPrefix DEF PointsTo
<1>3. PointsTo(name, n + 1) = PointsTo(name, n) \o OfName(name)[n + 1]
  BY <1>1, FlattenNext DEF PointsTo
<1>4. n + 1 \in DOMAIN writeRequest
  BY BatchFacts
<1>5. OfName(name)[n + 1] = IF writeRequest[n + 1].name = name THEN writeRequest[n + 1].samples ELSE <<>>
  BY <1>4 DEF OfName
<1> QED
  BY <1>2, <1>3, <1>5, ConcatEmptySeq

\* A metric that none of the first series has got has no points of them.
LEMMA PointsOfNone ==
    ASSUME writeRequest \in Batches, NEW n \in Nat, n <= Len(writeRequest), NEW name,
           \A j \in 1..n : writeRequest[j].name # name
    PROVE  PointsTo(name, n) = <<>>
<1> DEFINE T == {k \in Nat : k <= n => PointsTo(name, k) = <<>>}
<1>1. 0 \in T
  <2>1. OfName(name) \in Seq(Seq(AllTimes))
    BY BatchFacts
  <2> QED
    BY <2>1, FlattenEnds DEF PointsTo
<1>2. ASSUME NEW k \in Nat, k \in T PROVE k + 1 \in T
  <2> SUFFICES ASSUME k + 1 <= n PROVE PointsTo(name, k + 1) = <<>>
    OBVIOUS
  <2>1. Len(writeRequest) \in Nat
    BY BatchFacts
  <2>2. k < Len(writeRequest) /\ k + 1 \in 1..n /\ k <= n
    BY <2>1
  <2>3. writeRequest[k + 1].name # name /\ PointsTo(name, k) = <<>>
    BY <1>2, <2>2
  <2> QED
    BY <2>2, <2>3, PointsNext
<1> HIDE DEF T
<1>3. n \in T
  BY <1>1, <1>2, NumbersInduction
<1> QED
  BY <1>3 DEF T

OneMetric == [name : {writeRequest[i].name : i \in DOMAIN writeRequest}, points : Seq(AllTimes)]

\* Put keeps the series grouped, whether it finds the metric or makes it.
LEMMA PutFacts ==
    ASSUME writeRequest \in Batches, NEW n \in Nat, n < Len(writeRequest), Encodable(writeRequest[n + 1]),
           metrics \in Seq(OneMetric), Grouped(n), metrics' = Put(writeRequest[n + 1]),
           UNCHANGED writeRequest
    PROVE  metrics' \in Seq(OneMetric) /\ Grouped(n + 1)'
<1> DEFINE series == writeRequest[n + 1]
           I == {i \in 1..Len(metrics) : metrics[i].name = series.name}
<1> SUFFICES ASSUME NEW found, found = SelectInSeq(metrics, LAMBDA m : m.name = series.name)
             PROVE  metrics' \in Seq(OneMetric) /\ Grouped(n + 1)'
  OBVIOUS
<1>1. /\ Len(metrics) \in Nat /\ DOMAIN metrics = 1..Len(metrics)
      /\ \A i \in DOMAIN metrics : /\ metrics[i] \in OneMetric
                                   /\ metrics[i] = [name |-> metrics[i].name, points |-> metrics[i].points]
  <2>1. Len(metrics) \in Nat /\ DOMAIN metrics = 1..Len(metrics) /\ \A i \in DOMAIN metrics : metrics[i] \in OneMetric
    OBVIOUS
  <2>2. \A m \in OneMetric : m = [name |-> m.name, points |-> m.points]
    BY DEF OneMetric
  <2> QED
    BY <2>1, <2>2
<1>2. /\ n + 1 \in DOMAIN writeRequest /\ series.samples \in Seq(AllTimes)
      /\ Len(writeRequest) \in Nat
  BY BatchFacts
<1>3. \A name : PointsTo(name, n) \in Seq(AllTimes)
                /\ PointsTo(name, n + 1) = IF series.name = name THEN PointsTo(name, n) \o series.samples
                                           ELSE PointsTo(name, n)
  BY PointsNext
<1>4. \A name : PointsTo(name, n + 1)' = PointsTo(name, n + 1)
  BY DEF PointsTo, OfName
<1>5. \A i \in 1..(n + 1) : i \in 1..n \/ i = n + 1
  OBVIOUS
<1>6. \A i \in 1..n : i \in 1..(n + 1)
  OBVIOUS
<1>7. n + 1 \in 1..(n + 1)
  OBVIOUS
<1>8. OneMetric' = OneMetric /\ \A i \in 1..(n + 1) : Encodable(writeRequest[i])'
  <2>1. \A i \in 1..(n + 1) : Encodable(writeRequest[i])
    BY <1>5 DEF Grouped
  <2> QED
    BY <2>1 DEF OneMetric, AllTimes, Encodable
<1>9. CASE found # 0
  <2>1. found \in I
    <3>1. I # {}
      BY <1>9 DEF SelectInSeq
    <3>2. found = Min(I)
      BY <3>1 DEF SelectInSeq
    <3> QED
      BY <1>1, <3>1, <3>2, FirstPlace
  <2>2. metrics' = [metrics EXCEPT ![found].points = @ \o series.samples]
    BY <1>9 DEF Put
  <2>3. found \in DOMAIN metrics /\ metrics[found].name = series.name
    BY <1>1, <2>1
  <2>4. /\ DOMAIN metrics' = DOMAIN metrics /\ Len(metrics') = Len(metrics)
        /\ \A i \in DOMAIN metrics : i # found => metrics'[i] = metrics[i]
        /\ metrics'[found] = [metrics[found] EXCEPT !.points = @ \o series.samples]
    BY <1>1, <2>2, <2>3
  <2>5. /\ metrics'[found] = [name |-> series.name, points |-> metrics[found].points \o series.samples]
        /\ metrics'[found].points = metrics[found].points \o series.samples
    BY <1>1, <2>3, <2>4
  <2> HIDE DEF series
  <2>6. metrics[found].points \in Seq(AllTimes)
    BY <1>1, <2>3 DEF OneMetric
  <2>7. metrics'[found] \in OneMetric
    <3>1. metrics[found].points \o series.samples \in Seq(AllTimes)
      BY <1>2, <2>6
    <3>2. series.name \in {writeRequest[i].name : i \in DOMAIN writeRequest}
      BY <1>2 DEF series
    <3> QED
      BY <2>5, <3>1, <3>2 DEF OneMetric
  <2>8. metrics' \in Seq(OneMetric)
    <3>1. \A i \in DOMAIN metrics : metrics'[i] \in OneMetric
      BY <1>1, <2>4, <2>7
    <3>2. metrics' = [i \in 1..Len(metrics) |-> metrics'[i]]
      BY <1>1, <2>2
    <3> QED
      BY <1>1, <3>1, <3>2
  <2>9. \A i \in DOMAIN metrics : metrics'[i].name = metrics[i].name
    BY <2>3, <2>4, <2>5
  <2>10. ASSUME NEW i \in DOMAIN metrics
         PROVE  metrics'[i].points = PointsTo(metrics[i].name, n + 1)
    <3>1. metrics[i].points = PointsTo(metrics[i].name, n)
      BY DEF Grouped
    <3>2. CASE i = found
      <4>1. metrics'[i].points = metrics[i].points \o series.samples
        <5>1. metrics'[found].points = metrics[found].points \o series.samples
          BY <2>5
        <5> QED
          BY <3>2, <5>1, Zenon
      <4>2. PointsTo(metrics[i].name, n + 1) = PointsTo(metrics[i].name, n) \o series.samples
        BY <1>3, <2>3, <3>2
      <4> QED
        BY <3>1, <4>1, <4>2
    <3>3. CASE i # found
      <4>1. metrics[i].name # series.name
        BY <2>3, <3>3 DEF Grouped
      <4> QED
        BY <1>3, <2>4, <3>1, <3>3, <4>1
    <3> QED
      BY <3>2, <3>3
  <2>11. \A j \in 1..(n + 1) : \E i \in DOMAIN metrics : metrics[i].name = writeRequest[j].name
    BY <1>5, <2>3 DEF Grouped, series
  <2> QED
    BY <1>4, <1>6, <1>8, <2>4, <2>8, <2>9, <2>10, <2>11 DEF Grouped
<1>10. CASE found = 0
  <2>1. \A i \in DOMAIN metrics : metrics[i].name # series.name
    <3> SUFFICES ASSUME I # {} PROVE FALSE
      BY <1>1
    <3>1. found = Min(I)
      BY DEF SelectInSeq
    <3>2. found \in I
      BY <1>1, <3>1, FirstPlace
    <3> QED
      BY <1>10, <3>2
  <2> DEFINE new == [name |-> series.name, points |-> series.samples]
  <2>2. metrics' = Append(metrics, new)
    BY <1>10 DEF Put
  <2>3. new \in OneMetric /\ new.name = series.name /\ new.points = series.samples
    BY <1>2 DEF OneMetric
  <2> HIDE DEF new
  <2>4. /\ metrics' \in Seq(OneMetric) /\ Len(metrics') = Len(metrics) + 1
        /\ DOMAIN metrics' = 1..(Len(metrics) + 1)
        /\ \A i \in DOMAIN metrics : metrics'[i] = metrics[i]
        /\ metrics'[Len(metrics) + 1] = new
    BY <1>1, <2>2, <2>3
  <2> DEFINE last == Len(metrics) + 1
  <2>5. (\A i \in DOMAIN metrics' : i \in DOMAIN metrics \/ i = last) /\ last \in DOMAIN metrics'
        /\ DOMAIN metrics \subseteq DOMAIN metrics'
    BY <1>1, <2>4
  <2>6. metrics'[last] = new /\ \A i \in DOMAIN metrics : metrics'[i] = metrics[i]
    BY <2>4
  <2> HIDE DEF last, series
  <2>7. PointsTo(series.name, n + 1) = series.samples
    <3>1. \A j \in 1..n : writeRequest[j].name # series.name
      BY <2>1 DEF Grouped
    <3>2. PointsTo(series.name, n) = <<>>
      BY <1>2, <3>1, PointsOfNone
    <3> QED
      BY <1>2, <1>3, <3>2, ConcatEmptySeq
  <2>8. \A i \in DOMAIN metrics' : metrics'[i].points = PointsTo(metrics'[i].name, n + 1)
    BY <1>3, <2>1, <2>3, <2>5, <2>6, <2>7 DEF Grouped
  <2>9. \A i, j \in DOMAIN metrics' : metrics'[i].name = metrics'[j].name => i = j
    BY <2>1, <2>3, <2>5, <2>6 DEF Grouped
  <2>10. /\ \A i \in DOMAIN metrics' : \E j \in 1..(n + 1) : writeRequest[j].name = metrics'[i].name
         /\ \A j \in 1..(n + 1) : \E i \in DOMAIN metrics' : metrics'[i].name = writeRequest[j].name
    <3>1. \A i \in DOMAIN metrics' : \E j \in 1..(n + 1) : writeRequest[j].name = metrics'[i].name
      <4> TAKE i \in DOMAIN metrics'
      <4>1. CASE i \in DOMAIN metrics
        <5>1. \E j \in 1..n : writeRequest[j].name = metrics[i].name
          BY <4>1 DEF Grouped
        <5> QED
          BY <1>6, <2>6, <4>1, <5>1
      <4>2. CASE i = last
        BY <1>7, <2>3, <2>6, <4>2 DEF series
      <4> QED
        BY <2>5, <4>1, <4>2
    <3>2. \A j \in 1..(n + 1) : \E i \in DOMAIN metrics' : metrics'[i].name = writeRequest[j].name
      <4> TAKE j \in 1..(n + 1)
      <4>1. CASE j \in 1..n
        <5>1. \E i \in DOMAIN metrics : metrics[i].name = writeRequest[j].name
          BY <4>1 DEF Grouped
        <5> QED
          BY <2>5, <2>6, <5>1
      <4>2. CASE j = n + 1
        BY <2>3, <2>5, <2>6, <4>2 DEF series
      <4> QED
        BY <1>5, <4>1, <4>2
    <3> QED
      BY <3>1, <3>2
  <2> QED
    BY <1>4, <1>8, <2>4, <2>8, <2>9, <2>10 DEF Grouped
<1> QED
  BY <1>8, <1>9, <1>10

-----------------------------------------------------------------------------
(* The request as a whole.                                                   *)

\* What may be said of the points that the server has not taken.
Honest == {Error, IF stored = TotalPoints THEN Ok ELSE PartialSuccess(TotalPoints - stored)}

RequesterTypes ==
    /\ protocol \in {"prometheus", "otlp", "v2"}
    /\ writeRequest \in Batches
    /\ encoding \in 1..(Len(writeRequest) + 1)
    /\ metrics \in Seq(OneMetric)
    /\ requestPc \in {"marshal", "post", "sent", "answered", "returned"}
    /\ stored \in 0..TotalPoints

\* A body that is sent has all of the batch.
BodyInv == /\ Grouped(encoding - 1)
           /\ protocol = "otlp" /\ Sent => encoding = Len(writeRequest) + 1

\* An answer can only be told in a way that is true, and so it is told.
AnswerInv == /\ requestPc = "answered" => Result \in Honest
             /\ IF requestPc = "returned" THEN outcome \in Honest ELSE outcome = None

RequesterInv == RequesterTypes /\ BodyInv /\ AnswerInv

LEMMA RequesterStarted == RequesterInit => RequesterInv
<1> SUFFICES ASSUME RequesterInit PROVE RequesterInv
  OBVIOUS
<1>1. RequesterTypes
  <2>1. Len(writeRequest) \in Nat /\ TotalPoints \in Nat
    BY BatchFacts DEF RequesterInit
  <2>2. 1 \in 1..(Len(writeRequest) + 1) /\ 0 \in 0..TotalPoints
    BY <2>1
  <2> QED
    BY <2>2, RequesterAssumption DEF RequesterInit, RequesterTypes
<1>2. BodyInv
  <2>1. DOMAIN metrics = {} /\ 1..0 = {} /\ encoding - 1 = 0
    BY DEF RequesterInit
  <2>2. Grouped(0)
    BY <2>1 DEF Grouped
  <2> QED
    BY <2>1, <2>2 DEF RequesterInit, BodyInv, Sent
<1>3. AnswerInv
  BY DEF RequesterInit, AnswerInv
<1> QED
  BY <1>1, <1>2, <1>3 DEF RequesterInv

\* What the steps leave alone that change neither batch nor body.
LEMMA BodyStays ==
    ASSUME UNCHANGED <<request, metrics>>
    PROVE  /\ OneMetric' = OneMetric /\ TotalPoints' = TotalPoints
           /\ \A n : Grouped(n)' <=> Grouped(n)
BY DEF request, OneMetric, AllTimes, TotalPoints, Grouped, PointsTo, OfName, Encodable

LEMMA MarshalStep == ASSUME RequesterInv, Marshal PROVE RequesterInv'
<1> SUFFICES ASSUME NEW n, n = encoding - 1 PROVE RequesterInv'
  OBVIOUS
<1>1. /\ n \in Nat /\ n < Len(writeRequest) /\ n + 1 = encoding /\ encoding' - 1 = n + 1
      /\ encoding' \in 1..(Len(writeRequest) + 1) /\ Len(writeRequest) \in Nat
  BY BatchFacts DEF RequesterInv, RequesterTypes, Marshal
<1>2. UNCHANGED writeRequest /\ TotalPoints' = TotalPoints
  BY DEF Marshal, request, TotalPoints
<1>3. metrics' \in Seq(OneMetric) /\ Grouped(n + 1)'
  <2>1. Grouped(n) /\ metrics \in Seq(OneMetric) /\ writeRequest \in Batches
    BY DEF RequesterInv, RequesterTypes, BodyInv
  <2>2. Encodable(writeRequest[n + 1]) /\ metrics' = Put(writeRequest[n + 1])
    BY <1>1 DEF Marshal
  <2>3. n \in Nat /\ n < Len(writeRequest)
    BY <1>1
  <2> QED
    BY <1>2, <2>1, <2>2, <2>3, PutFacts
<1>4. OneMetric' = OneMetric
  BY <1>2 DEF OneMetric, AllTimes
<1>5. RequesterTypes'
  BY <1>1, <1>2, <1>3, <1>4 DEF RequesterInv, RequesterTypes, Marshal, request
<1>6. Grouped(encoding - 1)'
  <2>1. encoding' - 1 = n + 1
    BY <1>1
  <2>2. Grouped(encoding - 1)' <=> Grouped(n + 1)'
    BY <2>1 DEF Grouped
  <2> QED
    BY <1>3, <2>2
<1>7. BodyInv'
  BY <1>6 DEF BodyInv, Marshal, Sent
<1>8. AnswerInv'
  BY DEF RequesterInv, AnswerInv, Marshal
<1> QED
  BY <1>5, <1>7, <1>8 DEF RequesterInv

LEMMA MoveStep == ASSUME RequesterInv, Marshalled \/ PostRequest PROVE RequesterInv'
<1>1. /\ UNCHANGED <<request, metrics, encoding, stored, response, outcome>>
      /\ requestPc \in {"marshal", "post"} /\ requestPc' \in {"post", "sent"}
      /\ requestPc = "marshal" => encoding > Len(writeRequest)
  BY DEF Marshalled, PostRequest
<1>2. /\ OneMetric' = OneMetric /\ TotalPoints' = TotalPoints
      /\ \A n : Grouped(n)' <=> Grouped(n)
  BY <1>1, BodyStays
<1>3. RequesterTypes'
  BY <1>1, <1>2 DEF RequesterInv, RequesterTypes, request
<1>4. BodyInv'
  <2>1. Len(writeRequest) \in Nat /\ encoding \in 1..(Len(writeRequest) + 1)
    BY BatchFacts DEF RequesterInv, RequesterTypes
  <2>2. Grouped(encoding - 1)'
    <3>1. Grouped(encoding - 1)
      BY DEF RequesterInv, BodyInv
    <3>2. (encoding - 1)' = encoding - 1
      BY <1>1
    <3>3. Grouped(encoding - 1)' <=> Grouped(encoding - 1)
      BY <1>1 DEF Grouped, PointsTo, OfName, Encodable, request
    <3> QED
      BY <3>1, <3>3
  <2>3. protocol = "otlp" => encoding = Len(writeRequest) + 1
    <3>1. requestPc = "post" /\ protocol = "otlp" => encoding = Len(writeRequest) + 1
      BY DEF RequesterInv, BodyInv, Sent
    <3>2. requestPc = "marshal" => encoding = Len(writeRequest) + 1
      BY <1>1, <2>1
    <3> QED
      BY <1>1, <3>1, <3>2
  <2> QED
    BY <1>1, <2>2, <2>3 DEF BodyInv, request
<1>5. AnswerInv'
  BY <1>1 DEF RequesterInv, AnswerInv
<1> QED
  BY <1>3, <1>4, <1>5 DEF RequesterInv

\* A step that ends the request with a result that is true.
LEMMA ReturnStep ==
    ASSUME RequesterInv, NEW result \in Honest, Return(result),
           UNCHANGED <<request, encoding, metrics, stored, response>>
    PROVE  RequesterInv'
<1>1. /\ OneMetric' = OneMetric /\ TotalPoints' = TotalPoints
      /\ \A n : Grouped(n)' <=> Grouped(n)
  BY BodyStays
<1>2. RequesterTypes'
  BY <1>1 DEF RequesterInv, RequesterTypes, request, Return
<1>3. BodyInv'
  <2>1. Grouped(encoding - 1)' <=> Grouped(encoding - 1)
    BY DEF Grouped, PointsTo, OfName, Encodable, request
  <2> QED
    BY <2>1 DEF RequesterInv, BodyInv, Sent, Return
<1>4. AnswerInv'
  <2>1. Honest' = Honest
    BY <1>1 DEF Honest
  <2> QED
    BY <2>1 DEF AnswerInv, Return
<1> QED
  BY <1>2, <1>3, <1>4 DEF RequesterInv

LEMMA FailSteps == ASSUME RequesterInv, MarshalFails \/ TransportFails PROVE RequesterInv'
<1>1. Error \in Honest
  BY DEF Honest
<1>2. Return(Error) /\ UNCHANGED <<request, encoding, metrics, stored, response>>
  BY DEF MarshalFails, TransportFails
<1> QED
  BY <1>1, <1>2, ReturnStep

LEMMA AnswerReceived == ASSUME RequesterInv, Receive PROVE RequesterInv'
<1>1. Result \in Honest
  BY DEF RequesterInv, AnswerInv, Receive
<1> QED
  BY <1>1, ReturnStep DEF Receive

LEMMA Remainder == ASSUME NEW total \in Nat, NEW part \in 0..total
                   PROVE  total - part \in Nat /\ (total - part = 0 <=> part = total)
OBVIOUS

LEMMA AnswerStep == ASSUME RequesterInv, Answer PROVE RequesterInv'
<1>1. /\ UNCHANGED <<request, encoding, metrics, outcome>>
      /\ requestPc = "sent" /\ requestPc' = "answered"
  BY DEF Answer
<1>2. /\ OneMetric' = OneMetric /\ TotalPoints' = TotalPoints
      /\ \A n : Grouped(n)' <=> Grouped(n)
  BY <1>1, BodyStays
<1>3. TotalPoints \in Nat
  BY BatchFacts DEF RequesterInv, RequesterTypes
<1>4. stored' \in 0..TotalPoints /\ Result' \in Honest'
  <2> DEFINE left == TotalPoints - stored'
  <2>1. Honest' = {Error, IF stored' = TotalPoints THEN Ok ELSE PartialSuccess(left)}
    BY <1>2 DEF Honest
  <2>2. CASE stored' = 0 /\ response' = [status |-> "failure", fields |-> <<>>, written |-> None]
    <3>1. Result' = Error
      BY <2>2 DEF Result
    <3> QED
      BY <1>3, <2>1, <2>2, <3>1
  <2>3. CASE /\ protocol = "prometheus" /\ stored' = TotalPoints
             /\ response' = [status |-> "success", fields |-> <<>>, written |-> None]
    <3>1. Result' = Ok
      BY <1>1, <2>3 DEF Result, request
    <3> QED
      BY <1>3, <2>1, <2>3, <3>1
  <2>4. ASSUME protocol = "v2", stored' \in 0..TotalPoints, NEW w \in {stored', None},
               response' = [status |-> "success", fields |-> <<>>, written |-> w]
        PROVE  stored' \in 0..TotalPoints /\ Result' \in Honest'
    <3>1. Result' = IF w # TotalPoints THEN Error ELSE Ok
      BY <1>1, <1>2, <2>4 DEF Result, request
    <3>2. w = TotalPoints => stored' = TotalPoints
      BY <1>3, <2>4, RequesterAssumption
    <3> QED
      BY <2>1, <2>4, <3>1, <3>2
  <2>5. ASSUME protocol = "otlp", stored' \in 0..TotalPoints, NEW f \in Bodies(TotalPoints - stored'),
               response' = [status |-> "success", fields |-> f, written |-> None]
        PROVE  stored' \in 0..TotalPoints /\ Result' \in Honest'
    <3>1. Result' = Check(f)
      BY <1>1, <2>5 DEF Result, request
    <3>2. left \in Nat /\ (left = 0 => stored' = TotalPoints) /\ (stored' = TotalPoints => left = 0)
      <4>1. stored' \in 0..TotalPoints
        BY <2>5
      <4> QED
        BY <1>3, <4>1, Remainder
    <3>3. Check(f) \in {Error, IF left = 0 THEN Ok ELSE PartialSuccess(left)}
      <4> SUFFICES ASSUME NEW k, k = left PROVE Check(f) \in {Error, IF k = 0 THEN Ok ELSE PartialSuccess(k)}
        OBVIOUS
      <4> QED
        BY <2>5, <3>2, CheckedBody
    <3> HIDE DEF left
    <3> QED
      BY <2>1, <2>5, <3>1, <3>2, <3>3
  <2> QED
    BY <2>2, <2>3, <2>4, <2>5 DEF Answer
<1>5. RequesterTypes'
  BY <1>1, <1>2, <1>4 DEF RequesterInv, RequesterTypes, request
<1>6. BodyInv'
  <2>1. Grouped(encoding - 1)' <=> Grouped(encoding - 1)
    BY <1>1 DEF Grouped, PointsTo, OfName, Encodable, request
  <2> QED
    BY <1>1, <2>1 DEF RequesterInv, BodyInv, Sent, request
<1>7. AnswerInv'
  BY <1>1, <1>4 DEF RequesterInv, AnswerInv
<1> QED
  BY <1>5, <1>6, <1>7 DEF RequesterInv

LEMMA RequesterStep == RequesterInv /\ [RequesterNext]_requesterVars => RequesterInv'
<1> SUFFICES ASSUME RequesterInv, [RequesterNext]_requesterVars PROVE RequesterInv'
  OBVIOUS
<1>1. CASE UNCHANGED requesterVars
  <2>1. UNCHANGED <<request, metrics, encoding, requestPc, stored, response, outcome>>
    BY <1>1 DEF requesterVars
  <2>2. OneMetric' = OneMetric /\ TotalPoints' = TotalPoints
    BY <2>1, BodyStays
  <2>3. Grouped(encoding - 1)' <=> Grouped(encoding - 1)
    BY <2>1 DEF Grouped, PointsTo, OfName, Encodable, request
  <2>4. Result' = Result /\ Honest' = Honest
    BY <2>1, <2>2 DEF Result, Honest, request
  <2>5. RequesterTypes' /\ BodyInv' /\ AnswerInv'
    BY <2>1, <2>2, <2>3, <2>4 DEF RequesterInv, RequesterTypes, BodyInv, AnswerInv, Sent, request
  <2> QED
    BY <2>5 DEF RequesterInv
<1>2. CASE RequesterNext
  BY <1>2, MarshalStep, MoveStep, FailSteps, AnswerStep, AnswerReceived DEF RequesterNext
<1> QED
  BY <1>1, <1>2

\* The body has the series encoded so far, and whatever the answer holds it can only
\* be told in a way that is true (client.go, otlp.go and v2.go).
THEOREM RequesterInvariance == RequesterSpec => []RequesterInv
BY RequesterStarted, RequesterStep, PTL DEF RequesterSpec

\* A request carries its whole batch, and Send reports success only if the server
\* has taken all of it and a partial success with the number that it has not.
THEOREM RequestsAreHonest == RequesterSpec => []DeliveredOrReported
<1>1. RequesterInv => DeliveredOrReported
  <2> SUFFICES ASSUME RequesterInv PROVE DeliveredOrReported
    OBVIOUS
  <2>1. TotalPoints \in Nat /\ stored \in 0..TotalPoints /\ writeRequest \in Batches
    BY BatchFacts DEF RequesterInv, RequesterTypes
  <2>2. ASSUME protocol = "otlp", Sent PROVE BodyIsBatch
    <3>1. Len(writeRequest) \in Nat /\ DOMAIN writeRequest = 1..Len(writeRequest)
      BY <2>1, BatchFacts
    <3> SUFFICES ASSUME NEW n, n = Len(writeRequest) PROVE BodyIsBatch
      OBVIOUS
    <3>2. encoding - 1 = n
      BY <2>2, <3>1 DEF RequesterInv, BodyInv
    <3>3. Grouped(n)
      BY <3>2 DEF RequesterInv, BodyInv
    <3>4. \A name : PointsTo(name, n) = FlattenSeq(OfName(name))
      <4> TAKE name
      <4>1. OfName(name) \in Seq(Seq(AllTimes)) /\ Len(OfName(name)) = n
        BY <2>1, BatchFacts
      <4> QED
        BY <4>1, FlattenEnds DEF PointsTo
    <3>5. {metrics[i].name : i \in DOMAIN metrics} = {writeRequest[i].name : i \in DOMAIN writeRequest}
      BY <3>1, <3>3 DEF Grouped
    <3>6. \A i \in DOMAIN metrics : metrics[i].points = FlattenSeq(OfName(metrics[i].name))
      BY <3>3, <3>4 DEF Grouped
    <3> QED
      BY <3>1, <3>3, <3>5, <3>6 DEF BodyIsBatch, Grouped, OfName
  <2>3. outcome = None \/ outcome \in Honest
    BY DEF RequesterInv, AnswerInv
  <2>4. outcome = Ok => stored = TotalPoints
    <3>1. Ok \in [kind : {"ok"}, rejected : Nat]
      BY DEF Ok
    <3>2. Ok # None /\ Ok # Error /\ \A n : Ok # PartialSuccess(n)
      BY <3>1, RequesterAssumption DEF Ok, Error, PartialSuccess
    <3> QED
      BY <2>3, <3>2 DEF Honest
  <2>5. outcome # None /\ outcome.kind = "partial" => outcome.rejected = TotalPoints - stored
    BY <2>3 DEF Honest, Ok, Error, PartialSuccess
  <2> QED
    BY <2>2, <2>4, <2>5 DEF DeliveredOrReported
<1> QED
  BY <1>1, RequesterInvariance, PTL

-----------------------------------------------------------------------------
(* loader: a tick.                                                           *)

USE DEF tickVars

-----------------------------------------------------------------------------
(* The samples of a tick.                                                    *)

\* The sample of a captured series' clone m of its metric and l of its labels.
CloneSample(series, m, l, time) == [series |-> CloneOf(series, m, l), time |-> time]

SampleSet(clones, sets, times) ==
    {CloneSample(s, m, l, t) : s \in Captured, m \in clones, l \in sets, t \in times}

LEMMA SampleSetMembers ==
    ASSUME NEW clones, NEW sets, NEW times
    PROVE  \A x : x \in SampleSet(clones, sets, times) <=>
              \E s \in Captured : \E m \in clones : \E l \in sets : \E t \in times :
                  x = CloneSample(s, m, l, t)
BY DEF SampleSet

\* Those of which no labels are cloned.
LEMMA PlainSetMembers ==
    ASSUME NEW clones, NEW times
    PROVE  \A x : x \in SampleSet(clones, {0}, times) <=>
              \E s \in Captured : \E m \in clones : \E t \in times :
                  x = CloneSample(s, m, 0, t)
<1> SUFFICES ASSUME NEW x
             PROVE  x \in SampleSet(clones, {0}, times) <=>
                       \E s \in Captured : \E m \in clones : \E t \in times :
                           x = CloneSample(s, m, 0, t)
  OBVIOUS
<1>1. x \in SampleSet(clones, {0}, times) <=>
         \E s \in Captured : \E m \in clones : \E l \in {0} : \E t \in times :
             x = CloneSample(s, m, l, t)
  BY SampleSetMembers
<1>2. \A m : \A s : (\E l \in {0} : \E t \in times : x = CloneSample(s, m, l, t))
         <=> \E t \in times : x = CloneSample(s, m, 0, t)
  OBVIOUS
<1> QED
  BY <1>1, <1>2

\* A number put behind a name makes it longer and is its last.
LEMMA NumberedFacts ==
    ASSUME NEW name \in NumberedNames, NEW i \in Nat
    PROVE  /\ Numbered(name, i) \in NumberedNames
           /\ Len(name.added) \in Nat /\ Len(Numbered(name, i).added) = Len(name.added) + 1
           /\ Numbered(name, i).added[Len(name.added) + 1] = i
<1> DEFINE a == name.added
           grown == Append(a, i)
<1>1. a \in Seq(Nat) /\ name.base \in Bases
  BY DEF NumberedNames
<1> HIDE DEF a
<1>2. grown \in Seq(Nat) /\ Len(a) \in Nat /\ Len(grown) = Len(a) + 1 /\ grown[Len(a) + 1] = i
  BY <1>1
<1>3. Numbered(name, i) = [base |-> name.base, added |-> grown]
  BY DEF Numbered, a
<1> HIDE DEF grown
<1>4. Numbered(name, i).added = grown /\ Numbered(name, i) \in NumberedNames
  BY <1>1, <1>2, <1>3 DEF NumberedNames
<1> QED
  BY <1>2, <1>4 DEF a

\* So two names with a number are the same only with the same.
LEMMA NumbersTell ==
    ASSUME NEW name \in NumberedNames, NEW other \in NumberedNames, NEW i \in Nat, NEW j \in Nat,
           Numbered(name, i) = Numbered(other, j)
    PROVE  i = j
<1>1. /\ Len(name.added) \in Nat /\ Len(Numbered(name, i).added) = Len(name.added) + 1
      /\ Numbered(name, i).added[Len(name.added) + 1] = i
  BY NumberedFacts
<1>2. /\ Len(other.added) \in Nat /\ Len(Numbered(other, j).added) = Len(other.added) + 1
      /\ Numbered(other, j).added[Len(other.added) + 1] = j
  BY NumberedFacts
<1>3. Len(name.added) = Len(other.added)
  BY <1>1, <1>2
<1> QED
  BY <1>1, <1>2, <1>3

\* The labels of clone l; those of two clones differ, if there are any.
LabelsOf(labels, l) == IF l = 0 THEN labels ELSE {Numbered(label, l) : label \in labels}

LEMMA LabelsGrow ==
    ASSUME NEW labels, labels \subseteq NumberedNames, labels # {}, NEW l \in Nat \ {0}
    PROVE  {Numbered(label, l) : label \in labels} # labels
<1> SUFFICES ASSUME {Numbered(label, l) : label \in labels} = labels PROVE FALSE
  OBVIOUS
<1> DEFINE lengths == {Len(label.added) : label \in labels}
<1>1. \A label \in labels : Len(label.added) \in Nat
  BY NumberedFacts
<1>2. lengths \subseteq Nat /\ lengths # {}
  BY <1>1
<1>3. PICK n \in lengths : \A k \in lengths : n <= k
  <2> HIDE DEF lengths
  <2> QED
    BY <1>2, LeastOf
<1>4. PICK label \in labels : n = Len(label.added)
  BY <1>3
<1>5. PICK shorter \in labels : label = Numbered(shorter, l)
  BY <1>4
<1>6. Len(label.added) = Len(shorter.added) + 1 /\ Len(shorter.added) \in Nat
  BY <1>5, NumberedFacts
<1>7. n <= Len(shorter.added)
  BY <1>3
<1> QED
  BY <1>4, <1>6, <1>7

LEMMA LabelsTell ==
    ASSUME NEW labels, labels \subseteq NumberedNames, labels # {}, NEW l \in Nat, NEW k \in Nat,
           LabelsOf(labels, l) = LabelsOf(labels, k)
    PROVE  l = k
<1>1. CASE l = 0 \/ k = 0
  BY <1>1, LabelsGrow DEF LabelsOf
<1>2. CASE l # 0 /\ k # 0
  <2>1. {Numbered(label, l) : label \in labels} = {Numbered(label, k) : label \in labels}
    BY <1>2 DEF LabelsOf
  <2>2. PICK label \in labels : TRUE
    OBVIOUS
  <2>3. PICK other \in labels : Numbered(label, l) = Numbered(other, k)
    BY <2>1
  <2> QED
    BY <2>2, <2>3, NumbersTell
<1> QED
  BY <1>1, <1>2

\* The name and the labels of a clone.
LEMMA CloneOfParts ==
    ASSUME NEW s \in Captured, NEW m \in Nat, NEW l \in Nat
    PROVE  /\ CloneOf(s, m, l).name = IF m = 0 THEN s.name ELSE Numbered(s.name, m)
           /\ CloneOf(s, m, l).labels = LabelsOf(s.labels, l)
           /\ s.name \in NumberedNames /\ s.labels \subseteq NumberedNames
<1>1. s.name \in NumberedNames /\ s.labels \subseteq NumberedNames
  BY LoaderAssumption
<1> QED
  BY <1>1 DEF CloneOf, CloneMetric, CloneLabels, LabelsOf

\* If the captured series are apart, a sample tells what it is of.
LEMMA CloneSampleParts ==
    ASSUME CapturedApart, flags \in Flags, NEW s \in Captured, NEW z \in Captured,
           NEW m \in 0..(MetricScale - 1), NEW k \in 0..(MetricScale - 1),
           NEW l \in 0..(LabelScale - 1), NEW j \in 0..(LabelScale - 1), NEW t, NEW u,
           CloneSample(s, m, l, t) = CloneSample(z, k, j, u)
    PROVE  s = z /\ m = k /\ l = j /\ t = u
<1>0. /\ m \in Nat /\ k \in Nat /\ l \in Nat /\ j \in Nat
      /\ MetricScale \in Nat \ {0} /\ LabelScale \in Nat \ {0}
  BY LoaderAssumption DEF MetricScale, LabelScale
<1>1. CloneOf(s, m, l) = CloneOf(z, k, j) /\ t = u
  BY DEF CloneSample
<1>2. s = z
  <2>1. CloneOf(s, m, l) \in Clones(s) /\ CloneOf(z, k, j) \in Clones(z)
    BY DEF Clones
  <2> QED
    BY <1>1, <2>1 DEF CapturedApart
<1>3. /\ (IF m = 0 THEN s.name ELSE Numbered(s.name, m)) = IF k = 0 THEN s.name ELSE Numbered(s.name, k)
      /\ LabelsOf(s.labels, l) = LabelsOf(s.labels, j)
      /\ s.name \in NumberedNames /\ s.labels \subseteq NumberedNames
  BY <1>0, <1>1, <1>2, CloneOfParts
<1>4. m = k
  <2>1. \A i \in Nat : Numbered(s.name, i) # s.name
    <3> SUFFICES ASSUME NEW i \in Nat, Numbered(s.name, i) = s.name PROVE FALSE
      OBVIOUS
    <3>1. Len(s.name.added) \in Nat /\ Len(Numbered(s.name, i).added) = Len(s.name.added) + 1
      BY <1>3, NumberedFacts
    <3> QED
      BY <3>1
  <2>2. CASE m = 0 \/ k = 0
    BY <1>0, <1>3, <2>1, <2>2
  <2>3. CASE m # 0 /\ k # 0
    <3>1. Numbered(s.name, m) = Numbered(s.name, k)
      BY <1>3, <2>3
    <3> QED
      BY <1>0, <1>3, <3>1, NumbersTell
  <2> QED
    BY <2>2, <2>3
<1>5. l = j
  <2>1. CASE LabelScale > 1
    <3>1. s.labels # {}
      BY <2>1 DEF CapturedApart
    <3> QED
      BY <1>0, <1>3, <3>1, LabelsTell
  <2>2. CASE ~(LabelScale > 1)
    BY <1>0, <2>2
  <2> QED
    BY <2>1, <2>2
<1> QED
  BY <1>1, <1>2, <1>4, <1>5

\* The function c[i] makes the i-th copy of a thing: an element of S for any of R,
\* and never the same for two.
Makes(c, n, R, S) == \A i \in 1..n : \A x \in R : c[i][x] \in S
Differ(c, n, R) == \A i \in 1..n : \A j \in 1..n : \A x \in R : \A y \in R :
                       c[i][x] = c[j][y] => i = j /\ x = y
Copied(c, n, samples) == [i \in 1..n |-> [k \in DOMAIN samples |-> c[i][samples[k]]]]
HoldsCopies(seq, c, n, R) == \A y : y \in Range(seq) <=> \E i \in 1..n : \E x \in R : y = c[i][x]

\* Copies of a sequence, the i-th made with the function c[i], one after another.
LEMMA CopiesFacts ==
    ASSUME NEW R, NEW S, NEW samples \in Seq(R), Range(samples) = R,
           NEW n \in Nat, NEW c, Makes(c, n, R, S)
    PROVE  /\ FlattenSeq(Copied(c, n, samples)) \in Seq(S)
           /\ IsInjective(samples) /\ Differ(c, n, R) => IsInjective(FlattenSeq(Copied(c, n, samples)))
           /\ HoldsCopies(FlattenSeq(Copied(c, n, samples)), c, n, R)
<1> DEFINE copies == Copied(c, n, samples)
<1>0. copies = [i \in 1..n |-> [k \in DOMAIN samples |-> c[i][samples[k]]]]
  BY DEF Copied
<1> HIDE DEF copies
<1>1. DOMAIN samples = 1..Len(samples) /\ Len(samples) \in Nat
      /\ \A k \in DOMAIN samples : samples[k] \in R /\ samples[k] \in Range(samples)
  BY DEF Range
<1>2. \A i \in 1..n : /\ copies[i] \in Seq(S) /\ DOMAIN copies[i] = DOMAIN samples
                      /\ \A k \in DOMAIN samples : copies[i][k] = c[i][samples[k]]
  BY <1>0, <1>1 DEF Makes
<1>3. copies \in Seq(Seq(S)) /\ Len(copies) = n
  BY <1>0, <1>2
<1>4. ASSUME IsInjective(samples), Differ(c, n, R), NEW i \in 1..n PROVE IsInjective(copies[i])
  <2> SUFFICES ASSUME NEW j \in DOMAIN samples, NEW k \in DOMAIN samples,
                      c[i][samples[j]] = c[i][samples[k]]
               PROVE  j = k
    BY <1>2 DEF IsInjective
  <2>1. samples[j] = samples[k]
    BY <1>1, <1>4 DEF Differ
  <2> QED
    BY <1>4, <2>1 DEF IsInjective
<1>5. \A i \in 1..n : \A y : y \in Range(copies[i]) <=> \E x \in Range(samples) : y = c[i][x]
  <2> TAKE i \in 1..n
  <2>1. Range(copies[i]) = {c[i][samples[k]] : k \in DOMAIN samples}
    <3>1. DOMAIN copies[i] = DOMAIN samples
      BY <1>2, Zenon
    <3>2. \A k \in DOMAIN samples : copies[i][k] = c[i][samples[k]]
      BY <1>2, Zenon
    <3>3. Range(copies[i]) = {copies[i][k] : k \in DOMAIN samples}
      BY <3>1, Zenon DEF Range
    <3> QED
      BY <3>2, <3>3
  <2>2. Range(samples) = {samples[k] : k \in DOMAIN samples}
    BY DEF Range
  <2> QED
    BY <2>1, <2>2
<1>6. ASSUME Differ(c, n, R), NEW i \in 1..n, NEW j \in 1..n, i # j
      PROVE  Range(copies[i]) \cap Range(copies[j]) = {}
  <2> SUFFICES ASSUME NEW y \in Range(copies[i]), y \in Range(copies[j]) PROVE FALSE
    OBVIOUS
  <2>1. PICK x \in Range(samples) : y = c[i][x]
    BY <1>5, Zenon
  <2>2. PICK z \in Range(samples) : y = c[j][z]
    BY <1>5, Zenon
  <2> QED
    BY <1>6, <2>1, <2>2 DEF Differ
<1> DEFINE flat == FlattenSeq(copies)
<1>7. flat \in Seq(S)
  BY <1>3, FlattenRange
<1>8. ASSUME IsInjective(samples), Differ(c, n, R) PROVE IsInjective(flat)
  <2>1. \A i \in 1..n : IsInjective(copies[i])
    BY <1>4, <1>8
  <2>2. \A i \in 1..n : \A j \in 1..n : i # j => Range(copies[i]) \cap Range(copies[j]) = {}
    BY <1>6, <1>8
  <2> QED
    BY <1>3, <2>1, <2>2, FlattenInjective
<1>9. \A y : y \in Range(flat) <=> \E i \in 1..n : y \in Range(copies[i])
  BY <1>3, FlattenMembers
<1> HIDE DEF flat
<1>10. \A y : y \in Range(flat) <=> \E i \in 1..n : \E x \in Range(samples) : y = c[i][x]
  <2>1. ASSUME NEW y \in Range(flat)
        PROVE  \E i \in 1..n : \E x \in Range(samples) : y = c[i][x]
    <3>1. PICK i \in 1..n : y \in Range(copies[i])
      BY <1>9
    <3>2. PICK x \in Range(samples) : y = c[i][x]
      BY <1>5, <3>1
    <3> QED
      BY <3>2
  <2>2. ASSUME NEW i \in 1..n, NEW x \in Range(samples)
        PROVE  c[i][x] \in Range(flat)
    <3>1. c[i][x] \in Range(copies[i])
      BY <1>5
    <3> QED
      BY <1>9, <3>1
  <2> QED
    BY <2>1, <2>2
<1> QED
  BY <1>7, <1>8, <1>10 DEF flat, copies, HoldsCopies

\* The series in the order of the iteration: each once.
LEMMA FactoriesFacts ==
    ASSUME NEW order \in Factories
    PROVE  order \in Seq(Captured) /\ IsInjective(order) /\ Range(order) = Captured
<1> DEFINE n == Cardinality(Captured)
<1>1. IsFiniteSet(Captured) /\ n \in Nat
  BY LoaderAssumption, FS_CardinalityType
<1>2. order \in [1..n -> Captured] /\ \A i, j \in 1..n : i # j => order[i] # order[j]
  BY DEF Factories, SetToSeqs
<1> HIDE DEF n
<1>3. order \in Seq(Captured) /\ IsInjective(order) /\ Range(order) \subseteq Captured
  BY <1>1, <1>2 DEF IsInjective, Range
<1>4. order \in Surjection(1..n, Captured)
  <2>1. order \in Injection(1..n, Captured)
    BY <1>2 DEF Injection, IsInjective
  <2>2. IsFiniteSet(1..n) /\ Cardinality(1..n) = n
    BY <1>1, FS_Interval
  <2> QED
    BY <1>1, <2>1, <2>2, FS_Injection DEF n
<1>5. Captured \subseteq Range(order)
  BY <1>2, <1>4 DEF Surjection, Range
<1> QED
  BY <1>3, <1>5

\* A sequence of the elements of a set, each once if the captured series are apart.
Lists(seq, R) == seq \in Seq(R) /\ Range(seq) = R /\ (CapturedApart => IsInjective(seq))

\* Every element of S is a copy of one of R.
Covers(c, n, R, S) == \A y \in S : \E i \in 1..n : \E x \in R : y = c[i][x]

\* Copies of what a sequence lists, in terms of what the copies are.
LEMMA CopiesList ==
    ASSUME NEW R, NEW S, NEW samples, Lists(samples, R),
           NEW n \in Nat, NEW c, Makes(c, n, R, S), CapturedApart => Differ(c, n, R),
           Covers(c, n, R, S)
    PROVE  Lists(FlattenSeq(Copied(c, n, samples)), S)
<1> DEFINE flat == FlattenSeq(Copied(c, n, samples))
<1>1. samples \in Seq(R) /\ Range(samples) = R /\ (CapturedApart => IsInjective(samples))
  BY DEF Lists
<1>2. flat \in Seq(S) /\ (CapturedApart => IsInjective(flat)) /\ HoldsCopies(flat, c, n, R)
  BY <1>1, CopiesFacts
<1> HIDE DEF flat
<1>3. \A y : y \in Range(flat) <=> \E i \in 1..n : \E x \in R : y = c[i][x]
  BY <1>2 DEF HoldsCopies
<1>4. \A y \in S : y \in Range(flat)
  BY <1>3 DEF Covers
<1>5. \A y \in Range(flat) : y \in S
  BY <1>3 DEF Makes
<1>6. Range(flat) = S
  BY <1>4, <1>5
<1> QED
  BY <1>2, <1>6 DEF Lists, flat

\* The i-th copy of a sample of ScaleMetrics and of ScaleLabels, the first of
\* which is the sample itself.
MetricCloned(i, x) == IF i = 1 THEN x ELSE [x EXCEPT !.series = CloneMetric(@, i - 1)]
LabelsCloned(i, x) == IF i = 1 THEN x ELSE [x EXCEPT !.series = CloneLabels(@, i - 1)]

\* The clone i - 1 of the metric, and of the labels.
LEMMA MetricClonedIs ==
    ASSUME NEW i \in Nat \ {0}, NEW s, NEW t
    PROVE  MetricCloned(i, CloneSample(s, 0, 0, t)) = CloneSample(s, i - 1, 0, t)
<1>1. CloneSample(s, 0, 0, t) = [series |-> s, time |-> t]
  BY DEF CloneSample, CloneOf
<1>2. CASE i = 1
  BY <1>2 DEF MetricCloned
<1>3. CASE i # 1
  <2>1. MetricCloned(i, CloneSample(s, 0, 0, t)) = [series |-> CloneMetric(s, i - 1), time |-> t]
    BY <1>1, <1>3 DEF MetricCloned
  <2>2. CloneOf(s, i - 1, 0) = CloneMetric(s, i - 1)
    BY <1>3 DEF CloneOf
  <2> QED
    BY <2>1, <2>2 DEF CloneSample
<1> QED
  BY <1>2, <1>3

LEMMA LabelsClonedIs ==
    ASSUME NEW i \in Nat \ {0}, NEW s, NEW m, NEW t
    PROVE  LabelsCloned(i, CloneSample(s, m, 0, t)) = CloneSample(s, m, i - 1, t)
<1> DEFINE named == CloneOf(s, m, 0)
<1>1. CloneSample(s, m, 0, t) = [series |-> named, time |-> t]
  BY DEF CloneSample
<1>2. CASE i = 1
  BY <1>2 DEF LabelsCloned
<1>3. CASE i # 1
  <2>1. CloneOf(s, m, i - 1) = CloneLabels(named, i - 1)
    BY <1>3 DEF CloneOf
  <2> HIDE DEF named
  <2>2. LabelsCloned(i, CloneSample(s, m, 0, t)) = [series |-> CloneLabels(named, i - 1), time |-> t]
    BY <1>1, <1>3 DEF LabelsCloned
  <2> QED
    BY <2>1, <2>2 DEF CloneSample
<1> QED
  BY <1>2, <1>3

\* The originals of each captured series and all clones of its metric.
LEMMA ScaleMetricsLists ==
    ASSUME flags \in Flags, NEW T, NEW samples, Lists(samples, SampleSet({0}, {0}, T))
    PROVE  Lists(ScaleMetrics(samples), SampleSet(0..(MetricScale - 1), {0}, T))
<1> DEFINE n == MetricScale
           R == SampleSet({0}, {0}, T)
           clones == 0..(n - 1)
           S == SampleSet(clones, {0}, T)
           c == [i \in 1..n |-> [x \in R |-> MetricCloned(i, x)]]
<1>0. n \in Nat \ {0}
  BY LoaderAssumption DEF MetricScale
<1> HIDE DEF n, clones
<1>1. \A x : x \in R <=> \E s \in Captured : \E t \in T : x = CloneSample(s, 0, 0, t)
  BY SampleSetMembers
<1>2. \A x : x \in S <=> \E s \in Captured : \E m \in clones : \E t \in T :
                             x = CloneSample(s, m, 0, t)
  BY PlainSetMembers
<1> HIDE DEF R, S
<1>3. \A i \in 1..n : \A x \in R : c[i][x] = MetricCloned(i, x)
  OBVIOUS
<1> HIDE DEF c
<1>4. ASSUME NEW i \in 1..n, NEW s \in Captured, NEW t \in T
      PROVE  /\ CloneSample(s, 0, 0, t) \in R
             /\ c[i][CloneSample(s, 0, 0, t)] = CloneSample(s, i - 1, 0, t)
             /\ CloneSample(s, i - 1, 0, t) \in S
  <2>1. CloneSample(s, 0, 0, t) \in R
    BY <1>1
  <2>2. i \in Nat \ {0} /\ i - 1 \in clones
    BY <1>0 DEF clones
  <2>3. CloneSample(s, i - 1, 0, t) \in S
    BY <1>2, <2>2
  <2> QED
    BY <1>3, <2>1, <2>2, <2>3, MetricClonedIs
<1>5. Makes(c, n, R, S)
  <2> SUFFICES ASSUME NEW i \in 1..n, NEW x \in R PROVE c[i][x] \in S
    BY DEF Makes
  <2>1. PICK s \in Captured : \E t \in T : x = CloneSample(s, 0, 0, t)
    BY <1>1
  <2>2. PICK t \in T : x = CloneSample(s, 0, 0, t)
    BY <2>1
  <2> QED
    BY <1>4, <2>2
<1>6. ASSUME CapturedApart PROVE Differ(c, n, R)
  <2> SUFFICES ASSUME NEW i \in 1..n, NEW j \in 1..n, NEW x \in R, NEW y \in R, c[i][x] = c[j][y]
               PROVE  i = j /\ x = y
    BY DEF Differ
  <2>1. PICK s \in Captured : \E t \in T : x = CloneSample(s, 0, 0, t)
    BY <1>1
  <2>2. PICK t \in T : x = CloneSample(s, 0, 0, t)
    BY <2>1
  <2>3. PICK z \in Captured : \E u \in T : y = CloneSample(z, 0, 0, u)
    BY <1>1
  <2>4. PICK u \in T : y = CloneSample(z, 0, 0, u)
    BY <2>3
  <2>5. CloneSample(s, i - 1, 0, t) = CloneSample(z, j - 1, 0, u)
    BY <1>4, <2>2, <2>4
  <2>6. s = z /\ i - 1 = j - 1 /\ t = u
    <3>1. i - 1 \in 0..(MetricScale - 1) /\ j - 1 \in 0..(MetricScale - 1) /\ 0 \in 0..(LabelScale - 1)
      BY <1>0, LoaderAssumption DEF n, LabelScale
    <3> QED
      BY <1>6, <2>5, <3>1, CloneSampleParts
  <2> QED
    BY <1>0, <2>2, <2>4, <2>6
<1>7. Covers(c, n, R, S)
  <2> SUFFICES ASSUME NEW y \in S PROVE \E i \in 1..n : \E x \in R : y = c[i][x]
    BY DEF Covers
  <2>1. PICK s \in Captured : \E m \in clones : \E t \in T : y = CloneSample(s, m, 0, t)
    BY <1>2
  <2>2. PICK m \in clones : \E t \in T : y = CloneSample(s, m, 0, t)
    BY <2>1
  <2>3. PICK t \in T : y = CloneSample(s, m, 0, t)
    BY <2>2
  <2>4. PICK i \in 1..n : i - 1 = m
    <3>1. m + 1 \in 1..n /\ (m + 1) - 1 = m
      BY <1>0 DEF clones
    <3> QED
      BY <3>1
  <2>5. CloneSample(s, 0, 0, t) \in R
        /\ y = c[i][CloneSample(s, 0, 0, t)]
    BY <1>4, <2>3, <2>4
  <2> QED
    BY <2>4, <2>5
<1>8. ScaleMetrics(samples) = FlattenSeq(Copied(c, n, samples))
  <2>1. samples \in Seq(R)
    BY DEF Lists, R
  <2>2. \A i \in 1..n : \A k \in DOMAIN samples : c[i][samples[k]] = MetricCloned(i, samples[k])
    BY <1>3, <2>1
  <2>3. samples = [k \in DOMAIN samples |-> samples[k]]
    BY <2>1
  <2>4. ASSUME NEW i \in 1..n
        PROVE  (IF i = 1 THEN samples
                ELSE [s \in DOMAIN samples |-> [samples[s] EXCEPT !.series = CloneMetric(@, i - 1)]])
                   = [k \in DOMAIN samples |-> c[i][samples[k]]]
    BY <2>2, <2>3 DEF MetricCloned
  <2>5. [i \in 1..n |-> IF i = 1 THEN samples
                        ELSE [s \in DOMAIN samples |-> [samples[s] EXCEPT !.series = CloneMetric(@, i - 1)]]]
            = Copied(c, n, samples)
    BY <2>4 DEF Copied
  <2> QED
    BY <2>5 DEF ScaleMetrics, Scaled, n
<1>9. Lists(FlattenSeq(Copied(c, n, samples)), S)
  <2>1. Lists(samples, R)
    BY DEF R
  <2> QED
    BY <1>0, <1>5, <1>6, <1>7, <2>1, CopiesList
<1> QED
  BY <1>8, <1>9 DEF S, clones, n

\* These and all clones of their labels.
MetricClones == 0..(MetricScale - 1)

LEMMA ScaleLabelsLists ==
    ASSUME flags \in Flags, NEW M, M \subseteq MetricClones, NEW T, NEW samples, Lists(samples, SampleSet(M, {0}, T))
    PROVE  Lists(ScaleLabels(samples), SampleSet(M, 0..(LabelScale - 1), T))
<1> DEFINE n == LabelScale
           R == SampleSet(M, {0}, T)
           clones == 0..(n - 1)
           S == SampleSet(M, clones, T)
           c == [i \in 1..n |-> [x \in R |-> LabelsCloned(i, x)]]
<1>0. n \in Nat \ {0}
  BY LoaderAssumption DEF LabelScale
<1> HIDE DEF n, clones
<1>1. \A x : x \in R <=> \E s \in Captured : \E m \in M : \E t \in T :
                             x = CloneSample(s, m, 0, t)
  BY PlainSetMembers
<1>2. \A x : x \in S <=> \E s \in Captured : \E m \in M : \E l \in clones : \E t \in T :
                             x = CloneSample(s, m, l, t)
  BY SampleSetMembers
<1> HIDE DEF R, S
<1>3. \A i \in 1..n : \A x \in R : c[i][x] = LabelsCloned(i, x)
  OBVIOUS
<1> HIDE DEF c
<1>4. ASSUME NEW i \in 1..n, NEW s \in Captured, NEW m \in M, NEW t \in T
      PROVE  /\ CloneSample(s, m, 0, t) \in R
             /\ c[i][CloneSample(s, m, 0, t)] = CloneSample(s, m, i - 1, t)
             /\ CloneSample(s, m, i - 1, t) \in S
  <2>1. CloneSample(s, m, 0, t) \in R
    BY <1>1
  <2>2. i \in Nat \ {0} /\ i - 1 \in clones
    BY <1>0 DEF clones
  <2>3. CloneSample(s, m, i - 1, t) \in S
    BY <1>2, <2>2
  <2> QED
    BY <1>3, <2>1, <2>2, <2>3, LabelsClonedIs
<1>5. Makes(c, n, R, S)
  <2> SUFFICES ASSUME NEW i \in 1..n, NEW x \in R PROVE c[i][x] \in S
    BY DEF Makes
  <2>1. PICK s \in Captured : \E m \in M : \E t \in T : x = CloneSample(s, m, 0, t)
    BY <1>1
  <2>2. PICK m \in M : \E t \in T : x = CloneSample(s, m, 0, t)
    BY <2>1
  <2>3. PICK t \in T : x = CloneSample(s, m, 0, t)
    BY <2>2
  <2> QED
    BY <1>4, <2>3
<1>6. ASSUME CapturedApart PROVE Differ(c, n, R)
  <2> SUFFICES ASSUME NEW i \in 1..n, NEW j \in 1..n, NEW x \in R, NEW y \in R, c[i][x] = c[j][y]
               PROVE  i = j /\ x = y
    BY DEF Differ
  <2>1. PICK s \in Captured : \E m \in M : \E t \in T : x = CloneSample(s, m, 0, t)
    BY <1>1
  <2>2. PICK m \in M : \E t \in T : x = CloneSample(s, m, 0, t)
    BY <2>1
  <2>3. PICK t \in T : x = CloneSample(s, m, 0, t)
    BY <2>2
  <2>4. PICK z \in Captured : \E k \in M : \E u \in T : y = CloneSample(z, k, 0, u)
    BY <1>1
  <2>5. PICK k \in M : \E u \in T : y = CloneSample(z, k, 0, u)
    BY <2>4
  <2>6. PICK u \in T : y = CloneSample(z, k, 0, u)
    BY <2>5
  <2>7. CloneSample(s, m, i - 1, t) = CloneSample(z, k, j - 1, u)
    BY <1>4, <2>3, <2>6
  <2>8. s = z /\ m = k /\ i - 1 = j - 1 /\ t = u
    <3>1. i - 1 \in 0..(LabelScale - 1) /\ j - 1 \in 0..(LabelScale - 1)
      BY <1>0 DEF n
    <3>2. m \in 0..(MetricScale - 1) /\ k \in 0..(MetricScale - 1)
      BY DEF MetricClones
    <3> QED
      BY <1>6, <2>7, <3>1, <3>2, CloneSampleParts
  <2>9. i = j
    BY <1>0, <2>8
  <2> QED
    BY <2>3, <2>6, <2>8, <2>9
<1>7. Covers(c, n, R, S)
  <2> SUFFICES ASSUME NEW y \in S PROVE \E i \in 1..n : \E x \in R : y = c[i][x]
    BY DEF Covers
  <2>1. PICK s \in Captured : \E m \in M : \E l \in clones : \E t \in T :
                                  y = CloneSample(s, m, l, t)
    BY <1>2
  <2>2. PICK m \in M : \E l \in clones : \E t \in T : y = CloneSample(s, m, l, t)
    BY <2>1
  <2>3. PICK l \in clones : \E t \in T : y = CloneSample(s, m, l, t)
    BY <2>2
  <2>4. PICK t \in T : y = CloneSample(s, m, l, t)
    BY <2>3
  <2>5. PICK i \in 1..n : i - 1 = l
    <3>1. l + 1 \in 1..n /\ (l + 1) - 1 = l
      BY <1>0 DEF clones
    <3> QED
      BY <3>1
  <2>6. CloneSample(s, m, 0, t) \in R
        /\ y = c[i][CloneSample(s, m, 0, t)]
    BY <1>4, <2>4, <2>5
  <2> QED
    BY <2>5, <2>6
<1>8. ScaleLabels(samples) = FlattenSeq(Copied(c, n, samples))
  <2>1. samples \in Seq(R)
    BY DEF Lists, R
  <2>2. \A i \in 1..n : \A k \in DOMAIN samples : c[i][samples[k]] = LabelsCloned(i, samples[k])
    BY <1>3, <2>1
  <2>3. samples = [k \in DOMAIN samples |-> samples[k]]
    BY <2>1
  <2>4. ASSUME NEW i \in 1..n
        PROVE  (IF i = 1 THEN samples
                ELSE [s \in DOMAIN samples |-> [samples[s] EXCEPT !.series = CloneLabels(@, i - 1)]])
                   = [k \in DOMAIN samples |-> c[i][samples[k]]]
    BY <2>2, <2>3 DEF LabelsCloned
  <2>5. [i \in 1..n |-> IF i = 1 THEN samples
                        ELSE [s \in DOMAIN samples |-> [samples[s] EXCEPT !.series = CloneLabels(@, i - 1)]]]
            = Copied(c, n, samples)
    BY <2>4 DEF Copied
  <2> QED
    BY <2>5 DEF ScaleLabels, Scaled, n
<1>9. Lists(FlattenSeq(Copied(c, n, samples)), S)
  <2>1. Lists(samples, R)
    BY DEF R
  <2> QED
    BY <1>0, <1>5, <1>6, <1>7, <2>1, CopiesList
<1> QED
  BY <1>8, <1>9 DEF S, clones, n

\* The times of the samples of one tick, after those of the ticks before.
Times(before) == (before + 1)..(before + SampleScale)

\* The next samples of each captured series.
LEMMA GeneratedLists ==
    ASSUME flags \in Flags, factories \in Factories, clock \in Nat
    PROVE  Lists(Generated, SampleSet({0}, {0}, Times(clock)))
<1> DEFINE n == SampleScale
           times == Times(clock)
           S == SampleSet({0}, {0}, times)
           c == [i \in 1..n |-> [x \in Captured |-> [series |-> x, time |-> clock + i]]]
<1>0. n \in Nat \ {0} /\ \A t : t \in times <=> t \in (clock + 1)..(clock + n)
  BY LoaderAssumption DEF SampleScale, Times
<1>1. Lists(factories, Captured)
  BY FactoriesFacts DEF Lists
<1> HIDE DEF n, times
<1>2. \A x : x \in S <=> \E s \in Captured : \E m \in {0} : \E t \in times :
                             x = CloneSample(s, m, 0, t)
  BY PlainSetMembers
<1>4. \A i \in 1..n : \A x \in Captured : c[i][x] = [series |-> x, time |-> clock + i]
  OBVIOUS
<1>5. \A s, t : [series |-> s, time |-> t] = CloneSample(s, 0, 0, t)
  BY DEF CloneSample, CloneOf
<1> HIDE DEF S, c
<1>6. ASSUME NEW i \in 1..n, NEW s \in Captured
      PROVE  /\ c[i][s] = CloneSample(s, 0, 0, clock + i)
             /\ clock + i \in times
             /\ CloneSample(s, 0, 0, clock + i) \in S
  <2>2. clock + i \in times
    BY <1>0
  <2>3. c[i][s] = CloneSample(s, 0, 0, clock + i)
    BY <1>4, <1>5
  <2>4. CloneSample(s, 0, 0, clock + i) \in S
    BY <1>2, <2>2
  <2> QED
    BY <2>2, <2>3, <2>4
<1>7. Makes(c, n, Captured, S)
  <2> SUFFICES ASSUME NEW i \in 1..n, NEW x \in Captured PROVE c[i][x] \in S
    BY DEF Makes
  <2> QED
    BY <1>6
<1>8. Differ(c, n, Captured)
  <2> SUFFICES ASSUME NEW i \in 1..n, NEW j \in 1..n, NEW x \in Captured, NEW y \in Captured,
                      c[i][x] = c[j][y]
               PROVE  i = j /\ x = y
    BY DEF Differ
  <2>1. [series |-> x, time |-> clock + i] = [series |-> y, time |-> clock + j]
    BY <1>4
  <2>2. x = y /\ clock + i = clock + j
    BY <2>1
  <2> QED
    BY <2>2
<1>9. Covers(c, n, Captured, S)
  <2> SUFFICES ASSUME NEW y \in S PROVE \E i \in 1..n : \E x \in Captured : y = c[i][x]
    BY DEF Covers
  <2>1. PICK s \in Captured : \E t \in times : y = CloneSample(s, 0, 0, t)
    BY <1>2
  <2>2. PICK t \in times : y = CloneSample(s, 0, 0, t)
    BY <2>1
  <2>3. PICK i \in 1..n : clock + i = t
    <3>1. t - clock \in 1..n /\ clock + (t - clock) = t
      BY <1>0
    <3> QED
      BY <3>1
  <2>4. y = c[i][s]
    BY <1>6, <2>2, <2>3
  <2> QED
    BY <2>4
<1>10. Generated = FlattenSeq(Copied(c, n, factories))
  <2>1. \A k \in DOMAIN factories : factories[k] \in Captured
    BY <1>1 DEF Lists
  <2>2. ASSUME NEW i \in 1..n
        PROVE  OneEach(clock + i) = [k \in DOMAIN factories |-> c[i][factories[k]]]
    BY <1>4, <2>1 DEF OneEach
  <2>3. [i \in 1..n |-> OneEach(clock + i)] = Copied(c, n, factories)
    BY <2>2 DEF Copied
  <2> QED
    BY <2>3 DEF Generated, n
<1>11. Lists(FlattenSeq(Copied(c, n, factories)), S)
  BY <1>0, <1>1, <1>7, <1>8, <1>9, CopiesList
<1> QED
  BY <1>10, <1>11 DEF S, times

\* The samples a tick sends.
TickSamples(before) == SampleSet(0..(MetricScale - 1), 0..(LabelScale - 1), Times(before))

\* Each clone of each captured series at each time of the tick.
LEMMA ScaledLists ==
    ASSUME flags \in Flags, factories \in Factories, clock \in Nat
    PROVE  Lists(ScaleLabels(ScaleMetrics(Generated)), TickSamples(clock))
<1> DEFINE M == 0..(MetricScale - 1)
<1>1. Lists(ScaleMetrics(Generated), SampleSet(M, {0}, Times(clock)))
  BY GeneratedLists, ScaleMetricsLists
<1> HIDE DEF M
<1>2. Lists(ScaleLabels(ScaleMetrics(Generated)), SampleSet(M, 0..(LabelScale - 1), Times(clock)))
  <2>1. M \subseteq MetricClones
    BY DEF M, MetricClones
  <2> QED
    BY <1>1, <2>1, ScaleLabelsLists
<1> QED
  BY <1>2 DEF M, TickSamples

-----------------------------------------------------------------------------
(* The chunks of a tick.                                                     *)

\* The chunks hold every element of a set; if the captured series are apart in one of
\* them and there once.
Disjoint(seqs) ==
    /\ \A c \in 1..Len(seqs) : IsInjective(seqs[c])
    /\ \A c \in 1..Len(seqs) : \A d \in 1..Len(seqs) : c # d => Range(seqs[c]) \cap Range(seqs[d]) = {}

Splits(seqs, R) ==
    /\ seqs \in Seq(Seq(R))
    /\ CapturedApart => Disjoint(seqs)
    /\ \A x \in R : \E c \in 1..Len(seqs) : x \in Range(seqs[c])

\* A part of a sequence.
LEMMA PartFacts ==
    ASSUME NEW R, NEW samples \in Seq(R),
           NEW lo \in Nat, NEW hi \in Nat, lo <= hi, hi <= Len(samples)
    PROVE  /\ SubSeq(samples, lo + 1, hi) \in Seq(R)
           /\ IsInjective(samples) => IsInjective(SubSeq(samples, lo + 1, hi))
           /\ \A x : x \in Range(SubSeq(samples, lo + 1, hi)) <=>
                        \E i \in 1..Len(samples) : lo < i /\ i <= hi /\ x = samples[i]
<1> DEFINE part == SubSeq(samples, lo + 1, hi)
<1>0. Len(samples) \in Nat /\ DOMAIN samples = 1..Len(samples)
  OBVIOUS
<1>1. part \in Seq(R) /\ Len(part) = hi - lo /\ DOMAIN part = 1..(hi - lo)
  OBVIOUS
<1>2. \A k \in 1..(hi - lo) : part[k] = samples[lo + k] /\ lo + k \in 1..Len(samples)
  BY <1>0
<1> HIDE DEF part
<1>3. ASSUME IsInjective(samples) PROVE IsInjective(part)
  <2> SUFFICES ASSUME NEW j \in 1..(hi - lo), NEW k \in 1..(hi - lo), part[j] = part[k]
               PROVE  j = k
    BY <1>1 DEF IsInjective
  <2>1. lo + j = lo + k
    BY <1>0, <1>2, <1>3 DEF IsInjective
  <2> QED
    BY <2>1
<1>4. ASSUME NEW x \in Range(part)
      PROVE  \E i \in 1..Len(samples) : lo < i /\ i <= hi /\ x = samples[i]
  <2>1. PICK k \in 1..(hi - lo) : x = part[k]
    BY <1>1 DEF Range
  <2>2. lo < lo + k /\ lo + k <= hi
    OBVIOUS
  <2> QED
    BY <1>2, <2>1, <2>2
<1>5. ASSUME NEW i \in 1..Len(samples), lo < i, i <= hi
      PROVE  samples[i] \in Range(part)
  <2>1. i - lo \in 1..(hi - lo) /\ lo + (i - lo) = i
    BY <1>0, <1>5
  <2>2. part[i - lo] = samples[i]
    BY <1>2, <2>1
  <2> QED
    BY <1>1, <2>1, <2>2 DEF Range
<1> QED
  BY <1>1, <1>3, <1>4, <1>5 DEF part

\* slices.Chunk leaves out nothing and sends nothing twice.
LEMMA ChunkSplits ==
    ASSUME flags \in Flags, NEW R, NEW samples, Lists(samples, R)
    PROVE  Splits(Chunk(samples), R) /\ Len(Chunk(samples)) \in Nat
<1> DEFINE p == TimeseriesPerRequest
           l == Len(samples)
           n == (l + p - 1) \div p
           seqs == Chunk(samples)
           hi(c) == IF c = n THEN l ELSE c * p
<1>0. samples \in Seq(R) /\ l \in Nat /\ DOMAIN samples = 1..l
      /\ R = Range(samples) /\ (CapturedApart => IsInjective(samples))
  BY DEF Lists
<1>1. p \in Nat \ {0}
  BY LoaderAssumption DEF TimeseriesPerRequest
<1>2. seqs = [c \in 1..n |-> SubSeq(samples, (c - 1) * p + 1, hi(c))]
  BY DEF Chunk
<1> HIDE DEF p, l, n, seqs
<1>3. /\ n \in Nat
      /\ l <= n * p
      /\ n # 0 => (n - 1) * p < l
      /\ \A i \in 1..l : \E c \in 1..n : (c - 1) * p < i /\ i <= c * p
  BY <1>0, <1>1, ChunkNumbers DEF n
<1>4. ASSUME NEW a \in Nat, NEW b \in Nat, a <= b PROVE a * p <= b * p /\ a * p \in Nat
  <2>1. PICK k \in Nat : b = a + k
    <3>1. b - a \in Nat /\ b = a + (b - a)
      BY <1>4
    <3> QED
      BY <3>1
  <2>2. b * p = a * p + k * p /\ k * p \in Nat /\ a * p \in Nat
    BY <1>1, <2>1
  <2> QED
    BY <2>2
<1>5. ASSUME NEW c \in 1..n
      PROVE  /\ (c - 1) * p \in Nat /\ hi(c) \in Nat /\ (c - 1) * p <= hi(c) /\ hi(c) <= l
             /\ hi(c) <= c * p
  <2>1. CASE c = n
    BY <1>0, <1>1, <1>3, <1>4, <2>1
  <2>2. CASE c # n
    <3>1. c - 1 \in Nat /\ c \in Nat /\ c - 1 <= c /\ c <= n - 1 /\ n - 1 \in Nat
      BY <1>3, <2>2
    <3>2. (c - 1) * p <= c * p /\ (c - 1) * p \in Nat /\ c * p \in Nat /\ c * p <= (n - 1) * p
      BY <1>4, <3>1
    <3>3. (n - 1) * p < l /\ (n - 1) * p \in Nat
      BY <1>3, <1>4, <3>1
    <3> QED
      BY <1>0, <2>2, <3>2, <3>3
  <2> QED
    BY <2>1, <2>2
<1>6. ASSUME NEW c \in 1..n
      PROVE  /\ seqs[c] \in Seq(R)
             /\ IsInjective(samples) => IsInjective(seqs[c])
             /\ \A x : x \in Range(seqs[c]) <=>
                          \E i \in 1..l : (c - 1) * p < i /\ i <= hi(c) /\ x = samples[i]
  <2> DEFINE lo == (c - 1) * p
             top == hi(c)
  <2>1. lo \in Nat /\ top \in Nat /\ lo <= top /\ top <= Len(samples)
    BY <1>5 DEF l
  <2>2. seqs[c] = SubSeq(samples, lo + 1, top)
    BY <1>2
  <2> HIDE DEF lo, top
  <2>3. /\ SubSeq(samples, lo + 1, top) \in Seq(R)
        /\ IsInjective(samples) => IsInjective(SubSeq(samples, lo + 1, top))
        /\ \A x : x \in Range(SubSeq(samples, lo + 1, top)) <=>
                     \E i \in 1..Len(samples) : lo < i /\ i <= top /\ x = samples[i]
    BY <1>0, <2>1, PartFacts
  <2> QED
    BY <2>2, <2>3 DEF l, lo, top
<1>7. seqs \in Seq(Seq(R)) /\ Len(seqs) = n
  <2>1. DOMAIN seqs = 1..n
    BY <1>2
  <2>2. seqs = [c \in 1..n |-> seqs[c]]
    BY <1>2
  <2> QED
    BY <1>3, <1>6, <2>2
<1>8. ASSUME IsInjective(samples), NEW c \in 1..n, NEW d \in 1..n, c < d
      PROVE  Range(seqs[c]) \cap Range(seqs[d]) = {}
  <2> SUFFICES ASSUME NEW x, x \in Range(seqs[c]), x \in Range(seqs[d]) PROVE FALSE
    OBVIOUS
  <2>1. PICK i \in 1..l : (c - 1) * p < i /\ i <= hi(c) /\ x = samples[i]
    BY <1>6
  <2>2. PICK j \in 1..l : (d - 1) * p < j /\ j <= hi(d) /\ x = samples[j]
    BY <1>6
  <2>3. i = j
    BY <1>0, <1>8, <2>1, <2>2 DEF IsInjective
  <2>4. c * p <= (d - 1) * p /\ c * p \in Nat /\ (d - 1) * p \in Nat
    <3>1. c \in Nat /\ d - 1 \in Nat /\ c <= d - 1
      BY <1>3, <1>8
    <3> QED
      BY <1>4, <3>1
  <2>5. hi(c) <= c * p /\ hi(c) \in Nat
    BY <1>5
  <2> HIDE DEF hi
  <2> QED
    BY <1>0, <2>1, <2>2, <2>3, <2>4, <2>5
<1>9. ASSUME NEW x \in R PROVE \E c \in 1..n : x \in Range(seqs[c])
  <2>1. PICK i \in 1..l : x = samples[i]
    BY <1>0 DEF Range
  <2>2. PICK c \in 1..n : (c - 1) * p < i /\ i <= c * p
    BY <1>3
  <2>3. i <= hi(c)
    BY <2>2
  <2> QED
    BY <1>6, <2>1, <2>2, <2>3
<1>10. ASSUME CapturedApart PROVE Disjoint(seqs)
  <2>1. IsInjective(samples)
    BY <1>0, <1>10
  <2>2. ASSUME NEW c \in 1..n, NEW d \in 1..n, c # d
        PROVE  Range(seqs[c]) \cap Range(seqs[d]) = {}
    <3>1. c < d \/ d < c
      BY <1>3, <2>2
    <3> QED
      BY <1>8, <2>1, <3>1
  <2> QED
    BY <1>6, <1>7, <2>1, <2>2 DEF Disjoint
<1> QED
  BY <1>3, <1>7, <1>9, <1>10 DEF Splits, seqs

-----------------------------------------------------------------------------
(* The invariant.                                                            *)

Goroutine(c, state) == [time |-> clock, chunk |-> c, samples |-> chunks[c], state |-> state]

\* Every chunk of the tick is in one place: its goroutine, the channel or among
\* those whose result has been read.
TickInv ==
    /\ flags \in Flags /\ factories \in Factories /\ clock \in Nat
    /\ loopPc \in {"waiting", "collecting", "failed"}
    /\ Len(chunks) \in Nat /\ collected \in Nat
    /\ results \in Seq([chunk : 1..Len(chunks), ok : BOOLEAN])
    /\ IsFiniteSet(sending)
    /\ \A g \in sending : \E c \in 1..Len(chunks) :
          \E state \in {"sending", "taken", "rejected"} : g = Goroutine(c, state)
    /\ \A g, h \in sending : g.chunk = h.chunk => g = h
    /\ collected + Len(results) + Cardinality(sending) = Len(chunks)
    /\ loopPc # "collecting" => collected = Len(chunks)

\* The chunks whose request has failed: with the goroutine, in the channel, joined.
IsFailing(c) ==
    \/ c \in sendErr
    \/ [chunk |-> c, ok |-> FALSE] \in Range(results)
    \/ Goroutine(c, "rejected") \in sending

\* Their requests are those that have failed, of which there are none before the tick.
FailInv ==
    /\ failures \subseteq {[time |-> clock, chunk |-> c] : c \in 1..Len(chunks)}
    /\ \A c \in 1..Len(chunks) : [time |-> clock, chunk |-> c] \in failures <=> IsFailing(c)
    /\ sendErr \subseteq 1..Len(chunks)
    /\ loopPc = "waiting" => sendErr = {}
    /\ loopPc = "failed" => sendErr # {}

LoaderInv == TickInv /\ FailInv

IsOpen(c) == Goroutine(c, "sending") \in sending

\* All samples of the ticks until then.
SentUntil(until) == SampleSet(0..(MetricScale - 1), 0..(LabelScale - 1), 1..until)

\* No sample comes after one of a later tick.
TickOf(sample) == (sample.time - 1) \div SampleScale
InTickOrder(seq) == \A i, j \in DOMAIN seq : i < j => TickOf(seq[i]) <= TickOf(seq[j])

\* What has not been offered to the receiver.
OpenAreNew == \A c \in 1..Len(chunks) : IsOpen(c) => Range(chunks[c]) \cap Range(received) = {}

\* The receiver has all samples of the ticks before, and all of the chunks whose
\* requests did not fail; if the captured series are apart each once, and none of the
\* chunks it has not been offered.
ReceiveInv ==
    /\ clock % SampleScale = 0
    /\ received \in Seq(SentUntil(clock))
    /\ CapturedApart => IsInjective(received)
    /\ loopPc = "waiting" => Range(received) = SentUntil(clock)
    /\ loopPc = "collecting" =>
          /\ SampleScale <= clock
          /\ Splits(chunks, TickSamples(clock - SampleScale))
          /\ SentUntil(clock - SampleScale) \subseteq Range(received)
          /\ CapturedApart => OpenAreNew
          /\ \A c \in 1..Len(chunks) : IsOpen(c) \/ IsFailing(c) \/ Range(chunks[c]) \subseteq Range(received)
    /\ InTickOrder(received)

-----------------------------------------------------------------------------
(* The goroutines and their results.                                         *)

States == {"sending", "taken", "rejected"}

\* What the parts of a goroutine are.
LEMMA GoroutineParts ==
    ASSUME NEW c, NEW state, NEW g, g = Goroutine(c, state)
    PROVE  /\ g.time = clock /\ g.chunk = c /\ g.samples = chunks[c] /\ g.state = state
           /\ \A to : [g EXCEPT !.state = to] = Goroutine(c, to)
BY DEF Goroutine

\* Which goroutine it is, of those of the tick.
LEMMA GoroutineOf ==
    ASSUME TickInv, NEW g \in sending
    PROVE  \E c \in 1..Len(chunks) : \E state \in States : g = Goroutine(c, state)
BY DEF TickInv, States

\* Nothing is under way between the ticks.
LEMMA IdleBetweenTicks ==
    ASSUME TickInv, loopPc # "collecting"
    PROVE  sending = {} /\ results = <<>>
<1>1. /\ IsFiniteSet(sending) /\ Len(chunks) \in Nat /\ collected = Len(chunks)
      /\ collected + Len(results) + Cardinality(sending) = Len(chunks)
      /\ results \in Seq([chunk : 1..Len(chunks), ok : BOOLEAN])
  BY DEF TickInv
<1>2. Cardinality(sending) \in Nat /\ Len(results) \in Nat
  BY <1>1, FS_CardinalityType
<1>3. Cardinality(sending) = 0 /\ Len(results) = 0
  BY <1>1, <1>2
<1> QED
  BY <1>1, <1>3, FS_EmptySet

\* The goroutines with another state of that of c.
Others(c, from) == sending \ {Goroutine(c, from)}
Replaced(c, from, to) == Others(c, from) \cup {Goroutine(c, to)}

\* A goroutine becomes another of its chunk.
LEMMA BecomeKeeps ==
    ASSUME TickInv, NEW c \in 1..Len(chunks), NEW from \in States, NEW to \in States,
           Goroutine(c, from) \in sending
    PROVE  /\ IsFiniteSet(Replaced(c, from, to)) /\ Cardinality(Replaced(c, from, to)) = Cardinality(sending)
           /\ \A g \in Replaced(c, from, to) :
                 \E d \in 1..Len(chunks) : \E state \in States : g = Goroutine(d, state)
           /\ \A g \in Replaced(c, from, to) : \A h \in Replaced(c, from, to) : g.chunk = h.chunk => g = h
<1> DEFINE others == Others(c, from)
           set == Replaced(c, from, to)
           g0 == Goroutine(c, from)
           h0 == Goroutine(c, to)
<1>0. /\ IsFiniteSet(sending)
      /\ \A g \in sending : \A h \in sending : g.chunk = h.chunk => g = h
  BY DEF TickInv
<1>1. g0.chunk = c /\ h0.chunk = c
  BY GoroutineParts
<1>2. g0 \in sending /\ others = sending \ {g0} /\ set = others \cup {h0}
  BY DEF Others, Replaced
<1>3. \A g \in sending : \E d \in 1..Len(chunks) : \E state \in States : g = Goroutine(d, state)
  BY GoroutineOf
<1> HIDE DEF others, set
<1>4. \A g \in set : \E d \in 1..Len(chunks) : \E state \in States : g = Goroutine(d, state)
  BY <1>2, <1>3
<1> HIDE DEF g0, h0
<1>5. \A g \in others : g.chunk # c
  BY <1>0, <1>1, <1>2
<1>6. h0 \notin others
  BY <1>1, <1>5
<1>7. IsFiniteSet(others) /\ Cardinality(others) = Cardinality(sending) - 1
  BY <1>0, <1>2, FS_RemoveElement
<1>8. IsFiniteSet(set) /\ Cardinality(set) = Cardinality(others) + 1
  BY <1>2, <1>6, <1>7, FS_AddElement
<1>9. Cardinality(set) = Cardinality(sending)
  BY <1>0, <1>7, <1>8, FS_CardinalityType
<1>10. \A g \in set : \A h \in set : g.chunk = h.chunk => g = h
  BY <1>0, <1>1, <1>2, <1>5
<1> QED
  BY <1>4, <1>8, <1>9, <1>10 DEF set

\* A request ends, one way or the other.
LEMMA BecomeKeepsTick ==
    ASSUME TickInv, NEW c \in 1..Len(chunks), NEW to \in States,
           NEW g \in sending, g = Goroutine(c, "sending"), Become(g, to),
           UNCHANGED <<tickVars, loopPc, results, collected>>
    PROVE  TickInv' /\ sending' = Replaced(c, "sending", to)
<1> DEFINE set == Replaced(c, "sending", to)
<1>1. [g EXCEPT !.state = to] = Goroutine(c, to)
  BY GoroutineParts
<1>2. sending' = set
  BY <1>1 DEF Become, Replaced, Others
<1>3. /\ IsFiniteSet(set) /\ Cardinality(set) = Cardinality(sending)
      /\ \A h \in set : \E d \in 1..Len(chunks) : \E state \in States : h = Goroutine(d, state)
      /\ \A h \in set : \A k \in set : h.chunk = k.chunk => h = k
  <2>1. Goroutine(c, "sending") \in sending
    OBVIOUS
  <2>2. "sending" \in States
    BY DEF States
  <2> QED
    BY <2>1, <2>2, BecomeKeeps
<1>4. \A d, state : Goroutine(d, state)' = Goroutine(d, state)
  BY DEF Goroutine
<1> HIDE DEF set
<1>5. \A h \in sending' : \E d \in 1..Len(chunks)' : \E state \in States : h = Goroutine(d, state)'
  BY <1>2, <1>3, <1>4
<1> QED
  BY <1>2, <1>3, <1>5 DEF TickInv, States, set

\* A goroutine ends with its result in the channel.
LEMMA ReportKeepsTick ==
    ASSUME TickInv, NEW c \in 1..Len(chunks), NEW from \in {"taken", "rejected"},
           NEW g \in sending, g = Goroutine(c, from), Report(g)
    PROVE  /\ TickInv'
           /\ sending' = sending \ {Goroutine(c, from)}
           /\ results' = Append(results, [chunk |-> c, ok |-> from = "taken"])
<1> DEFINE made == [chunk |-> c, ok |-> from = "taken"]
           n == Len(chunks)
<1>0. /\ flags' = flags /\ factories' = factories /\ clock' = clock /\ chunks' = chunks
      /\ loopPc' = loopPc /\ collected' = collected
  BY DEF Report
<1>1. g.time = clock /\ g.chunk = c /\ g.state = from
  BY GoroutineParts
<1>2. sending' = sending \ {g} /\ results' = Append(results, made)
  BY <1>1 DEF Report
<1>3. made \in [chunk : 1..n, ok : BOOLEAN]
  OBVIOUS
<1>4. /\ results \in Seq([chunk : 1..n, ok : BOOLEAN]) /\ IsFiniteSet(sending)
      /\ collected \in Nat /\ n \in Nat
      /\ collected + Len(results) + Cardinality(sending) = n
  BY DEF TickInv
<1> HIDE DEF made, n
<1>5. results' \in Seq([chunk : 1..n, ok : BOOLEAN]) /\ Len(results') = Len(results) + 1 /\ Len(results) \in Nat
  BY <1>2, <1>3, <1>4
<1>6. IsFiniteSet(sending') /\ Cardinality(sending') = Cardinality(sending) - 1 /\ Cardinality(sending) \in Nat
  BY <1>2, <1>4, FS_RemoveElement, FS_CardinalityType
<1>7. collected + Len(results') + Cardinality(sending') = n
  BY <1>4, <1>5, <1>6
<1>8. \A d, state : Goroutine(d, state)' = Goroutine(d, state)
  BY <1>0 DEF Goroutine
<1>9. \A h \in sending : \E d \in 1..n : \E state \in States : h = Goroutine(d, state)
  BY GoroutineOf DEF n
<1>10. \A h \in sending' : \E d \in 1..n : \E state \in States : h = Goroutine(d, state)'
  BY <1>2, <1>8, <1>9
<1>11. \A h, k \in sending' : h.chunk = k.chunk => h = k
  BY <1>2 DEF TickInv
<1>12. n' = n
  BY <1>0 DEF n
<1>13. /\ flags' \in Flags /\ factories' \in Factories /\ clock' \in Nat /\ collected' \in Nat
       /\ loopPc' \in {"waiting", "collecting", "failed"}
       /\ (loopPc' # "collecting" => collected' = n')
  BY <1>0, <1>12 DEF TickInv, n
<1>14. results' \in Seq([chunk : 1..Len(chunks'), ok : BOOLEAN])
  BY <1>0, <1>5 DEF n
<1> QED
  BY <1>0, <1>2, <1>4, <1>6, <1>7, <1>10, <1>11, <1>13, <1>14 DEF TickInv, States, n, made

\* A result is read.
LEMMA CollectKeepsTick ==
    ASSUME TickInv, Collect
    PROVE  TickInv'
<1>0. /\ flags' = flags /\ factories' = factories /\ clock' = clock /\ chunks' = chunks
      /\ loopPc' = loopPc /\ sending' = sending /\ collected' = collected + 1 /\ loopPc = "collecting"
      /\ results # <<>> /\ results' = Tail(results)
  BY DEF Collect
<1>1. /\ results \in Seq([chunk : 1..Len(chunks), ok : BOOLEAN]) /\ IsFiniteSet(sending)
      /\ collected \in Nat /\ Len(chunks) \in Nat
      /\ collected + Len(results) + Cardinality(sending) = Len(chunks)
  BY DEF TickInv
<1>2. results' \in Seq([chunk : 1..Len(chunks), ok : BOOLEAN]) /\ Len(results') = Len(results) - 1
      /\ Len(results) \in Nat
  BY <1>0, <1>1
<1>3. collected' + Len(results') + Cardinality(sending') = Len(chunks')
  BY <1>0, <1>1, <1>2, FS_CardinalityType
<1>4. \A d, state : Goroutine(d, state)' = Goroutine(d, state)
  BY <1>0 DEF Goroutine
<1>5. \A h \in sending' : \E d \in 1..Len(chunks') : \E state \in States : h = Goroutine(d, state)'
  BY <1>0, <1>4, GoroutineOf
<1>6. \A h, k \in sending' : h.chunk = k.chunk => h = k
  BY <1>0 DEF TickInv
<1>7. /\ flags' \in Flags /\ factories' \in Factories /\ clock' \in Nat /\ collected' \in Nat
      /\ loopPc' \in {"waiting", "collecting", "failed"} /\ loopPc' = "collecting"
  BY <1>0, <1>1 DEF TickInv
<1>8. results' \in Seq([chunk : 1..Len(chunks'), ok : BOOLEAN])
  BY <1>0, <1>2
<1> QED
  BY <1>0, <1>1, <1>3, <1>5, <1>6, <1>7, <1>8 DEF TickInv, States

\* A tick starts: a goroutine for each of its chunks.
LEMMA StartKeepsTick ==
    ASSUME TickInv, Start
    PROVE  /\ TickInv'
           /\ Splits(chunks', TickSamples(clock))
           /\ \A g \in sending' : \E c \in 1..Len(chunks') : g = Goroutine(c, "sending")'
           /\ \A c \in 1..Len(chunks') : Goroutine(c, "sending")' \in sending'
           /\ results' = <<>> /\ sending = {}
<1> DEFINE scaled == ScaleLabels(ScaleMetrics(Generated))
           n == Len(chunks')
           f == [c \in 1..n |-> Goroutine(c, "sending")']
<1>0. /\ flags \in Flags /\ factories \in Factories /\ clock \in Nat
      /\ flags' = flags /\ factories' = factories
      /\ clock' = clock + SampleScale /\ chunks' = Chunk(scaled) /\ loopPc = "waiting"
      /\ collected' = 0 /\ loopPc' = "collecting" /\ results' = <<>>
  BY DEF TickInv, Start
<1>1. Lists(scaled, TickSamples(clock))
  BY <1>0, ScaledLists
<1> HIDE DEF scaled
<1>2. Splits(chunks', TickSamples(clock)) /\ n \in Nat
  BY <1>0, <1>1, ChunkSplits
<1>3. sending = {}
  BY <1>0, IdleBetweenTicks
<1>4. DOMAIN chunks' = 1..n
  BY <1>2 DEF Splits
<1>5. sending' = {[time |-> clock', chunk |-> c, samples |-> chunks'[c], state |-> "sending"] :
                     c \in DOMAIN chunks'}
  BY <1>3 DEF Start
<1>6. \A c : Goroutine(c, "sending")' = [time |-> clock', chunk |-> c, samples |-> chunks'[c], state |-> "sending"]
  BY DEF Goroutine
<1>7. /\ \A c \in 1..n : f[c] \in sending' /\ f[c].chunk = c /\ f[c] = Goroutine(c, "sending")'
      /\ \A g \in sending' : \E c \in 1..n : g = f[c]
  BY <1>4, <1>5, <1>6
<1>8. f \in [1..n -> sending']
  BY <1>7
<1> HIDE DEF f, n
<1>9. f \in Surjection(1..n, sending') /\ f \in Injection(1..n, sending')
  BY <1>7, <1>8 DEF Surjection, Injection, IsInjective
<1>10. IsFiniteSet(1..n) /\ Cardinality(1..n) = n
  BY <1>2, FS_Interval
<1>11. IsFiniteSet(sending') /\ Cardinality(sending') = n
  BY <1>9, <1>10, FS_Surjection
<1>12. clock' \in Nat
  <2>1. SampleScale \in Nat
    BY <1>0, LoaderAssumption DEF SampleScale
  <2> QED
    BY <1>0, <2>1
<1>13. /\ \A g \in sending' : \E c \in 1..n : g = Goroutine(c, "sending")'
       /\ \A c \in 1..n : Goroutine(c, "sending")' \in sending'
  BY <1>7
<1>14. \A g \in sending' : \E c \in 1..n : \E state \in States : g = Goroutine(c, state)'
  BY <1>13 DEF States
<1>15. \A g, h \in sending' : g.chunk = h.chunk => g = h
  BY <1>7
<1>16. results' \in Seq([chunk : 1..n, ok : BOOLEAN]) /\ Len(results') = 0
  BY <1>0
<1>17. collected' + Len(results') + Cardinality(sending') = n
  BY <1>0, <1>2, <1>11, <1>16
<1> QED
  BY <1>0, <1>2, <1>3, <1>11, <1>12, <1>13, <1>14, <1>15, <1>16, <1>17 DEF TickInv, States, n

\* What no step of the tick changes.
LEMMA RestKeepsTick ==
    ASSUME TickInv, UNCHANGED <<tickVars, loopPc, sending, results, collected>>
    PROVE  TickInv'
BY DEF TickInv, Goroutine

\* Every step keeps the account of the chunks.
LEMMA TickStep ==
    ASSUME TickInv, [LoaderNext]_loaderVars
    PROVE  TickInv'
<1>1. CASE Fire
  BY <1>1, RestKeepsTick DEF Fire
<1>2. CASE Start
  BY <1>2, StartKeepsTick
<1>3. ASSUME NEW g \in sending, Taken(g) \/ Rejected(g) \/ Report(g) PROVE TickInv'
  <2>1. PICK c \in 1..Len(chunks) : \E state \in States : g = Goroutine(c, state)
    BY GoroutineOf
  <2>2. PICK state \in States : g = Goroutine(c, state)
    BY <2>1
  <2>3. g.state = state
    BY <2>2, GoroutineParts
  <2>4. CASE Taken(g)
    BY <2>2, <2>3, <2>4, BecomeKeepsTick DEF Taken, States
  <2>5. CASE Rejected(g)
    BY <2>2, <2>3, <2>5, BecomeKeepsTick DEF Rejected, States
  <2>6. CASE Report(g)
    BY <2>2, <2>3, <2>6, ReportKeepsTick DEF Report
  <2> QED
    BY <1>3, <2>4, <2>5, <2>6
<1>4. CASE Collect
  BY <1>4, CollectKeepsTick
<1>5. CASE Processed
  BY <1>5 DEF Processed, TickInv, Goroutine
<1>6. CASE UNCHANGED loaderVars
  BY <1>6, RestKeepsTick DEF loaderVars
<1> QED
  BY <1>1, <1>2, <1>3, <1>4, <1>5, <1>6 DEF LoaderNext, Goroutines

-----------------------------------------------------------------------------
(* The failures.                                                             *)

\* One more at the end, and one fewer at the front.
LEMMA QueueRanges ==
    ASSUME NEW R, NEW seq \in Seq(R)
    PROVE  /\ \A e : Range(Append(seq, e)) = Range(seq) \cup {e}
           /\ seq # <<>> => Range(seq) = Range(Tail(seq)) \cup {Head(seq)}
<1>0. Len(seq) \in Nat /\ DOMAIN seq = 1..Len(seq)
  OBVIOUS
<1>1. ASSUME NEW e PROVE Range(Append(seq, e)) = Range(seq) \cup {e}
  <2> DEFINE more == Append(seq, e)
  <2>1. /\ DOMAIN more = 1..(Len(seq) + 1)
        /\ \A i \in 1..Len(seq) : more[i] = seq[i]
        /\ more[Len(seq) + 1] = e
    OBVIOUS
  <2> HIDE DEF more
  <2>2. \A i \in 1..(Len(seq) + 1) : i \in 1..Len(seq) \/ i = Len(seq) + 1
    BY <1>0
  <2>3. \A i \in 1..Len(seq) : i \in 1..(Len(seq) + 1)
    BY <1>0
  <2>4. Len(seq) + 1 \in 1..(Len(seq) + 1)
    BY <1>0
  <2>5. Range(more) \subseteq Range(seq) \cup {e}
    BY <1>0, <2>1, <2>2 DEF Range
  <2>6. Range(seq) \cup {e} \subseteq Range(more)
    BY <1>0, <2>1, <2>3, <2>4 DEF Range
  <2> QED
    BY <2>5, <2>6 DEF more
<1>2. ASSUME seq # <<>> PROVE Range(seq) = Range(Tail(seq)) \cup {Head(seq)}
  <2> DEFINE rest == Tail(seq)
             n == Len(seq) - 1
  <2>1. /\ DOMAIN rest = 1..n /\ n \in Nat /\ Head(seq) = seq[1] /\ DOMAIN seq = 1..(n + 1)
        /\ \A i \in 1..n : rest[i] = seq[i + 1]
    BY <1>2
  <2> HIDE DEF rest, n
  <2>2. \A i \in 1..(n + 1) : i = 1 \/ (i - 1 \in 1..n /\ (i - 1) + 1 = i)
    BY <2>1
  <2>3. 1 \in 1..(n + 1) /\ \A i \in 1..n : i + 1 \in 1..(n + 1)
    BY <2>1
  <2>4. ASSUME NEW x \in Range(seq) PROVE x \in Range(rest) \cup {Head(seq)}
    <3>1. PICK i \in 1..(n + 1) : x = seq[i]
      BY <2>1 DEF Range
    <3>2. i # 1 => x = rest[i - 1]
      BY <2>1, <2>2, <3>1
    <3> QED
      BY <2>1, <2>2, <3>1, <3>2 DEF Range
  <2>5. Range(rest) \cup {Head(seq)} \subseteq Range(seq)
    BY <2>1, <2>3 DEF Range
  <2> QED
    BY <2>4, <2>5 DEF rest
<1> QED
  BY <1>1, <1>2

\* Goroutines differ when their chunks or their states do.
LEMMA GoroutinesDiffer ==
    ASSUME NEW c, NEW d, NEW state, NEW to, Goroutine(c, state) = Goroutine(d, to)
    PROVE  c = d /\ state = to
BY GoroutineParts

\* The request of an open chunk ends.
LEMMA RequestEnds ==
    ASSUME TickInv, NEW c \in 1..Len(chunks), NEW g \in sending, g = Goroutine(c, "sending"),
           NEW to \in {"taken", "rejected"}, Become(g, to),
           UNCHANGED <<tickVars, loopPc, results, collected, sendErr>>
    PROVE  /\ \A d : IsOpen(d)' <=> IsOpen(d) /\ d # c
           /\ \A d : IsFailing(d)' <=> IsFailing(d) \/ (d = c /\ to = "rejected")
<1>1. sending' = Replaced(c, "sending", to)
  BY BecomeKeepsTick DEF States
<1>2. \A d : Goroutine(d, "rejected") \in sending' <=>
                Goroutine(d, "rejected") \in sending \/ (d = c /\ to = "rejected")
  BY <1>1, GoroutinesDiffer DEF Replaced, Others
<1>3. \A d : Goroutine(d, "sending") \in sending' <=> Goroutine(d, "sending") \in sending /\ d # c
  BY <1>1, GoroutinesDiffer DEF Replaced, Others
<1>4. \A d, state : Goroutine(d, state)' = Goroutine(d, state)
  BY DEF Goroutine
<1> QED
  BY <1>2, <1>3, <1>4 DEF IsFailing, IsOpen

\* A result on its way to the loop remains of a failed chunk or not.
LEMMA ResultPasses ==
    ASSUME TickInv, Collect \/ \E g \in sending : Report(g)
    PROVE  \A d : (IsOpen(d)' <=> IsOpen(d)) /\ (IsFailing(d)' <=> IsFailing(d))
<1> DEFINE n == Len(chunks)
           lost(d) == [chunk |-> d, ok |-> FALSE]
<1>0. results \in Seq([chunk : 1..n, ok : BOOLEAN])
  BY DEF TickInv
<1>1. \A d, to : Goroutine(d, to)' = Goroutine(d, to)
  BY DEF Collect, Report, Goroutine
<1>2. ASSUME NEW g \in sending, Report(g)
      PROVE  \A d : (IsOpen(d)' <=> IsOpen(d)) /\ (IsFailing(d)' <=> IsFailing(d))
  <2>1. PICK c \in 1..n : \E state \in States : g = Goroutine(c, state)
    BY GoroutineOf
  <2>2. PICK state \in States : g = Goroutine(c, state)
    BY <2>1
  <2> DEFINE made == [chunk |-> c, ok |-> state = "taken"]
  <2>3. state \in {"taken", "rejected"}
    BY <1>2, <2>2, GoroutineParts DEF Report
  <2>4. sending' = sending \ {Goroutine(c, state)} /\ results' = Append(results, made)
    BY <1>2, <2>2, <2>3, ReportKeepsTick
  <2>5. Range(results') = Range(results) \cup {made}
    BY <1>0, <2>4, QueueRanges
  <2>6. \A d : lost(d) = made <=> d = c /\ state = "rejected"
    BY <2>3
  <2>7. \A d : Goroutine(d, "rejected") \in sending <=>
                  Goroutine(d, "rejected") \in sending' \/ (d = c /\ state = "rejected")
    BY <2>2, <2>4, GoroutinesDiffer
  <2>8. \A d : Goroutine(d, "sending") \in sending <=> Goroutine(d, "sending") \in sending'
    BY <2>3, <2>4, GoroutinesDiffer
  <2> HIDE DEF made
  <2>9. \A d : lost(d) \in Range(results') <=> lost(d) \in Range(results) \/ (d = c /\ state = "rejected")
    BY <2>5, <2>6
  <2> QED
    BY <1>1, <1>2, <2>7, <2>8, <2>9 DEF IsFailing, IsOpen, Report
<1>3. ASSUME Collect
      PROVE  \A d : (IsOpen(d)' <=> IsOpen(d)) /\ (IsFailing(d)' <=> IsFailing(d))
  <2> DEFINE h == Head(results)
  <2>1. /\ sending' = sending /\ results' = Tail(results) /\ results # <<>>
        /\ sendErr' = sendErr \cup (IF h.ok THEN {} ELSE {h.chunk})
    BY <1>3 DEF Collect
  <2>2. h \in [chunk : 1..n, ok : BOOLEAN]
    <3>1. \A R : \A seq \in Seq(R) : seq # <<>> => Head(seq) \in R
      OBVIOUS
    <3> HIDE DEF n
    <3> QED
      BY <1>0, <2>1, <3>1
  <2>3. Range(results) = Range(results') \cup {h}
    BY <1>0, <2>1, QueueRanges
  <2> HIDE DEF h
  <2>4. \A d : lost(d) = h <=> d = h.chunk /\ ~h.ok
    BY <2>2
  <2>5. \A d : d \in sendErr' <=> d \in sendErr \/ (d = h.chunk /\ ~h.ok)
    BY <2>1
  <2> QED
    BY <1>1, <2>1, <2>3, <2>4, <2>5 DEF IsFailing, IsOpen
<1> QED
  BY <1>2, <1>3

\* A failed request's chunk is failing, and remains so until the tick ends.
LEMMA FailStep ==
    ASSUME TickInv, FailInv, [LoaderNext]_loaderVars
    PROVE  FailInv'
<1> DEFINE n == Len(chunks)
           fail(c) == [time |-> clock, chunk |-> c]
<1>1. CASE Start
  <2>1. /\ results' = <<>>
        /\ \A g \in sending' : \E c \in 1..Len(chunks') : g = Goroutine(c, "sending")'
    BY <1>1, StartKeepsTick
  <2>2. sendErr' = sendErr /\ failures' = failures /\ loopPc' = "collecting" /\ loopPc = "waiting"
    BY <1>1 DEF Start
  <2>3. sending = {} /\ results = <<>>
    BY <2>2, IdleBetweenTicks
  <2>4. sendErr = {}
    BY <2>2 DEF FailInv
  <2>5. Range(<<>>) = {}
    BY DEF Range
  <2>6. failures = {}
    <3>1. \A c : ~IsFailing(c)
      BY <2>3, <2>4, <2>5 DEF IsFailing
    <3> QED
      BY <3>1 DEF FailInv
  <2>7. \A c : ~IsFailing(c)'
    <3> SUFFICES ASSUME NEW c PROVE Goroutine(c, "rejected")' \notin sending'
      BY <2>1, <2>2, <2>4, <2>5 DEF IsFailing
    <3>1. \A d : Goroutine(c, "rejected")' # Goroutine(d, "sending")'
      BY DEF Goroutine
    <3> QED
      BY <2>1, <3>1
  <2> QED
    BY <2>2, <2>4, <2>6, <2>7 DEF FailInv
<1>2. ASSUME UNCHANGED <<clock, chunks, loopPc, sendErr, failures>>,
             \A c \in 1..n : IsFailing(c)' <=> IsFailing(c)
      PROVE  FailInv'
  BY <1>2 DEF FailInv
<1>3. CASE UNCHANGED <<clock, chunks, loopPc, sendErr, failures, sending, results>>
  <2>1. \A c : IsFailing(c)' <=> IsFailing(c)
    BY <1>3 DEF IsFailing, Goroutine
  <2> QED
    BY <1>2, <1>3, <2>1
<1>4. ASSUME NEW g \in sending, Taken(g) \/ Rejected(g) \/ Report(g) PROVE FailInv'
  <2>1. PICK c \in 1..n : \E state \in States : g = Goroutine(c, state)
    BY GoroutineOf
  <2>2. PICK state \in States : g = Goroutine(c, state)
    BY <2>1
  <2>3. g.state = state /\ g.time = clock /\ g.chunk = c
    BY <2>2, GoroutineParts
  <2>4. CASE Taken(g)
    <3>1. UNCHANGED <<clock, chunks, loopPc, sendErr, failures>> /\ \A d : IsFailing(d)' <=> IsFailing(d)
      BY <2>2, <2>3, <2>4, RequestEnds DEF Taken
    <3> QED
      BY <1>2, <3>1
  <2>5. CASE Rejected(g)
    <3>1. UNCHANGED <<clock, chunks, loopPc, sendErr>> /\ failures' = failures \cup {fail(c)}
      BY <2>3, <2>5 DEF Rejected
    <3>2. \A d : IsFailing(d)' <=> IsFailing(d) \/ d = c
      BY <2>2, <2>3, <2>5, RequestEnds DEF Rejected
    <3>3. \A d : fail(d) = fail(c) => d = c
      OBVIOUS
    <3> QED
      BY <3>1, <3>2, <3>3 DEF FailInv
  <2>6. CASE Report(g)
    BY <1>2, <2>6, ResultPasses DEF Report
  <2> QED
    BY <1>4, <2>4, <2>5, <2>6
<1>5. CASE Collect
  <2> DEFINE h == Head(results)
  <2>1. /\ UNCHANGED <<clock, chunks, loopPc, failures>> /\ loopPc = "collecting" /\ results # <<>>
        /\ sendErr' = sendErr \cup (IF h.ok THEN {} ELSE {h.chunk})
    BY <1>5 DEF Collect
  <2>2. \A d : IsFailing(d)' <=> IsFailing(d)
    BY <1>5, ResultPasses
  <2>3. h \in [chunk : 1..n, ok : BOOLEAN]
    <3>1. \A R : \A seq \in Seq(R) : seq # <<>> => Head(seq) \in R
      OBVIOUS
    <3>2. results \in Seq([chunk : 1..n, ok : BOOLEAN])
      BY DEF TickInv
    <3> HIDE DEF n
    <3> QED
      BY <2>1, <3>1, <3>2
  <2>4. h.chunk \in 1..n
    BY <2>3
  <2> QED
    BY <2>1, <2>2, <2>4 DEF FailInv
<1>6. CASE Processed
  <2>1. /\ UNCHANGED <<clock, chunks, sendErr, failures, sending, results>>
        /\ loopPc' = IF sendErr = {} THEN "waiting" ELSE "failed"
    BY <1>6 DEF Processed
  <2>2. \A c : IsFailing(c)' <=> IsFailing(c)
    BY <2>1 DEF IsFailing, Goroutine
  <2> QED
    BY <2>1, <2>2 DEF FailInv
<1>7. CASE Fire
  BY <1>3, <1>7 DEF Fire
<1>8. CASE UNCHANGED loaderVars
  BY <1>3, <1>8 DEF loaderVars
<1> QED
  BY <1>1, <1>4, <1>5, <1>6, <1>7, <1>8 DEF LoaderNext, Goroutines

\* Nothing has been sent and no failure is known.
LEMMA LoaderStart == LoaderInit => LoaderInv
<1> SUFFICES ASSUME LoaderInit PROVE LoaderInv
  OBVIOUS
<1>1. /\ flags \in Flags /\ factories \in Factories /\ clock = 0 /\ loopPc = "waiting"
      /\ chunks = <<>> /\ sending = {} /\ results = <<>> /\ collected = 0
      /\ sendErr = {} /\ failures = {}
  BY DEF LoaderInit
<1>2. IsFiniteSet({}) /\ Cardinality({}) = 0
  BY FS_EmptySet
<1>3. Len(<<>>) = 0 /\ <<>> \in Seq([chunk : 1..0, ok : BOOLEAN]) /\ 1..0 = {}
  OBVIOUS
<1>4. TickInv
  BY <1>1, <1>2, <1>3 DEF TickInv
<1>5. FailInv
  BY <1>1, <1>3 DEF FailInv
<1> QED
  BY <1>4, <1>5 DEF LoaderInv

\* Of every tick, with any chunks and whatever becomes of their requests.
THEOREM LoaderInvariance == LoaderSpec => []LoaderInv
<1>1. LoaderInv /\ [LoaderNext]_loaderVars => LoaderInv'
  BY TickStep, FailStep DEF LoaderInv
<1> QED
  BY <1>1, LoaderStart, PTL DEF LoaderSpec

\* The command ends with the errors of exactly the chunks that failed.
THEOREM FailuresAreReported == LoaderSpec => []EveryFailureReported
<1>1. ASSUME LoaderInv PROVE EveryFailureReported
  <2>1. loopPc # "collecting" => sending = {} /\ results = <<>>
    BY <1>1, IdleBetweenTicks DEF LoaderInv
  <2>2. Range(<<>>) = {}
    BY DEF Range
  <2>3. loopPc # "collecting" => \A c : IsFailing(c) <=> c \in sendErr
    BY <2>1, <2>2 DEF IsFailing
  <2>4. CASE loopPc = "waiting"
    BY <1>1, <2>3, <2>4 DEF EveryFailureReported, LoaderInv, FailInv
  <2>5. CASE loopPc = "failed"
    <3>1. /\ failures \subseteq {[time |-> clock, chunk |-> c] : c \in 1..Len(chunks)}
          /\ \A c \in 1..Len(chunks) : [time |-> clock, chunk |-> c] \in failures <=> c \in sendErr
          /\ sendErr \subseteq 1..Len(chunks) /\ sendErr # {}
      BY <1>1, <2>3, <2>5 DEF LoaderInv, FailInv
    <3>2. failures = {[time |-> clock, chunk |-> c] : c \in sendErr}
      BY <3>1
    <3>3. failures # {}
      BY <3>1
    <3> QED
      BY <2>5, <3>2, <3>3 DEF EveryFailureReported
  <2> QED
    BY <2>4, <2>5 DEF EveryFailureReported
<1> QED
  BY <1>1, LoaderInvariance, PTL

-----------------------------------------------------------------------------
(* The receiver.                                                             *)

\* The loader has a next sample.
LEMMA ScalesArePositive ==
    ASSUME flags \in Flags
    PROVE  SampleScale \in Nat \ {0}
BY LoaderAssumption DEF SampleScale

\* The samples of the ticks before and those of the tick make those until its end.
LEMMA TickEndsSent ==
    ASSUME flags \in Flags, NEW before \in Nat
    PROVE  SentUntil(before + SampleScale) = SentUntil(before) \cup TickSamples(before)
<1> DEFINE clones == 0..(MetricScale - 1)
           sets == 0..(LabelScale - 1)
           all == 1..(before + SampleScale)
           old == 1..before
           new == Times(before)
<1>1. all = old \cup new
  BY ScalesArePositive DEF Times
<1>2. /\ SentUntil(before + SampleScale) = SampleSet(clones, sets, all)
      /\ SentUntil(before) = SampleSet(clones, sets, old)
      /\ TickSamples(before) = SampleSet(clones, sets, new)
  BY DEF SentUntil, TickSamples
<1> HIDE DEF clones, sets, all, old, new
<1>3. SampleSet(clones, sets, all) = SampleSet(clones, sets, old) \cup SampleSet(clones, sets, new)
  <2>1. ASSUME NEW x \in SampleSet(clones, sets, all)
        PROVE  x \in SampleSet(clones, sets, old) \/ x \in SampleSet(clones, sets, new)
    <3>1. PICK s \in Captured : \E m \in clones : \E l \in sets : \E t \in all :
                                   x = CloneSample(s, m, l, t)
      BY SampleSetMembers
    <3>2. PICK m \in clones : \E l \in sets : \E t \in all : x = CloneSample(s, m, l, t)
      BY <3>1
    <3>3. PICK l \in sets : \E t \in all : x = CloneSample(s, m, l, t)
      BY <3>2
    <3>4. PICK t \in all : x = CloneSample(s, m, l, t)
      BY <3>3
    <3>5. CASE t \in old
      BY <3>4, <3>5, SampleSetMembers
    <3>6. CASE t \in new
      BY <3>4, <3>6, SampleSetMembers
    <3> QED
      BY <1>1, <3>5, <3>6
  <2>2. ASSUME NEW times, times \subseteq all, NEW x \in SampleSet(clones, sets, times)
        PROVE  x \in SampleSet(clones, sets, all)
    <3>1. PICK s \in Captured : \E m \in clones : \E l \in sets : \E t \in times :
                                   x = CloneSample(s, m, l, t)
      BY SampleSetMembers
    <3>2. PICK m \in clones : \E l \in sets : \E t \in times : x = CloneSample(s, m, l, t)
      BY <3>1
    <3>3. PICK l \in sets : \E t \in times : x = CloneSample(s, m, l, t)
      BY <3>2
    <3>4. PICK t \in times : x = CloneSample(s, m, l, t)
      BY <3>3
    <3>5. t \in all
      BY <2>2
    <3> QED
      BY <3>4, <3>5, SampleSetMembers
  <2>3. old \subseteq all /\ new \subseteq all
    BY <1>1
  <2> QED
    BY <2>1, <2>2, <2>3
<1> QED
  BY <1>2, <1>3

\* The time of a sample.
LEMMA SampleTime ==
    ASSUME NEW clones, NEW sets, NEW times, NEW x \in SampleSet(clones, sets, times)
    PROVE  x.time \in times
<1>1. PICK s \in Captured : \E m \in clones : \E l \in sets : \E t \in times :
                               x = CloneSample(s, m, l, t)
  BY SampleSetMembers
<1>2. \A m, l, t : CloneSample(s, m, l, t).time = t
  BY DEF CloneSample
<1> QED
  BY <1>1, <1>2

\* The times of one tick have the same place among the ticks, after those before.
LEMMA TickNumbers ==
    ASSUME NEW n \in Nat \ {0}, NEW before \in Nat, before % n = 0
    PROVE  /\ \A t \in 1..before : (t - 1) \div n <= before \div n
           /\ \A t \in (before + 1)..(before + n) : (t - 1) \div n = before \div n
<1> DEFINE q == before \div n
<1>1. q \in Nat /\ before = q * n
  OBVIOUS
<1> HIDE DEF q
<1>2. ASSUME NEW a \in Nat, NEW d \in Nat, NEW k \in Nat, d * n <= k, k < d * n + n, k < a * n + n
      PROVE  d <= a
  <2> SUFFICES ASSUME a < d PROVE FALSE
    OBVIOUS
  <2>1. PICK e \in Nat : d = a + 1 + e
    <3>1. d - a - 1 \in Nat /\ d = a + 1 + (d - a - 1)
      OBVIOUS
    <3> QED
      BY <3>1
  <2>2. d * n = a * n + n + e * n /\ e * n \in Nat /\ a * n \in Nat
    BY <2>1
  <2> QED
    BY <1>2, <2>2
<1>3. ASSUME NEW t \in 1..before PROVE (t - 1) \div n <= q
  <2> DEFINE d == (t - 1) \div n
  <2>1. d \in Nat /\ d * n <= t - 1 /\ t - 1 < d * n + n /\ t - 1 \in Nat
    OBVIOUS
  <2> HIDE DEF d
  <2>2. t - 1 < q * n + n
    BY <1>1
  <2> QED
    BY <1>1, <1>2, <2>1, <2>2 DEF d
<1>4. ASSUME NEW t \in (before + 1)..(before + n) PROVE (t - 1) \div n = q
  <2> DEFINE d == (t - 1) \div n
  <2>1. d \in Nat /\ d * n <= t - 1 /\ t - 1 < d * n + n /\ t - 1 \in Nat
    OBVIOUS
  <2> HIDE DEF d
  <2>2. q * n <= t - 1 /\ t - 1 < q * n + n
    BY <1>1
  <2>3. d <= q /\ q <= d
    BY <1>1, <1>2, <2>1, <2>2
  <2> QED
    BY <1>1, <2>1, <2>3 DEF d
<1> QED
  BY <1>3, <1>4 DEF q

\* What a receiver gets in order and then from a tick no earlier is in order.
LEMMA OrderGrows ==
    ASSUME NEW R, NEW s \in Seq(R), NEW t \in Seq(R), InTickOrder(s), NEW last,
           \A x \in Range(s) : TickOf(x) \in Int /\ last \in Int /\ TickOf(x) <= last,
           \A x \in Range(t) : TickOf(x) = last /\ last \in Int
    PROVE  InTickOrder(s \o t)
<1> DEFINE st == s \o t
           m == Len(s)
           n == Len(t)
<1>1. /\ m \in Nat /\ n \in Nat /\ DOMAIN s = 1..m /\ DOMAIN t = 1..n /\ DOMAIN st = 1..(m + n)
      /\ \A i \in 1..(m + n) : st[i] = IF i <= m THEN s[i] ELSE t[i - m]
  OBVIOUS
<1> HIDE DEF st, m, n
<1>2. ASSUME NEW i \in 1..(m + n) PROVE (i \in 1..m /\ st[i] = s[i]) \/ (i > m /\ st[i] \in Range(t))
  <2>1. CASE i <= m
    BY <1>1, <2>1
  <2>2. CASE i > m
    <3>1. i - m \in 1..n /\ st[i] = t[i - m]
      BY <1>1, <2>2
    <3> QED
      BY <1>1, <2>2, <3>1 DEF Range
  <2> QED
    BY <1>1, <2>1, <2>2
<1>3. \A i \in 1..m : s[i] \in Range(s)
  BY <1>1 DEF Range
<1> SUFFICES ASSUME NEW i \in 1..(m + n), NEW j \in 1..(m + n), i < j
             PROVE  TickOf(st[i]) <= TickOf(st[j])
  BY <1>1 DEF InTickOrder, st
<1>4. CASE j \in 1..m /\ st[j] = s[j]
  <2>1. i \in 1..m /\ st[i] = s[i]
    BY <1>1, <1>4
  <2> QED
    BY <1>1, <1>4, <2>1 DEF InTickOrder
<1>5. CASE st[j] \in Range(t)
  <2>1. TickOf(st[j]) = last /\ last \in Int
    BY <1>5
  <2>2. CASE i \in 1..m /\ st[i] = s[i]
    BY <1>3, <2>1, <2>2
  <2>3. CASE st[i] \in Range(t)
    BY <2>1, <2>3
  <2> QED
    BY <1>2, <2>2, <2>3
<1> QED
  BY <1>2, <1>4, <1>5

\* The tick before.
LEMMA TickBefore ==
    ASSUME NEW n \in Nat \ {0}, NEW now \in Nat, now % n = 0, n <= now
    PROVE  /\ now - n \in Nat /\ (now - n) % n = 0 /\ (now - n) + n = now
<1> DEFINE q == now \div n
<1>1. q \in Nat /\ now = q * n
  OBVIOUS
<1> HIDE DEF q
<1>2. q # 0
  BY <1>1
<1>3. q - 1 \in Nat /\ (q - 1) * n = q * n - n
  BY <1>1, <1>2
<1>4. ((q - 1) * n) % n = 0
  <2>1. \A k \in Nat : (k * n) % n = 0
    OBVIOUS
  <2> QED
    BY <1>3, <2>1
<1> QED
  BY <1>1, <1>3, <1>4

\* And the tick after.
LEMMA TickAfter ==
    ASSUME NEW n \in Nat \ {0}, NEW now \in Nat, now % n = 0
    PROVE  (now + n) % n = 0
<1> DEFINE q == now \div n
<1>1. q \in Nat /\ now = q * n
  OBVIOUS
<1> HIDE DEF q
<1>2. q + 1 \in Nat /\ (q + 1) * n = now + n
  BY <1>1
<1>3. \A k \in Nat : (k * n) % n = 0
  OBVIOUS
<1> QED
  BY <1>2, <1>3

\* Some samples of a chunk, none of them twice if the chunk has none twice.
SomeOf(part, samples) == /\ part \in Seq(Range(samples))
                         /\ IsInjective(samples) => IsInjective(part)

\* What the receiver may take of a chunk.
LEMMA PartsAreSome ==
    ASSUME NEW R, NEW samples \in Seq(R)
    PROVE  SomeOf(samples, samples) /\ \A part \in PartsOf(samples) : SomeOf(part, samples)
<1> DEFINE n == Len(samples)
<1>1. n \in Nat /\ DOMAIN samples = 1..n /\ samples = [i \in 1..n |-> samples[i]]
      /\ \A i \in 1..n : samples[i] \in Range(samples)
  BY DEF Range
<1> HIDE DEF n
<1>2. SomeOf(samples, samples)
  BY <1>1 DEF SomeOf
<1>3. ASSUME NEW part \in PartsOf(samples) PROVE SomeOf(part, samples)
  <2>1. PICK k \in 0..n : \E f \in [1..k -> 1..n] :
               (\A i, j \in 1..k : i < j => f[i] < f[j]) /\ part = [i \in 1..k |-> samples[f[i]]]
    <3> DEFINE Places(k) == {f \in [1..k -> DOMAIN samples] : \A i, j \in 1..k : i < j => f[i] < f[j]}
    <3>1. PICK k \in 0..Len(samples) : part \in {[i \in 1..k |-> samples[f[i]]] : f \in Places(k)}
      BY <1>3 DEF PartsOf
    <3>2. PICK f \in Places(k) : part = [i \in 1..k |-> samples[f[i]]]
      BY <3>1
    <3>3. k \in 0..n /\ DOMAIN samples = 1..n
      BY <1>1 DEF n
    <3> QED
      BY <3>2, <3>3
  <2>2. PICK f \in [1..k -> 1..n] :
               (\A i, j \in 1..k : i < j => f[i] < f[j]) /\ part = [i \in 1..k |-> samples[f[i]]]
    BY <2>1
  <2>3. k \in Nat /\ \A i \in 1..k : f[i] \in 1..n
    BY <1>1
  <2>4. part \in Seq(Range(samples))
    <3>1. \A i \in 1..k : samples[f[i]] \in Range(samples)
      BY <1>1, <2>3
    <3>2. [i \in 1..k |-> samples[f[i]]] \in [1..k -> Range(samples)]
      BY <3>1
    <3> QED
      BY <2>2, <2>3, <3>2
  <2>5. ASSUME IsInjective(samples), NEW i \in 1..k, NEW j \in 1..k, part[i] = part[j]
        PROVE  i = j
    <3>1. f[i] = f[j]
      BY <1>1, <2>2, <2>3, <2>5 DEF IsInjective
    <3>2. f[i] \in Int /\ f[j] \in Int /\ i \in Int /\ j \in Int
      BY <1>1, <2>3
    <3>3. ~(i < j) /\ ~(j < i)
      BY <2>2, <3>1, <3>2
    <3> QED
      BY <3>2, <3>3
  <2>6. DOMAIN part = 1..k
    BY <2>2
  <2> QED
    BY <2>4, <2>5, <2>6 DEF SomeOf, IsInjective
<1> QED
  BY <1>2, <1>3

\* The samples of an open chunk are new to the receiver if the captured series are
\* apart, and of the latest tick.
LEMMA ReceiverTakes ==
    ASSUME TickInv, ReceiveInv, loopPc = "collecting", NEW c \in 1..Len(chunks), IsOpen(c),
           NEW part, SomeOf(part, chunks[c]), NEW got, got = received \o part
    PROVE  /\ got \in Seq(SentUntil(clock)) /\ (CapturedApart => IsInjective(got))
           /\ Range(got) = Range(received) \cup Range(part)
           /\ Range(part) \subseteq Range(chunks[c])
           /\ InTickOrder(got)
<1> DEFINE before == clock - SampleScale
           R == SentUntil(clock)
           chunk == chunks[c]
           last == before \div SampleScale
<1>0. flags \in Flags /\ clock \in Nat /\ SampleScale \in Nat \ {0} /\ clock % SampleScale = 0
  BY ScalesArePositive DEF TickInv, ReceiveInv
<1>1. /\ SampleScale <= clock
      /\ Splits(chunks, TickSamples(before))
      /\ received \in Seq(R) /\ InTickOrder(received)
      /\ CapturedApart => Range(chunk) \cap Range(received) = {} /\ IsInjective(received)
  BY DEF ReceiveInv, OpenAreNew
<1>2. before \in Nat /\ before % SampleScale = 0 /\ before + SampleScale = clock
  BY <1>0, <1>1, TickBefore
<1>3. chunk \in Seq(TickSamples(before)) /\ (CapturedApart => IsInjective(chunk))
  BY <1>1 DEF Splits, Disjoint
<1>4. R = SentUntil(before) \cup TickSamples(before)
  BY <1>0, <1>2, TickEndsSent
<1> HIDE DEF before, R, chunk, last
<1>14. Range(chunk) \subseteq TickSamples(before)
  BY <1>3 DEF Range
<1>15. part \in Seq(Range(chunk)) /\ (IsInjective(chunk) => IsInjective(part))
  BY DEF SomeOf, chunk
<1>16. Range(part) \subseteq Range(chunk)
  <2>1. \A i \in DOMAIN part : part[i] \in Range(chunk)
    BY <1>15
  <2> QED
    BY <2>1 DEF Range
<1>5. part \in Seq(R)
  <2>1. Range(chunk) \subseteq R
    BY <1>4, <1>14
  <2> HIDE DEF InTickOrder
  <2> QED
    BY <1>15, <2>1
<1>6. /\ received \o part \in Seq(R)
      /\ Range(received \o part) = Range(received) \cup Range(part)
  BY <1>1, <1>5, ConcatFacts
<1>17. ASSUME CapturedApart PROVE IsInjective(received \o part)
  <2>1. IsInjective(received) /\ IsInjective(part) /\ Range(part) \cap Range(received) = {}
    BY <1>1, <1>3, <1>15, <1>16, <1>17
  <2> QED
    BY <1>1, <1>5, <2>1, ConcatFacts
<1>7. last \in Int
  BY <1>0, <1>2 DEF last
<1>8. /\ \A t \in 1..before : (t - 1) \div SampleScale <= last
      /\ \A t \in Times(before) : (t - 1) \div SampleScale = last
  BY <1>0, <1>2, TickNumbers DEF last, Times
<1>9. \A x \in TickSamples(before) : TickOf(x) = last
  <2> SUFFICES ASSUME NEW x \in TickSamples(before) PROVE TickOf(x) = last
    OBVIOUS
  <2>1. x.time \in Times(before)
    BY SampleTime DEF TickSamples
  <2> QED
    BY <1>8, <2>1 DEF TickOf
<1>10. \A x \in SentUntil(before) : TickOf(x) \in Int /\ TickOf(x) <= last
  <2> SUFFICES ASSUME NEW x \in SentUntil(before) PROVE TickOf(x) \in Int /\ TickOf(x) <= last
    OBVIOUS
  <2>1. x.time \in 1..before
    BY SampleTime DEF SentUntil
  <2>2. (x.time - 1) \div SampleScale \in Int
    BY <1>0, <1>2, <2>1
  <2> QED
    BY <1>8, <2>1, <2>2 DEF TickOf
<1>11. \A x \in Range(received) : TickOf(x) \in Int /\ last \in Int /\ TickOf(x) <= last
  <2> SUFFICES ASSUME NEW x \in Range(received)
               PROVE  TickOf(x) \in Int /\ TickOf(x) <= last
    BY <1>7
  <2>1. x \in R
    BY <1>1 DEF Range
  <2> QED
    BY <1>4, <1>7, <1>9, <1>10, <2>1
<1>12. \A x \in Range(part) : TickOf(x) = last /\ last \in Int
  <2> SUFFICES ASSUME NEW x \in Range(part) PROVE TickOf(x) = last
    BY <1>7
  <2>1. x \in TickSamples(before)
    BY <1>14, <1>16
  <2> QED
    BY <1>9, <2>1
<1>13. InTickOrder(received \o part)
  BY <1>1, <1>5, <1>11, <1>12, OrderGrows
<1> QED
  BY <1>6, <1>13, <1>16, <1>17 DEF R, chunk

\* The samples of the ticks depend on the flags only.
LEMMA SamplesStay ==
    ASSUME flags' = flags
    PROVE  /\ SampleScale' = SampleScale
           /\ \A until : SentUntil(until)' = SentUntil(until)
           /\ \A before : TickSamples(before)' = TickSamples(before)
           /\ \A seq : InTickOrder(seq)' <=> InTickOrder(seq)
           /\ CapturedApart' <=> CapturedApart
BY DEF CapturedApart, Clones, SentUntil, TickSamples, Times, InTickOrder, TickOf, SampleScale, MetricScale, LabelScale

\* What a step leaves of the tick when it does not end it.
LEMMA ReceiverWaits ==
    ASSUME ReceiveInv, UNCHANGED <<flags, clock, chunks, loopPc, received>>,
           \A d : (IsOpen(d)' => IsOpen(d)) /\ (IsOpen(d) => IsOpen(d)' \/ IsFailing(d)')
                  /\ (IsFailing(d) => IsFailing(d)')
    PROVE  ReceiveInv'
<1>1. /\ SampleScale' = SampleScale
      /\ SentUntil(clock)' = SentUntil(clock)
      /\ SentUntil(clock - SampleScale)' = SentUntil(clock - SampleScale)
      /\ TickSamples(clock - SampleScale)' = TickSamples(clock - SampleScale)
      /\ InTickOrder(received)' <=> InTickOrder(received)
      /\ CapturedApart' <=> CapturedApart
  BY SamplesStay
<1>2. loopPc = "collecting" =>
          /\ CapturedApart => OpenAreNew'
          /\ \A c \in 1..Len(chunks) : IsOpen(c)' \/ IsFailing(c)' \/ Range(chunks[c]) \subseteq Range(received)
  BY DEF ReceiveInv, OpenAreNew
<1>3. ASSUME Splits(chunks, TickSamples(clock - SampleScale))
      PROVE  Splits(chunks, TickSamples(clock - SampleScale))'
  <2>1. chunks' = chunks
    OBVIOUS
  <2> QED
    BY <1>1, <1>3, <2>1 DEF Splits, Disjoint
<1> QED
  BY <1>1, <1>2, <1>3 DEF ReceiveInv

\* Every step keeps what the receiver has.
LEMMA ReceiveStep ==
    ASSUME TickInv, ReceiveInv, [LoaderNext]_loaderVars
    PROVE  ReceiveInv'
<1> DEFINE n == Len(chunks)
<1>0. flags' = flags
  BY DEF LoaderNext, Fire, Start, Goroutines, Taken, Rejected, Report, Collect, Processed, loaderVars
<1>1. CASE Start
  <2>1. /\ Splits(chunks', TickSamples(clock))
        /\ \A c \in 1..Len(chunks') : Goroutine(c, "sending")' \in sending'
    BY <1>1, StartKeepsTick
  <2>2. /\ clock' = clock + SampleScale /\ received' = received /\ loopPc' = "collecting"
        /\ loopPc = "waiting"
    BY <1>1 DEF Start
  <2>3. /\ clock \in Nat /\ clock % SampleScale = 0 /\ SampleScale \in Nat \ {0} /\ flags \in Flags
        /\ received \in Seq(SentUntil(clock)) /\ InTickOrder(received)
        /\ Range(received) = SentUntil(clock) /\ (CapturedApart => IsInjective(received))
    BY <2>2, ScalesArePositive DEF TickInv, ReceiveInv
  <2>4. /\ SampleScale' = SampleScale
        /\ \A until : SentUntil(until)' = SentUntil(until)
        /\ \A before : TickSamples(before)' = TickSamples(before)
        /\ InTickOrder(received)' <=> InTickOrder(received)
        /\ CapturedApart' <=> CapturedApart
    BY <1>0, <2>2, SamplesStay
  <2>5. SentUntil(clock + SampleScale) = SentUntil(clock) \cup TickSamples(clock)
    BY <2>3, TickEndsSent
  <2>6. clock + SampleScale - SampleScale = clock /\ SampleScale <= clock + SampleScale
        /\ (clock + SampleScale) % SampleScale = 0
    <3> DEFINE scale == SampleScale
    <3>1. scale \in Nat \ {0} /\ clock \in Nat /\ clock % scale = 0
      BY <2>3
    <3> HIDE DEF scale
    <3>2. clock + scale - scale = clock /\ scale <= clock + scale
      BY <3>1
    <3>3. (clock + scale) % scale = 0
      BY <3>1, TickAfter
    <3> QED
      BY <3>2, <3>3 DEF scale
  <2>7. received \in Seq(SentUntil(clock + SampleScale))
    BY <2>3, <2>5
  <2>8. \A c \in 1..Len(chunks') : Range(chunks'[c]) \cap Range(received) = {}
    <3> SUFFICES ASSUME NEW c \in 1..Len(chunks'), NEW x \in Range(chunks'[c]), x \in SentUntil(clock) PROVE FALSE
      BY <2>3
    <3>1. chunks'[c] \in Seq(TickSamples(clock))
      BY <2>1 DEF Splits
    <3>2. x \in TickSamples(clock)
      BY <3>1 DEF Range
    <3>3. x.time \in Times(clock) /\ x.time \in 1..clock
      BY <3>2, SampleTime DEF TickSamples, SentUntil
    <3> QED
      BY <2>3, <3>3 DEF Times
  <2>9. \A c \in 1..Len(chunks') : IsOpen(c)'
    BY <2>1 DEF IsOpen
  <2>10. /\ (clock % SampleScale = 0)' /\ (SampleScale <= clock)'
         /\ (received \in Seq(SentUntil(clock)))' /\ InTickOrder(received)'
         /\ CapturedApart' => IsInjective(received')
    BY <2>2, <2>3, <2>4, <2>6, <2>7
  <2>11. /\ Splits(chunks, TickSamples(clock - SampleScale))'
         /\ SentUntil(clock - SampleScale)' \subseteq Range(received')
    <3>2. TickSamples(clock - SampleScale)' = TickSamples(clock)
          /\ SentUntil(clock - SampleScale)' = SentUntil(clock)
      BY <2>2, <2>3, <2>4, <2>6
    <3>3. Splits(chunks, TickSamples(clock - SampleScale))'
      BY <2>1, <2>4, <3>2 DEF Splits, Disjoint
    <3> QED
      BY <2>2, <2>3, <3>2, <3>3
  <2> QED
    BY <2>2, <2>8, <2>9, <2>10, <2>11 DEF ReceiveInv, OpenAreNew
<1>2. ASSUME NEW g \in sending, Taken(g) \/ Rejected(g) PROVE ReceiveInv'
  <2>1. PICK c \in 1..n : \E state \in States : g = Goroutine(c, state)
    BY GoroutineOf
  <2>2. PICK state \in States : g = Goroutine(c, state)
    BY <2>1
  <2>3. g.state = state /\ g.samples = chunks[c]
    BY <2>2, GoroutineParts
  <2>4. g = Goroutine(c, "sending") /\ IsOpen(c)
    BY <1>2, <2>2, <2>3 DEF Taken, Rejected, IsOpen
  <2>5. loopPc = "collecting"
    BY IdleBetweenTicks
  <2>6. UNCHANGED <<flags, clock, chunks, loopPc>>
    BY <1>2 DEF Taken, Rejected
  <2>7. /\ \A d : IsOpen(d)' <=> IsOpen(d) /\ d # c
        /\ \A d : IsFailing(d) => IsFailing(d)'
        /\ IsFailing(c)' \/ Taken(g)
    <3>1. CASE Taken(g)
      BY <2>3, <2>4, <3>1, RequestEnds DEF Taken
    <3>2. CASE Rejected(g)
      BY <2>3, <2>4, <3>2, RequestEnds DEF Rejected
    <3> QED
      BY <1>2, <3>1, <3>2
  <2>8. PICK part : /\ received' = received \o part /\ SomeOf(part, chunks[c])
                    /\ Taken(g) => part = chunks[c]
    <3>1. chunks[c] \in Seq(TickSamples(clock - SampleScale))
      <4>1. Splits(chunks, TickSamples(clock - SampleScale))
        BY <2>5, Zenon DEF ReceiveInv
      <4>2. chunks \in Seq(Seq(TickSamples(clock - SampleScale)))
        BY <4>1, Zenon DEF Splits
      <4>3. c \in 1..Len(chunks)
        BY <2>1
      <4> QED
        BY <4>2, <4>3
    <3>2. SomeOf(chunks[c], chunks[c]) /\ \A part \in PartsOf(chunks[c]) : SomeOf(part, chunks[c])
      BY <3>1, PartsAreSome
    <3>3. CASE Taken(g)
      BY <2>3, <3>2, <3>3 DEF Taken
    <3>4. CASE Rejected(g) /\ ~Taken(g)
      BY <2>3, <3>2, <3>4 DEF Rejected
    <3> QED
      BY <1>2, <3>3, <3>4
  <2>9. /\ received' \in Seq(SentUntil(clock)) /\ (CapturedApart => IsInjective(received'))
        /\ Range(received') = Range(received) \cup Range(part)
        /\ Range(part) \subseteq Range(chunks[c])
        /\ InTickOrder(received')
    BY <2>4, <2>5, <2>8, ReceiverTakes
  <2>10. /\ SampleScale' = SampleScale
         /\ SentUntil(clock)' = SentUntil(clock)
         /\ SentUntil(clock - SampleScale)' = SentUntil(clock - SampleScale)
         /\ TickSamples(clock - SampleScale)' = TickSamples(clock - SampleScale)
         /\ InTickOrder(received)' <=> InTickOrder(received')
         /\ CapturedApart' <=> CapturedApart
    <3>1. \A seq : InTickOrder(seq)' <=> InTickOrder(seq)
      BY <2>6, SamplesStay
    <3> QED
      BY <2>6, SamplesStay DEF InTickOrder, TickOf
  <2>11. /\ clock % SampleScale = 0 /\ SampleScale <= clock
         /\ Splits(chunks, TickSamples(clock - SampleScale))
         /\ SentUntil(clock - SampleScale) \subseteq Range(received)
         /\ CapturedApart => OpenAreNew
         /\ \A d \in 1..n : IsOpen(d) \/ IsFailing(d) \/ Range(chunks[d]) \subseteq Range(received)
    BY <2>5 DEF ReceiveInv
  <2>12. ASSUME CapturedApart, NEW d \in 1..n, IsOpen(d)'
         PROVE  Range(chunks[d]) \cap Range(received') = {}
    <3>1. IsOpen(d) /\ d # c
      BY <2>7, <2>12
    <3>2. Range(chunks[d]) \cap Range(chunks[c]) = {}
      BY <2>11, <2>12, <3>1 DEF Splits, Disjoint
    <3>3. Range(chunks[d]) \cap Range(received) = {}
      BY <2>11, <2>12, <3>1 DEF OpenAreNew
    <3> QED
      BY <2>9, <3>2, <3>3
  <2>13. CapturedApart => OpenAreNew'
    BY <2>6, <2>12 DEF OpenAreNew
  <2>14. ASSUME NEW d \in 1..n
         PROVE  IsOpen(d)' \/ IsFailing(d)' \/ Range(chunks[d]) \subseteq Range(received')
    BY <2>7, <2>8, <2>9, <2>11
  <2>15. Splits(chunks, TickSamples(clock - SampleScale))'
    BY <2>6, <2>10, <2>11 DEF Splits, Disjoint
  <2> QED
    BY <2>5, <2>6, <2>9, <2>10, <2>11, <2>13, <2>14, <2>15 DEF ReceiveInv
<1>3. ASSUME NEW g \in sending, Report(g) PROVE ReceiveInv'
  <2>1. UNCHANGED <<flags, clock, chunks, loopPc, received>>
    BY <1>3 DEF Report
  <2> QED
    BY <1>3, <2>1, ResultPasses, ReceiverWaits
<1>4. CASE Collect
  <2>1. UNCHANGED <<flags, clock, chunks, loopPc, received>>
    BY <1>4 DEF Collect
  <2> QED
    BY <1>4, <2>1, ResultPasses, ReceiverWaits
<1>5. CASE Fire \/ UNCHANGED loaderVars
  <2>1. UNCHANGED <<flags, clock, chunks, loopPc, received, sending, sendErr, results>>
    BY <1>5 DEF Fire, loaderVars
  <2>2. \A d : (IsOpen(d)' <=> IsOpen(d)) /\ (IsFailing(d)' <=> IsFailing(d))
    BY <2>1 DEF IsOpen, IsFailing, Goroutine
  <2> QED
    BY <2>1, <2>2, ReceiverWaits
<1>6. CASE Processed
  <2>1. /\ UNCHANGED <<flags, clock, chunks, received, sending, sendErr, results>>
        /\ loopPc' = (IF sendErr = {} THEN "waiting" ELSE "failed")
        /\ loopPc = "collecting" /\ collected = n
    BY <1>6 DEF Processed
  <2>2. sending = {} /\ results = <<>>
    <3>1. /\ IsFiniteSet(sending) /\ n \in Nat /\ collected = n
          /\ collected + Len(results) + Cardinality(sending) = n
          /\ results \in Seq([chunk : 1..n, ok : BOOLEAN])
      BY <2>1 DEF TickInv
    <3>2. Cardinality(sending) \in Nat /\ Len(results) \in Nat
      BY <3>1, FS_CardinalityType
    <3>3. Cardinality(sending) = 0 /\ Len(results) = 0
      BY <3>1, <3>2
    <3> QED
      BY <3>1, <3>3, FS_EmptySet
  <2>3. /\ clock % SampleScale = 0 /\ SampleScale <= clock /\ clock \in Nat /\ flags \in Flags
        /\ received \in Seq(SentUntil(clock)) /\ InTickOrder(received)
        /\ CapturedApart => IsInjective(received)
        /\ Splits(chunks, TickSamples(clock - SampleScale))
        /\ SentUntil(clock - SampleScale) \subseteq Range(received)
        /\ \A d \in 1..n : IsOpen(d) \/ IsFailing(d) \/ Range(chunks[d]) \subseteq Range(received)
    BY <2>1 DEF ReceiveInv, TickInv
  <2>4. /\ SampleScale' = SampleScale
        /\ SentUntil(clock)' = SentUntil(clock)
        /\ InTickOrder(received)' <=> InTickOrder(received)
        /\ CapturedApart' <=> CapturedApart
    BY <2>1, SamplesStay
  <2>5. ASSUME sendErr = {} PROVE Range(received) = SentUntil(clock)
    <3>1. Range(<<>>) = {}
      BY DEF Range
    <3>2. \A d : ~IsOpen(d) /\ ~IsFailing(d)
      BY <2>2, <2>5, <3>1 DEF IsOpen, IsFailing
    <3>3. \A d \in 1..n : Range(chunks[d]) \subseteq Range(received)
      BY <2>3, <3>2
    <3>4. \A x \in TickSamples(clock - SampleScale) : x \in Range(received)
      BY <2>3, <3>3 DEF Splits
    <3>5. SentUntil(clock) = SentUntil(clock - SampleScale) \cup TickSamples(clock - SampleScale)
      <4> DEFINE before == clock - SampleScale
      <4>1. before \in Nat /\ before + SampleScale = clock
        BY <2>3, ScalesArePositive
      <4> HIDE DEF before
      <4>2. SentUntil(before + SampleScale) = SentUntil(before) \cup TickSamples(before)
        BY <2>3, <4>1, TickEndsSent
      <4> QED
        BY <4>1, <4>2 DEF before
    <3>6. Range(received) \subseteq SentUntil(clock)
      BY <2>3 DEF Range
    <3> QED
      BY <2>3, <3>4, <3>5, <3>6
  <2> QED
    BY <2>1, <2>3, <2>4, <2>5 DEF ReceiveInv
<1> QED
  BY <1>1, <1>2, <1>3, <1>4, <1>5, <1>6 DEF LoaderNext, Goroutines

\* Nothing has been received.
LEMMA ReceiveStart == LoaderInit => ReceiveInv
<1> SUFFICES ASSUME LoaderInit PROVE ReceiveInv
  OBVIOUS
<1>1. clock = 0 /\ received = <<>> /\ loopPc = "waiting" /\ flags \in Flags
  BY DEF LoaderInit
<1>2. 0 % SampleScale = 0
  BY <1>1, ScalesArePositive
<1>3. SentUntil(0) = {}
  <2> SUFFICES ASSUME NEW x \in SentUntil(0) PROVE FALSE
    OBVIOUS
  <2>1. x.time \in 1..0
    BY SampleTime DEF SentUntil
  <2> QED
    BY <2>1
<1>4. Range(<<>>) = {} /\ IsInjective(<<>>) /\ InTickOrder(<<>>)
  BY DEF Range, IsInjective, InTickOrder
<1>5. <<>> \in Seq(SentUntil(0))
  OBVIOUS
<1>6. clock % SampleScale = 0
  BY <1>1, <1>2
<1>7. received \in Seq(SentUntil(clock)) /\ IsInjective(received) /\ InTickOrder(received)
      /\ Range(received) = SentUntil(clock)
  BY <1>1, <1>3, <1>4, <1>5
<1> QED
  BY <1>1, <1>6, <1>7 DEF ReceiveInv

\* Of every tick, with any interleaving of its requests.
THEOREM ReceiverInvariance == LoaderSpec => [](LoaderInv /\ ReceiveInv)
<1>1. LoaderInv /\ ReceiveInv /\ [LoaderNext]_loaderVars => (LoaderInv /\ ReceiveInv)'
  BY TickStep, FailStep, ReceiveStep DEF LoaderInv
<1> QED
  BY <1>1, LoaderStart, ReceiveStart, PTL DEF LoaderSpec

\* No sample is left out, whatever the scales and the size of a request, or arrives
\* after one of a later tick; and none arrives twice if no two clones have one name
\* and one label set.
THEOREM SamplesArriveOnce == LoaderSpec => []EachSampleOnce
<1>1. ASSUME ReceiveInv PROVE EachSampleOnce
  <2>1. \A until : SentUntil(until) =
            {[series |-> CloneOf(s, m, l), time |-> t] :
                s \in Captured, m \in 0..MetricScale - 1, l \in 0..LabelScale - 1, t \in 1..until}
    BY DEF SentUntil, SampleSet, CloneSample
  <2>2. (CapturedApart => IsInjective(received)) /\ (loopPc = "waiting" => Range(received) = SentUntil(clock))
    BY <1>1 DEF ReceiveInv
  <2>3. \A i, j \in DOMAIN received :
            i < j => (received[i].time - 1) \div SampleScale <= (received[j].time - 1) \div SampleScale
    BY <1>1 DEF ReceiveInv, InTickOrder, TickOf
  <2> QED
    BY <2>1, <2>2, <2>3 DEF EachSampleOnce
<1> QED
  BY <1>1, ReceiverInvariance, PTL

-----------------------------------------------------------------------------
(* Captured traffic: the file.                                               *)

TokenKinds == {"word", "end", "Content-Length:", "digits", "body"}

\* What the three kinds of requests have in common, and where the headers end.
LEMMA TokensFacts ==
    ASSUME NEW one
    PROVE  /\ Tokens(one) \in Seq(TokenKinds) /\ Len(Tokens(one)) \in Nat /\ Len(Tokens(one)) >= 7
           /\ Tokens(one)[1] = "word" /\ Tokens(one)[2] = "word" /\ Tokens(one)[3] = "word"
           /\ Tokens(one)[4] = "end" /\ Tokens(one)[7] = "end"
           /\ one.kind = "write" =>
                 /\ Len(Tokens(one)) = 10
                 /\ Tokens(one)[5] = "Content-Length:" /\ Tokens(one)[6] = "digits"
                 /\ Tokens(one)[8] = "end"
           /\ one.kind # "write" =>
                 /\ Tokens(one)[5] = "word" /\ Tokens(one)[6] = "end"
<1>1. CASE one.kind = "write"
  <2>1. Tokens(one) = <<"word", "word", "word", "end", "Content-Length:", "digits", "end",
                        "end", "body", "body">>
    BY <1>1 DEF Tokens
  <2> QED
    BY <1>1, <2>1 DEF TokenKinds
<1>2. CASE one.kind = "get"
  <2>1. Tokens(one) = <<"word", "word", "word", "end", "word", "end", "end">>
    BY <1>2 DEF Tokens
  <2> QED
    BY <1>2, <2>1 DEF TokenKinds
<1>3. CASE one.kind # "write" /\ one.kind # "get"
  <2>1. Tokens(one) = <<"word", "word", "word", "end", "word", "end", "end", "body", "body">>
    BY <1>3 DEF Tokens
  <2> QED
    BY <1>3, <2>1 DEF TokenKinds
<1> QED
  BY <1>1, <1>2, <1>3

-----------------------------------------------------------------------------
\* The tokens of each request.
TokenLists == [i \in DOMAIN traffic |-> Tokens(traffic[i])]

\* The file is cut from what is flattened here.
LEMMA TokenListsFacts ==
    ASSUME traffic \in Traffics
    PROVE  /\ TokenLists \in Seq(Seq(TokenKinds)) /\ Len(TokenLists) = Len(traffic) /\ Len(traffic) \in Nat
           /\ DOMAIN traffic = 1..Len(traffic)
           /\ \A r \in 1..Len(traffic) : TokenLists[r] = Tokens(traffic[r])
           /\ \A r \in 0..Len(traffic) : Before(r) = Len(FlattenTo(TokenLists, r))
           /\ FlattenSeq([i \in DOMAIN traffic |-> Tokens(traffic[i])]) = FlattenSeq(TokenLists)
<1>1. traffic \in Seq(ToSet(traffic))
  BY CaptureAssumption DEF IsList
<1>2. Len(traffic) \in Nat /\ DOMAIN traffic = 1..Len(traffic)
  BY <1>1
<1> DEFINE n == Len(traffic)
           Q == Seq(TokenKinds)
<1>3. TokenLists = [i \in 1..n |-> TokenLists[i]] /\ \A i \in 1..n : TokenLists[i] \in Q /\ TokenLists[i] = Tokens(traffic[i])
  <2>1. TokenLists = [i \in 1..n |-> Tokens(traffic[i])]
    BY <1>2 DEF TokenLists
  <2>2. \A i \in 1..n : Tokens(traffic[i]) \in Q
    BY TokensFacts
  <2> HIDE DEF Q, n
  <2> QED
    BY <2>1, <2>2
<1> HIDE DEF n, Q
<1>4. n \in Nat
  BY <1>2 DEF n
<1>5. TokenLists \in Seq(Q) /\ Len(TokenLists) = n
  BY <1>3, <1>4
<1>6. \A r \in 0..n : Before(r) = Len(FlattenTo(TokenLists, r))
  <2> TAKE r \in 0..n
  <2>1. SubSeq(TokenLists, 1, r) = [i \in 1..r |-> Tokens(traffic[i])]
    <3>1. SubSeq(TokenLists, 1, r) = [i \in 1..r |-> TokenLists[i]]
      BY <1>4, <1>5
    <3>2. \A i \in 1..r : TokenLists[i] = Tokens(traffic[i])
      BY <1>3, <1>4
    <3> QED
      BY <3>1, <3>2
  <2> QED
    BY <2>1, Zenon DEF Before, FlattenTo
<1> QED
  BY <1>2, <1>3, <1>5, <1>6 DEF n, Q, TokenLists

\* A request begins where the one before it ends, and has tokens.
LEMMA BeforeFacts ==
    ASSUME traffic \in Traffics
    PROVE  /\ Before(0) = 0
           /\ \A r \in 1..Len(traffic) :
                 /\ Before(r - 1) \in Nat /\ Before(r) \in Nat
                 /\ Before(r) = Before(r - 1) + Len(Tokens(traffic[r]))
           /\ \A r, q \in 0..Len(traffic) : r < q => Before(r) < Before(q)
<1> DEFINE n == Len(traffic)
<1>1. Before(0) = 0
  <2>1. 0 \in 0..Len(traffic) /\ FlattenTo(TokenLists, 0) = <<>>
    BY TokenListsFacts, FlattenEnds
  <2> QED
    BY <2>1, TokenListsFacts
<1>2. \A r \in 1..n :
          /\ Before(r - 1) \in Nat /\ Before(r) \in Nat
          /\ Before(r) = Before(r - 1) + Len(Tokens(traffic[r]))
          /\ Len(Tokens(traffic[r])) >= 7
  <2> TAKE r \in 1..n
  <2>1. r - 1 \in 0..n /\ r \in 0..n /\ r \in 1..Len(TokenLists)
    BY TokenListsFacts
  <2>2. /\ Len(FlattenTo(TokenLists, r - 1)) \in Nat
        /\ Len(FlattenTo(TokenLists, r)) = Len(FlattenTo(TokenLists, r - 1)) + Len(TokenLists[r])
    BY <2>1, TokenListsFacts, FlattenAt
  <2>3. Len(Tokens(traffic[r])) \in Nat /\ Len(Tokens(traffic[r])) >= 7
    BY TokensFacts
  <2>4. /\ Before(r - 1) = Len(FlattenTo(TokenLists, r - 1)) /\ Before(r) = Len(FlattenTo(TokenLists, r))
        /\ TokenLists[r] = Tokens(traffic[r])
    BY <2>1, TokenListsFacts
  <2> HIDE DEF n
  <2> QED
    BY <2>2, <2>3, <2>4
<1>3. \A r, q \in 0..n : r < q => Before(r) < Before(q)
  <2> DEFINE T == {q \in Nat : q <= n => Before(q) \in Nat /\ \A r \in 0..n : r < q => Before(r) < Before(q)}
  <2>0. n \in Nat
    BY TokenListsFacts
  <2>1. 0 \in T
    BY <1>1
  <2>2. ASSUME NEW q \in Nat, q \in T PROVE q + 1 \in T
    <3> SUFFICES ASSUME q + 1 <= n
                 PROVE  Before(q + 1) \in Nat /\ \A r \in 0..n : r < q + 1 => Before(r) < Before(q + 1)
      OBVIOUS
    <3>1. q + 1 \in 1..n /\ (q + 1) - 1 = q /\ q <= n
      BY <2>0
    <3>2. Before(q) \in Nat /\ Before(q + 1) \in Nat /\ Before(q) < Before(q + 1)
      <4>1. /\ Before((q + 1) - 1) \in Nat /\ Before(q + 1) \in Nat
            /\ Before(q + 1) = Before((q + 1) - 1) + Len(Tokens(traffic[q + 1]))
            /\ Len(Tokens(traffic[q + 1])) >= 7 /\ Len(Tokens(traffic[q + 1])) \in Nat
        BY <1>2, <3>1, TokensFacts
      <4> QED
        BY <3>1, <4>1
    <3>3. ASSUME NEW r \in 0..n, r < q + 1 PROVE Before(r) < Before(q + 1)
      <4>1. CASE r = q
        BY <3>2, <4>1
      <4>2. CASE r < q
        <5>1. Before(r) < Before(q)
          BY <2>2, <3>1, <4>2
        <5>2. Before(r) \in Nat
          <6>1. CASE r = 0
            BY <1>1, <6>1
          <6>2. CASE r # 0
            <7>1. r \in 1..n
              BY <6>2
            <7> QED
              BY <1>2, <7>1
          <6> QED
            BY <6>1, <6>2
        <5> QED
          BY <3>2, <5>1, <5>2
      <4> QED
        BY <3>3, <4>1, <4>2
    <3> QED
      BY <3>2, <3>3
  <2> HIDE DEF T
  <2>3. Nat \subseteq T
    BY <2>1, <2>2, NumbersInduction
  <2> QED
    BY <2>0, <2>3 DEF T
<1> QED
  BY <1>1, <1>2, <1>3

\* The file is a beginning of what was captured.
FileOK ==
    /\ traffic \in Traffics
    /\ file \in Seq(TokenKinds)
    /\ cut <= Before(Len(traffic))
    /\ \A r \in 1..Len(traffic) : \A k \in 1..Len(Tokens(traffic[r])) :
          Before(r - 1) + k <= cut => file[Before(r - 1) + k] = Tokens(traffic[r])[k]

\* Wherever it is cut off.
LEMMA FileStarted == CaptureInit => FileOK
<1> SUFFICES ASSUME CaptureInit PROVE FileOK
  OBVIOUS
<1>1. traffic \in Traffics
  BY DEF CaptureInit
<1> DEFINE all == FlattenSeq(TokenLists)
           n == Len(traffic)
<1>2. all \in Seq(TokenKinds) /\ Before(n) = Len(all) /\ n \in Nat
  <2>1. n \in 0..n /\ n \in Nat /\ n = Len(TokenLists)
    BY <1>1, TokenListsFacts
  <2>2. Before(n) = Len(FlattenTo(TokenLists, n)) /\ FlattenTo(TokenLists, n) = all
    BY <1>1, <2>1, TokenListsFacts, FlattenEnds
  <2>3. all \in Seq(TokenKinds)
    BY <1>1, <2>1, <2>2, TokenListsFacts, FlattenPrefix
  <2> QED
    BY <2>1, <2>2, <2>3
<1>3. PICK length \in 0..Len(all) : file = SubSeq(all, 1, length)
  BY <1>1, TokenListsFacts DEF CaptureInit
<1> HIDE DEF all
<1>4. file \in Seq(TokenKinds) /\ cut = length /\ \A i \in 1..length : file[i] = all[i]
  BY <1>2, <1>3 DEF cut
<1>5. ASSUME NEW r \in 1..n, NEW k \in 1..Len(Tokens(traffic[r])), Before(r - 1) + k <= cut
      PROVE  file[Before(r - 1) + k] = Tokens(traffic[r])[k]
  <2>1. r \in 1..Len(TokenLists) /\ r - 1 \in 0..n /\ TokenLists[r] = Tokens(traffic[r])
        /\ Before(r - 1) = Len(FlattenTo(TokenLists, r - 1)) /\ TokenLists \in Seq(Seq(TokenKinds))
    BY <1>1, <1>2, TokenListsFacts
  <2>2. all[Before(r - 1) + k] = Tokens(traffic[r])[k] /\ Before(r - 1) \in Nat
    <3>1. /\ Len(FlattenTo(TokenLists, r - 1)) \in Nat
          /\ \A i \in 1..Len(TokenLists[r]) : all[Len(FlattenTo(TokenLists, r - 1)) + i] = TokenLists[r][i]
      BY <2>1, FlattenAt DEF all
    <3> QED
      BY <2>1, <3>1
  <2>3. Before(r - 1) + k \in 1..length
    BY <1>4, <1>5, <2>2
  <2> QED
    BY <1>4, <2>2, <2>3
<1>6. cut <= Before(n)
  BY <1>2, <1>3, <1>4
<1> QED
  BY <1>1, <1>4, <1>5, <1>6 DEF FileOK

\* What the parser finds at the beginning of a request.
LEMMA LineFacts ==
    ASSUME FileOK, NEW n \in Nat, n + 1 \in 1..Len(traffic), NEW b, b = Before(n), b <= cut
    PROVE  /\ b \in Nat /\ cut \in Nat
           /\ LineEnd(b) = IF cut >= b + 4 THEN b + 4 ELSE cut
           /\ Words(b) = b + 1..(IF cut >= b + 3 THEN b + 3 ELSE cut)
           /\ ~Odd(b)
           /\ (Cardinality(Words(b)) >= 3) <=> cut >= b + 3
<1> DEFINE one == traffic[n + 1]
           t == Tokens(one)
<1>1. b \in Nat /\ cut \in Nat
  <2>1. (n + 1) - 1 = n /\ Before((n + 1) - 1) \in Nat
    BY BeforeFacts DEF FileOK
  <2> QED
    BY <2>1 DEF FileOK, cut
<1>2. \A k \in 1..7 : b + k <= cut => file[b + k] = t[k]
  <2> SUFFICES ASSUME NEW k \in 1..7, b + k <= cut PROVE file[b + k] = t[k]
    OBVIOUS
  <2>1. k \in 1..Len(t)
    <3>1. Len(t) \in Nat /\ Len(t) >= 7
      BY TokensFacts
    <3> QED
      BY <3>1
  <2>2. (n + 1) - 1 = n
    OBVIOUS
  <2> HIDE DEF t
  <2>3. Before((n + 1) - 1) + k <= cut => file[Before((n + 1) - 1) + k] = Tokens(traffic[n + 1])[k]
    BY <2>1 DEF FileOK, t
  <2> QED
    BY <2>2, <2>3 DEF t
<1>3. t[1] = "word" /\ t[2] = "word" /\ t[3] = "word" /\ t[4] = "end"
  BY TokensFacts
<1> HIDE DEF one, t
<1>4. \A j \in b + 1..cut : j <= b + 3 => file[j] = "word"
  <2> SUFFICES ASSUME NEW j \in b + 1..cut, j <= b + 3 PROVE file[j] = "word"
    OBVIOUS
  <2>1. PICK k \in 1..3 : j = b + k
    <3>1. j - b \in 1..3 /\ j = b + (j - b)
      BY <1>1
    <3> QED
      BY <3>1
  <2>2. k \in 1..7 /\ b + k <= cut
    BY <1>1, <2>1
  <2>3. file[b + k] = t[k]
    BY <1>2, <2>2
  <2>4. k = 1 \/ k = 2 \/ k = 3
    OBVIOUS
  <2> QED
    BY <1>3, <2>1, <2>3, <2>4
<1>5. cut >= b + 4 => file[b + 4] = "end"
  BY <1>1, <1>2, <1>3
<1> DEFINE ends == {cut} \cup {j \in b + 1..cut : file[j] = "end"}
<1>6. LineEnd(b) \in ends /\ \A j \in ends : LineEnd(b) <= j
  <2>1. CASE cut = 0
    <3>1. ends = {0} /\ b = 0
      BY <1>1, <2>1
    <3>2. Min({0}) = 0
      BY DEF Min
    <3> QED
      BY <2>1, <3>1, <3>2 DEF LineEnd
  <2>2. CASE cut # 0
    <3>1. ends \in SUBSET (1..cut) /\ ends # {}
      BY <1>1, <2>2
    <3> HIDE DEF ends
    <3>2. Min(ends) \in ends /\ \A j \in ends : Min(ends) <= j
      BY <1>1, <3>1, FirstPlace
    <3> QED
      BY <3>2 DEF LineEnd, ends
  <2> QED
    BY <2>1, <2>2
<1>7. LineEnd(b) = IF cut >= b + 4 THEN b + 4 ELSE cut
  <2>1. CASE cut >= b + 4
    <3>1. b + 4 \in ends
      BY <1>1, <1>5, <2>1
    <3>2. LineEnd(b) <= b + 4
      BY <1>6, <3>1
    <3>3. \A j \in ends : j >= b + 4
      BY <1>1, <1>4, <2>1
    <3>4. LineEnd(b) \in Int
      BY <1>1, <1>6
    <3> QED
      BY <1>1, <1>6, <2>1, <3>2, <3>3, <3>4
  <2>2. CASE ~(cut >= b + 4)
    <3>1. \A j \in b + 1..cut : file[j] # "end"
      <4> TAKE j \in b + 1..cut
      <4>1. j <= b + 3
        BY <1>1, <2>2
      <4> QED
        BY <1>4, <4>1
    <3>2. ends = {cut}
      BY <3>1
    <3> QED
      BY <1>6, <2>2, <3>2
  <2> QED
    BY <2>1, <2>2
<1> HIDE DEF ends
<1> DEFINE last == IF cut >= b + 3 THEN b + 3 ELSE cut
<1>8. Words(b) = b + 1..last
  <2>1. \A j \in b + 1..last : j \in b + 1..LineEnd(b) /\ file[j] # "end"
    <3> TAKE j \in b + 1..last
    <3>1. j \in b + 1..cut /\ j <= b + 3
      BY <1>1
    <3> QED
      BY <1>1, <1>4, <1>7, <3>1
  <2>2. \A j \in b + 1..LineEnd(b) : file[j] # "end" => j \in b + 1..last
    <3> SUFFICES ASSUME NEW j \in b + 1..LineEnd(b), file[j] # "end" PROVE j \in b + 1..last
      OBVIOUS
    <3>1. CASE cut >= b + 4
      <4>1. j # b + 4
        BY <1>5, <3>1
      <4> QED
        BY <1>1, <1>7, <3>1, <4>1
    <3>2. CASE ~(cut >= b + 4)
      BY <1>1, <1>7, <3>2
    <3> QED
      BY <3>1, <3>2
  <2> QED
    BY <2>1, <2>2 DEF Words
<1>9. ~Odd(b)
  <2>1. \A j \in b + 1..last : file[j] = "word"
    BY <1>1, <1>4
  <2> QED
    BY <1>8, <2>1 DEF Odd
<1>10. (Cardinality(Words(b)) >= 3) <=> cut >= b + 3
  <2>1. b + 1 \in Int /\ last \in Int
    BY <1>1
  <2> HIDE DEF last
  <2>2. Cardinality(b + 1..last) = IF b + 1 > last THEN 0 ELSE last - (b + 1) + 1
    BY <2>1, FS_Interval
  <2> QED
    BY <1>1, <1>8, <2>1, <2>2 DEF last
<1> QED
  BY <1>1, <1>7, <1>8, <1>9, <1>10

\* Its headers end at the eighth token, or the seventh of a request without a length.
HeadersOf(one) == IF one.kind = "write" THEN 8 ELSE 7

\* The empty line the parser looks for is that of the request it is at.
LEMMA BlankFacts ==
    ASSUME FileOK, NEW n \in Nat, n + 1 \in 1..Len(traffic), NEW b, b = Before(n), b <= cut,
           NEW e, e = HeadersOf(traffic[n + 1])
    PROVE  /\ e \in {7, 8} /\ b + e <= Before(n + 1) /\ Before(n + 1) \in Nat
           /\ Blank(b) = IF cut >= b + e THEN b + e ELSE cut + 1
           /\ traffic[n + 1].kind = "write" =>
                 /\ Before(n + 1) = b + 10
                 /\ cut >= b + 8 => Length(b) = 2
                 /\ cut \in Headers(b) /\ file[cut] = "Content-Length:" => cut = b + 5
           /\ traffic[n + 1].kind # "write" => (cut >= b + 7 => Length(b) = 0)
<1> DEFINE one == traffic[n + 1]
           t == Tokens(one)
<1>1. b \in Nat /\ cut \in Nat
  BY LineFacts
<1>4. e = IF one.kind = "write" THEN 8 ELSE 7
  BY DEF HeadersOf
<1>2. /\ \A k \in 1..e : b + k <= cut => file[b + k] = t[k]
      /\ b + e <= Before(n + 1) /\ Before(n + 1) \in Nat
      /\ one.kind = "write" => Before(n + 1) = b + 10
  <2>1. Before(n + 1) = b + Len(t) /\ Before(n + 1) \in Nat
    <3>1. (n + 1) - 1 = n /\ Before(n + 1) = Before((n + 1) - 1) + Len(Tokens(traffic[n + 1]))
          /\ Before(n + 1) \in Nat
      BY BeforeFacts DEF FileOK
    <3> QED
      BY <3>1
  <2>2. Len(t) \in Nat /\ Len(t) >= e /\ (one.kind = "write" => Len(t) = 10)
    <3>1. Len(t) \in Nat /\ Len(t) >= 7 /\ (one.kind = "write" => Len(t) = 10)
      BY TokensFacts
    <3> HIDE DEF t, one
    <3>2. CASE one.kind = "write"
      <4>1. e = 8
        BY <1>4, <3>2
      <4>2. Len(t) = 10
        BY <3>1, <3>2
      <4>3. 10 \in Nat /\ 10 >= 8
        OBVIOUS
      <4> QED
        BY <4>1, <4>2, <4>3, Zenon
    <3>3. CASE one.kind # "write"
      <4>1. e = 7
        BY <1>4, <3>3
      <4> QED
        BY <3>1, <3>3, <4>1
    <3> QED
      BY <3>2, <3>3
  <2>3. ASSUME NEW k \in 1..e, b + k <= cut PROVE file[b + k] = t[k]
    <3>1. k \in 1..Len(t) /\ (n + 1) - 1 = n
      BY <1>4, <2>2
    <3> HIDE DEF t
    <3>2. Before((n + 1) - 1) + k <= cut => file[Before((n + 1) - 1) + k] = Tokens(traffic[n + 1])[k]
      BY <3>1 DEF FileOK, t
    <3> QED
      BY <2>3, <3>1, <3>2 DEF t
  <2> HIDE DEF t, one
  <2>4. e \in Nat
    BY <1>4
  <2>5. b + e <= Before(n + 1)
    BY <1>1, <2>1, <2>2, <2>4
  <2>6. one.kind = "write" => Before(n + 1) = b + 10
    BY <2>1, <2>2
  <2> QED
    BY <2>1, <2>3, <2>5, <2>6
<1>3. /\ t[1] = "word" /\ t[2] = "word" /\ t[3] = "word" /\ t[4] = "end" /\ t[7] = "end"
      /\ one.kind = "write" => t[5] = "Content-Length:" /\ t[6] = "digits" /\ t[8] = "end"
      /\ one.kind # "write" => t[5] = "word" /\ t[6] = "end"
  BY TokensFacts
<1> HIDE DEF one, t
\* Two ends in a row are at its end only.
<1>5. \A k \in 2..e : t[k] = "end" /\ t[k - 1] = "end" <=> k = e
  <2> TAKE k \in 2..e
  <2>1. k \in {2, 3, 4, 5, 6, 7, 8} /\ (k = 8 => one.kind = "write")
    BY <1>4
  <2>2. CASE k = 2
    BY <1>3, <1>4, <2>2
  <2>3. CASE k = 3
    BY <1>3, <1>4, <2>3
  <2>4. CASE k = 4
    BY <1>3, <1>4, <2>4
  <2>5. CASE k = 5
    BY <1>3, <1>4, <2>5
  <2>6. CASE k = 6
    BY <1>3, <1>4, <2>6
  <2>7. CASE k = 7
    BY <1>3, <1>4, <2>7
  <2>8. CASE k = 8
    BY <1>3, <1>4, <2>1, <2>8
  <2> QED
    BY <2>1, <2>2, <2>3, <2>4, <2>5, <2>6, <2>7, <2>8
<1>6. \A j \in b + 1..cut : j <= b + e => ((file[j] = "end" /\ file[j - 1] = "end") <=> j = b + e)
  <2> SUFFICES ASSUME NEW j \in b + 1..cut, j <= b + e
               PROVE  (file[j] = "end" /\ file[j - 1] = "end") <=> j = b + e
    OBVIOUS
  <2>1. PICK k \in 1..e : j = b + k
    <3>1. j - b \in 1..e /\ j = b + (j - b)
      BY <1>1, <1>4
    <3> QED
      BY <3>1
  <2>2. file[j] = t[k]
    BY <1>2, <2>1
  <2>3. CASE k = 1
    BY <1>1, <1>3, <1>4, <2>1, <2>2, <2>3
  <2>4. CASE k # 1
    <3>0. e \in Nat /\ b \in Nat /\ cut \in Nat /\ b + k <= cut
      BY <1>1, <1>4, <2>1
    <3>1. k - 1 \in 1..e /\ k \in 2..e /\ j - 1 = b + (k - 1) /\ b + (k - 1) <= cut
      <4> HIDE DEF t, one
      <4>1. k \in Nat /\ 1 <= k /\ k <= e
        BY <2>1, <3>0
      <4>2. k - 1 \in Nat /\ 1 <= k - 1 /\ k - 1 <= e /\ 2 <= k
        BY <2>4, <3>0, <4>1
      <4>3. k - 1 \in 1..e /\ k \in 2..e
        BY <3>0, <4>1, <4>2
      <4>4. (b + k) - 1 = b + (k - 1)
        BY <3>0, <4>1
      <4>5. b + (k - 1) <= cut
        BY <3>0, <4>1
      <4>6. j - 1 = (b + k) - 1
        BY <2>1, Zenon
      <4> QED
        BY <4>3, <4>4, <4>5, <4>6, Zenon
    <3>2. file[j - 1] = t[k - 1]
      BY <1>2, <3>1
    <3>3. (t[k] = "end" /\ t[k - 1] = "end") <=> k = e
      BY <1>5, <3>1
    <3>4. k = e <=> j = b + e
      BY <1>1, <1>4, <2>1
    <3> QED
      BY <2>2, <3>2, <3>3, <3>4
  <2> QED
    BY <2>3, <2>4
<1> DEFINE blanks == {cut + 1} \cup {j \in b + 1..cut : file[j] = "end" /\ file[j - 1] = "end"}
<1>7. Blank(b) \in blanks /\ \A j \in blanks : Blank(b) <= j
  <2>1. blanks \in SUBSET (1..(cut + 1)) /\ blanks # {} /\ cut + 1 \in Nat
    BY <1>1
  <2> HIDE DEF blanks
  <2>2. Min(blanks) \in blanks /\ \A j \in blanks : Min(blanks) <= j
    BY <2>1, FirstPlace
  <2> QED
    BY <2>2 DEF Blank, blanks
<1>8. Blank(b) = IF cut >= b + e THEN b + e ELSE cut + 1
  <2>1. CASE cut >= b + e
    <3>1. b + e \in blanks
      <4>1. b + e \in b + 1..cut
        BY <1>1, <1>4, <2>1
      <4> QED
        BY <1>1, <1>6, <4>1
    <3>2. \A j \in blanks : j >= b + e
      BY <1>1, <1>4, <1>6, <2>1
    <3>3. blanks \subseteq Int
      BY <1>1
    <3> HIDE DEF blanks
    <3>4. Blank(b) <= b + e /\ Blank(b) >= b + e /\ Blank(b) \in Int
      BY <1>7, <3>1, <3>2, <3>3
    <3> QED
      BY <1>1, <1>4, <2>1, <3>4
  <2>2. CASE ~(cut >= b + e)
    <3>1. \A j \in b + 1..cut : ~(file[j] = "end" /\ file[j - 1] = "end")
      <4> TAKE j \in b + 1..cut
      <4>1. j <= b + e /\ j # b + e
        BY <1>1, <1>4, <2>2
      <4> QED
        BY <1>6, <4>1
    <3>2. blanks = {cut + 1}
      BY <3>1
    <3> QED
      BY <1>7, <2>2, <3>2
  <2> QED
    BY <2>1, <2>2
<1> HIDE DEF blanks
<1>9. LineEnd(b) = IF cut >= b + 4 THEN b + 4 ELSE cut
  BY LineFacts
<1>10. ASSUME one.kind = "write"
       PROVE  /\ cut >= b + 8 => Length(b) = 2
              /\ cut \in Headers(b) /\ file[cut] = "Content-Length:" => cut = b + 5
  <2>1. ASSUME cut >= b + 8 PROVE Length(b) = 2
    <3>1. b + 6 \in Headers(b)
      BY <1>1, <1>4, <1>8, <1>9, <1>10, <2>1 DEF Headers
    <3>2. file[b + 6] = "digits"
      <4>1. 6 \in 1..e /\ b + 6 <= cut
        BY <1>1, <1>4, <1>10, <2>1
      <4> QED
        BY <1>2, <1>3, <1>10, <4>1
    <3> QED
      BY <3>1, <3>2 DEF Length, BodySize
  <2>2. ASSUME cut \in Headers(b), file[cut] = "Content-Length:" PROVE cut = b + 5
    <3>1. b + 1 <= cut /\ cut <= Blank(b) - 1
      BY <1>1, <1>9, <2>2 DEF Headers
    <3>2. cut <= b + 8
      BY <1>1, <1>4, <1>8, <1>10, <3>1
    <3>3. PICK k \in 1..8 : cut = b + k
      <4> DEFINE k == cut - b
      <4>1. k \in 1..8 /\ cut = b + k
        BY <1>1, <3>1, <3>2, SMTT(30)
      <4> HIDE DEF k
      <4> QED
        BY <4>1
    <3>4. file[cut] = t[k]
      <4>1. k \in 1..e /\ b + k <= cut
        BY <1>1, <1>4, <1>10, <3>3
      <4> QED
        BY <1>2, <3>3, <4>1
    <3>5. k = 5
      <4>1. k \in {1, 2, 3, 4, 5, 6, 7, 8}
        OBVIOUS
      <4>2. t[k] = "Content-Length:"
        BY <2>2, <3>4
      <4> QED
        BY <1>3, <1>10, <4>1, <4>2
    <3> QED
      BY <3>3, <3>5
  <2> QED
    BY <2>1, <2>2
<1>11. ASSUME one.kind # "write", cut >= b + 7
       PROVE  Length(b) = 0
  <2>1. \A j \in Headers(b) : file[j] # "digits"
    <3> TAKE j \in Headers(b)
    <3>1. j \in b + 5..b + 6
      BY <1>1, <1>4, <1>8, <1>9, <1>11 DEF Headers
    <3>2. PICK k \in 5..6 : j = b + k
      <4>1. j - b \in 5..6 /\ j = b + (j - b)
        BY <1>1, <3>1
      <4> QED
        BY <4>1
    <3>3. file[j] = t[k]
      <4>1. k \in 1..e /\ b + k <= cut
        BY <1>1, <1>4, <1>11
      <4> QED
        BY <1>2, <3>2, <4>1
    <3>4. k = 5 \/ k = 6
      OBVIOUS
    <3> QED
      BY <1>3, <1>11, <3>3, <3>4
  <2> QED
    BY <2>1 DEF Length
<1>12. e \in {7, 8}
  BY <1>4
<1> QED
  BY <1>2, <1>8, <1>10, <1>11, <1>12 DEF one

-----------------------------------------------------------------------------
(* Captured traffic: the parser.                                             *)

\* The first n requests are remote writes with a length.
Leads(n) == \A j \in 1..n : j \in DOMAIN traffic /\ traffic[j].kind = "write"

\* The types of the variables.
CaptureTypes ==
    /\ FileOK
    /\ passed \in 0..cut
    /\ requests \in Seq(SUBSET Int)
    /\ decoded \in 0..Len(requests)
    /\ capturePc \in {"parsing", "decoding", "counting", "done", "failed"}

\* As long as all are remote writes the parser is between two requests and has their
\* bodies; the first that is none leaves an empty body.
ParserInv ==
    /\ \A n \in Nat : n = Len(requests) /\ Leads(n) => passed = Before(n)
    /\ \A k \in 1..Len(requests) : Leads(k - 1) =>
          /\ k \in DOMAIN traffic
          /\ Before(k - 1) < cut
          /\ traffic[k].kind = "write" => Before(k) <= cut /\ requests[k] = BodyOf(k)
          /\ traffic[k].kind # "write" => requests[k] = {}
    /\ capturePc \in {"decoding", "counting", "done"} =>
          \A n \in Nat : n = Len(requests) /\ Leads(n) =>
              \A r \in DOMAIN traffic : Before(r) <= cut => r <= n

\* What a failure says of the file.
Excused ==
    \/ \E r \in DOMAIN traffic : Before(r - 1) < cut /\ traffic[r].kind # "write"
    \/ <<>> \in SeriesIn(Whole)
    \/ cut - Before(Cardinality(Whole)) \in {1, 2, 5}

\* A command that failed has one.
FailedInv == capturePc = "failed" => Excused

\* Neither the traffic nor the file changes.
LEMMA FileStays ==
    ASSUME UNCHANGED <<traffic, file>>
    PROVE  /\ cut' = cut
           /\ \A r : Before(r)' = Before(r) /\ BodyOf(r)' = BodyOf(r)
           /\ \A n : Leads(n)' = Leads(n)
           /\ \A rs : SeriesIn(rs)' = SeriesIn(rs)
           /\ Whole' = Whole
           /\ FileOK => FileOK'
           /\ Excused => Excused'
<1>1. cut' = cut
  BY DEF cut
<1>2. \A r : Before(r)' = Before(r)
  BY DEF Before
<1>3. \A r : BodyOf(r)' = BodyOf(r)
  BY <1>2 DEF BodyOf
<1>4. \A n : Leads(n)' = Leads(n)
  BY DEF Leads
<1>5. \A rs : SeriesIn(rs)' = SeriesIn(rs)
  BY DEF SeriesIn
<1>6. Whole' = Whole
  BY <1>1, <1>2 DEF Whole
<1>7. FileOK => FileOK'
  BY <1>1, <1>2 DEF FileOK
<1>8. Excused => Excused'
  BY <1>1, <1>2, <1>5, <1>6 DEF Excused
<1> QED
  BY <1>1, <1>2, <1>3, <1>4, <1>5, <1>6, <1>7, <1>8

\* Before anything is read.
LEMMA ParserStarted == CaptureInit => CaptureTypes /\ ParserInv /\ FailedInv
<1> SUFFICES ASSUME CaptureInit PROVE CaptureTypes /\ ParserInv /\ FailedInv
  OBVIOUS
<1>1. FileOK
  BY FileStarted
<1>2. Len(requests) = 0 /\ requests \in Seq(SUBSET Int) /\ passed = 0 /\ decoded = 0 /\ capturePc = "parsing"
  BY DEF CaptureInit
<1>3. cut \in Nat /\ Before(0) = 0
  BY <1>1, BeforeFacts DEF FileOK, cut
<1> QED
  BY <1>1, <1>2, <1>3 DEF CaptureTypes, ParserInv, FailedInv

\* The places are numbers, whatever the parser is at.
LEMMA BlankType ==
    ASSUME cut \in Nat, passed \in 0..cut
    PROVE  Blank(passed) \in 1..(cut + 1) /\ Length(passed) \in {0, 2}
<1> DEFINE blanks == {cut + 1} \cup {j \in passed + 1..cut : file[j] = "end" /\ file[j - 1] = "end"}
<1>1. blanks \in SUBSET (1..(cut + 1)) /\ blanks # {} /\ cut + 1 \in Nat
  OBVIOUS
<1> HIDE DEF blanks
<1>2. Min(blanks) \in blanks
  BY <1>1, FirstPlace
<1>3. Blank(passed) \in 1..(cut + 1)
  BY <1>1, <1>2 DEF Blank, blanks
<1> QED
  BY <1>3 DEF Length, BodySize

\* If it is at a request, that is the next of the traffic.
LEMMA NextFacts ==
    ASSUME CaptureTypes, ParserInv, NEW n \in Nat, n = Len(requests), Leads(n)
    PROVE  /\ n <= Len(traffic) /\ passed = Before(n)
           /\ passed \in Nat /\ cut \in Nat /\ passed <= cut
           /\ passed < cut => n + 1 \in 1..Len(traffic)
<1>1. n \in Nat /\ cut \in Nat /\ passed \in Nat /\ passed <= cut /\ cut <= Before(Len(traffic))
  BY DEF CaptureTypes, FileOK, cut
<1>2. DOMAIN traffic = 1..Len(traffic) /\ Len(traffic) \in Nat
  BY TokenListsFacts DEF CaptureTypes, FileOK
<1>3. passed = Before(n)
  BY DEF ParserInv
<1>4. n <= Len(traffic)
  <2>1. CASE n = 0
    BY <1>2, <2>1
  <2>2. CASE n # 0
    <3>1. n \in 1..n
      BY <1>1, <2>2
    <3>2. n \in DOMAIN traffic
      BY <3>1 DEF Leads
    <3> QED
      BY <1>2, <3>2
  <2> QED
    BY <2>1, <2>2
<1>5. passed < cut => n # Len(traffic)
  BY <1>1, <1>3
<1>6. ASSUME passed < cut PROVE n + 1 \in 1..Len(traffic)
  <2> DEFINE l == Len(traffic)
  <2>0. n # l /\ n <= l /\ l \in Nat
    BY <1>2, <1>4, <1>5, <1>6
  <2> HIDE DEF l
  <2>1. n + 1 \in 1..l
    BY <2>0
  <2> QED
    BY <2>1 DEF l
<1> QED
  BY <1>1, <1>3, <1>4, <1>6

\* A request more; if all before it were remote writes, it is the next of the traffic.
LEMMA RequestRead ==
    ASSUME CaptureTypes, ParserInv, FailedInv, ReadRequest
    PROVE  CaptureTypes' /\ ParserInv' /\ FailedInv'
<1>0. PICK n \in Nat : n = Len(requests)
  BY DEF CaptureTypes
<1> DEFINE range == Blank(passed) + 1..Blank(passed) + Length(passed)
<1>1. /\ traffic' = traffic /\ file' = file /\ capturePc' = "parsing" /\ decoded' = decoded
      /\ requests' = Append(requests, range) /\ passed' = Blank(passed) + Length(passed)
      /\ passed < cut /\ Blank(passed) + Length(passed) <= cut
  BY DEF ReadRequest
<1>2. /\ n \in Nat /\ cut \in Nat /\ passed \in 0..cut /\ Blank(passed) \in 1..(cut + 1)
      /\ Length(passed) \in {0, 2}
  <2>1. n \in Nat /\ cut \in Nat /\ passed \in 0..cut
    BY <1>0 DEF CaptureTypes, FileOK, cut
  <2> QED
    BY <2>1, BlankType
<1>3. /\ requests' \in Seq(SUBSET Int) /\ Len(requests') = n + 1 /\ requests'[n + 1] = range
      /\ \A k \in 1..n : requests'[k] = requests[k]
  <2>1. range \in SUBSET Int
    BY <1>2
  <2> HIDE DEF range
  <2> QED
    BY <1>0, <1>1, <2>1 DEF CaptureTypes
<1>4. CaptureTypes'
  <2>1. FileOK' /\ cut' = cut
    BY <1>1, FileStays DEF CaptureTypes
  <2>2. passed' \in 0..cut
    BY <1>1, <1>2
  <2>3. decoded' \in 0..Len(requests')
    BY <1>0, <1>1, <1>2, <1>3 DEF CaptureTypes
  <2> QED
    BY <1>1, <1>3, <2>1, <2>2, <2>3 DEF CaptureTypes
<1>5. ASSUME Leads(n)
      PROVE  /\ n + 1 \in DOMAIN traffic
             /\ Before(n) < cut
             /\ traffic[n + 1].kind = "write" =>
                   Before(n + 1) <= cut /\ range = BodyOf(n + 1) /\ passed' = Before(n + 1)
             /\ traffic[n + 1].kind # "write" => range = {}
  <2>1. n + 1 \in 1..Len(traffic) /\ passed = Before(n) /\ passed <= cut
    BY <1>0, <1>1, <1>5, NextFacts
  <2>2. n + 1 \in DOMAIN traffic
    BY <2>1, TokenListsFacts DEF CaptureTypes, FileOK
  <2> DEFINE e == HeadersOf(traffic[n + 1])
             b == passed
  <2>3. /\ e \in {7, 8}
        /\ Blank(b) = IF cut >= b + e THEN b + e ELSE cut + 1
        /\ traffic[n + 1].kind = "write" =>
              /\ Before(n + 1) = b + 10
              /\ cut >= b + 8 => Length(b) = 2
        /\ traffic[n + 1].kind # "write" => (cut >= b + 7 => Length(b) = 0)
    BY <2>1, <1>2, BlankFacts DEF CaptureTypes
  <2>4. e = IF traffic[n + 1].kind = "write" THEN 8 ELSE 7
    BY DEF HeadersOf
  <2> HIDE DEF e
  <2>5. cut >= b + e /\ Blank(b) = b + e
    BY <1>1, <1>2, <2>3
  <2>6. ASSUME traffic[n + 1].kind = "write"
        PROVE  Before(n + 1) <= cut /\ range = BodyOf(n + 1) /\ passed' = Before(n + 1)
    <3>1. e = 8
      BY <2>4, <2>6
    <3>2. Length(b) = 2 /\ Blank(b) = b + 8 /\ Before(n + 1) = b + 10
      BY <2>3, <2>5, <2>6, <3>1
    <3>3. range = b + 9..b + 10
      BY <1>2, <3>2
    <3>4. BodyOf(n + 1) = b + 9..b + 10
      BY <1>2, <3>2 DEF BodyOf, BodySize
    <3> QED
      BY <1>1, <1>2, <3>2, <3>3, <3>4
  <2>7. ASSUME traffic[n + 1].kind # "write"
        PROVE  range = {}
    <3>1. e = 7
      BY <2>4, <2>7
    <3>2. Length(b) = 0
      BY <2>3, <2>5, <2>7, <3>1
    <3> QED
      BY <1>2, <3>2
  <2> QED
    BY <1>1, <2>1, <2>2, <2>6, <2>7
<1> HIDE DEF range
<1>6. \A m : Leads(m)' = Leads(m)
  BY <1>1, FileStays
<1>7. Leads(n + 1) => Leads(n) /\ traffic[n + 1].kind = "write"
  <2>1. n + 1 \in 1..(n + 1) /\ \A j \in 1..n : j \in 1..(n + 1)
    BY <1>2
  <2> QED
    BY <2>1 DEF Leads
<1>8. Leads(n + 1) => passed' = Before(n + 1)
  BY <1>5, <1>7
<1>9. ASSUME NEW k \in 1..(n + 1), Leads(k - 1)
      PROVE  /\ k \in DOMAIN traffic
             /\ Before(k - 1) < cut
             /\ traffic[k].kind = "write" => Before(k) <= cut /\ requests'[k] = BodyOf(k)
             /\ traffic[k].kind # "write" => requests'[k] = {}
  <2>1. CASE k = n + 1
    <3>1. k - 1 = n
      BY <1>2, <2>1
    <3>2. Leads(n)
      BY <1>9, <3>1
    <3> QED
      BY <1>3, <1>5, <2>1, <3>1, <3>2
  <2>2. CASE k # n + 1
    <3>1. k \in 1..n
      BY <1>2, <2>2
    <3> QED
      BY <1>0, <1>3, <1>9, <3>1 DEF ParserInv
  <2> QED
    BY <2>1, <2>2
<1>10. ParserInv'
  <2>1. /\ cut' = cut /\ Len(requests') = n + 1
        /\ \A r : Before(r)' = Before(r) /\ BodyOf(r)' = BodyOf(r)
    BY <1>1, <1>3, FileStays
  <2> QED
    BY <1>1, <1>6, <1>8, <1>9, <2>1, SMTT(30) DEF ParserInv
<1>11. FailedInv'
  BY <1>1 DEF FailedInv
<1> QED
  BY <1>4, <1>10, <1>11

\* A request that is whole in the file is not the end of it.
LEMMA WholeIsRead ==
    ASSUME CaptureTypes, ParserInv, NEW n \in Nat, n = Len(requests), Leads(n), Ended,
           NEW r \in DOMAIN traffic, Before(r) <= cut
    PROVE  r <= n
<1>1. /\ passed = Before(n) /\ passed \in Nat /\ cut \in Nat /\ passed <= cut
      /\ DOMAIN traffic = 1..Len(traffic) /\ Len(traffic) \in Nat
      /\ passed < cut => n + 1 \in 1..Len(traffic)
  BY NextFacts, TokenListsFacts DEF CaptureTypes, FileOK
<1> SUFFICES ASSUME n + 1 <= r PROVE FALSE
  BY <1>1
<1>2. n + 1 \in 1..Len(traffic) /\ r \in 1..Len(traffic)
  BY <1>1
<1>3. Before(n) < Before(n + 1) /\ Before(n + 1) <= Before(r)
  <2>1. /\ \A x, y \in 0..Len(traffic) : x < y => Before(x) < Before(y)
        /\ \A x \in 1..Len(traffic) : Before(x - 1) \in Nat /\ Before(x) \in Nat
    BY BeforeFacts DEF CaptureTypes, FileOK
  <2>2. n \in 0..Len(traffic) /\ n + 1 \in 0..Len(traffic) /\ r \in 0..Len(traffic) /\ n < n + 1
    BY <1>1, <1>2
  <2>3. CASE n + 1 = r
    <3>1. Before(r) \in Nat
      BY <1>2, <2>1
    <3> QED
      BY <2>1, <2>2, <2>3, <3>1
  <2>4. CASE n + 1 # r
    <3>1. n + 1 < r
      BY <1>2, <2>4
    <3>2. Before(n + 1) < Before(r) /\ Before(n + 1) \in Nat /\ Before(r) \in Nat
      BY <1>2, <2>1, <2>2, <3>1
    <3> QED
      BY <2>1, <2>2, <3>2
  <2> QED
    BY <2>3, <2>4
<1>4. Before(n + 1) \in Nat /\ Before(r) \in Nat
  <2>1. \A x \in 1..Len(traffic) : Before(x) \in Nat
    BY BeforeFacts DEF CaptureTypes, FileOK
  <2> QED
    BY <1>2, <2>1
<1>5. Before(n + 1) <= cut /\ passed < cut
  BY <1>1, <1>3, <1>4
<1> DEFINE e == HeadersOf(traffic[n + 1])
           b == passed
<1>6. /\ e \in {7, 8} /\ b + e <= Before(n + 1)
      /\ Blank(b) = IF cut >= b + e THEN b + e ELSE cut + 1
      /\ traffic[n + 1].kind = "write" =>
            /\ Before(n + 1) = b + 10
            /\ cut >= b + 8 => Length(b) = 2
      /\ traffic[n + 1].kind # "write" => (cut >= b + 7 => Length(b) = 0)
  BY <1>1, <1>2, BlankFacts DEF CaptureTypes
<1>7. e = IF traffic[n + 1].kind = "write" THEN 8 ELSE 7
  BY DEF HeadersOf
<1> HIDE DEF e
<1>8. Blank(b) = b + e /\ cut >= b + e
  BY <1>1, <1>4, <1>5, <1>6
<1>9. Blank(b) + Length(b) > cut
  BY <1>1, <1>5 DEF Ended
<1>10. CASE traffic[n + 1].kind = "write"
  <2>1. e = 8 /\ Before(n + 1) = b + 10
    BY <1>6, <1>7, <1>10
  <2>2. Length(b) = 2
    BY <1>6, <1>8, <1>10, <2>1
  <2> QED
    BY <1>1, <1>5, <1>8, <1>9, <2>1, <2>2
<1>11. CASE traffic[n + 1].kind # "write"
  <2>1. e = 7
    BY <1>7, <1>11
  <2>2. Length(b) = 0
    BY <1>6, <1>8, <1>11, <2>1
  <2> QED
    BY <1>1, <1>8, <1>9, <2>1, <2>2
<1> QED
  BY <1>10, <1>11

\* The end of the file leaves no request behind that is whole.
LEMMA ReadEnded ==
    ASSUME CaptureTypes, ParserInv, FailedInv, ReadEnds
    PROVE  CaptureTypes' /\ ParserInv' /\ FailedInv'
<1>1. /\ traffic' = traffic /\ file' = file /\ passed' = passed /\ requests' = requests /\ decoded' = decoded
      /\ capturePc' = "decoding" /\ Ended
  BY DEF ReadEnds
<1>2. FileOK' /\ cut' = cut
  BY <1>1, FileStays DEF CaptureTypes
<1>3. CaptureTypes'
  BY <1>1, <1>2 DEF CaptureTypes
<1>4. \A n \in Nat : n = Len(requests) /\ Leads(n) => \A r \in DOMAIN traffic : Before(r) <= cut => r <= n
  BY <1>1, WholeIsRead
<1>5. /\ \A r : Before(r)' = Before(r) /\ BodyOf(r)' = BodyOf(r)
      /\ \A n : Leads(n)' = Leads(n)
  BY <1>1, FileStays
<1>6. ParserInv'
  BY <1>1, <1>2, <1>4, <1>5, SMTT(30) DEF ParserInv
<1> QED
  BY <1>1, <1>3, <1>6 DEF FailedInv

\* What the parser left behind that is no remote write is an excuse for a failure.
LEMMA OtherIsExcuse ==
    ASSUME CaptureTypes, ParserInv, NEW n \in Nat, n = Len(requests), ~Leads(n)
    PROVE  Excused
<1> DEFINE Unusual == {j \in 1..n : ~(j \in DOMAIN traffic /\ traffic[j].kind = "write")}
<1>1. Unusual \in SUBSET (1..n) /\ Unusual # {}
  BY DEF Leads
<1>2. PICK j \in Unusual : \A i \in Unusual : j <= i
  <2> HIDE DEF Unusual
  <2> QED
    BY <1>1, FirstPlace
<1>3. j \in 1..n /\ j - 1 \in Nat
  OBVIOUS
<1>4. Leads(j - 1)
  <2> SUFFICES ASSUME NEW i \in 1..(j - 1) PROVE i \in DOMAIN traffic /\ traffic[i].kind = "write"
    BY DEF Leads
  <2>1. i \in 1..n /\ ~(j <= i)
    BY <1>3
  <2>2. i \notin Unusual
    BY <1>2, <2>1
  <2> QED
    BY <2>1, <2>2
<1>5. j \in DOMAIN traffic /\ Before(j - 1) < cut
  BY <1>3, <1>4 DEF ParserInv
<1>6. traffic[j].kind # "write"
  BY <1>5
<1> QED
  BY <1>5, <1>6 DEF Excused

\* The requests that are whole, if the next of the traffic is not.
LEMMA RequestsWhole ==
    ASSUME CaptureTypes, ParserInv, NEW n \in Nat, n = Len(requests), Leads(n),
           \A r \in DOMAIN traffic : Before(r) <= cut => r <= n
    PROVE  Whole = 1..n /\ Cardinality(Whole) = n
<1>1. /\ n <= Len(traffic) /\ passed = Before(n) /\ passed \in Nat /\ cut \in Nat /\ passed <= cut
      /\ DOMAIN traffic = 1..Len(traffic) /\ Len(traffic) \in Nat
  BY NextFacts, TokenListsFacts DEF CaptureTypes, FileOK
<1>2. \A r \in 1..n : r \in DOMAIN traffic /\ Before(r) <= cut
  <2> TAKE r \in 1..n
  <2>1. r \in 1..Len(traffic) /\ r \in 0..Len(traffic) /\ n \in 0..Len(traffic)
    BY <1>1
  <2>2. r = n \/ r < n
    OBVIOUS
  <2>3. /\ \A x, y \in 0..Len(traffic) : x < y => Before(x) < Before(y)
        /\ \A x \in 1..Len(traffic) : Before(x) \in Nat
    BY BeforeFacts DEF CaptureTypes, FileOK
  <2>4. Before(r) <= Before(n)
    BY <1>1, <2>1, <2>2, <2>3
  <2>5. Before(r) \in Nat
    BY <2>1, <2>3
  <2> QED
    BY <1>1, <2>1, <2>4, <2>5
<1>3. Whole = 1..n
  <2>1. \A r \in DOMAIN traffic : r \in Nat /\ r >= 1
    BY <1>1
  <2> QED
    BY <1>2, <2>1 DEF Whole
<1>4. Cardinality(1..n) = n
  <2>1. Cardinality(1..n) = IF 1 > n THEN 0 ELSE n - 1 + 1
    <3>1. 1 \in Int /\ n \in Int
      OBVIOUS
    <3> QED
      BY <3>1, FS_Interval, Zenon
  <2> QED
    BY <2>1
<1> QED
  BY <1>3, <1>4

\* A request line or a length that is cut off is an excuse.
LEMMA ReadFailed ==
    ASSUME CaptureTypes, ParserInv, FailedInv, ReadRequestFails
    PROVE  CaptureTypes' /\ ParserInv' /\ FailedInv'
<1>0. PICK n \in Nat : n = Len(requests)
  BY DEF CaptureTypes
<1>1. /\ traffic' = traffic /\ file' = file /\ passed' = passed /\ requests' = requests /\ decoded' = decoded
      /\ capturePc' = "failed" /\ Unparsable
  BY DEF ReadRequestFails
<1>2. FileOK' /\ cut' = cut
  BY <1>1, FileStays DEF CaptureTypes
<1>3. CaptureTypes'
  BY <1>1, <1>2 DEF CaptureTypes
<1>5. /\ \A r : Before(r)' = Before(r) /\ BodyOf(r)' = BodyOf(r)
      /\ \A k : Leads(k)' = Leads(k)
  BY <1>1, FileStays
<1>6. ParserInv'
  BY <1>1, <1>2, <1>5, SMTT(30) DEF ParserInv
<1>7. Excused
  <2>1. CASE ~Leads(n)
    BY <1>0, <2>1, OtherIsExcuse
  <2>2. CASE Leads(n)
    <3>1. /\ passed = Before(n) /\ passed \in Nat /\ cut \in Nat /\ passed < cut
          /\ n + 1 \in 1..Len(traffic)
          /\ DOMAIN traffic = 1..Len(traffic)
      <4>1. passed < cut
        BY <1>1 DEF Unparsable
      <4> QED
        BY <1>0, <2>2, <4>1, NextFacts, TokenListsFacts DEF CaptureTypes, FileOK
    <3>2. CASE traffic[n + 1].kind # "write"
      <4>1. (n + 1) - 1 = n
        OBVIOUS
      <4>2. n + 1 \in DOMAIN traffic /\ Before((n + 1) - 1) < cut
        BY <3>1, <4>1
      <4> QED
        BY <3>2, <4>2 DEF Excused
    <3>3. CASE traffic[n + 1].kind = "write"
      <4>1. /\ ~Odd(passed)
            /\ Cardinality(Words(passed)) >= 3 <=> cut >= passed + 3
            /\ Words(passed) = passed + 1..(IF cut >= passed + 3 THEN passed + 3 ELSE cut)
        BY <3>1, LineFacts DEF CaptureTypes
      <4>2. /\ Before(n + 1) = passed + 10
            /\ cut \in Headers(passed) /\ file[cut] = "Content-Length:" => cut = passed + 5
        BY <3>1, <3>3, BlankFacts DEF CaptureTypes
      <4>3. cut - passed \in {1, 2, 5} /\ cut < Before(n + 1)
        <5>1. CASE NoDigits
          <6>1. cut = passed + 5
            BY <4>2, <5>1 DEF NoDigits
          <6> QED
            BY <3>1, <4>2, <6>1
        <5>2. CASE Cardinality(Words(passed)) < 3
          <6>1. cut < passed + 3
            <7>1. IsFiniteSet(Words(passed))
              <8> DEFINE last == IF cut >= passed + 3 THEN passed + 3 ELSE cut
              <8>1. passed + 1 \in Int /\ last \in Int
                BY <3>1
              <8> HIDE DEF last
              <8>2. IsFiniteSet(passed + 1..last)
                BY <8>1, FS_Interval, Zenon
              <8> QED
                BY <4>1, <8>2 DEF last
            <7>2. Cardinality(Words(passed)) \in Nat
              BY <7>1, FS_CardinalityType
            <7>3. ~(Cardinality(Words(passed)) >= 3)
              BY <5>2, <7>2
            <7> QED
              BY <3>1, <4>1, <7>3
          <6> QED
            BY <3>1, <4>2, <6>1
        <5> QED
          BY <1>1, <4>1, <5>1, <5>2 DEF Unparsable
      <4>4. \A r \in DOMAIN traffic : Before(r) <= cut => r <= n
        <5> SUFFICES ASSUME NEW r \in DOMAIN traffic, Before(r) <= cut, n + 1 <= r PROVE FALSE
          BY <3>1
        <5>1. /\ \A x, y \in 0..Len(traffic) : x < y => Before(x) < Before(y)
              /\ \A x \in 1..Len(traffic) : Before(x) \in Nat
          BY BeforeFacts DEF CaptureTypes, FileOK
        <5>2. r \in 1..Len(traffic) /\ r \in 0..Len(traffic) /\ n + 1 \in 0..Len(traffic)
          BY <3>1
        <5>3. Before(n + 1) <= Before(r)
          <6>1. n + 1 = r \/ n + 1 < r
            BY <5>2
          <6>2. Before(r) \in Nat /\ Before(n + 1) \in Nat
            BY <3>1, <5>1, <5>2
          <6> QED
            BY <5>1, <5>2, <6>1, <6>2
        <5> QED
          BY <3>1, <4>2, <4>3, <5>1, <5>2, <5>3
      <4>5. Cardinality(Whole) = n
        BY <1>0, <2>2, <4>4, RequestsWhole
      <4> QED
        BY <3>1, <4>3, <4>5 DEF Excused
    <3> QED
      BY <3>2, <3>3
  <2> QED
    BY <2>1, <2>2
<1> QED
  BY <1>1, <1>3, <1>6, <1>7, FileStays DEF FailedInv

-----------------------------------------------------------------------------
(* Captured traffic: the counter.                                            *)

\* What is decoded are remote writes, in the order of the traffic.
DecodeInv ==
    /\ Leads(decoded)
    /\ capturePc = "parsing" => decoded = 0 /\ counter = {}
    /\ capturePc = "counting" => /\ decoded < Len(requests)
                                 /\ decoded + 1 \in DOMAIN traffic
                                 /\ traffic[decoded + 1].kind = "write"
                                 /\ counting \subseteq traffic[decoded + 1].series
    /\ capturePc = "done" => decoded = Len(requests)

\* The series passed to the counter.
Got == SeriesIn(1..decoded)
       \cup (IF capturePc = "counting" THEN traffic[decoded + 1].series \ counting ELSE {})

\* It has one of each String.
CountInv ==
    /\ counter \subseteq Got
    /\ \A s \in Got : \E c \in counter : String(c) = String(s)
    /\ \A c, d \in counter : String(c) = String(d) => c = d

\* The inductive invariant.
CaptureInv == CaptureTypes /\ ParserInv /\ FailedInv /\ DecodeInv /\ CountInv

\* Nothing is read or counted.
LEMMA CaptureStarted == CaptureInit => CaptureInv
<1> SUFFICES ASSUME CaptureInit PROVE CaptureInv
  OBVIOUS
<1>1. CaptureTypes /\ ParserInv /\ FailedInv
  BY ParserStarted
<1>2. decoded = 0 /\ counter = {} /\ capturePc = "parsing"
  BY DEF CaptureInit
<1>3. DecodeInv
  BY <1>2 DEF DecodeInv, Leads
<1>4. CountInv
  <2>1. SeriesIn(1..0) = {}
    BY DEF SeriesIn
  <2> QED
    BY <1>2, <2>1 DEF CountInv, Got
<1> QED
  BY <1>1, <1>3, <1>4 DEF CaptureInv

\* What the steps leave alone that only change the program counter.
LEMMA CounterStays ==
    ASSUME DecodeInv, CountInv, UNCHANGED <<traffic, decoded, counting, counter>>,
           capturePc \in {"parsing", "decoding"}, capturePc' \in {"parsing", "decoding", "done", "failed"},
           capturePc' = "parsing" => capturePc = "parsing",
           capturePc' = "done" => decoded = Len(requests'),
           capturePc' = "done" => decoded' = Len(requests')
    PROVE  DecodeInv' /\ CountInv'
<1>1. Got' = Got
  BY DEF Got, SeriesIn
<1>2. Leads(decoded)'
  BY DEF DecodeInv, Leads
<1> QED
  BY <1>1, <1>2 DEF DecodeInv, CountInv

\* The request that was parsed in its place.
LEMMA DecodedFacts ==
    ASSUME CaptureTypes, ParserInv, DecodeInv, decoded < Len(requests), NEW d \in Nat, d = decoded
    PROVE  /\ d + 1 \in DOMAIN traffic /\ Before(d) < cut
           /\ traffic[d + 1].kind = "write" => Before(d + 1) <= cut /\ NextBody = BodyOf(d + 1)
           /\ traffic[d + 1].kind # "write" => NextBody = {}
<1>1. d + 1 \in 1..Len(requests) /\ (d + 1) - 1 = d
  BY DEF CaptureTypes
<1>2. Leads(d)
  BY DEF DecodeInv
<1>3. /\ d + 1 \in DOMAIN traffic /\ Before((d + 1) - 1) < cut
      /\ traffic[d + 1].kind = "write" => Before(d + 1) <= cut /\ requests[d + 1] = BodyOf(d + 1)
      /\ traffic[d + 1].kind # "write" => requests[d + 1] = {}
  <2>1. Leads((d + 1) - 1)
    BY <1>1, <1>2
  <2> QED
    BY <1>1, <2>1 DEF ParserInv
<1> QED
  BY <1>1, <1>3 DEF NextBody

\* The body that decodes is that of the next request, because no other has its place.
LEMMA BodyDecoded ==
    ASSUME CaptureInv, DecodeBody
    PROVE  CaptureInv'
<1>0. PICK d \in Nat : d = decoded
  BY DEF CaptureInv, CaptureTypes
<1>1. /\ traffic' = traffic /\ file' = file /\ passed' = passed /\ requests' = requests
      /\ decoded' = decoded /\ counter' = counter /\ capturePc' = "counting" /\ capturePc = "decoding"
      /\ decoded < Len(requests)
  BY DEF DecodeBody
<1>2. PICK r \in DOMAIN traffic : Readable(r) /\ counting' = traffic[r].series
  BY DEF DecodeBody
<1>3. /\ d + 1 \in DOMAIN traffic
      /\ traffic[d + 1].kind = "write" => NextBody = BodyOf(d + 1)
      /\ traffic[d + 1].kind # "write" => NextBody = {}
  BY <1>0, <1>1, DecodedFacts DEF CaptureInv
<1>4. /\ \A x, y \in 0..Len(traffic) : x < y => Before(x) < Before(y)
      /\ \A x \in 1..Len(traffic) : Before(x) \in Nat
      /\ DOMAIN traffic = 1..Len(traffic) /\ Len(traffic) \in Nat
  BY BeforeFacts, TokenListsFacts DEF CaptureInv, CaptureTypes, FileOK
<1>5. \A x \in DOMAIN traffic : Before(x) \in BodyOf(x) /\ \A i \in BodyOf(x) : i <= Before(x)
  BY <1>4 DEF BodyOf, BodySize
<1>6. NextBody = BodyOf(r)
  BY <1>2 DEF Readable, IsBody
<1>7. traffic[d + 1].kind = "write"
  BY <1>3, <1>5, <1>6
<1>8. r = d + 1
  <2>1. BodyOf(r) = BodyOf(d + 1)
    BY <1>3, <1>6, <1>7
  <2>2. Before(r) <= Before(d + 1) /\ Before(d + 1) <= Before(r)
    BY <1>3, <1>5, <2>1
  <2>3. r \in 1..Len(traffic) /\ d + 1 \in 1..Len(traffic)
    BY <1>3, <1>4
  <2>4. r \in 0..Len(traffic) /\ d + 1 \in 0..Len(traffic) /\ Before(r) \in Nat /\ Before(d + 1) \in Nat
    BY <1>4, <2>3
  <2>5. ~(r < d + 1) /\ ~(d + 1 < r)
    <3>1. /\ r < d + 1 => Before(r) < Before(d + 1)
          /\ d + 1 < r => Before(d + 1) < Before(r)
      BY <1>4, <2>4
    <3> QED
      BY <2>2, <2>4, <3>1
  <2> QED
    BY <2>3, <2>5
<1>9. /\ \A x : Before(x)' = Before(x) /\ BodyOf(x)' = BodyOf(x)
      /\ \A k : Leads(k)' = Leads(k)
      /\ FileOK' /\ cut' = cut
  BY <1>1, FileStays DEF CaptureInv, CaptureTypes
<1>10. CaptureTypes' /\ FailedInv'
  BY <1>1, <1>9 DEF CaptureInv, CaptureTypes, FailedInv
<1>11. ParserInv'
  BY <1>1, <1>9, SMTT(30) DEF CaptureInv, ParserInv
<1>12. DecodeInv'
  <2>1. Leads(decoded)'
    BY <1>1 DEF CaptureInv, DecodeInv, Leads
  <2> QED
    BY <1>0, <1>1, <1>2, <1>3, <1>7, <1>8, <2>1 DEF DecodeInv
<1>13. CountInv'
  <2>1. Got' = SeriesIn(1..decoded)' \cup (traffic[d + 1].series \ counting')
    BY <1>0, <1>1 DEF Got
  <2>2. traffic[d + 1].series \ counting' = {}
    BY <1>2, <1>8
  <2>3. SeriesIn(1..decoded)' = SeriesIn(1..decoded)
    BY <1>1 DEF SeriesIn
  <2>4. Got' = Got
    BY <1>1, <2>1, <2>2, <2>3 DEF Got
  <2> QED
    BY <1>1, <2>4 DEF CaptureInv, CountInv
<1> QED
  BY <1>10, <1>11, <1>12, <1>13 DEF CaptureInv

\* What the parser's part of the invariant needs of the steps of the counter.
LEMMA ParserStays ==
    ASSUME CaptureTypes, ParserInv, UNCHANGED <<traffic, file, passed, requests>>,
           capturePc \in {"decoding", "counting"}, capturePc' \in {"decoding", "counting", "done", "failed"},
           decoded' \in 0..Len(requests), capturePc' = "failed" => Excused
    PROVE  CaptureTypes' /\ ParserInv' /\ FailedInv'
<1>1. /\ \A x : Before(x)' = Before(x) /\ BodyOf(x)' = BodyOf(x)
      /\ \A k : Leads(k)' = Leads(k)
      /\ FileOK' /\ cut' = cut /\ (Excused => Excused')
  BY FileStays DEF CaptureTypes
<1>2. CaptureTypes' /\ FailedInv'
  BY <1>1 DEF CaptureTypes, FailedInv
<1>3. ParserInv'
  BY <1>1, SMTT(30) DEF ParserInv
<1> QED
  BY <1>2, <1>3

\* A series whose String the counter has is left out.
LEMMA SeriesCounted ==
    ASSUME CaptureInv, CountSeries
    PROVE  CaptureInv'
<1>1. /\ traffic' = traffic /\ file' = file /\ passed' = passed /\ requests' = requests
      /\ decoded' = decoded /\ capturePc' = capturePc /\ capturePc = "counting"
  BY DEF CountSeries
<1>2. PICK labels \in counting :
          /\ counting' = counting \ {labels}
          /\ counter' = IF \E s \in counter : String(s) = String(labels)
                        THEN counter ELSE counter \cup {labels}
  BY DEF CountSeries
<1>3. CaptureTypes' /\ ParserInv' /\ FailedInv'
  BY <1>1, ParserStays DEF CaptureInv, CaptureTypes
<1>4. DecodeInv'
  <2>1. Leads(decoded)'
    BY <1>1 DEF CaptureInv, DecodeInv, Leads
  <2> QED
    BY <1>1, <1>2, <2>1 DEF CaptureInv, DecodeInv
<1>5. Got' = Got \cup {labels}
  <2>1. counting \subseteq traffic[decoded + 1].series
    BY <1>1 DEF CaptureInv, DecodeInv
  <2>2. SeriesIn(1..decoded)' = SeriesIn(1..decoded)
    BY <1>1 DEF SeriesIn
  <2> QED
    BY <1>1, <1>2, <2>1, <2>2 DEF Got
<1>6. CountInv'
  <2>1. CASE \E s \in counter : String(s) = String(labels)
    <3>1. counter' = counter
      BY <1>2, <2>1
    <3> QED
      BY <1>5, <2>1, <3>1 DEF CaptureInv, CountInv
  <2>2. CASE ~ \E s \in counter : String(s) = String(labels)
    <3>1. counter' = counter \cup {labels}
      BY <1>2, <2>2
    <3> QED
      BY <1>5, <2>2, <3>1 DEF CaptureInv, CountInv
  <2> QED
    BY <2>1, <2>2
<1> QED
  BY <1>3, <1>4, <1>6 DEF CaptureInv

\* All of its series are counted.
LEMMA RequestDone ==
    ASSUME CaptureInv, RequestCounted
    PROVE  CaptureInv'
<1>0. PICK d \in Nat : d = decoded
  BY DEF CaptureInv, CaptureTypes
<1>1. /\ traffic' = traffic /\ file' = file /\ passed' = passed /\ requests' = requests
      /\ decoded' = d + 1 /\ capturePc' = "decoding" /\ capturePc = "counting" /\ counting = {}
      /\ counter' = counter
  BY <1>0 DEF RequestCounted
<1>2. d < Len(requests) /\ d + 1 \in DOMAIN traffic /\ traffic[d + 1].kind = "write"
  BY <1>0, <1>1 DEF CaptureInv, DecodeInv
<1>3. CaptureTypes' /\ ParserInv' /\ FailedInv'
  <2>1. decoded' \in 0..Len(requests)
    BY <1>1, <1>2 DEF CaptureInv, CaptureTypes
  <2> QED
    BY <1>1, <2>1, ParserStays DEF CaptureInv
<1>4. \A j \in 1..(d + 1) : j \in 1..d \/ j = d + 1
  OBVIOUS
<1>5. DecodeInv'
  <2>1. \A j \in 1..(d + 1) : j \in DOMAIN traffic /\ traffic[j].kind = "write"
    BY <1>0, <1>2, <1>4 DEF CaptureInv, DecodeInv, Leads
  <2>2. Leads(decoded)'
    BY <1>1, <2>1 DEF Leads
  <2> QED
    BY <1>1, <2>2 DEF DecodeInv
<1>6. Got' = Got
  <2>1. Got = SeriesIn(1..d) \cup traffic[d + 1].series
    BY <1>0, <1>1 DEF Got
  <2>2. Got' = SeriesIn(1..decoded)'
    BY <1>1 DEF Got
  <2>3. SeriesIn(1..decoded)' = UNION {traffic[r].series : r \in 1..(d + 1)}
    BY <1>1 DEF SeriesIn
  <2>4. UNION {traffic[r].series : r \in 1..(d + 1)} = SeriesIn(1..d) \cup traffic[d + 1].series
    <3>1. d + 1 \in 1..(d + 1) /\ \A j \in 1..d : j \in 1..(d + 1)
      OBVIOUS
    <3> QED
      BY <1>4, <3>1 DEF SeriesIn
  <2> QED
    BY <2>1, <2>2, <2>3, <2>4
<1>7. CountInv'
  BY <1>1, <1>6 DEF CaptureInv, CountInv
<1> QED
  BY <1>3, <1>5, <1>7 DEF CaptureInv

\* A body that does not decode is that of another request, or has an empty series.
LEMMA CountFailed ==
    ASSUME CaptureInv, CountFails
    PROVE  CaptureInv'
<1>0. PICK d \in Nat : d = decoded
  BY DEF CaptureInv, CaptureTypes
<1>1. /\ traffic' = traffic /\ file' = file /\ passed' = passed /\ requests' = requests
      /\ decoded' = decoded /\ capturePc' = "failed" /\ capturePc = "decoding"
      /\ counting' = counting /\ counter' = counter
      /\ decoded < Len(requests) /\ \A r \in DOMAIN traffic : ~Readable(r)
  BY DEF CountFails
<1>2. /\ d + 1 \in DOMAIN traffic /\ Before(d) < cut
      /\ traffic[d + 1].kind = "write" => Before(d + 1) <= cut /\ NextBody = BodyOf(d + 1)
  BY <1>0, <1>1, DecodedFacts DEF CaptureInv
<1>3. Excused
  <2>1. CASE traffic[d + 1].kind # "write"
    <3>1. (d + 1) - 1 = d
      OBVIOUS
    <3>2. Before((d + 1) - 1) < cut
      BY <1>2, <3>1
    <3> QED
      BY <1>2, <2>1, <3>2 DEF Excused
  <2>2. CASE traffic[d + 1].kind = "write"
    <3>1. ~Readable(d + 1)
      BY <1>1, <1>2
    <3>2. <<>> \in traffic[d + 1].series
      BY <1>2, <2>2, <3>1 DEF Readable, IsBody
    <3>3. d + 1 \in Whole
      BY <1>2, <2>2 DEF Whole
    <3>4. <<>> \in SeriesIn(Whole)
      BY <3>2, <3>3 DEF SeriesIn
    <3> QED
      BY <3>4 DEF Excused
  <2> QED
    BY <2>1, <2>2
<1>4. CaptureTypes' /\ ParserInv' /\ FailedInv'
  BY <1>1, <1>3, ParserStays DEF CaptureInv, CaptureTypes
<1>5. DecodeInv' /\ CountInv'
  BY <1>1, CounterStays DEF CaptureInv
<1> QED
  BY <1>4, <1>5 DEF CaptureInv

\* All requests are counted.
LEMMA CountEnded ==
    ASSUME CaptureInv, CountEnds
    PROVE  CaptureInv'
<1>1. /\ traffic' = traffic /\ file' = file /\ passed' = passed /\ requests' = requests
      /\ decoded' = decoded /\ capturePc' = "done" /\ capturePc = "decoding"
      /\ counting' = counting /\ counter' = counter
      /\ decoded = Len(requests)
  BY DEF CountEnds
<1>2. CaptureTypes' /\ ParserInv' /\ FailedInv'
  BY <1>1, ParserStays DEF CaptureInv, CaptureTypes
<1>3. DecodeInv' /\ CountInv'
  BY <1>1, CounterStays DEF CaptureInv
<1> QED
  BY <1>2, <1>3 DEF CaptureInv

\* Every step keeps the invariant.
LEMMA CaptureStep == CaptureInv /\ [CaptureNext]_captureVars => CaptureInv'
<1> SUFFICES ASSUME CaptureInv, [CaptureNext]_captureVars PROVE CaptureInv'
  OBVIOUS
<1>1. CASE ReadRequest
  <2>1. CaptureTypes' /\ ParserInv' /\ FailedInv'
    BY <1>1, RequestRead DEF CaptureInv
  <2>2. DecodeInv' /\ CountInv'
    BY <1>1, CounterStays DEF CaptureInv, ReadRequest
  <2> QED
    BY <2>1, <2>2 DEF CaptureInv
<1>2. CASE ReadEnds
  <2>1. CaptureTypes' /\ ParserInv' /\ FailedInv'
    BY <1>2, ReadEnded DEF CaptureInv
  <2>2. DecodeInv' /\ CountInv'
    BY <1>2, CounterStays DEF CaptureInv, ReadEnds
  <2> QED
    BY <2>1, <2>2 DEF CaptureInv
<1>3. CASE ReadRequestFails
  <2>1. CaptureTypes' /\ ParserInv' /\ FailedInv'
    BY <1>3, ReadFailed DEF CaptureInv
  <2>2. DecodeInv' /\ CountInv'
    BY <1>3, CounterStays DEF CaptureInv, ReadRequestFails
  <2> QED
    BY <2>1, <2>2 DEF CaptureInv
<1>4. CASE DecodeBody
  BY <1>4, BodyDecoded
<1>5. CASE CountSeries
  BY <1>5, SeriesCounted
<1>6. CASE RequestCounted
  BY <1>6, RequestDone
<1>7. CASE CountFails
  BY <1>7, CountFailed
<1>8. CASE CountEnds
  BY <1>8, CountEnded
<1>9. CASE UNCHANGED captureVars
  <2>1. /\ traffic' = traffic /\ file' = file /\ passed' = passed /\ requests' = requests
        /\ decoded' = decoded /\ capturePc' = capturePc /\ counting' = counting /\ counter' = counter
    BY <1>9 DEF captureVars
  <2>2. /\ \A x : Before(x)' = Before(x) /\ BodyOf(x)' = BodyOf(x)
        /\ \A k : Leads(k)' = Leads(k)
        /\ FileOK' /\ cut' = cut /\ (Excused => Excused')
    BY <2>1, FileStays DEF CaptureInv, CaptureTypes
  <2>3. CaptureTypes' /\ FailedInv'
    BY <2>1, <2>2 DEF CaptureInv, CaptureTypes, FailedInv
  <2>4. ParserInv'
    BY <2>1, <2>2, SMTT(30) DEF CaptureInv, ParserInv
  <2>5. DecodeInv'
    BY <2>1 DEF CaptureInv, DecodeInv, Leads
  <2>6. CountInv'
    <3>1. Got' = Got
      BY <2>1 DEF Got, SeriesIn
    <3> QED
      BY <2>1, <3>1 DEF CaptureInv, CountInv
  <2> QED
    BY <2>3, <2>4, <2>5, <2>6 DEF CaptureInv
<1> QED
  BY <1>1, <1>2, <1>3, <1>4, <1>5, <1>6, <1>7, <1>8, <1>9 DEF CaptureNext

-----------------------------------------------------------------------------
(* Captured traffic: the String of a series.                                 *)

\* A list of labels, none of whose values contains what String puts between them.
Separable(labels) ==
    /\ IsList(labels)
    /\ \A i \in DOMAIN labels : /\ labels[i] = <<labels[i][1], labels[i][2]>>
                                /\ IsList(labels[i][2])
                                /\ "comma" \notin ToSet(labels[i][2])

\* The pieces of the String, one for each label.
Piece(k, label) == Separator(k) \o (<<label[1], "=">> \o label[2])
Pieces(labels) == [i \in DOMAIN labels |-> Piece(i, labels[i])]

\* Where a label ends in the String, and how long the separator before it is.
End(labels, k) == Len(FlattenTo(Pieces(labels), k))
Gap(k) == IF k = 1 THEN 0 ELSE 1

\* Where the separator, the name and the value are in a piece.
LEMMA PieceFacts ==
    ASSUME NEW S, NEW label, label[1] \in S, "=" \in S, "comma" \in S, label[2] \in Seq(S), NEW k \in Nat
    PROVE  /\ Piece(k, label) \in Seq(S) /\ Len(label[2]) \in Nat
           /\ Len(Piece(k, label)) = Gap(k) + 2 + Len(label[2])
           /\ Piece(k, label)[Gap(k) + 1] = label[1]
           /\ \A j \in 1..Len(label[2]) : Piece(k, label)[Gap(k) + 2 + j] = label[2][j]
           /\ k # 1 => Piece(k, label)[1] = "comma"
<1> SUFFICES ASSUME NEW name \in S, name = label[1], NEW value \in Seq(S), value = label[2],
                    NEW p, p = Piece(k, label)
             PROVE  /\ p \in Seq(S) /\ Len(value) \in Nat
                    /\ Len(p) = Gap(k) + 2 + Len(value)
                    /\ p[Gap(k) + 1] = name
                    /\ \A j \in 1..Len(value) : p[Gap(k) + 2 + j] = value[j]
                    /\ k # 1 => p[1] = "comma"
  OBVIOUS
<1>0. p = Separator(k) \o (<<name, "=">> \o value)
  BY DEF Piece
<1> DEFINE two == <<name, "=">>
           tail == two \o value
           l == Len(value)
<1>1. two \in Seq(S) /\ Len(two) = 2 /\ two[1] = name /\ l \in Nat
  OBVIOUS
<1> HIDE DEF two
<1>2. /\ tail \in Seq(S) /\ Len(tail) = 2 + l
      /\ \A i \in 1..(2 + l) : tail[i] = IF i <= 2 THEN two[i] ELSE value[i - 2]
  <2>1. /\ tail \in Seq(S) /\ Len(tail) = Len(two) + Len(value)
        /\ \A i \in 1..(Len(two) + Len(value)) :
              tail[i] = IF i <= Len(two) THEN two[i] ELSE value[i - Len(two)]
    BY <1>1, ConcatProperties
  <2> HIDE DEF tail
  <2> QED
    BY <1>1, <2>1
<1> HIDE DEF tail, l
<1>3. \A j \in 1..l : 2 + j \in 1..(2 + l) /\ ~(2 + j <= 2) /\ (2 + j) - 2 = j
  BY <1>1
<1>4. tail[1] = name /\ \A j \in 1..l : tail[2 + j] = value[j]
  <2>1. 1 \in 1..(2 + l)
    BY <1>1
  <2> QED
    BY <1>1, <1>2, <1>3, <2>1
<1>5. CASE k = 1
  <2>1. Separator(k) = <<>> /\ Gap(k) = 0
    BY <1>5 DEF Separator, Gap
  <2>2. p = tail
    <3>1. <<>> \o tail = tail
      BY <1>2, ConcatEmptySeq
    <3>2. p = <<>> \o tail
      BY <1>0, <2>1 DEF tail, two
    <3> QED
      BY <3>1, <3>2
  <2>3. Gap(k) + 1 = 1 /\ Gap(k) + 2 = 2
    BY <2>1
  <2>4. Len(p) = Gap(k) + 2 + l /\ \A j \in 1..l : p[Gap(k) + 2 + j] = value[j]
    BY <1>2, <1>4, <2>2, <2>3
  <2> QED
    BY <1>1, <1>2, <1>4, <1>5, <2>2, <2>3, <2>4 DEF l
<1>6. CASE k # 1
  <2> DEFINE one == <<"comma">>
  <2>1. one \in Seq(S) /\ Len(one) = 1 /\ one[1] = "comma"
    OBVIOUS
  <2>2. p = one \o tail
    BY <1>0, <1>6 DEF Separator, tail, two
  <2> HIDE DEF one
  <2>3. /\ p \in Seq(S) /\ Len(p) = 1 + (2 + l)
        /\ \A i \in 1..(1 + (2 + l)) : p[i] = IF i <= 1 THEN one[i] ELSE tail[i - 1]
    <3> DEFINE all == one \o tail
    <3>0. one \in Seq(S) /\ tail \in Seq(S)
      BY <1>2, <2>1
    <3>1. /\ all \in Seq(S) /\ Len(all) = Len(one) + Len(tail)
          /\ \A i \in 1..(Len(one) + Len(tail)) :
                all[i] = IF i <= Len(one) THEN one[i] ELSE tail[i - Len(one)]
      BY <3>0, ConcatProperties
    <3>2. p = all
      BY <2>2
    <3> HIDE DEF all
    <3> QED
      BY <1>2, <2>1, <3>1, <3>2
  <2>4. p[1] = "comma" /\ p[2] = name
    <3>1. 1 \in 1..(1 + (2 + l)) /\ 2 \in 1..(1 + (2 + l)) /\ ~(2 <= 1) /\ 2 - 1 = 1
      BY <1>1
    <3> QED
      BY <1>4, <2>1, <2>3, <3>1
  <2>5. \A j \in 1..l : p[3 + j] = value[j]
    <3> TAKE j \in 1..l
    <3>1. 3 + j \in 1..(1 + (2 + l)) /\ ~(3 + j <= 1) /\ (3 + j) - 1 = 2 + j
      BY <1>1
    <3> QED
      BY <1>4, <2>3, <3>1
  <2>6. Gap(k) = 1 /\ Gap(k) + 1 = 2 /\ Gap(k) + 2 = 3
    BY <1>6 DEF Gap
  <2>7. Len(p) = Gap(k) + 2 + l /\ \A j \in 1..l : p[Gap(k) + 2 + j] = value[j]
    <3>1. 1 + (2 + l) = 3 + l
      BY <1>1
    <3> QED
      BY <2>3, <2>5, <2>6, <3>1
  <2> QED
    BY <1>1, <1>6, <2>3, <2>4, <2>6, <2>7 DEF l
<1> QED
  BY <1>5, <1>6

\* Where the pieces of the String are.
LEMMA StringFacts ==
    ASSUME NEW labels, Separable(labels), NEW w, w = String(labels)
    PROVE  /\ Len(labels) \in Nat /\ DOMAIN labels = 1..Len(labels)
           /\ End(labels, 0) = 0 /\ End(labels, Len(labels)) = Len(w)
           /\ \A k \in 1..Len(labels) :
                 /\ End(labels, k - 1) \in Nat /\ Len(labels[k][2]) \in Nat
                 /\ End(labels, k) = End(labels, k - 1) + (Gap(k) + 2 + Len(labels[k][2]))
                 /\ End(labels, k) <= Len(w)
                 /\ w[End(labels, k - 1) + (Gap(k) + 1)] = labels[k][1]
                 /\ \A j \in 1..Len(labels[k][2]) :
                       w[End(labels, k - 1) + (Gap(k) + 2 + j)] = labels[k][2][j]
                 /\ k # 1 => w[End(labels, k - 1) + 1] = "comma"
<1>1. Len(labels) \in Nat /\ DOMAIN labels = 1..Len(labels)
  <2>1. labels \in Seq(ToSet(labels))
    BY DEF Separable, IsList
  <2> QED
    BY <2>1
<1> DEFINE n == Len(labels)
           P == Pieces(labels)
           S == UNION {ToSet(labels[i][2]) \cup {labels[i][1], "=", "comma"} : i \in 1..n}
<1>2. ASSUME NEW k \in 1..n
      PROVE  /\ P[k] \in Seq(S) /\ Len(labels[k][2]) \in Nat
             /\ Len(P[k]) = Gap(k) + 2 + Len(labels[k][2])
             /\ P[k][Gap(k) + 1] = labels[k][1]
             /\ \A j \in 1..Len(labels[k][2]) : P[k][Gap(k) + 2 + j] = labels[k][2][j]
             /\ k # 1 => P[k][1] = "comma"
  <2> DEFINE name == labels[k][1]
             value == labels[k][2]
             T == ToSet(value)
             p == P[k]
  <2>1. value \in Seq(T) /\ k \in Nat
    BY <1>1 DEF Separable, IsList
  <2>2. p = Piece(k, labels[k])
    BY <1>1 DEF Pieces
  <2>3. T \subseteq S /\ name \in S /\ "=" \in S /\ "comma" \in S
    OBVIOUS
  <2> HIDE DEF name, value, T, p, S
  <2>4. value \in Seq(S)
    BY <2>1, <2>3, WiderSeq
  <2>5. labels[k][1] \in S /\ labels[k][2] \in Seq(S)
    BY <2>3, <2>4 DEF name, value
  <2>6. /\ Piece(k, labels[k]) \in Seq(S) /\ Len(labels[k][2]) \in Nat
        /\ Len(Piece(k, labels[k])) = Gap(k) + 2 + Len(labels[k][2])
        /\ Piece(k, labels[k])[Gap(k) + 1] = labels[k][1]
        /\ \A j \in 1..Len(labels[k][2]) : Piece(k, labels[k])[Gap(k) + 2 + j] = labels[k][2][j]
        /\ k # 1 => Piece(k, labels[k])[1] = "comma"
    BY <2>1, <2>3, <2>5, PieceFacts
  <2> QED
    BY <2>2, <2>6 DEF p
<1> HIDE DEF S
<1>3. P \in Seq(Seq(S)) /\ Len(P) = n
  <2> DEFINE Q == Seq(S)
  <2>1. P = [i \in 1..n |-> P[i]]
    BY <1>1 DEF Pieces
  <2>2. \A i \in 1..n : P[i] \in Q
    BY <1>2
  <2> HIDE DEF P, Q, n
  <2>3. n \in Nat
    BY <1>1 DEF n
  <2>4. P \in Seq(Q) /\ Len(P) = n
    BY <2>1, <2>2, <2>3
  <2> QED
    BY <2>4 DEF Q
<1>4. w = FlattenSeq(P)
  BY DEF String, Pieces, Piece
<1> HIDE DEF P
<1>5. End(labels, 0) = 0 /\ End(labels, n) = Len(w)
  <2>1. FlattenTo(P, 0) = <<>> /\ FlattenTo(P, n) = FlattenSeq(P)
    BY <1>3, FlattenEnds
  <2> QED
    BY <1>4, <2>1 DEF End, P
<1>6. ASSUME NEW k \in 1..n
      PROVE  /\ End(labels, k - 1) \in Nat
             /\ End(labels, k) = End(labels, k - 1) + Len(P[k])
             /\ End(labels, k) <= Len(w)
             /\ \A i \in 1..Len(P[k]) : w[End(labels, k - 1) + i] = P[k][i]
  <2>1. k \in 1..Len(P)
    BY <1>3
  <2>2. /\ Len(FlattenTo(P, k - 1)) \in Nat
        /\ Len(FlattenTo(P, k)) = Len(FlattenTo(P, k - 1)) + Len(P[k])
        /\ Len(FlattenTo(P, k)) <= Len(FlattenSeq(P))
        /\ \A i \in 1..Len(P[k]) : FlattenSeq(P)[Len(FlattenTo(P, k - 1)) + i] = P[k][i]
    BY <1>3, <2>1, FlattenAt
  <2>3. End(labels, k - 1) = Len(FlattenTo(P, k - 1)) /\ End(labels, k) = Len(FlattenTo(P, k))
    BY DEF End, P
  <2> QED
    BY <1>4, <2>2, <2>3
<1>7. ASSUME NEW k \in 1..n
      PROVE  /\ End(labels, k - 1) \in Nat /\ Len(labels[k][2]) \in Nat
             /\ End(labels, k) = End(labels, k - 1) + (Gap(k) + 2 + Len(labels[k][2]))
             /\ End(labels, k) <= Len(w)
             /\ w[End(labels, k - 1) + (Gap(k) + 1)] = labels[k][1]
             /\ \A j \in 1..Len(labels[k][2]) :
                   w[End(labels, k - 1) + (Gap(k) + 2 + j)] = labels[k][2][j]
             /\ k # 1 => w[End(labels, k - 1) + 1] = "comma"
  <2> DEFINE l == Len(labels[k][2])
  <2>1. l \in Nat /\ Gap(k) \in 0..1 /\ Len(P[k]) = Gap(k) + 2 + l
    <3>1. Gap(k) \in 0..1
      BY DEF Gap
    <3> QED
      BY <1>2, <3>1
  <2>2. 1 \in 1..Len(P[k]) /\ Gap(k) + 1 \in 1..Len(P[k])
        /\ \A j \in 1..l : Gap(k) + 2 + j \in 1..Len(P[k])
    BY <2>1
  <2>3. /\ w[End(labels, k - 1) + (Gap(k) + 1)] = labels[k][1]
        /\ k # 1 => w[End(labels, k - 1) + 1] = "comma"
    BY <1>2, <1>6, <2>2
  <2>4. \A j \in 1..l : w[End(labels, k - 1) + (Gap(k) + 2 + j)] = labels[k][2][j]
    <3> SUFFICES ASSUME NEW j \in 1..l PROVE w[End(labels, k - 1) + (Gap(k) + 2 + j)] = P[k][Gap(k) + 2 + j]
      BY <1>2
    <3>1. Gap(k) + 2 + j \in 1..Len(P[k])
      BY <2>2
    <3> QED
      BY <1>6, <3>1
  <2> QED
    BY <1>6, <2>1, <2>3, <2>4
<1> QED
  BY <1>1, <1>5, <1>7

\* Two lists with one String that agree up to a label: its value in one of them is
\* not longer than in the other, because the next label, or the end, comes then.
LEMMA ValueNotLonger ==
    ASSUME NEW s, NEW t, Separable(s), Separable(t), String(s) = String(t),
           NEW k \in Nat, k \in 1..Len(s), k \in 1..Len(t), End(s, k - 1) = End(t, k - 1)
    PROVE  Len(t[k][2]) <= Len(s[k][2])
<1> DEFINE w == String(s)
           e == End(s, k - 1)
           a == Len(s[k][2])
           b == Len(t[k][2])
<1> SUFFICES ASSUME ~(b <= a) PROVE FALSE
  OBVIOUS
<1>1. /\ e \in Nat /\ a \in Nat /\ End(s, k) = e + (Gap(k) + 2 + a)
      /\ End(s, Len(s)) = Len(w) /\ Len(s) \in Nat
      /\ \A i \in 1..Len(s) : i # 1 => w[End(s, i - 1) + 1] = "comma"
  BY StringFacts
<1>2. /\ b \in Nat /\ End(t, k) = e + (Gap(k) + 2 + b) /\ End(t, k) <= Len(w)
      /\ \A j \in 1..b : w[e + (Gap(k) + 2 + j)] = t[k][2][j]
  BY StringFacts
<1>3. Gap(k) \in 0..1
  BY DEF Gap
<1>4. k # Len(s)
  <2> HIDE DEF w, e, a, b
  <2> QED
    BY <1>1, <1>2, <1>3
<1>5. k + 1 \in 1..Len(s) /\ k + 1 # 1 /\ (k + 1) - 1 = k
  BY <1>1, <1>4
<1>6. w[End(s, k) + 1] = "comma"
  BY <1>1, <1>5
<1>7. a + 1 \in 1..b /\ End(s, k) + 1 = e + (Gap(k) + 2 + (a + 1))
  <2> DEFINE g == Gap(k)
  <2>1. e \in Nat /\ a \in Nat /\ b \in Nat /\ g \in 0..1
    BY <1>1, <1>2, <1>3
  <2>2. End(s, k) = e + (g + 2 + a)
    BY <1>1
  <2> HIDE DEF w, e, a, b, g
  <2>3. a + 1 \in 1..b /\ (e + (g + 2 + a)) + 1 = e + (g + 2 + (a + 1))
    BY <2>1
  <2> QED
    BY <2>2, <2>3 DEF g
<1>8. t[k][2][a + 1] = "comma"
  BY <1>2, <1>6, <1>7
<1>9. t[k][2][a + 1] \in ToSet(t[k][2])
  <2>1. t[k][2] \in Seq(ToSet(t[k][2]))
    <3>1. k \in DOMAIN t
      BY StringFacts
    <3> QED
      BY <3>1 DEF Separable, IsList
  <2>2. a + 1 \in DOMAIN t[k][2]
    BY <1>7, <2>1
  <2> HIDE DEF a, b, e, w
  <2> QED
    BY <2>1, <2>2
<1> QED
  <2>1. k \in DOMAIN t
    BY StringFacts
  <2> QED
    BY <1>8, <1>9, <2>1 DEF Separable

\* The labels of a list are those of any other with its String, as far as they go.
LEMMA SameLabels ==
    ASSUME NEW s, NEW t, Separable(s), Separable(t), String(s) = String(t)
    PROVE  Len(s) <= Len(t) /\ \A i \in 1..Len(s) : s[i] = t[i]
<1> DEFINE n == Len(s)
           m == Len(t)
           w == String(s)
           T == {k \in Nat : k <= n => k <= m /\ End(s, k) = End(t, k) /\ \A i \in 1..k : s[i] = t[i]}
<1>0. n \in Nat /\ m \in Nat /\ DOMAIN s = 1..n /\ DOMAIN t = 1..m
      /\ End(s, 0) = 0 /\ End(t, 0) = 0 /\ End(t, m) = Len(w)
  BY StringFacts
<1>1. 0 \in T
  BY <1>0
<1>2. ASSUME NEW k \in Nat, k \in T PROVE k + 1 \in T
  <2> SUFFICES ASSUME k + 1 <= n
               PROVE  k + 1 <= m /\ End(s, k + 1) = End(t, k + 1) /\ \A i \in 1..(k + 1) : s[i] = t[i]
    OBVIOUS
  <2>1. k + 1 \in 1..n /\ (k + 1) - 1 = k /\ k <= n /\ k + 1 \in Nat
    BY <1>0
  <2>2. k <= m /\ End(s, k) = End(t, k) /\ \A i \in 1..k : s[i] = t[i]
    BY <1>2, <2>1
  <2>3. /\ End(s, k) \in Nat /\ Len(s[k + 1][2]) \in Nat
        /\ End(s, k + 1) = End(s, k) + (Gap(k + 1) + 2 + Len(s[k + 1][2]))
        /\ End(s, k + 1) <= Len(w)
        /\ w[End(s, k) + (Gap(k + 1) + 1)] = s[k + 1][1]
        /\ \A j \in 1..Len(s[k + 1][2]) : w[End(s, k) + (Gap(k + 1) + 2 + j)] = s[k + 1][2][j]
    BY <2>1, StringFacts
  <2>4. k + 1 <= m
    <3>1. ASSUME k = m PROVE FALSE
      <4>1. End(s, k) = Len(w)
        BY <1>0, <2>2, <3>1
      <4> DEFINE g == Gap(k + 1)
                 l == Len(s[k + 1][2])
                 e == End(s, k)
                 f == End(s, k + 1)
      <4>2. e \in Nat /\ g \in 0..1 /\ l \in Nat /\ f = e + (g + 2 + l) /\ f <= e
        <5>1. g \in 0..1
          BY DEF Gap
        <5>2. f <= e
          BY <2>3, <4>1
        <5> HIDE DEF g
        <5> QED
          BY <2>3, <5>1, <5>2 DEF g
      <4> HIDE DEF e, f, g, l
      <4> QED
        BY <4>2
    <3> HIDE DEF w
    <3>2. k <= m /\ k # m /\ k \in Nat /\ m \in Nat
      BY <1>0, <2>2, <3>1
    <3> QED
      BY <3>2
  <2>5. k + 1 \in 1..m
    BY <1>0, <2>1, <2>4
  <2>6. /\ Len(t[k + 1][2]) \in Nat
        /\ End(t, k + 1) = End(t, k) + (Gap(k + 1) + 2 + Len(t[k + 1][2]))
        /\ w[End(t, k) + (Gap(k + 1) + 1)] = t[k + 1][1]
        /\ \A j \in 1..Len(t[k + 1][2]) : w[End(t, k) + (Gap(k + 1) + 2 + j)] = t[k + 1][2][j]
    <3>1. (k + 1) - 1 = k
      BY <2>1
    <3>2. k + 1 \in 1..Len(t)
      BY <2>5
    <3>3. w = String(t) /\ Separable(t)
      OBVIOUS
    <3> HIDE DEF w
    <3> QED
      BY <3>1, <3>2, <3>3, StringFacts
  <2>7. Len(s[k + 1][2]) = Len(t[k + 1][2])
    <3>1. End(s, (k + 1) - 1) = End(t, (k + 1) - 1)
      BY <2>1, <2>2
    <3>2. Len(t[k + 1][2]) <= Len(s[k + 1][2]) /\ Len(s[k + 1][2]) <= Len(t[k + 1][2])
      BY <2>1, <2>5, <3>1, ValueNotLonger
    <3> QED
      BY <2>3, <2>6, <3>2
  <2>8. s[k + 1][1] = t[k + 1][1]
    BY <2>2, <2>3, <2>6
  <2>9. s[k + 1][2] = t[k + 1][2]
    <3> DEFINE x == s[k + 1][2]
               y == t[k + 1][2]
    <3>1. x \in Seq(ToSet(x)) /\ y \in Seq(ToSet(y))
      BY <1>0, <2>1, <2>5 DEF Separable, IsList
    <3>2. \A j \in 1..Len(x) : x[j] = y[j]
      BY <2>2, <2>3, <2>6, <2>7
    <3>3. Len(x) = Len(y)
      BY <2>7
    <3> HIDE DEF x, y
    <3>4. x = [j \in 1..Len(x) |-> x[j]] /\ y = [j \in 1..Len(y) |-> y[j]]
      BY <3>1
    <3>5. x = y
      BY <3>2, <3>3, <3>4
    <3> QED
      BY <3>5 DEF x, y
  <2>10. s[k + 1] = t[k + 1]
    <3>1. s[k + 1] = <<s[k + 1][1], s[k + 1][2]>> /\ t[k + 1] = <<t[k + 1][1], t[k + 1][2]>>
      BY <1>0, <2>1, <2>5 DEF Separable
    <3> QED
      BY <2>8, <2>9, <3>1
  <2>11. \A i \in 1..(k + 1) : i \in 1..k \/ i = k + 1
    OBVIOUS
  <2> QED
    BY <2>2, <2>3, <2>4, <2>6, <2>7, <2>10, <2>11
<1> HIDE DEF T
<1>3. n \in T
  BY <1>0, <1>1, <1>2, NumbersInduction
<1> QED
  BY <1>0, <1>3 DEF T

\* The String of such a list is that of no other.
LEMMA StringTells ==
    ASSUME NEW s, NEW t, Separable(s), Separable(t), String(s) = String(t)
    PROVE  s = t
<1>1. Len(s) <= Len(t) /\ Len(t) <= Len(s) /\ \A i \in 1..Len(s) : s[i] = t[i]
  BY SameLabels
<1>2. Len(s) \in Nat /\ Len(t) \in Nat
  BY StringFacts
<1>3. s \in Seq(ToSet(s)) /\ t \in Seq(ToSet(t))
  BY DEF Separable, IsList
<1>4. s = [j \in 1..Len(s) |-> s[j]] /\ t = [j \in 1..Len(t) |-> t[j]]
  BY <1>3
<1>5. Len(s) = Len(t)
  BY <1>1, <1>2
<1> QED
  BY <1>1, <1>4, <1>5

-----------------------------------------------------------------------------
(* Captured traffic: the theorems.                                           *)

\* What the invariant says of a command that has come to an end.
LEMMA CaptureHolds == CaptureInv => CapturedWhole
<1> SUFFICES ASSUME CaptureInv PROVE CapturedWhole
  OBVIOUS
<1>1. ASSUME capturePc = "failed"
      PROVE  \/ \E r \in DOMAIN traffic : Before(r - 1) < cut /\ traffic[r].kind # "write"
             \/ <<>> \in SeriesIn(Whole)
             \/ cut - Before(Cardinality(Whole)) \in {1, 2, 5}
  BY <1>1 DEF CaptureInv, FailedInv, Excused
<1>2. ASSUME capturePc = "done"
      PROVE  /\ counter \subseteq SeriesIn(Whole)
             /\ \A s \in SeriesIn(Whole) : Cardinality({c \in counter : String(c) = String(s)}) = 1
             /\ (\A s \in SeriesIn(Whole) : \A i \in DOMAIN s : "comma" \notin ToSet(s[i][2]))
                   => counter = SeriesIn(Whole)
  <2>1. PICK n \in Nat : n = Len(requests) /\ n = decoded
    BY <1>2 DEF CaptureInv, CaptureTypes, DecodeInv
  <2>2. Leads(n)
    BY <2>1 DEF CaptureInv, DecodeInv
  <2>3. Whole = 1..n
    BY <1>2, <2>1, <2>2, RequestsWhole DEF CaptureInv, ParserInv
  <2>4. Got = SeriesIn(Whole)
    <3>1. Got = SeriesIn(1..n) \cup {}
      BY <1>2, <2>1 DEF Got
    <3> QED
      BY <2>3, <3>1
  <2>5. counter \subseteq SeriesIn(Whole)
    BY <2>4 DEF CaptureInv, CountInv
  <2>6. ASSUME NEW s \in SeriesIn(Whole)
        PROVE  Cardinality({c \in counter : String(c) = String(s)}) = 1
    <3>1. PICK d \in counter : String(d) = String(s)
      BY <2>4 DEF CaptureInv, CountInv
    <3>2. {c \in counter : String(c) = String(s)} = {d}
      BY <3>1 DEF CaptureInv, CountInv
    <3> QED
      BY <3>2, FS_Singleton
  <2>7. ASSUME \A s \in SeriesIn(Whole) : \A i \in DOMAIN s : "comma" \notin ToSet(s[i][2])
        PROVE  counter = SeriesIn(Whole)
    <3>1. \A s \in SeriesIn(Whole) : Separable(s)
      <4> TAKE s \in SeriesIn(Whole)
      <4>1. PICK r \in DOMAIN traffic : s \in traffic[r].series
        BY DEF SeriesIn, Whole
      <4>2. traffic \in Traffics
        BY DEF CaptureInv, CaptureTypes, FileOK
      <4>3. IsList(s) /\ \A i \in DOMAIN s : s[i] = <<s[i][1], s[i][2]>> /\ IsList(s[i][2])
        BY <4>1, <4>2, CaptureAssumption
      <4> QED
        BY <2>7, <4>3 DEF Separable
    <3>2. \A s \in SeriesIn(Whole) : s \in counter
      <4> TAKE s \in SeriesIn(Whole)
      <4>1. PICK c \in counter : String(c) = String(s)
        BY <2>4 DEF CaptureInv, CountInv
      <4>2. c = s
        BY <2>5, <3>1, <4>1, StringTells
      <4> QED
        BY <4>2
    <3> QED
      BY <2>5, <3>2
  <2> QED
    BY <2>5, <2>6, <2>7
<1> QED
  BY <1>1, <1>2 DEF CapturedWhole

\* The parser is between two requests of the traffic as long as every request it read
\* was a remote write, each of which is its body; a command that fails has an excuse;
\* and the counter has one series of each String that was counted.
THEOREM CaptureInvariance == CaptureSpec => []CaptureInv
BY CaptureStarted, CaptureStep, PTL DEF CaptureSpec

\* A command that goes on over captured traffic has exactly the series of the requests
\* that are whole in the file, each once; it fails only for a reason, and a value that
\* does not contain the separator of String cannot make two series one.
THEOREM CapturesAreWhole == CaptureSpec => []CapturedWhole
BY CaptureInvariance, CaptureHolds, PTL
=============================================================================
