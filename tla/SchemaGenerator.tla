-------------------------- MODULE SchemaGenerator --------------------------
(***************************************************************************)
(* schema_generator: it writes the CREATE statements of the physical       *)
(* tables and of the logical tables on them into files, and with           *)
(* --exec-sql executes them: all physical ones, then all logical ones,     *)
(* each time by a number of goroutines with a connection of their own that *)
(* take statements from one channel.                                       *)
(*                                                                         *)
(* What fails on the way is logged only.  A table is its number in its     *)
(* physical table, which is 0 for the physical table itself; its columns   *)
(* are random and say nothing here.                                        *)
(***************************************************************************)
EXTENDS Integers, Sequences, FiniteSets, SequencesExt

CONSTANTS PhysicalCount,  \* --physical-table-count
          SampleCount,    \* --sample-count: logical tables on each
          Jobs            \* the goroutines of --do-exec-sql-job-count

ASSUME SchemaAssumption == PhysicalCount \in Nat /\ SampleCount \in Nat

VARIABLES execSQL,   \* --exec-sql
          schemaPc,  \* "writing", "begin", "sending", "waiting", "done" or "failed"
          round,     \* 1: physical tables, 2: logical tables
          toSend,    \* statements the main goroutine has not sent
          sqlChan,   \* the channel
          job,       \* "connecting", "ready", "gone", or the statement it executes
          tried,     \* history: the statements in the order they were finished
          connected, \* history: the rounds in which a connection was made
          database   \* the tables there are

roundVars == <<toSend, sqlChan, job>>
schemaVars == <<execSQL, schemaPc, round, roundVars, tried, connected, database>>

Statements(r) == (1..PhysicalCount) \X (IF r = 1 THEN {0} ELSE 1..SampleCount)

\* Mutant: the channel has no room for all of them.
CapacityOne == 1

Capacity == Cardinality(Statements(round))
Gone == [j \in Jobs |-> <<"gone">>]

SchemaInit == /\ execSQL \in BOOLEAN
              /\ schemaPc = "writing"
              /\ round = 1
              /\ toSend = {} /\ sqlChan = <<>> /\ job = Gone
              /\ tried = <<>> /\ connected = {} /\ database = {}

\* Two files of SQL, one that lists the logical tables, and one for sample_loader for
\* each of them.  Any may fail, and rand.Perm panics if more columns are asked for
\* than there are.
WriteFiles == /\ schemaPc = "writing"
              /\ schemaPc' \in {"begin", "failed"}
              /\ UNCHANGED <<execSQL, round, roundVars, tried, connected, database>>

EndRound == IF round = 1 THEN round' = 2 /\ schemaPc' = "begin"
                         ELSE schemaPc' = "done" /\ UNCHANGED round

Skip == /\ schemaPc = "begin"
        /\ ~execSQL \/ Jobs = {}
        /\ EndRound
        /\ UNCHANGED <<execSQL, roundVars, tried, connected, database>>

StartJobs == /\ schemaPc = "begin"
             /\ execSQL /\ Jobs # {}
             /\ job' = [j \in Jobs |-> <<"connecting">>]
             /\ toSend' = Statements(round)
             /\ sqlChan' = <<>>
             /\ schemaPc' = "sending"
             /\ UNCHANGED <<execSQL, round, tried, connected, database>>

\* The statements come out of a map in any order.
SendStatement == /\ schemaPc = "sending" /\ Len(sqlChan) < Capacity
        /\ \E s \in toSend : sqlChan' = Append(sqlChan, s) /\ toSend' = toSend \ {s}
        /\ UNCHANGED <<execSQL, schemaPc, round, job, tried, connected, database>>

CloseChan == /\ schemaPc = "sending" /\ toSend = {}
             /\ schemaPc' = "waiting"
             /\ UNCHANGED <<execSQL, round, roundVars, tried, connected, database>>

SetJob(j, state) == job' = [job EXCEPT ![j] = state]

Connect(j) == /\ job[j] = <<"connecting">>
              /\ SetJob(j, <<"ready">>)
              /\ connected' = connected \cup {round}
              /\ UNCHANGED <<execSQL, schemaPc, round, toSend, sqlChan, tried, database>>

ConnectFails(j) == /\ job[j] = <<"connecting">>
                   /\ SetJob(j, <<"gone">>)
                   /\ UNCHANGED <<execSQL, schemaPc, round, toSend, sqlChan, tried, connected, database>>

TakeStatement(j) == /\ job[j] = <<"ready">> /\ sqlChan # <<>>
           /\ SetJob(j, Head(sqlChan))
           /\ sqlChan' = Tail(sqlChan)
           /\ UNCHANGED <<execSQL, schemaPc, round, toSend, tried, connected, database>>

\* The server refuses a logical table without its physical table; or anything.
ExecuteStatement(j) == /\ Len(job[j]) = 2
              /\ tried' = Append(tried, job[j])
              /\ \/ UNCHANGED database
                 \/ /\ job[j][2] = 0 \/ <<job[j][1], 0>> \in database
                    /\ database' = database \cup {job[j]}
              /\ SetJob(j, <<"ready">>)
              /\ UNCHANGED <<execSQL, schemaPc, round, toSend, sqlChan, connected>>

LeaveChan(j) == /\ job[j] = <<"ready">> /\ sqlChan = <<>> /\ schemaPc = "waiting"
            /\ SetJob(j, <<"gone">>)
            /\ UNCHANGED <<execSQL, schemaPc, round, toSend, sqlChan, tried, connected, database>>

WaitJobs == /\ schemaPc = "waiting"
        /\ job = Gone
        /\ EndRound
        /\ UNCHANGED <<execSQL, roundVars, tried, connected, database>>

JobStep(j) == Connect(j) \/ ConnectFails(j) \/ TakeStatement(j) \/ ExecuteStatement(j) \/ LeaveChan(j)

SchemaNext == \/ WriteFiles \/ Skip \/ StartJobs \/ SendStatement \/ CloseChan \/ WaitJobs
              \/ \E j \in Jobs : JobStep(j)

SchemaSpec == SchemaInit /\ [][SchemaNext]_schemaVars
-----------------------------------------------------------------------------
Over(r) == execSQL /\ (round > r \/ schemaPc = "done")

\* No logical table is created before every physical one was tried, and whatever
\* goroutines fail to connect, at whatever moment: no statement is tried twice, all
\* of a round are tried if one goroutine connected, and the main goroutine is never
\* left sending to nobody.
SchemaInOrder ==
    /\ IsInjective(tried)
    /\ \A i, j \in DOMAIN tried : i < j /\ tried[j][2] = 0 => tried[i][2] = 0
    /\ \A r \in {1, 2} : Over(r) /\ r \in connected => Statements(r) \subseteq ToSet(tried)
    /\ schemaPc = "sending" /\ toSend # {} /\ job = Gone => Len(sqlChan) < Capacity
=============================================================================
