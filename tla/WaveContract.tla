--------------------------- MODULE WaveContract ---------------------------
(***************************************************************************)
(* What SampleLoader.run relies on when it calls                           *)
(* convertToRemoteWriteRequestsStreaming once per wave: the series of one  *)
(* wave leave in requests of MaxSamples series, only the last of which may *)
(* be smaller; TRUE is returned when every series of the wave has left,    *)
(* FALSE only after the generation deadline; and after the deadline at     *)
(* most one more request leaves, whatever number of waves follow.          *)
(***************************************************************************)
EXTENDS Naturals, FiniteSets

CONSTANTS Series,       \* the series of one wave, a finite set
          MaxSamples    \* --max-samples: series per request, from 1

VARIABLES sent,      \* series of the current wave already in a request
          expired,   \* the generation context is done
          late,      \* requests that left after the deadline
          result     \* "running", "true" or "false"

vars == <<sent, expired, late, result>>

Init == /\ sent = {}
        /\ expired = FALSE
        /\ late = 0
        /\ result = "running"

Deadline == /\ ~expired
            /\ expired' = TRUE
            /\ UNCHANGED <<sent, late, result>>

\* A request passed its deadline check before it waits for a queue slot, so
\* one request may leave after the deadline, and no second one.
CountLate == \/ ~expired /\ late' = late
             \/ expired /\ late = 0 /\ late' = 1

EnqueueFull == /\ result = "running"
               /\ \E batch \in SUBSET (Series \ sent) :
                     /\ Cardinality(batch) = MaxSamples
                     /\ sent' = sent \cup batch
               /\ CountLate
               /\ UNCHANGED <<expired, result>>

EnqueueLast == /\ result = "running"
               /\ sent # Series
               /\ Cardinality(Series \ sent) < MaxSamples
               /\ sent' = Series
               /\ CountLate
               /\ result' = "true"
               /\ UNCHANGED expired

Complete == /\ result = "running"
            /\ sent = Series
            /\ result' = "true"
            /\ UNCHANGED <<sent, expired, late>>

Abandon == /\ result = "running"
           /\ expired
           /\ result' = "false"
           /\ UNCHANGED <<sent, expired, late>>

\* run starts the next wave only after a complete one.
NextWave == /\ result = "true"
            /\ sent' = {}
            /\ result' = "running"
            /\ UNCHANGED <<expired, late>>

Next == Deadline \/ EnqueueFull \/ EnqueueLast \/ Complete \/ Abandon \/ NextWave

Spec == Init /\ [][Next]_vars
===========================================================================
