---------------------------- MODULE MCQueryConfig ----------------------------
(* An instance for TLC of QueryConfig, for the claim of its help text: the    *)
(* defaults of period, its minimum and its maximum, and what flags and file   *)
(* may say, among it the defaults.                                            *)
EXTENDS QueryConfig

PeriodDefaults == [n \in SettingNames |->
                     IF n = "period" THEN 2 ELSE IF n = "period-min" THEN 1 ELSE 3]
=============================================================================
