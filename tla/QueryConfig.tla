---------------------------- MODULE QueryConfig ----------------------------
(***************************************************************************)
(* A range of partition_query_loader's configuration: the period of a plan *)
(* or, with the same code, the time range of its queries.  It comes from   *)
(* the defaults, a workload file and the flags, and each of the two may    *)
(* give its minimum, its maximum, and a deprecated alias for both: in      *)
(* ConfigFromCommand and applyWorkloadFile (command.go, config.go) and     *)
(* once more when the workload begins (workload.go).                       *)
(*                                                                         *)
(* The alias is also a setting of its own, which like all others is the    *)
(* flag's value, else the file's, else the default.                        *)
(***************************************************************************)
EXTENDS Integers

CONSTANTS Durations,  \* what flags and file may say, some of it not positive
          Defaults,   \* the default of each setting, see SettingNames
          Absent, Malformed

SettingNames == {"period", "period-min", "period-max"}

ASSUME ConfigurationAssumption ==
    /\ Durations \subseteq Int
    /\ Defaults \in [SettingNames -> Nat \ {0}]
    /\ Defaults["period-min"] <= Defaults["period-max"]

VARIABLES flagged,  \* SettingNames -> a duration, or Absent
          filed,    \* SettingNames -> a duration, Malformed or Absent; or Malformed as a whole
          settings, \* config: SettingNames -> Int
          configPc  \* "flags", "file", "validate", "workload", "running" or "refused"

configInput == <<flagged, filed>>
configVars == <<configInput, settings, configPc>>

ConfigInit == /\ flagged \in [SettingNames -> Durations \cup {Absent}]
              /\ filed \in [SettingNames -> Durations \cup {Malformed, Absent}] \cup {Malformed}
              /\ settings = Defaults
              /\ configPc = "flags"

Changed(name) == flagged[name] # Absent
Both(s) == [s EXCEPT !["period-min"] = s["period"], !["period-max"] = s["period"]]

\* ConfigFromCommand; cobra has refused what is no duration.
ReadFlags ==
    /\ configPc = "flags"
    /\ LET read == [n \in SettingNames |-> IF Changed(n) THEN flagged[n] ELSE Defaults[n]]
       IN  settings' = IF Changed("period") /\ ~Changed("period-min") /\ ~Changed("period-max")
                       THEN Both(read) ELSE read
    /\ configPc' = "file"
    /\ UNCHANGED configInput

\* What the file says of a flag that is set is not even parsed.
Used(name) == filed[name] # Absent /\ ~Changed(name)
Parses == filed # Malformed /\ \A n \in SettingNames : Used(n) => filed[n] # Malformed

\* Mutant: an explicit maximum does not keep the file's alias away.
AliasOverMax ==
    /\ configPc = "file" /\ Parses
    /\ LET read == [n \in SettingNames |-> IF Used(n) THEN filed[n] ELSE settings[n]]
       IN  settings' = IF filed["period"] # Absent /\ ~Changed("period-min") THEN Both(read) ELSE read
    /\ configPc' = "validate"
    /\ UNCHANGED configInput

\* No file is one that gives nothing.
ApplyWorkloadFile ==
    /\ configPc = "file" /\ Parses
    /\ LET read == [n \in SettingNames |-> IF Used(n) THEN filed[n] ELSE settings[n]]
       IN  settings' = IF filed["period"] # Absent /\ ~Changed("period-min") /\ ~Changed("period-max")
                       THEN Both(read) ELSE read
    /\ configPc' = "validate"
    /\ UNCHANGED configInput

FileRefused == /\ configPc = "file" /\ ~Parses
               /\ configPc' = "refused"
               /\ UNCHANGED <<configInput, settings>>

Valid(s) == s["period-min"] > 0 /\ s["period-max"] >= s["period-min"]

Validate == /\ configPc = "validate"
            /\ configPc' = IF Valid(settings) THEN "workload" ELSE "refused"
            /\ UNCHANGED <<configInput, settings>>

\* RunWorkload, after the discovery: an alias that is not the default replaces
\* minimum and maximum if these are the defaults, wherever they come from.
Final(s) == IF /\ s["period"] # Defaults["period"]
               /\ s["period-min"] = Defaults["period-min"] /\ s["period-max"] = Defaults["period-max"]
            THEN Both(s) ELSE s

BeginWorkload == /\ configPc = "workload"
                 /\ settings' = Final(settings)
                 /\ configPc' = IF Valid(settings') THEN "running" ELSE "refused"
                 /\ UNCHANGED configInput

ConfigNext == ReadFlags \/ ApplyWorkloadFile \/ FileRefused \/ Validate \/ BeginWorkload

ConfigSpec == ConfigInit /\ [][ConfigNext]_configVars
-----------------------------------------------------------------------------
Bounds == {"period-min", "period-max"}
Expects(bounds, values) == \A n \in bounds : settings[n] = values[n]

\* Minimum and maximum as they are given, and as the alias has them.
Itself == [n \in Bounds |-> flagged[n]]
OfAlias(value) == [n \in Bounds |-> value]
Explicit == {n \in Bounds : Changed(n)}

\* When the workload runs, an explicit bound has been kept, by whatever file; an
\* alias among the flags decides both unless one of them, or the file, gives a
\* bound; and the file's alias decides both if no flag is set.  The one exception
\* is a command whose bounds are the defaults beside an alias that is not.  The
\* range is one that queries can be drawn from, and nothing that was read of the
\* file was malformed.
FlagsWin ==
    configPc = "running" =>
        /\ Parses /\ Valid(settings)
        /\ \/ Expects(Explicit, Itself)
           \/ Expects(Bounds, OfAlias(settings["period"])) /\
              \A n \in Explicit : flagged[n] = Defaults[n]
        /\ Changed("period") /\ Explicit = {} /\ (\A n \in Bounds : filed[n] = Absent) =>
              Expects(Bounds, OfAlias(flagged["period"]))
        /\ (\A n \in SettingNames : ~Changed(n)) /\ filed["period"] # Absent =>
              Expects(Bounds, OfAlias(filed["period"]))
        /\ filed["period"] = Absent /\ ~Changed("period") =>
              \A n \in Bounds : settings[n] = IF Changed(n) THEN flagged[n]
                                              ELSE IF filed[n] # Absent THEN filed[n]
                                              ELSE Defaults[n]

\* What the help of --workload-config says: "explicit flags take precedence".  A
\* bound that is among the flags is the one the workload runs with.
DocFlagsTakePrecedence == configPc = "running" => Expects(Explicit, Itself)
=============================================================================
