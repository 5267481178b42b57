--------------------------------- MODULE MuLog ---------------------------------
(***************************************************************************)
(* The logger of extras/mu_log.c: a reporting level, which may be changed  *)
(* at any time, and a function that is given the lines of that level and   *)
(* above, or none.  A step that logs leaves its lines in "lines".          *)
(***************************************************************************)
EXTENDS Naturals, Sequences

TRACE == 0
DEBUG == 1
INFO == 2
WARN == 3
ERROR == 4
FATAL == 5
Levels == TRACE .. FATAL   \* mu_log_level_t

VARIABLES level,    \* s_reporting_level
          logging,  \* whether s_logging_fn is set
          lines     \* what the logging function was given in the last step

logVars == <<level, logging, lines>>

LogInit == level \in Levels /\ logging \in BOOLEAN /\ lines = <<>>   \* mu_log_init

LevelName(l) ==   \* mu_log_level_name
  IF l \in Levels THEN <<"TRACE", "DEBUG", "INFO", "WARN", "ERROR", "FATAL">>[l + 1]
  ELSE "UNKNOWN"

Reports(reporting, l) == l >= reporting
IsReporting(l) == Reports(level, l)   \* mu_log_is_reporting

\* mu_log, at a reporting level: what it gives to the logging function, if any.
Given(reporting, on, l, line) == IF Reports(reporting, l) /\ on THEN <<line>> ELSE <<>>
Log(l, line) == Given(level, logging, l, line)

SetReportingLevel == level' \in Levels /\ UNCHANGED logging
SetLoggingFunction == logging' \in BOOLEAN /\ UNCHANGED level
================================================================================
