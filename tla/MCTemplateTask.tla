----------------------------- MODULE MCTemplateTask -----------------------------
(* TemplateTask with a task_info of the names in template_task.c; the tests *)
(* of the sources are evaluated before it starts.                          *)
EXTENDS TemplateTask, UnitTests

MCStateNames ==
  [t \in {Template} |->
     <<"IDLE", "START", "AWAIT", "SUCCESS", "ERR", "ERR_START_FAILED",
       "ERR_AWAIT_TIMED_OUT", "ERR_AWAIT_FAILED">>]
================================================================================
