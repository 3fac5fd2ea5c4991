------------------------------ MODULE MCExecutor ------------------------------
EXTENDS Executor

\* One message of each sort: a dict, the executor's own result as text, a job
\* within the limits, a job longer than the limit, and SHUTDOWN.
Msg(form, type, rates, legs) ==
  [form |-> form, type |-> type, rates |-> rates, legs |-> legs, tag |-> 1]

MCRequests == {Msg("object", "PATH", 1, 3),
               Msg("text", "EXECRESULT", 0, 3),
               Msg("text", "PATH", 1, 3),
               Msg("text", "PATH", 1, 4),
               Msg("text", "SHUTDOWN", 0, 0)}
=============================================================================
