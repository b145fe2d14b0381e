------------------------------ MODULE MCAlerts ------------------------------
\* A dispatcher used by the sweep, the threshold check and two test messages.
EXTENDS Alerts

CONSTANTS sweep, check, test1, test2

Categories == [c \in {sweep, check, test1, test2} |->
                 CASE c = sweep -> "host_offline" [] c = check -> "cpu" [] OTHER -> "test"]
=============================================================================
