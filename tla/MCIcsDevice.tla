---------------------------- MODULE MCIcsDevice ----------------------------
EXTENDS IcsDevice

\* The two that servo_task uses.
MCCommands == {c \in IcsCommands : c.name \in {"set_pos", "get_pos"}}
=============================================================================
