----------------------------- MODULE MCTodoSync -----------------------------
(* Three items, or two, and a table of two entries, read by pages of one;  *)
(* the phone changes one item of its own.                                  *)
EXTENDS TodoSync
MCItems == {1, 2}
MCThree == {1, 2, 3}
MCEdits == {{2}}
=============================================================================
