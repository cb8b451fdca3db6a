------------------------------ MODULE MCToolLoop ------------------------------
EXTENDS ToolLoop

Checkout == <<"ws", "t1">>

\* A read, writes inside and outside the checkout, one whose arguments end in
\* the path after a long content, one whose arguments decode only in part, and
\* a tool the agent does not have.
Both == {"tool_call", "tool_result"}

SomeCalls ==
  {[tool |-> "read_file", path |-> <<"f">>, decodes |-> TRUE, shown |-> Both],
   [tool |-> "write_file", path |-> <<"..", "t1", "f">>, decodes |-> TRUE,
    shown |-> Both],
   [tool |-> "write_file", path |-> <<"h">>, decodes |-> TRUE,
    shown |-> {"tool_result"}],
   [tool |-> "write_file", path |-> <<"..", "t2", "f">>, decodes |-> TRUE,
    shown |-> Both],
   [tool |-> "write_file", path |-> <<"g">>, decodes |-> FALSE, shown |-> Both],
   [tool |-> "delete_file", path |-> <<"f">>, decodes |-> TRUE, shown |-> Both]}

SomeContents ==
  {[text |-> "", blocks |-> <<>>],
   [text |-> "a", blocks |-> <<"plan 1", "", "plan 2">>]}
===============================================================================
