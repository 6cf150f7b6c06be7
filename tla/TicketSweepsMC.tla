--------------------------- MODULE TicketSweepsMC ---------------------------
(* A workflow of three states, each role filled by one body.                *)
EXTENDS TicketSweeps

WorkflowStates == {"intake", "work", "done"}
EarlyStates    == {"intake"}
Single    == [s \in WorkflowStates |-> CASE s = "intake" -> {"anna"}
                                         [] s = "work" -> {"bert"}
                                         [] OTHER -> {}]
Unpinned  == [s \in WorkflowStates |-> "none"]

Left(w, s, n, b) == [wf |-> w, st |-> s, nat |-> n, who |-> b, old |-> FALSE]

\* Not enrolled, refused, stripped, drifted, half closed and half open tickets.
SomeTickets ==
  {Left("registered", "none", "todo", "anna"), Left("unknown", "none", "todo", "none"),
   Left("none", "none", "todo", "none"), Left("none", "work", "todo", "none"),
   Left("registered", "none", "completed", "anna"), Left("registered", "intake", "todo", "none"),
   Left("registered", "work", "todo", "none"),
   Left("registered", "work", "todo", "anna"), Left("registered", "work", "completed", "none"),
   Left("registered", "work", "active", "anna"),
   Left("registered", "done", "todo", "none"), Left("registered", "done", "completed", "anna")}
=============================================================================
