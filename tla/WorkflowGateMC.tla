--------------------------- MODULE WorkflowGateMC ---------------------------
(* Small instances of WorkflowGate for TLC. *)
EXTENDS WorkflowGate, TLC

CONSTANTS dev, rev, human, c1, c2

Edge(from, verb, to, tag) ==
    [from |-> from, verb |-> verb, to |-> to, tag |-> tag, payload |-> FALSE,
     needs |-> None, approver |-> FALSE, human |-> FALSE]

\* The shape of task.yaml: a review, a sign-off that is an approval gate.
ThreeStates == {"work", "signoff", "done"}
Task == [entry |-> "work", escape |-> "work", terminal |-> {"done"}, gates |-> {"signoff"},
         owner |-> [s \in ThreeStates |->
                      CASE s = "work" -> dev [] s = "signoff" -> rev [] OTHER -> Nobody],
         order |-> [s \in ThreeStates |->
                      CASE s = "work" -> 1 [] s = "signoff" -> 2 [] OTHER -> 3],
         strict |-> TRUE,
         edges |-> {Edge("work", "continue", "signoff", "continue"),
                    Edge("signoff", "continue", "done", "continue"),
                    Edge("signoff", "reject", "work", "none")},
         sends |-> {dev, rev} \X {"continue-workflow", "begin-workflow", "escape", "reject"}]

\* The shape of dev-impl.yaml: the verbs of neighbouring states differ.
Review == [Task EXCEPT !.strict = FALSE,
                       !.edges = {Edge("work", "submit", "signoff", "continue"),
                                  Edge("signoff", "approve", "done", "none"),
                                  Edge("signoff", "reject", "work", "revision")},
                       !.sends = {dev, rev} \X {"continue-workflow", "escape", "reject"}]

\* Sign-off by a nominated approver or a human, as in sprint-spawner.yaml and
\* dev-impl.yaml; force-deploy stands for continue.
Signoff == [Review EXCEPT !.edges = {Edge("work", "continue", "signoff", "continue"),
                                     [Edge("signoff", "approve", "done", "none") EXCEPT
                                        !.needs = "sprint:signoff", !.approver = TRUE, !.human = TRUE],
                                     Edge("signoff", "reject", "work", "revision")},
                          !.sends = {dev, rev} \X {"continue-workflow", "force-deploy"}
                                      \cup {dev, human} \X {"approve"}
                                      \cup {<<rev, "request-revision">>}]

ThreeWorkflows == {<<Task, FALSE>>, <<Signoff, FALSE>>, <<Review, TRUE>>}
ThreeAgents == {dev, rev, human}
TwoAgents == {dev, rev}
ThreeCapabilities == {"workflow:break-glass", "workflow:force-deploy", "sprint:signoff"}
Policy == [p \in ThreeCapabilities |-> IF p = "workflow:break-glass" THEN {rev} ELSE {dev}]
TwoCommands == {c1, c2}

Symmetry == Permutations(TwoCommands)
=============================================================================
