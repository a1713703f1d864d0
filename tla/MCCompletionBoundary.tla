------------------------- MODULE MCCompletionBoundary -------------------------
(* Small instances of CompletionBoundary for TLC. *)
EXTENDS CompletionBoundary, TLC

CONSTANTS s1, s2, c1, b1

OneSubject == {s1}
TwoSubjects == {s1, s2}
ToolProved == [c \in Criteria |-> {"tool_result"}]
SeenRendered == [c \in Criteria |-> {"rendered_observation"}]
BoundaryToCover == [c \in Criteria |-> {b1}]
NothingToCover == [c \in Criteria |-> {}]
=============================================================================
