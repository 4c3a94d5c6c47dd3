-------------------------- MODULE MCQueryWorkflow --------------------------
(***************************************************************************)
(* Three connectors, two of one provider: that provider's sources need     *)
(* lineage, the other's are attested by its repair.                        *)
(***************************************************************************)
EXTENDS QueryWorkflow

CONSTANTS gh1, gh2, lin1, github, linear, labelled, bare, unsaid

Provider == [c \in {gh1, gh2, lin1} |-> IF c = lin1 THEN linear ELSE github]
Order == [l \in Lanes |->
           CASE l = "text" -> 1 [] l = "hybrid" -> 2 [] l = gh1 -> 3
             [] l = gh2 -> 4 [] OTHER -> 5]
Synced == [s \in Sources |->
            CASE s = labelled -> gh2 [] s = bare -> gh1 [] OTHER -> lin1]
Lineage == [s \in Sources |-> IF s = labelled THEN {gh2} ELSE {}]
Says == [s \in Sources |->
          CASE s \in {labelled, bare} -> github [] OTHER -> Unsaid]
=============================================================================
