--------------------------- MODULE TaskLifecycle ---------------------------
(***************************************************************************)
(* What a run of one task promises: core/state.py's lifecycle, with the    *)
(* one rule that crosses components.  A task becomes completed only after  *)
(* a passing verification and after its disposable workspace is gone.      *)
(***************************************************************************)

VARIABLES
  state,       \* TaskState
  passed,      \* a passing verification was obtained
  workspace    \* "none", "present" or "removed"

lifecycleVars == <<state, passed, workspace>>

(* _TRANSITIONS, with the states a verification never uses left in.        *)
Transitions == [
  pending      |-> {"inspecting", "failed"},
  inspecting   |-> {"implementing", "testing", "failed"},
  implementing |-> {"inspecting", "testing", "failed"},
  testing      |-> {"implementing", "completed", "failed"},
  failed       |-> {"inspecting"},
  completed    |-> {}]

Init == state = "pending" /\ passed = FALSE /\ workspace = "none"

Create == workspace = "none" /\ workspace' = "present" /\ UNCHANGED <<state, passed>>

Remove == workspace = "present" /\ workspace' = "removed" /\ UNCHANGED <<state, passed>>

Pass == /\ state = "testing" /\ workspace = "present"
        /\ passed' = TRUE
        /\ UNCHANGED <<state, workspace>>

Advance ==
  \E next \in Transitions[state] :
    /\ next = "testing" => workspace = "present"
    /\ next = "completed" => passed /\ workspace = "removed"
    /\ state' = next
    /\ UNCHANGED <<passed, workspace>>

Next == Create \/ Remove \/ Pass \/ Advance

Spec == Init /\ [][Next]_lifecycleVars
=============================================================================
