---------------------------- MODULE TaskService ----------------------------
(***************************************************************************)
(* What the relay promises a client about the tasks it submitted, seen     *)
(* through /get_result alone: a task is waiting until it has one answer,   *)
(* the answer never changes, and after it was forgotten (cleaned up, or    *)
(* lost by a restart) the id stays unknown for ever.                       *)
(***************************************************************************)
CONSTANTS TaskId, Bodies

VARIABLE view   \* view[t]: what /get_result answers for t

New == [status |-> "new", result |-> <<>>]
WaitingView == [status |-> "waiting", result |-> <<>>]
Gone == [status |-> "404", result |-> <<>>]
AnswerView == [status : {"COMPLETED", "FAILED"}, result : Bodies]

Init == view = [t \in TaskId |-> New]

Submitted(t) == view[t] = New /\ view'[t] = WaitingView

Answered(t, answer) == view[t] = WaitingView /\ view'[t] = answer

Forgotten(t) == view[t] # New /\ view'[t] = Gone

\* One request may end a step and its chain, one sweep forget several tasks:
\* but every task that is answered in a step gets the same answer.
Next ==
    /\ view' \in [TaskId -> AnswerView \cup {New, WaitingView, Gone}]
    /\ \/ \A t \in TaskId : view'[t] = view[t] \/ Submitted(t) \/ Forgotten(t)
       \/ \E answer \in AnswerView :
             \A t \in TaskId : view'[t] = view[t] \/ Answered(t, answer)

Spec == Init /\ [][Next]_view
=============================================================================
