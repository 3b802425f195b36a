---------------------------- MODULE RpcContract ----------------------------
(***************************************************************************)
(* What invoke_tl promises its caller, with no messages, ids, salts or     *)
(* retries in it.  An invocation is refused at once or becomes open; an    *)
(* open one ends once, with a result or with an exception.  The server     *)
(* executes its request at most once, and before a result is returned.  An *)
(* exception leaves open whether the request was or will be executed.      *)
(***************************************************************************)
CONSTANT Calls

VARIABLES
    status,  \* where each invocation is, as its caller sees it
    served   \* the invocations whose request has been executed

vars == <<status, served>>

TypeOK ==
    /\ status \in [Calls -> {"new", "refused", "open", "result", "exception"}]
    /\ served \subseteq Calls

Init ==
    /\ status = [c \in Calls |-> "new"]
    /\ served = {}

Move(c, from, to) ==
    /\ status[c] = from
    /\ status' = [status EXCEPT ![c] = to]
    /\ UNCHANGED served

Refuse(c) == Move(c, "new", "refused")
Begin(c) == Move(c, "new", "open")
Fail(c) == Move(c, "open", "exception")

Succeed(c) ==
    /\ c \in served
    /\ Move(c, "open", "result")

\* Also after an exception: the request may still be on its way.
Serve(c) ==
    /\ status[c] \in {"open", "exception"}
    /\ c \notin served
    /\ served' = served \cup {c}
    /\ UNCHANGED status

Next == \E c \in Calls :
           Refuse(c) \/ Begin(c) \/ Fail(c) \/ Succeed(c) \/ Serve(c)

Spec == Init /\ [][Next]_vars

\* Open invocations end: by an exception at the latest.
FairSpec == Spec /\ \A c \in Calls : WF_vars(Fail(c) \/ Succeed(c))

=============================================================================
