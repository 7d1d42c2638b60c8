---------------------------- MODULE QueueContract ----------------------------
(***************************************************************************)
(* What the command queue of pkg/store/command_queue.go promises, as its  *)
(* comments and spec 4.3 put it: Queue adds a command in state requested;  *)
(* a command is dequeued and processed, and its outcome (success with the *)
(* handler's result, or error "timedout" once its deadline has passed) is *)
(* written together with its terminal state; housekeeping deletes         *)
(* commands older than a minute.  A command never returns to requested,   *)
(* is completed only from requested, and a deleted command is gone.       *)
(* Processing itself (the claim, the handler, a rolled back transaction)  *)
(* is invisible here: it changes no command's state or result.            *)
(***************************************************************************)
CONSTANTS Ids      \* the commands' seq numbers

VARIABLES state, result

States == {"absent", "requested", "success", "error", "deleted"}
Outcomes == {<<"success", "some result">>, <<"error", "timedout">>}

TypeOK ==
    /\ state \in [Ids -> States]
    /\ result \in [Ids -> {"none", "some result", "timedout"}]

Init ==
    /\ state = [i \in Ids |-> "absent"]
    /\ result = [i \in Ids |-> "none"]

(* Queue: the command i is added, requested. *)
Enqueue(i) ==
    /\ state[i] = "absent"
    /\ state' = [state EXCEPT ![i] = "requested"]
    /\ UNCHANGED result

(* A requested command is completed with one outcome, once. *)
Complete(i) ==
    /\ state[i] = "requested"
    /\ \E o \in Outcomes :
         /\ state' = [state EXCEPT ![i] = o[1]]
         /\ result' = [result EXCEPT ![i] = o[2]]

(* Housekeeping deletes a set of present commands at once. *)
Expire(S) ==
    /\ S # {}
    /\ \A i \in S : state[i] \notin {"absent", "deleted"}
    /\ state' = [i \in Ids |-> IF i \in S THEN "deleted" ELSE state[i]]
    /\ UNCHANGED result

Next ==
    \/ \E i \in Ids : Enqueue(i) \/ Complete(i)
    \/ \E S \in SUBSET Ids : Expire(S)

Spec == Init /\ [][Next]_<<state, result>>
=============================================================================
