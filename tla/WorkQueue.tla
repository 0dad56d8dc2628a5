------------------------------ MODULE WorkQueue ------------------------------
(***************************************************************************)
(* What manual acknowledgement promises of a queue, with connections,      *)
(* channels, tags and processes left out: a message is worked on by one    *)
(* delivery at a time that counts, it comes back if that delivery is lost, *)
(* and it is forgotten only after that very delivery has ended.  Where     *)
(* Strays is TRUE the last promise is off, and only that one: an answer    *)
(* may settle a message that another delivery is working on.               *)
(***************************************************************************)

CONSTANTS Items,
          Strays   \* whether answers may go astray

VARIABLE at    \* at[i]: "absent", "ready", "running", "done", "acked" or "dropped"

\* A run may begin with items that are in the queue already.
Init == at \in [Items -> {"absent", "ready"}]

Moves(i, from, to) == at[i] = from /\ at' = [at EXCEPT ![i] = to]

Arrive(i) == Moves(i, "absent", "ready")
Take(i) == Moves(i, "ready", "running")
Finish(i) == Moves(i, "running", "done")
Ack(i) == Moves(i, "done", "acked")

Unacked(i) == at[i] \in {"running", "done"}

\* The handler gives up, with a nack without requeue.
Drop(i) == Unacked(i) /\ at' = [at EXCEPT ![i] = "dropped"]

\* An answer meant for another delivery settles i.
Stray(i) ==
    /\ Strays
    /\ Unacked(i)
    /\ \E how \in {"acked", "dropped"} : at' = [at EXCEPT ![i] = how]

\* Deliveries are lost, one or all those of a connection or process at once.
Return(I) ==
    /\ \A i \in I : Unacked(i)
    /\ at' = [i \in Items |-> IF i \in I THEN "ready" ELSE at[i]]

Next ==
    \/ \E i \in Items : Arrive(i) \/ Take(i) \/ Finish(i) \/ Ack(i) \/ Drop(i) \/ Stray(i)
    \/ \E I \in SUBSET Items : Return(I)

Spec == Init /\ [][Next]_at

=============================================================================
