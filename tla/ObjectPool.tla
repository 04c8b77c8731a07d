------------------------------ MODULE ObjectPool ------------------------------
(***************************************************************************)
(* What a memory pool promises its users: an object is in the hands of at  *)
(* most one thread, and only a free object is handed out.                  *)
(***************************************************************************)
CONSTANTS Threads, Objects

VARIABLE held  \* the objects each thread has got and not yet put back

Init == held = [t \in Threads |-> {}]

Free == Objects \ UNION {held[t] : t \in Threads}

Get(t) ==
  \E objs \in (SUBSET Free) \ {{}} : held' = [held EXCEPT ![t] = @ \cup objs]

Put(t) ==
  \E objs \in (SUBSET held[t]) \ {{}} : held' = [held EXCEPT ![t] = @ \ objs]

(* The users may pass objects on among themselves. *)
Pass(t, u) ==
  \E o \in held[t] : held' = [held EXCEPT ![t] = @ \ {o}, ![u] = @ \cup {o}]

Next ==
  \/ \E t \in Threads : Get(t) \/ Put(t)
  \/ \E t, u \in Threads : t # u /\ Pass(t, u)

Spec == Init /\ [][Next]_held
=============================================================================
