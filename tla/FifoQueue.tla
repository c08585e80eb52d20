------------------------------ MODULE FifoQueue ------------------------------
(***************************************************************************)
(* What a blocking queue promises its callers, without a mutex or a        *)
(* condition variable: items leave in the order they were put; a caller    *)
(* inside pop receives an item or, once the queue was closed, may leave    *)
(* empty-handed; and an item is not left lying while a caller asks for it. *)
(***************************************************************************)
EXTENDS Sequences

CONSTANTS Consumers, Items, NoItem

VARIABLES queue,    \* the items put and not yet taken, oldest first
          popping,  \* the consumers inside a call of pop
          got,      \* what each consumer's last finished pop returned
          closed    \* TRUE once the queue was terminated

vars == <<queue, popping, got, closed>>

Init ==
  /\ queue = <<>>
  /\ popping = {}
  /\ got = [c \in Consumers |-> NoItem]
  /\ closed = FALSE

Put(item) ==
  /\ queue' = Append(queue, item)
  /\ UNCHANGED <<popping, got, closed>>

Call(c) ==
  /\ c \notin popping
  /\ popping' = popping \cup {c}
  /\ UNCHANGED <<queue, got, closed>>

Take(c) ==
  /\ c \in popping
  /\ queue # <<>>
  /\ got' = [got EXCEPT ![c] = Head(queue)]
  /\ queue' = Tail(queue)
  /\ popping' = popping \ {c}
  /\ UNCHANGED closed

Abandon(c) ==
  /\ c \in popping
  /\ closed
  /\ got' = [got EXCEPT ![c] = NoItem]
  /\ popping' = popping \ {c}
  /\ UNCHANGED <<queue, closed>>

Close ==
  /\ closed' = TRUE
  /\ UNCHANGED <<queue, popping, got>>

Next ==
  \/ \E item \in Items : Put(item)
  \/ \E c \in Consumers : Call(c) \/ Take(c) \/ Abandon(c)
  \/ Close

SafeSpec == Init /\ [][Next]_vars

Spec == SafeSpec /\ WF_vars(\E c \in Consumers : Take(c))
=============================================================================
