---------------------------- MODULE AtLeastOnce ----------------------------
(***************************************************************************)
(* What a durable queue of this code promises to whoever puts a message    *)
(* in: the queue holds the message until a handler has run for it, however *)
(* often it has to be handed out, and only closing the queue as a whole    *)
(* (deleting its topic) discards what it holds.  "Inbox files are          *)
(* at-least-once" (runtime/inbox.ts), "Delivery: at-least-once"            *)
(* (outbox/file-ops.ts).  SessionInbox implements it.                      *)
(***************************************************************************)
CONSTANT Message

VARIABLES
  open,      \* the queue takes messages
  held,      \* the messages the queue answers for
  handled    \* the messages a handler has run for

Init == open = TRUE /\ held = {} /\ handled = {}

Accept(m) ==
  /\ open
  /\ m \notin held \cup handled
  /\ held' = held \cup {m}
  /\ UNCHANGED <<open, handled>>

(* Again, too: a message may be handled any number of times. *)
Handle(m) ==
  /\ m \in held
  /\ handled' = handled \cup {m}
  /\ UNCHANGED <<open, held>>

Forget(messages) ==
  /\ messages \subseteq held \cap handled
  /\ held' = held \ messages
  /\ UNCHANGED <<open, handled>>

Close ==
  /\ open
  /\ open' = FALSE
  /\ held' = {}
  /\ UNCHANGED handled

Next ==
  \/ \E m \in Message : Accept(m) \/ Handle(m)
  \/ \E messages \in SUBSET Message : Forget(messages)
  \/ Close

Spec == Init /\ [][Next]_<<open, held, handled>>
=============================================================================
