----------------------------- MODULE BoundedLog -----------------------------
(***************************************************************************)
(* What the logger promises, with no worker and no channel in sight: each  *)
(* entry gets one fate.  It is dropped only while BufferSize entries or    *)
(* more wait to be written, refused only after Close began, and an entry   *)
(* that is accepted is written in its turn, once; the log is closed only   *)
(* when none waits, so that only an entry which came late can be left.     *)
(***************************************************************************)
EXTENDS Integers, Sequences

CONSTANTS Handlers, BufferSize

VARIABLES written,   \* the entries written, in order
          waiting,   \* those accepted and not yet written, in order
          fate,      \* what became of each handler's entry
          state      \* open, closing or closed

Init ==
    /\ written = <<>> /\ waiting = <<>>
    /\ fate = [h \in Handlers |-> "none"]
    /\ state = "open"

Meets(h, end) ==
    /\ fate[h] = "none"
    /\ fate' = [fate EXCEPT ![h] = end]
    /\ UNCHANGED <<written, state>>

Accept(h) ==
    /\ Len(waiting) <= BufferSize
    /\ Meets(h, IF state = "open" THEN "accepted" ELSE "late")
    /\ waiting' = Append(waiting, h)

Drop(h) ==
    /\ state = "open" /\ Len(waiting) >= BufferSize
    /\ Meets(h, "dropped")
    /\ UNCHANGED waiting

Refuse(h) ==
    /\ state # "open"
    /\ Meets(h, "refused")
    /\ UNCHANGED waiting

Deliver ==
    /\ state # "closed" /\ waiting # <<>>
    /\ written' = Append(written, Head(waiting))
    /\ waiting' = Tail(waiting)
    /\ UNCHANGED <<fate, state>>

Close ==
    /\ state = "open"
    /\ state' = "closing"
    /\ UNCHANGED <<written, waiting, fate>>

Finish ==
    /\ state = "closing" /\ waiting = <<>>
    /\ state' = "closed"
    /\ UNCHANGED <<written, waiting, fate>>

Next ==
    \/ \E h \in Handlers : Accept(h) \/ Drop(h) \/ Refuse(h)
    \/ Deliver
    \/ Close
    \/ Finish

Spec == Init /\ [][Next]_<<written, waiting, fate, state>>
=============================================================================
