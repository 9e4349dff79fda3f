----------------------------- MODULE AsrLogger ------------------------------
(***************************************************************************)
(* internal/asrlog/logger.go: handlers hand their log entries to a bounded *)
(* channel, one worker writes them, and Close cancels a context and waits  *)
(* for the worker to drain the channel.  Nothing closes the channel: a     *)
(* handler that has seen the context alive may still send after the cancel *)
(* and even after the worker has gone.                                     *)
(*                                                                         *)
(* An entry is the handler that made it; each makes one.                   *)
(***************************************************************************)
EXTENDS Integers, Sequences

CONSTANTS Handlers,     \* requests that log an entry
          BufferSize    \* bufSize, positive: LoadFromEnv ignores other values

ASSUME BufferConstant == BufferSize \in Nat \ {0}

VARIABLES
    ch,         \* l.ch
    canceled,   \* l.ctx is done
    worker,     \* where the worker goroutine is
    hand,       \* the entry it is writing, as a sequence of at most one
    enq,        \* where each handler is in Enqueue
    written,    \* the entries writeEntry is done with, in order
    accepted,   \* history: the entries sent to the channel, in order
    late        \* history: those sent after the cancel

channel    == <<ch, accepted, late>>
loggerVars == <<ch, canceled, worker, hand, enq, written, accepted, late>>

LoggerInit ==
    /\ ch = <<>> /\ canceled = FALSE
    /\ worker = "select" /\ hand = <<>>
    /\ enq = [h \in Handlers |-> "before"]
    /\ written = <<>> /\ accepted = <<>> /\ late = {}

-----------------------------------------------------------------------------
(* Enqueue: the test of the context, then a select that never waits.       *)
Check(h) ==
    /\ enq[h] = "before"
    /\ enq' = [enq EXCEPT ![h] = IF canceled THEN "refused" ELSE "checked"]
    /\ UNCHANGED <<channel, canceled, worker, hand, written>>

(* Mutant of Room: off by one.                                             *)
RoomForOneMore == Len(ch) <= BufferSize

Room == Len(ch) < BufferSize

Send(h) ==
    /\ enq[h] = "checked"
    /\ Room
    /\ ch' = Append(ch, h)
    /\ accepted' = Append(accepted, h)
    /\ late' = IF canceled THEN late \cup {h} ELSE late
    /\ enq' = [enq EXCEPT ![h] = "sent"]
    /\ UNCHANGED <<canceled, worker, hand, written>>

SeeDone(h) ==
    /\ enq[h] = "checked"
    /\ canceled
    /\ enq' = [enq EXCEPT ![h] = "refused"]
    /\ UNCHANGED <<channel, canceled, worker, hand, written>>

Drop(h) ==
    /\ enq[h] = "checked"
    /\ ~Room /\ ~canceled
    /\ enq' = [enq EXCEPT ![h] = "dropped"]
    /\ UNCHANGED <<channel, canceled, worker, hand, written>>

Enqueue(h) == Check(h) \/ Send(h) \/ SeeDone(h) \/ Drop(h)

-----------------------------------------------------------------------------
(* The worker: a select between an entry and the cancel, then the drain.   *)
Receive ==
    /\ worker \in {"select", "drain"}
    /\ hand = <<>>
    /\ ch # <<>>
    /\ hand' = <<Head(ch)>>
    /\ ch' = Tail(ch)
    /\ UNCHANGED <<accepted, late, canceled, worker, enq, written>>

(* Mutant of Write: nothing is written once the context is done.           *)
WriteUnlessCanceled ==
    /\ hand # <<>>
    /\ written' = IF canceled THEN written ELSE written \o hand
    /\ hand' = <<>>
    /\ UNCHANGED <<channel, canceled, worker, enq>>

(* writeEntry returns, whether or not the files could be written.          *)
Write ==
    /\ hand # <<>>
    /\ written' = written \o hand
    /\ hand' = <<>>
    /\ UNCHANGED <<channel, canceled, worker, enq>>

(* Mutants of StartDrain and EndDrain: the worker leaves at once; it waits *)
(* for the handlers that may still send.                                   *)
LeaveAtOnce ==
    /\ worker = "select" /\ hand = <<>>
    /\ canceled
    /\ worker' = "exited"
    /\ UNCHANGED <<channel, canceled, hand, enq, written>>

EndDrainAfterSenders ==
    /\ worker = "drain" /\ hand = <<>>
    /\ ch = <<>>
    /\ \A h \in Handlers : enq[h] # "checked"
    /\ worker' = "exited"
    /\ UNCHANGED <<channel, canceled, hand, enq, written>>

StartDrain ==
    /\ worker = "select" /\ hand = <<>>
    /\ canceled
    /\ worker' = "drain"
    /\ UNCHANGED <<channel, canceled, hand, enq, written>>

EndDrain ==
    /\ worker = "drain" /\ hand = <<>>
    /\ ch = <<>>
    /\ worker' = "exited"
    /\ UNCHANGED <<channel, canceled, hand, enq, written>>

(* What the worker does between two entries.                               *)
Take == Receive \/ StartDrain \/ EndDrain

(* Close: the cancel, and the wait for the worker that ends when it exits. *)
Cancel ==
    /\ ~canceled
    /\ canceled' = TRUE
    /\ UNCHANGED <<channel, worker, hand, enq, written>>

-----------------------------------------------------------------------------
(* Every variable of the logger holds a value of its type.                 *)
LoggerTypeOK ==
    /\ ch \in Seq(Handlers) /\ Len(ch) <= BufferSize
    /\ canceled \in BOOLEAN
    /\ worker \in {"select", "drain", "exited"}
    /\ hand \in Seq(Handlers) /\ Len(hand) <= 1
    /\ enq \in [Handlers -> {"before", "checked", "sent", "refused", "dropped"}]
    /\ written \in Seq(Handlers) /\ accepted \in Seq(Handlers)
    /\ late \subseteq Handlers

(* The worker passes on what was accepted in the order it was, without     *)
(* loss, repetition or overtaking, up to what is still on its way.         *)
InOrderOnce == accepted = written \o hand \o ch

(* Once Close can return, everything accepted before the cancel has been   *)
(* through writeEntry: only an entry sent after the cancel can be left.    *)
OnlyLateLost ==
    worker = "exited" => \A n \in DOMAIN ch : ch[n] \in late

-----------------------------------------------------------------------------
(* The logger is a BoundedLog: what waits is in the worker's hand and in   *)
(* the channel, a handler between the test and the select has no fate yet, *)
(* and the log is closed when the worker is gone.                          *)
OnItsWay == hand \o ch

FateOf(h) ==
    CASE enq[h] \in {"before", "checked"} -> "none"
      [] enq[h] = "sent" /\ h \notin late -> "accepted"
      [] enq[h] = "sent" /\ h \in late -> "late"
      [] OTHER -> enq[h]

Fates == [h \in Handlers |-> FateOf(h)]

StateOfLog ==
    CASE worker = "exited" -> "closed"
      [] canceled /\ worker # "exited" -> "closing"
      [] OTHER -> "open"

LogPromise == INSTANCE BoundedLog WITH
    waiting <- OnItsWay, fate <- Fates, state <- StateOfLog

(* However Enqueue, the worker and Close interleave, an entry is dropped   *)
(* only when the channel is full, refused only after the cancel, and what  *)
(* was accepted is written in order and once, all of it before Close can   *)
(* return but for what was sent after the cancel.                          *)
KeepsLogPromise == LogPromise!Spec
=============================================================================
