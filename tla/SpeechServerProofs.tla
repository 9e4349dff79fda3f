------------------------- MODULE SpeechServerProofs -------------------------
(***************************************************************************)
(* Theorems about the logger and the files of SpeechServer for any set of  *)
(* requests, size of the channel, clock, retention and number of failures. *)
(***************************************************************************)
EXTENDS SpeechServer, SequenceTheorems, WellFoundedInduction, TLAPS

(* Whatever happens to the files, the worker does to the logger what one   *)
(* of these four actions does, or nothing.                                 *)
LoggerWork == Receive \/ Write \/ StartDrain \/ EndDrain \/ UNCHANGED loggerVars

LEMMA WorkOnLogger == ASSUME WorkStep PROVE LoggerWork /\ UNCHANGED serverVars
<1>1. UNCHANGED serverVars /\ Work
  BY DEF WorkStep
<1>2. CASE Take /\ UNCHANGED filesVars
  BY <1>1, <1>2 DEF Take, LoggerWork
<1>3. CASE WriteEntry
  <2>1. PICK h : \/ MakeDir(h)
                 \/ WriteNext(h)
    BY <1>3 DEF WriteEntry
  <2>2. CASE MakeDir(h)
    BY <2>2, <1>1 DEF MakeDir, LoggerWork
  <2>3. CASE WriteNext(h)
    BY <2>3, <1>1 DEF WriteNext, LoggerWork
  <2> QED BY <2>1, <2>2, <2>3
<1> QED BY <1>1, <1>2, <1>3 DEF Work

-----------------------------------------------------------------------------
LEMMA LoggerTypeInit == Init => LoggerTypeOK
<1> SUFFICES ASSUME Init PROVE LoggerTypeOK
  OBVIOUS
<1>1. << >> \in Seq(Handlers) /\ Len(<< >>) = 0
  BY EmptySeq
<1>2. /\ ch = << >> /\ hand = << >> /\ written = << >> /\ accepted = << >>
      /\ late = {} /\ canceled = FALSE /\ worker = "select"
  BY DEF Init, LoggerInit
<1>3. enq \in [Handlers -> {"before", "checked", "sent", "refused", "dropped"}]
  BY DEF Init, LoggerInit
<1>4. /\ ch \in Seq(Handlers) /\ hand \in Seq(Handlers)
      /\ written \in Seq(Handlers) /\ accepted \in Seq(Handlers)
  BY <1>1, <1>2, Zenon
<1>5. Len(ch) = 0 /\ Len(hand) = 0
  BY <1>1, <1>2, Zenon
<1>6. Len(ch) <= BufferSize /\ Len(hand) <= 1
  BY <1>5, BufferConstant
<1>7. canceled \in BOOLEAN /\ worker \in {"select", "drain", "exited"} /\ late \subseteq Handlers
  BY <1>2
<1> QED BY <1>3, <1>4, <1>6, <1>7 DEF LoggerTypeOK

LEMMA LoggerTypeStep == LoggerTypeOK /\ [Next]_vars => LoggerTypeOK'
<1> SUFFICES ASSUME LoggerTypeOK, [Next]_vars PROVE LoggerTypeOK'
  OBVIOUS
<1> USE BufferConstant DEF LoggerTypeOK, channel
<1>1. CASE UNCHANGED loggerVars
  BY <1>1 DEF loggerVars
<1>2. ASSUME NEW h \in Handlers, LogEntry(h) PROVE LoggerTypeOK'
  <2>1. CASE Check(h)
    BY <2>1 DEF Check
  <2>2. CASE Send(h)
    <3>1. ch' = Append(ch, h) /\ Len(ch) < BufferSize /\ accepted' = Append(accepted, h)
      BY <2>2 DEF Send, Room
    <3>2. ch' \in Seq(Handlers) /\ Len(ch') = Len(ch) + 1 /\ accepted' \in Seq(Handlers)
      BY <3>1
    <3> QED BY <2>2, <3>1, <3>2 DEF Send
  <2>3. CASE SeeDone(h)
    BY <2>3 DEF SeeDone
  <2>4. CASE Drop(h)
    BY <2>4 DEF Drop
  <2> QED BY <1>2, <2>1, <2>2, <2>3, <2>4 DEF LogEntry, Enqueue
<1>3. CASE Receive
  <2>1. ch # <<>> /\ hand' = <<Head(ch)>> /\ ch' = Tail(ch)
    BY <1>3 DEF Receive
  <2>2. Head(ch) \in Handlers /\ Tail(ch) \in Seq(Handlers) /\ Len(Tail(ch)) <= Len(ch)
    BY <2>1
  <2> QED BY <1>3, <2>1, <2>2 DEF Receive
<1>4. CASE Write
  <2>1. written' = written \o hand /\ written' \in Seq(Handlers)
    BY <1>4 DEF Write
  <2> QED BY <1>4, <2>1 DEF Write
<1>5. CASE StartDrain
  BY <1>5 DEF StartDrain
<1>6. CASE EndDrain
  BY <1>6 DEF EndDrain
<1>7. CASE Cancel
  BY <1>7 DEF Cancel
<1>8. LoggerWork => LoggerTypeOK'
  BY <1>1, <1>3, <1>4, <1>5, <1>6 DEF LoggerWork
<1>9. CASE Main
  BY <1>9, <1>1, <1>7 DEF Main, ShutdownDone, ShutdownTimeout, CloseLogger, LoggerClosed, CleanerClosed
<1> QED
  BY <1>1, <1>2, <1>8, <1>9, WorkOnLogger
  DEF Next, vars, Accept, Respond, CleanAgain, RemoveStep, CleanerEnds, Tick, Signal,
      ReadDir, Remove, OpenDir, Unlink, RemoveDir, Unchanging

(* The variables of the logger keep their types.                           *)
THEOREM LoggerTypes == Spec => []LoggerTypeOK
BY LoggerTypeInit, LoggerTypeStep, PTL DEF Spec

-----------------------------------------------------------------------------
(* The order, step by step: an entry is accepted at the end of the channel,*)
(* goes from its head to the hand and from there to what is written.       *)
LEMMA OrderInit == Init => InOrderOnce
<1> SUFFICES ASSUME Init PROVE InOrderOnce
  OBVIOUS
<1>1. << >> \in Seq(Handlers)
  BY EmptySeq
<1>2. << >> \o << >> = << >>
  BY <1>1, ConcatEmptySeq
<1>3. /\ ch = << >> /\ hand = << >> /\ written = << >> /\ accepted = << >>
  BY DEF Init, LoggerInit
<1> QED BY <1>2, <1>3, Zenon DEF InOrderOnce

LEMMA OrderSend ==
    ASSUME LoggerTypeOK, InOrderOnce, NEW h \in Handlers, Send(h)
    PROVE  InOrderOnce'
<1>1. /\ ch' = Append(ch, h) /\ accepted' = Append(accepted, h)
      /\ written' = written /\ hand' = hand
  BY DEF Send
<1> DEFINE before == written \o hand
<1>2. /\ before \in Seq(Handlers) /\ ch \in Seq(Handlers) /\ accepted \in Seq(Handlers)
      /\ <<h>> \in Seq(Handlers)
  BY DEF LoggerTypeOK
<1> HIDE DEF before
<1>3. Append(ch, h) = ch \o <<h>> /\ Append(accepted, h) = accepted \o <<h>>
  BY <1>2, AppendIsConcat
<1>4. (before \o ch) \o <<h>> = before \o (ch \o <<h>>)
  BY <1>2, ConcatAssociative
<1> QED BY <1>1, <1>3, <1>4, Zenon DEF InOrderOnce, before

LEMMA OrderReceive ==
    ASSUME LoggerTypeOK, InOrderOnce, Receive
    PROVE  InOrderOnce'
<1>1. /\ hand = << >> /\ ch # << >> /\ hand' = <<Head(ch)>> /\ ch' = Tail(ch)
      /\ written' = written /\ accepted' = accepted
  BY DEF Receive
<1>2. /\ written \in Seq(Handlers) /\ ch \in Seq(Handlers)
  BY DEF LoggerTypeOK
<1>3. Head(ch) \in Handlers /\ Tail(ch) \in Seq(Handlers) /\ <<Head(ch)>> \in Seq(Handlers)
  BY <1>1, <1>2
<1>4. <<Head(ch)>> \o Tail(ch) = ch
  BY <1>1, <1>2, <1>3
<1>5. (written \o <<Head(ch)>>) \o Tail(ch) = written \o (<<Head(ch)>> \o Tail(ch))
  BY <1>2, <1>3, ConcatAssociative
<1>6. written \o << >> = written
  BY <1>2, ConcatEmptySeq
<1>7. accepted = (written \o << >>) \o ch
  BY <1>1, Zenon DEF InOrderOnce
<1>8. accepted = (written \o <<Head(ch)>>) \o Tail(ch)
  BY <1>4, <1>5, <1>6, <1>7, Zenon
<1> QED BY <1>1, <1>8, Zenon DEF InOrderOnce

LEMMA OrderWrite ==
    ASSUME LoggerTypeOK, InOrderOnce, Write
    PROVE  InOrderOnce'
<1>1. /\ written' = written \o hand /\ hand' = << >>
      /\ ch' = ch /\ accepted' = accepted
  BY DEF Write, channel
<1>2. written \o hand \in Seq(Handlers)
  BY DEF LoggerTypeOK
<1>3. (written \o hand) \o << >> = written \o hand
  BY <1>2, ConcatEmptySeq
<1> QED BY <1>1, <1>3, Zenon DEF InOrderOnce

LEMMA OrderStep == LoggerTypeOK /\ InOrderOnce /\ [Next]_vars => InOrderOnce'
<1> SUFFICES ASSUME LoggerTypeOK, InOrderOnce, [Next]_vars PROVE InOrderOnce'
  OBVIOUS
<1>1. CASE UNCHANGED <<accepted, written, hand, ch>>
  BY <1>1 DEF InOrderOnce
<1>2. ASSUME NEW h \in Handlers, LogEntry(h) PROVE InOrderOnce'
  BY <1>2, <1>1, OrderSend DEF LogEntry, Enqueue, Check, SeeDone, Drop, channel
<1>3. LoggerWork => InOrderOnce'
  BY <1>1, OrderReceive, OrderWrite DEF LoggerWork, StartDrain, EndDrain, channel, loggerVars
<1>4. Main => InOrderOnce'
  BY <1>1 DEF Main, ShutdownDone, ShutdownTimeout, CloseLogger, Cancel, LoggerClosed,
              CleanerClosed, channel, loggerVars
<1> QED
  BY <1>1, <1>2, <1>3, <1>4, WorkOnLogger
  DEF Next, vars, loggerVars, Accept, Respond, CleanAgain, RemoveStep, CleanerEnds, Tick, Signal,
      ReadDir, Remove, OpenDir, Unlink, RemoveDir, Unchanging

(* However many requests log and however long the channel is, the worker   *)
(* passes on what Enqueue accepted in that order, nothing lost and nothing *)
(* twice.                                                                  *)
THEOREM OrderKept == Spec => []InOrderOnce
<1>1. Init => LoggerTypeOK /\ InOrderOnce
  BY LoggerTypeInit, OrderInit
<1>2. LoggerTypeOK /\ InOrderOnce /\ [Next]_vars => (LoggerTypeOK /\ InOrderOnce)'
  BY LoggerTypeStep, OrderStep
<1> QED BY <1>1, <1>2, PTL DEF Spec

-----------------------------------------------------------------------------
(* The order of the shutdown.  Every conjunct is about the order of two    *)
(* things: the worker goes when it has been told to and the channel is     *)
(* empty, so that what is left there came late; the logger is told to      *)
(* close after Shutdown, which left only the abandoned requests running,   *)
(* and the process ends after the worker.                                  *)
WorkerLeavesLast ==
    /\ worker # "select" => canceled
    /\ worker = "exited" => hand = << >> /\ \A n \in DOMAIN ch : ch[n] \in late

LateWereAbandoned ==
    /\ late \subseteq abandoned
    /\ \A h \in Handlers : enq[h] = "refused" => h \in abandoned

ShutdownInOrder ==
    /\ main \in {"serving", "shutdown", "close", "closing_logger", "closing_cleaner", "exited"}
    /\ request \in [Handlers -> {"absent", "serving", "answered"}]
    /\ main \in {"serving", "shutdown"} => abandoned = {}
    /\ main \notin {"serving", "shutdown"} => InFlight \subseteq abandoned
    /\ canceled <=> main \in {"closing_logger", "closing_cleaner", "exited"}
    /\ main \in {"closing_cleaner", "exited"} => worker = "exited"

SentAreAccepted ==
    \A h \in Handlers : enq[h] = "sent" => \E n \in DOMAIN accepted : accepted[n] = h

ShutdownInv ==
    /\ LoggerTypeOK /\ InOrderOnce
    /\ WorkerLeavesLast /\ LateWereAbandoned /\ ShutdownInOrder /\ SentAreAccepted

LEMMA ShutdownInit == Init => ShutdownInv
<1> SUFFICES ASSUME Init PROVE ShutdownInv
  OBVIOUS
<1>1. WorkerLeavesLast /\ LateWereAbandoned /\ SentAreAccepted
  BY DEF Init, LoggerInit, WorkerLeavesLast, LateWereAbandoned, SentAreAccepted
<1>2. ShutdownInOrder
  BY DEF Init, LoggerInit, ShutdownInOrder
<1> QED BY <1>1, <1>2, LoggerTypeInit, OrderInit DEF ShutdownInv

LEMMA ShutdownLog ==
    ASSUME ShutdownInv, NEW h \in Handlers, Running, LogEntry(h)
    PROVE  WorkerLeavesLast' /\ LateWereAbandoned' /\ ShutdownInOrder' /\ SentAreAccepted'
<1> USE DEF ShutdownInv
<1>1. /\ request[h] = "serving" /\ Enqueue(h)
      /\ UNCHANGED <<main, request, abandoned>>
  BY DEF LogEntry, serverVars
<1>2. UNCHANGED <<canceled, worker, hand>>
  BY <1>1 DEF Enqueue, Check, Send, SeeDone, Drop
<1>3. ShutdownInOrder'
  BY <1>1, <1>2 DEF ShutdownInOrder, InFlight
<1>4. canceled => h \in abandoned
  BY <1>1 DEF ShutdownInOrder, InFlight
<1>5. CASE Send(h)
  <2>1. /\ ch' = Append(ch, h) /\ accepted' = Append(accepted, h)
        /\ late' = IF canceled THEN late \cup {h} ELSE late
        /\ enq' = [enq EXCEPT ![h] = "sent"]
    BY <1>5 DEF Send
  <2>2. LateWereAbandoned'
    BY <1>1, <1>4, <2>1 DEF LateWereAbandoned, LoggerTypeOK
  <2>3. ch \in Seq(Handlers) /\ accepted \in Seq(Handlers)
    BY DEF LoggerTypeOK
  <2>4. ASSUME worker = "exited", NEW n \in DOMAIN ch' PROVE ch'[n] \in late'
    <3>1. canceled /\ h \in late' /\ late \subseteq late'
      BY <2>1, <2>4 DEF WorkerLeavesLast
    <3>2. n \in 1..(Len(ch) + 1) /\ ch'[n] = IF n <= Len(ch) THEN ch[n] ELSE h
      BY <2>1, <2>3, <2>4
    <3>3. n <= Len(ch) => ch[n] \in late
      BY <2>3, <2>4, <3>2 DEF WorkerLeavesLast
    <3> QED BY <3>1, <3>2, <3>3
  <2>5. WorkerLeavesLast'
    BY <1>2, <2>4 DEF WorkerLeavesLast
  <2>6. ASSUME NEW g \in Handlers, enq'[g] = "sent"
        PROVE  \E n \in DOMAIN accepted' : accepted'[n] = g
    <3>1. /\ DOMAIN accepted = 1..Len(accepted) /\ DOMAIN accepted' = 1..(Len(accepted) + 1)
          /\ \A n \in 1..Len(accepted) : accepted'[n] = accepted[n]
          /\ accepted'[Len(accepted) + 1] = h
          /\ Len(accepted) \in Nat
      BY <2>1, <2>3
    <3>2. CASE g = h
      BY <3>1, <3>2
    <3>3. CASE g # h
      <4>1. enq[g] = "sent"
        BY <2>1, <2>6, <3>3 DEF LoggerTypeOK
      <4>2. PICK n \in DOMAIN accepted : accepted[n] = g
        BY <4>1 DEF SentAreAccepted
      <4> QED BY <3>1, <4>2
    <3> QED BY <3>2, <3>3
  <2> QED BY <1>3, <2>2, <2>5, <2>6 DEF SentAreAccepted
<1>6. CASE UNCHANGED channel /\ ~Send(h)
  <2>1. ASSUME NEW g \in Handlers, enq'[g] = "sent" PROVE enq[g] = "sent"
    BY <1>1, <1>6, <2>1 DEF Enqueue, Check, SeeDone, Drop, LoggerTypeOK
  <2>2. ASSUME NEW g \in Handlers, enq'[g] = "refused" PROVE g \in abandoned
    <3>1. CASE canceled /\ g = h
      BY <1>4, <3>1
    <3>2. CASE canceled /\ g # h
      <4>1. enq[g] = "refused"
        BY <1>1, <1>6, <2>2, <3>2 DEF Enqueue, Check, SeeDone, Drop, LoggerTypeOK
      <4> QED BY <4>1 DEF LateWereAbandoned
    <3>3. CASE ~canceled
      <4>1. enq[g] = "refused"
        BY <1>1, <1>6, <2>2, <3>3 DEF Enqueue, Check, SeeDone, Drop, LoggerTypeOK
      <4> QED BY <4>1 DEF LateWereAbandoned
    <3> QED BY <3>1, <3>2, <3>3
  <2>3. UNCHANGED <<ch, accepted, late, abandoned>>
    BY <1>1, <1>6 DEF channel
  <2>4. LateWereAbandoned'
    BY <2>2, <2>3 DEF LateWereAbandoned
  <2>5. WorkerLeavesLast' /\ SentAreAccepted'
    BY <1>2, <2>1, <2>3 DEF WorkerLeavesLast, SentAreAccepted
  <2> QED BY <1>3, <2>4, <2>5
<1> QED BY <1>1, <1>5, <1>6 DEF Enqueue, Check, SeeDone, Drop

LEMMA ShutdownWork ==
    ASSUME ShutdownInv, Receive \/ Write \/ StartDrain \/ EndDrain, UNCHANGED serverVars
    PROVE  WorkerLeavesLast' /\ LateWereAbandoned' /\ ShutdownInOrder' /\ SentAreAccepted'
<1> USE DEF ShutdownInv
<1>1. UNCHANGED <<late, accepted, enq, canceled, main, request, abandoned>>
  BY DEF Receive, Write, StartDrain, EndDrain, channel, serverVars
<1>2. worker # "exited"
  BY DEF Receive, Write, StartDrain, EndDrain, WorkerLeavesLast
<1>3. LateWereAbandoned' /\ SentAreAccepted'
  BY <1>1 DEF LateWereAbandoned, SentAreAccepted
<1>4. ShutdownInOrder'
  BY <1>1, <1>2 DEF ShutdownInOrder, InFlight
<1>5. WorkerLeavesLast'
  BY <1>1, <1>2 DEF Receive, Write, StartDrain, EndDrain, channel, WorkerLeavesLast
<1> QED BY <1>3, <1>4, <1>5

LEMMA ShutdownMain ==
    ASSUME ShutdownInv, Main \/ Signal
    PROVE  WorkerLeavesLast' /\ LateWereAbandoned' /\ ShutdownInOrder' /\ SentAreAccepted'
<1> USE DEF ShutdownInv, MainGoes
<1>1. /\ UNCHANGED <<request, ch, worker, hand, enq, late, accepted>>
      /\ UNCHANGED canceled \/ CloseLogger
  BY DEF Main, Signal, ShutdownDone, ShutdownTimeout, CloseLogger, LoggerClosed, CleanerClosed,
         Cancel, loggerVars, channel
<1>2. \/ late = {} /\ (\A h \in Handlers : enq[h] # "refused")
      \/ UNCHANGED abandoned
  BY DEF Main, Signal, ShutdownDone, ShutdownTimeout, CloseLogger, LoggerClosed, CleanerClosed,
         LateWereAbandoned, ShutdownInOrder
<1>3. LateWereAbandoned'
  BY <1>1, <1>2 DEF LateWereAbandoned
<1>4. WorkerLeavesLast' /\ SentAreAccepted'
  BY <1>1 DEF WorkerLeavesLast, SentAreAccepted, Main, Signal, ShutdownDone, ShutdownTimeout,
              CloseLogger, LoggerClosed, CleanerClosed, Cancel, loggerVars
<1>5. ShutdownInOrder'
  <2>1. CASE Signal
    BY <2>1, <1>1 DEF Signal, ShutdownInOrder, InFlight, loggerVars
  <2>2. CASE ShutdownDone
    BY <2>2, <1>1 DEF ShutdownDone, ShutdownInOrder, InFlight, loggerVars
  <2>3. CASE ShutdownTimeout
    BY <2>3, <1>1 DEF ShutdownTimeout, ShutdownInOrder, InFlight, loggerVars
  <2>4. CASE CloseLogger
    BY <2>4, <1>1 DEF CloseLogger, Cancel, ShutdownInOrder, InFlight
  <2>5. CASE LoggerClosed
    BY <2>5, <1>1 DEF LoggerClosed, ShutdownInOrder, InFlight, loggerVars
  <2>6. CASE CleanerClosed
    BY <2>6, <1>1 DEF CleanerClosed, ShutdownInOrder, InFlight, loggerVars
  <2> QED BY <2>1, <2>2, <2>3, <2>4, <2>5, <2>6 DEF Main
<1> QED BY <1>3, <1>4, <1>5

(* What ShutdownInv adds to the types and the order of the logger.         *)
Rest == WorkerLeavesLast /\ LateWereAbandoned /\ ShutdownInOrder /\ SentAreAccepted

LEMMA ShutdownStutter ==
    ASSUME ShutdownInv, UNCHANGED <<loggerVars, serverVars>> PROVE Rest'
<1>1. UNCHANGED <<ch, canceled, worker, hand, enq, written, accepted, late, main, request, abandoned>>
  BY DEF loggerVars, serverVars
<1>2. WorkerLeavesLast'
  BY <1>1 DEF ShutdownInv, WorkerLeavesLast
<1>3. LateWereAbandoned'
  BY <1>1 DEF ShutdownInv, LateWereAbandoned
<1>4. ShutdownInOrder'
  BY <1>1 DEF ShutdownInv, ShutdownInOrder, InFlight
<1>5. SentAreAccepted'
  BY <1>1 DEF ShutdownInv, SentAreAccepted
<1> QED BY <1>2, <1>3, <1>4, <1>5 DEF Rest

LEMMA ShutdownRequest ==
    ASSUME ShutdownInv, NEW h \in Handlers, Accept(h) \/ Respond(h) PROVE Rest'
<1>1. UNCHANGED <<ch, canceled, worker, hand, enq, written, accepted, late, main, abandoned>>
  BY DEF Accept, Respond, loggerVars
<1>2. \/ request' = [request EXCEPT ![h] = "serving"] /\ main = "serving"
      \/ request' = [request EXCEPT ![h] = "answered"]
  BY DEF Accept, Respond
<1>3. WorkerLeavesLast'
  BY <1>1 DEF ShutdownInv, WorkerLeavesLast
<1>4. LateWereAbandoned'
  BY <1>1 DEF ShutdownInv, LateWereAbandoned
<1>5. ShutdownInOrder'
  BY <1>1, <1>2 DEF ShutdownInv, ShutdownInOrder, InFlight
<1>6. SentAreAccepted'
  BY <1>1 DEF ShutdownInv, SentAreAccepted
<1> QED BY <1>3, <1>4, <1>5, <1>6 DEF Rest

LEMMA ShutdownStep == ShutdownInv /\ [Next]_vars => ShutdownInv'
<1> SUFFICES ASSUME ShutdownInv, [Next]_vars PROVE ShutdownInv'
  OBVIOUS
<1>1. LoggerTypeOK' /\ InOrderOnce'
  BY LoggerTypeStep, OrderStep DEF ShutdownInv
<1>2. UNCHANGED <<loggerVars, serverVars>> => Rest'
  BY ShutdownStutter
<1>3. ASSUME NEW h \in Handlers, Running, Accept(h) \/ LogEntry(h) \/ Respond(h) PROVE Rest'
  BY <1>3, ShutdownLog, ShutdownRequest DEF Rest
<1>4. WorkStep => Rest'
  <2> SUFFICES ASSUME WorkStep PROVE Rest'
    OBVIOUS
  <2>1. LoggerWork /\ UNCHANGED serverVars
    BY WorkOnLogger
  <2>2. CASE UNCHANGED loggerVars
    BY <1>2, <2>1, <2>2
  <2> QED BY <2>1, <2>2, ShutdownWork DEF LoggerWork, Rest
<1>5. Main \/ Signal => Rest'
  BY ShutdownMain DEF Rest
<1>6. CleanAgain \/ RemoveStep => Rest'
  BY <1>2 DEF CleanAgain, RemoveStep, ReadDir, Remove, OpenDir, Unlink, RemoveDir, Unchanging
<1>7. CleanerEnds \/ (Tick /\ UNCHANGED serverVars) => Rest'
  BY <1>2 DEF CleanerEnds, Tick
<1>8. UNCHANGED vars => Rest'
  BY <1>2 DEF vars
<1>9. Rest'
  BY <1>3, <1>4, <1>5, <1>6, <1>7, <1>8 DEF Next
<1> QED BY <1>1, <1>9 DEF ShutdownInv, Rest

LEMMA ShutdownHolds == Spec => []ShutdownInv
BY ShutdownInit, ShutdownStep, PTL DEF Spec

(* When Close can return, only what was sent after the cancel is left in   *)
(* the channel.                                                            *)
THEOREM OnlyLateAreLost == Spec => []OnlyLateLost
<1>1. ShutdownInv => OnlyLateLost
  BY DEF ShutdownInv, WorkerLeavesLast, OnlyLateLost
<1> QED BY <1>1, ShutdownHolds, PTL

(* A stop that lets its requests finish loses no entry, for any number of  *)
(* requests and any size of the channel: what is lost was sent or refused  *)
(* on behalf of a request that Shutdown had given up.                      *)
THEOREM LossesAreAbandoned == Spec => []LossesWereAbandoned
<1>1. ASSUME ShutdownInv, NEW h \in Handlers,
             main = "exited", enq[h] = "sent", \A n \in DOMAIN written : written[n] # h
      PROVE  h \in abandoned
  <2>1. worker = "exited" /\ hand = << >>
    BY <1>1 DEF ShutdownInv, ShutdownInOrder, WorkerLeavesLast
  <2>2. written \in Seq(Handlers) /\ ch \in Seq(Handlers)
    BY <1>1 DEF ShutdownInv, LoggerTypeOK
  <2>3. accepted = written \o ch
    <3>1. written \o << >> = written
      BY <2>2, ConcatEmptySeq
    <3> QED BY <1>1, <2>1, <3>1, Zenon DEF ShutdownInv, InOrderOnce
  <2>4. PICK n \in DOMAIN accepted : accepted[n] = h
    BY <1>1 DEF ShutdownInv, SentAreAccepted
  <2>5. /\ n \in 1..(Len(written) + Len(ch))
        /\ accepted[n] = IF n <= Len(written) THEN written[n] ELSE ch[n - Len(written)]
    BY <2>2, <2>3, <2>4
  <2>6. ~(n <= Len(written))
    BY <1>1, <2>2, <2>4, <2>5
  <2>7. n - Len(written) \in DOMAIN ch /\ ch[n - Len(written)] = h
    BY <2>2, <2>4, <2>5, <2>6
  <2>8. h \in late
    BY <1>1, <2>1, <2>7 DEF ShutdownInv, WorkerLeavesLast
  <2> QED BY <1>1, <2>8 DEF ShutdownInv, LateWereAbandoned
<1>2. ShutdownInv => LossesWereAbandoned
  BY <1>1 DEF LossesWereAbandoned, ShutdownInv, LateWereAbandoned
<1> QED BY <1>2, ShutdownHolds, PTL

-----------------------------------------------------------------------------
(* The refinement.  An entry goes from the channel to the worker's hand,   *)
(* and a handler from the test to the select, in stuttering steps of the   *)
(* promise; the drain starts in one, too.  What is in late was sent after  *)
(* the cancel, so that the fate of an entry is settled when it is sent.    *)
LateIsLate == late # {} => canceled

PromiseInv == ShutdownInv /\ LateIsLate

LEMMA PromiseInvHolds == Spec => []PromiseInv
<1>1. Init => LateIsLate
  BY DEF Init, LoggerInit, LateIsLate
<1>2. LateIsLate /\ [Next]_vars => LateIsLate'
  <2> SUFFICES ASSUME LateIsLate, [Next]_vars PROVE LateIsLate'
    OBVIOUS
  <2>1. CASE UNCHANGED <<late, canceled>>
    BY <2>1 DEF LateIsLate
  <2>2. ASSUME NEW h \in Handlers, LogEntry(h) PROVE LateIsLate'
    BY <2>2 DEF LogEntry, Enqueue, Check, Send, SeeDone, Drop, channel, LateIsLate
  <2>3. LoggerWork => LateIsLate'
    BY <2>1 DEF LoggerWork, Receive, Write, StartDrain, EndDrain, channel, loggerVars
  <2>4. Main => LateIsLate'
    BY <2>1 DEF Main, ShutdownDone, ShutdownTimeout, CloseLogger, Cancel, LoggerClosed,
                CleanerClosed, channel, loggerVars, LateIsLate
  <2> QED
    BY <2>1, <2>2, <2>3, <2>4, WorkOnLogger
    DEF Next, vars, loggerVars, Accept, Respond, CleanAgain, RemoveStep, CleanerEnds, Tick,
        Signal, ReadDir, Remove, OpenDir, Unlink, RemoveDir, Unchanging
<1> QED BY <1>1, <1>2, ShutdownHolds, PTL DEF Spec, PromiseInv

LEMMA LogStates ==
    ASSUME PromiseInv
    PROVE  /\ StateOfLog = "open" <=> ~canceled
           /\ StateOfLog = "closing" <=> canceled /\ worker # "exited"
           /\ StateOfLog = "closed" <=> worker = "exited"
BY DEF PromiseInv, ShutdownInv, WorkerLeavesLast, StateOfLog, LoggerTypeOK

PromisedLog ==
    LogPromise!Next \/ UNCHANGED <<written, OnItsWay, Fates, StateOfLog>>

LEMMA UnchangedRefines ==
    ASSUME UNCHANGED loggerVars PROVE PromisedLog
BY DEF loggerVars, PromisedLog, OnItsWay, Fates, FateOf, StateOfLog

(* The fate of one entry.                                                  *)
LEMMA FateIsMet ==
    ASSUME LoggerTypeOK, NEW h \in Handlers, enq[h] \in {"before", "checked"}, NEW end,
           enq' = [enq EXCEPT ![h] = end], late' \ {h} = late \ {h},
           UNCHANGED <<written, canceled, worker>>
    PROVE  /\ Fates[h] = "none"
           /\ Fates' = [Fates EXCEPT ![h] = FateOf(h)']
           /\ UNCHANGED <<written, StateOfLog>>
<1>1. Fates[h] = "none"
  BY DEF Fates, FateOf
<1>2. ASSUME NEW g \in Handlers, g # h PROVE FateOf(g)' = FateOf(g)
  <2>1. enq'[g] = enq[g] /\ (g \in late' <=> g \in late)
    BY <1>2 DEF LoggerTypeOK
  <2> QED BY <2>1 DEF FateOf
<1>3. Fates' = [Fates EXCEPT ![h] = FateOf(h)']
  BY <1>2 DEF Fates
<1> QED BY <1>1, <1>3 DEF StateOfLog

LEMMA SendRefines ==
    ASSUME PromiseInv, NEW h \in Handlers, Send(h) PROVE LogPromise!Accept(h)
<1> USE DEF PromiseInv, ShutdownInv
<1>1. /\ enq[h] = "checked" /\ Len(ch) < BufferSize /\ ch' = Append(ch, h)
      /\ late' = IF canceled THEN late \cup {h} ELSE late
      /\ enq' = [enq EXCEPT ![h] = "sent"]
      /\ UNCHANGED <<canceled, worker, hand, written>>
  BY DEF Send, Room
<1>2. /\ ch \in Seq(Handlers) /\ hand \in Seq(Handlers) /\ <<h>> \in Seq(Handlers)
      /\ Len(hand) <= 1 /\ enq'[h] = "sent"
  BY <1>1 DEF LoggerTypeOK
<1>3. Len(OnItsWay) <= BufferSize
  <2>1. Len(hand \o ch) = Len(hand) + Len(ch) /\ Len(hand) \in Nat /\ Len(ch) \in Nat
    BY <1>2
  <2> QED BY <1>1, <1>2, <2>1, BufferConstant DEF OnItsWay
<1>4. OnItsWay' = Append(OnItsWay, h)
  <2>1. hand \o (ch \o <<h>>) = (hand \o ch) \o <<h>>
    BY <1>2, ConcatAssociative
  <2>2. Append(ch, h) = ch \o <<h>> /\ Append(hand \o ch, h) = (hand \o ch) \o <<h>>
    BY <1>2, AppendIsConcat
  <2> QED BY <1>1, <2>1, <2>2, Zenon DEF OnItsWay
<1>5. FateOf(h)' = IF StateOfLog = "open" THEN "accepted" ELSE "late"
  <2>1. h \in late' <=> canceled
    BY <1>1 DEF LateIsLate
  <2> QED BY <1>2, <2>1, LogStates DEF FateOf
<1>6. /\ Fates[h] = "none"
      /\ Fates' = [Fates EXCEPT ![h] = FateOf(h)']
      /\ UNCHANGED <<written, StateOfLog>>
  BY <1>1, FateIsMet
<1> QED BY <1>3, <1>4, <1>5, <1>6 DEF LogPromise!Accept, LogPromise!Meets

LEMMA EnqueueRefines ==
    ASSUME PromiseInv, NEW h \in Handlers, Enqueue(h) PROVE PromisedLog
<1> USE DEF PromiseInv, ShutdownInv
<1>1. CASE Send(h)
  BY <1>1, SendRefines DEF PromisedLog, LogPromise!Next
<1>2. CASE ~Send(h)
  <2>1. /\ UNCHANGED <<canceled, worker, hand, ch, late, written>>
        /\ enq[h] \in {"before", "checked"}
    BY <1>2 DEF Enqueue, Check, SeeDone, Drop, channel
  <2>2. PICK end : enq' = [enq EXCEPT ![h] = end]
    BY <1>2 DEF Enqueue, Check, SeeDone, Drop
  <2>3. /\ Fates[h] = "none"
        /\ Fates' = [Fates EXCEPT ![h] = FateOf(h)']
        /\ UNCHANGED <<written, StateOfLog, OnItsWay>>
    BY <2>1, <2>2, FateIsMet DEF OnItsWay
  <2>4. CASE Check(h) /\ ~canceled
    <3>1. FateOf(h)' = "none"
      BY <2>4 DEF Check, FateOf, LoggerTypeOK
    <3>2. Fates' = Fates
      BY <2>3, <3>1 DEF Fates
    <3> QED BY <2>3, <3>2 DEF PromisedLog
  <2>5. CASE (Check(h) /\ canceled) \/ SeeDone(h)
    <3>1. FateOf(h)' = "refused"
      BY <2>5 DEF Check, SeeDone, FateOf, LoggerTypeOK
    <3>2. StateOfLog # "open"
      BY <2>5, LogStates DEF SeeDone
    <3>3. LogPromise!Refuse(h)
      BY <2>3, <3>1, <3>2 DEF LogPromise!Refuse, LogPromise!Meets
    <3> QED BY <3>3 DEF PromisedLog, LogPromise!Next
  <2>6. CASE Drop(h)
    <3>1. FateOf(h)' = "dropped"
      BY <2>6 DEF Drop, FateOf, LoggerTypeOK
    <3>2. StateOfLog = "open"
      BY <2>6, LogStates DEF Drop
    <3>3. Len(OnItsWay) >= BufferSize
      <4>1. ch \in Seq(Handlers) /\ hand \in Seq(Handlers) /\ Len(ch) >= BufferSize
        BY <2>6, BufferConstant DEF Drop, Room, LoggerTypeOK
      <4>2. Len(hand \o ch) = Len(hand) + Len(ch) /\ Len(hand) \in Nat /\ Len(ch) \in Nat
        BY <4>1
      <4> QED BY <4>1, <4>2, BufferConstant DEF OnItsWay
    <3>4. LogPromise!Drop(h)
      BY <2>3, <3>1, <3>2, <3>3 DEF LogPromise!Drop, LogPromise!Meets
    <3> QED BY <3>4 DEF PromisedLog, LogPromise!Next
  <2> QED BY <1>2, <2>4, <2>5, <2>6 DEF Enqueue
<1> QED BY <1>1, <1>2

LEMMA OneEntry ==
    ASSUME NEW S, NEW s \in Seq(S), s # << >>, Len(s) <= 1
    PROVE  s = <<Head(s)>> /\ Head(s) \in S
<1>1. Len(s) \in Nat /\ Len(s) # 0
  BY EmptySeq, LenProperties
<1>2. Len(s) = 1
  BY <1>1
<1>3. Head(s) = s[1] /\ s[1] \in S
  BY <1>2
<1>4. <<s[1]>> \in Seq(S) /\ Len(<<s[1]>>) = 1 /\ <<s[1]>>[1] = s[1]
  BY <1>3
<1> QED BY <1>2, <1>3, <1>4, SeqEqual

LEMMA WorkRefines ==
    ASSUME PromiseInv, LoggerWork PROVE PromisedLog
<1> USE DEF PromiseInv, ShutdownInv
<1>1. ch \in Seq(Handlers) /\ hand \in Seq(Handlers)
  BY DEF LoggerTypeOK
<1>2. CASE Receive
  <2>1. /\ hand = << >> /\ ch # << >> /\ hand' = <<Head(ch)>> /\ ch' = Tail(ch)
        /\ UNCHANGED <<late, canceled, worker, enq, written>>
    BY <1>2 DEF Receive
  <2>2. <<Head(ch)>> \o Tail(ch) = ch /\ << >> \o ch = ch
    BY <1>1, <2>1
  <2>3. OnItsWay' = OnItsWay
    BY <2>1, <2>2, Zenon DEF OnItsWay
  <2> QED BY <2>1, <2>3 DEF PromisedLog, Fates, FateOf, StateOfLog
<1>3. CASE Write
  <2>1. /\ hand # << >> /\ written' = written \o hand /\ hand' = << >>
        /\ UNCHANGED <<ch, late, canceled, worker, enq>>
    BY <1>3 DEF Write, channel
  <2>2. hand = <<Head(hand)>> /\ Head(hand) \in Handlers
    <3>1. hand \in Seq(Handlers) /\ Len(hand) <= 1
      BY DEF LoggerTypeOK
    <3> QED BY <2>1, <3>1, OneEntry, Zenon
  <2> DEFINE x == Head(hand)
  <2>3. /\ x \in Handlers /\ written \in Seq(Handlers) /\ ch \in Seq(Handlers)
        /\ hand = <<x>>
    BY <1>1, <2>2 DEF LoggerTypeOK
  <2> HIDE DEF x
  <2>4. /\ Append(written, x) = written \o <<x>> /\ << >> \o ch = ch
        /\ <<x>> \o ch # << >> /\ Head(<<x>> \o ch) = x /\ Tail(<<x>> \o ch) = ch
    BY <2>3
  <2>5. /\ OnItsWay # << >> /\ OnItsWay' = Tail(OnItsWay)
        /\ written' = Append(written, Head(OnItsWay))
    BY <2>1, <2>3, <2>4, Zenon DEF OnItsWay
  <2>6. StateOfLog # "closed"
    BY <2>1, LogStates DEF WorkerLeavesLast
  <2>7. UNCHANGED <<Fates, StateOfLog>>
    BY <2>1 DEF Fates, FateOf, StateOfLog
  <2>8. LogPromise!Deliver
    BY <2>5, <2>6, <2>7 DEF LogPromise!Deliver
  <2> QED BY <2>8 DEF PromisedLog, LogPromise!Next
<1>4. CASE StartDrain
  <2>1. /\ worker = "select" /\ canceled /\ worker' = "drain"
        /\ UNCHANGED <<ch, late, hand, canceled, enq, written>>
    BY <1>4 DEF StartDrain, channel
  <2> QED BY <2>1 DEF PromisedLog, OnItsWay, Fates, FateOf, StateOfLog
<1>5. CASE EndDrain
  <2>1. /\ worker = "drain" /\ hand = << >> /\ ch = << >> /\ worker' = "exited" /\ canceled
        /\ UNCHANGED <<ch, late, hand, canceled, enq, written>>
    BY <1>5 DEF EndDrain, channel, WorkerLeavesLast
  <2>2. OnItsWay = << >>
    BY <2>1 DEF OnItsWay
  <2>3. StateOfLog = "closing" /\ StateOfLog' = "closed"
    BY <2>1 DEF StateOfLog
  <2>4. UNCHANGED <<written, OnItsWay, Fates>>
    BY <2>1 DEF OnItsWay, Fates, FateOf
  <2>5. LogPromise!Finish
    BY <2>2, <2>3, <2>4 DEF LogPromise!Finish
  <2> QED BY <2>5 DEF PromisedLog, LogPromise!Next
<1> QED BY <1>2, <1>3, <1>4, <1>5, UnchangedRefines DEF LoggerWork

LEMMA CloseRefines ==
    ASSUME PromiseInv, Cancel, late' = late, accepted' = accepted PROVE PromisedLog
<1>1. /\ ~canceled /\ canceled' = TRUE /\ worker = "select"
      /\ UNCHANGED <<ch, late, worker, hand, enq, written>>
  BY DEF Cancel, channel, PromiseInv, ShutdownInv, WorkerLeavesLast
<1>2. StateOfLog = "open" /\ StateOfLog' = "closing"
  BY <1>1 DEF StateOfLog
<1>3. UNCHANGED <<written, OnItsWay, Fates>>
  BY <1>1 DEF OnItsWay, Fates, FateOf
<1>4. LogPromise!Close
  BY <1>2, <1>3 DEF LogPromise!Close
<1> QED BY <1>4 DEF PromisedLog, LogPromise!Next

LEMMA LogStepRefines ==
    PromiseInv /\ [Next]_vars
      => [LogPromise!Next]_<<written, OnItsWay, Fates, StateOfLog>>
<1> SUFFICES ASSUME PromiseInv, [Next]_vars PROVE PromisedLog
  BY DEF PromisedLog
<1>1. CASE UNCHANGED loggerVars
  BY <1>1, UnchangedRefines
<1>2. ASSUME NEW h \in Handlers, LogEntry(h) PROVE PromisedLog
  BY <1>2, EnqueueRefines DEF LogEntry
<1>3. Main => PromisedLog
  BY <1>1, CloseRefines DEF Main, ShutdownDone, ShutdownTimeout, CloseLogger, LoggerClosed,
                            CleanerClosed, Cancel, channel
<1>4. WorkStep => PromisedLog
  BY WorkOnLogger, WorkRefines
<1> QED
  BY <1>1, <1>2, <1>3, <1>4
  DEF Next, vars, Accept, Respond, CleanAgain, RemoveStep, CleanerEnds, Tick, Signal,
      ReadDir, Remove, OpenDir, Unlink, RemoveDir, Unchanging

LEMMA LogInitRefines == Init => LogPromise!Init
<1> SUFFICES ASSUME Init PROVE LogPromise!Init
  OBVIOUS
<1>1. /\ ch = << >> /\ hand = << >> /\ written = << >> /\ ~canceled /\ worker = "select"
      /\ enq = [h \in Handlers |-> "before"]
  BY DEF Init, LoggerInit
<1>2. OnItsWay = << >>
  <2>1. << >> \in Seq(Handlers)
    BY EmptySeq
  <2>2. << >> \o << >> = << >>
    BY <2>1, ConcatEmptySeq
  <2> QED BY <1>1, <2>2, Zenon DEF OnItsWay
<1>3. Fates = [h \in Handlers |-> "none"] /\ StateOfLog = "open"
  BY <1>1 DEF Fates, FateOf, StateOfLog
<1> QED BY <1>1, <1>2, <1>3 DEF LogPromise!Init

(* The logger, among the requests, the cleaner and the shutdown, does what *)
(* BoundedLog promises: an entry is dropped only when the channel is full, *)
(* refused only once Close began, and else written in its turn and once.   *)
THEOREM LogPromiseKept == Spec => KeepsLogPromise
BY LogInitRefines, LogStepRefines, PromiseInvHolds, PTL
   DEF Spec, KeepsLogPromise, LogPromise!Spec

-----------------------------------------------------------------------------
(* The files.  An entry is of a request that has been accepted, whose day  *)
(* no longer changes; the entry in hand has its directory and, before its  *)
(* record, its audio; and the cleaner has in its hands only files of the   *)
(* days it found past the retention, which stay past it.                   *)
Known(h) == request[h] # "absent"

EntriesAreKnown ==
    /\ \A n \in DOMAIN ch : Known(ch[n])
    /\ \A n \in DOMAIN hand : Known(hand[n])
    /\ \A n \in DOMAIN written : Known(written[n])
    /\ \A f \in File : files[f] # "none" => Known(f[1])

Kept(h) == h \notin failed /\ ~PastRetention(date[h])

InHand ==
    /\ hand = << >> => step = 0
    /\ \A h \in Handlers : hand = <<h>> =>
          /\ h \in Mute => step <= 1
          /\ Kept(h) /\ step > 0 => date[h] \in dirs
          /\ Kept(h) /\ step = 2 => files[<<h, "audio">>] = "whole"

CleanerInPast ==
    /\ todo # {} <=> cleaner \in {"removing", "unlinking"}
    /\ \A d \in todo : PastRetention(d)
    /\ \A f \in listed : Known(f[1]) /\ date[f[1]] \in todo

(* KeptOnDisk, request by request.                                         *)
Complete(h) == /\ files[<<h, "record">>] = "whole"
               /\ h \in Mute \/ files[<<h, "audio">>] = "whole"

OnDisk(h) ==
    /\ h \in Mute => files[<<h, "audio">>] = "none"
    /\ Kept(h) /\ (\E n \in DOMAIN written : written[n] = h) => Complete(h)
    /\ Kept(h) /\ files[<<h, "record">>] = "whole" => Complete(h)

FilesInv ==
    /\ TypeOK /\ EntriesAreKnown /\ InHand /\ CleanerInPast
    /\ \A h \in Handlers : OnDisk(h)

(* The first of the days to be removed, for CHOOSE to find it.             *)
LEMMA FirstDay ==
    ASSUME NEW S, S \subseteq Nat, S # {} PROVE \E d \in S : \A e \in S : d <= e
<1> DEFINE Before == OpToRel(<, Nat)
<1>1. ASSUME NEW a \in Nat, NEW b \in Nat, a < b PROVE <<a, b>> \in Before
  <2>1. <<a, b>> \in Nat \X Nat /\ <<a, b>>[1] = a /\ <<a, b>>[2] = b
    OBVIOUS
  <2> QED BY <1>1, <2>1, Zenon DEF OpToRel
<1>2. IsWellFoundedOn(Before, Nat)
  BY NatLessThanWellFounded
<1> HIDE DEF Before
<1>3. PICK d \in S : \A e \in S : ~(<<e, d>> \in Before)
  BY <1>2, WFMin
<1>4. ASSUME NEW e \in S PROVE d <= e
  <2>1. d \in Nat /\ e \in Nat /\ ~(<<e, d>> \in Before)
    BY <1>3
  <2>2. ~(e < d)
    BY <1>1, <2>1, Zenon
  <2> QED BY <2>1, <2>2
<1> QED BY <1>4

LEMMA Quotient ==
    ASSUME NEW n \in Nat, NEW p \in Nat \ {0}
    PROVE  n \div p \in Nat /\ p * (n \div p) <= n /\ n < p * (n \div p) + p
<1>1. n \div p \in Int /\ n % p \in 0..(p - 1)
  OBVIOUS
<1>2. n = p * (n \div p) + (n % p)
  OBVIOUS
<1> QED BY <1>1, <1>2

LEMMA Reaches ==
    ASSUME NEW p \in Nat \ {0}, NEW m \in Int, NEW q \in Int, NEW n \in Nat,
           m * p <= n, n < p * q + p
    PROVE  m <= q
<1> SUFFICES ASSUME q + 1 <= m PROVE FALSE
  OBVIOUS
<1>1. PICK t \in Nat : m = q + 1 + t
  <2>1. m - q - 1 \in Nat /\ m = q + 1 + (m - q - 1)
    OBVIOUS
  <2> QED BY <2>1
<1>2. t * p >= 0
  OBVIOUS
<1>3. m * p = p * q + p + t * p
  BY <1>1
<1> QED BY <1>2, <1>3

(* A day past the retention is over by RetentionDays calendar days.        *)
LEMMA PastIsOver ==
    ASSUME now \in Nat, NEW d \in Nat, PastRetention(d)
    PROVE  Today - d >= RetentionDays
<1>1. Today \in Nat /\ now < PerDay * Today + PerDay
  BY Quotient, FilesConstants DEF Today
<1>2. (d + RetentionDays) * PerDay <= now
  <2>1. (d + RetentionDays) * PerDay = d * PerDay + RetentionDays * PerDay
    BY FilesConstants
  <2>2. d * PerDay \in Nat /\ RetentionDays * PerDay \in Nat
    BY FilesConstants
  <2> QED BY <2>1, <2>2 DEF PastRetention
<1>3. d + RetentionDays <= Today
  <2> HIDE DEF Today
  <2>1. d + RetentionDays \in Int /\ Today \in Int /\ PerDay \in Nat \ {0}
    BY <1>1, FilesConstants
  <2> QED BY <1>1, <1>2, <2>1, Reaches
<1> QED BY <1>1, <1>3, FilesConstants

(* Time only adds to the past.                                             *)
LEMMA TimePasses ==
    ASSUME now \in Nat, now' = now \/ now' = now + 1
    PROVE  /\ Today \in Nat /\ Today' \in Nat /\ Today <= Today'
           /\ \A d \in Nat : PastRetention(d) => PastRetention(d)'
<1>1. now' \in Nat /\ now <= now'
  OBVIOUS
<1>2. /\ Today \in Nat /\ PerDay * Today <= now /\ now < PerDay * Today + PerDay
      /\ Today' \in Nat /\ now' < PerDay * Today' + PerDay
  BY <1>1, Quotient, FilesConstants DEF Today
<1>3. Today <= Today'
  <2> HIDE DEF Today
  <2>1. Today * PerDay <= now'
    <3>1. Today * PerDay \in Nat /\ Today * PerDay = PerDay * Today
      BY <1>2, FilesConstants
    <3> QED BY <1>1, <1>2, <3>1
  <2>2. Today \in Int /\ Today' \in Int /\ PerDay \in Nat \ {0}
    BY <1>2, FilesConstants
  <2> QED BY <1>1, <1>2, <2>1, <2>2, Reaches
<1>4. ASSUME NEW d \in Nat, PastRetention(d) PROVE PastRetention(d)'
  <2>1. d * PerDay \in Nat /\ RetentionDays * PerDay \in Nat
    BY FilesConstants
  <2> QED BY <1>1, <1>4, <2>1 DEF PastRetention
<1> QED BY <1>2, <1>3, <1>4

LEMMA CurrentInTodo == ASSUME TypeOK, todo # {} PROVE Current \in todo
<1>1. todo \subseteq Nat
  <2>1. Today \in Nat /\ dirs \subseteq 0..Today /\ todo \subseteq dirs
    BY Quotient, FilesConstants DEF TypeOK, FilesTypeOK, Today
  <2> HIDE DEF Today
  <2> QED BY <2>1
<1>2. \E d \in todo : \A e \in todo : d <= e
  BY <1>1, FirstDay
<1> QED BY <1>2 DEF Current

(* The files as they are typed, with the days as numbers.                  *)
LEMMA FilesTypes ==
    ASSUME TypeOK
    PROVE  /\ now \in Nat /\ date \in [Handlers -> Nat] /\ dirs \subseteq Nat /\ todo \subseteq Nat
           /\ hand = << >> \/ \E h \in Handlers : hand = <<h>>
           /\ files \in [File -> {"none", "whole", "broken"}]
           /\ request \in [Handlers -> {"absent", "serving", "answered"}]
           /\ step \in 0..2 /\ todo \subseteq dirs /\ listed \subseteq File
           /\ cleaner \in {"removing", "unlinking", "waiting", "exited"}
<1>1. now \in Nat /\ Today \in Nat
  BY Quotient, FilesConstants DEF TypeOK, FilesTypeOK, Today
<1>2. date \in [Handlers -> Nat] /\ dirs \subseteq Nat /\ todo \subseteq Nat
  <2>1. 0..Today \subseteq Nat
    <3> HIDE DEF Today
    <3> QED BY <1>1
  <2> QED BY <2>1 DEF TypeOK, FilesTypeOK
<1>3. hand = << >> \/ \E h \in Handlers : hand = <<h>>
  <2>1. hand \in Seq(Handlers) /\ Len(hand) <= 1
    BY DEF TypeOK, LoggerTypeOK
  <2>2. CASE Len(hand) = 0
    BY <2>1, <2>2, EmptySeq
  <2>3. CASE Len(hand) = 1
    <3>1. hand[1] \in Handlers /\ <<hand[1]>> \in Seq(Handlers)
      BY <2>1, <2>3
    <3>2. hand = <<hand[1]>>
      BY <2>1, <2>3, <3>1, SeqEqual
    <3> QED BY <3>1, <3>2, Zenon
  <2>4. Len(hand) = 0 \/ Len(hand) = 1
    <3>1. Len(hand) \in Nat
      BY <2>1, LenProperties
    <3>2. Len(hand) <= 1
      BY <2>1
    <3>3. \A k \in Nat : k <= 1 => k = 0 \/ k = 1
      OBVIOUS
    <3> QED BY <3>1, <3>2, <3>3, Zenon
  <2> QED BY <2>2, <2>3, <2>4, Zenon
<1> QED BY <1>1, <1>2, <1>3 DEF TypeOK, FilesTypeOK

LEMMA FilesInvInit == Init => FilesInv
<1> SUFFICES ASSUME Init PROVE FilesInv
  OBVIOUS
<1>1. LoggerTypeOK
  BY LoggerTypeInit
<1>2. Today = 0
  BY FilesConstants DEF Init, FilesInit, Today
<1>3. TypeOK
  <2>1. 0 \in 0..MaxTime /\ 0 \in 0..MaxFailures /\ 0 \in 0..Today
    BY <1>2, FilesConstants
  <2> HIDE DEF Today
  <2> QED BY <1>1, <2>1 DEF Init, FilesInit, TypeOK, FilesTypeOK
<1>4. ch = << >> /\ hand = << >> /\ written = << >>
  BY DEF Init, LoggerInit
<1>5. EntriesAreKnown
  <2>1. \A f \in File : files[f] = "none"
    BY DEF Init, FilesInit
  <2>2. DOMAIN << >> = {}
    OBVIOUS
  <2> QED BY <1>4, <2>1, <2>2 DEF EntriesAreKnown
<1>6. InHand
  BY DEF Init, FilesInit, LoggerInit, InHand
<1>7. CleanerInPast
  BY DEF Init, FilesInit, CleanerInPast
<1>8. ASSUME NEW h \in Handlers PROVE OnDisk(h)
  <2>1. files[<<h, "record">>] = "none" /\ files[<<h, "audio">>] = "none"
    BY DEF Init, FilesInit, File
  <2>2. \A n \in DOMAIN written : FALSE
    BY <1>4
  <2> QED BY <2>1, <2>2 DEF OnDisk
<1> QED BY <1>3, <1>5, <1>6, <1>7, <1>8 DEF FilesInv

(* What a step that leaves the files alone must not do to the rest.        *)
LEMMA FilesAlone ==
    ASSUME FilesInv, TypeOK', UNCHANGED filesVars,
           \A h \in Handlers : request[h] # "absent" => request'[h] # "absent",
           \A n \in DOMAIN ch' : request'[ch'[n]] # "absent",
           hand' = hand \/ hand' = << >> \/ (hand = << >> /\ \E h \in Handlers : hand' = <<h>>),
           hand' = << >> => step = 0,
           \A n \in DOMAIN hand' : request'[hand'[n]] # "absent",
           written' = written
    PROVE  FilesInv'
<1>1. UNCHANGED <<now, date, step, dirs, files, cleaner, todo, listed, failed>>
  BY DEF filesVars
<1>2. TypeOK /\ EntriesAreKnown /\ InHand /\ CleanerInPast /\ \A h \in Handlers : OnDisk(h)
  BY DEF FilesInv
<1>3. \A h : (PastRetention(date[h]))' <=> PastRetention(date[h])
  BY <1>1 DEF PastRetention
<1>4. EntriesAreKnown'
  <2>1. \A n \in DOMAIN written : written[n] \in Handlers
    BY <1>2 DEF TypeOK, LoggerTypeOK
  <2>2. \A f \in File : f[1] \in Handlers
    BY DEF File
  <2>3. \A n \in DOMAIN written' : request'[written'[n]] # "absent"
    BY <1>2, <2>1 DEF EntriesAreKnown, Known
  <2>4. \A f \in File : files'[f] # "none" => request'[f[1]] # "absent"
    BY <1>1, <1>2, <2>2 DEF EntriesAreKnown, Known
  <2> QED BY <2>3, <2>4 DEF EntriesAreKnown, Known
<1>5. InHand'
  <2>1. ASSUME NEW h \in Handlers, hand' = <<h>>
        PROVE  /\ h \in Mute => step' <= 1
               /\ Kept(h)' /\ step' > 0 => (date[h])' \in dirs'
               /\ Kept(h)' /\ step' = 2 => (files[<<h, "audio">>])' = "whole"
    <3>1. CASE hand = <<h>>
      BY <1>1, <1>2, <1>3, <3>1 DEF InHand, Kept
    <3>2. CASE hand = << >>
      <4>1. step' = 0
        BY <1>1, <1>2, <3>2 DEF InHand
      <4> QED BY <4>1
    <3>3. << >> # <<h>>
      OBVIOUS
    <3> QED BY <2>1, <3>1, <3>2, <3>3
  <2> QED BY <1>1, <2>1 DEF InHand
<1>6. CleanerInPast'
  <2>1. \A f \in listed : f[1] \in Handlers
    BY <1>1, <1>2, FilesTypes DEF File
  <2>2. \A d \in todo' : (now' = now) /\ PastRetention(d)
    BY <1>1, <1>2 DEF CleanerInPast
  <2>3. \A f \in listed' : request'[f[1]] # "absent" /\ date'[f[1]] \in todo'
    BY <1>1, <1>2, <2>1 DEF CleanerInPast, Known
  <2>4. todo' # {} <=> cleaner' \in {"removing", "unlinking"}
    BY <1>1, <1>2 DEF CleanerInPast
  <2> QED BY <2>2, <2>3, <2>4 DEF CleanerInPast, PastRetention, Known
<1>7. ASSUME NEW h \in Handlers PROVE OnDisk(h)'
  BY <1>1, <1>2, <1>3 DEF OnDisk, Complete, Kept
<1> QED BY <1>4, <1>5, <1>6, <1>7 DEF FilesInv

(* Steps that do not touch the files: those of the requests after they     *)
(* are accepted, of main, and of the worker between two entries.           *)
LEMMA FilesLog ==
    ASSUME FilesInv, TypeOK', NEW h \in Handlers, LogEntry(h) PROVE FilesInv'
<1>1. /\ UNCHANGED <<filesVars, request, hand, written>> /\ request[h] = "serving"
      /\ ch' = ch \/ ch' = Append(ch, h)
  BY DEF LogEntry, Enqueue, Check, Send, SeeDone, Drop, serverVars, channel
<1>2. ch \in Seq(Handlers) /\ EntriesAreKnown /\ InHand
  BY DEF FilesInv, TypeOK, LoggerTypeOK
<1>3. \A n \in DOMAIN ch' : request'[ch'[n]] # "absent"
  <2>1. CASE ch' = ch
    BY <1>1, <1>2, <2>1 DEF EntriesAreKnown, Known
  <2>2. CASE ch' = Append(ch, h)
    <3>1. ASSUME NEW n \in DOMAIN ch' PROVE ch'[n] = h \/ (n \in DOMAIN ch /\ ch'[n] = ch[n])
      BY <1>2, <2>2
    <3> QED BY <1>1, <1>2, <3>1 DEF EntriesAreKnown, Known
  <2> QED BY <1>1, <2>1, <2>2
<1>4. \A n \in DOMAIN hand' : request'[hand'[n]] # "absent"
  BY <1>1, <1>2 DEF EntriesAreKnown, Known
<1>5. hand' = << >> => step = 0
  BY <1>1, <1>2 DEF InHand
<1> QED BY <1>1, <1>3, <1>4, <1>5, FilesAlone

LEMMA FilesServer ==
    ASSUME FilesInv, TypeOK', UNCHANGED <<filesVars, ch, hand, written>>,
           \A h \in Handlers : request[h] # "absent" => request'[h] # "absent"
    PROVE  FilesInv'
<1>1. EntriesAreKnown /\ InHand
  BY DEF FilesInv
<1>2. /\ \A n \in DOMAIN ch : ch[n] \in Handlers
      /\ \A n \in DOMAIN hand : hand[n] \in Handlers
  BY DEF FilesInv, TypeOK, LoggerTypeOK
<1>3. \A n \in DOMAIN ch' : request'[ch'[n]] # "absent"
  BY <1>1, <1>2 DEF EntriesAreKnown, Known
<1>4. \A n \in DOMAIN hand' : request'[hand'[n]] # "absent"
  BY <1>1, <1>2 DEF EntriesAreKnown, Known
<1>5. hand' = << >> => step = 0
  BY <1>1 DEF InHand
<1> QED BY <1>3, <1>4, <1>5, FilesAlone

LEMMA FilesTake ==
    ASSUME FilesInv, TypeOK', Take, UNCHANGED <<filesVars, request>> PROVE FilesInv'
<1>1. /\ written' = written /\ hand = << >> /\ EntriesAreKnown /\ InHand /\ ch \in Seq(Handlers)
      /\ \A h \in Handlers : request[h] # "absent" => request'[h] # "absent"
  BY DEF Take, Receive, StartDrain, EndDrain, channel, FilesInv, TypeOK, LoggerTypeOK
<1>2. CASE Receive
  <2>1. ch # << >> /\ hand' = <<Head(ch)>> /\ ch' = Tail(ch)
    BY <1>2 DEF Receive
  <2>2. Head(ch) = ch[1] /\ 1 \in DOMAIN ch /\ Head(ch) \in Handlers
    BY <1>1, <2>1
  <2>3. \A n \in DOMAIN ch' : n + 1 \in DOMAIN ch /\ ch'[n] = ch[n + 1]
    BY <1>1, <2>1
  <2>4. \A n \in DOMAIN ch' : request'[ch'[n]] # "absent"
    BY <1>1, <2>3 DEF EntriesAreKnown, Known
  <2>5. \A n \in DOMAIN hand' : hand'[n] = Head(ch)
    BY <2>1
  <2>6. \A n \in DOMAIN hand' : request'[hand'[n]] # "absent"
    BY <1>1, <2>2, <2>5 DEF EntriesAreKnown, Known
  <2>7. step = 0
    BY <1>1 DEF InHand
  <2> QED BY <1>1, <2>1, <2>2, <2>4, <2>6, <2>7, FilesAlone
<1>3. CASE StartDrain \/ EndDrain
  BY <1>1, <1>3, FilesServer DEF StartDrain, EndDrain, channel
<1> QED BY <1>2, <1>3 DEF Take

(* A new request has no entry and no file yet: its day is set.             *)
LEMMA FilesAccept ==
    ASSUME FilesInv, TypeOK', NEW g \in Handlers, Accept(g) PROVE FilesInv'
<1>1. /\ TypeOK /\ EntriesAreKnown /\ InHand /\ CleanerInPast /\ \A h \in Handlers : OnDisk(h)
  BY DEF FilesInv
<1>2. /\ UNCHANGED <<ch, hand, written, now, step, dirs, files, cleaner, todo, listed, failed>>
      /\ request[g] = "absent"
  BY DEF Accept, loggerVars
<1>3. /\ \A h \in Handlers : request[h] # "absent" => h # g /\ request'[h] # "absent"
      /\ \A h \in Handlers : h # g => date'[h] = date[h]
  BY <1>1, <1>2, FilesTypes DEF Accept
<1>4. EntriesAreKnown'
  <2>1. /\ \A n \in DOMAIN ch : ch[n] \in Handlers
        /\ \A n \in DOMAIN hand : hand[n] \in Handlers
        /\ \A n \in DOMAIN written : written[n] \in Handlers
        /\ \A f \in File : f[1] \in Handlers
    BY <1>1 DEF TypeOK, LoggerTypeOK, File
  <2> QED BY <1>1, <1>2, <1>3, <2>1 DEF EntriesAreKnown, Known
<1>5. InHand'
  <2>1. hand # <<g>>
    BY <1>1, <1>2 DEF EntriesAreKnown, Known
  <2>2. ASSUME NEW h \in Handlers, hand' = <<h>>
        PROVE  /\ h \in Mute => step' <= 1
               /\ Kept(h)' /\ step' > 0 => (date[h])' \in dirs'
               /\ Kept(h)' /\ step' = 2 => (files[<<h, "audio">>])' = "whole"
    <3>1. h # g /\ hand = <<h>>
      BY <1>2, <2>1, <2>2
    <3>2. Kept(h)' <=> Kept(h)
      BY <1>2, <1>3, <3>1 DEF Kept, PastRetention
    <3> QED BY <1>1, <1>2, <1>3, <3>1, <3>2 DEF InHand
  <2> QED BY <1>1, <1>2, <2>2 DEF InHand
<1>6. CleanerInPast'
  <2>1. \A f \in listed : f[1] \in Handlers
    BY <1>1, FilesTypes DEF File
  <2>2. \A f \in listed' : request'[f[1]] # "absent" /\ date'[f[1]] \in todo'
    BY <1>1, <1>2, <1>3, <2>1 DEF CleanerInPast, Known
  <2>3. \A d \in todo' : (now' = now) /\ PastRetention(d)
    BY <1>1, <1>2 DEF CleanerInPast
  <2>4. todo' # {} <=> cleaner' \in {"removing", "unlinking"}
    BY <1>1, <1>2 DEF CleanerInPast
  <2> QED BY <2>2, <2>3, <2>4 DEF CleanerInPast, PastRetention, Known
<1>7. ASSUME NEW h \in Handlers PROVE OnDisk(h)'
  <2>1. CASE h # g
    <3>1. Kept(h)' <=> Kept(h)
      BY <1>2, <1>3, <2>1 DEF Kept, PastRetention
    <3> QED BY <1>1, <1>2, <3>1 DEF OnDisk, Complete
  <2>2. CASE h = g
    <3>1. <<h, "record">> \in File /\ <<h, "audio">> \in File
      BY DEF File
    <3>2. files[<<h, "record">>] = "none" /\ files[<<h, "audio">>] = "none"
      BY <1>1, <1>2, <2>2, <3>1 DEF EntriesAreKnown, Known
    <3>3. \A n \in DOMAIN written : written[n] # h
      BY <1>1, <1>2, <2>2 DEF EntriesAreKnown, Known
    <3> QED BY <1>2, <3>2, <3>3 DEF OnDisk
  <2> QED BY <2>1, <2>2
<1> QED BY <1>4, <1>5, <1>6, <1>7 DEF FilesInv

LEMMA FilesTick ==
    ASSUME FilesInv, TypeOK', Tick, UNCHANGED serverVars PROVE FilesInv'
<1>1. /\ TypeOK /\ EntriesAreKnown /\ InHand /\ CleanerInPast /\ \A h \in Handlers : OnDisk(h)
  BY DEF FilesInv
<1>2. /\ UNCHANGED <<ch, hand, written, date, step, dirs, files, cleaner, todo, listed, failed, request>>
      /\ now' = now + 1
  BY DEF Tick, loggerVars, serverVars
<1>3. \A d \in Nat : PastRetention(d) => PastRetention(d)'
  BY <1>1, <1>2, FilesTypes, TimePasses
<1>4. \A h \in Handlers : Kept(h)' => Kept(h)
  <2> SUFFICES ASSUME NEW h \in Handlers, Kept(h)' PROVE Kept(h)
    OBVIOUS
  <2>1. date[h] \in Nat /\ date'[h] = date[h]
    BY <1>1, <1>2, FilesTypes
  <2>2. ASSUME PastRetention(date[h]) PROVE FALSE
    <3>1. date[h] * PerDay < now' - RetentionDays * PerDay
      BY <1>3, <2>1, <2>2 DEF PastRetention
    <3> QED BY <1>2, <3>1 DEF Kept, PastRetention
  <2> QED BY <1>2, <2>2 DEF Kept
<1>5. EntriesAreKnown'
  BY <1>1, <1>2 DEF EntriesAreKnown, Known
<1>6. InHand'
  BY <1>1, <1>2, <1>4 DEF InHand
<1>7. CleanerInPast'
  BY <1>1, <1>2, <1>3, FilesTypes DEF CleanerInPast, Known
<1>8. \A h \in Handlers : OnDisk(h)'
  BY <1>1, <1>2, <1>4 DEF OnDisk, Complete
<1> QED BY <1>5, <1>6, <1>7, <1>8 DEF FilesInv

(* The worker writes the entry in hand: the directory, the audio, the      *)
(* record.                                                                 *)
LEMMA FilesMakeDir ==
    ASSUME FilesInv, TypeOK', NEW h \in Handlers, hand = <<h>>, step = 0, MakeDir(h),
           UNCHANGED <<files, now, date, cleaner, todo, listed, request>>
    PROVE  FilesInv'
<1>1. /\ TypeOK /\ EntriesAreKnown /\ InHand /\ CleanerInPast /\ \A g \in Handlers : OnDisk(g)
  BY DEF FilesInv
<1>2. ch' = ch /\ failed \subseteq failed'
  BY DEF MakeDir, FailureOf, NoFailure, Write, channel, loggerVars
<1>3. \A g \in Handlers : Kept(g)' => Kept(g)
  BY <1>2 DEF Kept, PastRetention
<1>4. Known(h)
  <2>1. 1 \in DOMAIN hand /\ hand[1] = h
    OBVIOUS
  <2> QED BY <1>1, <2>1 DEF EntriesAreKnown
<1>5. CleanerInPast'
  <2>1. todo' # {} <=> cleaner' \in {"removing", "unlinking"}
    BY <1>1 DEF CleanerInPast
  <2>2. \A d \in todo' : (now' = now) /\ PastRetention(d)
    BY <1>1 DEF CleanerInPast
  <2>3. \A f \in listed' : request'[f[1]] # "absent" /\ date'[f[1]] \in todo'
    BY <1>1 DEF CleanerInPast, Known
  <2> QED BY <2>1, <2>2, <2>3 DEF CleanerInPast, PastRetention, Known
<1>6. CASE dirs' = dirs \cup {date[h]} /\ step' = 1 /\ NoFailure /\ UNCHANGED loggerVars
  <2>1. UNCHANGED <<hand, written, failed>>
    BY <1>6 DEF loggerVars, NoFailure
  <2>2. EntriesAreKnown'
    BY <1>1, <1>2, <2>1 DEF EntriesAreKnown, Known
  <2>3. InHand'
    <3>1. hand' # << >> /\ \A g \in Handlers : hand' = <<g>> => g = h
      BY <2>1
    <3>2. step' <= 1 /\ ~(step' = 2) /\ date'[h] \in dirs'
      BY <1>6
    <3> QED BY <3>1, <3>2 DEF InHand
  <2>4. \A g \in Handlers : OnDisk(g)'
    BY <1>1, <1>3, <2>1 DEF OnDisk, Complete
  <2> QED BY <1>5, <2>2, <2>3, <2>4 DEF FilesInv
<1>7. CASE FailureOf(h) /\ Write /\ UNCHANGED <<step, dirs>>
  <2>1. h \in failed' /\ hand' = << >> /\ written' = written \o <<h>> /\ written \in Seq(Handlers)
    BY <1>1, <1>7 DEF FailureOf, Write, TypeOK, LoggerTypeOK
  <2>2. \A n \in DOMAIN written' : (n \in DOMAIN written /\ written'[n] = written[n]) \/ written'[n] = h
    BY <2>1
  <2>3. EntriesAreKnown'
    <3>1. DOMAIN hand' = {}
      BY <2>1
    <3>2. \A n \in DOMAIN written' : request'[written'[n]] # "absent"
      BY <1>1, <1>4, <2>2 DEF EntriesAreKnown, Known
    <3> QED BY <1>1, <1>2, <3>1, <3>2 DEF EntriesAreKnown, Known
  <2>4. InHand'
    <3>1. step' = 0 /\ \A g \in Handlers : hand' # <<g>>
      BY <1>7, <2>1
    <3> QED BY <3>1 DEF InHand
  <2>5. ASSUME NEW g \in Handlers PROVE OnDisk(g)'
    <3>1. Kept(g)' => g # h
      BY <2>1 DEF Kept
    <3>2. Kept(g)' /\ (\E n \in DOMAIN written' : written'[n] = g) => Complete(g)
      BY <1>1, <1>3, <2>2, <3>1 DEF OnDisk
    <3> QED BY <1>1, <1>3, <3>2 DEF OnDisk, Complete
  <2> QED BY <1>5, <2>3, <2>4, <2>5 DEF FilesInv
<1> QED BY <1>6, <1>7 DEF MakeDir

LEMMA FilesWriteNext ==
    ASSUME FilesInv, TypeOK', NEW h \in Handlers, hand = <<h>>, step > 0, WriteNext(h),
           UNCHANGED <<now, date, cleaner, todo, listed, request>>
    PROVE  FilesInv'
<1>1. /\ TypeOK /\ EntriesAreKnown /\ InHand /\ CleanerInPast /\ \A g \in Handlers : OnDisk(g)
  BY DEF FilesInv
<1> DEFINE kind == Written(h)[step]
<1>2. /\ h \in Mute => step <= 1
      /\ Kept(h) => date[h] \in dirs
      /\ Kept(h) /\ step = 2 => files[<<h, "audio">>] = "whole"
      /\ step \in {1, 2}
  BY <1>1, FilesTypes DEF InHand
<1>3. \/ kind = "record" /\ step = Len(Written(h)) /\ (h \in Mute \/ step = 2)
      \/ kind = "audio" /\ h \notin Mute /\ step # Len(Written(h)) /\ step = 1
  BY <1>2 DEF Written
<1>4. /\ \/ files' = [files EXCEPT ![<<h, kind>>] = "whole"] /\ date[h] \in dirs
         \/ files' = [files EXCEPT ![<<h, kind>>] = "broken"] /\ h \in failed'
         \/ UNCHANGED files /\ date[h] \notin dirs
      /\ failed \subseteq failed' /\ UNCHANGED dirs
      /\ IF step = Len(Written(h)) THEN step' = 0 /\ Write
         ELSE step' = step + 1 /\ UNCHANGED loggerVars
  BY DEF WriteNext, WriteFile, FailureOf, NoFailure
<1> HIDE DEF kind
<1>5. \A g \in Handlers : Kept(g)' => Kept(g)
  BY <1>4 DEF Kept, PastRetention
<1>6. Known(h)
  <2>1. 1 \in DOMAIN hand /\ hand[1] = h
    OBVIOUS
  <2> QED BY <1>1, <2>1 DEF EntriesAreKnown
<1>7. kind \in {"audio", "record"} /\ <<h, kind>> \in File /\ DOMAIN files = File
  BY <1>1, <1>3, FilesTypes DEF File
<1>8. \A f \in File : f # <<h, kind>> => files'[f] = files[f]
  BY <1>4, <1>7
<1>9. Kept(h)' => files'[<<h, kind>>] = "whole"
  <2>1. Kept(h)' => date[h] \in dirs /\ h \notin failed'
    BY <1>2, <1>5 DEF Kept
  <2> QED BY <1>4, <1>7, <2>1
<1>10. /\ ch' = ch
       /\ \/ step = Len(Written(h)) /\ hand' = << >> /\ written' = written \o <<h>> /\ step' = 0
          \/ step # Len(Written(h)) /\ hand' = hand /\ written' = written /\ step' = step + 1
  BY <1>4 DEF Write, channel, loggerVars
<1>11. \A n \in DOMAIN written' : \/ n \in DOMAIN written /\ written'[n] = written[n]
                                  \/ step = Len(Written(h)) /\ written'[n] = h
  <2>1. written \in Seq(Handlers)
    BY <1>1 DEF TypeOK, LoggerTypeOK
  <2>2. CASE written' = written \o <<h>> /\ step = Len(Written(h))
    BY <2>1, <2>2
  <2> QED BY <1>10, <2>2
<1>12. EntriesAreKnown'
  <2>1. \A n \in DOMAIN written' : request'[written'[n]] # "absent"
    BY <1>1, <1>6, <1>11 DEF EntriesAreKnown, Known
  <2>2. \A f \in File : files'[f] # "none" => request'[f[1]] # "absent"
    BY <1>1, <1>6, <1>8 DEF EntriesAreKnown, Known
  <2>3. \A n \in DOMAIN hand' : request'[hand'[n]] # "absent"
    <3>1. CASE hand' = hand
      BY <1>1, <3>1 DEF EntriesAreKnown, Known
    <3>2. CASE hand' = << >>
      BY <3>2
    <3> QED BY <1>10, <3>1, <3>2
  <2>4. \A n \in DOMAIN ch' : request'[ch'[n]] # "absent"
    BY <1>1, <1>10 DEF EntriesAreKnown, Known
  <2> QED BY <2>1, <2>2, <2>3, <2>4 DEF EntriesAreKnown, Known
<1>13. InHand'
  <2>1. CASE step = Len(Written(h))
    <3>1. step' = 0 /\ \A g \in Handlers : hand' # <<g>>
      BY <1>10, <2>1
    <3> QED BY <3>1 DEF InHand
  <2>2. CASE step # Len(Written(h))
    <3>1. kind = "audio" /\ h \notin Mute /\ step' = 2 /\ hand' = <<h>>
      BY <1>3, <1>10, <2>2
    <3>2. hand' # << >> /\ \A g \in Handlers : hand' = <<g>> => g = h
      BY <3>1
    <3>3. Kept(h)' => date'[h] \in dirs'
      BY <1>2, <1>4, <1>5
    <3> QED BY <1>9, <3>1, <3>2, <3>3 DEF InHand
  <2> QED BY <2>1, <2>2
<1>14. CleanerInPast'
  <2>1. todo' # {} <=> cleaner' \in {"removing", "unlinking"}
    BY <1>1 DEF CleanerInPast
  <2>2. \A d \in todo' : (now' = now) /\ PastRetention(d)
    BY <1>1 DEF CleanerInPast
  <2>3. \A f \in listed' : request'[f[1]] # "absent" /\ date'[f[1]] \in todo'
    BY <1>1 DEF CleanerInPast, Known
  <2> QED BY <2>1, <2>2, <2>3 DEF CleanerInPast, PastRetention, Known
<1>15. ASSUME NEW g \in Handlers, g # h PROVE OnDisk(g)'
  <2>1. files'[<<g, "record">>] = files[<<g, "record">>] /\ files'[<<g, "audio">>] = files[<<g, "audio">>]
    BY <1>8, <1>15 DEF File
  <2>2. (\E n \in DOMAIN written' : written'[n] = g) => \E n \in DOMAIN written : written[n] = g
    BY <1>11, <1>15
  <2> QED BY <1>1, <1>5, <2>1, <2>2 DEF OnDisk, Complete
<1>16. OnDisk(h)'
  <2>1. <<h, "record">> \in File /\ <<h, "audio">> \in File /\ <<h, "record">> # <<h, "audio">>
    BY DEF File
  <2>2. CASE kind = "record" /\ (h \in Mute \/ step = 2)
    <3>1. files'[<<h, "audio">>] = files[<<h, "audio">>]
      BY <1>8, <2>1, <2>2
    <3>2. Kept(h)' => Complete(h)'
      BY <1>2, <1>5, <1>9, <2>2, <3>1 DEF Complete
    <3>3. h \in Mute => files'[<<h, "audio">>] = "none"
      BY <1>1, <3>1 DEF OnDisk
    <3> QED BY <3>2, <3>3 DEF OnDisk
  <2>3. CASE kind = "audio" /\ h \notin Mute /\ step # Len(Written(h))
    <3>1. files'[<<h, "record">>] = files[<<h, "record">>] /\ written' = written
      BY <1>8, <1>10, <2>1, <2>3
    <3>2. Kept(h)' => files'[<<h, "audio">>] = "whole"
      BY <1>9, <2>3
    <3> QED BY <1>1, <1>5, <2>3, <3>1, <3>2 DEF OnDisk, Complete
  <2> QED BY <1>3, <2>2, <2>3
<1> QED BY <1>12, <1>13, <1>14, <1>15, <1>16 DEF FilesInv

(* The cleaner.  Whatever it does, the worker's entry and what is known of *)
(* the requests stay; only Unlink touches a file, and only RemoveDir a     *)
(* directory, each of a day past the retention.                            *)
LEMMA FilesClean ==
    ASSUME FilesInv, TypeOK', CleanerInPast',
           UNCHANGED <<loggerVars, now, date, step, request>>, failed' = failed,
           \A h \in Handlers : ~PastRetention(date[h]) =>
              /\ date[h] \in dirs => date[h] \in dirs'
              /\ \A f \in File : f[1] = h => files'[f] = files[f],
           \A f \in File : files'[f] = files[f] \/ files'[f] = "none"
    PROVE  FilesInv'
<1>1. /\ TypeOK /\ EntriesAreKnown /\ InHand /\ \A h \in Handlers : OnDisk(h)
      /\ UNCHANGED <<ch, hand, written>>
  BY DEF FilesInv, loggerVars
<1>2. \A h \in Handlers : Kept(h)' <=> Kept(h)
  BY DEF Kept, PastRetention
<1>3. \A h \in Handlers : <<h, "audio">> \in File /\ <<h, "record">> \in File
  BY DEF File
<1>4. \A h \in Handlers : Kept(h) =>
          /\ date[h] \in dirs => date[h] \in dirs'
          /\ files'[<<h, "audio">>] = files[<<h, "audio">>]
          /\ files'[<<h, "record">>] = files[<<h, "record">>]
  BY <1>3 DEF Kept
<1>5. EntriesAreKnown'
  BY <1>1 DEF EntriesAreKnown, Known
<1>6. InHand'
  BY <1>1, <1>2, <1>4 DEF InHand
<1>7. ASSUME NEW h \in Handlers PROVE OnDisk(h)'
  <2>1. Kept(h)' => (OnDisk(h)' <=> OnDisk(h))
    BY <1>1, <1>2, <1>4 DEF OnDisk, Complete
  <2>2. h \in Mute => files'[<<h, "audio">>] = "none"
    BY <1>1, <1>3 DEF OnDisk
  <2> QED BY <1>1, <2>1, <2>2 DEF OnDisk
<1> QED BY <1>5, <1>6, <1>7 DEF FilesInv

LEMMA FilesReadDir ==
    ASSUME FilesInv, TypeOK', ReadDir, UNCHANGED request PROVE FilesInv'
<1>1. /\ UNCHANGED <<loggerVars, now, date, step, dirs, files, listed, failed, request>>
      /\ cleaner = "waiting" /\ cleaner' = "removing" /\ todo' # {}
      /\ todo' = {d \in dirs : PastRetention(d)}
  BY DEF ReadDir, Unchanging
<1>2. TypeOK /\ CleanerInPast
  BY DEF FilesInv
<1>3. listed' = {}
  BY <1>1, <1>2 DEF CleanerInPast
<1>4. \A d \in todo' : (now' = now) /\ PastRetention(d)
  BY <1>1
<1>5. CleanerInPast'
  BY <1>1, <1>3, <1>4 DEF CleanerInPast, PastRetention
<1> QED BY <1>1, <1>5, FilesClean

LEMMA FilesOpenDir ==
    ASSUME FilesInv, TypeOK', OpenDir, UNCHANGED request PROVE FilesInv'
<1>1. /\ UNCHANGED <<loggerVars, now, date, step, dirs, files, todo, failed, request>>
      /\ cleaner = "removing" /\ cleaner' = "unlinking" /\ listed' = FilesOf(Current)
  BY DEF OpenDir, Unchanging
<1>2. TypeOK /\ CleanerInPast /\ EntriesAreKnown
  BY DEF FilesInv
<1>3. todo # {} /\ Current \in todo
  <2>1. todo # {}
    BY <1>1, <1>2 DEF CleanerInPast
  <2> QED BY <1>2, <2>1, CurrentInTodo
<1>4. \A f \in listed' : request'[f[1]] # "absent" /\ date'[f[1]] \in todo'
  BY <1>1, <1>2, <1>3 DEF FilesOf, EntriesAreKnown, Known
<1>5. \A d \in todo' : (now' = now) /\ PastRetention(d)
  BY <1>1, <1>2 DEF CleanerInPast
<1>6. CleanerInPast'
  BY <1>1, <1>3, <1>4, <1>5 DEF CleanerInPast, PastRetention, Known
<1> QED BY <1>1, <1>6, FilesClean

(* A file the cleaner unlinks is of a day past the retention.              *)
LEMMA Unlinked ==
    ASSUME FilesInv, Unlink, NEW f \in File, files'[f] # files[f]
    PROVE  files'[f] = "none" /\ PastRetention(date[f[1]]) /\ f \in listed
<1>1. PICK g \in listed : files' = [files EXCEPT ![g] = "none"]
  BY DEF Unlink
<1>2. DOMAIN files = File /\ g \in File
  BY FilesTypes DEF FilesInv
<1>3. f = g /\ files'[f] = "none"
  BY <1>1, <1>2
<1> QED BY <1>1, <1>3 DEF FilesInv, CleanerInPast

LEMMA FilesUnlink ==
    ASSUME FilesInv, TypeOK', Unlink, UNCHANGED request PROVE FilesInv'
<1>1. /\ UNCHANGED <<loggerVars, now, date, step, dirs, cleaner, todo, failed, request>>
      /\ listed' \subseteq listed
  BY DEF Unlink, Unchanging
<1>2. TypeOK /\ CleanerInPast
  BY DEF FilesInv
<1>3. \A d \in todo' : (now' = now) /\ PastRetention(d)
  BY <1>1, <1>2 DEF CleanerInPast
<1>4. \A f \in listed' : request'[f[1]] # "absent" /\ date'[f[1]] \in todo'
  BY <1>1, <1>2 DEF CleanerInPast, Known
<1>5. todo' # {} <=> cleaner' \in {"removing", "unlinking"}
  BY <1>1, <1>2 DEF CleanerInPast
<1>6. CleanerInPast'
  BY <1>3, <1>4, <1>5 DEF CleanerInPast, PastRetention, Known
<1>7. \A f \in File : files'[f] = files[f] \/ files'[f] = "none"
  BY Unlinked
<1>8. \A f \in File : ~PastRetention(date[f[1]]) => files'[f] = files[f]
  BY Unlinked
<1> QED BY <1>1, <1>6, <1>7, <1>8, FilesClean

LEMMA FilesRemoveDir ==
    ASSUME FilesInv, TypeOK', RemoveDir, UNCHANGED request PROVE FilesInv'
<1>1. /\ UNCHANGED <<loggerVars, now, date, step, files, listed, failed, request>>
      /\ cleaner = "unlinking" /\ listed = {} /\ todo' = todo \ {Current}
      /\ cleaner' = IF todo' = {} THEN "waiting" ELSE "removing"
      /\ dirs \ {Current} \subseteq dirs'
  BY DEF RemoveDir, Unchanging
<1>2. TypeOK /\ CleanerInPast
  BY DEF FilesInv
<1>3. todo # {} /\ PastRetention(Current)
  <2>1. todo # {}
    BY <1>1, <1>2 DEF CleanerInPast
  <2> QED BY <1>2, <2>1, CurrentInTodo DEF CleanerInPast
<1>4. \A d \in todo' : (now' = now) /\ PastRetention(d)
  BY <1>1, <1>2 DEF CleanerInPast
<1>5. todo' # {} <=> cleaner' \in {"removing", "unlinking"}
  BY <1>1
<1>6. CleanerInPast'
  BY <1>1, <1>4, <1>5 DEF CleanerInPast, PastRetention
<1>7. \A h \in Handlers : ~PastRetention(date[h]) /\ date[h] \in dirs => date[h] \in dirs'
  BY <1>1, <1>3
<1> QED BY <1>1, <1>6, <1>7, FilesClean

LEMMA FilesCleanerEnds ==
    ASSUME FilesInv, TypeOK', CleanerEnds PROVE FilesInv'
<1>1. /\ UNCHANGED <<loggerVars, now, date, step, dirs, files, todo, listed, failed, request>>
      /\ cleaner = "waiting" /\ cleaner' = "exited"
  BY DEF CleanerEnds, serverVars
<1>2. todo' = {} /\ listed' = {}
  BY <1>1 DEF FilesInv, CleanerInPast
<1>3. CleanerInPast'
  BY <1>1, <1>2 DEF CleanerInPast
<1> QED BY <1>1, <1>3, FilesClean

-----------------------------------------------------------------------------
LEMMA WorkerTypes ==
    ASSUME FilesInv, NEW h \in Handlers, hand = <<h>>,
           \/ step = 0 /\ MakeDir(h) /\ UNCHANGED files
           \/ step > 0 /\ WriteNext(h),
           UNCHANGED <<now, date, cleaner, todo, listed>>
    PROVE  FilesTypeOK'
<1>1. TypeOK /\ InHand /\ FilesTypeOK
  BY DEF FilesInv, TypeOK
<1>2. failures' \in 0..MaxFailures /\ failed' \subseteq Handlers
  <2>1. /\ failures' = failures \/ (failures < MaxFailures /\ failures' = failures + 1)
        /\ failed' = failed \/ failed' = failed \cup {h}
    BY DEF MakeDir, WriteNext, WriteFile, FailureOf, Failure, NoFailure
  <2> QED BY <1>1, <2>1, FilesConstants DEF FilesTypeOK
<1>3. dirs \subseteq dirs' /\ dirs' \subseteq 0..Today'
  <2>1. dirs' = dirs \/ dirs' = dirs \cup {date[h]}
    BY DEF MakeDir, WriteNext
  <2>2. date[h] \in 0..Today /\ Today' = Today
    BY <1>1 DEF FilesTypeOK, Today
  <2> HIDE DEF Today
  <2> QED BY <1>1, <2>1, <2>2 DEF FilesTypeOK
<1>4. step' \in 0..2
  <2>1. CASE MakeDir(h) /\ step = 0
    BY <2>1 DEF MakeDir
  <2>2. CASE WriteNext(h) /\ step > 0
    <3>1. step \in {1, 2} /\ (h \in Mute => step <= 1)
      <4>1. step \in 0..2 /\ step > 0
        BY <1>1, <2>2 DEF FilesTypeOK
      <4>2. h \in Mute => step <= 1
        BY <1>1 DEF InHand
      <4> QED BY <4>1, <4>2
    <3>2. step' = 0 \/ (step' = step + 1 /\ step # Len(Written(h)))
      BY <2>2 DEF WriteNext
    <3>3. Len(Written(h)) = IF h \in Mute THEN 1 ELSE 2
      BY DEF Written
    <3> QED BY <3>1, <3>2, <3>3
  <2> QED BY <2>1, <2>2
<1>5. files' \in [File -> {"none", "whole", "broken"}]
  <2>1. \A k : \E c \in {"whole", "broken"} :
          WriteFile(h, k) => files' = files \/ files' = [files EXCEPT ![<<h, k>>] = c]
    BY DEF WriteFile
  <2>2. UNCHANGED files \/ \E k, c : /\ c \in {"whole", "broken"}
                                     /\ files' = [files EXCEPT ![<<h, k>>] = c]
    BY <2>1 DEF WriteNext
  <2> QED BY <1>1, <2>2 DEF FilesTypeOK
<1>6. now' \in 0..MaxTime /\ date' \in [Handlers -> 0..Today']
  BY <1>1 DEF FilesTypeOK, Today
<1>7. /\ cleaner' \in {"removing", "unlinking", "waiting", "exited"}
      /\ todo' \subseteq dirs' /\ listed' \subseteq File
  BY <1>1, <1>3 DEF FilesTypeOK
<1> QED BY <1>2, <1>3, <1>4, <1>5, <1>6, <1>7 DEF FilesTypeOK

LEMMA CleanerTypes ==
    ASSUME FilesInv, ReadDir \/ Remove \/ CleanerEnds PROVE FilesTypeOK'
<1>1. FilesTypeOK /\ UNCHANGED <<now, date, step, failed>> /\ Today' = Today
  BY DEF FilesInv, TypeOK, ReadDir, Remove, OpenDir, Unlink, RemoveDir, CleanerEnds, Unchanging, Today
<1>2. failures' \in 0..MaxFailures
  <2>1. failures' = failures \/ (failures < MaxFailures /\ failures' = failures + 1)
    BY DEF ReadDir, Remove, OpenDir, Unlink, RemoveDir, CleanerEnds, Failure
  <2> QED BY <1>1, <2>1, FilesConstants DEF FilesTypeOK
<1>3. todo' \subseteq dirs' /\ dirs' \subseteq dirs
  BY <1>1 DEF ReadDir, Remove, OpenDir, Unlink, RemoveDir, CleanerEnds, FilesTypeOK
<1>4. listed' \subseteq File /\ cleaner' \in {"removing", "unlinking", "waiting", "exited"}
  BY <1>1 DEF ReadDir, Remove, OpenDir, Unlink, RemoveDir, CleanerEnds, FilesTypeOK, FilesOf
<1>5. files' \in [File -> {"none", "whole", "broken"}]
  BY <1>1 DEF ReadDir, Remove, OpenDir, Unlink, RemoveDir, CleanerEnds, FilesTypeOK
<1> HIDE DEF Today
<1> QED BY <1>1, <1>2, <1>3, <1>4, <1>5 DEF FilesTypeOK

LEMMA OtherTypes ==
    ASSUME FilesInv, UNCHANGED filesVars \/ Tick \/ \E h \in Handlers : Accept(h)
    PROVE  FilesTypeOK'
<1>1. FilesTypeOK /\ TypeOK
  BY DEF FilesInv, TypeOK
<1>2. CASE UNCHANGED filesVars
  BY <1>1, <1>2 DEF filesVars, FilesTypeOK, Today
<1>3. CASE Tick
  <2>1. /\ UNCHANGED <<date, step, dirs, files, cleaner, todo, listed, failures, failed>>
        /\ now' \in 0..MaxTime /\ now' = now + 1
    BY <1>1, <1>3, FilesConstants DEF Tick, FilesTypeOK
  <2>2. Today \in Nat /\ Today' \in Nat /\ Today <= Today'
    BY <1>1, <2>1, FilesTypes, TimePasses
  <2>3. 0..Today \subseteq 0..Today'
    <3> HIDE DEF Today
    <3> QED BY <2>2
  <2> HIDE DEF Today
  <2>4. date' \in [Handlers -> 0..Today'] /\ dirs' \subseteq 0..Today'
    BY <1>1, <2>1, <2>3 DEF FilesTypeOK
  <2> QED BY <1>1, <2>1, <2>4 DEF FilesTypeOK
<1>4. ASSUME NEW h \in Handlers, Accept(h) PROVE FilesTypeOK'
  <2>1. /\ UNCHANGED <<now, step, dirs, files, cleaner, todo, listed, failures, failed>>
        /\ date' = [date EXCEPT ![h] = Today] /\ Today' = Today
    BY <1>4 DEF Accept, Today
  <2>2. Today \in 0..Today
    <3>1. Today \in Nat
      BY <1>1, FilesTypes, Quotient, FilesConstants DEF Today
    <3> HIDE DEF Today
    <3> QED BY <3>1
  <2> HIDE DEF Today
  <2> QED BY <1>1, <2>1, <2>2 DEF FilesTypeOK
<1> QED BY <1>2, <1>3, <1>4

(* What the worker does to the files, it does for the entry in hand.       *)
LEMMA WorkerHand ==
    ASSUME FilesInv, WriteEntry
    PROVE  \E h \in Handlers : /\ hand = <<h>>
                               /\ \/ step = 0 /\ MakeDir(h) /\ UNCHANGED files
                                  \/ step > 0 /\ WriteNext(h)
<1>1. PICK h \in Handlers : hand = <<h>>
  BY FilesTypes DEF FilesInv, WriteEntry
<1>2. Head(hand) = h
  BY <1>1
<1> QED BY <1>1, <1>2 DEF WriteEntry

LEMMA ServerTypes ==
    ASSUME TypeOK, [Next]_vars
    PROVE  /\ main' \in {"serving", "shutdown", "close", "closing_logger",
                         "closing_cleaner", "exited"}
           /\ request' \in [Handlers -> {"absent", "serving", "answered"}]
           /\ abandoned' \subseteq Handlers
<1>1. CASE UNCHANGED serverVars
  BY <1>1 DEF TypeOK, serverVars
<1>2. ASSUME NEW h \in Handlers, Accept(h) \/ Respond(h)
      PROVE  /\ main' = main /\ abandoned' = abandoned
             /\ request' \in [Handlers -> {"absent", "serving", "answered"}]
  BY <1>2 DEF Accept, Respond, TypeOK
<1>3. CASE Signal \/ Main
  BY <1>3 DEF Signal, Main, ShutdownDone, ShutdownTimeout, CloseLogger, LoggerClosed,
              CleanerClosed, MainGoes, TypeOK, InFlight
<1> QED
  BY <1>1, <1>2, <1>3
  DEF Next, vars, TypeOK, LogEntry, WorkStep, CleanAgain, RemoveStep, CleanerEnds, serverVars

LEMMA FilesStep == FilesInv /\ [Next]_vars => FilesInv'
<1> SUFFICES ASSUME FilesInv, [Next]_vars PROVE FilesInv'
  OBVIOUS
<1>1. TypeOK
  BY DEF FilesInv
<1>2. FilesTypeOK' => TypeOK'
  BY <1>1, LoggerTypeStep, ServerTypes DEF TypeOK
<1>3. ASSUME NEW h \in Handlers, Accept(h) PROVE FilesInv'
  BY <1>2, <1>3, OtherTypes, FilesAccept
<1>4. ASSUME NEW h \in Handlers, LogEntry(h) PROVE FilesInv'
  BY <1>2, <1>4, OtherTypes, FilesLog DEF LogEntry
<1>5. ASSUME NEW h \in Handlers, Respond(h) PROVE FilesInv'
  <2>1. /\ UNCHANGED <<filesVars, ch, hand, written>>
        /\ \A g \in Handlers : request[g] # "absent" => request'[g] # "absent"
    BY <1>1, <1>5 DEF Respond, loggerVars, TypeOK
  <2> QED BY <1>2, <2>1, OtherTypes, FilesServer
<1>6. CASE WorkStep
  <2>1. UNCHANGED request
    BY <1>6 DEF WorkStep, serverVars
  <2>2. CASE Take /\ UNCHANGED filesVars
    BY <1>2, <2>1, <2>2, OtherTypes, FilesTake
  <2>3. CASE WriteEntry
    <3>1. UNCHANGED <<now, date, cleaner, todo, listed>>
      BY <2>3 DEF WriteEntry
    <3>2. PICK h \in Handlers : /\ hand = <<h>>
                                /\ \/ step = 0 /\ MakeDir(h) /\ UNCHANGED files
                                   \/ step > 0 /\ WriteNext(h)
      BY <2>3, WorkerHand
    <3>3. TypeOK'
      BY <1>2, <3>1, <3>2, WorkerTypes
    <3> QED BY <2>1, <3>1, <3>2, <3>3, FilesMakeDir, FilesWriteNext
  <2> QED BY <1>6, <2>2, <2>3 DEF WorkStep, Work
<1>7. CASE CleanAgain
  BY <1>2, <1>7, CleanerTypes, FilesReadDir DEF CleanAgain, serverVars
<1>8. CASE RemoveStep
  <2>1. Remove /\ UNCHANGED request
    BY <1>8 DEF RemoveStep, serverVars
  <2>2. TypeOK'
    BY <1>2, <2>1, CleanerTypes
  <2> QED BY <2>1, <2>2, FilesOpenDir, FilesUnlink, FilesRemoveDir DEF Remove
<1>9. CASE CleanerEnds
  BY <1>2, <1>9, CleanerTypes, FilesCleanerEnds
<1>10. CASE Tick /\ UNCHANGED serverVars
  BY <1>2, <1>10, OtherTypes, FilesTick
<1>11. CASE Signal \/ Main
  <2>1. UNCHANGED <<filesVars, request, ch, hand, written>>
    BY <1>11 DEF Signal, Main, ShutdownDone, ShutdownTimeout, CloseLogger, LoggerClosed,
                 CleanerClosed, MainGoes, Cancel, channel, loggerVars
  <2> QED BY <1>2, <2>1, OtherTypes, FilesServer
<1>12. CASE UNCHANGED vars
  <2>1. UNCHANGED <<filesVars, request, ch, hand, written>>
    BY <1>12 DEF vars, loggerVars, serverVars
  <2> QED BY <1>2, <2>1, OtherTypes, FilesServer
<1> QED BY <1>3, <1>4, <1>5, <1>6, <1>7, <1>8, <1>9, <1>10, <1>11, <1>12 DEF Next

LEMMA FilesHold == Spec => []FilesInv
BY FilesInvInit, FilesStep, PTL DEF Spec

(* Logger, files, cleaner and server together are well typed.              *)
THEOREM SpeechServerTypes == Spec => []TypeOK
<1>1. FilesInv => TypeOK
  BY DEF FilesInv
<1> QED BY <1>1, FilesHold, PTL

(* For any number of requests, failures and days: an entry writeEntry is   *)
(* done with is on the disk, record and audio, and no record is there      *)
(* before its audio, unless a call for it failed or its day is past the    *)
(* retention, whatever the cleaner removed meanwhile.                      *)
THEOREM EntriesAreKept == Spec => []KeptOnDisk
<1>1. ASSUME FilesInv, NEW h \in Handlers \ failed, ~PastRetention(date[h])
      PROVE  LET there == {kind \in {"audio", "record"} : files[<<h, kind>>] = "whole"}
                 all   == {"record"} \cup (IF h \in Mute THEN {} ELSE {"audio"})
             IN  /\ (\E n \in DOMAIN written : written[n] = h) => there = all
                 /\ "record" \in there => there = all
  <2> DEFINE there == {kind \in {"audio", "record"} : files[<<h, kind>>] = "whole"}
             all   == {"record"} \cup (IF h \in Mute THEN {} ELSE {"audio"})
  <2>1. OnDisk(h) /\ Kept(h)
    BY <1>1 DEF FilesInv, Kept
  <2>2. Complete(h) => there = all
    BY <2>1 DEF Complete, OnDisk
  <2>3. "record" \in there => files[<<h, "record">>] = "whole"
    OBVIOUS
  <2> HIDE DEF there, all
  <2>4. /\ (\E n \in DOMAIN written : written[n] = h) => there = all
        /\ "record" \in there => there = all
    BY <2>1, <2>2, <2>3 DEF OnDisk
  <2> QED BY <2>4 DEF there, all
<1>2. FilesInv => KeptOnDisk
  BY <1>1, Zenon DEF KeptOnDisk
<1> QED BY <1>2, FilesHold, PTL

(* For any retention and any division of the day: what the cleaner removes *)
(* is of a day at least RetentionDays calendar days ago.                   *)
THEOREM RetentionIsKept == Spec => RetentionKept
<1>1. ASSUME FilesInv, [Next]_vars, NEW f \in File, files'[f] = "none", files[f] # "none"
      PROVE  Today - date[f[1]] >= RetentionDays
  <2>1. Unlink
    <3>1. ASSUME NEW h, NEW kind, WriteFile(h, kind) PROVE FALSE
      <4>1. files' = files \/ \E c \in {"whole", "broken"} : files' = [files EXCEPT ![<<h, kind>>] = c]
        BY <3>1 DEF WriteFile
      <4>2. DOMAIN files = File
        BY <1>1, FilesTypes DEF FilesInv
      <4> QED BY <1>1, <4>1, <4>2
    <3>2. ~(UNCHANGED files)
      BY <1>1
    <3>3. ~WorkStep
      BY <3>1, <3>2 DEF WorkStep, Work, WriteEntry, WriteNext, filesVars
    <3> QED
      BY <1>1, <3>2, <3>3
      DEF Next, vars, filesVars, Accept, LogEntry, Respond, CleanAgain, ReadDir, RemoveStep, Remove,
          OpenDir, RemoveDir, CleanerEnds, Tick, Signal, Main, MainGoes, ShutdownDone,
          ShutdownTimeout, CloseLogger, LoggerClosed, CleanerClosed
  <2>2. PastRetention(date[f[1]])
    BY <1>1, <2>1, Unlinked
  <2>3. now \in Nat /\ date[f[1]] \in Nat
    BY <1>1, FilesTypes DEF FilesInv, File
  <2> QED BY <2>2, <2>3, PastIsOver
<1>2. FilesInv /\ [Next]_vars =>
        [\A f \in File : files'[f] = "none" /\ files[f] # "none"
            => Today - date[f[1]] >= RetentionDays]_<<files>>
  BY <1>1
<1> QED BY <1>2, FilesHold, PTL DEF Spec, RetentionKept
=============================================================================
