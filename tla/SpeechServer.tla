---------------------------- MODULE SpeechServer ----------------------------
(***************************************************************************)
(* cmd/speech/main.go from its first request to its end: the HTTP server,  *)
(* the handlers that log an entry before they answer, the logger with its  *)
(* files, and the cleaner of the log directory.  A signal starts           *)
(* srv.Shutdown, which waits for the requests in flight, but not for long; *)
(* then the logger and the cleaner are closed, one after the other, and    *)
(* main returns with whatever still runs.                                  *)
(***************************************************************************)
EXTENDS AsrLogFiles

VARIABLES
    main,        \* where main is
    request,     \* each request: not there, in its handler, or answered
    abandoned    \* history: the requests in flight when Shutdown gave up

serverVars == <<main, request, abandoned>>
vars == <<loggerVars, filesVars, serverVars>>

Init ==
    /\ LoggerInit /\ FilesInit
    /\ main = "serving"
    /\ request = [h \in Handlers |-> "absent"]
    /\ abandoned = {}

InFlight == {h \in Handlers : request[h] = "serving"}

-----------------------------------------------------------------------------
Accept(h) ==
    /\ main = "serving"
    /\ request[h] = "absent"
    /\ request' = [request EXCEPT ![h] = "serving"]
    /\ date' = [date EXCEPT ![h] = Today]
    /\ UNCHANGED <<loggerVars, main, abandoned>>
    /\ UNCHANGED <<now, step, dirs, files, cleaner, todo, listed, failures, failed>>

(* Transcription is over: the entry, unless feedback is not allowed, and   *)
(* then the answer.                                                        *)
LogEntry(h) ==
    /\ request[h] = "serving"
    /\ Enqueue(h)
    /\ UNCHANGED <<filesVars, serverVars>>

Respond(h) ==
    /\ request[h] = "serving"
    /\ enq[h] # "checked"
    /\ request' = [request EXCEPT ![h] = "answered"]
    /\ UNCHANGED <<loggerVars, filesVars, main, abandoned>>

-----------------------------------------------------------------------------
(* Cleaner.run: a pass at the start and one an hour, until the cancel.     *)
CleanerEnds ==
    /\ cleaner = "waiting" /\ main = "closing_cleaner"
    /\ cleaner' = "exited"
    /\ UNCHANGED <<loggerVars, now, date, step, dirs, files, todo, listed, failures, failed>>
    /\ UNCHANGED serverVars

-----------------------------------------------------------------------------
MainGoes(from, to) == main = from /\ main' = to /\ UNCHANGED <<request, filesVars>>

Signal == /\ MainGoes("serving", "shutdown")
          /\ UNCHANGED <<loggerVars, abandoned>>

(* Mutant of ShutdownDone: the server is closed, not shut down.            *)
ServerClosed ==
    /\ MainGoes("shutdown", "close")
    /\ UNCHANGED <<loggerVars, abandoned>>

(* Shutdown returns when no request is in flight, or after ten seconds.    *)
ShutdownDone ==
    /\ InFlight = {}
    /\ MainGoes("shutdown", "close")
    /\ UNCHANGED <<loggerVars, abandoned>>

ShutdownTimeout ==
    /\ InFlight # {}
    /\ MainGoes("shutdown", "close")
    /\ abandoned' = InFlight
    /\ UNCHANGED loggerVars

CloseLogger ==
    /\ MainGoes("close", "closing_logger")
    /\ Cancel
    /\ UNCHANGED abandoned

(* Mutant of LoggerClosed: Close does not wait for the worker.             *)
LoggerCanceled ==
    /\ MainGoes("closing_logger", "closing_cleaner")
    /\ UNCHANGED <<loggerVars, abandoned>>

LoggerClosed ==
    /\ worker = "exited"
    /\ MainGoes("closing_logger", "closing_cleaner")
    /\ UNCHANGED <<loggerVars, abandoned>>

CleanerClosed ==
    /\ cleaner = "exited"
    /\ MainGoes("closing_cleaner", "exited")
    /\ UNCHANGED <<loggerVars, abandoned>>

Main == ShutdownDone \/ ShutdownTimeout \/ CloseLogger \/ LoggerClosed \/ CleanerClosed

-----------------------------------------------------------------------------
(* When main returns the process is gone and every goroutine with it.      *)
Running == main # "exited"

WorkStep    == Running /\ Work /\ UNCHANGED serverVars
CleanAgain  == Running /\ ReadDir /\ UNCHANGED serverVars
RemoveStep  == Running /\ Remove /\ UNCHANGED serverVars

Next ==
    \/ \E h \in Handlers : Running /\ (Accept(h) \/ LogEntry(h) \/ Respond(h))
    \/ WorkStep
    \/ CleanAgain
    \/ RemoveStep
    \/ Running /\ CleanerEnds
    \/ Running /\ Tick /\ UNCHANGED serverVars
    \/ Signal
    \/ Main

(* The goroutines of the process are scheduled: main, the worker, and the  *)
(* cleaner, whose ticker goes off as long as it waits and whose select     *)
(* serves it before the cancel only so often.  Nothing is asked of the     *)
(* handlers, which may wait for an upstream service for as long as it      *)
(* takes, nor of the clock.                                                *)
Fairness ==
    /\ WF_vars(Main) /\ WF_vars(WorkStep)
    /\ WF_vars(CleanAgain) /\ WF_vars(RemoveStep)
    /\ SF_vars(Running /\ CleanerEnds)

Spec == Init /\ [][Next]_vars /\ Fairness

-----------------------------------------------------------------------------
(* Every variable holds a value of its type.                               *)
TypeOK ==
    /\ LoggerTypeOK /\ FilesTypeOK
    /\ main \in {"serving", "shutdown", "close", "closing_logger",
                 "closing_cleaner", "exited"}
    /\ request \in [Handlers -> {"absent", "serving", "answered"}]
    /\ abandoned \subseteq Handlers

(* An entry that was accepted and has not been through writeEntry when the *)
(* process ends, or that was refused because of the end of the logger, is  *)
(* of a request in flight when Shutdown gave up: a stop that had the time  *)
(* to finish its requests loses no entry.                                  *)
LossesWereAbandoned ==
    \A h \in Handlers :
        \/ enq[h] = "refused"
        \/ main = "exited" /\ enq[h] = "sent" /\ \A n \in DOMAIN written : written[n] # h
        => h \in abandoned

(* After the signal the process ends, whatever the handlers do: no wait of *)
(* Close is for something that never comes.                                *)
StopsInTheEnd == (main = "shutdown") ~> (main = "exited")

(* Directories past the retention go, or the service is told to stop: no   *)
(* failed call, no entry written late and no pass that came too early      *)
(* keeps one for ever.                                                     *)
OldOnesGo == (\E d \in dirs : PastRetention(d))
                ~> (main # "serving" \/ ~\E d \in dirs : PastRetention(d))
=============================================================================
