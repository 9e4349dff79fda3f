---------------------------- MODULE AsrLogFiles -----------------------------
(***************************************************************************)
(* The files of internal/asrlog: writeEntry makes the directory of the     *)
(* day a request started, writes its audio and then its record; the        *)
(* cleaner removes the directories of days past the retention, file by     *)
(* file, while the worker may still be writing into one of them.  An error *)
(* is logged and the entry is taken for written all the same.              *)
(*                                                                         *)
(* The clock counts parts of a day.  The directories of the engines below  *)
(* a day's are part of it, and what is no date in the base directory is    *)
(* not there.                                                              *)
(***************************************************************************)
EXTENDS AsrLogger, FiniteSets

CONSTANTS Mute,           \* the requests whose audio file is empty
          RetentionDays,  \* ASR_LOG_RETENTION_DAYS, positive
          PerDay,         \* parts of a day
          MaxTime,        \* bound: the clock stops there
          MaxFailures     \* bound: calls to the file system that fail

ASSUME FilesConstants ==
    /\ Mute \subseteq Handlers
    /\ RetentionDays \in Nat \ {0} /\ PerDay \in Nat \ {0}
    /\ MaxTime \in Nat /\ MaxFailures \in Nat

VARIABLES
    now,       \* the time of day
    date,      \* the day of entry.Timedate, when the request started
    step,      \* the calls writeEntry is done with for the entry in hand
    dirs,      \* the days that have a directory
    files,     \* the content of each file
    cleaner,   \* where the cleaner goroutine is
    todo,      \* the days the pass of the cleaner has yet to remove
    listed,    \* the files RemoveAll has read from a directory and not unlinked
    failures,  \* how many calls have failed
    failed     \* history: the entries one of whose calls failed

filesVars == <<now, date, step, dirs, files, cleaner, todo, listed, failures, failed>>

File == Handlers \X {"audio", "record"}

Today      == now \div PerDay
FilesOf(d) == {f \in File : date[f[1]] = d /\ files[f] # "none"}

FilesInit ==
    /\ now = 0
    /\ date = [h \in Handlers |-> 0]
    /\ step = 0
    /\ dirs = {}
    /\ files = [f \in File |-> "none"]
    /\ cleaner = "waiting"
    /\ todo = {} /\ listed = {}
    /\ failures = 0 /\ failed = {}

Tick ==
    /\ now < MaxTime
    /\ now' = now + 1
    /\ UNCHANGED <<loggerVars, date, step, dirs, files, cleaner, todo, listed, failures, failed>>

-----------------------------------------------------------------------------
(* A call that fails by itself.                                            *)
Failure == failures < MaxFailures /\ failures' = failures + 1
FailureOf(h) == Failure /\ failed' = failed \cup {h}
NoFailure == UNCHANGED <<failures, failed>>

(* Mutant of Written: the line of the log comes first.                     *)
RecordFirst(h) == IF h \in Mute THEN <<"record">> ELSE <<"record", "audio">>

(* The files writeEntry writes, in order.                                  *)
Written(h) == IF h \in Mute THEN <<"record">> ELSE <<"audio", "record">>

(* Mutant of MakeDir: Mkdir, for which a directory that is there is an     *)
(* error.                                                                  *)
MakeNewDir(h) ==
    \/ /\ date[h] \notin dirs
       /\ dirs' = dirs \cup {date[h]}
       /\ step' = 1
       /\ NoFailure /\ UNCHANGED loggerVars
    \/ /\ date[h] \in dirs
       /\ Write
       /\ NoFailure /\ UNCHANGED <<step, dirs>>

(* MkdirAll; when it fails the entry is given up.                          *)
MakeDir(h) ==
    \/ /\ dirs' = dirs \cup {date[h]}
       /\ step' = 1
       /\ NoFailure /\ UNCHANGED loggerVars
    \/ /\ FailureOf(h)
       /\ Write
       /\ UNCHANGED <<step, dirs>>

(* WriteFile: without the directory there is no file, and a failure leaves *)
(* part of one, if only its name.                                          *)
WriteFile(h, kind) ==
    LET put(content) == files' = [files EXCEPT ![<<h, kind>>] = content] IN
    \/ date[h] \in dirs /\ put("whole") /\ NoFailure
    \/ date[h] \in dirs /\ put("broken") /\ FailureOf(h)
    \/ date[h] \notin dirs /\ UNCHANGED files /\ NoFailure

(* Nothing that fails here stops what follows: the record is written, and  *)
(* names the audio file, whether or not there is one.                      *)
WriteNext(h) ==
    /\ WriteFile(h, Written(h)[step])
    /\ IF step = Len(Written(h))
       THEN step' = 0 /\ Write
       ELSE step' = step + 1 /\ UNCHANGED loggerVars
    /\ UNCHANGED dirs

WriteEntry ==
    /\ hand # <<>>
    /\ LET h == Head(hand) IN
       \/ step = 0 /\ MakeDir(h) /\ UNCHANGED files
       \/ step > 0 /\ WriteNext(h)
    /\ UNCHANGED <<now, date, cleaner, todo, listed>>

Work == WriteEntry \/ (Take /\ UNCHANGED filesVars)

-----------------------------------------------------------------------------
(* clean, at the start and once an hour.  The date of a directory is its   *)
(* midnight, the cutoff an instant some whole days before now.             *)
Unchanging == UNCHANGED <<loggerVars, now, date, step>>

(* Mutant of PastRetention: the cutoff is a day late.                      *)
PastRetentionLess(d) == d * PerDay < now - (RetentionDays - 1) * PerDay

PastRetention(d) == d * PerDay < now - RetentionDays * PerDay

(* A pass that finds nothing to remove, or whose ReadDir fails, does       *)
(* nothing and is no step here.                                            *)
ReadDir ==
    /\ cleaner = "waiting"
    /\ todo' = {d \in dirs : PastRetention(d)}
    /\ todo' # {}
    /\ cleaner' = "removing"
    /\ UNCHANGED <<dirs, files, listed, failures, failed>> /\ Unchanging

(* The directory RemoveAll is at: ReadDir sorts them.                      *)
Current == CHOOSE d \in todo : \A e \in todo : d <= e

OpenDir ==
    /\ cleaner = "removing"
    /\ listed' = FilesOf(Current)
    /\ cleaner' = "unlinking"
    /\ UNCHANGED <<dirs, files, todo, failures, failed>> /\ Unchanging

Unlink ==
    /\ cleaner = "unlinking"
    /\ \E f \in listed :
        /\ listed' = listed \ {f}
        /\ \/ files' = [files EXCEPT ![f] = "none"] /\ UNCHANGED failures
           \/ Failure /\ UNCHANGED files
    /\ UNCHANGED <<dirs, cleaner, todo, failed>> /\ Unchanging

(* Mutant of RemoveDir: Remove instead of RemoveAll.                       *)
RemoveEmptyDir ==
    /\ cleaner = "unlinking"
    /\ dirs' = IF FilesOf(Current) = {} THEN dirs \ {Current} ELSE dirs
    /\ todo' = todo \ {Current}
    /\ listed' = {}
    /\ cleaner' = IF todo' = {} THEN "waiting" ELSE "removing"
    /\ UNCHANGED <<files, failures, failed>> /\ Unchanging

(* The directory goes if it is empty; a file that was written meanwhile, or*)
(* that could not be removed, keeps it until the next pass.                *)
RemoveDir ==
    /\ cleaner = "unlinking" /\ listed = {}
    /\ dirs' = IF FilesOf(Current) = {} THEN dirs \ {Current} ELSE dirs
    /\ todo' = todo \ {Current}
    /\ cleaner' = IF todo' = {} THEN "waiting" ELSE "removing"
    /\ UNCHANGED <<files, listed, failures, failed>> /\ Unchanging

Remove == OpenDir \/ Unlink \/ RemoveDir

-----------------------------------------------------------------------------
(* Every variable of the files holds a value of its type.                  *)
FilesTypeOK ==
    /\ now \in 0..MaxTime
    /\ date \in [Handlers -> 0..Today]
    /\ step \in 0..2
    /\ dirs \subseteq 0..Today
    /\ files \in [File -> {"none", "whole", "broken"}]
    /\ cleaner \in {"removing", "unlinking", "waiting", "exited"}
    /\ todo \subseteq dirs /\ listed \subseteq File
    /\ failures \in 0..MaxFailures /\ failed \subseteq Handlers

(* Of an entry that writeEntry is done with, the record and the audio it   *)
(* names are on the disk, unless one of its calls failed or its day is past*)
(* the retention; and a record never stands there before its audio.        *)
KeptOnDisk ==
    \A h \in Handlers \ failed :
        LET there == {kind \in {"audio", "record"} : files[<<h, kind>>] = "whole"}
            all   == {"record"} \cup (IF h \in Mute THEN {} ELSE {"audio"})
        IN ~PastRetention(date[h]) =>
            /\ (\E n \in DOMAIN written : written[n] = h) => there = all
            /\ "record" \in there => there = all

(* The cleaner removes no file of the last RetentionDays calendar days,    *)
(* today included, although its cutoff is in the middle of a day.          *)
RetentionKept ==
    [][\A f \in File : files'[f] = "none" /\ files[f] # "none"
            => Today - date[f[1]] >= RetentionDays]_<<files>>
=============================================================================
