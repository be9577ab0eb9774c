---------------------------- MODULE RotateLogger ----------------------------
(***************************************************************************)
(* core/logx/rotatelogger.go with its daily rule: Write puts a line into a *)
(* channel, one worker goroutine takes lines out, rotates the file when    *)
(* the date has changed, and appends the line.  Rotating renames the file  *)
(* to the backup name that was computed at the rotation before.            *)
(*                                                                         *)
(* Every step of rotate can fail, the date can change between any two      *)
(* steps, and the process can be restarted.  Compression and removal of    *)
(* old backups come after that and touch no file the logger writes.        *)
(***************************************************************************)
EXTENDS Naturals, Sequences

CONSTANTS
    Capacity,       \* of the channel
    MaxLines,       \* bound on the lines written
    MaxDate,        \* bound on the date
    MaxFailures,    \* bound on the operations of the file system that fail
    MaxRestarts

RotateLoggerAssumption == MaxDate \in Nat

Dates == 0..MaxDate

VARIABLE lg

\* fp is whether the file is open, exists whether it is there; backups maps a date to the
\* lines of the backup of that name, or to the empty sequence; dropped, overwritten and midnight are ghosts:
\* the lines that met no open file or the end of the process, that a backup was renamed over,
\* and that the date changed between the two steps of a start.
Init ==
    lg = [date |-> 0, pc |-> "rule", line |-> 0, next |-> 1, chan |-> <<>>, done |-> FALSE,
          closer |-> "no", fp |-> FALSE, exists |-> FALSE, file |-> <<>>,
          backup |-> 0, rotated |-> 0, backups |-> [d \in Dates |-> <<>>],
          accepted |-> {}, dropped |-> {}, overwritten |-> FALSE, midnight |-> FALSE,
          failures |-> 0, restarts |-> 0]

At(l) == lg.pc = l
\* The lines of a channel or a file.
In(s) == {s[i] : i \in DOMAIN s}
\* The line that the worker is busy with.
Taken == IF lg.pc \in {"rule", "init", "idle", "quit"} THEN {} ELSE {lg.line}
Fails == lg.failures < MaxFailures
Failed(l) == [lg EXCEPT !.failures = @ + 1, !.pc = l]

Tick ==
    /\ lg.date < MaxDate
    /\ lg' = [lg EXCEPT !.date = @ + 1]

\* A process starts: DefaultRotateRule reads the date,
NewRule ==
    /\ At("rule")
    /\ lg' = [lg EXCEPT !.rotated = lg.date, !.pc = "init"]

\* then init of NewLogger reads it for the backup name, and opens or creates the file.
InitLogger ==
    /\ At("init")
    /\ lg' = [lg EXCEPT !.backup = lg.date, !.fp = TRUE, !.exists = TRUE, !.pc = "idle",
                        !.midnight = @ \/ lg.date # lg.rotated]

\* Write: select picks either case when both are ready; a line that is refused goes to the
\* standard logger.
Write ==
    /\ lg.next <= MaxLines /\ lg.pc \notin {"rule", "init"}
    /\ \/ /\ Len(lg.chan) < Capacity
          /\ lg' = [lg EXCEPT !.next = @ + 1, !.chan = Append(@, lg.next),
                              !.accepted = @ \cup {lg.next}]
       \/ /\ lg.done
          /\ lg' = [lg EXCEPT !.next = @ + 1]

\* The worker of startWorker, and ShallRotate of the rule.
Take ==
    /\ At("idle") /\ lg.chan # <<>>
    /\ lg' = [lg EXCEPT !.line = Head(lg.chan), !.chan = Tail(@),
                        !.pc = IF lg.date # lg.rotated THEN "rotate" ELSE "append"]

WorkerQuits ==
    /\ At("idle") /\ lg.done
    /\ lg' = [lg EXCEPT !.pc = "quit"]

\* rotate: close the file,
CloseFile ==
    /\ At("rotate")
    /\ \/ lg' = [lg EXCEPT !.fp = FALSE, !.pc = "rename"]
       \/ /\ lg.fp /\ Fails
          /\ lg' = [Failed("append") EXCEPT !.fp = FALSE]

\* rename it when it is there,
Rename ==
    /\ At("rename")
    /\ \/ /\ ~lg.exists
          /\ lg' = [lg EXCEPT !.pc = "name"]
       \/ /\ lg.exists
          /\ lg' = [lg EXCEPT !.backups[lg.backup] = lg.file, !.exists = FALSE, !.file = <<>>,
                              !.overwritten = @ \/ lg.backups[lg.backup] # <<>>, !.pc = "name"]
       \/ /\ lg.exists /\ Fails
          /\ lg' = Failed("append")

\* compute the next backup name,
Name ==
    /\ At("name")
    /\ lg' = [lg EXCEPT !.backup = lg.date, !.pc = "create"]

\* and create a file, which empties it when it is there.
Create ==
    /\ At("create")
    /\ \/ lg' = [lg EXCEPT !.fp = TRUE, !.exists = TRUE, !.file = <<>>, !.pc = "mark"]
       \/ /\ Fails
          /\ lg' = Failed("append")

\* MarkRotated, only when rotate succeeded.
MarkRotated ==
    /\ At("mark")
    /\ lg' = [lg EXCEPT !.rotated = lg.date, !.pc = "append"]

\* Mutant of AppendLine: the line is written before the rotation is known to have worked.
AppendLineBlind ==
    /\ At("append")
    /\ lg' = [lg EXCEPT !.pc = "idle", !.dropped = IF lg.fp THEN @ ELSE @ \cup {lg.line},
                        !.file = IF lg.fp THEN <<lg.line>> \o @ ELSE @]

AppendLine ==
    /\ At("append")
    /\ lg' = [lg EXCEPT !.pc = "idle", !.dropped = IF lg.fp THEN @ ELSE @ \cup {lg.line},
                        !.file = IF lg.fp THEN Append(@, lg.line) ELSE @]

\* Close: once, it waits for the worker, then syncs and closes the file.
Close ==
    /\ lg.closer = "no" /\ lg.pc \notin {"rule", "init"}
    /\ lg' = [lg EXCEPT !.closer = "waits", !.done = TRUE]

CloseReturns ==
    /\ lg.closer = "waits" /\ At("quit")
    /\ lg' = [lg EXCEPT !.closer = "done", !.fp = FALSE]

\* The process ends, at any point, and a new one starts.
Restart ==
    /\ lg.restarts < MaxRestarts
    /\ lg' = [lg EXCEPT !.restarts = @ + 1, !.pc = "rule", !.chan = <<>>, !.done = FALSE,
                        !.closer = "no", !.fp = FALSE,
                        !.dropped = @ \cup In(lg.chan) \cup Taken]

Worker ==
    \/ Take \/ WorkerQuits \/ CloseFile \/ Rename \/ Name \/ Create \/ MarkRotated \/ AppendLine

Next == Tick \/ NewRule \/ InitLogger \/ Write \/ Worker \/ Close \/ CloseReturns \/ Restart

Spec == Init /\ [][Next]_lg

\* The worker and a pending Close go on.
FairSpec == Spec /\ WF_lg(Worker) /\ WF_lg(CloseReturns)

TypeOK ==
    /\ Len(lg.chan) <= Capacity
    /\ lg.backup \in Dates /\ lg.rotated \in Dates
    /\ lg.fp => lg.exists
-----------------------------------------------------------------------------
Written == In(lg.file) \cup UNION {In(lg.backups[d]) : d \in Dates}

Increasing(s) == \A i, j \in DOMAIN s : i < j => s[i] < s[j]
Before(s, t) == \A m \in In(s), n \in In(t) : m < n

\* A rotation never renames over a backup, though the date is read again in each step, steps
\* fail and are tried again with the next line, and the process is restarted; but for one case:
\* when the date changes between the two reads of a start, the first rotation comes at once,
\* and it and the next one use the same name.
OnlyMidnightStartOverwrites == lg.overwritten => lg.midnight

\* The backups in the order of their dates, and then the file, hold the accepted lines in the
\* order of Write, each of them once; a line is missing when it is still on its way, when the file
\* could not be opened, or when the process ended.
LinesInOrder ==
    lg.overwritten \/
        /\ Written = lg.accepted \ (lg.dropped \cup In(lg.chan) \cup Taken)
        /\ Increasing(lg.file) /\ \A d \in Dates : Increasing(lg.backups[d])
        /\ \A d \in Dates : Before(lg.backups[d], lg.file)
        /\ \A d, e \in Dates : d < e => Before(lg.backups[d], lg.backups[e])

\* A line that Write accepted leaves the channel, unless the logger is closed: Close does not
\* empty the channel.
OnlyCloseStrandsLines == lg.chan # <<>> ~> lg.chan = <<>> \/ lg.done

\* Close returns, or the process ends first.
CloseTerminates == lg.closer = "waits" ~> lg.closer \in {"done", "no"}
=============================================================================
