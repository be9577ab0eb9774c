---------------------------- MODULE ProcessProofs ----------------------------
(***************************************************************************)
(* What a service writes, the queue it works for and how it stops, and     *)
(* proofs about each of them for every value of its constants:             *)
(* RotateLogger, MessageQueue and Shutdown.                                *)
(***************************************************************************)
EXTENDS Naturals, Sequences, TLAPS

CONSTANTS
    Listeners, Group, Owner, Services,          \* of Shutdown
    Producers, Consumers,                       \* of MessageQueue
    \* the parameters of the parts, and their bounds
    Capacity, MaxLines, MaxDate, MaxFileFailures, MaxRestarts,
    MaxMessages, MaxPauses

VARIABLES lg, mq, sd
-----------------------------------------------------------------------------
\* The rotating logger (RotateLogger.tla): no rotation renames over a backup, but for a start at
\* midnight, and otherwise backups and file hold the accepted lines in order.

LG == INSTANCE RotateLogger WITH MaxFailures <- MaxFileFailures

LGStarting == lg.pc \in {"rule", "init"}

LGType ==
    /\ DOMAIN lg = {"date", "pc", "line", "next", "chan", "done", "closer", "fp", "exists", "file",
                    "backup", "rotated", "backups", "accepted", "dropped", "overwritten", "midnight",
                    "failures", "restarts"}
    /\ lg.date \in LG!Dates /\ lg.rotated \in LG!Dates /\ lg.backup \in LG!Dates
    /\ lg.next \in Nat /\ lg.line \in Nat /\ lg.chan \in Seq(Nat) /\ lg.file \in Seq(Nat)
    /\ lg.backups \in [LG!Dates -> Seq(Nat)]
    /\ lg.exists \in BOOLEAN /\ lg.overwritten \in BOOLEAN /\ lg.midnight \in BOOLEAN
    /\ lg.accepted \subseteq Nat /\ lg.dropped \subseteq Nat

\* The file and the names: nothing is in a file that is not there, and no backup that is not empty
\* has a later name than the file will get.
LGNames ==
    /\ lg.backup <= lg.date /\ lg.rotated <= lg.date
    /\ lg.pc \in {"name", "create"} => ~lg.exists
    /\ ~lg.exists => lg.file = <<>>
    /\ \A d \in LG!Dates : lg.backups[d] # <<>> => d <= lg.date /\ (~LGStarting => d <= lg.backup)

\* Unless a start fell into midnight, the file has its name from before the last rotation, and all
\* backups that are not empty have earlier ones.
LGFresh ==
    /\ lg.pc \in {"rotate", "rename"} => lg.rotated < lg.date
    /\ lg.exists /\ ~LGStarting /\ lg.pc # "mark" => lg.backup <= lg.rotated
    /\ \A d \in LG!Dates : lg.backups[d] # <<>> =>
            /\ LGStarting \/ lg.pc = "name" => d < lg.date
            /\ ~LGStarting /\ lg.pc # "name" => d < lg.backup

LGFiles == LGType /\ LGNames /\ (~lg.midnight => LGFresh /\ ~lg.overwritten)

\* The lines that are accepted and neither written nor dropped yet.
LGUnder == LG!In(lg.chan) \cup LG!Taken

LGWay ==
    /\ LGUnder \subseteq lg.accepted /\ LGUnder \cap lg.dropped = {}
    /\ lg.accepted \cup lg.dropped \subseteq {n \in Nat : n < lg.next}
    /\ LG!Increasing(lg.chan) /\ \A m \in LG!Taken, n \in LG!In(lg.chan) : m < n

\* What is written is the rest, and older.
LGHeld ==
    /\ LG!Written = lg.accepted \ (lg.dropped \cup LGUnder)
    /\ \A m \in LG!Written, n \in LGUnder : m < n

LGSorted ==
    /\ LG!Increasing(lg.file) /\ \A d \in LG!Dates : LG!Increasing(lg.backups[d])
    /\ \A d \in LG!Dates : LG!Before(lg.backups[d], lg.file)
    /\ \A d, e \in LG!Dates : d < e => LG!Before(lg.backups[d], lg.backups[e])

LGLines == LGWay /\ (lg.overwritten \/ (LGHeld /\ LGSorted))

LGInv == LGFiles /\ LGLines

\* A step that only moves the worker, the clock and the names.
LGMoves(place, date, exists, backup, rotated, midnight) ==
    /\ DOMAIN lg' = DOMAIN lg /\ lg'.pc = place /\ lg'.date = date /\ lg'.exists = exists
    /\ lg'.backup = backup /\ lg'.rotated = rotated /\ lg'.midnight = midnight
    /\ lg'.file = lg.file /\ lg'.backups = lg.backups /\ lg'.overwritten = lg.overwritten
    /\ lg'.next = lg.next /\ lg'.line = lg.line /\ lg'.chan = lg.chan /\ lg'.accepted = lg.accepted
    /\ lg'.dropped = lg.dropped

\* It keeps the lines, if the worker holds the same one.
LEMMA LGMovesKeep ==
    ASSUME LGLines, LG!Taken' = LG!Taken, lg'.file = lg.file, lg'.backups = lg.backups,
           lg'.overwritten = lg.overwritten, lg'.next = lg.next, lg'.chan = lg.chan,
           lg'.accepted = lg.accepted, lg'.dropped = lg.dropped
    PROVE  LGLines'
<1>1. LGUnder' = LGUnder /\ LG!Written' = LG!Written
  BY Zenon DEF LGUnder, LG!Written
<1>2. LGWay'
  BY Zenon, <1>1 DEF LGLines, LGWay
<1>3. LGHeld => LGHeld'
  BY Zenon, <1>1 DEF LGHeld
<1>4. LGSorted => LGSorted'
  BY Zenon DEF LGSorted
<1> QED
  BY Zenon, <1>2, <1>3, <1>4 DEF LGLines

\* The date goes on, and a process starts.
LEMMA LGStarts ==
    ASSUME LG!RotateLoggerAssumption, LGInv, LG!Tick \/ LG!NewRule \/ LG!InitLogger
    PROVE  LGInv'
<1>1. LGType /\ LGNames /\ (~lg.midnight => LGFresh /\ ~lg.overwritten) /\ LGLines
  BY Zenon DEF LGInv, LGFiles
<1>2. \A d \in LG!Dates : d \in Nat
  BY DEF LG!RotateLoggerAssumption, LG!Dates
<1>3. CASE LG!Tick
  <2>1. LGMoves(lg.pc, lg.date + 1, lg.exists, lg.backup, lg.rotated, lg.midnight)
    BY Zenon, <1>1, <1>3 DEF LG!Tick, LGType, LGMoves
  <2>2. lg.date + 1 \in LG!Dates
    BY <1>1, <1>3 DEF LG!Tick, LGType, LG!Dates, LG!RotateLoggerAssumption
  <2>3. LGType'
    BY Zenon, <1>1, <2>1, <2>2 DEF LGType, LGMoves
  <2>4. LGNames'
    BY SMTT(40), <1>1, <1>2, <2>1 DEF LGType, LGNames, LGMoves, LGStarting
  <2>5. ~lg'.midnight => LGFresh' /\ ~lg'.overwritten
    BY SMTT(40), <1>1, <1>2, <2>1 DEF LGType, LGFresh, LGMoves, LGStarting
  <2>6. LGLines'
    BY Zenon, <1>1, <2>1, LGMovesKeep DEF LGMoves, LG!Taken
  <2> QED
    BY Zenon, <2>3, <2>4, <2>5, <2>6 DEF LGInv, LGFiles
<1>4. CASE LG!NewRule
  <2>1. LGMoves("init", lg.date, lg.exists, lg.backup, lg.date, lg.midnight) /\ lg.pc = "rule"
    BY Zenon, <1>1, <1>4 DEF LG!NewRule, LG!At, LGType, LGMoves
  <2>2. LGType'
    BY Zenon, <1>1, <2>1 DEF LGType, LGMoves
  <2>3. LGNames'
    BY <1>1, <1>2, <2>1 DEF LGType, LGNames, LGMoves, LGStarting
  <2>4. ~lg'.midnight => LGFresh' /\ ~lg'.overwritten
    BY Zenon, <1>1, <2>1 DEF LGFresh, LGMoves, LGStarting
  <2>5. LGLines'
    BY Zenon, <1>1, <2>1, LGMovesKeep DEF LGMoves, LG!Taken
  <2> QED
    BY <2>2, <2>3, <2>4, <2>5 DEF LGInv, LGFiles
<1>5. CASE LG!InitLogger
  <2>1. /\ LGMoves("idle", lg.date, TRUE, lg.date, lg.rotated, lg.midnight \/ lg.date # lg.rotated)
        /\ lg.pc = "init"
    BY Zenon, <1>1, <1>5 DEF LG!InitLogger, LG!At, LGType, LGMoves
  <2>2. LGType'
    <3>1. lg'.midnight \in BOOLEAN /\ lg'.exists \in BOOLEAN
      BY Zenon, <2>1 DEF LGMoves
    <3> QED
      BY Zenon, <1>1, <2>1, <3>1 DEF LGType, LGMoves
  <2>3. LGNames'
    BY <1>1, <1>2, <2>1 DEF LGType, LGNames, LGMoves, LGStarting
  <2>4. ~lg'.midnight => LGFresh' /\ ~lg'.overwritten
    <3> SUFFICES ASSUME ~lg'.midnight PROVE LGFresh' /\ ~lg'.overwritten
      OBVIOUS
    <3>1. ~lg.midnight /\ lg.date = lg.rotated
      BY Zenon, <2>1 DEF LGMoves
    <3>2. lg'.pc = "idle" /\ lg'.date = lg.date /\ lg'.backup = lg.date /\ lg'.rotated = lg.rotated
          /\ lg'.backups = lg.backups /\ lg'.overwritten = lg.overwritten
      BY Zenon, <2>1 DEF LGMoves
    <3>3. lg.date \in Nat
      BY Zenon, <1>1, <1>2 DEF LGType
    <3> QED
      BY <1>1, <2>1, <3>1, <3>2, <3>3 DEF LGFresh, LGStarting
  <2>5. LGLines'
    BY Zenon, <1>1, <2>1, LGMovesKeep DEF LGMoves, LG!Taken
  <2> QED
    BY <2>2, <2>3, <2>4, <2>5 DEF LGInv, LGFiles
<1> QED
  BY Zenon, <1>3, <1>4, <1>5

\* The steps of rotate but for the rename, and the end of the worker.
LEMMA LGRotates ==
    ASSUME LG!RotateLoggerAssumption, LGInv,
           \/ LG!WorkerQuits \/ LG!CloseFile \/ LG!Name \/ LG!Create \/ LG!MarkRotated
           \/ LG!Close \/ LG!CloseReturns
    PROVE  LGInv'
<1>1. LGType /\ LGNames /\ (~lg.midnight => LGFresh /\ ~lg.overwritten) /\ LGLines
  BY Zenon DEF LGInv, LGFiles
<1>2. \A d \in LG!Dates : d \in Nat
  BY DEF LG!RotateLoggerAssumption, LG!Dates
<1>3. ASSUME NEW place, LGMoves(place, lg.date, lg.exists, lg.backup, lg.rotated, lg.midnight),
             \/ place = lg.pc
             \/ lg.pc = "idle" /\ place = "quit"
             \/ lg.pc = "rotate" /\ place = "rename"
             \/ lg.pc \in {"rotate", "create"} /\ place = "append"
      PROVE  LGInv'
  <2>1. LGType'
    BY Zenon, <1>1, <1>3 DEF LGType, LGMoves
  <2>2. LGNames'
    BY Zenon, <1>1, <1>3 DEF LGNames, LGMoves, LGStarting
  <2>3. ~lg'.midnight => LGFresh' /\ ~lg'.overwritten
    BY Zenon, <1>1, <1>3 DEF LGFresh, LGMoves, LGStarting
  <2>4. LGLines'
    BY Zenon, <1>1, <1>3, LGMovesKeep DEF LGMoves, LG!Taken
  <2> QED
    BY Zenon, <2>1, <2>2, <2>3, <2>4 DEF LGInv, LGFiles
<1>4. CASE LG!WorkerQuits
  <2>1. LGMoves("quit", lg.date, lg.exists, lg.backup, lg.rotated, lg.midnight) /\ lg.pc = "idle"
    BY Zenon, <1>1, <1>4 DEF LG!WorkerQuits, LG!At, LGType, LGMoves
  <2> QED
    BY Zenon, <1>3, <2>1
<1>5. CASE LG!CloseFile
  <2>1. CASE lg' = [lg EXCEPT !.fp = FALSE, !.pc = "rename"]
    <3>1. LGMoves("rename", lg.date, lg.exists, lg.backup, lg.rotated, lg.midnight) /\ lg.pc = "rotate"
      BY Zenon, <1>1, <1>5, <2>1 DEF LG!CloseFile, LG!At, LGType, LGMoves
    <3> QED
      BY Zenon, <1>3, <3>1
  <2>2. CASE lg' = [LG!Failed("append") EXCEPT !.fp = FALSE]
    <3>1. LGMoves("append", lg.date, lg.exists, lg.backup, lg.rotated, lg.midnight) /\ lg.pc = "rotate"
      BY Zenon, <1>1, <1>5, <2>2 DEF LG!CloseFile, LG!Failed, LG!At, LGType, LGMoves
    <3> QED
      BY Zenon, <1>3, <3>1
  <2> QED
    BY Zenon, <1>5, <2>1, <2>2 DEF LG!CloseFile
<1>6. CASE LG!Close \/ LG!CloseReturns
  <2>1. LGMoves(lg.pc, lg.date, lg.exists, lg.backup, lg.rotated, lg.midnight)
    <3>1. CASE LG!Close
      BY Zenon, <1>1, <3>1 DEF LG!Close, LGType, LGMoves
    <3>2. CASE LG!CloseReturns
      BY Zenon, <1>1, <3>2 DEF LG!CloseReturns, LGType, LGMoves
    <3> QED
      BY Zenon, <1>6, <3>1, <3>2
  <2> QED
    BY Zenon, <1>3, <2>1
<1>7. CASE LG!Name
  <2>1. LGMoves("create", lg.date, lg.exists, lg.date, lg.rotated, lg.midnight) /\ lg.pc = "name"
    BY Zenon, <1>1, <1>7 DEF LG!Name, LG!At, LGType, LGMoves
  <2>2. LGType'
    BY Zenon, <1>1, <2>1 DEF LGType, LGMoves
  <2>3. LGNames'
    BY <1>1, <1>2, <2>1 DEF LGType, LGNames, LGMoves, LGStarting
  <2>4. ~lg'.midnight => LGFresh' /\ ~lg'.overwritten
    BY Zenon, <1>1, <1>2, <2>1 DEF LGNames, LGFresh, LGMoves, LGStarting
  <2>5. LGLines'
    BY Zenon, <1>1, <2>1, LGMovesKeep DEF LGMoves, LG!Taken
  <2> QED
    BY <2>2, <2>3, <2>4, <2>5 DEF LGInv, LGFiles
<1>8. CASE LG!Create
  <2>1. CASE lg' = [lg EXCEPT !.fp = TRUE, !.exists = TRUE, !.file = <<>>, !.pc = "mark"]
    <3>1. lg.file = <<>> /\ lg.pc = "create"
      BY Zenon, <1>1, <1>8 DEF LG!Create, LG!At, LGNames
    <3>2. LGMoves("mark", lg.date, TRUE, lg.backup, lg.rotated, lg.midnight)
      BY Zenon, <1>1, <2>1, <3>1 DEF LGType, LGMoves
    <3>3. LGType'
      BY Zenon, <1>1, <3>2 DEF LGType, LGMoves
    <3>4. LGNames'
      BY Zenon, <1>1, <3>1, <3>2 DEF LGNames, LGMoves, LGStarting
    <3>5. ~lg'.midnight => LGFresh' /\ ~lg'.overwritten
      BY Zenon, <1>1, <3>1, <3>2 DEF LGFresh, LGMoves, LGStarting
    <3>6. LGLines'
      BY Zenon, <1>1, <3>1, <3>2, LGMovesKeep DEF LGMoves, LG!Taken
    <3> QED
      BY <3>3, <3>4, <3>5, <3>6 DEF LGInv, LGFiles
  <2>2. CASE lg' = LG!Failed("append")
    <3>1. LGMoves("append", lg.date, lg.exists, lg.backup, lg.rotated, lg.midnight) /\ lg.pc = "create"
      BY Zenon, <1>1, <1>8, <2>2 DEF LG!Create, LG!Failed, LG!At, LGType, LGMoves
    <3> QED
      BY Zenon, <1>3, <3>1
  <2> QED
    BY Zenon, <1>8, <2>1, <2>2 DEF LG!Create
<1>9. CASE LG!MarkRotated
  <2>1. LGMoves("append", lg.date, lg.exists, lg.backup, lg.date, lg.midnight) /\ lg.pc = "mark"
    BY Zenon, <1>1, <1>9 DEF LG!MarkRotated, LG!At, LGType, LGMoves
  <2>2. LGType'
    BY Zenon, <1>1, <2>1 DEF LGType, LGMoves
  <2>3. LGNames'
    BY <1>1, <1>2, <2>1 DEF LGType, LGNames, LGMoves, LGStarting
  <2>4. ~lg'.midnight => LGFresh' /\ ~lg'.overwritten
    BY Zenon, <1>1, <2>1 DEF LGNames, LGFresh, LGMoves, LGStarting
  <2>5. LGLines'
    BY Zenon, <1>1, <2>1, LGMovesKeep DEF LGMoves, LG!Taken
  <2> QED
    BY <2>2, <2>3, <2>4, <2>5 DEF LGInv, LGFiles
<1> QED
  BY Zenon, <1>4, <1>5, <1>6, <1>7, <1>8, <1>9

\* What is in a sequence with one more line, or with its first one taken off.
LEMMA InAppend ==
    ASSUME NEW s \in Seq(Nat), NEW n \in Nat
    PROVE  /\ LG!In(Append(s, n)) = LG!In(s) \cup {n} /\ Append(s, n) \in Seq(Nat)
           /\ LG!Increasing(s) /\ (\A m \in LG!In(s) : m < n) => LG!Increasing(Append(s, n))
<1>1. DOMAIN Append(s, n) = 1..(Len(s) + 1) /\ DOMAIN s = 1..Len(s) /\ Append(s, n) \in Seq(Nat)
  OBVIOUS
<1>2. (\A i \in 1..Len(s) : Append(s, n)[i] = s[i]) /\ Append(s, n)[Len(s) + 1] = n
  OBVIOUS
<1>3. 1..(Len(s) + 1) = (1..Len(s)) \cup {Len(s) + 1}
  OBVIOUS
<1>4. LG!In(Append(s, n)) = LG!In(s) \cup {n}
  BY <1>1, <1>2, <1>3 DEF LG!In
<1>5. ASSUME LG!Increasing(s), \A m \in LG!In(s) : m < n PROVE LG!Increasing(Append(s, n))
  <2> SUFFICES ASSUME NEW i \in 1..(Len(s) + 1), NEW j \in 1..(Len(s) + 1), i < j
               PROVE  Append(s, n)[i] < Append(s, n)[j]
    BY Zenon, <1>1 DEF LG!Increasing
  <2>1. i \in 1..Len(s) /\ s[i] \in LG!In(s)
    BY <1>1 DEF LG!In
  <2>2. CASE j \in 1..Len(s)
    BY Zenon, <1>1, <1>2, <1>5, <2>1, <2>2 DEF LG!Increasing
  <2>3. CASE j = Len(s) + 1
    BY Zenon, <1>2, <1>5, <2>1, <2>3
  <2> QED
    BY Zenon, <1>3, <2>2, <2>3
<1> QED
  BY Zenon, <1>1, <1>4, <1>5

\* The channel without its first line.
LEMMA InTail ==
    ASSUME NEW s \in Seq(Nat), s # <<>>
    PROVE  /\ LG!In(s) = {Head(s)} \cup LG!In(Tail(s)) /\ Tail(s) \in Seq(Nat) /\ Head(s) \in Nat
           /\ LG!Increasing(s) => LG!Increasing(Tail(s)) /\ \A n \in LG!In(Tail(s)) : Head(s) < n
<1>1. Len(s) \in Nat /\ Len(s) > 0 /\ Tail(s) \in Seq(Nat) /\ Head(s) = s[1] /\ Head(s) \in Nat
      /\ Len(Tail(s)) = Len(s) - 1
  OBVIOUS
<1>2. DOMAIN s = 1..Len(s) /\ DOMAIN Tail(s) = 1..(Len(s) - 1)
  BY <1>1
<1>3. \A i \in 1..(Len(s) - 1) : Tail(s)[i] = s[i + 1] /\ i + 1 \in 1..Len(s) /\ i \in Nat
  BY <1>1
<1>4. LG!In(s) = {Head(s)} \cup LG!In(Tail(s))
  <2>1. ASSUME NEW n \in LG!In(s) PROVE n \in {Head(s)} \cup LG!In(Tail(s))
    <3>1. PICK i \in 1..Len(s) : n = s[i]
      BY Zenon, <1>2, <2>1 DEF LG!In
    <3>2. CASE i = 1
      BY Zenon, <1>1, <3>1, <3>2
    <3>3. CASE i # 1
      <4>1. i - 1 \in 1..(Len(s) - 1) /\ Tail(s)[i - 1] = s[(i - 1) + 1] /\ (i - 1) + 1 = i
        BY <1>1, <1>3, <3>1, <3>3
      <4> QED
        BY Zenon, <1>2, <3>1, <4>1 DEF LG!In
    <3> QED
      BY Zenon, <3>2, <3>3
  <2>2. ASSUME NEW n \in LG!In(Tail(s)) PROVE n \in LG!In(s)
    BY Zenon, <1>2, <1>3, <2>2 DEF LG!In
  <2>3. Head(s) \in LG!In(s)
    BY <1>1, <1>2 DEF LG!In
  <2> QED
    BY Zenon, <2>1, <2>2, <2>3
<1>5. ASSUME LG!Increasing(s) PROVE LG!Increasing(Tail(s)) /\ \A n \in LG!In(Tail(s)) : Head(s) < n
  <2>1. ASSUME NEW i \in 1..(Len(s) - 1), NEW j \in 1..(Len(s) - 1), i < j PROVE Tail(s)[i] < Tail(s)[j]
    <3>1. i + 1 < j + 1
      BY <1>3, <2>1
    <3> QED
      BY Zenon, <1>2, <1>3, <1>5, <2>1, <3>1 DEF LG!Increasing
  <2>2. ASSUME NEW i \in 1..(Len(s) - 1) PROVE Head(s) < Tail(s)[i]
    <3>1. 1 \in 1..Len(s) /\ 1 < i + 1
      BY <1>1, <1>3
    <3> QED
      BY Zenon, <1>1, <1>2, <1>3, <1>5, <3>1 DEF LG!Increasing
  <2> QED
    BY Zenon, <1>2, <2>1, <2>2 DEF LG!Increasing, LG!In
<1> QED
  BY Zenon, <1>1, <1>4, <1>5

\* Write puts a line into the channel, or refuses it.
LEMMA LGWrites ==
    ASSUME LG!RotateLoggerAssumption, LGInv, LG!Write
    PROVE  LGInv'
<1>1. LGType /\ LGNames /\ (~lg.midnight => LGFresh /\ ~lg.overwritten) /\ LGLines /\ lg.next \in Nat
      /\ lg.chan \in Seq(Nat)
  BY Zenon DEF LGInv, LGFiles, LGType
<1>2. /\ DOMAIN lg' = DOMAIN lg /\ lg'.pc = lg.pc /\ lg'.date = lg.date /\ lg'.exists = lg.exists
      /\ lg'.backup = lg.backup /\ lg'.rotated = lg.rotated /\ lg'.midnight = lg.midnight
      /\ lg'.file = lg.file /\ lg'.backups = lg.backups /\ lg'.overwritten = lg.overwritten
      /\ lg'.line = lg.line /\ lg'.dropped = lg.dropped /\ lg'.next = lg.next + 1
      /\ \/ lg'.chan = Append(lg.chan, lg.next) /\ lg'.accepted = lg.accepted \cup {lg.next}
         \/ lg'.chan = lg.chan /\ lg'.accepted = lg.accepted
  BY Zenon, <1>1 DEF LG!Write, LGType
<1>3. lg'.next \in Nat /\ lg'.chan \in Seq(Nat) /\ lg'.accepted \subseteq Nat
  <2>1. Append(lg.chan, lg.next) \in Seq(Nat)
    BY Zenon, <1>1, InAppend
  <2>2. lg.accepted \subseteq Nat
    BY Zenon, <1>1 DEF LGType
  <2>3. lg'.next \in Nat
    BY <1>1, <1>2
  <2>4. lg'.chan \in Seq(Nat)
    BY Zenon, <1>1, <1>2, <2>1
  <2>5. lg'.accepted \subseteq Nat
    BY Zenon, <1>1, <1>2, <2>2
  <2> QED
    BY Zenon, <2>3, <2>4, <2>5
<1>4. LGFiles'
  <2>1. LGType'
    BY Zenon, <1>1, <1>2, <1>3 DEF LGType
  <2>2. LGNames'
    BY Zenon, <1>1, <1>2 DEF LGNames, LGStarting
  <2>3. ~lg'.midnight => LGFresh' /\ ~lg'.overwritten
    BY Zenon, <1>1, <1>2 DEF LGFresh, LGStarting
  <2> QED
    BY Zenon, <2>1, <2>2, <2>3 DEF LGFiles
<1>5. LG!Taken' = LG!Taken /\ LG!Written' = LG!Written
  BY Zenon, <1>2 DEF LG!Taken, LG!Written
<1>6. LGWay /\ lg.next \notin LGUnder /\ \A n \in LGUnder : n \in Nat /\ n < lg.next
  BY <1>1 DEF LGLines, LGWay
<1>7. lg.next \notin lg.accepted /\ lg.next \notin lg.dropped
  BY <1>1, <1>6 DEF LGWay
<1>8. {n \in Nat : n < lg.next} \subseteq {n \in Nat : n < lg'.next} /\ lg.next \in {n \in Nat : n < lg'.next}
  BY <1>1, <1>2
<1>9. LGSorted => LGSorted'
  BY Zenon, <1>2 DEF LGSorted
<1>10. CASE lg'.chan = Append(lg.chan, lg.next) /\ lg'.accepted = lg.accepted \cup {lg.next}
  <2>1. /\ LG!In(lg'.chan) = LG!In(lg.chan) \cup {lg.next}
        /\ LG!Increasing(lg.chan) /\ (\A m \in LG!In(lg.chan) : m < lg.next) => LG!Increasing(lg'.chan)
    BY Zenon, <1>1, <1>10, InAppend
  <2>2. LGUnder' = LGUnder \cup {lg.next}
    BY Zenon, <1>5, <2>1 DEF LGUnder
  <2>3. LG!Increasing(lg'.chan) /\ \A m \in LG!Taken, n \in LG!In(lg'.chan) : m < n
    BY Zenon, <1>6, <2>1 DEF LGWay, LGUnder
  <2>4. LGWay'
    BY Zenon, <1>2, <1>5, <1>6, <1>7, <1>8, <1>10, <2>2, <2>3 DEF LGWay
  <2>5. ASSUME LGHeld PROVE LGHeld'
    <3>1. \A m \in LG!Written : m \in Nat /\ m < lg.next
      BY Zenon, <1>6, <2>5 DEF LGHeld, LGWay
    <3>2. LG!Written' = lg'.accepted \ (lg'.dropped \cup LGUnder')
      BY Zenon, <1>2, <1>5, <1>7, <1>10, <2>2, <2>5 DEF LGHeld
    <3> QED
      BY Zenon, <1>5, <2>2, <2>5, <3>1, <3>2 DEF LGHeld
  <2> QED
    BY Zenon, <1>1, <1>2, <1>4, <1>9, <2>4, <2>5 DEF LGInv, LGLines
<1>11. CASE lg'.chan = lg.chan /\ lg'.accepted = lg.accepted
  <2>1. LGUnder' = LGUnder
    BY Zenon, <1>5, <1>11 DEF LGUnder
  <2>2. LGWay'
    BY Zenon, <1>2, <1>5, <1>6, <1>8, <1>11, <2>1 DEF LGWay
  <2>3. LGHeld => LGHeld'
    BY Zenon, <1>2, <1>5, <1>11, <2>1 DEF LGHeld
  <2> QED
    BY Zenon, <1>1, <1>2, <1>4, <1>9, <2>2, <2>3 DEF LGInv, LGLines
<1> QED
  BY Zenon, <1>2, <1>10, <1>11

\* The worker takes a line out, and sees whether the date has changed.
LEMMA LGTakes ==
    ASSUME LG!RotateLoggerAssumption, LGInv, LG!Take
    PROVE  LGInv'
<1>1. LGType /\ LGNames /\ (~lg.midnight => LGFresh /\ ~lg.overwritten) /\ LGLines /\ lg.pc = "idle"
      /\ lg.chan \in Seq(Nat) /\ lg.chan # <<>>
  BY Zenon DEF LGInv, LGFiles, LGType, LG!Take, LG!At
<1>2. /\ DOMAIN lg' = DOMAIN lg /\ lg'.date = lg.date /\ lg'.exists = lg.exists
      /\ lg'.backup = lg.backup /\ lg'.rotated = lg.rotated /\ lg'.midnight = lg.midnight
      /\ lg'.file = lg.file /\ lg'.backups = lg.backups /\ lg'.overwritten = lg.overwritten
      /\ lg'.next = lg.next /\ lg'.dropped = lg.dropped /\ lg'.accepted = lg.accepted
      /\ lg'.line = Head(lg.chan) /\ lg'.chan = Tail(lg.chan)
      /\ lg'.pc = IF lg.date # lg.rotated THEN "rotate" ELSE "append"
  BY Zenon, <1>1 DEF LG!Take, LGType
<1>3. /\ LG!In(lg.chan) = {lg'.line} \cup LG!In(lg'.chan) /\ lg'.chan \in Seq(Nat) /\ lg'.line \in Nat
      /\ LG!Increasing(lg.chan) => LG!Increasing(lg'.chan) /\ \A n \in LG!In(lg'.chan) : lg'.line < n
  BY <1>1, <1>2, InTail
<1>4. LGType'
  BY Zenon, <1>1, <1>2, <1>3 DEF LGType
<1>5. LGNames'
  BY Zenon, <1>1, <1>2 DEF LGNames, LGStarting
<1>6. ~lg'.midnight => LGFresh' /\ ~lg'.overwritten
  <2>1. lg.date # lg.rotated => lg.rotated < lg.date
    BY <1>1 DEF LGType, LGNames, LG!Dates, LG!RotateLoggerAssumption
  <2> QED
    BY Zenon, <1>1, <1>2, <2>1 DEF LGFresh, LGStarting
<1>7. LG!Taken = {} /\ LG!Taken' = {lg'.line} /\ LG!Written' = LG!Written
  BY <1>1, <1>2 DEF LG!Taken, LG!Written
<1>8. LGUnder' = LGUnder
  BY Zenon, <1>3, <1>7 DEF LGUnder
<1>9. LGWay'
  BY Zenon, <1>1, <1>2, <1>3, <1>7, <1>8 DEF LGLines, LGWay
<1>10. LGHeld => LGHeld'
  BY Zenon, <1>2, <1>7, <1>8 DEF LGHeld
<1>11. LGSorted => LGSorted'
  BY Zenon, <1>2 DEF LGSorted
<1> QED
  BY Zenon, <1>1, <1>2, <1>4, <1>5, <1>6, <1>9, <1>10, <1>11 DEF LGInv, LGFiles, LGLines

\* A line is written when it is in the file or in a backup.
LEMMA LGWritten ==
    \A n : n \in LG!Written <=> n \in LG!In(lg.file) \/ \E d \in LG!Dates : n \in LG!In(lg.backups[d])
BY Zenon DEF LG!Written

\* An open file is there, and rotate renames it only after it is closed.
LGOpen == (lg.fp => lg.exists) /\ (lg.pc = "rename" => ~lg.fp)

\* Every step keeps this.
LEMMA LGOpens ==
    ASSUME LGType, LGOpen, LG!Next
    PROVE  LGOpen'
<1>1. CASE LG!Tick \/ LG!NewRule \/ LG!InitLogger
  <2>1. CASE LG!Tick
    BY Zenon, <2>1 DEF LGType, LGOpen, LG!Tick
  <2>2. CASE LG!NewRule
    BY Zenon, <2>2 DEF LGType, LGOpen, LG!NewRule
  <2>3. CASE LG!InitLogger
    BY Zenon, <2>3 DEF LGType, LGOpen, LG!InitLogger
  <2> QED
    BY Zenon, <1>1, <2>1, <2>2, <2>3
<1>2. CASE LG!Write
  BY Zenon, <1>2 DEF LGType, LGOpen, LG!Write
<1>3. CASE LG!Take
  BY Zenon, <1>3 DEF LGType, LGOpen, LG!Take
<1>4. CASE LG!WorkerQuits \/ LG!Name \/ LG!MarkRotated
  BY Zenon, <1>4 DEF LGType, LGOpen, LG!WorkerQuits, LG!Name, LG!MarkRotated
<1>5. CASE LG!CloseFile
  BY Zenon, <1>5 DEF LGType, LGOpen, LG!CloseFile, LG!Failed
<1>6. CASE LG!Rename
  BY Zenon, <1>6 DEF LGType, LGOpen, LG!Rename, LG!At, LG!Failed
<1>7. CASE LG!Create
  BY Zenon, <1>7 DEF LGType, LGOpen, LG!Create, LG!Failed
<1>8. CASE LG!AppendLine
  BY Zenon, <1>8 DEF LGType, LGOpen, LG!AppendLine
<1>9. CASE LG!Close \/ LG!CloseReturns \/ LG!Restart
  BY Zenon, <1>9 DEF LGType, LGOpen, LG!Close, LG!CloseReturns, LG!Restart
<1> QED
  BY Zenon, <1>1, <1>2, <1>3, <1>4, <1>5, <1>6, <1>7, <1>8, <1>9 DEF LG!Next, LG!Worker

\* The worker appends the line, or drops it when no file is open.
LEMMA LGAppends ==
    ASSUME LG!RotateLoggerAssumption, LGInv, LGOpen, LG!AppendLine
    PROVE  LGInv'
<1>1. LGType /\ LGNames /\ (~lg.midnight => LGFresh /\ ~lg.overwritten) /\ LGLines /\ lg.pc = "append"
      /\ lg.file \in Seq(Nat) /\ lg.line \in Nat /\ LGOpen
  BY Zenon DEF LGInv, LGFiles, LGType, LG!AppendLine, LG!At
<1>2. /\ DOMAIN lg' = DOMAIN lg /\ lg'.date = lg.date /\ lg'.exists = lg.exists
      /\ lg'.backup = lg.backup /\ lg'.rotated = lg.rotated /\ lg'.midnight = lg.midnight
      /\ lg'.backups = lg.backups /\ lg'.overwritten = lg.overwritten
      /\ lg'.next = lg.next /\ lg'.accepted = lg.accepted /\ lg'.line = lg.line /\ lg'.chan = lg.chan
      /\ lg'.pc = "idle"
      /\ \/ lg.fp /\ lg'.file = Append(lg.file, lg.line) /\ lg'.dropped = lg.dropped
         \/ lg'.file = lg.file /\ lg'.dropped = lg.dropped \cup {lg.line}
  BY Zenon, <1>1 DEF LG!AppendLine, LGType
<1>3. lg'.file \in Seq(Nat) /\ lg'.dropped \subseteq Nat
  BY Zenon, <1>1, <1>2, InAppend DEF LGType
<1>4. LGFiles'
  <2>1. LGType'
    BY Zenon, <1>1, <1>2, <1>3 DEF LGType
  <2>2. ~lg'.exists => lg'.file = <<>>
    BY Zenon, <1>1, <1>2 DEF LGNames, LGOpen
  <2>3. LGNames'
    BY Zenon, <1>1, <1>2, <2>2 DEF LGNames, LGStarting
  <2>4. ~lg'.midnight => LGFresh' /\ ~lg'.overwritten
    BY Zenon, <1>1, <1>2 DEF LGFresh, LGStarting
  <2> QED
    BY Zenon, <2>1, <2>3, <2>4 DEF LGFiles
<1>5. LG!Taken = {lg.line} /\ LG!Taken' = {}
  BY Zenon, <1>1, <1>2 DEF LG!Taken
<1>6. LGWay
  BY Zenon, <1>1 DEF LGLines
<1>7. lg.line \notin LG!In(lg.chan) /\ LGUnder = LG!In(lg.chan) \cup {lg.line} /\ LGUnder' = LG!In(lg.chan)
  <2>1. \A n \in LG!In(lg.chan) : lg.line < n
    BY Zenon, <1>5, <1>6 DEF LGWay
  <2>2. ~(lg.line < lg.line)
    BY <1>1
  <2>3. lg.line \notin LG!In(lg.chan)
    BY Zenon, <2>1, <2>2
  <2> QED
    BY Zenon, <1>2, <1>5, <2>3 DEF LGUnder
<1>8. lg.line \in lg.accepted /\ lg.line \notin lg.dropped
  BY Zenon, <1>6, <1>7 DEF LGWay
<1>9. LG!Increasing(lg'.chan) /\ \A m \in LG!Taken', n \in LG!In(lg'.chan) : m < n
  BY Zenon, <1>2, <1>5, <1>6 DEF LGWay
<1>10. LGWay'
  <2>1. LGUnder' \subseteq lg'.accepted /\ LGUnder' \cap lg'.dropped = {}
    BY Zenon, <1>2, <1>6, <1>7 DEF LGWay
  <2>2. lg'.accepted \cup lg'.dropped \subseteq {n \in Nat : n < lg'.next}
    BY Zenon, <1>2, <1>6, <1>8 DEF LGWay
  <2> QED
    BY Zenon, <1>9, <2>1, <2>2 DEF LGWay
<1>11. ASSUME LGHeld, LGSorted PROVE LGHeld' /\ LGSorted'
  <2>1. \A m \in LG!Written : m < lg.line
    BY Zenon, <1>7, <1>11 DEF LGHeld
  <2>2. \A n \in LG!In(lg.chan) : lg.line < n
    BY <1>5, <1>6 DEF LGWay
  <2>3. \A m \in LG!Written, n \in LG!In(lg.chan) : m < n
    BY Zenon, <1>7, <1>11 DEF LGHeld
  <2>4. CASE lg.fp /\ lg'.file = Append(lg.file, lg.line) /\ lg'.dropped = lg.dropped
    <3>1. \A m \in LG!In(lg.file) : m < lg.line
      BY Zenon, <2>1, LGWritten
    <3>2. LG!In(lg'.file) = LG!In(lg.file) \cup {lg.line} /\ LG!Increasing(lg'.file)
      BY Zenon, <1>1, <1>11, <2>4, <3>1, InAppend DEF LGSorted
    <3>3. LG!Written' = LG!Written \cup {lg.line}
      BY <1>2, <3>2 DEF LG!Written
    <3>4. LG!Written' = lg'.accepted \ (lg'.dropped \cup LGUnder')
      BY Zenon, <1>2, <1>7, <1>8, <1>11, <2>4, <3>3 DEF LGHeld
    <3>5. LGHeld'
      BY Zenon, <1>7, <2>2, <2>3, <3>3, <3>4 DEF LGHeld
    <3>6. \A d \in LG!Dates : LG!Before(lg.backups[d], lg'.file)
      <4> SUFFICES ASSUME NEW d \in LG!Dates, NEW m \in LG!In(lg.backups[d]), NEW n \in LG!In(lg'.file)
                   PROVE  m < n
        BY Zenon DEF LG!Before
      <4>1. m < lg.line
        BY Zenon, <2>1, LGWritten
      <4>2. n \in LG!In(lg.file) => m < n
        BY Zenon, <1>11 DEF LGSorted, LG!Before
      <4> QED
        BY Zenon, <3>2, <4>1, <4>2
    <3> QED
      BY Zenon, <1>2, <1>11, <3>2, <3>5, <3>6 DEF LGSorted
  <2>5. CASE lg'.file = lg.file /\ lg'.dropped = lg.dropped \cup {lg.line}
    <3>1. LG!Written' = LG!Written
      BY <1>2, <2>5 DEF LG!Written
    <3>2. LG!Written' = lg'.accepted \ (lg'.dropped \cup LGUnder')
      BY Zenon, <1>2, <1>7, <1>11, <2>5, <3>1 DEF LGHeld
    <3> QED
      BY Zenon, <1>2, <1>7, <1>11, <2>3, <2>5, <3>1, <3>2 DEF LGHeld, LGSorted
  <2> QED
    BY Zenon, <1>2, <2>4, <2>5
<1> QED
  BY Zenon, <1>1, <1>2, <1>4, <1>10, <1>11 DEF LGInv, LGLines

\* A process ends, and the lines on their way with it.
LEMMA LGRestarts ==
    ASSUME LG!RotateLoggerAssumption, LGInv, LG!Restart
    PROVE  LGInv'
<1>1. LGType /\ LGNames /\ (~lg.midnight => LGFresh /\ ~lg.overwritten) /\ LGLines
  BY Zenon DEF LGInv, LGFiles
<1>2. /\ DOMAIN lg' = DOMAIN lg /\ lg'.date = lg.date /\ lg'.exists = lg.exists
      /\ lg'.backup = lg.backup /\ lg'.rotated = lg.rotated /\ lg'.midnight = lg.midnight
      /\ lg'.file = lg.file /\ lg'.backups = lg.backups /\ lg'.overwritten = lg.overwritten
      /\ lg'.next = lg.next /\ lg'.accepted = lg.accepted /\ lg'.line = lg.line /\ lg'.chan = <<>>
      /\ lg'.pc = "rule" /\ lg'.dropped = lg.dropped \cup LGUnder
  BY Zenon, <1>1 DEF LG!Restart, LGType, LGUnder
<1>3. LGWay
  BY Zenon, <1>1 DEF LGLines
<1>4. lg'.dropped \subseteq {n \in Nat : n < lg'.next}
  BY Zenon, <1>2, <1>3 DEF LGWay
<1>5. LGType'
  BY <1>1, <1>2, <1>4 DEF LGType
<1>6. LGNames'
  BY Zenon, <1>1, <1>2 DEF LGNames, LGStarting
<1>7. ~lg'.midnight => LGFresh' /\ ~lg'.overwritten
  <2> SUFFICES ASSUME ~lg.midnight PROVE LGFresh' /\ ~lg'.overwritten
    BY Zenon, <1>2
  <2>1. lg.backup \in Nat /\ lg.date \in Nat /\ lg.backup <= lg.date
    BY <1>1 DEF LGType, LGNames, LG!Dates, LG!RotateLoggerAssumption
  <2>2. ASSUME NEW d \in LG!Dates, lg.backups[d] # <<>> PROVE d < lg.date
    <3>1. d \in Nat
      BY DEF LG!Dates
    <3>2. d < lg.date \/ d < lg.backup
      BY Zenon, <1>1, <2>2 DEF LGFresh
    <3> QED
      BY <2>1, <3>1, <3>2
  <2> QED
    BY Zenon, <1>1, <1>2, <2>2 DEF LGFresh, LGStarting
<1>8. LG!Taken' = {} /\ LG!In(lg'.chan) = {} /\ LG!Written' = LG!Written /\ LG!Increasing(lg'.chan)
  BY <1>2 DEF LG!Taken, LG!In, LG!Written, LG!Increasing
<1>9. LGUnder' = {}
  BY Zenon, <1>8 DEF LGUnder
<1>10. LGWay'
  BY Zenon, <1>2, <1>3, <1>4, <1>8, <1>9 DEF LGWay
<1>11. LGHeld => LGHeld'
  BY Zenon, <1>2, <1>8, <1>9 DEF LGHeld
<1>12. LGSorted => LGSorted'
  BY Zenon, <1>2 DEF LGSorted
<1> QED
  BY Zenon, <1>1, <1>2, <1>5, <1>6, <1>7, <1>10, <1>11, <1>12 DEF LGInv, LGFiles, LGLines

\* rotate renames the file to its backup name, which no backup that is not empty has, unless a
\* start fell into midnight.
LEMMA LGRenames ==
    ASSUME LG!RotateLoggerAssumption, LGInv, LG!Rename
    PROVE  LGInv'
<1>1. LGType /\ LGNames /\ (~lg.midnight => LGFresh /\ ~lg.overwritten) /\ LGLines /\ lg.pc = "rename"
  BY Zenon DEF LGInv, LGFiles, LGType, LG!Rename, LG!At
<1>2. lg.backup \in Nat /\ lg.date \in Nat /\ lg.rotated \in Nat /\ lg.backup <= lg.date
      /\ lg.backup \in LG!Dates /\ \A d \in LG!Dates : d \in Nat
  BY <1>1 DEF LGType, LGNames, LG!Dates, LG!RotateLoggerAssumption
<1>3. ASSUME LGMoves("name", lg.date, lg.exists, lg.backup, lg.rotated, lg.midnight), ~lg.exists
      PROVE  LGInv'
  <2>1. LGType'
    BY Zenon, <1>1, <1>3 DEF LGType, LGMoves
  <2>2. LGNames'
    BY Zenon, <1>1, <1>3 DEF LGNames, LGStarting, LGMoves
  <2>3. ~lg'.midnight => LGFresh' /\ ~lg'.overwritten
    <3> SUFFICES ASSUME ~lg.midnight PROVE LGFresh' /\ ~lg'.overwritten
      BY Zenon, <1>3 DEF LGMoves
    <3>1. ASSUME NEW d \in LG!Dates, lg.backups[d] # <<>> PROVE d < lg.date
      <4>1. d < lg.backup
        BY Zenon, <1>1, <3>1 DEF LGFresh, LGStarting
      <4> QED
        BY <1>2, <4>1
    <3> QED
      BY Zenon, <1>1, <1>3, <3>1 DEF LGFresh, LGStarting, LGMoves
  <2>4. LGLines'
    BY Zenon, <1>1, <1>3, LGMovesKeep DEF LGMoves, LG!Taken
  <2> QED
    BY Zenon, <2>1, <2>2, <2>3, <2>4 DEF LGInv, LGFiles
<1>4. ASSUME LGMoves("append", lg.date, lg.exists, lg.backup, lg.rotated, lg.midnight)
      PROVE  LGInv'
  <2>1. LGType'
    BY Zenon, <1>1, <1>4 DEF LGType, LGMoves
  <2>2. LGNames'
    BY Zenon, <1>1, <1>4 DEF LGNames, LGStarting, LGMoves
  <2>3. ~lg'.midnight => LGFresh' /\ ~lg'.overwritten
    BY Zenon, <1>1, <1>4 DEF LGFresh, LGStarting, LGMoves
  <2>4. LGLines'
    BY Zenon, <1>1, <1>4, LGMovesKeep DEF LGMoves, LG!Taken
  <2> QED
    BY <2>1, <2>2, <2>3, <2>4 DEF LGInv, LGFiles
<1>5. ASSUME lg.exists,
             lg' = [lg EXCEPT !.backups[lg.backup] = lg.file, !.exists = FALSE, !.file = <<>>,
                              !.overwritten = @ \/ lg.backups[lg.backup] # <<>>, !.pc = "name"]
      PROVE  LGInv'
  <2>1. /\ DOMAIN lg' = DOMAIN lg /\ lg'.pc = "name" /\ lg'.date = lg.date /\ lg'.exists = FALSE
        /\ lg'.backup = lg.backup /\ lg'.rotated = lg.rotated /\ lg'.midnight = lg.midnight
        /\ lg'.file = <<>> /\ lg'.backups = [lg.backups EXCEPT ![lg.backup] = lg.file]
        /\ lg'.next = lg.next /\ lg'.line = lg.line /\ lg'.chan = lg.chan
        /\ lg'.accepted = lg.accepted /\ lg'.dropped = lg.dropped
    BY Zenon, <1>1, <1>5 DEF LGType
  <2>2. lg'.overwritten = (lg.overwritten \/ lg.backups[lg.backup] # <<>>)
    BY Zenon, <1>1, <1>5 DEF LGType
  <2>3. lg'.overwritten \in BOOLEAN
    BY Zenon, <2>2
  <2>4. lg.backups \in [LG!Dates -> Seq(Nat)] /\ lg.file \in Seq(Nat)
    BY Zenon, <1>1 DEF LGType
  <2>5. lg'.backups \in [LG!Dates -> Seq(Nat)] /\ lg'.file \in Seq(Nat)
    <3>1. lg'.backups \in [LG!Dates -> Seq(Nat)]
      BY Zenon, <2>1, <2>4
    <3> QED
      BY <2>1, <3>1
  <2>6. LGType'
    BY Zenon, <1>1, <2>1, <2>3, <2>5 DEF LGType
  <2>7. \A d \in LG!Dates : lg'.backups[d] = IF d = lg.backup THEN lg.file ELSE lg.backups[d]
    BY Zenon, <2>1, <2>4
  <2>8. LGNames'
    <3>1. ASSUME NEW d \in LG!Dates, lg'.backups[d] # <<>> PROVE d <= lg.date /\ d <= lg.backup
      BY <1>1, <1>2, <2>7, <3>1 DEF LGNames, LGStarting
    <3> QED
      BY Zenon, <1>1, <2>1, <3>1 DEF LGNames, LGStarting
  <2>9. ~lg'.midnight => LGFresh' /\ ~lg'.overwritten
    <3> SUFFICES ASSUME ~lg.midnight PROVE LGFresh' /\ ~lg'.overwritten
      BY Zenon, <2>1
    <3>1. lg.rotated < lg.date /\ lg.backup <= lg.rotated
      BY Zenon, <1>1, <1>5 DEF LGFresh, LGStarting
    <3>2. \A d \in LG!Dates : lg.backups[d] # <<>> => d < lg.backup
      BY Zenon, <1>1 DEF LGFresh, LGStarting
    <3>3. lg.backups[lg.backup] = <<>>
      BY <1>2, <3>2
    <3>4. ~lg'.overwritten
      BY Zenon, <1>1, <2>2, <3>3
    <3>5. ASSUME NEW d \in LG!Dates, lg'.backups[d] # <<>> PROVE d < lg.date
      BY <1>2, <2>7, <3>1, <3>2, <3>5
    <3> QED
      BY Zenon, <2>1, <3>4, <3>5 DEF LGFresh, LGStarting
  <2>10. LG!Taken' = LG!Taken
    BY Zenon, <1>1, <2>1 DEF LG!Taken
  <2>11. LGUnder' = LGUnder
    BY Zenon, <2>1, <2>10 DEF LGUnder
  <2>12. LGWay'
    BY Zenon, <1>1, <2>1, <2>10, <2>11 DEF LGLines, LGWay
  <2>13. ASSUME ~lg'.overwritten PROVE LGHeld' /\ LGSorted'
    <3>1. ~lg.overwritten /\ lg.backups[lg.backup] = <<>>
      BY Zenon, <2>2, <2>13
    <3>2. LGHeld /\ LGSorted
      BY Zenon, <1>1, <3>1 DEF LGLines
    <3>3. LG!In(<<>>) = {} /\ LG!Increasing(<<>>)
      BY DEF LG!In, LG!Increasing
    <3>4. LG!Written' = LG!Written
      <4>1. ASSUME NEW n
            PROVE  n \in LG!Written' <=> n \in LG!Written
        <5>1. n \in LG!Written' <=> \E d \in LG!Dates : n \in LG!In(lg'.backups[d])
          BY Zenon, <2>1, <3>3 DEF LG!Written
        <5>2. (\E d \in LG!Dates : n \in LG!In(lg'.backups[d]))
              <=> n \in LG!In(lg.file) \/ \E d \in LG!Dates : n \in LG!In(lg.backups[d])
          BY Zenon, <1>2, <2>7, <3>1, <3>3
        <5> QED
          BY Zenon, <5>1, <5>2, LGWritten
      <4> QED
        BY Zenon, <4>1
    <3>5. LGHeld'
      BY Zenon, <2>1, <2>11, <3>2, <3>4 DEF LGHeld
    <3>6. \A d \in LG!Dates : LG!Increasing(lg'.backups[d])
      BY Zenon, <2>7, <3>2 DEF LGSorted
    <3>7. \A d \in LG!Dates : LG!Before(lg'.backups[d], lg'.file)
      BY Zenon, <2>1, <3>3 DEF LG!Before
    <3>8. ASSUME NEW d \in LG!Dates, NEW e \in LG!Dates, d < e
          PROVE  LG!Before(lg'.backups[d], lg'.backups[e])
      <4>1. CASE d # lg.backup /\ e # lg.backup
        BY Zenon, <2>7, <3>2, <3>8, <4>1 DEF LGSorted
      <4>2. CASE e = lg.backup
        <5>1. d # lg.backup
          BY <1>2, <3>8, <4>2
        <5> QED
          BY Zenon, <2>7, <3>2, <4>2, <5>1 DEF LGSorted
      <4>3. CASE d = lg.backup
        <5>1. e # lg.backup /\ ~(e <= lg.backup)
          BY <1>2, <3>8, <4>3
        <5>2. lg.backups[e] = <<>>
          BY Zenon, <1>1, <5>1 DEF LGNames, LGStarting
        <5> QED
          BY Zenon, <2>7, <3>3, <5>1, <5>2 DEF LG!Before
      <4> QED
        BY Zenon, <4>1, <4>2, <4>3
    <3> QED
      BY Zenon, <2>1, <3>3, <3>5, <3>6, <3>7, <3>8 DEF LGSorted
  <2>14. LGLines'
    BY Zenon, <2>12, <2>13 DEF LGLines
  <2> QED
    BY <2>6, <2>8, <2>9, <2>14 DEF LGInv, LGFiles
<1>6. CASE ~lg.exists /\ lg' = [lg EXCEPT !.pc = "name"]
  <2>1. LGMoves("name", lg.date, lg.exists, lg.backup, lg.rotated, lg.midnight)
    BY Zenon, <1>1, <1>6 DEF LGMoves, LGType
  <2> QED
    BY Zenon, <1>3, <1>6, <2>1
<1>7. CASE lg' = LG!Failed("append")
  <2>1. LGMoves("append", lg.date, lg.exists, lg.backup, lg.rotated, lg.midnight)
    BY Zenon, <1>1, <1>7 DEF LGMoves, LGType, LG!Failed
  <2> QED
    BY Zenon, <1>4, <2>1
<1> QED
  BY Zenon, <1>5, <1>6, <1>7 DEF LG!Rename

\* The files hold the accepted lines in the order of Write, whatever fails and whenever the date
\* changes or the process is restarted, and rotate renames over no backup, unless a start fell into
\* midnight.  The invariant says which names the backups can have: all earlier than the file's.
THEOREM LinesStayInOrder ==
    ASSUME LG!RotateLoggerAssumption
    PROVE  LG!Spec => [](LG!LinesInOrder /\ LG!OnlyMidnightStartOverwrites)
<1>1. LG!Init => LGInv /\ LGOpen
  <2> SUFFICES ASSUME LG!Init PROVE LGInv /\ LGOpen
    OBVIOUS
  <2>1. 0 \in LG!Dates
    BY DEF LG!Dates, LG!RotateLoggerAssumption
  <2>2. LGType
    BY <2>1 DEF LG!Init, LGType
  <2>3. /\ lg.pc = "rule" /\ lg.backup = 0 /\ lg.rotated = 0 /\ lg.date = 0 /\ lg.file = <<>>
        /\ lg.chan = <<>> /\ ~lg.exists /\ ~lg.fp /\ ~lg.overwritten /\ lg.accepted = {} /\ lg.dropped = {}
        /\ \A d \in LG!Dates : lg.backups[d] = <<>>
    BY Zenon DEF LG!Init
  <2>4. LGNames /\ LGFresh /\ LGOpen
    BY <2>3 DEF LGNames, LGFresh, LGStarting, LGOpen
  <2>5. LG!In(<<>>) = {} /\ LG!Increasing(<<>>) /\ LG!Before(<<>>, <<>>)
    BY DEF LG!In, LG!Increasing, LG!Before
  <2>6. LG!Taken = {} /\ LGUnder = {}
    BY Zenon, <2>3, <2>5 DEF LG!Taken, LGUnder
  <2>7. LG!Written = {}
    BY Zenon, <2>3, <2>5, LGWritten
  <2>8. LGWay /\ LGHeld /\ LGSorted
    BY Zenon, <2>3, <2>5, <2>6, <2>7 DEF LGWay, LGHeld, LGSorted
  <2> QED
    BY Zenon, <2>2, <2>3, <2>4, <2>8 DEF LGInv, LGFiles, LGLines
<1>2. LGInv /\ LGOpen /\ [LG!Next]_lg => (LGInv /\ LGOpen)'
  <2> SUFFICES ASSUME LGInv, LGOpen, [LG!Next]_lg PROVE LGInv' /\ LGOpen'
    OBVIOUS
  <2>1. CASE UNCHANGED lg
    <3>1. (LGType <=> LGType') /\ (LGOpen <=> LGOpen') /\ LG!Taken' = LG!Taken /\ LGStarting' = LGStarting
          /\ lg'.midnight = lg.midnight /\ lg'.overwritten = lg.overwritten
      BY Zenon, <2>1 DEF LGType, LGOpen, LGStarting, LG!Taken
    <3>2. (LGNames <=> LGNames') /\ (LGFresh <=> LGFresh')
      BY Zenon, <2>1, <3>1 DEF LGNames, LGFresh
    <3>3. LGLines'
      BY Zenon, <2>1, <3>1, LGMovesKeep DEF LGInv
    <3> QED
      BY Zenon, <3>1, <3>2, <3>3 DEF LGInv, LGFiles
  <2>2. CASE LG!Next
    <3>1. LGOpen'
      BY Zenon, <2>2, LGOpens DEF LGInv, LGFiles
    <3>2. LGInv'
      BY Zenon, <2>2, LGStarts, LGRotates, LGWrites, LGTakes, LGAppends, LGRestarts, LGRenames
         DEF LG!Next, LG!Worker
    <3> QED
      BY Zenon, <3>1, <3>2
  <2> QED
    BY Zenon, <2>1, <2>2
<1>3. LGInv => LG!LinesInOrder /\ LG!OnlyMidnightStartOverwrites
  BY Zenon DEF LGInv, LGFiles, LGLines, LGHeld, LGSorted, LGUnder, LG!LinesInOrder, LG!OnlyMidnightStartOverwrites
<1> QED
  BY <1>1, <1>2, <1>3, PTL DEF LG!Spec
-----------------------------------------------------------------------------
\* Facts about finite sets and what they count.
INSTANCE FiniteSetTheorems

\* What Cardinality is of a subset S of a finite set W, and after u has joined or left it.
LEMMA Count ==
    ASSUME NEW W, IsFiniteSet(W), NEW S \in SUBSET W, NEW u \in W
    PROVE  /\ Cardinality(S) \in Nat /\ Cardinality(S) <= Cardinality(W)
           /\ u \in S => Cardinality(S \ {u}) = Cardinality(S) - 1 /\ Cardinality(S) > 0
           /\ u \notin S => Cardinality(S \cup {u}) = Cardinality(S) + 1
<1>1. IsFiniteSet(S) /\ Cardinality(S) \in Nat /\ Cardinality(S) <= Cardinality(W)
  BY Zenon, FS_Subset, FS_CardinalityType
<1>2. u \notin S => Cardinality(S \cup {u}) = Cardinality(S) + 1
  BY Zenon, <1>1, FS_AddElement
<1>3. u \in S => Cardinality(S \ {u}) = Cardinality(S) - 1
  BY Zenon, <1>1, FS_RemoveElement
<1>4. IsFiniteSet(S \ {u}) /\ Cardinality(S \ {u}) \in Nat
  BY Zenon, <1>1, FS_Subset, FS_CardinalityType
<1> QED
  BY <1>1, <1>2, <1>3, <1>4
-----------------------------------------------------------------------------
\* The queue (MessageQueue.tla): when Start has returned, every message has been consumed, and what
\* its listeners heard last is true, but for races.

MQ == INSTANCE MessageQueue

\* Cardinality and IsFiniteSet are those of the part.
LEMMA MQSameCount ==
    ASSUME NEW S
    PROVE  MQ!Cardinality(S) = Cardinality(S) /\ MQ!IsFiniteSet(S) = IsFiniteSet(S)
  BY Zenon DEF Cardinality, MQ!Cardinality, IsFiniteSet, MQ!IsFiniteSet

MQCreated == {p \in Producers : mq.pc[p] \notin {"new", "create"}}
\* The producers that are neither new nor paused: the queue's counter of active ones counts these.
MQFree == MQCreated \ mq.paused
\* Those with a message under way.
MQSending == {p \in Producers : mq.pc[p] = "send"}

MQType ==
    /\ DOMAIN mq = {"pc", "main", "quit", "closed", "active", "events", "caster", "sent", "consumed",
                    "paused", "pauses", "told", "calling", "raced"}
    /\ mq.pc \in [Producers \cup Consumers -> {"new", "create", "loop", "send", "select", "done"}]
    /\ mq.paused \subseteq MQCreated /\ mq.raced \in BOOLEAN
    /\ mq.sent \in Nat /\ mq.consumed \in Nat

MQStages ==
    /\ mq.main = "new" => \A p \in Producers : mq.pc[p] = "new"
    /\ mq.main \in {"consumers", "done"} => \A p \in Producers : mq.pc[p] = "done"

\* What the listeners have been told, or are being told by the one call that is under way.
MQTold ==
    \/ /\ mq.calling = {}
       /\ mq.told = IF MQFree = {} /\ MQCreated # {} THEN "pause" ELSE "resume"
    \/ \E p \in Producers : mq.calling = {<<p, "pause">>} /\ MQFree = {} /\ MQCreated # {}
    \/ \E p \in Producers : mq.calling = {<<p, "resume">>} /\ MQFree # {}

\* The calls of listeners fit the producers.
MQTells == ~mq.raced => MQTold

MQCounts == mq.active = Cardinality(MQFree) /\ mq.sent = mq.consumed + Cardinality(MQSending)

MQInv == MQType /\ MQStages /\ MQCounts /\ MQTells

\* Steps that move no producer between new, active, paused and sending.
LEMMA MQQuiet ==
    ASSUME MQInv, MQType', MQStages', MQCreated' = MQCreated, MQSending' = MQSending,
           mq'.active = mq.active, mq'.sent = mq.sent, mq'.consumed = mq.consumed,
           mq'.paused = mq.paused, mq'.told = mq.told, mq'.calling = mq.calling, mq'.raced = mq.raced
    PROVE  MQInv'
<1>1. MQFree' = MQFree
  BY Zenon DEF MQFree
<1>2. MQCounts' /\ MQTells'
  BY Zenon, <1>1 DEF MQInv, MQCounts, MQTells, MQTold
<1> QED
  BY Zenon, <1>2 DEF MQInv

\* Start, Stop, the broadcast, the waiting of Start, and what consumers do.
LEMMA MQOthers ==
    ASSUME MQ!MessageQueueAssumption, MQInv,
           \/ MQ!Start \/ MQ!Stop \/ MQ!Broadcast \/ MQ!Main
           \/ \E c \in Producers \cup Consumers :
                MQ!ConsumerCreated(c) \/ MQ!ConsumerQuits(c) \/ MQ!OnEvent(c)
    PROVE  MQInv'
<1>1. MQType /\ MQStages /\ \A c \in Consumers : c \notin Producers
  BY Zenon DEF MQInv, MQ!MessageQueueAssumption
<1>2. CASE MQ!Stop \/ MQ!Broadcast \/ \E c \in Producers \cup Consumers : MQ!OnEvent(c)
  <2>1. /\ DOMAIN mq' = DOMAIN mq /\ mq'.pc = mq.pc /\ mq'.main = mq.main /\ mq'.active = mq.active
        /\ mq'.sent = mq.sent /\ mq'.consumed = mq.consumed /\ mq'.paused = mq.paused
        /\ mq'.told = mq.told /\ mq'.calling = mq.calling /\ mq'.raced = mq.raced
    <3>1. CASE MQ!Stop \/ MQ!Broadcast
      BY ZenonT(40), <1>1, <3>1 DEF MQ!Stop, MQ!Broadcast, MQType
    <3>2. CASE \E c \in Producers \cup Consumers : MQ!OnEvent(c)
      <4>1. PICK c \in Producers \cup Consumers, l \in {"done", "send"} :
                mq' = [mq EXCEPT !.events = @ \ {c}, !.caster = l]
        BY Zenon, <3>2 DEF MQ!OnEvent
      <4> QED
        BY Zenon, <1>1, <4>1 DEF MQType
    <3> QED
      BY Zenon, <1>2, <3>1, <3>2
  <2>2. MQCreated' = MQCreated /\ MQSending' = MQSending
    BY Zenon, <2>1 DEF MQCreated, MQSending
  <2>3. MQType' /\ MQStages'
    BY Zenon, <1>1, <2>1, <2>2 DEF MQType, MQStages
  <2> QED
    BY Zenon, <2>1, <2>2, <2>3, MQQuiet
<1>3. CASE MQ!Main
  <2>1. /\ DOMAIN mq' = DOMAIN mq /\ mq'.pc = mq.pc /\ mq'.active = mq.active
        /\ mq'.sent = mq.sent /\ mq'.consumed = mq.consumed /\ mq'.paused = mq.paused
        /\ mq'.told = mq.told /\ mq'.calling = mq.calling /\ mq'.raced = mq.raced
        /\ \/ mq'.main = "consumers" /\ \A p \in Producers : mq.pc[p] = "done"
           \/ mq.main = "consumers" /\ mq'.main = "done"
    <3>1. CASE MQ!MainCloses
      BY Zenon, <1>1, <3>1 DEF MQ!MainCloses, MQ!At, MQType
    <3>2. CASE MQ!MainReturns
      BY Zenon, <1>1, <3>2 DEF MQ!MainReturns, MQType
    <3> QED
      BY Zenon, <1>3, <3>1, <3>2 DEF MQ!Main
  <2>2. MQCreated' = MQCreated /\ MQSending' = MQSending
    BY Zenon, <2>1 DEF MQCreated, MQSending
  <2>3. MQType' /\ MQStages'
    BY Zenon, <1>1, <2>1, <2>2 DEF MQType, MQStages
  <2> QED
    BY Zenon, <2>1, <2>2, <2>3, MQQuiet
<1>4. CASE MQ!Start
  <2>1. /\ DOMAIN mq' = DOMAIN mq /\ mq'.active = mq.active
        /\ mq'.sent = mq.sent /\ mq'.consumed = mq.consumed /\ mq'.paused = mq.paused
        /\ mq'.told = mq.told /\ mq'.calling = mq.calling /\ mq'.raced = mq.raced
        /\ mq.main = "new" /\ mq'.main = "producers"
        /\ mq'.pc = [p \in Producers \cup Consumers |-> "create"]
    BY Zenon, <1>1, <1>4 DEF MQ!Start, MQType
  <2>2. MQCreated' = MQCreated /\ MQSending' = MQSending
    BY Zenon, <1>1, <2>1 DEF MQCreated, MQSending, MQStages
  <2>3. MQType' /\ MQStages'
    BY <1>1, <2>1, <2>2 DEF MQType, MQStages
  <2> QED
    BY Zenon, <2>1, <2>2, <2>3, MQQuiet
<1>5. ASSUME NEW c \in Producers \cup Consumers, MQ!ConsumerCreated(c) \/ MQ!ConsumerQuits(c)
      PROVE  MQInv'
  <2>1. PICK l \in {"select", "done"} :
        /\ DOMAIN mq' = DOMAIN mq /\ mq'.main = mq.main /\ mq'.active = mq.active
        /\ mq'.sent = mq.sent /\ mq'.consumed = mq.consumed /\ mq'.paused = mq.paused
        /\ mq'.told = mq.told /\ mq'.calling = mq.calling /\ mq'.raced = mq.raced
        /\ mq'.pc = [mq.pc EXCEPT ![c] = l] /\ c \in Consumers
    BY <1>1, <1>5 DEF MQ!ConsumerCreated, MQ!ConsumerQuits, MQType
  <2>2. mq'.pc \in [Producers \cup Consumers -> {"new", "create", "loop", "send", "select", "done"}]
    BY Zenon, <1>1, <2>1 DEF MQType
  <2>3. \A p \in Producers : mq'.pc[p] = mq.pc[p]
    BY Zenon, <1>1, <2>1 DEF MQType
  <2>4. MQCreated' = MQCreated /\ MQSending' = MQSending
    BY Zenon, <2>3 DEF MQCreated, MQSending
  <2>5. MQType'
    BY Zenon, <1>1, <2>1, <2>2, <2>4 DEF MQType
  <2>6. MQStages'
    BY Zenon, <1>1, <2>1, <2>3 DEF MQStages
  <2> QED
    BY Zenon, <2>1, <2>4, <2>5, <2>6, MQQuiet
<1> QED
  BY Zenon, <1>2, <1>3, <1>4, <1>5

\* A step that moves producer u, from one place to another.
LEMMA MQMoves ==
    ASSUME MQType, MQStages, NEW u \in Producers, NEW l \in {"loop", "send", "done"},
           DOMAIN mq' = DOMAIN mq, mq'.pc = [mq.pc EXCEPT ![u] = l], mq'.main = mq.main,
           mq.pc[u] \in {"create", "loop", "send"}, mq'.raced \in BOOLEAN, mq'.sent \in Nat,
           mq'.consumed \in Nat, mq'.paused = mq.paused
    PROVE  /\ MQType' /\ MQStages' /\ mq'.pc[u] = l
           /\ \A p \in Producers \ {u} : mq'.pc[p] = mq.pc[p]
           /\ MQCreated' = MQCreated \cup {u}
<1>1. mq'.pc \in [Producers \cup Consumers -> {"new", "create", "loop", "send", "select", "done"}]
  BY Zenon DEF MQType
<1>2. mq'.pc[u] = l /\ \A p \in Producers \ {u} : mq'.pc[p] = mq.pc[p]
  BY Zenon DEF MQType
<1>3. MQCreated' = MQCreated \cup {u}
  BY Zenon, <1>2 DEF MQCreated
<1>4. MQType'
  BY Zenon, <1>1, <1>3 DEF MQType
<1>5. MQStages'
  BY Zenon, <1>2 DEF MQStages
<1> QED
  BY Zenon, <1>2, <1>3, <1>4, <1>5

\* The sets that are counted.
LEMMA MQSets ==
    ASSUME MQ!MessageQueueAssumption
    PROVE  /\ MQFree \in SUBSET Producers /\ MQSending \in SUBSET Producers /\ IsFiniteSet(Producers)
           /\ Cardinality(MQFree) \in Nat /\ (Cardinality(MQFree) = 0 <=> MQFree = {})
<1>1. MQFree \in SUBSET Producers /\ MQSending \in SUBSET Producers
  BY Zenon DEF MQFree, MQCreated, MQSending
<1>2. IsFiniteSet(Producers)
  BY Zenon, MQSameCount DEF MQ!MessageQueueAssumption
<1>3. IsFiniteSet(MQFree)
  BY Zenon, <1>1, <1>2, FS_Subset
<1> QED
  BY Zenon, <1>1, <1>2, <1>3, FS_CardinalityType, FS_EmptySet

\* A producer starts, which the listeners do not hear of,
LEMMA MQCreates ==
    ASSUME MQ!MessageQueueAssumption, MQInv, NEW u \in Producers, MQ!ProducerCreated(u)
    PROVE  MQInv'
<1>1. MQType /\ MQStages /\ MQCounts /\ MQTells
  BY Zenon DEF MQInv
<1>2. /\ DOMAIN mq' = DOMAIN mq /\ mq'.main = mq.main /\ mq'.active = mq.active + 1
      /\ mq'.sent = mq.sent /\ mq'.consumed = mq.consumed /\ mq'.paused = mq.paused
      /\ mq'.told = mq.told /\ mq'.calling = mq.calling
      /\ mq'.raced = (mq.raced \/ mq.paused # {})
      /\ mq'.pc = [mq.pc EXCEPT ![u] = "loop"] /\ mq.pc[u] = "create"
  BY Zenon, <1>1 DEF MQ!ProducerCreated, MQ!At, MQType
<1>3. /\ MQType' /\ MQStages' /\ mq'.pc[u] = "loop"
      /\ \A p \in Producers \ {u} : mq'.pc[p] = mq.pc[p]
      /\ MQCreated' = MQCreated \cup {u}
  <2>1. mq'.raced \in BOOLEAN
    BY Zenon, <1>2
  <2>2. mq'.sent \in Nat /\ mq'.consumed \in Nat
    BY Zenon, <1>1, <1>2 DEF MQType
  <2>3. mq.pc[u] \in {"create", "loop", "send"} /\ "loop" \in {"loop", "send", "done"}
    BY Zenon, <1>2
  <2> QED
    BY Zenon, <1>1, <1>2, <2>1, <2>2, <2>3, MQMoves
<1>4. u \notin MQCreated /\ u \notin mq.paused /\ u \notin MQFree /\ MQFree' = MQFree \cup {u}
  BY <1>1, <1>2, <1>3 DEF MQCreated, MQFree, MQType
<1>5. MQSending' = MQSending
  BY Zenon, <1>2, <1>3 DEF MQSending
<1>6. MQCounts'
  BY <1>1, <1>2, <1>4, <1>5, MQSets, Count DEF MQCounts
<1>7. MQTells'
  <2> SUFFICES ASSUME ~mq'.raced PROVE MQTold'
    BY Zenon DEF MQTells
  <2>1. MQTold /\ mq.paused = {}
    BY Zenon, <1>1, <1>2 DEF MQTells
  <2>2. MQFree = MQCreated /\ MQFree' # {}
    BY Zenon, <1>4, <2>1 DEF MQFree
  <2> QED
    BY Zenon, <1>2, <2>1, <2>2 DEF MQTold
<1> QED
  BY Zenon, <1>3, <1>6, <1>7 DEF MQInv

\* quits, or takes a message and sends it to a consumer.
LEMMA MQSends ==
    ASSUME MQ!MessageQueueAssumption, MQInv, NEW u \in Producers,
           MQ!ProducerQuits(u) \/ MQ!Produce(u) \/ \E c \in Consumers : MQ!Consume(u, c)
    PROVE  MQInv'
<1>1. MQType /\ MQStages /\ MQCounts /\ MQTells
  BY Zenon DEF MQInv
<1>2. /\ DOMAIN mq' = DOMAIN mq /\ mq'.main = mq.main /\ mq'.active = mq.active
      /\ mq'.paused = mq.paused /\ mq'.told = mq.told /\ mq'.calling = mq.calling
      /\ mq'.raced = mq.raced
  <2>1. CASE MQ!ProducerQuits(u)
    BY Zenon, <1>1, <2>1 DEF MQ!ProducerQuits, MQType
  <2>2. CASE MQ!Produce(u)
    BY Zenon, <1>1, <2>2 DEF MQ!Produce, MQType
  <2>3. CASE \E c \in Consumers : MQ!Consume(u, c)
    BY <1>1, <2>3 DEF MQ!Consume, MQType
  <2> QED
    BY Zenon, <2>1, <2>2, <2>3
<1>3. /\ mq.sent \in Nat /\ mq.consumed \in Nat /\ Cardinality(MQSending) \in Nat
      /\ u \notin MQSending => Cardinality(MQSending \cup {u}) = Cardinality(MQSending) + 1
      /\ u \in MQSending => Cardinality(MQSending \ {u}) = Cardinality(MQSending) - 1
      /\ mq.sent = mq.consumed + Cardinality(MQSending) /\ mq.active = Cardinality(MQFree)
  BY SMTT(40), <1>1, MQSets, Count DEF MQType, MQCounts
<1>4. ASSUME MQType', MQStages', MQCreated' = MQCreated \cup {u}, mq.pc[u] # "create",
             mq.pc[u] # "new", mq'.sent = mq'.consumed + Cardinality(MQSending')
      PROVE  MQInv'
  <2>1. MQCreated' = MQCreated
    BY Zenon, <1>4 DEF MQCreated
  <2>2. MQFree' = MQFree
    BY Zenon, <1>2, <2>1 DEF MQFree
  <2>3. MQCounts'
    BY Zenon, <1>2, <1>3, <1>4, <2>2 DEF MQCounts
  <2>4. MQTells'
    BY Zenon, <1>1, <1>2, <2>1, <2>2 DEF MQTells, MQTold
  <2> QED
    BY Zenon, <1>4, <2>3, <2>4 DEF MQInv
<1>5. CASE MQ!ProducerQuits(u)
  <2>1. mq'.pc = [mq.pc EXCEPT ![u] = "done"] /\ mq.pc[u] = "loop" /\ mq'.sent = mq.sent
        /\ mq'.consumed = mq.consumed
    BY Zenon, <1>1, <1>5 DEF MQ!ProducerQuits, MQ!At, MQType
  <2>2. /\ MQType' /\ MQStages' /\ mq'.pc[u] = "done"
        /\ \A p \in Producers \ {u} : mq'.pc[p] = mq.pc[p]
        /\ MQCreated' = MQCreated \cup {u}
    BY Zenon, <1>1, <1>2, <2>1, MQMoves DEF MQType
  <2>3. MQSending' = MQSending
    BY Zenon, <2>1, <2>2 DEF MQSending
  <2> QED
    BY Zenon, <1>3, <1>4, <2>1, <2>2, <2>3
<1>6. CASE MQ!Produce(u)
  <2>1. mq'.pc = [mq.pc EXCEPT ![u] = "send"] /\ mq.pc[u] = "loop" /\ mq'.sent = mq.sent + 1
        /\ mq'.consumed = mq.consumed
    BY Zenon, <1>1, <1>6 DEF MQ!Produce, MQ!At, MQType
  <2>2. mq'.sent \in Nat
    BY <1>3, <2>1
  <2>3. /\ MQType' /\ MQStages' /\ mq'.pc[u] = "send"
        /\ \A p \in Producers \ {u} : mq'.pc[p] = mq.pc[p]
        /\ MQCreated' = MQCreated \cup {u}
    BY Zenon, <1>1, <1>2, <2>1, <2>2, MQMoves DEF MQType
  <2>4. u \notin MQSending /\ MQSending' = MQSending \cup {u}
    BY Zenon, <2>1, <2>3 DEF MQSending
  <2>5. mq'.sent = mq'.consumed + Cardinality(MQSending')
    BY <1>3, <2>1, <2>4
  <2> QED
    BY Zenon, <1>4, <2>1, <2>3, <2>5
<1>7. CASE \E c \in Consumers : MQ!Consume(u, c)
  <2>1. mq'.pc = [mq.pc EXCEPT ![u] = "loop"] /\ mq.pc[u] = "send" /\ mq'.sent = mq.sent
        /\ mq'.consumed = mq.consumed + 1
    BY Zenon, <1>1, <1>7 DEF MQ!Consume, MQ!At, MQType
  <2>2. mq'.consumed \in Nat
    BY <1>3, <2>1
  <2>3. /\ MQType' /\ MQStages' /\ mq'.pc[u] = "loop"
        /\ \A p \in Producers \ {u} : mq'.pc[p] = mq.pc[p]
        /\ MQCreated' = MQCreated \cup {u}
    BY Zenon, <1>1, <1>2, <2>1, <2>2, MQMoves DEF MQType
  <2>4. u \in MQSending /\ MQSending' = MQSending \ {u}
    BY Zenon, <2>1, <2>3 DEF MQSending
  <2>5. mq'.sent = mq'.consumed + Cardinality(MQSending')
    BY <1>3, <2>1, <2>4
  <2> QED
    BY Zenon, <1>4, <2>1, <2>3, <2>5
<1> QED
  BY Zenon, <1>5, <1>6, <1>7

\* What a pause or a resume of u leaves alone.
MQKeeps ==
    /\ DOMAIN mq' = DOMAIN mq /\ mq'.pc = mq.pc /\ mq'.main = mq.main /\ mq'.sent = mq.sent
    /\ mq'.consumed = mq.consumed /\ mq'.told = mq.told

\* A producer pauses: the last one to do so calls the listeners.
LEMMA MQPauses ==
    ASSUME MQ!MessageQueueAssumption, MQInv, NEW u, MQ!OnProducerPause(u)
    PROVE  MQInv'
<1>1. MQType /\ MQStages /\ MQCounts /\ MQTells /\ u \in Producers \ mq.paused /\ mq.pc[u] = "loop"
  BY Zenon DEF MQInv, MQ!OnProducerPause, MQ!At
<1>2. /\ MQKeeps /\ mq'.active = mq.active - 1 /\ mq'.paused = mq.paused \cup {u}
      /\ \/ /\ mq.active - 1 <= 0 /\ mq'.calling = mq.calling \cup {<<u, "pause">>}
            /\ mq'.raced = (mq.raced \/ mq.calling # {})
         \/ ~(mq.active - 1 <= 0) /\ mq'.calling = mq.calling /\ mq'.raced = mq.raced
  BY Zenon, <1>1 DEF MQ!OnProducerPause, MQ!Calls, MQType, MQKeeps
<1>3. MQCreated' = MQCreated /\ MQSending' = MQSending /\ u \in MQFree /\ MQFree' = MQFree \ {u}
  BY Zenon, <1>1, <1>2 DEF MQKeeps, MQCreated, MQSending, MQFree
<1>4. MQType' /\ MQStages'
  <2>1. mq'.raced \in BOOLEAN
    BY Zenon, <1>1, <1>2 DEF MQType
  <2>2. mq'.paused \subseteq MQCreated
    BY Zenon, <1>1, <1>2, <1>3 DEF MQType, MQFree
  <2> QED
    BY Zenon, <1>1, <1>2, <1>3, <2>1, <2>2 DEF MQType, MQStages, MQKeeps
<1>5. /\ Cardinality(MQFree \ {u}) = Cardinality(MQFree) - 1 /\ Cardinality(MQFree) \in Nat
      /\ mq.active = Cardinality(MQFree)
  BY <1>1, <1>3, MQSets, Count DEF MQCounts
<1>6. MQCounts'
  BY Zenon, <1>1, <1>2, <1>3, <1>5 DEF MQCounts, MQKeeps
<1>7. mq.active - 1 <= 0 <=> MQFree' = {}
  <2>1. IsFiniteSet(MQFree \ {u})
    BY Zenon, <1>1, MQSets, FS_Subset
  <2>2. Cardinality(MQFree \ {u}) = 0 <=> MQFree \ {u} = {}
    BY Zenon, <2>1, FS_EmptySet
  <2>3. Cardinality(MQFree \ {u}) \in Nat
    BY Zenon, <2>1, FS_CardinalityType
  <2> QED
    BY <1>3, <1>5, <2>2, <2>3
<1>8. MQTells'
  <2> SUFFICES ASSUME ~mq'.raced PROVE MQTold'
    BY Zenon DEF MQTells
  <2>1. MQTold /\ MQFree # {} /\ MQCreated # {}
    BY Zenon, <1>1, <1>2, <1>3 DEF MQTells, MQFree
  <2>2. CASE mq.active - 1 <= 0
    BY Zenon, <1>1, <1>2, <1>3, <1>7, <2>1, <2>2 DEF MQTold
  <2>3. CASE ~(mq.active - 1 <= 0)
    BY Zenon, <1>2, <1>3, <1>7, <2>1, <2>3 DEF MQTold, MQKeeps
  <2> QED
    BY Zenon, <2>2, <2>3
<1> QED
  BY Zenon, <1>4, <1>6, <1>8 DEF MQInv

\* It resumes: the first one to do so calls them.
LEMMA MQResumes ==
    ASSUME MQ!MessageQueueAssumption, MQInv, NEW u, MQ!OnProducerResume(u)
    PROVE  MQInv'
<1>1. MQType /\ MQStages /\ MQCounts /\ MQTells /\ u \in mq.paused /\ u \in MQCreated /\ u \in Producers
  BY Zenon DEF MQInv, MQType, MQCreated, MQ!OnProducerResume
<1>2. /\ MQKeeps /\ mq'.active = mq.active + 1 /\ mq'.paused = mq.paused \ {u}
      /\ \/ /\ mq.active + 1 = 1 /\ mq'.calling = mq.calling \cup {<<u, "resume">>}
            /\ mq'.raced = (mq.raced \/ mq.calling # {})
         \/ mq.active + 1 # 1 /\ mq'.calling = mq.calling /\ mq'.raced = mq.raced
  BY Zenon, <1>1 DEF MQ!OnProducerResume, MQ!Calls, MQType, MQKeeps
<1>3. MQCreated' = MQCreated /\ MQSending' = MQSending /\ u \notin MQFree /\ MQFree' = MQFree \cup {u}
  BY Zenon, <1>1, <1>2 DEF MQKeeps, MQCreated, MQSending, MQFree
<1>4. MQType' /\ MQStages'
  <2>1. mq'.raced \in BOOLEAN
    BY Zenon, <1>1, <1>2 DEF MQType
  <2>2. mq'.paused \subseteq MQCreated
    BY Zenon, <1>1, <1>2 DEF MQType
  <2> QED
    BY Zenon, <1>1, <1>2, <1>3, <2>1, <2>2 DEF MQType, MQStages, MQKeeps
<1>5. /\ Cardinality(MQFree \cup {u}) = Cardinality(MQFree) + 1 /\ Cardinality(MQFree) \in Nat
      /\ mq.active = Cardinality(MQFree) /\ (Cardinality(MQFree) = 0 <=> MQFree = {})
  BY <1>1, <1>3, MQSets, Count DEF MQCounts
<1>6. MQCounts'
  BY Zenon, <1>1, <1>2, <1>3, <1>5 DEF MQCounts, MQKeeps
<1>7. mq.active + 1 = 1 <=> MQFree = {}
  BY <1>5
<1>8. MQTells'
  <2> SUFFICES ASSUME ~mq'.raced PROVE MQTold'
    BY DEF MQTells
  <2>1. MQTold /\ MQFree' # {}
    BY Zenon, <1>1, <1>2, <1>3 DEF MQTells
  <2>2. CASE mq.active + 1 = 1
    BY Zenon, <1>1, <1>2, <2>1, <2>2 DEF MQTold
  <2>3. CASE mq.active + 1 # 1
    BY Zenon, <1>2, <1>3, <1>7, <2>1, <2>3 DEF MQTold, MQKeeps
  <2> QED
    BY Zenon, <2>2, <2>3
<1> QED
  BY <1>4, <1>6, <1>8 DEF MQInv

\* The listeners hear of it.
LEMMA MQListens ==
    ASSUME MQInv, NEW u, MQ!Listen(u)
    PROVE  MQInv'
<1>1. MQType /\ MQStages /\ MQCounts /\ MQTells
  BY Zenon DEF MQInv
<1>2. PICK what \in {"pause", "resume"} :
        /\ <<u, what>> \in mq.calling
        /\ mq' = [mq EXCEPT !.calling = @ \ {<<u, what>>}, !.told = what]
  BY Zenon DEF MQ!Listen
<1>3. /\ DOMAIN mq' = DOMAIN mq /\ mq'.pc = mq.pc /\ mq'.main = mq.main /\ mq'.sent = mq.sent
      /\ mq'.consumed = mq.consumed /\ mq'.active = mq.active /\ mq'.paused = mq.paused
      /\ mq'.calling = mq.calling \ {<<u, what>>} /\ mq'.told = what /\ mq'.raced = mq.raced
  BY Zenon, <1>1, <1>2 DEF MQType
<1>4. MQCreated' = MQCreated /\ MQSending' = MQSending /\ MQFree' = MQFree
  BY Zenon, <1>3 DEF MQCreated, MQSending, MQFree
<1>5. MQType' /\ MQStages' /\ MQCounts'
  BY <1>1, <1>3, <1>4 DEF MQType, MQStages, MQCounts
<1>6. MQTells'
  <2> SUFFICES ASSUME ~mq.raced PROVE MQTold'
    BY Zenon, <1>3 DEF MQTells
  <2>1. CASE \E p \in Producers : mq.calling = {<<p, "pause">>} /\ MQFree = {} /\ MQCreated # {}
    <3>1. what = "pause" /\ mq'.calling = {}
      BY <1>2, <1>3, <2>1
    <3> QED
      BY Zenon, <1>3, <1>4, <2>1, <3>1 DEF MQTold
  <2>2. CASE \E p \in Producers : mq.calling = {<<p, "resume">>} /\ MQFree # {}
    <3>1. what = "resume" /\ mq'.calling = {}
      BY <1>2, <1>3, <2>2
    <3> QED
      BY Zenon, <1>3, <1>4, <2>2, <3>1 DEF MQTold
  <2> QED
    BY Zenon, <1>1, <1>2, <2>1, <2>2 DEF MQTells, MQTold
<1> QED
  BY Zenon, <1>5, <1>6 DEF MQInv

\* For any number of producers and consumers: when Start has returned, every message that was sent
\* has been consumed, and what the listeners heard last holds of the producers, unless calls
\* overlapped or a producer started while another one was paused.
THEOREM QueueEndsEmpty ==
    ASSUME MQ!MessageQueueAssumption
    PROVE  MQ!Spec => [](MQ!NothingInFlightAtReturn /\ MQ!OnlyRaceMisleadsListeners)
<1>1. MQInv /\ [MQ!Next]_mq => MQInv'
  <2> SUFFICES ASSUME MQInv, [MQ!Next]_mq PROVE MQInv'
    OBVIOUS
  <2>1. CASE UNCHANGED mq
    BY <2>1 DEF MQInv, MQType, MQStages, MQCounts, MQTells, MQTold, MQFree, MQCreated, MQSending
  <2>2. ASSUME NEW p \in Producers \cup Consumers, MQ!Step(p) PROVE MQInv'
    <3>1. CASE MQ!ProducerCreated(p)
      BY Zenon, <3>1, MQCreates DEF MQ!ProducerCreated
    <3>2. CASE MQ!ProducerQuits(p) \/ \E c \in Consumers : MQ!Consume(p, c)
      BY Zenon, <3>2, MQSends DEF MQ!ProducerQuits, MQ!Consume
    <3>3. CASE MQ!ConsumerCreated(p) \/ MQ!ConsumerQuits(p) \/ MQ!OnEvent(p)
      BY Zenon, <3>3, MQOthers
    <3> QED
      BY Zenon, <2>2, <3>1, <3>2, <3>3, MQListens DEF MQ!Step
  <2>3. ASSUME NEW p \in Producers \cup Consumers, MQ!Produce(p) PROVE MQInv'
    BY Zenon, <2>3, MQSends DEF MQ!Produce
  <2> QED
    BY Zenon, <2>1, <2>2, <2>3, MQOthers, MQPauses, MQResumes DEF MQ!Next
<1>2. MQ!Init => MQInv
  <2> SUFFICES ASSUME MQ!Init PROVE MQInv
    OBVIOUS
  <2>1. /\ mq.active = 0 /\ mq.sent = 0 /\ mq.consumed = 0 /\ mq.calling = {} /\ mq.told = "resume"
        /\ MQCreated = {} /\ MQSending = {} /\ MQFree = {} /\ mq.main = "new"
        /\ \A p \in Producers : mq.pc[p] = "new"
    BY Zenon DEF MQ!Init, MQCreated, MQSending, MQFree
  <2>2. MQType
    BY Zenon, <2>1 DEF MQ!Init, MQType
  <2> QED
    BY <2>1, <2>2, FS_EmptySet DEF MQInv, MQStages, MQCounts, MQTells, MQTold
<1>3. MQInv => MQ!NothingInFlightAtReturn /\ MQ!OnlyRaceMisleadsListeners
  <2> SUFFICES ASSUME MQInv PROVE MQ!NothingInFlightAtReturn /\ MQ!OnlyRaceMisleadsListeners
    OBVIOUS
  <2>1. MQ!NothingInFlightAtReturn
    <3> SUFFICES ASSUME mq.main = "done" PROVE mq.consumed = mq.sent
      BY Zenon DEF MQ!NothingInFlightAtReturn
    <3>1. MQSending = {}
      BY Zenon DEF MQInv, MQStages, MQSending
    <3> QED
      BY <3>1, FS_EmptySet DEF MQInv, MQType, MQCounts
  <2>2. MQ!OnlyRaceMisleadsListeners
    <3> SUFFICES ASSUME mq.calling = {}, ~mq.raced,
                        \A p \in Producers : mq.pc[p] # "new" /\ mq.pc[p] # "create"
                 PROVE  mq.told = "pause" <=> mq.active <= 0
      BY Zenon DEF MQ!OnlyRaceMisleadsListeners, MQ!At
    <3>1. MQCreated # {} /\ MQTold
      BY Zenon DEF MQInv, MQTells, MQCreated, MQ!MessageQueueAssumption
    <3>2. mq.active <= 0 <=> MQFree = {}
      BY MQSets DEF MQInv, MQCounts
    <3> QED
      BY Zenon, <3>1, <3>2 DEF MQTold
  <2> QED
    BY Zenon, <2>1, <2>2
<1> QED
  BY <1>1, <1>2, <1>3, PTL DEF MQ!Spec
-----------------------------------------------------------------------------
\* The listeners of a shutdown (Shutdown.tla): whoever waited for its listener finds it called.

SD == INSTANCE Shutdown

\* Cardinality and IsFiniteSet are those of the part.
LEMMA SDSameCount ==
    ASSUME NEW S
    PROVE  SD!Cardinality(S) = Cardinality(S) /\ SD!IsFiniteSet(S) = IsFiniteSet(S)
  BY DEF Cardinality, SD!Cardinality, IsFiniteSet, SD!IsFiniteSet

SDType ==
    /\ DOMAIN sd = {"signal", "count", "listeners", "called", "todo", "pc", "stop", "once", "at",
                    "running", "started", "late", "panicked"}
    /\ sd.pc \in [Listeners -> {"new", "counted", "wait", "returned"}]
    /\ sd.called \in [Listeners -> {0, 1}]
    /\ sd.listeners \subseteq Listeners /\ sd.todo \subseteq Listeners

\* Those that the wait group counts: added, and not yet called.
SDOpen == {l \in Listeners : sd.pc[l] # "new" /\ sd.called[l] = 0}

\* No listener is called before it was added, nor before the signal, nor twice.
SDCalled ==
    /\ \A l \in Listeners : sd.pc[l] = "new" \/ sd.signal = "none" => sd.called[l] = 0
    /\ \A l \in sd.listeners : sd.pc[l] # "new"
    /\ \A l \in sd.todo : sd.pc[l] # "new" /\ sd.called[l] = 0
    /\ sd.signal = "none" => sd.todo = {}

SDInv ==
    /\ SDType /\ sd.count = Cardinality(SDOpen)
    /\ SDCalled /\ SD!WaitedIsCalled

\* Steps that leave listeners, calls and the wait group alone.
LEMMA SDQuiet ==
    ASSUME SDInv, DOMAIN sd' = DOMAIN sd, sd'.pc = sd.pc, sd'.called = sd.called, sd'.count = sd.count,
           sd'.listeners = sd.listeners, sd'.todo = sd.todo, sd'.signal = "none" => sd.signal = "none"
    PROVE  SDInv'
<1>1. SDType' /\ SDOpen' = SDOpen
  BY DEF SDInv, SDType, SDOpen
<1>2. SD!WaitedIsCalled' /\ SDCalled'
  BY DEF SDInv, SDType, SDCalled, SD!WaitedIsCalled
<1> QED
  BY Zenon, <1>1, <1>2 DEF SDInv

\* The steps of notifying and of the service group.
LEMMA SDOthers ==
    ASSUME SDInv,
           \/ SD!Notified \/ SD!StartReturns \/ SD!Kill \/ SD!Stop
           \/ \E p \in SD!Stoppers : SD!Enter(p) \/ SD!Leave(p) \/ SD!DoStop(p)
    PROVE  SDInv'
<1>1. SDType
  BY Zenon DEF SDInv
<1>2. CASE SD!Notified \/ SD!StartReturns \/ SD!Kill \/ SD!Stop
  BY <1>1, <1>2, SDQuiet DEF SD!Notified, SD!StartReturns, SD!Kill, SD!Stop, SD!Locked, SDType
<1>3. ASSUME NEW p \in SD!Stoppers, SD!Enter(p) \/ SD!Leave(p) PROVE SDInv'
  BY ZenonT(40), <1>1, <1>3, SDQuiet DEF SD!Enter, SD!Leave, SDType
<1>4. ASSUME NEW p \in SD!Stoppers, SD!DoStop(p) PROVE SDInv'
  <2>1. CASE sd' = [sd EXCEPT !.at = @ + 1, !.running = @ \ {sd.at}]
    BY Zenon, <1>1, <2>1, SDQuiet DEF SDType
  <2>2. CASE sd' = [sd EXCEPT !.panicked = TRUE, !.once = "done", !.stop[p] = "returned",
                              !.signal = IF p = Owner THEN "killed" ELSE @]
    BY Zenon, <1>1, <2>2, SDQuiet DEF SDType
  <2>3. CASE sd' = [sd EXCEPT !.once = "done", !.stop[p] = "returned"]
    BY Zenon, <1>1, <2>3, SDQuiet DEF SDType
  <2> QED
    BY Zenon, <1>4, <2>1, <2>2, <2>3 DEF SD!DoStop
<1> QED
  BY Zenon, <1>2, <1>3, <1>4

\* addListener counts the listener, puts it into the list, and its caller waits.
LEMMA SDListener ==
    ASSUME SD!ShutdownAssumption, SDInv, NEW u \in Listeners, SD!Add(u) \/ SD!Append(u) \/ SD!Called(u)
    PROVE  SDInv'
<1>1. SDType /\ SDOpen \in SUBSET Listeners /\ IsFiniteSet(Listeners)
  BY Zenon, SDSameCount DEF SDInv, SDOpen, SD!ShutdownAssumption
<1>2. CASE SD!Add(u)
  <2>1. /\ DOMAIN sd' = DOMAIN sd /\ sd'.called = sd.called /\ sd'.listeners = sd.listeners
        /\ sd'.todo = sd.todo /\ sd'.signal = sd.signal /\ sd'.count = sd.count + 1
        /\ sd'.pc = [sd.pc EXCEPT ![u] = "counted"] /\ sd.pc[u] = "new"
    BY Zenon, <1>1, <1>2 DEF SD!Add, SDType
  <2>2. SDType' /\ sd'.pc[u] = "counted" /\ \A l \in Listeners \ {u} : sd'.pc[l] = sd.pc[l]
    BY <1>1, <2>1 DEF SDType
  <2>3. sd.called[u] = 0
    BY Zenon, <1>1, <2>1 DEF SDInv, SDType, SDCalled
  <2>4. SDOpen' = SDOpen \cup {u} /\ u \notin SDOpen
    BY Zenon, <2>1, <2>2, <2>3 DEF SDOpen
  <2>5. Cardinality(SDOpen') = Cardinality(SDOpen) + 1
    BY Zenon, <1>1, <2>4, Count
  <2>6. SD!WaitedIsCalled'
    BY Zenon, <2>1, <2>2 DEF SDInv, SD!WaitedIsCalled
  <2>7. SDCalled'
    BY <1>1, <2>1, <2>2 DEF SDInv, SDCalled, SDType
  <2> QED
    BY Zenon, <2>1, <2>2, <2>5, <2>6, <2>7 DEF SDInv
<1>3. CASE SD!Append(u)
  <2>1. /\ DOMAIN sd' = DOMAIN sd /\ sd'.called = sd.called /\ sd'.listeners = sd.listeners \cup {u}
        /\ sd'.todo = sd.todo /\ sd'.signal = sd.signal /\ sd'.count = sd.count
        /\ sd'.pc = [sd.pc EXCEPT ![u] = "wait"] /\ sd.pc[u] = "counted"
    BY Zenon, <1>1, <1>3 DEF SD!Append, SDType
  <2>2. SDType' /\ sd'.pc[u] = "wait" /\ \A l \in Listeners \ {u} : sd'.pc[l] = sd.pc[l]
    BY <1>1, <2>1 DEF SDType
  <2>3. SDOpen' = SDOpen
    BY Zenon, <2>1, <2>2 DEF SDOpen
  <2>4. SD!WaitedIsCalled'
    BY Zenon, <2>1, <2>2 DEF SDInv, SD!WaitedIsCalled
  <2>5. SDCalled'
    BY <1>1, <2>1, <2>2 DEF SDInv, SDCalled, SDType
  <2> QED
    BY Zenon, <2>1, <2>2, <2>3, <2>4, <2>5 DEF SDInv
<1>4. CASE SD!Called(u)
  <2>1. /\ DOMAIN sd' = DOMAIN sd /\ sd'.called = sd.called /\ sd'.listeners = sd.listeners
        /\ sd'.todo = sd.todo /\ sd'.signal = sd.signal /\ sd'.count = sd.count /\ sd.count = 0
        /\ sd'.pc = [sd.pc EXCEPT ![u] = "returned"] /\ sd.pc[u] = "wait"
    BY Zenon, <1>1, <1>4 DEF SD!Called, SDType
  <2>2. SDType' /\ sd'.pc[u] = "returned" /\ \A l \in Listeners \ {u} : sd'.pc[l] = sd.pc[l]
    BY <1>1, <2>1 DEF SDType
  <2>3. SDOpen' = SDOpen
    BY Zenon, <2>1, <2>2 DEF SDOpen
  <2>4. u \notin SDOpen
    <3>1. u \in SDOpen => Cardinality(SDOpen) > 0
      BY Zenon, <1>1, Count
    <3> QED
      BY <2>1, <3>1 DEF SDInv
  <2>5. sd.called[u] = 1
    BY <1>1, <2>1, <2>4 DEF SDOpen, SDType
  <2>6. SD!WaitedIsCalled'
    BY ZenonT(40), <2>1, <2>2, <2>5 DEF SDInv, SD!WaitedIsCalled
  <2>7. SDCalled'
    BY <1>1, <2>1, <2>2 DEF SDInv, SDCalled, SDType
  <2> QED
    BY Zenon, <2>1, <2>2, <2>3, <2>6, <2>7 DEF SDInv
<1> QED
  BY Zenon, <1>2, <1>3, <1>4

\* notifyListeners takes those that are in the list, and calls each of them once.
LEMMA SDNotify ==
    ASSUME SD!ShutdownAssumption, SDInv, SD!Notify \/ \E l \in Listeners : SD!Call(l)
    PROVE  SDInv'
<1>1. SDType /\ SDOpen \in SUBSET Listeners /\ IsFiniteSet(Listeners)
  BY Zenon, SDSameCount DEF SDInv, SDOpen, SD!ShutdownAssumption
<1>2. CASE SD!Notify
  <2>1. /\ DOMAIN sd' = DOMAIN sd /\ sd'.called = sd.called /\ sd'.listeners = sd.listeners
        /\ sd'.todo = sd.listeners /\ sd'.signal = "notify" /\ sd'.count = sd.count /\ sd'.pc = sd.pc
        /\ sd.signal = "none"
    BY Zenon, <1>1, <1>2 DEF SD!Notify, SDType
  <2>2. SDType' /\ SDOpen' = SDOpen
    BY Zenon, <1>1, <2>1 DEF SDType, SDOpen
  <2>3. SD!WaitedIsCalled'
    BY Zenon, <2>1 DEF SDInv, SD!WaitedIsCalled
  <2>4. \A l \in sd.listeners : sd.pc[l] # "new" /\ sd.called[l] = 0
    BY Zenon, <1>1, <2>1 DEF SDInv, SDCalled, SDType
  <2>5. SDCalled'
    BY Zenon, <2>1, <2>4 DEF SDInv, SDCalled
  <2> QED
    BY Zenon, <2>1, <2>2, <2>3, <2>5 DEF SDInv
<1>3. ASSUME NEW u \in Listeners, SD!Call(u) PROVE SDInv'
  <2>1. /\ DOMAIN sd' = DOMAIN sd /\ sd'.called = [sd.called EXCEPT ![u] = @ + 1]
        /\ sd'.listeners = sd.listeners /\ sd'.todo = sd.todo \ {u} /\ sd'.signal = sd.signal
        /\ sd'.count = sd.count - 1 /\ sd'.pc = sd.pc /\ sd.signal = "notify" /\ u \in sd.todo
    BY Zenon, <1>1, <1>3 DEF SD!Call, SD!Locked, SDType
  <2>2. sd.pc[u] # "new" /\ sd.called[u] = 0
    BY Zenon, <2>1 DEF SDInv, SDCalled
  <2>3. SDType' /\ sd'.called[u] = 1 /\ \A l \in Listeners \ {u} : sd'.called[l] = sd.called[l]
    BY SMTT(40), <1>1, <2>1, <2>2 DEF SDType
  <2>4. SDOpen' = SDOpen \ {u} /\ u \in SDOpen
    BY <2>1, <2>2, <2>3 DEF SDOpen
  <2>5. Cardinality(SDOpen') = Cardinality(SDOpen) - 1
    BY Zenon, <1>1, <2>4, Count
  <2>6. SD!WaitedIsCalled'
    BY Zenon, <2>1, <2>3 DEF SDInv, SD!WaitedIsCalled
  <2>7. SDCalled'
    BY SMTT(40), <1>1, <2>1, <2>2, <2>3 DEF SDInv, SDCalled, SDType
  <2> QED
    BY SMTT(40), <2>1, <2>3, <2>5, <2>6, <2>7 DEF SDInv
<1> QED
  BY Zenon, <1>2, <1>3

\* For any number of listeners: whoever returns from waitForCalled finds that its listener has been
\* called, though the wait group is that of all listeners, and whatever comes late or panics.
THEOREM WaitersFindThemCalled ==
    ASSUME SD!ShutdownAssumption
    PROVE  SD!Spec => []SD!WaitedIsCalled
<1>1. SDInv /\ [SD!Next]_sd => SDInv'
  <2> SUFFICES ASSUME SDInv, [SD!Next]_sd PROVE SDInv'
    OBVIOUS
  <2>1. CASE UNCHANGED sd
    BY Zenon, <2>1, SDQuiet
  <2>2. CASE SD!Next
    BY Zenon, <2>2, SDOthers, SDListener, SDNotify DEF SD!Next, SD!Step
  <2> QED
    BY Zenon, <2>1, <2>2
<1>2. SD!Init => SDInv
  <2> SUFFICES ASSUME SD!Init PROVE SDInv
    OBVIOUS
  <2>1. SDType /\ SDOpen = {} /\ SD!WaitedIsCalled /\ SDCalled /\ sd.count = 0 /\ sd.listeners = {}
        /\ sd.todo = {} /\ \A l \in Listeners : sd.called[l] = 0
    BY Zenon DEF SD!Init, SDType, SDOpen, SD!WaitedIsCalled, SDCalled
  <2> QED
    BY Zenon, <2>1, FS_EmptySet DEF SDInv
<1>3. SDInv => SD!WaitedIsCalled
  BY Zenon DEF SDInv
<1> QED
  BY <1>1, <1>2, <1>3, PTL DEF SD!Spec
-----------------------------------------------------------------------------
\* What queue, log and shutdown have accepted.

\* Queue: when Start has returned, every message that was sent has been consumed, and listeners are
\* misled only by overlapping calls.  RotateLogger: backups and file hold the accepted lines in order,
\* and only a start at midnight overwrites a backup.  Shutdown: a listener that is waited for has been
\* called.
AcceptedIsDone ==
    /\ MQ!NothingInFlightAtReturn /\ MQ!OnlyRaceMisleadsListeners
    /\ LG!LinesInOrder /\ LG!OnlyMidnightStartOverwrites
    /\ SD!WaitedIsCalled

\* What the three have accepted is done, for any producers, consumers, lines, dates and listeners.
THEOREM AcceptedIsAlwaysDone ==
    ASSUME MQ!MessageQueueAssumption, LG!RotateLoggerAssumption, SD!ShutdownAssumption
    PROVE  MQ!Spec /\ LG!Spec /\ SD!Spec => []AcceptedIsDone
  BY QueueEndsEmpty, LinesStayInOrder, WaitersFindThemCalled, PTL DEF AcceptedIsDone
=============================================================================
