------------------------------ MODULE LogFile -------------------------------
(***************************************************************************)
(* LogFile: lines are appended to a file that is replaced when it has grown *)
(* past rollSize_ or a new day has begun, but never twice in a second: the  *)
(* name of a file is the second it was made in.  append and flush run under *)
(* mutex_, or in the only thread that uses the LogFile.                     *)
(***************************************************************************)
EXTENDS Integers, Sequences

CONSTANTS
  rollSize, flushInterval, checkEveryN,
  kRollPerSeconds,   \* length of a day
  Sizes,             \* lengths of lines
  MaxTime,           \* bound: the last second
  MaxLines           \* bound: lines appended

VARIABLES
  now,             \* time(NULL)
  startOfPeriod, lastRoll, lastFlush, count,
  name,            \* the second file_ was made in
  writtenBytes,    \* file_->writtenBytes()
  unflushed,       \* seconds of the lines in file_ that are not yet flushed
  lastAppend,      \* history: when the last line was appended
  names,           \* history: the names of the files opened, in order
  late,            \* history: lines of a later day in file_
  lines,           \* history: how many lines were appended
  steppedBack      \* history: the clock has been set back

period == <<startOfPeriod, lastRoll, lastFlush>>
vars == <<now, period, count, name, writtenBytes, unflushed, lastAppend, names, late, lines, steppedBack>>

Day(t) == (t \div kRollPerSeconds) * kRollPerSeconds

\* The constructor makes the first file.
Init ==
  /\ now = 1 /\ lastRoll = 1 /\ lastFlush = 1 /\ startOfPeriod = Day(1) /\ name = 1
  /\ count = 0 /\ writtenBytes = 0 /\ unflushed = <<>>
  /\ lastAppend = 1 /\ names = <<1>> /\ late = 0 /\ lines = 0
  /\ steppedBack = FALSE

\* No second roll in a second, and none when the clock was set back.
MayRoll == now > lastRoll

\* rollFile, after a line of l bytes was appended: the old file is closed, which
\* flushes it, and a new one made.
RollFile(l) ==
  IF MayRoll
  THEN /\ lastRoll' = now /\ lastFlush' = now /\ startOfPeriod' = Day(now)
       /\ name' = now /\ names' = Append(names, now)
       /\ writtenBytes' = 0 /\ unflushed' = <<>> /\ late' = 0
  ELSE /\ writtenBytes' = writtenBytes + l /\ unflushed' = Append(unflushed, now)
       /\ late' = IF Day(now) # Day(name) THEN late + 1 ELSE late
       /\ UNCHANGED <<period, name, names>>

\* The line stays in the file, which is flushed or not.
Stay(l, flush) ==
  /\ writtenBytes' = writtenBytes + l
  /\ unflushed' = IF flush THEN <<>> ELSE Append(unflushed, now)
  /\ lastFlush' = IF flush THEN now ELSE lastFlush
  /\ late' = IF Day(now) # Day(name) THEN late + 1 ELSE late
  /\ UNCHANGED <<startOfPeriod, lastRoll, name, names>>

\* Mutant of Check: the flush comes before the new day.
CheckFlushFirst(l) ==
  IF count + 1 >= checkEveryN
  THEN /\ count' = 0
       /\ IF now - lastFlush > flushInterval THEN Stay(l, TRUE)
          ELSE IF Day(now) # startOfPeriod THEN RollFile(l) ELSE Stay(l, FALSE)
  ELSE count' = count + 1 /\ Stay(l, FALSE)

\* Every checkEveryN_ lines: a new day, or time to flush.
Check(l) ==
  IF count + 1 >= checkEveryN
  THEN /\ count' = 0
       /\ IF Day(now) # startOfPeriod THEN RollFile(l)
          ELSE Stay(l, now - lastFlush > flushInterval)
  ELSE count' = count + 1 /\ Stay(l, FALSE)

\* append_unlocked: the line is written first.
AppendUnlocked(l) ==
  IF writtenBytes + l > rollSize THEN RollFile(l) /\ UNCHANGED count ELSE Check(l)

AppendLine(l) ==
  /\ lines < MaxLines
  /\ AppendUnlocked(l)
  /\ lastAppend' = now /\ lines' = lines + 1
  /\ UNCHANGED <<now, steppedBack>>

Flush ==
  /\ unflushed # <<>>
  /\ unflushed' = <<>>
  /\ UNCHANGED <<now, period, count, name, writtenBytes, lastAppend, names, late, lines, steppedBack>>

Tick ==
  /\ now < MaxTime
  /\ now' = now + 1
  /\ UNCHANGED <<period, count, name, writtenBytes, unflushed, lastAppend, names, late, lines, steppedBack>>

SetBack ==
  /\ now > 1
  /\ now' = now - 1 /\ steppedBack' = TRUE
  /\ UNCHANGED <<period, count, name, writtenBytes, unflushed, lastAppend, names, late, lines>>

Next == (\E l \in Sizes : AppendLine(l)) \/ Flush \/ Tick \/ SetBack

Spec == Init /\ [][Next]_vars

-----------------------------------------------------------------------------
(* Properties *)

TypeOK ==
  /\ now \in 1 .. MaxTime /\ {lastRoll, lastFlush, name, lastAppend} \subseteq 1 .. MaxTime
  /\ startOfPeriod \in 0 .. MaxTime /\ count \in 0 .. checkEveryN - 1
  /\ writtenBytes \in Nat /\ unflushed \in Seq(1 .. MaxTime) /\ names \in Seq(1 .. MaxTime)
  /\ late \in Nat /\ lines \in 0 .. MaxLines /\ steppedBack \in BOOLEAN

\* A file that is larger than rollSize_ is one that has been written to only in
\* the second it was made in, or after the clock was set back: otherwise the last
\* append has replaced it.
RolledWhenFull == writtenBytes > rollSize => lastAppend <= lastRoll

\* rollFile never opens a file that exists: no two files are made in one second,
\* though the clock may be set back to a second that had its file.
NewName == \A i, j \in 1 .. Len(names) : names[i] = names[j] => i = j

\* As long as the clock was not set back, a new day is noticed late, but fewer than
\* checkEveryN_ lines of it are in the old file.
LateIsBounded == ~steppedBack => late < checkEveryN

\* The check of every checkEveryN_ lines flushes: lines stay unflushed no longer
\* than flushInterval_ and the checkEveryN_ lines after it.
FlushedInTime ==
  ~steppedBack =>
    \A i \in 1 .. Len(unflushed) : unflushed[i] - lastFlush > flushInterval => Len(unflushed) - i < checkEveryN
=============================================================================
