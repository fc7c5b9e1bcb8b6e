----------------------------- MODULE LocalLogFile -----------------------------
(***************************************************************************)
(* The hourly local log files written by LogPushLocalTask                  *)
(* (service/core/logpusher/log_pusher.cpp).  Each logger thread has its    *)
(* own open file (a thread_local LogPushLocalThreadData); the threads      *)
(* share the result buffer of localtime(), which another thread may write  *)
(* while one still reads it.  The clock may advance between any two        *)
(* statements, and the task reads it three times.                          *)
(*                                                                         *)
(* A rotation that fails after its fclose() leaves the closed FILE* in the *)
(* thread data, still expired, and the next task closes it once more,      *)
(* which is undefined.  What it can do is a choice: nothing, end the       *)
(* process, or, where the memory holds the FILE another thread opened      *)
(* since, close that one, through which its owner then goes on writing.    *)
(***************************************************************************)
EXTENDS Naturals, FiniteSets

CONSTANTS Threads,
          HourLen,    \* clock ticks of an hour (HOUR_SECOND)
          DayLen,     \* clock ticks of a day, a multiple of HourLen
          MaxClock,   \* bound on the clock
          MaxLogs,    \* bound on the logs each thread writes
          FileFaults  \* "fs": mkdir and fopen may fail

ASSUME LocalLogAssumption ==
  /\ HourLen \in Nat \ {0}
  /\ DayLen \in Nat \ {0}
  /\ DayLen % HourLen = 0
  /\ MaxLogs \in Nat
  /\ FileFaults \subseteq {"fs"}

VARIABLES clock,
          fp,        \* LogPushLocalThreadData::fp: "null", "open", or "closed" when
                     \* fclose() was called for what it still points to
          name,      \* the hour directory and the creation time in its file name
          lastTime,  \* LogPushLocalThreadData::lastTime
          logCnt,    \* LogPushLocalThreadData::logCnt
          ltime,     \* localtime()'s static buffer, as a number of hours
          pc,        \* where the thread is in operator()()
          cur,       \* its curTime
          stamp,     \* its currentTime
          dir,       \* its dirname
          todo,      \* tasks the thread has still to run
          content,   \* the logs of each thread in its own files
          raced,     \* history: another thread changed the hour in the buffer
                     \* while this one still used it
          failed,    \* history: some rotation failed after its fclose()
          harmed     \* history: another thread closed this one's FILE, or
                     \* wrote to its file, through a stale FILE*

data == <<fp, name, lastTime, logCnt>>
fileVars == <<clock, data, ltime, pc, cur, stamp, dir, todo, content, raced, failed, harmed>>

HourOf(t) == t \div HourLen
StartOfDay(t) == DayLen * (t \div DayLen)

\* Of a number of hours: tm_hour, and the hours up to the start of its day.
HoursPerDay == DayLen \div HourLen
TmHour(h) == h % HoursPerDay
TmDay(h) == HoursPerDay * (h \div HoursPerDay)

NoName == [hour |-> 0, created |-> 0]

\* A log in a file: the file, when it was written and the count it got.
LogRecord == [file : [hour : Nat, created : Nat], time : Nat, nr : Nat]

FileInit ==
  /\ clock = DayLen - HourLen
  /\ fp = [t \in Threads |-> "null"]
  /\ name = [t \in Threads |-> NoName]
  /\ lastTime = [t \in Threads |-> 0]
  /\ logCnt = [t \in Threads |-> 0]
  /\ ltime = 0
  /\ pc = [t \in Threads |-> "idle"]
  /\ cur = [t \in Threads |-> 0]
  /\ stamp = [t \in Threads |-> 0]
  /\ dir = [t \in Threads |-> 0]
  /\ todo = [t \in Threads |-> MaxLogs]
  /\ content = [t \in Threads |-> {}]
  /\ raced = [t \in Threads |-> FALSE]
  /\ failed = FALSE
  /\ harmed = [t \in Threads |-> FALSE]

\* Mutant: the hour is forgotten.
ExpiredAtOnce(t, now) == lastTime[t] < now

\* lastTime < curTime - HOUR_SECOND, in the naturals
Expired(t, now) == lastTime[t] + HourLen < now

\* a new task: FILE * fp = data->fp; curTime = getCurrentTimeStamp()
Begin(t) ==
  /\ pc[t] = "idle" /\ todo[t] > 0
  /\ todo' = [todo EXCEPT ![t] = @ - 1]
  /\ cur' = [cur EXCEPT ![t] = clock]

\* operator()() returns, and its locals are gone
Return(t) ==
  /\ pc' = [pc EXCEPT ![t] = "idle"]
  /\ cur' = [cur EXCEPT ![t] = 0]
  /\ stamp' = [stamp EXCEPT ![t] = 0]
  /\ dir' = [dir EXCEPT ![t] = 0]

-------------------------------------------------------------------------------
BeginSameFile(t) ==
  /\ Begin(t)
  /\ fp[t] # "null" /\ ~Expired(t, clock)
  /\ pc' = [pc EXCEPT ![t] = "write"]
  /\ UNCHANGED <<clock, data, ltime, stamp, dir, content, raced, failed, harmed>>

BeginNoFile(t) ==
  /\ Begin(t)
  /\ fp[t] = "null"
  /\ pc' = [pc EXCEPT ![t] = "mkdir"]
  /\ UNCHANGED <<clock, data, ltime, stamp, dir, content, raced, failed, harmed>>

\* Mutant: the counter is not reset at rotation.
BeginExpiredKeepsCount(t) ==
  /\ Begin(t)
  /\ fp[t] = "open" /\ Expired(t, clock)
  /\ fp' = [fp EXCEPT ![t] = "closed"]
  /\ pc' = [pc EXCEPT ![t] = "mkdir"]
  /\ UNCHANGED <<clock, name, lastTime, logCnt, ltime, stamp, dir, content, raced, failed, harmed>>

\* fclose(fp) and fp = NULL, but only the local copy of the pointer
BeginExpired(t) ==
  /\ Begin(t)
  /\ fp[t] = "open" /\ Expired(t, clock)
  /\ fp' = [fp EXCEPT ![t] = "closed"]
  /\ logCnt' = [logCnt EXCEPT ![t] = 0]
  /\ pc' = [pc EXCEPT ![t] = "mkdir"]
  /\ UNCHANGED <<clock, name, lastTime, ltime, stamp, dir, content, raced, failed, harmed>>

\* An expired task, or one that writes, is about to use a FILE* that was closed.
UsesClosed(t) ==
  /\ fp[t] = "closed"
  /\ \/ pc[t] = "idle" /\ todo[t] > 0 /\ Expired(t, clock)
     \/ pc[t] = "write"

\* fclose(fp) a second time, after a failed rotation: not noticed, or the
\* FILE of another thread that is in its memory now is closed
CloseAgain(t) ==
  /\ Begin(t)
  /\ UsesClosed(t)
  /\ \/ UNCHANGED <<fp, harmed>>
     \/ \E u \in Threads : /\ fp[u] = "open"
                           /\ fp' = [fp EXCEPT ![u] = "closed"]
                           /\ harmed' = [harmed EXCEPT ![u] = TRUE]
  /\ logCnt' = [logCnt EXCEPT ![t] = 0]
  /\ pc' = [pc EXCEPT ![t] = "mkdir"]
  /\ UNCHANGED <<clock, name, lastTime, ltime, stamp, dir, content, raced, failed>>

\* ... or the C library ends the process, with all its threads
Abort(t) ==
  /\ UsesClosed(t)
  /\ pc' = [u \in Threads |-> "dead"]
  /\ UNCHANGED <<clock, data, ltime, cur, stamp, dir, todo, content, raced, failed, harmed>>

\* A task gives up before a file is open.
GivesUp(t) ==
  /\ "fs" \in FileFaults
  /\ failed' = (failed \/ fp[t] = "closed")
  /\ Return(t)

\* the logs folder exists or is created, else the task returns; time(&currentTime)
MakeFolder(t) ==
  /\ pc[t] = "mkdir"
  /\ \/ /\ pc' = [pc EXCEPT ![t] = "localtime"]
        /\ stamp' = [stamp EXCEPT ![t] = clock]
        /\ UNCHANGED <<cur, dir, failed>>
     \/ GivesUp(t)
  /\ UNCHANGED <<clock, data, ltime, todo, content, raced, harmed>>

\* threads between their localtime() and the last use of its result
UsesBuffer(t) == pc[t] \in {"dirname", "open", "setlast"}

\* localtime(): the hour of currentTime is in the buffer, whoever reads it
LocalTime(t) ==
  /\ pc[t] = "localtime"
  /\ ltime' = HourOf(stamp[t])
  /\ raced' = [u \in Threads |-> raced[u] \/ (UsesBuffer(u) /\ ltime # HourOf(stamp[t]))]
  /\ pc' = [pc EXCEPT ![t] = "dirname"]
  /\ UNCHANGED <<clock, data, cur, stamp, dir, todo, content, failed, harmed>>

\* What is read of the buffer while another thread may write it: the day and
\* the hour the thread's own call put there, or those that are there now.
Read(t) == {TmDay(d) + TmHour(h) : d, h \in {HourOf(stamp[t]), ltime}}

\* Mutant: lastTime is set with the directory, before the file is open.
DirNameSetsLastTime(t) ==
  /\ pc[t] = "dirname"
  /\ \E hour \in Read(t) : dir' = [dir EXCEPT ![t] = hour]
  /\ lastTime' = [lastTime EXCEPT ![t] = StartOfDay(clock) + TmHour(ltime) * HourLen]
  /\ pc' = [pc EXCEPT ![t] = "open"]
  /\ UNCHANGED <<clock, fp, name, logCnt, ltime, cur, stamp, todo, content, raced, failed, harmed>>

\* the name of the hour directory, created if need be
DirName(t) ==
  /\ pc[t] = "dirname"
  /\ \E hour \in Read(t) : dir' = [dir EXCEPT ![t] = hour]
  /\ pc' = [pc EXCEPT ![t] = "open"]
  /\ UNCHANGED <<clock, data, ltime, cur, stamp, todo, content, raced, failed, harmed>>

\* fopen(.., "wb+") truncates a file of the same name
OpenFile(t) ==
  LET new == [hour |-> dir[t], created |-> cur[t]] IN
  /\ pc[t] = "open"
  /\ \/ /\ name' = [name EXCEPT ![t] = new]
        /\ content' = [content EXCEPT ![t] = {r \in @ : r.file # new}]
        /\ fp' = [fp EXCEPT ![t] = "open"]
        /\ harmed' = [harmed EXCEPT ![t] = FALSE]
        /\ pc' = [pc EXCEPT ![t] = "setlast"]
        /\ UNCHANGED <<cur, stamp, dir, failed>>
     \/ GivesUp(t) /\ UNCHANGED <<fp, name, content, harmed>>
  /\ UNCHANGED <<clock, lastTime, logCnt, ltime, todo, raced>>

\* Mutant: lastTime is not updated.
SetLastTimeForgotten(t) ==
  /\ pc[t] = "setlast"
  /\ pc' = [pc EXCEPT ![t] = "write"]
  /\ UNCHANGED <<clock, fp, name, lastTime, logCnt, ltime, cur, stamp, dir, todo, content, raced, failed, harmed>>

\* getTodayStartTime() + ltime->tm_hour * HOUR_SECOND
SetLastTime(t) ==
  /\ pc[t] = "setlast"
  /\ lastTime' = [lastTime EXCEPT ![t] = StartOfDay(clock) + TmHour(ltime) * HourLen]
  /\ pc' = [pc EXCEPT ![t] = "write"]
  /\ UNCHANGED <<clock, fp, name, logCnt, ltime, cur, stamp, dir, todo, content, raced, failed, harmed>>

WriteLog(t) ==
  /\ pc[t] = "write" /\ fp[t] = "open"
  /\ logCnt' = [logCnt EXCEPT ![t] = @ + 1]
  /\ content' = [content EXCEPT ![t] =
                   @ \cup {[file |-> name[t], time |-> cur[t], nr |-> logCnt[t] + 1]}]
  /\ Return(t)
  /\ UNCHANGED <<clock, fp, name, lastTime, ltime, todo, raced, failed, harmed>>

\* fwrite() to a FILE that another thread closed, also undefined: the log is
\* lost, or it is in the file of the thread whose FILE is there now
WriteClosed(t) ==
  /\ pc[t] = "write"
  /\ UsesClosed(t)
  /\ \/ UNCHANGED harmed
     \/ \E u \in Threads : fp[u] = "open" /\ harmed' = [harmed EXCEPT ![u] = TRUE]
  /\ logCnt' = [logCnt EXCEPT ![t] = @ + 1]
  /\ Return(t)
  /\ UNCHANGED <<clock, fp, name, lastTime, ltime, todo, content, raced, failed>>

Tick ==
  /\ clock < MaxClock
  /\ clock' = clock + 1
  /\ UNCHANGED <<data, ltime, pc, cur, stamp, dir, todo, content, raced, failed, harmed>>

Task(t) == BeginSameFile(t) \/ BeginNoFile(t) \/ BeginExpired(t) \/ CloseAgain(t)
           \/ Abort(t) \/ MakeFolder(t) \/ LocalTime(t) \/ DirName(t) \/ OpenFile(t)
           \/ SetLastTime(t) \/ WriteLog(t) \/ WriteClosed(t)

FileNext == Tick \/ \E t \in Threads : Task(t)

FileSpec == FileInit /\ [][FileNext]_fileVars

-------------------------------------------------------------------------------
(* Properties.                                                             *)

\* Types of the thread data and of the locals of operator()().
FileTypeOK ==
  /\ clock \in Nat
  /\ fp \in [Threads -> {"null", "open", "closed"}]
  /\ name \in [Threads -> [hour : Nat, created : Nat]]
  /\ lastTime \in [Threads -> Nat]
  /\ logCnt \in [Threads -> Nat]
  /\ ltime \in Nat
  /\ pc \in [Threads -> {"idle", "mkdir", "localtime", "dirname", "open", "setlast", "write", "dead"}]
  /\ cur \in [Threads -> Nat]
  /\ stamp \in [Threads -> Nat]
  /\ dir \in [Threads -> Nat]
  /\ todo \in [Threads -> 0 .. MaxLogs]
  /\ content \in [Threads -> SUBSET LogRecord]
  /\ raced \in [Threads -> BOOLEAN]
  /\ failed \in BOOLEAN
  /\ harmed \in [Threads -> BOOLEAN]

\* The file name (hour, pid, thread, second) is fresh at every fopen(.., "wb+"):
\* no rotation truncates a file that already holds logs, unless localtime()
\* in another thread changed the hour this one was about to use.
LogsKept == [][\A t \in Threads : ~raced[t] => content[t] \subseteq content'[t]]_fileVars

\* The "hourly log cnt" reported at rotation is the number of logs in the
\* file being closed, also after failed rotations, unless another thread's
\* repeated fclose() put that file out of its owner's hands.
CountIsExact ==
  \A t \in Threads :
    fp[t] = "open" /\ ~harmed[t] =>
      logCnt[t] = Cardinality({r \in content[t] : r.file = name[t]})

\* A file is not given up before its hour is over: a thread creates at most
\* one file per hour directory, with the same exception.
OneFilePerHour ==
  \A t \in Threads : ~raced[t] =>
    \A r, s \in content[t] : r.file.hour = s.file.hour => r.file = s.file

\* A rotation that fails after fclose() leaves the closed FILE* in the thread
\* data.  Its own thread never writes to it, because lastTime stays expired
\* until a new file is open; but the next task calls fclose() on it again,
\* and from then on the file of another thread may be closed under it or
\* hold another's logs.  As long as no rotation has failed, no task finds a
\* closed FILE* and no thread's file is touched by another.
WritesOpenFile ==
  \A t \in Threads :
    /\ pc[t] = "write" /\ ~harmed[t] => fp[t] = "open"
    /\ ~failed => ~harmed[t] /\ (pc[t] = "idle" => fp[t] # "closed")
==============================================================================
