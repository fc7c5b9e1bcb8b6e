---------------------------- MODULE LogCollector ----------------------------
(***************************************************************************)
(* locallog_collector (tool/locallog_collector.cpp): a tool an operator or *)
(* cron runs again and again over a directory of local log files.  Each    *)
(* execution loads how far the earlier ones got, pushes the records found  *)
(* behind that point to Kafka ("sync") or only prints them ("check"), and  *)
(* saves the new offsets.  The files are still being written by the log    *)
(* threads, executions may overlap or be killed at any step, and the two   *)
(* state files are rewritten in place.                                     *)
(*                                                                         *)
(* A file is a sequence of cells: "head" is the mt<length>^ in front of a  *)
(* record, "like" a piece of a payload that isHead() takes for one, "body" *)
(* any other piece of a payload.  An offset counts cells.                  *)
(***************************************************************************)
EXTENDS Naturals, Sequences, FiniteSets

CONSTANTS Procs,        \* executions that may be alive at the same time
          Files,        \* the files of the directory
          Content,      \* Content[f]: all that is ever written to f
          Flushes,      \* Flushes[f]: the sizes at which stdio writes f out
          Window,       \* cells read at once (sizeof(logBuffer) - 1 bytes)
          Faults        \* bounds: how many executions are killed, how many are
                        \* started while another one runs, and how many torn
                        \* state files are removed

ASSUME LogCollectorAssumption ==
  /\ IsFiniteSet(Procs) /\ IsFiniteSet(Files)
  /\ \A f \in Files : /\ Content[f] \in Seq({"head", "like", "body"})
                      /\ Content[f] # <<>> => Content[f][1] = "head"
  /\ \A f \in Files : Flushes[f] \subseteq 0 .. Len(Content[f])
  /\ Window \in Nat \ {0, 1, 2}
  /\ Faults \subseteq [kill : Nat, overlap : Nat, remove : Nat]

VARIABLES size,      \* cells of each file that are on disk
          progress,  \* progress.bin: "missing", "torn" or "whole"
          saved,     \* the offsets in progress.bin
          counter,   \* counter.bin: "missing", "torn" or "whole"
          pc,        \* where each execution is
          run,       \* its operation, progressMap, the files readdir() has not
                     \* returned yet and the one readFile() works on
          pushed,    \* history: how often the record at an offset was pushed
          checked,   \* history: <<file, offset>> of the records printed
          left,      \* the faults of this behaviour that are still to come
          faults     \* how many there were

state == <<progress, saved, counter>>
history == <<pushed, checked>>
vars == <<size, state, pc, run, history, left, faults>>

\* Offsets of the heads of records.
Heads == [f \in Files |-> {o \in 0 .. Len(Content[f]) - 1 : Content[f][o + 1] = "head"}]

NoProgress == [f \in Files |-> 0]

Fresh(o) == [op |-> o, map |-> NoProgress, todo |-> Files, reading |-> {}]

Init ==
  /\ size = [f \in Files |-> 0]
  /\ progress = "missing" /\ counter = "missing" /\ saved = NoProgress
  /\ pc = [p \in Procs |-> "off"]
  /\ run = [p \in Procs |-> Fresh("sync")]
  /\ pushed = [f \in Files |-> [o \in Heads[f] |-> 0]]
  /\ checked = {}
  /\ left \in Faults /\ faults = 0

-------------------------------------------------------------------------------
(* The layout of a file.                                                   *)

\* isHead() on the cell that begins at offset o.
IsHead(f, o) == Content[f][o + 1] # "body"

\* Offsets of the cells isHead() accepts behind the one at o, in one window.
Ends(f, o) == {e \in o + 1 .. o + Window - 1 : e < Len(Content[f]) /\ IsHead(f, e)}

\* Where the piece at offset o ends: the next cell isHead() accepts.
End(f, o) == CHOOSE e \in Ends(f, o) : \A d \in Ends(f, o) : e <= d

\* feof(fp) after a read that returned less than the window.
AtEof(f, o) == size[f] - o < Window

\* checkDataValid(): the bytes decode exactly when they are a whole record.
CheckDataValid(f, o) == Content[f][o + 1] = "head" /\ Content[f][End(f, o) + 1] = "head"

\* Mutant: stays in front of a record the callback refuses.
ReadFailsInvalid(f, o) ==
  \/ AtEof(f, o) \/ Ends(f, o) = {} \/ o + 1 \in Ends(f, o)
  \/ Ends(f, o) # {} /\ ~CheckDataValid(f, o)

\* "feof(fp) || end <= begin"
ReadFails(f, o) == AtEof(f, o) \/ Ends(f, o) = {} \/ o + 1 \in Ends(f, o)

-------------------------------------------------------------------------------
(* The log threads and the operator.                                       *)

\* LogPushLocalTask through stdio: the file may end in the middle of a record.
WriteLogs(f) ==
  /\ \E n \in Flushes[f] : n > size[f] /\ size' = [size EXCEPT ![f] = n]
  /\ UNCHANGED <<state, pc, run, history, left, faults>>

Fault(kind) ==
  /\ left[kind] > 0
  /\ left' = [left EXCEPT ![kind] = @ - 1]
  /\ faults' = faults + 1

Start(p, o) ==
  /\ pc[p] = "off"
  /\ pc' = [pc EXCEPT ![p] = "init"]
  /\ run' = [run EXCEPT ![p] = Fresh(o)]
  /\ IF \E q \in Procs : pc[q] # "off" THEN Fault("overlap") ELSE UNCHANGED <<left, faults>>
  /\ UNCHANGED <<size, state, history>>

\* The process is gone, and its maps with it.
Exit(p) ==
  /\ pc' = [pc EXCEPT ![p] = "off"]
  /\ run' = [run EXCEPT ![p] = Fresh("sync")]

Kill(p) ==
  /\ pc[p] # "off"
  /\ Fault("kill")
  /\ Exit(p)
  /\ UNCHANGED <<size, state, history>>

\* A torn file stops every later execution until somebody removes it.
Remove ==
  /\ \A p \in Procs : pc[p] = "off"
  /\ Fault("remove")
  /\ \/ progress = "torn" /\ progress' = "missing" /\ counter' = counter
     \/ counter = "torn" /\ counter' = "missing" /\ progress' = progress
  /\ UNCHANGED <<size, saved, pc, run, history>>

-------------------------------------------------------------------------------
(* init(): false where a file is missing, an exception where it is torn.   *)

Goto(p, step) == pc' = [pc EXCEPT ![p] = step]

\* Mutant: progress.bin is opened but not read into the map.
LoadProgressUnread(p) ==
  /\ pc[p] = "init"
  /\ \/ progress = "missing" /\ Goto(p, "create") /\ UNCHANGED run
     \/ progress = "torn" /\ Exit(p)
     \/ progress = "whole" /\ Goto(p, "initCounter") /\ UNCHANGED run
  /\ UNCHANGED <<size, state, history, left, faults>>

LoadProgress(p) ==
  /\ pc[p] = "init"
  /\ \/ progress = "missing" /\ Goto(p, "create") /\ UNCHANGED run
     \/ progress = "torn" /\ Exit(p)
     \/ progress = "whole" /\ Goto(p, "initCounter") /\ run' = [run EXCEPT ![p].map = saved]
  /\ UNCHANGED <<size, state, history, left, faults>>

LoadCounter(p) ==
  /\ pc[p] = "initCounter"
  /\ \/ counter = "missing" /\ Goto(p, "create") /\ UNCHANGED run
     \/ counter = "torn" /\ Exit(p)
     \/ counter = "whole" /\ Goto(p, "files") /\ UNCHANGED run
  /\ UNCHANGED <<size, state, history, left, faults>>

-------------------------------------------------------------------------------
(* finalize(): both files are truncated before either of them is flushed.  *)
(* main() calls it when init() fails, before it calls init() again, and    *)
(* once the directory is read.                                             *)

Finished(p) == run[p].todo = {} /\ run[p].reading = {}

TruncateProgress(p) ==
  /\ pc[p] = "create" \/ (pc[p] = "files" /\ Finished(p))
  /\ progress' = "torn"
  /\ Goto(p, "truncateCounter")
  /\ UNCHANGED <<size, saved, counter, run, history, left, faults>>

TruncateCounter(p) ==
  /\ pc[p] = "truncateCounter"
  /\ counter' = "torn"
  /\ Goto(p, "closeProgress")
  /\ UNCHANGED <<size, progress, saved, run, history, left, faults>>

CloseProgress(p) ==
  /\ pc[p] = "closeProgress"
  /\ progress' = "whole" /\ saved' = run[p].map
  /\ Goto(p, "closeCounter")
  /\ UNCHANGED <<size, counter, run, history, left, faults>>

CloseCounter(p) ==
  /\ pc[p] = "closeCounter"
  /\ counter' = "whole"
  /\ IF Finished(p) THEN Exit(p) ELSE Goto(p, "init") /\ UNCHANGED run
  /\ UNCHANGED <<size, progress, saved, history, left, faults>>

-------------------------------------------------------------------------------
(* main()'s loop over the directory, and readFile().  fileOffset is kept   *)
(* in the map: nothing reads the entry before readFile() stores it.        *)

OpenFile(p, f) ==
  /\ pc[p] = "files" /\ run[p].reading = {} /\ f \in run[p].todo
  /\ run' = [run EXCEPT ![p].todo = @ \ {f}, ![p].reading = {f}]
  /\ UNCHANGED <<size, state, pc, history, left, faults>>

\* One turn of the loop: a record the callback refuses is passed over.
ReadRecord(p, f) ==
  LET o == run[p].map[f]
      valid == CheckDataValid(f, o)
  IN /\ f \in run[p].reading /\ ~ReadFails(f, o)
     /\ run' = [run EXCEPT ![p].map[f] = End(f, o)]
     /\ pushed' = IF valid /\ run[p].op = "sync" THEN [pushed EXCEPT ![f][o] = @ + 1]
                                                ELSE pushed
     /\ checked' = IF valid /\ run[p].op = "check" THEN checked \cup {<<f, o>>} ELSE checked
     /\ UNCHANGED <<size, state, pc, left, faults>>

\* Mutant: the offset stored is where the last read ended.
ReadStopsAtEnd(p, f) ==
  /\ f \in run[p].reading /\ ReadFails(f, run[p].map[f])
  /\ run' = [run EXCEPT ![p].reading = {}, ![p].map[f] = size[f]]
  /\ UNCHANGED <<size, state, pc, history, left, faults>>

ReadStops(p, f) ==
  /\ f \in run[p].reading /\ ReadFails(f, run[p].map[f])
  /\ run' = [run EXCEPT ![p].reading = {}]
  /\ UNCHANGED <<size, state, pc, history, left, faults>>

-------------------------------------------------------------------------------
Step(p) ==
  \/ LoadProgress(p) \/ LoadCounter(p)
  \/ TruncateProgress(p) \/ TruncateCounter(p) \/ CloseProgress(p) \/ CloseCounter(p)
  \/ \E f \in Files : OpenFile(p, f) \/ ReadRecord(p, f) \/ ReadStops(p, f)

Next ==
  \/ \E f \in Files : WriteLogs(f)
  \/ \E p \in Procs : Step(p) \/ Kill(p) \/ \E o \in {"sync", "check"} : Start(p, o)
  \/ Remove

\* The machine runs the executions, and cron starts them again.
Fairness == WF_vars(\E p \in Procs : Step(p) \/ Start(p, "sync"))

Spec == Init /\ [][Next]_vars /\ Fairness

-------------------------------------------------------------------------------
(* Properties.                                                             *)

Marks == [f \in Files |-> {o \in 0 .. Len(Content[f]) - 1 : IsHead(f, o)}]

\* The whole records of f: where they begin and where the next one does,
\* with nothing in between that isHead() accepts.
Records == [f \in Files |-> {r \in Heads[f] \X Heads[f] :
                              r[1] < r[2] /\ ~\E o \in Marks[f] : r[1] < o /\ o < r[2]}]

Seen(f, o) == pushed[f][o] > 0 \/ <<f, o>> \in checked

\* NothingSkipped: every whole record in front of an offset, saved in
\* progress.bin or held by an execution, was pushed or printed, whatever
\* executions overlapped or were killed (readFile(), finalize()).
NothingSkipped ==
  \A m \in {saved} \cup {run[p].map : p \in Procs} :
    \A f \in Files : \A r \in Records[f] :
      r[2] <= m[f] => Seen(f, r[1])

\* PushedOnce: a record is pushed again only after an execution was killed,
\* ran beside another one, or lost its progress file (main()).
PushedOnce ==
  \A f \in Files : \A o \in DOMAIN pushed[f] : pushed[f][o] <= 1 + faults

\* A record readFile() gets to: the file holds a full window behind its
\* head, and no piece up to it is empty or reaches past its window.
Collectable(f, r) ==
  /\ r[1] + Window <= size[f]
  /\ \A o \in Marks[f] : o <= r[1] =>
       \E e \in Marks[f] : /\ o + 2 <= e /\ e < o + Window
                           /\ ~\E d \in Marks[f] : o < d /\ d < e

\* Collected: again and again there is no whole record left that is followed
\* by enough of its file and was neither pushed nor printed, unless a state
\* file stays torn and stops the tool (main()).
Collected ==
  \/ <>[]("torn" \in {progress, counter})
  \/ []<>(\A f \in Files : \A r \in Records[f] :
            Collectable(f, r) => Seen(f, r[1]))

=============================================================================
