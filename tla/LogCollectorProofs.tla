-------------------------- MODULE LogCollectorProofs --------------------------
(***************************************************************************)
(* Proofs about LogCollector, for any number of executions, files of any   *)
(* content and any number of faults.                                       *)
(***************************************************************************)
EXTENDS LogCollector, FiniteSetTheorems, WellFoundedInduction, TLAPS

\* Steps are for Zenon unless they name another prover.
USE ZenonT(60)


-------------------------------------------------------------------------------
(* Types, and where an execution can be with which of its variables.       *)

Steps == {"off", "init", "initCounter", "create", "files",
          "truncateCounter", "closeProgress", "closeCounter"}

Run == [op : {"sync", "check"}, map : [Files -> Nat], todo : SUBSET Files, reading : SUBSET Files]

TypeInv ==
  /\ progress \in {"missing", "torn", "whole"} /\ counter \in {"missing", "torn", "whole"}
  /\ saved \in [Files -> Nat]
  /\ pc \in [Procs -> Steps]
  /\ run \in [Procs -> Run]
  /\ DOMAIN pushed = Files
  /\ \A f \in Files : pushed[f] \in [Heads[f] -> Nat]
  /\ faults \in Nat

\* init() and the first finalize() come before any file is read, a file is
\* only read in main()'s loop, and counter.bin exists once it was truncated.
PhaseInv(p) ==
  /\ pc[p] \in {"init", "initCounter", "create"} => run[p].todo = Files
  /\ pc[p] \in {"truncateCounter", "closeProgress", "closeCounter"} =>
       Finished(p) \/ run[p].todo = Files
  /\ pc[p] \in {"closeProgress", "closeCounter"} => counter # "missing"
  /\ run[p].reading # {} => pc[p] = "files"

-------------------------------------------------------------------------------
(* What an offset stands for.                                              *)

\* Offsets only stop where isHead() accepts, with all records before seen.
OffsetInv(m) ==
  \A f \in Files : /\ m[f] = 0 \/ m[f] \in Marks[f]
                   /\ \A r \in Records[f] : r[2] <= m[f] => Seen(f, r[1])

OffsetsInv == OffsetInv(saved) /\ \A p \in Procs : OffsetInv(run[p].map)

-------------------------------------------------------------------------------
(* Who may still push the record at offset o of f.                         *)

\* An execution that loads the state files now would push it.
SavedOpen(f, o) == progress # "whole" \/ counter = "missing" \/ saved[f] <= o

\* The execution pushes it unless it is killed, or has still to load its map.
Owes(p, f, o) ==
  \/ pc[p] = "init"
  \/ pc[p] = "initCounter" /\ (counter = "missing" \/ run[p].map[f] <= o)
  \/ ~Finished(p) /\ pc[p] \in {"create", "truncateCounter", "closeProgress", "closeCounter"}
  \/ /\ pc[p] = "files" \/ (Finished(p) /\ pc[p] \in {"truncateCounter", "closeProgress"})
     /\ run[p].map[f] <= o

Owing(f, o) == {p \in Procs : Owes(p, f, o)}

\* Executions that will replace progress.bin whatever it holds.
Committed == {p \in Procs : pc[p] \in {"create", "files", "truncateCounter", "closeProgress"}}

\* Nobody has loaded anything, and what will be loaded is past the record.
Waived(f, o) ==
  /\ ~SavedOpen(f, o)
  /\ \E p \in Procs : pc[p] # "off"
  /\ \A p \in Procs : pc[p] \in {"off", "init"}

\* Every execution that may still push the record is paid for by a fault,
\* but one; and so is the next one if nobody is at work and the saved offsets
\* are in front of the record.
PushInv(f, o) ==
  /\ pushed[f][o] + Cardinality(Owing(f, o)) <= 1 + faults + (IF Waived(f, o) THEN 1 ELSE 0)
  /\ Committed = {} /\ SavedOpen(f, o) => pushed[f][o] <= faults

PushesInv == \A f \in Files : \A o \in Heads[f] : PushInv(f, o)

IInv ==
  /\ TypeInv
  /\ \A p \in Procs : PhaseInv(p)
  /\ OffsetsInv
  /\ PushesInv

-------------------------------------------------------------------------------
(* The layout of a file.                                                   *)

\* The heads of records are among the cells isHead() accepts.
LEMMA HeadsAreMarks ==
  ASSUME NEW f \in Files
  PROVE  Heads[f] \subseteq Marks[f] /\ Marks[f] \subseteq Nat
<1>1. Len(Content[f]) \in Nat
  BY LogCollectorAssumption, SMTT(20)
<1> QED
  BY <1>1, SMTT(20) DEF Heads, Marks, IsHead

\* End() is the first cell behind o that isHead() accepts.
LEMMA EndIsNext ==
  ASSUME NEW f \in Files, NEW o \in Nat, Ends(f, o) # {}
  PROVE  /\ End(f, o) \in Marks[f] /\ End(f, o) \in Nat /\ o < End(f, o)
         /\ \A d \in Marks[f] : o < d => End(f, o) <= d
<1> DEFINE T == Ends(f, o)
<1>1. Len(Content[f]) \in Nat /\ Window \in Nat
  BY LogCollectorAssumption, SMTT(20)
<1>2. T \subseteq Nat /\ T # {}
  BY <1>1, SMTT(20) DEF Ends
<1>3. PICK i \in T : \A j \in T : ~(<<j, i>> \in OpToRel(<, Nat))
  BY ONLY <1>2, WFMin, NatLessThanWellFounded
<1>4. \A j \in T : ~(j < i)
  BY <1>2, <1>3 DEF OpToRel
<1>5. \A j \in T : i <= j
  BY <1>2, <1>4, SMTT(20)
<1>6. End(f, o) \in T /\ \A j \in T : End(f, o) <= j
  BY <1>5 DEF End
<1>7. End(f, o) \in Marks[f] /\ End(f, o) \in Nat /\ o < End(f, o) /\ End(f, o) < o + Window
  BY <1>1, <1>6, SMTT(20) DEF Ends, Marks
<1>8. ASSUME NEW d \in Marks[f], o < d, d < End(f, o) PROVE FALSE
  <2>1. d \in T /\ d \in Nat
    BY <1>1, <1>7, <1>8, SMTT(20) DEF Ends, Marks
  <2> QED
    BY <1>6, <1>7, <1>8, <2>1, SMTT(20)
<1>9. Marks[f] \subseteq Nat
  BY HeadsAreMarks
<1> QED
  BY <1>7, <1>8, <1>9, SMTT(20)

\* The bytes in front of an offset at which readFile() may stand, up to the
\* end of the piece there, hold one more whole record: that piece, if valid.
LEMMA PieceIsRecord ==
  ASSUME NEW f \in Files, NEW o, o = 0 \/ o \in Marks[f], Ends(f, o) # {},
         NEW r \in Records[f], r[2] <= End(f, o), ~(r[2] <= o)
  PROVE  r[1] = o /\ CheckDataValid(f, o)
<1>1. Len(Content[f]) \in Nat /\ (Content[f] # <<>> => Content[f][1] = "head") /\ Content[f] \in Seq({"head", "like", "body"})
  BY LogCollectorAssumption, SMTT(20)
<1>2. o \in Nat /\ Marks[f] \subseteq Nat /\ Heads[f] \subseteq Marks[f]
  BY HeadsAreMarks, SMTT(20)
<1>3. /\ End(f, o) \in Marks[f] /\ End(f, o) \in Nat /\ o < End(f, o)
      /\ \A d \in Marks[f] : o < d => End(f, o) <= d
  BY <1>2, EndIsNext
<1>4. o \in Marks[f]
  <2> SUFFICES ASSUME o = 0 PROVE 0 \in Marks[f]
    OBVIOUS
  <2>1. Len(Content[f]) > 0
    BY <1>1, <1>3, SMTT(20) DEF Marks
  <2> QED
    BY <1>1, <2>1, SMTT(20) DEF Marks, IsHead
<1>5. /\ r[1] \in Heads[f] /\ r[2] \in Heads[f] /\ r[1] < r[2]
      /\ ~\E d \in Marks[f] : r[1] < d /\ d < r[2]
  BY DEF Records
<1>6. r[2] = End(f, o)
  BY <1>2, <1>3, <1>5, SMTT(20)
<1>7. r[1] = o
  BY <1>2, <1>3, <1>4, <1>5, <1>6, SMTT(20)
<1> QED
  BY <1>5, <1>6, <1>7 DEF CheckDataValid, Heads

-------------------------------------------------------------------------------
(* Types and phases.                                                       *)

\* Updating a field of what a process holds in memory keeps its type.
LEMMA RunUpdates ==
  ASSUME NEW r \in Run
  PROVE  /\ \A m \in [Files -> Nat] : [r EXCEPT !.map = m] \in Run
         /\ \A f \in Files, e \in Nat : [r EXCEPT !.map[f] = e] \in Run
         /\ \A f \in Files : [r EXCEPT !.todo = @ \ {f}, !.reading = {f}] \in Run
         /\ [r EXCEPT !.reading = {}] \in Run
  BY ZenonT(20) DEF Run

\* The types are kept by every step.
LEMMA Types ==
  ASSUME TypeInv, [Next]_vars
  PROVE  TypeInv'
<1> USE DEF TypeInv
<1>1. ASSUME NEW o \in {"sync", "check"} PROVE Fresh(o) \in Run
  BY DEF Fresh, Run, NoProgress
<1>2. ASSUME UNCHANGED vars PROVE TypeInv'
  BY <1>2 DEF vars, state, history
<1>3. ASSUME NEW f \in Files, WriteLogs(f) PROVE TypeInv'
  BY <1>3 DEF WriteLogs, state, history
<1>4. ASSUME Remove PROVE TypeInv'
  BY <1>4, SMTT(20) DEF Remove, Fault, history
<1>5. ASSUME NEW p \in Procs, Kill(p) PROVE TypeInv'
  BY <1>1, <1>5, SMTT(20) DEF Kill, Fault, Exit, state, history, Steps
<1>6. ASSUME NEW p \in Procs, NEW o \in {"sync", "check"}, Start(p, o) PROVE TypeInv'
  <2>1. faults' \in Nat
    BY <1>6, SMTT(20) DEF Start, Fault
  <2> QED
    BY <1>1, <1>6, <2>1 DEF Start, state, history, Steps
<1>7. ASSUME NEW p \in Procs, LoadProgress(p) PROVE TypeInv'
  <2>1. pc' \in [Procs -> Steps]
    BY <1>7 DEF LoadProgress, Exit, Goto, Steps
  <2>2. CASE progress = "whole"
    <3>1. [run[p] EXCEPT !.map = saved] \in Run
      BY RunUpdates
    <3> QED
      BY <1>7, <2>1, <2>2, <3>1 DEF LoadProgress, state, history
  <2>3. CASE progress # "whole"
    <3>1. run' \in [Procs -> Run]
      BY <1>1, <1>7, <2>3 DEF LoadProgress, Exit
    <3> QED
      BY <1>7, <2>1, <3>1 DEF LoadProgress, state, history
  <2> QED
    BY <2>2, <2>3
<1>8. ASSUME NEW p \in Procs, LoadCounter(p) PROVE TypeInv'
  BY <1>1, <1>8 DEF LoadCounter, Exit, Goto, state, history, Steps
<1>9. ASSUME NEW p \in Procs, TruncateProgress(p) PROVE TypeInv'
  BY <1>9 DEF TruncateProgress, Goto, history, Steps
<1>10. ASSUME NEW p \in Procs, TruncateCounter(p) PROVE TypeInv'
  BY <1>10 DEF TruncateCounter, Goto, history, Steps
<1>11. ASSUME NEW p \in Procs, CloseProgress(p) PROVE TypeInv'
  BY <1>11 DEF CloseProgress, Goto, history, Steps, Run
<1>12. ASSUME NEW p \in Procs, CloseCounter(p) PROVE TypeInv'
  BY <1>1, <1>12 DEF CloseCounter, Goto, Exit, history, Steps
<1>13. ASSUME NEW p \in Procs, NEW f \in Files, OpenFile(p, f) PROVE TypeInv'
  <2>1. [run[p] EXCEPT !.todo = @ \ {f}, !.reading = {f}] \in Run
    BY RunUpdates
  <2> QED
    BY <1>13, <2>1 DEF OpenFile, state, history
<1>14. ASSUME NEW p \in Procs, NEW f \in Files, ReadRecord(p, f) PROVE TypeInv'
  <2> DEFINE o == run[p].map[f]
  <2>1. o \in Nat /\ Ends(f, o) # {}
    BY <1>14, SMTT(20) DEF ReadRecord, ReadFails, Run
  <2>2. End(f, o) \in Nat
    BY <2>1, EndIsNext
  <2>3. run' \in [Procs -> Run]
    <3>1. [run[p] EXCEPT !.map[f] = End(f, o)] \in Run
      BY <2>2, RunUpdates
    <3> QED
      BY <1>14, <3>1 DEF ReadRecord
  <2>4. ASSUME CheckDataValid(f, o) PROVE o \in Heads[f]
    BY <2>1, <2>4, SMTT(20) DEF CheckDataValid, Heads, Ends
  <2>5. DOMAIN pushed' = Files /\ \A g \in Files : pushed'[g] \in [Heads[g] -> Nat]
    BY <1>14, <2>4, SMTT(20) DEF ReadRecord
  <2> QED
    BY <1>14, <2>3, <2>5 DEF ReadRecord, state
<1>15. ASSUME NEW p \in Procs, NEW f \in Files, ReadStops(p, f) PROVE TypeInv'
  <2>1. [run[p] EXCEPT !.reading = {}] \in Run
    BY RunUpdates
  <2> QED
    BY <1>15, <2>1 DEF ReadStops, state, history
<1> QED
  BY <1>2, <1>3, <1>4, <1>5, <1>6, <1>7, <1>8, <1>9, <1>10, <1>11, <1>12, <1>13, <1>14, <1>15
     DEF Next, Step

OthersSame(p) == \A q \in Procs \ {p} : pc'[q] = pc[q] /\ run'[q] = run[q]

\* A step of an execution, a start and a kill change nothing in another one.
LEMMA Others ==
  ASSUME TypeInv, NEW p \in Procs,
         Step(p) \/ Kill(p) \/ \E o \in {"sync", "check"} : Start(p, o)
  PROVE  OthersSame(p)
<1> USE DEF TypeInv, OthersSame, Goto, Exit
<1>1. ASSUME LoadProgress(p) PROVE OthersSame(p)
  BY <1>1 DEF LoadProgress
<1>2. ASSUME LoadCounter(p) PROVE OthersSame(p)
  BY <1>2 DEF LoadCounter
<1>3. ASSUME TruncateProgress(p) \/ TruncateCounter(p) \/ CloseProgress(p) PROVE OthersSame(p)
  BY <1>3 DEF TruncateProgress, TruncateCounter, CloseProgress
<1>4. ASSUME CloseCounter(p) PROVE OthersSame(p)
  BY <1>4 DEF CloseCounter
<1>5. ASSUME NEW f \in Files, OpenFile(p, f) \/ ReadRecord(p, f) \/ ReadStops(p, f) PROVE OthersSame(p)
  BY <1>5 DEF OpenFile, ReadRecord, ReadStops
<1>6. ASSUME Kill(p) \/ \E o \in {"sync", "check"} : Start(p, o) PROVE OthersSame(p)
  BY <1>6 DEF Kill, Start
<1> QED
  BY <1>1, <1>2, <1>3, <1>4, <1>5, <1>6 DEF Step

\* What readFile() does to the variables of its execution.
LEMMA ReadEffect ==
  ASSUME TypeInv, NEW p \in Procs, NEW f \in Files,
         OpenFile(p, f) \/ ReadRecord(p, f) \/ ReadStops(p, f)
  PROVE  /\ pc' = pc /\ UNCHANGED state /\ UNCHANGED faults
         /\ run'[p].todo \subseteq run[p].todo /\ run'[p].op = run[p].op
         /\ (OpenFile(p, f) /\ pc[p] = "files") \/ run'[p].reading \subseteq run[p].reading
         /\ \A g \in Files : g # f \/ ~ReadRecord(p, f) => run'[p].map[g] = run[p].map[g]
         /\ ReadRecord(p, f) => run'[p].map[f] = End(f, run[p].map[f])
         /\ ~ReadRecord(p, f) => UNCHANGED history
         /\ ReadRecord(p, f) \/ ReadStops(p, f) => f \in run[p].reading
<1> USE DEF TypeInv, Run
<1>2. CASE ReadRecord(p, f)
  BY <1>2, SMTT(20) DEF ReadRecord
<1>3. CASE ~ReadRecord(p, f) /\ OpenFile(p, f)
  BY <1>3, SMTT(20) DEF OpenFile, ReadStops
<1>4. CASE ~ReadRecord(p, f) /\ ReadStops(p, f)
  BY <1>4, SMTT(20) DEF OpenFile, ReadStops
<1> QED
  BY <1>2, <1>3, <1>4

\* The phases of every execution are kept.
LEMMA Phases ==
  ASSUME TypeInv, TypeInv', \A p \in Procs : PhaseInv(p), [Next]_vars
  PROVE  \A p \in Procs : PhaseInv(p)'
<1> USE DEF PhaseInv, Finished
<1>1. ASSUME UNCHANGED <<pc, run, counter>> PROVE \A p \in Procs : PhaseInv(p)'
  BY <1>1
<1>2. ASSUME Remove PROVE \A p \in Procs : PhaseInv(p)'
  BY <1>2 DEF Remove
<1>3. ASSUME NEW p \in Procs, Step(p) \/ Kill(p) \/ \E o \in {"sync", "check"} : Start(p, o)
      PROVE  \A q \in Procs : PhaseInv(q)'
  <2>1. counter # "missing" => counter' # "missing"
    BY <1>3, ReadEffect DEF Step, Kill, Start, LoadProgress, LoadCounter, TruncateProgress, TruncateCounter,
                CloseProgress, CloseCounter, state
  <2>2. ASSUME NEW q \in Procs, q # p PROVE PhaseInv(q)'
    <3>1. pc'[q] = pc[q] /\ run'[q] = run[q]
      BY <1>3, <2>2, Others DEF OthersSame
    <3> QED
      BY <2>1, <3>1
  <2>3. PhaseInv(p)'
    <3> USE DEF TypeInv, Goto
    <3>1. ASSUME Exit(p) PROVE PhaseInv(p)'
      BY <3>1 DEF Exit, Fresh
    <3>2. CASE LoadProgress(p)
      <4>1. CASE progress = "whole"
        BY <3>2, <4>1, SMTT(20) DEF LoadProgress, state, Run
      <4>2. CASE progress # "whole"
        BY <3>1, <3>2, <4>2 DEF LoadProgress, state
      <4> QED
        BY <4>1, <4>2
    <3>3. CASE LoadCounter(p)
      BY <3>1, <3>3 DEF LoadCounter, state
    <3>4. CASE TruncateProgress(p)
      BY <3>4 DEF TruncateProgress
    <3>5. CASE TruncateCounter(p)
      BY <3>5 DEF TruncateCounter
    <3>6. CASE CloseProgress(p)
      BY <3>6 DEF CloseProgress
    <3>7. CASE CloseCounter(p)
      BY <3>1, <3>7 DEF CloseCounter
    <3>8. ASSUME NEW f \in Files, OpenFile(p, f) \/ ReadRecord(p, f) \/ ReadStops(p, f)
          PROVE  PhaseInv(p)'
      <4>1. pc[p] = "files"
        BY <3>8, ReadEffect, ZenonT(40) DEF OpenFile
      <4>2. pc'[p] = "files"
        BY <3>8, <4>1, ReadEffect
      <4> QED
        BY <4>2
    <3>9. CASE Kill(p)
      BY <3>1, <3>9 DEF Kill
    <3>10. CASE \E o \in {"sync", "check"} : Start(p, o)
      BY <3>10, SMTT(20) DEF Start, Fresh
    <3> QED
      BY <1>3, <3>2, <3>3, <3>4, <3>5, <3>6, <3>7, <3>8, <3>9, <3>10 DEF Step
  <2> QED
    BY <2>2, <2>3
<1> QED
  BY <1>1, <1>2, <1>3 DEF Next, WriteLogs, vars, state

-------------------------------------------------------------------------------
(* Offsets.                                                                *)

\* Seen and OffsetInv after the step, of an offset before it.
SeenThen(f, o) == pushed'[f][o] > 0 \/ <<f, o>> \in checked'

OffsetThen(m) ==
  \A f \in Files : /\ m[f] = 0 \/ m[f] \in Marks[f]
                   /\ \A r \in Records[f] : r[2] <= m[f] => SeenThen(f, r[1])

\* ReadRecord() pushes at most the record at its offset, and if it prints or
\* pushes nothing the piece there is no record.
LEMMA ReadPushes ==
  ASSUME TypeInv, NEW p \in Procs, NEW f \in Files, ReadRecord(p, f)
  PROVE  LET o == run[p].map[f] IN
         /\ \A g \in Files : \A x \in Heads[g] :
              \/ pushed'[g][x] = pushed[g][x]
              \/ pushed'[g][x] = pushed[g][x] + 1 /\ g = f /\ x = o
         /\ CheckDataValid(f, o) /\ o \in Heads[f] => SeenThen(f, o)
         /\ checked \subseteq checked'
<1> DEFINE o == run[p].map[f]
<1> USE DEF TypeInv
<1>1. run[p].op \in {"sync", "check"}
  BY DEF Run
<1>2. CASE CheckDataValid(f, o) /\ run[p].op = "sync"
  BY <1>2, SMTT(20) DEF ReadRecord, SeenThen
<1>3. CASE ~(CheckDataValid(f, o) /\ run[p].op = "sync")
  BY <1>1, <1>3 DEF ReadRecord, SeenThen
<1> QED
  BY <1>2, <1>3

\* What was pushed or printed stays so.
LEMMA SeenStays ==
  ASSUME TypeInv, [Next]_vars, NEW f \in Files, NEW o \in Heads[f]
  PROVE  pushed[f][o] <= pushed'[f][o] /\ (Seen(f, o) => SeenThen(f, o))
<1>1. pushed[f][o] \in Nat
  BY DEF TypeInv
<1>2. CASE UNCHANGED history
  BY <1>1, <1>2, SMTT(20) DEF history, Seen, SeenThen
<1>3. ASSUME NEW p \in Procs, NEW g \in Files, ReadRecord(p, g)
      PROVE  pushed[f][o] <= pushed'[f][o] /\ (Seen(f, o) => SeenThen(f, o))
  <2>1. pushed'[f][o] = pushed[f][o] \/ pushed'[f][o] = pushed[f][o] + 1
    BY <1>3, ReadPushes
  <2>2. checked \subseteq checked'
    BY <1>3, ReadPushes
  <2> QED
    BY <1>1, <2>1, <2>2, SMTT(20) DEF Seen, SeenThen
<1> QED
  BY <1>2, <1>3, ZenonT(40) DEF Next, vars, Step, WriteLogs, Remove, Kill, Start, LoadProgress, LoadCounter, TruncateProgress,
     TruncateCounter, CloseProgress, CloseCounter, OpenFile, ReadStops

\* An offset that does not move stands for what it stood for.
LEMMA OffsetStays ==
  ASSUME TypeInv, [Next]_vars, NEW m, OffsetInv(m)
  PROVE  OffsetThen(m)
<1> SUFFICES ASSUME NEW f \in Files, NEW r \in Records[f], r[2] <= m[f] PROVE SeenThen(f, r[1])
  BY DEF OffsetInv, OffsetThen
<1>1. r[1] \in Heads[f]
  BY DEF Records
<1> QED
  BY <1>1, SeenStays DEF OffsetInv

\* Offsets are kept by every step.
LEMMA Offsets ==
  ASSUME TypeInv, TypeInv', OffsetsInv, [Next]_vars
  PROVE  OffsetsInv'
<1>1. OffsetThen(NoProgress)
  <2> SUFFICES ASSUME NEW f \in Files, NEW r \in Records[f], r[2] <= 0 PROVE FALSE
    BY DEF OffsetThen, NoProgress
  <2>1. r[1] \in Nat /\ r[2] \in Nat /\ r[1] < r[2]
    BY HeadsAreMarks DEF Records
  <2> QED
    BY <2>1, SMTT(20)
<1>2. ASSUME NEW m, OffsetInv(m) PROVE OffsetThen(m)
  BY <1>2, OffsetStays
<1>3. OffsetThen(saved')
  <2>1. CASE saved' = saved
    BY <1>2, <2>1 DEF OffsetsInv
  <2>2. ASSUME NEW p \in Procs, CloseProgress(p) PROVE OffsetThen(saved')
    BY <1>2, <2>2 DEF OffsetsInv, CloseProgress
  <2> QED
    BY <2>1, <2>2, ZenonT(40) DEF Next, vars, state, Step, WriteLogs, Remove, Kill, Start, LoadProgress, LoadCounter,
       TruncateProgress, TruncateCounter, CloseCounter, OpenFile, ReadRecord, ReadStops
<1>4. ASSUME NEW p \in Procs, NEW f \in Files, ReadRecord(p, f) PROVE OffsetThen(run'[p].map)
  <2> DEFINE o == run[p].map[f]
             e == End(f, o)
  <2>1. /\ Ends(f, o) # {} /\ o \in Nat /\ (o = 0 \/ o \in Marks[f]) /\ OffsetInv(run[p].map)
    BY <1>4, SMTT(20) DEF ReadRecord, ReadFails, OffsetsInv, OffsetInv, TypeInv, Run
  <2>2. run'[p].map[f] = e /\ \A g \in Files : g # f => run'[p].map[g] = run[p].map[g]
    BY <1>4, ReadEffect
  <2>3. e \in Marks[f]
    BY <2>1, EndIsNext
  <2>4. OffsetThen(run[p].map)
    BY <1>2, <2>1
  <2>5. ASSUME NEW r \in Records[f], r[2] <= e PROVE SeenThen(f, r[1])
    <3>1. CASE r[2] <= o
      BY <2>4, <3>1 DEF OffsetThen
    <3>2. CASE ~(r[2] <= o)
      <4>1. r[1] = o /\ CheckDataValid(f, o) /\ r[1] \in Heads[f]
        BY <2>1, <2>5, <3>2, PieceIsRecord DEF Records
      <4> QED
        BY <1>4, <4>1, ReadPushes
    <3> QED
      BY <3>1, <3>2
  <2> HIDE DEF e, o
  <2> QED
    BY <2>2, <2>3, <2>4, <2>5 DEF OffsetThen
<1>5. ASSUME NEW p \in Procs PROVE OffsetThen(run'[p].map)
  <2>1. CASE run'[p].map = run[p].map
    BY <1>2, <2>1 DEF OffsetsInv
  <2>2. CASE run'[p].map = NoProgress
    BY <1>1, <2>2
  <2>3. CASE run'[p].map = saved
    BY <1>2, <2>3 DEF OffsetsInv
  <2>4. CASE \E f \in Files : ReadRecord(p, f)
    BY <1>4, <2>4
  <2>5. run'[p].map \in {run[p].map, NoProgress, saved} \/ \E f \in Files : ReadRecord(p, f)
    <3> USE DEF TypeInv
    <3>1. CASE UNCHANGED run
      BY <3>1
    <3>2. ASSUME NEW q \in Procs, q # p, Step(q) \/ Kill(q) \/ \E o \in {"sync", "check"} : Start(q, o)
          PROVE  run'[p] = run[p]
      BY <3>2, Others DEF OthersSame
    <3>3. CASE Exit(p) \/ \E o \in {"sync", "check"} : Start(p, o)
      BY <3>3, SMTT(20) DEF Exit, Start, Fresh
    <3>4. CASE LoadProgress(p)
      BY <3>3, <3>4, SMTT(20) DEF LoadProgress, Run
    <3>5. CASE LoadCounter(p) \/ CloseCounter(p) \/ Kill(p)
      BY <3>1, <3>3, <3>5 DEF LoadCounter, CloseCounter, Kill
    <3>6. CASE TruncateProgress(p) \/ TruncateCounter(p) \/ CloseProgress(p)
      BY <3>1, <3>6 DEF TruncateProgress, TruncateCounter, CloseProgress
    <3>7. ASSUME NEW f \in Files, OpenFile(p, f) \/ ReadStops(p, f) PROVE run'[p].map = run[p].map
      BY <3>7, SMTT(20) DEF OpenFile, ReadStops, Run
    <3>8. CASE Remove \/ UNCHANGED vars \/ \E f \in Files : WriteLogs(f)
      BY <3>1, <3>8 DEF Remove, WriteLogs, vars
    <3> QED
      BY <3>2, <3>3, <3>4, <3>5, <3>6, <3>7, <3>8 DEF Next, Step
  <2> QED
    BY <2>1, <2>2, <2>3, <2>4, <2>5
<1> QED
  BY <1>3, <1>5 DEF OffsetsInv, OffsetInv, OffsetThen, Seen, SeenThen

-------------------------------------------------------------------------------
(* Pushes.                                                                 *)

\* Sizes of sets that differ by one execution.
LEMMA Counting ==
  ASSUME NEW A, NEW B \in SUBSET Procs, NEW p
  PROVE  /\ IsFiniteSet(B) /\ Cardinality(B) \in Nat
         /\ A \subseteq B => Cardinality(A) \in Nat /\ Cardinality(A) <= Cardinality(B)
         /\ A \subseteq B \cup {p} => Cardinality(A) \in Nat /\ Cardinality(A) <= Cardinality(B) + 1
         /\ p \in B => Cardinality(B) >= 1
         /\ p \in B /\ A \subseteq B \ {p} => Cardinality(A) \in Nat /\ Cardinality(A) <= Cardinality(B) - 1
<1>1. IsFiniteSet(B) /\ Cardinality(B) \in Nat
  BY LogCollectorAssumption, FS_Subset, FS_CardinalityType
<1>2. ASSUME A \subseteq B PROVE Cardinality(A) \in Nat /\ Cardinality(A) <= Cardinality(B)
  BY <1>1, <1>2, FS_Subset, FS_CardinalityType
<1>3. ASSUME A \subseteq B \cup {p} PROVE Cardinality(A) \in Nat /\ Cardinality(A) <= Cardinality(B) + 1
  <2>1. IsFiniteSet(B \cup {p}) /\ Cardinality(B \cup {p}) <= Cardinality(B) + 1 /\ Cardinality(B \cup {p}) \in Nat
    BY <1>1, FS_AddElement, FS_CardinalityType, SMTT(20)
  <2>2. Cardinality(A) \in Nat /\ Cardinality(A) <= Cardinality(B \cup {p})
    BY <1>3, <2>1, FS_Subset, FS_CardinalityType
  <2> QED
    BY <1>1, <2>1, <2>2, SMTT(20)
<1>4. ASSUME p \in B PROVE IsFiniteSet(B \ {p}) /\ Cardinality(B \ {p}) \in Nat /\ Cardinality(B \ {p}) = Cardinality(B) - 1
  BY <1>1, <1>4, FS_RemoveElement, FS_CardinalityType
<1>5. ASSUME p \in B PROVE Cardinality(B) >= 1
  BY <1>1, <1>4, <1>5, SMTT(20)
<1>6. ASSUME p \in B, A \subseteq B \ {p} PROVE Cardinality(A) \in Nat /\ Cardinality(A) <= Cardinality(B) - 1
  <2>1. Cardinality(A) \in Nat /\ Cardinality(A) <= Cardinality(B \ {p})
    BY <1>4, <1>6, FS_Subset, FS_CardinalityType
  <2> QED
    BY <1>1, <1>4, <1>6, <2>1
<1> QED
  BY <1>1, <1>2, <1>3, <1>5, <1>6

\* Only the execution that takes the step may come to owe a record.
LEMMA OwingOthers ==
  ASSUME NEW p \in Procs, OthersSame(p), NEW f \in Files, NEW o \in Heads[f],
         counter' = "missing" => counter = "missing"
  PROVE  /\ Owing(f, o)' \subseteq Owing(f, o) \cup {p}
         /\ (Owes(p, f, o)' => Owes(p, f, o)) => Owing(f, o)' \subseteq Owing(f, o)
         /\ ~Owes(p, f, o)' => Owing(f, o)' \subseteq Owing(f, o) \ {p}
<1>1. ASSUME NEW q \in Procs, q # p, Owes(q, f, o)' PROVE Owes(q, f, o)
  <2>1. pc'[q] = pc[q] /\ run'[q] = run[q]
    BY <1>1 DEF OthersSame
  <2> QED
    BY <1>1, <2>1 DEF Owes, Finished
<1> QED
  BY <1>1 DEF Owing

\* A step that nobody comes to owe the record by.
LEMMA NoneMoreOwing ==
  ASSUME TypeInv, TypeInv', NEW f \in Files, NEW o \in Heads[f], PushInv(f, o),
         ~Waived(f, o), Owing(f, o)' \subseteq Owing(f, o),
         pushed'[f][o] = pushed[f][o], faults' = faults,
         Committed' = {} /\ SavedOpen(f, o)' =>
           (Committed = {} /\ SavedOpen(f, o)) \/ \E p \in Procs : Owes(p, f, o)
  PROVE  PushInv(f, o)'
<1> DEFINE c == Cardinality(Owing(f, o))
           d == Cardinality(Owing(f, o)')
           n == pushed[f][o]
<1>1. n \in Nat /\ faults \in Nat
  BY DEF TypeInv
<1>2. Owing(f, o) \in SUBSET Procs
  BY DEF Owing
<1>3. c \in Nat /\ d \in Nat /\ d <= c /\ ((\E p \in Procs : Owes(p, f, o)) => c >= 1)
  BY <1>2, Counting DEF Owing
<1>4. n + c <= 1 + faults /\ (Committed = {} /\ SavedOpen(f, o) => n <= faults)
  BY <1>1, <1>3, SMTT(20) DEF PushInv
<1>5. pushed'[f][o] = n /\ Cardinality(Owing(f, o))' = d
  OBVIOUS
<1> HIDE DEF c, d, n
<1>6. n + d <= 1 + faults /\ n + d <= 1 + faults + 1
  BY <1>1, <1>3, <1>4, SMTT(20)
<1>7. ASSUME Committed' = {}, SavedOpen(f, o)' PROVE n <= faults
  BY <1>1, <1>3, <1>4, <1>7, SMTT(20)
<1> QED
  BY <1>1, <1>3, <1>5, <1>6, <1>7, SMTT(20) DEF PushInv

\* The steps of init() and finalize().
LEMMA StateFilePushes ==
  ASSUME TypeInv, TypeInv', NEW p \in Procs, PhaseInv(p), NEW f \in Files, NEW o \in Heads[f], PushInv(f, o),
         OthersSame(p),
         \/ LoadProgress(p) \/ LoadCounter(p)
         \/ TruncateProgress(p) \/ TruncateCounter(p) \/ CloseProgress(p) \/ CloseCounter(p)
  PROVE  PushInv(f, o)'
<1>1. /\ pc \in [Procs -> Steps] /\ pc' \in [Procs -> Steps] /\ run \in [Procs -> Run]
      /\ run[p].map \in [Files -> Nat] /\ o \in Nat
  BY HeadsAreMarks DEF TypeInv, Run
<1>2. pushed' = pushed /\ faults' = faults /\ (counter' = "missing" => counter = "missing")
  BY DEF LoadProgress, LoadCounter, TruncateProgress, TruncateCounter, CloseProgress, CloseCounter, state, history
<1>3. pc[p] # "off" /\ (pc[p] # "init" => ~Waived(f, o))
  BY DEF LoadProgress, LoadCounter, TruncateProgress, TruncateCounter, CloseProgress, CloseCounter, Waived
<1>4. ASSUME Exit(p) PROVE ~Owes(p, f, o)' /\ Committed' \subseteq Committed
                           /\ (pc[p] \in {"init", "initCounter", "closeCounter"} => Committed' = Committed)
  BY <1>1, <1>4 DEF Exit, Owes, Committed, OthersSame, Steps
<1>5. CASE LoadProgress(p)
  <2>1. Owes(p, f, o) /\ UNCHANGED state /\ pc[p] = "init" /\ run[p].todo = Files /\ ~Finished(p)
    BY <1>5 DEF LoadProgress, Owes, PhaseInv, Finished
  <2>2. CASE SavedOpen(f, o)
    <3>1. ~Waived(f, o)
      BY <2>2 DEF Waived
    <3> QED
      BY <1>2, <2>1, <3>1, OwingOthers, NoneMoreOwing
  <2>3. CASE ~SavedOpen(f, o)
    <3> DEFINE c == Cardinality(Owing(f, o))
               d == Cardinality(Owing(f, o)')
               n == pushed[f][o]
    <3>1. progress = "whole" /\ counter # "missing" /\ ~(saved[f] <= o)
      BY <2>3 DEF SavedOpen
    <3>2. pc'[p] = "initCounter" /\ run'[p].map = saved
      BY <1>1, <1>5, <3>1, SMTT(20) DEF LoadProgress, Goto, Run
    <3>3. ~Owes(p, f, o)' /\ ~SavedOpen(f, o)' /\ p \in Owing(f, o) /\ Owing(f, o) \in SUBSET Procs
      BY <2>1, <3>1, <3>2 DEF Owes, SavedOpen, state, Owing
    <3>4. Owing(f, o)' \subseteq Owing(f, o) \ {p}
      BY <1>2, <3>3, OwingOthers
    <3>5. c \in Nat /\ d \in Nat /\ d <= c - 1 /\ n \in Nat /\ faults \in Nat
      BY <3>3, <3>4, Counting DEF TypeInv
    <3>6. n + c <= 1 + faults + 1
      BY <3>5, SMTT(20) DEF PushInv
    <3>7. pushed'[f][o] = n /\ Cardinality(Owing(f, o))' = d
      BY <1>2
    <3> HIDE DEF c, d, n
    <3>8. n + d <= 1 + faults /\ n + d <= 1 + faults + 1
      BY <3>5, <3>6, SMTT(20)
    <3> QED
      BY <1>2, <3>3, <3>5, <3>7, <3>8, SMTT(20) DEF PushInv
  <2> QED
    BY <2>2, <2>3
<1>6. CASE LoadCounter(p)
  <2>1. /\ UNCHANGED state /\ pc[p] = "initCounter" /\ ~Finished(p) /\ ~Waived(f, o)
    BY <1>3, <1>6 DEF LoadCounter, PhaseInv, Finished
  <2>2. CASE counter = "torn"
    <3>1. Exit(p)
      BY <1>6, <2>2 DEF LoadCounter
    <3>2. ~Owes(p, f, o)' /\ Committed' = Committed /\ SavedOpen(f, o)' = SavedOpen(f, o)
      BY <1>4, <2>1, <3>1 DEF SavedOpen, state
    <3> QED
      BY <1>2, <2>1, <3>2, OwingOthers, NoneMoreOwing
  <2>3. CASE counter # "torn"
    <3>1. pc'[p] \in {"create", "files"} /\ run' = run /\ (pc'[p] = "create" => counter = "missing")
      BY <1>1, <1>6, <2>3 DEF LoadCounter, Goto
    <3>2. Owes(p, f, o)' => Owes(p, f, o)
      BY <2>1, <3>1 DEF Owes, Finished
    <3>3. Committed' # {}
      BY <3>1 DEF Committed
    <3> QED
      BY <1>2, <2>1, <3>2, <3>3, OwingOthers, NoneMoreOwing
  <2> QED
    BY <2>2, <2>3
<1>7. CASE TruncateProgress(p) \/ TruncateCounter(p)
  <2>1. /\ pc'[p] \in {"truncateCounter", "closeProgress"} /\ run' = run /\ ~Waived(f, o)
        /\ pc[p] = "create" \/ (pc[p] = "files" /\ Finished(p)) \/ pc[p] = "truncateCounter"
    BY <1>1, <1>3, <1>7 DEF TruncateProgress, TruncateCounter, Goto
  <2>2. Owes(p, f, o)' => Owes(p, f, o)
    BY <2>1 DEF Owes, Finished, PhaseInv
  <2>3. Committed' # {}
    BY <2>1 DEF Committed
  <2> QED
    BY <1>2, <2>1, <2>2, <2>3, OwingOthers, NoneMoreOwing
<1>8. CASE CloseProgress(p)
  <2>1. /\ pc[p] = "closeProgress" /\ pc'[p] = "closeCounter" /\ run' = run /\ ~Waived(f, o)
        /\ counter' = counter /\ counter # "missing" /\ progress' = "whole" /\ saved' = run[p].map
    BY <1>1, <1>3, <1>8 DEF CloseProgress, Goto, PhaseInv
  <2>2. Owes(p, f, o)' => Owes(p, f, o)
    BY <2>1 DEF Owes, Finished
  <2>3. SavedOpen(f, o)' => Owes(p, f, o)
    BY <2>1 DEF SavedOpen, Owes
  <2> QED
    BY <1>2, <2>1, <2>2, <2>3, OwingOthers, NoneMoreOwing
<1>9. CASE CloseCounter(p)
  <2>1. /\ pc[p] = "closeCounter" /\ ~Waived(f, o) /\ counter # "missing" /\ counter' # "missing"
        /\ progress' = progress /\ saved' = saved
    BY <1>3, <1>9 DEF CloseCounter, PhaseInv
  <2>2. SavedOpen(f, o)' => SavedOpen(f, o)
    BY <2>1 DEF SavedOpen
  <2>3. (Owes(p, f, o)' => Owes(p, f, o)) /\ Committed' = Committed
    <3>1. CASE Finished(p)
      BY <1>4, <1>9, <2>1, <3>1 DEF CloseCounter
    <3>2. CASE ~Finished(p)
      <4>1. pc'[p] = "init" /\ Owes(p, f, o)
        BY <1>1, <1>9, <2>1, <3>2 DEF CloseCounter, Goto, Owes
      <4> QED
        BY <2>1, <4>1 DEF Committed, OthersSame
    <3> QED
      BY <3>1, <3>2
  <2> QED
    BY <1>2, <2>1, <2>2, <2>3, OwingOthers, NoneMoreOwing
<1> QED
  BY <1>5, <1>6, <1>7, <1>8, <1>9

\* The steps of readFile(): the record that is pushed is no longer owed.
LEMMA ReadFilePushes ==
  ASSUME TypeInv, TypeInv', NEW p \in Procs, PhaseInv(p), NEW f \in Files, NEW o \in Heads[f], PushInv(f, o),
         OthersSame(p), NEW g \in Files, OpenFile(p, g) \/ ReadRecord(p, g) \/ ReadStops(p, g)
  PROVE  PushInv(f, o)'
<1>1. /\ pc[p] = "files" /\ pc' = pc /\ UNCHANGED state /\ faults' = faults
      /\ run[p].map[f] \in Nat /\ run[p].map[g] \in Nat /\ o \in Nat
  <2>1. pc[p] = "files"
    BY ReadEffect DEF OpenFile, PhaseInv
  <2>2. run[p].map[f] \in Nat /\ run[p].map[g] \in Nat /\ o \in Nat
    BY HeadsAreMarks, SMTT(20) DEF TypeInv, Run
  <2> QED
    BY <2>1, <2>2, ReadEffect
<1>2. ~Waived(f, o) /\ Committed' # {} /\ counter' = counter
  BY <1>1 DEF Waived, Committed, state
<1>3. CASE ~ReadRecord(p, g) \/ f # g
  <2>1. run'[p].map[f] = run[p].map[f]
    BY <1>3, ReadEffect
  <2>2. pushed'[f][o] = pushed[f][o]
    BY <1>3, ReadEffect, ReadPushes, SMTT(20) DEF history
  <2>3. Owes(p, f, o)' => Owes(p, f, o)
    BY <1>1, <2>1 DEF Owes
  <2> QED
    BY <1>1, <1>2, <2>2, <2>3, OwingOthers, NoneMoreOwing
<1>4. CASE ReadRecord(p, f) /\ f = g
  <2>1. run'[p].map[f] = End(f, run[p].map[f]) /\ End(f, run[p].map[f]) \in Nat /\ run[p].map[f] < End(f, run[p].map[f])
    <3>1. Ends(f, run[p].map[f]) # {}
      BY <1>4 DEF ReadRecord, ReadFails
    <3> QED
      BY <1>1, <1>4, <3>1, ReadEffect, EndIsNext
  <2>2. Owes(p, f, o)' => Owes(p, f, o)
    BY <1>1, <2>1, SMTT(20) DEF Owes
  <2>3. CASE pushed'[f][o] = pushed[f][o]
    BY <1>1, <1>2, <2>2, <2>3, OwingOthers, NoneMoreOwing
  <2>4. CASE pushed'[f][o] = pushed[f][o] + 1 /\ o = run[p].map[f]
    <3> DEFINE c == Cardinality(Owing(f, o))
               d == Cardinality(Owing(f, o)')
               n == pushed[f][o]
    <3>1. Owes(p, f, o) /\ ~Owes(p, f, o)'
      BY <1>1, <2>1, <2>4, SMTT(20) DEF Owes
    <3>2. p \in Owing(f, o) /\ Owing(f, o) \in SUBSET Procs /\ Owing(f, o)' \subseteq Owing(f, o) \ {p}
      BY <1>2, <3>1, OwingOthers DEF Owing
    <3>3. c \in Nat /\ d \in Nat /\ d <= c - 1 /\ n \in Nat /\ faults \in Nat
      BY <3>2, Counting DEF TypeInv
    <3>4. n + c <= 1 + faults
      BY <1>2, <3>3, SMTT(20) DEF PushInv
    <3>5. pushed'[f][o] = n + 1 /\ Cardinality(Owing(f, o))' = d
      BY <2>4
    <3> HIDE DEF c, d, n
    <3>6. n + 1 + d <= 1 + faults /\ n + 1 + d <= 1 + faults + 1
      BY <3>3, <3>4, SMTT(20)
    <3> QED
      BY <1>1, <1>2, <3>3, <3>5, <3>6, SMTT(20) DEF PushInv
  <2> QED
    BY <1>4, <2>3, <2>4, ReadPushes, SMTT(20)
<1> QED
  BY <1>3, <1>4

\* A kill and the removal of a torn file are paid for as faults.
LEMMA FaultPushes ==
  ASSUME TypeInv, TypeInv', NEW f \in Files, NEW o \in Heads[f], PushInv(f, o),
         pushed' = pushed, faults' = faults + 1, Owing(f, o)' \subseteq Owing(f, o)
  PROVE  PushInv(f, o)'
<1> DEFINE c == Cardinality(Owing(f, o))
           d == Cardinality(Owing(f, o)')
           n == pushed[f][o]
<1>1. n \in Nat /\ faults \in Nat /\ Owing(f, o) \in SUBSET Procs
  BY DEF TypeInv, Owing
<1>2. c \in Nat /\ d \in Nat /\ d <= c
  BY <1>1, Counting
<1>3. Waived(f, o) => c >= 1
  <2> SUFFICES ASSUME Waived(f, o) PROVE c >= 1
    OBVIOUS
  <2>1. PICK p \in Procs : pc[p] = "init"
    BY DEF Waived
  <2>2. p \in Owing(f, o)
    BY <2>1 DEF Owing, Owes
  <2> QED
    BY <1>1, <2>2, Counting
<1>4. n + c <= 1 + faults + (IF Waived(f, o) THEN 1 ELSE 0)
  BY DEF PushInv
<1>5. pushed'[f][o] = n /\ Cardinality(Owing(f, o))' = d
  OBVIOUS
<1> HIDE DEF c, d, n
<1>6. n + d <= 1 + faults + 1 /\ n + d <= 1 + faults + 1 + 1 /\ n <= faults + 1
  BY <1>1, <1>2, <1>3, <1>4, SMTT(20)
<1> QED
  BY <1>1, <1>2, <1>5, <1>6, SMTT(20) DEF PushInv

\* A first execution is the one that may push without a fault; one more is
\* started beside it at the price of a fault.
LEMMA StartPushes ==
  ASSUME TypeInv, TypeInv', NEW p \in Procs, NEW f \in Files, NEW o \in Heads[f], PushInv(f, o),
         OthersSame(p), NEW op \in {"sync", "check"}, Start(p, op)
  PROVE  PushInv(f, o)'
<1> DEFINE c == Cardinality(Owing(f, o))
           d == Cardinality(Owing(f, o)')
           n == pushed[f][o]
<1>1. n \in Nat /\ faults \in Nat /\ Owing(f, o) \in SUBSET Procs
  BY DEF TypeInv, Owing
<1>2. /\ pc[p] = "off" /\ pc'[p] = "init" /\ UNCHANGED state /\ pushed' = pushed
      /\ \A q \in Procs : q # p => pc'[q] = pc[q]
  BY DEF Start, TypeInv, history, OthersSame
<1>3. Owing(f, o)' \subseteq Owing(f, o) \cup {p} /\ SavedOpen(f, o)' = SavedOpen(f, o) /\ Committed' = Committed
  BY <1>2, OwingOthers DEF SavedOpen, state, Committed
<1>4. c \in Nat /\ d \in Nat /\ d <= c + 1
  BY <1>1, <1>3, Counting
<1>5. /\ n + c <= 1 + faults + (IF Waived(f, o) THEN 1 ELSE 0)
      /\ (Committed = {} /\ SavedOpen(f, o) => n <= faults)
  BY DEF PushInv
<1>6. pushed'[f][o] = n /\ Cardinality(Owing(f, o))' = d
  BY <1>2
<1>7. CASE \E q \in Procs : pc[q] # "off"
  <2>1. faults' = faults + 1
    BY <1>7 DEF Start, Fault
  <2>2. Waived(f, o) => Waived(f, o)'
    BY <1>2, <1>3 DEF Waived
  <2> HIDE DEF c, d, n
  <2>3. n + d <= 1 + faults + 1 + (IF Waived(f, o) THEN 1 ELSE 0)
    BY <1>1, <1>4, <1>5, SMTT(20)
  <2>4. n + d <= 1 + faults + 1 + (IF Waived(f, o)' THEN 1 ELSE 0)
    BY <1>1, <1>4, <2>2, <2>3, SMTT(20)
  <2>5. Committed' = {} /\ SavedOpen(f, o)' => n <= faults + 1
    BY <1>1, <1>3, <1>5, SMTT(20)
  <2> QED
    BY <1>1, <1>4, <1>6, <2>1, <2>4, <2>5, SMTT(20) DEF PushInv
<1>8. CASE ~\E q \in Procs : pc[q] # "off"
  <2>1. faults' = faults
    BY <1>8 DEF Start
  <2>2. ~Waived(f, o) /\ Committed = {} /\ Owing(f, o) = {}
    BY <1>8 DEF Waived, Committed, Owing, Owes
  <2>3. c = 0
    BY <2>2, FS_EmptySet
  <2>4. ~SavedOpen(f, o) => Waived(f, o)'
    BY <1>2, <1>3, <1>8 DEF Waived
  <2> HIDE DEF c, d, n
  <2>5. n + d <= 1 + faults + (IF Waived(f, o)' THEN 1 ELSE 0)
    BY <1>1, <1>4, <1>5, <2>2, <2>3, <2>4, SMTT(20)
  <2>6. Committed' = {} /\ SavedOpen(f, o)' => n <= faults
    BY <1>3, <1>5
  <2> QED
    BY <1>6, <2>1, <2>5, <2>6 DEF PushInv
<1> QED
  BY <1>7, <1>8

\* Every step keeps the account of pushes.
LEMMA Pushes ==
  ASSUME TypeInv, TypeInv', \A p \in Procs : PhaseInv(p), PushesInv, [Next]_vars
  PROVE  PushesInv'
<1> SUFFICES ASSUME NEW f \in Files, NEW o \in Heads[f] PROVE PushInv(f, o)'
  BY DEF PushesInv
<1>1. PushInv(f, o)
  BY DEF PushesInv
<1>2. CASE UNCHANGED <<state, pc, run, history, faults>>
  BY <1>1, <1>2 DEF PushInv, Owing, Owes, Waived, Committed, SavedOpen, Finished, state, history
<1>3. CASE Remove
  <2>1. Owing(f, o)' = {} /\ pushed' = pushed /\ faults' = faults + 1
    BY <1>3 DEF Remove, Fault, Owing, Owes, history
  <2> QED
    BY <1>1, <2>1, FaultPushes
<1>4. ASSUME NEW p \in Procs, Step(p) \/ Kill(p) \/ \E op \in {"sync", "check"} : Start(p, op)
      PROVE  PushInv(f, o)'
  <2>1. OthersSame(p) /\ PhaseInv(p)
    BY <1>4, Others
  <2>2. CASE Kill(p)
    <3>1. pushed' = pushed /\ faults' = faults + 1 /\ counter' = counter /\ pc'[p] = "off"
      BY <2>2 DEF Kill, Fault, Exit, state, history, TypeInv
    <3>2. ~Owes(p, f, o)'
      BY <3>1 DEF Owes
    <3> QED
      BY <1>1, <2>1, <3>1, <3>2, OwingOthers, FaultPushes
  <2>3. CASE \E op \in {"sync", "check"} : Start(p, op)
    BY <1>1, <2>1, <2>3, StartPushes
  <2>4. CASE \E g \in Files : OpenFile(p, g) \/ ReadRecord(p, g) \/ ReadStops(p, g)
    BY <1>1, <2>1, <2>4, ReadFilePushes
  <2> QED
    BY <1>1, <1>4, <2>1, <2>2, <2>3, <2>4, StateFilePushes DEF Step
<1> QED
  BY <1>2, <1>3, <1>4 DEF Next, WriteLogs, vars

-------------------------------------------------------------------------------
(* The theorems.                                                           *)

\* Nothing was pushed and no file was read.
LEMMA InvInit == Init => IInv
<1> SUFFICES ASSUME Init PROVE IInv
  OBVIOUS
<1> USE DEF Init
<1>1. TypeInv
  BY DEF TypeInv, Run, Fresh, NoProgress, Steps
<1>2. \A p \in Procs : PhaseInv(p)
  BY DEF PhaseInv, Fresh
<1>3. OffsetInv(NoProgress)
  <2> SUFFICES ASSUME NEW f \in Files, NEW r \in Records[f], r[2] <= 0 PROVE FALSE
    BY DEF OffsetInv, NoProgress
  <2>1. r[1] \in Nat /\ r[2] \in Nat /\ r[1] < r[2]
    BY HeadsAreMarks DEF Records
  <2> QED
    BY <2>1, SMTT(20)
<1>4. OffsetsInv
  BY <1>3 DEF OffsetsInv, Fresh
<1>5. ASSUME NEW f \in Files, NEW o \in Heads[f] PROVE PushInv(f, o)
  <2>1. Owing(f, o) = {} /\ pushed[f][o] = 0 /\ ~Waived(f, o)
    BY DEF Owing, Owes, Waived
  <2>2. Cardinality(Owing(f, o)) = 0
    BY <2>1, FS_EmptySet
  <2> QED
    BY <2>1, <2>2, SMTT(20) DEF PushInv
<1> QED
  BY <1>1, <1>2, <1>4, <1>5 DEF IInv, PushesInv

\* Every step of every process, and every crash, keeps the invariant.
LEMMA InvStep == IInv /\ [Next]_vars => IInv'
<1> SUFFICES ASSUME IInv, [Next]_vars PROVE IInv'
  OBVIOUS
<1>1. TypeInv /\ TypeInv' /\ (\A p \in Procs : PhaseInv(p)) /\ OffsetsInv /\ PushesInv
  BY Types DEF IInv
<1> QED
  BY <1>1, Phases, Offsets, Pushes DEF IInv

\* The inductive invariant holds throughout.
THEOREM CollectorInvariant == Spec => []IInv
  BY InvInit, InvStep, PTL DEF Spec

\* Whatever executions overlap or are killed and whatever state files are
\* torn, readFile() and finalize() never leave a whole record behind that is
\* in front of the offset an execution holds or progress.bin stores and was
\* neither pushed nor printed.
THEOREM NoRecordSkipped == Spec => []NothingSkipped
<1>1. IInv => NothingSkipped
  BY DEF IInv, OffsetsInv, OffsetInv, NothingSkipped
<1> QED
  BY <1>1, CollectorInvariant, PTL

\* A record is pushed at most once more than there were kills, overlapping
\* starts and removed state files, however many executions main() ran.
THEOREM PushesBounded == Spec => []PushedOnce
<1>1. ASSUME IInv PROVE PushedOnce
  <2> SUFFICES ASSUME NEW f \in Files, NEW o \in Heads[f] PROVE pushed[f][o] <= 1 + faults
    BY <1>1 DEF PushedOnce, IInv, TypeInv
  <2> DEFINE c == Cardinality(Owing(f, o))
             n == pushed[f][o]
  <2>1. n \in Nat /\ faults \in Nat /\ Owing(f, o) \in SUBSET Procs /\ PushInv(f, o)
    BY <1>1 DEF IInv, TypeInv, Owing, PushesInv
  <2>2. c \in Nat
    BY <2>1, Counting
  <2>3. Waived(f, o) => c >= 1
    <3> SUFFICES ASSUME Waived(f, o) PROVE c >= 1
      OBVIOUS
    <3>1. PICK p \in Procs : pc[p] = "init"
      BY DEF Waived
    <3>2. p \in Owing(f, o)
      BY <3>1 DEF Owing, Owes
    <3> QED
      BY <2>1, <3>2, Counting
  <2>4. n + c <= 1 + faults + (IF Waived(f, o) THEN 1 ELSE 0)
    BY <2>1 DEF PushInv
  <2> HIDE DEF c, n
  <2>5. n <= 1 + faults
    BY <2>1, <2>2, <2>3, <2>4, SMTT(20)
  <2> QED
    BY <2>5 DEF n
<1> QED
  BY <1>1, CollectorInvariant, PTL
==============================================================================
