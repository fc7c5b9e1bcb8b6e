---------------------------- MODULE LogPusherProofs ----------------------------
(***************************************************************************)
(* Proofs about log_pusher.cpp: about LogPusher for any loggers, logs,     *)
(* queue bound and faults, and about LocalLogFile for any number of        *)
(* threads and logs and any length of an hour and a day.                   *)
(***************************************************************************)
EXTENDS LogPusher, LocalLogFile, SequenceTheorems, FiniteSetTheorems, TLAPS

\* Steps are for Zenon unless they name another prover.
USE ZenonT(60)


\* started guards the monitor's parameter, and who holds a log holds a log.
HoldInv ==
  /\ mon # "none" => started
  /\ wpc # "idle" => wlog \in Logs
  /\ mon \in {"send", "sleep"} => param.msg \in Logs

CoreInv == TypeOK /\ HoldInv

\* The number of the next log is new,
LEMMA NextIsNew ==
  ASSUME NEW n \in Nat
  PROVE  ~(n + 1 <= n)
BY SMTT(20)

\* the largest,
LEMMA NextIsLast ==
  ASSUME NEW n \in Nat
  PROVE  n + 1 <= n + 1
BY SMTT(20)

\* and above those before it.
LEMMA NextIsAbove ==
  ASSUME NEW n \in Nat, NEW m \in Nat, m <= n
  PROVE  m <= n + 1
BY SMTT(20)

\* Time that passes stays passed.
LEMMA StillBefore ==
  ASSUME NEW a \in Nat, NEW b \in Nat, NEW c \in Nat, a <= b, b <= c
  PROVE  a <= c
BY SMTT(20)

\* The logs P are each in exactly one of seven places.
InOne(P, A, B, C, D, E, F, G) ==
  /\ P = A \cup B \cup C \cup D \cup E \cup F \cup G
  /\ A \cap (B \cup C \cup D \cup E \cup F \cup G) = {}
  /\ B \cap (C \cup D \cup E \cup F \cup G) = {}
  /\ C \cap (D \cup E \cup F \cup G) = {}
  /\ D \cap (E \cup F \cup G) = {}
  /\ E \cap (F \cup G) = {}
  /\ F \cap G = {}

\* A new log in the first place, or in one of the last two, or one that moves
\* from the third to the fourth or the fifth.
LEMMA NewInFirst ==
  ASSUME NEW P, NEW B, NEW C, NEW D, NEW E, NEW F, NEW G, InOne(P, {}, B, C, D, E, F, G),
         NEW x, x \notin P
  PROVE  InOne(P \cup {x}, {x}, B, C, D, E, F, G)
BY SMTT(20) DEF InOne

LEMMA NewInSixth ==
  ASSUME NEW P, NEW A, NEW B, NEW C, NEW D, NEW E, NEW F, NEW G, InOne(P, A, B, C, D, E, F, G),
         NEW x, x \notin P
  PROVE  InOne(P \cup {x}, A, B, C, D, E, F \cup {x}, G)
BY SMTT(20) DEF InOne

LEMMA NewInLast ==
  ASSUME NEW P, NEW A, NEW B, NEW C, NEW D, NEW E, NEW F, NEW G, InOne(P, A, B, C, D, E, F, G),
         NEW x, x \notin P
  PROVE  InOne(P \cup {x}, A, B, C, D, E, F, G \cup {x})
BY SMTT(20) DEF InOne

LEMMA MovesToFourth ==
  ASSUME NEW P, NEW A, NEW B, NEW C, NEW D, NEW E, NEW F, NEW G, InOne(P, A, B, C, D, E, F, G),
         NEW x \in C
  PROVE  InOne(P, A, B, C \ {x}, D \cup {x}, E, F, G)
BY SMTT(20) DEF InOne

LEMMA MovesToFifth ==
  ASSUME NEW P, NEW A, NEW B, NEW C, NEW D, NEW E, NEW F, NEW G, InOne(P, A, B, C, D, E, F, G),
         NEW x \in C
  PROVE  InOne(P, A, B, C \ {x}, D, E \cup {x}, F, G)
BY SMTT(20) DEF InOne

\* The hour that is read from the shared buffer is that of the thread's own
\* time if the buffer holds it.
LEMMA ReadAlone ==
  ASSUME NEW t, ltime = HourOf(stamp[t]), NEW hour \in Read(t)
  PROVE  hour = TmDay(ltime) + TmHour(ltime)
BY SMTT(20) DEF Read

\* The pusher just initialised: no monitor runs and no log is under way.
LEMMA InitCore == Init => CoreInv
<1> SUFFICES ASSUME Init PROVE CoreInv
  OBVIOUS
<1> USE LogPusherAssumption DEF Init
<1>1. outq \in [Loggers -> Seq(Logs)]
  BY EmptySeq
<1>2. /\ modeLocal \in [Loggers -> BOOLEAN] /\ producer \in [Loggers -> BOOLEAN]
      /\ needRecover \in [Loggers -> BOOLEAN]
  BY SMTT(20)
<1>3. param \in [logger : Loggers, msg : Logs \cup {NoLog}]
  OBVIOUS
<1> QED
  BY <1>1, <1>2, <1>3 DEF CoreInv, TypeOK, HoldInv

\* The mode flags stay Boolean whoever calls setWorkMode().
LEMMA SetWorkModeType ==
  ASSUME TypeOK, NEW l \in Loggers, NEW b \in BOOLEAN, SetWorkMode(l, b)
  PROVE  modeLocal' \in [Loggers -> BOOLEAN] /\ producer' \in [Loggers -> BOOLEAN]
BY DEF TypeOK, SetWorkMode

\* produce() puts a log in its queue.
LEMMA ProduceType ==
  ASSUME TypeOK, NEW l \in Loggers, NEW g \in Logs, Produce(l, g)
  PROVE  outq' \in [Loggers -> Seq(Logs)]
BY SMTT(20) DEF TypeOK, Produce

\* Every step of push(), of the monitor and of the callbacks keeps CoreInv.
LEMMA NextCore == CoreInv /\ [Next]_vars => CoreInv'
<1> SUFFICES ASSUME CoreInv, [Next]_vars PROVE CoreInv'
  OBVIOUS
<1> USE LogPusherAssumption DEF CoreInv, modes, monitor, worker, history
<1>1. ASSUME NEW l \in Loggers, NEW log \in Logs, PushLocal(l, log) \/ PushRemote(l, log)
     PROVE  CoreInv'
  <2> USE <1>1 DEF PushLocal, PushRemote
  <2>1. /\ modeLocal' \in [Loggers -> BOOLEAN] /\ producer' \in [Loggers -> BOOLEAN]
        /\ needRecover' \in [Loggers -> BOOLEAN]
    BY DEF TypeOK
  <2>2. outq' \in [Loggers -> Seq(Logs)]
    BY DEF TypeOK, HoldInv
  <2>3. /\ started' \in BOOLEAN /\ brokerUp' \in BOOLEAN
        /\ param' \in [logger : Loggers, msg : Logs \cup {NoLog}]
        /\ mon' \in {"none", "send", "sleep", "recover", "exit"}
        /\ wpc' \in {"idle", "send", "setlocal", "monitor"}
        /\ wlogger' \in Loggers /\ wlog' \in Logs \cup {NoLog}
    BY DEF TypeOK
  <2>4. \A s \in {pushed', delivered', undelivered', local', lost'} : s \subseteq Logs
    BY SMTT(20) DEF TypeOK, HoldInv
  <2>5. HoldInv'
    BY DEF TypeOK, HoldInv
  <2> QED
    BY <2>1, <2>2, <2>3, <2>4, <2>5 DEF TypeOK
<1>2. CASE PushSendOk
  <2> USE <1>2 DEF PushSendOk
  <2>1. /\ modeLocal' \in [Loggers -> BOOLEAN] /\ producer' \in [Loggers -> BOOLEAN]
        /\ needRecover' \in [Loggers -> BOOLEAN]
    BY DEF TypeOK
  <2>2. outq' \in [Loggers -> Seq(Logs)]
    BY ProduceType DEF TypeOK, HoldInv
  <2>3. /\ started' \in BOOLEAN /\ brokerUp' \in BOOLEAN
        /\ param' \in [logger : Loggers, msg : Logs \cup {NoLog}]
        /\ mon' \in {"none", "send", "sleep", "recover", "exit"}
        /\ wpc' \in {"idle", "send", "setlocal", "monitor"}
        /\ wlogger' \in Loggers /\ wlog' \in Logs \cup {NoLog}
    BY DEF TypeOK
  <2>4. \A s \in {pushed', delivered', undelivered', local', lost'} : s \subseteq Logs
    BY DEF TypeOK, HoldInv
  <2>5. HoldInv'
    BY DEF TypeOK, HoldInv
  <2> QED
    BY <2>1, <2>2, <2>3, <2>4, <2>5 DEF TypeOK
<1>3. CASE PushSendError
  <2> USE <1>3 DEF PushSendError
  <2>1. /\ modeLocal' \in [Loggers -> BOOLEAN] /\ producer' \in [Loggers -> BOOLEAN]
        /\ needRecover' \in [Loggers -> BOOLEAN]
    BY DEF TypeOK
  <2>2. outq' \in [Loggers -> Seq(Logs)]
    BY DEF TypeOK, HoldInv
  <2>3. /\ started' \in BOOLEAN /\ brokerUp' \in BOOLEAN
        /\ param' \in [logger : Loggers, msg : Logs \cup {NoLog}]
        /\ mon' \in {"none", "send", "sleep", "recover", "exit"}
        /\ wpc' \in {"idle", "send", "setlocal", "monitor"}
        /\ wlogger' \in Loggers /\ wlog' \in Logs \cup {NoLog}
    BY DEF TypeOK
  <2>4. \A s \in {pushed', delivered', undelivered', local', lost'} : s \subseteq Logs
    BY DEF TypeOK, HoldInv
  <2>5. HoldInv'
    BY DEF TypeOK, HoldInv
  <2> QED
    BY <2>1, <2>2, <2>3, <2>4, <2>5 DEF TypeOK
<1>4. CASE PushSetLocal
  <2> USE <1>4 DEF PushSetLocal
  <2>1. /\ modeLocal' \in [Loggers -> BOOLEAN] /\ producer' \in [Loggers -> BOOLEAN]
        /\ needRecover' \in [Loggers -> BOOLEAN]
    BY SetWorkModeType DEF TypeOK
  <2>2. outq' \in [Loggers -> Seq(Logs)]
    BY DEF TypeOK, HoldInv
  <2>3. /\ started' \in BOOLEAN /\ brokerUp' \in BOOLEAN
        /\ param' \in [logger : Loggers, msg : Logs \cup {NoLog}]
        /\ mon' \in {"none", "send", "sleep", "recover", "exit"}
        /\ wpc' \in {"idle", "send", "setlocal", "monitor"}
        /\ wlogger' \in Loggers /\ wlog' \in Logs \cup {NoLog}
    BY DEF TypeOK
  <2>4. \A s \in {pushed', delivered', undelivered', local', lost'} : s \subseteq Logs
    BY DEF TypeOK, HoldInv
  <2>5. HoldInv'
    BY DEF TypeOK, HoldInv
  <2> QED
    BY <2>1, <2>2, <2>3, <2>4, <2>5 DEF TypeOK
<1>5. CASE PushMonitorBusy
  <2> USE <1>5 DEF PushMonitorBusy
  <2>1. /\ modeLocal' \in [Loggers -> BOOLEAN] /\ producer' \in [Loggers -> BOOLEAN]
        /\ needRecover' \in [Loggers -> BOOLEAN]
    BY DEF TypeOK
  <2>2. outq' \in [Loggers -> Seq(Logs)]
    BY DEF TypeOK, HoldInv
  <2>3. /\ started' \in BOOLEAN /\ brokerUp' \in BOOLEAN
        /\ param' \in [logger : Loggers, msg : Logs \cup {NoLog}]
        /\ mon' \in {"none", "send", "sleep", "recover", "exit"}
        /\ wpc' \in {"idle", "send", "setlocal", "monitor"}
        /\ wlogger' \in Loggers /\ wlog' \in Logs \cup {NoLog}
    BY DEF TypeOK
  <2>4. \A s \in {pushed', delivered', undelivered', local', lost'} : s \subseteq Logs
    BY DEF TypeOK, HoldInv
  <2>5. HoldInv'
    BY DEF TypeOK, HoldInv
  <2> QED
    BY <2>1, <2>2, <2>3, <2>4, <2>5 DEF TypeOK
<1>6. CASE PushStartMonitor
  <2> USE <1>6 DEF PushStartMonitor
  <2>1. /\ modeLocal' \in [Loggers -> BOOLEAN] /\ producer' \in [Loggers -> BOOLEAN]
        /\ needRecover' \in [Loggers -> BOOLEAN]
    BY DEF TypeOK
  <2>2. outq' \in [Loggers -> Seq(Logs)]
    BY DEF TypeOK, HoldInv
  <2>3. /\ started' \in BOOLEAN /\ brokerUp' \in BOOLEAN
        /\ param' \in [logger : Loggers, msg : Logs \cup {NoLog}]
        /\ mon' \in {"none", "send", "sleep", "recover", "exit"}
        /\ wpc' \in {"idle", "send", "setlocal", "monitor"}
        /\ wlogger' \in Loggers /\ wlog' \in Logs \cup {NoLog}
    BY DEF TypeOK
  <2>4. \A s \in {pushed', delivered', undelivered', local', lost'} : s \subseteq Logs
    BY SMTT(20) DEF TypeOK, HoldInv
  <2>5. HoldInv'
    BY DEF TypeOK, HoldInv
  <2> QED
    BY <2>1, <2>2, <2>3, <2>4, <2>5 DEF TypeOK
<1>7. CASE MonitorSendOk
  <2> USE <1>7 DEF MonitorSendOk
  <2>1. /\ modeLocal' \in [Loggers -> BOOLEAN] /\ producer' \in [Loggers -> BOOLEAN]
        /\ needRecover' \in [Loggers -> BOOLEAN]
    BY DEF TypeOK
  <2>2. outq' \in [Loggers -> Seq(Logs)]
    BY ProduceType DEF TypeOK, HoldInv
  <2>3. /\ started' \in BOOLEAN /\ brokerUp' \in BOOLEAN
        /\ param' \in [logger : Loggers, msg : Logs \cup {NoLog}]
        /\ mon' \in {"none", "send", "sleep", "recover", "exit"}
        /\ wpc' \in {"idle", "send", "setlocal", "monitor"}
        /\ wlogger' \in Loggers /\ wlog' \in Logs \cup {NoLog}
    BY DEF TypeOK
  <2>4. \A s \in {pushed', delivered', undelivered', local', lost'} : s \subseteq Logs
    BY DEF TypeOK, HoldInv
  <2>5. HoldInv'
    BY DEF TypeOK, HoldInv
  <2> QED
    BY <2>1, <2>2, <2>3, <2>4, <2>5 DEF TypeOK
<1>8. CASE MonitorSendError \/ MonitorRetry \/ MonitorExit
  <2> USE <1>8 DEF MonitorSendError, MonitorRetry, MonitorExit
  <2>1. /\ modeLocal' \in [Loggers -> BOOLEAN] /\ producer' \in [Loggers -> BOOLEAN]
        /\ needRecover' \in [Loggers -> BOOLEAN]
    BY DEF TypeOK
  <2>2. outq' \in [Loggers -> Seq(Logs)]
    BY DEF TypeOK, HoldInv
  <2>3. /\ started' \in BOOLEAN /\ brokerUp' \in BOOLEAN
        /\ param' \in [logger : Loggers, msg : Logs \cup {NoLog}]
        /\ mon' \in {"none", "send", "sleep", "recover", "exit"}
        /\ wpc' \in {"idle", "send", "setlocal", "monitor"}
        /\ wlogger' \in Loggers /\ wlog' \in Logs \cup {NoLog}
    BY DEF TypeOK
  <2>4. \A s \in {pushed', delivered', undelivered', local', lost'} : s \subseteq Logs
    BY DEF TypeOK, HoldInv
  <2>5. HoldInv'
    BY DEF TypeOK, HoldInv
  <2> QED
    BY <2>1, <2>2, <2>3, <2>4, <2>5 DEF TypeOK
<1>9. CASE MonitorRecover
  <2> USE <1>9 DEF MonitorRecover
  <2>1. /\ modeLocal' \in [Loggers -> BOOLEAN] /\ producer' \in [Loggers -> BOOLEAN]
        /\ needRecover' \in [Loggers -> BOOLEAN]
    BY SetWorkModeType DEF TypeOK
  <2>2. outq' \in [Loggers -> Seq(Logs)]
    BY DEF TypeOK, HoldInv
  <2>3. /\ started' \in BOOLEAN /\ brokerUp' \in BOOLEAN
        /\ param' \in [logger : Loggers, msg : Logs \cup {NoLog}]
        /\ mon' \in {"none", "send", "sleep", "recover", "exit"}
        /\ wpc' \in {"idle", "send", "setlocal", "monitor"}
        /\ wlogger' \in Loggers /\ wlog' \in Logs \cup {NoLog}
    BY DEF TypeOK
  <2>4. \A s \in {pushed', delivered', undelivered', local', lost'} : s \subseteq Logs
    BY DEF TypeOK, HoldInv
  <2>5. HoldInv'
    BY DEF TypeOK, HoldInv
  <2> QED
    BY <2>1, <2>2, <2>3, <2>4, <2>5 DEF TypeOK
<1>10. CASE MonitorGiveUp
  <2> USE <1>10 DEF MonitorGiveUp
  <2>1. /\ modeLocal' \in [Loggers -> BOOLEAN] /\ producer' \in [Loggers -> BOOLEAN]
        /\ needRecover' \in [Loggers -> BOOLEAN]
    BY DEF TypeOK
  <2>2. outq' \in [Loggers -> Seq(Logs)]
    BY DEF TypeOK, HoldInv
  <2>3. /\ started' \in BOOLEAN /\ brokerUp' \in BOOLEAN
        /\ param' \in [logger : Loggers, msg : Logs \cup {NoLog}]
        /\ mon' \in {"none", "send", "sleep", "recover", "exit"}
        /\ wpc' \in {"idle", "send", "setlocal", "monitor"}
        /\ wlogger' \in Loggers /\ wlog' \in Logs \cup {NoLog}
    BY DEF TypeOK
  <2>4. \A s \in {pushed', delivered', undelivered', local', lost'} : s \subseteq Logs
    BY DEF TypeOK, HoldInv
  <2>5. HoldInv'
    BY DEF TypeOK, HoldInv
  <2> QED
    BY <2>1, <2>2, <2>3, <2>4, <2>5 DEF TypeOK
<1>11. ASSUME NEW l \in Loggers, ReportOk(l) \/ ReportError(l)
     PROVE  CoreInv'
  <2> USE <1>11 DEF ReportOk, ReportError
  <2>0. Head(outq[l]) \in Logs /\ Tail(outq[l]) \in Seq(Logs)
    BY HeadTailProperties DEF TypeOK
  <2>1. /\ modeLocal' \in [Loggers -> BOOLEAN] /\ producer' \in [Loggers -> BOOLEAN]
        /\ needRecover' \in [Loggers -> BOOLEAN]
    BY SetWorkModeType, ZenonT(40) DEF TypeOK
  <2>2. outq' \in [Loggers -> Seq(Logs)]
    <3>1. outq' = [outq EXCEPT ![l] = Tail(outq[l])]
      OBVIOUS
    <3> QED
      BY ONLY <2>0, <3>1, TypeOK DEF TypeOK
  <2>3. /\ started' \in BOOLEAN /\ brokerUp' \in BOOLEAN
        /\ param' \in [logger : Loggers, msg : Logs \cup {NoLog}]
        /\ mon' \in {"none", "send", "sleep", "recover", "exit"}
        /\ wpc' \in {"idle", "send", "setlocal", "monitor"}
        /\ wlogger' \in Loggers /\ wlog' \in Logs \cup {NoLog}
    BY ZenonT(40) DEF TypeOK
  <2>4. \A s \in {pushed', delivered', undelivered', local', lost'} : s \subseteq Logs
    <3>1. CASE ReportOk(l)
      BY <2>0, <3>1, SMTT(20) DEF TypeOK
    <3>2. CASE ReportError(l)
      BY <2>0, <3>2, SMTT(20) DEF TypeOK
    <3> QED
      BY <3>1, <3>2
  <2>5. HoldInv'
    BY DEF TypeOK, HoldInv
  <2> QED
    BY <2>1, <2>2, <2>3, <2>4, <2>5 DEF TypeOK
<1>12. CASE BrokerChange
  <2> USE <1>12 DEF BrokerChange
  <2>1. /\ modeLocal' \in [Loggers -> BOOLEAN] /\ producer' \in [Loggers -> BOOLEAN]
        /\ needRecover' \in [Loggers -> BOOLEAN]
    BY DEF TypeOK
  <2>2. outq' \in [Loggers -> Seq(Logs)]
    BY DEF TypeOK, HoldInv
  <2>3. /\ started' \in BOOLEAN /\ brokerUp' \in BOOLEAN
        /\ param' \in [logger : Loggers, msg : Logs \cup {NoLog}]
        /\ mon' \in {"none", "send", "sleep", "recover", "exit"}
        /\ wpc' \in {"idle", "send", "setlocal", "monitor"}
        /\ wlogger' \in Loggers /\ wlog' \in Logs \cup {NoLog}
    BY DEF TypeOK
  <2>4. \A s \in {pushed', delivered', undelivered', local', lost'} : s \subseteq Logs
    BY DEF TypeOK, HoldInv
  <2>5. HoldInv'
    BY DEF TypeOK, HoldInv
  <2> QED
    BY <2>1, <2>2, <2>3, <2>4, <2>5 DEF TypeOK
<1>13. CASE UNCHANGED vars
  <2> USE <1>13 DEF vars
  <2>1. /\ modeLocal' \in [Loggers -> BOOLEAN] /\ producer' \in [Loggers -> BOOLEAN]
        /\ needRecover' \in [Loggers -> BOOLEAN]
    BY DEF TypeOK
  <2>2. outq' \in [Loggers -> Seq(Logs)]
    BY DEF TypeOK, HoldInv
  <2>3. /\ started' \in BOOLEAN /\ brokerUp' \in BOOLEAN
        /\ param' \in [logger : Loggers, msg : Logs \cup {NoLog}]
        /\ mon' \in {"none", "send", "sleep", "recover", "exit"}
        /\ wpc' \in {"idle", "send", "setlocal", "monitor"}
        /\ wlogger' \in Loggers /\ wlog' \in Logs \cup {NoLog}
    BY DEF TypeOK
  <2>4. \A s \in {pushed', delivered', undelivered', local', lost'} : s \subseteq Logs
    BY DEF TypeOK, HoldInv
  <2>5. HoldInv'
    BY DEF TypeOK, HoldInv
  <2> QED
    BY <2>1, <2>2, <2>3, <2>4, <2>5 DEF TypeOK
<1> QED
  BY <1>1, <1>2, <1>3, <1>4, <1>5, <1>6, <1>7, <1>8, <1>9, <1>10, <1>11, <1>12, <1>13
  DEF Next, PushStep, MonitorStep

\* CoreInv holds in every reachable state of the log pusher.
THEOREM CoreInvariance == Spec => []CoreInv
BY InitCore, NextCore, PTL DEF Spec

\* The fields of the log pusher and the threads' locals keep their types.
THEOREM TypeCorrect == Spec => []TypeOK
BY CoreInvariance, PTL DEF CoreInv

\* The parameter is set only while no monitor thread runs.
LEMMA ParamStep == CoreInv /\ [Next]_vars => [mon # "none" => param' = param]_vars
BY DEF CoreInv, HoldInv, Next, vars, PushStep, MonitorStep, PushLocal, PushRemote, PushSendOk,
   PushSendError, PushSetLocal, PushMonitorBusy, PushStartMonitor, MonitorSendOk,
   MonitorSendError, MonitorRecover, MonitorRetry, MonitorGiveUp, MonitorExit, ReportOk,
   ReportError, BrokerChange, monitor

\* startRemoteMonitor() never overwrites the parameter a monitor thread works
\* with, although all loggers share the one static parameter.
THEOREM MonitorUndisturbed == Spec => MonitorOwnsParam
BY CoreInvariance, ParamStep, PTL DEF Spec, MonitorOwnsParam

-------------------------------------------------------------------------------
(* The elements of a queue without duplicates after push_back() and after  *)
(* pop_front().                                                            *)

Elems(s) == {s[i] : i \in DOMAIN s}

Distinct(s) == \A i, j \in DOMAIN s : s[i] = s[j] => i = j

\* push_back() of a new element.
LEMMA AppendElems ==
  ASSUME NEW S, NEW s \in Seq(S), NEW e \in S, e \notin Elems(s), Distinct(s)
  PROVE  Elems(Append(s, e)) = Elems(s) \cup {e} /\ Distinct(Append(s, e))
<1>1. /\ Append(s, e) \in Seq(S)
      /\ Len(Append(s, e)) = Len(s) + 1
      /\ \A i \in 1 .. Len(s) : Append(s, e)[i] = s[i]
      /\ Append(s, e)[Len(s) + 1] = e
  BY AppendProperties, SMTT(20)
<1>2. DOMAIN s = 1 .. Len(s) /\ DOMAIN Append(s, e) = 1 .. (Len(s) + 1) /\ Len(s) \in Nat
  BY <1>1, SMTT(20)
<1>3. DOMAIN Append(s, e) = DOMAIN s \cup {Len(s) + 1} /\ Len(s) + 1 \notin DOMAIN s
  BY <1>2, SMTT(20)
<1> QED
  BY <1>1, <1>2, <1>3, SMTT(20) DEF Elems, Distinct

\* pop_front().
LEMMA TailElems ==
  ASSUME NEW S, NEW s \in Seq(S), s # <<>>, Distinct(s)
  PROVE  /\ Head(s) \in Elems(s)
         /\ Elems(Tail(s)) = Elems(s) \ {Head(s)}
         /\ Distinct(Tail(s))
<1>1. /\ Len(Tail(s)) = Len(s) - 1
      /\ Tail(s) \in Seq(S)
      /\ \A i \in 1 .. Len(Tail(s)) : Tail(s)[i] = s[i + 1]
  BY HeadTailProperties
<1>2. Head(s) = s[1] /\ Len(s) \in Nat \ {0} /\ DOMAIN s = 1 .. Len(s)
  BY EmptySeq, SMTT(20)
<1>3. DOMAIN Tail(s) = 1 .. (Len(s) - 1)
  BY <1>1, SMTT(20)
<1>4. ASSUME NEW i \in DOMAIN s, i # 1
      PROVE  i - 1 \in DOMAIN Tail(s) /\ Tail(s)[i - 1] = s[i]
  BY <1>1, <1>2, <1>3, <1>4, SMTT(20)
<1>5. ASSUME NEW i \in DOMAIN Tail(s)
      PROVE  i + 1 \in DOMAIN s /\ i + 1 # 1 /\ Tail(s)[i] = s[i + 1]
  BY <1>1, <1>2, <1>3, SMTT(20)
<1>6. Distinct(Tail(s))
  <2> SUFFICES ASSUME NEW i \in DOMAIN Tail(s), NEW j \in DOMAIN Tail(s),
                      Tail(s)[i] = Tail(s)[j]
               PROVE  i = j
    BY DEF Distinct
  <2>1. i + 1 = j + 1
    BY <1>5 DEF Distinct
  <2> QED
    BY <2>1, <1>3, <1>2, SMTT(20)
<1>7. Elems(Tail(s)) \subseteq Elems(s) \ {Head(s)}
  BY <1>2, <1>5, SMTT(20) DEF Elems, Distinct
<1>8. Elems(s) \ {Head(s)} \subseteq Elems(Tail(s))
  BY <1>2, <1>4, SMTT(20) DEF Elems
<1>9. Head(s) \in Elems(s)
  BY <1>2, SMTT(20) DEF Elems
<1> QED
  BY <1>6, <1>7, <1>8, <1>9

-------------------------------------------------------------------------------
(* No log is duplicated.                                                   *)

\* no message is queued twice, in one librdkafka queue or in two
QueuedOnce ==
  /\ \A l \in Loggers : Distinct(outq[l])
  /\ \A k, l \in Loggers : k # l => QueuedIn(k) \cap QueuedIn(l) = {}

\* A log in one place is queued once.
LEMMA PlacesQueuedOnce == LogInOnePlace => QueuedOnce
BY DEF LogInOnePlace, QueuedOnce, Distinct

\* produce() queues one log more.
LEMMA ProduceMoves ==
  ASSUME TypeOK, QueuedOnce, NEW l \in Loggers, NEW g \in Logs, g \notin Queued,
         Produce(l, g)
  PROVE  Queued' = Queued \cup {g} /\ QueuedOnce'
<1>1. outq[l] \in Seq(Logs) /\ \A k \in Loggers : k # l => outq'[k] = outq[k]
  BY DEF TypeOK, Produce
<1>2. outq'[l] = Append(outq[l], g)
  BY DEF TypeOK, Produce
<1>3. g \notin Elems(outq[l]) /\ Distinct(outq[l])
  BY SMTT(20) DEF Elems, Queued, QueuedIn, QueuedOnce
<1>4. Elems(Append(outq[l], g)) = Elems(outq[l]) \cup {g} /\ Distinct(Append(outq[l], g))
  BY <1>1, <1>3, AppendElems
<1>5. QueuedIn(l)' = QueuedIn(l) \cup {g} /\ Distinct(outq[l])'
  BY <1>2, <1>4 DEF Elems, QueuedIn
<1>6. \A k \in Loggers : k # l => QueuedIn(k)' = QueuedIn(k) /\ Distinct(outq'[k])
  BY <1>1 DEF QueuedIn, QueuedOnce
<1>7. \A k \in Loggers : QueuedIn(k) \subseteq Queued
  BY DEF Queued
<1>8. Queued' = Queued \cup {g}
  BY <1>5, <1>6 DEF Queued
<1> QED
  BY <1>5, <1>6, <1>7, <1>8, SMTT(20) DEF QueuedOnce

\* A delivery report takes the oldest message of a queue.
LEMMA ReportMoves ==
  ASSUME TypeOK, QueuedOnce, NEW l \in Loggers, outq[l] # <<>>,
         outq' = [outq EXCEPT ![l] = Tail(@)]
  PROVE  /\ Head(outq[l]) \in Queued
         /\ Queued' = Queued \ {Head(outq[l])}
         /\ QueuedOnce'
<1> DEFINE g == Head(outq[l])
<1>1. outq[l] \in Seq(Logs) /\ \A k \in Loggers : k # l => outq'[k] = outq[k]
  BY DEF TypeOK
<1>2. outq'[l] = Tail(outq[l])
  BY DEF TypeOK
<1>3. g \in Elems(outq[l]) /\ Elems(Tail(outq[l])) = Elems(outq[l]) \ {g}
      /\ Distinct(Tail(outq[l]))
  BY <1>1, TailElems DEF QueuedOnce
<1>4. g \in QueuedIn(l) /\ QueuedIn(l)' = QueuedIn(l) \ {g} /\ Distinct(outq[l])'
  BY <1>2, <1>3 DEF Elems, QueuedIn
<1> HIDE DEF g
<1>5. \A k \in Loggers : k # l => QueuedIn(k)' = QueuedIn(k) /\ Distinct(outq'[k])
  BY <1>1 DEF QueuedIn, QueuedOnce
<1>8. \A k \in Loggers : k # l => g \notin QueuedIn(k)
  BY <1>4 DEF QueuedOnce
<1>6. g \in Queued /\ Queued' = Queued \ {g}
  BY <1>4, <1>5, <1>8 DEF Queued
<1>7. QueuedOnce'
  BY <1>4, <1>5, SMTT(20) DEF QueuedOnce
<1> QED
  BY <1>6, <1>7 DEF g

\* steps that leave the librdkafka queues alone
LEMMA QueuesKept ==
  ASSUME outq' = outq, QueuedOnce
  PROVE  Queued' = Queued /\ QueuedOnce'
BY SMTT(20) DEF Queued, QueuedIn, QueuedOnce, Distinct

\* LogInOnePlace with QueuedOnce for its last two conjuncts
LEMMA PlacesPrimed ==
  ASSUME QueuedOnce',
         pushed' = InHand' \cup WithMonitor' \cup Queued' \cup delivered' \cup undelivered'
                   \cup local' \cup lost',
         InHand' \cap (WithMonitor' \cup Queued' \cup delivered' \cup undelivered'
                       \cup local' \cup lost') = {},
         WithMonitor' \cap (Queued' \cup delivered' \cup undelivered' \cup local' \cup lost') = {},
         Queued' \cap (delivered' \cup undelivered' \cup local' \cup lost') = {},
         delivered' \cap (undelivered' \cup local' \cup lost') = {},
         undelivered' \cap (local' \cup lost') = {},
         local' \cap lost' = {}
  PROVE  LogInOnePlace'
BY DEF LogInOnePlace, QueuedOnce, Distinct

\* The same with InOne.
LEMMA OnePlacePrimed ==
  ASSUME QueuedOnce', InOne(pushed', InHand', WithMonitor', Queued', delivered', undelivered', local', lost')
  PROVE  LogInOnePlace'
BY PlacesPrimed DEF InOne

LEMMA OnePlace ==
  ASSUME LogInOnePlace
  PROVE  InOne(pushed, InHand, WithMonitor, Queued, delivered, undelivered, local, lost)
BY DEF LogInOnePlace, InOne

\* No log was pushed.
LEMMA InitPlaces == Init => LogInOnePlace
<1> SUFFICES ASSUME Init PROVE LogInOnePlace
  OBVIOUS
<1>0. DOMAIN <<>> = {}
  BY SMTT(20)
<1>1. \A l \in Loggers : outq[l] = <<>> /\ DOMAIN outq[l] = {}
  BY <1>0 DEF Init
<1>2. Queued = {} /\ \A l \in Loggers : QueuedIn(l) = {}
  BY <1>1 DEF Queued, QueuedIn
<1> QED
  BY <1>1, <1>2 DEF Init, LogInOnePlace, InHand, WithMonitor

\* A step moves a log from one place to another, never to two.
LEMMA NextPlaces == CoreInv /\ LogInOnePlace /\ [Next]_vars => LogInOnePlace'
<1> SUFFICES ASSUME CoreInv, LogInOnePlace, [Next]_vars PROVE LogInOnePlace'
  OBVIOUS
<1>0. QueuedOnce
  BY PlacesQueuedOnce
<1>z. InOne(pushed, InHand, WithMonitor, Queued, delivered, undelivered, local, lost)
  BY OnePlace
<1> USE DEF CoreInv, modes, monitor, worker, history
<1>1. ASSUME NEW l \in Loggers, NEW log \in Logs, PushLocal(l, log)
     PROVE  LogInOnePlace'
  <2> USE <1>1 DEF PushLocal
  <2>2. Queued' = Queued /\ QueuedOnce'
    BY <1>0, QueuesKept
  <2>3. InHand' = InHand /\ WithMonitor' = WithMonitor
    BY DEF InHand, WithMonitor
  <2>4. CASE log \in Unimportant
    <3>1. /\ pushed' = pushed \cup {log} /\ lost' = lost \cup {log} /\ log \notin pushed
          /\ UNCHANGED <<local, delivered, undelivered>>
      BY <2>4
    <3>2. InOne(pushed \cup {log}, InHand, WithMonitor, Queued, delivered, undelivered, local,
                lost \cup {log})
      <4> HIDE <1>1, <2>4
      <4> QED BY <1>z, <3>1, NewInLast
    <3> QED
      BY <2>2, <2>3, <3>1, <3>2, OnePlacePrimed
  <2>5. CASE log \notin Unimportant
    <3>1. /\ pushed' = pushed \cup {log} /\ local' = local \cup {log} /\ log \notin pushed
          /\ UNCHANGED <<lost, delivered, undelivered>>
      BY <2>5
    <3>2. InOne(pushed \cup {log}, InHand, WithMonitor, Queued, delivered, undelivered,
                local \cup {log}, lost)
      <4> HIDE <1>1, <2>5
      <4> QED BY <1>z, <3>1, NewInSixth
    <3> QED
      BY <2>2, <2>3, <3>1, <3>2, OnePlacePrimed
  <2> QED
    BY <2>4, <2>5
<1>2. ASSUME NEW l \in Loggers, NEW log \in Logs, PushRemote(l, log)
     PROVE  LogInOnePlace'
  <2> USE <1>2 DEF PushRemote
  <2>2. Queued' = Queued /\ QueuedOnce'
    BY <1>0, QueuesKept
  <2>3. InHand = {} /\ InHand' = {log} /\ WithMonitor' = WithMonitor
    BY DEF InHand, WithMonitor
  <2>4. /\ pushed' = pushed \cup {log} /\ log \notin pushed
        /\ UNCHANGED <<local, lost, delivered, undelivered>>
    OBVIOUS
  <2> HIDE <1>2
  <2>5. InOne(pushed, {}, WithMonitor, Queued, delivered, undelivered, local, lost)
    BY <1>z, <2>3
  <2>6. InOne(pushed \cup {log}, {log}, WithMonitor, Queued, delivered, undelivered, local, lost)
    BY <2>4, <2>5, NewInFirst
  <2> QED
    BY <2>2, <2>3, <2>4, <2>6, OnePlacePrimed
<1>3. CASE PushSendOk
  <2> USE <1>3 DEF PushSendOk
  <2>0. InHand = {wlog} /\ wlogger \in Loggers /\ wlog \in Logs
    BY DEF InHand, WithMonitor, HoldInv, TypeOK
  <2>1. wlog \notin Queued
    BY <2>0 DEF LogInOnePlace
  <2>2. Queued' = Queued \cup {wlog} /\ QueuedOnce'
    BY <1>0, <2>0, <2>1, ProduceMoves
  <2>3. InHand = {wlog} /\ InHand' = {} /\ WithMonitor' = WithMonitor
    BY DEF InHand, WithMonitor
  <2> QED
    BY <2>2, <2>3, PlacesPrimed DEF LogInOnePlace
<1>4. CASE PushSendError \/ PushSetLocal
  <2> USE <1>4 DEF PushSendError, PushSetLocal
  <2>2. Queued' = Queued /\ QueuedOnce'
    BY <1>0, QueuesKept
  <2>3. InHand' = InHand /\ WithMonitor' = WithMonitor
    BY DEF InHand, WithMonitor
  <2> QED
    BY <2>2, <2>3, PlacesPrimed DEF LogInOnePlace
<1>5. CASE PushMonitorBusy
  <2> USE <1>5 DEF PushMonitorBusy
  <2>2. Queued' = Queued /\ QueuedOnce'
    BY <1>0, QueuesKept
  <2>3. InHand = {wlog} /\ InHand' = {} /\ WithMonitor' = WithMonitor
    BY DEF InHand, WithMonitor
  <2> QED
    BY <2>2, <2>3, PlacesPrimed DEF LogInOnePlace
<1>6. CASE PushStartMonitor
  <2> USE <1>6 DEF PushStartMonitor
  <2>2. Queued' = Queued /\ QueuedOnce'
    BY <1>0, QueuesKept
  <2>3. InHand = {wlog} /\ InHand' = {} /\ WithMonitor = {}
    BY DEF InHand, WithMonitor, HoldInv
  <2>4. \/ WithMonitor' = {wlog} /\ lost' = lost
        \/ WithMonitor' = {} /\ lost' = lost \cup {wlog}
    BY DEF WithMonitor, HoldInv
  <2> QED
    BY <2>2, <2>3, <2>4, PlacesPrimed DEF LogInOnePlace
<1>7. CASE MonitorSendOk
  <2> USE <1>7 DEF MonitorSendOk
  <2>0. WithMonitor = {param.msg} /\ param.logger \in Loggers /\ param.msg \in Logs
    BY DEF InHand, WithMonitor, HoldInv, TypeOK
  <2>1. param.msg \notin Queued
    BY <2>0 DEF LogInOnePlace
  <2>2. Queued' = Queued \cup {param.msg} /\ QueuedOnce'
    BY <1>0, <2>0, <2>1, ProduceMoves
  <2>3. InHand' = InHand /\ WithMonitor = {param.msg} /\ WithMonitor' = {}
    BY DEF InHand, WithMonitor
  <2> QED
    BY <2>2, <2>3, PlacesPrimed DEF LogInOnePlace
<1>8. CASE MonitorSendError \/ MonitorRecover \/ MonitorRetry \/ MonitorExit
  <2> USE <1>8 DEF MonitorSendError, MonitorRecover, MonitorRetry, MonitorExit
  <2>2. Queued' = Queued /\ QueuedOnce'
    BY <1>0, QueuesKept
  <2>3. InHand' = InHand /\ WithMonitor' = WithMonitor
    BY DEF InHand, WithMonitor
  <2> QED
    BY <2>2, <2>3, PlacesPrimed DEF LogInOnePlace
<1>9. CASE MonitorGiveUp
  <2> USE <1>9 DEF MonitorGiveUp
  <2>2. Queued' = Queued /\ QueuedOnce'
    BY <1>0, QueuesKept
  <2>3. InHand' = InHand /\ WithMonitor = {param.msg} /\ WithMonitor' = {}
    BY DEF InHand, WithMonitor
  <2> QED
    BY <2>2, <2>3, PlacesPrimed DEF LogInOnePlace
<1>10. ASSUME NEW l \in Loggers, ReportOk(l) \/ ReportError(l)
     PROVE  LogInOnePlace'
  <2> USE <1>10 DEF ReportOk, ReportError
  <2>1. Head(outq[l]) \in Queued
    BY <1>0, ReportMoves
  <2>2. Queued' = Queued \ {Head(outq[l])} /\ QueuedOnce'
    BY <1>0, ReportMoves
  <2>3. InHand' = InHand /\ WithMonitor' = WithMonitor
    BY DEF InHand, WithMonitor
  <2> DEFINE msg == Head(outq[l])
  <2>a. msg \in Queued /\ Queued' = Queued \ {msg} /\ QueuedOnce'
    BY <2>1, <2>2
  <2>4. CASE ReportOk(l)
    <3>1. /\ delivered' = delivered \cup {msg} /\ undelivered' = undelivered
          /\ UNCHANGED <<pushed, local, lost>>
      BY <2>4
    <3> HIDE DEF msg
    <3>2. InOne(pushed, InHand, WithMonitor, Queued', delivered', undelivered, local, lost)
      BY <1>z, <2>a, <3>1, MovesToFourth
    <3> QED
      BY <2>a, <2>3, <3>1, <3>2, OnePlacePrimed
  <2>5. CASE ReportError(l)
    <3>1. /\ undelivered' = undelivered \cup {msg} /\ delivered' = delivered
          /\ UNCHANGED <<pushed, local, lost>>
      BY <2>5
    <3> HIDE DEF msg
    <3>2. InOne(pushed, InHand, WithMonitor, Queued', delivered, undelivered', local, lost)
      BY <1>z, <2>a, <3>1, MovesToFifth
    <3> QED
      BY <2>a, <2>3, <3>1, <3>2, OnePlacePrimed
  <2> QED
    BY <2>4, <2>5
<1>11. CASE BrokerChange \/ UNCHANGED vars
  <2> USE <1>11 DEF BrokerChange, vars
  <2>2. Queued' = Queued /\ QueuedOnce'
    BY <1>0, QueuesKept
  <2>3. InHand' = InHand /\ WithMonitor' = WithMonitor
    BY DEF InHand, WithMonitor
  <2> QED
    BY <2>2, <2>3, PlacesPrimed DEF LogInOnePlace
<1> QED
  BY <1>1, <1>2, <1>3, <1>4, <1>5, <1>6, <1>7, <1>8, <1>9, <1>10, <1>11
  DEF Next, PushStep, MonitorStep

\* push(), the monitor's probe and the delivery reports never duplicate a log
\* and forget none without recording it, in any interleaving of their threads.
THEOREM NoLogDuplicated == Spec => []LogInOnePlace
BY CoreInvariance, InitPlaces, NextPlaces, PTL DEF Spec

-------------------------------------------------------------------------------
(* The local files: the inductive invariant.                               *)

\* Between the decision to open a file and the file being open.
Rotating(t) == pc[t] \in {"mkdir", "localtime", "dirname", "open", "setlast"}

InFile(t) == {r \in content[t] : r.file = name[t]}

\* The thread's file: while it is replaced the old one is closed and nothing
\* is counted, and one its own thread closed stays expired until then.  Only a
\* failed rotation leaves a closed one behind, or puts a file out of the hands
\* of its thread.
FileInv(t) ==
  /\ pc[t] \in {"setlast", "write"} /\ ~harmed[t] => fp[t] = "open"
  /\ Rotating(t) /\ pc[t] # "setlast" => fp[t] # "open"
  /\ Rotating(t) \/ fp[t] = "null" => logCnt[t] = 0
  /\ pc[t] = "setlast" => InFile(t) = {}
  /\ fp[t] = "closed" /\ ~harmed[t] => Expired(t, clock)
  /\ ~failed => ~harmed[t] /\ (pc[t] = "idle" => fp[t] # "closed")

\* What is in the file is numbered from 1 to logCnt.
CountInv(t) ==
  /\ IsFiniteSet(content[t])
  /\ fp[t] = "open" /\ ~harmed[t] => /\ logCnt[t] = Cardinality(InFile(t))
                                     /\ \A r \in InFile(t) : r.nr <= logCnt[t]

\* The times a thread saw are in order, and what it took from the buffer is
\* the hour it put there.
TimeInv(t) ==
  /\ Rotating(t) => cur[t] <= clock
  /\ pc[t] \in {"localtime", "dirname", "open", "setlast"} => cur[t] <= stamp[t] /\ stamp[t] <= clock
  /\ UsesBuffer(t) => ltime = HourOf(stamp[t])
  /\ pc[t] \in {"open", "setlast"} => dir[t] = ltime
  /\ pc[t] = "setlast" => name[t].hour = dir[t]

\* No file is of a later hour than lastTime, and none of as late an hour as
\* the file that is about to be opened.
HourInv(t) ==
  /\ \A r, s \in content[t] : r.file.hour = s.file.hour => r.file = s.file
  /\ fp[t] = "null" => content[t] = {}
  /\ fp[t] # "null" => \A r \in content[t] : r.file.hour * HourLen <= lastTime[t]
  /\ fp[t] = "open" /\ pc[t] \notin {"setlast", "dead"} =>
       /\ name[t].hour * HourLen <= lastTime[t]
       /\ \A r \in content[t] : r.file.hour = name[t].hour => r.file = name[t]
  /\ Rotating(t) => \A r \in content[t] : r.file.hour < HourOf(cur[t])

ThreadInv(t) == FileInv(t) /\ CountInv(t) /\ (~raced[t] => TimeInv(t) /\ HourInv(t))

IInv == FileTypeOK /\ \A t \in Threads : ThreadInv(t)

-------------------------------------------------------------------------------
(* Hours and days.                                                         *)

\* The remainder of a division is smaller than the divisor.
LEMMA DivMod ==
  ASSUME NEW x \in Nat, NEW d \in Nat \ {0}
  PROVE  /\ x \div d \in Nat /\ x % d \in Nat
         /\ x = d * (x \div d) + (x % d) /\ x % d < d
BY SMTT(20)

\* A quotient is the largest number of divisors that fit.
LEMMA DivBound ==
  ASSUME NEW x \in Nat, NEW d \in Nat \ {0}, NEW q \in Nat, d * q <= x
  PROVE  q <= x \div d
<1> DEFINE k == x \div d
<1>1. k \in Nat /\ x < d * k + d
  BY DivMod, SMTT(20)
<1>2. CASE k < q
  <2>1. PICK e \in Nat : q = k + 1 + e
    <3>1. q - (k + 1) \in Nat /\ q = k + 1 + (q - (k + 1))
      BY <1>1, <1>2, SMTT(20)
    <3> QED
      BY <3>1
  <2>2. d * q = d * k + d + d * e /\ d * e \in Nat
    BY <2>1, <1>1, SMTT(20)
  <2> QED
    BY <2>2, <1>1, SMTT(20)
<1> QED
  BY <1>1, <1>2, SMTT(20)

\* HourOf() does not decrease.
LEMMA HourMonotone ==
  ASSUME NEW x \in Nat, NEW y \in Nat, x <= y
  PROVE  HourOf(x) \in Nat /\ HourOf(y) \in Nat /\ HourOf(x) <= HourOf(y)
<1>1. HourLen \in Nat \ {0}
  BY LocalLogAssumption
<1>2. HourLen * HourOf(x) <= x /\ HourOf(x) \in Nat /\ HourOf(y) \in Nat
  BY <1>1, DivMod, SMTT(20) DEF HourOf
<1> QED
  BY <1>1, <1>2, DivBound, SMTT(20) DEF HourOf

\* A day is a positive number of whole hours.
LEMMA DayIsHours ==
  HoursPerDay \in Nat \ {0} /\ DayLen = HourLen * HoursPerDay /\ DayLen - HourLen \in Nat
<1>1. HourLen \in Nat \ {0} /\ DayLen \in Nat \ {0} /\ DayLen % HourLen = 0
  BY LocalLogAssumption
<1>2. HoursPerDay \in Nat /\ DayLen = HourLen * HoursPerDay
  BY <1>1, DivMod, SMTT(20) DEF HoursPerDay
<1>3. HoursPerDay # 0
  BY <1>1, <1>2, SMTT(20)
<1>4. HourLen * HoursPerDay = HourLen + HourLen * (HoursPerDay - 1)
      /\ HourLen * (HoursPerDay - 1) \in Nat
  BY <1>1, <1>2, <1>3, SMTT(20)
<1> QED
  BY <1>1, <1>2, <1>3, <1>4, SMTT(20)

\* The day and the hour of a number of hours put together.
LEMMA TmTogether ==
  ASSUME NEW h \in Nat
  PROVE  TmDay(h) \in Nat /\ TmHour(h) \in Nat /\ TmDay(h) + TmHour(h) = h
  BY DayIsHours, DivMod, SMTT(20) DEF TmDay, TmHour

\* What is read of the buffer and what is made of it are times.
LEMMA ReadType ==
  ASSUME NEW d \in Nat, NEW h \in Nat, NEW x \in Nat
  PROVE  TmDay(d) + TmHour(h) \in Nat /\ StartOfDay(x) + TmHour(h) * HourLen \in Nat
<1>1. TmDay(d) \in Nat /\ TmHour(h) \in Nat /\ x \div DayLen \in Nat
  BY LocalLogAssumption, TmTogether, DivMod
<1>2. HourLen \in Nat /\ DayLen \in Nat
  BY LocalLogAssumption
<1> QED
  BY <1>1, <1>2, SMTT(20) DEF StartOfDay

\* lastTime is not before the hour in the buffer, though the day is that of
\* a later reading of the clock.
LEMMA LastTimeBound ==
  ASSUME NEW x \in Nat, NEW y \in Nat, x <= y
  PROVE  /\ StartOfDay(y) + TmHour(HourOf(x)) * HourLen \in Nat
         /\ HourOf(x) * HourLen <= StartOfDay(y) + TmHour(HourOf(x)) * HourLen
<1> DEFINE h == HourOf(x)
           k == h \div HoursPerDay
           m == TmHour(h)
<1>1. /\ HourLen \in Nat \ {0} /\ DayLen \in Nat \ {0} /\ HoursPerDay \in Nat \ {0}
      /\ DayLen = HourLen * HoursPerDay
  BY LocalLogAssumption, DayIsHours
<1>2. h \in Nat /\ HourLen * h <= x
  BY <1>1, DivMod, SMTT(20) DEF HourOf
<1>3. k \in Nat /\ m \in Nat /\ h = HoursPerDay * k + m
  BY <1>1, <1>2, DivMod DEF TmHour
<1> HIDE DEF h, k, m
<1>4. HourLen * h = DayLen * k + m * HourLen /\ DayLen * k \in Nat /\ m * HourLen \in Nat
  BY <1>1, <1>3, SMTT(20)
<1>5. DayLen * k <= y
  BY <1>2, <1>4, <1>1, SMTT(20)
<1>6. k <= y \div DayLen /\ y \div DayLen \in Nat
  BY <1>5, <1>1, <1>3, DivBound, DivMod
<1>7. DayLen * k <= StartOfDay(y) /\ StartOfDay(y) \in Nat
  BY <1>1, <1>3, <1>6, SMTT(20) DEF StartOfDay
<1>8. HourLen * h <= StartOfDay(y) + m * HourLen /\ StartOfDay(y) + m * HourLen \in Nat
  BY <1>4, <1>7, <1>2, <1>1, SMTT(20)
<1> QED
  BY <1>8, <1>1, <1>2, SMTT(20) DEF h, m

\* An hour after the one that began at or before lastTime is over.
LEMMA LaterHour ==
  ASSUME NEW h \in Nat, NEW last \in Nat, NEW now \in Nat,
         h * HourLen <= last, last + HourLen < now
  PROVE  h < HourOf(now)
<1>1. HourLen \in Nat \ {0}
  BY LocalLogAssumption
<1>2. HourLen * (h + 1) <= now
  BY <1>1, SMTT(20)
<1>3. h + 1 <= HourOf(now) /\ HourOf(now) \in Nat
  BY <1>1, <1>2, DivBound, DivMod, SMTT(20) DEF HourOf
<1> QED
  BY <1>3, SMTT(20)

-------------------------------------------------------------------------------
(* Types.                                                                  *)

\* No thread has opened a file.
LEMMA InitType == FileInit => FileTypeOK
<1>1. MaxLogs \in 0 .. MaxLogs /\ 0 \in Nat
  BY LocalLogAssumption, SMTT(20)
<1>2. DayLen - HourLen \in Nat
  BY DayIsHours
<1>3. NoName \in [hour : Nat, created : Nat]
  BY <1>1, SMTT(20) DEF NoName
<1> SUFFICES ASSUME FileInit PROVE FileTypeOK
  OBVIOUS
<1>4. /\ clock \in Nat /\ name \in [Threads -> [hour : Nat, created : Nat]]
      /\ todo \in [Threads -> 0 .. MaxLogs]
  BY <1>1, <1>2, <1>3 DEF FileInit
<1>5. /\ lastTime \in [Threads -> Nat] /\ logCnt \in [Threads -> Nat] /\ ltime \in Nat
      /\ cur \in [Threads -> Nat] /\ stamp \in [Threads -> Nat] /\ dir \in [Threads -> Nat]
  BY <1>1 DEF FileInit
<1>6. /\ fp \in [Threads -> {"null", "open", "closed"}]
      /\ pc \in [Threads -> {"idle", "mkdir", "localtime", "dirname", "open", "setlast", "write", "dead"}]
      /\ raced \in [Threads -> BOOLEAN] /\ failed \in BOOLEAN /\ harmed \in [Threads -> BOOLEAN]
      /\ content \in [Threads -> SUBSET LogRecord]
  BY DEF FileInit
<1> QED
  BY <1>4, <1>5, <1>6 DEF FileTypeOK

\* Every step keeps the types.
LEMMA TypeStep == ASSUME FileTypeOK, [FileNext]_fileVars PROVE FileTypeOK'
<1> USE DEF FileTypeOK
<1>1. ASSUME UNCHANGED fileVars PROVE FileTypeOK'
  BY <1>1 DEF fileVars, data
<1>2. ASSUME Tick PROVE FileTypeOK'
  BY <1>2, SMTT(20) DEF Tick, data
<1>3. ASSUME NEW t \in Threads, Task(t) PROVE FileTypeOK'
  <2>1. ASSUME Begin(t) PROVE todo' \in [Threads -> 0 .. MaxLogs] /\ cur' \in [Threads -> Nat]
    BY <2>1, LocalLogAssumption, SMTT(20) DEF Begin
  <2>2. ASSUME Return(t)
        PROVE  /\ pc' \in [Threads -> {"idle", "mkdir", "localtime", "dirname", "open", "setlast", "write", "dead"}]
               /\ cur' \in [Threads -> Nat] /\ stamp' \in [Threads -> Nat] /\ dir' \in [Threads -> Nat]
    BY <2>2 DEF Return
  <2>3. CASE BeginSameFile(t)
    BY <2>1, <2>3 DEF BeginSameFile, data
  <2>4. CASE BeginNoFile(t)
    BY <2>1, <2>4 DEF BeginNoFile, data
  <2>5. CASE BeginExpired(t)
    BY <2>1, <2>5 DEF BeginExpired, data
  <2>12. CASE CloseAgain(t)
    <3>1. fp' \in [Threads -> {"null", "open", "closed"}] /\ harmed' \in [Threads -> BOOLEAN]
      BY <2>12 DEF CloseAgain
    <3> QED
      BY <2>1, <2>12, <3>1 DEF CloseAgain
  <2>13. CASE Abort(t)
    BY <2>13 DEF Abort, data
  <2>14. ASSUME GivesUp(t) PROVE Return(t) /\ failed' \in BOOLEAN
    BY <2>14 DEF GivesUp
  <2>6. CASE MakeFolder(t)
    <3>1. CASE GivesUp(t)
      BY <2>2, <2>14, <2>6, <3>1 DEF MakeFolder, data
    <3>2. CASE ~GivesUp(t)
      <4>1. /\ pc' = [pc EXCEPT ![t] = "localtime"] /\ stamp' = [stamp EXCEPT ![t] = clock]
            /\ UNCHANGED <<cur, dir, clock, data, ltime, todo, content, raced, failed, harmed>>
        BY <2>6, <3>2 DEF MakeFolder
      <4> QED
        BY <4>1 DEF data
    <3> QED
      BY <3>1, <3>2
  <2>7. CASE LocalTime(t)
    <3>1. HourOf(stamp[t]) \in Nat
      BY HourMonotone, SMTT(20)
    <3> QED
      BY <2>7, <3>1 DEF LocalTime, data
  <2>8. CASE DirName(t)
    <3>1. HourOf(stamp[t]) \in Nat
      BY HourMonotone, SMTT(20)
    <3>2. \A d, h \in {HourOf(stamp[t]), ltime} : TmDay(d) + TmHour(h) \in Nat
      BY <3>1, ReadType
    <3>3. \A hour \in Read(t) : hour \in Nat
      BY <3>2, SMTT(20) DEF Read
    <3> QED
      BY <2>8, <3>3 DEF DirName, data
  <2>9. CASE OpenFile(t)
    <3>1. content' \in [Threads -> SUBSET LogRecord]
      BY <2>9, SMTT(20) DEF OpenFile
    <3>2. name' \in [Threads -> [hour : Nat, created : Nat]]
      BY <2>9, SMTT(20) DEF OpenFile
    <3>3. fp' \in [Threads -> {"null", "open", "closed"}] /\ harmed' \in [Threads -> BOOLEAN]
      BY <2>9 DEF OpenFile
    <3> QED
      BY <2>2, <2>14, <2>9, <3>1, <3>2, <3>3 DEF OpenFile
  <2>10. CASE SetLastTime(t)
    <3>1. StartOfDay(clock) + TmHour(ltime) * HourLen \in Nat
      BY ReadType
    <3> QED
      BY <2>10, <3>1 DEF SetLastTime
  <2>11. CASE WriteLog(t)
    <3>1. [file |-> name[t], time |-> cur[t], nr |-> logCnt[t] + 1] \in LogRecord
      BY SMTT(20) DEF LogRecord
    <3>2. content' \in [Threads -> SUBSET LogRecord]
      BY <2>11, <3>1 DEF WriteLog
    <3> QED
      BY <2>2, <2>11, <3>2, SMTT(20) DEF WriteLog
  <2>15. CASE WriteClosed(t)
    <3>1. harmed' \in [Threads -> BOOLEAN]
      BY <2>15 DEF WriteClosed
    <3>2. logCnt' \in [Threads -> Nat]
      BY <2>15, SMTT(20) DEF WriteClosed
    <3> QED
      BY <2>2, <2>15, <3>1, <3>2 DEF WriteClosed
  <2> QED
    BY <1>3, <2>3, <2>4, <2>5, <2>6, <2>7, <2>8, <2>9, <2>10, <2>11, <2>12, <2>13, <2>15 DEF Task
<1> QED
  BY <1>1, <1>2, <1>3 DEF FileNext

-------------------------------------------------------------------------------
(* Steps of the clock and of other threads.                                *)

\* Nothing of thread t changes.
Frame(t) ==
  /\ fp'[t] = fp[t] /\ name'[t] = name[t] /\ lastTime'[t] = lastTime[t] /\ logCnt'[t] = logCnt[t]
  /\ pc'[t] = pc[t] /\ cur'[t] = cur[t] /\ stamp'[t] = stamp[t] /\ dir'[t] = dir[t]
  /\ content'[t] = content[t] /\ harmed'[t] = harmed[t]

\* Time may pass, and another thread may write into the buffer.
LEMMA FrameKeeps ==
  ASSUME FileTypeOK, NEW t \in Threads, ThreadInv(t), Frame(t),
         clock' \in Nat, clock <= clock', raced[t] => raced'[t],
         ltime' # ltime /\ UsesBuffer(t) => raced'[t], failed => failed'
  PROVE  ThreadInv(t)'
<1>1. FileInv(t)'
  <2>1. Expired(t, clock) => Expired(t, clock)'
    BY LocalLogAssumption, SMTT(20) DEF Expired, FileTypeOK, Frame
  <2> QED
    BY <2>1 DEF ThreadInv, FileInv, Frame, Rotating, InFile
<1>2. CountInv(t)'
  BY DEF ThreadInv, CountInv, Frame, InFile
<1>3. ASSUME ~raced'[t] PROVE TimeInv(t)'
  <2>1. TimeInv(t) /\ (UsesBuffer(t) => ltime' = ltime)
    BY <1>3 DEF ThreadInv
  <2>2. cur[t] \in Nat /\ stamp[t] \in Nat /\ clock \in Nat
    BY DEF FileTypeOK
  <2>3. (cur[t] <= clock => cur[t] <= clock') /\ (stamp[t] <= clock => stamp[t] <= clock')
    BY <2>2, StillBefore
  <2> QED
    BY <2>1, <2>3 DEF TimeInv, Frame, Rotating, UsesBuffer
<1>4. ASSUME ~raced'[t] PROVE HourInv(t)'
  BY <1>4 DEF ThreadInv, HourInv, Frame, Rotating
<1> QED
  BY <1>1, <1>2, <1>3, <1>4 DEF ThreadInv

\* The process ends.
LEMMA DeadKeeps ==
  ASSUME FileTypeOK, NEW t \in Threads, NEW u \in Threads, ThreadInv(t), Abort(u)
  PROVE  ThreadInv(t)'
<1>1. pc'[t] = "dead"
      /\ UNCHANGED <<clock, fp, name, lastTime, logCnt, ltime, cur, stamp, dir, content, raced, failed, harmed>>
  BY DEF Abort, data, FileTypeOK
<1>2. FileInv(t)' /\ CountInv(t)'
  BY <1>1 DEF ThreadInv, FileInv, CountInv, Rotating, InFile, Expired
<1>3. ASSUME ~raced[t] PROVE TimeInv(t)' /\ HourInv(t)'
  BY <1>1, <1>3 DEF ThreadInv, TimeInv, HourInv, Rotating, UsesBuffer
<1> QED
  BY <1>1, <1>2, <1>3 DEF ThreadInv

\* The open FILE of thread t is closed, or its file written, by another one.
Hit(t) ==
  /\ fp[t] = "open" /\ fp'[t] \in {"open", "closed"} /\ harmed'[t] /\ failed'
  /\ name'[t] = name[t] /\ lastTime'[t] = lastTime[t] /\ logCnt'[t] = logCnt[t]
  /\ pc'[t] = pc[t] /\ cur'[t] = cur[t] /\ stamp'[t] = stamp[t] /\ dir'[t] = dir[t]
  /\ content'[t] = content[t] /\ raced'[t] = raced[t] /\ clock' = clock /\ ltime' = ltime

\* What is promised of a thread that is not harmed is not needed of it any more.
LEMMA HitKeeps ==
  ASSUME NEW t \in Threads, ThreadInv(t), Hit(t)
  PROVE  ThreadInv(t)'
<1>1. FileInv(t)' /\ CountInv(t)'
  BY DEF ThreadInv, FileInv, CountInv, Hit, Rotating, InFile
<1>2. ASSUME ~raced[t] PROVE TimeInv(t)' /\ HourInv(t)'
  BY <1>2 DEF ThreadInv, TimeInv, HourInv, Hit, Rotating, UsesBuffer
<1> QED
  BY <1>1, <1>2 DEF ThreadInv, Hit

\* A FILE* is closed again, or a closed one written, only after a failed rotation.
LEMMA ClosedIsFailed ==
  ASSUME FileTypeOK, NEW t \in Threads, ThreadInv(t), UsesClosed(t)
  PROVE  failed /\ (pc[t] = "write" => harmed[t])
  BY DEF ThreadInv, FileInv, UsesClosed, FileTypeOK

\* A task of one thread disturbs another's data only through the buffer of
\* localtime(), and then that thread has raced, or through a stale FILE*, and
\* then that thread is harmed.
LEMMA OthersKeep ==
  ASSUME IInv, NEW t \in Threads, Task(t), NEW u \in Threads, u # t
  PROVE  ThreadInv(u)'
<1> DEFINE Others == /\ Frame(u) /\ clock' = clock
                     /\ raced[u] => raced'[u]
                     /\ ltime' # ltime /\ UsesBuffer(u) => raced'[u]
                     /\ failed => failed'
<1> USE DEF FileTypeOK, IInv
<1>1. ASSUME BeginSameFile(t) PROVE Others
  BY <1>1 DEF BeginSameFile, Begin, data, Frame
<1>2. ASSUME BeginNoFile(t) PROVE Others
  BY <1>2 DEF BeginNoFile, Begin, data, Frame
<1>3. ASSUME BeginExpired(t) PROVE Others
  BY <1>3 DEF BeginExpired, Begin, Frame
<1>4. ASSUME MakeFolder(t) PROVE Others
  BY <1>4 DEF MakeFolder, GivesUp, Return, data, Frame
<1>5. ASSUME LocalTime(t) PROVE Others
  <2>1. raced'[u] = (raced[u] \/ (UsesBuffer(u) /\ ltime # HourOf(stamp[t]))) /\ ltime' = HourOf(stamp[t])
    BY <1>5 DEF LocalTime
  <2>2. Frame(u) /\ clock' = clock /\ failed' = failed
    BY <1>5 DEF LocalTime, data, Frame
  <2> QED
    BY <2>1, <2>2
<1>6. ASSUME DirName(t) PROVE Others
  BY <1>6 DEF DirName, data, Frame
<1>7. ASSUME OpenFile(t) PROVE Others
  <2>1. content'[u] = content[u] /\ name'[u] = name[u]
    BY <1>7 DEF OpenFile
  <2>2. pc'[u] = pc[u] /\ cur'[u] = cur[u] /\ stamp'[u] = stamp[u] /\ dir'[u] = dir[u]
    BY <1>7 DEF OpenFile, GivesUp, Return
  <2>3. UNCHANGED <<clock, lastTime, logCnt, ltime, raced>>
    BY <1>7 DEF OpenFile
  <2>4. fp'[u] = fp[u] /\ harmed'[u] = harmed[u] /\ (failed => failed')
    BY <1>7 DEF OpenFile, GivesUp
  <2> QED
    BY <2>1, <2>2, <2>3, <2>4 DEF Frame
<1>8. ASSUME SetLastTime(t) PROVE Others
  BY <1>8 DEF SetLastTime, Frame
<1>9. ASSUME WriteLog(t) PROVE Others
  BY <1>9 DEF WriteLog, Return, Frame
<1>10. ASSUME CloseAgain(t) PROVE Others \/ Hit(u)
  <2>1. failed
    BY <1>10, ClosedIsFailed DEF CloseAgain
  <2>2. /\ UNCHANGED <<clock, name, lastTime, ltime, stamp, dir, content, raced, failed>>
        /\ logCnt'[u] = logCnt[u] /\ pc'[u] = pc[u] /\ cur'[u] = cur[u]
    BY <1>10 DEF CloseAgain, Begin
  <2>3. \/ fp'[u] = fp[u] /\ harmed'[u] = harmed[u]
        \/ fp[u] = "open" /\ fp'[u] = "closed" /\ harmed'[u]
    BY <1>10 DEF CloseAgain
  <2> QED
    BY <2>1, <2>2, <2>3 DEF Frame, Hit
<1>11. ASSUME WriteClosed(t) PROVE Others \/ Hit(u)
  <2>1. failed
    BY <1>11, ClosedIsFailed DEF WriteClosed
  <2>2. /\ UNCHANGED <<clock, fp, name, lastTime, ltime, content, raced, failed>>
        /\ logCnt'[u] = logCnt[u] /\ pc'[u] = pc[u] /\ cur'[u] = cur[u]
        /\ stamp'[u] = stamp[u] /\ dir'[u] = dir[u]
    BY <1>11 DEF WriteClosed, Return
  <2>3. harmed'[u] = harmed[u] \/ (fp[u] = "open" /\ harmed'[u])
    BY <1>11 DEF WriteClosed
  <2> QED
    BY <2>1, <2>2, <2>3 DEF Frame, Hit
<1>12. ASSUME Others PROVE ThreadInv(u)'
  BY <1>12, FrameKeeps, SMTT(20)
<1>13. ASSUME Hit(u) PROVE ThreadInv(u)'
  BY <1>13, HitKeeps
<1>14. CASE Abort(t)
  BY <1>14, DeadKeeps
<1> HIDE DEF Others
<1> QED
  BY <1>1, <1>2, <1>3, <1>4, <1>5, <1>6, <1>7, <1>8, <1>9, <1>10, <1>11, <1>12, <1>13, <1>14 DEF Task

-------------------------------------------------------------------------------
(* Steps of the thread itself.                                             *)

\* The locals of a task that returns do not matter, as long as its file is
\* open or still expired.
LEMMA BeginKeeps ==
  ASSUME IInv, FileTypeOK', NEW t \in Threads,
         BeginSameFile(t) \/ BeginNoFile(t) \/ BeginExpired(t) \/ CloseAgain(t)
  PROVE  ThreadInv(t)'
<1> USE DEF FileTypeOK
<1>1. /\ ThreadInv(t) /\ cur'[t] = clock /\ clock' = clock /\ pc[t] = "idle"
      /\ name' = name /\ lastTime' = lastTime /\ content' = content /\ raced' = raced
      /\ failed' = failed
  BY DEF IInv, BeginSameFile, BeginNoFile, BeginExpired, CloseAgain, Begin, data
<1>0. cur'[t] <= clock'
  <2>1. clock \in Nat
    BY DEF IInv
  <2> HIDE DEF FileTypeOK
  <2> QED
    BY <1>1, <2>1, SMTT(20)
<1>2. CASE BeginSameFile(t)
  <2>1. /\ pc'[t] = "write" /\ fp' = fp /\ logCnt' = logCnt /\ harmed' = harmed
        /\ fp[t] = "open" \/ (fp[t] = "closed" /\ harmed[t])
    BY <1>1, <1>2 DEF IInv, BeginSameFile, data, ThreadInv, FileInv
  <2> QED
    BY <1>1, <2>1 DEF ThreadInv, FileInv, CountInv, TimeInv, HourInv, Rotating, InFile, UsesBuffer, Expired
<1>3. CASE BeginNoFile(t)
  <2>1. pc'[t] = "mkdir" /\ fp' = fp /\ logCnt' = logCnt /\ harmed' = harmed /\ fp[t] = "null"
    BY <1>1, <1>3 DEF BeginNoFile, data
  <2>2. FileInv(t)' /\ CountInv(t)'
    BY <1>1, <2>1 DEF ThreadInv, FileInv, CountInv, Rotating, InFile
  <2>3. TimeInv(t)'
    BY <1>0, <2>1 DEF TimeInv, UsesBuffer
  <2>4. ASSUME ~raced[t] PROVE HourInv(t)'
    BY <1>1, <2>1, <2>4 DEF ThreadInv, HourInv
  <2> QED
    BY <1>1, <2>2, <2>3, <2>4 DEF ThreadInv
<1>4. CASE BeginExpired(t) \/ CloseAgain(t)
  <2>1. /\ pc'[t] = "mkdir" /\ fp'[t] = "closed" /\ logCnt'[t] = 0 /\ harmed'[t] = harmed[t]
        /\ fp[t] # "null" /\ Expired(t, clock)
    <3>1. CASE BeginExpired(t)
      BY <1>1, <3>1 DEF IInv, BeginExpired
    <3>2. CASE CloseAgain(t)
      <4>1. fp[t] = "closed" /\ Expired(t, clock) /\ FileTypeOK
        BY <1>1, <3>2 DEF IInv, CloseAgain, UsesClosed
      <4>2. fp'[t] = "closed" /\ harmed'[t] = harmed[t]
        BY <3>2, <4>1 DEF CloseAgain
      <4> QED
        BY <3>2, <4>1, <4>2 DEF CloseAgain
    <3> QED
      BY <1>4, <3>1, <3>2
  <2>2. ASSUME HourInv(t), NEW r \in content[t] PROVE r.file.hour < HourOf(clock)
    <3>1. r \in LogRecord
      BY <2>2 DEF IInv
    <3>2. r.file.hour \in Nat
      BY <3>1 DEF LogRecord
    <3>3. r.file.hour * HourLen <= lastTime[t]
      BY <2>1, <2>2 DEF HourInv
    <3>4. lastTime[t] \in Nat /\ clock \in Nat /\ lastTime[t] + HourLen < clock
      BY <2>1 DEF Expired, IInv
    <3> HIDE DEF FileTypeOK
    <3> QED
      BY <3>2, <3>3, <3>4, LaterHour
  <2>3. FileInv(t)' /\ CountInv(t)'
    BY <1>1, <2>1 DEF ThreadInv, FileInv, CountInv, Rotating, InFile, Expired
  <2>4. TimeInv(t)'
    BY <1>0, <2>1 DEF TimeInv, UsesBuffer
  <2>5. ASSUME ~raced[t] PROVE HourInv(t)'
    <3>1. HourInv(t)
      BY <1>1, <2>5 DEF ThreadInv
    <3> QED
      BY <1>1, <2>1, <2>2, <3>1 DEF HourInv
  <2> QED
    BY <1>1, <2>3, <2>4, <2>5 DEF ThreadInv
<1> QED
  BY <1>2, <1>3, <1>4

\* The steps from the choice of the folder to its name.
LEMMA FolderKeeps ==
  ASSUME IInv, FileTypeOK', NEW t \in Threads, MakeFolder(t) \/ LocalTime(t) \/ DirName(t)
  PROVE  ThreadInv(t)'
<1>1. /\ ThreadInv(t) /\ FileTypeOK
      /\ clock' = clock /\ fp' = fp /\ name' = name /\ lastTime' = lastTime /\ logCnt' = logCnt
      /\ content' = content /\ harmed' = harmed /\ Rotating(t)
  BY DEF IInv, MakeFolder, LocalTime, DirName, data, Rotating
<1>2. CountInv(t)'
  BY <1>1 DEF ThreadInv, CountInv, InFile
<1>3. CASE MakeFolder(t)
  <2>1. CASE pc'[t] = "idle"
    <3>0. failed' = (failed \/ fp[t] = "closed")
      BY <1>1, <1>3, <2>1 DEF MakeFolder, GivesUp, FileTypeOK
    <3>1. FileInv(t)'
      BY <1>1, <2>1, <3>0 DEF ThreadInv, FileInv, Rotating, Expired
    <3>2. ASSUME ~raced'[t] PROVE TimeInv(t)' /\ HourInv(t)'
      BY <1>1, <1>3, <2>1, <3>2 DEF ThreadInv, TimeInv, HourInv, Rotating, UsesBuffer, MakeFolder
    <3> QED
      BY <1>2, <3>1, <3>2 DEF ThreadInv
  <2>2. CASE pc'[t] # "idle"
    <3>1. /\ pc'[t] = "localtime" /\ stamp'[t] = clock /\ cur' = cur /\ raced' = raced /\ pc[t] = "mkdir"
          /\ failed' = failed
      BY <1>1, <1>3, <2>2 DEF MakeFolder, GivesUp, Return, FileTypeOK
    <3>2. FileInv(t)'
      BY <1>1, <3>1 DEF ThreadInv, FileInv, Rotating, Expired
    <3>3. clock <= clock
      <4>1. clock \in Nat
        BY <1>1 DEF FileTypeOK
      <4> QED
        BY <4>1, SMTT(20)
    <3>4. ASSUME ~raced[t] PROVE TimeInv(t)'
      BY <1>1, <3>1, <3>3, <3>4 DEF ThreadInv, TimeInv, Rotating, UsesBuffer
    <3>5. ASSUME ~raced[t] PROVE HourInv(t)'
      BY <1>1, <3>1, <3>5 DEF ThreadInv, HourInv, Rotating
    <3> QED
      BY <1>2, <3>1, <3>2, <3>4, <3>5 DEF ThreadInv
  <2> QED
    BY <2>1, <2>2
<1>4. CASE LocalTime(t)
  <2>1. /\ pc[t] = "localtime" /\ pc'[t] = "dirname" /\ ltime' = HourOf(stamp[t])
        /\ stamp' = stamp /\ cur' = cur /\ failed' = failed
    BY <1>1, <1>4 DEF LocalTime, FileTypeOK
  <2>2. raced'[t] = raced[t]
    BY <2>1, <1>4, <1>1, SMTT(20) DEF LocalTime, UsesBuffer, FileTypeOK
  <2>3. FileInv(t)'
    BY <1>1, <2>1 DEF ThreadInv, FileInv, Rotating, Expired
  <2>4. ASSUME ~raced[t] PROVE TimeInv(t)' /\ HourInv(t)'
    BY <1>1, <2>1, <2>4 DEF ThreadInv, TimeInv, HourInv, Rotating, UsesBuffer
  <2> QED
    BY <1>2, <2>2, <2>3, <2>4 DEF ThreadInv
<1>5. CASE DirName(t)
  <2>1. /\ pc[t] = "dirname" /\ pc'[t] = "open" /\ dir'[t] \in Read(t)
        /\ stamp' = stamp /\ cur' = cur /\ ltime' = ltime /\ raced' = raced /\ failed' = failed
    BY <1>1, <1>5 DEF DirName, FileTypeOK
  <2>2. ASSUME ~raced[t] PROVE dir'[t] = ltime
    <3>1. ltime = HourOf(stamp[t]) /\ ltime \in Nat
      BY <1>1, <2>1, <2>2 DEF ThreadInv, TimeInv, UsesBuffer, FileTypeOK
    <3>2. dir'[t] = TmDay(ltime) + TmHour(ltime)
      BY <2>1, <3>1, ReadAlone
    <3> QED
      BY <3>1, <3>2, TmTogether
  <2>3. FileInv(t)'
    BY <1>1, <2>1 DEF ThreadInv, FileInv, Rotating, Expired
  <2>4. ASSUME ~raced[t] PROVE TimeInv(t)' /\ HourInv(t)'
    BY <1>1, <2>1, <2>2, <2>4 DEF ThreadInv, TimeInv, HourInv, Rotating, UsesBuffer
  <2> QED
    BY <1>2, <2>1, <2>3, <2>4 DEF ThreadInv
<1> QED
  BY <1>3, <1>4, <1>5

\* The name of a new file is that of no file with logs.
LEMMA FreshName ==
  ASSUME IInv, NEW t \in Threads, ~raced[t], pc[t] \in {"open", "setlast"}, NEW r \in content[t]
  PROVE  r.file.hour < dir[t]
<1>1. /\ TimeInv(t) /\ HourInv(t) /\ cur[t] \in Nat /\ stamp[t] \in Nat /\ r \in LogRecord
  BY DEF IInv, ThreadInv, FileTypeOK
<1>2. r.file.hour \in Nat /\ r.file.hour < HourOf(cur[t])
  BY <1>1 DEF HourInv, Rotating, LogRecord
<1>3. HourOf(cur[t]) \in Nat /\ HourOf(stamp[t]) \in Nat /\ HourOf(cur[t]) <= HourOf(stamp[t])
  BY <1>1, HourMonotone DEF TimeInv
<1>4. dir[t] = HourOf(stamp[t])
  BY <1>1 DEF TimeInv, UsesBuffer
<1> QED
  BY <1>2, <1>3, <1>4, SMTT(20)

\* fopen() truncates nothing: no log of this thread is in a file of that name.
LEMMA OpenKeeps ==
  ASSUME IInv, FileTypeOK', NEW t \in Threads, OpenFile(t)
  PROVE  ThreadInv(t)'
<1> DEFINE new == [hour |-> dir[t], created |-> cur[t]]
<1>1. /\ ThreadInv(t) /\ FileTypeOK /\ pc[t] = "open" /\ Rotating(t)
      /\ UNCHANGED <<clock, lastTime, logCnt, ltime, raced>>
  BY DEF IInv, OpenFile, Rotating
<1>2. CASE pc'[t] = "idle"
  <2>1. /\ content' = content /\ name' = name /\ fp' = fp /\ harmed' = harmed
        /\ failed' = (failed \/ fp[t] = "closed")
    BY <1>2, <1>1 DEF OpenFile, GivesUp, FileTypeOK
  <2>2. FileInv(t)' /\ CountInv(t)'
    BY <1>1, <1>2, <2>1 DEF ThreadInv, FileInv, CountInv, InFile, Rotating, Expired
  <2>3. ASSUME ~raced[t] PROVE TimeInv(t)' /\ HourInv(t)'
    BY <1>1, <1>2, <2>1, <2>3 DEF ThreadInv, TimeInv, HourInv, Rotating, UsesBuffer
  <2> QED
    BY <1>1, <2>2, <2>3 DEF ThreadInv
<1>3. CASE pc'[t] # "idle"
  <2>1. /\ pc'[t] = "setlast" /\ UNCHANGED <<cur, stamp, dir>>
        /\ name'[t] = new /\ content'[t] = {r \in content[t] : r.file # new}
        /\ fp'[t] = "open" /\ ~harmed'[t] /\ failed' = failed
    BY <1>3, <1>1 DEF OpenFile, GivesUp, Return, FileTypeOK
  <2>2. FileInv(t)'
    BY <1>1, <2>1 DEF ThreadInv, FileInv, InFile, Rotating, Expired
  <2>3. CountInv(t)'
    <3>1. IsFiniteSet(content'[t])
      BY <1>1, <2>1, FS_Subset DEF ThreadInv, CountInv
    <3>2. InFile(t)' = {} /\ logCnt'[t] = 0
      BY <1>1, <2>1 DEF InFile, ThreadInv, FileInv
    <3> QED
      BY <3>1, <3>2, FS_EmptySet DEF CountInv
  <2>4. ASSUME ~raced[t] PROVE TimeInv(t)' /\ HourInv(t)'
    <3>1. TimeInv(t)'
      <4>1. TimeInv(t)
        BY <1>1, <2>4 DEF ThreadInv
      <4>2. new.hour = dir[t]
        OBVIOUS
      <4>3. name'[t].hour = dir[t]
        BY <2>1, <4>2
      <4> QED
        BY <1>1, <2>1, <4>1, <4>3 DEF TimeInv, Rotating, UsesBuffer
    <3>2. /\ content'[t] \subseteq content[t] /\ (fp[t] = "null" => content[t] = {})
          /\ fp'[t] = "open" /\ pc'[t] = "setlast" /\ lastTime'[t] = lastTime[t] /\ cur'[t] = cur[t] /\ HourInv(t)
      BY <1>1, <2>1, <2>4 DEF ThreadInv, HourInv
    <3>3. HourInv(t)'
      BY <3>2, <1>1 DEF HourInv, Rotating
    <3> QED
      BY <3>1, <3>3
  <2> QED
    BY <1>1, <2>2, <2>3, <2>4 DEF ThreadInv
<1> QED
  BY <1>2, <1>3

\* lastTime is not before the hour of the file it is set for.
LEMMA SetLastKeeps ==
  ASSUME IInv, FileTypeOK', NEW t \in Threads, SetLastTime(t)
  PROVE  ThreadInv(t)'
<1> DEFINE last == StartOfDay(clock) + TmHour(ltime) * HourLen
<1>1. /\ ThreadInv(t) /\ FileTypeOK /\ pc[t] = "setlast" /\ Rotating(t)
      /\ UNCHANGED <<clock, fp, name, logCnt, ltime, cur, stamp, dir, content, raced, failed, harmed>>
      /\ pc'[t] = "write" /\ lastTime'[t] = last
  BY DEF IInv, SetLastTime, Rotating, FileTypeOK
<1>2. FileInv(t)'
  BY <1>1 DEF ThreadInv, FileInv, Rotating
<1>3. CountInv(t)'
  BY <1>1 DEF ThreadInv, CountInv, InFile
<1>4. ASSUME ~raced[t] PROVE TimeInv(t)' /\ HourInv(t)'
  <2>1. TimeInv(t) /\ HourInv(t)
    BY <1>1, <1>4 DEF ThreadInv
  <2>2. /\ ltime = HourOf(stamp[t]) /\ stamp[t] \in Nat /\ clock \in Nat /\ stamp[t] <= clock
        /\ name[t].hour = ltime /\ dir[t] = ltime /\ ltime \in Nat
    BY <1>1, <2>1 DEF TimeInv, UsesBuffer, FileTypeOK
  <2>3. ltime * HourLen <= last /\ last \in Nat
    BY <2>2, LastTimeBound
  <2> HIDE DEF last
  <2>4. ASSUME NEW r \in content[t]
        PROVE  r.file.hour # name[t].hour /\ r.file.hour * HourLen <= last
    <3>1. r.file.hour < ltime
      BY <1>1, <1>4, <2>2, FreshName
    <3>2. r.file.hour \in Nat /\ HourLen \in Nat
      BY <1>1, LocalLogAssumption, SMTT(20) DEF FileTypeOK, LogRecord
    <3>3. r.file.hour * HourLen <= ltime * HourLen /\ r.file.hour * HourLen \in Nat /\ ltime * HourLen \in Nat
      BY <3>1, <3>2, <2>2, SMTT(20)
    <3> QED
      BY <3>1, <3>2, <3>3, <2>2, <2>3, SMTT(20)
  <2>5. TimeInv(t)'
    BY <1>1 DEF TimeInv, Rotating, UsesBuffer
  <2>6. HourInv(t)'
    BY <1>1, <2>1, <2>2, <2>3, <2>4 DEF HourInv, Rotating
  <2> QED
    BY <2>5, <2>6
<1> QED
  BY <1>1, <1>2, <1>3, <1>4 DEF ThreadInv

\* A log is one more of those in the open file.
LEMMA WriteKeeps ==
  ASSUME IInv, FileTypeOK', NEW t \in Threads, WriteLog(t)
  PROVE  ThreadInv(t)'
<1> DEFINE new == [file |-> name[t], time |-> cur[t], nr |-> logCnt[t] + 1]
<1>1. /\ ThreadInv(t) /\ FileTypeOK /\ pc[t] = "write" /\ pc'[t] = "idle"
      /\ UNCHANGED <<clock, fp, name, lastTime, ltime, raced, failed, harmed>> /\ fp[t] = "open"
      /\ logCnt'[t] = logCnt[t] + 1 /\ content'[t] = content[t] \cup {new}
  BY SMTT(20) DEF IInv, WriteLog, Return, FileTypeOK
<1>2. logCnt[t] \in Nat
  BY <1>1 DEF FileTypeOK
<1>3. FileInv(t)'
  BY <1>1 DEF ThreadInv, FileInv, Rotating
<1>0. IsFiniteSet(content'[t])
  <2>1. IsFiniteSet(content[t])
    BY <1>1 DEF ThreadInv, CountInv
  <2> HIDE DEF new
  <2>2. IsFiniteSet(content[t] \cup {new})
    BY <2>1, FS_AddElement
  <2> QED
    BY <1>1, <2>2
<1>4. ASSUME ~harmed[t] PROVE CountInv(t)'
  <2>1. /\ IsFiniteSet(content[t]) /\ logCnt[t] = Cardinality(InFile(t))
        /\ \A r \in InFile(t) : r.nr <= logCnt[t]
    BY <1>1, <1>4 DEF ThreadInv, CountInv
  <2>2. InFile(t)' = InFile(t) \cup {new} /\ IsFiniteSet(InFile(t))
    <3>1. new.file = name[t]
      OBVIOUS
    <3> HIDE DEF new
    <3>2. InFile(t)' = InFile(t) \cup {new}
      BY <1>1, <3>1 DEF InFile
    <3>3. InFile(t) \in SUBSET content[t]
      BY DEF InFile
    <3>4. IsFiniteSet(InFile(t))
      BY <2>1, <3>3, FS_Subset
    <3> QED
      BY <3>2, <3>4
  <2>3. new \notin InFile(t) /\ new.nr = logCnt[t] + 1
    <3>1. new.nr = logCnt[t] + 1
      OBVIOUS
    <3> HIDE DEF new
    <3>2. ~(logCnt[t] + 1 <= logCnt[t])
      BY <1>2, NextIsNew
    <3> QED
      BY <2>1, <3>1, <3>2
  <2> HIDE DEF new
  <2>5. Cardinality(InFile(t)') = logCnt[t] + 1
    BY <2>1, <2>2, <2>3, FS_AddElement
  <2>6. \A r \in InFile(t)' : r.nr <= logCnt[t] + 1
    <3> TAKE r \in InFile(t)'
    <3>1. CASE r = new
      BY <3>1, <1>2, <2>3, NextIsLast
    <3>2. CASE r \in InFile(t)
      <4>1. r \in LogRecord
        BY <1>1, <3>2 DEF FileTypeOK, InFile
      <4>2. r.nr \in Nat /\ r.nr <= logCnt[t]
        BY <2>1, <3>2, <4>1 DEF LogRecord
      <4> QED
        BY <1>2, <4>2, NextIsAbove
    <3> QED
      BY <2>2, <3>1, <3>2
  <2> QED
    BY <1>0, <1>1, <2>5, <2>6 DEF CountInv
<1>5. ASSUME ~raced[t] PROVE TimeInv(t)' /\ HourInv(t)'
  <2>1. HourInv(t) /\ new.file = name[t] /\ fp[t] = "open" /\ fp'[t] = "open"
    BY <1>1, <1>5 DEF ThreadInv
  <2>2. TimeInv(t)'
    BY <1>1 DEF TimeInv, Rotating, UsesBuffer
  <2> HIDE DEF new
  <2>3. HourInv(t)'
    BY <1>1, <2>1 DEF HourInv, Rotating
  <2> QED
    BY <2>2, <2>3
<1>6. ASSUME harmed[t] PROVE CountInv(t)'
  BY <1>0, <1>1, <1>6 DEF CountInv
<1> QED
  BY <1>1, <1>3, <1>4, <1>5, <1>6 DEF ThreadInv

\* A log written to a closed FILE is in no file of its thread.
LEMMA LostKeeps ==
  ASSUME IInv, NEW t \in Threads, WriteClosed(t)
  PROVE  ThreadInv(t)'
<1>1. /\ ThreadInv(t) /\ FileTypeOK /\ pc[t] = "write" /\ pc'[t] = "idle" /\ fp[t] = "closed"
      /\ UNCHANGED <<clock, fp, name, lastTime, ltime, content, raced, failed>>
  BY DEF IInv, WriteClosed, UsesClosed, Return, FileTypeOK
<1>2. failed /\ harmed[t]
  BY <1>1, ClosedIsFailed DEF WriteClosed
<1>3. harmed'[t]
  BY <1>1, <1>2 DEF WriteClosed, FileTypeOK
<1>4. FileInv(t)' /\ CountInv(t)'
  BY <1>1, <1>2, <1>3 DEF ThreadInv, FileInv, CountInv, Rotating
<1>5. ASSUME ~raced[t] PROVE TimeInv(t)' /\ HourInv(t)'
  BY <1>1, <1>5 DEF ThreadInv, TimeInv, HourInv, Rotating, UsesBuffer
<1> QED
  BY <1>1, <1>4, <1>5 DEF ThreadInv

-------------------------------------------------------------------------------
(* The theorems.                                                           *)

\* Nothing is written.
LEMMA InvInit == FileInit => IInv
<1> SUFFICES ASSUME FileInit, NEW t \in Threads PROVE ThreadInv(t)
  BY InitType DEF IInv
<1>1. content[t] = {} /\ pc[t] = "idle" /\ fp[t] = "null" /\ logCnt[t] = 0 /\ ~harmed[t]
  BY DEF FileInit
<1>2. FileInv(t) /\ TimeInv(t) /\ HourInv(t)
  BY <1>1 DEF FileInv, TimeInv, HourInv, Rotating, UsesBuffer
<1>3. CountInv(t)
  BY <1>1, FS_EmptySet DEF CountInv
<1> QED
  BY <1>2, <1>3 DEF ThreadInv

\* Every step keeps the invariant of every thread.
LEMMA InvStep == IInv /\ [FileNext]_fileVars => IInv'
<1> SUFFICES ASSUME IInv, [FileNext]_fileVars PROVE IInv'
  OBVIOUS
<1>1. FileTypeOK /\ FileTypeOK'
  BY TypeStep DEF IInv
<1>2. CASE Tick \/ UNCHANGED fileVars
  <2> SUFFICES ASSUME NEW t \in Threads PROVE ThreadInv(t)'
    BY <1>1 DEF IInv
  <2>1. ThreadInv(t) /\ Frame(t) /\ clock <= clock' /\ clock' \in Nat /\ raced' = raced /\ ltime' = ltime
        /\ failed' = failed
    BY <1>1, <1>2, SMTT(20) DEF IInv, Tick, fileVars, data, Frame, FileTypeOK
  <2> QED
    BY <1>1, <2>1, FrameKeeps
<1>3. CASE \E t \in Threads : Task(t)
  <2> PICK t \in Threads : Task(t)
    BY <1>3
  <2>1. ThreadInv(t)'
    <3>1. CASE Abort(t)
      BY <1>1, <3>1, DeadKeeps DEF IInv
    <3>2. CASE ~Abort(t)
      BY <1>1, <3>2, BeginKeeps, FolderKeeps, OpenKeeps, SetLastKeeps, WriteKeeps, LostKeeps DEF Task
    <3> QED
      BY <3>1, <3>2
  <2>2. ASSUME NEW u \in Threads, u # t PROVE ThreadInv(u)'
    BY <2>2, OthersKeep
  <2> QED
    BY <1>1, <2>1, <2>2 DEF IInv
<1> QED
  BY <1>2, <1>3 DEF FileNext

\* The inductive invariant holds throughout.
THEOREM FilesInvariant == FileSpec => []IInv
  BY InvInit, InvStep, PTL DEF FileSpec

\* A task of LogPushLocalTask never writes to the FILE* that its own failed
\* rotation closed and left in the thread data, nor to a null one.  That the
\* next task closes it again is the one way in which the files of two threads
\* get mixed up, and it takes a failed rotation.
THEOREM WritesGoToOpenFile == FileSpec => []WritesOpenFile
<1>1. IInv => WritesOpenFile
  BY DEF IInv, ThreadInv, FileInv, WritesOpenFile
<1> QED
  BY <1>1, FilesInvariant, PTL

\* logCnt, logged when a file is closed, is the number of logs in that file,
\* unless another thread closed or wrote it through a stale FILE*.
THEOREM HourlyCountExact == FileSpec => []CountIsExact
<1>1. IInv => CountIsExact
  BY DEF IInv, ThreadInv, CountInv, InFile, CountIsExact
<1> QED
  BY <1>1, FilesInvariant, PTL

\* A thread none of whose hours was changed by another thread's localtime()
\* has at most one file in an hour directory, though the task reads the clock
\* three times and the hour may change in between.
THEOREM OneFileAnHour == FileSpec => []OneFilePerHour
<1>1. IInv => OneFilePerHour
  BY DEF IInv, ThreadInv, HourInv, OneFilePerHour
<1> QED
  BY <1>1, FilesInvariant, PTL

\* fopen(.., "wb+") never truncates a file that holds logs of such a thread.
THEOREM NoLogTruncated == FileSpec => LogsKept
<1> DEFINE Kept == \A t \in Threads : ~raced[t] => content[t] \subseteq content'[t]
<1>1. ASSUME IInv, [FileNext]_fileVars PROVE [Kept]_fileVars
  <2> SUFFICES ASSUME FileNext, NEW t \in Threads, ~raced[t] PROVE content[t] \subseteq content'[t]
    BY <1>1
  <2> FileTypeOK
    BY <1>1 DEF IInv
  <2>1. CASE Tick
    BY <2>1 DEF Tick
  <2>2. ASSUME NEW u \in Threads, Task(u) PROVE content[t] \subseteq content'[t]
    <3>1. CASE OpenFile(u) /\ u = t
      <4> DEFINE new == [hour |-> dir[t], created |-> cur[t]]
      <4>1. \A r \in content[t] : r.file # new
        <5> SUFFICES ASSUME NEW r \in content[t], r.file = new PROVE FALSE
          OBVIOUS
        <5>1. r.file.hour < dir[t] /\ dir[t] \in Nat
          BY <1>1, <3>1, FreshName DEF OpenFile, FileTypeOK
        <5> QED
          BY <5>1, SMTT(20)
      <4>2. content'[t] = {r \in content[t] : r.file # new} \/ content' = content
        BY <3>1, SMTT(20) DEF OpenFile, FileTypeOK
      <4> QED
        BY <4>1, <4>2
    <3>2. CASE OpenFile(u) /\ u # t
      BY <3>2 DEF OpenFile, FileTypeOK
    <3>3. CASE WriteLog(u)
      BY <3>3 DEF WriteLog, FileTypeOK
    <3>4. CASE ~OpenFile(u) /\ ~WriteLog(u)
      BY <2>2, <3>4 DEF Task, BeginSameFile, BeginNoFile, BeginExpired, CloseAgain, Abort,
                        MakeFolder, LocalTime, DirName, SetLastTime, WriteClosed
    <3> QED
      BY <3>1, <3>2, <3>3, <3>4
  <2> QED
    BY <2>1, <2>2 DEF FileNext
<1> QED
  BY <1>1, FilesInvariant, PTL DEF FileSpec, LogsKept

===============================================================================
