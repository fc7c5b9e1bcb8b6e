------------------------------ MODULE LogPusher ------------------------------
(***************************************************************************)
(* The log pusher (service/core/logpusher): every business log is produced *)
(* to Kafka, or handed to the local file writers while the logger is in    *)
(* local mode.  Three kinds of threads touch the mode flag, none of them   *)
(* under a lock: the nginx worker in push(), the librdkafka poll thread in *)
(* dr_cb() and the monitor thread that probes Kafka after a failed send.   *)
(***************************************************************************)
EXTENDS Naturals, Sequences

CONSTANTS Loggers,       \* keys of logMap
          Service,       \* MTTY_SERVICE_LOGGER
          LocalAtStart,  \* loggers configured with kafka disabled
          Logs,          \* the logs pushed, each one once
          Unimportant,   \* logs that are neither CLICK, SHOW nor TRACK
          MQMaxSize,     \* queue.buffering.max.messages
          Faults,        \* what may fail: "delivery", "pthread_create"
          NoLog

ASSUME LogPusherAssumption ==
  /\ Service \in Loggers
  /\ LocalAtStart \subseteq Loggers
  /\ Unimportant \subseteq Logs
  /\ NoLog \notin Logs
  /\ MQMaxSize \in Nat
  /\ Faults \subseteq {"delivery", "pthread_create"}

VARIABLES modeLocal,    \* modeLocal of each logger
          producer,     \* producer != NULL
          needRecover,  \* needRecover of each producer's drCb
          outq,         \* messages librdkafka accepted and has not reported
          started,      \* RemoteMonitorThreadParam::started
          param,        \* its producer (by logger) and msg
          mon,          \* where the monitor thread is
          wpc,          \* where the nginx worker is in push()
          wlogger,      \* the logger and the log of that push
          wlog,
          brokerUp,     \* whether the brokers acknowledge messages
          pushed,       \* history: logs passed to push()
          delivered,    \* history: delivery reported without error
          undelivered,  \* history: delivery reported with an error
          local,        \* handed to the executor for a local file
          lost          \* history: dropped by push() or by the monitor

modes == <<modeLocal, producer, needRecover>>
monitor == <<started, param, mon>>
worker == <<wpc, wlogger, wlog>>
history == <<pushed, delivered, undelivered, local, lost>>
vars == <<modes, outq, monitor, worker, brokerUp, history>>

Init ==
  /\ modeLocal = [l \in Loggers |-> l \in LocalAtStart]
  /\ producer = [l \in Loggers |-> l \notin LocalAtStart]
  /\ needRecover = [l \in Loggers |-> FALSE]
  /\ outq = [l \in Loggers |-> <<>>]
  /\ started = FALSE
  /\ param = [logger |-> Service, msg |-> NoLog]
  /\ mon = "none"
  /\ wpc = "idle"
  /\ wlogger = Service
  /\ wlog = NoLog
  /\ brokerUp \in BOOLEAN
  /\ pushed = {} /\ delivered = {} /\ undelivered = {} /\ local = {} /\ lost = {}

-------------------------------------------------------------------------------
(* Helpers.                                                                *)

\* setWorkMode(): the missing producer is created only when the logger is
\* already in remote mode.
SetWorkMode(l, workLocal) ==
  /\ producer' = [producer EXCEPT ![l] = @ \/ (~workLocal /\ ~modeLocal[l])]
  /\ modeLocal' = [modeLocal EXCEPT ![l] = workLocal]

\* produce() fails when librdkafka's queue is full.
Accepts(l) == Len(outq[l]) < MQMaxSize

Produce(l, log) == outq' = [outq EXCEPT ![l] = Append(@, log)]

-------------------------------------------------------------------------------
(* The nginx worker: push().                                               *)

PushLocal(l, log) ==
  /\ wpc = "idle"
  /\ log \notin pushed
  /\ modeLocal[l]
  /\ pushed' = pushed \cup {log}
  /\ local' = IF log \in Unimportant THEN local ELSE local \cup {log}
  /\ lost' = IF log \in Unimportant THEN lost \cup {log} ELSE lost
  /\ UNCHANGED <<modes, outq, monitor, worker, brokerUp, delivered, undelivered>>

PushRemote(l, log) ==
  /\ wpc = "idle"
  /\ log \notin pushed
  /\ ~modeLocal[l]
  /\ pushed' = pushed \cup {log}
  /\ wpc' = "send" /\ wlogger' = l /\ wlog' = log
  /\ UNCHANGED <<modes, outq, monitor, brokerUp, delivered, undelivered, local, lost>>

PushSendOk ==
  /\ wpc = "send"
  /\ producer[wlogger]
  /\ Accepts(wlogger)
  /\ Produce(wlogger, wlog)
  /\ wpc' = "idle" /\ wlog' = NoLog
  /\ UNCHANGED <<modes, monitor, wlogger, brokerUp, history>>

PushSendError ==
  /\ wpc = "send"
  /\ producer[wlogger]
  /\ ~Accepts(wlogger)
  /\ wpc' = "setlocal"
  /\ UNCHANGED <<modes, outq, monitor, wlogger, wlog, brokerUp, history>>

PushSetLocal ==
  /\ wpc = "setlocal"
  /\ SetWorkMode(wlogger, TRUE)
  /\ wpc' = "monitor"
  /\ UNCHANGED <<needRecover, outq, monitor, wlogger, wlog, brokerUp, history>>

\* startRemoteMonitor() when a monitor was started: the log goes nowhere
PushMonitorBusy ==
  /\ wpc = "monitor"
  /\ started
  /\ lost' = lost \cup {wlog}
  /\ wpc' = "idle" /\ wlog' = NoLog
  /\ UNCHANGED <<modes, outq, monitor, wlogger, brokerUp, pushed, delivered,
                 undelivered, local>>

\* Mutant: neither the test nor the compare-and-swap of started.
PushStartMonitorAlways ==
  /\ wpc = "monitor"
  /\ started' = TRUE
  /\ param' = [logger |-> wlogger, msg |-> wlog]
  /\ mon' = "send"
  /\ wpc' = "idle" /\ wlog' = NoLog
  /\ UNCHANGED <<modes, outq, wlogger, brokerUp, history>>

PushStartMonitor ==
  /\ wpc = "monitor"
  /\ ~started
  /\ started' = TRUE
  /\ param' = [logger |-> wlogger, msg |-> wlog]
  /\ \/ mon' = "send" /\ UNCHANGED lost
     \/ /\ "pthread_create" \in Faults
        /\ lost' = lost \cup {wlog}
        /\ UNCHANGED mon
  /\ wpc' = "idle" /\ wlog' = NoLog
  /\ UNCHANGED <<modes, outq, wlogger, brokerUp, pushed, delivered, undelivered, local>>

-------------------------------------------------------------------------------
(* The monitor thread: monitorRemoteLog().                                 *)

\* Mutant: the results of the probe are mixed up.
MonitorSendOkMissed ==
  /\ mon = "send"
  /\ Accepts(param.logger)
  /\ Produce(param.logger, param.msg)
  /\ mon' = "sleep"
  /\ UNCHANGED <<modes, started, param, worker, brokerUp, history>>

MonitorSendOk ==
  /\ mon = "send"
  /\ Accepts(param.logger)
  /\ Produce(param.logger, param.msg)
  /\ mon' = "recover"
  /\ UNCHANGED <<modes, started, param, worker, brokerUp, history>>

MonitorSendError ==
  /\ mon = "send"
  /\ ~Accepts(param.logger)
  /\ mon' = "sleep"
  /\ UNCHANGED <<modes, outq, started, param, worker, brokerUp, history>>

\* Mutant: the loop is not left after a successful probe.
MonitorRecoverNoBreak ==
  /\ mon = "recover"
  /\ SetWorkMode(Service, FALSE)
  /\ mon' = "send"
  /\ UNCHANGED <<needRecover, outq, started, param, worker, brokerUp, history>>

\* always the service logger, whichever logger the monitor was started for
MonitorRecover ==
  /\ mon = "recover"
  /\ SetWorkMode(Service, FALSE)
  /\ mon' = "exit"
  /\ UNCHANGED <<needRecover, outq, started, param, worker, brokerUp, history>>

MonitorRetry ==
  /\ mon = "sleep"
  /\ modeLocal[Service]
  /\ mon' = "send"
  /\ UNCHANGED <<modes, outq, started, param, worker, brokerUp, history>>

\* somebody else set the service logger back to remote: the log is given up
MonitorGiveUp ==
  /\ mon = "sleep"
  /\ ~modeLocal[Service]
  /\ lost' = lost \cup {param.msg}
  /\ mon' = "exit"
  /\ UNCHANGED <<modes, outq, started, param, worker, brokerUp, pushed, delivered,
                 undelivered, local>>

MonitorExit ==
  /\ mon = "exit"
  /\ started' = FALSE
  /\ mon' = "none"
  /\ UNCHANGED <<modes, outq, param, worker, brokerUp, history>>

-------------------------------------------------------------------------------
(* librdkafka and its poll thread: dr_cb().                                *)

ReportOk(l) ==
  /\ outq[l] # <<>>
  /\ brokerUp
  /\ outq' = [outq EXCEPT ![l] = Tail(@)]
  /\ delivered' = delivered \cup {Head(outq[l])}
  /\ IF needRecover[l]
       THEN /\ needRecover' = [needRecover EXCEPT ![l] = FALSE]
            /\ SetWorkMode(Service, FALSE)
       ELSE UNCHANGED modes
  /\ UNCHANGED <<monitor, worker, brokerUp, pushed, undelivered, local, lost>>

ReportError(l) ==
  /\ outq[l] # <<>>
  /\ ~brokerUp
  /\ "delivery" \in Faults
  /\ outq' = [outq EXCEPT ![l] = Tail(@)]
  /\ undelivered' = undelivered \cup {Head(outq[l])}
  /\ IF needRecover[l]
       THEN UNCHANGED modes
       ELSE /\ SetWorkMode(Service, TRUE)
            /\ needRecover' = [needRecover EXCEPT ![l] = TRUE]
  /\ UNCHANGED <<monitor, worker, brokerUp, pushed, delivered, local, lost>>

BrokerChange ==
  /\ brokerUp' = ~brokerUp
  /\ UNCHANGED <<modes, outq, monitor, worker, history>>

-------------------------------------------------------------------------------
PushStep == PushSendOk \/ PushSendError \/ PushSetLocal \/ PushMonitorBusy
            \/ PushStartMonitor

MonitorStep == MonitorSendOk \/ MonitorSendError \/ MonitorRecover \/ MonitorRetry
               \/ MonitorGiveUp \/ MonitorExit

Next ==
  \/ \E l \in Loggers, log \in Logs : PushLocal(l, log) \/ PushRemote(l, log)
  \/ PushStep
  \/ MonitorStep
  \/ \E l \in Loggers : ReportOk(l) \/ ReportError(l)
  \/ BrokerChange

Spec == Init /\ [][Next]_vars

\* The threads that run are scheduled: a push() in progress goes on, the
\* monitor wakes from its sleeps, poll() serves the reports librdkafka has.
\* Nobody has to push a log, and the brokers may stay down.
Fairness ==
  /\ WF_vars(PushStep) /\ WF_vars(MonitorStep)
  /\ \A l \in Loggers : WF_vars(ReportOk(l) \/ ReportError(l))

FairSpec == Spec /\ Fairness

-------------------------------------------------------------------------------
(* Properties.                                                             *)

\* Types of the fields of LogPusher, of the monitor's parameter and of the
\* threads' local state.
TypeOK ==
  /\ modeLocal \in [Loggers -> BOOLEAN]
  /\ producer \in [Loggers -> BOOLEAN]
  /\ needRecover \in [Loggers -> BOOLEAN]
  /\ outq \in [Loggers -> Seq(Logs)]
  /\ started \in BOOLEAN
  /\ param \in [logger : Loggers, msg : Logs \cup {NoLog}]
  /\ mon \in {"none", "send", "sleep", "recover", "exit"}
  /\ wpc \in {"idle", "send", "setlocal", "monitor"}
  /\ wlogger \in Loggers
  /\ wlog \in Logs \cup {NoLog}
  /\ brokerUp \in BOOLEAN
  /\ \A s \in {pushed, delivered, undelivered, local, lost} : s \subseteq Logs

\* where a log can be that push() was called with
QueuedIn(l) == {outq[l][i] : i \in DOMAIN outq[l]}
Queued == UNION {QueuedIn(l) : l \in Loggers}
InHand == IF wpc = "idle" THEN {} ELSE {wlog}
WithMonitor == IF mon \in {"send", "sleep"} THEN {param.msg} ELSE {}

\* The loggers' fall-back never duplicates a log: whatever the interleaving
\* of push(), monitor and reports, a pushed log is in exactly one place - with
\* the worker, with the monitor, in one librdkafka queue, reported, in the
\* local files, or lost.
LogInOnePlace ==
  /\ pushed = InHand \cup WithMonitor \cup Queued \cup delivered \cup undelivered
              \cup local \cup lost
  /\ InHand \cap (WithMonitor \cup Queued \cup delivered \cup undelivered
                  \cup local \cup lost) = {}
  /\ WithMonitor \cap (Queued \cup delivered \cup undelivered \cup local \cup lost) = {}
  /\ Queued \cap (delivered \cup undelivered \cup local \cup lost) = {}
  /\ delivered \cap (undelivered \cup local \cup lost) = {}
  /\ undelivered \cap (local \cup lost) = {}
  /\ local \cap lost = {}
  /\ \A l \in Loggers : \A i, j \in DOMAIN outq[l] : outq[l][i] = outq[l][j] => i = j
  /\ \A k, l \in Loggers : k # l => QueuedIn(k) \cap QueuedIn(l) = {}

\* There is one monitor thread at most, and startRemoteMonitor() does not
\* overwrite the message and the producer it works with.
MonitorOwnsParam == [][mon # "none" => param' = param]_vars

\* monitorRemoteLog() leaves its loop once Kafka accepts messages for good.
MonitorEnds == (<>[]brokerUp) => (mon = "send" ~> mon = "none")

\* "kafka error recover,continue to work": once the brokers answer for good,
\* the service logger goes back to remote logging.
RemoteResumes ==
  (<>[]brokerUp) => ([]<>(~modeLocal[Service]))
==============================================================================
