------------------------------ MODULE TaskQueue ------------------------------
(***************************************************************************)
(* What the executor promises to its clients: a bounded first-in first-out *)
(* queue of tasks.  A task that was put is taken at most once, in the      *)
(* order of the puts, and its execution ends at most once.                 *)
(***************************************************************************)
EXTENDS Naturals, Sequences

CONSTANTS Tasks,      \* the tasks clients submit
          Capacity    \* maxQueueSize_; 0 is "no bound"

VARIABLES pending,    \* tasks put and not yet taken, oldest first
          executing,  \* tasks taken and not yet ended
          ended       \* tasks whose execution ended (returned or threw)

qvars == <<pending, executing, ended>>

Known == {pending[i] : i \in DOMAIN pending} \cup executing \cup ended

Init ==
  /\ pending = <<>>
  /\ executing = {}
  /\ ended = {}

Put(t) ==
  /\ t \notin Known
  /\ Capacity > 0 => Len(pending) < Capacity
  /\ pending' = Append(pending, t)
  /\ UNCHANGED <<executing, ended>>

Get ==
  /\ pending # <<>>
  /\ executing' = executing \cup {Head(pending)}
  /\ pending' = Tail(pending)
  /\ UNCHANGED ended

End(t) ==
  /\ t \in executing
  /\ executing' = executing \ {t}
  /\ ended' = ended \cup {t}
  /\ UNCHANGED pending

Next ==
  \/ \E t \in Tasks : Put(t) \/ End(t)
  \/ Get

Spec == Init /\ [][Next]_qvars
==============================================================================
