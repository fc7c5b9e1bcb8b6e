---------------------------- MODULE MCLogCollector ----------------------------
(* Two executions that may overlap, and two files: in one a payload holds a *)
(* piece that looks like a head, in the other a record is longer than the   *)
(* window.                                                                  *)
EXTENDS LogCollector

MCFiles == {"split", "long"}
MCContent ==
  [split |-> <<"head", "body", "like", "body", "head", "body", "head">>,
   long  |-> <<"head", "body", "head", "body", "body", "head">>]
MCFlushes == [split |-> {7}, long |-> {3, 6}]
MCFaults == {[kill |-> 1, overlap |-> 0, remove |-> 1],
             [kill |-> 1, overlap |-> 1, remove |-> 0]}

=============================================================================
