-------------------------- MODULE ControllerPromise --------------------------
(***************************************************************************)
(* What the controller of internal/control promises its operator: one      *)
(* session is open at a time, the first signal to it stays, it closes on a *)
(* signal or with the process and never opens again, and no session opens  *)
(* with the signal of another one.                                         *)
(***************************************************************************)
EXTENDS Naturals

CONSTANTS Sessions, None

VARIABLES open,     \* the open session, or None
          signal,   \* what the open session was told: "empty" is nothing
          used,     \* the sessions that were opened
          restarts

vars == <<open, signal, used, restarts>>

Init == open = None /\ signal = "empty" /\ used = {} /\ restarts = 0

Open(s) == /\ open = None /\ s \notin used
           /\ open' = s /\ signal' = "empty"
           /\ used' = used \cup {s}
           /\ UNCHANGED restarts

Finish == /\ open # None /\ signal = "empty"
          /\ signal' = "save"
          /\ UNCHANGED <<open, used, restarts>>

Abort == /\ open # None /\ signal = "empty"
         /\ signal' = "abort"
         /\ UNCHANGED <<open, used, restarts>>

Close == /\ open # None /\ signal # "empty"
         /\ open' = None /\ signal' = "empty"
         /\ UNCHANGED <<used, restarts>>

Restart == /\ open' = None /\ signal' = "empty"
           /\ restarts' = restarts + 1
           /\ UNCHANGED used

Next == \/ \E s \in Sessions : Open(s)
        \/ Finish \/ Abort \/ Close
        \/ Restart

Spec == Init /\ [][Next]_vars
=============================================================================
