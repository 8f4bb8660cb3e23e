------------------------- MODULE CalibrationPromise -------------------------
(***************************************************************************)
(* What calibration promises the rest of the module: at most one session   *)
(* is open at a time, a session is closed once, and the calibration in use *)
(* changes joint by joint, only to what a saved session measured.  A       *)
(* restart forgets the open session and the calibration in use.            *)
(***************************************************************************)
CONSTANTS Joints, Sessions, None

VARIABLES open,    \* the open session, or None
          saved,   \* sessions closed with save
          inUse    \* the session each joint's calibration comes from

vars == <<open, saved, inUse>>

Unset == [j \in Joints |-> None]

Init == open = None /\ saved = {} /\ inUse = Unset

Open(s) == /\ open = None /\ s \notin saved
           /\ open' = s
           /\ UNCHANGED <<saved, inUse>>

Discard == /\ open # None
           /\ open' = None
           /\ UNCHANGED <<saved, inUse>>

Save == /\ open # None
        /\ open' = None
        /\ saved' = saved \cup {open}
        /\ UNCHANGED inUse

\* Some joints get an entry that a closed session measured.
Adopt == /\ inUse' \in [Joints -> saved \cup {None}]
         /\ \A j \in Joints : inUse'[j] \in saved \cup {inUse[j]}
         /\ UNCHANGED <<open, saved>>

Restart == /\ open' = None
           /\ inUse' = Unset
           /\ UNCHANGED saved

Next == \/ \E s \in Sessions : Open(s)
        \/ Discard
        \/ Save
        \/ Adopt
        \/ Restart

Spec == Init /\ [][Next]_vars
=============================================================================
