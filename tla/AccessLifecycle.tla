---------------------------- MODULE AccessLifecycle ----------------------------
(***************************************************************************)
(* What paid access promises about one order, without jobs, workers or     *)
(* retries: access that was promised is given with a key that works, and   *)
(* works until the order is closed; access of a closed order is taken away *)
(* and stays away; a promise is dropped only if the order was closed.      *)
(* Closing is for good.                                                    *)
(***************************************************************************)
CONSTANT Orders

VARIABLES
  phase,   \* where the access of each order is in its life
  closed,  \* orders whose subscription ended or was refunded
  works    \* orders whose key is on the Outline server

accessState == <<phase, closed, works>>

Phases == {"none", "promised", "given", "ending", "ended"}

AccessLifecycleTypeOK ==
  /\ phase \in [Orders -> Phases]
  /\ closed \subseteq Orders
  /\ works \subseteq Orders

Init ==
  /\ phase = [o \in Orders |-> "none"]
  /\ closed = {}
  /\ works = {}

Becomes(o, p) == phase' = [phase EXCEPT ![o] = p]

Promise(o) ==
  /\ phase[o] = "none" /\ o \notin closed
  /\ Becomes(o, "promised")
  /\ UNCHANGED <<closed, works>>

(* An order closed while its key was being made gets the key only to lose it. *)
Give(o) ==
  /\ phase[o] = "promised" /\ o \in works
  /\ Becomes(o, IF o \in closed THEN "ending" ELSE "given")
  /\ UNCHANGED <<closed, works>>

Drop(o) ==
  /\ phase[o] = "promised" /\ o \in closed
  /\ Becomes(o, "ended")
  /\ UNCHANGED <<closed, works>>

Close(o) ==
  /\ o \notin closed
  /\ closed' = closed \cup {o}
  /\ Becomes(o, IF phase[o] = "given" THEN "ending" ELSE phase[o])
  /\ UNCHANGED works

TakeAway(o) ==
  /\ phase[o] = "ending" /\ o \notin works
  /\ Becomes(o, "ended")
  /\ UNCHANGED <<closed, works>>

(* The server: a key comes and goes while it is being made, and goes while it
   is being taken away. *)
Serve(o) ==
  /\ \/ phase[o] = "promised" /\ works' \in {works \cup {o}, works \ {o}}
     \/ phase[o] = "ending" /\ works' = works \ {o}
  /\ UNCHANGED <<phase, closed>>

Next ==
  \E o \in Orders :
    Promise(o) \/ Give(o) \/ Drop(o) \/ Close(o) \/ TakeAway(o) \/ Serve(o)

Spec == Init /\ [][Next]_accessState
=============================================================================
