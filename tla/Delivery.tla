------------------------------ MODULE Delivery ------------------------------
(***************************************************************************)
(* What the QoS 1 and QoS 2 flows promise, without packets, identifiers or *)
(* tables.  A call of publish succeeds only once the server has taken the  *)
(* message.  A QoS 2 message of the server is held by the loop before the  *)
(* server lets go of it, stays held until it is passed on, and is passed   *)
(* on once.                                                                *)
(***************************************************************************)
EXTENDS Naturals

CONSTANTS Out,  \* messages the client publishes
          In    \* QoS 2 messages the server publishes

VARIABLES
  told,      \* what the caller of each publish knows
  taken,     \* messages the server has taken
  held,      \* messages the loop holds for its subscribers
  passedOn,  \* how often each was passed on
  released   \* messages the server has let go of

vars == <<told, taken, held, passedOn, released>>

Init ==
  /\ told = [m \in Out |-> "idle"] /\ taken = {}
  /\ held = {} /\ passedOn = [x \in In |-> 0] /\ released = {}

\* A call waits, or fails at once.
Call(m) ==
  /\ told[m] = "idle"
  /\ \E v \in {"waiting", "failed"} : told' = [told EXCEPT ![m] = v]
  /\ UNCHANGED <<taken, held, passedOn, released>>

\* The server may take a message whose caller has given up.
TakeOver(m) ==
  /\ told[m] # "idle" /\ taken' = taken \cup {m}
  /\ UNCHANGED <<told, held, passedOn, released>>

Succeed(m) ==
  /\ told[m] = "waiting" /\ m \in taken
  /\ told' = [told EXCEPT ![m] = "ok"]
  /\ UNCHANGED <<taken, held, passedOn, released>>

\* A connection or the loop may end many calls at the same time.
Fail(M) ==
  /\ told' = [m \in Out |-> IF m \in M /\ told[m] = "waiting" THEN "failed" ELSE told[m]]
  /\ UNCHANGED <<taken, held, passedOn, released>>

Hold(x) ==
  /\ x \notin held /\ passedOn[x] = 0 /\ x \notin released
  /\ held' = held \cup {x} /\ UNCHANGED <<told, taken, passedOn, released>>

Release(x) ==
  /\ x \in held \/ passedOn[x] > 0
  /\ released' = released \cup {x} /\ UNCHANGED <<told, taken, held, passedOn>>

PassOn(x) ==
  /\ x \in held /\ x \in released /\ passedOn[x] = 0
  /\ held' = held \ {x} /\ passedOn' = [passedOn EXCEPT ![x] = 1]
  /\ UNCHANGED <<told, taken, released>>

Next ==
  \/ \E m \in Out : Call(m) \/ TakeOver(m) \/ Succeed(m)
  \/ \E M \in SUBSET Out : Fail(M)
  \/ \E x \in In : Hold(x) \/ Release(x) \/ PassOn(x)

Spec == Init /\ [][Next]_vars
=============================================================================
