---------------------------- MODULE PacketStore ----------------------------
(***************************************************************************)
(* What the Persistence trait promises its user (persistence/mod.rs): one  *)
(* store of packets for each client and server, of which one is open at a  *)
(* time; every operation takes effect at once and in full, or fails and    *)
(* changes nothing; what is stored outlives a shutdown.                    *)
(*                                                                         *)
(* The contract lets any operation fail.  What it does not allow is a      *)
(* failed operation that shows, a successful one that does not, or an      *)
(* operation on one store that another store can see.                      *)
(***************************************************************************)
CONSTANTS Stores, Keys, Packets, NoStore, Absent

VARIABLES
  opened,  \* the open store
  kept,    \* store -> key -> the packet under it
  answer   \* what the last operation returned

vars == <<opened, kept, answer>>

Empty == [k \in Keys |-> Absent]

\* What an operation can return.
Ok == [is |-> "ok", packet |-> Absent, keys |-> {}]
Err == [is |-> "err", packet |-> Absent, keys |-> {}]
Found(v) == [is |-> "found", packet |-> v, keys |-> {}]
Listed(K) == [is |-> "listed", packet |-> Absent, keys |-> K]

Init ==
  /\ opened = NoStore
  /\ kept = [s \in Stores |-> Empty]
  /\ answer = Ok

Fail == answer' = Err /\ UNCHANGED <<opened, kept>>

Open(s) == opened' = s /\ answer' = Ok /\ UNCHANGED kept

Close == opened' = NoStore /\ answer' = Ok /\ UNCHANGED kept

\* Rule 3: the packet is saved, or the operation fails.
Put(k, v) ==
  /\ kept' = [kept EXCEPT ![opened] = [kept[opened] EXCEPT ![k] = v]]
  /\ answer' = Ok /\ UNCHANGED opened

Get(k) ==
  /\ kept[opened][k] # Absent
  /\ answer' = Found(kept[opened][k])
  /\ UNCHANGED <<opened, kept>>

Contains(k) ==
  /\ answer' = Listed({k} \cap {j \in Keys : kept[opened][j] # Absent})
  /\ UNCHANGED <<opened, kept>>

\* Rule 4: what is removed cannot be retrieved any more.
Remove(k) ==
  /\ kept[opened][k] # Absent
  /\ kept' = [kept EXCEPT ![opened] = [kept[opened] EXCEPT ![k] = Absent]]
  /\ answer' = Ok /\ UNCHANGED opened

\* The keys listed are keys of the store, "keys in the cache" (mod.rs:38): the
\* trait does not say that it lists them all.
ListKeys ==
  /\ \E K \in SUBSET {k \in Keys : kept[opened][k] # Absent} : answer' = Listed(K)
  /\ UNCHANGED <<opened, kept>>

\* Rule 5.
Clear ==
  /\ kept' = [kept EXCEPT ![opened] = Empty]
  /\ answer' = Ok /\ UNCHANGED opened

\* Rule 2: a shutdown closes the store and loses nothing.
Shutdown == opened' = NoStore /\ answer' = Ok /\ UNCHANGED kept

Next ==
  \/ \E s \in Stores : Open(s)
  \/ Close
  \/ Shutdown
  \/ /\ opened \in Stores
     /\ \/ Fail \/ ListKeys \/ Clear
        \/ \E k \in Keys : Get(k) \/ Contains(k) \/ Remove(k)
        \/ \E k \in Keys, v \in Packets : Put(k, v)

Spec == Init /\ [][Next]_vars
=============================================================================
