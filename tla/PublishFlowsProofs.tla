------------------------- MODULE PublishFlowsProofs -------------------------
(***************************************************************************)
(* Proofs about the tables of the publish flows, for any messages, any     *)
(* numbering of packets (the literal identifier of the code included), any *)
(* faults and any number of new connections and restarts.                  *)
(*                                                                         *)
(* That a removed packet is not the packet of another flow needs two facts *)
(* the tables do not show: a message has one flow at most, and one that    *)
(* has a flow was published, so it is not published again.                 *)
(***************************************************************************)
EXTENDS PublishFlows, TLAPS

Replies == {"idle", "waiting", "ok", "lost", "persistence", "loopError"}

Tables ==
  /\ sent \in [Ids -> Entries \cup {NoEntry}]
  /\ reply \in [Out -> Replies]

OneFlowEach ==
  \A i, j \in Ids : Tracked(i) /\ Tracked(j) /\ sent[i].msg = sent[j].msg => i = j

FlowsAreStarted == \A id \in Ids : Tracked(id) => reply[sent[id].msg] # "idle"

IInv ==
  /\ Tables
  /\ OneFlowEach
  /\ FlowsAreStarted
  /\ InFlightIsPersisted
  /\ WaitingIsTracked

USE PublishAssumption
    DEF Replies, Tables, OneFlowEach, FlowsAreStarted, InFlightIsPersisted,
        WaitingIsTracked, IInv, Entries, Entry, Tracked, InState, Persisted

\* What no handler of a packet of the server, and no event outside the
\* tables, disturbs.
LEMMA Undisturbed == IInv /\ UNCHANGED <<sent, store, reply>> => IInv'
  OBVIOUS

\* A new flow under any identifier, an old one there being dropped.
LEMMA ClientPublishStep ==
  ASSUME IInv, NEW m \in Out, ClientPublish(m)
  PROVE  IInv'
<1>1. CASE UNCHANGED <<sent, store>>
  BY <1>1 DEF ClientPublish
<1>2. CASE /\ store' = store \cup {<<"Publish", m>>}
           /\ sent' = [sent EXCEPT ![IdOf[m]] = Entry("Sent", m)]
  <2>1. reply[m] = "idle" /\ reply'[m] \in {"waiting", "loopError"}
    BY <1>2 DEF ClientPublish
  <2>2. Tables'
    BY <1>2 DEF ClientPublish
  <2>3. OneFlowEach' /\ FlowsAreStarted'
    BY <1>2, <2>1 DEF ClientPublish
  <2>4. InFlightIsPersisted'
    BY <1>2
  <2>5. WaitingIsTracked'
    BY <1>2, <2>1 DEF ClientPublish
  <2> QED
    BY <2>2, <2>3, <2>4, <2>5
<1> QED
  BY <1>1, <1>2 DEF ClientPublish

\* A flow ends, and its call is answered or dropped.
LEMMA FlowEnds ==
  ASSUME IInv, NEW id \in Ids, Tracked(id), NEW v \in Replies \ {"idle", "waiting"},
         Forget(id), Resolve({sent[id].msg}, v),
         store' \in {store, store \ {Persisted(sent[id])}}
  PROVE  IInv'
<1> USE DEF Forget, Resolve
<1>1. Tables'
  OBVIOUS
<1>2. \A i \in Ids : Tracked(i)' => Tracked(i) /\ i # id /\ sent'[i] = sent[i]
  OBVIOUS
<1>3. OneFlowEach' /\ FlowsAreStarted'
  BY <1>2
<1>4. InFlightIsPersisted'
  BY <1>2
<1>5. WaitingIsTracked'
  BY <1>2
<1> QED
  BY <1>1, <1>3, <1>4, <1>5

\* A flow goes on in its second state, with its own packet in the store.
LEMMA FlowIsReleased ==
  ASSUME IInv, NEW id \in Ids, Tracked(id), UNCHANGED reply,
         NEW e, e = Entry("Released", sent[id].msg),
         sent' = [sent EXCEPT ![id] = e],
         store' = (store \ {Persisted(sent[id])}) \cup {Persisted(e)}
  PROVE  IInv'
<1>1. \A i \in Ids : /\ Tracked(i)' <=> Tracked(i)
                     /\ Tracked(i) => sent'[i].msg = sent[i].msg
                     /\ i # id => sent'[i] = sent[i]
  OBVIOUS
<1>2. Tables' /\ sent'[id] = e
  OBVIOUS
<1>3. OneFlowEach' /\ FlowsAreStarted' /\ WaitingIsTracked'
  BY <1>1
<1>4. InFlightIsPersisted'
  BY <1>1, <1>2
<1> QED
  BY <1>2, <1>3, <1>4

\* The loop panics or starts again: nobody waits any more.
LEMMA AllAreDropped ==
  ASSUME IInv, Resolve(Out, "lost"),
         \/ UNCHANGED <<sent, store>>
         \/ sent' = [id \in Ids |-> NoEntry]
  PROVE  IInv'
BY DEF Resolve

\* A packet of the server: the acknowledgements end or release a flow, the
\* others leave the client's tables alone.
LEMMA ReceiveStep == IInv /\ Receive => IInv'
<1> SUFFICES ASSUME IInv, Receive PROVE IInv'
  OBVIOUS
<1> DEFINE p == Head(down)
<1>1. CASE Ignore
  BY <1>1, Undisturbed DEF Ignore, tables, caller
<1>2. CASE publish_handler(p.msg)
  BY <1>2, Undisturbed DEF publish_handler, Ignore, tables, caller
<1>3. CASE pub_rel_handler(p.id)
  BY <1>3, Undisturbed DEF pub_rel_handler, Ignore, tables, caller
<1>4. CASE Panic
  BY <1>4, AllAreDropped DEF Panic, tables
<1>5. CASE pub_ack_handler(p.id)
  BY <1>1, <1>4, <1>5, FlowEnds DEF pub_ack_handler
<1>6. CASE pub_comp_handler(p.id)
  BY <1>1, <1>4, <1>6, FlowEnds DEF pub_comp_handler
<1>7. CASE pub_rec_handler(p.id)
  <2> SUFFICES ASSUME InState(p.id, "Sent"), ~Ignore, ~Panic PROVE IInv'
    BY <1>1, <1>4, <1>7 DEF pub_rec_handler
  <2> DEFINE e == Entry("Released", sent[p.id].msg)
             without == store \ {Persisted(sent[p.id])}
  <2>1. CASE /\ sent' = [sent EXCEPT ![p.id] = e]
             /\ store' = without \cup {Persisted(e)}
             /\ UNCHANGED reply
    BY <2>1, FlowIsReleased
  <2>2. CASE Forget(p.id) /\ UNCHANGED store /\ Resolve({sent[p.id].msg}, "lost")
    BY <2>2, FlowEnds
  <2>3. CASE Forget(p.id) /\ store' = without /\ Resolve({sent[p.id].msg}, "persistence")
    BY <2>3, FlowEnds
  <2> QED
    <3> HIDE DEF Entry, Persisted, Tracked, InState, IInv, Tables
    <3> QED
      BY <1>7, <2>1, <2>2, <2>3 DEF pub_rec_handler
<1> QED
  BY <1>1, <1>2, <1>3, <1>5, <1>6, <1>7 DEF Receive

\* Every step of Next keeps IInv.
LEMMA Inductive == Spec => []IInv
<1>1. Init => IInv
  BY DEF Init
<1>2. IInv /\ [Next]_vars => IInv'
  <2> SUFFICES ASSUME IInv, [Next]_vars PROVE IInv'
    OBVIOUS
  <2>1. ASSUME NEW m \in Out, ClientPublish(m) PROVE IInv'
    BY <2>1, ClientPublishStep
  <2>2. CASE Receive
    BY <2>2, ReceiveStep
  <2>3. CASE Restart
    BY <2>3, AllAreDropped DEF Restart
  <2>4. CASE UNCHANGED <<sent, store, reply>>
    BY <2>4, Undisturbed
  <2> QED
    BY <2>1, <2>2, <2>3, <2>4
    DEF Next, Disconnect, Suspend, ConnectionLost, Reconnect, ServerPublish, ServerReceive,
        vars, tables, caller
<1> QED
  BY <1>1, <1>2, PTL DEF Spec

\* Every flow of client_publish_state has its packet in the store
\* (inbound_handlers.rs:183-192, outbound_handlers.rs:88-93), so that it
\* could be sent again.
THEOREM FlowsArePersisted == Spec => []InFlightIsPersisted
<1>1. IInv => InFlightIsPersisted
  OBVIOUS
<1> QED
  BY <1>1, Inductive, PTL

\* A publish call that waits has its sender in client_publish_state.
THEOREM WaitersAreTracked == Spec => []WaitingIsTracked
<1>1. IInv => WaitingIsTracked
  OBVIOUS
<1> QED
  BY <1>1, Inductive, PTL
=============================================================================
