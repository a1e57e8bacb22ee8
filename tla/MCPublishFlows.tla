--------------------------- MODULE MCPublishFlows ---------------------------
(***************************************************************************)
(* Instances of PublishFlows for TLC: the two ways to number packets.      *)
(***************************************************************************)
EXTENDS PublishFlows

\* What the handlers need: an identifier for each message.
OwnIdentifier == [m \in Out |-> m]

\* What ClientPublish::handle sends: the literal 4 for all of them
\* (outbound_handlers.rs:97).
OneIdentifier == [m \in Out |-> CHOOSE id \in Ids : TRUE]
=============================================================================
