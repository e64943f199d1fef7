------------------------------- MODULE Services -------------------------------
(***************************************************************************)
(* Six small models side by side: the initial state chooses one of them,   *)
(* whose steps the behaviour takes while the others rest.  They share no   *)
(* state, so nothing is lost by not interleaving them.                     *)
(***************************************************************************)
EXTENDS Relay, MeshTransport, ArtifactDelivery, ShortLinks, Episodes, PackHost

VARIABLE focus    \* the model that takes the steps

-----------------------------------------------------------------------------
Init ==
  /\ RelayInit /\ TransportInit /\ DeliveryInit /\ LinksInit /\ EpisodesInit /\ HostInit
  /\ focus \in {"relay", "transport", "delivery", "links", "episodes", "host"}
  \* Only the model in focus has more than one initial state.
  /\ focus # "delivery" => job = [kind |-> "xlsx", skip |-> 0, export |-> FALSE, nas |-> "none", evidence |-> FALSE] /\ sound
  /\ focus # "host" => env = {}

Rest(vars) == UNCHANGED focus /\ UNCHANGED vars

Next ==
  \/ focus = "relay" /\ RelayNext
       /\ Rest(<<transportVars, deliveryVars, linksVars, episodesVars, hostVars>>)
  \/ focus = "transport" /\ TransportNext
       /\ Rest(<<relayVars, deliveryVars, linksVars, episodesVars, hostVars>>)
  \/ focus = "delivery" /\ DeliveryNext
       /\ Rest(<<relayVars, transportVars, linksVars, episodesVars, hostVars>>)
  \/ focus = "links" /\ LinksNext
       /\ Rest(<<relayVars, transportVars, deliveryVars, episodesVars, hostVars>>)
  \/ focus = "episodes" /\ EpisodesNext
       /\ Rest(<<relayVars, transportVars, deliveryVars, linksVars, hostVars>>)
  \/ focus = "host" /\ HostNext
       /\ Rest(<<relayVars, transportVars, deliveryVars, linksVars, episodesVars>>)

allVars == <<focus, relayVars, transportVars, deliveryVars, linksVars, episodesVars, hostVars>>

Spec == Init /\ [][Next]_allVars

\* Each of the six has its types.
TypeOK ==
  /\ RelayTypeOK /\ TransportTypeOK /\ DeliveryTypeOK
  /\ LinksTypeOK /\ EpisodesTypeOK /\ HostTypeOK

\* The two small stores: links lead to their URL for good, and the event log
\* keeps what it accepted in the order in which it accepted it.
SmallStoresSound == LinksResolve /\ HistoryInOrder
=============================================================================
