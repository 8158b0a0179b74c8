----------------------------- MODULE MCDispatch -----------------------------
(***************************************************************************)
(* Instances of Dispatch for TLC.  The clients of a run are given the      *)
(* requests that the programs of the repository make: UXService subscribes *)
(* to everything and unsubscribes from clients without a user interface,   *)
(* devices register and map types, PlantHealth subscribes to one name.     *)
(***************************************************************************)
EXTENDS Dispatch, TLC

CONSTANTS c1, c2, c3

Clients == {c1, c2, c3}

(* Three ways to subscribe to and leave two devices, of which one maps a   *)
(* type and the other registers again and again.                           *)
SubscriberRoles ==
  [c \in Clients |->
     CASE c = c1 -> {"subscribeAll", "subscribe", "unsubscribe"}
       [] c = c2 -> {"register", "mapType"}
       [] c = c3 -> {"register", "rename"}]

(* UXService, a second UXService, which asks every channel for its state   *)
(* by a directed message, and a device.                                    *)
UxRoles ==
  [c \in Clients |-> CASE c = c1 -> {"subscribeAll", "unsubscribe"}
                       [] c = c2 -> {"register", "sendTo"}
                       [] c = c3 -> {"register"}]

(* A chain of subscriptions, so that one object may keep another alive.    *)
ChainRoles ==
  [c \in Clients |-> CASE c = c1 -> {"subscribeAll"}
                       [] c = c2 -> {"register", "subscribe"}
                       [] c = c3 -> {"register"}]

(* Two clients; one sends the other a directed message.                    *)
DirectedRoles ==
  [c \in {c1, c2} |-> IF c = c1 THEN {"register", "mapType", "sendTo"}
                      ELSE {"subscribe"}]
=============================================================================
