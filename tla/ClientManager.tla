--------------------------- MODULE ClientManager ---------------------------
(***************************************************************************)
(* The registry of Modbus clients (client_manager.py), for one connection  *)
(* id: one "host:port" or one serial port.  All controllers of that link   *)
(* share the registry's entry: a pymodbus client object, a reference count *)
(* and the time of the last request, which paces the frames on the link.   *)
(*                                                                         *)
(* The manager has no task of its own.  Its methods run inside the steps   *)
(* of the controllers (module ModbusController), so this module defines    *)
(* them as action formulas over the registry's variables.                  *)
(***************************************************************************)
EXTENDS Naturals

CONSTANTS Clients,   \* the client objects the process may construct
          NoClient   \* the value of "no entry for this connection id"

ASSUME ClientAssumption == NoClient \notin Clients

VARIABLES
    entry,      \* _clients[connection_id]["client"], NoClient without an entry
    refCount,   \* _clients[connection_id]["ref_count"]
    stamped,    \* last_modbus_request lies less than MIN_INTER_FRAME_MS back
    made,       \* the client objects constructed so far
    link        \* per client object, the state of its transport

managerVars == <<entry, refCount, stamped, made, link>>

(***************************************************************************)
(* The transport of a pymodbus client.  "retrying" is a lost connection    *)
(* that pymodbus is re-opening by itself: connected is False, but the      *)
(* client is not closed.                                                   *)
(***************************************************************************)
LinkStates == {"closed", "open", "retrying"}

ManagerTypeOK ==
    /\ entry \in Clients \cup {NoClient}
    /\ refCount \in Nat
    /\ stamped \in BOOLEAN
    /\ made \in SUBSET Clients
    /\ link \in [Clients -> LinkStates]

ManagerInit ==
    /\ entry = NoClient
    /\ refCount = 0
    /\ stamped = FALSE
    /\ made = {}
    /\ link = [cl \in Clients |-> "closed"]

\* client.connected
Connected(cl) == link[cl] = "open"

\* Variant with a defect, to test the properties: an entry that exists is not counted.
GetClientUncounted(cl) ==
    /\ entry \in {NoClient, cl} /\ cl \in Clients
    /\ entry = NoClient => cl \notin made
    /\ entry' = cl
    /\ made' = made \cup {cl}
    /\ refCount' = 1
    /\ stamped' = (stamped /\ entry = cl)
    /\ UNCHANGED link

(***************************************************************************)
(* get_tcp_client and get_serial_client: cl is the client returned.  The   *)
(* two differ only in the class of the client they construct.              *)
(***************************************************************************)
GetClient(cl) ==
    /\ \/ /\ entry = NoClient
          /\ cl \in Clients \ made
          /\ entry' = cl
          /\ made' = made \cup {cl}
          /\ refCount' = 1
          /\ stamped' = FALSE
       \/ /\ entry = cl
          /\ cl \in Clients
          /\ refCount' = refCount + 1
          /\ UNCHANGED <<entry, made, stamped>>
    /\ UNCHANGED link

\* Variant with a defect, to test the properties: the last holder closes only a connected client.
ReleaseConnectedClient ==
    /\ \/ refCount > 1 /\ refCount' = refCount - 1 /\ UNCHANGED <<entry, stamped, link>>
       \/ /\ refCount = 1
          /\ link' = [link EXCEPT ![entry] = IF @ = "open" THEN "closed" ELSE @]
          /\ entry' = NoClient
          /\ refCount' = 0
          /\ stamped' = FALSE
    /\ UNCHANGED made

(***************************************************************************)
(* release_client: the last holder closes the client, whatever the state   *)
(* of its transport, and drops the entry together with its time stamp.     *)
(***************************************************************************)
ReleaseClient ==
    /\ \/ /\ entry = NoClient
          /\ UNCHANGED <<entry, refCount, stamped, link>>
       \/ /\ entry # NoClient
          /\ refCount > 1
          /\ refCount' = refCount - 1
          /\ UNCHANGED <<entry, stamped, link>>
       \/ /\ entry # NoClient
          /\ refCount <= 1
          /\ link' = [link EXCEPT ![entry] = "closed"]
          /\ entry' = NoClient
          /\ refCount' = 0
          /\ stamped' = FALSE
    /\ UNCHANGED made

\* Variant with a defect, to test the properties: the client is closed for all its users.
CloseAnyway(cl) == link' = [link EXCEPT ![cl] = "closed"]

\* close_if_released: close a client that the registry no longer holds.
CloseIfReleased(cl) ==
    link' = IF entry = cl THEN link ELSE [link EXCEPT ![cl] = "closed"]

\* inter_frame_wait sleeps first when the entry's last request is too recent ...
MustSpace == entry # NoClient /\ stamped

\* ... and then stamps the entry, if there is one, right before the request.
Stamp == stamped' = (stamped \/ entry # NoClient)

=============================================================================
