--------------------------- MODULE ProtocolRefinement ---------------------------
(* The coordinator around the transition function implements RequestLife. *)
EXTENDS MCProtocol

AbstractRequest ==
    IF Request = None THEN None
    ELSE [id |-> Request.request_id, to |-> Request.target, epoch |-> Request.request_epoch,
          status |-> Request.status, life |-> Request.lease.expires,
          grant |-> IF Request.grant = None THEN 0 ELSE Request.grant.expires]

(* A session lives until the earlier of its two deadlines. *)
AbstractSession ==
    IF Session = None THEN None
    ELSE [id |-> Session.request_id, to |-> Session.target, epoch |-> Session.request_epoch,
          life |-> Min({Session.renewed_until, Session.lease.expires})]

(* None is no request or session of RequestLife. *)
ASSUME LifeAssumption ==
    None \notin [id : Requests, to : Hosts, epoch : Nat, status : LiveStatus, life : Nat,
                 grant : Nat]
                 \cup [id : Requests, to : Hosts, epoch : Nat, life : Nat]

Life == INSTANCE RequestLife WITH
            Ids <- Requests, Lease <- LEASE_MS, Grant <- GRANT_MS,
            req <- AbstractRequest, ses <- AbstractSession,
            owner <- st.keyboard_owner, issued <- st.request_epoch

(* Every behaviour of the coordinator is one of RequestLife: whatever the TV, the    *)
(* peers and late or repeated calls do, a request gets a fresh epoch, moves forward  *)
(* only, becomes a session only through a live grant and lease, and the input is     *)
(* with the session's host from the commit until the session ends (protocol.rs).     *)
ImplementsRequestLife == Life!Spec
================================================================================
