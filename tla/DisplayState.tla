------------------------------ MODULE DisplayState ------------------------------
(***************************************************************************)
(* The in-memory state of the display controller daemon (domain.rs) and the *)
(* operations on it that are not event handlers.                            *)
(*                                                                          *)
(* Times.  The code keeps absolute monotonic milliseconds and only ever      *)
(* compares them with "now".  Here a time is the duration REMAINING until it *)
(* is due: `now + T' is T, `t <= now' is t = 0, and Elapse lowers every time *)
(* by one clock unit, stopping at 0 (due).                                   *)
(***************************************************************************)
EXTENDS Integers, Sequences, FiniteSetsExt

CONSTANTS
    Hosts,              \* Host::ALL
    Server,             \* server_host, the host the input falls back to
    DisplayHosts,       \* hosts with a managed display input (config.inputs)
    Requests,           \* request ids chosen by the clients
    Leases,             \* bundle lease identities (client id, lease id and epoch)
    RetainedRequests,   \* retained_request_limit
    COMMAND_MS, OBSERVATION_MS, GRANT_MS, WAKE_MS, LEASE_MS, SIGNAL_POLL_MS,
    None                \* Option::None

ASSUME ConfigAssumption ==
    /\ Server \in DisplayHosts /\ DisplayHosts \subseteq Hosts
    /\ RetainedRequests \in Nat \ {0}
    /\ {COMMAND_MS, OBSERVATION_MS, GRANT_MS, WAKE_MS, LEASE_MS, SIGNAL_POLL_MS}
            \subseteq Nat \ {0}

WsStates == {"Disconnected", "Connecting", "Registering", "Synchronizing", "Connected"}
TvModes == {"Unknown", "Fullscreen", "Multiview"}
Phases == {"Idle", "Waking", "Switching", "Verifying", "GrantPending", "RemoteOwned",
           "FallbackCommandPending", "FallbackVerifying", "FallbackDeferred",
           "MultiviewChanging"}
LiveStatus == {"Waking", "Switching", "Grant"}
FinalStatus == {"Committed", "Denied", "Cancelled", "Fallback", "Expired"}

Option(S) == S \cup {None}

(* keyboard_ready and pointer_ready only ever occur together in bundle_ready. *)
PeerReadiness == [online : BOOLEAN, ready : BOOLEAN, session_epoch : Nat]
BundleReady(peer, epoch) == peer.online /\ peer.ready /\ peer.session_epoch = epoch

LeaseIdentity == [id : Leases, peer_session_epoch : Nat \ {0}, expires : Nat]
GrantIdentity == [grant_epoch : Nat, switch_epoch : Nat, expires : Nat]
SignalObservation == [present : BOOLEAN, switch_epoch : Nat]

EnterRequest ==
    [request_id : Requests, target : Hosts, request_epoch : Nat,
     lease : LeaseIdentity, status : LiveStatus, switch_epoch : Option(Nat),
     grant : Option(GrantIdentity), deadline : Nat]

(* What is still read of a request once it is in request_history. *)
ArchivedRequest ==
    [request_id : Requests, target : Hosts, request_epoch : Nat, lease : Leases,
     grant_epoch : Option(Nat), status : FinalStatus]

ActiveSession ==
    [request_id : Requests, target : Hosts, request_epoch : Nat, switch_epoch : Nat,
     lease : LeaseIdentity, renewed_until : Nat]

(* None is no value of any type it is an option of. *)
ASSUME NoneAssumption ==
    None \notin Nat \cup Hosts \cup BOOLEAN \cup EnterRequest \cup ActiveSession
                 \cup GrantIdentity \cup LeaseIdentity \cup (Hosts \X Leases)

Effect ==
    [type : {"SetInput"}, target : Hosts, switch_epoch : Nat, fallback : BOOLEAN]
        \cup [type : {"Observe"}, switch_epoch : Nat]
        \cup [type : {"Wake"}, target : Hosts]
        \cup [type : {"SetMultiView"}, enabled : BOOLEAN, switch_epoch : Nat]

(* subscribe_active and synchronized are functions of ws_state in every      *)
(* handler; `effects' is the handler's list of effects.                      *)
ProtocolState ==
    [ws_state : WsStates, phase : Phases, tv_mode : TvModes,
     commanded_input : Option(Hosts), observed_input : Option(Hosts),
     input_signal : [DisplayHosts -> SignalObservation],
     peers : [Hosts -> PeerReadiness],
     request_epoch : Nat, switch_epoch : Nat, grant_epoch : Nat,
     verified_epoch : Option(Nat),
     keyboard_owner : Hosts, pointer_owner : Hosts,
     active_request : Option(EnterRequest),
     request_history : Seq(ArchivedRequest),
     active_session : Option(ActiveSession),
     pending_multiview : Option(BOOLEAN),
     observation_in_flight : Option(Nat),
     phase_deadline : Option(Nat), next_signal_poll : Option(Nat),
     fallback_required : BOOLEAN,
     manual_recovery_target : Option(Hosts),
     effects : Seq(Effect)]

WithDisplayHosts ==
    [ws_state |-> "Disconnected", phase |-> "FallbackDeferred", tv_mode |-> "Unknown",
     commanded_input |-> None, observed_input |-> None,
     input_signal |-> [h \in DisplayHosts |-> [present |-> FALSE, switch_epoch |-> 0]],
     peers |-> [h \in Hosts |-> [online |-> FALSE, ready |-> FALSE, session_epoch |-> 0]],
     request_epoch |-> 0, switch_epoch |-> 0, grant_epoch |-> 0,
     verified_epoch |-> None,
     keyboard_owner |-> Server, pointer_owner |-> Server,
     active_request |-> None, request_history |-> <<>>, active_session |-> None,
     pending_multiview |-> None, observation_in_flight |-> None,
     phase_deadline |-> None, next_signal_poll |-> None,
     fallback_required |-> TRUE, manual_recovery_target |-> None,
     effects |-> <<>>]

HasDisplayRoute(host) == host \in DisplayHosts
DaemonHealthy(s) == s.ws_state = "Connected"
Ready(s) == DaemonHealthy(s) /\ ~s.fallback_required /\ s.phase # "FallbackDeferred"

(* Positions of a request id in the history; the code reads the newest one. *)
Archived(s, id) == {i \in DOMAIN s.request_history : s.request_history[i].request_id = id}

(* Mutant of ArchiveRequest: one entry more than the limit is kept. *)
ArchiveRequestOneTooMany(s, request, status) ==
    LET keep == SelectSeq(s.request_history,
                          LAMBDA e : e.request_id # request.request_id)
        excess == IF Len(keep) > RetainedRequests THEN Len(keep) - RetainedRequests ELSE 0
    IN  [s EXCEPT !.request_history =
            Append(SubSeq(keep, excess + 1, Len(keep)),
                   [request_id |-> request.request_id, target |-> request.target,
                    request_epoch |-> request.request_epoch, lease |-> request.lease.id,
                    grant_epoch |-> IF request.grant = None THEN None
                                    ELSE request.grant.grant_epoch,
                    status |-> status])]

(* remove of VecDeque: the sequence without its i-th element. *)
Removed(seq, i) == SubSeq(seq, 1, i - 1) \o SubSeq(seq, i + 1, Len(seq))

(* An older entry of the same id is removed, the oldest entries make room. *)
ArchiveRequest(s, request, status) ==
    LET same == Archived(s, request.request_id)
        others == IF same = {} THEN s.request_history
                  ELSE Removed(s.request_history, Min(same))
        excess == IF Len(others) >= RetainedRequests
                  THEN Len(others) - RetainedRequests + 1 ELSE 0
        entry == [request_id |-> request.request_id, target |-> request.target,
                  request_epoch |-> request.request_epoch, lease |-> request.lease.id,
                  grant_epoch |-> IF request.grant = None THEN None
                                  ELSE request.grant.grant_epoch,
                  status |-> status]
    IN  [s EXCEPT !.request_history =
            Append(SubSeq(others, excess + 1, Len(others)), entry)]

SessionDeadline(session) ==
    IF session.renewed_until < session.lease.expires
    THEN session.renewed_until ELSE session.lease.expires

Deadlines(s) ==
    ({s.phase_deadline, s.next_signal_poll} \ {None})
        \cup (IF s.active_request = None THEN {} ELSE {s.active_request.deadline})
        \cup (IF s.active_session = None THEN {} ELSE {SessionDeadline(s.active_session)})

(* next_deadline_ms() is Some(d) with d <= now. *)
DeadlineDue(s) == 0 \in Deadlines(s)

TargetDisplayVerified(s, target, epoch) ==
    /\ s.tv_mode = "Fullscreen"
    /\ s.observed_input = target
    /\ target \in DisplayHosts
    /\ s.input_signal[target].present
    /\ s.input_signal[target].switch_epoch = epoch

ServerDisplayVerified(s, epoch) == TargetDisplayVerified(s, Server, epoch)

(* The conditions of validate(), negated: the state is accepted. *)
Validate(s) ==
    /\ s.keyboard_owner = s.pointer_owner
    /\ s.fallback_required => s.keyboard_owner = Server
    /\ s.manual_recovery_target # Server
    /\ s.manual_recovery_target # None =>
            s.active_request = None /\ s.active_session = None /\ s.keyboard_owner = Server
    /\ s.keyboard_owner # Server =>
            /\ s.active_session # None
            /\ s.active_session.target = s.keyboard_owner
            /\ s.active_session.renewed_until > 0 /\ s.active_session.lease.expires > 0
            /\ BundleReady(s.peers[s.active_session.target],
                           s.active_session.lease.peer_session_epoch)
            /\ HasDisplayRoute(s.active_session.target) =>
                /\ TargetDisplayVerified(s, s.active_session.target,
                                         s.active_session.switch_epoch)
                /\ s.verified_epoch = s.active_session.switch_epoch
    /\ s.active_request # None /\ s.active_request.status = "Grant" =>
            /\ s.active_request.grant # None
            /\ s.active_request.switch_epoch = s.active_request.grant.switch_epoch
            /\ s.verified_epoch = s.active_request.grant.switch_epoch
--------------------------------------------------------------------------------
(* Time. *)

Lower(t) == IF t = None \/ t = 0 THEN t ELSE t - 1

LowerExpiry(token) == IF token = None THEN None ELSE [token EXCEPT !.expires = Lower(@)]

ElapseRequest(request) ==
    IF request = None THEN None
    ELSE [request EXCEPT !.deadline = Lower(@), !.lease = LowerExpiry(@),
                         !.grant = LowerExpiry(@)]

ElapseSession(session) ==
    IF session = None THEN None
    ELSE [session EXCEPT !.renewed_until = Lower(@), !.lease = LowerExpiry(@)]

(* Every time of the state one unit closer to being due. *)
Elapse(s) ==
    [s EXCEPT
        !.phase_deadline = Lower(@),
        !.next_signal_poll = Lower(@),
        !.active_request = ElapseRequest(@),
        !.active_session = ElapseSession(@)]
================================================================================
