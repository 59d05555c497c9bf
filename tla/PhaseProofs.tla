------------------------------- MODULE PhaseProofs -------------------------------
(***************************************************************************)
(* Two arguments over the moves of ProtocolMoves.  Every move, and the passing *)
(* of time, keeps a state steady: phase, request, session and fallback fit each *)
(* other, no phase waits without a deadline, a grant is for the newest display  *)
(* command and the history keeps one entry per request.  And every move is a    *)
(* step of RequestLife, or changes nothing of what RequestLife sees.            *)
(***************************************************************************)
EXTENDS ProtocolMoves, ProtocolRefinement, TLAPS

(* How far the active request is, and what it has got for that. *)
InHand(s) ==
    LET request == s.active_request
    IN  request # None =>
        /\ request.switch_epoch \in {None, s.switch_epoch}
        /\ request.status = "Waking" <=> request.switch_epoch = None
        /\ request.status = "Grant" =>
            /\ request.grant # None
            /\ request.grant.switch_epoch = s.switch_epoch
            /\ request.grant.grant_epoch = s.grant_epoch
            /\ s.verified_epoch = s.switch_epoch
        /\ request.status # "Grant" => request.grant = None
        /\ Archived(s, request.request_id) = {}

(* The phases that wait for the TV on no request's behalf have their own deadline. *)
Awaited(s) ==
    /\ s.phase \in {"FallbackCommandPending", "FallbackVerifying", "MultiviewChanging"} =>
        s.phase_deadline # None
    /\ s.fallback_required => s.pending_multiview = None

Steady(s) == Coherent(s) /\ InHand(s) /\ Awaited(s) /\ Tidy(s)

(* What fits s fits t. *)
KeepsViews(s, t) ==
    \A e : (e.type = "SetMultiView" => e.switch_epoch \in Nat) /\ ViewFits(s, e)
            => ViewFits(t, e)

(* The request is the same, and so is all that a request in hand refers to. *)
LEMMA SameHand ==
    ASSUME NEW s, NEW t, InHand(s), t.active_request = s.active_request,
           t.switch_epoch = s.switch_epoch, t.grant_epoch = s.grant_epoch,
           t.verified_epoch = s.verified_epoch, t.request_history = s.request_history
    PROVE  InHand(t) /\ KeepsViews(s, t)
  <1>1. \A id : Archived(t, id) = Archived(s, id) BY DEF Archived
  <1>2. InHand(t) BY <1>1 DEF InHand
  <1> QED BY <1>2 DEF KeepsViews, ViewFits

(* Without a request there is nothing in hand. *)
LEMMA EmptyHand ==
    ASSUME NEW s \in ProtocolState, NEW t \in ProtocolState, t.active_request = None,
           t.switch_epoch >= s.switch_epoch
    PROVE  InHand(t) /\ KeepsViews(s, t)
  <1>1. s.switch_epoch \in Nat /\ t.switch_epoch \in Nat BY DEF ProtocolState
  <1>2. KeepsViews(s, t) BY <1>1 DEF KeepsViews, ViewFits
  <1> QED BY <1>2 DEF InHand

(* Moves that keep the request and what the display was told. *)
LEMMA LocalMoveSteady ==
    ASSUME NEW s \in ProtocolState, NEW t \in ProtocolState, Steady(s),
           \/ Keeps(s, t) \/ Connects(s, t) \/ Acknowledges(s, t) \/ Waits(s, t)
           \/ /\ ChangesView(s, t) /\ DaemonHealthy(s)
              /\ s.active_request = None \/ s.active_request.switch_epoch = None
    PROVE  Steady(t) /\ KeepsViews(s, t)
  <1>1. SameWork(s, t) /\ SameDisplay(s, t) /\ Carries(s, t)
    BY DEF Keeps, Connects, Acknowledges, Waits, ChangesView
  <1>2. InHand(t) /\ KeepsViews(s, t) BY <1>1, SameHand DEF Steady, SameWork, SameDisplay
  <1>3. Tidy(t) BY <1>1 DEF Carries, Steady
  <1>4. s.active_request # None => s.active_request.status \in LiveStatus
    BY DEF ProtocolState, Option, EnterRequest
  <1>5. Coherent(s) /\ InHand(s) /\ Awaited(s) BY DEF Steady
  <1>6. CASE Keeps(s, t)
    <2>1. Coherent(t) BY <1>1, <1>5, <1>6 DEF Coherent, Keeps, SameWork, SameDisplay, DaemonHealthy
    <2>2. Awaited(t) BY <1>1, <1>5, <1>6 DEF Awaited, Keeps, SameDisplay
    <2> QED BY <1>2, <1>3, <2>1, <2>2 DEF Steady
  <1>7. CASE Connects(s, t)
    <2>1. Coherent(t) BY <1>1, <1>5, <1>7 DEF Coherent, Connects, SameWork, SameDisplay
    <2>2. Awaited(t) BY <1>1, <1>5, <1>7 DEF Awaited, Connects, SameDisplay
    <2> QED BY <1>2, <1>3, <2>1, <2>2 DEF Steady
  <1>8. CASE Acknowledges(s, t)
    <2>1. Coherent(t)
      BY <1>1, <1>4, <1>5, <1>8
         DEF Coherent, Acknowledges, SameWork, SameDisplay, DaemonHealthy, LiveStatus
    <2>2. Awaited(t) BY <1>1, <1>5, <1>8 DEF Awaited, Acknowledges, SameDisplay
    <2> QED BY <1>2, <1>3, <2>1, <2>2 DEF Steady
  <1>9. CASE Waits(s, t)
    <2>1. Coherent(t)
      BY <1>1, <1>5, <1>9 DEF Coherent, Waits, SameWork, SameDisplay, DaemonHealthy
    <2>2. Awaited(t) BY <1>1, <1>5, <1>9 DEF Awaited, Waits, SameDisplay, Coherent
    <2> QED BY <1>2, <1>3, <2>1, <2>2 DEF Steady
  <1>10. CASE /\ ChangesView(s, t) /\ DaemonHealthy(s)
              /\ s.active_request = None \/ s.active_request.switch_epoch = None
    <2>1. Coherent(t)
      BY <1>1, <1>4, <1>5, <1>10
         DEF Coherent, ChangesView, SameWork, SameDisplay, DaemonHealthy, InHand, Awaited
    <2>2. Awaited(t) BY <1>1, <1>5, <1>10 DEF Awaited, ChangesView, SameDisplay
    <2> QED BY <1>2, <1>3, <2>1, <2>2 DEF Steady
  <1> QED BY <1>6, <1>7, <1>8, <1>9, <1>10

(* Moves that end without a request. *)
LEMMA IdleMoveSteady ==
    ASSUME NEW s \in ProtocolState, NEW t \in ProtocolState, Steady(s),
           \/ RequestsView(s, t) \/ CompletesView(s, t) \/ Retries(s, t) \/ Falls(s, t)
           \/ Finishes(s, t) \/ Accepts(s, t) \/ Denies(s, t) \/ Commits(s, t)
           \/ Drops(s, t) \/ Closes(s, t)
    PROVE  Steady(t) /\ KeepsViews(s, t)
  <1>1. Coherent(s) /\ InHand(s) /\ Awaited(s) /\ Tidy(s) BY DEF Steady
  <1>2. Tidy(t)
    BY <1>1 DEF Carries, RequestsView, CompletesView, Retries, Falls, Finishes, Accepts,
                Denies, Commits, Drops, Closes
  <1>3. s.switch_epoch \in Nat BY DEF ProtocolState
  <1>4. COMMAND_MS # None BY ConfigAssumption, NoneAssumption
  <1>5. CASE RequestsView(s, t)
    <2>1. t.active_request = None /\ t.switch_epoch >= s.switch_epoch
      BY SMTT(40), <1>3, <1>5 DEF RequestsView, SameWork
    <2>2. Coherent(t) BY <1>1, <1>5 DEF Coherent, RequestsView, SameWork, DaemonHealthy
    <2>3. Awaited(t) BY <1>1, <1>5 DEF Awaited, RequestsView
    <2> QED BY <1>2, <2>1, <2>2, <2>3, EmptyHand DEF Steady
  <1>6. CASE CompletesView(s, t)
    <2>1. t.active_request = None /\ t.switch_epoch >= s.switch_epoch
      BY <1>3, <1>6 DEF CompletesView, SameWork
    <2>2. Coherent(t) BY <1>1, <1>6 DEF Coherent, CompletesView, SameWork, DaemonHealthy
    <2>3. Awaited(t) BY <1>1, <1>6 DEF Awaited, CompletesView
    <2> QED BY <1>2, <2>1, <2>2, <2>3, EmptyHand DEF Steady
  <1>7. CASE Retries(s, t)
    <2>1. s.fallback_required /\ t.active_request = None /\ t.switch_epoch >= s.switch_epoch
      BY <1>1, <1>3, <1>7 DEF Retries, SameWork, Coherent
    <2>2. Coherent(t) BY <1>1, <1>7, <2>1 DEF Coherent, Retries, SameWork, DaemonHealthy
    <2>3. Awaited(t) BY <1>1, <1>7 DEF Awaited, Retries
    <2> QED BY SMTT(40), <1>2, <2>1, <2>2, <2>3, EmptyHand DEF Steady
  <1>8. CASE Falls(s, t)
    <2>1. t.active_request = None /\ t.switch_epoch >= s.switch_epoch
      BY <1>8 DEF Falls, Fallen
    <2>2. Coherent(t) BY <1>8 DEF Coherent, Falls, Fallen, DaemonHealthy
    <2>3. Awaited(t) BY SMTT(40), <1>4, <1>8 DEF Awaited, Falls, Fallen
    <2> QED BY <1>2, <2>1, <2>2, <2>3, EmptyHand DEF Steady
  <1>9. CASE Finishes(s, t)
    <2>1. t.active_request = None /\ t.switch_epoch >= s.switch_epoch
      BY <1>1, <1>3, <1>9 DEF Finishes, Coherent
    <2>2. Coherent(t) BY SMTT(40), <1>9, <2>1 DEF Coherent, Finishes
    <2>3. Awaited(t) BY <1>9 DEF Awaited, Finishes
    <2> QED BY <1>2, <2>1, <2>2, <2>3, EmptyHand DEF Steady
  <1>10. CASE Accepts(s, t)
    <2>1. t.active_request = None /\ t.switch_epoch >= s.switch_epoch
      BY SMTT(40), <1>3, <1>10 DEF Accepts, SameWork
    <2>2. Coherent(t) BY <1>10 DEF Coherent, Accepts, SameWork
    <2>3. Awaited(t) BY <1>10 DEF Awaited, Accepts
    <2> QED BY <1>2, <2>1, <2>2, <2>3, EmptyHand DEF Steady
  <1>11. CASE Denies(s, t)
    <2>1. t.active_request = None /\ t.switch_epoch >= s.switch_epoch
      BY SMTT(40), <1>3, <1>11 DEF Denies, SameDisplay
    <2>2. Coherent(t) BY SMTT(40), <1>1, <1>11 DEF Coherent, Denies, SameDisplay, DaemonHealthy
    <2>3. Awaited(t) BY <1>1, <1>11 DEF Awaited, Denies, SameDisplay
    <2> QED BY <1>2, <2>1, <2>2, <2>3, EmptyHand DEF Steady
  <1>12. CASE Commits(s, t)
    <2>1. t.active_request = None /\ t.switch_epoch >= s.switch_epoch
      BY <1>3, <1>12 DEF Commits
    <2>2. DaemonHealthy(t) BY <1>1, <1>12 DEF Commits, Coherent, DaemonHealthy
    <2>3. s.active_request.target # Server => t.active_session # None
      BY <1>12, NoneAssumption DEF Commits
    <2>4. Coherent(t) BY <1>12, <2>1, <2>2, <2>3 DEF Coherent, Commits
    <2>5. Awaited(t) BY <1>12 DEF Awaited, Commits
    <2> QED BY <1>2, <2>1, <2>4, <2>5, EmptyHand DEF Steady
  <1>13. CASE Drops(s, t)
    <2>1. t.active_request = None /\ t.switch_epoch >= s.switch_epoch
      BY SMTT(40), <1>3, <1>13 DEF Drops, SameDisplay
    <2>2. Coherent(t) BY SMTT(40), <1>1, <1>13 DEF Coherent, Drops, SameDisplay, DaemonHealthy
    <2>3. Awaited(t) BY <1>1, <1>13 DEF Awaited, Drops, SameDisplay
    <2> QED BY <1>2, <2>1, <2>2, <2>3, EmptyHand DEF Steady
  <1>14. CASE Closes(s, t)
    <2>1. t.active_request = None /\ t.switch_epoch >= s.switch_epoch
      BY <1>3, <1>14 DEF Closes
    <2>2. Coherent(t) BY <1>14 DEF Coherent, Closes
    <2>3. Awaited(t) BY <1>14 DEF Awaited, Closes
    <2> QED BY <1>2, <2>1, <2>2, <2>3, EmptyHand DEF Steady
  <1> QED BY <1>5, <1>6, <1>7, <1>8, <1>9, <1>10, <1>11, <1>12, <1>13, <1>14

(* A grant for the switch epoch of the request is in hand. *)
LEMMA GrantedHand ==
    ASSUME NEW s \in ProtocolState, NEW t \in ProtocolState,
           t.active_request \in EnterRequest, Granted(s, t),
           t.active_request.switch_epoch = t.switch_epoch,
           Archived(t, t.active_request.request_id) = {}
    PROVE  InHand(t)
  <1> DEFINE request == t.active_request
  <1>1. t.switch_epoch \in Nat BY DEF ProtocolState
  <1>2. request.switch_epoch # None BY <1>1, NoneAssumption
  <1>3. request.grant \in Option(GrantIdentity) BY DEF EnterRequest
  <1>4. /\ request.status = "Grant" /\ t.grant_epoch = s.grant_epoch + 1
        /\ t.verified_epoch = request.switch_epoch
        /\ request.grant =
            [grant_epoch |-> s.grant_epoch + 1, switch_epoch |-> request.switch_epoch,
             expires |-> Sooner(GRANT_MS, request.lease.expires)]
    BY DEF Granted
  <1>5. Sooner(GRANT_MS, request.lease.expires) \in Nat
    BY ConfigAssumption DEF Sooner, EnterRequest, LeaseIdentity
  <1>6. request.grant \in GrantIdentity
    BY <1>1, <1>4, <1>5 DEF GrantIdentity, ProtocolState
  <1>7. request.grant # None BY <1>6, NoneAssumption
  <1>8. request.grant.grant_epoch = t.grant_epoch /\ request.grant.switch_epoch = t.switch_epoch
    BY <1>4
  <1> HIDE DEF request
  <1> QED BY <1>2, <1>4, <1>7, <1>8 DEF InHand, request

(* Moves of a request that goes on, and the renewal of a session. *)
LEMMA RequestMoveSteady ==
    ASSUME NEW s \in ProtocolState, NEW t \in ProtocolState, Steady(s),
           NEW id, NEW target, NEW lease,
           \/ Grants(s, t) \/ Switches(s, t) \/ Renews(s, t)
           \/ Starts(s, t, id, target, lease)
    PROVE  Steady(t) /\ KeepsViews(s, t)
  <1>1. Coherent(s) /\ InHand(s) /\ Awaited(s) /\ Tidy(s) BY DEF Steady
  <1>2. Tidy(t) BY <1>1 DEF Carries, Grants, Switches, Commands, Renews, Starts
  <1>3. s.switch_epoch \in Nat /\ t.switch_epoch \in Nat BY DEF ProtocolState
  <1>4. s.active_request # None => s.active_request.status \in LiveStatus
    BY DEF ProtocolState, Option, EnterRequest
  <1>5. t.switch_epoch # None BY <1>3, NoneAssumption
  <1>6. t.request_history = s.request_history => \A x : Archived(t, x) = Archived(s, x)
    BY DEF Archived
  <1>7. CASE Grants(s, t)
    <2>1. /\ s.active_request # None /\ t.active_request \in EnterRequest
          /\ s.active_request.status = "Switching" /\ ~s.fallback_required
      BY SMTT(40), <1>1, <1>4, <1>7 DEF Grants, SameRequest, Coherent, LiveStatus
    <2>2. /\ s.active_request.switch_epoch = s.switch_epoch
          /\ Archived(s, s.active_request.request_id) = {}
      BY SMTT(40), <1>1, <2>1 DEF InHand
    <2>3. /\ t.active_request.switch_epoch = t.switch_epoch
          /\ Archived(t, t.active_request.request_id) = {}
      BY SMTT(40), <1>6, <1>7, <2>2 DEF Grants, SameRequest
    <2>4. InHand(t) BY <1>7, <2>1, <2>3, GrantedHand DEF Grants
    <2>5. t.active_request # None BY <2>1, NoneAssumption
    <2>6. Coherent(t)
      BY ZenonT(60), <1>1, <1>7, <2>1, <2>5 DEF Coherent, Grants, Granted, DaemonHealthy
    <2>7. Awaited(t) BY SMTT(40), <1>7, <2>1 DEF Awaited, Grants, Granted
    <2>8. KeepsViews(s, t)
      BY SMTT(40), <1>5, <1>7, <2>1, <2>2, <2>3 DEF KeepsViews, ViewFits, Grants
    <2> QED BY SMTT(40), <1>2, <2>4, <2>6, <2>7, <2>8 DEF Steady
  <1>8. CASE Switches(s, t)
    <2>1. /\ s.active_request # None /\ t.active_request \in EnterRequest
          /\ s.active_request.status = "Waking" /\ ~s.fallback_required
      BY SMTT(40), <1>1, <1>4, <1>8 DEF Switches, Commands, SameRequest, Coherent, LiveStatus
    <2>2. Archived(s, s.active_request.request_id) = {} /\ s.active_request.grant = None
      BY SMTT(40), <1>1, <2>1 DEF InHand
    <2>3. /\ t.active_request.switch_epoch = t.switch_epoch
          /\ Archived(t, t.active_request.request_id) = {}
      BY <1>6, <1>8, <2>2 DEF Switches, Commands, SameRequest
    <2>4. InHand(t)
      <3>1. CASE Granted(s, t) BY SMTT(40), <2>1, <2>3, <3>1, GrantedHand
      <3>2. CASE ~Granted(s, t)
        BY SMTT(40), <1>5, <1>8, <2>2, <2>3, <3>2 DEF Switches, Commands, InHand
      <3> QED BY <3>1, <3>2
    <2>5. t.active_request # None BY <2>1, NoneAssumption
    <2>6. Coherent(t)
      BY ZenonT(60), <1>1, <1>8, <2>1, <2>5 DEF Coherent, Switches, Commands, Granted, DaemonHealthy
    <2>7. Awaited(t) BY ZenonT(60), <1>8, <2>1 DEF Awaited, Switches, Commands, Granted
    <2>8. t.switch_epoch = s.switch_epoch + 1 BY <1>8 DEF Switches, Commands
    <2>9. KeepsViews(s, t) BY <1>3, <2>8 DEF KeepsViews, ViewFits
    <2> QED BY <1>2, <2>4, <2>6, <2>7, <2>9 DEF Steady
  <1>9. CASE Renews(s, t)
    <2>1. InHand(t) /\ KeepsViews(s, t) BY <1>1, <1>9, SameHand DEF Renews, SameDisplay
    <2>2. t.active_session # None
      BY SMTT(40), <1>9, NoneAssumption DEF Renews
    <2>3. Coherent(t) BY <1>1, <1>9, <2>2 DEF Coherent, Renews, SameDisplay, DaemonHealthy
    <2>4. Awaited(t) BY <1>1, <1>9 DEF Awaited, Renews, SameDisplay
    <2> QED BY <1>2, <2>1, <2>3, <2>4 DEF Steady
  <1>10. CASE Starts(s, t, id, target, lease)
    <2>1. /\ t.active_request \in EnterRequest /\ ~t.fallback_required /\ DaemonHealthy(t)
          /\ t.active_request.request_id = id /\ Archived(s, id) = {}
      BY <1>10 DEF Starts, DaemonHealthy
    <2>2. Archived(t, t.active_request.request_id) = {} BY ZenonT(60), <1>6, <1>10, <2>1 DEF Starts
    <2>3. t.active_request # None BY <2>1, NoneAssumption
    <2>4. CASE t.active_request.status = "Waking" /\ t.phase = "Waking"
      <3>1. /\ t.active_request.switch_epoch = None /\ t.active_request.grant = None
            /\ t.switch_epoch = s.switch_epoch
        BY ZenonT(60), <1>5, <1>10, <2>4 DEF Starts, Granted
      <3>2. InHand(t) BY <2>2, <2>4, <3>1 DEF InHand
      <3>3. KeepsViews(s, t) BY <3>1 DEF KeepsViews, ViewFits
      <3>4. Coherent(t) BY ZenonT(60), <1>1, <1>10, <2>1, <2>3, <2>4 DEF Coherent, Starts
      <3>5. Awaited(t) BY SMTT(40), <2>1, <2>4 DEF Awaited
      <3> QED BY SMTT(40), <1>2, <3>2, <3>3, <3>4, <3>5 DEF Steady
    <2>5. CASE ~(t.active_request.status = "Waking" /\ t.phase = "Waking")
      <3>1. /\ t.switch_epoch = s.switch_epoch + 1
            /\ t.active_request.switch_epoch = t.switch_epoch
            /\ \/ Granted(s, t)
               \/ /\ t.active_request.status = "Switching" /\ t.phase = "Switching"
                  /\ t.active_request.grant = None
        BY SMTT(40), <1>10, <2>5 DEF Starts
      <3>2. InHand(t)
        <4>1. CASE Granted(s, t) BY SMTT(40), <2>1, <2>2, <3>1, <4>1, GrantedHand
        <4>2. CASE ~Granted(s, t) BY <1>5, <2>2, <3>1, <4>2 DEF InHand
        <4> QED BY <4>1, <4>2
      <3>3. KeepsViews(s, t) BY <1>3, <3>1 DEF KeepsViews, ViewFits
      <3>4. Coherent(t) BY ZenonT(60), <1>1, <1>10, <2>1, <2>3, <3>1 DEF Coherent, Starts, Granted
      <3>5. Awaited(t) BY <2>1, <3>1 DEF Awaited, Granted
      <3> QED BY <1>2, <3>2, <3>3, <3>4, <3>5 DEF Steady
    <2> QED BY SMTT(40), <2>4, <2>5
  <1> QED BY <1>7, <1>8, <1>9, <1>10

(* Every move keeps a state steady; a multiview command it sends fits. *)
LEMMA MoveSteady ==
    ASSUME NEW s \in ProtocolState, NEW t \in ProtocolState, Steady(s), Moves(s, t)
    PROVE  /\ Steady(t) /\ KeepsViews(s, t)
           /\ NoViewCommand(s) => \A i \in DOMAIN t.effects : ViewFits(t, t.effects[i])
  <1>1. Steady(t) /\ KeepsViews(s, t)
    BY LocalMoveSteady, IdleMoveSteady, RequestMoveSteady, ZenonT(60) DEF Moves
  <1>2. Carries(s, t) \/ RequestsView(s, t)
    BY ZenonT(60) DEF Moves, Keeps, Connects, Acknowledges, Waits, ChangesView, CompletesView, Retries,
           Falls, Finishes, Accepts, Denies, Commits, Drops, Closes, Grants, Switches,
           Commands, Renews, Starts
  <1>3. ASSUME Carries(s, t), NoViewCommand(s), NEW i \in DOMAIN t.effects
        PROVE  ViewFits(t, t.effects[i])
    BY <1>3 DEF Carries, NoViewCommand, ViewFits
  <1>4. ASSUME RequestsView(s, t), NoViewCommand(s), NEW i \in DOMAIN t.effects
        PROVE  ViewFits(t, t.effects[i])
    <2>1. t.active_request = None BY <1>4 DEF RequestsView, SameWork
    <2>2. t.effects[i].type = "SetMultiView" => t.effects[i].switch_epoch = t.switch_epoch
      BY <1>4 DEF RequestsView
    <2>3. t.switch_epoch \in Nat BY DEF ProtocolState
    <2> QED BY <2>1, <2>2, <2>3 DEF ViewFits
  <1> QED BY <1>1, <1>2, <1>3, <1>4

(* Time that passes keeps a state steady, although no event is handled. *)
LEMMA AgesSteady ==
    ASSUME NEW s \in ProtocolState, NEW t \in ProtocolState, Steady(s), Ages(s, t)
    PROVE  Steady(t) /\ KeepsViews(s, t)
  <1>1. Coherent(s) /\ InHand(s) /\ Awaited(s) /\ Tidy(s) BY DEF Steady
  <1>2. s.active_request # None => t.active_request # None
    BY NoneAssumption DEF Ages, Later
  <1>3. t.active_session = None <=> s.active_session = None BY SMTT(40) DEF Ages, LaterSession
  <1>4. Coherent(t)
    BY SMTT(40), <1>1, <1>2, <1>3 DEF Coherent, Ages, Later, SameDisplay, DaemonHealthy
  <1>5. \A id : Archived(t, id) = Archived(s, id) BY SMTT(40) DEF Archived, Ages
  <1>6. InHand(t) BY SMTT(40), <1>1, <1>2, <1>5 DEF InHand, Ages, Later, SameDisplay
  <1>7. Awaited(t) BY <1>1 DEF Awaited, Ages, SameDisplay
  <1>8. Tidy(t) BY <1>1 DEF Tidy, Ages
  <1>9. KeepsViews(s, t) BY SMTT(40), <1>2 DEF KeepsViews, ViewFits, Ages, Later, SameDisplay
  <1> QED BY <1>4, <1>6, <1>7, <1>8, <1>9 DEF Steady

(* A state without its effects. *)
Bare(s) == [s EXCEPT !.effects = <<>>]

(* Handing out the effects changes nothing else. *)
LEMMA BareFields ==
    ASSUME NEW s \in ProtocolState
    PROVE  /\ Bare(s) \in ProtocolState /\ Bare(s).effects = <<>>
           /\ SameWork(s, Bare(s)) /\ SameDisplay(s, Bare(s)) /\ Carries(s, Bare(s))
           /\ Bare(s).ws_state = s.ws_state /\ Bare(s).phase = s.phase
           /\ Bare(s).phase_deadline = s.phase_deadline /\ NoViewCommand(Bare(s))
           /\ Keeps(s, Bare(s))
  <1>1. <<>> \in Seq(Effect) /\ DOMAIN <<>> = {} OBVIOUS
  <1>2. Bare(s) \in ProtocolState BY <1>1, ZenonT(60) DEF ProtocolState, Bare
  <1>3. /\ Bare(s).effects = <<>> /\ SameWork(s, Bare(s)) /\ SameDisplay(s, Bare(s))
        /\ Bare(s).ws_state = s.ws_state /\ Bare(s).phase = s.phase
        /\ Bare(s).phase_deadline = s.phase_deadline
    BY DEF SameWork, SameDisplay, ProtocolState, Bare
  <1>4. NoViewCommand(Bare(s)) BY <1>1, <1>3 DEF NoViewCommand
  <1>5. Carries(s, Bare(s)) BY <1>3, <1>4 DEF Carries, Tidy, SameWork
  <1> QED BY <1>2, <1>3, <1>4, <1>5 DEF Keeps

(* A fallback does not depend on effects. *)
LEMMA BareFalls ==
    ASSUME NEW s \in ProtocolState, NEW t \in ProtocolState, Falls(Bare(s), t)
    PROVE  Falls(s, Bare(t))
  <1> DEFINE u == Bare(s)
             v == Bare(t)
  <1>1. /\ SameWork(s, u) /\ SameDisplay(s, u) /\ Carries(s, u) BY BareFields
  <1>2. /\ SameWork(t, v) /\ SameDisplay(t, v) /\ Carries(t, v)
        /\ v.ws_state = t.ws_state /\ v.phase = t.phase /\ v.phase_deadline = t.phase_deadline
        /\ NoViewCommand(v)
    BY BareFields
  <1>3. Falls(u, t) OBVIOUS
  <1> HIDE DEF u, v
  <1>4. Carries(s, v) BY SMTT(40), <1>1, <1>2, <1>3 DEF Falls, Carries
  <1>5. Fallen(v) BY SMTT(40), <1>2, <1>3 DEF Falls, Fallen, SameWork, SameDisplay, DaemonHealthy
  <1>6. \A id : HasCancelled(t, id) => HasCancelled(v, id)
    BY SMTT(40), <1>2 DEF HasCancelled, SameWork
  <1>7. \A id : HasCancelled(s, id) => HasCancelled(u, id)
    BY SMTT(40), <1>1 DEF HasCancelled, SameWork
  <1>8. MayShow(s) => MayShow(u) BY <1>1 DEF MayShow, SameWork
  <1>9. /\ v.request_epoch = s.request_epoch /\ v.switch_epoch >= s.switch_epoch
        /\ s.fallback_required => v.fallback_required
    BY <1>1, <1>2, <1>3 DEF Falls, SameWork, SameDisplay
  <1>10. MayShow(s) => v.fallback_required \/ HasCancelled(v, s.active_request.request_id)
    BY <1>1, <1>2, <1>3, <1>6, <1>8 DEF Falls, SameWork, SameDisplay
  <1>11. s.active_request = None => \A id : HasCancelled(s, id) => HasCancelled(v, id)
    BY <1>1, <1>3, <1>6, <1>7 DEF Falls, SameWork
  <1> QED BY SMTT(40), <1>4, <1>5, <1>9, <1>10, <1>11 DEF Falls, v

(* Two steps in a row that keep everything. *)
LEMMA KeepsKeeps ==
    ASSUME NEW s, NEW u, NEW t, Keeps(s, u), Keeps(u, t)
    PROVE  Keeps(s, t)
  BY DEF Keeps, SameWork, SameDisplay, Carries

(* A move that ends a request whose target the TV may show, and leaves no       *)
(* session, restores the display or has recorded that a client cancelled.       *)
LEMMA MoveRestores ==
    ASSUME NEW s \in ProtocolState, NEW t \in ProtocolState, Steady(s), Moves(s, t), MayShow(s)
    PROVE  \/ /\ t.active_request # None /\ MayShow(t)
              /\ t.active_request.request_id = s.active_request.request_id
           \/ /\ t.active_request = None
              /\ t.fallback_required \/ HasCancelled(t, s.active_request.request_id)
           \/ t.active_request = None /\ t.active_session # None /\ t.effects = s.effects
  <1>1. /\ s.active_request # None /\ s.active_request.switch_epoch # None
        /\ s.active_request.status # "Waking" /\ DaemonHealthy(s) /\ ~s.fallback_required
    BY ZenonT(60) DEF MayShow, Steady, InHand, Coherent
  <1>2. s.active_request.switch_epoch = s.switch_epoch BY <1>1 DEF Steady, InHand
  <1>3. CASE SameWork(s, t) BY <1>3 DEF SameWork, MayShow
  <1>4. CASE Grants(s, t) \/ Switches(s, t)
    <2>1. t.active_request # None
      BY <1>4, NoneAssumption DEF Grants, Switches, Commands, SameRequest
    <2>2. t.switch_epoch # None BY ZenonT(60), NoneAssumption DEF ProtocolState
    <2> QED
      BY ZenonT(60), <1>1, <1>4, <2>1, <2>2 DEF Grants, Switches, Commands, SameRequest, MayShow
  <1>5. CASE Renews(s, t) BY <1>5 DEF Renews, MayShow
  <1>6. CASE Falls(s, t) BY ZenonT(60), <1>6 DEF Falls, Fallen
  <1>7. CASE Closes(s, t) BY <1>7 DEF Closes
  <1>8. CASE Drops(s, t) BY <1>1, <1>8 DEF Drops
  <1>9. CASE Finishes(s, t) BY <1>1, <1>9 DEF Finishes
  <1>10. CASE Commits(s, t)
    <2>1. s.active_request.target # Server BY DEF MayShow, RoutedRemote
    <2>2. t.active_session \in ActiveSession BY <1>10, <2>1 DEF Commits
    <2> QED BY <1>10, <2>2, NoneAssumption DEF Commits
  <1>11. CASE Denies(s, t) \/ \E id \in Requests, target \in Hosts, lease \in OfferedLeases :
                                    Starts(s, t, id, target, lease)
    BY ZenonT(60), <1>1, <1>11 DEF Denies, Starts
  <1> QED
    BY ZenonT(60), <1>3, <1>4, <1>5, <1>6, <1>7, <1>8, <1>9, <1>10, <1>11
       DEF Moves, Keeps, Connects, Acknowledges, Waits, ChangesView, RequestsView,
           CompletesView, Retries, Accepts

--------------------------------------------------------------------------------

(* What RequestLife sees of a state. *)
LifeRequest(s) ==
    IF s.active_request = None THEN None
    ELSE [id |-> s.active_request.request_id, to |-> s.active_request.target,
          epoch |-> s.active_request.request_epoch, status |-> s.active_request.status,
          life |-> s.active_request.lease.expires,
          grant |-> IF s.active_request.grant = None THEN 0
                    ELSE s.active_request.grant.expires]

LifeSession(s) ==
    IF s.active_session = None THEN None
    ELSE [id |-> s.active_session.request_id, to |-> s.active_session.target,
          epoch |-> s.active_session.request_epoch,
          life |-> Min({s.active_session.renewed_until, s.active_session.lease.expires})]

(* The steps of RequestLife, between two states. *)
Stays(s, t) ==
    /\ LifeSession(t) = LifeSession(s) /\ t.keyboard_owner = s.keyboard_owner

Leaves(s, t) ==
    Stays(s, t) \/ (LifeSession(t) = None /\ t.keyboard_owner = Server)

Creates(s, t) ==
    /\ LifeRequest(s) = None /\ t.request_epoch = s.request_epoch + 1 /\ Leaves(s, t)
    /\ \E id \in Requests, to \in Hosts, left \in 1 .. LEASE_MS :
        \/ LifeRequest(t) = None
        \/ \E status \in LiveStatus :
            LifeRequest(t) = Life!Asked(id, to, s.request_epoch + 1, status, left)

Progresses(s, t) ==
    LET q == LifeRequest(s)
    IN  /\ q # None /\ Stays(s, t) /\ t.request_epoch = s.request_epoch
        /\ \/ q.status = "Waking"
              /\ LifeRequest(t) = Life!Asked(q.id, q.to, q.epoch, "Switching", q.life)
           \/ q.status \in {"Waking", "Switching"}
              /\ LifeRequest(t) = Life!Asked(q.id, q.to, q.epoch, "Grant", q.life)

CommitsLife(s, t) ==
    LET q == LifeRequest(s)
    IN  /\ q # None /\ q.status = "Grant" /\ q.grant > 0 /\ q.life > 0
        /\ LifeRequest(t) = None /\ t.keyboard_owner = q.to
        /\ LifeSession(t) = IF q.to = Server THEN None
                            ELSE [id |-> q.id, to |-> q.to, epoch |-> q.epoch, life |-> LEASE_MS]
        /\ t.request_epoch = s.request_epoch

RenewsLife(s, t) ==
    /\ LifeSession(s) # None
    /\ LifeSession(t) = [LifeSession(s) EXCEPT !.life = LEASE_MS]
    /\ LifeRequest(t) = LifeRequest(s) /\ t.keyboard_owner = s.keyboard_owner
    /\ t.request_epoch = s.request_epoch

EndsLife(s, t) ==
    /\ LifeRequest(t) \in {LifeRequest(s), None} /\ Leaves(s, t)
    /\ t.request_epoch = s.request_epoch

LifeMove(s, t) ==
    Creates(s, t) \/ Progresses(s, t) \/ CommitsLife(s, t) \/ RenewsLife(s, t) \/ EndsLife(s, t)

(* The least of two times. *)
LEMMA MinOfTwo ==
    ASSUME NEW a \in Nat, NEW b \in Nat
    PROVE  Min({a, b}) = Sooner(a, b)
  <1>1. /\ Sooner(a, b) \in {a, b} /\ \A y \in {a, b} : Sooner(a, b) <= y
    BY DEF Sooner
  <1>2. \A x \in {a, b} : (\A y \in {a, b} : x <= y) => x = Sooner(a, b)
    BY DEF Sooner
  <1> DEFINE P(x) == \A y \in {a, b} : x <= y
  <1>3. \E x \in {a, b} : P(x) BY <1>1
  <1>4. Min({a, b}) = CHOOSE x \in {a, b} : P(x) BY DEF Min
  <1>5. Min({a, b}) \in {a, b} /\ P(Min({a, b})) BY <1>3, <1>4
  <1> QED BY <1>2, <1>5

(* The type of what RequestLife sees. *)
LEMMA LifeSeen ==
    ASSUME NEW s \in ProtocolState
    PROVE  /\ LifeRequest(s) = None <=> s.active_request = None
           /\ LifeSession(s) = None <=> s.active_session = None
           /\ s.active_session # None =>
                LifeSession(s).life = Sooner(s.active_session.renewed_until,
                                             s.active_session.lease.expires)
  <1>1. s.active_request # None => LifeRequest(s) # None
    <2> SUFFICES ASSUME s.active_request # None PROVE LifeRequest(s) # None OBVIOUS
    <2> DEFINE r == s.active_request
               grant == IF r.grant = None THEN 0 ELSE r.grant.expires
    <2>1. r \in EnterRequest BY DEF ProtocolState, Option
    <2>2. /\ r.request_id \in Requests /\ r.target \in Hosts /\ r.request_epoch \in Nat
          /\ r.status \in LiveStatus /\ r.lease \in LeaseIdentity
          /\ r.grant \in Option(GrantIdentity)
      BY <2>1 DEF EnterRequest
    <2>3. r.lease.expires \in Nat /\ grant \in Nat
      BY <2>2 DEF LeaseIdentity, GrantIdentity, Option
    <2>4. LifeRequest(s) = [id |-> r.request_id, to |-> r.target, epoch |-> r.request_epoch,
                            status |-> r.status, life |-> r.lease.expires, grant |-> grant]
      BY DEF LifeRequest
    <2> HIDE DEF r, grant
    <2>5. LifeRequest(s) \in [id : Requests, to : Hosts, epoch : Nat, status : LiveStatus,
                              life : Nat, grant : Nat]
      BY <2>2, <2>3, <2>4
    <2> QED BY <2>5, LifeAssumption
  <1>2. ASSUME s.active_session # None
        PROVE  /\ LifeSession(s) # None
               /\ LifeSession(s).life = Sooner(s.active_session.renewed_until,
                                               s.active_session.lease.expires)
    <2> DEFINE v == s.active_session
               left == Min({v.renewed_until, v.lease.expires})
    <2>1. v \in ActiveSession BY <1>2 DEF ProtocolState, Option
    <2>2. /\ v.request_id \in Requests /\ v.target \in Hosts /\ v.request_epoch \in Nat
          /\ v.renewed_until \in Nat /\ v.lease \in LeaseIdentity
      BY <2>1 DEF ActiveSession
    <2>3. v.lease.expires \in Nat BY <2>2 DEF LeaseIdentity
    <2>4. left = Sooner(v.renewed_until, v.lease.expires) BY <2>2, <2>3, MinOfTwo
    <2>5. left \in Nat BY <2>2, <2>3, <2>4 DEF Sooner
    <2>6. LifeSession(s) = [id |-> v.request_id, to |-> v.target, epoch |-> v.request_epoch,
                            life |-> left]
      BY <1>2 DEF LifeSession
    <2> HIDE DEF v, left
    <2>7. LifeSession(s) \in [id : Requests, to : Hosts, epoch : Nat, life : Nat]
      BY <2>2, <2>5, <2>6
    <2>8. LifeSession(s).life = left BY <2>6
    <2> QED BY <2>4, <2>7, <2>8, LifeAssumption DEF v
  <1>3. s.active_request = None => LifeRequest(s) = None BY DEF LifeRequest
  <1>4. s.active_session = None => LifeSession(s) = None BY SMTT(40) DEF LifeSession
  <1> QED BY <1>1, <1>2, <1>3, <1>4

(* Equal requests and sessions look the same. *)
LEMMA LifeSame ==
    ASSUME NEW s, NEW t
    PROVE  /\ t.active_request = s.active_request => LifeRequest(t) = LifeRequest(s)
           /\ t.active_session = s.active_session => LifeSession(t) = LifeSession(s)
  BY SMTT(40) DEF LifeRequest, LifeSession

(* What RequestLife sees of a request under way. *)
LEMMA LifeAsked ==
    ASSUME NEW t \in ProtocolState, t.active_request # None,
           t.active_request.status = "Grant" =>
                /\ t.active_request.grant # None
                /\ t.active_request.grant.expires =
                        Sooner(GRANT_MS, t.active_request.lease.expires),
           t.active_request.status # "Grant" => t.active_request.grant = None
    PROVE  LifeRequest(t) =
                Life!Asked(t.active_request.request_id, t.active_request.target,
                           t.active_request.request_epoch, t.active_request.status,
                           t.active_request.lease.expires)
  <1> DEFINE r == t.active_request
             grant == IF r.grant = None THEN 0 ELSE r.grant.expires
  <1>1. grant = Life!GrantLife(r.status, r.lease.expires)
    BY DEF Life!GrantLife, Life!Smaller, Sooner
  <1>2. LifeRequest(t) = [id |-> r.request_id, to |-> r.target, epoch |-> r.request_epoch,
                          status |-> r.status, life |-> r.lease.expires, grant |-> grant]
    BY SMTT(40) DEF LifeRequest
  <1> HIDE DEF r, grant
  <1> QED BY <1>1, <1>2 DEF Life!Asked, r

(* The fields RequestLife sees. *)
LEMMA LifeFields ==
    ASSUME NEW s, s.active_request # None
    PROVE  LET q == LifeRequest(s)
               r == s.active_request
           IN  /\ q.id = r.request_id /\ q.to = r.target /\ q.epoch = r.request_epoch
               /\ q.status = r.status /\ q.life = r.lease.expires
               /\ r.grant # None => q.grant = r.grant.expires
  BY DEF LifeRequest

(* A request that has got its grant, or has none. *)
LEMMA GrantedAsked ==
    ASSUME NEW s, NEW t \in ProtocolState, t.active_request # None, InHand(t),
           t.active_request.status = "Grant" => Granted(s, t)
    PROVE  LifeRequest(t) =
                Life!Asked(t.active_request.request_id, t.active_request.target,
                           t.active_request.request_epoch, t.active_request.status,
                           t.active_request.lease.expires)
  <1>1. t.active_request.status = "Grant" =>
            t.active_request.grant.expires = Sooner(GRANT_MS, t.active_request.lease.expires)
    BY DEF Granted
  <1>2. /\ t.active_request.status = "Grant" => t.active_request.grant # None
        /\ t.active_request.status # "Grant" => t.active_request.grant = None
    BY DEF InHand
  <1> QED BY <1>1, <1>2, LifeAsked

(* A new request is a Create. *)
LEMMA StartsCreates ==
    ASSUME NEW s \in ProtocolState, NEW t \in ProtocolState, InHand(t),
           NEW id \in Requests, NEW target \in Hosts, NEW lease \in OfferedLeases,
           Starts(s, t, id, target, lease)
    PROVE  Creates(s, t)
  <1> DEFINE r == t.active_request
  <1>1. r # None /\ r.status \in LiveStatus
    BY SMTT(40), NoneAssumption DEF Starts, EnterRequest
  <1>2. r.status = "Grant" => Granted(s, t) BY DEF Starts
  <1>3. LifeRequest(t) = Life!Asked(r.request_id, r.target, r.request_epoch, r.status,
                                    r.lease.expires)
    BY SMTT(40), <1>1, <1>2, GrantedAsked
  <1>4. lease.expires \in 1 .. LEASE_MS
    <2>1. lease.expires \in 0 .. LEASE_MS BY DEF OfferedLeases
    <2>2. LEASE_MS \in Nat BY SMTT(40), ConfigAssumption
    <2> QED BY <2>1, <2>2 DEF Starts
  <1>5. /\ r.request_id = id /\ r.target = target /\ r.lease = lease
        /\ r.request_epoch = s.request_epoch + 1 /\ t.request_epoch = s.request_epoch + 1
    BY DEF Starts
  <1> HIDE DEF r
  <1>6. LifeRequest(t) = Life!Asked(id, target, s.request_epoch + 1, r.status, lease.expires)
    BY <1>3, <1>5
  <1>7. LifeRequest(s) = None BY ZenonT(60) DEF LifeRequest, Starts
  <1>8. Leaves(s, t) BY LifeSame, LifeSeen DEF Leaves, Stays, Starts
  <1> QED BY SMTT(40), <1>1, <1>4, <1>5, <1>6, <1>7, <1>8 DEF Creates

(* A refused request is a Create that leaves no request. *)
LEMMA DeniesCreates ==
    ASSUME NEW s \in ProtocolState, NEW t \in ProtocolState, Denies(s, t), Requests # {}
    PROVE  Creates(s, t)
  <1>1. PICK id : id \in Requests OBVIOUS
  <1>2. Server \in Hosts /\ 1 \in 1 .. LEASE_MS BY ConfigAssumption
  <1>3. LifeRequest(s) = None /\ LifeRequest(t) = None BY DEF LifeRequest, Denies
  <1>4. Leaves(s, t) BY SMTT(40), LifeSame DEF Leaves, Stays, Denies
  <1> QED BY <1>1, <1>2, <1>3, <1>4 DEF Creates, Denies

(* A switch and a grant are Progress. *)
LEMMA AdvanceProgresses ==
    ASSUME NEW s \in ProtocolState, NEW t \in ProtocolState, Steady(s), InHand(t),
           Grants(s, t) \/ Switches(s, t)
    PROVE  Progresses(s, t)
  <1> DEFINE r == s.active_request
             v == t.active_request
  <1>1. /\ r # None /\ v # None
        /\ v.request_id = r.request_id /\ v.target = r.target
        /\ v.request_epoch = r.request_epoch /\ v.lease = r.lease
    BY ZenonT(60), NoneAssumption DEF Grants, Switches, Commands, SameRequest
  <1>2. v.status = "Grant" => Granted(s, t) BY DEF Grants, Switches, Commands
  <1>3. LifeRequest(t) = Life!Asked(v.request_id, v.target, v.request_epoch, v.status,
                                    v.lease.expires)
    BY <1>1, <1>2, GrantedAsked
  <1>4. r.status \in LiveStatus BY ZenonT(60), <1>1 DEF ProtocolState, Option, EnterRequest
  <1>5. \/ r.status = "Waking" /\ v.status \in {"Switching", "Grant"}
        \/ r.status = "Switching" /\ v.status = "Grant"
    <2>1. CASE Grants(s, t)
      <3>1. s.phase = "Verifying" /\ v.status = "Grant" BY ZenonT(60), <2>1 DEF Grants, Granted
      <3>2. r.status = "Switching"
        BY <1>1, <1>4, <3>1 DEF Steady, Coherent, LiveStatus
      <3> QED BY <3>1, <3>2
    <2>2. CASE Switches(s, t)
      <3>1. s.phase = "Waking" /\ v.status \in {"Switching", "Grant"}
        BY ZenonT(60), <2>2 DEF Switches, Commands, Granted
      <3>2. r.status = "Waking"
        BY SMTT(40), <1>1, <1>4, <3>1 DEF Steady, Coherent, LiveStatus
      <3> QED BY <3>1, <3>2
    <2> QED BY <2>1, <2>2
  <1>6. /\ t.active_session = s.active_session /\ t.keyboard_owner = s.keyboard_owner
        /\ t.request_epoch = s.request_epoch
    BY DEF Grants, Switches, Commands
  <1>7. Stays(s, t) BY SMTT(40), <1>6, LifeSame DEF Stays
  <1>8. LET q == LifeRequest(s)
        IN  /\ q # None /\ q.id = r.request_id /\ q.to = r.target
            /\ q.epoch = r.request_epoch /\ q.status = r.status /\ q.life = r.lease.expires
    BY <1>1, LifeSeen, LifeFields
  <1> HIDE DEF r, v
  <1> QED BY <1>1, <1>3, <1>5, <1>6, <1>7, <1>8 DEF Progresses

(* Taking a granted input is a Commit. *)
LEMMA CommitsCommit ==
    ASSUME NEW s \in ProtocolState, NEW t \in ProtocolState, Commits(s, t)
    PROVE  CommitsLife(s, t)
  <1> DEFINE r == s.active_request
             q == LifeRequest(s)
  <1>1. /\ r # None /\ r.status = "Grant" /\ r.grant # None
        /\ r.grant.expires # 0 /\ r.lease.expires # 0
    BY DEF Commits
  <1>2. /\ q # None /\ q.id = r.request_id /\ q.to = r.target
        /\ q.epoch = r.request_epoch /\ q.status = r.status /\ q.life = r.lease.expires
        /\ q.grant = r.grant.expires
    BY SMTT(40), <1>1, LifeSeen, LifeFields
  <1>3. r \in EnterRequest BY <1>1 DEF ProtocolState, Option
  <1>4. r.grant \in GrantIdentity /\ r.lease \in LeaseIdentity
    BY <1>1, <1>3 DEF EnterRequest, Option
  <1>5. r.grant.expires \in Nat /\ r.lease.expires \in Nat
    BY <1>4 DEF GrantIdentity, LeaseIdentity
  <1>6. q.grant > 0 /\ q.life > 0 BY <1>1, <1>2, <1>5
  <1>7. LifeRequest(t) = None BY DEF LifeRequest, Commits
  <1>8. t.keyboard_owner = r.target /\ t.request_epoch = s.request_epoch BY DEF Commits
  <1>9. r.target = Server => LifeSession(t) = None BY DEF LifeSession, Commits
  <1>10. r.target # Server =>
            LifeSession(t) = [id |-> r.request_id, to |-> r.target, epoch |-> r.request_epoch,
                              life |-> LEASE_MS]
    <2> SUFFICES ASSUME r.target # Server
                 PROVE  LifeSession(t) = [id |-> r.request_id, to |-> r.target,
                                          epoch |-> r.request_epoch, life |-> LEASE_MS]
      OBVIOUS
    <2> DEFINE v == t.active_session
    <2>1. /\ v = [request_id |-> r.request_id, target |-> r.target,
                  request_epoch |-> r.request_epoch, switch_epoch |-> r.switch_epoch,
                  lease |-> [r.lease EXCEPT !.expires = LEASE_MS],
                  renewed_until |-> LEASE_MS]
          /\ v \in ActiveSession
      BY DEF Commits
    <2>2. [r.lease EXCEPT !.expires = LEASE_MS].expires = LEASE_MS
      BY <1>4 DEF LeaseIdentity
    <2> HIDE DEF v, r
    <2>3. /\ v # None /\ v.request_id = r.request_id /\ v.target = r.target
          /\ v.request_epoch = r.request_epoch /\ v.renewed_until = LEASE_MS
          /\ v.lease.expires = LEASE_MS
      BY ZenonT(60), <2>1, <2>2, NoneAssumption
    <2>4. Min({LEASE_MS, LEASE_MS}) = LEASE_MS
      BY ConfigAssumption, MinOfTwo DEF Sooner
    <2> QED BY <2>3, <2>4 DEF LifeSession, v
  <1> HIDE DEF r, q
  <1> QED BY ZenonT(60), <1>1, <1>2, <1>6, <1>7, <1>8, <1>9, <1>10 DEF CommitsLife, q

(* A renewed lease is a Renew. *)
LEMMA RenewsRenew ==
    ASSUME NEW s \in ProtocolState, NEW t \in ProtocolState, Renews(s, t)
    PROVE  RenewsLife(s, t)
  <1> DEFINE old == s.active_session
             v == t.active_session
  <1>1. old # None /\ old \in ActiveSession BY DEF Renews, ProtocolState, Option
  <1>2. v = [old EXCEPT !.renewed_until = LEASE_MS, !.lease.expires = LEASE_MS]
    BY DEF Renews
  <1>3. old.lease \in LeaseIdentity BY <1>1 DEF ActiveSession
  <1>4. v # None BY NoneAssumption DEF Renews
  <1> HIDE DEF old, v
  <1>5. /\ v.request_id = old.request_id /\ v.target = old.target
        /\ v.request_epoch = old.request_epoch /\ v.renewed_until = LEASE_MS
        /\ v.lease.expires = LEASE_MS
    BY <1>1, <1>2, <1>3 DEF ActiveSession, LeaseIdentity
  <1>6. Min({LEASE_MS, LEASE_MS}) = LEASE_MS
    BY ConfigAssumption, MinOfTwo DEF Sooner
  <1>7. LifeSession(t) = [id |-> old.request_id, to |-> old.target,
                          epoch |-> old.request_epoch, life |-> LEASE_MS]
    BY <1>4, <1>5, <1>6 DEF LifeSession, v
  <1> DEFINE left == Min({old.renewed_until, old.lease.expires})
  <1>8. LifeSession(s) = [id |-> old.request_id, to |-> old.target,
                          epoch |-> old.request_epoch, life |-> left]
    BY <1>1 DEF LifeSession, old
  <1> HIDE DEF left
  <1>9. LifeSession(t) = [LifeSession(s) EXCEPT !.life = LEASE_MS] BY <1>7, <1>8
  <1>10. LifeSession(s) # None BY <1>1, LifeSeen DEF old
  <1> QED BY <1>9, <1>10, LifeSame DEF RenewsLife, Renews

(* Whatever takes the request or the session away is an End. *)
LEMMA EndsEnd ==
    ASSUME NEW s \in ProtocolState, NEW t \in ProtocolState,
           \/ SameWork(s, t) \/ Falls(s, t) \/ Finishes(s, t) \/ Drops(s, t) \/ Closes(s, t)
    PROVE  EndsLife(s, t)
  <1>1. CASE SameWork(s, t)
    BY <1>1, LifeSame DEF EndsLife, Leaves, Stays, SameWork
  <1>2. CASE Falls(s, t)
    BY ZenonT(60), <1>2, LifeSeen DEF EndsLife, Leaves, Falls, Fallen
  <1>3. CASE Finishes(s, t)
    BY ZenonT(60), <1>3, LifeSeen, LifeSame DEF EndsLife, Leaves, Finishes
  <1>4. CASE Drops(s, t)
    BY ZenonT(60), <1>4, LifeSeen, LifeSame DEF EndsLife, Leaves, Stays, Drops
  <1>5. CASE Closes(s, t)
    BY <1>5, LifeSeen DEF EndsLife, Leaves, Closes
  <1> QED BY <1>1, <1>2, <1>3, <1>4, <1>5

(* Every move is a step of RequestLife. *)
LEMMA MoveIsLife ==
    ASSUME NEW s \in ProtocolState, NEW t \in ProtocolState, Steady(s), Moves(s, t)
    PROVE  LifeMove(s, t)
  <1>1. InHand(t) BY MoveSteady DEF Steady
  <1>2. CASE \/ SameWork(s, t) \/ Falls(s, t) \/ Finishes(s, t) \/ Drops(s, t) \/ Closes(s, t)
    BY <1>2, EndsEnd DEF LifeMove
  <1>3. CASE Grants(s, t) \/ Switches(s, t)
    BY <1>1, <1>3, AdvanceProgresses DEF LifeMove
  <1>4. CASE Commits(s, t) BY <1>4, CommitsCommit DEF LifeMove
  <1>5. CASE Renews(s, t) BY <1>5, RenewsRenew DEF LifeMove
  <1>6. CASE Denies(s, t) /\ Requests # {} BY <1>6, DeniesCreates DEF LifeMove
  <1>7. CASE \E id \in Requests, target \in Hosts, lease \in OfferedLeases :
                Starts(s, t, id, target, lease)
    BY <1>1, <1>7, StartsCreates DEF LifeMove
  <1> QED
    BY ZenonT(60), <1>2, <1>3, <1>4, <1>5, <1>6, <1>7
       DEF Moves, Keeps, Connects, Acknowledges, Waits, ChangesView, RequestsView,
           CompletesView, Retries, Accepts

(* A step of RequestLife stays one when nothing it sees changes after it, and    *)
(* when a full command queue makes the daemon fall back in the same turn: a      *)
(* request created then is a request denied.                                     *)
LEMMA LifeMoveThen ==
    ASSUME NEW s \in ProtocolState, NEW u \in ProtocolState, NEW t \in ProtocolState,
           LifeMove(s, u), Keeps(u, t) \/ Falls(u, t)
    PROVE  LifeMove(s, t)
  <1>1. CASE Keeps(u, t)
    <2>1. /\ LifeRequest(t) = LifeRequest(u) /\ LifeSession(t) = LifeSession(u)
          /\ t.keyboard_owner = u.keyboard_owner /\ t.request_epoch = u.request_epoch
      BY SMTT(40), <1>1, LifeSame DEF Keeps, SameWork
    <2>2. CASE Creates(s, u) BY SMTT(40), <2>1, <2>2 DEF LifeMove, Creates, Leaves, Stays
    <2>3. CASE Progresses(s, u) BY <2>1, <2>3 DEF LifeMove, Progresses, Stays
    <2>4. CASE CommitsLife(s, u) BY ZenonT(60), <2>1, <2>4 DEF LifeMove, CommitsLife
    <2>5. CASE RenewsLife(s, u) BY <2>1, <2>5 DEF LifeMove, RenewsLife
    <2>6. CASE EndsLife(s, u) BY <2>1, <2>6 DEF LifeMove, EndsLife, Leaves, Stays
    <2> QED BY SMTT(40), <2>2, <2>3, <2>4, <2>5, <2>6 DEF LifeMove
  <1>2. CASE Falls(u, t)
    <2>1. /\ LifeRequest(t) = None /\ LifeSession(t) = None
          /\ t.keyboard_owner = Server /\ t.request_epoch = u.request_epoch
      BY ZenonT(60), <1>2, LifeSeen DEF Falls, Fallen
    <2>2. CASE Creates(s, u) BY <2>1, <2>2 DEF LifeMove, Creates, Leaves
    <2>3. CASE ~Creates(s, u)
      <3>1. u.request_epoch = s.request_epoch
        BY <2>3 DEF LifeMove, Progresses, CommitsLife, RenewsLife, EndsLife
      <3> QED BY <2>1, <3>1 DEF LifeMove, EndsLife, Leaves
    <2> QED BY <2>2, <2>3
  <1> QED BY SMTT(40), <1>1, <1>2

(* The passing of time is an Elapse. *)
LEMMA AgesElapses ==
    ASSUME NEW s \in ProtocolState, NEW t \in ProtocolState, Ages(s, t)
    PROVE  /\ LifeRequest(t) =
                IF LifeRequest(s) = None THEN None
                ELSE [LifeRequest(s) EXCEPT !.life = Life!Shorter(@), !.grant = Life!Shorter(@)]
           /\ LifeSession(t) =
                IF LifeSession(s) = None THEN None
                ELSE [LifeSession(s) EXCEPT !.life = Life!Shorter(@)]
           /\ t.keyboard_owner = s.keyboard_owner /\ t.request_epoch = s.request_epoch
  <1>0. \A x \in Nat : Lower(x) = Life!Shorter(x) /\ Lower(x) \in Nat
    BY NoneAssumption DEF Lower, Life!Shorter
  <1>1. ASSUME s.active_request # None
        PROVE  /\ LifeRequest(s) # None
               /\ LifeRequest(t) = [LifeRequest(s) EXCEPT !.life = Life!Shorter(@),
                                                          !.grant = Life!Shorter(@)]
    <2> DEFINE r == s.active_request
               v == t.active_request
               before == IF r.grant = None THEN 0 ELSE r.grant.expires
               after == IF v.grant = None THEN 0 ELSE v.grant.expires
    <2>1. Later(r, v) BY <1>1 DEF Ages
    <2>2. r \in EnterRequest /\ v # None
      BY ZenonT(60), <1>1, <2>1, NoneAssumption DEF Later, ProtocolState, Option
    <2>3. r.lease.expires \in Nat BY <2>2 DEF EnterRequest, LeaseIdentity
    <2>4. r.grant # None => r.grant.expires \in Nat
      BY SMTT(40), <2>2 DEF EnterRequest, Option, GrantIdentity
    <2>5. after = Life!Shorter(before)
      BY SMTT(40), <1>0, <2>1, <2>4 DEF Later, Life!Shorter
    <2>6. /\ v.request_id = r.request_id /\ v.target = r.target
          /\ v.request_epoch = r.request_epoch /\ v.status = r.status
          /\ v.lease.expires = Life!Shorter(r.lease.expires)
      BY SMTT(40), <1>0, <2>1, <2>3 DEF Later
    <2>7. /\ LifeRequest(s) = [id |-> r.request_id, to |-> r.target, epoch |-> r.request_epoch,
                               status |-> r.status, life |-> r.lease.expires, grant |-> before]
          /\ LifeRequest(t) = [id |-> v.request_id, to |-> v.target, epoch |-> v.request_epoch,
                               status |-> v.status, life |-> v.lease.expires, grant |-> after]
      BY <1>1, <2>2 DEF LifeRequest
    <2>8. LifeRequest(s) # None BY SMTT(40), <1>1, LifeSeen
    <2> HIDE DEF r, v, before, after
    <2>9. LifeRequest(t) = [id |-> r.request_id, to |-> r.target, epoch |-> r.request_epoch,
                            status |-> r.status, life |-> Life!Shorter(r.lease.expires),
                            grant |-> Life!Shorter(before)]
      BY SMTT(40), <2>5, <2>6, <2>7
    <2>10. LifeRequest(s).life = r.lease.expires /\ LifeRequest(s).grant = before
      BY <2>7, SMTT(40)
    <2> DEFINE left == Life!Shorter(r.lease.expires)
               spare == Life!Shorter(before)
               older == [LifeRequest(s) EXCEPT !.life = left]
    <2> HIDE DEF left, spare
    <2>11. older = [id |-> r.request_id, to |-> r.target, epoch |-> r.request_epoch,
                    status |-> r.status, life |-> left, grant |-> before]
      BY <2>7
    <2>12. [LifeRequest(s) EXCEPT !.life = left, !.grant = spare]
                = [older EXCEPT !.grant = spare]
      BY Zenon
    <2> HIDE DEF older
    <2>13. LifeRequest(t) = [older EXCEPT !.grant = spare]
      <3>1. LifeRequest(t) = [id |-> r.request_id, to |-> r.target, epoch |-> r.request_epoch,
                              status |-> r.status, life |-> left, grant |-> spare]
        BY <2>9 DEF left, spare
      <3> QED BY <2>11, <3>1
    <2>14. LifeRequest(t) =
            [LifeRequest(s) EXCEPT !.life = Life!Shorter(LifeRequest(s).life),
                                   !.grant = Life!Shorter(LifeRequest(s).grant)]
      BY <2>10, <2>12, <2>13 DEF left, spare
    <2> QED BY <2>8, <2>14
  <1>2. ASSUME s.active_session # None
        PROVE  /\ LifeSession(s) # None
               /\ LifeSession(t) = [LifeSession(s) EXCEPT !.life = Life!Shorter(@)]
    <2> DEFINE v == s.active_session
               w == t.active_session
               before == Min({v.renewed_until, v.lease.expires})
               after == Min({w.renewed_until, w.lease.expires})
    <2>1. v \in ActiveSession BY <1>2 DEF ProtocolState, Option
    <2>2. v.renewed_until \in Nat /\ v.lease.expires \in Nat
      BY <2>1 DEF ActiveSession, LeaseIdentity
    <2>3. /\ w # None /\ w.request_id = v.request_id /\ w.target = v.target
          /\ w.request_epoch = v.request_epoch
          /\ w.renewed_until = Lower(v.renewed_until)
          /\ w.lease.expires = Lower(v.lease.expires)
      BY ZenonT(60), <1>2 DEF Ages, LaterSession
    <2>4. before = Sooner(v.renewed_until, v.lease.expires) BY <2>2, MinOfTwo
    <2>5. after = Sooner(Life!Shorter(v.renewed_until), Life!Shorter(v.lease.expires))
      BY <1>0, <2>2, <2>3, MinOfTwo
    <2>6. \A x, y \in Nat : Sooner(Life!Shorter(x), Life!Shorter(y)) = Life!Shorter(Sooner(x, y))
      BY DEF Sooner, Life!Shorter
    <2>7. after = Life!Shorter(before) BY SMTT(40), <2>2, <2>4, <2>5, <2>6
    <2>8. /\ LifeSession(s) = [id |-> v.request_id, to |-> v.target, epoch |-> v.request_epoch,
                               life |-> before]
          /\ LifeSession(t) = [id |-> w.request_id, to |-> w.target, epoch |-> w.request_epoch,
                               life |-> after]
      BY <1>2, <2>3 DEF LifeSession
    <2>9. LifeSession(s) # None BY <1>2, LifeSeen
    <2> HIDE DEF v, w, before, after
    <2>10. LifeSession(t) = [LifeSession(s) EXCEPT !.life = Life!Shorter(@)]
      BY SMTT(40), <2>3, <2>7, <2>8
    <2> QED BY SMTT(40), <2>9, <2>10
  <1>3. s.active_request = None => LifeRequest(s) = None /\ LifeRequest(t) = None
    BY DEF LifeRequest, Ages
  <1>4. s.active_session = None => LifeSession(s) = None /\ LifeSession(t) = None
    BY ZenonT(60) DEF LifeSession, Ages
  <1>5. t.keyboard_owner = s.keyboard_owner /\ t.request_epoch = s.request_epoch
    BY DEF Ages
  <1> QED BY <1>1, <1>2, <1>3, <1>4, <1>5

(* The mapping of ProtocolRefinement reads the state. *)
LEMMA MappingRead ==
    /\ AbstractRequest = LifeRequest(st) /\ AbstractSession = LifeSession(st)
    /\ AbstractRequest' = LifeRequest(st') /\ AbstractSession' = LifeSession(st')
  BY ZenonT(60) DEF AbstractRequest, AbstractSession, LifeRequest, LifeSession, Request, Session

(* A step between two states is the step of RequestLife. *)
LEMMA LifeMoveNext ==
    ASSUME st \in ProtocolState, LifeMove(st, st')
    PROVE  Life!Next
  <1> DEFINE q == AbstractRequest
             v == AbstractSession
             q1 == AbstractRequest'
             v1 == AbstractSession'
  <1>0. /\ LifeRequest(st) = q /\ LifeSession(st) = v
        /\ LifeRequest(st') = q1 /\ LifeSession(st') = v1
    BY MappingRead
  <1>1. CASE Creates(st, st')
    <2>1. PICK id \in Requests, to \in Hosts, left \in 1 .. LEASE_MS :
            \/ q1 = None
            \/ \E status \in LiveStatus :
                    q1 = Life!Asked(id, to, st.request_epoch + 1, status, left)
      BY <1>0, <1>1 DEF Creates
    <2>2. q = None /\ st'.request_epoch = st.request_epoch + 1
      BY <1>0, <1>1 DEF Creates
    <2>3. \E ends \in BOOLEAN : Life!EndSession(ends)
      <3>1. Life!EndSession(TRUE) \/ Life!EndSession(FALSE)
        BY <1>0, <1>1 DEF Creates, Leaves, Stays, Life!EndSession
      <3> QED BY ZenonT(60), <3>1
    <2>4. Life!Create(id, to, left)
      BY <2>1, <2>2, <2>3 DEF Life!Create, LiveStatus
    <2> QED BY <2>4 DEF Life!Next
  <1>2. CASE Progresses(st, st')
    <2>1. /\ q # None /\ v1 = v /\ st'.keyboard_owner = st.keyboard_owner
          /\ st'.request_epoch = st.request_epoch
          /\ \/ q.status = "Waking" /\ q1 = Life!Asked(q.id, q.to, q.epoch, "Switching", q.life)
             \/ q.status \in {"Waking", "Switching"}
                /\ q1 = Life!Asked(q.id, q.to, q.epoch, "Grant", q.life)
      BY <1>0, <1>2 DEF Progresses, Stays
    <2>2. /\ Life!Rank("Waking") = 0 /\ Life!Rank("Switching") = 1 /\ Life!Rank("Grant") = 2
      BY DEF Life!Rank
    <2>3. \E status \in {"Switching", "Grant"} :
            /\ Life!Rank(q.status) < Life!Rank(status)
            /\ q1 = Life!Asked(q.id, q.to, q.epoch, status, q.life)
      BY SMTT(40), <2>1, <2>2
    <2>4. Life!Progress BY <2>1, <2>3 DEF Life!Progress
    <2> QED BY SMTT(40), <2>4 DEF Life!Next
  <1>3. CASE CommitsLife(st, st')
    <2>1. Life!Commit BY SMTT(40), <1>0, <1>3 DEF CommitsLife, Life!Commit
    <2> QED BY SMTT(40), <2>1 DEF Life!Next
  <1>4. CASE RenewsLife(st, st')
    <2>1. Life!Renew BY <1>0, <1>4 DEF RenewsLife, Life!Renew
    <2> QED BY <2>1 DEF Life!Next
  <1>5. CASE EndsLife(st, st')
    <2>1. Life!EndSession(TRUE) \/ Life!EndSession(FALSE)
      BY <1>0, <1>5 DEF EndsLife, Leaves, Stays, Life!EndSession
    <2>2. \E ends \in BOOLEAN : Life!EndSession(ends) BY ZenonT(60), <2>1
    <2>3. Life!End BY <1>0, <1>5, <2>2 DEF EndsLife, Life!End
    <2> QED BY <2>3 DEF Life!Next
  <1> QED BY <1>1, <1>2, <1>3, <1>4, <1>5 DEF LifeMove
================================================================================
