----------------------------- MODULE Emulation -----------------------------
(***************************************************************************)
(* The side of a host that is controlled: ListenTask, EmulationProxy and    *)
(* EmulationTask (lan-mouse/src/emulation.rs), the listener's connections   *)
(* (listen.rs) and the keys InputEmulation keeps track of                   *)
(* (input-emulation/src/lib.rs).  A peer is one connection, so its address  *)
(* is not reused.  Buttons are tracked as keys are, and motion and modifier *)
(* masks change nothing here.  Enter's position, fingerprints, Hello, and   *)
(* Pong, whose only reader is in PeerConnection, are left out.              *)
(***************************************************************************)
EXTENDS Naturals, Sequences, FiniteSets, SequencesExt

CONSTANTS Peers, Keys,
          None,
          MaxSessions,      \* bound: emulation sessions
          MaxReleases       \* bound: releases the service asks for

VARIABLES lt,      \* ListenTask: [seen, pending, entered, releases, conn, incoming, asked]
          rel,     \* ReleaseCapture events under way; TRUE while their receiver waits
          own,     \* this host's own capture is active
          px,      \* the proxy's cells: [ready, epoch]
          preq,    \* requests to EmulationTask
          pevt,    \* its Enabled and Disabled events, not yet read by the proxy
          em,      \* EmulationTask: [run, next, handles, pressed]
          os,      \* keys the operating system holds down for this program
          back     \* what was sent to each peer and has not arrived, oldest first

emulationVars == <<lt, rel, own, px, preq, pevt, em, os, back>>

-----------------------------------------------------------------------------
(* listen.rs.  reply returns FALSE without a connection; a send may also    *)
(* fail or time out, which to the peer is a lost datagram.                  *)

Reply(p, msgs) == back' = [back EXCEPT ![p] = IF lt.conn[p] = "open" THEN @ \o msgs ELSE @]

Readiness(cells) == [what |-> "Readiness", ready |-> cells.ready, epoch |-> cells.epoch]

Broadcast(msg) ==
  back' = [p \in Peers |-> IF lt.conn[p] = "open" THEN Append(back[p], msg) ELSE back[p]]

-----------------------------------------------------------------------------
(* The pending handoff: [addr, step, result].  A handoff that is dropped    *)
(* drops the receivers of its completions.                                  *)

Orphaned == [i \in DOMAIN rel |-> FALSE]
OrphanedCentering ==
  [i \in DOMAIN preq |-> IF preq[i].what = "Center" THEN [preq[i] EXCEPT !.live = FALSE]
                                                    ELSE preq[i]]

PendingFor(p) == lt.pending # None /\ lt.pending.addr = p

Request(what, p) == [what |-> what, addr |-> p, key |-> None, down |-> FALSE, live |-> TRUE]

EnterDisposition(p) ==
  IF p \in lt.entered THEN "Acknowledge"
  ELSE IF PendingFor(p) THEN "WaitForPending"
  ELSE IF lt.pending # None THEN "RejectBusy"
  ELSE "Start"

OnEnter(p) ==
  \/ /\ EnterDisposition(p) = "Acknowledge"
     /\ Reply(p, <<[what |-> "Ack"]>>)
     /\ lt' = [lt EXCEPT !.seen[p] = "fresh"]
     /\ UNCHANGED <<rel, preq>>
  \/ /\ EnterDisposition(p) \in {"WaitForPending", "RejectBusy"}
     /\ lt' = [lt EXCEPT !.seen[p] = "fresh"]
     /\ UNCHANGED <<rel, preq, back>>
  \/ /\ EnterDisposition(p) = "Start"
     /\ lt' = [lt EXCEPT !.seen[p] = "fresh",
                         !.pending = [addr |-> p, step |-> "Releasing", result |-> None]]
     /\ rel' = Append(rel, TRUE)
     /\ UNCHANGED <<preq, back>>

OnLeave(p) ==
  /\ lt' = [lt EXCEPT !.seen[p] = "fresh", !.entered = @ \ {p},
                      !.pending = IF PendingFor(p) THEN None ELSE @]
  /\ rel' = IF PendingFor(p) THEN Orphaned ELSE rel
  /\ preq' = Append(IF PendingFor(p) THEN OrphanedCentering ELSE preq, Request("Remove", p))
  /\ Reply(p, <<[what |-> "Ack"]>>)

(* consume: input is dropped while the cells say that emulation is off. *)
OnInput(p, m) ==
  /\ lt' = [lt EXCEPT !.seen[p] = "fresh"]
  /\ preq' = IF px.ready
               THEN Append(preq, [Request("Input", p) EXCEPT !.key = m.key, !.down = m.down])
               ELSE preq
  /\ UNCHANGED <<rel, back>>

PingOnly(p) ==                                    \* mutant: the request is not repeated
  /\ lt' = [lt EXCEPT !.seen[p] = "fresh"]
  /\ Reply(p, <<Readiness(px)>>)
  /\ UNCHANGED <<rel, preq>>

OnPing(p) ==
  /\ lt' = [lt EXCEPT !.seen[p] = "fresh"]
  /\ Reply(p, <<Readiness(px)>> \o
              (IF lt.releases[p] = 0 THEN <<>>
               ELSE <<[what |-> "ReleaseRequest", epoch |-> lt.releases[p]]>>))
  /\ UNCHANGED <<rel, preq>>

(* PendingReleases::acknowledge *)
Acknowledge(pending, epoch) == IF pending = epoch THEN 0 ELSE pending

OnReleaseAck(p, m) ==
  /\ lt' = [lt EXCEPT !.seen[p] = "fresh", !.releases[p] = Acknowledge(@, m.epoch)]
  /\ UNCHANGED <<rel, preq, back>>

(* ListenEvent::Msg *)
OnMessage(p, m) ==
  /\ lt.conn[p] = "open"
  /\ \/ m.what = "Enter" /\ OnEnter(p)
     \/ m.what = "Leave" /\ OnLeave(p)
     \/ m.what = "Input" /\ OnInput(p, m)
     \/ m.what = "Ping" /\ OnPing(p)
     \/ m.what = "ReleaseAck" /\ OnReleaseAck(p, m)
  /\ UNCHANGED <<own, px, pevt, em, os>>

(* read_loop ends when the connection does, and ListenTask hears of it. *)
ReadLoopEnds(p) == lt.conn[p] # "closed"

(* ListenEvent::Disconnected *)
OnDisconnected(p) ==
  /\ ReadLoopEnds(p)
  /\ lt' = [lt EXCEPT !.conn[p] = "closed", !.seen[p] = "none", !.releases[p] = 0,
                      !.entered = @ \ {p}, !.incoming = @ \ {p},
                      !.pending = IF PendingFor(p) THEN None ELSE @]
  /\ rel' = IF PendingFor(p) THEN Orphaned ELSE rel
  /\ preq' = Append(IF PendingFor(p) THEN OrphanedCentering ELSE preq, Request("Remove", p))
  /\ UNCHANGED <<own, px, pevt, em, os, back>>

-----------------------------------------------------------------------------
(* wait_for_pending_enter *)

(* request_center_pointer answers FALSE by itself while emulation is off. *)
RequestCenterPointer(p) ==
  /\ lt' = [lt EXCEPT !.pending.step = "Centering",
                      !.pending.result = IF px.ready THEN None ELSE FALSE]
  /\ preq' = IF px.ready THEN Append(preq, Request("Center", p)) ELSE preq

HandoffReleased ==
  /\ lt.pending # None /\ lt.pending.step = "Releasing" /\ lt.pending.result = TRUE
  /\ RequestCenterPointer(lt.pending.addr)
  /\ UNCHANGED <<rel, own, px, pevt, em, os, back>>

(* listener.disconnect *)
Disconnect(t, p) == [t EXCEPT !.conn[p] = IF @ = "open" THEN "closing" ELSE @]

HandoffFails(p) ==
  /\ lt' = Disconnect([lt EXCEPT !.pending = None], p)
  /\ preq' = Append(OrphanedCentering, Request("Remove", p))
  /\ UNCHANGED back

HandoffCentered ==
  /\ lt.pending # None /\ lt.pending.step = "Centering" /\ lt.pending.result = TRUE
  /\ LET p == lt.pending.addr IN
     \/ /\ lt.conn[p] = "open"
        /\ lt' = [lt EXCEPT !.pending = None, !.entered = @ \cup {p}, !.incoming = @ \cup {p}]
        /\ Reply(p, <<[what |-> "Ack"]>>)
        /\ UNCHANGED preq
     \/ HandoffFails(p)                      \* the reply failed or timed out
  /\ UNCHANGED <<rel, own, px, pevt, em, os>>

(* A step failed, or ENTER_HANDOFF_TIMEOUT has passed. *)
HandoffRefused ==
  /\ lt.pending # None
  /\ lt.pending.result # TRUE
  /\ HandoffFails(lt.pending.addr)
  /\ rel' = Orphaned
  /\ UNCHANGED <<own, px, pevt, em, os>>

(* The service and the capture task serve ReleaseCapture. *)
ReleaseOwnCapture ==
  /\ rel # <<>>
  /\ rel' = Tail(rel) /\ own' = FALSE
  /\ \E ok \in BOOLEAN :
       lt' = IF Head(rel) THEN [lt EXCEPT !.pending.result = ok] ELSE lt
  /\ UNCHANGED <<px, preq, pevt, em, os, back>>

-----------------------------------------------------------------------------
(* The other branches of ListenTask's select. *)

ReadProxyEvent ==
  /\ pevt # <<>>
  /\ px' = Head(pevt) /\ pevt' = Tail(pevt)
  /\ Broadcast(Readiness(Head(pevt)))
  /\ UNCHANGED <<lt, rel, own, preq, em, os>>

(* CaptureBegin of an incoming handle: the service wants its input back. *)
AskRelease(p) ==
  /\ p \in lt.incoming /\ lt.asked < MaxReleases
  /\ lt' = [lt EXCEPT !.asked = @ + 1, !.releases[p] = lt.asked + 1]
  /\ Reply(p, <<[what |-> "ReleaseRequest", epoch |-> lt.asked + 1]>>)
  /\ UNCHANGED <<rel, own, px, preq, pevt, em, os>>

Reenable ==
  /\ em.run = "idle" /\ preq = <<>>
  /\ preq' = <<Request("Reenable", None)>>
  /\ UNCHANGED <<lt, rel, own, px, pevt, em, os, back>>

(* The 5 s interval: peers silent for more than a second are given up. *)
WatchdogTick ==
  LET gone == {p \in Peers : lt.seen[p] = "silent"} IN
  /\ gone # {}
  /\ lt' = [lt EXCEPT !.seen = [p \in Peers |-> IF p \in gone THEN "none" ELSE @[p]],
                      !.releases = [p \in Peers |-> IF p \in gone THEN 0 ELSE @[p]],
                      !.incoming = @ \ gone]
  /\ preq' = preq \o [i \in 1..Cardinality(gone) |-> Request("Remove", SetToSeq(gone)[i])]
  /\ UNCHANGED <<rel, own, px, pevt, em, os, back>>

(* More than a second passes without a message of p. *)
Silence(p) ==
  /\ lt.seen[p] = "fresh"
  /\ lt' = [lt EXCEPT !.seen[p] = "silent"]
  /\ UNCHANGED <<rel, own, px, preq, pevt, em, os, back>>

-----------------------------------------------------------------------------
(* EmulationTask *)

Answer(request, ok) ==
  lt' = IF request.what = "Center" /\ request.live
          THEN [lt EXCEPT !.pending.result = ok] ELSE lt

(* InputEmulation::new with the session's epochs; then create_clients. *)
CreateEmulation ==
  /\ em.run = "creating"
  /\ \/ /\ em.next < 2 * MaxSessions
        /\ em' = [em EXCEPT !.run = "clients", !.next = @ + 2]
        /\ pevt' = Append(pevt, [ready |-> TRUE, epoch |-> em.next])
     \/ /\ em' \in {[em EXCEPT !.run = r] : r \in {"idle", "retry"}}
        /\ UNCHANGED pevt
  /\ UNCHANGED <<lt, rel, own, px, preq, os, back>>

ClientsCreated ==
  /\ em.run = "clients"
  /\ em' = [em EXCEPT !.run = "on"]
  /\ UNCHANGED <<lt, rel, own, px, preq, pevt, os, back>>

RetryDelayOver ==
  /\ em.run = "retry"
  /\ em' = [em EXCEPT !.run = "creating"]
  /\ UNCHANGED <<lt, rel, own, px, preq, pevt, os, back>>

(* wait_for_termination, beside InputEmulation::new and in create_clients:  *)
(* all requests are dropped.                                                *)
DropWhileCreating ==
  /\ em.run = "creating" \/ (em.run = "clients" /\ em.handles # {})
  /\ preq # <<>> /\ preq' = Tail(preq)
  /\ Answer(Head(preq), FALSE)
  /\ UNCHANGED <<rel, own, px, pevt, em, os, back>>

(* run, between sessions. *)
ServeBetweenSessions ==
  /\ em.run \in {"idle", "retry"}
  /\ preq # <<>> /\ preq' = Tail(preq)
  /\ Answer(Head(preq), FALSE)
  /\ em' = IF Head(preq).what = "Reenable" THEN [em EXCEPT !.run = "creating"] ELSE em
  /\ UNCHANGED <<rel, own, px, pevt, os, back>>


ReleaseInputs(ps) == os' = os \ UNION {em.pressed[p] : p \in ps}

(* InputEmulation::destroy releases what the handle holds before it goes. *)
Destroy(p) ==
  /\ ReleaseInputs({p})
  /\ em' = [em EXCEPT !.handles = @ \ {p}, !.pressed[p] = {}]

(* terminate destroys every handle, addrs names one just made; the drop guard reports the end. *)
EndSession(addrs) ==
  /\ ReleaseInputs(em.handles)
  /\ em' \in {[em EXCEPT !.run = r, !.handles = @ \cup addrs, !.pressed = [p \in Peers |-> {}]]
               : r \in {"idle", "retry"}}
  /\ pevt' = Append(pevt, [ready |-> FALSE, epoch |-> em.next - 1])

UpdatePressed(pressed, key, down) == IF down THEN pressed \cup {key} ELSE pressed \ {key}

HandleForAddr(p) == [em EXCEPT !.handles = @ \cup {p}]

(* InputEmulation::consume passes on only what changes the pressed set. *)
Consume(p, key, down) ==
  LET pressed == UpdatePressed(em.pressed[p], key, down) IN
  /\ em' = [HandleForAddr(p) EXCEPT !.pressed[p] = pressed]
  /\ os' = IF pressed = em.pressed[p] THEN os
           ELSE IF down THEN os \cup {key} ELSE os \ {key}

ServeRequest ==
  /\ em.run = "on" /\ preq # <<>>
  /\ preq' = Tail(preq)
  /\ LET q == Head(preq) IN
     \/ q.what = "Input" /\ Consume(q.addr, q.key, q.down) /\ UNCHANGED <<lt, pevt>>
     \/ q.what = "Input" /\ EndSession({q.addr}) /\ UNCHANGED lt       \* the backend refuses it
     \/ /\ q.what = "Center" /\ Answer(q, TRUE)
        /\ em' = HandleForAddr(q.addr)
        /\ UNCHANGED <<os, pevt>>
     \/ q.what = "Center" /\ Answer(q, FALSE) /\ EndSession({q.addr})
     \/ q.what = "Remove" /\ Destroy(q.addr) /\ UNCHANGED <<lt, pevt>>
     \/ q.what = "Reenable" /\ UNCHANGED <<lt, em, os, pevt>>
  /\ UNCHANGED <<rel, own, px, back>>

(* poll_error *)
EmulationFails ==
  /\ em.run = "on" /\ EndSession({})
  /\ UNCHANGED <<lt, rel, own, px, preq, back>>

-----------------------------------------------------------------------------
EmulationInit ==
  /\ lt = [seen |-> [p \in Peers |-> "none"], pending |-> None, entered |-> {},
           releases |-> [p \in Peers |-> 0], conn |-> [p \in Peers |-> "open"],
           incoming |-> {}, asked |-> 0]
  /\ rel = <<>> /\ own = FALSE
  /\ px = [ready |-> FALSE, epoch |-> 0] /\ preq = <<>> /\ pevt = <<>>
  /\ em = [run |-> "creating", next |-> 1, handles |-> {}, pressed |-> [p \in Peers |-> {}]]
  /\ os = {} /\ back = [p \in Peers |-> <<>>]

(* What the two tasks do by themselves once they run. *)
EmulationTurn ==
  \/ HandoffReleased
  \/ HandoffCentered
  \/ ReleaseOwnCapture
  \/ ReadProxyEvent
  \/ CreateEmulation
  \/ ClientsCreated
  \/ RetryDelayOver
  \/ DropWhileCreating
  \/ ServeBetweenSessions
  \/ ServeRequest

(* This host's user starts a capture of their own. *)
OwnCaptureStarts ==
  /\ ~own /\ own' = TRUE
  /\ UNCHANGED <<lt, rel, px, preq, pevt, em, os, back>>
=============================================================================
