----------------------------- MODULE ClipboardActor -----------------------------
(***************************************************************************)
(* The actor thread that owns the native clipboard of one host (actor.rs).  *)
(* Each command is an operator on the Actor record a, which also holds the  *)
(* host, the process session and the native clipboard: gen counts its       *)
(* changes, val is the content.  The result is [next, event, payload].      *)
(*                                                                         *)
(* A capture between two equal generations returns the content of that       *)
(* generation, so it is one step; it may also fail (private, oversized or     *)
(* changing content), and the backend may be lost.                            *)
(***************************************************************************)
EXTENDS ClipboardCoordinator

NewActor(host, session, token, gen, val) ==
    [host |-> host, session |-> session, token |-> token, observed |-> gen, seq |-> 0,
     prep |-> None, snap |-> None, stage |-> None, applied |-> None,
     gen |-> gen, val |-> val]

Done(a, event) == [next |-> a, event |-> event, payload |-> None]

Event(type, id) == [type |-> type, id |-> id, token |-> None, snapshot |-> None, baseline |-> None]

Skipped(a, id) == Done(a, Event("Skipped", id))

(* The failures that end the actor thread. *)
Lost(a, id) == Done(a, Event("BackendUnavailable", id))

(* A new owner token makes everything of the old one stale, except a snapshot  *)
(* that is already bound to the handoff which moved the token.                 *)
SynchronizeAuthority(a, token) ==
    LET bound == /\ token.auth = a.token.auth
                 /\ a.snap # None /\ a.snap.id # None /\ a.snap.token = a.token
    IN  IF token = a.token THEN Done(a, Event("AuthoritySynchronized", None))
        ELSE Done([a EXCEPT !.snap = IF bound THEN @ ELSE None, !.stage = None,
                            !.prep = None, !.applied = None, !.token = token],
                  Event("AuthoritySynchronized", None))

(* Mutant of PrepareTarget: the token is taken already. *)
PrepareAndActivate(a, id, token) ==
    IF \/ id.auth # token.auth \/ token.auth # a.token.auth
       \/ token.owner # a.host \/ token = a.token
    THEN Skipped(a, id)
    ELSE Done([a EXCEPT !.prep = [id |-> id, token |-> token, baseline |-> a.observed],
                        !.token = token],
              [Event("Prepared", id) EXCEPT !.token = token, !.baseline = a.observed])

(* The baseline is the generation observed before, not the one of this moment. *)
PrepareTarget(a, id, token) ==
    IF \/ id.auth # token.auth \/ token.auth # a.token.auth
       \/ token.owner # a.host \/ token = a.token
    THEN Skipped(a, id)
    ELSE Done([a EXCEPT !.prep = [id |-> id, token |-> token, baseline |-> a.observed]],
              [Event("Prepared", id) EXCEPT !.token = token, !.baseline = a.observed])

(* capture_source and stable_capture; id is None for a provisional capture. *)
CaptureSource(a, id, token) ==
    LET snapshot == [session |-> a.session, seq |-> a.seq + 1]
        captured == [a EXCEPT !.observed = a.gen, !.seq = @ + 1,
                              !.snap = [id |-> id, token |-> token, snapshot |-> snapshot,
                                        val |-> a.val]]
    IN  IF token # a.token \/ (id # None /\ id.auth # token.auth) THEN Skipped(a, id)
        ELSE Done(captured, [Event(IF id = None THEN "ProvisionalCaptured" ELSE "Captured", id)
                                EXCEPT !.token = token, !.snapshot = snapshot])

(* The content changed during both tries; the generation was observed. *)
SourceChanged(a, id, token) ==
    Skipped(IF token = a.token THEN [a EXCEPT !.observed = a.gen] ELSE a, id)

BindProvisional(a, id, token) ==
    IF \/ a.snap = None \/ a.snap.id # None \/ a.snap.token # token \/ id.auth # token.auth
    THEN Skipped(a, id)
    ELSE Done([a EXCEPT !.snap.id = id],
              [Event("Captured", id) EXCEPT !.token = token, !.snapshot = a.snap.snapshot])

(* The one payload slot may still be taken. *)
PublishSnapshot(a, id, snapshot, slotFree) ==
    IF a.snap = None \/ a.snap.id # id \/ a.snap.snapshot # snapshot THEN Skipped(a, id)
    ELSE IF ~slotFree THEN Skipped([a EXCEPT !.snap = None], id)
    ELSE [next |-> [a EXCEPT !.snap = None],
          event |-> [Event("Published", id) EXCEPT !.snapshot = snapshot],
          payload |-> [id |-> id, snapshot |-> snapshot, token |-> a.snap.token,
                       val |-> a.snap.val]]

(* Mutant of ApplyStage: the baseline is compared with the generation last observed. *)
ApplyOverObserved(a) ==
    LET s == a.stage
        identity == [id |-> s.id, snapshot |-> s.snapshot]
        unstaged == [a EXCEPT !.stage = None]
    IN  IF s.token # a.token THEN Skipped(a, None)
        ELSE IF a.applied = identity THEN Skipped(unstaged, s.id)
        ELSE IF s.baseline # a.observed THEN Skipped(unstaged, s.id)
        ELSE Done([unstaged EXCEPT !.gen = @ + 1, !.observed = a.gen + 1, !.val = s.val,
                                   !.applied = identity, !.prep = None],
                  [Event("Applied", s.id) EXCEPT !.snapshot = s.snapshot])

(* The native write: only over the generation the stage was prepared for. *)
ApplyStage(a) ==
    LET s == a.stage
        identity == [id |-> s.id, snapshot |-> s.snapshot]
        unstaged == [a EXCEPT !.stage = None]
    IN  IF s.token # a.token THEN Skipped(a, None)
        ELSE IF a.applied = identity THEN Skipped(unstaged, s.id)
        ELSE IF s.baseline # a.gen THEN Skipped([unstaged EXCEPT !.observed = a.gen], s.id)
        ELSE Done([unstaged EXCEPT !.gen = @ + 1, !.observed = a.gen + 1, !.val = s.val,
                                   !.applied = identity, !.prep = None],
                  [Event("Applied", s.id) EXCEPT !.snapshot = s.snapshot])

ActivateTarget(a, id, token) ==
    LET active == [a EXCEPT !.token = token] IN
    IF \/ id.auth # token.auth \/ token.owner # a.host
       \/ a.prep = None \/ a.prep.id # id \/ a.prep.token # token
    THEN Skipped(a, id)
    ELSE IF a.stage # None /\ a.stage.id = id THEN ApplyStage(active)
    ELSE Done(active, [Event("Activated", id) EXCEPT !.token = token])

StageSnapshot(a, s) ==
    LET staged == [a EXCEPT !.stage = s] IN
    IF \/ s.id.auth # s.token.auth \/ s.token.owner # a.host
       \/ a.applied = [id |-> s.id, snapshot |-> s.snapshot]
       \/ a.prep = None \/ a.prep.id # s.id \/ a.prep.token # s.token
       \/ a.prep.baseline # s.baseline \/ s.session # a.session
    THEN Skipped(a, s.id)
    ELSE IF a.token = s.token THEN ApplyStage(staged)
    ELSE Done(staged, [Event("Staged", s.id) EXCEPT !.snapshot = s.snapshot])

CancelHandoff(a, id) ==
    Done([a EXCEPT !.prep = IF @ # None /\ @.id = id THEN None ELSE @,
                   !.snap = IF @ # None /\ @.id = id THEN None ELSE @,
                   !.stage = IF @ # None /\ @.id = id THEN None ELSE @],
         Event("Canceled", id))

(* handle: the outcomes a command may have. *)
Handle(a, cmd, slotFree) ==
    CASE cmd.type = "SynchronizeAuthority" -> {SynchronizeAuthority(a, cmd.token)}
      [] cmd.type = "PrepareTarget" -> {PrepareTarget(a, cmd.id, cmd.token)}
      [] cmd.type = "CaptureSource" ->
            {CaptureSource(a, cmd.id, cmd.token), Skipped(a, cmd.id), Lost(a, cmd.id),
             SourceChanged(a, cmd.id, cmd.token)}
      [] cmd.type = "BindProvisional" -> {BindProvisional(a, cmd.id, cmd.token)}
      [] cmd.type = "PublishSnapshot" -> {PublishSnapshot(a, cmd.id, cmd.snapshot, slotFree)}
      [] cmd.type = "ActivateTarget" ->
            {ActivateTarget(a, cmd.id, cmd.token)}
                \cup (IF a.stage = None THEN {} ELSE {Lost(a, cmd.id)})
      [] cmd.type = "StageSnapshot" -> {StageSnapshot(a, cmd.stage), Lost(a, cmd.stage.id)}
      [] cmd.type = "CancelHandoff" -> {CancelHandoff(a, cmd.id)}
================================================================================
