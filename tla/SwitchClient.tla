------------------------------ MODULE SwitchClient ------------------------------
(***************************************************************************)
(* The hub's HTTP client (SwitchController in lan-mouse/src/switch.rs) with *)
(* the hub's lease on one side and the controller, as RequestLife describes *)
(* it, on the other.  A call may be lost, may be answered late, and may     *)
(* reach the controller after the client has given it up.                   *)
(*                                                                         *)
(* task is [op, ctx, step, left, call, age, ans]: the switch task of the    *)
(* hub, the call it is in (idle, out, back), how long ago that call was     *)
(* started, and its answer.  The lease epoch stands for the request id.     *)
(***************************************************************************)
EXTENDS BundleLease, FiniteSets

CONSTANTS
    Server, Target,
    LEASE_TTL, GRANT_TTL,
    REQUEST_TIMEOUT,    \* time prepare may take
    MaxRequests,        \* bound on the reservations of a behaviour
    MaxStray            \* bound on given up calls that may still arrive

VARIABLES
    m,                          \* BundleLeaseManager
    task,                       \* the running switch task, or None
    stray,                      \* calls the client gave up and the network still has
    req, ses, owner, issued,    \* the controller
    done,                       \* request ids the controller remembers as ended
    cancelled,                  \* request ids whose cancel the controller confirmed
    promise                     \* time the controller last promised to the newest request

life == <<req, ses, owner, issued>>
vars == <<m, task, stray, life, done, cancelled, promise>>

Controller == INSTANCE RequestLife WITH
    Ids <- 1 .. MaxRequests, Hosts <- {Server, Target}, Lease <- LEASE_TTL, Grant <- GRANT_TTL

Init ==
    /\ m = NewManager /\ task = None /\ stray = {}
    /\ Controller!Init
    /\ done = {} /\ cancelled = {} /\ promise = 0

Age(t) == Least(t + 1, LEASE_TTL)

-----------------------------------------------------------------------------
(* The controller's side of a call. *)

IdsOf(x) == IF x = None THEN {} ELSE {x.id}

(* What request_response shows of a request after the event was applied. *)
Snapshot(id) ==
    CASE id \in IdsOf(req') -> [status |-> req'.status, epoch |-> req'.epoch,
                                life |-> req'.life, grant |-> req'.grant]
      [] id \notin IdsOf(req') /\ id \in IdsOf(ses') ->
            [status |-> "Committed", epoch |-> ses'.epoch, life |-> ses'.life, grant |-> 0]
      [] OTHER -> [status |-> "Ended", epoch |-> 0, life |-> 0, grant |-> 0]

Failed == [status |-> "Error", epoch |-> 0, life |-> 0, grant |-> 0]

(* The call has no effect and is answered with an error. *)
Refuse(ans) == UNCHANGED life /\ ans = Failed

ServeReadiness(ans) == UNCHANGED life /\ ans = [Failed EXCEPT !.status = "Published"]

ServeCreate(id, ans) ==
    \/ id \in IdsOf(req) \cup done /\ UNCHANGED life /\ ans = Snapshot(id)
    \/ id \notin IdsOf(req) \cup done /\ Controller!Create(id, Target, LEASE_TTL)
         /\ ans = Snapshot(id)
    \/ Refuse(ans)

ServePoll(id, ans) == UNCHANGED life /\ ans = Snapshot(id)

(* Repeating the commit of the session changes nothing; a peer that is no        *)
(* longer ready ends the request.                                                *)
ServeCommit(id, call, ans) ==
    \/ id \in IdsOf(ses) /\ UNCHANGED life /\ ans = Snapshot(id)
    \/ /\ id \in IdsOf(req) /\ id \notin IdsOf(ses)
       /\ call.request = req.epoch
       /\ Controller!Commit \/ (req.status = "Grant" /\ Controller!End /\ req' = None)
       /\ ans = Snapshot(id)
    \/ Refuse(ans)

(* A renewal of anything but the session ends the session. *)
ServeRenew(id, ans) ==
    /\ \/ id \in IdsOf(ses) /\ Controller!Renew
       \/ Controller!End /\ ses' = None
    /\ ans = IF ses' = None THEN Failed
             ELSE [Failed EXCEPT !.status = "Renewed", !.life = ses'.life]

(* Mutant of ServeCancel: a committed request cannot be cancelled any more. *)
ServeCancelRequestOnly(id, ans) ==
    \/ /\ id \in IdsOf(req) /\ Controller!End /\ req' = None /\ ans = Snapshot(id)
    \/ id \in done \cup IdsOf(ses) /\ UNCHANGED life /\ ans = Snapshot(id)
    \/ Refuse(ans)

ServeCancel(id, ans) ==
    \/ /\ id \in IdsOf(ses) /\ Controller!End /\ ses' = None /\ ans = Snapshot(id)
    \/ /\ id \in IdsOf(req) \ IdsOf(ses) /\ Controller!End /\ req' = None
       /\ ans = Snapshot(id)
    \/ id \in done /\ UNCHANGED life /\ ans = Snapshot(id)
    \/ Refuse(ans)

Serve(call, ans) ==
    CASE call.step = "publish" -> ServeReadiness(ans)
      [] call.step = "create"  -> ServeCreate(call.id, ans)
      [] call.step = "poll"    -> ServePoll(call.id, ans)
      [] call.step = "commit"  -> ServeCommit(call.id, call, ans)
      [] call.step = "renew"   -> ServeRenew(call.id, ans)
      [] call.step = "cancel"  -> ServeCancel(call.id, ans)

Answers ==
    {Failed, [Failed EXCEPT !.status = "Published"], [Failed EXCEPT !.status = "Ended"]}
      \cup [status : {"Renewed"}, epoch : {0}, life : 0 .. LEASE_TTL, grant : {0}]
      \cup [status : {"Waking", "Switching", "Committed"}, epoch : 1 .. MaxRequests,
            life : 0 .. LEASE_TTL, grant : {0}]
      \cup [status : {"Grant"}, epoch : 1 .. MaxRequests, life : 0 .. LEASE_TTL,
            grant : 0 .. GRANT_TTL]

(* Bookkeeping of every step of the controller: what it remembers, and what it   *)
(* has promised to the newest request.                                            *)
Remember ==
    /\ done' = done \cup ((IdsOf(req) \cup IdsOf(ses)) \ (IdsOf(req') \cup IdsOf(ses')))
    /\ promise' =
         CASE m.next \in IdsOf(ses') -> ses'.life
           [] m.next \notin IdsOf(ses') /\ m.next \in IdsOf(req') -> req'.life
           [] OTHER -> promise

-----------------------------------------------------------------------------
(* The client's side. *)

Task(op, ctx, step) ==
    [op |-> op, ctx |-> ctx, step |-> step, left |-> REQUEST_TIMEOUT,
     call |-> "idle", age |-> 0, ans |-> None]

CallOf(t) == [id |-> t.ctx.epoch, step |-> t.step,
              request |-> IF m.grant = None THEN 0 ELSE m.grant.request]

(* Dropping a call leaves it to the network whether it still arrives. *)
Abandon(t) ==
    IF t # None /\ t.call = "out" /\ Cardinality(stray) < MaxStray
    THEN stray' \in {stray, stray \cup {CallOf(t)}} ELSE UNCHANGED stray

(* Mutant of LocalDeadline: the remaining time is counted from the answer. *)
DeadlineFromAnswer(remaining, age) == remaining

(* local_deadline: what remained at the server, counted from the start of the    *)
(* request and not from its answer.                                              *)
LocalDeadline(remaining, age) == IF remaining > age THEN remaining - age ELSE 0

(* The hub's fail_context: nothing is reserved, and the controller is told. *)
Fail(t) ==
    /\ m' = Invalidate(m)
    /\ task' = IF m.ctx = None THEN None ELSE Task("cancel", m.ctx, "cancel")
    /\ Abandon(t)

(* A candidate edge starts a reservation and prepare. *)
BeginPrepare ==
    /\ task = None /\ m.kind = Local /\ m.next < MaxRequests
    /\ m' = Reserve(m, 1, Target, 1, TRUE, LEASE_TTL).mgr
    /\ task' = Task("prepare", m'.ctx, "publish")
    /\ promise' = 0
    /\ UNCHANGED <<stray, life, done, cancelled>>

(* request_enter and send: the call starts, unless prepare is out of time. *)
Send ==
    /\ task # None /\ task.call = "idle"
    /\ IF task.op = "prepare" /\ task.left = 0 THEN Fail(task)
       ELSE /\ task' = [task EXCEPT !.call = "out", !.age = 0]
            /\ UNCHANGED <<m, stray>>
    /\ UNCHANGED <<life, done, cancelled, promise>>

Arrive ==
    /\ task # None /\ task.call = "out"
    /\ \E ans \in Answers :
         /\ Serve(CallOf(task), ans)
         /\ task' = [task EXCEPT !.call = "back", !.ans = ans]
    /\ Remember
    /\ UNCHANGED <<m, stray, cancelled>>

StrayArrives ==
    /\ \E call \in stray :
         /\ stray' = stray \ {call}
         /\ \E ans \in Answers : Serve(call, ans)
    /\ Remember
    /\ UNCHANGED <<m, task, cancelled>>

StrayLost == stray # {} /\ stray' = {} /\ UNCHANGED <<m, task, life, done, cancelled, promise>>

(* The prepare loop: done with a grant, polling while the request is under way. *)
Prepared(ans) ==
    /\ ans.status = "Grant"
    /\ LET prepared == [request |-> ans.epoch, grant |-> ans.epoch,
                        lease_left |-> LocalDeadline(ans.life, task.age),
                        grant_left |-> LocalDeadline(ans.grant, task.age)]
           armed == ArmGrant(m, task.ctx, prepared, TRUE, 1)
       IN IF armed.err = Ok
          THEN m' = armed.mgr /\ task' = None /\ UNCHANGED stray
          ELSE Fail(task)

NextPoll(step) ==
    /\ task' = [task EXCEPT !.step = step, !.call = "idle", !.ans = None]
    /\ UNCHANGED <<m, stray>>

TakePrepare ==
    /\ task # None /\ task.op = "prepare" /\ task.call = "back"
    /\ LET ans == task.ans IN
       \/ ans.status = "Published" /\ NextPoll("create")
       \/ ans.status \in {"Waking", "Switching"} /\ task.left > 0 /\ NextPoll("poll")
       \/ ans.status \in {"Waking", "Switching"} /\ task.left = 0 /\ Fail(task)
       \/ Prepared(ans)
       \/ ans.status \in {"Committed", "Ended", "Error"} /\ Fail(task)
    /\ UNCHANGED <<life, done, cancelled, promise>>

(* The answers to commit and renew move the lease's deadline. *)
TakeRenewal ==
    /\ task # None /\ task.op \in {"commit", "renew"} /\ task.call = "back"
    /\ LET ans == task.ans
           until == LocalDeadline(ans.life, task.age)
           renewed == RenewLease(m, task.ctx.epoch, until, TRUE, 1)
       IN IF /\ ans.status = (IF task.op = "commit" THEN "Committed" ELSE "Renewed")
             /\ renewed.err = Ok
          THEN m' = renewed.mgr /\ task' = None /\ UNCHANGED stray
          ELSE Fail(task)
    /\ UNCHANGED <<life, done, cancelled, promise>>

TakeCancel ==
    /\ task # None /\ task.op = "cancel" /\ task.call = "back"
    /\ task' = None
    /\ cancelled' = cancelled \cup (IF task.ans = Failed THEN {} ELSE {task.ctx.epoch})
    /\ UNCHANGED <<m, stray, life, done, promise>>

(* The HTTP timeout, a broken connection or an unreadable answer. *)
CallFails ==
    /\ task # None /\ task.call # "idle"
    /\ IF task.op = "cancel" THEN task' = None /\ UNCHANGED m /\ Abandon(task)
       ELSE Fail(task)
    /\ UNCHANGED <<life, done, cancelled, promise>>

(* The pointer crosses: the capture is authorised, then the commit is sent. *)
Cross ==
    /\ task = None /\ m.kind = GrantArmed
    /\ LET committed == CommitLease(m, 1, m.ctx.epoch, TRUE, 1) IN
       IF committed.err = Ok
       THEN m' = committed.mgr /\ task' = Task("commit", m.ctx, "commit") /\ UNCHANGED stray
       ELSE Fail(task)
    /\ UNCHANGED <<life, done, cancelled, promise>>

BeginRenew ==
    /\ task = None /\ m.kind = RemoteOwned
    /\ task' = Task("renew", m.ctx, "renew")
    /\ UNCHANGED <<m, stray, life, done, cancelled, promise>>

(* The lease's deadline, a release by the user, a lost peer: the running task   *)
(* is cancelled.                                                                 *)
GiveUp ==
    /\ m.kind # Local
    /\ Fail(task)
    /\ UNCHANGED <<life, done, cancelled, promise>>

DeadlinePasses == m.kind # Local /\ LeaseExpired(m) /\ GiveUp

-----------------------------------------------------------------------------
(* The controller by itself: a request under way, or ended. *)
ControllerWorks ==
    /\ Controller!Progress \/ (Controller!End /\ life' # life)
    /\ Remember
    /\ UNCHANGED <<m, task, stray, cancelled>>

(* Mutant of ControllerExpires: only requests have a deadline. *)
OnlyRequestsExpire ==
    /\ req # None /\ req.life = 0 /\ Controller!End /\ req' = None
    /\ Remember
    /\ UNCHANGED <<m, task, stray, cancelled>>

(* Its deadline timer. *)
ControllerExpires ==
    /\ \/ req # None /\ req.life = 0 /\ Controller!End /\ req' = None
       \/ ses # None /\ ses.life = 0 /\ Controller!End /\ ses' = None
    /\ Remember
    /\ UNCHANGED <<m, task, stray, cancelled>>

Tick ==
    /\ Controller!Elapse
    /\ m' = LeaseElapse(m)
    /\ task' = IF task = None THEN None
               ELSE [task EXCEPT !.left = Left(@),
                                 !.age = IF task.call = "idle" THEN 0 ELSE Age(@)]
    /\ promise' = Left(promise)
    /\ UNCHANGED <<stray, done, cancelled>>

Next ==
    \/ BeginPrepare \/ Send \/ Arrive \/ StrayArrives \/ StrayLost
    \/ TakePrepare \/ TakeRenewal \/ TakeCancel \/ CallFails
    \/ Cross \/ BeginRenew \/ GiveUp \/ ControllerWorks \/ ControllerExpires \/ Tick

Spec == Init /\ [][Next]_vars

(* Timers run, and the client's task and the controller's deadline are served.  *)
(* Nothing makes a call arrive: the HTTP timeout ends it.                         *)
FairSpec ==
    /\ Spec
    /\ WF_vars(Tick) /\ WF_vars(Send) /\ WF_vars(CallFails)
    /\ WF_vars(DeadlinePasses) /\ WF_vars(ControllerExpires) /\ WF_vars(StrayLost)

-----------------------------------------------------------------------------
(* The hub never holds a grant, or the remote input, longer than the controller   *)
(* has promised: its deadline, computed from an answer of unknown delay            *)
(* (local_deadline), is not later than the one the controller keeps.               *)
HoldsWithinPromise ==
    m.kind \in {GrantArmed, RemoteOwned} /\ ~LeaseExpired(m) => LeaseDeadline(m) <= promise

(* Once the controller has confirmed a cancel, no call that arrives late (a create, *)
(* a commit, a renewal the client gave up) brings the request or its session back.   *)
CancelIsFinal == cancelled \cap (IdsOf(req) \cup IdsOf(ses)) = {}

(* A request or session that the hub has given up ends at the controller, even    *)
(* when the cancel is lost or overtakes the create.                               *)
Wanted == IF m.ctx = None THEN {} ELSE {m.ctx.epoch}
AbandonedEnds ==
    \A id \in 1 .. MaxRequests :
        (id \in IdsOf(req) \cup IdsOf(ses) /\ id \notin Wanted)
            ~> id \notin IdsOf(req) \cup IdsOf(ses)

(* The hub comes back to rest or has the input: a prepare, commit or cancel never *)
(* hangs, whatever is lost.                                                       *)
TaskEnds == (task # None) ~> (task = None)
================================================================================
