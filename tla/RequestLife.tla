------------------------------ MODULE RequestLife ------------------------------
(***************************************************************************)
(* What the controller promises a client: the life of an enter request and  *)
(* of the session it may become, and who has the input.  How the display is *)
(* switched, what the TV answers and which peers are ready is left out: it  *)
(* only decides which of the steps below are taken.                         *)
(*                                                                         *)
(* req is [id, to, epoch, status, life, grant]: life is the time its lease  *)
(* has left, grant the time its grant has left (0 without one).             *)
(* ses is [id, to, epoch, life].                                            *)
(***************************************************************************)
EXTENDS Naturals

CONSTANTS
    None,
    Ids,            \* request ids clients choose
    Hosts, Server,
    Lease,          \* longest lease the controller accepts, and the renewal period
    Grant           \* longest life of a grant

VARIABLES
    req,        \* the request being worked on, or None
    ses,        \* the committed session, or None
    owner,      \* the host that has keyboard and pointer
    issued      \* request epochs issued so far

life == <<req, ses, owner, issued>>

Init == req = None /\ ses = None /\ owner = Server /\ issued = 0

Rank(status) == CASE status = "Waking" -> 0 [] status = "Switching" -> 1 [] status = "Grant" -> 2

Smaller(s, t) == IF s < t THEN s ELSE t

GrantLife(status, left) == IF status = "Grant" THEN Smaller(Grant, left) ELSE 0

(* What the answers to a client show of a request. *)
Asked(id, to, epoch, status, left) ==
    [id |-> id, to |-> to, epoch |-> epoch, status |-> status, life |-> left,
     grant |-> GrantLife(status, left)]

(* The input goes back to the server when the session ends, and not before. *)
EndSession(ends) ==
    IF ends THEN ses' = None /\ owner' = Server ELSE UNCHANGED <<ses, owner>>

(* A request gets the next epoch.  It is denied at once, or under way; asking    *)
(* for the server's own display ends the session of another host.                *)
Create(id, to, left) ==
    /\ req = None
    /\ issued' = issued + 1
    /\ \/ req' = None
       \/ \E status \in {"Waking", "Switching", "Grant"} :
            req' = Asked(id, to, issued + 1, status, left)
    /\ \E ends \in BOOLEAN : EndSession(ends)

(* A request moves forward only, and keeps its identity and its lease. *)
Progress ==
    /\ req # None
    /\ \E status \in {"Switching", "Grant"} :
         /\ Rank(req.status) < Rank(status)
         /\ req' = Asked(req.id, req.to, req.epoch, status, req.life)
    /\ UNCHANGED <<ses, owner, issued>>

(* Only a request whose grant and lease are alive becomes a session. *)
Commit ==
    /\ req # None /\ req.status = "Grant" /\ req.grant > 0 /\ req.life > 0
    /\ req' = None
    /\ owner' = req.to
    /\ ses' = IF req.to = Server THEN None
              ELSE [id |-> req.id, to |-> req.to, epoch |-> req.epoch, life |-> Lease]
    /\ UNCHANGED issued

Renew ==
    /\ ses # None
    /\ ses' = [ses EXCEPT !.life = Lease]
    /\ UNCHANGED <<req, owner, issued>>

(* A cancel, a timeout, a lost peer, display or connection, a local override. *)
End ==
    /\ req' \in {req, None}
    /\ \E ends \in BOOLEAN : EndSession(ends)
    /\ UNCHANGED issued

Shorter(t) == IF t = 0 THEN 0 ELSE t - 1

Elapse ==
    /\ req' = IF req = None THEN None
              ELSE [req EXCEPT !.life = Shorter(@), !.grant = Shorter(@)]
    /\ ses' = IF ses = None THEN None ELSE [ses EXCEPT !.life = Shorter(@)]
    /\ UNCHANGED <<owner, issued>>

Next ==
    \/ \E id \in Ids, to \in Hosts, left \in 1 .. Lease : Create(id, to, left)
    \/ Progress \/ Commit \/ Renew \/ End \/ Elapse

Spec == Init /\ [][Next]_life
================================================================================
