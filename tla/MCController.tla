---------------------------- MODULE MCController ----------------------------
(***************************************************************************)
(* The controller daemon with late answers, and with a fault besides; with  *)
(* a user who changes the TV's input by hand, while clients call or while a *)
(* connection breaks; and with prompt answers, for what must happen in the  *)
(* end.                                                                     *)
(***************************************************************************)
EXTENDS Controller

Late == [epochs |-> MaxEpoch, calls |-> 3, views |-> {}, faults |-> 0, delays |-> 1, byHand |-> 0]
Lossy == [epochs |-> MaxEpoch, calls |-> 2, views |-> {}, faults |-> 1, delays |-> 1, byHand |-> 0]
Watched == [epochs |-> 5, calls |-> 2, views |-> BOOLEAN, faults |-> 0, delays |-> 0, byHand |-> 1]
Broken == [epochs |-> 5, calls |-> 1, views |-> BOOLEAN, faults |-> 1, delays |-> 0, byHand |-> 1]
Prompt == [epochs |-> MaxEpoch, calls |-> 3, views |-> {}, faults |-> 1, delays |-> 0, byHand |-> 0]
MCBudgets == {Late, Lossy, Watched, Broken, Prompt}

OnPrompt == most = Prompt

PromptSpec ==
    /\ Spec
    /\ WF_vars(OnPrompt /\ Actor) /\ WF_vars(OnPrompt /\ Session)
    /\ WF_vars(OnPrompt /\ Keepalive) /\ WF_vars(OnPrompt /\ Clock)


(* A required fallback ends: whatever was lost, full or failed, the server's display is  *)
(* verified or a selection by hand accepted (begin_fallback; tick retries).  And a TV    *)
(* that falls silent is noticed, although neither an answer nor an error ever comes      *)
(* (keepalive_ms in run_connected_session; the timeouts of request_payload).             *)
Unsettled == OnPrompt /\ (st.fallback_required \/ (tv.silent /\ DaemonHealthy(st)))
Settles == Unsettled ~> ~Unsettled
================================================================================
