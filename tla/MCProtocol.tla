------------------------------- MODULE MCProtocol -------------------------------
(* ProtocolSpec for TLC.  The server's input always has a signal; a client host  *)
(* has one or, where the run asks for it, may have none.                         *)
EXTENDS ProtocolSpec, TLC

AllSignals == [h \in DisplayHosts |-> TRUE]
ServerSignal == [h \in DisplayHosts |-> h = Server]
SteadySignals == {AllSignals}
LossySignals == {AllSignals, ServerSignal}

(* No step tells one request identity from another. *)
Interchangeable == Permutations(Requests)
================================================================================
