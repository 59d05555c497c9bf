-------------------------- MODULE TransportProofs --------------------------
(* A transport never runs two connections with one host, for any set of hosts *)
(* and connections and any number of faults (OneConnection).                  *)
(*                                                                            *)
(* The invariant: a connection that runs is the one that the manager has as   *)
(* active for that host (Current), and a host with an active connection is in *)
(* the registry (Listed). The second is what refuses or replaces another      *)
(* connection of the host when it is registered.                              *)
(*                                                                            *)
(* Once the runtime has read all events it knows the active connection        *)
(* (RuntimeCurrent). Its invariant follows the queue: what the runtime will   *)
(* know at its end is the active connection, and every Disconnected in it is  *)
(* about the connection that the runtime has when it gets there (Told).       *)
EXTENDS ClipboardTransport, FiniteSetTheorems, TLAPS

States == {"hello", "queued", "open", "orphan", "cancelled", "ending", "closed"}

Connection(p) ==
    [peer : {p}, end : [{Server, p} -> States], session : [{Server, p} -> Nat],
     broken : BOOLEAN, silent : BOOLEAN]

ConnType ==
    /\ conn = [c \in Slots |-> conn[c]]
    /\ \A c \in Slots : conn[c] = None \/ (conn[c].peer \in Peers /\ conn[c] \in Connection(conn[c].peer))

TableType ==
    /\ proc \in [Hosts -> Nat]
    /\ active \in [Hosts -> [Hosts -> Slots \cup {None}]]
    /\ reg \in [Hosts -> [Hosts -> [proc : Nat, slot : Slots] \cup {None}]]

(* Connection k runs at the end x, with h at the other end. *)
Runs(k, x, h) ==
    /\ k # None /\ k.end[x] = "open"
    /\ (x = Server /\ h = k.peer) \/ (x = k.peer /\ h = Server)

Current == \A x, h \in Hosts : \A c \in Slots : Runs(conn[c], x, h) => active[x][h] = c

Listed == \A x, h \in Hosts : active[x][h] # None => reg[x][h] # None

IInv == ConnType /\ TableType /\ Current /\ Listed

-----------------------------------------------------------------------------
(* Put changes one end of one connection. *)
LEMMA PutEffect ==
    ASSUME ConnType, NEW c \in Slots, conn[c] # None, NEW x \in Ends(c), NEW s \in States, Put(c, x, s)
    PROVE  /\ ConnType'
           /\ \A d \in Slots : d # c => conn'[d] = conn[d]
           /\ conn'[c].peer = conn[c].peer
           /\ conn'[c].end = [conn[c].end EXCEPT ![x] = s]
<1> DEFINE k == conn[c]
           new == [k EXCEPT !.end[x] = s]
<1>1. k.peer \in Peers /\ k \in Connection(k.peer)
  BY DEF ConnType
<1>2. x \in {Server, k.peer}
  BY DEF Ends
<1>3. new.peer = k.peer /\ new.end = [k.end EXCEPT ![x] = s] /\ new \in Connection(k.peer)
  BY <1>1, <1>2 DEF Connection
<1>4. conn' = [conn EXCEPT ![c] = new]
  BY DEF Put
<1>5. conn'[c] = new /\ \A d \in Slots : d # c => conn'[d] = conn[d]
  BY <1>4 DEF ConnType
<1>6. conn' = [d \in Slots |-> conn'[d]]
  BY <1>4 DEF ConnType
<1> HIDE DEF new, k
<1>7. \A d \in Slots : conn'[d] = None \/ (conn'[d].peer \in Peers /\ conn'[d] \in Connection(conn'[d].peer))
  BY <1>1, <1>3, <1>5 DEF ConnType, k
<1>8. ConnType'
  BY <1>6, <1>7 DEF ConnType, Connection, States
<1> QED
  BY <1>3, <1>5, <1>8 DEF k

(* An end that is not opened starts to run nothing. *)
LEMMA PutKeeps ==
    ASSUME IInv, NEW c \in Slots, conn[c] # None, NEW x \in Ends(c), NEW s \in States, s # "open",
           Put(c, x, s)
    PROVE  \A y, h \in Hosts : \A d \in Slots : Runs(conn'[d], y, h) => Runs(conn[d], y, h)
<1> SUFFICES ASSUME NEW y \in Hosts, NEW h \in Hosts, NEW d \in Slots, Runs(conn'[d], y, h)
             PROVE  Runs(conn[d], y, h)
  OBVIOUS
<1>1. CASE d # c
  BY <1>1, PutEffect, ZenonT(40) DEF IInv
<1>2. CASE d = c
  <2>1. conn[c].end \in [{Server, conn[c].peer} -> States] /\ x \in {Server, conn[c].peer}
    BY DEF IInv, ConnType, Connection, Ends
  <2>2. conn'[c].peer = conn[c].peer /\ conn'[c].end = [conn[c].end EXCEPT ![x] = s]
    BY PutEffect DEF IInv
  <2>3. y # x
    BY <1>2, <2>1, <2>2 DEF Runs
  <2> QED
    BY <1>2, <2>1, <2>2, <2>3 DEF Runs
<1> QED
  BY <1>1, <1>2

(* A step that leaves the tables alone and starts to run nothing keeps the invariant. *)
LEMMA Quiet ==
    ASSUME IInv, ConnType', UNCHANGED <<proc, reg, active>>,
           \A y, h \in Hosts : \A d \in Slots : Runs(conn'[d], y, h) => Runs(conn[d], y, h)
    PROVE  IInv'
<1>1. TableType'
  BY DEF IInv, TableType
<1>2. Current'
  BY DEF IInv, Current
<1>3. Listed'
  BY DEF IInv, Listed
<1> QED
  BY <1>1, <1>2, <1>3 DEF IInv

(* The invariant reads the tables and the connections only. *)
LEMMA Unread == ASSUME IInv, UNCHANGED <<proc, reg, active, conn>> PROVE IInv'
<1>1. ConnType'
  BY DEF IInv, ConnType
<1> QED
  BY <1>1, Quiet

(* A step that puts one end into a state other than open and leaves the tables alone keeps *)
(* the invariant.                                                                          *)
LEMMA PutQuiet ==
    ASSUME IInv, NEW c \in Slots, conn[c] # None, NEW x \in Ends(c), NEW s \in States, s # "open",
           Put(c, x, s), UNCHANGED <<proc, reg, active>>
    PROVE  IInv'
<1>1. ConnType'
  BY PutEffect, ZenonT(40) DEF IInv
<1> QED
  BY <1>1, PutKeeps, Quiet

(* The initial state satisfies the invariant. *)
LEMMA InitIInv == Init => IInv
<1> SUFFICES ASSUME Init PROVE IInv
  OBVIOUS
<1>1. ConnType
  BY DEF Init, ConnType
<1>2. TableType
  BY DEF Init, TableType, Nothing
<1>3. Current
  BY DEF Init, Current, Runs
<1>4. Listed
  BY DEF Init, Listed, Nothing
<1> QED
  BY <1>1, <1>2, <1>3, <1>4 DEF IInv

(* Dial makes a connection whose ends wait for the hello. *)
LEMMA DialKeeps == ASSUME IInv, NEW p \in Peers, Dial(p) PROVE IInv'
<1> DEFINE k == [peer |-> p, end |-> [x \in {Server, p} |-> "hello"],
                 session |-> [x \in {Server, p} |-> proc[x]], broken |-> FALSE, silent |-> FALSE]
           b == CHOOSE c \in Free : \A d \in Free : c <= d
<1>1. conn' = [conn EXCEPT ![b] = k] /\ UNCHANGED <<proc, reg, active>>
  BY DEF Dial
<1>2. k \in Connection(p) /\ k.peer = p /\ k.end = [x \in {Server, p} |-> "hello"]
  BY DEF Connection, States, IInv, TableType, Hosts
<1> HIDE DEF k, b
<1>3. \A d \in Slots : conn'[d] = conn[d] \/ conn'[d] = k
  BY <1>1 DEF IInv, ConnType
<1>4. conn' = [d \in Slots |-> conn'[d]]
  BY <1>1 DEF IInv, ConnType
<1>5. ConnType'
  BY <1>2, <1>3, <1>4 DEF IInv, ConnType, Connection, States
<1>6. \A y, h \in Hosts : ~Runs(k, y, h)
  BY <1>2 DEF Runs
<1>7. \A y, h \in Hosts : \A d \in Slots : Runs(conn'[d], y, h) => Runs(conn[d], y, h)
  BY <1>3, <1>6
<1> QED
  BY <1>1, <1>5, <1>7, Quiet

(* A handshake that ends hands the connection to the manager or closes it. *)
LEMMA HelloKeeps ==
    ASSUME IInv, NEW c \in Slots, NEW x \in Hosts, HelloDone(c, x) \/ HelloFails(c, x)
    PROVE  IInv'
<1>1. conn[c] # None /\ x \in Ends(c) /\ UNCHANGED <<proc, reg, active>>
  BY DEF HelloDone, HelloFails, Greeting
<1>2. Put(c, x, "queued") \/ Put(c, x, "closed")
  BY DEF HelloDone, HelloFails
<1> QED
  BY <1>1, <1>2, PutQuiet DEF States

(* A task that ends stops to run. *)
LEMMA TaskKeeps == ASSUME IInv, NEW c \in Slots, NEW x \in Hosts, TaskEnds(c, x) PROVE IInv'
<1>1. conn[c] # None /\ x \in Ends(c) /\ UNCHANGED <<proc, reg, active>>
  BY DEF TaskEnds
<1>2. Put(c, x, "ending") \/ Put(c, x, "closed")
  BY DEF TaskEnds
<1> QED
  BY <1>1, <1>2, PutQuiet DEF States

(* A message is queued, or the task ends. *)
LEMMA MessageKeeps == ASSUME IInv, NEW c \in Slots, NEW x \in Hosts, MessageArrives(c, x) PROVE IInv'
<1>1. conn[c] # None /\ x \in Ends(c) /\ UNCHANGED <<proc, reg, active>>
  BY DEF MessageArrives
<1>2. Put(c, x, "ending") \/ Put(c, x, "closed") \/ UNCHANGED conn
  BY DEF MessageArrives
<1> QED
  BY <1>1, <1>2, PutQuiet, Unread DEF States

(* The end of a connection clears its host's entry of active when it is the active one. *)
LEMMA EndedKeeps == ASSUME IInv, NEW c \in Slots, NEW x \in Hosts, ManageEnded(c, x) PROVE IInv'
<1> DEFINE h == Partner(c, x)
<1>1. conn[c] # None /\ x \in Ends(c) /\ conn[c].end[x] = "ending" /\ Put(c, x, "closed") /\ UNCHANGED proc
  BY DEF ManageEnded
<1>2. CASE active[x][h] # c
  <2>1. UNCHANGED <<reg, active>>
    BY <1>2 DEF ManageEnded
  <2> QED
    BY <1>1, <2>1, PutQuiet DEF States
<1>3. CASE active[x][h] = c
  <2>1. active' = [active EXCEPT ![x][h] = None] /\ reg' = Unregister(x, h, c)
    BY <1>3 DEF ManageEnded
  <2>2. h \in Hosts
    BY <1>1 DEF Partner, Hosts, IInv, ConnType
  <2>3. ConnType' /\ \A y, g \in Hosts : \A d \in Slots : Runs(conn'[d], y, g) => Runs(conn[d], y, g)
    BY <1>1, PutEffect, PutKeeps, ZenonT(40) DEF IInv, States
  <2>4. ~Runs(conn'[c], x, h)
    <3>1. conn'[c].end = [conn[c].end EXCEPT ![x] = "closed"] /\ x \in DOMAIN conn[c].end
      BY <1>1, PutEffect, ZenonT(40) DEF IInv, ConnType, Connection, Ends, States
    <3> QED
      BY <3>1 DEF Runs
  <2> HIDE DEF h
  <2>5. TableType'
    BY <1>1, <2>1, <2>2 DEF IInv, TableType, Unregister
  <2>6. Current'
    <3> SUFFICES ASSUME NEW y \in Hosts, NEW g \in Hosts, NEW d \in Slots, Runs(conn'[d], y, g)
                 PROVE  active'[y][g] = d
      BY DEF Current
    <3>1. active[y][g] = d
      BY <2>3 DEF IInv, Current
    <3>2. ~(y = x /\ g = h)
      BY <1>3, <2>4, <3>1
    <3> QED
      BY <2>1, <3>1, <3>2 DEF IInv, TableType
  <2>7. Listed'
    BY <2>1, <2>2 DEF IInv, TableType, Listed, Unregister
  <2> QED
    BY <2>3, <2>5, <2>6, <2>7 DEF IInv
<1> QED
  BY <1>2, <1>3

(* A new connection runs when it becomes the active one, and the one that it replaces no *)
(* longer does.                                                                          *)
LEMMA ConnectionKeeps ==
    ASSUME IInv, NEW c \in Slots, NEW x \in Hosts, ManageConnection(c, x) PROVE IInv'
<1> DEFINE h == Partner(c, x)
           r == Register(x, h, conn[c].session[h], c)
           previous == IF r.outcome = "Replaced" THEN active[x][h] ELSE None
           cancels(d) == d = previous /\ Open(d, x)
           ended == [d \in Slots |-> IF cancels(d) THEN [conn[d] EXCEPT !.end[x] = "cancelled"] ELSE conn[d]]
           room == Len(eq[x]) < EVENTS
           s == IF room THEN "open" ELSE "cancelled"
<1>1. conn[c] # None /\ x \in Ends(c) /\ conn[c].end[x] = "queued" /\ UNCHANGED proc
  BY DEF ManageConnection
<1>2. CASE r.outcome = "DuplicateRejected"
  <2>1. Put(c, x, "closed") /\ UNCHANGED <<reg, active>>
    BY <1>2 DEF ManageConnection
  <2> QED
    BY <1>1, <2>1, PutQuiet DEF States
<1>3. CASE r.outcome # "DuplicateRejected"
  <2>1. /\ reg' = [reg EXCEPT ![x][h] = r.peer]
        /\ conn' = [ended EXCEPT ![c].end[x] = s]
        /\ active' = [active EXCEPT ![x][h] = IF room THEN c ELSE IF r.outcome = "Replaced" THEN None ELSE @]
    BY <1>3 DEF ManageConnection
  <2>2. h \in Hosts /\ conn[c].peer \in Peers /\ conn[c] \in Connection(conn[c].peer)
    BY SMTT(40), <1>1 DEF Partner, Hosts, IInv, ConnType
  <2>3. r.peer = [proc |-> conn[c].session[h], slot |-> c] /\ conn[c].session[h] \in Nat
    BY <1>1, <1>3, <2>2 DEF Register, Connection, Partner, Ends
  <2>4. r.peer \in [proc : Nat, slot : Slots] /\ r.peer # None
    BY <2>3, TransportAssumption
  <2>5. r.outcome = "Replaced" \/ (r.outcome = "Accepted" /\ reg[x][h] = None)
    BY <1>3 DEF Register
  <2>6. active[x][h] # None => r.outcome = "Replaced" /\ previous = active[x][h]
    BY <2>2, <2>5 DEF IInv, Listed
  <2>7. ~cancels(c)
    BY <1>1 DEF Open
  <2> DEFINE other(d) == [conn[d] EXCEPT !.end[x] = "cancelled"]
             mine == [conn[c] EXCEPT !.end[x] = s]
  <2>8. conn' = [d \in Slots |-> IF d = c THEN mine ELSE IF cancels(d) THEN other(d) ELSE conn[d]]
    <3> HIDE DEF s, cancels
    <3>1. ended[c] = conn[c]
      BY <2>7
    <3>2. conn' = [ended EXCEPT ![c] = mine]
      BY ZenonT(60), <2>1, <3>1
    <3> QED
      BY ZenonT(60), <3>2
  <2>9. \A d \in Slots : cancels(d) => other(d) \in Connection(conn[d].peer) /\ other(d).peer = conn[d].peer
                                       /\ other(d).end = [conn[d].end EXCEPT ![x] = "cancelled"]
                                       /\ conn[d].peer \in Peers /\ x \in DOMAIN conn[d].end
    BY ZenonT(40) DEF Open, IInv, ConnType, Connection, Ends, States
  <2>10. /\ mine \in Connection(conn[c].peer) /\ mine.peer = conn[c].peer
         /\ mine.end = [conn[c].end EXCEPT ![x] = s] /\ x \in DOMAIN conn[c].end
    BY <1>1, <2>2, ZenonT(40) DEF Connection, Ends, States
  <2>11. \A d \in Slots : Runs(conn[d], x, h) => cancels(d)
    BY <2>2, <2>6 DEF Runs, Open, Ends, IInv, Current, TransportAssumption
  <2> HIDE DEF r, previous, cancels, room, other, mine, ended
  <2>12. ConnType'
    BY <2>2, <2>8, <2>9, <2>10, ZenonT(40) DEF IInv, ConnType
  <2>13. TableType'
    BY <1>1, <2>1, <2>2, <2>4 DEF IInv, TableType
  <2>14. Current'
    <3> SUFFICES ASSUME NEW y \in Hosts, NEW g \in Hosts, NEW d \in Slots, Runs(conn'[d], y, g)
                 PROVE  active'[y][g] = d
      BY DEF Current
    <3>1. CASE d = c /\ y = x
      <4>1. conn'[c] = mine
        BY <2>8
      <4>2. s = "open" /\ room
        BY <2>10, <3>1, <4>1 DEF Runs
      <4>3. g = h
        BY <1>1, <2>2, <2>10, <3>1, <4>1, TransportAssumption DEF Runs, Partner, Ends
      <4> QED
        BY <2>1, <2>2, <3>1, <4>2, <4>3 DEF IInv, TableType
    <3>2. CASE d = c /\ y # x
      <4>1. conn'[c] = mine
        BY <2>8
      <4>2. Runs(conn[c], y, g)
        BY <1>1, <2>2, <2>10, <3>2, <4>1 DEF Runs, Connection, Ends
      <4> QED
        BY SMTT(40), <2>1, <3>2, <4>2 DEF IInv, TableType, Current
    <3>3. CASE d # c /\ cancels(d)
      <4>1. conn'[d] = other(d)
        BY <2>8, <3>3
      <4>2. y # x
        BY <2>9, <3>3, <4>1, ZenonT(40) DEF Runs
      <4>3. conn[d] # None
        BY <3>3 DEF cancels, Open
      <4>4. Runs(conn[d], y, g)
        <5>1. conn'[d].peer = conn[d].peer /\ conn'[d].end = [conn[d].end EXCEPT ![x] = "cancelled"]
          BY <2>9, <3>3, <4>1
        <5>2. conn[d].end \in [{Server, conn[d].peer} -> States]
          BY <4>3 DEF IInv, ConnType, Connection
        <5>3. y \in {Server, conn[d].peer} /\ conn'[d].end[y] = "open"
          BY <5>1 DEF Runs
        <5>4. conn[d].end[y] = "open"
          BY <4>2, <5>1, <5>2, <5>3
        <5> QED
          BY <4>3, <5>1, <5>4 DEF Runs
      <4> QED
        BY <2>1, <4>2, <4>4 DEF IInv, TableType, Current
    <3>4. CASE d # c /\ ~cancels(d)
      <4>1. Runs(conn[d], y, g)
        BY <2>8, <3>4
      <4>2. ~(y = x /\ g = h)
        BY <2>11, <3>4, <4>1
      <4> QED
        BY <2>1, <4>1, <4>2 DEF IInv, TableType, Current
    <3> QED
      BY <3>1, <3>2, <3>3, <3>4
  <2>15. Listed'
    BY <2>1, <2>2, <2>4 DEF IInv, TableType, Listed
  <2> QED
    BY SMTT(40), <2>12, <2>13, <2>14, <2>15 DEF IInv
<1> QED
  BY SMTT(40), <1>2, <1>3

(* RestartProcess and RestartTransport empty the tables of a host and leave it with no *)
(* connection that runs.                                                               *)
LEMMA ForgetKeeps ==
    ASSUME IInv, NEW x \in Hosts, Forget(x), ConnType', proc' \in [Hosts -> Nat],
           \A d \in Slots : \A h \in Hosts : ~Runs(conn'[d], x, h),
           \A y, h \in Hosts : y # x => \A d \in Slots : Runs(conn'[d], y, h) => Runs(conn[d], y, h)
    PROVE  IInv'
<1>1. TableType'
  BY ZenonT(40) DEF Forget, IInv, TableType, Nothing
<1>2. Current'
  BY DEF Forget, IInv, TableType, Current
<1>3. Listed'
  BY DEF Forget, IInv, TableType, Listed, Nothing
<1> QED
  BY <1>1, <1>2, <1>3 DEF IInv

(* The ends of x after a restart, in states other than open *)
EndsPut(x, s) ==
    /\ conn' = [d \in Slots |-> conn'[d]]
    /\ \A d \in Slots : ~(conn[d] # None /\ x \in Ends(d)) => conn'[d] = conn[d]
    /\ \A d \in Slots : conn[d] # None /\ x \in Ends(d) =>
        /\ conn'[d] \in Connection(conn[d].peer) /\ conn'[d].peer = conn[d].peer /\ conn[d].peer \in Peers
        /\ conn'[d].end = [conn[d].end EXCEPT ![x] = s[d]]
        /\ conn[d].end \in [{Server, conn[d].peer} -> States] /\ x \in {Server, conn[d].peer}

(* What RestartProcess and RestartTransport do to the connections *)
LEMMA RestartPuts ==
    ASSUME IInv, NEW x \in Hosts, NEW s \in [Slots -> States \ {"open"}], NEW b \in [Slots -> BOOLEAN],
           conn' = [d \in Slots |-> IF conn[d] # None /\ x \in Ends(d)
                                    THEN [conn[d] EXCEPT !.broken = b[d], !.end[x] = s[d]] ELSE conn[d]]
    PROVE  EndsPut(x, s)
<1> DEFINE new(d) == [conn[d] EXCEPT !.broken = b[d], !.end[x] = s[d]]
           changed(d) == conn[d] # None /\ x \in Ends(d)
<1>1. \A d \in Slots : changed(d) =>
        /\ new(d) \in Connection(conn[d].peer) /\ new(d).peer = conn[d].peer /\ conn[d].peer \in Peers
        /\ new(d).end = [conn[d].end EXCEPT ![x] = s[d]]
        /\ conn[d].end \in [{Server, conn[d].peer} -> States] /\ x \in {Server, conn[d].peer}
  BY ZenonT(40) DEF IInv, ConnType, Connection, Ends
<1>2. \A d \in Slots : conn'[d] = IF changed(d) THEN new(d) ELSE conn[d]
  BY ZenonT(40)
<1>3. conn' = [d \in Slots |-> conn'[d]]
  BY ZenonT(40)
<1>4. \A d \in Slots : changed(d) => conn'[d] = new(d)
  BY <1>2, ZenonT(40)
<1>5. \A d \in Slots : ~changed(d) => conn'[d] = conn[d]
  BY <1>2, ZenonT(40)
<1> HIDE DEF new
<1> QED
  BY <1>1, <1>3, <1>4, <1>5, Zenon DEF EndsPut

(* Afterwards nothing runs at x, and nothing new at the other hosts. *)
LEMMA RestartEffect ==
    ASSUME IInv, NEW x \in Hosts, NEW s \in [Slots -> States \ {"open"}], EndsPut(x, s)
    PROVE  /\ ConnType'
           /\ \A y, h \in Hosts : \A d \in Slots : Runs(conn'[d], y, h) => y # x /\ Runs(conn[d], y, h)
<1> DEFINE changed(d) == conn[d] # None /\ x \in Ends(d)
<1>1. ConnType'
  <2>1. ASSUME NEW d \in Slots
        PROVE  conn'[d] = None \/ (conn'[d].peer \in Peers /\ conn'[d] \in Connection(conn'[d].peer))
    <3>1. CASE changed(d)
      BY <3>1, ZenonT(40) DEF EndsPut
    <3>2. CASE ~changed(d)
      BY <3>2 DEF EndsPut, IInv, ConnType
    <3> QED
      BY <3>1, <3>2
  <2>2. conn' = [d \in Slots |-> conn'[d]]
    BY DEF EndsPut
  <2> QED
    BY <2>1, <2>2 DEF ConnType, Connection, States
<1>2. ASSUME NEW d \in Slots, NEW y \in Hosts, NEW h \in Hosts, Runs(conn'[d], y, h)
      PROVE  y # x /\ Runs(conn[d], y, h)
  <2>1. CASE changed(d)
    <3>1. /\ conn[d] # None /\ s[d] # "open"
          /\ conn'[d].peer = conn[d].peer /\ conn'[d].end = [conn[d].end EXCEPT ![x] = s[d]]
          /\ conn[d].end \in [{Server, conn[d].peer} -> States] /\ x \in {Server, conn[d].peer}
      BY SMTT(40), <2>1 DEF EndsPut
    <3>2. y \in {Server, conn[d].peer} /\ conn'[d].end[y] = "open"
      BY <1>2, <3>1 DEF Runs
    <3>3. y # x /\ conn[d].end[y] = "open"
      BY <3>1, <3>2
    <3> QED
      BY <1>2, <3>1, <3>3 DEF Runs
  <2>2. CASE ~changed(d)
    <3>1. Runs(conn[d], y, h)
      BY <1>2, <2>2 DEF EndsPut
    <3>2. conn[d] # None /\ y \in Ends(d)
      BY <3>1 DEF Runs, Ends
    <3> QED
      BY <2>2, <3>1, <3>2
  <2> QED
    BY <2>1, <2>2
<1> QED
  BY <1>1, <1>2

(* A process that starts again has nothing that runs. *)
LEMMA ProcessKeeps == ASSUME IInv, NEW x \in Hosts, RestartProcess(x) PROVE IInv'
<1> DEFINE s == [d \in Slots |-> "closed"]
           b == [d \in Slots |-> ~conn[d].silent]
<1>1. s \in [Slots -> States \ {"open"}] /\ b \in [Slots -> BOOLEAN]
  BY DEF States
<1>2. conn' = [d \in Slots |-> IF conn[d] # None /\ x \in Ends(d)
                               THEN [conn[d] EXCEPT !.broken = b[d], !.end[x] = s[d]] ELSE conn[d]]
  BY ZenonT(40) DEF RestartProcess
<1>3. Forget(x)
  BY ZenonT(40) DEF RestartProcess
<1>4. proc' \in [Hosts -> Nat]
  <2>1. proc' = [proc EXCEPT ![x] = proc[x] + 1]
    BY ZenonT(40) DEF RestartProcess
  <2> QED
    BY <2>1 DEF IInv, TableType
<1> HIDE DEF s, b
<1>5. /\ ConnType'
      /\ \A d \in Slots : \A h \in Hosts : ~Runs(conn'[d], x, h)
      /\ \A y, h \in Hosts : y # x => \A d \in Slots : Runs(conn'[d], y, h) => Runs(conn[d], y, h)
  BY <1>1, <1>2, RestartPuts, RestartEffect, ZenonT(40)
<1> QED
  BY <1>3, <1>4, <1>5, ForgetKeeps

(* A transport that starts again leaves open connections as orphans. *)
LEMMA TransportKeeps == ASSUME IInv, NEW x \in Hosts, RestartTransport(x) PROVE IInv'
<1> DEFINE was(d) == conn[d].end[x]
           after(d) == IF was(d) \in {"hello", "queued", "ending"} THEN "closed"
                       ELSE IF was(d) = "open" THEN "orphan" ELSE was(d)
           s == [d \in Slots |-> IF conn[d] # None /\ x \in Ends(d) THEN after(d) ELSE "closed"]
           b == [d \in Slots |-> conn[d] # None /\ x \in Ends(d)
                                 /\ (conn[d].broken \/ (was(d) = "hello" /\ ~conn[d].silent))]
<1>1. s \in [Slots -> States \ {"open"}] /\ b \in [Slots -> BOOLEAN]
  BY ZenonT(40) DEF States, IInv, ConnType, Connection, Ends
<1>2. conn' = [d \in Slots |-> IF conn[d] # None /\ x \in Ends(d)
                               THEN [conn[d] EXCEPT !.broken = b[d], !.end[x] = s[d]] ELSE conn[d]]
  BY ZenonT(40) DEF RestartTransport, IInv, ConnType, Connection
<1>3. Forget(x)
  BY ZenonT(40) DEF RestartTransport
<1>4. proc' \in [Hosts -> Nat]
  BY ZenonT(40) DEF RestartTransport, IInv, TableType
<1> HIDE DEF s, b
<1>5. /\ ConnType'
      /\ \A d \in Slots : \A h \in Hosts : ~Runs(conn'[d], x, h)
      /\ \A y, h \in Hosts : y # x => \A d \in Slots : Runs(conn'[d], y, h) => Runs(conn[d], y, h)
  BY <1>1, <1>2, RestartPuts, RestartEffect, ZenonT(40)
<1> QED
  BY <1>3, <1>4, <1>5, ForgetKeeps

(* A connection that breaks or loses its packets runs as before. *)
LEMMA BreakKeeps == ASSUME IInv, NEW c \in Slots, Break(c) \/ Silence(c) PROVE IInv'
<1> DEFINE broken == [conn[c] EXCEPT !.broken = TRUE]
           silent == [conn[c] EXCEPT !.silent = TRUE]
<1>1. conn[c] # None /\ UNCHANGED <<proc, reg, active>>
  BY DEF Break, Silence
<1>2. conn[c].peer \in Peers /\ conn[c] \in Connection(conn[c].peer)
  BY <1>1 DEF IInv, ConnType
<1>3. /\ broken \in Connection(conn[c].peer) /\ broken.peer = conn[c].peer /\ broken.end = conn[c].end
      /\ silent \in Connection(conn[c].peer) /\ silent.peer = conn[c].peer /\ silent.end = conn[c].end
  BY <1>2, ZenonT(40) DEF Connection
<1>4. conn' = [conn EXCEPT ![c] = broken] \/ conn' = [conn EXCEPT ![c] = silent]
  BY DEF Break, Silence
<1> HIDE DEF broken, silent
<1>5. conn' = [d \in Slots |-> conn'[d]] /\ conn'[c] \in {broken, silent}
      /\ \A d \in Slots : d # c => conn'[d] = conn[d]
  BY <1>4 DEF IInv, ConnType
<1>6. ConnType'
  BY <1>2, <1>3, <1>5, ZenonT(40) DEF IInv, ConnType, Connection, States
<1>7. \A y, h \in Hosts : \A d \in Slots : Runs(conn'[d], y, h) => Runs(conn[d], y, h)
  BY <1>1, <1>3, <1>5 DEF Runs
<1> QED
  BY <1>1, <1>6, <1>7, Quiet

(* Every step keeps the invariant. *)
LEMMA NextIInv == IInv /\ [Next]_vars => IInv'
<1> SUFFICES ASSUME IInv, [Next]_vars PROVE IInv'
  OBVIOUS
<1>1. ASSUME NEW p \in Peers, Dial(p) PROVE IInv'
  BY <1>1, DialKeeps
<1>2. ASSUME NEW p \in Peers, DialFails(p) \/ BackoffOver(p) PROVE IInv'
  BY <1>2, Unread DEF DialFails, BackoffOver
<1>3. ASSUME NEW c \in Slots, NEW x \in Hosts, HelloDone(c, x) \/ HelloFails(c, x) PROVE IInv'
  BY <1>3, HelloKeeps
<1>4. ASSUME NEW c \in Slots, NEW x \in Hosts, ManageConnection(c, x) PROVE IInv'
  BY <1>4, ConnectionKeeps
<1>5. ASSUME NEW c \in Slots, NEW x \in Hosts, ManageEnded(c, x) PROVE IInv'
  BY <1>5, EndedKeeps
<1>6. ASSUME NEW c \in Slots, NEW x \in Hosts, TaskEnds(c, x) \/ MessageArrives(c, x) PROVE IInv'
  BY <1>6, TaskKeeps, MessageKeeps
<1>7. ASSUME NEW x \in Hosts, HandleTransportEvent(x) PROVE IInv'
  BY <1>7, Unread DEF HandleTransportEvent
<1>8. ASSUME NEW x \in Hosts, RestartProcess(x) \/ RestartTransport(x) PROVE IInv'
  BY <1>8, ProcessKeeps, TransportKeeps
<1>9. ASSUME NEW c \in Slots, Break(c) \/ Silence(c) PROVE IInv'
  BY <1>9, BreakKeeps
<1>10. CASE UNCHANGED vars
  BY <1>10, Unread DEF vars
<1> QED
  BY <1>1, <1>2, <1>3, <1>4, <1>5, <1>6, <1>7, <1>8, <1>9, <1>10 DEF Next

(* The invariant leaves at most one connection that runs for each host. *)
LEMMA IInvSuffices == IInv => OneConnection
<1> SUFFICES ASSUME IInv, NEW x \in Hosts, NEW h \in Hosts, Paired(x, h)
             PROVE  Cardinality(Running(x, h)) <= 1
  BY DEF OneConnection
<1> DEFINE one == {active[x][h]}
<1>1. Running(x, h) \subseteq one
  <2> SUFFICES ASSUME NEW c \in Slots, Open(c, x), Partner(c, x) = h PROVE active[x][h] = c
    BY DEF Running
  <2>1. Runs(conn[c], x, h)
    BY DEF Open, Partner, Ends, Runs
  <2> QED
    BY <2>1 DEF IInv, Current
<1>2. IsFiniteSet(one) /\ Cardinality(one) = 1
  BY FS_Singleton, ZenonT(40)
<1>3. IsFiniteSet(Running(x, h)) /\ Cardinality(Running(x, h)) <= Cardinality(one)
  BY <1>1, <1>2, FS_Subset
<1> QED
  BY <1>2, <1>3

(* A transport never runs two connections with one host (register, run_manager): for any  *)
(* hosts, any number of connections, faults and restarts, and any queue capacity.         *)
THEOREM OneConnectionPerHost == Spec => []OneConnection
<1> QED
  BY InitIInv, NextIInv, IInvSuffices, PTL DEF Spec

-----------------------------------------------------------------------------
(* The runtime and the manager (RuntimeCurrent).  The events that are still in *)
(* the queue stand between the handle the runtime holds and the connection the *)
(* manager runs; the invariant says what they will do, whichever was appended  *)
(* last and whatever was lost before.                                          *)

TransportEvent == [type : {"Connected", "Disconnected", "Message"}, host : Hosts, slot : Slots]

(* Only these two change what the runtime holds of h. *)
Concerns(e, h) == e.host = h /\ e.type \in {"Connected", "Disconnected"}

NoneConcerns(q, h, i, j) == \A k \in i .. j : ~Concerns(q[k], h)

(* With the handle n now, the runtime holds c when it has taken the first i events of q. *)
Shows(q, h, i, n, c) ==
    \/ n = c /\ NoneConcerns(q, h, 1, i)
    \/ \E k \in 1 .. i : /\ Concerns(q[k], h) /\ q[k].type = "Connected" /\ q[k].slot = c
                         /\ NoneConcerns(q, h, k + 1, i)

(* A connection that the manager runs is the one the runtime will hold; an end is told of *)
(* the connection held at that point; and a manager that runs none has told of that,      *)
(* unless the event was lost.                                                             *)
Told(q, h, n, a, lost) ==
    /\ a # None => Shows(q, h, Len(q), n, a)
    /\ \A k \in 1 .. Len(q) :
        Concerns(q[k], h) /\ q[k].type = "Disconnected" => Shows(q, h, k - 1, n, q[k].slot)
    /\ a = None /\ ~lost =>
        \/ n = None /\ NoneConcerns(q, h, 1, Len(q))
        \/ \E k \in 1 .. Len(q) : /\ Concerns(q[k], h) /\ q[k].type = "Disconnected"
                                  /\ NoneConcerns(q, h, k + 1, Len(q))

RuntimeType ==
    /\ eq \in [Hosts -> Seq(TransportEvent)]
    /\ network \in [Hosts -> [Hosts -> Slots \cup {None}]]
    /\ stale \in [Hosts -> [Hosts -> BOOLEAN]]

AllTold == \A x, h \in Hosts : Told(eq[x], h, network[x][h], active[x][h], stale[x][h])

RInv == RuntimeType /\ AllTold

(* Appending an event does not change what the events before it do. *)
LEMMA AppendShows ==
    ASSUME NEW q \in Seq(TransportEvent), NEW e \in TransportEvent, NEW h, NEW n, NEW c,
           NEW i \in 0 .. Len(q), Shows(q, h, i, n, c)
    PROVE  Shows(Append(q, e), h, i, n, c)
<1> DEFINE r == Append(q, e)
<1>1. \A k \in 1 .. Len(q) : r[k] = q[k]
  OBVIOUS
<1>2. Len(q) \in Nat
  OBVIOUS
<1> HIDE DEF r
<1>3. \A k \in 1 .. i : r[k] = q[k]
  BY <1>1, <1>2
<1>4. \A k \in 1 .. i : k + 1 .. i \subseteq 1 .. i
  BY <1>2
<1>5. CASE n = c /\ NoneConcerns(q, h, 1, i)
  BY <1>3, <1>5 DEF Shows, NoneConcerns, r
<1>6. ASSUME NEW k \in 1 .. i, Concerns(q[k], h), q[k].type = "Connected", q[k].slot = c,
             NoneConcerns(q, h, k + 1, i)
      PROVE  Shows(r, h, i, n, c)
  <2>1. NoneConcerns(r, h, k + 1, i)
    BY <1>3, <1>4, <1>6 DEF NoneConcerns
  <2> QED
    BY <1>3, <1>6, <2>1 DEF Shows
<1> QED
  BY <1>5, <1>6 DEF Shows, r

(* An event that does not concern h leaves it all. *)
LEMMA AppendOther ==
    ASSUME NEW q \in Seq(TransportEvent), NEW e \in TransportEvent, NEW h, NEW n, NEW a, NEW lost,
           ~Concerns(e, h), Told(q, h, n, a, lost)
    PROVE  Told(Append(q, e), h, n, a, lost)
<1> DEFINE r == Append(q, e)
           last == Len(q) + 1
<1>1. Len(r) = last /\ r[last] = e /\ \A k \in 1 .. Len(q) : r[k] = q[k]
  OBVIOUS
<1>2. Len(q) \in Nat
  OBVIOUS
<1>3. \A i \in 0 .. Len(q) : \A c : Shows(q, h, i, n, c) => Shows(r, h, i, n, c)
  BY AppendShows
<1> HIDE DEF r
<1>4. \A j \in 1 .. last : NoneConcerns(q, h, j, Len(q)) => NoneConcerns(r, h, j, last)
  BY <1>1, <1>2 DEF NoneConcerns
<1>5. \A c : Shows(q, h, Len(q), n, c) => Shows(r, h, last, n, c)
  <2> SUFFICES ASSUME NEW c, Shows(q, h, Len(q), n, c) PROVE Shows(r, h, last, n, c)
    OBVIOUS
  <2>1. CASE n = c /\ NoneConcerns(q, h, 1, Len(q))
    BY <1>2, <1>4, <2>1 DEF Shows
  <2>2. ASSUME NEW k \in 1 .. Len(q), Concerns(q[k], h), q[k].type = "Connected", q[k].slot = c,
               NoneConcerns(q, h, k + 1, Len(q))
        PROVE  Shows(r, h, last, n, c)
    <3>1. k \in 1 .. last /\ k + 1 \in 1 .. last
      BY <1>2
    <3> QED
      BY <1>1, <1>4, <2>2, <3>1 DEF Shows
  <2> QED
    BY <2>1, <2>2 DEF Shows
<1>6. a # None => Shows(r, h, last, n, a)
  BY <1>5 DEF Told
<1>7. ASSUME NEW k \in 1 .. last, Concerns(r[k], h), r[k].type = "Disconnected"
      PROVE  Shows(r, h, k - 1, n, r[k].slot)
  <2>1. k \in 1 .. Len(q) /\ k - 1 \in 0 .. Len(q) /\ r[k] = q[k]
    BY <1>1, <1>2, <1>7
  <2> QED
    BY <1>3, <1>7, <2>1 DEF Told
<1>8. a = None /\ ~lost =>
        \/ n = None /\ NoneConcerns(r, h, 1, last)
        \/ \E k \in 1 .. last : /\ Concerns(r[k], h) /\ r[k].type = "Disconnected"
                                /\ NoneConcerns(r, h, k + 1, last)
  <2> SUFFICES ASSUME a = None, ~lost
               PROVE  \/ n = None /\ NoneConcerns(r, h, 1, last)
                      \/ \E k \in 1 .. last : /\ Concerns(r[k], h) /\ r[k].type = "Disconnected"
                                              /\ NoneConcerns(r, h, k + 1, last)
    OBVIOUS
  <2>1. CASE n = None /\ NoneConcerns(q, h, 1, Len(q))
    BY <1>2, <1>4, <2>1
  <2>2. ASSUME NEW k \in 1 .. Len(q), Concerns(q[k], h), q[k].type = "Disconnected",
               NoneConcerns(q, h, k + 1, Len(q))
        PROVE  /\ k \in 1 .. last /\ Concerns(r[k], h) /\ r[k].type = "Disconnected"
               /\ NoneConcerns(r, h, k + 1, last)
    BY SMTT(40), <1>1, <1>2, <1>4, <2>2
  <2> QED
    BY <2>1, <2>2 DEF Told
<1> QED
  BY SMTT(40), <1>1, <1>6, <1>7, <1>8 DEF Told, r

(* The event of a new connection. *)
LEMMA AppendConnected ==
    ASSUME NEW q \in Seq(TransportEvent), NEW h \in Hosts, NEW c \in Slots, NEW n, NEW a, NEW lost,
           NEW any, Told(q, h, n, a, lost)
    PROVE  Told(Append(q, [type |-> "Connected", host |-> h, slot |-> c]), h, n, c, any)
<1> DEFINE e == [type |-> "Connected", host |-> h, slot |-> c]
           r == Append(q, e)
           last == Len(q) + 1
<1>0. e \in TransportEvent /\ e.type = "Connected" /\ e.slot = c /\ Concerns(e, h)
  BY DEF TransportEvent, Concerns
<1> HIDE DEF e
<1>1. Len(r) = last /\ r[last] = e /\ \A k \in 1 .. Len(q) : r[k] = q[k]
  BY <1>0
<1>2. Len(q) \in Nat
  OBVIOUS
<1>3. \A i \in 0 .. Len(q) : \A d : Shows(q, h, i, n, d) => Shows(r, h, i, n, d)
  BY <1>0, AppendShows
<1> HIDE DEF r
<1>4. Shows(r, h, last, n, c)
  <2>1. NoneConcerns(r, h, last + 1, last)
    BY <1>2 DEF NoneConcerns
  <2>2. last \in 1 .. last
    BY <1>2
  <2> QED
    BY <1>0, <1>1, <2>1, <2>2 DEF Shows
<1>5. ASSUME NEW k \in 1 .. last, Concerns(r[k], h), r[k].type = "Disconnected"
      PROVE  Shows(r, h, k - 1, n, r[k].slot)
  <2>1. k \in 1 .. Len(q) /\ k - 1 \in 0 .. Len(q) /\ r[k] = q[k]
    BY <1>0, <1>1, <1>2, <1>5
  <2> QED
    BY <1>3, <1>5, <2>1 DEF Told
<1>6. c # None
  BY TransportAssumption
<1> QED
  BY SMTT(40), <1>1, <1>4, <1>5, <1>6 DEF Told, r, e

(* The event of the end of the connection that the manager ran. *)
LEMMA AppendDisconnected ==
    ASSUME NEW q \in Seq(TransportEvent), NEW h \in Hosts, NEW c \in Slots, NEW n, NEW lost,
           NEW any, Told(q, h, n, c, lost)
    PROVE  Told(Append(q, [type |-> "Disconnected", host |-> h, slot |-> c]), h, n, None, any)
<1> DEFINE e == [type |-> "Disconnected", host |-> h, slot |-> c]
           r == Append(q, e)
           last == Len(q) + 1
<1>0. e \in TransportEvent /\ e.type = "Disconnected" /\ e.slot = c /\ Concerns(e, h)
  BY DEF TransportEvent, Concerns
<1> HIDE DEF e
<1>1. Len(r) = last /\ r[last] = e /\ \A k \in 1 .. Len(q) : r[k] = q[k]
  BY <1>0
<1>2. Len(q) \in Nat
  OBVIOUS
<1>3. \A i \in 0 .. Len(q) : \A d : Shows(q, h, i, n, d) => Shows(r, h, i, n, d)
  BY <1>0, AppendShows
<1> HIDE DEF r
<1>4. c # None
  BY TransportAssumption
<1>5. ASSUME NEW k \in 1 .. last, Concerns(r[k], h), r[k].type = "Disconnected"
      PROVE  Shows(r, h, k - 1, n, r[k].slot)
  <2>1. CASE k = last
    <3>1. Shows(q, h, Len(q), n, c) /\ Len(q) \in 0 .. Len(q)
      BY <1>2, <1>4 DEF Told
    <3>2. Shows(r, h, Len(q), n, c)
      BY <1>3, <3>1
    <3>3. k - 1 = Len(q) /\ r[k].slot = c
      BY <1>0, <1>1, <1>2, <2>1
    <3> QED
      BY <3>2, <3>3
  <2>2. CASE k # last
    <3>1. k \in 1 .. Len(q) /\ k - 1 \in 0 .. Len(q) /\ r[k] = q[k]
      BY <1>1, <1>2, <2>2
    <3> QED
      BY <1>3, <1>5, <3>1 DEF Told
  <2> QED
    BY <2>1, <2>2
<1>6. \E k \in 1 .. last : /\ Concerns(r[k], h) /\ r[k].type = "Disconnected"
                           /\ NoneConcerns(r, h, k + 1, last)
  <2>1. NoneConcerns(r, h, last + 1, last)
    BY <1>2 DEF NoneConcerns
  <2>2. last \in 1 .. last
    BY <1>2
  <2> QED
    BY <1>0, <1>1, <2>1, <2>2
<1> QED
  BY <1>1, <1>5, <1>6 DEF Told, r, e

(* Nothing is promised of an event that was lost. *)
LEMMA LostTold ==
    ASSUME NEW q \in Seq(TransportEvent), NEW h, NEW n, NEW a, NEW lost, Told(q, h, n, a, lost)
    PROVE  Told(q, h, n, None, TRUE)
BY DEF Told

(* Nor of a transport that starts again with a handle in the runtime. *)
LEMMA EmptyTold ==
    ASSUME NEW h, NEW n, NEW lost, lost \/ n = None
    PROVE  Told(<<>>, h, n, None, lost)
BY DEF Told, NoneConcerns

(* What the runtime holds of h after it has taken e *)
Taken(e, h, n) ==
    IF ~Concerns(e, h) THEN n
    ELSE IF e.type = "Connected" THEN e.slot ELSE IF n = e.slot THEN None ELSE n

(* The runtime takes the first event, and the others do what they did. *)
LEMMA TailShows ==
    ASSUME NEW q \in Seq(TransportEvent), q # <<>>, NEW h, NEW n, NEW c, NEW i \in 1 .. Len(q),
           Shows(q, h, i, n, c)
    PROVE  Shows(Tail(q), h, i - 1, Taken(q[1], h, n), c)
<1> DEFINE r == Tail(q)
           m == Taken(q[1], h, n)
<1>1. Len(q) \in Nat /\ Len(r) = Len(q) - 1 /\ \A k \in 1 .. Len(r) : r[k] = q[k + 1]
  OBVIOUS
<1> HIDE DEF r
<1>2. \A k \in 1 .. i - 1 : r[k] = q[k + 1]
  BY <1>1
<1>3. ASSUME NEW j \in 2 .. i + 1, NoneConcerns(q, h, j, i) PROVE NoneConcerns(r, h, j - 1, i - 1)
  <2> SUFFICES ASSUME NEW k \in j - 1 .. i - 1 PROVE ~Concerns(r[k], h)
    BY DEF NoneConcerns
  <2>1. k \in 1 .. i - 1 /\ k + 1 \in j .. i
    BY <1>1
  <2> QED
    BY <1>2, <1>3, <2>1 DEF NoneConcerns
<1>4. CASE n = c /\ NoneConcerns(q, h, 1, i)
  <2>1. ~Concerns(q[1], h) /\ NoneConcerns(q, h, 2, i) /\ 2 \in 2 .. i + 1
    BY <1>1, <1>4 DEF NoneConcerns
  <2>2. m = c
    BY <1>4, <2>1 DEF Taken
  <2>3. NoneConcerns(r, h, 2 - 1, i - 1)
    BY <1>3, <2>1
  <2> QED
    BY <2>2, <2>3 DEF Shows, r
<1>5. ASSUME NEW k \in 1 .. i, Concerns(q[k], h), q[k].type = "Connected", q[k].slot = c,
             NoneConcerns(q, h, k + 1, i)
      PROVE  Shows(r, h, i - 1, m, c)
  <2>1. CASE k = 1
    <3>1. m = c
      BY <1>5, <2>1 DEF Taken
    <3>2. k + 1 \in 2 .. i + 1 /\ k + 1 - 1 = 1
      BY <1>1, <2>1
    <3>3. NoneConcerns(r, h, 1, i - 1)
      BY SMTT(40), <1>3, <1>5, <3>2
    <3> QED
      BY <3>1, <3>3 DEF Shows
  <2>2. CASE k # 1
    <3>1. k + 1 \in 2 .. i + 1 /\ k - 1 \in 1 .. i - 1 /\ k + 1 - 1 = k - 1 + 1 /\ k - 1 + 1 = k
      BY <1>1, <2>2
    <3>2. NoneConcerns(r, h, k - 1 + 1, i - 1)
      BY <1>3, <1>5, <3>1
    <3>3. r[k - 1] = q[k]
      BY SMTT(40), <1>2, <3>1
    <3> QED
      BY <1>5, <3>1, <3>2, <3>3 DEF Shows
  <2> QED
    BY <2>1, <2>2
<1> QED
  BY <1>4, <1>5 DEF Shows, r

(* Taking the first event leaves told what the rest of the queue tells. *)
LEMMA TakeTold ==
    ASSUME NEW q \in Seq(TransportEvent), q # <<>>, NEW h, NEW n, NEW a, NEW lost,
           Told(q, h, n, a, lost)
    PROVE  Told(Tail(q), h, Taken(q[1], h, n), a, lost)
<1> DEFINE r == Tail(q)
           m == Taken(q[1], h, n)
<1>1. /\ Len(q) \in Nat \ {0} /\ Len(r) = Len(q) - 1
      /\ \A k \in 1 .. Len(r) : r[k] = q[k + 1]
  OBVIOUS
<1>2. \A i \in 1 .. Len(q) : \A c : Shows(q, h, i, n, c) => Shows(r, h, i - 1, m, c)
  BY TailShows
<1> HIDE DEF r, m
<1>3. a # None => Shows(r, h, Len(r), m, a)
  <2>1. Len(q) \in 1 .. Len(q)
    BY <1>1
  <2> QED
    BY <1>1, <1>2, <2>1 DEF Told
<1>4. ASSUME NEW k \in 1 .. Len(r), Concerns(r[k], h), r[k].type = "Disconnected"
      PROVE  Shows(r, h, k - 1, m, r[k].slot)
  <2>1. k \in 1 .. Len(q) /\ k + 1 \in 1 .. Len(q) /\ r[k] = q[k + 1] /\ k + 1 - 1 = k
    BY <1>1
  <2>2. Shows(q, h, k, n, r[k].slot)
    BY <1>4, <2>1 DEF Told
  <2> QED
    BY <1>2, <2>1, <2>2
<1>5. ASSUME NEW j \in 1 .. Len(q), NoneConcerns(q, h, j + 1, Len(q))
      PROVE  NoneConcerns(r, h, j, Len(r))
  <2> SUFFICES ASSUME NEW k \in j .. Len(r) PROVE ~Concerns(r[k], h)
    BY DEF NoneConcerns
  <2>1. k \in 1 .. Len(r) /\ k + 1 \in j + 1 .. Len(q)
    BY <1>1
  <2> QED
    BY <1>1, <1>5, <2>1 DEF NoneConcerns
<1>6. a = None /\ ~lost =>
        \/ m = None /\ NoneConcerns(r, h, 1, Len(r))
        \/ \E k \in 1 .. Len(r) : /\ Concerns(r[k], h) /\ r[k].type = "Disconnected"
                                  /\ NoneConcerns(r, h, k + 1, Len(r))
  <2> SUFFICES ASSUME a = None, ~lost
               PROVE  \/ m = None /\ NoneConcerns(r, h, 1, Len(r))
                      \/ \E k \in 1 .. Len(r) : /\ Concerns(r[k], h) /\ r[k].type = "Disconnected"
                                                /\ NoneConcerns(r, h, k + 1, Len(r))
    OBVIOUS
  <2>1. CASE n = None /\ NoneConcerns(q, h, 1, Len(q))
    <3>1. ~Concerns(q[1], h) /\ NoneConcerns(q, h, 1 + 1, Len(q)) /\ 1 \in 1 .. Len(q)
      BY <1>1, <2>1 DEF NoneConcerns
    <3>2. m = None
      BY <2>1, <3>1 DEF Taken, m
    <3> QED
      BY <1>5, <3>1, <3>2
  <2>2. ASSUME NEW k \in 1 .. Len(q), Concerns(q[k], h), q[k].type = "Disconnected",
               NoneConcerns(q, h, k + 1, Len(q)), k = 1
        PROVE  m = None /\ NoneConcerns(r, h, 1, Len(r))
    <3>1. Shows(q, h, 0, n, q[1].slot)
      BY <2>2 DEF Told
    <3>2. n = q[1].slot
      BY <3>1 DEF Shows
    <3>3. m = None
      BY <2>2, <3>2 DEF Taken, m
    <3> QED
      BY <1>5, <2>2, <3>3
  <2>3. ASSUME NEW k \in 1 .. Len(q), Concerns(q[k], h), q[k].type = "Disconnected",
               NoneConcerns(q, h, k + 1, Len(q)), k # 1
        PROVE  \E l \in 1 .. Len(r) : /\ Concerns(r[l], h) /\ r[l].type = "Disconnected"
                                      /\ NoneConcerns(r, h, l + 1, Len(r))
    <3>1. k - 1 \in 1 .. Len(r) /\ k - 1 + 1 = k
      BY <1>1, <2>3
    <3>2. NoneConcerns(r, h, k - 1 + 1, Len(r)) /\ r[k - 1] = q[k]
      BY SMTT(40), <1>1, <1>5, <2>3, <3>1
    <3> QED
      BY <2>3, <3>1, <3>2
  <2> QED
    BY SMTT(40), <2>1, <2>2, <2>3 DEF Told
<1> QED
  BY <1>3, <1>4, <1>6 DEF Told, r, m

-----------------------------------------------------------------------------
(* A step that leaves the queues, the runtimes and the managers alone. *)
LEMMA RuntimeUnread ==
    ASSUME RInv, UNCHANGED <<eq, network, active, stale>> PROVE RInv'
BY ZenonT(60) DEF RInv, RuntimeType, AllTold, TransportEvent, Hosts

(* A step of host x that appends the event e for host h, and leaves its manager with the *)
(* connection a for h and the mark lost.                                                 *)
LEMMA AppendKeeps ==
    ASSUME RInv, TableType, NEW x \in Hosts, NEW h \in Hosts, NEW e \in TransportEvent, e.host = h,
           NEW a \in Slots \cup {None}, NEW lost \in BOOLEAN, UNCHANGED network,
           eq' = [eq EXCEPT ![x] = Append(@, e)],
           active' = [active EXCEPT ![x][h] = a], stale' = [stale EXCEPT ![x][h] = lost],
           Told(Append(eq[x], e), h, network[x][h], a, lost)
    PROVE  RInv'
<1>1. eq[x] \in Seq(TransportEvent) /\ Append(eq[x], e) \in Seq(TransportEvent)
  BY DEF RInv, RuntimeType
<1>2. RuntimeType'
  BY ZenonT(60), <1>1 DEF RInv, RuntimeType, TransportEvent, Hosts
<1>3. AllTold'
  <2> SUFFICES ASSUME NEW y \in Hosts, NEW g \in Hosts
               PROVE  Told(eq'[y], g, network[y][g], active'[y][g], stale'[y][g])
    BY DEF AllTold
  <2>1. Told(eq[y], g, network[y][g], active[y][g], stale[y][g])
    BY DEF RInv, AllTold
  <2>2. CASE y # x
    BY SMTT(40), <2>1, <2>2 DEF RInv, RuntimeType, TableType
  <2>3. CASE y = x /\ g # h
    <3>1. ~Concerns(e, g)
      BY <2>3 DEF Concerns
    <3>2. Told(Append(eq[x], e), g, network[x][g], active[x][g], stale[x][g])
      BY <1>1, <2>1, <2>3, <3>1, AppendOther
    <3> QED
      BY <2>3, <3>2 DEF RInv, RuntimeType, TableType
  <2>4. CASE y = x /\ g = h
    BY <2>4 DEF RInv, RuntimeType, TableType
  <2> QED
    BY <2>2, <2>3, <2>4
<1> QED
  BY <1>2, <1>3 DEF RInv

(* A step of host x whose event for h found no room, so that nobody runs for h. *)
LEMMA LostKeeps ==
    ASSUME RInv, TableType, NEW x \in Hosts, NEW h \in Hosts, UNCHANGED <<eq, network>>,
           active' = [active EXCEPT ![x][h] = None], stale' = [stale EXCEPT ![x][h] = TRUE]
    PROVE  RInv'
<1>1. RuntimeType'
  BY ZenonT(60) DEF RInv, RuntimeType, TransportEvent, Hosts
<1>2. AllTold'
  <2> SUFFICES ASSUME NEW y \in Hosts, NEW g \in Hosts
               PROVE  Told(eq[y], g, network[y][g], active'[y][g], stale'[y][g])
    BY ZenonT(60) DEF AllTold
  <2>1. Told(eq[y], g, network[y][g], active[y][g], stale[y][g]) /\ eq[y] \in Seq(TransportEvent)
    BY DEF RInv, AllTold, RuntimeType
  <2>2. CASE ~(y = x /\ g = h)
    BY ZenonT(60), <2>1, <2>2 DEF RInv, RuntimeType, TableType
  <2>3. CASE y = x /\ g = h
    <3>1. Told(eq[x], h, network[x][h], None, TRUE)
      BY ZenonT(60), <2>1, <2>3, LostTold
    <3> QED
      BY ZenonT(60), <2>3, <3>1 DEF RInv, RuntimeType, TableType
  <2> QED
    BY ZenonT(60), <2>2, <2>3
<1> QED
  BY <1>1, <1>2 DEF RInv

(* A connection that the manager starts is told to the runtime, or the mark is set. *)
LEMMA ConnectionTold ==
    ASSUME IInv, RInv, NEW c \in Slots, NEW x \in Hosts, ManageConnection(c, x) PROVE RInv'
<1> DEFINE h == Partner(c, x)
           r == Register(x, h, conn[c].session[h], c)
           room == Len(eq[x]) < EVENTS
           e == [type |-> "Connected", host |-> h, slot |-> c]
<1>1. conn[c] # None /\ x \in Ends(c) /\ UNCHANGED network
  BY DEF ManageConnection
<1>2. h \in Hosts
  BY <1>1 DEF Partner, Hosts, IInv, ConnType
<1>3. CASE r.outcome = "DuplicateRejected"
  BY <1>1, <1>3, RuntimeUnread DEF ManageConnection
<1>4. CASE r.outcome # "DuplicateRejected"
  <2>1. /\ active' = [active EXCEPT ![x][h] = IF room THEN c ELSE IF r.outcome = "Replaced" THEN None ELSE @]
        /\ eq' = IF room THEN [eq EXCEPT ![x] = Append(@, e)] ELSE eq
        /\ stale' = [stale EXCEPT ![x][h] = ~room]
    BY <1>4 DEF ManageConnection
  <2>2. r.outcome = "Replaced" \/ (r.outcome = "Accepted" /\ reg[x][h] = None)
    BY <1>4 DEF Register
  <2>3. r.outcome # "Replaced" => active[x][h] = None
    BY <1>2, <2>2 DEF IInv, Listed
  <2> HIDE DEF r, h
  <2>4. CASE room
    <3>1. e \in TransportEvent /\ e.host = h
      BY <1>2 DEF TransportEvent
    <3>2. Told(eq[x], h, network[x][h], active[x][h], stale[x][h]) /\ eq[x] \in Seq(TransportEvent)
      BY <1>2 DEF RInv, AllTold, RuntimeType
    <3>3. Told(Append(eq[x], e), h, network[x][h], c, FALSE)
      BY ZenonT(60), <1>2, <3>2, AppendConnected
    <3>4. /\ active' = [active EXCEPT ![x][h] = c] /\ eq' = [eq EXCEPT ![x] = Append(@, e)]
          /\ stale' = [stale EXCEPT ![x][h] = FALSE]
      BY ZenonT(60), <2>1, <2>4
    <3> HIDE DEF e
    <3> QED
      BY ZenonT(60), <1>1, <1>2, <3>1, <3>3, <3>4, AppendKeeps DEF IInv
  <2>5. CASE ~room
    <3>1. active' = [active EXCEPT ![x][h] = None] /\ eq' = eq /\ stale' = [stale EXCEPT ![x][h] = TRUE]
      BY ZenonT(60), <1>2, <2>1, <2>3, <2>5 DEF IInv, TableType
    <3> QED
      BY ZenonT(60), <1>1, <1>2, <3>1, LostKeeps DEF IInv
  <2> QED
    BY <2>4, <2>5
<1> QED
  BY <1>3, <1>4

(* The end of the active connection is told to the runtime, or the mark is set. *)
LEMMA EndedTold ==
    ASSUME IInv, RInv, NEW c \in Slots, NEW x \in Hosts, ManageEnded(c, x) PROVE RInv'
<1> DEFINE h == Partner(c, x)
           room == Len(eq[x]) < EVENTS
           e == [type |-> "Disconnected", host |-> h, slot |-> c]
<1>1. conn[c] # None /\ x \in Ends(c) /\ UNCHANGED network
  BY DEF ManageEnded
<1>2. h \in Hosts
  BY <1>1 DEF Partner, Hosts, IInv, ConnType
<1>3. CASE active[x][h] # c
  BY <1>1, <1>3, RuntimeUnread DEF ManageEnded
<1>4. CASE active[x][h] = c
  <2>1. /\ active' = [active EXCEPT ![x][h] = None]
        /\ eq' = IF room THEN [eq EXCEPT ![x] = Append(@, e)] ELSE eq
        /\ stale' = [stale EXCEPT ![x][h] = @ \/ ~room]
    BY <1>4 DEF ManageEnded
  <2>2. stale[x][h] \in BOOLEAN
    BY <1>2 DEF RInv, RuntimeType
  <2> HIDE DEF h
  <2>3. CASE room
    <3>1. e \in TransportEvent /\ e.host = h
      BY <1>2 DEF TransportEvent
    <3>2. Told(eq[x], h, network[x][h], c, stale[x][h]) /\ eq[x] \in Seq(TransportEvent)
      BY SMTT(40), <1>2, <1>4 DEF RInv, AllTold, RuntimeType
    <3>3. Told(Append(eq[x], e), h, network[x][h], None, stale[x][h])
      BY SMTT(40), <1>2, <3>2, AppendDisconnected
    <3>4. active' = [active EXCEPT ![x][h] = None] /\ eq' = [eq EXCEPT ![x] = Append(@, e)]
      BY <2>1, <2>3
    <3>5. stale' = [stale EXCEPT ![x][h] = stale[x][h]]
      BY ZenonT(60), <1>2, <2>1, <2>2, <2>3 DEF RInv, RuntimeType
    <3> HIDE DEF e
    <3> QED
      BY ZenonT(60), <1>1, <1>2, <2>2, <3>1, <3>3, <3>4, <3>5, AppendKeeps DEF IInv
  <2>4. CASE ~room
    <3>1. active' = [active EXCEPT ![x][h] = None] /\ eq' = eq
      BY <2>1, <2>4
    <3>2. stale' = [stale EXCEPT ![x][h] = TRUE]
      BY ZenonT(60), <1>2, <2>1, <2>2, <2>4 DEF RInv, RuntimeType
    <3> QED
      BY ZenonT(60), <1>1, <1>2, <3>1, <3>2, LostKeeps DEF IInv
  <2> QED
    BY <2>3, <2>4
<1> QED
  BY <1>3, <1>4

(* A message concerns nobody's handle. *)
LEMMA MessageTold ==
    ASSUME IInv, RInv, NEW c \in Slots, NEW x \in Hosts, MessageArrives(c, x) PROVE RInv'
<1> DEFINE h == Partner(c, x)
           e == [type |-> "Message", host |-> h, slot |-> c]
<1>1. conn[c] # None /\ x \in Ends(c) /\ UNCHANGED <<network, active, stale>>
  BY DEF MessageArrives
<1>2. h \in Hosts
  BY <1>1 DEF Partner, Hosts, IInv, ConnType
<1>3. CASE eq' = eq
  BY SMTT(40), <1>1, <1>3, RuntimeUnread
<1>4. CASE eq' = [eq EXCEPT ![x] = Append(@, e)]
  <2> HIDE DEF h
  <2>1. e \in TransportEvent /\ e.host = h /\ ~Concerns(e, h)
    BY SMTT(40), <1>2 DEF TransportEvent, Concerns
  <2>2. Told(eq[x], h, network[x][h], active[x][h], stale[x][h]) /\ eq[x] \in Seq(TransportEvent)
    BY <1>2 DEF RInv, AllTold, RuntimeType
  <2>3. Told(Append(eq[x], e), h, network[x][h], active[x][h], stale[x][h])
    BY SMTT(40), <2>1, <2>2, AppendOther
  <2> DEFINE a == active[x][h]
             lost == stale[x][h]
  <2>4. /\ active' = [active EXCEPT ![x][h] = a] /\ a \in Slots \cup {None}
        /\ stale' = [stale EXCEPT ![x][h] = lost] /\ lost \in BOOLEAN
    BY <1>1, <1>2 DEF IInv, TableType, RInv, RuntimeType
  <2>5. Told(Append(eq[x], e), h, network[x][h], a, lost)
    BY <2>3
  <2> HIDE DEF e, a, lost
  <2>6. UNCHANGED network
    BY <1>1
  <2> QED
    BY ZenonT(60), <1>2, <1>4, <2>1, <2>4, <2>5, <2>6, AppendKeeps DEF IInv
<1> QED
  BY <1>3, <1>4 DEF MessageArrives

(* The runtime takes the first event. *)
LEMMA EventTold ==
    ASSUME IInv, RInv, NEW x \in Hosts, HandleTransportEvent(x) PROVE RInv'
<1> DEFINE q == eq[x]
           e == q[1]
<1>1. q # <<>> /\ q \in Seq(TransportEvent) /\ eq' = [eq EXCEPT ![x] = Tail(q)] /\ UNCHANGED <<active, stale>>
  BY DEF HandleTransportEvent, RInv, RuntimeType
<1>2. e \in TransportEvent /\ Head(q) = e /\ Tail(q) \in Seq(TransportEvent)
  BY <1>1
<1>3. e.host \in Hosts /\ e.slot \in Slots
  BY SMTT(40), <1>2 DEF TransportEvent
<1>4. network' = IF e.type = "Connected" THEN [network EXCEPT ![x][e.host] = e.slot]
                 ELSE IF e.type = "Disconnected" /\ network[x][e.host] = e.slot
                      THEN [network EXCEPT ![x][e.host] = None] ELSE network
  BY <1>2 DEF HandleTransportEvent
<1> HIDE DEF e, q
<1>5. /\ network' \in [Hosts -> [Hosts -> Slots \cup {None}]]
      /\ \A y, g \in Hosts :
          network'[y][g] = IF y = x THEN Taken(e, g, network[y][g]) ELSE network[y][g]
  <2>1. network \in [Hosts -> [Hosts -> Slots \cup {None}]]
    BY DEF RInv, RuntimeType
  <2>2. CASE e.type = "Connected"
    <3>1. network' = [network EXCEPT ![x][e.host] = e.slot]
      BY <1>4, <2>2
    <3> QED
      BY <1>3, <2>1, <2>2, <3>1 DEF Taken, Concerns
  <2>3. CASE e.type = "Disconnected" /\ network[x][e.host] = e.slot
    <3>1. network' = [network EXCEPT ![x][e.host] = None]
      BY <1>4, <2>3
    <3> QED
      BY <1>3, <2>1, <2>3, <3>1 DEF Taken, Concerns
  <2>4. CASE e.type # "Connected" /\ ~(e.type = "Disconnected" /\ network[x][e.host] = e.slot)
    BY <1>4, <2>1, <2>4 DEF Taken, Concerns
  <2> QED
    BY <2>2, <2>3, <2>4
<1>6. RuntimeType'
  BY ZenonT(60), <1>1, <1>2, <1>5 DEF RInv, RuntimeType, TransportEvent, Hosts
<1>7. AllTold'
  <2> SUFFICES ASSUME NEW y \in Hosts, NEW g \in Hosts
               PROVE  Told(eq'[y], g, network'[y][g], active[y][g], stale[y][g])
    BY <1>1 DEF AllTold
  <2>1. Told(eq[y], g, network[y][g], active[y][g], stale[y][g])
    BY DEF RInv, AllTold
  <2>2. CASE y # x
    BY SMTT(40), <1>1, <1>5, <2>1, <2>2 DEF RInv, RuntimeType
  <2>3. CASE y = x
    <3>1. Told(Tail(q), g, Taken(e, g, network[x][g]), active[x][g], stale[x][g])
      BY <1>1, <2>1, <2>3, TakeTold DEF e, q
    <3> QED
      BY <1>1, <1>5, <2>3, <3>1 DEF RInv, RuntimeType
  <2> QED
    BY <2>2, <2>3
<1> QED
  BY <1>6, <1>7 DEF RInv

(* A host that starts again has told nothing, and says so where its runtime still holds *)
(* a handle.                                                                            *)
LEMMA RestartTold ==
    ASSUME IInv, RInv, NEW x \in Hosts, RestartProcess(x) \/ RestartTransport(x) PROVE RInv'
<1>1. active' = [active EXCEPT ![x] = Nothing] /\ eq' = [eq EXCEPT ![x] = <<>>]
  BY ZenonT(40) DEF RestartProcess, RestartTransport, Forget
<1>2. \/ network' = [network EXCEPT ![x] = Nothing] /\ stale' = [stale EXCEPT ![x] = [h \in Hosts |-> FALSE]]
      \/ network' = network /\ stale' = [stale EXCEPT ![x] = [h \in Hosts |-> network[x][h] # None]]
  BY ZenonT(40) DEF RestartProcess, RestartTransport
<1>3. \E n \in [Hosts -> Slots \cup {None}], f \in [Hosts -> BOOLEAN] :
        /\ network' = [network EXCEPT ![x] = n] /\ stale' = [stale EXCEPT ![x] = f]
        /\ \A h \in Hosts : f[h] \/ n[h] = None
  <2>1. CASE network' = [network EXCEPT ![x] = Nothing] /\ stale' = [stale EXCEPT ![x] = [h \in Hosts |-> FALSE]]
    <3>1. Nothing \in [Hosts -> Slots \cup {None}] /\ \A h \in Hosts : Nothing[h] = None
      BY DEF Nothing
    <3> QED
      BY <2>1, <3>1, ZenonT(40)
  <2>2. CASE network' = network /\ stale' = [stale EXCEPT ![x] = [h \in Hosts |-> network[x][h] # None]]
    <3> DEFINE f == [h \in Hosts |-> network[x][h] # None]
    <3>1. network[x] \in [Hosts -> Slots \cup {None}] /\ network' = [network EXCEPT ![x] = network[x]]
      BY <2>2 DEF RInv, RuntimeType
    <3>2. f \in [Hosts -> BOOLEAN] /\ \A h \in Hosts : f[h] \/ network[x][h] = None
      BY ZenonT(40)
    <3>3. stale' = [stale EXCEPT ![x] = f]
      BY <2>2
    <3> HIDE DEF f
    <3> QED
      BY <3>1, <3>2, <3>3, ZenonT(40)
  <2> QED
    BY <1>2, <2>1, <2>2
<1>4. PICK n \in [Hosts -> Slots \cup {None}], f \in [Hosts -> BOOLEAN] :
        /\ network' = [network EXCEPT ![x] = n] /\ stale' = [stale EXCEPT ![x] = f]
        /\ \A h \in Hosts : f[h] \/ n[h] = None
  BY <1>3, ZenonT(40)
<1>5. RuntimeType'
  BY <1>1, <1>4 DEF RInv, RuntimeType
<1>6. \A y \in Hosts : y # x =>
        /\ eq'[y] = eq[y] /\ network'[y] = network[y] /\ active'[y] = active[y] /\ stale'[y] = stale[y]
  BY <1>1, <1>4 DEF RInv, RuntimeType, IInv, TableType
<1>7. eq'[x] = <<>> /\ network'[x] = n /\ stale'[x] = f /\ \A h \in Hosts : active'[x][h] = None
  <2>1. eq'[x] = <<>> /\ network'[x] = n /\ stale'[x] = f /\ active'[x] = Nothing
    BY SMTT(40), <1>1, <1>4 DEF RInv, RuntimeType, IInv, TableType
  <2> QED
    BY <2>1 DEF Nothing
<1>8. AllTold'
  <2> SUFFICES ASSUME NEW y \in Hosts, NEW g \in Hosts
               PROVE  Told(eq'[y], g, network'[y][g], active'[y][g], stale'[y][g])
    BY DEF AllTold
  <2>1. CASE y # x
    BY <1>6, <2>1 DEF RInv, AllTold
  <2>2. CASE y = x
    <3>1. Told(<<>>, g, n[g], None, f[g])
      BY <1>4, EmptyTold
    <3> QED
      BY <1>7, <2>2, <3>1
  <2> QED
    BY <2>1, <2>2
<1> QED
  BY <1>5, <1>8 DEF RInv

(* At first nobody holds anything. *)
LEMMA InitRInv == Init => RInv
<1> SUFFICES ASSUME Init PROVE RInv
  OBVIOUS
<1>1. RuntimeType
  BY DEF Init, RuntimeType, Nothing, TransportEvent
<1>2. AllTold
  BY ZenonT(60), EmptyTold DEF Init, AllTold, Nothing
<1> QED
  BY <1>1, <1>2 DEF RInv

(* Every step keeps it. *)
LEMMA NextRInv == IInv /\ RInv /\ [Next]_vars => RInv'
<1> SUFFICES ASSUME IInv, RInv, [Next]_vars PROVE RInv'
  OBVIOUS
<1>1. ASSUME NEW p \in Peers, Dial(p) \/ DialFails(p) \/ BackoffOver(p) PROVE RInv'
  BY SMTT(40), <1>1, RuntimeUnread DEF Dial, DialFails, BackoffOver
<1>2. ASSUME NEW c \in Slots, NEW x \in Hosts, HelloDone(c, x) \/ HelloFails(c, x) \/ TaskEnds(c, x)
      PROVE  RInv'
  BY <1>2, RuntimeUnread DEF HelloDone, HelloFails, TaskEnds
<1>3. ASSUME NEW c \in Slots, NEW x \in Hosts, ManageConnection(c, x) PROVE RInv'
  BY <1>3, ConnectionTold
<1>4. ASSUME NEW c \in Slots, NEW x \in Hosts, ManageEnded(c, x) PROVE RInv'
  BY <1>4, EndedTold
<1>5. ASSUME NEW c \in Slots, NEW x \in Hosts, MessageArrives(c, x) PROVE RInv'
  BY <1>5, MessageTold
<1>6. ASSUME NEW x \in Hosts, HandleTransportEvent(x) PROVE RInv'
  BY <1>6, EventTold
<1>7. ASSUME NEW x \in Hosts, RestartProcess(x) \/ RestartTransport(x) PROVE RInv'
  BY <1>7, RestartTold
<1>8. ASSUME NEW c \in Slots, Break(c) \/ Silence(c) PROVE RInv'
  BY <1>8, RuntimeUnread DEF Break, Silence
<1>9. CASE UNCHANGED vars
  BY SMTT(40), <1>9, RuntimeUnread DEF vars
<1> QED
  BY <1>1, <1>2, <1>3, <1>4, <1>5, <1>6, <1>7, <1>8, <1>9 DEF Next

(* With no event left the runtime holds what the manager runs. *)
LEMMA RInvSuffices == RInv => RuntimeCurrent
<1> SUFFICES ASSUME RInv, NEW x \in Hosts, NEW h \in Hosts, eq[x] = <<>>, ~stale[x][h]
             PROVE  network[x][h] = active[x][h]
  BY DEF RuntimeCurrent
<1>1. Told(<<>>, h, network[x][h], active[x][h], stale[x][h])
  BY DEF RInv, AllTold
<1> QED
  BY <1>1 DEF Told, Shows

(* When the event queue is empty and no event on a host was lost, the runtime sends to the *)
(* connection that the manager runs (run_manager, handle_transport_event): for any hosts,  *)
(* any number of connections, faults and restarts, and any queue capacity.                 *)
THEOREM RuntimeIsCurrent == Spec => []RuntimeCurrent
<1> QED
  BY InitIInv, NextIInv, InitRInv, NextRInv, RInvSuffices, PTL DEF Spec
============================================================================
