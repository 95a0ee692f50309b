------------------------------ MODULE Overlay ------------------------------
(***************************************************************************)
(* The P2P overlay (l2/chain/p2p/node.py, discovery.py): nodes that dial   *)
(* their bootstrap peers over web sockets and flood signed envelopes.      *)
(*                                                                         *)
(* A dialled peer is a LINK <<d, l>>; each time it is dialled a new socket *)
(* k of the link opens, with a wire in each direction.  The dialler keeps  *)
(* one REGISTERED socket per peer address, the listener sends on every     *)
(* socket still open.  One receive loop per wire: it takes the next        *)
(* envelope, marks it seen, awaits the handlers of its topic and only then *)
(* passes it on, to the registered sockets and to no inbound one.          *)
(*                                                                         *)
(* What the handlers do is left to the module that extends this one.       *)
(***************************************************************************)
EXTENDS Naturals, Sequences, SequencesExt, FiniteSets

CONSTANTS
    Nodes,
    Links,          \* pairs <<d, l>>: l is a bootstrap peer of d
    Envelopes,      \* everything that can be broadcast, [topic, from, ref]
    NoEnvelope,
    MaxSockets,     \* BOUND: times one link is dialled
    MaxBreaks       \* BOUND: sockets that break

ASSUME LinksAssumption ==
    /\ Links \subseteq {l \in Nodes \X Nodes : l[1] # l[2]}
    /\ MaxSockets \in Nat /\ MaxBreaks \in Nat

Sockets == 1..MaxSockets

\* A wire: the link, the socket and the direction of the messages.
Wires == Links \X Sockets \X {"up", "down"}
\* The task of a node that hands its own broadcast to its own subscribers.
Local(n) == <<n, "self">>
Tasks == Wires \cup {Local(n) : n \in Nodes}

Receiver(w) == IF w[3] = "up" THEN w[1][2] ELSE w[1][1]
At(t) == IF t \in Wires THEN Receiver(t) ELSE t[1]

VARIABLES
    socket,     \* per link and k: "none", "open", "broken" or "closed"
    reg,        \* per link: the registered socket, 0 when there is none
    dialling,   \* per link: connection attempts that passed the check
    failed,     \* per link: failed pings in a row
    active,     \* links whose peer is in the active set of its dialler
    wire,       \* per wire: the envelopes on their way
    seen,       \* per node: envelopes in the seen cache
    task,       \* per task: the envelope its handlers work on
    delivered,  \* per node and envelope: times it was given to the handlers
    breaks

netVars == <<socket, reg, dialling, failed, active, wire, seen, task, delivered, breaks>>
linkVars == <<socket, reg, dialling, failed, active, breaks>>

OverlayInit ==
    /\ socket = [l \in Links |-> [k \in Sockets |-> "none"]]
    /\ reg = [l \in Links |-> 0]
    /\ dialling = [l \in Links |-> 1]
    /\ failed = [l \in Links |-> 0]
    /\ active = Links
    /\ wire = [w \in Wires |-> <<>>]
    /\ seen = [n \in Nodes |-> {}]
    /\ task = [t \in Tasks |-> NoEnvelope]
    /\ delivered = [n \in Nodes |-> [e \in Envelopes |-> 0]]
    /\ breaks = 0

-----------------------------------------------------------------------------
(* Sockets.                                                                *)

Fresh(l) == {k \in Sockets : socket[l][k] = "none"}
Next1(S) == CHOOSE k \in S : \A i \in S : k <= i

\* The check of _connect_peer; the await of ws_connect comes after it.
MayDial(l) == reg[l] = 0

\* ws_connect returns: the socket is registered under the peer's address,
\* over whatever was registered meanwhile.
Connected(l) ==
    /\ dialling[l] > 0
    /\ Fresh(l) # {}
    /\ LET k == Next1(Fresh(l))
       IN  /\ socket' = [socket EXCEPT ![l][k] = "open"]
           /\ reg' = [reg EXCEPT ![l] = k]
    /\ dialling' = [dialling EXCEPT ![l] = @ - 1]
    /\ UNCHANGED <<failed, active, wire, seen, task, delivered, breaks>>

\* BOUND: a peer that refuses the connection is a failure too.
Refused(l) ==
    /\ dialling[l] > 0
    /\ breaks < MaxBreaks
    /\ breaks' = breaks + 1
    /\ dialling' = [dialling EXCEPT ![l] = @ - 1]
    /\ UNCHANGED <<socket, reg, failed, active, wire, seen, task, delivered>>

\* Three failures drop a peer from the active set, and the same refresh
\* puts every bootstrap peer back.
Reactivated(l, act) == act \cup {l}

\* discovery._refresh for one peer, every ping_interval.  A peer that is
\* registered is pinged, one that is not is dialled in the background.
Refresh(l) ==
    /\ l \in active
    /\ \/ /\ reg[l] # 0
          /\ socket[l][reg[l]] = "broken"            \* ws.ping() raises
          /\ failed[l] < 3                           \* BOUND
          /\ failed' = [failed EXCEPT ![l] = @ + 1]
          /\ active' = Reactivated(l, IF failed[l] + 1 >= 3
                                      THEN active \ {l} ELSE active)
          /\ UNCHANGED dialling
       \/ /\ reg[l] # 0
          /\ socket[l][reg[l]] = "open"
          /\ failed[l] > 0
          /\ failed' = [failed EXCEPT ![l] = 0]
          /\ UNCHANGED <<active, dialling>>
       \/ /\ MayDial(l)
          /\ dialling[l] = 0 \/ (dialling[l] = 1 /\ breaks = 0)   \* BOUND
          /\ dialling' = [dialling EXCEPT ![l] = @ + 1]
          /\ failed' = [failed EXCEPT ![l] = 0]
          /\ UNCHANGED active
    /\ UNCHANGED <<socket, reg, wire, seen, task, delivered, breaks>>

Cut(wr, l, k) == [w \in Wires |-> IF w[1] = l /\ w[2] = k THEN <<>> ELSE wr[w]]

\* A socket breaks; what was on it is lost.
Break(l, k) ==
    /\ socket[l][k] = "open"
    /\ breaks < MaxBreaks
    /\ breaks' = breaks + 1
    /\ socket' = [socket EXCEPT ![l][k] = "broken"]
    /\ wire' = Cut(wire, l, k)
    /\ UNCHANGED <<reg, dialling, failed, active, seen, task, delivered>>

\* The receive loop of a broken socket ends and forgets the peer: whatever
\* socket is registered for it by now.
\* Mutant of Forgotten: a loop that ends leaves the entry of its peer.
Forgotten_Kept(l, k) == reg[l]

Forgotten(l, k) == 0

LoopEnds(l, k) ==
    /\ socket[l][k] = "broken"
    /\ task[<<l, k, "down">>] = NoEnvelope
    /\ socket' = [socket EXCEPT ![l][k] = "closed"]
    /\ reg' = [reg EXCEPT ![l] = Forgotten(l, k)]
    /\ UNCHANGED <<dialling, failed, active, wire, seen, task, delivered, breaks>>

-----------------------------------------------------------------------------
(* Envelopes.                                                              *)

\* Registered sockets n sends on, and the open sockets peers dialled it on.
Outbound(n) ==
    {<<l, reg[l], "up">> : l \in {x \in Links : x[1] = n /\ reg[x] # 0
                                                 /\ socket[x][reg[x]] = "open"}}
\* Mutant of Inbound: only dialled peers are sent to.
Inbound_None(n) == {}

Inbound(n) ==
    {w \in Wires : w[3] = "down" /\ w[1][2] = n /\ socket[w[1]][w[2]] = "open"}

\* A failed send takes the peer off the registered sockets.
Pruned(n) ==
    [l \in Links |-> IF l[1] = n /\ reg[l] # 0 /\ socket[l][reg[l]] # "open"
                     THEN 0 ELSE reg[l]]

Sent(wr, e, targets) == [w \in Wires |-> IF w \in targets THEN Append(wr[w], e) ELSE wr[w]]

Marked(n, e) == [seen EXCEPT ![n] = @ \cup {e}]
Given(n, e) == [delivered EXCEPT ![n][e] = @ + 1]

\* broadcast with no subscriber of the topic at n: the fan-out at once, to
\* the registered sockets and to every inbound one.
Broadcast(n, e) ==
    /\ e \notin seen[n]
    /\ seen' = Marked(n, e)
    /\ delivered' = Given(n, e)
    /\ wire' = Sent(wire, e, Outbound(n) \cup Inbound(n))
    /\ reg' = Pruned(n)
    /\ UNCHANGED <<socket, dialling, failed, active, task, breaks>>

\* broadcast where n itself subscribes to the topic: its own handlers come
\* first, the fan-out when they have returned.
BroadcastSelf(n, e) ==
    /\ e \notin seen[n]
    /\ task[Local(n)] = NoEnvelope
    /\ seen' = Marked(n, e)
    /\ delivered' = Given(n, e)
    /\ task' = [task EXCEPT ![Local(n)] = e]
    /\ UNCHANGED <<socket, reg, dialling, failed, active, wire, breaks>>

\* _on_raw up to the handlers: a message seen before is dropped.
Known(n, e) == e \in seen[n]

Drop(w) ==
    /\ wire[w] # <<>> /\ task[w] = NoEnvelope
    /\ Known(Receiver(w), Head(wire[w]))
    /\ wire' = [wire EXCEPT ![w] = Tail(@)]
    /\ UNCHANGED <<linkVars, seen, task, delivered>>

\* A new one whose topic n subscribes to goes to the handlers.
Take(w) ==
    /\ wire[w] # <<>> /\ task[w] = NoEnvelope
    /\ LET e == Head(wire[w])  n == Receiver(w)
       IN  /\ ~Known(n, e)
           /\ seen' = Marked(n, e)
           /\ delivered' = Given(n, e)
           /\ task' = [task EXCEPT ![w] = e]
    /\ wire' = [wire EXCEPT ![w] = Tail(@)]
    /\ UNCHANGED linkVars

\* The handlers of a task have returned: a received envelope is passed on
\* to the registered sockets, an own one goes to everybody.
Forwards(n) == Outbound(n)

Return(t) ==
    LET n == At(t)  e == task[t]
        targets == IF t \in Wires THEN Forwards(n) ELSE Outbound(n) \cup Inbound(n)
    IN  /\ e # NoEnvelope
        /\ task' = [task EXCEPT ![t] = NoEnvelope]
        /\ wire' = Sent(wire, e, targets)
        /\ reg' = Pruned(n)
        /\ UNCHANGED <<socket, dialling, failed, active, seen, delivered, breaks>>

LinkStep ==
    \E l \in Links : \/ Connected(l) \/ Refused(l) \/ Refresh(l)
                     \/ \E k \in Sockets : Break(l, k) \/ LoopEnds(l, k)

-----------------------------------------------------------------------------
OverlayTypeOK ==
    /\ socket \in [Links -> [Sockets -> {"none", "open", "broken", "closed"}]]
    /\ reg \in [Links -> 0..MaxSockets]
    /\ dialling \in [Links -> 0..2]
    /\ failed \in [Links -> 0..3]
    /\ active \subseteq Links
    /\ wire \in [Wires -> Seq(Envelopes)]
    /\ seen \in [Nodes -> SUBSET Envelopes]
    /\ task \in [Tasks -> Envelopes \cup {NoEnvelope}]
    /\ delivered \in [Nodes -> [Envelopes -> Nat]]
    /\ breaks \in 0..MaxBreaks

Quiet == /\ \A w \in Wires : wire[w] = <<>>
         /\ \A t \in Tasks : task[t] = NoEnvelope

(* However many sockets and paths lead to a node, and although a node gets *)
(* its own broadcast back from the peers it dialled, its handlers get each *)
(* envelope at most once (node.py:208-213).                                *)
HandledOnce == \A n \in Nodes, e \in Envelopes : delivered[n][e] <= 1

(* When sockets stop breaking, every node ends up with a registered, open  *)
(* socket to each of its bootstrap peers, although a late receive loop may *)
(* have taken the entry of a newer socket with it (node.py:199) and three  *)
(* failed pings drop a peer (discovery.py:44).                             *)
Reconnects ==
    <>[](\A l \in Links : reg[l] # 0 /\ socket[l][reg[l]] = "open")
=============================================================================
