------------------------------- MODULE NetSockets -------------------------------
(***************************************************************************)
(* The descriptor lifecycle of the socket helpers of                       *)
(* src/libtransmission/net.cc: createSocket, tr_netOpenPeerSocket,         *)
(* tr_netBindTCPImpl and tr_netAccept.  Each system call a helper makes    *)
(* after the descriptor exists is a step of its own, which may fail; a     *)
(* failing step takes the code's early return, closing the descriptor with *)
(* tr_net_close_socket where the code does.  A descriptor is a number;     *)
(* socket() and accept() hand out the lowest one not open, as POSIX        *)
(* requires, so a descriptor closed on one path is reused by the next.     *)
(*                                                                         *)
(* The helpers run on the session thread, one at a time, and so do the     *)
(* owners outside net.cc (tr_peer_socket, the session's listening          *)
(* sockets): the sets peers and listeners, closed by the environment       *)
(* actions at the end.                                                     *)
(***************************************************************************)
EXTENDS Naturals, FiniteSets, Sequences

CONSTANTS
    MaxFds,      \* descriptors the process may hold (RLIMIT_NOFILE)
    PeerLimit    \* peers tr_peer_socket::limit_reached() allows

VARIABLES
    open,        \* descriptors open in the process
    peers,       \* descriptors owned by a tr_peer_socket
    listeners,   \* descriptors returned by tr_netBindTCP
    call         \* the helper running: its descriptor and the steps left

vars == <<open, peers, listeners, call>>

Fds == 0..MaxFds - 1

\* No helper is running.
NoCall == [fn |-> "none", fd |-> 0, rest |-> <<>>]

\* The descriptor the running helper holds in a local variable.
Held == IF call.fn = "none" THEN {} ELSE {call.fd}

\* socket() / accept(): the lowest free descriptor, none if all are open.
LowestFree == {fd \in Fds \ open : \A g \in Fds \ open : fd <= g}

\* tr_peer_socket::limit_reached(session).
LimitReached == Cardinality(peers) >= PeerLimit

-----------------------------------------------------------------------------
(* The calls each helper makes on its descriptor, in order.  The           *)
(* getsockopt logging of createSocket, the SO_RCVBUF setsockopt of a seed, *)
(* SO_KEEPALIVE, SO_REUSEADDR and TCP_FASTOPEN ignore their result and are *)
(* left out.                                                               *)

\* createSocket's nonblocking call, then bind() to the source address and
\* connect() (EINPROGRESS is success).
PeerSteps == <<"nonblock", "bind", "connect">>

\* Nonblocking, IPV6_V6ONLY on an IPv6 address (ENOPROTOOPT is success),
\* bind(), listen().
BindSteps(is_ipv6) ==
    IF is_ipv6 THEN <<"nonblock", "v6only", "bind", "listen">>
               ELSE <<"nonblock", "bind", "listen">>

\* One test after accept(): from_sockaddr, nonblocking and limit_reached().
AcceptSteps == <<"check">>

\* A helper obtains a descriptor: socket() or accept() may fail (or no
\* descriptor is free), and the helper returns with nothing to close.
Obtain(fn, steps) ==
    \/ UNCHANGED vars
    \/ \E fd \in LowestFree :
         /\ open' = open \cup {fd}
         /\ call' = [fn |-> fn, fd |-> fd, rest |-> steps]
         /\ UNCHANGED <<peers, listeners>>

-----------------------------------------------------------------------------
Init == open = {} /\ peers = {} /\ listeners = {} /\ call = NoCall

\* tr_netOpenPeerSocket: returns at the peer limit, without TCP, or for an
\* address not valid for peers; else createSocket's socket().
OpenPeerSocket(valid, allows_tcp) ==
    /\ call = NoCall
    /\ IF LimitReached \/ ~allows_tcp \/ ~valid
       THEN UNCHANGED vars
       ELSE Obtain("peer", PeerSteps)

\* tr_netBindTCP (tr_netBindTCPImpl): socket().
BindTCP(is_ipv6) ==
    /\ call = NoCall
    /\ Obtain("bind", BindSteps(is_ipv6))

\* tr_netAccept on a listening descriptor: accept().
Accept(l) ==
    /\ call = NoCall
    /\ l \in listeners
    /\ Obtain("accept", AcceptSteps)

\* The running helper's next call succeeds.  The accept check fails at the
\* peer limit whatever the address and nonblocking call return.
StepSucceeds ==
    /\ call.rest # <<>>
    /\ Head(call.rest) = "check" => ~LimitReached
    /\ call' = [call EXCEPT !.rest = Tail(call.rest)]
    /\ UNCHANGED <<open, peers, listeners>>

\* Mutant: a failed bind() of the source address in tr_netOpenPeerSocket
\* returns without tr_net_close_socket.
StepFailsLeakingOnBind ==
    /\ call.rest # <<>>
    /\ open' = IF call.fn = "peer" /\ Head(call.rest) = "bind"
               THEN open ELSE open \ {call.fd}
    /\ call' = NoCall
    /\ UNCHANGED <<peers, listeners>>

\* The running helper's next call fails: every such early return closes
\* the descriptor with tr_net_close_socket and returns nothing.
StepFails ==
    /\ call.rest # <<>>
    /\ open' = open \ {call.fd}
    /\ call' = NoCall
    /\ UNCHANGED <<peers, listeners>>

\* Every call succeeded: the descriptor goes to a new tr_peer_socket (an
\* outgoing connection, or the caller of tr_netAccept), or is returned as a
\* listening socket by tr_netBindTCP.
Return ==
    /\ call.fn # "none" /\ call.rest = <<>>
    /\ peers' = IF call.fn = "bind" THEN peers ELSE peers \cup {call.fd}
    /\ listeners' = IF call.fn = "bind" THEN listeners \cup {call.fd} ELSE listeners
    /\ call' = NoCall
    /\ UNCHANGED open

\* Environment: a tr_peer_socket or a listening socket is closed with
\* tr_net_close_socket by its owner.
ClosePeer(fd) ==
    /\ call = NoCall /\ fd \in peers
    /\ open' = open \ {fd} /\ peers' = peers \ {fd}
    /\ UNCHANGED <<listeners, call>>

CloseListener(fd) ==
    /\ call = NoCall /\ fd \in listeners
    /\ open' = open \ {fd} /\ listeners' = listeners \ {fd}
    /\ UNCHANGED <<peers, call>>

Next ==
    \/ \E valid, allows_tcp \in BOOLEAN : OpenPeerSocket(valid, allows_tcp)
    \/ \E is_ipv6 \in BOOLEAN : BindTCP(is_ipv6)
    \/ \E l \in listeners : Accept(l)
    \/ StepSucceeds
    \/ StepFails
    \/ Return
    \/ \E fd \in peers : ClosePeer(fd)
    \/ \E fd \in listeners : CloseListener(fd)

Spec == Init /\ [][Next]_vars

-----------------------------------------------------------------------------
TypeOK ==
    /\ open \subseteq Fds /\ peers \subseteq Fds /\ listeners \subseteq Fds
    /\ call.fn \in {"none", "peer", "bind", "accept"}

\* Every open descriptor has exactly one owner: the helper running, a peer
\* socket or a listener.  So whichever step of createSocket,
\* tr_netOpenPeerSocket, tr_netBindTCPImpl or tr_netAccept failed, and
\* however closed descriptors were reused, no helper leaked the descriptor
\* it opened or handed out one it had closed.
DescriptorsOwned ==
    /\ open = peers \cup listeners \cup Held
    /\ peers \cap listeners = {}
    /\ Held \cap (peers \cup listeners) = {}
================================================================================
