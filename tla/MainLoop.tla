------------------------------ MODULE MainLoop ------------------------------
(***************************************************************************)
(* The server's event loop (adbiserver.c), its signal flags                *)
(* (util/signal.c), the client connection (communication/communication.c)  *)
(* and the loop of wait_main (procutil/wait.c).                            *)
(*                                                                         *)
(* The signals are blocked except inside sigsuspend, so a signal stays in  *)
(* `pend' until the server sleeps again; two signals of one kind are one.  *)
(* What a status or a packet makes the server do is modelled in Tracer and *)
(* Injection: here a status is a unit of work, and a packet is             *)
(* a header and a payload, which TCP may deliver at different times.  The  *)
(* client (adbiclient/adbi/adbi.py) sends one request and waits for its    *)
(* answer.                                                                 *)
(***************************************************************************)
EXTENDS Integers, Sequences

CONSTANTS
    MaxWait,      \* statuses one wait_main takes (128)
    MaxStatuses,  \* statuses the traced processes produce
    MaxRequests,  \* requests of the client
    MaxConnects,  \* connections of the client
    MaxFails      \* failures of comm_init_server after a disconnection

ASSUME BoundsAssumption ==
    /\ MaxWait \in Nat \ {0} /\ MaxStatuses \in Nat /\ MaxRequests \in Nat
    /\ MaxConnects \in Nat /\ MaxFails \in Nat

VARIABLES
    pend,     \* signals raised and still blocked
    flag,     \* the counters signal_child, signal_io, ... that are not 0
    armed,    \* an alarm is set
    pc,       \* where the server is
    caller,   \* which test of the loop called comm_handle_io
    left,     \* count of wait_main
    server,   \* comm_server_sock is open and listening
    conn,     \* comm_connection_sock is open
    async,    \* O_ASYNC is set on the connection
    status,   \* statuses waitpid would report
    client,   \* the client
    wire,     \* what is on its way to the server
    heard,    \* the last arrival on the connection raised a SIGIO
    budget    \* what the environment may still do

sockets == <<server, conn, async>>
peer == <<client, wire, heard>>
vars == <<pend, flag, armed, pc, caller, left, sockets, status, peer, budget>>

Signals == {"CHLD", "IO", "INT", "PIPE", "ALRM"}
Flags == {"child", "io", "quit", "disconnected", "alarm"}

(* The type of a packet stands for its payload: it matters only once the    *)
(* whole packet is there.  QUIT is a request for the loop itself, PING any  *)
(* other.                                                                   *)
Requests == {"PING", "QUIT"}
Pieces == Requests \cup {"head", "EOF"}

Labels == {"init", "top", "sigsuspend", "child", "wait", "io", "disconnected",
           "alarm", "handle_io", "accepted", "payload", "PING", "QUIT",
           "exited"}

(* off: no socket.  idle: connected.  sending: the header is sent.          *)
(* waiting: the whole request is sent.                                      *)
ClientStates == {"off", "idle", "sending", "waiting"}

TypeOK ==
    /\ pend \subseteq Signals
    /\ flag \subseteq Flags
    /\ armed \in BOOLEAN
    /\ pc \in Labels
    /\ caller \in {"io", "disconnected"}
    /\ left \in 0..MaxWait
    /\ server \in BOOLEAN /\ conn \in BOOLEAN /\ async \in BOOLEAN
    /\ status \in 0..MaxStatuses
    /\ client \in ClientStates
    /\ wire \in Seq(Pieces)
    /\ heard \in BOOLEAN
    /\ budget \in [status : 0..MaxStatuses, request : 0..MaxRequests,
                   connect : 0..MaxConnects, fail : 0..MaxFails, int : 0..1]

Init ==
    /\ pend = {} /\ flag = {} /\ armed = FALSE
    /\ pc = "init" /\ caller = "io" /\ left = 0
    /\ server = FALSE /\ conn = FALSE /\ async = FALSE
    /\ status = 0
    /\ client = "off" /\ wire = <<>> /\ heard = FALSE
    /\ budget = [status |-> MaxStatuses, request |-> MaxRequests,
                 connect |-> MaxConnects, fail |-> MaxFails, int |-> 1]

------------------------------------------------------------------------------
(* adbiserver.c and signal.c                                                *)

\* init: protocol_init, caps_init, signal_init, comm_init, injectable_init
\* all succeed and the first alarm is set, or the server cleans up and exits.
Start ==
    /\ pc = "init"
    /\ \/ server' = TRUE /\ armed' = TRUE /\ pc' = "top"
       \/ pc' = "exited" /\ UNCHANGED <<server, armed>>
    /\ UNCHANGED <<pend, flag, caller, left, conn, async, status, peer, budget>>

\* Mutant: signal_init installs no handler for SIGINT.
signal_handler_noint(s) ==
    CASE s = "CHLD" -> {"child"} [] s = "IO" -> {"io"} [] s = "INT" -> {}
      [] s = "PIPE" -> {"disconnected"} [] s = "ALRM" -> {"alarm"}

\* Every signal raises a counter of its own.
signal_handler(s) ==
    CASE s = "CHLD" -> {"child"} [] s = "IO" -> {"io"} [] s = "INT" -> {"quit"}
      [] s = "PIPE" -> {"disconnected"} [] s = "ALRM" -> {"alarm"}

\* signal_wait: sigsuspend returns when the handlers of all pending signals
\* have run.
signal_wait ==
    /\ pc = "sigsuspend" /\ pend # {}
    /\ flag' = flag \cup UNION {signal_handler(s) : s \in pend}
    /\ pend' = {} /\ pc' = "child"
    /\ UNCHANGED <<armed, caller, left, sockets, status, peer, budget>>

\* cleanup: the connections are closed; process_cleanup is module Attach.
cleanup ==
    /\ pc = "top" /\ "quit" \in flag
    /\ pc' = "exited" /\ server' = FALSE /\ conn' = FALSE /\ async' = FALSE
    /\ client' = "off" /\ wire' = <<>> /\ heard' = FALSE
    /\ UNCHANGED <<pend, flag, armed, caller, left, status, budget>>

\* alarm(10) when SIGALRM was seen
Rearm == "alarm" \in flag

\* Where the tests of the loop lead: to the call, or to the next test.
Test ==
    [child        |-> [call |-> "wait",      next |-> "io"],
     io           |-> [call |-> "handle_io", next |-> "disconnected"],
     disconnected |-> [call |-> "handle_io", next |-> "alarm"]]

\* One test of the loop.
loop ==
    /\ \/ pc = "top" /\ "quit" \notin flag /\ pc' = "sigsuspend"
          /\ UNCHANGED <<flag, armed, caller, left>>
       \/ /\ pc \in DOMAIN Test
          /\ pc' = IF pc \in flag THEN Test[pc].call ELSE Test[pc].next
          /\ left' = IF pc = "child" THEN MaxWait ELSE left
          /\ caller' = IF pc = "child" THEN caller ELSE pc
          /\ UNCHANGED <<flag, armed>>
       \/ pc = "alarm" /\ pc' = "top"
          /\ armed' = (armed \/ Rearm) /\ flag' = flag \ {"alarm"}
          /\ UNCHANGED <<caller, left>>
    /\ UNCHANGED <<pend, sockets, status, peer, budget>>

\* Back from comm_handle_io to the loop: signal_io is reset after the call,
\* signal_disconnected never is.  `f' are the flags the call leaves.
Return(f) ==
    /\ pc' = Test[caller].next
    /\ flag' = f \ ({caller} \cap {"io"})

------------------------------------------------------------------------------
(* wait_main                                                                *)

\* Mutant: signal_child is reset however the loop ends.
Exhausted_reset == flag' = flag \ {"child"}

\* The loop ends after MaxWait statuses: signal_child stays set.
Exhausted == UNCHANGED flag

\* while (count--)
MoreTurns == left > 0

\* One turn of the loop of wait_main.
wait_main ==
    /\ pc = "wait"
    /\ \/ ~MoreTurns /\ Exhausted /\ pc' = "io" /\ UNCHANGED <<left, status>>
       \/ MoreTurns /\ status > 0
          /\ status' = status - 1 /\ left' = left - 1 /\ UNCHANGED <<flag, pc>>
       \/ MoreTurns /\ status = 0
          /\ flag' = flag \ {"child"} /\ pc' = "io" /\ UNCHANGED <<left, status>>
    /\ UNCHANGED <<pend, armed, caller, sockets, peer, budget>>

------------------------------------------------------------------------------
(* communication.c                                                          *)

\* comm_answer: accept, and close the listening socket; or nobody is there.
\* A client that has gone already is accepted too.
comm_answer ==
    /\ pc = "handle_io" /\ ~conn
    /\ IF server /\ (client # "off" \/ wire # <<>>)
       THEN conn' = TRUE /\ server' = FALSE /\ pc' = "accepted"
            /\ UNCHANGED flag
       ELSE Return(flag) /\ UNCHANGED <<server, conn>>
    /\ UNCHANGED <<pend, armed, caller, left, async, status, peer, budget>>

\* comm_enable_async_io of the new connection
comm_enable_async_io ==
    /\ pc = "accepted" /\ async' = TRUE /\ Return(flag)
    /\ UNCHANGED <<pend, armed, caller, left, server, conn, status, peer, budget>>

\* Mutant: the payload is not waited for.
MustWait_nowait == FALSE

\* comm_read_raw polls on when it has read something or is told to wait.
MustWait == pc = "payload"

\* Mutant: the listening socket is not opened again.
comm_init_server_not == UNCHANGED <<server, budget>>

\* comm_init_server: it listens on port 9999 again, or cannot.
comm_init_server ==
    \/ server' = TRUE /\ UNCHANGED budget
    \/ /\ budget.fail > 0
       /\ budget' = [budget EXCEPT !.fail = @ - 1]
       /\ UNCHANGED server

\* comm_read_raw finds the connection shut down, or an error: it is closed,
\* and the server listens for another.
Disconnect ==
    /\ pc \in {"handle_io", "payload"} /\ conn
    /\ wire # <<>> /\ Head(wire) = "EOF"
    /\ wire' = Tail(wire) /\ heard' = FALSE
    /\ conn' = FALSE /\ async' = FALSE /\ comm_init_server
    /\ Return(flag)
    /\ UNCHANGED <<pend, armed, caller, left, status, client>>

\* comm_read_raw returns -1: there is no data, and none was promised.
NoData ==
    /\ pc \in {"handle_io", "payload"} /\ conn /\ wire = <<>> /\ ~MustWait
    /\ Return(flag)
    /\ UNCHANGED <<pend, armed, caller, left, sockets, status, peer, budget>>

\* comm_got_data reads the header, then the payload.
comm_got_data ==
    /\ conn /\ wire # <<>> /\ Head(wire) # "EOF"
    /\ \/ pc = "handle_io" /\ pc' = "payload"
       \/ pc = "payload" /\ pc' = Head(wire)
    /\ wire' = Tail(wire)
    /\ UNCHANGED <<pend, flag, armed, caller, left, sockets, status, client,
                   heard, budget>>

\* handle_packet and comm_send.  The client may be gone: writing then raises
\* SIGPIPE, or SIGIO when the reset arrives.
Respond ==
    /\ pc \in Requests
    /\ Return(IF pc = "QUIT" THEN flag \cup {"quit"} ELSE flag)
    /\ \/ client = "waiting" /\ client' = "idle" /\ UNCHANGED pend
       \/ client # "waiting" /\ UNCHANGED client
          /\ \E s \in {"PIPE", "IO"} : pend' = pend \cup {s}
    /\ UNCHANGED <<armed, caller, left, sockets, status, wire, heard, budget>>

Server == \/ Start \/ signal_wait \/ cleanup \/ loop \/ wait_main
          \/ comm_answer \/ comm_enable_async_io \/ Disconnect \/ NoData
          \/ comm_got_data \/ Respond

------------------------------------------------------------------------------
(* The kernel, the traced processes and the client                          *)

Spend(what) ==
    /\ budget[what] > 0
    /\ budget' = [budget EXCEPT ![what] = @ - 1]

idleServer == <<flag, pc, caller, left, sockets>>

\* Something arrives on the connection.
Arrive(piece) ==
    /\ wire' = Append(wire, piece)
    /\ heard' = async
    /\ pend' = IF async THEN pend \cup {"IO"} ELSE pend

\* A traced thread stops or dies.
ChildStatus ==
    /\ pc # "exited" /\ Spend("status")
    /\ status' = status + 1 /\ pend' = pend \cup {"CHLD"}
    /\ UNCHANGED <<armed, idleServer, peer>>

AlarmFires ==
    /\ armed /\ pc # "exited"
    /\ armed' = FALSE /\ pend' = pend \cup {"ALRM"}
    /\ UNCHANGED <<idleServer, status, peer, budget>>

\* Somebody sends SIGINT or SIGTERM.
Interrupt ==
    /\ pc \notin {"init", "exited"} /\ Spend("int")
    /\ pend' = pend \cup {"INT"}
    /\ UNCHANGED <<armed, idleServer, status, peer>>

\* The kernel completes the connection; the server accepts it later.
Connect ==
    /\ client = "off" /\ wire = <<>> /\ server /\ Spend("connect")
    /\ client' = "idle" /\ heard' = FALSE /\ pend' = pend \cup {"IO"}
    /\ UNCHANGED <<armed, idleServer, status, wire>>

SendHead ==
    /\ client = "idle" /\ Spend("request")
    /\ client' = "sending" /\ Arrive("head")
    /\ UNCHANGED <<armed, idleServer, status>>

SendPayload ==
    /\ client = "sending"
    /\ client' = "waiting" /\ \E r \in Requests : Arrive(r)
    /\ UNCHANGED <<armed, idleServer, status, budget>>

\* The client closes its socket or dies, whatever it was doing.
Close ==
    /\ client # "off"
    /\ client' = "off" /\ Arrive("EOF")
    /\ UNCHANGED <<armed, idleServer, status, budget>>

Next == \/ Server \/ ChildStatus \/ AlarmFires \/ Interrupt
        \/ Connect \/ SendHead \/ SendPayload \/ Close

Spec == Init /\ [][Next]_vars

\* The server runs, alarms go off, and a client that has begun to send a
\* request sends the rest (ReliableSocket.send loops) or closes.
FairSpec == /\ Spec /\ WF_vars(Server) /\ WF_vars(AlarmFires)
            /\ WF_vars(SendPayload \/ (client = "sending" /\ Close))

------------------------------------------------------------------------------
(* Properties                                                               *)

\* Every status is taken, although wait_main stops after MaxWait of them and
\* one SIGCHLD may stand for many: signal_child stays set, and the alarm wakes
\* the loop (adbiserver.c:63, wait.c:224).
StatusesHandled == status > 0 ~> (status = 0 \/ pc = "exited")

\* A request whose last piece raised SIGIO is answered, however TCP cuts it up
\* and whatever else wakes the server (communication.c:196).
RequestAnswered == (client = "waiting" /\ heard) ~> client # "waiting"

\* When a client goes away the server listens again and another can connect,
\* unless opening the socket failed (communication.c:244).
ListensAgain ==
    (conn /\ client = "off" /\ heard)
        ~> (server \/ budget.fail < MaxFails \/ pc = "exited")

\* SIGINT ends the server, even in the middle of a packet (adbiserver.c:44).
QuitEnds == "INT" \in pend ~> pc = "exited"

\* Without `heard': fails, because what arrives between accept and O_ASYNC
\* raises no signal (communication.c:152).
RequestAnsweredAlways == client = "waiting" ~> client # "waiting"
==============================================================================
