--------------------------- MODULE MainLoopProofs ---------------------------
(***************************************************************************)
(* Theorems about the event loop: TypeOK, that packets are never taken     *)
(* apart wrongly, and the part of its progress that is safety: whatever    *)
(* there is to do, a signal is pending or a flag is set that leads to it,  *)
(* and something wakes the loop.                                           *)
(***************************************************************************)
EXTENDS MainLoop, SequenceTheorems, TLAPS

------------------------------------------------------------------------------
(* What is proved                                                           *)

\* The server reads what the client sends in the pieces it was sent in: a
\* header is read as a header and its payload as the payload, also if the
\* client goes away in between, and nothing is left of a connection for the
\* next one (communication.c:166).
Framing ==
    /\ pc = "payload" =>
         \/ client = "sending" /\ wire = <<>>
         \/ client = "waiting" /\ \E r \in Requests : wire = <<r>>
         \/ client = "off" /\ wire = <<"EOF">>
         \/ client = "off" /\ \E r \in Requests : wire = <<r, "EOF">>
    /\ pc \in Requests =>
         \/ client = "waiting" /\ wire = <<>>
         \/ client = "off" /\ wire = <<"EOF">>
    /\ pc \notin Requests \cup {"payload"} =>
         \/ client \in {"idle", "off"} /\ wire = <<>>
         \/ client = "sending" /\ wire = <<"head">>
         \/ client = "waiting" /\ \E r \in Requests : wire = <<"head", r>>
         \/ client = "off" /\ wire \in {<<"EOF">>, <<"head", "EOF">>}
         \/ client = "off" /\ \E r \in Requests : wire = <<"head", r, "EOF">>

\* The sockets: the server listens or has a connection, never both; signals
\* come from a connection only when O_ASYNC is set; the end of a connection
\* that the client has closed is still to be read (communication.c:139).
Sockets ==
    /\ ~(server /\ conn)
    /\ async => conn
    /\ heard => async
    /\ pc \in Requests \cup {"accepted", "payload"} => conn
    /\ pc = "accepted" => ~async
    /\ pc = "init" => ~conn
    /\ conn /\ client = "off" => wire # <<>>

\* The server listens or has a connection, unless it is starting or has ended
\* or comm_init_server has failed (communication.c:244).
Reachable == server \/ conn \/ budget.fail < MaxFails \/ pc \in {"init", "exited"}

\* Where a status waits, SIGCHLD is pending or signal_child is set, also after
\* a wait_main that took MaxWait of them (wait.c:224).
StatusRemembered == status > 0 => "CHLD" \in pend \/ "child" \in flag \/ pc = "exited"

\* What arrived with a signal and was not read is not forgotten: the signal is
\* pending or its flag is set, or writing to the client has shown that it is
\* gone (communication.c:196).
RequestRemembered ==
    heard /\ wire # <<>> =>
        "IO" \in pend \/ "PIPE" \in pend \/ "io" \in flag \/ "disconnected" \in flag

\* A server that sleeps is woken by the alarm at the latest (adbiserver.c:63).
WakesUp == pc = "sigsuspend" => armed \/ "ALRM" \in pend

\* signal_quit is never reset: the server ends at the next turn of its loop
\* (adbiserver.c:44).
QuitStays == [][ "quit" \in flag => "quit" \in flag' ]_vars

------------------------------------------------------------------------------
(* The inductive invariant                                                  *)

\* The alarm is on its way.
AlarmAlive ==
    /\ pc \notin {"init", "exited"} => armed \/ "ALRM" \in pend \/ "alarm" \in flag
    /\ "alarm" \in flag => pc \notin {"init", "top", "sigsuspend", "exited"}

\* Every status was produced by a traced process.
Counted == status + budget.status <= MaxStatuses

IInv == /\ TypeOK /\ Counted /\ Framing /\ Sockets /\ Reachable
        /\ StatusRemembered /\ RequestRemembered /\ AlarmAlive

\* Sequences of one piece, of two and of three
LEMMA One ==
  ASSUME NEW x
  PROVE  Append(<<>>, x) = <<x>> /\ Head(<<x>>) = x /\ Tail(<<x>>) = <<>> /\ <<x>> # <<>>
<1>1. <<>> \in Seq({x}) /\ <<x>> \in Seq({x})
  OBVIOUS
<1>2. Append(<<>>, x) \in Seq({x}) /\ Len(Append(<<>>, x)) = 1 /\ Append(<<>>, x)[1] = x
  BY <1>1
<1>3. Append(<<>>, x) = <<x>>
  BY <1>1, <1>2, SeqEqual
<1>4. Head(<<x>>) = x /\ Tail(<<x>>) = <<>> /\ <<x>> # <<>>
  OBVIOUS
<1> QED BY <1>3, <1>4

\* A sequence of two pieces
LEMMA Two ==
  ASSUME NEW x, NEW y
  PROVE  /\ Append(<<x>>, y) = <<x, y>> /\ Head(<<x, y>>) = x /\ Tail(<<x, y>>) = <<y>>
         /\ <<x, y>> # <<>>
<1> DEFINE all == {x, y}
           t == Append(<<x>>, y)
           u == <<x, y>>
<1>1. /\ t \in Seq(all) /\ u \in Seq(all) /\ Len(t) = 2 /\ Len(u) = 2
      /\ t[1] = u[1] /\ t[2] = u[2]
  OBVIOUS
<1>2. Head(u) = x /\ Tail(u) = <<y>> /\ u # <<>>
  OBVIOUS
<1> HIDE DEF all, t, u
<1>3. \A i \in 1..Len(t) : t[i] = u[i]
  BY <1>1
<1>4. t = u
  BY <1>1, <1>3, SeqEqual
<1> QED BY <1>2, <1>4, Zenon DEF t, u

\* A sequence of three pieces
LEMMA Three ==
  ASSUME NEW x, NEW y, NEW z
  PROVE  /\ Append(<<x, y>>, z) = <<x, y, z>> /\ Head(<<x, y, z>>) = x
         /\ Tail(<<x, y, z>>) = <<y, z>> /\ <<x, y, z>> # <<>>
<1> DEFINE all == {x, y, z}
           t == Append(<<x, y>>, z)
           u == <<x, y, z>>
<1>1. /\ t \in Seq(all) /\ u \in Seq(all) /\ Len(t) = 3 /\ Len(u) = 3
      /\ t[1] = u[1] /\ t[2] = u[2] /\ t[3] = u[3]
  OBVIOUS
<1>2. Head(u) = x /\ Tail(u) = <<y, z>> /\ u # <<>>
  OBVIOUS
<1> HIDE DEF all, t, u
<1>3. \A i \in 1..Len(t) : t[i] = u[i]
  BY <1>1
<1>4. t = u
  BY <1>1, <1>3, SeqEqual
<1> QED BY <1>2, <1>4, Zenon DEF t, u

\* The server starts without work.
LEMMA InitInv == Init => IInv
<1> SUFFICES ASSUME Init PROVE IInv
  OBVIOUS
<1>1. TypeOK /\ Counted
  <2>1. /\ budget \in [status : 0..MaxStatuses, request : 0..MaxRequests,
                       connect : 0..MaxConnects, fail : 0..MaxFails, int : 0..1]
        /\ status + budget.status <= MaxStatuses
    BY BoundsAssumption DEF Init
  <2>2. left \in 0..MaxWait /\ status \in 0..MaxStatuses
    BY BoundsAssumption DEF Init
  <2>3. wire \in Seq(Pieces) /\ pc \in Labels /\ client \in ClientStates
    BY DEF Init, Labels, ClientStates
  <2> QED BY <2>1, <2>2, <2>3 DEF Init, TypeOK, Counted
<1>2. Framing /\ Sockets /\ Reachable
  BY DEF Init, Framing, Sockets, Reachable, Requests
<1>3. StatusRemembered /\ RequestRemembered /\ AlarmAlive
  BY DEF Init, StatusRemembered, RequestRemembered, AlarmAlive
<1> QED BY <1>1, <1>2, <1>3 DEF IInv

\* Back in the loop
LEMMA Returns ==
  ASSUME TypeOK, NEW f, Return(f)
  PROVE  pc' \in {"disconnected", "alarm"} /\ flag' = f \ ({caller} \cap {"io"})
BY DEF TypeOK, Return, Test

\* What is on its way when a header, a payload or the end is read
LEMMA HeaderRead ==
  ASSUME Framing, pc = "handle_io", wire # <<>>, Head(wire) # "EOF"
  PROVE  \/ client = "sending" /\ Tail(wire) = <<>>
         \/ client = "waiting" /\ \E r \in Requests : Tail(wire) = <<r>>
         \/ client = "off" /\ Tail(wire) = <<"EOF">>
         \/ client = "off" /\ \E r \in Requests : Tail(wire) = <<r, "EOF">>
<1>0. pc \notin Requests \cup {"payload"}
  BY DEF Requests
<1>1. \/ client = "sending" /\ wire = <<"head">>
      \/ client = "waiting" /\ \E r \in Requests : wire = <<"head", r>>
      \/ client = "off" /\ (wire = <<"EOF">> \/ wire = <<"head", "EOF">>)
      \/ client = "off" /\ \E r \in Requests : wire = <<"head", r, "EOF">>
  BY <1>0, Zenon DEF Framing
<1>2. Head(<<"EOF">>) = "EOF" /\ Tail(<<"head">>) = <<>>
  BY One
<1>3. \A r : Tail(<<"head", r>>) = <<r>>
  BY Two, Zenon
<1>4. ASSUME NEW r PROVE Tail(<<"head", r, "EOF">>) = <<r, "EOF">>
  BY Three
<1> QED BY <1>1, <1>2, <1>3, <1>4, Zenon

\* After a payload there is nothing, or the end.
LEMMA PayloadRead ==
  ASSUME Framing, pc = "payload", wire # <<>>, Head(wire) # "EOF"
  PROVE  /\ Head(wire) \in Requests
         /\ \/ client = "waiting" /\ Tail(wire) = <<>>
            \/ client = "off" /\ Tail(wire) = <<"EOF">>
<1>1. \/ client = "waiting" /\ \E r \in Requests : wire = <<r>>
      \/ client = "off" /\ wire = <<"EOF">>
      \/ client = "off" /\ \E r \in Requests : wire = <<r, "EOF">>
  BY Zenon DEF Framing
<1>2. \A r : Head(<<r>>) = r /\ Tail(<<r>>) = <<>>
  BY One, Zenon
<1>3. \A r : Head(<<r, "EOF">>) = r /\ Tail(<<r, "EOF">>) = <<"EOF">>
  BY Two, Zenon
<1> QED BY <1>1, <1>2, <1>3, Zenon

\* The end is the last piece.
LEMMA EndRead ==
  ASSUME Framing, pc \in {"handle_io", "payload"}, wire # <<>>, Head(wire) = "EOF"
  PROVE  client = "off" /\ Tail(wire) = <<>>
<1>0. "head" # "EOF" /\ \A r \in Requests : r # "EOF"
  BY DEF Requests
<1>1. \A r : Head(<<r>>) = r /\ Tail(<<r>>) = <<>>
  BY One, Zenon
<1>2. \A r, s : Head(<<r, s>>) = r
  BY Two, Zenon
<1>3. ASSUME NEW r, NEW s PROVE Head(<<r, s, "EOF">>) = r
  BY Three
<1>4. CASE pc = "payload"
  <2>1. \/ client = "waiting" /\ \E r \in Requests : wire = <<r>>
        \/ client = "off" /\ wire = <<"EOF">>
        \/ client = "off" /\ \E r \in Requests : wire = <<r, "EOF">>
    BY <1>4, Zenon DEF Framing
  <2>2. ASSUME NEW r \in Requests PROVE wire # <<r>> /\ wire # <<r, "EOF">>
    <3>1. r # "EOF" /\ Head(<<r>>) = r /\ Head(<<r, "EOF">>) = r
      BY <1>0, <1>1, <1>2
    <3> QED BY <3>1, Zenon
  <2>3. client = "off" /\ wire = <<"EOF">>
    BY <2>1, <2>2, Zenon
  <2> QED BY <1>1, <2>3, Zenon
<1>5. CASE pc = "handle_io"
  <2>0. pc \notin Requests \cup {"payload"}
    BY <1>5 DEF Requests
  <2>1. \/ client = "sending" /\ wire = <<"head">>
        \/ client = "waiting" /\ \E r \in Requests : wire = <<"head", r>>
        \/ client = "off" /\ (wire = <<"EOF">> \/ wire = <<"head", "EOF">>)
        \/ client = "off" /\ \E r \in Requests : wire = <<"head", r, "EOF">>
    BY <2>0, Zenon DEF Framing
  <2> QED BY <1>0, <1>1, <1>2, <1>3, <2>1, Zenon
<1> QED BY <1>4, <1>5

\* The wire, by the state of the client
LEMMA WireIs ==
  ASSUME TypeOK, Framing
  PROVE  /\ client = "idle" => wire = <<>> /\ pc \notin Requests \cup {"payload"}
         /\ client = "sending" =>
              \/ pc = "payload" /\ wire = <<>>
              \/ pc \notin Requests \cup {"payload"} /\ wire = <<"head">>
         /\ client = "off" /\ wire = <<>> => pc \notin Requests \cup {"payload"}
         /\ pc \in Requests => (client = "waiting" /\ wire = <<>>) \/ client = "off"
<1>1. /\ client \in {"idle", "sending", "off"} => client # "waiting"
      /\ client = "idle" => client # "sending" /\ client # "off"
      /\ client = "sending" => client # "off" /\ client # "idle"
      /\ client = "off" => client # "sending"
  OBVIOUS
<1>2. \A r : <<r>> # <<>> /\ <<r, "EOF">> # <<>>
  BY One, Two, Zenon
<1>3. client = "idle" => wire = <<>> /\ pc \notin Requests \cup {"payload"}
  BY <1>1, Zenon DEF Framing
<1>4. client = "sending" => \/ pc = "payload" /\ wire = <<>>
                            \/ pc \notin Requests \cup {"payload"} /\ wire = <<"head">>
  BY <1>1, Zenon DEF Framing
<1>5. client = "off" /\ wire = <<>> => pc \notin Requests \cup {"payload"}
  BY <1>1, <1>2, Zenon DEF Framing
<1>6. pc \in Requests => (client = "waiting" /\ wire = <<>>) \/ client = "off"
  BY Zenon DEF Framing
<1> QED BY <1>3, <1>4, <1>5, <1>6

\* One arrival
LEMMA Arrives ==
  ASSUME TypeOK, NEW piece \in Pieces, Arrive(piece)
  PROVE  /\ wire' \in Seq(Pieces) /\ heard' \in BOOLEAN /\ pend' \subseteq Signals
         /\ pend \subseteq pend'
         /\ heard' => async /\ "IO" \in pend'
BY DEF TypeOK, Arrive, Signals

\* The end after everything else
LEMMA ArrivesLast ==
  ASSUME Framing, TypeOK, client # "off"
  PROVE  /\ pc = "payload" => \/ Append(wire, "EOF") = <<"EOF">>
                              \/ \E r \in Requests : Append(wire, "EOF") = <<r, "EOF">>
         /\ pc \in Requests => Append(wire, "EOF") = <<"EOF">>
         /\ pc \notin Requests \cup {"payload"} =>
              \/ Append(wire, "EOF") \in {<<"EOF">>, <<"head", "EOF">>}
              \/ \E r \in Requests : Append(wire, "EOF") = <<"head", r, "EOF">>
<1>1. Append(<<>>, "EOF") = <<"EOF">>
  BY One
<1>2. \A r : Append(<<r>>, "EOF") = <<r, "EOF">>
  BY Two, Zenon
<1>3. ASSUME NEW r PROVE Append(<<"head", r>>, "EOF") = <<"head", r, "EOF">>
  BY Three
<1>4. pc = "payload" => \/ Append(wire, "EOF") = <<"EOF">>
                        \/ \E r \in Requests : Append(wire, "EOF") = <<r, "EOF">>
  BY <1>1, <1>2, Zenon DEF Framing
<1>5. pc \in Requests => Append(wire, "EOF") = <<"EOF">>
  BY <1>1, Zenon DEF Framing
<1>6. pc \notin Requests \cup {"payload"} =>
         \/ Append(wire, "EOF") \in {<<"EOF">>, <<"head", "EOF">>}
         \/ \E r \in Requests : Append(wire, "EOF") = <<"head", r, "EOF">>
  BY <1>1, <1>2, <1>3, Zenon DEF Framing
<1> QED BY <1>4, <1>5, <1>6




------------------------------------------------------------------------------
(* One lemma for each action                                                *)

\* TypeOK in parts
LEMMA TypeParts ==
  ASSUME pend' \subseteq Signals, flag' \subseteq Flags, armed' \in BOOLEAN, pc' \in Labels,
         caller' \in {"io", "disconnected"}, left' \in 0..MaxWait,
         server' \in BOOLEAN, conn' \in BOOLEAN, async' \in BOOLEAN,
         client' \in ClientStates, heard' \in BOOLEAN, wire' \in Seq(Pieces),
         status' \in 0..MaxStatuses,
         budget' \in [status : 0..MaxStatuses, request : 0..MaxRequests,
                      connect : 0..MaxConnects, fail : 0..MaxFails, int : 0..1]
  PROVE  TypeOK'
BY DEF TypeOK

\* One unit of the budget is spent.
LEMMA Spent ==
  ASSUME TypeOK, NEW what \in {"status", "request", "connect", "int"}, Spend(what)
  PROVE  /\ budget' \in [status : 0..MaxStatuses, request : 0..MaxRequests,
                       connect : 0..MaxConnects, fail : 0..MaxFails, int : 0..1]
         /\ budget'.fail = budget.fail
         /\ what # "status" => budget'.status = budget.status
         /\ what = "status" => budget'.status = budget.status - 1
<1> USE BoundsAssumption DEF TypeOK, Spend
<1>1. CASE what = "status"
  BY <1>1
<1>2. CASE what = "request"
  BY <1>2
<1>3. CASE what = "connect"
  BY <1>3
<1>4. CASE what = "int"
  BY <1>4
<1> QED BY <1>1, <1>2, <1>3, <1>4

\* The server starts.
LEMMA StartInv == IInv /\ Start => IInv'
<1> SUFFICES ASSUME IInv, Start PROVE IInv'
  OBVIOUS
<1> USE DEF IInv, sockets, peer, idleServer
<1>0. pend' = pend /\ flag' = flag /\ wire' = wire /\ pc' \in {"top", "exited"}
  BY DEF Start
<1>1. TypeOK' /\ Counted'
  BY <1>0, TypeParts, BoundsAssumption DEF Start, TypeOK, Counted, Labels, ClientStates, Signals, Flags, Requests
<1>2. Framing'
  BY <1>0 DEF Start, Framing, Requests
<1>3. Sockets' /\ Reachable'
  BY <1>0, BoundsAssumption DEF Start, TypeOK, Sockets, Reachable, Requests
<1>4. StatusRemembered' /\ RequestRemembered'
  BY <1>0 DEF Start, TypeOK, StatusRemembered, RequestRemembered, Sockets, Framing, Requests
<1>5. AlarmAlive'
  BY <1>0 DEF Start, TypeOK, AlarmAlive, Requests
<1> QED BY <1>1, <1>2, <1>3, <1>4, <1>5

\* Every pending signal becomes a flag.
LEMMA signal_waitInv == IInv /\ signal_wait => IInv'
<1> SUFFICES ASSUME IInv, signal_wait PROVE IInv'
  OBVIOUS
<1> USE DEF IInv, sockets, peer, idleServer
<1>0. /\ flag \subseteq flag' /\ flag' \subseteq Flags
      /\ "CHLD" \in pend => "child" \in flag'
      /\ "IO" \in pend => "io" \in flag'
      /\ "PIPE" \in pend => "disconnected" \in flag'
      /\ "ALRM" \in pend => "alarm" \in flag'
  <2>1. \A s \in pend : signal_handler(s) \subseteq flag'
    BY DEF signal_wait
  <2>2. \A s \in Signals : signal_handler(s) \subseteq Flags
    BY DEF signal_handler, Signals, Flags
  <2>3. flag \subseteq flag' /\ flag' \subseteq Flags
    BY <2>2 DEF signal_wait, TypeOK
  <2>4. /\ signal_handler("CHLD") = {"child"} /\ signal_handler("IO") = {"io"}
        /\ signal_handler("PIPE") = {"disconnected"} /\ signal_handler("ALRM") = {"alarm"}
    BY DEF signal_handler
  <2> QED BY <2>1, <2>3, <2>4
<1>1. TypeOK' /\ Counted'
  BY <1>0, TypeParts, BoundsAssumption DEF signal_wait, TypeOK, Counted, Labels, ClientStates, Signals, Flags, Requests
<1>2. Framing'
  BY <1>0 DEF signal_wait, Framing, Requests
<1>3. Sockets' /\ Reachable'
  BY <1>0, BoundsAssumption DEF signal_wait, TypeOK, Sockets, Reachable, Requests
<1>4. StatusRemembered' /\ RequestRemembered'
  BY <1>0 DEF signal_wait, TypeOK, StatusRemembered, RequestRemembered, Sockets, Framing, Requests
<1>5. AlarmAlive'
  BY <1>0 DEF signal_wait, TypeOK, AlarmAlive, Requests
<1> QED BY <1>1, <1>2, <1>3, <1>4, <1>5

\* The server ends.
LEMMA cleanupInv == IInv /\ cleanup => IInv'
<1> SUFFICES ASSUME IInv, cleanup PROVE IInv'
  OBVIOUS
<1> USE DEF IInv, sockets, peer, idleServer
<1>0. pc' = "exited" /\ wire' = <<>> /\ client' = "off" /\ <<>> \in Seq(Pieces)
  BY DEF cleanup
<1>1. TypeOK' /\ Counted'
  BY <1>0, TypeParts, BoundsAssumption DEF cleanup, TypeOK, Counted, Labels, ClientStates, Signals, Flags, Requests
<1>2. Framing'
  BY <1>0 DEF cleanup, Framing, Requests
<1>3. Sockets' /\ Reachable'
  BY <1>0, BoundsAssumption DEF cleanup, TypeOK, Sockets, Reachable, Requests
<1>4. StatusRemembered' /\ RequestRemembered'
  BY <1>0 DEF cleanup, TypeOK, StatusRemembered, RequestRemembered, Sockets, Framing, Requests
<1>5. AlarmAlive'
  BY <1>0 DEF cleanup, TypeOK, AlarmAlive, Requests
<1> QED BY <1>1, <1>2, <1>3, <1>4, <1>5

\* A flag is looked at.
LEMMA loopInv == IInv /\ loop => IInv'
<1> SUFFICES ASSUME IInv, loop PROVE IInv'
  OBVIOUS
<1> USE DEF IInv, sockets, peer, idleServer
<1>0. /\ pc \notin {"init", "exited", "payload"} \cup Requests
      /\ pc' \in {"sigsuspend", "wait", "io", "handle_io", "disconnected", "alarm", "top"}
      /\ left' \in {left, MaxWait} /\ caller' \in {caller, "io", "disconnected"}
      /\ pc = "alarm" => /\ pc' = "top" /\ flag' = flag \ {"alarm"}
                         /\ armed' = (armed \/ "alarm" \in flag)
      /\ pc # "alarm" => flag' = flag /\ armed' = armed /\ pc' # "top"
      /\ pc' = "sigsuspend" => pc = "top"
      /\ UNCHANGED <<pend, sockets, status, peer, budget>>
  <2>1. CASE pc = "top" /\ pc' = "sigsuspend" /\ UNCHANGED <<flag, armed, caller, left>>
    BY <2>1 DEF loop, Requests
  <2>2. CASE /\ pc \in DOMAIN Test
             /\ pc' = IF pc \in flag THEN Test[pc].call ELSE Test[pc].next
             /\ left' = IF pc = "child" THEN MaxWait ELSE left
             /\ caller' = IF pc = "child" THEN caller ELSE pc
             /\ UNCHANGED <<flag, armed>>
    <3>1. pc \in {"child", "io", "disconnected"}
      BY <2>2 DEF Test
    <3>2. pc' \in {"wait", "io", "handle_io", "disconnected", "alarm"}
      BY <2>2, <3>1 DEF Test
    <3>3. left' \in {left, MaxWait} /\ caller' \in {caller, "io", "disconnected"}
      BY <2>2, <3>1
    <3> QED BY <2>2, <3>1, <3>2, <3>3 DEF loop, Requests
  <2>3. CASE /\ pc = "alarm" /\ pc' = "top"
             /\ armed' = (armed \/ Rearm) /\ flag' = flag \ {"alarm"}
             /\ UNCHANGED <<caller, left>>
    BY <2>3 DEF loop, Requests, Rearm
  <2> QED BY <2>1, <2>2, <2>3, Zenon DEF loop
<1>a. /\ flag' \subseteq Flags /\ armed' \in BOOLEAN /\ left' \in 0..MaxWait
      /\ caller' \in {"io", "disconnected"} /\ pc' \in Labels
  <2>1. flag' \subseteq Flags /\ left' \in 0..MaxWait
    BY <1>0, BoundsAssumption DEF TypeOK
  <2>2. caller' \in {"io", "disconnected"} /\ pc' \in Labels
    BY <1>0 DEF TypeOK, Labels
  <2>3. armed' \in BOOLEAN
    BY <1>0, Zenon DEF TypeOK
  <2> QED BY <2>1, <2>2, <2>3
<1>1. TypeOK' /\ Counted'
  BY <1>0, <1>a, TypeParts, BoundsAssumption DEF TypeOK, Counted, Labels, ClientStates, Signals, Flags, Requests
<1>2. Framing'
  BY <1>0, <1>a DEF Framing, Requests
<1>3. Sockets' /\ Reachable'
  BY <1>0, <1>a, BoundsAssumption DEF TypeOK, Sockets, Reachable, Requests
<1>4. StatusRemembered' /\ RequestRemembered'
  BY <1>0, <1>a DEF TypeOK, StatusRemembered, RequestRemembered, Sockets, Framing, Requests
<1>5. AlarmAlive'
  BY <1>0, <1>a DEF TypeOK, AlarmAlive, Requests
<1> QED BY <1>1, <1>2, <1>3, <1>4, <1>5

\* A status is taken, or there are no more.
LEMMA wait_mainInv == IInv /\ wait_main => IInv'
<1> SUFFICES ASSUME IInv, wait_main PROVE IInv'
  OBVIOUS
<1> USE DEF IInv, sockets, peer, idleServer
<1>0. /\ pc = "wait" /\ pc' \in {"wait", "io"}
      /\ flag' = flag \/ (flag' = flag \ {"child"} /\ status = 0)
      /\ status' \in 0..status /\ left' \in 0..left /\ flag' \subseteq flag
      /\ UNCHANGED <<pend, armed, caller, sockets, peer, budget>>
  BY DEF wait_main, MoreTurns, Exhausted, TypeOK
<1>a. /\ status' \in 0..MaxStatuses /\ left' \in 0..MaxWait
      /\ status' + budget.status <= MaxStatuses
  BY <1>0, BoundsAssumption DEF TypeOK, Counted
<1>1. TypeOK' /\ Counted'
  BY <1>0, <1>a, TypeParts, BoundsAssumption DEF TypeOK, Counted, Labels, ClientStates, Signals, Flags, Requests
<1>2. Framing'
  BY <1>0, <1>a DEF Framing, Requests
<1>3. Sockets' /\ Reachable'
  BY <1>0, <1>a, BoundsAssumption DEF TypeOK, Sockets, Reachable, Requests
<1>4. StatusRemembered' /\ RequestRemembered'
  BY <1>0, <1>a DEF TypeOK, StatusRemembered, RequestRemembered, Sockets, Framing, Requests
<1>5. AlarmAlive'
  BY <1>0, <1>a DEF TypeOK, AlarmAlive, Requests
<1> QED BY <1>1, <1>2, <1>3, <1>4, <1>5

\* A client is accepted.
LEMMA comm_answerInv == IInv /\ comm_answer => IInv'
<1> SUFFICES ASSUME IInv, comm_answer PROVE IInv'
  OBVIOUS
<1> USE DEF IInv, sockets, peer, idleServer
<1>0. /\ pc = "handle_io" /\ ~conn /\ flag' \subseteq flag
      /\ \/ /\ conn' = TRUE /\ server' = FALSE /\ pc' = "accepted" /\ flag' = flag
            /\ client # "off" \/ wire # <<>>
         \/ /\ pc' \in {"disconnected", "alarm"} /\ flag' = flag \ ({caller} \cap {"io"})
            /\ UNCHANGED <<server, conn>>
      /\ UNCHANGED <<pend, armed, caller, left, async, status, peer, budget>>
  <2>1. Return(flag) => pc' \in {"disconnected", "alarm"} /\ flag' = flag \ ({caller} \cap {"io"})
    BY Returns, Zenon
  <2> QED BY <2>1 DEF comm_answer
<1>1. TypeOK' /\ Counted'
  BY <1>0, TypeParts, BoundsAssumption DEF TypeOK, Counted, Labels, ClientStates, Signals, Flags, Requests
<1>2. Framing'
  BY <1>0 DEF Framing, Requests
<1>3. Sockets' /\ Reachable'
  BY <1>0, BoundsAssumption DEF TypeOK, Sockets, Reachable, Requests
<1>4. StatusRemembered' /\ RequestRemembered'
  BY <1>0 DEF TypeOK, StatusRemembered, RequestRemembered, Sockets, Framing, Requests
<1>5. AlarmAlive'
  BY <1>0 DEF TypeOK, AlarmAlive, Requests
<1> QED BY <1>1, <1>2, <1>3, <1>4, <1>5

\* Signals come from the connection from now on.
LEMMA comm_enable_async_ioInv == IInv /\ comm_enable_async_io => IInv'
<1> SUFFICES ASSUME IInv, comm_enable_async_io PROVE IInv'
  OBVIOUS
<1> USE DEF IInv, sockets, peer, idleServer
<1>0. pc' \in {"disconnected", "alarm"} /\ flag' = flag \ ({caller} \cap {"io"})
  BY Returns DEF comm_enable_async_io
<1>1. TypeOK' /\ Counted'
  BY <1>0, TypeParts, BoundsAssumption DEF comm_enable_async_io, TypeOK, Counted, Labels, ClientStates, Signals, Flags, Requests
<1>2. Framing'
  BY <1>0 DEF comm_enable_async_io, Framing, Requests
<1>3. Sockets' /\ Reachable'
  BY <1>0, BoundsAssumption DEF comm_enable_async_io, TypeOK, Sockets, Reachable, Requests
<1>4. StatusRemembered' /\ RequestRemembered'
  BY <1>0 DEF comm_enable_async_io, TypeOK, StatusRemembered, RequestRemembered, Sockets, Framing, Requests
<1>5. AlarmAlive'
  BY <1>0 DEF comm_enable_async_io, TypeOK, AlarmAlive, Requests
<1> QED BY <1>1, <1>2, <1>3, <1>4, <1>5

\* The end of the connection is the last piece.
LEMMA DisconnectInv == IInv /\ Disconnect => IInv'
<1> SUFFICES ASSUME IInv, Disconnect PROVE IInv'
  OBVIOUS
<1> USE DEF IInv, sockets, peer, idleServer
<1>0. /\ pc' \in {"disconnected", "alarm"} /\ flag' = flag \ ({caller} \cap {"io"})
      /\ client' = "off" /\ wire' = <<>> /\ <<>> \in Seq(Pieces)
      /\ conn' = FALSE /\ async' = FALSE /\ heard' = FALSE
      /\ UNCHANGED <<pend, armed, caller, left, status>>
  BY Returns, EndRead DEF Disconnect
<1>a. /\ server' \in BOOLEAN
      /\ budget' \in [status : 0..MaxStatuses, request : 0..MaxRequests,
                      connect : 0..MaxConnects, fail : 0..MaxFails, int : 0..1]
      /\ budget'.status = budget.status
      /\ server' \/ budget'.fail < MaxFails
  <2>1. CASE server' = TRUE /\ UNCHANGED budget
    BY <2>1 DEF TypeOK
  <2>2. CASE budget.fail > 0 /\ budget' = [budget EXCEPT !.fail = @ - 1] /\ UNCHANGED server
    <3>1. budget.fail - 1 \in 0..MaxFails /\ budget.fail - 1 < MaxFails
      BY <2>2, BoundsAssumption DEF TypeOK
    <3>2. budget'.fail = budget.fail - 1 /\ budget'.status = budget.status
      BY <2>2 DEF TypeOK
    <3>3. budget' \in [status : 0..MaxStatuses, request : 0..MaxRequests,
                      connect : 0..MaxConnects, fail : 0..MaxFails, int : 0..1]
      BY <2>2, <3>1 DEF TypeOK
    <3> QED BY <2>2, <3>1, <3>2, <3>3 DEF TypeOK
  <2> QED BY <2>1, <2>2 DEF Disconnect, comm_init_server
<1>1. TypeOK' /\ Counted'
  BY <1>0, <1>a, TypeParts, BoundsAssumption DEF Disconnect, comm_init_server, TypeOK, Counted, Labels, ClientStates, Signals, Flags, Requests
<1>2. Framing'
  BY <1>0, <1>a DEF Disconnect, comm_init_server, Framing, Requests
<1>3. Sockets' /\ Reachable'
  BY <1>0, <1>a, BoundsAssumption DEF Disconnect, comm_init_server, TypeOK, Sockets, Reachable, Requests
<1>4. StatusRemembered' /\ RequestRemembered'
  BY <1>0, <1>a DEF Disconnect, comm_init_server, TypeOK, StatusRemembered, RequestRemembered, Sockets, Framing, Requests
<1>5. AlarmAlive'
  BY <1>0, <1>a DEF Disconnect, comm_init_server, TypeOK, AlarmAlive, Requests
<1> QED BY <1>1, <1>2, <1>3, <1>4, <1>5

\* Nothing was left unread.
LEMMA NoDataInv == IInv /\ NoData => IInv'
<1> SUFFICES ASSUME IInv, NoData PROVE IInv'
  OBVIOUS
<1> USE DEF IInv, sockets, peer, idleServer
<1>0. pc' \in {"disconnected", "alarm"} /\ flag' = flag \ ({caller} \cap {"io"})
  BY Returns DEF NoData
<1>1. TypeOK' /\ Counted'
  BY <1>0, TypeParts, BoundsAssumption DEF NoData, MustWait, TypeOK, Counted, Labels, ClientStates, Signals, Flags, Requests
<1>2. Framing'
  BY <1>0 DEF NoData, MustWait, Framing, Requests
<1>3. Sockets' /\ Reachable'
  BY <1>0, BoundsAssumption DEF NoData, MustWait, TypeOK, Sockets, Reachable, Requests
<1>4. StatusRemembered' /\ RequestRemembered'
  BY <1>0 DEF NoData, MustWait, TypeOK, StatusRemembered, RequestRemembered, Sockets, Framing, Requests
<1>5. AlarmAlive'
  BY <1>0 DEF NoData, MustWait, TypeOK, AlarmAlive, Requests
<1> QED BY <1>1, <1>2, <1>3, <1>4, <1>5

\* A piece is read.
LEMMA comm_got_dataInv == IInv /\ comm_got_data => IInv'
<1> SUFFICES ASSUME IInv, comm_got_data PROVE IInv'
  OBVIOUS
<1> USE DEF IInv, sockets, peer, idleServer
<1>0. /\ conn /\ wire # <<>> /\ wire' \in Seq(Pieces)
      /\ pc = "handle_io" => pc' = "payload"
      /\ pc = "payload" => pc' \in Requests
      /\ pc \in {"handle_io", "payload"}
      /\ UNCHANGED <<pend, flag, armed, caller, left, sockets, status, client, heard, budget>>
  BY PayloadRead DEF comm_got_data, TypeOK
<1>1. TypeOK' /\ Counted'
  BY <1>0, TypeParts, BoundsAssumption DEF TypeOK, Counted, Labels, ClientStates, Signals, Flags, Requests
<1>2. Framing'
  <2>1. CASE pc = "handle_io"
    <3>1. pc' = "payload" /\ pc' \notin Requests
      BY <1>0, <2>1 DEF Requests
    <3>2. \/ client = "sending" /\ wire' = <<>>
          \/ client = "waiting" /\ \E r \in Requests : wire' = <<r>>
          \/ client = "off" /\ wire' = <<"EOF">>
          \/ client = "off" /\ \E r \in Requests : wire' = <<r, "EOF">>
      BY <2>1, HeaderRead DEF comm_got_data
    <3> QED BY <1>0, <3>1, <3>2, Zenon DEF Framing
  <2>2. CASE pc = "payload"
    <3>1. pc' \in Requests /\ pc' # "payload"
      BY <1>0, <2>2 DEF Requests
    <3>2. \/ client = "waiting" /\ wire' = <<>>
          \/ client = "off" /\ wire' = <<"EOF">>
      BY <2>2, PayloadRead DEF comm_got_data
    <3> QED BY <1>0, <3>1, <3>2, Zenon DEF Framing
  <2> QED BY <1>0, <2>1, <2>2
<1>a. client = "off" => wire' # <<>>
  <2>1. client = "off" => wire' = <<"EOF">> \/ \E r \in Requests : wire' = <<r, "EOF">>
    BY <1>0, HeaderRead, PayloadRead DEF comm_got_data
  <2>2. <<"EOF">> # <<>> /\ \A r : <<r, "EOF">> # <<>>
    BY One, Two
  <2> QED BY <2>1, <2>2, Zenon
<1>3. Sockets' /\ Reachable'
  BY <1>0, <1>a, BoundsAssumption DEF TypeOK, Sockets, Reachable, Requests
<1>4. StatusRemembered' /\ RequestRemembered'
  BY <1>0 DEF TypeOK, StatusRemembered, RequestRemembered, Sockets, Framing, Requests
<1>5. AlarmAlive'
  BY <1>0 DEF TypeOK, AlarmAlive, Requests
<1> QED BY <1>1, <1>2, <1>3, <1>4, <1>5

\* The client waits for the answer, or has closed the connection.
LEMMA RespondInv == IInv /\ Respond => IInv'
<1> SUFFICES ASSUME IInv, Respond PROVE IInv'
  OBVIOUS
<1> USE DEF IInv, sockets, peer, idleServer
<1>0. /\ pc \in Requests /\ pc' \in {"disconnected", "alarm"}
      /\ flag' = (IF pc = "QUIT" THEN flag \cup {"quit"} ELSE flag) \ ({caller} \cap {"io"})
      /\ UNCHANGED <<armed, caller, left, sockets, status, wire, heard, budget>>
  BY Returns DEF Respond
<1>a. /\ pend \subseteq pend' /\ pend' \subseteq Signals
      /\ \/ client = "waiting" /\ wire = <<>> /\ client' = "idle"
         \/ client = "off" /\ client' = "off" /\ ("IO" \in pend' \/ "PIPE" \in pend')
  <2>1. (client = "waiting" /\ wire = <<>>) \/ client = "off"
    BY <1>0, WireIs
  <2> QED BY <2>1 DEF Respond, TypeOK, Signals
<1>1. TypeOK' /\ Counted'
  BY <1>0, <1>a, TypeParts, BoundsAssumption DEF TypeOK, Counted, Labels, ClientStates, Signals, Flags, Requests
<1>2. Framing'
  BY <1>0, <1>a DEF Framing, Requests
<1>3. Sockets' /\ Reachable'
  BY <1>0, <1>a, BoundsAssumption DEF TypeOK, Sockets, Reachable, Requests
<1>4. StatusRemembered' /\ RequestRemembered'
  BY <1>0, <1>a DEF TypeOK, StatusRemembered, RequestRemembered, Sockets, Framing, Requests
<1>5. AlarmAlive'
  BY <1>0, <1>a DEF TypeOK, AlarmAlive, Requests
<1> QED BY <1>1, <1>2, <1>3, <1>4, <1>5

\* SIGCHLD comes with a status.
LEMMA ChildStatusInv == IInv /\ ChildStatus => IInv'
<1> SUFFICES ASSUME IInv, ChildStatus PROVE IInv'
  OBVIOUS
<1> USE DEF IInv, sockets, peer, idleServer
<1>0. /\ pc # "exited" /\ "CHLD" \in pend' /\ pend' = pend \cup {"CHLD"}
      /\ UNCHANGED <<armed, idleServer, peer>> /\ status' = status + 1
      /\ budget' \in [status : 0..MaxStatuses, request : 0..MaxRequests,
                      connect : 0..MaxConnects, fail : 0..MaxFails, int : 0..1]
      /\ budget'.fail = budget.fail /\ budget'.status = budget.status - 1
  BY Spent DEF ChildStatus
<1>1. TypeOK' /\ Counted'
  BY <1>0, TypeParts, BoundsAssumption DEF TypeOK, Counted, Labels, ClientStates, Signals, Flags, Requests
<1>2. Framing'
  BY <1>0 DEF Framing, Requests
<1>3. Sockets' /\ Reachable'
  BY <1>0, BoundsAssumption DEF TypeOK, Sockets, Reachable, Requests
<1>4. StatusRemembered' /\ RequestRemembered'
  BY <1>0 DEF TypeOK, StatusRemembered, RequestRemembered, Sockets, Framing, Requests
<1>5. AlarmAlive'
  BY <1>0 DEF TypeOK, AlarmAlive, Requests
<1> QED BY <1>1, <1>2, <1>3, <1>4, <1>5

\* SIGALRM takes the place of the alarm.
LEMMA AlarmFiresInv == IInv /\ AlarmFires => IInv'
<1> SUFFICES ASSUME IInv, AlarmFires PROVE IInv'
  OBVIOUS
<1> USE DEF IInv, sockets, peer, idleServer
<1>0. pend' = pend \cup {"ALRM"} /\ armed' = FALSE /\ pc # "exited"
      /\ UNCHANGED <<idleServer, status, peer, budget>>
  BY DEF AlarmFires
<1>1. TypeOK' /\ Counted'
  BY <1>0, BoundsAssumption DEF AlarmFires, TypeOK, Counted, Labels, ClientStates, Signals, Flags, Requests
<1>2. Framing'
  BY <1>0 DEF AlarmFires, Framing, Requests
<1>3. Sockets' /\ Reachable'
  BY <1>0, BoundsAssumption DEF AlarmFires, TypeOK, Sockets, Reachable, Requests
<1>4. StatusRemembered' /\ RequestRemembered'
  BY <1>0 DEF AlarmFires, TypeOK, StatusRemembered, RequestRemembered, Sockets, Framing, Requests
<1>5. AlarmAlive'
  BY <1>0 DEF AlarmFires, TypeOK, AlarmAlive, Requests
<1> QED BY <1>1, <1>2, <1>3, <1>4, <1>5

\* SIGINT changes nothing else.
LEMMA InterruptInv == IInv /\ Interrupt => IInv'
<1> SUFFICES ASSUME IInv, Interrupt PROVE IInv'
  OBVIOUS
<1> USE DEF IInv, sockets, peer, idleServer
<1>0. /\ pend' = pend \cup {"INT"} /\ UNCHANGED <<armed, idleServer, status, peer>>
      /\ budget' \in [status : 0..MaxStatuses, request : 0..MaxRequests,
                      connect : 0..MaxConnects, fail : 0..MaxFails, int : 0..1]
      /\ budget'.fail = budget.fail /\ budget'.status = budget.status
  BY Spent DEF Interrupt
<1>1. TypeOK' /\ Counted'
  BY <1>0, TypeParts, BoundsAssumption DEF TypeOK, Counted, Labels, ClientStates, Signals, Flags, Requests
<1>2. Framing'
  BY <1>0 DEF Framing, Requests
<1>3. Sockets' /\ Reachable'
  BY <1>0, BoundsAssumption DEF TypeOK, Sockets, Reachable, Requests
<1>4. StatusRemembered' /\ RequestRemembered'
  BY <1>0 DEF TypeOK, StatusRemembered, RequestRemembered, Sockets, Framing, Requests
<1>5. AlarmAlive'
  BY <1>0 DEF TypeOK, AlarmAlive, Requests
<1> QED BY <1>1, <1>2, <1>3, <1>4, <1>5

\* The client connects to a server that listens.
LEMMA ConnectInv == IInv /\ Connect => IInv'
<1> SUFFICES ASSUME IInv, Connect PROVE IInv'
  OBVIOUS
<1> USE DEF IInv, sockets, peer, idleServer
<1>0. /\ client = "off" /\ wire = <<>> /\ wire' = <<>> /\ server /\ client' = "idle" /\ heard' = FALSE
      /\ pend' = pend \cup {"IO"} /\ UNCHANGED <<armed, idleServer, status>>
      /\ budget' \in [status : 0..MaxStatuses, request : 0..MaxRequests,
                      connect : 0..MaxConnects, fail : 0..MaxFails, int : 0..1]
      /\ budget'.fail = budget.fail /\ budget'.status = budget.status
      /\ pc \notin Requests \cup {"payload"}
  BY WireIs, Spent DEF Connect
<1>1. TypeOK' /\ Counted'
  BY <1>0, TypeParts, BoundsAssumption DEF TypeOK, Counted, Labels, ClientStates, Signals, Flags, Requests
<1>2. Framing'
  BY <1>0 DEF Framing, Requests
<1>3. Sockets' /\ Reachable'
  BY <1>0, BoundsAssumption DEF TypeOK, Sockets, Reachable, Requests
<1>4. StatusRemembered' /\ RequestRemembered'
  BY <1>0 DEF TypeOK, StatusRemembered, RequestRemembered, Sockets, Framing, Requests
<1>5. AlarmAlive'
  BY <1>0 DEF TypeOK, AlarmAlive, Requests
<1> QED BY <1>1, <1>2, <1>3, <1>4, <1>5

\* The header is sent when there is nothing else.
LEMMA SendHeadInv == IInv /\ SendHead => IInv'
<1> SUFFICES ASSUME IInv, SendHead PROVE IInv'
  OBVIOUS
<1> USE DEF IInv, sockets, peer, idleServer
<1>0. /\ client' = "sending" /\ wire' = <<"head">> /\ UNCHANGED <<armed, idleServer, status>>
      /\ budget' \in [status : 0..MaxStatuses, request : 0..MaxRequests,
                      connect : 0..MaxConnects, fail : 0..MaxFails, int : 0..1]
      /\ budget'.fail = budget.fail /\ budget'.status = budget.status
      /\ pc \notin Requests \cup {"payload"}
  <2>1. wire = <<>> /\ pc \notin Requests \cup {"payload"}
    BY WireIs DEF SendHead
  <2>2. wire' = <<"head">>
    BY <2>1, One DEF SendHead, Arrive
  <2> QED BY <2>1, <2>2, Spent DEF SendHead
<1>a. /\ wire' \in Seq(Pieces) /\ heard' \in BOOLEAN /\ pend' \subseteq Signals
      /\ pend \subseteq pend' /\ (heard' => async /\ "IO" \in pend')
  BY Arrives DEF SendHead, Pieces
<1>1. TypeOK' /\ Counted'
  BY <1>0, <1>a, TypeParts, BoundsAssumption DEF TypeOK, Counted, Labels, ClientStates, Signals, Flags, Requests
<1>2. Framing'
  <2>1. pc' = pc /\ pc \notin Requests \cup {"payload"}
    BY <1>0
  <2> QED BY <1>0, <2>1, Zenon DEF Framing
<1>3. Sockets' /\ Reachable'
  BY <1>0, <1>a, BoundsAssumption DEF TypeOK, Sockets, Reachable, Requests
<1>4. StatusRemembered' /\ RequestRemembered'
  BY <1>0, <1>a DEF TypeOK, StatusRemembered, RequestRemembered, Sockets, Framing, Requests
<1>5. AlarmAlive'
  BY <1>0, <1>a DEF TypeOK, AlarmAlive, Requests
<1> QED BY <1>1, <1>2, <1>3, <1>4, <1>5

\* The payload follows its header.
LEMMA SendPayloadInv == IInv /\ SendPayload => IInv'
<1> SUFFICES ASSUME IInv, SendPayload PROVE IInv'
  OBVIOUS
<1> USE DEF IInv, sockets, peer, idleServer
<1>0. PICK r \in Requests : Arrive(r)
  BY DEF SendPayload
<1>a. /\ wire' \in Seq(Pieces) /\ heard' \in BOOLEAN /\ pend' \subseteq Signals
      /\ pend \subseteq pend' /\ (heard' => async /\ "IO" \in pend')
  BY <1>0, Arrives DEF Pieces
<1>b. /\ client' = "waiting"
      /\ \/ pc = "payload" /\ wire' = <<r>>
         \/ pc \notin Requests \cup {"payload"} /\ wire' = <<"head", r>>
      /\ UNCHANGED <<armed, idleServer, status, budget>>
  <2>1. \/ pc = "payload" /\ wire = <<>>
        \/ pc \notin Requests \cup {"payload"} /\ wire = <<"head">>
    BY WireIs DEF SendPayload
  <2>2. wire' = Append(wire, r)
    BY <1>0 DEF Arrive
  <2>3. Append(<<>>, r) = <<r>> /\ Append(<<"head">>, r) = <<"head", r>>
    BY One, Two
  <2> QED BY <2>1, <2>2, <2>3 DEF SendPayload
<1>1. TypeOK' /\ Counted'
  BY <1>0, <1>a, <1>b, TypeParts, BoundsAssumption DEF TypeOK, Counted, Labels, ClientStates, Signals, Flags, Requests
<1>2. Framing'
  <2>1. pc' = pc /\ (pc = "payload" => pc \notin Requests)
    BY <1>b DEF Requests
  <2> QED BY <1>b, <2>1, Zenon DEF Framing
<1>3. Sockets' /\ Reachable'
  BY <1>0, <1>a, <1>b, BoundsAssumption DEF TypeOK, Sockets, Reachable, Requests
<1>4. StatusRemembered' /\ RequestRemembered'
  BY <1>0, <1>a, <1>b DEF TypeOK, StatusRemembered, RequestRemembered, Sockets, Framing, Requests
<1>5. AlarmAlive'
  BY <1>0, <1>a, <1>b DEF TypeOK, AlarmAlive, Requests
<1> QED BY <1>1, <1>2, <1>3, <1>4, <1>5

\* The end follows everything else.
LEMMA CloseInv == IInv /\ Close => IInv'
<1> SUFFICES ASSUME IInv, Close PROVE IInv'
  OBVIOUS
<1> USE DEF IInv, sockets, peer, idleServer
<1>0. /\ wire' \in Seq(Pieces) /\ heard' \in BOOLEAN /\ pend' \subseteq Signals
      /\ pend \subseteq pend' /\ (heard' => async /\ "IO" \in pend')
  BY Arrives DEF Close, Pieces
<1>a. /\ client # "off" /\ client' = "off" /\ wire' = Append(wire, "EOF")
      /\ UNCHANGED <<armed, idleServer, status, budget>>
  BY DEF Close, Arrive
<1>1. TypeOK' /\ Counted'
  BY <1>0, <1>a, TypeParts, BoundsAssumption DEF TypeOK, Counted, Labels, ClientStates, Signals, Flags, Requests
<1>2. Framing'
  <2>1. pc' = pc
    BY <1>a
  <2>2. pc \in Requests => pc # "payload"
    BY DEF Requests
  <2> QED BY <1>a, <2>1, <2>2, ArrivesLast, Zenon DEF Framing
<1>3. Sockets' /\ Reachable'
  BY <1>0, <1>a, BoundsAssumption DEF TypeOK, Sockets, Reachable, Requests
<1>4. StatusRemembered' /\ RequestRemembered'
  BY <1>0, <1>a DEF TypeOK, StatusRemembered, RequestRemembered, Sockets, Framing, Requests
<1>5. AlarmAlive'
  BY <1>0, <1>a DEF TypeOK, AlarmAlive, Requests
<1> QED BY <1>1, <1>2, <1>3, <1>4, <1>5

------------------------------------------------------------------------------
(* Theorems                                                                 *)

\* The invariant is inductive.
LEMMA NextInv == IInv /\ [Next]_vars => IInv'
<1> SUFFICES ASSUME IInv, [Next]_vars PROVE IInv'
  OBVIOUS
<1>1. CASE UNCHANGED vars
  BY <1>1 DEF vars, sockets, peer, IInv, TypeOK, Counted, Framing, Sockets, Reachable,
              StatusRemembered, RequestRemembered, AlarmAlive
<1>2. CASE Server
  BY <1>2, StartInv, signal_waitInv, cleanupInv, loopInv, wait_mainInv, comm_answerInv,
     comm_enable_async_ioInv, DisconnectInv, NoDataInv, comm_got_dataInv, RespondInv, Zenon
     DEF Server
<1>3. CASE ~Server /\ Next
  BY <1>3, ChildStatusInv, AlarmFiresInv, InterruptInv, ConnectInv, SendHeadInv, SendPayloadInv,
     CloseInv, Zenon DEF Next
<1> QED BY <1>1, <1>2, <1>3

\* It holds always.
LEMMA InvHolds == Spec => []IInv
BY InitInv, NextInv, PTL DEF Spec

\* The state keeps its type: what is read as the type of a packet is one
\* (communication.c:196).
THEOREM TypeCorrect == Spec => []TypeOK
<1>1. IInv => TypeOK
  BY DEF IInv
<1> QED BY <1>1, InvHolds, PTL

\* Headers are read as headers and payloads as payloads, for any number of
\* requests and connections and wherever the client stops.
THEOREM PacketsFramed == Spec => []Framing
<1>1. IInv => Framing
  BY DEF IInv
<1> QED BY <1>1, InvHolds, PTL

\* The server listens or has a connection, never both, and has one of them
\* until comm_init_server fails; a connection the client has closed still has
\* its end to be read.
THEOREM OneSocket == Spec => [](Sockets /\ Reachable)
<1>1. IInv => Sockets /\ Reachable
  BY DEF IInv
<1> QED BY <1>1, InvHolds, PTL

\* The safety part of StatusesHandled, RequestAnswered and ListensAgain: no
\* status, request or end of a connection is there without a signal or a flag
\* that leads the loop to it, and a server that sleeps is woken.
THEOREM NothingForgotten == Spec => [](StatusRemembered /\ RequestRemembered /\ WakesUp)
<1>1. IInv => StatusRemembered /\ RequestRemembered /\ WakesUp
  BY DEF IInv, AlarmAlive, WakesUp
<1> QED BY <1>1, InvHolds, PTL

\* The safety part of QuitEnds: no step forgets that the server is to end.
THEOREM QuitKept == Spec => QuitStays
<1>1. IInv /\ [Next]_vars => ["quit" \in flag => "quit" \in flag']_vars
  <2> SUFFICES ASSUME TypeOK, Next, "quit" \in flag PROVE "quit" \in flag'
    BY DEF IInv
  <2>1. ASSUME NEW f, "quit" \in f, Return(f) PROVE "quit" \in flag'
    BY <2>1, Returns
  <2>2. CASE Server
    <3>1. CASE Start \/ cleanup \/ comm_got_data
      BY <3>1 DEF Start, cleanup, comm_got_data
    <3>2. CASE signal_wait \/ wait_main
      BY <3>2 DEF signal_wait, wait_main, Exhausted
    <3>3. CASE loop
      BY <3>3 DEF loop
    <3>4. CASE comm_answer \/ comm_enable_async_io \/ Disconnect \/ NoData
      BY <2>1, <3>4 DEF comm_answer, comm_enable_async_io, Disconnect, NoData
    <3>5. CASE Respond
      <4>1. "quit" \in (IF pc = "QUIT" THEN flag \cup {"quit"} ELSE flag)
        OBVIOUS
      <4> QED BY <2>1, <3>5, <4>1 DEF Respond
    <3> QED BY <2>2, <3>1, <3>2, <3>3, <3>4, <3>5, Zenon DEF Server
  <2>3. CASE ~Server
    BY <2>3 DEF Next, ChildStatus, AlarmFires, Interrupt, Connect, SendHead, SendPayload, Close,
                idleServer
  <2> QED BY <2>2, <2>3
<1> QED BY <1>1, InvHolds, PTL DEF Spec, QuitStays
==============================================================================
